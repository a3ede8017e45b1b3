--------------------------- MODULE ChannelProofs ---------------------------
(***************************************************************************)
(* The Channel for all windows, retry limits, messages and any number of   *)
(* frames in flight.                                                       *)
(*                                                                         *)
(* The two cores are related by the log of what each has put on the wire.  *)
(* A copy of a frame that is anywhere agrees with the sender's log, and    *)
(* logs only grow, so what the receiver holds stays a part of it; an ack   *)
(* number is never ahead of what its sender has taken, so what is retired  *)
(* has been taken; a FIN ends the log it is in, so who has taken it has    *)
(* taken everything.                                                       *)
(*                                                                         *)
(* The second half is the refinement of ReliableFifo.  What a core has     *)
(* logged and what it has queued are the chunks of the messages sent, in   *)
(* order (InOrder, QueueInOrder), and what the peer has delivered and      *)
(* holds in parts is determined by the last frame it has taken (ReadUpTo). *)
(* Every step then gives an application the next messages or nothing.      *)
(***************************************************************************)
EXTENDS Channel, SetLemmas

CoreT ==
  [state : {"closed", "syn_sent", "established", "fin_sent"},
   log : Seq(Entry), una : Nat, queue : Seq(Chunk), peer_window : Nat, closing : BOOLEAN,
   rcv_next : Nat, buffer : SUBSET Held, parts : SUBSET Chunk, stale : SUBSET Message,
   delivered : Seq(Message), window : Nat, retries : 0 .. MaxRetries, outbox : Seq(Frame),
   peer_closed : BOOLEAN, dead : BOOLEAN]

\* A copy of a sequenced frame is the entry its sender logged under that seq.
Logged(log, h) == h.seq < Len(log) /\ log[h.seq + 1] = [kind |-> h.kind, data |-> h.data]

\* A frame from a core with this log and rcv_next.
Carried(log, rcv, f) == f.ack <= rcv /\ (ConsumesSeq(f) => Logged(log, f))

\* Log m is log l or goes on after it.
Ext(l, m) == Len(l) <= Len(m) /\ \A i \in 1 .. Len(l) : m[i] = l[i]

\* Between two steps of a handler.
Base(c) ==
  /\ c \in CoreT /\ IsFiniteSet(c.buffer) /\ c.una <= Len(c.log)
  /\ \A i \in 1 .. Len(c.outbox) : Carried(c.log, c.rcv_next, c.outbox[i])

\* A FIN is the last frame of a core.
FinLast(c) ==
  \A i \in 1 .. Len(c.log) :
    c.log[i].kind = "fin" => i = Len(c.log) /\ (c.state = "fin_sent" \/ c.dead)

\* What the states mean: the handshake has consumed nothing, and all others
\* have something on the wire.
States(c) ==
  /\ ~c.dead /\ c.state = "closed" => c.log = <<>>
  /\ c.state # "closed" => c.log # <<>>
  /\ ~c.dead /\ c.state \in {"closed", "syn_sent"} =>
       c.rcv_next = 0 /\ c.buffer = {} /\ ~c.peer_closed

\* Queued data waits for an acknowledgement only.
Pumped(c) == ~c.dead /\ c.state = "established" /\ c.queue # <<>> => InFlight(c) > 0

Good(c) == Base(c) /\ FinLast(c) /\ States(c)

\* What a core has taken and holds is a part of the peer's log, and after EOF all of it.
Fits(c, log) ==
  /\ \A h \in c.buffer : Logged(log, h)
  /\ c.rcv_next <= Len(log)
  /\ c.peer_closed /\ ~c.dead =>
       /\ c.rcv_next = Len(log) /\ c.buffer = {}
       /\ log # <<>> /\ log[Len(log)].kind = "fin"

SideOK(p) ==
  /\ Good(core[p]) /\ Pumped(core[p]) /\ core[p].outbox = <<>>
  /\ Fits(core[p], core[Other(p)].log)
  /\ ~core[p].dead => core[p].una <= core[Other(p)].rcv_next

NetOK(p) ==
  \A i \in 1 .. Len(net[p]) : Carried(core[p].log, core[p].rcv_next, net[p][i])

Typed ==
  /\ core \in [Side -> CoreT] /\ net \in [Side -> Seq(Frame)] /\ sent \in [Side -> Seq(Message)]

IInv == Typed /\ \A p \in Side : SideOK(p) /\ NetOK(p)

-----------------------------------------------------------------------------
(* The two sides, logs and frames.                                         *)

\* There are two sides, each other's peer.
LEMMA Peers ==
  ASSUME NEW p \in Side
  PROVE  /\ Other(p) \in Side /\ Other(p) # p /\ Other(Other(p)) = p
         /\ \A q \in Side : q = p \/ q = Other(p)
<1>1. PICK a, b \in Side : a # b /\ Side = {a, b}
  BY TwoSides
<1>2. \E q \in Side : q # p
  BY <1>1
<1>3. Other(p) \in Side /\ Other(p) # p
  BY <1>2 DEF Other
<1>4. \E q \in Side : q # Other(p)
  BY <1>3
<1>5. Other(Other(p)) \in Side /\ Other(Other(p)) # Other(p)
  BY <1>4 DEF Other
<1> QED BY <1>1, <1>3, <1>5

\* Sequences of a kind make a sequence of the kind.
LEMMA Concat ==
  ASSUME NEW S, NEW a \in Seq(S), NEW b \in Seq(S)
  PROVE  a \o b \in Seq(S)
OBVIOUS

\* Appending is concatenation.
LEMMA Appended ==
  ASSUME NEW S, NEW a \in Seq(S), NEW x \in S
  PROVE  Append(a, x) = a \o <<x>>
OBVIOUS

\* Extension is transitive, and appending extends.
LEMMA ExtTrans ==
  ASSUME NEW l \in Seq(Entry), NEW m \in Seq(Entry), NEW n \in Seq(Entry), Ext(l, m), Ext(m, n)
  PROVE  Ext(l, n)
<1>1. Len(l) \in Nat /\ Len(m) \in Nat /\ Len(n) \in Nat /\ Len(l) <= Len(m) /\ Len(m) <= Len(n)
  BY DEF Ext
<1>2. ASSUME NEW i \in 1 .. Len(l) PROVE n[i] = l[i]
  <2>1. i \in 1 .. Len(m)
    BY <1>1
  <2> QED BY <2>1 DEF Ext
<1> QED BY <1>1, <1>2 DEF Ext

\* What is logged stays logged.
LEMMA LoggedExt ==
  ASSUME NEW l \in Seq(Entry), NEW m \in Seq(Entry), Ext(l, m), NEW h, h.seq \in Nat, Logged(l, h)
  PROVE  Logged(m, h)
<1>1. Len(l) \in Nat /\ Len(m) \in Nat /\ Len(l) <= Len(m) /\ h.seq < Len(l)
  BY DEF Ext, Logged
<1>2. h.seq + 1 \in 1 .. Len(l)
  BY <1>1
<1>3. m[h.seq + 1] = l[h.seq + 1]
  BY <1>2 DEF Ext
<1> QED BY <1>1, <1>3 DEF Logged

\* What was carried can be carried later.
LEMMA CarriedExt ==
  ASSUME NEW l \in Seq(Entry), NEW m \in Seq(Entry), Ext(l, m), NEW r \in Nat, NEW t \in Nat, r <= t,
         NEW f \in Frame, Carried(l, r, f)
  PROVE  Carried(m, t, f)
<1>1. f.seq \in Nat /\ f.ack \in Nat
  BY DEF Frame
<1>2. f.ack <= t
  BY <1>1 DEF Carried
<1>3. ConsumesSeq(f) => Logged(m, f)
  BY <1>1, LoggedExt DEF Carried
<1> QED BY <1>2, <1>3 DEF Carried

\* More entries at the end of a log.
LEMMA LogMore ==
  ASSUME NEW l \in Seq(Entry), NEW e \in Seq(Entry)
  PROVE  /\ l \o e \in Seq(Entry) /\ Len(l \o e) = Len(l) + Len(e) /\ Len(l) \in Nat /\ Len(e) \in Nat
         /\ \A i \in 1 .. Len(l) : (l \o e)[i] = l[i]
         /\ \A i \in 1 .. Len(e) : (l \o e)[Len(l) + i] = e[i]
         /\ \A i \in 1 .. Len(l) + Len(e) : i \notin 1 .. Len(l) => \E j \in 1 .. Len(e) : i = Len(l) + j
         /\ Ext(l, l \o e)
<1>1. /\ l \o e \in Seq(Entry) /\ Len(l \o e) = Len(l) + Len(e) /\ Len(l) \in Nat /\ Len(e) \in Nat
      /\ \A i \in 1 .. Len(l) : (l \o e)[i] = l[i]
  OBVIOUS
<1>2. \A i \in 1 .. Len(e) : (l \o e)[Len(l) + i] = e[i]
  OBVIOUS
<1>3. ASSUME NEW i \in 1 .. Len(l) + Len(e), i \notin 1 .. Len(l)
      PROVE  \E j \in 1 .. Len(e) : i = Len(l) + j
  <2>1. i - Len(l) \in 1 .. Len(e) /\ i = Len(l) + (i - Len(l))
    BY <1>1, <1>3
  <2> QED BY <2>1
<1>4. Ext(l, l \o e)
  BY <1>1 DEF Ext
<1> QED BY <1>1, <1>2, <1>3, <1>4

\* A core after one more batch of frames: the log has grown, and each new frame is
\* stamped with the core's rcv_next and agrees with the log.
LEMMA Batch ==
  ASSUME NEW c, Base(c), NEW e \in Seq(Entry), NEW o \in Seq(Frame),
         NEW d \in CoreT, d.log = c.log \o e, d.outbox = c.outbox \o o,
         d.rcv_next = c.rcv_next, d.buffer = c.buffer, d.una = c.una,
         \A i \in 1 .. Len(o) : Carried(c.log \o e, c.rcv_next, o[i])
  PROVE  Base(d) /\ Ext(c.log, d.log)
<1>1. c.log \in Seq(Entry) /\ c.outbox \in Seq(Frame) /\ c.rcv_next \in Nat /\ c.una \in Nat
  BY DEF Base, CoreT
<1>2. /\ d.log \in Seq(Entry) /\ Len(d.log) = Len(c.log) + Len(e) /\ Len(c.log) \in Nat /\ Len(e) \in Nat
      /\ Ext(c.log, d.log)
  BY <1>1, LogMore
<1>3. d.una <= Len(d.log)
  BY <1>1, <1>2 DEF Base
<1>4. ASSUME NEW i \in 1 .. Len(d.outbox) PROVE Carried(d.log, d.rcv_next, d.outbox[i])
  <2>1. Len(d.outbox) = Len(c.outbox) + Len(o) /\ Len(c.outbox) \in Nat /\ Len(o) \in Nat
    BY <1>1
  <2>2. CASE i \in 1 .. Len(c.outbox)
    <3>1. d.outbox[i] = c.outbox[i]
      <4>1. PICK w \in Seq(Frame) : w = c.outbox
        BY <1>1
      <4>2. (w \o o)[i] = w[i]
        BY <2>2, <4>1
      <4> QED BY <4>1, <4>2
    <3>2. c.outbox[i] \in Frame
      <4>1. PICK w \in Seq(Frame) : w = c.outbox
        BY <1>1
      <4> QED BY <2>2, <4>1
    <3>3. Carried(c.log, c.rcv_next, c.outbox[i])
      BY <2>2 DEF Base
    <3>4. Carried(d.log, c.rcv_next, c.outbox[i])
      <4>1. c.rcv_next <= c.rcv_next
        BY <1>1
      <4> QED BY <1>1, <1>2, <3>2, <3>3, <4>1, CarriedExt
    <3> QED BY <3>1, <3>4
  <2>3. CASE i \notin 1 .. Len(c.outbox)
    <3>1. PICK j \in 1 .. Len(o) : i = Len(c.outbox) + j
      <4>1. i - Len(c.outbox) \in 1 .. Len(o) /\ i = Len(c.outbox) + (i - Len(c.outbox))
        BY <2>1, <2>3
      <4> QED BY <4>1
    <3>2. d.outbox[i] = o[j]
      BY <1>1, <3>1
    <3> QED BY <3>2
  <2> QED BY <2>2, <2>3
<1> QED BY <1>2, <1>3, <1>4 DEF Base

-----------------------------------------------------------------------------
(* Sending.                                                                *)

\* What sending leaves alone.
Keeps(c, d) ==
  /\ d.una = c.una /\ d.rcv_next = c.rcv_next /\ d.buffer = c.buffer
  /\ d.peer_closed = c.peer_closed /\ d.dead = c.dead

\* A frame the core stamps now.
LEMMA StampType ==
  ASSUME NEW c, Base(c), NEW kind \in {"syn", "synack", "data", "fin", "ack", "rst"},
         NEW data \in Chunk \cup {NoChunk}, NEW seq \in Nat
  PROVE  /\ Stamp(c, kind, data, seq) \in Frame
         /\ Stamp(c, kind, data, seq).ack = c.rcv_next /\ Stamp(c, kind, data, seq).kind = kind
         /\ Stamp(c, kind, data, seq).data = data /\ Stamp(c, kind, data, seq).seq = seq
<1>1. c.rcv_next \in Nat /\ c.window \in Nat
  BY DEF Base, CoreT
<1> QED BY <1>1 DEF Stamp, Frame

\* A frame is logged and put in the outbox.
LEMMA EmitType ==
  ASSUME NEW c, Base(c), NEW kind \in {"syn", "synack", "fin"}
  PROVE  LET d == EmitReliable(c, kind) IN
         /\ Base(d) /\ Keeps(c, d) /\ Ext(c.log, d.log)
         /\ d.log = Append(c.log, [kind |-> kind, data |-> NoChunk])
         /\ d.state = c.state /\ d.queue = c.queue /\ d.closing = c.closing
<1>1. c \in CoreT /\ c.log \in Seq(Entry) /\ c.outbox \in Seq(Frame) /\ c.rcv_next \in Nat
  BY DEF Base, CoreT
<1>2. PICK e \in Entry : e = [kind |-> kind, data |-> NoChunk]
  BY DEF Entry
<1>3. PICK f \in Frame : /\ f = Stamp(c, kind, NoChunk, Len(c.log)) /\ f.ack = c.rcv_next
                         /\ f.kind = kind /\ f.data = NoChunk /\ f.seq = Len(c.log)
  <2>1. NoChunk \in Chunk \cup {NoChunk} /\ Len(c.log) \in Nat
        /\ kind \in {"syn", "synack", "data", "fin", "ack", "rst"}
    BY <1>1
  <2>2. c.rcv_next \in Nat /\ c.window \in Nat
    BY <1>1 DEF CoreT
  <2>3. PICK f : f = Stamp(c, kind, NoChunk, Len(c.log))
    OBVIOUS
  <2>4. f.ack = c.rcv_next /\ f.kind = kind /\ f.data = NoChunk /\ f.seq = Len(c.log)
    BY <2>3 DEF Stamp
  <2>5. f \in Frame
    BY <2>1, <2>2, <2>3 DEF Stamp, Frame
  <2> QED BY <2>3, <2>4, <2>5
<1>4. PICK d : d = EmitReliable(c, kind)
  OBVIOUS
<1>5. d = [c EXCEPT !.log = c.log \o <<e>>, !.outbox = c.outbox \o <<f>>]
  <2>1. Append(c.log, e) = c.log \o <<e>>
    BY <1>1, Appended
  <2>2. Append(c.outbox, f) = c.outbox \o <<f>>
    BY <1>1, Appended
  <2> QED BY <1>2, <1>3, <1>4, <2>1, <2>2 DEF EmitReliable
<1>6. <<e>> \in Seq(Entry) /\ <<f>> \in Seq(Frame) /\ Len(<<f>>) = 1 /\ <<f>>[1] = f /\ <<e>>[1] = e
      /\ Len(<<e>>) = 1
  OBVIOUS
<1>7. PICK l \in Seq(Entry) : l = c.log \o <<e>>
  BY <1>1, <1>6, Concat
<1>8. PICK o \in Seq(Frame) : o = c.outbox \o <<f>>
  BY <1>1, <1>6, Concat
<1>9. /\ d \in CoreT /\ d.log = l /\ d.outbox = o /\ Keeps(c, d)
      /\ d.state = c.state /\ d.queue = c.queue /\ d.closing = c.closing
  BY <1>1, <1>5, <1>7, <1>8 DEF CoreT, Keeps
<1>10. Carried(l, c.rcv_next, f)
  <2>1. Len(l) = Len(c.log) + 1 /\ l[Len(c.log) + 1] = e /\ Len(c.log) \in Nat
    BY <1>1, <1>6, <1>7, LogMore
  <2>2. Logged(l, f)
    BY <1>2, <1>3, <2>1 DEF Logged
  <2> QED BY <1>1, <1>3, <2>2 DEF Carried
<1>11. \A i \in 1 .. Len(<<f>>) : Carried(c.log \o <<e>>, c.rcv_next, <<f>>[i])
  BY <1>6, <1>7, <1>10
<1>12. Base(d) /\ Ext(c.log, d.log)
  BY <1>6, <1>7, <1>8, <1>9, <1>11, Batch DEF Keeps
<1>13. d.log = Append(c.log, [kind |-> kind, data |-> NoChunk])
  BY <1>1, <1>2, <1>7, <1>9
<1> QED BY <1>4, <1>9, <1>12, <1>13

\* An ack is put in the outbox.
LEMMA PureAckType ==
  ASSUME NEW c, Base(c)
  PROVE  LET d == EmitPureAck(c) IN
         /\ Base(d) /\ Keeps(c, d) /\ d.log = c.log
         /\ d.state = c.state /\ d.queue = c.queue /\ d.closing = c.closing
<1>1. c \in CoreT /\ c.log \in Seq(Entry) /\ c.outbox \in Seq(Frame) /\ c.rcv_next \in Nat
  BY DEF Base, CoreT
<1>2. PICK f \in Frame : f = Stamp(c, "ack", NoChunk, Len(c.log)) /\ f.ack = c.rcv_next /\ f.kind = "ack"
  <2>1. NoChunk \in Chunk \cup {NoChunk} /\ Len(c.log) \in Nat
    BY <1>1
  <2>2. PICK k \in {"syn", "synack", "data", "fin", "ack", "rst"} : k = "ack"
    OBVIOUS
  <2>3. Stamp(c, k, NoChunk, Len(c.log)) \in Frame /\ Stamp(c, k, NoChunk, Len(c.log)).ack = c.rcv_next
        /\ Stamp(c, k, NoChunk, Len(c.log)).kind = k
    <3>1. c.rcv_next \in Nat /\ c.window \in Nat
      BY <1>1 DEF CoreT
    <3> QED BY <2>1, <3>1 DEF Stamp, Frame
  <2> QED BY <2>2, <2>3
<1>3. PICK d : d = EmitPureAck(c)
  OBVIOUS
<1>4. <<f>> \in Seq(Frame) /\ Len(<<f>>) = 1 /\ <<f>>[1] = f /\ <<>> \in Seq(Entry)
      /\ c.log \o <<>> = c.log
  BY <1>1
<1>5. PICK o \in Seq(Frame) : o = c.outbox \o <<f>>
  BY <1>1, <1>4, Concat
<1>6. d = [c EXCEPT !.outbox = o]
  <2>1. Append(c.outbox, f) = c.outbox \o <<f>>
    BY <1>1, Appended
  <2> QED BY <1>2, <1>3, <1>5, <2>1 DEF EmitPureAck
<1>7. /\ d \in CoreT /\ d.log = c.log \o <<>> /\ d.outbox = o /\ Keeps(c, d)
      /\ d.state = c.state /\ d.queue = c.queue /\ d.closing = c.closing
  BY <1>1, <1>4, <1>6 DEF CoreT, Keeps
<1>8. Carried(c.log \o <<>>, c.rcv_next, f)
  BY <1>1, <1>2 DEF Carried, ConsumesSeq
<1>9. \A i \in 1 .. Len(<<f>>) : Carried(c.log \o <<>>, c.rcv_next, <<f>>[i])
  BY <1>4, <1>8
<1>10. Base(d)
  BY <1>4, <1>5, <1>7, <1>9, Batch DEF Keeps
<1> QED BY <1>3, <1>4, <1>7, <1>10

\* The room in the window.
LEMMA RoomType ==
  ASSUME NEW c, Base(c)
  PROVE  /\ Room(c) \in 0 .. Len(c.queue) /\ Len(c.queue) \in Nat
         /\ Room(c) # Len(c.queue) => Room(c) + InFlight(c) >= 1
<1>1. Len(c.log) \in Nat /\ c.una \in Nat /\ c.una <= Len(c.log) /\ c.peer_window \in Nat
  BY DEF Base, CoreT
<1>2. Len(c.queue) \in Nat
  BY DEF Base, CoreT
<1>3. PICK k \in Nat : k = InFlight(c)
  BY <1>1 DEF InFlight
<1>4. PICK n \in Nat : n = SendLimit(c) /\ n >= 1
  BY <1>1 DEF SendLimit
<1> QED BY <1>2, <1>3, <1>4 DEF Room

\* Queued chunks go on the wire.
LEMMA PumpDataType ==
  ASSUME NEW c, Base(c)
  PROVE  LET d == PumpData(c) IN
         /\ Base(d) /\ Keeps(c, d) /\ Ext(c.log, d.log)
         /\ d.state = c.state /\ d.closing = c.closing
         /\ \A i \in 1 .. Len(d.log) : i \in 1 .. Len(c.log) \/ d.log[i].kind = "data"
         /\ d.queue # <<>> => InFlight(d) > 0
<1>1. c \in CoreT /\ c.log \in Seq(Entry) /\ c.outbox \in Seq(Frame) /\ c.rcv_next \in Nat /\ c.una \in Nat
      /\ c.queue \in Seq(Chunk) /\ c.una <= Len(c.log) /\ Len(c.log) \in Nat
  BY DEF Base, CoreT
<1>2. PICK n \in 0 .. Len(c.queue) : n = Room(c) /\ (n # Len(c.queue) => n + InFlight(c) >= 1)
  BY RoomType
<1>3. Len(c.queue) \in Nat /\ n \in Nat
  BY <1>1
<1>4. \A i \in 1 .. n : c.queue[i] \in Chunk
  BY <1>1, <1>3
<1>5. PICK e : e = [i \in 1 .. n |-> [kind |-> "data", data |-> c.queue[i]]]
  OBVIOUS
<1>6. e \in Seq(Entry) /\ Len(e) = n /\ \A i \in 1 .. n : e[i] = [kind |-> "data", data |-> c.queue[i]]
  <2>1. \A i \in 1 .. n : [kind |-> "data", data |-> c.queue[i]] \in Entry
    BY <1>4 DEF Entry
  <2> QED BY <1>3, <1>5, <2>1
<1>7. PICK o : o = [i \in 1 .. n |-> Stamp(c, "data", c.queue[i], Len(c.log) + i - 1)]
  OBVIOUS
<1>8. ASSUME NEW i \in 1 .. n
      PROVE  LET f == Stamp(c, "data", c.queue[i], Len(c.log) + i - 1) IN
             /\ f \in Frame /\ f.ack = c.rcv_next /\ f.kind = "data" /\ f.data = c.queue[i]
             /\ f.seq = Len(c.log) + i - 1
  <2>1. Len(c.log) + i - 1 \in Nat /\ c.queue[i] \in Chunk \cup {NoChunk}
    BY <1>1, <1>3, <1>4
  <2>2. c.rcv_next \in Nat /\ c.window \in Nat
    BY <1>1 DEF CoreT
  <2> QED BY <2>1, <2>2 DEF Stamp, Frame
<1>9. o \in Seq(Frame) /\ Len(o) = n /\ \A i \in 1 .. n : o[i] = Stamp(c, "data", c.queue[i], Len(c.log) + i - 1)
  BY <1>3, <1>7, <1>8
<1>10. PICK l \in Seq(Entry) :
         /\ l = c.log \o e /\ Len(l) = Len(c.log) + n /\ Ext(c.log, l)
         /\ \A i \in 1 .. n : l[Len(c.log) + i] = e[i]
         /\ \A i \in 1 .. Len(c.log) + n : i \notin 1 .. Len(c.log) => \E j \in 1 .. n : i = Len(c.log) + j
  <2>1. PICK l : l = c.log \o e
    OBVIOUS
  <2>2. l \in Seq(Entry) /\ Len(l) = Len(c.log) + n /\ Ext(c.log, l)
    BY <1>1, <1>6, <2>1, LogMore
  <2>3. \A i \in 1 .. n : l[Len(c.log) + i] = e[i]
    BY <1>1, <1>6, <2>1, LogMore
  <2>4. \A i \in 1 .. Len(c.log) + n : i \notin 1 .. Len(c.log) => \E j \in 1 .. n : i = Len(c.log) + j
    BY <1>1, <1>6, LogMore
  <2> QED BY <2>1, <2>2, <2>3, <2>4
<1>11. PICK w \in Seq(Frame) : w = c.outbox \o o
  BY <1>1, <1>9, Concat
<1>12. PICK q \in Seq(Chunk) : q = SubSeq(c.queue, n + 1, Len(c.queue)) /\ (q # <<>> => n # Len(c.queue))
  <2>1. SubSeq(c.queue, n + 1, Len(c.queue)) \in Seq(Chunk)
    <3>1. \A i \in (n + 1) .. Len(c.queue) : c.queue[i] \in Chunk
      BY <1>1, <1>3
    <3> QED BY <1>1, <1>3, <3>1
  <2>2. n = Len(c.queue) => SubSeq(c.queue, n + 1, Len(c.queue)) = <<>>
    BY <1>1, <1>3
  <2> QED BY <2>1, <2>2
<1>13. PICK d : d = PumpData(c)
  OBVIOUS
<1>14. d = [c EXCEPT !.log = l, !.queue = q, !.outbox = w]
  BY <1>2, <1>5, <1>7, <1>10, <1>11, <1>12, <1>13 DEF PumpData
<1>15. /\ d \in CoreT /\ d.log = l /\ d.outbox = w /\ d.queue = q /\ Keeps(c, d)
       /\ d.state = c.state /\ d.closing = c.closing
  BY <1>1, <1>14 DEF CoreT, Keeps
<1>16. ASSUME NEW i \in 1 .. Len(o) PROVE Carried(c.log \o e, c.rcv_next, o[i])
  <2>1. i \in 1 .. n
    BY <1>9
  <2>2. PICK f : f = o[i] /\ f.ack = c.rcv_next /\ f.kind = "data" /\ f.data = c.queue[i]
                 /\ f.seq = Len(c.log) + i - 1
    BY <1>8, <1>9, <2>1
  <2>3. f.seq < Len(l) /\ f.seq + 1 = Len(c.log) + i
    <3>1. i \in Nat /\ i >= 1 /\ i <= n /\ Len(c.log) \in Nat /\ Len(l) = Len(c.log) + n
      BY <1>1, <1>3, <1>10, <2>1
    <3> QED BY <3>1, <2>2, <1>3
  <2>4. Logged(l, f)
    BY <1>6, <1>10, <2>1, <2>2, <2>3 DEF Logged
  <2> QED BY <1>1, <1>10, <2>2, <2>4 DEF Carried
<1>17. Base(d) /\ Ext(c.log, d.log)
  <2>1. /\ d.log = c.log \o e /\ d.outbox = c.outbox \o o
        /\ d.rcv_next = c.rcv_next /\ d.buffer = c.buffer /\ d.una = c.una
    BY <1>10, <1>11, <1>15 DEF Keeps
  <2>2. \A i \in 1 .. Len(o) : Carried(c.log \o e, c.rcv_next, o[i])
    BY <1>16
  <2>3. e \in Seq(Entry) /\ o \in Seq(Frame) /\ d \in CoreT
    BY <1>6, <1>9, <1>15
  <2> QED BY <2>1, <2>2, <2>3, Batch
<1>18. ASSUME NEW i \in 1 .. Len(d.log) PROVE i \in 1 .. Len(c.log) \/ d.log[i].kind = "data"
  <2>1. CASE i \notin 1 .. Len(c.log)
    <3>1. PICK j \in 1 .. n : i = Len(c.log) + j
      BY <1>10, <1>15, <2>1
    <3>2. d.log[i] = e[j]
      BY <1>10, <1>15, <3>1
    <3> QED BY <1>6, <3>2
  <2> QED BY <2>1
<1>19. d.queue # <<>> => InFlight(d) > 0
  <2>1. InFlight(d) = InFlight(c) + n /\ InFlight(c) \in Nat
    BY <1>1, <1>3, <1>10, <1>15 DEF InFlight, Keeps
  <2> QED BY <1>2, <1>3, <1>12, <1>15, <2>1
<1> QED BY <1>13, <1>15, <1>17, <1>18, <1>19

\* Before its FIN a core that lives has none in its log.
LEMMA NoFin ==
  ASSUME NEW c, FinLast(c), ~c.dead, c.state # "fin_sent"
  PROVE  \A i \in 1 .. Len(c.log) : c.log[i].kind # "fin"
BY DEF FinLast

\* A FIN is sent.
LEMMA FinType ==
  ASSUME NEW c, Good(c), ~c.dead, c.state = "established", NEW b \in BOOLEAN
  PROVE  LET d == [EmitReliable(c, "fin") EXCEPT !.state = "fin_sent", !.closing = b] IN
         /\ Good(d) /\ Keeps(c, d) /\ Ext(c.log, d.log) /\ d.state = "fin_sent"
<1>1. PICK e : e = EmitReliable(c, "fin")
  OBVIOUS
<1>2. /\ Base(e) /\ Keeps(c, e) /\ Ext(c.log, e.log)
      /\ e.log = Append(c.log, [kind |-> "fin", data |-> NoChunk])
  <2>1. Base(c)
    BY DEF Good
  <2>2. PICK k \in {"syn", "synack", "fin"} : k = "fin"
    OBVIOUS
  <2>3. LET d == EmitReliable(c, k) IN
        Base(d) /\ Keeps(c, d) /\ Ext(c.log, d.log) /\ d.log = Append(c.log, [kind |-> k, data |-> NoChunk])
    BY <2>1, EmitType
  <2> QED BY <1>1, <2>2, <2>3
<1>3. PICK d : d = [e EXCEPT !.state = "fin_sent", !.closing = b]
  OBVIOUS
<1>4. /\ d \in CoreT /\ d.log = e.log /\ d.outbox = e.outbox /\ Keeps(e, d) /\ d.state = "fin_sent"
  <2>1. e \in CoreT
    BY <1>2 DEF Base
  <2> QED BY <1>3, <2>1 DEF CoreT, Keeps
<1>5. Base(d) /\ Keeps(c, d) /\ Ext(c.log, d.log)
  BY <1>2, <1>4 DEF Base, Keeps
<1>6. FinLast(d)
  <2>1. c.log \in Seq(Entry)
    BY DEF Good, Base, CoreT
  <2>2. PICK x \in Entry : x = [kind |-> "fin", data |-> NoChunk]
    BY DEF Entry
  <2>3. /\ Len(d.log) = Len(c.log) + 1 /\ Len(c.log) \in Nat
        /\ \A i \in 1 .. Len(c.log) : d.log[i] = c.log[i]
    BY <1>2, <1>4, <2>1, <2>2 DEF Ext
  <2>4. \A i \in 1 .. Len(c.log) : c.log[i].kind # "fin"
    BY NoFin DEF Good
  <2>5. ASSUME NEW i \in 1 .. Len(d.log), d.log[i].kind = "fin" PROVE i = Len(d.log)
    BY <2>3, <2>4, <2>5
  <2> QED BY <1>4, <2>5 DEF FinLast
<1>7. States(d)
  <2>1. d.log # <<>>
    <3>1. c.log \in Seq(Entry) /\ Len(<<>>) = 0
      BY DEF Good, Base, CoreT
    <3>2. Len(d.log) = Len(c.log) + 1 /\ Len(c.log) \in Nat
      BY <1>2, <1>4, <3>1
    <3> QED BY <3>1, <3>2
  <2> QED BY <1>4, <2>1 DEF States
<1> QED BY <1>1, <1>3, <1>4, <1>5, <1>6, <1>7 DEF Good

\* pump: afterwards queued data waits for an acknowledgement.
LEMMA PumpType ==
  ASSUME NEW c, Good(c), ~c.dead
  PROVE  Good(Pump(c)) /\ Keeps(c, Pump(c)) /\ Ext(c.log, Pump(c).log) /\ Pumped(Pump(c))
<1>1. c \in CoreT /\ c.log \in Seq(Entry) /\ Len(c.log) \in Nat
  BY DEF Good, Base, CoreT
<1>2. CASE c.state # "established"
  <2>1. Pump(c) = c
    BY <1>2 DEF Pump
  <2>2. Keeps(c, c) /\ Ext(c.log, c.log)
    BY <1>1 DEF Keeps, Ext
  <2> QED BY <1>2, <2>1, <2>2 DEF Pumped
<1>3. CASE c.state = "established"
  <2>1. PICK d : d = PumpData(c)
    OBVIOUS
  <2>2. /\ Base(d) /\ Keeps(c, d) /\ Ext(c.log, d.log) /\ d.state = "established"
        /\ \A i \in 1 .. Len(d.log) : i \in 1 .. Len(c.log) \/ d.log[i].kind = "data"
        /\ d.queue # <<>> => InFlight(d) > 0
    BY <1>3, <2>1, PumpDataType DEF Good
  <2>3. d \in CoreT /\ d.log \in Seq(Entry) /\ d.closing \in BOOLEAN /\ ~d.dead
    BY <2>2 DEF Base, CoreT, Keeps
  <2>4. FinLast(d)
    <3>1. \A i \in 1 .. Len(c.log) : c.log[i].kind # "fin" /\ d.log[i] = c.log[i]
      BY <1>3, <2>2, NoFin DEF Good, Ext
    <3> QED BY <2>2, <3>1 DEF FinLast
  <2>5. States(d)
    <3>1. c.log # <<>>
      BY <1>3 DEF Good, States
    <3>2. Len(c.log) > 0
      BY <1>1, <3>1
    <3>3. Len(d.log) > 0 /\ Len(<<>>) = 0
      BY <1>1, <2>2, <2>3, <3>2 DEF Ext
    <3>4. d.log # <<>>
      BY <3>3
    <3> QED BY <2>2, <3>4 DEF States
  <2>6. Good(d)
    BY <2>2, <2>4, <2>5 DEF Good
  <2>7. Pump(c) = PumpFin(d)
    BY <1>3, <2>1 DEF Pump
  <2>8. CASE d.closing /\ d.queue = <<>> /\ InFlight(d) < SendLimit(d)
    <3>1. PICK g : g = [EmitReliable(d, "fin") EXCEPT !.state = "fin_sent", !.closing = FALSE]
      OBVIOUS
    <3>2. Good(g) /\ Keeps(d, g) /\ Ext(d.log, g.log) /\ g.state = "fin_sent"
      BY <2>2, <2>3, <2>6, <3>1, FinType
    <3>3. Pump(c) = g
      BY <2>7, <2>8, <3>1 DEF PumpFin
    <3>4. g.log \in Seq(Entry)
      BY <3>2 DEF Good, Base, CoreT
    <3>5. Ext(c.log, g.log)
      BY <1>1, <2>2, <2>3, <3>2, <3>4, ExtTrans
    <3>6. Keeps(c, g)
      BY <2>2, <3>2 DEF Keeps
    <3> QED BY <3>2, <3>3, <3>5, <3>6 DEF Pumped
  <2>9. CASE ~(d.closing /\ d.queue = <<>> /\ InFlight(d) < SendLimit(d))
    <3>1. Pump(c) = d
      BY <2>7, <2>9 DEF PumpFin
    <3> QED BY <2>2, <2>6, <3>1 DEF Pumped
  <2> QED BY <2>8, <2>9
<1> QED BY <1>2, <1>3

\* The acknowledgement and the window of a frame.
Acked(c, n, w) == [Ack(c, n) EXCEPT !.peer_window = w]

\* ack retires at most what the frame acknowledges, and never what was not sent.
LEMMA AckedType ==
  ASSUME NEW c, Good(c), NEW n \in Nat, NEW w \in Nat
  PROVE  LET a == Acked(c, n, w) IN
         /\ Good(a) /\ a.log = c.log /\ a.state = c.state /\ a.queue = c.queue /\ a.dead = c.dead
         /\ a.rcv_next = c.rcv_next /\ a.buffer = c.buffer /\ a.peer_closed = c.peer_closed
         /\ a.una = c.una \/ a.una <= n
<1>1. c \in CoreT /\ c.una \in Nat /\ c.una <= Len(c.log) /\ Len(c.log) \in Nat /\ 0 \in 0 .. MaxRetries
  BY BoundsAssumption DEF Good, Base, CoreT
<1>2. PICK m \in Nat : m = (IF n < Len(c.log) THEN n ELSE Len(c.log))
  BY <1>1
<1>3. PICK u \in Nat : u = (IF m > c.una THEN m ELSE c.una)
  BY <1>1
<1>4. PICK r \in 0 .. MaxRetries : r = IF m > c.una THEN 0 ELSE c.retries
  BY <1>1 DEF CoreT
<1>5. PICK a : a = [c EXCEPT !.una = u, !.retries = r, !.peer_window = w]
  OBVIOUS
<1>6. Acked(c, n, w) = a
  <2>1. CASE m > c.una
    BY <1>2, <1>3, <1>4, <1>5, <2>1 DEF Acked, Ack
  <2>2. CASE ~(m > c.una)
    <3>1. Ack(c, n) = c
      BY <1>2, <2>2 DEF Ack
    <3>2. u = c.una /\ r = c.retries
      BY <1>3, <1>4, <2>2
    <3> QED BY <1>1, <1>5, <3>1, <3>2 DEF Acked, CoreT
  <2> QED BY <2>1, <2>2
<1>7. /\ a \in CoreT /\ a.log = c.log /\ a.state = c.state /\ a.queue = c.queue /\ a.dead = c.dead
      /\ a.rcv_next = c.rcv_next /\ a.buffer = c.buffer /\ a.peer_closed = c.peer_closed
      /\ a.una = u /\ a.outbox = c.outbox
  BY <1>1, <1>5 DEF CoreT
<1>8. u <= Len(c.log) /\ (u = c.una \/ u <= n)
  BY <1>1, <1>2, <1>3
<1>9. Good(a)
  BY <1>7, <1>8 DEF Good, Base, FinLast, States
<1> QED BY <1>6, <1>7, <1>8, <1>9

\* The end of a connection.
LEMMA TeardownType ==
  ASSUME NEW c, Base(c), FinLast(c)
  PROVE  LET d == Teardown(c) IN
         /\ Good(d) /\ d.log = c.log /\ d.rcv_next = c.rcv_next /\ d.buffer = c.buffer /\ d.dead
         /\ d.peer_closed = c.peer_closed
<1>1. c \in CoreT /\ Len(c.log) \in Nat /\ <<>> \in Seq(Chunk)
  BY DEF Base, CoreT
<1>2. PICK d : d = Teardown(c)
  OBVIOUS
<1>3. /\ d \in CoreT /\ d.log = c.log /\ d.rcv_next = c.rcv_next /\ d.buffer = c.buffer /\ d.dead = TRUE
      /\ d.peer_closed = c.peer_closed /\ d.una = Len(c.log) /\ d.outbox = c.outbox /\ d.state = "closed"
  BY <1>1, <1>2 DEF Teardown, CoreT
<1>4. Good(d)
  BY <1>1, <1>3 DEF Good, Base, FinLast, States
<1> QED BY <1>2, <1>3, <1>4

\* The timer fires: what is in flight is sent again as it was logged, or the
\* connection ends.
LEMMA OnTimeoutType ==
  ASSUME NEW c, Good(c), Pumped(c)
  PROVE  LET d == OnTimeout(c) IN
         /\ Good(d) /\ Pumped(d) /\ d.log = c.log /\ d.rcv_next = c.rcv_next /\ d.buffer = c.buffer
         /\ d.peer_closed = c.peer_closed /\ (d.una = c.una \/ d.dead) /\ (c.dead => d.dead)
<1>1. CASE c.retries >= MaxRetries
  <2>1. OnTimeout(c) = Teardown(c)
    BY <1>1 DEF OnTimeout
  <2> QED BY <2>1, TeardownType DEF Pumped, Good
<1>2. CASE ~(c.retries >= MaxRetries)
  <2>1. c \in CoreT /\ c.log \in Seq(Entry) /\ c.una \in Nat /\ c.una <= Len(c.log) /\ Len(c.log) \in Nat
        /\ c.outbox \in Seq(Frame) /\ c.rcv_next \in Nat /\ Base(c)
    BY DEF Good, Base, CoreT
  <2>2. PICK n \in Nat : n = InFlight(c) /\ n = Len(c.log) - c.una
    BY <2>1 DEF InFlight
  <2>3. PICK o : o = [i \in 1 .. n |-> Stamp(c, c.log[c.una + i].kind, c.log[c.una + i].data, c.una + i - 1)]
    OBVIOUS
  <2>4. ASSUME NEW i \in 1 .. n
        PROVE  /\ c.una + i \in 1 .. Len(c.log) /\ c.una + i - 1 \in Nat /\ c.log[c.una + i] \in Entry
               /\ o[i] \in Frame /\ o[i].ack = c.rcv_next /\ o[i].seq = c.una + i - 1
               /\ o[i].kind = c.log[c.una + i].kind /\ o[i].data = c.log[c.una + i].data
    <3>1. c.una + i \in 1 .. Len(c.log) /\ c.una + i - 1 \in Nat
      BY <2>1, <2>2
    <3>2. PICK x \in Entry : x = c.log[c.una + i]
      <4>1. PICK l \in Seq(Entry) : l = c.log
        BY <2>1
      <4> QED BY <3>1, <4>1
    <3>3. x.kind \in {"syn", "synack", "data", "fin", "ack", "rst"} /\ x.data \in Chunk \cup {NoChunk}
      BY DEF Entry
    <3>4. PICK kind \in {"syn", "synack", "data", "fin", "ack", "rst"}, data \in Chunk \cup {NoChunk},
               seq \in Nat : kind = x.kind /\ data = x.data /\ seq = c.una + i - 1
      BY <3>1, <3>3
    <3>5. o[i] = Stamp(c, kind, data, seq)
      BY <2>3, <3>2, <3>4
    <3>6. /\ Stamp(c, kind, data, seq) \in Frame
          /\ Stamp(c, kind, data, seq).ack = c.rcv_next /\ Stamp(c, kind, data, seq).kind = kind
          /\ Stamp(c, kind, data, seq).data = data /\ Stamp(c, kind, data, seq).seq = seq
      <4>1. c.rcv_next \in Nat /\ c.window \in Nat
        BY <2>1 DEF CoreT
      <4> QED BY <4>1 DEF Stamp, Frame
    <3> QED BY <3>1, <3>2, <3>4, <3>5, <3>6
  <2>5. o \in Seq(Frame) /\ Len(o) = n
    <3>1. \A i \in 1 .. n : o[i] \in Frame
      BY <2>4
    <3>2. o = [i \in 1 .. n |-> o[i]]
      BY <2>3
    <3> QED BY <3>1, <3>2
  <2>6. c.log \o <<>> = c.log /\ <<>> \in Seq(Entry)
    BY <2>1
  <2>7. ASSUME NEW i \in 1 .. Len(o) PROVE Carried(c.log \o <<>>, c.rcv_next, o[i])
    <3>1. i \in 1 .. n
      BY <2>5
    <3>2. PICK f : f = o[i] /\ f.ack = c.rcv_next /\ f.seq = c.una + i - 1
                   /\ f.kind = c.log[c.una + i].kind /\ f.data = c.log[c.una + i].data
      BY <2>4, <3>1
    <3>3. c.log[c.una + i] = [kind |-> f.kind, data |-> f.data]
      <4>1. PICK x \in Entry : x = c.log[c.una + i]
        BY <2>4, <3>1
      <4>2. x = [kind |-> x.kind, data |-> x.data]
        BY DEF Entry
      <4> QED BY <3>2, <4>1, <4>2
    <3>4. f.seq < Len(c.log) /\ f.seq + 1 = c.una + i
      <4>1. PICK L \in Nat, u \in Nat : L = Len(c.log) /\ u = c.una /\ n = L - u
        BY <2>1, <2>2
      <4>2. u + i - 1 < L /\ u + i - 1 + 1 = u + i
        BY <2>2, <3>1, <4>1
      <4> QED BY <3>2, <4>1, <4>2
    <3>5. Logged(c.log, f)
      BY <3>3, <3>4 DEF Logged
    <3> QED BY <2>1, <2>6, <3>2, <3>5 DEF Carried
  <2>8. PICK w \in Seq(Frame) : w = c.outbox \o o
    BY <2>1, <2>5, Concat
  <2>9. PICK r \in 0 .. MaxRetries : r = c.retries + 1
    BY <1>2, <2>1, BoundsAssumption DEF CoreT
  <2>10. PICK d : d = OnTimeout(c)
    OBVIOUS
  <2>11. d = [c EXCEPT !.retries = r, !.outbox = w]
    BY <1>2, <2>2, <2>3, <2>8, <2>9, <2>10 DEF OnTimeout
  <2>12. /\ d \in CoreT /\ d.log = c.log /\ d.outbox = w /\ Keeps(c, d) /\ d.state = c.state
         /\ d.queue = c.queue
    BY <2>1, <2>11 DEF CoreT, Keeps
  <2>13. d.log = c.log \o <<>>
    BY <2>6, <2>12
  <2>14. Base(d)
    BY <2>1, <2>5, <2>6, <2>7, <2>8, <2>12, <2>13, Batch DEF Keeps
  <2>15. Good(d) /\ Pumped(d)
    BY <2>12, <2>14 DEF Good, FinLast, States, Pumped, Keeps, InFlight
  <2> QED BY <2>10, <2>12, <2>15 DEF Keeps
<1> QED BY <1>1, <1>2

-----------------------------------------------------------------------------
(* Receiving: the run that starts at rcv_next.                             *)

\* The numbers above rcv_next of a finite buffer have a first gap, no further
\* than the buffer has frames.
LEMMA GapExists ==
  ASSUME NEW B \in SUBSET Held, IsFiniteSet(B), NEW r \in Nat
  PROVE  \E n \in 0 .. Cardinality(B) : /\ \A i \in 0 .. (n - 1) : r + i \in Seqs(B)
                                        /\ r + n \notin Seqs(B)
<1>1. PICK K \in Nat : K = Cardinality(B)
  BY FS_CardinalityType
<1>2. \E n \in 0 .. K : r + n \notin Seqs(B)
  <2>1. SUFFICES ASSUME \A n \in 0 .. K : r + n \in Seqs(B) PROVE FALSE
    OBVIOUS
  <2>2. PICK C : C = {h \in B : h.seq - r \in 0 .. K}
    OBVIOUS
  <2>3. IsFiniteSet(C) /\ Cardinality(C) <= K
    BY <1>1, <2>2, FS_Subset
  <2>4. PICK f : f = [h \in C |-> h.seq - r]
    OBVIOUS
  <2>5. f \in [C -> 0 .. K]
    BY <2>2, <2>4
  <2>6. ASSUME NEW n \in 0 .. K PROVE \E h \in C : f[h] = n
    <3>1. r + n \in Seqs(B)
      BY <2>1
    <3>2. PICK h \in B : h.seq = r + n
      BY <3>1 DEF Seqs
    <3>3. h.seq - r = n
      BY <1>1, <3>2
    <3> QED BY <2>2, <2>4, <3>3
  <2>7. f \in Surjection(C, 0 .. K)
    BY <2>5, <2>6 DEF Surjection
  <2>8. Cardinality(0 .. K) <= Cardinality(C)
    BY <2>3, <2>7, FS_Surjection
  <2>9. Cardinality(0 .. K) = K + 1
    BY <1>1, FS_Interval
  <2>10. Cardinality(C) \in Nat
    BY <2>3, FS_CardinalityType
  <2> QED BY <2>3, <2>8, <2>9, <2>10
<1>3. PICK S : S = {n \in Nat : r + n \notin Seqs(B)}
  OBVIOUS
<1>4. PICK m \in 0 .. K : r + m \notin Seqs(B)
  BY <1>2
<1>5. PICK n \in S : \A y \in S : n <= y
  <2>1. S \in SUBSET Nat /\ m \in S
    BY <1>1, <1>3, <1>4
  <2> QED BY <2>1, LeastNatural
<1>6. n \in Nat /\ n <= m /\ n \in 0 .. K /\ r + n \notin Seqs(B)
  BY <1>3, <1>4, <1>5
<1>7. ASSUME NEW i \in 0 .. (n - 1) PROVE r + i \in Seqs(B)
  <2>1. i \in Nat /\ ~(n <= i)
    BY <1>6
  <2> QED BY <1>3, <1>5, <2>1
<1> QED BY <1>1, <1>6, <1>7

\* The run is the frames from rcv_next to the first gap.
LEMMA TakenType ==
  ASSUME NEW c, Base(c)
  PROVE  /\ RunLength(c) \in Nat /\ Taken(c) \in Seq(Held) /\ Len(Taken(c)) = RunLength(c)
         /\ \A i \in 1 .. RunLength(c) : Taken(c)[i] \in c.buffer /\ Taken(c)[i].seq = c.rcv_next + i - 1
         /\ c.rcv_next + RunLength(c) \notin Seqs(c.buffer)
<1>1. c.buffer \in SUBSET Held /\ IsFiniteSet(c.buffer) /\ c.rcv_next \in Nat
  BY DEF Base, CoreT
<1>2. PICK n : n = RunLength(c)
  OBVIOUS
<1>3. /\ n \in 0 .. Cardinality(c.buffer)
      /\ \A i \in 0 .. (n - 1) : c.rcv_next + i \in Seqs(c.buffer)
      /\ c.rcv_next + n \notin Seqs(c.buffer)
  BY <1>1, <1>2, GapExists DEF RunLength
<1>4. n \in Nat
  BY <1>3
<1>5. ASSUME NEW i \in 1 .. n
      PROVE  LET h == CHOOSE h \in c.buffer : h.seq = c.rcv_next + i - 1 IN
             h \in c.buffer /\ h \in Held /\ h.seq = c.rcv_next + i - 1
  <2>1. i - 1 \in 0 .. (n - 1) /\ c.rcv_next + (i - 1) = c.rcv_next + i - 1
    BY <1>1, <1>4
  <2>2. c.rcv_next + i - 1 \in Seqs(c.buffer)
    BY <1>3, <2>1
  <2>3. \E h \in c.buffer : h.seq = c.rcv_next + i - 1
    BY <2>2 DEF Seqs
  <2> QED BY <1>1, <2>3
<1>6. Taken(c) = [i \in 1 .. n |-> CHOOSE h \in c.buffer : h.seq = c.rcv_next + i - 1]
  BY <1>2 DEF Taken
<1>7. PICK t : t = Taken(c)
  OBVIOUS
<1>8. \A i \in 1 .. n : t[i] \in c.buffer /\ t[i] \in Held /\ t[i].seq = c.rcv_next + i - 1
  BY <1>5, <1>6, <1>7
<1>9. t \in Seq(Held) /\ Len(t) = n
  BY <1>4, <1>6, <1>7, <1>8
<1> QED BY <1>2, <1>3, <1>4, <1>7, <1>8, <1>9

-----------------------------------------------------------------------------
(* Receiving: reassembly.                                                  *)

Reassembly == [parts : SUBSET Chunk, stale : SUBSET Message, delivered : Seq(Message)]

\* The reassembly of a core.
Reader(c) == [parts |-> c.parts, stale |-> c.stale, delivered |-> c.delivered]

\* A chunk is fed to the reassembler.
LEMMA FeedType ==
  ASSUME NEW r \in Reassembly, NEW x \in Chunk
  PROVE  Feed(r, x) \in Reassembly
<1>1. r.parts \in SUBSET Chunk /\ r.stale \in SUBSET Message /\ r.delivered \in Seq(Message)
  BY DEF Reassembly
<1>2. x.msg \in Message
  BY DEF Chunk
<1>3. Append(r.delivered, x.msg) \in Seq(Message)
  BY <1>1, <1>2
<1> QED BY <1>1, <1>3 DEF Feed, Reassembly

\* What one frame of a run does to the reassembly.
Fed(run, n, r) == IF run[n].data = NoChunk THEN r ELSE Feed(r, run[n].data)

\* It stays a reassembly.
LEMMA FedType ==
  ASSUME NEW run \in Seq(Held), NEW n \in 1 .. Len(run), NEW r \in Reassembly
  PROVE  Fed(run, n, r) \in Reassembly
<1>1. run[n] \in Held
  OBVIOUS
<1>2. run[n].data = NoChunk \/ run[n].data \in Chunk
  BY <1>1 DEF Held
<1> QED BY <1>2, FeedType DEF Fed

\* The frames of a run are fed one after the other.  The recursive function that
\* says so exists: a shortest run for which it did not would have a predecessor.
LEMMA FeedAllSteps ==
  ASSUME NEW c \in CoreT, NEW run \in Seq(Held)
  PROVE  \E fed : /\ fed[0] = Reader(c) /\ FeedAll(c, run) = fed[Len(run)]
                  /\ \A n \in 1 .. Len(run) : fed[n] = Fed(run, n, fed[n - 1])
                  /\ \A n \in 0 .. Len(run) : fed[n] \in Reassembly
<1>1. PICK L \in Nat : L = Len(run)
  OBVIOUS
<1>2. PICK b \in Reassembly : b = [parts |-> c.parts, stale |-> c.stale, delivered |-> c.delivered]
  BY DEF CoreT, Reassembly
<1> DEFINE Upto(k) == \E g \in [0 .. k -> Reassembly] :
                         g[0] = b /\ \A n \in 1 .. k : g[n] = Fed(run, n, g[n - 1])
<1>3. Upto(L)
  <2>1. SUFFICES ASSUME ~Upto(L) PROVE FALSE
    OBVIOUS
  <2>2. PICK S : S = {k \in 0 .. L : ~Upto(k)}
    OBVIOUS
  <2>3. S # {} /\ S \in SUBSET Nat
    BY <1>1, <2>1, <2>2
  <2>4. PICK k \in S : \A y \in S : k <= y
    BY <2>3, LeastNatural
  <2>5. k \in 0 .. L /\ k \in Nat /\ ~Upto(k)
    BY <2>2, <2>4
  <2>6. k # 0
    <3>1. SUFFICES ASSUME k = 0 PROVE Upto(k)
      BY <2>5
    <3>2. PICK g : g = [n \in 0 .. 0 |-> b]
      OBVIOUS
    <3>3. g \in [0 .. k -> Reassembly] /\ g[0] = b /\ 1 .. k = {}
      BY <3>1, <3>2
    <3> QED BY <3>3
  <2>7. k - 1 \in 0 .. L /\ k - 1 \in Nat /\ ~(k <= k - 1)
    BY <1>1, <2>5, <2>6
  <2>8. Upto(k - 1)
    BY <2>2, <2>4, <2>7
  <2>9. PICK g \in [0 .. (k - 1) -> Reassembly] :
          g[0] = b /\ \A n \in 1 .. (k - 1) : g[n] = Fed(run, n, g[n - 1])
    BY <2>8
  <2>10. g[k - 1] \in Reassembly
    BY <2>7, <2>9
  <2>11. PICK v \in Reassembly : v = Fed(run, k, g[k - 1])
    <3>1. k \in 1 .. Len(run)
      BY <1>1, <2>5, <2>6
    <3> QED BY <2>10, <3>1, FedType
  <2>12. PICK f : f = [n \in 0 .. k |-> IF n = k THEN v ELSE g[n]]
    OBVIOUS
  <2>13. f \in [0 .. k -> Reassembly]
    <3>1. \A n \in 0 .. k : n # k => n \in 0 .. (k - 1)
      BY <2>5
    <3> QED BY <2>9, <2>12, <3>1
  <2>14. f[0] = b
    BY <2>5, <2>6, <2>9, <2>12
  <2>15. ASSUME NEW n \in 1 .. k PROVE f[n] = Fed(run, n, f[n - 1])
    <3>1. n - 1 \in 0 .. k /\ n - 1 # k /\ n \in 0 .. k
      BY <2>5
    <3>2. f[n - 1] = g[n - 1]
      BY <2>12, <3>1
    <3>3. CASE n = k
      BY <2>11, <2>12, <3>1, <3>2, <3>3
    <3>4. CASE n # k
      <4>1. n \in 1 .. (k - 1)
        BY <2>5, <3>4
      <4>2. f[n] = g[n]
        BY <2>12, <3>1, <3>4
      <4> QED BY <2>9, <3>2, <4>1, <4>2
    <3> QED BY <3>3, <3>4
  <2>16. Upto(k)
    BY <2>13, <2>14, <2>15
  <2> QED BY <2>5, <2>16
<1> DEFINE E(g) == [n \in 0 .. Len(run) |->
                      IF n = 0 THEN [parts |-> c.parts, stale |-> c.stale, delivered |-> c.delivered]
                      ELSE IF run[n].data = NoChunk THEN g[n - 1] ELSE Feed(g[n - 1], run[n].data)]
<1>4. \E g : g = E(g)
  <2>1. PICK g \in [0 .. L -> Reassembly] : g[0] = b /\ \A n \in 1 .. L : g[n] = Fed(run, n, g[n - 1])
    BY <1>3
  <2>2. ASSUME NEW n \in 0 .. L PROVE g[n] = E(g)[n]
    <3>1. CASE n = 0
      BY <1>1, <1>2, <2>1, <3>1
    <3>2. CASE n # 0
      <4>1. n \in 1 .. L
        BY <1>1, <3>2
      <4>2. g[n] = Fed(run, n, g[n - 1])
        BY <2>1, <4>1
      <4>3. E(g)[n] = Fed(run, n, g[n - 1])
        BY <1>1, <3>2 DEF Fed
      <4> QED BY <4>2, <4>3
    <3> QED BY <3>1, <3>2
  <2>3. g = E(g)
    BY <1>1, <2>1, <2>2
  <2> QED BY <2>3
<1>5. PICK fed : fed = CHOOSE f : f = E(f)
  OBVIOUS
<1>6. fed = E(fed)
  <2> HIDE DEF E
  <2> QED BY <1>4, <1>5
<1>7. FeedAll(c, run) = fed[Len(run)]
  BY <1>5 DEF FeedAll
<1>8. fed[0] = b /\ \A n \in 1 .. L : fed[n] = Fed(run, n, fed[n - 1])
  <2>1. PICK e : e = E(fed) /\ e = fed
    BY <1>6
  <2>2. e[0] = b
    BY <1>1, <1>2, <2>1
  <2>3. ASSUME NEW n \in 1 .. L PROVE e[n] = Fed(run, n, fed[n - 1])
    <3>1. n \in 0 .. Len(run) /\ n # 0
      BY <1>1
    <3> QED BY <2>1, <3>1 DEF Fed
  <2> QED BY <2>1, <2>2, <2>3
<1>9. ASSUME NEW m \in 0 .. L PROVE fed[m] \in Reassembly
  <2>1. SUFFICES ASSUME fed[m] \notin Reassembly PROVE FALSE
    OBVIOUS
  <2>2. PICK S : S = {k \in 0 .. L : fed[k] \notin Reassembly}
    OBVIOUS
  <2>3. S # {} /\ S \in SUBSET Nat
    BY <1>1, <2>1, <2>2
  <2>4. PICK k \in S : \A y \in S : k <= y
    BY <2>3, LeastNatural
  <2>5. k \in 0 .. L /\ k \in Nat /\ fed[k] \notin Reassembly
    BY <2>2, <2>4
  <2>6. k # 0
    BY <1>8, <2>5
  <2>7. k - 1 \in 0 .. L /\ ~(k <= k - 1) /\ k \in 1 .. L
    BY <1>1, <2>5, <2>6
  <2>8. fed[k - 1] \in Reassembly
    BY <2>2, <2>4, <2>7
  <2>9. Fed(run, k, fed[k - 1]) \in Reassembly
    BY <1>1, <2>7, <2>8, FedType
  <2> QED BY <1>8, <2>5, <2>7, <2>9
<1> QED BY <1>1, <1>2, <1>7, <1>8, <1>9 DEF Reader

\* The result is a reassembly again.
LEMMA FeedAllType ==
  ASSUME NEW c \in CoreT, NEW run \in Seq(Held)
  PROVE  FeedAll(c, run) \in Reassembly
<1>1. Len(run) \in 0 .. Len(run)
  OBVIOUS
<1> QED BY <1>1, FeedAllSteps

-----------------------------------------------------------------------------
(* Receiving: the handlers.                                                *)

\* In log l a FIN is the last frame.
EndsInFin(l) == \A i \in 1 .. Len(l) : l[i].kind = "fin" => i = Len(l)

\* What a handler may do to a core that lives, given the peer's log.
Moves(c, d, log) ==
  /\ Good(d) /\ Ext(c.log, d.log) /\ c.rcv_next <= d.rcv_next /\ Fits(d, log)
  /\ d.una = c.una /\ ~d.dead

\* Two steps of a handler make one.
LEMMA MovesTrans ==
  ASSUME NEW c, Base(c), NEW d, NEW e, NEW log, Moves(c, d, log), Moves(d, e, log)
  PROVE  Moves(c, e, log)
<1>1. /\ c.log \in Seq(Entry) /\ d.log \in Seq(Entry) /\ e.log \in Seq(Entry)
      /\ c.rcv_next \in Nat /\ d.rcv_next \in Nat /\ e.rcv_next \in Nat
  BY DEF Moves, Good, Base, CoreT
<1>2. Ext(c.log, e.log)
  BY <1>1, ExtTrans DEF Moves
<1>3. c.rcv_next <= e.rcv_next
  BY <1>1 DEF Moves
<1> QED BY <1>2, <1>3 DEF Moves

\* Sending is such a step.
LEMMA KeepsMoves ==
  ASSUME NEW c, Base(c), ~c.dead, NEW d, Good(d), Keeps(c, d), Ext(c.log, d.log), NEW log, Fits(c, log)
  PROVE  Moves(c, d, log)
<1>1. c.rcv_next \in Nat
  BY DEF Base, CoreT
<1> QED BY <1>1 DEF Keeps, Moves, Fits

\* So is a bare ack.
LEMMA PureAckMoves ==
  ASSUME NEW c, Good(c), ~c.dead, NEW log, Fits(c, log)
  PROVE  Moves(c, EmitPureAck(c), log) /\ EmitPureAck(c).state = c.state
<1>1. PICK d : d = EmitPureAck(c)
  OBVIOUS
<1>2. Base(c)
  BY DEF Good
<1>3. Base(d) /\ Keeps(c, d) /\ d.log = c.log /\ d.state = c.state
  BY <1>1, <1>2, PureAckType
<1>4. Good(d)
  BY <1>3 DEF Good, FinLast, States, Keeps
<1>5. Ext(c.log, d.log)
  <2>1. Len(c.log) \in Nat
    BY DEF Good, Base, CoreT
  <2> QED BY <1>3, <2>1 DEF Ext
<1> QED BY <1>1, <1>2, <1>3, <1>4, <1>5, KeepsMoves

\* And pump.
LEMMA PumpMoves ==
  ASSUME NEW c, Good(c), ~c.dead, NEW log, Fits(c, log)
  PROVE  Moves(c, Pump(c), log) /\ Pumped(Pump(c))
<1>1. Base(c)
  BY DEF Good
<1> QED BY <1>1, PumpType, KeepsMoves

\* A core that has consumed more: the frames it has stamped stay true.
LEMMA ConsumeType ==
  ASSUME NEW c, Base(c), NEW d \in CoreT, IsFiniteSet(d.buffer), d.log = c.log, d.una = c.una,
         d.outbox = c.outbox, c.rcv_next <= d.rcv_next
  PROVE  Base(d)
<1>1. c.log \in Seq(Entry) /\ c.outbox \in Seq(Frame) /\ c.rcv_next \in Nat /\ d.rcv_next \in Nat
  BY DEF Base, CoreT
<1>2. Ext(c.log, c.log)
  BY <1>1 DEF Ext
<1>3. ASSUME NEW i \in 1 .. Len(d.outbox) PROVE Carried(d.log, d.rcv_next, d.outbox[i])
  <2>1. c.outbox[i] \in Frame
    <3>1. PICK w \in Seq(Frame) : w = c.outbox
      BY <1>1
    <3> QED BY <3>1
  <2>2. Carried(c.log, c.rcv_next, c.outbox[i])
    BY DEF Base
  <2> QED BY <1>1, <1>2, <2>1, <2>2, CarriedExt
<1> QED BY <1>3 DEF Base

\* Hold: the frame joins the buffer.
LEMMA HoldType ==
  ASSUME NEW c, Good(c), ~c.dead, c.state \in {"established", "fin_sent"}, ~c.peer_closed,
         NEW f \in Frame, ConsumesSeq(f), NEW log \in Seq(Entry), Fits(c, log), Logged(log, f)
  PROVE  LET d == Hold(c, f) IN
         Moves(c, d, log) /\ d.state = c.state /\ ~d.peer_closed
<1>1. c \in CoreT /\ c.buffer \in SUBSET Held /\ IsFiniteSet(c.buffer) /\ c.rcv_next \in Nat
  BY DEF Good, Base, CoreT
<1>2. PICK h \in Held : h = [kind |-> f.kind, data |-> f.data, seq |-> f.seq]
  BY DEF Frame, Held, ConsumesSeq
<1>3. h.kind = f.kind /\ h.data = f.data /\ h.seq = f.seq
  BY <1>2
<1>4. Logged(log, h)
  BY <1>3 DEF Logged
<1>5. PICK B \in SUBSET Held : B = c.buffer \cup {h}
  BY <1>1
<1>6. IsFiniteSet(B)
  BY <1>1, <1>5, FS_AddElement
<1>7. PICK d : d = Hold(c, f)
  OBVIOUS
<1>8. d = [c EXCEPT !.buffer = B]
  BY <1>2, <1>5, <1>7 DEF Hold
<1>9. /\ d \in CoreT /\ d.buffer = B /\ d.log = c.log /\ d.una = c.una /\ d.outbox = c.outbox
      /\ d.rcv_next = c.rcv_next /\ d.state = c.state /\ d.dead = c.dead /\ d.peer_closed = c.peer_closed
  BY <1>1, <1>8 DEF CoreT
<1>10. c.rcv_next <= d.rcv_next
  BY <1>1, <1>9
<1>11. Base(d)
  BY <1>6, <1>9, <1>10, ConsumeType DEF Good
<1>12. FinLast(d) /\ States(d)
  BY <1>9 DEF Good, FinLast, States
<1>13. Fits(d, log)
  BY <1>4, <1>5, <1>9 DEF Fits
<1>14. Ext(c.log, d.log)
  BY <1>1, <1>9 DEF Ext, CoreT
<1> QED BY <1>7, <1>9, <1>10, <1>11, <1>12, <1>13, <1>14 DEF Moves, Good

\* What the run leaves: rcv_next stays within the peer's log, and a run with a
\* FIN reaches its end and leaves nothing.
LEMMA RunFits ==
  ASSUME NEW c, Good(c), NEW log \in Seq(Entry), EndsInFin(log),
         \A h \in c.buffer : Logged(log, h), c.rcv_next <= Len(log)
  PROVE  LET run == Taken(c)
             t == c.rcv_next + Len(run)
         IN /\ t \in Nat /\ t <= Len(log) /\ c.rcv_next <= t
            /\ (\E i \in DOMAIN run : run[i].kind = "fin") =>
                 /\ t = Len(log) /\ {h \in c.buffer : h.seq >= t} = {}
                 /\ log # <<>> /\ log[Len(log)].kind = "fin"
<1>1. c.rcv_next \in Nat /\ c.buffer \in SUBSET Held /\ Base(c)
  BY DEF Good, Base, CoreT
<1>2. PICK run \in Seq(Held), n \in Nat :
        /\ run = Taken(c) /\ n = Len(run) /\ n = RunLength(c)
        /\ \A i \in 1 .. n : run[i] \in c.buffer /\ run[i].seq = c.rcv_next + i - 1
  BY <1>1, TakenType
<1>3. PICK t \in Nat : t = c.rcv_next + Len(run)
  BY <1>1, <1>2
<1>4. PICK L \in Nat : L = Len(log)
  OBVIOUS
<1>5. ASSUME NEW i \in 1 .. n
      PROVE  /\ c.rcv_next + i <= L /\ log[c.rcv_next + i].kind = run[i].kind
             /\ c.rcv_next + i \in 1 .. L
  <2>1. Logged(log, run[i]) /\ run[i].seq = c.rcv_next + i - 1
    BY <1>2
  <2>2. c.rcv_next + i - 1 < L /\ c.rcv_next + i - 1 + 1 = c.rcv_next + i
    BY <1>1, <1>4, <2>1 DEF Logged
  <2>3. log[c.rcv_next + i] = [kind |-> run[i].kind, data |-> run[i].data]
    BY <2>1, <2>2 DEF Logged
  <2> QED BY <1>1, <1>4, <2>2, <2>3
<1>6. t <= L /\ c.rcv_next <= t
  <2>1. PICK r \in Nat : r = c.rcv_next /\ r <= L /\ t = r + n
    BY <1>1, <1>2, <1>3, <1>4
  <2>2. CASE n # 0
    <3>1. n \in 1 .. n
      BY <2>2
    <3>2. c.rcv_next + n <= L
      BY <1>5, <3>1
    <3> QED BY <2>1, <3>2
  <2> QED BY <2>1, <2>2
<1>7. ASSUME NEW i \in DOMAIN run, run[i].kind = "fin"
      PROVE  /\ t = L /\ {h \in c.buffer : h.seq >= t} = {}
             /\ log # <<>> /\ log[L].kind = "fin"
  <2>1. i \in 1 .. n
    <3>1. n = Len(run)
      BY <1>2
    <3>2. DOMAIN run = 1 .. Len(run)
      OBVIOUS
    <3> QED BY <3>1, <3>2
  <2>2. c.rcv_next + i \in 1 .. L /\ log[c.rcv_next + i].kind = "fin"
    BY <1>5, <1>7, <2>1
  <2>3. c.rcv_next + i = L
    BY <1>4, <2>2 DEF EndsInFin
  <2>4. t = L
    BY <1>1, <1>2, <1>3, <1>4, <1>6, <2>1, <2>3
  <2>5. ASSUME NEW h \in c.buffer PROVE ~(h.seq >= t)
    <3>1. h.seq < L /\ h.seq \in Nat
      BY <1>1, <1>4 DEF Logged, Held
    <3> QED BY <2>4, <3>1
  <2>6. log # <<>>
    BY <1>4, <2>2
  <2> QED BY <2>2, <2>3, <2>4, <2>5, <2>6
<1> QED BY <1>2, <1>3, <1>4, <1>6, <1>7

\* The drain loop takes the run, and answers a FIN with one.
LEMMA DrainMoves ==
  ASSUME NEW c, Good(c), ~c.dead, c.state \in {"established", "fin_sent"}, ~c.peer_closed,
         NEW log \in Seq(Entry), EndsInFin(log), Fits(c, log)
  PROVE  Moves(c, Drain(c), log)
<1>1. c \in CoreT /\ c.buffer \in SUBSET Held /\ IsFiniteSet(c.buffer) /\ c.rcv_next \in Nat /\ Base(c)
  BY DEF Good, Base, CoreT
<1>2. PICK run \in Seq(Held) : run = Taken(c)
  BY <1>1, TakenType
<1>3. PICK fin \in BOOLEAN : fin = \E i \in DOMAIN run : run[i].kind = "fin"
  OBVIOUS
<1>4. PICK fed \in Reassembly : fed = FeedAll(c, run)
  BY <1>1, FeedAllType
<1>5. PICK t \in Nat : /\ t = c.rcv_next + Len(run) /\ t <= Len(log) /\ c.rcv_next <= t
                       /\ fin => /\ t = Len(log) /\ {h \in c.buffer : h.seq >= t} = {}
                                 /\ log # <<>> /\ log[Len(log)].kind = "fin"
  <2>1. (\A h \in c.buffer : Logged(log, h)) /\ c.rcv_next <= Len(log)
    BY DEF Fits
  <2> QED BY <1>2, <1>3, <2>1, RunFits
<1>6. PICK B \in SUBSET Held : B = {h \in c.buffer : h.seq >= t}
  BY <1>1
<1>7. IsFiniteSet(B)
  BY <1>1, <1>6, FS_Subset
<1>8. PICK d : d = [c EXCEPT !.rcv_next = t, !.buffer = B, !.parts = fed.parts, !.stale = fed.stale,
                             !.delivered = fed.delivered, !.peer_closed = fin]
  OBVIOUS
<1>9. /\ d \in CoreT /\ d.buffer = B /\ d.log = c.log /\ d.una = c.una /\ d.outbox = c.outbox
      /\ d.rcv_next = t /\ d.state = c.state /\ d.dead = c.dead /\ d.peer_closed = fin
      /\ d.closing = c.closing
  <2>1. fed.parts \in SUBSET Chunk /\ fed.stale \in SUBSET Message /\ fed.delivered \in Seq(Message)
    BY DEF Reassembly
  <2> QED BY <1>1, <1>8, <2>1 DEF CoreT
<1>10. Base(d)
  BY <1>1, <1>5, <1>7, <1>9, ConsumeType
<1>11. Good(d)
  BY <1>9, <1>10 DEF Good, FinLast, States
<1>12. Fits(d, log)
  BY <1>5, <1>6, <1>9 DEF Fits
<1>13. Ext(c.log, d.log)
  BY <1>1, <1>9 DEF Ext, CoreT
<1>14. Moves(c, d, log)
  BY <1>5, <1>9, <1>11, <1>12, <1>13 DEF Moves
<1>15. Drain(c) = IF fin /\ c.state = "established"
                  THEN [EmitReliable(d, "fin") EXCEPT !.state = "fin_sent"] ELSE d
  <2>1. (c.peer_closed \/ fin) = fin
    BY <1>1, <1>3 DEF CoreT
  <2>2. c.rcv_next + Len(run) = t /\ {h \in c.buffer : h.seq >= c.rcv_next + Len(run)} = B
    BY <1>5, <1>6
  <2>3. d = [c EXCEPT !.rcv_next = @ + Len(run),
                     !.buffer = {h \in @ : h.seq >= c.rcv_next + Len(run)},
                     !.parts = fed.parts, !.stale = fed.stale, !.delivered = fed.delivered,
                     !.peer_closed = @ \/ fin]
    BY <1>8, <2>1, <2>2
  <2> QED BY <1>2, <1>3, <1>4, <2>3 DEF Drain
<1>16. CASE ~(fin /\ c.state = "established")
  BY <1>14, <1>15, <1>16
<1>17. CASE fin /\ c.state = "established"
  <2>1. PICK g : g = [EmitReliable(d, "fin") EXCEPT !.state = "fin_sent"]
    OBVIOUS
  <2>2. PICK b \in BOOLEAN : b = d.closing
    BY <1>9 DEF CoreT
  <2>3. g = [EmitReliable(d, "fin") EXCEPT !.state = "fin_sent", !.closing = b]
    <3>1. PICK e : e = EmitReliable(d, "fin")
      OBVIOUS
    <3>2. e.closing = b /\ e \in CoreT
      <4>1. PICK k \in {"syn", "synack", "fin"} : k = "fin"
        OBVIOUS
      <4>2. EmitReliable(d, k).closing = d.closing /\ Base(EmitReliable(d, k))
        BY <1>10, EmitType
      <4> QED BY <2>2, <3>1, <4>1, <4>2 DEF Base
    <3> QED BY <2>1, <3>1, <3>2 DEF CoreT
  <2>4. Good(g) /\ Keeps(d, g) /\ Ext(d.log, g.log)
    BY <1>9, <1>11, <1>17, <2>3, FinType
  <2>5. Moves(d, g, log)
    BY <1>9, <1>10, <1>12, <2>4, KeepsMoves
  <2>6. Moves(c, g, log)
    BY <1>1, <1>14, <2>5, MovesTrans
  <2> QED BY <1>15, <1>17, <2>1, <2>6
<1> QED BY <1>16, <1>17

\* deliver: a frame is only acked again, or held and the run drained.
LEMMA DeliverMoves ==
  ASSUME NEW c, Good(c), ~c.dead, c.state \in {"established", "fin_sent"},
         NEW f \in Frame, NEW log \in Seq(Entry), EndsInFin(log), Fits(c, log),
         ConsumesSeq(f) => Logged(log, f)
  PROVE  Moves(c, Deliver(c, f), log)
<1>1. Base(c) /\ c.rcv_next \in Nat /\ f.seq \in Nat /\ Len(c.log) \in Nat
  <2>1. f.seq \in Nat
    BY DEF Frame
  <2>2. c.rcv_next \in Nat /\ Len(c.log) \in Nat
    BY DEF Good, Base, CoreT
  <2> QED BY <2>1, <2>2 DEF Good
<1>2. CASE ~ConsumesSeq(f)
  <2>1. Deliver(c, f) = c
    BY <1>2 DEF Deliver
  <2>2. Keeps(c, c) /\ Ext(c.log, c.log)
    BY <1>1 DEF Keeps, Ext
  <2> QED BY <1>1, <2>1, <2>2, KeepsMoves
<1>3. CASE ConsumesSeq(f) /\ (\/ f.seq < c.rcv_next \/ f.seq \in Seqs(c.buffer)
                              \/ f.seq >= c.rcv_next + c.window)
  <2>1. Deliver(c, f) = EmitPureAck(c)
    BY <1>3 DEF Deliver
  <2> QED BY <2>1, PureAckMoves
<1>4. CASE ConsumesSeq(f) /\ ~(\/ f.seq < c.rcv_next \/ f.seq \in Seqs(c.buffer)
                               \/ f.seq >= c.rcv_next + c.window)
  <2>1. Deliver(c, f) = EmitPureAck(Drain(Hold(c, f)))
    BY <1>4 DEF Deliver
  <2>2. Logged(log, f) /\ ~(f.seq < c.rcv_next)
    BY <1>4
  <2>3. ~c.peer_closed
    <3>1. SUFFICES ASSUME c.peer_closed PROVE FALSE
      OBVIOUS
    <3>2. c.rcv_next = Len(log)
      BY <3>1 DEF Fits
    <3> QED BY <1>1, <2>2, <3>2 DEF Logged
  <2>4. PICK d : d = Hold(c, f)
    OBVIOUS
  <2>5. Moves(c, d, log) /\ d.state = c.state /\ ~d.peer_closed
    BY <1>4, <2>2, <2>3, <2>4, HoldType
  <2>6. PICK e : e = Drain(d)
    OBVIOUS
  <2>7. Moves(d, e, log)
    BY <2>5, <2>6, DrainMoves DEF Moves
  <2>8. Moves(c, e, log)
    BY <1>1, <2>5, <2>7, MovesTrans
  <2>9. Moves(e, EmitPureAck(e), log)
    BY <2>7, PureAckMoves DEF Moves
  <2>10. Moves(c, EmitPureAck(e), log)
    BY <1>1, <2>8, <2>9, MovesTrans
  <2> QED BY <2>1, <2>4, <2>6, <2>10
<1> QED BY <1>2, <1>3, <1>4

\* The peer's SYN or SYN+ACK is taken.
LEMMA EstablishedType ==
  ASSUME NEW c, Good(c), ~c.dead, c.state \in {"closed", "syn_sent"},
         NEW f \in Frame, NEW log \in Seq(Entry), Logged(log, f)
  PROVE  LET d == Established(c, f) IN
         /\ Base(d) /\ FinLast(d) /\ d.log = c.log /\ d.una = c.una /\ d.state = "established" /\ ~d.dead
         /\ c.rcv_next <= d.rcv_next /\ Fits(d, log)
<1>1. c \in CoreT /\ c.rcv_next = 0 /\ c.buffer = {} /\ ~c.peer_closed /\ Base(c)
  BY DEF Good, Base, States
<1>2. PICK s \in Nat : s = f.seq + 1 /\ s <= Len(log) /\ 0 <= s
  <2>1. f.seq \in Nat
    BY DEF Frame
  <2> QED BY <2>1 DEF Logged
<1>3. PICK d : d = Established(c, f)
  OBVIOUS
<1>4. d = [c EXCEPT !.rcv_next = s, !.state = "established"]
  BY <1>2, <1>3 DEF Established
<1>5. /\ d \in CoreT /\ d.buffer = {} /\ d.log = c.log /\ d.una = c.una /\ d.outbox = c.outbox
      /\ d.rcv_next = s /\ d.state = "established" /\ d.dead = c.dead /\ ~d.peer_closed
  BY <1>1, <1>4 DEF CoreT
<1>6. Base(d)
  <2>1. IsFiniteSet(d.buffer) /\ c.rcv_next <= d.rcv_next
    BY <1>1, <1>2, <1>5, FS_EmptySet
  <2> QED BY <1>1, <1>5, <2>1, ConsumeType
<1>7. FinLast(d)
  <2>1. \A i \in 1 .. Len(c.log) : c.log[i].kind # "fin"
    BY NoFin DEF Good
  <2> QED BY <1>5, <2>1 DEF FinLast
<1>8. Fits(d, log)
  BY <1>2, <1>5 DEF Fits
<1> QED BY <1>1, <1>2, <1>3, <1>5, <1>6, <1>7, <1>8

\* The SYN+ACK that answers it.
LEMMA SynAckMoves ==
  ASSUME NEW c, Good(c), ~c.dead, c.state \in {"closed", "syn_sent"},
         NEW f \in Frame, NEW log \in Seq(Entry), Logged(log, f)
  PROVE  LET d == EmitReliable(Established(c, f), "synack") IN Moves(c, d, log) /\ Pumped(d)
<1>1. PICK e : e = Established(c, f)
  OBVIOUS
<1>2. /\ Base(e) /\ FinLast(e) /\ e.log = c.log /\ e.una = c.una /\ e.state = "established" /\ ~e.dead
      /\ c.rcv_next <= e.rcv_next /\ Fits(e, log)
  BY <1>1, EstablishedType
<1>3. e.log \in Seq(Entry) /\ Len(e.log) \in Nat /\ e.una \in Nat /\ e.una <= Len(e.log)
  BY <1>2 DEF Base, CoreT
<1>4. PICK d : d = EmitReliable(e, "synack")
  OBVIOUS
<1>5. /\ Base(d) /\ Keeps(e, d) /\ Ext(e.log, d.log) /\ d.state = "established"
      /\ d.log = Append(e.log, [kind |-> "synack", data |-> NoChunk])
  <2>1. PICK k \in {"syn", "synack", "fin"} : k = "synack"
    OBVIOUS
  <2>2. LET g == EmitReliable(e, k) IN
        /\ Base(g) /\ Keeps(e, g) /\ Ext(e.log, g.log) /\ g.state = e.state
        /\ g.log = Append(e.log, [kind |-> k, data |-> NoChunk])
    BY <1>2, EmitType
  <2> QED BY <1>2, <1>4, <2>1, <2>2
<1>6. PICK x \in Entry : x = [kind |-> "synack", data |-> NoChunk]
  BY DEF Entry
<1>7. Len(d.log) = Len(e.log) + 1 /\ d.log[Len(e.log) + 1] = x /\ d.log # <<>>
  <2>1. PICK l \in Seq(Entry) : l = e.log
    BY <1>3
  <2>2. Len(Append(l, x)) = Len(l) + 1 /\ Append(l, x)[Len(l) + 1] = x
    OBVIOUS
  <2>3. Append(l, x) # <<>>
    OBVIOUS
  <2> QED BY <1>5, <1>6, <2>1, <2>2, <2>3
<1>8. FinLast(d)
  <2>1. \A i \in 1 .. Len(e.log) : e.log[i].kind # "fin" /\ d.log[i] = e.log[i]
    BY <1>2, <1>5, NoFin DEF Ext
  <2>2. x.kind # "fin"
    BY <1>6
  <2>3. ASSUME NEW i \in 1 .. Len(d.log) PROVE i \in 1 .. Len(e.log) \/ i = Len(e.log) + 1
    BY <1>3, <1>7
  <2> QED BY <1>7, <2>1, <2>2, <2>3 DEF FinLast
<1>9. States(d)
  BY <1>5, <1>7 DEF States
<1>10. Good(d)
  BY <1>5, <1>8, <1>9 DEF Good
<1>11. Moves(e, d, log)
  BY <1>2, <1>5, <1>10, KeepsMoves
<1>12. Moves(c, d, log)
  <2>1. d.rcv_next = e.rcv_next
    BY <1>5 DEF Keeps
  <2> QED BY <1>2, <1>11, <2>1 DEF Moves
<1>13. Pumped(d)
  <2>1. d.una = e.una
    BY <1>5 DEF Keeps
  <2>2. InFlight(d) > 0
    BY <1>3, <1>7, <2>1 DEF InFlight
  <2> QED BY <2>2 DEF Pumped
<1> QED BY <1>1, <1>4, <1>12, <1>13

\* The end of our own handshake: the ack, and what was queued meanwhile.
LEMMA HandshakeMoves ==
  ASSUME NEW c, Good(c), ~c.dead, c.state = "syn_sent",
         NEW f \in Frame, NEW log \in Seq(Entry), Logged(log, f)
  PROVE  LET d == Pump(EmitPureAck(Established(c, f))) IN Moves(c, d, log) /\ Pumped(d)
<1>1. PICK e : e = Established(c, f)
  OBVIOUS
<1>2. /\ Base(e) /\ FinLast(e) /\ e.log = c.log /\ e.una = c.una /\ e.state = "established" /\ ~e.dead
      /\ c.rcv_next <= e.rcv_next /\ Fits(e, log)
  BY <1>1, EstablishedType
<1>3. Good(e)
  <2>1. c.log # <<>>
    BY DEF Good, States
  <2> QED BY <1>2, <2>1 DEF Good, States
<1>4. Moves(c, e, log)
  <2>1. Len(c.log) \in Nat
    BY DEF Good, Base, CoreT
  <2>2. Ext(c.log, e.log)
    BY <1>2, <2>1 DEF Ext
  <2> QED BY <1>2, <1>3, <2>2 DEF Moves
<1>5. PICK a : a = EmitPureAck(e)
  OBVIOUS
<1>6. Moves(e, a, log)
  BY <1>2, <1>3, <1>5, PureAckMoves
<1>7. PICK d : d = Pump(a)
  OBVIOUS
<1>8. Moves(a, d, log) /\ Pumped(d)
  BY <1>6, <1>7, PumpMoves DEF Moves
<1>9. Base(c) /\ Base(e)
  BY <1>2 DEF Good
<1>10. Moves(c, a, log)
  BY <1>4, <1>6, <1>9, MovesTrans
<1>11. Moves(c, d, log)
  BY <1>8, <1>9, <1>10, MovesTrans
<1> QED BY <1>1, <1>5, <1>7, <1>8, <1>11

\* What a step of a core's task leaves: a core that goes on from the one before,
\* with the peer at log and having taken r frames.
After(c, d, log, r) ==
  /\ Good(d) /\ Pumped(d) /\ Ext(c.log, d.log) /\ c.rcv_next <= d.rcv_next /\ Fits(d, log)
  /\ d.dead \/ d.una <= r

\* on_frame.
LEMMA OnFrameAfter ==
  ASSUME NEW c, Good(c), ~c.dead, NEW log \in Seq(Entry), EndsInFin(log), Fits(c, log),
         NEW r \in Nat, c.una <= r, NEW f \in Frame, Carried(log, r, f)
  PROVE  After(c, OnFrame(c, f), log, r)
<1>1. f.ack \in Nat /\ f.window \in Nat /\ f.ack <= r /\ (ConsumesSeq(f) => Logged(log, f))
  BY DEF Frame, Carried
<1>2. PICK a : a = Acked(c, f.ack, f.window)
  OBVIOUS
<1>3. /\ Good(a) /\ a.log = c.log /\ a.state = c.state /\ ~a.dead
      /\ a.rcv_next = c.rcv_next /\ a.buffer = c.buffer /\ a.peer_closed = c.peer_closed
      /\ a.una = c.una \/ a.una <= f.ack
  <2>1. PICK n \in Nat, w \in Nat : n = f.ack /\ w = f.window
    BY <1>1
  <2>2. LET b == Acked(c, n, w) IN
        /\ Good(b) /\ b.log = c.log /\ b.state = c.state /\ b.dead = c.dead
        /\ b.rcv_next = c.rcv_next /\ b.buffer = c.buffer /\ b.peer_closed = c.peer_closed
        /\ b.una = c.una \/ b.una <= n
    BY AckedType
  <2> QED BY <1>2, <2>1, <2>2
<1>4. a \in CoreT /\ Base(a) /\ FinLast(a) /\ a.una \in Nat /\ c.log \in Seq(Entry) /\ c.rcv_next \in Nat
      /\ Len(c.log) \in Nat
  <2>1. a \in CoreT /\ Base(a) /\ FinLast(a)
    BY <1>3 DEF Good, Base
  <2>2. a.una \in Nat /\ a.log \in Seq(Entry) /\ a.rcv_next \in Nat
    BY <2>1 DEF CoreT
  <2>3. c.log \in Seq(Entry) /\ c.rcv_next \in Nat
    BY <1>3, <2>2
  <2>4. Len(c.log) \in Nat
    BY <2>3
  <2> QED BY <2>1, <2>2, <2>3, <2>4
<1>5. a.una <= r /\ Ext(c.log, a.log) /\ c.rcv_next <= a.rcv_next
  <2>1. a.una <= r
    BY <1>1, <1>3, <1>4
  <2> QED BY <1>3, <1>4, <2>1 DEF Ext
<1>6. Fits(a, log)
  BY <1>3 DEF Fits
<1>7. ASSUME NEW d, Moves(a, d, log), Pumped(d) PROVE After(c, d, log, r)
  BY <1>3, <1>5, <1>7 DEF Moves, After
<1>8. After(c, a, log, r) \/ a.state = "established"
  BY <1>3, <1>5, <1>6 DEF After, Pumped
<1>9. CASE f.kind = "rst"
  <2>1. PICK b : b = [a EXCEPT !.peer_closed = TRUE]
    OBVIOUS
  <2>2. /\ b \in CoreT /\ b.buffer = a.buffer /\ b.log = a.log /\ b.una = a.una /\ b.outbox = a.outbox
        /\ b.rcv_next = a.rcv_next /\ b.state = a.state /\ b.dead = a.dead
    BY <1>4, <2>1 DEF CoreT
  <2>3. Base(b) /\ FinLast(b)
    BY <1>4, <2>2 DEF Base, FinLast
  <2>4. PICK d : d = Teardown(b)
    OBVIOUS
  <2>5. Good(d) /\ d.log = b.log /\ d.rcv_next = b.rcv_next /\ d.buffer = b.buffer /\ d.dead
    BY <2>3, <2>4, TeardownType
  <2>6. OnFrame(c, f) = d
    BY <1>2, <1>9, <2>1, <2>4 DEF OnFrame, Acked
  <2>7. Fits(d, log) /\ Pumped(d)
    BY <1>6, <2>2, <2>5 DEF Fits, Pumped
  <2> QED BY <1>3, <1>5, <2>2, <2>5, <2>6, <2>7 DEF After
<1>10. CASE f.kind # "rst" /\ a.state = "closed"
  <2>1. CASE f.kind \in {"syn", "synack"}
    <3>1. OnFrame(c, f) = EmitReliable(Established(a, f), "synack")
      BY <1>2, <1>10, <2>1 DEF OnFrame, Acked
    <3>2. Logged(log, f)
      BY <1>1, <2>1 DEF ConsumesSeq
    <3> QED BY <1>3, <1>7, <1>10, <3>1, <3>2, SynAckMoves
  <2>2. CASE f.kind \notin {"syn", "synack"}
    <3>1. OnFrame(c, f) = a
      BY <1>2, <1>10, <2>2 DEF OnFrame, Acked
    <3> QED BY <1>8, <1>10, <3>1
  <2> QED BY <2>1, <2>2
<1>11. CASE f.kind # "rst" /\ a.state = "syn_sent"
  <2>1. CASE f.kind = "synack"
    <3>1. OnFrame(c, f) = Pump(EmitPureAck(Established(a, f)))
      BY <1>2, <1>11, <2>1 DEF OnFrame, Acked
    <3>2. Logged(log, f)
      BY <1>1, <2>1 DEF ConsumesSeq
    <3> QED BY <1>3, <1>7, <1>11, <3>1, <3>2, HandshakeMoves
  <2>2. CASE f.kind = "syn"
    <3>1. OnFrame(c, f) = EmitReliable(Established(a, f), "synack")
      BY <1>2, <1>11, <2>2 DEF OnFrame, Acked
    <3>2. Logged(log, f)
      BY <1>1, <2>2 DEF ConsumesSeq
    <3> QED BY <1>3, <1>7, <1>11, <3>1, <3>2, SynAckMoves
  <2>3. CASE f.kind \notin {"syn", "synack"}
    <3>1. OnFrame(c, f) = a
      BY <1>2, <1>11, <2>3 DEF OnFrame, Acked
    <3> QED BY <1>8, <1>11, <3>1
  <2> QED BY <2>1, <2>2, <2>3
<1>12. CASE f.kind # "rst" /\ a.state \in {"established", "fin_sent"}
  <2>1. PICK e : e = Deliver(a, f)
    OBVIOUS
  <2>2. Moves(a, e, log)
    BY <1>1, <1>3, <1>6, <1>12, <2>1, DeliverMoves
  <2>3. Moves(e, Pump(e), log) /\ Pumped(Pump(e))
    BY <2>2, PumpMoves DEF Moves
  <2>4. Moves(a, Pump(e), log)
    BY <1>4, <2>2, <2>3, MovesTrans
  <2>5. OnFrame(c, f) = Pump(e)
    BY <1>2, <1>12, <2>1 DEF OnFrame, Acked
  <2> QED BY <1>7, <2>3, <2>4, <2>5
<1>13. a.state \in {"closed", "syn_sent", "established", "fin_sent"}
  BY <1>4 DEF CoreT
<1> QED BY <1>9, <1>10, <1>11, <1>12, <1>13

-----------------------------------------------------------------------------
(* A step of one side.                                                     *)

\* What is left in flight was sent.
LEMMA FlightFrames ==
  ASSUME NEW s \in Seq(Frame)
  PROVE  /\ Flight(s) \in Seq(Frame)
         /\ \A i \in 1 .. Len(Flight(s)) : \E j \in 1 .. Len(s) : Flight(s)[i] = s[j]
<1>1. NetCap \in Nat /\ Len(s) \in Nat
  BY BoundsAssumption
<1>2. CASE Len(s) <= NetCap
  BY <1>2 DEF Flight
<1>3. CASE ~(Len(s) <= NetCap)
  <2>1. PICK a \in Nat : a = Len(s) - NetCap + 1 /\ a >= 1
    <3>1. Len(s) - NetCap + 1 \in Nat /\ Len(s) - NetCap + 1 >= 1
      BY <1>1, <1>3
    <3> QED BY <3>1
  <2>2. PICK t : t = SubSeq(s, a, Len(s))
    OBVIOUS
  <2>3. t \in Seq(Frame) /\ Len(t) = NetCap /\ \A i \in 1 .. NetCap : t[i] = s[a + i - 1]
    BY <1>1, <1>3, <2>1, <2>2
  <2>4. \A i \in 1 .. NetCap : a + i - 1 \in 1 .. Len(s)
    BY <1>1, <1>3, <2>1
  <2>5. Flight(s) = t
    BY <1>3, <2>1, <2>2 DEF Flight
  <2> QED BY <2>3, <2>4, <2>5
<1> QED BY <1>2, <1>3

\* The same for the rest of the frames once one is delivered.
LEMMA RestFrames ==
  ASSUME NEW s \in Seq(Frame), NEW i \in 1 .. Len(s)
  PROVE  LET t == SubSeq(s, i + 1, Len(s)) IN
         /\ t \in Seq(Frame) /\ \A k \in 1 .. Len(t) : \E j \in 1 .. Len(s) : t[k] = s[j]
<1>1. PICK t : t = SubSeq(s, i + 1, Len(s))
  OBVIOUS
<1>2. PICK n \in Nat : n = Len(s) - i
  OBVIOUS
<1>3. t \in Seq(Frame) /\ Len(t) = n /\ \A k \in 1 .. n : t[k] = s[i + k]
  BY <1>1, <1>2
<1>4. \A k \in 1 .. n : i + k \in 1 .. Len(s)
  BY <1>2
<1> QED BY <1>1, <1>3, <1>4

\* The peer of a core that has gone on: what it holds is part of the longer log,
\* and if it has seen EOF nothing was added.
LEMMA FitsExt ==
  ASSUME NEW c, Base(c), NEW l \in Seq(Entry), NEW m \in Seq(Entry), Ext(l, m), EndsInFin(m), Fits(c, l)
  PROVE  Fits(c, m)
<1>1. c.buffer \in SUBSET Held /\ c.rcv_next \in Nat /\ Len(l) \in Nat /\ Len(m) \in Nat
      /\ Len(l) <= Len(m) /\ c.rcv_next <= Len(l)
  BY DEF Base, CoreT, Ext, Fits
<1>2. ASSUME NEW h \in c.buffer PROVE Logged(m, h)
  <2>1. h.seq \in Nat /\ Logged(l, h)
    BY <1>1 DEF Held, Fits
  <2> QED BY <2>1, LoggedExt
<1>3. c.rcv_next <= Len(m)
  BY <1>1
<1>4. ASSUME c.peer_closed /\ ~c.dead
      PROVE  c.rcv_next = Len(m) /\ c.buffer = {} /\ m # <<>> /\ m[Len(m)].kind = "fin"
  <2>1. c.rcv_next = Len(l) /\ c.buffer = {} /\ l # <<>> /\ l[Len(l)].kind = "fin"
    BY <1>4 DEF Fits
  <2>2. Len(l) \in 1 .. Len(l)
    BY <1>1, <2>1
  <2>3. m[Len(l)] = l[Len(l)] /\ Len(l) \in 1 .. Len(m)
    BY <1>1, <2>2 DEF Ext
  <2>4. Len(l) = Len(m)
    BY <2>1, <2>3 DEF EndsInFin
  <2>5. m # <<>>
    BY <2>2, <2>4
  <2> QED BY <2>1, <2>3, <2>4, <2>5
<1> QED BY <1>2, <1>3, <1>4 DEF Fits

\* The log of a good core ends at its FIN.
LEMMA GoodEnds ==
  ASSUME NEW c, Good(c)
  PROVE  EndsInFin(c.log) /\ c.log \in Seq(Entry) /\ c.rcv_next \in Nat /\ Base(c)
BY DEF Good, FinLast, EndsInFin, Base, CoreT

\* One core goes on, and in flight are frames that were there and new ones of it.
LEMMA StepInvariant ==
  ASSUME IInv, NEW p \in Side, NEW d,
         After(core[p], d, core[Other(p)].log, core[Other(p)].rcv_next), d.outbox = <<>>,
         core' = [core EXCEPT ![p] = d],
         net' \in [Side -> Seq(Frame)], sent' \in [Side -> Seq(Message)],
         \A i \in 1 .. Len(net'[p]) : \/ Carried(d.log, d.rcv_next, net'[p][i])
                                      \/ \E j \in 1 .. Len(net[p]) : net'[p][i] = net[p][j],
         \A i \in 1 .. Len(net'[Other(p)]) : \E j \in 1 .. Len(net[Other(p)]) :
            net'[Other(p)][i] = net[Other(p)][j]
  PROVE  IInv'
<1>1. PICK q \in Side : q = Other(p) /\ q # p /\ p = Other(q) /\ \A s \in Side : s = p \/ s = q
  BY Peers
<1>2. /\ Typed /\ SideOK(p) /\ SideOK(q) /\ NetOK(p) /\ NetOK(q)
  BY DEF IInv
<1>3. core \in [Side -> CoreT] /\ net \in [Side -> Seq(Frame)]
  BY <1>2 DEF Typed
<1>4. PICK c, b : c = core[p] /\ b = core[q]
  OBVIOUS
<1>5. core'[p] = d /\ core'[q] = b
  BY <1>1, <1>3, <1>4
<1>6. After(c, d, b.log, b.rcv_next)
  BY <1>1, <1>4
<1>7. Good(c) /\ Good(b) /\ Good(d)
  BY <1>2, <1>4, <1>6 DEF SideOK, After
<1>8. /\ EndsInFin(d.log) /\ d.log \in Seq(Entry) /\ c.log \in Seq(Entry) /\ d.rcv_next \in Nat
      /\ c.rcv_next \in Nat /\ b.log \in Seq(Entry) /\ b.rcv_next \in Nat /\ b.una \in Nat
      /\ d \in CoreT /\ Base(b)
  BY <1>7, GoodEnds DEF Good, Base, CoreT
<1>9. Typed'
  BY <1>3, <1>8 DEF Typed
<1>10. SideOK(p)'
  <2>1. Good(d) /\ Pumped(d) /\ Fits(d, b.log) /\ (~d.dead => d.una <= b.rcv_next)
    BY <1>6 DEF After
  <2> QED BY <1>1, <1>5, <2>1 DEF SideOK
<1>11. SideOK(q)'
  <2>1. Good(b) /\ Pumped(b) /\ b.outbox = <<>> /\ Fits(b, c.log) /\ (~b.dead => b.una <= c.rcv_next)
    BY <1>1, <1>2, <1>4 DEF SideOK
  <2>2. Fits(b, d.log)
    BY <1>6, <1>8, <2>1, FitsExt DEF After
  <2>3. ~b.dead => b.una <= d.rcv_next
    <3>1. c.rcv_next <= d.rcv_next
      BY <1>6 DEF After
    <3> QED BY <1>8, <2>1, <3>1
  <2> QED BY <1>1, <1>5, <2>1, <2>2, <2>3 DEF SideOK
<1>12. NetOK(p)'
  <2>1. PICK n : n = net' /\ \A i \in 1 .. Len(n[p]) :
           Carried(d.log, d.rcv_next, n[p][i]) \/ \E j \in 1 .. Len(net[p]) : n[p][i] = net[p][j]
    OBVIOUS
  <2>2. ASSUME NEW i \in 1 .. Len(n[p]) PROVE Carried(d.log, d.rcv_next, n[p][i])
    <3>1. CASE \E j \in 1 .. Len(net[p]) : n[p][i] = net[p][j]
      <4>1. PICK j \in 1 .. Len(net[p]) : n[p][i] = net[p][j]
        BY <3>1
      <4>2. Carried(c.log, c.rcv_next, net[p][j])
        BY <1>2, <1>4 DEF NetOK
      <4>3. net[p][j] \in Frame
        BY <1>3
      <4>4. Ext(c.log, d.log) /\ c.rcv_next <= d.rcv_next
        BY <1>6 DEF After
      <4>5. Carried(d.log, d.rcv_next, net[p][j])
        BY <1>8, <4>2, <4>3, <4>4, CarriedExt
      <4> QED BY <4>1, <4>5
    <3> QED BY <2>1, <3>1
  <2> QED BY <1>5, <2>1, <2>2 DEF NetOK
<1>13. NetOK(q)'
  <2>1. PICK n : n = net' /\ \A i \in 1 .. Len(n[q]) : \E j \in 1 .. Len(net[q]) : n[q][i] = net[q][j]
    BY <1>1
  <2>2. ASSUME NEW i \in 1 .. Len(n[q]) PROVE Carried(b.log, b.rcv_next, n[q][i])
    <3>1. PICK j \in 1 .. Len(net[q]) : n[q][i] = net[q][j]
      BY <2>1
    <3> QED BY <1>2, <1>4, <3>1 DEF NetOK
  <2> QED BY <1>5, <2>1, <2>2 DEF NetOK
<1>14. \A s \in Side : SideOK(s)' /\ NetOK(s)'
  BY <1>1, <1>10, <1>11, <1>12, <1>13
<1> QED BY <1>9, <1>14 DEF IInv

\* What holds of a side and its peer before a step.
LEMMA SideFacts ==
  ASSUME IInv, NEW p \in Side
  PROVE  LET c == core[p]
             q == Other(p)
             b == core[q]
         IN /\ q \in Side /\ q # p /\ Other(q) = p
            /\ Good(c) /\ Pumped(c) /\ c.outbox = <<>> /\ c \in CoreT /\ Base(c)
            /\ Fits(c, b.log) /\ (c.dead \/ c.una <= b.rcv_next)
            /\ b.log \in Seq(Entry) /\ EndsInFin(b.log) /\ b.rcv_next \in Nat
            /\ c.log \in Seq(Entry) /\ c.rcv_next \in Nat /\ Len(c.log) \in Nat
            /\ core \in [Side -> CoreT] /\ net \in [Side -> Seq(Frame)] /\ sent \in [Side -> Seq(Message)]
<1>1. PICK q \in Side : q = Other(p) /\ q # p /\ p = Other(q)
  BY Peers
<1>2. Good(core[p]) /\ Good(core[q]) /\ SideOK(p) /\ Typed
  BY DEF IInv, SideOK
<1>3. EndsInFin(core[q].log) /\ core[q].log \in Seq(Entry) /\ core[q].rcv_next \in Nat
  BY <1>2, GoodEnds
<1>4. core[p].log \in Seq(Entry) /\ core[p].rcv_next \in Nat /\ Base(core[p])
  BY <1>2, GoodEnds
<1>5. Len(core[p].log) \in Nat
  BY <1>4
<1> QED BY <1>1, <1>2, <1>3, <1>4, <1>5 DEF SideOK, Typed

\* The flush that ends a step: the outbox is emptied into the network.
LEMMA FlushStep ==
  ASSUME IInv, NEW p \in Side, NEW c,
         After(core[p], c, core[Other(p)].log, core[Other(p)].rcv_next),
         core' = Flushed(p, c), sent' \in [Side -> Seq(Message)],
         NEW n \in Seq(Frame),
         \A i \in 1 .. Len(n) : \E j \in 1 .. Len(net[Other(p)]) : n[i] = net[Other(p)][j],
         net' = [net EXCEPT ![Other(p)] = n, ![p] = Flight(net[p] \o c.outbox)]
  PROVE  IInv'
<1>1. PICK q \in Side : q = Other(p) /\ q # p
  BY Peers
<1>2. net \in [Side -> Seq(Frame)] /\ core \in [Side -> CoreT]
  BY DEF IInv, Typed
<1>3. c \in CoreT /\ c.outbox \in Seq(Frame) /\ Base(c) /\ Good(c)
  BY DEF After, Good, Base, CoreT
<1>4. PICK d : d = [c EXCEPT !.outbox = <<>>]
  OBVIOUS
<1>5. /\ d \in CoreT /\ d.log = c.log /\ d.state = c.state /\ d.dead = c.dead /\ d.una = c.una
      /\ d.queue = c.queue /\ d.rcv_next = c.rcv_next /\ d.buffer = c.buffer
      /\ d.peer_closed = c.peer_closed /\ d.outbox = <<>>
  <2>1. <<>> \in Seq(Frame)
    OBVIOUS
  <2> QED BY <1>3, <1>4, <2>1 DEF CoreT
<1>6. Good(d) /\ Pumped(d)
  <2>1. Base(d)
    <3>1. 1 .. Len(d.outbox) = {}
      BY <1>5
    <3> QED BY <1>3, <1>5, <3>1 DEF Base
  <2> QED BY <1>3, <1>5, <2>1 DEF Good, FinLast, States, Pumped, InFlight, After
<1>7. After(core[p], d, core[Other(p)].log, core[Other(p)].rcv_next)
  BY <1>5, <1>6 DEF After, Fits
<1>8. core' = [core EXCEPT ![p] = d]
  BY <1>4 DEF Flushed
<1>9. PICK s \in Seq(Frame) : s = net[p] \o c.outbox
  BY <1>2, <1>3, Concat
<1>10. Flight(s) \in Seq(Frame) /\ \A i \in 1 .. Len(Flight(s)) : \E j \in 1 .. Len(s) : Flight(s)[i] = s[j]
  BY FlightFrames
<1>11. net' \in [Side -> Seq(Frame)] /\ net'[p] = Flight(s) /\ net'[q] = n
  BY <1>1, <1>2, <1>9, <1>10
<1>12. ASSUME NEW i \in 1 .. Len(Flight(s))
       PROVE  \/ Carried(d.log, d.rcv_next, Flight(s)[i])
              \/ \E j \in 1 .. Len(net[p]) : Flight(s)[i] = net[p][j]
  <2>1. PICK k \in 1 .. Len(s) : Flight(s)[i] = s[k]
    BY <1>10
  <2>2. PICK a \in Seq(Frame), o \in Seq(Frame) : a = net[p] /\ o = c.outbox
    BY <1>2, <1>3
  <2>3. Len(s) = Len(a) + Len(o) /\ Len(a) \in Nat /\ Len(o) \in Nat
    BY <1>9, <2>2
  <2>4. CASE k \in 1 .. Len(a)
    <3>1. s[k] = a[k]
      BY <1>9, <2>2, <2>4
    <3> QED BY <2>1, <2>2, <2>4, <3>1
  <2>5. CASE k \notin 1 .. Len(a)
    <3>1. k - Len(a) \in 1 .. Len(o)
      BY <2>3, <2>5
    <3>2. s[k] = o[k - Len(a)]
      BY <1>9, <2>2, <2>3, <2>5
    <3>3. Carried(c.log, c.rcv_next, o[k - Len(a)])
      BY <1>3, <2>2, <3>1 DEF Base
    <3> QED BY <1>5, <2>1, <3>2, <3>3
  <2> QED BY <2>4, <2>5
<1>13. \A i \in 1 .. Len(net'[p]) : \/ Carried(d.log, d.rcv_next, net'[p][i])
                                    \/ \E j \in 1 .. Len(net[p]) : net'[p][i] = net[p][j]
  BY <1>11, <1>12
<1>14. \A i \in 1 .. Len(net'[Other(p)]) : \E j \in 1 .. Len(net[Other(p)]) :
         net'[Other(p)][i] = net[Other(p)][j]
  BY <1>1, <1>11
<1> QED BY <1>5, <1>7, <1>8, <1>11, <1>13, <1>14, StepInvariant

\* A step that receives nothing.
LEMMA LocalStep ==
  ASSUME IInv, NEW p \in Side, NEW c,
         After(core[p], c, core[Other(p)].log, core[Other(p)].rcv_next),
         core' = Flushed(p, c), sent' \in [Side -> Seq(Message)],
         net' = [net EXCEPT ![p] = Flight(@ \o c.outbox)]
  PROVE  IInv'
<1>1. Other(p) \in Side /\ Other(p) # p
  BY Peers
<1>2. net \in [Side -> Seq(Frame)]
  BY DEF IInv, Typed
<1>3. PICK n \in Seq(Frame) : n = net[Other(p)]
  BY <1>1, <1>2
<1>4. net' = [net EXCEPT ![Other(p)] = n, ![p] = Flight(net[p] \o c.outbox)]
  BY <1>1, <1>2, <1>3
<1>5. \A i \in 1 .. Len(n) : \E j \in 1 .. Len(net[Other(p)]) : n[i] = net[Other(p)][j]
  BY <1>3
<1> QED BY <1>4, <1>5, FlushStep

-----------------------------------------------------------------------------
(* The actions.                                                            *)

\* A core in which only the queue, the flags of the application or the
\* reassembly have changed.
LEMMA Quiet ==
  ASSUME NEW c, Good(c), NEW d \in CoreT, Keeps(c, d), d.log = c.log, d.outbox = c.outbox, d.state = c.state
  PROVE  /\ Good(d) /\ Ext(c.log, d.log) /\ c.rcv_next <= d.rcv_next
         /\ \A log : Fits(c, log) => Fits(d, log)
<1>1. Base(d)
  BY DEF Good, Base, Keeps
<1>2. FinLast(d) /\ States(d)
  BY DEF Good, FinLast, States, Keeps
<1>3. Ext(c.log, d.log) /\ c.rcv_next <= d.rcv_next
  <2>1. Len(c.log) \in Nat /\ c.rcv_next \in Nat
    BY DEF Good, Base, CoreT
  <2> QED BY <2>1 DEF Ext, Keeps
<1>4. \A log : Fits(c, log) => Fits(d, log)
  BY DEF Fits, Keeps
<1> QED BY <1>1, <1>2, <1>3, <1>4 DEF Good

\* A command of the application: something changes in the core, and pump runs.
LEMMA CommandStep ==
  ASSUME IInv, NEW p \in Side, ~core[p].dead, NEW c \in CoreT, Keeps(core[p], c), c.log = core[p].log,
         c.outbox = core[p].outbox, c.state = core[p].state,
         core' = Flushed(p, Pump(c)), sent' \in [Side -> Seq(Message)],
         net' = [net EXCEPT ![p] = Flight(@ \o Pump(c).outbox)]
  PROVE  IInv'
<1>1. PICK b, log, r : b = core[p] /\ log = core[Other(p)].log /\ r = core[Other(p)].rcv_next
  OBVIOUS
<1>2. Good(b) /\ ~b.dead /\ Fits(b, log) /\ b.una <= r /\ Base(b)
  BY <1>1, SideFacts
<1>3. /\ Good(c) /\ Ext(b.log, c.log) /\ b.rcv_next <= c.rcv_next /\ Fits(c, log)
      /\ c.una = b.una /\ ~c.dead
  BY <1>1, <1>2, Quiet DEF Keeps
<1>4. PICK d : d = Pump(c)
  OBVIOUS
<1>5. Moves(c, d, log) /\ Pumped(d)
  BY <1>3, <1>4, PumpMoves
<1>6. Moves(b, c, log)
  BY <1>3 DEF Moves
<1>7. Moves(b, d, log)
  BY <1>2, <1>5, <1>6, MovesTrans
<1>8. After(b, d, log, r)
  BY <1>2, <1>5, <1>7 DEF Moves, After
<1> QED BY <1>1, <1>4, <1>8, LocalStep

\* The application opens the connection.
LEMMA ConnectStep ==
  ASSUME IInv, NEW p \in Side, Connect(p)
  PROVE  IInv'
<1>1. PICK b, log, r : b = core[p] /\ log = core[Other(p)].log /\ r = core[Other(p)].rcv_next
  OBVIOUS
<1>2. /\ Good(b) /\ b \in CoreT /\ Fits(b, log) /\ Base(b) /\ b.log \in Seq(Entry) /\ r \in Nat
      /\ sent \in [Side -> Seq(Message)] /\ ~b.dead /\ b.state = "closed"
      /\ b.una <= r /\ b.una \in Nat
  BY <1>1, SideFacts DEF Connect, CoreT
<1>3. b.log = <<>> /\ b.rcv_next = 0 /\ b.buffer = {} /\ ~b.peer_closed
  BY <1>2 DEF Good, States
<1>4. PICK c : c = [b EXCEPT !.state = "syn_sent"]
  OBVIOUS
<1>5. c \in CoreT /\ c.log = b.log /\ c.outbox = b.outbox /\ Keeps(b, c) /\ c.state = "syn_sent"
  BY <1>2, <1>4 DEF CoreT, Keeps
<1>6. Base(c)
  BY <1>2, <1>5 DEF Base, Keeps
<1>7. PICK d : d = EmitReliable(c, "syn")
  OBVIOUS
<1>8. /\ Base(d) /\ Keeps(c, d) /\ Ext(c.log, d.log) /\ d.state = "syn_sent"
      /\ d.log = Append(c.log, [kind |-> "syn", data |-> NoChunk])
  <2>1. PICK k \in {"syn", "synack", "fin"} : k = "syn"
    OBVIOUS
  <2>2. LET g == EmitReliable(c, k) IN
        /\ Base(g) /\ Keeps(c, g) /\ Ext(c.log, g.log) /\ g.state = c.state
        /\ g.log = Append(c.log, [kind |-> k, data |-> NoChunk])
    BY <1>6, EmitType
  <2> QED BY <1>5, <1>7, <2>1, <2>2
<1>9. PICK x \in Entry : x = [kind |-> "syn", data |-> NoChunk] /\ x.kind = "syn"
  <2>1. [kind |-> "syn", data |-> NoChunk] \in Entry
    BY DEF Entry
  <2> QED BY <2>1
<1>10. d.log = <<x>> /\ Len(d.log) = 1 /\ d.log[1] = x /\ d.log # <<>>
  BY <1>3, <1>5, <1>8, <1>9
<1>11. FinLast(d) /\ States(d)
  <2>1. \A i \in 1 .. Len(d.log) : d.log[i].kind # "fin"
    BY <1>9, <1>10
  <2> QED BY <1>3, <1>5, <1>8, <1>10, <2>1 DEF FinLast, States, Keeps
<1>12. After(b, d, log, r)
  <2>1. Fits(d, log)
    BY <1>2, <1>5, <1>8 DEF Fits, Keeps
  <2>2. b.rcv_next <= d.rcv_next /\ d.una <= r
    BY <1>2, <1>3, <1>5, <1>8 DEF Keeps
  <2>3. Pumped(d)
    BY <1>8 DEF Pumped
  <2> QED BY <1>5, <1>8, <1>11, <2>1, <2>2, <2>3 DEF After, Good
<1>13. core' = Flushed(p, d) /\ net' = [net EXCEPT ![p] = Flight(@ \o d.outbox)] /\ sent' = sent
  BY <1>1, <1>4, <1>7 DEF Connect
<1> QED BY <1>1, <1>2, <1>12, <1>13, LocalStep

\* The application sends a message.
LEMMA SendMessageStep ==
  ASSUME IInv, NEW p \in Side, NEW m \in Message, SendMessage(p, m)
  PROVE  IInv'
<1>1. /\ core[p] \in CoreT /\ ~core[p].dead /\ sent \in [Side -> Seq(Message)]
  BY SideFacts DEF SendMessage
<1>2. PICK k \in Nat : k = Chunks[m]
  BY ChunksAssumption
<1>3. PICK w \in Seq(Chunk) : w = [i \in 1 .. Chunks[m] |-> [msg |-> m, idx |-> i]]
  <2>1. \A i \in 1 .. k : [msg |-> m, idx |-> i] \in Chunk
    BY <1>2 DEF Chunk
  <2>2. [i \in 1 .. k |-> [msg |-> m, idx |-> i]] \in Seq(Chunk)
    BY <2>1
  <2> QED BY <1>2, <2>2
<1>4. PICK u \in Seq(Chunk) : u = core[p].queue \o w
  <2>1. core[p].queue \in Seq(Chunk)
    BY <1>1 DEF CoreT
  <2> QED BY <2>1, Concat
<1>5. PICK c : c = [core[p] EXCEPT !.queue = u]
  OBVIOUS
<1>6. c = [core[p] EXCEPT !.queue = @ \o [i \in 1 .. Chunks[m] |-> [msg |-> m, idx |-> i]]]
  BY <1>3, <1>4, <1>5
<1>7. c \in CoreT /\ Keeps(core[p], c) /\ c.log = core[p].log /\ c.outbox = core[p].outbox
      /\ c.state = core[p].state
  BY <1>1, <1>5 DEF CoreT, Keeps
<1>8. core' = Flushed(p, Pump(c)) /\ net' = [net EXCEPT ![p] = Flight(@ \o Pump(c).outbox)]
  BY <1>6 DEF SendMessage
<1>9. sent' \in [Side -> Seq(Message)]
  <2>1. Append(sent[p], m) \in Seq(Message)
    BY <1>1
  <2> QED BY <1>1, <2>1 DEF SendMessage
<1> QED BY <1>1, <1>7, <1>8, <1>9, CommandStep

\* The application closes the connection.
LEMMA CloseStep ==
  ASSUME IInv, NEW p \in Side, Close(p)
  PROVE  IInv'
<1>1. /\ core[p] \in CoreT /\ ~core[p].dead /\ sent \in [Side -> Seq(Message)]
  BY SideFacts DEF Close
<1>2. PICK c : c = [core[p] EXCEPT !.closing = TRUE]
  OBVIOUS
<1>3. c \in CoreT /\ Keeps(core[p], c) /\ c.log = core[p].log /\ c.outbox = core[p].outbox
      /\ c.state = core[p].state
  BY <1>1, <1>2 DEF CoreT, Keeps
<1>4. /\ core' = Flushed(p, Pump(c)) /\ net' = [net EXCEPT ![p] = Flight(@ \o Pump(c).outbox)]
      /\ sent' = sent
  BY <1>2 DEF Close
<1> QED BY <1>1, <1>3, <1>4, CommandStep

\* The retransmit timer fires.
LEMMA TimeoutStep ==
  ASSUME IInv, NEW p \in Side, Timeout(p)
  PROVE  IInv'
<1>1. PICK b, log, r : b = core[p] /\ log = core[Other(p)].log /\ r = core[Other(p)].rcv_next
  OBVIOUS
<1>2. /\ Good(b) /\ Pumped(b) /\ Fits(b, log) /\ b.una <= r /\ ~b.dead
      /\ b.rcv_next \in Nat /\ Len(b.log) \in Nat /\ sent \in [Side -> Seq(Message)]
  BY <1>1, SideFacts DEF Timeout
<1>3. PICK d : d = OnTimeout(b)
  OBVIOUS
<1>4. /\ Good(d) /\ Pumped(d) /\ d.log = b.log /\ d.rcv_next = b.rcv_next /\ d.buffer = b.buffer
      /\ d.peer_closed = b.peer_closed /\ (d.una = b.una \/ d.dead)
  BY <1>2, <1>3, OnTimeoutType
<1>5. Ext(b.log, d.log) /\ b.rcv_next <= d.rcv_next
  BY <1>2, <1>4 DEF Ext
<1>6. Fits(d, log)
  BY <1>2, <1>4 DEF Fits
<1>7. After(b, d, log, r)
  BY <1>2, <1>4, <1>5, <1>6 DEF After
<1>8. core' = Flushed(p, d) /\ net' = [net EXCEPT ![p] = Flight(@ \o d.outbox)] /\ sent' = sent
  BY <1>1, <1>3 DEF Timeout
<1> QED BY <1>1, <1>2, <1>7, <1>8, LocalStep

\* A frame is received; a task that has ended takes it and does nothing.
LEMMA ReceiveStep ==
  ASSUME IInv, NEW p \in Side, NEW i \in 1 .. Len(net[Other(p)]), Receive(p, i)
  PROVE  IInv'
<1>1. PICK q \in Side : q = Other(p) /\ q # p /\ Other(q) = p
  BY Peers
<1>2. PICK b, log, r : b = core[p] /\ log = core[q].log /\ r = core[q].rcv_next
  OBVIOUS
<1>3. /\ Good(b) /\ Pumped(b) /\ Fits(b, log) /\ (b.dead \/ b.una <= r) /\ b.outbox = <<>>
      /\ b.rcv_next \in Nat /\ Len(b.log) \in Nat /\ sent \in [Side -> Seq(Message)]
      /\ log \in Seq(Entry) /\ EndsInFin(log) /\ r \in Nat
      /\ core \in [Side -> CoreT] /\ net \in [Side -> Seq(Frame)]
  BY <1>1, <1>2, SideFacts
<1>4. PICK s \in Seq(Frame) : s = net[q]
  BY <1>3
<1>5. PICK n \in Seq(Frame) : /\ n = SubSeq(s, i + 1, Len(s))
                              /\ \A k \in 1 .. Len(n) : \E j \in 1 .. Len(s) : n[k] = s[j]
  <2>1. i \in 1 .. Len(s)
    BY <1>1, <1>4
  <2>2. PICK n : n = SubSeq(s, i + 1, Len(s))
    OBVIOUS
  <2>3. n \in Seq(Frame) /\ \A k \in 1 .. Len(n) : \E j \in 1 .. Len(s) : n[k] = s[j]
    BY <2>1, <2>2, RestFrames
  <2> QED BY <2>2, <2>3
<1>6. PICK f \in Frame : f = net[q][i] /\ Carried(log, r, f)
  <2>1. net[q][i] \in Frame
    BY <1>1, <1>4
  <2>2. Carried(log, r, net[q][i])
    BY <1>1, <1>2 DEF IInv, NetOK
  <2> QED BY <2>1, <2>2
<1>7. PICK c : c = OnFrame(b, f)
  OBVIOUS
<1>8. /\ core' = IF b.dead THEN core ELSE Flushed(p, c)
      /\ net' = [net EXCEPT ![q] = n, ![p] = IF b.dead THEN net[p] ELSE Flight(net[p] \o c.outbox)]
      /\ sent' = sent
  BY <1>1, <1>2, <1>3, <1>4, <1>5, <1>6, <1>7 DEF Receive
<1>9. \A k \in 1 .. Len(n) : \E j \in 1 .. Len(net[Other(p)]) : n[k] = net[Other(p)][j]
  BY <1>1, <1>4, <1>5
<1>10. CASE ~b.dead
  <2>1. After(b, c, log, r)
    BY <1>3, <1>6, <1>7, <1>10, OnFrameAfter
  <2>2. core' = Flushed(p, c)
        /\ net' = [net EXCEPT ![Other(p)] = n, ![p] = Flight(net[p] \o c.outbox)]
    BY <1>1, <1>8, <1>10
  <2> QED BY <1>1, <1>2, <1>3, <1>8, <1>9, <2>1, <2>2, FlushStep
<1>11. CASE b.dead
  <2>1. After(b, b, log, r)
    <3>1. Ext(b.log, b.log) /\ b.rcv_next <= b.rcv_next
      BY <1>3 DEF Ext
    <3> QED BY <1>3, <1>11, <3>1 DEF After
  <2>2. core' = [core EXCEPT ![p] = b]
    BY <1>2, <1>3, <1>8, <1>11
  <2>3. net' \in [Side -> Seq(Frame)] /\ net'[p] = net[p] /\ net'[q] = n
    BY <1>1, <1>3, <1>8, <1>11
  <2>4. \A k \in 1 .. Len(net'[p]) : \/ Carried(b.log, b.rcv_next, net'[p][k])
                                     \/ \E j \in 1 .. Len(net[p]) : net'[p][k] = net[p][j]
    BY <2>3
  <2>5. \A k \in 1 .. Len(net'[Other(p)]) : \E j \in 1 .. Len(net[Other(p)]) :
           net'[Other(p)][k] = net[Other(p)][j]
    BY <1>1, <1>9, <2>3
  <2> QED BY <1>1, <1>2, <1>3, <1>8, <2>1, <2>2, <2>3, <2>4, <2>5, StepInvariant
<1> QED BY <1>10, <1>11

\* A core whose task ends.
LEMMA DeadType ==
  ASSUME IInv, NEW p \in Side
  PROVE  LET d == [core[p] EXCEPT !.dead = TRUE] IN
         /\ After(core[p], d, core[Other(p)].log, core[Other(p)].rcv_next) /\ d.outbox = <<>>
         /\ d.rcv_next = core[p].rcv_next
<1>1. PICK b, log, r : b = core[p] /\ log = core[Other(p)].log /\ r = core[Other(p)].rcv_next
  OBVIOUS
<1>2. /\ Good(b) /\ b \in CoreT /\ Fits(b, log) /\ b.outbox = <<>> /\ b.rcv_next \in Nat /\ Len(b.log) \in Nat
  BY <1>1, SideFacts
<1>3. PICK d : d = [b EXCEPT !.dead = TRUE]
  OBVIOUS
<1>4. /\ d \in CoreT /\ d.buffer = b.buffer /\ d.log = b.log /\ d.una = b.una /\ d.outbox = b.outbox
      /\ d.rcv_next = b.rcv_next /\ d.state = b.state /\ d.dead = TRUE
  BY <1>2, <1>3 DEF CoreT
<1>5. Good(d)
  BY <1>2, <1>4 DEF Good, Base, FinLast, States
<1>6. Ext(b.log, d.log) /\ b.rcv_next <= d.rcv_next
  BY <1>2, <1>4 DEF Ext
<1>7. Fits(d, log) /\ Pumped(d)
  BY <1>2, <1>4 DEF Fits, Pumped
<1>8. After(b, d, log, r)
  BY <1>4, <1>5, <1>6, <1>7 DEF After
<1> QED BY <1>1, <1>2, <1>3, <1>4, <1>8

\* The endpoint is dropped.
LEMMA EndpointDroppedStep ==
  ASSUME IInv, NEW p \in Side, EndpointDropped(p)
  PROVE  IInv'
<1>1. core \in [Side -> CoreT] /\ net \in [Side -> Seq(Frame)] /\ sent \in [Side -> Seq(Message)]
  BY SideFacts
<1>2. PICK d : d = [core[p] EXCEPT !.dead = TRUE]
  OBVIOUS
<1>3. After(core[p], d, core[Other(p)].log, core[Other(p)].rcv_next) /\ d.outbox = <<>>
  BY <1>2, DeadType
<1>4. core' = [core EXCEPT ![p] = d] /\ net' = net /\ sent' = sent
  BY <1>1, <1>2 DEF EndpointDropped
<1>5. \A i \in 1 .. Len(net'[p]) : \/ Carried(d.log, d.rcv_next, net'[p][i])
                                   \/ \E j \in 1 .. Len(net[p]) : net'[p][i] = net[p][j]
  BY <1>4
<1>6. \A i \in 1 .. Len(net'[Other(p)]) : \E j \in 1 .. Len(net[Other(p)]) :
        net'[Other(p)][i] = net[Other(p)][j]
  BY <1>4
<1> QED BY <1>1, <1>3, <1>4, <1>5, <1>6, StepInvariant

\* The peer resets the connection.
LEMMA PeerResetsStep ==
  ASSUME IInv, NEW p \in Side, PeerResets(p)
  PROVE  IInv'
<1>1. /\ core \in [Side -> CoreT] /\ net \in [Side -> Seq(Frame)] /\ sent \in [Side -> Seq(Message)]
      /\ Base(core[p]) /\ core[p].rcv_next \in Nat
  BY SideFacts
<1>2. PICK d : d = [core[p] EXCEPT !.dead = TRUE]
  OBVIOUS
<1>3. After(core[p], d, core[Other(p)].log, core[Other(p)].rcv_next) /\ d.outbox = <<>>
      /\ d.rcv_next = core[p].rcv_next
  BY <1>2, DeadType
<1>4. PICK f \in Frame : f = Stamp(core[p], "rst", NoChunk, 0) /\ f.ack = core[p].rcv_next /\ f.kind = "rst"
  <2>1. PICK k \in {"syn", "synack", "data", "fin", "ack", "rst"}, x \in Chunk \cup {NoChunk}, z \in Nat :
          k = "rst" /\ x = NoChunk /\ z = 0
    OBVIOUS
  <2>2. LET g == Stamp(core[p], k, x, z) IN g \in Frame /\ g.ack = core[p].rcv_next /\ g.kind = k
    BY <1>1, StampType
  <2> QED BY <2>1, <2>2
<1>5. PICK s \in Seq(Frame) : /\ s = Append(net[p], f)
                              /\ \A i \in 1 .. Len(s) : s[i] = f \/ \E j \in 1 .. Len(net[p]) : s[i] = net[p][j]
  <2>1. PICK a \in Seq(Frame) : a = net[p]
    BY <1>1
  <2>2. Append(a, f) \in Seq(Frame) /\ Len(Append(a, f)) = Len(a) + 1 /\ Len(a) \in Nat
    OBVIOUS
  <2>3. ASSUME NEW i \in 1 .. Len(Append(a, f))
        PROVE  Append(a, f)[i] = f \/ \E j \in 1 .. Len(a) : Append(a, f)[i] = a[j]
    <3>1. CASE i \in 1 .. Len(a)
      BY <3>1
    <3>2. CASE i \notin 1 .. Len(a)
      <4>1. i = Len(a) + 1
        BY <2>2, <3>2
      <4> QED BY <4>1
    <3> QED BY <3>1, <3>2
  <2> QED BY <2>1, <2>2, <2>3
<1>6. Flight(s) \in Seq(Frame) /\ \A i \in 1 .. Len(Flight(s)) : \E j \in 1 .. Len(s) : Flight(s)[i] = s[j]
  BY FlightFrames
<1>7. core' = [core EXCEPT ![p] = d] /\ net' = [net EXCEPT ![p] = Flight(s)] /\ sent' = sent
  BY <1>1, <1>2, <1>4, <1>5 DEF PeerResets
<1>8. Other(p) \in Side /\ Other(p) # p
  BY Peers
<1>9. net' \in [Side -> Seq(Frame)] /\ net'[p] = Flight(s) /\ net'[Other(p)] = net[Other(p)]
  BY <1>1, <1>6, <1>7, <1>8
<1>10. Carried(d.log, d.rcv_next, f)
  BY <1>1, <1>3, <1>4 DEF Carried, ConsumesSeq
<1>11. ASSUME NEW i \in 1 .. Len(Flight(s))
       PROVE  \/ Carried(d.log, d.rcv_next, Flight(s)[i])
              \/ \E j \in 1 .. Len(net[p]) : Flight(s)[i] = net[p][j]
  <2>1. PICK j \in 1 .. Len(s) : Flight(s)[i] = s[j]
    BY <1>6
  <2> QED BY <1>5, <1>10, <2>1
<1>12. \A i \in 1 .. Len(net'[p]) : \/ Carried(d.log, d.rcv_next, net'[p][i])
                                    \/ \E j \in 1 .. Len(net[p]) : net'[p][i] = net[p][j]
  BY <1>9, <1>11
<1>13. \A i \in 1 .. Len(net'[Other(p)]) : \E j \in 1 .. Len(net[Other(p)]) :
         net'[Other(p)][i] = net[Other(p)][j]
  BY <1>9
<1> QED BY <1>1, <1>3, <1>7, <1>9, <1>12, <1>13, StepInvariant

\* A partial message grows old.
LEMMA PartialExpiresStep ==
  ASSUME IInv, NEW p \in Side, PartialExpires(p)
  PROVE  IInv'
<1>1. PICK b, log, r : b = core[p] /\ log = core[Other(p)].log /\ r = core[Other(p)].rcv_next
  OBVIOUS
<1>2. /\ Good(b) /\ Pumped(b) /\ b \in CoreT /\ Fits(b, log) /\ b.outbox = <<>> /\ (b.dead \/ b.una <= r)
      /\ core \in [Side -> CoreT] /\ net \in [Side -> Seq(Frame)] /\ sent \in [Side -> Seq(Message)]
  BY <1>1, SideFacts
<1>3. PICK x \in b.parts : core' = [core EXCEPT ![p].stale = @ \cup {x.msg}]
  BY <1>1 DEF PartialExpires
<1>4. PICK t \in SUBSET Message : t = b.stale \cup {x.msg}
  <2>1. x.msg \in Message
    BY <1>2 DEF CoreT, Chunk
  <2>2. b.stale \in SUBSET Message
    BY <1>2 DEF CoreT
  <2> QED BY <2>1, <2>2
<1>5. PICK d : d = [b EXCEPT !.stale = t]
  OBVIOUS
<1>6. d \in CoreT /\ Keeps(b, d) /\ d.log = b.log /\ d.outbox = b.outbox /\ d.state = b.state
      /\ d.queue = b.queue
  BY <1>2, <1>5 DEF CoreT, Keeps
<1>7. Good(d) /\ Ext(b.log, d.log) /\ b.rcv_next <= d.rcv_next /\ Fits(d, log)
  BY <1>2, <1>6, Quiet
<1>8. After(b, d, log, r)
  BY <1>2, <1>6, <1>7 DEF After, Keeps, Pumped, InFlight
<1>9. core' = [core EXCEPT ![p] = d]
  BY <1>1, <1>2, <1>3, <1>4, <1>5
<1>10. net' = net /\ sent' = sent
  BY DEF PartialExpires
<1>11. \A i \in 1 .. Len(net'[p]) : \/ Carried(d.log, d.rcv_next, net'[p][i])
                                    \/ \E j \in 1 .. Len(net[p]) : net'[p][i] = net[p][j]
  BY <1>10
<1>12. \A i \in 1 .. Len(net'[Other(p)]) : \E j \in 1 .. Len(net[Other(p)]) :
         net'[Other(p)][i] = net[Other(p)][j]
  BY <1>10
<1>13. d.outbox = <<>>
  BY <1>2, <1>6
<1> QED BY <1>1, <1>2, <1>8, <1>9, <1>10, <1>11, <1>12, <1>13, StepInvariant

-----------------------------------------------------------------------------
(* The specification.                                                      *)

\* Initially nothing was said.
LEMMA InitInvariant ==
  ASSUME Init
  PROVE  IInv
<1>1. core = [p \in Side |-> New(p)] /\ net = [p \in Side |-> <<>>] /\ sent = [p \in Side |-> <<>>]
  BY DEF Init
<1>2. ASSUME NEW p \in Side
      PROVE  /\ New(p) \in CoreT /\ Good(New(p)) /\ Pumped(New(p)) /\ New(p).outbox = <<>>
             /\ New(p).log = <<>> /\ New(p).una = 0 /\ New(p).rcv_next = 0
             /\ \A log : log = <<>> => Fits(New(p), log)
  <2>1. Window[p] \in Nat /\ DefaultWindow \in Nat /\ 0 \in 0 .. MaxRetries
    BY WindowAssumption, BoundsAssumption
  <2>2. PICK c : c = New(p)
    OBVIOUS
  <2>3. /\ c.state = "closed" /\ c.log = <<>> /\ c.una = 0 /\ c.rcv_next = 0 /\ c.buffer = {}
        /\ c.queue = <<>> /\ c.outbox = <<>> /\ c.peer_closed = FALSE /\ c.dead = FALSE
    BY <2>2 DEF New
  <2>4. c \in CoreT
    <3>1. <<>> \in Seq(Entry) /\ <<>> \in Seq(Chunk) /\ <<>> \in Seq(Message) /\ <<>> \in Seq(Frame)
      OBVIOUS
    <3> QED BY <2>1, <2>2, <3>1 DEF New, CoreT
  <2>5. Len(c.log) = 0 /\ Len(c.outbox) = 0 /\ IsFiniteSet(c.buffer)
    BY <2>3, FS_EmptySet
  <2>6. Good(c) /\ Pumped(c)
    BY <2>3, <2>4, <2>5 DEF Good, Base, FinLast, States, Pumped
  <2>7. ASSUME NEW log, log = <<>> PROVE Fits(c, log)
    <3>1. Len(log) = 0
      BY <2>7
    <3> QED BY <2>3, <3>1 DEF Fits
  <2> QED BY <2>2, <2>3, <2>4, <2>6, <2>7
<1>3. Typed
  <2>1. <<>> \in Seq(Frame) /\ <<>> \in Seq(Message)
    OBVIOUS
  <2> QED BY <1>1, <1>2, <2>1 DEF Typed
<1>4. ASSUME NEW p \in Side PROVE SideOK(p) /\ NetOK(p)
  <2>1. Other(p) \in Side
    BY Peers
  <2>2. core[p] = New(p) /\ core[Other(p)] = New(Other(p)) /\ Len(net[p]) = 0
    BY <1>1, <2>1
  <2>3. New(Other(p)).log = <<>> /\ New(Other(p)).rcv_next = 0
    BY <1>2, <2>1
  <2>4. SideOK(p)
    BY <1>2, <2>2, <2>3 DEF SideOK
  <2>5. NetOK(p)
    BY <2>2 DEF NetOK
  <2> QED BY <2>4, <2>5
<1> QED BY <1>3, <1>4 DEF IInv

\* Every step keeps the invariant.
LEMMA NextInvariant ==
  ASSUME IInv, [Next]_vars
  PROVE  IInv'
<1>1. ASSUME NEW p \in Side, Connect(p) PROVE IInv'
  BY <1>1, ConnectStep
<1>2. ASSUME NEW p \in Side, Close(p) PROVE IInv'
  BY <1>2, CloseStep
<1>3. ASSUME NEW p \in Side, Timeout(p) PROVE IInv'
  BY <1>3, TimeoutStep
<1>4. ASSUME NEW p \in Side, NEW m \in Message, SendMessage(p, m) PROVE IInv'
  BY <1>4, SendMessageStep
<1>5. ASSUME NEW p \in Side, NEW i \in 1 .. Len(net[Other(p)]), Receive(p, i) PROVE IInv'
  BY <1>5, ReceiveStep
<1>6. ASSUME NEW p \in Side, EndpointDropped(p) PROVE IInv'
  BY <1>6, EndpointDroppedStep
<1>7. ASSUME NEW p \in Side, PeerResets(p) PROVE IInv'
  BY <1>7, PeerResetsStep
<1>8. ASSUME NEW p \in Side, PartialExpires(p) PROVE IInv'
  BY <1>8, PartialExpiresStep
<1>9. CASE UNCHANGED vars
  BY <1>9 DEF vars, IInv, Typed, SideOK, NetOK
<1> QED BY <1>1, <1>2, <1>3, <1>4, <1>5, <1>6, <1>7, <1>8, <1>9 DEF Next

\* The two cores and the network always fit together: every copy of a frame is the
\* one its sender logged, nothing is acknowledged that was not taken, a FIN is the
\* last frame of its log, and queued data has something in flight before it.
THEOREM ChannelInvariant == Spec => []IInv
<1>1. Init => IInv
  BY InitInvariant
<1>2. IInv /\ [Next]_vars => IInv'
  BY NextInvariant
<1> QED BY <1>1, <1>2, PTL DEF Spec

\* Every core, every frame in flight and the history have their types, and no core
\* has more acknowledged than it sent.
THEOREM TypeCorrect == Spec => []TypeOK
<1>1. IInv => TypeOK
  <2>1. SUFFICES ASSUME IInv PROVE TypeOK
    OBVIOUS
  <2>2. core \in [Side -> CoreT] /\ net \in [Side -> Seq(Frame)] /\ sent \in [Side -> Seq(Message)]
    BY <2>1 DEF IInv, Typed
  <2>3. ASSUME NEW p \in Side PROVE core[p] \in Core /\ core[p].una <= Len(core[p].log)
    <3>1. PICK c \in CoreT : c = core[p] /\ c.outbox \in {<<>>}
      BY <2>1, <2>2 DEF IInv, SideOK
    <3>2. c \in Core
      BY <3>1 DEF CoreT, Core
    <3>3. core[p].una <= Len(core[p].log)
      BY <2>1 DEF IInv, SideOK, Good, Base
    <3> QED BY <3>1, <3>2, <3>3
  <2>4. core \in [Side -> Core]
    BY <2>2, <2>3
  <2> QED BY <2>2, <2>3, <2>4 DEF TypeOK
<1> QED BY <1>1, ChannelInvariant, PTL

\* Retransmission and reordering never mix frames up: every copy of a sequenced
\* frame, in flight or in a reorder buffer, is the one its sender logged.
THEOREM CopiesAlwaysAgree == Spec => []CopiesAgree
<1>1. IInv => CopiesAgree
  <2>1. SUFFICES ASSUME IInv, NEW p \in Side
                 PROVE  /\ \A i \in 1 .. Len(net[p]) : ConsumesSeq(net[p][i]) => Logged(core[p].log, net[p][i])
                        /\ \A h \in core[Other(p)].buffer : Logged(core[p].log, h)
    BY DEF CopiesAgree, Logged
  <2>2. \A i \in 1 .. Len(net[p]) : ConsumesSeq(net[p][i]) => Logged(core[p].log, net[p][i])
    BY <2>1 DEF IInv, NetOK, Carried
  <2>3. Other(p) \in Side /\ Other(Other(p)) = p
    BY Peers
  <2>4. \A h \in core[Other(p)].buffer : Logged(core[p].log, h)
    BY <2>1, <2>3 DEF IInv, SideOK, Fits
  <2> QED BY <2>2, <2>4
<1> QED BY <1>1, ChannelInvariant, PTL

\* A frame stops being retransmitted only once the peer has taken it in order.
THEOREM RetiredOnlyWhenTaken == Spec => []NothingRetiredEarly
<1>1. IInv => NothingRetiredEarly
  <2>1. SUFFICES ASSUME IInv, NEW p \in Side
                 PROVE  /\ ~core[p].dead => core[p].una <= core[Other(p)].rcv_next
                        /\ \A i \in 1 .. Len(net[p]) : net[p][i].ack <= core[p].rcv_next
                        /\ core[Other(p)].rcv_next <= Len(core[p].log)
    BY DEF NothingRetiredEarly
  <2>2. Other(p) \in Side /\ Other(Other(p)) = p
    BY Peers
  <2>3. ~core[p].dead => core[p].una <= core[Other(p)].rcv_next
    BY <2>1 DEF IInv, SideOK
  <2>4. \A i \in 1 .. Len(net[p]) : net[p][i].ack <= core[p].rcv_next
    BY <2>1 DEF IInv, NetOK, Carried
  <2>5. core[Other(p)].rcv_next <= Len(core[p].log)
    BY <2>1, <2>2 DEF IInv, SideOK, Fits
  <2> QED BY <2>3, <2>4, <2>5
<1> QED BY <1>1, ChannelInvariant, PTL

\* EOF comes last: who sees the peer's close has taken everything the peer sent.
THEOREM EofComesLast == Spec => []EofComplete
<1>1. IInv => EofComplete
  BY DEF IInv, SideOK, Fits, EofComplete
<1> QED BY <1>1, ChannelInvariant, PTL

\* Somebody's retransmit timer runs whenever something is left to do.
THEOREM AlwaysATimer == Spec => []NeverStalled
<1>1. IInv => NeverStalled
  <2>1. SUFFICES ASSUME IInv, NEW p \in Side, ~core[p].dead
                 PROVE  /\ core[p].state = "established" /\ core[p].queue # <<>> => InFlight(core[p]) > 0
                        /\ core[p].state = "syn_sent" /\ InFlight(core[p]) = 0
                             => core[Other(p)].dead \/ InFlight(core[Other(p)]) > 0
    BY DEF NeverStalled
  <2>2. PICK q \in Side : q = Other(p) /\ Other(q) = p
    BY Peers
  <2>3. SideOK(p) /\ SideOK(q)
    BY <2>1 DEF IInv
  <2>4. core[p].state = "established" /\ core[p].queue # <<>> => InFlight(core[p]) > 0
    BY <2>1, <2>3 DEF SideOK, Pumped
  <2>5. ASSUME core[p].state = "syn_sent", InFlight(core[p]) = 0, ~core[q].dead
        PROVE  InFlight(core[q]) > 0
    <3>1. PICK c, d : c = core[p] /\ d = core[q]
      OBVIOUS
    <3>2. /\ Good(c) /\ Good(d) /\ c.una <= d.rcv_next /\ d.una <= c.rcv_next /\ ~c.dead /\ ~d.dead
      BY <2>1, <2>2, <2>3, <2>5, <3>1 DEF SideOK
    <3>3. /\ c.log \in Seq(Entry) /\ d.log \in Seq(Entry) /\ c.una \in Nat /\ d.una \in Nat
          /\ d.rcv_next \in Nat /\ Len(c.log) \in Nat /\ Len(d.log) \in Nat
          /\ d.state \in {"closed", "syn_sent", "established", "fin_sent"}
      <4>1. c \in CoreT /\ d \in CoreT
        BY <3>2 DEF Good, Base
      <4>2. c.log \in Seq(Entry) /\ d.log \in Seq(Entry)
        BY <4>1 DEF CoreT
      <4>3. c.una \in Nat /\ d.una \in Nat /\ d.rcv_next \in Nat
        BY <4>1 DEF CoreT
      <4>4. d.state \in {"closed", "syn_sent", "established", "fin_sent"}
        BY <4>1 DEF CoreT
      <4>5. Len(c.log) \in Nat /\ Len(d.log) \in Nat
        BY <4>2
      <4> QED BY <4>2, <4>3, <4>4, <4>5
    <3>4. c.log # <<>> /\ c.rcv_next = 0
      BY <2>5, <3>1, <3>2 DEF Good, States
    <3>5. c.una >= 1
      <4>1. Len(c.log) >= 1
        BY <3>3, <3>4
      <4> QED BY <2>5, <3>1, <3>3, <4>1 DEF InFlight
    <3>6. d.rcv_next # 0
      BY <3>2, <3>3, <3>5
    <3>7. d.state \notin {"closed", "syn_sent"}
      BY <3>2, <3>6 DEF Good, States
    <3>8. d.log # <<>>
      BY <3>2, <3>7 DEF Good, States
    <3>9. Len(d.log) >= 1 /\ d.una = 0
      BY <3>2, <3>3, <3>4, <3>8
    <3> QED BY <3>1, <3>3, <3>9 DEF InFlight
  <2> QED BY <2>2, <2>4, <2>5
<1> QED BY <1>1, ChannelInvariant, PTL

-----------------------------------------------------------------------------
(* The stream of chunks: what a side has put on the wire and what still    *)
(* waits in its queue are the chunks of the messages it has sent, in       *)
(* order.  What the reader holds is determined by the last frame taken.    *)

HandshakeKind == {"syn", "synack"}

\* Frame i of a log; where there is none, as good as a SYN.
EntryAt(log, i) == IF i = 0 THEN [kind |-> "syn", data |-> NoChunk] ELSE log[i]

DataEntry(x) == [kind |-> "data", data |-> x]

\* After frame e comes chunk j + 1 of message k of those sent.
Due(e, S, k, j) ==
  \/ e.kind \in HandshakeKind /\ k = 1 /\ j = 0
  \/ /\ e.kind = "data"
     /\ \E n \in 1 .. Len(S) : \E i \in 1 .. Chunks[S[n]] :
          /\ e.data = [msg |-> S[n], idx |-> i]
          /\ IF i < Chunks[S[n]] THEN k = n /\ j = i ELSE k = n + 1 /\ j = 0

\* Frame y may follow frame x.
NextEntry(x, y, S) ==
  /\ y.kind = "data" =>
       \E k \in 1 .. Len(S), j \in Nat : Due(x, S, k, j) /\ y.data = [msg |-> S[k], idx |-> j + 1]
  /\ y.kind \in HandshakeKind => x.kind \in HandshakeKind
  /\ y.kind # "data" => y.data = NoChunk

InOrder(log, S) == \A i \in 1 .. Len(log) : NextEntry(EntryAt(log, i - 1), log[i], S)

\* What comes before chunk i of queue q when e is the last frame on the wire.
BeforeQueued(e, q, i) == IF i = 1 THEN e ELSE DataEntry(q[i - 1])

\* The queue goes on where the wire has stopped, and ends with the last message.
QueueInOrder(e, q, S) ==
  /\ \A i \in 1 .. Len(q) : NextEntry(BeforeQueued(e, q, i), DataEntry(q[i]), S)
  /\ Due(BeforeQueued(e, q, Len(q) + 1), S, Len(S) + 1, 0)

LastEntry(c) == EntryAt(c.log, Len(c.log))

SenderOK(c, S) ==
  /\ InOrder(c.log, S)
  /\ ~c.dead /\ c.state # "fin_sent" => QueueInOrder(LastEntry(c), c.queue, S)
  /\ ~c.dead /\ c.state \in {"closed", "syn_sent"} => LastEntry(c).kind \in HandshakeKind

\* A reader that has taken everything up to frame e has delivered the messages
\* that are complete, and holds the chunks of the next.
ReadUpTo(r, e, S) ==
  /\ r.stale = {}
  /\ \E k \in 1 .. Len(S) + 1, j \in Nat :
       /\ e.kind # "fin" => Due(e, S, k, j)
       /\ k = Len(S) + 1 => j = 0
       /\ r.delivered = SubSeq(S, 1, k - 1)
       /\ r.parts = {[msg |-> S[k], idx |-> i] : i \in 1 .. j}

\* No message is sent twice.
Distinct(S) == \A i, j \in 1 .. Len(S) : S[i] = S[j] => i = j

\* Where no partial message outlives the reassembly timeout, core c has read the
\* log up to what it has taken, and its application is given ever more.
Reads(p, c, log, R) == p \in SlowTransfer \/ ReadUpTo(Reader(c), EntryAt(log, c.rcv_next), R)
Grows(p, u, v) == p \in SlowTransfer \/ Len(u) <= Len(v)

\* The two streams.
StreamOK(p) ==
  /\ Distinct(sent[p])
  /\ SenderOK(core[p], sent[p])
  /\ Reads(p, core[p], core[Other(p)].log, sent[Other(p)])

StreamsInv == IInv /\ \A p \in Side : StreamOK(p)

\* Every message has a chunk.
LEMMA ChunkCount ==
  ASSUME NEW S \in Seq(Message), NEW n \in 1 .. Len(S)
  PROVE  S[n] \in Message /\ Chunks[S[n]] \in Nat /\ Chunks[S[n]] >= 1
BY ChunksAssumption

\* What is due is a chunk of a message sent, or the first of the next message.
LEMMA DueType ==
  ASSUME NEW S \in Seq(Message), NEW e, NEW k, NEW j, Due(e, S, k, j)
  PROVE  /\ k \in 1 .. Len(S) + 1 /\ j \in Nat
         /\ k = Len(S) + 1 => j = 0
         /\ k \in 1 .. Len(S) => j < Chunks[S[k]]
<1>1. PICK L \in Nat : L = Len(S)
  OBVIOUS
<1>2. CASE k = 1 /\ j = 0
  <2>1. k \in 1 .. Len(S) => j < Chunks[S[k]]
    <3> SUFFICES ASSUME k \in 1 .. Len(S) PROVE j < Chunks[S[k]]
      OBVIOUS
    <3>1. Chunks[S[k]] \in Nat /\ Chunks[S[k]] >= 1
      BY ChunkCount
    <3> QED BY <1>2, <3>1
  <2> QED BY <1>1, <1>2, <2>1
<1>3. CASE \E n \in 1 .. Len(S) : \E i \in 1 .. Chunks[S[n]] :
             IF i < Chunks[S[n]] THEN k = n /\ j = i ELSE k = n + 1 /\ j = 0
  <2>1. PICK n \in 1 .. Len(S) : \E i \in 1 .. Chunks[S[n]] :
             IF i < Chunks[S[n]] THEN k = n /\ j = i ELSE k = n + 1 /\ j = 0
    BY <1>3
  <2>2. Chunks[S[n]] \in Nat
    BY ChunkCount
  <2>3. PICK i \in 1 .. Chunks[S[n]] : IF i < Chunks[S[n]] THEN k = n /\ j = i ELSE k = n + 1 /\ j = 0
    BY <2>1
  <2>4. CASE i < Chunks[S[n]]
    <3>1. k = n /\ j = i /\ j \in Nat /\ k # L + 1
      BY <1>1, <2>2, <2>3, <2>4
    <3> QED BY <1>1, <2>4, <3>1
  <2>5. CASE ~(i < Chunks[S[n]])
    <3>1. k = n + 1 /\ j = 0 /\ k \in 1 .. L + 1
      BY <1>1, <2>3, <2>5
    <3>2. k \in 1 .. Len(S) => j < Chunks[S[k]]
      <4> SUFFICES ASSUME k \in 1 .. Len(S) PROVE j < Chunks[S[k]]
        OBVIOUS
      <4>1. Chunks[S[k]] \in Nat /\ Chunks[S[k]] >= 1
        BY ChunkCount
      <4> QED BY <3>1, <4>1
    <3> QED BY <1>1, <3>1, <3>2
  <2> QED BY <2>4, <2>5
<1> QED BY <1>2, <1>3 DEF Due

\* A chunk sent determines what is due after it.
LEMMA DueUnique ==
  ASSUME NEW S \in Seq(Message), Distinct(S), NEW e, NEW k, NEW j, NEW l, NEW m,
         Due(e, S, k, j), Due(e, S, l, m)
  PROVE  k = l /\ j = m
<1>1. CASE e.kind \in HandshakeKind
  BY <1>1 DEF Due, HandshakeKind
<1>2. CASE e.kind \notin HandshakeKind
  <2>1. PICK n \in 1 .. Len(S) : \E i \in 1 .. Chunks[S[n]] :
          /\ e.data = [msg |-> S[n], idx |-> i]
          /\ IF i < Chunks[S[n]] THEN k = n /\ j = i ELSE k = n + 1 /\ j = 0
    BY <1>2 DEF Due
  <2>2. PICK i \in 1 .. Chunks[S[n]] :
          /\ e.data = [msg |-> S[n], idx |-> i]
          /\ IF i < Chunks[S[n]] THEN k = n /\ j = i ELSE k = n + 1 /\ j = 0
    BY <2>1
  <2>3. PICK o \in 1 .. Len(S) : \E h \in 1 .. Chunks[S[o]] :
          /\ e.data = [msg |-> S[o], idx |-> h]
          /\ IF h < Chunks[S[o]] THEN l = o /\ m = h ELSE l = o + 1 /\ m = 0
    BY <1>2 DEF Due
  <2>4. PICK h \in 1 .. Chunks[S[o]] :
          /\ e.data = [msg |-> S[o], idx |-> h]
          /\ IF h < Chunks[S[o]] THEN l = o /\ m = h ELSE l = o + 1 /\ m = 0
    BY <2>3
  <2>5. S[n] = S[o] /\ i = h
    <3>1. [msg |-> S[n], idx |-> i].msg = S[n] /\ [msg |-> S[n], idx |-> i].idx = i
      OBVIOUS
    <3>2. [msg |-> S[o], idx |-> h].msg = S[o] /\ [msg |-> S[o], idx |-> h].idx = h
      OBVIOUS
    <3> QED BY <2>2, <2>4, <3>1, <3>2
  <2>6. n = o
    BY <2>5 DEF Distinct
  <2> QED BY <2>2, <2>4, <2>5, <2>6
<1> QED BY <1>1, <1>2

\* More messages change nothing about what is due.
LEMMA DueExt ==
  ASSUME NEW S \in Seq(Message), NEW T \in Seq(Message), Ext(S, T), NEW e, NEW k, NEW j, Due(e, S, k, j)
  PROVE  Due(e, T, k, j)
<1>1. CASE e.kind = "data"
  <2>1. PICK n \in 1 .. Len(S) : \E i \in 1 .. Chunks[S[n]] :
          /\ e.data = [msg |-> S[n], idx |-> i]
          /\ IF i < Chunks[S[n]] THEN k = n /\ j = i ELSE k = n + 1 /\ j = 0
    BY <1>1 DEF Due, HandshakeKind
  <2>2. T[n] = S[n] /\ n \in 1 .. Len(T)
    BY DEF Ext
  <2> QED BY <1>1, <2>1, <2>2 DEF Due
<1>2. CASE e.kind # "data"
  BY <1>2 DEF Due
<1> QED BY <1>1, <1>2

\* Nor about what may follow.
LEMMA NextExt ==
  ASSUME NEW S \in Seq(Message), NEW T \in Seq(Message), Ext(S, T), NEW x, NEW y, NextEntry(x, y, S)
  PROVE  NextEntry(x, y, T)
<1>1. ASSUME y.kind = "data"
      PROVE  \E k \in 1 .. Len(T), j \in Nat : Due(x, T, k, j) /\ y.data = [msg |-> T[k], idx |-> j + 1]
  <2>1. PICK k \in 1 .. Len(S), j \in Nat : Due(x, S, k, j) /\ y.data = [msg |-> S[k], idx |-> j + 1]
    BY <1>1 DEF NextEntry
  <2>2. T[k] = S[k] /\ k \in 1 .. Len(T)
    BY DEF Ext
  <2>3. Due(x, T, k, j)
    BY <2>1, DueExt
  <2> QED BY <2>1, <2>2, <2>3
<1> QED BY <1>1 DEF NextEntry

\* A log in order stays in order.
LEMMA InOrderExt ==
  ASSUME NEW S \in Seq(Message), NEW T \in Seq(Message), Ext(S, T), NEW log, InOrder(log, S)
  PROVE  InOrder(log, T)
BY NextExt DEF InOrder

\* The chunks of an equal number of messages are the same.
LEMMA PrefixExt ==
  ASSUME NEW S \in Seq(Message), NEW T \in Seq(Message), Ext(S, T), NEW n \in 0 .. Len(S)
  PROVE  SubSeq(T, 1, n) = SubSeq(S, 1, n)
<1>1. n \in Nat /\ n <= Len(S) /\ Len(S) <= Len(T) /\ Len(T) \in Nat
  BY DEF Ext
<1>2. \A i \in 1 .. n : T[i] = S[i]
  BY <1>1 DEF Ext
<1>3. /\ SubSeq(T, 1, n) = [i \in 1 .. n |-> T[i]]
      /\ SubSeq(S, 1, n) = [i \in 1 .. n |-> S[i]]
  BY <1>1
<1> QED BY <1>2, <1>3

\* Nor does the reader mind that more is sent.
LEMMA ReadExt ==
  ASSUME NEW S \in Seq(Message), NEW T \in Seq(Message), Ext(S, T), NEW r, NEW e, ReadUpTo(r, e, S)
  PROVE  ReadUpTo(r, e, T)
<1>1. PICK k \in 1 .. Len(S) + 1, j \in Nat :
        /\ e.kind # "fin" => Due(e, S, k, j)
        /\ k = Len(S) + 1 => j = 0
        /\ r.delivered = SubSeq(S, 1, k - 1)
        /\ r.parts = {[msg |-> S[k], idx |-> i] : i \in 1 .. j}
  BY DEF ReadUpTo
<1>2. Len(S) \in Nat /\ Len(T) \in Nat /\ Len(S) <= Len(T)
  BY DEF Ext
<1>3. k - 1 \in 0 .. Len(S) /\ k \in 1 .. Len(T) + 1
  BY <1>2
<1>4. SubSeq(T, 1, k - 1) = SubSeq(S, 1, k - 1)
  BY <1>3, PrefixExt
<1>5. e.kind # "fin" => Due(e, T, k, j)
  BY <1>1, DueExt
<1>6. k = Len(T) + 1 => j = 0
  BY <1>1, <1>2
<1>7. {[msg |-> S[k], idx |-> i] : i \in 1 .. j} = {[msg |-> T[k], idx |-> i] : i \in 1 .. j}
  <2>1. CASE k = Len(S) + 1
    <3>1. 1 .. j = {}
      BY <1>1, <2>1
    <3> QED BY <3>1
  <2>2. CASE k # Len(S) + 1
    <3>1. k \in 1 .. Len(S)
      BY <1>2, <2>2
    <3> QED BY <3>1 DEF Ext
  <2> QED BY <2>1, <2>2
<1> QED BY <1>1, <1>3, <1>4, <1>5, <1>6, <1>7 DEF ReadUpTo

\* All frames of a handshake are as good as another for what follows.
LEMMA HandshakeAlike ==
  ASSUME NEW S, NEW x, NEW z, x.kind \in HandshakeKind, z.kind \in HandshakeKind,
         NEW q, QueueInOrder(x, q, S)
  PROVE  QueueInOrder(z, q, S)
<1>1. \A k, j : Due(x, S, k, j) => Due(z, S, k, j)
  BY DEF Due, HandshakeKind
<1>2. ASSUME NEW y, NextEntry(x, y, S) PROVE NextEntry(z, y, S)
  BY <1>1, <1>2 DEF NextEntry
<1>3. ASSUME NEW i \in 1 .. Len(q)
      PROVE  NextEntry(BeforeQueued(z, q, i), DataEntry(q[i]), S)
  <2>1. NextEntry(BeforeQueued(x, q, i), DataEntry(q[i]), S)
    BY DEF QueueInOrder
  <2> QED BY <1>2, <2>1 DEF BeforeQueued
<1>4. Due(BeforeQueued(z, q, Len(q) + 1), S, Len(S) + 1, 0)
  <2>1. Due(BeforeQueued(x, q, Len(q) + 1), S, Len(S) + 1, 0)
    BY DEF QueueInOrder
  <2> QED BY <1>1, <2>1 DEF BeforeQueued
<1> QED BY <1>3, <1>4 DEF QueueInOrder


\* The chunks of message m up to number n.
Part(m, n) == {[msg |-> m, idx |-> i] : i \in 1 .. n}

\* There are n of them.
LEMMA PartSize ==
  ASSUME NEW m, NEW n \in Nat
  PROVE  Cardinality(Part(m, n)) = n
<1>1. PICK f : f = [i \in 1 .. n |-> [msg |-> m, idx |-> i]]
  OBVIOUS
<1>2. f \in Bijection(1 .. n, Part(m, n))
  <2>1. f \in [1 .. n -> Part(m, n)]
    BY <1>1 DEF Part
  <2>2. \A i, j \in 1 .. n : f[i] = f[j] => i = j
    <3> SUFFICES ASSUME NEW i \in 1 .. n, NEW j \in 1 .. n, f[i] = f[j] PROVE i = j
      OBVIOUS
    <3>1. f[i] = [msg |-> m, idx |-> i] /\ f[j] = [msg |-> m, idx |-> j]
      BY <1>1
    <3>2. [msg |-> m, idx |-> i].idx = i /\ [msg |-> m, idx |-> j].idx = j
      OBVIOUS
    <3> QED BY <3>1, <3>2
  <2>3. \A x \in Part(m, n) : \E i \in 1 .. n : f[i] = x
    BY <1>1 DEF Part
  <2> QED BY <2>1, <2>2, <2>3 DEF Bijection, Injection, Surjection, IsInjective
<1>3. IsFiniteSet(1 .. n) /\ Cardinality(1 .. n) = n
  <2>1. 1 \in Int /\ n \in Int
    OBVIOUS
  <2>2. /\ IsFiniteSet(1 .. n)
        /\ Cardinality(1 .. n) = IF 1 > n THEN 0 ELSE n - 1 + 1
    BY <2>1, FS_Interval
  <2> QED BY <2>2
<1>4. ExistsBijection(1 .. n, Part(m, n))
  BY <1>2 DEF ExistsBijection
<1> QED BY <1>3, <1>4, FS_Bijection

\* The next chunk of the message joins the others.
LEMMA PartNext ==
  ASSUME NEW m, NEW n \in Nat
  PROVE  /\ Part(m, n) \cup {[msg |-> m, idx |-> n + 1]} = Part(m, n + 1)
         /\ \A x \in Part(m, n) : x.msg = m
         /\ Part(m, 0) = {}
<1>1. 1 .. (n + 1) = (1 .. n) \cup {n + 1}
  OBVIOUS
<1>2. Part(m, n) \cup {[msg |-> m, idx |-> n + 1]} = Part(m, n + 1)
  BY <1>1 DEF Part
<1>3. \A x \in Part(m, n) : x.msg = m
  BY DEF Part
<1>4. Part(m, 0) = {}
  <2>1. 1 .. 0 = {}
    OBVIOUS
  <2> QED BY <2>1 DEF Part
<1> QED BY <1>2, <1>3, <1>4

\* Sequences with the same elements are the same.
LEMMA SameSequence ==
  ASSUME NEW A, NEW u \in Seq(A), NEW v \in Seq(A), Len(u) = Len(v), \A i \in 1 .. Len(u) : u[i] = v[i]
  PROVE  u = v
<1>1. DOMAIN u = 1 .. Len(u) /\ DOMAIN v = 1 .. Len(v)
  OBVIOUS
<1>2. u = [i \in 1 .. Len(u) |-> u[i]] /\ v = [i \in 1 .. Len(v) |-> v[i]]
  BY <1>1
<1> QED BY <1>2

\* One message more of those sent.
LEMMA PrefixNext ==
  ASSUME NEW S \in Seq(Message), NEW k \in 1 .. Len(S)
  PROVE  Append(SubSeq(S, 1, k - 1), S[k]) = SubSeq(S, 1, k)
<1>1. /\ SubSeq(S, 1, k - 1) \in Seq(Message) /\ Len(SubSeq(S, 1, k - 1)) = k - 1
      /\ \A i \in 1 .. k - 1 : SubSeq(S, 1, k - 1)[i] = S[i]
  OBVIOUS
<1>2. /\ SubSeq(S, 1, k) \in Seq(Message) /\ Len(SubSeq(S, 1, k)) = k
      /\ \A i \in 1 .. k : SubSeq(S, 1, k)[i] = S[i]
  OBVIOUS
<1>3. PICK a \in Seq(Message) : a = SubSeq(S, 1, k - 1)
  BY <1>1
<1>4. PICK b \in Seq(Message) : b = SubSeq(S, 1, k)
  BY <1>2
<1>5. PICK x \in Message : x = S[k]
  OBVIOUS
<1>6. /\ Append(a, x) \in Seq(Message) /\ Len(Append(a, x)) = k
      /\ \A i \in 1 .. k - 1 : Append(a, x)[i] = S[i]
      /\ Append(a, x)[k] = S[k]
  BY <1>1, <1>3, <1>5
<1>7. \A i \in 1 .. k : Append(a, x)[i] = b[i]
  <2> SUFFICES ASSUME NEW i \in 1 .. k PROVE Append(a, x)[i] = b[i]
    OBVIOUS
  <2>1. i \in 1 .. k - 1 \/ i = k
    OBVIOUS
  <2> QED BY <1>2, <1>4, <1>6, <2>1
<1>8. PICK u \in Seq(Message) : u = Append(a, x)
  BY <1>6
<1>9. u = b
  BY <1>2, <1>4, <1>6, <1>7, <1>8, SameSequence
<1> QED BY <1>3, <1>4, <1>5, <1>8, <1>9

\* The chunk that is due joins the message it belongs to, and completes it if it is the last.
LEMMA FeedReads ==
  ASSUME NEW S \in Seq(Message), Distinct(S), NEW r \in Reassembly, NEW x, NEW y,
         ReadUpTo(r, x, S), x.kind # "fin", NextEntry(x, y, S), y.kind = "data"
  PROVE  /\ ReadUpTo(Feed(r, y.data), y, S) /\ y.data # NoChunk
         /\ Len(r.delivered) <= Len(Feed(r, y.data).delivered)
<1>1. r.stale = {} /\ r.delivered \in Seq(Message)
  BY DEF ReadUpTo, Reassembly
<1>2. PICK k \in 1 .. Len(S) + 1, j \in Nat :
        /\ Due(x, S, k, j)
        /\ r.delivered = SubSeq(S, 1, k - 1)
        /\ r.parts = Part(S[k], j)
  BY DEF ReadUpTo, Part
<1>3. PICK l \in 1 .. Len(S), i \in Nat : Due(x, S, l, i) /\ y.data = [msg |-> S[l], idx |-> i + 1]
  BY DEF NextEntry
<1>4. k = l /\ j = i
  BY <1>2, <1>3, DueUnique
<1>5. k \in 1 .. Len(S) /\ y.data = [msg |-> S[k], idx |-> j + 1]
  BY <1>3, <1>4
<1>6. S[k] \in Message /\ Chunks[S[k]] \in Nat /\ j < Chunks[S[k]]
  BY <1>2, <1>5, DueType, ChunkCount
<1>7. PICK m \in Message : m = S[k]
  BY <1>6
<1>8. PICK d : d = y.data
  OBVIOUS
<1>9. d = [msg |-> m, idx |-> j + 1] /\ d.msg = m /\ d.idx = j + 1 /\ d \in Chunk
  BY <1>5, <1>7, <1>8 DEF Chunk
<1>10. {z \in r.parts : z.msg \notin r.stale} \cup {d} = Part(m, j + 1)
  <2>1. {z \in r.parts : z.msg \notin r.stale} = Part(m, j)
    BY <1>1, <1>2, <1>7
  <2> QED BY <1>9, <2>1, PartNext
<1>11. {z \in Part(m, j + 1) : z.msg = d.msg} = Part(m, j + 1)
  <2>1. j + 1 \in Nat
    OBVIOUS
  <2>2. \A z \in Part(m, j + 1) : z.msg = m
    BY <2>1, PartNext
  <2> QED BY <1>9, <2>2
<1>12. Cardinality(Part(m, j + 1)) = j + 1
  BY PartSize
<1>13. Feed(r, d) = IF j + 1 = Chunks[m]
                    THEN [parts |-> {}, stale |-> {}, delivered |-> Append(r.delivered, m)]
                    ELSE [parts |-> Part(m, j + 1), stale |-> {}, delivered |-> r.delivered]
  BY <1>9, <1>10, <1>11, <1>12 DEF Feed
<1>14. d # NoChunk
  BY <1>9, NoChunkAssumption
<1>15. y.kind \notin HandshakeKind
  BY DEF HandshakeKind
<1>16. CASE j + 1 = Chunks[m]
  <2>1. Feed(r, d) = [parts |-> {}, stale |-> {}, delivered |-> Append(r.delivered, m)]
    BY <1>13, <1>16
  <2>2. Feed(r, d).parts = {} /\ Feed(r, d).stale = {} /\ Feed(r, d).delivered = Append(r.delivered, m)
    BY <2>1
  <2>3. Due(y, S, k + 1, 0)
    <3>1. j + 1 \in 1 .. Chunks[S[k]] /\ ~(j + 1 < Chunks[S[k]])
      BY <1>6, <1>7, <1>16
    <3> QED BY <1>5, <3>1 DEF Due
  <2>4. Append(r.delivered, m) = SubSeq(S, 1, (k + 1) - 1)
    <3>1. Append(SubSeq(S, 1, k - 1), S[k]) = SubSeq(S, 1, k)
      BY <1>5, PrefixNext
    <3>2. (k + 1) - 1 = k
      BY <1>5
    <3> QED BY <1>2, <1>7, <3>1, <3>2
  <2>5. {} = {[msg |-> S[k + 1], idx |-> n] : n \in 1 .. 0}
    <3>1. 1 .. 0 = {}
      OBVIOUS
    <3> QED BY <3>1
  <2>6. k + 1 \in 1 .. Len(S) + 1 /\ 0 \in Nat
    BY <1>5
  <2>7. ReadUpTo(Feed(r, d), y, S)
    BY <2>2, <2>3, <2>4, <2>5, <2>6 DEF ReadUpTo
  <2>8. Len(r.delivered) <= Len(Append(r.delivered, m))
    <3>1. PICK w \in Seq(Message) : w = r.delivered
      BY <1>1
    <3>2. Len(w) <= Len(Append(w, m))
      OBVIOUS
    <3> QED BY <3>1, <3>2
  <2> QED BY <1>8, <1>14, <2>2, <2>7, <2>8
<1>17. CASE j + 1 # Chunks[m]
  <2>1. Feed(r, d) = [parts |-> Part(m, j + 1), stale |-> {}, delivered |-> r.delivered]
    BY <1>13, <1>17
  <2>2. /\ Feed(r, d).parts = Part(m, j + 1) /\ Feed(r, d).stale = {}
        /\ Feed(r, d).delivered = r.delivered
    BY <2>1
  <2>3. Due(y, S, k, j + 1)
    <3>1. j + 1 \in 1 .. Chunks[S[k]] /\ j + 1 < Chunks[S[k]]
      BY <1>6, <1>7, <1>17
    <3> QED BY <1>5, <3>1 DEF Due
  <2>4. Part(m, j + 1) = {[msg |-> S[k], idx |-> n] : n \in 1 .. j + 1}
    BY <1>7 DEF Part
  <2>5. k # Len(S) + 1 /\ j + 1 \in Nat
    BY <1>5
  <2>6. ReadUpTo(Feed(r, d), y, S)
    BY <1>2, <2>2, <2>3, <2>4, <2>5 DEF ReadUpTo
  <2>7. Len(r.delivered) <= Len(r.delivered)
    BY <1>1
  <2> QED BY <1>8, <1>14, <2>2, <2>6, <2>7
<1> QED BY <1>16, <1>17

\* So for any frame of the run.
LEMMA FedReads ==
  ASSUME NEW S \in Seq(Message), Distinct(S), NEW r \in Reassembly, NEW x, NEW y,
         ReadUpTo(r, x, S), x.kind # "fin", NextEntry(x, y, S),
         NEW run \in Seq(Held), NEW n \in 1 .. Len(run),
         y = [kind |-> run[n].kind, data |-> run[n].data]
  PROVE  ReadUpTo(Fed(run, n, r), y, S) /\ Len(r.delivered) <= Len(Fed(run, n, r).delivered)
<1>1. y.kind = run[n].kind /\ y.data = run[n].data /\ run[n] \in Held
  OBVIOUS
<1>2. CASE y.kind = "data"
  <2>1. ReadUpTo(Feed(r, y.data), y, S) /\ y.data # NoChunk /\ Len(r.delivered) <= Len(Feed(r, y.data).delivered)
    BY <1>2, FeedReads
  <2>2. Fed(run, n, r) = Feed(r, y.data)
    BY <1>1, <2>1 DEF Fed
  <2> QED BY <2>1, <2>2
<1>3. CASE y.kind # "data"
  <2>1. Fed(run, n, r) = r
    BY <1>1, <1>3 DEF Fed, NextEntry
  <2>2. Len(r.delivered) <= Len(r.delivered)
    BY DEF Reassembly
  <2>3. y.kind = "fin" \/ y.kind \in HandshakeKind
    BY <1>1, <1>3 DEF Held, HandshakeKind
  <2>4. y.kind \in HandshakeKind => \A k, j : Due(x, S, k, j) => Due(y, S, k, j)
    BY DEF NextEntry, Due, HandshakeKind
  <2>5. ReadUpTo(r, y, S)
    BY <2>3, <2>4 DEF ReadUpTo
  <2> QED BY <2>1, <2>2, <2>5
<1> QED BY <1>2, <1>3

\* The run that is taken is read in order.
LEMMA FeedAllReads ==
  ASSUME NEW S \in Seq(Message), Distinct(S), NEW log \in Seq(Entry), InOrder(log, S), EndsInFin(log),
         NEW c \in CoreT, NEW run \in Seq(Held), c.rcv_next + Len(run) <= Len(log),
         \A i \in 1 .. Len(run) : log[c.rcv_next + i] = [kind |-> run[i].kind, data |-> run[i].data],
         ReadUpTo(Reader(c), EntryAt(log, c.rcv_next), S)
  PROVE  /\ ReadUpTo(FeedAll(c, run), EntryAt(log, c.rcv_next + Len(run)), S)
         /\ Len(c.delivered) <= Len(FeedAll(c, run).delivered)
<1>1. PICK L \in Nat : L = Len(run)
  OBVIOUS
<1>2. PICK t \in Nat : t = c.rcv_next
  BY DEF CoreT
<1>3. PICK fed : /\ fed[0] = Reader(c) /\ FeedAll(c, run) = fed[L]
                 /\ \A n \in 1 .. L : fed[n] = Fed(run, n, fed[n - 1])
                 /\ \A n \in 0 .. L : fed[n] \in Reassembly
  BY <1>1, FeedAllSteps
<1> DEFINE Fine(n) == /\ ReadUpTo(fed[n], EntryAt(log, t + n), S)
                      /\ Len(c.delivered) <= Len(fed[n].delivered)
<1>4. Fine(0)
  <2>1. fed[0].delivered = c.delivered /\ Len(c.delivered) <= Len(c.delivered) /\ t + 0 = t
    BY <1>2, <1>3 DEF Reader, CoreT
  <2> QED BY <1>2, <1>3, <2>1
<1>5. ASSUME NEW n \in 1 .. L, Fine(n - 1) PROVE Fine(n)
  <2>1. n - 1 \in 0 .. L /\ fed[n - 1] \in Reassembly /\ fed[n] \in Reassembly
    <3>1. n - 1 \in 0 .. L /\ n \in 0 .. L
      OBVIOUS
    <3> QED BY <1>3, <3>1
  <2>2. t + n \in 1 .. Len(log) /\ t + n \in Nat /\ t + (n - 1) \in Nat /\ (t + n) - 1 = t + (n - 1) /\ t + n # 0
    BY <1>1, <1>2
  <2>3. PICK y : y = log[t + n]
    OBVIOUS
  <2>4. PICK x : x = EntryAt(log, t + (n - 1))
    OBVIOUS
  <2>5. NextEntry(x, y, S)
    BY <2>2, <2>3, <2>4 DEF InOrder
  <2>6. x.kind # "fin"
    <3>1. CASE t + (n - 1) = 0
      BY <2>4, <3>1 DEF EntryAt
    <3>2. CASE t + (n - 1) # 0
      <4>1. t + (n - 1) \in 1 .. Len(log) /\ t + (n - 1) # Len(log)
        BY <2>2, <3>2
      <4> QED BY <2>4, <3>2, <4>1 DEF EntryAt, EndsInFin
    <3> QED BY <3>1, <3>2
  <2>7. y = [kind |-> run[n].kind, data |-> run[n].data]
    BY <1>1, <1>2, <2>3
  <2>8. ReadUpTo(fed[n - 1], x, S)
    BY <1>5, <2>4
  <2>9. n \in 1 .. Len(run)
    BY <1>1
  <2>10. PICK r \in Reassembly : r = fed[n - 1]
    BY <2>1
  <2>11. ReadUpTo(Fed(run, n, r), y, S) /\ Len(r.delivered) <= Len(Fed(run, n, r).delivered)
    BY <2>5, <2>6, <2>7, <2>8, <2>9, <2>10, FedReads
  <2>12. ReadUpTo(fed[n], y, S) /\ Len(fed[n - 1].delivered) <= Len(fed[n].delivered)
    BY <1>3, <2>10, <2>11
  <2>13. EntryAt(log, t + n) = y
    BY <2>2, <2>3 DEF EntryAt
  <2>14. Len(c.delivered) \in Nat /\ Len(fed[n - 1].delivered) \in Nat /\ Len(fed[n].delivered) \in Nat
    <3>1. \A v \in Reassembly : Len(v.delivered) \in Nat
      BY DEF Reassembly
    <3>2. Len(c.delivered) \in Nat
      BY DEF CoreT
    <3> QED BY <2>1, <3>1, <3>2
  <2>15. Len(c.delivered) <= Len(fed[n].delivered)
    <3>1. Len(c.delivered) <= Len(fed[n - 1].delivered)
      BY <1>5
    <3>2. PICK i \in Nat, j \in Nat, k \in Nat :
            i = Len(c.delivered) /\ j = Len(fed[n - 1].delivered) /\ k = Len(fed[n].delivered)
      BY <2>14
    <3>3. i <= j /\ j <= k
      BY <2>12, <3>1, <3>2
    <3> QED BY <3>2, <3>3
  <2> QED BY <2>12, <2>13, <2>15
<1>6. ASSUME NEW m \in 0 .. L PROVE Fine(m)
  <2>1. SUFFICES ASSUME ~Fine(m) PROVE FALSE
    OBVIOUS
  <2>2. PICK Z : Z = {k \in 0 .. L : ~Fine(k)}
    OBVIOUS
  <2>3. Z # {} /\ Z \in SUBSET Nat
    BY <1>1, <2>1, <2>2
  <2>4. PICK k \in Z : \A z \in Z : k <= z
    BY <2>3, LeastNatural
  <2>5. k \in 0 .. L /\ k \in Nat /\ ~Fine(k)
    BY <2>2, <2>4
  <2>6. k # 0
    BY <1>4, <2>5
  <2>7. k - 1 \in 0 .. L /\ ~(k <= k - 1) /\ k \in 1 .. L
    BY <1>1, <2>5, <2>6
  <2>8. Fine(k - 1)
    BY <2>2, <2>4, <2>7
  <2> QED BY <1>5, <2>5, <2>7, <2>8
<1>7. Fine(L)
  BY <1>6
<1> QED BY <1>1, <1>2, <1>3, <1>7

\* One more frame on the wire.
LEMMA InOrderAppend ==
  ASSUME NEW S, NEW l \in Seq(Entry), InOrder(l, S), NEW y \in Entry, NextEntry(EntryAt(l, Len(l)), y, S)
  PROVE  InOrder(Append(l, y), S) /\ EntryAt(Append(l, y), Len(Append(l, y))) = y
<1>1. PICK m \in Seq(Entry) : m = Append(l, y)
  <2>1. Append(l, y) \in Seq(Entry)
    OBVIOUS
  <2> QED BY <2>1
<1>2. /\ Len(m) = Len(l) + 1 /\ Len(l) \in Nat /\ m[Len(l) + 1] = y
      /\ \A i \in 1 .. Len(l) : m[i] = l[i]
  BY <1>1
<1>3. \A i \in 0 .. Len(l) : EntryAt(m, i) = EntryAt(l, i)
  <2> SUFFICES ASSUME NEW i \in 0 .. Len(l) PROVE EntryAt(m, i) = EntryAt(l, i)
    OBVIOUS
  <2>1. i = 0 \/ i \in 1 .. Len(l)
    BY <1>2
  <2> QED BY <1>2, <2>1 DEF EntryAt
<1>4. ASSUME NEW i \in 1 .. Len(m) PROVE NextEntry(EntryAt(m, i - 1), m[i], S)
  <2>1. CASE i \in 1 .. Len(l)
    <3>1. i - 1 \in 0 .. Len(l)
      BY <1>2, <2>1
    <3>2. NextEntry(EntryAt(l, i - 1), l[i], S)
      BY <2>1 DEF InOrder
    <3> QED BY <1>2, <1>3, <2>1, <3>1, <3>2
  <2>2. CASE i \notin 1 .. Len(l)
    <3>1. i = Len(l) + 1 /\ i - 1 = Len(l) /\ i - 1 \in 0 .. Len(l)
      BY <1>2, <2>2
    <3> QED BY <1>2, <1>3, <3>1
  <2> QED BY <2>1, <2>2
<1>5. EntryAt(m, Len(m)) = y
  <2>1. Len(m) # 0
    BY <1>2
  <2> QED BY <1>2, <2>1 DEF EntryAt
<1> QED BY <1>1, <1>4, <1>5 DEF InOrder

\* Chunks move from the queue to the wire.
LEMMA QueueMoves ==
  ASSUME NEW S, NEW l \in Seq(Entry), InOrder(l, S), NEW q \in Seq(Chunk), NEW n \in 0 .. Len(q),
         QueueInOrder(EntryAt(l, Len(l)), q, S),
         NEW m \in Seq(Entry), Len(m) = Len(l) + n, \A i \in 1 .. Len(l) : m[i] = l[i],
         \A i \in 1 .. n : m[Len(l) + i] = DataEntry(q[i]),
         NEW t \in Seq(Chunk), Len(t) = Len(q) - n, \A i \in 1 .. Len(t) : t[i] = q[n + i]
  PROVE  InOrder(m, S) /\ QueueInOrder(EntryAt(m, Len(m)), t, S)
<1>1. PICK a \in Nat : a = Len(l)
  OBVIOUS
<1>2. PICK b \in Nat : b = Len(q)
  OBVIOUS
<1>3. n \in Nat /\ n <= b /\ Len(m) = a + n /\ Len(t) = b - n
  BY <1>1, <1>2
<1>4. PICK e : e = EntryAt(l, a)
  OBVIOUS
<1>5. \A i \in 0 .. a : EntryAt(m, i) = EntryAt(l, i)
  <2> SUFFICES ASSUME NEW i \in 0 .. a PROVE EntryAt(m, i) = EntryAt(l, i)
    OBVIOUS
  <2>1. i = 0 \/ i \in 1 .. a
    OBVIOUS
  <2> QED BY <1>1, <2>1 DEF EntryAt
<1>6. ASSUME NEW j \in 0 .. n PROVE EntryAt(m, a + j) = BeforeQueued(e, q, j + 1)
  <2>1. CASE j = 0
    <3>1. a + j = a /\ a \in 0 .. a /\ j + 1 = 1
      BY <2>1
    <3> QED BY <1>4, <1>5, <3>1 DEF BeforeQueued
  <2>2. CASE j # 0
    <3>1. j \in 1 .. n /\ a + j # 0 /\ j + 1 # 1 /\ (j + 1) - 1 = j
      BY <1>3, <2>2
    <3>2. m[a + j] = DataEntry(q[j])
      BY <1>1, <3>1
    <3> QED BY <3>1, <3>2 DEF BeforeQueued, EntryAt
  <2> QED BY <2>1, <2>2
<1>7. ASSUME NEW i \in 1 .. Len(m) PROVE NextEntry(EntryAt(m, i - 1), m[i], S)
  <2>1. CASE i <= a
    <3>1. i \in 1 .. a /\ i - 1 \in 0 .. a
      BY <1>3, <2>1
    <3>2. NextEntry(EntryAt(l, i - 1), l[i], S)
      BY <1>1, <3>1 DEF InOrder
    <3> QED BY <1>1, <1>5, <3>1, <3>2
  <2>2. CASE ~(i <= a)
    <3>1. PICK j \in 1 .. n : i = a + j
      <4>1. i - a \in 1 .. n /\ i = a + (i - a)
        BY <1>3, <2>2
      <4> QED BY <4>1
    <3>2. j - 1 \in 0 .. n /\ i - 1 = a + (j - 1) /\ (j - 1) + 1 = j /\ j \in 1 .. b
      BY <1>3, <3>1
    <3>3. EntryAt(m, i - 1) = BeforeQueued(e, q, j)
      BY <1>6, <3>2
    <3>4. m[i] = DataEntry(q[j])
      BY <1>1, <3>1
    <3>5. NextEntry(BeforeQueued(e, q, j), DataEntry(q[j]), S)
      BY <1>1, <1>2, <1>4, <3>2 DEF QueueInOrder
    <3> QED BY <3>3, <3>4, <3>5
  <2> QED BY <2>1, <2>2
<1>8. PICK f : f = EntryAt(m, Len(m))
  OBVIOUS
<1>9. f = BeforeQueued(e, q, n + 1)
  <2>1. n \in 0 .. n
    BY <1>3
  <2> QED BY <1>3, <1>6, <1>8, <2>1
<1>10. ASSUME NEW i \in 1 .. Len(t) + 1 PROVE BeforeQueued(f, t, i) = BeforeQueued(e, q, n + i)
  <2>1. CASE i = 1
    BY <1>9, <2>1 DEF BeforeQueued
  <2>2. CASE i # 1
    <3>1. i - 1 \in 1 .. Len(t) /\ n + i # 1 /\ n + (i - 1) = (n + i) - 1
      BY <1>3, <2>2
    <3>2. t[i - 1] = q[(n + i) - 1]
      BY <3>1
    <3> QED BY <2>2, <3>1, <3>2 DEF BeforeQueued
  <2> QED BY <2>1, <2>2
<1>11. ASSUME NEW i \in 1 .. Len(t) PROVE NextEntry(BeforeQueued(f, t, i), DataEntry(t[i]), S)
  <2>1. i \in 1 .. Len(t) + 1 /\ n + i \in 1 .. b
    BY <1>3
  <2>2. BeforeQueued(f, t, i) = BeforeQueued(e, q, n + i)
    BY <1>10, <2>1
  <2>3. NextEntry(BeforeQueued(e, q, n + i), DataEntry(q[n + i]), S)
    BY <1>1, <1>2, <1>4, <2>1 DEF QueueInOrder
  <2> QED BY <2>2, <2>3
<1>12. Due(BeforeQueued(f, t, Len(t) + 1), S, Len(S) + 1, 0)
  <2>1. Len(t) + 1 \in 1 .. Len(t) + 1 /\ n + (Len(t) + 1) = b + 1
    BY <1>3
  <2>2. BeforeQueued(f, t, Len(t) + 1) = BeforeQueued(e, q, b + 1)
    BY <1>10, <2>1
  <2>3. Due(BeforeQueued(e, q, b + 1), S, Len(S) + 1, 0)
    BY <1>1, <1>2, <1>4 DEF QueueInOrder
  <2> QED BY <2>2, <2>3
<1> QED BY <1>7, <1>8, <1>11, <1>12 DEF InOrder, QueueInOrder

\* pump's loop.
LEMMA PumpDataSends ==
  ASSUME NEW c, Base(c), NEW S, InOrder(c.log, S), QueueInOrder(LastEntry(c), c.queue, S)
  PROVE  LET d == PumpData(c) IN
         /\ InOrder(d.log, S) /\ QueueInOrder(LastEntry(d), d.queue, S) /\ Reader(d) = Reader(c)
<1>1. c \in CoreT /\ c.log \in Seq(Entry) /\ c.queue \in Seq(Chunk) /\ Len(c.log) \in Nat /\ Len(c.queue) \in Nat
  BY DEF Base, CoreT
<1>2. PICK n \in 0 .. Len(c.queue) : n = Room(c)
  BY RoomType
<1>3. n \in Nat /\ n <= Len(c.queue)
  BY <1>1
<1>4. PICK e : e = [i \in 1 .. n |-> [kind |-> "data", data |-> c.queue[i]]]
  OBVIOUS
<1>5. e \in Seq(Entry) /\ Len(e) = n /\ \A i \in 1 .. n : e[i] = DataEntry(c.queue[i])
  <2>1. \A i \in 1 .. n : c.queue[i] \in Chunk
    BY <1>1, <1>3
  <2>2. \A i \in 1 .. n : [kind |-> "data", data |-> c.queue[i]] \in Entry
    BY <2>1 DEF Entry
  <2> QED BY <1>3, <1>4, <2>2 DEF DataEntry
<1>6. PICK m \in Seq(Entry) : m = c.log \o e
  BY <1>1, <1>5, Concat
<1>7. /\ Len(m) = Len(c.log) + n /\ \A i \in 1 .. Len(c.log) : m[i] = c.log[i]
      /\ \A i \in 1 .. n : m[Len(c.log) + i] = DataEntry(c.queue[i])
  <2>1. Len(m) = Len(c.log) + n
    BY <1>1, <1>5, <1>6, LogMore
  <2>2. \A i \in 1 .. Len(c.log) : m[i] = c.log[i]
    BY <1>1, <1>5, <1>6, LogMore
  <2>3. \A i \in 1 .. n : m[Len(c.log) + i] = e[i]
    BY <1>1, <1>5, <1>6, LogMore
  <2> QED BY <1>5, <2>1, <2>2, <2>3
<1>8. PICK t : t = SubSeq(c.queue, n + 1, Len(c.queue))
  OBVIOUS
<1>9. t \in Seq(Chunk) /\ Len(t) = Len(c.queue) - n /\ \A i \in 1 .. Len(t) : t[i] = c.queue[n + i]
  <2>1. PICK w \in Seq(Chunk) : w = c.queue
    BY <1>1
  <2>2. t = SubSeq(w, n + 1, Len(w)) /\ n \in Nat /\ n <= Len(w) /\ Len(w) \in Nat
    BY <1>1, <1>3, <1>8, <2>1
  <2>3. t \in Seq(Chunk)
    <3>1. \A i \in (n + 1) .. Len(w) : w[i] \in Chunk
      BY <2>2
    <3> QED BY <2>2, <3>1
  <2>4. Len(t) = Len(w) - n
    BY <2>2
  <2>5. ASSUME NEW i \in 1 .. Len(t) PROVE t[i] = w[n + i]
    <3>1. i \in 1 .. Len(w) - n /\ (n + 1) + i - 1 = n + i
      BY <2>2, <2>4
    <3>2. t[i] = w[(n + 1) + i - 1]
      BY <2>2, <3>1
    <3> QED BY <3>1, <3>2
  <2> QED BY <2>1, <2>3, <2>4, <2>5
<1>10. InOrder(m, S) /\ QueueInOrder(EntryAt(m, Len(m)), t, S)
  <2>1. QueueInOrder(EntryAt(c.log, Len(c.log)), c.queue, S)
    BY DEF LastEntry
  <2> QED BY <1>1, <1>7, <1>9, <2>1, QueueMoves
<1>11. PICK d : d = PumpData(c)
  OBVIOUS
<1>12. PICK w : w = c.outbox \o [i \in 1 .. n |-> Stamp(c, "data", c.queue[i], Len(c.log) + i - 1)]
  OBVIOUS
<1>13. d = [c EXCEPT !.log = m, !.queue = t, !.outbox = w]
  BY <1>2, <1>4, <1>6, <1>8, <1>11, <1>12 DEF PumpData
<1>14. d.log = m /\ d.queue = t /\ d.parts = c.parts /\ d.stale = c.stale /\ d.delivered = c.delivered
  BY <1>1, <1>13 DEF CoreT
<1> QED BY <1>10, <1>11, <1>14 DEF LastEntry, Reader

\* A FIN can follow anything.
LEMMA FinSends ==
  ASSUME NEW c \in CoreT, NEW S, InOrder(c.log, S)
  PROVE  /\ InOrder(EmitReliable(c, "fin").log, S)
         /\ Reader(EmitReliable(c, "fin")) = Reader(c) /\ EmitReliable(c, "fin").rcv_next = c.rcv_next
<1>1. PICK y \in Entry : y = [kind |-> "fin", data |-> NoChunk]
  BY DEF Entry
<1>2. y.kind = "fin" /\ y.data = NoChunk
  BY <1>1
<1>3. \A x : NextEntry(x, y, S)
  BY <1>2 DEF NextEntry, HandshakeKind
<1>4. c.log \in Seq(Entry)
  BY DEF CoreT
<1>5. InOrder(Append(c.log, y), S)
  BY <1>3, <1>4, InOrderAppend
<1>6. PICK d : d = EmitReliable(c, "fin")
  OBVIOUS
<1>7. PICK w : w = Append(c.outbox, Stamp(c, "fin", NoChunk, Len(c.log)))
  OBVIOUS
<1>8. d = [c EXCEPT !.log = Append(c.log, y), !.outbox = w]
  BY <1>1, <1>6, <1>7 DEF EmitReliable
<1>9. /\ d.log = Append(c.log, y) /\ d.parts = c.parts /\ d.stale = c.stale /\ d.delivered = c.delivered
      /\ d.rcv_next = c.rcv_next
  BY <1>8 DEF CoreT
<1> QED BY <1>5, <1>6, <1>9 DEF Reader

\* pump.
LEMMA PumpSends ==
  ASSUME NEW c, Good(c), ~c.dead, NEW S, SenderOK(c, S)
  PROVE  SenderOK(Pump(c), S) /\ Reader(Pump(c)) = Reader(c) /\ Pump(c).rcv_next = c.rcv_next
<1>1. CASE c.state # "established"
  BY <1>1 DEF Pump
<1>2. CASE c.state = "established"
  <2>1. PICK d : d = PumpData(c)
    OBVIOUS
  <2>2. Base(d) /\ Keeps(c, d) /\ d.state = "established"
    BY <1>2, <2>1, PumpDataType DEF Good
  <2>3. d \in CoreT /\ d.rcv_next = c.rcv_next /\ ~d.dead
    BY <2>2 DEF Base, Keeps
  <2>4. InOrder(c.log, S) /\ QueueInOrder(LastEntry(c), c.queue, S) /\ Base(c)
    BY <1>2 DEF SenderOK, Good
  <2>5. InOrder(d.log, S) /\ QueueInOrder(LastEntry(d), d.queue, S) /\ Reader(d) = Reader(c)
    BY <2>1, <2>4, PumpDataSends
  <2>6. Pump(c) = PumpFin(d)
    BY <1>2, <2>1 DEF Pump
  <2>7. CASE d.closing /\ d.queue = <<>> /\ InFlight(d) < SendLimit(d)
    <3>1. PICK e : e = EmitReliable(d, "fin")
      OBVIOUS
    <3>2. InOrder(e.log, S) /\ Reader(e) = Reader(d) /\ e.rcv_next = d.rcv_next
      BY <2>3, <2>5, <3>1, FinSends
    <3>3. e \in CoreT
      <4>1. PICK k \in {"syn", "synack", "fin"} : k = "fin"
        OBVIOUS
      <4>2. Base(EmitReliable(d, k))
        BY <2>2, EmitType
      <4> QED BY <3>1, <4>1, <4>2 DEF Base
    <3>4. PICK g : g = [e EXCEPT !.state = "fin_sent", !.closing = FALSE]
      OBVIOUS
    <3>5. /\ g.log = e.log /\ g.state = "fin_sent" /\ g.rcv_next = e.rcv_next
          /\ g.parts = e.parts /\ g.stale = e.stale /\ g.delivered = e.delivered
      BY <3>3, <3>4 DEF CoreT
    <3>6. Pump(c) = g
      BY <2>6, <2>7, <3>1, <3>4 DEF PumpFin
    <3>7. SenderOK(g, S)
      BY <3>2, <3>5 DEF SenderOK
    <3>8. Reader(g) = Reader(e)
      BY <3>5 DEF Reader
    <3> QED BY <2>3, <2>5, <3>2, <3>5, <3>6, <3>7, <3>8
  <2>8. CASE ~(d.closing /\ d.queue = <<>> /\ InFlight(d) < SendLimit(d))
    <3>1. Pump(c) = d
      BY <2>6, <2>8 DEF PumpFin
    <3>2. SenderOK(d, S)
      BY <2>2, <2>5 DEF SenderOK
    <3> QED BY <2>3, <2>5, <3>1, <3>2
  <2> QED BY <2>7, <2>8
<1> QED BY <1>1, <1>2

\* A frame of the handshake follows one.
LEMMA HandshakeSends ==
  ASSUME NEW c, Base(c), NEW S, InOrder(c.log, S), QueueInOrder(LastEntry(c), c.queue, S),
         LastEntry(c).kind \in HandshakeKind, NEW k \in HandshakeKind
  PROVE  LET d == EmitReliable(c, k) IN
         /\ InOrder(d.log, S) /\ QueueInOrder(LastEntry(d), d.queue, S)
         /\ LastEntry(d).kind \in HandshakeKind /\ Reader(d) = Reader(c)
<1>1. PICK y \in Entry : y = [kind |-> k, data |-> NoChunk]
  BY DEF Entry, HandshakeKind
<1>2. y.kind = k /\ y.data = NoChunk /\ k # "data"
  BY <1>1 DEF HandshakeKind
<1>3. NextEntry(LastEntry(c), y, S)
  BY <1>2 DEF NextEntry
<1>4. c \in CoreT /\ c.log \in Seq(Entry)
  BY DEF Base, CoreT
<1>5. PICK l : l = Append(c.log, y)
  OBVIOUS
<1>6. InOrder(l, S) /\ EntryAt(l, Len(l)) = y
  BY <1>3, <1>4, <1>5, InOrderAppend DEF LastEntry
<1>7. PICK d : d = EmitReliable(c, k)
  OBVIOUS
<1>8. PICK w : w = Append(c.outbox, Stamp(c, k, NoChunk, Len(c.log)))
  OBVIOUS
<1>9. d = [c EXCEPT !.log = l, !.outbox = w]
  BY <1>1, <1>5, <1>7, <1>8 DEF EmitReliable
<1>10. d.log = l /\ d.queue = c.queue /\ d.parts = c.parts /\ d.stale = c.stale /\ d.delivered = c.delivered
  BY <1>4, <1>9 DEF CoreT
<1>11. LastEntry(d) = y
  BY <1>6, <1>10 DEF LastEntry
<1>12. QueueInOrder(y, c.queue, S)
  BY <1>2, HandshakeAlike
<1> QED BY <1>2, <1>6, <1>7, <1>10, <1>11, <1>12 DEF Reader

\* A core's place in the two streams: S is what its side has sent, R what the
\* peer has, and log what the peer has put on the wire.
Streaming(p, c, S, log, R) == SenderOK(c, S) /\ Reads(p, c, log, R)

\* A core that has only changed what the streams do not see.
LEMMA StreamingSame ==
  ASSUME NEW p, NEW c, NEW S, NEW log, NEW R, Streaming(p, c, S, log, R), NEW d,
         d.log = c.log, Reader(d) = Reader(c), d.rcv_next = c.rcv_next,
         d.dead \/ (d.queue = c.queue /\ d.state = c.state /\ ~c.dead)
  PROVE  Streaming(p, d, S, log, R)
BY DEF Streaming, SenderOK, LastEntry, Reads

\* A bare ack changes nothing.
LEMMA PureAckStreams ==
  ASSUME NEW p, NEW c, Base(c), ~c.dead, NEW S, NEW log, NEW R, Streaming(p, c, S, log, R)
  PROVE  Streaming(p, EmitPureAck(c), S, log, R) /\ Reader(EmitPureAck(c)) = Reader(c)
<1>1. PICK d : d = EmitPureAck(c)
  OBVIOUS
<1>2. Keeps(c, d) /\ d.log = c.log /\ d.state = c.state /\ d.queue = c.queue
  BY <1>1, PureAckType
<1>3. PICK w : w = Append(c.outbox, Stamp(c, "ack", NoChunk, Len(c.log)))
  OBVIOUS
<1>4. d = [c EXCEPT !.outbox = w] /\ c \in CoreT
  BY <1>1, <1>3 DEF EmitPureAck, Base
<1>5. d.parts = c.parts /\ d.stale = c.stale /\ d.delivered = c.delivered
  BY <1>4 DEF CoreT
<1>6. Reader(d) = Reader(c)
  BY <1>5 DEF Reader
<1>7. d.rcv_next = c.rcv_next
  BY <1>2 DEF Keeps
<1> QED BY <1>1, <1>2, <1>6, <1>7, StreamingSame

\* Nor does a frame that is held.
LEMMA HoldStreams ==
  ASSUME NEW p, NEW c \in CoreT, ~c.dead, NEW f, NEW S, NEW log, NEW R, Streaming(p, c, S, log, R)
  PROVE  Streaming(p, Hold(c, f), S, log, R) /\ Reader(Hold(c, f)) = Reader(c)
<1>1. PICK d : d = Hold(c, f)
  OBVIOUS
<1>2. PICK B : B = c.buffer \cup {[kind |-> f.kind, data |-> f.data, seq |-> f.seq]}
  OBVIOUS
<1>3. d = [c EXCEPT !.buffer = B]
  BY <1>1, <1>2 DEF Hold
<1>4. /\ d.log = c.log /\ d.parts = c.parts /\ d.stale = c.stale /\ d.delivered = c.delivered
      /\ d.queue = c.queue /\ d.state = c.state /\ d.rcv_next = c.rcv_next
  BY <1>3 DEF CoreT
<1>5. Reader(d) = Reader(c)
  BY <1>4 DEF Reader
<1> QED BY <1>1, <1>4, <1>5, StreamingSame

\* The drain loop reads on in the peer's stream.
LEMMA DrainStreams ==
  ASSUME NEW p, NEW c, Good(c), ~c.dead, c.state \in {"established", "fin_sent"}, ~c.peer_closed,
         NEW log \in Seq(Entry), EndsInFin(log), Fits(c, log),
         NEW S, NEW R \in Seq(Message), Distinct(R), InOrder(log, R), Streaming(p, c, S, log, R)
  PROVE  Streaming(p, Drain(c), S, log, R) /\ Grows(p, c.delivered, Drain(c).delivered)
<1>1. c \in CoreT /\ c.buffer \in SUBSET Held /\ c.rcv_next \in Nat /\ Base(c)
  BY DEF Good, Base, CoreT
<1>2. PICK run \in Seq(Held) : run = Taken(c)
  BY <1>1, TakenType
<1>3. PICK fin : fin = \E i \in DOMAIN run : run[i].kind = "fin"
  OBVIOUS
<1>4. PICK fed \in Reassembly : fed = FeedAll(c, run)
  BY <1>1, FeedAllType
<1>5. PICK t \in Nat : t = c.rcv_next + Len(run) /\ t <= Len(log)
  <2>1. (\A h \in c.buffer : Logged(log, h)) /\ c.rcv_next <= Len(log)
    BY DEF Fits
  <2> QED BY <1>2, <2>1, RunFits
<1>6. ASSUME NEW i \in 1 .. Len(run)
      PROVE  log[c.rcv_next + i] = [kind |-> run[i].kind, data |-> run[i].data]
  <2>1. run[i] \in c.buffer /\ run[i].seq = c.rcv_next + i - 1
    BY <1>1, <1>2, TakenType
  <2>2. Logged(log, run[i])
    BY <2>1 DEF Fits
  <2>3. run[i].seq + 1 = c.rcv_next + i
    BY <1>1, <2>1
  <2> QED BY <2>2, <2>3 DEF Logged
<1>7. /\ p \in SlowTransfer \/ ReadUpTo(fed, EntryAt(log, t), R)
      /\ Grows(p, c.delivered, fed.delivered)
  <2>1. CASE p \in SlowTransfer
    BY <2>1 DEF Grows
  <2>2. CASE p \notin SlowTransfer
    <3>1. ReadUpTo(Reader(c), EntryAt(log, c.rcv_next), R) /\ c.rcv_next + Len(run) <= Len(log)
      BY <1>5, <2>2 DEF Streaming, Reads
    <3>2. ReadUpTo(fed, EntryAt(log, t), R) /\ Len(c.delivered) <= Len(fed.delivered)
      BY <1>1, <1>4, <1>5, <1>6, <3>1, FeedAllReads
    <3> QED BY <3>2 DEF Grows
  <2> QED BY <2>1, <2>2
<1>8. PICK d : d = [c EXCEPT !.rcv_next = @ + Len(run),
                     !.buffer = {h \in @ : h.seq >= c.rcv_next + Len(run)},
                     !.parts = fed.parts, !.stale = fed.stale, !.delivered = fed.delivered,
                     !.peer_closed = @ \/ fin]
  OBVIOUS
<1>9. PICK B \in SUBSET Held : B = {h \in c.buffer : h.seq >= c.rcv_next + Len(run)}
  BY <1>1
<1>10. PICK b \in BOOLEAN : b = (c.peer_closed \/ fin)
  BY <1>1, <1>3 DEF CoreT
<1>11. d = [c EXCEPT !.rcv_next = t, !.buffer = B, !.parts = fed.parts, !.stale = fed.stale,
                     !.delivered = fed.delivered, !.peer_closed = b]
  BY <1>5, <1>8, <1>9, <1>10
<1>12. /\ d \in CoreT /\ d.log = c.log /\ d.queue = c.queue /\ d.rcv_next = t /\ d.state = c.state /\ d.dead = c.dead
       /\ d.parts = fed.parts /\ d.stale = fed.stale /\ d.delivered = fed.delivered
  <2>1. fed.parts \in SUBSET Chunk /\ fed.stale \in SUBSET Message /\ fed.delivered \in Seq(Message)
    BY DEF Reassembly
  <2> QED BY <1>1, <1>11, <2>1 DEF CoreT
<1>13. Reader(d) = fed
  BY <1>12 DEF Reader, Reassembly
<1>14. SenderOK(d, S) /\ InOrder(d.log, S)
  BY <1>12 DEF Streaming, SenderOK, LastEntry
<1>15. Drain(c) = IF fin /\ c.state = "established"
                  THEN [EmitReliable(d, "fin") EXCEPT !.state = "fin_sent"] ELSE d
  BY <1>2, <1>3, <1>4, <1>8 DEF Drain
<1>16. CASE ~(fin /\ c.state = "established")
  <2>1. Drain(c) = d
    BY <1>15, <1>16
  <2> QED BY <1>7, <1>12, <1>13, <1>14, <2>1 DEF Streaming, Reads
<1>17. CASE fin /\ c.state = "established"
  <2>1. PICK e : e = EmitReliable(d, "fin")
    OBVIOUS
  <2>2. InOrder(e.log, S) /\ Reader(e) = Reader(d) /\ e.rcv_next = d.rcv_next
    BY <1>12, <1>14, <2>1, FinSends
  <2>3. PICK g : g = [e EXCEPT !.state = "fin_sent"]
    OBVIOUS
  <2>4. DOMAIN e = DOMAIN d
    BY <1>12, <2>1 DEF EmitReliable, CoreT
  <2>5. /\ g.log = e.log /\ g.state = "fin_sent" /\ g.rcv_next = e.rcv_next
        /\ g.parts = e.parts /\ g.stale = e.stale /\ g.delivered = e.delivered
    BY <1>12, <2>3, <2>4 DEF CoreT
  <2>6. Drain(c) = g
    BY <1>15, <1>17, <2>1, <2>3
  <2>7. Reader(g) = fed
    BY <1>13, <2>2, <2>5 DEF Reader
  <2>8. SenderOK(g, S)
    BY <2>2, <2>5 DEF SenderOK
  <2>9. g.delivered = fed.delivered
    BY <2>7 DEF Reader
  <2> QED BY <1>7, <1>12, <2>2, <2>5, <2>6, <2>7, <2>8, <2>9 DEF Streaming, Reads
<1> QED BY <1>16, <1>17

\* deliver.
LEMMA DeliverStreams ==
  ASSUME NEW p, NEW c, Good(c), ~c.dead, c.state \in {"established", "fin_sent"},
         NEW f \in Frame, NEW log \in Seq(Entry), EndsInFin(log), Fits(c, log),
         ConsumesSeq(f) => Logged(log, f),
         NEW S, NEW R \in Seq(Message), Distinct(R), InOrder(log, R), Streaming(p, c, S, log, R)
  PROVE  Streaming(p, Deliver(c, f), S, log, R) /\ Grows(p, c.delivered, Deliver(c, f).delivered)
<1>1. Base(c) /\ c \in CoreT /\ c.rcv_next \in Nat /\ f.seq \in Nat /\ Grows(p, c.delivered, c.delivered)
  <2>1. f.seq \in Nat
    BY DEF Frame
  <2>2. c.rcv_next \in Nat /\ c \in CoreT /\ Len(c.delivered) \in Nat
    BY DEF Good, Base, CoreT
  <2> QED BY <2>1, <2>2 DEF Good, Grows
<1>2. CASE ~ConsumesSeq(f)
  <2>1. Deliver(c, f) = c
    BY <1>2 DEF Deliver
  <2> QED BY <1>1, <2>1
<1>3. CASE ConsumesSeq(f) /\ (\/ f.seq < c.rcv_next \/ f.seq \in Seqs(c.buffer)
                              \/ f.seq >= c.rcv_next + c.window)
  <2>1. PICK d : d = EmitPureAck(c)
    OBVIOUS
  <2>2. Deliver(c, f) = d
    BY <1>3, <2>1 DEF Deliver
  <2>3. Streaming(p, d, S, log, R) /\ Reader(d) = Reader(c)
    BY <1>1, <2>1, PureAckStreams
  <2>4. d.delivered = c.delivered
    BY <2>3 DEF Reader
  <2> QED BY <1>1, <2>2, <2>3, <2>4
<1>4. CASE ConsumesSeq(f) /\ ~(\/ f.seq < c.rcv_next \/ f.seq \in Seqs(c.buffer)
                               \/ f.seq >= c.rcv_next + c.window)
  <2>1. Deliver(c, f) = EmitPureAck(Drain(Hold(c, f)))
    BY <1>4 DEF Deliver
  <2>2. Logged(log, f) /\ ~(f.seq < c.rcv_next)
    BY <1>4
  <2>3. ~c.peer_closed
    <3>1. SUFFICES ASSUME c.peer_closed PROVE FALSE
      OBVIOUS
    <3>2. c.rcv_next = Len(log)
      BY <3>1 DEF Fits
    <3> QED BY <1>1, <2>2, <3>2 DEF Logged
  <2>4. PICK d : d = Hold(c, f)
    OBVIOUS
  <2>5. Moves(c, d, log) /\ d.state = c.state /\ ~d.peer_closed
    BY <1>4, <2>2, <2>3, <2>4, HoldType
  <2>6. Streaming(p, d, S, log, R) /\ Reader(d) = Reader(c)
    BY <1>1, <2>4, HoldStreams
  <2>7. d.delivered = c.delivered
    BY <2>6 DEF Reader
  <2>8. PICK e : e = Drain(d)
    OBVIOUS
  <2>9. Moves(d, e, log)
    BY <2>5, <2>8, DrainMoves DEF Moves
  <2>10. Streaming(p, e, S, log, R) /\ Grows(p, d.delivered, e.delivered)
    <3>1. Good(d) /\ ~d.dead /\ Fits(d, log) /\ d.state \in {"established", "fin_sent"}
      BY <2>5 DEF Moves
    <3> QED BY <2>5, <2>6, <2>8, <3>1, DrainStreams
  <2>11. PICK g : g = EmitPureAck(e)
    OBVIOUS
  <2>12. Streaming(p, g, S, log, R) /\ Reader(g) = Reader(e)
    <3>1. Base(e) /\ ~e.dead
      BY <2>9 DEF Moves, Good
    <3> QED BY <2>10, <2>11, <3>1, PureAckStreams
  <2>13. g.delivered = e.delivered
    BY <2>12 DEF Reader
  <2> QED BY <2>1, <2>4, <2>7, <2>8, <2>10, <2>11, <2>12, <2>13
<1> QED BY <1>2, <1>3, <1>4

\* To a reader the frames of a handshake are all alike.
LEMMA ReadAlike ==
  ASSUME NEW r, NEW S, NEW x, NEW z, x.kind \in HandshakeKind, z.kind \in HandshakeKind, ReadUpTo(r, x, S)
  PROVE  ReadUpTo(r, z, S)
<1>1. \A k, j : Due(x, S, k, j) => Due(z, S, k, j)
  BY DEF Due, HandshakeKind
<1>2. x.kind # "fin"
  BY DEF HandshakeKind
<1> QED BY <1>1, <1>2 DEF ReadUpTo

\* The peer's handshake is taken: it carries nothing to read.
LEMMA EstablishedStreams ==
  ASSUME NEW p, NEW c, Good(c), ~c.dead, c.state \in {"closed", "syn_sent"},
         NEW f \in Frame, f.kind \in HandshakeKind, NEW log \in Seq(Entry), Logged(log, f),
         NEW S, NEW R, Streaming(p, c, S, log, R)
  PROVE  LET d == Established(c, f) IN
         /\ Streaming(p, d, S, log, R) /\ Reader(d) = Reader(c) /\ LastEntry(d).kind \in HandshakeKind
         /\ InOrder(d.log, S) /\ QueueInOrder(LastEntry(d), d.queue, S)
<1>1. c \in CoreT /\ c.rcv_next = 0
  BY DEF Good, Base, States
<1>2. PICK s \in Nat : s = f.seq + 1 /\ s # 0
  <2>1. f.seq \in Nat
    BY DEF Frame
  <2> QED BY <2>1
<1>3. PICK d : d = Established(c, f)
  OBVIOUS
<1>4. d = [c EXCEPT !.rcv_next = s, !.state = "established"]
  BY <1>2, <1>3 DEF Established
<1>5. /\ d.log = c.log /\ d.queue = c.queue /\ d.rcv_next = s /\ d.state = "established"
      /\ d.parts = c.parts /\ d.stale = c.stale /\ d.delivered = c.delivered
  BY <1>1, <1>4 DEF CoreT
<1>6. Reader(d) = Reader(c)
  BY <1>5 DEF Reader
<1>7. LastEntry(d) = LastEntry(c)
  BY <1>5 DEF LastEntry
<1>8. InOrder(c.log, S) /\ QueueInOrder(LastEntry(c), c.queue, S) /\ LastEntry(c).kind \in HandshakeKind
  BY DEF Streaming, SenderOK
<1>9. PICK x, z : x = EntryAt(log, 0) /\ z = EntryAt(log, s)
  OBVIOUS
<1>10. x.kind \in HandshakeKind
  BY <1>9 DEF EntryAt, HandshakeKind
<1>11. z = [kind |-> f.kind, data |-> f.data]
  BY <1>2, <1>9 DEF EntryAt, Logged
<1>12. z.kind \in HandshakeKind
  BY <1>11
<1>13. p \in SlowTransfer \/ ReadUpTo(Reader(c), x, R)
  BY <1>1, <1>9 DEF Streaming, Reads
<1>14. p \in SlowTransfer \/ ReadUpTo(Reader(d), z, R)
  BY <1>6, <1>10, <1>12, <1>13, ReadAlike
<1>15. SenderOK(d, S)
  BY <1>5, <1>7, <1>8 DEF SenderOK
<1> QED BY <1>3, <1>5, <1>6, <1>7, <1>8, <1>9, <1>14, <1>15 DEF Streaming, Reads

\* The SYN+ACK that answers it.
LEMMA SynAckStreams ==
  ASSUME NEW p, NEW c, Good(c), ~c.dead, c.state \in {"closed", "syn_sent"},
         NEW f \in Frame, f.kind \in HandshakeKind, NEW log \in Seq(Entry), Logged(log, f),
         NEW S, NEW R, Streaming(p, c, S, log, R)
  PROVE  LET d == EmitReliable(Established(c, f), "synack") IN
         Streaming(p, d, S, log, R) /\ Reader(d) = Reader(c)
<1>1. PICK e : e = Established(c, f)
  OBVIOUS
<1>2. Base(e) /\ e.state = "established" /\ ~e.dead
  BY <1>1, EstablishedType
<1>3. /\ Streaming(p, e, S, log, R) /\ Reader(e) = Reader(c) /\ LastEntry(e).kind \in HandshakeKind
      /\ InOrder(e.log, S) /\ QueueInOrder(LastEntry(e), e.queue, S)
  BY <1>1, EstablishedStreams
<1>4. PICK k \in HandshakeKind : k = "synack"
  BY DEF HandshakeKind
<1>5. PICK d : d = EmitReliable(e, k)
  OBVIOUS
<1>6. InOrder(d.log, S) /\ QueueInOrder(LastEntry(d), d.queue, S) /\ Reader(d) = Reader(e)
  BY <1>2, <1>3, <1>5, HandshakeSends
<1>7. Keeps(e, d) /\ d.state = e.state
  <2>1. k \in {"syn", "synack", "fin"}
    BY <1>4
  <2> QED BY <1>2, <1>5, <2>1, EmitType
<1>8. SenderOK(d, S)
  BY <1>2, <1>6, <1>7 DEF SenderOK
<1>9. d.rcv_next = e.rcv_next
  BY <1>7 DEF Keeps
<1>10. Streaming(p, d, S, log, R)
  BY <1>3, <1>6, <1>8, <1>9 DEF Streaming, Reads
<1> QED BY <1>1, <1>3, <1>4, <1>5, <1>6, <1>10

\* on_frame.
LEMMA OnFrameStreams ==
  ASSUME NEW p, NEW c, Good(c), ~c.dead, NEW log \in Seq(Entry), EndsInFin(log), Fits(c, log),
         NEW f \in Frame, ConsumesSeq(f) => Logged(log, f),
         NEW S, NEW R \in Seq(Message), Distinct(R), InOrder(log, R), Streaming(p, c, S, log, R)
  PROVE  Streaming(p, OnFrame(c, f), S, log, R) /\ Grows(p, c.delivered, OnFrame(c, f).delivered)
<1>1. c \in CoreT /\ f.ack \in Nat /\ f.window \in Nat /\ Grows(p, c.delivered, c.delivered)
  <2>1. f.ack \in Nat /\ f.window \in Nat
    BY DEF Frame
  <2>2. c \in CoreT /\ Len(c.delivered) \in Nat
    BY DEF Good, Base, CoreT
  <2> QED BY <2>1, <2>2 DEF Grows
<1>2. PICK a : a = Acked(c, f.ack, f.window)
  OBVIOUS
<1>3. /\ Good(a) /\ a.log = c.log /\ a.state = c.state /\ a.queue = c.queue /\ ~a.dead
      /\ a.rcv_next = c.rcv_next /\ a.buffer = c.buffer /\ a.peer_closed = c.peer_closed
  <2>1. PICK n \in Nat, w \in Nat : n = f.ack /\ w = f.window
    BY <1>1
  <2>2. LET b == Acked(c, n, w) IN
        /\ Good(b) /\ b.log = c.log /\ b.state = c.state /\ b.queue = c.queue /\ b.dead = c.dead
        /\ b.rcv_next = c.rcv_next /\ b.buffer = c.buffer /\ b.peer_closed = c.peer_closed
    BY AckedType
  <2> QED BY <1>2, <2>1, <2>2
<1>4. a.parts = c.parts /\ a.stale = c.stale /\ a.delivered = c.delivered
  <2>1. PICK b : b = Ack(c, f.ack)
    OBVIOUS
  <2>2. b = c \/ \E u : b = [c EXCEPT !.una = u, !.retries = 0]
    BY <2>1 DEF Ack
  <2>3. DOMAIN b = DOMAIN c /\ b.parts = c.parts /\ b.stale = c.stale /\ b.delivered = c.delivered
    BY <1>1, <2>2 DEF CoreT
  <2>4. a = [b EXCEPT !.peer_window = f.window]
    BY <1>2, <2>1 DEF Acked
  <2> QED BY <1>1, <2>3, <2>4 DEF CoreT
<1>5. Reader(a) = Reader(c)
  BY <1>4 DEF Reader
<1>6. Streaming(p, a, S, log, R)
  BY <1>3, <1>5, StreamingSame
<1>7. Fits(a, log) /\ a \in CoreT /\ Base(a)
  BY <1>3 DEF Fits, Good, Base
<1>8. ASSUME NEW d, Reader(d) = Reader(a) PROVE Grows(p, c.delivered, d.delivered)
  <2>1. d.delivered = a.delivered
    BY <1>8 DEF Reader
  <2> QED BY <1>1, <1>4, <2>1
<1>9. CASE f.kind = "rst"
  <2>1. PICK b : b = [a EXCEPT !.peer_closed = TRUE]
    OBVIOUS
  <2>2. PICK d : d = Teardown(b)
    OBVIOUS
  <2>3. d = [b EXCEPT !.state = "closed", !.una = Len(b.log), !.queue = <<>>, !.dead = TRUE]
    BY <2>2 DEF Teardown
  <2>4. /\ b \in CoreT /\ b.log = a.log /\ b.rcv_next = a.rcv_next
        /\ b.parts = a.parts /\ b.stale = a.stale /\ b.delivered = a.delivered
    BY <1>7, <2>1 DEF CoreT
  <2>5. /\ d.log = b.log /\ d.rcv_next = b.rcv_next /\ d.dead
        /\ d.parts = b.parts /\ d.stale = b.stale /\ d.delivered = b.delivered
    BY <2>3, <2>4 DEF CoreT
  <2>6. Reader(d) = Reader(a)
    BY <2>4, <2>5 DEF Reader
  <2>7. OnFrame(c, f) = d
    BY <1>2, <1>9, <2>1, <2>2 DEF OnFrame, Acked
  <2>8. Streaming(p, d, S, log, R)
    BY <1>6, <2>4, <2>5, <2>6, StreamingSame
  <2> QED BY <1>8, <2>6, <2>7, <2>8
<1>10. ASSUME a.state \in {"closed", "syn_sent"}, f.kind \in HandshakeKind,
              OnFrame(c, f) = EmitReliable(Established(a, f), "synack")
       PROVE  Streaming(p, OnFrame(c, f), S, log, R) /\ Grows(p, c.delivered, OnFrame(c, f).delivered)
  <2>1. Logged(log, f)
    BY <1>10 DEF ConsumesSeq, HandshakeKind
  <2>2. PICK d : d = EmitReliable(Established(a, f), "synack")
    OBVIOUS
  <2>3. Streaming(p, d, S, log, R) /\ Reader(d) = Reader(a)
    BY <1>3, <1>6, <1>10, <2>1, <2>2, SynAckStreams
  <2> QED BY <1>8, <1>10, <2>2, <2>3
<1>11. CASE f.kind # "rst" /\ a.state = "closed"
  <2>1. CASE f.kind \in {"syn", "synack"}
    <3>1. OnFrame(c, f) = EmitReliable(Established(a, f), "synack")
      BY <1>2, <1>11, <2>1 DEF OnFrame, Acked
    <3> QED BY <1>10, <1>11, <2>1, <3>1 DEF HandshakeKind
  <2>2. CASE f.kind \notin {"syn", "synack"}
    <3>1. OnFrame(c, f) = a
      BY <1>2, <1>11, <2>2 DEF OnFrame, Acked
    <3> QED BY <1>1, <1>4, <1>6, <3>1
  <2> QED BY <2>1, <2>2
<1>12. CASE f.kind # "rst" /\ a.state = "syn_sent"
  <2>1. CASE f.kind = "synack"
    <3>1. OnFrame(c, f) = Pump(EmitPureAck(Established(a, f)))
      BY <1>2, <1>12, <2>1 DEF OnFrame, Acked
    <3>2. Logged(log, f) /\ f.kind \in HandshakeKind
      BY <2>1 DEF ConsumesSeq, HandshakeKind
    <3>3. PICK e : e = Established(a, f)
      OBVIOUS
    <3>4. Streaming(p, e, S, log, R) /\ Reader(e) = Reader(a)
      BY <1>3, <1>6, <1>12, <3>2, <3>3, EstablishedStreams
    <3>5. /\ Base(e) /\ FinLast(e) /\ e.log = a.log /\ e.state = "established" /\ ~e.dead /\ Fits(e, log)
      BY <1>3, <1>12, <3>2, <3>3, EstablishedType
    <3>6. Good(e)
      <4>1. a.log # <<>>
        BY <1>3, <1>12 DEF Good, States
      <4> QED BY <3>5, <4>1 DEF Good, States
    <3>7. PICK g : g = EmitPureAck(e)
      OBVIOUS
    <3>8. Streaming(p, g, S, log, R) /\ Reader(g) = Reader(e)
      BY <3>4, <3>5, <3>7, PureAckStreams
    <3>9. Good(g) /\ ~g.dead
      BY <3>5, <3>6, <3>7, PureAckMoves DEF Moves
    <3>10. PICK d : d = Pump(g)
      OBVIOUS
    <3>11. SenderOK(d, S) /\ Reader(d) = Reader(g) /\ d.rcv_next = g.rcv_next
      BY <3>8, <3>9, <3>10, PumpSends DEF Streaming
    <3>12. Streaming(p, d, S, log, R)
      BY <3>8, <3>11 DEF Streaming, Reads
    <3> QED BY <1>8, <3>1, <3>3, <3>4, <3>7, <3>8, <3>10, <3>11, <3>12
  <2>2. CASE f.kind = "syn"
    <3>1. OnFrame(c, f) = EmitReliable(Established(a, f), "synack")
      BY <1>2, <1>12, <2>2 DEF OnFrame, Acked
    <3> QED BY <1>10, <1>12, <2>2, <3>1 DEF HandshakeKind
  <2>3. CASE f.kind \notin {"syn", "synack"}
    <3>1. OnFrame(c, f) = a
      BY <1>2, <1>12, <2>3 DEF OnFrame, Acked
    <3> QED BY <1>1, <1>4, <1>6, <3>1
  <2> QED BY <2>1, <2>2, <2>3
<1>13. CASE f.kind # "rst" /\ a.state \in {"established", "fin_sent"}
  <2>1. PICK e : e = Deliver(a, f)
    OBVIOUS
  <2>2. Moves(a, e, log)
    BY <1>3, <1>7, <1>13, <2>1, DeliverMoves
  <2>3. Streaming(p, e, S, log, R) /\ Grows(p, a.delivered, e.delivered)
    BY <1>3, <1>6, <1>7, <1>13, <2>1, DeliverStreams
  <2>4. PICK d : d = Pump(e)
    OBVIOUS
  <2>5. SenderOK(d, S) /\ Reader(d) = Reader(e) /\ d.rcv_next = e.rcv_next
    BY <2>2, <2>3, <2>4, PumpSends DEF Moves, Streaming
  <2>6. Streaming(p, d, S, log, R)
    BY <2>3, <2>5 DEF Streaming, Reads
  <2>7. d.delivered = e.delivered
    BY <2>5 DEF Reader
  <2>8. OnFrame(c, f) = d
    BY <1>2, <1>13, <2>1, <2>4 DEF OnFrame, Acked
  <2> QED BY <1>4, <2>3, <2>6, <2>7, <2>8
<1>14. a.state \in {"closed", "syn_sent", "established", "fin_sent"}
  BY <1>7 DEF CoreT
<1> QED BY <1>9, <1>11, <1>12, <1>13, <1>14

\* What a reader has delivered is a beginning of what was sent.
LEMMA ReadPrefix ==
  ASSUME NEW r, NEW e, NEW S \in Seq(Message), ReadUpTo(r, e, S)
  PROVE  Len(r.delivered) \in 0 .. Len(S) /\ r.delivered = SubSeq(S, 1, Len(r.delivered))
<1>1. PICK k \in 1 .. Len(S) + 1 : r.delivered = SubSeq(S, 1, k - 1)
  BY DEF ReadUpTo
<1>2. PICK n \in 0 .. Len(S) : n = k - 1
  OBVIOUS
<1>3. Len(SubSeq(S, 1, n)) = n
  OBVIOUS
<1> QED BY <1>1, <1>2, <1>3

\* A longer beginning goes on after a shorter one.
LEMMA PrefixGrows ==
  ASSUME NEW S \in Seq(Message), NEW a \in 0 .. Len(S), NEW b \in 0 .. Len(S), a <= b
  PROVE  SubSeq(S, 1, b) = SubSeq(S, 1, a) \o SubSeq(S, a + 1, b)
<1>1. PICK u \in Seq(Message) : u = SubSeq(S, 1, a) /\ Len(u) = a /\ \A i \in 1 .. a : u[i] = S[i]
  <2>1. SubSeq(S, 1, a) \in Seq(Message) /\ Len(SubSeq(S, 1, a)) = a
    OBVIOUS
  <2>2. \A i \in 1 .. a : SubSeq(S, 1, a)[i] = S[i]
    OBVIOUS
  <2> QED BY <2>1, <2>2
<1>2. PICK w \in Seq(Message) : w = SubSeq(S, a + 1, b) /\ Len(w) = b - a /\ \A i \in 1 .. b - a : w[i] = S[a + i]
  <2>1. SubSeq(S, a + 1, b) \in Seq(Message) /\ Len(SubSeq(S, a + 1, b)) = b - a
    OBVIOUS
  <2>2. ASSUME NEW i \in 1 .. b - a PROVE SubSeq(S, a + 1, b)[i] = S[a + i]
    <3>1. (a + 1) + i - 1 = a + i
      OBVIOUS
    <3>2. SubSeq(S, a + 1, b)[i] = S[(a + 1) + i - 1]
      OBVIOUS
    <3> QED BY <3>1, <3>2
  <2> QED BY <2>1, <2>2
<1>3. PICK v \in Seq(Message) : v = SubSeq(S, 1, b) /\ Len(v) = b /\ \A i \in 1 .. b : v[i] = S[i]
  <2>1. SubSeq(S, 1, b) \in Seq(Message) /\ Len(SubSeq(S, 1, b)) = b
    OBVIOUS
  <2>2. \A i \in 1 .. b : SubSeq(S, 1, b)[i] = S[i]
    OBVIOUS
  <2> QED BY <2>1, <2>2
<1>4. PICK x \in Seq(Message) : x = u \o w
  BY Concat
<1>5. Len(x) = b
  BY <1>1, <1>2, <1>4
<1>6. ASSUME NEW i \in 1 .. b PROVE x[i] = v[i]
  <2>1. CASE i \in 1 .. a
    BY <1>1, <1>3, <1>4, <2>1
  <2>2. CASE i \notin 1 .. a
    <3>1. i - a \in 1 .. b - a /\ a + (i - a) = i /\ i > a
      BY <2>2
    <3>2. x[i] = w[i - a]
      <4>1. \A j \in 1 .. Len(w) : (u \o w)[Len(u) + j] = w[j]
        OBVIOUS
      <4> QED BY <1>1, <1>2, <1>4, <3>1, <4>1
    <3> QED BY <1>2, <1>3, <3>1, <3>2
  <2> QED BY <2>1, <2>2
<1>7. x = v
  BY <1>3, <1>5, <1>6, SameSequence
<1> QED BY <1>1, <1>2, <1>3, <1>4, <1>7

\* The step of the reliable FIFO that a step of the Channel is.
FifoNext == [Fifo!Next]_(Fifo!fifoVars)

\* A frame of the log stays where it is when the log grows.
LEMMA EntryAtExt ==
  ASSUME NEW l \in Seq(Entry), NEW m \in Seq(Entry), Ext(l, m), NEW i \in Nat, i <= Len(l)
  PROVE  EntryAt(m, i) = EntryAt(l, i)
<1>1. i = 0 \/ i \in 1 .. Len(l)
  OBVIOUS
<1> QED BY <1>1 DEF EntryAt, Ext

\* One side has moved on in the streams, and the other does not notice.
LEMMA StreamsKept ==
  ASSUME StreamsInv, IInv', NEW p \in Side, NEW d,
         core' = [core EXCEPT ![p] = d], Ext(core[p].log, d.log),
         Streaming(p, d, sent'[p], core[Other(p)].log, sent[Other(p)]),
         sent'[Other(p)] = sent[Other(p)], Ext(sent[p], sent'[p]), Distinct(sent'[p])
  PROVE  StreamsInv'
<1>1. PICK q \in Side : q = Other(p) /\ q # p /\ Other(q) = p /\ \A x \in Side : x = p \/ x = q
  BY Peers
<1>2. /\ core \in [Side -> CoreT] /\ sent \in [Side -> Seq(Message)] /\ sent' \in [Side -> Seq(Message)]
      /\ core' \in [Side -> CoreT]
  BY DEF StreamsInv, IInv, Typed
<1>3. core'[p] = d /\ core'[q] = core[q] /\ d \in CoreT /\ core[q] \in CoreT /\ core[p] \in CoreT
  BY <1>1, <1>2
<1>4. StreamOK(p) /\ StreamOK(q)
  BY DEF StreamsInv
<1>5. StreamOK(p)'
  BY <1>1, <1>3 DEF StreamOK, Streaming
<1>6. EntryAt(d.log, core[q].rcv_next) = EntryAt(core[p].log, core[q].rcv_next)
  <2>1. core[q].rcv_next <= Len(core[p].log)
    BY <1>1 DEF StreamsInv, IInv, SideOK, Fits
  <2>2. core[p].log \in Seq(Entry) /\ d.log \in Seq(Entry) /\ core[q].rcv_next \in Nat
    BY <1>3 DEF CoreT
  <2> QED BY <2>1, <2>2, EntryAtExt
<1>7. q \in SlowTransfer \/ ReadUpTo(Reader(core[q]), EntryAt(core[p].log, core[q].rcv_next), sent[p])
  BY <1>1, <1>4 DEF StreamOK, Reads
<1>8. q \in SlowTransfer \/ ReadUpTo(Reader(core[q]), EntryAt(d.log, core[q].rcv_next), sent'[p])
  <2>1. sent[p] \in Seq(Message) /\ sent'[p] \in Seq(Message)
    BY <1>2
  <2> QED BY <1>6, <1>7, <2>1, ReadExt
<1>9. StreamOK(q)'
  <2>1. Distinct(sent'[q]) /\ SenderOK(core'[q], sent'[q])
    BY <1>1, <1>3, <1>4 DEF StreamOK
  <2>2. Reads(q, core'[q], core'[Other(q)].log, sent'[Other(q)])
    BY <1>1, <1>3, <1>8 DEF Reads
  <2> QED BY <2>1, <2>2 DEF StreamOK
<1> QED BY <1>1, <1>5, <1>9 DEF StreamsInv

\* The messages one side has been given in the step are the ones that were due.
LEMMA FifoAdvance ==
  ASSUME StreamsInv, NEW p \in Side, NEW d, core' = [core EXCEPT ![p] = d], sent' = sent,
         Reads(p, d, core[Other(p)].log, sent[Other(p)]), Grows(p, core[p].delivered, d.delivered)
  PROVE  FifoNext
<1>1. PICK q \in Side : q = Other(p) /\ q # p
  BY Peers
<1>2. core \in [Side -> CoreT] /\ sent \in [Side -> Seq(Message)]
  BY DEF StreamsInv, IInv, Typed
<1>3. PICK S \in Seq(Message) : S = sent[q]
  BY <1>2
<1>4. PICK u, v : u = core[p].delivered /\ v = d.delivered
  OBVIOUS
<1>5. Reader(d).delivered = v /\ Reader(core[p]).delivered = u
  BY <1>4 DEF Reader
<1>6. PICK rec : rec = [x \in Side |-> IF x \in SlowTransfer THEN <<>> ELSE core[x].delivered]
  OBVIOUS
<1>7. PICK rec2 : rec2 = [x \in Side |-> IF x \in SlowTransfer THEN <<>> ELSE core'[x].delivered]
  OBVIOUS
<1>8. CASE p \in SlowTransfer
  <2>1. rec2 = rec
    BY <1>2, <1>6, <1>7, <1>8
  <2> QED BY <1>6, <1>7, <2>1 DEF FifoNext, Fifo!fifoVars
<1>9. SUFFICES ASSUME p \notin SlowTransfer PROVE FifoNext
  BY <1>8
<1>10. Len(v) \in 0 .. Len(S) /\ v = SubSeq(S, 1, Len(v))
  <2>1. ReadUpTo(Reader(d), EntryAt(core[q].log, d.rcv_next), S)
    BY <1>1, <1>3, <1>9 DEF Reads
  <2> QED BY <1>5, <2>1, ReadPrefix
<1>11. Len(u) \in 0 .. Len(S) /\ u = SubSeq(S, 1, Len(u))
  <2>1. ReadUpTo(Reader(core[p]), EntryAt(core[q].log, core[p].rcv_next), S)
    BY <1>1, <1>3, <1>9 DEF StreamsInv, StreamOK, Reads
  <2> QED BY <1>5, <2>1, ReadPrefix
<1>12. PICK a \in 0 .. Len(S), b \in 0 .. Len(S) : a = Len(u) /\ b = Len(v) /\ a <= b
  BY <1>4, <1>9, <1>10, <1>11 DEF Grows
<1>13. rec2 = [rec EXCEPT ![p] = v]
  BY <1>2, <1>4, <1>6, <1>7, <1>9
<1>14. rec[p] = u
  BY <1>4, <1>6, <1>9
<1>15. CASE a = b
  <2>1. u = v
    BY <1>10, <1>11, <1>12, <1>15
  <2>2. rec2 = rec
    BY <1>6, <1>13, <1>14, <2>1
  <2> QED BY <1>6, <1>7, <2>2 DEF FifoNext, Fifo!fifoVars
<1>16. CASE a # b
  <2>1. v = u \o SubSeq(S, Len(u) + 1, b)
    BY <1>10, <1>11, <1>12, PrefixGrows
  <2>2. b \in Len(u) + 1 .. Len(S)
    BY <1>12, <1>16
  <2>3. Fifo!Other(p) = q
    BY <1>1 DEF Fifo!Other, Other
  <2>4. rec2 = [rec EXCEPT ![p] = @ \o SubSeq(sent[Fifo!Other(p)], Len(@) + 1, b)]
    BY <1>3, <1>13, <1>14, <2>1, <2>3
  <2>5. \E n \in Len(rec[p]) + 1 .. Len(sent[Fifo!Other(p)]) :
           rec2 = [rec EXCEPT ![p] = @ \o SubSeq(sent[Fifo!Other(p)], Len(@) + 1, n)]
    BY <1>3, <1>14, <2>2, <2>3, <2>4
  <2>6. Fifo!Deliver(p)
    BY <1>6, <1>7, <2>5 DEF Fifo!Deliver
  <2>7. Fifo!Next
    BY <2>6 DEF Fifo!Next
  <2> QED BY <2>7 DEF FifoNext
<1> QED BY <1>15, <1>16

\* The flush of the outbox changes nothing of the streams.
LEMMA FlushStreams ==
  ASSUME NEW p, NEW c \in CoreT, NEW S, NEW log, NEW R, Streaming(p, c, S, log, R)
  PROVE  LET d == [c EXCEPT !.outbox = <<>>] IN
         Streaming(p, d, S, log, R) /\ d.log = c.log /\ d.delivered = c.delivered
<1>1. PICK d : d = [c EXCEPT !.outbox = <<>>]
  OBVIOUS
<1>2. /\ d.log = c.log /\ d.queue = c.queue /\ d.rcv_next = c.rcv_next /\ d.state = c.state /\ d.dead = c.dead
      /\ d.parts = c.parts /\ d.stale = c.stale /\ d.delivered = c.delivered
  BY <1>1 DEF CoreT
<1>3. Reader(d) = Reader(c)
  BY <1>2 DEF Reader
<1>4. d.dead \/ (d.queue = c.queue /\ d.state = c.state /\ ~c.dead)
  BY <1>2
<1>5. Streaming(p, d, S, log, R)
  BY <1>2, <1>3, <1>4, StreamingSame
<1> QED BY <1>1, <1>2, <1>5

\* A step of one side's task that sends no new message.
LEMMA SideStreams ==
  ASSUME StreamsInv, IInv', NEW p \in Side, NEW c \in CoreT, core' = Flushed(p, c), sent' = sent,
         Ext(core[p].log, c.log), Grows(p, core[p].delivered, c.delivered),
         Streaming(p, c, sent[p], core[Other(p)].log, sent[Other(p)])
  PROVE  StreamsInv' /\ FifoNext
<1>1. PICK d : d = [c EXCEPT !.outbox = <<>>]
  OBVIOUS
<1>2. /\ Streaming(p, d, sent[p], core[Other(p)].log, sent[Other(p)])
      /\ d.log = c.log /\ d.delivered = c.delivered
  BY <1>1, FlushStreams
<1>3. core' = [core EXCEPT ![p] = d]
  BY <1>1 DEF Flushed
<1>4. Ext(sent[p], sent'[p]) /\ Distinct(sent'[p])
  <2>1. sent[p] \in Seq(Message)
    BY DEF StreamsInv, IInv, Typed
  <2>2. Ext(sent[p], sent[p])
    BY <2>1 DEF Ext
  <2> QED BY <2>2 DEF StreamsInv, StreamOK
<1>5. StreamsInv'
  BY <1>2, <1>3, <1>4, StreamsKept
<1>6. FifoNext
  <2>1. Reads(p, d, core[Other(p)].log, sent[Other(p)])
    BY <1>2 DEF Streaming
  <2> QED BY <1>2, <1>3, <2>1, FifoAdvance
<1> QED BY <1>5, <1>6

\* The same for a step that leaves everything the streams see as it was.
LEMMA SilentStreams ==
  ASSUME StreamsInv, IInv', NEW p \in Side, NEW c \in CoreT,
         core' = Flushed(p, c) \/ core' = [core EXCEPT ![p] = c], sent' = sent,
         c.log = core[p].log, Reader(c) = Reader(core[p]), c.rcv_next = core[p].rcv_next,
         c.dead \/ (c.queue = core[p].queue /\ c.state = core[p].state /\ ~core[p].dead)
  PROVE  StreamsInv' /\ FifoNext
<1>1. PICK q \in Side : q = Other(p)
  BY Peers
<1>2. core[p] \in CoreT /\ sent[p] \in Seq(Message)
  BY DEF StreamsInv, IInv, Typed
<1>3. c.delivered = core[p].delivered /\ Grows(p, core[p].delivered, c.delivered)
  <2>1. c.delivered = core[p].delivered
    BY DEF Reader
  <2> QED BY <1>2, <2>1 DEF CoreT, Grows
<1>4. Ext(core[p].log, c.log) /\ Ext(sent[p], sent'[p])
  BY <1>2 DEF Ext, CoreT
<1>5. Streaming(p, core[p], sent[p], core[q].log, sent[q])
  BY <1>1 DEF StreamsInv, StreamOK, Streaming
<1>6. Streaming(p, c, sent[p], core[q].log, sent[q])
  BY <1>5, StreamingSame
<1>7. CASE core' = Flushed(p, c)
  BY <1>1, <1>3, <1>4, <1>6, <1>7, SideStreams
<1>8. CASE core' = [core EXCEPT ![p] = c]
  <2>1. Distinct(sent'[p])
    BY DEF StreamsInv, StreamOK
  <2>2. StreamsInv'
    BY <1>1, <1>4, <1>6, <1>8, <2>1, StreamsKept
  <2>3. Reads(p, c, core[Other(p)].log, sent[Other(p)])
    BY <1>1, <1>6 DEF Streaming
  <2>4. FifoNext
    BY <1>3, <1>8, <2>3, FifoAdvance
  <2> QED BY <2>2, <2>4
<1> QED BY <1>7, <1>8

\* connect: a SYN follows nothing, or other frames of the handshake.
LEMMA ConnectStreams ==
  ASSUME StreamsInv, IInv', NEW p \in Side, Connect(p)
  PROVE  StreamsInv' /\ FifoNext
<1>1. PICK a : a = core[p]
  OBVIOUS
<1>2. PICK S, log, R : S = sent[p] /\ log = core[Other(p)].log /\ R = sent[Other(p)]
  OBVIOUS
<1>3. a \in CoreT /\ Base(a) /\ ~a.dead /\ a.state = "closed" /\ IInv
  BY <1>1, SideFacts DEF StreamsInv, Connect
<1>4. /\ InOrder(a.log, S) /\ QueueInOrder(LastEntry(a), a.queue, S) /\ LastEntry(a).kind \in HandshakeKind
      /\ Reads(p, a, log, R)
  BY <1>1, <1>2, <1>3 DEF StreamsInv, StreamOK, SenderOK
<1>5. PICK b : b = [a EXCEPT !.state = "syn_sent"]
  OBVIOUS
<1>6. /\ b \in CoreT /\ b.log = a.log /\ b.queue = a.queue /\ b.rcv_next = a.rcv_next /\ b.dead = a.dead
      /\ b.parts = a.parts /\ b.stale = a.stale /\ b.delivered = a.delivered
      /\ b.buffer = a.buffer /\ b.una = a.una /\ b.outbox = a.outbox /\ b.state = "syn_sent"
  BY <1>3, <1>5 DEF CoreT
<1>7. Base(b) /\ Reader(b) = Reader(a) /\ LastEntry(b) = LastEntry(a)
  BY <1>3, <1>6 DEF Base, Reader, LastEntry
<1>8. PICK k \in HandshakeKind : k = "syn"
  BY DEF HandshakeKind
<1>9. PICK c : c = EmitReliable(b, k)
  OBVIOUS
<1>10. /\ InOrder(c.log, S) /\ QueueInOrder(LastEntry(c), c.queue, S)
       /\ LastEntry(c).kind \in HandshakeKind /\ Reader(c) = Reader(b)
  BY <1>4, <1>6, <1>7, <1>9, HandshakeSends
<1>11. Base(c) /\ Keeps(b, c) /\ Ext(b.log, c.log)
  <2>1. k \in {"syn", "synack", "fin"}
    BY <1>8
  <2> QED BY <1>7, <1>9, <2>1, EmitType
<1>12. c \in CoreT /\ c.rcv_next = a.rcv_next /\ Ext(a.log, c.log)
  BY <1>6, <1>11 DEF Base, Keeps
<1>13. Streaming(p, c, S, log, R)
  BY <1>4, <1>7, <1>10, <1>12 DEF Streaming, SenderOK, Reads
<1>14. Grows(p, a.delivered, c.delivered)
  <2>1. c.delivered = a.delivered
    BY <1>7, <1>10 DEF Reader
  <2> QED BY <1>3, <2>1 DEF CoreT, Grows
<1>15. core' = Flushed(p, c) /\ sent' = sent
  BY <1>1, <1>5, <1>8, <1>9 DEF Connect
<1> QED BY <1>1, <1>2, <1>12, <1>13, <1>14, <1>15, SideStreams

\* close: pump puts what is queued on the wire, and the FIN after it.
LEMMA CloseStreams ==
  ASSUME StreamsInv, IInv', NEW p \in Side, Close(p)
  PROVE  StreamsInv' /\ FifoNext
<1>1. PICK a : a = core[p]
  OBVIOUS
<1>2. PICK S, log, R : S = sent[p] /\ log = core[Other(p)].log /\ R = sent[Other(p)]
  OBVIOUS
<1>3. a \in CoreT /\ Good(a) /\ ~a.dead /\ IInv
  BY <1>1, SideFacts DEF StreamsInv, Close
<1>4. Streaming(p, a, S, log, R)
  BY <1>1, <1>2 DEF StreamsInv, StreamOK, Streaming
<1>5. PICK b : b = [a EXCEPT !.closing = TRUE]
  OBVIOUS
<1>6. /\ b \in CoreT /\ b.log = a.log /\ b.queue = a.queue /\ b.rcv_next = a.rcv_next /\ b.dead = a.dead
      /\ b.parts = a.parts /\ b.stale = a.stale /\ b.delivered = a.delivered /\ Keeps(a, b)
      /\ b.outbox = a.outbox /\ b.state = a.state
  BY <1>3, <1>5 DEF CoreT, Keeps
<1>7. Reader(b) = Reader(a)
  BY <1>6 DEF Reader
<1>8. Streaming(p, b, S, log, R)
  BY <1>3, <1>4, <1>6, <1>7, StreamingSame
<1>9. Good(b) /\ ~b.dead
  BY <1>3, <1>6, Quiet
<1>10. PICK c : c = Pump(b)
  OBVIOUS
<1>11. SenderOK(c, S) /\ Reader(c) = Reader(b) /\ c.rcv_next = b.rcv_next
  BY <1>8, <1>9, <1>10, PumpSends DEF Streaming
<1>12. Good(c) /\ Ext(b.log, c.log)
  BY <1>9, <1>10, PumpType
<1>13. c \in CoreT /\ Ext(a.log, c.log)
  BY <1>6, <1>12 DEF Good, Base
<1>14. Streaming(p, c, S, log, R)
  BY <1>8, <1>11 DEF Streaming, Reads
<1>15. Grows(p, a.delivered, c.delivered)
  <2>1. c.delivered = a.delivered
    BY <1>7, <1>11 DEF Reader
  <2> QED BY <1>3, <2>1 DEF CoreT, Grows
<1>16. core' = Flushed(p, c) /\ sent' = sent
  BY <1>1, <1>5, <1>10 DEF Close
<1> QED BY <1>1, <1>2, <1>13, <1>14, <1>15, <1>16, SideStreams

\* The timer repeats what is on the wire, or gives up.
LEMMA TimeoutStreams ==
  ASSUME StreamsInv, IInv', NEW p \in Side, Timeout(p)
  PROVE  StreamsInv' /\ FifoNext
<1>1. PICK a : a = core[p]
  OBVIOUS
<1>2. a \in CoreT /\ Good(a) /\ Pumped(a) /\ ~a.dead /\ IInv
  BY <1>1, SideFacts DEF StreamsInv, Timeout
<1>3. PICK c : c = OnTimeout(a)
  OBVIOUS
<1>4. Good(c) /\ c.log = a.log /\ c.rcv_next = a.rcv_next
  BY <1>2, <1>3, OnTimeoutType
<1>5. c \in CoreT
  BY <1>4 DEF Good, Base
<1>6. /\ c.parts = a.parts /\ c.stale = a.stale /\ c.delivered = a.delivered
      /\ c.dead \/ (c.queue = a.queue /\ c.state = a.state)
  <2>1. CASE a.retries >= MaxRetries
    <3>1. PICK l : l = Len(a.log)
      OBVIOUS
    <3>2. c = [a EXCEPT !.state = "closed", !.una = l, !.queue = <<>>, !.dead = TRUE]
      BY <1>3, <2>1, <3>1 DEF OnTimeout, Teardown
    <3> QED BY <1>2, <3>2 DEF CoreT
  <2>2. CASE ~(a.retries >= MaxRetries)
    <3>1. PICK o : o = a.outbox \o [i \in 1 .. InFlight(a) |->
             Stamp(a, a.log[a.una + i].kind, a.log[a.una + i].data, a.una + i - 1)]
      OBVIOUS
    <3>2. PICK n : n = a.retries + 1
      OBVIOUS
    <3>3. c = [a EXCEPT !.retries = n, !.outbox = o]
      BY <1>3, <2>2, <3>1, <3>2 DEF OnTimeout
    <3> QED BY <1>2, <3>3 DEF CoreT
  <2> QED BY <2>1, <2>2
<1>7. Reader(c) = Reader(a)
  BY <1>6 DEF Reader
<1>8. core' = Flushed(p, c) /\ sent' = sent
  BY <1>1, <1>3 DEF Timeout
<1> QED BY <1>1, <1>2, <1>4, <1>5, <1>6, <1>7, <1>8, SilentStreams

\* A frame is received.
LEMMA ReceiveStreams ==
  ASSUME StreamsInv, IInv', NEW p \in Side, NEW i \in 1 .. Len(net[Other(p)]), Receive(p, i)
  PROVE  StreamsInv' /\ FifoNext
<1>1. PICK q \in Side : q = Other(p) /\ q # p /\ Other(q) = p
  BY Peers
<1>2. PICK a, log, S, R, r : a = core[p] /\ log = core[q].log /\ S = sent[p] /\ R = sent[q] /\ r = core[q].rcv_next
  OBVIOUS
<1>3. /\ Good(a) /\ a \in CoreT /\ Fits(a, log) /\ (a.dead \/ a.una <= r) /\ IInv
      /\ log \in Seq(Entry) /\ EndsInFin(log) /\ r \in Nat
      /\ core \in [Side -> CoreT] /\ net \in [Side -> Seq(Frame)] /\ sent \in [Side -> Seq(Message)]
  BY <1>1, <1>2, SideFacts DEF StreamsInv
<1>4. Streaming(p, a, S, log, R)
  BY <1>1, <1>2 DEF StreamsInv, StreamOK, Streaming
<1>5. Distinct(R) /\ InOrder(log, R) /\ R \in Seq(Message)
  BY <1>1, <1>2, <1>3 DEF StreamsInv, StreamOK, SenderOK
<1>6. PICK f \in Frame : f = net[q][i] /\ Carried(log, r, f)
  <2>1. net[q][i] \in Frame
    <3>1. PICK s \in Seq(Frame) : s = net[q]
      BY <1>3
    <3> QED BY <1>1, <3>1
  <2>2. Carried(log, r, net[q][i])
    BY <1>1, <1>2, <1>3 DEF IInv, NetOK
  <2> QED BY <2>1, <2>2
<1>7. PICK c : c = OnFrame(a, f)
  OBVIOUS
<1>8. core' = (IF a.dead THEN core ELSE Flushed(p, c)) /\ sent' = sent
  BY <1>1, <1>2, <1>6, <1>7 DEF Receive
<1>9. CASE a.dead
  <2>1. core' = [core EXCEPT ![p] = a]
    BY <1>2, <1>3, <1>8, <1>9
  <2> QED BY <1>2, <1>3, <1>8, <1>9, <2>1, SilentStreams
<1>10. CASE ~a.dead
  <2>1. ConsumesSeq(f) => Logged(log, f)
    BY <1>6 DEF Carried
  <2>2. Streaming(p, c, S, log, R) /\ Grows(p, a.delivered, c.delivered)
    BY <1>3, <1>4, <1>5, <1>7, <1>10, <2>1, OnFrameStreams
  <2>3. After(a, c, log, r)
    BY <1>3, <1>6, <1>7, <1>10, OnFrameAfter
  <2>4. c \in CoreT /\ Ext(a.log, c.log)
    BY <2>3 DEF After, Good, Base
  <2>5. core' = Flushed(p, c)
    BY <1>8, <1>10
  <2> QED BY <1>1, <1>2, <1>8, <2>2, <2>4, <2>5, SideStreams
<1> QED BY <1>9, <1>10

\* A core whose task ends.
LEMMA DeadStreams ==
  ASSUME StreamsInv, IInv', NEW p \in Side, core' = [core EXCEPT ![p].dead = TRUE], sent' = sent
  PROVE  StreamsInv' /\ FifoNext
<1>1. PICK a : a = core[p]
  OBVIOUS
<1>2. a \in CoreT
  BY <1>1 DEF StreamsInv, IInv, Typed
<1>3. PICK c : c = [a EXCEPT !.dead = TRUE]
  OBVIOUS
<1>4. /\ c \in CoreT /\ c.log = a.log /\ c.rcv_next = a.rcv_next /\ c.dead
      /\ c.parts = a.parts /\ c.stale = a.stale /\ c.delivered = a.delivered
  BY <1>2, <1>3 DEF CoreT
<1>5. Reader(c) = Reader(a)
  BY <1>4 DEF Reader
<1>6. core' = [core EXCEPT ![p] = c]
  BY <1>1, <1>3
<1> QED BY <1>1, <1>4, <1>5, <1>6, SilentStreams

\* A partial message expires where that may happen: nothing was promised there.
LEMMA PartialExpiresStreams ==
  ASSUME StreamsInv, IInv', NEW p \in Side, PartialExpires(p)
  PROVE  StreamsInv' /\ FifoNext
<1>1. PICK a : a = core[p]
  OBVIOUS
<1>2. a \in CoreT /\ sent[p] \in Seq(Message) /\ core \in [Side -> CoreT] /\ p \in SlowTransfer /\ ~a.dead
  BY <1>1 DEF StreamsInv, IInv, Typed, PartialExpires
<1>3. PICK m : core' = [core EXCEPT ![p].stale = @ \cup {m}]
  BY DEF PartialExpires
<1>4. PICK st : st = a.stale \cup {m}
  OBVIOUS
<1>5. PICK c : c = [a EXCEPT !.stale = st]
  OBVIOUS
<1>6. core' = [core EXCEPT ![p] = c] /\ sent' = sent
  BY <1>1, <1>2, <1>3, <1>4, <1>5 DEF PartialExpires
<1>7. c.log = a.log /\ c.queue = a.queue /\ c.state = a.state /\ c.dead = a.dead
  BY <1>2, <1>5 DEF CoreT
<1>8. SenderOK(a, sent[p]) /\ Distinct(sent[p])
  BY <1>1 DEF StreamsInv, StreamOK
<1>9. SenderOK(c, sent[p])
  BY <1>7, <1>8 DEF SenderOK, LastEntry
<1>10. Reads(p, c, core[Other(p)].log, sent[Other(p)]) /\ Grows(p, core[p].delivered, c.delivered)
  BY <1>2 DEF Reads, Grows
<1>11. Ext(core[p].log, c.log) /\ Ext(sent[p], sent'[p])
  BY <1>1, <1>2, <1>6, <1>7 DEF Ext, CoreT
<1>12. StreamsInv'
  <2>1. Streaming(p, c, sent'[p], core[Other(p)].log, sent[Other(p)])
    BY <1>6, <1>9, <1>10 DEF Streaming
  <2>2. sent'[Other(p)] = sent[Other(p)] /\ Distinct(sent'[p])
    BY <1>6, <1>8
  <2> QED BY <1>6, <1>11, <2>1, <2>2, StreamsKept
<1>13. FifoNext
  BY <1>6, <1>10, FifoAdvance
<1> QED BY <1>12, <1>13

\* Queue w is queue q and the chunks of a message after it.
Lengthened(q, w, m) ==
  /\ Len(w) = Len(q) + Chunks[m] /\ \A i \in 1 .. Len(q) : w[i] = q[i]
  /\ \A i \in 1 .. Chunks[m] : w[Len(q) + i] = [msg |-> m, idx |-> i]

\* A message more: its chunks come after what is queued.
LEMMA QueueMore ==
  ASSUME NEW S \in Seq(Message), NEW m \in Message, NEW T \in Seq(Message), T = Append(S, m),
         NEW e, NEW q \in Seq(Chunk), QueueInOrder(e, q, S),
         NEW w \in Seq(Chunk), Lengthened(q, w, m)
  PROVE  QueueInOrder(e, w, T)
<1>0. /\ Len(w) = Len(q) + Chunks[m] /\ \A i \in 1 .. Len(q) : w[i] = q[i]
      /\ \A i \in 1 .. Chunks[m] : w[Len(q) + i] = [msg |-> m, idx |-> i]
  BY DEF Lengthened
<1>1. PICK k \in Nat : k = Chunks[m] /\ k >= 1
  <2>1. Chunks[m] \in Nat \ {0}
    BY ChunksAssumption
  <2>2. Chunks[m] \in Nat /\ Chunks[m] >= 1
    BY <2>1
  <2> QED BY <2>2
<1>2. PICK b \in Nat : b = Len(q)
  <2>1. Len(q) \in Nat
    OBVIOUS
  <2> QED BY <2>1
<1>3. PICK s \in Nat : s = Len(S)
  <2>1. Len(S) \in Nat
    OBVIOUS
  <2> QED BY <2>1
<1>4. Len(w) = b + k /\ Len(T) = s + 1 /\ T[s + 1] = m /\ Ext(S, T)
  BY <1>0, <1>1, <1>2, <1>3 DEF Ext
<1>5. ASSUME NEW i \in 1 .. b + 1 PROVE BeforeQueued(e, w, i) = BeforeQueued(e, q, i)
  <2>1. i = 1 \/ i - 1 \in 1 .. b
    OBVIOUS
  <2> QED BY <1>0, <1>2, <2>1 DEF BeforeQueued
<1>6. ASSUME NEW j \in 1 .. k PROVE BeforeQueued(e, w, b + j + 1) = DataEntry([msg |-> m, idx |-> j])
  <2>1. b + j + 1 # 1 /\ (b + j + 1) - 1 = b + j
    OBVIOUS
  <2>2. w[b + j] = [msg |-> m, idx |-> j]
    BY <1>0, <1>1, <1>2
  <2> QED BY <2>1, <2>2 DEF BeforeQueued
<1>7. ASSUME NEW j \in 1 .. k, NEW g, NEW h,
             IF j < k THEN g = s + 1 /\ h = j ELSE g = s + 2 /\ h = 0
      PROVE  Due(DataEntry([msg |-> m, idx |-> j]), T, g, h)
  <2>1. PICK y : y = DataEntry([msg |-> m, idx |-> j])
    OBVIOUS
  <2>2. y.kind = "data" /\ y.data = [msg |-> m, idx |-> j]
    BY <2>1 DEF DataEntry
  <2>3. s + 1 \in 1 .. Len(T) /\ j \in 1 .. Chunks[T[s + 1]] /\ (s + 1) + 1 = s + 2
    <3>1. s + 1 \in 1 .. s + 1 /\ (s + 1) + 1 = s + 2
      OBVIOUS
    <3>2. Chunks[T[s + 1]] = k /\ Len(T) = s + 1
      BY <1>1, <1>4
    <3> QED BY <3>1, <3>2
  <2>4. /\ y.data = [msg |-> T[s + 1], idx |-> j]
        /\ IF j < Chunks[T[s + 1]] THEN g = s + 1 /\ h = j ELSE g = (s + 1) + 1 /\ h = 0
    BY <1>1, <1>4, <1>7, <2>2, <2>3
  <2> QED BY <2>1, <2>2, <2>3, <2>4 DEF Due
<1>8. ASSUME NEW i \in 1 .. Len(w) PROVE NextEntry(BeforeQueued(e, w, i), DataEntry(w[i]), T)
  <2>1. CASE i \in 1 .. b
    <3>1. i \in 1 .. b + 1 /\ w[i] = q[i]
      BY <1>0, <1>2, <2>1
    <3>2. NextEntry(BeforeQueued(e, q, i), DataEntry(q[i]), S)
      BY <1>2, <2>1 DEF QueueInOrder
    <3>3. NextEntry(BeforeQueued(e, q, i), DataEntry(q[i]), T)
      BY <1>4, <3>2, NextExt
    <3> QED BY <1>5, <3>1, <3>3
  <2>2. CASE i \notin 1 .. b
    <3>1. PICK j \in 1 .. k : i = b + j
      <4>1. i - b \in 1 .. k /\ i = b + (i - b)
        BY <1>4, <2>2
      <4> QED BY <4>1
    <3>2. w[i] = [msg |-> m, idx |-> j]
      BY <1>0, <1>1, <1>2, <3>1
    <3>3. PICK y : y = DataEntry(w[i])
      OBVIOUS
    <3>4. y.kind = "data" /\ y.data = [msg |-> m, idx |-> j]
      BY <3>2, <3>3 DEF DataEntry
    <3>5. PICK x : x = BeforeQueued(e, w, i)
      OBVIOUS
    <3>6. Due(x, T, s + 1, j - 1)
      <4>1. CASE j = 1
        <5>1. i = b + 1 /\ b + 1 \in 1 .. b + 1 /\ j - 1 = 0
          BY <3>1, <4>1
        <5>2. x = BeforeQueued(e, q, b + 1)
          BY <1>5, <3>5, <5>1
        <5>3. Due(x, S, s + 1, 0)
          BY <1>2, <1>3, <5>2 DEF QueueInOrder
        <5>4. Due(x, T, s + 1, 0)
          BY <1>4, <5>3, DueExt
        <5> QED BY <5>1, <5>4
      <4>2. CASE j # 1
        <5>1. PICK h \in 1 .. k : h = j - 1 /\ h < k /\ b + h + 1 = i
          <6>1. j - 1 \in 1 .. k /\ j - 1 < k /\ b + (j - 1) + 1 = i
            BY <3>1, <4>2
          <6> QED BY <6>1
        <5>2. x = DataEntry([msg |-> m, idx |-> h])
          BY <1>6, <3>5, <5>1
        <5>3. Due(DataEntry([msg |-> m, idx |-> h]), T, s + 1, h)
          BY <1>7, <5>1
        <5> QED BY <5>1, <5>2, <5>3
      <4> QED BY <4>1, <4>2
    <3>7. s + 1 \in 1 .. Len(T) /\ j - 1 \in Nat /\ (j - 1) + 1 = j
      BY <1>4
    <3>8. y.data = [msg |-> T[s + 1], idx |-> (j - 1) + 1]
      BY <1>4, <3>4, <3>7
    <3>9. y.kind \notin HandshakeKind
      BY <3>4 DEF HandshakeKind
    <3>10. NextEntry(x, y, T)
      BY <3>4, <3>6, <3>7, <3>8, <3>9 DEF NextEntry
    <3> QED BY <3>3, <3>5, <3>10
  <2> QED BY <2>1, <2>2
<1>9. Due(BeforeQueued(e, w, Len(w) + 1), T, Len(T) + 1, 0)
  <2>1. k \in 1 .. k /\ Len(w) + 1 = b + k + 1 /\ Len(T) + 1 = s + 2 /\ ~(k < k)
    <3>1. k \in 1 .. k /\ (b + k) + 1 = b + k + 1 /\ (s + 1) + 1 = s + 2 /\ ~(k < k)
      BY <1>1
    <3> QED BY <1>4, <3>1
  <2>2. BeforeQueued(e, w, b + k + 1) = DataEntry([msg |-> m, idx |-> k])
    BY <1>6, <2>1
  <2>3. Due(DataEntry([msg |-> m, idx |-> k]), T, s + 2, 0)
    BY <1>7, <2>1
  <2> QED BY <2>1, <2>2, <2>3
<1> QED BY <1>8, <1>9 DEF QueueInOrder

\* A message not sent before keeps the messages distinct.
LEMMA DistinctMore ==
  ASSUME NEW S \in Seq(Message), Distinct(S), NEW m \in Message, m \notin Range(S)
  PROVE  LET T == Append(S, m) IN T \in Seq(Message) /\ Distinct(T) /\ Ext(S, T)
<1>1. PICK T \in Seq(Message) : T = Append(S, m)
  <2>1. Append(S, m) \in Seq(Message)
    OBVIOUS
  <2> QED BY <2>1
<1>2. PICK s \in Nat : s = Len(S)
  OBVIOUS
<1>3. Len(T) = s + 1 /\ T[s + 1] = m /\ \A i \in 1 .. s : T[i] = S[i]
  BY <1>1, <1>2
<1>4. \A i \in 1 .. s : S[i] # m
  BY <1>2 DEF Range
<1>5. ASSUME NEW i \in 1 .. Len(T), NEW j \in 1 .. Len(T), T[i] = T[j] PROVE i = j
  <2>1. (i \in 1 .. s \/ i = s + 1) /\ (j \in 1 .. s \/ j = s + 1)
    BY <1>3
  <2> QED BY <1>2, <1>3, <1>4, <1>5, <2>1 DEF Distinct
<1>6. Ext(S, T)
  BY <1>2, <1>3 DEF Ext
<1> QED BY <1>1, <1>5, <1>6 DEF Distinct

\* send: the chunks of the message join the queue.
LEMMA SendMessageStreams ==
  ASSUME StreamsInv, IInv', NEW p \in Side, NEW m \in Message, SendMessage(p, m)
  PROVE  StreamsInv' /\ FifoNext
<1>1. PICK a : a = core[p]
  OBVIOUS
<1>2. PICK q \in Side : q = Other(p) /\ q # p
  BY Peers
<1>3. PICK log, R : log = core[q].log /\ R = sent[q]
  OBVIOUS
<1>4. /\ a \in CoreT /\ Good(a) /\ ~a.dead /\ IInv
      /\ core \in [Side -> CoreT] /\ sent \in [Side -> Seq(Message)]
  BY <1>1, SideFacts DEF StreamsInv, SendMessage
<1>5. PICK S \in Seq(Message) : S = sent[p]
  BY <1>4
<1>6. m \notin Range(S) /\ Distinct(S)
  BY <1>5 DEF SendMessage, StreamsInv, StreamOK
<1>7. PICK T \in Seq(Message) : T = Append(S, m) /\ Distinct(T) /\ Ext(S, T)
  BY <1>6, DistinctMore
<1>8. Streaming(p, a, S, log, R)
  BY <1>1, <1>2, <1>3, <1>5 DEF StreamsInv, StreamOK, Streaming
<1>9. PICK k \in Nat : k = Chunks[m]
  BY ChunksAssumption
<1>10. PICK u \in Seq(Chunk) : /\ u = [i \in 1 .. Chunks[m] |-> [msg |-> m, idx |-> i]]
                               /\ Len(u) = k /\ \A i \in 1 .. k : u[i] = [msg |-> m, idx |-> i]
  <2>1. \A i \in 1 .. k : [msg |-> m, idx |-> i] \in Chunk
    BY <1>9 DEF Chunk
  <2>2. PICK u : u = [i \in 1 .. k |-> [msg |-> m, idx |-> i]]
    OBVIOUS
  <2>3. u \in Seq(Chunk) /\ Len(u) = k
    BY <2>1, <2>2
  <2> QED BY <1>9, <2>2, <2>3
<1>11. a.queue \in Seq(Chunk)
  BY <1>4 DEF CoreT
<1>12. PICK w \in Seq(Chunk) : w = a.queue \o u
  BY <1>11, Concat
<1>13. /\ Len(w) = Len(a.queue) + k /\ \A i \in 1 .. Len(a.queue) : w[i] = a.queue[i]
       /\ \A i \in 1 .. k : w[Len(a.queue) + i] = u[i]
  <2>1. PICK v \in Seq(Chunk) : v = a.queue
    BY <1>11
  <2>2. Len(v \o u) = Len(v) + Len(u) /\ \A i \in 1 .. Len(v) : (v \o u)[i] = v[i]
    OBVIOUS
  <2>3. \A i \in 1 .. Len(u) : (v \o u)[Len(v) + i] = u[i]
    OBVIOUS
  <2> QED BY <1>10, <1>12, <2>1, <2>2, <2>3
<1>14. PICK b : b = [a EXCEPT !.queue = w]
  OBVIOUS
<1>15. /\ b \in CoreT /\ b.log = a.log /\ b.queue = w /\ b.rcv_next = a.rcv_next /\ b.dead = a.dead
       /\ b.parts = a.parts /\ b.stale = a.stale /\ b.delivered = a.delivered /\ Keeps(a, b)
       /\ b.outbox = a.outbox /\ b.state = a.state
  BY <1>4, <1>14 DEF CoreT, Keeps
<1>16. Reader(b) = Reader(a) /\ LastEntry(b) = LastEntry(a)
  BY <1>15 DEF Reader, LastEntry
<1>17. SenderOK(b, T)
  <2>1. InOrder(b.log, T)
    BY <1>7, <1>8, <1>15, InOrderExt DEF Streaming, SenderOK
  <2>2. ASSUME b.state # "fin_sent" PROVE QueueInOrder(LastEntry(b), w, T)
    <3>1. QueueInOrder(LastEntry(a), a.queue, S)
      BY <1>4, <1>8, <1>15, <2>2 DEF Streaming, SenderOK
    <3>2. \A i \in 1 .. Chunks[m] : w[Len(a.queue) + i] = [msg |-> m, idx |-> i]
      BY <1>9, <1>10, <1>13
    <3>3. PICK v \in Seq(Chunk) : v = a.queue
      BY <1>11
    <3>4. PICK e : e = LastEntry(a)
      OBVIOUS
    <3>5. /\ QueueInOrder(e, v, S) /\ Len(w) = Len(v) + Chunks[m] /\ \A i \in 1 .. Len(v) : w[i] = v[i]
          /\ \A i \in 1 .. Chunks[m] : w[Len(v) + i] = [msg |-> m, idx |-> i]
      BY <1>9, <1>13, <3>1, <3>2, <3>3, <3>4
    <3>6. QueueInOrder(e, w, T)
      <4>1. T = Append(S, m)
        BY <1>7
      <4>2. Lengthened(v, w, m)
        BY <3>5 DEF Lengthened
      <4> QED BY <3>5, <4>1, <4>2, QueueMore
    <3> QED BY <1>16, <3>4, <3>6
  <2>3. b.state \in {"closed", "syn_sent"} => LastEntry(b).kind \in HandshakeKind
    BY <1>4, <1>8, <1>15, <1>16 DEF Streaming, SenderOK
  <2> QED BY <1>15, <2>1, <2>2, <2>3 DEF SenderOK
<1>18. Good(b) /\ ~b.dead
  BY <1>4, <1>15, Quiet
<1>19. PICK c : c = Pump(b)
  OBVIOUS
<1>20. SenderOK(c, T) /\ Reader(c) = Reader(b) /\ c.rcv_next = b.rcv_next
  BY <1>17, <1>18, <1>19, PumpSends
<1>21. Good(c) /\ Ext(b.log, c.log)
  BY <1>18, <1>19, PumpType
<1>22. c \in CoreT /\ Ext(a.log, c.log)
  BY <1>15, <1>21 DEF Good, Base
<1>23. Streaming(p, c, T, log, R)
  BY <1>8, <1>15, <1>16, <1>20 DEF Streaming, Reads
<1>24. PICK d : d = [c EXCEPT !.outbox = <<>>]
  OBVIOUS
<1>25. Streaming(p, d, T, log, R) /\ d.log = c.log /\ d.delivered = c.delivered
  BY <1>22, <1>23, <1>24, FlushStreams
<1>26. d.delivered = a.delivered
  BY <1>16, <1>20, <1>25 DEF Reader
<1>27. core' = [core EXCEPT ![p] = d] /\ sent' = [sent EXCEPT ![p] = T]
  <2>1. b = [core[p] EXCEPT !.queue = @ \o [i \in 1 .. Chunks[m] |-> [msg |-> m, idx |-> i]]]
    BY <1>1, <1>10, <1>12, <1>14
  <2>2. core' = Flushed(p, Pump(b)) /\ sent' = [sent EXCEPT ![p] = Append(@, m)]
    BY <2>1 DEF SendMessage
  <2> QED BY <1>5, <1>7, <1>19, <1>24, <2>2 DEF Flushed
<1>28. sent'[p] = T /\ sent'[q] = sent[q]
  BY <1>2, <1>4, <1>27
<1>29. StreamsInv'
  <2>1. Ext(core[p].log, d.log) /\ Ext(sent[p], sent'[p]) /\ Distinct(sent'[p])
    BY <1>1, <1>5, <1>7, <1>22, <1>25, <1>28
  <2>2. Streaming(p, d, sent'[p], core[Other(p)].log, sent[Other(p)]) /\ sent'[Other(p)] = sent[Other(p)]
    BY <1>2, <1>3, <1>25, <1>28
  <2> QED BY <1>27, <2>1, <2>2, StreamsKept
<1>30. FifoNext
  <2>1. [x \in Side |-> IF x \in SlowTransfer THEN <<>> ELSE core'[x].delivered]
          = [x \in Side |-> IF x \in SlowTransfer THEN <<>> ELSE core[x].delivered]
    <3>1. ASSUME NEW x \in Side PROVE core'[x].delivered = core[x].delivered
      BY <1>1, <1>4, <1>26, <1>27
    <3> QED BY <3>1
  <2>2. Fifo!Send(p, m)
    BY <1>5, <1>7, <1>27, <2>1 DEF Fifo!Send
  <2>3. Fifo!Next
    BY <2>2 DEF Fifo!Next
  <2> QED BY <2>3 DEF FifoNext
<1> QED BY <1>29, <1>30

\* At first nothing is sent and nothing read.
LEMMA InitStreams ==
  ASSUME Init
  PROVE  StreamsInv /\ Fifo!Init
<1>1. IInv
  BY InitInvariant
<1>2. ASSUME NEW p \in Side PROVE StreamOK(p)
  <2>1. PICK c : c = core[p]
    OBVIOUS
  <2>2. sent[p] = <<>> /\ sent[Other(p)] = <<>> /\ c = New(p) /\ core[Other(p)] = New(Other(p))
    BY <2>1, Peers DEF Init
  <2>3. /\ c.log = <<>> /\ c.queue = <<>> /\ c.rcv_next = 0 /\ c.parts = {} /\ c.stale = {} /\ c.delivered = <<>>
    BY <2>2 DEF New
  <2>4. Len(<<>>) = 0 /\ 1 .. 0 = {}
    OBVIOUS
  <2>5. PICK x : x = EntryAt(<<>>, 0)
    OBVIOUS
  <2>6. x.kind = "syn" /\ x.kind \in HandshakeKind /\ x.kind # "fin"
    BY <2>5 DEF EntryAt, HandshakeKind
  <2>7. Due(x, <<>>, 1, 0) /\ Len(<<>>) + 1 = 1
    BY <2>4, <2>6 DEF Due
  <2>8. Distinct(<<>>) /\ InOrder(<<>>, <<>>)
    BY <2>4 DEF Distinct, InOrder
  <2>9. QueueInOrder(x, <<>>, <<>>)
    BY <2>4, <2>7 DEF QueueInOrder, BeforeQueued
  <2>10. LastEntry(c) = x
    BY <2>3, <2>4, <2>5 DEF LastEntry
  <2>11. SenderOK(c, <<>>)
    BY <2>3, <2>6, <2>8, <2>9, <2>10 DEF SenderOK
  <2>12. EntryAt(core[Other(p)].log, c.rcv_next) = x
    BY <2>3, <2>5 DEF EntryAt
  <2>13. ReadUpTo(Reader(c), x, <<>>)
    <3>1. Reader(c).stale = {} /\ Reader(c).parts = {} /\ Reader(c).delivered = <<>>
      BY <2>3 DEF Reader
    <3>2. SubSeq(<<>>, 1, 1 - 1) = <<>>
      OBVIOUS
    <3>3. {} = {[msg |-> (<<>>)[1], idx |-> i] : i \in 1 .. 0}
      BY <2>4
    <3>4. 1 \in 1 .. Len(<<>>) + 1 /\ 0 \in Nat
      BY <2>4
    <3> QED BY <2>6, <2>7, <3>1, <3>2, <3>3, <3>4 DEF ReadUpTo
  <2> QED BY <2>1, <2>2, <2>8, <2>11, <2>12, <2>13 DEF StreamOK, Reads
<1>3. Fifo!Init
  <2>1. ASSUME NEW p \in Side PROVE core[p].delivered = <<>>
    BY DEF Init, New
  <2> QED BY <2>1 DEF Fifo!Init, Init
<1> QED BY <1>1, <1>2, <1>3 DEF StreamsInv

\* Every step keeps the streams in order and is a step of the FIFO or none.
LEMMA NextStreams ==
  ASSUME StreamsInv, [Next]_vars
  PROVE  StreamsInv' /\ FifoNext
<1>1. IInv'
  BY NextInvariant DEF StreamsInv
<1>2. CASE UNCHANGED vars
  <2>1. core' = core /\ sent' = sent
    BY <1>2 DEF vars
  <2>2. \A p \in Side : StreamOK(p)'
    BY <2>1 DEF StreamsInv, StreamOK, Reads
  <2>3. FifoNext
    BY <2>1 DEF FifoNext, Fifo!fifoVars
  <2> QED BY <1>1, <2>2, <2>3 DEF StreamsInv
<1>3. CASE Next
  <2>1. PICK p \in Side :
          \/ Connect(p) \/ Close(p) \/ Timeout(p)
          \/ \E m \in Message : SendMessage(p, m)
          \/ \E i \in 1..Len(net[Other(p)]) : Receive(p, i)
          \/ EndpointDropped(p) \/ PeerResets(p) \/ PartialExpires(p)
    BY <1>3 DEF Next
  <2>2. CASE Connect(p)
    BY <1>1, <2>2, ConnectStreams
  <2>3. CASE Close(p)
    BY <1>1, <2>3, CloseStreams
  <2>4. CASE Timeout(p)
    BY <1>1, <2>4, TimeoutStreams
  <2>5. CASE \E m \in Message : SendMessage(p, m)
    BY <1>1, <2>5, SendMessageStreams
  <2>6. CASE \E i \in 1..Len(net[Other(p)]) : Receive(p, i)
    BY <1>1, <2>6, ReceiveStreams
  <2>7. CASE EndpointDropped(p) \/ PeerResets(p)
    <3>1. core' = [core EXCEPT ![p].dead = TRUE] /\ sent' = sent
      BY <2>7 DEF EndpointDropped, PeerResets
    <3> QED BY <1>1, <3>1, DeadStreams
  <2>8. CASE PartialExpires(p)
    BY <1>1, <2>8, PartialExpiresStreams
  <2> QED BY <2>1, <2>2, <2>3, <2>4, <2>5, <2>6, <2>7, <2>8
<1> QED BY <1>2, <1>3

\* The two streams of chunks are in order in every reachable state, and each side
\* at which no partial message outlives the reassembly timeout has read its own
\* exactly as far as it has taken it.
THEOREM StreamsAlwaysInOrder ==
  Spec => []StreamsInv
<1>1. Init => StreamsInv
  BY InitStreams
<1>2. StreamsInv /\ [Next]_vars => StreamsInv'
  BY NextStreams
<1> QED BY <1>1, <1>2, PTL DEF Spec

\* The Channel implements the reliable FIFO it promises: for every window, retry
\* limit and number of chunks, and whatever the network drops, repeats or
\* reorders, each step gives an application the next messages the peer's
\* application sent, whole and in order, or nothing.  The reassembly timeout is
\* the one thing that can break the promise, towards the side where it strikes.
THEOREM ImplementsFifo ==
  Spec => RefinesFifo
<1>1. Init => Fifo!Init
  BY InitStreams
<1>2. StreamsInv /\ [Next]_vars => [Fifo!Next]_(Fifo!fifoVars)
  BY NextStreams DEF FifoNext
<1> QED BY <1>1, <1>2, StreamsAlwaysInOrder, PTL DEF Spec, RefinesFifo, Fifo!Spec
=============================================================================
