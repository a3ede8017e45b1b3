------------------------------ MODULE Channel ------------------------------
(***************************************************************************)
(* The reliable Channel of the endpoint library (telesthete/channel.rs):   *)
(* two ChannelCore state machines, the task that drives each one and the   *)
(* network between them.                                                   *)
(*                                                                         *)
(* A core is the record the code's `ChannelCore` is, and each of its       *)
(* methods is an operator on that record; the actions are the three arms   *)
(* of `run_connection`'s select loop (a command, a frame, the timer), each *)
(* with the flush of the outbox that ends it.  `unacked` always is the     *)
(* tail of the sequenced frames emitted so far, so a core keeps those      *)
(* (log; send_next is its length) and how many of them are acknowledged.   *)
(***************************************************************************)
EXTENDS Integers, Sequences, FiniteSets, SequencesExt

CONSTANTS
  Side,             \* the two endpoints
  Message,          \* the application messages, each sent at most once
  Chunks,           \* Chunks[m]: how many fragments message m takes
  Window,           \* Window[p]: the receive window p advertises
  DefaultWindow,    \* DEFAULT_WINDOW, assumed of the peer before it speaks
  MaxRetries,       \* MAX_RETRIES
  Senders, Closers, Leavers,  \* who sends, closes and goes away in a run
  Connectors, Reopeners,      \* who calls connect(), who re-opens
  SlowTransfer,     \* where a partial message may outlive the reassembly timeout
  MaxSends,         \* bound on the messages of one side
  NetCap,           \* bound on the frames in flight in one direction
  NoChunk           \* the data of a frame that carries none

Chunk == [msg : Message, idx : Nat]
Entry == [kind : {"syn", "synack", "data", "fin"}, data : Chunk \cup {NoChunk}]
Frame == [kind : {"syn", "synack", "data", "fin", "ack", "rst"}, data : Chunk \cup {NoChunk},
          seq : Nat, ack : Nat, window : Nat]
Held == [kind : {"syn", "synack", "data", "fin"}, data : Chunk \cup {NoChunk}, seq : Nat]

ASSUME TwoSides == \E p, q \in Side : p # q /\ Side = {p, q}
ASSUME ChunksAssumption == \A m \in Message : Chunks[m] \in Nat \ {0}
ASSUME WindowAssumption == Window \in [Side -> Nat \ {0}] /\ DefaultWindow \in Nat \ {0}
ASSUME BoundsAssumption == MaxRetries \in Nat /\ MaxSends \in Nat /\ NetCap \in Nat
ASSUME SlowAssumption == SlowTransfer \subseteq Side
ASSUME NoChunkAssumption == NoChunk \notin Chunk

VARIABLES
  core,     \* the ChannelCore of each side
  net,      \* net[p]: frames of p that the peer may still accept, oldest first
  sent      \* sent[p]: history of the messages p's application sent

vars == <<core, net, sent>>

Other(p) == CHOOSE q \in Side : q # p

-----------------------------------------------------------------------------
(* ChannelCore: construction, sending and acknowledging.                   *)

New(p) ==
  [state |-> "closed",
   log |-> <<>>, una |-> 0, queue |-> <<>>, peer_window |-> DefaultWindow, closing |-> FALSE,
   rcv_next |-> 0, buffer |-> {}, parts |-> {}, stale |-> {}, delivered |-> <<>>,
   window |-> Window[p], retries |-> 0, outbox |-> <<>>, peer_closed |-> FALSE, dead |-> FALSE]

InFlight(c) == Len(c.log) - c.una

\* Fault: frames that only wait in the reorder buffer are acknowledged.
StampBuffered(c, kind, data, seq) ==
  [kind |-> kind, data |-> data, seq |-> seq,
   ack |-> c.rcv_next + Cardinality(c.buffer), window |-> c.window]

\* A frame on the wire carries the ack number and window of the moment.
Stamp(c, kind, data, seq) ==
  [kind |-> kind, data |-> data, seq |-> seq, ack |-> c.rcv_next, window |-> c.window]

EmitReliable(c, kind) ==
  [c EXCEPT !.log = Append(@, [kind |-> kind, data |-> NoChunk]),
            !.outbox = Append(@, Stamp(c, kind, NoChunk, Len(c.log)))]

EmitPureAck(c) == [c EXCEPT !.outbox = Append(@, Stamp(c, "ack", NoChunk, Len(c.log)))]

SendLimit(c) == IF c.peer_window = 0 THEN 1 ELSE c.peer_window

\* How many queued chunks the window has room for.
Room(c) ==
  LET room == SendLimit(c) - InFlight(c)
  IN IF room <= 0 THEN 0 ELSE IF room < Len(c.queue) THEN room ELSE Len(c.queue)

\* Fault: the chunks are numbered from the seq after the next one.
PumpDataShifted(c) ==
  LET n == Room(c)
  IN [c EXCEPT
        !.log = @ \o [i \in 1..n |-> [kind |-> "data", data |-> c.queue[i]]],
        !.queue = SubSeq(@, n + 1, Len(@)),
        !.outbox = @ \o [i \in 1..n |-> Stamp(c, "data", c.queue[i], Len(c.log) + i)]]

PumpData(c) ==
  LET n == Room(c)
  IN [c EXCEPT
        !.log = @ \o [i \in 1..n |-> [kind |-> "data", data |-> c.queue[i]]],
        !.queue = SubSeq(@, n + 1, Len(@)),
        !.outbox = @ \o [i \in 1..n |-> Stamp(c, "data", c.queue[i], Len(c.log) + i - 1)]]

PumpFin(c) ==
  IF c.closing /\ c.queue = <<>> /\ InFlight(c) < SendLimit(c)
  THEN [EmitReliable(c, "fin") EXCEPT !.state = "fin_sent", !.closing = FALSE]
  ELSE c

Pump(c) == IF c.state = "established" THEN PumpFin(PumpData(c)) ELSE c

\* Cumulative, clamped to what was sent; progress resets the retry counter.
Ack(c, n) ==
  LET clamped == IF n < Len(c.log) THEN n ELSE Len(c.log)
  IN IF clamped > c.una THEN [c EXCEPT !.una = clamped, !.retries = 0] ELSE c

Teardown(c) ==
  [c EXCEPT !.state = "closed", !.una = Len(c.log), !.queue = <<>>, !.dead = TRUE]

\* Fault: it never gives up.
OnTimeoutForever(c) ==
  [c EXCEPT !.outbox = @ \o [i \in 1..InFlight(c) |->
     Stamp(c, c.log[c.una + i].kind, c.log[c.una + i].data, c.una + i - 1)]]

OnTimeout(c) ==
  IF c.retries >= MaxRetries THEN Teardown(c)
  ELSE [c EXCEPT
          !.retries = @ + 1,
          !.outbox = @ \o [i \in 1..InFlight(c) |->
             Stamp(c, c.log[c.una + i].kind, c.log[c.una + i].data, c.una + i - 1)]]

-----------------------------------------------------------------------------
(* ChannelCore: receiving.                                                 *)

ConsumesSeq(f) == f.kind \in {"syn", "synack", "data", "fin"}

Seqs(B) == {h.seq : h \in B}

\* The length of the contiguous run that starts at rcv_next.
RunLength(c) ==
  CHOOSE n \in 0..Cardinality(c.buffer) :
    /\ \A i \in 0..(n - 1) : c.rcv_next + i \in Seqs(c.buffer)
    /\ c.rcv_next + n \notin Seqs(c.buffer)

\* The frames of the run, in order.
Taken(c) ==
  [i \in 1..RunLength(c) |-> CHOOSE h \in c.buffer : h.seq = c.rcv_next + i - 1]

\* Reassembler::feed for the chunks of an in-order stream: gc first forgets the
\* partial messages that are too old, then the chunk joins the parts of its own
\* message and, as the last one missing, completes it.
Feed(r, x) ==
  LET kept == {y \in r.parts : y.msg \notin r.stale} \cup {x}
      mine == {y \in kept : y.msg = x.msg}
  IN IF Cardinality(mine) = Chunks[x.msg]
     THEN [parts |-> kept \ mine, stale |-> {}, delivered |-> Append(r.delivered, x.msg)]
     ELSE [parts |-> kept, stale |-> {}, delivered |-> r.delivered]

FeedAll(c, run) ==
  LET fed[n \in 0 .. Len(run)] ==
        IF n = 0 THEN [parts |-> c.parts, stale |-> c.stale, delivered |-> c.delivered]
        ELSE IF run[n].data = NoChunk THEN fed[n - 1] ELSE Feed(fed[n - 1], run[n].data)
  IN fed[Len(run)]

\* The drain loop of `deliver`.  Nothing follows a FIN, so when the loop meets
\* one the whole run is taken and our own FIN acknowledges all of it.
Drain(c) ==
  LET run == Taken(c)
      fin == \E i \in DOMAIN run : run[i].kind = "fin"
      fed == FeedAll(c, run)
      d == [c EXCEPT !.rcv_next = @ + Len(run),
                     !.buffer = {h \in @ : h.seq >= c.rcv_next + Len(run)},
                     !.parts = fed.parts, !.stale = fed.stale, !.delivered = fed.delivered,
                     !.peer_closed = @ \/ fin]
  IN IF fin /\ c.state = "established"
     THEN [EmitReliable(d, "fin") EXCEPT !.state = "fin_sent"]
     ELSE d

\* Fault: EOF is signalled when the FIN arrives, not when its turn comes.
HoldEof(c, f) ==
  [c EXCEPT !.buffer = @ \cup {[kind |-> f.kind, data |-> f.data, seq |-> f.seq]},
            !.peer_closed = @ \/ f.kind = "fin"]

Hold(c, f) == [c EXCEPT !.buffer = @ \cup {[kind |-> f.kind, data |-> f.data, seq |-> f.seq]}]

\* Fault: a repeated frame is fed to the application again.
DeliverTwice(c, f) ==
  LET fed == FeedAll(c, <<f>>) IN
  IF ~ConsumesSeq(f) THEN c
  ELSE IF f.seq < c.rcv_next
       THEN EmitPureAck([c EXCEPT !.parts = fed.parts, !.delivered = fed.delivered])
       ELSE EmitPureAck(Drain(Hold(c, f)))

\* A frame already taken, already buffered or beyond the window is only re-acked.
Deliver(c, f) ==
  IF ~ConsumesSeq(f) THEN c
  ELSE IF \/ f.seq < c.rcv_next \/ f.seq \in Seqs(c.buffer)
          \/ f.seq >= c.rcv_next + c.window
       THEN EmitPureAck(c)
       ELSE EmitPureAck(Drain(Hold(c, f)))

\* The peer's SYN or SYN+ACK is taken: its seq is consumed.
Established(c, f) == [c EXCEPT !.rcv_next = f.seq + 1, !.state = "established"]

\* Fault: a frame that opens the window does not restart the queue.
OnFrameNoPump(c, f) ==
  LET a == [Ack(c, f.ack) EXCEPT !.peer_window = f.window] IN
  CASE f.kind = "rst" -> Teardown([a EXCEPT !.peer_closed = TRUE])
    [] f.kind # "rst" /\ a.state = "closed" ->
         IF f.kind \in {"syn", "synack"} THEN EmitReliable(Established(a, f), "synack") ELSE a
    [] f.kind # "rst" /\ a.state = "syn_sent" ->
         IF f.kind = "synack" THEN Pump(EmitPureAck(Established(a, f)))
         ELSE IF f.kind = "syn" THEN EmitReliable(Established(a, f), "synack")
         ELSE a
    [] f.kind # "rst" /\ a.state \in {"established", "fin_sent"} -> Deliver(a, f)

OnFrame(c, f) ==
  LET a == [Ack(c, f.ack) EXCEPT !.peer_window = f.window] IN
  CASE f.kind = "rst" -> Teardown([a EXCEPT !.peer_closed = TRUE])
    [] f.kind # "rst" /\ a.state = "closed" ->
         IF f.kind \in {"syn", "synack"} THEN EmitReliable(Established(a, f), "synack") ELSE a
    [] f.kind # "rst" /\ a.state = "syn_sent" ->
         IF f.kind = "synack" THEN Pump(EmitPureAck(Established(a, f)))
         ELSE IF f.kind = "syn" THEN EmitReliable(Established(a, f), "synack")
         ELSE a
    [] f.kind # "rst" /\ a.state \in {"established", "fin_sent"} -> Pump(Deliver(a, f))

-----------------------------------------------------------------------------
(* The connection task: one arm of the select loop, then the flush.        *)

Init ==
  /\ core = [p \in Side |-> New(p)]
  /\ net = [p \in Side |-> <<>>]
  /\ sent = [p \in Side |-> <<>>]

\* In flight, the oldest frames are lost when there are too many.
Flight(s) == IF Len(s) <= NetCap THEN s ELSE SubSeq(s, Len(s) - NetCap + 1, Len(s))

\* The new core of p with its outbox handed to the transport.
Flushed(p, c) == [core EXCEPT ![p] = [c EXCEPT !.outbox = <<>>]]

Connect(p) ==
  /\ p \in Connectors /\ ~core[p].dead /\ core[p].state = "closed"
  /\ LET c == EmitReliable([core[p] EXCEPT !.state = "syn_sent"], "syn")
     IN /\ core' = Flushed(p, c)
        /\ net' = [net EXCEPT ![p] = Flight(@ \o c.outbox)]
  /\ UNCHANGED sent

\* The message is cut into chunks, which wait in the queue for `pump`.
SendMessage(p, m) ==
  /\ p \in Senders /\ ~core[p].dead /\ Len(sent[p]) < MaxSends
  /\ \A q \in Side : m \notin Range(sent[q])
  /\ LET c == Pump([core[p] EXCEPT
                      !.queue = @ \o [i \in 1..Chunks[m] |-> [msg |-> m, idx |-> i]]])
     IN /\ core' = Flushed(p, c)
        /\ net' = [net EXCEPT ![p] = Flight(@ \o c.outbox)]
  /\ sent' = [sent EXCEPT ![p] = Append(@, m)]

Close(p) ==
  /\ p \in Closers /\ ~core[p].dead /\ ~core[p].closing
  /\ LET c == Pump([core[p] EXCEPT !.closing = TRUE])
     IN /\ core' = Flushed(p, c)
        /\ net' = [net EXCEPT ![p] = Flight(@ \o c.outbox)]
  /\ UNCHANGED sent

\* The network delivers any frame of the peer's; those sent before it are below
\* the hub's watermark from now on, and a second copy of it is too.
Receive(p, i) ==
  LET q == Other(p)
      c == OnFrame(core[p], net[q][i])
  IN /\ core' = IF core[p].dead THEN core ELSE Flushed(p, c)
     /\ net' = [net EXCEPT ![q] = SubSeq(@, i + 1, Len(@)),
                           ![p] = IF core[p].dead THEN @ ELSE Flight(@ \o c.outbox)]
     /\ UNCHANGED sent

\* The retransmit timer runs while a frame is unacknowledged.
Timeout(p) ==
  /\ ~core[p].dead /\ InFlight(core[p]) > 0
  /\ LET c == OnTimeout(core[p])
     IN /\ core' = Flushed(p, c)
        /\ net' = [net EXCEPT ![p] = Flight(@ \o c.outbox)]
  /\ UNCHANGED sent

\* The endpoint is dropped and its task ends, without a word to the peer.
EndpointDropped(p) ==
  /\ p \in Leavers /\ ~core[p].dead
  /\ core' = [core EXCEPT ![p].dead = TRUE]
  /\ UNCHANGED <<net, sent>>

\* A peer of another make resets the connection; this library never sends RST.
PeerResets(p) ==
  /\ p \in Leavers /\ ~core[p].dead
  /\ core' = [core EXCEPT ![p].dead = TRUE]
  /\ net' = [net EXCEPT ![p] = Flight(Append(@, Stamp(core[p], "rst", NoChunk, 0)))]
  /\ UNCHANGED sent

\* The reassembly timeout passes since the first chunk of a partial message.
PartialExpires(p) ==
  /\ p \in SlowTransfer /\ ~core[p].dead
  /\ \E x \in core[p].parts :
       /\ x.msg \notin core[p].stale
       /\ core' = [core EXCEPT ![p].stale = @ \cup {x.msg}]
  /\ UNCHANGED <<net, sent>>

Next ==
  \E p \in Side :
    \/ Connect(p) \/ Close(p) \/ Timeout(p)
    \/ \E m \in Message : SendMessage(p, m)
    \/ \E i \in 1..Len(net[Other(p)]) : Receive(p, i)
    \/ EndpointDropped(p) \/ PeerResets(p) \/ PartialExpires(p)

Spec == Init /\ [][Next]_vars

\* ChannelHub::open on a channel that was open before: the route is replaced
\* and the task of the old core ends.
Reopen(p) ==
  /\ p \in Reopeners /\ core[p].log # <<>>
  /\ core' = [core EXCEPT ![p] = New(p)]
  /\ UNCHANGED <<net, sent>>

\* tokio fires every timer that stays armed; the network need not deliver.
TimerFairness == \A p \in Side : WF_vars(Timeout(p))

TimedSpec == Spec /\ TimerFairness

ReopenSpec == Init /\ [][Next \/ \E p \in Side : Reopen(p)]_vars /\ TimerFairness

-----------------------------------------------------------------------------
(* Properties.                                                             *)

Core == [state : {"closed", "syn_sent", "established", "fin_sent"},
         log : Seq(Entry), una : Nat, queue : Seq(Chunk), peer_window : Nat, closing : BOOLEAN,
         rcv_next : Nat, buffer : SUBSET Held, parts : SUBSET Chunk, stale : SUBSET Message,
         delivered : Seq(Message), window : Nat, retries : 0..MaxRetries, outbox : {<<>>},
         peer_closed : BOOLEAN, dead : BOOLEAN]

TypeOK ==
  /\ core \in [Side -> Core]
  /\ \A p \in Side : core[p].una <= Len(core[p].log)
  /\ net \in [Side -> Seq(Frame)]
  /\ sent \in [Side -> Seq(Message)]

\* Retransmission: every copy of a sequenced frame, in flight or in the reorder
\* buffer, first or repeated, is the frame its sender logged under that seq.
\* No seq is ever reused for something else.
CopiesAgree ==
  \A p \in Side :
    LET log == core[p].log
        Logged(h) == h.seq < Len(log) /\ log[h.seq + 1] = [kind |-> h.kind, data |-> h.data]
    IN /\ \A i \in 1..Len(net[p]) : ConsumesSeq(net[p][i]) => Logged(net[p][i])
       /\ \A h \in core[Other(p)].buffer : Logged(h)

\* A frame leaves `unacked` only when the peer has taken it in order: however
\* acks are delayed, lost or overtaken, nothing that may still be missing over
\* there stops being retransmitted (the silent loss `ack`'s comment warns of).
NothingRetiredEarly ==
  \A p \in Side :
    /\ ~core[p].dead => core[p].una <= core[Other(p)].rcv_next
    /\ \A i \in 1..Len(net[p]) : net[p][i].ack <= core[p].rcv_next
    /\ core[Other(p)].rcv_next <= Len(core[p].log)

\* EOF comes last: an application that sees the peer's close without a reset
\* has been given everything the peer put on the wire, and nothing more follows.
EofComplete ==
  \A p \in Side :
    core[p].peer_closed /\ ~core[p].dead =>
      /\ core[p].rcv_next = Len(core[Other(p)].log)
      /\ core[p].buffer = {}

\* Somebody's timer is always running when there is something left to do: a
\* connection with queued data has a frame in flight, and one that waits for a
\* SYN+ACK is itself retransmitting its SYN or has a peer that retransmits its
\* answer, unless that peer is gone.
NeverStalled ==
  \A p \in Side :
    LET c == core[p]  d == core[Other(p)] IN
    ~c.dead =>
      /\ c.state = "established" /\ c.queue # <<>> => InFlight(c) > 0
      /\ c.state = "syn_sent" /\ InFlight(c) = 0 => d.dead \/ InFlight(d) > 0

\* The Channel implements the reliable FIFO it promises its applications, towards
\* every side at which no partial message outlives the reassembly timeout.  (The
\* timeout drops chunks of an acknowledged message: there no promise is left.)
Fifo == INSTANCE ReliableFifo WITH
          received <- [p \in Side |-> IF p \in SlowTransfer THEN <<>> ELSE core[p].delivered]
RefinesFifo == Fifo!Spec

\* Nothing is left hanging, even if the network drops every frame from some
\* point on.  A handshake ends: the connection is established or dies, unless the
\* peer is gone.  And what is in flight or queued on an established connection is
\* acknowledged, or the connection dies, or the peer has closed it.  (After our
\* own FIN the code still queues what it is given, and promises nothing.)
EverythingSettles ==
  \A p \in Side :
    /\ core[p].state = "syn_sent"
         ~> core[p].state # "syn_sent" \/ core[p].dead \/ core[Other(p)].dead
    /\ core[p].state = "established" /\ (InFlight(core[p]) > 0 \/ core[p].queue # <<>>)
         ~> \/ InFlight(core[p]) = 0 /\ (core[p].queue = <<>> \/ core[p].state = "fin_sent")
            \/ core[p].dead \/ core[p].peer_closed

\* The documentation of `close`: "FIN is sent after any queued data drains".
OrderlyClose ==
  [][\A p \in Side :
       core[p].closing /\ core[p].state # "fin_sent" /\ core'[p].state = "fin_sent"
       => core'[p].queue = <<>>]_vars
=============================================================================
