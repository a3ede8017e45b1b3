------------------------------ MODULE Registry ------------------------------
(***************************************************************************)
(* The relay core of the hub (rust/telesthitium): the band registry, the   *)
(* ingress tasks that feed it and the egress queues it fills.              *)
(*                                                                         *)
(* `Registry::forward` takes the registry lock, collects the sinks a frame *)
(* must reach, releases the lock and only then sends: each such critical   *)
(* section, each atomic access to the byte budget and each channel send is *)
(* one action here, so that evictions, disconnects and other forwards fall *)
(* between them.  The UDP receive loop is one task (UdpLoop); connection   *)
(* and federation ingress run on the tasks of Slots.                       *)
(***************************************************************************)
EXTENDS Integers, Sequences, FiniteSets, Functions

CONSTANTS
  Band,               \* band ids
  Udp,                \* UDP socket addresses (PeerKey::Udp)
  Conn,               \* connection ids (PeerKey::Conn)
  Link,               \* federation links
  Ip,                 \* the IP address of each UDP socket address
  RouteId,            \* nonzero route ids
  FrameLen,           \* frame lengths in bytes
  FrameType,          \* the channel types in the traffic
  UdpLoop, Slots,     \* the UDP receive task; connection and link tasks
  MaxBands, MaxPeersPerBand, UdpValidationPackets,      \* Limits
  UdpQueueBytes,      \* ByteBudget.limit, 0 = unlimited
  QueueDepth,         \* depth of a UDP peer's or a connection's queue
  FedDepth,           \* depth of the federation queue, 0 = none installed
  Ttl,                \* idle TTL of UDP peers
  SinkId,             \* names for sinks; bounds how many exist at a time
  MaxTime,            \* bound of the model's clock
  None                \* Option::None

Key == Udp \cup Conn
Worker == {UdpLoop} \cup Slots

Frame == [band : Band, from : Key \cup Link, len : FrameLen,
          type : FrameType, id : RouteId \cup {0}]

Peer == [sink : SinkId \cup {None}, first_seen : Nat, last_seen : Nat, eligible : BOOLEAN,
         seen : Nat, route : RouteId \cup {0}]

Sink == [band : Band, key : Key, queue : Seq(Frame), open : BOOLEAN]

Work == [pc : {"idle", "observed", "dispatch", "reserved"},
         frame : Frame \cup {None}, todo : SUBSET SinkId, cur : SinkId \cup {None}]

ASSUME KeysDisjoint == Udp \cap Conn = {} /\ Link \cap Key = {}
ASSUME IpAssumption == Udp \subseteq DOMAIN Ip
ASSUME RouteIdsNonzero == RouteId \subseteq Nat \ {0}
ASSUME FrameTypes == FrameType \subseteq {"route", "addressed", "plain"}
ASSUME LensPositive == FrameLen \subseteq Nat \ {0}
ASSUME UdpLoopAlone == UdpLoop \notin Slots
ASSUME TasksFinite == IsFiniteSet(SinkId) /\ IsFiniteSet(Slots)
ASSUME LimitsAssumption ==
  /\ MaxBands \in Nat /\ MaxPeersPerBand \in Nat
  /\ UdpValidationPackets \in Nat /\ UdpQueueBytes \in Nat
  /\ QueueDepth \in Nat /\ FedDepth \in Nat /\ Ttl \in Nat
  /\ MaxTime \in Nat
ASSUME NoneFresh == None \notin Peer \cup Frame \cup Sink \cup SinkId \cup Key

VARIABLES
  now,      \* Instant::now(): never goes back, may stand still
  bands,    \* keys of Registry.bands: the bands held
  peer,     \* Registry.bands[b][k], None where there is no entry
  sinks,    \* every queue that still has a writer task, None elsewhere
  used,     \* ByteBudget.used
  work,     \* the frame each ingress task is working on
  conn,     \* each connection: its stage and the band it is pinned to
  fedq      \* the federation egress channel

vars == <<now, bands, peer, sinks, used, work, conn, fedq>>

\* A task at stage pc of frame f: sinks still to serve, sink being served.
At(pc, f, todo, cur) == [pc |-> pc, frame |-> f, todo |-> todo, cur |-> cur]

Idle == At("idle", None, {}, None)

TypeOK ==
  /\ now \in Nat
  /\ bands \in SUBSET Band
  /\ peer \in [Band -> [Key -> Peer \cup {None}]]
  /\ sinks \in [SinkId -> Sink \cup {None}]
  /\ used \in Int
  /\ work \in [Worker -> Work]
  /\ conn \in [Conn -> [stage : {"new", "open", "closing", "closed"}, band : Band]]
  /\ fedq \in Seq(Frame)

Init ==
  /\ now = 0
  /\ bands = {}
  /\ peer = [b \in Band |-> [k \in Key |-> None]]
  /\ sinks = [s \in SinkId |-> None]
  /\ used = 0
  /\ work = [w \in Worker |-> Idle]
  /\ conn \in [Conn -> [stage : {"new"}, band : Band]]
  /\ fedq = <<>>

-----------------------------------------------------------------------------
(* The registry under its lock.                                            *)

Registered(b) == {k \in Key : peer[b][k] # None}

Saturate(n) == IF n < UdpValidationPackets THEN n + 1 ELSE n

\* A sink is made: a fresh queue and the task that drains it.
MakeSink(s, b, k) ==
  /\ sinks[s] = None
  /\ sinks' = [sinks EXCEPT ![s] = [band |-> b, key |-> k, queue |-> <<>>, open |-> TRUE]]

\* The two refusals of `insert`.
BandCap(b) == b \notin bands /\ Cardinality(bands) >= MaxBands
PeerCap(b) == Cardinality(Registered(b)) >= MaxPeersPerBand

ValidAtOnce(k) == k \in Conn \/ UdpValidationPackets <= 1

\* Registry::insert: the entry, and its sink if it is eligible at once.
Insert(b, k) ==
  \E s \in SinkId \cup {None} :
    /\ ~BandCap(b) /\ ~PeerCap(b)
    /\ bands' = bands \cup {b}
    /\ peer' = [peer EXCEPT ![b][k] =
         [sink |-> s, first_seen |-> now, last_seen |-> now,
          eligible |-> ValidAtOnce(k), seen |-> 1, route |-> 0]]
    /\ IF ValidAtOnce(k) THEN s # None /\ MakeSink(s, b, k)
       ELSE s = None /\ UNCHANGED sinks

\* Fault: a live peer behind the same NAT address loses its id too.
SupersedeLive(P, k) ==
  IF k \in Udp /\ P[k] # None /\ P[k].route # 0 /\ P[k].eligible
  THEN [q \in Key |->
          IF q \in Udp \ {k} /\ P[q] # None /\ Ip[q] = Ip[k] /\ P[q].route = P[k].route
          THEN [P[q] EXCEPT !.route = 0] ELSE P[q]]
  ELSE P

\* NAT rebinding: P[k] takes its id from same-IP entries silent since before
\* P[k] appeared.
SupersedeRebound(P, k) ==
  IF k \in Udp /\ P[k] # None /\ P[k].route # 0 /\ P[k].eligible
  THEN [q \in Key |->
          IF /\ q \in Udp \ {k} /\ P[q] # None
             /\ Ip[q] = Ip[k] /\ P[q].route = P[k].route
             /\ P[q].last_seen < P[k].first_seen
          THEN [P[q] EXCEPT !.route = 0] ELSE P[q]]
  ELSE P

\* A refresh of an existing entry: last_seen and the packet count.
Refreshed(p) == [p EXCEPT !.last_seen = now, !.seen = Saturate(p.seen)]

\* Does this packet complete the validation of the entry?
Validates(p) == ~p.eligible /\ p.seen + 1 >= UdpValidationPackets

\* Fault: an address that completes its validation supersedes nobody.
RefreshNoSupersede(b, k) ==
  LET p == peer[b][k] IN
  /\ p # None
  /\ IF Validates(p)
     THEN \E s \in SinkId :
            /\ MakeSink(s, b, k)
            /\ peer' = [peer EXCEPT ![b][k] =
                 [Refreshed(p) EXCEPT !.eligible = TRUE, !.sink = s]]
     ELSE /\ peer' = [peer EXCEPT ![b][k] = Refreshed(p)]
          /\ UNCHANGED sinks
  /\ UNCHANGED bands

\* Fault: an address that completes its validation gets no sink.
RefreshNoSink(b, k) ==
  LET p == peer[b][k] IN
  /\ p # None
  /\ peer' = [peer EXCEPT ![b] = SupersedeRebound(
       [@ EXCEPT ![k] = [Refreshed(p) EXCEPT !.eligible = @ \/ Validates(p)]], k)]
  /\ UNCHANGED <<bands, sinks>>

\* Registry::observe_udp for an address that is already registered.
Refresh(b, k) ==
  LET p == peer[b][k] IN
  /\ p # None
  /\ IF Validates(p)
     THEN \E s \in SinkId :
            /\ MakeSink(s, b, k)
            /\ peer' = [peer EXCEPT ![b] = SupersedeRebound(
                 [@ EXCEPT ![k] = [Refreshed(p) EXCEPT !.eligible = TRUE, !.sink = s]], k)]
     ELSE /\ peer' = [peer EXCEPT ![b][k] = Refreshed(p)]
          /\ UNCHANGED sinks
  /\ UNCHANGED bands

Eligible(P, from) == {k \in Key \ {from} : P[k] # None /\ P[k].eligible}

\* Fault: addresses still in validation count as declarers.
DeclarersUnvalidated(P, from, id) == {k \in Key \ {from} : P[k] # None /\ P[k].route = id}

Declarers(P, from, id) == {k \in Eligible(P, from) : P[k].route = id}

\* Registry::targets: the sinks a frame reaches.
Targets(P, from, f) ==
  LET narrowed == Declarers(P, from, f.id)
      addressed == f.type = "addressed" /\ f.id # 0 /\ narrowed # {}
  IN {P[k].sink : k \in IF addressed THEN narrowed ELSE Eligible(P, from)}

-----------------------------------------------------------------------------
(* Ingress.                                                                *)

\* One datagram at the UDP loop: observe_udp, and on success the frame goes on
\* to `forward`.  A refused source changes nothing.
UdpReceive(f) ==
  LET b == f.band  k == f.from IN
  /\ work[UdpLoop].pc = "idle" /\ k \in Udp
  /\ \/ Refresh(b, k)
     \/ peer[b][k] = None /\ Insert(b, k)
  /\ work' = [work EXCEPT ![UdpLoop] = At("observed", f, {}, None)]
  /\ UNCHANGED <<now, used, conn, fedq>>

\* A connection peer registers, by its handshake (WebTransport, AF_UNIX) or with
\* its first frame (WebSocket); a refused one is closed.
Connect(c) ==
  LET b == conn[c].band IN
  /\ conn[c].stage = "new"
  /\ \/ /\ Insert(b, c)
        /\ conn' = [conn EXCEPT ![c].stage = "open"]
     \/ /\ BandCap(b) \/ PeerCap(b)
        /\ conn' = [conn EXCEPT ![c].stage = "closed"]
        /\ UNCHANGED <<bands, peer, sinks>>
  /\ UNCHANGED <<now, used, work, fedq>>

\* A frame on a connection, pinned to the connection's band: `touch`.  The
\* ingress tasks of a WebTransport session outlive its `disconnect` a little
\* ("closing"); touch then finds no entry and changes nothing.
ConnReceive(w, f) ==
  LET b == f.band  k == f.from IN
  /\ w \in Slots /\ work[w].pc = "idle"
  /\ k \in Conn /\ conn[k].stage \in {"open", "closing"} /\ conn[k].band = b
  /\ peer' = IF peer[b][k] = None THEN peer
             ELSE [peer EXCEPT ![b][k] = Refreshed(@)]
  /\ work' = [work EXCEPT ![w] = At("observed", f, {}, None)]
  /\ UNCHANGED <<now, bands, sinks, used, conn, fedq>>

\* Registry::inject_from_link: a federated frame; ROUTE never crosses a link.
InjectFromLink(w, f) ==
  /\ w \in Slots /\ work[w].pc = "idle"
  /\ f.from \in Link /\ f.type # "route"
  /\ f.band \in bands
  /\ work' = [work EXCEPT ![w] =
                 At("dispatch", f, Targets(peer[f.band], f.from, f), None)]
  /\ UNCHANGED <<now, bands, peer, sinks, used, conn, fedq>>

-----------------------------------------------------------------------------
(* Registry::forward.                                                      *)

\* The band is gone by the time `forward` takes the lock: the frame is dropped.
ForwardNoBand(w) ==
  /\ work[w].pc = "observed" /\ work[w].frame.band \notin bands
  /\ work' = [work EXCEPT ![w] = Idle]
  /\ UNCHANGED <<now, bands, peer, sinks, used, conn, fedq>>

\* A ROUTE frame sets or (id 0) withdraws its sender's route id; it is consumed.
ForwardRoute(w) ==
  LET f == work[w].frame
      P == peer[f.band]
      Declared == IF P[f.from] = None THEN P
                  ELSE [P EXCEPT ![f.from].route = f.id]
  IN /\ work[w].pc = "observed" /\ f.band \in bands /\ f.type = "route"
     /\ peer' = [peer EXCEPT ![f.band] = SupersedeRebound(Declared, f.from)]
     /\ work' = [work EXCEPT ![w] = Idle]
     /\ UNCHANGED <<now, bands, sinks, used, conn, fedq>>

\* Any other frame: collect the sinks under the lock.
ForwardCollect(w) ==
  LET f == work[w].frame IN
  /\ work[w].pc = "observed" /\ f.band \in bands /\ f.type # "route"
  /\ work' = [work EXCEPT ![w] =
                 At("dispatch", f, Targets(peer[f.band], f.from, f), None)]
  /\ UNCHANGED <<now, bands, peer, sinks, used, conn, fedq>>

Full(s) == Len(sinks[s].queue) >= QueueDepth

Enqueue(s, f) == sinks' = [sinks EXCEPT ![s].queue = Append(@, f)]

\* Fault: the send waits for room in the queue.
SendConnBlocking(w, s) ==
  LET f == work[w].frame  rest == work[w].todo \ {s} IN
  /\ work[w].pc = "dispatch" /\ s \in work[w].todo /\ sinks[s].key \in Conn
  /\ sinks[s].open => ~Full(s)
  /\ IF sinks[s].open THEN Enqueue(s, f) ELSE UNCHANGED sinks
  /\ work' = [work EXCEPT ![w] = At("dispatch", f, rest, None)]
  /\ UNCHANGED <<now, bands, peer, used, conn, fedq>>

\* Sink::try_send on a connection's queue: full or closed queues drop.
SendConn(w, s) ==
  LET f == work[w].frame  rest == work[w].todo \ {s} IN
  /\ work[w].pc = "dispatch" /\ s \in work[w].todo /\ sinks[s].key \in Conn
  /\ IF sinks[s].open /\ ~Full(s) THEN Enqueue(s, f) ELSE UNCHANGED sinks
  /\ work' = [work EXCEPT ![w] = At("dispatch", f, rest, None)]
  /\ UNCHANGED <<now, bands, peer, used, conn, fedq>>

Affordable(n) == UdpQueueBytes = 0 \/ used + n <= UdpQueueBytes

\* Sink::try_send on a UDP queue, first half: ByteBudget::try_reserve.
ReserveUdp(w, s) ==
  LET f == work[w].frame  rest == work[w].todo \ {s} IN
  /\ work[w].pc = "dispatch" /\ s \in work[w].todo /\ sinks[s].key \in Udp
  /\ IF Affordable(f.len)
     THEN /\ used' = used + f.len
          /\ work' = [work EXCEPT ![w] = At("reserved", f, rest, s)]
     ELSE /\ work' = [work EXCEPT ![w] = At("dispatch", f, rest, None)]
          /\ UNCHANGED used
  /\ UNCHANGED <<now, bands, peer, sinks, conn, fedq>>

\* Fault: no refund when the queue is full.
SendUdpNoRefund(w) ==
  LET f == work[w].frame  s == work[w].cur IN
  /\ work[w].pc = "reserved"
  /\ IF Full(s) THEN UNCHANGED sinks ELSE Enqueue(s, f)
  /\ work' = [work EXCEPT ![w] = At("dispatch", f, work[w].todo, None)]
  /\ UNCHANGED <<now, bands, peer, used, conn, fedq>>

\* Second half: queue the frame, or refund it when the queue is full.
SendUdp(w) ==
  LET f == work[w].frame  s == work[w].cur IN
  /\ work[w].pc = "reserved"
  /\ IF Full(s)
     THEN used' = used - f.len /\ UNCHANGED sinks
     ELSE Enqueue(s, f) /\ UNCHANGED used
  /\ work' = [work EXCEPT ![w] = At("dispatch", f, work[w].todo, None)]
  /\ UNCHANGED <<now, bands, peer, conn, fedq>>

\* Fault: a frame that came over a link is offered to the links again.
ForwardDoneAll(w) ==
  /\ work[w].pc = "dispatch" /\ work[w].todo = {}
  /\ fedq' = IF Len(fedq) < FedDepth THEN Append(fedq, work[w].frame) ELSE fedq
  /\ work' = [work EXCEPT ![w] = Idle]
  /\ UNCHANGED <<now, bands, peer, sinks, used, conn>>

\* All sinks served: a locally sourced frame is also offered to the links.
ForwardDone(w) ==
  /\ work[w].pc = "dispatch" /\ work[w].todo = {}
  /\ fedq' = IF work[w].frame.from \in Key /\ Len(fedq) < FedDepth
             THEN Append(fedq, work[w].frame) ELSE fedq
  /\ work' = [work EXCEPT ![w] = Idle]
  /\ UNCHANGED <<now, bands, peer, sinks, used, conn>>

-----------------------------------------------------------------------------
(* Egress, departure and time.                                             *)

\* Fault: the writer of an evicted peer does not refund what it still sends.
WriteEvicted(s) ==
  LET q == sinks[s] IN
  /\ q # None /\ q.queue # <<>>
  /\ sinks' = [sinks EXCEPT ![s].queue = Tail(@)]
  /\ used' = IF q.key \in Udp /\ peer[q.band][q.key] # None
             THEN used - Head(q.queue).len ELSE used
  /\ UNCHANGED <<now, bands, peer, work, conn, fedq>>

\* The writer of a sink takes the head of its queue; a UDP writer refunds it.
Write(s) ==
  /\ sinks[s] # None /\ sinks[s].queue # <<>>
  /\ sinks' = [sinks EXCEPT ![s].queue = Tail(@)]
  /\ used' = IF sinks[s].key \in Udp THEN used - Head(sinks[s].queue).len ELSE used
  /\ UNCHANGED <<now, bands, peer, work, conn, fedq>>

\* The writer of a connection ends early, on a send error or because its task
\* is aborted: its queue is dropped, and later sends find it closed.
WriterFails(s) ==
  /\ sinks[s] # None /\ sinks[s].open /\ sinks[s].key \in Conn
  /\ sinks' = [sinks EXCEPT ![s].open = FALSE, ![s].queue = <<>>]
  /\ UNCHANGED <<now, bands, peer, used, work, conn, fedq>>

\* Who can still send to s: the entries and the tasks that hold a clone.
HasSender(s) ==
  \/ \E b \in Band, k \in Key : peer[b][k] # None /\ peer[b][k].sink = s
  \/ \E w \in Worker : s \in work[w].todo \cup {work[w].cur}

\* A writer ends once every sender is gone and its queue is drained.
WriterEnds(s) ==
  /\ sinks[s] # None /\ ~HasSender(s) /\ sinks[s].queue = <<>>
  /\ sinks' = [sinks EXCEPT ![s] = None]
  /\ UNCHANGED <<now, bands, peer, used, work, conn, fedq>>

\* The federation task takes one frame for its links.
FedDrain ==
  /\ fedq # <<>>
  /\ fedq' = Tail(fedq)
  /\ UNCHANGED <<now, bands, peer, sinks, used, work, conn>>

\* Fault: the band of the last peer is not reaped.
DisconnectKeepsBand(c) ==
  /\ conn[c].stage = "open"
  /\ peer' = [peer EXCEPT ![conn[c].band][c] = None]
  /\ conn' = [conn EXCEPT ![c].stage = "closing"]
  /\ UNCHANGED <<now, bands, sinks, used, work, fedq>>

\* Registry::disconnect, called when the connection closes.
Disconnect(c) ==
  LET b == conn[c].band IN
  /\ conn[c].stage = "open"
  /\ peer' = [peer EXCEPT ![b][c] = None]
  /\ bands' = IF Registered(b) \ {c} = {} THEN bands \ {b} ELSE bands
  /\ conn' = [conn EXCEPT ![c].stage = "closing"]
  /\ UNCHANGED <<now, sinks, used, work, fedq>>

\* The ingress tasks of a disconnected session are aborted at an await point.
AbortIngress(c) ==
  /\ conn[c].stage = "closing"
  /\ conn' = [conn EXCEPT ![c].stage = "closed"]
  /\ UNCHANGED <<now, bands, peer, sinks, used, work, fedq>>

\* Fault: connection peers are pruned like UDP peers.
ExpiredAny(b) ==
  {k \in Key : peer[b][k] # None /\ peer[b][k].last_seen + Ttl < now}

Expired(b) ==
  {k \in Udp : peer[b][k] # None /\ peer[b][k].last_seen + Ttl < now}

\* Registry::prune, from the hub's timer.
Prune ==
  /\ \E b \in bands : Expired(b) # {}
  /\ peer' = [b \in Band |-> [k \in Key |->
                IF b \in bands /\ k \in Expired(b) THEN None ELSE peer[b][k]]]
  /\ bands' = {b \in bands : Registered(b) \ Expired(b) # {}}
  /\ UNCHANGED <<now, sinks, used, work, conn, fedq>>

Tick ==
  /\ now < MaxTime
  /\ now' = now + 1
  /\ UNCHANGED <<bands, peer, sinks, used, work, conn, fedq>>

\* One step of the task w inside `forward`.
TaskStep(w) ==
  \/ ForwardNoBand(w) \/ ForwardRoute(w) \/ ForwardCollect(w)
  \/ \E s \in work[w].todo : SendConn(w, s) \/ ReserveUdp(w, s)
  \/ SendUdp(w) \/ ForwardDone(w)

Next ==
  \/ \E f \in Frame : UdpReceive(f)
  \/ \E c \in Conn : Connect(c) \/ Disconnect(c) \/ AbortIngress(c)
  \/ \E w \in Slots, f \in Frame : ConnReceive(w, f) \/ InjectFromLink(w, f)
  \/ \E w \in Worker : TaskStep(w)
  \/ \E s \in SinkId : Write(s) \/ WriterFails(s) \/ WriterEnds(s)
  \/ FedDrain \/ Prune \/ Tick

Spec == Init /\ [][Next]_vars

\* tokio runs every task that is ready, and no step of `forward` awaits.
TaskFairness == \A w \in Worker : WF_vars(TaskStep(w))

\* Each UDP queue has a writer task of its own.
WriterFairness ==
  \A s \in SinkId : WF_vars(sinks[s] # None /\ sinks[s].key \in Udp /\ Write(s))

\* Only the tasks are fair: writers may be stuck forever on a slow peer.
TaskSpec == Spec /\ TaskFairness

-----------------------------------------------------------------------------
(* Properties.                                                             *)

\* D1/D2: the caps hold through every admission, eviction and disconnect, and
\* a band is held exactly while somebody is in it: `insert`, `disconnect` and
\* `prune` never leave an empty band behind to eat into max_bands.
CapsHold ==
  /\ Cardinality(bands) <= MaxBands
  /\ \A b \in Band : Cardinality(Registered(b)) <= MaxPeersPerBand
  /\ bands = {b \in Band : Registered(b) # {}}

\* The bytes of the frames in a queue, those charged to a sink, and those a task
\* has charged but not yet queued.
QueuedBytes(q) == SumFunction([i \in DOMAIN q |-> q[i].len])
SinkBytes(q) == IF q # None /\ q.key \in Udp THEN QueuedBytes(q.queue) ELSE 0
ReservedBytes(t) == IF t.pc = "reserved" THEN t.frame.len ELSE 0

\* D7: the byte budget counts exactly the bytes that sit in UDP queues plus the
\* ones reserved by a send in progress, and never exceeds its limit, through
\* refunds, evictions and the late drains of evicted peers.
BudgetExact ==
  /\ used = SumFunction([s \in SinkId |-> SinkBytes(sinks[s])])
            + SumFunction([w \in Worker |-> ReservedBytes(work[w])])
  /\ UdpQueueBytes # 0 => used <= UdpQueueBytes

\* The sink q has a writer and was made for the entry of k in band b.
MadeFor(q, b, k) == q # None /\ q.band = b /\ q.key = k

\* The comment on Peer.sink, "`Some` iff `eligible`", and that the sink is the
\* entry's own: no admission, validation or re-admission hands an entry a queue
\* that was made for somebody else.
SinkIffEligible ==
  \A b \in Band : \A k \in Registered(b) :
    /\ peer[b][k].eligible <=> peer[b][k].sink # None
    /\ peer[b][k].sink # None => MadeFor(sinks[peer[b][k].sink], b, k)

\* B1/B2/K1: whatever happened between collecting the sinks and sending, a
\* queue only ever holds frames of its own band, none of its own peer's, and
\* no ROUTE frame; and only locally sourced frames are offered to the links
\* (the one-hop rule of inject_from_link).
RelayIsolation ==
  /\ \A s \in SinkId : sinks[s] # None => \A i \in 1..Len(sinks[s].queue) :
       LET f == sinks[s].queue[i] IN
       f.band = sinks[s].band /\ f.from # sinks[s].key /\ f.type # "route"
  /\ \A i \in 1..Len(fedq) : fedq[i].from \in Key /\ fedq[i].type # "route"

\* K12: after a NAT rebind the old mapping does not keep attracting the id.  If
\* an eligible UDP peer holds an id, no other entry of its IP that holds the
\* same id has been silent since before that peer appeared; in whatever order
\* ROUTE frames, validation, evictions and refreshes come.
NoStaleRebind ==
  \A b \in Band : \A p, q \in Registered(b) \cap Udp :
    ( /\ p # q /\ Ip[p] = Ip[q]
      /\ peer[b][p].eligible /\ peer[b][p].route # 0
      /\ peer[b][q].route = peer[b][p].route )
    => peer[b][q].last_seen >= peer[b][p].first_seen

\* The other half of K12: a peer loses its id only by its own ROUTE frame, by
\* eviction, or to a younger same-IP peer with the same id that appeared after
\* the loser was last heard; a live peer behind the same NAT keeps it.
OnlyRebindStripsId ==
  [][\A b \in Band : \A k \in Registered(b) :
       ( /\ peer[b][k].route # 0 /\ peer'[b][k] # None
         /\ peer'[b][k].route # peer[b][k].route )
       => \/ \E w \in Worker : /\ work[w].pc = "observed" /\ work'[w].pc = "idle"
                               /\ work[w].frame.from = k /\ work[w].frame.type = "route"
          \/ \E p \in Registered(b) \cap Udp :
               /\ k \in Udp /\ Ip[p] = Ip[k]
               /\ peer'[b][p].eligible /\ peer'[b][p].route = peer[b][k].route
               /\ peer'[b][p].first_seen > peer[b][k].last_seen]_vars

\* "A declaration can never send a frame nowhere": as long as anybody else in
\* the band may receive, every frame has a sink to go to, whoever declared what
\* and however far its validation got.
NeverBlackHoled ==
  \A b \in bands, from \in Key \cup Link, id \in RouteId \cup {0},
     t \in {"addressed", "plain"} :
    LET f == [band |-> b, from |-> from, type |-> t, id |-> id]
        sent == Targets(peer[b], from, f)
    IN Eligible(peer[b], from) # {} => sent # {} /\ None \notin sent

\* C3: an open connection stays registered in its band, whatever its idle time,
\* and a closed one is never re-registered by a late frame of its tasks.
ConnRegisteredWhileOpen ==
  \A b \in Band, c \in Conn :
    peer[b][c] # None <=> (conn[c].stage = "open" /\ conn[c].band = b)

-----------------------------------------------------------------------------
(* The inductive invariant behind the safety properties above.             *)

\* What a task's local state can be at each stage of `forward`: the UDP loop
\* and nobody else handles UDP frames, and a ROUTE frame never gets as far as a send.
WorkShape ==
  \A w \in Worker :
    /\ work[w].pc = "idle" <=> work[w].frame = None
    /\ work[w].pc = "reserved" <=> work[w].cur # None
    /\ work[w].pc \in {"idle", "observed"} => work[w].todo = {}
    /\ work[w].pc = "observed" => work[w].frame.from \in Key
    /\ work[w].pc \in {"dispatch", "reserved"} => work[w].frame.type # "route"
    /\ work[w].pc # "idle" => (work[w].frame.from \in Udp <=> w = UdpLoop)

\* The queues a task has collected are the ones it collected: no name of a queue
\* is used again while a task holds it.
CollectedSinksOwn ==
  \A w \in Worker : \A s \in work[w].todo \cup ({work[w].cur} \ {None}) :
    /\ sinks[s] # None
    /\ sinks[s].band = work[w].frame.band /\ sinks[s].key # work[w].frame.from

\* No entry has a timestamp from the future.
TimeSane ==
  \A b \in Band, k \in Key : peer[b][k] # None =>
    peer[b][k].first_seen <= now /\ peer[b][k].last_seen <= now

\* Between observe_udp and forward the sender, if still registered, was heard
\* after every UDP entry of its band appeared: the UDP loop is a single task, so
\* nobody else can be admitted in between.
UdpFresh ==
  LET f == work[UdpLoop].frame IN
  work[UdpLoop].pc = "observed" /\ peer[f.band][f.from] # None =>
    \A p \in Udp : peer[f.band][p] # None =>
      peer[f.band][p].first_seen <= peer[f.band][f.from].last_seen

IInv ==
  /\ TypeOK /\ WorkShape /\ TimeSane /\ UdpFresh
  /\ SinkIffEligible /\ CollectedSinksOwn /\ RelayIsolation
  /\ NoStaleRebind /\ ConnRegisteredWhileOpen

-----------------------------------------------------------------------------
(* Liveness.                                                               *)

\* No step of `forward` blocks: a task that took a frame comes back for the
\* next one even if every writer is stuck and every queue is full.
ForwardNeverBlocks ==
  \A w \in Worker : work[w].pc # "idle" ~> work[w].pc = "idle"

\* An exhausted byte budget is always relieved while the UDP writers get to run:
\* no path through send, refund, eviction and drain leaks a charge.
BudgetRelieved == WriterFairness => (used >= UdpQueueBytes ~> used < UdpQueueBytes)
=============================================================================
