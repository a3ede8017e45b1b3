--------------------------- MODULE RegistryProofs ---------------------------
(***************************************************************************)
(* Proofs about Registry for every set of bands, addresses, connections    *)
(* and tasks, every limit and every interleaving.                          *)
(***************************************************************************)
EXTENDS Registry, SetLemmas

PeerMap == [Key -> Peer \cup {None}]

\* `supersede_rebound` only ever clears route ids: the entries it keeps, and
\* every other field of them, are untouched, and the entry it works for keeps
\* its own id.
LEMMA SupersedeClearsRoutes ==
  ASSUME NEW P \in PeerMap, NEW k \in Key
  PROVE  LET S == SupersedeRebound(P, k) IN
         /\ S \in PeerMap
         /\ \A q \in Key : S[q] = None <=> P[q] = None
         /\ \A q \in Key : P[q] # None =>
              /\ S[q].sink = P[q].sink /\ S[q].eligible = P[q].eligible
              /\ S[q].seen = P[q].seen
              /\ S[q].first_seen = P[q].first_seen /\ S[q].last_seen = P[q].last_seen
              /\ S[q].route \in {0, P[q].route}
         /\ S[k] = P[k]
         /\ \A q \in Udp \ {k} :
              ( /\ k \in Udp /\ P[k] # None /\ P[k].eligible /\ P[k].route # 0
                /\ P[q] # None /\ Ip[q] = Ip[k] /\ P[q].route = P[k].route
                /\ P[q].last_seen < P[k].first_seen ) => S[q].route = 0
<1> DEFINE S == SupersedeRebound(P, k)
           Hit(q) == /\ q \in Udp \ {k} /\ P[q] # None
                     /\ Ip[q] = Ip[k] /\ P[q].route = P[k].route
                     /\ P[q].last_seen < P[k].first_seen
<1>1. \A q \in Key : P[q] # None => P[q] \in Peer
  BY DEF PeerMap
<1>2. \A q \in Key : P[q] # None =>
        /\ [P[q] EXCEPT !.route = 0] \in Peer
        /\ [P[q] EXCEPT !.route = 0] # None
        /\ [P[q] EXCEPT !.route = 0].sink = P[q].sink
        /\ [P[q] EXCEPT !.route = 0].eligible = P[q].eligible
        /\ [P[q] EXCEPT !.route = 0].seen = P[q].seen
        /\ [P[q] EXCEPT !.route = 0].first_seen = P[q].first_seen
        /\ [P[q] EXCEPT !.route = 0].last_seen = P[q].last_seen
        /\ [P[q] EXCEPT !.route = 0].route = 0
  BY <1>1, NoneFresh DEF Peer
<1>3. CASE k \in Udp /\ P[k] # None /\ P[k].route # 0 /\ P[k].eligible
  <2>1. S = [q \in Key |-> IF Hit(q) THEN [P[q] EXCEPT !.route = 0] ELSE P[q]]
    BY <1>3 DEF SupersedeRebound
  <2> HIDE DEF S
  <2>2. \A q \in Key : S[q] = IF Hit(q) THEN [P[q] EXCEPT !.route = 0] ELSE P[q]
    BY <2>1
  <2>3. S \in PeerMap
    <3>1. \A q \in Key : (IF Hit(q) THEN [P[q] EXCEPT !.route = 0] ELSE P[q])
                            \in Peer \cup {None}
      BY <1>2 DEF PeerMap
    <3> QED BY <2>1, <3>1 DEF PeerMap
  <2>4. \A q \in Udp \ {k} : q \in Key
    BY DEF Key
  <2>5. ~Hit(k)
    OBVIOUS
  <2> QED BY <1>1, <1>2, <2>2, <2>3, <2>4, <2>5, ZenonT(60) DEF S
<1>4. CASE ~(k \in Udp /\ P[k] # None /\ P[k].route # 0 /\ P[k].eligible)
  BY <1>4 DEF SupersedeRebound
<1> QED BY <1>3, <1>4

\* What the type invariant says of a single entry, queue or task.
LEMMA Typed ==
  ASSUME TypeOK
  PROVE  /\ \A b \in Band : peer[b] \in PeerMap
         /\ \A b \in Band, k \in Key : peer[b][k] # None => peer[b][k] \in Peer
         /\ \A s \in SinkId : sinks[s] # None => sinks[s] \in Sink
         /\ \A w \in Worker : work[w] \in Work
BY DEF TypeOK, PeerMap

\* The clock only moves forward, so no timestamp gets into the future.
LEMMA TickStep == ASSUME IInv, Tick PROVE IInv'
<1> USE DEF IInv, Tick
<1>1. TypeOK'
  BY DEF TypeOK
<1>2. TimeSane'
  BY Typed DEF TimeSane, Peer, TypeOK
<1>3. WorkShape' /\ UdpFresh' /\ SinkIffEligible' /\ CollectedSinksOwn' /\ RelayIsolation'
      /\ NoStaleRebind' /\ ConnRegisteredWhileOpen'
  BY DEF WorkShape, UdpFresh, SinkIffEligible, MadeFor, Registered, CollectedSinksOwn,
         RelayIsolation, NoStaleRebind, ConnRegisteredWhileOpen
<1> QED BY <1>1, <1>2, <1>3

\* The federation task only shortens its queue.
LEMMA FedDrainStep == ASSUME IInv, FedDrain PROVE IInv'
<1> USE DEF IInv, FedDrain
<1>1. TypeOK'
  BY DEF TypeOK
<1>2. RelayIsolation'
  <2>1. /\ fedq \in Seq(Frame) /\ fedq # <<>> /\ fedq' = Tail(fedq)
        /\ sinks' = sinks
    BY DEF TypeOK
  <2>2. Len(fedq') = Len(fedq) - 1 /\ \A i \in 1..Len(fedq') : fedq'[i] = fedq[i + 1]
    BY <2>1
  <2>3. \A i \in 1..Len(fedq') : i + 1 \in 1..Len(fedq)
    BY <2>1, <2>2
  <2> QED BY <2>1, <2>2, <2>3 DEF RelayIsolation
<1>3. WorkShape' /\ UdpFresh' /\ SinkIffEligible' /\ CollectedSinksOwn' /\ TimeSane'
      /\ NoStaleRebind' /\ ConnRegisteredWhileOpen'
  BY DEF WorkShape, UdpFresh, SinkIffEligible, MadeFor, Registered, CollectedSinksOwn,
         TimeSane, NoStaleRebind, ConnRegisteredWhileOpen
<1> QED BY <1>1, <1>2, <1>3

\* Aborting the ingress tasks of a connection that is already unregistered.
LEMMA AbortIngressStep == ASSUME IInv, NEW c \in Conn, AbortIngress(c) PROVE IInv'
<1> USE DEF IInv, AbortIngress
<1>1. TypeOK'
  BY DEF TypeOK
<1>2. ConnRegisteredWhileOpen'
  BY DEF ConnRegisteredWhileOpen, TypeOK
<1>3. WorkShape' /\ UdpFresh' /\ SinkIffEligible' /\ CollectedSinksOwn' /\ TimeSane'
      /\ NoStaleRebind' /\ RelayIsolation'
  BY DEF WorkShape, UdpFresh, SinkIffEligible, MadeFor, Registered, CollectedSinksOwn,
         TimeSane, NoStaleRebind, RelayIsolation
<1> QED BY <1>1, <1>2, <1>3

\* `forward` without a band drops the frame and nothing else.
LEMMA ForwardNoBandStep == ASSUME IInv, NEW w \in Worker, ForwardNoBand(w) PROVE IInv'
<1> USE DEF IInv, ForwardNoBand
<1>1. TypeOK' /\ WorkShape'
  BY DEF TypeOK, WorkShape, Work, Idle, At
<1>2. UdpFresh' /\ CollectedSinksOwn'
  BY DEF UdpFresh, CollectedSinksOwn, TypeOK, WorkShape, Idle, At, Worker
<1>3. SinkIffEligible' /\ TimeSane' /\ NoStaleRebind' /\ RelayIsolation'
      /\ ConnRegisteredWhileOpen'
  BY DEF SinkIffEligible, MadeFor, Registered, TimeSane, NoStaleRebind, RelayIsolation,
         ConnRegisteredWhileOpen
<1> QED BY <1>1, <1>2, <1>3

\* The sinks that `targets` returns are real ones of the frame's band, and none
\* is the sender's own.
LEMMA TargetsOwned ==
  ASSUME TypeOK, SinkIffEligible, NEW b \in Band, NEW from, NEW f
  PROVE  \A s \in Targets(peer[b], from, f) :
           /\ s \in SinkId /\ sinks[s] # None
           /\ sinks[s].band = b /\ sinks[s].key # from
<1> SUFFICES ASSUME NEW s \in Targets(peer[b], from, f)
             PROVE  /\ s \in SinkId /\ sinks[s] # None
                    /\ sinks[s].band = b /\ sinks[s].key # from
  OBVIOUS
<1>1. PICK k \in Key : /\ k # from /\ peer[b][k] # None /\ peer[b][k].eligible
                       /\ s = peer[b][k].sink
  BY DEF Targets, Declarers, Eligible
<1>2. peer[b][k].sink # None /\ MadeFor(sinks[s], b, k)
  BY <1>1 DEF SinkIffEligible, Registered
<1>3. s \in SinkId
  BY <1>1, <1>2, Typed DEF Peer
<1> QED BY <1>1, <1>2, <1>3 DEF MadeFor

\* `forward` collects sinks under the lock: they are the ones TargetsOwned speaks of.
LEMMA ForwardCollectStep == ASSUME IInv, NEW w \in Worker, ForwardCollect(w) PROVE IInv'
<1> USE DEF IInv
<1> DEFINE f == work[w].frame
           T == Targets(peer[f.band], f.from, f)
<1>1. /\ work[w] \in Work /\ f \in Frame /\ f.band \in Band /\ f.type # "route"
      /\ work[w].pc = "observed" /\ work[w].cur = None
      /\ f.from \in Udp <=> w = UdpLoop
      /\ UNCHANGED <<now, bands, peer, sinks, used, conn, fedq>>
  BY Typed DEF WorkShape, Work, Frame, ForwardCollect
<1>2. \A s \in T : /\ s \in SinkId /\ sinks[s] # None
                   /\ sinks[s].band = f.band /\ sinks[s].key # f.from
  BY <1>1, TargetsOwned
<1>3. work' = [work EXCEPT ![w] = At("dispatch", f, T, None)]
  BY DEF ForwardCollect
<1> HIDE DEF T
<1>4. TypeOK' /\ WorkShape'
  BY <1>1, <1>2, <1>3, NoneFresh DEF TypeOK, WorkShape, Work, At
<1>5. CollectedSinksOwn'
  BY <1>1, <1>2, <1>3 DEF CollectedSinksOwn, TypeOK, At
<1>6. UdpFresh'
  BY <1>1, <1>3 DEF UdpFresh, TypeOK, Worker, At
<1>7. SinkIffEligible' /\ TimeSane' /\ NoStaleRebind' /\ RelayIsolation'
      /\ ConnRegisteredWhileOpen'
  BY <1>1 DEF SinkIffEligible, MadeFor, Registered, TimeSane, NoStaleRebind, RelayIsolation,
         ConnRegisteredWhileOpen
<1> QED BY <1>4, <1>5, <1>6, <1>7

\* A federated frame is dispatched to sinks of its band, and was never a ROUTE.
LEMMA InjectFromLinkStep ==
  ASSUME IInv, NEW w \in Slots, NEW f \in Frame, InjectFromLink(w, f) PROVE IInv'
<1> USE DEF IInv, InjectFromLink
<1> DEFINE T == Targets(peer[f.band], f.from, f)
<1>1. /\ w \in Worker /\ w # UdpLoop /\ f.band \in Band /\ f.type # "route"
      /\ f.from \notin Udp
      /\ work' = [work EXCEPT ![w] = At("dispatch", f, T, None)]
  BY UdpLoopAlone, KeysDisjoint DEF Worker, Frame, Key
<1>2. \A s \in T : /\ s \in SinkId /\ sinks[s] # None
                   /\ sinks[s].band = f.band /\ sinks[s].key # f.from
  BY <1>1, TargetsOwned
<1> HIDE DEF T
<1>3. TypeOK' /\ WorkShape'
  BY <1>1, <1>2, NoneFresh DEF TypeOK, WorkShape, Work, At
<1>4. CollectedSinksOwn'
  BY <1>1, <1>2 DEF CollectedSinksOwn, TypeOK, At
<1>5. UdpFresh'
  BY <1>1 DEF UdpFresh, TypeOK, Worker, At
<1>6. SinkIffEligible' /\ TimeSane' /\ NoStaleRebind' /\ RelayIsolation'
      /\ ConnRegisteredWhileOpen'
  BY DEF SinkIffEligible, MadeFor, Registered, TimeSane, NoStaleRebind, RelayIsolation,
         ConnRegisteredWhileOpen
<1> QED BY <1>3, <1>4, <1>5, <1>6

\* Appending a frame of its band, not its own and no ROUTE, keeps a queue clean.
LEMMA EnqueueClean ==
  ASSUME IInv, NEW s \in SinkId, NEW f \in Frame, sinks[s] # None,
         f.band = sinks[s].band, f.from # sinks[s].key, f.type # "route",
         Enqueue(s, f)
  PROVE  /\ sinks' \in [SinkId -> Sink \cup {None}]
         /\ \A t \in SinkId : sinks'[t] = None <=> sinks[t] = None
         /\ \A t \in SinkId : sinks[t] # None =>
              sinks'[t].band = sinks[t].band /\ sinks'[t].key = sinks[t].key
         /\ \A t \in SinkId : sinks'[t] # None =>
              \A i \in 1..Len(sinks'[t].queue) :
                LET g == sinks'[t].queue[i] IN
                g.band = sinks'[t].band /\ g.from # sinks'[t].key /\ g.type # "route"
<1> DEFINE n == [sinks[s] EXCEPT !.queue = Append(@, f)]
<1>1. sinks \in [SinkId -> Sink \cup {None}] /\ sinks[s] \in Sink
  BY DEF IInv, TypeOK
<1>2. /\ n \in Sink /\ n # None /\ n.band = sinks[s].band /\ n.key = sinks[s].key
      /\ n.queue = Append(sinks[s].queue, f)
  <2>1. n.queue = Append(sinks[s].queue, f) /\ Append(sinks[s].queue, f) \in Seq(Frame)
    BY <1>1 DEF Sink
  <2>2. n.band = sinks[s].band /\ n.key = sinks[s].key
    BY <1>1 DEF Sink
  <2>3. n \in Sink
    BY <1>1, <2>1 DEF Sink
  <2> QED BY <2>1, <2>2, <2>3, NoneFresh
<1>3. sinks' = [sinks EXCEPT ![s] = n]
  BY <1>1 DEF Enqueue
<1>4. \A i \in 1..Len(n.queue) :
        n.queue[i].band = n.band /\ n.queue[i].from # n.key /\ n.queue[i].type # "route"
  <2>1. sinks[s].queue \in Seq(Frame)
    BY <1>1 DEF Sink
  <2>2. \A i \in 1..Len(n.queue) :
          n.queue[i] = f \/ (i \in 1..Len(sinks[s].queue) /\ n.queue[i] = sinks[s].queue[i])
    BY <1>2, <2>1
  <2> QED BY <1>2, <2>2 DEF IInv, RelayIsolation
<1> HIDE DEF n
<1> QED BY <1>1, <1>2, <1>3, <1>4 DEF IInv, RelayIsolation

\* `try_send` on a connection queue: the sink is still the one collected.
LEMMA SendConnStep ==
  ASSUME IInv, NEW w \in Worker, NEW s \in work[w].todo, SendConn(w, s) PROVE IInv'
<1> USE DEF IInv
<1> DEFINE f == work[w].frame
<1>1. /\ work[w] \in Work /\ f \in Frame /\ f.type # "route" /\ s \in SinkId
      /\ work[w].pc = "dispatch" /\ work[w].cur = None
      /\ sinks[s] # None /\ sinks[s].band = f.band /\ sinks[s].key # f.from
      /\ UNCHANGED <<now, bands, peer, used, conn, fedq>>
  BY Typed DEF WorkShape, Work, SendConn, CollectedSinksOwn
<1>2. work' = [work EXCEPT ![w] = At("dispatch", f, work[w].todo \ {s}, None)]
  BY DEF SendConn
<1>3. /\ sinks' \in [SinkId -> Sink \cup {None}]
      /\ \A t \in SinkId : sinks'[t] = None <=> sinks[t] = None
      /\ \A t \in SinkId : sinks[t] # None =>
           sinks'[t].band = sinks[t].band /\ sinks'[t].key = sinks[t].key
      /\ \A t \in SinkId : sinks'[t] # None =>
           \A i \in 1..Len(sinks'[t].queue) :
             LET g == sinks'[t].queue[i] IN
             g.band = sinks'[t].band /\ g.from # sinks'[t].key /\ g.type # "route"
  <2>1. CASE Enqueue(s, f)
    BY <1>1, <2>1, EnqueueClean
  <2>2. CASE UNCHANGED sinks
    BY <2>2 DEF TypeOK, RelayIsolation
  <2> QED BY <2>1, <2>2 DEF SendConn
<1>4. TypeOK' /\ WorkShape'
  BY <1>1, <1>2, <1>3 DEF TypeOK, WorkShape, Work, At
<1>5. RelayIsolation'
  BY <1>1, <1>3 DEF RelayIsolation
<1>6. SinkIffEligible'
  BY <1>1, <1>3, Typed DEF SinkIffEligible, MadeFor, Registered, Peer
<1>7. CollectedSinksOwn'
  BY <1>1, <1>2, <1>3, Typed DEF CollectedSinksOwn, TypeOK, Work, At
<1>8. UdpFresh'
  BY <1>1, <1>2 DEF UdpFresh, TypeOK, Worker, At
<1>9. TimeSane' /\ NoStaleRebind' /\ ConnRegisteredWhileOpen'
  BY <1>1 DEF Registered, TimeSane, NoStaleRebind, ConnRegisteredWhileOpen
<1> QED BY <1>4, <1>5, <1>6, <1>7, <1>8, <1>9

\* The first half of a UDP send only charges the budget.
LEMMA ReserveUdpStep ==
  ASSUME IInv, NEW w \in Worker, NEW s \in work[w].todo, ReserveUdp(w, s) PROVE IInv'
<1> USE DEF IInv
<1> DEFINE f == work[w].frame
<1>1. /\ work[w] \in Work /\ f \in Frame /\ f.type # "route" /\ s \in SinkId /\ f.len \in Nat
      /\ work[w].pc = "dispatch" /\ work[w].cur = None
      /\ f.from \in Udp <=> w = UdpLoop
      /\ UNCHANGED <<now, bands, peer, sinks, conn, fedq>>
  BY Typed, LensPositive DEF WorkShape, Work, Frame, ReserveUdp
<1>2. PICK pc \in {"dispatch", "reserved"}, cur \in {None, s} :
        /\ pc = "reserved" <=> cur # None
        /\ work' = [work EXCEPT ![w] = At(pc, f, work[w].todo \ {s}, cur)]
  BY <1>1, NoneFresh DEF ReserveUdp
<1>3. TypeOK' /\ WorkShape'
  <2>1. used' \in Int
    BY <1>1 DEF ReserveUdp, TypeOK
  <2> QED BY <1>1, <1>2, <2>1, NoneFresh DEF TypeOK, WorkShape, Work, At
<1>4. CollectedSinksOwn'
  BY <1>1, <1>2 DEF CollectedSinksOwn, TypeOK, At
<1>5. UdpFresh'
  BY <1>1, <1>2 DEF UdpFresh, TypeOK, Worker, At
<1>6. SinkIffEligible' /\ TimeSane' /\ NoStaleRebind' /\ RelayIsolation'
      /\ ConnRegisteredWhileOpen'
  BY <1>1 DEF SinkIffEligible, MadeFor, Registered, TimeSane, NoStaleRebind, RelayIsolation,
         ConnRegisteredWhileOpen
<1> QED BY <1>3, <1>4, <1>5, <1>6

\* The second half of a UDP send: the frame joins a queue of its band, or is refunded.
LEMMA SendUdpStep == ASSUME IInv, NEW w \in Worker, SendUdp(w) PROVE IInv'
<1> USE DEF IInv
<1> DEFINE f == work[w].frame
           s == work[w].cur
<1>1. /\ work[w] \in Work /\ f \in Frame /\ f.type # "route" /\ s \in SinkId /\ f.len \in Nat
      /\ work[w].pc = "reserved"
      /\ f.from \in Udp <=> w = UdpLoop
      /\ sinks[s] # None /\ sinks[s].band = f.band /\ sinks[s].key # f.from
      /\ UNCHANGED <<now, bands, peer, conn, fedq>>
  BY Typed, LensPositive DEF WorkShape, Work, Frame, SendUdp, CollectedSinksOwn
<1>2. work' = [work EXCEPT ![w] = At("dispatch", f, work[w].todo, None)]
  BY DEF SendUdp
<1>3. /\ sinks' \in [SinkId -> Sink \cup {None}]
      /\ \A t \in SinkId : sinks'[t] = None <=> sinks[t] = None
      /\ \A t \in SinkId : sinks[t] # None =>
           sinks'[t].band = sinks[t].band /\ sinks'[t].key = sinks[t].key
      /\ \A t \in SinkId : sinks'[t] # None =>
           \A i \in 1..Len(sinks'[t].queue) :
             LET g == sinks'[t].queue[i] IN
             g.band = sinks'[t].band /\ g.from # sinks'[t].key /\ g.type # "route"
  <2>1. CASE Enqueue(s, f)
    BY <1>1, <2>1, EnqueueClean
  <2>2. CASE UNCHANGED sinks
    BY <2>2 DEF TypeOK, RelayIsolation
  <2> QED BY <2>1, <2>2 DEF SendUdp
<1>4. TypeOK' /\ WorkShape'
  <2>1. used' \in Int
    BY <1>1 DEF SendUdp, TypeOK
  <2> QED BY <1>1, <1>2, <1>3, <2>1 DEF TypeOK, WorkShape, Work, At
<1>5. RelayIsolation'
  BY <1>1, <1>3 DEF RelayIsolation
<1>6. SinkIffEligible'
  BY <1>1, <1>3, Typed DEF SinkIffEligible, MadeFor, Registered, Peer
<1>7. CollectedSinksOwn'
  BY <1>1, <1>2, <1>3, Typed DEF CollectedSinksOwn, TypeOK, Work, At
<1>8. UdpFresh'
  BY <1>1, <1>2 DEF UdpFresh, TypeOK, Worker, At
<1>9. TimeSane' /\ NoStaleRebind' /\ ConnRegisteredWhileOpen'
  BY <1>1 DEF Registered, TimeSane, NoStaleRebind, ConnRegisteredWhileOpen
<1> QED BY <1>4, <1>5, <1>6, <1>7, <1>8, <1>9

\* The federation tail of `forward` queues locally sourced frames only.
LEMMA ForwardDoneStep == ASSUME IInv, NEW w \in Worker, ForwardDone(w) PROVE IInv'
<1> USE DEF IInv
<1> DEFINE f == work[w].frame
<1>1. /\ work[w] \in Work /\ f \in Frame /\ f.type # "route"
      /\ work' = [work EXCEPT ![w] = Idle]
      /\ UNCHANGED <<now, bands, peer, sinks, used, conn>>
  BY Typed DEF WorkShape, Work, ForwardDone
<1>2. fedq' = fedq \/ (f.from \in Key /\ fedq' = Append(fedq, f))
  BY DEF ForwardDone
<1>3. TypeOK' /\ WorkShape'
  <2>1. fedq' \in Seq(Frame)
    BY <1>1, <1>2 DEF TypeOK
  <2> QED BY <1>1, <2>1 DEF TypeOK, WorkShape, Work, Idle, At
<1>4. RelayIsolation'
  <2>1. \A i \in 1..Len(fedq') : (fedq'[i] = f /\ f.from \in Key)
                                 \/ (i \in 1..Len(fedq) /\ fedq'[i] = fedq[i])
    BY <1>2 DEF TypeOK
  <2> QED BY <1>1, <2>1 DEF RelayIsolation
<1>5. UdpFresh' /\ CollectedSinksOwn'
  BY <1>1 DEF UdpFresh, CollectedSinksOwn, TypeOK, Idle, At, Worker
<1>6. SinkIffEligible' /\ TimeSane' /\ NoStaleRebind' /\ ConnRegisteredWhileOpen'
  BY <1>1 DEF SinkIffEligible, MadeFor, Registered, TimeSane, NoStaleRebind,
         ConnRegisteredWhileOpen
<1> QED BY <1>3, <1>4, <1>5, <1>6

\* Making a sink disturbs no sink that has a writer.
LEMMA MakeSinkFacts ==
  ASSUME IInv, NEW b \in Band, NEW k \in Key, NEW s \in SinkId, MakeSink(s, b, k)
  PROVE  /\ sinks' \in [SinkId -> Sink \cup {None}]
         /\ MadeFor(sinks'[s], b, k)
         /\ \A t \in SinkId : sinks[t] # None => sinks'[t] = sinks[t]
         /\ \A t \in SinkId : sinks'[t] # None /\ sinks[t] = None => sinks'[t].queue = <<>>
<1> DEFINE n == [band |-> b, key |-> k, queue |-> <<>>, open |-> TRUE]
<1>1. n \in Sink /\ n # None /\ n.band = b /\ n.key = k /\ n.queue = <<>>
  <2>1. <<>> \in Seq(Frame) /\ b \in Band /\ k \in Key
    OBVIOUS
  <2>2. n \in Sink
    BY <2>1 DEF Sink
  <2> QED BY <2>2, NoneFresh
<1>2. sinks[s] = None /\ sinks' = [sinks EXCEPT ![s] = n]
  BY DEF MakeSink
<1>3. sinks \in [SinkId -> Sink \cup {None}]
  BY DEF IInv, TypeOK
<1> HIDE DEF n
<1> QED BY <1>1, <1>2, <1>3 DEF MadeFor

\* `insert` adds one entry, without a route id, and its sink if it has one.
LEMMA InsertFacts ==
  ASSUME IInv, NEW b \in Band, NEW k \in Key, Insert(b, k)
  PROVE  /\ bands' \in SUBSET Band
         /\ sinks' \in [SinkId -> Sink \cup {None}]
         /\ \A t \in SinkId : sinks[t] # None => sinks'[t] = sinks[t]
         /\ \A t \in SinkId : sinks'[t] # None /\ sinks[t] = None => sinks'[t].queue = <<>>
         /\ \E e \in Peer : /\ peer' = [peer EXCEPT ![b][k] = e]
                            /\ e.route = 0 /\ e.first_seen = now /\ e.last_seen = now
                            /\ e.eligible <=> e.sink # None
                            /\ e.sink # None => MadeFor(sinks'[e.sink], b, k)
<1>1. PICK s \in SinkId \cup {None} :
        /\ bands' = bands \cup {b}
        /\ peer' = [peer EXCEPT ![b][k] =
             [sink |-> s, first_seen |-> now, last_seen |-> now,
              eligible |-> ValidAtOnce(k), seen |-> 1, route |-> 0]]
        /\ IF ValidAtOnce(k) THEN s # None /\ MakeSink(s, b, k)
           ELSE s = None /\ UNCHANGED sinks
  BY DEF Insert
<1> DEFINE e == [sink |-> s, first_seen |-> now, last_seen |-> now,
                 eligible |-> ValidAtOnce(k), seen |-> 1, route |-> 0]
<1>2. ValidAtOnce(k) \in BOOLEAN
  BY DEF ValidAtOnce
<1>3. e \in Peer /\ e.route = 0 /\ e.first_seen = now /\ e.last_seen = now
      /\ e.sink = s /\ e.eligible = ValidAtOnce(k)
  BY <1>1, <1>2 DEF Peer, IInv, TypeOK
<1> HIDE DEF e
<1>4. peer' = [peer EXCEPT ![b][k] = e]
  BY <1>1 DEF e
<1>5. CASE ValidAtOnce(k)
  <2>1. s \in SinkId /\ MakeSink(s, b, k)
    BY <1>1, <1>5
  <2>2. /\ sinks' \in [SinkId -> Sink \cup {None}]
        /\ MadeFor(sinks'[s], b, k)
        /\ \A t \in SinkId : sinks[t] # None => sinks'[t] = sinks[t]
        /\ \A t \in SinkId : sinks'[t] # None /\ sinks[t] = None => sinks'[t].queue = <<>>
    BY <2>1, MakeSinkFacts
  <2> QED BY <1>1, <1>3, <1>4, <1>5, <2>2 DEF IInv, TypeOK
<1>6. CASE ~ValidAtOnce(k)
  BY <1>1, <1>3, <1>4, <1>6 DEF IInv, TypeOK
<1> QED BY <1>5, <1>6

\* A step that gives the entry of k in band b the value e, whatever else it does
\* to the route ids of the band, keeps what the invariant says of entries.
LEMMA EntrySet ==
  ASSUME IInv, NEW b \in Band, NEW k \in Key, NEW e \in Peer,
         peer' = [peer EXCEPT ![b][k] = e],
         sinks' \in [SinkId -> Sink \cup {None}],
         \A t \in SinkId : sinks[t] # None => sinks'[t] = sinks[t],
         \A t \in SinkId : sinks'[t] # None /\ sinks[t] = None => sinks'[t].queue = <<>>,
         e.eligible <=> e.sink # None,
         e.sink # None => MadeFor(sinks'[e.sink], b, k),
         fedq' = fedq
  PROVE  /\ peer' \in [Band -> [Key -> Peer \cup {None}]]
         /\ peer'[b][k] = e
         /\ \A c \in Band, q \in Key : <<c, q>> # <<b, k>> => peer'[c][q] = peer[c][q]
         /\ SinkIffEligible' /\ RelayIsolation'
<1>1. peer \in [Band -> [Key -> Peer \cup {None}]]
  BY DEF IInv, TypeOK
<1>2. /\ peer' \in [Band -> [Key -> Peer \cup {None}]]
      /\ peer'[b][k] = e
      /\ \A c \in Band, q \in Key : <<c, q>> # <<b, k>> => peer'[c][q] = peer[c][q]
  BY <1>1
<1>3. RelayIsolation'
  BY DEF RelayIsolation, IInv
<1>4. SinkIffEligible'
  <2> SUFFICES ASSUME NEW c \in Band, NEW q \in Key, peer'[c][q] # None
               PROVE  /\ peer'[c][q].eligible <=> peer'[c][q].sink # None
                      /\ peer'[c][q].sink # None => MadeFor(sinks'[peer'[c][q].sink], c, q)
    BY DEF SinkIffEligible, Registered
  <2>1. CASE <<c, q>> = <<b, k>>
    BY <1>2, <2>1
  <2>2. CASE <<c, q>> # <<b, k>>
    <3>1. peer'[c][q] = peer[c][q] /\ peer[c][q] # None /\ peer[c][q] \in Peer
      BY <1>1, <1>2, <2>2
    <3>2. /\ peer[c][q].eligible <=> peer[c][q].sink # None
          /\ peer[c][q].sink # None => MadeFor(sinks[peer[c][q].sink], c, q)
      BY <3>1 DEF IInv, SinkIffEligible, Registered
    <3>3. peer[c][q].sink # None => peer[c][q].sink \in SinkId
      BY <3>1 DEF Peer
    <3> QED BY <3>1, <3>2, <3>3 DEF MadeFor
  <2> QED BY <2>1, <2>2
<1> QED BY <1>2, <1>3, <1>4

\* Registering a connection adds its entry and makes its sink, or closes it.
LEMMA ConnectStep == ASSUME IInv, NEW c \in Conn, Connect(c) PROVE IInv'
<1> DEFINE b == conn[c].band
<1>1. /\ b \in Band /\ c \in Key /\ c \notin Udp /\ conn[c].stage = "new"
      /\ UNCHANGED <<now, used, work, fedq>>
  BY KeysDisjoint DEF Connect, IInv, TypeOK, Key
<1>2. CASE Insert(b, c) /\ conn' = [conn EXCEPT ![c].stage = "open"]
  <2>1. PICK e \in Peer : /\ peer' = [peer EXCEPT ![b][c] = e]
                          /\ e.route = 0 /\ e.first_seen = now /\ e.last_seen = now
                          /\ e.eligible <=> e.sink # None
                          /\ e.sink # None => MadeFor(sinks'[e.sink], b, c)
    BY <1>1, <1>2, InsertFacts
  <2>2. /\ bands' \in SUBSET Band
        /\ sinks' \in [SinkId -> Sink \cup {None}]
        /\ \A t \in SinkId : sinks[t] # None => sinks'[t] = sinks[t]
        /\ \A t \in SinkId : sinks'[t] # None /\ sinks[t] = None => sinks'[t].queue = <<>>
    BY <1>1, <1>2, InsertFacts
  <2>3. /\ peer' \in [Band -> [Key -> Peer \cup {None}]]
        /\ peer'[b][c] = e
        /\ \A d \in Band, q \in Key : <<d, q>> # <<b, c>> => peer'[d][q] = peer[d][q]
        /\ SinkIffEligible' /\ RelayIsolation'
    BY <1>1, <2>1, <2>2, EntrySet
  <2>4. TypeOK' /\ WorkShape'
    BY <1>1, <1>2, <2>2, <2>3 DEF IInv, TypeOK, WorkShape
  <2>5. TimeSane'
    BY <1>1, <2>1, <2>3, Typed DEF IInv, TypeOK, TimeSane
  <2>6. UdpFresh'
    <3>1. work[UdpLoop].pc = "observed" => work[UdpLoop].frame.band \in Band
                                           /\ work[UdpLoop].frame.from \in Udp
      BY Typed DEF IInv, WorkShape, Worker, Work, Frame
    <3> QED BY <1>1, <2>3, <3>1 DEF IInv, UdpFresh, Key
  <2>7. CollectedSinksOwn'
    BY <1>1, <2>2, Typed DEF IInv, CollectedSinksOwn, Work
  <2>8. NoStaleRebind'
    BY <1>1, <2>3 DEF IInv, NoStaleRebind, Registered, Key
  <2>9. ConnRegisteredWhileOpen'
    BY <1>1, <1>2, <2>3, NoneFresh DEF IInv, TypeOK, ConnRegisteredWhileOpen, Key
  <2> QED BY <2>3, <2>4, <2>5, <2>6, <2>7, <2>8, <2>9 DEF IInv
<1>3. CASE conn' = [conn EXCEPT ![c].stage = "closed"] /\ UNCHANGED <<bands, peer, sinks>>
  <2>1. TypeOK'
    BY <1>1, <1>3 DEF IInv, TypeOK
  <2>2. ConnRegisteredWhileOpen'
    BY <1>1, <1>3 DEF IInv, TypeOK, ConnRegisteredWhileOpen
  <2>3. WorkShape' /\ UdpFresh' /\ SinkIffEligible' /\ CollectedSinksOwn' /\ TimeSane'
        /\ NoStaleRebind' /\ RelayIsolation'
    BY <1>1, <1>3 DEF IInv, WorkShape, UdpFresh, SinkIffEligible, MadeFor, Registered,
       CollectedSinksOwn, TimeSane, NoStaleRebind, RelayIsolation
  <2> QED BY <2>1, <2>2, <2>3 DEF IInv
<1> QED BY <1>2, <1>3 DEF Connect

\* What a refresh does to one entry.
LEMMA RefreshedFacts ==
  ASSUME IInv, NEW p \in Peer
  PROVE  /\ Refreshed(p) \in Peer
         /\ Refreshed(p).last_seen = now /\ Refreshed(p).first_seen = p.first_seen
         /\ Refreshed(p).sink = p.sink /\ Refreshed(p).eligible = p.eligible
         /\ Refreshed(p).route = p.route
<1>1. Saturate(p.seen) \in Nat
  BY DEF Saturate, Peer
<1> QED BY <1>1 DEF Refreshed, Peer, IInv, TypeOK

\* A frame on a connection refreshes its entry, if it still has one.
LEMMA ConnReceiveStep ==
  ASSUME IInv, NEW w \in Slots, NEW f \in Frame, ConnReceive(w, f) PROVE IInv'
<1> DEFINE b == f.band
           k == f.from
<1>1. /\ w \in Worker /\ w # UdpLoop /\ b \in Band /\ k \in Conn /\ k \in Key /\ k \notin Udp
      /\ work' = [work EXCEPT ![w] = At("observed", f, {}, None)]
      /\ UNCHANGED <<now, bands, sinks, used, conn, fedq>>
  BY UdpLoopAlone, KeysDisjoint DEF Worker, Frame, Key, ConnReceive
<1>2. WorkShape'
  BY <1>1, NoneFresh DEF IInv, TypeOK, WorkShape, Work, At
<1>3. CollectedSinksOwn'
  BY <1>1 DEF IInv, TypeOK, CollectedSinksOwn, At
<1>4. CASE peer' = peer
  <2>1. TypeOK'
    BY <1>1, <1>4 DEF IInv, TypeOK, Work, At
  <2>2. UdpFresh'
    BY <1>1, <1>4 DEF IInv, UdpFresh, TypeOK, Worker
  <2>3. SinkIffEligible' /\ TimeSane' /\ NoStaleRebind' /\ RelayIsolation'
        /\ ConnRegisteredWhileOpen'
    BY <1>1, <1>4 DEF IInv, SinkIffEligible, MadeFor, Registered, TimeSane, NoStaleRebind,
       RelayIsolation, ConnRegisteredWhileOpen
  <2> QED BY <1>2, <1>3, <2>1, <2>2, <2>3 DEF IInv
<1>5. CASE peer[b][k] # None /\ peer' = [peer EXCEPT ![b][k] = Refreshed(peer[b][k])]
  <2> DEFINE e == Refreshed(peer[b][k])
  <2>1. peer[b][k] \in Peer
    BY <1>1, <1>5, Typed DEF IInv
  <2>2. /\ e \in Peer /\ e.last_seen = now /\ e.first_seen = peer[b][k].first_seen
        /\ e.sink = peer[b][k].sink /\ e.eligible = peer[b][k].eligible
    BY <2>1, RefreshedFacts
  <2> HIDE DEF e
  <2>3. peer' = [peer EXCEPT ![b][k] = e]
    BY <1>5 DEF e
  <2>4. /\ e.eligible <=> e.sink # None
        /\ e.sink # None => MadeFor(sinks'[e.sink], b, k)
    BY <1>1, <1>5, <2>2 DEF IInv, SinkIffEligible, Registered, MadeFor
  <2>5. /\ peer' \in [Band -> [Key -> Peer \cup {None}]]
        /\ peer'[b][k] = e
        /\ \A d \in Band, q \in Key : <<d, q>> # <<b, k>> => peer'[d][q] = peer[d][q]
        /\ SinkIffEligible' /\ RelayIsolation'
    <3>1. /\ sinks' \in [SinkId -> Sink \cup {None}]
          /\ \A t \in SinkId : sinks[t] # None => sinks'[t] = sinks[t]
          /\ \A t \in SinkId : sinks'[t] # None /\ sinks[t] = None => sinks'[t].queue = <<>>
          /\ fedq' = fedq
      BY <1>1 DEF IInv, TypeOK
    <3> QED BY <1>1, <2>2, <2>3, <2>4, <3>1, EntrySet
  <2>6. TypeOK'
    BY <1>1, <2>5 DEF IInv, TypeOK, Work, At
  <2>7. TimeSane'
    BY <1>1, <1>5, <2>2, <2>5 DEF IInv, TypeOK, TimeSane
  <2>8. UdpFresh'
    <3>1. work'[UdpLoop] = work[UdpLoop]
      BY <1>1 DEF IInv, TypeOK, Worker
    <3>2. work[UdpLoop].pc = "observed" => work[UdpLoop].frame.band \in Band
                                           /\ work[UdpLoop].frame.from \in Udp
      BY Typed DEF IInv, WorkShape, Worker, Work, Frame
    <3> QED BY <1>1, <2>5, <3>1, <3>2 DEF IInv, UdpFresh, Key
  <2>9. NoStaleRebind'
    BY <1>1, <2>5 DEF IInv, NoStaleRebind, Registered, Key
  <2>10. ConnRegisteredWhileOpen'
    BY <1>1, <1>5, <2>2, <2>5, NoneFresh DEF IInv, ConnRegisteredWhileOpen, Key
  <2> QED BY <1>2, <1>3, <2>5, <2>6, <2>7, <2>8, <2>9, <2>10 DEF IInv
<1> QED BY <1>4, <1>5 DEF ConnReceive

\* A writer that takes a frame off its queue leaves a clean queue with the same
\* owner.
LEMMA WriteStep == ASSUME IInv, NEW s \in SinkId, Write(s) PROVE IInv'
<1> DEFINE n == [sinks[s] EXCEPT !.queue = Tail(@)]
<1>1. /\ sinks \in [SinkId -> Sink \cup {None}] /\ sinks[s] \in Sink
      /\ sinks[s].queue \in Seq(Frame) /\ sinks[s].queue # <<>>
      /\ UNCHANGED <<now, bands, peer, work, conn, fedq>>
  BY DEF IInv, TypeOK, Write, Sink
<1>2. /\ n.queue = Tail(sinks[s].queue) /\ Tail(sinks[s].queue) \in Seq(Frame)
      /\ n.band = sinks[s].band /\ n.key = sinks[s].key
  BY <1>1 DEF Sink
<1>3. n \in Sink /\ n # None
  <2>1. n \in Sink
    BY <1>1, <1>2 DEF Sink
  <2> QED BY <2>1, NoneFresh
<1>4. sinks' = [sinks EXCEPT ![s] = n]
  BY <1>1 DEF Write
<1> HIDE DEF n
<1>5. \A i \in 1..Len(n.queue) : i + 1 \in 1..Len(sinks[s].queue)
                                 /\ n.queue[i] = sinks[s].queue[i + 1]
  BY <1>1, <1>2
<1>6. RelayIsolation'
  <2>1. sinks[s] # None
    BY DEF Write
  <2>2. \A i \in 1..Len(n.queue) : LET g == n.queue[i] IN
          g.band = n.band /\ g.from # n.key /\ g.type # "route"
    BY <1>2, <1>5, <2>1 DEF IInv, RelayIsolation
  <2>3. \A t \in SinkId : sinks'[t] = IF t = s THEN n ELSE sinks[t]
    BY <1>1, <1>4
  <2> QED BY <1>1, <2>2, <2>3 DEF IInv, RelayIsolation
<1>7. TypeOK'
  <2>1. Head(sinks[s].queue) \in Frame
    BY <1>1
  <2>2. used' \in Int
    BY <2>1, LensPositive DEF IInv, TypeOK, Write, Frame
  <2> QED BY <1>1, <1>3, <1>4, <2>2 DEF IInv, TypeOK
<1>8. SinkIffEligible'
  BY <1>1, <1>2, <1>3, <1>4, Typed DEF IInv, SinkIffEligible, MadeFor, Registered, Peer
<1>9. CollectedSinksOwn'
  BY <1>1, <1>2, <1>3, <1>4, Typed DEF IInv, CollectedSinksOwn, Work
<1>10. WorkShape' /\ UdpFresh' /\ TimeSane' /\ NoStaleRebind' /\ ConnRegisteredWhileOpen'
  BY <1>1 DEF IInv, WorkShape, UdpFresh, TimeSane, NoStaleRebind, Registered,
     ConnRegisteredWhileOpen
<1> QED BY <1>6, <1>7, <1>8, <1>9, <1>10 DEF IInv

\* A failed writer empties and closes its queue; the sink stays its owner's.
LEMMA WriterFailsStep == ASSUME IInv, NEW s \in SinkId, WriterFails(s) PROVE IInv'
<1> DEFINE n == [sinks[s] EXCEPT !.open = FALSE, !.queue = <<>>]
<1>1. /\ sinks \in [SinkId -> Sink \cup {None}] /\ sinks[s] \in Sink
      /\ UNCHANGED <<now, bands, peer, used, work, conn, fedq>>
  BY DEF IInv, TypeOK, WriterFails
<1>2. n.queue = <<>> /\ n.band = sinks[s].band /\ n.key = sinks[s].key
  BY <1>1 DEF Sink
<1>3. n \in Sink /\ n # None
  <2>1. <<>> \in Seq(Frame)
    OBVIOUS
  <2>2. n \in Sink
    BY <1>1, <2>1 DEF Sink
  <2> QED BY <2>2, NoneFresh
<1>4. sinks' = [sinks EXCEPT ![s] = n]
  BY <1>1 DEF WriterFails
<1> HIDE DEF n
<1>5. RelayIsolation'
  BY <1>1, <1>2, <1>3, <1>4 DEF IInv, RelayIsolation
<1>6. TypeOK'
  BY <1>1, <1>3, <1>4 DEF IInv, TypeOK
<1>7. SinkIffEligible'
  BY <1>1, <1>2, <1>3, <1>4, Typed DEF IInv, SinkIffEligible, MadeFor, Registered, Peer
<1>8. CollectedSinksOwn'
  BY <1>1, <1>2, <1>3, <1>4, Typed DEF IInv, CollectedSinksOwn, Work
<1>9. WorkShape' /\ UdpFresh' /\ TimeSane' /\ NoStaleRebind' /\ ConnRegisteredWhileOpen'
  BY <1>1 DEF IInv, WorkShape, UdpFresh, TimeSane, NoStaleRebind, Registered,
     ConnRegisteredWhileOpen
<1> QED BY <1>5, <1>6, <1>7, <1>8, <1>9 DEF IInv

\* A writer ends only when no entry and no task can still use its sink.
LEMMA WriterEndsStep == ASSUME IInv, NEW s \in SinkId, WriterEnds(s) PROVE IInv'
<1>1. /\ sinks \in [SinkId -> Sink \cup {None}] /\ sinks' = [sinks EXCEPT ![s] = None]
      /\ UNCHANGED <<now, bands, peer, used, work, conn, fedq>>
      /\ \A b \in Band, k \in Key : peer[b][k] # None => peer[b][k].sink # s
      /\ \A w \in Worker : s \notin work[w].todo /\ work[w].cur # s
  BY DEF IInv, TypeOK, WriterEnds, HasSender
<1>2. TypeOK'
  BY <1>1 DEF IInv, TypeOK
<1>3. SinkIffEligible'
  BY <1>1, Typed DEF IInv, SinkIffEligible, MadeFor, Registered, Peer
<1>4. CollectedSinksOwn'
  BY <1>1, Typed DEF IInv, CollectedSinksOwn, Work
<1>5. WorkShape' /\ UdpFresh' /\ TimeSane' /\ NoStaleRebind' /\ ConnRegisteredWhileOpen'
  BY <1>1 DEF IInv, WorkShape, UdpFresh, TimeSane, NoStaleRebind, Registered,
     ConnRegisteredWhileOpen
<1>6. RelayIsolation'
  BY <1>1 DEF IInv, RelayIsolation
<1> QED BY <1>2, <1>3, <1>4, <1>5, <1>6 DEF IInv

\* A step that only takes entries out of the registry, conn aside.
LEMMA EntriesRemoved ==
  ASSUME IInv, bands' \in SUBSET Band, peer' \in [Band -> [Key -> Peer \cup {None}]],
         \A b \in Band, k \in Key : peer'[b][k] \in {None, peer[b][k]},
         UNCHANGED <<now, sinks, used, work, fedq>>
  PROVE  /\ WorkShape' /\ TimeSane' /\ UdpFresh' /\ SinkIffEligible'
         /\ CollectedSinksOwn' /\ RelayIsolation' /\ NoStaleRebind'
<1>1. SinkIffEligible'
  BY DEF IInv, SinkIffEligible, MadeFor, Registered
<1>2. TimeSane'
  BY DEF IInv, TimeSane
<1>3. NoStaleRebind'
  BY DEF IInv, NoStaleRebind, Registered, Key
<1>4. UdpFresh'
  <2>1. work[UdpLoop].pc = "observed" => work[UdpLoop].frame.band \in Band
                                         /\ work[UdpLoop].frame.from \in Udp
    BY Typed DEF IInv, WorkShape, Worker, Work, Frame
  <2> QED BY <2>1 DEF IInv, UdpFresh, Key
<1>5. WorkShape' /\ CollectedSinksOwn' /\ RelayIsolation'
  BY DEF IInv, WorkShape, CollectedSinksOwn, RelayIsolation
<1> QED BY <1>1, <1>2, <1>3, <1>4, <1>5

\* `disconnect` removes the entry of a connection that is no longer open.
LEMMA DisconnectStep == ASSUME IInv, NEW c \in Conn, Disconnect(c) PROVE IInv'
<1> DEFINE b == conn[c].band
<1>1. /\ b \in Band /\ c \in Key
      /\ peer' = [peer EXCEPT ![b][c] = None]
      /\ conn' = [conn EXCEPT ![c].stage = "closing"]
      /\ bands' \in SUBSET Band
      /\ UNCHANGED <<now, sinks, used, work, fedq>>
  BY DEF IInv, TypeOK, Disconnect, Key
<1>2. /\ peer' \in [Band -> [Key -> Peer \cup {None}]]
      /\ peer'[b][c] = None
      /\ \A d \in Band, k \in Key : <<d, k>> # <<b, c>> => peer'[d][k] = peer[d][k]
  BY <1>1 DEF IInv, TypeOK
<1>3. /\ WorkShape' /\ TimeSane' /\ UdpFresh' /\ SinkIffEligible'
      /\ CollectedSinksOwn' /\ RelayIsolation' /\ NoStaleRebind'
  BY <1>1, <1>2, EntriesRemoved
<1>4. TypeOK'
  <2>1. conn' \in [Conn -> [stage : {"new", "open", "closing", "closed"}, band : Band]]
    BY <1>1 DEF IInv, TypeOK
  <2> QED BY <1>1, <1>2, <2>1 DEF IInv, TypeOK
<1>5. ConnRegisteredWhileOpen'
  BY <1>1, <1>2 DEF IInv, TypeOK, ConnRegisteredWhileOpen, Key
<1> QED BY <1>3, <1>4, <1>5 DEF IInv

\* `prune` removes UDP entries only, so every open connection stays registered.
LEMMA PruneStep == ASSUME IInv, Prune PROVE IInv'
<1>1. /\ peer' = [b \in Band |-> [k \in Key |->
                    IF b \in bands /\ k \in Expired(b) THEN None ELSE peer[b][k]]]
      /\ bands' \in SUBSET Band
      /\ UNCHANGED <<now, sinks, used, work, conn, fedq>>
  BY DEF IInv, TypeOK, Prune
<1>2. /\ peer' \in [Band -> [Key -> Peer \cup {None}]]
      /\ \A b \in Band, k \in Key : peer'[b][k] \in {None, peer[b][k]}
  BY <1>1 DEF IInv, TypeOK
<1>3. /\ WorkShape' /\ TimeSane' /\ UdpFresh' /\ SinkIffEligible'
      /\ CollectedSinksOwn' /\ RelayIsolation' /\ NoStaleRebind'
  BY <1>1, <1>2, EntriesRemoved
<1>4. TypeOK'
  <2>1. bands' \in SUBSET Band /\ UNCHANGED <<now, sinks, used, work, conn, fedq>>
    BY <1>1
  <2> QED BY <1>2, <2>1 DEF IInv, TypeOK
<1>5. ConnRegisteredWhileOpen'
  <2>1. \A b \in Band, c \in Conn : peer'[b][c] = peer[b][c]
    BY <1>1, KeysDisjoint DEF Expired, Key
  <2> QED BY <1>1, <2>1 DEF IInv, ConnRegisteredWhileOpen
<1> QED BY <1>3, <1>4, <1>5 DEF IInv

\* Replacing the entries of one band by ones that differ in their route ids, and
\* in the entry of k, is all that a ROUTE frame and a validation do.
LEMMA BandReplaced ==
  ASSUME IInv, NEW b \in Band, NEW k \in Udp, NEW P \in PeerMap, P[k] # None,
         P[k].first_seen <= now, P[k].last_seen <= now,
         \A p \in Udp : P[p] # None => P[p].first_seen <= P[k].last_seen,
         \A q \in Key \ {k} : P[q] = peer[b][q],
         peer' = [peer EXCEPT ![b] = SupersedeRebound(P, k)],
         now' = now
  PROVE  /\ TimeSane' /\ NoStaleRebind'
         /\ peer' \in [Band -> PeerMap]
         /\ \A q \in Key : /\ peer'[b][q] = None <=> P[q] = None
                           /\ P[q] # None => /\ peer'[b][q].sink = P[q].sink
                                             /\ peer'[b][q].eligible = P[q].eligible
                                             /\ peer'[b][q].first_seen = P[q].first_seen
                                             /\ peer'[b][q].last_seen = P[q].last_seen
         /\ \A c \in Band \ {b} : peer'[c] = peer[c]
<1> DEFINE S == SupersedeRebound(P, k)
<1>1. /\ S \in PeerMap
      /\ \A q \in Key : S[q] = None <=> P[q] = None
      /\ \A q \in Key : P[q] # None =>
           /\ S[q].sink = P[q].sink /\ S[q].eligible = P[q].eligible
           /\ S[q].first_seen = P[q].first_seen /\ S[q].last_seen = P[q].last_seen
           /\ S[q].route \in {0, P[q].route}
      /\ S[k] = P[k]
      /\ \A q \in Udp \ {k} :
           ( /\ P[k].eligible /\ P[k].route # 0
             /\ P[q] # None /\ Ip[q] = Ip[k] /\ P[q].route = P[k].route
             /\ P[q].last_seen < P[k].first_seen ) => S[q].route = 0
  BY SupersedeClearsRoutes DEF Key
<1> HIDE DEF S
<1>2. peer' = [peer EXCEPT ![b] = S] /\ peer \in [Band -> PeerMap]
  BY DEF S, IInv, TypeOK, PeerMap
<1>3. peer' \in [Band -> PeerMap] /\ peer'[b] = S /\ \A c \in Band \ {b} : peer'[c] = peer[c]
  BY <1>1, <1>2
<1>4. TimeSane'
  <2> SUFFICES ASSUME NEW c \in Band, NEW q \in Key, peer'[c][q] # None
               PROVE  peer'[c][q].first_seen <= now /\ peer'[c][q].last_seen <= now
    BY DEF TimeSane
  <2>1. CASE c # b
    BY <1>3, <2>1 DEF IInv, TimeSane
  <2>2. CASE c = b
    BY <1>1, <1>3, <2>2 DEF IInv, TimeSane
  <2> QED BY <2>1, <2>2
<1>5. NoStaleRebind'
  <2> SUFFICES ASSUME NEW c \in Band, NEW p \in Udp, NEW q \in Udp,
                      peer'[c][p] # None, peer'[c][q] # None, p # q, Ip[p] = Ip[q],
                      peer'[c][p].eligible, peer'[c][p].route # 0,
                      peer'[c][q].route = peer'[c][p].route
               PROVE  peer'[c][q].last_seen >= peer'[c][p].first_seen
    BY DEF NoStaleRebind, Registered
  <2>0. p \in Key /\ q \in Key /\ k \in Key
    BY DEF Key
  <2>1. CASE c # b
    BY <1>3, <2>0, <2>1 DEF IInv, NoStaleRebind, Registered
  <2>2. CASE c = b
    <3>1. /\ P[p] # None /\ P[q] # None /\ P[p].eligible
          /\ P[p].route = S[p].route /\ P[q].route = S[q].route /\ S[p].route # 0
          /\ S[q].route = S[p].route
      BY <1>1, <1>3, <2>0, <2>2
    <3>2. P[p] \in Peer /\ P[q] \in Peer /\ P[k] \in Peer
      BY <2>0, <3>1 DEF PeerMap
    <3>3. P[q].last_seen >= P[p].first_seen
      <4>1. CASE p = k
        BY <1>1, <3>1, <3>2, <4>1 DEF Peer
      <4>2. CASE q = k
        BY <3>1, <3>2, <4>2 DEF Peer
      <4>3. CASE p # k /\ q # k
        BY <2>0, <3>1, <4>3 DEF IInv, NoStaleRebind, Registered
      <4> QED BY <4>1, <4>2, <4>3
    <3> QED BY <1>1, <1>3, <2>0, <2>2, <3>1, <3>3
  <2> QED BY <2>1, <2>2
<1> QED BY <1>1, <1>3, <1>4, <1>5

\* The parts of the invariant that do not depend on route ids, after a step that
\* replaced the entries of band b by S and left the sinks alone.
LEMMA RoutesOnly ==
  ASSUME IInv, NEW b \in Band, NEW S \in PeerMap, peer' = [peer EXCEPT ![b] = S],
         \A q \in Key : /\ S[q] = None <=> peer[b][q] = None
                        /\ peer[b][q] # None =>
                             /\ S[q].sink = peer[b][q].sink
                             /\ S[q].eligible = peer[b][q].eligible,
         UNCHANGED <<sinks, conn, fedq>>
  PROVE  /\ peer' \in [Band -> [Key -> Peer \cup {None}]]
         /\ SinkIffEligible' /\ RelayIsolation' /\ ConnRegisteredWhileOpen'
<1>1. peer \in [Band -> PeerMap]
  BY DEF IInv, TypeOK, PeerMap
<1>2. /\ peer' \in [Band -> PeerMap] /\ peer'[b] = S
      /\ \A c \in Band \ {b} : peer'[c] = peer[c]
  BY <1>1
<1>3. SinkIffEligible'
  <2> SUFFICES ASSUME NEW c \in Band, NEW q \in Key, peer'[c][q] # None
               PROVE  /\ peer'[c][q].eligible <=> peer'[c][q].sink # None
                      /\ peer'[c][q].sink # None => MadeFor(sinks[peer'[c][q].sink], c, q)
    BY DEF SinkIffEligible, Registered, MadeFor
  <2>1. CASE c # b
    BY <1>2, <2>1 DEF IInv, SinkIffEligible, Registered
  <2>2. CASE c = b
    BY <1>2, <2>2 DEF IInv, SinkIffEligible, Registered
  <2> QED BY <2>1, <2>2
<1>4. ConnRegisteredWhileOpen'
  BY <1>2 DEF IInv, ConnRegisteredWhileOpen, Key
<1>5. RelayIsolation'
  BY DEF IInv, RelayIsolation
<1> QED BY <1>2, <1>3, <1>4, <1>5 DEF PeerMap

\* A ROUTE frame: the sender was heard after every UDP entry of its band appeared,
\* so its new id makes nobody stale, and supersede_rebound clears the stale ones.
LEMMA ForwardRouteStep == ASSUME IInv, NEW w \in Worker, ForwardRoute(w) PROVE IInv'
<1> DEFINE f == work[w].frame
           b == f.band
           k == f.from
           P == peer[b]
           D == IF P[k] = None THEN P ELSE [P EXCEPT ![k].route = f.id]
<1>1. /\ f \in Frame /\ b \in Band /\ k \in Key /\ f.id \in RouteId \cup {0}
      /\ k \in Udp <=> w = UdpLoop
      /\ work[w].pc = "observed"
      /\ P \in PeerMap
  BY Typed DEF IInv, WorkShape, Work, Frame, ForwardRoute
<1>2. /\ peer' = [peer EXCEPT ![b] = SupersedeRebound(D, k)]
      /\ work' = [work EXCEPT ![w] = Idle]
      /\ UNCHANGED <<now, bands, sinks, used, conn, fedq>>
  BY DEF ForwardRoute
<1>3. /\ D \in PeerMap
      /\ \A q \in Key \ {k} : D[q] = P[q]
      /\ D[k] = None <=> P[k] = None
      /\ P[k] # None => /\ D[k].sink = P[k].sink /\ D[k].eligible = P[k].eligible
                        /\ D[k].first_seen = P[k].first_seen
                        /\ D[k].last_seen = P[k].last_seen
  <2>1. CASE P[k] = None
    BY <1>1, <2>1
  <2>2. CASE P[k] # None
    <3> DEFINE e == [P[k] EXCEPT !.route = f.id]
    <3>1. P[k] \in Peer
      BY <1>1, <2>2 DEF PeerMap
    <3>2. /\ e \in Peer /\ e.sink = P[k].sink /\ e.eligible = P[k].eligible
          /\ e.first_seen = P[k].first_seen /\ e.last_seen = P[k].last_seen
      BY <1>1, <3>1 DEF Peer
    <3>3. e # None
      BY <3>2, NoneFresh
    <3>4. D = [P EXCEPT ![k] = e]
      BY <1>1, <2>2 DEF PeerMap
    <3> HIDE DEF e, D, P
    <3> QED BY <1>1, <2>2, <3>2, <3>3, <3>4 DEF PeerMap
  <2> QED BY <2>1, <2>2
<1> HIDE DEF D
<1> DEFINE S == SupersedeRebound(D, k)
<1>4. /\ S \in PeerMap
      /\ \A q \in Key : S[q] = None <=> P[q] = None
      /\ \A q \in Key : P[q] # None =>
           /\ S[q].sink = P[q].sink /\ S[q].eligible = P[q].eligible
           /\ S[q].first_seen = P[q].first_seen /\ S[q].last_seen = P[q].last_seen
  <2>1. /\ S \in PeerMap
        /\ \A q \in Key : S[q] = None <=> D[q] = None
        /\ \A q \in Key : D[q] # None =>
             /\ S[q].sink = D[q].sink /\ S[q].eligible = D[q].eligible
             /\ S[q].first_seen = D[q].first_seen /\ S[q].last_seen = D[q].last_seen
    BY <1>1, <1>3, SupersedeClearsRoutes
  <2> HIDE DEF S, P
  <2> QED BY <1>1, <1>3, <2>1
<1>5. /\ peer' \in [Band -> [Key -> Peer \cup {None}]]
      /\ SinkIffEligible' /\ RelayIsolation' /\ ConnRegisteredWhileOpen'
  <2> HIDE DEF S
  <2> QED BY <1>1, <1>2, <1>4, RoutesOnly DEF S
<1>6. TypeOK' /\ WorkShape'
  <2>1. WorkShape'
    BY <1>2 DEF IInv, TypeOK, WorkShape, Idle, At
  <2>2. work' \in [Worker -> Work]
    BY <1>2 DEF IInv, TypeOK, Work, Idle, At
  <2>3. UNCHANGED <<now, bands, sinks, used, conn, fedq>>
    BY <1>2
  <2> QED BY <1>5, <2>1, <2>2, <2>3 DEF IInv, TypeOK
<1>7. CollectedSinksOwn'
  BY <1>2 DEF IInv, TypeOK, CollectedSinksOwn, Idle, At
<1>8. peer \in [Band -> PeerMap] /\ peer' = [peer EXCEPT ![b] = S]
  BY <1>2 DEF IInv, TypeOK, PeerMap
<1>9. UdpFresh'
  <2>1. CASE w = UdpLoop
    BY <1>2, <2>1 DEF IInv, TypeOK, UdpFresh, Idle, At, Worker
  <2>2. CASE w # UdpLoop
    <3>1. work'[UdpLoop] = work[UdpLoop]
      BY <1>2, <2>2 DEF IInv, TypeOK, Worker
    <3>2. work[UdpLoop].pc = "observed" => work[UdpLoop].frame.band \in Band
                                           /\ work[UdpLoop].frame.from \in Udp
      BY Typed DEF IInv, WorkShape, Worker, Work, Frame
    <3> HIDE DEF S
    <3>3. \A c \in Band, q \in Key :
             /\ peer'[c][q] = None <=> peer[c][q] = None
             /\ peer[c][q] # None => /\ peer'[c][q].first_seen = peer[c][q].first_seen
                                     /\ peer'[c][q].last_seen = peer[c][q].last_seen
      BY <1>1, <1>4, <1>8
    <3> QED BY <3>1, <3>2, <3>3 DEF IInv, UdpFresh, Key
  <2> QED BY <2>1, <2>2
<1>10. TimeSane' /\ NoStaleRebind'
  <2>1. CASE k \in Udp /\ P[k] # None
    <3>1. \A p \in Udp : D[p] # None => D[p].first_seen <= D[k].last_seen
      <4>1. \A p \in Udp : P[p] # None => P[p].first_seen <= P[k].last_seen
        BY <1>1, <2>1 DEF IInv, UdpFresh
      <4> QED BY <1>3, <2>1, <4>1 DEF Key
    <3>2. D[k].first_seen <= now /\ D[k].last_seen <= now
      BY <1>1, <1>3, <2>1 DEF IInv, TimeSane
    <3> QED BY <1>1, <1>2, <1>3, <2>1, <3>1, <3>2, BandReplaced
  <2>2. CASE ~(k \in Udp /\ P[k] # None)
    <3>1. S = D
      BY <1>3, <2>2 DEF SupersedeRebound
    <3>2. \A q \in Udp : D[q] = P[q]
      <4>1. \A q \in Udp : q \in Key
        BY DEF Key
      <4>2. CASE k \notin Udp
        BY <1>3, <4>1, <4>2
      <4>3. CASE P[k] = None
        BY <1>3, <4>1, <4>3
      <4> QED BY <2>2, <4>2, <4>3
    <3> HIDE DEF S
    <3>3. \A c \in Band, q \in Udp : peer'[c][q] = peer[c][q]
      BY <1>1, <1>8, <3>1, <3>2
    <3>4. NoStaleRebind'
      BY <3>3 DEF IInv, NoStaleRebind, Registered
    <3>5. TimeSane'
      BY <1>1, <1>2, <1>4, <1>8 DEF IInv, TimeSane
    <3> QED BY <3>4, <3>5
  <2> QED BY <2>1, <2>2
<1> QED BY <1>5, <1>6, <1>7, <1>9, <1>10 DEF IInv

\* What the UDP loop's own bookkeeping contributes when it takes up frame f: the
\* sender has just been heard, so it is as fresh as any entry.
LEMMA UdpObserved ==
  ASSUME IInv, NEW f \in Frame, f.from \in Udp,
         work' = [work EXCEPT ![UdpLoop] = At("observed", f, {}, None)],
         peer'[f.band][f.from].last_seen = now, TimeSane', now' = now,
         \A t \in SinkId : sinks[t] # None => sinks'[t] = sinks[t]
  PROVE  WorkShape' /\ CollectedSinksOwn' /\ UdpFresh' /\ work' \in [Worker -> Work]
<1>1. UdpLoop \in Worker /\ f.band \in Band /\ f.from \in Key /\ f # None
  BY NoneFresh DEF Worker, Frame, Key
<1>2. work' \in [Worker -> Work] /\ WorkShape'
  BY <1>1 DEF IInv, TypeOK, WorkShape, Work, At
<1>3. CollectedSinksOwn'
  <2>1. \A w \in Worker : /\ work'[w].todo \in SUBSET SinkId
                          /\ work'[w].cur \in SinkId \cup {None}
    BY <1>2 DEF Work
  <2>2. \A w \in Worker : w # UdpLoop => work'[w] = work[w]
    BY DEF IInv, TypeOK
  <2>3. work'[UdpLoop].todo = {} /\ work'[UdpLoop].cur = None
    BY <1>1 DEF IInv, TypeOK, At
  <2> QED BY <2>1, <2>2, <2>3 DEF IInv, CollectedSinksOwn
<1>4. UdpFresh'
  <2>1. work'[UdpLoop].frame = f
    BY <1>1 DEF IInv, TypeOK, At
  <2> QED BY <1>1, <2>1 DEF UdpFresh, TimeSane, Key
<1> QED BY <1>2, <1>3, <1>4

\* A datagram at the UDP loop: a refresh, a validation that supersedes the old
\* mapping, or an admission.
LEMMA UdpReceiveStep == ASSUME IInv, NEW f \in Frame, UdpReceive(f) PROVE IInv'
<1> DEFINE b == f.band
           k == f.from
           p == peer[b][k]
<1>1. /\ b \in Band /\ k \in Udp /\ k \in Key /\ k \notin Conn /\ now \in Nat
      /\ work' = [work EXCEPT ![UdpLoop] = At("observed", f, {}, None)]
      /\ UNCHANGED <<now, used, conn, fedq>>
  BY KeysDisjoint DEF UdpReceive, Frame, Key, IInv, TypeOK
<1>2. CASE p = None /\ Insert(b, k)
  <2>1. PICK e \in Peer : /\ peer' = [peer EXCEPT ![b][k] = e]
                          /\ e.route = 0 /\ e.first_seen = now /\ e.last_seen = now
                          /\ e.eligible <=> e.sink # None
                          /\ e.sink # None => MadeFor(sinks'[e.sink], b, k)
    BY <1>1, <1>2, InsertFacts
  <2>2. /\ bands' \in SUBSET Band
        /\ sinks' \in [SinkId -> Sink \cup {None}]
        /\ \A t \in SinkId : sinks[t] # None => sinks'[t] = sinks[t]
        /\ \A t \in SinkId : sinks'[t] # None /\ sinks[t] = None => sinks'[t].queue = <<>>
    BY <1>1, <1>2, InsertFacts
  <2>3. /\ peer' \in [Band -> [Key -> Peer \cup {None}]]
        /\ peer'[b][k] = e
        /\ \A d \in Band, q \in Key : <<d, q>> # <<b, k>> => peer'[d][q] = peer[d][q]
        /\ SinkIffEligible' /\ RelayIsolation'
    BY <1>1, <2>1, <2>2, EntrySet
  <2>4. TimeSane'
    BY <1>1, <2>1, <2>3 DEF IInv, TypeOK, TimeSane
  <2>5. WorkShape' /\ CollectedSinksOwn' /\ UdpFresh' /\ work' \in [Worker -> Work]
    BY <1>1, <2>1, <2>2, <2>3, <2>4, UdpObserved
  <2>6. TypeOK'
    BY <1>1, <2>2, <2>3, <2>5 DEF IInv, TypeOK
  <2>7. NoStaleRebind'
    <3> SUFFICES ASSUME NEW c \in Band, NEW x \in Udp, NEW y \in Udp,
                        peer'[c][x] # None, peer'[c][y] # None, x # y, Ip[x] = Ip[y],
                        peer'[c][x].eligible, peer'[c][x].route # 0,
                        peer'[c][y].route = peer'[c][x].route
                 PROVE  peer'[c][y].last_seen >= peer'[c][x].first_seen
      BY DEF NoStaleRebind, Registered
    <3>1. x \in Key /\ y \in Key /\ <<c, x>> # <<b, k>> /\ <<c, y>> # <<b, k>>
      BY <2>1, <2>3 DEF Key
    <3> QED BY <2>3, <3>1 DEF IInv, NoStaleRebind, Registered
  <2>8. ConnRegisteredWhileOpen'
    BY <1>1, <2>3 DEF IInv, ConnRegisteredWhileOpen, Key
  <2> QED BY <2>3, <2>4, <2>5, <2>6, <2>7, <2>8 DEF IInv
<1>3. CASE Refresh(b, k)
  <2> DEFINE g == Refreshed(p)
  <2>1. p # None /\ p \in Peer /\ UNCHANGED bands
    BY <1>1, <1>3, Typed DEF Refresh, IInv
  <2>2. /\ g \in Peer /\ g.last_seen = now /\ g.first_seen = p.first_seen
        /\ g.sink = p.sink /\ g.eligible = p.eligible /\ g.route = p.route
    BY <2>1, RefreshedFacts
  <2>3. p.first_seen <= now /\ p.first_seen \in Nat
    BY <1>1, <2>1 DEF IInv, TimeSane, Peer
  <2>4. CASE ~Validates(p)
    <3>1. peer' = [peer EXCEPT ![b][k] = g] /\ UNCHANGED sinks
      BY <1>3, <2>4 DEF Refresh
    <3> HIDE DEF g
    <3>2. /\ g.eligible <=> g.sink # None
          /\ g.sink # None => MadeFor(sinks'[g.sink], b, k)
      BY <1>1, <2>1, <2>2, <3>1 DEF IInv, SinkIffEligible, Registered
    <3>3. /\ sinks' \in [SinkId -> Sink \cup {None}]
          /\ \A t \in SinkId : sinks[t] # None => sinks'[t] = sinks[t]
          /\ \A t \in SinkId : sinks'[t] # None /\ sinks[t] = None => sinks'[t].queue = <<>>
      BY <3>1 DEF IInv, TypeOK
    <3>4. /\ peer' \in [Band -> [Key -> Peer \cup {None}]]
          /\ peer'[b][k] = g
          /\ \A d \in Band, q \in Key : <<d, q>> # <<b, k>> => peer'[d][q] = peer[d][q]
          /\ SinkIffEligible' /\ RelayIsolation'
      BY <1>1, <2>2, <3>1, <3>2, <3>3, EntrySet
    <3>5. TimeSane'
      BY <1>1, <2>2, <2>3, <3>4 DEF IInv, TypeOK, TimeSane
    <3>6. WorkShape' /\ CollectedSinksOwn' /\ UdpFresh' /\ work' \in [Worker -> Work]
      BY <1>1, <2>2, <3>3, <3>4, <3>5, UdpObserved
    <3>7. TypeOK'
      BY <1>1, <2>1, <3>3, <3>4, <3>6 DEF IInv, TypeOK
    <3>8. NoStaleRebind'
      <4> SUFFICES ASSUME NEW c \in Band, NEW x \in Udp, NEW y \in Udp,
                          peer'[c][x] # None, peer'[c][y] # None, x # y, Ip[x] = Ip[y],
                          peer'[c][x].eligible, peer'[c][x].route # 0,
                          peer'[c][y].route = peer'[c][x].route
                   PROVE  peer'[c][y].last_seen >= peer'[c][x].first_seen
        BY DEF NoStaleRebind, Registered
      <4>1. x \in Key /\ y \in Key
        BY DEF Key
      <4>2. CASE <<c, y>> = <<b, k>>
        <5>1. peer'[c][x].first_seen <= now /\ peer'[c][x] \in Peer
          BY <1>1, <3>4, <3>5, <4>1 DEF TimeSane
        <5> QED BY <1>1, <2>2, <3>4, <4>2, <5>1 DEF Peer
      <4>3. CASE <<c, y>> # <<b, k>>
        <5>1. peer'[c][y] = peer[c][y]
          BY <3>4, <4>1, <4>3
        <5>2. /\ peer[c][x] # None /\ peer[c][x].eligible = peer'[c][x].eligible
              /\ peer[c][x].route = peer'[c][x].route
              /\ peer[c][x].first_seen = peer'[c][x].first_seen
          <6>1. CASE <<c, x>> = <<b, k>>
            BY <2>1, <2>2, <3>4, <6>1
          <6>2. CASE <<c, x>> # <<b, k>>
            BY <3>4, <4>1, <6>2
          <6> QED BY <6>1, <6>2
        <5> QED BY <4>1, <5>1, <5>2 DEF IInv, NoStaleRebind, Registered
      <4> QED BY <4>2, <4>3
    <3>9. ConnRegisteredWhileOpen'
      BY <1>1, <3>4 DEF IInv, ConnRegisteredWhileOpen, Key
    <3> QED BY <3>4, <3>5, <3>6, <3>7, <3>8, <3>9 DEF IInv
  <2>5. CASE Validates(p)
    <3>1. PICK s \in SinkId :
            /\ MakeSink(s, b, k)
            /\ peer' = [peer EXCEPT ![b] = SupersedeRebound(
                 [@ EXCEPT ![k] = [g EXCEPT !.eligible = TRUE, !.sink = s]], k)]
      BY <1>3, <2>5 DEF Refresh
    <3> DEFINE e == [g EXCEPT !.eligible = TRUE, !.sink = s]
               P == [peer[b] EXCEPT ![k] = e]
    <3>2. /\ e \in Peer /\ e.eligible /\ e.sink = s /\ e.last_seen = now
          /\ e.first_seen = p.first_seen /\ e # None
      <4> HIDE DEF g
      <4>1. /\ e \in Peer /\ e.eligible /\ e.sink = s /\ e.last_seen = now
            /\ e.first_seen = p.first_seen
        BY <2>2 DEF Peer
      <4> QED BY <4>1, NoneFresh
    <3> HIDE DEF e
    <3>3. peer' = [peer EXCEPT ![b] = SupersedeRebound(P, k)]
      BY <1>1, <3>1 DEF e
    <3>4. /\ P \in PeerMap /\ P[k] = e
          /\ \A q \in Key \ {k} : P[q] = peer[b][q]
      BY <1>1, <3>2, Typed DEF PeerMap, IInv
    <3> HIDE DEF P
    <3>5. /\ P[k] # None /\ P[k].first_seen <= now /\ P[k].last_seen <= now
          /\ \A q \in Udp : P[q] # None => P[q].first_seen <= P[k].last_seen
      <4>1. now <= now
        BY <1>1
      <4>2. \A q \in Udp : P[q] # None => P[q].first_seen <= now
        BY <1>1, <2>3, <3>2, <3>4 DEF IInv, TimeSane, Key
      <4> QED BY <2>3, <3>2, <3>4, <4>1, <4>2
    <3>6. /\ TimeSane' /\ NoStaleRebind'
          /\ peer' \in [Band -> PeerMap]
          /\ \A q \in Key : /\ peer'[b][q] = None <=> P[q] = None
                            /\ P[q] # None => /\ peer'[b][q].sink = P[q].sink
                                              /\ peer'[b][q].eligible = P[q].eligible
                                              /\ peer'[b][q].first_seen = P[q].first_seen
                                              /\ peer'[b][q].last_seen = P[q].last_seen
          /\ \A c \in Band \ {b} : peer'[c] = peer[c]
      BY <1>1, <3>3, <3>4, <3>5, BandReplaced
    <3>7. /\ sinks' \in [SinkId -> Sink \cup {None}]
          /\ MadeFor(sinks'[s], b, k)
          /\ \A t \in SinkId : sinks[t] # None => sinks'[t] = sinks[t]
          /\ \A t \in SinkId : sinks'[t] # None /\ sinks[t] = None => sinks'[t].queue = <<>>
      BY <1>1, <3>1, MakeSinkFacts
    <3>8. WorkShape' /\ CollectedSinksOwn' /\ UdpFresh' /\ work' \in [Worker -> Work]
      BY <1>1, <3>2, <3>4, <3>5, <3>6, <3>7, UdpObserved
    <3>9. TypeOK'
      BY <1>1, <2>1, <3>6, <3>7, <3>8 DEF IInv, TypeOK, PeerMap
    <3>10. SinkIffEligible'
      <4> SUFFICES ASSUME NEW c \in Band, NEW q \in Key, peer'[c][q] # None
                   PROVE  /\ peer'[c][q].eligible <=> peer'[c][q].sink # None
                          /\ peer'[c][q].sink # None =>
                               MadeFor(sinks'[peer'[c][q].sink], c, q)
        BY DEF SinkIffEligible, Registered
      <4>1. CASE c = b /\ q = k
        BY <3>2, <3>4, <3>6, <3>7, <4>1, NoneFresh
      <4>2. CASE ~(c = b /\ q = k)
        <5>1. /\ peer[c][q] # None /\ peer'[c][q].sink = peer[c][q].sink
              /\ peer'[c][q].eligible = peer[c][q].eligible
          BY <3>4, <3>6, <4>2
        <5>2. /\ peer[c][q].eligible <=> peer[c][q].sink # None
              /\ peer[c][q].sink # None => MadeFor(sinks[peer[c][q].sink], c, q)
          BY <5>1 DEF IInv, SinkIffEligible, Registered
        <5>3. peer[c][q].sink # None => peer[c][q].sink \in SinkId
          BY <5>1, Typed DEF IInv, Peer
        <5> QED BY <3>7, <5>1, <5>2, <5>3 DEF MadeFor
      <4> QED BY <4>1, <4>2
    <3>11. RelayIsolation'
      BY <1>1, <3>7 DEF IInv, RelayIsolation
    <3>12. ConnRegisteredWhileOpen'
      BY <1>1, <3>4, <3>6 DEF IInv, ConnRegisteredWhileOpen, Key
    <3> QED BY <3>6, <3>8, <3>9, <3>10, <3>11, <3>12 DEF IInv
  <2> QED BY <2>4, <2>5
<1> QED BY <1>2, <1>3 DEF UdpReceive

\* The invariant holds of the empty registry.
LEMMA InitIInv == Init => IInv
<1> SUFFICES ASSUME Init PROVE IInv
  OBVIOUS
<1>1. TypeOK
  BY DEF Init, TypeOK, Work, Idle, At
<1>2. WorkShape /\ UdpFresh /\ CollectedSinksOwn
  BY DEF Init, WorkShape, UdpFresh, CollectedSinksOwn, Idle, At, Worker
<1>3. TimeSane /\ SinkIffEligible /\ RelayIsolation /\ NoStaleRebind
  BY DEF Init, TimeSane, SinkIffEligible, RelayIsolation, NoStaleRebind, Registered
<1>4. ConnRegisteredWhileOpen
  BY DEF Init, ConnRegisteredWhileOpen, Key
<1> QED BY <1>1, <1>2, <1>3, <1>4 DEF IInv

\* The inductive invariant holds in every reachable state of the registry, for
\* every number of bands, peers, tasks and links and every limit.
THEOREM RegistryInvariant == Spec => []IInv
<1>1. IInv /\ [Next]_vars => IInv'
  <2> SUFFICES ASSUME IInv, [Next]_vars PROVE IInv'
    OBVIOUS
  <2>1. ASSUME NEW f \in Frame, UdpReceive(f) PROVE IInv'
    BY <2>1, UdpReceiveStep
  <2>2. ASSUME NEW c \in Conn, Connect(c) \/ Disconnect(c) \/ AbortIngress(c) PROVE IInv'
    BY <2>2, ConnectStep, DisconnectStep, AbortIngressStep
  <2>3. ASSUME NEW w \in Slots, NEW f \in Frame, ConnReceive(w, f) \/ InjectFromLink(w, f)
        PROVE  IInv'
    BY <2>3, ConnReceiveStep, InjectFromLinkStep
  <2>4. ASSUME NEW w \in Worker, TaskStep(w) PROVE IInv'
    <3>1. ASSUME NEW s \in work[w].todo, SendConn(w, s) \/ ReserveUdp(w, s) PROVE IInv'
      BY <3>1, SendConnStep, ReserveUdpStep
    <3> QED BY <2>4, <3>1, ForwardNoBandStep, ForwardRouteStep, ForwardCollectStep,
               SendUdpStep, ForwardDoneStep DEF TaskStep
  <2>5. ASSUME NEW s \in SinkId, Write(s) \/ WriterFails(s) \/ WriterEnds(s) PROVE IInv'
    BY <2>5, WriteStep, WriterFailsStep, WriterEndsStep
  <2>6. CASE FedDrain \/ Prune \/ Tick
    BY <2>6, FedDrainStep, PruneStep, TickStep
  <2>7. CASE UNCHANGED vars
    BY <2>7 DEF vars, IInv, TypeOK, WorkShape, TimeSane, UdpFresh, SinkIffEligible, MadeFor,
       CollectedSinksOwn, RelayIsolation, NoStaleRebind, ConnRegisteredWhileOpen, Registered
  <2> QED BY <2>1, <2>2, <2>3, <2>4, <2>5, <2>6, <2>7 DEF Next
<1> QED BY InitIInv, <1>1, PTL DEF Spec

\* Type correctness of the registry, its tasks and its queues.
THEOREM TypeCorrect == Spec => []TypeOK
BY RegistryInvariant, PTL DEF IInv

\* K12, the NAT-rebind rule: no eligible peer ever shares its id with a same-IP
\* entry that was already silent when the peer appeared.
THEOREM RebindSafe == Spec => []NoStaleRebind
BY RegistryInvariant, PTL DEF IInv

\* Sinks exist exactly for eligible entries and are never mixed up.
THEOREM SinksOwned == Spec => []SinkIffEligible
BY RegistryInvariant, PTL DEF IInv

\* Bands are isolated, nothing is echoed, ROUTE is consumed, one hop only.
THEOREM RelayIsolated == Spec => []RelayIsolation
BY RegistryInvariant, PTL DEF IInv

\* A connection is registered in its band exactly while it is open.
THEOREM ConnsRegistered == Spec => []ConnRegisteredWhileOpen
BY RegistryInvariant, PTL DEF IInv

\* No declaration, by whichever peers and in whichever stage of validation, can
\* leave a frame without a destination while somebody else may receive it.
THEOREM NothingBlackHoled == Spec => []NeverBlackHoled
<1>1. IInv => NeverBlackHoled
  <2> SUFFICES ASSUME IInv, NEW b \in bands, NEW from \in Key \cup Link,
                      NEW id \in RouteId \cup {0}, NEW t \in {"addressed", "plain"},
                      Eligible(peer[b], from) # {}
               PROVE  LET f == [band |-> b, from |-> from, type |-> t, id |-> id]
                          sent == Targets(peer[b], from, f)
                      IN sent # {} /\ None \notin sent
    BY DEF NeverBlackHoled
  <2> DEFINE f == [band |-> b, from |-> from, type |-> t, id |-> id]
             sent == Targets(peer[b], from, f)
  <2>1. b \in Band
    BY DEF IInv, TypeOK
  <2>2. \A k \in Eligible(peer[b], from) : peer[b][k].sink # None
    BY <2>1 DEF IInv, SinkIffEligible, Registered, Eligible
  <2>3. PICK K \in SUBSET Eligible(peer[b], from) :
          K # {} /\ sent = {peer[b][k].sink : k \in K}
    BY DEF Targets, Declarers
  <2> QED BY <2>2, <2>3
<1> QED BY RegistryInvariant, <1>1, PTL

-----------------------------------------------------------------------------
(* The limits.                                                             *)

\* The limits, with what makes counting sound: the registry stays finite.
CapsInv ==
  /\ CapsHold /\ IsFiniteSet(bands)
  /\ \A b \in Band : IsFiniteSet(Registered(b))

\* An entry is admitted below both limits.
LEMMA InsertCaps ==
  ASSUME IInv, CapsInv, NEW b \in Band, NEW k \in Key, peer[b][k] = None, Insert(b, k)
  PROVE  CapsInv'
<1>1. /\ ~BandCap(b) /\ ~PeerCap(b) /\ bands' = bands \cup {b}
  BY DEF Insert
<1>2. PICK e : e # None /\ peer' = [peer EXCEPT ![b][k] = e]
  <2>1. PICK e \in Peer : peer' = [peer EXCEPT ![b][k] = e]
    BY InsertFacts
  <2> QED BY <2>1, NoneFresh
<1>3. peer \in [Band -> [Key -> Peer \cup {None}]]
  BY DEF IInv, TypeOK
<1>4. Registered(b)' = Registered(b) \cup {k} /\ k \notin Registered(b)
  BY <1>2, <1>3 DEF Registered
<1>5. \A d \in Band : d # b => Registered(d)' = Registered(d)
  BY <1>2, <1>3 DEF Registered
<1>6. IsFiniteSet(bands') /\ Cardinality(bands') <= MaxBands
  <2>1. CASE b \in bands
    <3>1. bands' = bands
      BY <1>1, <2>1
    <3> QED BY <3>1 DEF CapsInv, CapsHold
  <2>2. CASE b \notin bands
    <3>1. Cardinality(bands') = Cardinality(bands) + 1 /\ IsFiniteSet(bands')
      BY <1>1, <2>2, FS_AddElement DEF CapsInv
    <3>2. ~(Cardinality(bands) >= MaxBands) /\ Cardinality(bands) \in Nat /\ MaxBands \in Nat
      BY <1>1, <2>2, FS_CardinalityType, LimitsAssumption DEF BandCap, CapsInv
    <3> QED BY <3>1, <3>2
  <2> QED BY <2>1, <2>2
<1>7. IsFiniteSet(Registered(b)') /\ Cardinality(Registered(b)') <= MaxPeersPerBand
  <2>1. IsFiniteSet(Registered(b))
    BY DEF CapsInv
  <2>2. Cardinality(Registered(b)') = Cardinality(Registered(b)) + 1 /\ IsFiniteSet(Registered(b)')
    BY <1>4, <2>1, FS_AddElement
  <2>3. ~(Cardinality(Registered(b)) >= MaxPeersPerBand) /\ Cardinality(Registered(b)) \in Nat
        /\ MaxPeersPerBand \in Nat
    BY <1>1, <2>1, FS_CardinalityType, LimitsAssumption DEF PeerCap
  <2> QED BY <2>2, <2>3
<1>8. \A d \in Band : IsFiniteSet(Registered(d)') /\ Cardinality(Registered(d)') <= MaxPeersPerBand
  BY <1>5, <1>7 DEF CapsInv, CapsHold
<1>9. bands' = {d \in Band : Registered(d)' # {}}
  <2>1. bands = {d \in Band : Registered(d) # {}}
    BY DEF CapsInv, CapsHold
  <2> QED BY <1>1, <1>4, <1>5, <2>1
<1> QED BY <1>6, <1>8, <1>9 DEF CapsInv, CapsHold

\* Entries go, and with the last of a band the band.
LEMMA RemovalCaps ==
  ASSUME CapsInv, bands' \subseteq bands,
         \A b \in Band : Registered(b)' \subseteq Registered(b),
         bands' = {b \in Band : Registered(b)' # {}}
  PROVE  CapsInv'
<1>1. IsFiniteSet(bands') /\ Cardinality(bands') <= MaxBands
  <2>1. IsFiniteSet(bands) /\ Cardinality(bands) <= MaxBands
    BY DEF CapsInv, CapsHold
  <2>2. IsFiniteSet(bands') /\ Cardinality(bands') <= Cardinality(bands)
    BY <2>1, FS_Subset
  <2>3. Cardinality(bands) \in Nat /\ Cardinality(bands') \in Nat /\ MaxBands \in Nat
    BY <2>1, <2>2, FS_CardinalityType, LimitsAssumption
  <2> QED BY <2>1, <2>2, <2>3
<1>2. ASSUME NEW b \in Band
      PROVE  IsFiniteSet(Registered(b)') /\ Cardinality(Registered(b)') <= MaxPeersPerBand
  <2>1. IsFiniteSet(Registered(b)) /\ Cardinality(Registered(b)) <= MaxPeersPerBand
    BY DEF CapsInv, CapsHold
  <2>2. IsFiniteSet(Registered(b)') /\ Cardinality(Registered(b)') <= Cardinality(Registered(b))
    BY <2>1, FS_Subset
  <2>3. /\ Cardinality(Registered(b)) \in Nat /\ Cardinality(Registered(b)') \in Nat
        /\ MaxPeersPerBand \in Nat
    BY <2>1, <2>2, FS_CardinalityType, LimitsAssumption
  <2> QED BY <2>1, <2>2, <2>3
<1> QED BY <1>1, <1>2 DEF CapsInv, CapsHold

\* Steps that admit and evict nobody.
LEMMA SameCaps ==
  ASSUME CapsInv, bands' = bands, \A b \in Band : Registered(b)' = Registered(b)
  PROVE  CapsInv'
BY DEF CapsInv, CapsHold

\* An address is observed: admitted or refreshed.
LEMMA UdpReceiveCaps ==
  ASSUME IInv, CapsInv, NEW f \in Frame, UdpReceive(f)
  PROVE  CapsInv'
<1>1. PICK b \in Band, k \in Key : b = f.band /\ k = f.from
  BY DEF UdpReceive, Frame, Key
<1>2. CASE peer[b][k] = None /\ Insert(b, k)
  BY <1>2, InsertCaps
<1>3. CASE Refresh(b, k)
  <2>1. peer \in [Band -> [Key -> Peer \cup {None}]] /\ peer[b] \in PeerMap
    BY DEF IInv, TypeOK, PeerMap
  <2>2. PICK p \in Peer : p = peer[b][k] /\ p # None
    BY <1>3, Typed DEF Refresh, IInv
  <2>3. Refreshed(p) \in Peer
    BY <2>2, RefreshedFacts
  <2>4. bands' = bands
    BY <1>3 DEF Refresh
  <2>5. CASE Validates(p)
    <3>1. PICK s \in SinkId : peer' = [peer EXCEPT ![b] = SupersedeRebound(
                 [@ EXCEPT ![k] = [Refreshed(p) EXCEPT !.eligible = TRUE, !.sink = s]], k)]
      BY <1>3, <2>2, <2>5 DEF Refresh
    <3>2. PICK e \in Peer : e = [Refreshed(p) EXCEPT !.eligible = TRUE, !.sink = s] /\ e # None
      <4>1. [Refreshed(p) EXCEPT !.eligible = TRUE, !.sink = s] \in Peer
        BY <2>3 DEF Peer
      <4> QED BY <4>1, NoneFresh
    <3>3. PICK P \in PeerMap : P = [peer[b] EXCEPT ![k] = e]
      BY <2>1 DEF PeerMap
    <3>4. PICK S : S = SupersedeRebound(P, k) /\ \A q \in Key : S[q] = None <=> P[q] = None
      BY SupersedeClearsRoutes
    <3>5. peer' = [peer EXCEPT ![b] = S]
      BY <3>1, <3>2, <3>3, <3>4
    <3>6. \A q \in Key : P[q] = None <=> peer[b][q] = None
      BY <2>1, <2>2, <3>2, <3>3 DEF PeerMap
    <3>7. \A d \in Band : Registered(d)' = Registered(d)
      BY <2>1, <3>4, <3>5, <3>6 DEF Registered
    <3> QED BY <2>4, <3>7, SameCaps
  <2>6. CASE ~Validates(p)
    <3>1. peer' = [peer EXCEPT ![b][k] = Refreshed(p)]
      BY <1>3, <2>2, <2>6 DEF Refresh
    <3>2. Refreshed(p) # None
      BY <2>3, NoneFresh
    <3>3. \A d \in Band : Registered(d)' = Registered(d)
      BY <2>1, <2>2, <3>1, <3>2 DEF Registered
    <3> QED BY <2>4, <3>3, SameCaps
  <2> QED BY <2>5, <2>6
<1> QED BY <1>1, <1>2, <1>3 DEF UdpReceive

\* The limits are kept by every step.
LEMMA CapsStep ==
  ASSUME IInv, CapsInv, [Next]_vars
  PROVE  CapsInv'
<1>0. peer \in [Band -> [Key -> Peer \cup {None}]] /\ bands \in SUBSET Band
  BY DEF IInv, TypeOK
<1>1. CASE bands' = bands /\ peer' = peer
  BY <1>1, SameCaps DEF Registered
<1>2. ASSUME NEW f \in Frame, UdpReceive(f) PROVE CapsInv'
  BY <1>2, UdpReceiveCaps
<1>3. ASSUME NEW c \in Conn, Connect(c) PROVE CapsInv'
  <2>1. conn[c].band \in Band /\ c \in Key /\ peer[conn[c].band][c] = None
    BY <1>3 DEF Connect, IInv, TypeOK, ConnRegisteredWhileOpen, Key
  <2> QED BY <1>1, <1>3, <2>1, InsertCaps DEF Connect
<1>4. ASSUME NEW c \in Conn, Disconnect(c) PROVE CapsInv'
  <2>1. PICK b \in Band : b = conn[c].band
    BY DEF IInv, TypeOK
  <2>2. /\ peer' = [peer EXCEPT ![b][c] = None]
        /\ bands' = IF Registered(b) \ {c} = {} THEN bands \ {b} ELSE bands
    BY <1>4, <2>1 DEF Disconnect
  <2>3. c \in Key
    BY DEF Key
  <2>4. Registered(b)' = Registered(b) \ {c}
    BY <1>0, <2>2, <2>3 DEF Registered
  <2>5. \A d \in Band : d # b => Registered(d)' = Registered(d)
    BY <1>0, <2>2 DEF Registered
  <2>6. bands = {d \in Band : Registered(d) # {}}
    BY DEF CapsInv, CapsHold
  <2>7. b \in bands
    <3>1. peer[b][c] # None
      BY <1>4, <2>1 DEF Disconnect, IInv, ConnRegisteredWhileOpen
    <3> QED BY <2>3, <2>6, <3>1 DEF Registered
  <2>8. bands' = {d \in Band : Registered(d)' # {}}
    BY <2>2, <2>4, <2>5, <2>6, <2>7
  <2> QED BY <2>2, <2>4, <2>5, <2>8, RemovalCaps
<1>5. ASSUME Prune PROVE CapsInv'
  <2>1. /\ peer' = [b \in Band |-> [k \in Key |->
                      IF b \in bands /\ k \in Expired(b) THEN None ELSE peer[b][k]]]
        /\ bands' = {b \in bands : Registered(b) \ Expired(b) # {}}
    BY <1>5 DEF Prune
  <2>2. bands = {d \in Band : Registered(d) # {}}
    BY DEF CapsInv, CapsHold
  <2>3. \A b \in Band : Registered(b)' = IF b \in bands THEN Registered(b) \ Expired(b) ELSE Registered(b)
    BY <1>0, <2>1 DEF Registered
  <2>4. bands' = {b \in Band : Registered(b)' # {}}
    BY <2>1, <2>2, <2>3
  <2>5. bands' \subseteq bands /\ \A b \in Band : Registered(b)' \subseteq Registered(b)
    BY <2>1, <2>3
  <2> QED BY <2>4, <2>5, RemovalCaps
<1>6. ASSUME NEW w \in Slots, NEW f \in Frame, ConnReceive(w, f) PROVE CapsInv'
  <2>1. PICK b \in Band, k \in Key : b = f.band /\ k = f.from
    BY <1>6 DEF ConnReceive, Frame, Key
  <2>2. bands' = bands
    BY <1>6 DEF ConnReceive
  <2>3. CASE peer[b][k] # None
    <3>1. PICK p \in Peer : p = peer[b][k]
      BY <2>3, Typed DEF IInv
    <3>2. Refreshed(p) # None
      BY RefreshedFacts, NoneFresh
    <3>3. peer' = [peer EXCEPT ![b][k] = Refreshed(p)]
      BY <1>6, <2>1, <2>3, <3>1 DEF ConnReceive
    <3>4. \A d \in Band : Registered(d)' = Registered(d)
      BY <1>0, <2>3, <3>2, <3>3 DEF Registered
    <3> QED BY <2>2, <3>4, SameCaps
  <2>4. CASE peer[b][k] = None
    BY <1>1, <1>6, <2>1, <2>4 DEF ConnReceive
  <2> QED BY <2>3, <2>4
<1>7. ASSUME NEW w \in Worker, ForwardRoute(w) PROVE CapsInv'
  <2>1. PICK b \in Band, k \in Key, i \in RouteId \cup {0} :
          b = work[w].frame.band /\ k = work[w].frame.from /\ i = work[w].frame.id
    BY <1>7, Typed DEF ForwardRoute, IInv, WorkShape, Work, Frame
  <2>2. peer[b] \in PeerMap
    BY <1>0 DEF PeerMap
  <2>3. PICK D \in PeerMap : /\ D = IF peer[b][k] = None THEN peer[b] ELSE [peer[b] EXCEPT ![k].route = i]
                             /\ \A q \in Key : D[q] = None <=> peer[b][q] = None
    <3>1. CASE peer[b][k] = None
      BY <2>2, <3>1
    <3>2. CASE peer[b][k] # None
      <4>1. PICK p \in Peer : p = peer[b][k]
        BY <3>2, Typed DEF IInv
      <4>2. PICK e \in Peer : e = [p EXCEPT !.route = i] /\ e # None
        <5>1. [p EXCEPT !.route = i] \in Peer
          BY DEF Peer
        <5> QED BY <5>1, NoneFresh
      <4>3. [peer[b] EXCEPT ![k].route = i] = [peer[b] EXCEPT ![k] = e]
        BY <2>2, <4>1, <4>2 DEF PeerMap
      <4> QED BY <2>2, <3>2, <4>2, <4>3 DEF PeerMap
    <3> QED BY <3>1, <3>2
  <2>4. PICK S : S = SupersedeRebound(D, k) /\ \A q \in Key : S[q] = None <=> D[q] = None
    BY SupersedeClearsRoutes
  <2>5. peer' = [peer EXCEPT ![b] = S] /\ bands' = bands
    BY <1>7, <2>1, <2>3, <2>4 DEF ForwardRoute
  <2>6. \A d \in Band : Registered(d)' = Registered(d)
    BY <1>0, <2>3, <2>4, <2>5 DEF Registered
  <2> QED BY <2>5, <2>6, SameCaps
<1>8. ASSUME NEW w \in Worker, TaskStep(w) PROVE CapsInv'
  BY <1>1, <1>7, <1>8 DEF TaskStep, ForwardNoBand, ForwardCollect, SendConn, ReserveUdp, SendUdp, ForwardDone
<1>9. ASSUME NEW s \in SinkId, Write(s) \/ WriterFails(s) \/ WriterEnds(s) PROVE CapsInv'
  BY <1>1, <1>9 DEF Write, WriterFails, WriterEnds
<1>10. ASSUME NEW w \in Slots, NEW f \in Frame, InjectFromLink(w, f) PROVE CapsInv'
  BY <1>1, <1>10 DEF InjectFromLink
<1>11. ASSUME NEW c \in Conn, AbortIngress(c) PROVE CapsInv'
  BY <1>1, <1>11 DEF AbortIngress
<1>12. CASE FedDrain \/ Tick \/ UNCHANGED vars
  BY <1>1, <1>12 DEF FedDrain, Tick, vars
<1> QED BY <1>2, <1>3, <1>4, <1>5, <1>6, <1>8, <1>9, <1>10, <1>11, <1>12 DEF Next

\* D1/D2: however peers come, validate, expire and leave, no limit is exceeded and
\* no band is held that nobody is in.
THEOREM CapsAlwaysHold == Spec => []CapsHold
<1>1. Init => CapsInv
  <2>1. SUFFICES ASSUME Init PROVE CapsInv
    OBVIOUS
  <2>2. bands = {} /\ \A b \in Band : Registered(b) = {}
    BY <2>1 DEF Init, Registered
  <2>3. IsFiniteSet({}) /\ Cardinality({}) = 0 /\ MaxBands \in Nat /\ MaxPeersPerBand \in Nat
    BY FS_EmptySet, LimitsAssumption
  <2>4. IsFiniteSet(bands) /\ Cardinality(bands) <= MaxBands /\ bands = {b \in Band : Registered(b) # {}}
    BY <2>2, <2>3
  <2>5. \A b \in Band : IsFiniteSet(Registered(b)) /\ Cardinality(Registered(b)) <= MaxPeersPerBand
    BY <2>2, <2>3
  <2> QED BY <2>4, <2>5 DEF CapsInv, CapsHold
<1>2. IInv /\ CapsInv /\ [Next]_vars => CapsInv'
  BY CapsStep
<1>3. CapsInv => CapsHold
  BY DEF CapsInv
<1> QED BY <1>1, <1>2, <1>3, RegistryInvariant, PTL DEF Spec

-----------------------------------------------------------------------------
(* Who may take a route id away.                                           *)

\* `supersede_rebound` clears the id of an entry for the sake of an eligible,
\* younger one of the same IP and id only.
LEMMA SupersedeStrips ==
  ASSUME NEW P \in PeerMap, NEW k \in Key, NEW q \in Key, P[q] # None,
         SupersedeRebound(P, k)[q].route # P[q].route
  PROVE  /\ k \in Udp /\ P[k] # None /\ P[k].eligible /\ q \in Udp \ {k} /\ Ip[q] = Ip[k]
         /\ P[q].route = P[k].route /\ P[q].last_seen < P[k].first_seen
BY DEF SupersedeRebound

\* What OnlyRebindStripsId says of one entry in one step.
KeepsId(b, k) ==
  ( /\ peer[b][k].route # 0 /\ peer'[b][k] # None
    /\ peer'[b][k].route # peer[b][k].route )
  => \/ \E w \in Worker : /\ work[w].pc = "observed" /\ work'[w].pc = "idle"
                          /\ work[w].frame.from = k /\ work[w].frame.type = "route"
     \/ \E p \in Registered(b) \cap Udp :
          /\ k \in Udp /\ Ip[p] = Ip[k]
          /\ peer'[b][p].eligible /\ peer'[b][p].route = peer[b][k].route
          /\ peer'[b][p].first_seen > peer[b][k].last_seen

\* The entry k of band b changes to P[k], then supersedes.
Supersedes(b, k, P) ==
  /\ peer[b][k] # None /\ P[k] # None
  /\ \A r \in Key \ {k} : P[r] = peer[b][r]
  /\ peer' = [peer EXCEPT ![b] = SupersedeRebound(P, k)]

\* Then nobody else loses an id without cause.
LEMMA SupersedeKeepsIds ==
  ASSUME IInv, NEW b \in Band, NEW k \in Key, NEW P \in PeerMap, Supersedes(b, k, P),
         NEW d \in Band, NEW q \in Key, peer[d][q] # None, d # b \/ q # k
  PROVE  KeepsId(d, q)
<1> USE DEF Supersedes
<1>1. peer \in [Band -> [Key -> Peer \cup {None}]]
  BY DEF IInv, TypeOK
<1>2. CASE d # b
  <2>1. peer'[d] = peer[d]
    BY <1>1, <1>2
  <2> QED BY <2>1 DEF KeepsId
<1>3. CASE d = b /\ q # k
  <2>1. PICK S : S = SupersedeRebound(P, k) /\ peer'[b] = S
    BY <1>1
  <2>2. SUFFICES ASSUME S[q].route # P[q].route
                 PROVE  \E p \in Registered(b) \cap Udp :
                          /\ q \in Udp /\ Ip[p] = Ip[q]
                          /\ S[p].eligible /\ S[p].route = P[q].route
                          /\ S[p].first_seen > P[q].last_seen
    BY <1>1, <1>3, <2>1 DEF KeepsId
  <2>3. P[q] # None
    BY <1>1, <1>3
  <2>4. /\ k \in Udp /\ P[k].eligible /\ q \in Udp \ {k} /\ Ip[q] = Ip[k]
        /\ P[q].route = P[k].route /\ P[q].last_seen < P[k].first_seen
    BY <1>1, <2>1, <2>2, <2>3, SupersedeStrips
  <2>5. S[k] = P[k]
    BY <2>1, SupersedeClearsRoutes
  <2>6. k \in Registered(b)
    BY DEF Registered
  <2>7. P[q].last_seen \in Nat /\ P[k].first_seen \in Nat
    <3>1. P[q] \in Peer /\ P[k] \in Peer
      BY <1>1, <2>3 DEF PeerMap
    <3> QED BY <3>1 DEF Peer
  <2> QED BY <2>4, <2>5, <2>6, <2>7
<1> QED BY <1>2, <1>3

\* Every step keeps every id it has no cause to take.
LEMMA KeepsIdStep ==
  ASSUME IInv, Next, NEW d \in Band, NEW q \in Registered(d)
  PROVE  KeepsId(d, q)
<1>1. /\ peer \in [Band -> [Key -> Peer \cup {None}]] /\ q \in Key /\ peer[d][q] # None
      /\ peer[d][q] \in Peer
  BY Typed DEF IInv, TypeOK, Registered
<1>2. CASE peer' = peer
  BY <1>2 DEF KeepsId
<1>3. CASE peer'[d][q] = None \/ peer'[d][q] = peer[d][q] \/ peer'[d][q].route = peer[d][q].route
  BY <1>3 DEF KeepsId
<1>4. ASSUME NEW b \in Band, NEW k \in Key, peer[b][k] = None, Insert(b, k) PROVE KeepsId(d, q)
  <2>1. PICK e : peer' = [peer EXCEPT ![b][k] = e]
    BY <1>4 DEF Insert
  <2>2. d # b \/ q # k
    BY <1>1, <1>4
  <2>3. peer'[d][q] = peer[d][q]
    BY <1>1, <2>1, <2>2
  <2> QED BY <1>3, <2>3
<1>5. ASSUME NEW f \in Frame, UdpReceive(f) PROVE KeepsId(d, q)
  <2>1. PICK b \in Band, k \in Key : b = f.band /\ k = f.from
    BY <1>5 DEF UdpReceive, Frame, Key
  <2>2. CASE peer[b][k] = None /\ Insert(b, k)
    BY <1>4, <2>2
  <2>3. CASE Refresh(b, k)
    <3>1. PICK p \in Peer : p = peer[b][k] /\ p # None
      BY <2>3, Typed DEF Refresh, IInv
    <3>2. Refreshed(p) \in Peer /\ Refreshed(p).route = p.route
      BY <3>1, RefreshedFacts
    <3>3. CASE Validates(p)
      <4>1. PICK s \in SinkId : peer' = [peer EXCEPT ![b] = SupersedeRebound(
                 [@ EXCEPT ![k] = [Refreshed(p) EXCEPT !.eligible = TRUE, !.sink = s]], k)]
        BY <2>3, <3>1, <3>3 DEF Refresh
      <4>2. PICK e \in Peer : /\ e = [Refreshed(p) EXCEPT !.eligible = TRUE, !.sink = s]
                              /\ e # None /\ e.route = p.route
        <5>1. /\ [Refreshed(p) EXCEPT !.eligible = TRUE, !.sink = s] \in Peer
              /\ [Refreshed(p) EXCEPT !.eligible = TRUE, !.sink = s].route = p.route
          BY <3>2 DEF Peer
        <5> QED BY <5>1, NoneFresh
      <4>3. PICK P \in PeerMap : P = [peer[b] EXCEPT ![k] = e]
        BY <1>1 DEF PeerMap
      <4>4. peer' = [peer EXCEPT ![b] = SupersedeRebound(P, k)]
        BY <4>1, <4>2, <4>3
      <4>5. P[k] = e /\ \A r \in Key \ {k} : P[r] = peer[b][r]
        BY <1>1, <4>3
      <4>6. CASE d # b \/ q # k
        <5>1. peer[b][k] # None /\ P[k] # None
          BY <3>1, <4>2, <4>5
        <5>2. Supersedes(b, k, P)
          BY <4>4, <4>5, <5>1 DEF Supersedes
        <5> QED BY <1>1, <4>6, <5>2, SupersedeKeepsIds
      <4>7. CASE d = b /\ q = k
        <5>1. peer'[b][k] = P[k]
          <6>1. SupersedeRebound(P, k)[k] = P[k]
            BY SupersedeClearsRoutes
          <6> QED BY <1>1, <4>4, <6>1
        <5> QED BY <1>3, <3>1, <4>2, <4>5, <4>7, <5>1
      <4> QED BY <4>6, <4>7
    <3>4. CASE ~Validates(p)
      <4>1. peer' = [peer EXCEPT ![b][k] = Refreshed(p)]
        BY <2>3, <3>1, <3>4 DEF Refresh
      <4>2. peer'[d][q].route = peer[d][q].route
        BY <1>1, <3>1, <3>2, <4>1
      <4> QED BY <1>3, <4>2
    <3> QED BY <3>3, <3>4
  <2> QED BY <1>5, <2>1, <2>2, <2>3 DEF UdpReceive
<1>6. ASSUME NEW c \in Conn, Connect(c) PROVE KeepsId(d, q)
  <2>1. conn[c].band \in Band /\ c \in Key /\ peer[conn[c].band][c] = None
    BY <1>6 DEF Connect, IInv, TypeOK, ConnRegisteredWhileOpen, Key
  <2> QED BY <1>2, <1>4, <1>6, <2>1 DEF Connect
<1>7. ASSUME NEW c \in Conn, Disconnect(c) PROVE KeepsId(d, q)
  <2>1. peer' = [peer EXCEPT ![conn[c].band][c] = None]
    BY <1>7 DEF Disconnect
  <2>2. peer'[d][q] = None \/ peer'[d][q] = peer[d][q]
    BY <1>1, <2>1
  <2> QED BY <1>3, <2>2
<1>8. ASSUME Prune PROVE KeepsId(d, q)
  <2>1. peer'[d][q] = None \/ peer'[d][q] = peer[d][q]
    BY <1>1, <1>8 DEF Prune
  <2> QED BY <1>3, <2>1
<1>9. ASSUME NEW w \in Slots, NEW f \in Frame, ConnReceive(w, f) PROVE KeepsId(d, q)
  <2>1. PICK b \in Band, k \in Key : b = f.band /\ k = f.from
    BY <1>9 DEF ConnReceive, Frame, Key
  <2>2. CASE peer[b][k] # None
    <3>1. PICK p \in Peer : p = peer[b][k]
      BY <2>2, Typed DEF IInv
    <3>2. Refreshed(p).route = p.route
      BY RefreshedFacts
    <3>3. peer' = [peer EXCEPT ![b][k] = Refreshed(p)]
      BY <1>9, <2>1, <2>2, <3>1 DEF ConnReceive
    <3>4. peer'[d][q].route = peer[d][q].route
      BY <1>1, <3>1, <3>2, <3>3
    <3> QED BY <1>3, <3>4
  <2>3. CASE peer[b][k] = None
    BY <1>2, <1>9, <2>1, <2>3 DEF ConnReceive
  <2> QED BY <2>2, <2>3
<1>10. ASSUME NEW w \in Worker, ForwardRoute(w) PROVE KeepsId(d, q)
  <2>1. PICK b \in Band, k \in Key, i \in RouteId \cup {0} :
          b = work[w].frame.band /\ k = work[w].frame.from /\ i = work[w].frame.id
    BY <1>10, Typed DEF ForwardRoute, IInv, WorkShape, Work, Frame
  <2>2. CASE peer[b][k] = None
    <3>1. peer' = [peer EXCEPT ![b] = SupersedeRebound(peer[b], k)]
      BY <1>10, <2>1, <2>2 DEF ForwardRoute
    <3>2. SupersedeRebound(peer[b], k) = peer[b]
      BY <2>2 DEF SupersedeRebound
    <3>3. peer' = peer
      BY <1>1, <3>1, <3>2
    <3> QED BY <1>2, <3>3
  <2>3. CASE peer[b][k] # None
    <3>1. PICK p \in Peer : p = peer[b][k]
      BY <2>3, Typed DEF IInv
    <3>2. PICK e \in Peer : e = [p EXCEPT !.route = i] /\ e # None
      <4>1. [p EXCEPT !.route = i] \in Peer
        BY DEF Peer
      <4> QED BY <4>1, NoneFresh
    <3>3. PICK P \in PeerMap : P = [peer[b] EXCEPT ![k] = e]
      BY <1>1 DEF PeerMap
    <3>4. [peer[b] EXCEPT ![k].route = i] = P
      BY <1>1, <3>1, <3>2, <3>3
    <3>5. peer' = [peer EXCEPT ![b] = SupersedeRebound(P, k)]
      BY <1>10, <2>1, <2>3, <3>4 DEF ForwardRoute
    <3>6. P[k] = e /\ \A r \in Key \ {k} : P[r] = peer[b][r]
      BY <1>1, <3>3
    <3>7. CASE d # b \/ q # k
      <4>1. P[k] # None
        BY <3>2, <3>6
      <4>2. Supersedes(b, k, P)
        BY <2>3, <3>5, <3>6, <4>1 DEF Supersedes
      <4> QED BY <1>1, <3>7, <4>2, SupersedeKeepsIds
    <3>8. CASE d = b /\ q = k
      <4>1. work[w].pc = "observed" /\ work'[w].pc = "idle" /\ work[w].frame.type = "route"
        BY <1>10 DEF ForwardRoute, IInv, TypeOK, Idle, At
      <4> QED BY <2>1, <3>8, <4>1 DEF KeepsId
    <3> QED BY <3>7, <3>8
  <2> QED BY <2>2, <2>3
<1>11. ASSUME NEW w \in Worker, TaskStep(w) PROVE KeepsId(d, q)
  BY <1>2, <1>10, <1>11 DEF TaskStep, ForwardNoBand, ForwardCollect, SendConn, ReserveUdp, SendUdp, ForwardDone
<1>12. ASSUME NEW s \in SinkId, Write(s) \/ WriterFails(s) \/ WriterEnds(s) PROVE KeepsId(d, q)
  BY <1>2, <1>12 DEF Write, WriterFails, WriterEnds
<1>13. ASSUME NEW w \in Slots, NEW f \in Frame, InjectFromLink(w, f) PROVE KeepsId(d, q)
  BY <1>2, <1>13 DEF InjectFromLink
<1>14. ASSUME NEW c \in Conn, AbortIngress(c) PROVE KeepsId(d, q)
  BY <1>2, <1>14 DEF AbortIngress
<1>15. CASE FedDrain \/ Tick
  BY <1>2, <1>15 DEF FedDrain, Tick
<1> QED BY <1>5, <1>6, <1>7, <1>8, <1>9, <1>11, <1>12, <1>13, <1>14, <1>15 DEF Next

\* K12's other half: a peer loses its route id by its own ROUTE frame, by eviction or
\* to a younger peer of its address that has the same id, and in no other way.
THEOREM IdsOnlyRebound == Spec => OnlyRebindStripsId
<1>1. IInv /\ [Next]_vars => [\A b \in Band : \A k \in Registered(b) : KeepsId(b, k)]_vars
  BY KeepsIdStep
<1>2. IInv /\ [Next]_vars =>
        [\A b \in Band : \A k \in Registered(b) :
           ( /\ peer[b][k].route # 0 /\ peer'[b][k] # None
             /\ peer'[b][k].route # peer[b][k].route )
           => \/ \E w \in Worker : /\ work[w].pc = "observed" /\ work'[w].pc = "idle"
                                   /\ work[w].frame.from = k /\ work[w].frame.type = "route"
              \/ \E p \in Registered(b) \cap Udp :
                   /\ k \in Udp /\ Ip[p] = Ip[k]
                   /\ peer'[b][p].eligible /\ peer'[b][p].route = peer[b][k].route
                   /\ peer'[b][p].first_seen > peer[b][k].last_seen]_vars
  BY <1>1 DEF KeepsId
<1> QED BY <1>2, RegistryInvariant, PTL DEF Spec, OnlyRebindStripsId

-----------------------------------------------------------------------------
(* The byte budget.                                                        *)

\* The charges counted by BudgetExact.
Queued == SumFunction([s \in SinkId |-> SinkBytes(sinks[s])])
Reserved == SumFunction([w \in Worker |-> ReservedBytes(work[w])])

\* A frame that was charged goes to a UDP queue, and nowhere else.
ReservedForUdp ==
  \A w \in Worker : work[w].pc = "reserved" => sinks[work[w].cur].key \in Udp

BudgetInv == BudgetExact /\ ReservedForUdp

\* A frame has a positive length.
LEMMA LenType == \A f \in Frame : f.len \in Int /\ f.len > 0
<1>1. \A f \in Frame : f.len \in FrameLen
  BY DEF Frame
<1>2. \A n \in FrameLen : n \in Int /\ n > 0
  BY LensPositive
<1> QED BY <1>1, <1>2

\* Frame lengths are integers, so the bytes in a queue are one too.
LEMMA BytesType ==
  ASSUME NEW q \in Seq(Frame)
  PROVE  /\ QueuedBytes(q) \in Int
         /\ q = <<>> => QueuedBytes(q) = 0
<1>1. PICK g : g = [i \in DOMAIN q |-> q[i].len]
  OBVIOUS
<1>2. PICK n \in Nat : n = Len(q) /\ DOMAIN q = 1..n
  OBVIOUS
<1>3. IsFiniteSet(1..n) /\ IntOn(g, 1..n)
  <2>1. \A i \in 1..n : q[i] \in Frame
    BY <1>2
  <2>2. \A i \in 1..n : g[i] \in Int
    BY <1>1, <1>2, <2>1, LenType
  <2>3. 1 \in Int /\ n \in Int
    OBVIOUS
  <2> QED BY <2>2, <2>3, FS_Interval DEF IntOn
<1>4. QueuedBytes(q) = SumFunctionOnSet(g, 1..n)
  BY <1>1, <1>2 DEF QueuedBytes, SumFunction
<1>5. q = <<>> => 1..n = {}
  BY <1>2
<1> QED BY <1>3, <1>4, <1>5, SumAny, SumStep

\* A frame put at the end adds its length.
LEMMA BytesAppend ==
  ASSUME NEW q \in Seq(Frame), NEW f \in Frame
  PROVE  QueuedBytes(Append(q, f)) = QueuedBytes(q) + f.len
<1>1. PICK n \in Nat : n = Len(q) /\ DOMAIN q = 1..n
  OBVIOUS
<1>2. PICK r \in Seq(Frame) : r = Append(q, f)
  <2>1. Append(q, f) \in Seq(Frame)
    OBVIOUS
  <2> QED BY <2>1
<1>3. /\ DOMAIN r = 1..(n + 1) /\ r[n + 1] = f
      /\ \A i \in 1..n : r[i] = q[i] /\ i \in 1..(n + 1)
  BY <1>1, <1>2
<1>4. PICK g : g = [i \in DOMAIN q |-> q[i].len]
  OBVIOUS
<1>5. PICK h : h = [i \in DOMAIN r |-> r[i].len]
  OBVIOUS
<1>6. QueuedBytes(q) = SumFunctionOnSet(g, 1..n) /\ QueuedBytes(r) = SumFunctionOnSet(h, 1..(n + 1))
  BY <1>1, <1>3, <1>4, <1>5 DEF QueuedBytes, SumFunction
<1>7. \A i \in 1..n : h[i] = g[i] /\ g[i] \in Int
  <2>1. \A i \in 1..n : q[i] \in Frame
    BY <1>1
  <2> QED BY <1>1, <1>3, <1>4, <1>5, <2>1, LenType
<1>8. n + 1 \in 1..(n + 1) /\ h[n + 1] = f.len /\ f.len \in Int
  BY <1>3, <1>5, LenType
<1>9. PICK U : U = 1..(n + 1)
  OBVIOUS
<1>10. PICK T : T = 1..n
  OBVIOUS
<1>11. PICK j : j = n + 1
  OBVIOUS
<1>12. T = U \ {j} /\ j \in U /\ U = T \cup {j}
  BY <1>9, <1>10, <1>11
<1>13. IntOn(h, U) /\ IntOn(g, T) /\ \A i \in T : h[i] = g[i]
  BY <1>7, <1>8, <1>10, <1>11, <1>12 DEF IntOn
<1>14. IsFiniteSet(U) /\ IsFiniteSet(T)
  <2>1. 1 \in Int /\ n \in Int /\ n + 1 \in Int
    OBVIOUS
  <2> QED BY <1>9, <1>10, <2>1, FS_Interval
<1>15. SumFunctionOnSet(h, U) = h[j] + SumFunctionOnSet(h, U \ {j})
  BY <1>12, <1>13, <1>14, SumAny
<1>16. SumFunctionOnSet(h, T) = SumFunctionOnSet(g, T) /\ SumFunctionOnSet(g, T) \in Int
  BY <1>13, <1>14, SumCong, SumAny
<1>17. QueuedBytes(r) = SumFunctionOnSet(h, U) /\ QueuedBytes(q) = SumFunctionOnSet(g, T)
  BY <1>6, <1>9, <1>10
<1>18. h[j] = f.len /\ f.len \in Int
  BY <1>8, <1>11
<1>19. SumFunctionOnSet(h, U) = f.len + SumFunctionOnSet(g, T)
  BY <1>12, <1>15, <1>16, <1>18
<1> QED BY <1>2, <1>16, <1>17, <1>18, <1>19

\* The frame at the head accounts for what the others do not.
LEMMA BytesTail ==
  ASSUME NEW q \in Seq(Frame), q # <<>>
  PROVE  QueuedBytes(q) = Head(q).len + QueuedBytes(Tail(q))
<1>1. PICK n \in Nat : n + 1 = Len(q) /\ DOMAIN q = 1..(n + 1)
  <2>1. Len(q) \in Nat /\ Len(q) # 0 /\ DOMAIN q = 1..Len(q)
    OBVIOUS
  <2>2. Len(q) - 1 \in Nat /\ Len(q) - 1 + 1 = Len(q)
    BY <2>1
  <2> QED BY <2>1, <2>2
<1>2. PICK r \in Seq(Frame) : r = Tail(q)
  <2>1. Tail(q) \in Seq(Frame)
    OBVIOUS
  <2> QED BY <2>1
<1>3. DOMAIN r = 1..n /\ \A i \in 1..n : r[i] = q[i + 1]
  BY <1>1, <1>2
<1>4. PICK g : g = [i \in DOMAIN q |-> q[i].len]
  OBVIOUS
<1>5. PICK h : h = [i \in DOMAIN r |-> r[i].len]
  OBVIOUS
<1>6. QueuedBytes(q) = SumFunctionOnSet(g, 1..(n + 1)) /\ QueuedBytes(r) = SumFunctionOnSet(h, 1..n)
  BY <1>1, <1>3, <1>4, <1>5 DEF QueuedBytes, SumFunction
<1>7. IntOn(g, 1..(n + 1))
  <2>1. \A i \in 1..(n + 1) : q[i] \in Frame
    BY <1>1
  <2> QED BY <1>1, <1>4, <2>1, LenType DEF IntOn
<1>8. \A i \in 1..n : i + 1 \in 1..(n + 1)
  OBVIOUS
<1>9. \A i \in 1..n : h[i] = g[i + 1]
  BY <1>1, <1>3, <1>4, <1>5, <1>8
<1>10. g[1] = Head(q).len
  BY <1>1, <1>4
<1>11. SumFunctionOnSet(g, 1..(n + 1)) = g[1] + SumFunctionOnSet(h, 1..n)
  BY <1>7, <1>9, SumShift
<1> QED BY <1>2, <1>6, <1>10, <1>11

\* One sink, one task changes and no other.
SinkBecomes(s, q) == sinks' = [sinks EXCEPT ![s] = q]
TaskBecomes(w, t) == work' = [work EXCEPT ![w] = t]

\* What a single sink or task is charged is an integer.
LEMMA ChargeTypes ==
  ASSUME TypeOK, WorkShape
  PROVE  /\ \A s \in SinkId : SinkBytes(sinks[s]) \in Int
         /\ \A w \in Worker : ReservedBytes(work[w]) \in Int
<1>1. ASSUME NEW s \in SinkId PROVE SinkBytes(sinks[s]) \in Int
  <2>1. CASE sinks[s] = None
    BY <2>1 DEF SinkBytes
  <2>2. CASE sinks[s] # None
    <3>1. sinks[s].queue \in Seq(Frame)
      BY <2>2, Typed DEF Sink
    <3>2. QueuedBytes(sinks[s].queue) \in Int
      BY <3>1, BytesType
    <3> QED BY <3>2 DEF SinkBytes
  <2> QED BY <2>1, <2>2
<1>2. ASSUME NEW w \in Worker PROVE ReservedBytes(work[w]) \in Int
  <2>1. CASE work[w].pc # "reserved"
    BY <2>1 DEF ReservedBytes
  <2>2. CASE work[w].pc = "reserved"
    <3>1. work[w].frame \in Frame
      BY <2>2, Typed DEF Work, WorkShape
    <3>2. work[w].frame.len \in Int
      BY <3>1, LenType
    <3> QED BY <3>2 DEF ReservedBytes
  <2> QED BY <2>1, <2>2
<1> QED BY <1>1, <1>2

\* The charges are integers.
LEMMA TotalTypes ==
  ASSUME TypeOK, WorkShape
  PROVE  Queued \in Int /\ Reserved \in Int
<1>1. PICK g : g = [s \in SinkId |-> SinkBytes(sinks[s])]
  OBVIOUS
<1>2. PICK h : h = [w \in Worker |-> ReservedBytes(work[w])]
  OBVIOUS
<1>3. IntOn(g, SinkId) /\ IntOn(h, Worker)
  BY <1>1, <1>2, ChargeTypes DEF IntOn
<1>4. IsFiniteSet(SinkId) /\ IsFiniteSet(Worker)
  BY TasksFinite, FS_Singleton, FS_Union DEF Worker
<1>5. Queued = SumFunctionOnSet(g, SinkId) /\ Reserved = SumFunctionOnSet(h, Worker)
  BY <1>1, <1>2 DEF Queued, Reserved, SumFunction
<1> QED BY <1>3, <1>4, <1>5, SumAny

\* A step that changes one sink changes the queued bytes by what it changes there.
LEMMA SinkChange ==
  ASSUME TypeOK, WorkShape, NEW s \in SinkId, NEW q, SinkBytes(q) \in Int,
         SinkBecomes(s, q)
  PROVE  Queued' = Queued - SinkBytes(sinks[s]) + SinkBytes(q)
<1>1. PICK g : g = [r \in SinkId |-> SinkBytes(sinks[r])]
  OBVIOUS
<1>2. PICK h : h = [r \in SinkId |-> SinkBytes(sinks'[r])]
  OBVIOUS
<1>3. DOMAIN sinks = SinkId
  BY DEF TypeOK
<1>4. sinks'[s] = q /\ \A r \in SinkId : r # s => sinks'[r] = sinks[r]
  BY <1>3 DEF SinkBecomes
<1>5. h[s] = SinkBytes(q) /\ \A r \in SinkId : r # s => h[r] = g[r]
  BY <1>1, <1>2, <1>4
<1>6. IntOn(g, SinkId) /\ h[s] \in Int /\ IsFiniteSet(SinkId) /\ g[s] = SinkBytes(sinks[s])
  BY <1>1, <1>5, ChargeTypes, TasksFinite DEF IntOn
<1>7. SumFunctionOnSet(h, SinkId) = SumFunctionOnSet(g, SinkId) - g[s] + h[s]
  BY <1>5, <1>6, SumUpdate
<1>8. Queued = SumFunctionOnSet(g, SinkId)
  BY <1>1 DEF Queued, SumFunction
<1>9. Queued' = SumFunctionOnSet(h, SinkId)
  BY <1>2 DEF Queued, SumFunction
<1> QED BY <1>5, <1>6, <1>7, <1>8, <1>9

\* A step of one task changes the reserved bytes by what it changes there.
LEMMA TaskChange ==
  ASSUME TypeOK, WorkShape, NEW w \in Worker, NEW t, ReservedBytes(t) \in Int,
         TaskBecomes(w, t)
  PROVE  Reserved' = Reserved - ReservedBytes(work[w]) + ReservedBytes(t)
<1>1. PICK g : g = [v \in Worker |-> ReservedBytes(work[v])]
  OBVIOUS
<1>2. PICK h : h = [v \in Worker |-> ReservedBytes(work'[v])]
  OBVIOUS
<1>3. DOMAIN work = Worker
  BY DEF TypeOK
<1>4. work'[w] = t /\ \A v \in Worker : v # w => work'[v] = work[v]
  BY <1>3 DEF TaskBecomes
<1>5. h[w] = ReservedBytes(t) /\ \A v \in Worker : v # w => h[v] = g[v]
  BY <1>1, <1>2, <1>4
<1>6. IsFiniteSet(Worker)
  BY TasksFinite, FS_Singleton, FS_Union DEF Worker
<1>7. IntOn(g, Worker) /\ h[w] \in Int /\ g[w] = ReservedBytes(work[w])
  BY <1>1, <1>5, ChargeTypes DEF IntOn
<1>8. SumFunctionOnSet(h, Worker) = SumFunctionOnSet(g, Worker) - g[w] + h[w]
  BY <1>5, <1>6, <1>7, SumUpdate
<1>9. Reserved = SumFunctionOnSet(g, Worker)
  BY <1>1 DEF Reserved, SumFunction
<1>10. Reserved' = SumFunctionOnSet(h, Worker)
  BY <1>2 DEF Reserved, SumFunction
<1> QED BY <1>5, <1>7, <1>8, <1>9, <1>10

\* No sink changes its owner, and no task takes on a new charge.
OwnersKept ==
  \A s \in SinkId : sinks[s] # None /\ sinks'[s] # None => sinks'[s].key = sinks[s].key
NoNewCharge ==
  \A w \in Worker : work'[w].pc = "reserved" => work[w].pc = "reserved" /\ work'[w].cur = work[w].cur

\* A step that moves no bytes keeps the budget exact.
LEMMA BudgetKept ==
  ASSUME IInv, IInv', BudgetInv, used' = used, Queued' = Queued, Reserved' = Reserved,
         OwnersKept, NoNewCharge
  PROVE  BudgetInv'
<1>1. BudgetExact'
  BY DEF BudgetInv, BudgetExact, Queued, Reserved
<1>2. ASSUME NEW w \in Worker, work'[w].pc = "reserved" PROVE sinks'[work'[w].cur].key \in Udp
  <2>1. PICK c : c = work'[w].cur /\ c = work[w].cur /\ work[w].pc = "reserved"
    BY <1>2 DEF NoNewCharge
  <2>2. c # None /\ c \in SinkId
    BY <2>1, Typed DEF IInv, WorkShape, Work
  <2>3. sinks[c] # None
    BY <2>1, <2>2 DEF IInv, CollectedSinksOwn
  <2>4. sinks'[c] # None
    BY <2>1, <2>2 DEF IInv, CollectedSinksOwn
  <2>5. sinks[c].key \in Udp
    BY <2>1 DEF BudgetInv, ReservedForUdp
  <2> QED BY <2>1, <2>2, <2>3, <2>4, <2>5 DEF OwnersKept
<1> QED BY <1>1, <1>2 DEF BudgetInv, ReservedForUdp

\* A task that neither had nor takes a charge moves no bytes.
LEMMA TaskQuiet ==
  ASSUME IInv, NEW w \in Worker, NEW t, TaskBecomes(w, t),
         work[w].pc # "reserved", t.pc # "reserved"
  PROVE  Reserved' = Reserved /\ NoNewCharge
<1>1. ReservedBytes(work[w]) = 0 /\ ReservedBytes(t) = 0
  BY DEF ReservedBytes
<1>2. Reserved' = Reserved - ReservedBytes(work[w]) + ReservedBytes(t)
  <2>1. TypeOK /\ WorkShape /\ ReservedBytes(t) \in Int
    BY <1>1 DEF IInv
  <2> QED BY <2>1, TaskChange
<1>3. Reserved \in Int
  BY TotalTypes DEF IInv
<1>4. DOMAIN work = Worker
  BY DEF IInv, TypeOK
<1> QED BY <1>1, <1>2, <1>3, <1>4 DEF NoNewCharge, TaskBecomes

\* A new sink is empty.
LEMMA SinkMade ==
  ASSUME IInv, NEW s \in SinkId, NEW b, NEW k, MakeSink(s, b, k)
  PROVE  Queued' = Queued /\ OwnersKept
<1>1. PICK q : q = [band |-> b, key |-> k, queue |-> <<>>, open |-> TRUE]
  OBVIOUS
<1>2. sinks[s] = None /\ SinkBecomes(s, q)
  BY <1>1 DEF MakeSink, SinkBecomes
<1>3. SinkBytes(q) = 0
  <2>1. << >> \in Seq(Frame)
    OBVIOUS
  <2>2. QueuedBytes(<< >>) = 0
    BY <2>1, BytesType
  <2> QED BY <1>1, <2>2 DEF SinkBytes
<1>4. SinkBytes(sinks[s]) = 0
  BY <1>2 DEF SinkBytes
<1>5. Queued' = Queued - SinkBytes(sinks[s]) + SinkBytes(q)
  <2>1. TypeOK /\ WorkShape /\ SinkBytes(q) \in Int
    BY <1>3 DEF IInv
  <2> QED BY <1>2, <2>1, SinkChange
<1>6. Queued \in Int
  BY TotalTypes DEF IInv
<1>7. DOMAIN sinks = SinkId
  BY DEF IInv, TypeOK
<1> QED BY <1>2, <1>3, <1>4, <1>5, <1>6, <1>7 DEF OwnersKept, SinkBecomes

\* So is the one an admitted peer gets, if it gets one.
LEMMA InsertQueued ==
  ASSUME IInv, NEW b, NEW k, Insert(b, k)
  PROVE  Queued' = Queued /\ OwnersKept
<1>1. PICK s \in SinkId \cup {None} :
        IF ValidAtOnce(k) THEN s # None /\ MakeSink(s, b, k) ELSE s = None /\ UNCHANGED sinks
  BY DEF Insert
<1>2. CASE ValidAtOnce(k)
  BY <1>1, <1>2, SinkMade
<1>3. CASE sinks' = sinks
  BY <1>3 DEF Queued, OwnersKept
<1> QED BY <1>1, <1>2, <1>3

\* Ingress: validation and admission make empty queues.
LEMMA UdpReceiveBudget ==
  ASSUME IInv, IInv', BudgetInv, NEW f \in Frame, UdpReceive(f)
  PROVE  BudgetInv'
<1>1. PICK t : t = At("observed", f, {}, None)
  OBVIOUS
<1>2. TaskBecomes(UdpLoop, t) /\ work[UdpLoop].pc = "idle" /\ used' = used
  BY <1>1 DEF UdpReceive, TaskBecomes
<1>3. UdpLoop \in Worker /\ t.pc = "observed"
  BY <1>1 DEF Worker, At
<1>4. Reserved' = Reserved /\ NoNewCharge
  BY <1>2, <1>3, TaskQuiet
<1>5. Queued' = Queued /\ OwnersKept
  <2>1. CASE Refresh(f.band, f.from)
    <3>1. CASE sinks' = sinks
      BY <3>1 DEF Queued, OwnersKept
    <3>2. ASSUME NEW s \in SinkId, MakeSink(s, f.band, f.from) PROVE Queued' = Queued /\ OwnersKept
      BY <3>2, SinkMade
    <3> QED BY <2>1, <3>1, <3>2 DEF Refresh
  <2>2. CASE Insert(f.band, f.from)
    BY <2>2, InsertQueued
  <2> QED BY <2>1, <2>2 DEF UdpReceive
<1> QED BY <1>2, <1>4, <1>5, BudgetKept

\* A send to a connection is not charged.
LEMMA SendConnBudget ==
  ASSUME IInv, IInv', BudgetInv, NEW w \in Worker, NEW s \in work[w].todo, SendConn(w, s)
  PROVE  BudgetInv'
<1>1. PICK t : t = At("dispatch", work[w].frame, work[w].todo \ {s}, None)
  OBVIOUS
<1>2. TaskBecomes(w, t) /\ work[w].pc = "dispatch" /\ used' = used
  BY <1>1 DEF SendConn, TaskBecomes
<1>3. Reserved' = Reserved /\ NoNewCharge
  <2>1. t.pc # "reserved"
    BY <1>1 DEF At
  <2> QED BY <1>2, <2>1, TaskQuiet
<1>4. Queued' = Queued /\ OwnersKept
  <2>1. CASE sinks' = sinks
    BY <2>1 DEF Queued, OwnersKept
  <2>2. CASE Enqueue(s, work[w].frame)
    <3>1. s \in SinkId /\ sinks[s] # None
      BY Typed DEF IInv, Work, CollectedSinksOwn
    <3>2. PICK q : q = [sinks[s] EXCEPT !.queue = Append(@, work[w].frame)]
      OBVIOUS
    <3>3. SinkBecomes(s, q)
      BY <2>2, <3>1, <3>2 DEF Enqueue, IInv, TypeOK, SinkBecomes
    <3>4. sinks[s].key \in Conn
      BY DEF SendConn
    <3>5. q.key = sinks[s].key
      BY <3>1, <3>2, Typed DEF IInv, Sink
    <3>6. SinkBytes(q) = 0 /\ SinkBytes(sinks[s]) = 0
      BY <3>4, <3>5, KeysDisjoint DEF SinkBytes
    <3>7. Queued' = Queued - SinkBytes(sinks[s]) + SinkBytes(q)
      <4>1. TypeOK /\ WorkShape /\ SinkBytes(q) \in Int
        BY <3>6 DEF IInv
      <4> QED BY <3>1, <3>3, <4>1, SinkChange
    <3>8. Queued \in Int /\ DOMAIN sinks = SinkId
      BY TotalTypes DEF IInv, TypeOK
    <3> QED BY <3>1, <3>3, <3>5, <3>6, <3>7, <3>8 DEF OwnersKept, SinkBecomes
  <2> QED BY <2>1, <2>2 DEF SendConn
<1> QED BY <1>2, <1>3, <1>4, BudgetKept

\* try_reserve: the task's charge and the counter rise together, within the limit.
LEMMA ReserveUdpBudget ==
  ASSUME IInv, IInv', BudgetInv, NEW w \in Worker, NEW s \in work[w].todo, ReserveUdp(w, s)
  PROVE  BudgetInv'
<1>1. /\ work[w].pc = "dispatch" /\ sinks[s].key \in Udp /\ sinks' = sinks
      /\ \A v \in Worker : work[v] \in Work
  BY Typed DEF ReserveUdp, IInv
<1>2. Queued' = Queued /\ OwnersKept
  BY <1>1 DEF Queued, OwnersKept
<1>3. PICK f \in Frame : f = work[w].frame /\ f.len \in Int
  <2>1. work[w].frame \in Frame
    BY <1>1 DEF IInv, WorkShape, Work
  <2> QED BY <2>1, LenType
<1>4. CASE ~Affordable(f.len)
  <2>1. PICK t : t = At("dispatch", f, work[w].todo \ {s}, None)
    OBVIOUS
  <2>2. TaskBecomes(w, t) /\ used' = used
    BY <1>3, <1>4, <2>1 DEF ReserveUdp, TaskBecomes
  <2>3. t.pc # "reserved" /\ work[w].pc # "reserved"
    BY <1>1, <2>1 DEF At
  <2>4. Reserved' = Reserved /\ NoNewCharge
    BY <2>2, <2>3, TaskQuiet
  <2> QED BY <1>2, <2>2, <2>4, BudgetKept
<1>5. CASE Affordable(f.len)
  <2>1. PICK t : t = At("reserved", f, work[w].todo \ {s}, s)
    OBVIOUS
  <2>2. TaskBecomes(w, t) /\ used' = used + f.len
    BY <1>3, <1>5, <2>1 DEF ReserveUdp, TaskBecomes
  <2>3. ReservedBytes(t) = f.len /\ ReservedBytes(work[w]) = 0
    BY <1>1, <2>1 DEF At, ReservedBytes
  <2>4. Reserved' = Reserved - ReservedBytes(work[w]) + ReservedBytes(t)
    <3>1. TypeOK /\ WorkShape /\ ReservedBytes(t) \in Int
      BY <1>3, <2>3 DEF IInv
    <3> QED BY <2>2, <3>1, TaskChange
  <2>5. used = Queued + Reserved /\ Queued \in Int /\ Reserved \in Int
    BY TotalTypes DEF BudgetInv, BudgetExact, Queued, Reserved, IInv
  <2>6. used' = Queued' + Reserved'
    BY <1>2, <1>3, <2>2, <2>3, <2>4, <2>5
  <2>7. UdpQueueBytes # 0 => used' <= UdpQueueBytes
    BY <1>5, <2>2 DEF Affordable
  <2>8. BudgetExact'
    BY <2>6, <2>7 DEF BudgetExact, Queued, Reserved
  <2>9. ASSUME NEW v \in Worker, work'[v].pc = "reserved" PROVE sinks'[work'[v].cur].key \in Udp
    <3>1. DOMAIN work = Worker
      BY DEF IInv, TypeOK
    <3>2. CASE v = w
      <4>1. work'[v].cur = s
        BY <2>1, <2>2, <3>1, <3>2 DEF TaskBecomes, At
      <4> QED BY <1>1, <4>1
    <3>3. CASE v # w
      <4>1. work'[v] = work[v]
        BY <2>2, <3>1, <3>3 DEF TaskBecomes
      <4> QED BY <1>1, <2>9, <4>1 DEF BudgetInv, ReservedForUdp
    <3> QED BY <3>2, <3>3
  <2> QED BY <2>8, <2>9 DEF BudgetInv, ReservedForUdp
<1> QED BY <1>4, <1>5

\* The charge of a send becomes the charge of the queue, or is refunded.
LEMMA SendUdpBudget ==
  ASSUME IInv, IInv', BudgetInv, NEW w \in Worker, SendUdp(w)
  PROVE  BudgetInv'
<1>1. \A v \in Worker : work[v] \in Work
  BY Typed DEF IInv
<1>2. PICK f \in Frame : f = work[w].frame /\ f.len \in Int /\ f.len > 0
  <2>1. work[w].frame \in Frame
    BY <1>1 DEF SendUdp, IInv, WorkShape, Work
  <2> QED BY <2>1, LenType
<1>3. PICK s \in SinkId : s = work[w].cur /\ sinks[s] # None /\ sinks[s].key \in Udp
  <2>1. PICK s : s = work[w].cur
    OBVIOUS
  <2>2. s \in SinkId /\ s # None
    BY <1>1, <2>1 DEF SendUdp, IInv, WorkShape, Work
  <2>3. sinks[s] # None
    BY <2>1, <2>2 DEF IInv, CollectedSinksOwn
  <2> QED BY <2>1, <2>2, <2>3 DEF SendUdp, BudgetInv, ReservedForUdp
<1>4. PICK t : t = At("dispatch", f, work[w].todo, None) /\ t.pc = "dispatch"
  <2>1. At("dispatch", f, work[w].todo, None).pc = "dispatch"
    BY DEF At
  <2> QED BY <2>1
<1>5. TaskBecomes(w, t) /\ work[w].pc = "reserved"
  BY <1>2, <1>4 DEF SendUdp, TaskBecomes
<1>6. ReservedBytes(t) = 0 /\ ReservedBytes(work[w]) = f.len
  BY <1>2, <1>4, <1>5 DEF ReservedBytes
<1>7. Reserved' = Reserved - ReservedBytes(work[w]) + ReservedBytes(t)
  <2>1. TypeOK /\ WorkShape /\ ReservedBytes(t) \in Int
    BY <1>6 DEF IInv
  <2> QED BY <1>5, <2>1, TaskChange
<1>8. used = Queued + Reserved /\ Queued \in Int /\ Reserved \in Int
  BY TotalTypes DEF BudgetInv, BudgetExact, Queued, Reserved, IInv
<1>9. used \in Int /\ (UdpQueueBytes # 0 => used <= UdpQueueBytes) /\ UdpQueueBytes \in Int
  BY LimitsAssumption DEF BudgetInv, BudgetExact, IInv, TypeOK
<1>10. ASSUME OwnersKept, used' = Queued' + Reserved', used' \in Int, used' <= used
       PROVE  BudgetInv'
  <2>1. BudgetExact'
    <3>1. UdpQueueBytes # 0 => used' <= UdpQueueBytes
      BY <1>9, <1>10
    <3> QED BY <1>10, <3>1 DEF BudgetExact, Queued, Reserved
  <2>2. ASSUME NEW v \in Worker, work'[v].pc = "reserved" PROVE sinks'[work'[v].cur].key \in Udp
    <3>1. DOMAIN work = Worker
      BY DEF IInv, TypeOK
    <3>2. v # w /\ work'[v] = work[v]
      BY <1>4, <1>5, <2>2, <3>1 DEF TaskBecomes
    <3>3. PICK c : c = work'[v].cur /\ c = work[v].cur /\ work[v].pc = "reserved"
      BY <2>2, <3>2
    <3>4. c # None /\ c \in SinkId
      BY <1>1, <3>3 DEF IInv, WorkShape, Work
    <3>5. sinks[c] # None
      BY <3>3, <3>4 DEF IInv, CollectedSinksOwn
    <3>6. sinks'[c] # None
      BY <3>3, <3>4 DEF IInv, CollectedSinksOwn
    <3>7. sinks[c].key \in Udp
      BY <3>3 DEF BudgetInv, ReservedForUdp
    <3> QED BY <1>10, <3>3, <3>4, <3>5, <3>6, <3>7 DEF OwnersKept
  <2> QED BY <2>1, <2>2 DEF BudgetInv, ReservedForUdp
<1>11. CASE Full(s)
  <2>1. used' = used - f.len /\ sinks' = sinks
    BY <1>2, <1>3, <1>11 DEF SendUdp
  <2>2. Queued' = Queued /\ OwnersKept
    BY <2>1 DEF Queued, OwnersKept
  <2>3. used' = Queued' + Reserved' /\ used' \in Int /\ used' <= used
    BY <1>2, <1>6, <1>7, <1>8, <1>9, <2>1, <2>2
  <2> QED BY <1>10, <2>2, <2>3
<1>12. CASE ~Full(s)
  <2>1. used' = used /\ Enqueue(s, f)
    BY <1>2, <1>3, <1>12 DEF SendUdp
  <2>2. PICK r \in Seq(Frame) : r = sinks[s].queue
    BY <1>3, Typed DEF IInv, Sink
  <2>3. PICK q : q = [sinks[s] EXCEPT !.queue = Append(r, f)]
    OBVIOUS
  <2>4. SinkBecomes(s, q)
    BY <1>3, <2>1, <2>2, <2>3 DEF Enqueue, IInv, TypeOK, SinkBecomes
  <2>5. q.key = sinks[s].key /\ q.queue = Append(r, f) /\ q # None
    <3>1. sinks[s] \in Sink /\ Append(r, f) \in Seq(Frame)
      BY <1>3, <2>2, Typed DEF IInv
    <3>2. q \in Sink /\ q.key = sinks[s].key /\ q.queue = Append(r, f)
      BY <2>3, <3>1 DEF Sink
    <3> QED BY <3>2, NoneFresh
  <2>6. SinkBytes(q) = QueuedBytes(r) + f.len /\ SinkBytes(sinks[s]) = QueuedBytes(r)
    BY <1>3, <2>2, <2>5, BytesAppend DEF SinkBytes
  <2>7. QueuedBytes(r) \in Int
    BY BytesType
  <2>8. Queued' = Queued - SinkBytes(sinks[s]) + SinkBytes(q)
    <3>1. TypeOK /\ WorkShape /\ SinkBytes(q) \in Int
      BY <1>2, <2>6, <2>7 DEF IInv
    <3> QED BY <2>4, <3>1, SinkChange
  <2>9. used' = Queued' + Reserved' /\ used' \in Int /\ used' <= used
    <3>1. PICK n \in Int : n = f.len
      BY <1>2
    <3>2. Reserved' = Reserved - n
      BY <1>6, <1>7, <1>8, <3>1
    <3>3. PICK a \in Int : a = QueuedBytes(r)
      BY <2>7
    <3>4. Queued' = Queued - a + (a + n)
      BY <2>6, <2>8, <3>1, <3>3
    <3>5. Queued' = Queued + n
      BY <1>8, <3>4
    <3> QED BY <1>8, <1>9, <2>1, <3>2, <3>5
  <2>10. OwnersKept
    BY <2>4, <2>5 DEF SinkBecomes, OwnersKept, IInv, TypeOK
  <2> QED BY <1>10, <2>9, <2>10
<1> QED BY <1>11, <1>12

\* A writer refunds what it takes from a UDP queue, and nothing else.
LEMMA WriteBudget ==
  ASSUME IInv, IInv', BudgetInv, NEW s \in SinkId, Write(s)
  PROVE  BudgetInv'
<1>1. /\ sinks[s] # None /\ sinks[s] \in Sink /\ sinks[s].queue # <<>>
      /\ work' = work
  BY Typed DEF Write, IInv
<1>2. Reserved' = Reserved /\ NoNewCharge
  BY <1>1 DEF Reserved, NoNewCharge
<1>3. PICK r \in Seq(Frame) : r = sinks[s].queue /\ r # <<>>
  BY <1>1 DEF Sink
<1>4. PICK n \in Int : n = Head(r).len /\ n > 0
  <2>1. Head(r) \in Frame
    BY <1>3
  <2> QED BY <2>1, LenType
<1>5. PICK q : q = [sinks[s] EXCEPT !.queue = Tail(r)]
  OBVIOUS
<1>6. SinkBecomes(s, q)
  BY <1>1, <1>3, <1>5 DEF Write, IInv, TypeOK, SinkBecomes
<1>7. q.key = sinks[s].key /\ q.queue = Tail(r) /\ q # None
  <2>1. Tail(r) \in Seq(Frame)
    BY <1>3
  <2>2. q \in Sink /\ q.key = sinks[s].key /\ q.queue = Tail(r)
    BY <1>1, <1>5, <2>1 DEF Sink
  <2> QED BY <2>2, NoneFresh
<1>8. OwnersKept
  BY <1>6, <1>7 DEF SinkBecomes, OwnersKept, IInv, TypeOK
<1>9. used = Queued + Reserved /\ Queued \in Int /\ Reserved \in Int
  BY TotalTypes DEF BudgetInv, BudgetExact, Queued, Reserved, IInv
<1>10. ASSUME SinkBytes(q) \in Int PROVE Queued' = Queued - SinkBytes(sinks[s]) + SinkBytes(q)
  <2>1. TypeOK /\ WorkShape
    BY DEF IInv
  <2> QED BY <1>6, <1>10, <2>1, SinkChange
<1>11. CASE sinks[s].key \notin Udp
  <2>1. SinkBytes(q) = 0 /\ SinkBytes(sinks[s]) = 0
    BY <1>7, <1>11 DEF SinkBytes
  <2>2. Queued' = Queued /\ used' = used
    BY <1>9, <1>10, <1>11, <2>1 DEF Write
  <2> QED BY <1>2, <1>8, <2>2, BudgetKept
<1>12. CASE sinks[s].key \in Udp
  <2>1. SinkBytes(q) = QueuedBytes(Tail(r)) /\ SinkBytes(sinks[s]) = QueuedBytes(r)
    BY <1>1, <1>3, <1>7, <1>12 DEF SinkBytes
  <2>2. QueuedBytes(r) = n + QueuedBytes(Tail(r))
    BY <1>3, <1>4, BytesTail
  <2>3. QueuedBytes(Tail(r)) \in Int
    <3>1. Tail(r) \in Seq(Frame)
      BY <1>3
    <3> QED BY <3>1, BytesType
  <2>4. used' = used - n
    BY <1>3, <1>4, <1>12 DEF Write
  <2>5. used' = Queued' + Reserved' /\ used' <= used /\ used' \in Int /\ used \in Int
    BY <1>2, <1>4, <1>9, <1>10, <2>1, <2>2, <2>3, <2>4
  <2>6. UdpQueueBytes # 0 => used' <= UdpQueueBytes
    <3>1. (UdpQueueBytes # 0 => used <= UdpQueueBytes) /\ UdpQueueBytes \in Int
      BY LimitsAssumption DEF BudgetInv, BudgetExact
    <3> QED BY <2>5, <3>1
  <2>7. BudgetExact'
    BY <2>5, <2>6 DEF BudgetExact, Queued, Reserved
  <2>8. ReservedForUdp'
    <3>1. ASSUME NEW w \in Worker, work[w].pc = "reserved" PROVE sinks'[work[w].cur].key \in Udp
      <4>1. PICK c : c = work[w].cur /\ sinks[c].key \in Udp
        BY <3>1 DEF BudgetInv, ReservedForUdp
      <4>2. c # None /\ c \in SinkId
        BY <3>1, <4>1, Typed DEF IInv, WorkShape, Work
      <4> QED BY <1>6, <1>7, <4>1, <4>2 DEF SinkBecomes, IInv, TypeOK
    <3> QED BY <1>1, <3>1 DEF ReservedForUdp
  <2> QED BY <2>7, <2>8 DEF BudgetInv
<1> QED BY <1>11, <1>12

\* A writer that fails drops the queue of a connection, which was never charged.
LEMMA WriterFailsBudget ==
  ASSUME IInv, IInv', BudgetInv, NEW s \in SinkId, WriterFails(s)
  PROVE  BudgetInv'
<1>1. /\ sinks[s] # None /\ sinks[s] \in Sink /\ sinks[s].key \in Conn
      /\ work' = work /\ used' = used
  BY Typed DEF WriterFails, IInv
<1>2. Reserved' = Reserved /\ NoNewCharge
  BY <1>1 DEF Reserved, NoNewCharge
<1>3. PICK q : q = [sinks[s] EXCEPT !.open = FALSE, !.queue = <<>>]
  OBVIOUS
<1>4. SinkBecomes(s, q) /\ q.key = sinks[s].key
  BY <1>1, <1>3 DEF WriterFails, IInv, TypeOK, SinkBecomes, Sink
<1>5. SinkBytes(q) = 0 /\ SinkBytes(sinks[s]) = 0
  BY <1>1, <1>4, KeysDisjoint DEF SinkBytes
<1>6. Queued' = Queued - SinkBytes(sinks[s]) + SinkBytes(q)
  <2>1. TypeOK /\ WorkShape /\ SinkBytes(q) \in Int
    BY <1>5 DEF IInv
  <2> QED BY <1>4, <2>1, SinkChange
<1>7. Queued' = Queued
  <2>1. Queued \in Int
    BY TotalTypes DEF IInv
  <2> QED BY <1>5, <1>6, <2>1
<1>8. OwnersKept
  BY <1>4 DEF SinkBecomes, OwnersKept, IInv, TypeOK
<1> QED BY <1>1, <1>2, <1>7, <1>8, BudgetKept

\* A writer ends only once its queue is drained.
LEMMA WriterEndsBudget ==
  ASSUME IInv, IInv', BudgetInv, NEW s \in SinkId, WriterEnds(s)
  PROVE  BudgetInv'
<1>1. /\ sinks[s] # None /\ sinks[s].queue = <<>>
      /\ work' = work /\ used' = used
  BY DEF WriterEnds
<1>2. Reserved' = Reserved /\ NoNewCharge
  BY <1>1 DEF Reserved, NoNewCharge
<1>3. SinkBecomes(s, None)
  BY DEF WriterEnds, SinkBecomes
<1>4. SinkBytes(None) = 0 /\ SinkBytes(sinks[s]) = 0
  <2>1. << >> \in Seq(Frame)
    OBVIOUS
  <2>2. QueuedBytes(<< >>) = 0
    BY <2>1, BytesType
  <2> QED BY <1>1, <2>2 DEF SinkBytes
<1>5. Queued' = Queued - SinkBytes(sinks[s]) + SinkBytes(None)
  <2>1. TypeOK /\ WorkShape /\ SinkBytes(None) \in Int
    BY <1>4 DEF IInv
  <2> QED BY <1>3, <2>1, SinkChange
<1>6. Queued' = Queued
  <2>1. Queued \in Int
    BY TotalTypes DEF IInv
  <2> QED BY <1>4, <1>5, <2>1
<1>7. OwnersKept
  BY <1>3 DEF SinkBecomes, OwnersKept, IInv, TypeOK
<1> QED BY <1>1, <1>2, <1>6, <1>7, BudgetKept

\* The budget through every step of the hub.
LEMMA BudgetStep ==
  ASSUME IInv, IInv', BudgetInv, [Next]_vars
  PROVE  BudgetInv'
<1>1. ASSUME sinks' = sinks PROVE Queued' = Queued /\ OwnersKept
  BY <1>1 DEF Queued, OwnersKept
<1>2. ASSUME work' = work PROVE Reserved' = Reserved /\ NoNewCharge
  BY <1>2 DEF Reserved, NoNewCharge
<1>3. ASSUME NEW w \in Worker, NEW t, work' = [work EXCEPT ![w] = t], work[w].pc # "reserved",
             t.pc # "reserved", sinks' = sinks, used' = used
      PROVE  BudgetInv'
  <2>1. TaskBecomes(w, t)
    BY <1>3 DEF TaskBecomes
  <2>2. Reserved' = Reserved /\ NoNewCharge
    BY <1>3, <2>1, TaskQuiet
  <2> QED BY <1>1, <1>3, <2>2, BudgetKept
<1>4. Idle.pc = "idle" /\ \A f, T : /\ At("observed", f, {}, None).pc = "observed"
                                    /\ At("dispatch", f, T, None).pc = "dispatch"
  BY DEF Idle, At
<1>5. ASSUME NEW c \in Conn, Connect(c) PROVE BudgetInv'
  <2>1. work' = work /\ used' = used
    BY <1>5 DEF Connect
  <2>2. Queued' = Queued /\ OwnersKept
    BY <1>1, <1>5, InsertQueued DEF Connect
  <2> QED BY <1>2, <2>1, <2>2, BudgetKept
<1>6. ASSUME work' = work, sinks' = sinks, used' = used PROVE BudgetInv'
  BY <1>1, <1>2, <1>6, BudgetKept
<1>7. ASSUME NEW w \in Slots, NEW f \in Frame, ConnReceive(w, f) PROVE BudgetInv'
  <2>1. PICK t : t = At("observed", f, {}, None)
    OBVIOUS
  <2>2. /\ work' = [work EXCEPT ![w] = t] /\ work[w].pc = "idle" /\ sinks' = sinks /\ used' = used
        /\ w \in Worker
    BY <1>7, <2>1 DEF ConnReceive, Worker
  <2>3. t.pc # "reserved" /\ work[w].pc # "reserved"
    BY <1>4, <2>1, <2>2
  <2> QED BY <1>3, <2>2, <2>3
<1>8. ASSUME NEW w \in Slots, NEW f \in Frame, InjectFromLink(w, f) PROVE BudgetInv'
  <2>1. PICK t : t = At("dispatch", f, Targets(peer[f.band], f.from, f), None)
    OBVIOUS
  <2>2. /\ work' = [work EXCEPT ![w] = t] /\ work[w].pc = "idle" /\ sinks' = sinks /\ used' = used
        /\ w \in Worker
    BY <1>8, <2>1 DEF InjectFromLink, Worker
  <2>3. t.pc # "reserved" /\ work[w].pc # "reserved"
    BY <1>4, <2>1, <2>2
  <2> QED BY <1>3, <2>2, <2>3
<1>9. ASSUME NEW w \in Worker, ForwardNoBand(w) \/ ForwardRoute(w) PROVE BudgetInv'
  <2>1. PICK t : t = Idle
    OBVIOUS
  <2>2. work' = [work EXCEPT ![w] = t] /\ work[w].pc = "observed" /\ sinks' = sinks /\ used' = used
    BY <1>9, <2>1 DEF ForwardNoBand, ForwardRoute
  <2>3. t.pc # "reserved" /\ work[w].pc # "reserved"
    BY <1>4, <2>1, <2>2
  <2> QED BY <1>3, <2>2, <2>3
<1>10. ASSUME NEW w \in Worker, ForwardCollect(w) PROVE BudgetInv'
  <2>1. PICK t : t = At("dispatch", work[w].frame, Targets(peer[work[w].frame.band],
                        work[w].frame.from, work[w].frame), None)
    OBVIOUS
  <2>2. work' = [work EXCEPT ![w] = t] /\ work[w].pc = "observed" /\ sinks' = sinks /\ used' = used
    BY <1>10, <2>1 DEF ForwardCollect
  <2>3. t.pc # "reserved" /\ work[w].pc # "reserved"
    BY <1>4, <2>1, <2>2
  <2> QED BY <1>3, <2>2, <2>3
<1>11. ASSUME NEW w \in Worker, ForwardDone(w) PROVE BudgetInv'
  <2>1. PICK t : t = Idle
    OBVIOUS
  <2>2. work' = [work EXCEPT ![w] = t] /\ work[w].pc = "dispatch" /\ sinks' = sinks /\ used' = used
    BY <1>11, <2>1 DEF ForwardDone
  <2>3. t.pc # "reserved" /\ work[w].pc # "reserved"
    BY <1>4, <2>1, <2>2
  <2> QED BY <1>3, <2>2, <2>3
<1>12. ASSUME NEW w \in Worker, TaskStep(w) PROVE BudgetInv'
  BY <1>9, <1>10, <1>11, <1>12, SendConnBudget, ReserveUdpBudget, SendUdpBudget DEF TaskStep
<1>13. ASSUME NEW c \in Conn, Disconnect(c) \/ AbortIngress(c) PROVE BudgetInv'
  BY <1>6, <1>13 DEF Disconnect, AbortIngress
<1>14. CASE FedDrain \/ Prune \/ Tick \/ UNCHANGED vars
  BY <1>6, <1>14 DEF FedDrain, Prune, Tick, vars
<1> QED BY <1>5, <1>7, <1>8, <1>12, <1>13, <1>14, UdpReceiveBudget, WriteBudget,
           WriterFailsBudget, WriterEndsBudget DEF Next

\* D7: for any queue depths, limits and frame lengths, and however sends, drains,
\* evictions and failures interleave, the counter is exactly what is queued for UDP
\* peers plus what is being sent, and stays within the limit: nothing leaks.
THEOREM BudgetNeverLeaks == Spec => []BudgetExact
<1>1. Init => BudgetInv
  <2>1. SUFFICES ASSUME Init PROVE BudgetInv
    OBVIOUS
  <2>2. PICK g : g = [s \in SinkId |-> SinkBytes(sinks[s])]
    OBVIOUS
  <2>3. PICK h : h = [w \in Worker |-> ReservedBytes(work[w])]
    OBVIOUS
  <2>4. \A s \in SinkId : g[s] = 0
    BY <2>1, <2>2 DEF Init, SinkBytes
  <2>5. \A w \in Worker : h[w] = 0 /\ work[w].pc = "idle"
    BY <2>1, <2>3 DEF Init, ReservedBytes, Idle, At
  <2>6. IsFiniteSet(SinkId) /\ IsFiniteSet(Worker)
    BY TasksFinite, FS_Singleton, FS_Union DEF Worker
  <2>7. SumFunctionOnSet(g, SinkId) = 0 /\ SumFunctionOnSet(h, Worker) = 0
    BY <2>4, <2>5, <2>6, SumZero
  <2>8. /\ SumFunction([s \in SinkId |-> SinkBytes(sinks[s])]) = 0
        /\ SumFunction([w \in Worker |-> ReservedBytes(work[w])]) = 0
    BY <2>2, <2>3, <2>7 DEF SumFunction
  <2>9. used = 0 /\ UdpQueueBytes \in Nat
    BY <2>1, LimitsAssumption DEF Init
  <2>10. BudgetExact
    BY <2>8, <2>9 DEF BudgetExact
  <2>11. ReservedForUdp
    BY <2>5 DEF ReservedForUdp
  <2> QED BY <2>10, <2>11 DEF BudgetInv
<1>2. IInv /\ IInv' /\ BudgetInv /\ [Next]_vars => BudgetInv'
  BY BudgetStep
<1>3. BudgetInv => BudgetExact
  BY DEF BudgetInv
<1> QED BY <1>1, <1>2, <1>3, RegistryInvariant, PTL DEF Spec
=============================================================================
