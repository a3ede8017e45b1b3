------------------------------ MODULE Session ------------------------------
(***************************************************************************)
(* Sessions between the endpoints of a band: the control task and its      *)
(* HELLO handshake (control.rs), the keys of the transport (transport.rs), *)
(* the keepalive task (band.rs) and the Stream receiver's replay mark      *)
(* (stream.rs).                                                            *)
(*                                                                         *)
(* Each endpoint runs four tasks that share the transport's maps: the      *)
(* receive loop opens packets and routes them to the queues of the control *)
(* and the stream task, and the keepalive task evicts silent peers.  An    *)
(* action is what a task does up to its next await that matters to others. *)
(* The network may lose and reorder packets and, with Duplicates, deliver  *)
(* a packet any number of times.                                           *)
(***************************************************************************)
EXTENDS Integers, Sequences, FiniteSets, SequencesExt

CONSTANTS
  Node,             \* endpoints, each at one address
  Cipher,           \* the suites the build knows (Suite::from_id)
  Baseline,         \* BASELINE_CIPHER
  Prefs,            \* Prefs[p]: p's ordered cipher list
  PeerCap,          \* PEER_MAP_SOFT_CAP
  RebaseCap,        \* capacity of the rebase broadcast
  Initiators, Announcers, Notifiers, Streamers, Leavers,  \* who sends what to whom in a run
  Restarters, Keepers,  \* who restarts, whose keepalive task runs
  Lists,            \* the cipher lists an application announces by itself
  Duplicates,       \* may a packet arrive more than once?
  SeqStart, MaxSeq, \* SeqStart[p]: p's first sequence numbers; last but for HELLO_ACKs
  MaxEpoch,         \* bound on restarts
  QueueCap,         \* bounds on the control and the stream route's queue
  None

\* derive_session_key: a data key is the epoch and the suite it is made from.
\* HELLO and HELLO_ACK go under the base key.
DataKey == [epoch : Nat, cipher : Cipher]
Base == [epoch |-> 0, cipher |-> None]
Kind == {"hello", "ack", "keepalive", "goodbye", "stream"}

\* A HELLO offers its sender's ordered list, an ACK the suite it commits to; the
\* other messages offer nothing.
Packet == [from : Node, to : Node, kind : Kind, key : DataKey \cup {Base},
           seq : Nat, epoch : Nat, offer : Seq(Cipher)]

ASSUME BaselineAssumption == Baseline \in Cipher
ASSUME PrefsAssumption ==
  \A p \in Node : Prefs[p] \in Seq(Cipher) /\ \E i \in DOMAIN Prefs[p] : Prefs[p][i] = Baseline
ASSUME SessionBounds ==
  /\ PeerCap \in Nat \ {0} /\ RebaseCap \in Nat \ {0} /\ QueueCap \in [{"control", "stream"} -> Nat]
  /\ \A p \in Node : SeqStart[p] \subseteq Nat
  /\ MaxSeq \in Nat /\ MaxEpoch \in Nat
  /\ Duplicates \in BOOLEAN /\ Lists \subseteq Seq(Cipher)
ASSUME NoneAssumption == None \notin Nat \cup Node \cup Cipher \cup DataKey \cup Packet

VARIABLES
  epoch,    \* the session epoch of each running Band
  next,     \* SequenceCounter: one for all that an endpoint sends
  net,      \* packets that may still arrive
  queue,    \* the control and stream routes of each transport
  keys,     \* Transport's peer_keys, send_keys and last_seen
  ctl,      \* the control task: sessions, watermark, where it is; accepted is history
  peers,    \* the peer registry: epoch and suite, None where there is no entry
  str,      \* the stream task: watermarks, pending rebases; got is history
  ka        \* the keepalive task

vars == <<epoch, next, net, queue, keys, ctl, peers, str, ka>>

Nobody == [q \in Node |-> None]

\* What Band::bind starts with.
FreshQueue == [control |-> <<>>, stream |-> <<>>]
FreshKeys == [recv |-> Nobody, send |-> Nobody, heard |-> Nobody]
FreshCtl == [session |-> Nobody, mark |-> Nobody, accepted |-> [q \in Node |-> {}],
             pc |-> "recv", msg |-> None, cipher |-> None]
FreshStr == [mark |-> Nobody, rebase |-> <<>>, got |-> [q \in Node |-> <<>>]]
FreshKa == [pc |-> "idle", todo |-> {}, alive |-> {}]

Init ==
  /\ epoch = [p \in Node |-> 1]
  /\ next \in {f \in [Node -> UNION {SeqStart[p] : p \in Node}] : \A p \in Node : f[p] \in SeqStart[p]}
  /\ net = {}
  /\ queue = [p \in Node |-> FreshQueue]
  /\ keys = [p \in Node |-> FreshKeys]
  /\ ctl = [p \in Node |-> FreshCtl]
  /\ peers = [p \in Node |-> Nobody]
  /\ str = [p \in Node |-> FreshStr]
  /\ ka = [p \in Node |-> FreshKa]

-----------------------------------------------------------------------------
(* Transport.                                                              *)

\* The key a data packet goes under: the negotiated one, or the session key.
SendKey(p, q) ==
  IF keys[p].send[q] # None THEN keys[p].send[q]
  ELSE [epoch |-> epoch[p], cipher |-> Baseline]

\* Transport::send.
Send(p, q, kind, key, offer) ==
  /\ net' = net \cup {[from |-> p, to |-> q, kind |-> kind, key |-> key,
                       seq |-> next[p], epoch |-> epoch[p], offer |-> offer]}
  /\ next' = [next EXCEPT ![p] = @ + 1]

\* Fault: the keys of earlier sessions are still tried.
OpensAnySession(p, m) ==
  LET k == keys[p].recv[m.from] IN
  m.key = Base \/ (k # None /\ m.key.cipher = k.cipher /\ m.key.epoch <= k.epoch)

\* A packet opens under the key of its sender's session or under the base key.
Opens(p, m) == m.key = keys[p].recv[m.from] \/ m.key = Base

\* Transport::forget_peer.
Forget(k, q) == [k EXCEPT !.recv[q] = None, !.send[q] = None, !.heard[q] = None]

\* The receive loop: what opens refreshes liveness and goes to its route; what
\* does not is dropped.
RecvPacket(p, m) ==
  LET route == IF m.kind = "stream" THEN "stream" ELSE "control" IN
  /\ m.to = p /\ Opens(p, m)
  /\ Len(queue[p][route]) < QueueCap[route]
  /\ keys' = [keys EXCEPT ![p].heard[m.from] = "fresh"]
  /\ queue' = [queue EXCEPT ![p][route] = Append(@, m)]
  /\ net' = IF Duplicates THEN net ELSE net \ {m}
  /\ UNCHANGED <<epoch, next, ctl, peers, str, ka>>

\* dead_after passes without a packet from q; only the keepalive task looks.
GoesSilent(p, q) ==
  /\ p \in Keepers /\ keys[p].heard[q] = "fresh"
  /\ keys' = [keys EXCEPT ![p].heard[q] = "silent"]
  /\ UNCHANGED <<epoch, next, net, queue, ctl, peers, str, ka>>

-----------------------------------------------------------------------------
(* What the application starts.                                            *)

\* Band::connect_peer.
ConnectPeer(p, q) ==
  /\ <<p, q>> \in Initiators /\ p # q /\ next[p] <= MaxSeq
  /\ Send(p, q, "hello", Base, Prefs[p])
  /\ UNCHANGED <<epoch, queue, keys, ctl, peers, str, ka>>

\* ControlChannel::send_hello and send_hello_full: a HELLO with a list of the
\* application's own.
SendHello(p, q) ==
  /\ <<p, q>> \in Announcers /\ p # q /\ next[p] <= MaxSeq
  /\ \E list \in Lists : Send(p, q, "hello", Base, list)
  /\ UNCHANGED <<epoch, queue, keys, ctl, peers, str, ka>>

\* ControlChannel::send_hello_ack and send_hello_ack_full: an ACK that answers
\* nothing and dictates a suite of the application's choice.
SendHelloAck(p, q) ==
  /\ <<p, q>> \in Announcers /\ p # q /\ next[p] <= MaxSeq
  /\ \E c \in Cipher : Send(p, q, "ack", Base, <<c>>)
  /\ UNCHANGED <<epoch, queue, keys, ctl, peers, str, ka>>

\* StreamEndpoint::send.
SendStream(p, q) ==
  /\ <<p, q>> \in Streamers /\ p # q /\ next[p] <= MaxSeq
  /\ Send(p, q, "stream", SendKey(p, q), <<>>)
  /\ UNCHANGED <<epoch, queue, keys, ctl, peers, str, ka>>

\* ControlChannel's send_keepalive, send_keyframe_req, send_rate_hint: the
\* receiver's control task treats all of them like a KEEPALIVE.
SendNotice(p, q) ==
  /\ <<p, q>> \in Notifiers /\ p # q /\ next[p] <= MaxSeq
  /\ Send(p, q, "keepalive", SendKey(p, q), <<>>)
  /\ UNCHANGED <<epoch, queue, keys, ctl, peers, str, ka>>

\* ControlChannel::send_goodbye.
SendGoodbye(p, q) ==
  /\ <<p, q>> \in Leavers /\ p # q /\ next[p] <= MaxSeq
  /\ Send(p, q, "goodbye", SendKey(p, q), <<>>)
  /\ UNCHANGED <<epoch, queue, keys, ctl, peers, str, ka>>

\* The Band is dropped and bound again at its address: a newer epoch, a random
\* first sequence number, and nothing remembered.
Restart(p) ==
  /\ p \in Restarters /\ epoch[p] < MaxEpoch
  /\ epoch' = [epoch EXCEPT ![p] = @ + 1]
  /\ \E s \in SeqStart[p] : next' = [next EXCEPT ![p] = s]
  /\ queue' = [queue EXCEPT ![p] = FreshQueue]
  /\ keys' = [keys EXCEPT ![p] = FreshKeys]
  /\ ctl' = [ctl EXCEPT ![p] = FreshCtl]
  /\ peers' = [peers EXCEPT ![p] = Nobody]
  /\ str' = [str EXCEPT ![p] = FreshStr]
  /\ ka' = [ka EXCEPT ![p] = FreshKa]
  /\ UNCHANGED net

-----------------------------------------------------------------------------
(* The control task.                                                       *)

\* The first suite of the initiator's list that the responder lists too.
SelectCipher(init, resp) ==
  LET ok == {i \in DOMAIN init : init[i] = Baseline \/ \E j \in DOMAIN resp : resp[j] = init[i]}
  IN IF ok = {} THEN Baseline ELSE init[CHOOSE i \in ok : \A j \in ok : i <= j]

\* The responder chooses for a HELLO, an ACK dictates; one that names no suite
\* of this build means the baseline.
Committed(p, m) ==
  IF m.kind = "hello" THEN SelectCipher(m.offer, Prefs[p])
  ELSE IF m.offer # <<>> THEN Head(m.offer) ELSE Baseline

\* Past the soft cap, what is remembered of addresses not in the registry goes.
Pruned(p) ==
  LET c == ctl[p]
      gone == {q \in Node : peers[p][q] = None}
  IN IF Cardinality({q \in Node : c.mark[q] # None}) <= PeerCap THEN c
     ELSE [c EXCEPT !.mark = [q \in Node |-> IF q \in gone THEN None ELSE @[q]],
                    !.session = [q \in Node |-> IF q \in gone THEN None ELSE @[q]],
                    !.accepted = [q \in Node |-> IF q \in gone THEN {} ELSE @[q]]]

Replayed(c, m) == c.mark[m.from] # None /\ m.seq <= c.mark[m.from]

\* Fault: an older epoch is not recognised.
StaleEpochNever(c, m) == FALSE

StaleEpoch(c, m) == c.session[m.from] # None /\ m.epoch < c.session[m.from]

\* Fault: the present epoch counts as a new session.
NewSessionEqual(c, m) == c.session[m.from] = None \/ m.epoch >= c.session[m.from]

\* Fault: a newer epoch is not recognised.
NewSessionFirst(c, m) == c.session[m.from] = None

NewSession(c, m) == c.session[m.from] = None \/ m.epoch > c.session[m.from]

\* The packet is accepted: the watermark advances.
Accept(c, m) ==
  [c EXCEPT !.mark[m.from] = m.seq, !.accepted[m.from] = @ \cup {m.seq}]

\* A newer epoch: the session is the peer's new one and its watermark is cleared.
Rebased(c, m) ==
  IF NewSession(c, m)
  THEN [c EXCEPT !.session[m.from] = m.epoch, !.mark[m.from] = None,
                 !.accepted[m.from] = IF c.session[m.from] = m.epoch THEN @ ELSE {}]
  ELSE c

\* rebase_tx.send: when the broadcast is full its oldest signal is lost.
Signal(r, q) == IF Len(r) < RebaseCap THEN Append(r, q) ELSE Append(Tail(r), q)

Arrived(p) ==
  /\ ctl[p].pc = "recv" /\ queue[p].control # <<>>
  /\ queue' = [queue EXCEPT ![p].control = Tail(@)]

\* A HELLO or HELLO_ACK of an older session, or a replayed one, is dropped.
DropHello(p) ==
  LET m == Head(queue[p].control)  c == Pruned(p) IN
  /\ Arrived(p) /\ m.kind \in {"hello", "ack"}
  /\ StaleEpoch(c, m) \/ Replayed(Rebased(c, m), m)
  /\ ctl' = [ctl EXCEPT ![p] = c]
  /\ UNCHANGED <<epoch, next, net, keys, peers, str, ka>>

\* Otherwise it is accepted, and a new session is signalled to the hubs.  The
\* peer's keys are registered at the next awaits: until then its old ones are in
\* use.  pc tells whether a session of the peer was remembered.
AcceptHello(p) ==
  LET m == Head(queue[p].control)  c == Pruned(p)  q == m.from
      stage == IF c.session[q] = None THEN "met" ELSE "known"
  IN /\ Arrived(p) /\ m.kind \in {"hello", "ack"}
     /\ ~StaleEpoch(c, m) /\ ~Replayed(Rebased(c, m), m)
     /\ ctl' = [ctl EXCEPT ![p] = [Accept(Rebased(c, m), m) EXCEPT
                                     !.pc = stage, !.msg = m, !.cipher = Committed(p, m)]]
     /\ str' = IF NewSession(c, m)
               THEN [str EXCEPT ![p].rebase = Signal(@, q)] ELSE str
     /\ UNCHANGED <<epoch, next, net, keys, peers, ka>>

\* register_peer_key.
RegisterPeerKey(p) ==
  /\ ctl[p].pc \in {"met", "known"}
  /\ ctl' = [ctl EXCEPT ![p].pc = "keyed"]
  /\ keys' = [keys EXCEPT ![p].recv[ctl[p].msg.from] =
                            [epoch |-> ctl[p].msg.epoch, cipher |-> ctl[p].cipher]]
  /\ UNCHANGED <<epoch, next, net, queue, peers, str, ka>>

\* register_send_key.
RegisterSendKey(p) ==
  /\ ctl[p].pc = "keyed"
  /\ ctl' = [ctl EXCEPT ![p].pc = "insert"]
  /\ keys' = [keys EXCEPT ![p].send[ctl[p].msg.from] =
                            [epoch |-> epoch[p], cipher |-> ctl[p].cipher]]
  /\ UNCHANGED <<epoch, next, net, queue, peers, str, ka>>

Known(p) == {q \in Node : peers[p][q] # None}

\* The registry entry, for which an entry of the lowest epoch makes room; a
\* HELLO is then answered.
InsertPeer(p) ==
  LET m == ctl[p].msg  q == m.from
      full == q \notin Known(p) /\ Cardinality(Known(p)) >= PeerCap
      lowest == {v \in Known(p) : \A u \in Known(p) : peers[p][v].epoch <= peers[p][u].epoch}
  IN /\ ctl[p].pc = "insert"
     /\ \E victim \in IF full THEN lowest ELSE {None} :
          peers' = [peers EXCEPT ![p] = [u \in Node |->
                      IF u = q THEN [epoch |-> m.epoch, cipher |-> ctl[p].cipher]
                      ELSE IF u = victim THEN None ELSE @[u]]]
     /\ IF m.kind = "hello" THEN Send(p, q, "ack", Base, <<ctl[p].cipher>>)
        ELSE UNCHANGED <<net, next>>
     /\ ctl' = [ctl EXCEPT ![p].pc = "recv", ![p].msg = None, ![p].cipher = None]
     /\ UNCHANGED <<epoch, queue, keys, str, ka>>

\* Any other control packet that is replayed or stale is dropped.
DropControl(p) ==
  LET m == Head(queue[p].control)  c == Pruned(p) IN
  /\ Arrived(p) /\ m.kind \in {"keepalive", "goodbye"}
  /\ Replayed(c, m)
  /\ ctl' = [ctl EXCEPT ![p] = c]
  /\ UNCHANGED <<epoch, next, net, keys, peers, str, ka>>

\* A KEEPALIVE, like every other message without effect on sessions, only
\* advances the watermark.
Keepalive(p) ==
  LET m == Head(queue[p].control)  c == Pruned(p) IN
  /\ Arrived(p) /\ m.kind = "keepalive" /\ ~Replayed(c, m)
  /\ ctl' = [ctl EXCEPT ![p] = Accept(c, m)]
  /\ UNCHANGED <<epoch, next, net, keys, peers, str, ka>>

\* Fault: the registry entry stays.
GoodbyeKeepsEntry(p) ==
  LET m == Head(queue[p].control)  c == Pruned(p)  q == m.from IN
  /\ Arrived(p) /\ m.kind = "goodbye" /\ ~Replayed(c, m)
  /\ ctl' = [ctl EXCEPT ![p] = [c EXCEPT !.session[q] = None, !.mark[q] = None,
                                         !.accepted[q] = {}]]
  /\ keys' = [keys EXCEPT ![p] = Forget(@, q)]
  /\ UNCHANGED <<epoch, next, net, peers, str, ka>>

\* A GOODBYE: everything about the peer is forgotten.
Goodbye(p) ==
  LET m == Head(queue[p].control)  c == Pruned(p)  q == m.from IN
  /\ Arrived(p) /\ m.kind = "goodbye" /\ ~Replayed(c, m)
  /\ ctl' = [ctl EXCEPT ![p] = [c EXCEPT !.session[q] = None, !.mark[q] = None,
                                         !.accepted[q] = {}]]
  /\ peers' = [peers EXCEPT ![p][q] = None]
  /\ keys' = [keys EXCEPT ![p] = Forget(@, q)]
  /\ UNCHANGED <<epoch, next, net, str, ka>>

ControlStep(p) ==
  \/ DropHello(p) \/ AcceptHello(p) \/ RegisterPeerKey(p) \/ RegisterSendKey(p) \/ InsertPeer(p)
  \/ DropControl(p) \/ Keepalive(p) \/ Goodbye(p)

-----------------------------------------------------------------------------
(* The stream task.                                                        *)

\* handle_stream_inbound: only what is newer than the mark is delivered.
StreamRecv(p) ==
  LET m == Head(queue[p].stream)  q == m.from
      stale == str[p].mark[q] # None /\ m.seq <= str[p].mark[q]
  IN /\ queue[p].stream # <<>>
     /\ queue' = [queue EXCEPT ![p].stream = Tail(@)]
     /\ str' = IF stale THEN str
               ELSE [str EXCEPT ![p].mark[q] = m.seq,
                                ![p].got[q] = Append(@, [epoch |-> m.epoch, seq |-> m.seq])]
     /\ UNCHANGED <<epoch, next, net, keys, ctl, peers, ka>>

\* The other arm of its select: a peer has a new session, its mark is cleared.
StreamRebase(p) ==
  /\ str[p].rebase # <<>>
  /\ str' = [str EXCEPT ![p].mark[Head(str[p].rebase)] = None, ![p].rebase = Tail(@)]
  /\ UNCHANGED <<epoch, next, net, queue, keys, ctl, peers, ka>>

-----------------------------------------------------------------------------
(* The keepalive task.                                                     *)

KaTick(p) ==
  /\ p \in Keepers /\ ka[p].pc = "idle" /\ Known(p) # {}
  /\ ka' = [ka EXCEPT ![p] = [pc |-> "send", todo |-> Known(p), alive |-> {}]]
  /\ UNCHANGED <<epoch, next, net, queue, keys, ctl, peers, str>>

\* Beyond MaxSeq keepalives are lost.
KaSend(p, q) ==
  /\ ka[p].pc = "send" /\ q \in ka[p].todo
  /\ ka' = [ka EXCEPT ![p].todo = @ \ {q}]
  /\ IF next[p] <= MaxSeq THEN Send(p, q, "keepalive", SendKey(p, q), <<>>)
     ELSE UNCHANGED <<net, next>>
  /\ UNCHANGED <<epoch, queue, keys, ctl, peers, str>>

\* transport.last_seen(): a copy of the map, and the time.
KaSnapshot(p) ==
  /\ ka[p].pc = "send" /\ ka[p].todo = {}
  /\ ka' = [ka EXCEPT ![p] = [pc |-> "retain", todo |-> {},
                              alive |-> {q \in Node : keys[p].heard[q] = "fresh"}]]
  /\ UNCHANGED <<epoch, next, net, queue, keys, ctl, peers, str>>

\* peers.retain by that copy.
KaRetain(p) ==
  /\ ka[p].pc = "retain"
  /\ peers' = [peers EXCEPT ![p] = [q \in Node |-> IF q \in ka[p].alive THEN @[q] ELSE None]]
  /\ ka' = [ka EXCEPT ![p] = [pc |-> "forget", todo |-> Known(p) \ ka[p].alive, alive |-> {}]]
  /\ UNCHANGED <<epoch, next, net, queue, keys, ctl, str>>

\* Fault: an evicted peer's keys stay.
KaForgetNothing(p, q) ==
  /\ ka[p].pc = "forget" /\ q \in ka[p].todo
  /\ ka' = [ka EXCEPT ![p].todo = @ \ {q}]
  /\ UNCHANGED <<epoch, next, net, queue, keys, ctl, peers, str>>

KaForget(p, q) ==
  /\ ka[p].pc = "forget" /\ q \in ka[p].todo
  /\ keys' = [keys EXCEPT ![p] = Forget(@, q)]
  /\ ka' = [ka EXCEPT ![p].todo = @ \ {q}]
  /\ UNCHANGED <<epoch, next, net, queue, ctl, peers, str>>

KaDone(p) ==
  /\ ka[p].pc = "forget" /\ ka[p].todo = {}
  /\ ka' = [ka EXCEPT ![p] = FreshKa]
  /\ UNCHANGED <<epoch, next, net, queue, keys, ctl, peers, str>>

KeepaliveStep(p) ==
  \/ KaTick(p) \/ KaSnapshot(p) \/ KaRetain(p) \/ KaDone(p)
  \/ \E q \in ka[p].todo : KaSend(p, q) \/ KaForget(p, q)

Next ==
  \E p \in Node :
    \/ \E q \in Node :
         \/ ConnectPeer(p, q) \/ SendHello(p, q) \/ SendHelloAck(p, q)
         \/ SendNotice(p, q) \/ SendStream(p, q) \/ SendGoodbye(p, q)
         \/ GoesSilent(p, q)
    \/ \E m \in net : RecvPacket(p, m)
    \/ Restart(p)
    \/ ControlStep(p)
    \/ StreamRecv(p) \/ StreamRebase(p)
    \/ KeepaliveStep(p)

Spec == Init /\ [][Next]_vars

\* tokio runs every ready task and fires every timer, and time passes; the
\* network need not deliver and the application need not act.
FairSpec ==
  /\ Spec
  /\ \A p \in Node :
       /\ WF_vars(ControlStep(p)) /\ WF_vars(KeepaliveStep(p))
       /\ \A q \in Node : WF_vars(GoesSilent(p, q))

-----------------------------------------------------------------------------
(* Properties.                                                             *)

Opt(S) == S \cup {None}

TypeOK ==
  /\ epoch \in [Node -> Nat] /\ next \in [Node -> Nat]
  /\ net \subseteq Packet
  /\ queue \in [Node -> [control : Seq(Packet), stream : Seq(Packet)]]
  /\ keys \in [Node -> [recv : [Node -> Opt(DataKey)], send : [Node -> Opt(DataKey)],
                        heard : [Node -> {"fresh", "silent", None}]]]
  /\ ctl \in [Node -> [session : [Node -> Opt(Nat)], mark : [Node -> Opt(Nat)],
                       accepted : [Node -> SUBSET Nat], pc : {"recv", "met", "known", "keyed", "insert"},
                       msg : Opt(Packet), cipher : Opt(Cipher)]]
  /\ peers \in [Node -> [Node -> Opt(DataKey)]]
  /\ str \in [Node -> [mark : [Node -> Opt(Nat)], rebase : Seq(Node),
                       got : [Node -> Seq([epoch : Nat, seq : Nat])]]]
  /\ ka \in [Node -> [pc : {"idle", "send", "retain", "forget"}, todo : SUBSET Node,
                      alive : SUBSET Node]]

\* Replay protection of the control task: everything accepted in the peer's
\* present session lies at or below the watermark, so none of it can be accepted
\* again, however packets are repeated and reordered and whoever restarts.
AcceptedBelowMark ==
  \A p, q \in Node : \A s \in ctl[p].accepted[q] :
    ctl[p].mark[q] # None /\ s <= ctl[p].mark[q]

\* "An OLDER-epoch HELLO is a replay from before a restart": no step replaces a
\* peer's data key by one of an older session of that peer, unless pruning or a
\* GOODBYE had made the control task forget the peer when it accepted the packet.
NoDowngrade ==
  [][\A p, q \in Node :
       /\ keys[p].recv[q] # None /\ keys'[p].recv[q] # None
       /\ ctl[p].pc # "met" /\ epoch'[p] = epoch[p]
       => keys'[p].recv[q].epoch >= keys[p].recv[q].epoch]_vars

\* Once a message of a peer's new session has been delivered on a Stream, none of
\* an older session is, although its packets may still be on the way, opened
\* already or queued.  (A GOODBYE or pruning makes the receiver forget which
\* session was the new one; there are none in the run that checks this.)
StreamSessionsInOrder ==
  \A p, q \in Node : \A i, j \in DOMAIN str[p].got[q] :
    i < j => str[p].got[q][i].epoch <= str[p].got[q][j].epoch

\* The registry never outgrows its cap, and what it says of a peer is what the
\* control task holds of it: restarts, GOODBYE, eviction and pruning never leave a
\* registered peer without its epoch and watermark.  (One run has the restarts, one
\* GOODBYE and eviction; a full registry and pruning take a third endpoint, which
\* only the proof has.)
RegistryCurrent ==
  \A p \in Node :
    /\ Cardinality(Known(p)) <= PeerCap
    /\ \A q \in Known(p) : ctl[p].pc = "recv" \/ ctl[p].msg.from # q =>
         ctl[p].session[q] = peers[p][q].epoch /\ ctl[p].mark[q] # None

\* What p has for its control task to do about q, now or later, is nothing: no
\* handshake packet in the network or in its queue would be accepted.
Settled(p, q) ==
  /\ ctl[p].pc = "recv" /\ queue[p].control = <<>>
  /\ \A m \in net : m.to = p /\ m.from = q /\ m.kind \in {"hello", "ack"} =>
       StaleEpoch(ctl[p], m) \/ Replayed(Rebased(ctl[p], m), m)

\* SPEC 3.5: "both endpoints of a conversation must share one suite".  Once two
\* endpoints have each other's present session and no handshake packet is left
\* that could change anything, each opens what the other sends.
SuitesAgree ==
  \A p, q \in Node :
    ( /\ p # q /\ Settled(p, q) /\ Settled(q, p)
      /\ keys[p].send[q] # None /\ keys[q].recv[p] # None
      /\ keys[q].recv[p].epoch = epoch[p] )
    => keys[p].send[q] = keys[q].recv[p]

\* When traffic has ceased, nothing is left of the peers of an endpoint with a
\* keepalive task: no registry entry and no key, whatever the handshake, the
\* eviction and GOODBYE did to each other on the way.
SilentPeersForgotten ==
  \A p \in Keepers :
    <>[](\A q \in Node : peers[p][q] = None /\ keys[p].recv[q] = None /\ keys[p].send[q] = None)
=============================================================================
