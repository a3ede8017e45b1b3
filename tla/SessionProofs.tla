--------------------------- MODULE SessionProofs ---------------------------
(***************************************************************************)
(* Proofs about Session, for any number of endpoints, suites and packets,  *)
(* and every capacity.  What every endpoint keeps about its peers agrees   *)
(* with itself (IInv); on top of that, the sessions on a Stream come in    *)
(* order while no peer is forgotten (SInv), and whatever names a suite     *)
(* names its conversation's while one choice is made for it (SuitesInv).   *)
(***************************************************************************)
EXTENDS Session, SetLemmas

QueueT == [control : Seq(Packet), stream : Seq(Packet)]
KeysT == [recv : [Node -> Opt(DataKey)], send : [Node -> Opt(DataKey)],
          heard : [Node -> {"fresh", "silent", None}]]
CtlT == [session : [Node -> Opt(Nat)], mark : [Node -> Opt(Nat)],
         accepted : [Node -> SUBSET Nat], pc : {"recv", "met", "known", "keyed", "insert"},
         msg : Opt(Packet), cipher : Opt(Cipher)]
StrT == [mark : [Node -> Opt(Nat)], rebase : Seq(Node),
         got : [Node -> Seq([epoch : Nat, seq : Nat])]]
KaT == [pc : {"idle", "send", "retain", "forget"}, todo : SUBSET Node, alive : SUBSET Node]

-----------------------------------------------------------------------------
(* The invariant.  Most of it is about one endpoint's control task c, the  *)
(* receive keys its transport has and its registry.                        *)

\* Everything accepted lies at or below the watermark.
MarksOK(c) ==
  \A q \in Node : \A s \in c.accepted[q] : c.mark[q] # None /\ s <= c.mark[q]

\* The task has accepted a packet of q and not registered q's key yet.
Unkeyed(c, q) == c.pc \in {"met", "known"} /\ c.msg.from = q

\* A key and a session that are both remembered are of the same epoch, but for a
\* session whose key is still to be registered: that one may be newer.
KeysOK(c, recv) ==
  \A q \in Node : c.session[q] # None /\ recv[q] # None =>
    /\ ~Unkeyed(c, q) => recv[q].epoch = c.session[q]
    /\ Unkeyed(c, q) /\ c.pc = "known" => recv[q].epoch <= c.session[q]

\* Between accepting a handshake packet and registering its sender, the task
\* remembers the session it accepted.
PendingOK(c) ==
  c.pc # "recv" => /\ c.msg \in Packet /\ c.cipher \in Cipher
                   /\ c.session[c.msg.from] = c.msg.epoch /\ c.mark[c.msg.from] # None

Entries(reg) == {q \in Node : reg[q] # None}

\* The registry is within its cap, and agrees with the sessions.
RegistryOK(c, reg) ==
  /\ IsFiniteSet(Entries(reg)) /\ Cardinality(Entries(reg)) <= PeerCap
  /\ \A q \in Entries(reg) : c.pc = "recv" \/ c.msg.from # q =>
       c.session[q] = reg[q].epoch /\ c.mark[q] # None

NodeOK(c, recv, reg) == MarksOK(c) /\ KeysOK(c, recv) /\ PendingOK(c) /\ RegistryOK(c, reg)

IInv == TypeOK /\ \A p \in Node : NodeOK(ctl[p], keys[p].recv, peers[p])

-----------------------------------------------------------------------------
(* What is needed for the order of sessions on a Stream, when nobody says  *)
(* goodbye and the table never outgrows the cap.                           *)

NothingForgotten ==
  Leavers = {} /\ IsFiniteSet(Node) /\ Cardinality(Node) <= PeerCap

\* Data goes under a key of its sender's present session.
OwnKeys == \A p, q \in Node : keys[p].send[q] # None => keys[p].send[q].epoch = epoch[p]

StreamKeyed ==
  \A m \in net : m.kind = "stream" => m.key \in DataKey /\ m.key.epoch = m.epoch

NoGoodbye ==
  /\ \A m \in net : m.kind # "goodbye"
  /\ \A p \in Node : \A i \in DOMAIN queue[p].control : queue[p].control[i].kind # "goodbye"

\* A key that is held belongs to a session that was remembered as it was last
\* replaced.
KeysRemembered ==
  \A p, q \in Node : keys[p].recv[q] # None =>
    ctl[p].session[q] # None /\ ~(ctl[p].pc = "met" /\ ctl[p].msg.from = q)

\* The session whose packets q's key at p opens, or the one the next key will be of.
Level(p, q) == IF keys[p].recv[q] # None THEN keys[p].recv[q].epoch ELSE ctl[p].session[q]

\* What has been delivered and what is queued come in the order of their sessions,
\* none later than the level: got delivered, line queued.
InOrder(q, got, line, level) ==
  /\ \A i, j \in DOMAIN got : i < j => got[i].epoch <= got[j].epoch
  /\ \A i \in DOMAIN got : \A j \in DOMAIN line : line[j].from = q => got[i].epoch <= line[j].epoch
  /\ \A i, j \in DOMAIN line :
       i < j /\ line[i].from = q /\ line[j].from = q => line[i].epoch <= line[j].epoch
  /\ \A j \in DOMAIN line : line[j].from = q => level # None /\ line[j].epoch <= level
  /\ \A i \in DOMAIN got : level # None /\ got[i].epoch <= level

StreamsOK ==
  \A p, q \in Node : InOrder(q, str[p].got[q], queue[p].stream, Level(p, q))

SInv == OwnKeys /\ StreamKeyed /\ NoGoodbye /\ KeysRemembered /\ StreamsOK

-----------------------------------------------------------------------------
(* The control task's operators.                                           *)

\* What is remembered of q is the same in c and d.
SameOf(c, d, q) ==
  c.session[q] = d.session[q] /\ c.mark[q] = d.mark[q] /\ c.accepted[q] = d.accepted[q]

\* The parts of a control task's state.
LEMMA CtlFields ==
  ASSUME NEW c
  PROVE  c \in CtlT <=>
           /\ c = [session |-> c.session, mark |-> c.mark, accepted |-> c.accepted,
                   pc |-> c.pc, msg |-> c.msg, cipher |-> c.cipher]
           /\ c.session \in [Node -> Opt(Nat)] /\ c.mark \in [Node -> Opt(Nat)]
           /\ c.accepted \in [Node -> SUBSET Nat] /\ c.pc \in {"recv", "met", "known", "keyed", "insert"}
           /\ c.msg \in Opt(Packet) /\ c.cipher \in Opt(Cipher)
BY DEF CtlT

\* The three maps of a control task changed at one address.
CtlSet(c, q, s, k, a) == [c EXCEPT !.session[q] = s, !.mark[q] = k, !.accepted[q] = a]

\* The result of that.
LEMMA CtlChange ==
  ASSUME NEW c \in CtlT, NEW q \in Node, NEW s \in Opt(Nat), NEW k \in Opt(Nat), NEW a \in SUBSET Nat,
         NEW d, d = CtlSet(c, q, s, k, a)
  PROVE  /\ d \in CtlT /\ d.pc = c.pc /\ d.msg = c.msg /\ d.cipher = c.cipher
         /\ d.session[q] = s /\ d.mark[q] = k /\ d.accepted[q] = a
         /\ \A u \in Node : u # q => SameOf(d, c, u)
<1>1. /\ c.session \in [Node -> Opt(Nat)] /\ c.mark \in [Node -> Opt(Nat)]
      /\ c.accepted \in [Node -> SUBSET Nat] /\ c.pc \in {"recv", "met", "known", "keyed", "insert"}
      /\ c.msg \in Opt(Packet) /\ c.cipher \in Opt(Cipher)
  BY CtlFields
<1>2. d = [session |-> [c.session EXCEPT ![q] = s], mark |-> [c.mark EXCEPT ![q] = k],
           accepted |-> [c.accepted EXCEPT ![q] = a], pc |-> c.pc, msg |-> c.msg, cipher |-> c.cipher]
  BY DEF CtlT, CtlSet
<1>3. /\ [c.session EXCEPT ![q] = s] \in [Node -> Opt(Nat)]
      /\ [c.mark EXCEPT ![q] = k] \in [Node -> Opt(Nat)]
      /\ [c.accepted EXCEPT ![q] = a] \in [Node -> SUBSET Nat]
  BY <1>1
<1>4. d \in CtlT
  BY <1>1, <1>2, <1>3 DEF CtlT
<1>5. /\ d.session = [c.session EXCEPT ![q] = s] /\ d.mark = [c.mark EXCEPT ![q] = k]
      /\ d.accepted = [c.accepted EXCEPT ![q] = a] /\ d.pc = c.pc /\ d.msg = c.msg /\ d.cipher = c.cipher
  BY <1>2
<1>6. /\ d.session[q] = s /\ d.mark[q] = k /\ d.accepted[q] = a
      /\ \A u \in Node : u # q => SameOf(d, c, u)
  BY <1>1, <1>5 DEF SameOf
<1> QED BY <1>4, <1>5, <1>6

\* Pruning forgets all of an address or nothing, and nothing of a registered one.
LEMMA PrunedFacts ==
  ASSUME TypeOK, NEW p \in Node, NEW c, c = Pruned(p)
  PROVE  /\ c \in CtlT /\ c.pc = ctl[p].pc /\ c.msg = ctl[p].msg /\ c.cipher = ctl[p].cipher
         /\ \A q \in Node :
              \/ SameOf(c, ctl[p], q)
              \/ /\ peers[p][q] = None
                 /\ c.session[q] = None /\ c.mark[q] = None /\ c.accepted[q] = {}
<1>1. PICK d : d = ctl[p]
  OBVIOUS
<1>2. d \in CtlT
  BY <1>1 DEF TypeOK, CtlT
<1>3. /\ d.session \in [Node -> Opt(Nat)] /\ d.mark \in [Node -> Opt(Nat)]
      /\ d.accepted \in [Node -> SUBSET Nat] /\ d.pc \in {"recv", "met", "known", "keyed", "insert"}
      /\ d.msg \in Opt(Packet) /\ d.cipher \in Opt(Cipher)
  BY <1>2, CtlFields
<1>4. CASE c = d
  BY <1>1, <1>2, <1>4 DEF SameOf
<1>5. CASE c # d
  <2> DEFINE gone == {q \in Node : peers[p][q] = None}
             k == [q \in Node |-> IF q \in gone THEN None ELSE d.mark[q]]
             s == [q \in Node |-> IF q \in gone THEN None ELSE d.session[q]]
             a == [q \in Node |-> IF q \in gone THEN {} ELSE d.accepted[q]]
  <2>1. c = [d EXCEPT !.mark = k, !.session = s, !.accepted = a]
    BY <1>1, <1>5 DEF Pruned
  <2>2. \A q \in Node : q \in gone <=> peers[p][q] = None
    OBVIOUS
  <2> HIDE DEF gone
  <2>3. k \in [Node -> Opt(Nat)] /\ s \in [Node -> Opt(Nat)] /\ a \in [Node -> SUBSET Nat]
    BY <1>3 DEF Opt
  <2>4. \A q \in Node :
          /\ q \in gone => k[q] = None /\ s[q] = None /\ a[q] = {}
          /\ q \notin gone => k[q] = d.mark[q] /\ s[q] = d.session[q] /\ a[q] = d.accepted[q]
    OBVIOUS
  <2> HIDE DEF k, s, a
  <2>5. c = [session |-> s, mark |-> k, accepted |-> a, pc |-> d.pc, msg |-> d.msg, cipher |-> d.cipher]
    BY <1>2, <2>1 DEF CtlT
  <2>6. c \in CtlT /\ c.pc = d.pc /\ c.msg = d.msg /\ c.cipher = d.cipher
        /\ c.session = s /\ c.mark = k /\ c.accepted = a
    BY <1>3, <2>3, <2>5 DEF CtlT
  <2> QED BY <1>1, <2>2, <2>4, <2>6 DEF SameOf
<1> QED BY <1>4, <1>5

\* So it leaves the endpoint in order.
LEMMA PrunedOK ==
  ASSUME TypeOK, NEW p \in Node, NodeOK(ctl[p], keys[p].recv, peers[p]), ctl[p].pc = "recv",
         NEW c, c = Pruned(p)
  PROVE  c \in CtlT /\ c.pc = "recv" /\ NodeOK(c, keys[p].recv, peers[p])
<1>1. PICK d, recv, reg : d = ctl[p] /\ recv = keys[p].recv /\ reg = peers[p]
  OBVIOUS
<1>2. MarksOK(d) /\ KeysOK(d, recv) /\ RegistryOK(d, reg)
  BY <1>1 DEF NodeOK
<1>3. /\ c \in CtlT /\ c.pc = "recv" /\ d.pc = "recv" /\ c.msg = d.msg
      /\ \A q \in Node :
           \/ SameOf(c, d, q)
           \/ reg[q] = None /\ c.session[q] = None /\ c.mark[q] = None /\ c.accepted[q] = {}
  BY <1>1, PrunedFacts
<1>4. MarksOK(c)
  BY <1>2, <1>3 DEF MarksOK, SameOf
<1>5. KeysOK(c, recv)
  BY <1>2, <1>3 DEF KeysOK, Unkeyed, SameOf
<1>6. PendingOK(c)
  BY <1>3 DEF PendingOK
<1>7. RegistryOK(c, reg)
  BY <1>2, <1>3 DEF RegistryOK, Entries, SameOf
<1> QED BY <1>1, <1>3, <1>4, <1>5, <1>6, <1>7 DEF NodeOK

\* Only a packet above the watermark is accepted, and it becomes the watermark.
LEMMA AcceptOK ==
  ASSUME NEW c \in CtlT, MarksOK(c), NEW m \in Packet, ~Replayed(c, m), NEW d, d = Accept(c, m)
  PROVE  /\ d \in CtlT /\ d.pc = c.pc /\ d.msg = c.msg /\ d.cipher = c.cipher /\ MarksOK(d)
         /\ d.session[m.from] = c.session[m.from] /\ d.mark[m.from] = m.seq
         /\ \A u \in Node : u # m.from => SameOf(d, c, u)
<1>1. PICK q, n : q = m.from /\ n = m.seq
  OBVIOUS
<1>2. q \in Node /\ n \in Nat /\ None \notin Nat
  BY <1>1, NoneAssumption DEF Packet
<1>3. c.session[q] \in Opt(Nat) /\ c.accepted[q] \in SUBSET Nat /\ c.mark[q] \in Opt(Nat)
  BY <1>2, CtlFields
<1>4. PICK a : a = c.accepted[q] \cup {n}
  OBVIOUS
<1>5. a \in SUBSET Nat /\ n \in Opt(Nat)
  BY <1>2, <1>3, <1>4 DEF Opt
<1>6. d = CtlSet(c, q, c.session[q], n, a)
  BY <1>1, <1>4, CtlFields DEF Accept, CtlSet
<1>7. /\ d \in CtlT /\ d.pc = c.pc /\ d.msg = c.msg /\ d.cipher = c.cipher
      /\ d.session[q] = c.session[q] /\ d.mark[q] = n /\ d.accepted[q] = a
      /\ \A u \in Node : u # q => SameOf(d, c, u)
  <2>1. PICK v \in Opt(Nat) : v = c.session[q]
    BY <1>3
  <2>2. d = CtlSet(c, q, v, n, a)
    BY <1>6, <2>1
  <2>3. /\ d \in CtlT /\ d.pc = c.pc /\ d.msg = c.msg /\ d.cipher = c.cipher
        /\ d.session[q] = v /\ d.mark[q] = n /\ d.accepted[q] = a
        /\ \A u \in Node : u # q => SameOf(d, c, u)
    BY <1>2, <1>5, <2>2, CtlChange
  <2> QED BY <2>1, <2>3
<1>8. \A s \in c.accepted[q] : s <= n
  <2> SUFFICES ASSUME NEW s \in c.accepted[q] PROVE s <= n
    OBVIOUS
  <2>1. c.mark[q] # None /\ s <= c.mark[q] /\ c.mark[q] \in Nat /\ s \in Nat
    BY <1>2, <1>3 DEF MarksOK, Opt
  <2>2. ~(n <= c.mark[q])
    BY <1>1, <2>1 DEF Replayed
  <2> QED BY <1>2, <2>1, <2>2
<1>9. MarksOK(d)
  <2> SUFFICES ASSUME NEW u \in Node, NEW s \in d.accepted[u]
               PROVE  d.mark[u] # None /\ s <= d.mark[u]
    BY DEF MarksOK
  <2>1. CASE u = q
    BY <1>2, <1>4, <1>7, <1>8, <2>1
  <2>2. CASE u # q
    BY <1>7, <2>2 DEF MarksOK, SameOf
  <2> QED BY <2>1, <2>2
<1> QED BY <1>1, <1>7, <1>9

\* After rebasing the session is the packet's, unless the packet was of an older one.
LEMMA RebasedOK ==
  ASSUME NEW c \in CtlT, MarksOK(c), NEW m \in Packet, NEW d, d = Rebased(c, m)
  PROVE  /\ d \in CtlT /\ d.pc = c.pc /\ d.msg = c.msg /\ d.cipher = c.cipher /\ MarksOK(d)
         /\ ~StaleEpoch(c, m) => d.session[m.from] = m.epoch
         /\ \A u \in Node : u # m.from => SameOf(d, c, u)
<1>1. PICK q, e : q = m.from /\ e = m.epoch
  OBVIOUS
<1>2. q \in Node /\ e \in Nat /\ None \notin Nat /\ c.session[q] \in Opt(Nat)
  BY <1>1, NoneAssumption, CtlFields DEF Packet
<1>3. CASE NewSession(c, m)
  <2>1. c.session[q] # e
    BY <1>1, <1>2, <1>3 DEF NewSession, Opt
  <2>2. d = CtlSet(c, q, e, None, {})
    BY <1>1, <1>3, <2>1 DEF Rebased, CtlSet
  <2>3. e \in Opt(Nat) /\ None \in Opt(Nat) /\ {} \in SUBSET Nat
    BY <1>2 DEF Opt
  <2>4. /\ d \in CtlT /\ d.pc = c.pc /\ d.msg = c.msg /\ d.cipher = c.cipher
        /\ d.session[q] = e /\ d.mark[q] = None /\ d.accepted[q] = {}
        /\ \A u \in Node : u # q => SameOf(d, c, u)
    BY <1>2, <2>2, <2>3, CtlChange
  <2>5. MarksOK(d)
    BY <2>4 DEF MarksOK, SameOf
  <2> QED BY <1>1, <2>4, <2>5
<1>4. CASE ~NewSession(c, m)
  <2>1. d = c
    BY <1>4 DEF Rebased
  <2>2. ~StaleEpoch(c, m) => c.session[q] = e
    BY <1>1, <1>2, <1>4 DEF NewSession, StaleEpoch, Opt
  <2> QED BY <1>1, <2>1, <2>2 DEF SameOf
<1> QED BY <1>3, <1>4

-----------------------------------------------------------------------------
(* Steps.                                                                  *)

\* What the type invariant says of one endpoint.
LEMMA NodeTypes ==
  ASSUME TypeOK, NEW p \in Node
  PROVE  /\ ctl[p] \in CtlT /\ keys[p] \in KeysT /\ queue[p] \in QueueT
         /\ peers[p] \in [Node -> Opt(DataKey)] /\ str[p] \in StrT /\ ka[p] \in KaT
         /\ epoch[p] \in Nat /\ next[p] \in Nat
BY DEF TypeOK, CtlT, KeysT, QueueT, StrT, KaT

\* The type invariant in terms of the endpoints' types.
LEMMA Types ==
  TypeOK <=> /\ epoch \in [Node -> Nat] /\ next \in [Node -> Nat] /\ net \subseteq Packet
             /\ queue \in [Node -> QueueT] /\ keys \in [Node -> KeysT] /\ ctl \in [Node -> CtlT]
             /\ peers \in [Node -> [Node -> Opt(DataKey)]] /\ str \in [Node -> StrT]
             /\ ka \in [Node -> KaT]
BY DEF TypeOK, CtlT, KeysT, QueueT, StrT, KaT

\* A step of one endpoint leaves the others in order.
LEMMA LocalStep ==
  ASSUME IInv, NEW p \in Node, TypeOK',
         \A r \in Node : r # p => /\ ctl'[r] = ctl[r] /\ keys'[r].recv = keys[r].recv
                                  /\ peers'[r] = peers[r],
         NodeOK(ctl'[p], keys'[p].recv, peers'[p])
  PROVE  IInv'
<1>1. \A r \in Node : NodeOK(ctl[r], keys[r].recv, peers[r])
  BY DEF IInv
<1>2. \A r \in Node : NodeOK(ctl'[r], keys'[r].recv, peers'[r])
  BY <1>1
<1> QED BY <1>2 DEF IInv

\* A packet that is sent.
LEMMA SendType ==
  ASSUME TypeOK, NEW p \in Node, NEW q \in Node, NEW kind \in Kind, NEW key \in DataKey \cup {Base},
         NEW offer \in Seq(Cipher), Send(p, q, kind, key, offer)
  PROVE  net' \subseteq Packet /\ next' \in [Node -> Nat]
<1>1. PICK m : m = [from |-> p, to |-> q, kind |-> kind, key |-> key,
                    seq |-> next[p], epoch |-> epoch[p], offer |-> offer]
  OBVIOUS
<1>2. epoch[p] \in Nat /\ next[p] \in Nat
  BY NodeTypes
<1>3. m \in Packet
  BY <1>1, <1>2 DEF Packet, Opt
<1>4. net' = net \cup {m} /\ next' = [next EXCEPT ![p] = next[p] + 1]
  BY <1>1 DEF Send
<1>5. net \subseteq Packet /\ next \in [Node -> Nat]
  BY DEF TypeOK
<1> QED BY <1>2, <1>3, <1>4, <1>5

\* A data packet goes under a data key.
LEMMA SendKeyType ==
  ASSUME TypeOK, NEW p \in Node, NEW q \in Node
  PROVE  SendKey(p, q) \in DataKey
<1>1. keys[p].send[q] \in Opt(DataKey) /\ epoch[p] \in Nat
  BY NodeTypes DEF KeysT
<1>2. [epoch |-> epoch[p], cipher |-> Baseline] \in DataKey
  BY <1>1, BaselineAssumption DEF DataKey
<1> QED BY <1>1, <1>2 DEF SendKey, Opt

\* What the application does is to send one packet.
LEMMA ApplicationSends ==
  ASSUME TypeOK, NEW p \in Node, NEW q \in Node,
         \/ ConnectPeer(p, q) \/ SendHello(p, q) \/ SendHelloAck(p, q)
         \/ SendNotice(p, q) \/ SendStream(p, q) \/ SendGoodbye(p, q)
  PROVE  \E kind \in Kind, key \in DataKey \cup {Base}, offer \in Seq(Cipher) :
           Send(p, q, kind, key, offer)
<1>1. SendKey(p, q) \in DataKey \cup {Base} /\ Base \in DataKey \cup {Base} /\ <<>> \in Seq(Cipher)
  BY SendKeyType
<1>2. /\ "hello" \in Kind /\ "ack" \in Kind /\ "keepalive" \in Kind
      /\ "stream" \in Kind /\ "goodbye" \in Kind
  BY DEF Kind
<1>3. CASE ConnectPeer(p, q)
  <2>1. Send(p, q, "hello", Base, Prefs[p]) /\ Prefs[p] \in Seq(Cipher)
    BY <1>3, PrefsAssumption DEF ConnectPeer
  <2> QED BY <1>1, <1>2, <2>1
<1>4. CASE SendHello(p, q)
  <2>1. PICK list \in Lists : Send(p, q, "hello", Base, list)
    BY <1>4 DEF SendHello
  <2>2. list \in Seq(Cipher)
    BY SessionBounds
  <2> QED BY <1>1, <1>2, <2>1, <2>2
<1>5. CASE SendHelloAck(p, q)
  <2>1. PICK c \in Cipher : Send(p, q, "ack", Base, <<c>>)
    BY <1>5 DEF SendHelloAck
  <2>2. <<c>> \in Seq(Cipher)
    OBVIOUS
  <2> QED BY <1>1, <1>2, <2>1, <2>2
<1>6. CASE SendNotice(p, q)
  BY <1>1, <1>2, <1>6 DEF SendNotice
<1>7. CASE SendStream(p, q)
  BY <1>1, <1>2, <1>7 DEF SendStream
<1>8. CASE SendGoodbye(p, q)
  BY <1>1, <1>2, <1>8 DEF SendGoodbye
<1> QED BY <1>3, <1>4, <1>5, <1>6, <1>7, <1>8

\* What the application sends changes nobody's sessions.
LEMMA ApplicationStep ==
  ASSUME IInv, NEW p \in Node, NEW q \in Node,
         \/ ConnectPeer(p, q) \/ SendHello(p, q) \/ SendHelloAck(p, q)
         \/ SendNotice(p, q) \/ SendStream(p, q) \/ SendGoodbye(p, q)
  PROVE  IInv'
<1>1. TypeOK
  BY DEF IInv
<1>2. PICK kind \in Kind, key \in DataKey \cup {Base}, offer \in Seq(Cipher) :
        Send(p, q, kind, key, offer)
  BY <1>1, ApplicationSends
<1>4. net' \subseteq Packet /\ next' \in [Node -> Nat]
  BY <1>1, <1>2, SendType
<1>5. UNCHANGED <<epoch, queue, keys, ctl, peers, str, ka>>
  BY DEF ConnectPeer, SendHello, SendHelloAck, SendNotice, SendStream, SendGoodbye
<1>6. TypeOK'
  BY <1>1, <1>4, <1>5 DEF TypeOK
<1> QED BY <1>5, <1>6 DEF IInv

\* Nor does what the receive loop does.
LEMMA HeardType ==
  ASSUME TypeOK, NEW p \in Node, NEW q \in Node, NEW h \in {"fresh", "silent", None},
         keys' = [keys EXCEPT ![p].heard[q] = h]
  PROVE  keys' \in [Node -> KeysT] /\ \A r \in Node : keys'[r].recv = keys[r].recv /\ keys'[r].send = keys[r].send
<1>1. keys \in [Node -> KeysT]
  BY Types
<1>2. PICK k : k = keys[p]
  OBVIOUS
<1>3. k \in KeysT
  BY <1>1, <1>2
<1>4. PICK g : g = [k.heard EXCEPT ![q] = h]
  OBVIOUS
<1>5. g \in [Node -> {"fresh", "silent", None}]
  BY <1>3, <1>4 DEF KeysT
<1>6. PICK j : j = [k EXCEPT !.heard = g]
  OBVIOUS
<1>7. j \in KeysT /\ j.recv = k.recv /\ j.send = k.send
  BY <1>3, <1>5, <1>6 DEF KeysT
<1>8. keys' = [keys EXCEPT ![p] = j]
  BY <1>1, <1>2, <1>4, <1>6
<1> QED BY <1>1, <1>2, <1>7, <1>8

\* A packet the transport decrypts and queues, or drops.
LEMMA ReceiveStep ==
  ASSUME IInv, NEW p \in Node, NEW m \in net, RecvPacket(p, m)
  PROVE  IInv'
<1>1. TypeOK /\ m \in Packet
  BY DEF IInv, TypeOK
<1>2. m.from \in Node /\ "fresh" \in {"fresh", "silent", None}
  BY <1>1 DEF Packet
<1>3. keys' \in [Node -> KeysT] /\ \A r \in Node : keys'[r].recv = keys[r].recv
  BY <1>1, <1>2, HeardType DEF RecvPacket
<1>4. queue' \in [Node -> QueueT]
  <2>1. PICK route : route = IF m.kind = "stream" THEN "stream" ELSE "control"
    OBVIOUS
  <2>2. queue' = [queue EXCEPT ![p][route] = Append(queue[p][route], m)]
    BY <2>1 DEF RecvPacket
  <2>3. queue \in [Node -> QueueT] /\ route \in {"stream", "control"}
    BY <1>1, <2>1, Types
  <2>4. PICK u : u = [queue[p] EXCEPT ![route] = Append(queue[p][route], m)]
    OBVIOUS
  <2>5. queue[p].stream \in Seq(Packet) /\ queue[p].control \in Seq(Packet)
    BY <2>3 DEF QueueT
  <2>6. Append(queue[p].stream, m) \in Seq(Packet) /\ Append(queue[p].control, m) \in Seq(Packet)
    BY <1>1, <2>5
  <2>7. u \in QueueT
    BY <2>3, <2>4, <2>6 DEF QueueT
  <2>8. queue' = [queue EXCEPT ![p] = u]
    BY <2>2, <2>3, <2>4
  <2> QED BY <2>3, <2>7, <2>8
<1>5. net' \subseteq net /\ UNCHANGED <<epoch, next, ctl, peers, str, ka>>
  BY DEF RecvPacket
<1>6. TypeOK'
  BY <1>1, <1>3, <1>4, <1>5 DEF TypeOK, KeysT, QueueT
<1>7. \A r \in Node : NodeOK(ctl[r], keys'[r].recv, peers[r])
  BY <1>3 DEF IInv
<1> QED BY <1>5, <1>6, <1>7 DEF IInv

\* Nor the passing of time.
LEMMA SilenceStep ==
  ASSUME IInv, NEW p \in Node, NEW q \in Node, GoesSilent(p, q)
  PROVE  IInv'
<1>1. TypeOK
  BY DEF IInv
<1>2. "silent" \in {"fresh", "silent", None}
  OBVIOUS
<1>3. keys' \in [Node -> KeysT] /\ \A r \in Node : keys'[r].recv = keys[r].recv
  BY <1>1, <1>2, HeardType DEF GoesSilent
<1>4. UNCHANGED <<epoch, next, net, queue, ctl, peers, str, ka>>
  BY DEF GoesSilent
<1>5. TypeOK'
  BY <1>1, <1>3, <1>4 DEF TypeOK, KeysT
<1>6. \A r \in Node : NodeOK(ctl[r], keys'[r].recv, peers[r])
  BY <1>3 DEF IInv
<1> QED BY <1>4, <1>5, <1>6 DEF IInv

\* What a Band starts with is in order.
LEMMA FreshOK ==
  /\ FreshQueue \in QueueT /\ FreshKeys \in KeysT /\ FreshCtl \in CtlT /\ FreshStr \in StrT
  /\ FreshKa \in KaT /\ Nobody \in [Node -> Opt(DataKey)]
  /\ NodeOK(FreshCtl, FreshKeys.recv, Nobody)
<1>1. /\ Nobody \in [Node -> Opt(DataKey)] /\ Nobody \in [Node -> Opt(Nat)]
      /\ Nobody \in [Node -> {"fresh", "silent", None}] /\ \A q \in Node : Nobody[q] = None
  BY DEF Nobody, Opt
<1> HIDE DEF Nobody
<1>2. FreshQueue \in QueueT /\ FreshKa \in KaT
  BY DEF FreshQueue, QueueT, FreshKa, KaT
<1>3. FreshKeys \in KeysT /\ FreshKeys.recv = Nobody
  BY <1>1 DEF FreshKeys, KeysT
<1>4. PICK c : c = FreshCtl
  OBVIOUS
<1>5. [q \in Node |-> {}] \in [Node -> SUBSET Nat] /\ None \in Opt(Packet) /\ None \in Opt(Cipher)
  BY DEF Opt
<1>6. /\ c \in CtlT /\ c.session = Nobody /\ c.mark = Nobody /\ c.pc = "recv"
      /\ c.accepted = [q \in Node |-> {}]
  BY <1>1, <1>4, <1>5 DEF FreshCtl, CtlT
<1>7. FreshStr \in StrT
  <2>1. [q \in Node |-> <<>>] \in [Node -> Seq([epoch : Nat, seq : Nat])] /\ <<>> \in Seq(Node)
    OBVIOUS
  <2> QED BY <1>1, <2>1 DEF FreshStr, StrT
<1>8. MarksOK(c) /\ KeysOK(c, Nobody) /\ PendingOK(c)
  BY <1>1, <1>6 DEF MarksOK, KeysOK, Unkeyed, PendingOK
<1>9. RegistryOK(c, Nobody)
  <2>1. Entries(Nobody) = {}
    BY <1>1 DEF Entries
  <2>2. IsFiniteSet({}) /\ Cardinality({}) = 0 /\ 0 <= PeerCap
    BY FS_EmptySet, SessionBounds
  <2> QED BY <2>1, <2>2 DEF RegistryOK
<1> QED BY <1>1, <1>2, <1>3, <1>4, <1>6, <1>7, <1>8, <1>9 DEF NodeOK

\* Nobody has heard of anybody at the start.
LEMMA InitInvariant == Init => IInv
<1> SUFFICES ASSUME Init PROVE IInv
  OBVIOUS
<1>1. epoch \in [Node -> Nat] /\ next \in [Node -> Nat]
  <2>1. next \in [Node -> UNION {SeqStart[p] : p \in Node}] /\ \A p \in Node : next[p] \in Nat
    BY SessionBounds DEF Init
  <2> QED BY <2>1 DEF Init
<1>2. /\ net = {} /\ queue = [p \in Node |-> FreshQueue] /\ keys = [p \in Node |-> FreshKeys]
      /\ ctl = [p \in Node |-> FreshCtl] /\ peers = [p \in Node |-> Nobody]
      /\ str = [p \in Node |-> FreshStr] /\ ka = [p \in Node |-> FreshKa]
  BY DEF Init
<1>3. TypeOK
  BY <1>1, <1>2, FreshOK, Types
<1>4. \A p \in Node : NodeOK(ctl[p], keys[p].recv, peers[p])
  BY <1>2, FreshOK
<1> QED BY <1>3, <1>4 DEF IInv

\* A restart forgets everything at once.
LEMMA RestartStep ==
  ASSUME IInv, NEW p \in Node, Restart(p)
  PROVE  IInv'
<1>1. /\ epoch \in [Node -> Nat] /\ next \in [Node -> Nat] /\ net \subseteq Packet
      /\ queue \in [Node -> QueueT] /\ keys \in [Node -> KeysT] /\ ctl \in [Node -> CtlT]
      /\ peers \in [Node -> [Node -> Opt(DataKey)]] /\ str \in [Node -> StrT] /\ ka \in [Node -> KaT]
  BY Types DEF IInv
<1>2. /\ queue' = [queue EXCEPT ![p] = FreshQueue] /\ keys' = [keys EXCEPT ![p] = FreshKeys]
      /\ ctl' = [ctl EXCEPT ![p] = FreshCtl] /\ peers' = [peers EXCEPT ![p] = Nobody]
      /\ str' = [str EXCEPT ![p] = FreshStr] /\ ka' = [ka EXCEPT ![p] = FreshKa]
  BY DEF Restart
<1>3. epoch' \in [Node -> Nat] /\ next' \in [Node -> Nat] /\ net' \subseteq Packet
  <2>1. PICK s \in SeqStart[p] : next' = [next EXCEPT ![p] = s]
    BY DEF Restart
  <2>2. s \in Nat
    BY SessionBounds
  <2>3. epoch' = [epoch EXCEPT ![p] = epoch[p] + 1] /\ net' = net
    BY DEF Restart
  <2> QED BY <1>1, <2>1, <2>2, <2>3
<1>4. /\ queue' \in [Node -> QueueT] /\ keys' \in [Node -> KeysT] /\ ctl' \in [Node -> CtlT]
      /\ peers' \in [Node -> [Node -> Opt(DataKey)]] /\ str' \in [Node -> StrT] /\ ka' \in [Node -> KaT]
  BY <1>1, <1>2, FreshOK
<1>5. TypeOK'
  BY <1>3, <1>4 DEF TypeOK, CtlT, KeysT, QueueT, StrT, KaT
<1>6. NodeOK(ctl'[p], keys'[p].recv, peers'[p])
  <2>1. ctl'[p] = FreshCtl /\ keys'[p] = FreshKeys /\ peers'[p] = Nobody
    BY <1>1, <1>2
  <2> QED BY <2>1, FreshOK
<1>7. \A r \in Node : r # p => ctl'[r] = ctl[r] /\ keys'[r].recv = keys[r].recv /\ peers'[r] = peers[r]
  BY <1>1, <1>2
<1> QED BY <1>5, <1>6, <1>7, LocalStep

-----------------------------------------------------------------------------
(* The control task.                                                       *)

\* A packet is taken from the control queue.
LEMMA ArrivedType ==
  ASSUME TypeOK, NEW p \in Node, Arrived(p)
  PROVE  /\ Head(queue[p].control) \in Packet /\ ctl[p].pc = "recv" /\ queue' \in [Node -> QueueT]
         /\ \A r \in Node : queue'[r].stream = queue[r].stream
         /\ \A r \in Node : r # p => queue'[r] = queue[r]
         /\ queue'[p].control = Tail(queue[p].control)
<1>1. queue \in [Node -> QueueT]
  BY Types
<1>2. PICK u : u = queue[p]
  OBVIOUS
<1>3. u \in QueueT /\ u.control \in Seq(Packet) /\ u.control # <<>>
  BY <1>1, <1>2 DEF QueueT, Arrived
<1>4. Head(u.control) \in Packet /\ Tail(u.control) \in Seq(Packet)
  BY <1>3
<1>5. PICK t : t = Tail(u.control)
  OBVIOUS
<1>6. PICK w : w = [u EXCEPT !.control = t]
  OBVIOUS
<1>7. w \in QueueT /\ w.stream = u.stream /\ w.control = t
  BY <1>3, <1>4, <1>5, <1>6 DEF QueueT
<1>8. queue' = [queue EXCEPT ![p] = w]
  BY <1>1, <1>2, <1>5, <1>6 DEF Arrived
<1>9. ctl[p].pc = "recv"
  BY DEF Arrived
<1> QED BY <1>1, <1>2, <1>4, <1>5, <1>7, <1>8, <1>9

\* A step that takes a packet and leaves the control task in state c.
LEMMA ControlDrop ==
  ASSUME IInv, NEW p \in Node, Arrived(p), NEW c \in CtlT, ctl' = [ctl EXCEPT ![p] = c],
         NodeOK(c, keys[p].recv, peers[p]), UNCHANGED <<epoch, next, net, keys, peers, str, ka>>
  PROVE  IInv'
<1>1. TypeOK /\ ctl \in [Node -> CtlT]
  BY Types DEF IInv
<1>2. queue' \in [Node -> QueueT]
  BY <1>1, ArrivedType
<1>3. ctl' \in [Node -> CtlT] /\ ctl'[p] = c /\ \A r \in Node : r # p => ctl'[r] = ctl[r]
  BY <1>1
<1>4. TypeOK'
  BY <1>1, <1>2, <1>3 DEF TypeOK, CtlT, QueueT
<1> QED BY <1>3, <1>4, LocalStep

\* What is dropped prunes at most.
LEMMA DropStep ==
  ASSUME IInv, NEW p \in Node, DropHello(p) \/ DropControl(p)
  PROVE  IInv'
<1>1. PICK c : c = Pruned(p)
  OBVIOUS
<1>2. TypeOK /\ NodeOK(ctl[p], keys[p].recv, peers[p]) /\ Arrived(p) /\ ctl[p].pc = "recv"
  BY DEF IInv, DropHello, DropControl, Arrived
<1>3. c \in CtlT /\ NodeOK(c, keys[p].recv, peers[p])
  BY <1>1, <1>2, PrunedOK
<1>4. ctl' = [ctl EXCEPT ![p] = c] /\ UNCHANGED <<epoch, next, net, keys, peers, str, ka>>
  BY <1>1 DEF DropHello, DropControl
<1> QED BY <1>2, <1>3, <1>4, ControlDrop

\* A KEEPALIVE that is not a replay raises the watermark.
LEMMA KeepaliveControlStep ==
  ASSUME IInv, NEW p \in Node, Keepalive(p)
  PROVE  IInv'
<1>1. PICK c, m, recv, reg : /\ c = Pruned(p) /\ m = Head(queue[p].control)
                             /\ recv = keys[p].recv /\ reg = peers[p]
  OBVIOUS
<1>2. TypeOK /\ NodeOK(ctl[p], recv, reg) /\ Arrived(p) /\ ctl[p].pc = "recv" /\ ~Replayed(c, m)
  BY <1>1 DEF IInv, Keepalive, Arrived
<1>3. c \in CtlT /\ c.pc = "recv" /\ NodeOK(c, recv, reg) /\ m \in Packet
  BY <1>1, <1>2, PrunedOK, ArrivedType
<1>4. PICK d : d = Accept(c, m)
  OBVIOUS
<1>5. MarksOK(c)
  BY <1>3 DEF NodeOK
<1>6. /\ d \in CtlT /\ d.pc = "recv" /\ MarksOK(d) /\ d.msg = c.msg
      /\ d.session[m.from] = c.session[m.from] /\ d.mark[m.from] = m.seq
      /\ \A u \in Node : u # m.from => SameOf(d, c, u)
  BY <1>2, <1>3, <1>4, <1>5, AcceptOK
<1>7. m.seq # None
  BY <1>3, NoneAssumption DEF Packet
<1>8. KeysOK(d, recv) /\ PendingOK(d) /\ RegistryOK(d, reg)
  BY <1>3, <1>6, <1>7 DEF NodeOK, KeysOK, Unkeyed, PendingOK, RegistryOK, Entries, SameOf
<1>9. NodeOK(d, keys[p].recv, peers[p])
  BY <1>1, <1>6, <1>8 DEF NodeOK
<1>10. ctl' = [ctl EXCEPT ![p] = d] /\ UNCHANGED <<epoch, next, net, keys, peers, str, ka>>
  BY <1>1, <1>4 DEF Keepalive
<1> QED BY <1>2, <1>6, <1>9, <1>10, ControlDrop

\* The suite that is selected is one the build knows.
LEMMA SelectCipherType ==
  ASSUME NEW init \in Seq(Cipher), NEW resp
  PROVE  SelectCipher(init, resp) \in Cipher
<1> DEFINE ok == {i \in DOMAIN init : init[i] = Baseline \/ \E j \in DOMAIN resp : resp[j] = init[i]}
<1>1. ok \in SUBSET Nat /\ \A i \in ok : init[i] \in Cipher
  OBVIOUS
<1>2. SelectCipher(init, resp) = IF ok = {} THEN Baseline
                                 ELSE init[CHOOSE i \in ok : \A j \in ok : i <= j]
  BY DEF SelectCipher
<1> HIDE DEF ok
<1>3. ok # {} => (CHOOSE i \in ok : \A j \in ok : i <= j) \in ok
  BY <1>1, LeastNatural
<1> QED BY <1>1, <1>2, <1>3, BaselineAssumption

\* So is the suite that is committed to.
LEMMA CommittedType ==
  ASSUME NEW p \in Node, NEW m \in Packet
  PROVE  Committed(p, m) \in Cipher
<1>1. PICK init, resp : init = m.offer /\ resp = Prefs[p]
  OBVIOUS
<1>2. init \in Seq(Cipher)
  BY <1>1 DEF Packet
<1>3. SelectCipher(init, resp) \in Cipher
  BY <1>2, SelectCipherType
<1>4. init # <<>> => Head(init) \in Cipher
  BY <1>2
<1> QED BY <1>1, <1>3, <1>4, BaselineAssumption DEF Committed

\* A receive key that is registered.
LEMMA RecvKeyType ==
  ASSUME TypeOK, NEW p \in Node, NEW q \in Node, NEW k \in DataKey,
         keys' = [keys EXCEPT ![p].recv[q] = k]
  PROVE  /\ keys' \in [Node -> KeysT]
         /\ \A r \in Node : r # p => keys'[r].recv = keys[r].recv
         /\ keys'[p].recv[q] = k /\ \A u \in Node : u # q => keys'[p].recv[u] = keys[p].recv[u]
         /\ \A r \in Node : keys'[r].send = keys[r].send
<1>1. keys \in [Node -> KeysT]
  BY Types
<1>2. PICK a : a = keys[p]
  OBVIOUS
<1>3. a \in KeysT
  BY <1>1, <1>2
<1>4. PICK g : g = [a.recv EXCEPT ![q] = k]
  OBVIOUS
<1>5. g \in [Node -> Opt(DataKey)]
  BY <1>3, <1>4 DEF KeysT, Opt
<1>6. PICK b : b = [a EXCEPT !.recv = g]
  OBVIOUS
<1>7. b \in KeysT /\ b.recv = g /\ b.send = a.send
  BY <1>3, <1>5, <1>6 DEF KeysT
<1>8. keys' = [keys EXCEPT ![p] = b]
  BY <1>1, <1>2, <1>4, <1>6
<1>9. g[q] = k /\ \A u \in Node : u # q => g[u] = a.recv[u]
  BY <1>3, <1>4 DEF KeysT
<1> QED BY <1>1, <1>2, <1>7, <1>8, <1>9

\* A signal to the stream task.
LEMMA SignalType ==
  ASSUME NEW r \in Seq(Node), NEW q \in Node
  PROVE  Signal(r, q) \in Seq(Node)
<1>1. CASE Len(r) < RebaseCap
  BY <1>1 DEF Signal
<1>2. CASE ~(Len(r) < RebaseCap)
  <2>1. r # <<>> /\ Tail(r) \in Seq(Node)
    BY <1>2, SessionBounds
  <2> QED BY <1>2, <2>1 DEF Signal
<1> QED BY <1>1, <1>2

\* An accepted handshake packet: the session is of its epoch, and where one was
\* remembered it was not newer.
LEMMA AcceptHelloFacts ==
  ASSUME IInv, NEW p \in Node, AcceptHello(p),
         NEW m, m = Head(queue[p].control), NEW c, c = Pruned(p)
  PROVE  /\ TypeOK /\ m \in Packet /\ c \in CtlT /\ c.pc = "recv" /\ NodeOK(c, keys[p].recv, peers[p])
         /\ queue' \in [Node -> QueueT] /\ Arrived(p) /\ ~StaleEpoch(c, m) /\ keys' = keys
         /\ \A r \in Node : r # p => ctl'[r] = ctl[r]
         /\ ctl' \in [Node -> CtlT] /\ ctl'[p].msg = m
         /\ ctl'[p].pc = IF c.session[m.from] = None THEN "met" ELSE "known"
         /\ ctl'[p].cipher \in Cipher /\ ctl'[p].cipher = Committed(p, m)
         /\ MarksOK(ctl'[p]) /\ ctl'[p].session[m.from] = m.epoch /\ ctl'[p].mark[m.from] = m.seq
         /\ \A u \in Node : u # m.from => SameOf(ctl'[p], c, u)
<1>1. TypeOK /\ NodeOK(ctl[p], keys[p].recv, peers[p]) /\ Arrived(p) /\ ctl[p].pc = "recv"
      /\ ~StaleEpoch(c, m) /\ ~Replayed(Rebased(c, m), m) /\ keys' = keys
  BY DEF IInv, AcceptHello, Arrived
<1>2. c \in CtlT /\ c.pc = "recv" /\ NodeOK(c, keys[p].recv, peers[p])
      /\ m \in Packet /\ queue' \in [Node -> QueueT]
  BY <1>1, PrunedOK, ArrivedType
<1>3. PICK suite : suite = Committed(p, m)
  OBVIOUS
<1>4. suite \in Cipher /\ m.from \in Node /\ m.epoch \in Nat
  BY <1>2, <1>3, CommittedType DEF Packet
<1>5. PICK d : d = Rebased(c, m)
  OBVIOUS
<1>6. /\ d \in CtlT /\ MarksOK(d) /\ d.session[m.from] = m.epoch
      /\ \A u \in Node : u # m.from => SameOf(d, c, u)
  <2>1. MarksOK(c)
    BY <1>2 DEF NodeOK
  <2> QED BY <1>1, <1>2, <1>5, <2>1, RebasedOK
<1>7. PICK e : e = Accept(d, m)
  OBVIOUS
<1>8. /\ e \in CtlT /\ MarksOK(e) /\ e.session[m.from] = m.epoch /\ e.mark[m.from] = m.seq
      /\ \A u \in Node : u # m.from => SameOf(e, d, u)
  BY <1>1, <1>2, <1>5, <1>6, <1>7, AcceptOK
<1>9. PICK stage \in {"met", "known"} : stage = IF c.session[m.from] = None THEN "met" ELSE "known"
  OBVIOUS
<1>10. PICK f : f = [e EXCEPT !.pc = stage, !.msg = m, !.cipher = suite]
  OBVIOUS
<1>11. m \in Opt(Packet) /\ suite \in Opt(Cipher)
  BY <1>2, <1>4 DEF Opt
<1>12. /\ f \in CtlT /\ f.pc = stage /\ f.msg = m /\ f.cipher = suite
       /\ f.session = e.session /\ f.mark = e.mark /\ f.accepted = e.accepted
  BY <1>8, <1>10, <1>11 DEF CtlT
<1>13. MarksOK(f)
  BY <1>8, <1>12 DEF MarksOK
<1>14. \A u \in Node : u # m.from => SameOf(f, c, u)
  BY <1>6, <1>8, <1>12 DEF SameOf
<1>15. ctl \in [Node -> CtlT] /\ ctl' = [ctl EXCEPT ![p] = f]
  BY <1>1, <1>3, <1>5, <1>7, <1>9, <1>10, Types DEF AcceptHello
<1>16. ctl' \in [Node -> CtlT] /\ ctl'[p] = f /\ \A r \in Node : r # p => ctl'[r] = ctl[r]
  BY <1>12, <1>15
<1> QED BY <1>1, <1>2, <1>3, <1>4, <1>8, <1>9, <1>12, <1>13, <1>14, <1>16

\* A HELLO moves a peer to a session.
LEMMA AcceptHelloStep ==
  ASSUME IInv, NEW p \in Node, AcceptHello(p)
  PROVE  IInv'
<1>1. PICK c, m, d, recv, reg : /\ c = Pruned(p) /\ m = Head(queue[p].control) /\ d = ctl'[p]
                                /\ recv = keys[p].recv /\ reg = peers[p]
  OBVIOUS
<1>2. /\ TypeOK /\ m \in Packet /\ c.pc = "recv" /\ NodeOK(c, recv, reg) /\ c \in CtlT
      /\ queue' \in [Node -> QueueT] /\ keys' = keys /\ ctl' \in [Node -> CtlT]
      /\ ~StaleEpoch(c, m) /\ \A r \in Node : r # p => ctl'[r] = ctl[r]
      /\ d.pc = (IF c.session[m.from] = None THEN "met" ELSE "known")
      /\ d.msg = m /\ d.cipher \in Cipher
      /\ MarksOK(d) /\ d.session[m.from] = m.epoch /\ d.mark[m.from] = m.seq
      /\ \A u \in Node : u # m.from => SameOf(d, c, u)
  BY <1>1, AcceptHelloFacts
<1>3. str' \in [Node -> StrT] /\ UNCHANGED <<epoch, next, net, peers, ka>>
  <2>1. str \in [Node -> StrT] /\ str[p].rebase \in Seq(Node) /\ m.from \in Node
    BY <1>2, Types DEF StrT, Packet
  <2>2. PICK s : s = Signal(str[p].rebase, m.from)
    OBVIOUS
  <2>3. s \in Seq(Node)
    BY <2>1, <2>2, SignalType
  <2>4. str' \in {str, [str EXCEPT ![p].rebase = s]} /\ UNCHANGED <<epoch, next, net, peers, ka>>
    BY <1>1, <2>2 DEF AcceptHello
  <2>5. [str EXCEPT ![p].rebase = s] \in [Node -> StrT]
    BY <2>1, <2>3 DEF StrT
  <2> QED BY <2>1, <2>4, <2>5
<1>4. TypeOK'
  BY <1>2, <1>3 DEF TypeOK, CtlT, QueueT, StrT
<1>5. m.seq # None /\ m.from \in Node /\ m.epoch \in Nat /\ None \notin Nat
  BY <1>2, NoneAssumption DEF Packet
<1>6. KeysOK(d, recv)
  <2> SUFFICES ASSUME NEW q \in Node, d.session[q] # None, recv[q] # None
               PROVE  /\ ~Unkeyed(d, q) => recv[q].epoch = d.session[q]
                      /\ Unkeyed(d, q) /\ d.pc = "known" => recv[q].epoch <= d.session[q]
    BY DEF KeysOK
  <2>1. c.session[q] # None => recv[q].epoch = c.session[q]
    BY <1>2 DEF NodeOK, KeysOK, Unkeyed
  <2>2. CASE q = m.from
    <3>1. Unkeyed(d, q)
      BY <1>2, <2>2 DEF Unkeyed
    <3>2. ASSUME d.pc = "known" PROVE recv[q].epoch <= d.session[q]
      <4>1. c.session[q] # None /\ c.session[q] \in Nat
        BY <1>2, <2>2, <3>2, CtlFields DEF Opt
      <4>2. ~(m.epoch < c.session[q])
        BY <1>2, <2>2, <4>1 DEF StaleEpoch
      <4> QED BY <1>2, <1>5, <2>1, <2>2, <4>1, <4>2
    <3> QED BY <3>1, <3>2
  <2>3. CASE q # m.from
    <3>1. ~Unkeyed(d, q) /\ d.session[q] = c.session[q]
      BY <1>2, <2>3 DEF Unkeyed, SameOf
    <3> QED BY <2>1, <3>1
  <2> QED BY <2>2, <2>3
<1>7. PendingOK(d)
  BY <1>2, <1>5 DEF PendingOK
<1>8. RegistryOK(d, reg)
  <2>1. d.pc # "recv"
    BY <1>2
  <2> QED BY <1>2, <2>1 DEF NodeOK, RegistryOK, Entries, SameOf
<1>9. NodeOK(d, recv, reg)
  BY <1>2, <1>6, <1>7, <1>8 DEF NodeOK
<1>10. NodeOK(ctl'[p], keys'[p].recv, peers'[p])
  BY <1>1, <1>2, <1>3, <1>9
<1> QED BY <1>2, <1>3, <1>4, <1>10, LocalStep

\* A handshake packet that is being registered is a packet.
LEMMA PendingFacts ==
  ASSUME IInv, NEW p \in Node, ctl[p].pc # "recv"
  PROVE  /\ ctl[p] \in CtlT /\ ctl[p].msg \in Packet /\ ctl[p].msg.from \in Node
         /\ ctl[p].msg.epoch \in Nat /\ ctl[p].cipher \in Cipher
         /\ ctl[p].session[ctl[p].msg.from] = ctl[p].msg.epoch /\ ctl[p].mark[ctl[p].msg.from] # None
<1>1. NodeOK(ctl[p], keys[p].recv, peers[p]) /\ ctl[p] \in CtlT
  BY NodeTypes DEF IInv
<1>2. PendingOK(ctl[p])
  BY <1>1 DEF NodeOK
<1>3. /\ ctl[p].msg \in Packet /\ ctl[p].cipher \in Cipher
      /\ ctl[p].session[ctl[p].msg.from] = ctl[p].msg.epoch /\ ctl[p].mark[ctl[p].msg.from] # None
  BY <1>2 DEF PendingOK
<1>4. ctl[p].msg.from \in Node /\ ctl[p].msg.epoch \in Nat
  BY <1>3 DEF Packet
<1> QED BY <1>1, <1>3, <1>4

\* The receive key that is registered is the accepted session's, in the suite that
\* was committed to.
LEMMA PeerKeyFacts ==
  ASSUME IInv, NEW p \in Node, RegisterPeerKey(p), NEW c, c = ctl[p], NEW q, q = ctl[p].msg.from
  PROVE  /\ TypeOK /\ c \in CtlT /\ c.msg \in Packet /\ c.pc \in {"met", "known"} /\ q \in Node
         /\ c.cipher \in Cipher /\ c.session[q] = c.msg.epoch /\ c.mark[q] # None
         /\ keys' \in [Node -> KeysT] /\ keys'[p].recv[q] \in DataKey
         /\ keys'[p].recv[q].epoch = c.msg.epoch /\ keys'[p].recv[q].cipher = c.cipher
         /\ \A u \in Node : u # q => keys'[p].recv[u] = keys[p].recv[u]
         /\ \A r \in Node : r # p => keys'[r].recv = keys[r].recv /\ ctl'[r] = ctl[r]
         /\ \A r \in Node : keys'[r].send = keys[r].send
         /\ ctl' \in [Node -> CtlT] /\ ctl'[p].pc = "keyed" /\ ctl'[p].msg = c.msg
         /\ ctl'[p].cipher = c.cipher /\ ctl'[p].session = c.session /\ ctl'[p].mark = c.mark
         /\ ctl'[p].accepted = c.accepted
<1>1. ctl[p].pc # "recv" /\ c.pc \in {"met", "known"} /\ TypeOK
  BY DEF RegisterPeerKey, IInv
<1>2. /\ c \in CtlT /\ c.msg \in Packet /\ q \in Node /\ c.cipher \in Cipher
      /\ c.msg.epoch \in Nat /\ c.session[q] = c.msg.epoch /\ c.mark[q] # None
  BY <1>1, PendingFacts
<1>3. PICK d : d = [c EXCEPT !.pc = "keyed"]
  OBVIOUS
<1>4. /\ d \in CtlT /\ d.pc = "keyed" /\ d.msg = c.msg /\ d.cipher = c.cipher
      /\ d.session = c.session /\ d.mark = c.mark /\ d.accepted = c.accepted
  BY <1>2, <1>3 DEF CtlT
<1>5. ctl \in [Node -> CtlT]
  BY <1>1, Types
<1>6. ctl' = [ctl EXCEPT ![p] = d]
  BY <1>3, <1>5 DEF RegisterPeerKey
<1>7. ctl' \in [Node -> CtlT] /\ ctl'[p] = d /\ \A r \in Node : r # p => ctl'[r] = ctl[r]
  BY <1>4, <1>5, <1>6
<1>8. PICK k : k = [epoch |-> c.msg.epoch, cipher |-> c.cipher]
  OBVIOUS
<1>9. k \in DataKey /\ k.epoch = c.msg.epoch /\ k.cipher = c.cipher
  BY <1>2, <1>8 DEF DataKey
<1>10. keys' = [keys EXCEPT ![p].recv[q] = k]
  BY <1>8 DEF RegisterPeerKey
<1>11. keys' \in [Node -> KeysT]
  BY <1>1, <1>2, <1>9, <1>10, RecvKeyType
<1>12. \A r \in Node : r # p => keys'[r].recv = keys[r].recv
  BY <1>1, <1>2, <1>9, <1>10, RecvKeyType
<1>13. keys'[p].recv[q] = k
  <2>1. keys \in [Node -> KeysT] /\ keys[p].recv \in [Node -> Opt(DataKey)]
    BY <1>1, Types DEF KeysT
  <2> QED BY <1>2, <1>10, <2>1 DEF KeysT
<1>14. \A u \in Node : u # q => keys'[p].recv[u] = keys[p].recv[u]
  BY <1>1, <1>2, <1>9, <1>10, RecvKeyType
<1>15. \A r \in Node : keys'[r].send = keys[r].send
  BY <1>1, <1>2, <1>9, <1>10, RecvKeyType
<1> QED BY <1>1, <1>2, <1>4, <1>7, <1>9, <1>11, <1>12, <1>13, <1>14, <1>15

\* So the key is again of the session that is remembered.
LEMMA PeerKeyStep ==
  ASSUME IInv, NEW p \in Node, RegisterPeerKey(p)
  PROVE  IInv'
<1>1. PICK c, q, d, recv, old, reg : /\ c = ctl[p] /\ q = ctl[p].msg.from /\ d = ctl'[p]
                                     /\ recv = keys'[p].recv /\ old = keys[p].recv /\ reg = peers[p]
  OBVIOUS
<1>2. /\ TypeOK /\ c.msg \in Packet /\ c.pc \in {"met", "known"} /\ q \in Node
      /\ c.cipher \in Cipher /\ c.session[q] = c.msg.epoch /\ c.mark[q] # None
      /\ keys' \in [Node -> KeysT] /\ recv[q].epoch = c.msg.epoch
      /\ \A u \in Node : u # q => recv[u] = old[u]
      /\ \A r \in Node : r # p => keys'[r].recv = keys[r].recv /\ ctl'[r] = ctl[r]
      /\ ctl' \in [Node -> CtlT] /\ d.pc = "keyed" /\ d.msg = c.msg
      /\ d.cipher = c.cipher /\ d.session = c.session /\ d.mark = c.mark
      /\ d.accepted = c.accepted
  BY <1>1, PeerKeyFacts
<1>3. UNCHANGED <<epoch, next, net, queue, peers, str, ka>>
  BY DEF RegisterPeerKey
<1>4. TypeOK'
  BY <1>2, <1>3 DEF TypeOK, CtlT, KeysT
<1>5. NodeOK(c, old, reg)
  BY <1>1 DEF IInv
<1>6. KeysOK(d, recv)
  BY <1>1, <1>2, <1>5 DEF NodeOK, KeysOK, Unkeyed
<1>7. MarksOK(d) /\ PendingOK(d) /\ RegistryOK(d, reg)
  BY <1>1, <1>2, <1>5 DEF NodeOK, MarksOK, PendingOK, RegistryOK
<1>8. NodeOK(ctl'[p], keys'[p].recv, peers'[p])
  BY <1>1, <1>3, <1>6, <1>7 DEF NodeOK
<1> QED BY <1>2, <1>3, <1>4, <1>8, LocalStep

\* The send key changes nothing of what is received.
LEMMA SendKeyStep ==
  ASSUME IInv, NEW p \in Node, RegisterSendKey(p)
  PROVE  IInv'
<1>1. ctl[p].pc # "recv" /\ ctl[p].pc = "keyed" /\ UNCHANGED <<epoch, next, net, queue, peers, str, ka>>
  BY DEF RegisterSendKey
<1>2. PICK c, m : c = ctl[p] /\ m = ctl[p].msg
  OBVIOUS
<1>3. /\ c \in CtlT /\ m \in Packet /\ m.from \in Node /\ c.cipher \in Cipher /\ c.msg = m /\ c.pc = "keyed"
      /\ c.session[m.from] = m.epoch /\ c.mark[m.from] # None
  BY <1>1, <1>2, PendingFacts
<1>4. PICK d : d = [c EXCEPT !.pc = "insert"]
  OBVIOUS
<1>5. /\ d \in CtlT /\ d.pc = "insert" /\ d.msg = c.msg /\ d.cipher = c.cipher
      /\ d.session = c.session /\ d.mark = c.mark /\ d.accepted = c.accepted
  BY <1>3, <1>4 DEF CtlT
<1>6. TypeOK /\ keys \in [Node -> KeysT] /\ ctl \in [Node -> CtlT] /\ epoch[p] \in Nat
  BY Types, NodeTypes DEF IInv
<1>7. ctl' = [ctl EXCEPT ![p] = d]
  BY <1>2, <1>4, <1>6 DEF RegisterSendKey
<1>8. PICK k, q : k = [epoch |-> epoch[p], cipher |-> c.cipher] /\ q = m.from
  OBVIOUS
<1>9. k \in DataKey /\ k \in Opt(DataKey) /\ q \in Node
  BY <1>3, <1>6, <1>8 DEF DataKey, Opt
<1>10. keys' = [keys EXCEPT ![p].send[q] = k]
  BY <1>2, <1>8 DEF RegisterSendKey
<1>11. keys' \in [Node -> KeysT] /\ \A r \in Node : keys'[r].recv = keys[r].recv
  BY <1>6, <1>9, <1>10 DEF KeysT
<1>12. ctl' \in [Node -> CtlT] /\ ctl'[p] = d /\ \A r \in Node : r # p => ctl'[r] = ctl[r]
  BY <1>5, <1>6, <1>7
<1>13. TypeOK'
  BY <1>1, <1>6, <1>11, <1>12 DEF TypeOK, CtlT, KeysT
<1>14. PICK recv, reg : recv = keys[p].recv /\ reg = peers[p]
  OBVIOUS
<1>15. NodeOK(c, recv, reg)
  BY <1>2, <1>14 DEF IInv
<1>16. NodeOK(d, recv, reg)
  BY <1>3, <1>5, <1>15 DEF NodeOK, MarksOK, KeysOK, Unkeyed, PendingOK, RegistryOK
<1>17. NodeOK(ctl'[p], keys'[p].recv, peers'[p])
  BY <1>1, <1>11, <1>12, <1>14, <1>16
<1> QED BY <1>1, <1>11, <1>12, <1>13, <1>17, LocalStep

\* An entry more, and when the registry is full one less: within the cap either way.
LEMMA InsertCount ==
  ASSUME NEW E, IsFiniteSet(E), Cardinality(E) <= PeerCap, NEW q, NEW F \in SUBSET (E \cup {q}),
         q \in E \/ Cardinality(E) < PeerCap \/ (\E v \in E : v \notin F)
  PROVE  IsFiniteSet(F) /\ Cardinality(F) <= PeerCap
<1>1. Cardinality(E) \in Nat /\ PeerCap \in Nat
  BY FS_CardinalityType, SessionBounds
<1>2. CASE q \in E
  <2>1. F \in SUBSET E
    BY <1>2
  <2>2. IsFiniteSet(F) /\ Cardinality(F) <= Cardinality(E) /\ Cardinality(F) \in Nat
    BY <2>1, FS_Subset, FS_CardinalityType
  <2> QED BY <1>1, <2>2
<1>3. CASE q \notin E
  <2>1. IsFiniteSet(E \cup {q}) /\ Cardinality(E \cup {q}) = Cardinality(E) + 1
    BY <1>3, FS_AddElement
  <2>2. CASE Cardinality(E) < PeerCap
    <3>1. IsFiniteSet(F) /\ Cardinality(F) <= Cardinality(E \cup {q}) /\ Cardinality(F) \in Nat
      BY <2>1, FS_Subset, FS_CardinalityType
    <3> QED BY <1>1, <2>1, <2>2, <3>1
  <2>3. CASE \E v \in E : v \notin F
    <3>1. PICK victim \in E : victim \notin F
      BY <2>3
    <3>2. F \in SUBSET ((E \cup {q}) \ {victim}) /\ victim \in E \cup {q}
      BY <3>1
    <3>3. /\ IsFiniteSet((E \cup {q}) \ {victim})
          /\ Cardinality((E \cup {q}) \ {victim}) = Cardinality(E \cup {q}) - 1
      BY <2>1, <3>2, FS_RemoveElement
    <3>4. IsFiniteSet(F) /\ Cardinality(F) <= Cardinality((E \cup {q}) \ {victim}) /\ Cardinality(F) \in Nat
      BY <3>2, <3>3, FS_Subset, FS_CardinalityType
    <3> QED BY <1>1, <2>1, <3>3, <3>4
  <2> QED BY <1>3, <2>2, <2>3
<1> QED BY <1>2, <1>3

\* The registry gets the entry of the session that was accepted.
LEMMA InsertStep ==
  ASSUME IInv, NEW p \in Node, InsertPeer(p)
  PROVE  IInv'
<1>1. ctl[p].pc # "recv" /\ ctl[p].pc = "insert" /\ UNCHANGED <<epoch, queue, keys, str, ka>>
  BY DEF InsertPeer
<1>2. PICK c, m, q, old, recv : /\ c = ctl[p] /\ m = ctl[p].msg /\ q = ctl[p].msg.from
                                /\ old = peers[p] /\ recv = keys[p].recv
  OBVIOUS
<1>3. /\ c \in CtlT /\ m \in Packet /\ q \in Node /\ m.epoch \in Nat /\ c.cipher \in Cipher /\ q = m.from
      /\ c.msg = m /\ c.session[q] = m.epoch /\ c.mark[q] # None /\ c.pc = "insert"
  BY <1>1, <1>2, PendingFacts
<1>4. /\ TypeOK /\ ctl \in [Node -> CtlT] /\ peers \in [Node -> [Node -> Opt(DataKey)]]
      /\ old \in [Node -> Opt(DataKey)]
  BY <1>2, Types DEF IInv
<1>5. NodeOK(c, recv, old)
  BY <1>2 DEF IInv
<1>6. net' \subseteq Packet /\ next' \in [Node -> Nat]
  <2>1. CASE m.kind = "hello"
    <3>1. Send(p, q, "ack", Base, <<c.cipher>>)
      BY <1>2, <2>1 DEF InsertPeer
    <3>2. "ack" \in Kind /\ Base \in DataKey \cup {Base} /\ <<c.cipher>> \in Seq(Cipher)
      BY <1>3 DEF Kind
    <3> QED BY <1>3, <1>4, <3>1, <3>2, SendType
  <2>2. CASE m.kind # "hello"
    <3>1. UNCHANGED <<net, next>>
      BY <1>2, <2>2 DEF InsertPeer
    <3> QED BY <1>4, <3>1 DEF TypeOK
  <2> QED BY <2>1, <2>2
<1>7. PICK d : d = [c EXCEPT !.pc = "recv", !.msg = None, !.cipher = None]
  OBVIOUS
<1>8. None \in Opt(Packet) /\ None \in Opt(Cipher)
  BY DEF Opt
<1>9. /\ d \in CtlT /\ d.pc = "recv"
      /\ d.session = c.session /\ d.mark = c.mark /\ d.accepted = c.accepted
  BY <1>3, <1>7, <1>8 DEF CtlT
<1>10. ctl' = [ctl EXCEPT ![p] = d]
  BY <1>2, <1>4, <1>7 DEF InsertPeer
<1>11. ctl' \in [Node -> CtlT] /\ ctl'[p] = d /\ \A r \in Node : r # p => ctl'[r] = ctl[r]
  BY <1>4, <1>9, <1>10
<1>12. Known(p) = Entries(old)
  BY <1>2 DEF Known, Entries
<1>13. PICK full \in BOOLEAN, lowest \in SUBSET Known(p) :
         /\ full = (q \notin Known(p) /\ Cardinality(Known(p)) >= PeerCap)
         /\ lowest = {v \in Known(p) : \A u \in Known(p) : peers[p][v].epoch <= peers[p][u].epoch}
  OBVIOUS
<1>14. PICK victim \in (IF full THEN lowest ELSE {None}) :
         peers' = [peers EXCEPT ![p] = [u \in Node |->
                     IF u = q THEN [epoch |-> m.epoch, cipher |-> c.cipher]
                     ELSE IF u = victim THEN None ELSE peers[p][u]]]
  BY <1>2, <1>13, ZenonT(60) DEF InsertPeer
<1>15. PICK k : k = [epoch |-> m.epoch, cipher |-> c.cipher]
  OBVIOUS
<1>16. k \in DataKey /\ k.epoch = m.epoch /\ k # None
  BY <1>3, <1>15, NoneAssumption DEF DataKey
<1>17. PICK new : new = [u \in Node |-> IF u = q THEN k ELSE IF u = victim THEN None ELSE old[u]]
  OBVIOUS
<1>18. /\ new \in [Node -> Opt(DataKey)] /\ new[q] = k
       /\ \A u \in Node : u # q => new[u] = IF u = victim THEN None ELSE old[u]
  BY <1>3, <1>4, <1>16, <1>17 DEF Opt
<1>19. peers' = [peers EXCEPT ![p] = new]
  BY <1>2, <1>14, <1>15, <1>17
<1>20. /\ peers' \in [Node -> [Node -> Opt(DataKey)]] /\ peers'[p] = new
       /\ \A r \in Node : r # p => peers'[r] = peers[r]
  BY <1>4, <1>18, <1>19
<1>21. TypeOK'
  BY <1>1, <1>4, <1>6, <1>11, <1>20 DEF TypeOK, CtlT
<1>22. IsFiniteSet(Entries(new)) /\ Cardinality(Entries(new)) <= PeerCap
  <2>1. IsFiniteSet(Entries(old)) /\ Cardinality(Entries(old)) <= PeerCap
    BY <1>5 DEF NodeOK, RegistryOK
  <2>2. Cardinality(Entries(old)) \in Nat /\ PeerCap \in Nat
    BY <2>1, FS_CardinalityType, SessionBounds
  <2>3. full => victim \in Known(p)
    BY <1>13, <1>14
  <2>4. q \in Entries(old) \/ Cardinality(Entries(old)) < PeerCap \/ victim \in Entries(old)
    <3>1. PICK E : E = Entries(old)
      OBVIOUS
    <3>2. full <=> q \notin E /\ Cardinality(E) >= PeerCap
      BY <1>12, <1>13, <3>1
    <3>3. ~(Cardinality(E) >= PeerCap) => Cardinality(E) < PeerCap
      BY <2>2, <3>1
    <3> QED BY <1>12, <2>3, <3>1, <3>2, <3>3
  <2>5. Entries(new) \in SUBSET (Entries(old) \cup {q})
    BY <1>18 DEF Entries
  <2>6. q \notin Entries(old) => victim \notin Entries(new) \/ victim \notin Entries(old)
    BY <1>18 DEF Entries
  <2> QED BY <2>1, <2>4, <2>5, <2>6, InsertCount
<1>23. RegistryOK(d, new)
  <2> SUFFICES ASSUME NEW u \in Entries(new) PROVE d.session[u] = new[u].epoch /\ d.mark[u] # None
    BY <1>22 DEF RegistryOK
  <2>1. CASE u = q
    BY <1>3, <1>9, <1>16, <1>18, <2>1
  <2>2. CASE u # q
    <3>1. u \in Node /\ new[u] = old[u] /\ u \in Entries(old)
      BY <1>18, <2>2 DEF Entries
    <3>2. c.session[u] = old[u].epoch /\ c.mark[u] # None
      BY <1>3, <1>5, <2>2, <3>1 DEF NodeOK, RegistryOK
    <3> QED BY <1>9, <3>1, <3>2
  <2> QED BY <2>1, <2>2
<1>24. MarksOK(d) /\ KeysOK(d, recv) /\ PendingOK(d)
  BY <1>3, <1>5, <1>9 DEF NodeOK, MarksOK, KeysOK, Unkeyed, PendingOK
<1>25. NodeOK(ctl'[p], keys'[p].recv, peers'[p])
  BY <1>1, <1>2, <1>11, <1>20, <1>23, <1>24 DEF NodeOK
<1> QED BY <1>1, <1>11, <1>20, <1>21, <1>25, LocalStep

\* A key that is forgotten.
LEMMA ForgetType ==
  ASSUME TypeOK, NEW p \in Node, NEW q \in Node, keys' = [keys EXCEPT ![p] = Forget(@, q)]
  PROVE  /\ keys' \in [Node -> KeysT]
         /\ \A r \in Node : r # p => keys'[r] = keys[r]
         /\ keys'[p].recv[q] = None /\ \A u \in Node : keys'[p].recv[u] \in {keys[p].recv[u], None}
         /\ \A u \in Node : keys'[p].send[u] \in {keys[p].send[u], None}
<1>1. keys \in [Node -> KeysT]
  BY Types
<1>2. PICK a : a = keys[p]
  OBVIOUS
<1>3. a \in KeysT
  BY <1>1, <1>2
<1>4. PICK b : b = Forget(a, q)
  OBVIOUS
<1>5. PICK v, s, h : /\ v = [a.recv EXCEPT ![q] = None] /\ s = [a.send EXCEPT ![q] = None]
                     /\ h = [a.heard EXCEPT ![q] = None]
  OBVIOUS
<1>6. b = [recv |-> v, send |-> s, heard |-> h]
  BY <1>3, <1>4, <1>5 DEF Forget, KeysT
<1>7. /\ v \in [Node -> Opt(DataKey)] /\ s \in [Node -> Opt(DataKey)]
      /\ h \in [Node -> {"fresh", "silent", None}]
  BY <1>3, <1>5 DEF KeysT, Opt
<1>8. b \in KeysT /\ b.recv = v /\ b.send = s
  BY <1>6, <1>7 DEF KeysT
<1>9. v[q] = None /\ \A u \in Node : v[u] \in {a.recv[u], None} /\ s[u] \in {a.send[u], None}
  BY <1>3, <1>5 DEF KeysT
<1>10. keys' = [keys EXCEPT ![p] = b]
  BY <1>1, <1>2, <1>4
<1> QED BY <1>1, <1>2, <1>8, <1>9, <1>10

\* GOODBYE: session, watermark, entry and keys go together.
LEMMA GoodbyeStep ==
  ASSUME IInv, NEW p \in Node, Goodbye(p)
  PROVE  IInv'
<1>1. PICK c, m, old, reg : /\ c = Pruned(p) /\ m = Head(queue[p].control)
                            /\ old = keys[p].recv /\ reg = peers[p]
  OBVIOUS
<1>2. /\ TypeOK /\ NodeOK(ctl[p], old, reg) /\ Arrived(p) /\ ctl[p].pc = "recv"
      /\ UNCHANGED <<epoch, next, net, str, ka>>
  BY <1>1 DEF IInv, Goodbye, Arrived
<1>3. c \in CtlT /\ c.pc = "recv" /\ NodeOK(c, old, reg) /\ m \in Packet /\ queue' \in [Node -> QueueT]
  BY <1>1, <1>2, PrunedOK, ArrivedType
<1>4. PICK q : q = m.from
  OBVIOUS
<1>5. q \in Node /\ None \in Opt(Nat) /\ {} \in SUBSET Nat
  BY <1>3, <1>4 DEF Packet, Opt
<1>6. PICK d : d = CtlSet(c, q, None, None, {})
  OBVIOUS
<1>7. /\ d \in CtlT /\ d.pc = c.pc /\ d.session[q] = None /\ d.mark[q] = None /\ d.accepted[q] = {}
      /\ \A u \in Node : u # q => SameOf(d, c, u)
  BY <1>3, <1>5, <1>6, CtlChange
<1>8. /\ ctl \in [Node -> CtlT] /\ peers \in [Node -> [Node -> Opt(DataKey)]]
      /\ reg \in [Node -> Opt(DataKey)]
  BY <1>1, <1>2, Types
<1>9. ctl' = [ctl EXCEPT ![p] = d]
  BY <1>1, <1>4, <1>6 DEF Goodbye, CtlSet
<1>10. PICK new : new = [reg EXCEPT ![q] = None]
  OBVIOUS
<1>11. new \in [Node -> Opt(DataKey)] /\ new[q] = None /\ \A u \in Node : u # q => new[u] = reg[u]
  BY <1>5, <1>8, <1>10 DEF Opt
<1>12. peers' = [peers EXCEPT ![p] = new]
  BY <1>1, <1>4, <1>8, <1>10 DEF Goodbye
<1>13. /\ ctl' \in [Node -> CtlT] /\ ctl'[p] = d /\ \A r \in Node : r # p => ctl'[r] = ctl[r]
  BY <1>7, <1>8, <1>9
<1>14. /\ peers' \in [Node -> [Node -> Opt(DataKey)]] /\ peers'[p] = new
       /\ \A r \in Node : r # p => peers'[r] = peers[r]
  BY <1>8, <1>11, <1>12
<1>15. PICK recv : recv = keys'[p].recv
  OBVIOUS
<1>16. keys' = [keys EXCEPT ![p] = Forget(@, q)]
  BY <1>1, <1>4 DEF Goodbye
<1>17. /\ keys' \in [Node -> KeysT] /\ \A r \in Node : r # p => keys'[r] = keys[r]
       /\ recv[q] = None /\ \A u \in Node : recv[u] \in {old[u], None}
  BY <1>1, <1>2, <1>5, <1>15, <1>16, ForgetType
<1>18. TypeOK'
  BY <1>2, <1>3, <1>13, <1>14, <1>17 DEF TypeOK, CtlT, KeysT, QueueT
<1>19. MarksOK(d)
  BY <1>3, <1>7 DEF NodeOK, MarksOK, SameOf
<1>20. KeysOK(d, recv)
  BY <1>3, <1>7, <1>17 DEF NodeOK, KeysOK, Unkeyed, SameOf
<1>21. PendingOK(d)
  BY <1>3, <1>7 DEF PendingOK
<1>22. RegistryOK(d, new)
  <2>1. Entries(new) \in SUBSET Entries(reg) /\ q \notin Entries(new)
    BY <1>11 DEF Entries
  <2>2. IsFiniteSet(Entries(reg)) /\ Cardinality(Entries(reg)) <= PeerCap
    BY <1>3 DEF NodeOK, RegistryOK
  <2>3. /\ IsFiniteSet(Entries(new)) /\ Cardinality(Entries(new)) <= Cardinality(Entries(reg))
        /\ Cardinality(Entries(new)) \in Nat /\ Cardinality(Entries(reg)) \in Nat /\ PeerCap \in Nat
    BY <2>1, <2>2, FS_Subset, FS_CardinalityType, SessionBounds
  <2>4. \A u \in Entries(new) : d.session[u] = new[u].epoch /\ d.mark[u] # None
    <3> SUFFICES ASSUME NEW u \in Entries(new) PROVE d.session[u] = new[u].epoch /\ d.mark[u] # None
      OBVIOUS
    <3>1. u \in Node /\ u # q /\ u \in Entries(reg) /\ new[u] = reg[u]
      BY <1>11, <2>1 DEF Entries
    <3>2. c.session[u] = reg[u].epoch /\ c.mark[u] # None
      BY <1>3, <3>1 DEF NodeOK, RegistryOK
    <3> QED BY <1>7, <3>1, <3>2 DEF SameOf
  <2> QED BY <2>2, <2>3, <2>4 DEF RegistryOK
<1>23. NodeOK(ctl'[p], keys'[p].recv, peers'[p])
  BY <1>13, <1>14, <1>15, <1>19, <1>20, <1>21, <1>22 DEF NodeOK
<1> QED BY <1>13, <1>14, <1>17, <1>18, <1>23, LocalStep

-----------------------------------------------------------------------------
(* The stream task and the keepalive task.                                 *)

\* The stream task touches no session.
LEMMA StreamType ==
  ASSUME TypeOK, NEW p \in Node, StreamRecv(p)
  PROVE  /\ queue' \in [Node -> QueueT] /\ str' \in [Node -> StrT]
         /\ Head(queue[p].stream) \in Packet /\ queue[p].stream \in Seq(Packet) /\ queue[p].stream # <<>>
         /\ queue'[p].stream = Tail(queue[p].stream)
         /\ \A r \in Node : queue'[r].control = queue[r].control
         /\ \A r \in Node : r # p => queue'[r] = queue[r] /\ str'[r] = str[r]
<1>1. queue \in [Node -> QueueT] /\ str \in [Node -> StrT]
  BY Types
<1>2. PICK u : u = queue[p]
  OBVIOUS
<1>3. u \in QueueT /\ u.stream \in Seq(Packet) /\ u.stream # <<>>
  BY <1>1, <1>2 DEF QueueT, StreamRecv
<1>4. PICK t, m : t = Tail(u.stream) /\ m = Head(u.stream)
  OBVIOUS
<1>5. m \in Packet /\ t \in Seq(Packet)
  BY <1>3, <1>4
<1>6. PICK w : w = [u EXCEPT !.stream = t]
  OBVIOUS
<1>7. w \in QueueT /\ w.stream = t /\ w.control = u.control
  BY <1>3, <1>5, <1>6 DEF QueueT
<1>8. queue' = [queue EXCEPT ![p] = w]
  BY <1>1, <1>2, <1>4, <1>6 DEF StreamRecv
<1>9. PICK a, q : a = str[p] /\ q = m.from
  OBVIOUS
<1>10. a \in StrT /\ q \in Node /\ m.seq \in Nat /\ m.epoch \in Nat
  BY <1>1, <1>5, <1>9 DEF Packet
<1>11. PICK k, g : /\ k = [a.mark EXCEPT ![q] = m.seq]
                   /\ g = [a.got EXCEPT ![q] = Append(a.got[q], [epoch |-> m.epoch, seq |-> m.seq])]
  OBVIOUS
<1>12. k \in [Node -> Opt(Nat)]
  BY <1>10, <1>11 DEF StrT, Opt
<1>13. g \in [Node -> Seq([epoch : Nat, seq : Nat])]
  <2>1. a.got \in [Node -> Seq([epoch : Nat, seq : Nat])] /\ a.got[q] \in Seq([epoch : Nat, seq : Nat])
    BY <1>10 DEF StrT
  <2>2. [epoch |-> m.epoch, seq |-> m.seq] \in [epoch : Nat, seq : Nat]
    BY <1>10
  <2>3. Append(a.got[q], [epoch |-> m.epoch, seq |-> m.seq]) \in Seq([epoch : Nat, seq : Nat])
    BY <2>1, <2>2
  <2> QED BY <1>11, <2>1, <2>3
<1>14. PICK b : b = [a EXCEPT !.mark = k, !.got = g]
  OBVIOUS
<1>15. b \in StrT
  BY <1>10, <1>12, <1>13, <1>14 DEF StrT
<1>16. str' \in {str, [str EXCEPT ![p] = b]}
  <2>1. \/ str' = str
        \/ str' = [str EXCEPT ![p].mark[q] = m.seq,
                              ![p].got[q] = Append(str[p].got[q], [epoch |-> m.epoch, seq |-> m.seq])]
    BY <1>2, <1>4, <1>9 DEF StreamRecv
  <2>2. [str EXCEPT ![p].mark[q] = m.seq,
                    ![p].got[q] = Append(str[p].got[q], [epoch |-> m.epoch, seq |-> m.seq])]
        = [str EXCEPT ![p] = b]
    BY <1>1, <1>9, <1>10, <1>11, <1>14 DEF StrT
  <2> QED BY <2>1, <2>2
<1>17. [str EXCEPT ![p] = b] \in [Node -> StrT] /\ \A r \in Node : r # p => [str EXCEPT ![p] = b][r] = str[r]
  BY <1>1, <1>15
<1> QED BY <1>1, <1>2, <1>3, <1>4, <1>5, <1>7, <1>8, <1>16, <1>17

\* The stream task takes packets and touches no session.
LEMMA StreamStep ==
  ASSUME IInv, NEW p \in Node, StreamRecv(p)
  PROVE  IInv'
<1>1. TypeOK
  BY DEF IInv
<1>2. queue' \in [Node -> QueueT] /\ str' \in [Node -> StrT]
  BY <1>1, StreamType
<1>3. UNCHANGED <<epoch, next, net, keys, ctl, peers, ka>>
  BY DEF StreamRecv
<1>4. TypeOK'
  BY <1>1, <1>2, <1>3 DEF TypeOK, QueueT, StrT
<1> QED BY <1>3, <1>4 DEF IInv

\* A rebased stream forgets its numbering, not what it delivered.
LEMMA RebaseStep ==
  ASSUME IInv, NEW p \in Node, StreamRebase(p)
  PROVE  IInv' /\ \A r \in Node : str'[r].got = str[r].got
<1>1. TypeOK /\ str \in [Node -> StrT]
  BY Types DEF IInv
<1>2. PICK a : a = str[p]
  OBVIOUS
<1>3. a \in StrT /\ a.rebase \in Seq(Node) /\ a.rebase # <<>>
  BY <1>1, <1>2 DEF StrT, StreamRebase
<1>4. PICK q, t : q = Head(a.rebase) /\ t = Tail(a.rebase)
  OBVIOUS
<1>5. q \in Node /\ t \in Seq(Node)
  BY <1>3, <1>4
<1>6. PICK k : k = [a.mark EXCEPT ![q] = None]
  OBVIOUS
<1>7. k \in [Node -> Opt(Nat)]
  BY <1>3, <1>5, <1>6 DEF StrT, Opt
<1>8. PICK b : b = [a EXCEPT !.mark = k, !.rebase = t]
  OBVIOUS
<1>9. b \in StrT /\ b.got = a.got
  BY <1>3, <1>5, <1>7, <1>8 DEF StrT
<1>10. str' = [str EXCEPT ![p] = b]
  BY <1>1, <1>2, <1>4, <1>6, <1>8 DEF StreamRebase
<1>11. str' \in [Node -> StrT] /\ \A r \in Node : str'[r].got = str[r].got
  BY <1>1, <1>2, <1>9, <1>10
<1>12. UNCHANGED <<epoch, next, net, queue, keys, ctl, peers, ka>>
  BY DEF StreamRebase
<1>13. TypeOK'
  BY <1>1, <1>11, <1>12 DEF TypeOK, StrT
<1> QED BY <1>11, <1>12, <1>13 DEF IInv

\* The keepalive task's own state.
LEMMA KaType ==
  ASSUME TypeOK, NEW p \in Node, NEW k \in KaT, ka' = [ka EXCEPT ![p] = k]
  PROVE  ka' \in [Node -> KaT]
<1>1. ka \in [Node -> KaT]
  BY Types
<1> QED BY <1>1

\* The keepalive loop's own bookkeeping.
LEMMA KaLocalStep ==
  ASSUME IInv, NEW p \in Node, KaTick(p) \/ KaSnapshot(p) \/ KaDone(p)
  PROVE  IInv'
<1>1. TypeOK /\ Known(p) \in SUBSET Node /\ {} \in SUBSET Node
  BY DEF IInv, Known
<1>2. UNCHANGED <<epoch, next, net, queue, keys, ctl, peers, str>>
  BY DEF KaTick, KaSnapshot, KaDone
<1>3. PICK alive : alive = {q \in Node : keys[p].heard[q] = "fresh"}
  OBVIOUS
<1>4. /\ [pc |-> "send", todo |-> Known(p), alive |-> {}] \in KaT
      /\ [pc |-> "retain", todo |-> {}, alive |-> alive] \in KaT
  BY <1>1, <1>3 DEF KaT
<1>5. ka' \in [Node -> KaT]
  <2>1. CASE KaTick(p)
    BY <1>1, <1>4, <2>1, KaType DEF KaTick
  <2>2. CASE KaSnapshot(p)
    BY <1>1, <1>3, <1>4, <2>2, KaType DEF KaSnapshot
  <2>3. CASE KaDone(p)
    BY <1>1, <2>3, KaType, FreshOK DEF KaDone
  <2> QED BY <2>1, <2>2, <2>3
<1>6. TypeOK'
  BY <1>1, <1>2, <1>5 DEF TypeOK, KaT
<1> QED BY <1>2, <1>6 DEF IInv

\* One peer less to do.
LEMMA KaTodoType ==
  ASSUME TypeOK, NEW p \in Node, NEW q, ka' = [ka EXCEPT ![p].todo = @ \ {q}]
  PROVE  ka' \in [Node -> KaT]
<1>1. ka \in [Node -> KaT] /\ ka[p].todo \in SUBSET Node
  BY Types DEF KaT
<1>2. PICK t : t = ka[p].todo \ {q}
  OBVIOUS
<1>3. t \in SUBSET Node /\ ka' = [ka EXCEPT ![p].todo = t]
  BY <1>1, <1>2
<1> QED BY <1>1, <1>3 DEF KaT

\* A keepalive uses up one sequence number and reaches the network.
LEMMA KaSendStep ==
  ASSUME IInv, NEW p \in Node, NEW q \in Node, KaSend(p, q)
  PROVE  IInv'
<1>1. TypeOK
  BY DEF IInv
<1>2. ka' = [ka EXCEPT ![p].todo = @ \ {q}] /\ UNCHANGED <<epoch, queue, keys, ctl, peers, str>>
  BY DEF KaSend
<1>3. ka' \in [Node -> KaT]
  BY <1>1, <1>2, KaTodoType
<1>4. net' \subseteq Packet /\ next' \in [Node -> Nat]
  <2>1. CASE next[p] <= MaxSeq
    <3>1. Send(p, q, "keepalive", SendKey(p, q), <<>>)
      BY <2>1 DEF KaSend
    <3>2. "keepalive" \in Kind /\ SendKey(p, q) \in DataKey \cup {Base} /\ <<>> \in Seq(Cipher)
      BY <1>1, SendKeyType DEF Kind
    <3> QED BY <1>1, <3>1, <3>2, SendType
  <2>2. CASE ~(next[p] <= MaxSeq)
    <3>1. UNCHANGED <<net, next>>
      BY <2>2 DEF KaSend
    <3> QED BY <1>1, <3>1 DEF TypeOK
  <2> QED BY <2>1, <2>2
<1>5. TypeOK'
  BY <1>1, <1>2, <1>3, <1>4 DEF TypeOK, KaT
<1> QED BY <1>2, <1>5 DEF IInv

\* Entries go, none comes.
LEMMA RetainStep ==
  ASSUME IInv, NEW p \in Node, KaRetain(p)
  PROVE  IInv'
<1>1. /\ TypeOK /\ peers \in [Node -> [Node -> Opt(DataKey)]]
      /\ UNCHANGED <<epoch, next, net, queue, keys, ctl, str>>
  BY Types DEF IInv, KaRetain
<1>2. PICK reg, new, c, recv : /\ reg = peers[p] /\ c = ctl[p] /\ recv = keys[p].recv
                               /\ new = [q \in Node |-> IF q \in ka[p].alive THEN reg[q] ELSE None]
  OBVIOUS
<1>3. reg \in [Node -> Opt(DataKey)]
  BY <1>1, <1>2
<1>4. new \in [Node -> Opt(DataKey)] /\ \A q \in Node : new[q] \in {reg[q], None}
  BY <1>2, <1>3 DEF Opt
<1>5. peers' = [peers EXCEPT ![p] = new]
  BY <1>2 DEF KaRetain
<1>6. /\ peers' \in [Node -> [Node -> Opt(DataKey)]] /\ peers'[p] = new
      /\ \A r \in Node : r # p => peers'[r] = peers[r]
  BY <1>1, <1>4, <1>5
<1>7. ka' \in [Node -> KaT]
  <2>1. Known(p) \ ka[p].alive \in SUBSET Node /\ {} \in SUBSET Node
    BY DEF Known
  <2>2. [pc |-> "forget", todo |-> Known(p) \ ka[p].alive, alive |-> {}] \in KaT
    BY <2>1 DEF KaT
  <2> QED BY <1>1, <2>2, KaType DEF KaRetain
<1>8. TypeOK'
  BY <1>1, <1>6, <1>7 DEF TypeOK, KaT
<1>9. NodeOK(c, recv, reg)
  BY <1>2 DEF IInv
<1>10. RegistryOK(c, new)
  <2>1. Entries(new) \in SUBSET Entries(reg) /\ \A q \in Entries(new) : new[q] = reg[q]
    BY <1>4 DEF Entries
  <2>2. IsFiniteSet(Entries(reg)) /\ Cardinality(Entries(reg)) <= PeerCap
    BY <1>9 DEF NodeOK, RegistryOK
  <2>3. /\ IsFiniteSet(Entries(new)) /\ Cardinality(Entries(new)) <= Cardinality(Entries(reg))
        /\ Cardinality(Entries(new)) \in Nat /\ Cardinality(Entries(reg)) \in Nat /\ PeerCap \in Nat
    BY <2>1, <2>2, FS_Subset, FS_CardinalityType, SessionBounds
  <2> QED BY <1>9, <2>1, <2>2, <2>3 DEF NodeOK, RegistryOK
<1>11. NodeOK(ctl'[p], keys'[p].recv, peers'[p])
  BY <1>1, <1>2, <1>6, <1>9, <1>10 DEF NodeOK
<1> QED BY <1>1, <1>6, <1>8, <1>11, LocalStep

\* Keys go, none comes.
LEMMA ForgetStep ==
  ASSUME IInv, NEW p \in Node, NEW q \in Node, KaForget(p, q)
  PROVE  IInv'
<1>1. TypeOK /\ UNCHANGED <<epoch, next, net, queue, ctl, peers, str>>
  BY DEF IInv, KaForget
<1>2. ka' \in [Node -> KaT]
  BY <1>1, KaTodoType DEF KaForget
<1>3. PICK old, recv, c, reg : /\ old = keys[p].recv /\ recv = keys'[p].recv
                               /\ c = ctl[p] /\ reg = peers[p]
  OBVIOUS
<1>4. /\ keys' \in [Node -> KeysT]
      /\ \A r \in Node : r # p => keys'[r] = keys[r]
      /\ \A u \in Node : recv[u] \in {old[u], None}
  BY <1>1, <1>3, ForgetType DEF KaForget
<1>5. TypeOK'
  BY <1>1, <1>2, <1>4 DEF TypeOK, KeysT, KaT
<1>6. NodeOK(c, old, reg)
  BY <1>3 DEF IInv
<1>7. NodeOK(c, recv, reg)
  BY <1>4, <1>6 DEF NodeOK, KeysOK, Unkeyed
<1>8. NodeOK(ctl'[p], keys'[p].recv, peers'[p])
  BY <1>1, <1>3, <1>7
<1> QED BY <1>1, <1>4, <1>5, <1>8, LocalStep

\* Every step of the keepalive task.
LEMMA KeepaliveTaskStep ==
  ASSUME IInv, NEW p \in Node, KeepaliveStep(p)
  PROVE  IInv'
<1>1. ka[p].todo \subseteq Node
  BY NodeTypes DEF IInv, KaT
<1> QED BY <1>1, KaLocalStep, KaSendStep, RetainStep, ForgetStep DEF KeepaliveStep

\* Every step of the control task.
LEMMA ControlTaskStep ==
  ASSUME IInv, NEW p \in Node, ControlStep(p)
  PROVE  IInv'
BY DropStep, AcceptHelloStep, PeerKeyStep, SendKeyStep, InsertStep, KeepaliveControlStep, GoodbyeStep
   DEF ControlStep

\* Every step of every node keeps the invariant.
LEMMA NextInvariant == IInv /\ [Next]_vars => IInv'
<1> SUFFICES ASSUME IInv, [Next]_vars PROVE IInv'
  OBVIOUS
<1>1. CASE UNCHANGED vars
  <2>1. UNCHANGED <<epoch, next, net, queue, keys, ctl, peers, str, ka>>
    BY <1>1 DEF vars
  <2>2. TypeOK'
    BY <2>1 DEF IInv, TypeOK
  <2> QED BY <2>1, <2>2 DEF IInv
<1>2. CASE Next
  <2>1. PICK p \in Node :
          \/ \E q \in Node :
               \/ ConnectPeer(p, q) \/ SendHello(p, q) \/ SendHelloAck(p, q)
               \/ SendNotice(p, q) \/ SendStream(p, q) \/ SendGoodbye(p, q) \/ GoesSilent(p, q)
          \/ \E m \in net : RecvPacket(p, m)
          \/ Restart(p) \/ ControlStep(p) \/ StreamRecv(p) \/ StreamRebase(p) \/ KeepaliveStep(p)
    BY <1>2 DEF Next
  <2>2. CASE \E q \in Node :
               \/ ConnectPeer(p, q) \/ SendHello(p, q) \/ SendHelloAck(p, q)
               \/ SendNotice(p, q) \/ SendStream(p, q) \/ SendGoodbye(p, q) \/ GoesSilent(p, q)
    BY <2>2, ApplicationStep, SilenceStep
  <2>3. CASE \E m \in net : RecvPacket(p, m)
    BY <2>3, ReceiveStep
  <2>4. CASE Restart(p)
    BY <2>4, RestartStep
  <2>5. CASE ControlStep(p)
    BY <2>5, ControlTaskStep
  <2>6. CASE StreamRecv(p) \/ StreamRebase(p)
    BY <2>6, StreamStep, RebaseStep
  <2>7. CASE KeepaliveStep(p)
    BY <2>7, KeepaliveTaskStep
  <2> QED BY <2>1, <2>2, <2>3, <2>4, <2>5, <2>6, <2>7
<1> QED BY <1>1, <1>2

-----------------------------------------------------------------------------
(* The theorems.                                                           *)

\* The invariant holds in every reachable state.
THEOREM SessionInvariant == Spec => []IInv
BY InitInvariant, NextInvariant, PTL DEF Spec

\* What the tasks of every endpoint share stays well formed.
THEOREM TypeCorrect == Spec => []TypeOK
<1>1. IInv => TypeOK
  BY DEF IInv
<1> QED BY <1>1, SessionInvariant, PTL

\* No control packet of a peer's present session is accepted twice: what was lies at
\* or below the watermark of control_replay_ok.
THEOREM ReplayProtected == Spec => []AcceptedBelowMark
<1>1. IInv => AcceptedBelowMark
  BY DEF IInv, NodeOK, MarksOK, AcceptedBelowMark
<1> QED BY <1>1, SessionInvariant, PTL

\* The peer registry stays within PEER_MAP_SOFT_CAP, and a registered peer has the
\* epoch and the watermark the control task holds, between all tasks' steps.
THEOREM RegistryAgrees == Spec => []RegistryCurrent
<1>1. IInv => RegistryCurrent
  <2> SUFFICES ASSUME IInv, NEW p \in Node
               PROVE  /\ Cardinality(Known(p)) <= PeerCap
                      /\ \A q \in Known(p) : ctl[p].pc = "recv" \/ ctl[p].msg.from # q =>
                           ctl[p].session[q] = peers[p][q].epoch /\ ctl[p].mark[q] # None
    BY DEF RegistryCurrent
  <2>1. RegistryOK(ctl[p], peers[p]) /\ Known(p) = Entries(peers[p])
    BY DEF IInv, NodeOK, Known, Entries
  <2> QED BY <2>1 DEF RegistryOK
<1> QED BY <1>1, SessionInvariant, PTL

\* Whose step is taken: the actions of p.
StepOf(p) ==
  \/ \E q \in Node :
       \/ ConnectPeer(p, q) \/ SendHello(p, q) \/ SendHelloAck(p, q)
       \/ SendNotice(p, q) \/ SendStream(p, q) \/ SendGoodbye(p, q) \/ GoesSilent(p, q)
  \/ \E m \in net : RecvPacket(p, m)
  \/ Restart(p) \/ ControlStep(p) \/ StreamRecv(p) \/ StreamRebase(p) \/ KeepaliveStep(p)

\* A receive key is only replaced as an accepted handshake packet is registered; other steps
\* forget it at most, unless the endpoint restarts.
LEMMA RecvKeySteps ==
  ASSUME IInv, NEW p \in Node, StepOf(p), NEW r \in Node, NEW q \in Node
  PROVE  \/ keys'[r].recv[q] \in {keys[r].recv[q], None}
         \/ r = p /\ (RegisterPeerKey(p) \/ Restart(p))
<1>1. TypeOK
  BY DEF IInv
<1>2. CASE keys' = keys
  BY <1>2
<1>3. CASE \E u \in Node : GoesSilent(p, u)
  <2>1. PICK u \in Node : keys' = [keys EXCEPT ![p].heard[u] = "silent"]
    BY <1>3 DEF GoesSilent
  <2> QED BY <1>1, <2>1, HeardType
<1>4. CASE \E m \in net : RecvPacket(p, m)
  <2>1. PICK m \in net : RecvPacket(p, m)
    BY <1>4
  <2>2. m.from \in Node /\ "fresh" \in {"fresh", "silent", None}
    BY <1>1 DEF TypeOK, Packet
  <2>3. keys'[r].recv = keys[r].recv
    BY <1>1, <2>1, <2>2, HeardType DEF RecvPacket
  <2> QED BY <2>3
<1>5. CASE Restart(p)
  <2>1. r # p => keys'[r] = keys[r]
    BY <1>1, <1>5, Types DEF Restart
  <2> QED BY <1>5, <2>1
<1>6. CASE RegisterPeerKey(p)
  <2>1. r # p => keys'[r].recv = keys[r].recv
    BY <1>6, PeerKeyFacts
  <2> QED BY <1>6, <2>1
<1>7. CASE RegisterSendKey(p)
  <2>1. keys \in [Node -> KeysT]
    BY <1>1, Types
  <2>2. PICK k, u : keys' = [keys EXCEPT ![p].send[u] = k]
    BY <1>7 DEF RegisterSendKey
  <2>3. keys'[r].recv = keys[r].recv
    BY <2>1, <2>2 DEF KeysT
  <2> QED BY <2>3
<1>8. CASE Goodbye(p) \/ \E u \in ka[p].todo : KaForget(p, u)
  <2>1. PICK u \in Node : keys' = [keys EXCEPT ![p] = Forget(@, u)]
    <3>1. CASE Goodbye(p)
      <4>1. PICK m : m = Head(queue[p].control)
        OBVIOUS
      <4>2. m.from \in Node
        BY <1>1, <3>1, <4>1, ArrivedType DEF Goodbye, Packet
      <4> QED BY <3>1, <4>1, <4>2 DEF Goodbye
    <3>2. CASE \E u \in ka[p].todo : KaForget(p, u)
      <4>1. ka[p].todo \subseteq Node
        BY <1>1, NodeTypes DEF KaT
      <4> QED BY <3>2, <4>1 DEF KaForget
    <3> QED BY <1>8, <3>1, <3>2
  <2>2. CASE r = p
    BY <1>1, <2>1, <2>2, ForgetType
  <2>3. CASE r # p
    <3>1. keys'[r] = keys[r]
      BY <1>1, <2>1, <2>3, ForgetType
    <3> QED BY <3>1
  <2> QED BY <2>2, <2>3
<1>9. \/ keys' = keys \/ (\E u \in Node : GoesSilent(p, u)) \/ (\E m \in net : RecvPacket(p, m))
      \/ Restart(p) \/ RegisterPeerKey(p) \/ RegisterSendKey(p) \/ Goodbye(p)
      \/ (\E u \in ka[p].todo : KaForget(p, u))
  <2>1. CASE \E u \in Node : \/ ConnectPeer(p, u) \/ SendHello(p, u) \/ SendHelloAck(p, u) \/ SendNotice(p, u)
                             \/ SendStream(p, u) \/ SendGoodbye(p, u)
    BY <2>1 DEF ConnectPeer, SendHello, SendHelloAck, SendNotice, SendStream, SendGoodbye
  <2>2. CASE ControlStep(p)
    BY <2>2 DEF ControlStep, DropHello, AcceptHello, InsertPeer, DropControl, Keepalive
  <2>3. CASE StreamRecv(p) \/ StreamRebase(p)
    BY <2>3 DEF StreamRecv, StreamRebase
  <2>4. CASE KeepaliveStep(p)
    BY <2>4 DEF KeepaliveStep, KaTick, KaSnapshot, KaRetain, KaDone, KaSend
  <2> QED BY <2>1, <2>2, <2>3, <2>4 DEF StepOf
<1> QED BY <1>2, <1>3, <1>4, <1>5, <1>6, <1>7, <1>8, <1>9

\* A peer's data key is never replaced by one of an older session that peer had,
\* unless the control task no longer remembered the peer as it accepted the packet:
\* an older-epoch HELLO or HELLO_ACK is a replay.
THEOREM NeverDowngraded == Spec => NoDowngrade
<1>1. ASSUME IInv, [Next]_vars, NEW p \in Node, NEW q \in Node,
             keys[p].recv[q] # None, keys'[p].recv[q] # None,
             ctl[p].pc # "met", epoch'[p] = epoch[p]
      PROVE  keys'[p].recv[q].epoch >= keys[p].recv[q].epoch
  <2>1. TypeOK /\ keys[p].recv[q] \in DataKey
    BY <1>1, NodeTypes DEF IInv, KeysT, Opt
  <2>2. keys[p].recv[q].epoch \in Nat
    BY <2>1 DEF DataKey
  <2>3. CASE keys'[p].recv[q] = keys[p].recv[q]
    BY <2>2, <2>3
  <2>4. CASE RegisterPeerKey(p)
    <3>1. PICK c, m, recv : c = ctl[p] /\ m = ctl[p].msg /\ recv = keys[p].recv
      OBVIOUS
    <3>2. /\ m \in Packet /\ c.pc = "known" /\ c.session[m.from] = m.epoch
          /\ keys'[p].recv[m.from].epoch = m.epoch
          /\ \A u \in Node : u # m.from => keys'[p].recv[u] = recv[u]
      BY <1>1, <2>4, <3>1, PeerKeyFacts
    <3>3. CASE q # m.from
      BY <2>3, <3>1, <3>2, <3>3
    <3>4. CASE q = m.from
      <4>1. KeysOK(c, recv) /\ m.epoch \in Nat /\ m.epoch # None
        BY <1>1, <3>1, <3>2, NoneAssumption DEF IInv, NodeOK, Packet
      <4>2. recv[q].epoch <= c.session[q]
        BY <1>1, <3>1, <3>2, <3>4, <4>1 DEF KeysOK, Unkeyed
      <4> QED BY <2>2, <3>1, <3>2, <3>4, <4>1, <4>2
    <3> QED BY <3>3, <3>4
  <2>5. CASE UNCHANGED vars
    BY <2>3, <2>5 DEF vars
  <2>6. CASE Next /\ keys'[p].recv[q] # keys[p].recv[q]
    <3>1. PICK r \in Node : StepOf(r)
      BY <2>6 DEF Next, StepOf
    <3>2. r = p /\ (RegisterPeerKey(p) \/ Restart(p))
      BY <1>1, <2>6, <3>1, RecvKeySteps
    <3>3. ~Restart(p)
      <4>1. epoch \in [Node -> Nat]
        BY <2>1 DEF TypeOK
      <4>2. Restart(p) => epoch'[p] = epoch[p] + 1
        BY <4>1 DEF Restart
      <4> QED BY <1>1, <4>1, <4>2
    <3> QED BY <2>4, <3>2, <3>3
  <2> QED BY <1>1, <2>3, <2>5, <2>6
<1>2. IInv /\ [Next]_vars =>
        [\A p, q \in Node :
           /\ keys[p].recv[q] # None /\ keys'[p].recv[q] # None
           /\ ctl[p].pc # "met" /\ epoch'[p] = epoch[p]
           => keys'[p].recv[q].epoch >= keys[p].recv[q].epoch]_vars
  BY <1>1
<1> QED BY <1>2, SessionInvariant, PTL DEF Spec, NoDowngrade

-----------------------------------------------------------------------------
(* The order of sessions on a Stream.                                      *)

Mail == [epoch : Nat, seq : Nat]

\* A later session is in order with all there is.
LEMMA OrderRaised ==
  ASSUME NEW q, NEW got \in Seq(Mail), NEW line \in Seq(Packet), NEW s \in Opt(Nat), NEW t \in Opt(Nat),
         InOrder(q, got, line, s), s # None => t # None /\ s <= t
  PROVE  InOrder(q, got, line, t)
<1>1. \A i \in DOMAIN got : got[i].epoch \in Nat
  <2>1. \A i \in DOMAIN got : got[i] \in Mail
    OBVIOUS
  <2> QED BY <2>1 DEF Mail
<1>2. \A j \in DOMAIN line : line[j].epoch \in Nat
  <2>1. \A j \in DOMAIN line : line[j] \in Packet
    OBVIOUS
  <2> QED BY <2>1 DEF Packet
<1>3. s # None => s \in Nat /\ t \in Nat
  BY DEF Opt
<1>4. \A j \in DOMAIN line : line[j].from = q => t # None /\ line[j].epoch <= t
  <2> SUFFICES ASSUME NEW j \in DOMAIN line, line[j].from = q PROVE t # None /\ line[j].epoch <= t
    OBVIOUS
  <2>1. s # None /\ line[j].epoch <= s
    BY DEF InOrder
  <2> QED BY <1>2, <1>3, <2>1
<1>5. \A i \in DOMAIN got : t # None /\ got[i].epoch <= t
  <2> SUFFICES ASSUME NEW i \in DOMAIN got PROVE t # None /\ got[i].epoch <= t
    OBVIOUS
  <2>1. s # None /\ got[i].epoch <= s
    BY DEF InOrder
  <2> QED BY <1>1, <1>3, <2>1
<1> QED BY <1>4, <1>5 DEF InOrder

\* So is a packet of the present session at the end of the queue.
LEMMA OrderQueued ==
  ASSUME NEW q, NEW got \in Seq(Mail), NEW line \in Seq(Packet), NEW s \in Opt(Nat), NEW m \in Packet,
         InOrder(q, got, line, s), m.from = q => s # None /\ m.epoch = s
  PROVE  InOrder(q, got, Append(line, m), s)
<1>1. PICK n, long : n = Len(line) /\ long = Append(line, m)
  OBVIOUS
<1>2. /\ n \in Nat /\ DOMAIN long = 1 .. n + 1 /\ long[n + 1] = m /\ DOMAIN line = 1 .. n
      /\ \A j \in 1 .. n : long[j] = line[j]
  BY <1>1
<1>3. m.epoch \in Nat
  BY DEF Packet
<1>4. \A i \in DOMAIN got : \A j \in DOMAIN long : long[j].from = q => got[i].epoch <= long[j].epoch
  <2> SUFFICES ASSUME NEW i \in DOMAIN got, NEW j \in DOMAIN long, long[j].from = q
               PROVE  got[i].epoch <= long[j].epoch
    OBVIOUS
  <2>1. CASE j = n + 1
    BY <1>2, <2>1 DEF InOrder
  <2>2. CASE j # n + 1
    <3>1. j \in DOMAIN line /\ long[j] = line[j]
      BY <1>2, <2>2
    <3> QED BY <3>1 DEF InOrder
  <2> QED BY <2>1, <2>2
<1>5. \A i, j \in DOMAIN long :
        i < j /\ long[i].from = q /\ long[j].from = q => long[i].epoch <= long[j].epoch
  <2> SUFFICES ASSUME NEW i \in DOMAIN long, NEW j \in DOMAIN long,
                      i < j, long[i].from = q, long[j].from = q
               PROVE  long[i].epoch <= long[j].epoch
    OBVIOUS
  <2>1. i \in DOMAIN line /\ long[i] = line[i]
    BY <1>2
  <2>2. CASE j = n + 1
    BY <1>2, <2>1, <2>2 DEF InOrder
  <2>3. CASE j # n + 1
    <3>1. j \in DOMAIN line /\ long[j] = line[j]
      BY <1>2, <2>3
    <3> QED BY <2>1, <3>1 DEF InOrder
  <2> QED BY <2>2, <2>3
<1>6. \A j \in DOMAIN long : long[j].from = q => s # None /\ long[j].epoch <= s
  <2> SUFFICES ASSUME NEW j \in DOMAIN long, long[j].from = q
               PROVE  s # None /\ long[j].epoch <= s
    OBVIOUS
  <2>1. CASE j = n + 1
    BY <1>2, <1>3, <2>1
  <2>2. CASE j # n + 1
    <3>1. j \in DOMAIN line /\ long[j] = line[j]
      BY <1>2, <2>2
    <3> QED BY <3>1 DEF InOrder
  <2> QED BY <2>1, <2>2
<1>7. InOrder(q, got, long, s)
  BY <1>4, <1>5, <1>6 DEF InOrder
<1> QED BY <1>1, <1>7

\* The packet at the head of the queue is dropped or delivered.
LEMMA OrderDelivered ==
  ASSUME NEW q, NEW got \in Seq(Mail), NEW line \in Seq(Packet), line # <<>>, NEW s \in Opt(Nat),
         InOrder(q, got, line, s), NEW m, m = Head(line)
  PROVE  /\ InOrder(q, got, Tail(line), s)
         /\ m.from = q => InOrder(q, Append(got, [epoch |-> m.epoch, seq |-> m.seq]), Tail(line), s)
<1>1. PICK n, rest : n = Len(line) /\ rest = Tail(line)
  OBVIOUS
<1>2. /\ n \in Nat \ {0} /\ DOMAIN line = 1 .. n /\ DOMAIN rest = 1 .. n - 1 /\ m = line[1]
      /\ \A j \in 1 .. n - 1 : rest[j] = line[j + 1]
  BY <1>1
<1>3. \A j \in DOMAIN rest : j \in Nat /\ j + 1 \in DOMAIN line /\ rest[j] = line[j + 1] /\ 1 < j + 1
  BY <1>2
<1>4. InOrder(q, got, rest, s)
  <2>1. \A i \in DOMAIN got : \A j \in DOMAIN rest : rest[j].from = q => got[i].epoch <= rest[j].epoch
    BY <1>3 DEF InOrder
  <2>2. \A i, j \in DOMAIN rest :
          i < j /\ rest[i].from = q /\ rest[j].from = q => rest[i].epoch <= rest[j].epoch
    <3> SUFFICES ASSUME NEW i \in DOMAIN rest, NEW j \in DOMAIN rest,
                        i < j, rest[i].from = q, rest[j].from = q
                 PROVE  rest[i].epoch <= rest[j].epoch
      OBVIOUS
    <3>1. i + 1 < j + 1
      BY <1>3
    <3> QED BY <1>3, <3>1 DEF InOrder
  <2>3. \A j \in DOMAIN rest : rest[j].from = q => s # None /\ rest[j].epoch <= s
    BY <1>3 DEF InOrder
  <2> QED BY <2>1, <2>2, <2>3 DEF InOrder
<1>5. ASSUME m.from = q
      PROVE  InOrder(q, Append(got, [epoch |-> m.epoch, seq |-> m.seq]), rest, s)
  <2>1. PICK k, x, more : k = Len(got) /\ x = [epoch |-> m.epoch, seq |-> m.seq] /\ more = Append(got, x)
    OBVIOUS
  <2>2. /\ k \in Nat /\ DOMAIN more = 1 .. k + 1 /\ more[k + 1] = x /\ DOMAIN got = 1 .. k
        /\ \A i \in 1 .. k : more[i] = got[i]
    BY <2>1
  <2>3. x.epoch = m.epoch /\ 1 \in DOMAIN line /\ m = line[1]
    BY <1>2, <2>1
  <2>4. \A i, j \in DOMAIN more : i < j => more[i].epoch <= more[j].epoch
    <3> SUFFICES ASSUME NEW i \in DOMAIN more, NEW j \in DOMAIN more, i < j
                 PROVE  more[i].epoch <= more[j].epoch
      OBVIOUS
    <3>1. i \in DOMAIN got /\ more[i] = got[i]
      BY <2>2
    <3>2. CASE j = k + 1
      BY <1>5, <2>2, <2>3, <3>1, <3>2 DEF InOrder
    <3>3. CASE j # k + 1
      <4>1. j \in DOMAIN got /\ more[j] = got[j]
        BY <2>2, <3>3
      <4> QED BY <3>1, <4>1 DEF InOrder
    <3> QED BY <3>2, <3>3
  <2>5. \A i \in DOMAIN more : \A j \in DOMAIN rest : rest[j].from = q => more[i].epoch <= rest[j].epoch
    <3> SUFFICES ASSUME NEW i \in DOMAIN more, NEW j \in DOMAIN rest, rest[j].from = q
                 PROVE  more[i].epoch <= rest[j].epoch
      OBVIOUS
    <3>1. CASE i = k + 1
      BY <1>3, <1>5, <2>2, <2>3, <3>1 DEF InOrder
    <3>2. CASE i # k + 1
      <4>1. i \in DOMAIN got /\ more[i] = got[i]
        BY <2>2, <3>2
      <4> QED BY <1>4, <4>1 DEF InOrder
    <3> QED BY <3>1, <3>2
  <2>6. \A i \in DOMAIN more : s # None /\ more[i].epoch <= s
    <3> SUFFICES ASSUME NEW i \in DOMAIN more PROVE s # None /\ more[i].epoch <= s
      OBVIOUS
    <3>1. CASE i = k + 1
      BY <1>5, <2>2, <2>3, <3>1 DEF InOrder
    <3>2. CASE i # k + 1
      <4>1. i \in DOMAIN got /\ more[i] = got[i]
        BY <2>2, <3>2
      <4> QED BY <4>1 DEF InOrder
    <3> QED BY <3>1, <3>2
  <2>7. InOrder(q, more, rest, s)
    BY <1>4, <2>4, <2>5, <2>6 DEF InOrder
  <2> QED BY <2>1, <2>7
<1> QED BY <1>1, <1>4, <1>5

\* Nothing is pruned while the table has room for everybody.
LEMMA NoPruning ==
  ASSUME NothingForgotten, TypeOK, NEW p \in Node
  PROVE  Pruned(p) = ctl[p]
<1>1. PICK M : M = {q \in Node : ctl[p].mark[q] # None}
  OBVIOUS
<1>2. M \in SUBSET Node
  BY <1>1
<1>3. /\ Cardinality(M) <= Cardinality(Node) /\ Cardinality(M) \in Nat /\ Cardinality(Node) \in Nat
      /\ PeerCap \in Nat /\ Cardinality(Node) <= PeerCap
  BY <1>2, FS_Subset, FS_CardinalityType, SessionBounds DEF NothingForgotten
<1>4. Cardinality(M) <= PeerCap
  BY <1>3
<1> QED BY <1>1, <1>4 DEF Pruned

\* Which steps touch a control task.
LEMMA CtlEffects ==
  ASSUME NEW p \in Node, StepOf(p)
  PROVE  ControlStep(p) \/ Restart(p) \/ ctl' = ctl
<1>1. CASE \E u \in Node : \/ ConnectPeer(p, u) \/ SendHello(p, u) \/ SendHelloAck(p, u)
                           \/ SendNotice(p, u) \/ SendStream(p, u)
                           \/ SendGoodbye(p, u) \/ GoesSilent(p, u)
  BY <1>1 DEF ConnectPeer, SendHello, SendHelloAck, SendNotice, SendStream, SendGoodbye, GoesSilent
<1>2. CASE (\E m \in net : RecvPacket(p, m)) \/ StreamRecv(p) \/ StreamRebase(p)
  BY <1>2 DEF RecvPacket, StreamRecv, StreamRebase
<1>3. CASE KeepaliveStep(p)
  BY <1>3 DEF KeepaliveStep, KaTick, KaSnapshot, KaRetain, KaDone, KaSend, KaForget
<1> QED BY <1>1, <1>2, <1>3 DEF StepOf

\* A packet that starts no registration leaves the control task waiting for the next.
LEMMA IdleSteps ==
  ASSUME TypeOK, NEW p \in Node, NodeOK(ctl[p], keys[p].recv, peers[p]),
         DropHello(p) \/ DropControl(p) \/ Keepalive(p) \/ Goodbye(p)
  PROVE  ctl'[p].pc = "recv" /\ \A u \in Node : u # p => ctl'[u] = ctl[u]
<1>1. PICK c, m : c = Pruned(p) /\ m = Head(queue[p].control)
  OBVIOUS
<1>2. Arrived(p) /\ ctl[p].pc = "recv" /\ m \in Packet /\ ctl \in [Node -> CtlT]
  BY <1>1, ArrivedType, Types DEF DropHello, DropControl, Keepalive, Goodbye
<1>3. c \in CtlT /\ c.pc = "recv"
  BY <1>1, <1>2, PrunedOK
<1>4. PICK d, e : /\ d = Accept(c, m)
                  /\ e = [c EXCEPT !.session[m.from] = None, !.mark[m.from] = None,
                                   !.accepted[m.from] = {}]
  OBVIOUS
<1>5. d.pc = "recv"
  BY <1>3, <1>4 DEF Accept, CtlT
<1>6. e.pc = "recv"
  BY <1>3, <1>4 DEF CtlT
<1>7. ctl' \in {[ctl EXCEPT ![p] = c], [ctl EXCEPT ![p] = d], [ctl EXCEPT ![p] = e]}
  BY <1>1, <1>4 DEF DropHello, DropControl, Keepalive, Goodbye
<1> QED BY <1>2, <1>3, <1>5, <1>6, <1>7

\* A step of p leaves the other control tasks alone.
LEMMA OthersCtl ==
  ASSUME TypeOK, NEW p \in Node, StepOf(p), NEW r \in Node, r # p
  PROVE  ctl'[r] = ctl[r]
<1>1. ctl \in [Node -> CtlT]
  BY Types
<1>2. ctl' = ctl \/ \E x : ctl' = [ctl EXCEPT ![p] = x]
  <2>1. CASE DropHello(p) \/ AcceptHello(p) \/ DropControl(p) \/ Keepalive(p) \/ Goodbye(p) \/ Restart(p)
    BY <2>1 DEF DropHello, AcceptHello, DropControl, Keepalive, Goodbye, Restart
  <2>2. CASE RegisterPeerKey(p) \/ RegisterSendKey(p) \/ InsertPeer(p)
    <3>1. PICK x \in {"keyed", "insert"} :
            \/ ctl' = [ctl EXCEPT ![p].pc = x]
            \/ ctl' = [ctl EXCEPT ![p].pc = "recv", ![p].msg = None, ![p].cipher = None]
      BY <2>2 DEF RegisterPeerKey, RegisterSendKey, InsertPeer
    <3>2. PICK y, z : /\ y = [ctl[p] EXCEPT !.pc = x]
                      /\ z = [ctl[p] EXCEPT !.pc = "recv", !.msg = None, !.cipher = None]
      OBVIOUS
    <3>3. ctl' = [ctl EXCEPT ![p] = y] \/ ctl' = [ctl EXCEPT ![p] = z]
      BY <1>1, <3>1, <3>2
    <3> QED BY <3>3
  <2> QED BY <2>1, <2>2, CtlEffects DEF ControlStep
<1> QED BY <1>1, <1>2

\* The sessions a control task remembers only get newer, unless it restarts.
LEMMA SessionSteps ==
  ASSUME IInv, NothingForgotten, NoGoodbye, NEW p \in Node, StepOf(p), ~Restart(p),
         NEW r \in Node, NEW q \in Node, ctl[r].session[q] # None
  PROVE  ctl'[r].session[q] # None /\ ctl[r].session[q] <= ctl'[r].session[q]
<1>1. TypeOK /\ ctl[r] \in CtlT /\ ctl \in [Node -> CtlT] /\ Pruned(p) = ctl[p]
  BY NodeTypes, NoPruning, Types DEF IInv
<1>2. ctl[r].session[q] \in Nat
  BY <1>1, CtlFields DEF Opt
<1>3. CASE ctl'[r].session[q] = ctl[r].session[q]
  BY <1>2, <1>3
<1>4. CASE AcceptHello(p)
  <2>1. PICK m, c : m = Head(queue[p].control) /\ c = Pruned(p)
    OBVIOUS
  <2>2. /\ m \in Packet /\ ~StaleEpoch(c, m) /\ ctl'[p].session[m.from] = m.epoch
        /\ \A u \in Node : u # p => ctl'[u] = ctl[u]
        /\ \A u \in Node : u # m.from => SameOf(ctl'[p], c, u)
    BY <1>4, <2>1, AcceptHelloFacts
  <2>3. CASE r = p /\ q = m.from
    <3>1. c.session[q] # None /\ c.session[q] = ctl[r].session[q]
      BY <1>1, <2>1, <2>3
    <3>2. m.epoch \in Nat /\ ~(m.epoch < c.session[q])
      BY <2>2, <2>3, <3>1 DEF StaleEpoch, Packet
    <3>3. m.epoch # None
      BY <3>2, NoneAssumption
    <3> QED BY <1>2, <2>2, <2>3, <3>1, <3>2, <3>3
  <2>4. CASE r # p \/ q # m.from
    <3>1. ctl'[r].session[q] = ctl[r].session[q]
      BY <1>1, <2>1, <2>2, <2>4 DEF SameOf
    <3> QED BY <1>3, <3>1
  <2> QED BY <2>3, <2>4
<1>5. CASE DropHello(p) \/ DropControl(p)
  BY <1>1, <1>3, <1>5 DEF DropHello, DropControl
<1>6. CASE Keepalive(p)
  <2>1. PICK m : m = Head(queue[p].control)
    OBVIOUS
  <2>2. /\ m \in Packet /\ ctl' = [ctl EXCEPT ![p] = Accept(Pruned(p), m)] /\ ~Replayed(Pruned(p), m)
    BY <1>1, <1>6, <2>1, ArrivedType DEF Keepalive
  <2>3. MarksOK(ctl[p]) /\ ctl[p] \in CtlT
    BY <1>1, NodeTypes DEF IInv, NodeOK
  <2>4. PICK d : d = Accept(ctl[p], m)
    OBVIOUS
  <2>5. d.session[m.from] = ctl[p].session[m.from] /\ \A u \in Node : u # m.from => SameOf(d, ctl[p], u)
    BY <1>1, <2>2, <2>3, <2>4, AcceptOK
  <2>6. \A u \in Node : d.session[u] = ctl[p].session[u]
    BY <2>5 DEF SameOf
  <2>7. ctl' = [ctl EXCEPT ![p] = d]
    BY <1>1, <2>2, <2>4
  <2> QED BY <1>1, <1>3, <2>6, <2>7
<1>7. CASE RegisterPeerKey(p) \/ RegisterSendKey(p)
  <2>1. PICK x : ctl' = [ctl EXCEPT ![p].pc = x]
    BY <1>7 DEF RegisterPeerKey, RegisterSendKey
  <2>2. ctl'[r].session = ctl[r].session
    BY <1>1, <2>1 DEF CtlT
  <2> QED BY <1>3, <2>2
<1>8. CASE InsertPeer(p)
  <2>1. ctl' = [ctl EXCEPT ![p].pc = "recv", ![p].msg = None, ![p].cipher = None]
    BY <1>8 DEF InsertPeer
  <2>2. ctl'[r].session = ctl[r].session
    BY <1>1, <2>1 DEF CtlT
  <2> QED BY <1>3, <2>2
<1>9. ~Goodbye(p)
  <2> SUFFICES ASSUME Goodbye(p) PROVE FALSE
    OBVIOUS
  <2>1. queue[p].control # <<>> /\ Head(queue[p].control).kind = "goodbye" /\ queue[p].control \in Seq(Packet)
    BY <1>1, NodeTypes DEF Goodbye, Arrived, QueueT
  <2>2. 1 \in DOMAIN queue[p].control /\ queue[p].control[1].kind = "goodbye"
    BY <2>1
  <2> QED BY <2>2 DEF NoGoodbye
<1>10. CASE ctl' = ctl
  BY <1>3, <1>10
<1>11. ControlStep(p) \/ ctl' = ctl
  BY CtlEffects
<1> QED BY <1>4, <1>5, <1>6, <1>7, <1>8, <1>9, <1>10, <1>11 DEF ControlStep

\* What a packet that enters the network is.
Proper(m) ==
  m.kind # "goodbye" /\ (m.kind = "stream" => m.key \in DataKey /\ m.key.epoch = m.epoch)

\* A send puts a proper packet on the network if it is given one.
LEMMA ProperSend ==
  ASSUME NEW p, NEW q, NEW kind, NEW key, NEW offer, Send(p, q, kind, key, offer),
         kind # "goodbye", kind = "stream" => key \in DataKey /\ key.epoch = epoch[p]
  PROVE  \A m \in net' : m \in net \/ Proper(m)
<1>1. PICK m : m = [from |-> p, to |-> q, kind |-> kind, key |-> key,
                    seq |-> next[p], epoch |-> epoch[p], offer |-> offer]
  OBVIOUS
<1>2. net' = net \cup {m}
  BY <1>1 DEF Send
<1>3. Proper(m)
  BY <1>1 DEF Proper
<1> QED BY <1>2, <1>3

\* Whatever a node does, only proper packets enter the network.
LEMMA NetSteps ==
  ASSUME IInv, NothingForgotten, OwnKeys, NEW p \in Node, StepOf(p)
  PROVE  \A m \in net' : m \in net \/ Proper(m)
<1>1. TypeOK
  BY DEF IInv
<1>2. CASE net' \subseteq net
  BY <1>2
<1>3. CASE \E q \in Node : SendStream(p, q)
  <2>1. PICK q \in Node : Send(p, q, "stream", SendKey(p, q), <<>>)
    BY <1>3 DEF SendStream
  <2>2. SendKey(p, q) \in DataKey
    BY <1>1, SendKeyType
  <2>3. SendKey(p, q).epoch = epoch[p]
    BY DEF SendKey, OwnKeys
  <2> QED BY <2>1, <2>2, <2>3, ProperSend
<1>4. CASE \E q \in Node : ConnectPeer(p, q) \/ SendHello(p, q) \/ SendHelloAck(p, q)
  <2>1. PICK q \in Node : ConnectPeer(p, q) \/ SendHello(p, q) \/ SendHelloAck(p, q)
    BY <1>4
  <2>2. CASE ConnectPeer(p, q)
    <3>1. Send(p, q, "hello", Base, Prefs[p])
      BY <2>2 DEF ConnectPeer
    <3> QED BY <3>1, ProperSend
  <2>3. CASE SendHello(p, q)
    <3>1. PICK list \in Lists : Send(p, q, "hello", Base, list)
      BY <2>3 DEF SendHello
    <3> QED BY <3>1, ProperSend
  <2>4. CASE SendHelloAck(p, q)
    <3>1. PICK c \in Cipher : Send(p, q, "ack", Base, <<c>>)
      BY <2>4 DEF SendHelloAck
    <3> QED BY <3>1, ProperSend
  <2> QED BY <2>1, <2>2, <2>3, <2>4
<1>5. CASE \E q \in Node : SendNotice(p, q)
  <2>1. PICK q \in Node : Send(p, q, "keepalive", SendKey(p, q), <<>>)
    BY <1>5 DEF SendNotice
  <2> QED BY <2>1, ProperSend
<1>6. ~(\E q \in Node : SendGoodbye(p, q))
  BY DEF SendGoodbye, NothingForgotten
<1>7. CASE InsertPeer(p)
  <2>1. net' = net \/ Send(p, ctl[p].msg.from, "ack", Base, <<ctl[p].cipher>>)
    BY <1>7 DEF InsertPeer
  <2> QED BY <1>2, <2>1, ProperSend
<1>8. CASE \E q \in ka[p].todo : KaSend(p, q)
  <2>1. PICK q \in ka[p].todo : net' = net \/ Send(p, q, "keepalive", SendKey(p, q), <<>>)
    BY <1>8 DEF KaSend
  <2> QED BY <1>2, <2>1, ProperSend
<1>9. CASE ControlStep(p) /\ ~InsertPeer(p)
  BY <1>2, <1>9
  DEF ControlStep, DropHello, AcceptHello, RegisterPeerKey, RegisterSendKey, DropControl, Keepalive, Goodbye
<1>10. CASE KeepaliveStep(p) /\ ~(\E q \in ka[p].todo : KaSend(p, q))
  BY <1>2, <1>10 DEF KeepaliveStep, KaTick, KaSnapshot, KaRetain, KaDone, KaForget
<1>11. CASE \/ (\E q \in Node : GoesSilent(p, q)) \/ (\E m \in net : RecvPacket(p, m))
            \/ StreamRecv(p) \/ StreamRebase(p) \/ Restart(p)
  BY <1>2, <1>11 DEF GoesSilent, RecvPacket, StreamRecv, StreamRebase, Restart
<1> QED BY <1>3, <1>4, <1>5, <1>6, <1>7, <1>8, <1>9, <1>10, <1>11 DEF StepOf

\* A send key is only set as a handshake is registered, under the present epoch and
\* the suite committed to; other steps forget it at most.
LEMMA SendKeySteps ==
  ASSUME IInv, NEW p \in Node, StepOf(p), NEW r \in Node, NEW q \in Node
  PROVE  \/ keys'[r].send[q] \in {keys[r].send[q], None}
         \/ /\ r = p /\ RegisterSendKey(p) /\ q = ctl[p].msg.from
            /\ keys'[r].send[q] = [epoch |-> epoch[p], cipher |-> ctl[p].cipher]
<1>1. TypeOK /\ keys \in [Node -> KeysT]
  BY Types DEF IInv
<1>2. CASE keys' = keys
  BY <1>2
<1>3. CASE Restart(p)
  <2>1. keys' = [keys EXCEPT ![p] = FreshKeys]
    BY <1>3 DEF Restart
  <2>2. FreshKeys.send[q] = None
    BY DEF FreshKeys, Nobody
  <2> QED BY <1>1, <2>1, <2>2
<1>4. CASE RegisterSendKey(p)
  <2>1. PICK u, k : /\ u = ctl[p].msg.from /\ k = [epoch |-> epoch[p], cipher |-> ctl[p].cipher]
    OBVIOUS
  <2>2. keys' = [keys EXCEPT ![p].send[u] = k]
    BY <1>4, <2>1 DEF RegisterSendKey
  <2>3. \/ keys'[r].send[q] = keys[r].send[q]
        \/ r = p /\ q = u /\ keys'[r].send[q] = k
    BY <1>1, <2>2 DEF KeysT
  <2> QED BY <1>4, <2>1, <2>3
<1>5. CASE RegisterPeerKey(p)
  <2>1. keys'[r].send = keys[r].send
    BY <1>5, PeerKeyFacts
  <2> QED BY <2>1
<1>6. CASE (\E u \in Node : GoesSilent(p, u)) \/ (\E m \in net : RecvPacket(p, m))
  <2>1. PICK u \in Node, h \in {"fresh", "silent", None} : keys' = [keys EXCEPT ![p].heard[u] = h]
    <3>1. \A m \in net : m.from \in Node
      BY <1>1 DEF TypeOK, Packet
    <3>2. "fresh" \in {"fresh", "silent", None} /\ "silent" \in {"fresh", "silent", None}
      OBVIOUS
    <3> QED BY <1>6, <3>1, <3>2 DEF GoesSilent, RecvPacket
  <2>2. keys'[r].send = keys[r].send
    BY <1>1, <2>1, HeardType
  <2> QED BY <2>2
<1>7. CASE Goodbye(p) \/ \E u \in ka[p].todo : KaForget(p, u)
  <2>1. PICK u \in Node : keys' = [keys EXCEPT ![p] = Forget(@, u)]
    <3>1. CASE Goodbye(p)
      <4>1. PICK m : m = Head(queue[p].control)
        OBVIOUS
      <4>2. m.from \in Node
        BY <1>1, <3>1, <4>1, ArrivedType DEF Goodbye, Packet
      <4> QED BY <3>1, <4>1, <4>2 DEF Goodbye
    <3>2. CASE \E u \in ka[p].todo : KaForget(p, u)
      <4>1. ka[p].todo \subseteq Node
        BY <1>1, NodeTypes DEF KaT
      <4> QED BY <3>2, <4>1 DEF KaForget
    <3> QED BY <1>7, <3>1, <3>2
  <2>2. keys'[p].send[q] \in {keys[p].send[q], None}
    BY <1>1, <2>1, ForgetType
  <2>3. r # p => keys'[r] = keys[r]
    BY <1>1, <2>1, ForgetType
  <2> QED BY <2>2, <2>3
<1>8. \/ keys' = keys \/ Restart(p) \/ RegisterSendKey(p) \/ RegisterPeerKey(p)
      \/ (\E u \in Node : GoesSilent(p, u)) \/ (\E m \in net : RecvPacket(p, m))
      \/ Goodbye(p) \/ (\E u \in ka[p].todo : KaForget(p, u))
  <2>1. CASE \E u \in Node : \/ ConnectPeer(p, u) \/ SendHello(p, u) \/ SendHelloAck(p, u) \/ SendNotice(p, u)
                             \/ SendStream(p, u) \/ SendGoodbye(p, u)
    BY <2>1 DEF ConnectPeer, SendHello, SendHelloAck, SendNotice, SendStream, SendGoodbye
  <2>2. CASE ControlStep(p)
    BY <2>2 DEF ControlStep, DropHello, AcceptHello, InsertPeer, DropControl, Keepalive
  <2>3. CASE StreamRecv(p) \/ StreamRebase(p)
    BY <2>3 DEF StreamRecv, StreamRebase
  <2>4. CASE KeepaliveStep(p)
    BY <2>4 DEF KeepaliveStep, KaTick, KaSnapshot, KaRetain, KaDone, KaSend
  <2> QED BY <2>1, <2>2, <2>3, <2>4 DEF StepOf
<1> QED BY <1>2, <1>3, <1>4, <1>5, <1>6, <1>7, <1>8

\* The send keys stay those of the present epoch.
LEMMA OwnKeySteps ==
  ASSUME IInv, OwnKeys, NEW p \in Node, StepOf(p)
  PROVE  OwnKeys'
<1> SUFFICES ASSUME NEW r \in Node, NEW q \in Node, keys'[r].send[q] # None
             PROVE  keys'[r].send[q].epoch = epoch'[r]
  BY DEF OwnKeys
<1>1. TypeOK /\ keys \in [Node -> KeysT] /\ epoch \in [Node -> Nat]
  BY Types DEF IInv
<1>2. keys[r].send[q] # None => keys[r].send[q].epoch = epoch[r]
  BY DEF OwnKeys
<1>3. Restart(p) => /\ epoch' = [epoch EXCEPT ![p] = epoch[p] + 1]
                    /\ keys' = [keys EXCEPT ![p] = FreshKeys]
  BY DEF Restart
<1>4. CASE Restart(p) /\ r = p
  <2>1. keys'[p] = FreshKeys /\ FreshKeys.send[q] = None
    BY <1>1, <1>3, <1>4 DEF FreshKeys, Nobody
  <2> QED BY <1>4, <2>1
<1>5. CASE epoch'[r] = epoch[r] /\ keys'[r].send[q] \in {keys[r].send[q], None}
  BY <1>2, <1>5
<1>6. CASE RegisterSendKey(p) /\ r = p /\ keys'[r].send[q] = [epoch |-> epoch[p], cipher |-> ctl[p].cipher]
  BY <1>6 DEF RegisterSendKey
<1>7. epoch'[r] = epoch[r] \/ (Restart(p) /\ r = p)
  <2>1. CASE Restart(p)
    BY <1>1, <1>3, <2>1
  <2>2. CASE ~Restart(p)
    <3>1. epoch' = epoch
      BY <2>2 DEF StepOf, ConnectPeer, SendHello, SendHelloAck, SendNotice, SendStream, SendGoodbye,
                  GoesSilent, RecvPacket, ControlStep, DropHello, AcceptHello, RegisterPeerKey, RegisterSendKey, InsertPeer, DropControl, Keepalive,
                  Goodbye, StreamRecv, StreamRebase, KeepaliveStep, KaTick, KaSnapshot, KaRetain, KaDone,
                  KaSend, KaForget
    <3> QED BY <3>1
  <2> QED BY <2>1, <2>2
<1> QED BY <1>4, <1>5, <1>6, <1>7, SendKeySteps

\* Only the acceptance of a handshake packet brings the control task to "met".
LEMMA StageSteps ==
  ASSUME IInv, NEW p \in Node, StepOf(p), NEW r \in Node
  PROVE  ctl'[r] = ctl[r] \/ (r = p /\ AcceptHello(p)) \/ ctl'[r].pc # "met"
<1>1. TypeOK /\ ctl \in [Node -> CtlT] /\ NodeOK(ctl[p], keys[p].recv, peers[p])
  BY Types DEF IInv
<1>2. CASE r # p
  BY <1>1, <1>2, OthersCtl
<1>3. CASE r = p /\ (DropHello(p) \/ DropControl(p) \/ Keepalive(p) \/ Goodbye(p))
  BY <1>1, <1>3, IdleSteps
<1>4. CASE r = p /\ (RegisterPeerKey(p) \/ RegisterSendKey(p) \/ InsertPeer(p))
  <2>1. CASE RegisterPeerKey(p)
    BY <1>1, <1>4, <2>1 DEF RegisterPeerKey, CtlT
  <2>2. CASE RegisterSendKey(p)
    BY <1>1, <1>4, <2>2 DEF RegisterSendKey, CtlT
  <2>3. CASE InsertPeer(p)
    <3>1. ctl' = [ctl EXCEPT ![p].pc = "recv", ![p].msg = None, ![p].cipher = None]
      BY <2>3 DEF InsertPeer
    <3> QED BY <1>1, <1>4, <3>1 DEF CtlT
  <2> QED BY <1>4, <2>1, <2>2, <2>3
<1>5. CASE r = p /\ Restart(p)
  BY <1>1, <1>5 DEF Restart, FreshCtl
<1> QED BY <1>2, <1>3, <1>4, <1>5, CtlEffects DEF ControlStep

\* The control task is at "met" with a packet of q: it knew no session of q.
Met(c, q) == c.pc = "met" /\ c.msg.from = q

\* Only the acceptance of a packet of a peer not remembered leads there.
LEMMA MetSteps ==
  ASSUME IInv, NothingForgotten, NEW p \in Node, StepOf(p), NEW r \in Node, NEW q \in Node,
         Met(ctl'[r], q)
  PROVE  Met(ctl[r], q) \/ (r = p /\ AcceptHello(p) /\ ctl[p].session[q] = None)
<1>1. CASE ctl'[r] = ctl[r]
  BY <1>1
<1>2. CASE r = p /\ AcceptHello(p)
  <2>1. PICK c, m : c = Pruned(p) /\ m = Head(queue[p].control)
    OBVIOUS
  <2>2. ctl'[p].msg = m /\ ctl'[p].pc = IF c.session[m.from] = None THEN "met" ELSE "known"
    BY <1>2, <2>1, AcceptHelloFacts
  <2>3. c = ctl[p]
    BY <2>1, NoPruning DEF IInv
  <2> QED BY <1>2, <2>2, <2>3 DEF Met
<1>3. ctl'[r] = ctl[r] \/ (r = p /\ AcceptHello(p)) \/ ctl'[r].pc # "met"
  BY StageSteps
<1> QED BY <1>1, <1>2, <1>3 DEF Met

\* A key is registered for a session that is remembered, and outlives it never.
LEMMA RememberedSteps ==
  ASSUME IInv, NothingForgotten, NoGoodbye, KeysRemembered, NEW p \in Node, StepOf(p)
  PROVE  KeysRemembered'
<1> SUFFICES ASSUME NEW r \in Node, NEW q \in Node, keys'[r].recv[q] # None
             PROVE  ctl'[r].session[q] # None /\ ~Met(ctl'[r], q)
  BY DEF KeysRemembered, Met
<1>1. TypeOK
  BY DEF IInv
<1>2. CASE ~Restart(p) /\ keys'[r].recv[q] = keys[r].recv[q]
  <2>1. ctl[r].session[q] # None /\ ~Met(ctl[r], q)
    BY <1>2 DEF KeysRemembered, Met
  <2>2. ctl'[r].session[q] # None
    BY <1>2, <2>1, SessionSteps
  <2>3. ~Met(ctl'[r], q)
    BY <2>1, MetSteps
  <2> QED BY <2>2, <2>3
<1>3. CASE Restart(p) /\ r = p
  <2>1. keys'[p] = FreshKeys
    BY <1>1, <1>3, Types DEF Restart
  <2>2. FreshKeys.recv[q] = None
    BY DEF FreshKeys, Nobody
  <2> QED BY <1>3, <2>1, <2>2
<1>4. CASE Restart(p) /\ r # p
  <2>1. keys'[r] = keys[r] /\ ctl'[r] = ctl[r]
    BY <1>1, <1>4, Types DEF Restart
  <2> QED BY <2>1 DEF KeysRemembered, Met
<1>5. CASE RegisterPeerKey(p) /\ r = p /\ ~Restart(p)
  <2>1. PICK c, u : c = ctl[p] /\ u = ctl[p].msg.from
    OBVIOUS
  <2>2. /\ c.msg \in Packet /\ c.session[u] = c.msg.epoch /\ ctl'[p].session = c.session
        /\ ctl'[p].pc = "keyed"
        /\ \A v \in Node : v # u => keys'[p].recv[v] = keys[p].recv[v]
    BY <1>5, <2>1, PeerKeyFacts
  <2>3. c.msg.epoch # None
    BY <2>2, NoneAssumption DEF Packet
  <2>4. CASE q # u
    BY <1>2, <1>5, <2>2, <2>4
  <2>5. CASE q = u
    BY <1>5, <2>2, <2>3, <2>5 DEF Met
  <2> QED BY <2>4, <2>5
<1> QED BY <1>2, <1>3, <1>4, <1>5, RecvKeySteps

\* Levels only rise, unless the endpoint restarts.
LEMMA LevelSteps ==
  ASSUME IInv, NothingForgotten, NoGoodbye, KeysRemembered, NEW p \in Node, StepOf(p), ~Restart(p),
         NEW r \in Node, NEW q \in Node, NEW s, s = Level(r, q), NEW t, t = Level(r, q)', s # None
  PROVE  t # None /\ s <= t
<1>1. PICK c, d, k, l : c = ctl[r] /\ d = ctl'[r] /\ k = keys[r].recv[q] /\ l = keys'[r].recv[q]
  OBVIOUS
<1>2. /\ s = (IF k # None THEN k.epoch ELSE c.session[q])
      /\ t = (IF l # None THEN l.epoch ELSE d.session[q])
  BY <1>1 DEF Level
<1>3. /\ c \in CtlT /\ k \in Opt(DataKey) /\ KeysOK(c, keys[r].recv) /\ PendingOK(c)
      /\ c.session[q] \in Opt(Nat) /\ None \notin Nat
  BY <1>1, NodeTypes, CtlFields, NoneAssumption DEF IInv, KeysT, NodeOK
<1>4. c.session[q] # None => d.session[q] # None /\ c.session[q] <= d.session[q]
  BY <1>1, SessionSteps
<1>5. IInv'
  <2>1. Next
    BY DEF Next, StepOf
  <2> QED BY <2>1, NextInvariant
<1>6. d.session[q] \in Opt(Nat)
  <2>1. TypeOK'
    BY <1>5 DEF IInv
  <2>2. d \in CtlT
    BY <1>1, <2>1 DEF TypeOK, CtlT
  <2> QED BY <2>2, CtlFields
<1>7. k # None => /\ k.epoch \in Nat /\ c.session[q] # None /\ ~Met(c, q)
                  /\ k.epoch <= c.session[q]
  <2> SUFFICES ASSUME k # None
               PROVE  k.epoch \in Nat /\ c.session[q] # None /\ ~Met(c, q) /\ k.epoch <= c.session[q]
    OBVIOUS
  <2>1. c.session[q] # None /\ ~Met(c, q)
    BY <1>1 DEF KeysRemembered, Met
  <2>2. k.epoch \in Nat /\ c.session[q] \in Nat
    BY <1>3, <2>1 DEF Opt, DataKey
  <2>3. CASE Unkeyed(c, q)
    <3>1. c.pc = "known"
      BY <2>1, <2>3 DEF Unkeyed, Met
    <3> QED BY <1>1, <1>3, <2>1, <2>2, <2>3, <3>1 DEF KeysOK
  <2>4. CASE ~Unkeyed(c, q)
    <3>1. k.epoch = c.session[q]
      BY <1>1, <1>3, <2>1, <2>4 DEF KeysOK
    <3> QED BY <2>1, <2>2, <3>1
  <2> QED BY <2>3, <2>4
<1>8. CASE l = k
  BY <1>2, <1>3, <1>4, <1>6, <1>7, <1>8 DEF Opt
<1>9. CASE l = None
  <2>1. t = d.session[q]
    BY <1>2, <1>9
  <2>2. c.session[q] # None /\ s <= c.session[q] /\ s \in Nat /\ c.session[q] \in Nat
    BY <1>2, <1>3, <1>7 DEF Opt
  <2>3. d.session[q] # None /\ c.session[q] <= d.session[q] /\ d.session[q] \in Nat
    BY <1>4, <1>6, <2>2 DEF Opt
  <2> QED BY <2>1, <2>2, <2>3
<1>10. CASE r = p /\ RegisterPeerKey(p)
  <2>1. PICK u : u = ctl[p].msg.from
    OBVIOUS
  <2>2. /\ c.msg \in Packet /\ u \in Node /\ c.session[u] = c.msg.epoch
        /\ keys'[p].recv[u] \in DataKey /\ keys'[p].recv[u].epoch = c.msg.epoch
        /\ \A v \in Node : v # u => keys'[p].recv[v] = keys[p].recv[v]
    BY <1>1, <1>10, <2>1, PeerKeyFacts
  <2>3. CASE q # u
    BY <1>1, <1>8, <1>10, <2>2, <2>3
  <2>4. CASE q = u
    <3>1. l # None /\ t = c.session[q] /\ c.session[q] \in Nat
      BY <1>1, <1>2, <1>10, <2>2, <2>4, NoneAssumption DEF Packet
    <3>2. s <= c.session[q]
      BY <1>2, <1>7, <3>1
    <3> QED BY <1>3, <3>1, <3>2
  <2> QED BY <2>3, <2>4
<1> QED BY <1>1, <1>8, <1>9, <1>10, RecvKeySteps

\* The steps that touch the queues.
LEMMA QueueEffects ==
  ASSUME NEW p \in Node, StepOf(p)
  PROVE  queue' = queue \/ (\E m \in net : RecvPacket(p, m)) \/ Arrived(p) \/ Restart(p) \/ StreamRecv(p)
<1>1. CASE \E u \in Node : \/ ConnectPeer(p, u) \/ SendHello(p, u) \/ SendHelloAck(p, u)
                             \/ SendNotice(p, u) \/ SendStream(p, u)
                           \/ SendGoodbye(p, u) \/ GoesSilent(p, u)
  BY <1>1 DEF ConnectPeer, SendHello, SendHelloAck, SendNotice, SendStream, SendGoodbye, GoesSilent
<1>2. CASE ControlStep(p)
  BY <1>2 DEF ControlStep, DropHello, AcceptHello, RegisterPeerKey, RegisterSendKey, InsertPeer, DropControl,
              Keepalive, Goodbye
<1>3. CASE StreamRebase(p) \/ KeepaliveStep(p)
  BY <1>3 DEF StreamRebase, KeepaliveStep, KaTick, KaSnapshot, KaRetain, KaDone, KaSend, KaForget
<1> QED BY <1>1, <1>2, <1>3 DEF StepOf

\* What the control queue holds came from the network.
LEMMA ControlQueueSteps ==
  ASSUME IInv, NoGoodbye, NEW p \in Node, StepOf(p), NEW r \in Node
  PROVE  \A i \in DOMAIN queue'[r].control : queue'[r].control[i].kind # "goodbye"
<1>1. TypeOK /\ queue \in [Node -> QueueT] /\ queue[r].control \in Seq(Packet)
  BY Types, NodeTypes DEF IInv, QueueT
<1>2. \A i \in DOMAIN queue[r].control : queue[r].control[i].kind # "goodbye"
  BY DEF NoGoodbye
<1>3. CASE queue'[r].control = queue[r].control
  BY <1>2, <1>3
<1>4. CASE \E m \in net : RecvPacket(p, m)
  <2>1. PICK m \in net : RecvPacket(p, m)
    BY <1>4
  <2>2. m \in Packet /\ m.kind # "goodbye"
    BY <1>1 DEF TypeOK, NoGoodbye
  <2>3. CASE r = p /\ m.kind # "stream"
    <3>1. queue' = [queue EXCEPT ![p]["control"] = Append(queue[p]["control"], m)]
      BY <2>1, <2>3 DEF RecvPacket
    <3>2. PICK t : t = queue[r].control
      OBVIOUS
    <3>3. queue'[r].control = Append(t, m) /\ t \in Seq(Packet)
      BY <1>1, <2>3, <3>1, <3>2 DEF QueueT
    <3>4. \A i \in DOMAIN Append(t, m) : Append(t, m)[i] = m \/ (i \in DOMAIN t /\ Append(t, m)[i] = t[i])
      BY <2>2, <3>3
    <3> QED BY <1>2, <2>2, <3>2, <3>3, <3>4
  <2>4. CASE r # p \/ m.kind = "stream"
    <3>1. queue'[r].control = queue[r].control
      BY <1>1, <2>1, <2>4 DEF RecvPacket, QueueT
    <3> QED BY <1>3, <3>1
  <2> QED BY <2>3, <2>4
<1>5. CASE Arrived(p)
  <2>1. CASE r = p
    <3>1. PICK t : t = queue[p].control
      OBVIOUS
    <3>2. queue'[p].control = Tail(t) /\ t \in Seq(Packet) /\ t # <<>>
      BY <1>1, <1>5, <2>1, <3>1, ArrivedType DEF Arrived
    <3>3. \A i \in DOMAIN Tail(t) : i + 1 \in DOMAIN t /\ Tail(t)[i] = t[i + 1]
      BY <3>2
    <3> QED BY <1>2, <2>1, <3>1, <3>2, <3>3
  <2>2. CASE r # p
    <3>1. queue'[r] = queue[r]
      BY <1>1, <1>5, <2>2, ArrivedType
    <3> QED BY <1>3, <3>1
  <2> QED BY <2>1, <2>2
<1>6. CASE Restart(p)
  <2>1. queue' = [queue EXCEPT ![p] = FreshQueue] /\ FreshQueue.control = <<>>
    BY <1>6 DEF Restart, FreshQueue
  <2>2. queue'[r].control = <<>> \/ queue'[r].control = queue[r].control
    BY <1>1, <2>1
  <2> QED BY <1>3, <2>2
<1>7. CASE StreamRecv(p)
  <2>1. queue'[r].control = queue[r].control
    BY <1>1, <1>7, StreamType
  <2> QED BY <1>3, <2>1
<1>8. CASE queue' = queue
  BY <1>3, <1>8
<1> QED BY <1>4, <1>5, <1>6, <1>7, <1>8, QueueEffects

\* Which steps touch what a Stream has queued and delivered.
LEMMA StreamEffects ==
  ASSUME IInv, NEW p \in Node, StepOf(p)
  PROVE  \/ \A r \in Node : queue'[r].stream = queue[r].stream /\ str'[r].got = str[r].got
         \/ (\E m \in net : RecvPacket(p, m)) \/ StreamRecv(p) \/ Restart(p)
<1>1. TypeOK /\ str \in [Node -> StrT] /\ queue \in [Node -> QueueT]
  BY Types DEF IInv
<1>2. CASE queue' = queue /\ str' = str
  BY <1>2
<1>3. CASE \E u \in Node : \/ ConnectPeer(p, u) \/ SendHello(p, u) \/ SendHelloAck(p, u)
                             \/ SendNotice(p, u) \/ SendStream(p, u)
                           \/ SendGoodbye(p, u) \/ GoesSilent(p, u)
  BY <1>2, <1>3 DEF ConnectPeer, SendHello, SendHelloAck, SendNotice, SendStream, SendGoodbye, GoesSilent
<1>4. CASE KeepaliveStep(p)
  BY <1>2, <1>4 DEF KeepaliveStep, KaTick, KaSnapshot, KaRetain, KaDone, KaSend, KaForget
<1>5. CASE RegisterPeerKey(p) \/ RegisterSendKey(p) \/ InsertPeer(p)
  BY <1>2, <1>5 DEF RegisterPeerKey, RegisterSendKey, InsertPeer
<1>6. CASE DropHello(p) \/ DropControl(p) \/ Keepalive(p) \/ Goodbye(p)
  <2>1. Arrived(p) /\ str' = str
    BY <1>6 DEF DropHello, DropControl, Keepalive, Goodbye
  <2>2. \A r \in Node : queue'[r].stream = queue[r].stream
    BY <1>1, <2>1, ArrivedType
  <2> QED BY <2>1, <2>2
<1>7. CASE AcceptHello(p)
  <2>1. PICK s : str' \in {str, [str EXCEPT ![p].rebase = s]}
    <3>1. PICK s : s = Signal(str[p].rebase, Head(queue[p].control).from)
      OBVIOUS
    <3> QED BY <1>7, <3>1 DEF AcceptHello
  <2>2. \A r \in Node : str'[r].got = str[r].got
    BY <1>1, <2>1, ZenonT(60) DEF StrT
  <2>3. Arrived(p)
    BY <1>7 DEF AcceptHello
  <2>4. \A r \in Node : queue'[r].stream = queue[r].stream
    BY <1>1, <2>3, ArrivedType
  <2> QED BY <2>2, <2>4
<1>8. CASE StreamRebase(p)
  <2>1. \A r \in Node : str'[r].got = str[r].got
    BY <1>8, RebaseStep
  <2>2. queue' = queue
    BY <1>8 DEF StreamRebase
  <2> QED BY <2>1, <2>2
<1> QED BY <1>3, <1>4, <1>5, <1>6, <1>7, <1>8 DEF StepOf, ControlStep

\* What opens is of the level's session.
LEMMA OpenedPacket ==
  ASSUME IInv, StreamKeyed, NEW p \in Node, NEW m \in net, m.kind = "stream", Opens(p, m)
  PROVE  m \in Packet /\ Level(p, m.from) # None /\ m.epoch = Level(p, m.from)
<1>1. m \in Packet /\ m.epoch \in Nat
  BY DEF IInv, TypeOK, Packet
<1>2. m.key \in DataKey /\ m.key.epoch = m.epoch
  BY DEF StreamKeyed
<1>3. m.key # Base
  BY <1>2, NoneAssumption DEF DataKey, Base
<1>4. keys[p].recv[m.from] = m.key /\ m.key # None
  BY <1>2, <1>3, NoneAssumption DEF Opens
<1> QED BY <1>1, <1>2, <1>4, NoneAssumption DEF Level

\* A level is a session's number or nothing.
LEMMA LevelType ==
  ASSUME TypeOK, NEW p \in Node, NEW q \in Node
  PROVE  Level(p, q) \in Opt(Nat)
<1>1. keys[p].recv[q] \in Opt(DataKey) /\ ctl[p].session[q] \in Opt(Nat)
  BY NodeTypes, CtlFields DEF KeysT
<1> QED BY <1>1 DEF Level, Opt, DataKey

\* No step delivers a stream packet of an older session after a newer one's.
LEMMA StreamsSteps ==
  ASSUME IInv, NothingForgotten, SInv, NEW p \in Node, StepOf(p)
  PROVE  StreamsOK'
<1> SUFFICES ASSUME NEW r \in Node, NEW q \in Node
             PROVE  InOrder(q, str'[r].got[q], queue'[r].stream, Level(r, q)')
  BY DEF StreamsOK, InOrder
<1>1. TypeOK /\ queue \in [Node -> QueueT] /\ str \in [Node -> StrT] /\ ctl \in [Node -> CtlT]
  BY Types DEF IInv
<1>2. PICK got, line, s : got = str[r].got[q] /\ line = queue[r].stream /\ s = Level(r, q)
  OBVIOUS
<1>3. got \in Seq(Mail) /\ line \in Seq(Packet) /\ s \in Opt(Nat)
  BY <1>1, <1>2, LevelType DEF QueueT, StrT, Mail
<1>4. InOrder(q, got, line, s)
  BY <1>2 DEF SInv, StreamsOK
<1>5. Level(r, q)' \in Opt(Nat)
  <2>1. IInv'
    <3>1. Next
      BY DEF Next, StepOf
    <3> QED BY <3>1, NextInvariant
  <2>2. TypeOK'
    BY <2>1 DEF IInv
  <2>3. keys'[r] \in KeysT /\ ctl'[r] \in CtlT
    BY <2>2 DEF TypeOK, KeysT, CtlT
  <2>4. keys'[r].recv[q] \in Opt(DataKey)
    BY <2>3 DEF KeysT
  <2>5. ctl'[r].session[q] \in Opt(Nat)
    BY <2>3, CtlFields
  <2> QED BY <2>4, <2>5 DEF Level, Opt, DataKey
<1>6. CASE Restart(p)
  <2>1. CASE r = p
    <3>1. queue'[r] = FreshQueue /\ str'[r] = FreshStr
      BY <1>1, <1>6, <2>1 DEF Restart
    <3>2. queue'[r].stream = <<>> /\ str'[r].got[q] = <<>>
      BY <3>1 DEF FreshQueue, FreshStr
    <3> QED BY <3>2 DEF InOrder
  <2>2. CASE r # p
    <3>1. queue'[r] = queue[r] /\ str'[r] = str[r] /\ ctl'[r] = ctl[r] /\ keys'[r] = keys[r]
      BY <1>1, <1>6, <2>2, Types DEF Restart
    <3>2. Level(r, q)' = s
      BY <1>2, <3>1 DEF Level
    <3> QED BY <1>2, <1>4, <3>1, <3>2
  <2> QED BY <2>1, <2>2
<1>7. CASE ~Restart(p) /\ queue'[r].stream = line /\ str'[r].got[q] = got
  <2>1. PICK t : t = Level(r, q)'
    OBVIOUS
  <2>2. t \in Opt(Nat)
    BY <1>5, <2>1
  <2>3. s # None => t # None /\ s <= t
    BY <1>2, <1>7, <2>1, LevelSteps DEF SInv
  <2>4. InOrder(q, got, line, t)
    BY <1>3, <1>4, <2>2, <2>3, OrderRaised
  <2> QED BY <1>7, <2>1, <2>4
<1>8. CASE ~Restart(p) /\ \E m \in net : RecvPacket(p, m)
  <2>1. PICK m \in net : RecvPacket(p, m)
    BY <1>8
  <2>2. str' = str /\ Opens(p, m) /\ Level(r, q)' = s
    <3>1. ctl' = ctl /\ keys' = [keys EXCEPT ![p].heard[m.from] = "fresh"] /\ m.from \in Node
      BY <1>1, <2>1 DEF RecvPacket, TypeOK, Packet
    <3>2. keys'[r].recv = keys[r].recv
      BY <1>1, <3>1, HeardType
    <3> QED BY <1>2, <2>1, <3>1, <3>2 DEF RecvPacket, Level
  <2>3. CASE r = p /\ m.kind = "stream"
    <3>1. queue' = [queue EXCEPT ![p]["stream"] = Append(queue[p]["stream"], m)]
      BY <2>1, <2>3 DEF RecvPacket
    <3>2. queue'[r].stream = Append(line, m)
      BY <1>1, <1>2, <2>3, <3>1 DEF QueueT
    <3>3. m \in Packet /\ (m.from = q => s # None /\ m.epoch = s)
      BY <1>2, <2>2, <2>3, OpenedPacket DEF SInv
    <3>4. InOrder(q, got, Append(line, m), s)
      BY <1>3, <1>4, <3>3, OrderQueued
    <3> QED BY <1>2, <2>2, <3>2, <3>4
  <2>4. CASE r # p \/ m.kind # "stream"
    <3>1. queue'[r].stream = queue[r].stream
      BY <1>1, <2>1, <2>4 DEF RecvPacket, QueueT
    <3> QED BY <1>2, <1>4, <2>2, <3>1
  <2> QED BY <2>3, <2>4
<1>9. CASE StreamRecv(p)
  <2>1. Level(r, q)' = s
    BY <1>2, <1>9 DEF StreamRecv, Level
  <2>2. CASE r # p
    <3>1. queue'[r] = queue[r] /\ str'[r] = str[r]
      BY <1>1, <1>9, <2>2, StreamType
    <3> QED BY <1>2, <1>4, <2>1, <3>1
  <2>3. CASE r = p
    <3>1. PICK m : m = Head(line)
      OBVIOUS
    <3>2. line # <<>> /\ queue'[r].stream = Tail(line) /\ m \in Packet /\ m.from \in Node
      <4>1. line # <<>> /\ queue'[r].stream = Tail(line) /\ m \in Packet
        BY <1>1, <1>2, <1>9, <2>3, <3>1, StreamType
      <4> QED BY <4>1 DEF Packet
    <3>3. /\ InOrder(q, got, Tail(line), s)
          /\ m.from = q => InOrder(q, Append(got, [epoch |-> m.epoch, seq |-> m.seq]), Tail(line), s)
      BY <1>3, <1>4, <3>1, <3>2, OrderDelivered
    <3>4. \/ str'[p].got[q] = got
          \/ m.from = q /\ str'[p].got[q] = Append(got, [epoch |-> m.epoch, seq |-> m.seq])
      <4>1. PICK u, x : u = m.from /\ x = [epoch |-> m.epoch, seq |-> m.seq]
        OBVIOUS
      <4>2. \/ str' = str
            \/ str' = [str EXCEPT ![p].mark[u] = m.seq, ![p].got[u] = Append(str[p].got[u], x)]
        BY <1>2, <1>9, <2>3, <3>1, <4>1 DEF StreamRecv
      <4>3. str[p] \in StrT /\ str[p].got \in [Node -> Seq(Mail)] /\ u \in Node
        BY <1>1, <3>2, <4>1 DEF StrT, Mail
      <4>4. CASE str' = str
        BY <1>2, <2>3, <4>4
      <4>5. CASE str' = [str EXCEPT ![p].mark[u] = m.seq, ![p].got[u] = Append(str[p].got[u], x)]
        <5>1. PICK y : y = Append(str[p].got[u], x)
          OBVIOUS
        <5>2. str' = [str EXCEPT ![p].mark[u] = m.seq, ![p].got[u] = y]
          BY <4>5, <5>1
        <5>3. str'[p].got = [str[p].got EXCEPT ![u] = y]
          BY <1>1, <5>2 DEF StrT
        <5>4. str'[p].got[q] = IF q = u THEN y ELSE str[p].got[q]
          BY <4>3, <5>3
        <5> QED BY <1>2, <2>3, <4>1, <5>1, <5>4
      <4> QED BY <4>2, <4>4, <4>5
    <3> QED BY <1>2, <2>1, <2>3, <3>2, <3>3, <3>4
  <2> QED BY <2>2, <2>3
<1>10. CASE ~Restart(p) /\ queue'[r].stream = queue[r].stream /\ str'[r].got = str[r].got
  BY <1>2, <1>7, <1>10
<1> QED BY <1>6, <1>8, <1>9, <1>10, StreamEffects

\* Every step keeps the streams' invariant, while no peer is forgotten.
LEMMA StreamInvariantStep ==
  ASSUME NothingForgotten
  PROVE  IInv /\ SInv /\ [Next]_vars => SInv'
<1> SUFFICES ASSUME IInv, SInv, [Next]_vars PROVE SInv'
  OBVIOUS
<1>1. CASE UNCHANGED vars
  <2>1. UNCHANGED <<epoch, next, net, queue, keys, ctl, peers, str, ka>>
    BY <1>1 DEF vars
  <2> QED BY <2>1 DEF SInv, OwnKeys, StreamKeyed, NoGoodbye, KeysRemembered, StreamsOK, InOrder, Level
<1>2. CASE Next
  <2>1. PICK p \in Node : StepOf(p)
    BY <1>2 DEF Next, StepOf
  <2>2. OwnKeys'
    BY <2>1, OwnKeySteps DEF SInv
  <2>3. \A m \in net' : m \in net \/ Proper(m)
    BY <2>1, NetSteps DEF SInv
  <2>4. StreamKeyed'
    BY <2>3 DEF SInv, StreamKeyed, Proper
  <2>5. NoGoodbye'
    <3>1. \A m \in net' : m.kind # "goodbye"
      BY <2>3 DEF SInv, NoGoodbye, Proper
    <3>2. \A r \in Node : \A i \in DOMAIN queue'[r].control : queue'[r].control[i].kind # "goodbye"
      BY <2>1, ControlQueueSteps DEF SInv
    <3> QED BY <3>1, <3>2 DEF NoGoodbye
  <2>6. KeysRemembered'
    BY <2>1, RememberedSteps DEF SInv
  <2>7. StreamsOK'
    BY <2>1, StreamsSteps
  <2> QED BY <2>2, <2>4, <2>5, <2>6, <2>7 DEF SInv
<1> QED BY <1>1, <1>2

\* Nothing has been delivered at the start.
LEMMA StreamInvariantInit == Init => SInv
<1> SUFFICES ASSUME Init PROVE SInv
  OBVIOUS
<1>1. \A p \in Node : /\ queue[p] = FreshQueue /\ keys[p] = FreshKeys /\ ctl[p] = FreshCtl
                      /\ str[p] = FreshStr
  BY DEF Init
<1>2. \A q \in Node : /\ FreshKeys.send[q] = None /\ FreshKeys.recv[q] = None
                      /\ FreshStr.got[q] = <<>>
  BY DEF FreshKeys, FreshStr, Nobody
<1>3. FreshQueue.control = <<>> /\ FreshQueue.stream = <<>> /\ net = {}
  BY DEF FreshQueue, Init
<1>4. OwnKeys /\ StreamKeyed /\ NoGoodbye /\ KeysRemembered
  BY <1>1, <1>2, <1>3 DEF OwnKeys, StreamKeyed, NoGoodbye, KeysRemembered
<1>5. StreamsOK
  BY <1>1, <1>2, <1>3 DEF StreamsOK, InOrder
<1> QED BY <1>4, <1>5 DEF SInv

\* While nobody says goodbye and the registry has room for every endpoint, a Stream
\* never delivers a message of an older session of its peer after one of a newer:
\* a packet opens only under the one key the transport holds of its sender, that
\* key is only replaced by one of a newer session, and the route keeps the order
\* packets opened in.
THEOREM StreamsInOrder ==
  ASSUME NothingForgotten
  PROVE  Spec => []StreamSessionsInOrder
<1>1. Init => SInv
  BY StreamInvariantInit
<1>2. IInv /\ SInv /\ [Next]_vars => SInv'
  BY StreamInvariantStep
<1>3. SInv => StreamSessionsInOrder
  BY DEF SInv, StreamsOK, InOrder, StreamSessionsInOrder
<1> QED BY <1>1, <1>2, <1>3, SessionInvariant, PTL DEF Spec

-----------------------------------------------------------------------------
(* One suite per conversation.                                             *)

\* Nobody sends a HELLO or a HELLO_ACK of its own making, and of two endpoints that
\* greet each other it does not matter whose list decides.  The second part says
\* nothing when one of any two only answers.
OneChoice ==
  /\ Announcers = {}
  /\ \A p, q \in Node : <<p, q>> \in Initiators /\ <<q, p>> \in Initiators =>
       SelectCipher(Prefs[p], Prefs[q]) = SelectCipher(Prefs[q], Prefs[p])

\* The suite of the conversation of p and q: an initiator's list decides.
Suite(p, q) ==
  IF <<p, q>> \in Initiators THEN SelectCipher(Prefs[p], Prefs[q])
  ELSE IF <<q, p>> \in Initiators THEN SelectCipher(Prefs[q], Prefs[p])
  ELSE Baseline

\* A HELLO offers its initiator's list, and a HELLO_ACK its conversation's suite.
Suited(m) ==
  /\ m.kind = "hello" => <<m.from, m.to>> \in Initiators /\ m.offer = Prefs[m.from]
  /\ m.kind = "ack" => m.offer = <<Suite(m.from, m.to)>>

SuitedNet == \A m \in net : Suited(m)

SuitedQueue ==
  \A p \in Node : \A i \in DOMAIN queue[p].control :
    queue[p].control[i].to = p /\ Suited(queue[p].control[i])

SuitedTask == \A p \in Node : ctl[p].pc # "recv" => ctl[p].cipher = Suite(p, ctl[p].msg.from)

SuitedRecv == \A p, q \in Node : keys[p].recv[q] # None => keys[p].recv[q].cipher = Suite(p, q)

SuitedSend == \A p, q \in Node : keys[p].send[q] # None => keys[p].send[q].cipher = Suite(p, q)

\* Whatever names a suite, on its way or in use, names the conversation's.
SuitesInv == OwnKeys /\ SuitedNet /\ SuitedQueue /\ SuitedTask /\ SuitedRecv /\ SuitedSend

\* Both ends have the same suite in mind.
LEMMA SuiteSymmetric ==
  ASSUME OneChoice, NEW p \in Node, NEW q \in Node
  PROVE  Suite(p, q) = Suite(q, p) /\ Suite(p, q) \in Cipher
<1>1. Prefs[p] \in Seq(Cipher) /\ Prefs[q] \in Seq(Cipher)
  BY PrefsAssumption
<1>2. SelectCipher(Prefs[p], Prefs[q]) \in Cipher /\ SelectCipher(Prefs[q], Prefs[p]) \in Cipher
  BY <1>1, SelectCipherType
<1>3. <<p, q>> \in Initiators /\ <<q, p>> \in Initiators =>
        SelectCipher(Prefs[p], Prefs[q]) = SelectCipher(Prefs[q], Prefs[p])
  BY DEF OneChoice
<1> QED BY <1>2, <1>3, BaselineAssumption DEF Suite

\* Hence the suite committed to for a handshake packet is the conversation's.
LEMMA CommittedSuite ==
  ASSUME OneChoice, NEW p \in Node, NEW m \in Packet, m.kind \in {"hello", "ack"}, m.to = p, Suited(m)
  PROVE  Committed(p, m) = Suite(p, m.from)
<1>1. PICK q : q = m.from
  OBVIOUS
<1>2. q \in Node
  BY <1>1 DEF Packet
<1>3. Suite(p, q) = Suite(q, p) /\ Suite(p, q) \in Cipher
  BY <1>2, SuiteSymmetric
<1>4. CASE m.kind = "hello"
  <2>1. <<q, p>> \in Initiators /\ m.offer = Prefs[q]
    BY <1>1, <1>4 DEF Suited
  <2>2. Committed(p, m) = SelectCipher(Prefs[q], Prefs[p])
    BY <1>4, <2>1 DEF Committed
  <2>3. Suite(q, p) = SelectCipher(Prefs[q], Prefs[p])
    BY <2>1 DEF Suite
  <2> QED BY <1>1, <1>3, <2>2, <2>3
<1>5. CASE m.kind = "ack"
  <2>1. m.offer = <<Suite(q, p)>>
    BY <1>1, <1>5 DEF Suited
  <2>2. PICK x : x = Suite(q, p)
    OBVIOUS
  <2>3. <<x>> # <<>> /\ Head(<<x>>) = x
    OBVIOUS
  <2>4. Committed(p, m) = x
    BY <1>5, <2>1, <2>2, <2>3 DEF Committed
  <2> QED BY <1>1, <1>3, <2>2, <2>4
<1> QED BY <1>4, <1>5

\* A send puts a suited packet on the network if it is given one.
LEMMA SuitedPacket ==
  ASSUME NEW p, NEW q, NEW kind, NEW key, NEW offer, Send(p, q, kind, key, offer),
         kind = "hello" => <<p, q>> \in Initiators /\ offer = Prefs[p],
         kind = "ack" => offer = <<Suite(p, q)>>
  PROVE  \A m \in net' : m \in net \/ Suited(m)
<1>1. PICK m : m = [from |-> p, to |-> q, kind |-> kind, key |-> key,
                    seq |-> next[p], epoch |-> epoch[p], offer |-> offer]
  OBVIOUS
<1>2. net' = net \cup {m}
  BY <1>1 DEF Send
<1>3. m.kind = kind /\ m.from = p /\ m.to = q /\ m.offer = offer
  BY <1>1
<1>4. Suited(m)
  BY <1>3 DEF Suited
<1> QED BY <1>2, <1>4

\* Whatever an endpoint does, only suited packets enter the network.
LEMMA SuitedNetSteps ==
  ASSUME OneChoice, SuitedTask, SuitedNet, NEW p \in Node, StepOf(p)
  PROVE  SuitedNet'
<1> SUFFICES \A m \in net' : m \in net \/ Suited(m)
  BY DEF SuitedNet, Suited, Suite
<1>1. CASE net' \subseteq net
  BY <1>1
<1>2. CASE \E q \in Node : ConnectPeer(p, q)
  <2>1. PICK q \in Node : Send(p, q, "hello", Base, Prefs[p]) /\ <<p, q>> \in Initiators
    BY <1>2 DEF ConnectPeer
  <2> QED BY <2>1, SuitedPacket
<1>3. CASE \E q \in Node : SendNotice(p, q) \/ SendStream(p, q) \/ SendGoodbye(p, q)
  <2>1. PICK q \in Node, kind \in {"keepalive", "stream", "goodbye"} :
          Send(p, q, kind, SendKey(p, q), <<>>)
    <3>1. /\ "keepalive" \in {"keepalive", "stream", "goodbye"}
          /\ "stream" \in {"keepalive", "stream", "goodbye"}
          /\ "goodbye" \in {"keepalive", "stream", "goodbye"}
      OBVIOUS
    <3> QED BY <1>3, <3>1 DEF SendNotice, SendStream, SendGoodbye
  <2> QED BY <2>1, SuitedPacket
<1>4. CASE InsertPeer(p)
  <2>1. net' = net \/ Send(p, ctl[p].msg.from, "ack", Base, <<ctl[p].cipher>>)
    BY <1>4 DEF InsertPeer
  <2>2. ctl[p].cipher = Suite(p, ctl[p].msg.from)
    BY <1>4 DEF SuitedTask, InsertPeer
  <2> QED BY <1>1, <2>1, <2>2, SuitedPacket
<1>5. CASE \E q \in ka[p].todo : KaSend(p, q)
  <2>1. PICK q \in ka[p].todo : net' = net \/ Send(p, q, "keepalive", SendKey(p, q), <<>>)
    BY <1>5 DEF KaSend
  <2> QED BY <1>1, <2>1, SuitedPacket
<1>6. CASE ControlStep(p) /\ ~InsertPeer(p)
  BY <1>1, <1>6
  DEF ControlStep, DropHello, AcceptHello, RegisterPeerKey, RegisterSendKey, DropControl, Keepalive, Goodbye
<1>7. CASE KeepaliveStep(p) /\ ~(\E q \in ka[p].todo : KaSend(p, q))
  BY <1>1, <1>7 DEF KeepaliveStep, KaTick, KaSnapshot, KaRetain, KaDone, KaForget
<1>8. CASE \/ (\E q \in Node : GoesSilent(p, q)) \/ (\E m \in net : RecvPacket(p, m))
           \/ StreamRecv(p) \/ StreamRebase(p) \/ Restart(p)
  BY <1>1, <1>8 DEF GoesSilent, RecvPacket, StreamRecv, StreamRebase, Restart
<1>9. ~(\E q \in Node : SendHello(p, q) \/ SendHelloAck(p, q))
  BY DEF SendHello, SendHelloAck, OneChoice
<1> QED BY <1>2, <1>3, <1>4, <1>5, <1>6, <1>7, <1>8, <1>9 DEF StepOf

\* What the control queue gets came from the network, addressed to its endpoint.
LEMMA SuitedQueueSteps ==
  ASSUME IInv, SuitedNet, SuitedQueue, NEW p \in Node, StepOf(p)
  PROVE  SuitedQueue'
<1> SUFFICES ASSUME NEW r \in Node
             PROVE  \A i \in DOMAIN queue'[r].control :
                      queue'[r].control[i].to = r /\ Suited(queue'[r].control[i])
  BY DEF SuitedQueue, Suited, Suite
<1>1. TypeOK /\ queue \in [Node -> QueueT] /\ queue[r].control \in Seq(Packet)
  BY Types, NodeTypes DEF IInv, QueueT
<1>2. \A i \in DOMAIN queue[r].control : queue[r].control[i].to = r /\ Suited(queue[r].control[i])
  BY DEF SuitedQueue
<1>3. CASE queue'[r].control = queue[r].control
  BY <1>2, <1>3
<1>4. CASE \E m \in net : RecvPacket(p, m)
  <2>1. PICK m \in net : RecvPacket(p, m)
    BY <1>4
  <2>2. m \in Packet /\ m.to = p /\ Suited(m)
    BY <1>1, <2>1 DEF TypeOK, RecvPacket, SuitedNet
  <2>3. CASE r = p /\ m.kind # "stream"
    <3>1. queue' = [queue EXCEPT ![p]["control"] = Append(queue[p]["control"], m)]
      BY <2>1, <2>3 DEF RecvPacket
    <3>2. PICK t : t = queue[r].control
      OBVIOUS
    <3>3. queue'[r].control = Append(t, m) /\ t \in Seq(Packet)
      BY <1>1, <2>3, <3>1, <3>2 DEF QueueT
    <3>4. \A i \in DOMAIN Append(t, m) : Append(t, m)[i] = m \/ (i \in DOMAIN t /\ Append(t, m)[i] = t[i])
      BY <2>2, <3>3
    <3> QED BY <1>2, <2>2, <2>3, <3>2, <3>3, <3>4
  <2>4. CASE r # p \/ m.kind = "stream"
    <3>1. queue'[r].control = queue[r].control
      BY <1>1, <2>1, <2>4 DEF RecvPacket, QueueT
    <3> QED BY <1>3, <3>1
  <2> QED BY <2>3, <2>4
<1>5. CASE Arrived(p)
  <2>1. CASE r = p
    <3>1. PICK t : t = queue[p].control
      OBVIOUS
    <3>2. queue'[p].control = Tail(t) /\ t \in Seq(Packet) /\ t # <<>>
      BY <1>1, <1>5, <2>1, <3>1, ArrivedType DEF Arrived
    <3>3. \A i \in DOMAIN Tail(t) : i + 1 \in DOMAIN t /\ Tail(t)[i] = t[i + 1]
      BY <3>2
    <3> QED BY <1>2, <2>1, <3>1, <3>2, <3>3
  <2>2. CASE r # p
    <3>1. queue'[r] = queue[r]
      BY <1>1, <1>5, <2>2, ArrivedType
    <3> QED BY <1>3, <3>1
  <2> QED BY <2>1, <2>2
<1>6. CASE Restart(p)
  <2>1. queue' = [queue EXCEPT ![p] = FreshQueue] /\ FreshQueue.control = <<>>
    BY <1>6 DEF Restart, FreshQueue
  <2>2. queue'[r].control = <<>> \/ queue'[r].control = queue[r].control
    BY <1>1, <2>1
  <2> QED BY <1>3, <2>2
<1>7. CASE StreamRecv(p)
  <2>1. queue'[r].control = queue[r].control
    BY <1>1, <1>7, StreamType
  <2> QED BY <1>3, <2>1
<1>8. CASE queue' = queue
  BY <1>3, <1>8
<1> QED BY <1>4, <1>5, <1>6, <1>7, <1>8, QueueEffects

\* Only the acceptance of a handshake packet gives the control task something to
\* register.
LEMMA TaskSteps ==
  ASSUME IInv, NEW p \in Node, StepOf(p), NEW r \in Node, ctl'[r].pc # "recv"
  PROVE  \/ ctl[r].pc # "recv" /\ ctl'[r].msg = ctl[r].msg /\ ctl'[r].cipher = ctl[r].cipher
         \/ r = p /\ AcceptHello(p)
<1>1. TypeOK /\ ctl \in [Node -> CtlT] /\ NodeOK(ctl[p], keys[p].recv, peers[p])
  BY Types DEF IInv
<1>2. CASE ctl'[r] = ctl[r]
  BY <1>2
<1>3. CASE AcceptHello(p)
  <2>1. r # p => ctl'[r] = ctl[r]
    BY <1>3, AcceptHelloFacts
  <2> QED BY <1>2, <1>3, <2>1
<1>4. CASE DropHello(p) \/ DropControl(p) \/ Keepalive(p) \/ Goodbye(p)
  BY <1>1, <1>2, <1>4, IdleSteps
<1>5. CASE RegisterPeerKey(p) \/ RegisterSendKey(p)
  <2>1. PICK x : ctl' = [ctl EXCEPT ![p].pc = x] /\ ctl[p].pc # "recv"
    BY <1>5 DEF RegisterPeerKey, RegisterSendKey
  <2>2. ctl'[r].msg = ctl[r].msg /\ ctl'[r].cipher = ctl[r].cipher
    BY <1>1, <2>1 DEF CtlT
  <2>3. r # p => ctl'[r] = ctl[r]
    BY <1>1, <2>1
  <2> QED BY <1>2, <2>1, <2>2, <2>3
<1>6. CASE InsertPeer(p)
  <2>1. ctl' = [ctl EXCEPT ![p].pc = "recv", ![p].msg = None, ![p].cipher = None]
    BY <1>6 DEF InsertPeer
  <2>2. ctl'[p].pc = "recv" /\ \A u \in Node : u # p => ctl'[u] = ctl[u]
    BY <1>1, <2>1 DEF CtlT
  <2> QED BY <1>2, <2>2
<1>7. CASE Restart(p)
  <2>1. ctl' = [ctl EXCEPT ![p] = FreshCtl] /\ FreshCtl.pc = "recv"
    BY <1>7 DEF Restart, FreshCtl
  <2> QED BY <1>1, <1>2, <2>1
<1> QED BY <1>2, <1>3, <1>4, <1>5, <1>6, <1>7, CtlEffects DEF ControlStep

\* What is accepted is suited.
LEMMA AcceptSuite ==
  ASSUME OneChoice, IInv, SuitedQueue, NEW p \in Node, AcceptHello(p),
         NEW m, m = Head(queue[p].control)
  PROVE  Committed(p, m) = Suite(p, m.from)
<1>1. TypeOK /\ m \in Packet /\ Arrived(p)
  BY AcceptHelloFacts
<1>2. PICK t : t = queue[p].control
  OBVIOUS
<1>3. t \in Seq(Packet) /\ t # <<>>
  BY <1>1, <1>2, NodeTypes DEF QueueT, Arrived
<1>4. 1 \in DOMAIN t /\ Head(t) = t[1]
  BY <1>3
<1>5. m.to = p /\ Suited(m)
  BY <1>2, <1>4 DEF SuitedQueue
<1>6. m.kind \in {"hello", "ack"}
  BY DEF AcceptHello
<1> QED BY <1>1, <1>5, <1>6, CommittedSuite

\* So what the control task registers is suited,
LEMMA SuitedTaskSteps ==
  ASSUME OneChoice, IInv, SuitedQueue, SuitedTask, NEW p \in Node, StepOf(p)
  PROVE  SuitedTask'
<1> SUFFICES ASSUME NEW r \in Node, ctl'[r].pc # "recv"
             PROVE  ctl'[r].cipher = Suite(r, ctl'[r].msg.from)
  BY DEF SuitedTask, Suite
<1>1. CASE ctl[r].pc # "recv" /\ ctl'[r].msg = ctl[r].msg /\ ctl'[r].cipher = ctl[r].cipher
  BY <1>1 DEF SuitedTask
<1>2. CASE r = p /\ AcceptHello(p)
  <2>1. PICK m : m = Head(queue[p].control)
    OBVIOUS
  <2>2. ctl'[p].msg = m /\ ctl'[p].cipher = Committed(p, m)
    BY <1>2, <2>1, AcceptHelloFacts
  <2>3. Committed(p, m) = Suite(p, m.from)
    BY <1>2, <2>1, AcceptSuite
  <2> QED BY <1>2, <2>2, <2>3
<1> QED BY <1>1, <1>2, TaskSteps

\* and so are the receive keys.
LEMMA SuitedRecvSteps ==
  ASSUME IInv, SuitedTask, SuitedRecv, NEW p \in Node, StepOf(p)
  PROVE  SuitedRecv'
<1> SUFFICES ASSUME NEW r \in Node, NEW q \in Node, keys'[r].recv[q] # None
             PROVE  keys'[r].recv[q].cipher = Suite(r, q)
  BY DEF SuitedRecv, Suite
<1>1. CASE keys'[r].recv[q] \in {keys[r].recv[q], None}
  BY <1>1 DEF SuitedRecv
<1>2. CASE r = p /\ RegisterPeerKey(p)
  <2>1. PICK u : u = ctl[p].msg.from
    OBVIOUS
  <2>2. /\ keys'[p].recv[u].cipher = ctl[p].cipher /\ ctl[p].pc \in {"met", "known"}
        /\ \A v \in Node : v # u => keys'[p].recv[v] = keys[p].recv[v]
    BY <1>2, <2>1, PeerKeyFacts
  <2>3. ctl[p].cipher = Suite(p, u)
    BY <2>1, <2>2 DEF SuitedTask
  <2>4. CASE q = u
    BY <1>2, <2>2, <2>3, <2>4
  <2>5. CASE q # u
    BY <1>1, <1>2, <2>2, <2>5
  <2> QED BY <2>4, <2>5
<1>3. CASE r = p /\ Restart(p)
  <2>1. keys'[p] = FreshKeys
    BY <1>3, Types DEF IInv, Restart
  <2>2. FreshKeys.recv[q] = None
    BY DEF FreshKeys, Nobody
  <2> QED BY <1>3, <2>1, <2>2
<1> QED BY <1>1, <1>2, <1>3, RecvKeySteps

\* The send keys stay suited.
LEMMA SuitedSendSteps ==
  ASSUME IInv, SuitedTask, SuitedSend, NEW p \in Node, StepOf(p)
  PROVE  SuitedSend'
<1> SUFFICES ASSUME NEW r \in Node, NEW q \in Node, keys'[r].send[q] # None
             PROVE  keys'[r].send[q].cipher = Suite(r, q)
  BY DEF SuitedSend, Suite
<1>1. CASE keys'[r].send[q] \in {keys[r].send[q], None}
  BY <1>1 DEF SuitedSend
<1>2. CASE /\ r = p /\ RegisterSendKey(p) /\ q = ctl[p].msg.from
           /\ keys'[r].send[q] = [epoch |-> epoch[p], cipher |-> ctl[p].cipher]
  <2>1. ctl[p].pc # "recv"
    BY <1>2 DEF RegisterSendKey
  <2>2. ctl[p].cipher = Suite(p, q)
    BY <1>2, <2>1 DEF SuitedTask
  <2> QED BY <1>2, <2>2
<1> QED BY <1>1, <1>2, SendKeySteps

\* Nothing names a suite at the start.
LEMMA SuitesInit == Init => SuitesInv
<1> SUFFICES ASSUME Init PROVE SuitesInv
  OBVIOUS
<1>1. \A p \in Node : queue[p] = FreshQueue /\ keys[p] = FreshKeys /\ ctl[p] = FreshCtl
  BY DEF Init
<1>2. \A q \in Node : FreshKeys.send[q] = None /\ FreshKeys.recv[q] = None
  BY DEF FreshKeys, Nobody
<1>3. FreshQueue.control = <<>> /\ FreshCtl.pc = "recv" /\ net = {}
  BY DEF FreshQueue, FreshCtl, Init
<1>4. OwnKeys /\ SuitedRecv /\ SuitedSend
  BY <1>1, <1>2 DEF OwnKeys, SuitedRecv, SuitedSend
<1>5. SuitedNet /\ SuitedQueue /\ SuitedTask
  BY <1>1, <1>3 DEF SuitedNet, SuitedQueue, SuitedTask
<1> QED BY <1>4, <1>5 DEF SuitesInv

\* Every step keeps the suites as they are.
LEMMA SuitesStep ==
  ASSUME OneChoice
  PROVE  IInv /\ SuitesInv /\ [Next]_vars => SuitesInv'
<1> SUFFICES ASSUME IInv, SuitesInv, [Next]_vars PROVE SuitesInv'
  OBVIOUS
<1>1. CASE UNCHANGED vars
  <2>1. UNCHANGED <<epoch, next, net, queue, keys, ctl, peers, str, ka>>
    BY <1>1 DEF vars
  <2>2. OwnKeys' /\ SuitedRecv' /\ SuitedSend'
    BY <2>1 DEF SuitesInv, OwnKeys, SuitedRecv, SuitedSend, Suite
  <2>3. SuitedNet' /\ SuitedQueue' /\ SuitedTask'
    BY <2>1 DEF SuitesInv, SuitedNet, SuitedQueue, SuitedTask, Suited, Suite
  <2> QED BY <2>2, <2>3 DEF SuitesInv
<1>2. CASE Next
  <2>1. PICK p \in Node : StepOf(p)
    BY <1>2 DEF Next, StepOf
  <2>2. OwnKeys /\ SuitedNet /\ SuitedQueue /\ SuitedTask /\ SuitedRecv /\ SuitedSend
    BY DEF SuitesInv
  <2>3. OwnKeys' /\ SuitedSend'
    BY <2>1, <2>2, OwnKeySteps, SuitedSendSteps
  <2>4. SuitedNet' /\ SuitedQueue'
    BY <2>1, <2>2, SuitedNetSteps, SuitedQueueSteps
  <2>5. SuitedTask' /\ SuitedRecv'
    BY <2>1, <2>2, SuitedTaskSteps, SuitedRecvSteps
  <2> QED BY <2>3, <2>4, <2>5 DEF SuitesInv
<1> QED BY <1>1, <1>2

\* While it does not matter which of two greeting endpoints' lists decides - only
\* one of any two greets, or their lists select the same suite either way - an
\* endpoint opens what a peer whose present session it knows sends under a
\* negotiated key: "both endpoints of a conversation must share one suite".  It
\* holds through restarts, GOODBYEs, evictions and pruning, however packets are
\* lost, repeated and reordered.
THEOREM SuitesAlike ==
  ASSUME OneChoice
  PROVE  Spec => []SuitesAgree
<1>1. Init => SuitesInv
  BY SuitesInit
<1>2. IInv /\ SuitesInv /\ [Next]_vars => SuitesInv'
  BY SuitesStep
<1>3. IInv /\ SuitesInv => SuitesAgree
  <2> SUFFICES ASSUME IInv, SuitesInv, NEW p \in Node, NEW q \in Node,
                      keys[p].send[q] # None, keys[q].recv[p] # None, keys[q].recv[p].epoch = epoch[p]
               PROVE  keys[p].send[q] = keys[q].recv[p]
    BY DEF SuitesAgree
  <2>1. PICK s, v : s = keys[p].send[q] /\ v = keys[q].recv[p]
    OBVIOUS
  <2>2. s \in DataKey /\ v \in DataKey
    BY <2>1, NodeTypes DEF IInv, KeysT, Opt
  <2>3. s.epoch = epoch[p] /\ v.epoch = epoch[p]
    BY <2>1 DEF SuitesInv, OwnKeys
  <2>4. s.cipher = Suite(p, q) /\ v.cipher = Suite(q, p)
    BY <2>1 DEF SuitesInv, SuitedSend, SuitedRecv
  <2>5. s.cipher = v.cipher
    BY <2>4, SuiteSymmetric
  <2>6. s = [epoch |-> s.epoch, cipher |-> s.cipher] /\ v = [epoch |-> v.epoch, cipher |-> v.cipher]
    BY <2>2 DEF DataKey
  <2> QED BY <2>1, <2>3, <2>5, <2>6
<1> QED BY <1>1, <1>2, <1>3, SessionInvariant, PTL DEF Spec
=============================================================================
