----------------------------- MODULE RookProofs -----------------------------
(***************************************************************************)
(* The Rook session for every PSK, window set, fragment count and sequence *)
(* space.                                                                  *)
(*                                                                         *)
(* The handshake: as long as the keys differ nobody is up, and what lies in*)
(* a connection was written with the key of its writer (Strangers).        *)
(*                                                                         *)
(* Datagrams: sequence numbers wrap, so the receiver's comparison says     *)
(* something about the order of sending only because what is under way is  *)
(* less than half of the sequence space old (Aged, Ordered); what the      *)
(* application has already been given or overtaken is then refused for     *)
(* ever (Obsolete).                                                        *)
(*                                                                         *)
(* The keepalive: with nothing left to read, a side has not heard the other*)
(* for at most as long as the other has not spoken (Hears), which a poll   *)
(* keeps within PING_IDLE (Speaks); between reading and its keepalive at   *)
(* most one second passes, unless both wait for room for ever (Replies).   *)
(***************************************************************************)
EXTENDS Rook, SetLemmas, SequenceTheorems

SeqNo == 0 .. SeqSpace - 1

\* A set of fragments that is not complete: the count is the number of parts.
PartSet == {x \in [idx : SUBSET (1 .. Parts), n : 0 .. Parts - 1] : x.n = Cardinality(x.idx)}

FragSets == UNION {[F -> PartSet] : F \in SUBSET SeqNo}

End ==
  [st : {"start", "hello", "confirm", "up", "closed", "vanished", "wedged"}, alive : BOOLEAN,
   bound : BOOLEAN, peer : {"advertised", "translated"}, seq : SeqNo, mid : SeqNo,
   last : [Window -> 0 .. SeqSpace], frags : FragSets, rx : 0 .. DeadAfter + 1,
   tx : 0 .. PingIdle + 1, ping : 0 .. PingIdle + 1, pc : {"run", "keepalive"},
   polled : BOOLEAN]

Hello == [type : {"hello"}, from : Side, seq : SeqNo]
Data == [type : {"data"}, from : Side, seq : SeqNo, win : Window, msg : Nat]
Frag == [type : {"frag"}, from : Side, seq : SeqNo, mid : SeqNo, idx : 1 .. Parts, msg : Nat]
Datagram == Hello \cup Data \cup Frag

HandshakeRecord == [kind : {"hello1", "hello2", "confirm3"}, psk : {1, 2}]
SessionRecord == [kind : {"msg", "ping", "pong"}]
AnyRecord == HandshakeRecord \cup SessionRecord

\* What the application is given; a large message with all of its parts.
Delivery ==
  [type : {"data"}, msg : Nat, win : Window] \cup [type : {"frag"}, msg : Nat, idx : {1 .. Parts}]

Typed ==
  /\ psk \in [Side -> {1, 2}] /\ nat \in BOOLEAN /\ limit \in Limits
  /\ sent \in [tcp : Nat, udp : Nat]
  /\ conn \in [Side -> End]
  /\ out \in [Side -> Seq(SessionRecord)] /\ pipe \in [Side -> Seq(AnyRecord)]
  /\ net \in SUBSET (Datagram \X Nat)
  /\ got \in [Side -> Seq(Delivery)]

\* The connection never holds more than it has room for.
PipesBounded ==
  /\ conn["client"].st = "start" => pipe["client"] = <<>>
  /\ \A s \in Side : Len(pipe[s]) <= TcpCap

\* Sides with different keys stay in the handshake, and every record is proof of
\* its writer's key only.
Strangers ==
  psk["client"] # psk["host"] =>
    \A s \in Side : /\ conn[s].st # "up"
                    /\ \A i \in 1 .. Len(pipe[s]) : pipe[s][i].psk = psk[s]

Opening == {"start", "hello", "confirm"}

IsData(p) == p[1].type = "data"

\* Sequence number a was used after b, less than half of the space later.
Gap(a, b) == (a - b) % SeqSpace
After(a, b) == Gap(a, b) \in 1 .. (SeqSpace \div 2) - 1

\* Before the session nothing was sent or delivered.
Unspoken ==
  \A s \in Side :
    conn[s].st \in Opening =>
      /\ got[s] = <<>>
      /\ \A p \in net : p[1].from = s => ~IsData(p)

\* Messages are numbered by the history in the order of sending.
Numbered ==
  /\ \A p \in net : IsData(p) => p[1].msg <= sent.udp
  /\ \A s \in Side : \A i \in 1 .. Len(got[s]) : got[s][i].type = "data" => got[s][i].msg <= sent.udp

\* What is under way is less than half of the sequence space old.
Aged ==
  \A p \in net : IsData(p) /\ conn[p[1].from].st = "up" => After(conn[p[1].from].seq, p[1].seq)

\* The sequence numbers of two datagrams under way show which was sent first.
Ordered ==
  \A p, q \in net :
    IsData(p) /\ IsData(q) /\ p[1].from = q[1].from =>
      /\ p[1].msg < q[1].msg => After(q[1].seq, p[1].seq)
      /\ p[1].msg = q[1].msg => p[1].seq = q[1].seq

\* A datagram that was delivered or overtaken is not newer than the window's last.
Obsolete ==
  \A s \in Side :
    conn[s].st = "up" =>
      \A i \in 1 .. Len(got[s]) :
        got[s][i].type = "data" =>
          /\ conn[s].last[got[s][i].win] # SeqSpace
          /\ \A p \in net :
               /\ IsData(p) /\ p[1].from = Other(s) /\ p[1].win = got[s][i].win
               /\ p[1].msg <= got[s][i].msg
               => ~Newer(p[1].seq, conn[s].last[p[1].win])

\* LatestWins with the positions as numbers.
Rising ==
  \A s \in Side : \A i, j \in 1 .. Len(got[s]) :
    i < j /\ got[s][i].type = "data" /\ got[s][j].type = "data" /\ got[s][i].win = got[s][j].win
      => got[s][i].msg < got[s][j].msg

DatagramsOK == Unspoken /\ Numbered /\ Aged /\ Ordered /\ Obsolete /\ Rising

IInv == Typed /\ PipesBounded /\ Strangers /\ DatagramsOK

-----------------------------------------------------------------------------
(* Arithmetic of sequence numbers.                                         *)

\* Half of the sequence space has room for a message with all of its parts.
LEMMA Spaces ==
  /\ SeqSpace \in Nat /\ SeqSpace \div 2 \in Nat /\ SeqSpace = 2 * (SeqSpace \div 2)
  /\ Parts \in Nat /\ 1 < Parts /\ Parts < SeqSpace \div 2
  /\ PingIdle \in Nat /\ DeadAfter \in Nat /\ TcpCap \in Nat /\ TcpCap > 0
BY RookAssumption

\* Reduction modulo the space, by the cases that occur.
LEMMA Modulo ==
  ASSUME NEW x \in Int
  PROVE  /\ x % SeqSpace \in SeqNo
         /\ x \in SeqNo => x % SeqSpace = x
         /\ x \in (0 - SeqSpace) .. (-1) => x % SeqSpace = x + SeqSpace
         /\ x \in SeqSpace .. (2 * SeqSpace - 1) => x % SeqSpace = x - SeqSpace
<1>1. SeqSpace \in Nat \ {0}
  BY Spaces
<1> QED BY <1>1 DEF SeqNo

\* The distance between two sequence numbers.
LEMMA Distance ==
  ASSUME NEW a \in SeqNo, NEW b \in SeqNo
  PROVE  Gap(a, b) = IF a >= b THEN a - b ELSE a - b + SeqSpace
<1>1. SeqSpace \in Nat /\ a \in 0 .. SeqSpace - 1 /\ b \in 0 .. SeqSpace - 1
  BY Spaces DEF SeqNo
<1>2. PICK x \in Int : x = a - b
  BY <1>1
<1>3. IF a >= b THEN x \in SeqNo ELSE x \in (0 - SeqSpace) .. (-1)
  BY <1>1, <1>2 DEF SeqNo
<1> QED BY <1>2, <1>3, Modulo DEF Gap

\* The sequence number k later.
Later(a, k) == (a + k) % SeqSpace

\* Where it lies: past the end of the space the numbers start over.
LEMMA Advance ==
  ASSUME NEW a \in SeqNo, NEW k \in 0 .. Parts + 1
  PROVE  /\ Later(a, k) = IF a + k < SeqSpace THEN a + k ELSE a + k - SeqSpace
         /\ Later(a, k) \in SeqNo
<1>1. SeqSpace \in Nat /\ a \in 0 .. SeqSpace - 1 /\ k \in 0 .. SeqSpace
  <2>1. PICK h \in Nat : SeqSpace = 2 * h /\ Parts \in Nat /\ Parts < h
    BY Spaces
  <2>2. k \in 0 .. 2 * h
    BY <2>1
  <2> QED BY <2>1, <2>2 DEF SeqNo
<1>2. PICK x \in Int : x = a + k
  BY <1>1
<1>3. IF x < SeqSpace THEN x \in SeqNo ELSE x \in SeqSpace .. (2 * SeqSpace - 1)
  BY <1>1, <1>2 DEF SeqNo
<1>4. x % SeqSpace \in SeqNo /\ x % SeqSpace = IF x < SeqSpace THEN x ELSE x - SeqSpace
  BY <1>3, Modulo
<1>5. Later(a, k) = x % SeqSpace
  BY <1>2 DEF Later
<1> QED BY <1>1, <1>2, <1>4, <1>5

\* A number used after another one is newer, and the other one is not.
LEMMA AfterNotNewer ==
  ASSUME NEW a \in SeqNo, NEW b \in SeqNo, After(a, b)
  PROVE  ~Newer(b, a)
<1>1. PICK h \in Nat : h = SeqSpace \div 2 /\ SeqSpace = 2 * h
  BY Spaces
<1>2. a \in 0 .. 2 * h - 1 /\ b \in 0 .. 2 * h - 1
  BY <1>1 DEF SeqNo
<1>3. Gap(a, b) = (IF a >= b THEN a - b ELSE a - b + 2 * h)
  BY <1>1, Distance
<1>4. Gap(b, a) = (IF b >= a THEN b - a ELSE b - a + 2 * h)
  BY <1>1, Distance
<1>5. Gap(a, b) \in 1 .. h - 1
  BY <1>1 DEF After
<1>6. ~(Gap(b, a) < h)
  BY <1>2, <1>3, <1>4, <1>5
<1>7. ~(Gap(b, a) < SeqSpace \div 2)
  BY <1>1, <1>6
<1> QED BY <1>7 DEF Newer, Gap

\* No number is newer than itself.
LEMMA NotNewerSame ==
  ASSUME NEW a PROVE ~Newer(a, a)
BY DEF Newer

\* A number is after every number used before, until half of the space has passed.
LEMMA AfterAdvance ==
  ASSUME NEW a \in SeqNo, NEW b \in SeqNo, After(a, b), NEW k \in 1 .. Parts + 1,
         ~(Gap(Later(a, k), b) >= SeqSpace \div 2)
  PROVE  After(Later(a, k), b)
<1>1. PICK h \in Nat : h = SeqSpace \div 2 /\ SeqSpace = 2 * h /\ Parts \in Nat /\ Parts < h
  BY Spaces
<1>2. a \in 0 .. 2 * h - 1 /\ b \in 0 .. 2 * h - 1 /\ k \in 1 .. h /\ k \in 0 .. Parts + 1
  BY <1>1 DEF SeqNo
<1>3. PICK c \in SeqNo : c = Later(a, k) /\ c = (IF a + k < 2 * h THEN a + k ELSE a + k - 2 * h)
  BY <1>1, <1>2, Advance
<1>4. c \in 0 .. 2 * h - 1
  BY <1>1 DEF SeqNo
<1>5. Gap(a, b) = (IF a >= b THEN a - b ELSE a - b + 2 * h)
  BY <1>1, Distance
<1>6. Gap(c, b) = (IF c >= b THEN c - b ELSE c - b + 2 * h)
  BY <1>1, Distance
<1>7. Gap(a, b) \in 1 .. h - 1
  BY <1>1 DEF After
<1>8. ~(Gap(c, b) >= h)
  BY <1>1, <1>3
<1>9. Gap(c, b) \in 1 .. h - 1
  BY <1>2, <1>3, <1>4, <1>5, <1>6, <1>7, <1>8
<1> QED BY <1>1, <1>3, <1>9 DEF After

\* The number a message takes is behind the one after it.
LEMMA AfterNext ==
  ASSUME NEW a \in SeqNo
  PROVE  After(Later(a, 1), a)
<1>1. PICK h \in Nat : h = SeqSpace \div 2 /\ SeqSpace = 2 * h /\ Parts \in Nat /\ 1 < Parts /\ Parts < h
  BY Spaces
<1>2. a \in 0 .. 2 * h - 1 /\ 1 \in 0 .. Parts + 1
  BY <1>1 DEF SeqNo
<1>3. PICK c \in SeqNo : c = Later(a, 1) /\ c = (IF a + 1 < 2 * h THEN a + 1 ELSE a + 1 - 2 * h)
  BY <1>1, <1>2, Advance
<1>4. Gap(c, a) = (IF c >= a THEN c - a ELSE c - a + 2 * h)
  BY <1>1, Distance
<1>5. Gap(c, a) \in 1 .. h - 1
  BY <1>1, <1>2, <1>3, <1>4
<1> QED BY <1>1, <1>3, <1>5 DEF After

-----------------------------------------------------------------------------
(* Ends.                                                                   *)

\* No fragments: the empty map.
LEMMA NoFrags == <<>> \in FragSets
<1>1. <<>> \in [{} -> PartSet]
  OBVIOUS
<1> QED BY <1>1 DEF FragSets

\* A new end, and one that is over, is well formed.
LEMMA NewConnType ==
  ASSUME Typed, NEW s \in Side, NEW st \in {"start", "hello", "confirm", "up", "closed", "vanished", "wedged"}
  PROVE  /\ NewConn(s) \in End /\ NewConn(s).st = "up" /\ NewConn(s).seq = limit.seq
         /\ NewConn(s).last = [w \in Window |-> SeqSpace]
         /\ Ended(s, st) \in End /\ Ended(s, st).st = st
<1>1. limit.seq \in SeqNo
  BY RookAssumption DEF Typed, SeqNo
<1>2. 1 \in SeqNo /\ 0 \in 0 .. DeadAfter + 1 /\ 0 \in 0 .. PingIdle + 1 /\ SeqSpace \in 0 .. SeqSpace
  BY Spaces DEF SeqNo
<1>3. [w \in Window |-> SeqSpace] \in [Window -> 0 .. SeqSpace]
  BY <1>2
<1>4. NewConn(s) \in End
  BY <1>1, <1>2, <1>3, NoFrags DEF NewConn, End
<1>5. Ended(s, st) \in End /\ Ended(s, st).st = st
  BY <1>4 DEF Ended, End
<1> QED BY <1>4, <1>5 DEF NewConn

\* Operators on an end keep it well formed.
LEMMA PartStep ==
  ASSUME NEW c \in End, NEW mid \in SeqNo, NEW i \in 1 .. Parts
  PROVE  LET have == WithPart(Have(c, mid), i) IN
         /\ have.n = Parts => have.idx = 1 .. Parts
         /\ have.n # Parts => have \in PartSet
<1>1. c.frags \in FragSets /\ Parts \in Nat /\ 0 < Parts
  BY Spaces DEF End
<1>2. PICK F \in SUBSET SeqNo : c.frags \in [F -> PartSet]
  BY <1>1 DEF FragSets
<1>3. PICK have : have = Have(c, mid)
  OBVIOUS
<1>4. have \in PartSet
  <2>1. {} \in SUBSET (1 .. Parts) /\ Cardinality({}) = 0 /\ 0 \in 0 .. Parts - 1
    BY <1>1, FS_EmptySet
  <2>2. [idx |-> {}, n |-> 0] \in PartSet
    BY <2>1 DEF PartSet
  <2> QED BY <1>2, <1>3, <2>2 DEF Have
<1>5. have.idx \in SUBSET (1 .. Parts) /\ have.n \in 0 .. Parts - 1 /\ have.n = Cardinality(have.idx)
      /\ have = [idx |-> have.idx, n |-> have.n]
  BY <1>4 DEF PartSet
<1>6. IsFiniteSet(1 .. Parts) /\ Cardinality(1 .. Parts) = Parts
  BY <1>1, FS_Interval
<1>7. IsFiniteSet(have.idx)
  BY <1>5, <1>6, FS_Subset
<1>8. CASE i \in have.idx
  BY <1>3, <1>4, <1>5, <1>8, <1>1 DEF WithPart
<1>9. CASE i \notin have.idx
  <2>1. PICK S : S = have.idx \cup {i}
    OBVIOUS
  <2>2. S \in SUBSET (1 .. Parts) /\ IsFiniteSet(S) /\ Cardinality(S) = have.n + 1
    BY <1>5, <1>7, <1>9, <2>1, FS_AddElement
  <2>3. Cardinality(S) <= Parts /\ (Cardinality(S) = Parts => S = 1 .. Parts)
    BY <2>2, <1>6, FS_Subset
  <2>4. WithPart(have, i) = [idx |-> S, n |-> have.n + 1]
    BY <1>9, <2>1 DEF WithPart
  <2>5. have.n + 1 # Parts => have.n + 1 \in 0 .. Parts - 1
    BY <1>5, <1>1
  <2> QED BY <1>3, <2>2, <2>3, <2>4, <2>5 DEF PartSet
<1> QED BY <1>8, <1>9

\* on_frag forgets complete and overtaken sets only.
LEMMA OnFragType ==
  ASSUME NEW c \in End, NEW d \in Frag
  PROVE  /\ OnFrag(c, d) \in End
         /\ \E fr \in FragSets : OnFrag(c, d) = [c EXCEPT !.frags = fr]
<1>1. PICK have : have = WithPart(Have(c, d.mid), d.idx)
  OBVIOUS
<1>2. d.mid \in SeqNo /\ d.idx \in 1 .. Parts
  BY DEF Frag
<1>3. have.n # Parts => have \in PartSet
  BY <1>1, <1>2, PartStep
<1>4. PICK F \in SUBSET SeqNo : c.frags \in [F -> PartSet]
  BY DEF FragSets, End
<1>5. PICK G : G = IF have.n = Parts THEN Kept(c, d.mid) \ {d.mid} ELSE Kept(c, d.mid) \cup {d.mid}
  OBVIOUS
<1>6. PICK fr : fr = [f \in G |-> IF f = d.mid THEN have ELSE c.frags[f]]
  OBVIOUS
<1>7. Kept(c, d.mid) \in SUBSET F
  BY <1>4 DEF Kept
<1>8. G \in SUBSET SeqNo /\ fr \in [G -> PartSet]
  <2>1. G \in SUBSET SeqNo
    BY <1>2, <1>5, <1>7
  <2>2. ASSUME NEW f \in G PROVE fr[f] \in PartSet
    <3>1. CASE f = d.mid
      <4>1. have.n # Parts
        BY <1>5, <3>1
      <4> QED BY <4>1, <1>3, <1>6, <3>1
    <3>2. CASE f # d.mid
      <4>1. f \in F
        BY <1>5, <1>7, <3>2
      <4> QED BY <4>1, <1>4, <1>6, <3>2
    <3> QED BY <3>1, <3>2
  <2> QED BY <2>1, <2>2, <1>6
<1>9. fr \in FragSets
  BY <1>8 DEF FragSets
<1>10. OnFrag(c, d) = [c EXCEPT !.frags = fr]
  BY <1>1, <1>5, <1>6 DEF OnFrag
<1> QED BY <1>9, <1>10 DEF End

\* A datagram leaves the state of the session and the sender's counters alone, and
\* moves the window's mark only to itself, when it is fresh.
LEMMA OnDatagramType ==
  ASSUME NEW c \in End, NEW d \in Datagram, nat \in BOOLEAN
  PROVE  /\ OnDatagram(c, d) \in End
         /\ OnDatagram(c, d).st = c.st /\ OnDatagram(c, d).seq = c.seq
         /\ OnDatagram(c, d).last =
              IF d.type = "data" /\ Fresh(c, d) THEN [c.last EXCEPT ![d.win] = d.seq] ELSE c.last
<1>1. PICK h : h = Heard(c, Address(d.from))
  OBVIOUS
<1>2. h \in End /\ h.st = c.st /\ h.seq = c.seq /\ h.last = c.last /\ h.frags = c.frags
  <2>1. 0 \in 0 .. DeadAfter + 1
    BY Spaces
  <2>2. Address(d.from) \in {"advertised", "translated"}
    BY DEF Address
  <2>3. PICK a \in {"advertised", "translated"} : a = Address(d.from)
    BY <2>2
  <2> QED BY <1>1, <2>1, <2>3 DEF Heard, End
<1>3. CASE d.type = "hello"
  BY <1>1, <1>2, <1>3 DEF OnDatagram
<1>4. CASE d.type = "data"
  <2>1. d.win \in Window /\ d.seq \in 0 .. SeqSpace
    BY <1>4, Spaces DEF Datagram, Hello, Data, Frag, SeqNo
  <2>2. Fresh(h, d) <=> Fresh(c, d)
    BY <1>2 DEF Fresh
  <2>3. OnDatagram(c, d) = IF Fresh(c, d) THEN [h EXCEPT !.last[d.win] = d.seq] ELSE h
    BY <1>1, <1>4, <2>2 DEF OnDatagram
  <2>4. PICK l : l = [h.last EXCEPT ![d.win] = d.seq]
    OBVIOUS
  <2>5. l \in [Window -> 0 .. SeqSpace]
    BY <1>2, <2>1, <2>4 DEF End
  <2>6. [h EXCEPT !.last[d.win] = d.seq] = [h EXCEPT !.last = l]
    BY <2>4
  <2>7. [h EXCEPT !.last = l] \in End
    BY <1>2, <2>5 DEF End
  <2>8. /\ [h EXCEPT !.last = l].st = c.st /\ [h EXCEPT !.last = l].seq = c.seq
        /\ [h EXCEPT !.last = l].last = l
    BY <1>2 DEF End
  <2> QED BY <1>2, <1>4, <2>3, <2>4, <2>6, <2>7, <2>8
<1>5. CASE d.type = "frag"
  <2>1. d \in Frag
    BY <1>5 DEF Datagram, Hello, Data, Frag
  <2>2. PICK fr \in FragSets : OnFrag(h, d) = [h EXCEPT !.frags = fr]
    BY <1>2, <2>1, OnFragType
  <2>3. OnDatagram(c, d) = [h EXCEPT !.frags = fr]
    BY <1>1, <1>5, <2>2 DEF OnDatagram
  <2> QED BY <1>2, <1>5, <2>3 DEF End
<1> QED BY <1>3, <1>4, <1>5 DEF Datagram, Hello, Data, Frag

\* Only whole messages are delivered, and DATA only when it is fresh.
LEMMA DeliveredType ==
  ASSUME NEW c \in End, NEW d \in Datagram
  PROVE  /\ Delivered(c, d) = <<>> \/ \E e \in Delivery : Delivered(c, d) = <<e>> /\ e.type = d.type
                                                          /\ e.msg = d.msg /\ d.type # "hello"
         /\ d.type = "data" =>
              Delivered(c, d) = IF Fresh(c, d) THEN <<[type |-> "data", msg |-> d.msg, win |-> d.win]>>
                                ELSE <<>>
<1>1. CASE d.type = "hello"
  BY <1>1 DEF Delivered
<1>2. CASE d.type = "data"
  <2>1. d \in Data
    BY <1>2 DEF Datagram, Hello, Data, Frag
  <2>2. [type |-> "data", msg |-> d.msg, win |-> d.win] \in Delivery
    BY <2>1 DEF Data, Delivery
  <2>3. Delivered(c, d) = IF Fresh(c, d) THEN <<[type |-> "data", msg |-> d.msg, win |-> d.win]>>
                          ELSE <<>>
    BY <1>2 DEF Delivered
  <2> QED BY <1>2, <2>2, <2>3
<1>3. CASE d.type = "frag"
  <2>1. d \in Frag
    BY <1>3 DEF Datagram, Hello, Data, Frag
  <2>2. PICK have : have = WithPart(Have(c, d.mid), d.idx)
    OBVIOUS
  <2>3. have.n = Parts => have.idx = 1 .. Parts
    BY <2>1, <2>2, PartStep DEF Frag
  <2>4. Delivered(c, d) = IF have.n = Parts THEN <<[type |-> "frag", msg |-> d.msg, idx |-> have.idx]>>
                          ELSE <<>>
    BY <1>3, <2>2 DEF Delivered
  <2>5. have.n = Parts => [type |-> "frag", msg |-> d.msg, idx |-> have.idx] \in Delivery
    BY <2>1, <2>3 DEF Frag, Delivery
  <2> QED BY <1>3, <2>4, <2>5
<1> QED BY <1>1, <1>2, <1>3 DEF Datagram, Hello, Data, Frag

\* The last part of poll changes neither the session's state nor its sequence numbers.
LEMMA ServicedType ==
  ASSUME NEW c \in End
  PROVE  /\ Serviced(c).c \in End /\ Serviced(c).out \in Seq(SessionRecord)
         /\ Serviced(c).c.st = c.st /\ Serviced(c).c.seq = c.seq /\ Serviced(c).c.last = c.last
<1>1. Framed("ping") \in SessionRecord /\ <<>> \in Seq(SessionRecord)
  BY DEF Framed, SessionRecord
<1>2. <<Framed("ping")>> \in Seq(SessionRecord)
  BY <1>1
<1>3. 0 \in 0 .. PingIdle + 1
  BY Spaces
<1>4. PICK k : k = Keepalive(c)
  OBVIOUS
<1>5. /\ k = [c |-> k.c, out |-> k.out] /\ k.c \in End /\ k.out \in Seq(SessionRecord)
      /\ k.c.st = c.st /\ k.c.seq = c.seq /\ k.c.last = c.last
  BY <1>1, <1>2, <1>3, <1>4 DEF Keepalive, End
<1>6. PICK e : e = [k.c EXCEPT !.pc = "run", !.polled = TRUE]
  OBVIOUS
<1>7. e \in End /\ e.st = c.st /\ e.seq = c.seq /\ e.last = c.last
  BY <1>5, <1>6 DEF End
<1>8. Serviced(c) = [c |-> e, out |-> k.out]
  <2>1. PICK kc, ko : kc \in End /\ kc = k.c /\ ko = k.out
    BY <1>5
  <2>2. Serviced(c) = [[c |-> kc, out |-> ko] EXCEPT !.c.pc = "run", !.c.polled = TRUE]
    BY <1>4, <1>5, <2>1 DEF Serviced
  <2>3. e = [kc EXCEPT !.pc = "run", !.polled = TRUE]
    BY <1>6, <2>1
  <2> QED BY <2>1, <2>2, <2>3 DEF End
<1> QED BY <1>5, <1>7, <1>8

\* The answers to the PINGs read are session records.
LEMMA OnCtrlType ==
  ASSUME NEW ms \in Seq(AnyRecord)
  PROVE  OnCtrl(ms) \in Seq(SessionRecord)
<1>1. PICK P : P = {i \in DOMAIN ms : ms[i].kind = "ping"}
  OBVIOUS
<1>2. Len(ms) \in Nat /\ DOMAIN ms = 1 .. Len(ms)
  OBVIOUS
<1>3. IsFiniteSet(P)
  <2>1. IsFiniteSet(1 .. Len(ms))
    BY <1>2, FS_Interval
  <2> QED BY <1>1, <1>2, <2>1, FS_Subset
<1>4. PICK n \in Nat : n = Cardinality(P)
  BY <1>3, FS_CardinalityType
<1>5. Framed("pong") \in SessionRecord
  BY DEF Framed, SessionRecord
<1>6. [i \in 1 .. n |-> Framed("pong")] \in Seq(SessionRecord)
  BY <1>5
<1> QED BY <1>1, <1>4, <1>6 DEF OnCtrl

-----------------------------------------------------------------------------
(* Steps that leave the datagrams alone.                                   *)

\* No end comes up or changes its sequence numbers, and nothing is sent or
\* delivered in datagrams.
Quiet ==
  /\ net' = net /\ got' = got /\ sent'.udp = sent.udp
  /\ \A s \in Side :
       /\ conn'[s].st \in Opening => conn[s].st \in Opening
       /\ conn'[s].st = "up" => /\ conn[s].st = "up" /\ conn'[s].seq = conn[s].seq
                                /\ conn'[s].last = conn[s].last

\* Such a step keeps everything the proof says about datagrams.
LEMMA QuietStep ==
  ASSUME Typed, DatagramsOK, Quiet
  PROVE  DatagramsOK'
<1>1. Unspoken' /\ Numbered' /\ Ordered' /\ Rising'
  BY DEF DatagramsOK, Quiet, Unspoken, Numbered, Ordered, Rising, IsData
<1>2. Aged'
  <2>1. \A p \in net : IsData(p) => p[1].from \in Side
    BY DEF Typed, Datagram, Hello, Data, Frag
  <2> QED BY <2>1 DEF DatagramsOK, Quiet, Aged, IsData
<1>3. Obsolete'
  BY DEF DatagramsOK, Quiet, Obsolete, IsData
<1> QED BY <1>1, <1>2, <1>3 DEF DatagramsOK

\* One end changes, to one that is no further.
LEMMA OneEnd ==
  ASSUME Typed, NEW s \in Side, NEW e \in End, conn' = [conn EXCEPT ![s] = e],
         net' = net, got' = got, sent'.udp = sent.udp,
         e.st \in Opening => conn[s].st \in Opening,
         e.st = "up" => conn[s].st = "up" /\ e.seq = conn[s].seq /\ e.last = conn[s].last
  PROVE  Quiet /\ conn' \in [Side -> End] /\ conn'[s] = e
         /\ \A t \in Side : t # s => conn'[t] = conn[t]
<1>1. conn' \in [Side -> End] /\ conn'[s] = e /\ \A t \in Side : t # s => conn'[t] = conn[t]
  BY DEF Typed
<1> QED BY <1>1 DEF Quiet

\* When no end is up, ends with different keys stay apart.
LEMMA Apart ==
  ASSUME Strangers, NEW s \in Side, conn[s].st = "up"
  PROVE  psk["client"] = psk["host"]
BY DEF Strangers

\* A handshake record proves the key of its writer.
LEMMA RecordType ==
  ASSUME Typed, NEW s \in Side, NEW kind \in {"hello1", "hello2", "confirm3"}
  PROVE  Record(kind, s) \in HandshakeRecord /\ Record(kind, s).psk = psk[s]
BY DEF Typed, Record, HandshakeRecord

\* The client's first handshake record promises nothing yet.
LEMMA ClientConnectStep ==
  ASSUME Typed, PipesBounded, Strangers, ClientConnect
  PROVE  Typed' /\ Quiet /\ PipesBounded' /\ Strangers'
<1> USE DEF ClientConnect
<1>1. PICK e : e = [conn["client"] EXCEPT !.st = "hello"]
  OBVIOUS
<1>2. "client" \in Side /\ e \in End /\ e.st = "hello" /\ conn' = [conn EXCEPT !["client"] = e]
  BY <1>1, ZenonT(60) DEF Typed, End, Side
<1>3. Quiet /\ conn' \in [Side -> End] /\ conn'["client"] = e
      /\ \A t \in Side : t # "client" => conn'[t] = conn[t]
  BY <1>2, OneEnd DEF Opening
<1>4. PICK r \in HandshakeRecord : r = Record("hello1", "client") /\ r.psk = psk["client"]
  BY <1>2, RecordType
<1>5. pipe["client"] = <<>>
  BY DEF PipesBounded
<1>6. pipe' = [pipe EXCEPT !["client"] = <<r>>]
  BY <1>4, <1>5 DEF Typed
<1>7. pipe' \in [Side -> Seq(AnyRecord)]
  BY <1>2, <1>4, <1>6 DEF Typed, AnyRecord
<1>8. pipe'["client"] = <<r>> /\ \A t \in Side : t # "client" => pipe'[t] = pipe[t]
  BY <1>2, <1>6 DEF Typed
<1>9. Typed'
  BY <1>3, <1>7 DEF Typed
<1>10. PipesBounded'
  BY <1>2, <1>3, <1>8, Spaces DEF PipesBounded
<1>11. Strangers'
  <2>1. ASSUME psk["client"] # psk["host"], NEW t \in Side
        PROVE  conn'[t].st # "up" /\ \A i \in 1 .. Len(pipe'[t]) : pipe'[t][i].psk = psk[t]
    <3>1. CASE t = "client"
      BY <3>1, <1>2, <1>3, <1>4, <1>8
    <3>2. CASE t # "client"
      BY <3>2, <2>1, <1>3, <1>8 DEF Strangers
    <3> QED BY <3>1, <3>2
  <2> QED BY <2>1 DEF Strangers
<1> QED BY <1>3, <1>9, <1>10, <1>11

\* Nor does the host's answer: it waits for the confirmation.
LEMMA HostRespondStep ==
  ASSUME Typed, PipesBounded, Strangers, HostRespond
  PROVE  Typed' /\ Quiet /\ PipesBounded' /\ Strangers'
<1> USE DEF HostRespond
<1>1. PICK e : e = [conn["host"] EXCEPT !.st = "confirm"]
  OBVIOUS
<1>2. "host" \in Side /\ "client" \in Side /\ e \in End /\ e.st = "confirm"
      /\ conn' = [conn EXCEPT !["host"] = e]
  BY <1>1, ZenonT(60) DEF Typed, End, Side
<1>3. Quiet /\ conn' \in [Side -> End] /\ conn'["host"] = e
      /\ \A t \in Side : t # "host" => conn'[t] = conn[t]
  BY <1>2, OneEnd DEF Opening
<1>4. PICK r \in HandshakeRecord : r = Record("hello2", "host") /\ r.psk = psk["host"]
  BY <1>2, RecordType
<1>5. PICK w \in Seq(AnyRecord) : w = pipe["client"]
  BY <1>2 DEF Typed
<1>6. pipe' = [pipe EXCEPT !["client"] = Tail(w), !["host"] = <<r>>] /\ w # <<>>
  BY <1>4, <1>5
<1>7. pipe'["client"] = Tail(w) /\ pipe'["host"] = <<r>>
  BY <1>2, <1>6 DEF Typed
<1>8. pipe' \in [Side -> Seq(AnyRecord)]
  <2>1. r \in AnyRecord
    BY DEF AnyRecord
  <2>2. Tail(w) \in Seq(AnyRecord) /\ <<r>> \in Seq(AnyRecord)
    BY <1>5, <1>6, <2>1
  <2> QED BY <1>2, <1>6, <2>2 DEF Typed
<1>9. Typed'
  BY <1>3, <1>8 DEF Typed
<1>10. PipesBounded'
  <2>1. Len(Tail(w)) <= TcpCap
    BY <1>2, <1>5, <1>6, Spaces DEF PipesBounded
  <2>2. conn'["client"].st # "start"
    BY <1>2, <1>3, <1>5, <1>6 DEF PipesBounded
  <2>3. Len(<<r>>) <= TcpCap
    BY Spaces
  <2> QED BY <2>1, <2>2, <2>3, <1>7 DEF PipesBounded, Side
<1>11. Strangers'
  <2>1. ASSUME psk["client"] # psk["host"], NEW t \in Side
        PROVE  conn'[t].st # "up" /\ \A i \in 1 .. Len(pipe'[t]) : pipe'[t][i].psk = psk[t]
    <3>1. CASE t = "client"
      <4>1. \A i \in 1 .. Len(w) : w[i].psk = psk["client"]
        BY <1>2, <1>5, <2>1 DEF Strangers
      <4>2. conn'["client"].st # "up"
        BY <1>2, <1>3, <2>1 DEF Strangers
      <4>3. \A i \in 1 .. Len(Tail(w)) : Tail(w)[i].psk = psk["client"]
        <5>1. Len(w) \in Nat /\ Len(Tail(w)) = Len(w) - 1
          BY <1>5, <1>6
        <5>2. ASSUME NEW i \in 1 .. Len(Tail(w)) PROVE i + 1 \in 1 .. Len(w) /\ Tail(w)[i] = w[i + 1]
          BY <1>5, <1>6, <5>1
        <5> QED BY <5>2, <4>1
      <4> QED BY <3>1, <4>2, <4>3, <1>7
    <3>2. CASE t = "host"
      <4>1. Len(<<r>>) = 1 /\ <<r>>[1] = r
        OBVIOUS
      <4>2. \A i \in 1 .. Len(<<r>>) : <<r>>[i].psk = psk["host"]
        BY <4>1, <1>4
      <4>3. conn'["host"].st # "up"
        BY <1>2, <1>3
      <4> QED BY <3>2, <4>2, <4>3, <1>7
    <3> QED BY <3>1, <3>2 DEF Side
  <2> QED BY <2>1 DEF Strangers
<1> QED BY <1>3, <1>9, <1>10, <1>11

\* A step that reads from a connection or leaves it alone, and brings no end up,
\* keeps what the proof says about connections.
LEMMA PipesShrink ==
  ASSUME Typed, PipesBounded, Strangers, psk' = psk, NEW s \in Side,
         conn' \in [Side -> End], conn'[s].st \notin {"start", "up"},
         \A t \in Side : t # s => conn'[t] = conn[t],
         \/ pipe' = pipe
         \/ /\ pipe[Other(s)] # <<>> /\ pipe' = [pipe EXCEPT ![Other(s)] = Tail(@)]
  PROVE  PipesBounded' /\ Strangers' /\ pipe' \in [Side -> Seq(AnyRecord)]
<1>1. Other(s) \in Side /\ Other(s) # s /\ "client" \in Side
  BY DEF Other, Side
<1>2. CASE pipe' = pipe
  <2>1. PipesBounded' /\ Strangers'
    BY <1>1, <1>2 DEF PipesBounded, Strangers
  <2> QED BY <1>2, <2>1 DEF Typed
<1>3. CASE pipe[Other(s)] # <<>> /\ pipe' = [pipe EXCEPT ![Other(s)] = Tail(@)]
  <2>1. PICK w \in Seq(AnyRecord) : w = pipe[Other(s)]
    BY <1>1 DEF Typed
  <2>2. /\ Tail(w) \in Seq(AnyRecord) /\ Len(Tail(w)) = Len(w) - 1 /\ Len(w) \in Nat
        /\ \A i \in 1 .. Len(Tail(w)) : Tail(w)[i] = w[i + 1]
    BY <1>3, <2>1
  <2>3. pipe' = [pipe EXCEPT ![Other(s)] = Tail(w)]
    BY <1>3, <2>1
  <2>4. pipe' \in [Side -> Seq(AnyRecord)] /\ pipe'[Other(s)] = Tail(w) /\ pipe'[s] = pipe[s]
    BY <1>1, <2>2, <2>3 DEF Typed
  <2>5. \A t \in Side : t = s \/ t = Other(s)
    BY DEF Side, Other
  <2>6. PipesBounded'
    <3>1. \A t \in Side : Len(pipe'[t]) <= TcpCap
      BY <1>1, <2>1, <2>2, <2>4, <2>5, Spaces DEF PipesBounded
    <3>2. conn'["client"].st = "start" => pipe'["client"] = <<>>
      <4>1. SUFFICES ASSUME conn'["client"].st = "start" PROVE pipe'["client"] = <<>>
        OBVIOUS
      <4>2. s # "client" /\ Other(s) = "client"
        BY <4>1, <2>5, <1>1
      <4>3. pipe["client"] = <<>>
        BY <4>1, <4>2, <1>1 DEF PipesBounded
      <4> QED BY <4>2, <4>3, <1>3
    <3> QED BY <3>1, <3>2 DEF PipesBounded
  <2>7. Strangers'
    <3>1. ASSUME psk["client"] # psk["host"], NEW t \in Side
          PROVE  conn'[t].st # "up" /\ \A i \in 1 .. Len(pipe'[t]) : pipe'[t][i].psk = psk[t]
      <4>1. conn'[t].st # "up"
        BY <3>1, <1>1 DEF Strangers
      <4>2. CASE t = s
        BY <3>1, <4>1, <4>2, <2>4 DEF Strangers
      <4>3. CASE t = Other(s)
        <5>1. \A i \in 1 .. Len(w) : w[i].psk = psk[t]
          BY <3>1, <2>1, <4>3 DEF Strangers
        <5>2. \A i \in 1 .. Len(Tail(w)) : i + 1 \in 1 .. Len(w)
          BY <2>2
        <5> QED BY <4>1, <4>3, <5>1, <5>2, <2>2, <2>4
      <4> QED BY <4>2, <4>3, <2>5
    <3> QED BY <3>1 DEF Strangers
  <2> QED BY <2>4, <2>6, <2>7
<1> QED BY <1>2, <1>3

\* The end of the handshake, or of the session, at one end.
LEMMA EndsStep ==
  ASSUME Typed, PipesBounded, Strangers, NEW s \in Side, NEW how \in {"closed", "vanished", "wedged"},
         conn' = [conn EXCEPT ![s] = Ended(s, how)],
         out' \in [Side -> Seq(SessionRecord)],
         UNCHANGED <<psk, nat, net, sent, got, limit>>,
         \/ pipe' = pipe
         \/ pipe[Other(s)] # <<>> /\ pipe' = [pipe EXCEPT ![Other(s)] = Tail(@)]
  PROVE  Typed' /\ Quiet /\ PipesBounded' /\ Strangers'
<1>1. PICK e \in End : e = Ended(s, how) /\ e.st = how
  BY NewConnType
<1>2. Quiet /\ conn' \in [Side -> End] /\ conn'[s] = e
      /\ \A t \in Side : t # s => conn'[t] = conn[t]
  <2>1. conn' = [conn EXCEPT ![s] = e]
    BY <1>1
  <2>2. e.st \notin Opening /\ e.st # "up"
    BY <1>1 DEF Opening
  <2> QED BY <2>1, <2>2, OneEnd
<1>3. PipesBounded' /\ Strangers' /\ pipe' \in [Side -> Seq(AnyRecord)]
  <2>1. conn'[s].st \notin {"start", "up"}
    BY <1>1, <1>2
  <2> QED BY <1>2, <2>1, PipesShrink
<1>4. Typed'
  BY <1>2, <1>3 DEF Typed
<1> QED BY <1>2, <1>3, <1>4

\* The client comes up only with a proof of its own key.
LEMMA RecvHello2Step ==
  ASSUME IInv, RecvHello2
  PROVE  IInv'
<1>0. Typed /\ PipesBounded /\ Strangers /\ DatagramsOK
  BY DEF IInv
<1>1. "client" \in Side /\ "host" \in Side /\ Other("client") = "host" /\ Side = {"client", "host"}
  BY DEF Side, Other
<1>2. conn["client"].st = "hello" /\ pipe["host"] # <<>>
      /\ UNCHANGED <<psk, nat, out, sent, got, limit>>
  BY DEF RecvHello2
<1>3. CASE ~Proves("client", Head(pipe["host"]))
  <2>1. /\ pipe' = [pipe EXCEPT !["host"] = Tail(@)]
        /\ conn' = [conn EXCEPT !["client"] = Ended("client", "closed")] /\ UNCHANGED net
    BY <1>3 DEF RecvHello2
  <2>2. out' \in [Side -> Seq(SessionRecord)]
    BY <1>0, <1>2 DEF Typed
  <2>3. Typed' /\ Quiet /\ PipesBounded' /\ Strangers'
    BY <1>0, <1>1, <1>2, <2>1, <2>2, EndsStep
  <2> QED BY <1>0, <2>3, QuietStep DEF IInv
<1>4. CASE Proves("client", Head(pipe["host"]))
  <2>1. PICK c \in End : c = NewConn("client") /\ c.st = "up" /\ c.seq = limit.seq
    BY <1>0, <1>1, NewConnType
  <2>2. PICK q \in SeqNo : q = (c.seq + 1) % SeqSpace
    <3>1. c.seq \in SeqNo
      BY DEF End
    <3>2. 1 \in 0 .. Parts + 1
      BY Spaces
    <3> QED BY <3>1, <3>2, Advance DEF Later
  <2>3. PICK e : e = [c EXCEPT !.seq = q]
    OBVIOUS
  <2>4. e \in End /\ e.st = "up"
    BY <2>1, <2>3 DEF End
  <2>5. PICK d \in Hello : d = [type |-> "hello", from |-> "client", seq |-> c.seq]
    BY <1>1 DEF Hello, End
  <2>6. PICK r \in HandshakeRecord : r = Record("confirm3", "client")
    BY <1>0, <1>1, RecordType
  <2>7. PICK w \in Seq(AnyRecord) : w = pipe["host"]
    BY <1>0, <1>1 DEF Typed
  <2>8. /\ pipe' = [pipe EXCEPT !["client"] = <<r>>, !["host"] = Tail(w)]
        /\ conn' = [conn EXCEPT !["client"] = e]
        /\ net' = {<<d, limit.copies>>}
    BY <1>4, <2>1, <2>2, <2>3, <2>5, <2>6, <2>7 DEF RecvHello2
  <2>9. limit.copies \in Nat
    BY <1>0, RookAssumption DEF Typed
  <2>10. net' \in SUBSET (Datagram \X Nat)
    BY <2>8, <2>9 DEF Datagram
  <2>11. conn' \in [Side -> End] /\ conn'["client"] = e /\ conn'["host"] = conn["host"]
    BY <1>0, <1>1, <2>4, <2>8 DEF Typed
  <2>12. r \in AnyRecord /\ <<r>> \in Seq(AnyRecord) /\ Len(<<r>>) = 1
    BY DEF AnyRecord
  <2>13. Tail(w) \in Seq(AnyRecord) /\ Len(Tail(w)) = Len(w) - 1 /\ Len(w) \in Nat /\ w # <<>>
    BY <1>2, <2>7
  <2>14. pipe' \in [Side -> Seq(AnyRecord)] /\ pipe'["client"] = <<r>> /\ pipe'["host"] = Tail(w)
    BY <1>0, <1>1, <2>8, <2>12, <2>13 DEF Typed
  <2>15. Typed'
    BY <1>0, <1>2, <2>10, <2>11, <2>14 DEF Typed
  <2>16. PipesBounded'
    <3>1. Len(w) <= TcpCap
      BY <1>0, <1>1, <2>7 DEF PipesBounded
    <3>2. Len(Tail(w)) <= TcpCap /\ Len(<<r>>) <= TcpCap
      BY <3>1, <2>12, <2>13, Spaces
    <3> QED BY <1>1, <2>4, <2>11, <2>14, <3>2 DEF PipesBounded
  <2>17. psk["client"] = psk["host"]
    <3>1. SUFFICES ASSUME psk["client"] # psk["host"] PROVE FALSE
      OBVIOUS
    <3>2. w[1].psk = psk["host"]
      <4>1. 1 \in 1 .. Len(w)
        BY <2>13
      <4> QED BY <1>0, <1>1, <2>7, <3>1, <4>1 DEF Strangers
    <3>3. Head(w).psk = psk["client"]
      BY <1>4, <2>7 DEF Proves
    <3> QED BY <3>1, <3>2, <3>3, <2>13
  <2>18. Strangers'
    BY <1>2, <2>17 DEF Strangers
  <2>19. \A p \in net' : ~IsData(p)
    BY <2>8 DEF IsData, Hello
  <2>20. got["client"] = <<>>
    BY <1>0, <1>1, <1>2 DEF DatagramsOK, Unspoken, Opening
  <2>21. Unspoken'
    <3>1. ASSUME NEW s \in Side, conn'[s].st \in Opening PROVE got[s] = <<>>
      BY <3>1, <1>0, <1>1, <2>4, <2>11 DEF DatagramsOK, Unspoken, Opening
    <3> QED BY <3>1, <2>19, <1>2 DEF Unspoken, IsData
  <2>22. Numbered' /\ Aged' /\ Ordered' /\ Rising'
    BY <1>0, <1>2, <2>19 DEF DatagramsOK, Numbered, Aged, Ordered, Rising, IsData
  <2>23. Obsolete'
    <3>1. ASSUME NEW s \in Side, conn'[s].st = "up", NEW i \in 1 .. Len(got[s]), got[s][i].type = "data"
          PROVE  conn'[s].last[got[s][i].win] # SeqSpace
      <4>1. s = "host"
        BY <1>1, <2>20
      <4> QED BY <1>0, <3>1, <4>1, <2>11 DEF DatagramsOK, Obsolete
    <3> QED BY <3>1, <2>19, <1>2 DEF Obsolete, IsData
  <2> QED BY <2>15, <2>16, <2>18, <2>21, <2>22, <2>23 DEF IInv, DatagramsOK
<1> QED BY <1>3, <1>4

\* And so does the host.
LEMMA RecvConfirm3Step ==
  ASSUME IInv, RecvConfirm3
  PROVE  IInv'
<1>0. Typed /\ PipesBounded /\ Strangers /\ DatagramsOK
  BY DEF IInv
<1>1. "client" \in Side /\ "host" \in Side /\ Other("host") = "client" /\ Side = {"client", "host"}
  BY DEF Side, Other
<1>2. conn["host"].st = "confirm" /\ pipe["client"] # <<>>
      /\ UNCHANGED <<psk, nat, out, net, sent, got, limit>>
      /\ pipe' = [pipe EXCEPT !["client"] = Tail(@)]
  BY DEF RecvConfirm3
<1>3. CASE ~Proves("host", Head(pipe["client"]))
  <2>1. conn' = [conn EXCEPT !["host"] = Ended("host", "closed")]
    BY <1>3 DEF RecvConfirm3
  <2>2. out' \in [Side -> Seq(SessionRecord)]
    BY <1>0, <1>2 DEF Typed
  <2>3. Typed' /\ Quiet /\ PipesBounded' /\ Strangers'
    BY <1>0, <1>1, <1>2, <2>1, <2>2, EndsStep
  <2> QED BY <1>0, <2>3, QuietStep DEF IInv
<1>4. CASE Proves("host", Head(pipe["client"]))
  <2>1. PICK e \in End : e = NewConn("host") /\ e.st = "up"
    BY <1>0, <1>1, NewConnType
  <2>2. PICK w \in Seq(AnyRecord) : w = pipe["client"]
    BY <1>0, <1>1 DEF Typed
  <2>3. pipe' = [pipe EXCEPT !["client"] = Tail(w)] /\ conn' = [conn EXCEPT !["host"] = e]
    BY <1>2, <1>4, <2>1, <2>2 DEF RecvConfirm3
  <2>4. conn' \in [Side -> End] /\ conn'["host"] = e /\ conn'["client"] = conn["client"]
    BY <1>0, <1>1, <2>3 DEF Typed
  <2>5. Tail(w) \in Seq(AnyRecord) /\ Len(Tail(w)) = Len(w) - 1 /\ Len(w) \in Nat /\ w # <<>>
    BY <1>2, <2>2
  <2>6. pipe' \in [Side -> Seq(AnyRecord)] /\ pipe'["client"] = Tail(w) /\ pipe'["host"] = pipe["host"]
    BY <1>0, <1>1, <2>3, <2>5 DEF Typed
  <2>7. Typed'
    BY <1>0, <1>2, <2>4, <2>6 DEF Typed
  <2>8. PipesBounded'
    <3>1. Len(w) <= TcpCap /\ Len(pipe["host"]) <= TcpCap /\ conn["client"].st # "start"
      BY <1>0, <1>1, <1>2, <2>2 DEF PipesBounded
    <3>2. Len(Tail(w)) <= TcpCap
      BY <3>1, <2>5, Spaces
    <3> QED BY <1>1, <2>4, <2>6, <3>1, <3>2 DEF PipesBounded
  <2>9. psk["client"] = psk["host"]
    <3>1. SUFFICES ASSUME psk["client"] # psk["host"] PROVE FALSE
      OBVIOUS
    <3>2. w[1].psk = psk["client"]
      <4>1. 1 \in 1 .. Len(w)
        BY <2>5
      <4> QED BY <1>0, <1>1, <2>2, <3>1, <4>1 DEF Strangers
    <3>3. Head(w).psk = psk["host"]
      BY <1>4, <2>2 DEF Proves
    <3> QED BY <3>1, <3>2, <3>3, <2>5
  <2>10. Strangers'
    BY <1>2, <2>9 DEF Strangers
  <2>11. got["host"] = <<>> /\ \A p \in net : p[1].from = "host" => ~IsData(p)
    BY <1>0, <1>1, <1>2 DEF DatagramsOK, Unspoken, Opening
  <2>12. Unspoken'
    BY <1>0, <1>1, <1>2, <2>1, <2>4 DEF DatagramsOK, Unspoken, Opening, IsData
  <2>13. Numbered' /\ Ordered' /\ Rising'
    BY <1>0, <1>2 DEF DatagramsOK, Numbered, Ordered, Rising, IsData
  <2>14. Aged'
    <3>1. ASSUME NEW p \in net, IsData(p), conn'[p[1].from].st = "up"
          PROVE  After(conn'[p[1].from].seq, p[1].seq)
      <4>1. p[1].from = "client"
        <5>1. p[1].from \in Side
          BY <1>0 DEF Typed, Datagram, Hello, Data, Frag
        <5> QED BY <5>1, <1>1, <2>11, <3>1
      <4> QED BY <1>0, <3>1, <4>1, <2>4 DEF DatagramsOK, Aged
    <3> QED BY <3>1, <1>2 DEF Aged, IsData
  <2>15. Obsolete'
    BY <1>0, <1>1, <1>2, <2>4, <2>11 DEF DatagramsOK, Obsolete, IsData
  <2> QED BY <2>7, <2>8, <2>10, <2>12, <2>13, <2>14, <2>15 DEF IInv, DatagramsOK
<1> QED BY <1>3, <1>4

-----------------------------------------------------------------------------
(* The session.                                                            *)

\* A quiet step of a session that is up.
LEMMA UpStep ==
  ASSUME IInv, NEW s \in Side, conn[s].st = "up", psk' = psk, Typed', Quiet, PipesBounded'
  PROVE  IInv'
<1>1. Strangers'
  BY Apart DEF IInv, Strangers
<1>2. DatagramsOK'
  BY QuietStep DEF IInv
<1> QED BY <1>1, <1>2 DEF IInv

\* A field of an end that is no sequence number changes.
LEMMA FieldStep ==
  ASSUME Typed, NEW s \in Side, NEW e \in End, conn' = [conn EXCEPT ![s] = e],
         net' = net, got' = got, sent'.udp = sent.udp,
         e.st = conn[s].st, e.seq = conn[s].seq, e.last = conn[s].last
  PROVE  Quiet /\ conn' \in [Side -> End] /\ \A t \in Side : conn'[t].st = conn[t].st
BY OneEnd

\* An application sends a record.
LEMMA SendTcpStep ==
  ASSUME IInv, NEW s \in Side, SendTcp(s)
  PROVE  IInv'
<1>0. Typed /\ PipesBounded
  BY DEF IInv
<1>1. /\ conn[s].st = "up" /\ UNCHANGED <<psk, nat, conn, pipe, net, got, limit>>
      /\ out' = [out EXCEPT ![s] = <<Framed("msg")>>] /\ sent' = [sent EXCEPT !.tcp = @ + 1]
  BY DEF SendTcp, Running, Up
<1>2. <<Framed("msg")>> \in Seq(SessionRecord)
  <2>1. Framed("msg") \in SessionRecord
    BY DEF Framed, SessionRecord
  <2> QED BY <2>1
<1>3. out' \in [Side -> Seq(SessionRecord)]
  BY <1>0, <1>1, <1>2 DEF Typed
<1>4. sent' \in [tcp : Nat, udp : Nat] /\ sent'.udp = sent.udp
  <2>1. sent \in [tcp : Nat, udp : Nat]
    BY <1>0 DEF Typed
  <2> QED BY <1>1, <2>1
<1>5. Typed' /\ Quiet /\ PipesBounded'
  BY <1>0, <1>1, <1>3, <1>4 DEF Typed, Quiet, PipesBounded
<1> QED BY <1>1, <1>5, UpStep

\* A datagram in vain counts as traffic, and moves nothing.
LEMMA SendUdpInVainStep ==
  ASSUME IInv, NEW s \in Side, SendUdpInVain(s)
  PROVE  IInv'
<1>0. Typed /\ PipesBounded
  BY DEF IInv
<1>1. /\ conn[s].st = "up" /\ UNCHANGED <<psk, nat, out, pipe, net, sent, got, limit>>
      /\ conn' = [conn EXCEPT ![s].tx = 0]
  BY DEF SendUdpInVain, Running, Up
<1>2. PICK e \in End : e = [conn[s] EXCEPT !.tx = 0] /\ e.st = conn[s].st /\ e.seq = conn[s].seq
                       /\ e.last = conn[s].last
  <2>1. conn[s] \in End /\ 0 \in 0 .. PingIdle + 1
    BY <1>0, Spaces DEF Typed
  <2>2. [conn[s] EXCEPT !.tx = 0] \in End
    BY <2>1 DEF End
  <2> QED BY <2>1, <2>2 DEF End
<1>3. conn' = [conn EXCEPT ![s] = e]
  BY <1>1, <1>2
<1>4. Quiet /\ conn' \in [Side -> End] /\ \A t \in Side : conn'[t].st = conn[t].st
  BY <1>0, <1>1, <1>2, <1>3, FieldStep
<1>5. Typed'
  BY <1>0, <1>1, <1>4 DEF Typed
<1>6. PipesBounded'
  BY <1>0, <1>1, <1>4 DEF PipesBounded, Side
<1> QED BY <1>1, <1>4, <1>5, <1>6, UpStep

\* A record is written where there is room.
LEMMA WriteStep ==
  ASSUME IInv, NEW s \in Side, Write(s)
  PROVE  IInv'
<1>0. Typed /\ PipesBounded
  BY DEF IInv
<1>1. /\ conn[s].st = "up" /\ UNCHANGED <<psk, nat, net, sent, got, limit>>
      /\ out[s] # <<>> /\ Len(pipe[s]) < TcpCap
      /\ conn' = [conn EXCEPT ![s].tx = 0]
  BY DEF Write, Up
<1>2. PICK e \in End : e = [conn[s] EXCEPT !.tx = 0] /\ e.st = conn[s].st /\ e.seq = conn[s].seq
                       /\ e.last = conn[s].last
  <2>1. conn[s] \in End /\ 0 \in 0 .. PingIdle + 1
    BY <1>0, Spaces DEF Typed
  <2>2. [conn[s] EXCEPT !.tx = 0] \in End
    BY <2>1 DEF End
  <2> QED BY <2>1, <2>2 DEF End
<1>3. conn' = [conn EXCEPT ![s] = e]
  BY <1>1, <1>2
<1>4. Quiet /\ conn' \in [Side -> End] /\ \A t \in Side : conn'[t].st = conn[t].st
  BY <1>0, <1>1, <1>2, <1>3, FieldStep
<1>5. PICK o \in Seq(SessionRecord) : o = out[s]
  BY <1>0 DEF Typed
<1>6. PICK w \in Seq(AnyRecord) : w = pipe[s]
  BY <1>0 DEF Typed
<1>7. Head(o) \in AnyRecord /\ Tail(o) \in Seq(SessionRecord)
  <2>1. Head(o) \in SessionRecord /\ Tail(o) \in Seq(SessionRecord)
    BY <1>1, <1>5
  <2> QED BY <2>1 DEF AnyRecord
<1>8. PICK v \in Seq(AnyRecord) : v = Append(w, Head(o)) /\ Len(v) = Len(w) + 1 /\ Len(w) \in Nat
  <2>1. PICK x \in AnyRecord : x = Head(o)
    BY <1>7
  <2>2. Append(w, x) \in Seq(AnyRecord) /\ Len(Append(w, x)) = Len(w) + 1 /\ Len(w) \in Nat
    OBVIOUS
  <2> QED BY <2>1, <2>2
<1>9. pipe' = [pipe EXCEPT ![s] = v] /\ out' = [out EXCEPT ![s] = Tail(o)]
  BY <1>5, <1>6, <1>8 DEF Write
<1>10. /\ pipe' \in [Side -> Seq(AnyRecord)] /\ out' \in [Side -> Seq(SessionRecord)]
       /\ pipe'[s] = v /\ \A t \in Side : t # s => pipe'[t] = pipe[t]
  BY <1>0, <1>7, <1>8, <1>9 DEF Typed
<1>11. Typed'
  BY <1>0, <1>1, <1>4, <1>10 DEF Typed
<1>12. PipesBounded'
  <2>1. Len(v) <= TcpCap
    BY <1>1, <1>6, <1>8, Spaces
  <2>2. \A t \in Side : Len(pipe'[t]) <= TcpCap
    BY <1>0, <1>10, <2>1 DEF PipesBounded
  <2>3. "client" \in Side
    BY DEF Side
  <2> QED BY <1>0, <1>1, <1>4, <1>10, <2>2, <2>3 DEF PipesBounded
<1> QED BY <1>1, <1>4, <1>11, <1>12, UpStep

\* A write fails: the session is over for its writer.
LEMMA WriteFailsStep ==
  ASSUME IInv, NEW s \in Side, WriteFails(s)
  PROVE  IInv'
<1>0. Typed /\ PipesBounded
  BY DEF IInv
<1>1. /\ conn[s].st = "up" /\ UNCHANGED <<psk, nat, pipe, net, sent, got, limit>>
      /\ conn' = [conn EXCEPT ![s].alive = FALSE] /\ out' = [out EXCEPT ![s] = <<>>]
  BY DEF WriteFails, Up
<1>2. PICK e \in End : e = [conn[s] EXCEPT !.alive = FALSE] /\ e.st = conn[s].st /\ e.seq = conn[s].seq
                       /\ e.last = conn[s].last
  <2>1. conn[s] \in End
    BY <1>0 DEF Typed
  <2>2. [conn[s] EXCEPT !.alive = FALSE] \in End
    BY <2>1 DEF End
  <2> QED BY <2>1, <2>2 DEF End
<1>3. conn' = [conn EXCEPT ![s] = e]
  BY <1>1, <1>2
<1>4. Quiet /\ conn' \in [Side -> End] /\ \A t \in Side : conn'[t].st = conn[t].st
  BY <1>0, <1>1, <1>2, <1>3, FieldStep
<1>5. out' \in [Side -> Seq(SessionRecord)]
  BY <1>0, <1>1 DEF Typed
<1>6. Typed'
  BY <1>0, <1>1, <1>4, <1>5 DEF Typed
<1>7. PipesBounded'
  BY <1>0, <1>1, <1>4 DEF PipesBounded, Side
<1> QED BY <1>1, <1>4, <1>6, <1>7, UpStep

\* The keepalive after the answers.
LEMMA PollKeepaliveStep ==
  ASSUME IInv, NEW s \in Side, PollKeepalive(s)
  PROVE  IInv'
<1>0. Typed /\ PipesBounded
  BY DEF IInv
<1>1. /\ conn[s].st = "up" /\ UNCHANGED <<psk, nat, pipe, net, sent, got, limit>>
      /\ conn' = [conn EXCEPT ![s] = Serviced(conn[s]).c]
      /\ out' = [out EXCEPT ![s] = Serviced(conn[s]).out]
  BY DEF PollKeepalive, Up
<1>2. conn[s] \in End
  BY <1>0 DEF Typed
<1>3. PICK e \in End : e = Serviced(conn[s]).c /\ e.st = conn[s].st /\ e.seq = conn[s].seq
                       /\ e.last = conn[s].last
  BY <1>2, ServicedType
<1>4. conn' = [conn EXCEPT ![s] = e]
  BY <1>1, <1>3
<1>5. Quiet /\ conn' \in [Side -> End] /\ \A t \in Side : conn'[t].st = conn[t].st
  BY <1>0, <1>1, <1>3, <1>4, FieldStep
<1>6. out' \in [Side -> Seq(SessionRecord)]
  <2>1. PICK o \in Seq(SessionRecord) : o = Serviced(conn[s]).out
    BY <1>2, ServicedType
  <2> QED BY <1>0, <1>1, <2>1 DEF Typed
<1>7. Typed'
  BY <1>0, <1>1, <1>5, <1>6 DEF Typed
<1>8. PipesBounded'
  BY <1>0, <1>1, <1>5 DEF PipesBounded, Side
<1> QED BY <1>1, <1>5, <1>7, <1>8, UpStep

\* Time passes.
LEMMA TickStep ==
  ASSUME IInv, Tick
  PROVE  IInv'
<1>0. Typed /\ PipesBounded /\ Strangers /\ DatagramsOK
  BY DEF IInv
<1>1. /\ UNCHANGED <<psk, nat, out, pipe, net, sent, got, limit>>
      /\ conn' = [s \in Side |-> IF Up(s) /\ conn[s].alive THEN Older(conn[s]) ELSE conn[s]]
  BY DEF Tick
<1>2. ASSUME NEW c \in End
      PROVE  Older(c) \in End /\ Older(c).st = c.st /\ Older(c).seq = c.seq /\ Older(c).last = c.last
  <2>1. PICK x \in 0 .. DeadAfter + 1, y \in 0 .. PingIdle + 1, z \in 0 .. PingIdle + 1 :
          Older(c) = [c EXCEPT !.rx = x, !.tx = y, !.ping = z, !.polled = FALSE]
    <3>1. (IF c.rx > DeadAfter THEN c.rx ELSE c.rx + 1) \in 0 .. DeadAfter + 1
      BY Spaces DEF End
    <3>2. (IF c.tx > PingIdle THEN c.tx ELSE c.tx + 1) \in 0 .. PingIdle + 1
      BY Spaces DEF End
    <3>3. (IF c.ping > PingIdle THEN c.ping ELSE c.ping + 1) \in 0 .. PingIdle + 1
      BY Spaces DEF End
    <3> QED BY <3>1, <3>2, <3>3 DEF Older
  <2> QED BY <2>1 DEF End
<1>3. /\ conn' \in [Side -> End]
      /\ \A s \in Side : conn'[s].st = conn[s].st /\ conn'[s].seq = conn[s].seq
                         /\ conn'[s].last = conn[s].last
  BY <1>0, <1>1, <1>2 DEF Typed
<1>4. Typed' /\ Quiet
  BY <1>0, <1>1, <1>3 DEF Typed, Quiet
<1>5. PipesBounded' /\ Strangers'
  BY <1>0, <1>1, <1>3 DEF PipesBounded, Strangers, Side
<1> QED BY <1>0, <1>4, <1>5, QuietStep DEF IInv

-----------------------------------------------------------------------------
(* Datagrams are sent.                                                     *)

\* The sender's numbers after a message.
LEMMA AdvancedType ==
  ASSUME NEW c \in End, NEW kind \in {"data", "frag"}
  PROVE  /\ Advanced(c, kind) \in End /\ Advanced(c, kind).st = c.st
         /\ Advanced(c, kind).last = c.last
         /\ Advanced(c, kind).seq = IF kind = "data" THEN Later(c.seq, 1) ELSE Later(c.seq, Parts + 1)
<1>1. c.seq \in SeqNo /\ c.mid \in SeqNo /\ 0 \in 0 .. PingIdle + 1
  BY Spaces DEF End
<1>2. Parts \in Nat /\ 1 \in 0 .. Parts + 1 /\ Parts + 1 \in 0 .. Parts + 1 /\ c.seq \in Nat
  BY <1>1, Spaces DEF SeqNo
<1>3. PICK x \in SeqNo : x = (c.seq + 1) % SeqSpace /\ x = Later(c.seq, 1)
  BY <1>1, <1>2, Advance DEF Later
<1>4. PICK y \in SeqNo : y = (c.seq + 1 + Parts) % SeqSpace /\ y = Later(c.seq, Parts + 1)
  <2>1. c.seq + 1 + Parts = c.seq + (Parts + 1)
    BY <1>2
  <2> QED BY <1>1, <1>2, <2>1, Advance DEF Later
<1>5. PICK m \in SeqNo : m = (c.mid + 1) % SeqSpace
  BY <1>1, <1>2, Advance DEF Later
<1>6. CASE kind = "data"
  <2>1. Advanced(c, kind) = [c EXCEPT !.seq = x, !.tx = 0]
    BY <1>3, <1>6 DEF Advanced
  <2> QED BY <1>1, <1>3, <1>6, <2>1 DEF End
<1>7. CASE kind = "frag"
  <2>1. Advanced(c, kind) = [c EXCEPT !.seq = y, !.mid = m, !.tx = 0]
    BY <1>4, <1>5, <1>7 DEF Advanced
  <2> QED BY <1>1, <1>4, <1>5, <1>7, <2>1 DEF End
<1> QED BY <1>6, <1>7

\* The datagrams of a message are well formed; DATA carries the sender's number.
LEMMA DatagramsType ==
  ASSUME Typed, NEW s \in Side, NEW kind \in {"data", "frag"}, NEW w \in Window,
         NEW d \in Datagrams(s, conn[s], kind, w)
  PROVE  /\ d \in Datagram /\ d.from = s /\ d.msg = sent.udp + 1
         /\ d.type = "data" => kind = "data" /\ d.seq = conn[s].seq /\ d.win = w
<1>1. conn[s].seq \in SeqNo /\ conn[s].mid \in SeqNo /\ sent.udp + 1 \in Nat
  BY DEF Typed, End
<1>2. CASE kind = "data"
  <2>1. d = [type |-> "data", from |-> s, seq |-> conn[s].seq, win |-> w, msg |-> sent.udp + 1]
    BY <1>2 DEF Datagrams
  <2> QED BY <1>1, <1>2, <2>1 DEF Datagram, Data
<1>3. CASE kind = "frag"
  <2>1. PICK i \in 1 .. Parts :
          d = [type |-> "frag", from |-> s, seq |-> (conn[s].seq + i) % SeqSpace, mid |-> conn[s].mid,
               idx |-> i, msg |-> sent.udp + 1]
    BY <1>3 DEF Datagrams
  <2>2. (conn[s].seq + i) % SeqSpace \in SeqNo
    <3>1. i \in 0 .. Parts + 1
      BY Spaces
    <3> QED BY <1>1, <3>1, Advance DEF Later
  <2> QED BY <1>1, <2>1, <2>2 DEF Datagram, Frag
<1> QED BY <1>2, <1>3

\* A message goes out: what is then under way is in order and of an age.
LEMMA SendUdpStep ==
  ASSUME IInv, NEW s \in Side, NEW kind \in {"data", "frag"}, NEW w \in Window, SendUdp(s, kind, w)
  PROVE  IInv'
<1>0. Typed /\ PipesBounded /\ Strangers /\ DatagramsOK
  BY DEF IInv
<1>1. PICK c \in End : /\ c = Advanced(conn[s], kind) /\ c.st = conn[s].st /\ c.last = conn[s].last
                       /\ c.seq = IF kind = "data" THEN Later(conn[s].seq, 1)
                                  ELSE Later(conn[s].seq, Parts + 1)
  BY <1>0, AdvancedType DEF Typed
<1>2. /\ conn[s].st = "up" /\ UNCHANGED <<psk, nat, out, pipe, got, limit>>
      /\ conn' = [conn EXCEPT ![s] = c] /\ sent' = [sent EXCEPT !.udp = @ + 1]
      /\ net' = Launched(s, Datagrams(s, conn[s], kind, w), c.seq)
  BY <1>1 DEF SendUdp, Running, Up
<1>3. limit.copies \in Nat
  BY <1>0, RookAssumption DEF Typed
<1>4. ASSUME NEW p \in net'
      PROVE  \/ p \in net /\ (p[1].from = s => ~Expired(p[1], c.seq))
             \/ /\ p \in Datagram \X Nat /\ p[1].from = s /\ p[1].msg = sent.udp + 1
                /\ IsData(p) => kind = "data" /\ p[1].seq = conn[s].seq /\ p[1].win = w
  <2>1. CASE p \in net /\ (p[1].from = s => ~Expired(p[1], c.seq))
    BY <2>1
  <2>2. CASE ~(p \in net /\ (p[1].from = s => ~Expired(p[1], c.seq)))
    <3>1. PICK d \in Datagrams(s, conn[s], kind, w) : p = <<d, limit.copies>>
      BY <1>2, <2>2 DEF Launched
    <3>2. d \in Datagram /\ d.from = s /\ d.msg = sent.udp + 1
          /\ (d.type = "data" => kind = "data" /\ d.seq = conn[s].seq /\ d.win = w)
      BY <1>0, DatagramsType
    <3> QED BY <1>3, <3>1, <3>2 DEF IsData
  <2> QED BY <2>1, <2>2
<1>5. sent \in [tcp : Nat, udp : Nat]
  BY <1>0 DEF Typed
<1>6. sent' \in [tcp : Nat, udp : Nat] /\ sent'.udp = sent.udp + 1 /\ sent.udp \in Nat
  BY <1>2, <1>5
<1>7. conn' \in [Side -> End] /\ conn'[s] = c /\ \A t \in Side : t # s => conn'[t] = conn[t]
  BY <1>0, <1>2 DEF Typed
<1>8. net' \in SUBSET (Datagram \X Nat)
  BY <1>0, <1>4 DEF Typed
<1>9. Typed'
  BY <1>0, <1>2, <1>6, <1>7, <1>8 DEF Typed
<1>10. PipesBounded'
  BY <1>0, <1>1, <1>2, <1>7 DEF PipesBounded, Side
<1>11. Strangers'
  BY <1>0, <1>2, Apart DEF Strangers
<1>12. \A p \in net : p[1].from \in Side /\ (IsData(p) => p[1].seq \in SeqNo /\ p[1].msg \in Nat)
  BY <1>0 DEF Typed, Datagram, Hello, Data, Frag, IsData
<1>13. Unspoken'
  <2>1. ASSUME NEW t \in Side, conn'[t].st \in Opening PROVE conn[t].st \in Opening /\ t # s
    BY <2>1, <1>1, <1>2, <1>7 DEF Opening
  <2>2. ASSUME NEW t \in Side, conn'[t].st \in Opening
        PROVE  got[t] = <<>> /\ \A p \in net' : p[1].from = t => ~IsData(p)
    BY <2>1, <2>2, <1>0, <1>4 DEF DatagramsOK, Unspoken
  <2> QED BY <2>2, <1>2 DEF Unspoken, IsData
<1>14. Numbered'
  <2>1. ASSUME NEW p \in net', IsData(p) PROVE p[1].msg <= sent.udp + 1
    <3>1. CASE p \in net
      BY <3>1, <2>1, <1>0, <1>6, <1>12 DEF DatagramsOK, Numbered
    <3>2. CASE p \notin net
      BY <3>2, <1>4, <1>6
    <3> QED BY <3>1, <3>2
  <2>2. ASSUME NEW t \in Side, NEW i \in 1 .. Len(got[t]), got[t][i].type = "data"
        PROVE  got[t][i].msg <= sent.udp + 1
    <3>1. got[t][i] \in Delivery
      BY <1>0 DEF Typed
    <3>2. got[t][i].msg \in Nat
      BY <3>1 DEF Delivery
    <3> QED BY <2>2, <3>2, <1>0, <1>6 DEF DatagramsOK, Numbered
  <2> QED BY <2>1, <2>2, <1>2, <1>6 DEF Numbered, IsData
<1>15. Aged'
  <2>1. ASSUME NEW p \in net', IsData(p), conn'[p[1].from].st = "up"
        PROVE  After(conn'[p[1].from].seq, p[1].seq)
    <3>1. CASE p[1].from # s
      <4>1. p \in net /\ p[1].from \in Side
        BY <3>1, <1>4, <1>12
      <4> QED BY <3>1, <4>1, <2>1, <1>0, <1>7 DEF DatagramsOK, Aged
    <3>2. CASE p[1].from = s /\ p \in net /\ ~Expired(p[1], c.seq)
      <4>1. After(conn[s].seq, p[1].seq)
        BY <3>2, <2>1, <1>0, <1>2 DEF DatagramsOK, Aged
      <4>2. conn[s].seq \in SeqNo /\ p[1].seq \in SeqNo
        BY <1>0, <1>12, <3>2, <2>1 DEF Typed, End
      <4>3. PICK k \in 1 .. Parts + 1 : c.seq = Later(conn[s].seq, k)
        <5>1. 1 \in 1 .. Parts + 1 /\ Parts + 1 \in 1 .. Parts + 1
          BY Spaces
        <5> QED BY <1>1, <5>1
      <4>4. ~(Gap(Later(conn[s].seq, k), p[1].seq) >= SeqSpace \div 2)
        BY <3>2, <4>3 DEF Expired, Gap
      <4>5. After(Later(conn[s].seq, k), p[1].seq)
        BY <4>1, <4>2, <4>4, AfterAdvance
      <4> QED BY <4>3, <4>5, <3>2, <1>7
    <3>3. CASE p[1].from = s /\ kind = "data" /\ p[1].seq = conn[s].seq
      <4>1. conn[s].seq \in SeqNo
        BY <1>0 DEF Typed, End
      <4> QED BY <4>1, <3>3, <1>1, <1>7, AfterNext
    <3> QED BY <2>1, <3>1, <3>2, <3>3, <1>4
  <2> QED BY <2>1 DEF Aged, IsData
<1>16. Ordered'
  <2>1. ASSUME NEW p \in net', NEW q \in net', IsData(p), IsData(q), p[1].from = q[1].from
        PROVE  /\ p[1].msg < q[1].msg => After(q[1].seq, p[1].seq)
               /\ p[1].msg = q[1].msg => p[1].seq = q[1].seq
    <3>1. CASE p \in net /\ q \in net
      BY <2>1, <3>1, <1>0 DEF DatagramsOK, Ordered
    <3>2. CASE p \in net /\ q \notin net
      <4>1. q[1].from = s /\ q[1].msg = sent.udp + 1 /\ q[1].seq = conn[s].seq
        BY <3>2, <2>1, <1>4
      <4>2. p[1].msg <= sent.udp /\ p[1].msg \in Nat
        BY <3>2, <2>1, <1>0, <1>12 DEF DatagramsOK, Numbered
      <4>3. After(conn[s].seq, p[1].seq)
        BY <3>2, <2>1, <4>1, <1>0, <1>2 DEF DatagramsOK, Aged
      <4> QED BY <4>1, <4>2, <4>3, <1>6
    <3>3. CASE p \notin net /\ q \in net
      <4>1. p[1].msg = sent.udp + 1
        BY <3>3, <1>4
      <4>2. q[1].msg <= sent.udp /\ q[1].msg \in Nat
        BY <3>3, <2>1, <1>0, <1>12 DEF DatagramsOK, Numbered
      <4> QED BY <4>1, <4>2, <1>6
    <3>4. CASE p \notin net /\ q \notin net
      <4>1. p[1].msg = sent.udp + 1 /\ p[1].seq = conn[s].seq
        BY <3>4, <2>1, <1>4
      <4>2. q[1].msg = sent.udp + 1 /\ q[1].seq = conn[s].seq
        BY <3>4, <2>1, <1>4
      <4> QED BY <4>1, <4>2, <1>6
    <3> QED BY <3>1, <3>2, <3>3, <3>4
  <2> QED BY <2>1 DEF Ordered, IsData
<1>17. Obsolete'
  <2>1. ASSUME NEW t \in Side, conn'[t].st = "up", NEW i \in 1 .. Len(got[t]), got[t][i].type = "data"
        PROVE  /\ conn'[t].last[got[t][i].win] # SeqSpace
               /\ \A p \in net' :
                    /\ IsData(p) /\ p[1].from = Other(t) /\ p[1].win = got[t][i].win
                    /\ p[1].msg <= got[t][i].msg
                    => ~Newer(p[1].seq, conn'[t].last[p[1].win])
    <3>1. conn[t].st = "up" /\ conn'[t].last = conn[t].last
      BY <2>1, <1>1, <1>2, <1>7
    <3>2. got[t][i].msg <= sent.udp /\ got[t][i].msg \in Nat
      <4>1. got[t][i] \in Delivery
        BY <1>0 DEF Typed
      <4> QED BY <2>1, <4>1, <1>0 DEF DatagramsOK, Numbered, Delivery
    <3>3. ASSUME NEW p \in net', IsData(p), p[1].msg <= got[t][i].msg PROVE p \in net
      <4>1. ~(p[1].msg = sent.udp + 1)
        BY <3>2, <3>3, <1>6
      <4> QED BY <4>1, <1>4
    <3> QED BY <3>1, <3>3, <2>1, <1>0 DEF DatagramsOK, Obsolete
  <2> QED BY <2>1, <1>2 DEF Obsolete, IsData
<1>18. Rising'
  BY <1>0, <1>2 DEF DatagramsOK, Rising
<1> QED BY <1>9, <1>10, <1>11, <1>13, <1>14, <1>15, <1>16, <1>17, <1>18 DEF IInv, DatagramsOK

-----------------------------------------------------------------------------
(* Datagrams are received.                                                 *)

\* What a datagram d makes of an end and of what its application is given.
Arrival(s, d, e, D) ==
  /\ e.st = "up" /\ e.seq = conn[s].seq
  /\ e.last = IF d.type = "data" /\ Fresh(conn[s], d) THEN [conn[s].last EXCEPT ![d.win] = d.seq]
              ELSE conn[s].last
  /\ D = <<>> \/ \E x \in Delivery : D = <<x>> /\ x.type = d.type /\ x.msg = d.msg
  /\ d.type = "data" => D = IF Fresh(conn[s], d)
                            THEN <<[type |-> "data", msg |-> d.msg, win |-> d.win]>> ELSE <<>>

\* A datagram arrives at s: its window's mark moves to it when it is fresh, and
\* then it is newer than everything delivered before.
LEMMA ArrivalStep ==
  ASSUME Typed, DatagramsOK, NEW s \in Side, conn[s].st = "up", NEW p \in net, p[1].from = Other(s),
         NEW e \in End, conn' = [conn EXCEPT ![s] = e],
         NEW D, got' = [got EXCEPT ![s] = @ \o D], Arrival(s, p[1], e, D),
         \A q \in net' : \E r \in net : r[1] = q[1],
         sent' = sent
  PROVE  DatagramsOK' /\ got' \in [Side -> Seq(Delivery)] /\ conn' \in [Side -> End]
         /\ \A t \in Side : conn'[t].st = conn[t].st
<1> USE DEF Arrival
<1>1. PICK G \in Seq(Delivery) : G = got[s]
  BY DEF Typed
<1>2. PICK H \in Seq(Delivery) :
        /\ H = G \o D /\ Len(G) \in Nat /\ \A i \in 1 .. Len(G) : H[i] = G[i]
        /\ \/ Len(H) = Len(G)
           \/ /\ Len(H) = Len(G) + 1 /\ H[Len(G) + 1].type = p[1].type
              /\ H[Len(G) + 1].msg = p[1].msg /\ D # <<>>
  <2>1. CASE D = <<>>
    <3>1. G \o D = G
      BY <2>1
    <3> QED BY <3>1
  <2>2. CASE \E x \in Delivery : D = <<x>> /\ x.type = p[1].type /\ x.msg = p[1].msg
    <3>1. PICK x \in Delivery : D = <<x>> /\ x.type = p[1].type /\ x.msg = p[1].msg
      BY <2>2
    <3>2. /\ G \o <<x>> \in Seq(Delivery) /\ Len(G \o <<x>>) = Len(G) + 1 /\ Len(G) \in Nat
          /\ (G \o <<x>>)[Len(G) + 1] = x /\ \A i \in 1 .. Len(G) : (G \o <<x>>)[i] = G[i]
      OBVIOUS
    <3>3. D # <<>>
      BY <3>1
    <3> QED BY <3>1, <3>2, <3>3
  <2> QED BY <2>1, <2>2
<1>3. /\ got' \in [Side -> Seq(Delivery)] /\ got'[s] = H /\ \A t \in Side : t # s => got'[t] = got[t]
  BY <1>1, <1>2 DEF Typed
<1>4. conn' \in [Side -> End] /\ conn'[s] = e /\ \A t \in Side : t # s => conn'[t] = conn[t]
  BY DEF Typed
<1>5. \A t \in Side : conn'[t].st = conn[t].st /\ conn'[t].seq = conn[t].seq
  BY <1>4
<1>6. \A q \in net : q[1].from \in Side
                     /\ (IsData(q) => q[1].seq \in SeqNo /\ q[1].msg \in Nat /\ q[1].win \in Window)
  BY DEF Typed, Datagram, Hello, Data, Frag, IsData
<1>7. Other(s) \in Side /\ Other(s) # s
  BY DEF Side, Other
<1>8. \A q \in net' : \E r \in net : r[1] = q[1] /\ (IsData(q) <=> IsData(r))
  BY DEF IsData
<1>9. Unspoken'
  <2>1. ASSUME NEW t \in Side, conn'[t].st \in Opening
        PROVE  got'[t] = <<>> /\ \A q \in net' : q[1].from = t => ~IsData(q)
    <3>1. conn[t].st \in Opening /\ t # s
      BY <2>1, <1>5 DEF Opening
    <3>2. ASSUME NEW q \in net', q[1].from = t PROVE ~IsData(q)
      <4>1. PICK r \in net : r[1] = q[1] /\ (IsData(q) <=> IsData(r))
        BY <1>8
      <4> QED BY <3>1, <3>2, <4>1 DEF DatagramsOK, Unspoken
    <3> QED BY <3>1, <3>2, <1>3 DEF DatagramsOK, Unspoken
  <2> QED BY <2>1 DEF Unspoken, IsData
<1>10. Aged'
  <2>1. ASSUME NEW q \in net', IsData(q), conn'[q[1].from].st = "up"
        PROVE  After(conn'[q[1].from].seq, q[1].seq)
    <3>1. PICK r \in net : r[1] = q[1] /\ IsData(r)
      BY <2>1, <1>8
    <3>2. r[1].from \in Side
      BY <1>6
    <3> QED BY <2>1, <3>1, <3>2, <1>5 DEF DatagramsOK, Aged
  <2> QED BY <2>1 DEF Aged, IsData
<1>11. Ordered'
  <2>1. ASSUME NEW q \in net', NEW q2 \in net', IsData(q), IsData(q2), q[1].from = q2[1].from
        PROVE  /\ q[1].msg < q2[1].msg => After(q2[1].seq, q[1].seq)
               /\ q[1].msg = q2[1].msg => q[1].seq = q2[1].seq
    <3>1. PICK r \in net : r[1] = q[1] /\ IsData(r)
      BY <2>1, <1>8
    <3>2. PICK r2 \in net : r2[1] = q2[1] /\ IsData(r2)
      BY <2>1, <1>8
    <3> QED BY <2>1, <3>1, <3>2 DEF DatagramsOK, Ordered
  <2> QED BY <2>1 DEF Ordered, IsData
<1>12. Numbered'
  <2>1. ASSUME NEW q \in net', IsData(q) PROVE q[1].msg <= sent.udp
    BY <2>1, <1>8 DEF DatagramsOK, Numbered
  <2>2. ASSUME NEW t \in Side, NEW i \in 1 .. Len(got'[t]), got'[t][i].type = "data"
        PROVE  got'[t][i].msg <= sent.udp
    <3>1. CASE t # s
      BY <2>2, <3>1, <1>3 DEF DatagramsOK, Numbered
    <3>2. CASE t = s /\ i \in 1 .. Len(G)
      BY <2>2, <3>2, <1>1, <1>2, <1>3 DEF DatagramsOK, Numbered
    <3>3. CASE t = s /\ i \notin 1 .. Len(G)
      <4>1. i = Len(G) + 1 /\ H[i].type = p[1].type /\ H[i].msg = p[1].msg
        BY <3>3, <1>2, <1>3, <2>2
      <4>2. IsData(p)
        BY <4>1, <2>2, <3>3, <1>3 DEF IsData
      <4> QED BY <4>1, <4>2, <3>3, <1>3 DEF DatagramsOK, Numbered
    <3> QED BY <3>1, <3>2, <3>3
  <2> QED BY <2>1, <2>2 DEF Numbered, IsData
<1>13. \A i \in 1 .. Len(G) : G[i] \in Delivery /\ (G[i].type = "data" => G[i].msg \in Nat /\ G[i].win \in Window)
  BY DEF Delivery
<1>14. CASE p[1].type = "data" /\ Fresh(conn[s], p[1])
  <2>1. PICK x : x = [type |-> "data", msg |-> p[1].msg, win |-> p[1].win] /\ D = <<x>>
    BY <1>14
  <2>2. Len(H) = Len(G) + 1 /\ H[Len(G) + 1] = x
    BY <1>2, <2>1
  <2>3. IsData(p) /\ p[1].seq \in SeqNo /\ p[1].msg \in Nat /\ p[1].win \in Window
    BY <1>6, <1>14 DEF IsData
  <2>4. conn[s].last \in [Window -> 0 .. SeqSpace] /\ e.last = [conn[s].last EXCEPT ![p[1].win] = p[1].seq]
    BY <1>14 DEF Typed, End
  <2>5. ASSUME NEW i \in 1 .. Len(G), G[i].type = "data", G[i].win = p[1].win
        PROVE  G[i].msg < p[1].msg
    <3>1. SUFFICES ASSUME p[1].msg <= G[i].msg PROVE FALSE
      BY <2>3, <2>5, <1>13
    <3>2. conn[s].last[p[1].win] # SeqSpace /\ ~Newer(p[1].seq, conn[s].last[p[1].win])
      BY <2>3, <2>5, <3>1, <1>1 DEF DatagramsOK, Obsolete
    <3> QED BY <3>2, <1>14 DEF Fresh
  <2>6. ASSUME NEW r \in net, IsData(r), r[1].from = Other(s), r[1].win = p[1].win, r[1].msg <= p[1].msg
        PROVE  ~Newer(r[1].seq, p[1].seq)
    <3>1. r[1].seq \in SeqNo /\ r[1].msg \in Nat
      BY <2>6, <1>6
    <3>2. CASE r[1].msg = p[1].msg
      <4>1. r[1].seq = p[1].seq
        BY <2>3, <2>6, <3>2 DEF DatagramsOK, Ordered
      <4> QED BY <4>1, NotNewerSame
    <3>3. CASE r[1].msg < p[1].msg
      <4>1. After(p[1].seq, r[1].seq)
        BY <2>3, <2>6, <3>3 DEF DatagramsOK, Ordered
      <4> QED BY <4>1, <3>1, <2>3, AfterNotNewer
    <3> QED BY <2>3, <2>6, <3>1, <3>2, <3>3
  <2>7. Obsolete'
    <3>1. ASSUME NEW t \in Side, conn'[t].st = "up", NEW i \in 1 .. Len(got'[t]), got'[t][i].type = "data"
          PROVE  /\ conn'[t].last[got'[t][i].win] # SeqSpace
                 /\ \A q \in net' :
                      /\ IsData(q) /\ q[1].from = Other(t) /\ q[1].win = got'[t][i].win
                      /\ q[1].msg <= got'[t][i].msg
                      => ~Newer(q[1].seq, conn'[t].last[q[1].win])
      <4>1. CASE t # s
        <5>1. conn[t].st = "up" /\ conn'[t] = conn[t] /\ got'[t] = got[t]
          BY <3>1, <4>1, <1>3, <1>4
        <5>2. ASSUME NEW q \in net', IsData(q), q[1].from = Other(t), q[1].win = got[t][i].win,
                     q[1].msg <= got[t][i].msg
              PROVE  ~Newer(q[1].seq, conn[t].last[q[1].win])
          <6>1. PICK r \in net : r[1] = q[1] /\ IsData(r)
            BY <5>2, <1>8
          <6> QED BY <5>1, <5>2, <6>1, <3>1 DEF DatagramsOK, Obsolete
        <5> QED BY <5>1, <5>2, <3>1 DEF DatagramsOK, Obsolete
      <4>2. CASE t = s
        <5>1. PICK g : g = H[i]
          OBVIOUS
        <5>2. got'[t][i] = g /\ conn'[t].last = e.last /\ g.type = "data" /\ i \in 1 .. Len(H)
          BY <4>2, <5>1, <1>3, <1>4, <3>1
        <5>3. /\ g.win \in Window /\ g.msg \in Nat /\ (g.win = p[1].win => g.msg <= p[1].msg)
              /\ g.win # p[1].win => i \in 1 .. Len(G) /\ g = G[i]
          <6>1. CASE i \in 1 .. Len(G)
            <7>1. g = G[i]
              BY <5>1, <6>1, <1>2
            <7> QED BY <7>1, <6>1, <5>2, <1>13, <2>3, <2>5
          <6>2. CASE i \notin 1 .. Len(G)
            <7>1. g = x
              BY <5>1, <5>2, <6>2, <1>2, <2>2
            <7> QED BY <7>1, <2>1, <2>3
          <6> QED BY <6>1, <6>2
        <5>4. e.last[g.win] # SeqSpace
          <6>1. CASE g.win = p[1].win
            <7>1. p[1].seq # SeqSpace
              BY <2>3, Spaces DEF SeqNo
            <7> QED BY <6>1, <7>1, <2>3, <2>4
          <6>2. CASE g.win # p[1].win
            <7>1. conn[s].last[g.win] # SeqSpace
              BY <6>2, <5>2, <5>3, <1>1 DEF DatagramsOK, Obsolete
            <7> QED BY <7>1, <6>2, <5>3, <2>4
          <6> QED BY <6>1, <6>2
        <5>5. ASSUME NEW q \in net', IsData(q), q[1].from = Other(s), q[1].win = g.win, q[1].msg <= g.msg
              PROVE  ~Newer(q[1].seq, e.last[q[1].win])
          <6>1. PICK r \in net : r[1] = q[1] /\ IsData(r)
            BY <5>5, <1>8
          <6>2. CASE g.win = p[1].win
            <7>1. r[1].msg <= p[1].msg
              <8>1. r[1].msg \in Nat /\ r[1].msg <= g.msg /\ g.msg \in Nat /\ g.msg <= p[1].msg
                BY <6>1, <6>2, <5>3, <5>5, <1>6
              <8> QED BY <8>1, <2>3
            <7>2. ~Newer(r[1].seq, p[1].seq)
              BY <7>1, <6>1, <6>2, <5>5, <2>6
            <7>3. e.last[q[1].win] = p[1].seq
              BY <6>2, <5>5, <2>3, <2>4
            <7> QED BY <7>2, <7>3, <6>1
          <6>3. CASE g.win # p[1].win
            <7>1. ~Newer(r[1].seq, conn[s].last[r[1].win])
              <8>1. PICK k : k \in 1 .. Len(got[s]) /\ got[s][k] = g
                BY <5>2, <5>3, <6>3, <1>1
              <8>2. /\ conn[s].st = "up" /\ got[s][k].type = "data" /\ IsData(r) /\ r[1].from = Other(s)
                    /\ r[1].win = got[s][k].win /\ r[1].msg <= got[s][k].msg
                BY <8>1, <6>1, <5>2, <5>5, <1>1
              <8> QED BY <8>1, <8>2 DEF DatagramsOK, Obsolete
            <7>2. e.last[q[1].win] = conn[s].last[r[1].win]
              BY <6>1, <6>3, <5>3, <5>5, <2>4
            <7> QED BY <7>1, <7>2, <6>1
          <6> QED BY <6>2, <6>3
        <5> QED BY <5>2, <5>4, <5>5, <4>2
      <4> QED BY <4>1, <4>2
    <3> QED BY <3>1 DEF Obsolete, IsData
  <2>8. Rising'
    <3>1. ASSUME NEW t \in Side, NEW i \in 1 .. Len(got'[t]), NEW j \in 1 .. Len(got'[t]), i < j,
                 got'[t][i].type = "data", got'[t][j].type = "data", got'[t][i].win = got'[t][j].win
          PROVE  got'[t][i].msg < got'[t][j].msg
      <4>1. CASE t # s
        BY <3>1, <4>1, <1>3 DEF DatagramsOK, Rising
      <4>2. CASE t = s /\ j \in 1 .. Len(G)
        <5>1. i \in 1 .. Len(G) /\ H[i] = G[i] /\ H[j] = G[j]
          BY <4>2, <3>1, <1>2
        <5> QED BY <5>1, <4>2, <3>1, <1>1, <1>3, SMTT(30) DEF DatagramsOK, Rising
      <4>3. CASE t = s /\ j \notin 1 .. Len(G)
        <5>1. j = Len(G) + 1 /\ H[j] = x /\ i \in 1 .. Len(G) /\ H[i] = G[i]
          BY <4>3, <3>1, <1>2, <1>3, <2>2
        <5>2. G[i].type = "data" /\ G[i].win = p[1].win
          BY <5>1, <4>3, <3>1, <1>3, <2>1
        <5> QED BY <5>1, <5>2, <2>1, <2>5, <4>3, <1>3
      <4> QED BY <4>1, <4>2, <4>3
    <3> QED BY <3>1 DEF Rising
  <2> QED BY <2>7, <2>8, <1>3, <1>4, <1>5, <1>9, <1>10, <1>11, <1>12 DEF DatagramsOK
<1>15. CASE ~(p[1].type = "data" /\ Fresh(conn[s], p[1]))
  <2>1. e.last = conn[s].last
    BY <1>15
  <2>2. ASSUME NEW i \in 1 .. Len(H), H[i].type = "data" PROVE i \in 1 .. Len(G) /\ H[i] = G[i]
    <3>1. CASE i \in 1 .. Len(G)
      BY <3>1, <1>2
    <3>2. CASE i \notin 1 .. Len(G)
      <4>1. H[i].type = p[1].type /\ D # <<>>
        BY <3>2, <1>2
      <4> QED BY <4>1, <2>2, <1>15
    <3> QED BY <3>1, <3>2
  <2>3. Obsolete'
    <3>1. ASSUME NEW t \in Side, conn'[t].st = "up", NEW i \in 1 .. Len(got'[t]), got'[t][i].type = "data"
          PROVE  /\ conn'[t].last[got'[t][i].win] # SeqSpace
                 /\ \A q \in net' :
                      /\ IsData(q) /\ q[1].from = Other(t) /\ q[1].win = got'[t][i].win
                      /\ q[1].msg <= got'[t][i].msg
                      => ~Newer(q[1].seq, conn'[t].last[q[1].win])
      <4>1. conn[t].st = "up" /\ conn'[t].last = conn[t].last
        BY <3>1, <1>4, <1>5, <2>1
      <4>2. i \in 1 .. Len(got[t]) /\ got'[t][i] = got[t][i]
        BY <3>1, <1>1, <1>3, <2>2
      <4>3. ASSUME NEW q \in net', IsData(q), q[1].from = Other(t), q[1].win = got[t][i].win,
                   q[1].msg <= got[t][i].msg
            PROVE  ~Newer(q[1].seq, conn[t].last[q[1].win])
        <5>1. PICK r \in net : r[1] = q[1] /\ IsData(r)
          BY <4>3, <1>8
        <5> QED BY <5>1, <3>1, <4>1, <4>2, <4>3 DEF DatagramsOK, Obsolete
      <4> QED BY <3>1, <4>1, <4>2, <4>3 DEF DatagramsOK, Obsolete
    <3> QED BY <3>1 DEF Obsolete, IsData
  <2>4. Rising'
    <3>1. ASSUME NEW t \in Side, NEW i \in 1 .. Len(got'[t]), NEW j \in 1 .. Len(got'[t]), i < j,
                 got'[t][i].type = "data", got'[t][j].type = "data", got'[t][i].win = got'[t][j].win
          PROVE  got'[t][i].msg < got'[t][j].msg
      <4>1. i \in 1 .. Len(got[t]) /\ got'[t][i] = got[t][i]
        BY <3>1, <1>1, <1>3, <2>2
      <4>2. j \in 1 .. Len(got[t]) /\ got'[t][j] = got[t][j]
        BY <3>1, <1>1, <1>3, <2>2
      <4> QED BY <3>1, <4>1, <4>2 DEF DatagramsOK, Rising
    <3> QED BY <3>1 DEF Rising
  <2> QED BY <2>3, <2>4, <1>3, <1>4, <1>5, <1>9, <1>10, <1>11, <1>12 DEF DatagramsOK
<1> QED BY <1>14, <1>15

\* What poll makes of the end it has read into.
Finished(c, answers) ==
  IF answers = <<>> THEN Serviced(c) ELSE [c |-> [c EXCEPT !.pc = "keepalive"], out |-> answers]

\* The end of a poll leaves the session's state and sequence numbers alone.
LEMMA FinishedType ==
  ASSUME NEW c \in End, NEW a \in Seq(SessionRecord)
  PROVE  /\ Finished(c, a).c \in End /\ Finished(c, a).out \in Seq(SessionRecord)
         /\ Finished(c, a).c.st = c.st /\ Finished(c, a).c.seq = c.seq
         /\ Finished(c, a).c.last = c.last
<1>1. CASE a = <<>>
  BY <1>1, ServicedType DEF Finished
<1>2. CASE a # <<>>
  <2>1. PICK e : e = [c EXCEPT !.pc = "keepalive"]
    OBVIOUS
  <2>2. e \in End /\ e.st = c.st /\ e.seq = c.seq /\ e.last = c.last
    BY <2>1 DEF End
  <2>3. Finished(c, a) = [c |-> e, out |-> a]
    BY <1>2, <2>1 DEF Finished
  <2> QED BY <2>2, <2>3
<1> QED BY <1>1, <1>2

\* poll empties the connection and takes at most one datagram.
LEMMA PollStep ==
  ASSUME IInv, NEW s \in Side, NEW ps \in SUBSET Arrivals(s), Poll(s, ps)
  PROVE  IInv'
<1>0. Typed /\ PipesBounded /\ Strangers /\ DatagramsOK
  BY DEF IInv
<1>1. PICK o \in Side : o = Other(s) /\ o # s
  BY DEF Other, Side
<1>2. conn[s].st = "up" /\ UNCHANGED <<psk, nat, sent, limit>> /\ pipe' = [pipe EXCEPT ![o] = <<>>]
  BY <1>1 DEF Poll, Running, Up
<1>3. PICK a \in Seq(SessionRecord) : a = OnCtrl(pipe[o])
  <2>1. pipe[o] \in Seq(AnyRecord)
    BY <1>0 DEF Typed
  <2> QED BY <2>1, OnCtrlType
<1>4. PICK c : c = [conn[s] EXCEPT !.rx = IF pipe[o] # <<>> THEN 0 ELSE @, !.alive = @ /\ ~Closed(o)]
  OBVIOUS
<1>5. c \in End /\ c.st = conn[s].st /\ c.seq = conn[s].seq /\ c.last = conn[s].last
  <2>1. conn[s] \in End /\ 0 \in 0 .. DeadAfter + 1
    BY <1>0, Spaces DEF Typed
  <2>2. PICK x \in 0 .. DeadAfter + 1 : x = IF pipe[o] # <<>> THEN 0 ELSE conn[s].rx
    BY <2>1 DEF End
  <2>3. PICK y \in BOOLEAN : y = (conn[s].alive /\ ~Closed(o))
    OBVIOUS
  <2>4. c = [conn[s] EXCEPT !.rx = x, !.alive = y]
    BY <1>4, <2>2, <2>3
  <2> QED BY <2>1, <2>4 DEF End
<1>6. /\ pipe' \in [Side -> Seq(AnyRecord)]
      /\ \A t \in Side : pipe'[t] = pipe[t] \/ pipe'[t] = <<>>
  BY <1>0, <1>2 DEF Typed
<1>7. ASSUME \A t \in Side : conn'[t].st = conn[t].st PROVE PipesBounded'
  <2>1. "client" \in Side /\ Len(<<>>) = 0
    BY DEF Side
  <2>2. ASSUME NEW t \in Side PROVE Len(pipe'[t]) <= TcpCap
    <3>1. CASE pipe'[t] = pipe[t]
      BY <3>1, <1>0 DEF PipesBounded
    <3>2. CASE pipe'[t] = <<>>
      BY <3>2, <2>1, Spaces
    <3> QED BY <3>1, <3>2, <1>6
  <2> QED BY <1>0, <1>6, <1>7, <2>1, <2>2 DEF PipesBounded
<1>8. Strangers'
  BY <1>0, <1>2, Apart DEF Strangers
<1>9. CASE /\ conn' = [conn EXCEPT ![s] = Finished(c, a).c]
           /\ out' = [out EXCEPT ![s] = Finished(c, a).out] /\ UNCHANGED <<net, got>>
  <2>1. PICK e \in End : e = Finished(c, a).c /\ e.st = conn[s].st /\ e.seq = conn[s].seq
                         /\ e.last = conn[s].last
    BY <1>3, <1>5, FinishedType
  <2>2. PICK w \in Seq(SessionRecord) : w = Finished(c, a).out
    BY <1>3, <1>5, FinishedType
  <2>3. conn' = [conn EXCEPT ![s] = e] /\ out' = [out EXCEPT ![s] = w]
    BY <1>9, <2>1, <2>2
  <2>4. Quiet /\ conn' \in [Side -> End] /\ \A t \in Side : conn'[t].st = conn[t].st
    BY <1>0, <1>2, <1>9, <2>1, <2>3, FieldStep
  <2>5. Typed'
    BY <1>0, <1>2, <1>6, <1>9, <2>3, <2>4 DEF Typed
  <2> QED BY <1>0, <1>7, <1>8, <2>4, <2>5, QuietStep DEF IInv
<1>10. CASE \E p \in ps : /\ conn' = [conn EXCEPT ![s] = Finished(OnDatagram(c, p[1]), a).c]
                          /\ out' = [out EXCEPT ![s] = Finished(OnDatagram(c, p[1]), a).out]
                          /\ got' = [got EXCEPT ![s] = @ \o Delivered(c, p[1])]
                          /\ net' = Taken(p)
  <2>1. PICK p \in ps : /\ conn' = [conn EXCEPT ![s] = Finished(OnDatagram(c, p[1]), a).c]
                        /\ out' = [out EXCEPT ![s] = Finished(OnDatagram(c, p[1]), a).out]
                        /\ got' = [got EXCEPT ![s] = @ \o Delivered(c, p[1])]
                        /\ net' = Taken(p)
    BY <1>10
  <2>2. p \in net /\ p[1].from = o
    BY <1>1 DEF Arrivals
  <2>3. p[1] \in Datagram /\ p[2] \in Nat /\ p = <<p[1], p[2]>> /\ nat \in BOOLEAN
    BY <1>0, <2>2 DEF Typed
  <2>4. PICK h \in End :
          /\ h = OnDatagram(c, p[1]) /\ h.st = c.st /\ h.seq = c.seq
          /\ h.last = IF p[1].type = "data" /\ Fresh(c, p[1]) THEN [c.last EXCEPT ![p[1].win] = p[1].seq]
                      ELSE c.last
    BY <1>5, <2>3, OnDatagramType
  <2>5. PICK e \in End : e = Finished(h, a).c /\ e.st = h.st /\ e.seq = h.seq /\ e.last = h.last
    BY <1>3, FinishedType
  <2>6. PICK w \in Seq(SessionRecord) : w = Finished(h, a).out
    BY <1>3, FinishedType
  <2>7. PICK D : D = Delivered(c, p[1])
    OBVIOUS
  <2>8. Fresh(c, p[1]) <=> Fresh(conn[s], p[1])
    BY <1>5 DEF Fresh
  <2>9. /\ D = <<>> \/ \E x \in Delivery : D = <<x>> /\ x.type = p[1].type /\ x.msg = p[1].msg
        /\ p[1].type = "data" => D = IF Fresh(conn[s], p[1])
                                     THEN <<[type |-> "data", msg |-> p[1].msg, win |-> p[1].win]>>
                                     ELSE <<>>
    BY <1>5, <2>3, <2>7, <2>8, DeliveredType
  <2>10. /\ conn' = [conn EXCEPT ![s] = e] /\ out' = [out EXCEPT ![s] = w]
         /\ got' = [got EXCEPT ![s] = @ \o D]
    BY <2>1, <2>4, <2>5, <2>6, <2>7
  <2>11. e.st = "up" /\ e.seq = conn[s].seq
         /\ e.last = IF p[1].type = "data" /\ Fresh(conn[s], p[1])
                     THEN [conn[s].last EXCEPT ![p[1].win] = p[1].seq] ELSE conn[s].last
    BY <1>2, <1>5, <2>4, <2>5, <2>8
  <2>12. \A q \in net' : q \in Datagram \X Nat /\ \E r \in net : r[1] = q[1]
    <3>1. ASSUME NEW q \in net' PROVE q \in Datagram \X Nat /\ \E r \in net : r[1] = q[1]
      <4>1. CASE q \in net
        BY <4>1, <1>0 DEF Typed
      <4>2. CASE p[2] > 1 /\ q = <<p[1], p[2] - 1>>
        BY <4>2, <2>2, <2>3
      <4> QED BY <2>1, <4>1, <4>2 DEF Taken
    <3> QED BY <3>1
  <2>13. DatagramsOK' /\ got' \in [Side -> Seq(Delivery)] /\ conn' \in [Side -> End]
         /\ \A t \in Side : conn'[t].st = conn[t].st
    <3>1. p[1].from = Other(s) /\ sent' = sent /\ \A q \in net' : \E r \in net : r[1] = q[1]
      BY <1>1, <1>2, <2>2, <2>12
    <3>5. Arrival(s, p[1], e, D)
      BY <2>9, <2>11 DEF Arrival
    <3>2. DatagramsOK'
      BY <1>0, <1>2, <2>2, <2>10, <3>1, <3>5, ArrivalStep
    <3>3. got' \in [Side -> Seq(Delivery)]
      BY <1>0, <1>2, <2>2, <2>10, <3>1, <3>5, ArrivalStep
    <3>4. conn' \in [Side -> End] /\ \A t \in Side : conn'[t].st = conn[t].st
      BY <1>0, <1>2, <2>10, <2>11 DEF Typed
    <3> QED BY <3>2, <3>3, <3>4
  <2>14. net' \in SUBSET (Datagram \X Nat)
    BY <2>12
  <2>15. Typed'
    BY <1>0, <1>2, <1>6, <2>10, <2>13, <2>14 DEF Typed
  <2> QED BY <1>7, <1>8, <2>13, <2>15 DEF IInv
<1> QED BY <1>1, <1>3, <1>4, <1>9, <1>10 DEF Poll, Finished

-----------------------------------------------------------------------------
(* The theorems.                                                           *)

\* No session, nothing under way.
LEMMA InitInvariant == Init => IInv
<1> SUFFICES ASSUME Init PROVE IInv
  OBVIOUS
<1>1. limit \in Limits /\ limit.seq \in SeqNo
  BY RookAssumption DEF Init, SeqNo
<1>2. ASSUME NEW s \in Side
      PROVE  [NewConn(s) EXCEPT !.st = "start"] \in End /\ [NewConn(s) EXCEPT !.st = "start"].st = "start"
  <2>1. 1 \in SeqNo /\ 0 \in 0 .. DeadAfter + 1 /\ 0 \in 0 .. PingIdle + 1 /\ SeqSpace \in 0 .. SeqSpace
    BY Spaces DEF SeqNo
  <2>2. [w \in Window |-> SeqSpace] \in [Window -> 0 .. SeqSpace]
    BY <2>1
  <2>3. NewConn(s) \in End
    BY <1>1, <2>1, <2>2, NoFrags DEF NewConn, End
  <2> QED BY <2>3 DEF End
<1>3. conn \in [Side -> End] /\ \A s \in Side : conn[s].st = "start"
  BY <1>2 DEF Init
<1>4. Typed
  <2>1. nat \in BOOLEAN
    BY DEF Init
  <2>2. out \in [Side -> Seq(SessionRecord)] /\ pipe \in [Side -> Seq(AnyRecord)] /\ got \in [Side -> Seq(Delivery)]
    BY DEF Init
  <2>3. sent \in [tcp : Nat, udp : Nat]
    BY DEF Init
  <2> QED BY <1>1, <1>3, <2>1, <2>2, <2>3 DEF Typed, Init
<1>5. \A s \in Side : pipe[s] = <<>> /\ got[s] = <<>> /\ Len(<<>>) = 0
  BY DEF Init
<1>6. PipesBounded /\ Strangers
  BY <1>3, <1>5, Spaces DEF PipesBounded, Strangers, Side
<1>7. DatagramsOK
  BY <1>3, <1>5 DEF Init, DatagramsOK, Unspoken, Numbered, Aged, Ordered, Obsolete, Rising
<1> QED BY <1>4, <1>6, <1>7 DEF IInv

\* Every step keeps the invariant.
LEMMA NextInvariant == IInv /\ [Next]_vars => IInv'
<1> SUFFICES ASSUME IInv, [Next]_vars PROVE IInv'
  OBVIOUS
<1>0. Typed /\ PipesBounded /\ Strangers /\ DatagramsOK
  BY DEF IInv
<1>1. CASE ClientConnect
  BY <1>0, <1>1, ClientConnectStep, QuietStep DEF IInv
<1>2. CASE HostRespond
  BY <1>0, <1>2, HostRespondStep, QuietStep DEF IInv
<1>3. CASE RecvHello2
  BY <1>3, RecvHello2Step
<1>4. CASE RecvConfirm3
  BY <1>4, RecvConfirm3Step
<1>5. ASSUME NEW s \in Side, HandshakeEof(s) \/ Close(s) \/ Vanish(s) \/ Wedge(s) PROVE IInv'
  <2>1. PICK how \in {"closed", "vanished", "wedged"} : conn' = [conn EXCEPT ![s] = Ended(s, how)]
    BY <1>5 DEF HandshakeEof, Close, Vanish, Wedge, FallSilent
  <2>2. out' \in [Side -> Seq(SessionRecord)] /\ pipe' = pipe /\ UNCHANGED <<psk, nat, net, sent, got, limit>>
    <3>1. CASE Vanish(s) \/ Wedge(s)
      <4>1. /\ out' = [out EXCEPT ![s] = <<>>] /\ pipe' = pipe
            /\ UNCHANGED <<psk, nat, net, sent, got, limit>>
        BY <3>1 DEF Vanish, Wedge, FallSilent
      <4> QED BY <1>0, <4>1 DEF Typed
    <3>2. CASE HandshakeEof(s) \/ Close(s)
      BY <1>0, <3>2 DEF HandshakeEof, Close, Typed
    <3> QED BY <1>5, <3>1, <3>2
  <2>3. Typed' /\ Quiet /\ PipesBounded' /\ Strangers'
    BY <1>0, <2>1, <2>2, EndsStep
  <2> QED BY <1>0, <2>3, QuietStep DEF IInv
<1>6. CASE Tick
  BY <1>6, TickStep
<1>7. ASSUME NEW s \in Side, SendTcp(s) \/ SendUdpInVain(s) \/ Write(s) \/ WriteFails(s) PROVE IInv'
  BY <1>7, SendTcpStep, SendUdpInVainStep, WriteStep, WriteFailsStep
<1>8. ASSUME NEW s \in Side, Polls(s) PROVE IInv'
  <2>1. {} \in SUBSET Arrivals(s) /\ Arrivals(s) \in SUBSET Arrivals(s)
    OBVIOUS
  <2> QED BY <1>8, <2>1, PollStep, PollKeepaliveStep DEF Polls
<1>9. ASSUME NEW s \in Side, NEW kind \in {"data", "frag"}, NEW w \in Window, SendUdp(s, kind, w)
      PROVE  IInv'
  BY <1>9, SendUdpStep
<1>10. CASE UNCHANGED vars
  <2>1. Typed' /\ PipesBounded' /\ Strangers'
    BY <1>0, <1>10 DEF vars, Typed, PipesBounded, Strangers
  <2>2. Quiet
    BY <1>10 DEF vars, Quiet
  <2> QED BY <1>0, <2>1, <2>2, QuietStep DEF IInv
<1> QED BY <1>1, <1>2, <1>3, <1>4, <1>5, <1>6, <1>7, <1>8, <1>9, <1>10 DEF Next, Handshake

\* The inductive invariant of a Rook session.
THEOREM RookInvariant == Spec => []IInv
BY InitInvariant, NextInvariant, PTL DEF Spec

\* Both ends stay well formed, sets of fragments incomplete, and connections within
\* what they hold.
THEOREM TypeCorrect == Spec => []TypeOK
<1>1. IInv => TypeOK
  <2> SUFFICES ASSUME IInv PROVE TypeOK
    OBVIOUS
  <2>1. Typed /\ PipesBounded
    BY DEF IInv
  <2>2. ASSUME NEW s \in Side, NEW c \in End
        PROVE  /\ c.st \in {"start", "hello", "confirm", "up", "closed", "vanished", "wedged"}
               /\ {c.alive, c.bound, c.polled} \subseteq BOOLEAN /\ c.pc \in {"run", "keepalive"}
               /\ c.peer \in {"advertised", "translated"}
               /\ {c.seq, c.mid} \subseteq 0 .. SeqSpace - 1 /\ c.last \in [Window -> 0 .. SeqSpace]
               /\ \A f \in DOMAIN c.frags : /\ c.frags[f].idx \subseteq 1 .. Parts
                                            /\ c.frags[f].n < Parts
               /\ c.rx \in 0 .. DeadAfter + 1 /\ c.tx \in 0 .. PingIdle + 1 /\ c.ping \in 0 .. PingIdle + 1
    <3>1. PICK F \in SUBSET SeqNo : c.frags \in [F -> PartSet]
      BY DEF End, FragSets
    <3>2. \A f \in DOMAIN c.frags : c.frags[f].idx \subseteq 1 .. Parts /\ c.frags[f].n < Parts
      BY <3>1, Spaces DEF PartSet
    <3>3. /\ c.st \in {"start", "hello", "confirm", "up", "closed", "vanished", "wedged"}
          /\ c.pc \in {"run", "keepalive"}
          /\ c.peer \in {"advertised", "translated"}
          /\ {c.seq, c.mid} \subseteq 0 .. SeqSpace - 1 /\ c.last \in [Window -> 0 .. SeqSpace]
          /\ c.rx \in 0 .. DeadAfter + 1 /\ c.tx \in 0 .. PingIdle + 1 /\ c.ping \in 0 .. PingIdle + 1
      BY DEF End, SeqNo
    <3>4. c.alive \in BOOLEAN /\ c.bound \in BOOLEAN /\ c.polled \in BOOLEAN
      BY DEF End
    <3> QED BY <3>2, <3>3, <3>4
  <2> QED BY <2>1, <2>2 DEF Typed, PipesBounded, TypeOK
<1> QED BY <1>1, RookInvariant, PTL

\* Per window the DATA messages delivered are in the order of sending, each at most
\* once, whatever UDP does and however often the sequence numbers wrap.
THEOREM DeliveryInOrder == Spec => []LatestWins
<1>1. IInv => LatestWins
  <2> SUFFICES ASSUME IInv PROVE LatestWins
    OBVIOUS
  <2>1. \A s \in Side : DOMAIN got[s] = 1 .. Len(got[s])
    BY DEF IInv, Typed
  <2> QED BY <2>1 DEF IInv, DatagramsOK, Rising, LatestWins
<1> QED BY <1>1, RookInvariant, PTL

\* A fragmented message is delivered with all of its fragments.
THEOREM MessagesWhole == Spec => []WholeMessages
<1>1. IInv => WholeMessages
  <2> SUFFICES ASSUME IInv, NEW s \in Side, NEW i \in DOMAIN got[s], got[s][i].type = "frag"
               PROVE  got[s][i].idx = 1 .. Parts
    BY DEF WholeMessages
  <2>1. got[s] \in Seq(Delivery)
    BY DEF IInv, Typed
  <2>2. got[s][i] \in Delivery
    BY <2>1
  <2> QED BY <2>2 DEF Delivery
<1> QED BY <1>1, RookInvariant, PTL

-----------------------------------------------------------------------------
(* The keepalive of a session without datagrams.                           *)

Steady == ~limit.vain /\ sent.udp = 0

\* The handshake: the host comes up after the client, and until it has read the
\* client's proof no second passes, so the client's clocks stand still.
Joining ==
  /\ \A s \in Side : conn[s].st # "up" => conn[s].alive
  /\ conn["client"].st # "confirm" /\ conn["host"].st # "hello"
  /\ conn["client"].st = "start" => conn["host"].st = "start" /\ pipe["host"] = <<>>
  /\ conn["client"].st = "hello" /\ conn["host"].st = "start" =>
       Len(pipe["client"]) = 1 /\ pipe["host"] = <<>>
  /\ conn["client"].st = "hello" /\ conn["host"].st = "confirm" => pipe["client"] = <<>>
  /\ conn["client"].st = "up" => conn["host"].st \in {"confirm", "up", "closed", "vanished", "wedged"}
  /\ conn["host"].st = "up" => conn["client"].st \in {"up", "closed", "vanished", "wedged"}
  /\ conn["client"].st = "up" /\ conn["host"].st = "confirm" =>
       /\ pipe["client"] # <<>>
       /\ conn["client"].rx = 0 /\ conn["client"].tx = 0 /\ conn["client"].ping = 0

\* A side waits for room while it writes.
Stuck(s) == out[s] # <<>> /\ Len(pipe[s]) = TcpCap

\* Once s has read everything, it has not been silent around it for longer than the
\* other side has not spoken.
Hears(s) == pipe[Other(s)] = <<>> => conn[s].rx <= conn[Other(s)].tx

\* A side that has polled has spoken within PING_IDLE, or a PING is on its way.
Speaks(s) ==
  /\ conn[s].polled /\ conn[s].pc = "run" /\ out[s] = <<>> => conn[s].tx <= PingIdle
  /\ out[s] = <<Framed("ping")>> \/ conn[s].tx <= conn[s].ping

\* A side in the middle of a poll has just heard the other; or a second ago, and then
\* the other is about to read, or has read, and its answers have room; or both wait for
\* ever.
Replies(s) ==
  conn[s].pc = "keepalive" =>
    \/ conn[s].rx = 0
    \/ /\ conn[s].rx = 1
       /\ \/ ~conn[Other(s)].polled /\ conn[Other(s)].pc = "run"
          \/ Len(pipe[s]) + Len(out[s]) <= TcpCap
    \/ Stuck(s) /\ Stuck(Other(s))

Lively(s) == Hears(s) /\ Speaks(s) /\ Replies(s)

\* What a side writes at once has room in an empty connection.
Brief == \A s \in Side : Len(out[s]) <= TcpCap

BothUp == \A s \in Side : conn[s].st = "up"

LifeInv == Joining /\ Brief /\ NoFalseDeath /\ (Steady /\ BothUp => \A s \in Side : Lively(s))

\* The two sides.
LEMMA TwoSides ==
  ASSUME NEW s \in Side
  PROVE  /\ Other(s) \in Side /\ Other(s) # s /\ Other(Other(s)) = s
         /\ \A t \in Side : t = s \/ t = Other(s)
         /\ "client" \in Side /\ "host" \in Side
         /\ Other("client") = "host" /\ Other("host") = "client"
BY DEF Side, Other

\* PING_IDLE is shorter than DEAD_AFTER.
LEMMA Durations ==
  PingIdle \in Nat /\ DeadAfter \in Nat /\ 1 <= PingIdle /\ PingIdle + 1 <= DeadAfter
  /\ TcpCap \in Nat /\ 1 <= TcpCap
BY RookAssumption

\* service_keepalive at an end that has heard the other in time sends a PING if it
\* has long not spoken, and has not just sent one.
LEMMA ServicedClocks ==
  ASSUME NEW c \in End, c.rx <= DeadAfter
  PROVE  /\ Serviced(c).c.alive = c.alive /\ Serviced(c).c.rx = c.rx /\ Serviced(c).c.tx = c.tx
         /\ Serviced(c).c.pc = "run" /\ Serviced(c).c.polled = TRUE
         /\ \/ Serviced(c).out = <<Framed("ping")>> /\ c.tx > PingIdle
            \/ /\ Serviced(c).out = <<>> /\ Serviced(c).c.ping = c.ping
               /\ c.tx <= PingIdle \/ c.ping <= PingIdle
<1>1. c.rx \in Nat /\ c.tx \in Nat /\ c.ping \in Nat
  BY Durations DEF End
<1>2. ~(c.rx > DeadAfter)
  BY <1>1, Durations
<1>3. CASE c.tx > PingIdle /\ c.ping > PingIdle
  <2>1. PICK e : e = [c EXCEPT !.ping = 0]
    OBVIOUS
  <2>2. Keepalive(c) = [c |-> e, out |-> <<Framed("ping")>>]
    BY <1>2, <1>3, <2>1 DEF Keepalive
  <2>3. /\ DOMAIN e = DOMAIN c /\ e.alive = c.alive /\ e.rx = c.rx /\ e.tx = c.tx
        /\ "pc" \in DOMAIN e /\ "polled" \in DOMAIN e
    BY <2>1 DEF End
  <2>4. PICK w : w = <<Framed("ping")>>
    OBVIOUS
  <2>5. Serviced(c) = [c |-> [e EXCEPT !.pc = "run", !.polled = TRUE], out |-> w]
    <3>1. Serviced(c) = [[c |-> e, out |-> w] EXCEPT !.c.pc = "run", !.c.polled = TRUE]
      BY <2>2, <2>4 DEF Serviced
    <3>2. e \in End
      BY <2>1, Durations DEF End
    <3>3. PICK g : g = [e EXCEPT !.pc = "run", !.polled = TRUE]
      OBVIOUS
    <3> QED BY <3>1, <3>2, <3>3 DEF End
  <2>6. Serviced(c).c = [e EXCEPT !.pc = "run", !.polled = TRUE] /\ Serviced(c).out = w
    BY <2>5
  <2>7. e \in End
    BY <2>1, Durations DEF End
  <2> QED BY <1>3, <2>3, <2>4, <2>6, <2>7 DEF End
<1>4. CASE ~(c.tx > PingIdle /\ c.ping > PingIdle)
  <2>2. Keepalive(c) = [c |-> c, out |-> <<>>]
    BY <1>2, <1>4 DEF Keepalive
  <2>5. Serviced(c) = [c |-> [c EXCEPT !.pc = "run", !.polled = TRUE], out |-> <<>>]
    <3>1. Serviced(c) = [[c |-> c, out |-> <<>>] EXCEPT !.c.pc = "run", !.c.polled = TRUE]
      BY <2>2 DEF Serviced
    <3>2. PICK g : g = [c EXCEPT !.pc = "run", !.polled = TRUE]
      OBVIOUS
    <3> QED BY <3>1, <3>2 DEF End
  <2>6. Serviced(c).c = [c EXCEPT !.pc = "run", !.polled = TRUE] /\ Serviced(c).out = <<>>
    BY <2>5
  <2>7. c.tx <= PingIdle \/ c.ping <= PingIdle
    BY <1>1, <1>4, Durations
  <2> QED BY <2>6, <2>7 DEF End
<1> QED BY <1>3, <1>4

\* A datagram is a sign of life, and changes nothing else the keepalive looks at.
LEMMA DatagramClocks ==
  ASSUME NEW c \in End, NEW d \in Datagram, nat \in BOOLEAN
  PROVE  /\ OnDatagram(c, d).rx = 0 /\ OnDatagram(c, d).tx = c.tx
         /\ OnDatagram(c, d).ping = c.ping /\ OnDatagram(c, d).alive = c.alive
<1>1. PICK h : h = Heard(c, Address(d.from))
  OBVIOUS
<1>2. PICK a : a = Address(d.from)
  OBVIOUS
<1>3. h.rx = 0 /\ h.tx = c.tx /\ h.ping = c.ping /\ h.alive = c.alive /\ DOMAIN h = DOMAIN c
  BY <1>1, <1>2 DEF Heard, End
<1>4. PICK D : D = DOMAIN c /\ {"rx", "tx", "ping", "alive", "last", "frags"} \subseteq D
  BY DEF End
<1>5. h = [f \in D |-> h[f]]
  BY <1>1, <1>2, <1>4 DEF Heard, End
<1>6. CASE d.type = "hello"
  BY <1>1, <1>3, <1>6 DEF OnDatagram
<1>7. CASE d.type = "data"
  <2>1. PICK l : OnDatagram(c, d) = h \/ OnDatagram(c, d) = [h EXCEPT !.last = l]
    <3>1. PICK l : l = [h.last EXCEPT ![d.win] = d.seq]
      OBVIOUS
    <3>2. [h EXCEPT !.last[d.win] = d.seq] = [h EXCEPT !.last = l]
      BY <3>1
    <3> QED BY <1>1, <1>7, <3>2 DEF OnDatagram
  <2> QED BY <1>3, <1>4, <1>5, <2>1
<1>8. CASE d.type = "frag"
  <2>1. PICK l : OnDatagram(c, d) = [h EXCEPT !.frags = l]
    BY <1>1, <1>8 DEF OnDatagram, OnFrag
  <2> QED BY <1>3, <1>4, <1>5, <2>1
<1> QED BY <1>6, <1>7, <1>8 DEF Datagram, Hello, Data, Frag

\* There are as many answers as PINGs, so they fit into an empty connection.
LEMMA OnCtrlLength ==
  ASSUME NEW ms \in Seq(AnyRecord)
  PROVE  Len(OnCtrl(ms)) \in Nat /\ Len(OnCtrl(ms)) <= Len(ms) /\ (ms = <<>> => OnCtrl(ms) = <<>>)
<1>1. PICK P : P = {i \in DOMAIN ms : ms[i].kind = "ping"}
  OBVIOUS
<1>2. Len(ms) \in Nat /\ DOMAIN ms = 1 .. Len(ms)
  OBVIOUS
<1>3. IsFiniteSet(1 .. Len(ms)) /\ Cardinality(1 .. Len(ms)) = Len(ms)
  <2>1. 1 \in Int /\ Len(ms) \in Int
    BY <1>2
  <2> QED BY <1>2, <2>1, FS_Interval
<1>4. P \subseteq 1 .. Len(ms)
  BY <1>1, <1>2
<1>5. PICK n \in Nat : n = Cardinality(P) /\ n <= Len(ms)
  <2>1. IsFiniteSet(P) /\ Cardinality(P) <= Cardinality(1 .. Len(ms))
    BY <1>3, <1>4, FS_Subset
  <2> QED BY <1>3, <2>1, FS_CardinalityType
<1>6. OnCtrl(ms) = [i \in 1 .. n |-> Framed("pong")]
  BY <1>1, <1>5 DEF OnCtrl
<1>7. OnCtrl(ms) \in Seq(SessionRecord)
  BY OnCtrlType
<1>8. PICK w \in Seq(SessionRecord) : w = OnCtrl(ms)
  BY <1>7
<1>9. Len(w) = n
  <2>1. DOMAIN w = 1 .. n /\ DOMAIN w = 1 .. Len(w) /\ Len(w) \in Nat
    BY <1>6, <1>8
  <2> QED BY <2>1
<1>10. ms = <<>> => w = <<>>
  BY <1>5, <1>9
<1> QED BY <1>5, <1>8, <1>9, <1>10

\* An end that is up keeps or changes its clocks; the other end does nothing.
Turn(s, e, w) ==
  /\ conn' = [conn EXCEPT ![s] = e] /\ out' = [out EXCEPT ![s] = w]
  /\ limit' = limit /\ sent'.udp = sent.udp

\* The ends after such a step.
LEMMA TurnEnds ==
  ASSUME Typed, NEW s \in Side, NEW e \in End, NEW w \in Seq(SessionRecord), Turn(s, e, w)
  PROVE  /\ conn'[s] = e /\ conn'[Other(s)] = conn[Other(s)]
         /\ out'[s] = w /\ out'[Other(s)] = out[Other(s)]
         /\ Steady' <=> Steady
BY TwoSides DEF Typed, Turn, Steady

\* Only the other side's going away ends a session.
LEMMA AliveStep ==
  ASSUME Typed, LifeInv, NEW s \in Side, NEW e \in End, NEW w \in Seq(SessionRecord), Turn(s, e, w),
         conn[s].st = "up", e.st = "up",
         Steady /\ ~e.alive => Closed(Other(s)) \/ Silent(Other(s))
  PROVE  NoFalseDeath'
<1>1. /\ conn'[s] = e /\ conn'[Other(s)] = conn[Other(s)] /\ (Steady' <=> Steady)
  BY TurnEnds
<1>2. (~limit.vain /\ sent.udp = 0)' <=> Steady
  BY <1>1 DEF Steady
<1>3. ASSUME NEW t \in Side, conn'[t].st = "up", ~conn'[t].alive, Steady
      PROVE  conn'[Other(t)].st \in {"closed", "vanished", "wedged"}
  <2>1. CASE t = s
    BY <1>1, <1>3, <2>1 DEF Closed, Silent
  <2>2. CASE t = Other(s)
    BY <1>1, <1>3, <2>2, TwoSides DEF LifeInv, NoFalseDeath, Up, Closed, Silent, Steady
  <2> QED BY <2>1, <2>2, TwoSides
<1> QED BY <1>2, <1>3 DEF NoFalseDeath, Up, Closed, Silent

\* The handshake does not notice either, if the client's clocks stand still meanwhile.
LEMMA JoiningStep ==
  ASSUME Typed, LifeInv, NEW s \in Side, NEW e \in End, NEW w \in Seq(SessionRecord), Turn(s, e, w),
         conn[s].st = "up", e.st = "up",
         pipe[s] # <<>> => pipe'[s] # <<>>,
         conn[Other(s)].st = "confirm" /\ conn[s].rx = 0 /\ conn[s].tx = 0 /\ conn[s].ping = 0
           => e.rx = 0 /\ e.tx = 0 /\ e.ping = 0
  PROVE  Joining'
<1>1. conn'[s] = e /\ conn'[Other(s)] = conn[Other(s)]
  BY TurnEnds
<1>2. Joining
  BY DEF LifeInv
<1>3. CASE s = "client"
  <2>1. conn'["client"] = e /\ conn'["host"] = conn["host"] /\ conn["client"].st = "up"
    BY <1>1, <1>3, TwoSides
  <2> QED BY <1>2, <1>3, <2>1, TwoSides DEF Joining, Side
<1>4. CASE s = "host"
  <2>1. conn'["host"] = e /\ conn'["client"] = conn["client"] /\ conn["host"].st = "up"
    BY <1>1, <1>4, TwoSides
  <2> QED BY <1>2, <1>4, <2>1, TwoSides DEF Joining, Side
<1> QED BY <1>3, <1>4 DEF Side

\* An application sends a record.
LEMMA SendTcpLife ==
  ASSUME Typed, LifeInv, NEW s \in Side, SendTcp(s)
  PROVE  LifeInv'
<1>1. /\ conn[s].st = "up" /\ conn[s].pc = "run" /\ out[s] = <<>>
      /\ UNCHANGED <<conn, pipe, limit>>
      /\ out' = [out EXCEPT ![s] = <<Framed("msg")>>] /\ sent' = [sent EXCEPT !.tcp = @ + 1]
  BY DEF SendTcp, Running, Up
<1>2. PICK w \in Seq(SessionRecord) : w = <<Framed("msg")>> /\ w # <<>> /\ Len(w) = 1
  <2>1. Framed("msg") \in SessionRecord
    BY DEF Framed, SessionRecord
  <2>2. <<Framed("msg")>> \in Seq(SessionRecord) /\ <<Framed("msg")>> # <<>> /\ Len(<<Framed("msg")>>) = 1
    BY <2>1
  <2> QED BY <2>2
<1>3. PICK e \in End : e = conn[s]
  BY DEF Typed
<1>4. Turn(s, e, w)
  <2>1. sent'.udp = sent.udp
    BY <1>1 DEF Typed
  <2>2. conn' = [conn EXCEPT ![s] = e]
    BY <1>1, <1>3 DEF Typed
  <2> QED BY <1>1, <1>2, <2>1, <2>2 DEF Turn
<1>5. /\ conn'[s] = e /\ conn'[Other(s)] = conn[Other(s)]
      /\ out'[s] = w /\ out'[Other(s)] = out[Other(s)] /\ (Steady' <=> Steady)
  BY <1>4, TurnEnds
<1>6. Joining' /\ NoFalseDeath'
  <2>1. Steady /\ ~e.alive => Closed(Other(s)) \/ Silent(Other(s))
    BY <1>1, <1>3 DEF LifeInv, NoFalseDeath, Steady, Up
  <2> QED BY <1>1, <1>3, <1>4, <2>1, AliveStep, JoiningStep
<1>7. Brief'
  BY <1>2, <1>5, TwoSides, Durations DEF LifeInv, Brief
<1>8. ASSUME Steady', BothUp' PROVE Lively(s)' /\ Lively(Other(s))'
  <2>1. Lively(s) /\ Lively(Other(s))
    BY <1>1, <1>5, <1>8, TwoSides DEF LifeInv, BothUp
  <2>2. Hears(s)' /\ Hears(Other(s))'
    BY <1>1, <2>1, TwoSides DEF Lively, Hears
  <2>3. Speaks(s)' /\ Speaks(Other(s))'
    BY <1>1, <1>2, <1>5, <2>1, TwoSides DEF Lively, Speaks
  <2>4. Replies(s)' /\ Replies(Other(s))'
    BY <1>1, <1>5, <2>1, TwoSides DEF Lively, Replies, Stuck
  <2> QED BY <2>2, <2>3, <2>4 DEF Lively
<1> QED BY <1>6, <1>7, <1>8, TwoSides DEF LifeInv

\* A record is written where there is room: its writer has spoken.
LEMMA WriteLife ==
  ASSUME Typed, LifeInv, NEW s \in Side, Write(s)
  PROVE  LifeInv'
<1>1. /\ conn[s].st = "up" /\ out[s] # <<>> /\ Len(pipe[s]) < TcpCap
      /\ limit' = limit /\ sent' = sent
      /\ pipe' = [pipe EXCEPT ![s] = Append(@, Head(out[s]))]
      /\ out' = [out EXCEPT ![s] = Tail(@)]
      /\ conn' = [conn EXCEPT ![s].tx = 0]
  BY DEF Write, Up
<1>2. PICK e \in End :
        /\ e = [conn[s] EXCEPT !.tx = 0] /\ e.st = conn[s].st /\ e.alive = conn[s].alive
        /\ e.rx = conn[s].rx /\ e.tx = 0 /\ e.ping = conn[s].ping /\ e.pc = conn[s].pc
        /\ e.polled = conn[s].polled
  <2>1. conn[s] \in End /\ 0 \in 0 .. PingIdle + 1
    BY Spaces DEF Typed
  <2>2. [conn[s] EXCEPT !.tx = 0] \in End
    BY <2>1 DEF End
  <2> QED BY <2>1, <2>2 DEF End
<1>3. PICK q \in Seq(SessionRecord) : q = out[s]
  BY DEF Typed
<1>4. PICK v \in Seq(AnyRecord) : v = pipe[s]
  BY DEF Typed
<1>5. PICK w \in Seq(SessionRecord) : w = Tail(q) /\ Len(w) = Len(q) - 1
  <2>1. q # <<>>
    BY <1>1, <1>3
  <2>2. Tail(q) \in Seq(SessionRecord) /\ Len(Tail(q)) = Len(q) - 1
    BY <2>1
  <2> QED BY <2>2
<1>6. PICK x : x = Head(q) /\ Len(Append(v, x)) = Len(v) + 1 /\ Append(v, x) # <<>>
  <2>1. Head(q) \in AnyRecord
    <3>1. Head(q) \in SessionRecord
      BY <1>1, <1>3
    <3> QED BY <3>1 DEF AnyRecord
  <2>2. PICK x \in AnyRecord : x = Head(q)
    BY <2>1
  <2>3. Len(Append(v, x)) = Len(v) + 1 /\ Append(v, x) # <<>>
    OBVIOUS
  <2> QED BY <2>2, <2>3
<1>7. pipe'[s] = Append(v, x) /\ pipe'[Other(s)] = pipe[Other(s)]
  BY <1>1, <1>3, <1>4, <1>6, TwoSides DEF Typed
<1>8. Turn(s, e, w)
  BY <1>1, <1>2, <1>3, <1>5 DEF Turn
<1>9. /\ conn'[s] = e /\ conn'[Other(s)] = conn[Other(s)]
      /\ out'[s] = w /\ out'[Other(s)] = out[Other(s)] /\ (Steady' <=> Steady)
  BY <1>8, TurnEnds
<1>10. Joining' /\ NoFalseDeath'
  <2>1. Steady /\ ~e.alive => Closed(Other(s)) \/ Silent(Other(s))
    BY <1>1, <1>2 DEF LifeInv, NoFalseDeath, Steady, Up
  <2> QED BY <1>1, <1>2, <1>6, <1>7, <1>8, <2>1, AliveStep, JoiningStep
<1>11. Brief'
  <2>1. Len(q) \in Nat /\ Len(q) <= TcpCap
    BY <1>3 DEF LifeInv, Brief
  <2>2. Len(w) <= TcpCap
    BY <1>5, <2>1, Durations
  <2> QED BY <1>9, <2>2, TwoSides DEF LifeInv, Brief
<1>12. ASSUME Steady', BothUp' PROVE Lively(s)' /\ Lively(Other(s))'
  <2>1. Lively(s) /\ Lively(Other(s))
    BY <1>1, <1>2, <1>9, <1>12, TwoSides DEF LifeInv, BothUp
  <2>2. Hears(s)' /\ Hears(Other(s))'
    BY <1>2, <1>6, <1>7, <1>9, <2>1, TwoSides DEF Lively, Hears
  <2>3. Speaks(s)' /\ Speaks(Other(s))'
    <3>1. 0 <= PingIdle /\ 0 <= e.ping
      BY Durations DEF End
    <3> QED BY <1>2, <1>9, <2>1, <3>1, TwoSides DEF Lively, Speaks
  <2>4. Len(pipe'[s]) + Len(out'[s]) = Len(pipe[s]) + Len(out[s])
    <3>1. PICK i \in Nat, j \in Nat : i = Len(v) /\ j = Len(q)
      <4>1. Len(v) \in Nat /\ Len(q) \in Nat
        OBVIOUS
      <4> QED BY <4>1
    <3>2. Len(pipe'[s]) = i + 1 /\ Len(pipe[s]) = i
      BY <1>4, <1>6, <1>7, <3>1
    <3>3. Len(out'[s]) = j - 1 /\ Len(out[s]) = j
      BY <1>3, <1>5, <1>9, <3>1
    <3> QED BY <3>2, <3>3
  <2>5. ~Stuck(s)
    BY <1>1, Durations DEF Stuck
  <2>6. Replies(s)'
    BY <1>2, <1>9, <2>1, <2>4, <2>5, TwoSides DEF Lively, Replies
  <2>7. Replies(Other(s))'
    BY <1>2, <1>7, <1>9, <2>1, <2>5, TwoSides DEF Lively, Replies
  <2> QED BY <2>2, <2>3, <2>6, <2>7 DEF Lively
<1> QED BY <1>10, <1>11, <1>12, TwoSides DEF LifeInv

\* A write fails only when the other side has gone.
LEMMA WriteFailsLife ==
  ASSUME Typed, LifeInv, NEW s \in Side, WriteFails(s)
  PROVE  LifeInv'
<1>1. /\ conn[s].st = "up" /\ limit' = limit /\ sent' = sent /\ pipe' = pipe
      /\ Closed(Other(s)) \/ Silent(Other(s))
      /\ out' = [out EXCEPT ![s] = <<>>]
      /\ conn' = [conn EXCEPT ![s].alive = FALSE]
  BY DEF WriteFails, Up
<1>2. PICK e \in End : e = [conn[s] EXCEPT !.alive = FALSE] /\ e.st = conn[s].st
  <2>1. conn[s] \in End
    BY DEF Typed
  <2>2. [conn[s] EXCEPT !.alive = FALSE] \in End
    BY <2>1 DEF End
  <2> QED BY <2>1, <2>2 DEF End
<1>3. PICK w \in Seq(SessionRecord) : w = <<>> /\ Len(w) = 0
  <2>1. <<>> \in Seq(SessionRecord) /\ Len(<<>>) = 0
    OBVIOUS
  <2> QED BY <2>1
<1>4. Turn(s, e, w)
  BY <1>1, <1>2, <1>3 DEF Turn
<1>5. /\ conn'[s] = e /\ conn'[Other(s)] = conn[Other(s)]
      /\ out'[s] = w /\ out'[Other(s)] = out[Other(s)]
  BY <1>4, TurnEnds
<1>6. conn[Other(s)].st \in {"closed", "vanished", "wedged"}
  BY <1>1 DEF Closed, Silent
<1>7. Joining' /\ NoFalseDeath'
  BY <1>1, <1>2, <1>4, <1>6, AliveStep, JoiningStep
<1>8. Brief'
  BY <1>3, <1>5, TwoSides, Durations DEF LifeInv, Brief
<1>9. ~BothUp'
  BY <1>5, <1>6, TwoSides DEF BothUp
<1> QED BY <1>7, <1>8, <1>9 DEF LifeInv

\* The end of a poll: the end has heard the other within the second, or the other has
\* not been silent for longer than PING_IDLE and a second.
LEMMA ServicedLife ==
  ASSUME Typed, LifeInv, NEW s \in Side, NEW c \in End, conn[s].st = "up", out[s] = <<>>,
         c.st = "up", c.tx = conn[s].tx, c.ping = conn[s].ping,
         c.alive = (conn[s].alive /\ ~Closed(Other(s))),
         c.rx = 0 \/ c.rx = conn[s].rx,
         Turn(s, Serviced(c).c, Serviced(c).out),
         pipe'[s] = pipe[s],
         Steady /\ BothUp => c.rx <= DeadAfter /\ (pipe'[Other(s)] = <<>> => c.rx <= conn[Other(s)].tx),
         Steady /\ BothUp => \/ pipe'[Other(s)] = <<>>
                             \/ pipe'[Other(s)] = pipe[Other(s)] /\ conn[s].pc = "keepalive"
  PROVE  LifeInv'
<1>1. PICK e \in End : e = Serviced(c).c /\ e.st = "up"
  BY ServicedType
<1>2. PICK w \in Seq(SessionRecord) : w = Serviced(c).out
  BY ServicedType
<1>3. Turn(s, e, w)
  BY <1>1, <1>2
<1>4. /\ conn'[s] = e /\ conn'[Other(s)] = conn[Other(s)]
      /\ out'[s] = w /\ out'[Other(s)] = out[Other(s)] /\ (Steady' <=> Steady)
  BY <1>3, TurnEnds
<1>5. ASSUME c.rx <= DeadAfter
      PROVE  /\ e.alive = c.alive /\ e.rx = c.rx /\ e.tx = c.tx /\ e.pc = "run" /\ e.polled = TRUE
             /\ \/ w = <<Framed("ping")>> /\ c.tx > PingIdle
                \/ /\ w = <<>> /\ e.ping = c.ping
                   /\ c.tx <= PingIdle \/ c.ping <= PingIdle
  BY <1>1, <1>2, <1>5, ServicedClocks
<1>6. /\ c.rx \in Nat /\ c.tx \in Nat /\ c.ping \in Nat
      /\ conn[Other(s)].st \in {"start", "hello", "confirm", "up", "closed", "vanished", "wedged"}
  <2>1. c.rx \in Nat /\ c.tx \in Nat /\ c.ping \in Nat
    BY Durations DEF End
  <2>2. conn[Other(s)] \in End
    BY TwoSides DEF Typed
  <2> QED BY <2>1, <2>2 DEF End
<1>7. ASSUME conn[Other(s)].st = "confirm"
      PROVE  conn[s].rx = 0 /\ conn[s].tx = 0 /\ conn[s].ping = 0
  <2>1. s = "client" /\ Other(s) = "host"
    <3>1. CASE s = "host"
      BY <3>1, <1>7, TwoSides DEF LifeInv, Joining
    <3> QED BY <3>1, TwoSides DEF Side
  <2> QED BY <1>7, <2>1 DEF LifeInv, Joining
<1>8. conn[Other(s)].st \in {"confirm", "up", "closed", "vanished", "wedged"}
  BY <1>6, TwoSides DEF LifeInv, Joining, Side
<1>9. conn[Other(s)].st \in {"confirm", "up"} /\ Steady => c.rx <= DeadAfter
  <2>1. CASE conn[Other(s)].st = "confirm"
    BY <1>7, <2>1, Durations
  <2>2. CASE conn[Other(s)].st = "up"
    BY <2>2, TwoSides DEF BothUp
  <2> QED BY <2>1, <2>2
<1>10. NoFalseDeath'
  <2>1. ASSUME Steady, ~e.alive PROVE conn[Other(s)].st \in {"closed", "vanished", "wedged"}
    <3>1. CASE conn[Other(s)].st \in {"confirm", "up"}
      <4>1. e.alive = c.alive
        BY <1>5, <1>9, <2>1, <3>1
      <4>2. ~conn[s].alive
        BY <2>1, <3>1, <4>1 DEF Closed
      <4> QED BY <2>1, <4>2 DEF LifeInv, NoFalseDeath, Steady, Up, Closed, Silent
    <3> QED BY <1>8, <3>1
  <2> QED BY <1>1, <1>3, <2>1, AliveStep DEF Closed, Silent
<1>11. Joining'
  <2>1. ASSUME conn[Other(s)].st = "confirm" PROVE e.rx = 0 /\ e.tx = 0 /\ e.ping = 0
    <3>1. c.rx = 0 /\ c.tx = 0 /\ c.ping = 0 /\ c.rx <= DeadAfter /\ c.tx <= PingIdle
      BY <1>7, <2>1, Durations
    <3>2. e.rx = c.rx /\ e.tx = c.tx /\ e.ping = c.ping
      BY <1>5, <3>1, Durations
    <3> QED BY <3>1, <3>2
  <2> QED BY <1>1, <1>3, <2>1, JoiningStep
<1>12. Brief'
  <2>1. Len(w) <= TcpCap
    <3>1. w = <<>> \/ w = <<Framed("ping")>>
      BY <1>2 DEF Serviced, Keepalive
    <3>2. Len(<<>>) = 0 /\ Len(<<Framed("ping")>>) = 1
      OBVIOUS
    <3>3. CASE w = <<>>
      BY <3>2, <3>3, Durations
    <3>4. CASE w = <<Framed("ping")>>
      BY <3>2, <3>4, Durations
    <3> QED BY <3>1, <3>3, <3>4
  <2> QED BY <1>4, <2>1, TwoSides DEF LifeInv, Brief
<1>13. ASSUME Steady', BothUp' PROVE Lively(s)' /\ Lively(Other(s))'
  <2>1. Steady /\ BothUp /\ Lively(s) /\ Lively(Other(s))
    BY <1>4, <1>13, TwoSides DEF LifeInv, BothUp
  <2>2. /\ e.alive = c.alive /\ e.rx = c.rx /\ e.tx = c.tx /\ e.pc = "run" /\ e.polled = TRUE
        /\ \/ w = <<Framed("ping")>> /\ c.tx > PingIdle
           \/ /\ w = <<>> /\ e.ping = c.ping
              /\ c.tx <= PingIdle \/ c.ping <= PingIdle
    BY <1>5, <2>1
  <2>3. Hears(s)' /\ Hears(Other(s))'
    BY <1>4, <2>1, <2>2, TwoSides DEF Lively, Hears
  <2>4. Speaks(s)'
    <3>1. out[s] # <<Framed("ping")>> /\ <<Framed("ping")>> # <<>>
      OBVIOUS
    <3>2. c.tx <= c.ping
      BY <2>1, <3>1 DEF Lively, Speaks
    <3>3. CASE w = <<Framed("ping")>>
      BY <1>4, <3>1, <3>3 DEF Speaks
    <3>4. CASE w = <<>>
      <4>1. e.ping = c.ping /\ c.tx <= PingIdle
        BY <1>6, <2>2, <3>1, <3>2, <3>4, Durations
      <4> QED BY <1>4, <2>2, <3>2, <4>1 DEF Speaks
    <3> QED BY <2>2, <3>3, <3>4
  <2>5. Speaks(Other(s))'
    BY <1>4, <2>1 DEF Lively, Speaks
  <2>6. Replies(s)'
    BY <1>4, <2>2 DEF Replies
  <2>7. Replies(Other(s))'
    <3>1. ~Stuck(s)
      BY DEF Stuck
    <3>2. CASE pipe'[Other(s)] = <<>>
      <4>1. Len(pipe'[Other(s)]) + Len(out'[Other(s)]) <= TcpCap
        <5>1. Len(out[Other(s)]) \in Nat /\ Len(out[Other(s)]) <= TcpCap /\ Len(<<>>) = 0
          BY TwoSides DEF Typed, LifeInv, Brief
        <5> QED BY <1>4, <3>2, <5>1
      <4>2. conn[Other(s)].pc = "keepalive" => conn[Other(s)].rx \in {0, 1}
        BY <2>1, <3>1, TwoSides DEF Lively, Replies
      <4> QED BY <1>4, <4>1, <4>2 DEF Replies
    <3>3. CASE pipe'[Other(s)] = pipe[Other(s)] /\ conn[s].pc = "keepalive"
      BY <1>4, <2>1, <3>1, <3>3, TwoSides DEF Lively, Replies
    <3> QED BY <2>1, <3>2, <3>3
  <2> QED BY <2>3, <2>4, <2>5, <2>6, <2>7 DEF Lively
<1> QED BY <1>10, <1>11, <1>12, <1>13, TwoSides DEF LifeInv

\* A poll that has PINGs to answer has just heard the other side.
LEMMA AnswerLife ==
  ASSUME Typed, LifeInv, NEW s \in Side, NEW e \in End, NEW w \in Seq(SessionRecord), Turn(s, e, w),
         conn[s].st = "up", out[s] = <<>>, Len(w) <= TcpCap,
         e.st = "up", e.tx = conn[s].tx, e.ping = conn[s].ping, e.rx = 0, e.pc = "keepalive",
         e.alive = (conn[s].alive /\ ~Closed(Other(s))),
         pipe'[s] = pipe[s], pipe'[Other(s)] = <<>>
  PROVE  LifeInv'
<1>4. /\ conn'[s] = e /\ conn'[Other(s)] = conn[Other(s)]
      /\ out'[s] = w /\ out'[Other(s)] = out[Other(s)] /\ (Steady' <=> Steady)
  BY TurnEnds
<1>10. NoFalseDeath'
  <2>1. Steady /\ ~e.alive => Closed(Other(s)) \/ Silent(Other(s))
    BY DEF LifeInv, NoFalseDeath, Steady, Up
  <2> QED BY <2>1, AliveStep
<1>11. Joining'
  BY JoiningStep
<1>12. Brief'
  BY <1>4, TwoSides DEF LifeInv, Brief
<1>13. ASSUME Steady', BothUp' PROVE Lively(s)' /\ Lively(Other(s))'
  <2>1. Steady /\ BothUp /\ Lively(s) /\ Lively(Other(s))
    BY <1>4, <1>13, TwoSides DEF LifeInv, BothUp
  <2>2. conn[Other(s)].tx \in Nat
    <3>1. conn[Other(s)] \in End
      BY TwoSides DEF Typed
    <3> QED BY <3>1, Durations DEF End
  <2>3. Hears(s)' /\ Hears(Other(s))'
    BY <1>4, <2>1, <2>2, TwoSides DEF Lively, Hears
  <2>4. Speaks(s)'
    <3>1. out[s] # <<Framed("ping")>>
      OBVIOUS
    <3>2. e.tx <= e.ping
      BY <2>1, <3>1 DEF Lively, Speaks
    <3> QED BY <1>4, <3>2 DEF Speaks
  <2>5. Speaks(Other(s))'
    BY <1>4, <2>1 DEF Lively, Speaks
  <2>6. Replies(s)'
    BY <1>4 DEF Replies
  <2>7. Replies(Other(s))'
    <3>1. ~Stuck(s)
      BY DEF Stuck
    <3>2. Len(pipe'[Other(s)]) + Len(out'[Other(s)]) <= TcpCap
      <4>1. Len(out[Other(s)]) \in Nat /\ Len(out[Other(s)]) <= TcpCap /\ Len(<<>>) = 0
        BY TwoSides DEF Typed, LifeInv, Brief
      <4> QED BY <1>4, <4>1
    <3>3. conn[Other(s)].pc = "keepalive" => conn[Other(s)].rx \in {0, 1}
      BY <2>1, <3>1, TwoSides DEF Lively, Replies
    <3> QED BY <1>4, <3>2, <3>3 DEF Replies
  <2> QED BY <2>3, <2>4, <2>5, <2>6, <2>7 DEF Lively
<1> QED BY <1>10, <1>11, <1>12, <1>13, TwoSides DEF LifeInv

\* Once s has read everything it has heard the other within DEAD_AFTER.
LEMMA HeardInTime ==
  ASSUME Typed, LifeInv, NEW s \in Side, Steady, BothUp, pipe[Other(s)] = <<>>
  PROVE  conn[s].rx <= conn[Other(s)].tx /\ conn[s].rx <= DeadAfter
<1>1. conn[s].rx <= conn[Other(s)].tx
  BY DEF LifeInv, Lively, Hears
<1>2. conn[s] \in End /\ conn[Other(s)] \in End
  BY TwoSides DEF Typed
<1>3. conn[s].rx \in Nat /\ conn[Other(s)].tx \in Nat /\ conn[Other(s)].tx <= PingIdle + 1
  BY <1>2, Durations DEF End
<1> QED BY <1>1, <1>3, Durations

\* What poll has read, before the keepalive.
HasRead(s, c) ==
  /\ c.st = "up" /\ c.tx = conn[s].tx /\ c.ping = conn[s].ping
  /\ c.alive = (conn[s].alive /\ ~Closed(Other(s)))
  /\ c.rx = 0 \/ c.rx = conn[s].rx
  /\ pipe[Other(s)] # <<>> => c.rx = 0

\* A poll, whatever it has read, answers the PINGs or runs the keepalive.
LEMMA FinishedLife ==
  ASSUME Typed, PipesBounded, LifeInv, NEW s \in Side, NEW c \in End,
         conn[s].st = "up", out[s] = <<>>, HasRead(s, c),
         NEW a, a = OnCtrl(pipe[Other(s)]),
         Turn(s, Finished(c, a).c, Finished(c, a).out),
         pipe' = [pipe EXCEPT ![Other(s)] = <<>>]
  PROVE  LifeInv'
<1>1. pipe[Other(s)] \in Seq(AnyRecord) /\ Len(pipe[Other(s)]) <= TcpCap
  BY TwoSides DEF Typed, PipesBounded
<1>2. /\ a \in Seq(SessionRecord) /\ Len(a) \in Nat /\ Len(a) <= TcpCap
      /\ pipe[Other(s)] = <<>> => a = <<>>
  <2>1. PICK m \in Seq(AnyRecord) : m = pipe[Other(s)]
    BY <1>1
  <2>2. Len(a) \in Nat /\ Len(a) <= Len(m) /\ (m = <<>> => a = <<>>) /\ a \in Seq(SessionRecord)
    BY <2>1, OnCtrlLength, OnCtrlType
  <2>3. Len(m) \in Nat
    OBVIOUS
  <2> QED BY <1>1, <2>1, <2>2, <2>3, Durations
<1>3. pipe'[s] = pipe[s] /\ pipe'[Other(s)] = <<>>
  BY TwoSides DEF Typed
<1>4. /\ c.st = "up" /\ c.tx = conn[s].tx /\ c.ping = conn[s].ping
      /\ c.alive = (conn[s].alive /\ ~Closed(Other(s)))
      /\ c.rx = 0 \/ c.rx = conn[s].rx
      /\ pipe[Other(s)] # <<>> => c.rx = 0
  BY DEF HasRead
<1>5. CASE a = <<>>
  <2>1. Turn(s, Serviced(c).c, Serviced(c).out)
    BY <1>5 DEF Finished
  <2>2. Steady /\ BothUp => c.rx <= DeadAfter /\ c.rx <= conn[Other(s)].tx
    <3>1. CASE c.rx = 0
      <4>1. conn[Other(s)] \in End
        BY TwoSides DEF Typed
      <4>2. conn[Other(s)].tx \in Nat
        BY <4>1, Durations DEF End
      <4> QED BY <3>1, <4>2, Durations
    <3>2. CASE c.rx # 0
      BY <1>4, <3>2, HeardInTime
    <3> QED BY <3>1, <3>2
  <2> QED BY <1>3, <1>4, <2>1, <2>2, ServicedLife
<1>6. CASE a # <<>>
  <2>1. PICK e : e = [c EXCEPT !.pc = "keepalive"]
    OBVIOUS
  <2>2. /\ e \in End /\ e.st = "up" /\ e.tx = c.tx /\ e.ping = c.ping /\ e.rx = c.rx
        /\ e.pc = "keepalive" /\ e.alive = c.alive
    BY <1>4, <2>1 DEF End
  <2>3. Finished(c, a) = [c |-> e, out |-> a]
    BY <1>6, <2>1 DEF Finished
  <2>4. Turn(s, e, a)
    BY <2>3
  <2>5. e.rx = 0
    BY <1>2, <1>4, <1>6, <2>2
  <2> QED BY <1>2, <1>3, <1>4, <2>2, <2>4, <2>5, AnswerLife
<1> QED BY <1>5, <1>6

\* poll.
LEMMA PollLife ==
  ASSUME Typed, PipesBounded, LifeInv, NEW s \in Side, NEW ps \in SUBSET Arrivals(s), Poll(s, ps)
  PROVE  LifeInv'
<1>1. PICK o \in Side : o = Other(s) /\ o # s
  BY DEF Other, Side
<1>2. /\ conn[s].st = "up" /\ out[s] = <<>> /\ sent' = sent /\ limit' = limit
      /\ pipe' = [pipe EXCEPT ![o] = <<>>]
  BY <1>1 DEF Poll, Running, Up
<1>3. PICK a : a = OnCtrl(pipe[o])
  OBVIOUS
<1>4. PICK c : c = [conn[s] EXCEPT !.rx = IF pipe[o] # <<>> THEN 0 ELSE @, !.alive = @ /\ ~Closed(o)]
  OBVIOUS
<1>5. c \in End /\ HasRead(s, c)
  <2>1. conn[s] \in End /\ 0 \in 0 .. DeadAfter + 1
    BY Spaces DEF Typed
  <2>2. PICK x \in 0 .. DeadAfter + 1 : x = IF pipe[o] # <<>> THEN 0 ELSE conn[s].rx
    BY <2>1 DEF End
  <2>3. PICK y \in BOOLEAN : y = (conn[s].alive /\ ~Closed(o))
    OBVIOUS
  <2>4. c = [conn[s] EXCEPT !.rx = x, !.alive = y]
    BY <1>4, <2>2, <2>3
  <2>5. /\ c \in End /\ c.st = conn[s].st /\ c.tx = conn[s].tx /\ c.ping = conn[s].ping
        /\ c.rx = x /\ c.alive = y
    BY <2>1, <2>4 DEF End
  <2> QED BY <1>1, <1>2, <2>2, <2>3, <2>5 DEF HasRead
<1>6. CASE /\ conn' = [conn EXCEPT ![s] = Finished(c, a).c]
           /\ out' = [out EXCEPT ![s] = Finished(c, a).out]
  <2>1. Turn(s, Finished(c, a).c, Finished(c, a).out)
    BY <1>2, <1>6 DEF Turn
  <2> QED BY <1>1, <1>2, <1>3, <1>5, <2>1, FinishedLife
<1>7. CASE \E p \in ps : /\ conn' = [conn EXCEPT ![s] = Finished(OnDatagram(c, p[1]), a).c]
                         /\ out' = [out EXCEPT ![s] = Finished(OnDatagram(c, p[1]), a).out]
  <2>1. PICK p \in ps : /\ conn' = [conn EXCEPT ![s] = Finished(OnDatagram(c, p[1]), a).c]
                        /\ out' = [out EXCEPT ![s] = Finished(OnDatagram(c, p[1]), a).out]
    BY <1>7
  <2>2. p[1] \in Datagram /\ nat \in BOOLEAN
    BY DEF Arrivals, Typed
  <2>3. PICK h \in End : /\ h = OnDatagram(c, p[1]) /\ h.st = c.st /\ h.rx = 0 /\ h.tx = c.tx
                         /\ h.ping = c.ping /\ h.alive = c.alive
    BY <1>5, <2>2, OnDatagramType, DatagramClocks
  <2>4. HasRead(s, h)
    BY <1>5, <2>3 DEF HasRead
  <2>5. Turn(s, Finished(h, a).c, Finished(h, a).out)
    BY <1>2, <2>1, <2>3 DEF Turn
  <2> QED BY <1>1, <1>2, <1>3, <2>4, <2>5, FinishedLife
<1> QED BY <1>1, <1>3, <1>4, <1>6, <1>7 DEF Poll, Finished

\* The keepalive after the answers: it cannot have taken more than a second to write
\* them.
LEMMA PollKeepaliveLife ==
  ASSUME Typed, LifeInv, NEW s \in Side, PollKeepalive(s)
  PROVE  LifeInv'
<1>1. /\ conn[s].st = "up" /\ out[s] = <<>> /\ sent' = sent /\ limit' = limit /\ pipe' = pipe
      /\ conn[s].pc = "keepalive"
      /\ conn' = [conn EXCEPT ![s] = Serviced(conn[s]).c]
      /\ out' = [out EXCEPT ![s] = Serviced(conn[s]).out]
  BY DEF PollKeepalive, Up
<1>2. PICK c \in End : c = conn[s]
  BY DEF Typed
<1>3. Turn(s, Serviced(c).c, Serviced(c).out)
  BY <1>1, <1>2 DEF Turn
<1>4. Steady /\ BothUp => c.rx <= DeadAfter /\ (pipe'[Other(s)] = <<>> => c.rx <= conn[Other(s)].tx)
  <2>1. ASSUME Steady, BothUp PROVE c.rx \in {0, 1}
    <3>1. Replies(s) /\ ~Stuck(s)
      BY <1>1, <2>1 DEF LifeInv, Lively, Stuck
    <3> QED BY <1>1, <1>2, <3>1 DEF Replies
  <2> QED BY <1>1, <1>2, <2>1, HeardInTime, Durations
<1>5. CASE Closed(Other(s))
  <2>1. PICK e \in End : e = Serviced(c).c /\ e.st = "up"
    BY <1>1, <1>2, ServicedType
  <2>2. PICK w \in Seq(SessionRecord) : w = Serviced(c).out
    BY ServicedType
  <2>3. Turn(s, e, w)
    BY <1>3, <2>1, <2>2
  <2>4. conn'[s] = e /\ conn'[Other(s)] = conn[Other(s)] /\ out'[s] = w /\ out'[Other(s)] = out[Other(s)]
    BY <2>3, TurnEnds
  <2>5. conn[Other(s)].st = "closed"
    BY <1>5 DEF Closed
  <2>6. Joining' /\ NoFalseDeath'
    BY <1>1, <1>5, <2>1, <2>3, <2>5, AliveStep, JoiningStep
  <2>7. Len(w) <= TcpCap
    <3>1. w = <<>> \/ w = <<Framed("ping")>>
      BY <2>2 DEF Serviced, Keepalive
    <3>2. Len(<<>>) = 0 /\ Len(<<Framed("ping")>>) = 1
      OBVIOUS
    <3>3. CASE w = <<>>
      BY <3>2, <3>3, Durations
    <3>4. CASE w = <<Framed("ping")>>
      BY <3>2, <3>4, Durations
    <3> QED BY <3>1, <3>3, <3>4
  <2>8. Brief'
    BY <2>4, <2>7, TwoSides DEF LifeInv, Brief
  <2>9. ~BothUp'
    BY <2>4, <2>5, TwoSides DEF BothUp
  <2> QED BY <2>6, <2>8, <2>9 DEF LifeInv
<1>6. CASE ~Closed(Other(s))
  <2>1. c.alive = (conn[s].alive /\ ~Closed(Other(s)))
    BY <1>2, <1>6 DEF End
  <2> QED BY <1>1, <1>2, <1>3, <1>4, <2>1, ServicedLife
<1> QED BY <1>5, <1>6

\* A second passes at an end.
LEMMA OlderClocks ==
  ASSUME NEW c \in End
  PROVE  /\ Older(c).st = c.st /\ Older(c).alive = c.alive /\ Older(c).pc = c.pc
         /\ Older(c).polled = FALSE
         /\ Older(c).rx = (IF c.rx > DeadAfter THEN c.rx ELSE c.rx + 1)
         /\ Older(c).tx = (IF c.tx > PingIdle THEN c.tx ELSE c.tx + 1)
         /\ Older(c).ping = (IF c.ping > PingIdle THEN c.ping ELSE c.ping + 1)
         /\ c.rx \in Nat /\ c.tx \in Nat /\ c.ping \in Nat
         /\ c.tx <= PingIdle + 1 /\ c.ping <= PingIdle + 1
<1>1. /\ c.rx \in Nat /\ c.tx \in Nat /\ c.ping \in Nat
      /\ c.tx <= PingIdle + 1 /\ c.ping <= PingIdle + 1
  BY Durations DEF End
<1>2. PICK x, y, z : /\ x = (IF c.rx > DeadAfter THEN c.rx ELSE c.rx + 1)
                     /\ y = (IF c.tx > PingIdle THEN c.tx ELSE c.tx + 1)
                     /\ z = (IF c.ping > PingIdle THEN c.ping ELSE c.ping + 1)
  OBVIOUS
<1>3. Older(c) = [c EXCEPT !.rx = x, !.tx = y, !.ping = z, !.polled = FALSE]
  BY <1>2 DEF Older
<1>4. /\ Older(c).st = c.st /\ Older(c).alive = c.alive /\ Older(c).pc = c.pc
      /\ Older(c).polled = FALSE /\ Older(c).rx = x /\ Older(c).tx = y /\ Older(c).ping = z
  BY <1>3 DEF End
<1> QED BY <1>1, <1>2, <1>4

\* When a second has passed for two ends that are up, each has polled and has nothing
\* left to do, or waits for room.
LEMMA TickLively ==
  ASSUME Typed, LifeInv, Steady, BothUp, NEW s \in Side, Settled(s), Settled(Other(s)),
         conn[s].alive, conn[Other(s)].alive,
         conn'[s] = Older(conn[s]), conn'[Other(s)] = Older(conn[Other(s)]),
         out' = out, pipe' = pipe
  PROVE  Lively(s)'
<1>1. PICK o \in Side : o = Other(s)
  BY TwoSides
<1>2. PICK c \in End : c = conn[s]
  BY DEF Typed
<1>3. PICK d \in End : d = conn[o]
  BY DEF Typed
<1>4. c.st = "up" /\ d.st = "up"
  BY <1>1, <1>2, <1>3 DEF BothUp
<1>5. IF out[s] = <<>> THEN c.polled /\ c.pc = "run" ELSE Len(pipe[s]) = TcpCap
  BY <1>2, <1>4 DEF Settled
<1>6. IF out[o] = <<>> THEN d.polled /\ d.pc = "run" ELSE Len(pipe[o]) = TcpCap
  BY <1>1, <1>3, <1>4 DEF Settled
<1>7. Lively(s) /\ Lively(o)
  BY DEF LifeInv
<1>8. PICK e : e = Older(c)
  OBVIOUS
<1>9. /\ e.pc = c.pc /\ e.polled = FALSE
      /\ e.rx = (IF c.rx > DeadAfter THEN c.rx ELSE c.rx + 1)
      /\ e.tx = (IF c.tx > PingIdle THEN c.tx ELSE c.tx + 1)
      /\ e.ping = (IF c.ping > PingIdle THEN c.ping ELSE c.ping + 1)
      /\ c.rx \in Nat /\ c.tx \in Nat /\ c.ping \in Nat
      /\ c.tx <= PingIdle + 1 /\ c.ping <= PingIdle + 1
  BY <1>8, OlderClocks
<1>10. PICK f : f = Older(d)
  OBVIOUS
<1>11. /\ f.pc = d.pc /\ f.polled = FALSE
       /\ f.tx = (IF d.tx > PingIdle THEN d.tx ELSE d.tx + 1) /\ d.tx \in Nat
  BY <1>10, OlderClocks
<1>12. conn'[s] = e /\ conn'[Other(s)] = f
  BY <1>1, <1>2, <1>3, <1>8, <1>10
<1>13. Hears(s)'
  <2>1. ASSUME pipe[o] = <<>> PROVE e.rx <= f.tx
    <3>1. out[o] = <<>> /\ d.polled /\ d.pc = "run"
      <4>1. Len(<<>>) = 0
        OBVIOUS
      <4>2. Len(pipe[o]) # TcpCap
        BY <2>1, <4>1, Durations
      <4> QED BY <1>6, <4>2
    <3>2. d.tx <= PingIdle
      BY <1>3, <1>7, <3>1 DEF Lively, Speaks
    <3>3. c.rx <= d.tx
      BY <1>1, <1>2, <1>3, <1>7, <2>1 DEF Lively, Hears
    <3>4. f.tx = d.tx + 1
      BY <1>11, <3>2, Durations
    <3> QED BY <1>9, <1>11, <3>2, <3>3, <3>4, Durations
  <2> QED BY <1>1, <1>12, <2>1 DEF Hears
<1>14. Speaks(s)'
  <2>1. ASSUME out[s] # <<Framed("ping")>> PROVE e.tx <= e.ping
    <3>1. c.tx <= c.ping
      BY <1>2, <1>7, <2>1 DEF Lively, Speaks
    <3> QED BY <1>9, <3>1, Durations
  <2> QED BY <1>9, <1>12, <2>1 DEF Speaks
<1>15. Replies(s)'
  <2> SUFFICES ASSUME c.pc = "keepalive"
               PROVE  \/ e.rx = 0 \/ (e.rx = 1 /\ ~f.polled /\ f.pc = "run")
                      \/ Stuck(s) /\ Stuck(o)
    BY <1>1, <1>9, <1>12 DEF Replies, Stuck
  <2>1. Stuck(s)
    BY <1>5 DEF Stuck
  <2>2. CASE out[o] # <<>>
    BY <1>6, <2>1, <2>2 DEF Stuck
  <2>3. CASE out[o] = <<>>
    <3>1. d.polled /\ d.pc = "run"
      BY <1>6, <2>3
    <3>2. ~(Len(pipe[s]) + Len(out[s]) <= TcpCap)
      <4>1. PICK n \in Nat : n = Len(out[s]) /\ n # 0
        <5>1. out[s] \in Seq(SessionRecord) /\ out[s] # <<>>
          BY <2>1 DEF Typed, Stuck
        <5> QED BY <5>1
      <4> QED BY <2>1, <4>1, Durations DEF Stuck
    <3>3. c.rx = 0
      BY <1>1, <1>2, <1>3, <1>7, <2>3, <3>1, <3>2 DEF Lively, Replies, Stuck
    <3> QED BY <1>9, <1>11, <3>1, <3>3, Durations
  <2> QED BY <2>2, <2>3
<1> QED BY <1>13, <1>14, <1>15 DEF Lively

\* Time passes.
LEMMA TickLife ==
  ASSUME Typed, LifeInv, Tick
  PROVE  LifeInv'
<1>1. /\ out' = out /\ pipe' = pipe /\ sent' = sent /\ limit' = limit
      /\ \A s \in Side : Settled(s)
      /\ conn' = [s \in Side |-> IF Up(s) /\ conn[s].alive THEN Older(conn[s]) ELSE conn[s]]
  BY DEF Tick
<1>2. \A s \in Side : conn'[s] = IF conn[s].st = "up" /\ conn[s].alive THEN Older(conn[s]) ELSE conn[s]
  BY <1>1 DEF Up
<1>3. \A s \in Side : conn'[s].st = conn[s].st /\ conn'[s].alive = conn[s].alive
  <2>1. ASSUME NEW s \in Side PROVE conn'[s].st = conn[s].st /\ conn'[s].alive = conn[s].alive
    <3>1. PICK c \in End : c = conn[s]
      BY DEF Typed
    <3>2. Older(c).st = c.st /\ Older(c).alive = c.alive
      BY OlderClocks
    <3> QED BY <1>2, <3>1, <3>2
  <2> QED BY <2>1
<1>4. NoFalseDeath'
  <2>1. \A s \in Side : Other(s) \in Side
    BY TwoSides
  <2> QED BY <1>1, <1>3, <2>1 DEF LifeInv, NoFalseDeath, Up, Closed, Silent
<1>5. ~(conn["client"].st = "up" /\ conn["host"].st = "confirm")
  <2>1. Settled("host") /\ "host" \in Side /\ Other("host") = "client"
    BY <1>1, TwoSides DEF Side
  <2> QED BY <2>1 DEF LifeInv, Joining, Settled
<1>6. Joining'
  BY <1>1, <1>3, <1>5 DEF LifeInv, Joining, Side
<1>7. Brief'
  BY <1>1 DEF LifeInv, Brief
<1>8. ASSUME Steady', BothUp', NEW s \in Side PROVE Lively(s)'
  <2>1. Steady /\ BothUp
    BY <1>1, <1>3, <1>8 DEF Steady, BothUp
  <2>2. \A t \in Side : conn[t].alive
    <3>1. \A t \in Side : conn[t].st = "up" /\ conn[Other(t)].st = "up"
      BY <2>1, TwoSides DEF BothUp
    <3> QED BY <2>1, <3>1 DEF LifeInv, NoFalseDeath, Steady, Up, Closed, Silent
  <2>3. Other(s) \in Side
    BY TwoSides
  <2>4. conn'[s] = Older(conn[s]) /\ conn'[Other(s)] = Older(conn[Other(s)])
    BY <1>2, <2>1, <2>2, <2>3 DEF BothUp
  <2> QED BY <1>1, <2>1, <2>2, <2>3, <2>4, TickLively
<1> QED BY <1>4, <1>6, <1>7, <1>8 DEF LifeInv

\* Datagrams end what the keepalive promises, and leave the handshake alone.
LEMMA DatagramLife ==
  ASSUME Typed, LifeInv, NEW s \in Side, NEW e \in End, conn[s].st = "up", e.st = "up",
         conn' = [conn EXCEPT ![s] = e], out' = out, pipe' = pipe,
         e.rx = conn[s].rx, e.tx = 0, e.ping = conn[s].ping, ~Steady'
  PROVE  LifeInv'
<1>1. conn'[s] = e /\ conn'[Other(s)] = conn[Other(s)]
  BY TwoSides DEF Typed
<1>2. Joining'
  <2>1. CASE s = "client"
    <3>1. conn'["client"] = e /\ conn'["host"] = conn["host"] /\ conn["client"].st = "up"
      BY <1>1, <2>1, TwoSides
    <3> QED BY <2>1, <3>1, TwoSides DEF LifeInv, Joining, Side
  <2>2. CASE s = "host"
    <3>1. conn'["host"] = e /\ conn'["client"] = conn["client"] /\ conn["host"].st = "up"
      BY <1>1, <2>2, TwoSides
    <3> QED BY <2>2, <3>1, TwoSides DEF LifeInv, Joining, Side
  <2> QED BY <2>1, <2>2 DEF Side
<1>3. Brief'
  BY DEF LifeInv, Brief
<1>4. NoFalseDeath'
  BY DEF NoFalseDeath, Steady
<1> QED BY <1>2, <1>3, <1>4 DEF LifeInv

\* An application sends datagrams.
LEMMA SendUdpLife ==
  ASSUME Typed, LifeInv, NEW s \in Side, NEW kind \in {"data", "frag"}, NEW w \in Window,
         SendUdp(s, kind, w)
  PROVE  LifeInv'
<1>1. PICK e : e = Advanced(conn[s], kind)
  OBVIOUS
<1>2. /\ conn[s].st = "up" /\ conn' = [conn EXCEPT ![s] = e] /\ out' = out /\ pipe' = pipe
      /\ sent' = [sent EXCEPT !.udp = @ + 1]
  BY <1>1 DEF SendUdp, Running, Up
<1>3. conn[s] \in End
  BY DEF Typed
<1>4. PICK x, y, z : e = [conn[s] EXCEPT !.seq = x, !.mid = z, !.tx = 0] \/ e = [conn[s] EXCEPT !.seq = y, !.tx = 0]
  BY <1>1 DEF Advanced
<1>5. e.st = conn[s].st /\ e.rx = conn[s].rx /\ e.tx = 0 /\ e.ping = conn[s].ping
  BY <1>3, <1>4 DEF End
<1>6. e \in End
  BY <1>1, <1>3, AdvancedType
<1>7. ~Steady'
  <2>1. sent.udp \in Nat /\ sent'.udp = sent.udp + 1
    BY <1>2 DEF Typed
  <2> QED BY <2>1 DEF Steady
<1> QED BY <1>2, <1>5, <1>6, <1>7, DatagramLife

\* Datagrams that do not arrive.
LEMMA InVainLife ==
  ASSUME Typed, LifeInv, NEW s \in Side, SendUdpInVain(s)
  PROVE  LifeInv'
<1>1. PICK e : e = [conn[s] EXCEPT !.tx = 0]
  OBVIOUS
<1>2. /\ conn[s].st = "up" /\ conn' = [conn EXCEPT ![s] = e] /\ out' = out /\ pipe' = pipe
      /\ limit' = limit /\ limit.vain
  BY <1>1 DEF SendUdpInVain, Running, Up
<1>3. conn[s] \in End
  BY DEF Typed
<1>4. e \in End /\ e.st = conn[s].st /\ e.rx = conn[s].rx /\ e.tx = 0 /\ e.ping = conn[s].ping
  BY <1>1, <1>3, Durations DEF End
<1>5. ~Steady'
  BY <1>2 DEF Steady
<1> QED BY <1>2, <1>4, <1>5, DatagramLife

\* A side closes, or is silent for ever.
LEMMA EndingLife ==
  ASSUME Typed, LifeInv, NEW s \in Side, HandshakeEof(s) \/ Close(s) \/ Vanish(s) \/ Wedge(s)
  PROVE  LifeInv'
<1>1. PICK how \in {"closed", "vanished", "wedged"} : conn' = [conn EXCEPT ![s] = Ended(s, how)]
  BY DEF HandshakeEof, Close, Vanish, Wedge, FallSilent
<1>2. /\ pipe' = pipe /\ (out' = out \/ out' = [out EXCEPT ![s] = <<>>])
      /\ conn[s].st \in {"hello", "confirm", "up"} /\ limit' = limit /\ sent' = sent
  BY DEF HandshakeEof, Close, Vanish, Wedge, FallSilent, Up
<1>3. Ended(s, how).st = how /\ Ended(s, how).alive
  <2>1. NewConn(s).alive /\ NewConn(s) \in End
    BY NewConnType DEF NewConn
  <2> QED BY <2>1 DEF Ended, End
<1>4. PICK e : e = Ended(s, how)
  OBVIOUS
<1>5. conn'[s] = e /\ conn'[Other(s)] = conn[Other(s)] /\ e.st = how /\ e.alive
  BY <1>1, <1>3, <1>4, TwoSides DEF Typed
<1>6. Joining'
  <2>1. CASE s = "client"
    <3>1. conn'["client"] = e /\ conn'["host"] = conn["host"]
      BY <1>5, <2>1, TwoSides
    <3> QED BY <1>2, <1>5, <2>1, <3>1 DEF LifeInv, Joining, Side
  <2>2. CASE s = "host"
    <3>1. conn'["host"] = e /\ conn'["client"] = conn["client"]
      BY <1>5, <2>2, TwoSides
    <3> QED BY <1>2, <1>5, <2>2, <3>1 DEF LifeInv, Joining, Side
  <2> QED BY <2>1, <2>2 DEF Side
<1>7. NoFalseDeath'
  <2>1. ASSUME NEW t \in Side, conn'[t].st = "up" PROVE conn'[Other(t)].st \in {"closed", "vanished", "wedged"}
    BY <1>5, <2>1, TwoSides
  <2> QED BY <2>1 DEF NoFalseDeath, Up, Closed, Silent
<1>8. Brief'
  <2>1. Len(<<>>) = 0 /\ 0 <= TcpCap
    BY Durations
  <2> QED BY <1>2, <2>1 DEF LifeInv, Brief, Typed
<1>9. ~BothUp'
  BY <1>5 DEF BothUp
<1> QED BY <1>6, <1>7, <1>8, <1>9 DEF LifeInv

\* The handshake up to the client's proof.
LEMMA HelloLife ==
  ASSUME Typed, PipesBounded, LifeInv, ClientConnect \/ HostRespond
  PROVE  LifeInv'
<1>1. "client" \in Side /\ "host" \in Side /\ Side = {"client", "host"}
  BY DEF Side
<1>2. conn["client"] \in End /\ conn["host"] \in End /\ pipe["client"] \in Seq(AnyRecord)
  BY <1>1 DEF Typed
<1>3. CASE ClientConnect
  <2>1. PICK e : e = [conn["client"] EXCEPT !.st = "hello"]
    OBVIOUS
  <2>2. /\ conn["client"].st = "start" /\ conn' = [conn EXCEPT !["client"] = e]
        /\ pipe' = [pipe EXCEPT !["client"] = Append(@, Record("hello1", "client"))]
        /\ out' = out /\ sent' = sent /\ limit' = limit
    BY <1>3, <2>1 DEF ClientConnect
  <2>3. e.st = "hello" /\ e.alive = conn["client"].alive
    BY <1>2, <2>1 DEF End
  <2>4. conn'["client"] = e /\ conn'["host"] = conn["host"] /\ pipe'["host"] = pipe["host"]
    BY <1>1, <2>2 DEF Typed
  <2>5. conn["host"].st = "start" /\ conn["client"].alive /\ pipe["client"] = <<>>
    BY <1>1, <2>2 DEF LifeInv, Joining, PipesBounded
  <2>6. Len(pipe'["client"]) = 1
    <3>1. pipe'["client"] = Append(<<>>, Record("hello1", "client"))
      BY <1>1, <2>2, <2>5 DEF Typed
    <3>2. PICK r : r = Record("hello1", "client")
      OBVIOUS
    <3>3. Len(Append(<<>>, r)) = 1
      OBVIOUS
    <3> QED BY <3>1, <3>2, <3>3
  <2>7. pipe["host"] = <<>>
    BY <2>2, <2>5 DEF LifeInv, Joining
  <2>8. Joining'
    BY <1>1, <2>3, <2>4, <2>5, <2>6, <2>7 DEF LifeInv, Joining
  <2>9. NoFalseDeath' /\ ~BothUp'
    BY <1>1, <2>3, <2>4, <2>5 DEF NoFalseDeath, BothUp, Up
  <2> QED BY <2>2, <2>8, <2>9 DEF LifeInv, Brief
<1>4. CASE HostRespond
  <2>1. PICK e : e = [conn["host"] EXCEPT !.st = "confirm"]
    OBVIOUS
  <2>2. /\ conn["host"].st = "start" /\ pipe["client"] # <<>> /\ conn' = [conn EXCEPT !["host"] = e]
        /\ pipe' = [pipe EXCEPT !["client"] = Tail(@), !["host"] = <<Record("hello2", "host")>>]
        /\ out' = out /\ sent' = sent /\ limit' = limit
    BY <1>4, <2>1 DEF HostRespond
  <2>3. e.st = "confirm" /\ e.alive = conn["host"].alive
    BY <1>2, <2>1 DEF End
  <2>4. conn'["host"] = e /\ conn'["client"] = conn["client"]
    BY <1>1, <2>2 DEF Typed
  <2>5. conn["host"].alive /\ conn["client"].st \notin {"start", "up", "confirm"}
    BY <1>1, <2>2 DEF LifeInv, Joining, PipesBounded
  <2>6. conn["client"].st = "hello" => pipe'["client"] = <<>>
    <3>1. PICK v \in Seq(AnyRecord) : v = pipe["client"]
      BY <1>2
    <3>2. pipe'["client"] = Tail(v)
      BY <1>1, <2>2, <3>1 DEF Typed
    <3>3. Len(v) = 1 => Tail(v) = <<>>
      <4> SUFFICES ASSUME Len(v) = 1 PROVE Tail(v) = <<>>
        OBVIOUS
      <4>1. v # <<>>
        OBVIOUS
      <4>2. Tail(v) \in Seq(AnyRecord) /\ Len(Tail(v)) = 0
        BY <4>1
      <4>3. PICK u \in Seq(AnyRecord) : u = Tail(v) /\ Len(u) = 0
        BY <4>2
      <4>4. u = <<>>
        BY <4>3
      <4> QED BY <4>3, <4>4
    <3> QED BY <2>2, <3>1, <3>2, <3>3 DEF LifeInv, Joining
  <2>8. Joining'
    BY <1>1, <2>3, <2>4, <2>5, <2>6 DEF LifeInv, Joining
  <2>9. NoFalseDeath' /\ ~BothUp'
    BY <1>1, <2>3, <2>4, <2>5 DEF NoFalseDeath, BothUp, Up
  <2> QED BY <2>2, <2>8, <2>9 DEF LifeInv, Brief
<1> QED BY <1>3, <1>4

\* The clocks of a new end.
LEMMA NewClocks ==
  ASSUME NEW s \in Side
  PROVE  /\ NewConn(s).st = "up" /\ NewConn(s).alive = TRUE /\ NewConn(s).rx = 0 /\ NewConn(s).tx = 0
         /\ NewConn(s).ping = 0 /\ NewConn(s).pc = "run" /\ NewConn(s).polled = FALSE
BY DEF NewConn

\* The client comes up once the host has answered, or refuses it.
LEMMA RecvHello2Life ==
  ASSUME Typed, PipesBounded, LifeInv, RecvHello2
  PROVE  LifeInv'
<1>1. "client" \in Side /\ "host" \in Side /\ Side = {"client", "host"}
  BY DEF Side
<1>2. /\ conn["client"].st = "hello" /\ pipe["host"] # <<>>
      /\ out' = out /\ sent' = sent /\ limit' = limit
  BY DEF RecvHello2
<1>3. conn["host"].st \in {"confirm", "closed", "vanished", "wedged"}
  <2>1. conn["host"].st \in {"start", "hello", "confirm", "up", "closed", "vanished", "wedged"}
    BY <1>1 DEF Typed, End
  <2> QED BY <1>2, <2>1 DEF LifeInv, Joining
<1>4. PICK e : /\ conn' = [conn EXCEPT !["client"] = e] /\ e.alive
               /\ \/ e.st = "closed"
                  \/ /\ e.st = "up" /\ e.rx = 0 /\ e.tx = 0 /\ e.ping = 0
                     /\ pipe' = [pipe EXCEPT !["client"] = <<Record("confirm3", "client")>>, !["host"] = Tail(@)]
  <2>1. PICK c : c = NewConn("client")
    OBVIOUS
  <2>2. /\ c \in End /\ c.st = "up" /\ c.alive /\ c.rx = 0 /\ c.tx = 0 /\ c.ping = 0
        /\ Ended("client", "closed") = [c EXCEPT !.st = "closed"]
    BY <1>1, <2>1, NewConnType, NewClocks DEF Ended
  <2>3. CASE Proves("client", Head(pipe["host"]))
    <3>1. PICK x : x = (c.seq + 1) % SeqSpace
      OBVIOUS
    <3>2. PICK e : e = [c EXCEPT !.seq = x]
      OBVIOUS
    <3>3. conn' = [conn EXCEPT !["client"] = e]
      BY <2>1, <2>3, <3>1, <3>2 DEF RecvHello2
    <3>4. e.st = "up" /\ e.alive /\ e.rx = 0 /\ e.tx = 0 /\ e.ping = 0
      BY <2>2, <3>2 DEF End
    <3>5. pipe' = [pipe EXCEPT !["client"] = <<Record("confirm3", "client")>>, !["host"] = Tail(@)]
      BY <2>3 DEF RecvHello2
    <3> QED BY <3>3, <3>4, <3>5
  <2>4. CASE ~Proves("client", Head(pipe["host"]))
    <3>1. PICK e : e = [c EXCEPT !.st = "closed"]
      OBVIOUS
    <3>2. conn' = [conn EXCEPT !["client"] = e]
      BY <2>2, <2>4, <3>1 DEF RecvHello2
    <3>3. e.st = "closed" /\ e.alive
      BY <2>2, <3>1 DEF End
    <3> QED BY <3>2, <3>3
  <2> QED BY <2>3, <2>4
<1>5. conn'["client"] = e /\ conn'["host"] = conn["host"]
  BY <1>1, <1>4 DEF Typed
<1>6. Joining'
  <2>1. CASE e.st = "closed"
    BY <1>1, <1>3, <1>4, <1>5, <2>1 DEF LifeInv, Joining
  <2>2. CASE e.st = "up"
    <3>1. pipe'["client"] = <<Record("confirm3", "client")>>
      BY <1>1, <1>4, <2>2 DEF Typed
    <3>2. <<Record("confirm3", "client")>> # <<>>
      OBVIOUS
    <3>3. pipe'["client"] # <<>> /\ e.rx = 0 /\ e.tx = 0 /\ e.ping = 0
      BY <1>4, <2>2, <3>1, <3>2
    <3> QED BY <1>1, <1>3, <1>4, <1>5, <2>2, <3>3 DEF LifeInv, Joining
  <2> QED BY <1>4, <2>1, <2>2
<1>7. NoFalseDeath' /\ ~BothUp'
  BY <1>1, <1>3, <1>4, <1>5 DEF NoFalseDeath, BothUp, Up
<1> QED BY <1>2, <1>6, <1>7 DEF LifeInv, Brief

\* The host comes up: the clocks of both ends stand at zero.
LEMMA RecvConfirm3Life ==
  ASSUME Typed, PipesBounded, LifeInv, RecvConfirm3
  PROVE  LifeInv'
<1>1. "client" \in Side /\ "host" \in Side /\ Side = {"client", "host"}
  BY DEF Side
<1>2. /\ conn["host"].st = "confirm" /\ pipe["client"] # <<>>
      /\ out' = out /\ sent' = sent /\ limit' = limit
  BY DEF RecvConfirm3
<1>3. conn["client"].st \in {"up", "closed", "vanished", "wedged"}
  <2>1. conn["client"].st \in {"start", "hello", "confirm", "up", "closed", "vanished", "wedged"}
    BY <1>1 DEF Typed, End
  <2> QED BY <1>2, <2>1 DEF LifeInv, Joining
<1>4. PICK e : /\ conn' = [conn EXCEPT !["host"] = e] /\ e.alive
               /\ \/ e.st = "closed"
                  \/ /\ e.st = "up" /\ e.rx = 0 /\ e.tx = 0 /\ e.ping = 0 /\ e.pc = "run"
                     /\ e.polled = FALSE
  <2>1. PICK c : c = NewConn("host")
    OBVIOUS
  <2>2. /\ c \in End /\ c.st = "up" /\ c.alive /\ c.rx = 0 /\ c.tx = 0 /\ c.ping = 0
        /\ c.pc = "run" /\ c.polled = FALSE
        /\ Ended("host", "closed") = [c EXCEPT !.st = "closed"]
    BY <1>1, <2>1, NewConnType, NewClocks DEF Ended
  <2>3. PICK d : d = [c EXCEPT !.st = "closed"]
    OBVIOUS
  <2>4. conn' = [conn EXCEPT !["host"] = c] \/ conn' = [conn EXCEPT !["host"] = d]
    BY <2>1, <2>2, <2>3 DEF RecvConfirm3
  <2>5. d.st = "closed" /\ d.alive
    BY <2>2, <2>3 DEF End
  <2> QED BY <2>2, <2>4, <2>5
<1>5. conn'["host"] = e /\ conn'["client"] = conn["client"]
  BY <1>1, <1>4 DEF Typed
<1>6. Joining'
  BY <1>1, <1>3, <1>4, <1>5 DEF LifeInv, Joining
<1>7. NoFalseDeath'
  <2>1. ASSUME NEW t \in Side, Steady, conn'[t].st = "up", ~conn'[t].alive
        PROVE  conn'[Other(t)].st \in {"closed", "vanished", "wedged"}
    <3>1. t = "client"
      BY <1>1, <1>4, <1>5, <2>1
    <3> QED BY <1>2, <1>5, <2>1, <3>1, TwoSides DEF LifeInv, NoFalseDeath, Steady, Up, Closed, Silent
  <2>2. Steady' <=> Steady
    BY <1>2 DEF Steady
  <2> QED BY <1>2, <2>1, <2>2 DEF NoFalseDeath, Up, Closed, Silent, Steady
<1>8. ASSUME BothUp' PROVE \A t \in Side : Lively(t)'
  <2>1. e.st = "up" /\ conn["client"].st = "up"
    BY <1>1, <1>5, <1>8 DEF BothUp
  <2>2. e.rx = 0 /\ e.tx = 0 /\ e.ping = 0 /\ e.pc = "run" /\ e.polled = FALSE
    BY <1>4, <2>1
  <2>3. conn["client"].rx = 0 /\ conn["client"].tx = 0 /\ conn["client"].ping = 0
    BY <1>2, <2>1 DEF LifeInv, Joining
  <2>4. Other("client") = "host" /\ Other("host") = "client"
    BY <1>1, TwoSides
  <2>5. 0 <= PingIdle
    BY Durations
  <2>6. Lively("client")'
    BY <1>5, <2>2, <2>3, <2>4, <2>5 DEF Lively, Hears, Speaks, Replies
  <2>7. Lively("host")'
    BY <1>5, <2>2, <2>3, <2>4, <2>5 DEF Lively, Hears, Speaks, Replies
  <2> QED BY <1>1, <2>6, <2>7
<1> QED BY <1>2, <1>6, <1>7, <1>8 DEF LifeInv, Brief

\* Before the handshake nobody is up.
LEMMA InitLife == Init => LifeInv
<1> SUFFICES ASSUME Init PROVE LifeInv
  OBVIOUS
<1>1. "client" \in Side /\ "host" \in Side /\ Side = {"client", "host"}
  BY DEF Side
<1>2. Typed
  BY InitInvariant DEF IInv
<1>3. \A s \in Side : conn[s].st = "start" /\ conn[s].alive
  <2>1. ASSUME NEW s \in Side PROVE conn[s].st = "start" /\ conn[s].alive
    <3>1. PICK c : c = NewConn(s)
      OBVIOUS
    <3>2. c \in End /\ c.alive
      BY <1>2, <3>1, NewConnType, NewClocks
    <3>3. conn[s] = [c EXCEPT !.st = "start"]
      BY <3>1 DEF Init
    <3> QED BY <3>2, <3>3 DEF End
  <2> QED BY <2>1
<1>4. Joining
  BY <1>1, <1>3 DEF Joining, Init
<1>5. Brief
  <2>1. Len(<<>>) = 0 /\ 0 <= TcpCap
    BY Durations
  <2> QED BY <2>1 DEF Init, Brief
<1>6. NoFalseDeath /\ ~BothUp
  BY <1>1, <1>3 DEF NoFalseDeath, BothUp, Up
<1> QED BY <1>4, <1>5, <1>6 DEF LifeInv

\* Every step keeps both ends lively.
LEMMA NextLife == IInv /\ LifeInv /\ [Next]_vars => LifeInv'
<1> SUFFICES ASSUME IInv, LifeInv, [Next]_vars PROVE LifeInv'
  OBVIOUS
<1>0. Typed /\ PipesBounded
  BY DEF IInv
<1>1. CASE ClientConnect \/ HostRespond
  BY <1>0, <1>1, HelloLife
<1>2. CASE RecvHello2
  BY <1>0, <1>2, RecvHello2Life
<1>3. CASE RecvConfirm3
  BY <1>0, <1>3, RecvConfirm3Life
<1>4. ASSUME NEW s \in Side, HandshakeEof(s) \/ Close(s) \/ Vanish(s) \/ Wedge(s) PROVE LifeInv'
  BY <1>0, <1>4, EndingLife
<1>5. CASE Tick
  BY <1>0, <1>5, TickLife
<1>6. ASSUME NEW s \in Side, SendTcp(s) \/ Write(s) \/ WriteFails(s) PROVE LifeInv'
  BY <1>0, <1>6, SendTcpLife, WriteLife, WriteFailsLife
<1>7. ASSUME NEW s \in Side, Polls(s) PROVE LifeInv'
  <2>1. {} \in SUBSET Arrivals(s) /\ Arrivals(s) \in SUBSET Arrivals(s)
    OBVIOUS
  <2> QED BY <1>0, <1>7, <2>1, PollLife, PollKeepaliveLife DEF Polls
<1>8. ASSUME NEW s \in Side, NEW kind \in {"data", "frag"}, NEW w \in Window, SendUdp(s, kind, w)
      PROVE  LifeInv'
  BY <1>0, <1>8, SendUdpLife
<1>9. ASSUME NEW s \in Side, SendUdpInVain(s) PROVE LifeInv'
  BY <1>0, <1>9, InVainLife
<1>10. CASE UNCHANGED vars
  BY <1>10 DEF vars, LifeInv, Joining, Brief, NoFalseDeath, Up, Closed, Silent, Steady, BothUp, Lively,
               Hears, Speaks, Replies, Stuck
<1> QED BY <1>1, <1>2, <1>3, <1>4, <1>5, <1>6, <1>7, <1>8, <1>9, <1>10 DEF Next, Handshake

\* service_keepalive never declares a session dead whose ends both run and poll, for
\* every PING_IDLE shorter than DEAD_AFTER and whatever the connection holds, as long
\* as no datagrams are sent.
THEOREM KeepaliveSound == Spec => []NoFalseDeath
<1>1. Init => LifeInv
  BY InitLife
<1>2. IInv /\ LifeInv /\ [Next]_vars => LifeInv'
  BY NextLife
<1>3. LifeInv => NoFalseDeath
  BY DEF LifeInv
<1> QED BY <1>1, <1>2, <1>3, RookInvariant, PTL DEF Spec
=============================================================================
