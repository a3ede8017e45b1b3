-------------------------- MODULE FederationProofs -------------------------
(***************************************************************************)
(* Proofs about Federation, for every set of hubs and links, every queue   *)
(* depth and any number of connections, cuts and frames.                   *)
(***************************************************************************)
EXTENDS Federation, SetLemmas

-----------------------------------------------------------------------------
(* The invariant.                                                          *)

\* The frames among some messages, and that none is there twice.
Relays(s) == {s[i].frame : i \in {j \in DOMAIN s : s[j].kind = "relay"}}

Distinct(s) ==
  \A i, j \in DOMAIN s :
    s[i].kind = "relay" /\ s[j].kind = "relay" /\ s[i].frame = s[j].frame => i = j

\* The frames one end has sent over a link and the other has not read.
Underway(e, p) == Relays(e.queue) \cup Relays(p)

\* An end that is there belongs to its connection; it is up only between hubs of
\* one secret, and active only where we dialed or inbound links are enabled.
EndOK(c, h) ==
  LET e == link[c][h] IN
  /\ e.st # "gone" => c \in DOMAIN conn /\ h \in Ends(c)
  /\ e.st = "up" => secret[h] = secret[Other(c, h)]
  /\ e.active => e.st = "up" /\ (h = conn[c][1] \/ admits[h])

\* Nothing is queued or written twice, and a HELLO carries its sender's secret.
WireOK(c, h) ==
  LET q == link[c][h].queue  p == pipe[c][h] IN
  /\ Distinct(q) /\ Distinct(p) /\ Relays(q) \cap Relays(p) = {}
  /\ \A i \in DOMAIN q : q[i].kind # "hello"
  /\ \A i \in DOMAIN p : p[i].kind = "hello" => p[i].secret = secret[h]

\* A frame under way comes from its sender's own peers, over a link that the
\* sender may use.
SourceOK(c, h, f) ==
  /\ f \in DOMAIN frames /\ frames[f].origin = h
  /\ c \in DOMAIN conn /\ h \in Ends(c) /\ (h = conn[c][1] \/ admits[h])

LinksOK ==
  \A c \in Conn, h \in Hub :
    EndOK(c, h) /\ WireOK(c, h) /\ \A f \in Underway(link[c][h], pipe[c][h]) : SourceOK(c, h, f)

\* A frame on its way to fan_egress has gone nowhere yet.
EgressOK ==
  \A h \in Hub :
    /\ \A i, j \in DOMAIN egress[h] : egress[h][i] = egress[h][j] => i = j
    /\ \A i \in DOMAIN egress[h] :
         LET f == egress[h][i] IN
         /\ f \in DOMAIN frames /\ frames[f].origin = h
         /\ \A g \in Hub : injected[f][g] = 0
         /\ \A c \in Conn : f \notin Underway(link[c][h], pipe[c][h])

\* A dialer has given up all but its last connection.
OneDialed ==
  \A c, d \in DOMAIN conn : conn[c] = conn[d] /\ c < d => link[c][conn[c][1]].st = "gone"

\* Of two connections that carry a frame the same way, one has lost its reader.
OneReader ==
  \A c, d \in DOMAIN conn : \A h \in Hub :
    conn[c] = conn[d] /\ c # d /\ h \in Ends(c)
    /\ Underway(link[c][h], pipe[c][h]) \cap Underway(link[d][h], pipe[d][h]) # {}
    => link[c][Other(c, h)].st = "gone" \/ link[d][Other(c, h)].st = "gone"

Counted == \A f \in Frame, h \in Hub : injected[f][h] > 0 => f \in DOMAIN frames /\ h # frames[f].origin

\* No two links join the same pair of hubs.
SingleLinks == \A d, e \in Dials : {d[1], d[2]} = {e[1], e[2]} => d = e

\* What was injected is not read again.
NotAgain ==
  /\ \A f \in Frame, h \in Hub : injected[f][h] <= 1
  /\ \A c \in DOMAIN conn : \A h \in Ends(c) : \A f \in Underway(link[c][h], pipe[c][h]) :
       injected[f][Other(c, h)] > 0 => link[c][Other(c, h)].st = "gone"

IInv ==
  /\ TypeOK /\ LinksOK /\ EgressOK /\ OneDialed /\ OneReader /\ Counted /\ RelayAuthorised
  /\ SingleLinks => NotAgain

-----------------------------------------------------------------------------
(* Sequences of messages.                                                  *)

\* The frames of a longer queue are those it had and the new one.
LEMMA RelaysAppend ==
  ASSUME NEW s \in Seq(Message), NEW m \in Message
  PROVE  /\ Append(s, m) \in Seq(Message)
         /\ Relays(Append(s, m)) = Relays(s) \cup (IF m.kind = "relay" THEN {m.frame} ELSE {})
         /\ Distinct(s) /\ (m.kind = "relay" => m.frame \notin Relays(s)) => Distinct(Append(s, m))
         /\ \A i \in DOMAIN Append(s, m) :
              Append(s, m)[i] = m \/ \E j \in DOMAIN s : Append(s, m)[i] = s[j]
<1> DEFINE t == Append(s, m)
<1>1. /\ t \in Seq(Message) /\ Len(t) = Len(s) + 1 /\ t[Len(s) + 1] = m
      /\ \A i \in 1 .. Len(s) : t[i] = s[i]
      /\ DOMAIN t = 1 .. Len(t) /\ DOMAIN s = 1 .. Len(s) /\ Len(s) \in Nat
  OBVIOUS
<1> HIDE DEF t
<1>2. \A i \in DOMAIN t : i \in DOMAIN s \/ i = Len(s) + 1
  BY <1>1
<1>3. Relays(t) = Relays(s) \cup (IF m.kind = "relay" THEN {m.frame} ELSE {})
  <2>1. Relays(t) \subseteq Relays(s) \cup (IF m.kind = "relay" THEN {m.frame} ELSE {})
    BY <1>1, <1>2 DEF Relays
  <2>2. Relays(s) \subseteq Relays(t)
    <3>1. DOMAIN s \subseteq DOMAIN t
      BY <1>1
    <3> QED BY <1>1, <3>1 DEF Relays
  <2>3. m.kind = "relay" => m.frame \in Relays(t)
    <3>1. Len(s) + 1 \in DOMAIN t
      BY <1>1
    <3> QED BY <1>1, <3>1 DEF Relays
  <2> QED BY <2>1, <2>2, <2>3
<1>4. ASSUME Distinct(s), m.kind = "relay" => m.frame \notin Relays(s) PROVE Distinct(t)
  <2> SUFFICES ASSUME NEW i \in DOMAIN t, NEW j \in DOMAIN t, t[i].kind = "relay",
                      t[j].kind = "relay", t[i].frame = t[j].frame
               PROVE  i = j
    BY DEF Distinct
  <2>1. \A k \in DOMAIN s : s[k].kind = "relay" => s[k].frame \in Relays(s)
    BY DEF Relays
  <2>2. CASE i \in DOMAIN s /\ j \in DOMAIN s
    BY <2>2, <1>1, <1>4 DEF Distinct
  <2>3. CASE i \in DOMAIN s /\ j = Len(s) + 1
    BY <2>3, <2>1, <1>1, <1>4
  <2>4. CASE i = Len(s) + 1 /\ j \in DOMAIN s
    BY <2>4, <2>1, <1>1, <1>4
  <2> QED BY <1>2, <2>2, <2>3, <2>4
<1> QED BY <1>1, <1>2, <1>3, <1>4 DEF t

\* What is left of a queue is among what it had, and its head is not among it.
LEMMA RelaysTail ==
  ASSUME NEW s \in Seq(Message), s # <<>>
  PROVE  /\ Head(s) \in Message /\ Tail(s) \in Seq(Message) /\ Len(Tail(s)) = Len(s) - 1
         /\ Relays(Tail(s)) \subseteq Relays(s)
         /\ Head(s).kind = "relay" => Head(s).frame \in Relays(s)
         /\ Distinct(s) => Distinct(Tail(s))
         /\ Distinct(s) /\ Head(s).kind = "relay" => Head(s).frame \notin Relays(Tail(s))
         /\ \A i \in DOMAIN Tail(s) : \E j \in DOMAIN s : Tail(s)[i] = s[j]
         /\ \E j \in DOMAIN s : Head(s) = s[j]
<1> DEFINE t == Tail(s)
<1>1. /\ t \in Seq(Message) /\ Len(t) = Len(s) - 1 /\ Head(s) = s[1] /\ 1 \in DOMAIN s
      /\ \A i \in 1 .. Len(t) : t[i] = s[i + 1] /\ i + 1 \in 1 .. Len(s) /\ i + 1 # 1
      /\ DOMAIN t = 1 .. Len(t) /\ DOMAIN s = 1 .. Len(s) /\ Len(s) \in Nat
      /\ s[1] \in Message
  OBVIOUS
<1> HIDE DEF t
<1>2. \A i \in DOMAIN t : i + 1 \in DOMAIN s /\ t[i] = s[i + 1] /\ i + 1 # 1
  BY <1>1
<1>3. Relays(t) \subseteq Relays(s)
  BY <1>2 DEF Relays
<1>4. Head(s).kind = "relay" => Head(s).frame \in Relays(s)
  BY <1>1 DEF Relays
<1>5. ASSUME Distinct(s) PROVE Distinct(t)
  <2> SUFFICES ASSUME NEW i \in DOMAIN t, NEW j \in DOMAIN t, t[i].kind = "relay",
                      t[j].kind = "relay", t[i].frame = t[j].frame
               PROVE  i = j
    BY DEF Distinct
  <2>1. i + 1 = j + 1
    BY <1>2, <1>5 DEF Distinct
  <2> QED BY <2>1, <1>1
<1>6. ASSUME Distinct(s), Head(s).kind = "relay", Head(s).frame \in Relays(t) PROVE FALSE
  <2>1. PICK i \in DOMAIN t : t[i].kind = "relay" /\ t[i].frame = Head(s).frame
    BY <1>6 DEF Relays
  <2> QED BY <2>1, <1>1, <1>2, <1>6 DEF Distinct
<1> QED BY <1>1, <1>2, <1>3, <1>4, <1>5, <1>6 DEF t

\* An empty queue holds nothing.
LEMMA RelaysNone == <<>> \in Seq(Message) /\ Relays(<<>>) = {} /\ Distinct(<<>>) /\ Len(<<>>) = 0
BY DEF Relays, Distinct

-----------------------------------------------------------------------------
(* The steps.                                                              *)

\* A connection joins two different hubs, each the other's other.
LEMMA ConnFacts ==
  ASSUME TypeOK, NEW c \in DOMAIN conn
  PROVE  /\ c \in Conn /\ c \in Nat /\ conn[c] \in Dials /\ Ends(c) \subseteq Hub
         /\ conn[c][1] \in Hub /\ conn[c][2] \in Hub /\ conn[c][1] # conn[c][2]
         /\ \A h \in Ends(c) : Other(c, h) \in Ends(c) /\ Other(c, h) # h /\ Other(c, Other(c, h)) = h
<1>1. conn \in Seq(Dials) /\ Len(conn) <= MaxConns /\ MaxConns \in Nat
  BY FederationAssumption DEF TypeOK
<1>2. c \in 1 .. Len(conn) /\ Len(conn) \in Nat /\ conn[c] \in Dials
  BY <1>1
<1>3. c \in Conn /\ c \in Nat
  BY <1>1, <1>2 DEF Conn
<1>4. conn[c][1] \in Hub /\ conn[c][2] \in Hub /\ conn[c][1] # conn[c][2]
  BY <1>2, FederationAssumption
<1> QED BY <1>2, <1>3, <1>4 DEF Ends, Other

\* Frames are numbered within their bound.
LEMMA FrameNumbers ==
  ASSUME TypeOK, NEW f \in DOMAIN frames
  PROVE  f \in Frame
<1>1. Len(frames) \in Nat /\ Len(frames) <= MaxFrames /\ MaxFrames \in Nat /\ DOMAIN frames = 1 .. Len(frames)
  BY FederationAssumption DEF TypeOK
<1> QED BY <1>1 DEF Frame

\* The parts of a link's end.
LEMMA EndType ==
  ASSUME TypeOK, NEW c \in Conn, NEW h \in Hub
  PROVE  /\ link[c][h] \in LinkEnd /\ link[c][h].queue \in Seq(Message)
         /\ pipe[c][h] \in Seq(Message) /\ link[c][h].bands \in SUBSET Band
         /\ Len(link[c][h].queue) <= QueueDepth /\ Len(pipe[c][h]) <= PipeCap
         /\ link[c][h].st \in {"hello", "up", "gone"}
         /\ QueueDepth \in Nat \ {0} /\ PipeCap \in Nat \ {0}
BY FederationAssumption DEF TypeOK, LinkEnd

\* The types of the two variables that a link's tasks change.
LinkType(L, P) ==
  /\ L \in [Conn -> [Hub -> LinkEnd]] /\ P \in [Conn -> [Hub -> Seq(Message)]]
  /\ \A c \in Conn, h \in Hub : Len(L[c][h].queue) <= QueueDepth /\ Len(P[c][h]) <= PipeCap

\* A step of the links' tasks that sends no frame that was not under way, brings
\* no end back and leaves ends and wires in order keeps the invariant.
LEMMA LinkStep ==
  ASSUME IInv, UNCHANGED <<secret, admits, bands, changes, frames, egress, conn, cut, injected>>,
         LinkType(link', pipe'),
         \A c \in Conn, h \in Hub :
           /\ EndOK(c, h)' /\ WireOK(c, h)'
           /\ Underway(link'[c][h], pipe'[c][h]) \subseteq Underway(link[c][h], pipe[c][h])
           /\ link[c][h].st = "gone" => link'[c][h].st = "gone"
  PROVE  IInv'
<1>1. TypeOK'
  BY DEF IInv, TypeOK, LinkType
<1>2. LinksOK'
  <2> SUFFICES ASSUME NEW c \in Conn, NEW h \in Hub, NEW f \in Underway(link'[c][h], pipe'[c][h])
               PROVE  SourceOK(c, h, f)'
    BY DEF LinksOK
  <2>1. SourceOK(c, h, f)
    BY DEF IInv, LinksOK
  <2> QED BY <2>1 DEF SourceOK, Ends
<1>3. EgressOK'
  <2> SUFFICES ASSUME NEW h \in Hub, NEW i \in DOMAIN egress[h], NEW c \in Conn
               PROVE  egress[h][i] \notin Underway(link'[c][h], pipe'[c][h])
    BY DEF IInv, EgressOK
  <2> QED BY SMTT(30) DEF IInv, EgressOK
<1>4. \A c \in DOMAIN conn : c \in Conn /\ Ends(c) \subseteq Hub /\ conn[c][1] \in Hub
                             /\ Ends(c)' = Ends(c) /\ \A h : Other(c, h)' = Other(c, h)
  BY ConnFacts DEF IInv, Ends, Other
<1>5. \A c \in DOMAIN conn : \A h \in Ends(c) : h \in Hub /\ Other(c, h) \in Hub
  BY ConnFacts DEF IInv
<1>6. OneDialed'
  BY <1>4 DEF IInv, OneDialed
<1>7. OneReader'
  <2> SUFFICES ASSUME NEW c \in DOMAIN conn, NEW d \in DOMAIN conn, NEW h \in Hub,
                      conn[c] = conn[d], c # d, h \in Ends(c),
                      Underway(link'[c][h], pipe'[c][h]) \cap Underway(link'[d][h], pipe'[d][h]) # {}
               PROVE  link'[c][Other(c, h)].st = "gone" \/ link'[d][Other(c, h)].st = "gone"
    BY <1>4 DEF OneReader
  <2>1. Underway(link[c][h], pipe[c][h]) \cap Underway(link[d][h], pipe[d][h]) # {}
    BY <1>4
  <2>2. link[c][Other(c, h)].st = "gone" \/ link[d][Other(c, h)].st = "gone"
    BY <2>1 DEF IInv, OneReader
  <2> QED BY <2>2, <1>4, <1>5
<1>8. Counted' /\ RelayAuthorised'
  BY DEF IInv, Counted, RelayAuthorised
<1>9. SingleLinks' => NotAgain'
  <2> SUFFICES ASSUME SingleLinks PROVE NotAgain'
    BY DEF SingleLinks
  <2>1. \A f \in Frame, h \in Hub : injected'[f][h] <= 1
    BY DEF IInv, NotAgain
  <2>2. ASSUME NEW c \in DOMAIN conn, NEW h \in Ends(c), NEW f \in Underway(link'[c][h], pipe'[c][h]),
               injected[f][Other(c, h)] > 0
        PROVE  link'[c][Other(c, h)].st = "gone"
    <3>1. f \in Underway(link[c][h], pipe[c][h])
      BY <1>4, <1>5
    <3>2. link[c][Other(c, h)].st = "gone"
      BY <3>1, <2>2 DEF IInv, NotAgain
    <3> QED BY <3>2, <1>4, <1>5
  <2> QED BY <2>1, <2>2, <1>4 DEF NotAgain
<1> QED BY <1>1, <1>2, <1>3, <1>6, <1>7, <1>8, <1>9 DEF IInv

\* One end replaced: the others are what they were.
LEMMA OneEnd ==
  ASSUME NEW L \in [Conn -> [Hub -> LinkEnd]], NEW c \in Conn, NEW h \in Hub, NEW e \in LinkEnd
  PROVE  /\ [L EXCEPT ![c][h] = e] \in [Conn -> [Hub -> LinkEnd]]
         /\ \A d \in Conn, g \in Hub :
              [L EXCEPT ![c][h] = e][d][g] = IF d = c /\ g = h THEN e ELSE L[d][g]
OBVIOUS

\* The same for what is written.
LEMMA OnePipe ==
  ASSUME NEW P \in [Conn -> [Hub -> Seq(Message)]], NEW c \in Conn, NEW h \in Hub,
         NEW s \in Seq(Message)
  PROVE  /\ [P EXCEPT ![c][h] = s] \in [Conn -> [Hub -> Seq(Message)]]
         /\ \A d \in Conn, g \in Hub :
              [P EXCEPT ![c][h] = s][d][g] = IF d = c /\ g = h THEN s ELSE P[d][g]
OBVIOUS

\* A step of one end h of connection c, and of the pipe it writes or the one it
\* reads: what LinkStep asks for need be shown of these only.
LEMMA EndStepOK ==
  ASSUME IInv, UNCHANGED <<secret, admits, bands, changes, frames, egress, conn, cut, injected>>,
         NEW c \in Conn, NEW h \in Hub, NEW o \in Hub, NEW e \in LinkEnd, NEW s \in Seq(Message),
         link' = [link EXCEPT ![c][h] = e], pipe' = [pipe EXCEPT ![c][o] = s],
         Len(e.queue) <= QueueDepth, Len(s) <= PipeCap,
         EndOK(c, h)', WireOK(c, h)', WireOK(c, o)',
         Underway(link'[c][h], pipe'[c][h]) \subseteq Underway(link[c][h], pipe[c][h]),
         Underway(link'[c][o], pipe'[c][o]) \subseteq Underway(link[c][o], pipe[c][o]),
         link[c][h].st = "gone" => e.st = "gone"
  PROVE  IInv'
<1>1. link \in [Conn -> [Hub -> LinkEnd]] /\ pipe \in [Conn -> [Hub -> Seq(Message)]]
  BY DEF IInv, TypeOK
<1>2. /\ link' \in [Conn -> [Hub -> LinkEnd]]
      /\ \A d \in Conn, g \in Hub : link'[d][g] = IF d = c /\ g = h THEN e ELSE link[d][g]
  BY <1>1, OneEnd
<1>3. /\ pipe' \in [Conn -> [Hub -> Seq(Message)]]
      /\ \A d \in Conn, g \in Hub : pipe'[d][g] = IF d = c /\ g = o THEN s ELSE pipe[d][g]
  BY <1>1, OnePipe
<1>4. LinkType(link', pipe')
  BY <1>2, <1>3, EndType DEF IInv, LinkType
<1>5. ASSUME NEW d \in Conn, NEW g \in Hub
      PROVE  /\ EndOK(d, g)' /\ WireOK(d, g)'
             /\ Underway(link'[d][g], pipe'[d][g]) \subseteq Underway(link[d][g], pipe[d][g])
             /\ link[d][g].st = "gone" => link'[d][g].st = "gone"
  <2>1. EndOK(d, g) /\ WireOK(d, g)
    BY DEF IInv, LinksOK
  <2>2. CASE ~(d = c /\ g = h) /\ ~(d = c /\ g = o)
    <3>1. link'[d][g] = link[d][g] /\ pipe'[d][g] = pipe[d][g]
      BY <2>2, <1>2, <1>3
    <3> QED BY <3>1, <2>1 DEF EndOK, WireOK, Ends, Other
  <2>3. CASE d = c /\ g = h
    BY <2>3, <1>2
  <2>4. CASE d = c /\ g = o /\ g # h
    <3>1. link'[d][g] = link[d][g]
      BY <2>4, <1>2
    <3> QED BY <3>1, <2>1, <2>4 DEF EndOK, Ends, Other
  <2> QED BY <2>2, <2>3, <2>4
<1> QED BY <1>4, <1>5, LinkStep

\* An end put together from its parts.
LEMMA MakeEnd ==
  ASSUME NEW st \in {"hello", "up", "gone"}, NEW a \in BOOLEAN, NEW bs \in SUBSET Band,
         NEW q \in Seq(Message), NEW la \in (SUBSET Band) \cup {None}, NEW w \in BOOLEAN
  PROVE  LET e == [st |-> st, active |-> a, bands |-> bs, queue |-> q, last |-> la, writer |-> w] IN
         e \in LinkEnd /\ e.st = st /\ e.active = a /\ e.queue = q
BY DEF LinkEnd

\* An end with one part replaced keeps the others.
LEMMA EndUpdate ==
  ASSUME NEW l \in LinkEnd
  PROVE  /\ \A q \in Seq(Message) :
              LET e == [l EXCEPT !.queue = q] IN
              e \in LinkEnd /\ e.queue = q /\ e.st = l.st /\ e.active = l.active
         /\ \A bs \in SUBSET Band :
              LET e == [l EXCEPT !.bands = bs]  d == [l EXCEPT !.last = bs] IN
              /\ e \in LinkEnd /\ e.queue = l.queue /\ e.st = l.st /\ e.active = l.active
              /\ d \in LinkEnd /\ d.queue = l.queue /\ d.st = l.st /\ d.active = l.active
         /\ \A w \in BOOLEAN :
              LET e == [l EXCEPT !.writer = w] IN
              e \in LinkEnd /\ e.queue = l.queue /\ e.st = l.st /\ e.active = l.active
<1>1. ASSUME NEW q \in Seq(Message)
      PROVE  LET e == [l EXCEPT !.queue = q] IN
             e \in LinkEnd /\ e.queue = q /\ e.st = l.st /\ e.active = l.active
  BY DEF LinkEnd
<1>2. ASSUME NEW bs \in SUBSET Band
      PROVE  LET e == [l EXCEPT !.bands = bs]  d == [l EXCEPT !.last = bs] IN
             /\ e \in LinkEnd /\ e.queue = l.queue /\ e.st = l.st /\ e.active = l.active
             /\ d \in LinkEnd /\ d.queue = l.queue /\ d.st = l.st /\ d.active = l.active
  BY DEF LinkEnd
<1>3. ASSUME NEW w \in BOOLEAN
      PROVE  LET e == [l EXCEPT !.writer = w] IN
             e \in LinkEnd /\ e.queue = l.queue /\ e.st = l.st /\ e.active = l.active
  BY DEF LinkEnd
<1> QED BY <1>1, <1>2, <1>3

\* An end that is gone holds nothing.
LEMMA GoneEnd == Gone \in LinkEnd /\ Gone.queue = <<>> /\ Gone.st = "gone" /\ Gone.active = FALSE
<1>1. NewEnd \in LinkEnd /\ NewEnd.active = FALSE /\ NewEnd.queue = <<>>
  <2>1. {} \in SUBSET Band /\ None \in (SUBSET Band) \cup {None} /\ FALSE \in BOOLEAN
    OBVIOUS
  <2> QED BY <2>1, MakeEnd, RelaysNone DEF NewEnd
<1>2. \A l \in LinkEnd : LET e == [l EXCEPT !.st = "gone"] IN
        e \in LinkEnd /\ e.st = "gone" /\ e.queue = l.queue /\ e.active = l.active
  BY DEF LinkEnd
<1> HIDE DEF NewEnd
<1> QED BY <1>1, <1>2 DEF Gone

\* What the invariant says of one end.
LEMMA EndFacts ==
  ASSUME IInv, NEW c \in DOMAIN conn, NEW h \in Ends(c)
  PROVE  /\ c \in Conn /\ h \in Hub /\ TypeOK
         /\ Other(c, h) \in Hub /\ Other(c, h) \in Ends(c) /\ Other(c, h) # h
         /\ EndOK(c, h) /\ WireOK(c, h)
         /\ \A f \in Underway(link[c][h], pipe[c][h]) : SourceOK(c, h, f)
BY ConnFacts DEF IInv, LinksOK

\* The HELLO of the other end: only one with this hub's secret opens the link.
LEMMA RecvHelloStep ==
  ASSUME IInv, NEW c \in DOMAIN conn, NEW h \in Ends(c), RecvHello(c, h)
  PROVE  IInv'
<1>0. PICK o : o = Other(c, h)
  OBVIOUS
<1> DEFINE a == (h = conn[c][1] \/ admits[h])
           e == IF Authentic(h, Head(pipe[c][o]))
                THEN [NewEnd EXCEPT !.st = "up", !.writer = TRUE, !.active = a] ELSE Gone
           s == Tail(pipe[c][o])
<1>1. c \in Conn /\ h \in Hub /\ o \in Hub /\ o \in Ends(c) /\ o # h /\ TypeOK
      /\ WireOK(c, h) /\ WireOK(c, o) /\ EndOK(c, h)
  BY <1>0, EndFacts
<1>2. link' = [link EXCEPT ![c][h] = e] /\ pipe' = [pipe EXCEPT ![c][o] = s] /\ pipe[c][o] # <<>>
      /\ link[c][h].st = "hello"
      /\ UNCHANGED <<secret, admits, bands, changes, frames, egress, conn, cut, injected>>
  BY <1>0 DEF RecvHello
<1>3. pipe[c][o] \in Seq(Message) /\ pipe[c][h] \in Seq(Message) /\ Len(pipe[c][o]) <= PipeCap
      /\ PipeCap \in Nat /\ QueueDepth \in Nat
  BY <1>1, EndType
<1>4. /\ s \in Seq(Message) /\ Len(s) <= PipeCap /\ Relays(s) \subseteq Relays(pipe[c][o])
      /\ (Distinct(pipe[c][o]) => Distinct(s))
      /\ \A i \in DOMAIN s : \E j \in DOMAIN pipe[c][o] : s[i] = pipe[c][o][j]
      /\ \E j \in DOMAIN pipe[c][o] : Head(pipe[c][o]) = pipe[c][o][j]
  <2>1. Len(Tail(pipe[c][o])) = Len(pipe[c][o]) - 1
    BY <1>2, <1>3, RelaysTail
  <2> QED BY <2>1, <1>2, <1>3, RelaysTail
<1>5. a \in BOOLEAN
  BY <1>1 DEF IInv, TypeOK
<1>6. e \in LinkEnd /\ e.queue = <<>>
      /\ (e.st = "up" => Authentic(h, Head(pipe[c][o]))) /\ (e.active => e.st = "up" /\ a)
  <2> HIDE DEF a
  <2>1. CASE Authentic(h, Head(pipe[c][o]))
    <3>1. e = [st |-> "up", active |-> a, bands |-> {}, queue |-> <<>>, last |-> None, writer |-> TRUE]
      BY <2>1 DEF NewEnd
    <3>2. e \in LinkEnd /\ e.st = "up" /\ e.active = a /\ e.queue = <<>>
      <4>1. {} \in SUBSET Band /\ None \in (SUBSET Band) \cup {None} /\ TRUE \in BOOLEAN
        OBVIOUS
      <4> HIDE DEF e
      <4> QED BY <4>1, <3>1, <1>5, MakeEnd, RelaysNone
    <3> QED BY <3>2, <2>1
  <2>2. CASE ~Authentic(h, Head(pipe[c][o]))
    <3>1. e = Gone
      BY <2>2
    <3> HIDE DEF e
    <3> QED BY <3>1, GoneEnd
  <2> QED BY <2>1, <2>2
<1>7. link'[c][h] = e /\ link'[c][o] = link[c][o] /\ pipe'[c][o] = s /\ pipe'[c][h] = pipe[c][h]
  <2> HIDE DEF e, s
  <2> QED BY <1>1, <1>2, <1>4, <1>6, OneEnd, OnePipe DEF TypeOK
<1>8. Authentic(h, Head(pipe[c][o])) => secret[h] = secret[o]
  BY <1>1, <1>4 DEF WireOK, Authentic
<1> HIDE DEF e, s
<1>9. EndOK(c, h)'
  BY <1>0, <1>1, <1>2, <1>6, <1>7, <1>8 DEF EndOK, Ends, Other
<1>10. WireOK(c, h)'
  BY <1>1, <1>2, <1>6, <1>7, RelaysNone DEF WireOK
<1>11. WireOK(c, o)'
  BY <1>1, <1>2, <1>4, <1>7 DEF WireOK
<1>12. /\ Underway(link'[c][h], pipe'[c][h]) \subseteq Underway(link[c][h], pipe[c][h])
       /\ Underway(link'[c][o], pipe'[c][o]) \subseteq Underway(link[c][o], pipe[c][o])
  BY <1>4, <1>6, <1>7, RelaysNone DEF Underway
<1>13. Len(e.queue) <= QueueDepth
  BY <1>3, <1>6, RelaysNone
<1> QED BY <1>1, <1>2, <1>4, <1>6, <1>9, <1>10, <1>11, <1>12, <1>13, EndStepOK

\* The end that goes takes its queue with it, and nobody reads what comes to it.
LEMMA ReadFailsStep ==
  ASSUME IInv, NEW c \in DOMAIN conn, NEW h \in Ends(c), ReadFails(c, h)
  PROVE  IInv'
<1>0. PICK o : o = Other(c, h)
  OBVIOUS
<1>1. c \in Conn /\ h \in Hub /\ o \in Hub /\ o # h /\ TypeOK
      /\ WireOK(c, h) /\ WireOK(c, o) /\ EndOK(c, h)
  BY <1>0, EndFacts
<1>2. link' = [link EXCEPT ![c][h] = Gone] /\ pipe' = [pipe EXCEPT ![c][o] = <<>>]
      /\ UNCHANGED <<secret, admits, bands, changes, frames, egress, conn, cut, injected>>
  BY <1>0 DEF ReadFails
<1>3. Gone \in LinkEnd /\ Gone.queue = <<>> /\ Gone.st = "gone" /\ Gone.active = FALSE
  BY GoneEnd
<1>4. PipeCap \in Nat /\ QueueDepth \in Nat
  BY <1>1, EndType
<1>5. link'[c][h] = Gone /\ link'[c][o] = link[c][o] /\ pipe'[c][o] = <<>> /\ pipe'[c][h] = pipe[c][h]
  BY <1>1, <1>2, <1>3, RelaysNone, OneEnd, OnePipe DEF TypeOK
<1>6. EndOK(c, h)'
  BY <1>3, <1>5 DEF EndOK
<1>7. WireOK(c, h)' /\ WireOK(c, o)'
  BY <1>1, <1>2, <1>3, <1>5, RelaysNone DEF WireOK
<1>8. /\ Underway(link'[c][h], pipe'[c][h]) \subseteq Underway(link[c][h], pipe[c][h])
      /\ Underway(link'[c][o], pipe'[c][o]) \subseteq Underway(link[c][o], pipe[c][o])
  BY <1>3, <1>5, RelaysNone DEF Underway
<1>9. Len(Gone.queue) <= QueueDepth /\ Len(<<>>) <= PipeCap
  BY <1>3, <1>4, RelaysNone
<1> QED BY <1>1, <1>2, <1>3, <1>6, <1>7, <1>8, <1>9, RelaysNone, EndStepOK

\* A set of bands joins the queue if there is room.
LEMMA TrySendBands ==
  ASSUME NEW e \in LinkEnd, NEW bs \in SUBSET Band, Len(e.queue) <= QueueDepth
  PROVE  LET n == [TrySend(e, [kind |-> "bands", bands |-> bs]) EXCEPT !.last = bs] IN
         /\ n \in LinkEnd /\ Len(n.queue) <= QueueDepth /\ Relays(n.queue) = Relays(e.queue)
         /\ n.st = e.st /\ n.active = e.active
         /\ Distinct(e.queue) => Distinct(n.queue)
         /\ \A i \in DOMAIN n.queue : n.queue[i].kind = "bands" \/ \E j \in DOMAIN e.queue : n.queue[i] = e.queue[j]
<1> DEFINE m == [kind |-> "bands", bands |-> bs]
           n == [TrySend(e, m) EXCEPT !.last = bs]
<1>1. m \in Message /\ m.kind = "bands"
  BY DEF Message
<1>2. e.queue \in Seq(Message) /\ QueueDepth \in Nat
      /\ e = [st |-> e.st, active |-> e.active, bands |-> e.bands, queue |-> e.queue,
              last |-> e.last, writer |-> e.writer]
  BY FederationAssumption DEF LinkEnd
<1> HIDE DEF m
<1>3. CASE e.writer /\ Len(e.queue) < QueueDepth
  <2> DEFINE q == Append(e.queue, m)
  <2>1. n = [[e EXCEPT !.queue = q] EXCEPT !.last = bs]
    BY <1>3 DEF TrySend
  <2>2. q \in Seq(Message) /\ Len(q) = Len(e.queue) + 1
    BY <1>1, <1>2
  <2>3. /\ Relays(q) = Relays(e.queue) /\ (Distinct(e.queue) => Distinct(q))
        /\ \A i \in DOMAIN q : q[i] = m \/ \E j \in DOMAIN e.queue : q[i] = e.queue[j]
    <3>1. m.kind # "relay"
      BY <1>1
    <3> QED BY <3>1, <1>1, <1>2, RelaysAppend
  <2> HIDE DEF q, n
  <2>4. n \in LinkEnd /\ n.queue = q /\ n.st = e.st /\ n.active = e.active
    <3> DEFINE d == [e EXCEPT !.queue = q]
    <3>1. d \in LinkEnd /\ d.queue = q /\ d.st = e.st /\ d.active = e.active
      BY <2>2, EndUpdate
    <3>2. n = [d EXCEPT !.last = bs]
      BY <2>1
    <3> HIDE DEF d
    <3> QED BY <3>1, <3>2, EndUpdate
  <2>5. Len(q) <= QueueDepth
    BY <2>2, <1>2, <1>3
  <2> QED BY <2>3, <2>4, <2>5, <1>1 DEF n, m
<1>4. CASE ~(e.writer /\ Len(e.queue) < QueueDepth)
  <2>1. n = [e EXCEPT !.last = bs]
    BY <1>4 DEF TrySend
  <2> HIDE DEF n
  <2>2. n \in LinkEnd /\ n.queue = e.queue /\ n.st = e.st /\ n.active = e.active
    BY <2>1, EndUpdate
  <2> QED BY <2>2 DEF n, m
<1> QED BY <1>3, <1>4

\* An advertisement carries no frame.
LEMMA AdvertiseStep ==
  ASSUME IInv, NEW c \in DOMAIN conn, NEW h \in Ends(c), Advertise(c, h)
  PROVE  IInv'
<1> DEFINE e == [TrySend(link[c][h], [kind |-> "bands", bands |-> bands[h]]) EXCEPT !.last = bands[h]]
           s == pipe[c][h]
<1>1. c \in Conn /\ h \in Hub /\ TypeOK /\ WireOK(c, h) /\ EndOK(c, h)
  BY EndFacts
<1>2. link[c][h] \in LinkEnd /\ Len(link[c][h].queue) <= QueueDepth /\ s \in Seq(Message)
      /\ Len(s) <= PipeCap /\ bands[h] \in SUBSET Band
  BY <1>1, EndType DEF TypeOK
<1>3. link' = [link EXCEPT ![c][h] = e] /\ pipe' = pipe
      /\ UNCHANGED <<secret, admits, bands, changes, frames, egress, conn, cut, injected>>
  BY DEF Advertise
<1>4. /\ e \in LinkEnd /\ Len(e.queue) <= QueueDepth /\ Relays(e.queue) = Relays(link[c][h].queue)
      /\ e.st = link[c][h].st /\ e.active = link[c][h].active
      /\ Distinct(link[c][h].queue) => Distinct(e.queue)
      /\ \A i \in DOMAIN e.queue : e.queue[i].kind = "bands" \/ \E j \in DOMAIN link[c][h].queue : e.queue[i] = link[c][h].queue[j]
  BY <1>2, TrySendBands
<1> HIDE DEF e
<1>5. pipe' = [pipe EXCEPT ![c][h] = s]
  BY <1>1, <1>3 DEF TypeOK
<1>6. link'[c][h] = e /\ pipe'[c][h] = s
  BY <1>1, <1>3, <1>4, OneEnd DEF TypeOK
<1>7. EndOK(c, h)'
  BY <1>1, <1>3, <1>4, <1>6 DEF EndOK, Ends, Other
<1>8. WireOK(c, h)'
  BY <1>1, <1>3, <1>4, <1>6 DEF WireOK
<1>9. Underway(link'[c][h], pipe'[c][h]) \subseteq Underway(link[c][h], pipe[c][h])
  BY <1>4, <1>6 DEF Underway
<1> HIDE DEF s
<1> QED BY <1>1, <1>2, <1>3, <1>4, <1>5, <1>7, <1>8, <1>9, EndStepOK

\* The writer moves a message from the queue to the connection.
LEMMA WriterWritesStep ==
  ASSUME IInv, NEW c \in DOMAIN conn, NEW h \in Ends(c), WriterWrites(c, h)
  PROVE  IInv'
<1> DEFINE q == link[c][h].queue
           e == [link[c][h] EXCEPT !.queue = Tail(q)]
           s == Append(pipe[c][h], Head(q))
<1>1. c \in Conn /\ h \in Hub /\ TypeOK /\ WireOK(c, h) /\ EndOK(c, h)
  BY EndFacts
<1>2. link[c][h] \in LinkEnd /\ q \in Seq(Message) /\ Len(q) <= QueueDepth
      /\ pipe[c][h] \in Seq(Message) /\ PipeCap \in Nat /\ QueueDepth \in Nat
  BY <1>1, EndType DEF TypeOK
<1>3. link' = [link EXCEPT ![c][h] = e] /\ pipe' = [pipe EXCEPT ![c][h] = s]
      /\ q # <<>> /\ Len(pipe[c][h]) < PipeCap
      /\ UNCHANGED <<secret, admits, bands, changes, frames, egress, conn, cut, injected>>
  BY DEF WriterWrites
<1>4. /\ Head(q) \in Message /\ Tail(q) \in Seq(Message) /\ Len(Tail(q)) = Len(q) - 1
      /\ Relays(Tail(q)) \subseteq Relays(q)
      /\ (Head(q).kind = "relay" => Head(q).frame \in Relays(q))
      /\ (Distinct(q) => Distinct(Tail(q)))
      /\ (Distinct(q) /\ Head(q).kind = "relay" => Head(q).frame \notin Relays(Tail(q)))
      /\ \A i \in DOMAIN Tail(q) : \E j \in DOMAIN q : Tail(q)[i] = q[j]
      /\ \E j \in DOMAIN q : Head(q) = q[j]
  <2> HIDE DEF q
  <2> QED BY <1>2, <1>3, RelaysTail
<1>5. /\ s \in Seq(Message)
      /\ Relays(s) = Relays(pipe[c][h]) \cup (IF Head(q).kind = "relay" THEN {Head(q).frame} ELSE {})
      /\ (Distinct(pipe[c][h]) /\ (Head(q).kind = "relay" => Head(q).frame \notin Relays(pipe[c][h])) => Distinct(s))
      /\ \A i \in DOMAIN s : s[i] = Head(q) \/ \E j \in DOMAIN pipe[c][h] : s[i] = pipe[c][h][j]
  <2> HIDE DEF q
  <2> QED BY <1>2, <1>4, RelaysAppend
<1>6. e \in LinkEnd /\ e.queue = Tail(q) /\ e.st = link[c][h].st /\ e.active = link[c][h].active
  BY <1>2, <1>4, EndUpdate
<1>7. Len(e.queue) <= QueueDepth /\ Len(s) <= PipeCap
  BY <1>2, <1>3, <1>4, <1>6
<1>8. WireOK(c, h)'
  <2> HIDE DEF e, s
  <2>1. link'[c][h] = e /\ pipe'[c][h] = s
    BY <1>1, <1>3, <1>5, <1>6, OneEnd, OnePipe DEF TypeOK
  <2>2. Distinct(Tail(q)) /\ Distinct(s) /\ Relays(Tail(q)) \cap Relays(s) = {}
    BY <1>1, <1>4, <1>5 DEF WireOK
  <2>3. \A i \in DOMAIN Tail(q) : Tail(q)[i].kind # "hello"
    BY <1>1, <1>4 DEF WireOK
  <2>4. \A i \in DOMAIN s : s[i].kind = "hello" => s[i].secret = secret[h]
    BY <1>1, <1>4, <1>5 DEF WireOK
  <2> QED BY <2>1, <2>2, <2>3, <2>4, <1>3, <1>6 DEF WireOK
<1> HIDE DEF e, s
<1>9. link'[c][h] = e /\ pipe'[c][h] = s
  BY <1>1, <1>3, <1>5, <1>6, OneEnd, OnePipe DEF TypeOK
<1>10. EndOK(c, h)'
  BY <1>1, <1>3, <1>6, <1>9 DEF EndOK, Ends, Other
<1>11. Underway(link'[c][h], pipe'[c][h]) \subseteq Underway(link[c][h], pipe[c][h])
  BY <1>4, <1>5, <1>6, <1>9 DEF Underway
<1> QED BY <1>1, <1>3, <1>5, <1>6, <1>7, <1>8, <1>10, <1>11, EndStepOK

\* A writer that fails loses its queue.
LEMMA WriterFailsStep ==
  ASSUME IInv, NEW c \in DOMAIN conn, NEW h \in Ends(c), WriterFails(c, h)
  PROVE  IInv'
<1> DEFINE l == link[c][h]
           d == [l EXCEPT !.writer = FALSE]
           e == [d EXCEPT !.queue = <<>>]
           s == pipe[c][h]
<1>1. c \in Conn /\ h \in Hub /\ TypeOK /\ WireOK(c, h) /\ EndOK(c, h)
  BY EndFacts
<1>2. l \in LinkEnd /\ s \in Seq(Message) /\ Len(s) <= PipeCap /\ QueueDepth \in Nat
  BY <1>1, EndType DEF TypeOK
<1>3. UNCHANGED <<secret, admits, bands, changes, frames, egress, conn, cut, pipe, injected>>
  BY DEF WriterFails
<1>4. e \in LinkEnd /\ e.queue = <<>> /\ e.st = l.st /\ e.active = l.active
  <2>1. d \in LinkEnd /\ d.queue = l.queue /\ d.st = l.st /\ d.active = l.active
    BY <1>2, EndUpdate
  <2> HIDE DEF d
  <2> QED BY <2>1, RelaysNone, EndUpdate
<1>5. link' = [link EXCEPT ![c][h] = e]
  <2>1. link \in [Conn -> [Hub -> LinkEnd]]
    BY <1>1 DEF TypeOK
  <2> QED BY <2>1, <1>1 DEF WriterFails
<1>6. pipe' = [pipe EXCEPT ![c][h] = s]
  BY <1>1, <1>3 DEF TypeOK
<1> HIDE DEF e
<1>7. link'[c][h] = e /\ pipe'[c][h] = s
  BY <1>1, <1>3, <1>4, <1>5, OneEnd DEF TypeOK
<1>8. EndOK(c, h)'
  BY <1>1, <1>3, <1>4, <1>7 DEF EndOK, Ends, Other
<1>9. WireOK(c, h)'
  BY <1>1, <1>3, <1>4, <1>7, RelaysNone DEF WireOK
<1>10. Underway(link'[c][h], pipe'[c][h]) \subseteq Underway(link[c][h], pipe[c][h])
  BY <1>4, <1>7, RelaysNone DEF Underway
<1>11. Len(e.queue) <= QueueDepth
  BY <1>2, <1>4, RelaysNone
<1> HIDE DEF s
<1> QED BY <1>1, <1>2, <1>3, <1>4, <1>5, <1>6, <1>8, <1>9, <1>10, <1>11, EndStepOK

\* The bands of the other end replace what was known.
LEMMA RecvBandsStep ==
  ASSUME IInv, NEW c \in DOMAIN conn, NEW h \in Ends(c), RecvBands(c, h)
  PROVE  IInv'
<1>0. PICK o : o = Other(c, h)
  OBVIOUS
<1> DEFINE l == link[c][h]
           bs == Head(pipe[c][o]).bands
           e == [l EXCEPT !.bands = bs]
           s == Tail(pipe[c][o])
<1>1. c \in Conn /\ h \in Hub /\ o \in Hub /\ o \in Ends(c) /\ o # h /\ TypeOK
      /\ WireOK(c, h) /\ WireOK(c, o) /\ EndOK(c, h)
  BY <1>0, EndFacts
<1>2. link' = [link EXCEPT ![c][h] = e] /\ pipe' = [pipe EXCEPT ![c][o] = s] /\ pipe[c][o] # <<>>
      /\ Head(pipe[c][o]).kind = "bands"
      /\ UNCHANGED <<secret, admits, bands, changes, frames, egress, conn, cut, injected>>
  BY <1>0 DEF RecvBands
<1>3. pipe[c][o] \in Seq(Message) /\ pipe[c][h] \in Seq(Message) /\ Len(pipe[c][o]) <= PipeCap
      /\ PipeCap \in Nat /\ l \in LinkEnd /\ Len(l.queue) <= QueueDepth
  BY <1>1, EndType
<1>4. /\ s \in Seq(Message) /\ Len(s) <= PipeCap /\ Relays(s) \subseteq Relays(pipe[c][o])
      /\ (Distinct(pipe[c][o]) => Distinct(s)) /\ Head(pipe[c][o]) \in Message
      /\ \A i \in DOMAIN s : \E j \in DOMAIN pipe[c][o] : s[i] = pipe[c][o][j]
  <2>1. Len(Tail(pipe[c][o])) = Len(pipe[c][o]) - 1
    BY <1>2, <1>3, RelaysTail
  <2> QED BY <2>1, <1>2, <1>3, RelaysTail
<1>5. bs \in SUBSET Band
  BY <1>2, <1>4 DEF Message
<1>6. e \in LinkEnd /\ e.queue = l.queue /\ e.st = l.st /\ e.active = l.active
  <2> HIDE DEF bs
  <2> QED BY <1>3, <1>5, EndUpdate
<1> HIDE DEF e, s
<1>7. link'[c][h] = e /\ link'[c][o] = link[c][o] /\ pipe'[c][o] = s /\ pipe'[c][h] = pipe[c][h]
  <2> QED BY <1>1, <1>2, <1>4, <1>6, OneEnd, OnePipe DEF TypeOK
<1>8. EndOK(c, h)'
  BY <1>1, <1>2, <1>6, <1>7 DEF EndOK, Ends, Other
<1>9. WireOK(c, h)'
  BY <1>1, <1>2, <1>6, <1>7 DEF WireOK
<1>10. WireOK(c, o)'
  BY <1>1, <1>2, <1>4, <1>7 DEF WireOK
<1>11. /\ Underway(link'[c][h], pipe'[c][h]) \subseteq Underway(link[c][h], pipe[c][h])
       /\ Underway(link'[c][o], pipe'[c][o]) \subseteq Underway(link[c][o], pipe[c][o])
  BY <1>4, <1>6, <1>7 DEF Underway
<1> QED BY <1>1, <1>2, <1>3, <1>4, <1>6, <1>8, <1>9, <1>10, <1>11, EndStepOK

\* A step that leaves links, frames and connections alone.
LEMMA QuietStep ==
  ASSUME IInv, TypeOK', UNCHANGED <<secret, admits, frames, egress, conn, link, pipe, injected>>
  PROVE  IInv'
<1>1. LinksOK'
  BY DEF IInv, LinksOK, EndOK, WireOK, SourceOK, Ends, Other
<1>2. EgressOK' /\ OneDialed' /\ Counted' /\ RelayAuthorised'
  <2>1. EgressOK'
    BY DEF IInv, EgressOK
  <2>2. OneDialed' /\ Counted' /\ RelayAuthorised'
    BY DEF IInv, OneDialed, Counted, RelayAuthorised
  <2> QED BY <2>1, <2>2
<1>3. OneReader'
  BY DEF IInv, OneReader, Ends, Other
<1>4. SingleLinks' => NotAgain'
  BY DEF IInv, SingleLinks, NotAgain, Ends, Other
<1> QED BY <1>1, <1>2, <1>3, <1>4 DEF IInv

\* Bands come and go.
LEMMA BandChangeStep ==
  ASSUME IInv, NEW h \in Hub, NEW b \in Band, BandChange(h, b)
  PROVE  IInv'
<1>1. bands' \in [Hub -> SUBSET Band] /\ changes' \in Nat
  BY DEF IInv, TypeOK, BandChange
<1>2. UNCHANGED <<secret, admits, frames, egress, conn, cut, link, pipe, injected>>
  BY DEF BandChange
<1>3. TypeOK'
  BY <1>1, <1>2 DEF IInv, TypeOK
<1> QED BY <1>2, <1>3, QuietStep

\* A connection is cut; its ends will notice.
LEMMA CutStep ==
  ASSUME IInv, NEW c \in DOMAIN conn, Cut(c)
  PROVE  IInv'
<1>1. UNCHANGED <<secret, admits, bands, changes, frames, egress, conn, link, pipe, injected>>
  BY DEF Cut
<1>2. TypeOK'
  BY <1>1 DEF IInv, TypeOK, Cut
<1> QED BY <1>1, <1>2, QuietStep

\* A new frame has not been anywhere.
LEMMA ForwardStep ==
  ASSUME IInv, NEW h \in Hub, NEW b \in Band, Forward(h, b)
  PROVE  IInv'
<1> DEFINE n == Len(frames) + 1
<1>1. /\ frames' = Append(frames, [band |-> b, origin |-> h])
      /\ egress' = [egress EXCEPT ![h] = Append(egress[h], n)] /\ Len(frames) < MaxFrames
      /\ UNCHANGED <<secret, admits, bands, changes, conn, cut, link, pipe, injected>>
  BY DEF Forward
<1>2. frames \in Seq([band : Band, origin : Hub]) /\ MaxFrames \in Nat /\ TypeOK
      /\ egress \in [Hub -> Seq(Frame)] /\ injected \in [Frame -> [Hub -> Nat]]
  BY FederationAssumption DEF IInv, TypeOK
<1>3. [band |-> b, origin |-> h] \in [band : Band, origin : Hub]
  OBVIOUS
<1>4. /\ frames' \in Seq([band : Band, origin : Hub]) /\ Len(frames') = n
      /\ DOMAIN frames' = 1 .. n /\ DOMAIN frames = 1 .. n - 1 /\ n \in Nat
      /\ frames'[n] = [band |-> b, origin |-> h] /\ \A f \in DOMAIN frames : frames'[f] = frames[f]
  BY <1>1, <1>2, <1>3
<1>5. n \in Frame /\ n \notin DOMAIN frames /\ n \in DOMAIN frames' /\ frames'[n].origin = h
      /\ n <= MaxFrames /\ \A f \in DOMAIN frames : f \in DOMAIN frames' /\ frames'[f] = frames[f]
  BY <1>1, <1>2, <1>4 DEF Frame
<1> HIDE DEF n
<1>6. \A g \in Hub : injected[n][g] = 0
  BY <1>2, <1>5 DEF IInv, Counted
<1>7. \A c \in Conn, g \in Hub : \A f \in Underway(link[c][g], pipe[c][g]) :
        f \in DOMAIN frames /\ SourceOK(c, g, f)
  BY DEF IInv, LinksOK, SourceOK
<1>8. egress' \in [Hub -> Seq(Frame)] /\ \A g \in Hub : g # h => egress'[g] = egress[g]
  BY <1>1, <1>2, <1>5
<1>9. TypeOK'
  BY <1>1, <1>2, <1>4, <1>5, <1>8 DEF TypeOK
<1>10. LinksOK'
  <2>1. \A c \in Conn, g \in Hub : EndOK(c, g)' /\ WireOK(c, g)'
    BY <1>1 DEF IInv, LinksOK, EndOK, WireOK, Ends, Other
  <2>2. \A c \in Conn, g \in Hub : \A f \in Underway(link[c][g], pipe[c][g]) : SourceOK(c, g, f)'
    BY <1>1, <1>5, <1>7 DEF SourceOK, Ends
  <2> QED BY <2>1, <2>2, <1>1 DEF LinksOK
<1>11. EgressOK'
  <2> DEFINE Fine(g, f) == /\ f \in DOMAIN frames' /\ frames'[f].origin = g
                           /\ \A k \in Hub : injected[f][k] = 0
                           /\ \A c \in Conn : f \notin Underway(link[c][g], pipe[c][g])
  <2>1. \A g \in Hub : \A i \in DOMAIN egress[g] : Fine(g, egress[g][i]) /\ egress[g][i] # n
    BY <1>5 DEF IInv, EgressOK
  <2>2. Fine(h, n)
    BY <1>5, <1>6, <1>7
  <2> DEFINE s == egress[h]
             t == Append(s, n)
  <2>3. /\ DOMAIN t = 1 .. Len(s) + 1 /\ DOMAIN s = 1 .. Len(s) /\ Len(s) \in Nat
        /\ t[Len(s) + 1] = n /\ \A i \in DOMAIN s : t[i] = s[i]
    BY <1>2
  <2>4. egress'[h] = t
    BY <1>1, <1>2
  <2> HIDE DEF t, Fine
  <2>5. \A i \in DOMAIN t : i \in DOMAIN s \/ i = Len(s) + 1
    BY <2>3
  <2>6. \A i \in DOMAIN t : Fine(h, t[i])
    BY <2>1, <2>2, <2>3, <2>5
  <2>7. \A i, j \in DOMAIN s : s[i] = s[j] => i = j
    BY DEF IInv, EgressOK
  <2>8. \A i, j \in DOMAIN t : t[i] = t[j] => i = j
    BY <2>1, <2>3, <2>5, <2>7
  <2>9. ASSUME NEW g \in Hub
        PROVE  /\ \A i, j \in DOMAIN egress'[g] : egress'[g][i] = egress'[g][j] => i = j
               /\ \A i \in DOMAIN egress'[g] : Fine(g, egress'[g][i])
    <3>1. CASE g = h
      BY <3>1, <2>4, <2>6, <2>8
    <3>2. CASE g # h
      BY <3>2, <1>8, <2>1 DEF IInv, EgressOK
    <3> QED BY <3>1, <3>2
  <2> QED BY <2>9, <1>1 DEF EgressOK, Fine
<1>12. OneDialed' /\ OneReader'
  BY <1>1 DEF IInv, OneDialed, OneReader, Ends, Other
<1>13. Counted'
  BY <1>1, <1>5 DEF IInv, Counted
<1>14. RelayAuthorised'
  <2> SUFFICES ASSUME NEW f \in DOMAIN frames', NEW g \in Hub, injected[f][g] > 0
               PROVE  /\ secret[g] = secret[frames'[f].origin]
                      /\ \E d \in Dials : {d[1], d[2]} = {g, frames'[f].origin} /\ admits[d[2]]
    BY <1>1, ZenonT(60) DEF RelayAuthorised
  <2>1. f \in DOMAIN frames
    BY <1>4, <1>6
  <2> QED BY <2>1, <1>5 DEF IInv, RelayAuthorised
<1>15. SingleLinks' => NotAgain'
  BY <1>1 DEF IInv, SingleLinks, NotAgain, Ends, Other
<1> QED BY <1>9, <1>10, <1>11, <1>12, <1>13, <1>14, <1>15 DEF IInv

\* A frame joins the queue if there is room.
LEMMA TrySendRelay ==
  ASSUME NEW e \in LinkEnd, NEW f \in Frame, Len(e.queue) <= QueueDepth
  PROVE  LET n == TrySend(e, [kind |-> "relay", frame |-> f]) IN
         /\ n \in LinkEnd /\ Len(n.queue) <= QueueDepth /\ n.st = e.st /\ n.active = e.active
         /\ Relays(n.queue) \subseteq Relays(e.queue) \cup {f}
         /\ Distinct(e.queue) /\ f \notin Relays(e.queue) => Distinct(n.queue)
         /\ \A i \in DOMAIN n.queue : n.queue[i].kind = "relay" \/ \E j \in DOMAIN e.queue : n.queue[i] = e.queue[j]
<1> DEFINE m == [kind |-> "relay", frame |-> f]
           n == TrySend(e, m)
<1>1. m \in Message /\ m.kind = "relay" /\ m.frame = f
  BY DEF Message
<1>2. e.queue \in Seq(Message) /\ QueueDepth \in Nat
  BY FederationAssumption DEF LinkEnd
<1> HIDE DEF m
<1>3. CASE e.writer /\ Len(e.queue) < QueueDepth
  <2> DEFINE q == Append(e.queue, m)
  <2>1. n = [e EXCEPT !.queue = q]
    BY <1>3 DEF TrySend
  <2>2. q \in Seq(Message) /\ Len(q) = Len(e.queue) + 1 /\ Len(q) <= QueueDepth
    BY <1>1, <1>2, <1>3
  <2>3. /\ Relays(q) = Relays(e.queue) \cup {f}
        /\ (Distinct(e.queue) /\ f \notin Relays(e.queue) => Distinct(q))
        /\ \A i \in DOMAIN q : q[i] = m \/ \E j \in DOMAIN e.queue : q[i] = e.queue[j]
    BY <1>1, <1>2, RelaysAppend
  <2> HIDE DEF q, n
  <2>4. n \in LinkEnd /\ n.queue = q /\ n.st = e.st /\ n.active = e.active
    BY <2>1, <2>2, EndUpdate
  <2> QED BY <2>2, <2>3, <2>4, <1>1 DEF n, m
<1>4. CASE ~(e.writer /\ Len(e.queue) < QueueDepth)
  BY <1>4 DEF TrySend
<1> QED BY <1>3, <1>4

\* The fan-out: the frame leaves the egress queue for good, and of the links it
\* joins at most one has a reader at each hub.
LEMMA FanEgressStep ==
  ASSUME IInv, NEW h \in Hub, FanEgress(h)
  PROVE  IInv'
<1>1. TypeOK /\ egress[h] \in Seq(Frame) /\ egress[h] # <<>>
      /\ link \in [Conn -> [Hub -> LinkEnd]] /\ egress \in [Hub -> Seq(Frame)]
  BY DEF IInv, TypeOK, FanEgress
<1>2. PICK f \in Frame : f = Head(egress[h]) /\ f = egress[h][1] /\ 1 \in DOMAIN egress[h]
  BY <1>1
<1> DEFINE m == [kind |-> "relay", frame |-> f]
           New(c) == IF Wants(link[c][h], frames[f].band) THEN TrySend(link[c][h], m) ELSE link[c][h]
           Into(c) == link[c][h].st = "up" /\ link[c][h].active
<1>3. /\ egress' = [egress EXCEPT ![h] = Tail(egress[h])]
      /\ link' = [c \in Conn |-> [link[c] EXCEPT ![h] = New(c)]]
      /\ UNCHANGED <<secret, admits, bands, changes, frames, conn, cut, pipe, injected>>
  BY <1>2 DEF FanEgress
<1>4. /\ f \in DOMAIN frames /\ frames[f].origin = h /\ \A g \in Hub : injected[f][g] = 0
      /\ \A c \in Conn : f \notin Underway(link[c][h], pipe[c][h])
  BY <1>2 DEF IInv, EgressOK
<1>5. ASSUME NEW c \in Conn
      PROVE  /\ New(c) \in LinkEnd /\ Len(New(c).queue) <= QueueDepth
             /\ New(c).st = link[c][h].st /\ New(c).active = link[c][h].active
             /\ Relays(New(c).queue) \subseteq Relays(link[c][h].queue) \cup (IF Into(c) THEN {f} ELSE {})
             /\ (Distinct(link[c][h].queue) /\ f \notin Relays(link[c][h].queue) => Distinct(New(c).queue))
             /\ \A i \in DOMAIN New(c).queue : New(c).queue[i].kind = "relay"
                  \/ \E j \in DOMAIN link[c][h].queue : New(c).queue[i] = link[c][h].queue[j]
  <2>1. link[c][h] \in LinkEnd /\ Len(link[c][h].queue) <= QueueDepth
    BY <1>1, EndType
  <2>2. CASE Wants(link[c][h], frames[f].band)
    <3>1. New(c) = TrySend(link[c][h], m) /\ Into(c)
      BY <2>2 DEF Wants
    <3> DEFINE n == TrySend(link[c][h], m)
    <3>2. /\ n \in LinkEnd /\ Len(n.queue) <= QueueDepth
          /\ n.st = link[c][h].st /\ n.active = link[c][h].active
          /\ Relays(n.queue) \subseteq Relays(link[c][h].queue) \cup {f}
          /\ (Distinct(link[c][h].queue) /\ f \notin Relays(link[c][h].queue) => Distinct(n.queue))
          /\ \A i \in DOMAIN n.queue : n.queue[i].kind = "relay"
                \/ \E j \in DOMAIN link[c][h].queue : n.queue[i] = link[c][h].queue[j]
      BY <2>1, TrySendRelay
    <3> HIDE DEF New, Into, n
    <3>3. New(c) = n
      BY <3>1 DEF n
    <3> QED BY <3>1, <3>2, <3>3
  <2>3. CASE ~Wants(link[c][h], frames[f].band)
    <3>1. New(c) = link[c][h]
      BY <2>3
    <3> HIDE DEF New, Into
    <3> QED BY <3>1, <2>1
  <2> QED BY <2>2, <2>3
<1> HIDE DEF New
<1>6. /\ link' \in [Conn -> [Hub -> LinkEnd]]
      /\ \A c \in Conn, g \in Hub : link'[c][g] = IF g = h THEN New(c) ELSE link[c][g]
  BY <1>1, <1>3, <1>5
<1>7. \A c \in Conn, g \in Hub : link'[c][g].st = link[c][g].st /\ link'[c][g].active = link[c][g].active
  BY <1>5, <1>6
<1>8. \A c \in Conn, g \in Hub : Underway(link'[c][g], pipe[c][g])
        \subseteq Underway(link[c][g], pipe[c][g]) \cup (IF g = h /\ Into(c) THEN {f} ELSE {})
  BY <1>5, <1>6 DEF Underway
<1>9. egress' \in [Hub -> Seq(Frame)]
  BY <1>1, <1>3
<1>10. TypeOK'
  <2>1. \A c \in Conn, g \in Hub : Len(link'[c][g].queue) <= QueueDepth /\ Len(pipe[c][g]) <= PipeCap
    BY <1>1, <1>5, <1>6, EndType
  <2> QED BY <2>1, <1>3, <1>6, <1>9 DEF IInv, TypeOK
<1>11. LinksOK'
  <2> SUFFICES ASSUME NEW c \in Conn, NEW g \in Hub
               PROVE  /\ EndOK(c, g)' /\ WireOK(c, g)'
                      /\ \A x \in Underway(link'[c][g], pipe'[c][g]) : SourceOK(c, g, x)'
    BY DEF LinksOK
  <2>1. EndOK(c, g) /\ WireOK(c, g) /\ \A x \in Underway(link[c][g], pipe[c][g]) : SourceOK(c, g, x)
    BY DEF IInv, LinksOK
  <2>2. EndOK(c, g)'
    BY <2>1, <1>3, <1>7 DEF EndOK, Ends, Other
  <2>3. WireOK(c, g)'
    <3>1. CASE g = h
      <4>1. f \notin Relays(link[c][h].queue) /\ f \notin Relays(pipe[c][h])
        BY <1>4 DEF Underway
      <4>2. link'[c][g] = New(c) /\ pipe'[c][g] = pipe[c][h]
        BY <3>1, <1>3, <1>6
      <4>3. Distinct(New(c).queue) /\ Relays(New(c).queue) \cap Relays(pipe[c][h]) = {}
        BY <4>1, <2>1, <3>1, <1>5 DEF WireOK
      <4>4. \A i \in DOMAIN New(c).queue : New(c).queue[i].kind # "hello"
        BY <2>1, <3>1, <1>5 DEF WireOK
      <4> QED BY <4>2, <4>3, <4>4, <2>1, <3>1, <1>3 DEF WireOK
    <3>2. CASE g # h
      BY <3>2, <2>1, <1>3, <1>6 DEF WireOK
    <3> QED BY <3>1, <3>2
  <2>4. ASSUME NEW x \in Underway(link'[c][g], pipe'[c][g]) PROVE SourceOK(c, g, x)
    <3>1. CASE x \in Underway(link[c][g], pipe[c][g])
      BY <3>1, <2>1
    <3>2. CASE x = f /\ g = h /\ Into(c)
      BY <3>2, <2>1, <1>4 DEF EndOK, SourceOK
    <3> QED BY <3>1, <3>2, <1>3, <1>8
  <2> QED BY <2>2, <2>3, <2>4, <1>3 DEF SourceOK, Ends
<1>12. EgressOK'
  <2> DEFINE Fine(g, x) == /\ x \in DOMAIN frames /\ frames[x].origin = g
                           /\ \A k \in Hub : injected[x][k] = 0
                           /\ \A c \in Conn : x \notin Underway(link[c][g], pipe[c][g])
             s == egress[h]
             t == Tail(s)
  <2>1. \A g \in Hub : \A i \in DOMAIN egress[g] : Fine(g, egress[g][i])
    BY DEF IInv, EgressOK
  <2>2. \A i \in DOMAIN t : i + 1 \in DOMAIN s /\ i + 1 # 1 /\ t[i] = s[i + 1] /\ i \in Nat
    BY <1>1
  <2>3. egress'[h] = t /\ \A g \in Hub : g # h => egress'[g] = egress[g]
    BY <1>1, <1>3
  <2>4. \A i, j \in DOMAIN s : s[i] = s[j] => i = j
    BY DEF IInv, EgressOK
  <2> HIDE DEF t, s
  <2>5. \A i, j \in DOMAIN t : t[i] = t[j] => i = j
    <3> SUFFICES ASSUME NEW i \in DOMAIN t, NEW j \in DOMAIN t, t[i] = t[j] PROVE i = j
      OBVIOUS
    <3>1. i + 1 = j + 1
      BY <2>2, <2>4
    <3> QED BY <3>1, <2>2
  <2>6. \A i \in DOMAIN t : t[i] # f /\ Fine(h, t[i])
    <3> HIDE DEF Fine
    <3>1. s[1] = f /\ 1 \in DOMAIN s
      BY <1>2 DEF s
    <3> QED BY <3>1, <2>1, <2>2, <2>4 DEF s
  <2>7. ASSUME NEW g \in Hub
        PROVE  /\ \A i, j \in DOMAIN egress'[g] : egress'[g][i] = egress'[g][j] => i = j
               /\ \A i \in DOMAIN egress'[g] : Fine(g, egress'[g][i]) /\ (g = h => egress'[g][i] # f)
    <3> HIDE DEF Fine
    <3>1. CASE g = h
      BY <3>1, <2>3, <2>5, <2>6
    <3>2. CASE g # h
      BY <3>2, <2>1, <2>3 DEF IInv, EgressOK
    <3> QED BY <3>1, <3>2
  <2>8. ASSUME NEW g \in Hub, NEW x, Fine(g, x), g = h => x # f, NEW c \in Conn
        PROVE  x \notin Underway(link'[c][g], pipe'[c][g])
    BY <2>8, <1>3, <1>8
  <2> QED BY <2>7, <2>8, <1>3 DEF EgressOK
<1>13. \A c \in DOMAIN conn : c \in Conn /\ c \in Nat /\ Ends(c) \subseteq Hub /\ conn[c][1] \in Hub
                              /\ \A g \in Ends(c) : Other(c, g) \in Hub
  BY <1>1, ConnFacts
<1>14. conn' = conn /\ \A c, g : Ends(c)' = Ends(c) /\ Other(c, g)' = Other(c, g)
  BY <1>3 DEF Ends, Other
<1>15. OneDialed'
  BY <1>3, <1>7, <1>13 DEF IInv, OneDialed
<1>16. OneReader'
  <2> SUFFICES ASSUME NEW c \in DOMAIN conn, NEW d \in DOMAIN conn, NEW g \in Hub,
                      conn[c] = conn[d], c # d, g \in Ends(c),
                      Underway(link'[c][g], pipe'[c][g]) \cap Underway(link'[d][g], pipe'[d][g]) # {}
               PROVE  link'[c][Other(c, g)].st = "gone" \/ link'[d][Other(c, g)].st = "gone"
    BY <1>14 DEF OneReader
  <2>0. PICK x : x \in Underway(link'[c][g], pipe[c][g]) /\ x \in Underway(link'[d][g], pipe[d][g])
    BY <1>3
  <2> SUFFICES link[c][Other(c, g)].st = "gone" \/ link[d][Other(c, g)].st = "gone"
    BY <1>7, <1>13
  <2>1. CASE x \in Underway(link[c][g], pipe[c][g]) /\ x \in Underway(link[d][g], pipe[d][g])
    BY <2>1 DEF IInv, OneReader
  <2>2. CASE x = f /\ g = h
    <3>1. link[c][h].st = "up" /\ link[d][h].st = "up"
      BY <2>0, <2>2, <1>4, <1>8, <1>13
    <3>2. c < d \/ d < c
      BY <1>13
    <3>3. link[c][conn[c][1]].st = "gone" \/ link[d][conn[c][1]].st = "gone"
      BY <3>2 DEF IInv, OneDialed
    <3>4. h # conn[c][1]
      BY <3>1, <3>3
    <3> QED BY <2>2, <3>3, <3>4 DEF Other
  <2> QED BY <2>0, <2>1, <2>2, <1>8, <1>13
<1>17. Counted' /\ RelayAuthorised'
  BY <1>3 DEF IInv, Counted, RelayAuthorised
<1>18. SingleLinks' => NotAgain'
  <2> SUFFICES ASSUME SingleLinks PROVE NotAgain'
    BY DEF SingleLinks
  <2>1. \A x \in Frame, g \in Hub : injected'[x][g] <= 1
    BY <1>3 DEF IInv, NotAgain
  <2>2. ASSUME NEW c \in DOMAIN conn, NEW g \in Ends(c), NEW x \in Underway(link'[c][g], pipe[c][g]),
               injected[x][Other(c, g)] > 0
        PROVE  link'[c][Other(c, g)].st = "gone"
    <3>1. x # f
      BY <2>2, <1>4, <1>13
    <3>2. x \in Underway(link[c][g], pipe[c][g])
      BY <3>1, <1>8, <1>13
    <3>3. link[c][Other(c, g)].st = "gone"
      BY <3>2, <2>2 DEF IInv, NotAgain
    <3> QED BY <3>3, <1>7, <1>13
  <2> QED BY <2>1, <2>2, <1>3, <1>14 DEF NotAgain
<1> QED BY <1>10, <1>11, <1>12, <1>15, <1>16, <1>17, <1>18 DEF IInv

\* A frame is read: it is gone from its link, and it is injected only over a link
\* that both ends may use.
LEMMA RecvRelayStep ==
  ASSUME IInv, NEW c \in DOMAIN conn, NEW h \in Ends(c), RecvRelay(c, h)
  PROVE  IInv'
<1>0. PICK o : o = Other(c, h)
  OBVIOUS
<1>1. c \in Conn /\ h \in Hub /\ o \in Hub /\ o \in Ends(c) /\ o # h /\ TypeOK /\ Other(c, o) = h
      /\ EndOK(c, h) /\ WireOK(c, o) /\ \A f \in Underway(link[c][o], pipe[c][o]) : SourceOK(c, o, f)
  <2>1. TypeOK
    BY DEF IInv
  <2>2. Other(c, h) \in Ends(c) /\ Other(c, Other(c, h)) = h
    BY <2>1, ConnFacts
  <2> QED BY <2>2, <1>0, EndFacts
<1> DEFINE p == pipe[c][o]
           s == Tail(p)
<1>2. /\ pipe' = [pipe EXCEPT ![c][o] = s] /\ p # <<>> /\ link[c][h].st = "up" /\ Head(p).kind = "relay"
      /\ UNCHANGED <<secret, admits, bands, changes, frames, egress, conn, cut, link>>
  BY <1>0 DEF RecvRelay, Up
<1>3. p \in Seq(Message) /\ Len(p) <= PipeCap /\ PipeCap \in Nat
  BY <1>1, EndType
<1>4. /\ s \in Seq(Message) /\ Len(s) <= PipeCap /\ Relays(s) \subseteq Relays(p)
      /\ (Distinct(p) => Distinct(s)) /\ Head(p) \in Message /\ Head(p).frame \in Relays(p)
      /\ (Distinct(p) => Head(p).frame \notin Relays(s))
      /\ \A i \in DOMAIN s : \E j \in DOMAIN p : s[i] = p[j]
  <2> HIDE DEF p
  <2>1. Len(Tail(p)) = Len(p) - 1
    BY <1>2, <1>3, RelaysTail
  <2> QED BY <2>1, <1>2, <1>3, RelaysTail
<1>5. PICK f \in Frame : f = Head(p).frame
  BY <1>2, <1>4 DEF Message
<1>6. f \in Underway(link[c][o], p) /\ SourceOK(c, o, f) /\ f \notin Underway(link[c][o], s)
  BY <1>1, <1>4, <1>5 DEF WireOK, Underway
<1>7. \/ injected' = injected
      \/ link[c][h].active /\ injected' = [injected EXCEPT ![f][h] = @ + 1]
  BY <1>0, <1>5 DEF RecvRelay
<1> HIDE DEF s
<1>8. /\ pipe' \in [Conn -> [Hub -> Seq(Message)]]
      /\ \A d \in Conn, g \in Hub : pipe'[d][g] = IF d = c /\ g = o THEN s ELSE pipe[d][g]
  BY <1>1, <1>2, <1>4, OnePipe DEF TypeOK
<1>9. \A d \in Conn, g \in Hub : Underway(link[d][g], pipe'[d][g]) \subseteq Underway(link[d][g], pipe[d][g])
  BY <1>4, <1>8 DEF Underway
<1>10. f \notin Underway(link[c][o], pipe'[c][o])
  BY <1>1, <1>6, <1>8
<1>11. injected \in [Frame -> [Hub -> Nat]]
  BY DEF IInv, TypeOK
<1>12. /\ injected' \in [Frame -> [Hub -> Nat]]
       /\ \A x \in Frame, g \in Hub : ~(x = f /\ g = h) => injected'[x][g] = injected[x][g]
       /\ injected'[f][h] # injected[f][h] => link[c][h].active /\ injected'[f][h] = injected[f][h] + 1
  BY <1>1, <1>7, <1>11
<1>13. TypeOK'
  <2>1. \A d \in Conn, g \in Hub : Len(link[d][g].queue) <= QueueDepth /\ Len(pipe'[d][g]) <= PipeCap
    BY <1>1, <1>4, <1>8, EndType, ZenonT(60)
  <2> QED BY <2>1, <1>2, <1>8, <1>12 DEF IInv, TypeOK
<1>14. conn' = conn /\ link' = link /\ \A d, g : Ends(d)' = Ends(d) /\ Other(d, g)' = Other(d, g)
  BY <1>2 DEF Ends, Other
<1>15. LinksOK'
  <2> SUFFICES ASSUME NEW d \in Conn, NEW g \in Hub
               PROVE  /\ EndOK(d, g)' /\ WireOK(d, g)'
                      /\ \A x \in Underway(link'[d][g], pipe'[d][g]) : SourceOK(d, g, x)'
    BY DEF LinksOK
  <2>1. EndOK(d, g) /\ WireOK(d, g) /\ \A x \in Underway(link[d][g], pipe[d][g]) : SourceOK(d, g, x)
    BY DEF IInv, LinksOK
  <2>2. EndOK(d, g)'
    BY <2>1, <1>2 DEF EndOK, Ends, Other
  <2>3. WireOK(d, g)'
    <3>1. CASE d = c /\ g = o
      <4>1. link'[d][g] = link[c][o] /\ pipe'[d][g] = s /\ secret' = secret
        BY <3>1, <1>2, <1>8
      <4> QED BY <4>1, <2>1, <3>1, <1>4 DEF WireOK
    <3>2. CASE ~(d = c /\ g = o)
      <4>1. link'[d][g] = link[d][g] /\ pipe'[d][g] = pipe[d][g] /\ secret' = secret
        BY <3>2, <1>2, <1>8
      <4> QED BY <4>1, <2>1 DEF WireOK
    <3> QED BY <3>1, <3>2
  <2>4. \A x : SourceOK(d, g, x) => SourceOK(d, g, x)'
    BY <1>2 DEF SourceOK, Ends
  <2> QED BY <2>1, <2>2, <2>3, <2>4, <1>9, <1>14
<1>16. EgressOK'
  <2>1. ASSUME NEW g \in Hub, NEW i \in DOMAIN egress[g] PROVE egress[g][i] # f
    <3> SUFFICES ASSUME egress[g][i] = f PROVE FALSE
      OBVIOUS
    <3>1. g = o
      BY <1>6 DEF IInv, EgressOK, SourceOK
    <3> QED BY <3>1, <1>1, <1>6 DEF IInv, EgressOK
  <2>2. \A g \in Hub : \A i \in DOMAIN egress[g] : egress[g][i] \in Frame
    BY DEF IInv, TypeOK
  <2>3. egress' = egress /\ frames' = frames
    BY <1>2
  <2>4. ASSUME NEW g \in Hub, NEW i \in DOMAIN egress[g]
        PROVE  /\ egress[g][i] \in DOMAIN frames /\ frames[egress[g][i]].origin = g
               /\ \A k \in Hub : injected'[egress[g][i]][k] = 0
               /\ \A d \in Conn : egress[g][i] \notin Underway(link[d][g], pipe'[d][g])
    <3>1. /\ egress[g][i] \in DOMAIN frames /\ frames[egress[g][i]].origin = g
          /\ \A k \in Hub : injected[egress[g][i]][k] = 0
          /\ \A d \in Conn : egress[g][i] \notin Underway(link[d][g], pipe[d][g])
      BY DEF IInv, EgressOK
    <3>2. egress[g][i] # f /\ egress[g][i] \in Frame
      BY <2>1, <2>2
    <3>3. \A k \in Hub : injected'[egress[g][i]][k] = 0
      BY <3>1, <3>2, <1>12
    <3> QED BY <3>1, <3>3, <1>9
  <2>5. \A g \in Hub : \A i, j \in DOMAIN egress[g] : egress[g][i] = egress[g][j] => i = j
    BY DEF IInv, EgressOK
  <2> QED BY <2>3, <2>4, <2>5, <1>14 DEF EgressOK
<1>17. OneDialed'
  BY <1>14 DEF IInv, OneDialed
<1>18. \A d \in DOMAIN conn : d \in Conn /\ Ends(d) \subseteq Hub
  BY <1>1, ConnFacts
<1>19. OneReader'
  <2> SUFFICES ASSUME NEW d \in DOMAIN conn, NEW e \in DOMAIN conn, NEW g \in Hub,
                      conn[d] = conn[e], d # e, g \in Ends(d),
                      Underway(link[d][g], pipe'[d][g]) \cap Underway(link[e][g], pipe'[e][g]) # {}
               PROVE  link[d][Other(d, g)].st = "gone" \/ link[e][Other(d, g)].st = "gone"
    BY <1>14 DEF OneReader
  <2>1. Underway(link[d][g], pipe[d][g]) \cap Underway(link[e][g], pipe[e][g]) # {}
    BY <1>9, <1>18
  <2> QED BY <2>1 DEF IInv, OneReader
<1>20. Counted'
  <2>1. frames' = frames
    BY <1>2
  <2> QED BY <2>1, <1>1, <1>6, <1>12 DEF IInv, Counted, SourceOK
<1>21. RelayAuthorised'
  <2> SUFFICES ASSUME NEW x \in DOMAIN frames, NEW g \in Hub, injected'[x][g] > 0
               PROVE  /\ secret[g] = secret[frames[x].origin]
                      /\ \E d \in Dials : {d[1], d[2]} = {g, frames[x].origin} /\ admits[d[2]]
    BY <1>2 DEF RelayAuthorised
  <2>1. CASE injected[x][g] > 0
    BY <2>1 DEF IInv, RelayAuthorised
  <2>2. CASE ~(injected[x][g] > 0)
    <3>1. x \in Frame
      BY <1>1, FrameNumbers
    <3>2. x = f /\ g = h /\ link[c][h].active
      BY <2>2, <3>1, <1>12
    <3>3. frames[f].origin = o /\ (o = conn[c][1] \/ admits[o])
      BY <1>6 DEF SourceOK
    <3>4. secret[h] = secret[o] /\ (h = conn[c][1] \/ admits[h])
      BY <3>2, <1>0, <1>1 DEF EndOK
    <3>5. conn[c] \in Dials /\ {conn[c][1], conn[c][2]} = {h, o} /\ admits[conn[c][2]]
      BY <3>3, <3>4, <1>1, ConnFacts DEF Ends
    <3> QED BY <3>2, <3>3, <3>4, <3>5
  <2> QED BY <2>1, <2>2
<1>22. SingleLinks' => NotAgain'
  <2> SUFFICES ASSUME SingleLinks PROVE NotAgain'
    BY DEF SingleLinks
  <2>1. /\ \A x \in Frame, g \in Hub : injected[x][g] <= 1
        /\ \A d \in DOMAIN conn : \A g \in Ends(d) : \A x \in Underway(link[d][g], pipe[d][g]) :
             injected[x][Other(d, g)] > 0 => link[d][Other(d, g)].st = "gone"
    BY DEF IInv, NotAgain
  <2>2. injected[f][h] = 0
    <3>1. ~(injected[f][h] > 0)
      BY <2>1, <1>1, <1>2, <1>6
    <3> QED BY <3>1, <1>1, <1>11
  <2>3. \A x \in Frame, g \in Hub : injected'[x][g] <= 1
    BY <2>1, <2>2, <1>1, <1>12
  <2>4. ASSUME NEW d \in DOMAIN conn, NEW g \in Ends(d), NEW x \in Underway(link[d][g], pipe'[d][g]),
               injected'[x][Other(d, g)] > 0
        PROVE  link[d][Other(d, g)].st = "gone"
    <3>1. x \in Underway(link[d][g], pipe[d][g]) /\ d \in Conn /\ g \in Hub
      BY <1>9, <1>18
    <3>2. SourceOK(d, g, x) /\ x \in Frame /\ Other(d, g) \in Hub
      <4>1. SourceOK(d, g, x) /\ Other(d, g) \in Hub
        BY <3>1, EndFacts
      <4> QED BY <4>1, <1>1, FrameNumbers DEF SourceOK
    <3>3. CASE ~(x = f /\ Other(d, g) = h)
      BY <3>1, <3>2, <3>3, <2>1, <2>4, <1>12
    <3>4. CASE x = f /\ Other(d, g) = h
      <4>1. g = o
        BY <3>2, <3>4, <1>6 DEF SourceOK
      <4>2. d # c
        BY <3>4, <4>1, <1>10
      <4>3. conn[d] = conn[c]
        <5>1. conn[d] \in Dials /\ conn[c] \in Dials
          BY <1>1, ConnFacts
        <5>2. Ends(d) = {h, o} /\ Ends(c) = {h, o}
          BY <3>4, <4>1, <1>1, ConnFacts DEF Ends, Other
        <5> QED BY <5>1, <5>2 DEF SingleLinks, Ends
      <4>4. Underway(link[d][o], pipe[d][o]) \cap Underway(link[c][o], pipe[c][o]) # {}
        BY <3>1, <3>4, <4>1, <1>6
      <4> QED BY <3>4, <4>1, <4>2, <4>3, <4>4, <1>1, <1>2 DEF IInv, OneReader
    <3> QED BY <3>3, <3>4
  <2> QED BY <2>3, <2>4, <1>14 DEF NotAgain
<1> QED BY <1>13, <1>15, <1>16, <1>17, <1>19, <1>20, <1>21, <1>22 DEF IInv

\* A new connection: its dialer has given up those before, and nothing but the two
\* HELLOs is under way.
LEMMA DialStep ==
  ASSUME IInv, NEW d \in Dials, Dial(d)
  PROVE  IInv'
<1>1. PICK c : c = Len(conn) + 1
  OBVIOUS
<1> DEFINE Hello(h) == <<[kind |-> "hello", secret |-> secret[h]]>>
           L(h) == IF h \in {d[1], d[2]} THEN NewEnd ELSE Gone
           P(h) == IF h \in {d[1], d[2]} THEN Hello(h) ELSE <<>>
           row == [h \in Hub |-> L(h)]
           prow == [h \in Hub |-> P(h)]
<1>2. /\ Len(conn) < MaxConns /\ conn' = Append(conn, d) /\ Idle(d)
      /\ link' = [link EXCEPT ![c] = row] /\ pipe' = [pipe EXCEPT ![c] = prow]
      /\ UNCHANGED <<secret, admits, bands, changes, frames, egress, cut, injected>>
  BY <1>1 DEF Dial
<1>3. /\ TypeOK /\ conn \in Seq(Dials) /\ MaxConns \in Nat /\ PipeCap \in Nat \ {0} /\ QueueDepth \in Nat
      /\ secret \in [Hub -> {1, 2}] /\ cut \subseteq DOMAIN conn
      /\ link \in [Conn -> [Hub -> LinkEnd]] /\ pipe \in [Conn -> [Hub -> Seq(Message)]]
  BY FederationAssumption DEF IInv, TypeOK
<1>4. /\ conn' \in Seq(Dials) /\ Len(conn') = c /\ c \in Nat \ {0} /\ c <= MaxConns /\ conn'[c] = d
      /\ DOMAIN conn' = 1 .. c /\ DOMAIN conn = 1 .. c - 1
      /\ \A b \in DOMAIN conn : conn'[b] = conn[b]
  BY <1>1, <1>2, <1>3
<1>5. /\ c \in Conn /\ c \in DOMAIN conn' /\ DOMAIN conn \subseteq DOMAIN conn' /\ c \notin DOMAIN conn
      /\ \A b \in DOMAIN conn : conn'[b] = conn[b] /\ b \in Nat /\ b < c
      /\ \A b \in DOMAIN conn' : b = c \/ b \in DOMAIN conn
  BY <1>3, <1>4 DEF Conn
<1>6. d[1] \in Hub /\ d[2] \in Hub /\ d[1] # d[2]
  BY FederationAssumption
<1>7. \A h \in Hub : /\ L(h) \in LinkEnd /\ L(h).queue = <<>> /\ L(h).active = FALSE
                     /\ L(h).st # "up" /\ (L(h).st # "gone" => h \in {d[1], d[2]})
  <2>1. {} \in SUBSET Band /\ None \in (SUBSET Band) \cup {None} /\ FALSE \in BOOLEAN
    OBVIOUS
  <2>2. NewEnd \in LinkEnd /\ NewEnd.queue = <<>> /\ NewEnd.active = FALSE /\ NewEnd.st = "hello"
    BY <2>1, MakeEnd, RelaysNone DEF NewEnd
  <2> HIDE DEF NewEnd, Gone
  <2> QED BY <2>2, GoneEnd
<1>8. ASSUME NEW h \in Hub
      PROVE  /\ P(h) \in Seq(Message) /\ Len(P(h)) <= PipeCap /\ Relays(P(h)) = {} /\ Distinct(P(h))
             /\ \A i \in DOMAIN P(h) : P(h)[i].kind = "hello" => P(h)[i].secret = secret[h]
  <2> DEFINE m == [kind |-> "hello", secret |-> secret[h]]
  <2>1. m \in Message /\ m.kind = "hello" /\ m.secret = secret[h]
    BY <1>3 DEF Message
  <2> HIDE DEF m
  <2> DEFINE q == <<m>>
  <2>2. q \in Seq(Message) /\ Len(q) = 1 /\ DOMAIN q = {1} /\ q[1] = m
    BY <2>1
  <2>3. P(h) = q \/ P(h) = <<>>
    BY DEF m
  <2> HIDE DEF P, q
  <2>4. Relays(q) = {} /\ Distinct(q)
    BY <2>1, <2>2 DEF Relays, Distinct
  <2>5. CASE P(h) = q
    <3>1. Len(q) <= PipeCap
      BY <2>2, <1>3
    <3>2. \A i \in DOMAIN q : q[i].kind = "hello" => q[i].secret = secret[h]
      BY <2>1, <2>2
    <3> QED BY <3>1, <3>2, <2>2, <2>4, <2>5
  <2>6. CASE P(h) = <<>>
    BY <2>6, <1>3, RelaysNone
  <2> QED BY <2>3, <2>5, <2>6
<1> HIDE DEF L, P
<1>9. /\ link' \in [Conn -> [Hub -> LinkEnd]]
      /\ \A b \in Conn, h \in Hub : link'[b][h] = IF b = c THEN L(h) ELSE link[b][h]
  <2>1. row \in [Hub -> LinkEnd] /\ \A h \in Hub : row[h] = L(h)
    BY <1>7
  <2> HIDE DEF row
  <2> QED BY <2>1, <1>2, <1>3, <1>5
<1>10. /\ pipe' \in [Conn -> [Hub -> Seq(Message)]]
       /\ \A b \in Conn, h \in Hub : pipe'[b][h] = IF b = c THEN P(h) ELSE pipe[b][h]
  <2>1. prow \in [Hub -> Seq(Message)] /\ \A h \in Hub : prow[h] = P(h)
    BY <1>8
  <2> HIDE DEF prow
  <2> QED BY <2>1, <1>2, <1>3, <1>5
<1>11. TypeOK'
  <2>1. \A b \in Conn, h \in Hub : Len(link'[b][h].queue) <= QueueDepth /\ Len(pipe'[b][h]) <= PipeCap
    <3> SUFFICES ASSUME NEW b \in Conn, NEW h \in Hub
                 PROVE  Len(link'[b][h].queue) <= QueueDepth /\ Len(pipe'[b][h]) <= PipeCap
      OBVIOUS
    <3>1. CASE b = c
      <4>1. link'[b][h].queue = <<>> /\ pipe'[b][h] = P(h)
        BY <3>1, <1>7, <1>9, <1>10
      <4> QED BY <4>1, <1>3, <1>8, RelaysNone
    <3>2. CASE b # c
      <4>1. link'[b][h] = link[b][h] /\ pipe'[b][h] = pipe[b][h]
        BY <3>2, <1>9, <1>10
      <4> QED BY <4>1, <1>3, EndType
    <3> QED BY <3>1, <3>2
  <2>2. cut' \subseteq DOMAIN conn' /\ conn' \in Seq(Dials) /\ Len(conn') <= MaxConns
    BY <1>2, <1>3, <1>4, <1>5
  <2> QED BY <2>1, <2>2, <1>2, <1>9, <1>10 DEF IInv, TypeOK
<1>12. \A h \in Hub : Underway(link'[c][h], pipe'[c][h]) = {}
  BY <1>5, <1>7, <1>8, <1>9, <1>10, RelaysNone DEF Underway
<1>13. \A b \in Conn, h \in Hub : b # c => link'[b][h] = link[b][h] /\ pipe'[b][h] = pipe[b][h]
  BY <1>9, <1>10
<1>14. \A b \in DOMAIN conn : Ends(b)' = Ends(b) /\ \A h : Other(b, h)' = Other(b, h)
  BY <1>5 DEF Ends, Other
<1>15. LinksOK'
  <2> SUFFICES ASSUME NEW b \in Conn, NEW h \in Hub
               PROVE  /\ EndOK(b, h)' /\ WireOK(b, h)'
                      /\ \A x \in Underway(link'[b][h], pipe'[b][h]) : SourceOK(b, h, x)'
    BY DEF LinksOK
  <2>1. CASE b = c
    <3>1. link'[b][h] = L(h) /\ pipe'[b][h] = P(h)
      BY <2>1, <1>9, <1>10
    <3>2. EndOK(b, h)'
      BY <3>1, <2>1, <1>4, <1>5, <1>7 DEF EndOK, Ends
    <3>3. WireOK(b, h)'
      BY <3>1, <1>2, <1>7, <1>8, RelaysNone DEF WireOK
    <3> QED BY <3>2, <3>3, <2>1, <1>12
  <2>2. CASE b # c
    <3>1. EndOK(b, h) /\ WireOK(b, h) /\ \A x \in Underway(link[b][h], pipe[b][h]) : SourceOK(b, h, x)
      BY DEF IInv, LinksOK
    <3>2. link'[b][h] = link[b][h] /\ pipe'[b][h] = pipe[b][h]
      BY <2>2, <1>13
    <3>3. secret' = secret /\ admits' = admits /\ frames' = frames
      BY <1>2
    <3>4. EndOK(b, h)'
      <4>1. CASE b \in DOMAIN conn
        BY <4>1, <3>1, <3>2, <3>3, <1>5, <1>14 DEF EndOK
      <4>2. CASE b \notin DOMAIN conn
        BY <4>2, <3>1, <3>2 DEF EndOK
      <4> QED BY <4>1, <4>2
    <3>5. WireOK(b, h)'
      BY <3>1, <3>2, <3>3 DEF WireOK
    <3>6. \A x : SourceOK(b, h, x) => SourceOK(b, h, x)'
      BY <3>3, <1>5, <1>14 DEF SourceOK
    <3> QED BY <3>1, <3>2, <3>4, <3>5, <3>6
  <2> QED BY <2>1, <2>2
<1>16. EgressOK'
  <2>1. \A g \in Hub, b \in Conn : Underway(link'[b][g], pipe'[b][g]) \subseteq Underway(link[b][g], pipe[b][g])
    BY <1>12, <1>13
  <2>2. egress' = egress /\ frames' = frames /\ injected' = injected
    BY <1>2
  <2>3. ASSUME NEW g \in Hub, NEW i \in DOMAIN egress[g]
        PROVE  /\ egress[g][i] \in DOMAIN frames /\ frames[egress[g][i]].origin = g
               /\ \A k \in Hub : injected[egress[g][i]][k] = 0
               /\ \A b \in Conn : egress[g][i] \notin Underway(link'[b][g], pipe'[b][g])
    BY <2>1 DEF IInv, EgressOK
  <2>4. \A g \in Hub : \A i, j \in DOMAIN egress[g] : egress[g][i] = egress[g][j] => i = j
    BY DEF IInv, EgressOK
  <2> QED BY <2>2, <2>3, <2>4 DEF EgressOK
<1>17. \A b \in DOMAIN conn : b \in Conn /\ b # c /\ Ends(b) \subseteq Hub /\ conn[b][1] \in Hub
                              /\ \A h \in Ends(b) : Other(b, h) \in Hub
  BY <1>3, <1>5, ConnFacts
<1>18. OneDialed'
  <2> SUFFICES ASSUME NEW a \in DOMAIN conn', NEW b \in DOMAIN conn', conn'[a] = conn'[b], a < b
               PROVE  link'[a][conn'[a][1]].st = "gone"
    BY DEF OneDialed
  <2>1. a \in DOMAIN conn /\ conn'[a] = conn[a]
    BY <1>4, <1>5
  <2>2. link[a][conn[a][1]].st = "gone"
    <3>1. CASE b = c
      BY <3>1, <2>1, <1>2, <1>4 DEF Idle
    <3>2. CASE b \in DOMAIN conn
      BY <3>2, <2>1, <1>5 DEF IInv, OneDialed
    <3> QED BY <3>1, <3>2, <1>5
  <2> QED BY <2>1, <2>2, <1>13, <1>17
<1>19. OneReader'
  <2> SUFFICES ASSUME NEW a \in DOMAIN conn', NEW b \in DOMAIN conn', NEW h \in Hub,
                      conn'[a] = conn'[b], a # b, h \in Ends(a)',
                      Underway(link'[a][h], pipe'[a][h]) \cap Underway(link'[b][h], pipe'[b][h]) # {}
               PROVE  link'[a][Other(a, h)'].st = "gone" \/ link'[b][Other(a, h)'].st = "gone"
    BY DEF OneReader
  <2>1. a \in DOMAIN conn /\ b \in DOMAIN conn
    BY <1>5, <1>12
  <2>2. Underway(link[a][h], pipe[a][h]) \cap Underway(link[b][h], pipe[b][h]) # {}
        /\ conn[a] = conn[b] /\ h \in Ends(a)
    BY <2>1, <1>5, <1>13, <1>14, <1>17
  <2>3. link[a][Other(a, h)].st = "gone" \/ link[b][Other(a, h)].st = "gone"
    BY <2>1, <2>2 DEF IInv, OneReader
  <2> QED BY <2>1, <2>2, <2>3, <1>13, <1>14, <1>17
<1>20. Counted' /\ RelayAuthorised'
  BY <1>2 DEF IInv, Counted, RelayAuthorised
<1>21. SingleLinks' => NotAgain'
  <2> SUFFICES ASSUME SingleLinks PROVE NotAgain'
    BY DEF SingleLinks
  <2>1. injected' = injected
    BY <1>2
  <2>2. ASSUME NEW b \in DOMAIN conn', NEW h \in Ends(b)', NEW x \in Underway(link'[b][h], pipe'[b][h]),
               injected[x][Other(b, h)'] > 0
        PROVE  link'[b][Other(b, h)'].st = "gone"
    <3>1. b \in DOMAIN conn
      <4> SUFFICES ASSUME b = c PROVE FALSE
        BY <1>5
      <4>1. h \in Hub
        BY <1>4, <1>6 DEF Ends
      <4> QED BY <4>1, <2>2, <1>12
    <3>2. h \in Ends(b) /\ h \in Hub /\ Other(b, h)' = Other(b, h) /\ Other(b, h) \in Hub
      BY <3>1, <1>14, <1>17
    <3>3. x \in Underway(link[b][h], pipe[b][h])
      BY <3>1, <3>2, <2>2, <1>13, <1>17
    <3>4. link[b][Other(b, h)].st = "gone"
      BY <3>1, <3>2, <3>3, <2>2 DEF IInv, NotAgain
    <3> QED BY <3>1, <3>2, <3>4, <1>13, <1>17
  <2>3. \A x \in Frame, g \in Hub : injected'[x][g] <= 1
    BY <2>1 DEF IInv, NotAgain
  <2> QED BY <2>1, <2>2, <2>3 DEF NotAgain
<1> QED BY <1>11, <1>15, <1>16, <1>18, <1>19, <1>20, <1>21 DEF IInv

-----------------------------------------------------------------------------
(* The results.                                                            *)

\* The invariant holds before the first connection.
LEMMA InitIInv == Init => IInv
<1> SUFFICES ASSUME Init PROVE IInv
  OBVIOUS
<1>1. /\ frames = <<>> /\ conn = <<>> /\ cut = {} /\ egress = [h \in Hub |-> <<>>]
      /\ link = [c \in Conn |-> [h \in Hub |-> Gone]] /\ pipe = [c \in Conn |-> [h \in Hub |-> <<>>]]
      /\ injected = [f \in Frame |-> [h \in Hub |-> 0]] /\ secret \in [Hub -> {1, 2}]
      /\ admits \in [Hub -> BOOLEAN] /\ bands = [h \in Hub |-> {}] /\ changes = 0
  BY DEF Init
<1>2. \A c \in Conn, h \in Hub : link[c][h] = Gone /\ pipe[c][h] = <<>>
  BY <1>1
<1>3. \A c \in Conn, h \in Hub : Underway(link[c][h], pipe[c][h]) = {}
  BY <1>2, GoneEnd, RelaysNone DEF Underway
<1>4. TypeOK
  <2>1. link \in [Conn -> [Hub -> LinkEnd]] /\ pipe \in [Conn -> [Hub -> Seq(Message)]]
    BY <1>1, GoneEnd, RelaysNone
  <2>2. \A c \in Conn, h \in Hub : Len(link[c][h].queue) <= QueueDepth /\ Len(pipe[c][h]) <= PipeCap
    BY <1>2, GoneEnd, RelaysNone, FederationAssumption
  <2>3. frames \in Seq([band : Band, origin : Hub]) /\ Len(frames) <= MaxFrames
        /\ conn \in Seq(Dials) /\ Len(conn) <= MaxConns /\ cut \subseteq DOMAIN conn
        /\ egress \in [Hub -> Seq(Frame)] /\ injected \in [Frame -> [Hub -> Nat]]
    BY <1>1, FederationAssumption
  <2> QED BY <2>1, <2>2, <2>3, <1>1 DEF TypeOK
<1>5. LinksOK
  <2>1. \A c \in Conn, h \in Hub : EndOK(c, h)
    BY <1>2, GoneEnd DEF EndOK
  <2>2. \A c \in Conn, h \in Hub : WireOK(c, h)
    BY <1>2, GoneEnd, RelaysNone DEF WireOK
  <2> QED BY <2>1, <2>2, <1>3 DEF LinksOK
<1>6. EgressOK
  BY <1>1 DEF EgressOK
<1>7. DOMAIN conn = {}
  BY <1>1
<1>8. OneDialed /\ OneReader
  BY <1>7 DEF OneDialed, OneReader
<1>9. Counted /\ RelayAuthorised
  BY <1>1 DEF Counted, RelayAuthorised
<1>10. NotAgain
  BY <1>1, <1>7 DEF NotAgain
<1> QED BY <1>4, <1>5, <1>6, <1>8, <1>9, <1>10 DEF IInv

\* Every step keeps it.
LEMMA NextIInv == IInv /\ [Next]_vars => IInv'
<1> SUFFICES ASSUME IInv, [Next]_vars PROVE IInv'
  OBVIOUS
<1>1. CASE UNCHANGED vars
  <2>1. TypeOK'
    BY <1>1 DEF IInv, TypeOK, vars
  <2> QED BY <1>1, <2>1, QuietStep DEF vars
<1>2. CASE \E h \in Hub : FanEgress(h) \/ \E b \in Band : BandChange(h, b) \/ Forward(h, b)
  BY <1>2, FanEgressStep, BandChangeStep, ForwardStep
<1>3. CASE \E d \in Dials : Dial(d)
  BY <1>3, DialStep
<1>4. CASE \E c \in DOMAIN conn :
       \/ Cut(c)
       \/ \E h \in Ends(c) : \/ EndStep(c, h) \/ Advertise(c, h)
                             \/ WriterWrites(c, h) \/ WriterFails(c, h)
  BY <1>4, CutStep, RecvHelloStep, ReadFailsStep, RecvBandsStep, RecvRelayStep, AdvertiseStep,
     WriterWritesStep, WriterFailsStep DEF EndStep
<1> QED BY <1>1, <1>2, <1>3, <1>4 DEF Next

\* The inductive invariant of the links.
THEOREM FederationInvariant == Spec => []IInv
BY InitIInv, NextIInv, PTL DEF Spec

\* Ends, queues and connections are well formed, and no queue grows past its depth.
THEOREM TypeCorrect == Spec => []TypeOK
<1>1. IInv => TypeOK
  BY DEF IInv
<1> QED BY <1>1, FederationInvariant, PTL

\* "Default-revoked": a frame crosses between two hubs only if they share the
\* secret and the one that listens has its inbound links enabled.
THEOREM RelayNeedsConsent == Spec => []RelayAuthorised
<1>1. IInv => RelayAuthorised
  BY DEF IInv
<1> QED BY <1>1, FederationInvariant, PTL

\* "One hop": where no two links join the same pair of hubs, a frame is injected at
\* most once at each hub, and never where it came from.
THEOREM OneHop == ASSUME SingleLinks PROVE Spec => []InjectedOnce
<1>1. IInv => InjectedOnce
  BY DEF IInv, NotAgain, Counted, InjectedOnce
<1> QED BY <1>1, FederationInvariant, PTL
=============================================================================
