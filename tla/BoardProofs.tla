---------------------------- MODULE BoardProofs ----------------------------
(***************************************************************************)
(* Proofs about Board, for every set of endpoints, every finite set of     *)
(* keys, every choice of destinations and any number of writes, restarts   *)
(* and frames under way.                                                   *)
(***************************************************************************)
EXTENDS Board, SetLemmas

CoreState == [entries : Map, lamport : Nat]

-----------------------------------------------------------------------------
(* The invariant.                                                          *)

\* A map holds only what was written.
Real(es, W) == \A k \in Key : es[k] # None => <<k, es[k]>> \in W

RealFrame(f, W) == f.kind \in {"set", "snapshot"} => Real(f.entries, W)

\* The Lamport clock is never behind an entry of its board.
ClockAhead(c) == \A k \in Key : c.entries[k] # None => c.entries[k].lamport <= c.lamport

PipeOK(n, W) ==
  n \in Pipe /\ n.mark <= Len(n.sent) /\ n.old <= Len(n.sent)
  /\ \A i \in 1 .. Len(n.sent) : RealFrame(n.sent[i], W)

NetOK(N, W) == N \in [Node -> [Node -> Pipe]] /\ \A p, q \in Node : PipeOK(N[p][q], W)

\* Boards, calls and frames under way hold only entries somebody wrote.
Provenance ==
  /\ IsFiniteSet(writes)
  /\ \A p \in Node : Real(core[p].entries, writes)
  /\ \A p \in Node : app[p] # None => Real(app[p].frame.entries, writes)
  /\ NetOK(net, writes)

ClocksAhead == \A p \in Node : ClockAhead(core[p])

IInv == TypeOK /\ Provenance /\ ClocksAhead /\ ChangesTold

-----------------------------------------------------------------------------
(* The operators.                                                          *)

\* The frames a board sends, and the entries they carry.
LEMMA FrameKinds ==
  /\ \A es \in Map : [kind |-> "snapshot", entries |-> es] \in Frame
  /\ \A f \in [kind : {"set"}, entries : Map] : f \in Frame
  /\ [kind |-> "sync_req"] \in Frame
  /\ \A f \in Frame : f.kind \in {"set", "snapshot"} => f.entries \in Map
BY DEF Frame

\* A sound pipe, field by field.
LEMMA PipeMade ==
  ASSUME NEW W, NEW n \in Pipe, n.mark \in 0 .. Len(n.sent), n.old \in 0 .. Len(n.sent),
         \A i \in 1 .. Len(n.sent) : RealFrame(n.sent[i], W)
  PROVE  PipeOK(n, W)
<1>1. n.mark <= Len(n.sent) /\ n.old <= Len(n.sent)
  BY DEF Pipe
<1> QED BY <1>1 DEF PipeOK

\* And taken apart.
LEMMA PipeFields ==
  ASSUME NEW W, NEW n, PipeOK(n, W)
  PROVE  /\ n \in Pipe /\ n.sent \in Seq(Frame)
         /\ n.mark \in 0 .. Len(n.sent) /\ n.old \in 0 .. Len(n.sent)
         /\ n.wm \in {"none", "open", "shut"} /\ Len(n.sent) \in Nat
         /\ \A i \in 1 .. Len(n.sent) : RealFrame(n.sent[i], W)
<1>1. n \in Pipe /\ n.mark <= Len(n.sent) /\ n.old <= Len(n.sent)
  BY DEF PipeOK
<1>2. n.sent \in Seq(Frame) /\ n.mark \in Nat /\ n.old \in Nat /\ n.wm \in {"none", "open", "shut"}
  BY <1>1 DEF Pipe
<1>3. Len(n.sent) \in Nat
  BY <1>2
<1>4. \A i \in 1 .. Len(n.sent) : RealFrame(n.sent[i], W)
  BY DEF PipeOK
<1> QED BY <1>1, <1>2, <1>3, <1>4

\* A frame that joins a pipe displaces the oldest at most, and the watermark with
\* it: what the pipe holds is that frame or was there before.
LEMMA PushOK ==
  ASSUME NEW W, NEW n, PipeOK(n, W), NEW f \in Frame, RealFrame(f, W)
  PROVE  PipeOK(Push(n, f), W)
<1>1. PICK s \in Seq(Frame) : s = n.sent
  BY PipeFields
<1>2. PICK m \in 0 .. Len(s), o \in 0 .. Len(s) : m = n.mark /\ o = n.old
  BY <1>1, PipeFields
<1>3. /\ n \in Pipe /\ Len(s) \in Nat /\ NetCap \in Nat \ {0}
      /\ \A i \in 1 .. Len(s) : RealFrame(s[i], W)
  BY <1>1, PipeFields, BoardBounds
<1>4. PICK d : d = Push(n, f)
  OBVIOUS
<1>5. CASE Len(s) < NetCap
  <2>1. PICK t \in Seq(Frame) : t = Append(s, f) /\ Len(t) = Len(s) + 1
    <3>1. Append(s, f) \in Seq(Frame) /\ Len(Append(s, f)) = Len(s) + 1
      OBVIOUS
    <3> QED BY <3>1
  <2>2. \A i \in 1 .. Len(t) : t[i] = f \/ \E j \in 1 .. Len(s) : t[i] = s[j]
    <3>1. t[Len(s) + 1] = f /\ \A i \in 1 .. Len(s) : t[i] = s[i]
      BY <1>3, <2>1
    <3> QED BY <1>3, <2>1, <3>1
  <2>3. \A i \in 1 .. Len(t) : RealFrame(t[i], W)
    BY <1>3, <2>2
  <2>4. d = [n EXCEPT !.sent = t]
    BY <1>1, <1>4, <1>5, <2>1 DEF Push
  <2>5. d \in Pipe /\ d.sent = t /\ d.mark = n.mark /\ d.old = n.old
    BY <1>3, <2>4 DEF Pipe
  <2>6. m \in 0 .. Len(t) /\ o \in 0 .. Len(t)
    BY <1>3, <2>1
  <2>7. d.mark \in 0 .. Len(d.sent) /\ d.old \in 0 .. Len(d.sent)
    BY <1>2, <2>5, <2>6
  <2> QED BY <1>4, <2>3, <2>5, <2>7, PipeMade
<1>6. CASE ~(Len(s) < NetCap)
  <2>1. PICK k \in 0 .. Len(s), v \in 0 .. Len(s) :
          k = (IF m = 0 THEN 0 ELSE m - 1) /\ v = (IF o = 0 THEN 0 ELSE o - 1)
    <3>1. ASSUME NEW x \in 0 .. Len(s) PROVE (IF x = 0 THEN 0 ELSE x - 1) \in 0 .. Len(s)
      BY <1>3
    <3> QED BY <3>1
  <2>2. s # <<>> /\ Tail(s) \in Seq(Frame) /\ Len(Tail(s)) = Len(s) - 1
        /\ \A i \in 1 .. Len(Tail(s)) : Tail(s)[i] = s[i + 1]
    BY <1>3, <1>6
  <2>3. PICK t \in Seq(Frame) : t = Append(Tail(s), f) /\ Len(t) = Len(s)
    <3>1. PICK u \in Seq(Frame) : u = Tail(s)
      BY <2>2
    <3>2. Append(u, f) \in Seq(Frame) /\ Len(Append(u, f)) = Len(u) + 1
      OBVIOUS
    <3>3. Len(u) + 1 = Len(s)
      BY <1>3, <2>2, <3>1
    <3> QED BY <3>1, <3>2, <3>3
  <2>4. \A i \in 1 .. Len(t) : t[i] = f \/ \E j \in 1 .. Len(s) : t[i] = s[j]
    <3>1. \A i \in 1 .. Len(Tail(s)) : t[i] = s[i + 1] /\ i + 1 \in 1 .. Len(s)
      BY <1>3, <2>2, <2>3
    <3>2. t[Len(s)] = f
      BY <1>3, <2>2, <2>3
    <3>3. PICK l \in Nat : l = Len(s) /\ Len(t) = l /\ Len(Tail(s)) = l - 1
      BY <1>3, <2>2, <2>3
    <3>4. ASSUME NEW i \in 1 .. l PROVE i = l \/ i \in 1 .. l - 1
      OBVIOUS
    <3> QED BY <3>1, <3>2, <3>3, <3>4
  <2>5. \A i \in 1 .. Len(t) : RealFrame(t[i], W)
    BY <1>3, <2>4
  <2>6. d = [n EXCEPT !.sent = t, !.mark = k, !.old = v]
    BY <1>1, <1>2, <1>4, <1>6, <2>1, <2>3 DEF Push
  <2>7. k \in Nat /\ v \in Nat
    BY <1>3
  <2>8. d \in Pipe /\ d.sent = t /\ d.mark = k /\ d.old = v
    BY <1>3, <2>6, <2>7 DEF Pipe
  <2> QED BY <1>4, <2>3, <2>5, <2>8, PipeMade
<1> QED BY <1>5, <1>6

\* A watermark moved to a frame of its pipe, or dropped, and a sender's new session
\* leave a sound pipe.
LEMMA MarksOK ==
  ASSUME NEW W, NEW n, PipeOK(n, W)
  PROVE  /\ \A i \in 1 .. Len(n.sent), low \in BOOLEAN : PipeOK(Taken(n, i, low), W)
         /\ PipeOK(Unmarked(n), W)
         /\ \A low \in BOOLEAN : PipeOK(NewSession(n, low), W)
<1>1. /\ n \in Pipe /\ n.sent \in Seq(Frame) /\ n.mark \in 0 .. Len(n.sent)
      /\ n.old \in 0 .. Len(n.sent) /\ n.wm \in {"none", "open", "shut"} /\ Len(n.sent) \in Nat
      /\ \A i \in 1 .. Len(n.sent) : RealFrame(n.sent[i], W)
  BY PipeFields
<1>2. ASSUME NEW k \in 0 .. Len(n.sent), NEW v \in {"none", "open", "shut"}, NEW d,
             d = [n EXCEPT !.mark = k, !.wm = v]
      PROVE  PipeOK(d, W)
  <2>1. k \in Nat
    BY <1>1
  <2>2. d \in Pipe /\ d.sent = n.sent /\ d.mark = k /\ d.old = n.old
    BY <1>1, <1>2, <2>1 DEF Pipe
  <2>3. d.mark \in 0 .. Len(d.sent) /\ d.old \in 0 .. Len(d.sent)
    BY <1>1, <2>2
  <2> QED BY <1>1, <2>2, <2>3, PipeMade
<1>3. ASSUME NEW i \in 1 .. Len(n.sent), NEW low \in BOOLEAN
      PROVE  PipeOK(Taken(n, i, low), W)
  <2>1. PICK v \in {"none", "open", "shut"} : v = IF low THEN "shut" ELSE "open"
    OBVIOUS
  <2>2. Taken(n, i, low) = [n EXCEPT !.mark = i, !.wm = v] /\ i \in 0 .. Len(n.sent)
    BY <1>1, <2>1 DEF Taken
  <2> QED BY <1>2, <2>2
<1>4. PipeOK(Unmarked(n), W)
  <2>1. PICK k \in 0 .. Len(n.sent) : k = IF n.wm = "open" /\ n.mark > n.old THEN n.old ELSE 0
    BY <1>1
  <2>2. Unmarked(n) = [n EXCEPT !.mark = k, !.wm = "none"]
    BY <2>1 DEF Unmarked
  <2> QED BY <1>2, <2>2
<1>5. ASSUME NEW low \in BOOLEAN PROVE PipeOK(NewSession(n, low), W)
  <2>1. PICK v \in {"none", "open", "shut"} : v = IF n.wm = "none" THEN "none" ELSE IF low THEN "shut" ELSE "open"
    OBVIOUS
  <2>2. PICK l \in 0 .. Len(n.sent) : l = Len(n.sent)
    BY <1>1
  <2>3. PICK d : d = NewSession(n, low)
    OBVIOUS
  <2>4. d = [n EXCEPT !.old = l, !.wm = v]
    BY <2>1, <2>2, <2>3 DEF NewSession
  <2>5. l \in Nat
    BY <1>1
  <2>6. d \in Pipe /\ d.sent = n.sent /\ d.mark = n.mark /\ d.old = l
    BY <1>1, <2>4, <2>5 DEF Pipe
  <2> QED BY <1>1, <2>3, <2>6, PipeMade
<1> QED BY <1>3, <1>4, <1>5

\* SendAll puts its frame into some of the sender's pipes.
LEMMA SendAllOK ==
  ASSUME NEW W, NetOK(net, W), NEW p \in Node, NEW to, NEW f \in Frame, RealFrame(f, W),
         SendAll(p, to, f)
  PROVE  NetOK(net', W)
<1>1. \A q \in Node : PipeOK(net[p][q], W) /\ PipeOK(Push(net[p][q], f), W)
  BY PushOK DEF NetOK
<1> DEFINE row == [q \in Node |-> IF q \in to THEN Push(net[p][q], f) ELSE net[p][q]]
<1>2. row \in [Node -> Pipe] /\ \A q \in Node : PipeOK(row[q], W)
  BY <1>1 DEF PipeOK
<1>3. net' = [net EXCEPT ![p] = row]
  BY DEF SendAll
<1> HIDE DEF row
<1>4. net' \in [Node -> [Node -> Pipe]]
  BY <1>2, <1>3 DEF NetOK
<1>5. \A r, q \in Node : PipeOK(net'[r][q], W)
  BY <1>2, <1>3 DEF NetOK
<1> QED BY <1>4, <1>5 DEF NetOK

\* One pipe replaced by a sound one leaves a sound network.
LEMMA OnePipe ==
  ASSUME NEW W, NEW N, NetOK(N, W), NEW p \in Node, NEW q \in Node, NEW n, PipeOK(n, W)
  PROVE  NetOK([N EXCEPT ![p][q] = n], W)
<1>1. n \in Pipe
  BY DEF PipeOK
<1>2. [N EXCEPT ![p][q] = n] \in [Node -> [Node -> Pipe]]
  BY <1>1 DEF NetOK
<1>3. \A r, s \in Node : PipeOK([N EXCEPT ![p][q] = n][r][s], W)
  BY DEF NetOK
<1> QED BY <1>2, <1>3 DEF NetOK

\* A frame taken off the network moves the watermark to it, and its answer joins
\* the pipe back.
LEMMA AcceptedOK ==
  ASSUME NEW W, NetOK(net, W), NEW p \in Node, NEW q \in Node,
         NEW i \in 1 .. Len(net[p][q].sent), NEW answer,
         answer # None => answer \in Frame /\ RealFrame(answer, W),
         Accepted(q, p, i, answer)
  PROVE  NetOK(net', W)
<1>1. PICK low \in BOOLEAN :
        LET N == [net EXCEPT ![p][q] = Taken(@, i, low)] IN
        net' = IF answer = None THEN N ELSE [N EXCEPT ![q][p] = Push(@, answer)]
  <2>1. (i <= net[p][q].old) \in BOOLEAN
    OBVIOUS
  <2> QED BY <2>1 DEF Accepted
<1>2. PICK n : n = Taken(net[p][q], i, low)
  OBVIOUS
<1>3. PipeOK(n, W)
  <2>1. PipeOK(net[p][q], W)
    BY DEF NetOK
  <2> QED BY <1>2, <2>1, MarksOK
<1> DEFINE N == [net EXCEPT ![p][q] = n]
<1>4. NetOK(N, W)
  BY <1>3, OnePipe
<1>5. net' = IF answer = None THEN N ELSE [N EXCEPT ![q][p] = Push(N[q][p], answer)]
  BY <1>1, <1>2
<1> HIDE DEF N
<1>6. PipeOK(N[q][p], W)
  BY <1>4 DEF NetOK
<1>7. CASE answer = None
  BY <1>4, <1>5, <1>7
<1>8. CASE answer # None
  <2>1. PipeOK(Push(N[q][p], answer), W)
    BY <1>6, <1>8, PushOK
  <2> QED BY <1>4, <1>5, <1>8, <2>1, OnePipe
<1> QED BY <1>7, <1>8

\* What was written once stays written.
LEMMA RealMonotone ==
  ASSUME NEW W, NEW V, W \subseteq V
  PROVE  /\ \A es : Real(es, W) => Real(es, V)
         /\ \A N : NetOK(N, W) => NetOK(N, V)
<1>1. \A es : Real(es, W) => Real(es, V)
  BY DEF Real
<1>2. \A f : RealFrame(f, W) => RealFrame(f, V)
  BY <1>1 DEF RealFrame
<1>3. \A n : PipeOK(n, W) => PipeOK(n, V)
  BY <1>2 DEF PipeOK
<1> QED BY <1>1, <1>3 DEF NetOK

\* Merging keeps the newer of two versions, and the clock never falls behind:
\* neither the board's own entries nor the merged ones, the refused included.
LEMMA MergeKeepsNewer ==
  ASSUME NEW c \in CoreState, NEW es \in Map
  PROVE  LET m == Merge(c, es) IN
         /\ m \in CoreState
         /\ m.entries = [k \in Key |-> IF k \in Won(c, es) THEN es[k] ELSE c.entries[k]]
         /\ m.lamport >= c.lamport
         /\ \A k \in Key : es[k] # None => m.lamport >= es[k].lamport
<1> DEFINE J == {j \in Key : es[j] # None}
           T == {es[k].lamport : k \in J}
           S == {c.lamport} \cup T
           g == [k \in J |-> es[k].lamport]
           ents == [k \in Key |-> IF k \in Won(c, es) THEN es[k] ELSE c.entries[k]]
<1>1. c.entries \in Map /\ c.lamport \in Nat
  BY DEF CoreState
<1>2. \A k \in J : es[k] \in Entry /\ es[k].lamport \in Nat
  BY DEF Map, Entry
<1>3. IsFiniteSet(J)
  <2>1. J \in SUBSET Key
    OBVIOUS
  <2> QED BY <2>1, KeyAssumption, FS_Subset
<1>4. IsFiniteSet(T)
  <2>1. g \in Surjection(J, T)
    BY DEF Surjection
  <2> QED BY <2>1, <1>3, FS_Surjection
<1>5. S \in SUBSET Nat /\ S # {} /\ IsFiniteSet(S)
  <2>1. IsFiniteSet(T \cup {c.lamport})
    BY <1>4, FS_AddElement
  <2>2. S = T \cup {c.lamport}
    OBVIOUS
  <2> QED BY <2>1, <2>2, <1>1, <1>2
<1>6. Max(S) \in Nat /\ \A y \in S : Max(S) >= y
  <2> HIDE DEF S
  <2> QED BY <1>5, MaxNatural
<1>7. ents \in Map
  BY <1>1 DEF Map, Won, Wins
<1>8. Merge(c, es) = [entries |-> ents, lamport |-> Max(S)]
  BY DEF Merge
<1> HIDE DEF ents
<1>9. Merge(c, es) \in CoreState /\ Merge(c, es).entries = ents /\ Merge(c, es).lamport = Max(S)
  BY <1>6, <1>7, <1>8 DEF CoreState
<1>10. Max(S) >= c.lamport /\ \A k \in Key : es[k] # None => Max(S) >= es[k].lamport
  BY <1>6
<1> QED BY <1>9, <1>10 DEF ents

\* What a merge adds was written, if both sides were, and the clock stays ahead.
LEMMA MergeReal ==
  ASSUME NEW c \in CoreState, NEW es \in Map, NEW W, Real(c.entries, W), Real(es, W),
         ClockAhead(c)
  PROVE  Real(Merge(c, es).entries, W) /\ ClockAhead(Merge(c, es))
<1> DEFINE m == Merge(c, es)
<1>0. /\ m \in CoreState
      /\ m.entries = [k \in Key |-> IF k \in Won(c, es) THEN es[k] ELSE c.entries[k]]
      /\ m.lamport >= c.lamport
      /\ \A k \in Key : es[k] # None => m.lamport >= es[k].lamport
  BY MergeKeepsNewer
<1> HIDE DEF m
<1>1. /\ m \in CoreState
      /\ \A k \in Key : m.entries[k] = IF k \in Won(c, es) THEN es[k] ELSE c.entries[k]
      /\ m.lamport >= c.lamport
      /\ \A k \in Key : es[k] # None => m.lamport >= es[k].lamport
  BY <1>0
<1>2. m.lamport \in Nat /\ c.lamport \in Nat /\ \A k \in Key : c.entries[k] # None => c.entries[k].lamport \in Nat
  BY <1>1 DEF CoreState, Map, Entry
<1>3. \A k \in Key : es[k] # None => es[k].lamport \in Nat
  BY DEF Map, Entry
<1>4. Real(m.entries, W)
  BY <1>1 DEF Real
<1>5. ClockAhead(m)
  BY <1>1, <1>2, <1>3 DEF ClockAhead
<1> QED BY <1>4, <1>5 DEF m

-----------------------------------------------------------------------------
(* The steps.                                                              *)

\* A step that writes, merges and announces nothing keeps the invariant as long
\* as the network stays sound.
LEMMA QuietStep ==
  ASSUME IInv, UNCHANGED <<core, app, told, writes>>, NetOK(net', writes),
         dests' \in [Node -> SUBSET Node], rebase' \in [Node -> SUBSET Node], restarts' \in Nat
  PROVE  IInv'
<1>1. TypeOK'
  BY DEF IInv, TypeOK, NetOK, PipeOK
<1>2. Provenance'
  BY DEF IInv, Provenance, Real
<1>3. ClocksAhead' /\ ChangesTold'
  BY DEF IInv, ClocksAhead, ClockAhead, ChangesTold
<1> QED BY <1>1, <1>2, <1>3 DEF IInv

\* The facts of the invariant that the steps use, one by one.
LEMMA Facts ==
  ASSUME IInv
  PROVE  /\ core \in [Node -> CoreState] /\ dests \in [Node -> SUBSET Node]
         /\ app \in [Node -> Call \cup {None}] /\ rebase \in [Node -> SUBSET Node]
         /\ told \in [Node -> SUBSET (Key \X Entry)]
         /\ writes \subseteq Key \X Entry /\ IsFiniteSet(writes) /\ restarts \in Nat
         /\ NetOK(net, writes)
         /\ \A p \in Node : Real(core[p].entries, writes) /\ ClockAhead(core[p])
         /\ \A p \in Node : app[p] # None => Real(app[p].frame.entries, writes)
BY DEF IInv, TypeOK, Provenance, ClocksAhead, CoreState

\* add_destination and remove_destination only touch the destinations.
LEMMA DestinationStep ==
  ASSUME IInv, NEW p \in Node, NEW q \in Peers[p],
         AddDestination(p, q) \/ RemoveDestination(p, q)
  PROVE  IInv'
<1>1. q \in Node
  BY NodeAssumption
<1>2. dests' \in [Node -> SUBSET Node]
  BY <1>1, Facts DEF AddDestination, RemoveDestination
<1> QED BY <1>2, Facts, QuietStep DEF AddDestination, RemoveDestination

\* A digest is a well-formed frame and carries no entries.
LEMMA DigestFrame ==
  ASSUME NEW c \in CoreState
  PROVE  LET f == [kind |-> "digest", digest |-> Digest(c)] IN
         f \in Frame /\ \A W : RealFrame(f, W)
<1>1. Digest(c) \in [Key -> Stamp \cup {None}]
  <2>1. \A k \in Key : c.entries[k] # None => c.entries[k] \in Entry
    BY DEF CoreState, Map
  <2> QED BY <2>1 DEF Digest, Stamp, Entry
<1> HIDE DEF Digest
<1>2. [kind |-> "digest", digest |-> Digest(c)] \in Frame
  BY <1>1 DEF Frame
<1> QED BY <1>2 DEF RealFrame

\* So is a snapshot, and it carries what its board holds.
LEMMA SnapshotFrame ==
  ASSUME NEW c \in CoreState, NEW W, Real(c.entries, W)
  PROVE  LET f == [kind |-> "snapshot", entries |-> c.entries] IN f \in Frame /\ RealFrame(f, W)
BY FrameKinds DEF CoreState, RealFrame

\* A digest that is sent keeps the invariant.
LEMMA SendDigestStep ==
  ASSUME IInv, NEW p \in Node, NEW to, SendDigest(p, to)
  PROVE  IInv'
<1>1. core[p] \in CoreState /\ NetOK(net, writes)
  BY Facts
<1> DEFINE f == [kind |-> "digest", digest |-> Digest(core[p])]
<1>2. f \in Frame /\ RealFrame(f, writes)
  BY <1>1, DigestFrame
<1>3. SendAll(p, to, f)
  BY DEF SendDigest
<1> HIDE DEF f
<1>4. NetOK(net', writes)
  BY <1>1, <1>2, <1>3, SendAllOK
<1> QED BY <1>4, Facts, QuietStep DEF SendDigest

\* So does a snapshot nobody asked for: it carries the board, which was written.
LEMMA SendSnapshotStep ==
  ASSUME IInv, NEW p \in Node, NEW q, SendSnapshot(p, q)
  PROVE  IInv'
<1>1. core[p] \in CoreState /\ NetOK(net, writes) /\ Real(core[p].entries, writes)
  BY Facts
<1> DEFINE f == [kind |-> "snapshot", entries |-> core[p].entries]
<1>2. f \in Frame /\ RealFrame(f, writes)
  BY <1>1, SnapshotFrame
<1>3. SendAll(p, {q}, f)
  BY DEF SendSnapshot
<1> HIDE DEF f
<1>4. NetOK(net', writes)
  BY <1>1, <1>2, <1>3, SendAllOK
<1> QED BY <1>4, Facts, QuietStep DEF SendSnapshot

\* A watermark dropped for a restarted peer keeps the invariant.
LEMMA RebaseStep ==
  ASSUME IInv, NEW q \in Node, NEW p \in Node, Rebase(q, p)
  PROVE  IInv'
<1>1. NetOK(net, writes) /\ PipeOK(net[p][q], writes)
  BY Facts DEF NetOK
<1> DEFINE n == Unmarked(net[p][q])
<1>2. PipeOK(n, writes)
  BY <1>1, MarksOK
<1>3. net' = [net EXCEPT ![p][q] = n]
  BY DEF Rebase
<1> HIDE DEF n
<1>4. NetOK(net', writes)
  BY <1>1, <1>2, <1>3, OnePipe
<1>5. rebase' \in [Node -> SUBSET Node]
  BY Facts DEF Rebase
<1> QED BY <1>4, <1>5, Facts, QuietStep DEF Rebase

\* A digest received changes nothing but the watermark and asks for a snapshot.
LEMMA RecvDigestStep ==
  ASSUME IInv, NEW q \in Node, NEW p \in Node, NEW i \in 1 .. Len(net[p][q].sent),
         RecvDigest(q, p, i)
  PROVE  IInv'
<1> DEFINE a == IF Differs(q, net[p][q].sent[i].digest) THEN [kind |-> "sync_req"] ELSE None
<1>1. a # None => a \in Frame /\ RealFrame(a, writes)
  BY FrameKinds DEF RealFrame
<1>2. Accepted(q, p, i, a)
  BY DEF RecvDigest
<1> HIDE DEF a
<1>3. NetOK(net', writes)
  BY <1>1, <1>2, Facts, AcceptedOK
<1> QED BY <1>3, Facts, QuietStep DEF RecvDigest

\* A sync request is answered with the board, which was written.
LEMMA RecvSyncReqStep ==
  ASSUME IInv, NEW q \in Node, NEW p \in Node, NEW i \in 1 .. Len(net[p][q].sent),
         RecvSyncReq(q, p, i)
  PROVE  IInv'
<1>1. core[q] \in CoreState /\ NetOK(net, writes) /\ Real(core[q].entries, writes)
  BY Facts
<1> DEFINE a == [kind |-> "snapshot", entries |-> core[q].entries]
<1>2. a \in Frame /\ RealFrame(a, writes)
  BY <1>1, SnapshotFrame
<1>3. Accepted(q, p, i, a)
  BY DEF RecvSyncReq
<1> HIDE DEF a
<1>4. NetOK(net', writes)
  BY <1>1, <1>2, <1>3, AcceptedOK
<1> QED BY <1>4, Facts, QuietStep DEF RecvSyncReq

\* The entry a write makes is new in its map and ahead of all it held.
LEMMA WrittenEntry ==
  ASSUME IInv, NEW p \in Node, NEW d \in BOOLEAN
  PROVE  LET e == Written(p, d) IN
         /\ e \in Entry /\ e # None /\ e.lamport = core[p].lamport + 1
<1>1. core[p].lamport \in Nat
  BY Facts DEF CoreState
<1>2. Cardinality(writes) \in Nat
  BY Facts, FS_CardinalityType
<1>3. Written(p, d) \in Entry
  BY <1>1, <1>2 DEF Written, Entry
<1> QED BY <1>3, NoneAssumption DEF Written

\* A write: its entry is recorded as written, the clock moves to it, and the call
\* under way will announce it.
LEMMA WriteStep ==
  ASSUME IInv, NEW p \in Node, NEW k \in Key, NEW d \in BOOLEAN, Write(p, k, d)
  PROVE  IInv'
<1> DEFINE e == Written(p, d)
           c == [entries |-> [core[p].entries EXCEPT ![k] = e], lamport |-> e.lamport]
           es == [Empty EXCEPT ![k] = e]
           a == [frame |-> [kind |-> "set", entries |-> es], to |-> dests[p], change |-> {<<k, e>>}]
<1>1. e \in Entry /\ e # None /\ e.lamport = core[p].lamport + 1
  BY WrittenEntry
<1>2. /\ core' = [core EXCEPT ![p] = c] /\ app' = [app EXCEPT ![p] = a]
      /\ writes' = writes \cup {<<k, e>>} /\ UNCHANGED <<dests, net, rebase, told, restarts>>
  BY DEF Write
<1> HIDE DEF e
<1>3. core[p].entries \in Map /\ core[p].lamport \in Nat /\ Real(core[p].entries, writes)
      /\ ClockAhead(core[p])
  BY Facts DEF CoreState
<1>4. c \in CoreState /\ c.entries \in Map /\ c.lamport = core[p].lamport + 1
      /\ \A j \in Key : c.entries[j] = IF j = k THEN e ELSE core[p].entries[j]
  BY <1>1, <1>3 DEF CoreState, Map
<1>5. es \in Map /\ \A j \in Key : es[j] = IF j = k THEN e ELSE None
  BY <1>1 DEF Empty, Map
<1>6. Real(es, writes')
  BY <1>2, <1>5 DEF Real
<1>7. a \in Call /\ a # None /\ a.frame.entries = es /\ a.change = {<<k, e>>}
  <2> HIDE DEF es
  <2>1. [kind |-> "set", entries |-> es] \in [kind : {"set"}, entries : Map]
    BY <1>5
  <2>2. dests[p] \in SUBSET Node /\ {<<k, e>>} \in SUBSET (Key \X Entry)
    BY <1>1, Facts
  <2>3. a \in Call
    BY <2>1, <2>2 DEF Call
  <2> QED BY <2>3, NoneAssumption
<1>8. Real(c.entries, writes')
  <2> HIDE DEF c
  <2> QED BY <1>2, <1>3, <1>4 DEF Real
<1>9. ClockAhead(c)
  <2>1. \A j \in Key : core[p].entries[j] # None => core[p].entries[j].lamport \in Nat
    BY <1>3 DEF Map, Entry
  <2> HIDE DEF c
  <2> QED BY <1>1, <1>3, <1>4, <2>1 DEF ClockAhead
<1> HIDE DEF c, es, a
<1>10. writes' \subseteq Key \X Entry /\ IsFiniteSet(writes') /\ writes \subseteq writes'
  <2>1. IsFiniteSet(writes) /\ writes \subseteq Key \X Entry
    BY Facts
  <2>2. IsFiniteSet(writes \cup {<<k, e>>})
    BY <2>1, FS_AddElement
  <2> QED BY <2>1, <2>2, <1>1, <1>2
<1>11. NetOK(net', writes')
  BY <1>2, <1>10, Facts, RealMonotone
<1>12. core' \in [Node -> CoreState] /\ app' \in [Node -> Call \cup {None}]
  BY <1>2, <1>4, <1>7, Facts
<1>13. TypeOK'
  BY <1>2, <1>10, <1>11, <1>12, Facts DEF TypeOK, CoreState, NetOK, PipeOK
<1>14. \A q \in Node : Real(core'[q].entries, writes') /\ ClockAhead(core'[q])
  BY <1>2, <1>8, <1>9, <1>10, Facts, RealMonotone
<1>15. \A q \in Node : app'[q] # None => Real(app'[q].frame.entries, writes')
  BY <1>2, <1>6, <1>7, <1>10, Facts, RealMonotone
<1>16. Provenance' /\ ClocksAhead'
  BY <1>10, <1>11, <1>14, <1>15 DEF Provenance, ClocksAhead, ClockAhead, Real
<1>17. ChangesTold'
  <2> SUFFICES ASSUME NEW q \in Node, NEW j \in Key, core'[q].entries[j] # None
               PROVE  \/ <<j, core'[q].entries[j]>> \in told'[q]
                      \/ app'[q] # None /\ <<j, core'[q].entries[j]>> \in app'[q].change
    BY DEF ChangesTold
  <2>1. CASE q # p
    BY <2>1, <1>2, Facts DEF IInv, ChangesTold
  <2>2. CASE q = p /\ j = k
    BY <2>2, <1>2, <1>4, <1>7, Facts
  <2>3. CASE q = p /\ j # k
    <3>1. app[p] = None
      BY DEF Write
    <3>2. core'[q].entries[j] = core[p].entries[j]
      BY <2>3, <1>2, <1>4, Facts
    <3> QED BY <2>3, <3>1, <3>2, <1>2 DEF IInv, ChangesTold
  <2> QED BY <2>1, <2>2, <2>3
<1> QED BY <1>13, <1>16, <1>17 DEF IInv

\* The end of a call: what it was going to announce is announced.
LEMMA AppSendsStep ==
  ASSUME IInv, NEW p \in Node, AppSends(p)
  PROVE  IInv'
<1>1. app[p] \in Call /\ app[p] # None /\ Real(app[p].frame.entries, writes)
  BY Facts DEF AppSends
<1>2. app[p].frame \in Frame /\ RealFrame(app[p].frame, writes) /\ app[p].change \in SUBSET (Key \X Entry)
  BY <1>1, FrameKinds DEF Call, RealFrame
<1>3. NetOK(net', writes')
  BY <1>2, Facts, SendAllOK DEF AppSends
<1>4. app' \in [Node -> Call \cup {None}] /\ told' \in [Node -> SUBSET (Key \X Entry)]
  BY <1>2, Facts DEF AppSends
<1>5. TypeOK'
  BY <1>3, <1>4, Facts DEF TypeOK, CoreState, NetOK, PipeOK, AppSends
<1>6. Provenance' /\ ClocksAhead'
  <2>1. \A q \in Node : app'[q] # None => app'[q] = app[q]
    BY Facts DEF AppSends
  <2>2. Provenance'
    BY <2>1, <1>3, Facts DEF Provenance, Real, AppSends
  <2> QED BY <2>2, Facts DEF ClocksAhead, ClockAhead, AppSends
<1>7. ChangesTold'
  BY Facts DEF IInv, ChangesTold, AppSends
<1> QED BY <1>5, <1>6, <1>7 DEF IInv

\* A new task at p has no watermarks.
LEMMA UnmarkedRow ==
  ASSUME NEW W, NetOK(net, W), NEW p \in Node, NEW q \in Node
  PROVE  LET row == [net[q] EXCEPT ![p] = Unmarked(@)] IN
         row \in [Node -> Pipe] /\ \A r \in Node : PipeOK(row[r], W)
<1>1. net[q] \in [Node -> Pipe] /\ \A r \in Node : PipeOK(net[q][r], W)
  BY DEF NetOK
<1>2. PICK n : n = Unmarked(net[q][p])
  OBVIOUS
<1>3. PipeOK(n, W) /\ n \in Pipe
  <2>1. PipeOK(n, W)
    BY <1>1, <1>2, MarksOK
  <2> QED BY <2>1 DEF PipeOK
<1>4. PICK row : row = [net[q] EXCEPT ![p] = n]
  OBVIOUS
<1>5. row \in [Node -> Pipe] /\ \A r \in Node : PipeOK(row[r], W)
  BY <1>1, <1>3, <1>4
<1> QED BY <1>2, <1>4, <1>5

\* A board opened anew finds a sound network.
LEMMA ReopenNet ==
  ASSUME IInv, NEW p \in Node, Reopen(p)
  PROVE  NetOK(net', writes)
<1>1. net' = [q \in Node |-> [net[q] EXCEPT ![p] = Unmarked(@)]]
  BY DEF Reopen
<1>2. NetOK(net, writes)
  BY Facts
<1>3. ASSUME NEW q \in Node
      PROVE  net'[q] \in [Node -> Pipe] /\ \A r \in Node : PipeOK(net'[q][r], writes)
  <2>1. net'[q] = [net[q] EXCEPT ![p] = Unmarked(@)]
    BY <1>1
  <2> QED BY <1>2, <2>1, UnmarkedRow
<1>4. net' \in [Node -> [Node -> Pipe]]
  BY <1>1, <1>3
<1> QED BY <1>3, <1>4 DEF NetOK

\* And so does a restarted Band, whatever its first sequence number.
LEMMA RestartNet ==
  ASSUME IInv, NEW p \in Node, NEW low, Restart(p, low)
  PROVE  NetOK(net', writes)
<1>1. net' = [q \in Node |-> IF q = p THEN [r \in Node |-> NewSession(net[p][r], r \in low)]
                             ELSE [net[q] EXCEPT ![p] = Unmarked(@)]]
  BY DEF Restart
<1>2. NetOK(net, writes)
  BY Facts
<1>3. ASSUME NEW q \in Node
      PROVE  net'[q] \in [Node -> Pipe] /\ \A r \in Node : PipeOK(net'[q][r], writes)
  <2>1. CASE q = p
    <3>1. net'[q] = [r \in Node |-> NewSession(net[p][r], r \in low)]
      BY <1>1, <2>1
    <3>2. ASSUME NEW r \in Node PROVE PipeOK(NewSession(net[p][r], r \in low), writes)
      <4>1. (r \in low) \in BOOLEAN
        OBVIOUS
      <4>2. PipeOK(net[p][r], writes)
        BY <1>2 DEF NetOK
      <4> QED BY <4>1, <4>2, MarksOK
    <3>3. \A r \in Node : NewSession(net[p][r], r \in low) \in Pipe
      BY <3>2 DEF PipeOK
    <3> QED BY <3>1, <3>2, <3>3
  <2>2. CASE q # p
    <3>1. net'[q] = [net[q] EXCEPT ![p] = Unmarked(@)]
      BY <1>1, <2>2
    <3> QED BY <1>2, <3>1, UnmarkedRow
  <2> QED BY <2>1, <2>2
<1>4. PICK N : N = net'
  OBVIOUS
<1>5. N \in [Node -> [Node -> Pipe]]
  <2>1. DOMAIN N = Node /\ N = [q \in Node |-> N[q]]
    BY <1>1, <1>4
  <2> QED BY <1>3, <1>4, <2>1
<1> QED BY <1>3, <1>4, <1>5 DEF NetOK

\* An endpoint opened anew has nothing to announce and no version to fall behind.
LEMMA EmptiedStep ==
  ASSUME IInv, NEW p \in Node, Emptied(p), NetOK(net', writes), rebase' \in [Node -> SUBSET Node]
  PROVE  IInv'
<1>1. FreshCore \in CoreState /\ \A k \in Key : FreshCore.entries[k] = None
  BY DEF FreshCore, Empty, CoreState, Map
<1>2. /\ core' = [core EXCEPT ![p] = FreshCore] /\ dests' = [dests EXCEPT ![p] = {}]
      /\ app' = [app EXCEPT ![p] = None] /\ told' = [told EXCEPT ![p] = {}]
      /\ restarts' = restarts + 1 /\ writes' = writes
  BY DEF Emptied
<1>3. NetOK(net', writes')
  BY <1>2
<1>4. /\ core' \in [Node -> CoreState] /\ dests' \in [Node -> SUBSET Node]
      /\ app' \in [Node -> Call \cup {None}] /\ told' \in [Node -> SUBSET (Key \X Entry)]
      /\ rebase' \in [Node -> SUBSET Node] /\ restarts' \in Nat
  BY <1>1, <1>2, Facts
<1>5. TypeOK'
  BY <1>2, <1>3, <1>4, Facts DEF TypeOK, CoreState, NetOK, PipeOK
<1>6. \A q \in Node : Real(core'[q].entries, writes') /\ ClockAhead(core'[q])
  BY <1>1, <1>2, Facts DEF Real, ClockAhead
<1>7. \A q \in Node : app'[q] # None => Real(app'[q].frame.entries, writes')
  BY <1>2, Facts
<1>8. Provenance' /\ ClocksAhead'
  BY <1>2, <1>3, <1>6, <1>7, Facts DEF Provenance, ClocksAhead, ClockAhead, Real
<1>9. ChangesTold'
  BY <1>1, <1>2, Facts DEF IInv, ChangesTold
<1> QED BY <1>5, <1>8, <1>9 DEF IInv

\* A second open of the hub.
LEMMA ReopenStep ==
  ASSUME IInv, NEW p \in Node, Reopen(p)
  PROVE  IInv'
<1>1. rebase' \in [Node -> SUBSET Node]
  BY Facts DEF Reopen
<1>2. Emptied(p)
  BY DEF Reopen
<1> QED BY <1>1, <1>2, ReopenNet, EmptiedStep

\* A new Band.
LEMMA RestartStep ==
  ASSUME IInv, NEW p \in Node, NEW low, Restart(p, low)
  PROVE  IInv'
<1>1. rebase' \in [Node -> SUBSET Node]
  BY Facts DEF Restart
<1>2. Emptied(p)
  BY DEF Restart
<1> QED BY <1>1, <1>2, RestartNet, EmptiedStep

\* A merge: what won is announced, and came from somebody who held it.
LEMMA RecvEntriesStep ==
  ASSUME IInv, NEW q \in Node, NEW p \in Node, NEW i \in 1 .. Len(net[p][q].sent),
         RecvEntries(q, p, i)
  PROVE  IInv'
<1> DEFINE es == net[p][q].sent[i].entries
           m == Merge(core[q], es)
           new == {<<k, es[k]>> : k \in Won(core[q], es)}
<1>1. es \in Map /\ Real(es, writes)
  <2>1. PipeOK(net[p][q], writes)
    BY Facts DEF NetOK
  <2>2. net[p][q].sent[i] \in Frame /\ RealFrame(net[p][q].sent[i], writes)
    BY <2>1 DEF PipeOK, Pipe
  <2>3. net[p][q].sent[i].kind \in {"set", "snapshot"}
    BY DEF RecvEntries, Above
  <2> QED BY <2>2, <2>3, FrameKinds DEF RealFrame
<1>2. /\ core' = [core EXCEPT ![q] = m] /\ told' = [told EXCEPT ![q] = @ \cup new]
      /\ UNCHANGED <<dests, app, rebase, writes, restarts>>
  BY DEF RecvEntries
<1>3. NetOK(net', writes')
  <2>1. Accepted(q, p, i, None)
    BY DEF RecvEntries
  <2> QED BY <2>1, <1>2, Facts, AcceptedOK
<1> HIDE DEF es
<1>4. core[q] \in CoreState /\ Real(core[q].entries, writes) /\ ClockAhead(core[q])
  BY Facts
<1>5. m \in CoreState /\ m.entries = [k \in Key |-> IF k \in Won(core[q], es) THEN es[k] ELSE core[q].entries[k]]
  BY <1>1, <1>4, MergeKeepsNewer
<1>6. Real(m.entries, writes) /\ ClockAhead(m)
  BY <1>1, <1>4, MergeReal
<1> HIDE DEF m
<1>7. new \in SUBSET (Key \X Entry)
  BY <1>1 DEF Won, Wins, Map
<1>8. core' \in [Node -> CoreState] /\ told' \in [Node -> SUBSET (Key \X Entry)]
  <2> HIDE DEF new
  <2> QED BY <1>2, <1>5, <1>7, Facts
<1>9. TypeOK'
  BY <1>2, <1>3, <1>8, Facts DEF TypeOK, CoreState, NetOK, PipeOK
<1>10. \A r \in Node : Real(core'[r].entries, writes') /\ ClockAhead(core'[r])
  BY <1>2, <1>6, Facts
<1>11. Provenance' /\ ClocksAhead'
  BY <1>2, <1>3, <1>10, Facts DEF Provenance, ClocksAhead, ClockAhead, Real
<1>12. ChangesTold'
  <2> SUFFICES ASSUME NEW r \in Node, NEW k \in Key, core'[r].entries[k] # None
               PROVE  \/ <<k, core'[r].entries[k]>> \in told'[r]
                      \/ app'[r] # None /\ <<k, core'[r].entries[k]>> \in app'[r].change
    BY DEF ChangesTold
  <2>1. CASE r # q
    BY <2>1, <1>2, Facts DEF IInv, ChangesTold
  <2>2. CASE r = q /\ k \in Won(core[q], es)
    <3>1. core'[r].entries[k] = es[k]
      BY <2>2, <1>2, <1>5, Facts
    <3>2. <<k, es[k]>> \in new
      BY <2>2
    <3> HIDE DEF new
    <3> QED BY <2>2, <3>1, <3>2, <1>2, Facts
  <2>3. CASE r = q /\ k \notin Won(core[q], es)
    <3>1. core'[r].entries[k] = core[q].entries[k]
      BY <2>3, <1>2, <1>5, Facts
    <3>2. told[q] \subseteq told'[q]
      <4> HIDE DEF new
      <4> QED BY <1>2, Facts
    <3> QED BY <2>3, <3>1, <3>2, <1>2 DEF IInv, ChangesTold
  <2> QED BY <2>1, <2>2, <2>3
<1> QED BY <1>9, <1>11, <1>12 DEF IInv

-----------------------------------------------------------------------------
(* The results.                                                            *)

\* The invariant holds at the start.
LEMMA InitIInv == Init => IInv
<1> SUFFICES ASSUME Init PROVE IInv
  OBVIOUS
<1>1. FreshCore \in CoreState /\ \A k \in Key : FreshCore.entries[k] = None
  BY DEF FreshCore, Empty, CoreState, Map
<1>2. PipeOK(NewPipe, writes)
  BY DEF PipeOK, Pipe, NewPipe
<1>3. net = [p \in Node |-> [q \in Node |-> NewPipe]]
  BY DEF Init
<1>4. NetOK(net, writes)
  <2>1. NewPipe \in Pipe
    BY <1>2 DEF PipeOK
  <2> QED BY <2>1, <1>2, <1>3 DEF NetOK
<1>5. IsFiniteSet(writes)
  BY FS_EmptySet DEF Init
<1>6. \A p \in Node : core[p] = FreshCore /\ app[p] = None
  BY DEF Init
<1>7. TypeOK
  BY <1>1, <1>4 DEF Init, TypeOK, CoreState, NetOK, PipeOK
<1>8. Provenance
  BY <1>1, <1>4, <1>5, <1>6 DEF Provenance, Real
<1>9. ClocksAhead /\ ChangesTold
  BY <1>1, <1>6 DEF ClocksAhead, ClockAhead, ChangesTold
<1> QED BY <1>7, <1>8, <1>9 DEF IInv

\* Every step keeps it.
LEMMA NextIInv == IInv /\ [Next]_vars => IInv'
<1> SUFFICES ASSUME IInv, [Next]_vars PROVE IInv'
  OBVIOUS
<1>1. CASE UNCHANGED vars
  BY <1>1, Facts, QuietStep DEF vars
<1>2. CASE Next
  <2>1. PICK p \in Node :
          \/ \E q \in Peers[p] : \/ AddDestination(p, q) \/ RemoveDestination(p, q)
                                  \/ SendDigest(p, {q}) \/ SendSnapshot(p, q)
          \/ \E k \in Key, d \in BOOLEAN : Write(p, k, d)
          \/ SendDigest(p, dests[p]) \/ AppSends(p)
          \/ Reopen(p) \/ \E low \in SUBSET {q \in Node : net[p][q].wm # "none"} : Restart(p, low)
          \/ \E q \in Node : Rebase(p, q) \/ \E i \in DOMAIN net[q][p].sent : Recv(p, q, i)
    BY <1>2 DEF Next
  <2>2. CASE \E q \in Peers[p] : \/ AddDestination(p, q) \/ RemoveDestination(p, q)
                                  \/ SendDigest(p, {q}) \/ SendSnapshot(p, q)
    BY <2>2, DestinationStep, SendDigestStep, SendSnapshotStep
  <2>3. CASE \E k \in Key, d \in BOOLEAN : Write(p, k, d)
    BY <2>3, WriteStep
  <2>4. CASE SendDigest(p, dests[p]) \/ AppSends(p) \/ Reopen(p)
    BY <2>4, SendDigestStep, AppSendsStep, ReopenStep
  <2>7. CASE \E low \in SUBSET {q \in Node : net[p][q].wm # "none"} : Restart(p, low)
    BY <2>7, RestartStep
  <2>5. CASE \E q \in Node : Rebase(p, q)
    BY <2>5, RebaseStep
  <2>6. CASE \E q \in Node : \E i \in DOMAIN net[q][p].sent : Recv(p, q, i)
    <3>0. PICK q \in Node : \E i \in DOMAIN net[q][p].sent : Recv(p, q, i)
      BY <2>6
    <3>1. PICK i \in DOMAIN net[q][p].sent : Recv(p, q, i)
      BY <3>0
    <3>2. i \in 1 .. Len(net[q][p].sent)
      BY Facts DEF NetOK, Pipe
    <3> QED BY <3>1, <3>2, RecvEntriesStep, RecvDigestStep, RecvSyncReqStep DEF Recv
  <2> QED BY <2>1, <2>2, <2>3, <2>4, <2>5, <2>6, <2>7
<1> QED BY <1>1, <1>2

\* The inductive invariant: what boards, calls and frames hold was written, no
\* clock is behind its board, and every version held has been announced.
THEOREM BoardInvariant == Spec => []IInv
BY InitIInv, NextIInv, PTL DEF Spec

\* Boards, frames and watermarks are well formed.
THEOREM TypeCorrect == Spec => []TypeOK
<1>1. IInv => TypeOK
  BY DEF IInv
<1> QED BY <1>1, BoardInvariant, PTL

\* Every version a board holds has been announced to its application, or is about
\* to be by the call that wrote it: SETs, snapshots and restarts included.
THEOREM AllChangesTold == Spec => []ChangesTold
<1>1. IInv => ChangesTold
  BY DEF IInv
<1> QED BY <1>1, BoardInvariant, PTL

\* The stamp names the version: two boards whose digests agree on a key hold the
\* same entry for it, a written one, unless its stamp was issued twice.
THEOREM DigestsSound == Spec => []DigestSound
<1>1. IInv => DigestSound
  <2> SUFFICES ASSUME IInv, NEW p \in Node, NEW q \in Node, NEW k \in Key,
                      core[p].entries[k] # None
               PROVE  /\ <<k, core[p].entries[k]>> \in writes
                      /\ Digest(core[p])[k] = Digest(core[q])[k] /\ ~Reused(k, core[p].entries[k])
                           => core[q].entries[k] = core[p].entries[k]
    BY DEF DigestSound
  <2> DEFINE e == core[p].entries[k]
             d == core[q].entries[k]
             W == {w \in writes : w[1] = k /\ w[2].lamport = e.lamport /\ w[2].actor = e.actor}
  <2>1. <<k, e>> \in writes
    BY Facts DEF Real
  <2>2. ASSUME Digest(core[p])[k] = Digest(core[q])[k], ~Reused(k, e), d # e PROVE FALSE
    <3>1. Digest(core[p])[k] = [lamport |-> e.lamport, actor |-> e.actor, deleted |-> e.deleted]
      BY DEF Digest
    <3>2. e \in Entry
      BY Facts DEF CoreState, Map
    <3>3. Digest(core[p])[k] # None
      <4>1. Digest(core[p])[k] \in Stamp
        BY <3>1, <3>2 DEF Stamp, Entry
      <4> QED BY <4>1, NoneAssumption
    <3>4. d # None /\ Digest(core[q])[k] = [lamport |-> d.lamport, actor |-> d.actor, deleted |-> d.deleted]
      BY <2>2, <3>3 DEF Digest
    <3>5. d.lamport = e.lamport /\ d.actor = e.actor
      <4>1. [lamport |-> d.lamport, actor |-> d.actor, deleted |-> d.deleted]
              = [lamport |-> e.lamport, actor |-> e.actor, deleted |-> e.deleted]
        BY <2>2, <3>1, <3>4
      <4> HIDE DEF d, e
      <4> QED BY <4>1
    <3>6. <<k, d>> \in writes
      BY <3>4, Facts DEF Real
    <3>7. <<k, e>> \in W /\ <<k, d>> \in W /\ <<k, e>> # <<k, d>>
      BY <2>1, <2>2, <3>5, <3>6
    <3>8. IsFiniteSet(W)
      <4>1. W \in SUBSET writes
        OBVIOUS
      <4> QED BY <4>1, Facts, FS_Subset
    <3>9. Cardinality(W) > 1
      <4> HIDE DEF W, d, e
      <4> QED BY <3>7, <3>8, TwoMembers
    <3> QED BY <2>2, <3>9 DEF Reused
  <2> QED BY <2>1, <2>2
<1> QED BY <1>1, BoardInvariant, PTL

\* No write and no merge takes a key back to an earlier version: a local write
\* because the clock is ahead of the board, a merge because it compares.
THEOREM VersionsNeverBackwards == Spec => NeverBackwards
<1> DEFINE Forward == \A p \in Node : \A k \in Key :
              core[p].entries[k] # None /\ core'[p].entries[k] # core[p].entries[k]
              /\ restarts' = restarts
              => core'[p].entries[k] # None /\ Newer(core'[p].entries[k], core[p].entries[k])
<1>1. IInv /\ [Next]_vars => [Forward]_vars
  <2> SUFFICES ASSUME IInv, Next, NEW r \in Node, NEW k \in Key, core[r].entries[k] # None,
                      core'[r].entries[k] # core[r].entries[k], restarts' = restarts
               PROVE  core'[r].entries[k] # None /\ Newer(core'[r].entries[k], core[r].entries[k])
    OBVIOUS
  <2>1. core[r] \in CoreState /\ core[r].entries[k] \in Entry /\ core[r].entries[k].lamport \in Nat
        /\ core[r].lamport \in Nat /\ core[r].entries[k].lamport <= core[r].lamport
    BY Facts DEF CoreState, Map, Entry, ClockAhead
  <2>2. core' # core
    OBVIOUS
  <2>3. PICK p \in Node :
          \/ \E j \in Key, d \in BOOLEAN : Write(p, j, d)
          \/ \E q \in Node : \E i \in DOMAIN net[q][p].sent : RecvEntries(p, q, i)
    <3>1. ~\E p \in Node : Emptied(p)
      BY Facts DEF Emptied
    <3> QED BY <2>2, <3>1 DEF Next, Reopen, Restart, AddDestination, RemoveDestination, SendDigest, SendSnapshot,
               AppSends, Rebase, Recv, RecvDigest, RecvSyncReq
  <2>4. CASE \E j \in Key, d \in BOOLEAN : Write(p, j, d)
    <3>1. PICK j \in Key, d \in BOOLEAN : Write(p, j, d)
      BY <2>4
    <3> DEFINE e == Written(p, d)
    <3>2. e # None /\ e.lamport = core[p].lamport + 1
      BY WrittenEntry
    <3>3. core' = [core EXCEPT ![p] = [entries |-> [core[p].entries EXCEPT ![j] = e],
                                       lamport |-> e.lamport]]
      BY <3>1 DEF Write
    <3> HIDE DEF e
    <3>4. r = p /\ j = k /\ core'[r].entries[k] = e
      BY <3>3, Facts DEF CoreState, Map
    <3> QED BY <3>2, <3>4, <2>1 DEF Newer
  <2>5. CASE \E q \in Node : \E i \in DOMAIN net[q][p].sent : RecvEntries(p, q, i)
    <3>0. PICK q \in Node : \E i \in DOMAIN net[q][p].sent : RecvEntries(p, q, i)
      BY <2>5
    <3>1. PICK i \in DOMAIN net[q][p].sent : RecvEntries(p, q, i)
      BY <3>0
    <3> DEFINE es == net[q][p].sent[i].entries
    <3>2. core' = [core EXCEPT ![p] = Merge(core[p], es)]
      BY <3>1 DEF RecvEntries
    <3> HIDE DEF es
    <3>3. Merge(core[p], es).entries
            = [j \in Key |-> IF j \in Won(core[p], es) THEN es[j] ELSE core[p].entries[j]]
      BY DEF Merge
    <3>4. r = p /\ core'[p].entries[k] = IF k \in Won(core[p], es) THEN es[k] ELSE core[p].entries[k]
      BY <3>2, <3>3, Facts
    <3>5. k \in Won(core[p], es)
      BY <3>4
    <3> QED BY <3>4, <3>5 DEF Won, Wins
  <2> QED BY <2>3, <2>4, <2>5
<1>2. Spec => [][Forward]_vars
  BY <1>1, BoardInvariant, PTL DEF Spec
<1> QED BY <1>2 DEF NeverBackwards
=============================================================================
