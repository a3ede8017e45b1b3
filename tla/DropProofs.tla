----------------------------- MODULE DropProofs -----------------------------
(***************************************************************************)
(* Proofs about DropTransfer, for every set of files of any size, every    *)
(* window and any number of frames, replacements and resumptions.          *)
(***************************************************************************)
EXTENDS DropTransfer, SetLemmas

RcvCore == [offer : File \cup {None}, have : [Index -> File \cup {None}],
            verified : {"unknown", "ok", "bad"}, outstanding : Nat \X Nat, dead : BOOLEAN]

Served == [file : File \cup {None}, next : Nat, end : Nat]

\* The frames of one direction, each a member of F, the watermark among them and
\* what is left of an earlier session.
Flow(F) == {n \in Pipe(F) : n.mark <= Len(n.sent) /\ n.old <= Len(n.sent)}

-----------------------------------------------------------------------------
(* The invariant.                                                          *)

\* As long as the drop has carried one file, every frame is about it.
ToReceiver == {x \in FrameToReceiver : replaced = 0 => x.file = First}

\* A DONE with a digest comes from a receiver that verified the file.
ToSender == {x \in FrameToSender : x.kind = "done" => x.digest \in whole \cup {None}}

FramesOK == toR \in Flow(ToReceiver) /\ toS \in Flow(ToSender)

\* A task that serves a request is within its file.
Within(s) == s # NoChunks => s.file \in File /\ s.next < s.end /\ s.end <= Total[s.file]

ServingOK == Within(serving) /\ Within(stray)

\* What is known of a receiver: its verdict is about the file offered now, and if
\* the drop has carried one file only, the receiver holds chunks of it in their
\* places, and nothing went wrong.
Held(r) ==
  /\ r.offer \in {First, None} /\ r.verified # "bad" /\ ~r.dead
  /\ \A i \in Index : r.have[i] # None => r.have[i] = First /\ i \in Indexes(First)

Verdict(r) ==
  r.verified # "unknown" =>
    /\ r.offer # None /\ Lacks(r) = {}
    /\ r.verified = "ok" <=> \A i \in Indexes(r.offer) : r.have[i] = r.offer

RcvOK(r, one) == r \in RcvCore /\ Verdict(r) /\ (one => Held(r))

ReceiverOK == RcvOK(rcv, replaced = 0)

\* A sender that has not been replaced knows one file.
SenderOK ==
  /\ replaced = 0 => /\ snd.file = First
                     /\ serving.file \in {First, None} /\ stray.file \in {First, None}
  /\ VerdictEarned

\* What the type invariant says of the rest of the state.
CoresOK ==
  /\ snd \in [file : File, completed : {None} \cup BOOLEAN]
  /\ serving \in Served /\ stray \in Served
  /\ rebase \subseteq {"sender", "receiver"} /\ whole \subseteq File
  /\ replaced \in Nat /\ resumed \in Nat

IInv == CoresOK /\ FramesOK /\ ServingOK /\ ReceiverOK /\ SenderOK

-----------------------------------------------------------------------------
(* The operators.                                                          *)

\* Every file's indexes are among those the frames may carry.
LEMMA IndexFacts ==
  /\ Index \subseteq Nat /\ IsFiniteSet(Index)
  /\ \A f \in File : Indexes(f) \subseteq Index /\ Total[f] \in Nat \ {0}
<1> DEFINE T == {Total[f] : f \in File}
           g == [f \in File |-> Total[f]]
<1>1. T \in SUBSET Nat /\ T # {}
  BY DropAssumption
<1>2. IsFiniteSet(T)
  <2>1. g \in Surjection(File, T)
    BY DEF Surjection
  <2> QED BY <2>1, DropAssumption, FS_Surjection
<1>3. Max(T) \in T /\ \A y \in T : Max(T) >= y
  <2> HIDE DEF T
  <2> QED BY <1>1, <1>2, MaxNatural
<1>4. Index = 0 .. Max(T) - 1
  BY DEF Index
<1>5. Max(T) \in Nat
  BY <1>1, <1>3
<1>6. \A f \in File : Total[f] <= Max(T) /\ Total[f] \in Nat \ {0}
  BY <1>3, DropAssumption
<1> HIDE DEF T
<1>7. IsFiniteSet(Index)
  <2>1. Max(T) - 1 \in Int /\ 0 \in Int
    BY <1>5
  <2> QED BY <2>1, <1>4, FS_Interval
<1>8. Index \subseteq Nat
  BY <1>4, <1>5
<1>9. \A f \in File : Indexes(f) \subseteq Index
  BY <1>4, <1>5, <1>6 DEF Indexes
<1> QED BY <1>6, <1>7, <1>8, <1>9

\* What is known of a pipe, one by one.
LEMMA FlowFields ==
  ASSUME NEW F, NEW n \in Flow(F)
  PROVE  /\ n \in Pipe(F) /\ n.sent \in Seq(F) /\ n.mark \in Nat /\ n.old \in Nat
         /\ n.mark <= Len(n.sent) /\ n.old <= Len(n.sent) /\ Len(n.sent) \in Nat
         /\ DOMAIN n.sent = 1 .. Len(n.sent)
         /\ n.wm \in {"none", "open", "shut"}
BY DEF Flow, Pipe

\* A frame that joins displaces the oldest at most.
LEMMA PushPipe ==
  ASSUME NEW F, NEW n \in Flow(F), NEW f \in F
  PROVE  Push(n, f) \in Flow(F)
<1>1. /\ n \in Pipe(F) /\ n.sent \in Seq(F) /\ n.mark \in Nat /\ n.old \in Nat
      /\ n.mark <= Len(n.sent) /\ n.old <= Len(n.sent) /\ Len(n.sent) \in Nat
      /\ n.wm \in {"none", "open", "shut"} /\ NetCap \in Nat \ {0}
  BY FlowFields, DropAssumption
<1>2. CASE Len(n.sent) < NetCap
  <2>1. PICK t : t = Append(n.sent, f)
    OBVIOUS
  <2>2. t \in Seq(F) /\ Len(t) = Len(n.sent) + 1
    BY <1>1, <2>1
  <2>3. Push(n, f) = [n EXCEPT !.sent = t]
    BY <1>1, <1>2, <2>1 DEF Push, Pipe
  <2>4. PICK d : d = [n EXCEPT !.sent = t]
    OBVIOUS
  <2>5. d \in Pipe(F) /\ d.sent = t /\ d.mark = n.mark /\ d.old = n.old
    BY <1>1, <2>2, <2>4 DEF Pipe
  <2>6. d.mark <= Len(t) /\ d.old <= Len(t)
    BY <1>1, <2>2, <2>5
  <2> QED BY <2>3, <2>4, <2>5, <2>6 DEF Flow
<1>3. CASE ~(Len(n.sent) < NetCap)
  <2>1. PICK t : t = Append(Tail(n.sent), f)
    OBVIOUS
  <2>2. n.sent # <<>> /\ Tail(n.sent) \in Seq(F) /\ Len(Tail(n.sent)) = Len(n.sent) - 1
    BY <1>1, <1>3
  <2>3. t \in Seq(F) /\ Len(t) = Len(n.sent)
    BY <1>1, <2>1, <2>2
  <2>4. PICK m : m = IF n.mark = 0 THEN 0 ELSE n.mark - 1
    OBVIOUS
  <2>5. PICK o : o = IF n.old = 0 THEN 0 ELSE n.old - 1
    OBVIOUS
  <2>6. m \in Nat /\ o \in Nat /\ m <= Len(n.sent) /\ o <= Len(n.sent)
    BY <1>1, <2>4, <2>5
  <2>7. PICK d : d = [n EXCEPT !.sent = t, !.mark = m, !.old = o]
    OBVIOUS
  <2>8. Push(n, f) = d
    BY <1>1, <1>3, <2>1, <2>4, <2>5, <2>7 DEF Push, Pipe
  <2>9. d \in Pipe(F) /\ d.sent = t /\ d.mark = m /\ d.old = o
    BY <1>1, <2>3, <2>6, <2>7 DEF Pipe
  <2> QED BY <2>3, <2>6, <2>8, <2>9 DEF Flow
<1> QED BY <1>2, <1>3

\* A frame of the pipe may raise the watermark.
LEMMA TakenPipe ==
  ASSUME NEW F, NEW n \in Flow(F), NEW i \in DOMAIN n.sent
  PROVE  n.sent[i] \in F /\ Accepted(n, i) \subseteq Flow(F)
<1>1. /\ n \in Pipe(F) /\ n.sent \in Seq(F) /\ i \in Nat /\ i <= Len(n.sent) /\ i >= 1
      /\ n.old <= Len(n.sent) /\ n.sent[i] \in F
  BY FlowFields
<1>2. SUFFICES ASSUME NEW d \in Accepted(n, i) PROVE d \in Flow(F)
  BY <1>1
<1>3. PICK w \in {"open", "shut"} : d = [n EXCEPT !.mark = i, !.wm = w]
  BY DEF Accepted, Taken
<1>4. d \in Pipe(F) /\ d.sent = n.sent /\ d.mark = i /\ d.old = n.old
  BY <1>1, <1>3 DEF Pipe
<1> QED BY <1>1, <1>4 DEF Flow

\* The watermark may be dropped, and the other side may start a session.
LEMMA MarkPipe ==
  ASSUME NEW F, NEW n \in Flow(F)
  PROVE  Unmarked(n) \in Flow(F) /\ \A low : NewSession(n, low) \in Flow(F)
<1>1. /\ n \in Pipe(F) /\ n.sent \in Seq(F) /\ n.mark \in Nat /\ n.old \in Nat
      /\ n.mark <= Len(n.sent) /\ n.old <= Len(n.sent) /\ Len(n.sent) \in Nat
  BY FlowFields
<1>2. Unmarked(n) \in Flow(F)
  <2>1. PICK m : m = IF n.wm = "open" /\ n.mark > n.old THEN n.old ELSE 0
    OBVIOUS
  <2>2. m \in Nat /\ m <= Len(n.sent)
    BY <1>1, <2>1
  <2>3. PICK d : d = [n EXCEPT !.mark = m, !.wm = "none"]
    OBVIOUS
  <2>4. Unmarked(n) = d
    BY <2>1, <2>3 DEF Unmarked
  <2>5. d \in Pipe(F) /\ d.sent = n.sent /\ d.mark = m /\ d.old = n.old
    BY <1>1, <2>2, <2>3 DEF Pipe
  <2> QED BY <1>1, <2>2, <2>4, <2>5 DEF Flow
<1>3. ASSUME NEW low PROVE NewSession(n, low) \in Flow(F)
  <2>1. PICK w : w = IF n.wm = "none" THEN "none" ELSE IF low THEN "shut" ELSE "open"
    OBVIOUS
  <2>2. w \in {"none", "open", "shut"}
    BY <2>1
  <2>3. PICK l : l = Len(n.sent)
    OBVIOUS
  <2>4. PICK d : d = [n EXCEPT !.old = l, !.wm = w]
    OBVIOUS
  <2>5. NewSession(n, low) = d
    BY <1>1, <2>1, <2>3, <2>4 DEF NewSession, Pipe
  <2>6. d \in Pipe(F) /\ d.sent = n.sent /\ d.mark = n.mark /\ d.old = l
    BY <1>1, <2>2, <2>3, <2>4 DEF Pipe
  <2> QED BY <1>1, <2>3, <2>5, <2>6 DEF Flow
<1> QED BY <1>2, <1>3

\* A pipe of some frames is one of more.
LEMMA PipeMonotone ==
  ASSUME NEW F, NEW G, F \subseteq G, NEW n \in Flow(F)
  PROVE  n \in Flow(G)
<1>1. n \in Pipe(F) /\ n.sent \in Seq(F) /\ n.mark <= Len(n.sent) /\ n.old <= Len(n.sent)
  BY FlowFields
<1>2. n.sent \in Seq(G)
  BY <1>1
<1>3. n \in Pipe(G)
  BY <1>1, <1>2 DEF Pipe
<1> QED BY <1>1, <1>3 DEF Flow

\* What is missing starts at a missing chunk and ends within the window.
LEMMA RangeType ==
  ASSUME NEW r \in RcvCore, Requests(r)
  PROVE  MissingRange(r) \in Nat \X Nat
<1> DEFINE L == Lacks(r)
           s == Min(L)
           run == {e \in s + 1 .. s + MaxRange : s .. e - 1 \subseteq L}
<1>1. L \in SUBSET Nat /\ L # {}
  BY DEF Requests, Lacks, Indexes
<1>2. s \in L /\ s \in Nat
  <2> HIDE DEF L
  <2> QED BY <1>1, MinNatural
<1> HIDE DEF s, L
<1>3. s + 1 \in run
  <2>1. s .. s \subseteq L
    BY <1>2
  <2>2. s + 1 \in s + 1 .. s + MaxRange /\ (s + 1) - 1 = s
    BY <1>2, DropAssumption
  <2> QED BY <2>1, <2>2
<1>4. IsFiniteSet(run) /\ run \in SUBSET Nat
  <2>1. s + 1 \in Int /\ s + MaxRange \in Int
    BY <1>2, DropAssumption
  <2>2. IsFiniteSet(s + 1 .. s + MaxRange)
    BY <2>1, FS_Interval
  <2>3. run \in SUBSET (s + 1 .. s + MaxRange)
    OBVIOUS
  <2>4. IsFiniteSet(run)
    <3> HIDE DEF run
    <3> QED BY <2>2, <2>3, FS_Subset
  <2>5. \A e \in s + 1 .. s + MaxRange : e \in Nat
    BY <1>2, DropAssumption
  <2> QED BY <2>4, <2>5
<1>5. Max(run) \in Nat
  <2> HIDE DEF run
  <2> QED BY <1>3, <1>4, MaxNatural
<1>6. MissingRange(r) = <<s, Max(run)>>
  BY DEF MissingRange, s, L
<1> QED BY <1>2, <1>5, <1>6

\* request_missing changes the outstanding window only, and asks for no more.
LEMMA RequestOK ==
  ASSUME NEW r, NEW one \in BOOLEAN, RcvOK(r, one)
  PROVE  /\ RcvOK(RequestMissing(r), one)
         /\ Request(r) # None => \A W : Request(r) \in {x \in FrameToSender : x.kind = "done" => x.digest \in W}
<1>1. CASE Requests(r)
  <2> DEFINE m == MissingRange(r)
  <2>1. m \in Nat \X Nat
    BY <1>1, RangeType DEF RcvOK
  <2> HIDE DEF m
  <2>2. RequestMissing(r) = [r EXCEPT !.outstanding = m]
    BY <1>1 DEF RequestMissing, m
  <2> DEFINE q == [r EXCEPT !.outstanding = m]
  <2>3. /\ q \in RcvCore /\ q.offer = r.offer /\ q.have = r.have
        /\ q.verified = r.verified /\ q.dead = r.dead
    BY <2>1 DEF RcvOK, RcvCore
  <2> HIDE DEF q
  <2>4. RcvOK(q, one)
    BY <2>3 DEF RcvOK, Verdict, Held, Lacks
  <2>5. Request(r) = [kind |-> "request", start |-> m[1], end |-> m[2]]
    BY <1>1 DEF Request, m
  <2>6. m[1] \in Nat /\ m[2] \in Nat
    BY <2>1
  <2>7. Request(r) \in FrameToSender /\ Request(r).kind = "request"
    BY <2>5, <2>6 DEF FrameToSender
  <2> QED BY <2>2, <2>4, <2>7 DEF q
<1>2. CASE ~Requests(r)
  BY <1>2 DEF RequestMissing, Request
<1> QED BY <1>1, <1>2

\* An offer of another file starts over; the first one finds no verdict.
LEMMA TakeOfferOK ==
  ASSUME NEW r, NEW one \in BOOLEAN, RcvOK(r, one), NEW f \in File, one => f = First
  PROVE  RcvOK(TakeOffer(r, f), one)
<1>1. r \in RcvCore /\ Verdict(r) /\ (one => Held(r))
  BY DEF RcvOK
<1>2. Nothing \in [Index -> File \cup {None}] /\ \A i \in Index : Nothing[i] = None
  BY DEF Nothing
<1>3. CASE r.offer # None /\ r.offer # f
  <2> DEFINE q == [r EXCEPT !.offer = f, !.have = Nothing, !.verified = "unknown"]
  <2>1. q \in RcvCore /\ q.offer = f /\ q.have = Nothing /\ q.verified = "unknown" /\ q.dead = r.dead
    <3> HIDE DEF Nothing
    <3> QED BY <1>1, <1>2 DEF RcvCore
  <2>2. TakeOffer(r, f) = q
    BY <1>3 DEF TakeOffer
  <2> HIDE DEF q
  <2> QED BY <1>1, <1>2, <2>1, <2>2 DEF RcvOK, Verdict, Held
<1>4. CASE ~(r.offer # None /\ r.offer # f)
  <2> DEFINE q == [r EXCEPT !.offer = f]
  <2>1. q \in RcvCore /\ q.offer = f /\ q.have = r.have /\ q.verified = r.verified /\ q.dead = r.dead
    BY <1>1 DEF RcvCore
  <2>2. TakeOffer(r, f) = q
    BY <1>4 DEF TakeOffer
  <2> HIDE DEF q
  <2>3. Verdict(q)
    BY <1>1, <1>4, <2>1 DEF Verdict, Lacks
  <2> QED BY <1>1, <2>1, <2>2, <2>3 DEF RcvOK, Held
<1> QED BY <1>3, <1>4

\* A chunk of the offered file's size takes its place if that is free; once there
\* is a verdict no place is.
LEMMA TakeChunkOK ==
  ASSUME NEW r, NEW one \in BOOLEAN, RcvOK(r, one),
         NEW c, c.file \in File, c.index \in Index, one => c.file = First, Usable(r, c)
  PROVE  RcvOK(TakeChunk(r, c), one) /\ TakeChunk(r, c).offer = r.offer /\ TakeChunk(r, c).dead = r.dead
<1>1. r \in RcvCore /\ Verdict(r) /\ (one => Held(r))
  BY DEF RcvOK
<1>2. CASE r.have[c.index] # None
  BY <1>2 DEF TakeChunk
<1>3. CASE r.have[c.index] = None
  <2>1. PICK i : i = c.index
    OBVIOUS
  <2>2. PICK f : f = c.file
    OBVIOUS
  <2> DEFINE h == [r.have EXCEPT ![i] = f]
             q == [r EXCEPT !.have = h]
  <2>3. r.have \in [Index -> File \cup {None}] /\ i \in Index /\ f \in File
    BY <1>1, <2>1, <2>2 DEF RcvCore
  <2>4. h \in [Index -> File \cup {None}] /\ \A j \in Index : h[j] = IF j = i THEN f ELSE r.have[j]
    BY <2>3
  <2>5. TakeChunk(r, c) = q
    BY <1>1, <1>3, <2>1, <2>2 DEF TakeChunk, RcvCore
  <2> HIDE DEF h
  <2>6. q \in RcvCore /\ q.have = h /\ q.offer = r.offer /\ q.verified = r.verified /\ q.dead = r.dead
    BY <1>1, <2>4 DEF RcvCore
  <2> HIDE DEF q
  <2>7. r.offer \in File /\ i \in Indexes(r.offer)
    <3>1. r.offer \in File
      BY <1>1 DEF RcvCore, Usable
    <3>2. i \in Nat /\ i < Total[r.offer] /\ Total[r.offer] \in Nat
      BY <2>1, <2>3, <3>1, IndexFacts DEF Usable
    <3> QED BY <3>1, <3>2 DEF Indexes
  <2>8. r.verified = "unknown"
    <3>1. i \in Lacks(r)
      BY <1>3, <2>1, <2>7 DEF Lacks
    <3> QED BY <1>1, <3>1 DEF Verdict
  <2>9. Verdict(q)
    BY <2>6, <2>8 DEF Verdict
  <2>10. one => Held(q)
    <3> SUFFICES ASSUME one PROVE Held(q)
      OBVIOUS
    <3>1. Held(r) /\ f = First
      BY <1>1, <2>2
    <3>2. r.offer = First
      BY <2>7, <3>1, DropAssumption DEF Held
    <3> QED BY <2>4, <2>6, <2>7, <3>1, <3>2 DEF Held
  <2> QED BY <2>5, <2>6, <2>9, <2>10 DEF RcvOK
<1> QED BY <1>2, <1>3

\* As many chunks of one file as it has, each in its place, are all of them.
LEMMA FullIsWhole ==
  ASSUME NEW r \in RcvCore, Held(r), r.offer # None, Full(r)
  PROVE  r.offer = First /\ \A i \in Indexes(First) : r.have[i] = First
<1> DEFINE H == {i \in Index : r.have[i] # None}
<1>1. r.offer = First /\ First \in File
  BY DropAssumption DEF Held
<1>2. PICK t \in Nat \ {0} : t = Total[First]
  BY <1>1, IndexFacts
<1>3. H \in SUBSET (0 .. t - 1)
  BY <1>2 DEF Held, Indexes
<1>4. IsFiniteSet(0 .. t - 1) /\ Cardinality(0 .. t - 1) = t
  <2>1. 0 \in Int /\ t - 1 \in Int /\ ~(0 > t - 1) /\ (t - 1) - 0 + 1 = t
    BY <1>2
  <2> QED BY <2>1, FS_Interval
<1>5. Cardinality(H) = t
  BY <1>1, <1>2 DEF Full
<1> HIDE DEF H
<1>6. H = 0 .. t - 1
  BY <1>3, <1>4, <1>5, FS_Subset
<1>7. \A i \in 0 .. t - 1 : r.have[i] = First
  BY <1>6 DEF Held, H
<1> QED BY <1>1, <1>2, <1>7 DEF Indexes

\* finish() with the file complete: the verdict is right, a positive one goes with
\* the file's digest, and with one file only it is positive.
LEMMA FinishOK ==
  ASSUME NEW r, NEW one \in BOOLEAN, RcvOK(r, one), r.offer # None, Full(r), ~r.dead
  PROVE  /\ RcvOK(Finish(r), one)
         /\ ~Finish(r).dead => (Hash(r) = None \/ (Hash(r) = r.offer /\ Finish(r).verified = "ok"))
         /\ r.offer \in File
<1>1. r \in RcvCore /\ Verdict(r) /\ (one => Held(r)) /\ r.offer \in File
  BY DEF RcvOK, RcvCore
<1>2. one => \A i \in Indexes(r.offer) : r.have[i] = r.offer
  BY <1>1, FullIsWhole
<1>3. one => Lacks(r) = {}
  BY <1>1, <1>2, DropAssumption DEF Lacks
<1>4. Hash(r) \in {r.offer, None}
  BY DEF Hash
<1>5. Hash(r) = r.offer <=> \A i \in Indexes(r.offer) : r.have[i] = r.offer
  BY <1>1, DropAssumption DEF Hash
<1>6. CASE Lacks(r) # {}
  <2> DEFINE q == [r EXCEPT !.dead = TRUE]
  <2>1. Finish(r) = q
    BY <1>6 DEF Finish
  <2>2. q \in RcvCore /\ q.have = r.have /\ q.offer = r.offer /\ q.verified = r.verified /\ q.dead
    BY <1>1 DEF RcvCore
  <2> HIDE DEF q
  <2>3. q.verified = "unknown"
    BY <1>1, <1>6, <2>2 DEF Verdict
  <2>4. Verdict(q)
    BY <2>3 DEF Verdict
  <2> QED BY <1>1, <1>3, <1>6, <2>1, <2>2, <2>4 DEF RcvOK
<1>7. CASE Lacks(r) = {}
  <2> DEFINE v == IF Hash(r) = r.offer THEN "ok" ELSE "bad"
             q == [r EXCEPT !.verified = v]
  <2>1. Finish(r) = q
    BY <1>7 DEF Finish
  <2>2. v \in {"unknown", "ok", "bad"} /\ (v = "ok" <=> Hash(r) = r.offer)
    OBVIOUS
  <2> HIDE DEF v
  <2>3. q \in RcvCore /\ q.have = r.have /\ q.offer = r.offer /\ q.verified = v /\ q.dead = r.dead
    BY <1>1, <2>2 DEF RcvCore
  <2> HIDE DEF q
  <2>4. Verdict(q)
    BY <1>1, <1>5, <1>7, <2>2, <2>3 DEF Verdict, Lacks
  <2>5. one => Held(q)
    BY <1>1, <1>2, <1>5, <2>2, <2>3 DEF Held
  <2>6. RcvOK(q, one)
    BY <2>3, <2>4, <2>5 DEF RcvOK
  <2>7. Hash(r) = None \/ (Hash(r) = r.offer /\ q.verified = "ok")
    BY <1>4, <2>2, <2>3
  <2> QED BY <1>1, <2>1, <2>6, <2>7
<1> QED BY <1>6, <1>7

\* serve_range stays within the file.
LEMMA ServeOK ==
  ASSUME NEW f \in File, NEW a \in Nat, NEW b \in Nat,
         NEW s, s = ServeRange(f, a, b)
  PROVE  s \in Served /\ s.file = f /\ s.end <= Total[f]
<1> DEFINE T == {b, Total[f], a + MaxRange}
<1>1. T \in SUBSET Nat /\ T # {} /\ Total[f] \in T
  BY DropAssumption
<1>2. Min(T) \in Nat /\ Min(T) <= Total[f]
  <2> HIDE DEF T
  <2> QED BY <1>1, MinNatural
<1>3. s = [file |-> f, next |-> a, end |-> Min(T)]
  BY DEF ServeRange
<1> HIDE DEF T
<1> QED BY <1>2, <1>3 DEF Served

\* The next chunk of a request is one of its file, and so is the rest.
LEMMA AdvanceOK ==
  ASSUME NEW s \in Served, Within(s), s # NoChunks
  PROVE  /\ Advance(s) \in Served /\ Within(Advance(s)) /\ Advance(s).file \in {s.file, None}
         /\ s.file \in File /\ s.next \in Index
<1>1. s.file \in File /\ s.next < s.end /\ s.end <= Total[s.file] /\ s.next \in Nat /\ s.end \in Nat
  BY DEF Within, Served
<1>2. s.next \in Index
  <2>1. s.next \in Indexes(s.file)
    BY <1>1, IndexFacts DEF Indexes
  <2> QED BY <1>1, <2>1, IndexFacts
<1>3. NoChunks \in Served /\ Within(NoChunks) /\ NoChunks.file = None
  BY DEF NoChunks, Served, Within
<1>4. CASE s.next + 1 < s.end
  <2> DEFINE q == [s EXCEPT !.next = @ + 1]
  <2>1. Advance(s) = q
    BY <1>4 DEF Advance
  <2>2. q \in Served /\ q.file = s.file /\ q.next = s.next + 1 /\ q.end = s.end
    BY <1>1 DEF Served
  <2> HIDE DEF q
  <2> QED BY <1>1, <1>2, <1>4, <2>1, <2>2 DEF Within
<1>5. CASE ~(s.next + 1 < s.end)
  BY <1>1, <1>2, <1>3, <1>5 DEF Advance
<1> QED BY <1>4, <1>5

-----------------------------------------------------------------------------
(* What the invariant gives.                                               *)

\* The frames and cores are well formed.
LEMMA InvariantTypes == IInv => TypeOK
<1> SUFFICES ASSUME IInv PROVE TypeOK
  OBVIOUS
<1>1. ToReceiver \subseteq FrameToReceiver /\ ToSender \subseteq FrameToSender
  BY DEF ToReceiver, ToSender
<1>2. toR \in Flow(FrameToReceiver) /\ toS \in Flow(FrameToSender)
  BY <1>1, PipeMonotone DEF IInv, FramesOK
<1>3. rcv \in RcvCore
  BY DEF IInv, ReceiverOK, RcvOK
<1>4. CoresOK
  BY DEF IInv
<1>5. /\ toR \in Pipe(FrameToReceiver) /\ toR.mark <= Len(toR.sent) /\ toR.old <= Len(toR.sent)
      /\ toS \in Pipe(FrameToSender) /\ toS.mark <= Len(toS.sent) /\ toS.old <= Len(toS.sent)
  BY <1>2 DEF Flow
<1> QED BY <1>3, <1>4, <1>5 DEF TypeOK, CoresOK, RcvCore, Served

\* The three properties are parts of it.
LEMMA InvariantProperties == IInv => OneFileIntact /\ VerdictCurrent /\ VerdictEarned
BY DEF IInv, ReceiverOK, RcvOK, Held, Verdict, SenderOK, OneFileIntact, VerdictCurrent

\* It holds of an opened drop.
LEMMA InitInvariant == Init => IInv
<1> SUFFICES ASSUME Init PROVE IInv
  OBVIOUS
<1>1. First \in File /\ None \notin BOOLEAN
  BY DropAssumption
<1>2. NoChunks \in Served /\ NoChunks.file = None
  BY DEF NoChunks, Served
<1>3. CoresOK
  BY <1>1, <1>2 DEF Init, CoresOK
<1>4. FramesOK
  <2>1. \A F : Quiet \in Flow(F)
    BY DEF Quiet, Flow, Pipe
  <2> QED BY <2>1 DEF Init, FramesOK
<1>5. ServingOK
  BY DEF Init, ServingOK, Within
<1>6. ReceiverOK
  <2>1. Nothing \in [Index -> File \cup {None}] /\ \A i \in Index : Nothing[i] = None
    BY DEF Nothing
  <2> HIDE DEF Nothing
  <2>2. Receiver(Nothing) \in RcvCore
    BY <2>1 DEF Receiver, RcvCore
  <2>3. Verdict(Receiver(Nothing)) /\ Held(Receiver(Nothing))
    BY <2>1 DEF Receiver, Verdict, Held
  <2> QED BY <2>2, <2>3 DEF Init, ReceiverOK, RcvOK
<1>7. SenderOK
  <2>1. snd.file = First /\ snd.completed # TRUE
    BY <1>1 DEF Init
  <2> QED BY <1>2, <2>1 DEF Init, SenderOK, VerdictEarned
<1> QED BY <1>3, <1>4, <1>5, <1>6, <1>7 DEF IInv

-----------------------------------------------------------------------------
(* The steps.                                                              *)

\* A frame to the receiver is about a file of the drop, so of the first one while
\* there is no other.
LEMMA SendOffer == IInv /\ Offer => IInv'
<1> SUFFICES ASSUME IInv, Offer PROVE IInv'
  OBVIOUS
<1> USE DEF IInv
<1>1. UNCHANGED <<snd, serving, stray, rcv, toS, rebase, whole, replaced, resumed>>
  BY DEF Offer
<1>2. CoresOK' /\ ServingOK' /\ ReceiverOK' /\ SenderOK'
  BY <1>1 DEF CoresOK, ServingOK, ReceiverOK, SenderOK, VerdictEarned
<1>3. ToReceiver' = ToReceiver /\ ToSender' = ToSender
  BY <1>1 DEF ToReceiver, ToSender
<1>4. PICK x : x = [kind |-> "offer", file |-> snd.file]
  OBVIOUS
<1>5. x \in ToReceiver
  BY <1>4 DEF CoresOK, SenderOK, ToReceiver, FrameToReceiver
<1>6. toR' = Push(toR, x) /\ toS' = toS
  BY <1>1, <1>4 DEF Offer
<1>7. FramesOK'
  BY <1>3, <1>5, <1>6, PushPipe DEF FramesOK
<1> QED BY <1>2, <1>7

\* The same of a chunk that is served.
LEMMA ServedFrame ==
  ASSUME IInv, NEW s \in Served, Within(s), s # NoChunks, replaced = 0 => s.file \in {First, None}
  PROVE  [kind |-> "chunk", file |-> s.file, index |-> s.next] \in ToReceiver
<1>1. s.file \in File /\ s.next \in Index
  BY AdvanceOK
<1>2. PICK f, i : f = s.file /\ i = s.next
  OBVIOUS
<1>3. [kind |-> "chunk", file |-> f, index |-> i] \in FrameToReceiver
  BY <1>1, <1>2 DEF FrameToReceiver
<1>4. replaced = 0 => f = First
  BY <1>1, <1>2, DropAssumption
<1> QED BY <1>2, <1>3, <1>4 DEF ToReceiver

\* A chunk of the transfer in hand goes out with the file's own data.
LEMMA SendOwn == IInv /\ SendChunk => IInv'
<1> SUFFICES ASSUME IInv, SendChunk PROVE IInv'
  OBVIOUS
<1> USE DEF IInv
<1>1. UNCHANGED <<snd, stray, rcv, toS, rebase, whole, replaced, resumed>> /\ serving' = Advance(serving)
  BY DEF SendChunk
<1>2. serving \in Served /\ Within(serving) /\ serving # NoChunks
      /\ (replaced = 0 => serving.file \in {First, None})
  BY DEF SendChunk, CoresOK, ServingOK, SenderOK
<1>3. serving' \in Served /\ Within(serving') /\ serving'.file \in {serving.file, None}
  BY <1>1, <1>2, AdvanceOK
<1>4. CoresOK' /\ ServingOK' /\ ReceiverOK' /\ SenderOK'
  BY <1>1, <1>2, <1>3 DEF CoresOK, ServingOK, ReceiverOK, SenderOK, VerdictEarned
<1>5. ToReceiver' = ToReceiver /\ ToSender' = ToSender
  BY <1>1 DEF ToReceiver, ToSender
<1>6. PICK x : x = [kind |-> "chunk", file |-> serving.file, index |-> serving.next]
  OBVIOUS
<1>7. x \in ToReceiver
  BY <1>2, <1>6, ServedFrame
<1>8. toR' = Push(toR, x) /\ toS' = toS
  BY <1>1, <1>6 DEF SendChunk
<1>9. FramesOK'
  BY <1>5, <1>7, <1>8, PushPipe DEF FramesOK
<1> QED BY <1>4, <1>9

\* A chunk sent for an abandoned transfer names the transfer it belongs to.
LEMMA SendStray == IInv /\ SendStrayChunk => IInv'
<1> SUFFICES ASSUME IInv, SendStrayChunk PROVE IInv'
  OBVIOUS
<1> USE DEF IInv
<1>1. UNCHANGED <<snd, serving, rcv, toS, rebase, whole, replaced, resumed>> /\ stray' = Advance(stray)
  BY DEF SendStrayChunk
<1>2. stray \in Served /\ Within(stray) /\ stray # NoChunks
      /\ (replaced = 0 => stray.file \in {First, None})
  BY DEF SendStrayChunk, CoresOK, ServingOK, SenderOK
<1>3. stray' \in Served /\ Within(stray') /\ stray'.file \in {stray.file, None}
  BY <1>1, <1>2, AdvanceOK
<1>4. CoresOK' /\ ServingOK' /\ ReceiverOK' /\ SenderOK'
  BY <1>1, <1>2, <1>3 DEF CoresOK, ServingOK, ReceiverOK, SenderOK, VerdictEarned
<1>5. ToReceiver' = ToReceiver /\ ToSender' = ToSender
  BY <1>1 DEF ToReceiver, ToSender
<1>6. PICK x : x = [kind |-> "chunk", file |-> stray.file, index |-> stray.next]
  OBVIOUS
<1>7. x \in ToReceiver
  BY <1>2, <1>6, ServedFrame
<1>8. toR' = Push(toR, x) /\ toS' = toS
  BY <1>1, <1>6 DEF SendStrayChunk
<1>9. FramesOK'
  BY <1>5, <1>7, <1>8, PushPipe DEF FramesOK
<1> QED BY <1>4, <1>9

\* A request is served within the sender's file, whatever file it was made for.
LEMMA RequestStep ==
  ASSUME IInv, NEW i \in DOMAIN toS.sent, RecvRequest(i)
  PROVE  IInv'
<1> USE DEF IInv
<1>1. UNCHANGED <<snd, stray, rcv, toR, rebase, whole, replaced, resumed>>
      /\ toS' \in Accepted(toS, i)
  BY DEF RecvRequest
<1>2. PICK r : r = toS.sent[i]
  OBVIOUS
<1>3. r \in FrameToSender /\ r.kind = "request" /\ toS' \in Flow(ToSender)
  <2>1. r \in ToSender /\ toS' \in Flow(ToSender)
    BY <1>1, <1>2, TakenPipe DEF FramesOK
  <2> QED BY <1>2, <2>1 DEF ToSender, RecvRequest
<1>4. r.start \in Nat /\ r.end \in Nat
  BY <1>3 DEF FrameToSender
<1>5. PICK s : s = ServeRange(snd.file, r.start, r.end)
  OBVIOUS
<1>6. snd.file \in File /\ s \in Served /\ s.file = snd.file /\ s.end <= Total[snd.file]
  <2>1. snd.file \in File
    BY DEF CoresOK
  <2> QED BY <1>4, <1>5, <2>1, ServeOK
<1>7. serving' = IF s.next < s.end THEN s ELSE NoChunks
  BY <1>2, <1>5 DEF RecvRequest
<1>8. NoChunks \in Served /\ NoChunks.file = None
  BY DEF NoChunks, Served
<1>9. serving' \in Served /\ Within(serving') /\ serving'.file \in {snd.file, None}
  <2>1. Within(NoChunks)
    BY DEF Within
  <2>2. s.next < s.end => Within(s)
    BY <1>6 DEF Within
  <2> QED BY <1>6, <1>7, <1>8, <2>1, <2>2
<1>10. CoresOK' /\ ServingOK' /\ ReceiverOK' /\ SenderOK'
  BY <1>1, <1>9 DEF CoresOK, ServingOK, ReceiverOK, SenderOK, VerdictEarned
<1>11. FramesOK'
  <2>1. ToReceiver' = ToReceiver /\ ToSender' = ToSender
    BY <1>1 DEF ToReceiver, ToSender
  <2> QED BY <1>1, <1>3, <2>1 DEF FramesOK
<1> QED BY <1>10, <1>11

\* A DONE that carries the digest of the sender's file was sent by a receiver that
\* had verified it.
LEMMA DoneStep ==
  ASSUME IInv, NEW i \in DOMAIN toS.sent, RecvDone(i)
  PROVE  IInv'
<1> USE DEF IInv
<1>1. UNCHANGED <<serving, stray, rcv, toR, rebase, whole, replaced, resumed>>
      /\ toS' \in Accepted(toS, i)
  BY DEF RecvDone
<1>2. PICK d : d = toS.sent[i]
  OBVIOUS
<1>3. d \in ToSender /\ d.kind = "done" /\ toS' \in Flow(ToSender)
  <2>1. d \in ToSender /\ toS' \in Flow(ToSender)
    BY <1>1, <1>2, TakenPipe DEF FramesOK
  <2> QED BY <1>2, <2>1 DEF RecvDone
<1>4. PICK v \in BOOLEAN : v = (d.digest = snd.file)
  OBVIOUS
<1>5. snd' = [snd EXCEPT !.completed = v]
  BY <1>2, <1>4 DEF RecvDone
<1>6. snd \in [file : File, completed : {None} \cup BOOLEAN]
  BY DEF CoresOK
<1>7. /\ snd' \in [file : File, completed : {None} \cup BOOLEAN]
      /\ snd'.file = snd.file /\ snd'.completed = v
  BY <1>5, <1>6
<1>8. v => snd.file \in whole
  BY <1>3, <1>4, <1>6, DropAssumption, ZenonT(60) DEF ToSender
<1>9. CoresOK' /\ ServingOK' /\ ReceiverOK'
  BY <1>1, <1>7 DEF CoresOK, ServingOK, ReceiverOK
<1>10. SenderOK'
  BY <1>1, <1>7, <1>8 DEF SenderOK, VerdictEarned
<1>11. FramesOK'
  <2>1. ToReceiver' = ToReceiver /\ ToSender' = ToSender
    BY <1>1 DEF ToReceiver, ToSender
  <2> QED BY <1>1, <1>3, <2>1 DEF FramesOK
<1> QED BY <1>9, <1>10, <1>11

\* A sender opened for another file has no verdict, and from then on a frame may
\* be about any file.
LEMMA ReplaceStep ==
  ASSUME IInv, NEW f \in File, NEW restart \in BOOLEAN, NEW low \in BOOLEAN,
         Replace(f, restart, low)
  PROVE  IInv'
<1> USE DEF IInv
<1>1. /\ UNCHANGED <<rcv, whole, resumed>> /\ toS' = Unmarked(toS)
      /\ toR' \in {toR, NewSession(toR, low)}
      /\ replaced' = replaced + 1 /\ serving' = NoChunks /\ stray' \in {NoChunks, serving}
      /\ snd' = [file |-> f, completed |-> None]
      /\ rebase' \in {(rebase \ {"sender"}) \cup {"receiver"}, rebase \ {"sender"}}
  BY DEF Replace
<1>2. replaced' \in Nat /\ replaced' # 0
  BY <1>1 DEF CoresOK
<1>3. NoChunks \in Served /\ Within(NoChunks)
  BY DEF NoChunks, Served, Within
<1>4. snd' \in [file : File, completed : {None} \cup BOOLEAN] /\ snd'.completed # TRUE
  BY <1>1, DropAssumption
<1>5. CoresOK'
  BY <1>1, <1>2, <1>3, <1>4 DEF CoresOK
<1>6. ServingOK'
  BY <1>1, <1>3 DEF ServingOK
<1>7. ReceiverOK' /\ SenderOK'
  BY <1>1, <1>2, <1>4 DEF ReceiverOK, RcvOK, SenderOK, VerdictEarned
<1>8. FramesOK'
  <2>1. ToReceiver \subseteq ToReceiver' /\ ToSender' = ToSender
    BY <1>1, <1>2 DEF ToReceiver, ToSender
  <2>2. toR' \in Flow(ToReceiver')
    <3>1. toR' \in Flow(ToReceiver)
      BY <1>1, MarkPipe DEF FramesOK
    <3> QED BY <2>1, <3>1, PipeMonotone
  <2>3. toS' \in Flow(ToSender)
    BY <1>1, MarkPipe DEF FramesOK
  <2> QED BY <1>1, <2>1, <2>2, <2>3 DEF FramesOK
<1> QED BY <1>5, <1>6, <1>7, <1>8

\* What a receiver may send as a request, of any receiver that is in order.
LEMMA AskStep ==
  ASSUME IInv, NEW r, RcvOK(r, replaced = 0), rcv' = RequestMissing(r),
         toS' = PushAll(toS, Request(r)), toR' \in Flow(ToReceiver),
         UNCHANGED <<snd, serving, stray, rebase, whole, replaced, resumed>>
  PROVE  IInv'
<1> USE DEF IInv
<1>1. PICK one \in BOOLEAN : one = (replaced = 0)
  OBVIOUS
<1>2. RcvOK(rcv', one) /\ (Request(r) # None => Request(r) \in ToSender)
  BY <1>1, RequestOK DEF ToSender
<1>3. toS' \in Flow(ToSender)
  <2>1. CASE Request(r) = None
    BY <2>1 DEF PushAll, FramesOK
  <2>2. CASE Request(r) # None
    BY <1>2, <2>2, PushPipe DEF PushAll, FramesOK
  <2> QED BY <2>1, <2>2
<1>4. ToReceiver' = ToReceiver /\ ToSender' = ToSender
  BY DEF ToReceiver, ToSender
<1>5. FramesOK'
  BY <1>3, <1>4 DEF FramesOK
<1>6. ReceiverOK'
  BY <1>1, <1>2 DEF ReceiverOK, RcvOK, RcvCore, Verdict, Held, Lacks
<1>7. CoresOK' /\ ServingOK' /\ SenderOK'
  BY DEF CoresOK, ServingOK, SenderOK, VerdictEarned
<1> QED BY <1>5, <1>6, <1>7

\* The timer asks again.
LEMMA TickStep == IInv /\ Tick => IInv'
<1> SUFFICES ASSUME IInv, Tick PROVE IInv'
  OBVIOUS
<1>1. toR \in Flow(ToReceiver) /\ RcvOK(rcv, replaced = 0)
  BY DEF IInv, FramesOK, ReceiverOK
<1>2. /\ rcv' = RequestMissing(rcv) /\ toS' = PushAll(toS, Request(rcv)) /\ toR' = toR
      /\ UNCHANGED <<snd, serving, stray, rebase, whole, replaced, resumed>>
  BY DEF Tick
<1> QED BY <1>1, <1>2, AskStep

\* An offer is taken and what is missing is asked for.
LEMMA OfferStep ==
  ASSUME IInv, NEW i \in DOMAIN toR.sent, RecvOffer(i)
  PROVE  IInv'
<1>1. PICK x : x = toR.sent[i]
  OBVIOUS
<1>2. x \in ToReceiver /\ Accepted(toR, i) \subseteq Flow(ToReceiver)
  BY <1>1, TakenPipe DEF IInv, FramesOK
<1>3. x.file \in File /\ (replaced = 0 => x.file = First)
  BY <1>2 DEF ToReceiver, FrameToReceiver
<1>4. PICK r : r = TakeOffer(rcv, x.file)
  OBVIOUS
<1>5. RcvOK(r, replaced = 0)
  <2>1. PICK one \in BOOLEAN : one = (replaced = 0)
    OBVIOUS
  <2>2. RcvOK(rcv, one)
    BY <2>1 DEF IInv, ReceiverOK
  <2>3. RcvOK(r, one)
    BY <1>3, <1>4, <2>1, <2>2, TakeOfferOK
  <2> QED BY <2>1, <2>3
<1>6. /\ rcv' = RequestMissing(r) /\ toS' = PushAll(toS, Request(r)) /\ toR' \in Accepted(toR, i)
      /\ UNCHANGED <<snd, serving, stray, rebase, whole, replaced, resumed>>
  BY <1>1, <1>4 DEF RecvOffer
<1> QED BY <1>2, <1>5, <1>6, AskStep

\* A chunk is ignored, completes the file, drains the window or is one of many.
LEMMA ChunkStep ==
  ASSUME IInv, NEW i \in DOMAIN toR.sent, RecvChunk(i)
  PROVE  IInv'
<1>1. PICK c : c = toR.sent[i]
  OBVIOUS
<1>2. c \in ToReceiver /\ Accepted(toR, i) \subseteq Flow(ToReceiver) /\ c.kind = "chunk" /\ ~rcv.dead
  <2>1. c \in ToReceiver /\ Accepted(toR, i) \subseteq Flow(ToReceiver)
    BY <1>1, TakenPipe DEF IInv, FramesOK
  <2> QED BY <1>1, <2>1 DEF RecvChunk
<1>3. c.file \in File /\ c.index \in Index /\ (replaced = 0 => c.file = First)
  BY <1>2 DEF ToReceiver, FrameToReceiver
<1>4. PICK one \in BOOLEAN : one = (replaced = 0)
  OBVIOUS
<1>5. RcvOK(rcv, one)
  BY <1>4 DEF IInv, ReceiverOK
<1>6. PICK r : r = TakeChunk(rcv, c)
  OBVIOUS
<1>7. Usable(rcv, c) => RcvOK(r, one) /\ r.offer = rcv.offer /\ ~r.dead
  <2>1. one => c.file = First
    BY <1>3, <1>4
  <2>2. ASSUME Usable(rcv, c)
        PROVE  RcvOK(TakeChunk(rcv, c), one) /\ TakeChunk(rcv, c).offer = rcv.offer
               /\ TakeChunk(rcv, c).dead = rcv.dead
    BY <1>3, <1>5, <2>1, <2>2, TakeChunkOK
  <2>3. Usable(rcv, c) => r.dead = rcv.dead
    BY <1>6, <2>2
  <2> QED BY <1>2, <1>6, <2>2, <2>3
<1>8. /\ UNCHANGED <<snd, serving, stray, rebase, replaced, resumed>> /\ toR' \in Accepted(toR, i)
  BY DEF RecvChunk
<1>9. toR' \in Flow(ToReceiver) /\ ToReceiver' = ToReceiver
  BY <1>2, <1>8 DEF ToReceiver
<1>10. CASE ~Usable(rcv, c) /\ UNCHANGED <<rcv, toS, whole>>
  <2>1. FramesOK'
    <3>1. ToSender' = ToSender
      BY <1>10 DEF ToSender
    <3> QED BY <1>9, <1>10, <3>1 DEF IInv, FramesOK
  <2> QED BY <1>8, <1>10, <2>1
       DEF IInv, CoresOK, ServingOK, ReceiverOK, SenderOK, VerdictEarned
<1>11. CASE /\ Usable(rcv, c) /\ Full(r) /\ rcv' = Finish(r)
            /\ toS' = IF Finish(r).dead THEN toS ELSE Push(toS, [kind |-> "done", digest |-> Hash(r)])
            /\ whole' = IF Finish(r).verified = "ok" THEN whole \cup {r.offer} ELSE whole
  <2>1. r.offer # None
    BY <1>7, <1>11 DEF Usable
  <2>2. PICK fin : fin = Finish(r)
    OBVIOUS
  <2>3. /\ RcvOK(fin, one) /\ r.offer \in File
        /\ ~fin.dead => (Hash(r) = None \/ (Hash(r) = r.offer /\ fin.verified = "ok"))
    BY <1>7, <1>11, <2>1, <2>2, FinishOK
  <2>4. whole \subseteq whole' /\ whole' \subseteq File
    BY <1>11, <2>3 DEF IInv, CoresOK
  <2>5. ToSender \subseteq ToSender'
    BY <2>4 DEF ToSender
  <2>6. toS \in Flow(ToSender')
    BY <2>5, PipeMonotone DEF IInv, FramesOK
  <2>7. ~fin.dead => [kind |-> "done", digest |-> Hash(r)] \in ToSender'
    <3> SUFFICES ASSUME ~fin.dead PROVE [kind |-> "done", digest |-> Hash(r)] \in ToSender'
      OBVIOUS
    <3>1. PICK h : h = Hash(r)
      OBVIOUS
    <3>2. h \in whole' \cup {None} /\ h \in File \cup {None}
      BY <1>11, <2>2, <2>3, <3>1
    <3>3. [kind |-> "done", digest |-> h] \in ToSender'
      BY <3>2 DEF ToSender, FrameToSender
    <3> QED BY <3>1, <3>3
  <2>8. toS' \in Flow(ToSender')
    BY <1>11, <2>2, <2>6, <2>7, PushPipe
  <2>9. FramesOK'
    BY <1>9, <2>8 DEF FramesOK
  <2>10. ReceiverOK'
    <3>1. RcvOK(rcv', one)
      BY <1>11, <2>2, <2>3
    <3> QED BY <1>4, <1>8, <3>1 DEF ReceiverOK, RcvOK, RcvCore, Verdict, Held, Lacks
  <2>11. CoresOK' /\ ServingOK' /\ SenderOK'
    BY <1>8, <2>4 DEF IInv, CoresOK, ServingOK, SenderOK, VerdictEarned
  <2> QED BY <2>9, <2>10, <2>11 DEF IInv
<1>12. CASE /\ Usable(rcv, c) /\ rcv' = RequestMissing(r) /\ toS' = PushAll(toS, Request(r))
            /\ UNCHANGED whole
  <2>1. RcvOK(r, replaced = 0)
    BY <1>4, <1>7, <1>12
  <2> QED BY <1>8, <1>9, <1>12, <2>1, AskStep
<1>13. CASE Usable(rcv, c) /\ rcv' = r /\ UNCHANGED <<toS, whole>>
  <2>1. RcvOK(rcv', one)
    BY <1>7, <1>13
  <2>2. ReceiverOK'
    BY <1>4, <1>8, <2>1 DEF ReceiverOK, RcvOK, RcvCore, Verdict, Held, Lacks
  <2>3. FramesOK'
    <3>1. ToSender' = ToSender
      BY <1>13 DEF ToSender
    <3> QED BY <1>9, <1>13, <3>1 DEF IInv, FramesOK
  <2> QED BY <1>8, <1>13, <2>2, <2>3
       DEF IInv, CoresOK, ServingOK, SenderOK, VerdictEarned
<1> QED BY <1>1, <1>6, <1>10, <1>11, <1>12, <1>13 DEF RecvChunk

\* A receiver opened anew has no verdict, and no chunk that it did not hold.
LEMMA ResumeStep ==
  ASSUME IInv, NEW kept \in SUBSET Index, NEW restart \in BOOLEAN, NEW low \in BOOLEAN,
         Resume(kept, restart, low)
  PROVE  IInv'
<1> USE DEF IInv
<1>1. PICK seed : seed = [i \in Index |-> IF i \in kept THEN rcv.have[i] ELSE None]
  OBVIOUS
<1>2. /\ UNCHANGED <<snd, serving, stray, whole, replaced>> /\ resumed' = resumed + 1
      /\ toR' = Unmarked(toR) /\ rcv' = Receiver(seed) /\ toS' \in {toS, NewSession(toS, low)}
      /\ rebase' \in {(rebase \ {"receiver"}) \cup {"sender"}, rebase \ {"receiver"}}
  BY <1>1 DEF Resume
<1>3. rcv.have \in [Index -> File \cup {None}]
  BY DEF ReceiverOK, RcvOK, RcvCore
<1>4. seed \in [Index -> File \cup {None}] /\ \A i \in Index : seed[i] # None => seed[i] = rcv.have[i]
  BY <1>1, <1>3
<1>5. Receiver(seed) \in RcvCore
  BY <1>4 DEF Receiver, RcvCore
<1>6. Verdict(Receiver(seed)) /\ (replaced = 0 => Held(Receiver(seed)))
  <2>1. replaced = 0 => \A i \in Index : seed[i] # None => seed[i] = First /\ i \in Indexes(First)
    BY <1>4 DEF ReceiverOK, RcvOK, Held
  <2>2. PICK q : q = Receiver(seed)
    OBVIOUS
  <2>3. q.offer = None /\ q.have = seed /\ q.verified = "unknown" /\ q.dead = FALSE
    BY <2>2 DEF Receiver
  <2>4. Verdict(q)
    BY <2>3 DEF Verdict
  <2>5. replaced = 0 => Held(q)
    BY <2>1, <2>3 DEF Held
  <2> QED BY <2>2, <2>4, <2>5
<1>7. ReceiverOK'
  <2>1. RcvOK(rcv', replaced' = 0)
    BY <1>2, <1>5, <1>6 DEF RcvOK
  <2> QED BY <2>1 DEF ReceiverOK, RcvOK, RcvCore, Verdict, Held, Lacks
<1>8. FramesOK'
  <2>1. ToReceiver' = ToReceiver /\ ToSender' = ToSender
    BY <1>2 DEF ToReceiver, ToSender
  <2>2. toR' \in Flow(ToReceiver) /\ toS' \in Flow(ToSender)
    BY <1>2, MarkPipe DEF FramesOK
  <2> QED BY <1>2, <2>1, <2>2 DEF FramesOK
<1>9. CoresOK'
  BY <1>2 DEF CoresOK
<1>10. ServingOK' /\ SenderOK'
  BY <1>2 DEF ServingOK, SenderOK, VerdictEarned
<1> QED BY <1>7, <1>8, <1>9, <1>10

\* A watermark that is dropped lets frames in again, all of them known.
LEMMA RebaseStep == IInv /\ (RebaseSender \/ RebaseReceiver) => IInv'
<1> SUFFICES ASSUME IInv, RebaseSender \/ RebaseReceiver PROVE IInv'
  OBVIOUS
<1> USE DEF IInv
<1>1. /\ UNCHANGED <<snd, serving, stray, rcv, whole, replaced, resumed>>
      /\ rebase' \subseteq rebase
  BY DEF RebaseSender, RebaseReceiver
<1>2. toR' \in {toR, Unmarked(toR)} /\ toS' \in {toS, Unmarked(toS)}
  BY DEF RebaseSender, RebaseReceiver
<1>3. toR' \in Flow(ToReceiver) /\ toS' \in Flow(ToSender)
  BY <1>2, MarkPipe DEF FramesOK
<1>4. ToReceiver' = ToReceiver /\ ToSender' = ToSender
  BY <1>1 DEF ToReceiver, ToSender
<1>5. FramesOK'
  BY <1>3, <1>4 DEF FramesOK
<1> QED BY <1>1, <1>5 DEF CoresOK, ServingOK, ReceiverOK, SenderOK, VerdictEarned

\* Every step of sender, receiver and network keeps the invariant.
LEMMA NextInvariant == IInv /\ [Next]_vars => IInv'
<1> SUFFICES ASSUME IInv, [Next]_vars PROVE IInv'
  OBVIOUS
<1>1. CASE UNCHANGED vars
  <2>1. UNCHANGED <<snd, serving, stray, rcv, toR, toS, rebase, whole, replaced, resumed>>
    BY <1>1 DEF vars
  <2>2. ToReceiver' = ToReceiver /\ ToSender' = ToSender
    BY <2>1 DEF ToReceiver, ToSender
  <2> QED BY <2>1, <2>2
       DEF IInv, CoresOK, FramesOK, ServingOK, ReceiverOK, SenderOK, VerdictEarned
<1>2. CASE Offer
  BY <1>2, SendOffer
<1>3. CASE SendChunk
  BY <1>3, SendOwn
<1>4. CASE SendStrayChunk
  BY <1>4, SendStray
<1>5. CASE Tick
  BY <1>5, TickStep
<1>6. CASE \E i \in DOMAIN toS.sent : RecvRequest(i) \/ RecvDone(i)
  BY <1>6, RequestStep, DoneStep
<1>7. CASE \E i \in DOMAIN toR.sent : RecvOffer(i) \/ RecvChunk(i)
  BY <1>7, OfferStep, ChunkStep
<1>8. CASE \E restart, low \in BOOLEAN : \E f \in File : Replace(f, restart, low)
  BY <1>8, ReplaceStep
<1>9. CASE \E restart, low \in BOOLEAN :
             \E kept \in SUBSET {i \in Index : rcv.have[i] # None} : Resume(kept, restart, low)
  <2>1. PICK restart \in BOOLEAN, low \in BOOLEAN :
          \E kept \in SUBSET {i \in Index : rcv.have[i] # None} : Resume(kept, restart, low)
    BY <1>9
  <2>2. PICK kept \in SUBSET {i \in Index : rcv.have[i] # None} : Resume(kept, restart, low)
    BY <2>1
  <2>3. kept \in SUBSET Index
    OBVIOUS
  <2> QED BY <2>2, <2>3, ResumeStep
<1>10. CASE RebaseSender \/ RebaseReceiver
  BY <1>10, RebaseStep
<1> QED BY <1>1, <1>2, <1>3, <1>4, <1>5, <1>6, <1>7, <1>8, <1>9, <1>10 DEF Next

-----------------------------------------------------------------------------
(* The theorems.                                                           *)

\* The invariant holds in every reachable state.
THEOREM DropInvariant == Spec => []IInv
BY InitInvariant, NextInvariant, PTL DEF Spec

\* Cores and frames stay well formed, and the watermark of either direction is
\* that of a frame which was sent.
THEOREM TypeCorrect == Spec => []TypeOK
BY DropInvariant, InvariantTypes, PTL

\* While a drop carries one file, no receiver fails its verification or panics in
\* finish(), whatever is lost, repeated, reordered or resumed.
THEOREM IntactWithOneFile == Spec => []OneFileIntact
BY DropInvariant, InvariantProperties, PTL

\* A receiver's verdict is about the file offered now, of which it has every chunk.
THEOREM VerdictsCurrent == Spec => []VerdictCurrent
BY DropInvariant, InvariantProperties, PTL

\* A sender is told of success only if some receiver verified the sender's file.
THEOREM VerdictsEarned == Spec => []VerdictEarned
BY DropInvariant, InvariantProperties, PTL
=============================================================================
