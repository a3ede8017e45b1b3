---------------------------- MODULE DropTransfer ---------------------------
(***************************************************************************)
(* A drop: one endpoint offers a file, the other pulls it window by window *)
(* (drop_channel.rs).  The sender's task serves a request chunk by chunk;  *)
(* meanwhile its application may offer again or open the drop anew for     *)
(* another file.  The receiver re-requests on a timer, verifies when every *)
(* chunk is there, and may be restarted with chunks it has persisted.      *)
(***************************************************************************)
EXTENDS Integers, Sequences, FiniteSets, FiniteSetsExt

CONSTANTS
  File,         \* the files a drop may carry, told apart by size and sha256
  First,        \* the one it carries first
  Total,        \* Total[f]: total_chunks, at least 1
  MaxRange,     \* MAX_RANGE_CHUNKS
  MaxReplaced,  \* bound on opening the sender for another file
  MaxResumed,   \* bound on opening the receiver anew
  NetCap,       \* bound on the frames in either direction
  None

ASSUME DropAssumption ==
  /\ IsFiniteSet(File) /\ \A f \in File : Total[f] \in Nat \ {0}
  /\ MaxRange \in Nat \ {0} /\ NetCap \in Nat \ {0}
  /\ MaxReplaced \in Nat /\ MaxResumed \in Nat
  /\ First \in File /\ None \notin File \cup BOOLEAN

Index == 0 .. Max({Total[f] : f \in File}) - 1
Indexes(f) == 0 .. Total[f] - 1

\* A chunk is known by the file it was cut from; its index goes with it.
FrameToReceiver == [kind : {"offer"}, file : File]
                   \cup [kind : {"chunk"}, file : File, index : Index]
FrameToSender == [kind : {"request"}, start : Nat, end : Nat]
                 \cup [kind : {"done"}, digest : File \cup {None}]

\* The last frames to one side, how many of them are at or below its watermark and
\* how many are of an earlier session of the other side; and whether it has a
\* watermark that lets the present session through.
Pipe(Frame) == [sent : Seq(Frame), mark : Nat, old : Nat, wm : {"none", "open", "shut"}]

VARIABLES
  snd,      \* DropSenderCore: the file, and the receiver's verdict in completed
  serving,  \* the sender task's chunks still to be sent for a request
  stray,    \* the same of the task of a sender that was replaced
  rcv,      \* DropReceiverCore
  toR, toS, \* the last frames to either side, and that side's watermark
  rebase,   \* sides that have yet to notice that the other one restarted
  whole,    \* history: files some receiver assembled and verified
  replaced, resumed

vars == <<snd, serving, stray, rcv, toR, toS, rebase, whole, replaced, resumed>>

\* DropReceiverCore::new.
Receiver(have) == [offer |-> None, have |-> have, verified |-> "unknown", outstanding |-> <<0, 0>>,
                   dead |-> FALSE]

Nothing == [i \in Index |-> None]
NoChunks == [file |-> None, next |-> 0, end |-> 0]
Quiet == [sent |-> <<>>, mark |-> 0, old |-> 0, wm |-> "none"]

Init ==
  /\ snd = [file |-> First, completed |-> None]
  /\ serving = NoChunks /\ stray = NoChunks
  /\ rcv = Receiver(Nothing)
  /\ toR = Quiet /\ toS = Quiet
  /\ rebase = {}
  /\ whole = {} /\ replaced = 0 /\ resumed = 0

\* replay_stale: a frame that is overtaken is lost as long as the watermark
\* stands; one at or below it may arrive once more when it is dropped.
Push(n, f) ==
  IF Len(n.sent) < NetCap THEN [n EXCEPT !.sent = Append(@, f)]
  ELSE [n EXCEPT !.sent = Append(Tail(@), f), !.mark = IF @ = 0 THEN 0 ELSE @ - 1,
                 !.old = IF @ = 0 THEN 0 ELSE @ - 1]

\* The other side starts a session, at a random sequence number that may lie below
\* the watermark: what it sent before can only be what is already queued here.
NewSession(n, low) ==
  [n EXCEPT !.old = Len(n.sent),
            !.wm = IF @ = "none" THEN "none" ELSE IF low THEN "shut" ELSE "open"]

\* No watermark.  A frame of the session before does not come after one of the present.
Unmarked(n) ==
  [n EXCEPT !.mark = IF n.wm = "open" /\ n.mark > n.old THEN n.old ELSE 0, !.wm = "none"]

\* Frame i passes replay_stale.
Above(n, i) == i > n.mark /\ (n.wm = "shut" => i <= n.old)

\* It raises the watermark; one of the session before may raise it above all that
\* the present session will send.
Taken(n, i, low) == [n EXCEPT !.mark = i, !.wm = IF low THEN "shut" ELSE "open"]

Accepted(n, i) == {Taken(n, i, low) : low \in {FALSE, i <= n.old}}

PushAll(n, fs) == IF fs = None THEN n ELSE Push(n, fs)

-----------------------------------------------------------------------------
(* The sender.                                                             *)

\* DropSender::offer, called by the application.
Offer ==
  /\ toR' = Push(toR, [kind |-> "offer", file |-> snd.file])
  /\ UNCHANGED <<snd, serving, stray, rcv, toS, rebase, whole, replaced, resumed>>

\* serve_range: the request clamped to the file and the window.
ServeRange(f, start, end) ==
  [file |-> f, next |-> start, end |-> Min({end, Total[f], start + MaxRange})]

RecvRequest(i) ==
  LET r == toS.sent[i] IN
  /\ serving = NoChunks
  /\ Above(toS, i) /\ r.kind = "request"
  /\ toS' \in Accepted(toS, i)
  /\ serving' = LET s == ServeRange(snd.file, r.start, r.end) IN
                IF s.next < s.end THEN s ELSE NoChunks
  /\ UNCHANGED <<snd, stray, rcv, toR, rebase, whole, replaced, resumed>>

\* One CHUNK of a request, sent by the task that holds it.
Advance(s) == IF s.next + 1 < s.end THEN [s EXCEPT !.next = @ + 1] ELSE NoChunks

SendChunk ==
  /\ serving # NoChunks
  /\ toR' = Push(toR, [kind |-> "chunk", file |-> serving.file, index |-> serving.next])
  /\ serving' = Advance(serving)
  /\ UNCHANGED <<snd, stray, rcv, toS, rebase, whole, replaced, resumed>>

SendStrayChunk ==
  /\ stray # NoChunks
  /\ toR' = Push(toR, [kind |-> "chunk", file |-> stray.file, index |-> stray.next])
  /\ stray' = Advance(stray)
  /\ UNCHANGED <<snd, serving, rcv, toS, rebase, whole, replaced, resumed>>

\* Fault: any DONE counts as success.
DoneAlways(i) ==
  /\ serving = NoChunks
  /\ Above(toS, i) /\ toS.sent[i].kind = "done"
  /\ toS' \in Accepted(toS, i)
  /\ snd' = [snd EXCEPT !.completed = TRUE]
  /\ UNCHANGED <<serving, stray, rcv, toR, rebase, whole, replaced, resumed>>

\* TYPE_DONE: the receiver's digest is compared with this file's.
RecvDone(i) ==
  /\ serving = NoChunks
  /\ Above(toS, i) /\ toS.sent[i].kind = "done"
  /\ toS' \in Accepted(toS, i)
  /\ snd' = [snd EXCEPT !.completed = (toS.sent[i].digest = snd.file)]
  /\ UNCHANGED <<serving, stray, rcv, toR, rebase, whole, replaced, resumed>>

\* open_sender for another file.  Within the running Band the old task is not
\* stopped: what it holds is still sent.  With a new Band it is gone, and the
\* receiver will be told, if not too late (a signal lost to Lagged never comes).
Replace(f, restart, low) ==
  /\ replaced < MaxReplaced /\ f # snd.file
  /\ replaced' = replaced + 1
  /\ snd' = [file |-> f, completed |-> None]
  /\ serving' = NoChunks
  /\ stray' = IF restart THEN NoChunks ELSE serving
  /\ rebase' = IF restart THEN (rebase \ {"sender"}) \cup {"receiver"} ELSE rebase \ {"sender"}
  /\ toS' = Unmarked(toS)
  /\ toR' = IF restart THEN NewSession(toR, low) ELSE toR
  /\ UNCHANGED <<rcv, whole, resumed>>

-----------------------------------------------------------------------------
(* The receiver.                                                           *)

Lacks(r) == {i \in Indexes(r.offer) : r.have[i] = None}

\* missing_ranges().first(): the first run of missing chunks, cut to the window.
MissingRange(r) ==
  LET s == Min(Lacks(r))
      run == {e \in s + 1 .. s + MaxRange : s .. e - 1 \subseteq Lacks(r)}
  IN <<s, Max(run)>>

\* request_missing: nothing without an offer, once there is a verdict, or when
\* nothing is missing; otherwise the first range is outstanding.
Requests(r) == r.offer # None /\ r.verified = "unknown" /\ Lacks(r) # {}

RequestMissing(r) == IF Requests(r) THEN [r EXCEPT !.outstanding = MissingRange(r)] ELSE r

Request(r) ==
  IF Requests(r)
  THEN [kind |-> "request", start |-> MissingRange(r)[1], end |-> MissingRange(r)[2]]
  ELSE None

\* Fault: a different file takes over what is there.
TakeOfferKeep(r, f) == [r EXCEPT !.offer = f]

\* A different file on the same drop: start over.
TakeOffer(r, f) ==
  IF r.offer # None /\ r.offer # f
  THEN [r EXCEPT !.offer = f, !.have = Nothing, !.verified = "unknown"]
  ELSE [r EXCEPT !.offer = f]

RecvOffer(i) ==
  LET r == TakeOffer(rcv, toR.sent[i].file) IN
  /\ ~rcv.dead
  /\ Above(toR, i) /\ toR.sent[i].kind = "offer"
  /\ toR' \in Accepted(toR, i)
  /\ rcv' = RequestMissing(r)
  /\ toS' = PushAll(toS, Request(r))
  /\ UNCHANGED <<snd, serving, stray, rebase, whole, replaced, resumed>>

\* Fault: one chunk too few counts as all.
FullEarly(r) == Cardinality({i \in Index : r.have[i] # None}) >= Total[r.offer] - 1

\* As many chunks are held as the file has, wherever they belong.
Full(r) == Cardinality({i \in Index : r.have[i] # None}) = Total[r.offer]

\* sha256 of the assembled data: the file it is, or no known one.
Hash(r) == IF \A i \in Indexes(r.offer) : r.have[i] = r.offer THEN r.offer ELSE None

\* finish(): the verdict, DONE and the completion event.  It indexes every chunk
\* of the file, and panics when one is not there.
Finish(r) ==
  IF Lacks(r) # {} THEN [r EXCEPT !.dead = TRUE]
  ELSE [r EXCEPT !.verified = IF Hash(r) = r.offer THEN "ok" ELSE "bad"]

\* A window is outstanding and every chunk of it is there.
Drained(r) ==
  /\ r.outstanding # <<0, 0>>
  /\ \A i \in r.outstanding[1] .. r.outstanding[2] - 1 : r.have[i] # None

\* The chunk is taken if its place is free.
TakeChunk(r, c) ==
  IF r.have[c.index] = None THEN [r EXCEPT !.have[c.index] = c.file] ELSE r

Usable(r, c) == r.offer # None /\ c.index < Total[r.offer]

RecvChunk(i) ==
  LET c == toR.sent[i]  r == TakeChunk(rcv, c)  fin == Finish(r) IN
  /\ ~rcv.dead
  /\ Above(toR, i) /\ c.kind = "chunk"
  /\ toR' \in Accepted(toR, i)
  /\ \/ ~Usable(rcv, c) /\ UNCHANGED <<rcv, toS, whole>>
     \/ /\ Usable(rcv, c) /\ Full(r)
        /\ rcv' = fin
        /\ toS' = IF fin.dead THEN toS ELSE Push(toS, [kind |-> "done", digest |-> Hash(r)])
        /\ whole' = IF fin.verified = "ok" THEN whole \cup {r.offer} ELSE whole
     \/ /\ Usable(rcv, c) /\ ~Full(r) /\ Drained(r)
        /\ rcv' = RequestMissing(r)
        /\ toS' = PushAll(toS, Request(r))
        /\ UNCHANGED whole
     \/ /\ Usable(rcv, c) /\ ~Full(r) /\ ~Drained(r)
        /\ rcv' = r
        /\ UNCHANGED <<toS, whole>>
  /\ UNCHANGED <<snd, serving, stray, rebase, replaced, resumed>>

\* Fault: the timer does not ask again while a window is outstanding.
TickOnce ==
  /\ ~rcv.dead /\ Requests(rcv) /\ rcv.outstanding = <<0, 0>>
  /\ rcv' = RequestMissing(rcv)
  /\ toS' = PushAll(toS, Request(rcv))
  /\ UNCHANGED <<snd, serving, stray, toR, rebase, whole, replaced, resumed>>

\* tick: nothing has arrived for the re-request timeout.
Tick ==
  /\ ~rcv.dead /\ Requests(rcv)
  /\ rcv' = RequestMissing(rcv)
  /\ toS' = PushAll(toS, Request(rcv))
  /\ UNCHANGED <<snd, serving, stray, toR, rebase, whole, replaced, resumed>>

\* open_receiver, with chunks persisted earlier, in the running Band or a new one.
Resume(kept, restart, low) ==
  LET seed == [i \in Index |-> IF i \in kept THEN rcv.have[i] ELSE None] IN
  /\ resumed < MaxResumed
  /\ resumed' = resumed + 1
  /\ rcv' = Receiver(seed)
  /\ rebase' = IF restart THEN (rebase \ {"receiver"}) \cup {"sender"} ELSE rebase \ {"receiver"}
  /\ toR' = Unmarked(toR)
  /\ toS' = IF restart THEN NewSession(toS, low) ELSE toS
  /\ UNCHANGED <<snd, serving, stray, whole, replaced>>

-----------------------------------------------------------------------------

\* The other side has restarted: its watermark is dropped.
RebaseSender ==
  /\ "sender" \in rebase
  /\ rebase' = rebase \ {"sender"} /\ toS' = Unmarked(toS)
  /\ UNCHANGED <<snd, serving, stray, rcv, toR, whole, replaced, resumed>>

RebaseReceiver ==
  /\ "receiver" \in rebase
  /\ rebase' = rebase \ {"receiver"} /\ toR' = Unmarked(toR)
  /\ UNCHANGED <<snd, serving, stray, rcv, toS, whole, replaced, resumed>>

Next ==
  \/ Offer \/ SendChunk \/ SendStrayChunk \/ Tick
  \/ \E i \in DOMAIN toS.sent : RecvRequest(i) \/ RecvDone(i)
  \/ \E i \in DOMAIN toR.sent : RecvOffer(i) \/ RecvChunk(i)
  \/ \E restart, low \in BOOLEAN :
       (low => restart)
       /\ \/ \E f \in File : Replace(f, restart, low)
          \/ \E kept \in SUBSET {i \in Index : rcv.have[i] # None} : Resume(kept, restart, low)
  \/ RebaseSender \/ RebaseReceiver

Spec == Init /\ [][Next]_vars

\* tokio polls the tasks and fires the timer; no frame that is sent for ever is
\* lost for ever.
FairSpec ==
  /\ Spec
  /\ WF_vars(SendChunk) /\ WF_vars(SendStrayChunk) /\ WF_vars(Tick)
  /\ SF_vars(\E i \in DOMAIN toS.sent : RecvRequest(i))
  /\ SF_vars(\E i \in DOMAIN toR.sent : toR.sent[i].file = snd.file /\ RecvOffer(i))
  /\ \A j \in Index :
       SF_vars(\E i \in DOMAIN toR.sent :
                 toR.sent[i].kind = "chunk" /\ toR.sent[i].index = j
                 /\ toR.sent[i].file = snd.file /\ RecvChunk(i))

-----------------------------------------------------------------------------
(* Properties.                                                             *)

\* Cores and frames are well formed: what serve_range sends are chunks of the file,
\* also for a request made for another file, and marks are of frames received.
TypeOK ==
  /\ snd \in [file : File, completed : {None} \cup BOOLEAN]
  /\ serving \in [file : File \cup {None}, next : Nat, end : Nat]
  /\ stray \in [file : File \cup {None}, next : Nat, end : Nat]
  /\ rcv \in [offer : File \cup {None}, have : [Index -> File \cup {None}],
              verified : {"unknown", "ok", "bad"}, outstanding : Nat \X Nat, dead : BOOLEAN]
  /\ toR \in Pipe(FrameToReceiver) /\ toR.mark <= Len(toR.sent) /\ toR.old <= Len(toR.sent)
  /\ toS \in Pipe(FrameToSender) /\ toS.mark <= Len(toS.sent) /\ toS.old <= Len(toS.sent)
  /\ rebase \subseteq {"sender", "receiver"} /\ whole \subseteq File
  /\ replaced \in Nat /\ resumed \in Nat

\* While a drop carries one file, whatever is lost, repeated, asked for twice or
\* resumed, no transfer of it fails verification and no receiver dies.
OneFileIntact == replaced = 0 => rcv.verified # "bad" /\ ~rcv.dead

\* A verdict is about the file that is offered now: a receiver that has one holds
\* every chunk of that file, and its verdict is right, also when offers changed
\* while chunks of an older one were under way.
VerdictCurrent ==
  rcv.verified # "unknown" =>
    /\ rcv.offer # None /\ Lacks(rcv) = {}
    /\ rcv.verified = "ok" <=> \A i \in Indexes(rcv.offer) : rcv.have[i] = rcv.offer

\* A sender's positive verdict is about its own file: a receiver has assembled
\* and verified it, although the drop may have changed files with a DONE on its way.
VerdictEarned == snd.completed = TRUE => snd.file \in whole

\* The sender's application offers until the offer is heard.
Offering == WF_vars(rcv.offer # snd.file /\ Offer)

\* Neither side keeps a watermark that the other one's new session does not reach.
LetIn == toR.wm # "shut" /\ toS.wm # "shut"

\* A receiver that waits for its first offer was opened with chunks of the file that
\* is offered, if any, and not with all of them.
SeedFits ==
  rcv.offer = None => /\ \A i \in Index : rcv.have[i] \in {None, snd.file}
                      /\ \E i \in Indexes(snd.file) : rcv.have[i] = None

\* The receiver comes to a verdict on the file that is offered in the end, and
\* does not die, whatever is lost on the way and whoever restarts: if the offers go
\* on, no restarted side stays below a watermark of its earlier session and a
\* resumed receiver has chunks of the right file to resume from and some to ask for.
\* (Without LetIn or SeedFits it fails, see README.)
VerdictReached ==
  Offering /\ <>[]LetIn /\ []SeedFits
    => <>[](rcv.offer = snd.file /\ rcv.verified # "unknown")
=============================================================================
