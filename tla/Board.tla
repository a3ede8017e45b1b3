------------------------------- MODULE Board -------------------------------
(***************************************************************************)
(* A board: a last-writer-wins map replicated among the peers of a band    *)
(* (board.rs).  Local writes are sent once to every destination; what gets *)
(* lost is repaired by digests, sync requests and snapshots.               *)
(*                                                                         *)
(* Each endpoint has the application, which writes and probes, and the     *)
(* board task, which merges what arrives and answers.  A write is made     *)
(* under the lock of the core and announced and sent after it, so the      *)
(* board task may have merged something newer in between.                  *)
(***************************************************************************)
EXTENDS Integers, Sequences, FiniteSets, FiniteSetsExt

CONSTANTS
  Node,         \* endpoints; a node's number orders its hostname, the actor
  Key,
  Peers,        \* Peers[p]: the destinations p's application has in the end
  MaxWrites,    \* bound on local writes, of all endpoints together
  Movers,       \* who may lose a destination
  Pushers,      \* who may send its board unasked
  Deleters,     \* who may delete
  Restarters,   \* who may be opened anew
  MaxRestarts,  \* bound on endpoints opened anew
  NetCap,       \* bound on the frames from one endpoint to another
  None

ASSUME NodeAssumption == Node \subseteq Nat /\ \A p \in Node : Peers[p] \subseteq Node \ {p}
ASSUME KeyAssumption == IsFiniteSet(Key)
ASSUME BoardBounds == MaxWrites \in Nat /\ MaxRestarts \in Nat /\ NetCap \in Nat \ {0}

\* A value is known by the number of the write that made it.
Entry == [value : Nat, lamport : Nat, actor : Node, deleted : BOOLEAN]

Map == [Key -> Entry \cup {None}]
Stamp == [lamport : Nat, actor : Node, deleted : BOOLEAN]

Frame == [kind : {"set", "snapshot"}, entries : Map]
         \cup [kind : {"digest"}, digest : [Key -> Stamp \cup {None}]]
         \cup [kind : {"sync_req"}]

\* The last frames of one endpoint to another, how many of them are at or below the
\* receiver's watermark and how many are of an earlier session of the sender; and
\* whether the receiver has a watermark that lets the present session through.
Pipe == [sent : Seq(Frame), mark : Nat, old : Nat, wm : {"none", "open", "shut"}]
NewPipe == [sent |-> <<>>, mark |-> 0, old |-> 0, wm |-> "none"]

\* An application's call before its sends.
Call == [frame : [kind : {"set"}, entries : Map], to : SUBSET Node, change : SUBSET (Key \X Entry)]

ASSUME NoneAssumption == None \notin Entry \cup Stamp \cup Frame \cup Call

VARIABLES
  core,     \* BoardCore of each endpoint: entries and Lamport clock
  dests,    \* the destinations of each endpoint
  app,      \* the application's call between the lock and its sends
  net,      \* net[p][q]: the last frames p sent to q, and q's watermark for p
  rebase,   \* rebase[q]: peers whose restart q's board task has yet to notice
  told,     \* change events of each endpoint, as the entries they announce
  writes,   \* history: every write, <<key, entry>>
  restarts  \* history: how often an endpoint was opened anew

vars == <<core, dests, app, net, rebase, told, writes, restarts>>

Empty == [k \in Key |-> None]
FreshCore == [entries |-> Empty, lamport |-> 0]

Init ==
  /\ core = [p \in Node |-> FreshCore]
  /\ dests = [p \in Node |-> {}]
  /\ app = [p \in Node |-> None]
  /\ net = [p \in Node |-> [q \in Node |-> NewPipe]]
  /\ rebase = [p \in Node |-> {}]
  /\ told = [p \in Node |-> {}]
  /\ writes = {}
  /\ restarts = 0

-----------------------------------------------------------------------------
(* BoardCore.                                                              *)

\* BoardEntry::ts, compared as tuples.
Newer(e, d) == e.lamport > d.lamport \/ (e.lamport = d.lamport /\ e.actor > d.actor)

\* merge_entry's test.
Wins(c, k, e) == e # None /\ (c.entries[k] = None \/ Newer(e, c.entries[k]))

Won(c, es) == {k \in Key : Wins(c, k, es[k])}

\* Fault: the clock does not follow the entries merged.
MergeClockKept(c, es) ==
  [c EXCEPT !.entries = [k \in Key |-> IF k \in Won(c, es) THEN es[k] ELSE @[k]]]

\* merge_entry for each of some entries: the clock advances even for the ones
\* that lose.
Merge(c, es) ==
  [entries |-> [k \in Key |-> IF k \in Won(c, es) THEN es[k] ELSE c.entries[k]],
   lamport |-> Max({c.lamport} \cup {es[k].lamport : k \in {j \in Key : es[j] # None}})]

\* Fault: the actor is left out too.
DigestByClock(c) ==
  [k \in Key |-> IF c.entries[k] = None THEN None
                 ELSE [lamport |-> c.entries[k].lamport, actor |-> Min(Node),
                       deleted |-> c.entries[k].deleted]]

\* digest(): per key the stamp and the tombstone flag, the value left out.
Digest(c) ==
  [k \in Key |-> IF c.entries[k] = None THEN None
                 ELSE [lamport |-> c.entries[k].lamport, actor |-> c.entries[k].actor,
                       deleted |-> c.entries[k].deleted]]

\* set() and delete(): a tombstone is an entry like any other.
Written(p, deleted) ==
  [value |-> IF deleted THEN 0 ELSE Cardinality(writes) + 1,
   lamport |-> core[p].lamport + 1, actor |-> p, deleted |-> deleted]

-----------------------------------------------------------------------------
(* The network.                                                            *)

\* Frames that are skipped are lost for good, as long as the watermark stands:
\* it drops what was overtaken.  Frames at or below it may arrive once more.
Push(n, f) ==
  IF Len(n.sent) < NetCap THEN [n EXCEPT !.sent = Append(@, f)]
  ELSE [n EXCEPT !.sent = Append(Tail(@), f), !.mark = IF @ = 0 THEN 0 ELSE @ - 1,
                 !.old = IF @ = 0 THEN 0 ELSE @ - 1]

\* The sender starts a session: what it sent before can only be what the receiver
\* has already queued, and its sequence numbers start anew at a random one, which
\* may lie below a watermark of the session before.
NewSession(n, low) ==
  [n EXCEPT !.old = Len(n.sent), !.wm = IF @ = "none" THEN "none" ELSE IF low THEN "shut" ELSE "open"]

\* A receiver that has no watermark.  A frame of the session before does not come
\* after one of the present.
Unmarked(n) == [n EXCEPT !.mark = IF n.wm = "open" /\ n.mark > n.old THEN n.old ELSE 0, !.wm = "none"]

\* Frame i raises the watermark.  One of the session before may raise it above all
\* that the present session will send.
Taken(n, i, low) == [n EXCEPT !.mark = i, !.wm = IF low THEN "shut" ELSE "open"]

-----------------------------------------------------------------------------
(* The application.                                                        *)

AddDestination(p, q) ==
  /\ dests' = [dests EXCEPT ![p] = @ \cup {q}]
  /\ UNCHANGED <<core, app, net, rebase, told, writes, restarts>>

RemoveDestination(p, q) ==
  /\ p \in Movers
  /\ dests' = [dests EXCEPT ![p] = @ \ {q}]
  /\ UNCHANGED <<core, app, net, rebase, told, writes, restarts>>

\* BoardEndpoint::set and delete, under the lock.
Write(p, k, deleted) ==
  LET e == Written(p, deleted) IN
  /\ app[p] = None /\ Cardinality(writes) < MaxWrites /\ (deleted => p \in Deleters)
  /\ core' = [core EXCEPT ![p] = [entries |-> [@.entries EXCEPT ![k] = e],
                                  lamport |-> e.lamport]]
  /\ app' = [app EXCEPT ![p] = [frame |-> [kind |-> "set", entries |-> [Empty EXCEPT ![k] = e]],
                                to |-> dests[p], change |-> {<<k, e>>}]]
  /\ writes' = writes \cup {<<k, e>>}
  /\ UNCHANGED <<dests, net, rebase, told, restarts>>

SendAll(p, to, f) ==
  net' = [net EXCEPT ![p] = [q \in Node |-> IF q \in to THEN Push(@[q], f) ELSE @[q]]]

\* send_digest, to one peer or to every destination.  Between the lock and the
\* sends nothing is done but the sends: a late digest is one the network holds.
SendDigest(p, to) ==
  /\ app[p] = None /\ to # {}
  /\ SendAll(p, to, [kind |-> "digest", digest |-> Digest(core[p])])
  /\ UNCHANGED <<core, dests, app, rebase, told, writes, restarts>>

\* send_snapshot, which nobody asked for.
SendSnapshot(p, q) ==
  /\ p \in Pushers /\ app[p] = None
  /\ SendAll(p, {q}, [kind |-> "snapshot", entries |-> core[p].entries])
  /\ UNCHANGED <<core, dests, app, rebase, told, writes, restarts>>

\* The rest of the call: the change event, then the sends.  A send that fails
\* ends the call; the frames not sent are like lost ones.
AppSends(p) ==
  /\ app[p] # None
  /\ told' = [told EXCEPT ![p] = @ \cup app[p].change]
  /\ SendAll(p, app[p].to, app[p].frame)
  /\ app' = [app EXCEPT ![p] = None]
  /\ UNCHANGED <<core, dests, rebase, writes, restarts>>

\* An empty board with its clock at zero, for the same actor.
Emptied(p) ==
  /\ p \in Restarters /\ restarts < MaxRestarts
  /\ restarts' = restarts + 1
  /\ core' = [core EXCEPT ![p] = FreshCore]
  /\ dests' = [dests EXCEPT ![p] = {}]
  /\ app' = [app EXCEPT ![p] = None]
  /\ told' = [told EXCEPT ![p] = {}]
  /\ UNCHANGED writes

\* A second open of the hub: a new board task under the same Band.  The peers are
\* not told, and the sequence numbers go on.
Reopen(p) ==
  /\ Emptied(p)
  /\ net' = [q \in Node |-> [net[q] EXCEPT ![p] = Unmarked(@)]]
  /\ rebase' = [rebase EXCEPT ![p] = {}]

\* The endpoint is opened anew with its Band.  The peers in low have a watermark
\* that its new sequence numbers do not reach; all are told by its HELLO, each in
\* its own time (a signal lost to Lagged is one that is never handled).
Restart(p, low) ==
  /\ Emptied(p)
  /\ net' = [q \in Node |-> IF q = p THEN [r \in Node |-> NewSession(net[p][r], r \in low)]
                             ELSE [net[q] EXCEPT ![p] = Unmarked(@)]]
  /\ rebase' = [q \in Node |-> IF q = p THEN {} ELSE rebase[q] \cup {p}]

-----------------------------------------------------------------------------
(* The board task.                                                         *)

\* The watermark of a restarted peer is dropped.
Rebase(q, p) ==
  /\ p \in rebase[q]
  /\ rebase' = [rebase EXCEPT ![q] = @ \ {p}]
  /\ net' = [net EXCEPT ![p][q] = Unmarked(@)]
  /\ UNCHANGED <<core, dests, app, told, writes, restarts>>

\* A frame of p above the watermark arrives at q.
Above(q, p, i, kinds) ==
  LET n == net[p][q] IN
  i > n.mark /\ (n.wm = "shut" => i <= n.old) /\ n.sent[i].kind \in kinds

\* The watermark moves, and the answer, if there is one, is sent.
Accepted(q, p, i, answer) ==
  \E low \in {FALSE, i <= net[p][q].old} :
    LET n == [net EXCEPT ![p][q] = Taken(@, i, low)] IN
    net' = IF answer = None THEN n ELSE [n EXCEPT ![q][p] = Push(@, answer)]

\* Fault: only a SET is announced.
RecvEntriesQuiet(q, p, i) ==
  LET es == net[p][q].sent[i].entries IN
  /\ Above(q, p, i, {"set", "snapshot"})
  /\ Accepted(q, p, i, None)
  /\ core' = [core EXCEPT ![q] = Merge(@, es)]
  /\ told' = IF net[p][q].sent[i].kind = "snapshot" THEN told
             ELSE [told EXCEPT ![q] = @ \cup {<<k, es[k]>> : k \in Won(core[q], es)}]
  /\ UNCHANGED <<dests, app, rebase, writes, restarts>>

\* TYPE_SET and TYPE_SNAPSHOT.
RecvEntries(q, p, i) ==
  LET es == net[p][q].sent[i].entries IN
  /\ Above(q, p, i, {"set", "snapshot"})
  /\ Accepted(q, p, i, None)
  /\ core' = [core EXCEPT ![q] = Merge(@, es)]
  /\ told' = [told EXCEPT ![q] = @ \cup {<<k, es[k]>> : k \in Won(core[q], es)}]
  /\ UNCHANGED <<dests, app, rebase, writes, restarts>>

\* Fault: a digest of as many entries counts as equal.
DiffersInCount(q, d) ==
  Cardinality({k \in Key : d[k] # None}) # Cardinality({k \in Key : core[q].entries[k] # None})

Differs(q, d) == d # Digest(core[q])

\* TYPE_DIGEST: whoever differs asks for the sender's board.
RecvDigest(q, p, i) ==
  /\ Above(q, p, i, {"digest"})
  /\ Accepted(q, p, i, IF Differs(q, net[p][q].sent[i].digest) THEN [kind |-> "sync_req"] ELSE None)
  /\ UNCHANGED <<core, dests, app, rebase, told, writes, restarts>>

\* TYPE_SYNC_REQ.
RecvSyncReq(q, p, i) ==
  /\ Above(q, p, i, {"sync_req"})
  /\ Accepted(q, p, i, [kind |-> "snapshot", entries |-> core[q].entries])
  /\ UNCHANGED <<core, dests, app, rebase, told, writes, restarts>>

Recv(q, p, i) == RecvEntries(q, p, i) \/ RecvDigest(q, p, i) \/ RecvSyncReq(q, p, i)

Next ==
  \E p \in Node :
    \/ \E q \in Peers[p] : \/ AddDestination(p, q) \/ RemoveDestination(p, q)
                            \/ SendDigest(p, {q}) \/ SendSnapshot(p, q)
    \/ \E k \in Key, d \in BOOLEAN : Write(p, k, d)
    \/ SendDigest(p, dests[p]) \/ AppSends(p)
    \/ Reopen(p) \/ \E low \in SUBSET {q \in Node : net[p][q].wm # "none"} : Restart(p, low)
    \/ \E q \in Node : Rebase(p, q) \/ \E i \in DOMAIN net[q][p].sent : Recv(p, q, i)

Spec == Init /\ [][Next]_vars

RecvKind(q, p, kind) ==
  \E i \in DOMAIN net[p][q].sent : Above(q, p, i, {kind}) /\ Recv(q, p, i)

\* tokio polls every ready task, and the network does not lose a kind of frame for
\* ever that is sent to a peer for ever.  SETs, which are sent once, may all be lost.
FairSpec ==
  /\ Spec
  /\ \A p \in Node : WF_vars(AppSends(p))
  /\ \A p, q \in Node : \A kind \in {"digest", "sync_req", "snapshot"} :
       (q \in Peers[p] \/ p \in Peers[q]) => SF_vars(RecvKind(q, p, kind))

-----------------------------------------------------------------------------
(* Properties.                                                             *)

\* Cores, frames and queues are well formed, and a board task's watermark, moved
\* by every accepted frame and dropped on a restart, is that of a frame received.
TypeOK ==
  /\ core \in [Node -> [entries : Map, lamport : Nat]]
  /\ dests \in [Node -> SUBSET Node]
  /\ app \in [Node -> Call \cup {None}]
  /\ net \in [Node -> [Node -> Pipe]]
  /\ \A p, q \in Node : net[p][q].mark <= Len(net[p][q].sent) /\ net[p][q].old <= Len(net[p][q].sent)
  /\ rebase \in [Node -> SUBSET Node]
  /\ told \in [Node -> SUBSET (Key \X Entry)]
  /\ writes \subseteq Key \X Entry /\ restarts \in Nat

\* A restarted writer may issue a stamp a second time.
Reused(k, e) ==
  Cardinality({w \in writes : w[1] = k /\ w[2].lamport = e.lamport /\ w[2].actor = e.actor}) > 1

\* What the digest leaves out is not missed: "(lamport, actor) uniquely versions
\* an entry", so boards of equal digest hold the same values; and they hold only
\* what was written under that stamp.  Only a stamp issued twice is excepted.
DigestSound ==
  \A p, q \in Node : \A k \in Key :
    LET e == core[p].entries[k] IN
    e # None => /\ <<k, e>> \in writes
                /\ Digest(core[p])[k] = Digest(core[q])[k] /\ ~Reused(k, e)
                     => core[q].entries[k] = e

\* No step takes a key back to an earlier version, in particular no delete is
\* undone: set and delete overwrite without comparing and rely on the clock being
\* ahead of every entry, whatever was merged or refused before.
NeverBackwards ==
  [][\A p \in Node : \A k \in Key :
       core[p].entries[k] # None /\ core'[p].entries[k] # core[p].entries[k]
       /\ restarts' = restarts
       => core'[p].entries[k] # None /\ Newer(core'[p].entries[k], core[p].entries[k])]_vars

\* Every version a board holds has been announced as a change event, or is about
\* to be by the call that wrote it, also when it came in a snapshot.
ChangesTold ==
  \A p \in Node : \A k \in Key :
    core[p].entries[k] # None =>
      \/ <<k, core[p].entries[k]>> \in told[p]
      \/ app[p] # None /\ <<k, core[p].entries[k]>> \in app[p].change

Latest(k) ==
  {w \in writes : w[1] = k /\ \A v \in writes : v[1] = k => ~Newer(v[2], w[2])}

\* The (lamport, actor) a board holds for a key.
Version(p, k) ==
  LET e == core[p].entries[k] IN IF e = None THEN None ELSE [lamport |-> e.lamport, actor |-> e.actor]

Converged ==
  \A k \in Key : \A p, q \in Node :
    /\ Version(p, k) = Version(q, k)
    /\ restarts = 0 => core[p].entries[k] = None \/ <<k, core[p].entries[k]>> \in Latest(k)

\* The applications go on probing their destinations, as DIGEST_INTERVAL suggests.
Probing == \A p \in Node : WF_vars(SendDigest(p, dests[p]))

\* No watermark of an earlier session keeps out what its peer sends now.
LetIn == \A p, q \in Node : net[p][q].wm # "shut"

\* Anti-entropy repairs whatever is lost, also what a restart forgot: if the
\* applications go on probing, every endpoint has its destinations in the end and
\* no restarted peer stays below a watermark of its earlier session, then all
\* boards come to hold the same version of every key and keep it, and unless
\* somebody restarted it is the last write.  (Without LetIn it fails, see README.)
Convergence ==
  Probing /\ <>[](\A p \in Node : dests[p] = Peers[p]) /\ <>[]LetIn => <>[]Converged
=============================================================================
