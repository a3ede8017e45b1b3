----------------------------- MODULE Federation ----------------------------
(***************************************************************************)
(* Links between hubs (federation.rs): a dialer that redials, the HELLO    *)
(* with the shared secret, and per end of a link an advertiser, a writer   *)
(* and a reader; the fan-out of locally sourced frames to the links.  What *)
(* the registry does with a frame on either side is in Registry.           *)
(*                                                                         *)
(* A connection delivers in order what is written until it is cut; each    *)
(* end notices that in its own time.                                       *)
(***************************************************************************)
EXTENDS Integers, Sequences, FiniteSets

CONSTANTS
  Hub, Band,
  Dials,        \* pairs <<dialer, listener>>, from HUB_FED_LINK
  Local,        \* Local[h]: bands that may have a peer at h
  QueueDepth,   \* depth of a link's queue
  PipeCap,      \* messages a connection holds before a write waits
  MaxConns,     \* bound on connections, of all dialers together
  MaxCuts,      \* bound on connections cut
  MaxFrames,    \* bound on frames from local peers
  MaxChanges,   \* bound on changes of the local bands
  None

Conn == 1 .. MaxConns
Frame == 1 .. MaxFrames

ASSUME FederationAssumption ==
  /\ Dials \subseteq Hub \X Hub /\ \A d \in Dials : d[1] # d[2]
  /\ \A h \in Hub : Local[h] \subseteq Band
  /\ QueueDepth \in Nat \ {0} /\ PipeCap \in Nat \ {0}
  /\ MaxConns \in Nat /\ MaxCuts \in Nat /\ MaxFrames \in Nat /\ MaxChanges \in Nat

Message == [kind : {"hello"}, secret : {1, 2}] \cup [kind : {"bands"}, bands : SUBSET Band]
           \cup [kind : {"relay"}, frame : Frame]

\* One end of a link; last is what the advertiser sent last.
LinkEnd == [st : {"hello", "up", "gone"}, active : BOOLEAN, bands : SUBSET Band,
            queue : Seq(Message), last : (SUBSET Band) \cup {None}, writer : BOOLEAN]

VARIABLES
  secret,   \* HUB_FED_SECRET of each hub
  admits,   \* inbound_active of each hub
  bands,    \* the registry's local_bands
  changes,  \* how often they have changed
  frames,   \* history: the frames forwarded, as [band, origin]
  egress,   \* frames on the way from the registry to fan_egress
  conn,     \* the connections dialed, as pairs
  cut,      \* connections that are broken
  link,     \* link[c][h]: h's end of connection c
  pipe,     \* pipe[c][h]: what h has written and the other end has not read
  injected  \* history: how often each frame was injected at each hub

vars == <<secret, admits, bands, changes, frames, egress, conn, cut, link, pipe, injected>>

Ends(c) == {conn[c][1], conn[c][2]}
Other(c, h) == IF h = conn[c][1] THEN conn[c][2] ELSE conn[c][1]

\* An end in the making; a live one is in the hub's LinkSet.
NewEnd == [st |-> "hello", active |-> FALSE, bands |-> {}, queue |-> <<>>, last |-> None,
           writer |-> FALSE]
Gone == [NewEnd EXCEPT !.st = "gone"]

Up(c, h) == link[c][h].st = "up"

Init ==
  /\ secret \in [Hub -> {1, 2}] /\ \E h \in Hub : secret[h] = 1
  /\ admits \in [Hub -> BOOLEAN]
  /\ bands = [h \in Hub |-> {}] /\ changes = 0
  /\ frames = <<>> /\ egress = [h \in Hub |-> <<>>]
  /\ conn = <<>> /\ cut = {}
  /\ link = [c \in Conn |-> [h \in Hub |-> Gone]]
  /\ pipe = [c \in Conn |-> [h \in Hub |-> <<>>]]
  /\ injected = [f \in Frame |-> [h \in Hub |-> 0]]

-----------------------------------------------------------------------------
(* The registry: bands come and go, local peers send.                      *)

BandChange(h, b) ==
  /\ changes < MaxChanges /\ b \in Local[h]
  /\ changes' = changes + 1
  /\ bands' = [bands EXCEPT ![h] = IF b \in @ THEN @ \ {b} ELSE @ \cup {b}]
  /\ UNCHANGED <<secret, admits, frames, egress, conn, cut, link, pipe, injected>>

\* Registry::forward offers a frame to the egress queue.
Forward(h, b) ==
  /\ Len(frames) < MaxFrames /\ b \in bands[h]
  /\ frames' = Append(frames, [band |-> b, origin |-> h])
  /\ egress' = [egress EXCEPT ![h] = Append(@, Len(frames) + 1)]
  /\ UNCHANGED <<secret, admits, bands, changes, conn, cut, link, pipe, injected>>

\* try_send: what does not fit is dropped.
TrySend(e, m) ==
  IF e.writer /\ Len(e.queue) < QueueDepth THEN [e EXCEPT !.queue = Append(@, m)] ELSE e

\* Fault: revoked links are served too.
WantsAll(e, b) == e.st = "up" /\ b \in e.bands

\* fan_egress sends to active links that advertised the band.
Wants(e, b) == e.st = "up" /\ e.active /\ b \in e.bands

FanEgress(h) ==
  /\ egress[h] # <<>>
  /\ LET f == Head(egress[h]) IN
     link' = [c \in Conn |-> [link[c] EXCEPT ![h] =
                IF Wants(@, frames[f].band) THEN TrySend(@, [kind |-> "relay", frame |-> f]) ELSE @]]
  /\ egress' = [egress EXCEPT ![h] = Tail(@)]
  /\ UNCHANGED <<secret, admits, bands, changes, frames, conn, cut, pipe, injected>>

-----------------------------------------------------------------------------
(* Connecting.                                                             *)

Idle(d) == \A c \in DOMAIN conn : conn[c] = d => link[c][d[1]].st = "gone"

\* The supervised dialer connects once its last link has ended; the listener
\* accepts, and both ends write their HELLO first.
Dial(d) ==
  LET c == Len(conn) + 1 IN
  /\ Len(conn) < MaxConns /\ Idle(d)
  /\ conn' = Append(conn, d)
  /\ link' = [link EXCEPT ![c] = [h \in Hub |-> IF h \in {d[1], d[2]} THEN NewEnd ELSE Gone]]
  /\ pipe' = [pipe EXCEPT ![c] = [h \in Hub |-> IF h \in {d[1], d[2]}
                                   THEN <<[kind |-> "hello", secret |-> secret[h]]>> ELSE <<>>]]
  /\ UNCHANGED <<secret, admits, bands, changes, frames, egress, cut, injected>>

Authentic(h, m) == m.kind = "hello" /\ m.secret = secret[h]

\* The other end's HELLO: with the right secret the end joins the LinkSet,
\* active if we dialed or if inbound links are; otherwise it is closed.
RecvHello(c, h) ==
  LET o == Other(c, h) IN
  /\ link[c][h].st = "hello" /\ pipe[c][o] # <<>>
  /\ pipe' = [pipe EXCEPT ![c][o] = Tail(@)]
  /\ link' = [link EXCEPT ![c][h] =
       IF Authentic(h, Head(pipe[c][o]))
       THEN [NewEnd EXCEPT !.st = "up", !.writer = TRUE, !.active = (h = conn[c][1] \/ admits[h])]
       ELSE Gone]
  /\ UNCHANGED <<secret, admits, bands, changes, frames, egress, conn, cut, injected>>

Cut(c) ==
  /\ Cardinality(cut) < MaxCuts /\ c \notin cut /\ \E h \in Ends(c) : link[c][h].st # "gone"
  /\ cut' = cut \cup {c}
  /\ UNCHANGED <<secret, admits, bands, changes, frames, egress, conn, link, pipe, injected>>

\* Nothing more will come from the other end.
Closed(c, h) == c \in cut \/ link[c][Other(c, h)].st = "gone"

\* A read fails, possibly before everything written was read: the end leaves the
\* LinkSet and its writer is stopped.
ReadFails(c, h) ==
  /\ link[c][h].st # "gone" /\ Closed(c, h)
  /\ c \in cut \/ pipe[c][Other(c, h)] = <<>>
  /\ link' = [link EXCEPT ![c][h] = Gone]
  /\ pipe' = [pipe EXCEPT ![c][Other(c, h)] = <<>>]
  /\ UNCHANGED <<secret, admits, bands, changes, frames, egress, conn, cut, injected>>

-----------------------------------------------------------------------------
(* An open link: advertiser, writer, reader.                               *)

\* Fault: bands are advertised only when they change.
AdvertiseChange(c, h) ==
  /\ Up(c, h) /\ link[c][h].writer /\ link[c][h].last # bands[h]
  /\ link' = [link EXCEPT ![c][h] =
       [TrySend(@, [kind |-> "bands", bands |-> bands[h]]) EXCEPT !.last = bands[h]]]
  /\ UNCHANGED <<secret, admits, bands, changes, frames, egress, conn, cut, pipe, injected>>

\* The advertiser's poll finds a change, or the keepalive is due.  The set counts
\* as sent even if the queue had no room for it.
Advertise(c, h) ==
  /\ Up(c, h) /\ link[c][h].writer
  /\ link' = [link EXCEPT ![c][h] =
       [TrySend(@, [kind |-> "bands", bands |-> bands[h]]) EXCEPT !.last = bands[h]]]
  /\ UNCHANGED <<secret, admits, bands, changes, frames, egress, conn, cut, pipe, injected>>

\* The writer writes, waiting while the connection is full.
WriterWrites(c, h) ==
  /\ Up(c, h) /\ link[c][h].writer /\ link[c][h].queue # <<>> /\ ~Closed(c, h)
  /\ Len(pipe[c][h]) < PipeCap
  /\ pipe' = [pipe EXCEPT ![c][h] = Append(@, Head(link[c][h].queue))]
  /\ link' = [link EXCEPT ![c][h].queue = Tail(@)]
  /\ UNCHANGED <<secret, admits, bands, changes, frames, egress, conn, cut, injected>>

\* A write fails: the writer ends, and with it the advertiser.  The reader and the
\* entry in the LinkSet stay until a read fails.
WriterFails(c, h) ==
  /\ Up(c, h) /\ link[c][h].writer /\ link[c][h].queue # <<>> /\ Closed(c, h)
  /\ link' = [link EXCEPT ![c][h].writer = FALSE, ![c][h].queue = <<>>]
  /\ UNCHANGED <<secret, admits, bands, changes, frames, egress, conn, cut, pipe, injected>>

RecvBands(c, h) ==
  LET o == Other(c, h) IN
  /\ Up(c, h) /\ pipe[c][o] # <<>> /\ Head(pipe[c][o]).kind = "bands"
  /\ pipe' = [pipe EXCEPT ![c][o] = Tail(@)]
  /\ link' = [link EXCEPT ![c][h].bands = Head(pipe[c][o]).bands]
  /\ UNCHANGED <<secret, admits, bands, changes, frames, egress, conn, cut, injected>>

\* Fault: a frame from a link goes to the other links too.
RecvRelayOnward(c, h) ==
  LET o == Other(c, h)  f == Head(pipe[c][o]).frame IN
  /\ Up(c, h) /\ pipe[c][o] # <<>> /\ Head(pipe[c][o]).kind = "relay"
  /\ pipe' = [pipe EXCEPT ![c][o] = Tail(@)]
  /\ injected' = IF link[c][h].active /\ frames[f].band \in bands[h] /\ injected[f][h] < 2
                 THEN [injected EXCEPT ![f][h] = @ + 1] ELSE injected
  /\ egress' = IF Len(egress[h]) < 2 THEN [egress EXCEPT ![h] = Append(@, f)] ELSE egress
  /\ UNCHANGED <<secret, admits, bands, changes, frames, conn, cut, link>>

\* RELAY: over an active link the frame is injected, to local peers only.
RecvRelay(c, h) ==
  LET o == Other(c, h)  f == Head(pipe[c][o]).frame IN
  /\ Up(c, h) /\ pipe[c][o] # <<>> /\ Head(pipe[c][o]).kind = "relay"
  /\ pipe' = [pipe EXCEPT ![c][o] = Tail(@)]
  /\ injected' = IF link[c][h].active /\ frames[f].band \in bands[h]
                 THEN [injected EXCEPT ![f][h] = @ + 1] ELSE injected
  /\ UNCHANGED <<secret, admits, bands, changes, frames, egress, conn, cut, link>>

EndStep(c, h) ==
  \/ RecvHello(c, h) \/ ReadFails(c, h) \/ RecvBands(c, h) \/ RecvRelay(c, h)

Next ==
  \/ \E h \in Hub : FanEgress(h) \/ \E b \in Band : BandChange(h, b) \/ Forward(h, b)
  \/ \E d \in Dials : Dial(d)
  \/ \E c \in DOMAIN conn :
       \/ Cut(c)
       \/ \E h \in Ends(c) : \/ EndStep(c, h) \/ Advertise(c, h)
                             \/ WriterWrites(c, h) \/ WriterFails(c, h)

Spec == Init /\ [][Next]_vars

\* tokio polls every task and fires every timer, and a read of a connection that
\* is cut fails in the end; connections need not be cut and peers need not send.
FairSpec ==
  /\ Spec
  /\ \A d \in Dials : WF_vars(Dial(d))
  /\ \A h \in Hub : WF_vars(FanEgress(h))
  /\ \A c \in Conn, h \in Hub :
       /\ WF_vars(c \in DOMAIN conn /\ h \in Ends(c) /\ EndStep(c, h))
       /\ WF_vars(c \in DOMAIN conn /\ h \in Ends(c) /\ Advertise(c, h))
       /\ WF_vars(c \in DOMAIN conn /\ h \in Ends(c) /\ (WriterWrites(c, h) \/ WriterFails(c, h)))

-----------------------------------------------------------------------------
(* Properties.                                                             *)

\* Ends, queues and connections are well formed, and neither adverts nor relayed
\* frames take a link's queue past its depth (try_send, with_capacity).
TypeOK ==
  /\ secret \in [Hub -> {1, 2}] /\ admits \in [Hub -> BOOLEAN]
  /\ bands \in [Hub -> SUBSET Band] /\ changes \in Nat
  /\ frames \in Seq([band : Band, origin : Hub]) /\ Len(frames) <= MaxFrames
  /\ egress \in [Hub -> Seq(Frame)]
  /\ conn \in Seq(Dials) /\ Len(conn) <= MaxConns /\ cut \subseteq DOMAIN conn
  /\ link \in [Conn -> [Hub -> LinkEnd]] /\ pipe \in [Conn -> [Hub -> Seq(Message)]]
  /\ \A c \in Conn, h \in Hub :
       Len(link[c][h].queue) <= QueueDepth /\ Len(pipe[c][h]) <= PipeCap
  /\ injected \in [Frame -> [Hub -> Nat]]

\* "One hop": however often links break, overlap and are dialed again, and
\* whatever is still under way on an old one, a frame from a local peer is injected
\* at most once at each other hub, and never where it came from.
InjectedOnce ==
  \A f \in Frame : \A h \in Hub :
    /\ injected[f][h] <= 1
    /\ injected[f][h] > 0 => h # frames[f].origin

\* "Default-revoked": a frame crosses between hubs only if they share the secret
\* and the one that listens has its inbound links enabled, whichever of the two
\* sent it.
RelayAuthorised ==
  \A f \in DOMAIN frames : \A h \in Hub : injected[f][h] > 0 =>
    /\ secret[h] = secret[frames[f].origin]
    /\ \E d \in Dials : {d[1], d[2]} = {h, frames[f].origin} /\ admits[d[2]]

\* A pair of hubs with one secret is linked in the end by exactly one connection,
\* dead ends are gone from both LinkSets, and each knows the other's bands, also
\* when advertisements were dropped at a full queue.  (Connections are cut, and
\* bands change, only so often.)
Linked(d) ==
  /\ \E c \in DOMAIN conn :
       /\ conn[c] = d /\ Up(c, d[1]) /\ Up(c, d[2])
       /\ link[c][d[1]].bands = bands[d[2]] /\ link[c][d[2]].bands = bands[d[1]]
  /\ \A h \in {d[1], d[2]} : Cardinality({c \in DOMAIN conn : conn[c] = d /\ Up(c, h)}) = 1

LinksHeal == \A d \in Dials : secret[d[1]] = secret[d[2]] => <>[]Linked(d)
=============================================================================
