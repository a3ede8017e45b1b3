# Telesthete in TLA+

Telesthete is a UDP protocol for encrypted, multi-channel traffic between the
peers of a *band*, with a relay hub for peers that cannot reach each other. This
directory models the Rust implementation (`rust/telesthete`, the endpoint
library, `rust/telesthitium`, the hub, and `src`, the older Rook transport),
model-checks it with TLC on small instances and proves the safety properties for
every size with TLAPS.

    tlc -workers 2 -config RegistryRebind.cfg MCRegistry
    tlapm RegistryProofs.tla

`PROJECT.json` maps every definition to the source lines it translates, and
lists the runs, the mutants that show each property can fail, the hazards, the
findings and the theorems.

## Inventory

### The hub (`rust/telesthitium/src`)

| Component | State | Operations | Correct when |
|---|---|---|---|
| Registry (`registry.rs`) | band -> peer -> entry (sink, first/last seen, eligibility, packets seen, route id); byte budget | `connect`, `observe_udp`, `touch`, `forward`, `inject_from_link`, `disconnect`, `prune` | no frame leaves its band, echoes, or is federated twice; caps hold; route ids follow a NAT rebind and never black-hole traffic; the byte budget is exact |
| UDP (`udp.rs`) | socket, one queue and writer task per validated source | receive loop, writer | queued bytes are refunded exactly once |
| Connections (`ws.rs`, `wt.rs`, `unix.rs`) | per connection: band, queue, tasks; for WebTransport the open egress streams | admission, ingress, writer, close | registered exactly while open |
| Federation (`federation.rs`) | `LinkSet`: per link the bands the remote advertises, active flag, queue; egress queue | supervised dialer, listener, HELLO, advertiser, writer, reader, `fan_egress` | only authenticated, admitted links relay; one hop; a broken link heals |
| Configuration, TLS, `main` | none at run time | start-up | - |

### The endpoint library (`rust/telesthete/src`)

| Component | State | Operations | Correct when |
|---|---|---|---|
| Channel (`channel.rs`) | `ChannelCore`: state, send/receive sequence numbers, unacked, queue, reorder buffer, windows, retries | `connect`, `send_message`, `close`, `on_frame`, `on_timeout`; connection task; hub with replay watermark | reliable, ordered, never stuck without a timer, EOF last |
| Fragmentation (`wire/fragment.rs`) | partial messages, byte budget, evicted ids | `feed`, `gc` | each message delivered once, whole, within budget |
| Transport and keys (`transport.rs`, `crypto.rs`, `framing.rs`) | sequence counter, per-peer send/receive keys, last seen | `send`, receive loop, `forget_peer` | no sequence reuse under a key; old-session packets refused |
| Control (`control.rs`) | per peer: epoch, watermark; peer registry | HELLO, HELLO_ACK, KEEPALIVE, GOODBYE | restarts are accepted, replays are not, suites agree |
| Band (`band.rs`) | peers, keepalive task | `connect_peer`, keepalive/evict | dead peers go, live ones stay |
| Streams (`stream.rs`) | watermark per peer and stream | `send`, receive, rebase | newest-only, never wedged by a restart |
| Board (`board.rs`) | `BoardCore`: last-writer-wins map, Lamport clock; destinations | `set`, `delete`, `send_digest`, `send_snapshot`; SET, DIGEST, SYNC_REQ, SNAPSHOT | versions never go back, every one is announced, replicas converge |
| Drop (`drop_channel.rs`) | sender: file, verdict of the receiver; receiver: offer, chunks, outstanding window, verdict | OFFER, REQUEST, CHUNK, DONE, `tick`, resume | the file completes and is the one offered |
| Discovery, AF_UNIX endpoint, C bindings | bounded seen set; descriptors; none | - | - |

### The Rook transport (`src`)

| Component | State | Operations | Correct when |
|---|---|---|---|
| Session (`conn.rs`, `wire.rs`, `crypto.rs`) | `Conn`: TCP and UDP socket, keys, sequence number, newest sequence per window, fragment sets, times of last receive, send and ping | `client_connect`, `host_accept`, `send`, `poll`, keepalive | latest wins per window; a dead peer is noticed, a live one is kept |
| PSK file, C interface | none | - | - |

The repository also holds a Python reference implementation (`telesthete/`) and
examples.

### How they interact

An endpoint's receive loop opens a packet under the peer's session key or the
base key and hands it to the hub of its channel type over an unbounded queue:
control, stream, channel, board and drop each run one task. The control task
owns the epochs, registers keys in the transport (shared maps behind locks) and
broadcasts "this peer restarted" to the other hubs. The keepalive task reads the
peer registry and the transport's last-seen map and evicts. Packets go directly
to a peer or through the relay, which sees only the cleartext header.

In the relay one task reads the UDP socket, each connection has its ingress and
writer tasks, each UDP peer its writer, and a timer prunes. All share the
registry behind one lock; frames cross queues that drop when full. Frames of
local peers also go to one federation task, which copies them to the queues of
the links; a frame read from a link is injected into the registry of the other
hub, for its local peers only.

A Rook session is two single-threaded loops that share nothing but a TCP
connection and a pair of UDP sockets: `send` and `poll` are called in turn, and
writing waits (spins) while the connection is full.

### What is hard here

* The relay collects sinks under its lock and sends after releasing it, so
  evictions, disconnects, re-admissions and other forwards fall in between; the
  byte budget is charged before and refunded after.
* A UDP peer whose NAT mapping moves appears as a second peer with the same
  route id, while two live peers may legitimately share an address and an id.
* The Channel's peers run over a network that loses, duplicates and reorders,
  below a hub watermark that turns every overtaken packet into a lost one.
* Ends of connections: simultaneous open, half-close with data queued, reset,
  a peer that vanishes, a channel re-opened towards an old core.
* Restarts and evictions in the session layer, where control, keys and stream
  watermarks are updated by different tasks; Board and Drop recover from loss
  only by periodic messages.
* A board writes under its lock and announces and sends after it; it overwrites
  without comparing and relies on the clock having followed every merge.
* A drop whose sender is replaced by one for another file, or whose receiver is
  resumed, while chunks, requests and verdicts of the old one are under way.
* A federation link whose two ends notice a cut at different times, with a new
  connection already up, adverts dropped at a full queue, and one side revoked.
* Rook's keepalive, fed by two transports of which one may be blocked, and a
  write that waits for a peer that may be gone.

`PROJECT.json` lists each hazard at its line with the properties that cover it.

## Modules

| Module | What it is |
|---|---|
| `Registry` | the relay: registry, UDP loop, connection and link ingress, queues, writers, budget, federation queue |
| `MCRegistry` | its instances |
| `RegistryProofs` | theorems about `Registry` |
| `ReliableFifo` | what a Channel promises: each side receives what the other sent, in order, once, none skipped |
| `Channel` | two `ChannelCore`s, their connection tasks, the reassembler's in-order path and the network |
| `MCChannel` | its instances |
| `ChannelProofs` | theorems about `Channel` |
| `Session` | endpoints of a band: control task and handshake, transport keys, keepalive task, Stream mark, restarts and the network |
| `MCSession` | its instances |
| `SessionProofs` | theorems about `Session` |
| `Board` | boards of several endpoints: application calls, board tasks, anti-entropy, restarts and the network |
| `MCBoard` | its instance |
| `BoardProofs` | theorems about `Board` |
| `DropTransfer` | sender and receiver of a drop, their tasks, re-requests, replacement and resume |
| `MCDrop` | its instance |
| `DropProofs` | theorems about `DropTransfer` |
| `Federation` | hubs with their dialers, listeners and links; the registry is reduced to its bands and its two ends |
| `MCFederation` | its instance |
| `FederationProofs` | theorems about `Federation` |
| `Rook` | one session of the Rook transport, both ends and the time that passes |
| `MCRook` | its instance |
| `RookProofs` | theorems about `Rook` |
| `SetLemmas` | lemmas the proofs share: least and greatest elements of sets of naturals, sums of a function over a finite set |

Operators commented `Fault:` are not part of a specification; each is a
plausible mistake in the definition that follows it, used to show that a
property notices it.

### Registry

`peer[b][k]` is `Registry.bands[b][k]`; `sinks` are the queues with their writer
tasks, which outlive the entry that created them as long as something is queued
or a task holds a clone; `used` is `ByteBudget.used`; `work[w]` is the local
state of ingress task `w` inside `forward`. One action is one critical section
of the registry lock, one atomic access to the budget or one channel send:
`UdpReceive` is `observe_udp` (admission, validation, refresh), `ForwardRoute`
and `ForwardCollect` the locked part of `forward`, `SendConn`, `ReserveUdp` and
`SendUdp` one `try_send`, `ForwardDone` the offer to the federation queue.
`Disconnect`, `Prune`, `Write`, `WriterEnds` are their namesakes. A connection's
first stage, `Connect`, includes the refusals of `insert`.

Abstractions: a frame is its band, sender, length, channel type and route id.
Time is a counter that may stand still between events. `seen` stops counting at
the validation threshold, above which the code does not look at it. A WebSocket's
first frame, which fixes the band, is forwarded without `touch`; the model
touches it too, which sets `last_seen` to the value it already has. The
overflow of `usize` in the byte budget is out of range and not modelled. Adjacent
statements that are one step: `Write` takes a frame from the queue and releases its
bytes (`udp.rs:143-144`), `SendUdp` refunds a failed `try_send`
(`registry.rs:147-148`); what others could see between is a budget that is charged a
moment longer. The refund for a closed queue (151) is absent, since a UDP writer ends
only when nobody holds its sender.

### Channel

A core is a record and each method of `ChannelCore` an operator on it; the
actions are the arms of `run_connection`'s select loop, each followed by the
flush of the outbox. `log` is the sequence of everything emitted under a
sequence number; `send_next` is its length and `unacked` its tail beyond `una`,
which is exactly how the code uses both. Messages are cut into `Chunks[m]`
chunks; `Feed` is the reassembler restricted to chunks that come in order, with
its timeout (`PartialExpires`), which may strike at the sides in `SlowTransfer`, the
messages to which may take longer than that.

The network (`net[p]`) is the sequence of `p`'s frames the peer may still
accept. Receiving the i-th discards the ones before it: the `ChannelHub` keeps a
replay watermark over the packet sequence numbers, so a packet overtaken on the
way, and a second copy of one, is dropped by the hub. Frames may also never be
received, and beyond `NetCap` the oldest is lost. `Reopen`, which replaces a core
by a fresh one, is only in `ReopenSpec`; what the old core left in flight stays
in `net`, but old tasks that have not yet noticed the replacement are not
modelled.

### Session

Each endpoint has the state of its tasks: `keys` are the transport's `peer_keys`,
`send_keys` and `last_seen` (heard within `dead_after`: "fresh", longer ago:
"silent"); `queue` its routes; `ctl` the control task with `sessions` and
`watermark`; `peers` the registry; `str` the stream task's watermarks and its end
of the rebase broadcast; `ka` the keepalive task; `next` the sequence counter that
all it sends shares. The control task's handling of a HELLO is four actions,
cut where it awaits a lock that other tasks take: `AcceptHello` (checks, watermark
and rebase), `RegisterPeerKey`, `RegisterSendKey`, `InsertPeer` (registry and
automatic ACK). The keepalive loop is cut the same way into tick, sends, snapshot,
retain, forget. `RecvPacket` is one turn of the receive loop. `ConnectPeer` is the
Band's greeting; `SendHello` and `SendHelloAck` are the application's own, with any
of `Lists` and with any suite.

Abstractions: a key is the epoch and suite it is derived from, and a packet opens
exactly under its key. The packet's `epoch` field is the HELLO's session, and for
other kinds only a history the receiver does not look at; `ctl.accepted` and
`str.got` are histories too. "keepalive" stands for every control kind that only
advances the watermark. Cipher lists hold known suites only. One step each are
`forget_peer`'s three locks (`KaForget`), the two of a registry insertion with the
automatic ACK (`InsertPeer`), the handling of a GOODBYE, and the receive loop's key
lookup, `last_seen` update and routing (`RecvPacket`, `transport.rs:228-263`): a
packet that is opened just before its key is replaced is one that arrived earlier. A restart keeps the address and has a greater epoch, as `bind_with_session`
demands. After a GOODBYE, or pruning, the code remembers nothing of the peer, so
the replay properties are about what it does remember. The end of the control
task when the application drops its receiver is not modelled.

### Board

`core` is `BoardCore`; `Merge` is `merge_entry` for a set of entries, `Digest`
is `digest()`. `Write` is `set` and `delete` under the lock; `app` holds the
announcement and the frames until `AppSends`. `RecvEntries`, `RecvDigest` and
`RecvSyncReq` are the arms of the board task's match, each with the replay check
and the answer. A board is opened anew for the same actor name, empty and with its
clock at zero, in two ways. `Reopen` is a second `open` of the hub: the sequence
numbers go on and nobody is told. `Restart` is a new Band, whose sequence numbers
start at a random 63-bit number (`SequenceCounter::random`), so below or above the
watermark that each receiver holds, until the receiver handles the signal of its
control task (`Rebase`), if it does not lose that to `Lagged`.

Abstractions: a value is the number of the write that made it. `net[p][q]` holds
the last `NetCap` frames and the receiver's watermark as a position in them; any
frame above it may arrive next, the ones it skips are lost. `old` of those frames
are of an earlier session (queued at the receiver before the restart), and `wm` says
how the watermark stands to the present session: there is none, it lets the present
session through (`open`), or it lies above what that will ever send (`shut`). A
restart chooses freely whether a standing watermark shuts it out, and so does an old
frame that is taken after the rebase (`Taken`). `Digest` is the pair of stamps itself:
SHA-256 is taken to be free of collisions, and the unframed concatenation it hashes
(`board.rs:199-208`) unambiguous. The Lamport clock, a `u64`, is unbounded. The merge
under the lock and the change event after it (`board.rs:526-533`) are one step of
`RecvEntries`, as only the board task reports remote changes. A snapshot arrives
whole or not at all (its chunks go through the reassembler). The application
makes one call at a time, and a digest or snapshot is read and sent in one step,
as nothing happens between the two that the network could not do.

### DropTransfer

`snd` and `rcv` are `DropSenderCore` and `DropReceiverCore`. The sender's task
answers a REQUEST with one step for each chunk (`serving`), and meanwhile hears
nothing; a sender opened for another file within a running Band does not stop it
(`stray`). `RecvChunk` has the four outcomes of the CHUNK arm of `handle_frame`;
`rcv.dead` is the panic of `finish()` on a missing chunk. `Replace` and `Resume` open
a side anew, within the running Band or with a new one that starts at a random
sequence number.

Abstractions: a chunk is the file it was cut from and its index; a digest is the
file it is of, `None` for any other data. There is one sender and one receiver.
Time is left out: a re-request may come at any moment. The network, with its
sessions and watermarks, is that of `Board`.

### Federation

`link[c][h]` is hub `h`'s end of connection `c`: the entry in the `LinkSet` and
the tasks of `run_link`; `pipe[c][h]` is what it has written and the other has
not read. `Dial` is one turn of the supervised dialer that succeeds; the ones
that fail change nothing. `RecvHello` includes both sides' checks; `Advertise`
is the poll that finds a change or the keepalive; `WriterFails` ends writer and
advertiser, and the entry stays until `ReadFails`.

Abstractions: a connection delivers in order until it is cut, and each end
notices in its own time, possibly after a new connection is up. What the
registry does on either side is in `Registry`; here `Forward` is its offer to
the egress queue and `injected` counts its injections into a band that has
peers. The egress queue is bounded by `MaxFrames`. Shutdown is left out.

### Rook

`conn[s]` is `Conn` and the progress of the blocking handshake, `out[s]` what
`write_all_tcp` has yet to write, `pipe[s]` the records in the TCP connection,
`net` the datagrams with the number of copies still to come. `Poll` is `poll`:
all records there are, the end of the stream, a datagram, the answers, and the
keepalive once these are written.

Abstractions: one datagram per poll (several are several polls), one channel, no
audio, no errors of a UDP send. Time is in seconds, `rx`, `tx` and `ping` are the
ages of the three time stamps, and in each second both loops poll. A side that no
longer does is silent, in one of two ways: it has vanished with its host, and a write
towards it fails in the end because TCP gives up; or it is wedged, its kernel still
acknowledges, and a write that finds the connection full waits for ever
(`conn.rs:143`, no timeout and no `SO_KEEPALIVE` is set). A datagram is not delayed by
half of the sequence space. A key is the PSK it was derived from, and the MAC of the
handshake (`Proves`) is taken to be unforgeable and unrepeatable: what the handshake
is for is assumed here, not shown, and no property is about it.
`limit`, fixed at the start of a behaviour, chooses between many datagrams at
one moment, a session that lasts, and one whose datagrams never arrive.

## Runs

| Run | Shows |
|---|---|
| `registry_rebind` | three UDP peers, two of them at one NAT address, declare, validate, go silent and expire in every order: `NoStaleRebind`, `OnlyRebindStripsId`, `NeverBlackHoled`, `SinkIffEligible` |
| `registry_relay` | two forwarding tasks and a link against evictions, re-admissions and writers, two bands for one slot: `BudgetExact`, `CapsHold`, `ConnRegisteredWhileOpen`, `RelayIsolation` |
| `registry_progress` | writers stuck for ever: `ForwardNeverBlocks`; UDP writers that run: `BudgetRelieved` |
| `channel` | simultaneous open, both sides sending fragments through unequal windows, one direction slower than the reassembly timeout, a close, a vanishing peer, fair timers, arbitrarily bad network: `NeverStalled`, `CopiesAgree`, `NothingRetiredEarly`, `EofComplete`, `RefinesFifo`, `EverythingSettles` |
| `session_handshake` | greetings, notices, Stream traffic and restarts, everything repeated and reordered: `AcceptedBelowMark`, `RegistryCurrent`, `StreamSessionsInOrder`, `NoDowngrade` |
| `session_departure` | HELLOs and HELLO_ACKs of the application's choice, GOODBYE, eviction and forgetting overlap: `RegistryCurrent`, `SilentPeersForgotten` |
| `board` | two boards write and delete one key, every SET may be lost, destinations come and go, one endpoint opens its board again or restarts under its name: `DigestSound`, `ChangesTold`, `NeverBackwards`, `Convergence` |
| `drop` | a file of three chunks, then one of two, in windows of two, with re-requests, a sender replaced while serving and a receiver resumed with any subset, in the same Band or a new one: `OneFileIntact`, `VerdictCurrent`, `VerdictEarned`, `VerdictReached` |
| `federation` | two hubs, equal or different secrets, admitted or revoked, a cut and a new connection, full queues, changing bands: `InjectedOnce`, `RelayAuthorised`, `LinksHeal` |
| `rook` | handshake to end: datagrams across the wrap, idle TCP and bulk in both directions, a peer that closes, vanishes or is wedged, blocked UDP: `LatestWins`, `WholeMessages`, `NoFalseDeath`, `SilentPeerNoticed`, `WritesEnd` |
| `channel_passive_close`, `session_crossing` | expected violations, see Findings |

Every module also has a type invariant, `TypeOK`, which its proof module proves
(`TypeCorrect`).

### Bounds

Registry: one or two bands with one slot, two or three UDP sources, one
connection, one link, one ingress task beside the UDP loop, queues of depth 0 or
1, a budget of two frames or none, a clock of 1 to 3 ticks with a TTL of 0 or 1.
`NoStaleRebind` needs two same-IP peers that differ in when they were heard, and a third as witness that others are left alone; the
clock must tell "before", "at" and "after" the new mapping apart and still leave
time to expire. With queues of one frame and a budget of two, a frame can find its
queue full with budget left, and the budget spent with room in its queue; two sink
names let an evicted peer's old queue and its new one exist together. The safety results marked below
do not depend on these bounds: they are proved.

Channel: two sides that may both connect, messages of two chunks and of one, one
message sent by each side, windows of one and two, one retry, two frames in flight per
direction; one side may close, the other may vanish, the messages to one are slow. A window of one
makes the queue wait, two allows reordering inside the window, unequal windows
make sender and receiver disagree; a two-chunk message can lose either half; one
retry tells a first loss from exhaustion. More frames in flight only add copies of
frames that are there already, since retransmission repeats the log.

Session: two endpoints. In `session_handshake` one greets, sends notices and Stream
packets and restarts once, with first sequence numbers that put the new session at,
below or above the old one's mark; each session has two packets, the control queue
holds one and the Stream queue two, so that a packet of the old and one of the new
session wait together. A packet never leaves the network (`Duplicates`). In
`session_departure` three packets of one endpoint, HELLOs, HELLO_ACKs and GOODBYEs of
any order and suite, meet the other's keepalive task, with queues of one; there a
longer queue only delays what the network may delay anyway. In `session_crossing`
each sends one HELLO. With two endpoints nobody reaches the cap of the peer registry:
that `RegistryCurrent` also holds there is proved.

Board: two endpoints, one key (keys are independent: `Merge` and `Digest` go key
by key, and a digest of several differs when one does), two writes, one restart,
one frame under way in each direction. Two writes give every case of `Newer`: one
after the other, concurrent at equal clocks, a delete against a value, and after a
restart a stamp issued twice. With one frame under way each later frame loses the
earlier one, which is the worst the network does; the frame may be of the old session
when its sender restarts, and raise the watermark again after the rebase. Only
endpoint 1 is opened anew, and only endpoint 2 deletes, loses its destination and
pushes, as the two differ in nothing but the order of their names, which decides
ties.

DropTransfer: three chunks and a window of two give a full window, a partial one
and a run cut short by a chunk that is there; the second file is shorter, so
requests and chunks of the first lie beyond its end. One replacement, one resume
with every subset of the chunks, each in the running Band or a new one, one frame in
each direction.

Federation: two hubs of which one dials, two connections of which one is cut, so
that an old and a new one overlap; one frame, a queue and a connection of one
message, so that an advert or the frame finds it full; two changes of the bands.

Rook: the real `PING_IDLE` of 2 s and `DEAD_AFTER` of 7 s, a sequence space of 12
that wraps within three messages of one or two fragments, each datagram arriving
up to twice; four records from either side through a connection of two make writes
wait, and both sides' at once.

Deadlock checking is off for Channel, where a connection that ends has no step
left, for Session, where the bounded traffic may cease, for Federation, whose
connections and frames are bounded, and for Rook, where a session ends.

### Fairness

Registry: `TaskFairness`, because tokio polls every ready task and no step of
`forward` awaits. `BudgetRelieved` assumes `WriterFairness` in addition, as its
premise, and only for UDP writers, whose socket send does not wait for the peer;
`ForwardNeverBlocks` is checked without it. Channel: only the
retransmit timers are fair. Session (`FairSpec`): the control and keepalive
tasks, which tokio polls and whose locks are held briefly, and the passing of
time. In none of these has the network any fairness: it may drop everything from
some moment on.

Board (`FairSpec`): the tasks. Convergence over a network that loses everything is
impossible, so digests, sync requests and snapshots that are sent to a peer for ever
are not lost for ever (strong fairness); SETs, sent once, may all be lost.
DropTransfer: the tasks and the timer, and strong fairness for offers, requests and
each chunk of the current file. DONE, which is sent once, may be lost. Federation:
tasks and timers, and a read of a connection that is cut fails in the end; nobody
need cut, change or send. Rook: both loops and time, and a write towards a closed or
vanished peer fails in the end; no datagram need arrive.

What the code leaves to others is a premise of the property, not fairness:

* `Convergence` assumes `Probing`, an application that calls `send_digest` again and
  again (nothing in the crate does, `DIGEST_INTERVAL` only names the interval), that
  every endpoint has its destinations in the end, and `LetIn`, that no watermark of an
  earlier session shuts a restarted peer out for good.
* `VerdictReached` assumes `Offering`, an application that offers until it is heard,
  `LetIn`, and `SeedFits`, that a receiver is resumed with chunks of the file that is
  offered and lacks at least one.

Each is needed: without any one of `LetIn`, `Offering` and `SeedFits` TLC finds the
property violated in the same configuration, and `LetIn` and `SeedFits` stand for
failures of the code, listed below.

## Findings

* `channel_passive_close`: `deliver` answers a FIN with our own FIN at once, even
  while `send_queue` holds data and our own close is waiting for it to drain.
  The queued data is never sent (`channel.rs:409`, against the comment on `close`).
* `session_crossing`: of two HELLOs that cross, with opposite preferences, each makes
  its receiver commit the sender's first choice (`control.rs:253`), and the automatic
  ACKs then swap the two. The endpoints end with different suites, and neither opens
  what the other sends, where SPEC 3.5 says they "must share one suite"
  (`SPEC.md:225-226`). `SuitesAlike` proves when this cannot happen.

The models also have these behaviours, which no run is kept for.

Channel and Session:

* A re-opened core's SYN (seq 0) is taken by a peer that still holds the old
  connection for a duplicate and acknowledged. That ack retires the SYN, which is
  then neither answered nor retransmitted. (`Channel.cfg` with
  `SPECIFICATION ReopenSpec`, `Reopeners = {s1}`, `Message = {}`, `Senders = {s1}`,
  `Connectors = {s1}`, `Closers = {}`, `Leavers = {}`, `MaxSends = 2` violates
  `EverythingSettles`.)
* `send_hello` and `send_hello_ack` announce the baseline whatever the Band prefers,
  and an unsolicited HELLO_ACK is obeyed; after either the suites may differ too
  (`SessionDeparture.cfg` with `SuitesAgree`).
* A Stream packet of the old session that was opened before the restart was
  noticed, and is handled after the marks were cleared, raises the mark again; the
  restarted peer is locked out until its counter passes it, which from a random
  63-bit start may be never. The control watermark can be raised the same way.
* Nothing leaves `FinSent` when both FINs are acknowledged; the cycle back to
  CLOSED that the comment on `ChannelCore` draws happens only by reset or retry
  exhaustion.
* `gc` forgets a partial message by the age of its first chunk even while its
  chunks keep arriving in order; they are acknowledged, so the messages towards a side
  in `SlowTransfer` are not those of a `ReliableFifo`, and `RefinesFifo` is about the
  other side.
* A rebase handled after the first Stream packet of a new session clears the mark
  that packet set, and a copy of it is delivered again.
* The keepalive task judges by a copy of `last_seen` taken before it locks the
  registry, and evicts a peer heard in between.
* A peer evicted at the registry's cap leaves its keys in the transport.

Board:

* A writer opened anew under its name starts its clock at zero and may issue a
  (lamport, actor) a second time; two boards then hold different values under equal
  digests, for ever. `DigestSound` excepts such keys, and `Convergence` is about
  versions, (lamport, actor), only.
* A restarted peer may be locked out. Its new sequence numbers start at random; a
  frame of its old session that was queued and is handled after the rebase, or a
  rebase signal lost to `Lagged`, leaves a watermark above them (`board.rs:480-494`),
  and nothing drops it before the next restart. (`Convergence` without `LetIn` is
  violated in `Board.cfg`.)
* A change event of a local write is sent after the lock is released, and may
  follow the event of a newer remote one.

DropTransfer:

* A receiver resumed with chunks of another file, as many as the first offered
  file has, panics in `finish()`, which indexes every chunk; the CHUNK arm of
  `handle_frame` takes the count for completeness. (`~rcv.dead` is violated in
  `Drop.cfg`.)
* A receiver resumed with every chunk never comes to a verdict: `finish` is only
  reached on a CHUNK, and it asks for none, where SPEC 8 has it hash the file and
  report DONE on completion (`SPEC.md:777-780`). (For either of the two,
  `VerdictReached` without `SeedFits` is violated in `Drop.cfg`.)
* A restarted side may be locked out by a watermark of its earlier session, as in
  Board (`drop_channel.rs:370`). (`VerdictReached` without `LetIn` is violated.)
* A chunk of a replaced sender's task that fills a free place of the new file
  makes verification fail, and offering again does not clear that.
* A late DONE of the old file tells the new sender that its transfer failed; a
  lost DONE is not repeated, except that a late copy of a chunk runs `finish`
  again.

Federation:

* The read of the HELLO has no timeout: a peer that connects and says nothing
  holds its task.
* Two hubs that dial each other have two links and relay every frame twice.
* A revoked listener still advertises its bands; an advert dropped at a full
  queue counts as sent and is repaired only by the keepalive.

Rook:

* `last_tx` is refreshed by datagrams too. When they do not arrive, a side that
  streams them sends no PING, and its peer, if it sends records and hears nothing,
  declares a live session dead. (`NoFalseDeath` without `~limit.vain`; a session
  that may lose datagrams shows it too, which is why the property is about sessions
  that send none.)
* Two sides that both send in bulk over TCP spin in `write_all_tcp` for ever,
  each waiting for the other to read; the comment there says "brief spin is fine".
  (`WritesEnd` without `Jammed` is violated in `Rook.cfg`.)
* A write towards a wedged peer whose kernel acknowledges spins for ever once the
  connection is full, and the keepalive after it is not reached; the PING, of which
  `spec/TELESTHETE.md:188` says that it "catches a wedged but not-closed peer", does so
  only for a side that is not writing. (`SilentPeerNoticed` or `WritesEnd` without
  `Spins` is violated.)
* The client's UDP hello is sent once. If it is lost, a host whose client is
  behind a NAT sends to the advertised address until the client sends a datagram;
  once bound, it never binds again.
* Fragmented messages bypass latest-wins, and an incomplete set is not dropped by
  time.
* The reads of the handshake have no timeout; a copy of a datagram counts as
  life; a window silent for half of the sequence space is taken for stale.

## Proofs

Every safety invariant, every action property and the refinement that the runs check
is a theorem: it holds for every value of the constants that satisfies the named
assumptions, so for any number of peers, frames, restarts and losses, where a run has
a few of each. Three need a hypothesis on the constants, `NothingForgotten`,
`OneChoice` and `SingleLinks`; without it the property is false, as the section on the
module says. The runs that check the first and the last meet it; the run for
`OneChoice` is the expected violation that does not.
Each module proves one inductive invariant `IInv`, with a lemma per action, and draws
its theorems from it; `ChannelProofs`, `SessionProofs` and `RookProofs` build further
invariants on top. Each also proves `TypeCorrect`, `Spec => []TypeOK`.

The bounds that keep the runs finite (`MaxTime`, `NetCap`, `MaxWrites`, `MaxSends`
and so on) are arbitrary naturals in the theorems. The assumptions beyond that are
the code's: a board has finitely many keys, a drop knows finitely many files, there
are finitely many tasks and queues at a time (`TasksFinite`), a UDP frame has a
positive length, and Rook's sequence space is even and twice as large as the
fragments of a message (the code has 2^32 and at most 2^16). `None` differs from
every value it stands beside.

### RegistryProofs

| Theorem | States |
|---|---|
| `RebindSafe` | `NoStaleRebind` |
| `SinksOwned` | `SinkIffEligible` |
| `RelayIsolated` | `RelayIsolation` |
| `ConnsRegistered` | `ConnRegisteredWhileOpen` |
| `NothingBlackHoled` | `NeverBlackHoled` |
| `CapsAlwaysHold` | `CapsHold` |
| `BudgetNeverLeaks` | `BudgetExact` |
| `IdsOnlyRebound` | `OnlyRebindStripsId` |

`IInv` joins the first four with four facts that make them inductive.
`WorkShape` says what a task's locals can be at each stage of `forward`; without
it a ROUTE frame could be half way through a send. `TimeSane` keeps time stamps
in the past. `UdpFresh` carries the argument of `NoStaleRebind`: between
`observe_udp` and the locked part of `forward` the sender, if still there, was
heard after every UDP entry of its band appeared, because the UDP loop is one
task and nobody else admits UDP peers. So when its ROUTE frame takes effect it
cannot itself be the stale mapping, and `SupersedeRebound` clears every entry
that is. `CollectedSinksOwn`, that a sink held by a task is still the one of the peer
it was collected for, and `SinkIffEligible` need each other: a sink that
is collected stays what it was because names of sinks are reused only when no
entry and no task holds them. `NeverBlackHoled` then is a consequence of
`SinkIffEligible` in every state, with no further induction.

`CapsHold` needs only that the registry stays finite, so that counting works.
`BudgetExact` is proved over `IInv`: the counter is a sum over all sinks and a sum
over all tasks, each step changes one term of either (`SinkChange`, `TaskChange`),
and the terms follow the queue (`BytesAppend`, `BytesTail`). What has to be known
besides is `ReservedForUdp`: a task that reserved bytes holds a UDP sink, which
keeps its owner until the frame is queued or refunded. The sums themselves are
proved in `SetLemmas` from the definition of `SumFunctionOnSet`: that it can be
taken apart at any element, and hence updated, shifted and compared.

### ChannelProofs

| Theorem | States |
|---|---|
| `CopiesAlwaysAgree` | `CopiesAgree` |
| `RetiredOnlyWhenTaken` | `NothingRetiredEarly` |
| `EofComesLast` | `EofComplete` |
| `AlwaysATimer` | `NeverStalled` |
| `ImplementsFifo` | `RefinesFifo` |

The two cores are tied together by the log of what each put on the wire. A log
only grows (`Ext`), so a copy that agreed with it agrees for ever (`Logged`); an
ack in flight is never ahead of what its sender has taken (`Carried`), so what is
retired was taken; a FIN ends its log (`FinLast`), so who has taken it has taken
everything, and its reorder buffer is empty. `States` says what each state of the
handshake has consumed. `Pumped`, that a queue of an established core always has
something in flight before it, gives the retransmit timer. The proof follows the
handlers: lemmas for `Pump`, for the drain of the reorder buffer (a recursive
function, by least counterexample) and for each kind of frame.

`ImplementsFifo` is a step simulation: `ReliableFifo` keeps the messages sent and
delivered, and every step of `Channel` sends one, delivers the next ones, or changes
neither. `StreamsInv` (theorem `StreamsAlwaysInOrder`) carries it. On the sender's
side the data frames of the log, followed by the queue, are the chunks of the messages
sent, in order: `NextEntry` says which frame may follow which, so that pumping a chunk
from the queue to the log moves the border and nothing else. On the reader's side
`ReadUpTo` says that the last frame taken determines everything: which messages have
been delivered and which chunks of the next one are held. As the reader takes frames in
order and each is the sender's (`Logged`), taking the last chunk of a message delivers
exactly that message. What is sent after the core's FIN stays in a queue that nobody
drains, and is not delivered; every message sent is a different one (`Distinct`), as
its chunks carry a random id of 128 bits.
At a side in `SlowTransfer` the reassembly timeout drops parts that were acknowledged;
the refinement mapping shows nothing delivered there, and the invariant says nothing
about what it reads (`Reads`), while its sending half, and the other side, are covered.

### SessionProofs

| Theorem | States |
|---|---|
| `ReplayProtected` | `AcceptedBelowMark` |
| `RegistryAgrees` | `RegistryCurrent` |
| `NeverDowngraded` | `NoDowngrade` |
| `StreamsInOrder` | `StreamSessionsInOrder`, if `NothingForgotten` |
| `SuitesAlike` | `SuitesAgree`, if `OneChoice` |

`IInv` is about one endpoint at a time: its control task, the receive keys of its
transport and its registry, which three tasks update in turn. A key and a session
that are both remembered are of one epoch (`KeysOK`), but for a session that was just
accepted and whose key is about to be registered (`Unkeyed`); a task between accepting
a handshake packet and registering its sender still remembers the session it
accepted (`PendingOK`), which is what `RegistryCurrent` hangs on, because eviction
may happen in between. `StreamsInOrder` has a second invariant, on the order of what
is delivered and queued (`InOrder`), none later than the session whose packets the
key of the moment opens (`Level`). Its hypothesis, that nobody says goodbye and
the table has room for every endpoint, is needed: an endpoint that has forgotten a
peer accepts an older session's HELLO, and with it older packets.

`SuitesAlike` has a third, `SuitesInv`. Under `OneChoice` - nobody but the Bands sends
HELLOs and HELLO_ACKs, and of two endpoints that both greet, either list selects the same suite; with one initiator there is nothing to
ask - every conversation has one suite, `Suite(p, q)`, and whatever names a suite names
that one: a HELLO_ACK in the network or in a queue, what a control task is about to
register, a receive key, a send key. Send keys are moreover of their owner's present
epoch (`OwnKeys`), so that an endpoint which knows that epoch has the same key. The
argument never uses that packets are new or arrive in order, hence it holds with
`Duplicates`, restarts, GOODBYEs and evictions. Two HELLOs that cross with opposite
preferences violate `SuitesAgree` (the run `session_crossing`), so the hypothesis is
needed.

### BoardProofs, DropProofs

| Theorem | States |
|---|---|
| `AllChangesTold` | `ChangesTold` |
| `DigestsSound` | `DigestSound` |
| `VersionsNeverBackwards` | `NeverBackwards` |
| `IntactWithOneFile` | `OneFileIntact` |
| `VerdictsCurrent` | `VerdictCurrent` |
| `VerdictsEarned` | `VerdictEarned` |

A board overwrites without comparing, so that a local write is newer rests on
`ClocksAhead`: no clock is behind an entry of its board. `Provenance` says that
boards, calls under way and frames hold only what was written, which makes equal
stamps mean equal entries. For the drop, `FramesOK` says what a frame can carry
while the drop has had one file (`ToReceiver`) and that a DONE with a digest comes
from a receiver that verified it (`ToSender`); `Verdict` and `Held` say what a
receiver holds, in which place.

### FederationProofs

| Theorem | States |
|---|---|
| `RelayNeedsConsent` | `RelayAuthorised` |
| `OneHop` | `InjectedOnce`, if `SingleLinks` |

`IInv` follows a frame from the egress channel through a link's queue and
connection to the reader. `EndOK` and `SourceOK` say who may use a link. A cut and a
new connection can carry one frame twice; that it is injected once rests on
`OneDialed` (a dialer has given up its old end before it dials) and `OneReader` (of
two connections that carry a frame, one has lost its reader). `SingleLinks`, no two
links between the same hubs, is needed: hubs that dial each other inject twice.

### RookProofs

| Theorem | States |
|---|---|
| `DeliveryInOrder` | `LatestWins` |
| `MessagesWhole` | `WholeMessages` |
| `KeepaliveSound` | `NoFalseDeath` |

For datagrams, wrapping sequence numbers say something about
order only because what is under way is less than half of the space old (`Aged`,
`Ordered`); what was delivered or overtaken is then refused for ever (`Obsolete`).
A fragment set in the table is incomplete, its count the number of its members.

`KeepaliveSound` bounds how far the clocks of two ends can drift apart. With nothing
left to read, an end has not heard the other for at most as long as the other has not
spoken (`Hears`); an end that has polled has spoken within PING_IDLE or has a PING on
its way (`Speaks`), and PING_IDLE is below DEAD_AFTER. The difficult state is the
middle of a poll, when an end waits for room to write its answers before it looks at
its clocks (`Replies`): at most one second passes there, because the other end polls
in that second and makes room - unless it waits for room itself, and then both wait
for ever and neither looks at a clock again. `Joining` covers the handshake, in which
the clocks of the client already run while the host has not read its proof.

### Checked by TLC only

* The liveness properties: `ForwardNeverBlocks`, `BudgetRelieved`,
  `EverythingSettles`, `SilentPeersForgotten`, `Convergence`, `VerdictReached`,
  `LinksHeal`, `SilentPeerNoticed`, `WritesEnd`. Fairness is beyond the prover.
* `OrderlyClose` and `SuitesAgree` are the expected violations; `SuitesAlike` proves the
  latter where it holds.

## Plan

The project keeps about a dozen runs. A new module gets one, and makes room by
merging runs that share an instance or by giving up an expected violation.

1. Done: the seven components, and a theorem for every safety property of the runs,
   the refinement of `ReliableFifo` included.
2. `Reassembler`: budget, eviction memory and timeouts for datagram traffic,
   against the abstract "each message whole and at most once".
3. `WtEgress`: stream reuse and eviction in `wt.rs`, where the stale `order` entry
   of a failed, re-opened stream evicts the newer one; `Discovery`.

Not modelled, and not planned: configuration, TLS files and process start-up;
AEAD and key derivation (a key is what it was derived from); socket I/O and
descriptor passing; the C bindings of both crates, which only forward calls;
Rook's PSK file and audio; the Python reference, a second implementation of the
same protocol.
