# A verification of VexConnect in TLA+

VexConnect is an offline mesh messenger: nodes flood small encrypted packets from
peer to peer, drop what they have seen before, and stop a packet when its TTL is
used up.  This directory holds TLA+ models of the relay node written in C
(`src/src/`), of the app's own mesh, the Android cache and the browser nodes with
their relay server, the TLC configurations that check them on small instances, and
TLAPS proofs about them for instances of every size.  Paths below are relative to
the repository; `seen.c:53` is line 53 of `src/src/seen.c`.

- `tlc -config X.cfg M` model-checks module `M`; `PROJECT.json` lists which goes with which.
- `tlapm M.tla` checks the proofs of module `M`: `SeenCacheProofs`, `MeshFloodProofs`,
  `MeshChurnProofs`, `UnixStreamProofs`, `KeyStoreProofs`, `VexNodeProofs`, `AppProofs`
  and `OtherNodesProofs`.

## 1. Inventory

| Part | State | Operations | Correct when |
|---|---|---|---|
| **seen cache** `seen.c` | 1000 slots (id, second, active), `count` | check, add, prune | an id added is found for 60 s unless the cache overflows; no slot is lost to the scans; no id twice |
| **mesh routing** `mesh.c` | counters, TTL, relay switch | init, send, receive, relay | every packet spreads to all nodes in its scope, is shown once per node, and stops |
| **transport** `transport_unix.c` | 32 peer slots (descriptor, active) | listen, accept, connect, send to one / to all, read | a connection is a queue of whole frames until it closes, and a close is noticed |
| **main loop** `main.c` | `running`, poll set, timers | stdin, accept, read each peer, prune, stop | every turn serves every peer; nobody is starved |
| **keys** `crypto.c` | two key files in `$HOME/.vexconnect` | load, generate, save | one identity for ever, whatever crashes and whatever call of another kind fails |
| **wire format** `packet.c`, `crypto.c` | none | encode, decode, encrypt, decrypt | lengths fit, decode undoes encode |
| **Android service** `MeshService.java` | concurrent seen map, device set, one shared characteristic | binder callbacks, cleanup thread, start/stop | dedup under concurrent callbacks; each device gets each packet |
| **Android bridge** `MeshModule.java`, `BootReceiver.java` | service started or not | start, stop, boot | at most one running mesh |
| **iOS service** `MeshService.swift` | centrals, peripherals, seen map | CoreBluetooth callbacks, restore, start/stop | subscribers and links agree with the radio |
| **app** `App.tsx` | maps of nodes and devices, SeenCache, queue | scan, connect, relay, switch on/off, prune | a relay reaches every node that stays; entries without a link go; at most 5 links |
| **relay server** `relay-server.js` | map of clients | connection, message, close | each packet to every other open client; every client told who comes and goes |
| **browser demo** `demo.html` | socket, devices, seen map | connect, stop, receive, send | lists only who is there; no duplicate and no own packet shown while the page remembers it (60 s) |
| `util.c`, `tweetnacl.c` | none | formatting, third-party cryptography | - |

**Interaction.**  `main.c` polls stdin, the listening socket and the peers.  A line
of input calls `vex_mesh_send`, which encrypts, marks the id seen and calls
`vex_transport_send_to_all`.  A readable peer is read by `vex_transport_unix_read`
and the frame handed to `vex_mesh_receive`: `vex_seen_check`, `vex_seen_add`, show,
and, if relaying and TTL > 1, `vex_transport_send_to_all` to everyone but the
source with the TTL one lower.  A node is one thread, so its handlers do not
interleave with one another; processes interleave between any two system calls.
Clocks are read afresh by each call of `seen.c`.  The phone services, the app and the
browser node implement the same flood with caches and callbacks of their own.  The app is
one JavaScript thread cut at each `await`; the Android service has the callbacks of the
GATT server, its main thread and a cleanup thread over one concurrent map; a page and the
relay server are one thread each, joined by WebSockets.

**What is hard here.**  Copies of one packet race along ways of different length;
ids are forgotten by time and by overflow while copies are still under way; frames
are written in two system calls and read by non-blocking reads; peers vanish in the
middle of a broadcast; key files are written in four steps without a lock; the main loop
waits in `poll` for one buffer of stdin and in `fgets` for another; the app iterates over a
map across awaits while callbacks delete from it; a page's handlers outlive the socket they
were made for.  The full
list, each at its line, is under `hazards` in `PROJECT.json`.

## 2. Modules

| Module | Models | Correspondence |
|---|---|---|
| `SeenMap` | what `seen.c` promises | the set of remembered ids with their seconds |
| `SeenCache` | `seen.c` | `entries`, `count` as in the struct; `pending` is the id between check and add of one `vex_mesh_receive`; `now` is `time(NULL)`, free to move between the calls; `lastPrune` of the main loop |
| `SeenCacheLog` | `SeenCache` with a history | `log` is the last `Window` adds |
| `MeshFlood` | `mesh.c` and the broadcast of `transport_unix.c` | one action per handler: `Send`, `ReceiveSeen` (the duplicate path), `ReceiveNew` (with the relay); `wire[<<m, n>>]` is the socket from m to n; `accepted` and `forwarded` are history |
| `MeshChurn` | `MeshFlood` with processes | `Start` dials, `Accept` takes a slot or rejects, `Stop`, `Hangup` (end-of-file), `KilledSending`/`KilledRelaying` (SIGPIPE in the slot loop), `Misread` (torn frame, lost with all that was written behind it), `Forget` (expiry or eviction) |
| `FrameChannel` | what a connection promises | numbered frames, a queue per direction; an end that closes behind the other one has read all of it, unless its process ends (`alive`) |
| `UnixStream` | `vex_transport_send_to_peer` and `vex_transport_unix_read`, system call by system call | bytes are numbered `<<frame, position>>`; `left` is `pkt_len - total`, `writing` is the point between the two `write()`s |
| `KeyStore` | load, generate and save of `crypto.c` from `vex_mesh_init` | `pc` is the next system call, and each may fail; the two files hold nothing, a torn pair or the number of a pair; `failed` is a history of the identities whose save or load failed |
| `WireFormat` | `packet.c` and the lengths in `mesh.c`, `crypto.c`, `transport_unix.c` | `Encode`/`Decode` on sequences of bytes; `Sendable`, `CipherLen`, `EncodedLen`, `FrameHeader`, `PlainLen` are the checks and sums a message passes, 16-bit where the code is |
| `VexNode` | one process: `main.c` with its slots and its input | `pc` is the place in the loop, `turn` the slot it looks at, `pollin` what `poll` said of the listening socket; `typed` is the kernel's buffer of stdin, `buf` stdio's; `Step` is the process, everything else its surroundings |
| `AppMesh` | `connectToDevice`, `relayPacket`, the pruner and the switch of `App.tsx` | `dialling` and `probing` count calls at the two awaits of `connectToDevice`; `place[d]` is where the Map has the entry of d: places keep the order of insertion and are not used again while an entry or an iterator is at or behind them, so that a deleted entry leaves a hole and an iterator goes on behind it, as in JavaScript; `relays[p]` is a loop at an await; the radio library is external |
| `AppSeenCache` | the class `SeenCache` of `App.tsx` | the Map in its order of insertion; `has` and `add` are two actions |
| `WsRelay` | `relay-server.js` and the WebSocket half of `demo.html` | `ws[g]` is the page's variable; `sock[s]` and `end[s]` are the `readyState` of the two ends of a socket, each of which learns for itself that the connection is over; `clients` are the sockets between `connection` and `close`; `up`/`down` are the streams; `stale[g]` the ids set more than 60 seconds ago (`Age`), which the next new id evicts (`Kept`) |
| `AndroidSeenCache` | the map and the threads of `MeshService.java` | `ContainsKey`/`PutKey` are the two calls of a callback, `TestRunning`/`RemoveOutdated` and, for each id over the limit, `TestSize`/`FindOldest`/`RemoveOldest` the cleanup thread (`oldest` is its local variable), `StartMesh`/`SetRunning` the main thread |
| `SeenCacheProofs`, `MeshFloodProofs`, `MeshChurnProofs`, `UnixStreamProofs`, `KeyStoreProofs`, `VexNodeProofs`, `AppProofs`, `OtherNodesProofs` | theorems | see section 5; `VexNodeProofs` is about `WireFormat` too, `AppProofs` about `AppMesh` and `AppSeenCache`, `OtherNodesProofs` about `WsRelay` and `AndroidSeenCache` |
| `MC...` | instances for TLC | model values, topologies, symmetry |

`SeenCache` implements `SeenMap` (its live slots are the remembered ids), so does
`AppSeenCache` (but for the switch, which forgets all), and `UnixStream` implements
`FrameChannel`.  `VexNode` extends `WireFormat`: a message that is typed gets its length
from it.  `MeshFlood` uses what these two promise: a
set of ids and queues of frames.  `MeshChurn` extends `MeshFlood` and takes the
promises back one at a time through `Faults`: `"forget"` is what `SeenCache` may do,
`"torn"` is what `UnixStream` may do.

## 3. Runs

Properties are stated, with the code they are about, above their definitions.

| Run | Instance | What it shows |
|---|---|---|
| `seen_cache` | 5 ids, 3 slots, expiry 2 s, clock to 5 | types; no active slot above `count`; no id live twice; the array is `SeenMap` call by call; an id is remembered for the expiry time unless more than 3 ids come in its second or after |
| `mesh_flood` | 4 nodes, a triangle with a tail, TTLs 3, 1, 0, 2, one node that does not relay, 2 packets | no hole behind the flood, no second acceptance, true counters, nothing beyond its TTL, completeness and delivery when the TTL is at least 3 |
| `mesh_churn` | 4 processes and 1 packet, TTL 3 but for one of TTL 1, both faults, 2 slots; a triangle, or one node dialled by three | frames wait only where they can be read, through closing, rejection and SIGPIPE; nothing beyond its TTL, whatever is forgotten; every flood ends; every dead process leaves every peer table |
| `unix_stream` | 1 connection, 3 frames each way, header 2, payload 2, buffer of 7 bytes, short writes | readers stay in step; the connection is a queue of whole frames; what is written to an open end is read, also after its writer has gone, unless the reader's process ends or the reader was the first to close; a close is noticed |
| `key_store` | 1 process, a crash or a failing call at any step, up to 14 key pairs | one identity over all starts, and it is the one on disk, but for an identity whose own save or load failed |
| `vex_node` | 1 process, 2 slots, 3 remote processes of which one is dialled, 1 line out of the longest message, one of 511 bytes (it fills the input buffer to its last byte, is too long to send, and leaves its newline behind as an empty line), a half line and `/quit`, and any number of commands, 1 frame, signals at any time, the sizes of the code | every line is taken (but for the rest of one longer than 511 bytes), every waiting connection answered, every frame read, a stop honoured, unless the rest of a line is missing or commands keep coming faster than the loop turns (`KeptBusy`); what is sent can be read |
| `other_nodes` | the four programs beside the C node, one of which runs. App: 2 or 3 devices, 2 connections, 2 attempts at a time, 3 places of the Map, 1 packet; its cache: 4 ids, 3 entries, expiry 1 tick, clock to 4; pages: 2, with 3 sockets, failures and no packet, and again with 4 sockets, 2 packets and no failure; Android: 3 ids, limit 2, 4 adds, clock to 3 | loops over the nodes miss nobody who stays; entries without a link are pruned while the mesh is on; the app's cache is `SeenMap`, up to the switch; pages list who is there, whichever end notices a failure first, and show no packet of their own that is under way for no more than 60 seconds; the Android cleanup thread forgets no id early while the service lives |

Five more runs check a sentence of a document, a comment or a prompt and find it broken by
what the code does (`findings` in `PROJECT.json` quotes both):

| Run | Says | Does |
|---|---|---|
| `mesh_reach` | PROTOCOL.md:64, diameter of 7 hops | the first copy to arrive fixes the remaining TTL; with a cycle a node within the TTL can be left out |
| `mesh_sigpipe` | transport_unix.c:143, all active peers | the first closed peer kills the sender, later slots get nothing |
| `stream_torn` | transport_unix.c:157, -1 on error or disconnect | a read between the two writes of a frame closes a healthy connection |
| `node_lines` | main.c:167, type and press Enter to broadcast | from a pipe, lines that come in one read wait in stdio's buffer until something more is typed (at a terminal, the rest of a line longer than 511 bytes does) |
| `app_limit` | app/README.md:43, max 5 connections | the limit is tested before two awaits and not after; devices found together all get in |

More that the models show, and no run states:

- `SeenCache` with a full cache whose entries share a second gives each new id the slot of
  the one before it (`seen.c:53`), so that a burst keeps old ids and loses new ones; PROTOCOL.md:53
  speaks of LRU eviction.  `RememberedUnlessCrowded` is what does hold.
- `MeshChurn` with `"forget"` violates `TraverseOnce`: an id that expires while a copy is under
  way is taken for new again (PROTOCOL.md:55); the TTL still ends the flood (`FloodEnds`) and still bounds
  how far it comes (`DialledScope`).  Without `"forget"` it holds (`OnceTheorem`).
- `KeyStore` with `Proc = {q1, q2}` violates `IdentityKept`: two nodes of one `$HOME` that start
  together both generate, and one identity is lost (PROTOCOL.md:120).
- In `KeyStore` with one process, a call that fails while an identity is saved or loaded goes unnoticed
  (`mesh.c:30` ignores the -1 of `crypto.c:47`, and `crypto.c` what `fwrite` and `fclose` return): the node runs under an identity that is not on disk, and the next
  start makes another.  The properties except exactly the identities this happens to (`failed`).
- `VexNode` without `KeptBusy` violates `FramesAreRead` and `WaitersAreAccepted`: commands that come so fast that each `poll` finds
  one keep the loop at `continue` (`main.c:211`), past its peers and `accept`.
- `WsRelay` reaches states where `stopAll` has logged that all connections are closed
  (`demo.html:574`) and a socket that a stale `onclose` put out of sight is still open.
- `WsRelay` without `late` violates `NotBackToAuthor`: a page with such a socket that gets its own packet back more than 60
  seconds after it sent it, and another packet in between, shows it to its author (`demo.html:270`).
- In `AndroidSeenCache` after `onDestroy`, `clear()` can come between the thread's search for the oldest id and its
  removal; an id that a late callback has stored anew meanwhile is removed (`MeshService.java:415`).

**Why the bounds are enough.**  The cache treats ids alike (so symmetry is sound) and
only compares seconds; three slots have a first, a middle and a last, five ids more
than fill them, and the clock passes the expiry time more than twice.  In `mesh_flood` the triangle is
the smallest cycle and gives a short and a long way to the same node; the tail makes
distance 2, so a TTL of 1 is a limit and 0 an edge case; TTL 3 is one less than the
number of nodes, where the theorem begins to apply.  In `mesh_churn` a packet can go
round the triangle only by being forgotten; TTL 3 is one full turn.  A node that three dial and that has two
slots rejects one, and the packet of TTL 1 must not get from one leaf to another; to keep this small, the fourth process comes only
where the triangle is not closed.  The buffer of
`unix_stream` is no multiple of a frame, so that short writes cut headers and payloads
at every place.  In `vex_node` two
slots are filled by one dialled and one accepted peer, so that the third process is rejected;
`MaxLines` bounds the lines other than commands, and the lines that wait when a command is typed; commands themselves
are without bound, so that the loop can be kept at `continue` for ever.  A command and a line behind it, and a line that fgets
cuts in two, are the two lines that can meet in stdio's buffer.  Three devices give the app's loop an entry before, at and
behind the place where it waits; with three it dials nobody again, with two it does.  Three places
of the Map are one more than two devices need, for an entry that comes back behind an iterator that
has passed it; numbers of places are given again as soon as no entry and no iterator is at or behind
them, so that the bound holds up few entries.  Three
sockets are a page that has lost one, its next one, and another page.  With four, one page keeps a socket and sends a packet,
and the other loses sight of one, has a second, and a third after it has closed one; the first page's packet makes it forget its own.  Bounds on counters are
named constants (`MaxTime`, `Window`, `MaxFrames`, `MaxKeys`, `MaxLines`, `MaxAttempts`,
`MaxPlaces`, `MaxSockets`, `MaxClock`, `MaxAdds`) and only stop an action, never change it.
The runs of the mesh, the connection, the node and the Android cache allow deadlock because what they
model ends: no packet left to send, every process stopped, both ends closed, nothing left to type,
nothing left to store.

**Mutants.**  Every property of a passing run has a mutant, a plausible slip in a mapped
definition (`SendToSome` misses a peer, `RelaysAbove` is off by one, `AskBuffer` reads into
the next frame, ...), that TLC must catch with that property.

## 4. Fairness

- `FairFloodSpec`: a frame on a wire is eventually read.  The loop at `main.c:246` reads
  every active slot on each turn, and `poll` returns at least once a second.  Sending is
  not fair: nobody has to type.
- `FairChurnSpec`: the same, and a waiting connection is accepted (`main.c:237`), an
  end-of-file noticed.  Starting, stopping, forgetting, tearing are not fair.
- `FairSpec` of `UnixStream`: an end reads while it is open, and a process that has written a
  header goes on to the payload.  Writing a new frame and stopping are not fair.
- `FairSpec` of `VexNode`: weak fairness of `Step`, one action for the whole process: it is
  scheduled, and `poll` returns within a second.  `Fill` is part of it, but is not enabled while nothing
  is typed.  Nobody has to type, to finish a line, to write or to close.
- `AppFairness`: time passes (a node that says nothing becomes silent) and `setInterval` runs
  the pruner.  The radio owes nothing, and no promise has to be settled.

The fairness of `FairFloodSpec` and `FairChurnSpec` is what `vex_node` shows of one process
under the scheduler alone: `FramesAreRead` and `WaitersAreAccepted`.  They have two exceptions.  One is a
process that waits in `fgets` for the rest of a line (`HalfLine`).  The other is `KeptBusy`: after an empty line or a
command the loop starts over without serving its peers (`main.c:211`), and from some time on no `poll` finds stdin
empty and commands are taken for ever.  Commands are unlimited in the run, so that this happens in it, and without the exception both
properties are violated.  Floods are therefore about nodes whose users finish their lines and pause between commands.

## 5. Proofs

TLAPS proves, for every value of the constants allowed by the assumptions of the module:

| Theorem | Statement |
|---|---|
| `SeenCacheProofs!CacheTypes`, `CacheWellFormed` | types, and no active slot at or above `count` |
| `SeenCacheProofs!NoDuplicates` | no id live in two slots, nor between check and add in one |
| `SeenCacheProofs!CacheImplementsMap` | `SeenCache` implements `SeenMap` |
| `SeenCacheProofs!RememberedTheorem` | an id is found for the expiry time, unless more ids than slots come in its second or after |
| `MeshFloodProofs!FloodInvariant`, `FloodTypes` | the inductive invariant below; types, and the TTL never wraps |
| `MeshFloodProofs!FrontierTheorem` | no hole behind the flood |
| `MeshFloodProofs!TraverseTheorem` | no second acceptance while nothing is forgotten |
| `MeshFloodProofs!CompleteTheorem` | a finished flood with TTL >= number of other nodes has crossed every link out of its sender and its relays |
| `MeshFloodProofs!ScopeTheorem` | nobody further than the TTL from the sender has the packet |
| `MeshFloodProofs!StatsTheorem` | the counters count what was sent, relayed and taken for new |
| `MeshChurnProofs!ChurnInvariant`, `ChurnTypesTheorem` | the inductive invariant of a mesh that changes; its types |
| `MeshChurnProofs!ReaderTheorem` | frames wait only where they can be read, and the slots suffice |
| `MeshChurnProofs!OnceTheorem` | no second acceptance while nothing is forgotten, whoever comes, goes, is killed or tears frames |
| `MeshChurnProofs!DialledScopeTheorem` | nobody further than the TTL over dialled connections has the packet, with every fault |
| `UnixStreamProofs!StreamInvariant`, `StreamTypes` | the inductive invariant of a connection; its types |
| `UnixStreamProofs!AlignedTheorem` | readers stay in step |
| `UnixStreamProofs!ChannelTheorem` | `UnixStream` implements `FrameChannel` |
| `KeyStoreProofs!KeyTypes` | types, for any number of processes |
| `KeyStoreProofs!KeyInvariant`, `IdentityTheorem`, `SavedTheorem` | one process, whichever of its calls fail: one identity over all starts, and it is the one on disk, but for identities whose own save or load failed |
| `VexNodeProofs!DecodeEncode` | decoding undoes encoding |
| `VexNodeProofs!RelayOpaque` | a relay changes the TTL byte and nothing else |
| `VexNodeProofs!MessageFits` | a message that is accepted fits every buffer and comes out as long as it went in |
| `VexNodeProofs!ShownFits` | whatever is read, the text shown leaves room for its zero byte |
| `VexNodeProofs!HeaderRoundTrip` | two header bytes carry every length |
| `VexNodeProofs!NodeInvariant`, `NodeTypes` | the inductive invariant of a process; the table of slots keeps its size |
| `VexNodeProofs!SentReadable` | every message sent can be read |
| `OtherNodesProofs!WsTypesTheorem`, `AndroidTypesTheorem` | types of the pages with their server and of the Android cache |
| `OtherNodesProofs!AuthorTheorem` | no page is shown its own packet, unless it is under way for more than 60 seconds |
| `OtherNodesProofs!ListedTheorem` | what a page lists is connected, or the news that it left is on its way, or the page's socket is broken and its `onclose` still to come |
| `OtherNodesProofs!KnownTheorem` | until it is destroyed, the Android service forgets no packet early |
| `AppProofs!LoopInvariant`, `AppTypesTheorem` | the inductive invariant of the app's loops; types of the app |
| `AppProofs!StayersTheorem` | a loop over the nodes writes to each that stayed, whatever is inserted and deleted while it waits |
| `AppProofs!AppCacheInvariant`, `AppCacheTypes`, `AppImplementsMap` | the app's cache implements `SeenMap`, up to the switch; its types |

*The cache.*  Types and `ActiveBelowCount` are inductive together: add takes the first slot that is not
live, so `count` grows past it.  `NoDuplicateLive` needs them, because check looks below
`count` only: a miss says that no live slot at all holds the id.  For the refinement, the live slots are
counted: no two have the same id, so the set of pairs in `SeenMap` has as many elements as there
are live slots, and is full exactly when the array is; the evicted slot holds a smallest
second.

`RememberedUnlessCrowded` is about the traffic, and needs what ties the slots to the log (`LogInv`):
the log is in order of time; the record of a live slot is in the log, unless the window is full and the
record no younger than its first; it is the last record of its id.  When a slot is evicted, every slot is
live and none is older, so the slots' records lie in the log from the evicted one's second on; they are
as many as there are slots, of different ids, so by the pigeonhole principle that part of the log is too
long for an id in it to be owed anything.  The window must be longer than the capacity
(`WindowAssumption`), or the log could not tell.

*The flood.*  `FloodComplete` speaks of the end of a flood and is not inductive.  On the
way there, `CopiesLawful` holds: for each copy, its TTL plus the number of nodes that have
the packet exceeds the TTL at the start.  Each relay lowers the one by one and has
raised the other, because a node relays a packet only when it is new to it.  So a relay that stops because
of the TTL (`RelaysForward`) proves that more nodes than the starting TTL have the packet; when
the TTL was at least the number of the other nodes, those are all of them.
`FrontierCovered` covers the relays that did not stop; the peer they leave out is the source
of a copy, which has seen the packet (`CopiesLawful` again).  Neither the race of the copies nor the shape of
the mesh matters.  For `ScopeBound`, each copy carries a walk (`CopiesTravelled`): it is at the end of some walk over
relays from the sender, and its TTL and the length of that walk add up to the TTL at the start; a node
that takes it lengthens the walk by one link.  `StatsAddUp` is about cardinalities, and follows once the
sets counted are finite and what is added to one is new to it (a node forwards only what it has seen).
The assumptions are those of `FloodAssumption`: finitely many nodes, connections in
both directions, TTLs of 8 bits.

*The mesh that changes.*  `ReaderIsThere` needs its reason, `OnlyUpHasEnds`: a process that has not
started or has ended holds no descriptor and has no backlog.  Then a broadcast, also one that SIGPIPE or a torn
frame cuts short, writes only to ends that exist or kills the writer, and whoever closes its ends
takes with them what was on its way there.  `ChurnAssumption` says that nobody has peers before it starts;
nothing is assumed of `Dial` but that no two nodes dial each other, nor of the slots but that
a node has one for each peer it dials.

To the packets, each step of `MeshChurn` is one of three things (lemma `StepOfPackets`): frames are lost and ids
forgotten, and nothing else (`Fades`); a node sends a new packet to some of its peers (`Sends`); or it takes a
packet it has not seen and relays it to some or to nobody (`Takes`).  Who started, stopped, was killed or was
cut off does not matter any more.  `OnceTheorem` follows: as long as nothing is forgotten, the number of acceptances
is what the mark in the cache says (`AcceptedOnce`), and a packet nobody has sent is marked nowhere
(`OnlySent`).  For `DialledScope`, connections come and go among the same `Links` (`EndsLinked`), and each copy is
at the end of a walk over them whose length and the copy's TTL add up to the TTL at the start (`OnWay`).  That
does not speak of caches, which is why forgetting cannot break it.  `ChurnTypesTheorem` and `OnceTheorem` have no
run of their own: `mesh_churn` forgets, so that the second would not hold there.

*The connection.*  A stream is a run (`Run`): after each byte comes the next byte of its frame, and after the last the
first byte of the next frame.  `Whole` says that a frame is complete on a stream only when its send
has returned 0.  `InStep` says that while the ends are open, the first byte is the one that the reader expects
(from what it has delivered and what is left of the payload), the last one the one that the writer wrote, and an
empty stream has them meet.  A short write leaves the run cut anywhere, so its writer must close for this to stay
true, and it does (`transport_unix.c:127`, `:136`).  `Aligned` follows at the head of the stream.  `FrameChannel` has the
counters only: the read that takes the last byte of a payload delivers the next number because of `InStep`, and one
that was written because of `Whole`; the write that completes a frame raises `written`, and every other system call
is a stutter or a close.  For a close behind the other end, `KeptInv` says what a closed writer has left for an open
reader: its last byte is the last of the frame it wrote last, or belongs to one it could not complete.  A reader that comes to the end-of-file,
or to the cut in a frame, has therefore read every frame that was written.

*The keys.*  `identity.key` decides (`FileDecides`): a start that has got past it has its identity there for good or could not save
it, and a file that is about to be truncated is of no use or could not be read.  So whatever has run is on disk or has
failed (`RanIsSaved`), and two that have not failed are the same.  Under `OneProcess` only; two processes refute it (section 3).

*The packet.*  A packet is four sequences in a row; `Encode` and `Decode` are compared
byte by byte with what concatenation and subsequences say of each index.  The lengths are
linear arithmetic once it is known that nothing reaches 65536, from `WireAssumption`: the packet
is below that, and what `vex_mesh_send` keeps free covers the nonce and the tag.

*The node.*  `NodeTypeOK` needs one fact more to be inductive: `accept` takes the head of
the backlog when `pollin` is set, so `pollin` must mean that somebody waits.  `NodeInv` adds
that; nothing but `accept` takes from the backlog.  `SentReadable` follows from `MessageFits`
and `HeaderRoundTrip` at the one action that sets `broadcast`.

*The pages and their server.*  `WsOK` has the types and says which sockets the server knows.  `NotBackToAuthor` needs
`Authored`: whatever is on a stream has an author, and the author's page has the id marked, among those that are not stale
for as long as the packet is not `late`; the next new id evicts stale ones only.  For `ListedAreLive`, `Listed` says what
a stream can still bring (`NewsInOrder`): behind the `joined` of a socket that is no longer a client comes
its `left`.  So for each entry of a list there is a `Witness`, an open socket of the page over which the news
will come if it has not.  Once the server's end of that socket is not open any more, no news comes (`Served`); then the page's end is
broken too, and its `onclose` clears the list (`demo.html:336`).

*The Android cache.*  `LastOfEach` says that the cache holds, for some of the ids stored, the last record
of each.  An entry that the thread finds is no younger than any other, so all the ids of a cache over the limit were stored
at its time or later (`EvictedAreOwedNothing`).  The callbacks may put ids between any two steps of the
thread's loop; that only makes the crowd larger, and what the thread has found stays an oldest entry until it is removed
(`AndroidInv`), unless `clear()` comes between, which is why this holds until `onDestroy`.

*The app's loops.*  `LoopInv` says that the entries of the Map have places of their own (`Apart`), and that a loop that
waits has before it, or has written to, every node that stayed since it began, but the one it waits for and the
source (`OnCourse`).  A deletion leaves all other entries where they are and takes the deleted node from those that stayed; a new
entry gets a place behind all entries and iterators.  When the loop goes on, the entry with the least
place before it is the next (`Advance`), so that none is jumped over; that a set of places has a least one
(`LeastNumber`) is well-foundedness of the naturals.  `StayersGetIt` is `OnCourse` at the step that ends the loop.

*The app's cache.*  `Map.set` keeps the place of a key that is there, so the order of insertion is the order of time only
because `has` comes before `add` and deletes an expired entry of the id: between the two, the Map holds no entry of it
(`AppInv`).  Then the entry inserted first is one of the oldest, and if it has not expired none has, so that the
Map remembers as many ids as it has entries when the limit costs one of them.

*Only model-checked:*

- all liveness (`DeliveredToAll`, `FloodEnds`, `DeadAreDropped`, `WrittenIsRead`, `CloseIsNoticed`,
  `FramesAreRead`, `WaitersAreAccepted`, `StopIsHonoured`, `LinesAreTaken`, `GhostsAreCleared`), which
  is out of the prover's reach;
- that the five runs of section 3 find what they find, which is about instances.

## 6. Abstractions, and what is not modelled

- A packet is its id and TTL.  All nodes of this code derive the same mesh key, so decryption
  succeeds and does not affect routing.  Ids do not collide (8 bytes of a hash of a nonce).
- Failures of `socket`, `bind` and `listen` are one outcome of `Startup`.  Frames that do not decode
  change nothing but a log line or a counter, and are left out.  A failure of `mkdir` shows in the `fopen` after it, and failures of
  the calls on key files are in `KeyStore`.
- `peer_count` drifts (`main.c:255`), but is only printed before the loop starts.
- A stdin at end-of-file makes `poll` return at once and `fgets` fail, for ever: the loop then
  spins without being held up, and `VexNode` has no action for it.
- What `poll` sees is read when it returns: a line, a connection or a frame that comes later is
  seen by the next turn.  Frames are read without looking at what `poll` said, as in the code.
- The kernel is modelled from how the code uses it: a socket buffer per direction, end-of-file
  after the last byte, SIGPIPE on a closed peer, unread bytes lost when their reader closes.
- In `MeshChurn` a socket buffer is never full; the full buffer is in `UnixStream`.  Whether two nodes
  have a connection is decided once: no slot is dialled again, as in the code.
- The clock never steps back.
- `AppMesh`: the Bluetooth library is modelled from how `App.tsx` uses it.  Connecting and writing end
  either way, at any time; a lost link is told later.  Parsing, advertising, the duty cycle of the scan,
  statistics and the screen are left out.
- `WsRelay`: the failure of the server, and Web
  Bluetooth, with the relaying between Bluetooth and the socket, are left out.
- `AndroidSeenCache`: what the GATT server and the advertiser do is Android's business.  A service that is
  started again is a new object.
- The iOS service is not modelled: its steps are CoreBluetooth's (restoration, retained links, the transmit
  queue), which the source does not show.  The Android bridge and boot receiver hand one intent on.
  `util.c` formats and logs, `tweetnacl.c` is third-party arithmetic; neither keeps state.

## 7. Plan

Done:

1. `SeenMap`, `SeenCache`, `SeenCacheLog`, refinement and proofs.
2. `MeshFlood` with its invariant and proofs.
3. `MeshChurn`: processes, slots, SIGPIPE, forgetting.
4. `FrameChannel`, `UnixStream`.
5. `KeyStore`.
6. `WireFormat` and its proofs.
7. `VexNode`: the turn of the loop, stdin, signals; its invariant and what it sends, proved.
8. `AppMesh`, `AppSeenCache`, `WsRelay`, `AndroidSeenCache`.
9. Proofs: `ScopeBound` and `StatsAddUp` of the flood; `RememberedUnlessCrowded`; `UnixStream` with its refinement of
   `FrameChannel`; the keys for one process; `ReaderIsThere` of the churn; `WsRelay`, `AndroidSeenCache` and `AppSeenCache`.
10. `AppMesh` with the places of a Map, where a deleted entry leaves a hole and an iterator keeps its place; its types and
    `StayersGetIt`, proved.
11. What a step of `MeshChurn` is to the packets (`StepOfPackets`); from it `TraverseOnce` without forgetting, and
    `DialledScope` with every fault.
12. Failing calls in `KeyStore`; closing behind the other end in `FrameChannel`; commands without end in `VexNode`; both ends of a
    socket and the 60 seconds of a page in `WsRelay`; the eviction of `AndroidSeenCache` step by step.

To do, in this order:

13. The full socket buffer of `UnixStream` in `MeshChurn`; a clock that steps back in `SeenCache`.
