# Verification of the C++ Minecraft server

TLA+ modules of the server's own logic, TLC runs on small instances, and proofs
checked by TLAPS. All paths are relative to `src/`; line numbers are those of
the commit in `src/`.

## 1. The system

The program accepts Minecraft clients (protocol 774), takes each through
handshake, login and configuration, puts a player into the world and tells the
other clients of it. Nothing is persisted, there is no game loop yet, and the
repository has no tests.

Threads:

| thread | code | does |
|---|---|---|
| main | `main.cpp:36-42` | waits for `isUsed()`, then `handleSafety`, `handleUpdates`, for ever |
| network | `NetworkHandler::_engage` | accepts, builds a `Client`, hands it to main |
| handler, one per client | `Client::handle` | reads packets, answers them (`handlePacket`) |
| update, one per client | `Client::handleUpdate` | sleeps until there is an update, *suspends the handler thread*, sends it |

Components, the state each keeps, and what makes each correct:

| component | state | operations | correct if |
|---|---|---|---|
| connection intake (`NetworkHandler`) | `status`, `hasClient`, `clientsQueue`, `clients` | constructor, `engage`, `_engage`, `handleSafety` | the queue is never used by two threads at once; each accepted client is listed once, in order, and destroyed after it closed |
| client threads (`Client`) | `hasPacket`, `internClosed`, `hasClientUpdates`, `clientUpdates` and its mutex, `player`, two threads | `handle`, `handleUpdate`, `_closeIntern`, `createPlayer`, `~Client` | updates are sent once, in order, between packets; a closed client gets rid of its threads |
| update broadcast | `globalUpdates`, `clientUpdates`, `players` of all clients | posting (`packetHandler.cpp:293-305`), `handleUpdates`, sending | every join reaches the others, once; no deadlock of the mutexes |
| protocol dialogue (`packetHandler.cpp`) | `Client::status`, the position in the dialogue | `handlePacket`, nested | packets fit the phase; one player per connection; a peer that ends is noticed, and a part of a uuid is not taken for one |
| player registry (`PlayerManagement`, `Player`) | static vector `players`, `playercount` | register, unregister, `getPlayers`, `isUsed` | the list is not changed while it is read; entity ids are unique |
| VarInt (`Types/TVarInt.cpp`, the same loop in `Packet`) | none between calls | read, write, size | reading inverts writing; sizes are right |
| stream (`Util/tools.cpp`), packet buffer (`Packet`) | socket, buffer | `send_all`, `recv_all`, `readByte`, `consume`, `Packet::send` | whole reads and writes, errors reported |
| positions (`Minecraft/Location.cpp`) | none | conversions and comparisons | a position is in its own block and chunk |
| world, chunk, block, registry and tag data | constants | `findRegId` | nothing changes yet |

How they interact: the network thread hands clients to main through
`clientsQueue` and the flag `hasClient`. A handler thread posts to its own
`globalUpdates`; main moves the update to `clientUpdates` of all other listed
clients and notifies their update threads. Handler threads register and read
players directly in the static vector. Main destroys closed clients, and the
destructor joins their threads.

What is hard: three threads around one client with a flag that is polled, a
condition variable notified without its mutex, and a thread that is suspended
from outside; sends that block with a mutex held, on which the main loop then
waits for the sake of all clients; a peer that closes or resets the connection
in the middle of a long dialogue; joins that cross each other. `PROJECT.json` lists every hazard at its line with the
properties that watch it.

## 2. Modules

Each module keeps the names of the code. An action is one step of one thread
between two accesses of shared state; several accesses by one call are several
actions. Operators headed "Mutant" are wrong variants of the definition next to
them, used to see that a property notices; nothing else refers to them.

**ConnectionMailbox** is the abstract intake: numbers go through a mailbox of
capacity one (`Offer`, `Take`, `Reap`).

**ConnectionIntake** is `NetworkHandler.cpp` without `handleUpdates`.
`Construct` and `Engage` are the start; `Accept`, `BuildClient`, `PushClient`,
`RaiseFlag` are one turn of `_engage`; `CallHandleSafety` to `ReturnFromSafety`
are `handleSafety`, with `front` and `pop` apart (`CopyFront`, `PopFront`), the
test for an empty queue and the lowering of the flag apart (`FindEmpty`,
`LowerFlag`: the code has no lock around them, so a push in between would be a
client behind a lowered flag), and the destructor run by `erase` as
`EraseClosed`, `Destroy`. A client's own threads are environment
(`CloseIntern`, `ThreadsEnd`), as is the moment of the next call: this is the
intake as it would work under any caller.

**Server** extends it by the real caller: `isUsed` of `PlayerManagement.cpp`
before every call, and handler threads that hold a copy of the list.

**ClientThreads** has the handler, the update and the main thread at one
client. `wait` is three steps (`TestPredicate`, `FallAsleep`, and the wake-up by
`Notify`); the poll of `hasPacket` and `SuspendThread` are two (`LeaveSpin`,
`Suspend`). `sendPacket` has no return statement, so what it returns is any
member of `Responses`; whether `SuspendThread` accepts what
`std::thread::native_handle()` returns depends on the threading library of the
toolchain, so `Suspend` may or may not stop the handler. The call of `sendPacket`
and its return are two steps: it ends in a blocking `send` (`tools.cpp:24`), so
`SendUpdate` leads to the point `send`, which only `ResponseNone` or
`ResponseClose` leaves, and no fairness is given to these. The main thread asks
for `clientUpdatesMutex` (`WantQueue`) and then waits for it (`LockForPush`); it
does nothing else meanwhile, as in the code. After `CLOSE` the update thread
joins the handler and returns (`JoinAndReturn`) with the mutex locked and the
handler not resumed, as `Client.cpp:61-65` does. A null `player` in
`sendPacket` is the state `crashed`, in which no thread goes on.
`updateHandlerMutex` is left out: only the update thread takes it. After a
`CLOSE` the update thread joins the handler while the destructor joins it too;
that both meet is `JoinTwice`, which may throw out of the destructor.

**ClientOutbox** is what a client promises the main loop, without threads and
locks: updates queued are delivered at most once and in order; a client is freed
only after it closed, and delivers nothing then. `ClientThreads` implements it
(`IsOutbox`): an update popped is delivered or lost with the process.

**UpdateBroadcast** has several clients that log in at once, at the granularity
of the two mutexes, the posting, the two loops of `handleUpdates`, the
snapshot of the players and the sending. An update is the client it is about;
`PlayerSent` is the client `sendPacket` writes into the packet. The update thread
of a client is that of `ClientThreads` in coarser steps: `SuspendHandler` to
`ResumeHandler` is an update, `send` the blocking send, `ResponseClose` and
`JoinAndReturn` the branch `CLOSE`, which leaves the mutex of this client locked
for ever (`returned`) and its handler suspended if it was. A handler that sees
`internClosed` raised by it leaves its loop with its player registered
(`LeaveLoop`); that the destructor joins it at the same time is `JoinTwice`.
`SuspendResults` says whether `SuspendThread` stops the handler, `Responses` what
`sendPacket` may return; `MayClose` and `MayUpdate` are bounds, the clients whose
connection may end of itself and those whose update thread is ever scheduled.

What `UpdateBroadcast` takes over from `ConnectionIntake` is stated on both sides.
The guard of `Connect` (all earlier clients are listed or gone) is `BuiltInTurn` of the
intake; and that clients come and go like this is `IsIntake`: the broadcast
implements `ConnectionMailbox` too, with the newest client in the mailbox from
`Connect` to `ListClient`. A client runs from `make_shared` on, so `Connect` is
there `BuildClient`, before `PushClient` has put it into the queue.

**JoinNews** is what the broadcast promises, without threads, queues and locks:
nobody hears of a player who has not joined, of himself, or twice of the same;
what was heard stays; and the server goes down only (`Crash`) with news for a
client that has not joined itself, or with news that closes a client the main
loop destroys at the same time. `UpdateBroadcast` implements it (`IsNews`): a client hears of
another when the update is pushed to its queue.

**Handshake** is the dialogue of one connection: `pc` is the point `handlePacket`
has reached, one action per exchange. A packet read is its id and `sync`, whether
its payload has been read to its end; a packet sent is its name. `uuid` is what
`recv_all` has left in the buffer the player is made of; reads with `recv_all`
alone (`EchoPing`, `ReceiveUuid`) do not throw when the connection has ended. A
connection is up, closed by the peer (its socket is closed, so what is still
written to it is answered with a reset), or reset; `PeerEnds` takes it from up to
either, and from closed to reset at any time. On a closed one `readByte` throws;
on a reset one it returns a byte nobody wrote.

**VarInt** writes a number byte by byte and reads it back, for any width and
segment size.

**PacketStream** composes it with what follows the number: the writes of a
packet whose announced length the code computes by hand (`RegistryData`,
`LoginSuccess`, ...) or from a buffer (`send`), and the reads of the packets of
the peer, some of which skip a rest they compute (`ClientInformation`). Only
sizes are kept. `send_all` and `recv_all` move any portion at a time, and the
peer may close at any byte. A run is one packet: the read behind it, and the
reset that may come before that, are in `Handshake`.

**Location** is a block built from coordinates and compared with them.

**ConnectionIntakeProofs**, **ClientThreadsProofs**, **UpdateBroadcastProofs**,
**HandshakeProofs**, **VarIntProofs**, **PacketStreamProofs** and
**ServerProofs** hold the proofs, and **SequenceLemmas** what several of them
need: induction over numbers and sequences, that functions defined by recursion
exist, and, of sequences, removing an element, moving the front of one to the end
of another, and when this repeats an element or changes the order.

## 3. Runs

| run | module, cfg | shows | bounds |
|---|---|---|---|
| intake | ConnectionIntake | type; `QueueNotShared`; `EveryClientOnce`; `HandBackEmpty`; `BuiltInTurn`; refinement `MailboxSpec`; liveness `BuiltIsListed`, `ClosedIsDestroyed` | 3 accepts |
| threads | ClientThreads | type; `JoinedBeforeFreed`; `QueueNotShared`; `UpdatesInOrder`; `SuspendedOnlyDuringUpdate`; refinement `IsOutbox`; liveness `HandlerResumed`, `MainGetsQueue`, `UpdatesDelivered`, `CloseWakesSleeper` | 2 packets, 3 updates, both responses |
| broadcast | UpdateBroadcast, `MCUpdateBroadcast.cfg` | `EachJoinToldOnce`, `LaterJoinSeen`, `OneSnapshotSees`, `OneOrder`; liveness `RoundEnds` | 3 clients, the third one's update thread, suspension works, both responses, no close by a peer |
| news | UpdateBroadcast, `MCJoinNews.cfg` | type; `LockUncontended`; refinements `IsNews`, `IsIntake` | 2 clients, both update threads, either may close, suspension works or not, both responses |
| dialogue | Handshake | type; `OneScript`, `PacketsFitPhase`, `JoinedOnce`, `ShortUuidStops`, `InSyncUntilPlay`, liveness `ClosedPeerIsClosed` | 2 registries |
| varint | PacketStream | type; `ArrivesIntact`, `BoundariesMeet`, `ShortReadIsLast`; liveness `Arrives`, `ClosedIsNotAwaited` | 8 bits in segments of 3; strings of 0, 1, 9 bytes |
| gate, pause, close, reset, told, block | see section 5 | a violation each | minimal |

Why the bounds suffice. *intake*: the flag admits one client at a time, so two
clients are the most that interact in the queue; the third makes the erase loop
pass over, erase in the middle and at the end. *threads*: a second packet and a
second update reach every pair of a thread's position with a second round of
another; the third update is one that arrives after two rounds.
*broadcast*: with
three clients every update has two recipients and every recipient may get two
updates; the properties compare two clients, and three are enough for their
orders to make a circle (no two of them both hear of the same two players, so a
circle is the one disagreement there can be). Three are needed for `RoundEnds`
too: a client is pushed to once by each other one, so only with two others does
the main loop come to a mutex whose holder is in its first update, blocked in
`send` or gone with `CLOSE`. One update thread suffices for that, since the loop
waits for one mutex at a time; more of them exceed the time for a temporal
property. Without either of its two exceptions (`SendsReturn`, `MainStuck`) TLC
finds `RoundEnds` violated in this instance, so neither is idle. *news* lets both
update threads run and connections end at any point; the action properties and
`LockUncontended` relate a client and one other. *dialogue*: registries are counted only. *varint*: 8
bits in segments of 3 have, like 32 in segments of 7, a last segment that is not
full; every number is tried. A string of 9 bytes has, like one of more than 127,
a length prefix of two bytes and makes lengths of three; one of 0 and one of 1
are the edges, and a portion may be any. Deadlock is not checked where the program really
may stop: a connection that ended, a process that crashed, a bound reached.

Fairness. A thread that can run runs (weak fairness of its steps). Strong
fairness is assumed of the handler thread only, which another thread suspends
and resumes over and over (it gets on in between), and of threads that wait for
a mutex that is released over and over. Nothing is assumed of the peers, neither
that they send nor that they read: `SendReturns` (the return of a blocking `send`
in an update thread) and `PeerStep` have no fairness, and in `Handshake` writes
are fair only after the connection has ended, when they return at once. Where a
property needs a peer that reads, it says so: `HandlerResumed`, `MainGetsQueue`,
`UpdatesDelivered`, `ClosedEndsThreads` and `RoundEnds` have the premise
`SendsReturn`, that the update thread is not in `sendPacket` for ever. One peer that does
not read does stop the main loop, and with it all clients, at the next push. Nor
is anything assumed of spurious wake-ups, or of how soon the main loop comes
round (`BuiltIsListed` and `ClosedIsDestroyed` are conditional on its calls, and
these on destructors that return).

Beyond that:
`UpdatesDelivered` is conditional on packets not keeping `hasPacket` raised for
ever, and begins with a notification that found the thread asleep or with a
first update sent: a first notification between test and sleep is lost.
`Arrives` says nothing of a negative number that the server writes (its loop
never ends) and of a packet the peer does not finish.
`MainGetsQueue` and `RoundEnds` also name the one case in which the main loop
waits for ever though the peers read: the mutex is that of a client whose update
was answered with `CLOSE`. `HandlerResumed` names it too (`join`).
`ShortUuidStops` says how far a login gets of whose uuid only a part came, since
the short count of `recv_all` is not tested (`packetHandler.cpp:73`): by itself
to the next `readByte`, which throws; but if `LoginSuccess`, written to the
closed peer, is answered with a reset before that, `recv` gives -1, which
`readByte` does not test, and the login can go on up to a player with that uuid.
`ClosedPeerIsClosed` ends at the same point: what happens after the reset is the
finding **reset**.
`LaterJoinSeen` speaks of players accepted later than the client. For one
accepted *earlier* it is false, and its comment says how.

## 4. Proofs

For every value of the constants:

*ConnectionIntakeProofs.* The inductive invariant `IInv` adds to the type
`FlagOwnsQueue`, what the flag means to the two threads: in `push` and `flag` it
is down, in `drain`, `pop` and `lower` it is up, and while it is down the queue is empty
but for the client just pushed. `QueueNotShared` alone is not inductive: nothing
in it says why the flag is up in `drain`. From it follow `TypeCorrect`,
`QueueNeverShared` and `HandsBackEmpty`, which needs that in `lower`, between the
test for an empty queue and the lowering of the flag, the flag is still up and so
nobody pushes. For `ClientsArriveOnce` a second
invariant, `OrderInv`, says that the one client in transit is the newest and
that the vector, in order, and the destroyed hold exactly the others; its
preservation by the erase loop rests on the lemmas `RemoveAtProperties` and
`ToSetRemoveAt`. `ImplementsMailbox` is the refinement: `PushClient`
is `Offer`, `CopyFront` is `Take`, `Destroy` is `Reap`, all else stutters.
`BuildsInTurn` follows from the same invariants: with the flag down nothing is in
transit, so the vector and the destroyed are all that were built.

*ClientThreadsProofs.* `IInv` adds `LockHeld` (who holds `clientUpdatesMutex`
where: the update thread also while it sends, and after it has returned with it), `StoppedInUpdate` (a
stopped handler has not ended, so the update thread cannot return while it is
stopped) and `Joined`. From it follow `TypeCorrect`, `QueueNeverShared`,
`ThreadsJoinedFirst`, `StoppedOnlyInUpdate`, and, with `UpdatesInOrder` itself as
a second invariant, `SentInOrder`. `ImplementsOutbox` is the refinement:
`PushUpdate` is `Queue`, `SendUpdate` is `Deliver` or `Crash`, the first raising of
`internClosed` is `Close`, `JoinUpdater` is `Free`; `JoinTwice` is `Crash`.

*UpdateBroadcastProofs*, for any number of clients and closes, any sets `MayClose`
and `MayUpdate`, whether `SuspendThread` works or not, and whatever `sendPacket`
answers. `IInv` adds to the type that clients are listed once
(`Distinct`), the loops stand inside of the list (`Positions`), whoever is online
is registered (`Registered`) and the update to be moved is still at the front of its
queue (`FrontThere`, since only main pops). `SnapshotSees` follows from
`OneSnapshotSees` being kept: a player registers before it looks. `JoinToldOnce`
needs `ToldInv`: what a client posted is posted once, and while it is
being moved only clients the inner loop has passed have it (`Halfway`); otherwise
moving it could repeat it. `LaterJoinTold` needs `LaterInv`: whoever was
accepted earlier is listed whenever a later one is (`EarlierListed`, from the flag
`hasClient`), so the round that moves an update reaches it (`HalfwayReached`).
`JoinsInOneOrder` is proved with the order itself as the witness: `OrderInv` says
that there are ranks by which all queues are sorted, and that the update that is
being pushed ranks above all that anyone has heard of. A push then keeps every
queue sorted with the same ranks; taking up the next update, of which nobody has
heard, gives it a rank above all others (`TakeFrontOrder`); sending only removes
from the front. The ranks grow without bound, so the lemma `Renumbered` counts them
down to the numbers of the clients. `LockNeverContended` needs `LockInv`: the flag of
a client is up only after it has posted and unlocked, and the main loop takes up
only clients whose flag is up. `ImplementsNews` is the refinement: `CreatePlayer` is
`Join`, `PushToOther` is `Hear`, `SendUpdate` is `Crash` for a client without a
player, `JoinTwice` is `Crash` too, all else stutters. That a push is *news* to its receiver is `Halfway` again,
that it is about a player who has joined is `PlayerInv`. `ListsLikeIntake` is the
refinement of `ConnectionMailbox`: from `EarlierListed` a client that waits is the
newest (`WaitingIsNewest`), and when one is built none waits (`ConnectOffers`).

*HandshakeProofs*, for any number of registries. `IInv` says at which points
the player is there (`PlayerByPoint`), what is known of a connection before its
handshake (`Fresh`), where the uuid may be short (`UuidByPoint`) and in which
phase each point lies (`PhaseByPoint`). From it follow `TypeCorrect`,
`PlayerOnce`, `PartialUuid` (a short uuid gets beyond the point `loginAck` only on a
connection that was reset), `LoginInSync`, and `SentInPhase`, an action
property. `SaysOneScript` needs a second invariant, `OnScript`: what has been sent
and what is still to come at this point are together the script the peer asked
for. `OneScript` alone does not say why the next packet is the one that fits.

*VarIntProofs*, for any width and any size of segment. `NumberInv` describes the
number by its remainders `q[n]`, what is left of it after `n` segments: the bytes
written are the last segments of these in order, with the continuation bit on all
but the last (`Writing`, `Complete`), and what has been read after `k` bytes is the
number minus what is left, shifted back (`Reading`; one step of it is `Reassemble`).
A negative number that the server writes has no last remainder (`Endless`). That
the number of bytes is what `sizeVarInt` foretells is `SizeOfVarInt`, an induction
over the remainders.

*PacketStreamProofs*, for packets of any length. `StreamInv` adds to `NumberInv` that
the bytes still to be read by the calls to come are those in the socket and those
still to be written (`Total` of both). That it holds when a packet begins is
`ItemsWhole`: for each packet whose length or rest the code computes by hand, the
writes and the reads add up to the same number. From it follow `StreamTyped`,
`NumbersArriveIntact`, `PacketBoundariesMeet` and `NothingAfterShort`.

*ServerProofs*, for any number of connections. `ServerIsIntake`: the program's own
main loop only restricts when `handleSafety` is called and when a client ends, so
every theorem of *ConnectionIntakeProofs* holds of the program as it is.
`NobodyIsListed` shows how little happens there: `isUsed` is always true
(`AlwaysUsed`, whoever else holds the list) and the main thread never passes
`main.cpp:37`; the accept loop builds one client, nobody lists it, and nothing is
ever destroyed. This is the finding **gate** of section 5 for any number of peers,
and the reason why the other modules let the wait through.

The proofs assume only the named assumptions on the constants. `SizesAssumption`
says that the lengths a packet can have fit the width of a number, as they do for
32 bits; the width and the segment are positive and the segment is not the larger.

Recursive definitions (`Power`, `Total`, `sizeVarInt`) are functions, and the
library's induction theorems, which take an operator, are replaced by
`InductiveSet`, `InductiveInterval` and `InductiveSetOfSequences`, which take the
set of those for which the claim holds and rest on the least element of a set of
numbers. `Power(n)` stands for `2^n`, which the provers do not know.

Checked by TLC only: liveness (everything with `~>`: `BuiltIsListed`,
`ClosedIsDestroyed`, `HandlerResumed`, `MainGetsQueue`, `UpdatesDelivered`,
`CloseWakesSleeper`, `RoundEnds`, `ClosedPeerIsClosed`, `Arrives`,
`ClosedIsNotAwaited`), because it needs ENABLED.

## 5. Where code and comments disagree

* **gate**: `isUsed` compares with 2 a use count to which two static pointers
  always contribute two. "wait for players to be free for deletion"
  (`main.cpp:37`) never ends; the program accepts one client and never lists it
  (proved: `NobodyIsListed`). All other modules show what the parts do when that wait lets the loop through.
* **pause**: `hasPacket` does not "pause client update handler"
  (`Client.cpp:84`): the poll and the suspension are two steps.
* **close**: after "Resolving by shutting down!" (`Client.cpp:103`) the update
  thread can sleep or poll for ever, even if the peer has read all it was sent, and
  the destructor then waits for it.
* **reset**: `readByte` reports "recv() failed" (`tools.cpp:111`) when the
  connection was closed in order, but not when `recv` failed; nor when a close in
  order is followed by a reset, in answer to what the server wrote meanwhile.
* **told**: an update is to "add the Player Joining" (`packetHandler.cpp:296`), but
  `sendPacket` does not get it and sends the recipient's own entry, with half of
  the uuid. `EachJoinToldOnce` and `LaterJoinSeen` are about the update arriving.
* **block**: `operator|` does not "check if pos is in block" (`Location.h:43`)
  outside the first chunk: it compares the world coordinates of the position with
  the offsets of the block inside its chunk (`Location.cpp:107-110`), which the
  trace shows. That `Location.cpp:50` uses `cx` for `cz` is read off the code, and
  not what the trace shows.

## 6. Not modelled, and the plan

Not modelled, and why:

* The texts, numbers and tables inside packets, world, chunk, registry and tag
  data: constants, which no operation changes. (`Packet::add(double)` never
  copies its argument, `Packet.cpp:26-34`, so positions are sent as whatever was
  on the stack; `add(long)` shifts a `long` of 32 bits on Windows by up to 56.
  Both are single statements and need no model.)
* Memory: an update is one pointer that all recipients delete, and the vector of
  players is changed while others iterate over it. What happens then is up to
  the allocator and the library, so a model could only allow everything. In the
  models registration is one step.
* Entity ids (`Player.cpp:25`): two players can get the same one, but nothing
  reads it and no document says it is unique.
* A peer that announces wrong lengths; the branch for `EAGAIN` in `recv_all`
  (sockets block); the failure of writes, which nothing notices
  (`writeVarIntRaw` tests for 0, `send_all` returns -1).
* Code never called: `main_old`, `CircularFix.cpp`, the buffer readers, `TLong`,
  `TPrefixedArray`, `reverser`, `debug_send_all`, conversions of chunk columns.

Left of the plan:

1. A composition of `ConnectionIntake`, `ClientThreads` and `UpdateBroadcast`
   under the real loop of `main`, once the wait of `main.cpp:37` lets it through.
2. The static vector of players in steps, if it is given a lock.
3. Proofs about that composition. So far the parts meet in `ConnectionMailbox`
   (`ImplementsMailbox`, `ListsLikeIntake`) and `BuiltInTurn`; that `ClientThreads` is
   the handler and update thread of each client of `UpdateBroadcast` is not stated.
4. `LockUncontended` is one half of what `RoundEnds` needs; the other, that the
   update thread empties its queue and unlocks if its sends return, is progress and
   stays with TLC.
