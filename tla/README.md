# Alien Shooter multiplayer in TLA+

This directory holds a formal model of the network play of Alien Shooter: the server
(`asmp-server`), the client DLL that is injected in the game (`asmp-dll`), the protocol
between them, the patcher and the start that bring the DLL into the game, and the containers
of `common/`. TLC checks the modules on small instances, and TLAPS proves every invariant, action
property and refinement that the passing runs check, for every number of slots, clients, sessions,
threads and items; liveness is left to TLC. `PROJECT.json` is the index: components, runs, the
source lines behind every definition, the deliberately wrong variants that the properties must
notice, the hazards and the findings. Paths below are relative to `src/`.

## 1. The system

```
   game process (one per player)                             server process
 +--------------------------------------------+            +------------------------+
 | game engine, menu scripts (.lgc)           |            | asmp-server/src/       |
 |    | hooks                                 |            |   main.c: endless loop |
 | multiplayer.c   menus, remote players      |            |   server.c: slots,     |
 |    | calls          ^ callbacks            |            |   events, two timers   |
 | client.c        connection state machine   |            +-----------^------------+
 |    |                ^ events               |                        | events
 | epnet (client) ----------------------------+--- UDP ---- epnet (server)
 +--------------------------------------------+
```

| Part (source) | State | Operations | What makes it correct |
|---|---|---|---|
| Server (`asmp-server/src/server.c`, `main.c`) | a table of slots indexed by epnet's client id: connected flag, name, actor, time of the last sync of each; times of the last two relays | the tick: read the clock, `epnet_server_update`, handle every event, relay users, relay actors | a slot counts as connected for the client that holds it and under its name; a relay shows only what the present holders gave; the timers survive the wrap of the clock |
| Client (`asmp-dll/src/multiplayer/client`) | state, *static* substate of the attempt, configuration of the server, sync times | tick, connection request, disconnect, shoot | an attempt ends; a connected client made the handshake of this session; the client and its link agree |
| Network (`common/epnet`, empty submodule: external) | links, queued events | connect, send, poll, disconnect | external; the assumptions are listed in section 5 |
| Protocol (`common/src/multiplayer_protocol.h`) | - | packet types and what they carry | as records in the modules above |
| Multiplayer layer (`asmp-dll/src/multiplayer/multiplayer.c`) | state, substate of the connected state, table of remote players, menu status | hooks of the game, tick, menu handlers, callbacks of the client | the callbacks and the connected handler use the table of their own session; a player who is heard of appears |
| Menu scripts (`game/`) | status bar | load, press connect, leave | their status bar is the channel between script and DLL |
| Priority queue (`common/.../pqueue`) | sorted array, capacity, mutex | create, queue, dequeue, clear | implements a priority queue under threads, gives the mutex back |
| Linked list (`common/.../list`) | heap cells, two ends, count | push, pop, remove by data, clear | implements a deque, never walks into a freed cell |
| Map (`common/.../map`) | sorted array of entries | add, find, remove, clear | implements a dictionary |
| FIFO/LIFO queue (`common/.../queue`) | array, count, mutex | create, destroy, queue, dequeue, clear | calls of several threads take effect one at a time and in order, also when the array cannot grow |
| DLL entry (`asmp-dll/src/dllmain.c`), hooks (`multiplayer.c:451`), console (`utils/console`) | the DLL's thread, `mp_` and its client, seven hooks, the console of the process | attach, start, key loop with F6 and F12, unload | a start that fails half way leaves nothing behind; the game's thread never meets a half-built DLL while the DLL waits for keys |
| Executable patcher (`asmp-exe-patcher`) | executable, backup, the buffer of stdio | check, copy, three writes, close | on a disk that works, the original is never lost, and a run that comes to its end leaves a patch that is whole or absent |
| Scoreboard, game API, memory/threads/time wrappers, unit tests | | | not modelled (section 8) |

How they interact: the server and each client run in their own processes and share only the
network. Inside the game everything that matters runs on the game thread: the engine calls
hooks, a hook calls `multiplayer_tick`, which calls `mp_client_tick`, which calls back into
`multiplayer.c` once per packet; the menu scripts and the DLL talk through the health of a
status bar. A second thread (the DLL's) installs the hooks while the game's thread runs, reads
keys and unloads the DLL. Patcher and game meet in two files: the executable, which Windows does
not run while it is open for writing nor opens for writing while it runs, and its backup.

What is hard about this code is that most of its state outlives its meaning:

* epnet reuses slot ids, and the server's table is never cleared; one `epnet_server_update`
  reports joins, leaves and packets together, which are handled after all have happened;
* a `static` variable holds the progress of an attempt and survives its end;
* poll loops stop early, so that events are dropped or left for a later state;
* the time 0 means "never", on a clock that wraps;
* `mp_` comes from `malloc` and only one member is set; its table is allocated per session
  and never freed; callbacks index it unchecked;
* links close at any time, on either side, while something is queued in both directions;
* the handshake travels by the same calls as the syncs: its two packets may be lost like any other,
  and nothing sends them again;
* an allocation can fail inside a mutex; a freed list cell stays reachable;
* calls of a function go to its hook before the hook's original is stored, and still do after
  the DLL has gone;
* three writes make one patch, and what is written may sit in a buffer when the process ends.

`PROJECT.json` lists each of these hazards at its line, with the properties aimed at it or the
reason why there is none yet.

## 2. Modules

| Module | Models | State and actions in the code |
|---|---|---|
| `MpServer` | `server.c`, the whole of `mp_server_tick` | One variable per member of a slot. `phase` is the program counter of the tick: `BeginTick` (clock), `EpnetJoin/Leave/Packet` and `EndUpdate` (`epnet_server_update`), one `Process...` action per case of `process_received_packets_`, `EndPoll`, `Send/SkipUsersSync`, `Send/SkipActorsSync`. Names and actors are tokens: the peer that wrote them. |
| `MpServerProofs` | - | Theorems about `MpServer` (section 6). |
| `MpClient` | `client.c` | Every variable is a function of the client process. `TickIdle`, five `Connecting...` actions (one per substate) and `TickConnected` are the cases of `mp_client_tick`; `ConnectionRequest`, `Disconnect`, `SendShoot` are the calls of the game; `Epnet...` is the network. Ghosts: `session` numbers the attempts, `asked` the last one that sent its request, `fresh` whether it began with the substate idle. |
| `Sifting` | a poll loop that reacts to some events | `Sift` keeps the elements of a sequence that are in a set; `MpClient` and `MpSession` use it. |
| `MpSession` | server, clients and network together | Instantiates `MpServer` (a peer is a client *and* a session) and `MpClient`, adds the downlinks, the transport's opening and closing, the loss of any packet (`UplinkLost`, `DownlinkLost`), and timeouts. Ghost: `lost` says which of the two packets of the handshake the present session of each client has lost. |
| `MpGame` | `multiplayer.c`, the menu scripts, one client | Instantiates `MpClient` for one process. `phase` alternates between the game's own tick (menus, engine, hooks) and `multiplayer_tick` (client, callbacks one at a time, then the handler of the state). Ghost: `gaveUp`. |
| `PQueue`, `LinkedList`, `SortedMap` | three containers | `PQueue`: threads with a program counter around the mutex, the binary search step by step, failing allocations. `LinkedList`: cells of a heap which reuses freed ones and forgets what was in them; walks take one step per cell. `listCall` and `mapCall` record the last call with its arguments. `SortedMap`: one call per step, binary search as a recursive function of the turns of its loop. |
| `PriorityQueue`, `Deque`, `Dictionary` | what a caller is promised | Abstract specifications: a set of items, a sequence, a function. Each container states that it implements its own through a refinement mapping (`INSTANCE ... WITH contents <- ...`). Every abstract step is the step of one call: `asked` and `wanted` in `PriorityQueue`, `call` in the other two name it with its arguments, so that a step which does what another call, another key or the other end of the list wants is not allowed. `PriorityQueue` leaves open which of several items of the highest priority goes first (finding 3). |
| `Queue` | `queue.c` | Threads whose calls are cut between lock, growth, write of the item or `memmove`, count and unlock; the array keeps what `mem_realloc` left in it. |
| `Line` | what sharing that queue promises | A call takes effect at one moment between its beginning and its return. `Queue` implements it with `contents <- InLine`: in the middle of a FIFO dequeue the item that has been overwritten still counts. |
| `MpClientProofs`, `MpSessionProofs`, `MpGameProofs`, `InjectionProofs` | - | Theorems about the modules of these names; the session's rest on lemmas of the server's and the client's, the game's on the client's theorems (section 6). |
| `QueueProofs`, `ListMapProofs` | - | Theorems about `Queue` and `PQueue`, and about `LinkedList` and `SortedMap` (section 6). |
| `SequenceLemmas` | - | Lemmas about sequences (parts, insertion, removal, moves, `Sift`) and induction over natural numbers, which the others use. |
| `Patcher` | `asmp-exe-patcher/src/main.c` | `stage` is the program counter of `main`; a file is a record: whether it is whole, and which of the three places are written. `pending` is the buffer of stdio, `PatchBytes` is `patch_bytes_` (its seek flushes the write before), `Kill` ends the process anywhere. `MoveBack` and `ThrowAway` are the user's. |
| `DllLife` | `dllmain.c`, `console.c`, the hooks, `set_hooks_`, `multiplayer_init/destroy` | `at` is where the game's thread is, `dll` the program counter of the DLL's. A hook is set (`SetHook`) one step before its original is stored (`StoreOriginal`). Memory is null, live or freed; a step that uses what is not live is a fault. |
| `Injection` | the patcher and the game on one computer | `Patcher` and `DllLife` together: `Start` runs what the patcher left in the executable. |
| `Containers` | the four side by side | The container that a behaviour uses is chosen in `Init`. |
| `MC...` | - | Model values and packet sets of the instances. |

Definitions named `Mutant...` are deliberately wrong variants of the definition that follows
them (a dropped guard, a missing reset, an off-by-one). Nothing uses them; `PROJECT.json`
pairs each property with one that violates it when swapped in.

## 3. Runs

Each run ends within about two and a half minutes with two workers.

| Run | Instance | Shows |
|---|---|---|
| `server_slots` | 2 slots, 2 clients, up to 2 events per update, a clock of 2 values | The slot properties and the timers hold. Two of each is what inheriting a slot and relaying to somebody else need; two events let a leave and a join, or a leave and a packet of the old holder, meet in one update; with two clock values the clock wraps and 0 comes back all the time. |
| `server_stale` | the same | `OnlyOwnActorIsRelayed` fails (finding 1). |
| `client` | 1 client, 2 attempts, 2 queued packets, a clock of 3 values | The link is accounted for; a session that begins clean makes its own handshake and asks once. Two attempts let the second meet what the first left behind. Two queued packets let one stay behind the event at which a poll loop stops. |
| `client_stuck` | the same | `NothingSurvivesDisconnect` fails (finding 2). |
| `session` | 2 clients, 2 slots, 2 attempts of one of them, which may leave, 3 events per update, any packet may be lost | A client that plays has its name in its slot or its request on its way or lost; nobody is shown to himself, although slots change hands while relays are under way. Three events let a request, the leave of its sender and the join of the next holder meet in one update. 2.5 million states. |
| `session_meet` | 2 clients, 2 slots, one attempt each, fair, any packet may be lost but not every one from some time on | Players who stay keep receiving each other's actor. |
| `session_recovery` | 1 client, 1 slot, 3 attempts, timeouts on both sides, any packet may be lost, users syncs in every tick, fair | A client that comes back while the server still holds its only slot is refused, not stuck: every clean attempt ends unless the network loses its own request or answer. The losses of other packets and of other sessions are no excuse. |
| `game` | 1 other player, 2 attempts, 1 queued packet, fair | The connected handler plays on the table of its session even from the garbage in `mp_`; callbacks find their table unless the attempt was given up; a player who is heard of appears. |
| `injection` | all of it; no bound | The original survives a patcher that is killed anywhere and run again; a run that comes to its end on a disk that works has patched three places or none; while the DLL waits for a key, and as long as no hook is set, the game cannot fault, whatever failed or is still under way; a DLL that has gone leaves the consoles as they were; the start ends. The state is finite by itself: three places, seven hooks, two threads. |
| `containers` | pqueue: 2 threads, 2 priorities, 4 items; queue: 2 threads, 3 items; list: 3 cells, 2 data, careful callers; map: 5 keys, 2 values | The four containers implement their abstract specifications and keep their invariants. Four items and five keys make the arrays grow more than once and the binary search take every turn; three cells let a walk start, pass and end and a freed cell be reused, and with two data a removal meets items that stay and items that go; three items in the queue make it grow to one, two and four places and let a `memmove` move more than one item. |
| `pqueue_fifo` | the same | `FifoTakesOldestFirst` fails (finding 3). |
| `list_open` | the list by itself, careless callers | `WalksStayInside` fails (finding 4). |

Deadlock is checked everywhere except in `list_open`, whose behaviours end where the code's
behaviour becomes undefined.

The bounds `MaxSessions`, `MaxQueue`, `MaxInbox`, `MaxDown`, `MaxArrivals` and `MaxOffers` appear in guards
only. `MaxQueue` and `MaxDown` bound the packets that are sent again and again (syncs, shots): one
beyond the bound is lost at once. The request and the response of a handshake need no bound, as
a session asks once and each request is answered once; on their way they may be lost like the others.
`server_slots` uses symmetry of the two clients, which is sound because its properties are
invariants and no client is distinguished.

## 4. Fairness

* `ProgramsRun`: the server's loop is endless (`asmp-server/src/main.c:16`) and the game ticks the
  client. Strong fairness appears because the model lets the clients move only while the server is
  in its update (`During`), which disables their steps again and again; in the program they are
  simply scheduled. Nobody is assumed to connect, disconnect or shoot.
* `NetworkMoves`: what epnet was given does not stay where it is: it arrives or is lost. All of it
  may be lost. `RecoverySpec` assumes no more than this of the network.
* `NetworkDelivers`, in `DeliveringSpec`: on each uplink and downlink that has something to carry
  again and again, something arrives again and again; that is, not every packet from some time on is
  lost. It promises nothing of a particular packet: a handshake may be lost under it. Without it two
  players could not be expected to meet. It is enough in `session_meet` because users syncs are never
  due there on either side: actor syncs are all that the links carry again and again. A network that
  lets users syncs through and loses every actor sync is left out.
* `RecoverySpec` adds that a client whose session the server does not hold any more notices,
  that is, epnet's own timeout.
* `GameFairness`: the game loop, the engine completing an entity that it began to create or
  reaching the map it was asked for, and the network taking what is sent. Strong for the same
  reason: the two halves of a game tick alternate.
* `PQueueFairness`, `QueueFairness` and `WF(Walks)`: a thread inside the mutex, or inside a call,
  goes on. Nothing says that a thread which waits for the mutex ever gets it.
* `InjectionFairness`: a thread of the game's process that can run does, both the game's inside
  `LoadLibraryA` and the DLL's from its start to its loop and from F12 to its end. The DLL's cannot
  start while the game's is inside `LoadLibraryA`, which holds the loader's lock. Nobody is assumed
  to press a key, to start the game or to run the patcher.

`FreshAttemptEnds` speaks only of attempts that begin with the substate idle and lose neither their
request nor the answer to it: the others may wait for ever (finding 2, and the first of the
observations in section 7).

## 5. What is assumed of epnet, the engine and the heap

The submodules `common/epnet` and `common/ehook` are not part of the repository. From the way
`server.c` and `client.c` use it, epnet is taken to deliver in order, to report a join before
the packets and a leave after the packets of a client, to give a new client the lowest free id
or refuse it, to start `epnet_client_connect` from an empty event queue, to drop what is sent on
a link that is not open, and to possibly give up a link on one side only. A packet of a session
that the other side has left is dropped. Both programs send all their packets by
`epnet_client_send` and `epnet_server_send`, and `server.c` takes them as plain packets
(`EPNET_SRV_EVENT_PACKET`; `EPNET_SRV_EVENT_RELIABLE` is another event, which it ignores): so the
connection request and its response may be lost on an open link like the syncs and shots. Opening
and closing a connection is epnet's own affair, and its news is delivered.

`During` is a reduction: client and network steps are allowed in the server's update phase only,
because the server's other steps neither read nor write what they touch.

The engine loads a map some time after it was asked to, and gives an entity its torso some time
after it was created. `malloc` may fail, and returns memory with arbitrary contents. What is in a
freed list cell is nobody's to read: the model forgets it, and marks the step that follows a link
there.

`ehook` is taken to redirect a function before its call returns, so that the original is stored a
step later, and to fail without a trace. The game's thread may call any hooked function at any
time, and a thread that has entered a hook stays in it for as long as it likes.

Of the disk and the user: a killed process loses its buffer of stdio and nothing else (power
failures are left out); a write that fails is lost when it is flushed, and whether `fseek`
reports that is up to the C library. `diskFails` chooses at the beginning whether writes may
fail; `OriginalSurvivesKills` and `PatchIsAllOrNothing` speak of the disk that works, and the
second of runs that come to their end only: a run that is killed between two writes, or that ends
with -13 or -14 because one failed, may leave one or two of the three places patched. What a game
does that is started from such a file is in `Injection` (`StartOnlyFaults`). The user
keeps a backup that is as long as the executable until he moves it back, and throws away a shorter
one, which a killed run leaves; he touches neither while the game or the patcher runs.

## 6. What is proved

`MpServerProofs`, for every `MaxClients` in 1..255, every set of peers, every `MaxInbox`, every
clock width and, where not stated otherwise, every pair of rates:

* `ServerTypeCorrect`: `ServerTypeOK` is inductive.
* `PlayerHoldsSlotAlways`. `PlayerHoldsSlot` is not inductive by itself: a handler trusts the id
  of an event that was queued some time ago. The strengthening `SlotInv` adds `QueueIsCurrent`:
  an event comes from the client that holds its id now, unless a leave of that id follows it in
  the queue. `ReportKeepsSlots` and `PollKeepsQueue` say how the two ends of the queue keep it.
* `UsersSyncAlwaysTruthful` and `ZeroedActorNeverRelayed`, from `RelayInv`: slots change hands
  only while nothing is sent, players change only while no sync is sent, a sync is built only
  when the queue is empty (so that every slot is settled), and a non-zero actor time means that
  somebody wrote the actor.
* `SyncNeverOverdue`, from `TimersInv`, under `UserRate > 0` and `ActorRate > 0` (they are
  positive constants of `multiplayer_protocol.h`; with a rate of 0 a relay is always due).

The assumptions are those of `MpServer`: 1..255 slots (`uint8_t`), a clock of positive width,
natural rates, and a `None` that is not a peer.

`MpClientProofs`, for any set of clients and of packets, any bounds, rates and clock width:

* `ClientTypeCorrect`: `ClientTypeOK` is inductive. The packets handed to the game come out of the
  queue by `Sift`, whose result `SiftProperties` gives by induction over the queue.
* `LinkAlwaysAccountedFor`. `LinkIsAccountedFor` needs `NewsIsTrue`: a DISCONNECTED event is
  queued only while the link is gone, so that a loop which stops at one drops no link that is open.
* `FreshSessionsHandshake` and `AskedOncePerSession`, from `HandshakeInv`: until the request is
  sent, the session is newer than the last that asked, and each later substate has all that the
  earlier ones did. Nothing of the kind holds of sessions that are not `fresh` (finding 2).

`MpSessionProofs`, for any set of clients, 1..255 slots, any number of sessions, any rate of users
syncs and any bounds, with and without losses and timeouts:

* `ConnectedClientsArePlayers` and `ActorsNeverEcho`, from `SessionInv`. Its conjuncts: what is
  known of each side alone (`Base`, from `MpServerProofs` and `MpClientProofs`, which say what a
  step sends, receives and keeps); the server has met no session whose opening it has not taken
  (`MetInTurn`), and each at one slot only (`MetOnce`); a client whose session has not been let in
  holds nothing of the server and nothing is on its way to it (`OutsideIsQuiet`); no packet of
  actors under way to a client names it or the slot where it was met (`CarriedIsForeign`); who has
  asked over a link that stands is a player, or its request is on its way or lost
  (`AskersAreHeard`); `LostStays` says that `lost` only grows while a session lasts.
  Neither property is inductive without these: packets are addressed to slots, so that what was
  built for one session may be under way while its slot, or its client, goes on to the next.
* `PartsKeepTheirSpecs`: every behaviour of the composition is one of `MpServer` and one of `MpClient`.
  A step of the session is, on each side, a step of that side's own specification or none, because
  who joins is a session that has begun (`Enters`), a packet is that of the holder of its slot, and
  a downlink carries packets of the server and the transport's own two only.
* `TableStaysTruthful` and `ClientsStayAccountedFor`: with that, what `MpServerProofs` and
  `MpClientProofs` show of the two sides holds in the composition. (`NoSyncIsOverdue` is not among
  it: it wants rates above zero, and in the composition actors are always due.)

`MpGameProofs`, for any set of remote players, any packets and any bounds:

* `GameTypeCorrect`; `PlaysOnOwnTableAlways` from `TableInv` (the handler is entered with the table
  of the session, and the session moves on only in the menu); `CallbacksAlwaysFindTable` from
  `CallbackInv` (an attempt that nobody gave up is watched by the menu up to the tick in which it is
  connected, and that tick calls nothing back and allocates the table). `MpClientProofs` is
  instantiated for the one client of the game.
* `GameClientStaysAccountedFor`: the properties of the client hold of the one in the game. A step of
  the game is a step of its client or leaves the link, the queue and the handshake alone
  (`StepsOfTheClient`). It is not a behaviour of `MpClient` in full, which runs all callbacks in
  the step that hands them over where the game runs them one by one.

`InjectionProofs`; the two processes have no parameters but the value of a missing file:

* `PatcherTypeCorrect`, `OriginalAlwaysSurvives` and `PatchesAllOrNothing`, from `FilesInv` (there
  is no whole backup but that of the original, and there is one before anything is written) and
  `ProgressInv` (what has been written, and what is in the buffer, follows from the place in `main`).
  `PatchesAllOrNothing` has the limits of its property: a disk that works and a run that ends.
* `DllTypeCorrect`, `ConsoleAlwaysRestored` and `GameStaysSafe`, from `LifeInv` (what the places of
  the two threads say of hooks, memory and the mapped DLL) and `ConsoleInv`.

`QueueProofs`, for every set of users and every `MaxOffers`:

* `QueueTypeCorrect`: `QueueTypeOK`, with which the count never exceeds what was allocated. It
  needs `CallsAreOnTheirWay`: who is past the lock holds the mutex, who writes an item has a place
  for it, who is about to lower the count has something to lower, and while nobody has a queue
  nobody calls one.
* `QueueImplementsLine`: every step of `Queue` is a step of `Line` or none. The mapping `InLine`
  puts the item that a dequeue has read in front again while the count still includes it; that taking
  is then the head of a FIFO line, or the end of a LIFO one, is `HeadTailOfLine` and
  `FrontOfCounted` in `SequenceLemmas`.

and, for every set of threads, every set of integers as priorities and every `MaxArrivals`:

* `PQueueTypeCorrect` and `PQueueIsSorted`, which states `SortedWhenUnlocked`. Being sorted is not
  inductive: between the append and the end of the search it is false. `SearchInv` says what holds
  then: the array without its last item is ordered, what is left of `lo` comes before the new item
  and what is from `hi` on comes after it. `Precedes` orders equal priorities by arrival, in the
  direction of the type, so that the order is strict; it needs that the new item is the newest.
  `MovedIsOrdered` is the final `memmove`.
* `PQueueImplementsPriorityQueue`: every call takes effect once, between its beginning and its
  return. An append is the abstract `Add`, the search and the move change nothing that a caller can
  see, and the last item of an ordered array has the highest priority, as `Take` asks
  (`LastIsTaken`). `Take` does not say which of several such items it is.

`ListMapProofs`, for every set of integers as keys and any values:

* `MapTypeCorrect` and `KeysAlwaysAscend`. `SearchFindsPlace` is the binary search: by induction
  over the turns, all keys left of `lo` are smaller and all from `hi` on are larger, and each turn
  narrows what is left, so that as many turns as entries are enough. `InsertionAscends` and
  `RemovalAscends` are the two `memmove`s.
* `MapImplementsDictionary`: each call, with the key and datum it was given, does to the dictionary
  what it promises, and an insertion that is refused has found its key or no memory. The ascending array is a function of its keys (`DictProperties`),
  inserting adds one pair to it and erasing removes one (`InsertionInserts`, `RemovalErases`).

and, for every heap, any data and callers as in `CarefulSpec` (finding 4 is why it takes them):

* `ListTypeCorrect`, `WalksAlwaysStayInside` and `ListImplementsDeque`, which says of each call that
  it works on its own end or with its own datum and is complete when it returns, from `ListInv`: there is a
  `Path`, a sequence of distinct cells whose links lead from each to the next and back, from `front`
  to `back`; between calls it is all that is allocated; during a walk both ends are closed and the
  cursor is on it or past its end; while the list is cleared, what is behind the cursor is gone and
  what is in front of it still there. `AppendedPath`, `PrependedPath` and `ShortenedPath` say what
  pushing, popping and `remove_item_` do to such a path and to the data along it, and
  `LinksLeadAlong`, by induction, that following the links walks it.

Assumptions: the absent values (`None`, `Null`, `NoData`, `NoFile`, `NoThread`, `NoUser`, `NoQueue`)
are not members of the sets that they are told apart from, bounds are natural numbers, a clock has
a positive width, the server has 1..255 slots, keys and priorities are integers and there is a
priority. TLC evaluates each of them in some run.

Only model-checked: liveness under fairness, which is out of this prover's reach
(`PlayersKeepMeeting`, `FreshAttemptEnds`, `HeardOfIsSpawned`, `InstallationEnds`, `MutexIsReleased`,
`OwnerLeaves`, `WalksEnd`). Induction over data is done without the library's induction theorems,
which take an operator as a parameter: `SmallestIn` gives a non-empty set of numbers its least
member, and `Induction` and `Recursion` follow for sets and functions.

## 7. Findings

1. `asmp-server/src/server.c:248`: a client that inherits a slot and has sent no actor yet is
   relayed with the actor of the client before it; the comment above says that such players are
   ignored. A leave clears only `is_connected`.
2. `asmp-dll/src/multiplayer/client/client.c:367`: a disconnect in the middle of an attempt leaves
   `connecting_substate`; the next session starts by waiting for an answer to a request that it
   never sends. The header promises that all data of the session is cleared.
3. `common/.../pqueue/pqueue.c:53`: among equal priorities a FIFO queue gives the newest item and
   a LIFO queue the oldest; the unit test expects the opposite. The abstract `PriorityQueue`
   takes neither side: it leaves the order of equals open, so that everything else about the queue
   is checked.
4. `common/.../list/list.c:152`: a pop leaves the new end linked to the freed cell; a later
   removal by data or clear walks into it. `CarefulNext`, under which the list is checked to be a
   deque, keeps callers from walking a list whose end is open in this way.

Observed while modelling, each reachable in the models but without a run of its own:

* `client.c:161`: the connection request is sent once, by a call that promises no delivery, and the
  client then waits for the answer or for the end of the link. If the request or the answer is lost
  while the link stands, it waits for ever. `multiplayer_protocol.h:8` defines a
  `MP_RECV_TIMEOUT_MS`, which nothing uses. `FreshAttemptEnds` says that a clean attempt waits for
  ever in no other case.
* `multiplayer.c:972`: the connected handler keeps running after the client has lost the server
  (its comment at line 247 says that it is called while the client is connected). It goes on
  moving the players of a table that stays allocated.
* `multiplayer.c:458`: between the write of a trampoline hook and the store of its original the
  game's thread may call through a member of `mp_` that is not set; `README.md:97` speaks of an
  injection before the game loop, but the DLL's thread begins only when `LoadLibraryA` has been
  left.
* `multiplayer.c:928`: if a later hook cannot be set the earlier ones stay, and call into a freed
  client, a null `mp_` and unmapped code. `dllmain.c:98` does the same after F12.
* `console.c:49`: a console whose redirection fails stays open: `console_init` reports the failure,
  and `console_destroy` is called only after a success.
* `asmp-exe-patcher/src/main.c:121` and `:189`: nobody looks at the result of `fclose`, which
  writes the last block. A disk that fails there leaves a backup that is cut off next to a
  patched executable, or an executable without its last patch after the message of success.
* `server.c:82`: the answer to a request goes to an id, after the whole update. If its sender has
  left in that update and somebody else has got the slot, the newcomer gets the answer and begins to
  play, under the old name until its own request is handled; `ConnectedClientIsPlayer` allows for it.
* `multiplayer.c:871`: between the server's answer and the state CONNECTED, the health bars are
  drawn from the table of the last session with the new server's number of players.

## 8. What is not modelled, and why

* Drawing (health bars, names, the scoreboard, `console_log`) and the layouts and addresses of the
  game: output and reverse-engineered data, with no logic of their own. Nothing calls the
  scoreboard.
* Packing of packets and string conversions: a name or an actor is the token of who wrote it.
  Buffer sizes (1024 bytes, far above what four clients need) are left out for the same reason.
* `mp_server_destroy`, never reached.
* What the hooks do to the multiplayer state is in `MpGame`, when they may run in `DllLife`; the two
  are not composed: a hook that is sound touches the state on the game's thread only.
* Power failures, which lose more than a killed process does, and names of files.
* The wrappers of memory, threads and time; what others rely on is stated where they use it.
* `pqueue_get_items_number` and `queue_get_items_number` read the count without the mutex: a
  number that may be old when it arrives, and nothing is said of it.

## 9. Plan

Done: server, client, their composition, the game layer, four containers, the patcher and the
DLL's life, the proofs of all their safety properties and refinements, and that what is proved of the
server and the client carries over to the composition and the game. Next, in this order:

1. The safety half of what liveness needs: that whoever waits has a step that ends the waiting.
2. Game and session composed: two games against one server, for what a player sees.
