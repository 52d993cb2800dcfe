# TLA+ models of hmlb

hmlb is a homelab repository: manifests for a cluster, container images, and a few programs of
its own. The programs are what is modelled here: **flappy-race** (`images/flappy-race`), a
multiplayer game with an authoritative server and a reconnecting client; **llamastack-proxy** and
**openwebui-openhands-proxy**, two HTTP proxies in front of language models; the **Mastodon sync** of the blog;
and **skel-link**, which ties home directories to the desktop image. All are model-checked with TLC. All safety the runs
check is proved with TLAPS besides, of the server and its clients, the proxies, the sync and skel-link, for every number of
players, connections, requests, pipes, posts and files; whatever must eventually happen is model-checked only.

Paths are relative to the repository's `images`; of flappy-race, `hub.go`, `client.go` and `store.go` are those of
`internal/server`, `world.go` and `rank.go` those of `internal/game`.

## 1. Inventory

| Component | State it keeps | Operations | Hard behaviour | What makes it correct | Model |
|---|---|---|---|---|---|
| hub (`hub.go`, membership in `world.go`) | player map, join order, name table, race state, world, display data, results, queued impulses, themes | join, flap, leave, 60 Hz tick | any order of three event kinds, ticks and the clock; leaves in every race state; names that collide; the wall clock | registry views agree; race and players agree; frames are current; each race counted once; everybody gets to race | `RaceHub`, `RaceCycle`, `RaceClock` |
| transport (`client.go`, `submit`, `Run`) | event channel (128), one send queue (64) per connection, sockets, reply channels | readPump, writePump, submit, enqueue, close, shutdown | three goroutines per connection pair, drop-oldest racing with the writer, a 2 s give-up, broken sockets, shutdown | no send on a closed queue; newest frame kept; both halves end together; the hub never blocks | `Transport`, `Connections` |
| store (`store.go`) | players in memory, `state.json`, served top list | LookupBird, RememberBird, RecordRace, save, OpenStore | crash between write and rename, failed saves, unreadable file | the file is always an old or the new state; list derived from players | `Store`, `AtomicStore` |
| world and ranking (`world.go`, `rank.go`, `rng.go`) | birds, pipes, difficulty | AddBird, RemoveBird, KillLeft, Step, Results | order of death, leave and force-finish; speed against collision steps | nobody through a pipe, each pipe once; ranking by survival | `World` |
| wire protocol (`internal/protocol`) | none | marshalling, ValidateName | limits | both sides agree | `ValidName`, frames where they are sent and read |
| client connection (`client/net.go`, `game.go`, `backoff.go`, `session.go`) | connection, attempt, retry timer, session name | Dial, Join, read and write loops, pumpNet, reconnect | restarts, refusals while rejoining, sessions not yet known dead, three goroutines | one connection at a time; stops for a refusal only; gets back in | `Reconnect`, `Feed` |
| client clock and ring (`clock.go`, `interp.go`) | offset, eight snapshots | Sample, Push, Interp | samples of any lateness, a moved clock, a server's clock set back, drop-oldest against the render loop | newest snapshot arrives; ring in order; frames within it; estimate holds | `Clock`, `Feed`, `RaceClock` |
| client overlay (`hud.go`) | none | DeriveHUD | estimates and stale snapshots | agrees with the results and the hub | `World`, `RaceClock` |
| client drawing, input | one frame | Draw, enterName | - | - | not modelled: rendering |
| llamastack-proxy (`main.go`) | tool cache under a lock, per-request message list | refresh, selection, chat loop, tool calls | concurrent and partial refreshes, tools that move, rounds | what is offered can be run; blacklist; well-formed lists; ten rounds at most | `ToolCache`, `ChatLoop` |
| openwebui-openhands-proxy (`main.go`) | thread to conversation map and its file | get, forward, retry, set, save | concurrent first turns, upstream errors, a save that fails or is cut off | threads never mix; one conversation per thread; the file is an old or the new map | `Conversations`, `AtomicStore` |
| blog-klimlive sync (`internal/mastodon`) | front matter of posts and translations, toots | find, post, write back, spread | crash between post and write back, failed search | one toot per post; ids match | `TootSync`, `TootText` |
| skel-link (`desktop/usr/bin`) | entries of `$HOME` | link, copy, keep, replace | killed runs, nested copy paths, edits in between | local changes kept unless forced; the rest follows | `SkelLink` |
| start and operator scripts, file server, telemetry | - | - | - | - | not modelled: wrappers around other programs, stateless |
| manifests, workflows, Containerfiles | - | - | - | - | not modelled: declarative, interpreted by other programs |

### How the parts of flappy-race interact

```
 browser/native client                       server process
 ---------------------      +-----------------------------------------------+
  Game -- Net  <==socket==> | readPump --submit--> events(128) --> Hub.Run  |
                            | writePump <--- send(64, drop oldest) -- hub   |-- Store -- state.json
                            +-----------------------------------------------+
```

* One goroutine, `Hub.Run`, owns the registry, the race and the store. It serves the event channel
  and a 60 Hz ticker, one handler at a time.
* Each websocket has a reader, which submits a join, flaps and finally a leave, and a writer, fed
  by a queue only the hub fills and closes.
* A join is answered through a buffered reply channel that its reader waits on.
* The hub calls the store synchronously: a bird is looked up or remembered at a join, and a finished race
  is recorded before its results are shown.

The other programs stand alone. Each proxy serves its requests concurrently over one piece of shared state
(the tool cache, the conversation map); the sync and skel-link are run by a timer or at login and share only files with
their next run and with the user.

## 2. Modules

| Module | Models | Role |
|---|---|---|
| `RaceCycle` | the state machine in the comment of `type Hub`, told by players | abstract specification |
| `Connections` | the life of a connection as the hub sees it: accepted at most once, never back | abstract specification |
| `AtomicStore` | a file that is only replaced by the whole of what memory holds | abstract specification |
| `RaceHub` | the handlers of `hub.go`, World membership, the store's memory | implements `RaceCycle` and `Connections` |
| `Transport` | readers, writers, channels, the hub one select at a time, `Run`'s end | implements `Connections` |
| `Store` | the state file of flappy-race, a save's steps, its failures and crashes | implements `AtomicStore` |
| `World` | a race's physics, course, scores and ranking; the order of the overlay | |
| `RaceClock` | the hub's timers and a client's view of them on a clock that may be set | uses `Clock` |
| `Reconnect` | the client's connection over losses, refusals and restarts | |
| `Feed` | a snapshot's way from the reader over the channel and the ring to the frame | |
| `Clock` | the client's estimate of the server's clock | |
| `ToolCache` | the tool cache of llamastack-proxy under concurrent requests | |
| `ChatLoop` | one chat completion of llamastack-proxy | |
| `Conversations` | the handler of openwebui-openhands-proxy and its map | implements `AtomicStore` |
| `TootSync`, `TootText` | the sync of posts; the text of a toot by its lengths | |
| `SkelLink` | runs of skel-link over a home directory | |
| `Sorting` | the sorted list of a set, for `rebuildTop`, `Results` and `DeriveHUD` | used by `Store` and `World` |
| `Services` | `Conversations`, `ToolCache`, `ChatLoop`, `TootSync` side by side | one instance of each, checked and proved together |
| `Client` | `Reconnect`, `Clock`, `RaceClock` side by side | the same |
| `Local` | `Store`, `World`, `Feed`, `TootText`, `SkelLink` side by side | the same |
| `MCRaceHub`, `MCTransport`, `MCReconnect`, `MCServices`, `MCClient`, `MCLocal` | - | values of constants, symmetry |
| `RaceCycle_proofs` | - | the invariants of the race cycle, proved |
| `RaceHub_proofs` | - | invariants, birds, race counts, themes and frames of the hub; that it implements `RaceCycle` and `Connections`, proved |
| `Transport_proofs` | - | the transport's invariants, and that it implements `Connections`, proved |
| `Services_proofs` | - | the safety of the two proxies and of the sync, proved |
| `Client_proofs` | - | the safety of the client's connection, of its clock and of its display, proved |
| `LocalRace_proofs`, `Local_proofs` | - | the safety of the race, and that of the other parts of `Local`, proved |
| `OrderLemmas` | - | lists without repetition, queues, least elements, sorting: lemmas for the proofs |

`RaceHub` and `Transport` are two views of one server. `RaceHub` treats a handler as atomic, which it
is for everything the hub goroutine owns, and leaves out the channels. `Transport` takes the
handlers apart into their channel operations and leaves open what a handler decides. `Connections`
is what the two agree on. `World` fills in the physics and `RaceClock` the clock that `RaceHub` leaves open; `Store` the
file behind its `store`. `AtomicStore` is instantiated by two programs that save a map in the same
way: a temporary file, then a rename.

### Side by side

`Services`, `Client` and `Local` put components together that share no state. A behaviour is about the one chosen at the start
(`service`, `part`); the others stay in an initial state. Interleaving them would add states and no
question: no action of one reads or writes a variable of another, so each component's behaviours are exactly those
of its own specification, stuttering added. A property is the component's own, asked while that component runs; an
action property is asked of all steps, since the others' steps leave its variables alone. Fairness is asked of
the steps of the component that runs, as its own specification has it. Where two components have one variable
name, the instance renames it (`pc <- cachePc`). The assumptions a component makes on its constants
are definitions (`StoreAssumption`, ...), which the composition assumes of its constants; `MCServices`, `MCClient` and `MCLocal` extend it
and give the values, so TLC evaluates the assumptions and the proofs may use them.

### RaceHub and the code

| Code | Definition |
|---|---|
| `Hub.players`, `order`, `names`, `nextID` | `players`, `order`, `names`, `nextID` |
| `st`, `goAt - now` or `finishAt - now`, `now - lastSnap >= snapshotEvery` | `st`, `timer`, `snapDue` |
| `world`, `World.Tick`, `World.Birds`, `raceInfo`, `results`, `pendingFlaps` | `hasWorld`, `tick`, `birds`, `raceInfo`, `results`, `pending` |
| `theme`, `lastTheme` | the same |
| the state file's players | `store`: bird and number of races of a name |
| a connection's reader, its `sess`, its queue's state | `pump`, `sess`, `closed`; a send to a closed queue sets `crashed` |
| the newest frame a client has been sent | `seen`, a history of outputs |
| `handleJoin` | `Join`, `Reject` |
| `handleFlap` | `Flap` |
| `handleLeave` | `Leave` with `LeaveCountdown`, `LeaveRacing`, `LeaveFinished`; `LeaveUnjoined` |
| `tick` | `Tick` with one disjunct per race state |
| `beginCountdown`, `pickTheme`, `admitRacer`, `finishRace`, `uniqueName`, `broadcast`, `maybeSnapshot` | operators of the same names |
| the wall clock | `PeriodElapses`, `SnapshotFallsDue`, `SecondBegins` |

Abstractions: physics (any of the fliers may die at a tick), random draws (any value), ranks and
scores (who is ranked is kept, not the order), frame contents (state, race, racers, leavers, who is
ranked). A name is a base and the list of suffixes `uniqueName` has put behind it, so that asking for
`"ada 2"` collides with the second `"ada"`. A handler that sends nothing leaves `seen` alone; the broadcast
is the last thing a handler does before closing a queue, so it shows the handler's final state.

### Transport and the code

`todo` is the rest of the handler the hub is in: `send`, `drop`, `close` and reply operations, each a
single channel operation, so that the writer may take a frame between `enqueue`'s two selects
(`client.go:42-52`). `reader` follows `readPump` through the join, its wait in `submit`, its wait for the
reply, the session and the deferred leave. `SubmitTimesOut` is the two-second branch of `submit`: it is enabled only
while the channel is full, because a sender parked on a full channel is served as soon as there is room.
A frame is the number of its send, so order and loss are visible. `Tick` stands for any broadcasting
tick.

### World and the code

Lengths are whole numbers and the constants of `const.go` are parameters; a speed-up by 6.25 % is `RampNum / RampDen`,
rounded down. `Step` is one action: ramp, flight (`Flown`), scrolling and dropping (`Kept`), spawning (`Spawned`, with
each gap `Drawn` near the one before it and the generator's draws left open), then per bird the collisions and the score (`Judged`). A bird's loop over the pipes
to score becomes the set of pipes it scores (`Scoring`): its next one, and those right after it, as far as they are behind.
`Over` is when the hub takes the results; `NewWorld` starts the next race. `Above` and `HudAbove` are the two comparators.
The overlay's cut to eight rows, the parallax distance and the flap animation are left out.

### RaceClock, Clock and the code

The unit is a tick of the hub. All times are relative to `now`: `left` is `goAt - now` or `finishAt - now`, `since` is
`now - lastSnap`, a kept snapshot has its `goAt` and its `now` less the present. Setting the clock moves them all
(`SetClock`), as does a tick. The client's estimate is kept as its error, folded by `Clock`'s `Fold` over an `INSTANCE`. Snapshots
arrive at once and in order (`Feed` and `Transport` have the delays). `Rebroadcast` is a join or leave of somebody else.
In `Clock` an estimate is one of the whole numbers next to the moving average.

### Reconnect, Feed and the code

`Reconnect` has a client's goroutines: the render loop (`PumpNet`, then `StartDial` or `Reconnect`, as in `Update`), the
attempt (`Dial`, `Join`; `dial` says how far it is) and the reader and writer of each connection (`ReadFrame`,
`ReadFails`, `WriteFails`, all failing through `Failed`). A connection is a record of both ends: whether the socket is up,
what is on its way to the client, what the client's reader has queued and kept as its first error, and what the
server makes of it (accepted, asked to join, a session, gone). `Break` takes down a socket without the server
noticing; `HandleLeave` is when it does. `fail`'s error and its close are one step: nothing reads the one without the
other. A name is a base and the suffixes put behind it; a suffix is two characters long.

`Feed` has `pushSnap`'s three selects as three steps (`Send`, `Drop`, `Retry`), between which the render loop may
drain the channel (`Receive`). `Interp` says which two snapshots a frame lies between, and how far.

### Store and Conversations and the code

A save is a write of the temporary file and a rename, in both programs each a step of its own that may fail, with the
process ending before, within or between them. In `Store` the hub's goroutine saves (`write`, `rename`, then `publish`); `blind` marks a
start that found a file it could not read, after which the next save replaces it, and a race writes its birds and counts (`Folded`).
`Conversations` follows each request through `lookup`, `forward`, `retry`, `record`, `write` and `rename`; the mutex is taken by `record`
and held over the last two (`Unlock` is the deferred one). `tmp` is torn unless a write has just succeeded: the code never reads the temporary file
and writes it anew, so what a failed save leaves of it does not matter. `excused` collects the reasons a thread may have for a second conversation: an upstream
error, an answer without an id, a mapping lost with the process, two turns at once.

### ToolCache, ChatLoop and the code

`ToolCache` cuts a refresh into its three critical sections (`ask` and `assign`; `lock`, `fetch` per group; `index`), and a request
into its check, selection, read of tools and chat, in which tools are looked up again. The score of a group is
whether one of its keywords is in the message. A tool is one name; tools that have an identifier only are left out (section 5). `ChatLoop` is one handler: `Repair` runs the tools of messages without
content, then `Prepare`, and `Forward` and `Run` alternate. `ran` lists what was run: the call, by its message and its place there, and the message
the result went to; one call may be in it several times. A message is its role, its calls or the call it answers,
and whether its content is text, blank or empty. Tools return a text whatever happens.

### TootSync, TootText, SkelLink and the code

`TootSync` is the loop of `Sync` over the posts in directory order: `search`, `post`, `write`, `spread` over the
translations, with the run killed anywhere, and the owner tooting, deleting marks, writing posts and translations in between. A search sees the
`Window` newest toots. `TootText` has `composeToot` by lengths in bytes. `SkelLink` handles one path per step in the order of
the script's `find`, a replacement in two (`remove`, `put`), so that a run may be killed between and inside them. The user
edits between runs, and during a run what is being replaced; `op.late` is what was edited after its comparison. The
contents of a file are a version of the image or `Mine`.

## 3. Runs

| Run | Bounds | Shows |
|---|---|---|
| `hub_safety` | 3 connections, a base and its first suffix, 2 birds, 2 themes, 1 flap per second, 2 ticks per race, 2 countdowns | all safety of the hub, and that it implements `RaceCycle` |
| `hub_liveness` | 3 connections, 2 seats, 2 countdowns | races end, everyone races, `Connections` with its player limit |
| `transport_safety` | 2 connections, event channel of 1, queues of 2, 1 tick | no send on a closed queue; newest frame kept, frames in order, clean ends flush; sessions agree |
| `transport_liveness` | 2 connections, 1 seat, all channels of 1 | the hub never stalls, joins answered, both halves end, `Connections` |
| `services` | `Conversations`: 2 requests, 2 threads, 2 conversations; `ToolCache`: 2 requests, 2 groups, 2 tools, one of them blacklisted, 2 catalogues; `ChatLoop`: 3 rounds of 2 calls, 5 histories; `TootSync`: 2 posts, 1 translation, 2 faults | isolation and one conversation per thread; map and file as `AtomicStore`; what is offered can be run; lists well formed, the model's calls run once each; one toot; everyone served |
| `client` | `Reconnect`: 3 connections, 2 faults, 3 seats, 2 joins of others, names short, at the limit and too long; `Clock`: offsets 0, 26, 60 around a threshold of 25, 4 rejections resync, samples off by up to 2 (ordinary), by 20 or 40, and by 51 either way (far); `RaceClock`: 2 settings by -6 and 5 ticks, countdown of 9 | one connection, losses not terminal; estimate and display recover; back in the game, phases go on |
| `local` | `Store`: 2 names, 2 birds, a list of 1, 2 flights; `World`: 2 birds, 11 ticks, speed 2 to 3, 3 pipes passed; `Feed`: 5 snapshots, channel of 2, ring of 3, clock set back once; `TootText`: all lengths around a limit of 24; `SkelLink`: 2 edits, 1 update of the image, all options | file whole, never behind what was saved, caught up by the next save; course met, scored and ranked right; newest snapshot delivered; summaries cut inside; what is the user's kept, the rest follows |
| `hub_impulse`, `hub_leavers`, `hub_themes`, `transport_ghosts`, `reconnect_long` | as above, or smaller | the disagreements of section 6 that have a run |

Why the bounds suffice. Three connections give a racer, a second racer and a spectator, a leaver
with somebody left and a returning name; two races give the state the first leaves behind to the second
(impulses, themes, ids of leavers, records). One suffix is what a third party can collide with. Two
ticks let a bird die at the first tick, at the force-finish, or not at all. A channel of one is full after
one event, so every wait and time-out of `submit` happens; a queue of two distinguishes dropping the
oldest from dropping the newest. Symmetry (connections, birds) is used in safety runs only. The
themes run takes the code's four themes; with two the theme after the first race is determined.
In `World` a bird can be steered through three pipes, so pipes are dropped, the race has become faster and its gaps
smaller, and the force-finish is reached with birds alive and dead. In `Reconnect` three connections are a first one, one lost while the
server still holds its session, and the one after that; two faults are a loss and a second one during the recovery. The third seat
makes the server full when two others came. In `RaceClock` two settings may add up or undo each other, and 20 ticks are enough: both steps back
and the resync of the client's clock take 18, and with 16 the run fails. In `Feed` five snapshots fill channel and ring together. In `Store` two names over a list
of one make a name fall off it. Two requests are enough wherever they meet at one lock: a third would only wait. In `ChatLoop` the third round
is the last, whose results are thrown away; its histories have a call with two results without content, an id that two turns used, and a result without a
call. In `Clock` a sample off by 20 is averaged in by a good estimate, one by 40 only by an estimate that others have moved before, and one by 51 by none that is
within the threshold; the threshold is just above `2 * Weight * Jitter`, the limit of `ClockAssumption`.

`CHECK_DEADLOCK FALSE` in the transport runs: a server that has been shut down with all its
connections gone does nothing more, and readers whose join came after the end wait for good. Likewise in
the side-by-side runs: a refused client has ended (`Reconnect`), and a bounded number of snapshots, one request or one text
comes to its end (`Feed`, `ChatLoop`, `TootText`). That nobody waits for ever for a lock is `EveryoneServed`.
The hub's runs check deadlock (an idle hub still ticks).

Properties worth a remark:

* `RegistryCoherent`: `beginCountdown` dereferences `players[id]` for each id of `order`.
* `FramesCurrent`: the newest frame queued to every player shows the state, race, racers, leavers and
  ranking as they are. The deaths within a tick are left to the snapshot cadence, by design.
* `RacesRecordedOnce`: an action property over every step: only the end of a race changes a race count, by
  one, for exactly the names that flew.
* `SessionsAgree`: a registered player's reader is alive, or its leave is on its way, or was lost by
  the time-out; and a reader in a session is a registered player.
* `FramesDelivered` joins three facts of a queue: the newest frame survives every overflow, frames are written in the
  order they were sent, and a client that is refused receives the error frame, because closing the queue
  does not discard what is in it.
* `FairRanking`: `Results` sorts by score first; that the result is the order of deaths needs that a bird never has
  a score another living one does not have. A bird that dies in the very last tick and one that survives it have the same
  death tick, by the comment of `Results`, so the id decides between them; the overlay puts the survivor first, and the part
  that compares overlay and results stops before that tick.
* `FairCourse`: that no pipe is flown through rests on the cap of the ramp being below a pipe's width (`WorldAssumption`), as
  it is in `const.go`.
* `OneConnection`: the attempt's goroutine hands over a running connection, whose reader may already have queued
  snapshots; `Reset` must come before they are drained, and nothing of the old connection after it.
* `BackInGame`: the player is in the game or was refused, infinitely often, and so is every phase of the race. Since faults and
  settings of the clock are bounded this says that recovery ends.
* `Settles` asks of the estimate what depends on the samples that came, whatever they were: within the threshold from `jumpsBeforeResync` ordinary
  samples in a row, through ordinary and far ones, until as many far ones came in a row; after any other sample no further off than the
  worst one since. That samples in between move the estimate is the code's average, not a fault of it.
* `ResultsSeen` is about calls: each call the model makes is run once and its result put in its place. A call of the client's history may be run several
  times, once for each result without content that the client sent for it (section 6).
* `OneToot`, `OneConversation`: exactly-once up to a named excuse, which the model records when it happens (`blind`, `excused`).
* `ImplementsAtomicStore` of `local` is the refinement, and that a start never loses what the file has but for one it cannot read. That of `services` needs the
  mutex over the whole save, and that a failed write ends it: a torn file must not be renamed, nor one that an older map was written to.
* `EveryoneServed` assumes that LlamaStack and the gateway answer or break off (below). The hang of a request without a time-out under the write lock is thus
  not caught but assumed away.
* `KeptOrFollowed` is an action property over every step of a run, not over its result: a run may be killed at any step. It
  speaks of what the user had when it was compared; what is written after that is lost (section 6).

### Fairness

`RaceHub`: weak fairness of `Tick` and of `PeriodElapses`. `Run` selects among ready channels at random, so
the ticker's is served infinitely often, and the wall clock advances. Nobody must join, flap, leave.
`EveryoneRaces` excuses a player only when the bound on countdowns has been reached.

`Transport`: weak fairness of the hub's next channel operation, of serving the event channel, of
every reader that can go on and of every writer with something to do. The reader's fairness rests on
the join deadline (`client.go:94`), on reads failing once this side has closed the socket, and on the
two-second timer. No read or write is required to fail and `Shutdown` need not happen: `BothHalvesEnd` does not rely on
them.

`Reconnect`: weak fairness of each goroutine's next step, of the timer, of the server answering a join and noticing a loss, and
of its restart (the cluster restarts it). Nobody need play, and faults are bounded, which is what "once nothing fails any more" means.
`RaceClock`: the ticker. `ToolCache`, `Conversations`: strong fairness of a request's next step, because Go's mutexes do
not starve and upstream calls end in an answer or an error. Of the gateway the client's half hour sees to that. Of LlamaStack nothing in the code does:
`refreshAllTools` asks with `http.Get`, which has no time-out, under the write lock (`llamastack-proxy/main.go:359`; the request for the
groups, at 319, has none either but holds no lock), so one that is never answered holds the lock for good, and every chat with it. The assumption is about
LlamaStack, and what is shown is that the proxy itself never keeps the lock. `ChatLoop`: the handler goes on. `TootSync`: the
sync is run again and again (a timer) and gets on. In `Services` these are one strong fairness per request (`Serve`): a component
has one or two, and only the one that runs can take steps. Where a component's own specification has weak fairness of the same
action (`ChatLoop`, `TootSync`) nothing else can disable it for good, so the two agree. `Client` keeps each component's own. `Store`, `World`, `Feed`, `Clock`, `SkelLink` and `TootText` claim no liveness.

## 4. Proofs

All by TLAPS, for any value of the constants that satisfies `ConstantsAssumption` (non-empty birds, positive
limits, at least two themes), for `Transport` `CapacityAssumption` (positive capacities; `MaxTicks`, the model's
bound on ticks, any number), and for the components side by side `ServicesAssumption`, `LocalAssumption` and `ClientAssumption`, the conjunction of theirs
(types; that the names for "nothing", "torn" and the like are different; for `World`, what `const.go` has: a ramp
that stays below a pipe's width and below the bird's distance from the left edge, room for a gap). Those of the client's clocks
bound what happens to them. `Clock`: samples are off by anything; a sample counts as ordinary when it is off by at most `JumpReject / (2 * Weight)`, 25 ms with
`clock.go`'s constants, and as far when by more than twice the threshold. With a wider notion of ordinary the average could stay so far off that some
ordinary samples go on being rejected; what is promised would not hold. `RaceClock`: the calm
asked for is as long as all settings together and a row of rejected snapshots.

* `RaceCycle_proofs`: `Coherence` (`Spec => [](TypeOK /\ Coherent)`, inductive as it stands) and `FieldStaysFixed`.
* `RaceHub_proofs`: `TypeCorrect`, `RegistryStaysCoherent`, `HubNeverPanics`, `RosterStaysCoherent`, all
  from one inductive invariant `IInv == TypeOK /\ SessionInv /\ RegistryInv /\ RaceInv`; `BirdsStayRemembered`, `BirdsNeverChange`, `RacesCountedOnce`, `ThemesStayFresh`,
  `FramesStayCurrent`, each inductive relative to `IInv`; `HubImplementsRaceCycle` and `HubImplementsConnections`, from the same invariant.
* `Transport_proofs`: `Typed`, `NoSend`, `Sessions`, `Delivery`, from one inductive invariant of the transport, and
  `TransportImplementsConnections`.
* `Services_proofs`: `ServicesTyped`, `ServicesKeepContinuity`, `ServicesImplementAtomicStore`, `ServicesKeepCacheConsistent`,
  `ServicesShowResults`, `ServicesAnnounceOnce`: all properties of the run `services` but `EveryoneServed`. Each rests on a theorem about the one
  component (`ThreadsKeepTheirConversation`, `CacheStaysConsistent`, ...).
* `Client_proofs`: `ClientTyped`, `ClientHasOneConnection`, `ClientSettles`: all properties of the run `client` but `BackInGame`, each from a theorem
  about the one component (`PlayerHasOneConnection`, `EstimateRecovers`, `DisplaySettles`).
* `LocalRace_proofs`: `CourseIsFair`, `BirdsAreRankedFairly`.
* `Local_proofs`: `LocalTyped`, `LocalFileCurrent`, `LocalRanksFairly`, `LocalFeedFaithful`, `LocalCutsInside`,
  `LocalImplementsAtomicStore`, `LocalCourseIsFair`, `LocalKeepsOrFollows`: all properties of the run `local`.

The argument. `RegistryCoherent` is not inductive: `Leave(c)` unregisters the id its reader holds,
so `SessionInv` says that a playing reader's id is a player whose connection it is, that no two readers share
one, and that only stopped or refused readers have a closed queue; from the last part follows that no broadcast,
which goes to registered players only, meets a closed queue. `RosterCoherent` needs that `waiting` means
no players, that a countdown's birds are exactly the players under their current names, that every bird's id
was given to some connection (so a new id never meets an old bird), and that in a race the fliers are
players (so a leaver's bird is the one that dies). The proof goes by what each action does to the registry
(`RegistryNext`) and to the race (`RaceNext`), then to frames and store (`SeenNext`, `StoreNext`); list facts
about `RemoveFirst` and `Append` on lists without repetition come first (`RemoveFirstOnce`, `AppendNew` of `OrderLemmas`).

The refinements. `IInv` holds on both sides of a step, and says most of what an abstract step asks for:
`Mapped` restates it of the abstract state (no members exactly while waiting; the field of a countdown is the
members; the fliers of a race are live members), so an abstract phase is told by `st` alone. A join is an abstract
arrival, a leave a departure that ends the race when the last player goes, a tick a beat, and
whatever else the hub does leaves the abstract state as it was. `Connections` asks in addition that the members
are at most `MaxPlayers`: `PlayingCounted` pairs each registered id with the one connection that holds it, which turns
`len(h.players)` into a number of connections.

The promises. A step records the race it ends or adds the name that joined (`StoreNext`); a
record writes the birds of `raceInfo`, which are the remembered ones (`KeepsBirds`), and adds one to the names of the
birds, which are distinct (`RecordRaceWrites`). Every step broadcasts, or leaves what a
snapshot shows as it was, or nobody is connected (`NextShows`); a broadcast reaches all players because the join
order lists them all.

The transport. A handler is cut into channel operations, so the invariant speaks of what is still to be done.
`EventInv`: a join in the channel has its reader wait, a leave is the last thing its reader did, and of each there is one.
`TodoInv`: no operation concerns a connection yet to join (`Fresh`); a queue with a frame to come is open and no close of it
is ahead of the frame; the answer comes last; after the shutdown only closes are left. `PlayerInv`: whoever has a session, or the answer under way, is a
player until its leave is served. `FrameInv`: queue, hand and wire hold a connection's frames from newest to oldest, the
queue without a gap, and a frame is only ever missing from the queue's end while the hub is about to put a newer one there (`Replacing`).
`NoSend` is `TodoInv` at the first operation. It needs the others: that a leaver gets no broadcast rests on the registry having no
duplicates and on every connection's leave being served once. An operation done moves the others up by one (`DoneAgrees`), one tried again
stays in front (`RetriesAgrees`), an event served is one of five outcomes (`DispatchShape`). The first three parts are kept
without `FrameInv`, which a proof of its own adds (`WriterFrames`, `HandleFrames`) from four lemmas about what happens to a frame.
For `Connections`, between handlers a connection is over exactly when its queue is closed; a handler ends it with the close it has yet to do, which is
why `Life` looks at `todo`.

The services. A behaviour of `Services` is one of each component, stuttering added (`EachByItself`), so each component has an
invariant of its own. Of the openhands proxy it is who holds what: a request that has passed the lookup holds no conversation but its own
thread's, one request saves at a time, and what it is about to rename is the map as it is, since nobody changes the map while the mutex is held (`TmpWhole`, of `ConvInv`). `OneConversation` is not about one state but about what has ever been started, so `Steady(k)` says of a thread
nothing excuses that it has one turn under way at most, none of them healing, and that each conversation ever started for it is the one that
the next turn will find: in the map, on its way to it, or in the file while the proxy is down. Of the cache it is what a half-done refresh leaves
open (`Filling`, `Settling`). Of the chat loop: the list pairs calls with results up to the place the loop has come to (`Paired`, `Running`); results go to places further and further down the list, and each
run is of the call its result answers (`Log`), so the runs of one call are for different results, and in what the loop itself appended there is only one. Of the sync: when the run is about to post, the
post has no toot of its yet, or is excused (`Announced`); what torn, restored and translated files say of a toot is about the same post (`Filed`).

The store, the feed and skel-link. `StoreInv` adds to the properties what is half done: that the temporary file about to be renamed
is memory, and that memory has only grown since the file was written. Sorting is by what it leaves: `SortExists` and `SortedSorts` show that a
finite set with a strict total order has exactly the sorted list, by counting who is ahead of each (no induction over the list is needed).
`FeedInv` counts: the channel holds the last snapshots in a row, the ring received ones. `FramesBetween` then needs that `Interp`'s choice is the last ring entry
not after the time (`AtIsNewest`). `LinkInv` describes a run by what is left to do: the trees still waiting are disjoint, their parents are
directories, and each file of skel is either settled or in a tree that waits; a replacement that is under way was allowed to take what it takes.

The race. `CourseInv` is the regular course with the room the ramp leaves. From it follows what a tick does to the pipes (`CourseSteps`): it moves
them all by less than a pipe's width, drops some from the front, and appends new ones that continue the spacing. `BirdInv` says that everyone who lives has the same next
pipe (`Tallied`), which is the first one not behind; that is what turns scores into survival (`Survivors`) and so orders the results. A pipe never skips
the birds' column because the ramp is slower than a pipe is wide (`ColumnIsMet`); whoever lives at a tick then was judged against it (`Aloft`).

The client. `PlayerInv` says who may live: the connection in use or the one of the attempt, which are never both there and each the
last one made; whoever has failed is closed; an error frame, and an error of the last kind, come from a server that let go of the player before it gave a
name (`ConnInv`). From that a refusal is told from a loss (`EndInv`), also when a connection breaks while its error frame is on the way. That a name the server finds is the player's own
with a number needs a free number, by counting players and names (`UniqueNameNamed`); that a pause has an end, that the recursive `delay` exists (`PausesExist`).
`ClockInv`: as many ordinary samples as there were in a row have been rejected, so that the last one a row may have is taken, or one was accepted, which brings the
estimate so near (`AcceptedIsNear`) that from there every ordinary one is accepted. From then on the estimate is within the threshold less the jitter as long as
only ordinary and far samples came (`Held`): a far one is rejected, and what was rejected in a row were far ones, too few for a resync. After any other it lies, as an average or a sample
itself, no further off than the worst sample since (`StaysWithin`), until enough ordinary ones came again.
`DisplayInv` measures by the calm, in turn, what a setting leaves behind: the cadence waits
at most as long as the clock was set back, a snapshot from the future is in the way as long as the clock was set ahead, and the client rejects at most
a row of samples, one per interval.

`RaceCycle` has no run of its own: `hub_safety` checks that the hub implements it, and what it promises is proved.

Only model-checked: liveness (fairness and ENABLED are outside the prover), so `RaceEnds`, `EveryoneRaces`, `HubNeverStalls`, `JoinAnswered`, `BothHalvesEnd`,
`EveryoneServed`, `BackInGame`. Recursive operators would be, too; the modules have none.

## 5. Not modelled

* Encoding of frames and files, HTTP routes, rendering, sound, input devices, telemetry.
* A loss of power that undoes writes the operating system had not yet synced (`Store`, `Conversations`): the code does not
  sync, and the models treat a completed write as durable over a crash of the process.
* In `Reconnect`: flaps; a join lost to a full event channel, after which a client would wait for its welcome (the server's
  side is `transport_ghosts`); a connection that is silently half open on the client's side, which has no read time-out.
* In `World`: floating point and the generator itself.
* A check of a remembered bird against the range of palettes (`LookupBird`): what the program saved passes it. A file edited by hand is not modelled.
* In `ToolCache`: tools that LlamaStack knows by an identifier only, the status page, and clients that bring a tool by a name nothing offered. In `ChatLoop`: the conversion of schemas, streaming of the
  final answer.
* The process's exit before the hub's shutdown has run, which `main` does not wait for: in `Transport` the writers of a
  stopped hub may take any number of further steps, none included, and in `Store` a save may be cut off anywhere.
* Start and operator scripts, the blog's file server, manifests: no state of their own.

## 6. Where documentation and code differ

* **A flap outlives its race** (`hub_impulse`). Only the racing tick clears `pendingFlaps`
  (`hub.go:332-333`). A flap followed, before the next tick, by the leave of the last flier is applied when the next race starts,
  against "ignored by construction" (`hub.go:243-244`).
* **Late leavers are not marked** (`hub_leavers`). `KillLeft` skips dead birds (`world.go:98`), so a racer that crashed
  and then left is ranked as present; `world.go:20` and `snapshot.go:34` say `Left` means it left mid-race.
* **A theme can repeat** (`hub_themes`). `lastTheme` is set when a race finishes; after an abandoned countdown the same
  theme may come again, against "never the same twice in a row" (`hub.go:357-358`).
  What does hold is `ThemeFresh`: never that of the last finished race.
* **A leave can be lost** (`transport_ghosts`). After two seconds of a full event channel `submit` gives up
  (`hub.go:179`), against "they MUST NOT be lost". The session then holds its name and seat until restart.
* **A longer name does not come back** (`reconnect_long`). `uniqueName` may make a name longer than `MaxNameLen` (`hub.go:429`); rejoining under
  it is refused as invalid, for good.

The following were met while modelling, and TLC showed each of them on these models; they follow from a line or two of code, and
no run is kept for them:

* A full server is final. The client stops for good on any error frame (`game.go:190`), "server full" included, against
  "Only a server-sent rejection (invalid name) is terminal" (`flappy-race/README.md:83`).
* A quick reconnect changes the name. While the server still holds the lost session the player becomes `name 2`, with another bird and
  record, against "re-joins under the same name" (`flappy-race/README.md:81`).
* The cadence follows the wall clock. After the clock was set back no snapshot is due until it has caught up
  (`hub.go:459`), against "broadcast ~30 times per second" (`snapshot.go:6`).
* A failed save is not repeated. `set` skips what memory already holds (`openwebui-openhands-proxy/main.go:141`), so the mapping does not
  survive a restart.
* The blacklist goes by one of two names. A tool known by its identifier only is offered although it is blacklisted (`llamastack-proxy/main.go:379`).
* A tool may be run twice in one request. A call of the client's history is run for each of its results that came without content
  (`llamastack-proxy/main.go:953-983`); nothing looks whether it was just run. The comment there ("When we find empty content, re-execute the tool
  server-side") promises no more than that.
* Content is repaired once. The loop appends messages without content after the check that ensures it (`llamastack-proxy/main.go:1055`).
* Translations are left behind. A post with an id is passed over with its translations (`sync.go:82`).
* A cut text is a byte too long. Newlines and dots are seven bytes, not six (`sync.go:158`).
* A copy path may be linked (`skel-link:118`), a torn copy is kept as modified (`:135`), an edit between comparison and removal is lost
  (`:77`).

## 7. Plan

1. Done: the modules of section 2 and the proofs of section 4.
2. Later: a composition of `Reconnect` with `Transport`, so that a client's join can be lost to a full event channel.
