# muxr-core in TLA+

A model of the parts of muxr-core (`muxrd`, with `muxr-notify` and `muxrctl`
around it) whose correctness depends on the order in which threads, tasks,
registries and connections act. The modules are translated from the Rust source;
`PROJECT.json` maps every definition to the lines it stands for.

- [The system](#the-system)
- [Modules](#modules)
- [Runs, bounds and what they show](#runs-bounds-and-what-they-show)
- [Fairness](#fairness)
- [Findings](#findings)
- [Proofs](#proofs)
- [What is not modelled](#what-is-not-modelled)
- [Plan](#plan)

## The system

`muxrd` is a gRPC server (tonic on a multi-threaded tokio runtime) that lets a
phone attach to terminal-multiplexer sessions of two backends, zellij and herdr.

| component | state it keeps | operations | talks to |
|---|---|---|---|
| attach (`relay/mod.rs`, `types.rs`, `client_count.rs`) | arrival counter, eviction registry, control registry, view-state registry, per-session count; all process-wide | `attach_relay`, cancellation of it, `register`, `deregister`, guard drops | spawns the reader thread and the inbound task; RPC handlers read its registries |
| reader thread (`relay/reader.rs`) | the query in flight | `render_loop`, `drain_queries`, `capture_query_log`, `ShutdownGuard::drop` | blocking `recv` from the backend, blocking send into the render channel |
| inbound task (`relay/inbound.rs`) | grid, next query number, what it owns: guard, lease, count | one `select!` loop: reader watch, eviction, token re-check, control commands, client frames; then the teardown | client's request stream, control channel, backend sender |
| `GetLayout` (`grpc/layout.rs`) | none | relay query with time-out, ephemeral fallback, view-state override | control registry, oneshot from the reader |
| `WatchAgents` (`grpc/agent_ops.rs`) | held rows, stale marks, read in flight, outbox | `start_watch`, `watch_loop`, `deliver`, `on_bus`, `finish_read` | event bus, backend inventory, client |
| herdr event kernel (`multiplexer/herdr/subscribe.rs`) | two connections, the subscribed set, last-known statuses, strikes, back-off | `connect_lifecycle`, `connect_status`, `resync`, `pump`, widening, watchdog | herdr's socket; publishes on the event bus |
| herdr relay (`multiplexer/herdr/relay.rs`, `wire.rs`, `control.rs`) | wire connection, swap channel, swap flag | attach, re-attach with retries, adoption by the reader, teardown | herdr's sockets, reader thread |
| herdr id registry (`multiplexer/herdr/registry.rs`) | opaque id / neutral number bijection, under one lock | `assign_or_get`, look-ups; entries are never pruned, so an id keeps its number | kernel, backend |
| control routing (`grpc/helpers.rs`, `pane_ops.rs`, `tab_ops.rs`, `space_ops.rs`) | `RelayViewState` per relay | route to a relay, or ephemeral; `CloseSpace` with its guards and its re-point | control registry, inbound task, herdr's JSON API |
| push notifier (`notify/`) | debounce table, device file | on event: filter, fan out, retry, forget devices that are gone | event bus, push relay over HTTP |
| `muxr-notify` | SQLite registrations with a daily count, token buckets | register, notify, delete | FCM |
| rate limiter (`ratelimit.rs`) | token bucket per address | `allow`, prune | every request |
| tokens, auth, expiry | zellij's token database (not owned) | validate, log in, revoke | every request, relay re-check |
| daemon control (`bin/muxrd.rs`, `control.rs`, `ipc.rs`) | pid file, control socket | start, status, stop | operating system |
| `muxrctl` | application state (Elm style) | update per message | muxrd's library functions |

What is hard in it:

- **Ownership across a thread, two tasks and a connection.** A relay is a blocking
  std thread, an inbound task, and a response stream polled by the connection. They end
  in any order, and cancellation can drop the handler between opening the backend
  and publishing the relay.
- **Eviction.** A phone re-attaches while its old relay is still being torn
  down; attaches finish their setup in another order than they arrived.
- **Untagged replies.** A relay's layout query is answered by two log lines without
  an id, on the channel that carries renders, while the caller may have given up.
- **A lossy bus.** Streams and the notifier see at most the last 256 events, and the
  kernel loses events when it reconnects.
- **Blocking calls on async workers.** A join, a full channel.
- **A connection replaced under its reader.** Each move on herdr closes the socket
  a thread is reading; flag and channel tell it whether to wait.
- **Handlers that check, wait and act.** `CloseSpace` counts and then closes, a
  notify counts and then sends; others do the same between the two.
- **Callers that give up.** A command stays queued when its RPC has timed out; a
  request to the push relay is served after its caller has hung up, and again.

For each component, what makes it correct: an attach that is live holds its key
and nothing else does; a slot leads to something that can be signalled; nothing
outlives its owner; no wake-up is lost; a routed command or query finds a relay
that can serve it; a query gets its own answer or none; a watcher's client
converges on the backend's rows; a revoked token ends what it opened; a pane is
eventually covered by the kernel and no transition of its agent is lost; a
device that re-registered is not forgotten; a swap of the connection ends no stream
and leaves no terminal held; only a client's own calls move its view.

## Modules

```
AttachPromise       what eviction promises (abstract)
   ^ implemented by
AttachRegistry   ---+--- RelayAttach        (composition, joint actions)
RelayThreads     ---+
LayoutQuery         GetLayout over one relay: caller, inbound task, reader, session
WatchAgents         one WatchAgents stream over the event bus
EventKernel         the herdr event kernel that feeds the bus
WirePromise         what moving a herdr relay promises (abstract)
   ^ implemented by
HerdrRelay          the wire connection of one herdr relay, replaced under its reader
ControlRouting      commands of clients to their relays, and CloseSpace
PushRelay           muxr-notify
   ^ extended by
PushNotifier        the notifier and device file of muxrd, posting to PushRelay
MC_*                constants, symmetry
*_proofs            theorems of the module they are named after; RelayThreads' are
                    in RelayAttach_proofs, AttachPromise's in AttachRegistry_proofs,
                    those of the two Push modules in Push_proofs
```

Definitions whose comment starts with "Wrong:" are mutated forms of the
definition after them. They are used by no specification; each one is a plausible bug
that a property of some run rejects (`PROJECT.json`, "mutants").

**AttachRegistry.** One element of `Attaches` is one AttachTerminal call.
`pc` is the position in `attach_relay`, then in the teardown of `inbound_loop`;
`slot`, `fired` and `arrival` are the eviction registry and its leases,
`control` and `view` the two other registries, `clients` the count. Awaits are
positions a cancellation can hit ("opening", "viewing"); "viewed" and "routable"
are only points other tasks can observe. Registration, one entry operation of a
concurrent map, is one action. The session an attach is for does not matter to
eviction; all attaches here are of one session, so `clients` is one number.

**AttachPromise.** What the registry, the stamps and the signals are for, without
them: an attach is new, in setup, live, dismissed or gone; a live one gives way only
to a later arrival of the same client view, and a late-comer is turned away.
`AttachRegistry` maps to it with `PhaseOf` (registered and not signalled is live,
registered and signalled is dismissed) and the arrival stamps; `KeepsPromise` is the refinement.

**RelayThreads.** `owner` is whoever holds the `ShutdownGuard`: the
handler's future, then the inbound task, then its drop, whose three steps (flag,
nudge, join) are three actions. `reader` is the position in `render_loop`: at the top, in
`recv`, in a `blocking_send`, in the last send after a session exit. `chan` counts
frames, since nothing depends on their content. `stream` says who owns the channel's
`Receiver`: a local of the handler, the response stream, nobody. `Workers` bounds
the runtime: every async step needs a worker that is not parked in a join.
The nudge is modelled as "recv returns once more"; whether that return is a render
or the end of the stream is left open.

**RelayAttach.** Both together: opening, cancellation, registration,
leaving the loop, dropping the lease and finishing are joint steps;
`Evicted` is what ties `fired` to the loop.

**LayoutQuery.** `caller` is `get_layout` of each query, `ctl` the control
channel, `inbound` the position in `handle_query_layout`, `handed` the channel to
the reader, `asked` the actions the session has not replied to, `slot` and `first` the
`InFlightQuery`. A reply may be replaced by an error, an action may fail to
send, the reader or the inbound task may leave at any point. A snapshot records which query its tabs and
its panes came from.

**WatchAgents.** A row is abstracted to the change its status
reflects and the change everything else reflects, because a status event carries
the first only. `held`, `stale`, `resnapshot`, `reading` and `outbox` are the
fields of `WatchState`; `view` is what the client holds once it has read
everything that is in `chan`. The debounce window is left out: a re-read may start at any
time, which includes every spacing. The environment (`AgentMoves`, `PaneCloses`,
`Publish`, `Outage`) is the kernel as the stream sees it: statuses of one pane in
order, closures on another connection, losses announced by `Resynced`.

**EventKernel.** `kernel` is the position in `run_tuned` and what it awaits: no
lifecycle connection, the enumeration (out, answered), the resync (out, answered),
`pump`, the drain after a widening. `lifecycle` and `agents` are the connections A and
B, `lines` and `pushes` what they have delivered, `covered` what herdr resolved B's
subscription to, `subscribed` what the kernel believes it was. A connection may end, after
what it delivered is read, or go quiet without ending, which only the watchdog sees. An
enumeration is answered in one step; it is used in a later one, and herdr moves
in between. A status is the number of the transition, so an older one can be told from a newer.
`blind` marks a kernel whose last resync failed. Back-off, the coalescing window
and the storm breaker delay steps that may be delayed anyhow. Pane ids are not used
again, as registry.rs 17-23 takes for granted; with reuse, `bootstrap_pane_set` would
drop a pane whose id ended and came back within the enumeration, since it applies the
ends after all creations, and only the watchdog would bring it back.

**HerdrRelay.** `sender` is the position in `reattach`, on the blocking pool: flag
up, old connection released, connect attempts, new write half installed, new read half
handed over, flag down; or, when the attempts are used up, the sentinel instead of a
connection. `reader` is the position in `recv` and `try_adopt_swap`: reading, looking into the channel,
loading the flag, waiting with `waited` seconds of `SWAP_GRACE` gone. `open` holds the
connections nobody has closed, whichever clones of the socket are around. Time passes
only where the reader waits; an attempt takes nothing or its time-out. A reader that is parked in `blocking_send` is
outside the module.

**WirePromise.** The same without sender, flag, channel and clock: connections are numbered as
they are opened, one is taken only when none is held, and the client is shown later and later ones until its
stream ends. `HerdrRelay` maps to it with `conns`, `open` and the connection the reader is on;
`KeepsWirePromise` is the refinement.

**ControlRouting.** `place` and `req` are an RPC handler's position and request, `queue` the
control channel of a relay, `doing` and `step` the command its inbound task executes,
and where: in the blocking operation, about to send a toggle, back with a move that worked. `current` is the
space the wire was moved to, `view` the one recorded in `RelayViewState`; a hint-less
attach records none. A caller that hangs up and a time-out are the same step, `GivesUp`; a
close that is already on the blocking pool goes on without it (`OrphanCloses`). Desktop
users open and close workspaces at any moment. The daemon reports a group of worktrees as it does in
`spaces_removed_by_workspace_close`: the primary takes the group with it.

**PushRelay.** A row of the SQLite table is an element of `known` with its token, mark, day and
count; `at` is the position of a notify request between its statements (nothing is
held from one to the next): at FCM, delivered and not yet recorded, refused and not yet
marked, answered. FCM's answer may be lost and an update may fail. `delivered` and `uncounted` are history, for the
cap alone.

**PushNotifier.** Extends PushRelay with `handle_event` (one event at a time, the
devices of its snapshot one by one, one retry, then the prune), the device file and a phone that
registers again and again, as the app's contract has it. A request that timed out is not withdrawn, so it
may be served after its retry. `OtherPosts` is another `muxrd` that uses the same
handles. The debounce and the filter only decide whether an event comes, which is left open.

## Runs, bounds and what they show

| run | bounds | shows |
|---|---|---|
| `registry` | 4 attaches, 3 of one key and symmetric, 1 without a key | eviction, cancellation and teardown in every order. Three of one key are enough for a predecessor, a holder and a stale late-comer at once. `KeepsPromise` checks the refinement of `AttachPromise`. |
| `relay` | 2 attaches of one key, channel of 1, 2 workers, renders and exits; the stream closes only when nudged | every parked position of the reader against every position of its owner, and eviction of a relay in any of them, with clients that read when they like or not at all: no wake-up lost, no thread left by an attach that ended, and only two things that can keep a relay from ending. A channel of 1 is full after the connection_id frame, so the full channel is the common case; two joins take both workers. |
| `relay_stalled` | 2 attaches of one key, channel of 1, 3 workers, renders and sessions that close | violation, see Findings. With a worker to spare, it is the client alone that holds the relay. |
| `threads_leak` | 1 relay, channel of 2, 3 workers, sessions that say anything, clients that read | violation, see Findings. |
| `layout_query` | 3 queries | a query held, one overtaking it, one left behind, and the reply half of each wherever it goes. |
| `watch` | 2 panes, 2 changes, 1 failed read, bus and channel of 1 | lag, lost events, overtaken and failing reads, and a client that stops reading; whatever is wrong meanwhile is on its way to be put right. A bus of one slot lags at the second event; a channel of one is full after the snapshot. |
| `kernel` | 2 panes, 4 changes, 2 faults, 2 strikes | every opening, closing and transition against every position of the kernel; two faults are enough for a quiet connection and a failed resync in one behaviour. |
| `herdr` | 3 connections, so 2 moves; 2 swaps in the channel; the code's own times and attempts | a second move before the reader has adopted the first, a move onto a connection that has died, attempts that use up the grace, a relay that leaves in the middle of each. `KeepsWirePromise` checks the refinement of `WirePromise`. |
| `herdr_lost_swap` | 2 connections, so 1 move; 1 swap in the channel; pings that take no time, else as `herdr` | violation, see Findings. The smallest instance that shows it. |
| `push_relay` | 2 handles, 2 requests, cap 1, 2 days, 1 new token, 1 uncounted delivery | two requests at the same count, a straggler of yesterday, a refusal that is late, and a re-registration between any two of them. |
| `push` | the same on one day, nothing uncounted, 1 device name, 1 thing the user undoes | the notifier's request, its retry or another server's, against a phone that registers again: the fewest parties for an answer about a handle, or about a token, that is not the phone's any more. Lost answers and midnight are left to `push_relay`. |
| `control` | 2 clients, one read-only; 2 calls of any kind, symmetric; 3 workspaces, 2 at first, 2 of a group | two closes against each other, a close against a switch of the same client, a toggle that is given up while it is queued or resolved, a relay that leaves at any step, and desktops at all times. |

`CHECK_DEADLOCK FALSE` stands where the system may really come to rest: all queries
answered, all calls done, all changes made. `AttachRegistry` and `RelayThreads` instead have an explicit
final step (`AllDone`, `Quiet`) so that any other standstill is reported.
`Quiet` admits two standstills, the cancelled setup that is a finding (`Wedged`) and joins that have
taken every worker (`Starved`), so that the runs still check that there is no other.

`RelayThreads` is checked as a part of `relay`, and proved about there. The
type invariants of all modules are proved, and no run repeats them.

Mutants: each property of a passing run is broken by one of the "Wrong:" definitions (or of those
named after the definition they stand in for), listed in `PROJECT.json`.

## Fairness

- Tokio polls a task that was woken, and the operating system schedules a thread:
  weak fairness of the steps of the handler after the open, of the inbound task and
  its guard, of the reader thread where it does not wait for the session.
- A nudge is answered: `ReaderWoken` is part of `ReaderStep`. For a read-only relay the
  server closes the connection; for the others a resize to the same size makes the
  session render. The second is zellij's behaviour, taken from reader.rs 373-388.
- No client is assumed to read. Only that the connection task drops the stream of a call that has ended
  (closed, reset, or its keepalive run out: `bin/muxrd.rs` 859-866) is fair (`DropStream`). Keepalive does not
  reach a phone behind an h2c proxy (`bin/muxrd.rs` 47-60), and flow control lets any client stop: both
  are a `peer` that never reads. `LeaverEnds` says that a relay ends unless it waits for such a
  client for good (`AwaitsClient`) or joins have taken every worker (`Starved`); `SupersededEnds`, without the exceptions, is
  violated. `NoPathLeaksAThread` has clients that read as a premise, and is violated with them.
- Eviction and the reader watch are arms of a `select!` that polls its ready arms in random
  order, so an arm that stays ready is taken: weak fairness of `TaskStep`.
- `WatchAgents`: its kernel publishes what it owes, a read that is out
  answers or fails (18 s time-out), timers fire. That the client reads is assumed by
  `Converges` alone, not by `RevokedEnds`.
- `LayoutQuery`: tasks and threads run. Nothing is assumed of the session, so a query need not be
  answered, only released when the reader is gone (the time-out covers the rest).
- `EventKernel`: the task is polled, timers fire, herdr answers all calls but `MaxFaults`, an arm
  of a `select!` that stays ready is taken. Nothing is assumed of a quiet connection:
  `KernelConverges` relies on the watchdog for it.
- `HerdrRelay`: the blocking pool and the reader thread run, and every call of a reattach has a
  time-out. `ReaderExited` has strong fairness: a command may keep the inbound task busy
  whenever the reader's end is there to see, but `select!` tries its arms in random order,
  so not every time.
- `PushNotifier`: the relay's handlers and the notifier run, and the phone keeps registering, at the relay and
  at `muxrd`. That is the app's part of the contract and not in this repository; without it no
  device that was pruned comes back. Nothing is assumed of FCM's answers.
- `PushRelay` and `ControlRouting` state safety only. `NobodyStuck` says of each state that somebody's
  guard holds, not that the step is taken.
- No session has to render, no client has to attach, leave or send.

## Findings

1. **A cancelled setup can leak its thread** (`threads_leak`, `NoPathLeaksAThread`).
   `attach_relay` spawns the reader, then awaits the view-state query. If the client goes away
   there, the future's locals drop in reverse order: the guard first, whose join
   waits for a reader that may be parked on a full channel, whose `Receiver` is a local declared
   earlier and drops only after the join. Module documentation: "so no path leaks
   a thread" (relay/mod.rs 36-38). The window is the query's duration, and the session must
   render 64 frames in it.
2. **An evicted relay waits for its stalled client** (`relay_stalled`, `SupersededEnds`). Eviction is for a
   client that came back and left its old stream behind. If nobody reads that stream, the render channel is full and
   its reader parked in `blocking_send` (reader.rs 99), which looks at neither the stop flag nor the nudge, and the
   stream is not dropped, since it belongs to the connection. The join (reader.rs 396) holds a runtime
   worker until the connection notices, which behind an h2c proxy may be never. Documentation:
   the drop "stops and joins the reader thread, which ends the outbound stream" (types.rs 340-346). The order is the other
   way round: the stream has to end, or be read, before the join can return.
3. **A swap that worked ends the stream** (`herdr_lost_swap`, `SwapNeverEndsStream`). The reader
   finds the swap channel empty and then loads the flag; between the two the sender may hand over the
   connection and clear the flag. The reader takes its EOF for a disconnect while the
   replacement lies in the channel. Documentation and line are quoted in `PROJECT.json`.
   `EndsForAReason` says that this, and a grace that runs out, are the only ways.

Met while modelling, without a run of their own:

- The grace of 21 s covers two attempts of three 3 s calls and 1 s for the connect, and 1 s more, but not
  the protocol re-discovery that precedes each attempt (relay.rs 157-183, 993-1010), although
  its test is called `swap_grace_covers_reconnect_worst_case`.
- With as many such joins at a time as the runtime has workers, `ShutdownGuard::drop`
  (reader.rs 396) has parked the workers that would drain the channels its readers wait on, also of clients that would read:
  nothing moves any more, in the whole daemon (`Starved`, which `relay` reaches with two).
- `FocusPane` and `GoToTab` are answered ok when they are queued (helpers.rs 76-125); a relay that
  leaves drops the command. `SwitchSpace` and the toggle wait for the relay, and are told.
- A send of yesterday that muxr-notify records after midnight sets the row back to yesterday with a count of one
  (store.rs 132-148), so the count of today starts again. `CapOvershoot` allows for it as `uncounted`.
- A device that re-registered while a send to its old token was refused is removed by handle, token or not
  (devices.rs 176-190), until it registers again. `DropsOnlyTheGone` excuses it, `Recovers` says that it comes back.
- A layout reply of a timed-out query that arrives while the next query is held is taken for
  the next one's, and the parser accepts the two payloads in either order. Two comments say
  "can NEVER"; reader.rs 263-270 concedes a window. `CleanQueryGetsItsOwn` says
  when it cannot happen.
- `publish` overwrites the last-known status with an older push that was still unread at the
  resync (subscribe.rs 1134). If a widening then discards the newer one, the next resync announces a
  status the agent never left, which subscribe.rs 240-242 says never happens. No
  transition is lost by it (`KnownOrPushed`).
- `run_notifier` says it "tolerates" a lagged bus. A blocked transition among the lost
  events is not made up for.
- muxr-notify's README (51) calls the cap "Max notifications/day per push-handle". Requests under way together
  overshoot it; `CapOvershoot` says by how much.
- `close_space_impl` says that a caller who was viewing the closed space is re-pointed. A client
  that attached without a hint and never switched has no recorded space, and one that views
  another space of a closed group is compared with the primary only: neither is re-pointed.
- The re-point of a `CloseSpace` is queued behind whatever the user has asked for since, and then
  overrides it. A `SwitchSpace` that timed out is answered with ok:false and
  applied nevertheless; of the relay's commands only the toggle looks whether its caller is still there.
- `FocusPane` of a pane in another space moves the wire there and leaves the sender's and the view
  state's space as they were.
- The sweep of `RateLimiter::allow` keeps buckets below `burst`. A check leaves every bucket below it, and an
  idle one is not refilled until its address asks again, so the sweep drops none (ratelimit.rs 163-172).

## Proofs

`AttachRegistry_proofs` proves, for any set of attaches and keys:
`TypeOK`, `LiveHoldsSlot`, `SlotLeadsToLive`, `RoutableHasView`, `DoneIsForgotten`,
the action property `OnlyALaterAttachEvicts` and the refinement `KeepsPromise`. Assumptions:
`RegistryAssumption` (keys are keys, "no key" and "no attach" are neither, attaches are finite).

The inductive invariant adds to these what they are silent about: an attach
that has not registered was never signalled and holds no slot, entries exist exactly
between the positions that add and remove them, stamps of arrived attaches are positive, bounded
by the counter and different from each other, and a slot's holder is registered. The difference of stamps is
what makes "not later" mean "earlier", so that an evicted holder really arrived before its
successor. The count needs a cardinality argument: each step moves at most one
attach into or out of `Counted`. The refinement rests on one lemma: the live rivals
of a registering attach are exactly the holder of its slot, if there is one. So the three
branches of `register` are a take-over of nobody, a take-over of the holder, or a refusal.
Last, that whatever keeps the promise has at most one live attach of a client view (`PromisedOneLive`), hence
the registry has (`AtMostOneLiveThm`).

`RelayAttach_proofs` is about the whole, for any attaches, keys, channel bound and number of workers
(`AttachAssumption`: `AttachRegistry`'s, a channel of at least one frame and at least one worker). It has four parts:

1. Each component's specification holds of the composition (`ComponentsHold`).
2. `RelayThreads` alone (`ThreadsInvariant`). That no nudge is lost depends on the
   order of two writes: the flag is up before the nudge is sent, so a wake-up that is consumed
   while the owner joins ends the reader instead of parking it again. The invariant adds that the flag is up exactly in
   the last three positions of the owner, and that thread and Receiver exist from the spawn on.
3. What relates the two: `PositionsAgree` (the owner of the guard is where the attach is), `RoutableIsReady` and `StoppedHoldsNoSlot`, from a coupling
   invariant of where the attach is, what the tables hold of it, where the owner of its guard is
   and when its reader may be told to stop.
4. From 1 to 3, of the whole: `TypeOK`, `NoLostNudge`, `EvictedNotStuck`, `DoneIsReaped` (an attach that has ended has no thread left:
   the position comes from the coupling, the thread from part 2), and everything `AttachRegistry_proofs` proves
   of the bookkeeping alone, the refinement of `AttachPromise` included (`AttachKeepsPromise`). Those theorems are
   instantiated, their assumptions discharged in `RegistryAssumed`, and `SameRegistry` says that the two instances
   of `AttachRegistry` take the same steps.

`EvictedNotStuck` is the safety half of `LeaverEnds`, for an evicted relay. The chain it follows is task, join, reader, full channel, client; it could
close on itself only at a Receiver that its own owner holds, which is what `Wedged` is. A signal reaches an attach that has registered, so its
handler is about to return its stream or has (`Signalled`), and from then on the Receiver is the connection's or dropped.

`LayoutQuery_proofs` proves `TypeOK`, `CleanQueryGetsItsOwn`, `NothingFromLater` and `ReplyIsHeld` for any number of queries
(`QueryAssumption`). A reply does not say which query it is for, so the argument is about order only: what still waits in
the control channel is younger than everything under way (`Ordered`); the reader holds a query at least as young as every
action under way, or has it to take (`Covered`), and takes it before it matches a reply (`Matched`); and after a clean query
only its own replies and younger ones are around (`CleanFirst`), so the first one captured is its own (`CleanHolds`). `ReplyIsHeld` needs none of it: each step that takes a reply half from where
it was releases its caller or puts it where it will be.

`HerdrRelay_proofs` proves `TypeOK`, `OneTerminalHeld`, `EndsForAReason` and the refinement `KeepsWirePromise` for any bounds and
times (`HerdrAssumption`). The first needs that only the write half's connection can be open, and which positions of
`reattach` have released it. The second follows the swap channel:
once no reattach is under way, its last entry is the connection the sender writes to, and an empty one
means that the reader has caught up. Between two reattaches a reader on another connection than the sender's is on a closed
one, and its channel leads it to the sender's or to its end (`ReaderIsLed`), the safety half of `ReaderFollows`; and a
relay that is done holds nothing and can open nothing (`DoneHoldsNothing`), that of `EndedLetsGo`. The refinement has two
halves. What is held is `OneTerminalHeld` again. What is shown lags by the content of the channel, so its order is the
channel's: everything in it was opened after the connection being read, each entry after the one before (`InOrder`).

`Push_proofs` proves of `PushRelay` `TypeOK` and `CapOvershoot` for any number of handles and requests, any cap and any
days (`PushAssumption`). Two invariants carry it: what is recorded or still on its way for today exceeds the cap by
at most the requests that are on their way, less one (`Capped`); and every delivery is recorded, on its way, or
uncounted (`Booked`). Both count sets of requests, so each step has a lemma about one request more or less.

Of `PushNotifier` it proves type correctness and `DropsOnlyTheGone` (`NotifierAssumption`):
a Gone about a handle was true when it was given (`GoneIsGone`), a token a request has read is
not newer than the row's (`TokensPast`), and the request the notifier reads is its own
(`OwnRequest`); only a registration makes a handle that is gone reachable, and `fresh` records it. `NotifierUsesRelay` says that every
step of the notifier is a step of the push relay or none, so what is proved of the relay holds with the notifier attached.

`ControlRouting_proofs` proves `OnlyOwnMoves`, `ViewIsCurrent`, `GivenUpNotToggled`, `EmptyIsTold` and `NobodyStuck`
for any clients, calls and workspaces (`ControlAssumption`). Types and two invariants go together: a command in a
relay's queue or hands is of that connection and its caller waits there or has ended (`Asked`), and a
handler in the close path has a close for a request (`Closing`). `CallsAdvance` states what every step does to
a waiting call, so that `Asked` survives the steps of all others. `NobodyStuck` needs that a relay that does not serve has nothing queued
or in hand (`Attended`), so whoever waits for one waits for a relay that can take a step.

`WatchAgents_proofs` proves `TypeOK`, `HeldIsTheClients`, `ClosedStaysGone` and `DriftIsOwed` for any finite set of panes, any bounds of bus
and channel, any number of changes and failures (`WatchAssumption`). What a client is left with after a
sequence of messages is a fold, and the provers cannot do induction over it; `LeavesRow` says the same of one
pane by the last message about it, and the lemmas `LeavesNothing`, `LeavesAppended` and `LeavesDelivered` say what the empty
outbox, one more and one fewer message do to it. That `LeavesRow` is the fold is an assumption of `MC_WatchAgents`
(`LeavesRowIsTheFold`), which TLC evaluates for all outboxes of at most three messages over small rows. The deltas of a
re-read name every row that differs and no other (`DeltasSayNext`), which needs that `SetToSeq` leaves nothing out
(`SetToSeqLists`); this is where the panes must be finite. `ClosedStaysGone` asks where the
rows of a closed pane could still come from. The inventory and the events do not bring it back, since it is gone from the one
before the others say so (`ClosedGone`), and an answer that predates the closure knows of it (`ReadKnowsClosed`).
`DriftIsOwed` is what convergence rests on: a row that is wrong has a notice coming, a mark, or a re-read under way. It is a
case analysis of what each step uses up; it needs besides that a re-read is told of the closure of no pane that is
there (`ReadClosedGone`), and that what an answer misses is owed (`AnswerIsOwed`). With it, a stream with nothing left to do shows its client the backend's rows (`RestIsTruth`).

`EventKernel_proofs` proves `TypeOK`, `CoveredOrAnnounced` and `KnownOrPushed` for any panes, finitely many or not, and any number
of changes, faults and strikes (`KernelAssumption`). The first needs that an id names one pane, so what was reported gone, or will
be, is past (`OnceOnly`), and that an enumeration that was answered misses no pane once the lines that came meanwhile are
added (`Listing`); then a pane of an attached kernel is both covered and known to be, or announced (`Covering`). The
second rests on the order of the pushes: the last one about a covered pane carries its status (`LastPushIsStatus`),
and what a resync listed, then what the kernel remembers, is that status or has a push still to be read (`Known`).
Both together make `CaughtUpKnowsAll`: a kernel with its connections up, everything read and a last resync that worked covers
every pane, knows its status, and the watchdog's verdict on it is "healthy".

Only model-checked: what holds under fairness (the `~>` and `<>[]` properties), which is out of
the provers' reach. For four of these a proved invariant says that something is left that can act (`EvictedNotStuck` for `LeaverEnds`,
`DriftIsOwed` for `Converges`, `CoveredOrAnnounced` for `KernelConverges`, `ReaderIsLed` for `ReaderFollows`); that it acts, and that this
leads somewhere, remains with TLC. For `RevokedEnds`, `EndedLetsGo`, `ReaderGoneReleases` and `Recovers` there is
only the run.

## What is not modelled

Rendering, input encoding, escape sequences, the wire formats, TLS, configuration and
the terminal UI: they are sequential translations, most of the repository's lines, and
the modules cover a small share of it for that reason. The rows of `PROJECT.json`
"components" say why for each. Within the parts that are modelled:

- `LayoutQuery`: the ephemeral query, and the merge of the view state into the answer.
- `EventKernel`: layout hints, the pane-to-tab table, lines that do not parse, reuse of an id.
- `RelayThreads`: the wake-up of an eviction. `EvictSignal` is its flag alone; that the task is woken when it
  is set is tokio's `Notify`, which keeps a permit, and `evicted` looks at the flag whenever the loop polls it.
- `HerdrRelay`: which pane a move resolves to, frames, resume, the first attach's failures, and a reader parked in
  `blocking_send`: there it neither reads nor adopts until its client reads (`RelayThreads`), so `ReaderFollows` and
  `EndedLetsGo` are about a reader that is not.
- `ControlRouting`: tabs and panes within a space, rename and labels, which panes a toggle refuses, zellij's
  session fallback for writable callers.
- `PushNotifier`: the bus, the filter, the debounce, a restart of `muxrd` (the file survives it, and
  an event in hand is lost, which the model has as an event that does not come).
- `AttachRegistry`, `PushRelay`: validation of requests.
- The id registry (one lock, never pruned), the rate limiter of `muxrd` (one lock, arithmetic), daemon control and
  start-up (operating-system calls), tokens (zellij's database).

## Plan

1. A watcher as "a replica that converges", with `WatchAgents` refining it.
2. `EventKernel` with pane ids that are used again; a move of `HerdrRelay` as the steps of
   `ControlRouting.Moves`.
3. The per-space view (`active_tab`, `focused_pane`) in `ControlRouting`, with `GetLayout`'s override.
