# The display composer, verified

`libsdmcomposer` lets the processes of a virtual machine show buffers on the
panels of a Qualcomm device without a compositor: it opens a display of the
display core (sdm core), shows one buffer on it at a time, and takes commands
(backlight, demura buffers, display configurations, properties) from another
virtual machine over a qrtr socket. The TLA+ modules here model its concurrent
and stateful parts, the buffer allocator and the format tables; TLC checks them
on small instances and TLAPS proves theorems about them for every size. All
line numbers are of the files in `src/libsdmcomposer/src/` unless another path
is given.

## The system

| component | code | state | operations |
|---|---|---|---|
| Command service | `sdm_comp_service.cpp` | all static: `callbacks_`, `qrtr_fd_`, `exit_thread_fd_`, `event_thread_`, `pending_commands_`, `qrtr_lock_`, `pending_cmd_lock_` | `RegisterCallback`, `UnRegisterCallback`, `QRTREventHandler` (the event thread), `CommandHandler` and its handlers, `HandlePendingCommands` |
| Service interface | `sdm_comp_service_intf.cpp`, `sdm_comp_service_client.cpp` | one client object per registration | `Create`, `Destroy`; with a null callback from a daemon, with a callback from a composer |
| Composer life cycle | `sdm_comp_impl.cpp:47-108`, `sdm_comp_interface.cpp` | `sdm_comp_impl_`, `ref_count_`, `core_intf_`, `sdm_comp_service_intf_`, `recursive_mutex_` | `GetInstance`, `Init`, `Deinit` |
| Displays of a composer | `sdm_comp_impl.cpp:110-373` | static: `display_builtin_`, `disp_ref_count_`; of the one composer object: `pending_events_`, `panel_brightness_`, `disp_configs_` | `CreateDisplay`, `DestroyDisplay`, `OnEvent`, `HandlePendingEvents`, the calls that go on to one display |
| Built-in display | `sdm_comp_display_builtin.cpp` | `layer_set_`, `cached_buf_handle_`, `validated_`, `current_mode_`, `apply_mode_`, `stc_mode_list_`, `min_panel_brightness_`, `variable_info_` | `Init`, `Deinit`, `ShowBuffer`, `SetColorModeWithRenderIntent`, `SetPanelBrightness`, `SetMinPanelBrightness`, `SetDisplayConfig` |
| Demura buffers | `SDMCompIPCImpl` in `sdm_comp_impl.cpp` | `hfc_buf_info_`, one place | `SetParameter` (from `OnEvent`), `ProcessOps` (the core's import), `Deinit` |
| Property store | `sdm_comp_debugger.cpp` | `properties_map_` | `SetProperty`, `GetProperty` |
| Property parser | `property_parser_*.cpp` | a counted singleton and its map | `Create`, `Destroy`, `GetProperty` |
| Buffer allocator | `sdm_comp_buffer_allocator.cpp`, `src/liballocator/src/dma_buf_alloc_impl.cpp` | allocator singletons, `id_` | allocate, free, clone, map, unmap, sizes and layouts |
| Format utilities | `src/libformatutils/` | none | tables of formats |
| Sync handler | `sdm_comp_buffer_sync_handler.cpp` | none | wait for, merge and query fences |
| Kernel modules, ION allocator | `sdm_comp_service.cpp`, `ion_alloc_impl.cpp` | none of its own | see "Not modelled" |

How they interact:

- `SDMCompInterface::Create` takes `recursive_mutex_` in `Init` and, holding it,
  registers with the service, which takes `qrtr_lock_`; `Destroy` the same way
  back. So a caller's locks go `recursive_mutex_`, then `qrtr_lock_`, and inside
  the first registration also `pending_cmd_lock_`.
- The event thread reads a packet, takes `qrtr_lock_` for `CommandHandler`
  and, in it, calls `OnEvent` of every composer in `callbacks_`, which takes
  `recursive_mutex_`: the other order.
- A command that finds no composer goes to `pending_commands_` under
  `pending_cmd_lock_` and is answered with 0. Each later registration of a
  composer starts a detached thread that drains it with no `qrtr_lock_`, and
  clears it whatever became of the commands.
- An `OnEvent` for a display that does not exist is kept (`pending_events_`
  and the value) and applied by the `CreateDisplay` that makes it.
- A command that exports demura buffers is imported when it is handled, not
  when it arrives; whether demura is on is asked of `SDMCompDebugHandler`,
  which asks the property parser. The core fetches what was stored when it
  opens the panel.
- Everything on a display but the two brightness calls of its clients runs under
  `recursive_mutex_`; the display core below is external and may refuse
  any call.
- Clients reach the DMA allocator through `AllocInterface`, the core through
  `SDMCompBufferAllocator`; no lock protects it.

What is hard in it: three locks taken in different orders by four kinds of
threads; singletons created and deleted outside locks; loops over a
vector that others change; a teardown that does not reset what it tore down;
failure paths that have already spent a reference; a cache that decides
whether a frame is validated; detached work that may find its owner gone;
descriptors that stand for shared memory, and sizes that wrap.
`PROJECT.json` lists these under `hazards`, each at its line, with the
properties that watch it or the reason none does.

## Modules

    SDMCompService ---- SDMCompServiceProofs     service, sessions, threads
        |   MCService       +-- SDMCompSessionProofs
        |                           +-- SDMCompDeliveryProofs
        +-- CommandLedger                        what is promised of commands (abstract)
        +-- SharedResources
    SDMCompDisplays --- SDMCompDisplaysProofs    displays and their events
        |   MCDisplays
        +-- SharedResources                      what sharing promises (abstract)
    SDMCompDisplayBuiltIn -- SDMCompDisplayBuiltInProofs   frames and modes
        MCDisplayBuiltIn
    SDMCompFormats                               the tables of formats
        +-- SDMCompBuffers ---- SDMCompBuffersProofs       buffers and sizes
                |   MCBuffers
                +-- SharedResources
    SDMCompProperties                            property file, parser, store
        +-- SDMCompDemura ----- SDMCompDemuraProofs        demura buffers
                MCDemura

### `SDMCompService`

The service and the life cycle of composers, composed in one module because
what matters is how their locks interleave. The processes are the roles of
threads: `Client` (calls `SDMCompInterface::Create`/`Destroy`), `Daemon`
(registers a null callback), `Listener` (one run of `QRTREventHandler`), `Drain`
(one detached `HandlePendingCommands`). `pc` says where a thread is; an action
runs from one lock acquisition, blocking call or unlocked access of shared
state to the next, so the reads of `callbacks_` without `qrtr_lock_` (:549, :610)
and the two reads of `sdm_comp_impl_` in `GetInstance` (:54-58) are steps of
their own. `rec`, `qrtr`, `pend` are the owners of the three locks.

- `callbacks` is `callbacks_` as a bag: index 0 counts null callbacks, `i` > 0
  composer `i`. `fd` is `qrtr_fd_`: "closed" is the number that stays after the
  teardown (:312), which later registrations take for an open socket.
- `fate` follows a packet (unsent, sent, deferred, reached a composer, done,
  lost), `reply` is the status sent back, `given` counts hand-overs. These three
  observe; no guard but that of `Send` reads them.
- A pass over `callbacks_` without the lock reads one of its values; calling a
  deleted composer goes on as if its memory were still there. Both are the
  mildest outcomes: what a property says of them, it says of a lucky run.
- `Serial` states the callers' discipline. The code does not lock `GetInstance`,
  so five properties (`ListenerCallsLiveComposer`, `SessionBacked`,
  `HandedOnce`, `SessionsShared`, `CommandsLedgered`) are checked and proved with
  callers that serialise `Create` and `Destroy`; `ServiceReachable` is checked
  with them and proved without; all others need no such callers.
- `WaitsFor(t, u)` says that `t` is at a place that needs a lock `u` has. A set of
  threads that wait for each other is a deadlock. `CirclesHandOver` says that an
  `OnEvent` (or the failure path of `RegisterCallback`) is in every one.

Two abstract specifications say what the service is for. `SessionsShared` maps it
to `SharedResources`: the resource is the composer that is registered and whole
(nobody is inside the first `Init` or the last `Deinit`, where `recursive_mutex_`
is held), a use is a client's session. `CommandsLedgered` maps it to
`CommandLedger`, which knows neither threads nor locks: a command arrives, is
unread until one decision delivers, postpones or rejects it (and answers it then
or never), and a postponed one is delivered or given up once. Unread is what is in
the socket or with the listener; stored is what a drain has left to visit of
`pending_commands_`, or all of it, and the command a drain works on. The step from
the socket to the listener, the start and the end of a drain and all steps of
callers are stutters.

### `SDMCompDisplays`

One composer's displays. What runs under `recursive_mutex_` is one action;
the brightness calls of clients take no lock, so `call` says where each caller is
in one (`check` the minimum, `test` it for 0, `store` it, `show` the level, and for
`SetMinPanelBrightness` `minimum` and `cached` before that). `Service` is the thread
that is in `OnEvent`: it holds the lock through its call, which is what `MayLock`
says. `disp`, `refs`, `pending`, `level`, `config` are statics and members of the one
`SDMCompImpl`;
`floor`, `info` belong to the display object; `panel`, `active` are the hardware;
`holds` (who has a handle to destroy), `asked` and `waiting` (the last event kept for a
type since its display went, and the types events were kept for since any display was
made) and `minimum` (the last minimum set through the interface) observe.
`SharedResources` is the abstract specification: a thing is present exactly while it has users. `SharedByClients` is that refinement, with `present`
the display objects that exist and `users` the holders. `HandlePendingEvents` is
part of `CreateNew`.

A client's brightness calls are modelled where `Deinit` does not fail: after a
failed one the count is off (see `destroyed_not_gone` below) and a display can
be deleted under a call.

### `SDMCompDisplayBuiltIn`

One display while frames are shown: `ShowBuffer` in its four parts
(`PrepareLayerStack`, colour mode, `Prepare`, `Commit`), because the core may
refuse between any two, and `SetColorModeWithRenderIntent`. A geometry is what
is compared with `cached_buf_handle_`; `prepared` and `hwMode` are the core's.
`info` is `variable_info_`, the configuration the display was opened with, and
`rate` the frame rate `PrepareLayerStack` put into the layer from it; a display
that is opened again may have another. The rectangles are left out: `dst_rect`
decides nothing in this code.

### `SDMCompFormats`, `SDMCompBuffers`

The three tables of `formats.cpp` as operators on a set of formats: bytes per
pixel, and the two conversions, which are one identity on the formats
they list and give "invalid" for the rest.

`SDMCompBuffers` is `DmaBufAllocator` under its two callers. `handle` is the
`BufferHandle` objects in use, `info` what `SDMCompBufferAllocator` gave the
core for one of its buffers, `fds`, `room` and `mapped` the kernel's side
(external): a descriptor is any that is not open, memory is there while a
descriptor or a mapping has it. The allocation, `dup` and the mapping may fail.
Since nothing is locked, `id_++` is a load (`LoadId`) and a store (`StoreId`),
and `thread` says which thread is between them; the copy into
`AllocatedBufferInfo` comes after. Numbers keep their width: `Word` is 2^32,
the aligned product wraps at it, the product with the bytes per pixel goes
through a float, and a float that is out of range becomes either of the two
values builds produce (`ToUnsigned`). `CloneBuffer` computes the size anew and
continues when `dup` fails (`CloneWithoutFd`).

`MemoryShared` is `SharedResources` again: memory is there exactly while
handles or mappings use it.

### `SDMCompProperties`, `SDMCompDemura`

`SDMCompProperties`: the property file (one of `Files`, or none), the counted
`PropertyParserImpl` with its users (`GetInstance` and `Init` are two steps,
since only `Init` has the lock), and `SDMCompDebugHandler`, a static object that
takes the parser before `main` and never gives it back. `set` is
`properties_map_`.

`SDMCompDemura` extends it with the demura buffers: sessions of the composer
(`Register`, `CreateCore`, `Leave`, `Unregister`, `DestroyCore` and the two
failures), the commands that export a buffer, handled by the event thread
(worker 0) or put off and handled by the drain of a session (worker s), and
`ipc`, the one place of `SDMCompIPCImpl`. It is the composition of the part of
the service that `SDMCompService` abstracts (a demura command there is either
accepted or not) with the property store: `HandleImportDemuraBuffers` is a chain
of steps (property, import, callback, `OnEvent`), each with its own return. A
buffer remembers which command exported it and in which session it was stored.

## Runs

| run | question | instance |
|---|---|---|
| `service_races` | do types, the single listener, the empty first drain and in-order delivery survive unsynchronised callers and every failing call, and what is in every deadlock? | 2 clients, 1 daemon, 2 listeners, 2 drains, 2 commands of one kind, 2 composers, 1 `Create` each |
| `service_resident` | in the deployment with a resident daemon, is the service reachable, are sessions backed, does the listener call only live composers, is a command handed over once, do the sessions implement `SharedResources` and the commands `CommandLedger`? | 2 clients with 2 `Create`s each, 3 composers, 3 packets (good, short, unknown display), `CreateCore` fails |
| `service_stay` | is every command answered, every deferred one handled, and does the listener end? | 1 client, 1 daemon, 4 packets (two of one kind, a property, one of the extension), libqrtr may be missing |
| `calls_return` | does every `Create` and `Destroy` return, but for the deadlocks that `CirclesHandOver` describes? | 2 clients that do not serialise, 1 daemon, 2 drains, 1 command, 2 composers, 1 `Create` each; libqrtr, the set-up, `CreateCore` and `recvfrom` may fail |
| `destroy_hangs`, `acked_lost` | two promises the code breaks | the smallest instance that shows each |
| `displays_shared` | are references the holders, do brightness calls find their display, and do the displays implement `SharedResources`? | 3 clients, 1 type, 2 levels, the panel and configurations may fail |
| `displays_faults` | does the count survive a `Deinit` that fails, are kept events applied? | 2 clients, 2 types, 2 levels, 2 configurations |
| `display_shows` | is a committed frame described as it is, and is no mode lost? | 3 buffers, 2 geometries, 2 configurations, 3 modes of which 2 are known |
| `buffers` | do handles keep their memory, are descriptors returned, do pictures fit, does the core get what it was told, is memory shared? | 2 threads, 3 handles, 2 pieces of memory, 3 descriptors, 5 requests, a word of 14 bits |
| `ids_shared` | two threads and one id | 2 threads, 2 handles |
| `imports` | does the core get only buffers of its session and as configured, is an answered buffer kept, does the parser stay? | 3 commands (2 with memory), 2 sessions, 2 users of the parser, 2 files and none |

Why these bounds are enough. Two clients are what a race needs, and with
two `Create`s each one can leave and come back while the other is between two
steps. Only one listener ever starts, so the second is there to be noticed.
Two commands of one kind are what order needs, and one command with two
sessions to drain it what at-most-once needs; the other kinds
differ only in their handler. A third client shows a count that is off by one
in either direction without reaching 0. One display type is enough there, since
types meet only in `pending_events_`; `displays_faults` and `pending_lost.cfg` have two for
that, and the theorems hold for any number. Two geometries and two buffers of one
of them reach both branches of `PrepareLayerStack`. `service_races` bounds each
client to one `Create` (`MaxCalls`) and `MaxImpl` composers: more are the subject
of `service_resident`. `calls_return` lets `DestroyCore` succeed, for its size only:
with it failing instead of `recvfrom` the property holds too.

`SmallWord` (2^14) takes the place of 2^32 so that small pictures do what large ones
do: 64 x 64 of two bytes fit, of four bytes are one byte too large, 160 x 128
wrap before they are multiplied. `Dimension` are the widths and heights whose
stride is a `uint32_t`. `MaxId` bounds how often a buffer is given an id.
`RequestsCover` (a client that gives a size of its own gives one that covers the
picture) is an assumption about callers; `MCBuffers` states it of its requests. In
`imports` the third command has no memory and comes between the others in any
order; the two files have the property twice, once on first and once off first,
since the parser keeps the first line. Two sessions are one that leaves a buffer
behind and one that could wrongly find it.

`CHECK_DEADLOCK FALSE` in the runs of the service, the buffers and the imports:
calls, packets, ids and sessions are bounded, so the models end, and the
service really can block (`destroy_hangs`). The display modules never stop and are
checked for deadlock.

### What the violation runs show

- `destroy_hangs` (`sdm_comp_impl.cpp:92`): `Deinit` waits for `qrtr_lock_` with
  `recursive_mutex_` held, the event thread, in `OnEvent`, the other way round.
  A longer cycle has three threads: a drain (holding `pending_cmd_lock_`) waits for a client,
  the client for the listener, the listener in `Defer` for the drain. It takes two
  commands, which `service_races` has and `destroy_hangs` has not.
- `acked_lost` (:636): a drain that finds the composer gone clears commands that
  were answered with 0.
- `ids_shared` (`src/liballocator/src/dma_buf_alloc_impl.cpp:108`): two threads read
  `id_` before either stores it; two buffers then have one id.

Six more configurations stand beside the runs, two of `MCService` and four of
`MCDisplays`. Each checks one promise of the code's texts and ends in a counterexample
that can be reproduced with it:

- `create_hangs.cfg` (`CreateReturns`; `sdm_comp_service.cpp:271`): the failure path of
  `RegisterCallback` calls `UnRegisterCallback` with the lock held that it takes.
- `core_hangs.cfg` (`CreateReturns`; `sdm_comp_impl.cpp:78`): when `CreateCore` fails,
  `Init` unregisters with `recursive_mutex_` held and waits for `qrtr_lock_`; the event
  thread, in `OnEvent` of the composer registered a moment ago, has `qrtr_lock_` and
  waits for `recursive_mutex_`.
- `pending_lost.cfg` (`EveryTypeApplied`; `sdm_comp_impl.cpp:372`): the creation of a
  display of one type clears what was kept for the other. The one entry per event
  (`emplace`, :277) is the other half of the same mistake; the trace needs only the
  clear.
- `destroyed_not_gone.cfg` (`DestroyedWhenUnheld`; `sdm_comp_impl.cpp:175`): the count
  goes down before `Deinit` can fail; the retry then returns 0 and does nothing.
- `below_minimum.cfg` (`NotBelowMinimum`; `sdm_comp_display_builtin.cpp:426`): a race.
  The test of the minimum and the level that is shown (:436) are separate unlocked
  steps; a client's `SetMinPanelBrightness` comes between them in the call of an
  `OnEvent`, and the panel ends below the minimum. No level was kept for the type, so
  the comparison of the next item has no part in it.
- `minimum_not_reached.cfg` (`MinimumReached`; `sdm_comp_impl.cpp:256`): no race, one
  call after the other. Whether a new minimum raises the panel depends on a level that
  only events for an absent display set: 1 was kept for an earlier display, the panel
  shows 0, and the new minimum 1 is compared with 1.

### Facts the exploration found, and where they limit a property

- `SessionBacked` needs `DestroyCore` to succeed. When it fails, the reference is
  already spent, and the caller's second `Destroy` takes another client's session.
- `ListenerCallsLiveComposer` needs serialised callers. Otherwise a second client
  can be given a composer that is deleted before its `Init`, which then registers it.
- `HandedOnce` needs them too. Two clients that create at once can make two
  composers, of which the second to leave unregisters the wrong one; the third
  client's composer is then the second in `callbacks_`, and a command goes to both,
  one of them deleted. It takes three clients, or two that create twice.
- `ServiceReachable` needs the resident daemon. Once the last registration goes,
  `qrtr_fd_` keeps its number and no later registration opens a socket again. It
  needs no serialised callers, and holds whatever fails but `recvfrom`: a set-up
  that fails leaves `qrtr_lock_` taken for ever, and nothing is reachable or promised then.
- The deadlocks of `create_hangs`, `core_hangs` and `destroy_hangs` are the only kinds there
  are: in each circle is an `OnEvent` or the failure path (`CirclesHandOver`), and
  nothing else keeps a caller from returning (`CallsReturn`). A fix that makes `OnEvent`
  wait for no lock removes all but the first.
- `CommandAnswered` needs `recvfrom` not to fail: one failure ends the only event
  thread. And nothing is promised once the socket is closed.
- `HandlesKeepMemory` needs callers that free a handle once: `FreeBuffer` leaves the
  number of the closed descriptor in it.
- `PixelsFit` speaks of pictures whose size is a `uint32_t`. For larger ones
  `AllocBuffer` succeeds with too little memory.
- `PendingApplied` promises a display what was kept for it only if nothing was kept for
  another type since a display was last made: otherwise it may be lost (`pending_lost`).
- `AnsweredIsKept` needs imports that give a descriptor above 0. `SetParameter` tests `> 0`
  (`sdm_comp_impl.cpp:385`), leaves 0 out and answers 0 all the same; the process keeps
  its standard input open, so that 0 is not given.
- A `recvfrom` that has nothing (EAGAIN, `sdm_comp_service.cpp:563`) sends the listener back
  to its loop (`ReceiveNothing`); any other failure ends it (`ReceiveFails`).

### Fairness

Weak fairness of each role of each thread: the scheduler runs a thread that can
go on. Strong fairness of the locks is not needed since calls and packets are
finite. Nobody is obliged to call, destroy or send; those are in `Decision`,
which has no fairness. `DeferredIsHandled` is checked with a client that keeps its
session, because with one that destroys it the deadlock of `destroy_hangs` stops
everything; `CallsReturn` names the deadlocks as the one way not to return. The other
modules promise nothing that must happen: their operations are calls that return by themselves.

## Proofs

Each theorem is for all values of the constants that satisfy the named
assumptions of the modules (`Threads`, `Commands`, `Bounds`, `DisplayConstants`,
`BuiltInConstants`, `BufferConstants`, `PropertyConstants`, `DemuraConstants`).

- `SDMCompServiceProofs`: `TypeCorrect`, `SingleListener`,
  `FirstDrainFindsNothing`, `ServiceStaysReachable` and `DeadlocksHandOver`. The types alone are not
  inductive: `DrainSkips` looks up `KindOf[pending[i]]`, so one must know that the
  positions a drain has still to visit are within `pending_commands_`, which holds
  because a drain owns `pending_cmd_lock_` (`DrainOwns`). A registration pushes `inst`,
  which must be a composer (`HasInstance`), a listener that answers has a
  command (`HasCommand`). For the single listener: none exists while `fd` is
  "unset" (`NoListenerYet`), the only state in which one is started, and `fd` is
  never unset again. The first drain finds nothing because only a listener
  stores commands, and needs `qrtr_lock_` for it, which the first registration
  keeps until it has drained (`QrtrOwned`, `NothingPendingYet`).
  `ServiceStaysReachable` assumes the deployment (`Served`: daemons are there, come
  first and never leave, and `recvfrom` does not fail). `ReachInv`: daemons that
  registered are in `callbacks_` and every client came after them (`DaemonsStay`), so no
  client's `UnRegisterCallback` finds `callbacks_` empty, the socket is never closed and
  the listener never sees its loop condition false (`SocketServed`); a failed set-up, after
  which there is a socket and no listener, keeps `qrtr_lock_` (`CleanupHeld`), with
  which the property promises nothing. `DeadlocksHandOver` has no assumption.
  `LockInv` says where the owner of each lock can be. Outside `OnEvent` the owner of
  `pending_cmd_lock_` waits for nothing, so the owner of `qrtr_lock_`, who can only wait for
  that one, is in no circle, and then neither is the owner of `recursive_mutex_`.
- `SDMCompSessionProofs`: `SessionsAreBacked`, `ListenersCallLive`, `SessionsAreShared` and
  `CommandsHandedOnce`, under `Disciplined` (serialised callers, a core that can be
  destroyed), without which they are false. `SessionInv`: one client is busy at
  most, it owns `recursive_mutex_` where the code does, `ref_count_` is the number
  of open sessions and 0 inside `Init` and `Deinit`, `callbacks_` has
  `sdm_comp_impl_` once while there is a session or one is being made, and nothing else.
  `DispatchOK`: the listener holds `qrtr_lock_` in its loop and what it has still to
  call is registered. `CommandInv` follows a command: it is in the socket, with the
  listener or in `pending_commands_`, in one place and once, handed to nobody
  before; `pending_commands_` is not touched by others between the first hand-over
  and the clear. `SessionsAreShared` follows from `SessionInv`: a step opens a session,
  closes one, or leaves them open, and while one is open `sdm_comp_impl_` does not change
  (`SharedAs` says what is shared in terms of the open sessions, `SessionSteps` what each
  step does to them).
- `SDMCompDeliveryProofs`: `DeferredKeepOrder`, with no assumption on the callers, and
  `CommandsAreLedgered`, under `Disciplined`. For the order (`PlaceInv`): a command is in
  the socket, with the listener or in `pending_commands_`, and once (`InboxSent`,
  `ListenerAlone`, `PendingRead`); a drain has dealt with every position it no longer
  has to visit, but for the one it works on, which comes before all that are left
  (`DrainInOrder`). Only drains change the fate of a deferred command (`OnlyDrains`), and
  the order of a drain agrees with the order of arrival within a kind, since what is
  stored is a composer's command, whose rank is a number (`StoredKinds`). The
  refinement needs to know what is unread and stored at each place of a thread
  (`UnreadAs` from the single listener, `StoredAs` from the ownership of
  `pending_cmd_lock_`) and that an unread command is not answered (`Unanswered`, which
  the ledger's own steps preserve). Then each action is one action of the ledger or a
  stutter: `Send` arrives, `Finish` rejects, `Defer` postpones, `Dispatch` delivers,
  `DrainCalls` delivers a stored one, `DrainSkips` gives one up, `UnRegisterCallback` may
  lose unread ones. Without `Disciplined` it is false, since `HandedOnce` is.
- `SDMCompDisplaysProofs`: `ReferencesCounted`, `DisplaysAreShared` and `CallsAreLive`, all under
  `DestroySucceeds` (neither the flush nor the core's destroy fails), without which
  they are false, as `destroyed_not_gone` shows. Types and `RefsAreHolders`
  together are inductive, given how cardinalities change with one element. Each
  creation is an `Acquire` and each destruction a `Release` of `SharedResources`;
  events stutter. `CallsAreLive` adds what each caller knows (`CallsOK`): a client in a
  brightness call is a holder, the thread in `OnEvent` keeps others from the lock.
  `DisplaysTyped` and `KeptIsApplied` have no assumption: every call of the core and the
  panel may fail, with any number of types. The types need that a call under way has
  a display (`CallsTyped`); kept events need that a display without an object has no
  reference (`CountedIsThere`), so that only `CreateNew` makes one, and what links
  `pending_events_` to what was asked (`KeptOK`): an event has no entry only if none
  waits, its entry is of a type that waits, and the value kept for a type that
  waits is the last one asked for.
- `SDMCompDisplayBuiltInProofs`: `DisplayTyped`, `CommitsAreDescribed` and
  `ModesAreKept`. What makes
  them inductive is `LayerIsBuffer` (inside `ShowBuffer` the layer is the
  call's buffer), that a cached geometry comes with the frame rate in force, and
  `ValidatedIsPrepared` (`validated_` implies that the core's
  last description is of the cached geometry and the current hardware mode).
- `SDMCompBuffersProofs`: `BuffersTyped` (the types with what a thread between the
  two halves of `id_++` holds), `HandlesAreSafe` and `DescriptorsReturned` (from
  `Owned`: a descriptor is in one handle at most, and names its memory), `PicturesFit`,
  `CoreIsToldRight` and `MemoryIsShared`. `CoreIsToldRight` follows a request of the core
  through the two halves of `id_++` to the copy into `AllocatedBufferInfo` (`CoreInv`): a
  handle has one thread at work on it, what that thread is filling in is what was told
  for its configuration, and what was copied agrees with the handle as long as it
  is held. `PicturesFit` rests on lemmas about the arithmetic: an
  aligned number is not smaller, a product that stays below the word does not wrap,
  and then the allocated size covers the picture; it assumes `RequestsCover`.
- `SDMCompDemuraProofs`: `DemuraTyped`, `ParserIsShared`, `BuffersStayInSession`,
  `FileDecides` and `AnswersAreTrue`, from one invariant, `IInv`. The parser is
  counted by those that are past `Init`, and the handler is always one of them
  (`ParserInv`), so it is never deleted. Whoever is past the property step read the
  file, and the file says on (`ImportInv`). What is stored while the core of a
  session runs was stored in that session (`SessionInv`). The listener's callback is
  registered while it calls (`AnswerInv`).

Every invariant and every safety property of the passing runs is stated by a theorem.
Only model-checked are the four liveness properties (`CallsReturn`,
`DeferredIsHandled`, `CommandAnswered`, `ListenerExits`): TLAPS proves nothing of
fairness or ENABLED.

## Differences seen while modelling

Beside those of the violation runs, without a property of their own:

- `CreateDisplay` returns 0 and no handle when no connected display has the type
  (`sdm_comp_impl.cpp:122-163`).
- The first brightness becomes the minimum (`sdm_comp_display_builtin.cpp:432`);
  `sdm_comp_interface.h:247-249` says the minimum is what `SetMinPanelBrightness` set.
- The callback argument of a second `CreateDisplay` of a type is ignored and
  the first stays after its client left (`sdm_comp_impl.cpp:117`, against
  `sdm_comp_interface.h:127-128, 174`).
- A colour mode the panel does not have is accepted and never applied
  (`sdm_comp_display_builtin.cpp:282`).
- `dst_rect` of the layer is computed in `Init` and not again after a pending
  configuration (`sdm_comp_display_builtin.cpp:328`).
- `producer_fence_fd` is never read, though `src/include/buffer_interface.h:98-100` says the
  consumer needs to wait on it.
- `GetProperty` reads the parser, which always exists, and never what a command
  stored with `SetProperty` (`sdm_comp_debugger.cpp:275, 310`), whose `emplace` also
  keeps the first of two values; of a string it
  leaves off the last character (`property_parser_impl.cpp:129`), and of a text that is no
  number `std::stoi` throws (:115).
- Commands that set properties or boot parameters, and a demura command while demura
  is off, do their work and answer -EINVAL: nothing sets `status` to 0
  (`sdm_comp_service.cpp:326-340, 421-453`).
- The descriptors of imported demura buffers are never closed, and a command with
  `hfc_mem_hdl` -1 leaves the former buffer in place (`sdm_comp_impl.cpp:385-391`).
- `CloneBuffer` returns 0 when `dup` fails (`dma_buf_alloc_impl.cpp:214`), and computes a
  size of its own, which differs from the original's when the client gave one.
- The first id is -1, the value `buffer_id` has before it is set
  (`dma_buf_alloc_impl.cpp:61`, `src/include/buffer_interface.h:112`).

## Plan

1. An abstract specification of a display that shows frames (a buffer is shown as
   it is and in the mode asked for, or not at all), which `SDMCompDisplayBuiltIn`
   implements, and one of the demura buffers (one place, filled and emptied by
   sessions), with the theorems.
2. The order between a drain and the listener: which command a display obeys last.
   The code keeps none; a property would have to say what it could rely on.
3. The three uses of `recursive_mutex_` (sessions, displays, events) in one module, if
   a property needs it: so far none does, since the displays take no second lock.

## Not modelled

- The display core, libqrtr, `MemBuf`, the drivers and the hardware are not in
  the repository; they are calls that may succeed or fail.
- Kernel module loading (`IsModuleLoaded`, `LoadModule`) is calls of `popen` and
  sd-bus; its result does not change the answer, which `HandleByService` models.
- The ION allocator cannot be reached: `AllocInterface::GetInstance` takes it only
  if the DMA one is NULL (`alloc_interface.cpp:42-45`), which `new` never makes it.
- The sync handler keeps no state: each call is one `poll`, `ioctl` or `close` of a
  descriptor the core passes in. `SyncBuffer` of the allocator likewise.
- The getters that only read, a property read as a string, logging and its masks,
  dumping of buffers, layouts and texts.

## Running

    tlc -config service_races.cfg MCService.tla        # and so on, see PROJECT.json
    tlapm SDMCompServiceProofs.tla
