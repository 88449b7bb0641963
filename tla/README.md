# hildon-thumbnail: models, checks and proofs

TLA+ modules for the thumbnailer and album art services of hildon-thumbnail
and for its client libraries, TLC configurations that check them on small
instances, and TLAPS proofs of what matters most for every size. Paths below
are relative to `src/`.

Contents: 1 the system, 2 the modules and the code, 3 what the runs show,
4 bounds, 5 fairness, 6 proofs, 7 abstractions, 8 where the code and its
documentation part, 9 what is not modelled, 10 what could be added.


## 1. The system

An application asks a D-Bus daemon for thumbnails of a list of urls, the
daemon makes them with plugins it has loaded or has another process make
them, and tells the application by signals which urls are ready and when the
request is finished. Album art goes the same way through a second object of
the same daemon.

| Component | Code | State it keeps | Operations |
|---|---|---|---|
| Request queue and pools | `daemon/thumbnailer.c` | `priv->tasks`, two `GThreadPool`s (normal: 2 threads, large: 1), a task's `unqueued` flag, the handle counter | Queue, Unqueue, do_the_work, crash_out |
| Specialized call | `daemon/thumbnailer.c` 435-490, 775-860 | a `SpecializedInfo` on the thread's stack, with its mutex and condition | Create and wait, `specialized_ready`, `specialized_error` |
| Tracker gate | `daemon/thumbnailer.c` 575-600, 1328-1350 | `must_wait`, `waiting`, `cond`, `cmutex` | the wait of the large pool's thread, the handler of Tracker's signal |
| Output plugin host | `daemon/hildon-thumbnail-plugin.c`, png output plugin | the list of output plugins, which of them their configurations make active | needs_out, do_out, put_error, stop and reading of the configuration |
| Thumbnail store | jpeg output plugin, gdk-pixbuf plugin, Move/Copy/Delete/Cleanup in `thumbnailer.c` | thumbnail files, `.tmp` files, fail files, rows of an SQLite table, `do_cropped` | check, create, out, put_error, cleanup, reload_config |
| ThumbnailManager | `daemon/thumbnail-manager.c` | table of proxies of specialized thumbnailers by scheme and mime type, table of supported types | Register, service_gone, reading of service files, GetSupported |
| Plugin host | `daemon/hildon-thumbnail-daemon.c`, `daemon/hildon-thumbnail-plugin.c`, the plugin table of `thumbnailer.c` | loaded modules, registrations, directory monitor | init_plugins, on_plugin_changed, register, unregister |
| Albumart queue and manager | `daemon/albumart.c`, `daemon/albumart-manager.c` | one list of tasks, one pool thread, a sorted list of providers | Queue, Unqueue, Delete, do_the_work, get_handlers, on_dir_changed |
| Client library | `thumbs/hildon-thumbnail-obj.c` | table of requests by handle, one `waiting_for_cb` flag, references | request, unqueue, join (factory, request), callbacks |
| Older client calls | `thumbs/hildon-thumbnail-factory.c`, `thumbs/hildon-albumart-factory.c` | a process-wide table of items by handle, nothing is counted | load, cancel, wait, clean_cache |
| Album art requests | `thumbs/hildon-albumart-obj.c` | two objects for a thumbnail of album art, a record between their callbacks, a table of requests | request, unqueue, join, and a load for the thumbnail |
| Video thumbnailer | `thumbnailers/gst-video-thumbnailer/` | a process of its own: tasks and their files, four states, an idle source, a quit timer, a GStreamer pipeline | Create, CreateMany, the idle step, the playback library's callbacks, one run of the pipeline |
| Unmount handler | `daemon/thumb-hal.c` | the file that delays the next start | on_pre_unmount, which calls crash_out and exits |
| plugin-runner, exec, epeg, pixbuf loader, `thumber-*` | `daemon/`, `thumbs/` | little | see section 9 |

How they interact. The main loop of the daemon runs all D-Bus methods,
signals, directory monitors and timers; pool threads run `do_the_work`. They
share the queue (one mutex), the tables of handlers and plugins (a mutex
each), the list of providers (a mutex that is taken one line too late), the
record of a specialized call (its own mutex) and the files, for which the
plugins have a mutex but Move, Copy and Delete take none. The client's main
loop sees replies and signals in the order the daemon's bus connection sent
them, which is not the order in which the daemon's threads decided them.

What is hard here: cancellation while a thread takes the task; a signal sent
before the reply that carries its handle; a wait that begins when its wake-up
has gone; a process that exits for an unmount with its threads running;
restarts that count handles from 1; items of a client library with no owner, or
two; a thumbnail in two formats, of which one is current; files read and stamped in several steps
while their original changes; plugin and service files that come and go
faster than they are reported; memory freed under a thread's hands. These are
the hazards of `PROJECT.json`, at their lines.

What makes each component correct, in a sentence: the queue finishes each
request once and answers each url of it once; the rendezvous loses no answer;
the gate lets the thread go when Tracker is idle; the client calls back once,
after the request's own task, and frees what it allocated once; a thumbnail that passes for current shows its
original; a handler or plugin given to a thread is alive; registrations follow
the files; album art lands where the client looks; a video thumbnailer with work has
a source that does it, and does not quit.


## 2. The modules and the code

Every definition that stands for code is listed with its lines in
`PROJECT.json`, "map".

**Thumbnailer** — the queue and both pools. `Queue` and `Unqueue` are the D-Bus
methods in the main loop, `CrashOut` and the exit that follows the unmount
handler, and a pool thread is a program counter through `do_the_work`: taking
a task out of `priv->tasks` under the mutex, examining each url, the
specialized batch, the plugin batch, the closing Finished. A
task is in its pool's queue and in `priv->tasks`; `dead` are those whose Finished
crash_out has sent. Ready and Error are counted per url and per handle, Finished
per handle. **ThumbnailService** is what a client may rely on for one request
(accept, cancel, begin, answer, close, give up), without threads, pools or flags.

**SpecializedCall** — threads that connect two signal handlers, call Create and
wait with a time limit on a record on their stack, and the main loop that walks the
connected handlers of one signal with each caller in turn. The record is freed
only by being left; a callback that is still running after the disconnect
writes to the thread's next record, which is at the same place (`straddled`).

**TrackerGate** — the thread of the large pool between two urls and the handler
of Tracker's signal, at the grain of the individual reads and writes of
`must_wait` and `waiting`, the first of which is read without the mutex.

**GatedQueue** — the two above together, as in a build with `HAVE_OSSO`: the
thread of the large pool passes the gate before each url of its request, in the
step that Thumbnailer has for examining it, and the main loop handles Tracker's
signals beside its own.

**QueueOnBus** — the daemon as a client's process sees it: Queue calls that are
answered late, or not; Finished and Error of its own and of other clients' tasks; replies and
signals in the order in which its two threads may send them; exits and restarts
with a counter at 1. `world` chooses among three: `orderly`, an
application that waits for each reply, in one life of the daemon; `hasty`, one that does
not wait; `rough`, where calls fail and the daemon restarts. The client libraries
are on top of it.

**ThumbFactory** — `hildon-thumbnail-obj.c`: requests in an application's process with
their references, the table, the idle sources and the pending calls.

**Loads** — the older calls, of both libraries (`lib`): an item is allocated by
load, is owned by the pending Queue call, then by the table, or by an idle source when the
thumbnail is there, and is freed with its owner. cancel of the thumbnail library removes the
entry at once, that of the album art library when its Unqueue call ends; what it reads of a freed item is
any handle (`misread`). wait has its two parts, the flag and the table.

**ArtRequests** — `hildon-albumart-obj.c` on top of Loads. A request for a thumbnail is
two objects, the one the application has and the `real` one that asks for the art; when
that is called back its callback loads the thumbnail, with a record (`info`) that
keeps the first object. The load is Loads' `load`, its callback the last step.

**Clients** — an application that uses one of the three, so that one instance checks them
against the same daemon. What has the same purpose in two of them is one variable.

**ThumbStore** — pool threads that take a url, read times and bytes of the
original, decode, write the `.tmp` file, rename it, set its time and insert its row,
with fail files, while an application rewrites and removes originals and
the main loop runs Move, Copy, Delete, Cleanup and exits. Bytes are
identified by the time at which they were written. The gdk-pixbuf plugin may give a file up that it could
read (moving pictures, files that are too large). Its `DoCropping` (`do_cropped`) is on or off at the
start and may be read again at any moment (`ReloadConfig`); it is tested when the original has been opened
(`Cropped`), and while it is off the url ends there: nothing is decoded or written, nothing is an error, and
Ready is said of it. The place `uncropped` stands for this outcome, so that the properties can tell it from the others.

**Formats** — the png and the jpeg output plugin in the list of the plugin host,
switched on and off by their configurations, while a thread makes a thumbnail that may
succeed in one and fail in the other. A file of each format with its time and what
it shows, a fail file of each. An application looks for a thumbnail by the test of the
request objects or that of the older calls, asks the daemon if it finds none, and opens what
the code opens. The plugin's own `DoCropping` is as in ThumbStore: `NotCropped` answers for the url at once, with
`by = "uncropped"`, and `ReloadCropping` may come at any moment. clean_cache adds the sizes up in an `int` of `Width` bits.

**FileKinds, ThumbnailManager, PluginHost, Routing** — a key is a pair of scheme
and mime type (`FileKinds`). `ThumbnailManager` has the table of proxies with their
reference counts, Register and service_gone and the service files; `PluginHost`
the directory of plugins, the monitor's queue of reports, the count of opens of
a module and the table of plugins. `Routing` composes the two with pool
threads that ask the first and then the second for a url's key, as
do_the_work does, and with the order of the daemon's start.

**Albumart** — both albumart.c and albumart-manager.c: the list of tasks, the one
thread with a step wherever the main loop can come between, and the sorted list
of providers with the node that was read before the lock. The directory is read file by
file under the manager's mutex: the node of a provider is taken out and put in
again at its priority, and the thread that walks the list waits for the mutex. A freed node is
followed by any live suffix of the list or by a crash.

**Thumber, ThumberPipe** — the video thumbnailer. It has one thread, so that what
interleaves is what its main loop can dispatch: a message of the bus connection
(calls, and the playback library's replies, requests and hints, in the order they
were sent), the idle source, the quit timer, an unmount. `state`, `idle` and `timer` are the three
things `thumber_set_state` has to keep in step; both builds, with the playback library and
without, are modelled (`playback`). `thumber_process_func` blocks while a file
is run, and `ThumberPipe` is that run: two waits for messages of the pipeline's bus,
each of which can time out, the frame kept as a backup, the sizes written one after
the other. A call is lost when the loop has been told to quit in the same
iteration (`late`).

**MC*** modules give the constants their values; **ThumbnailerProofs**,
**PoolThreadProofs** (of SpecializedCall and of Formats), **ThumbFactoryProofs**,
**ClientsProofs**, **ThumbStoreProofs**, **RoutingProofs**, **AlbumartProofs** and
**ThumberProofs** hold the theorems, **BusInvariants** what the proofs of the client
libraries say of the daemon on the bus. SpecializedCall's `CallSpec` and `CallInit` have names
of their own so that one module can extend it and Formats. The definitions beside the originals whose
names say what goes wrong in them are the mutants that `PROJECT.json` lists:
each property is known to fail for one of them.


## 3. What the runs show

| Run | Question | Properties |
|---|---|---|
| `queue_safety` | Can cancellation, two pools and an unmount at any moment make a request finish twice, a url be answered twice or not at all, a cancelled request speak? Is the newest request of a pool first? | `FinishedAtMostOnce`, `EachUrlAnsweredOnce`, `CancelledIsSilent`, `SilentAfterFinished`, `NewestFirst` |
| `gated_queue` | Is the queue with the gate what its interface promises, is every request closed however long Tracker indexes, is a sleeper known? | `ImplementsService` (refinement), `EveryRequestFinishes`, `SleeperIsKnown` |
| `specialized` | Can a thread sleep through its answer, or take another's for its own? | `NoMissedAnswer`, `ReadyIsBacked` |
| `tracker_lost_wakeup` | Does the large pool's thread go on whenever Tracker is idle? No. | violates `WaitEndsWhenTrackerIsIdle` |
| `clients` | With failed calls, garbage handles, late answers and restarts: has an item one owner and is it freed once, do references balance, does a callback run at most once? With a daemon that stays up: only after its own task, and what does the return of a wait or join mean? | of the older calls `OwnedOnce`, `CalledBackAtMostOnce`, `FreedOnlyWhenDone`, `CalledBackForItsOwnTask`, `WaitMeansFinished`; of the requests `RefsBalance`, `JoinMeansCompleted`; of those for album art `ArtRefsBalance`, `ArtCalledBackAtMostOnce`, `ArtJoinMeansCompleted` |
| `factory_lost_callback` | Is every request called back? No. | violates `EveryRequestCalledBack` |
| `store_safety` | Does a thumbnail that passes the test of times show its original, is Ready never said of a failure or of a missing thumbnail (but where DoCropping is off), can the database find what was made? | `ValidIsFresh`, `ReadyIsFresh`, `RowsMatchFiles` |
| `store_cleanup` | Does Cleanup spare what is younger than the caller said? No. | violates `CleanupSparesYounger` |
| `formats` | With two output plugins, does Ready mean made in each active format (but where DoCropping is off), is an application shown the present picture, is the cache cleaned from its oldest end? | `ReadyMeansMade`, `ShownIsFresh`, `CleanCacheKeepsNewest` |
| `routing` | Is what a thread is given alive, and do the tables follow clients and files? | `ProxyHeld`, `NoHandlerOfTheDead`, `NoDanglingRegistration`, `RegistrationsFollowFiles`, `SupportedIsComplete` |
| `albumart` | Are providers asked in order and no cancelled request's, is the picture where the client looks, is every task finished? | `AskedByPriority`, `ClientFindsArt`, `CancelledIsNotAsked`, `EveryTaskFinishes` |
| `video` | Can calls, permissions and the timer come in an order that leaves a task with nobody to do it, or quits on one? Is Ready said of what was saved, are frames given back? Is it the service's interface? | `WorkIsDriven`, `QuitLosesNothing`, `RunEndsClean`, `EveryTaskFinishes`, `ImplementsService` (refinement) |

Each module has one type invariant. It is a conjunct of one of the run's properties
(`SleeperIsKnown`, `RefsBalance`, `ArtRefsBalance`, `ReadyMeansMade`, `ProxyHeld`,
`CancelledIsNotAsked`) or proved for every instance (section 6).

Where a property has an exception in its statement, the
exception is a state the code really reaches, and section 8 says so:

- `NoHandlerOfTheDead` leaves out clients that left before their Register was
  handled (`late`), `RegistrationsFollowFiles` the files that changed between
  the first scan and the making of the monitor (`missed`);
- `ClientFindsArt` leaves out another kind than "album" without an album;
- `ValidIsFresh` leaves out a thumbnail parted from its time by an exit, a Move or a Copy between
  rename and utime (`torn`); `ReadyMeansMade` and `ShownIsFresh` are about requests during which no configuration is read again and no
  cache cleaned (`stable`; reading DoCropping again does not count as such), and
  `ShownIsFresh` allows the leftover of the format the client prefers beside a fresh file of the other,
  and says nothing of what a plugin answers while no format is active;
- `ReadyIsFresh`, `ReadyMeansMade` and `ShownIsFresh` leave out a url that needs a thumbnail and was answered without being
  decoded, DoCropping being off (`uncropped`): there may be no thumbnail of it, or an old one. They do speak of
  all other answers while it is off: what was found in place, what failed, what was refused before;
- `ReadyIsBacked` leaves out a call begun while a callback of the previous one was still
  running, `QuitLosesNothing` a call dispatched after the timer had fired
  (`late`);
- `FreedOnlyWhenDone` and `WaitMeansFinished` leave out a cancel of the album art library that
  read a freed item (`misread`); they, `CalledBackForItsOwnTask` and the joins are
  not about the `rough` world, and a wait or join is about the `orderly` one. `ArtJoinMeansCompleted` leaves out a
  thumbnail that is still being loaded;
- `CleanCacheKeepsNewest` leaves out sizes whose sum an `int` does not hold.

Deadlock is checked where the system goes on for ever: in `queue_safety`,
`gated_queue`, `routing` and the `store` runs. The other models stop when
their bounded number of calls has been used up, and their cfg says so.


## 4. Bounds

| Run | Instance | Why it is enough |
|---|---|---|
| `queue_safety` | 2 normal threads, 1 large thread, `LargeLimit` 1, 2 urls of one handler, 3 requests | two threads of one pool race, the other pool runs beside them, and a third request finds one running and one queued |
| `gated_queue` | 1 normal thread, 1 large thread, 2 urls of a handler each, 2 requests, any signals | both batches of do_the_work run more than once for a request; a request of one url and one of two, in either pool; liveness needs a small graph |
| `specialized` | 2 callers with 2 calls and 1, 2 uris | a second call of the same thread, and two threads on one uri and on two |
| `tracker_lost_wakeup` | 3 urls, 2 signals not yet handled | the window between two reads, with a signal before and after it |
| `clients` | 2 items or requests, 2 tasks of a service in an orderly or hasty world, 1 in each of 2 lives in a rough one, garbage handles {1, 2} | a wait with one item answered and one not; a restart reuses a handle; a garbage handle can meet a real one and that of another's task. The hasty world is left to the older calls: all but the joins of the requests is in the rough one |
| `factory_lost_callback` | 1 request, hasty | Finished before the reply |
| `store_safety` | 2 threads, 2 uris with one original, times 0..2, `Tolerance` 2, 3 takes, 1 call | both sides of the test `< 2`, both threads on one url, DoCropping on and off, and one Move, Copy, Delete, Cleanup, exit or change of DoCropping at any step |
| `store_cleanup` | the same with 2 calls | shorter instances show it too |
| `formats` | times 0..3, `Tolerance` 2, `FailAge` 1, 2 requests, DoCropping and each format on and off at the start, 1 change of a configuration (DoCropping included) or cleaning, one other thumbnail, `Width` 4, sizes 3, 3 and 2 | a leftover of a first request under a second, on both sides of each test of times; three files exceed an `int` of four bits and two do not |
| `routing` | 1 thread, 2 keys, 1 client, 1 service, 3 proxies, 2 plugins, 3 changes of service files and 3 of plugin files | a handler replaced while it is called, a plugin displaced by another, a file deleted and put back before the report |
| `albumart` | 1 name, 2 providers, 2 priorities, 2 tasks, 2 readings of the directory, 1 file written or removed | the list rebuilt under the thread that walks it, with a provider that changed its priority or went; a task cancelled beside a running one |
| `video` | 2 calls of 0, 1 or 2 uris, 2 sizes, 2 messages of the playback library unasked | a call in each state, with a reply to an earlier request on its way and a hint or request before or after it; a run that fails after the first size |

The bounds are named constants (`MaxTasks`, `MaxTime`, `MaxTakes`, `MaxCalls`, `MaxLives`,
`RoughTasks`, `MaxSignals`, `MaxFiles`, `MaxChanges`, `MaxReads`, `MaxWords`, `MaxAsks`, `MaxTurns`, `Urls`, `Slot`) that
only appear in the guards of the environment's actions and in the sizes of the tables. The instance
of `store_safety` with two calls (4.8 million states) was checked too. `Symmetry`
permutes model values that the specifications treat alike: the threads of the
normal pool, requests and items, workers. It is used for safety only.


## 5. Fairness

Assumed of the code's own scheduling, and nothing else:

- pool threads are scheduled: `WF` on a thread's steps. A thread is not waiting
  for anything but the call of a handler, and a call ends: D-Bus calls time out
  (25 s, Create of a specialized thumbnailer after 100 s), plugins return;
- the main loop dispatches what has arrived: `WF` on its steps;
- in `GatedQueue`, each thread of the pools, the main loop's handling of a signal of
  Tracker once it came, and the rest of a D-Bus method it began;
- in `ThumbFactory` (for `factory_lost_callback` only), the daemon's threads and both main
  loops as above, and the time out of a call that is not answered;
- in `Albumart`, the pool thread and the reading of the directory once it was begun, which has
  the mutex the thread waits for;
- in `Thumber`, its main loop, each wait of the pipeline (`gst_bus_timed_pop` has a time
  limit of ten seconds for each message), and the playback library's replies. The limit
  is on a message and not on the whole wait, so that `EveryTaskFinishes` also
  needs a pipeline that does not go on for ever with frames of too little variance: the
  weak fairness is on the steps that end a wait.

Nothing is assumed of those who need not act: clients need not call or leave,
Tracker need not change its state, no spurious wake-up need come, no one need
unmount, the timer need not fire, the playback library need not grant anything
(`EveryTaskFinishes` of `Thumber` has "not paused for good" as its hypothesis), and the
daemon never replies to Unqueue at all
(an unqueued request leaves the table when the call times out in the client).
`EveryRequestFinishes` of `GatedQueue` takes the announcement again and again of Idle as its
hypothesis for the requests of the large pool, and for those only: TLC finds the thread
asleep for ever without it (`tracker_lost_wakeup`, under the same fairness).


## 6. Proofs

Assumptions: the ones the modules name (`ASSUME`), which say what kind of
values the constants have: handles are numbers from 1, pools are disjoint
sets, times are natural numbers. No number of threads, urls, requests or seconds
is fixed.

**ThumbnailerProofs.** The invariant that is inductive is

    IInv == TypeOK /\ OnePlace /\ FlagsDecideFinished /\ Books

`FinishedAtMostOnce` alone is not inductive: it does not say who may
still send a Finished. `OnePlace` says that a handle is with at most one thread or in
its pool's queue, and in `priv->tasks` exactly as long as no thread has taken
it, so that crash_out and a thread cannot both see it as theirs.
`FlagsDecideFinished` says which flag is set when one of them has sent it.
`Books` accounts for every url of a running task: in exactly one of the lists
it goes through, or answered exactly once. There is one step per action and one
lemma per conjunct that it can disturb. Theorems, all of the form
`Spec => []P`: `TypeCorrect`, `Inductive`, `OnePlaceAlways`, `FinishedOnce`,
`AnsweredOnce`, `CancelledSilent`, and `SilentOnceFinished` (`Spec =>
SilentAfterFinished`, an action property).

`Implements` is the refinement, `Spec => ImplementsService`: each step of the queue is a step of
ThumbnailService or leaves what a client sees as it was. The mapping of a task that is
with nobody depends on whether it was finished, which `IInv` does not say; `Accounted` does (a
dead task is finished, and so is one that is neither in `priv->tasks` nor with a thread).
The lemmas name the service's actions: `TakeBegins`, `WorkReports`, `FinishCloses`, `UnqueueCancels`,
`CrashGivesUp`, and `WorkUnseen` for the steps nobody outside can see.

`NewestTakenFirst` is the action property `NewestFirst`: that a thread which takes a request
of its pool's queue takes the newest needs `Begun`, what a thread has was started.

The gate: `GatedIsThumbnailer` says that each step of GatedQueue is one of Thumbnailer, or none (`GatedSpec => Spec`),
so that whatever is proved of the queue holds with the gate; `GatedImplements` is its refinement of ThumbnailService.
`SleeperAlwaysKnown` (`SleeperIsKnown`) is inductive with `IInv`: at each place of the gate the steps that Thumbnailer
has there leave the gate alone. The assumptions are that there is one thread in the large pool, as the code makes it, and that
the urls of a request are finite.

**PoolThreadProofs**, the first part: SpecializedCall.

    CallIInv == CallTypeOK /\ NoMissedAnswer /\ CallbackRuns /\ AnswersBacked /\ ReadyIsBacked

An answer is kept in three places between the signal and the result: with the callback that is about
to lock the record, in `had_callback`, and in what the thread has read; `AnswersBacked` says of each that
a signal is behind it, `CallbackRuns` whose record the callback is on. `CallTypeCorrect`,
`NeverMissed`, `ReadyBacked`, for any threads, uris and numbers of calls.

The second part: Formats.

    FilesIInv == TypeOK /\ Truthful /\ Working /\ Answers /\ ShownIsFresh

Times are all that any test in this code looks at, so that everything rests on `Truthful`: a file's
time is no later than the original it shows. `Working` is what a loop over the output plugins knows of those it has
passed: that they have a file of the original's time, or that an error is known (a fail file in the
loop of needs_out, `nerror` in that of do_out). It says this only where the loop has met none that needs the picture, and that is
what makes the first loop's end an answer and the last loop's end another. `Answers` has the same of the
request, from the moment it is answered, by the gate's look at the jpeg file or by the plugin, or is found in the
cache; of an answer without decoding (`uncropped`) it claims nothing, and no step makes one of these into another. `MadeIsFresh` is the step from times to what is shown. `FilesInductive`, `ReadyIsMade`, `ShownFresh`, for any
`Tolerance` from 1, any `FailAge`, any order of the list, and any cleaning (of which only matters that it removes files).

**BusInvariants** has what is said of the daemon on the bus, for all clients: `Owes`, a reply that has yet
to be sent has a handle, and for worlds in which no call fails `Steady`, by which every message on the wire
is `Sound`: a reply names a task of its caller, an Error one that failed, a Finished one that was served.
`TasksStay` is what a step leaves true of them. The lemmas are at the beginning of ThumbFactoryProofs (`DaemonSteps`,
`EndTyped`, `SoundGrows`, `AcceptSteady`, `DaemonSteady`, `EndSteady`); ClientsProofs uses them through an `INSTANCE`.

**ThumbFactoryProofs.** `FInv == IInv /\ Orderly /\ (world # "rough" => Steady(...) /\ FTrue)`.
`IInv` is the daemon's types and debts, the library's types, `OneHand` and `Balance`.
`Balance` is `RefsBalance` without the cardinality; it needs `OneHand`, by which a request
is called back from one place only: it waits for its reply, or for its idle source, or is in the table
under one handle. `FTrue` holds where no call fails: an entry of the table is under the handle the daemon gave
its request, and a request that is nowhere any more was called back for a task that was served or failed, or was
unqueued. `Orderly` is what an application knows that waits for each reply. `FactoryInductive`, `RefsBalanced`,
`RequestCalledBackOnce`, `RequestForItsOwnTask`, `RequestsJoined`, for any requests, worlds and
garbage; the only assumption is that the daemon offers the thumbnail service.

**ClientsProofs** is about the properties as the run `clients` has them. `CInv` is inductive and has a part for each kind of client:

- `LoadsOf`, of the older calls: `IInv == TypeOK /\ Owes /\ Entered /\ Awaited /\ Fates` in every world. `OwnedOnce` is not inductive by
  itself: the entry of a freed item could be read. `Entered` is about items in the table (entered under
  the handle they have, not freed, not called back), `Awaited` about those that wait for a reply or an idle source, and
  `Fates` says of the rest what they can no longer do. Where no call fails, `LTrue == Tracked /\ Cancels /\ Explained`:
  an item's handle is that of its own task, so that an entry can be removed by its owner only, and an item that is
  freed was called back for a task that was served or failed, or cancelled. `Orderly` as above.
- `ArtOf`, of album art requests: `IInv` and `LTrue` for the loads of their thumbnails, and `AInv`, which counts the
  references of the two objects (`ArtBalance`) from the places they can be in (`ArtOneHand`) and ties the record between
  the callbacks to a load under way (`LoadsForArt`); `ATrue` and `ArtOrderly` as above.
- `RequestsOf`, of thumbnail requests: `FInv` of ThumbFactoryProofs, whose names for the same state and steps are
  identified with these by the lemmas `Same...`.

Theorems: `LoadsTypeCorrect`, `ItemsOwnedOnce`, `CalledBackOnce` of Loads alone; `ClientsOwnOnce`, `ClientsCalledBackOnce`,
`NothingFreedEarly`, `NoStrangersTask`, `WaitFinishes`, `RequestRefsBalanced`, `ArtObjectsBalanced`, `ArtCalledBackOnce`,
`JoinCompletes`, `ArtJoinCompletes` of the three, for any items, requests, tasks, lives of the daemon and garbage handles.

**ThumbStoreProofs.** `IInv` there is `TypeOK`, `Locking` (who is in the plugins'
mutex, and that the `.tmp` file is its holder's), `Reading` (what a thread has
read is a time no later than the original's, and bytes no older than that time), `Making` (a thumbnail on its way shows
bytes no older than its time), `Kept` (so does every thumbnail at its place, unless
it is torn) and
`ReadyIsFresh`. `Cropped` and `ReloadConfig` leave all of these true because nothing is claimed at
`uncropped` and nothing else depends on `do_cropped`. From it: `StoreTypeCorrect`, `StoreValidIsFresh`,
`StoreReadyIsFresh`, for any number of threads, files, calls and any tolerance. `StoreRowsMatch` (`RowsMatchFiles`) needs
besides `Recorded`: from the inserting of its row to the release of the mutex a maker's row is the one of the
time it read, and what is being copied is not yet a settled file at its new place.

**RoutingProofs.** `IInv == TypeOK /\ ManagerInv /\ HostInv`. `ProxyHeld` is not inductive: that a thread's
proxy has a reference left when the table drops its own needs the exact count. `Counted` gives it: `refs[p]` is the number of
threads that call `p`, and one more if the table has it. `ClientsHooked` is what `NoHandlerOfTheDead` rests on.
For the plugins, `Opened` orders the table, the registrations and the modules that are open, with the
module that is about to be closed outside of all; `LastTells` says that the last report about a file
tells whether it is there, from which `RegistrationsFollowFiles` is inductive; `Room` bounds the opens. One lemma per
handler; the steps of one half leave the other alone but for the mime types. `ProxyAlwaysHeld`,
`DeadHandleNothing`, `NothingDangles`, `RegistrationsFollow`, `SupportedComplete`, for any threads, clients,
services, plugins and kinds of file. `Slot` and the other bounds only
limit what happens; the proofs do not depend on them.

**ThumberProofs.** Here

    IInv == TypeOK /\ Pipeline /\ Sources /\ Tasks /\ Answers /\ QuitLosesNothing

`WorkIsDriven` is a consequence and not inductive: that an unfinished task has
a source needs `Sources` (the state decides which sources there are) and `Tasks` (the state is
not stopped while there is a current or a queued task, and every unfinished task is
one of these). `QuitLosesNothing` needs `Answers` besides: of the current task, what is not
answered is in the queue of files. `Pipeline` ties the pipeline's stage to the
place in `thumber_process_func` and holds `ReadyMeansSaved` and `FramesReleased`, which
are inductive with it. Lemmas say what `RequestResources`, `ReleaseResources` and the
handlers of the playback library do to the state, once for both builds. Theorems:
`ThumberTypeCorrect`, `WorkAlwaysDriven`, `QuitNeverLoses`, `RunsEndClean`, for any lists, sizes and bounds.
`Implements` is the refinement of ThumbnailService, `Spec => ImplementsService`. A task is mapped from
where it is, so that it needs `Waiting` (a queued task is there once and is neither current nor finished) and
`Counted` (the tasks accepted and the Create calls on their way are together no more than the calls made).

**AlbumartProofs.** `IInv` is `TypeOK`, `InOrder`, `Places`, `Begun`, `Found` and `AskedByPriority`, and that a cancelled
task has asked nobody. `InOrder`: the manager's list ascends and has each provider once, also while the
main loop has a node in its hand. `Places`: a task is in `priv->tasks` until it is begun, and nothing was asked for it
before, so that a flag which was read once does not change any more. `Begun`: what the running task has asked
and what it has yet to ask are one descending list. Lemmas about lists carry the reading of the directory:
`RemoveKeepsOrder`, `InsertKeepsOrder`, `ReversedDescends`, `NextAsked`; they need no induction, since
the library's functions on sequences are defined by their elements. `PathsAgree` says when the daemon's path is the client's. `ProvidersAskedInOrder`,
`PictureWhereClientLooks`, `CancelledNeverAsked`, for any names, providers, priorities, tasks and readings.

Only model-checked:

- liveness (`EveryRequestFinishes`, `EveryTaskFinishes`), which is outside of what the prover
  does, as fairness and ENABLED are;
- `CleanCacheKeepsNewest` of Formats: it speaks of sums, of a set of files and of the beginning of a list, and what
  a recursively defined sum is for every list needs induction over data, which the prover does not do.

Every other property of a run that passes is a theorem.


## 7. Abstractions

- **Requests** are sets of urls. A uri is a model value with a key that says
  which handler it has; sizes, flavors and titles are left out.
- **The pools** run the highest handle first (`pool_sort_compare`). With bounded handles the starvation of the oldest
  request by an endless flow of newer ones cannot show; `EveryRequestFinishes` is
  about a daemon that is asked a bounded number of times.
- **Files**: bytes are the time at which they were written; originals are not
  replaced by older ones; the clock does not go back; one size (cropped),
  which is what the default build makes; the age of a fail file is scaled to 0.
- **Names** of thumbnails and art are one-to-one functions of the uri, or of
  kind, artist and album; stripping and checksums in `utils.c` are not
  modelled, a missing name is the `" "` the code writes.
- **Proxies** are finalized when their count is 0 and do not emit "destroy" then.
- **The client libraries** ask for one size; an item or request is made once and cancelled or unqueued at
  most once, and nothing is called from inside a callback but what the library itself calls there.
- **Two formats**: one url and one size, a plugin's writing of its file is one step (ThumbStore takes
  it apart), and a request that met a change of an output plugin's configuration or a cleaned cache
  is not judged.
- **DoCropping** is on or off; that a file without the key leaves it off for a moment and then on
  (`reload_config`, 499-503) is two changes one after the other.
- **Types of a plugin** are registered in one step: lookups read one key under the
  mutex, so that nothing can tell them apart. No plugin's initialization fails.
- **Albumart** has one thread, as its pool has.
- **The video pipeline**: a frame is good or dull; elements, pads and caps are left out, with the callbacks
  of the decoder that link and choose them. One of these has the loop at `gst-thumb-pipe.c:560` (section 8), so that
  it is assumed, and not shown, that it comes to an end. The messages the waits ignore are left out too. The
  quit timer may fire whenever it is set; `timeout` is taken to be 0 or more, as its default 600 is.
- **Messages** between one sender and one receiver arrive in order, as D-Bus
  has it. A call that times out is a choice the model has at any moment.


## 8. Where the code and its documentation part

Shown by a run (`PROJECT.json`, "findings"):

1. `daemon/thumbnailer.c:581`: the wake-up of the large pool's thread is
   lost between the test of `must_wait` and the wait (`tracker_lost_wakeup`).
2. `thumbs/hildon-thumbnail-obj.c:300`: Finished overtakes the reply to Queue,
   and the request is never called back (`factory_lost_callback`).
3. `daemon/plugins/gdkpixbuf-jpeg-out-plugin.c:91`: Cleanup compares a number
   with a string in SQLite and deletes younger thumbnails too (`store_cleanup`).

Seen while reading, modelled as the code has it, and kept out of the
properties by a stated exception or left without one:

- `daemon/thumbnailer.c:529-530` says that the pool has one thread; 1320 gives
  the normal pool two. The model has a set of threads.
- `thumbs/hildon-thumbnail-obj.c:301`: after a restart of the daemon a handle
  means another task, so that a callback can run for a stranger's Finished
  (`CalledBackForItsOwnTask` is checked for one life of the daemon).
- `thumbs/hildon-thumbnail-obj.c:460`: when Queue fails, the handle is
  uninitialised. 642: several requests share one `waiting_for_cb`, and a join
  returns early, against line 185 of the header (`JoinMeansCompleted` is checked
  for the orderly world). 339: an unqueued request whose idle source is pending is called
  back all the same. 658: `on_unqueued` removes whatever has its old key now.
- `daemon/thumbnailer.c:319`: Unqueue never replies. 1050: Move and Copy
  leave the rows of the database alone, so a moved thumbnail is never cleaned
  up. 206: a plugin displaced by one of a higher priority does not come back
  when that is removed. 874: a client that registers or leaves between the two lookups
  makes a url "No handler".
- `daemon/plugins/gdkpixbuf-jpeg-out-plugin.c:248`: "consider only fail file
  older than 5 seconds" tests the original's time. 385: an exit between rename
  and utime leaves the thumbnail with the time of its writing. 100: when
  `sqlite3_step` keeps failing, cleanup does not end.
- `daemon/thumbnail-manager.c:251` against 258-261: the newest service file does
  not win, since the types are looked up in a table with other keys. 369 against the
  comment at 372: the override is given to the system's directory. 368:
  `on_dir_changed` passes the file's path where a directory is expected, so
  changes take effect at the next start. 464: a client that has left before its
  Register is handled stays. 474: the last release of a proxy happens under the mutex
  that service_gone takes. 503: the types a plugin brought are not taken back.
- `daemon/hildon-thumbnail-plugin.c:340`, 360: a module can be closed while a
  thread is in its code. `daemon/hildon-thumbnail-daemon.c:335`: `error` is
  freed and not reset. 597: plugin files changed before the monitor is made are missed.
- `daemon/albumart-manager.c:76`: the list's head is read before the lock.
  `daemon/albumart.c:152`: the kind is forced to "album" where the album is
  empty. 161: a request without names is never finished. 300: Delete does not treat
  empty names as Queue does. 391: the signal's parameters are 3 and 4.
- `thumbnailers/gst-video-thumbnailer/gst-thumb-thumber.c:798-801` says that the bus is
  polled in the main loop; `gst_bus_timed_pop` blocks it, so that recursion cannot happen. 160: Create
  with an empty uri makes a task without files, which is finished and never
  answered. 733: a negative `timeout`, which 720 takes to mean no timer, is a long one here. 678: a call dispatched
  in the iteration of the timer is accepted and lost. `gst-thumb-pipe.c:596`, 687: the
  limit of ten seconds is for each message, not for the wait. 1002: the standard sizes are
  written as jpeg under a name that ends in `.png`.
- `thumbs/hildon-thumbnail-factory.c`, the older calls: 891, a cancel before the handle is known does
  nothing; 896-900, a cancelled item may be freed before it is read; 592, the item of a failed Queue
  call is leaked; 909, a wait does not wait for loads whose callback is an idle source, and its flag is
  shared, so that the first answer ends the first part of the wait (the second waits for
  the table to be empty, so that `WaitMeansFinished` holds in the orderly world); 562-565, sizes are
  added up in an `int`; the reading of the cache's directories leaves out where fail files
  are kept; about 645, the name of a local thumbnail is used though there is none.
  693: times must be equal, where the daemon allows two seconds.
- `thumbs/hildon-albumart-factory.c`: 300, the error of Queue is not looked at and the item is put
  in the table under an uninitialised handle; 400, `on_cancelled` reads an item that may have been freed and
  removes the entry that has its handle now.
- `thumbs/hildon-albumart-obj.c`: 417 and 433, unqueue and join read a key that is NULL until the reply; 384 and
  425, no join waits for the load of a thumbnail; an unqueued request for a thumbnail whose load is
  cancelled leaks its record and its first object.
- `daemon/thumbnailer.c:589-640`: the gate's test for existing files has the name of the jpeg twice and
  never that of the png. The png plugin's `put_error` leaves an error set although it has
  written its file, and the loop over the output plugins hands it on. A format that is no longer made
  leaves its files behind, which the clients go on opening (`ShownIsFresh`).
- `daemon/plugins/gdkpixbuf-plugin.c:324`: with DoCropping off, and no other size built, nothing is decoded and
  nothing is an error: a url that needs a thumbnail is reported Ready without one, and a stale one stays where it
  is (`ReadyIsFresh`, `ReadyMeansMade` and `ShownIsFresh` except this). 499-503: while a configuration
  without the key is read, it is off for a moment, in which a pool thread may test it. `ChangeLog:1549-1553` says
  `gdkpixbuf-plugin.config` and `doCropped` where the code reads `gdkpixbuf-plugin.conf` and `DoCropping`.
- `daemon/thumb-hal.c`: sleeps 15 seconds where the comment says 10.
- Not modelled: `is_cached` and `get_uri` of the client library, which look at the jpeg only, and in 241ff of
  `thumbs/hildon-thumbnail-factory.c` a `g_strcmp0` whose result
  is taken for equality; `thumbnailers/gst-video-thumbnailer/gst-thumb-pipe.c:560`
  (an unsigned index with `i >= 0`, in a loop that replaces the caps it walks and releases them); `daemon/plugins/exec-plugin.c:287` (frees the
  table's command line) and 291 (exit status not looked at);
  `daemon/plugin-runner.c:111` (no signals, the caller always times out) and 363 (the timer gets an unset pointer);
  `daemon/hildon-thumbnail-plugin.c:181` and 194 (no output plugin, or two);
  `thumbs/thumber-register.c:100` and 170.


## 9. What is not modelled

- exec, epeg and the pixbuf loader: decoding and child processes; what the daemon
  gets from them is the step of a plugin in Thumbnailer. One hazard is theirs alone: the main loop reads
  exec's configuration again and frees the command line that a pool thread has just looked up
  (`daemon/plugins/exec-plugin.c:410`).
- A module closed under a thread that is inside it (`daemon/hildon-thumbnail-plugin.c:340`): the code keeps no
  count of such threads, so the property does not hold; Routing reaches these states.
- Loading and unloading of output plugins, and of the png plugin `cleanup` and `get_orig`, which test what
  is written inside the file. A plugin whose initialization fails (`daemon/hildon-thumbnail-daemon.c:335`).
- plugin-runner: one blocking call after the other; for the daemon, a thumbnailer that
  never signals, which SpecializedCall has as the call that times out.
- Of the video thumbnailer, the elements of the pipeline and the picture itself.
- The shutdown after ten idle minutes: it is commented out in `main`
  (`daemon/hildon-thumbnail-daemon.c:611-631`).
- `thumber-*`: programs that run once. Tests, documentation and build files
  were read for what they say.


## 10. What could be added

Built so far, in the order of their weight: Thumbnailer with ThumbnailService and
proofs of both; SpecializedCall; TrackerGate and GatedQueue; the client libraries on QueueOnBus (ThumbFactory, Loads,
ArtRequests, Clients); ThumbStore; Formats; ThumbnailManager, PluginHost and Routing; Albumart; Thumber and
ThumberPipe.

Left, as far as there is something to find:

1. **Thumber under SpecializedCall**: the daemon's wait and the process that quits, so that
   a call lost to the quit timer is seen as the wait's time out.
2. **exec** with its configuration read again under a running thread, and **plugin-runner**.
3. The **output plugins' half of PluginHost**.
4. Theorems: the safety part of a refinement for the video thumbnailer's client (SpecializedCall with
   Thumber), and for the client libraries an abstract request like ThumbnailService's.
