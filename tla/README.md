# mpv: specifications of the concurrent core

This directory holds TLA+ specifications of the parts of mpv in which several
threads, or callbacks in an unexpected order, make the code hard to test: the
dispatch queue, the thread pool, the filter graph, the asynchronous frame queue,
the log file, a handle of the client API, and the video output with its driver for
libmpv. Each module is written from the C source; `PROJECT.json` names
the lines that each definition stands for. TLC checks small instances, TLAPS
proves the safety properties for all values of the constants.

    tlc -config Dispatch.cfg MCDispatch       # a run
    tlapm DispatchProofs.tla                  # the proofs of a component

## 1. Inventory

mpv is a player core (one large sequential context, `MPContext`) around which
subsystems run on their own threads. The threads meet in a small number of
primitives, and the primitives are where the concurrency bugs live.

| Component | State | Operations | Interacts with | Hard behaviours | What makes it correct |
|---|---|---|---|---|---|
| dispatch queue `misc/dispatch.c` | linked list of items, `in_process`, `locked`, `lock_requests`, deadline | enqueue, notify, cancel, run, process, lock/unlock, interrupt, adjust timeout | playback core, vo thread, decoder threads are targets; client API, OSC and scripts are clients | one condition variable for everybody, callbacks that unlock, a target that sleeps in its own event loop, destruction right after the last reply | exclusive access, counted lock requests, no lost wakeup, stack items not lost, `lock()` and `run()` return |
| thread pool `misc/thread_pool.c` | work list, thread list, `busy_threads`, `terminate` | create, queue, run, worker loop with timeout, free | asynchronous commands, screenshots, file loading and demuxer opening | one signal per item, threads that time out together, failing `pthread_create()`, destruction while busy | accepted work runs once, nothing stranded, limits kept, destruction ends |
| filter graph `filters/filter.c` | `pending[]`, `async_pending[]`, per pin a frame and a request, interrupt flag | run, recursive run, request/write/read at pins, wakeup, interrupt, reset, create and free filters | playloop reads external pins; demuxer and async queues wake filters from their threads | wakeups between check and sleep, recursion, interrupts, filters freed while pending | who sleeps leaves a blocked graph; frames at external pins are reported; requests are answered |
| async queue `filters/f_async_queue.c` | ring of frames, accounted sizes, `active`, `reading`, two filters, reference count | reset, resume, configure, create/free filters, process on both sides, notify | decoder wrapper (threaded decoding), audio output | both graphs run on their own threads, reset races with frames in flight, any end may be freed | FIFO, exact accounting, both sides woken, nothing from before a reset |
| log file `common/msg.c` | ring buffer, `log_file_thread_active`, three locks | log, write, open and close the file | every thread | a full buffer blocks the logging thread with the global log lock held | lines once and in order, buffer not freed under a writer, closing returns |
| cancellation, waiters `misc/thread_tools.c` | flag, callback, pipe, list of slaves, parent | trigger, reset, test, wait, set callback/parent, get fd | streams, demuxers, aborting commands | trigger races with attaching, with reset and with a pipe that is made late | a triggered parent means triggered slaves; no waiter sleeps through a trigger |
| decoder wrapper `filters/f_decoder_wrapper.c` | decoder thread, dispatch queue, two async queues, cached status | create, reset, destroy, control, process | filter graph on both sides | reset across two threads, destruction of a thread that may wait in three places | no stale frames after a reset, destruction ends, the lock stops the decoder |
| audio output core `audio/out/buffer.c` | playback thread, `playing`, `streaming`, `need_wakeup`, filter graph over an async queue | start, reset, pause, resume, drain, read from the driver's callback | playloop, driver threads | two locks, timed waits, EOF and underrun | drain ends, no wakeup lost, no data played after a reset |
| video output core `video/out/vo.c` | current and queued frame, `rendering`, `hasframe`, `request_redraw`, `dropped_frame`, `wakeup_pts` | queue frame, wait, redraw, pause, seek reset, reconfigure, control, destroy | playloop, driver, dispatch queue | drawing with the lock released, one timer for two purposes, dropped frames when the player pauses | the core is woken when it may queue; a paused player shows its frame; nothing from before a seek is shown; calls return |
| libmpv output `video/out/vo_libmpv.c` | next and current frame, `present_count`, dispatch queue, `in_use` | draw, flip, render, update, free | vo thread, the API user's render thread | the vo thread gives up after 0.2 s, either side may go first | nobody waits for a frame that was given up; the context outlives its use; freeing does not hang |
| demuxer `demux/demux.c` | packet queues, cached ranges, seek state, thread | read, seek, select, refresh, terminate | streams, player, decoders | state changes while a packet is read without the lock | readers woken, refresh seeks complete, no packet lost or twice |
| client API `player/client.c` | event ring, reserved replies, observed properties with three time stamps, hooks, `async_counter` | wait for events, observe, command, hook continue, destroy | core through the dispatch queue, worker threads of commands | properties are read with the lock dropped, full event ring, hooks that wait for changes, destruction with requests pending | a reserved reply has a place; changes are reported, before the hooks they precede; destruction ends and waits for all users |
| options `options/m_config_core.c` | shadow data, time stamps, caches, listeners | update, get next changed, write | every thread | lock-free comparison of the time stamp | a change is seen by each cache at last |
| playback loop, file loading, commands, input, OSD, scripting | `MPContext` and per-subsystem tables | the player itself | everything above | long call sequences, one thread | sequential logic, timing and policy |
| demuxers, streams, decoders, filters, drivers, GPU code, `osdep/`, `ta/`, strings | data | conversions and system calls | | I/O, formats | not concurrent |

## 2. Modules and plan

| Module | Models | Abstract specification | TLC | Proofs |
|---|---|---|---|---|
| `Dispatch` | `misc/dispatch.c` | `DispatchMonitor` | `MCDispatch` | `DispatchProofs` |
| `ThreadPool` | `misc/thread_pool.c` | `JobPool` | `MCThreadPool` | `ThreadPoolProofs` |
| `AsyncQueue` | `filters/f_async_queue.c` | `FrameStream` | `MCAsyncQueue` | `AsyncQueueProofs` |
| `FilterGraph` | `filters/filter.c`, `f_demux_in.c`, its use by `player/playloop.c` | | `MCFilterGraph` | `FilterGraphProofs` |
| `LogFile` | `common/msg.c`, the log file | | `MCLogFile` | `LogFileProofs` |
| `Client` | `player/client.c`, hooks and the life of asynchronous commands of `player/command.c` | | `MCClient` | `ClientProofs` |
| `RenderContext` | `video/out/vo_libmpv.c` | | | |
| `VideoOut` | `video/out/vo.c` over `RenderContext`, its use by `player/video.c` | | `MCVideoOut` | `VideoOutProofs` |

`SequenceLemmas` holds what the proofs need of sequences and of recursive functions.

The modules were written in this order: first what everything else stands on
(dispatch queue, pool), then the data flow (async queue, graph), then two
subsystems in which three kinds of thread meet: the client API (core, user, worker
threads) and the video output (core, vo thread, render thread). `VideoOut` extends
`RenderContext`: the driver's callbacks are operators of the vo thread's steps, and
the steps of the API user are composed with those of the other two threads. The
other modules do not instantiate each other, because each is checked against the
most general environment its header allows; `Client` and `VideoOut` use the dispatch
queues by what `Dispatch` shows of them: a call is served in order, at a point
where the target takes it, and its caller waits for the answer.

Candidates for further modules, the most important first:

1. `DecoderWrapper` (`f_decoder_wrapper.c`): the decoder thread over
   `DispatchMonitor` and two frame streams; reset order, destruction.
2. `Cancel` (`misc/thread_tools.c`): trigger, reset, slaves and the pipe.
3. `AudioBuffer` (`audio/out/buffer.c`), the wakeups of the demuxer thread, the
   time stamps of the options (`m_config_cache_update()`).
4. Proofs: the invariants of such a module. Of the present modules only liveness is
   left, which the prover does not treat.

## 3. The models

All models share conventions. A critical section (from taking a mutex to
releasing it or sleeping on a condition variable) is one action, cut further
only where the code unlocks, calls out, or where another thread can observe the
middle. Two steps hold more than one section, because nothing can come between them
that the properties tell apart: `Client!Observe` wakes the core in the step that releases
`ctx->lock` (`client.c:1564`), and `AsyncQueue!FreeFilter` drops its reference in the step
of the section in `destroy()`. `asleep` is the set of threads blocked on a condition
variable: a broadcast empties it, a signal removes one member, a spurious wakeup is a
step of its own. A `pc` names the place in the code where a thread is. Variables that the
code does not have are marked `history` and are read by no guard, except where
they carry a bound. Definitions introduced by "Mutant of" are plausible bugs in
the definition that follows them; they take no part in the specification and
show that the properties can be violated.

### Dispatch

The queue, the flags and the counters have the code's names. `tpc` is the
target's place: outside, in its own event loop (`external`, for queues with a
`wakeup_fn`), in the loop of `mp_dispatch_queue_process()`, waiting, or in a
callback. `mp_dispatch_run()` items live on their caller's stack and are named by
the caller; "exit" is such an item whose callback makes the target leave, after
which the queue is destroyed. A deadline is none, one that passes, or one that is
too far away to be relied on. `owed` records notifications not yet followed by a
run. Not modelled: the debug field `locked_explicit_thread` beyond its value, and
the `onlock` callback, whose only user is the decoder wrapper.

`DispatchMonitor` says what the queue promises: one owner of the target's state
at any time; the target gives it up only when it enters the queue and does not
get it back while somebody requests the lock.

### ThreadPool

`work`, `threads`, `busy_threads` and `terminate` are the pool's fields. The
worker's loop is `Acquire`, `TakeWork`, `FinishWork`, `Sleep`, `Timeout`, `Leave`;
`thread_pool_add()` is split by what happens to `pthread_create()`. A job is
queued again only after it has run, so that its identity tells the runs apart.
`JobPool` promises that what is accepted runs once, at most `Parallel` at a time,
also if the pool is freed meanwhile.

### AsyncQueue

Every function takes `q->lock`, so each is an action. `pending` holds the filters
whose `process()` is due, `requested` and `data` the state of the two pins. The
graphs at both ends are external: they deliver what was requested, request and
read at any time. `orderly` users follow the "proper global reset" of
`f_async_queue.h` (reset the queue, reset both filters, resume); the others call
anything at any time. A frame is stale if it was requested before a reset; EOF
frames have no size. `told` records of which of the two conditions (full, empty) the notify
filter knows; `Untold` are those that come true without a call of `mp_filter_wakeup()`:
new limits, and the reading of an EOF, which has no pts and hid how long the queue is.
`FrameStream` promises one FIFO stream that loses one contiguous piece (`IsCut`) at a time,
and only while the queue is stopped.

### FilterGraph

`queue`/`pending` are `pending[]` and the flags in its members, `async_pending` the
array other threads add to. An edge stands for a whole chain of connected pins.
Three kinds of filter represent the protocols used by mpv's filters: a source
that reads packets and asks to be woken (`f_demux_in.c`), a converter
(`mp_pin_transfer_data()`), and a sink that feeds an async queue. The user is the
playloop: it reads external pins, runs the graph, resets, frees and creates
filters, and sleeps until the wakeup callback was called (or for another reason).
`ResetGroups` are the filters that it resets with one call, any sets of them. `cutoff` is a
history variable: the converters that were reset while the filter behind them kept its
request, until they run again.
Recursive filtering (a request at an external pin runs the graph at once) and
`mp_filter_graph_interrupt()`, also as the end of `max_run_time`, are included.
Not modelled: error handlers, `mp_pin_out_unread()`, filters that change the
topology while they run, and the EOF that a demuxer repeats, which `f_demux_in.c:36-42`
does not pass on, so that the request stays without an answer.
`mp_filter_mark_async_progress()` has no caller.

### LogFile

Writers hold `root->lock` for the whole call of `mp_msg_va()`; `WriteFull`, `Block` and
`Unblock` are the wait for room in `write_msg_to_buffers()`, which unlocks the buffer
and sleeps under another mutex, `log_file_lock`. The log file thread reads under
`log_file_lock` and prints without it. `Unfinished` is the line that a writer has not
put into the buffer yet; `WrittenInOrder` says that file, hands of the thread and buffer
together are increasing and hold everything else that was not skipped, and that what was
skipped is older than what the buffer holds. The main thread
opens the file, sets `log_file_thread_active` before `pthread_create()`, which may fail,
and closes it.

### Client

One handle. The user's thread calls `mpv_wait_event()`, observes and unobserves, sends
commands, continues hooks, and destroys the handle at any time between two calls; the
core sends events, runs hooks and reads the observed properties in `mp_wait_events()`;
worker threads finish commands; properties change on the core or, for those in
`Foreign`, on another thread. `prop` is `struct observe_property` with `change_ts`,
`value_ts` and `value_ret_ts`. `core = "scan"` means that
`send_client_property_changes()` runs with `ctx->lock` held, `"read"` that it has
dropped the lock to read `properties[pos]`. A change, an observation and a destruction
may come while it reads; `list_changed` stands for the comparison of
`properties_change_ts`. The ring buffer `events` holds ordinary events (replies are
among them) and hooks; `reserved_events` are the places promised to replies. A hook is
returned only when the properties in `Waiting` were told. `overtaken` is a history
variable: the properties whose last change, by another thread, came while the core read the
value before it, and counts as read (`client.c:1716`). `FreeHandle` ends the
destruction. `job` and `aborted` follow a command from its queueing to its reply.
Several handles, the end of the core, `mpv_wakeup()` and the wakeup callback, event
masks, log messages and synchronous calls are not modelled.

### RenderContext and VideoOut

A section under `vo->in->lock`, or under the context's lock, is one step. `vo` is the
place of the vo thread: `top` (dispatch queue, then `render_frame()`), `draw`, `target`
(`wait_until()`), `flip` and `done` in `render_frame()`, which has released the lock
from the first to the last, `loop` (the rest of the loop's body), `redraw`, `wait`,
`control` (it waits for the render thread), `uninit` and `dead`. `mode` tells whether it
draws for `render_frame()` or for `do_redraw()`. `core` is the place of the core, which
calls one function of `vo.c` after the other; `asked` is what keeps it from changing the
format after it was told to wait for the frame (`write_video()` compares the formats
first). `render` is the place of the API user's render thread. The clock `now` is
abstract: a frame lasts one unit, `timing_offset` is `Lead` units. `Frame` is what
`vo.c` looks at in a `struct vo_frame`. Timeouts (the 0.2 s of `flip_page()`) may end at
any time. The user may ask `mpv_render_context_render()` not to wait for the flip
(`MPV_RENDER_PARAM_BLOCK_FOR_TARGET_TIME`). A frame in display-sync mode is shown for a number of vsyncs instead.

The model has advanced control on, which is what makes the vo thread wait for the
render thread (screenshots). Not modelled: the statistics that estimate vsyncs,
events and resizing, asynchronous controls and option updates, a reconfiguration that
fails, drivers that are untimed, drop frames themselves or do not retain the image,
the creation of either side, a second video output on the same context, direct
rendering, and `MPV_RENDER_PARAM_SKIP_RENDERING`.

## 4. Runs

| Run | Instance | Shows |
|---|---|---|
| `dispatch` | 2 clients, 1 callback, queue bound 3, with and without `wakeup_fn` | exclusive access, no lost wakeup, `run()` items kept, notifications followed by a run, safe destruction, refinement of the monitor with its fairness, `run()` returns |
| `pool` | 3 threads (1 at first, minimum 1), 3 jobs, creation may fail | no work stranded, queueing cannot fail, refinement of `JobPool` with fairness, destruction ends and is clean |
| `async_queue` | frames with and without size and EOF, two configurations in different units, both ends and the handle freed | exact accounting, both sides awake, notifier told, reference counting, nothing stale, refinement of `FrameStream`, consumer served |
| `filter_graph` | video chain to an external pin, audio chain through a converter, which is also reset alone, to a queue whose filter has high priority and is freed and created, 1 interrupt | the arrays match the flags, nobody sleeps over work, the graph is blocked when it says so (but for a converter that was reset alone), requests are answered |
| `log_file` | 2 writers, a buffer of 2 lines, 5 lines, 2 files | the buffer outlives its writers, lines in order and once, the oldest dropped first, closing returns |
| `client` | 2 properties (one without format), which change in the core and on another thread, 2 values, 2 commands (one can be aborted), a ring of 2 events | replies have their places, who sleeps misses nothing, no change is forgotten and hooks come after the changes (but for a change that was overtaken by the read of the old value), the handle outlives its users, hooks end, destruction returns |
| `video_out` | up to 2 frames, timed or for 0 or 2 vsyncs, a clock of 4 units, one seek, pause, redraw, call and end | nobody waits for a frame that was given up, the context outlives its use, a paused player shows its frame, and the API user gets it, nothing stale is shown, the core is woken, calls return |

Five more runs check one promise each that the code does not keep; the
counterexample is the point of the run:

* `async_free` (`FilterMayGo`): a consumer that requests a frame when the
  producer's filter does not exist makes `process_out()` wake a NULL filter,
  against `f_async_queue.h:54`.
* `filter_external` (`ExternalReported`): with the root filter already in
  `pending[]`, `add_pending_pin()` returns before it notes that an external pin
  changed, and `mp_filter_graph_run()` returns false, against `filter.h:414`.
* `log_blocked` (`BlockedOnlyWhileFull`): a writer that saw the buffer full may
  wait after the log file thread has emptied it and gone to sleep on the same
  condition; it keeps the global log lock, and all logging stops.
* `client_wait` (`WaitsForRequests`): `mpv_wait_async_requests()` also waits for the
  property that the core is reading; when the read is done and brings no news, nobody
  wakes it, and it sleeps with no request outstanding, against `client.h:1749`.
* `client_stale` (`ValueNotStale`): another thread changes a property while the core reads
  its old value with the lock dropped; `value_ts` is then set to the new `change_ts`, and
  the old value passes for the new one ("not a stale value?", `client.c:1771`). The vo
  thread changes `osd-dimensions` so (`osd.c:254`).

Bounds, and why they are enough. Two clients are the least that compete for the
dispatch lock while the target waits; a third only repeats the second's states,
because the code never looks at which client it serves. The queue bound 3
(beyond it no item is enqueued or notified, while `run()` items are not bounded) lets a
notification be merged with one that is pending among other items (`dispatch.c:130-140`).
Three pool threads are two beyond the minimum, as several threads must time out together; two queue
jobs and a run job fill the list while a thread is busy. In the async queue the
limits (a handful of samples or bytes) make it full after one to three frames.
One interrupt suffices because a second finds the flag in the same two states. A
log buffer of two lines is the least that is neither full nor empty in between;
five lines are enough to fill it twice, and two files let lines of one be
confused with the other's.

In `Client` and `VideoOut` a budget says how often the user or the core may do what
they are free to do; an initial state has one of several small budgets, so that each
pair of operations meets without all of them at once. In the client two changes of one
property are the least that a read can fall between, two observations the least that
change the list under a scan, and one command with one property brings
destruction, a read, a hook and a reply together. A ring of two events is filled by an
event and a reserved reply. In the video output a frame together with a seek, a pause,
a redraw, a call or an end covers every pair of a frame that is drawn and what
interrupts it; two frames let one be queued, or be waited for, while the other is drawn,
missed or dropped. The clock has one unit before the first frame is due, so that frames
come early (the core is to be woken by the timer), on time and late (they are
dropped); frames of the last unit end when it stops. No property of the video output
compares times, and those proved hold for any budgets and clock.

The properties other than liveness are also proved, without these bounds. The largest
instances are `video_out` (606,656 distinct states, two minutes), `client` (413,382, two
minutes), `filter_graph` (316,915), `dispatch` (200,742), `async_queue` (127,973), `pool`
(51,422) and `log_file` (35,361).

`CHECK_DEADLOCK FALSE` appears where the system may really stop: in `AsyncQueue`
when everything is freed, in `Client` and `VideoOut` when the handle, the video output or
the context is gone, in `LogFile` when nothing more is logged or, as the
finding says, when everybody sleeps. The other runs check for deadlock.

### Fairness

Fairness is assumed for threads inside the code's own functions, never for users
who may stop calling. The actions that need a contended mutex have strong
fairness: a mutex that is free again and again is acquired at last. The target
thread comes back to `mp_dispatch_queue_process()` when it is woken, which is what
`wakeup_fn` is for. In the pool, work returns. Timeouts are not relied on in
`ThreadPool`; in `Dispatch` only deadlines of the kind `Soon` pass. In
`AsyncQueue` both graphs run what is due and the producer answers requests. In
`FilterGraph` the playloop comes back after a wakeup and sources become ready.
`RequestServed` is an implication: the runner takes the last entry of `pending[]`
first, so that a stream that never lets it become idle starves the others; this is a
property of the code and assumed away only in that formula.

In `Client` calls run on to their end and the core serves its dispatch queue at last.
The ends of the commands share one fairness condition, as each ends once. A command that
can be aborted is fair only once it was aborted, so that destruction may not rely on it;
a user who was sent a hook keeps waiting for events, since the core cannot go on without
them. In `VideoOut` threads run on, time passes, a video whose end was requested
(`kill_video_async()`) is destroyed, and the user answers the update callback by
`mpv_render_context_update()`, as `render.h` demands. Nobody has to render: the calls
return even if the user never does.

## 5. Proofs

Every invariant and action property of the passing runs is also a theorem, for all
values of the constants, and so is the safety part of the three refinements. An
invariant is proved in layers: the first types the state and ties the places of the
threads to the flags, each further layer contains the one before it and adds what the
next property needs. TLC checked each layer on the run's instance before it was proved.

**Sequences** (`SequenceLemmas`). The provers cannot use the library's induction
theorems, which take an operator as a parameter. Induction over a set of natural
numbers can be stated with sets only (`SetInduction`, from `LeastExists`), and from it
follows that a recursive function on an initial segment of the numbers exists and satisfies its
equations (`IterationExists`). `ElementsOf` and the lemmas on `Lists` (a sequence
holds exactly a given set, each element once) say what appending, prepending, removing and
taking the tail do; `Count` does the same for sequences with repetitions.

**Dispatch.** `InductiveInvariant` is the conjunction of the place/flag typing of
all threads (`ControlTypeOK`), what the target's place says about `in_process`,
`locked` and its sleep (`FlagsOK`), and the count of requests
(`RequestsCounted`). The count is needed for exclusion: the target leaves the
queue only with `lock_requests = 0`, which excludes a holder only if every holder is
counted. From it follow `Exclusion` and `Counting`. `NoWakeupIsLost` adds
`WakeupOwed`: a client in the first loop of `mp_dispatch_lock()` sleeps only while
the target is not in the queue. `OInv` counts the items: a client inside
`mp_dispatch_run()` has one item in the queue, in the running callback or among the completed
ones, any other client none, and a function has at most one notification in the
queue and exactly one while it is `owed`; this gives `RunItemsAreKept` and
`NotificationsArePending`. `ExitOK` follows the item that makes the target
leave: it is given only when all other clients are gone, and it is the last of the
queue; `DestroyIsSafe` is what this means for `queue_dtor()`.
`ImplementsMonitorSafety` shows, action by action, that a step is one of the monitor's
or leaves its variables alone.

**ThreadPool.** `InductiveInvariant` combines the place of each thread
(`ControlOK`), the match of places and the thread list (`ThreadsListed`), threads
for queued work (`WorkAttended`), who may have timed out (`TimeoutsOK`), that
`busy_threads` is the number of working threads (`Counted`), and `WorkCovered`.
The count is needed to know that an idle thread exists when the pool does not
create one. `FreeLeavesNothing`, `QueueNeverFails`, `WorkIsCovered` and
`MinimumIsKept` follow; `WorkIsNotStranded` adds that sleepers are in the wait and
shows by counting that one signal per item suffices. `ImplementsJobPoolSafety` rests on
`JInv`: queued items differ from each other and from those that run, no two workers
run the same item, and there are never more threads than `max_threads`, not even
those that only wait to be joined. Every step is then one of `PoolStep`, the
same five cases in which `JobPool` accepts, begins, ends, closes or stutters.

**AsyncQueue.** `IInv` has four parts that need each other in this order.
`PinsOK` types the pins and says that only an existing filter can have a frame, a request
or a pending `process()`. `RefsCounted` counts the references and gives
`LivesWhileUsed`. `ReaderOK` (reading implies active, and `ConsumerAwake`) gives
`ConsumerMissesNothing`. `Fresh` says where frames from before a reset may be for an
orderly user: in the pin of a filter that is still to be reset, or still to be
delivered to it, never in the queue. A frame enters the queue only while it is read,
hence active, hence after all resets; so `Fresh` is inductive and `ResetLeavesNothing`
follows. `SInv` adds the sums; `Total` is a recursive function, of which the lemmas show
how it changes with the first and the last frame, and `AccountedExactly` is `SInv` itself.
`AInv` adds both wakeups of the producer's side: an empty queue is never full, which
needs the exact sums, so that a producer that found no room has a reader coming.
It gives `ProducerMissesNothing` and `NotifierIsTold`. For `ImplementsFrameStream` the
stream is what the consumer's pin, the queue and the producer's pin hold, oldest first;
`FInv` says that nothing is asked from a producer while the queue is not read, and each step
appends to the stream, takes its head, leaves it, or removes a piece of it.

**FilterGraph.** `GInv`: the sequence `pending[]` lists exactly the filters with the flag
(`ArraysOK`), the array of the other threads lists theirs, and both only living filters;
nothing is requested from a filter that was freed. It gives `TypeCorrect` and
`ArraysMatchFlags`. `WInv` adds `WakeupOK`: a non-empty `async_pending[]` has called the
wakeup callback, and once the runner is past its entry this callback, or an
interrupt, has set `wake`; so `NothingIsForgotten`. `DInv` adds `OthersDue`: each living filter
is blocked or is in one of the arrays. It is the sum of all the `add_pending()`
calls: a filter may lose its only reason to be blocked in a step of its
neighbour, of a reset, of a freed filter or of another thread, and each of them has to note it.
With `NothingIsForgotten` it gives `SleepsOnlyIfBlocked`. The theorems hold for any
number of chains of the three kinds of filter. `ResetGroups` may be any
sets of filters. A reset of a converter without what comes after it takes its request for a
frame away and does not have it processed, so that the filter behind it waits for an
answer that nobody prepares; `mp_output_chain_reset_harder()` is such a reset. The invariant
therefore exempts the members of `cutoff`, which are exactly those, and a converter leaves
that set when it runs. The proof of `OthersDue` found this.

**LogFile.** A writer that is inside `mp_msg_va()` holds `root->lock` and its buffer
exists (`BufferAlive`); this is inductive together with the types because the
only step that takes the buffer away needs `root->lock`. For `LinesInOrder`, `OInv` says
that the lines in the file, those that the log file thread has taken, and those in the
buffer are increasing in this order and are, with the one that a writer is about to
add, all that were logged and not skipped; those skipped are older than what is in the
buffer; a buffer is created or destroyed only while
there is no log file thread, so that none is left behind with lines in its hands.

**Client.** `ReplyHasPlace` is inductive once it is known that a reply is owed exactly
for each command that is queued or running, and that each such command has its place in
`reserved_events` (`ReplyInv`); it gives `RepliesFit`. `HandleStaysAlive` needs what the
user's place says of the handle (`LifeInv`): from `remove` on, no command is out and the core
does not read, because nothing can be started on a handle that is marked. `NInv` adds
the list of properties, the place of the read in it, the hook, and `SleepOK`: a user
who sleeps and is not being woken either has nothing to get, or the core is in a
scan that has found something and wakes at its end. It gives `SleepersMissNothing`.
`TInv` adds what the three time stamps mean (`ToldOK`: equal stamps, equal values), that a
property that is not up to date is before the scan or flagged for the next (`ScanOK`), and
that a delayed hook has marked the changes it waits for (`DelayOK`). It gives
`ChangesReachTheUser` and `HooksComeAfterChanges`. Neither restricts what other
threads change: the exception is in the properties, as the set `overtaken`, which a scan
enters a property into only when the value it stores is not the property's any more, and
which the next change takes it out of.

**VideoOut.** For any budgets, clock and frames. `PresentInv`: a frame is
in the context's slot only between `draw_frame()` and the end of `flip_page()`, and a
render thread that waits for `present_count` waits for exactly the next one, while the
slot is empty; so a frame that the vo thread gives up (`present_count` grows by two)
has no taker who waits, and `RenderReleased` follows. `ContextInv` ties `in_use` and
the context's lock to the end of the vo thread; it gives `ContextAlive`. Together they are
`RenderIsSafe`: a render thread neither waits for nothing nor outlives its context.
`SlotInv` says that what `vo_is_ready_for_frame()` promised is kept: the vo thread takes
a frame only if there is one to show, which the promise excludes; with `PresentInv` it
gives `SlotsStayFree`, the assertions of `draw_frame()` and `vo_queue_frame()`. `StaleInv`
orders the ids: a queued frame is newer than the last seek, the last reconfiguration
and all that was drawn; the current one may be older than a seek, but then it is only
redrawn, since `forget_frames()` has taken its vsyncs; what lies in the context is
newer than the reconfiguration. It gives `NothingOldIsShown`. `DrawnInv` follows the frame
that nobody has drawn: it is queued and the vo thread awake, or was dropped and is known to be
(`dropped_frame`), and then a pause requests a redraw, and a vo thread that owes one does not
sleep. `ScreenInv` says that what was drawn last is what the API user has or gets from the
context, also if they missed its flip. Both give `PausedFrameIsDrawn`.

The assumptions are the named `ASSUME`s on the constants: threads are distinct from the
"none" values, finite where they are counted, limits are natural numbers with
`min <= max`, edges connect filters in chains. TLC evaluates them in every run.

Only model-checked, not proved: all liveness (`RunReturns`, `FreeReturns`,
`ConsumerServed`, `RequestServed`, `TerminateReturns`, `HookEnds`, `DestroyReturns`,
`CoreServed`, `CallsReturn`) and the fairness part of `ImplementsMonitor` and
`ImplementsJobPool`, because the prover treats neither fairness nor `ENABLED`. Proved and in no
run, because the theorem says more than a small instance: `RequestsCounted`,
`WorkCovered`, `MinimumKept`, `SlotsFree`, and the types, which are part of each
inductive invariant as far as the proofs need them.

## 6. Observations without a run

* `mp_pin_out_request_data_next()` (`filter.c:332`) marks the producer when the
  frame is already there, not the caller that is to look at it again.
* Lower limits set by `mp_async_queue_set_config()` may make a queue full without
  telling the notify filter. So may a read: with a limit in seconds `is_full()` compares
  the pts of the first and the last frame (`f_async_queue.c:99`), an EOF has none, and
  when it is read from the end the others' duration counts again. Both are
  `Untold`, which `NotifierAwake` excludes; the proof found the second.
* A queue overflow while every place is reserved for replies is noticed by a
  sleeping user only with the first reply, since nobody wakes it when an event is dropped
  (`client.c:734`); `NothingMissed` says exactly that (`AllReserved`).
* EOF frames count neither samples nor bytes (`f_async_queue.c:91`), so no limit
  applies to them; the model bounds them by `MaxEofs`.
* When `pthread_create()` fails for the log file thread, the flag is reset without
  a broadcast (`msg.c:651`). A thread that blocked on the full buffer in that short
  time is not woken, and closing the file then waits for it. The steps are in
  `LogFile`; `TerminateReturns` speaks of threads that were started.
* `mp_thread_pool_run()` accepts work although all `max_threads` threads are busy
  (`thread_pool.c:204`), while `thread_pool.h:29` says that it succeeds only "if a thread can
  be reserved for the item".
* `mp_filter_reset()` of a chain alone makes nobody pending (`filter.c:597`).
  `mp_output_chain_reset_harder()` (`f_output_chain.c:317-321`, called at `audio.c:472`,
  `audio.c:772`, `video.c:572` and inside the chain at `f_output_chain.c:160`) does so while
  `ao_filter`, or the playloop, keeps its request. Whether the player's other calls make such
  a chain run again in time is outside the model, which shows that the graph itself does not.
* `mpv_destroy()` aborts the commands that run; one that is still in the core's dispatch
  queue is started later and never aborted (`late`). `DestroyReturns` excludes it.
* A thread that unobserves the last property a hook waits for does not wake the thread
  in `mpv_wait_event()`, which returns the hook only at the next event.
* A hook handler is removed while its list is walked; the handlers after it may be
  skipped by `invoke_hook_handler()`.
* `request_redraw` is reset after `render_frame()` has drawn (`vo.c:1006`), so that a
  `vo_redraw()` made meanwhile is taken for served, though the frame was drawn without
  what it was made for. `vo_redraw()` says only "at some point in the future".
* `do_redraw()` returns before it resets `request_redraw` if the driver does not retain
  its image or the configuration failed (`vo.c:1033`); the loop then does not sleep
  until the next frame.
* A seek during the drawing resets `drop_count`, and a flip that the user misses after
  it may not be seen as one (`vo.c:992`): the image is then not redrawn at a pause.

## 7. Not modelled

The components with status `not_modelled` in `PROJECT.json`, each with its reason. They
are of three kinds: candidates, listed in section 2; sequential code in which the
difficulty is policy or data and not interleaving (playback loop, the table of commands,
options parsing, demuxers, OSD); and glue to libraries and systems (drivers, decoders,
GPU, scripting engines, `osdep/`).
