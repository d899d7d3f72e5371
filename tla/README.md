# Verification of the Lemon runtime

Lemon is a small JavaScript runtime: about 1500 lines of C++ around V8
(`app/`, `engine/`) and a library in JavaScript (`App.js`, 447 lines).
`engine/lib/v8` holds V8's headers and prebuilt objects and is not part of the
program. This directory holds TLA+ modules that model the runtime, the TLC
configurations that check them, and proofs for TLAPS.

## The system

### Components

| Component | Code | State | Operations |
|---|---|---|---|
| Event loop | `engine/EventLoop.*` | `jobCount`, `shouldStop`, `currentTime`, timer `heap`, `timersQueue`, `callbackQueue`, message queue `mQu` | `Run`, `runTimers`, `runCallbacks`, `updateTimers`, `runJob`, `registerJob`, `removeJob`, `withdrawJob`, `addCallbackJob`, `message::build` |
| Timers | `engine/Timers.*` | one `TimedJob` per timer: start time, duration, deadline, one-shot or interval | `setTimeOut`, `setInterval` (there is no way to cancel either) |
| File system bindings | `engine/FileSystem.*` | one `callbackJob` per call, one detached thread per asynchronous call, one per watched file | `readFileAsync`, `writeFileAsync`, `getStatsAsync`, `watchFile`, and the synchronous `readFileSync`, `writeFileSync`, `getStatsSync` |
| Program driver | `engine/Core.cpp`, `app/App.*`, `engine/Environment.*` | the list of scripts, the binding objects | `main`, `App::Start`, `SetupEnvironment`, `internalBinding`, `log` |
| Script loading | `engine/Lemon.*` | none | `ReadFile`, `ExecuteString`, `RunJsFromFile` |
| Array buffer allocator | `engine/Buffers/*` | `zero_fill_field_`, `total_mem_usage_` | `Allocate`, `AllocateUninitialized`, `Reallocate`, `Free` |
| Buffer natives | `engine/Buffer.*` | the bytes of a backing store | `utf8Write`, `ucs2Write`, `fromUtf8`, `fromUtf16`, `fill` |
| Buffer library | `App.js` 114-356 | the pool and `poolOffset` | `Buffer.from`, `Buffer.alloc`, `Buffer.allocUnsafe`, `toString` |
| Files library | `App.js` 357-437 | closures only | `Files.read`, `Files.write`, `Files.readFile`, `Files.watchFile` |
| EventEmitter | `App.js` 59-112 | a list of listeners per event | `on`, `once`, `off`, `emit` |
| V8 glue | `engine/ObjectCreator.*`, `engine/FunctionCreator.*`, `engine/StaticHelpers.*` | none | wrappers around V8 templates and strings |

### How they interact

One thread, here the *loop thread*, runs `main`. For each file of the command
line it executes the script and then `EventLoop::Run`. Scripts and callbacks
call the bindings; every asynchronous call creates a job object, counts it
(`registerJob`) and either puts it into the timer heap or detaches a worker
thread. A read or write worker pushes its job straight into `callbackQueue`; a
stat worker, which stays away from V8, posts a message to `mQu`, and the loop
thread turns it into a callback job in `message::build`. `Run` drains `mQu`,
runs the due timers, runs the callbacks and then moves the timers that have
become due from the heap to `timersQueue`, until `shouldStop`. A job is deleted
and counted down after its callback (`removeJob`); an interval goes back into
the heap instead. The counter's return to zero is what ends `Run`, and the last
`Run` is followed by the disposal of the isolate.

Shared between threads are `callbackQueue` (pushed to under a mutex, read and
popped without it), `mQu` (always under its mutex), `jobCount` and `shouldStop`
(no lock; only watcher threads touch them besides the loop thread), the job
objects themselves (handed over), the buffers that reads and writes work on,
and V8's isolate.

### What is hard, and what makes each component correct

- *Event loop*: posts of workers arrive between any two steps of the loop.
  Correct if no job is lost or held twice, if the count is exact and the loop
  ends exactly when no job is left, if posted work gets its turn, and if one
  thread at a time uses the isolate.
- *Timers*: all times are cut to full seconds and the loop time is stale while
  callbacks run. Correct if no timer is early and due timers run in order of
  their deadlines.
- *File bindings*: worker threads and the collector share buffers; sizes are
  taken before data. Correct if a callback sees the bytes of its own operation.
- *Watchers*: counter updates race with those of the loop; open, stat and read
  are separate. Correct if the counter survives and every lasting change is
  reported.
- *Buffers*: slices of one pool. Correct if live slices are disjoint and
  aligned, if the zero-fill toggle is on outside `createUnsafeBuffer`, and if
  the accounting adds up.
- *EventEmitter*: listeners change the list that `emit` iterates. Correct if a
  `once` listener runs once, if an emission calls everyone who stays in the list,
  and if removing a listener does not affect others.
- *Script loading*: ends for every file that is not truncated meanwhile.

The field `hazards` of `PROJECT.json` lists these at the line where they bite.

## The modules

| Module | Contents |
|---|---|
| `EventLoop` | the loop, its queues and counters, the timers, the worker threads of reads, writes and stats, the driver |
| `AsyncJobs` | the abstract promise of an asynchronous call: submit, begin, end, exit |
| `MCEventLoop` | instances for TLC and the refinement of `AsyncJobs` by `EventLoop` |
| `QueueLemmas` | facts about queues of distinct elements |
| `EventLoopProofs` | the inductive invariant of `EventLoop` and its theorems, among them order and punctuality of timers, and the step simulation of `AsyncJobs` |
| `JobCount` | `registerJob` and `withdrawJob` as single loads and stores of several threads |
| `WatchLoop` | watcher threads, workers and the loop thread around that counter |
| `MCWatchLoop` | instances for TLC |
| `WatchLoopProofs` | type correctness, the conservation of jobs, the late changes, and the counter while no two updates overlap |
| `IntSize` | the integer that `FileSystem.cpp` keeps sizes of files in |
| `FileWatch` | what a watcher's polls see of a file that other programs write or remove |
| `MCFileWatch` | the contents of the file for TLC |
| `FileWatchProofs` | how often a write is reported |
| `JobQueue` | the abstract queue that the other modules take `callbackQueue` for |
| `CallbackDeque` | `callbackQueue` access by access: the deque of libstdc++ under locked pushes and unlocked reads and pops |
| `MCCallbackDeque` | its symmetry for TLC |
| `CallbackDequeProofs` | the step simulation of `JobQueue` by `CallbackDeque`, and what an overlap takes |
| `BufferPool` | the Buffer functions of `App.js`, the natives that write into backing stores, the allocator |
| `MCBufferPool` | its symmetry for TLC |
| `FileBuffers` | extends `BufferPool` with reads and writes on worker threads |
| `MCFileBuffers` | its symmetry for TLC |
| `BufferProofs` | what buffers keep, in `BufferPool` and while the reads and writes of `FileBuffers` are under way |
| `ChangingFile` | a file that other programs change, for the two modules that follow |
| `ReadFile` | one call of `Files.readFile` |
| `ScriptFile` | the read loop of `Lemon::ReadFile` |
| `FileReadProofs` | what both get of a file that changes meanwhile |
| `EventEmitter` | the class of that name in `App.js` |
| `EventEmitterProofs` | whom an emission calls and what a removal takes |

### EventLoop

*State.* `clock` is the system clock in ticks, `Second` ticks to a second;
`currentTime`, `jobCount`, `shouldStop`, `heap`, `timersQueue`, `callbackQueue`
and `mQu` are the fields of `class EventLoop`. The heap is a set: which of
several equivalent timers is on top is left open, as in a priority queue. A
job object is an element of `Jobs`; the functions `kind`, `timeOut`,
`startTime` and `duration` hold its fields, and `kind[j] = "free"` means that it
is not allocated. `worker[j]` is the stage of the thread that serves `j`. `pc`
and `current` are the control point of the loop thread and the job it works on;
`scripts` counts the files that are still to be executed.

*Loop thread.* `StartScript`, `EndScript` and `Shutdown` are `App::Start` and
`main`; a script that cannot be read or that throws ends like any other.
`RunAgain` and `RunReturns` are the loop condition of `Run`. `FetchMessage`,
`BuildMessage` and `DrainDone` are the inner loop over `mQu`. `RunTimer` and
`RunCallback` begin a callback, `FinishTimer` and `FinishCallback` are its return
followed by the whole of `removeJob`. `UpdateTime`, `PromoteTimer` and
`PromoteDone` are `updateTimers`, one timer per step. Between the begin and the
end of a script or callback the actions of `CallRuntime` are enabled: the
calls it makes. Each is atomic, because nothing of it is visible to another
thread before the worker starts, which is its last statement.

*Worker threads.* `ReadArguments` is what `readAsync` does with V8 handles before
the input/output, `FileIO` and `Stat` the input/output, `StoreResult` the handles
made for the result, `PostResult` the push under the mutex. A stat that fails
takes the same steps (its branch is a "TO DO").

*Abstractions.* The clock does not go back; `system_clock` does when the time of day is
set, and then a timer may be early or out of order: `DeadlineOrder` and `TimerNotEarly`
are about a clock that is left alone. File contents, callback arguments and exceptions are left out: an
exception in a callback ends it, and `runJob` ignores it. The accesses to
`callbackQueue` are atomic steps, although `empty`, `front` and `pop` run without
the mutex; `CallbackDeque` shows when that is justified. Programs that call `watchFile`, which adds threads that
update `jobCount`, are the subject of `WatchLoop`.

*Properties.* `TypeOK`; `JobsConserved`, `JobCountExact`, `ExitOnlyWhenIdle`,
`DeadlineOrder`, `TimerNotEarly` (safety); `ImplementsAsyncJobs` (refinement);
`PostedCallbackRuns`, `MessageRuns`, `DueTimerRuns`, `Terminates` (liveness);
`OneThreadPerIsolate`, the rule of `v8.h`, which the code breaks.

Operators whose comment begins with "Mutant of" are faulty variants of a
definition. None is used by the specification; replacing the definition by its
variant makes TLC report the property that `PROJECT.json` pairs it with.

### AsyncJobs

A job is pending from its submission until its callback begins, a repeating job
is pending again when it ends, one callback runs at a time and the process exits
only when nothing is pending. `MCEventLoop` maps `InFlight \ {Running}` to
`pending`, intervals to `repeating`, the job between `runJob` and the end of
`removeJob` to `running`.

### JobCount and WatchLoop

`registerJob`, `withdrawJob` and the end of `removeJob` take no lock, and the
makefile passes no optimization flag, so that `jobCount++` is a load and a store
and what follows it is a further access. `JobCount` gives each thread a control
point in these functions (`step`) and a register (`loaded`); a caller enters with
`EnterRegister` or `EnterWithdraw` and then takes the steps of `CountStep`. The
history variable `overlaps` counts how often a thread began an update within
another thread's.

`WatchLoop` extends it with the threads. `WatchFile` and `LaunchWatcher` are
`File::watchFile` before and after `registerJob`; `CallAsync` and `LaunchWorker` are
the same for other calls, whose threads only post (`PostCall`). A watcher goes from
the loop condition (`Poll`, `SeeStopFlag`) to its body, where it either sleeps
(`NoChange`) or copies its job, registers the copy and posts it to `mQu`
(`FindChange`, `PostChange`). The job it holds in between is `draft`. At its end
it withdraws itself (`EndWatcher`). The flag is the integer array that `watchFile`
returns, which the script may set at any time it runs (`SetStopFlag`). The loop
thread is that of `EventLoop` without timers, except that `removeJob` ends in steps
of its own (`FinishCallback`, then the update of the counter, then `RemoveDone`).

*Properties.* `Counted` is what has been registered and not withdrawn: allocated
jobs and watchers, less those whose registration has not been stored yet, and one
for each withdrawal that has not been stored yet. `JobCountExact` and
`ExitOnlyWhenIdle` hold as long as no two updates have overlapped. Without that
hypothesis TLC finds a lost update after 16 steps (the loop thread registers a call
while a watcher registers a change) and a process that exits under a running call
after 21 (a watcher's `withdrawJob` tests the counter, the loop thread registers a
call and clears `shouldStop`, and then the watcher sets it). No comment or
document of the repository promises otherwise, so that this is not listed as a
finding; it is listed as a hazard. `JobsConserved` needs no hypothesis: whatever the
counter does, no job object has two holders. `AtMostOneLateChange`,
`StoppedWatcherEnds` and `Terminates` are about stopping a watcher.

### FileWatch

One watcher and the file at its path. `Overwrite` and `Replace` are other programs
that write the file in place, put another file at its path or remove it; `Open`,
`Stat`, `ReadByte`, `ReadDone`, `Report` and `NoReport` are the body of the watcher's
loop, and `TakeFirst` keeps the first snapshot, which is read in the same way. When
the file has become shorter between `Stat` and the end of the read, the rest of the
array is uninitialized: any bytes.

No result is tested. The size is stored in an `int` (`Size`, with `ToInt` of `IntSize`):
from 2 GiB on it is negative, `new` throws, nobody catches that, and the process ends
(`Throws`, `Abort`); from 4 GiB on it can be that of a first part of the file. Without a
file the size is a number that nobody has set. And the system may refuse each call
although the file is there, for want of permission, descriptors or memory
(`OpenRefused`, `StatRefused`, `MemoryRefused`, `ReadRefused`): a stream that has failed
to open delivers nothing, so that uninitialized arrays are compared. The history
variable `denied` records a refusal until the next write.

`AtMostTwoReports`: one write, which a poll may see halfway, is
reported at most twice, and nothing is reported unless the file was written or
missing since `watchFile` returned; a file at rest ends the process only if its size
does not fit. Reports made while there is no file or after a refusal are not counted,
for there may be one in every poll. `EventuallyCurrent`: if
the file exists in the end and is not written any more, and the system refuses nothing
any more, the last snapshot becomes the file up to the size in the integer, unless the
process has ended. What lies behind that size is never compared, and a write before the
first snapshot is never reported; nothing is stated about either.

### JobQueue and CallbackDeque

`callbackQueue` is a `std::queue` on a `std::deque`. Pushes are made under
`callbackMutex` by any thread, `empty`, `front` and `pop` by the loop thread without
it. `CallbackDeque` models the deque as libstdc++ has it: blocks of `NodeSize`
elements, a map of pointers to them, and the iterators `start` and `finish`, each
with the slot of its block (`slot`), the block (`first`) and the element (`cur`).
A slot whose block was freed keeps a dangling pointer, which is not told apart from
an empty slot: nothing reads either.
Every action is one access that the other side can see; the makefile does not
optimize, so that they happen in the order of the code. The push goes through
`ChoosePath`, `CopyMap` (the map is full at its end: the blocks move to the middle of
it or of a larger map), `LinkBlock`, `Construct` and either `PushAdvances` or
`PushTurns` and `PushEntersBlock`; the loop thread through `LookIntoQueue` (`empty`),
`TakeFront`, the callback, and `PopAdvances` or `FreeBlock`, `PopTurns` and
`PopEntersBlock`. What libstdc++ does is not code of the repository, and is mapped
as external. Reads and writes of one pointer are taken as atomic and seen in order,
as they are on the machines that the vendored V8 is built for.

`ImplementsJobQueue` is the refinement of `JobQueue`, a sequence with an atomic
append (the last access of the push), look at the front (`empty` or `front`) and
drop (the last access of the pop). It holds as long as there is no `Overlap`: a
push relocates the map while the loop thread goes from one block to the next; both
then write `start`, and what follows is undefined. `OverlapNeedsBacklog` says that
this takes more jobs than a block holds, 64 in libstdc++, at the same time. So the
atomic steps of `EventLoop` and `WatchLoop` stand for programs that never have more
than 64 file callbacks waiting. `PushedJobRuns` is the liveness of one job.

### BufferPool

*State.* `bytes` holds the contents of every backing store, a byte being abstracted
to where it comes from: `"zero"` and `"junk"` from the allocator, `"null"` from a
terminator, or the name of the data that a buffer was made from. `buffers` are the
typed arrays that the script can reach, with the kind of their making; `allocPool`,
`poolOffset`, `zero_fill_toggle` and `total_mem_usage` are the variables of that name.

*Actions.* One for each path of `Buffer.from` with a string (`LongString`,
`PooledString`, `StringInNewPool`) or an array or buffer (`PooledArray`,
`ArrayInNewPool`), of `alloc` (`AllocZeroed`, `AllocFilled`, `AllocRaw`, `AllocBadFill`)
and `allocUnsafe` (`AllocRaw`); `UnsafeFails` is an exception out of an allocation
within `createUnsafeBuffer`. `Drop` and `Collect` are the collector, which frees
stores without typed arrays. `wide` strings go through `ucs2Write`, which passes the
number of bytes as that of characters, so that V8 adds a terminator behind them.

*Properties.* `StringsKeepBytes`: the bytes of a string stay its own. Only strings
move `poolOffset`, so that a slice made from an array is overwritten by the next
one; the property therefore speaks of strings and fill values. `ZeroedIsZero`: the
toggle, which is one for all allocations, is on when `alloc` relies on it.
`UsageExact`: the count of memory is that of the stores, modulo the word.

### FileBuffers

`ReadFileAsync` and `WriteFileAsync` take the address of the *store* of their buffer;
`ReadIO` and `WriteIO` are the workers, `Callback` the end of a call on the loop
thread, between which all of `BufferPool` may happen. `Callback` and `DropBuffer`
express what keeps a buffer alive: the callback of a read refers to it, nothing
refers to that of a write. A read goes to the start of the store plus
`options.offset`, and asks for the length of the buffer whatever the offset, or for the
length that the script gives; nothing checks them. `Places` are the places that its
bytes go to; behind the end of the store these are in whatever lies there, another store
or nothing of the model. Several reads may use one buffer; the buffer of a write is made
by `Files.write`, and scripts do not have it. `ReadInto` says that a buffer that was
read into is not expected to keep what it was made with.

The history variables say when the code's own limits are passed: `stray` has the
places, with the name of their data, at which a read into another buffer was directed
(`GoesAstray`), until the name is used anew (`Forget`); `held` says whether
the memory was the buffer's or the pool's at every moment since the call.
`ReadsSpareStrings`: strings, fill values and zeros lose no other bytes.
`WritesIntact`: a write hands on the bytes of its string but for those, if the string
begins its store and its memory was held. `ReadArrives`: what was read and asked for
within the buffer is in the buffer, if it begins its store. Each is violated when its
limit is taken away: a string behind another
one in the pool is written with the other one's bytes; a write of 4096 bytes or more
whose buffer is collected writes freed memory; a read with an offset, or into a pooled
slice that does not begin the pool, lands in other slices.

### ChangingFile, ReadFile and ScriptFile

`ChangingFile` has a file that others rewrite, cut off, append to, create or remove
at any time. A byte is the number of the change that wrote it, so that bytes of
different contents can be told apart; `seen` records what has been at each place.

`ReadFile` is the chain of `Files.readFile`: `Stat` on a worker, `Allocate` (or
`StatFails`, when there is no size or a negative one) in the callback, `Open`,
`ReadByte` and `ReadDone` on another worker, `Callback`. The size passes a 32-bit
integer (`ToInt`, with `IntRange` for 2^32). The system may refuse `stat`, the memory,
the opening and the reading of a file that is there; `refused` records which. The code
tests for the first two only: a file that `stat` finds and that cannot be opened reaches
the callback as zeros, with null for the error. `UnchangedIsExact`: without changes the
callback gets the file, or what could be read of it followed by zeros.
`OnlyFileBytes`: with changes it gets, at each place, a byte
that was there at some time since the call, or a zero, because there was no byte at some
time or the system refused; the buffer is not of the
size of what was read, and `readFile` does not hand on the number of bytes.
`CalledUnlessUnsized`: the callback is called, also when the file cannot be opened,
unless the file was missing or too large at some time since the call, or the system
refused `stat` or the memory of the buffer.

`ScriptFile` is `Lemon::ReadFile`; `FreadByte` and `FreadReturns` are `fread`, which may
return early at the end of the file or with an error, and the flags stay with the
stream. `ScriptIsFile`: the text handed to V8 consists of bytes of the file, and is the
file if nobody changed it; the cast of its size to `int` (`Lemon.cpp` 46), which a file
of 2 GiB would not survive, comes after it and is not modelled. `ReturnsUnlessCutOff`: the loop ends, unless the file is at
some time shorter than at `ftell`: then it may never end.

### EventEmitter

One event name. A registration has a `token` of its own and the `text` of its
function, because `removeListener` compares functions by their source; all
`onceWrapper`s share one text. `frames` is the stack of emissions, each with the
index and length of its `forEach` and, as history, the list at its start, whom it
has called and how many registrations were removed since. Code of listeners runs
while the innermost emission is in a callback (`UserCodeRuns`): it may register,
remove, emit, return or throw, and an exception ends its emission. `RemoveText` is
the `forEach` of `removeListener`, which splices the list it walks over.

`InOrderOnce`, `AtMostRemovedSkipped` and `LateOnlyForRemoved` say whom an emission
calls: in order and once each; everyone who was there and stays, but for as many as
were removed meanwhile; no one who came later, with the same exception.
`OnceRunsOnce` holds while no wrapper throws, none is emitted to in its own call
and no two are in the list (`calm`): an exception leaves the wrapper in the list,
and of two wrappers the first to return takes off the first of the list.
`RemovesAlternate` says what the splicing does: of adjacent registrations with the
text every second one stays.

## The runs

| Run | Instance | Shows |
|---|---|---|
| `loop_safe` | 3 interchangeable jobs of all kinds, 2 scripts, durations -1, 0, 2 and 3, 2 ticks per second, clock up to 6 | `TypeOK`, `JobsConserved`, `JobCountExact`, `ExitOnlyWhenIdle`, `DeadlineOrder`, `TimerNotEarly`, `ImplementsAsyncJobs` |
| `loop_live` | 2 jobs of all kinds, 2 scripts, durations 0 and 3, clock up to 4, no symmetry | `PostedCallbackRuns`, `MessageRuns`, `DueTimerRuns`, `Terminates` |
| `loop_isolate` | 2 file jobs | the violation of `OneThreadPerIsolate` |
| `watch_safe` | 2 interchangeable watchers, 2 jobs, 1 script, up to 1 overlap | `TypeOK`, `JobCountExact`, `ExitOnlyWhenIdle`, `JobsConserved`, `AtMostOneLateChange` |
| `watch_live` | 1 watcher, 2 jobs, 1 script, up to 1 overlap, no symmetry | `StoppedWatcherEnds`, `Terminates` |
| `file_watch` | all contents of up to 3 bytes with 2 values, 4 and 10 equal bytes, an integer of 3 bits | `AtMostTwoReports`, `EventuallyCurrent` |
| `callback_deque` | 3 jobs, 4 blocks of 2 elements, a first map of 5 slots, no symmetry | `OverlapNeedsBacklog`, `ImplementsJobQueue`, `PushedJobRuns` |
| `buffer_pool` | 3 data, 3 stores, lengths 2 to 4, a pool of 8 bytes aligned to 2, a count of 4 bits | `TypeOK`, `StringsKeepBytes`, `ZeroedIsZero`, `UsageExact` |
| `file_buffers` | 2 data, 2 stores, 2 calls, buffers of 1 and 2 bytes, a pool of 4 bytes aligned to 2, `options.offset` 0 and 1, `options.length` missing or 4, files of 1 and 4 bytes | `ReadsSpareStrings`, `ReadArrives`, `WritesIntact` |
| `read_file` | files of up to 9 bytes, 2 changes, an integer of 3 bits, refusals | `UnchangedIsExact`, `OnlyFileBytes`, `CalledUnlessUnsized` |
| `script_file` | files of up to 4 bytes, 2 changes | `ScriptIsFile`, `ReturnsUnlessCutOff` |
| `event_emitter` | 4 registrations, 2 texts, 2 calls of each, emissions nested to depth 2 | `InOrderOnce`, `AtMostRemovedSkipped`, `LateOnlyForRemoved`, `OnceRunsOnce`, `RemovesAlternate` |

Type invariants are checked where the variables' types take an argument, in the loop,
the watchers and the pool; in the other modules a value of a wrong type would stop
TLC at its first use or break one of the properties.

*Bounds.* `Jobs` bounds the jobs that exist at the same time; job objects are
reused, so that no run bounds their number over time. Three jobs allow any two
of a call on a worker, a message in `mQu` and a job in `callbackQueue` together with a
running callback, and one timer that runs while one is due and one waits.
`MaxClock` bounds the clock, and only timers that
are due by then are created, so that no timer waits for a time that never comes.
With two ticks to a second, a clock of 6 gives four different loop times, more
than the longest duration spans; deadlines fall between seconds as well. Two
watchers are the fewest that race with each other as well as with the loop thread,
and two jobs allow a change and a call, or two changes, at the same time.
`MaxOverlaps` bounds how often the counter may be disturbed before nothing new is
registered; what has been registered goes on to its end. Three bytes are enough
for contents of equal and of different size that share a prefix, and for a write in
the middle of a read; the number of writes has no bound. In an integer of 3 bits a size
of 4 becomes -4 and one of 10 becomes 2. Two scripts are the
smallest number with a second `Run` after a first.

In `callback_deque` three jobs of two to a block make three blocks exist at once; the
number of pushes has no bound, so that the blocks travel to the end of the map, which
is then recentred, or grown under the largest backlog, and the overlap is reached.
In `buffer_pool` the three lengths are less than, equal to and more than what fits
between two others; 4 is half of the pool, where a store of its own is used, and 3
is not aligned. Three stores are the pool, an older pool with slices left in it and
a store of its own; the count of 4 bits wraps. `file_buffers` needs a store for the
pool and one more, and two calls to have a read next to a write or two reads on one
buffer; of a read of 4 bytes at offset 1 some go into the next slice of the pool, and one out of
the store; with the default length a read at offset 1 leaves its buffer by one byte. Two
data allow a string next to the buffer of a read, and strings, fill values and zeros are
all struck. With 3 bits an
integer runs from -4 to 3, so that the sizes up to 9 of `read_file` include
negative ones, 0 and 1 for much larger files. Two changes are the smallest number
with a change on either side of a step. Four registrations suffice for an odd and an
even block of equal texts with another on either side, `MaxCalls` for a second call of
a `once` listener, and depth 2 for an emission in a listener.

Deadlock is checked in every run but `event_emitter`, where the bound on calls can
leave an emission in the middle; the end of the process or of a call is a step that
repeats itself.

*Fairness.* `FairSpec` assumes that time passes, that the operating system
schedules every detached thread and completes its file operation, and that
the loop thread keeps running, which includes that scripts and callbacks return. No
fairness is assumed for the calls that scripts make. `runCallbacks` is left only
when its queue is empty, and callbacks that keep submitting file operations can
hold the loop there for ever. `DueTimerRuns` and `MessageRuns` therefore carry the
hypothesis `LoopTurns`; `PostedCallbackRuns` needs none, because the
queue is first in, first out. `Terminates` assumes that calls stop (`StopsCalling`)
and that no interval is left (`NoIntervalLeft`), since an interval cannot be
cancelled.
`WatchLoop` and `FileWatch` assume the same of watcher threads and nothing of those
who set flags or write files; their hypotheses (`CallsStop`, `WatchesStop`, a file at
rest, a system that refuses nothing any more) are part of the properties. `CallbackDeque` assumes that the thread that
pushes is scheduled and that the loop thread comes back to `runCallbacks`;
`ReadFile` and `ScriptFile` that the next step of the call, or of the script's
loading, is taken some time. Nothing makes other programs change a file.

*The finding.* `loop_isolate` expects a violation. `v8.h` says that one thread at a
time may use an isolate and that accessing handles is a use; `readAsync` and
`writeAsync` access and make handles on their worker thread, without a `Locker`,
while the loop thread executes JavaScript. TLC's counterexample is the first read
of a script. (`v8::Locker locker();` in `message::build` declares a function; it
runs on the loop thread, which needs no lock against itself.)

## The proofs

`EventLoopProofs` proves, for every value of the constants that satisfies
`ConstantsAssumption` (a finite set of jobs, any number of scripts, any clock
resolution, any integer durations):

- `TypeCorrect`: `Spec => []TypeOK`
- `Conservation`: `Spec => []JobsConserved`
- `CountIsExact`: `Spec => []JobCountExact`
- `ExitIsSafe`: `Spec => []ExitOnlyWhenIdle`

`JobCountExact` and `ExitOnlyWhenIdle` are not inductive. `removeJob` pops the front
of a queue and counts down; that is right only if the job that ran is still at
the front (`RunningIsFront`: workers only push) and is nowhere else
(`JobsConserved`). The inductive invariant `IInv` is the conjunction of `TypeOK`,
`RunningIsFront`, `JobsConserved`, `JobCountExact` and `IdleOutside` (nothing is on
its way between two scripts or after the end). The proof follows where jobs are:
`CallPlaces`, `WorkerPlaces`, `MessagePlaces`, `PromotePlaces`, `RearmPlaces`,
`RemovePlaces` and `QuietPlaces` say for each action how the six places change and
that they remain disjoint; `CountEnter` and `CountLeave` carry the counter along;
`IInvNext` puts them together. `QueueLemmas` has the facts on `Append`, `Head` and
`Tail` of queues of distinct elements.

It proves as well, for every `Second`, every bound of the clock and all durations,

- `TimersOrdered`: `Spec => []DeadlineOrder`
- `NeverEarly`: `Spec => []TimerNotEarly`

from the invariant `TInv`. `TimesInOrder` says that the loop time is not ahead of the
clock nor behind the creation of any timer, that a deadline is at least the duration
away from the creation, and that what waits in `timersQueue` is due; thus a timer
that is made or put back while callbacks run, when the loop time is stale, cannot
precede one that waits. `PromotedInOrder` is the order among the timers that one
`updateTimers` moves: none is preceded by what remains in the heap. The arithmetic of
cutting to full seconds is in `FullSeconds`.

It proves `Refinement`: `Spec => ImplementsAsyncJobs`, under the mapping of
`MCEventLoop`. `StepSimulation` has one case per action: `CallSubmits`,
`RunBegins`, `RemoveEnds` and `ShutdownExits` show those that are steps of
`AsyncJobs`, `Stutters` the others. Besides `IInv` it needs `RepeatersAreTimers`:
an interval is in the heap or in `timersQueue` only, so that the steps that delete a
job never get one, and ending its callback leaves it submitted.

`CallbackDequeProofs` proves, for every size of a block and of the first map, any jobs
and any blocks,

- `DequeIsQueue`: `Spec => ImplementsJobQueue`
- `OverlapIsBacklog`: `Spec => []OverlapNeedsBacklog`

Both rest on `DequeInvariant`: `Spec => []DequeInv`. The invariant says where the two
iterators are at every access of a push and of a pop. `Mapped`: the slots from `Base` on
point to the allocated blocks in order. `StartOK` and `FinishOK`: `start` is in the first
block and `finish` in the last, except that a push may have linked a block that `finish`
has not entered (`Ahead`), and that the slot and the element of an iterator move one
after the other, so that `EndBlock` (by element) and `FinishBlock` (by slot) can differ.
`InOrder`: `start` does not pass `finish`. `JobsOK`: the jobs in the queue are
distinct, exist, and are neither the one being pushed nor the one being dropped.
Elements are counted through the blocks (`Position`, `Before`, `NextBlock`), so that what
each access does to the queue is `SameElements`, `DropElement`, `DropBlock` or
`AppendElement`. There is one lemma per action; the interesting ones are
`EmptyIsRight` (comparing two pointers without the mutex says whether the queue is
empty, at any moment of a push), `CopyStep` (a relocation preserves all this if no pop is
between two blocks) and `RoomInMap` (the relocated map has a slot for the new block).
`StepSimulation` puts them together. `Backlog` counts the jobs at an overlap: `finish` is
at the end of its block and `start` is leaving one, so that the queue, the job being
pushed and the one being dropped are more than a block holds.

`WatchLoopProofs` proves, for any finite sets of jobs and watchers, any number of
scripts and any `MaxOverlaps`:

- `TypeCorrect`: `Spec => []TypeOK`
- `Conservation`: `Spec => []JobsConserved`
- `CountIsExact`: `Spec => []JobCountExact`
- `ExitIsIdle`: `Spec => []ExitOnlyWhenIdle`
- `LateChanges`: `Spec => []AtMostOneLateChange`

`Control` ties the control points of a thread together: it is inside
`registerJob` or `withdrawJob` only where its code calls them, a watcher has a draft
exactly while it registers one, and the job whose callback runs is at the front of
`callbackQueue`. Conservation again follows jobs from holder to holder
(`ApartMoves`). The counter needs more, as each access is a step of its own.
`CountInv` says, while there was no overlap: at most one thread is in an update
(`OneUpdate`), the value it has loaded is the present one (`Fresh`), `jobCount` is
the size of `Counted`, `shouldStop` follows it when no thread is about to write
`shouldStop` (`Settled`), one that is about to acts on the present count
(`Pending`), and nothing is registered outside `Run` (`Idle`). The lemmas
`CountedCall`, `CountedWatcher`, `CountedLoop`, `CountedIncrement`,
`CountedDecrement` and `CountedOther` follow `Counted`; `CountUpdate` is the case of
each load and store and `ReturnsIdle` the moment when `Run` reads `shouldStop`. `LateIsLast` says that
a watcher that has posted a change since its flag was set is past the loop body for
good.

`FileWatchProofs` proves, for any contents and any width of the integer,

- `FewReports`: `Spec => []AtMostTwoReports`

The inductive invariant `WInv` says what a report implies about the poll that
follows, as long as the system has refused nothing: it began after the last write and
sees the file as it is (`Clean`, which
follows its bytes through open, stat and read, up to the size in the integer), and after
the second report the snapshot is what the file contains up to there (`Current`), so that
a clean poll finds no change.

`BufferProofs` proves, for any sets of data, lengths and calls, any finite set of
stores, any pool size that is a multiple of the alignment, any alignment, any width of
the counter and any sizes of files:

- `PoolTypes`: `Spec => []TypeOK`
- `StringsKeep`: `Spec => []StringsKeepBytes`
- `ZeroedStays`: `Spec => []ZeroedIsZero`
- `UsageIsExact`: `Spec => []UsageExact`
- `ReadsSpare`: `FileSpec => []ReadsSpareStrings`
- `ReadsArrive`: `FileSpec => []ReadArrives`
- `WritesAreIntact`: `FileSpec => WritesIntact`

Those about bytes are not inductive: a new slice or terminator could land on an older
string, and a read on whatever the pool has put behind its store. One inductive invariant
serves both modules, `Sound(L, H, D)`, for the set `L` of buffers that live, in the
script or in a call, the set `H` of places at which a read into another buffer was
directed, and the set `D` of bytes. It says that every buffer lies in its store (`Placed`), that no
two have the same data (`OneOwner`), that the pool has slices only, those of strings
ending at `poolOffset` or before it (`Apart`), that buffers not made from arrays do not
overlap (`Disjoint`) and that they have the bytes they were made with (`Kept`), but for
the places in `H`. `PoolInv` is its instance for `BufferPool`,
`FileInv` the one for `FileBuffers`, with `Calls`: a write transfers the bytes of its
buffer, only reads share one (`Shares`), the buffer of a
read is kept by its callback, and a
call that holds its memory keeps its buffer or the pool's present store; and with
`Arrived`: the bytes of a finished read are where they were read to, as far as that is
in its buffer. As other buffers do not overlap with it, what reaches it later are bytes of
a file again, so that a second read on the same buffer, or one that goes astray, does not
undo this (`ArrivedStays`). `PlacesOK` and `AstrayOK` are the argument for bytes that leave
their buffer: those that come are among those that were asked for, and these are recorded.
`BufferMade` is the argument for all actions that make a buffer: it needs of the new
bytes that they are the buffer's own (`Makes`), that they spare the strings of the same
store (`Spares`), and of the pool that `poolOffset` has not gone back (`Pools`).
`OwnStoreMade`, `NewPoolMade` and `SliceMade` are its three cases, and `ReadIOStep` and
`WriteIOStep` the accesses of the worker threads. `Counters` and `AlignWithin` add, for
`PoolTypes`, that `alignPool` stays within the pool and the count within its word.
`UsageExact` is inductive, given `PoolInv`, but its sum over the stores is a recursive
function on sets of stores: that this function exists (`SumsExist`) and how it changes
with one store (`SumChanges`) are shown by induction on the size of the set, for which
`InductionOverNat` states induction with a set in place of a predicate. That the stores
are finitely many, as addresses are, is assumed for this sum alone. `AddModulo` is the
arithmetic of the counter's word.

`FileReadProofs` proves, for any size of files, any width of the integer and any number
of changes,

- `BytesOfTheFile`: `Spec => []OnlyFileBytes`
- `UnchangedRead`: `Spec => []UnchangedIsExact`
- `ScriptComesFromFile`: `ScriptSpec => []ScriptIsFile`

Here the invariant has to survive the changes of others at every moment. `AllSeen`
relates the file to its history, `ReadInv` each byte read so far to that history and
each byte not read to the zeros of `alloc`, which are explained by a gap in the history
or by a refusal, and `ExactInv`, as long as nobody has
changed the file, to the file itself as far as it was read, through the conversion of the
size to an integer and back. `ScriptInv` is the same for the loop of `Lemon::ReadFile`: what lies
before `i` comes from the file, and the text is returned only when `i` has reached
`size`, whatever `fread` returned on the way.

`EventEmitterProofs` proves, for any texts, any number of registrations, any number of
calls and any depth of emissions,

- `CallsInOrderOnce`: `Spec => []InOrderOnce`
- `LateOnesCounted`: `Spec => []LateOnlyForRemoved`
- `MissesCounted`: `Spec => []AtMostRemovedSkipped`
- `OnceIsOnce`: `Spec => []OnceRunsOnce`
- `RemovalAlternates`: `Spec => []RemovesAlternate`

The last is about a loop, and needs an induction over its visits. `Visited` is the
loop's invariant: of the list before the index those places are left that `Kept` names,
and what is behind has moved up by as many as have gone; `VisitKeeps` and `VisitRemoves`
are its two steps, and `AllVisited` takes the first visit for which it would fail
(`LeastNatural`) to a contradiction. `Removal` sums up what a caller needs: the list that
is left embeds in the old one. The other theorems follow from `EmitterInv`. `Ordered`
says that the list is in the order of registration, so that whoever is behind the index
of an emission is later than all it has called (`CallsPassed`). `FewSkipped` counts the
places that an emission has passed and whose present registration it has not called:
each removal adds at most one. `FewLate` is an argument by potential: the first `s` of
the list are those that were there at the start, and the late ones already called,
with those that the remaining visits can still reach, are never more than were removed.
`WrapperInCall` says that while `calm` a wrapper that was called is still in that call,
which ends by removing it: it is the only one, so that the removal by the common text
takes it (`OnlyOneRemoved`). A step disturbs the emissions by a removal
(`FrameRemoved`), a registration (`FrameAppended`), a call (`FrameCalls`) or an
end (`FrontStep`).

Every safety invariant and both refinements that the passing runs check are proved.
Only model-checked is liveness, with the temporal properties of `ReadFile` and
`ScriptFile`, which is out of the prover's reach.

## Not modelled, and the plan

V8 itself, whose headers (`engine/lib/v8`, more than 16000 of the repository's
18000 lines of code) are vendored and declare no behaviour of this program: the map
is limited to the about 2000 lines of its own. Of these:

- creating the V8 platform, the templates and the binding objects (`App`,
  `Environment`, `ObjectCreator`, `FunctionCreator`, `StaticHelpers`), which happens
  once and in a fixed order, and has no behaviour over time;
- printing (`log`, `logObject`, `logBuffer`, `ReportException`);
- the synchronous file calls, which keep no state of the program; that
  `readFileSync` returns nothing when the file cannot be opened is undefined behaviour
  from which nothing follows;
- `AllocateUninitialized` of the allocator as an action of its own: V8 calls it for the
  memory of a small typed array whose buffer is taken, and it counts as `Allocate` does;
  and `Reallocate`, for buffers that grow, of which this program has none;
- memory outside of all stores, which a read behind the end of its store, or with a
  negative `options.offset`, and the terminator of a wide string at the end of its store
  write to: what then becomes of the heap is undefined;
- the cast of a script's size to `int` where its text is handed to V8, and steps of the
  system clock;
- `fromUtf8`, `fromUtf16`, `byteLengthUtf8` and `toString`, which read;
- the memory that is never freed: the array of every poll without a change, the jobs
  of stopped watchers, the buffers within `fill`.

The theorems of the plan are proved. What is left is to state the liveness properties
as theorems, should the prover come to support `ENABLED`.
