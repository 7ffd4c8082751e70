# Java microbenchmarking agent: TLA+ models, model checking and proofs

The repository is a JVMTI agent in C with a small Java library on top.  Java
code creates *event sets* (clocks, JIT counts, PAPI counters), takes snapshots
of them with start, stop and sample, and reads results as rows of numbers.  The
agent also keeps a map from Java threads to native thread ids, so that an event
set can be attached to another thread.  This directory holds TLA+ models of that
code, TLC configurations that check them on small instances, and TLAPS proofs of
their main properties for all instances.  Paths below are relative to the
repository.

## Inventory

| Component | State | Operations | Modelled in |
|---|---|---|---|
| Event sets, `src/c/measurement.c` | `all_eventsets`, `all_eventset_count`; per set the snapshot buffer `data`/`data_index`/`data_size`, `used_events`, `used_papi_events`, the PAPI event set | create (plain, attached to a Java or a native thread), destroy, start, stop, sample, reset, getResults, getRawResults, isEventSupported, getSupportedEvents | `EventSets`; several threads: `ConcurrentSets`; the last two: `Events` |
| Snapshots, `src/c/measure.c` | one cell of a buffer | `ubench_measure_start`, `_sample`, `_stop` | `EventSets`, field by field in `Events` |
| Event getters, `src/c/events.c` | none | a getter and a raw getter per event | `Events`; the PAPI error codes in `EventSets` |
| Event resolution, `src/c/events.c` | constant tables | resolve, iterate | `Events` |
| Thread registry, `src/c/threads.c`, `mylock.h` | `thread_map`, `thread_map_lock` | thread start and end callbacks, registerJavaThread, registerCurrentJavaThread, getNativeId | `ThreadMap`, `ThreadRegistry` |
| JVM counters, `src/c/counter.c`, `myatomic.h` | three atomic integers | two callbacks, getCompilationCountAndReset | `JvmCounters` |
| Startup, `src/c/ubench.c`, `jvmutil.c`, part of `threads.c`, `UbenchAgent.java` | startup guard, JVMTI contexts, `thread_get_id_method` | Agent_OnLoad, JNI_OnLoad, VM init callback, unloading | `AgentStartup` |
| Process barrier, `src/c/barrier.c`, `src/c-barrier/main.c`, `Barrier.java` | the shared segment, its mapping | create, init, barrier | `ProcessBarrier` |
| `Benchmark.java` | `defaultEventSet` | init, start, stop, reset, getResults | not modelled: passes one id on |
| `BenchmarkResultsImpl`, `BenchmarkResultsMerger` | rows | add, merge | not modelled: Java collections |
| Printer, `JvmUtils`, `estimations.c`, logging, string and compiler headers, demos, tests | none of the agent's own | text, `/proc`, empty calls | not modelled |

How the parts meet: Java methods are JNI calls that run to completion on the
calling thread.  `createAttachedEventSet...` asks the thread registry for a
native id and then PAPI.  Snapshots read the JVM counters, which JVMTI callbacks
increment on other threads.  Startup decides which callbacks exist at all.  The
process barrier shares a page with other JVMs and with the tool that made it.

What is hard:

* the snapshot buffer: `stop` relies on the parity of `data_index`, `start` and
  `sample` step back two cells in a full buffer, a cell is reused without being
  cleared, and getResults re-discovers the pairs afterwards;
* createEventSet fails in many places, each with its own clean-up, in a table
  whose slots are reused;
* the thread map: callbacks and Java calls of all threads interleave, the native
  ids that removal goes by are reused by the operating system, and the lock is a
  bare spinlock;
* startup may happen twice, as an agent and by `loadLibrary`, and partly late, at
  VM init;
* several Java threads use the table of event sets, which has no lock and moves
  when it grows, and attach event sets to threads that may end meanwhile;
* the process barrier: the segment is visible before the barrier in it exists,
  is taken over by a second run of the tool, is never removed, and the processes
  that wait on it may die;
* what an event measures is spread over a table, the snapshots and the getters,
  and the list of events is made from a PAPI that may fail for any of them.

What makes the components correct:

* event sets: no snapshot outside the buffer; a row of getResults is one
  measurement, all kept measurements are returned, in the order they were taken; a value is an error code exactly when a PAPI call of
  that row failed; a PAPI event is reported from its own column and all events of
  a set share a component; a valid id always has its memory; creating an event
  set changes no other; every call returns;
* thread registry: each operation is atomic; a Java thread is registered once; a
  lookup gives a living thread's own id; the lock is always released;
* startup and counters: however the library is loaded and whatever fails, each
  context gets all of its events or none, the thread callbacks find their method
  id, a load that returned left a usable agent, thread registration is enabled or
  reported missing, and every compilation is counted exactly once;
* concurrent use: no pointer into a table that has moved, no event set with two
  owners, no lost snapshot, counters attached to the native id of the thread that
  was asked for.  The code has no lock, so these hold only of callers that keep
  apart;
* process barrier: nobody passes before all have arrived, and then all do;
* events: the list is complete and, native events that PAPI cannot describe aside,
  everything on it can be used; each value is the amount that passed between the
  two readings.

`PROJECT.json` lists every hazard at its line, with the properties that watch it.

## Modules

**`EventSets`** models `measurement.c` and `measure.c` as built with PAPI, with one
Java thread calling.  `all_eventsets` is the table; a slot is a record with the C
fields, the state `mem` of its two heap blocks, what PAPI knows (`running`), and
three history fields (`count`, `open`, `taken`) that no action reads except to
describe the client and bound the model.  A native method with a loop takes one
step per iteration: `call` says which method runs and what is left to do.
createEventSet is `CreateRejected`, `CreateOutOfMemory`, `CreateAllocates`, then
`AddEvent` per event name and `FinishCreate`; a create-attached call continues in
`Attach`.  start, stop, sample and reset are a `BeginLoop` followed by `StartOne`,
`StopOne`, `SampleOne`, `ResetOne` per id, or `InvalidId`, which throws and drops
the rest.  getResults is `GetResults`, an `AddDataRow` per row and
`ReturnResults`.  Reads of clocks and counters return `now`, which the environment
moves (`Tick`).  PAPI calls are their return codes, chosen freely except that
PAPI_start refuses a running event set and PAPI_stop a stopped one.  `fault`
records an access outside the agent's memory; the behaviour is undefined
afterwards and the model stops.

The constant `Client` says how Java pairs its calls: `"alternating"` is what the
README of the repository and `Benchmark` show, `"sampling"` adds sample between
start and stop as `Measurement.sample` proposes, `"any"` is unrestricted.

**`ThreadRegistry`** is the abstract thread registry: a set of entries, and for
each thread the operation it has called and its result.  An operation happens at
one instant between the call and the return.

**`ThreadMap`** is `threads.c` with `mylock.h`.  Every thread has its own program
counter; a call is taking the lock, searching the array, acting on the index
found, unlocking, returning.  Threads are born and die through the JVMTI
callbacks, run their Java code in between, and get native ids from a set in which
the ids of dead threads are free again.  Threads in `Early` started before the
callbacks were enabled.  `Others` are native ids passed to registerJavaThread.

**`AgentStartup`** is `ubench_startup`, the JVMTI contexts of `jvmutil.c` and the
part of `threads.c` that enables thread registration.  The JVM loads the library
as an agent (no JNI yet, so registration waits for VM init), by `loadLibrary`, or
both, one load at a time; `UbenchAgent.load` usually prevents the second, the
model does not rely on it.  Every JVMTI call is a step that may fail, because
events may arrive as soon as the callbacks are registered.  `envs` are the
environments JVMTI has handed out, `context` the pointers the agent keeps.  The
measurement module either initialises or ends the process, so `ubench_startup`
never returns false.

**`JvmCounters`** extends it with the counters of `counter.c`.  A compiler thread
runs the callback once per environment that listens, one step per atomic
increment, while others do the same and Java code resets.  The counters are not
given a width: 2^31 compilations are beyond any run of a JVM.

**`ConcurrentSets`** extends `ThreadRegistry`: Java threads start, end, create,
attach, destroy and measure at the same time.  createEventSet is `Create`, `Scan`,
`Grow`, `Publish`, `Fill`, `Finish` (`CreateFails` and `CreateFailsFreeing` are its
error paths), and for an attached event set `LookUp`, `LookedUp`, `PapiAttaches` or
`PapiRefuses`; a start or stop is `Measure`, `Write`, `Advance`.  The registry is the
atomic one, which `ThreadMap` is shown to implement.  A slot keeps what threads can
spoil for each other; `EventSets` has the rest.

`measurement.c` has no lock (`FIXME: locking`, line 160), and no action waits for
another thread: two threads may take the same slot, fill it twice, free its buffer
twice, grow the table at once, or write through a pointer kept from before it moved.
`block` tells the heap blocks of the table apart; between `Grow` and `Publish` realloc
has freed the old one and `all_eventsets` still points to it.  realloc is taken to
move the table each time; when it does not, fewer accesses are stray.  `snap` says what
has become of the buffer a thread is writing to: still the slot's, leaked or freed.
An access to memory the program does not have (`Astray`, `FreesTwice`, `StrayCall`,
`StrayDestroy`) sets `stray`, and as anything may happen next the model stops.

What callers could see to themselves is stated apart from the actions: one event set
is created or destroyed at a time, and while the table is full nobody measures during
a creation (`MayCreate`, `MayDestroy`, `MayMeasure`).  `raced` is history: it is 0 as
long as every call was made in this way, and counts the calls from the first careless
one on.  The properties say what holds while it is 0.

The largest `jint` is `IntMax`; the doubled count wraps around, and as signed overflow
is undefined the test for a positive count may be made on either number.

**`ProcessBarrier`** is `barrier.c`, `Barrier.java` and the `ubench-barrier` tool.  A
run of the tool is three steps (`ToolOpens`, `ToolTruncates`, `ToolInits`), each of
which may be its last.  A segment is absent, empty, zeroed or ready.  A JVM maps
it in `init`, `InitOpens` and `InitMaps`, with the class monitor held; a failure is
only printed and leaves the pointer as the code does: unchanged when the segment
is missing, MAP_FAILED when it cannot be mapped.  Waiting through a pointer
without a finished barrier ends the JVM (`BarrierCrashes`).  The pthread barrier
is external and follows glibc: numbers are drawn, and a round is complete when
enough are drawn; what a thread did to it outlives its process.  `laps`, `size`, `disturbed` and `prompt` are history.

**`Events`** is `events.c` with the listing methods of `measurement.c` and the field
order of `measure.c`.  The build (PAPI or not, getrusage or not) and the defects of
PAPI's tables are chosen at the start.  `known_events` is the set of positions in the
table that the build has; a loop over the table goes on with the next of them
(`EntryFrom`).  Listing takes one step per event.  A
measurement stores one field per step while time passes, so that the order of the
readings shows; a field holds the time of its reading and `Reading` turns it into
what the backend stores, seconds and fractions for the clocks.  Time passes in user
code or in the kernel, and getrusage tells the two apart, each cut off to the
microsecond.

**`MCEventSets`**, **`MCThreadMap`**, **`MCConcurrentSets`**, **`MCProcessBarrier`**,
**`MCEvents`** give the constants values for TLC;
**`EventSets_proof`**, **`EventSetsAny_proof`**, **`ThreadMap_proof`**,
**`ConcurrentSets_proof`**, **`JvmCounters_proof`**, **`ProcessBarrier_proof`** and
**`Events_proof`** hold the theorems.

Definitions marked `variant` are erroneous versions of the definition after them,
not part of any specification; replacing the definition by its variant has to
violate a property, and `PROJECT.json` pairs them.

## Runs

| Run | Instance | Checks |
|---|---|---|
| `events_buffer` | one event set of 1 or 2 measurements, one PAPI event, alternating client, up to 3 measurements per reset, arrays with an invalid id, two readings of time | `TypeOK`, `InBounds`, `RowsAreMeasurements`, `ResultsComplete`, `RawReportsItsCalls`, `AlternatingInv`, `CallsReturn` |
| `events_any` | two slots of one measurement, plain and attached creation with every failure, event arrays that are empty, repeat an event, mix components, or hold an unknown name, two PAPI columns; unrestricted client | `SnapshotsInOrder`, `RowReportsItsCalls`, `ValidIsLive`, `SameComponent`, `PapiColumns`, `CreateDisturbsNothing` |
| `threads_any` | three threads, one early, registerJavaThread with any id, realloc failing | `TypeOK`, `IndexIsFresh`, `UniqueJavaIds`, `ImplementsRegistry` |
| `threads_self` | three threads, two native ids, threads register only themselves | `EntriesAreTrue`, `LookupsAreRight`, `SomeoneGetsIn` |
| `startup_agent` | both ways of loading, every JVMTI call failing or not, two compiler threads, three compilations, one collection | `StartupTypeOK`, `GetIdBeforeEvents`, `AllEventsOrNone`, `LoadedMeansReady`, `CountedOnce`, `RegistrationSettled` |
| `sets_callers` | two threads, two native ids, two slots, counts 1, 5 and -7 of four bits, three starts and stops per event set, any call at any moment, up to two calls from the first careless one on | `PointersAreGood`, `OwnersAreRight`, `NothingLost`, `AttachedToItsThread`, `SizesAreWhole` |
| `barrier_rounds` | three threads in two JVMs, one name, two runs of the tool with sizes 2 and 3, two laps | `InStep`, `PromptNeverCrashes`, `TogetherTheyPass` |
| `names_table` | four builds, two presets, two native events in three components, up to three defects in PAPI; all event sets of one or two names | `ListIsComplete`, `ListedMeansItself`, `OldNamesAgree`, `ValuesAreRight`, `IntervalsNest`, `ListingEnds` |

These pass.  The following runs end in a counterexample, each a place where the
code does not do what a comment or a doc says:

| Run | What the trace shows |
|---|---|
| `events_overrun` | start, sample, stop in a buffer for one measurement: stop writes past it |
| `events_merged` | a sample in a full buffer removes an end snapshot; one row then spans two measurements |
| `sets_race` | two threads create at once, scan the table before either has marked its slot, and are given the same id |
| `names_undescribed` | a native event that PAPI names and cannot describe is on the list of supported events, and isEventSupported refuses it |

Further defects are known and have no run of their own:

* The attaching functions index the table with the result of createEventSet before
  they know whether it is -1 (`measurement.c:351` and `:386`).  While no event set was
  ever created the table is a null pointer; `Attach` sets `fault` to `"null table"`
  then.  Later the read finds whatever precedes the table and the function returns -1
  either way, which `Attach` does not count as a fault.
* A count in the lower half of the negative range wraps around when it is doubled and
  is accepted, against "Number of measurements has to be positive."
  (`measurement.c:150`); `SizesAreWhole` states the size the buffer gets.
* A thread may end between the lookup of its native id and PAPI_attach, and another
  may have been given the id; PAPI then counts on that one.  `AttachedToItsThread`
  says that the id is the right one, and no more.
* `reset` leaves `papi_rc2` in the cells, so a later sample in a cell that a failed
  start used is reported with the code of that start; `RawReportsItsCalls` holds for
  clients that do not sample.
* More than `UBENCH_MAX_PAPI_EVENTS` distinct PAPI events share the first column
  (`FIXME` at `measurement.c:258`); `PapiColumns` is about arrays that fit.
* Every path that gives an event set up, `destroyEventSet` included, leaves its PAPI
  event set and the event names allocated, and the path for mixed components its
  buffers as well (`FIXME: release memory`).
* A thread that is registered by another one after it ended stays in the map, and its
  entry names whichever thread is given its native id next; `EntriesAreTrue` holds for
  threads that register only themselves.
* `barrier()` waits through a pointer that initNative did not set, or to a segment
  without a finished barrier in it: `BarrierCrashes`.  `PromptNeverCrashes` is about
  JVMs that mapped a finished one.

`LookupsAreRight` holds while threads register only themselves; a thread registered
with native id -1 would be in the map and reported unknown, as the comment at
`threads.c:486` says.

### Bounds

`MaxIndex` (4) holds two measurements, so a full buffer has an older pair that
must survive the wrap, and `MaxMeasurements` (3) makes it wrap.  `MaxTime` (1) is
enough for two snapshots to differ, which is all an order between two can show.
`events_any` has two cells, and the measuring calls are on the first slot: there the
unrestricted client overwrites a full buffer, resets in the middle of a measurement
and reuses cells at once; the larger buffer and arrays with an invalid id in them are
left to `events_buffer`.  Two slots show reuse of one slot while the other is in use.
`MaxPapiEvents` (2, 20 in the code) lets the array fill up.  In the thread runs three
threads and two native ids give one thread that acts while another holds the lock and
a third that inherits a native id.  The proofs have no such bounds, except that
`MaxIndex`, `MaxSets` and `MaxMeasurements` exist as arbitrary numbers.  Symmetry in
the threads and native ids is used in the two runs of `ConcurrentSets` only, which
check invariants; the liveness checks of the other runs would not allow it.

Two compiler threads put one in each of the two increments at once, three
compilations let one start over meanwhile, and both loads happen in one behaviour.

In `sets_callers`, `MaxSets` (2) makes one thread grow the table while the other has
an event set in it, `MaxCalls` (3) makes a buffer for one measurement wrap, and with
`IntMax` 7 (four bits) 5 doubled is negative and -7 doubled is 2, as 2^30 and -2^31 + 1
are in 32 bits.  `MaxRaces`
(2) lets two calls follow their way from a careless one, through every stray access;
the properties are about what happens before.  Two threads are one that acts and one
that it acts upon; the reuse of a native id between the lookup and PAPI_attach needs a
third and is left to the proof.  In `barrier_rounds` `MaxLaps` (2) lets a fast thread
come round to the barrier while a slow one is still leaving it, two runs of the
tool reinitialise a barrier before, between and during rounds, and a size of 2 lets
threads pass that the next barrier has to hold back.  One name is enough for a JVM
to map the segment anew; several are left to the proof.  A size that
pthread_barrier_init refuses is a run of the tool that dies.  In `names_table`
`Kilo` (2, for 1000) makes a second of 8 units, and `Jumps` of 3, up to `MaxTime` 9, put
its boundary between two readings with the smaller and with the larger fraction first
and cut off both user and system time;
`MaxBad` (3) is a defect of each kind at once; event sets are made with a PAPI
without defects (`MaxBadUsed` 0), since resolution is checked for all of them.

Deadlock is checked in `events_buffer`.  In `events_any` the model stops after a fault, in the thread runs every thread may be
dead, in `startup_agent` the JVM ends, in `barrier_rounds` threads stop at `MaxLaps`
or wait for one that was killed, in `sets_callers` all threads end or one has gone astray, and in
`names_table` the one list or measurement is done.

### Fairness

`EventSets!FairSpec` has weak fairness of `Iterate`, the steps of a native method
that was entered: the operating system keeps running the thread and the loops wait
for nothing.  Nothing makes Java call a method.  `ThreadMap!FairSpec` has weak
fairness of each thread's steps inside a native call.  That is all a spinlock
gives: a waiting thread may find the lock taken each time it looks, so
`SomeoneGetsIn` says some thread gets in, and no claim is made for each thread.
`JvmCounters!FairSpec` has weak fairness of the steps of startup and of VM init:
the JVM runs the loading thread and always gets to VM init; it need not load the
library, compile or collect.  `ProcessBarrier!FairSpec` has weak fairness of the
steps of each thread inside a native method: the operating system runs it, and
pthread_barrier_wait returns once its round is complete.  It assumes nothing of the
tool, and nothing makes a thread call `barrier`.  `Events!Spec` has weak fairness of
the steps of the listing, a loop without waits.

## Proofs

All in TLAPS, for every value of the constants that satisfies the named
assumptions in the modules that declare them.  Every invariant and every action
property that a passing run checks is the statement of a theorem.  The inductive
invariants were checked by TLC on the instances of the runs before they were proved.

* `TypeCorrect`, `NoUseAfterFree`: any client.  The inductive invariant is
  `TypeOK` with `BlocksOK`: an event set that is valid, or that createEventSet is
  filling, has its blocks, has room for twice its count, and `data_index` is
  within the buffer as long as nothing was written outside.  Without the part about
  the set being filled, `FinishCreate` could make a freed slot valid.
* `Alternating`: for clients that alternate start and stop, `AlternatingInv`.  The
  safety properties say nothing about cells that are not read yet; the invariant
  does: the buffer is pairs of snapshots of one measurement each, then the start
  of the open one, `data_index` is twice the number of kept measurements plus one
  if one is open, and the odd cells never held a PAPI_start code.  The call in
  progress must alternate too, because start checks the ids one by one.  From it
  follow `AlternatingInBounds`, `AlternatingRows`, `AlternatingComplete` and
  `AlternatingRaw`.  So the overrun, the merged rows and the stale codes above
  cannot happen without sample, or calls out of order.
* `MapTypeCorrect`, `SearchStaysValid`, `RegisteredOnce`: any threads, any ids,
  early threads, failing allocations.  The invariant `MapInv` of `ThreadMap_proof`
  adds mutual exclusion: a thread between lock and unlock has set the lock to 1
  and is the only one there.
* `MapImplementsRegistry`: every step of `ThreadMap` is a step of
  `ThreadRegistry` or a stutter, with the entries as a set, the request of each
  thread as what it asked and its result as the outcome; the operation takes
  effect in the step between search and unlock.  `IndexIsFresh` is what makes the
  step right, and `ResultInv`, that a call has a result from that step on and not
  before, shows that it happens once per call.
* `SelfRegistered`, `SelfLookups`: when nobody uses registerJavaThread
  (`Others = {}`), `SelfInv` is inductive: living threads have different native
  ids, a call that changes the map is about its own thread, a thread whose start
  callback is done is in the map and one whose end callback is done is not.  The
  last two parts are what removal by native id needs.
* `NobodyAhead`: `InStep` for any number of threads, JVMs, names and runs of the tool.
  The invariant `RoundInv` counts: since the last round was completed as many
  numbers were drawn as threads wait, and fewer than there are threads; a thread
  that is about to leave has one lap less than all others.  So the arrival that
  completes a round finds every thread waiting, by the cardinality of a subset.
  It holds for a barrier that replaces another one because nobody living was in
  that one, which is what `Proper` asks.
* `PromptIsSafe`: `PromptNeverCrashes`.  A segment never goes back from ready, and
  what `init` saw stays true until the mapping is there (`PromptInv`).

* `OneComponentOnly`, `ColumnsMatch`, `InOrder`, `RowsReport`, `CreateKeepsOthers`
  (`EventSetsAny_proof`): any client.  The invariant `AnyInv` says of each event
  set: what it asks PAPI for so far, in columns that are all different; that the
  events still to be added are the rest of the same array; that the snapshots in
  use are in the order of their times and none is in the future; and that its
  cells carry a code only where a PAPI call of that snapshot failed.  A step writes
  one slot, so each action is settled by that slot (`OneSlotAny`).  `ColumnsMatch`
  needs one condition, `PapiFits`: no array asks for more distinct PAPI counters
  than an event set has columns (20 in the code).  Then a free column exists for
  the next event, by the pigeonhole principle.  In-order snapshots need no
  alternation of the calls, only that a call never leaves a newer cell below an
  older one, which stepping back by two cells preserves.
* `StartupTypes`, `LoadedIsReady`, `EventsTogether`, `MethodBeforeCallbacks`
  (`JvmCounters_proof`): any failures of JVMTI, both ways of loading.  `EnvsInv` says
  that an environment with callbacks is the one its context points to and has all
  its events enabled exactly when the initialisation succeeded; `OrderInv` follows
  the order of startup, through which a context is set up once although the
  library may be loaded twice; `ReadyInv` ties the method id to the events.
* `CountsAreExact`: any number of compiler threads.  `CountersInv` adds that a
  callback under way has exactly one environment to run for, from `EnvsInv`; the
  rest is the cardinality of the sets of threads between two increments.
* `PointersStayGood`, `OwnersStayRight`, `SnapshotsStay`, `AttachedRight`,
  `BuffersAreWhole` (`ConcurrentSets_proof`): any number of threads, native ids and
  slots.  The calls are as free as in the model; the invariant `SystemInv` says that
  `Core` holds as long as `raced` is 0, and `raced` never goes back to 0
  (`RacedStays`).  `Core` has a part about the registry (what it knows of a thread is
  that thread's own id), one about who sets an event set up (one thread at a time), one
  about the table (nobody holds a pointer while it may move), and for each thread what
  is true at its place in the code.  From `Core` nobody's next access is astray
  (`NobodyAstray`) and none of the actions that go astray is possible (`NobodyStrays`).
  A step touches only slots of its own thread, so the others keep theirs (`SetupStep`,
  `UseStep`).  `BuffersAreWhole` needs only that the largest `jint` is odd.
* `ValuesRight`, `Nested` (`Events_proof`): any times, and any number for the factor
  1000.  `MeasureInv` says that in each snapshot the fields read so far are in the
  order of their readings, and that every event of the event set came from an entry
  whose getter reads what its backend stores.  The getters are then arithmetic:
  seconds and fractions make up the time, and getrusage loses less than a microsecond
  each of user and of system time.
* `OldNamesMeanNew`, `ListedResolves`, `ListComplete` (`Events_proof`): any events of
  PAPI, any of which it may fail to name, to describe or to count.  A name of the table resolves to its own entry and a name
  with the prefix to the fifth (`ResolvePlain`, `ResolvePrefixed`), since no two
  entries have a name in common.  `ListInv` says that the list holds the names of
  the entries passed, of the usable events of PAPI passed and of the native ones PAPI
  names and does not describe, each once; the presets
  that the enumeration passes over are those that cannot be counted.
  `PapiAssumption` is about PAPI: it enumerates no event twice and names none like
  an entry of the table.

Only model-checked: liveness (`CallsReturn`, `SomeoneGetsIn`, `RegistrationSettled`,
`TogetherTheyPass`, `ListingEnds`), which is out of the prover's reach.

## What is left out, and why

* What calls that race on the table do after a stray access, which is undefined; what
  they do before it is in `ConcurrentSets`, and no property is claimed of it.
* Sample ids that equal the markers -1 and -2: excluded by the constants.
* The counters of an event set that is destroyed while it runs, and callbacks
  after the library is unloaded: what PAPI and the JVM do then is not in the code.
* The upper and lower case of event names, which are compared without regard to it;
  the garbage collection count of a snapshot, which no event reports; clocks other
  than timespec.
* The attribute object that the barrier tool does not initialise: glibc only uses
  the flag the tool sets.
* `Benchmark` passes one id to `Measurement`, the result classes copy and
  concatenate rows: Java code without shared or native state.
* Builds without PAPI in `EventSets`: a subset of the paths.
* What PAPI and the JVM do inside: return codes, and a thread's life.
* JNI failures (a class not found, an array not allocated) in getResults, which
  return null and change nothing.
* Formatting, logging, `/proc` scanning, timing helpers.

## Plan

1. All modules modelled and checked, every safety property of the passing runs
   proved: done.
2. Theorems still worth having: that the cells and rows of a client that samples
   are right as long as the buffer does not fill, which the runs of `EventSets` with a
   counterexample suggest; and an abstract specification of an event set, a
   sequence of measurements, implemented by `EventSets` with an alternating client.
