# AOCL-Utils: models and proofs

TLA+ modules that model AOCL-Utils (C++, `src/`), TLC configurations that
model-check them on small instances, and TLAPS proofs. Modelled are the
asynchronous logger, the only component of the library with threads of its own;
thread pinning, its largest algorithm; the environment that all threads share; the
CPU queries, which move the calling thread to the processor they ask; the bitmap;
the random devices; and Status with StatusOr. `PROJECT.json` lists the components,
the hazards the properties are aimed at, and the lines every definition stands for.

## The system

| component | state | operations | interacts with |
|---|---|---|---|
| LogWriter (`Library/Core/Logger/LogWriter.cc`) | static `instance` and `instanceMutex`; per object `m_thread`, `m_running`, `m_logger`, `m_queue` | `getLogWriter`, `setLogger`, `start`, `stop`, `log`, destructor, and the worker's `loggerThread` | shared ownership with every LogManager; the worker uses the queue and the logger |
| LogManager (`LoggerManager.cc`) | `m_logWriter`; `thread_local` `m_storage` | `log`, `<<`, `flush`, destructor | hands its thread's messages to the LogWriter |
| LockingQueue (`Queue.cc`) | a deque under a mutex | `enqueue`, `dequeue`, `empty` | producers and the worker |
| Loggers (`Logger.cc`) | a stream or a `FILE*` | `write`, `flush`, destructor; a factory | called by the worker and by `stop` |
| Macros and C API (`Macros.hh`, `Capi/logger.cc`) | a context that owns a LogManager | fixed sequences of the calls above | every client thread |
| Environ (`Environ.cc`, `Os/Env.hh`, `Capi/environ.cc`) | two maps, user and system, each with a mutex | `get`, `set`, `unset`, `init` | the process environment, read once |
| ThreadPinning, CpuTopology | core, cache and processor maps read from `/sys` | spread, core, logical and custom strategies | `pthread_setaffinity_np` |
| BitMap (`BitMap.cc`) | a vector of 64-bit words, a mutex | `set`, `clear`, `operator|`, `count`, tests of one bit and of all | threads that share it; a merge reads another bitmap |
| Status, StatusOr, Error (`Status.hh`, `StatusOr.hh`, `GenericError.cc`) | an error code, a flag and a message; a status and a value | `update`, `set`, construction, conversion | every caller, by value |
| Random devices (`SystemRng.cc`, `HardwareRng.cc`) | a descriptor that all threads share; none | `randomize` | `/dev/urandom`, RDRAND |
| Cpuid (`X86Cpu.cc`, `X86RawData.*`, `CpuidUtils.*`, `Capi/cpuid.cc`) | vendor information and two maps of flags for each `X86Cpu`; the thread's affinity mask | the constructor with `update`, `hasFlag(s)`, `isUarch`, the ISA levels, the C functions | the CPU, `sched_setaffinity`, thread pinning |

What is hard in it: the logger's singleton is dropped by `stop()` while other
threads look it up, a writer is destroyed by whoever holds its last reference (and
its destructor runs `stop()` again), two critical sections of the queue make one
decision of the worker, `setLogger()` swaps a logger in use, and messages pass
through a thread-local buffer, a queue, the worker's hands and a file buffer
before they are safe. In the other components it is boundaries (BitMap words,
uneven divisions in ThreadPinning), the portions in which threads see each other's
work (BitMap), short and failing reads (random devices), cached values (Environ), a
first failure that must survive a whole computation (Status), and a state that must
be restored, with many requests that must all reach one processor (X86Cpu).
"hazards" in `PROJECT.json` has the lines and the properties aimed at each.

## Modules

- `LogChannel` is the abstract specification of a LogWriter: messages are accepted
  only by a live writer, handed to the logger one by one in the order of
  acceptance and at most once, and never after destruction. It does not promise
  delivery, because a writer may be destroyed with messages left.
- `LogWriter` is the detailed model: client threads with a program of calls, one
  worker thread for each writer, and one action for each access to shared memory.
- `LoggerApi` states the macros, the C API and the usage in the tests as sequences
  of those calls, what use of them is the documented one (`DocumentedUse`), and the
  properties their callers may expect.
- `MCLogger` gives TLC the programs the clients run.
- `LogWriterProofs` proves theorems about `LogWriter`: first about messages, then about
  the life of the objects, last about programs that use `LoggerApi` as documented.
- `Halving` is the abstract specification of `createVector`: the processor of each
  thread, as a function of the two counts.
- `CreateVector` is `createVector` itself, one step for each activation.
- `CpuTopology` gives the maps that the topology's constructor builds.
- `Affinity` is a call of `pinThreads()`: a strategy makes an affinity vector from
  those maps, then every thread's affinity is set from it. It uses `Halving`'s
  function for the two places where the code calls `createVector`;
  `ComputesDistribution` in `CreateVector` is what justifies that.
- `EnvMap` is the abstract specification of the environment: every call takes effect
  in one step. `KeyValues` says what a list of pairs makes of a map.
- `Environ` is `Env` and its two `Environ` objects, one step for each access under
  the mutex and two for each access without it.
- `MCEnviron` gives TLC the programs its threads run; `EnvironProofs` proves theorems
  about `Environ`.
- `MCCreateVector` and `MCAffinity` give TLC the counts and the machines.
- `CreateVectorProofs` proves theorems about `CreateVector`, and `AffinityProofs`, which
  uses them, about `Affinity`.
- `CpuidTable` is what `X86Cpu` makes of CPUID's answers: the table of requests and
  flags, family, model and microarchitecture, and the ISA levels.
- `X86Cpu` is a thread that asks the C functions about processors, with the
  scheduler and a thread that pins it; `MCX86Cpu` gives TLC the machines and the
  questions, `X86CpuProofs` proves theorems about it.
- `BitSet` is the abstract specification of the bitmap: sets of positions, where an
  operation on a whole bitmap takes effect in portions.
- `BitMap` is the bitmap, word by word; `MCBitMap` gives TLC sizes and positions,
  `BitMapProofs` proves theorems about it.
- `Rng` is `randomize()` of both devices, with the failures of each; `MCRng` gives
  TLC the requests, `RngProofs` proves theorems about it.
- `Outcome` is the abstract specification of Status and StatusOr: nested calls, each
  of which comes to its first failure.
- `Status` is both classes as a computation of nested calls uses them; `MCStatus`
  gives TLC the errors, `StatusProofs` proves theorems about it.

### How LogWriter corresponds to the code

| state | code |
|---|---|
| `instance`, `lock` | `LogWriter::instance`, `instanceMutex` |
| `running`, `joinable`, `logger`, `queue` | `m_running`, `m_thread.joinable()`, `m_logger`, `m_queue` of each object |
| `life` | whether an object is unallocated, live, in its destructor, or destroyed |
| `wpc`, `inflight`, `target` | the worker's place, its local `msg`, the logger it has loaded |
| `prog`, `pc`, `tmp`, `stack` | a client's remaining calls, place in `getLogWriter`/`setLogger`, returned pointer, and nested activations of `stop()` |
| `storage`, `mgr` | `m_storage` of the thread, `m_logWriter` of each LogManager |
| `out`, `durable` | what a logger emitted, and how much of it is out of its buffer |
| `accepted`, `written` | history variables |
| `fault` | how the program died, if it did |

`LockInstance`, `CheckRunning`, `Spawn`, `LoadInstance`, `AddReference` are
`getLogWriter()`; `LockInstance`, `SetLogger` are `setLogger()`; `Log`, `Enqueue`,
`Flushed`, `Close` are LogManager; `StopCheck`, `StopDrained`, `StopClear`,
`StopFlush`, `StopJoin`, `StopReset`, `StopReturn` are the lines of `stop()` in
order, and with `Destroy` those of `~LogWriter()`; `WorkerLoop`, `WorkerTest`,
`WorkerTake`, `WorkerLoad`, `WorkerWrite` are `loggerThread()`. A queue operation
is one step because it holds the queue's mutex. `return instance` is two steps
because copying a `shared_ptr` loads the pointer and then increments a count;
a pointer to an object that was destroyed in between is the fault `dangling`.
`Drop` is the destructor of a `shared_ptr`: the last owner starts `~LogWriter`,
which is a new activation on the same thread's stack. A null or dangling pointer
used, an assignment to a joinable thread and a second `join()` set `fault` and end
the behaviour; what undefined behaviour does after that is not explored.

Two places are coarser than the machine: `StopFlush` loads `m_logger` and calls
`flush()` in one step, and `SetLogger` swaps and destroys the logger in one. A
worker that has loaded the old logger by then is the fault `dangling`, so the
overlap that matters (worker against `setLogger`) is kept. The number of polls of
the sleeping loop is not counted. A `FileLogger` that could not open its file acts
as a dummy.

### How thread pinning corresponds to the code

In `CreateVector`, `calls` is the call stack of the recursion (only the arguments,
for nothing else survives a call), innermost activation first. `Empty`, `Pin`,
`Fill` and `Split` are the four cases of the body in its order; `Split` replaces an
activation by its two recursive calls, the left one to run first. The vector is the
one the caller passes, filled with zeros.

In `CpuTopology`, a machine is what `/sys` shows: how many logical processors, the
sets of thread siblings and the sets that share an L3 cache. `Words` is a line of a
mask file after `parseLine()`, `MapOf` the sorting and removal of duplicates,
`Groups` the mask and count of each word. Numbering is free of gaps, because the
constructor allocates a vector of as many entries as there are processors online
and indexes it by processor number: with a gap it indexes past the end (a hazard in
the list, without a property). L3 caches are all there or all missing. A machine with
`groups` is a Windows one: there the words are processor groups, of any size up to `W`,
and the constructor copies the system's records (`FromLogicalProcessorInformation`),
which are taken to come in ascending order; without an L3 cache its map has no entry at
all, where the Linux one has one empty entry.

In `Affinity`, the four C functions and a call of the C++ class with an index that is
no strategy are the entry points of `pinThreads()`; `strategy` is what the caller asks
for, and `GetAffinityVector` chooses by the index that the function passes on. The core
strategy's loop over cores is the steps `Skip` and `Take`, with `pMap` the bits it has
not used yet and `maskIndex` the word of each core. `SetAffinity` is one iteration of
`setAffinity()`, which ignores the result of `pthread_setaffinity_np` (and of
`SetThreadGroupAffinity`, to which it gives a group and a mask that it computes back
from the number: `GroupOf`, `InGroup`). The asserts of the source are off,
as in its default build. Processors are numbered from 0 as in the code, while
sequences (vectors, maps) are indexed from 1.

### How Environ corresponds to the code

`user` and `system` are the two static objects' maps, `made` says which of them have
been constructed: a map that is not made yet follows `process`, the environment its
constructor will copy. `GetUser`, `Find`, `BeginAt`, `EndAt` and `GetSystem` are
`Env::get()` with `Environ::get()`; `Copy` is what `au_env_is_enabled` does with the
view it gets; `SetFind` and `Store`, `UnsetFind`, `BeginErase` and `EndErase`,
`BeginClear`, `EndClear` and `Fill` are `set()`, `unset()` and `init()`. `Putenv` is
the application's own `setenv()`. An access outside the mutex is a pair of steps, and
any access of another thread that falls between them, if one of the two writes, is a
data race (`Race`), after which nothing is explored. `at()` for a key that is gone
throws (`out_of_range`). A copy from a text that was changed since may give the new
text or be `dangling`. `au_env_get` and `au_env_is_set` are a `get` here: they return
or measure the view and look at no text. (The C header says that `au_env_get` returns
NULL for a variable that is not set; it returns an empty string. It also declares
`au_env_init`, which no source file defines.)

A program is a list of rounds with a join between them. It is `Orderly` if in every
round one thread calls, or all only get, or all only set. In every program, orderly or
not, `putenv()` is called by a thread that runs alone in its round
(`ConstantsAssumption`): the C library lets nobody read the environment while it
changes, and `getAll()` reads it.

### How X86Cpu corresponds to the code

`mask` is the thread's affinity mask in the kernel; `num`, `saved` (`currentMask`),
`row`, `raw` (`rawCpuid`) and `cpu` (the object's members) are the variables of the
constructor, and `step` is how far it has got. `Begin` (with `Fallback`), `Save`,
`Move` and `Restore` are the lines of the constructor in order; `ReadVersion`,
`ReadVendor`, `UpdateFlags` and `Updated` are `update()`. Every CPUID request is a
step, executed on some processor of the mask: this is where the scheduler, or
`PinnedByOther`, moves the thread. The rows of `CPUID_MAP` that share a request are
one step, since only the first of them executes CPUID. A flag stands for its bit, so
the registers and masks of the rows are left out; which flag belongs to which
request is kept, and so is the key of the map of answers, the sum of the four
registers (`Sum`). The array has one element more than rows; its zero row asks for
leaf 0 and makes the flag `Min` available. The usable flags are always the
available ones. `updateCacheView()` tests for a level beyond the last one first and
makes no request.

`Refuse` is a list that is too short for a C function; `AnswerTo` and `AnswerToList`
are the C functions, `Ask` the lookup of a flag's name with `std::map::at`, which
throws for a name that no flag has. Asserts are off, as in the default build.

### How BitMap corresponds to the code

A word is the set of its bits that are 1. `SetWord` is one turn of the loop of
`set()`, which takes the mutex for every word; `MergeWord` and `MergeLast` are the
loop and the last lines of `set(other)` and `clear(other)`, between `BeginMerge`,
which takes the mutex of the bitmap that changes, and the end. The other bitmap is
read without its mutex. `operator|` clears, as in the code. The remaining functions
are one step each. `IntBit` is `1 << pos`: an int, shifted modulo its width (the
language leaves that undefined, and it is what x86 does), then extended to a word
with its sign. `getWordIdxPair(sz)` of the last word of a merge takes the number of
bits that remain for a position, so that word 0 is updated; the sizes for which that
makes a difference are outside `Merges`.

### How Rng corresponds to the code

`fd` is the static `m_fd`, read and written without a lock: `CheckFd`, `Open`,
`CheckOpened` are its accesses in order, and `Read` looks at it at every turn. `out`
is `out` or `bytes_written`. `read()` may return any count up to the one asked for,
0, or -1, which is added to an unsigned count: the next read starts one byte lower,
or, at the first byte, the count becomes the greatest `size_t` and ends the loop.
RDRAND may fail at every stride and leaves zero. A buffer has one byte more than
was asked for, which stands for all that lies behind it.

### How Status corresponds to the code

`stack` holds the Status or StatusOr of every call in progress; a call changes its
own with `Step` (`update(ie, msg)`, `update(Status)`, `set(Status)`) and `Compute`
(`set(T&)`), and hands it to its caller with `Return` (a copy or a converted
StatusOr) or `ReturnWrapped` (a Status that becomes a StatusOr), as the Calculator
of the tests does. A Status has the 64-bit code of `ErrorBase`'s union, the flag
`m_is_ok` and a message of two parts. `update()` decides by the code, `ok()` and
`set()` by the flag; `ErrorsAssumption` says that an error whose base error is
`eOk` has no other field set, as holds for every error class of the repository.
`failures` is a history variable.

## Runs

### Logger

Constants: two clients, two LogManagers, three messages, four loggers (console,
file, dummy, and the null pointer `createLogger` returns for an unknown type), and
four LogWriter objects. No program creates more than four writers (each lookup of
an empty singleton creates one, and the programs make at most four lookups in all),
so the pool never runs dry. Programs are finite, so no other bound is needed.
Two clients are enough for every race named in the hazards: each is between one
`stop()` and one other call.

| run | question | result |
|---|---|---|
| `LoggerUsage` | Does one thread that uses the API as documented get all its messages into the output for good, with one worker at a time, no fault and every call returning? Do two threads that share a running writer lose nothing and crash nowhere, if neither stops it? | holds |
| `LoggerRacing` | What does each writer still guarantee when two threads use the macros, `setLogger()` (of a null logger too) and `stop()` at will, up to a crash? Order (`Fifo`), no made-up message, `StopDrains`, no destruction while owned, no worker on destroyed members, and the refinement of `LogChannel`. | holds |
| `LoggerNullWriter` | Does `getLogWriter()` ever return null? | violated |
| `LoggerStopHangs` | Does every `stop()` get past its wait? | violated |

The two violated runs are disagreements between the code and its documentation,
quoted in "findings". In short: the macros and the C API call `stop()` after each
message or context, `stop()` drops the singleton without the mutex, and everything
that relies on the singleton's identity or its worker breaks across that point.

`FinishedIsDurable` speaks of an end at which every writer is destroyed: that is
when a `FILE*` has been closed or flushed for the last time.

`MCLogger` assumes, and TLC confirms, that the programs of `LoggerUsage` are of the
documented use, which is what the theorems about the same invariants suppose.

`LoggerRacing` sets `CHECK_DEADLOCK FALSE`: a faulting or hanging program does
stop there. `LoggerUsage` keeps the deadlock check; `Halted` is the stuttering of a
program that is over.

Fairness: weak fairness of each client and of each worker, which is what an
operating system that schedules every runnable thread gives. No fairness is put on
one action of a thread over another, and none is needed for the mutex: a client
that waits for it competes with at most one other that holds it for a few steps of
its finite program.

### Thread pinning

| run | question | result |
|---|---|---|
| `CreateVector` | Is the vector the one `Halving` describes, in thread order, with no processor shared or idle without need? Does the recursion end? | holds |
| `Affinity` | Does every strategy put each thread on exactly one existing processor and share processors, caches and cores only when it must, and does the core strategy's loop end? | holds |

`CreateVector` starts from every pair of 1 to 20 threads and 0 to 17 processors. 17
is one above the fourth power of two, so all halvings of odd and even counts on
five levels occur, with fewer, equally many and more threads than processors.

`Affinity` starts from every machine of up to six processors whose cores pair them
in any way (so a core's siblings may be neighbours, far apart, or in different
words) or whose L3 caches group them in any way, none included. Words have two bits
instead of 32, so six processors fill three words, and offsets, second words of a
core, and words a core does not touch all occur. Machines of up to three processors
are checked with every division into processor groups, too: three are enough for a
smaller group before a larger one, and after it. 13 threads are two rounds over six
processors and one more. Cores are of two processors at most, because SMT on the
machines AOCL supports has two siblings; no property assumes it. `ProcessorsAreShared`
speaks of the processors that a strategy has to share out (`Offered`). For core these
are the physical cores, that is, the lowest processor of each core: up to as many
threads as there are cores, each thread has one of its own, and with more none of
them is without a thread. Where core puts the threads beyond that no property says,
because documentation and code disagree (below). For spread it holds only with equal
caches whose number is a power of two (`RegularCaches`): with others a cache may get
more threads than it has processors while others have room. `CachesAreShared` holds
for any.

Fairness: a call runs in one thread that keeps being scheduled, so `WF(Next)`.

### Environment

| run | question | result |
|---|---|---|
| `Environ` | In orderly programs: does nothing fail, does each call take effect at once (`EnvMap`), and does a key keep its answer while the program does not change it? In any program: is an answer, unless empty, a value the key had during the call? | holds |

The programs are all sequences of three calls of one thread, before a look at both
keys; all pairs of concurrent setters and of concurrent getters, with any call before
or between; and all races of one call against two. Two threads, two keys, one of them
in the process's environment, two values and the empty string: each property speaks
of one key and of two threads, and the second key shows what must not be affected.

### CPU queries

| run | question | result |
|---|---|---|
| `X86Cpu` | Whatever processor is asked about: is the thread's affinity restored, does the `X86Cpu` describe that one processor in every member and flag, and is every answer of the C functions what the flags, the vendor and the version of that processor say? | holds |

The machines: three different processors, of which the process may use all or two;
a machine with an offline gap in its numbers; one with more processors than a
`cpu_set_t` holds; and one processor of every model that `EUModel` lists, of each
microarchitecture, with others that it does not list, among them a Bulldozer, a
Skylake with AVX-512 and one without, and a guest of each hypervisor that hides one
flag of the ISA levels. The initial mask is any, so the thread may start anywhere, and
another thread may pin it once in each call.
Questions: every C function about processor 0, some about the others, about one that
does not exist and about a number that is too large, lists of up to three names,
with unknown ones and with flags of every request. `ReportsTheAskedCpu` and
`AnswersAreTrue` say nothing if another thread pins the asking one during the call,
if `sched_getaffinity()` fails, or if the question is about "the current processor"
of a thread that may run on several: then no single processor can be meant. There
is no fairness and nothing unbounded.

What `AnswersAreTrue` takes from `cpuid.h` about x86-64-v2, v3 and v4 is the text
"Output of this API will be same as ..." with its list of flags (`TextV2`, `TextV3`,
`TextV4`), and not the tables of processors below that text, which contradict it: the
run has machines of which the table says True and the property, the code and the text
say no. See the disagreements below. The text also names three flags that the code
does not look at; of a guest that lacks just one of these either answer passes, so the
run does not decide between the two.

### BitMap

| run | question | result |
|---|---|---|
| `BitMap` | Do two bitmaps that two threads share behave as sets of positions, each operation on a whole bitmap position by position? Does no bit beyond the size get set, on which `count()` relies? | holds |
| `BitMapUpperBits` | The same for all positions of a word. | violated |

A word has four bits instead of 64 and an int three, or two for the violated run,
which leaves all cases of a position: below the sign bit, the sign bit, and beyond
the int. Sizes are within a word, a full word (with the spare word the constructor
allocates), and two words; equal and different. `BitMap` is confined to positions
whose `1 << pos` is one bit and to merges whose smaller size is less than a word or
whole words; the size itself, which `isSet()` admits, is among the positions. The
`VIEW` leaves out `answer`: no step depends on it, and `ImplementsBitSet` checks
each answer on the transition that gives it.

### Random devices

| run | question | result |
|---|---|---|
| `Rng` | Is nothing behind the buffer written, no byte counted that is not random, and does every call return, whatever fails? | holds |

Two threads (the descriptor is shared, nothing else), lengths of up to four bytes and
none, and both alignments: two strides and an odd byte occur, and up to ten reads of
0 to 4 bytes or errors in every order. An odd number of bytes from the hardware at an
odd address is left out (see below). Fairness: a thread inside `randomize()` keeps
being scheduled, and neither `read()` of `/dev/urandom` nor RDRAND blocks.

### Status

| run | question | result |
|---|---|---|
| `Status` | Does the first failure of a computation, and no other, reach its outermost caller, with code and message? Do the classes keep what `Outcome` promises? | holds |

Three nested calls and three failures are enough for a failure below one that comes
later, and one before a call that fails itself. `MaxDepth` and `MaxFailures` bound
the run; the theorems need no bound.

### Disagreements noticed without a run

Read off the code while modelling, each with the reason why the model leaves it out
or shows it without a property:

- Destroying one C logger context stops the writer of all; what another flushes
  later is not written (`Capi/logger.cc:99`). A logger that `setLogger()` configured
  goes away with the first `stop()` (`LogWriter.cc:119`).
- `createVector` is uneven for counts of processors that are no power of two: six
  threads over three processors get two, one and three. Without an L3 cache the
  spread strategy pins all threads to processor 0.
- With more threads than cores the core strategy puts threads on SMT siblings, from
  the second round of its loop on (`ThreadPinning.hh:197`). `threadpinning.h:47-50`
  says that threads are pinned to the physical cores and not to the sibling, and the
  table at :54-63 has eight threads share two physical cores. In the `Affinity` run
  the case occurs, the code's placement is in the model, and no property demands
  either: `ProcessorsAreShared` and `CoresBeforeSiblings` speak of the physical cores
  and of the order, on which both agree.
- The tables of `cpuid.h` (and of `X86Cpu.hh:466-517`) say True for processors that
  lack a flag of the level: Bulldozer for x86-64-v3 (`cpuid.h:302`; it lacks `avx2`),
  and Skylake, Bulldozer and Zen1 to Zen3 for x86-64-v4 (`cpuid.h:336-340`; Bulldozer,
  the Zens and the client Skylakes lack `avx512f`). The code answers no, in agreement
  with the text above each table and, for the AMD processors, with the test plan
  (`CpuidUnitTestPlan.md:91`, :102, :112-113). `AnswersAreTrue` follows the text and
  the code, so the `X86Cpu` run passes with "no" on such machines: it does not show
  that the tables are right, they are not.
- `isX86_64v2` does not look at `sse`, `sse2` and `sse4_1` (`X86RawData.cc:286-288`),
  which `cpuid.h:255-259` lists, and so neither do v3 and v4. A processor with
  `sse4_2` has these too, but a hypervisor may hide one from its guest; then the code
  says yes and the text no, and `AnswersAreTrue` allows both.
- `Env::get()` may miss the system's value when another thread's `unset()` falls
  between its two looks at the user's map (`Environ.cc:75`).
- `HardwareRng` with an odd length at an odd address writes the first byte anew
  and returns the length plus one (`HardwareRng.cc:112`). `SystemRng` returns the
  greatest `size_t` if the first read fails.
- `operator|` of BitMap clears (`BitMap.cc:299`); a merge of sizes that are not as
  described above updates the wrong word (`BitMap.cc:169`).
- With a gap in the processor numbers, or for the first number beyond the last
  one, the constructor of `X86Cpu` asks whichever processor the thread is on
  (`X86Cpu.cc:63`). `au_cpuid_has_flag` returns NULL for a list of one name;
  `alci_cpu_get_vendor` returns 1 always; the vendor text is not terminated; an AMD
  processor of a known family whose model is not listed is no member of the Zen family.
- A StatusOr made of a Status that is ok has no value (an assertion says so). An
  error of a module whose code is not zero but whose `isError()` is false would make
  a Status that is ok and refuses later failures; the repository has none.

Definitions marked `Mutant` are wrong variants of the definition below them. Each
property of a passing run has one that it rejects: they document which slip in the
code each property is there to catch.

## Proofs

### LogWriterProofs

Proved for every number of clients, writers, managers, loggers
and messages, and every set of programs:

- `TypeCorrect`: `TypeOK` always holds. Its strengthening `TypeInv` adds `CallInv`:
  a client in the middle of a call still has that call at the head of its program,
  so `Head` and `Tail` are never taken of an empty sequence.
- `FifoCorrect`, `PlaceholderNeverTaken`: from `HandOffInv`. The order of messages
  alone is not inductive: it takes the worker's place (it holds a message only
  between take and write, it takes only from a queue known not to be empty) and
  that a thread that is not joinable is not running, so that `start()` never puts
  a second worker on one queue.
- `StopDrainsCorrect`: from `DrainInv`, which bounds what an activation of `stop()`
  saw accepted by what is written or in the worker's hands from the moment its wait
  ended, and by what is written once it has joined. `Progress` says that no step of
  anyone decreases those counts.

The life of writers, for the same constants:

- `OwnedIsLiveCorrect`: `OwnedIsLive`, from `OwnerInv`. The stack of a client has
  activations of `stop()`: below the top one all have only to return, the lowest may
  be a called one and then its client's temporary owns the writer, all others are
  `~LogWriter()` of writers that are past their last owner (`FramesInv`). A new
  reference is only ever taken to a live writer: `AddReference` fails otherwise.
- `WorkerOutlivedCorrect`: `WorkerOutlived`, from `LifeInv`. The difficulty is that
  `m_running` and the thread are not changed together, and that `start()` holds a mutex
  that `stop()` does not. `JoinPending` says that a live writer whose thread is
  joinable although the flag is clear has a called `stop()` that has still to join;
  `StartPending` says the same of a writer that `start()` has chosen but not started,
  where there may be two of them. Each of them owns the writer, so the last owner
  finds the flag set if there is a thread, and joins it (`Ending`); no other thread
  interferes with what it destroys (`Unique`).
- `ChannelCorrect`: `LogWriter` implements `LogChannel` (`ImplementsChannel`).
  `LockInstance` maps to `Open`, `Enqueue` to `Accept`, `WorkerWrite` to `Deliver`,
  the release of a last reference and the end of `~LogWriter()` to the two kinds of
  `Retire`; every other action is invisible. The invariant, `ChannelInv`, joins all of
  the above with `DyingInv` (a writer under destruction has exactly one activation of
  `~LogWriter()`, so that it is destroyed once) and `InflightInv` (a worker holds one
  message between taking it from the queue and writing it, so that what it writes is
  the next one of the accepted). The steps need the earlier results: a writer accepts
  only while it is live because its caller owns it, and a worker still delivers only
  while its writer is not destroyed because its thread is joinable.

The documented use, for the same constants, and for every set of programs of which each
is a `DocumentedUse`. That is one thread alone, which flushes what it logged through a
LogManager it made since the last `stop()`, and calls `setLogger()`, with a logger that
stores, only while no worker runs (`SequentialUse`); or several threads, each with its
own LogManagers, none of which stops the writer or sets the logger (`SharingUse`).

- `NoFaultCorrect`: `NoFault`, from `UsageInv`. A state says too little of what a thread
  is still allowed to do, so the invariant says which calls of its program are made
  (`Played`) and what the state has to do with them. For a thread alone (`SequentialInv`):
  a LogManager in its scope has a writer; one made since the last `stop()` has the writer
  in use, and that has its worker; a buffer with messages is one that the thread must
  still flush; a writer that was never started accepted nothing (`Agrees`). In the middle
  of a call these hold as far as the call has come (`Placed`, and `Stopping` for each
  place of `stop()`): its caller's pointer keeps the writer until `stop()` returns, so
  that `instance.reset()` is never the last release, and what is destroyed is never the
  writer in use. For several threads (`ShareInv`): there is one writer, and its flag is
  set if it has a thread; the mutex keeps the others out while one starts it.
- `SoleWorkerCorrect`: `SoleWorker`. In both cases only the writer in use has a thread:
  a writer goes out of use with its worker joined and its queue empty (`OthersDone`).
- `FinishedIsDurableCorrect`: `FinishedIsDurable`. `Sinks` says that every writer has a
  logger that stores, that its logger has all the writer has written, and that of a
  destroyed writer all of it is flushed. It needs that the logger is changed only
  before anything is written. A destroyed writer's queue is empty and its worker holds
  nothing, so what it accepted is what it wrote. Threads that share a writer never see
  it destroyed; what they are promised is `AcceptedIsWritten`, which TLC checks.

Assumption: `ConstantsAssumption` (kinds of the constants, null values outside
their sets, a console is what a LogWriter starts with), which TLC evaluates on every run.

### CreateVectorProofs

Proved for every set of pairs of counts, of any size:

- `VectorTypeCorrect`: `TypeOK`, whose last part says that no entry names a
  processor out of range.
- `InOrderCorrect`, `NoNeedlessSharingCorrect`, `NoIdleProcessorCorrect`: what a
  finished call says of its vector. None of the three is inductive, for the vector
  says nothing of threads not handled yet. The invariant describes the stack: its
  activations cut the threads from some point to the end, and likewise the
  processors, into adjacent non-empty ranges (`Cut`); ranges of both kinds fit each
  other, so that none has more threads than processors if there are enough
  processors, and the other way round (`Fits`); and the threads before that point
  are placed, in order, on the processors before it (`Placed`). A call without
  threads or processors has a case of its own (`Idle`): it is the only one whose
  stack is ever an empty range.
- `ComputesDistributionCorrect`: a finished call has the vector that `Halving`
  describes, on which `Affinity` relies. `Slot` is a recursive function, and that there
  is one is proved, not assumed: if for some number of threads no function satisfied its
  equation, there would be a least such number, and the equation itself makes a function
  for it from those of its halves (`SolutionExists`, `SolutionsAgree`). The invariant
  says that every activation still has to write its part of the whole distribution
  (`Due`, which a split divides between its two calls), and that the threads before the
  first one are done (`Agreed`).

Assumption: `SizesAssumption` (counts are natural numbers).

### AffinityProofs

Proved for every width of words, every set of machines (any number of processors, any
cores and caches, with or without processor groups) and every number of threads:

- `EachOnOneProcessorHolds`: `EachOnOneProcessor`. Every entry of a vector names an
  existing processor, and `setAffinity()` finds that processor, on Windows by way of the
  group and the bit that it computes back from the number (`OffsetOfGroup` and the
  lemmas after it).
- `ProcessorsAreSharedHolds`: `ProcessorsAreShared`. For the logical strategy it is
  arithmetic modulo the number of processors; for spread it is twice the distribution
  of `createVector()`; for core it is the first round of its loop, which takes the
  lowest processor of each core, whatever the sizes of the cores.
- `CachesAreSharedHolds`: `CachesAreShared`.
- `CoresBeforeSiblingsHolds`: `CoresBeforeSiblings`, at every step of the loop.

They follow from `PinInvariant`. `EachOnOneProcessor` and the others speak of the end of
a call and say nothing while the vector is being made, so the inductive invariant
`PinInv` says what each strategy has done by then (`OfStrategy`), how far vector and
threads are (`OfThreads`), and that the maps are still those of the constructor. Four
arguments carry it:

- *Orders and sums.* Lists are elements of a finite set numbered by their rank in an
  order (`InOrderOf`), and sums are cardinalities of disjoint unions (`SumOf`): both
  need no induction to be reasoned about. `CompareIsOrder` says that
  `compareVectors()` orders the masks, so sorting loses none of them.
- *Masks are sets of processors.* `Describes` relates a list of words to the processors
  it stands for. The maps describe the cores and the caches, each once, and
  `calculateOffset()` gives the first processor of a word, because every bit of the
  words before it is in the mask of some core.
- *Even distribution.* `createVector()` puts at most `s` threads on each of `m`
  processors if there are at most `m * s` threads, and at least `s` if there are at
  least so many (`Levelled`), for one thread each (`s = 1`) or for `m` a power of two.
  It is proved by halving, from a least counterexample; for other `m` it is false, which
  is why spread needs `RegularCaches`.
- *Rounds.* What the core strategy has left of each core is a set, whatever words it
  is in (`LeftOf`): a `Take` moves its lowest processor to the vector (`LeftTake`;
  it needs that the words of a core are in ascending order, `IsAscending`), and a
  `Skip` makes it whole again (`Takes`). `Rounds` then says of these sets that the
  first round has each thread on the lowest processor of a core of its own. Of the
  later rounds it says nothing.

`PinInv` was first checked by TLC on machines of five processors. Assumptions:
`TopologyAssumption` (cores and caches partition the processors, groups are no larger
than a word), `BoundAssumption` (a bound on the threads that may be any number).

### X86CpuProofs

Proved for every set of machines and questions:

- `TypeCorrect`: `TypeOK`, of which the part that matters is that the thread always
  has a processor to run on.
- `AffinityIsRestored`: from an invariant for each place in the constructor: before
  `Move` the mask is the one the call began with, and from `Save` on, if the mask
  fits and nobody interfered, `saved` is that mask. Restoring it is no failure of
  `sched_setaffinity()` because it has an allowed processor (`TypeOK`).
- `ReportsTheAskedHolds`: `ReportsTheAskedCpu`, from `ReportInv`. After `Move` the
  thread has no processor but the asked one (`Turned`), so every request that follows is
  answered there, whatever the scheduler does; and after each request the members hold
  what the rows so far say of it (`Describes`). It takes two facts about the table: the
  registers of its requests have different sums, so no answer is looked up under another
  request, and every flag has a row.
- `AnswersAreTrueHolds`: `AnswersAreTrue`, from the same invariant, for machines of
  processors whose version the tables list (`Listed`; `MCX86Cpu` has TLC check that
  those of the run are). The C functions' loops over lists are of any length.

Assumptions: `MachinesAssumption`, `CallsAssumption`, `CurrentAssumption`; `Listed` in
the last theorem itself.

### BitMapProofs

Proved for every width of words and ints, every set of pairs of sizes and every
number of threads:

- `TypeCorrect`: `TypeOK`. The invariant adds that a thread in an operation is at a
  word that both bitmaps have, so no word is indexed out of range, and that it holds
  the mutex of the bitmap it merges into and no other (`Held`).
- `PaddingStaysClear`: `PaddingClear`, if every position that is passed has its place
  in the word below the sign bit of an int (`Fit`). The sizes of merged bitmaps need
  no condition: a merge that takes the wrong word for the last one still takes no more
  bits than remain, and those are within the size.

- `ImplementsBitSetHolds`: `ImplementsBitSet`. A word stands for the positions `At` it,
  and the words of a bitmap for disjoint sets of them (`PlaceIsUnique`), so what a step
  does to one word it does to those positions and no others; `count()` is right because
  places in words and positions correspond one to one (`CountIs`). A step of an
  operation on a whole bitmap maps to `Portion`, the word's positions being the portion
  (`PortionMaps`). It takes `PaddingClear` (without it a question about the position
  behind the last one, or `isFull()`, is answered wrongly), that single bits are single
  bits (`Fit`), and that merges are of sizes for which the last word is the first one or
  a whole one (`WholeMerges`); the run's `FitPositions` and `FitMerges` satisfy both,
  and `BitMapUpperBits` shows what happens with other positions.

Assumptions: `WidthsAssumption`, `ThreadsAssumption`, `SizesAssumption`,
`PositionsAssumption`; `Fit` and `WholeMerges` in the theorems themselves.

### RngProofs

Proved for every number of threads, reads, and set of requests:

- `TypeCorrect` and `BuffersAreKept`: a thread that reads or strides has not counted
  more than its length, and an odd byte is left when the tail is written
  (`Contained`).
- `CountsAreTrue`: if no request is an odd number of bytes at an odd address (`Fit`),
  the bytes below the count are random in every state in which the count does not
  exceed the length (`Counted`): a failed read lowers the count or makes it greater
  than any length.

Assumptions: `RequestsAssumption`, `BoundsAssumption`; `Fit` in the theorem itself.

### StatusProofs

Proved for every set of errors, texts and values, every depth and every number of
failures:

- `TypeCorrect`: `TypeOK`; in particular `m_code` and `m_is_ok` agree, which
  `update()` and `ok()` rely on.
- `FirstFailureCorrect`: `FirstFailureIsReported`. The invariant describes the whole
  stack: a call knows how many failures came before it, these numbers grow with the
  depth (`Nested`), and every call reports the first failure among those since it
  began that its own steps and finished inner calls account for (`Reports`).
- `Refinement`: `ImplementsOutcome`. Under the same invariant every step maps to a step
  of `Outcome` or to none: beginning a call to `Begin`, a failing step to `Report`,
  returning, wrapped or not, to `Return`; a value, or a step without an error, is
  invisible.

Assumption: `ErrorsAssumption`.

### EnvironProofs

Proved for every set of threads, keys, values, environments and programs:

- `OrderlyIsSafeHolds`: `OrderlyIsSafe`. `ControlInv` says where a thread can be in
  which call, and `StaysQuiet` that the calls left of a round are still those of one
  thread, or all get, or all set; in such a round no access is a data race. That
  `at()` finds its key is more: what `find()` saw must still be so when the map is
  used, outside the mutex, several steps later (`LooksStayTrue`).
- `AnswersAreCurrentHolds`: `AnswersAreCurrent`, which also speaks of programs that
  are not orderly. From `SeenIsComplete`: what a thread in `get()` is about to answer
  is among the values its key has had since the call began. The proof showed that this
  is false if another thread calls `putenv()` while the maps are being made, so the
  assumption on the programs is needed.
- `AnswersAreStableHolds`: `AnswersAreStable`, from `LastIsNext`: the last answer for a
  key nobody has changed since is the one `get()` would give now.
- `ImplementsEnvMapHolds`: `ImplementsEnvMap`, under the conjunction of these,
  `EnvInvariant`. A call takes effect at the step that ends it, but `init()` at its
  `clear()`: what is left of its list is applied at once in the mapping (`Settings`), so
  that filling the map is invisible (`ApplyFirst`).

Assumption: `ConstantsAssumption`. A largest number of a finite set, which `Apply`
takes, is found by way of a well-founded order of its subsets (`LeastNumber`,
`GreatestNumber`; `LeastNumber` is stated in each module that argues from a least
counterexample, since induction itself is out of the prover's reach).

### Only model-checked

The properties under fairness: `AcceptedIsWritten` and `CallsReturn` of the logger,
`Terminates` of both pinning modules and `CallsReturn` of `Rng`, which are beyond the
prover. Every invariant, action property and refinement that a run expects to hold is
also a theorem. That `Affinity` uses `Halving`'s function where the code calls
`createVector()` rests on `ComputesDistributionCorrect`, but the two modules are not
composed.

## Not modelled

- The text of messages, priorities and timestamps (`Message.cc`): formatting.
- Destruction of the static singleton at process exit.
- The splitting and trimming of NAME=value strings, entries without a `=`, and a view
  of a value that a caller keeps and uses after calls of its own.
- Machines whose processor numbers have gaps or whose L3 caches are partly missing.
- Cache information: `updateCacheView()` makes no request, and no C function returns
  any of it.
- The bits of CPUID registers, the layout of the vendor text, lists of more than 256
  flag names (the C functions copy them into an array of that size).
- Functions of BitMap without a body, `getrandom()` and the Windows devices.
- Comparisons of Status codes, which change nothing; `registerModuleError()`, which
  is declared and never defined.
- `Thread.hh`, `DynamicLoader`, `ByteOrder`, `Named`, `Buffer`, `ObjectPool`: headers
  without a compiled implementation. How the Windows topology walks its buffer.

## Plan

What is left, in the order of what it would add: the destruction of statics at
process exit (the writer's worker against the table of priorities, `Message.cc:142`);
a bound of the steps of the core strategy's loop, from which its end would follow.
