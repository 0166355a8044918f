# A TLA+ model of sm_producer_consumer

`sm_producer_consumer` is a multi-threaded demonstration of the bounded-buffer
problem.  Five producer threads make lines of digits, five intermediate
consumers carry them on, and one final consumer writes them to a text file;
everything stops when a file `.stop` appears.  This directory models the
threads, the queues between them, the program that starts and stops them, the
log library they all call, the paths and directories a program sets up before
its threads run, and the bounded string library underneath.

## 1. The system

### Components

| Component | Code | State | Operations | In the model |
|---|---|---|---|---|
| Producer object, one per `ProducerType` | `src/src/sm_producer.cpp` | a queue, its mutex, one condition variable, the flag `m_run_thread`, a thread | `genProducerItem`, `getProducerItem`, `startAddData`, `stopAddData`, `clearData` | `Producer` |
| Intermediate consumer, one per type | `src/src/sm_consumer_mid.cpp` | its producer, the flag, a thread | `startReader`, `stopReader`, `processProducerConsumerItem` | `Pipeline` |
| Final consumer | `src/src/sm_consumer_fin.cpp` | a queue, its mutex, one condition variable, the flag, a thread, the output file | `addConsumerItem`, `getConsumerItem`, `processConsumerItem`, `startReaderProcessor`, `stopReaderProcessor`, `printQueue` | `ConsumerFin` |
| Main program | `src/src/sm_main.cpp` | where it stands | start, poll for the stop file, stop, print, free | `Startup` up to the threads, then `Pipeline` |
| Producer factory | `src/src/sm_producer_factory.cpp` | the singleton, a vector of producers | `initFactory`, `startAllProducers`, `stopAllProducers`, `freeInstance` | its walks over the producers in `Pipeline` |
| Consumer factory | `src/src/sm_consumer_factory.cpp` | the singleton, a vector of intermediate consumers, the final consumer | as above, `createConsumerFin`, `setConsumerFin` | its walks in `Pipeline`, the path of the output in `Startup` |
| Log library | `src/sm_log_lib-0.0.2.2/src/sm_log.c`, `src/src/sm_log_tool.cpp` | started or not, the file, a recursive mutex | `sm_init_log`, `sm_log_print`, `sm_log_printf`, `sm_log_stop`, `sm_log_close` | `Startup` for the opening, `SmLog` |
| Items | `src/src/sm_producer_item.cpp`, `sm_consumer_item.cpp` | shared digits | copy, assign | an item is its number |
| File and path tools | `sm_files_tools.c`, `sm_tools.cpp`, `safe_fopen.c` | the file system | `sm_make_path_abs`, `sm_create_dpath`, `sm_init_dpath`, `sm_init_fpath` | `Paths`, `Startup` |
| Exceptions | `sm_exceptions.cpp` | a code and a text | none | only their effect |
| Safe string library | `sstring_lib-0.0.1.1` | two constraint handlers; the caller's memory | `safe_memmove`, `safe_strncpy`, `safe_strtok` and some sixty more | `SafeLib`, `SafeMem`, `SafeStr`, `SafeScan`, `SafeTok`, `LibCalls` |

### How they interact

    producer t --queue of t--> intermediate t --final queue--> final consumer --> file
        ^                          ^                                ^
        +--------------------- main(): start, stop, join, free -----+

 * The producer's thread pushes with `genProducerItem`; the thread of the
   intermediate consumer of the same type pops with `getProducerItem`.  Each
   producer has two threads on one condition variable.
 * The intermediate consumers push to the final queue with `addConsumerItem`;
   the final consumer's thread pops with `getConsumerItem`.  Here all adders and
   the one reader share one condition variable.
 * `main()` sets and clears the flags `m_run_thread` without any mutex.  It
   starts producers, then intermediate consumers, then the final consumer, and
   stops and joins them in the same order.
 * Every thread writes to the log.
 * Before all that, `main()` calls `sm_init_log`, which makes the directory of the
   log and opens it, and `sm_init_fpath` for the output and for the stop file.
   The file tools cut a path into directories with `safe_strtok` and make one
   after the other.  Programs that start at the same time share the file system.
 * The string library is called from everywhere; it reports an error to a handler
   the program may set, and returns a code.

### What is hard

 * **A size that is stale when used.**  Every queue operation reads the size
   once, before it may wait, and lets that one number decide whether to wait,
   whether to take an item and whether to notify.  After the wait the number is
   wrong.
 * **Waits without a loop.**  `wait()` stands under an `if`: nothing is tested
   again afterwards, so both a spurious return and a thief change the outcome.
 * **Flags and notifications outside the mutex.**  A stop can fall between the
   test of the flag and the wait; the final consumer's stop notifies nobody.
 * **Failures inside a thread.**  An exception ends the thread function and
   leaves the flag set.
 * **Two queues in a row.**  A standstill of the second travels back to the
   first, and then to `main()`, which joins.
 * **A lock inside what it protects.**  `sm_log_close` zeroes the structure that
   holds the mutex while it owns it.
 * **Looking and then making.**  `sm_create_dpath` calls `stat` and then `mkdir`,
   and another program may have been there in between.
 * **Buffers and arrays that cut.**  Paths have `MAX_PATH` characters and
   `SM_MAX_SUBDIRS` directories; what is beyond is dropped in silence.
 * **Memory that overlaps.**  A move chooses its direction by the overlap of the
   regions and its unit by their alignment; a copy has to notice an overlap while
   it is already writing.
 * **Failures found late.**  A string function learns that the string does not fit
   after it has copied a part of it, and must not leave that part behind.
 * **State in the caller's hands.**  `safe_strtok` keeps its place and the length
   that is left in two variables of its caller.

### What makes each component correct

 * Producer: nothing lost, doubled or reordered; a pop never meets an empty
   queue; the queue keeps to its limit; a stop returns; what is made is handed
   out.
 * Final consumer: the items of each adder arrive in order and complete; the
   limit is exceeded by a known amount only; a stop returns.
 * Pipeline: each item taken is added once; each item made becomes a line;
   nothing is destroyed while a thread may use it; shutdown proceeds.
 * Log: only the owner of an open, started log writes; calls and close return.
 * Start: the path a program works with is normal, its directory is there, and
   programs that start together give the same job the same answer; the start ends.
 * String library: writes stay in `dest`; an error leaves no partial result; a move
   does what a move through a buffer does; a string is copied whole or refused;
   comparisons and searches go by the first place; tokens are the runs between
   delimiters.

`PROJECT.json` lists the hazards line by line, with the properties that watch
each of them.

## 2. The modules

| Module | What it is |
|---|---|
| `Monitor` | `notify_one` on the set of blocked threads.  A thread in the set is blocked; one that left the set returns from `wait()` once it owns the mutex. |
| `Channel` | Abstract: per type a lossless first-in first-out channel with a capacity, as two counters. |
| `Producer` | `CSMProducerBase`, its thread, the getter and the owner. |
| `ProducerProofs` | The theorems about `Producer`. |
| `ConsumerFin` | `CSMConsumerFin`, its adders, its thread and the owner. |
| `Pipeline` | The program: one instance of `Producer` for all types, one of `ConsumerFin`, the intermediate consumers and `main()`. |
| `SmLog` | The log under concurrent printing and closing. |
| `ConsumerFinProofs`, `SmLogProofs`, `PipelineProofs` | The theorems about these three; the last one imports those about the two queues. |
| `Paths` | The path algorithms of the file tools, as operators. |
| `Startup` | Programs that start on one file system, call by call. |
| `Induction` | Induction over natural numbers and sequences, in a form the provers can use. |
| `StartupProofs` | The theorems about these two. |
| `SafeLib` | What the library's functions share: limits, results, handlers, reading and writing cells. |
| `SafeMem`, `SafeStr`, `SafeScan`, `SafeTok` | Its functions: blocks of memory; copying, appending and editing; comparing, searching and classifying; tokens. |
| `LibCalls` | A program that calls them, one action per function. |
| `LibProperties` | What the caller relies on. |
| `LibProofs`, `LibCallProofs` | What the functions do, for every memory and all arguments; the theorems about the calls. |
| `MC...` | Instances for TLC: sets of model values, symmetry, scenes, file systems. |

`Pipeline` instantiates the two queue modules over its own variables and
conjoins their actions with those of the intermediate consumers and of
`main()`.  In their own modules the queues' environment is as free as it can
be, and each action of `Pipeline` takes an action of each queue module, guards
included, or leaves its variables alone; so what is checked or proved of a queue
holds in the program.  What those guards take for granted of the program is a
property of its own: `NothingDestroyedInUse` says that `main()` destroys the
queues only when no thread owns a mutex, waits or is in a call any more.

### From the code to the actions

A critical section that does not wait is one action, from lock to unlock.  One
that may wait is cut where another thread can get in:

| Action | Code |
|---|---|
| `GenEnter`, `GetEnter`, `AddEnter`, `FinEnter` | lock, `src_size = size()`, the test before `wait` |
| `GenWait`, ... | `wait()` releases the mutex and blocks: one step, but later than the test, since the owner's flag and notification need no mutex |
| `GenWake`, ... | a notified thread has the mutex again |
| `GenPush`, `GetPop`, `AddPush`, `FinPop` | the rest, up to the unlock, with the notification decided by `src_size` |
| `GenFails`, `AddFails`, `MidFails` | an exception unlocks, leaves the call and ends the thread |
| `StartAddData`, `StopFlag`, `StopNotify`, `StopJoin`, `ClearData` | each write, notification and join of the owner by itself |

A program counter per thread (`ppc`, `get`, `add`, `fpc`, `mid`, `main`, and `pc`
in `SmLog`) says where it stands; the other variables are members or locals of
the C++ objects and are commented with their names.  `excess` in `ConsumerFin`
and the bounds `MaxMade`, `MaxAdded` and `MaxCalls` have no counterpart in the
code: the first counts the items that no test of the limit held back, and the
others only keep the runs finite.  A producer that has made `MaxMade` items sleeps
in its `usleep`, but it never sleeps past a stop.

`SmLog` models the mutex as glibc keeps it (a futex word, kind, owner, depth),
because the question there is what `memset` does to it.  What
`pthread_mutex_destroy` does to a mutex that others still use is undefined; the
model lets it refuse or destroy.

In `LibCalls` the memory is a function from addresses to cells and a pointer is an
address, with 0 for `NULL`; a unit of two or four bytes is that many cells, so
that alignment and overlap are what they are in the code.  The loops of the
library are recursive functions from the number of the round to the memory, or the
first place at which a loop stops, and follow the counters and pointers of the code.  A *scene* gives the memories
a program may start with and the arguments it may pass.  Since a scene has every
memory its calls could leave behind, or one in which all cells differ, one call
from each memory stands for a longer history; `strtok` and the setting of
handlers, which do keep a state between calls, go on calling.

In `Startup` a path is the sequence of what lies between its slashes; the file
system is a set of directories and a set of files, with directories in which
nothing can be made.  A job is a call of `sm_init_log`, of `sm_init_fpath` for the
output, or of the latter for the stop file, and each `stat`, `mkdir` and `fopen`
of it is a step.  `main()` goes on without a log; without a path for the output
`createConsumerFin` throws and the start is over; for the stop file `main()` does
not look at the answer.

`m_run_thread` is a plain `bool` that several threads use, a data race by the
letter of the standard.  The model takes each read and write as atomic, as the
build for the usual machines does.  The `usleep` and the logging calls around
each read keep the compiler from caching it.

## 3. The runs

| Run | Bounds | What it shows |
|---|---|---|
| `ProducerSafe` | one producer, limit 3, 7 items, failures | `TypeOK`; `QueueBounded`: a running queue keeps to the limit and a stop lets one item more in; `ImplementsChannel`: the object is a channel of capacity limit + 1 |
| `ProducerSpurious` | limit 2, 6 items, spurious returns, failures | `QueueIsInOrder`; `PopFindsAnItem`; `StopAddDataReturns` as long as somebody calls `getProducerItem`; `DeliveredUnlessThrottled`: with a producer that never waits, the getter's wait misses nothing |
| `ProducerStandstill` | limit 2, 5 items, no failure, no spurious return | *violated*: producer and getter both wait (finding 1) |
| `ProducerStopHang` | limit 2, 5 items, no failure, no spurious return | *violated*: a getter waits for ever after the stop (finding 2) |
| `FinSafe` | three adders, limit 2, 2 items each, spurious returns, failures, symmetry | `TypeOK`; `LinesInOrder`; `OvershootBounded`: above the limit at most one item per other adder, plus `excess` |
| `FinStopHang` | two adders, limit 2, no failure, no spurious return | *violated*: `stopReaderProcessor` never returns (finding 3) |
| `PipelineSafe` | two types, limits 1, 1 item each, spurious returns, failures | `NoThreadOutlivesItsObjects`: a thread is joined before what it uses is destroyed; `NothingDestroyedInUse`: then no mutex is owned, nobody waits and no call is under way, also after failures |
| `PipelineLive` | one type, limits 1, 3 items, failures | `HandOver`; `EveryItemIsSomewhere`: from the producer to the file nothing is lost, doubled or overtaken; `LineForEveryItem` and `ProducersStopUnlessHeldUp`, each under the condition its name or comment states |
| `LogLive` | two printers, 2 calls each, a closer | `TypeOK`; `WriterOwnsTheLog`; `CloseReturns`; `CallsReturnUntilClosed` |
| `LogCloseHang` | as above | *violated*: a call asleep on the zeroed mutex never returns (finding 4) |
| `Library` | 19 scenes, see below | `TypeOK`; `WritesStayInDest`; `FailureLeavesNoPartialResult`; `MovesLikeThroughABuffer`; `StringIsCopiedOrRefused`; `FieldIsFilledOrCleared`; `PaddedStringIsCopiedOrRefused`; `ComparesByTheFirstDifference`; `SearchFindsTheFirstPlace`; `EditsKeepTheText`; `TokensAreTheRuns` |
| `Startup` | two programs with `main()`'s jobs, or one with any short path, on 6 file systems | `TypeOK`; `PathsAreNormal`; `DirectoryIsThere`: a job that ends with a path has its directory, or a `mkdir` on the way failed for a file or a closed directory in its place, an open log is a file, and a path ends in the name asked for unless it fills its buffer; `SameJobSameAnswer`; `StartupEnds` |

Every property of a passing run has a mutant in `PROJECT.json`: the definition
it names with a plausible bug, under which TLC finds that property violated.

### Findings

 1. `genProducerItem` notifies only if the size it read *before* its wait was
    zero.  The getter can drain the queue and begin to wait in between; the push
    onto the empty queue then notifies nobody, and when the queue is full again
    both sides wait.  README:11 promises that the bounded-buffer problem is
    resolved.
 2. `stopAddData` notifies once and without the mutex, so a getter on its way
    into `wait()` misses it, and `stopReader` joins it for ever.
 3. `stopReaderProcessor` notifies nobody and joins a thread that may wait for
    an item.
 4. `sm_log_close` zeroes the mutex it holds; a thread asleep on it sleeps on,
    against README:18, "Multi-thread (thread-safe) log library".  In the program
    this needs an exception that takes `main()` to `sm_close_log` with threads
    still running.

Findings 1 to 3 contradict HELP:46, "all threads will be stopped", or the first
feature of the README; none of them depends on spurious returns.

Four more disagreements need no run of their own, since a property states
exactly how far they go:

 * `addConsumerItem` waits for room under an `if`, so an adder whose room was
   taken pushes nevertheless, against the maximum of `sm_consumer_fin.h`:25.
   `OvershootBounded` says by how much, and is proved.
 * A standstill of the final queue keeps an intermediate consumer from draining
   its producer, which then misses its stop.  `ProducersStopUnlessHeldUp` has this
   as its condition.
 * The headers of the string copies say without a condition that all elements of
   `dest` behind the terminator are nulled (`safe_strcpy.c`:49-52,
   `safe_strncpy.c`:52-54, and those of `wcscpy`, `wcsncpy`, `stpcpy` and
   `wcpcpy`).  The code does that only under `SAFECLIB_STR_NULL_SLACK`, which
   nothing in the build defines and only `safe_wcsncpy.c`:56-62 mentions; as it is
   built, those cells keep their values.  The headers of the appends contradict
   themselves: "unspecified values" (`safe_strcat.c`:52-55), and "the remaining
   slack space is nulled" (`safe_strcat.c`:65-66).  `StringIsCopiedOrRefused`
   states what the build does: nothing changes behind the terminator.
 * `safe_strcpyfldin` "copies at most slen characters" (`safe_strcpyfldin.c`:48-49),
   but its loop does not look at `slen`: it copies up to the terminator or `dmax`,
   so that of a string longer than `slen` more than `slen` characters arrive.
   `safe_strcpyfldout` "copies slen characters" (`safe_strcpyfldout.c`:48) but keeps
   the last cell for its null, so with `slen` equal to `dmax` it copies one less.
   `FieldIsFilledOrCleared` states what the loops do.

Writing the library and the file tools down brought up places where the code
does something its interface would not lead one to expect.  The model does the
same, and where a property would say otherwise it names the exception:

 * `safe_stpncpy` puts a terminator at `dest` for a `NULL` source before it has
   looked at `dmax`; with `smax` 0 and `dest` equal to `src` its counter wraps
   around, the one input `LibCalls` leaves out.
 * `safe_strremovews` trims a string of nothing but blanks beyond its beginning.
 * `safe_memcmp32` puts the difference of two unsigned numbers into an `int`;
   beyond half the numbers the sign is the wrong one.
 * `safe_strpbrk` does not use `slen` for its set; `safe_strisdigit`, `safe_strismixedcase` and
   `safe_strisuppercase` read past `dmax` in search of the terminator;
   `safe_strcmp` and `safe_strcmpfld` read one character behind it;
   `safe_wmemcpy` compares a number of units with a limit in bytes.
 * `safe_strtok` leaves `*ptr` alone when it runs into the terminator before
   `*dmax` is used up, so that a `*dmax` larger than the string gives the last
   token again.  The callers in the file tools pass `strlen` and stop at 0, and so
   does `LibCalls`.
 * `sm_make_path_abs` drops what does not fit into `sub_dirs`, a `".."` too, and
   reports success; it has no answer for a path that leads to the root without a
   slash at the end (`"/."`).
 * `sm_create_dpath` ignores what `mkdir` returns.  Its branch for a name that is
   no directory (`sm_files_tools.c`:778) cannot be reached, because `stat` fails
   on a file whose name ends in a slash.
 * `sm_create_dpath` fails for a path of `MAX_PATH - 1` characters without a slash
   at the end, since it appends one (`sm_files_tools.c`:765); the last directory is
   then not made, and `sm_log_init_dpath_fname` goes on without it (`sm_log.c`:330).
 * `snprintf` cuts the name of a file that does not fit (`sm_tools.cpp`:93), and
   the slash in front of it when that does not fit either; the path is then that of
   the directory.

### Why the bounds are enough

A queue object interacts with itself only through whether the queue is empty,
full or in between, so limits of 2 and 3 show every case.  In the runs of one
queue the items exceed the limit by two at least, so the queue fills, drains
and fills again within a behaviour, which the stale sizes need in order to bite.
Producer objects share nothing, so one stands for all.  `PipelineSafe` has two
types and one item each, which fills every queue but lets only the final one
make anybody wait; the producers that wait for room are in `PipelineLive`, with
one type and three items, and two types with two items are beyond a run of a few
minutes.  Three adders are the fewest with
which a notified adder, a newcomer and a blocked adder meet; two types are the
fewest for which the order in which `main()` stops them matters.  Symmetry is
used in `FinSafe` only, which checks invariants only.

`Library` has small limits (`RSIZE_MAX_STR` and `RSIZE_MAX_MEM` 16,
`STRTOK_DELIM_MAX_LEN` 2, numbers of four bits in `memcmp32`), so that sizes below,
at and beyond each of them are among the arguments.  The memories are chosen by
what the functions look at:

 * for moves, copies and fills of memory, cells that all differ, with every
   alignment of the two regions to a word, every overlap, and lengths from none
   to more than two words;
 * for string copies, every way to have terminators in eight cells, with each
   letter different, so that it shows which cell was copied from where;
 * for comparisons, searches, edits and classifications, every string over a few
   characters that stand for the classes the function tells apart, up to seven
   cells, and separate smaller scenes with `NULL`, zero and excessive arguments;
 * for tokens, every text of up to five characters over two delimiters and a
   letter, with no delimiter, with one, two, and one too many.

The functions work cell by cell and compare neighbours only, apart from the
words of a move, of which there are more than two; a longer string adds rounds
of the same loop and no new case.

`Startup` has a `MAX_PATH` of 12 and room for four directories, and every path of
up to four elements of nothing, `"."`, `".."` and a name, with and without the
marker of the program's directory, besides some that are too long; so paths that
climb above the root, end in a slash or overflow either limit are among them.
`Elements` is the alphabet of the names that occur.  Among the file systems are one
with a file in the way, one with a closed directory, a current directory deeper
than `SM_MAX_SUBDIRS` and one with a name so long that the path of a file in it does not
fit into `MAX_PATH`: a log that is given no directory has its file name alone as
its path (`sm_log.c`:343) and is opened in the current directory, however deep.
Paths of ten and eleven characters, where eleven are the most, with and without a
slash at the end, reach the places where the slash or the file name is cut.
`PathsAreNormal` asks a path to stay the same under a second `sm_make_path_abs` only where the code
does make it absolute a second time, which is in `sm_create_dpath` and before.
`StartsAssumption` says what `Starts` may be: the current directory exists and is
absolute, the file system is a tree, and a job has a path that is not a null
string.
Two programs are the fewest that can race, and their jobs overlap: the same
directories, one within the other, or a log whose file name is a directory of
the data.

`CHECK_DEADLOCK FALSE` stands in every cfg because threads end, a start and the
calls of a scene come to an end, and, as the findings show, threads may stop for
good; the properties say where they must not.

### Fairness

The fair specifications ask only for what a scheduler gives: a thread inside a
call that can step does step (weak fairness), and one that competes again and
again for a mutex gets it once (strong fairness for the lock and wake-up steps;
a thread that competes with others for a mutex is otherwise enabled and disabled
for ever).  In `Producer` the getter keeps calling, since the intermediate
consumer's loop does; in `Pipeline` that loop is modelled and nothing is assumed
of it.  Nobody is obliged to add an item, to start or stop an object, to create
the stop file, to print or to close, and no failure and no spurious return is
fair.  In `Startup` every program that can take a step takes one: it runs by itself
and none of its calls waits for another program.  `LibCalls` asks for nothing.

## 4. What is proved

`ProducerProofs` proves for all `Types`, `QueueMax`, `MaxMade` and `Failures`,
from `ProducerAssumption` (a positive limit, a natural number of items, Booleans):

| Theorem | States |
|---|---|
| `TypeCorrect` | `Spec => []TypeOK` |
| `FirstInFirstOut` | `Spec => []QueueIsInOrder` |
| `PopIsSafe` | `Spec => []PopFindsAnItem` |
| `Bounded` | `~Spurious => (Spec => []QueueBounded)` |
| `Refinement` | `~Spurious => (Spec => ImplementsChannel)` |

The first three hold with spurious returns too.  None of the properties is
inductive as it stands.  `Inv` adds, per producer object:

 * `Locks`: the mutex is owned exactly by the thread whose counter stands in a
   critical section, so a step of one thread leaves what the other one read in
   its section alone;
 * `Waits`: only blocked threads are in the condition variable's set;
 * `Life`: how flag, stop and thread go together, so that after the destructor
   nobody is in a call;
 * `Order`: the queue is the interval from the last item taken to the last one
   made, and a getter about to pop finds the items it counted, because
   producers only add in the meantime.

For the bound, `Room` is added.  It says how long the queue may be at each place
of the producer's loop, and needs that a producer that left the condition
variable was notified: by a getter, which has made room, or by a stop, which
clears the flag.  A spurious return breaks exactly this, and the code does not
test again, hence the premise `~Spurious`.  `InvStep` and `RoomStep` go through
the actions one by one; `ChannelStep` shows that under `Inv` and `Room` every
step sends one item, takes one item or stutters.

`ConsumerFinProofs` proves for all `Mids`, `FinMax`, `MaxAdded`, `Failures` and
`Spurious`, from `ConsumerFinAssumption` (a finite set of intermediate consumers,
a positive limit):

| Theorem | States |
|---|---|
| `TypeCorrect` | `Spec => []TypeOK` |
| `InOrder` | `Spec => []LinesInOrder` |
| `Overshoot` | `Spec => []OvershootBounded` |

Its `Inv` adds to the types: `Locks` and `Waits`, as above; `Sizes` (an adder waits only at a
full queue, one that counted no item finds none when it pushes, the items the
reader counted are still there when it pops); and `Life`.  `LinesInOrder` is
inductive on top of `Inv`; it speaks of the rank of an item among those of its
adder in the queue, so the proof rests on two lemmas on how a push and a pop
change that count (`CountPush`, `CountPop`).  `OvershootBounded` is inductive on
top of `Inv` too: its steps count the adders that are committed to push, and one
adder more or less counts one (`Adders`).

`SmLogProofs` proves for all `Printers` and `MaxCalls`, from `SmLogAssumption`:

| Theorem | States |
|---|---|
| `TypeCorrect` | `Spec => []TypeOK` |
| `OneWriter` | `Spec => []WriterOwnsTheLog` |

`TypeOK` alone is not inductive, since it bounds the depth of the lock by two.
`Inv` adds `Phase` (how far the closer got tells whether the log is started, its
file open and its mutex the one `sm_init_log` made), `Owning` (as long as it is
that one, its owner is the one thread between a lock and its unlock, and the depth
is the number of calls that thread is in) and `Calling` (a call that writes has
found the log started).

`PipelineProofs` proves for all `Types` and limits, from `PipelineAssumption`,
which is the conjunction of the assumptions of the two queues:

| Theorem | States |
|---|---|
| `NoneOutlives` | `Spec => []NoThreadOutlivesItsObjects` |
| `NothingInUse` | `Spec => []NothingDestroyedInUse` |
| `HandsOver` | `Spec => []HandOver` |
| `NothingLost` | `Spec => []EveryItemIsSomewhere` |

Each of the program's actions takes an action of `Producer` and of `ConsumerFin`, or
leaves their variables alone (`ProducerStepOrStutter`, `FinStepOrStutter`), so the
invariants of the two queues, proved for an environment that does anything, hold in
the program.  `NoneOutlives` adds `Joined`: `main()` is past a
join only when the thread has ended.  `HandsOver` adds `Hands`, what each
intermediate consumer carries at each place of its loop, and uses the producers'
invariant for the fact that the next item is one more than the last.
`NothingInUse` puts four invariants together: `Joined` says that the threads have
ended, `Hands` that one that has ended left the calls it was in, an exception or not,
and the queues' `Locks` and `Waits` that a mutex has an owner, and a wait set
somebody in it, only while a thread is inside such a call.
`NothingLost` is composed: the producer's queue is the interval between the items
made and taken, `HandOver` leads from there to the items added, and
`LinesInOrder` from these to the items in the final queue or out of it.

`StartupProofs` first proves about the operators of `Paths`, from `PathsAssumption` (the
limits are positive, two directories are kept at least, and nothing, `"."`, `".."`
and the marker are four different elements):

| Theorem | States |
|---|---|
| `MadePathIsNormal` | a path `sm_make_path_abs` makes is absolute, holds no empty name, no `"."` and no `".."`, fits, and has no more directories than the array; its directories are its own names |
| `NormalPathStays` | `sm_make_path_abs` leaves such a path as it is, wherever the program is |

Both rest on what the loop over the tokens computes for paths of every length:
`DirsAfterDef` and `LengthsDef` say that the two recursive functions are what
their definitions describe, `SubdirsAppend` and `PathLengthAppend` how they grow
with one element, and `SubdirsLength` that the directories found are never longer
than the path.  `Induction` supplies the principle: the library's induction theorems
take a predicate, which none of the provers can instantiate, but from the
well-foundedness of the natural numbers (`LeastMember`) follows induction over a
*set* of numbers or of sequences, which is a value.

Then it proves for all `Programs`, all `Starts` and all limits, from
`PathsAssumption` and `StartsAssumption`:

| Theorem | States |
|---|---|
| `StartupInvariant` | `Spec => []Inv` |
| `StartupTypeOK` | `Spec => []TypeOK` |
| `StartupPathsAreNormal` | `Spec => []PathsAreNormal` |
| `StartupDirectoryIsThere` | `Spec => []DirectoryIsThere` |
| `StartupSameJobSameAnswer` | `Spec => []SameJobSameAnswer` |

None of the last three is inductive.  A program that looks at a directory again
finds a file system others have changed, so `Inv` speaks only of what does not go
away once it is true, however the others go on:

 * `Settled`: a directory is there, or `Blocked`, which means that it or one on its
   way is missing and cannot be made any more, since a file has its name or the
   directory above is closed.  Files and directories only appear, and what is
   blocked never appears (`BlockedStays`), so a settled directory stays settled
   (`SettledStays`), and one `mkdir` settles one more, whether it succeeds or not
   (`MkdirSettles`).  A program that made `done` steps has settled that many
   (`MakingAt`, `WorkAt`), which is why nobody needs to look at what `mkdir` returns.
 * `Reach`: how many of its directories `sm_create_dpath` gets to: all of them, or all
   but the last when there is no room for a slash behind it (`RoomOnTheWay`).  The
   file of a job lies in the last directory within reach, since a path with no room
   for that slash has none for a file name either, and is cut to the directory itself
   (`FileFacts`); its name is the one asked for, or the buffer is full.
 * `Enough`: a job other than the log ends with a path exactly when there is room for
   the last slash, or the last directory is there already.  That one is within nobody's
   reach, so it is not made in the meantime (`EnoughStays`), and the answer stays what
   it was.
 * `Refused`: a log that could not be opened can never be opened.  With it and `Enough`
   an answer is determined by the job (`Answered`): of two programs with the same log
   one cannot succeed after the other has failed, nor fail after the other has
   succeeded.  This is `SameJobSameAnswer`.
 * `SystemInv`: the file system stays a tree, so that where a directory is there the
   ones above it are too (`TreeHoldsPrefixes`), and a blocked one is not there
   (`BlockedIsNotThere`), which turns `Settled` into `DirectoryIsThere`.
 * `MadePath`: what `MadePathIsNormal` says of the path a program works with, so
   that `sm_create_dpath`, which makes it absolute again, makes these directories
   and no others.

`StepInv` has one lemma per action.  What a step does to the other programs is one
lemma for all actions (`Others`), since they see nothing of it but a file system
that has grown.  TLC finds the invariant to hold on the file
systems of the run `Startup`.

`LibProofs` proves what the functions of the library do, for every memory and all
arguments, from `SafeLibAssumption`:

| Theorem | States |
|---|---|
| `MoveIsCopy` | `safe_mem_prim_move` leaves what a move through a buffer leaves |
| `SetIsFill` | `safe_mem_prim_set` sets what it is given and nothing else |

A loop that copies unit by unit is a copy of the block (`CopyUpIsCopy`,
`CopyDownIsCopy`), by induction over its rounds: two neighbouring copies are one,
upwards when the destination does not begin within the source (`CopyBehind`), and
downwards when it does not lie below it (`CopyBefore`), and these are the conditions
by which the code chooses the direction.  The primitive's bytes, words and bytes
are three such loops whose lengths add up (`Quarters`, `UpInThreeParts`,
`DownInThreeParts`).  `TransferOutcome` adds the checks of the arguments, which run
first.  The loops over strings have three ways out each: the terminator, the
cell the other string begins at, and the end of `dmax` or `slen`.  `LoopStops` says
at which round each of them is taken, `LoopResult` what has been done until then, by
one more induction, and whether the strings overlap is then a matter of arithmetic
(`Clear`, `Apart`).  The two edits move a text down over its own old place and
blank that, so their induction follows three pointers at once (`Shifted`, `TextIs`).

`LibCallProofs` proves about the calls of a program, for all `Scenes` and limits, from
`SafeLibAssumption` and `ScenesAssumption`.  The second says what C leaves to the
caller, and TLC evaluates it for the scenes of the run: a block, a field or a string
named by the arguments lies in the memory as far as its length goes, the memory goes
on behind a string, there is a character in front of one that is edited, blocks that are
compared hold numbers of at most 32 bits, and a text to be cut is as long as it is said
to be.

| Theorem | States |
|---|---|
| `LibraryInvariant` | `Spec => []LibInv` |
| `LibraryTypeCorrect` | `Spec => []TypeOK` |
| `LibraryMovesThroughABuffer` | `Spec => MovesLikeThroughABuffer` |
| `LibraryWritesStayInDest` | `Spec => WritesStayInDest` |
| `LibraryFailureLeavesNothing` | `Spec => FailureLeavesNoPartialResult` |
| `LibraryCopiesStrings` | `Spec => StringIsCopiedOrRefused` |
| `LibraryFillsFields` | `Spec => FieldIsFilledOrCleared` |
| `LibraryPadsStrings` | `Spec => PaddedStringIsCopiedOrRefused` |
| `LibraryKeepsTheText` | `Spec => EditsKeepTheText` |
| `LibraryComparesFirst` | `Spec => ComparesByTheFirstDifference` |
| `LibraryFindsFirst` | `Spec => SearchFindsTheFirstPlace` |
| `LibraryCutsRuns` | `Spec => []TokensAreTheRuns` |

The inductive invariant `LibInv` carries `ScenesAssumption` from the first memories of
a scene to the ones that calls leave behind: `UnitsFit` and `ArgumentsFit` speak of the
arguments, which no call changes, `HandlersFit` of the handlers, and `InMemory` says
for the memory's size that the blocks (`Blocks`) and strings (`Room`) still lie in it,
that the character in front of a string that is edited is still none of the blanks
(`Floor`), that blocks to be compared lie in it and hold such numbers (`Comparable`), and, of a text being cut, `Cutting`: what is left of it goes from `ptr` to the
null behind it, over exactly the `dmax` cells that are counted (`Rest`).  `TypeOK` is not
inductive without the last one, since `strtok` goes by the counter alone.
`CallMade` gives for each function the lemma that says what it did, `Left` keeps of it
what the memory before and the result tell, and every property is then proved from
`Left` by the kind of function.  `LibInv` names a memory by its size, which TLC cannot
enumerate, so TLC has not seen it, nor `TokInv` below, which is built on it; what
`LibInv` adds to `TypeOK` is `ScenesAssumption` for the memory of a later moment, and
what `TokInv` says shows in `TokensAreTheRuns`, which TLC checks.

For the comparisons and searches, `ComparedUpTo` and `FoundAt` say the two properties
for one call.  A loop that looks at two strings at once stops at a terminator, a
difference or the end of `dmax`, and `StringsCompared` shows that the first difference
is never behind the place where the shorter string ends, where the loop has stopped.
What `safe_memcmp32` returns has wrapped, and `WrappedSign` says when the sign survives
that: always, except for the differences the property excludes, for which only "not
equal" is right.  The loops of `safe_strstr` and `safe_strcasestr` look at more places
than those where the string still fits, and `StringFound` says that this finds no
others.  The set of `safe_strpbrk` goes on behind
`slen` when the string does, hence the premise `terminated` of that property.

`TokensAreTheRuns` takes an invariant of its own, since `LibInv` only says that the
cutting stays within the text.  `TokInv` says what has been cut: `TextFit` that the
program still has the text as it was, and that the delimiters lie behind it, so that no
null written into the text changes them (`DelimitersStay`); `CutSoFar` that the tokens
are the runs that begin in front of the place the next call goes on from
(`TokensTaken`), that this place follows a delimiter or is the first, and that the text
from there on is as it was (`Begun`).  A call (`TokenIs`) passes over delimiters, among
which no run begins (`NoMoreTaken`), and takes the characters up to the next one, which
are the next run (`OneMoreTaken`).  The two loops compare a character with
`STRTOK_DELIM_MAX_LEN` delimiters at most, and one that matches an early delimiter never
meets a missing null behind them.  That does no harm, because the first character of a
token is compared with all of them (`KindIs`): once a token is found, the list is known to
end in time.  Without delimiters the first loop passes over the whole text, so that the
program gets no token; the property says so.

`StringIsCopiedOrRefused` speaks of sizes whose *bytes* are within `RSIZE_MAX_STR`: the
wide functions multiply by the size of a `wchar_t` before they compare, and a size
they refuse for that is none the property is about.

Only model-checked: liveness under fairness, which is out of the prover's reach
(`StopAddDataReturns`, `DeliveredUnlessThrottled`, `LineForEveryItem`,
`ProducersStopUnlessHeldUp`, `CallsReturnUntilClosed`, `CloseReturns`,
`StartupEnds`).  Every invariant and action property of the passing runs is proved.

## 5. What is not modelled, and why

 * The content of items, the digits and the layout of a line: no step of a queue
   depends on it.
 * The order of the types in the factories' vectors: left open, which includes
   the one in the code.
 * A second start after a stop: the program never does it.
 * `main()`'s exception path, but for its effect on the log, which `SmLog`'s closer
   has at any moment, and the exit of the process.
 * The factories' singletons and registries.  `main()` alone creates them before
   any thread runs and frees them after the last one ended, so what the code
   leaves open does not come up: the double-checked locking on a plain pointer,
   `freeInstance`, which leaves `m_instance` set, a destructor that unlocks a mutex
   it did not lock (`sm_consumer_factory.cpp`:57), `addProducer`, which wraps its
   argument before it looks for a duplicate, and `setConsumerFin`, which would
   delete twice and is never called.
 * The number of integers in a line (`sm_producer.cpp`:99): `rand()` modulo one more
   than the maximum, with zero taken for that one more.  It decides how long an
   item is and nothing else.
 * The read of the queue's size after the unlock in `addConsumerItem`: the step
   is there (`AddLog`), the value only goes to the log.
 * An output file that does not open, and a write to it that fails
   (`sm_consumer_fin.cpp`:28 and :81): the code never looks at the state of the stream
   and throws nothing, so no thread does anything else; the lines are lost in
   silence, and `written` stands for the lines handed to the stream.
 * The log's level filter and formatting; `sm_log_init_fpath`, which the program
   does not call (it clears the mutex it holds and unlocks it twice).
 * File names of more than one character in `Startup`: `snprintf` cuts such a name
   somewhere within, and the model's to nothing.  A directory may have any name.
 * In the file tools: the branches for Windows, a backslash as a delimiter,
   failures of `getcwd` and `readlink`, `sm_get_temp_dpath`, which is not called,
   and `sm_print_curr_dtime`, which only writes to the log.
 * In the string library: results returned through a `NULL` pointer, characters
   below zero, `SAFECLIB_STR_NULL_SLACK`, which the build does not define, the
   snprintf support, which looks at formats only, `safe_gets`, which reads the
   standard input, and the handler that aborts.
 * The texts of exceptions.

## 6. Done, and left

The order was that of importance: `Monitor`, `Channel` and `Producer` with its
proofs; `ConsumerFin`; `Pipeline`, which is made of the two; `SmLog`; then the
proofs about these three; then the start of a program and the library below; then
the proofs about the start, about blocks of memory, about strings, and about the calls
of the library.

What is left:

 1. `main()`'s exception path in `Pipeline`, composed with `SmLog`, so that finding
    4 shows in the whole program.
 2. The factories, if the program ever uses them from more than one thread, and
    the arithmetic of an item's length.
