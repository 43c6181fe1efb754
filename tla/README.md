# libcu in TLA+

libcu is a C library for CUDA device code: stdio, stdlib, dirent, a small
in-memory file system, a chunk allocator, and a *sentinel*, a message bus over
which device threads (and helper processes) ask the host to run a C library
call for them.  This directory models the parts of it that share state between
threads or live long enough to get into a bad state, checks them with TLC, and
proves the central facts with TLAPS.

All paths below are relative to `src/src/`.

## The system

| component | source | state | operations |
|---|---|---|---|
| sentinel message bus | `libcu/sentinel-gpu.cu`, `sentinel-host.cpp`, `sentinel.cpp`, `include/sentinel.h` | the shared map: `SetId`, `GetId`, one `sentinelCommand` per place; thread handles | `sentinelDeviceSend`, `sentinelClientSend`, the two service threads, server initialize and shutdown |
| executor registry | `libcu/sentinel.cpp:214-256` | two linked lists of executors | find, register, unregister, dispatch |
| handle pools | `libcu/crtdefscu.cu`, `stdiocu.cu`, `fsystem.cu` | for each pool an array of objects, a ring of references, two ever-growing pointers | `__hostptrGet/Free`, `streamGet/Free`, `fileGet/Free`, `freopen_` |
| falloc chunk heap | `libcu.falloc/falloc.cu:18-172` | ring of chunk references, chunk headers | create, get chunk, free chunk |
| falloc contexts | `libcu.falloc/falloc.cu:256-365` | chain of nodes (chunks) with an offset each | create, alloc, push, retract (pop), mark, dispose |
| in-memory file system | `libcu/fsystem.cu`, `direntcu.cu`, `unistdcu.cu`, `fcntlcu.cu` | tree of entities, hash table of paths, working directory | mkdir, open, close, unlink, rename, chdir, opendir/readdir |
| memory files | `libcu/ext/memfile.cu` | list of chunks, end point, read point | open, read, write, truncate, close |
| hash table | `libcu/ext/hash.cu` | one list threaded through buckets | insert/replace/remove, find, clear |
| bit vectors | `libcu.ext/bitvec.cu` | bitmap, hash or sub-vectors | set, get, clear |
| runtime initialisation | `libcu.ext/main.cu` | flags and `initMutex` with its reference count, over the mutex methods and the static mutexes | initialize, shutdown, config |
| allocator layer | `libcu.ext/alloc.cu`, `status.cu` | soft limit, scratch list, lookaside slots, counters | alloc/free families, status |
| mutex backends | `libcu.ext/mutex*.c*` | owner and count | enter, try, leave |
| C library functions | `stringcu.cu`, `stdlibcu.cu`, `regexcu.cu`, ... | none | pure functions |
| file utilities | `libcu.fileutils` | none | one waiting message each |
| Tcl interpreters, SQLite | `libcu.jimtcl`, `libcu.tinytcl`, `libcu.sqlite`, ... | third party | not ours to specify |

How they interact: a device-side `fopen_`, `fread_`, ... whose path or handle
belongs to the host builds a message on its stack and sends it through the
bus; the service thread hands it to the executors, which call the host's C
library and write the result into the message in place.  Handles of host
objects on the device come from the host-pointer pool.  Paths that begin with
`:` stay on the device: the in-memory file system, whose descriptors and
streams come from the file and stream pools.  `falloc` is independent of the
rest.

What is hard about it: nothing but atomic additions and a `Status` word orders
the threads of a kernel, several kernels, client processes and the service
thread; the default map has a single command; the server may start late, stop
early or exit in the middle of a message; rings are indexed by counters that lap
them; and handles, entities and chunks are reused.  `PROJECT.json` lists these
hazards one by one, at their lines.

What makes each component correct: a waiting send is a remote procedure call,
executed exactly once before it returns its own reply; every message
reaches the host; a pool never hands out an object in use and never loses one;
the kernel is stopped for nothing but misuse of the heap; in a context, pops
reverse pushes and allocations never overlap; the path table and the
directories of the file system agree, and no entity is lost; a hash table is a
map, a memory file a sequence of bytes, a bit vector a set of numbers, through
every change of their representation; the library is brought up once, and its
mutexes are there as long as they are used; the counters of the allocator tell
what is allocated, and a failed allocation is undone exactly; an executor that
stays registered is asked about every message nobody else takes.

## Modules

### Sentinel, RemoteCall, SentinelProofs, MCSentinel

`Sentinel` is one map with its senders and its service thread.  `DeviceBus`
chooses the device map (senders are threads of kernels launched after
`sentinelServerInitialize`) or the host map (senders are client processes).

| model | code |
|---|---|
| `setId`, `getId` | `sentinelMap.SetId`, `GetId`, counted in commands (`SENTINEL_MSGSIZE` bytes); wrap at `Ids` |
| `status[k]`, `data[k]` | `Status`, `Data` of the command at place `k`; `NoMsg` is a command without the magic number |
| `Reserve`, `Fill`/`TooLong`, `Publish`, `SeeReply`, `CopyBack`, `Release` | the body of `sentinelDeviceSend` and `sentinelClientSend`, one action per access to shared memory |
| `Poll`, `Claim`/`ClaimFails`, `Recheck`/`RecheckUnclaimed`, `BadMagic`, `Run`/`RunExits`, `ReadWait`, `StoreStatus`, `Advance` | the loop of `sentinelDeviceThread` and `sentinelHostThread`; `*status = msg->Wait ? 4 : 0` is a read and a write; the handle is read in the spin and again behind it |
| `StartThread`, `StoreHandle`, `CloseHandle`, `Unmap`, `Fault` | start-up, where the thread can look at its handle before, after or around the moment in which it is stored, and shutdown, which does not join the thread |

A message is its sender, number, `Wait` flag, what it may run into (`kind`) and
whether it has been executed (`done`).  `ran` and `astray` are history variables.
The executor list is abstracted to "the message is executed in place".
An unprepared message (a `hostPrepare` that finds no room) and `STDLIB_EXIT`
end the server process, and so does a command without the magic number
(`BadMagic`).  The walk over the executors, one step
here (`Run`), is the subject of `Executors`.

`RemoteCall` is what a caller takes a waiting send for: call, execute once,
return, or vanish.  `ImplementsRemoteCall` is the refinement.

The spin (`sentinel.cpp:76`) ends when the handle is NULL, and line 77 reads the handle
again.  If `StoreHandle` comes in between, the thread goes on with a command
it has not claimed: it exits for bad magic (`SentinelStart`), or executes what a sender has
filled and not published, answers a command that is free, and may execute the message once more
when it is published.  `astray` says that this has happened.  The safety properties hold up to
that moment, `RemoteCall` promises nothing after it (`broken`), and they fail without that
condition.

Under `Serialized` no two sends overlap.  That is how the samples use the bus
(`libcu/_content/sample.libcu.cu:25` returns in every thread but the first),
and it is the assumption the single command of the default map needs.
Without it, and with asynchronous messages, the bus does not keep its promises,
see *Findings*.

### Pool, HandlePool, RingArithmetic, HandlePoolProofs, MCFiles

`HandlePool` is the ring shared by the three copies of the same code: `freePtr`
and `retnPtr` count gets and frees (the code adds the size of a reference and
subtracts the base; 64 bits do not wrap), `refs` is the ring, and a reference
that was never written stands for the object of its own index.  A get is
`GetReserve` (atomicAdd) followed by `GetRef` or by `GetNull` and `GetFresh`; a
free is `FreeReserve` and `FreePut`.  `ByPlace` selects `fileGet`, whose
descriptor is the place and not the object; `IInv` fails for it.
`Pool` is the abstract specification: an object is handed out only when nobody
holds it.

### FallocHeap, OwnedPool, FallocHeapProofs, MCAllocators

`FallocHeap` is the same idea with a ring filled in advance, emptied by gets and refilled by
frees, a mark in every chunk header, and pointers of which only the low
32-bit word moves (`Word`, `Wide`, `Base` keep the arithmetic of
`falloc.cu:152-153`).  `halted` is a kernel stopped by `__THROW` or by the
write through a null reference.
`user` says who has got each chunk last, `stale` that somebody has freed the chunk of another
one: after a free and a get by another thread the magic number is there again, and a second
free of the first thread passes the test of line 165 and takes the chunk from its new user.
`OwnedPool` is what the heap promises: a chunk with an owner, in no other hands until its owner gives
it back.  It promises nothing after such a free (`broken`); `HaltsOnMisuse` and
`CompletelyUsed` go on, since the ring is not harmed.  The repository uses `__THROW` without defining
it for the device; it is taken as the trap it is meant to be.

### FallocContext, FallocContextProofs, MCAllocators

One context.  Nodes are numbered as they are added, so `next` of a node is the
number before it and only `nextAvailable` (`next`), `availableNodes` (`avail`)
and the offsets are state.  `Path` is the search loop of `falloc`, which follows
`nextAvailable` for an allocation and `next` for a push; `Place` is its tail
with the closing of a full node.  `Pop` is `fallocRetract` with its search for
the node before the current one, which starts at the wrong end: `PopNode` says where
that leads.  Offsets are compared as the code does, an `int` with a `sizeof`: a negative
one is larger than any size (`Below`).  So a pop of an object larger than a node header does not
leave an emptied node (`Emptied`), and an object larger than the context is popped off an empty
stack (`Refused`).  `Undoable` is how many objects of its type a stack may have before
`fallocRetract` cannot undo them: what two nodes hold, or one if the type is larger than a node header.
`Deep` lifts that bound and lets a pop of such a type come to an empty stack.  A context is used in one of two ways from its creation on, to
allocate or as the stack of one type (`fallocPush<T>`); a push after an
allocation would let a pop take the allocation, in the code as in any such stack.
That a chunk it gets is its own is what `FallocHeap` shows.

### FileSystem, FileTree, FileProofs, MCFiles

`FileTree` is the promise: a map from paths to `"dir"` or `"file"` whose
directories exist before what is in them, and the answer of each call.
`FileSystem` is the code: entities that are allocated and freed, the list of
each directory, and the path table, whose keys are *the blocks of memory the
paths are stored in*; freeing an entity leaves its element, its key and the
text in that key behind.

| model | code |
|---|---|
| `kind`, `list`, `tail`, `key` | a `dirEnt_t`: `d_type`, `u.list` with its `next` chain as a sequence, what the chain ends in (nobody clears `u.list` of a new directory), `path` |
| `index`, `text` | the elements of `__iob_dir`, by their key; the characters in that memory |
| `Mkdir`, `Open`, `Close`, `Transfer`, `Unlink`, `Reset`, `Chdir`, `Rename` | `fsystemMkdir`, ..., the checks of `fread_` and `fwrite_` |
| `Opendir`, `ReaddirFake`, `ReaddirEntity`, `Rewinddir`, `Closedir` | `direntcu.cu`; `list` and `listIdx` of the stream are pointers to entities |
| `Removed`, `Confused`, `Fail` | the code is about to use a pointer without meaning: to a freed entity, to the memory file of a file taken for a directory, or one nobody has written |

A freed entity's address becomes `Dangling` wherever it is kept, so the model
knows a pointer to a freed entity even when the block is in use again.  What
the program does after it has used one is not modelled: the behaviour ends.
Which free block `malloc` returns is open, except that paths and entities come
from different ones.  Paths are sequences of names; the initial `__cwd`, `":\\"`,
is `<<NoName>>`, so that a relative path has a double separator until the first
`chdir`, and is not found, as in the code.

### HashTable, Map, RegistryProofs, MCContainers

`HashTable` is all of `hash.cu`: one doubly-linked list of elements (`elem`, by
block), a table of buckets that are stretches of it, `insertElement`, `rehash`
and `removeElementGivenHash` as functions on the whole table, and `found` for
the answer, `"assert"` when an assertion fails.  `code`, the hash function, is
any function from keys to `Codes`.  A key is a name in any mix of cases.  The
sizes at which the table grows are constants (10, 2 and 2 in the code).
`FileSystem` keeps its own simpler table, because there the keys are the
memory the paths lie in, and fewer than ten elements never get buckets.

### Memfile, ByteFile, FileProofs, MCContainers

`Memfile` is `memfile.cu`: `file` is the `memfile_t`, `chunk` the allocated
chunks.  `memfileRead` walks from the first chunk or from the read point;
`memfileWrite` may stop before a chunk that gets no memory; `Written` is its loop,
one byte after the other.  `MemfileSizes` asks for enough blocks for a file of
`MaxSize` bytes: that malloc has none left is a write that stops early.  Callers keep to
the assertions.  `ByteFile` promises that a read, when it answers, returns the appended bytes at its offset,
and says which read may fault instead: one that goes on from a point (`edge`) at which
an earlier one came to the end of the last chunk.  That read does fault: `memfile.cu:64` remembers
the null chunk behind the last one.

### Bitvec, BitSet, MemoryProofs, MCContainers

`Bitvec` is `bitvec.cu` with its constants as `CONSTANTS`: a record with the three
representations side by side (in the code they share memory).  What the code does in a
loop down the sub-vectors, or by calling itself, is a recursive *function of the size
of the vector*, as sub-vectors are smaller: `SetBit[n]`, `ClearBit[n]` and `GetBit[n]` are
what happens to a vector for `n` numbers, and `SetNode`, `ClearNode` and `GetNode` the
cases of its representation.  `SetBit` returns the set of vectors that setting a number
may leave when any allocation on the way may fail.  `BitSet` is a set that loses numbers
only when memory is scarce.

### RuntimeInit, OnceInit, RegistryProofs

`RuntimeInit` follows `runtimeInitialize` from its unlocked test of `isInit`
through `mutexInitialize` (the methods, whose `alloc` is written last), the
election of the thread that sets up the static mutexes (`mutex-win.cpp`), the
master mutex and `initMutex` to the clean-up.  `pc` is the place in the code;
every unlocked access is a step of its own; `owner` holds the mutexes that exist.
A shutdown comes only when no call is under way, as `main.cu:217-218` asks.
It stops the methods as `MutexShutdown` does (`mutex-win.cpp:107`); the table of methods
(`mutex-win.cpp:302`) spells its name like the wrapper of `mutex.cu:41`, which is taken for a slip.
`OnceInit` is what a caller is promised.

### Executors, RegistryProofs, MCStartup

One list, one thread that registers and unregisters (as the program that starts
the sentinel does) and the service thread that walks it.  Each write to a link
is a step.  A walk would also end at an executor without a function (`sentinel.cpp:86`); those the
repository registers all have one.  `known`, `stayed` and `asked` are history variables for `NoneSkipped`.
`MCStartup` puts `RuntimeInit` and `Executors` side by side, one of them in each
behaviour.

### Allocator, Lookaside, MemoryProofs, MCAllocators

`Allocator` is what several threads do to `mem0` and the counters of `status.cu`:
what runs under the mutex is one step, and `job` says what a thread does once it
has the mutex again (after `allocAlarm`, or in the middle of `scratchAlloc`).
Counters are modulo `LongWord`.  `Lookaside` is one tag: its slots, and the
out-of-memory state (`mallocFailed`, `disable`, nesting).  The users of a tag
are not in the repository; what they may do is marked external.

`MCAllocators`, `MCFiles` and `MCContainers` put modules side by side like `MCStartup`, one of them in each
behaviour, so that one run explores all of them.  `NullPointer` and `CallingThreads` declare the
constants that modules put side by side share.

## Runs

| run | expects | what it asks |
|---|---|---|
| `SentinelClients` | pass | two clients, one command, three waiting sends each (`Ids` 4, so ids wrap), too-long messages, late start, shutdown under waiting clients |
| `SentinelRoomyRing` | pass | two device threads, overlapping and asynchronous sends, messages that end the server, and a command for each message in flight |
| `SentinelClose` | violation of `CloseExecuted` | an asynchronous message, then a waiting one |
| `SentinelStart` | violation of `MagicIsGood` | one client, and a server that stores the handle of its thread between the thread's two looks at it |
| `Allocators` | pass | *heap*: two threads, 3 chunks, counters that wrap at 12, requests for a fourth chunk, frees of chunks that nobody or another one holds |
| | | *context*: one context, at most five nodes and ten objects; allocations of 1, 2 and 4 units, or a stack of one of these sizes as deep as `fallocRetract` can undo: two nodes for 1 and 2 units, up and down over their boundary, one node for 4 units, which is more than a node header |
| | | *allocator, tag*: two threads, two blocks, two scratch buffers, a soft limit on and off; one tag with two slots |
| `HeapWraps` | violation of `NonWrapped` | 3 chunks, counters that wrap at 8, one get and free after the other |
| `ContextRetract` | violation of `RetractsToPrevious` | a stack of objects of 4 units, in two nodes |
| `Files` | pass | *files*: three entities, two names, paths two deep, any sequence of calls by one thread, with one handle or directory stream open |
| | | *handles*: two threads, 3 objects, 7 gets (more than two laps), at most 3 handles held |
| `FileRemoved` | violation of `NoUseAfterRemove` | a removed name is used again |
| `Containers` | pass | a hash table of three keys with any codes, growing from one to three buckets; a memory file of five bytes in chunks of two; a bit vector of 7 in hashes of 4 and bitmaps of 3; all with allocations that fail |
| `BitvecGet` | violation of `GetTellsBit` | a number is set and asked for |
| `Startup` | pass | three threads in `runtimeInitialize`, one failing allocation, shutdowns in between; three executors, five registrations during one walk after another |

Properties, in the order of the modules:

- `ReplyIsOwn`, `RunsAtMostOnce`, `RunsOnlyPublished`, `StatusProtocol`: the
  safety of the command protocol, until the service thread goes astray in the
  start-up race.  `StatusProtocol` is the cycle
  0, 2, 3, 4, (5,) 0 that the comments and code of both sides assume.
- `EveryCallReturns`, `EveryMessageRuns`: liveness, *unless the service thread
  is no more*.  The exception is needed: the start-up race, a shutdown, an exit or a
  fault end the thread while senders spin.
- `NoHandleLost` and `CompletelyUsed` say where the free objects are: the gets
  to come find exactly the objects nobody holds.
- `ImplementsPool` (the heap): who has got a chunk keeps it until he, or somebody who does not
  hold it, frees it; the heap halts for the free of a chunk in no hands.
- `HaltsOnMisuse`: a get finds no chunk only if all are in use, and the mark
  of a chunk says exactly whether it is.
- `NonWrapped`: each step of a pointer moves its place by one.  It is so where the length of the
  ring divides 2^32 (a power of two of chunks; in `Allocators` 3 divides 12, where the low words wrap and
  `CompletelyUsed` needs it), and fails for any other (`HeapWraps`), the default heap included.
- `NoOverlap`, `SearchEnds`, `NoRoomLost`: objects of a context are apart
  and in their nodes, and taking a full node out of the chain of available nodes
  neither loses nor repeats another.  The last two rest on `NodeSize + Slack <=
  CtxSize` (24, 16 and 64 bytes in the build): a node just added is never full.
- `PopReturnsTop`, `MarkIsExact`: pops reverse pushes and a mark stands for the depth it
  was taken at, *for a stack that is no larger than* `Undoable`.
  `RetractsToPrevious` says what the comments in `fallocRetract` say, and shows why larger ones are
  left out.
- `IndexIsTree`, `NothingLost`: what the path table finds, what the
  directories list and what the root reaches are the same live entities.
- `StreamExact`: a directory stream that is never led to a freed entity returns
  every entity once that was there at `opendir` and still is.
- `ImplementsFileTree`: up to the first fault, calls do and answer what `FileTree`
  says.  All faults are reachable; they are listed under *Findings*.

- `TableIntact`, `FileIntact`, `ProbingSound`: each container's own invariant: no
  element or chunk is lost, each bucket is exactly the stretch of its keys, the
  points of a file are in the right chunks, and probing always ends, at the right place.
- `GetTellsNext`: `bitvecGet(i)` finds number `i + 1` exactly if it is set, whatever has been
  split or removed before: beside its index (*Findings*) there is nothing wrong with it.
- `ImplementsMap`, `ImplementsByteFile`, `ImplementsBitSet`: what their users see.
- `RtIInv`: mutexes are set up before the first use and freed after the last, the count of
  `initMutex` is the number of callers that rely on it, and the body of
  `runtimeInitialize` runs only for a library that is down.  `ImplementsOnceInit`:
  nobody is told "ok" before it is up.  `EveryCallEnds`: every call returns, failed ones too.
- `NoneSkipped`: a message that nobody took has been offered to every executor that
  stayed registered.  It makes no promise for a walk during which a *registered*
  executor is registered again, see *Findings*.  `WalkEnds` holds for that too.
- `StatsExact`: whenever the allocator's mutex is free, the counters are the
  sizes and numbers of the blocks and buffers that are out.
- `ScratchExact`, `SlotsExact`: free lists hold exactly what nobody holds.
- `FailureDisables`: the slots of a tag are off once for the failure and once for
  every user that turned them off, so the assertions `alloc.cu:533` and `:661` hold.

Bounds.  There is one service thread and the senders are symmetric, so two
senders show every pairwise interleaving.  In `SentinelClients` six messages
pass through ids 0 to 3, so the ids wrap, and the one command is reused after
it was answered, abandoned and freed.  `SentinelRoomyRing` has as many commands
as messages (2 x 2): its question is what happens when the ring is never lapped.
Rings of 3 objects with 7 to 12 gets pass every place several times
with every order of frees.  In `Files` a directory can hold two entities
and lie in another, blocks are used again while elements of their former
use are still in the table, and a stream sees entities come and go on both sides of
its position; handles and streams do not look at each other, so one open at a
time (`MaxOpen`) loses nothing.  In `Containers` three keys with four codes over one to three buckets give
empty, single and shared buckets, emptied and refilled in every order; five bytes in chunks of two
have full, partial and missing last chunks at every offset; a vector of 7 splits
into two hashes of 4 or bitmaps of 3, which is the deepest a vector gets before it repeats
itself.  `Allocators` has a request that fits a scratch buffer and one that does not, and
a limit that one block reaches.  In `Startup` two threads already make all the pairs of
positions; the third lets one come while another is the last to leave.  In `Files` and `Containers` the
blocks, names and data are interchangeable, and the properties are safety
properties that do not name any of them: these sets are
symmetric.  No other run uses symmetry.  Deadlock is not checked because a bounded
number of sends or gets, a stopped service thread, a halted kernel and a fault
all really stop the system.

Fairness (`FairSpec`): weak fairness of the service thread, of a sender that
is inside a send, and of start-up: these are running threads.  Nothing is
assumed of the decision to send or to shut down.  `RtFairness` and
`ExecFairness` are the same for a thread inside `runtimeInitialize` (with weak
fairness on `Proceed(t)`, which suffices because whoever is in a mutex leaves it and
callers are finitely many) and for a service thread that has a message; registering
threads need not go on, and their number of calls is bounded.  `Sleep(50)` in the spin is a
pause and not a condition.

## Findings

The runs that expect a violation quote the comment they contradict in
`PROJECT.json`:

- `SentinelClose`: a message sent without waiting (`fflush_`, `exit_`, `system_`)
  and followed by another one of the same thread on the one-command map may lend
  it its answer, so that `fclose_` returns unexecuted.  The same pair may lose the first:
  after `exit_` the program is not always terminated.
- `SentinelStart`: a server whose service thread runs while its handle is being stored may end with
  "Bad Sentinel Magic", or serve a command before it is published.
- `HeapWraps`: the place of a pointer of the chunk ring jumps where its low word wraps, every 2^32
  bytes of references; from then on the default heap (509 chunks) loses chunks and finds none where there are.
- `ContextRetract`: `fallocRetract` does not leave an emptied node for the one before
  it when objects are larger than a node header (24 bytes in a 64-bit build): its offset wraps, and
  the address it returns is before the node.  And from a third node it goes to the first, from the one
  before the latest to the latest: with `ObjectSizes` {1}, `MaxNodes` 3 and room for 11 objects the
  same run fails for that.
- `FileRemoved`: the file system never takes a removed path out of its table: using the name
  again uses freed memory, and if the block of the old path is used for another
  one, `createEnt` panics.
- `BitvecGet`: `bitvecGet` uses its index as it is where `bitvecSet` and
  `bitvecClear` count it down, so it tells of the next number, and for the last
  number of a full bitmap or of the last sub-vector reads behind it.  (`bitvecSet` also returns true
  in every case, where its comment, `bitvec.cu:95`, says "Return 0 on success".)
  What it does tell, for every number but the last, is `GetTellsNext`.

Others are limits, kept as assumptions of passing runs, or constants of a model
with which a passing run fails:

- Pools: at most `CORE_MAXFILESTREAM` (10) streams, descriptors
  or host pointers may be held, as there is no test for exhaustion, and calls to one pool may not
  overlap (the pool's properties fail with `Capacity` 4 or `Serialized` FALSE).
- `fileGet` builds the descriptor from the place of its reference: when
  files are closed out of order, `open` returns a descriptor that is in use (`ByPlace` TRUE).
- `freopen_` gives its stream back to the pool and goes on using it, so a later `fopen_` shares it
  (not modelled).
- A chunk freed while another thread gets one may be erased from the ring
  (with `Serialized` FALSE `CompletelyUsed` fails).
- A chunk freed a second time after another thread has got it is taken from that thread (`stale`
  in `FallocHeap`); the magic number is not meant to tell, and no document says it does.
- A read of a memory file that stops at the end of its last chunk remembers a
  null chunk; the next read from there, after an append, copies from it.
  `ByteFile` says that this one read may fault.
- `bitvecSet` computes the share of a sub-vector as `size + NPTR - 1` in 32 bits
  (`bitvec.cu:142`), which wraps for the largest sizes: the model's `Size` stays below them.
- Registering an executor that is in the list moves it: a walk that stands on
  it is led past others, or past the start of the list again.
- `alarmThreshold - fullSize` is unsigned: a request larger than the soft limit
  raises no alarm.

`MarkIsExact` has no converse: after a push
and a pop across the end of a node `fallocAtMark` no longer recognises the mark.  Offsets
are unsigned shorts; with `Short` less than twice `ChunkSize` a sum wraps and
`NoOverlap` fails (chunks of more than 32 KB).

The faults of the file system beside the one of `FileRemoved` are not contradicted by a
document and have no run: `unlink` frees a file that is open or that a
directory stream is about to return; a file is accepted as the parent of a
new path; the list of a new directory is not initialised; `rewinddir` of an
empty directory copies from a null pointer.  `rename_` finds the old path and
does nothing.

## Proofs

TLAPS proves every safety property and every refinement that the passing runs
check, for every value of the constants.  Each proof goes by an inductive invariant
and has one step per action.

| module | inductive invariant | what follows |
|---|---|---|
| `SentinelProofs` | `IInv` | `ReplyIsOwn`, `RunsAtMostOnce`, `ImplementsRemoteCall` for serialized waiting sends |
| | `RoomyInv` | `RunsOnlyPublished`, `ReplyIsOwn`, `RunsAtMostOnce`, `StatusProtocol` for overlapping sends, waiting or not |
| `HandlePoolProofs` | `IInv` | `NoHandleLost`, `ImplementsPool` |
| `FallocHeapProofs` | `IInv` | `HaltsOnMisuse`, `CompletelyUsed`, `ImplementsPool` |
| `FallocContextProofs` | `IInv` | `NoOverlap`, `PopReturnsTop`, `MarkIsExact` |
| | `ChainInv` | `SearchEnds`, `NoRoomLost` |
| `FileProofs` | `IInv` | `IndexIsTree`, `NothingLost`, `StreamExact`, `ImplementsFileTree` |
| | `FileInv` | `FileIntact`, `ImplementsByteFile` |
| `RegistryProofs` | `RtIInv` | `ImplementsOnceInit` |
| | `ExecInv` | `NoneSkipped` |
| | `HashInv` | `TableIntact`, `ImplementsMap` |
| `MemoryProofs` | `CountersInv`, `ScratchInv`, `SlotsInv`, `OffInv` | `StatsExact`, `ScratchExact`, `SlotsExact`, `FailureDisables` |
| | `BitvecInv` | `ProbingSound`, `ImplementsBitSet`, `GetTellsNext` |

`RingArithmetic` has the facts about `%` that the rings, the chunks and the shares of a bit
vector need, and induction over a set of numbers (`NumberInduction`), since the
provers cannot instantiate an induction rule.  Before it was proved
each of these invariants was checked by TLC on the instance of the run named
in *Runs*; the runs keep only some of them, as what follows from them says more.

What the theorems assume of the constants, and why the code justifies it:

- *Serialized* (`Invariance`, `PoolInvariance`, `HeapInvariance`): calls come one
  at a time, and waiting sends only.  That is how the repository's programs use
  these parts, and without it the properties fail (*Findings*).
- *Roomy* (`RoomyInvariance`): the map has a command for every message that is
  sent, and ids do not wrap meanwhile (`Cardinality(Senders \X Numbers) <= Slots`,
  `Slots < Ids`).  It is the case in which the ring is
  never lapped: what overlapping senders may rely on at all.
- *Sequential*, for the heap: calls one at a time, `Size + 1 < Word`, and either `Word % Size = 0`
  (a heap of a power of two of chunks, for ever) or `Low + MaxGets + Size < Word` (any other, the
  default one with 509 chunks included, until a low word would wrap).  `HeapWraps` shows
  that nothing more holds.
- Pools: no more than `Size` handles are held, as the code has no test.
- *Shallow* (`ContextInvariance`): a context and its slack fit into a chunk, the sum of an
  offset and an object into an `unsigned short`, and a stack is no larger than `Undoable`;
  `ContextRetract` shows that larger ones have to be left out.
- Nothing is assumed of the start-up of the server: what is proved of the bus holds until
  `astray`.
- *CountersFit* (`CountersTell`): the counters, 64 bits wide, can hold the sizes of
  all the blocks and buffers there are.
- The file system, the memory files, the hash table, the bit vector, the runtime, the executors,
  the slots and the scratch buffers: nothing but the named assumptions of their modules.  For
  the bit vector (`BitvecSizes`): a bitmap has a bit, a hash two places and an array
  two vectors (a 64-bit build has 3968, 124 and 62).

The arguments, and why the invariants say more than the properties:

- *Sentinel, serialized*: all commands but the busy one are idle (status 0), the
  busy one is at `setId - 1`, which is `getId` until the service thread
  advances, and for every pair of sender position and service position, what
  the command holds and whether it has run.
- *Sentinel, roomy*: every id handed out belongs to one message, so every command
  belongs to one message at a time; `RoomyInv` says which, by its `Status`, and
  who is the only one to move it next.  A message that is not waited for outlives its
  sender's call, so the command, not the sender, carries the record of it.
- *Rings* (pool and heap): the places between the get and the free pointer hold
  distinct objects, exactly those nobody holds.  In the heap this goes together with
  the marks of the chunks, and survives the calls that misuse it, because those halt
  or leave the ring alone, also the free of another one's chunk.  Pointers are low words, so the
  places are counted from `Origin`, to which a pointer is a distance in `Reach`; `InBounds` keeps it there.
- *Context*: that objects are apart is not inductive: a pop lowers an offset
  by the size of the type, which is right only if the object pushed last ends
  there.  So `IInv` says where each object of a stack lies: the first `Full` of
  them in the context's node, the rest in the latest node, and each node ends after
  its last.  `NodeCapacity` and `Cancel` are the arithmetic.
- *Chain of available nodes*: nodes are numbered as they come, so the chain
  descends; `ChainInv` says that `next` leads from each node with room to the latest
  earlier one with room, through the moment in which a full node is closed in the middle.
  That the walk ends is an induction along it.
- *File system*: the lists of the directories and the path table are tied by
  `Children(d)`, the live entities whose parent path leads to `d`: `list[d]`
  lists exactly those, each once (`Lists`).  No path is in the table twice, *including* those
  of freed entities, whose elements lead to `Dangling`; without that, a new entity
  might be found by the path of a removed one.  `NothingLost` then is by the length of paths: an
  entity that is not reached has a parent that is not, with a shorter path.  For a
  stream, what it owes it has returned or will come by (`After`): `PutFirst` and
  `TakeOut` say how the rest of a list changes when an entity comes or goes.  The
  refinement maps each live entity to its path; a directory is removed
  only if no path leads on from it, because its list is empty.
- *Runtime*: that `initMutex` is not freed under a caller is inductive only
  together with who is in which mutex: the count is that of the threads between
  counting and uncounting, the mutex exists exactly as long as one of them, or one about to
  count itself, is there, and only one thread at a time is in the master mutex to change that.
- *Executors*: links are written one at a time, so in between the list is not one chain
  from its head.  `ExecInv` speaks of what is reached from where: every set closed
  under `next` that has the place the walk stands at has all executors
  that stayed registered and have not been asked.
- *Counters*: they are sums over finite sets, kept modulo `LongWord`; between
  two halves of a call the sum is off by the block in `job`.
- *Memory files*: `FileInv` says that there are a sequence of distinct chunks and a sequence
  of bytes: the chunks are linked in this order and full up to the last (`Laid`),
  byte `ChunkSize * i + j` is byte `j` of chunk `i` (`Holds`), and the read
  point is where its offset is (`ReadAt`).  `FollowIs` and `WriteIs` turn the
  walk and the write loop, both recursive functions, into statements about
  these sequences, by induction over the number of links and of bytes.
- *Hash table*: the buckets share one list, so every change of it moves all
  buckets behind.  `HashInv` says that there is a sequence `s` of all elements: they are
  linked in this order, forth and back (`Strung`), and for every bucket there is an
  interval of `s` of the length of its count, which begins at its chain and holds
  exactly the elements whose codes lead there (`Piled`).  `HeadIs` says where
  `insertElement` finds the front of a bucket, `PiledMoves` and `PiledShrinks` how the
  intervals move when an element comes or goes, and `RehashIs` is an induction over the
  elements `rehash` has threaded so far.  A search looks at the elements of one
  interval, so it finds a key if it is there, and never comes to the end of the list,
  which is the assertion in `findElementWithHash`.
- *Bit vector*: `BitvecInv` says that the vector is `Good`: of its type, and
  every hash in it sound (`SoundHash`): a place is free, `set` counts the others, and
  each number is where its probing first comes to itself or to a free place.  Free
  places stay, because `NotFull` splits the hash before; a number keeps its place when
  another is put (`PutIs`), but not when one is taken out, so the hash is built anew, and
  `RebuiltIs` is an induction over its places: after `k` of them the new hash holds their
  numbers but one, and there is room for the next.  A part of a vector is again `Good`
  and holds only numbers of its share; `OneShare` says that the shares are
  disjoint, and `PartIs` what the vector holds when one part changes.  What an
  operation does is then by induction over the size (`SetBitRight`,
  `ClearBitRight`, `GetBitRight`), each level by the representation;
  splitting sets all numbers again, an induction over the places (`SetAgainIs`), while
  memory may run out at any of them.  `VectorsIs`, `SetBitIs` and their like show
  that the recursive functions are what their definitions say, up to `Size`.

Not proved, and left to TLC:

- `EveryCallReturns`, `EveryMessageRuns`, `EveryCallEnds`, `WalkEnds`: liveness under
  fairness is out of the prover's reach.

## Plan

What is left: `ExpandPath` on characters; the handles of `FileSystem` composed with
`Memfile`.

## Not modelled

- Pure functions of the C library (strings, numbers, formatting, regular expressions,
  time), most of them taken from uClibc and SQLite: no state.
- The host C library behind the executors.
- The Tcl interpreters (`libcu.jimtcl`, `libcu.tinytcl`) and the sources of
  SQLite (`libcu.sqlite`, `libcu.ext/sqlite`): third-party code, which makes up
  most of the repository's lines; this project is about libcu.
- The virtual-system port of `libcu.ext` (`vsystem*`): SQLite's OS layer with its
  functions renamed, unfinished in this commit.
- `freopen_` and buffering in `stdiocu.cu`; `runtimeConfig`; the pthread and the
  no-op mutexes; the high-water marks of request sizes and the page cache.
