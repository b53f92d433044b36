# memkvinC in TLA+

memkvinC is a Bitcask key-value store: writes are queued, one background thread
appends them to the active data file, an in-memory index maps every key to a
file number and an offset, and a restart rebuilds the index from the files.
This directory models the store in TLA+, states what it promises as an abstract
store that it implements, checks both with TLC on small instances, and proves
with TLAPS, for every instance, that files, order, index, reads and log messages
are right, and under which conditions.
Paths below are relative to the repository.

## 1. The system

| Component | State | Operations | Correct when |
|---|---|---|---|
| **BitcaskImpl** (`src/BitcaskImpl.cpp`) | `_activeFile`, `_recordMap`, `_activeMap`, `_stableFiles`, the queue `_writes`, `_running`, `_mtx` | Put, PutAsync, Get, Delete; CommitWorker/CommitWrite on a thread of its own; constructor, destructor | reads see acknowledged writes, writes stay in order, a restart finds everything, threads end |
| **ActiveFile** | one stream, its path | Write, Rotate, Create, Restore, destructor (flush and close) | appends only; never truncates a file with records; what it closes is on disk |
| **StableFile** | one stream, shared by all readers | Restore (scan), Read (clear, seek, read) | a read returns the bytes at the offset asked for |
| **Record** | – | WriteRecord, ReadRecord, ReadAllRecordFromFile | a scan returns whole records only, and all that precede the first torn one |
| **File** | – | open modes, raw reads and writes | short reads are noticed |
| **ActiveMap**, **RecordMap** | a `libcuckoo::cuckoohash_map` each | Put, Get, Clear | each operation atomic |
| **Setting** | path, `maxFileSize`, two compaction values | constructors, getters, chained setters | the files a process writes are those the next start finds |
| **Logger** | mask of levels, two sinks | init, enable, disable, log, formatMsg | – |
| **Compact** | – | an empty stub | – |
| **StringCast** | – | third-party string conversions, used for log text | – |

How they interact. A caller of Put takes `_mtx` exclusively, appends to
`_writes`, releases it and waits for a future. The commit thread takes the lock
in shared mode, swaps the queue out, releases the lock and then, with **no
lock**, appends every record of the batch to the active file, rotating it on the way.
It publishes the rotated files in `_stableFiles` under the lock, again **in
shared mode**, releases it, clears `_activeMap` if anything was rotated, and for every
write updates `_activeMap`, then `_recordMap`, then fulfils the promise, again
with no lock. A Get holds the lock in shared mode all the way: index, then a
comparison of the hint's file number with the *number of* stable files, then
either `_activeMap` or a seek and a read on the one stream of the stable file.

What is hard: those interleavings; batches, which make rotation happen between
two records whose hints are made from one snapshot; two numberings of the files
(the number in a name, the count of a map) that must agree through rotations
and restarts; buffered streams, so that what is acknowledged is not what a
crash leaves; the position of a stream reopened for appending; and failing calls
of the operating system, which the code hardly looks at: null handles, closed
streams and a `tellp()` of -1 go on into the index.
`PROJECT.json` lists these hazards one by one, each at its line.

## 2. The modules

| Module | What it holds |
|---|---|
| `FileName` | the names of the data files and the order of a scan. Pure operators |
| `Record` | the data files: records, sizes, offsets, raw reads, the scan of a restart. Pure operators |
| `BitcaskImpl` | the state machine: clients, commit thread, process life; its properties |
| `KVStore` | the abstract store: what the interface promises, without files, maps or threads |
| `KVRefinement` | which state of `KVStore` a state of `BitcaskImpl` stands for (`INSTANCE KVStore WITH`) |
| `MCBitcaskImpl` | values for the constants, and the statements of the repository's documents that the code does not keep |
| `BitcaskImplProofs` | types, files and durability: the inductive invariant and its theorems |
| `BitcaskIndexProofs` | the order of the writes, the index and `_activeMap`: three more layers of invariant and their theorems |
| `BitcaskExactProofs` | that the index is complete, and where it is exact; the order in which a restart meets the records |
| `BitcaskReadProofs` | what a Get returns: to any callers without rotation, to a lone caller with rotations |
| `KVRefinementProofs` | that `BitcaskImpl` implements `KVStore` as long as no file is rotated: lemmas on sequences, the invariant behind the mapping, one simulation lemma per action |
| `Setting` | the configuration object. Pure operators |
| `Storage`, `MCStorage` | the file layer when calls of the operating system fail, and when a start looks in the wrong directory |
| `StorageProofs` | its inductive invariant; types and files |
| `StorageReadProofs` | what a Get returns when calls fail, and while none has |
| `Logger`, `MCLogger` | the logger's levels and sinks, calls through its macros, `formatMsg` |
| `LoggerProofs` | the logger's invariants; that `formatMsg` substitutes what it should |

`Record` and `Storage` EXTEND `FileName`, `Storage` also `Setting`. `BitcaskImpl`
EXTENDS `Record`; `KVRefinement` EXTENDS `BitcaskImpl` and instantiates
`KVStore`; `MCBitcaskImpl` EXTENDS `KVRefinement`. The proofs are a chain:
`BitcaskImplProofs` EXTENDS `BitcaskImpl`, then `BitcaskIndexProofs`,
`BitcaskExactProofs` and `BitcaskReadProofs` each EXTEND the one before, and
`KVRefinementProofs` EXTENDS `KVRefinement` and the last of them.
`StorageReadProofs` EXTENDS `StorageProofs`. `BitcaskImpl` and `Storage`
are two views of the same code: the first has all interleavings and no failing
call, the second all failing calls and one caller. The logger is a system of its
own: no state of the store depends on it.

### FileName, Record

`NameLess` is the order of `std::sort` on the paths of the stable files: decimal
strings, digit by digit (numbers have at most nine digits, the bound
`PowersOf10`). `FileBefore` is the order of a start: stable files by name, then
the active one.

All files together are one sequence, `log`. A `LogRecord` knows its file
(`fd`), where its value begins (`off`) and where its bytes stop (`end`); `Whole`
says that they are all there, which is what the CRC test amounts to.
`FileSize`, `ReadValue`, `Scanned` stand for the end of a file, `ReadFile` at an
offset and `ReadAllRecordFromFile`.
`RestoredHint` and `RestoredValue` are what the callbacks of
`RestoreStableMap` and `RestoreActiveMap` leave in the two maps for a key: the
last record scanned wins; hints of a stable file carry the number in its name,
hints of the active file carry the number of *other* files.

### BitcaskImpl

| Variable | Code |
|---|---|
| `log`, `dir` | the contents of the files and the numbers of those that exist |
| `synced`, `headOut` | how much of `log` has left the stream's buffer, and whether header and key of the next record have |
| `active`, `lag` | the number of the file behind `_activeFile`; how far its `tellp()` is behind the file's end |
| `recordMap`, `activeMap` | `_recordMap`, `_activeMap` |
| `stableFiles` | `_stableFiles`, and the get position of each stream (`Failed` after end of file) |
| `writes`, `running` | `_writes`, `_running` |
| `wpc`, `batch`, `records`, `newStableFiles`, `lastActiveWrite`, `applied` | where the commit thread is and its local variables |
| `issued`, `acked` | promises made and promises fulfilled; `acked` outlives the process, it is what callers remember |
| `pc`, `ckey`, `chint`, `cid`, `ret` | where a client is in a call, its locals, its result |

The actions, in the order of the code:

| Action | Code |
|---|---|
| `Put`, `PutAsync`, `Delete`, `DeleteMiss` | the exclusive section of Put and of Delete, one step, enabled when nobody holds the lock in shared mode (`LockFree`) |
| `FutureReady` | `future.get()` returns |
| `GetLookup`, `GetCompare`, `GetActive`, `GetMiss`, `GetSeek`, `GetRead` | Get, one step per access to shared state. `GetMiss` also covers a search of the `std::map` while it is being modified |
| `Swap` | CommitWorker takes the queue |
| `CommitRecord` | `ActiveFile::Write` of one record and the hint; `flush` says whether the stream hands its buffer to the system before `tellp()` (`early`), after it (`late`) or not (`never`) |
| `Rotate`, `CreateActive` | close the file, then open the next one with `trunc` |
| `InsertBegin`, `InsertStable`, `InsertEnd` | the insertion into `_stableFiles`, one file per step |
| `ClearActiveMap`, `ApplyValue`, `ApplyHint`, `Acknowledge`, `CommitDone` | the rest of CommitWrite |
| `CheckRunning` | CommitWorker looks at `_running` |
| `Open` | the constructor |
| `Close`, `Destroy` | the destructor: clear `_running`; join and destroy the members |
| `Crash` | the process dies; the buffer is lost, the first record that was not wholly out may be cut after its header or its key |

Choices a reader may want to question:

* Sections under the exclusive lock are one step: nobody else can observe
  their inside. Waiting for the lock is therefore not a state (see 6).
* `Close` needs all clients idle: a call that overlaps the destruction of its
  object is not a legal program. Writes queued by PutAsync may still be there.
* `acked`, `id` fields and `cid` are history: they name which write a record,
  a hint or a future is for. No guard of a store action reads them except
  through the promise.
* `lag` is a property of the C++ library, not of the code: with `TellLags` a
  stream reopened with `app` reports positions from 0 until its first flush.
* In this module no system call fails (`Storage` has those), and a directory
  holds only the files the store made.

### KVStore, KVRefinement

`KVStore` is the contract. `history` are the writes that have taken effect,
`pending` those requested since, `durable` how many of both a crash would leave.
`Put`, `PutAsync` and `Delete` append to `pending`; `Apply` moves the oldest
over; `Acknowledge` may fulfil a promise only for a write in `history`; a Get
returns, in one step, the last value written to its key. `Close` drops what is
pending, `Crash` leaves a prefix.

| `KVStore` | `BitcaskImpl` |
|---|---|
| `history` | the log up to the last write whose hint is in `_recordMap`, or whose value is already in `_activeMap` behind an older hint of the key that leads there (`Visible`, `Shown`) |
| `pending` | the rest of the log, the rest of the batch, the queue |
| `durable` | `synced` |
| `open` | `wpc # "down"` |
| `pc` | the client's, with the steps inside Get mapped to `"idle"`: a Get takes effect in its last step, when its result is known |

That a mapping exists without prophecy says something of the code: with one
batch in flight the value a Get is going to return is still current when it
returns it. With rotation inside a batch, or a torn tail, the program does not
implement the contract, and the violation runs below show why; so the
refinement is checked where it holds: one caller with rotations and restarts,
and overlapping callers with crashes and no rotation. The second case is also
proved, for every instance (section 5).

### Setting, Storage

A path is `empty`, `bare` or `slashed`: file names are the path with a number
behind it and a start lists the directory the path names, so that only a
path with a slash leads to the files (`FindsFiles`). `Constructed` are the
results of `Setting(path, size)`, `Chained` those of the setters;
`DefaultSettings` those of `Setting{}` and of `Setting s;`, whose size is
indeterminate.

`Storage` has one caller that waits for every Put, so that a batch is one write;
key, value and header of a record are together one unit of size, and a value is
the number of its write.

| Variable | Code |
|---|---|
| `setting` | `_setting` |
| `files`, `synced` | the records of each file, whole or cut; how many of the active file are out of the buffer |
| `phase` | no process, `up`, or inside CommitWrite between rotation and creation |
| `active`, `stream` | `_activeFile`: the number in its name, its stream (`good`, `bad` after a failed write, `null` when the handle or the pointer is) |
| `stable` | `_stableFiles`: each handle `good`, `closed` (opened in CommitWrite without looking at the result) or `null` (RestoreStableMap) |
| `recordMap`, `activeMap`, `hint` | `_recordMap`, `_activeMap`, the hint CommitWrite holds during a rotation |

| Action | Code |
|---|---|
| `Open(lost, fault)` | the constructor; the stable files in `lost` cannot be opened, and one of the three openings of the active file may fail |
| `Put`, `PutFails` | Put up to the comparison with `maxFileSize`, and to the end if the file is not full; the write fails before or after `tellp()`, leaving any part of the buffer in the file |
| `Rotate(opened)`, `Create(opened)` | the two halves of a rotation, each of which may fail to open its file |
| `NullCall` | a Put or a Get goes through a null handle and the process ends |
| `Close`, `Crash` | the destructor, whose flush may fail; the process is killed |

A failed call costs one of `MaxFaults`, a stream that has failed before fails for
free. `Offset` has its width: `ToOffset` is `% Width`, and `TellFailed` is -1 in
it. `tellp()` of a good stream is exact here (`BitcaskImpl` has the other case).

### Logger

`out`, `err` and `allowedLevels` are the fields of `Statics`, the mask as the
set of its bits. A call is `Begin` (the macro's test), `Locate` (the macro asks
for the debug level and adds the place in the source), `Log` or `Drop` (`log`
tests again), one `Substitute` for every turn of the loop in `formatMsg`, and
`Send`. Other threads change the mask between these steps. A string is a
sequence of `Pieces` one of which is the placeholder: the loop looks for nothing
else. `Filled` says what a message should be without the loop: each piece of the
format stands for itself, a placeholder for the argument of its rank among the
placeholders. `SetSinks` is `init`; since the two functions are assigned without a lock,
nobody may be logging meanwhile. `enable` is what the code says, `&=`.

## 3. What the runs check

Every run says which calls clients make (`Ops`), and bounds the number of
requested writes (`MaxWrites`). Sizes: the header has 12 bytes, `k1` 1 byte,
`k2` 2, `v1` 1, `v2` 3, the tombstone 22.

| Run | Configuration | Properties |
|---|---|---|
| `sequential` | one client, put/delete/get/close, 4 writes, limit 27, exact tellp | `TypeOK`, `IndexLocatesRecord`, `AckedIndexed`, `FilesBounded`, `ImplementsKVStore` |
| `concurrent` | two clients, putAsync/delete/get/close/crash, 3 writes, no rotation | `ReadRegular`, `LookupMonotonic`, `ImplementsKVStore` |
| `rotation` | one client, putAsync/delete/crash/close, 4 writes, limit 20, all flushes, lagging tellp | `RotationSafe`, `RotatedFlushed`, `WritesInOrder`, `HintsNeverAhead`, `ActiveMapServes`, `RestoreExact`, `TornNotIndexed` |
| `liveness` | two clients, put/putAsync/delete/get/close, 3 writes, fairness | `EveryWriteAcked`, `CallsReturn`, `CloseCompletes` |
| `storage` | one caller, two keys, 5 writes, 2 failing calls, `maxFileSize` 0 and 2, `Offset` of 8 values, settings made by the setters | `TypeOK`, `NothingTruncated`, `ReadHonest`, `FaultlessExact` |
| `logger` | two threads, three calls with too few and too many arguments, four masks, fairness | `TypeOK`, `FormattedRight`, `ErrorsHeard`, `CallReturns`, `StopSilences` |

* **sequential** is the store used as its examples use it: no two writes in one
  batch, no overlapping calls. There it is exact: each index entry is the place
  of its record, an acknowledged write is indexed for ever, through any number
  of restarts, files stay within `maxFileSize` but for their last record, and
  the whole behaviour is one of the abstract store.
* **concurrent** shows that the unlocked updates at the end of CommitWrite are
  safe *without rotation*: a Get returns the write it looked up or a later one,
  no key's entry goes back to an older write, and every behaviour, crashes
  included, is one of the abstract store: there is one moment in each call at
  which its result was right, and a crash leaves a prefix of the writes.
* **rotation** says what is left when rotation falls inside a batch, offsets
  lag, and the process may die between any two steps with any part of the
  buffer written. File numbers never collide (`RotationSafe`); rotated files
  lose nothing (`RotatedFlushed`); the log keeps the order of the calls
  (`WritesInOrder`); a hint may name the wrong place but errs only towards the
  past (`HintsNeverAhead`); a hint that sends Get to `_activeMap` finds its
  value or a later one there (`ActiveMapServes`); the next start repairs every
  entry (`RestoreExact`) and indexes no torn record (`TornNotIndexed`).
* **storage** says what is left when calls fail and the store goes on. No step
  takes a record out of a file that is not in the buffer of the active file,
  although after a failure the number of handles and the numbers in the names
  could part (`NothingTruncated`). What a Get finds is the value its entry is
  for, though a failed write indexes offset -1 and a cut record shifts the file
  (`ReadHonest`): a missing value, even the end of the process, but never
  a wrong value. While nothing has failed, a Get returns the last write through
  rotations, restarts and changes of `maxFileSize` (`FaultlessExact`).
* **liveness**: a queued write is acknowledged unless the database is closed
  first; a batch once taken is finished even then; calls and the destructor
  return.
* **logger**: a message is the format string with each placeholder replaced
  once, whatever the arguments contain; the loop ends although placeholders
  without an argument are put back; when nothing is allowed any more every
  thread falls silent, although a call past its last test still sends.

Why the bounds are enough. Limits of 20 and 27 put one, two or three records in
a file, so four writes make batches with no, one, two and three rotations; every pair of
adjacent actions of two threads occurs with two clients, since clients have no
state that a third would add to; two keys are needed so that a write can leave
another key's entry alone. Key, value and tombstone sizes differ so that no
offset is right by accident. `liveness` has one key and one value and limit 13,
at which every record rotates. In `storage` five writes with sizes 0 and 2 make
files of one to three records and up to five rotations, a second failure can
meet what the first has left, in the same process or in a later one, and eight
values of `Offset` are more than a file has records, so that offsets do not wrap
and -1, which becomes 7, lies behind every file, as 0xFFFFFFFF does. `concurrent` uses symmetry of the
two clients, `storage` that of the two keys; neither has a liveness property.

Each property has a mutant in the modules (marked so, next to the definition it
changes): an off-by-one or a forgotten step that makes TLC refute the property.

### Disagreements with the documents

Six runs show a statement of the repository that the code does not keep.
`PROJECT.json` quotes each.

| Run | What happens |
|---|---|
| `batch_rotation` | two writes in a batch with a rotation between them: the hint of the second gets `getActiveFD()` of before the batch and names the file of the first |
| `read_during_rotation` | Get compares the file number, the commit thread publishes and clears `_activeMap`, Get reads the empty map: a committed key is reported missing |
| `shared_stream` | two Gets on a stable file: the second seek moves the first one's read |
| `name_order` | from eleven stable files on a restart scans `10.db` before `2.db`; an old write comes back |
| `torn_tail` | after a crash the file is extended behind the torn record; the next restart does not get past it |
| `setting_path` | a path given to the constructor of Setting without a slash: files are made beside the directory that a restart scans, and nothing is found |

Met while modelling and stated here only: with a lagging `tellp()` the first
records after a reopen are indexed at too small an offset (`rotation` runs with
it, which is why `IndexLocatesRecord` is not among its properties); the offset
of the last value, not the size of the file, is compared with `maxFileSize`, so
a file may exceed it (README.md:12); Delete works and returns true
(README.md:156 says it returns false); CommitWrite takes the lock in shared mode
(.github/copilot-instructions.md:47 says exclusive); a read of a value does not
look at the CRC (README.md:14 says it is "verified on read"). A promise is
fulfilled while the record is in the stream's buffer (README.md:120 says
a Put "blocks until committed to disk"), and a write queued after the last swap is dropped when the
database is closed (README.md:38): the contract in `KVStore` is therefore the
weaker one, where acknowledged means visible, and a close drops what is pending. With
`maxFileSize` above what `Offset` can hold, 4 GB, the test for rotation never
fires and offsets wrap.

## 4. Fairness

`FairSpec` adds weak fairness of three kinds.

* `WF(Worker)`: the commit thread is a running thread. It never blocks for
  long: it takes the lock in shared mode only, which no reader hinders, and a
  caller that holds it exclusively only appends to a vector.
* `WF(Destroy)`: join returns once the thread has ended.
* `WF(InCall(c))` for every client, and for every thread of `Logger`: a thread inside a call runs, or is woken by
  its promise. Whether it calls again, and what, is not assumed.

Nothing is assumed of `Close`, `Crash`, `Open` or of a new call. A Put or a
Delete starts, in the model, when it has the exclusive lock: that a caller who
waits for it ever gets it is not claimed, since `std::shared_mutex` does not
promise that a waiting writer is preferred to new readers (section 6).

## 5. What is proved

Every invariant, action property and refinement that a passing run checks is
stated by a theorem here; some need a hypothesis, and for each hypothesis a
violation run shows that it cannot be dropped, or the paragraph on the argument
says why. Liveness is model-checked only (end of this section).

The theorems about `BitcaskImpl` hold for any numbers of clients, keys, values
and writes, any sizes and any `maxFileSize`, with crashes, and for every
behaviour of `tellp()`, unless they say otherwise. The assumptions are the named
ones of `Record` and `BitcaskImpl`: sizes are numbers, the sentinels differ from
values, `Ops` and `Flushes` are sets of the names used.

| Theorem | Statement |
|---|---|
| `Typing` | `Spec => []TypeOK` |
| `RotationIsSafe` | `Spec => []RotationSafe`: the number CommitWrite computes for the next file is never that of an existing one, the active file is the highest, no record is outside the directory |
| `RecordsKept` | no step but a crash removes or alters a record: `trunc` never meets a file with records |
| `RotatedIsFlushed` | `Spec => []RotatedFlushed`: what lies in a rotated file is out of every buffer |
| `FilesAreBounded` | `Spec => []FilesBounded` if `tellp()` is exact (`~TellLags`) and there are no crashes: no file grows after the first value that begins at or behind the limit |
| `WritesAreInOrder` | `Spec => []WritesInOrder` |
| `HintsAreNeverAhead` | `Spec => []HintsNeverAhead` |
| `TornIsNotIndexed` | `Spec => []TornNotIndexed` |
| `RestoreIsExact` | `Spec => RestoreExact` |
| `LookupIsMonotonic` | `Spec => LookupMonotonic` |
| `ActiveMapAlwaysServes` | `Spec => []ActiveMapServes` |
| `AcknowledgedIsIndexed` (`BitcaskExactProofs`) | without crashes, `Spec /\ []ElevenFiles => []AckedIndexed`: what was acknowledged stays indexed through any batches, rotations and restarts |
| `IndexIsExact` | with exact `tellp()`, `Spec /\ []RotationEndsBatch => []IndexLocatesRecord`: as long as no batch goes on behind a rotation, every entry is the place of its record |
| `LoneCallerIndexIsExact` | with exact `tellp()` and one client that does not use PutAsync, `Spec => []IndexLocatesRecord` |
| `ReadsAreRegular` (`BitcaskReadProofs`) | `Spec /\ []NotFull => []ReadRegular`: as long as the active file does not reach its limit, a Get returns the write it looked up or a later one |
| `LoneCallerReadsAreRegular` | with exact `tellp()` and one client that does not use PutAsync, `Spec => []ReadRegular`, rotations and crashes included |
| `StoreIsImplemented` (`KVRefinementProofs`) | `Spec /\ []NotFull => ImplementsKVStore`: a behaviour in which the active file never reaches its limit is one of the abstract store, through any overlapping calls, restarts and crashes, if a crash does not cut a record (`"early" \notin Flushes`) |

`StorageProofs` and `StorageReadProofs` hold for any keys, settings, width of
`Offset`, and any number of writes and of failing calls (`StorageAssumption`:
numbers are numbers, paths are one of the three kinds).

| Theorem | Statement |
|---|---|
| `Typing` | `Spec => []TypeOK` |
| `FilesKept` | if every setting leads to the files (`FindsFiles`), `Spec => NothingTruncated`: whatever calls fail, no step takes a record that is out of the buffer from a file |
| `ReadsAreHonest` | `Spec /\ []OffsetsFit => []ReadHonest`: whatever calls fail and wherever a start looks, a Get never returns the value of another write than the one its entry is for |
| `ReadsAreExact` | if every setting leads to the files, `Spec /\ []OffsetsFit /\ []ElevenFiles => []FaultlessExact`: until something fails a Get returns the last write, through rotations, restarts and changes of `maxFileSize` |

`LoggerProofs` holds for any threads, calls, sinks, masks and pieces
(`LevelAssumption`, `CallAssumption`, `SinkAssumption`: masks are sets of
levels, calls have the types of calls, the default sink is none of the program's).

| Theorem | Statement |
|---|---|
| `Typing` | `Spec => []TypeOK`: the cursors of `formatMsg` stay in the string and among the arguments |
| `ErrorsAreHeard` | `Spec => []ErrorsHeard`: whoever hears ordinary messages hears errors |
| `MessagesAreFormatted` | `Spec => []FormattedRight`: every message sent is its format with each placeholder replaced once, by the argument of its rank, or left when there is none, whatever the arguments contain |

The argument for `BitcaskImpl`. `RotationSafe` is not inductive: that `NextFD` is unused follows
only if both maps from which it is computed describe the directory. `IInv` adds
this: the directory is `0..active` (`DirContiguous`), the stable files are an
initial interval of it (`StableContiguous`), and the files the running batch
has completed and not yet published are exactly the rest (`NewContiguous`,
`NewUnpublished`, `AllPublished`); `Top` accounts for the moment between
`Rotate` and `CreateActive` when the last file is closed and the next does not
exist. A crash there leaves a directory without an empty new file, which is
again an interval, and so the next start has its invariant back
(`ActivePathIsLast`, `OpenFiles`). `LogInFiles` and `BatchProgress` supply what
the types need: offsets behind a key are not negative after a cut, and
`records` has an entry for every write that is applied. `GetHasKey` does the
same for a Get. `RotatedIsFlushed` builds on it with one more part,
`ClosedFlushed`: between the close of one file and the creation of the next,
and when no process runs, no buffer holds anything.

`FilesAreBounded` needs its two assumptions, since a lagging offset is compared
with the limit, and a cut record makes an offset that was never compared. Its
invariant `BoundInv` says that where the next record may go (`Room`) the file
has not reached the limit.

The index is built on the files in layers, each one inductive with those below
it. `OrderInv`: log, unwritten batch and queue are numbered in the order of the
calls, each and one before the other; every step either leaves the queues alone
or is one of six (`QueueSteps`). `BatchLogged` ties the two loops of
CommitWrite together: the records of the running batch are the last ones of the
log, each with its hint at the same place. `IndexInv`: every entry of the index
is for a record (`IsFor`) that is not behind the last applied one (`Indexed`),
which with the order makes `LookupMonotonic` and `HintsNeverAhead` one
argument. What a start restores is exact because the last record scanned is one
of the log that is whole (`RestoredIsFor`). The last layer says why the unlocked end
of CommitWrite is safe: after a rotation in the batch, once the stable files are
published, no hint, old or of this batch, has the number that leads to
`_activeMap` (`HintsRecent`), so that the map may be cleared and filled in any
interleaving with readers; without a rotation every value goes into the map
before its hint (`BatchValue`). Together they are `ValueInv`, from which
`ActiveMapServes` follows step by step (`ServesStep`).

`AcknowledgedIsIndexed` says the converse of `HintsNeverAhead`: not only no entry is too new,
none is too old. The running program is the easy half: an entry is
overwritten in the order of the log, so that every record up to the last applied
one has its entry or a later write has it (`IndexComplete`), and an acknowledged
write has been applied (`AckedLogged`). The restart is the other half: the last
record *scanned* must be the last *written* (`RestoredIsLast`). The files are in
the log in the order of their numbers (`FilesInOrder`), and names are in that
order as long as those of stable files have one digit (`NamesOfDigits`,
`InScanOrder`): ten stable files and the active one, hence `ElevenFiles`.
`name_order` is the counterexample with twelve. A record cut by a crash hides
those behind it in its file (`torn_tail`), hence no crashes; `NothingTorn` is what
the proof uses of that.

`IndexIsExact` needs both of its hypotheses: a lagging `tellp()` makes the offset
wrong, a second write behind a rotation the file number (`batch_rotation`). What
the invariant says is that inside a batch nothing is left to write once there is a
rotated file (`RotatedLast`), that the hints of the batch are exact
(`BatchExact`) and those in the index too (`IndexExact`). For a lone caller who
waits, the hypothesis is proved: `OneWrite` says that at most one write
is not acknowledged, and that the caller waits for it. Batches then have one
write, and a rotation ends it. That the promise of this write, and of no newer one, is
still open is part of it: otherwise the caller could go on before the batch is done.

Reads. `ReadsAreRegular`: while nothing is rotated every hint has number 0 and
so has `getActiveFD` (`OnlyFile`), hence every Get goes to `_activeMap`, which
serves (`ActiveMapServes`) and whose entries only grow newer. With a rotation
this is false for overlapping callers (`read_during_rotation`,
`shared_stream`), but not for a lone one. While a lone caller is inside a Get
there is nothing to commit (`NothingToCommit`), so that index, maps and log
stand still and what Get looked up stays true (`LoneReader`); the stream it has
positioned is where it left it. What the bytes there are is a matter of the
files: records of a file do not overlap, whatever crashes have cut
(`Layout`), so that an exact hint reads its own record and no other
(`ReadsRecord`), never the garbage between two.

The refinement. Both assumptions of `StoreIsImplemented` are needed:
`batch_rotation` and `read_during_rotation` break the contract with one
rotation, `torn_tail` with one torn record. `RefInv` is the invariant behind the
mapping, on top of `ValueInv`. `OneFile`: nothing was rotated (`NoRotation`) and
no record is cut; hence every hint leads to `_activeMap` (`HintLeadsHere`). `BatchPlace`:
outside CommitWrite the batch is empty, so that the visible part of the log is
all of it. `Known` and `Current` are the heart: a key has a hint if one of the
first `Indexed` records is its own, and then `_activeMap` holds the value of the
last of its records among the first `Visible`. The two counts differ by one
exactly when ApplyValue has replaced the value behind an old hint and ApplyHint
has yet to come. `Callers` says where the clients can be, so that a close finds
them all idle. With these a Get that answers from `_activeMap` answers for the
last write that is visible (`StoreValue`), and a lookup that fails, for none
(`StoreHas`). What a step does to the queue of pending writes is a matter of
sequences: `Requests` is what lies behind the visible part of the log, then the
rest of the batch, then the queue; a write that moves from batch to log leaves it
alone (`RequestsWritten`), one that becomes visible is its head
(`RequestsHead`), and a crash keeps a prefix (`RequestedIs`, `Prefix`).

The argument for `Storage` is the same idea, made robust. Handles may be null
or closed, so that what counts is not which of them work but which numbers they
have: the numbers of the files and of the handles are those below one `n`
(`NumberedTo`), with the moment between `Rotate` and `Create` and the case of an
active file whose handle is null, to which no write gets through, as the
exceptions. `StableCount` counts
handles whatever their state, hence the next number is always the first unused.
The second part, `StreamOfFile`, says that while there is a stream its file
exists and `synced` counts records in it. `FilesKept` needs its
assumption: with a path that does not lead to the files every start begins at
number 0 and truncates (`setting_path`).

`ReadsAreHonest` is about failures piling up. An entry is honest
(`HintHonest`) if where it points there is its own record, a torn one or none,
and none of another write can come to lie there: as long as the stream is good
the entry lies before the end of the file, and a stream that has failed
writes no more. The entry of a failed write points at -1, behind every
record, or at the record that the failure has torn. The invariant says this of the index and of the write that CommitWrite is at
(`IndexHonest`, `PendingHonest`), and that handles, working or not, have
the consecutive numbers that `getActiveFD` counts (`HandlesNumbered`), so that a
hint made for one file is never read in another. `OffsetsFit` is needed: with
4 GB in a file an offset names two records. In the run it always holds, since
files have at most five records and `Offset` eight values.

`ReadsAreExact` adds, as long as no call has failed and no process was killed (both count as faults):
all records are whole, all handles work, the last record of every key in the
order of the files is that of its last write (`LastKnown`), and the index
points there, for the write in progress as soon as it has its hint (`IndexExact`).
A restart keeps it because it scans every record of every file in the order
of their numbers (`ByNumber`); this is where `ElevenFiles` comes in again, and
`FindsFiles` as in `FilesKept`.

The argument for `Logger`. `formatMsg` rewrites the string it searches, and what
it puts in may contain placeholders of its own. The invariant `InProgress` says
that at every turn there is a prefix of the format of which everything is
in front of the cursor as what it stands for (`After`), while the rest is
behind it, untouched (`Rest`), and that the next argument is the one of the
next rank (`NextArg`). The search from the cursor thus finds the next placeholder of
the *format* (`Behind`), passing over pieces changes neither side
(`PassOver`), and a substitution moves one piece across
(`SubstituteProgress`). When the search fails the prefix is the whole format.
Concatenations are functions on the numbers of pieces (`Joins`, `Joined`), which
`JoinedIs` identifies with `FlattenSeq`. `ErrorsAreHeard` needs
`HeardOrSilent`: the error sink is the default only while the other one is.

Only model-checked, on the instances of section 3:

* the refinement for one caller with rotations and restarts (`sequential`); of
  what it rests on, the exact index, the complete index and the reads are proved
  above;
* `EveryWriteAcked`, `CallsReturn`, `CloseCompletes` of `BitcaskImpl`,
  `CallReturns` and `StopSilences` of `Logger`: liveness under fairness is out of
  the prover's reach.

## 6. Not modelled

* Waiting for `_mtx`, and starvation of a writer by readers and by the spinning
  commit thread: `std::shared_mutex` says nothing of who is preferred, so that
  the outcome is a property of the platform.
* Directories with gaps or foreign files: a name that is not a number throws out
  of the constructor. The store never makes either.
* Failing calls together with overlapping calls: `Storage` has one caller. A
  null handle ends the process whoever meets it.
* Running threads while `Logger::init` assigns the sinks: the behaviour is
  undefined, `Logger` takes the legal use only.
* The layout of a record in bytes and the CRC polynomial: records are whole or
  torn. Collisions of CRC32 are ignored.
* libcuckoo: each operation of a map is atomic.
* The two compaction values of Setting, which nobody reads. Compact is empty,
  StringCast is third-party text conversion.

## 7. Plan

1. `Record`, `BitcaskImpl`, typing, files, durability of rotated files; `Logger`:
   done.
2. `KVStore` and the refinement; `Setting`, `Storage` and its theorems: done.
3. Order, index and `_activeMap` proved for every instance: done.
4. The refinement proved for behaviours without rotation: done.
5. The remaining invariants proved: index and reads with their conditions,
   `Storage` reads, `Logger`: done.
6. Proof left: the refinement for one caller with rotations.
7. A lock with waiting readers and writers, if a choice of
   `std::shared_mutex` is fixed.
