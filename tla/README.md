# Verification of the APUE programs

The repository holds notes on Linux programming and the source of *Advanced
Programming in the UNIX Environment*, third edition (`src/apue.3e`). Most of it
is one-shot programs that show one system call each. The programs with state,
concurrency and failure are the database library (`db`), the print spooler
(`printer`), the open servers (`ipc2`), the synchronisation and semaphore
routines of `lib`, and the thread examples. This directory models them in
TLA+, checks small instances with TLC and proves the most important properties
for every size with TLAPS.

The database library, the print spooler and the open server are modelled in the
greatest detail. Twenty small modules cover the rest of the code in which steps
interleave or fail. Every safety property that holds in a run, and both refinements, are
proved for all values of the constants (those about the lists of the database, as in the runs,
for processes that are not killed inside `_db_dodelete`); liveness is model-checked only.

## The system

### Components

| component | state | operations | what is hard | what makes it correct |
|---|---|---|---|---|
| Database library, `db/db.c` | index file (free list, hash table, index records), data file; per process a handle with offsets and buffers | `db_open`, `db_fetch`, `db_store`, `db_delete`, `db_rewind`, `db_nextrec`, `db_close` | any number of processes share the files; one call is many reads and writes; processes die half way | calls are atomic, lists stay finite and disjoint, no pointer dangles, every call ends |
| Record locks, `lib/lockreg.c` | the kernel's table of locks | lock, lock and wait, unlock, release at exit | shared against exclusive, replaced locks, starvation | writers are alone in their region |
| Print spooler, `printer/printd.c`, `print.c`, `util.c` | spool directory (`data`, `reqs`, job ID file), job list, next job ID, configuration | accept a job, store it, queue it, print it, defer it, reload, restart | threads share the list and, through file names, the disk; the daemon ends at any point and is started again; answers of the printer are lost | no accepted job is lost, jobs come out whole, in order, in the end, once |
| Client threads of the spooler, `printd.c:525-600` | doubly linked list of structures under `workerlock` | add, clean up, cancel all | removal while others are linked in, memory that is reused | the list holds the living threads, the lock is released |
| Open server, `ipc2/opend` | client array, poll or select set | accept, read a request, pass a descriptor, drop a client | arrays packed while they are iterated, requests in pieces | a request runs under its client's user ID |
| Open server, forked, `ipc2/opend.fe` | one pipe | read a request, pass a descriptor | end of the parent | one answer per request |
| Descriptor passing, `lib/sendfd.c`, `recvfd.c`, `cliconn.c`, `servaccept.c` | a byte stream with descriptors | send an error, send and receive a descriptor | messages split over reads | sender and receiver agree on the status byte |
| System V semaphores, `lib/semaph.c` | a semaphore set with a lock, a counter of processes and the value | create, open, close, operate, remove | the set disappears between two calls | the set lives as long as it is used |
| Parent and child, `lib/tellwait.c` | `sigflag`, the signal mask and pending signals; two pipes | TELL and WAIT of both sides | a signal between test and wait | strict alternation, nobody sleeps for ever |
| Reference counted objects, `threads/mutex1.c`, `mutex2.c`, `mutex3.c` | hash table of objects with counts | allocate, find, hold, release | two locks in two orders, a gap between them | no object is freed while it is used or twice |
| Work queues and rendezvous, `threads/rwlock.c`, `barrier.c` | job queue under a read-write lock, sorted parts | add, remove, find; sort, merge | a job is looked up under one hold of the lock and removed under another; who comes last | the queue is a queue from both ends; the merged numbers are the input |
| Thread control, `threadctl` | a timer thread, a signal thread, buffers for the environment | `timeout`, `sigwait`, `getenv` | a callback under the lock its caller holds; a signal between test and wait; a buffer all threads share | called once and in time; no signal is missed; a value stays while it is used |
| Asynchronous I/O, `advio/rot13c2.c` | a pool of buffers, each unused, reading or writing | start, poll, wait | completion in any order, a pool at its limit | the output is the translated input |
| Pseudo terminal, `pty`, `lib/ttymodes.c` | two copying processes, the modes of the terminal | copy, signal, end, set and reset the modes | the end of one must end the other; signals in between | both ends of the session end, the terminal is as before |
| Daemon idioms, `daemons` | lock file, configuration | become the only instance, reread | races of two starts | one instance |
| Message queues, `ipc2/pollmsg.c`, `exercises/pollmsg2.c` | queues, sockets, a structure shared by two threads | receive, wake, print | memory read without its mutex | each message once, in order |
| Coprocess, `ipc1/pipe4.c`, `add2.c`, `add2stdio.c` | two pipes, an output buffer | send a line, answer | each waits for the other | the answer to the line |
| Library, `lib/popen.c`, `sleep.c`, `signals/system.c` | table of children; mask, action and timer of a signal | open and close a pipe; sleep; run a command | inherited descriptors, other children, other signals | the call ends and leaves the caller's state alone |
| Memory stream, `exercises/fmemopen.c` | a buffer, a position, a size | read, write, seek, close | the end of the buffer | it behaves as a file |

The other wrappers (`lib/readn.c`, ...), demonstrations and the notes keep
no state between steps and are not modelled.

### Interactions

Processes that use a database share its two files and the record locks on them
and nothing else. The print command and the daemon share a connection: a
header, a document, one response. Inside the daemon the main thread, a thread
per client, the printer thread and the signal thread share the job list
(`joblock`, `jobwait`), the configuration (`configlock`), the list of client
threads (`workerlock`), and, without a lock, the files of the spool directory;
a daemon and the next one share the spool directory. The record locks
are used by the database, by the spooler (one instance) and by `daemons`; the
descriptor passing by both open servers. The open server shares with a client
one connection and nothing else. The small programs have nothing to do with each other.

## The modules

| module | what it is |
|---|---|
| `RecordLock` | record locks: grantable, acquire, release, release at exit |
| `Db` | the database library, one action per access to a file |
| `KVStore` | abstract specification: one map, every call takes effect at one instant |
| `DbSpec` | properties of `Db`, and the map its files represent |
| `DbScan` | `Db` with what a scan has returned, and the properties of scans |
| `DbLive` | `Db` with a bounded number of calls, fairness, and progress |
| `MCDb`, `MCDbScan`, `MCDbLive` | instances for TLC |
| `DbFileProofs`, `DbListProofs`, `DbMapProofs` | theorems about `Db`, each resting on the ones before |
| `DbScanProofs` | theorems about `DbScan` |
| `Spool` | the spooler: commands, daemon, disk, restarts |
| `PrintQueue` | abstract specification: a first-in first-out queue |
| `SpoolSpec` | properties of `Spool` |
| `SpoolInv` | the two inductive invariants of `Spool` |
| `SpoolProofs` | theorems about `Spool` |
| `Workers` | the daemon's list of client threads with the memory it is in |
| `MCSpool` | instances for TLC |
| `DbOpen` | `db_open` and `db_close` |
| `PrinterStatus` | `printer_status` and `readmore`, the spooler's reading of an answer |
| `OpenServer`, `OpenServerProofs` | the open server, its clients, and what passes between them; theorems about it |
| `Refcount`, `RefcountProofs` | reference counted objects, and theorems about them |
| `Semaph`, `TellWait`, `JobQueue`, `Barrier`, `Timeout`, `Suspend`, `Getenv`, `AioCopy`, `MemStream`, `Pty`, `TtyModes`, `Daemon`, `Popen`, `Sleep`, `SystemCmd`, `OpenForked`, `PollMsg`, `Coproc` | one small program or library each |
| `Programs`, `ProgramsProofs` | instances of these, of `Refcount` and of `DbOpen`, with the parameters that matter as constants; theorems about all of them with a safety property |

Definitions that start with a comment "Mutant" are plausible mistakes in the
code; each property has one that violates it. No specification uses them.

## The database library

`Db` has the two files (`table`, `idx`, `dat`), the kernel's locks (`locks`), and
for each process its place in a call (`pc`), the call (`req`), the fields of the
DB structure and locals that outlive an access (`db`), and the result (`ret`).

| actions | code |
|---|---|
| `Call`, `Return` | entry of `db_fetch`, `db_store`, `db_delete`, their common exit |
| `FindAndLock`, `FindNext`, `Found`, `NotFound` | `_db_find_and_lock`, `_db_readidx`, and what each caller does with the answer |
| `ReadData` | `_db_readdat` in `db_fetch` |
| `Overwrite` | `db_store`, same size: `_db_writedat` in place |
| `DeleteData`, `DeleteIndex`, `DeleteFree`, `DeleteUnlink` | `_db_dodelete`, one write each, in the code's order |
| `ReadChainHead` | the `_db_readptr` of `db_store`, again after a deletion |
| `FreeLock`, `FreeNext`, `FreeFound`, `FreeTake`, `FreeNone` | `_db_findfree` |
| `ReuseData`, `ReuseIndex` | store into a free record |
| `AppendSeekData`, `AppendData`, `AppendSeekIndex`, `AppendIndex` | `_db_writedat` and `_db_writeidx` with `SEEK_END`: seek and write are separate |
| `Link`, `LinkQuit` | the `_db_writeptr` that makes the record the first of its chain; it quits beyond `PTR_MAX` |
| `NextLock`, `NextSkip`, `NextFound`, `NextEOF`, `NextData`, `NextDump`, `NextReturn`, `Rewind` | `db_nextrec`, `db_rewind` |
| `Kill` | the process is killed; its locks go, its half-done work stays |

What is abstracted:

- File offsets are record numbers. The seek pointer of the index file is kept,
  because `db_nextrec` continues where it is; in the middle of a record or of
  the hash table it is `AstrayPos`. There the code mostly ends in `err_dump`
  (`db.c:372`, `384`, `393`); that it could also misread a record is left out.
- Each `readv`, `writev`, `read` and `write` is one atomic access.
- Keys, data and their lengths are constants (`KeyLen`, `DatLen`); whether a free
  record fits depends on the lengths only, as in `_db_findfree`.
- `_db_dodelete` and `_db_writeidx` pass `idxbuf` to `sprintf` as source and
  destination, which C leaves undefined; the model has what the usual library
  does, a copy onto itself.
- `Init` is the database after it was created, with every process having it open.
  `DbOpen` models how that comes about (below).
- Processes are killed at any step in the proofs. The TLC runs kill them outside
  `_db_dodelete` only: a kill between lines 514 and 520 leaves a record
  on its chain and on the free list; when it is reused, a chain runs in a circle, and
  `ListsDisjoint`, `ListsEnd` and `CallsEnd` no longer hold. Nothing in the
  sources promises that they would. `NoDangling` and `DataNotShared` hold all
  the same, and are proved with such kills included.

Runs:

| run | instance | shows |
|---|---|---|
| `db_chain` | 2 processes, 2 keys on one chain, 2 data of one length, all calls and flags | `Linearizable` (`Db` implements `KVStore`), `CriticalSections`, `ListsEnd`, `ListsDisjoint`, no deadlock |
| `db_apart` | 2 processes, 2 chains, data of two lengths, scans, at most 2 records a pointer can name, kills | `TypeOK`, `NoDangling`, `DataNotShared`, `ListsDisjoint`, `Linearizable` |
| `db_scan` | 2 processes, scans against stores and deletions | a scan misses no record that stays, returns no blank and no record twice |
| `db_live` | 2 processes with 2 calls each, two lengths on one chain, kills | `CallsEnd`, `NoRecordLost`, `Linearizable` |
| `db_scan_dump` | 1 process | violation: see below |

Two processes meet in every pair of places, which is what locks are about; two
keys on one chain are the least with a record before and one behind the one that is
worked on; on two chains they are the least that contend for the free list
only. Two lengths make a free record fit or not, and a replacement happen in
place or by deletion. The number of records bounds itself where all have one
length (`db_chain`: a free one always fits, so there are at most two); elsewhere
`PtrMax` bounds it, and what the code does there, to quit, is part of the runs.

`Linearizable` is a refinement. The map is computed from the files (`Map`): the
data of the record a search would find, where a record that is being deleted has
the chain pointer its deleter saved; a store that has deleted the old record and
not yet linked the new one counts as done. `KVStore` lets a dead process damage
the key of its call only. A scan need not be atomic in `KVStore`: it returns
records that are current or are about to be.

Fairness (`DbLive`): weak fairness of the steps of each process inside a call. The
kernel wakes a process that waits for a lock when it is free, but promises no
order, so a process can be overtaken for ever; `CallsEnd` is stated for a bounded
number of calls (`CallMax`), which is what weak fairness can give.

Finding, `db_scan_dump`: the comments ask for one `db_rewind` before the first
`db_nextrec` (`db.c:809-810`, `832-833`), but every `db_fetch`, `db_store` and
`db_delete` of the handle moves the file offset from which `db_nextrec` goes on.
A rewind, a store and a `db_nextrec` end the process.

Proved, for any number of processes, keys, data and chains, and calls without end; the
first module with kills at any step:

- `DbFileProofs`, on the locks: `LocksHeld` (`LockInv`: the lock table is exactly what the places
  of the processes require, without conflicts, and the dead hold none) and
  `CriticalSectionsKept`. `CriticalSections` alone is not inductive: it says who may be
  where, not that those who are there hold the lock.
- `DbFileProofs`, on the files: `PointersLead` (`NoDangling`), `DataApart` (`DataNotShared`),
  `TypeCorrect` (`TypeOK`). `FileInv` adds to them what a process knows of the records
  in its hands (`Handle`) and that a data record just appended is named by no index record
  and is in nobody else's hands (`Fresh`). `Handle` survives
  the steps of others since the lengths of the files change only under the
  lock on the end of the file: here the file proofs rest on `CriticalSections`.
- `DbListProofs`: `ListsAlwaysEnd` (`ListsEnd`), `ListsStayApart` (`ListsDisjoint`) and
  `RecordsAllKept` (`NoRecordLost`), for lists of any length. `ListInv` says that there are
  numbers `n[h]` and walks `w[h]` such that the list of head `h` has `n[h]` records and `w[h]`
  leads along them to the null pointer, without meeting a record twice; that records on a chain have keys of
  that chain, each key at most once; that what is on the free list is blank; that
  lists meet only while a record is between `DeleteFree` and `DeleteUnlink`; that a
  record that is on no list is in the hands of exactly one process; and where on
  a list each process stands. A step pushes a record on a walk or cuts one out of it
  (`Pushed`, `Cut`), or it leaves the walks alone. The properties speak of the walk as
  the program makes it, the recursive function `Nth`; that it agrees with `w[h]` is an
  induction below a bound, which `SetInduction` derives from the pigeonhole principle.
  Hypothesis `NoKillDeleting`: no kill at `DeleteFree` or `DeleteUnlink`, the window
  of `db.c:514-520` above, in which the properties do not survive.
- `DbMapProofs`: `CallsAtomic` (`Linearizable`): `Db` implements `KVStore`. The step at
  which a call takes effect is `ReadData` for `db_fetch`; the overwritten data (`DeleteData`)
  for `db_delete`; `Overwrite`, `DeleteData` or `Link` for `db_store`; `NotFound`
  or `Found` where a call fails. `MapInv` adds to `ListInv` that a
  process works on the record that has its key (`Aimed`), what the record it is about to link
  holds (`Brings`), that what a scan has read is still there (`ReadsOn`), what result a call has
  where (`Results`), that a record on a chain has its data unless somebody is deleting it
  (`DataKept`), and that a record with a key that is on no chain is that of a store (`Owned`).
  `MapKnown` then says what `Map` is in terms of single records, and each step
  is matched with one of `KVStore` or none. TLC confirmed `MapInv` on the instances of `db_chain`,
  `db_apart` and `db_live`. Hypothesis `NoKillInDelete`: no kill at `DeleteIndex` either, between
  the data and the key of a record being blanked: a later `db_store` or `db_delete` would
  still find the key.
- `DbScanProofs`: `NothingMissed` (`ScanMissesNothing`), `NothingRepeated`
  (`ScanRepeatsNothing`) and `NoBlankRead` (`ScanReadsNoBlank`). The inductive invariants
  speak of the records that stayed where they were, by their numbers: those in front
  of the file offset have been returned (`Passed`), and none that was returned is
  behind it (`Ahead`). That the record a scan read is the one its key leads to (`ReadsRecordOfKey`) is
  where the third conjunct of `ScanRepeatsNothing` comes in: a store that died before `Link` leaves a second
  record with its key. `NothingMissed` needs `NoKillDeleting`, the others `NoKillInDelete`. TLC
  confirmed both invariants with kills at five other places.

Assumptions: `DbAssumption`: types of the constants; `Blank`, `None` and `Unset` are
no key and no data; `Unset` is no result and `None` no record that a scan could return; the
heads of the lists are no record numbers.

Only model-checked: `CallsEnd` (liveness).

## The print spooler

`Spool` has the disk (`data`, `reqs`, `jobno`), the daemon (main thread `up` and
`todo`; `nextjob`; the list `queue`; client threads `tpc`, `jobid`, `stored`;
printer thread `ppc`, `job`, `paper`), the configuration (`conf`, `loaded`, `hup`,
`reread`) and the outside (`sent`, `reply`, `prints`). Three variables are bookkeeping:
`clash`, the job IDs that were given out while another job had them; `removed`, the
commands whose job a starting daemon removed since it could not read the request; and
`skipped`, those whose job this daemon dropped, or never queued, since it could not open
a file or the directory.

| actions | code |
|---|---|
| `Connect`, `Send` | `print.c`; `accept` in `main` |
| `HeaderTimeout`, `NewJob`, `CreateData`, `Receive`, `ReceiveEnd`, `CreateReq`, `WriteReq`, `Accept` | `client_thread`, each with the failure of its system call |
| `AddJob`, `SignalJob` | `add_job`: the list under `joblock`, then the signal |
| `Start`, `BuildJob`, `BuildRemove`, `BuildSkip`, `BuildSignal`, `BuildDone` | `main`, `init_request`, `init_printer`, `build_qonstart`: a whole request is queued; one that is empty or whose read fails is removed with its document; one that cannot be opened is passed over, and so is the rest when the directory cannot be read |
| `PickJob`, `SaveJobno`, `CheckConf`, `Reload`, `OpenData`, `SendFile`, `Printed`, `PrinterFail`, `UnlinkData`, `UnlinkReq`, `Defer` | `printer_thread` with `remove_job`, `update_jobno`, `replace_job` |
| `EditConf`, `HandleHup` | SIGHUP and `signal_thread` |
| `Crash` | SIGTERM, `exit`, or a crash: all but the disk is gone |

What is abstracted:

- A command is named by the document it sends, which stands for the header, too;
  a document is a number of blocks, the pieces in which `tread` returns it.
- The end of a document is a silence of 20 seconds, since the command keeps its
  side of the connection open: `ReceiveEnd` may happen whenever all that was
  sent so far is written. The properties therefore speak of what was *received*;
  that it is all the command meant to send cannot be claimed of this code.
- An error path of `client_thread` (response, `unlink`, end of the thread) is one action.
- `SendFile` reads the whole file. That is sound while only threads with the same
  job ID write to it, which is what `clash` is about.
- The command's own exit is not modelled; it shares nothing with the daemon any more.
- What the printer answers is abstracted to printed, failed, printed with the
  answer lost, or an answer over which `printer_status` goes round for ever (`"hung"`; only
  the end of the daemon changes that). How it is read is in `PrinterStatus` (below).
- A job number is written with `Digits` characters, in place and without making the file
  shorter. `SaveJobno` leaves the last digits of a longer number behind a shorter one; what
  the two make together is any number, and 0 stands for those that are not positive.
- Bounds: `MaxJob` stands for `INT32_MAX`, where `get_newjobno` wraps around; `MaxCrash`,
  `MaxFault` and `MaxConf` bound the ends of the daemon, the failures and the edits.

Runs:

| run | instance | shows |
|---|---|---|
| `spool` | 2 commands, 1 block, job IDs 1 and 2, 1 end of the daemon, 1 failure | `TypeOK`, `AcceptedKept`, `PrintsWhole`, `PrintedOnce`, `FifoQueue` (refinement of `PrintQueue`), `JobsPrinted` |
| `spool_reload` | 1 command, 2 edits, 1 end, 1 failure | `ReloadNotLost` |
| `spool_ids` | 2 commands, 3 job IDs, 1 end | violation: see below |
| `workers_loop` | 3 threads, 2 cells of memory | violation: see below |

Two commands are the least that have an order and can be in each other's way
on the disk; with two job IDs the number wraps around, and with one end of the
daemon it starts again at 1, so both ways to an ID that is in use occur; the second is
written with more digits than the first (`MCDigits`, as 10 and 9 are), so that digits stay
behind. One failure reaches every error path, those at the start of the second daemon
too; a deferred job is sent again. Empty and
partial documents occur with a single block. The run `spool` has 665,842 states.

What the properties leave out, because the code loses it: `AcceptedKept`, a job whose
ID is given to another one, and one that a starting daemon removed after a failed read
(`printd.c:365-378`). `JobsPrinted`, besides these, a job that the daemon which is there for good could
not open (`printd.c:349-350`, `363-364`, `717-729`; its files stay, and the next daemon queues it again),
and a daemon that stays in `printer_status` for ever (`printd.c:968-981`).

Fairness: weak fairness of the main thread, of the printer thread and of each client thread:
the scheduler runs them, and a daemon that has ended is started again. That `printer_status`
returns is not part of it: it may go to `"hung"`. System calls and the
printer fail a bounded number of times; without this bound a job the
printer always refuses blocks the list, and `JobsPrinted` would be false.

Findings:

- `spool_ids`: the job ID file is to have the next job number (`printd.c:234`), but it
  is written when the printer thread picks up a job, not when a number is handed
  out. After a restart a number can be given to a second job while the first is
  stored, and the second truncates the first one's document. `AcceptedKept`, `PrintsWhole` and
  `JobsPrinted` leave out such job IDs (`clash`), so that the defect is shown once.
- `workers_loop`: `add_worker` (`printd.c:540-549`) does not make a second worker the head
  of the list, so `workers` ends up at memory that was freed. `Workers` has
  that memory: free memory keeps its contents, may be allocated again, and using
  it may also end the daemon (`Fault`). In the run a structure that is used again points
  to itself and a `client_cleanup` goes round for ever with `workerlock` held, against
  the comments at lines 555 and 570. The search that never ends is a step that
  changes nothing: the thread always runs, as its fairness demands, and gets nowhere.

Proved, for any number of commands, blocks, job IDs, ends, failures and edits:

- `SpoolProofs`: `SpoolTypes`, `ReloadKept`, and `FifoKept`: every step of `Spool` is a
  step of `PrintQueue` or leaves its queue unchanged, under the mapping that puts
  the job in hand in front of the list. `TypeInv` adds to `TypeOK` that a thread
  has a job ID, and the printer thread a job, exactly where the code does.
- In the same module `AcceptedAlwaysKept` and `AlwaysPrintsWhole`, from `SpoolInv`. `AcceptedKept` is
  not inductive: that nobody removes or overwrites the files of an accepted job
  follows from who may have its ID. `SpoolInv` says that a request on disk belongs
  to the job with that ID and is there with its document (`ReqOwner`, `ReqWhole`); that a
  thread which is storing a job shares its ID with nobody and has on disk what it has
  received (`FilingApart`, `FilingWhole`); that a job in the list has its request on
  disk and an ID that no other job, no storing thread and no entry still to be read
  by `build_qonstart` has (`QueueApart`); what the printer thread knows of its
  job (`HandWhole`); that the request of an accepted job is on disk unless the document was printed or the job
  removed by a daemon that could not read it (`AcceptedStored`); and that there are no threads, no list and nothing to read where the
  daemon has none (`NoneWhileDown`, `EmptyWhileDown`). TLC confirmed `SpoolInv` on the instance of
  `spool`, and with one job ID, two ends and two failures, before it was proved.
- And `PrintedOnceAlways` (`PrintedOnce`), from a second invariant, `PrintInv`, that needs nothing of `SpoolInv` and
  holds with every clash of job IDs. `PrintedOnce` counts the further copies of all documents
  (`FurtherCopies`), and is not inductive: it does not say what may still come out. A document is
  created once, under one name (`DataOwner`); what the printer thread has open was read from the
  name of the job in hand (`PaperOwner`); nothing is printed before it is created (`PrintedLater`).
  So a document that was printed can come out again only as long as it is left: on disk and
  not about to be removed, or open (`Left`). `Accounted` counts these with the copies: both
  together are never more than the failures and the ends of the daemon. A good answer turns a document
  that is left into a copy and removes it; a lost answer, or an end before the unlink, adds one of either.
  TLC confirmed `PrintInv` on the instance of `spool` and with one job ID, two ends and two failures.

Assumptions: `SpoolAssumption` and `NoJobAssumption` (types; a job number has at least one
digit; `NoFile`, `Empty` and `NoJob` are no request, document or job).

Only model-checked: `JobsPrinted` (liveness).

### The printer's answer

`PrinterStatus` is `printer_status` with `readmore`: a buffer, its size, the place of
the search, and an answer that arrives in pieces of any length. The answer is a
sequence of tokens, since the code looks only at a few places of it.

Finding, `printer_status`: the comment before the function (`printd.c:885-887`)
says that the headers can come in several reads. The search for the end of the
header stops before the end of the data, but more is read only when it has
reached the end (`printd.c:968-981`), so with a header in two pieces it goes round
for ever; where more is read, the offset `readmore` returns is added to the size
(line 938); and for the body one read at most is made, over the bytes
that are there (line 992). `VerdictRead` is violated.

### Opening a database

`DbOpen` has `db_open` with every combination of `O_CREAT` and `O_TRUNC`, `db_store`
as one action, and `db_close`, for processes that do so in any order. `TableOnce`
says that the hash table is written only where there is nothing, that it will be
written if anybody is to write it, and that an index record has its
data; and it says when the code promises less: with `O_CREAT` alone nobody writes
the table (`db.c:134`), and `O_TRUNC` empties the two files one after the other before
the lock is taken (`db.c:117` against `140`).

## The open server

`OpenServer` has the server (`srv`, `client`, `pollfd`, `rset`, `maxi`, `i`, and the
descriptors `conn`), the clients (`pc`, `want`, `outcome`, the name `path` each socket is bound
to) and what is between them: `backlog`, `toServer`, `toClient`.

| actions | code |
|---|---|
| `ServListen`, `ServListenFails` | `serv_listen`, and the first entry of both arrays |
| `Poll`, `Select` | `poll` and `select` return: at least one descriptor is ready, and those that are ready are noted for the loop |
| `Accept`, `AcceptStale` | `serv_accept`, `client_add` with `client_alloc`; it refuses a name that is too old |
| `HungUp`, `RequestPoll` | `loop.poll.c`: a client has left, and the last entry of `pollfd` takes its place; a request |
| `Closed`, `RequestSelect` | the same in `loop.select.c` |
| `ReadFails` | a client has left with an answer unread and the server's read fails, which ends the server |
| `Ask`, `Cat`, `End`, `Restart` | `main` of `open`, and the user who runs it |
| `Bind`, `Connect`, `ConnectFails` | `cli_conn` |
| `Write`, `Recv`, `RecvClosed` | `csopen` and `recv_fd` |
| `Kill`, `Stale` | a signal; a socket name that gets older than `STALE` seconds |

What is abstracted: a request is one piece, or two when the name does not fit in
`MAXLINE`; `buf_args` and `cli_args` are the condition whether a name is whole. An
answer is text and a status, or a descriptor, and `recv_fd` takes as much of it at
a time as it likes, but never past a descriptor. Descriptors are given out lowest first, as
the kernel does, because the server's arrays depend on them.

Run `open_server`: 2 clients, one name of each kind, 2 requests of each client, and
1 upset (a client killed, a stale name, or a name too long); `NALLOC` is 2, so that the
table grows at the second client. With two clients one leaves while the other is behind it
in both arrays and its entry is moved, and a client that comes again takes a slot that was used. (With three
clients, one request each and no upset the properties hold as well; TLC needs
a minute for it.)

- `ConnectionsTracked`: at every wait the arrays and the connections agree.
- `ServerStays`: no orderly client can end the server.
- `AnswerForRequest`: an answer is that of the client's last request. It is stated for clients
  that never sent a name too long: such a request is answered twice, for one read is
  taken for one request (`loop.poll.c:73`), and from then on every answer is late by one.
- `UidIsSenders`: a request is handled under its sender's user ID. The loop over
  `poll` takes the ID from the array at another index than the descriptor
  (`loop.poll.c:92`), so that it is promised there only until a client has left.
- `RequestsEnd`: nobody waits for an answer for ever.

Fairness: weak fairness of the server and of each client's steps; a user need not
type anything. The scheduler runs a process that can run, and `poll` and `select`
report what is ready.

Proved, `OpenServerProofs`, for any number of clients, names and requests, any `NALLOC` and any
bound on the upsets, for both loops: `ArraysAgree` (`ConnectionsTracked`), `AnswersPaired`
(`AnswerForRequest`), `SendersUid` (`UidIsSenders`) and `ServerStaysUp` (`ServerStays`), all from
`OpenInv` (`OpenInvHolds`). A connection is in the arrays at every step of the loop, not only at its
head; `OpenInv` therefore says what the loop knows half way: which entry belongs to which
connection (`TableKept`, `ArrayKept`), that with `poll` the two arrays are in the same order as long as
nobody has left (`SameOrder`), which ready descriptors are still to be looked at (`Scanning`), that no
descriptor has two connections (`OneConnection`; that one is free for the next is the
pigeonhole principle), that requests and answers of a connection pair up
(`Paired`), and that nothing is on its way where nobody asked (`Quiet`). TLC confirmed `OpenInv` on the
instance of `open_server` first. Assumption: `OpenServerAssumption` (finitely many clients;
`NALLOC` is positive; what stands for an outcome that is no file is no name).

Only model-checked: `RequestsEnd` (liveness).

## The small programs

Each module of this part is one program or library routine with all its
threads, processes and signals, mostly with the caller the repository has for it.
`Programs` has an instance of each, and each behaviour is one of one of them
(`which`), so the run `programs` checks all of them at the price of the sum of their
states (about 89 000). A property of `Programs` is a conjunction: for each program
it applies to, what that program's module says under its own name.

| module | code | instance | property |
|---|---|---|---|
| `Refcount` | `threads/mutex1.c`, `mutex2.c`, `mutex3.c` | all three, 3 threads, 2 objects | `InUseKept`: an object is freed when nobody has or can find it |
| `Getenv` | `threadctl/getenv1.c`, `getenv2.c`, `getenv3.c` | 2 threads, a value that fits, one that does not, none | `InUseKept`: what a call copied, the value or the beginning of a long one, stays until the thread calls again; with `getenv1` only if no other thread has called; who is told that a variable is not set has no buffer or asked for one that is not |
| `Semaph` | `lib/semaph.c` | 3 processes, of which one uses `sem_open`; 1 exits without closing | `CreatorsKept`: the set is neither removed nor initialised under who came in by `sem_create`, the counter is right, the semaphore admits one |
| `TellWait` | `lib/tellwait.c`, `ipc1/tellwait.c` under `ipc1/devzero.c` and `advio/deadlock.c` | 4 turns | `TurnsAlternate`: the counter has the value each process expects; of the two that lock in a circle one is refused |
| `JobQueue` | `threads/rwlock.c` | 2 threads, 3 jobs | `QueueInOrder`: from both ends the list is the queue, and a job that was found is there when it is removed |
| `PollMsg` | `ipc2/pollmsg.c`, `exercises/pollmsg2.c` | 2 queues, 2 messages each | `QueueInOrder`: each message is printed once and in order |
| `Coproc` | `ipc1/pipe4.c` with `add2.c` or `add2stdio.c` | 2 lines | `QueueInOrder`: what is printed is the answer to the line |
| `Barrier` | `threads/barrier.c` | 2 threads, 2 numbers each | `SortMerged`: the output is the sorted input |
| `Timeout` | `threadctl/timeout.c` | a delay of a second, clock up to 8 | `RetryOnTime`: once, in time, and not while the caller is between check and unlock |
| `AioCopy` | `advio/rot13c2.c` | 2 buffers, 4 blocks | `CopyWhole`: each block is in a buffer, still to be read, or written at its place |
| `MemStream` | `exercises/fmemopen.c` | a buffer of 3, 2 characters | `StreamIsFile`: every mode and order of calls against a file |
| `DbOpen` | `db_open` | 2 processes | `TableOnce` (above) |
| `Pty` | `pty`, `lib/ptyfork.c`, `lib/ptyopen.c` | 2 pieces each way, terminal, file or driver; SIGTERM from its child and from others | `CallerRestored`: the terminal is as it was when `pty` exits, and when SIGTERM ends it, unless that came from outside before there was a handler; all output is copied when `pty` ends by itself |
| `TtyModes` | `lib/ttymodes.c` under `termios/t_raw.c` | one signal of each kind | `CallerRestored`: the terminal is as it was |
| `Sleep` | `lib/sleep.c`, `signals/sleep1.c`, `sleep2.c` under `tsleep2.c` | one SIGINT, a caller with an alarm and one without | `CallerRestored`: action and mask are as they were, and no timer of `sleep` is left; SIGALRM meets the caller's action only where the next section says |
| `SystemCmd` | `signals/system.c` in a program with `signals/child.c` | one other child | `CallerRestored`: the status is the shell's, the caller's signals are as they were |
| `Suspend` | `signals/suspend2.c`, `threadctl/suspend.c` | 2 interrupts | `ProgramsEnd`: SIGQUIT is never missed |
| `Daemon` | `daemons`, `lib/daemonize.c` | 3 processes, both versions | `OneDaemon`: one serves, its ID is in the file, a SIGHUP is not forgotten |
| `Popen` | `lib/popen.c` | 3 streams | `PipesClosed`: `pclose` returns in any order |
| `OpenForked` | `ipc2/open.fe`, `opend.fe` | 2 lines, a name that can be opened and one that cannot | `PipesClosed`: the server ends with its client |

`PipesClosed` also says of `Coproc`, and `ProgramsEnd` of `TellWait`, `Barrier`,
`Timeout`, `AioCopy`, `Pty`, `Sleep` and `PollMsg`, that they come to their end.

The bounds are two of whatever meets and three where the third matters: a thread that finds an object
again while the second gives it up, a process that comes in while two leave, a stream
between two. Two rounds show what is left over from the first.

Fairness: weak fairness of each thread's, process's and handler's steps, since the scheduler runs
what can run; of the completion of an asynchronous operation and of the expiry of a timer, which the
kernel owes. Users type, processes die and signals come without fairness.
One strong fairness: the signal thread of `threadctl/suspend.c` gets a mutex that
is free again and again, although `main` may wake up for nothing and take it again any
number of times; POSIX leaves that to the scheduler, and without it no bound
on the wait could be had.

What these programs do not promise, and the properties therefore exclude by name:

- `sem_open` tests nothing after `semget`: who comes in by it can find the set
  removed (`semaph.c:193`).
- The loop of `devzero.c` with signals can miss a wake-up: `WAIT_PARENT` and `WAIT_CHILD`
  restore the mask, and the next signal may come between the test of `sigflag` and
  `sigsuspend` (`tellwait.c:38-45`). `ProgramsEnd` has it for the pipes, and for one exchange.
- `sleep1.c` may sleep for ever and `sleep2.c` may leave another handler half way, as their
  chapter wants to show. In `lib/sleep.c` a SIGALRM that arrives after another
  signal has ended the sleep and before `alarm(0)` is still pending when the caller's
  action and mask are back, and meets the caller's action (`sleep.c:38-44`).
- A caller of `sleep` that has an alarm running loses it (`sleep.c:27`), or is woken by it early;
  with `sleep2.c` it may come before `setjmp`, and `longjmp` is undefined then. A sleep of 0 seconds,
  which sets no timer and waits for any other signal, is not modelled.
- A SIGTERM from anybody but its child that comes to `pty` between `tty_raw` and `signal_intr`
  (`main.c:89`, `loop.c:39`) ends it with the terminal raw. So does, at any time, a signal that `pty` does not
  catch, such as SIGHUP; only SIGTERM is modelled.
- A signal between `tcsetattr` and the assignment to `ttystate` finds `tty_reset` with nothing to
  do, and the terminal stays raw (`ttymodes.c:109-137`).
- `reread.c` blocks SIGHUP after it has set it to default: a SIGHUP in between ends the daemon.
  One that comes while SIGHUP is ignored is not seen.
- `pollmsg2.c` waits without a predicate: the order is kept as long as
  `pthread_cond_wait` does not return by itself. (Its `sizeof(struct mymsg)` names no type of the
  file; the model takes it for the message.)
- With `add2stdio` the coprocess keeps its answer in a buffer, and the two wait for each other until one is
  ended from outside.
- `csopen` of `open.fe` keeps both ends when `fork` fails, and its next call waits for nobody.
- `barrier.c` takes `LONG_MAX` for "no number left"; the numbers are below it, as `random` makes them.
- `getenv1` shares one buffer among all threads. `getenv3` returns `NULL` also when there is no memory for
  a thread's buffer (`getenv3.c:31-33`). Both cut a value that is too long; with `getenv3` the byte behind
  it is what `malloc` left there, so that it need not end where the buffer does
  (`getenv3.c:41`).

Proved, `RefcountProofs`, for any number of threads and objects and all three versions:
`FreedUnreachable` (`NoUseAfterFree`) and `CountIsHolders` (`f_count` is the number of
references). Neither is inductive alone. `RefInv` is: besides types (`TypeOK`) and the two
(`Counted`, `Allocated`), it says what is known of a thread in a call (`InCall`: where it has
the lock of the table, that it has the reference it gives up, and that an object it
has found is in the table) and that a thread about to free an object is alone with it
(`FreeAlone`). In the gap of `mutex2.c:76`, where `foo_rele` gives up the object's
lock to take the locks in the other order, `InCall` says nothing of the count: this
is why the code tests it again. Assumption: `NullApart`, that `NULL` is neither
an object nor a thread.

Proved, `ProgramsProofs`, about `Programs` itself, for any value of its constants: any number of threads,
processes, objects, jobs, queues, messages, lines, buffers and blocks, any sizes and delays. The inductive
invariant stands at the end of each program's module; TLC confirmed each before it was proved.

- `OneDaemonServes` (`OneDaemon`), from `DaemonInv`: the lock belongs to whoever is past it
  (`Locked`), the file has held its ID since it was written (`Named`), and a SIGHUP that counts is with
  a process that serves.
- `TableWrittenOnce` (`TableOnce`), from `OpenInv`: who is behind the lock has it (`Behind`); an
  index file that was emptied is there, and if it is empty somebody will write the table (`Writes`); and as
  long as no truncation overlapped with another open, who creates the database is alone with it
  (`Alone`), so that index records never outlive their data.
- `InUseIsKept` (`InUseKept`), from `RefInv` of `RefcountProofs` and from `GetenvInv`: while the
  static buffer is not shared, one thread at most is in a call or uses its result; from the end of the copy
  on the buffer has one of the things the copy can leave there (`Strncpy`), and "not found" comes from a variable
  that is not set or from a thread without a buffer (`Result`).
- `CallerIsRestored` (`CallerRestored`), from `PtyInv`, `ModesInv`, `SleepInv` and `SystemInv`: where
  the terminal may be in another mode `ttystate` says so and the handlers are set up;
  the child sends no SIGTERM to a `pty` that made the terminal raw, and one from outside ends it only where
  there is no handler yet; what of the caller's signals
  is changed at each place of `sleep` and `system`, and that SIGALRM is pending there only for the reasons
  above, the alarm of the caller among them; and that the shell's status is collected
  by `system` and by nobody else, because SIGCHLD is blocked.
- `TurnsAreAlternate` (`TurnsAlternate`), from `TurnsInv`, for signals and pipes alike: a process
  is told by a signal or byte, or by the flag, and never by both (`Flag`); in `devzero.c` exactly one of the
  two has its turn or has been told that it has (`OneTurn`), so that no signal is sent while one
  is pending and none is lost in the count; in `deadlock.c` who may lock the other byte
  knows that it is locked, and gets the error only when the other waits (`Locks`).
- `SemaphoreKept` (`CreatorsKept`), from `SemInv`: what a process has taken from the set at each place is in its
  adjust values (`Took`, `Adjusted`), so that its end gives back just that; and as long as
  the set exists, it is blank or its three values follow from the number of its users
  (`Blank`, `Ready`, `Counted`). The counter is right only while nobody has the lock; `Counted` says what it is
  in between, and that who is about to remove the set has found it without other users
  than those of `sem_open`.
- `QueuesInOrder` (`QueueInOrder`), from one invariant for each of the three programs. `JobInv`: the pointers are those of
  the queue, no job is in it twice, and a job belongs to the one thread that may find it, which is why it
  is still there when the thread removes it. `PollInv`: with `pollmsg.c` what is received and
  not printed is in the socket or with the helper (`Piped`), with `pollmsg2.c` it stays in the
  structure from the receipt to the print, and the byte in the socket stands for it (`Handed`). `AnswerInv`:
  the one line on its way is in one of the pipes or with the child (`OnTheWay`).
- `CalledOnTime` (`RetryOnTime`), from `TimeInv`: who has the recursive mutex, and how often (`Owned`); that either `main`
  or the helper calls (`Called`); and that the helper sleeps until the time asked for (`OnTime`), which
  rests on the subtraction of the two times in seconds and nanoseconds: the lemma `TimeDifference` says that its
  borrow loses nothing.
- `CopiedWhole` (`CopyWhole`), from `CopyInv`: a buffer in use holds its own block, which no other has, plain or
  translated as its operation says (`Holds`), and each block is still to be read, in a buffer or written
  (`Somewhere`).
- `MergedInOrder` (`SortMerged`), from `SortInv`: the parts are sorted before they are merged, whoever comes last to the barrier
  (`Parted`); each number occurs in the output so far as often as at the places merged (`Merged`), and among
  all as often as in the input; the output is in order and not above the rest (`Unmerged`). That a part is
  a permutation of itself after the sort is what `heapsort` is assumed to do.
- `StreamKeepsFile` (`StreamIsFile`), from `StreamInv`: the buffer is the file, or, where it cannot be read, the
  file with zeros in it (`Faithful`); a zero follows the data (`Terminated`); what was returned is in the file
  (`Returned`).

Assumption: `ProgramsAssumption`: types of the constants; `NULL` is no thread, process or object; the
processes that use a semaphore are finitely many and no more than its counter can tell
(`BIGCOUNT`); a second has at least one tick; the memory of a stream is not empty, which `fmemopen` refuses
(`fmemopen.c:42`).

Only model-checked: `PipesClosed` and `ProgramsEnd` (liveness).

## Only model-checked, not modelled, and what is left

Out of the provers' reach, and so left to TLC: liveness (`CallsEnd`, `JobsPrinted`, `RequestsEnd`,
`PipesClosed`, `ProgramsEnd`) and `ENABLED`. What a recursive definition over data computes could not be
proved either, so the properties are stated without: counts and sums are cardinalities of sets, and
lists are walks, numbered below a bound. An induction over the naturals below a bound is within reach, since the
pigeonhole principle gives it (`SetInduction` in `DbListProofs`). The four runs that expect a violation
show what the code does not keep, and nothing is proved of them.

To be added, in this order:

1. A run and a proof about the part of the list's invariant in `Workers` that the code does keep.
2. The fork handlers of `threadctl/atfork.c`, and the programs that use the
   synchronisation of parent and child once more (`exercises/pendlock.c`).
3. `Db`'s calls inside `DbOpen` instead of `db_store` as one action.

Not modelled, because nothing in them interleaves with anything or can fail half way:

- wrappers of single system calls, the demonstration programs of the chapters, `lib/error.c`,
  generated tables (`standards/conf.c`, `standards/options.c` print what a system
  supports), `advio/mcopy2.c`, which copies through mapped memory in one thread, `threads/condvar.c`,
  a fragment without a caller, `threads/timedlock.c` and `cleanup.c`, which show one call each;
- the network: `sockets/*` are clients and servers of one exchange each; name
  lookup of the spooler;
- data without control: the IPP and HTTP headers the spooler builds, wording of messages, options;
- the notes in `Linux`.
