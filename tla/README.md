# XFileCrypt in TLA+

XFileCrypt encrypts or decrypts every file of a directory with AES-CBC. Each file is
handled by a chain of three tasks (read, crypt, write), and the tasks of all files run in
one thread pool. What can go wrong in it is the concurrency (the pool's queue and its
condition variable, the lists between the tasks with their back-pressure, the end mark
that every task waits for, many files on few threads, and what happens to all of it when
one step fails) and the arithmetic of the encryption (chunks, padding, the vector of the
chaining, and a DES of its own). AES itself is OpenSSL's.

This directory models these parts, checks them with TLC on small instances and proves
their safety properties with TLAPS.

## 1. Inventory

| Component | Source | State | Operations | Interacts with |
|---|---|---|---|---|
| thread pool | `x_thread_pool/x_thread_pool.{h,cc}`, `x_task.h` | `is_running_`, `x_tasks_`, `task_run_count_`, `threads_`, `mutex_`, `cv_`; the promise of each task | `Init`, `AddTask`, `GetTask`, `Run`, `Stop`, `~XThreadPool`, `set_return`, `get_return` | runs the tasks of every file; the main thread adds tasks, waits, stops |
| task chain | `task/task_base.{h,cc}` | `datas_` under `mutex_`, `next_status_`, `prev_status_`, `cv_` with `cv_mutex_` | `PushBack`, `PopFront`, `DataListNum` | each task pushes into the next one's list, waits on its own `cv_`, is notified by the next one |
| read task | `task/read_task.{h,cc}` | `ifs_`, `data_bytes_`, `total_read_bytes` | `OpenFile`, `Main` | pushes blocks to crypt, marks the last one |
| crypt task | `task/crypt_task.{h,cc}` | `crypt_bytes` | `Main` | pops from its list, pushes to write, notifies read |
| write task | `task/write_task.{h,cc}` | `ofs_`, `write_bytes` | `OpenFile`, `Main` | pops from its list, notifies crypt |
| file crypt | `task/file_crypt.{h,cc}` | the three tasks, the three byte counts | `Start`, `Wait` | adds the three tasks to the pool, waits for their promises |
| command line program | `main.cc` | the list of `FileCrypt`s | directory walk, start all, wait for all | `FileCrypt`, the static pool's destructor |
| data block | `memory/data.{h,cc}` | buffer, `size_`, `end_` | `New`, `set_size`, `set_end`, destructor | `synchronized_pool_resource` shared by all tasks |
| AES-CBC wrapper | `crypt/aes_cbc_crypt.{h,cc}` | key schedule; the IV is local to a call | `Init`, `Encrypt`, `Decrypt`, `GetMaxPaddingSize` | OpenSSL |
| DES wrapper, DES cipher | `crypt/des_crypt.{h,cc}`, `crypt/des/des.{h,cc}` | key schedule, subkeys | as above, block by block | no caller in the program |
| tests | `ctest/`, `x_thread_pool/test_task.h` | none | drivers | |

What is hard here, and what makes each component correct:

* **Thread pool.** `Init` sets `is_running_` after it has created the threads; `Stop`
  resets it and notifies without `mutex_`; `GetTask` waits once, without a predicate;
  `AddTask` notifies after it has released `mutex_`. Correct is: each task is taken once
  and in order, no task stays in the queue while workers sleep, a task that throws costs
  no worker, `Stop` ends and leaves nothing behind.
* **Task chain.** A task tests the length of the next list and then sleeps, the next task
  notifies without `cv_mutex_`, and the flags that enable the test and the notification
  are set by the other side. Correct is: a sleeping task has somebody who will wake it,
  the lists stay bounded, nobody waits for ever.
* **The three tasks.** The end of the work travels as an end mark on the last block.
  Correct is: blocks arrive once and in order, the end mark is on the last one and no
  other, a number of bytes other than 0 is reported only for a whole output, the work
  ends. Every fault (open, read, write, allocation, a file that changes, a pool that
  stops) has to leave that intact.
* **FileCrypt and main.** Reading must be taken from the queue before what consumes it,
  all three promises have to get a value, several files share few threads.
* **AES-CBC.** Chunks of 512 KB are encrypted with a fresh IV each. Correct is: decrypting
  with the same chunking gives back the plain text, the padding is found where it was put,
  the output buffer is large enough.
* **DES.** Decryption undoes encryption; the permutations are inverse to each other, the
  subkeys are those of the key turned round by round, and the weights of the bits that
  choose in the boxes do not depend on the build in a way that matters.

`PROJECT.json` lists the hazards one by one with their lines and the properties for them.

## 2. Modules

    DataInduction        sums and induction for the proofs (no code)
    XThreadPool          the pool and its client                <- MCXThreadPool (TLC)
      XThreadPoolProofs  its theorems
    DataSizes            block sizes and counts
      FileTransform      what a FileCrypt promises to its user (abstract)
      FileCrypt          read -> crypt -> write, Start, Wait    <- MCFileCrypt (TLC)
        FileCryptProofs  types, the order of the blocks
          FileEndProofs  the end mark, who wakes whom, what stays behind, the output
            FileRefinementProofs  it implements FileTransform and FileChain
      BlockCrypt         AesCBCCrypt and DesCrypt               <- MCCrypt (TLC)
        BlockCryptProofs its theorems
    Des                  crypt/des                              <- MCCrypt (TLC)
      DesProofs          its theorems
    FileChain            what FileCrypt promises to a scheduler, several files (abstract)
      XFileCrypt         main.cc, files, queue and workers      <- MCXFileCrypt (TLC)
        XFileCryptProofs its theorems

How they hang together: `XThreadPool` shows what the pool is to its user (a queue that
is served in order, each task by a worker of its own), `FileCrypt` shows what a chain is
to the pool (`ImplementsChain`: it implements `FileChain` for one file), and `XFileCrypt`
composes the two, with one queue and one set of workers for all files. `FileCrypt` takes
the number of bytes a call of the cipher returns from `CryptSizes` in `DataSizes`;
`BlockCrypt` shows that the loops return such a number (`SizeAsPromised`).

### XThreadPool

One action per step that touches shared state. `main` is the client's place: it creates
the workers (`Spawn`, `InitDone`), adds the tasks (`AddTask`, `NotifyOne`), waits for all
promises (`WaitReturns`) and stops the pool (`StopFlag`, `NotifyAll`, `Join`), as
`FileCrypt::Start`, `Wait` and the destructor of the static pool do. A worker's `pc`
follows `Run` and `GetTask`: `loop` (the test of `is_running_`), `get` (about to lock
`mutex_`), `towait` (has found the queue empty and holds `mutex_`), `waiting` (in
`cv_.wait`), `woken` (has left the wait and wants `mutex_` back), `begin`, `main`, `end`
(around the call of `Main`), `exited`.

`mutex_` is not a variable. A critical section that touches one shared object is one
action. The only one that is longer is `GetTask` from the test of the queue to the wait:
while a worker is at `towait`, `MutexFree` is false and nobody else gets `mutex_`. `Stop`
and the notifications do not lock it and may fall in this window. `cv_.wait` may return
without a notification (`SpuriousWake`). A task's `Main` may throw (`Throw`).

### FileCrypt, DataSizes

Each task has a `pc` for its place in `Main`; an action is one access to what the threads
share. `datas`, `nextStatus`, `prevStatus` are the members of the same name; `hand` is the
block a task has popped or read but not yet pushed; `value` is the promise. A block is its
number, its length before and after the cipher, and its end mark.

The wait on `cv_` is three actions: `Gate` reads `next_status_`, `Check` evaluates the
predicate, `Park` falls asleep. `Notify` moves a task that is `asleep` back to `check` and
does nothing to one that is at `park`: this is the lost wake-up the code allows. `Status`
and `Count` are the two reads of the condition before `notify_one`.

How many bytes `Encrypt` and `Decrypt` return is `CryptSizes` in `DataSizes`. When a
decrypted block ends the file, the number depends on the last plain byte, which is any
padding from 0 to a cipher block. A larger byte ends the process in `memcpy`; such a run
is not continued in the model.

What goes wrong in a run is chosen in `Init` from `FaultSets`: `openIn`, `openOut` (a file
does not open), `noThread` (the write task stays in the queue, because other files hold
every thread), `throw` (an allocation throws, `XThreadPool::Run` swallows it), `resize`
(another process changes the length of the input, once), `disk` (a write fails, from some
block on), `stop` (`Stop` is called while the three tasks run; `main.cc` waits first, other
users of the class need not).

Every task has a thread of its own here, except in the runs with `noThread`. This is the
case when the pool has at least three threads and one file; several files on one pool are
the subject of `XFileCrypt`.

`Data::New`, which allocates the buffer before the block exists, is the point where
`throw` strikes (`NewData`). `AllReleased` says that no block is left in a list or a hand
when the tasks have ended: the three tasks hold each other through `next_` and `prev_`,
which are `shared_ptr`s, so what stays in a list stays for ever.

### FileTransform

The promise of a `FileCrypt`, without threads: the blocks appear in the output one after
the other, each transformed, the last one with the end mark, and the work is reported when
they are all there. `FileCrypt` implements it with the output file for `outFile` and "the
write task's promise has a value" for `reported` (`ImplementsTransform`).

### FileChain, XFileCrypt

`FileChain` keeps of a chain what matters to whoever runs it: how many blocks each task has
passed on (`passed`), and whether it is still to be queued, in the queue, taken, running,
asleep on its condition variable, or ended (`place`). A worker that has popped a task
(`Begin`, in `GetTask`) sets `next_status_` of the task before it later and under no lock,
at the beginning of `Main`: in between the task is "taken", and `Announce` is the
assignment. Only then has it `Started` for the task before it, which looks at the next list
only if it has: a task may fall asleep only if the next one has started and has more than
`Limit` blocks to do; it may always wake. It may end when it has passed the last block on,
and only the reader may end if there is none.

The mapping from `FileCrypt` is in its `Chain`: a task is "asleep" from the moment it has
found the predicate false (`Blocked`), the write task under `noThread` stays queued. With
three tasks and a thread for each of them it makes no difference when a task is popped, and
`FileCrypt` has the pop and the assignment in one step (`CryptEnter`, `WriteEnter`): this is
`Enter` of `FileChain`, both its steps in one. With several files and few threads it does
make a difference, and `XFileCrypt` takes tasks by `Begin` and `Announce`.

`XFileCrypt` is `main.cc`: `main` is what it does next, `Start(f, t)` is the `AddTask` for
one task of one file, `Wait(f, t)` the `get_return` for it with the addition to the totals,
file after file in both loops. `Take` is a worker that takes the first task of the queue;
it is possible while fewer tasks have a worker (`Busy`) than there are `threads`. The
number of threads is `thread_nums_` or any smaller number above 0, because workers may have
ended before `Init` set `is_running_` (the finding of `pool_init`).

### BlockCrypt

The classes `AesCBCCrypt` and `DesCrypt` have the same loops; they differ in whether a
block is chained to the one before and in how a password becomes a key. One action is one
iteration of `Encrypt` (`EncryptInner`, `EncryptLastPadded`, `EncryptLastFull`) or
`Decrypt` (`DecryptInner`, `DecryptLast`). `BeginCall` sets the locals of a call, the
vector of 0 among them, and `EndCall` is the caller: the next chunk, or, after the last one
of the encryption, the decryption of what has been written by an object of its own. With
`roundTrip` FALSE a file nobody has encrypted is decrypted.

`i`, `iv`, `in` and `written` are `i`, `iv`, `in` and the filled part of `_out_data`. What
lies behind the data of a block that is not full is any bytes (`Fetched`); `data_size` is
unsigned and wraps around (`DataSize`, `SizeRange`), `memcpy` then ends the process
(`crashed`). The bytes that `Init` copies from behind the end of a password are any of
`Residues`, and so is the key schedule of a password that is too long for AES: the two
objects of a round trip may then have different keys, or else `KeysAreDetermined`.
The cipher is a parameter: a permutation of the blocks for each key (`CipherAssumption`).

### Des

The DES of `crypt/des/` bit by bit, with the tables of the source. `InitKey` and
`GenSubKey` are `Des::Init` (one action per subkey), `PermuteIn`, `Round` and `PermuteOut`
are `Crypt`, which is called for `Encrypt` and then for `Decrypt`. A `std::bitset` is a
function from 0 to n - 1. `ExpendBin2Dec` doubles a variable in the operands of a fold
expression, in an order that the language leaves open for the build: `leftFirst` is either
order for a whole run. The order decides which entry of a box is taken, so the two builds
encrypt differently, but each one has to decrypt what it has encrypted. `pairs` records the
halves after each round of the encryption and is read by no action.

`MCCrypt` puts `BlockCrypt` and `Des` side by side for TLC: a behaviour is one of the one
or one of the other.

Definitions called "a mutated form" in a comment are variants of the definition after them
with a plausible bug. No action uses them; each property has been seen to fail when one of
them replaces the original.

## 3. Runs

| Run | Instance | Shows |
|---|---|---|
| `pool` | 3 workers, 3 tasks | `TypeOK`, `OnceInOrder`, `NoTaskStranded`, `StoppedClean`; `AddedIsTaken`, `StopEndsOutsideWindow` |
| `pool_init` | 2 workers, 1 task | violation of `InitStartsAll` |
| `pool_stop` | 2 workers, 1 task | violation of `StopEnds` |
| `file_live` | files of 0, 1, 2, 9, 10 bytes, both directions, no faults or `noThread` | `BacklogStaysBounded`, `Completes`, `SleepersWake`, `WriterCompletes`, `ImplementsTransform`, `ImplementsChain` |
| `file_faults` | files of 0, 7, 8 bytes, both directions, one fault of each kind | `TypeOK`, `InOrder`, `WholeOnReturn`, `SleeperHasNotifier`, `AllReleased`, `StopReachesRead` |
| `file_empty` | 0 bytes | violation of `FileCompletes` |
| `file_wakeup` | 9, 10 bytes | violation of `NonEmptyFileCompletes` |
| `file_backlog` | 9, 10 bytes | violation of `CryptBlocksAboveLimit` |
| `file_stop` | 9, 10 bytes, fault `stop` | violation of `StopEndsTasks` |
| `files` | 3 directories of 3 files, 0 to 3 blocks each, 1 to 4 threads | `TypeOK`, `FewFilesUnheld`, `SleeperIsServed`, `WaitedIsWritten`, `TotalsAreSums`; `OthersAreWritten`, `OneThreadIsEnough` |
| `crypt` | both classes, files of 1 to 9 bytes, passwords of 8 to 40 characters; `Des` with 3 passwords, 5 texts, both orders of the fold | `BlockTypeOK`, `FitsBuffer`, `SizeAsPromised`, `DecryptRecovers`; `DesTypeOK`, `DecryptUndoesEncrypt`, `SubKeysAreTurnedKeys` |
| `crypt_chunk` | files of 1 to 9 bytes, AES password of 16 characters | violation of `DecryptAlwaysRecovers` |

**Bounds.** Three workers are the pool's minimum (`thread_nums_` is 3 on one core), and
the least number with which one can take a task that another was woken for while a third
sleeps; three tasks are those of one file. In `FileCrypt` a cipher block is 2 bytes and a
read is 2 bytes, so that 9 and 10 bytes are five blocks, the last one short or full, 1 and
2 bytes are one block, and 0 is the empty file. The limits keep their order
(8 KB < 512 KB < 5 MB < 20 MB become 1 < 2 <= 2 < 3): the reader waits above one block,
crypt above three, and both notify at two or fewer, so both tasks do fill their list, sleep and
are woken within five blocks. With one read unit per cipher block, a chunk is not split
further; the cipher's work inside a chunk is the subject of `BlockCrypt`. No counter
needs a bound: a run ends when the file does.

In `XFileCrypt` three files are needed for one before and one after the file that hangs;
the directories have an empty file first or last, one that ends where a read ends, and, in
the third, neither. Three blocks are enough for a task to get ahead by more than `Limit`
(1) and to sleep with work left. One thread is the worst case of `OneThreadIsEnough`; with
an empty file, which keeps two threads for ever, and an aligned one, which may keep one,
four threads are the least for which a thread is left.

In `BlockCrypt` a byte has 2 bits, a cipher block 2 bytes and a chunk 2 blocks. Up to the
length of a chunk every file is tried, beyond that two of each length up to 9 bytes, which
is two chunks and a byte: every position of the end relative to block and chunk occurs. The
small cipher mixes both bytes and the key. Passwords of 8, 16, 20, 23 and 40 characters
have a key of their own, the key and the 0 behind it, bytes from behind the end, or none.
`Des` has nothing to scale down; its ciphertexts agree bit for bit with those of a compiled
`des.cc`.

`CHECK_DEADLOCK FALSE` is set because the program ends; that it ends when it should is
what the liveness properties are for.

**Fairness.** Weak fairness for the client or main thread and for each worker or task: the
operating system gives every thread that can run a turn. A poll of an empty list is a step
like any other. Nothing is assumed of wake-ups without a notification, of throwing, of the
faults, or of which thread gets a mutex first. No strong fairness is used.

In `XFileCrypt` fairness is weak too: for `main`, for the workers (`Take`), and for each
task that has one (`Progress`). `Progress` contains `Announce`, and the wake-up of a task
that has work left, and `FileCrypt` justifies it: `SleepersWake` says that such a task does not sleep for
ever. A sleeper with nothing left (the reader of an aligned file) gets no such promise, nor
does a read or write task that polls for an end mark that never comes.

**What the violations say.** Each quotes a comment of the source that does not hold:

* `pool_init`: a worker that tests `is_running_` before `Init` has set it ends for good.
* `pool_stop`: a worker that is between the test of `is_running_` and `cv_.wait` when
  `Stop` notifies sleeps for ever, and `Stop` with it in `join`. `StopEndsOutsideWindow`
  shows that this window is the only way to it once all tasks have returned.
* `file_empty`: an empty input never produces an end mark; `Wait` hangs.
* `file_wakeup`: for a multiple of the read size the reader passes the gate once more
  after the last block, and may sleep when nobody is left to wake it. The output is
  complete (`WriterCompletes`), but `Wait` hangs. All other lengths are done
  (`Completes`).
* `file_backlog`: the limits are in units of 8 KB, the blocks have up to 512 KB.
* `file_stop`: `while (is_running)` tests a `std::function` instead of calling it. The
  reader does call it, and gets out of its wait only because crypt goes on
  (`StopReachesRead`; a crypt task that heeded the stop would leave the reader asleep).
* `crypt_chunk`: a file that is a multiple of 512 KB is encrypted to one that is 16 bytes
  longer; decryption gets these 16 bytes in a call of their own, with a vector of 0 instead
  of the block before. Its last byte is then not the padding. All other files come back
  (`DecryptRecovers`).

What the run `files` adds to `file_empty` and `file_wakeup`: such a file costs the threads
its tasks keep, and `main` waits for it for ever, but the other files are written as long
as one thread is left (`OthersAreWritten`).

## 4. Proofs

`XThreadPoolProofs` proves, for every finite non-empty set of workers and every number of
tasks above 0 (`PoolAssumption`, the only assumption):

* `Typing`, `TakenOnceInOrder`, `NoLostWakeup`, `StopLeavesNothing`: the four safety
  properties that the run `pool` checks.
* `Safety`: the invariant `PoolInv` from which they follow.

None of the four is inductive alone. `PoolInv` adds `Phases` (what the client's place
implies: before `InitDone` nothing is queued, from `stop` on all tasks have returned, a
worker at `towait` has an empty queue because it holds `mutex_`), `Order` (a worker at work
has a task, a task that returned has left the queue) and `Counted` (`task_run_count_` is
the number of workers between `++` and `--`, which is what keeps it from going below 0).
The argument for `NoTaskStranded` is a count: the workers on their way to the queue plus a
notification that is still to come are at least as many as the queued tasks while somebody
sleeps; `AddTask` adds one to both sides, `NotifyOne` trades the notification for a woken
worker, `GetTask` takes one from both, and a worker goes to sleep only when the queue is
empty. `PlacesMove` does the counting for all steps.

`FileCryptProofs` proves, for every length of the file, every cipher block size, all sizes
and limits, and every set of faults (`BlockSizeAssumption`, `SizeAssumption`: the
`static_assert`s of the three `Main`s; `LengthAssumption`: lengths are natural numbers):

* `ChainTyping` and `BlocksInOrder`: `TypeOK` and `InOrder` of the run `file_faults`.
* `ChainSafety`: the invariant `ChainInv` from which they follow.

`InOrder` says for each place of the chain which numbers its blocks have, counted back from
the number of blocks read: `Sent`, `Taken`, `Crypted`, `Written` are how many have left the
reader's hand, the crypt task's list, its hand and the write task's list. A step that moves
a block changes one length by one on either side of one of these points and leaves the
others alone. It is not inductive alone: a push needs to know that there is a block in the
hand, and a pop that the hand is empty. `Hands` says so by the place of the task (after a
`throw` the block stays in the hand of a task that has ended). The type invariant needs
`CryptSizesAreNat`: a cipher block that is taken for padding is at most what `RoundUp`
made of the input, `RoundUpBounds`, so the reported numbers do not become negative.

`BacklogIsBounded` in the same module is `BacklogStaysBounded` of the run `file_live`, here
under all faults. The backlog of a task alone is not inductive, since the task asks first and
pushes later: `WithinBound` adds the block that is on its way (`Coming`: the task has found
room, or has not asked, and will pass one on). It implies the bound, follows from the list
being within its limit, and is kept by every step, because `nextStatus` is never reset and a
task that sets out for a block has found the limit kept; so the nested box follows.

`DataInduction` models no code. It is the induction over data that the proofs of sums need.
The provers cannot instantiate an induction theorem that takes a predicate, but they can
reason about the set of those numbers for which a fact holds: a set with 0 and the successor
of each of its members has all numbers (`SetInduction`), because otherwise the order of the
natural numbers, which is well-founded, has a least number that is missing. From this come
induction over finite sets (`SubsetInduction`) and the sums over them: they exist
(`SumExists`), there is one (`SumUnique`) and its order is free (`SumAnyOrder`). The folds of
the models are sums in this sense.

`FileEndProofs` goes on from `ChainInv`, under the same assumptions and for all faults:

* `SleepersHaveNotifiers`, `NothingIsKept`: `SleeperHasNotifier` and `AllReleased` of the run
  `file_faults`.
* `EndSafety`, `ReleaseSafety`: the invariants `EndInv` and `ReleaseInv` from which they
  follow.

`KnowEachOther` relates the flags to the places: a task waits only when the one below has
set its flag, and a flag is reset only by a task that has left its loop. `MarkTravels` says
where the end mark can be: it comes into the chain when all has been read, is behind the
crypt task only if that has left its loop, and a write task that has seen it comes after
that. So a crypt task that has gone leaves no reader behind that has work left.
`ReleaseInv` adds, when no task ends early and the input keeps its length (`Calm`), that the
mark is on the last block that was read (`MarkIsLast`): there is nothing behind it when the
write task takes it (`NothingBehind`).

* `OutputIsWhole`: `WholeOnReturn` of the run `file_faults`, which says that a number of
  bytes other than 0 is reported for a whole output only.
* `OutputSafety`: the invariant `OutputInv` from which it follows.

`OutputInv` adds to `EndInv` what a block knows of its place in the input, with no restriction
on the faults: all but the last one read are full, and the mark is on the one that ends where
the reader has found the input to end (`AllPlaced`); the reader has read in full until it met
the end of the file (`ReadInFull`). As long as the file takes what is written, the counts are
the sums over the blocks that have passed, the lengths in the output add up to the end of its
last block, and a block with the mark is the last one produced, by a crypt task that has left
its loop (`OutputAddsUp`). A `throw` may come between any two of
these steps; the promise then gets no value at all. A value of 0 is that of a task whose file
does not open and says nothing of the output; `Returned` says that any other number is
reported by a task that has written the end mark.

`FileRefinementProofs` goes on from `EndInv`. It adds the assumption `NoFaults` to the
theorems: every fault set is empty or `{"noThread"}`, as in the run `file_live`.

* `TransformRefinement`, `ChainRefinement`: `ImplementsTransform` and `ImplementsChain`, for
  every length of the file, every size and every limit.
* `RefinementSafety`: the invariant `RefinementInv` under which every step of `FileCrypt` is
  a step of the abstract module, or a stutter.

`RefinementInv` says that the blocks in the chain are those of the file (`Formed`), how far
the reader is and when it knows that the file has ended (`Reading`: `eof` is set after a
short read only, hence the extra turn for an aligned file), and that the other tasks leave
their loops with the last block (`Leaving`). Its arithmetic is `TotalFacts`: the rounded-up
quotient is the number of blocks, all but the last one full. For `FileTransform`, `WritePop`
is `Put` and `WriteReturn` is `Report`. For `FileChain`, `PlacesStep` goes through all
actions once to see which place changes; a task passes a block on in `ReadPush`,
`CryptWork` and `WritePop` (`PassingStep`), and `ReaderSleeps`, `CrypterSleeps` and
`ReturnsAtEnd` are the guards of `Sleep` and `End`.

So what `XFileCryptProofs` shows of several `FileChain`s rests, when nothing fails, on a
proof about `FileCrypt` and not only on the short files of the run `file_live`.

`XFileCryptProofs` proves, for any number of files, cores and threads and any directories
(`ProgramAssumption`, `ChainAssumption`):

* `ProgramTyping`, `UnheldFilesAreFew`, `SleepersAreServed`, `WaitedFilesAreWritten`: `TypeOK`,
  `FewFilesUnheld`, `SleeperIsServed` and `WaitedIsWritten` of the run `files`.
* `ProgramSafety`: the invariant `ProgramInv` from which they follow.

`Pos` numbers the tasks in the order in which `main` adds them. `QueueInOrder` says that the
queue is a stretch of this order (`Taken` tasks before it have a thread, those behind
`Added` are still to be added); a number between 3f - 2 and 3f is that of a task of file f,
so the stretch begins within one file at most. `PassedInOrder` says that no task is ahead of
the one before it and that a sleeper's next task has started. `BusyWithinThreads` says that no
more tasks have a worker than there are threads. Who sleeps with work left has
passed on fewer than all blocks, so neither has the next one, and it has not ended: it runs,
or sleeps itself, and then the write task, which never sleeps, runs. `WaitedInOrder` says
that what `main` has waited for has ended, and the write task ends with its last block.

`FewFilesUnheld` is about the time before a task has set `next_status_`: the task before it is
not held back then, and the list between them may grow with the file. It is not only the file
within which the queue begins to which this happens (`OneFileHalfTaken`): a worker may have
popped a crypt task and be preempted before the assignment, while others take the write task
and the read task of the next file. But every such file has a thread for the task that runs
and another one for the task that is on its way to the assignment (`UnheldHasThreads`), and
these are different threads for different files (`UnheldCount`). So there are at most half as
many such files as threads, rounded up; with 4 threads there are two in the run `files`.

* `TotalsAreRight`: `TotalsAreSums` of the same run. The invariant is `TotalsSoFar`: the total
  of a task is the sum over the files `main` has waited for, one more for the tasks it has
  already asked within the current file (`FilesWaited`).

`BlockCryptProofs` proves, for every size of block and chunk that divides, every file, key
and cipher, and both classes (`BlockSizeAssumption`; `WrapperAssumption`: a chunk is a
number of whole blocks, a byte holds the size of a block, `data_size` is wider than a byte;
`CipherAssumption`: decryption is the inverse of encryption for each key):

* `BlockTyping`, `SizesArePromised`, `OutputFitsBuffer`: `BlockTypeOK`, `SizeAsPromised` and
  `FitsBuffer` of the run `crypt`.
* `CallSafety`: the invariant `CallInv` from which they follow.

`SizeAsPromised` closes a gap between two modules: `FileCryptProofs` takes the sizes of the
blocks from `CryptSizes`, and the loops return one of them for any input. The inductive part,
`LoopInv`, is that `written` is as long as `i`, a multiple of the block, and that `i` is
below `in_size` in the loop. The work is in the last block: `LastBlockSizes` says what
`RoundUp` and the padding are when at most a block is left. `DivideOnce` is the uniqueness
of quotient and remainder, of which the provers have none for a constant divisor.

* `DecryptionRecovers`: `DecryptRecovers` of the run `crypt`.
* `RecoverSafety`: the invariant `RecoverInv` from which it follows.

`RecoverInv` says what is there at every point of the round trip: while the file is
encrypted, each block of the output is the cipher of the block of the padded file at its
place, chained to the output block before it or, at the start of a chunk, to nothing
(`IsCipherText`, `VectorAt`); while it is decrypted, the output is a front of the file
(`IsFront`), and `iv` is the vector that the block at this place was encrypted with. A block
that is added does not change the ones before it (`GrowCipherText`, `GrowFront`), and
`CipherUndone` takes the chaining back: exclusive-or with the same vector twice. At the end the
padding of the last plain block is what `Decrypt` finds there. The condition on the length,
for AES that the file is no multiple of the chunk, is the finding of `crypt_chunk`: there the
padding is a block behind the last chunk, which the encryption chains to the block before and the
decryption, in a call of its own, to nothing. The DES wrapper does not chain, so that it needs
no such condition.

`DesProofs` proves, for any passwords of up to 8 characters, any texts and both orders of
the fold (`DesAssumption`):

* `DesTyping`, `DecryptionIsInverse`: `DesTypeOK` and `DecryptUndoesEncrypt` of the run
  `crypt`.
* `DesSafety`: the invariant `DesInv` from which they follow.

`Forward` says that `pairs` holds the halves after every round of the encryption, each made
from the one before with its subkey; `Backward` that the decryption is given the last of them
and, after n rounds, is at the one that is n before it, with its halves exchanged. A round
exclusive-ors the same bits to the same half, whatever the boxes give, so nothing is needed
of them but that they give something. That `kIP` and `kIP_1` are inverse is proved entry by
entry.

* `SubKeysTurn`: `SubKeysAreTurnedKeys` of the run `crypt`.
* `KeySafety`: the invariant `KeyTurns` from which it follows.

`KeyTurns` says that the two halves, after n subkeys, are the chosen bits of the key seen
from as far round as the first n shifts add up to, so that the bits that leave a half at the
top have come back at the bottom. `Turn` is the fold of the module, `FoldLeftIsSum` shows
that it is a sum, and `TurnFacts` that the sixteen shifts make one full turn of 28.

## 5. Only model-checked, or not modelled

* Liveness rests on fairness, of which the provers know nothing, and stays with TLC:
  `AddedIsTaken`, `StopEndsOutsideWindow`, `Completes`, `WriterCompletes`, `SleepersWake`,
  `StopReachesRead`, `OthersAreWritten`, `OneThreadIsEnough`. All other properties of the
  passing runs, invariants and action properties alike, are theorems. The two refinements are
  of specifications without fairness.
* That `XFileCrypt` composes `FileChain` for several files with one queue rests on the
  tasks of different files sharing nothing but the threads; it is not stated as a
  refinement from several `FileCrypt`s.
* Not modelled: the arguments, the directory walk and the printed statistics of `main.cc`
  (pure I/O); errors of `ifs_.read` other than the end of the file; the pool allocator of the
  standard library; the ciphers of OpenSSL, which are a permutation for each key here;
  `Des::Init` with more than 8 characters, which overruns an array (the class has no caller);
  a pool of which no thread has survived `Init`, where `main` waits for ever as in
  `pool_init`; the printing and the files of the test programs.

## 6. Plan

1. Done: the pool, the chain of tasks with its faults, the program with several files, both
   wrappers and the DES; their safety properties and both refinements as theorems.
2. Done: the sums over blocks and files, the bound on the lists, the subkeys and the round
   trip through the ciphers as theorems.
3. The program on the pool as it is: a module in which the workers of `XThreadPool`, with the
   condition variable and `Init` and `Stop`, run the tasks of `FileChain`, and the theorem
   that it implements `XFileCrypt` with `threads` for the number of workers. A task begins at
   `GetTask` and ends at `SetReturn`; a worker that takes a task has none, which is why fewer
   tasks than workers are busy then.
