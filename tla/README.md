# TLA+ models of the CDSChecker benchmarks

The repository is a suite of ten small concurrent data structures in C and C++,
written with C11 atomics and annotated for a model checker of C11 programs.
There is no program that uses them together: each directory stands alone, with
drivers (`main`, `testcase*`) that start two to four threads.  What the
directories share is the memory model, and the comments
`XXX-injection-#n`, which name a memory order, a weaker one to put in its place,
and what the checker then reports.

This directory holds TLA+ models of the structures on an operational model of
the C11 memory, the TLC runs that check them, and TLAPS proofs.

## Inventory

| component | state | operations | what makes it correct |
|---|---|---|---|
| ticket lock | counters `ticket`, `turn` | `lock`, `unlock` | exclusion, hand-over of the data, service in ticket order, nobody spins for ever |
| MCS lock | `m_tail`; per guard a node (`next`, `gate`) on the stack | `lock`, `unlock`, guard constructor and destructor | the same, in queue order; nobody touches a node whose `unlock` has returned; empty tail at destruction |
| Linux reader-writer lock | one counter, biased by `RW_LOCK_BIAS` | read/write × lock, trylock, unlock; two `can_lock` queries | the list of five properties at the top of `linuxrwlocks.c` |
| seqlock | `_seq`, two data words | `read`, `write` | a read returns both words of one write; writers exclude each other |
| read-copy-update | `dataPtr`, a heap of `Data` | `read`, `write` (`inc`) | reads are snapshots, no update is lost, nothing uninitialised is read |
| Chase-Lev deque | `top`, `bottom`, `array`, two arrays | `push` (`resize`), `take`, `steal` | every item is handed out once, to owner or thief |
| Michael-Scott queue | counted pointers `head`, `tail`, nodes; per-thread free lists | `enqueue`, `dequeue` | FIFO, each value once, no effect of recycled nodes |
| MPMC bounded queue | packed `m_rdwr`, `m_read`, `m_written`, an array | `write_prepare/publish`, `read_fetch/consume` | no slot in two hands, publication before consumption, nobody waits for ever |
| SPSC queue, eventcount | list of nodes; `count`, `waiters`, mutex, condition variable | `enqueue`, `dequeue`; `signal`, `get`, `wait` | FIFO, no lost wake-up, no node used after it is deleted |
| concurrent hash map | table of lists, segment locks | `get`, `put` | a `get` sees the `put`s that happen before it, consistency per key |

Components interact only inside a benchmark: the threads of a driver share the
structure's atomics; the SPSC queue calls the eventcount, the hash map its
segment locks, the MS queue its free lists.  The hard behaviours are those of
concurrency on a weak memory: interleavings, stale values a load may still
return, stores that land out of order, retries, counters at the end of their
range, memory used again.  Nothing is persisted, sent or timed.  `PROJECT.json`
lists the hazards at their lines, with the properties that cover them.

## The memory: `C11Memory`

The atomics belong to the compiler, so the model is external to the repository;
the names of the memory orders are those of `include/unrelacy.h`.  Each location
has its modification order `hist[x]`, a sequence of messages.  A thread has a
view `cur[t]`, the writes it cannot overlook any more.

* `Load` may read any message that is not hidden from the thread by coherence;
  an acquiring load takes over the view the message carries.
* `Store` may be placed anywhere in the modification order that coherence leaves
  open, which is how a late store loses to an earlier one.
* `ReadModifyWrite` goes right after the message it reads, and continues its
  release sequence.
* Fences: `rel[t]` is the view of the last release fence, `acq[t]` what was read
  without acquiring since the last acquire fence, `sc` what sequentially
  consistent operations and fences have made visible to the later ones.  Fences
  of order seq_cst are those of C11 29.3: not cumulative.

A plain (non-atomic) datum is modelled by relaxed accesses, and the absence of a
race by `Synchronized(t, x)`: at the access `t` has seen every write to `x`.
Where a read can race with a later write, the reads of each thread are writes to
a location of their own (`ReadBy` in `LinuxRWLock`).

What the memory leaves out: load buffering (program order and reads-from have no
common cycle) and the release sequences of C++11 that continue through plain
stores of the same thread.  `AcquireFences` says whether the program has acquire
fences; where it has not, `acq` stays empty, which saves states.

Every memory order of the sources is a definition of its own (`OrderSpin ==
acquire`), mapped to its line.  Weakening one as the `XXX-injection` comments say
is a one-definition change of the model, and most mutants of `PROJECT.json` are
such changes.  Of the injections of the repository, and the known bugs it marks, the
properties of the runs detect:

| benchmark | detected | not detected |
|---|---|---|
| ticket lock, MCS lock, reader-writer lock, seqlock, RCU | all | |
| deque | all but one, and its known bug | #3 |
| MS queue | all ten, and both known bugs | |
| MPMC queue | #3, #4, #7, #8 | #1, #2, #5, #6 |
| SPSC queue | both | |
| hash map | all four | |

Injection #3 of the deque (the acquire load of `top` in `push`) only orders a
thief's load of a slot before the owner's reuse of the slot; violating it takes a
load buffering the memory leaves out.  The four of the MPMC queue weaken the load
and the `compare_exchange` of `m_rdwr`; the comments say that
the checker misses them as well.  What orders the bins is the wait that follows.

## Modules

| module | models | abstract specification |
|---|---|---|
| `TicketLock` | `ticket-lock/lock.c`, loop of `main.c` | `AbstractLock` |
| `MCSLock` | `mcs-lock/mcs-lock.cc`, `.h`, threads of `main.cc` | |
| `LinuxRWLock` | `linuxrwlocks/linuxrwlocks.c`, accesses of `main.c` | |
| `SeqLock` | `seqlock/seqlock.cc` | |
| `RCU` | `read-copy-update/rcu.cc`, initial state of `main.cc` | `AbstractCounters` |
| `ChaseLevDeque` | `chase-lev-deque-bugfix/deque.c` | `AbstractDeque` |
| `MSQueue` | `ms-queue/queue.c`, calls of its drivers | `AbstractQueue` |
| `MPMCQueue` | `mpmc-queue/mpmc-queue.cc`, calls of its drivers | |
| `EventCount` | `spsc-bugfix/eventcount.h` | |
| `SPSCQueue` | `spsc-bugfix/queue.cc` over `EventCount` | `AbstractQueue` |
| `HashMap` | `concurrent-hashmap/hashmap.cc`, `.h`, calls of its drivers | `AbstractMap` |
| `C11MemoryProofs` | lemmas about the memory | |
| `TicketLockRCUProofs` | invariants and theorems of the ticket lock, and of read-copy-update | |
| `LinuxRWLockMSQueueProofs` | invariants and theorems of the reader-writer lock, and of the MS queue | |
| `SeqLockChaseLevDequeProofs` | invariants and theorems of the seqlock, and of the deque | |
| `SPSCQueueProofs` | invariant and theorems of the SPSC queue with its eventcount | |
| `MCSLockProofs` | invariant and theorems of the MCS lock | |
| `MPMCQueueProofs` | invariant and theorems of the MPMC bounded queue | |
| `HashMapProofs` | invariant and theorems of the hash map | |

Three of the proof modules extend two components each, so the names of `TicketLock`,
`MSQueue`, `ChaseLevDeque` and `SPSCQueue` carry a prefix where they would clash
(`TicketSpec`, `DequeTypeOK`).  What a component assumes of its constants is then in scope of
the other's theorems too, so only those are paired whose assumptions do not narrow each
other: besides their own bounds they agree on `AcquireFences` and on whether `Thread` is
finite, and the deque asks for one thread, its owner.  `SPSCQueue`, which fixes `Thread` to a producer and a
consumer, has a module to itself.

`MC*` modules add the definitions TLC needs.  In every module `pc[t]`, of
`C11Memory`, is where thread `t` is, the other variables of the component are the locals of the code
under their names, and there is one action per atomic operation, named
`Function_Operation`, with the branches that follow up to the next atomic
operation.  A spin loop is one action that loads and either leaves or stays.  A
`compare_exchange` is two actions, for its two outcomes.  The threads call the
operations in any order the interface allows, which covers the call sequences of
all drivers of the directory.  Operators described as "Mutant of X" are not part
of a specification: each is X with a plausible bug, for the mutation runs.

Choices that need a word:

* **Ticket lock, seqlock, deque: width.** The `unsigned` counters of the ticket
  lock wrap at `UintRange`, the `int` sequence at `IntMax`, `size_t` at
  `SizeMax`; `%` on the sequence has the sign of its operand, as in C.
* **MCS lock.** A node is named by the thread whose guard holds it.  `unlock`
  returns to another `lock` or to the end of the scope; after that the node is
  gone, and `NodeOutlivesAccess` says that nobody still writes to it.
* **Reader-writer lock.** `read_trylock` and `write_trylock` are calls like the
  others; a failed attempt is visible in the counter until it is undone.
* **Seqlock.** The n-th call of `write` writes the pair (n, n); only equality
  of the halves matters.
* **RCU.** `new Data` leaves `Uninit` in both fields, and what is computed from
  it is `Uninit`: the "UL" (uninitialised load) of the source comments.
* **Deque.** Only the owner writes `bottom`, `array` and the arrays, so its own
  relaxed loads of them return its last store (`Own`).  `take` takes effect
  when it loads `top` below `b`, or with its CAS on the last item; until then
  the refinement mapping still counts the item it has reserved.

* **MS queue.** A pointer is a record of node and count, the count modulo
  `CountRange`.  An enqueue is called only while the thread's free list has a node:
  `new_node` asserts it, and the drivers see to it.  A node that does not fit in
  a full list is dropped.  Values are plain in the source, and relaxed here: a
  dequeuer may read the value of a node that is being used again, and the failing
  `compare_exchange` then discards it.
* **MPMC queue.** `m_rdwr` is a record of its two halves, all counters are modulo
  `CountRange`, and a run starts close to its end (`Started`), so they wrap.
  `t_size` divides `CountRange`: else the bins are out of step after
  a wrap.  The drivers have their accesses of the bins commented out; the model makes
  them, to check what the queue is for.
* **Eventcount.** The actions take the place to go on at as a parameter, and
  `SPSCQueue` conjoins them with `UNCHANGED` of the queue.  The mutex and the
  condition variable are modelled from their use (external): `cv.wait` unlocks and
  sleeps in one step, wakes at a notification or, `MaxWakes` times, without one.
* **SPSC queue.** Nodes are never allocated at the address of a deleted one;
  `deleted` remembers them, and `SPSCTypeOK` says no thread goes on to use one.
  `try_dequeue` returns 0 when the queue is empty, so an item 0 would be taken out and
  lost (`queue.cc:49`): the queue is for other values, the drivers enqueue 11, and the items of the model
  start at 1.
* **Hash map.** `hashKey` is the identity, so key and hash of an entry are one
  location.  They are plain fields, read as the newest value, and `TypeOK` says that
  every walk has seen them.  The segment mutexes are external.  `note.txt` warns of
  two `get`s that both trust the old list they found, and adds that the locks rule it
  out: the model agrees (`ImplementsMap`).

## Runs

| run | bounds | shows |
|---|---|---|
| `ticket` | 3 threads, 4 requests, counters of 4 values (one lap) | hand-over, ticket order, every ticket is served; refinement of `AbstractLock` (exclusion) |
| `mcs` | 3 threads, 3 calls of `lock` | exclusion and queue order, hand-over, node lifetime, `lock` and `unlock` return |
| `rwlock` | 3 threads, 4 attempts, bias 2 | the five listed properties, honest failures |
| `seqlock` | 3 threads, 2 writes, 1 read | versions, counting, `read` and `write` return |
| `seqlock_wrap` | `INT_MAX` = 1 | *violation*, see findings |
| `rcu` | 3 threads, 2 reads, 2 writes | snapshots, `write` returns; refinement of `AbstractCounters` (no lost update) |
| `deque` | owner and 2 thieves, 3 pushes, 2 takes, 2 steals | each item once, across a resize; refinement of `AbstractDeque` |
| `deque_new` | `take` before any `push` | *violation*, see findings |
| `msqueue` | 3 threads, 4 calls (3 enqueues, 2 dequeues at most), 2 free nodes each | each node in one place, an empty answer is justified; refinement of `AbstractQueue` |
| `mpmc` | 2 bins, 2 writers, 2 readers (one thread is both), 3 writes, 3 reads, counters of 8 values that start at 7 | a bin has one holder and is handed over, the waits end |
| `spsc` | 2 enqueues, 3 dequeues, 1 spurious wake-up | no lost wake-up, no deleted node is used; refinement of `AbstractQueue` |
| `hashmap` | 3 threads, 2 puts, 2 gets, keys 1 and 3 in one bucket, map empty or with keys 1 and 2 | one entry per key, nothing uninitialised; refinement of `AbstractMap` |

Why the bounds are enough to be interesting.  Three threads give the locks a
holder, a waiter and a late comer, and two hand-overs, so that a release must
carry what an earlier holder wrote (release sequences, cumulativity).  A
fourth request of the ticket lock lets the late comer come back, which is when a
stale message of the last round can be read; with three calls of the MCS lock two
of them may come from one thread, which uses its node again.  With a bias of two, three threads reach both the last reader
and the reader too many.  Two writes give the seqlock two writers that race for the
sequence, while a reader is between its two loads of it.  Three pushes
overflow the two slots of `create()`, so that thieves meet both arrays.
Four calls on the MS queue let a node be dequeued, reclaimed and enqueued again while
a third thread holds a counted pointer to it from before.  Three writes to two bins make a
bin come round, across the wrap of the counters, with a reader still in it.  A
third `dequeue` of the SPSC queue meets an empty queue after the list has
moved.  Two puts of the hash map race for one key, for one bucket, or overwrite
a value under a `get` that is in its first walk.

All bounds are constants in guards (`MaxRequests`, `MaxCalls`, ...), and
`Terminated` is the only state in which a system may stop.  Deadlock is checked
everywhere but in `spsc`, whose consumer sleeps for ever once the producer has made
its calls and the queue is empty.

**Fairness** (`FairSpec`).  The scheduler is assumed to run every thread that is
inside an operation (weak fairness of its steps), and a thread that loads a
location again and again is assumed to load the newest message in the end, as
C11 7.17.3 asks of implementations; a weak `compare_exchange` does not fail for
ever without a cause.  No fairness is assumed of a thread that calls nothing,
nor of a spurious wake-up.  `LockIsGranted`, `NobodyWaitsForever` and `DequeueReturns`
rest on it.  `WaitsEnd` says that the MPMC queue's waits for equality are never passed by:
each side's wait holds back the operations that would move the counter on.  `CallsReturn` (seqlock) and
`WriteReturns` (RCU) also rest on the bound on writes: the code does not promise
that a reader ends while writers keep coming, and the runs do not claim it.  For
the reader-writer lock no liveness is stated: two attempts can undo each other for
ever, and `rwlock` bounds their number.

### Findings

* `seqlock_wrap`: `old_seq % 2 == 1` (`seqlock.cc:22`, `:53`) is false for
  negative odd numbers, so once `_seq` has wrapped, a write in progress is not
  noticed and a read returns halves of two writes.
* `deque_new`: `take` on a deque nothing was pushed to computes `bottom - 1` in
  `size_t` and returns an unfilled slot (`deque.c:88`), against its precondition
  (`deque.c:74`).

Two limits the source states of itself, which the models keep:

* The counters of the ticket lock must be wide enough (`lock.c:10`).  On the C11 memory it
  is not enough that they count the simultaneous requests: with counters of three values
  TLC finds the fourth request, by a thread that has never loaded `turn`, drawing ticket 0
  again and entering on the initial turn, beside a holder.  On 32 bits that takes 2^32
  requests.  So the run draws one lap of tickets: the counters reach their last value, and
  no wrapped ticket is drawn.
* `resize` of the deque always installs the eight slots of `newArray` (`deque.c:135`), for
  which the comments of `create` and `resize` give a reason.  The second one copies the array
  onto itself while thieves use it: with six pushes and five steals TLC finds a thief that
  has the new size and returns a slot that is not copied yet.  So `deque` checks one resize.

## Proofs

`C11MemoryProofs` has lemmas about the memory for any program: each operation
keeps the type of the memory (`LoadType`, `StoreType`, `ReadModifyWriteType`),
and a write to a location whose newest message the thread has seen, or a
read-modify-write of the newest message, goes to the end of the modification
order (`NewestSeen`, `StoreAtEnd`, `ReadModifyWriteAtEnd`).

### Ticket lock

The first half of `TicketLockRCUProofs` proves, for every set of threads, every number of
requests and every counter width, under the one hypothesis `NoWrap == MaxRequests <= UintRange`:

| theorem | property |
|---|---|
| `TicketInvariance` | `TicketSpec => []TicketInv` |
| `TicketTypeCorrectness` | `TicketTypeOK` |
| `TicketSafety` | `MutualExclusion` (not the property of a run: `ImplementsLock` implies it) |
| `Synchronization` | `HandoffHappensBefore` |
| `Order` | `FirstComeFirstServed` |
| `UnlockIsExact` | `UnlockReadsOwnTurn` (not the property of a run) |
| `TicketRefinement` | `ImplementsLock` |

`NoWrap` is where the width of `unsigned` enters: in a run of the bound the
ticket does not wrap.  `lock.c:10` asks for such a width, and without it a spinning
thread may take a turn it still remembers from the last round for its own.
`MutualExclusion` is not inductive.  `TicketInv` adds: `Counters`, the histories of
`ticket` and `turn` count up by one in modification order, and turn never passes
ticket; `Tickets`, waiting threads hold distinct tickets not smaller than the
newest turn; `Holding`, a thread past its spin holds the newest turn as ticket and
has seen it; `Handoff`, the newest turn message carries every write of the shared
datum, or its holder has seen them.  From these, a spin that succeeds reads the
newest message although it might have read an old one: an old turn is smaller
than any waiting ticket.

### Reader-writer lock

The first half of `LinuxRWLockMSQueueProofs` proves, for every finite set of threads, every
bias and every number of attempts, with no hypothesis but `RWLockAssumption`:

| theorem | property |
|---|---|
| `Invariance` | `Spec => []IInv` |
| `TypeCorrectness` | `TypeOK` |
| `Safety` | `HoldersCompatible` |
| `Accounting` | `CounterAccounts` |
| `Synchronization` | `UnlockHappensBeforeLock` |
| `HonestFailures` | `FailsOnlyUnderContention` |

The counter is written by `fetch_sub` and `fetch_add` alone (`Chain`), so its
modification order is the order of the operations, and its newest value is the
bias less what everybody has taken, holders and attempts yet to be undone alike
(`Account`, a count over sets of threads, for which the module has a few lemmas on
cardinality).  A write attempt that succeeds read the whole bias, so nobody
holds anything (`Exclusion`).  `Handover`: the reads and writes of the datum that a
future holder must have seen are in the view of the counter's newest message or
belong to threads inside; the relaxed undoing of a failed attempt does
not cut this off, because a read-modify-write continues the release sequence.

### Read-copy-update

The second half of `TicketLockRCUProofs` proves, for every set of threads and any number of reads and writes,
with no hypothesis but `RCUAssumption`:

| theorem | property |
|---|---|
| `Invariance` | `Spec => []IInv` |
| `TypeCorrectness` | `TypeOK` |
| `Snapshot` | `ReadIsSnapshot` |
| `Refinement` | `ImplementsCounters` |

`IInv` has `Chain` (each version is published by a `compare_exchange` that replaces
the one before), `Ownership` (a `Data` is written by one thread, and only until it is
published), `Publication` (both fields of a published `Data` are initialised, and the
message that publishes it carries the writes of them), and for each thread
`PointsWell` and `ComputesWell`: who has loaded a pointer has seen the fields behind
it, and what a writer has computed so far belongs to the version it will compare
with.  A CAS that succeeds has therefore added to the newest version, which is
the step of `AbstractCounters`; all other steps stutter.

### Seqlock

The first half of `SeqLockChaseLevDequeProofs` proves, for every set of threads and any number
of calls, under the hypothesis `NoWrap == 2 * MaxWrites <= IntMax`:

| theorem | property |
|---|---|
| `Invariance` | `Spec => []IInv` |
| `TypeCorrectness` | `TypeOK` |
| `Versioned` | `ReadIsVersion` |
| `Counted` | `SequenceCountsWrites` |

The hypothesis is needed: `seqlock_wrap` shows what happens without it.  The
difficulty is that a reader's loads of the words are relaxed, so that it may get
one that is newer than its sequence number.  `Carrying`: a message of the sequence
carries the words of its version, so a reader never gets older ones.  `Marking`: a
word carries the odd number it was written under, put there by the writer's
release fence.  A reader that got a newer word has that number pending until its
acquire fence, and knows after the fence that the sequence moved on, so its second
load of it must differ: `Good1(t) \/ Overtaken(t, ...)` in `ReadsWell`.  `Words`
and `Calls` tie the lengths of the three histories to where the one writer inside
has got to, and to the number of calls.

### MCS lock

`MCSLockProofs` proves, for every set of threads and any number of calls, with no
hypothesis:

| theorem | property |
|---|---|
| `Invariance` | `Spec => []IInv` |
| `TypeCorrectness` | `TypeOK` |
| `Synchronization` | `HandoffHappensBefore` |
| `NodeLifetime` | `NodeOutlivesAccess` |
| `Order` | `QueueOrder` |

The code keeps the queue in pieces: the tail names its last node, each `next` the
node behind, and for a while the place of a thread is in no `next` yet.  What
orders the threads is the history of the tail: `m_tail` is only changed by
exchange and `compare_exchange` (`Chain`), and the threads in the queue are the
end of that history (`Line`).  `Service`: the holder is the first of them, and
everybody else has its predecessor still in the queue, which is why a node
that is about to be written is never one whose `unlock` has returned.  `NextWell` and
`GateWell` say for every phase of `lock` and `unlock` what the two fields of the node
hold, who knows it, and which of the two last values a spin may still read.
`Handoff` follows what is written under the lock: the tail carries it when the queue
is empty; otherwise the message that opens the gate does, and the message of `next`
carries the gate it is opened with.  The proof expands `OrderExchange`,
`OrderUnlockCAS`, `OrderSpinGate` and `OrderOpenGate`; with any of them relaxed,
exactly the lemma of that step fails.

### MPMC bounded queue

`MPMCQueueProofs` proves, for every set of writers and of readers, any number of bins,
calls and any start of the counters:

| theorem | property |
|---|---|
| `Invariance` | `Spec => []IInv` |
| `TypeCorrectness` | `TypeOK` |
| `Exclusion` | `BinHasOneHolder` |
| `HandOver` | `BinIsHandedOver` |

The module assumes of the run that no counter comes round to where it began
(`NoFullTurn`): the counters may wrap, but a thread that waits while the others do 2^16
writes would take a value it has read before for the same value, and the proof
does not cover that.  The invariant speaks of how many steps a counter has made (`Steps`),
so that the wrap disappears from it.  Writes and reads are claimed in the order of
`m_rdwr`, but granted, published and consumed in any order the waits leave open.
`Counts`: `m_written` and `m_read` have made a step for every claim that is closed,
whichever it was, so a wait for equality says how many claims are open, not which.
`Phases` turns this into order: an open claim holds back every later one of the other side
that depends on it, so when the numbers are equal the claims that were waited for are
closed.  `Claims` relates what two threads that claimed at different moments saw;
`Window` follows: what is stored is less than a round ahead of what has been consumed,
and a bin holds what was stored there last.  `Handover`: the history of a bin
travels from publisher to reader through `m_written`, and back through `m_read`, each a
chain of `fetch_add`s.

Of the memory orders the proof expands the two of the `fetch_add`s and the two of the
waits, nothing of `m_rdwr`: injections #1, #2, #5 and #6 cannot break these
theorems, which is why neither the repository's checker nor the run detects them.

### Concurrent hash map

`HashMapProofs` proves, for every set of threads and of keys, any number of buckets and
segments, any keys put before the threads start, and any sequence of calls:

| theorem | property |
|---|---|
| `Invariance` | `Spec => []IInv` |
| `TypeCorrectness` | `TypeOK` |
| `Refinement` | `ImplementsMap` |

Its only hypotheses are those of the model (`HashMapAssumption`): the number of segments
divides that of buckets, so that one mutex guards a bucket, and the keys of a
driver's first puts differ, and are bounded in number.  `IInv` is what makes the first walk of `get`, without the mutex,
right:

* `Lists`: an entry's number says when it was made.  A bucket's head is its newest entry,
  `next` leads from each entry to the one before it, and a head that has been replaced is
  still an entry of the list, so a walk from an old head passes all that are older.
* `Trails`: a message of a head carries the key, the `next` and the first value of its
  entry and of all entries behind it.  This is where the release of `put` and the acquire of
  `get` enter, and `Well` keeps it along a walk.
* `Values`: every value of an entry but its first is in `sc`, so the seq_cst load
  of `get` reads the last one.
* `Held` and `Passed`: who holds a mutex has seen all that was written in its segment, and
  a free mutex passes that on.  So the relaxed loads under it read the newest
  messages, and `put` appends to the modification orders.
* `Well`: what a walk has passed has not got the key.  A `get` that fell off the list knows
  this of the entries from the head it began at; if the head under the mutex is still
  that one, it knows it of the whole list, and that is the shortcut of the recheck.
* `Fresh` and `MakeWell`: an entry belongs to the `put` that makes it until it is
  published; `Room` bounds how many there are.

In `Refinement` a `put` takes effect with its store of the value or of the head, a `get` when
it reads the value, at the recheck, or at the end of its second walk.  The proof expands the
orders of injections #1 to #4 and of the mutex, and no other: nothing depends on the order
of the loads of `next` and of those under the mutex, which the code makes relaxed.

### Chase-Lev deque

The second half of `SeqLockChaseLevDequeProofs` proves, for every set of thieves and any number of
calls:

| theorem | property |
|---|---|
| `DequeInvariance` | `DequeSpec /\ []ResizesOnce => []DequeInv` |
| `FewPushes` | `DequeSpec => [](DequeInv /\ ResizesOnce)`, if `MaxPushes <= 4` |
| `DequeTypeCorrectness` | `DequeTypeOK` |
| `ItemsOnce` | `EachItemOnce` |
| `TakeFailure` | `TakeFailsOnlyWhenStolen` |
| `DequeRefinement` | `ImplementsDeque` |

There are two hypotheses, for the two limits above.  `TakeWhenNew = FALSE`: nothing is
taken before the first push, which `deque_new` shows to go wrong.  `ResizesOnce`: when
`resize` begins, the array is the one of `create`.  The last four theorems have both.  `FewPushes`
shows that the second costs nothing as long as the four slots suffice, so it is true of the run.

The code has no lock, and `take` and `steal` synchronise only where they race.  `DequeInv` says
why each message of `bottom` that a thief may still read is good enough:

* `Ordered`: `top` counts up in its modification order, by `compare_exchange` alone; each win of a
  thief is in `sc`.  So the owner's seq_cst fence shows it every theft before the fence.
* `Falls` and `Keeps`: `bottom` goes down only by `take`, and what a seq_cst fence of the owner
  has published is not gone back on: a thief behind his own fence reads that message or a later one,
  and each leaves his index inside the deque, unless it is the newest and the owner has still to race.
* `Race`: behind its fence, the owner either knows that the thieves have come to the bottom, or no
  thief can get there but by the `compare_exchange` that the owner will make too.
* `Offering` and `Fenced`: who has read a message of `bottom` that keeps an index has seen the item
  there, in the old array or, through the pointer, in the new one.  This is where the release fence of `push` and
  the release store of `array` enter.
* `Thieves`: if the index of a thief is still the top when he comes to his `compare_exchange`, then
  the array, the size and the slot he has read are those of the item at the top.  If it is not, the
  `compare_exchange` fails.
* `Window`, `Arrays`, `Items`: the items lie between top and bottom, in the owner's array, each of
  them once, and what has been returned is not among them.

So a win of `top` hands out the item at the front, and `take` without a race the one at the
back, which no thief can have any more.  With the mapping of `ImplementsDeque`, each step is
a `Push`, a `Take`, a `Steal` or a stutter of `AbstractDeque`.

### SPSC queue and eventcount

`SPSCQueueProofs` proves, for any number of calls and of
wake-ups without a notification:

| theorem | property |
|---|---|
| `QueueInvariance` | `SPSCSpec => []QueueInv` |
| `QueueTypeCorrectness` | `SPSCTypeOK` |
| `QueueRefinement` | `ImplementsQueue` |

The one hypothesis is `SPSCAssumption`, the assumption of the model.
`QueueInv` has these parts:

* `Locked`: the two threads are not in the critical sections of the guard together;
  `Chain`: `count` is changed by read-modify-writes alone.
* `Sleeping`: a consumer that sleeps was counted in `waiters`, unless the producer has
  taken the count and is about to notify.
* `List`: the nodes from 0 to `head` are linked in the order they were made, and for each
  phase of `enqueue` how many messages each field has (`Ready`, `NextLength`).  The producer has
  seen all of them, so its stores land at the end.
* `Links`: the message that links a node carries the stores that initialise it.
* `Reading`: the consumer has taken the items up to `tail` in order, has deleted the nodes
  before `tail` and no other, and, where it is about to read the data of the next node,
  has seen them.

So the consumer never overlooks what was last in `next` of its node (it either reads
null or the link), reads the data of an initialised node, and deletes a node that neither
`head` nor `tail` is any more.  `Content` counts links over all nodes; `Mapping`
shows it to be the items after `tail` up to `head`, and then the link of `enqueue` is the `Enqueue`
of `AbstractQueue`, the step that takes the data its `Dequeue`, and everything else,
the whole of the eventcount included, stutters.  Of the memory orders the proof expands
`OrderLink`, `OrderTryDequeue` and those of the mutex: the eventcount's orders
matter to `DequeueReturns` alone, which is liveness and stays with TLC.

### Michael-Scott queue

The second half of `LinuxRWLockMSQueueProofs` proves, for every finite set of threads, any
number of calls, any free lists and any width of the counts:

| theorem | property |
|---|---|
| `MSInvariance` | `MSSpec => []MSInv` |
| `MSTypeCorrectness` | `MSTypeOK` |
| `EmptyJustified` | `EmptyIsJustified` |
| `MSRefinement` | `ImplementsQueue` |
| `NodesApart` | `NoTwoPlaces` (not the property of a run: `NodeInOnePlace` implies it) |
| `NodesKept` | `NodeInOnePlace` |

The hypothesis of all is `CountsFit == MaxEnqueues < CountRange`: the count of a pointer does not
come round in a run.  The code relies on it too, its counts have 32 bits, and with a
count that stands still (`SameCount`) the run finds a node in two places.
`NodesKept` has one more, `FreeListsSuffice`: `reclaim` silently drops a node when the
free list is full, so that no node is lost can only be said where no list overflows, because one
list holds all nodes but one (drivers of two threads have five nodes, and lists of four slots), or
because nobody dequeues often enough to fill it (the other drivers, and the run).
`NodesApart`, that no node is reused too early, does not need it.

Nodes are reused, so `MSInv` cannot speak of nodes alone.  It numbers the *positions*: the node at
position k is the one that `tail` has pointed to with count k, or will next; `Uses` counts how
often a node was used before a position, and every use adds a null and a link to the history of
its `next` and an item to that of its `value`, whose indices are computed from the number of the use.

* `Ends`: head and tail are exchanged from position to position, head stays behind, and tail is
  at most one behind the end.
* `Nexts`, `Items`: the history of each field is that of the uses of its node, link after null.  The
  counts in it are the numbers of the uses, so a `compare_exchange` on a `next` succeeds only
  on the null of the node's present use, and only if that is the newest message.
* `Apart`: a node is once in the list, or in one place of one thread.
* `Owned`, `Published`: a pointer to a position carries all that led to it (`Knowledge`): the nulls,
  items and links up to it, and, if a node was used before, the moves of head and tail with
  which that use ended (`Departure`).  Who holds a free node has seen its fields and its departures.
  This is where the releases and acquires of the code enter.
* `Closures`: who has seen a link has seen those before it.
* `Reading`: for each label, which position each local of a call stands for, and that it is
  current or the `compare_exchange` to come will fail: the thread has seen, or is sure to find, that
  head or tail moved on.  This is what the second look at `head` and `tail` is for.

The abstract queue holds the items of the positions after head up to the end (`QueuedIs`), which
needs that following the links from head meets these nodes in order (`ListIs`, an induction over the
positions by a smallest counterexample).  `Moves`, proved with the invariant for every step,
says that a step moves one end by one position or none, and `MSRefinement` makes these the
`Enqueue`, the `Dequeue` and the stutter of `AbstractQueue`.  `EmptyJustified` follows from `Reading` and
`Closures`: a `dequeue` that found nothing behind head has not seen the link of head, hence none
after it.  The proof expands the orders of all injections.

### Only model-checked

All liveness (out of the prover's reach), and the violations.  TLC checked every inductive invariant as an invariant of the component's run (of the
MPMC and the MS queue's without `MemType`, which mixes records with numbers; the MS queue's,
with the two parts that `NodesKept` adds, `Kept` and `Filling`, with three threads on three calls).

## Not modelled

`ConcurrentHashMap.java`, vendored; `spsc-bugfix/relacy`, a copy for another
checker; build scripts.  Of `unrelacy.h`, `rl::var` and the `load_32` family, which
instrument plain accesses.  Of the MS queue `simulateRecycledNodeUpdate`, which
nothing calls.  Of the eventcount `signal_relaxed`, which nothing calls either and is
in `EventCount` only as a mutant of `signal`.  Of the MCS lock the assertion of
the destructor, that `m_tail` is null.  Of the deque `create_size`, whose
deques never grow, and a second `resize`, see the limits above.  The main functions of
the drivers are modelled as callers: which threads there are and what they may call,
not what they print.

## Plan

Every safety property of the runs is proved.  What is left is the deque with a second `resize`: to
state what a thief must not do for it to be harmless.
