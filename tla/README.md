# KRoC: its run-time kernels in TLA+

KRoC compiles occam-pi to native code.  A program is a large number of very
light processes that communicate over channels; the run-time kernel, CCSP
(`src/runtime/ccsp`), schedules them on one POSIX thread per processor.  Almost
all of the kernel is lock-free code on machine words shared by the threads: the
part of the repository where tests say least, and most of what this project
models.  The other back end is the Transterpreter (`src/runtime/libtvm`, with
the wrappers in `src/tvm`), which interprets the same programs on one thread.

## 1. Inventory

| Part | State | Operations | Talks to |
|---|---|---|---|
| Semaphores (`sched.c` 2447-2565) | `fptr`, `bptr` with a lock bit, chain through `Link` | claim, release, dequeue | run queues |
| Channels and ALT (`sched.c` 4656-5973, `cif.h`) | channel word; `State`/`Pointer`, `Temp`, `TLink` of a workspace | in, out, extended input, alt, enb*, wait, dis*, altend | run queues, timer queue |
| Timer queues (`sched.c` 1140-1420, `ccsp_timer.h`) | nodes, list and `timeout` of a thread, `SYNC_TQ` | insert, cancel (from any thread), walk, clean | ALT, run queues |
| Batches, run queues, migration windows (`sched.c` 380-800, 930-1140, 1841-1994) | current batch, list, pending batch, window slots and state word, `rqstate`, `mwstate`, free and laundry lists | enqueue, push, split, pull, migrate, load | everything that makes a process ready |
| Mailboxes, sleep and wake-up (`sched.c` 632-702, 804-882; `userproc.c` 201-607) | `pmail`, `bmail`, `sync`, `sleeping_threads`, signal pipe | mail, dequeue, wake, pause | all threads |
| Idle, deadlock, shutdown (`sched.c` 1841-1994) | `idle_threads`, `sleeping_threads`, `bsyscalls_pending`, `ccsp_shutdown` | idle branch of `kernel_scheduler` | mailboxes, blocking calls, timers |
| Blocking system calls (`bsyscalls.c`) | pools: queue, `waiting`, `running`, `dead`, `to_reap`; the kill word | dispatch, clone thread, clean-up handlers, kill | POSIX threads, mailboxes |
| Barriers (`sched.c` 2567-2896) | `state` (count, tag, SYNCING), `heads`, `head[]` | enroll, resign, sync, complete | batches |
| Mobile types (`sched.c` 3100-3700) | `ref_count`, elements of arrays | alloc, clone, output, release | semaphores, barriers |
| FORK barriers, PAR (`sched.c` 2898-2960, 4240-4330) | one word and a count | fork, wait, end; start, enroll, end | run queues, mobile types |
| Transterpreter (`libtvm`, `tvm/posix`, `tvm/srv1`) | per context: run queue, timer queue, flags; channel words; workspace words; one alarm | instructions, synchronise, alarm, disconnect, main loop | the operating system's timer |
| Mobile processes, dmem, post-mortem, CIF | | | |
| occ21, tranx86 and other tools, libraries, demos | | | |

`PROJECT.json` lists every part with its status.

What is hard in this code:

* *Interleavings of single word accesses.*  There are no locks; each operation
  is a few loads, swaps and compare-and-swaps, and any other thread may act
  between two of them (semaphore dequeue, ALT enabling, barrier completion,
  migration).
* *Values read, then acted upon.*  Channel words, `State`, the state word of a
  migration window, `idle_threads` and `sleeping_threads`, the `heads` of a
  barrier.
* *Memory that is used again.*  Batches and timer nodes are recycled while
  other threads may hold their addresses; a dirty bit says when that is over.
* *Wake-ups.*  A thread announces that it sleeps, looks again, and sleeps in a
  read on a pipe that may be full or hold stale bytes.
* *Cancellation.*  A blocking call may be killed by cancelling its thread at
  any point of it, and the killer may come late, when its thread does something
  else; a user program of the Transterpreter may be killed while the
  firmware is in an ALT on its channels.
* *Time.*  A timeout may expire while a channel guard fires; a timed pause ends
  while it is being woken; two contexts share one alarm.

What makes each part correct: one owner and FIFO order for a semaphore; each
value communicated once, one ready guard selected, and a process never on a run
queue while it runs, for ALT; every ready process in one place, and run again;
nobody woken early, everybody woken, for timers; mail that always arrives;
deadlock reported only if there is one; calls that are made and finished exactly
once; no barrier phase that completes early or without somebody; counts that
equal the references; a FORKING block that is a join.

## 2. Modules

| Module | Models | Runs |
|---|---|---|
| `FifoSemaphore` | the abstract promise of a semaphore | (refined by `Semaphore`) |
| `Semaphore` | `sem_init`, `sem_claim`, `sem_dequeue`, `sem_release` | `Semaphore` |
| `SharingProofs`, `SchedulerProofs`, `BlockingCallsProofs`, `BarrierProofs`, `QuiescenceProofs`, `TimerQueueProofs`, `AlternationProofs`, `TransterpreterProofs` | theorems (section 5) | |
| `Alternation` | channel I/O, extended rendezvous, ALT, one timer node | `Alt`, `AltProcAlt` |
| `TimerQueue` | the timer queues and the calls that use them | `TimerQueue` |
| `RunQueues` | the scheduling loop, batches, migration | `RunQueues` |
| `Mailbox` | a process mailbox and the sleep protocol | `Mailbox` |
| `Quiescence` | the idle branch of `kernel_scheduler` on all threads, with the work they take from each other | `Idle` |
| `BlockingCalls` | one pool of `bsyscalls.c`, and `C.killcall` | `Bsc`, `BscTimeout` |
| `Barrier` | `bar_*` | `Barrier` |
| `Join` | the abstract promise of a FORKING block | (refined by `MobileTypes`) |
| `MobileTypes` | `mt_*`, `fork_bar_*`, `startp`, `endp`, `proc_start`, `proc_end` | `MobileTypes` |
| `Transterpreter` | scheduler, channels, ALT and timers of libtvm; two main loops | `Tvm` |

`MCAlternation`, `MCRunQueues`, `MCMobileTypes` and `MCTransterpreter` add the
programs (ALTs, affinities, channels) and symmetry sets that their
configurations use, and nothing else.

How the modules fit together: `Mailbox` shows that mail always arrives, so
`Quiescence` and `RunQueues` treat a mailbox as a set.  `RunQueues` has the
migration windows in full; `Quiescence` has what a thread may find in another's
window.  `RunQueues` also shows that a process on a queue is run again, so `TimerQueue`, `Barrier` and `Alternation`
may assume it of theirs.  `Alternation` has one timer node, whose queue is
`TimerQueue`'s.  The locks of shared ends in `MobileTypes` are `Semaphore`'s.

### Conventions

An action of a CCSP module is one access to a shared word together with the
local computation up to the next access.  Code inside a mutex (`bsyscalls.c`) is
one action.  `pc` holds the position of each thread; local variables of the C
functions keep their names where they matter, and are reset when a function
returns so that they do not multiply states.  Each module says which parts of a
word it keeps apart.  Definitions named after a slip (`TryLockAlways`,
`TakeSlotLeavesIt`) are mutants: `PROJECT.json` says which definition each
replaces, and which property then fails.  They are part of no specification.
Every module of a component has a `TypeOK`; it is not listed in the configurations, and holds
when `INVARIANT TypeOK` is added to them.

*Memory model.*  Accesses are sequentially consistent.  The code's atomics are
`lock`-prefixed i386 instructions, the plain stores between them are separated
by `weak_*_barrier`, and on i386 only a store followed by a load of another
word may be seen in another order; no such pair without a locked instruction
between is relied upon in what is modelled.

### Semaphore

`fptr` and `bptr` are the two words, `bptr` a record of pointer and bit 0.  A
thread and the process it acts for are kept apart (`me`, `status`): once
`sem_claim` has published a process in `bptr`, another thread may grant the
semaphore to it and run it while the first is still in the tail of
`sem_claim`.  `waitq` is a ghost: published processes in the order of the
compare-and-swap.  `FifoSemaphore` has an owner and a queue; the refinement maps
them to the process granted or inside, and to `waitq`.

### Alternation

One reader process ALTs over, inputs from and does extended inputs on channels
that have a writer each; all run on different threads.  `slot` is the word that
is `State` during an ALT and `Pointer` otherwise.  `prog`, chosen from the
constant `Alts`, is the ALT of the reader's program: its guards and its client,
who compiled it: `"occam"` leaves enabling at the first ready guard (ENBC3),
`"ProcAlt"` is the C function of `cif.h`, `"raw"` goes on enabling, as the raw
interface and replicated ALTs do.  A guard whose pre-condition is FALSE is the
same as an absent one, since enabling and disabling it do nothing.  There is at
most one TIMER guard.  Values are counted modulo 2 on either side (`sent`,
`rec`); a writer cannot begin an output before the last one is over, so that is
enough to tell a lost or repeated one.

### TimerQueue

The doubly linked list of a thread is a sequence, since only its thread changes
it.  What other threads do is swap the process pointer out of a node and set or
test its dirty bit.  The code only subtracts times, so every time is kept
relative to the clock and modulo `TimeRange`: a tick takes one off each, and the
wrap-around of the clock happens at every value.  Free and laundry lists of
nodes are pooled over the threads.  The channel that wakes an ALT is an action
that may happen whenever the process waits.  The branch of `insert_tqnode` that
reuses a dead node in the list (1209-1216) is in no reachable state: a linked
node without a process is dirty until the queue lets go of it (`NodeNotReused`).
When the first node of a queue is cancelled with its time already over,
`Time_SetTimeout` moves the timeout to now + 1 each time; `QueueInOrder` states
that bound.

### RunQueues

One priority level; priorities only choose the level.  A process runs by an
action `Run` that lets it yield, wake another process, or sleep (at most
`MaxWaits` times in all).  A batch is a sequence of processes with its window
number and dirty bit, named by the thread that allocated it.  Free batches are
alike, so the free and laundry lists of a thread are sets and any free batch may
be used next.  The window's state
word is one variable, its slots others, because the code accesses them apart.
The `unsafe` bit operations of the owner are a read and a write, between which
another thread may clear a bit.  The comment at `sched.c:1137` says not to worry
about the race on `mwstate`; `LiveReadyRuns` confirms that nothing is left
behind.  `LiveReadyRuns` is about a process that is on the queues for good;
waking and mail belong to other modules.

### Mailbox

Any thread mails, one takes out.  `Items` are process pointers, which return to
their senders once run, so the addresses are reused as in the kernel (the ABA
case).  `bit` and `sync` are the `SYNC_*` flags; `pipe` counts bytes in the
signal pipe, which has room for `PipeSize`.  The alarm handler is a sender of
its own.  The module has no name in common with `RunQueues` (`MailInit`,
`posted`, `NIL`...), because the proofs about the two are in one module.

### Quiescence

All threads at once.  A process is at one place: a run queue, a mailbox, a
timer queue, a call, or blocked.  Mail and pause are atomic here, which is what
`Mailbox` justifies.  The idle branch is one action per word:
`bsyscalls_pending`, `idle_threads`, then `sleeping_threads` (the compiler may
order the last two, both volatile, only as written).

Before it sleeps a thread looks for work of others: it reads `sleeping_threads`
(`ReadActive`) and may then take a batch from the window of any thread whose bit
was not set (`Migrate`), or find none (`NoWork`), although there is some, because
`mwstate` hides it or another was faster.  A thread's bit in `sleeping_threads`
may still be set while it is awake: `ccsp_safe_pause` returns when its `sync` word
is set, and only a waker, or the owner in `Unsleep`, clears the bit.  A window
(`Advertised`) holds processes of its thread's queue that have no affinity, not
the one that runs, and never all that wait: the batch pushed last is pending,
not in a window.  The last is justified by `RunQueues`, where TLC confirms that a
slot is in use only while the queue has a pending batch.  A thread that picks a
batch may wake one that sleeps to share the work (`SYNC_WORK`); whether it does is
left open, since it depends on `mwstate`.

`Movers` may set their affinity and `Closers` shut the program down; the runs
give these roles to as few processes as show what they do.  Left out: that a
thread spins before it sleeps, which repeats steps that change nothing.  `raced`
is a history variable: the threads during whose reads a call or a timer was
begun, mail was sent, or a thread still marked asleep took another's work.

### BlockingCalls

One pool: pool 0 (`Shared`) with at most `Limit` threads, or a pool for calls
with an affinity, with one.  A clean-up handler is a sequence of actions, run
after a call returned or after the cancellation of its thread.  The
memory of a terminatable call's job (`mem`, a member of `Batches`) is the batch
that goes back to the schedulers with the process, and is used again at once, as
is the identity of a thread that has been joined.

`bsyscall_kill` is three steps: the swap of the kill word, which may yield the
address of a job; the read of `job->bsc.thread` there (`KillRead`), whatever the
memory holds by then; and `pthread_cancel` of that thread (`KillCancel`),
whatever it does by then.  If the clone executes the killed call, it is cancelled
in the cancellable region and its clean-up handlers finish the call.  If the call
is over, the clone hit may be between two calls, in another call, or a new one
under the same identity.  In a terminatable call it ends as if that call had been
killed.  Elsewhere (`StrayCancelled`) only `bsc_cleanup_pool` runs, and its call, if
it has one, is lost.  Abstractions of that step: it may come at any access, while
the real one waits for a cancellation point; that the handler unlocks a mutex the
clone may not hold, and that a clone at its very start has no handler yet, are
not followed.  `astray` is a history variable: a kill has hit a clone
without its call; after that no other kill is begun (`KillBound`), since what is
lost stays in `waiting` and `pending` for ever.  Spurious wake-ups of condition
variables are left out, and so is a `pthread_create` that fails with no thread
running, because the program ends there.

### Barrier

`state` is a record of count, tag and SYNCING; `head[t]` is the tag of a
thread's head, or NULL, and `held[t]` the processes under it, whatever batches
they are in.  A process counts from the moment `bar_complete_head` adds it until
its compare-and-swap in `bar_sync` or `bar_resign`.

### MobileTypes

Blocks of memory are bundles of channels (with `ref_count`), arrays of one
element, or the barrier of a FORKING block.  A process has a few mobile
variables, clones or moves them into variables of others (by output, or as a
parameter of a process it starts), and releases them.  `fork_bar_sync` and
`mt_release_simple` are split where other processes can act.  `Join` maps
`members` to the processes that refer to the barrier and `block` to where its
opener is.  Two variables record what the code does beyond that: `stray`, the
increments of `mt_io_update_array`, and `late`, a barrier whose `resign` is
called after the reference to it has been given up.

### Transterpreter

One action is one byte-code instruction that touches scheduling, one step of
`run_next_on_queue`, or one step of a wrapper's main loop; there is one thread,
so nothing else interleaves but the alarm signal (posix), which may come between
any two steps, and the clock.  Calls of `set_alarm` are steps of their own, with
`setitimer` apart from the decision, because the clock moves between them, and so
are the rounds of the loop in `walk_timer_queue`, between which a signal may come
but no tick (`now` is read once).
`Init` chooses between the two wrappers; posix ends with its user program, the
SRV-1 goes on without it (`alive`).  Abstractions: times are integers relative to
the clock, since only differences below half a word's range arise; `TNEXT` is
the time of the first process of the queue; the data of instructions, and the
process that started the user program (`user_parent`), are left out; an SRV-1
firmware with nothing to run waits for a device (`run_firmware` has device tests
there); guards are disabled in forward order (the compiler's default);
`ECTX_PREEMPT` cannot occur, since every context has priority 0.  Contexts are
cooperative: only the user program is sliced, so a process that never
deschedules starves timers, which `TimersWake` takes as a premise.

## 3. Runs

Passing runs:

| Run | Instance | States | Shows |
|---|---|---|---|
| `Semaphore` | 2 threads, 3 processes | 37,780 | one owner; the bit tells whether there is one; nobody waits on a free semaphore; refinement of `FifoSemaphore`; every waiter is served |
| `Alt` | 2 channels; guards c1 c2 TIMER and c1 c2 c1 SKIP compiled, c1 c2 by ProcAlt | 300,504 | never scheduled twice; every trigger finds the State of its ALT, which counts the guards; each value delivered once; only ready guards selected; compiled ALTs: priority, completion |
| `TimerQueue` | 2 threads, a sleeper and an ALT, 2 nodes | 69,286 | nodes recycled only when unlinked; sorted across the wrap; walker or canceller wins; nobody early; everybody woken |
| `RunQueues` | 2 threads, 3 processes, one with affinity, windows of 1 | 138,074 | every process in one place and on its own thread; no batch reused while it is read; every ready process runs |
| `Mailbox` | 2 senders, 2 processes, pipe of 1 | 333,138 | the oldest is taken first; no lost wake-up; mail arrives |
| `Idle` | 2 threads, one process with timers, one with calls and affinities | 1,198,520 | a reported deadlock is one, unless a call, a timer, mail, or migration by a thread marked asleep came between the reads; a program that has shut down ends |
| `Bsc` | 3 calls, 2 killable, 2 job memories, limit 2, 2 thread identities | 1,011,824 | no call is held or finished twice, none is lost and `pending` counts until a kill goes astray; kill word and killer name live calls, and after them their own clones, until the call is over; threads joined once; callers resume |
| `Barrier` | 2 threads, 3 processes | 64,544 | the count is right; no phase completes early; nobody is lost; everybody is released |
| `MobileTypes` | 3 processes, 3 blocks, 2 variables each | 172,797 | counts are exact; every sleeper has a waker; refinement of `Join` |
| `Tvm` | 1 firmware and 2 user processes, 3 channels, both wrappers | 376,380 | no instruction fails; every process in one place; only ready guards selected; timers wake |

Why the bounds are enough to meet the interesting cases: the races are between
two operations and a third that has already moved on, so three threads (for the
mailbox its owner and two senders), and as many processes as make a queue empty,
of one, and longer.  Addresses are reused at once.  A pipe of one byte is full
after one wake-up.  With a limit of two threads the third call queues; a killed process can call
again, and be killed again, while its first thread is still being cleaned up.
With two killable calls and two memories a killer finds the memory of its call in
use for the other one, and the clone that leaves a killed call joined by that of
the other one, and its identity given to a new clone in the call that is not
killable.  Two threads are enough for every step of the idle branch, migration
by a thread that is marked asleep included; the false reports that `raced`
excludes for mail and migration need a third (section 4), so `DeadlockIsReal` was
checked there too (below), and it is a theorem for any number.
With three processes on two threads a barrier completion
meets heads of the other thread that are gone, of the new phase and of the old
one, and phases in a row (the two-bit tag takes all four values).  A migration
window of one slot is full after one batch, so the owner overwrites slots and
takers race for the same one; batches of one dispatch are pushed all the time.
Two timer nodes for two processes are both in use, and recycled, all the time.
`MaxDelay = 1` orders two timeouts either way, and `MaxLate` lets one pass
between two steps.

Larger instances, checked by hand: semaphore with 3 threads and 3 processes
(safety); barrier with 3 threads and 4 processes (230,916 states); mailbox with 3
senders and 3 processes (1,365,731); pool with
3 thread identities (1,243,084 up to symmetry, safety); idle detection with 2
threads where both processes set affinities and shut down (2,967,664), and, up to
symmetry, with 3 threads where one process sets affinities (3,629,649) or both do
and both shut down (11,831,144); run queues with windows of 2 (333,602; with 4 processes, the
first 1,350,000); timer queues with 3 nodes (2,084,726), with `MaxLate = 1`
and `TimeRange = 12` (241,456) and with two ALTs (up to 644,000); the
Transterpreter with every operation in both wrappers (2,171,771, safety).

Unbounded in the code and bounded here: `MaxWaiting`, the value of `waiting` up
to which a clone times out; `Threads`, `Batches` and `KillBound` of
`BlockingCalls`; `PipeSize`; `MaxWaits`
and `PoolSize` of `RunQueues`; `MaxDelay` and `MaxLate`; `MaxLeak`, how often an
array is moved.

`CHECK_DEADLOCK FALSE` stands where the program may stop: in `Quiescence`, where
the kernel exits; in `Bsc`, where a stray kill may have lost every call; in `Alt` and `AltProcAlt`, because ProcAlt can hang (below;
`AltCompletes` says that compiled ALTs do not); in `Barrier`, where
`EveryoneReleased` says more; and in `Tvm`, where the program may end, or stop
all of its processes.

Fairness.  `WF` on the steps of a scheduler thread or a clone inside the
kernel: POSIX threads are scheduled.  A process that holds a semaphore releases
it (`Semaphore`), the clock ticks and timers expire (`Alt`, `TimerQueue`, and
`Mailbox` for the time limit of a pause), a system call returns (only in
`ReturningSpec`), an enrolled process that runs synchronises or resigns.  A
process on a run queue is run (`SF` in `Barrier` and `TimerQueue`, since a thread
takes processes one by one), which `RunQueues` shows under `WF` of the threads
alone.  `EveryoneReleased` excludes processes that enroll and resign one another
for ever, where nobody would expect a release.  In `Transterpreter` the
interpreter goes on (`WF`), signals are delivered (`WF`), and the clock ticks
(`SF`, since it stands still while a signal is due); a slice ends and is at least
one instruction long (`SF` on both, `tvm_run_count` with 10000 or 1000).

## 4. Disagreements between the code and what is said about it

Each is a run that TLC finds violated; `PROJECT.json` quotes the lines.

| Run | What happens |
|---|---|
| `AltProcAlt` | ProcAlt skips the wait when a guard is found ready; if another was triggered before, `ALT_ENABLING` stays set and ALTEND sleeps for ever. |
| `BscTimeout` | The time-out of `pthread_cond_timedwait` is tested with `< 0` and never noticed: `waiting` counts a thread twice and a later call is not started while the one in front of it blocks. |

Further behaviours the same modules show:

* `INVARIANT NoProcessesToRun`, in `Idle.cfg` or with three threads, no `Timed`,
  `Callers` or `Closers`: the words for deadlock detection are read one after the
  other (`sched.c:1949-1963`), and "program deadlocked (no processes to run)"
  (`userproc.c:185`) may be said of one that is not.  With two threads a call
  dispatched, or a timer set, between the reads of another thread is missed, and a
  deadlock is reported while the call is pending.  With three threads mail is
  missed in the same way.  After the reader has found all threads in
  `idle_threads`, two others wake; one mails a process to the other, which is not
  asleep and so is not woken, and goes to sleep; the receiver sets its bit in
  `sleeping_threads` before it looks for mail, and the reader, finding all bits
  set, reports deadlock (`sched.c:1962`).  In the fourth way no mail is sent between
  the reads: one of the two runs what mail from before has brought it, the other,
  whose bit is still set because a late wake-up ended its pause, takes the work the
  first one's process readies (`sched.c:1914-1919`), and the first goes to sleep.
* `INVARIANT CallNeverLost` in `Bsc.cfg`, with or without a second killable call:
  `bsyscall_kill` reads `job->bsc.thread` and cancels it (`bsyscalls.c:436`) after the
  call may have returned and been rescheduled.  The clone hit may by then be in a
  call that is not terminatable, which then never returns, and `bsyscalls_pending`
  stays above 0, although "the process making the blocking call will block and will
  be securely rescheduled when the call eventually completes"
  (`doc/essentially-kroc.txt:849-850`).
* `Quiescence` without shutdown: a real deadlock goes unreported when the clone
  of the last call decrements `pending` after every thread has fallen asleep
  (`bsyscalls.c` wakes a thread then only if the program is shutting down).
* `BlockingCalls`: a call that returns between the two steps of `bsyscall_kill`
  reaches the "bad place" (`pc[t] = "badPlace"`, `bsyscalls.c:286`).  The thread
  exits and the process runs on; the killer has still to name that thread
  (`CallNeverLost`).
* `Shared = FALSE` with a killable call: killing a call in a pool of one thread
  leaves the calls queued behind it without a thread until the next dispatch.
  This is why `CallerResumes` excludes kills.
* `Alts` with client `"raw"` and guards c1 c2 TIMER: enabling that goes on after
  a ready guard has cleared `ALT_ENABLING`, and a later trigger puts the running
  process on a run queue (`NeverScheduledTwice`).
* `Alts` with guards TIMER c1: NDIST compares the timeout with itself and
  selects the TIMER guard before its time (`SelectsReadyGuard`).
* `MobileTypes`: `mt_io_update_array` raises the counts of the elements of an
  array that is moved, not shared (`stray`), so bundles sent in arrays are never
  freed, contrary to `ccsp_cif.h:405-407`.  `mt_release_simple` calls the
  `resign` of a barrier after giving up its reference (`late`,
  `sched.c:3356`): another process may have freed the block by then.
* `TimersWake` without `[]~Stuck`, in the posix wrapper: `tvm_set_alarm`
  (`vm.c:79-90`) goes on after it has found the alarm due, gives `setitimer` 0
  (which stops the timer) or nearly 2^32 microseconds, and sets `alarm_set`;
  later timers then find an alarm that never comes.

Found while reading, and not modelled: `tvm_sleep` of the SRV-1
(`tvm.c:439-441`) tests the firmware's state twice, without effect because
`SFLAG_TQ` stays set; `ins_tin` wakes at the time asked for, where its comment
says later; `mproc_bar_sync` links the process to itself; `ProcMTMove` leaves the
variable as it is for shared ends, where `ccsp_cif.h` says it is set to NULL.

What the models showed to be redundant rather than wrong: in `bar_complete`,
putting back the bit of a head of the new phase changes nothing, because the
thread that made the head has set the bit again since the swap of `heads`.

## 5. Proofs

Each proof module states its theorems for every value of the constants that the
named ASSUMEs of its component's module allow, and TLC checks the inductive
invariant on the instances of section 3 (and on those "checked by hand") as well.
Every invariant is a conjunction of named parts, with one lemma per part that a
step preserves it, and in the lemma one step per action.

| Module | Assumes | Invariant | Theorems |
|---|---|---|---|
| `SharingProofs` (`Semaphore`) | `NP` is no process | `IInv`, `WInv` | `SemaphoreTypes`, `SingleOwner`, `BitIsTruthful`, `NobodyStranded`, `Fifo` |
| `SchedulerProofs` (`Mailbox`) | `NIL` is no process; the pipe has room for a byte | `MInv` | `MailboxIsFifo`, `WakeupNotLost` |
| `SchedulerProofs` (`RunQueues`) | finitely many processes; sizes are positive; `NULL` is no thread or batch | `RInv` | `ProcessStaysInOnePlace`, `FreeBatchStaysUnseen` |
| `BlockingCallsProofs` | limits are numbers; `NULL` is no job, memory or thread; memories, threads and the values of the kill word differ | `BInv` | `CallInOnePlace`, `PendingIsExact`, `KillsAreAimed`, `ReapsOnce` |
| `BarrierProofs` | finitely many processes; `NULL` is none, and no tag | `BInv` | `CountIsExact`, `NoEarlyPass`, `WaitersAreFound` |
| `QuiescenceProofs` | finitely many processes; threads and processes differ, `NULL` is no thread | `QInv` | `DeadlockReportIsTrue` |
| `SharingProofs` (`MobileTypes`) | finitely many processes, blocks and variables; `NULL` is no block or process | `MInv` | `CountsAreExact`, `SleepersAreWoken`, `ForkingIsJoin` |
| `TimerQueueProofs` | finitely many nodes, delays well below half the clock's range; names differ | `TInv`, `OInv` | `NodesAreNotReused`, `TimersCountOnce`, `QueueStaysInOrder`, `NobodyWokenEarly` |
| `AlternationProofs` | finitely many channels, at least one; an ALT has a guard and at most one TIMER; names differ | `AInv`, `SInv`, `DInv` | `ScheduledOnce`, `TriggersFindState`, `TransferredOnce`, `FirstReadyGuard`, `SelectedIsReady` |
| `TransterpreterProofs` | finitely many processes; the channels between the contexts are the top-level ones; names differ | `TInv` | `TransterpreterNeverFails`, `TransterpreterInOnePlace`, `TransterpreterSelectsReady` |

The number of threads is unbounded in all of them (`MobileTypes` and
`Alternation` do not tell threads apart, the Transterpreter has one).

### Semaphore

`OneOwner` is not inductive.  Ownership passes through states in which no
process holds the semaphore but a thread in `sem_dequeue` acts for the owner;
that the thread finds the head of the queue in `fptr` depends on where every
other thread is.  `IInv` conjoins `TypeOK`, `OneOwner`, `BitTellsOwner` and:

* `Bookkeeping`: what a position in the code says about a thread's locals and
  its process;
* `Queue`: `waitq` has no duplicates and holds exactly the published waiters,
  `bptr` is its last element, the link of an element is its successor or not
  yet written;
* `Fronts`: the `f` and `l` a dequeuing thread has read are the head of `waitq`
  and its successor;
* `Joins`: a thread in the tail of `sem_claim` has in `val` the predecessor of
  its process in `waitq`, whose link is not yet written, or nothing, in which
  case its process is the head and `fptr` is empty; and no two such threads act
  for the same process.

`Fifo` (`Spec => IsFifoSemaphore`) uses `IInv`: the process that `sem_dequeue`
grants is `Head(waitq)` only because of `Fronts`.

`NobodyStranded` needs more, `WInv`: every word of the queue that is not yet
written has a thread that is about to write it (`Linked`), a thread that leaves
with the first waiter in hand has seen a second (`Behind`), and a free semaphore
with waiters has a thread that will try to take it before it leaves
(`Attended`).  `Attended` is kept up in turns: a releaser that gives up because
an enqueue is incomplete leaves the matter to the thread that completes it, and
looks again once itself.

### Mailbox

The order of a mailbox is that of the swaps of its back pointer (`posted`).
`Chain` says which words follow that order already, `FrontWord` what the owner has
in hand, `Sends` (with `Place`) where each sender's pointer has to go: between
the two compare-and-swaps of the owner's dequeue a sender may find the back
pointer NULL while a process is still leaving, so both words may disagree with
`posted` at once.  `Filled` gives every gap a sender, `Noticed` says that mail the
owner does not know of has its bit in `sync` or a sender that will set it, and
`Woken` relates the sleeping bit, `sync` and the bytes in the pipe.
`MailboxIsFifo` follows from `FrontWord`, `WakeupNotLost` from the last three.

### RunQueues

Neither property is inductive, since what one thread may do depends on what
another has read: a batch stays in its owner's list after another thread has
taken it from the window, and the two meet again only in its dirty bit.  `RInv`
conjoins `TypeOK` and:

* `Stages`: what a position in the code says about a thread's locals and its
  current batch;
* `Memory`: a batch of a thread is free, in the laundry, pending, about to be
  added, listed, or in its hands, and in one of these; only one that is just
  being advertised is in two;
* `Slots`: a batch with a slot is listed, or about to be, is dirty, knows its
  slot, and is in nobody's hands;
* `Hands`: a batch another thread has taken stays dirty until that has read it,
  and no two threads have the same one;
* `Contents`: what is in a batch; only batches without affinity are ever dirty,
  so that nothing with an affinity can be taken;
* `Settled`: every process is in one place.

`Hands` is the crux.  The owner that finds its slot empty puts the batch in the
laundry, where it stays while it is dirty, and dirty it stays while a taker
holds it; the taker clears the bit after it has copied the batch, so that the
processes are in the batch, or in the current batch of the taker, and never in
both.  The stale state word (`mw`) and the two advertisements (`rqstate`,
`mwstate`) are in no part of the invariant: whatever they say, the swap on the
slot decides who has the batch.  That is why the race at `sched.c:1137` is
harmless for safety; that it leaves nothing behind is `LiveReadyRuns`.

`ProcessStaysInOnePlace` follows from `Settled` and `Contents`,
`FreeBatchStaysUnseen` from `Memory`, `Slots` and `Hands`.

### BlockingCalls

The theorems hold for kills at any point, late ones included.  `Held` is
`CallHeldOnce` without cardinalities, and `Counts` adds what `pending` and
`running` count.  Both are one-sided: a call is in at most one place, and `pending`
is at least the number of calls, whatever is killed; a call is in one place, and
`pending` exact, until a kill goes astray.  That such a kill loses calls is shown
in section 4; that it cannot have a call done twice is what the one-sided parts
say.  `Stages` says which positions of a clone have a job, a thread to reap, or are
on the way out.  The rest says when a kill is not astray:

* `Memory`: the memory of a job is that of one call, and names the clone that
  executes it from the moment that clone has begun;
* `Kills`, for a killer on its way (`Aims`): the call it has taken from the kill
  word, if it is not over, is still with a clone in the cancellable region or on
  its way out, whose name is what the killer has read or will read; and for a
  clone that is cancelled (`Hit`): until a kill goes astray it is in the killed
  call, or on its way out.

`KillsAreAimed` follows from `Aims` and `WordNamesLiveCall`: the swap of the kill word
never yields a call that is over, and while the call is not over the killer has
its memory, then its clone.

### Barrier

`BInv` conjoins `TypeOK`, `CountIsAbsent`, `NobodyPassesEarly` and:

* `Runs`: which thread runs which process;
* `Completer`: `SYNCING` is set exactly while one thread completes, and it is
  the only one; what it has read of the state word still holds;
* `Tagged`: the crux.  A thread in `bar_sync` works with a state word it has
  read before.  While its process has not synchronised the tag cannot move, so
  the head it finds or makes is of the current phase.  A head of an older phase
  is in `heads` before the completing thread swaps it, and on its list after;
* `Collected`: the sets under the heads and in the hands of the threads are
  disjoint and hold exactly the processes that have synchronised.

`WaitersAreFound` follows from `Tagged` and `Collected`.

### Quiescence

`Rest` says what a thread that has found its queue empty, or has looked at its
`sync` word after setting its sleeping bit, cannot have: work on its queue or
timers, or mail that nobody will wake it for.  `PendingIsCalls` is what
`bsyscalls_pending` counts.  `Reading` carries both over the reads of another
thread: from the first it knows that there are no calls; from the second, if all
threads were idle, that what work is left is on threads that have been woken,
are not marked asleep and cannot sleep again with it (`Quiet`), so that the third
read, which finds them all asleep, shows that there is none.  Work may move
between threads meanwhile: a thread that takes some has none of its own, and the
one it takes it from keeps some; if the taker is not marked asleep, `Quiet` holds
of it as well.  If it is, the report may be wrong, and the premise of the theorem
(`raced`) says so.

Each kind of step that the premise names is needed: without calls and timers `DeadlockIsReal` fails on two threads, without
mail or migration it holds on two and fails on three (section 4).

### MobileTypes

`MInv` conjoins the two properties, `TypeOK` and:

* `Shape`: an array has a bundle in it, variables refer to bundles and arrays,
  fork barriers to barriers, and only the counts of bundles drift;
* `Families`: what the state of a process says about its block and its PAR; a
  branch of a PAR is in no block but one it has opened, so that it never takes
  the reference of its parent with it;
* `Blocks`: a FORKING block has exactly one opener, and its word names the
  opener exactly while it waits.

Each action is first reduced to what it does to single blocks, variables and
processes (`Cloned`, `Moved`, `GivenUp`, `Waits`, `Finishes`, `Ends`, one lemma
each).  The counts then follow from what that does to four sets: an assignment
to a variable adds one pair to the `Holders` of a block and removes one from
another's, a block that is made or freed does the same to `Elements`, and
`Forked` and `Branches` change by one process at most.  That a bundle is freed
by the release of the last reference, and no earlier, is `RefsExact` read
backwards: with a count of 1 the releasing variable is the only holder.

`ForkingIsJoin` (`Spec => IsJoin`) takes its steps one by one: the reference
that a last `mt_release` finds is the process's own (`MembersCounted`), so the
opener that it wakes through the word is the one `Join` lets go on.

### TimerQueue

Neither property is inductive: whether the memory of a node may be given away
depends on three parties that never meet, the process in the ALT, the thread
that walks the queue and the laundry.  `TInv` conjoins `TypeOK` and:

* `Tasks`: a process in an ALT has a node, and a thread that walks or cleans
  its queue runs no process;
* `Lists`: a queue has a node once, and where in it, or out of it, each step of
  a walk has its node;
* `Holding`: a node in the hands of a thread is an ALT's exactly while it is
  dirty, and every dirty node is in the hands of the thread it names;
* `Memory`: a node is free, in the laundry without a process, or one process's;
* `Pointers`: a node names one process, whose phase says that it still waits
  for the node or has just unlinked it itself;
* `Shares`: the count of an ALT includes its timer until the process, having
  found its own pointer in the node, or the walker that swapped it out, takes
  it off (`Owed`, `Triggering`).

`Holding` is why the dirty bit is enough: a node without a process can be in a
queue only with the bit set, and the bit is cleared only by the thread that
lets go of the node.  In `Shares` the swap of the pointer moves the debt from
the process to the walker or back, in one step.

`Index`, `Place` and the operations on sequences are treated once, in lemmas
(`Inserted`, `Removed`, `TakenFromFront`, `PlaceInQueue`); a step is then
reduced to one node that enters (`Entered`) or leaves (`Gone`) a queue, and one
that changes (`Changed`).

The order of times needs more, `OInv`.  `Time_AFTER` is no order on a cyclic
clock; it is one while all times are less than half the range away from each
other, so `Ahead` turns a time into its signed distance from the clock, and the
lemmas about it make `After` the order of these numbers as long as they stay in
a window.  `OInv` adds to `TInv`:

* `Sorted`: the queue is in the order of `Ahead`;
* `Timely`: the window.  How far behind a node may be depends on its place: when
  the first node is taken away with its time over, the timeout moves to now + 1,
  and the one behind it has one more tick, so the node at place `i` may be `i`
  less than `MaxLate` and the number of nodes behind.  The queue is no longer
  than the set of nodes, so no time ever wraps round;
* `Alarms`: the timeout of a thread that is not looking at its queue is the
  first node's time, or the next tick; and if it is ahead every node has a tick
  to spare, which is what lets the clock tick;
* `Walks`: a thread walks with a time that it has read not long ago;
* `Asking`: a node in a queue has the time its process asked for, and the Time
  field of an ALT is not before it.

`QueueStaysInOrder` follows from `Sorted` and `Alarms`, `NobodyWokenEarly`, an
action property, from `Asking` and `Walks`.

### Alternation

The theorems hold for any number of channels and any guards, in any order and
repeated, under hypotheses about the program that section 4 shows to be needed:
`JumpsWhenReady` (the client is compiled occam or ProcAlt, not the raw interface)
for all of them, and `TimerLast` (no guard comes after the TIMER) for
`SelectedIsReady`.  TLC checked the invariants on 20 ALTs over two channels, of
both clients, with guards repeated, TIMER first, in the middle and last, and SKIP
(1,248,752 states), and `DInv` on those with TIMER last (800,760).

`AInv` says who owns which word.

* `Writers`, `Words`, `ReaderIo`: the pointer of a waiting process is in its
  channel word or in the hands of exactly one process that has swapped it out
  (`Holds`, `Awaits`), so whoever calls `enqueue_process` has the only pointer; a
  tagged word belongs to a guard on offer (`OnOffer`: enabled and not yet
  disabled) or to an extended input.
* `Counts`: the count of the State word, for every position in the code, and
  that `ALT_WAITING` is set exactly while the reader is descheduled.  A swap moves
  one from the tagged words to the triggers under way or to the reader's own
  decrement (`disDec`); the count never changes hands in two steps.
* `TimerNode`, `Outputs`: the same for the timer node, and which outputs have been
  begun and not transferred.

`ENABLING` being set while enabling is what a trigger needs to leave the reader
alone; a raw client clears it and goes on, which is why the theorems exclude it.

`SInv` says why an ALT ends with a ready guard.  `Waking`: the reader does not
stop waiting, nor pass the wait, unless a guard fires.  `Offers` and the lemmas
`ReadyStep` and `OfferStep`: a writer found in a channel on offer stays there
until that guard is disabled.  `Selecting`: while disabling, a guard that fires is
still to come (`Left`) or one has been selected, but for a process that ProcAlt
leaves with `ALT_ENABLING` (the run `AltProcAlt`): that one sleeps for ever and
selects nothing.  `Priority` says that backward disabling has not yet passed a
ready guard without selecting it.  `DInv` adds `Deadlines`: what the Time field,
the node and `now` say of the timeout at each position.

### Transterpreter

The theorems hold for any finite set of processes, any channels, any guards (in
any order, repeated, several TIMERs), both wrappers and any order of slices,
alarms, ticks and disconnections.  The mechanism is small (one thread, cooperative)
but one word, `WS_STATE`, says five things, and a process can be in a channel
word, on a timer queue and on a run queue at once while its ALT is being taken
apart.  `TInv` says which of them go together:

* `Turns`: the interpreter looks at a queue only between two processes, walks
  only while the first timer is due and sets an alarm only for a timer;
* `RunLists`, `TimerLists`: queues hold processes of their own context, once, and
  `WS_TLINK` is a link exactly on a timer queue;
* `Words`: a channel word holds an ALT that offers to input from it (`Offered`:
  enabled and not yet disabled, or waiting in an extended input) or a process
  that waits there and nowhere else;
* `Position`: what a process has at each place in the code, and when it can run;
* `Selection`: until it is triggered an ALT is in the word of every channel it
  offers; once it is, a guard that it still offers fires, or one has been
  selected, and what is selected stays ready;
* `Deadline`: the Time field at each place: the timeout of an enabled guard, one
  more while the process is on the timer queue, the time of the wake-up after.

The last two carry `TransterpreterSelectsReady` and the end of an ALT in
`TransterpreterNeverFails`; `Words` and `Position` give the rest.  A disconnection
cuts the top-level channels and releases whoever waits in them: lemmas about the
released set treat it as one step of many processes.  `Position` also shows that
the reader that `chan_io` reschedules is on no other queue than its timer queue,
where `walk_timer_queue` leaves it alone because it is ready.

### Not proved

Out of the provers' reach, and left to TLC: liveness under fairness and ENABLED
(`EveryWaiterServed`, `MailArrives`, `CallerResumes`, `EveryoneReleased`,
`LiveReadyRuns` and the like), and induction over data.  Every safety property that a run checks is
a theorem.

## 6. Not modelled

Left out of the modelled parts: the contents of messages and how they are
copied; priorities; several TIMER guards in one ALT of CCSP; statistics; weak
memory, beyond what section 2 says.  `bsyscalls_destroy_clones` and
`bsyscalls_recover_dead_threads` have no caller in this configuration.

* *Mobile processes* (`mproc_bar_*`, `mobproc.c`) need the loading of code
  around them.
* *Dynamic memory* (dmem) is arithmetic on addresses, one thread at a time.
* *Of libtvm*: arithmetic and data instructions, loading, its mobile types,
  barriers and external channels; the devices of the SRV-1.
* *Post-mortem, statistics, start-up, terminal*: output and set-up.
* *occ21, tranx86, linkers, librarians*: about 200,000 lines of file
  translation without concurrent state; where the compiler matters (the
  instructions of an ALT) its code generator was read.
* *Generated wrappers* (`player_wrap.c`, `SDL_wrap.c`, `opengl_wrap.c`): output
  of SWIG, marshalling of arguments only.

These last two groups are most of the repository's C, so the mapped lines are a
small share of all of it, and most of the kernel's scheduling code.

## 7. Plan

Further modelling: an abstract channel (a rendezvous) that `Alternation`
implements; the barriers of libtvm; suspension of mobile processes.
