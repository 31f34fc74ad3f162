--------------------------- MODULE BlockingCalls ---------------------------
(***************************************************************************)
(* Blocking system calls: a pool of kernel/bsyscalls.c, the threads        *)
(* (clones) that execute calls for occam processes, and the termination of *)
(* a call with C.killcall.                                                 *)
(*                                                                         *)
(* A job is a process making a call.  The pool's mutex protects the queue, *)
(* waiting, dead and to_reap: what happens between its lock and its unlock *)
(* is one action.  The steps outside it, on the kill word of a job, on     *)
(* pending and on running, are actions of their own.                       *)
(*                                                                         *)
(* A killer keeps the address of a job across two steps, and the job's     *)
(* memory, a batch, goes back to the schedulers with the process.  So it   *)
(* may read a thread from a job that is over, and cancel a clone that runs *)
(* another call: astray records that this has happened.                    *)
(*                                                                         *)
(* bsyscalls_destroy_clones and bsyscalls_recover_dead_threads have no     *)
(* caller in this configuration and shutdown is never set.                 *)
(*                                                                         *)
(* A definition named after a slip (TakeKeeps, CasSkipped...) is a mutant  *)
(* of the one that follows it.                                             *)
(***************************************************************************)
EXTENDS Naturals, Sequences, FiniteSets

CONSTANTS
    Jobs,            \* processes that make calls
    Killable,        \* those that make terminatable calls (BX.)
    Batches,         \* bound: memory for the jobs of terminatable calls
    Threads,         \* bound: threads that can exist at one time; the identity of
                     \* one that has been joined is used again
    Limit,           \* MAX_BSC_THREADS
    Shared,          \* pool 0, or a pool for calls with affinity?
    CreateMayFail,   \* may pthread_create fail?
    MaxWaiting,      \* bound: value of waiting up to which threads time out
    NULL

ASSUME KillableAssumption == Killable \subseteq Jobs
ASSUME LimitAssumption == Limit \in Nat \ {0} /\ MaxWaiting \in Nat
ASSUME FlagAssumption == Shared \in BOOLEAN /\ CreateMayFail \in BOOLEAN
ASSUME NullAssumption == NULL \notin Jobs \cup Threads \cup Batches
ASSUME AddressAssumption == /\ Batches \cap Threads = {}
                            /\ {"0", "1", "2"} \cap Batches = {}
                            /\ {"out", "reset"} \cap (Batches \cup Threads) = {}

VARIABLES
    queue,           \* pool: fptr ... bptr
    waiting, running,\* pool: the counters
    dead,            \* pool: to_reap if dead is set, else NULL
    pending,         \* calls not yet finished, read by the schedulers
    calling,         \* the processes that are in a call
    mem,             \* the memory of the job of a terminatable call
    word,            \* the channel word a killer names, of each job
    thread,          \* job->bsc.thread, of each piece of memory
    kill,            \* the killer of a job: its job, then its thread in bsyscall_kill
    pc, job,         \* a thread: position and the job it has taken
    reap,            \* a thread: whom bsc_cleanup_pool has to join
    leaving,         \* a thread: it has been cancelled or exits
    cancelled,       \* a thread: pthread_cancel has been called on it
    astray           \* history: a killer has cancelled a clone without its call

pool     == <<queue, waiting, dead>>
threads  == <<pc, job, reap, leaving, cancelled>>
killing  == <<word, mem, thread, kill, astray>>
counters == <<running, pending>>
vars     == <<pool, counters, calling, killing, threads>>

(* The kill word: 0 (no call), 1 (killed), 2 (not started because killed),  *)
(* or the address of the job.                                               *)
Words == {"0", "1", "2"} \cup Batches

Labels == {"none", "loop", "wait", "begin", "call", "cas", "skip", "testCancel", "badPlace",
           "clearWord", "schedule", "decPending", "cleanupPool", "decRunning", "join", "ended"}

Init ==
    /\ queue = <<>> /\ waiting = 0 /\ dead = NULL
    /\ running = 0 /\ pending = 0 /\ calling = {}
    /\ word = [j \in Jobs |-> "0"] /\ mem = [j \in Jobs |-> NULL]
    /\ thread = [b \in Batches |-> NULL]
    /\ kill = [j \in Jobs |-> "out"] /\ astray = FALSE
    /\ pc = [t \in Threads |-> "none"] /\ job = [t \in Threads |-> NULL]
    /\ reap = [t \in Threads |-> NULL]
    /\ leaving = [t \in Threads |-> FALSE] /\ cancelled = [t \in Threads |-> FALSE]

Step(t, from, to) == pc[t] = from /\ pc' = [pc EXCEPT ![t] = to]

-----------------------------------------------------------------------------
(* bsyscall_dispatch *)

(* pthread_cond_signal wakes one of the threads in pthread_cond_wait, if    *)
(* there is one.                                                            *)
Signal ==
    \/ \E t \in Threads : Step(t, "wait", "loop")
    \/ (\A t \in Threads : pc[t] # "wait") /\ UNCHANGED pc

Create == \E t \in Threads : Step(t, "none", "loop")

MayCreate == IF Shared THEN running < Limit ELSE running = 0

(* allocate_batch: free memory.  Only a terminatable call's job is read by  *)
(* others, and only such a call writes bsc.thread.                          *)
Allocate(j) ==
    IF j \in Killable
    THEN \E b \in Batches \ {mem[i] : i \in Jobs} : mem' = [mem EXCEPT ![j] = b]
    ELSE UNCHANGED mem

(* The process calls with a fresh channel word and is not terminated by     *)
(* anyone who has not yet seen its last call end.                           *)
Dispatch(j) ==
    /\ j \notin calling /\ kill[j] = "out"
    /\ calling' = calling \cup {j}
    /\ Allocate(j)
    /\ word' = [word EXCEPT ![j] = "0"]
    /\ pending' = pending + 1
    /\ queue' = Append(queue, j)
    /\ \/ waiting > 0 /\ waiting' = waiting - 1 /\ Signal /\ UNCHANGED running
       \/ waiting = 0 /\ MayCreate /\ Create /\ running' = running + 1 /\ UNCHANGED waiting
       \/ /\ waiting = 0 /\ MayCreate /\ CreateMayFail /\ running > 0
          /\ UNCHANGED <<waiting, running, pc>>
       \/ waiting = 0 /\ ~MayCreate /\ UNCHANGED <<waiting, running, pc>>
    /\ UNCHANGED <<dead, thread, kill, astray, job, reap, leaving, cancelled>>

-----------------------------------------------------------------------------
(* bsc_thread *)

TakeKeeps(t) ==
    /\ queue # <<>>
    /\ Step(t, "loop", "begin")
    /\ job' = [job EXCEPT ![t] = Head(queue)]
    /\ UNCHANGED <<pool, counters, calling, killing, reap, leaving, cancelled>>

TakeNewest(t) ==
    /\ queue # <<>>
    /\ Step(t, "loop", "begin")
    /\ job' = [job EXCEPT ![t] = queue[Len(queue)]]
    /\ queue' = SubSeq(queue, 1, Len(queue) - 1)
    /\ UNCHANGED <<waiting, dead, counters, calling, killing, reap, leaving, cancelled>>

Take(t) ==
    /\ queue # <<>>
    /\ Step(t, "loop", "begin")
    /\ job' = [job EXCEPT ![t] = Head(queue)]
    /\ queue' = Tail(queue)
    /\ UNCHANGED <<waiting, dead, counters, calling, killing, reap, leaving, cancelled>>

Wait(t) ==
    /\ queue = <<>>
    /\ Step(t, "loop", "wait")
    /\ waiting' = waiting + 1
    /\ UNCHANGED <<queue, dead, counters, calling, killing, job, reap, leaving, cancelled>>

(* After 60 seconds pthread_cond_timedwait returns ETIMEDOUT, which is not  *)
(* negative: the thread goes round the loop.                                *)
TimedOut(t) ==
    /\ Shared /\ waiting < MaxWaiting
    /\ Step(t, "wait", "loop")
    /\ UNCHANGED <<pool, counters, calling, killing, job, reap, leaving, cancelled>>

Begin(t) ==
    /\ job[t] \notin Killable
    /\ Step(t, "begin", "call")
    /\ UNCHANGED <<pool, counters, calling, killing, job, reap, leaving, cancelled>>

BeginNamesFirst(t) ==
    /\ job[t] \in Killable
    /\ thread' = [thread EXCEPT ![mem[job[t]]] = IF @ = NULL THEN t ELSE @]
    /\ Step(t, "begin", IF word[job[t]] \in {"0", "2"} THEN "call" ELSE "skip")
    /\ word' = [word EXCEPT ![job[t]] = mem[job[t]]]
    /\ UNCHANGED <<pool, counters, calling, mem, kill, astray, job, reap, leaving, cancelled>>

BeginKillable(t) ==
    /\ job[t] \in Killable
    /\ thread' = [thread EXCEPT ![mem[job[t]]] = t]
    /\ Step(t, "begin", IF word[job[t]] \in {"0", "2"} THEN "call" ELSE "skip")
    /\ word' = [word EXCEPT ![job[t]] = mem[job[t]]]
    /\ UNCHANGED <<pool, counters, calling, mem, kill, astray, job, reap, leaving, cancelled>>

(* The system call returns. *)
Return(t) ==
    /\ Step(t, "call", IF job[t] \in Killable THEN "cas" ELSE "schedule")
    /\ UNCHANGED <<pool, counters, calling, killing, job, reap, leaving, cancelled>>

CasSkipped(t) ==
    /\ Step(t, "cas", "schedule")
    /\ UNCHANGED <<pool, counters, calling, killing, job, reap, leaving, cancelled>>

Cas(t) ==
    /\ LET mine == word[job[t]] = mem[job[t]]
       IN  /\ Step(t, "cas", IF mine THEN "clearWord" ELSE "testCancel")
           /\ word' = IF mine THEN [word EXCEPT ![job[t]] = "0"] ELSE word
    /\ UNCHANGED <<pool, counters, calling, mem, thread, kill, astray, job, reap, leaving,
                   cancelled>>

(* Killed before it began: the call is not made. *)
Skip(t) ==
    /\ Step(t, "skip", IF word[job[t]] = mem[job[t]] THEN "clearWord" ELSE "testCancel")
    /\ word' = [word EXCEPT ![job[t]] = "2"]
    /\ UNCHANGED <<pool, counters, calling, mem, thread, kill, astray, job, reap, leaving,
                   cancelled>>

(* The cancellable region, between the handlers' push and their pop.        *)
Cancellable == {"call", "cas", "skip", "testCancel", "badPlace"}

(* Asynchronous cancellation inside the cancellable region, and             *)
(* pthread_testcancel behind it: the clean-up handlers run.                 *)
Cancelled(t) ==
    /\ cancelled[t] /\ pc[t] \in Cancellable /\ job[t] \in Killable
    /\ pc' = [pc EXCEPT ![t] = "clearWord"]
    /\ leaving' = [leaving EXCEPT ![t] = TRUE]
    /\ UNCHANGED <<pool, counters, calling, killing, job, reap, cancelled>>

(* Anywhere else, a clone that a killer meant for another call has hit has  *)
(* only bsc_cleanup_pool to run: its call is lost, waiting and pending are  *)
(* not put right.  Not followed: that this handler unlocks a mutex the      *)
(* clone may not hold, and that a clone at its very start has no handler.   *)
StrayCancelled(t) ==
    /\ cancelled[t] /\ ~leaving[t] /\ pc[t] # "none"
    /\ ~(pc[t] \in Cancellable /\ job[t] \in Killable)
    /\ pc' = [pc EXCEPT ![t] = "cleanupPool"]
    /\ job' = [job EXCEPT ![t] = NULL]
    /\ leaving' = [leaving EXCEPT ![t] = TRUE]
    /\ UNCHANGED <<pool, counters, calling, killing, reap, cancelled>>

NotCancelled(t) ==
    /\ ~cancelled[t]
    /\ Step(t, "testCancel", "badPlace")
    /\ UNCHANGED <<pool, counters, calling, killing, job, reap, leaving, cancelled>>

PthreadExit(t) ==
    /\ Step(t, "badPlace", "clearWord")
    /\ leaving' = [leaving EXCEPT ![t] = TRUE]
    /\ UNCHANGED <<pool, counters, calling, killing, job, reap, cancelled>>

-----------------------------------------------------------------------------
(* bsc_cleanup_job *)

ClearWord(t) ==
    /\ Step(t, "clearWord", "schedule")
    /\ word' = [word EXCEPT ![job[t]] = "0"]
    /\ UNCHANGED <<pool, counters, calling, mem, thread, kill, astray, job, reap, leaving,
                   cancelled>>

(* schedule_batch: from now on the process may run, on another thread, and  *)
(* the memory of the job is free for another call.                          *)
Schedule(t) ==
    /\ Step(t, "schedule", "decPending")
    /\ calling' = calling \ {job[t]}
    /\ mem' = [mem EXCEPT ![job[t]] = NULL]
    /\ job' = [job EXCEPT ![t] = NULL]
    /\ UNCHANGED <<pool, counters, word, thread, kill, astray, reap, leaving, cancelled>>

DecPendingIfDone(t) ==
    /\ Step(t, "decPending", IF leaving[t] THEN "cleanupPool" ELSE "loop")
    /\ pending' = IF leaving[t] THEN pending ELSE pending - 1
    /\ UNCHANGED <<pool, running, calling, killing, job, reap, leaving, cancelled>>

DecPending(t) ==
    /\ Step(t, "decPending", IF leaving[t] THEN "cleanupPool" ELSE "loop")
    /\ pending' = pending - 1
    /\ UNCHANGED <<pool, running, calling, killing, job, reap, leaving, cancelled>>

(* bsc_cleanup_prepool and bsc_cleanup_pool *)

CleanupPoolKeeps(t) ==
    /\ Step(t, "cleanupPool", "decRunning")
    /\ reap' = [reap EXCEPT ![t] = dead]
    /\ dead' = IF dead = NULL THEN t ELSE dead
    /\ UNCHANGED <<queue, waiting, counters, calling, killing, job, leaving, cancelled>>

CleanupPool(t) ==
    /\ Step(t, "cleanupPool", "decRunning")
    /\ reap' = [reap EXCEPT ![t] = dead]
    /\ dead' = t
    /\ UNCHANGED <<queue, waiting, counters, calling, killing, job, leaving, cancelled>>

DecRunning(t) ==
    /\ Step(t, "decRunning", IF reap[t] = NULL THEN "ended" ELSE "join")
    /\ running' = running - 1
    /\ UNCHANGED <<pool, pending, calling, killing, job, reap, leaving, cancelled>>

Join(t) ==
    /\ pc[t] = "join" /\ pc[reap[t]] = "ended"
    /\ pc' = [pc EXCEPT ![t] = "ended", ![reap[t]] = "none"]
    /\ reap' = [reap EXCEPT ![t] = NULL]
    /\ leaving' = [leaving EXCEPT ![reap[t]] = FALSE]
    /\ cancelled' = [cancelled EXCEPT ![reap[t]] = FALSE]
    /\ UNCHANGED <<pool, counters, calling, killing, job>>

-----------------------------------------------------------------------------
(* bsyscall_kill *)

(* Bound: once a kill has gone astray no other is begun, since what is lost *)
(* with it stays in waiting and pending for ever.                           *)
KillBound == ~astray

(* The caller of a killable call is killed by a process beside it, during   *)
(* the call or just after it.                                               *)
KillSwap(j) ==
    /\ j \in Killable /\ kill[j] = "out" /\ KillBound
    /\ kill' = [kill EXCEPT ![j] = CASE word[j] \in Batches -> word[j]
                                     [] word[j] = "2" -> "reset"
                                     [] OTHER -> "out"]
    /\ word' = [word EXCEPT ![j] = "1"]
    /\ UNCHANGED <<pool, counters, calling, mem, thread, astray, threads>>

KillReset(j) ==
    /\ kill[j] = "reset"
    /\ kill' = [kill EXCEPT ![j] = "out"]
    /\ word' = [word EXCEPT ![j] = "0"]
    /\ UNCHANGED <<pool, counters, calling, mem, thread, astray, threads>>

(* The thread is read from the job, whatever has become of it. *)
KillRead(j) ==
    /\ kill[j] \in Batches
    /\ kill' = [kill EXCEPT ![j] = thread[@]]
    /\ UNCHANGED <<pool, counters, calling, word, mem, thread, astray, threads>>

(* pthread_cancel does nothing to a thread that has begun to exit or is no  *)
(* more.  It hits any other, whatever it is doing by now.                   *)
KillCancel(j) ==
    /\ kill[j] \in Threads
    /\ kill' = [kill EXCEPT ![j] = "out"]
    /\ LET hit == pc[kill[j]] # "none" /\ ~leaving[kill[j]]
       IN  /\ cancelled' = [cancelled EXCEPT ![kill[j]] = @ \/ hit]
           /\ astray' = (astray \/ (hit /\ job[kill[j]] # j))
    /\ UNCHANGED <<pool, counters, calling, word, mem, thread, pc, job, reap, leaving>>

-----------------------------------------------------------------------------
Working(t) ==
    \/ Take(t) \/ Wait(t) \/ Begin(t) \/ BeginKillable(t) \/ Cas(t) \/ Skip(t)
    \/ Cancelled(t) \/ StrayCancelled(t) \/ NotCancelled(t) \/ PthreadExit(t)
    \/ ClearWord(t) \/ Schedule(t) \/ DecPending(t)
    \/ CleanupPool(t) \/ DecRunning(t) \/ Join(t)

Killing(j) == KillRead(j) \/ KillCancel(j) \/ KillReset(j)

Next == \/ \E t \in Threads : Working(t) \/ Return(t) \/ TimedOut(t)
        \/ \E j \in Jobs : Dispatch(j) \/ KillSwap(j) \/ Killing(j)

Spec == Init /\ [][Next]_vars

(* Threads run and a killer finishes; a system call may block for ever.     *)
FairSpec == /\ Spec
            /\ \A t \in Threads : WF_vars(Working(t))
            /\ \A j \in Jobs : WF_vars(Killing(j))

(* Here every system call returns in the end.                               *)
ReturningSpec == FairSpec /\ \A t \in Threads : WF_vars(Return(t))

-----------------------------------------------------------------------------
(* Properties *)

TypeOK ==
    /\ queue \in Seq(Jobs) /\ waiting \in Nat
    /\ running \in 0..(IF Shared THEN Limit ELSE 1)
    /\ dead \in Threads \cup {NULL}
    /\ pending \in Nat /\ calling \subseteq Jobs
    /\ word \in [Jobs -> Words] /\ mem \in [Jobs -> Batches \cup {NULL}]
    /\ thread \in [Batches -> Threads \cup {NULL}] /\ astray \in BOOLEAN
    /\ kill \in [Jobs -> {"out", "reset"} \cup Batches \cup Threads]
    /\ pc \in [Threads -> Labels] /\ job \in [Threads -> Jobs \cup {NULL}]
    /\ reap \in [Threads -> Threads \cup {NULL}]
    /\ leaving \in [Threads -> BOOLEAN] /\ cancelled \in [Threads -> BOOLEAN]

Queued(j) == \E k \in 1..Len(queue) : queue[k] = j
Holders(j) == {t \in Threads : job[t] = j}

(* A process in a call is in the queue or with one thread, never both and   *)
(* never twice, however calls, cancellations and exits interleave: it is    *)
(* not rescheduled twice, and not lost unless a killer has gone astray.     *)
CallHeldOnce ==
    /\ \A j \in calling :
        LET places == Cardinality({k \in 1..Len(queue) : queue[k] = j}) + Cardinality(Holders(j))
        IN  places <= 1 /\ (~astray => places = 1)
    /\ \A j \in Jobs \ calling : ~Queued(j) /\ Holders(j) = {}

(* The schedulers believe that the program has deadlocked when pending is   *)
(* 0: it never falls below the processes in a call and those just           *)
(* rescheduled, and it is their number unless a killer has gone astray.     *)
Resuming == {t \in Threads : pc[t] = "decPending"}
PendingCounts ==
    LET calls == Cardinality(calling) + Cardinality(Resuming)
    IN  pending >= calls /\ (~astray => pending = calls)

(* A kill word holds the address of a job only while a thread is executing  *)
(* that call, in that memory: what the swap of bsyscall_kill yields is not  *)
(* the address of a job that is over.                                       *)
WordNamesLiveCall ==
    \A j \in Jobs : word[j] \in Batches =>
        /\ word[j] = mem[j]
        /\ \E t \in Holders(j) : \/ pc[t] \in {"call", "cas", "skip"}
                                 \/ pc[t] = "clearWord" /\ leaving[t]

(* The kill word, and a killer on its way from it to pthread_cancel, name a *)
(* call that is not over: the call's own memory, then the clone that        *)
(* executes it.  Only if the call ends before the killer gets there may it  *)
(* have the address of another call, and hit another clone.                 *)
KillNamesLiveCall ==
    /\ WordNamesLiveCall
    /\ \A j \in calling : /\ kill[j] \in Batches => kill[j] = mem[j]
                          /\ kill[j] \in Threads => job[kill[j]] = j

(* Every thread that has exited is joined by one other, and the pool's      *)
(* to_reap by none yet.                                                     *)
ReapedOnce ==
    /\ \A t, u \in Threads : reap[t] # NULL /\ reap[t] = reap[u] => t = u
    /\ \A t \in Threads : reap[t] # NULL => reap[t] # dead /\ reap[t] # t

(* A process making a call is rescheduled when the call completes: some     *)
(* thread has it in hand, or will find it in the queue.                     *)
CallNeverLost == \A j \in calling : Queued(j) \/ Holders(j) # {}

(* A dispatched call is taken by a thread, even while other calls block.    *)
CallStarts == \A j \in Jobs : Queued(j) ~> ~Queued(j)

(* The process making a call is rescheduled when the call completes, also   *)
(* where calls queue at the thread limit, unless a call is killed: the      *)
(* thread of a killed call leaves without a look at the queue.              *)
CallerResumes ==
    [](\A j \in Jobs : kill[j] = "out") => \A j \in Jobs : j \in calling ~> j \notin calling

-----------------------------------------------------------------------------
(* The inductive invariant behind the safety properties *)

(* Where a thread has a job, and what comes after it has decided to exit.   *)
WithJob == Cancellable \cup {"begin", "clearWord", "schedule"}
Exiting == {"decRunning", "join", "ended"}

Stages ==
    /\ \A t \in Threads :
        /\ job[t] # NULL <=> pc[t] \in WithJob
        /\ pc[t] = "join" => reap[t] # NULL
        /\ reap[t] # NULL => pc[t] \in {"decRunning", "join"} /\ pc[reap[t]] \in Exiting
        /\ leaving[t] => pc[t] \in Exiting \cup {"clearWord", "schedule", "decPending",
                                                 "cleanupPool"}
        /\ pc[t] \in Exiting \cup {"cleanupPool"} => leaving[t]
        /\ pc[t] \in Cancellable \ {"call"} => job[t] \in Killable
    /\ dead # NULL => pc[dead] \in Exiting

(* CallHeldOnce without counting. *)
Held ==
    /\ \A i, k \in 1..Len(queue) : queue[i] = queue[k] => i = k
    /\ \A t, u \in Threads : job[t] # NULL /\ job[t] = job[u] => t = u
    /\ \A t \in Threads, k \in 1..Len(queue) : job[t] # queue[k]
    /\ \A k \in 1..Len(queue) : queue[k] \in calling
    /\ \A t \in Threads : job[t] # NULL => job[t] \in calling
    /\ ~astray => \A j \in calling : Queued(j) \/ \E t \in Threads : job[t] = j

(* The memory of a terminatable call is its own, and names the thread that  *)
(* executes it.                                                             *)
Memory ==
    /\ \A j \in Killable : j \in calling => mem[j] # NULL
    /\ \A i, j \in Jobs : mem[i] # NULL /\ mem[i] = mem[j] => i = j
    /\ \A j \in Jobs : mem[j] # NULL => j \in Killable /\ j \in calling
    /\ \A t \in Threads : job[t] \in Killable /\ pc[t] # "begin" => thread[mem[job[t]]] = t

(* Whom a killer may cancel: while the call it has killed is not over, the  *)
(* thread that executes it, which will not start another.                   *)
Aims(j) ==
    kill[j] \in Batches \cup Threads =>
        /\ j \in Killable /\ word[j] \notin Batches /\ ~Queued(j)
        /\ j \in calling => \E t \in Threads : job[t] = j
        /\ kill[j] \in Batches => thread[kill[j]] \in Threads
        /\ kill[j] \in Batches /\ j \in calling => kill[j] = mem[j]
        /\ \A t \in Threads : job[t] = j =>
            /\ leaving[t] \/ pc[t] \in Cancellable
            /\ kill[j] \in Threads => kill[j] = t

Hit(t) ==
    cancelled[t] => \/ leaving[t]
                    \/ /\ pc[t] \in Cancellable /\ job[t] \in Killable
                       /\ word[job[t]] \notin Batches

Kills == /\ \A j \in Jobs : Aims(j)
         /\ ~astray => \A t \in Threads : Hit(t)

(* The counters. *)
Active == {t \in Threads : pc[t] \notin {"none", "join", "ended"}}
Counts ==
    /\ IsFiniteSet(calling) /\ IsFiniteSet(Resuming) /\ IsFiniteSet(Active)
    /\ PendingCounts
    /\ running = Cardinality(Active)

BInv == TypeOK /\ Stages /\ Held /\ Memory /\ Kills /\ WordNamesLiveCall /\ ReapedOnce /\ Counts
=============================================================================
