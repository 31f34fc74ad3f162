---------------------------- MODULE Quiescence -----------------------------
(***************************************************************************)
(* How the scheduler threads find out that nothing is left to run: the     *)
(* idle branch of kernel_scheduler in kernel/sched.c, with the mail, the   *)
(* timers and the blocking system calls that may still bring work, and the *)
(* shutdown race bsc_cleanup_job guards against.                           *)
(*                                                                         *)
(* A process is on a thread's run queues, in a thread's mailbox, on its    *)
(* timer queue, in a blocking call, or blocked until another process       *)
(* readies it.  Mailboxes are atomic and a pause ends when the sync word   *)
(* is set: module Mailbox shows that the code does that.  A thread's       *)
(* windows hold some of the processes on its run queues that it does not   *)
(* run, and never the last: RunQueues has the windows in full.  A thread   *)
(* that spins before it sleeps only repeats steps that change nothing.     *)
(*                                                                         *)
(* A definition named after a slip (CheckSkipped...) is a mutant of the    *)
(* one that follows it.                                                    *)
(***************************************************************************)
EXTENDS Naturals, FiniteSets

CONSTANTS
    Threads,         \* scheduler threads, all enabled
    First,           \* the enabled thread of least index
    Procs,           \* processes
    Timed, Callers,  \* those that wait for the clock, that make blocking calls
    Movers, Closers, \* those that set their affinity, that shut the program down
    NULL

ASSUME FirstAssumption == First \in Threads
ASSUME RoleAssumption == Timed \cup Callers \cup Movers \cup Closers \subseteq Procs
ASSUME NullAssumption == NULL \notin Threads /\ Threads \cap Procs = {}
ASSUME ProcsAssumption == IsFiniteSet(Procs)

VARIABLES
    place,           \* where each process is
    affine,          \* processes that have an affinity
    sync,            \* threads whose sync word is not 0
    sleeping,        \* sleeping_threads
    idle,            \* idle_threads
    pending,         \* blocking calls not yet finished
    shutdown,        \* ccsp_shutdown
    dead,            \* ccsp_kernel_deadlock has been called: the program ends
    pc,              \* position of each thread, and of the clone of each process
    to, back,        \* ccsp_wake_thread: the thread woken, where to go on
    seen,            \* a thread: the threads it has read to be idle, or active
    raced            \* threads whose reads other threads' steps have overtaken

vars == <<place, affine, sync, sleeping, idle, pending, shutdown, dead, pc, to, back, seen, raced>>

Actors == Threads \cup Procs   \* a process stands for the clone that makes its call

Queue(t)  == <<"queue", t>>
Mail(t)   == <<"mail", t>>
Timer(t)  == <<"timer", t>>
InCall    == <<"call", NULL>>
Blocked   == <<"blocked", NULL>>
Places    == ({"queue", "mail", "timer"} \X Threads) \cup {InCall, Blocked}

On(where) == {p \in Procs : place[p] = where}
Put(ps, where) == place' = [p \in Procs |-> IF p \in ps THEN where ELSE place[p]]

Init ==
    /\ place \in [Procs -> {Queue(First)}] /\ affine = {}
    /\ sync = {} /\ sleeping = {} /\ idle = {}
    /\ pending = 0 /\ shutdown = FALSE /\ dead = FALSE
    /\ pc = [a \in Actors |-> IF a \in Threads THEN "sched" ELSE "none"]
    /\ to = [a \in Actors |-> NULL] /\ back = [a \in Actors |-> "none"]
    /\ seen = [t \in Threads |-> {}] /\ raced = {}

Step(a, from, label) == ~dead /\ pc[a] = from /\ pc' = [pc EXCEPT ![a] = label]

waking == <<to, back>>
words  == <<sync, sleeping, idle>>
global == <<affine, pending, shutdown, dead, raced>>

(* Threads between the first and the last of the reads that make a report *)
Past(labels) == {t \in Threads : pc[t] \in labels}

-----------------------------------------------------------------------------
(* mail_process and mail_batch, ccsp_wake_thread: one word after the other *)

(* Actor a has process p enqueued in the mailbox of an enabled thread and   *)
(* goes on at label.                                                        *)
Send(a, p, from, label) ==
    /\ Step(a, from, "look")
    /\ \E u \in Threads : /\ Put({p}, Mail(u))
                          /\ sync' = sync \cup {u}
                          /\ to' = [to EXCEPT ![a] = u]
    /\ back' = [back EXCEPT ![a] = label]
    /\ raced' = raced \cup Past({"readSleeping"})
    /\ UNCHANGED <<sleeping, idle, pending, shutdown, dead, seen>>

Sent(a) == to' = [to EXCEPT ![a] = NULL] /\ back' = [back EXCEPT ![a] = "none"]

Look(a) ==
    /\ IF to[a] \in sleeping THEN Step(a, "look", "wake") /\ UNCHANGED waking
                              ELSE Step(a, "look", back[a]) /\ Sent(a)
    /\ UNCHANGED <<place, words, global, seen>>

Wake(a) ==
    /\ Step(a, "wake", "wakeSync")
    /\ sleeping' = sleeping \ {to[a]}
    /\ UNCHANGED <<place, sync, idle, global, waking, seen>>

WakeSync(a) ==
    /\ Step(a, "wakeSync", back[a])
    /\ sync' = sync \cup {to[a]}
    /\ Sent(a)
    /\ UNCHANGED <<place, sleeping, idle, global, seen>>

-----------------------------------------------------------------------------
(* What the running process of thread t may do *)

(* It readies a process, on this thread or, for its affinity, by mail. *)
Ready(t, p) ==
    /\ place[p] = Blocked
    /\ Step(t, "run", "run")
    /\ Put({p}, Queue(t))
    /\ UNCHANGED <<words, global, waking, seen>>

ReadyFar(t, p) ==
    /\ place[p] = Blocked /\ p \in affine
    /\ Send(t, p, "run", "run")
    /\ UNCHANGED affine

(* kernel_Y_setaff: it gives itself an affinity that t is not in ...        *)
SetAff(t, p) ==
    /\ p \in Movers /\ place[p] = Queue(t)
    /\ Send(t, p, "run", "sched")
    /\ affine' = affine \cup {p}

(* ... or one that t is in, or none; with kernel_Y_setpri and               *)
(* kernel_Y_pause it keeps the one it has.                                  *)
Requeue(t, p) ==
    /\ place[p] = Queue(t)
    /\ Step(t, "run", "sched")
    /\ affine' \in IF p \in Movers THEN {affine, affine \cup {p}, affine \ {p}} ELSE {affine}
    /\ UNCHANGED <<place, words, pending, shutdown, dead, raced, waking, seen>>

(* It waits for a channel, or ends. *)
Block(t, p) ==
    /\ place[p] = Queue(t)
    /\ Step(t, "run", "sched")
    /\ Put({p}, Blocked)
    /\ UNCHANGED <<words, global, waking, seen>>

(* kernel_Y_tin *)
Delay(t, p) ==
    /\ p \in Timed /\ place[p] = Queue(t)
    /\ Step(t, "run", "sched")
    /\ Put({p}, Timer(t))
    /\ raced' = raced \cup Past({"readSleeping"})
    /\ UNCHANGED <<affine, words, pending, shutdown, dead, waking, seen>>

(* kernel_bsc_dispatch *)
Call(t, p) ==
    /\ p \in Callers /\ place[p] = Queue(t) /\ pc[p] = "none"
    /\ ~dead /\ pc[t] = "run"
    /\ pc' = [pc EXCEPT ![t] = "sched", ![p] = "call"]
    /\ Put({p}, InCall)
    /\ pending' = pending + 1
    /\ raced' = raced \cup Past({"readIdle", "readSleeping"})
    /\ UNCHANGED <<affine, words, shutdown, dead, waking, seen>>

(* kernel_Y_shutdown *)
Shutdown(t, p) ==
    /\ p \in Closers /\ ~shutdown /\ place[p] = Queue(t)
    /\ Step(t, "run", "sched")
    /\ Put({p}, Blocked)
    /\ shutdown' = TRUE
    /\ UNCHANGED <<affine, words, pending, dead, raced, waking, seen>>

-----------------------------------------------------------------------------
(* bsc_cleanup_job, on the clone that made the call of p *)

CallDone(p) == place[p] = InCall /\ Send(p, p, "call", "dec") /\ UNCHANGED affine

Dec(p) ==
    /\ Step(p, "dec", IF pending = 1 THEN "last" ELSE "none")
    /\ pending' = pending - 1
    /\ UNCHANGED <<place, affine, words, shutdown, dead, raced, waking, seen>>

LastForgets(p) ==
    /\ Step(p, "last", "none")
    /\ UNCHANGED <<place, words, global, waking, seen>>

(* Mitigate a shutdown race: the pause of a thread that still saw this call *)
(* pending has to end.                                                      *)
Last(p) ==
    /\ Step(p, "last", IF shutdown THEN "wake" ELSE "none")
    /\ to' = IF shutdown THEN [to EXCEPT ![p] = First] ELSE to
    /\ UNCHANGED back
    /\ UNCHANGED <<place, words, global, seen>>

-----------------------------------------------------------------------------
(* kernel_scheduler *)

TakeSync(t) ==
    /\ Step(t, "sched", "pick")
    /\ sync' = sync \ {t}
    /\ Put(IF t \in sync THEN On(Mail(t)) ELSE {}, Queue(t))
    /\ UNCHANGED <<sleeping, idle, global, waking, seen>>

(* Timers that have expired join the run queue, and the thread goes on with *)
(* its current batch or picks one, or has nothing to run.  mwstate stays    *)
(* set until the queues are found empty: whether a thread that picks a      *)
(* batch wakes a sleeping one to take work from it is left open, and which  *)
(* one (the code takes that of least index, maybe t itself).                *)
Pick(t) ==
    \E due \in SUBSET On(Timer(t)) :
        /\ Put(due, Queue(t))
        /\ IF due \cup On(Queue(t)) = {}
           THEN Step(t, "pick", "active") /\ UNCHANGED waking
           ELSE \/ Step(t, "pick", "run") /\ UNCHANGED waking
                \/ /\ Step(t, "pick", "wake")
                   /\ \E u \in sleeping : to' = [to EXCEPT ![t] = u]
                   /\ back' = [back EXCEPT ![t] = "run"]
        /\ UNCHANGED <<words, global, seen>>

(* migrate_some_work: the threads to take work from *)
ReadActive(t) ==
    /\ Step(t, "active", "migrate")
    /\ seen' = [seen EXCEPT ![t] = Threads \ sleeping]
    /\ UNCHANGED <<place, words, global, waking>>

Runs(u) == pc[u] = "run" \/ (pc[u] \in {"look", "wake", "wakeSync"} /\ back[u] = "run")

(* The batches that a window of thread u may hold *)
Advertised(u) ==
    {ps \in SUBSET (On(Queue(u)) \ affine) :
        ps # {} /\ Cardinality(On(Queue(u)) \ ps) > IF Runs(u) THEN 1 ELSE 0}

(* Thread t runs a batch of another's.  If its bit in sleeping_threads has  *)
(* been set since an earlier pause, it remains so.                          *)
Migrate(t) ==
    /\ Step(t, "migrate", "run")
    /\ \E u \in seen[t] \ {t} : \E ps \in Advertised(u) : Put(ps, Queue(t))
    /\ seen' = [seen EXCEPT ![t] = {}]
    /\ raced' = raced \cup IF t \in sleeping THEN Past({"readSleeping"}) ELSE {}
    /\ UNCHANGED <<affine, words, pending, shutdown, dead, waking>>

(* Nothing is found: there is none, or others took it or hide it (mwstate). *)
NoWork(t) ==
    /\ Step(t, "migrate", "sleep")
    /\ seen' = [seen EXCEPT ![t] = {}]
    /\ UNCHANGED <<place, words, global, waking>>

Sleep(t) ==
    /\ Step(t, "sleep", "check")
    /\ sleeping' = sleeping \cup {t}
    /\ UNCHANGED <<place, sync, idle, global, waking, seen>>

CheckSkipped(t) ==
    /\ Step(t, "check", IF On(Timer(t)) # {} THEN "timedPause" ELSE "idle")
    /\ UNCHANGED <<place, words, global, waking, seen>>

Check(t) ==
    /\ Step(t, "check", CASE On(Timer(t)) # {} -> "timedPause"
                          [] On(Timer(t)) = {} /\ t \in sync -> "unsleep"
                          [] OTHER -> "idle")
    /\ UNCHANGED <<place, words, global, waking, seen>>

Unsleep(t) ==
    /\ Step(t, "unsleep", "sched")
    /\ sleeping' = sleeping \ {t}
    /\ UNCHANGED <<place, sync, idle, global, waking, seen>>

SetIdle(t) ==
    /\ Step(t, "idle", "pending")
    /\ idle' = idle \cup {t}
    /\ UNCHANGED <<place, sync, sleeping, global, waking, seen>>

(* bsyscalls_pending *)
ReadPending(t) ==
    /\ Step(t, "pending", IF pending > 0 THEN "pause" ELSE "readIdle")
    /\ UNCHANGED <<place, words, global, waking, seen>>

ReadIdle(t) ==
    /\ Step(t, "readIdle", "readSleeping")
    /\ seen' = [seen EXCEPT ![t] = idle]
    /\ UNCHANGED <<place, words, global, waking>>

FindsAllAsleep(t) == seen[t] \cap sleeping = Threads

(* ccsp_kernel_deadlock if all the enabled threads are idle and asleep *)
ReadSleeping(t) ==
    /\ Step(t, "readSleeping", "pause")
    /\ dead' = FindsAllAsleep(t)
    /\ seen' = [seen EXCEPT ![t] = {}] /\ raced' = raced \ {t}
    /\ UNCHANGED <<place, affine, words, pending, shutdown, waking>>

(* ccsp_safe_pause *)
Pause(t) ==
    /\ t \in sync
    /\ Step(t, "pause", "unidle")
    /\ UNCHANGED <<place, words, global, waking, seen>>

Unidle(t) ==
    /\ Step(t, "unidle", "sched")
    /\ idle' = idle \ {t}
    /\ UNCHANGED <<place, sync, sleeping, global, waking, seen>>

(* ccsp_safe_pause_timeout, woken or timed out: the thread's sleeping bit   *)
(* is left as it is.                                                        *)
TimedPause(t) ==
    /\ Step(t, "timedPause", "sched")
    /\ IF t \in sync THEN UNCHANGED place
                     ELSE \E p \in On(Timer(t)) : Put({p}, Queue(t))
    /\ UNCHANGED <<words, global, waking, seen>>

-----------------------------------------------------------------------------
Waking(a)    == Look(a) \/ Wake(a) \/ WakeSync(a)
Process(t)   == \E p \in Procs : \/ Ready(t, p) \/ ReadyFar(t, p) \/ SetAff(t, p)
                                 \/ Requeue(t, p) \/ Block(t, p) \/ Delay(t, p)
                                 \/ Call(t, p) \/ Shutdown(t, p)
Scheduler(t) == \/ TakeSync(t) \/ Pick(t) \/ ReadActive(t) \/ Migrate(t) \/ NoWork(t)
                \/ Sleep(t) \/ Check(t) \/ Unsleep(t) \/ SetIdle(t) \/ ReadPending(t)
                \/ ReadIdle(t) \/ ReadSleeping(t) \/ Pause(t) \/ Unidle(t) \/ TimedPause(t)
Clone(p)     == Dec(p) \/ Last(p)

Next == \/ \E t \in Threads : Process(t) \/ Scheduler(t)
        \/ \E a \in Actors : Waking(a)
        \/ \E p \in Procs : CallDone(p) \/ Clone(p)

Spec == Init /\ [][Next]_vars

(* Scheduler threads and clones run.  What the processes do, how long, and  *)
(* whether a call ever returns, is theirs.                                  *)
FairSpec == /\ Spec
            /\ \A t \in Threads : WF_vars(Scheduler(t))
            /\ \A a \in Actors : WF_vars(Waking(a))
            /\ \A p \in Procs : WF_vars(Clone(p))

-----------------------------------------------------------------------------
(* Properties *)

Labels == {"none", "sched", "run", "look", "wake", "wakeSync", "pick", "active", "migrate", "sleep",
           "check", "unsleep", "idle", "pending", "readIdle", "readSleeping", "pause", "unidle", "timedPause",
           "call", "dec", "last"}

TypeOK ==
    /\ place \in [Procs -> Places] /\ affine \subseteq Procs
    /\ sync \subseteq Threads /\ sleeping \subseteq Threads /\ idle \subseteq Threads
    /\ pending \in 0..Cardinality(Procs) /\ shutdown \in BOOLEAN /\ dead \in BOOLEAN
    /\ pc \in [Actors -> Labels] /\ to \in [Actors -> Threads \cup {NULL}]
    /\ back \in [Actors -> Labels] /\ seen \in [Threads -> SUBSET Threads]
    /\ raced \subseteq Threads

Reports(t) == ~dead /\ pc[t] = "readSleeping" /\ FindsAllAsleep(t)
NothingLeft == \A p \in Procs : place[p] = Blocked

(* A thread that is about to report deadlock is right, no process being on *)
(* a run queue, in the mail, in a call or waiting for the clock, whatever   *)
(* the threads did between the reads that the report rests on, with the     *)
(* exception of four steps (raced): one that begins a call, sets a timer or *)
(* sends mail, after which a thread may fall asleep behind the first read   *)
(* and with work before the second, and one in which a thread whose bit in  *)
(* sleeping_threads is still set from an earlier pause takes another's work.*)
DeadlockIsReal == \A t \in Threads : Reports(t) /\ t \notin raced => NothingLeft

(* The same without the exceptions, as ccsp_dead puts it: the program has   *)
(* deadlocked, and there are no processes to run.                           *)
NoProcessesToRun == \A t \in Threads : Reports(t) => NothingLeft

(* Once a program has shut down and nothing is left to run, it ends, even   *)
(* if the last blocking call was finishing when the threads fell asleep.    *)
ExitsWhenDone == shutdown /\ On(Blocked) = Procs ~> dead

-----------------------------------------------------------------------------
(* The inductive invariant behind DeadlockIsReal *)

Notifying == {"look", "wake", "wakeSync"}
Idling    == {"pending", "readIdle", "readSleeping", "pause", "unidle"}
Resting   == {"idle"} \cup Idling   \* after the look at the sync word
Workless  == {"active", "migrate", "sleep", "check", "unsleep"} \cup Resting

(* The calls that bsyscalls_pending counts: the clone of p is in the call,  *)
(* or has yet to count it off.                                              *)
Counted(p) == pc[p] \in {"call", "dec"} \/ (pc[p] \in Notifying /\ back[p] = "dec")
Calls == {p \in Procs : Counted(p)}

Positions ==
    /\ \A t \in Threads : /\ pc[t] \notin {"none", "call", "dec", "last"}
                          /\ pc[t] \in Notifying => back[t] \in {"run", "sched"}
    /\ \A p \in Procs : /\ pc[p] \in {"none", "call", "dec", "last"} \cup Notifying
                        /\ pc[p] \in Notifying => back[p] \in {"dec", "none"}
                        /\ pc[p] = "look" => back[p] = "dec"
                        /\ pc[p] \notin Notifying => back[p] = "none"
                        /\ place[p] = InCall <=> pc[p] = "call"
    /\ \A a \in Actors : pc[a] \in Notifying => to[a] \in Threads
    /\ \A t \in Threads : t \in idle <=> pc[t] \in Idling

PendingIsCalls == pending = Cardinality(Calls)

(* A thread that has looked at its sync word after saying that it sleeps    *)
(* has no work; mail that comes later wakes it, unless its sender is just   *)
(* about to.                                                                *)
Rest ==
    \A t \in Threads :
        /\ pc[t] \in Workless => On(Queue(t)) = {}
        /\ pc[t] \in Resting => On(Timer(t)) = {}
        /\ On(Mail(t)) # {} => t \in sync
        /\ pc[t] \in Resting /\ On(Mail(t)) # {} =>
            \/ t \notin sleeping
            \/ \E a \in Threads \cup Calls : to[a] = t /\ pc[a] \in {"look", "wake"}

(* What a thread may rely on between its two reads: all threads were idle   *)
(* at the first, so that what work there was then is on threads that have   *)
(* been woken and have not slept since.                                     *)
Quiet ==
    \A u \in Threads :
        /\ pc[u] # "look" /\ On(Timer(u)) = {}
        /\ pc[u] \in Notifying => back[u] = "run"
        /\ On(Mail(u)) # {} => u \notin sleeping /\ pc[u] \in {"sched"} \cup Idling
        /\ On(Queue(u)) # {} \/ Runs(u) => u \notin sleeping

Reading ==
    \A t \in Threads \ raced :
        /\ pc[t] \in {"readIdle", "readSleeping"} => Calls = {}
        /\ pc[t] = "readSleeping" /\ seen[t] = Threads => Quiet

QInv == TypeOK /\ Positions /\ PendingIsCalls /\ Rest /\ Reading
=============================================================================
