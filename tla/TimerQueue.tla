----------------------------- MODULE TimerQueue -----------------------------
(***************************************************************************)
(* The timer queues of the scheduler threads: add_to_timer_queue,          *)
(* insert_tqnode, delete_tqnode, remove_from_timer_queue,                  *)
(* clean_timer_queue, walk_timer_queue and check_timer_queue of            *)
(* kernel/sched.c, with the kernel calls that use them: Y_tin, Y_taltwt    *)
(* and kernel_dist.                                                        *)
(*                                                                         *)
(* A process that waits for a time has a node in the queue of the thread   *)
(* it ran on.  A process in an ALT may be woken by a channel first, go on  *)
(* on another thread, and cancel its node from there, while the thread of  *)
(* the queue is walking it.  Whoever swaps the process pointer out of the  *)
(* node has won; the node's memory, a batch, is dirty until its queue has  *)
(* let go of it.                                                           *)
(*                                                                         *)
(* The doubly linked list is a sequence: only its thread changes it.  The  *)
(* code only ever subtracts times, so they are kept relative to the clock, *)
(* modulo TimeRange: a tick takes one off each.  One action is one access  *)
(* to a word that two threads write.                                       *)
(*                                                                         *)
(* A definition named after a slip is a mutant of the one that follows it. *)
(***************************************************************************)
EXTENDS Integers, Sequences, FiniteSets, SequencesExt

CONSTANTS
    Threads,         \* scheduler threads
    Procs,           \* processes
    Sleepers,        \* the processes that call Y_tin and Y_fasttin
    Alters,          \* the processes with a timer in an ALT
    Nodes,           \* tqnode_t (batches)
    TimeRange,       \* number of clock values (2^32 in the code)
    MaxDelay,        \* bound: how far ahead a process asks
    MaxLate,         \* bound: how late a thread walks its queue
    NULL

ASSUME TimeAssumption ==
    /\ TimeRange \in Nat /\ TimeRange % 2 = 0
    /\ MaxDelay \in Nat /\ MaxLate \in Nat
    /\ MaxDelay + MaxLate + 1 + Cardinality(Nodes) < TimeRange \div 2
ASSUME NodesAssumption == IsFiniteSet(Nodes) /\ Cardinality(Nodes) >= Cardinality(Procs)
ASSUME NamesAssumption ==
    NULL \notin Threads \cup Procs \cup Nodes /\ {"queue", "blocked"} \cap Threads = {}

VARIABLES
    tq,              \* the queue of a thread, tq_fptr first
    timeout,         \* sched->timeout: when a thread looks at its queue
    syncTq,          \* SYNC_TQ of sched->sync
    node,            \* the nodes
    free, laundry,   \* memory of nodes
    phase,           \* of a process
    place,           \* the thread a process is on, "queue" or "blocked"
    link,            \* Wptr[TLink]
    asked,           \* the first time at which a process may go on
    fired,           \* kernel_dist: result of remove_from_timer_queue
    count,           \* the timer's share of Wptr[State] of an ALT
    pc, now, at, ptr \* a thread: walk_timer_queue's now, tn and ptr

queues  == <<tq, timeout, syncTq>>
memory  == <<node, free, laundry>>
procs   == <<phase, place, link, asked, fired, count>>
walker  == <<pc, now, at, ptr>>
vars    == <<queues, memory, procs, walker>>

Times  == 0..(TimeRange - 1)
Phases == {"top", "cas", "sleep", "wait", "disable", "swap", "sync", "release", "altend", "join"}

(* Time_AFTER; Clock is what Time_GetTime returns *)
Clock == 0
After(t1, t2) == (t2 - t1) % TimeRange >= TimeRange \div 2

(* What a node on a free list holds does not matter. *)
Blank == [wptr |-> NULL, alt |-> FALSE, time |-> 0, dirty |-> FALSE, scheduler |-> NULL]
Blanked(f, S) == [n \in Nodes |-> IF n \in S THEN Blank ELSE f[n]]

Init ==
    /\ tq = [t \in Threads |-> <<>>]
    /\ timeout = [t \in Threads |-> 0]
    /\ syncTq = [t \in Threads |-> FALSE]
    /\ node = [n \in Nodes |-> Blank]
    /\ free = Nodes /\ laundry = {}
    /\ phase = [p \in Procs |-> "top"] /\ place = [p \in Procs |-> "queue"]
    /\ link = [p \in Procs |-> NULL] /\ asked = [p \in Procs |-> 0]
    /\ fired = [p \in Procs |-> FALSE] /\ count = [p \in Procs |-> 0]
    /\ pc = [t \in Threads |-> "run"] /\ now = [t \in Threads |-> 0]
    /\ at = [t \in Threads |-> NULL] /\ ptr = [t \in Threads |-> NULL]

Busy(t)       == \E p \in Procs : place[p] = t
Runs(t, p, f) == pc[t] = "run" /\ place[p] = t /\ phase[p] = f
Phase(p, f)   == phase' = [phase EXCEPT ![p] = f]
Put(p, w)     == place' = [place EXCEPT ![p] = w]

(* check_timer_queue, at the end of a batch: the thread walks its queue.    *)
Due(t) == tq[t] # <<>> /\ ~After(timeout[t], Clock)

(* A process that was made ready runs on some thread (module RunQueues).    *)
(* Bound: one dispatch between two looks at the queue.                      *)
Dispatch(t, p) ==
    /\ pc[t] = "run" /\ ~Busy(t) /\ ~Due(t) /\ place[p] = "queue"
    /\ Put(p, t)
    /\ UNCHANGED <<queues, memory, phase, link, asked, fired, count, walker>>

-----------------------------------------------------------------------------
(* add_to_timer_queue *)

(* allocate_batch: from the free list, or once that is empty from the       *)
(* laundry (a thread that has neither gets fresh memory: a spare in Nodes). *)
Washed == {n \in laundry : ~node[n].dirty}
Supply == IF free # {} THEN free ELSE Washed
Spare  == CHOOSE n \in Supply : TRUE
Allocate ==
    /\ Supply # {}
    /\ free' = Supply \ {Spare}
    /\ laundry' = laundry \ Supply

(* Both ends are searched at once: the k-th node from the front comes after *)
(* time, or the k-th from the back does not.  The result is the number of   *)
(* nodes before the new one.                                                *)
Place(q, time) ==
    LET front(k) == After(node[q[k]].time, time)
        back(k)  == ~After(node[q[Len(q) + 1 - k]].time, time)
        k == Min({i \in DOMAIN q : front(i) \/ back(i)})
    IN  IF q = <<>> THEN 0 ELSE IF front(k) THEN k - 1 ELSE Len(q) + 1 - k

(* Time_SetTimeout: a time in the future *)
SetTimeout(t, time) ==
    timeout' = [timeout EXCEPT ![t] = IF After(time, Clock) THEN time ELSE Clock + 1]

(* insert_tqnode with init_tqnode: the node of an ALT starts dirty.         *)
InsertForgetsTimeout(t, p, time, alt) ==
    LET k == Place(tq[t], time) IN
    /\ Allocate
    /\ node' = [Blanked(node, Supply) EXCEPT ![Spare] = [wptr |-> p, alt |-> alt, time |-> time,
                                                         dirty |-> alt, scheduler |-> t]]
    /\ tq' = [tq EXCEPT ![t] = InsertAt(@, k + 1, Spare)]
    /\ IF tq[t] = <<>> THEN SetTimeout(t, time) ELSE UNCHANGED timeout

Insert(t, p, time, alt) ==
    LET k == Place(tq[t], time) IN
    /\ Allocate
    /\ node' = [Blanked(node, Supply) EXCEPT ![Spare] = [wptr |-> p, alt |-> alt, time |-> time,
                                                         dirty |-> alt, scheduler |-> t]]
    /\ tq' = [tq EXCEPT ![t] = InsertAt(@, k + 1, Spare)]
    /\ IF k = 0 THEN SetTimeout(t, time) ELSE UNCHANGED timeout

(* The timeout of an empty queue is never read. *)
NoTimeout(t) == timeout' = [timeout EXCEPT ![t] = 0]

(* delete_tqnode: a new front is what the thread waits for. *)
Index(t, n) == CHOOSE i \in DOMAIN tq[t] : tq[t][i] = n
Delete(t, n) ==
    /\ tq' = [tq EXCEPT ![t] = RemoveAt(@, Index(t, n))]
    /\ CASE tq[t] = <<n>> -> NoTimeout(t)
         [] tq[t] # <<n>> /\ Head(tq[t]) = n -> SetTimeout(t, node[tq[t][2]].time)
         [] OTHER -> UNCHANGED timeout

-----------------------------------------------------------------------------
(* Kernel calls *)

(* Y_tin: a process goes on at the first time after the one it asks for.    *)
Sleep(t, p, time) ==
    /\ Insert(t, p, time, FALSE)
    /\ Phase(p, "sleep") /\ Put(p, "blocked")
    /\ UNCHANGED <<syncTq, link, fired, count, walker>>

TinSameTick(t, p, d) ==
    /\ Runs(t, p, "top")
    /\ asked' = [asked EXCEPT ![p] = Clock + d + 1]
    /\ Sleep(t, p, Clock + d)

Tin(t, p, d) ==
    /\ Runs(t, p, "top")
    /\ asked' = [asked EXCEPT ![p] = Clock + d + 1]
    /\ Sleep(t, p, Clock + d + 1)

(* Y_fasttin: the time is entered as it is, and may have come already.      *)
FastTin(t, p, d) ==
    /\ Runs(t, p, "top")
    /\ asked' = [asked EXCEPT ![p] = Clock + d]
    /\ Sleep(t, p, Clock + d)

(* Y_taltwt: the node is in the queue before the process is seen to wait *)
AltWait(t, p, d) ==
    /\ Runs(t, p, "top") /\ d > 0
    /\ Insert(t, p, Clock + d, TRUE)
    /\ link' = [link EXCEPT ![p] = Spare]
    /\ asked' = [asked EXCEPT ![p] = Clock + d]
    /\ Phase(p, "cas")
    /\ UNCHANGED <<syncTq, place, fired, count, walker>>

AltWaits(t, p) ==
    /\ Runs(t, p, "cas")
    /\ count' = [count EXCEPT ![p] = @ + 1]
    /\ Phase(p, "wait") /\ Put(p, "blocked")
    /\ UNCHANGED <<queues, memory, link, asked, fired, walker>>

(* A channel was ready meanwhile: the node is taken back. *)
AltGoesOn(t, p) ==
    /\ Runs(t, p, "cas")
    /\ Delete(t, link[p])
    /\ node' = Blanked(node, {link[p]})
    /\ free' = free \cup {link[p]}
    /\ link' = [link EXCEPT ![p] = NULL] /\ asked' = [asked EXCEPT ![p] = 0]
    /\ Phase(p, "top")
    /\ UNCHANGED <<syncTq, laundry, place, fired, count, walker>>

(* A process on the other end of a channel wakes the ALT (Alternation). *)
ChannelReady(p) ==
    /\ phase[p] = "wait" /\ place[p] = "blocked"
    /\ Phase(p, "disable") /\ Put(p, "queue")
    /\ UNCHANGED <<queues, memory, link, asked, fired, count, walker>>

(* remove_from_timer_queue, on the thread of the queue: the node is         *)
(* unlinked, unless it has fired.                                           *)
Settle(p, f) ==
    /\ fired' = [fired EXCEPT ![p] = f]
    /\ Phase(p, "release")

RemoveLocal(t, p) ==
    /\ Runs(t, p, "disable") /\ node[link[p]].scheduler = t
    /\ LET n == link[p] IN
          IF node[n].wptr # NULL
          THEN /\ Delete(t, n)
               /\ node' = [node EXCEPT ![n].dirty = FALSE]
               /\ Settle(p, FALSE)
          ELSE Settle(p, TRUE) /\ UNCHANGED <<node, tq, timeout>>
    /\ UNCHANGED <<syncTq, free, laundry, place, link, asked, count, walker>>

(* On another thread: the pointer is swapped out, and the thread of the     *)
(* queue is told.                                                           *)
LookRemote(t, p) ==
    /\ Runs(t, p, "disable") /\ node[link[p]].scheduler # t
    /\ IF node[link[p]].wptr # NULL THEN Phase(p, "swap") /\ UNCHANGED fired ELSE Settle(p, TRUE)
    /\ UNCHANGED <<queues, memory, place, link, asked, count, walker>>

SwapIgnoresLoss(t, p) ==
    /\ Runs(t, p, "swap")
    /\ node' = [node EXCEPT ![link[p]].wptr = NULL]
    /\ Phase(p, "sync") /\ UNCHANGED fired
    /\ UNCHANGED <<queues, free, laundry, place, link, asked, count, walker>>

SwapRemote(t, p) ==
    /\ Runs(t, p, "swap")
    /\ node' = [node EXCEPT ![link[p]].wptr = NULL]
    /\ IF node[link[p]].wptr # NULL THEN Phase(p, "sync") /\ UNCHANGED fired ELSE Settle(p, TRUE)
    /\ UNCHANGED <<queues, free, laundry, place, link, asked, count, walker>>

TellOwner(t, p) ==
    /\ Runs(t, p, "sync")
    /\ syncTq' = [syncTq EXCEPT ![node[link[p]].scheduler] = TRUE]
    /\ Settle(p, FALSE)
    /\ UNCHANGED <<tq, timeout, memory, place, link, asked, count, walker>>

(* The rest of kernel_dist: a cancelled timer no longer counts, and the     *)
(* node is released, to the laundry if its queue may still have it.         *)
ReleaseAtOnce(t, p) ==
    /\ Runs(t, p, "release")
    /\ count' = [count EXCEPT ![p] = IF fired[p] THEN @ ELSE @ - 1]
    /\ free' = free \cup {link[p]}
    /\ link' = [link EXCEPT ![p] = NULL]
    /\ Phase(p, "altend") /\ asked' = [asked EXCEPT ![p] = 0]
    /\ fired' = [fired EXCEPT ![p] = FALSE]
    /\ UNCHANGED <<queues, laundry, node, place, walker>>

Release(t, p) ==
    /\ Runs(t, p, "release")
    /\ count' = [count EXCEPT ![p] = IF fired[p] THEN @ ELSE @ - 1]
    /\ IF node[link[p]].dirty
       THEN laundry' = laundry \cup {link[p]} /\ UNCHANGED <<free, node>>
       ELSE free' = free \cup {link[p]} /\ node' = Blanked(node, {link[p]}) /\ UNCHANGED laundry
    /\ link' = [link EXCEPT ![p] = NULL] /\ asked' = [asked EXCEPT ![p] = 0]
    /\ fired' = [fired EXCEPT ![p] = FALSE]
    /\ Phase(p, "altend")
    /\ UNCHANGED <<queues, place, walker>>

(* kernel_altend: wait for the timer's trigger if it is on its way.         *)
AltEnd(t, p) ==
    /\ Runs(t, p, "altend")
    /\ IF count[p] = 0 THEN Phase(p, "top") /\ UNCHANGED place
                       ELSE Phase(p, "join") /\ Put(p, "blocked")
    /\ UNCHANGED <<queues, memory, link, asked, fired, count, walker>>

-----------------------------------------------------------------------------
(* kernel_scheduler *)

(* A process is back on its run queue (Y_pause, or it was made ready). *)
Yield(t, p) ==
    /\ Runs(t, p, "top")
    /\ Put(p, "queue")
    /\ UNCHANGED <<queues, memory, phase, link, asked, fired, count, walker>>

(* clean_timer_queue, because of SYNC_TQ or, after check_timer_queue, since *)
(* the thread is idle: it goes over the queue node by node.                 *)
NextNode(t, n) ==
    IF Index(t, n) = Len(tq[t]) THEN NULL ELSE tq[t][Index(t, n) + 1]

StartClean(t) ==
    /\ pc[t] = "run" /\ ~Busy(t) /\ tq[t] # <<>> /\ (syncTq[t] \/ ~Due(t))
    /\ syncTq' = [syncTq EXCEPT ![t] = FALSE]
    /\ pc' = [pc EXCEPT ![t] = "tidy"]
    /\ at' = [at EXCEPT ![t] = Head(tq[t])]
    /\ UNCHANGED <<tq, timeout, memory, procs, now, ptr>>

CleanNode(t) ==
    /\ pc[t] = "tidy"
    /\ LET n == at[t] IN
          /\ IF node[n].wptr = NULL
             THEN Delete(t, n) /\ node' = [node EXCEPT ![n].dirty = FALSE]
             ELSE UNCHANGED <<tq, timeout, node>>
          /\ at' = [at EXCEPT ![t] = NextNode(t, n)]
          /\ pc' = [pc EXCEPT ![t] = IF NextNode(t, n) = NULL THEN "run" ELSE "tidy"]
    /\ UNCHANGED <<syncTq, free, laundry, procs, now, ptr>>

(* The thread is idle: do_laundry *)
Launder(t) ==
    /\ pc[t] = "run" /\ ~Busy(t) /\ Washed # {}
    /\ free' = free \cup Washed
    /\ laundry' = laundry \ Washed
    /\ node' = Blanked(node, Washed)
    /\ UNCHANGED <<queues, procs, walker>>

(* check_timer_queue *)
StartWalk(t) ==
    /\ pc[t] = "run" /\ ~Busy(t) /\ Due(t)
    /\ pc' = [pc EXCEPT ![t] = "look"]
    /\ now' = [now EXCEPT ![t] = Clock]
    /\ UNCHANGED <<queues, memory, procs, at, ptr>>

(* walk_timer_queue, at its next node *)
First(t)  == Head(tq[t])
Behind(t) == tq' = [tq EXCEPT ![t] = Tail(@)]
Leave(t)  == /\ pc' = [pc EXCEPT ![t] = "run"]
             /\ now' = [now EXCEPT ![t] = 0]
On(t, l)  == pc' = [pc EXCEPT ![t] = l] /\ UNCHANGED now

WalkEnds(t) ==
    /\ pc[t] = "look"
    /\ \/ tq[t] = <<>> /\ NoTimeout(t)
       \/ /\ tq[t] # <<>> /\ node[First(t)].wptr # NULL /\ After(node[First(t)].time, now[t])
          /\ timeout' = [timeout EXCEPT ![t] = node[First(t)].time]
    /\ Leave(t)
    /\ UNCHANGED <<tq, syncTq, memory, procs, at, ptr>>

(* A process in Y_tin *)
WalkWakes(t) ==
    /\ pc[t] = "look" /\ tq[t] # <<>>
    /\ LET n == First(t) IN
          /\ node[n].wptr # NULL /\ ~node[n].alt /\ ~After(node[n].time, now[t])
          /\ Phase(node[n].wptr, "top") /\ Put(node[n].wptr, "queue")
          /\ asked' = [asked EXCEPT ![node[n].wptr] = 0]
          /\ free' = free \cup {n} /\ node' = Blanked(node, {n})
    /\ Behind(t)
    /\ UNCHANGED <<timeout, syncTq, laundry, link, fired, count, walker>>

(* A process in an ALT: the time is written, then the pointer swapped out.  *)
WalkChallenges(t) ==
    /\ pc[t] = "look" /\ tq[t] # <<>>
    /\ LET n == First(t) IN
          /\ node[n].wptr # NULL /\ node[n].alt /\ ~After(node[n].time, now[t])
          /\ at' = [at EXCEPT ![t] = n]
          /\ node' = [node EXCEPT ![n].time = now[t]]
    /\ Behind(t)
    /\ On(t, "swap")
    /\ UNCHANGED <<timeout, syncTq, free, laundry, procs, ptr>>

WalkSwaps(t) ==
    /\ pc[t] = "swap"
    /\ ptr' = [ptr EXCEPT ![t] = node[at[t]].wptr]
    /\ node' = [node EXCEPT ![at[t]].wptr = NULL]
    /\ On(t, IF node[at[t]].wptr # NULL THEN "trigger" ELSE "clean")
    /\ UNCHANGED <<queues, free, laundry, procs, at>>

(* trigger_alt_guard *)
WalkTriggersWaitingOnly(t) ==
    /\ pc[t] = "trigger"
    /\ LET p == ptr[t] IN
          /\ count' = [count EXCEPT ![p] = @ - 1]
          /\ IF phase[p] = "wait"
             THEN Phase(p, "disable") /\ Put(p, "queue")
             ELSE UNCHANGED <<phase, place>>
    /\ ptr' = [ptr EXCEPT ![t] = NULL]
    /\ On(t, "clean")
    /\ UNCHANGED <<queues, memory, link, asked, fired, at>>

WalkTriggers(t) ==
    /\ pc[t] = "trigger"
    /\ LET p == ptr[t] IN
          /\ count' = [count EXCEPT ![p] = @ - 1]
          /\ IF phase[p] \in {"wait", "join"}
             THEN Phase(p, IF phase[p] = "wait" THEN "disable" ELSE "top") /\ Put(p, "queue")
             ELSE UNCHANGED <<phase, place>>
    /\ ptr' = [ptr EXCEPT ![t] = NULL]
    /\ On(t, "clean")
    /\ UNCHANGED <<queues, memory, link, asked, fired, at>>

(* A node that was cancelled *)
WalkPassesDead(t) ==
    /\ pc[t] = "look" /\ tq[t] # <<>> /\ node[First(t)].wptr = NULL
    /\ at' = [at EXCEPT ![t] = First(t)]
    /\ Behind(t)
    /\ On(t, "clean")
    /\ UNCHANGED <<timeout, syncTq, memory, procs, ptr>>

WalkCleans(t) ==
    /\ pc[t] = "clean"
    /\ node' = [node EXCEPT ![at[t]].dirty = FALSE]
    /\ at' = [at EXCEPT ![t] = NULL]
    /\ On(t, "look")
    /\ UNCHANGED <<queues, free, laundry, procs, ptr>>

-----------------------------------------------------------------------------
(* The clock runs on, but no time in use is left behind by more than        *)
(* MaxLate (bound: 2^31 ticks in the code, beyond which times wrap round),  *)
(* unless its thread was told to look at the queue at the next tick.        *)
Recent(x) == ~After(Clock - MaxLate + 1, x)
Older(x)  == (x - 1) % TimeRange
Queued    == UNION {ToSet(tq[t]) : t \in Threads}
Waiting   == {p \in Procs : phase[p] \in {"cas", "sleep", "wait", "disable", "swap", "sync", "release"}}
Linked    == (Queued \cup {link[p] : p \in Waiting} \cup {at[t] : t \in Threads}) \ {NULL}
Walking   == {t \in Threads : pc[t] \in {"look", "swap", "trigger", "clean"}}
Deferred(n) == \E t \in Threads \ Walking : n \in ToSet(tq[t]) /\ After(timeout[t], Clock)

Tick ==
    /\ \A n \in Linked : Recent(node[n].time) \/ Deferred(n)
    /\ \A t \in Walking : Recent(now[t])
    /\ node' = [n \in Nodes |-> IF n \in Linked THEN [node[n] EXCEPT !.time = Older(@)] ELSE node[n]]
    /\ asked' = [p \in Procs |-> IF p \in Waiting THEN Older(asked[p]) ELSE asked[p]]
    /\ now' = [t \in Threads |-> IF t \in Walking THEN Older(now[t]) ELSE now[t]]
    /\ timeout' = [t \in Threads |-> IF tq[t] # <<>> THEN Older(timeout[t]) ELSE timeout[t]]
    /\ UNCHANGED <<tq, syncTq, free, laundry, phase, place, link, fired, count, pc, at, ptr>>

Call(t, p) ==
    \/ p \in Sleepers /\ \E d \in 0..MaxDelay : Tin(t, p, d) \/ FastTin(t, p, d)
    \/ p \in Alters /\ \E d \in 0..MaxDelay : AltWait(t, p, d)
    \/ Yield(t, p)
    \/ AltWaits(t, p) \/ AltGoesOn(t, p)
    \/ RemoveLocal(t, p) \/ LookRemote(t, p) \/ SwapRemote(t, p) \/ TellOwner(t, p)
    \/ Release(t, p) \/ AltEnd(t, p)

Walk(t) ==
    \/ WalkEnds(t) \/ WalkWakes(t) \/ WalkChallenges(t) \/ WalkSwaps(t) \/ WalkTriggers(t)
    \/ WalkPassesDead(t) \/ WalkCleans(t)

Next ==
    \/ \E t \in Threads, p \in Procs : Dispatch(t, p) \/ Call(t, p)
    \/ \E p \in Procs : ChannelReady(p)
    \/ \E t \in Threads : StartClean(t) \/ CleanNode(t) \/ Launder(t) \/ StartWalk(t) \/ Walk(t)
    \/ Tick

(* A process on a thread comes to its next kernel call and leaves the       *)
(* thread in the end (the kernel does not pre-empt: a process that never    *)
(* blocks or pauses would keep its thread, and the timers on it, for ever); *)
(* a ready process is dispatched (RunQueues!LiveReadyRuns).                 *)
Fairness ==
    /\ WF_vars(Tick)
    /\ \A p \in Procs : /\ WF_vars(\E t \in Threads : Call(t, p))
                        /\ SF_vars(\E t \in Threads : Yield(t, p))
                        /\ SF_vars(\E t \in Threads : Dispatch(t, p))
    /\ \A t \in Threads : WF_vars(CleanNode(t)) /\ WF_vars(StartWalk(t)) /\ WF_vars(Walk(t))

Spec == Init /\ [][Next]_vars /\ Fairness

-----------------------------------------------------------------------------
(* Properties *)

(* Every component of the state has its type. *)
TypeOK ==
    /\ timeout \in [Threads -> Times]
    /\ tq \in [Threads -> Seq(Nodes)] /\ syncTq \in [Threads -> BOOLEAN]
    /\ node \in [Nodes -> [wptr : Procs \cup {NULL}, alt : BOOLEAN, time : Times,
                           dirty : BOOLEAN, scheduler : Threads \cup {NULL}]]
    /\ free \subseteq Nodes /\ laundry \subseteq Nodes
    /\ phase \in [Procs -> Phases] /\ place \in [Procs -> Threads \cup {"queue", "blocked"}]
    /\ link \in [Procs -> Nodes \cup {NULL}] /\ asked \in [Procs -> Times]
    /\ fired \in [Procs -> BOOLEAN] /\ count \in [Procs -> 0..1]
    /\ pc \in [Threads -> {"run", "tidy", "look", "swap", "trigger", "clean"}]
    /\ now \in [Threads -> Times] /\ at \in [Threads -> Nodes \cup {NULL}]
    /\ ptr \in [Threads -> Procs \cup {NULL}]

Held(t) == ToSet(tq[t]) \cup ({at[t]} \ {NULL})

(* The memory of a node that some thread has linked or is looking at is not *)
(* given away: it is not on a free list, in the laundry only as dirty, and  *)
(* in no other queue, so delete_tqnode and walk_timer_queue never follow    *)
(* the links of a node that is in use again.  A linked node is never dead   *)
(* and clean, which is when insert_tqnode would overwrite it.  Conversely   *)
(* a dirty node in the laundry is still linked: it will come clean.         *)
NodeNotReused ==
    /\ \A t \in Threads : \A n \in Held(t) :
          /\ n \notin free
          /\ n \in laundry => node[n].dirty
          /\ node[n].scheduler = t
          /\ n \in ToSet(tq[t]) => node[n].wptr # NULL \/ node[n].dirty
    /\ \A n \in laundry : node[n].dirty => n \in Held(node[n].scheduler)

(* A queue is sorted across the wrap of the clock, and its thread looks at  *)
(* it no later than the first node's time (or at the next tick, when that   *)
(* time had come already).                                                  *)
QueueInOrder ==
    \A t \in Threads :
        /\ \A i \in 1..(Len(tq[t]) - 1) : ~After(node[tq[t][i]].time, node[tq[t][i + 1]].time)
        /\ tq[t] # <<>> /\ pc[t] = "run" =>
              ~After(timeout[t], node[tq[t][1]].time) \/ ~After(timeout[t], Clock + 1)

(* The pointer in the node is swapped out once: the thread that walks or    *)
(* the process that cancels takes the timer's share off the ALT's count,    *)
(* never both and never neither, so that the count of a process that left   *)
(* its ALT is zero.                                                         *)
CountedOnce ==
    \A p \in Procs :
        /\ count[p] \in 0..1
        /\ phase[p] \in {"top", "sleep", "cas"} => count[p] = 0
        /\ phase[p] = "join" => count[p] = 1 /\ \E t \in Threads : ptr[t] = p

(* Nobody is woken early: a process leaves Y_tin only after the time it     *)
(* asked for, and a timer guard counts as fired only with a time recorded   *)
(* in the node that is not before the guard's.                              *)
NotEarly ==
    [][\A p \in Procs :
          /\ phase[p] = "sleep" /\ phase'[p] = "top" => ~After(asked[p], Clock)
          /\ phase[p] = "release" /\ fired[p] /\ phase'[p] = "altend" =>
                ~After(asked[p], node[link[p]].time)]_vars

(* A process that waits for a time, in Y_tin, in an ALT with a timeout or   *)
(* at the end of an ALT whose timer is just firing, is woken.               *)
LiveWakes == \A p \in Procs : place[p] = "blocked" ~> place[p] # "blocked"

-----------------------------------------------------------------------------
(* The inductive invariant behind NodeNotReused and CountedOnce *)

(* A process in an ALT has a node, and a thread that walks or cleans its    *)
(* queue runs no process.                                                   *)
InAlt(p) == phase[p] \in {"cas", "wait", "disable", "swap", "sync", "release"}
Tasks ==
    \A p \in Procs :
        /\ link[p] # NULL <=> InAlt(p)
        /\ place[p] \in Threads => pc[place[p]] = "run"

(* A queue has a node once, and what its thread has taken out not at all.   *)
Lists ==
    \A t \in Threads :
        /\ IsInjective(tq[t])
        /\ pc[t] \in {"run", "look"} => at[t] = NULL
        /\ pc[t] = "tidy" => at[t] \in ToSet(tq[t])
        /\ pc[t] \in {"swap", "trigger", "clean"} =>
              /\ at[t] # NULL /\ at[t] \notin ToSet(tq[t])
              /\ pc[t] # "swap" => node[at[t]].wptr = NULL
        /\ ptr[t] # NULL <=> pc[t] = "trigger"

(* The nodes of ALTs in a queue are the dirty ones; others have a process.  *)
Holding ==
    /\ \A t \in Threads : \A n \in Held(t) :
          /\ node[n].scheduler = t /\ n \notin free
          /\ node[n].alt <=> node[n].dirty
          /\ node[n].alt \/ (node[n].wptr # NULL /\ (n = at[t] => pc[t] = "tidy"))
    /\ \A n \in Nodes : node[n].dirty => /\ node[n].scheduler \in Threads
                                         /\ n \in Held(node[n].scheduler)

(* What is free, in the laundry, or some process's node.                    *)
Memory ==
    /\ free \cap laundry = {}
    /\ \A n \in free : node[n] = Blank
    /\ \A n \in laundry : node[n].alt /\ node[n].wptr = NULL
    /\ \A p \in Procs : link[p] # NULL =>
          /\ link[p] \notin free \cup laundry
          /\ node[link[p]].alt /\ node[link[p]].wptr \in {p, NULL}
          /\ node[link[p]].scheduler \in Threads
    /\ \A p, q \in Procs : link[p] # NULL /\ link[p] = link[q] => p = q

(* Whom a node with a process will wake, and where it is.                   *)
Pointers ==
    /\ \A n \in Nodes : node[n].wptr # NULL =>
          LET p == node[n].wptr IN
          IF node[n].alt
          THEN /\ link[p] = n
               /\ \/ phase[p] \in {"cas", "wait", "disable", "swap"} /\ node[n].dirty
                  \/ phase[p] = "release" /\ ~fired[p] /\ ~node[n].dirty
          ELSE phase[p] = "sleep" /\ n \in Queued
    /\ \A m, n \in Nodes : node[m].wptr # NULL /\ node[m].wptr = node[n].wptr => m = n
    /\ \A p \in Procs : phase[p] = "cas" =>
          node[link[p]].wptr = p /\ node[link[p]].scheduler = place[p]

(* The count of an ALT includes its timer until the thread that swapped the *)
(* process pointer out, or the process itself, has taken it off.            *)
Triggering(p) == \E t \in Threads : ptr[t] = p
Owed(p) == node[link[p]].wptr = p \/ Triggering(p)
Share(p) ==
    /\ Triggering(p) => InAlt(p) \/ phase[p] \in {"altend", "join"}
    /\ phase[p] \in {"top", "sleep", "cas"} => count[p] = 0 /\ ~Triggering(p)
    /\ phase[p] \in {"wait", "join"} => count[p] = 1
    /\ phase[p] \in {"wait", "disable", "swap"} => (count[p] = 1 <=> Owed(p))
    /\ phase[p] = "sync" => count[p] = 1 /\ ~Triggering(p) /\ node[link[p]].wptr = NULL
    /\ phase[p] = "release" /\ ~fired[p] => count[p] = 1 /\ ~Triggering(p)
    /\ phase[p] = "release" /\ fired[p] =>
          node[link[p]].wptr = NULL /\ (count[p] = 1 <=> Triggering(p))
    /\ phase[p] \in {"altend", "join"} => (count[p] = 1 <=> Triggering(p))
Shares ==
    /\ \A p \in Procs : Share(p)
    /\ \A t \in Threads, n \in Nodes : ptr[t] # NULL => node[n].wptr # ptr[t]
    /\ \A t, u \in Threads : ptr[t] # NULL /\ ptr[t] = ptr[u] => t = u

TInv == TypeOK /\ Tasks /\ Lists /\ Holding /\ Memory /\ Pointers /\ Shares

-----------------------------------------------------------------------------
(* The inductive invariant behind QueueInOrder and NotEarly *)

(* How far ahead of the clock a time is: less than half of the range, in    *)
(* either direction, so that After is the order of these numbers.           *)
Half     == TimeRange \div 2
Ahead(x) == IF x < Half THEN x ELSE x - TimeRange
TimeAt(t, i) == Ahead(node[tq[t][i]].time)

(* A queue is in order, and no node is further behind than its place in the *)
(* queue tells: when the one at the front is taken away, the next gets one  *)
(* more tick.                                                               *)
Sorted ==
    \A t \in Threads : \A i, j \in 1..Len(tq[t]) : i < j => TimeAt(t, i) <= TimeAt(t, j)
Latest(i) == i - (MaxLate + Cardinality(Nodes) + 1)
Timely ==
    \A t \in Threads : \A i \in 1..Len(tq[t]) : Latest(i) <= TimeAt(t, i) /\ TimeAt(t, i) <= MaxDelay + 1

(* The thread looks at its queue at the first node's time, or at the next   *)
(* tick if that has passed; until then every node has a tick to spare.      *)
Alarms ==
    \A t \in Threads \ Walking : tq[t] # <<>> =>
        /\ TimeAt(t, 1) <= Ahead(timeout[t])
        /\ Ahead(timeout[t]) = TimeAt(t, 1) \/ Ahead(timeout[t]) <= 1
        /\ Ahead(timeout[t]) > 0 => \A i \in 1..Len(tq[t]) : Latest(i) < TimeAt(t, i)
Walks == \A t \in Walking : Ahead(now[t]) \in (0 - MaxLate)..0

(* A node in a queue has the time that its process asked for; one that was  *)
(* taken out has a later one.                                               *)
Asking ==
    /\ \A n \in Queued : node[n].wptr # NULL => asked[node[n].wptr] = node[n].time
    /\ \A p \in Procs : InAlt(p) => ~After(asked[p], node[link[p]].time)

OInv == TInv /\ Sorted /\ Timely /\ Alarms /\ Walks /\ Asking
=============================================================================
