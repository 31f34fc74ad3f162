----------------------------- MODULE RunQueues -----------------------------
(***************************************************************************)
(* The run queues of the scheduler threads and the migration windows other *)
(* threads take work from, at one priority level: kernel_scheduler,        *)
(* push_curb, push_batch, add_to_runqueue, pick_batch,                     *)
(* try_pull_from_runqueue, migrate_some_work, try_migrate_from_scheduler,  *)
(* load_curb and the free and laundry lists of kernel/sched.c.             *)
(*                                                                         *)
(* A thread runs the processes of its current batch (curb); when that ends *)
(* it saves what is left in a batch and takes the next one.  A batch       *)
(* without affinity is listed twice: in the owner's list, and in a slot of *)
(* the owner's window, where any thread may take it by a swap.  The list   *)
(* is not touched then: the owner finds out when it reaches the batch and  *)
(* its compare-and-swap on the slot fails.  The memory of a batch that was *)
(* taken waits in the laundry until the taker has marked it clean.         *)
(*                                                                         *)
(* One action is one access to a word that other threads write; local work *)
(* is part of the action before or after it.  The owner's "unsafe" bit     *)
(* operations on the window's state word are a read and a write.           *)
(*                                                                         *)
(* A definition named after a slip is a mutant of the one that follows it. *)
(***************************************************************************)
EXTENDS Naturals, Sequences, FiniteSets, SequencesExt

CONSTANTS
    Threads,         \* scheduler threads
    Procs,           \* processes
    Home,            \* the thread a process has an affinity to, or NULL
    MWINDOW_SIZE,    \* slots of a migration window (15 in the code)
    BATCH_PPD,       \* dispatches per process (8 in the code)
    BATCH_MD_MASK,   \* most dispatches of a batch (127 in the code)
    MaxWaits,        \* bound: how often a process goes to sleep
    PoolSize,        \* bound: batches a thread ever allocates
    Start,           \* the thread that starts with the processes
    NULL

ASSUME SizesAssumption ==
    /\ MWINDOW_SIZE \in Nat \ {0} /\ BATCH_PPD \in Nat \ {0}
    /\ BATCH_MD_MASK \in Nat \ {0} /\ MaxWaits \in Nat /\ PoolSize \in Nat \ {0}
ASSUME HomeAssumption == Home \in [Procs -> Threads \cup {NULL}] /\ NULL \notin Threads
ASSUME ProcsAssumption == IsFiniteSet(Procs)
ASSUME StartAssumption == Start \in Threads /\ \E p \in Procs : Home[p] = NULL

VARIABLES
    bt,              \* batch_t: processes, window number and dirty bit
    list,            \* rq->Fptr .. rq->Bptr
    pending,         \* rq->pending
    used,            \* rq->priofinity # 0
    rqstate,         \* the level's bit of sched->rqstate
    free, laundry,   \* sched->free, sched->laundry
    slot,            \* mw->data[w]
    mw,              \* mw->data[MWINDOW_STATE]: head and bitmap
    mwstate,         \* the level's bit of sched->mwstate
    curb,            \* sched->curb and sched->dispatches
    pmail,           \* process mail (module Mailbox)
    asleep,          \* processes waiting for another process
    waits,           \* how often one went to sleep
    pc,
    adds,            \* a thread: batches push_batch still has to add
    st,              \* a thread: local copy of a window's state word
    hand,            \* a thread: the batch it has just taken
    victim           \* a thread: whom it migrates from

queue  == <<list, pending, used, rqstate, free, laundry>>
window == <<slot, mw, mwstate>>
env    == <<pmail, asleep, waits>>
local  == <<adds, st, hand, victim>>
vars   == <<bt, queue, window, curb, env, pc, local>>

Windows == 1..MWINDOW_SIZE
Batches == Threads \X (1..PoolSize)      \* named by the thread that owns it
ASSUME NullAssumption == NULL \notin Batches
Word(h, bm) == [head |-> h, bm |-> bm]

Labels == {"run", "add", "slot", "publish", "advertise", "pick",
           "unmark", "unmarkW", "migrate", "mwRead", "mwClear", "mwSwap",
           "mwCheck", "mwOff", "copy", "clean"}

At(t, label)   == pc[t] = label
Goto(t, label) == pc' = [pc EXCEPT ![t] = label]
Forget(t)      == st' = [st EXCEPT ![t] = Word(0, {})]
HasAffinity(b) == Home[Head(bt[b].procs)] # NULL

-----------------------------------------------------------------------------
(* Thread Start runs the processes without affinity; those with one are    *)
(* asleep.  Every thread has an empty pending batch.                       *)
Init ==
    LET first(t) == <<t, 1>>
        order    == SetToSeq({p \in Procs : Home[p] = NULL})
    IN  /\ bt = [b \in Batches |-> [procs |-> <<>>, window |-> 0, dirty |-> FALSE]]
        /\ list = [t \in Threads |-> <<>>]
        /\ pending = [t \in Threads |-> first(t)]
        /\ used = [t \in Threads |-> FALSE] /\ rqstate = [t \in Threads |-> FALSE]
        /\ free = [t \in Threads |-> {t} \X (2..PoolSize)]
        /\ laundry = [t \in Threads |-> {}]
        /\ slot = [t \in Threads |-> [w \in Windows |-> NULL]]
        /\ mw = [t \in Threads |-> Word(0, {})]
        /\ mwstate = [t \in Threads |-> FALSE]
        /\ curb = [t \in Threads |->
                     [procs |-> IF t = Start THEN order ELSE <<>>, left |-> BATCH_PPD,
                      emptied |-> t # Start, affine |-> FALSE]]
        /\ pmail = [t \in Threads |-> {}]
        /\ asleep = {p \in Procs : Home[p] # NULL}
        /\ waits = 0
        /\ pc = [t \in Threads |-> "run"]
        /\ adds = [t \in Threads |-> <<>>] /\ st = [t \in Threads |-> Word(0, {})]
        /\ hand = [t \in Threads |-> NULL] /\ victim = [t \in Threads |-> NULL]

-----------------------------------------------------------------------------
(* Memory of batches.  Free batches are alike: which one is used is left open. *)

(* do_laundry: what is clean, and what stays *)
WashesDirty(t) == laundry[t]

Washed(t) == {b \in laundry[t] : ~bt[b].dirty}

(* The free list, as allocate_batch finds it: an empty one is filled from    *)
(* the laundry.  (It is filled with new memory too: PoolSize bounds that.)   *)
NoBatch(fr) == fr = {}
Refill(t, fr) == IF NoBatch(fr) THEN Washed(t) ELSE fr
Spare(fr) == CHOOSE b \in fr : TRUE

(* What allocate_batch does to memory: the free and laundry lists of t, and  *)
(* the batches that were washed (reinit_batch_t).                            *)
Swept(t, washed) ==
    [b \in Batches |-> IF washed /\ b \in Washed(t) THEN [bt[b] EXCEPT !.procs = <<>>]
                       ELSE bt[b]]
SetMemory(t, fr, washed) ==
    /\ free' = [free EXCEPT ![t] = fr]
    /\ laundry' = [laundry EXCEPT ![t] = IF washed THEN @ \ Washed(t) ELSE @]

-----------------------------------------------------------------------------
(* Running processes *)

EndOfCurb(t) == curb[t].left = 0 \/ curb[t].procs = <<>>

(* calculate_dispatches; the first process is dispatched on top of it.      *)
Dispatches(ps) == Min({BATCH_PPD * Len(ps), BATCH_MD_MASK}) + 1

(* enqueue_process on thread t.  A process whose affinity is not the        *)
(* current batch's joins the pending batch; when that one's affinity is     *)
(* another, it moves to the run queue and gives way to a new one (adds).    *)
SameCurb(t, p) == (Home[p] # NULL) = curb[t].affine
SamePending(t, p) == used[t] => (Home[p] # NULL) = HasAffinity(pending[t])

EnqueueFar(t, p) ==
    /\ used' = [used EXCEPT ![t] = TRUE]
    /\ rqstate' = [rqstate EXCEPT ![t] = TRUE]
    /\ \/ /\ SamePending(t, p)
          /\ bt' = [bt EXCEPT ![pending[t]].procs = Append(@, p)]
          /\ UNCHANGED <<pending, free, laundry, adds, pc>>
       \/ /\ ~SamePending(t, p)
          /\ LET fr == Refill(t, free[t]) IN
                /\ fr # {}
                /\ pending' = [pending EXCEPT ![t] = Spare(fr)]
                /\ bt' = [Swept(t, NoBatch(free[t])) EXCEPT ![Spare(fr)].procs = <<p>>]
                /\ SetMemory(t, fr \ {Spare(fr)}, NoBatch(free[t]))
          /\ adds' = [adds EXCEPT ![t] = <<pending[t]>>]
          /\ Goto(t, "add")
    /\ UNCHANGED list

(* kernel_scheduler dequeues a process, which runs until it pauses or       *)
(* waits (goes to sleep); on the way it may wake another.                   *)
Running(t, rest) ==
    LET c == curb[t] IN
    curb' = [curb EXCEPT ![t] =
               [c EXCEPT !.procs = rest, !.left = @ - 1,
                         !.emptied = @ \/ Len(c.procs) = 1]]

Run(t) ==
    /\ At(t, "run") /\ pmail[t] = {} /\ ~EndOfCurb(t)
    /\ LET p == Head(curb[t].procs)
           q == Tail(curb[t].procs)
       IN  \/ /\ Running(t, Append(q, p))
              /\ UNCHANGED <<bt, queue, env, pc, adds>>
           \/ /\ waits < MaxWaits /\ waits' = waits + 1
              /\ Running(t, q)
              /\ asleep' = asleep \cup {p}
              /\ UNCHANGED <<bt, queue, pmail, pc, adds>>
           \/ \E r \in asleep :
                 /\ asleep' = asleep \ {r} /\ UNCHANGED waits
                 /\ \/ /\ Home[r] \in {NULL, t} /\ SameCurb(t, r)
                       /\ Running(t, Append(Append(q, r), p))
                       /\ UNCHANGED <<bt, queue, pmail, pc, adds>>
                    \/ /\ Home[r] \in {NULL, t} /\ ~SameCurb(t, r)
                       /\ Running(t, Append(q, p))
                       /\ EnqueueFar(t, r)
                       /\ UNCHANGED pmail
                    \/ /\ Home[r] \notin {NULL, t}
                       /\ Running(t, Append(q, p))
                       /\ pmail' = [pmail EXCEPT ![Home[r]] = @ \cup {r}]
                       /\ UNCHANGED <<bt, queue, pc, adds>>
    /\ UNCHANGED <<window, st, hand, victim>>

(* kernel_scheduler: process mail *)
TakeMail(t) ==
    /\ At(t, "run")
    /\ \E p \in pmail[t] :
          /\ pmail' = [pmail EXCEPT ![t] = @ \ {p}]
          /\ \/ /\ SameCurb(t, p)
                /\ curb' = [curb EXCEPT ![t].procs = Append(@, p)]
                /\ UNCHANGED <<bt, queue, pc, adds>>
             \/ /\ ~SameCurb(t, p)
                /\ EnqueueFar(t, p)
                /\ UNCHANGED curb
    /\ UNCHANGED <<window, asleep, waits, st, hand, victim>>

(* kernel_scheduler: nothing else to run, so the same batch goes on *)
KeepsForEver(t) ==
    /\ At(t, "run") /\ pmail[t] = {} /\ EndOfCurb(t)
    /\ curb[t].procs # <<>>
    /\ curb' = [curb EXCEPT ![t].left = Dispatches(curb[t].procs), ![t].emptied = FALSE]
    /\ UNCHANGED <<bt, queue, window, env, pc, local>>

KeepCurb(t) ==
    /\ At(t, "run") /\ pmail[t] = {} /\ EndOfCurb(t)
    /\ curb[t].emptied /\ curb[t].procs # <<>> /\ ~rqstate[t]
    /\ curb' = [curb EXCEPT ![t].left = Dispatches(curb[t].procs),
                            ![t].emptied = FALSE]
    /\ UNCHANGED <<bt, queue, window, env, pc, local>>

(* push_curb and push_batch: a batch nobody emptied is split.  The last     *)
(* batch pushed becomes the pending one, the others are to be added.        *)
Split(t) == curb[t].left = 0 /\ ~curb[t].emptied /\ Len(curb[t].procs) > 1

PushCurb(t) ==
    /\ At(t, "run") /\ pmail[t] = {} /\ EndOfCurb(t)
    /\ curb[t].procs # <<>> /\ (curb[t].emptied => rqstate[t])
    /\ LET ps   == curb[t].procs
           one  == Refill(t, free[t])
           b1   == Spare(one)
           rest == (one \ {b1}) \cup (IF used[t] THEN {} ELSE {pending[t]})
           two  == IF NoBatch(free[t]) THEN rest ELSE Refill(t, rest)
           b2   == Spare(two)
           again == NoBatch(free[t]) \/ NoBatch(rest)
       IN  /\ one # {} /\ (Split(t) => two # {})
           /\ \/ /\ Split(t)
                 /\ bt' = [Swept(t, again) EXCEPT ![b1].procs = <<Head(ps)>>,
                                                   ![b2].procs = Tail(ps)]
                 /\ pending' = [pending EXCEPT ![t] = b2]
                 /\ SetMemory(t, two \ {b2}, again)
              \/ /\ ~Split(t)
                 /\ bt' = [Swept(t, NoBatch(free[t])) EXCEPT ![b1].procs = ps]
                 /\ pending' = [pending EXCEPT ![t] = b1]
                 /\ SetMemory(t, rest, NoBatch(free[t]))
           /\ adds' = [adds EXCEPT ![t] = (IF used[t] THEN <<pending[t]>> ELSE <<>>)
                                          \o (IF Split(t) THEN <<b1>> ELSE <<>>)]
    /\ used' = [used EXCEPT ![t] = TRUE]
    /\ rqstate' = [rqstate EXCEPT ![t] = TRUE]
    /\ curb' = [curb EXCEPT ![t].procs = <<>>]
    /\ Goto(t, IF adds'[t] = <<>> THEN "pick" ELSE "add")
    /\ UNCHANGED <<list, window, env, st, hand, victim>>

-----------------------------------------------------------------------------
(* add_to_runqueue *)

Adding(t) == Head(adds[t])
Added(t) ==
    /\ adds' = [adds EXCEPT ![t] = Tail(@)]
    /\ Goto(t, IF Len(adds[t]) > 1 THEN "add"
               ELSE IF curb[t].procs = <<>> THEN "pick" ELSE "run")

(* increment_mwindow_head *)
NextWindow(head) == (head % MWINDOW_SIZE) + 1

(* add_affine_batch_to_runqueue: no window, whatever the batch was before *)
AddAffine(t) ==
    /\ At(t, "add") /\ HasAffinity(Adding(t))
    /\ bt' = [bt EXCEPT ![Adding(t)].window = 0, ![Adding(t)].dirty = FALSE]
    /\ list' = [list EXCEPT ![t] = Append(@, Adding(t))]
    /\ Added(t)
    /\ UNCHANGED <<pending, used, rqstate, free, laundry, window, curb, env, st, hand, victim>>

(* add_to_visible_runqueue *)
AddVisible(t) ==
    /\ At(t, "add") /\ ~HasAffinity(Adding(t))
    /\ st' = [st EXCEPT ![t] = mw[t]]
    /\ bt' = [bt EXCEPT ![Adding(t)].window = NextWindow(mw[t].head),
                        ![Adding(t)].dirty = TRUE]
    /\ Goto(t, "slot")
    /\ UNCHANGED <<queue, window, curb, env, adds, hand, victim>>

(* The slot is read and, if it is not NULL, swapped: only other threads     *)
(* empty it, so the two are one step.  The batch that had the slot, if      *)
(* nobody has taken it, is only in the list from now on.                    *)
FillSlot(t) ==
    /\ At(t, "slot")
    /\ LET w   == NextWindow(st[t].head)
           old == slot[t][w]
       IN  /\ slot' = [slot EXCEPT ![t][w] = Adding(t)]
           /\ bt' = [b \in Batches |-> IF b = old THEN [bt[b] EXCEPT !.window = 0, !.dirty = FALSE]
                                       ELSE bt[b]]
    /\ Goto(t, "publish")
    /\ UNCHANGED <<queue, mw, mwstate, curb, env, local>>

(* The state word is computed from the copy read at the start. *)
Publish(t) ==
    /\ At(t, "publish")
    /\ LET w == NextWindow(st[t].head)
       IN  mw' = [mw EXCEPT ![t] = Word(w, st[t].bm \cup {w})]
    /\ list' = [list EXCEPT ![t] = Append(@, Adding(t))]
    /\ Goto(t, "advertise")
    /\ UNCHANGED <<bt, pending, used, rqstate, free, laundry, slot, mwstate, curb, env, local>>

Advertise(t) ==
    /\ At(t, "advertise")
    /\ mwstate' = [mwstate EXCEPT ![t] = TRUE]
    /\ Added(t) /\ Forget(t)
    /\ UNCHANGED <<bt, queue, slot, mw, curb, env, hand, victim>>

-----------------------------------------------------------------------------
(* pick_batch *)

(* load_curb: the processes of batch b become the current batch.            *)
Loaded(b) ==
    [procs |-> bt[b].procs, left |-> Dispatches(bt[b].procs),
     emptied |-> FALSE, affine |-> HasAffinity(b)]

LoadOwn(t, b) ==
    /\ curb' = [curb EXCEPT ![t] = Loaded(b)]
    /\ Goto(t, "run")

(* After push_curb, or at once when there is nothing to push *)
Picking(t) ==
    \/ At(t, "pick")
    \/ At(t, "run") /\ pmail[t] = {} /\ curb[t].procs = <<>>

(* try_pull_from_runqueue: the first batch of the list.  It is the owner's  *)
(* if it has no slot, or if the compare-and-swap finds it in its slot.      *)
Pull(t) ==
    /\ Picking(t) /\ rqstate[t] /\ list[t] # <<>>
    /\ LET b == Head(list[t])
           w == bt[b].window
       IN  /\ list' = [list EXCEPT ![t] = Tail(@)]
           /\ \/ /\ w = 0
                 /\ LoadOwn(t, b)
                 /\ bt' = [bt EXCEPT ![b].procs = <<>>]
                 /\ free' = [free EXCEPT ![t] = @ \cup {b}]
                 /\ UNCHANGED <<laundry, slot, hand>>
              \/ /\ w # 0 /\ slot[t][w] = b
                 /\ slot' = [slot EXCEPT ![t][w] = NULL]
                 /\ hand' = [hand EXCEPT ![t] = b]
                 /\ Goto(t, "unmark")
                 /\ UNCHANGED <<bt, free, laundry, curb>>
              \/ /\ w # 0 /\ slot[t][w] # b
                 /\ laundry' = [laundry EXCEPT ![t] = @ \cup {b}]
                 /\ Goto(t, "pick")
                 /\ UNCHANGED <<bt, free, slot, hand, curb>>
    /\ UNCHANGED <<pending, used, rqstate, mw, mwstate, env, adds, st, victim>>

(* att_unsafe_clear_bit on the state word: a read, then a write *)
UnmarkRead(t) ==
    /\ At(t, "unmark")
    /\ st' = [st EXCEPT ![t] = mw[t]]
    /\ Goto(t, "unmarkW")
    /\ UNCHANGED <<bt, queue, window, curb, env, adds, hand, victim>>

UnmarkWrite(t) ==
    /\ At(t, "unmarkW")
    /\ LET b == hand[t] IN
          /\ mw' = [mw EXCEPT ![t] = Word(st[t].head, st[t].bm \ {bt[b].window})]
          /\ LoadOwn(t, b)
          /\ bt' = [bt EXCEPT ![b] = [procs |-> <<>>, window |-> 0, dirty |-> FALSE]]
          /\ free' = [free EXCEPT ![t] = @ \cup {b}]
    /\ hand' = [hand EXCEPT ![t] = NULL] /\ Forget(t)
    /\ UNCHANGED <<list, pending, used, rqstate, laundry, slot, mwstate, env, adds, victim>>

(* The list is empty: the pending batch, and a new one in its place. *)
PullPending(t) ==
    /\ Picking(t) /\ rqstate[t] /\ list[t] = <<>> /\ used[t]
    /\ LET fr == Refill(t, free[t]) IN
          /\ fr # {}
          /\ pending' = [pending EXCEPT ![t] = Spare(fr)]
          /\ bt' = [Swept(t, NoBatch(free[t])) EXCEPT ![pending[t]].procs = <<>>]
          /\ SetMemory(t, (fr \ {Spare(fr)}) \cup {pending[t]}, NoBatch(free[t]))
    /\ used' = [used EXCEPT ![t] = FALSE]
    /\ LoadOwn(t, pending[t])
    /\ UNCHANGED <<list, rqstate, window, env, local>>

(* Neither: the level's bits are cleared, and the thread looks elsewhere. *)
PickFails(t) ==
    /\ Picking(t) /\ (rqstate[t] => list[t] = <<>> /\ ~used[t])
    /\ mwstate' = [mwstate EXCEPT ![t] = @ /\ ~rqstate[t]]
    /\ rqstate' = [rqstate EXCEPT ![t] = FALSE]
    /\ Goto(t, "migrate")
    /\ UNCHANGED <<bt, list, pending, used, free, laundry, slot, mw, curb, env, local>>

-----------------------------------------------------------------------------
(* migrate_some_work *)

ChooseVictim(t) ==
    /\ At(t, "migrate")
    /\ \E v \in Threads :
          /\ mwstate[v]
          /\ victim' = [victim EXCEPT ![t] = v]
    /\ Goto(t, "mwRead")
    /\ UNCHANGED <<bt, queue, window, curb, env, adds, st, hand>>

(* Nobody offers work: new_curb, do_laundry and round again. *)
Idle(t) ==
    /\ At(t, "migrate") /\ \A v \in Threads : ~mwstate[v]
    /\ curb' = [curb EXCEPT ![t].procs = <<>>, ![t].left = BATCH_PPD, ![t].emptied = TRUE]
    /\ SetMemory(t, free[t] \cup Washed(t), TRUE)
    /\ bt' = Swept(t, TRUE)
    /\ Goto(t, "run")
    /\ UNCHANGED <<list, pending, used, rqstate, window, env, local>>

(* try_migrate_from_scheduler *)
ReadWindow(t) ==
    /\ At(t, "mwRead")
    /\ st' = [st EXCEPT ![t] = mw[victim[t]]]
    /\ Goto(t, IF mw[victim[t]].bm = {} THEN "mwCheck" ELSE "mwClear")
    /\ UNCHANGED <<bt, queue, window, curb, env, adds, hand, victim>>

(* The highest slot from the head up, or else the highest one. *)
BestWindow(word) ==
    LET up == {w \in word.bm : w >= word.head}
    IN  Max(IF up # {} THEN up ELSE word.bm)

ClearBit(t) ==
    /\ At(t, "mwClear")
    /\ mw' = [mw EXCEPT ![victim[t]].bm = @ \ {BestWindow(st[t])}]
    /\ Goto(t, "mwSwap")
    /\ UNCHANGED <<bt, queue, slot, mwstate, curb, env, local>>

TakeSlotLeavesIt(t) ==
    /\ At(t, "mwSwap")
    /\ hand' = [hand EXCEPT ![t] = slot[victim[t]][BestWindow(st[t])]]
    /\ st' = [st EXCEPT ![t].bm = @ \ {BestWindow(st[t])}]
    /\ Goto(t, IF hand'[t] = NULL /\ st'[t].bm # {} THEN "mwClear" ELSE "mwCheck")
    /\ UNCHANGED <<bt, queue, window, curb, env, adds, victim>>

TakeSlot(t) ==
    /\ At(t, "mwSwap")
    /\ LET v == victim[t]
           w == BestWindow(st[t])
       IN  /\ hand' = [hand EXCEPT ![t] = slot[v][w]]
           /\ slot' = [slot EXCEPT ![v][w] = NULL]
           /\ st' = [st EXCEPT ![t].bm = @ \ {w}]
    /\ Goto(t, IF hand'[t] = NULL /\ st'[t].bm # {} THEN "mwClear" ELSE "mwCheck")
    /\ UNCHANGED <<bt, queue, mw, mwstate, curb, env, adds, victim>>

LeaveWindow(t) ==
    /\ Goto(t, IF hand[t] = NULL THEN "migrate" ELSE "copy")
    /\ Forget(t) /\ victim' = [victim EXCEPT ![t] = NULL]

(* An empty window: its level is not advertised any more. *)
CheckWindow(t) ==
    /\ At(t, "mwCheck")
    /\ IF st[t].bm = {} /\ mw[victim[t]] = Word(st[t].head, {})
       THEN Goto(t, "mwOff") /\ UNCHANGED <<st, victim>>
       ELSE LeaveWindow(t)
    /\ UNCHANGED <<bt, queue, window, curb, env, adds, hand>>

Unadvertise(t) ==
    /\ At(t, "mwOff")
    /\ mwstate' = [mwstate EXCEPT ![victim[t]] = FALSE]
    /\ LeaveWindow(t)
    /\ UNCHANGED <<bt, queue, slot, mw, curb, env, adds, hand>>

(* load_curb of another thread's batch: copied, then marked clean *)
Copy(t) ==
    /\ At(t, "copy")
    /\ curb' = [curb EXCEPT ![t] = Loaded(hand[t])]
    /\ Goto(t, "clean")
    /\ UNCHANGED <<bt, queue, window, env, local>>

(* The copied batch is free for its owner to wash.  The links of its       *)
(* processes belong to the current batch now: nobody follows them from it.  *)
MarkClean(t) ==
    /\ At(t, "clean")
    /\ bt' = [bt EXCEPT ![hand[t]].dirty = FALSE, ![hand[t]].procs = <<>>]
    /\ hand' = [hand EXCEPT ![t] = NULL]
    /\ Goto(t, "run")
    /\ UNCHANGED <<queue, window, curb, env, adds, st, victim>>

-----------------------------------------------------------------------------
Scheduler(t) ==
    \/ Run(t) \/ TakeMail(t) \/ KeepCurb(t) \/ PushCurb(t)
    \/ AddAffine(t) \/ AddVisible(t) \/ FillSlot(t)
    \/ Publish(t) \/ Advertise(t)
    \/ Pull(t) \/ UnmarkRead(t) \/ UnmarkWrite(t) \/ PullPending(t) \/ PickFails(t)
    \/ ChooseVictim(t) \/ Idle(t) \/ ReadWindow(t) \/ ClearBit(t) \/ TakeSlot(t)
    \/ CheckWindow(t) \/ Unadvertise(t) \/ Copy(t) \/ MarkClean(t)

Next == \E t \in Threads : Scheduler(t)

(* Every thread of the kernel keeps running; nothing more is assumed. *)
Spec == Init /\ [][Next]_vars /\ \A t \in Threads : WF_vars(Scheduler(t))

-----------------------------------------------------------------------------
(* Properties *)

TypeOK ==
    /\ bt \in [Batches -> [procs: Seq(Procs), window: 0..MWINDOW_SIZE, dirty: BOOLEAN]]
    /\ list \in [Threads -> Seq(Batches)] /\ pending \in [Threads -> Batches]
    /\ used \in [Threads -> BOOLEAN] /\ rqstate \in [Threads -> BOOLEAN]
    /\ free \in [Threads -> SUBSET Batches] /\ laundry \in [Threads -> SUBSET Batches]
    /\ slot \in [Threads -> [Windows -> Batches \cup {NULL}]]
    /\ mw \in [Threads -> [head: 0..MWINDOW_SIZE, bm: SUBSET Windows]]
    /\ mwstate \in [Threads -> BOOLEAN]
    /\ curb \in [Threads -> [procs: Seq(Procs), left: Nat, emptied: BOOLEAN, affine: BOOLEAN]]
    /\ pmail \in [Threads -> SUBSET Procs] /\ asleep \in SUBSET Procs /\ waits \in Nat
    /\ pc \in [Threads -> Labels]
    /\ adds \in [Threads -> Seq(Batches)]
    /\ st \in [Threads -> [head: 0..MWINDOW_SIZE, bm: SUBSET Windows]]
    /\ hand \in [Threads -> Batches \cup {NULL}]
    /\ victim \in [Threads -> Threads \cup {NULL}]

(* Batches whose processes nobody runs yet: pending, about to be added,     *)
(* listed and not taken, or just taken.                                     *)
InSlot(b) == bt[b].window # 0 /\ slot[b[1]][bt[b].window] = b
Waiting(t) ==
    (IF used[t] THEN {pending[t]} ELSE {})
    \cup {b \in ToSet(adds[t]) : InSlot(b) \/ b # Adding(t) \/ pc[t] \in {"add", "slot"}}
    \cup {b \in ToSet(list[t]) : bt[b].window = 0 \/ InSlot(b)}
    \cup (IF hand[t] # NULL /\ pc[t] # "clean" THEN {hand[t]} ELSE {})

Places(p) ==
    {x \in {<<"asleep", NULL, NULL>>} : p \in asleep}
    \cup {<<"mail", t, NULL>> : t \in {u \in Threads : p \in pmail[u]}}
    \cup {<<"curb", t, NULL>> : t \in {u \in Threads : p \in ToSet(curb[u].procs)}}
    \cup {<<"batch", x[1], x[2]>> : x \in
            {y \in Threads \X Batches : y[2] \in Waiting(y[1]) /\ p \in ToSet(bt[y[2]].procs)}}

(* However owner and takers race for a batch, every process is in one place *)
(* and one only: none is lost with a batch, none runs on two threads, and   *)
(* one with an affinity is never in the current batch of another thread.    *)
ProcessInOnePlace ==
    \A p \in Procs :
       /\ Cardinality(Places(p)) = 1
       /\ \A t \in Threads : p \in ToSet(curb[t].procs) => Home[p] \in {NULL, t}

(* A batch on the free list, to be filled again, is not in a slot, not in   *)
(* the list, and no thread is still copying from it.                        *)
FreeBatchUnseen ==
    \A t \in Threads : \A b \in free[t] \cup {pending[t]} :
       /\ ~InSlot(b) /\ b \notin ToSet(list[t])
       /\ \A u \in Threads : hand[u] # b

(* A process that is ready and stays on the queues runs again: neither the  *)
(* owner nor a taker leaves a batch behind.                                 *)
Parked(p) == p \in asleep \/ \E t \in Threads : p \in pmail[t]
Dispatched(p) == \E t \in Threads : Run(t) /\ Head(curb[t].procs) = p
LiveReadyRuns == \A p \in Procs : []<>Parked(p) \/ []<><<Dispatched(p)>>_vars

-----------------------------------------------------------------------------
(* The inductive invariant behind ProcessInOnePlace and FreeBatchUnseen *)

(* What a thread has at each position in the code.                          *)
Enlisting(t) == pc[t] \in {"add", "slot", "publish", "advertise"}
Looking(t)   == pc[t] \in {"mwRead", "mwClear", "mwSwap", "mwCheck", "mwOff"}
Owning(t)    == pc[t] \in {"unmark", "unmarkW"}
Stealing(t)  == pc[t] \in {"mwCheck", "mwOff", "copy", "clean"}
Stages ==
    \A t \in Threads :
        /\ Enlisting(t) <=> adds[t] # <<>>
        /\ curb[t].procs = <<>> \/ pc[t] = "run" \/ pc[t] = "clean" \/ Enlisting(t)
        /\ hand[t] # NULL => Owning(t) \/ Stealing(t)
        /\ Owning(t) \/ pc[t] \in {"copy", "clean"} => hand[t] # NULL
        /\ Looking(t) => victim[t] \in Threads
        /\ pc[t] \in {"mwClear", "mwSwap"} => st[t].bm # {}

(* A batch of t is free, in the laundry, pending, to be added, listed or in *)
(* hand; only one that is just being advertised is in two places.           *)
Memory ==
    \A t \in Threads :
        /\ \A b \in free[t] \cup laundry[t] \cup {pending[t]} \cup ToSet(adds[t])
                     \cup ToSet(list[t]) : b[1] = t
        /\ IsInjective(adds[t]) /\ IsInjective(list[t])
        /\ free[t] \cap laundry[t] = {} /\ pending[t] \notin free[t] \cup laundry[t]
        /\ \A b \in ToSet(adds[t]) \cup ToSet(list[t]) :
              b \notin free[t] \cup laundry[t] \cup {pending[t]}
        /\ \A b \in ToSet(adds[t]) : b \in ToSet(list[t]) => pc[t] = "advertise" /\ b = Adding(t)
        /\ pc[t] = "advertise" => Adding(t) \in ToSet(list[t])
        /\ Owning(t) => /\ hand[t][1] = t
                        /\ hand[t] \notin free[t] \cup laundry[t] \cup {pending[t]}
                        /\ hand[t] \notin ToSet(adds[t]) \cup ToSet(list[t])

(* A batch with a slot is in its owner's list, or about to be, until the    *)
(* owner finds out that it was taken.                                       *)
Listed(b) ==
    \/ b \in ToSet(list[b[1]])
    \/ pc[b[1]] = "publish" /\ b = Adding(b[1])
Slots ==
    /\ \A t \in Threads : \A w \in Windows :
          LET b == slot[t][w] IN
          b # NULL => /\ b[1] = t /\ Listed(b)
                      /\ bt[b].window = w /\ bt[b].dirty
                      /\ \A u \in Threads : hand[u] # b
    /\ \A t \in Threads : pc[t] = "slot" =>
          bt[Adding(t)].window = NextWindow(st[t].head) /\ bt[Adding(t)].dirty
    /\ \A t \in Threads : pc[t] \in {"publish", "advertise"} => bt[Adding(t)].window # 0

(* A batch another thread has taken is dirty until that has read it.        *)
Hands ==
    /\ \A u \in Threads : Stealing(u) /\ hand[u] # NULL =>
          /\ bt[hand[u]].dirty /\ bt[hand[u]].window # 0
          /\ Listed(hand[u]) \/ hand[u] \in laundry[hand[u][1]]
    /\ \A u, v \in Threads : hand[u] # NULL /\ hand[u] = hand[v] => u = v

(* What is in a batch.  Only batches without affinity are ever dirty.       *)
Contents ==
    /\ \A b \in Batches :
          /\ IsInjective(bt[b].procs)
          /\ \A p \in ToSet(bt[b].procs) : Home[p] \in {NULL, b[1]} /\ (bt[b].dirty => Home[p] = NULL)
          /\ \A p, q \in ToSet(bt[b].procs) : Home[p] = NULL => Home[q] = NULL
    /\ \A t \in Threads :
          /\ \A b \in free[t] : bt[b].procs = <<>> /\ ~bt[b].dirty
          /\ ~bt[pending[t]].dirty
          /\ ~used[t] => bt[pending[t]].procs = <<>>
          /\ \A b \in ToSet(list[t]) : bt[b].window = 0 => ~bt[b].dirty
    /\ \A t \in Threads :
          /\ IsInjective(curb[t].procs)
          /\ \A p \in ToSet(curb[t].procs) :
                Home[p] \in {NULL, t} /\ (Home[p] # NULL <=> curb[t].affine)
          /\ \A p \in pmail[t] : Home[p] = t

Settled == \A p \in Procs : \E x \in Places(p) : Places(p) = {x}

RInv == TypeOK /\ Stages /\ Memory /\ Slots /\ Hands /\ Contents /\ Settled

=============================================================================
