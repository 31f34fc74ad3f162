------------------------------ MODULE Mailbox ------------------------------
(***************************************************************************)
(* The process mailbox of a scheduler thread and the sleep and wake-up     *)
(* protocol around it: mail_process, atomic_enqueue_to_runqueue,           *)
(* atomic_dequeue_from_runqueue and the idle part of kernel_scheduler in   *)
(* kernel/sched.c; ccsp_wake_thread and ccsp_safe_pause in                 *)
(* common/userproc.c.  mail_batch and the batch mailbox are the same code. *)
(*                                                                         *)
(* Any thread may mail a process; only the owner of the mailbox takes it   *)
(* out.  The queue is lock-free: an enqueue swaps the back pointer first   *)
(* and links the process in afterwards, so for a while the chain is cut.   *)
(* The owner sleeps in a read on its signal pipe.                          *)
(*                                                                         *)
(* One action is one access to a shared word.  No name is one of module    *)
(* RunQueues, since SchedulerProofs extends both.  A definition named      *)
(* after a slip (LookNever, CasBackForced...) is a mutant of the one after *)
(* it.                                                                     *)
(***************************************************************************)
EXTENDS Naturals, Sequences, FiniteSets

CONSTANTS
    Senders,         \* threads that mail, or that handle the alarm signal
    Items,           \* processes that may be mailed (pointers)
    NIL,             \* the null pointer
    PipeSize         \* bound: bytes the signal pipe can hold

ASSUME NilAssumption == NIL \notin Items
ASSUME PipeAssumption == PipeSize \in Nat \ {0}

VARIABLES
    Fptr, Bptr,      \* sched->pmail
    Link,            \* Wptr[Link] of the processes
    sync,            \* sched->sync
    sleeping,        \* the owner's bit in sleeping_threads
    pipe,            \* bytes in the signal pipe
    doing, item, back, bit,   \* a sender: position, ptr, back, sync_bit
    at, ptr, next,   \* the owner: position, ptr and next of the dequeue
    seen,            \* the owner: local sync of kernel_scheduler or safe_pause
    busy,            \* the owner: processes to run
    posted           \* ghost: mailed processes, in the order of the swap

mail   == <<Fptr, Bptr, Link>>
sender == <<doing, item, back, bit>>
owner  == <<at, ptr, next, seen, busy>>
mailVars == <<Fptr, Bptr, Link, sync, sleeping, pipe, doing, item, back, bit, at, ptr, next,
              seen, busy, posted>>

Ptr  == Items \cup {NIL}
Bits == {"PMAIL", "TIME"}

SenderPCs == {"idle", "swap", "link", "setSync", "look", "clearSleeping", "wakeSync", "write"}
OwnerPCs  == {"run", "sched", "deq", "deqBack", "casBack", "casFront", "deqNext", "setFront",
              "after", "sleep", "check", "awake", "spin", "pause", "read", "restore"}

Mailed(p) == \/ \E k \in 1..Len(posted) : posted[k] = p
             \/ \E s \in Senders : doing[s] = "swap" /\ item[s] = p

MailInit ==
        /\ Fptr = NIL /\ Bptr = NIL
        /\ Link = [p \in Items |-> NIL]
        /\ sync = {} /\ sleeping = FALSE /\ pipe = 0
        /\ doing = [s \in Senders |-> "idle"]
        /\ item = [s \in Senders |-> NIL] /\ back = [s \in Senders |-> NIL]
        /\ bit = [s \in Senders |-> "PMAIL"]
        /\ at = "run" /\ ptr = NIL /\ next = NIL /\ seen = {} /\ busy = TRUE
        /\ posted = <<>>

Turn(s, label) == doing' = [doing EXCEPT ![s] = label]
Sent(s, from, to) == doing[s] = from /\ Turn(s, to)
Move(from, to) == at = from /\ at' = to

-----------------------------------------------------------------------------
(* mail_process *)

(* atomic_enqueue_to_runqueue: the link word is cleared before the process  *)
(* can be seen.                                                             *)
Mail(s, p) ==
    /\ ~Mailed(p) /\ ptr # p
    /\ Sent(s, "idle", "swap")
    /\ item' = [item EXCEPT ![s] = p]
    /\ bit' = [bit EXCEPT ![s] = "PMAIL"]
    /\ Link' = [Link EXCEPT ![p] = NIL]
    /\ UNCHANGED <<Fptr, Bptr, sync, sleeping, pipe, back, owner, posted>>

SwapBack(s) ==
    /\ Sent(s, "swap", "link")
    /\ Bptr' = item[s]
    /\ back' = [back EXCEPT ![s] = Bptr]
    /\ posted' = Append(posted, item[s])
    /\ UNCHANGED <<Fptr, Link, sync, sleeping, pipe, item, bit, owner>>

LinkIn(s) ==
    /\ Sent(s, "link", "setSync")
    /\ IF back[s] = NIL
       THEN Fptr' = item[s] /\ UNCHANGED Link
       ELSE Link' = [Link EXCEPT ![back[s]] = item[s]] /\ UNCHANGED Fptr
    /\ item' = [item EXCEPT ![s] = NIL]
    /\ back' = [back EXCEPT ![s] = NIL]
    /\ UNCHANGED <<Bptr, sync, sleeping, pipe, bit, owner, posted>>

SetSync(s) ==
    /\ Sent(s, "setSync", "look")
    /\ sync' = sync \cup {"PMAIL"}
    /\ UNCHANGED <<mail, sleeping, pipe, item, back, bit, owner, posted>>

LookNever(s) ==
    /\ Sent(s, "look", "idle")
    /\ UNCHANGED <<mail, sync, sleeping, pipe, item, back, bit, owner, posted>>

Look(s) ==
    /\ Sent(s, "look", IF sleeping THEN "clearSleeping" ELSE "idle")
    /\ UNCHANGED <<mail, sync, sleeping, pipe, item, back, bit, owner, posted>>

-----------------------------------------------------------------------------
(* ccsp_wake_thread *)

ClearSleeping(s) ==
    /\ Sent(s, "clearSleeping", "wakeSync")
    /\ sleeping' = FALSE
    /\ UNCHANGED <<mail, sync, pipe, item, back, bit, owner, posted>>

WakeSync(s) ==
    /\ Sent(s, "wakeSync", "write")
    /\ sync' = sync \cup {bit[s]}
    /\ UNCHANGED <<mail, sleeping, pipe, item, back, bit, owner, posted>>

(* The pipe does not block: a byte that does not fit is dropped. *)
Write(s) ==
    /\ Sent(s, "write", "idle")
    /\ pipe' = IF pipe < PipeSize THEN pipe + 1 ELSE pipe
    /\ UNCHANGED <<mail, sync, sleeping, item, back, bit, owner, posted>>

(* user_tim_handler: the alarm signal wakes every thread, asleep or not. *)
Alarm(s) ==
    /\ Sent(s, "idle", "clearSleeping")
    /\ bit' = [bit EXCEPT ![s] = "TIME"]
    /\ UNCHANGED <<mail, sync, sleeping, pipe, item, back, owner, posted>>

-----------------------------------------------------------------------------
(* kernel_scheduler of the owner *)

(* The owner's processes run until it enters the scheduler again, with or   *)
(* without anything left in its batch and run queues.                       *)
OwnerRuns ==
          /\ Move("run", "sched")
          /\ busy' \in BOOLEAN
          /\ UNCHANGED <<mail, sync, sleeping, pipe, sender, ptr, next, seen, posted>>

TakeSync ==
    /\ at = "sched"
    /\ seen' = sync /\ sync' = {}
    /\ at' = IF "PMAIL" \in sync THEN "deq" ELSE "after"
    /\ UNCHANGED <<mail, sleeping, pipe, sender, ptr, next, busy, posted>>

(* atomic_dequeue_from_runqueue *)
DeqFront ==
    /\ at = "deq"
    /\ ptr' = Fptr
    /\ at' = IF Fptr = NIL THEN "after" ELSE "deqBack"
    /\ UNCHANGED <<mail, sync, sleeping, pipe, sender, next, seen, busy, posted>>

DeqBack ==
    /\ at = "deqBack"
    /\ at' = IF ptr = Bptr THEN "casBack" ELSE "deqNext"
    /\ UNCHANGED <<mail, sync, sleeping, pipe, sender, ptr, next, seen, busy, posted>>

(* enqueue_process: the process joins the owner's run queue. *)
Deliver ==
    /\ busy' = TRUE
    /\ posted' = Tail(posted)
    /\ ptr' = NIL
    /\ at' = "deq"

CasBackForced ==
    /\ Move("casBack", "casFront")
    /\ Bptr' = NIL
    /\ UNCHANGED <<Fptr, Link, sync, sleeping, pipe, sender, ptr, next, seen, busy, posted>>

CasBack ==
    /\ Move("casBack", "casFront") /\ Bptr = ptr
    /\ Bptr' = NIL
    /\ UNCHANGED <<Fptr, Link, sync, sleeping, pipe, sender, ptr, next, seen, busy, posted>>

CasBackFails ==
    /\ Move("casBack", "deqNext") /\ Bptr # ptr
    /\ UNCHANGED <<mail, sync, sleeping, pipe, sender, ptr, next, seen, busy, posted>>

(* An enqueue that began after the CAS may already have set Fptr: only the  *)
(* dequeued pointer is removed.                                             *)
CasFront ==
    /\ at = "casFront"
    /\ Fptr' = IF Fptr = ptr THEN NIL ELSE Fptr
    /\ Deliver
    /\ UNCHANGED <<Bptr, Link, sync, sleeping, pipe, sender, next, seen>>

(* No link yet: the enqueue behind ptr is incomplete, and so is its mail:   *)
(* its sender has still to set the sync bit.                                *)
DeqNext ==
    /\ at = "deqNext"
    /\ next' = Link[ptr]
    /\ IF Link[ptr] = NIL THEN at' = "after" /\ ptr' = NIL
                          ELSE at' = "setFront" /\ UNCHANGED ptr
    /\ UNCHANGED <<mail, sync, sleeping, pipe, sender, seen, busy, posted>>

SetFront ==
    /\ at = "setFront"
    /\ Fptr' = next
    /\ next' = NIL
    /\ Deliver
    /\ UNCHANGED <<Bptr, Link, sync, sleeping, pipe, sender, seen>>

(* Is there anything to run?  SYNC_TIME, too, may have readied a process.   *)
(* If not, the thread looks again sched->loop times before it sleeps.       *)
After ==
    /\ at = "after"
    /\ \/ busy /\ at' = "run"
       \/ "TIME" \in seen /\ at' = "run"
       \/ ~busy /\ at' \in {"sched", "sleep"}
    /\ seen' = {}
    /\ UNCHANGED <<mail, sync, sleeping, pipe, sender, ptr, next, busy, posted>>

(* Announce the sleep, then look at sync once more.  With a timer queue the *)
(* thread does not look, but pauses with a timeout.                         *)
Sleep ==
    /\ Move("sleep", "check")
    /\ sleeping' = TRUE
    /\ UNCHANGED <<mail, sync, pipe, sender, ptr, next, seen, busy, posted>>

Check ==
    /\ at = "check"
    /\ \/ at' = IF sync = {} THEN "pause" ELSE "awake"
       \/ at' \in {"spin", "pause"}
    /\ UNCHANGED <<mail, sync, sleeping, pipe, sender, ptr, next, seen, busy, posted>>

Awake ==
    /\ Move("awake", "sched")
    /\ sleeping' = FALSE
    /\ UNCHANGED <<mail, sync, pipe, sender, ptr, next, seen, busy, posted>>

(* ccsp_safe_pause_timeout, short sleep: the sleeping bit stays set. *)
Spin ==
    /\ at = "spin"
    /\ seen' = sync /\ sync' = {}
    /\ at' = IF sync = {} THEN "spin" ELSE "restore"
    /\ UNCHANGED <<mail, sleeping, pipe, sender, ptr, next, busy, posted>>

TimedOut ==
    /\ Move("spin", "sched")
    /\ busy' = TRUE
    /\ UNCHANGED <<mail, sync, sleeping, pipe, sender, ptr, next, seen, posted>>

(* ccsp_safe_pause *)
Pause ==
    /\ at = "pause"
    /\ seen' = sync /\ sync' = {}
    /\ at' = IF sync = {} THEN "read" ELSE "restore"
    /\ UNCHANGED <<mail, sleeping, pipe, sender, ptr, next, busy, posted>>

Read ==
    /\ Move("read", "pause") /\ pipe > 0
    /\ pipe' = pipe - 1
    /\ UNCHANGED <<mail, sync, sleeping, sender, ptr, next, seen, busy, posted>>

RestoreOmitted ==
    /\ Move("restore", "sched")
    /\ seen' = {}
    /\ UNCHANGED <<mail, sync, sleeping, pipe, sender, ptr, next, busy, posted>>

Restore ==
    /\ Move("restore", "sched")
    /\ sync' = sync \cup seen
    /\ seen' = {}
    /\ UNCHANGED <<mail, sleeping, pipe, sender, ptr, next, busy, posted>>

-----------------------------------------------------------------------------
Sending(s) == SwapBack(s) \/ LinkIn(s) \/ SetSync(s) \/ Look(s)
              \/ ClearSleeping(s) \/ WakeSync(s) \/ Write(s)
Dequeue    == DeqFront \/ DeqBack \/ CasBack \/ CasBackFails \/ CasFront \/ DeqNext \/ SetFront
Pausing    == Sleep \/ Check \/ Awake \/ Spin \/ TimedOut \/ Pause \/ Read \/ Restore
OwnerStep  == OwnerRuns \/ TakeSync \/ Dequeue \/ After \/ Pausing

MailNext == \/ OwnerStep
            \/ \E s \in Senders : Sending(s) \/ Alarm(s) \/ \E p \in Items : Mail(s, p)

MailSpec == MailInit /\ [][MailNext]_mailVars

(* Threads run.  A running process calls the kernel, so that the owner      *)
(* comes back to its scheduler; a spin for a timeout ends.  Nobody is       *)
(* obliged to mail, and no alarm need ring.                                 *)
MailFairSpec == /\ MailSpec
                /\ WF_mailVars(OwnerStep) /\ WF_mailVars(TimedOut)
                /\ \A s \in Senders : WF_mailVars(Sending(s))

-----------------------------------------------------------------------------
(* Properties *)

MailTypeOK ==
    /\ Fptr \in Ptr /\ Bptr \in Ptr /\ Link \in [Items -> Ptr]
    /\ sync \subseteq Bits /\ sleeping \in BOOLEAN /\ pipe \in 0..PipeSize
    /\ doing \in [Senders -> SenderPCs] /\ item \in [Senders -> Ptr]
    /\ back \in [Senders -> Ptr] /\ bit \in [Senders -> Bits]
    /\ at \in OwnerPCs /\ ptr \in Ptr /\ next \in Ptr
    /\ seen \subseteq Bits /\ busy \in BOOLEAN
    /\ posted \in Seq(Items)

(* The mailbox is a FIFO queue: what the owner takes out is the process     *)
(* whose enqueue swapped the back pointer first of all that are still in.   *)
TakesOldest ==
    at \in {"deqBack", "casBack", "casFront", "deqNext", "setFront"} =>
        posted # <<>> /\ ptr = Head(posted)

(* A thread blocked in the read on its pipe, with mail for it, is about to  *)
(* be woken: a byte is there, or a sender that will see the sleeping bit    *)
(* set, or has seen it, has yet to write one.                               *)
NoLostWakeup ==
    at = "read" /\ pipe = 0 /\ (posted # <<>> \/ sync # {}) =>
        \E s \in Senders : \/ doing[s] \in {"clearSleeping", "wakeSync", "write"}
                           \/ doing[s] \in {"link", "setSync", "look"} /\ sleeping

(* Mailed processes run: whatever the interleaving of senders, the owner's  *)
(* sleep, its timeouts and alarms, every process that has been mailed is    *)
(* put on the owner's run queue.                                            *)
MailArrives == \A p \in Items : Mailed(p) ~> ~Mailed(p)

-----------------------------------------------------------------------------
(* The inductive invariant behind TakesOldest and NoLostWakeup *)

Linking(s) == doing[s] = "link"
Taking     == at \in {"deqBack", "casBack", "casFront", "deqNext", "setFront"}

(* The words of the mailbox against the order of the swaps: they differ by  *)
(* the enqueues that are incomplete and, between the two CASes of the       *)
(* dequeue, by the process that is leaving.                                 *)
Chain ==
    /\ \A i, j \in 1..Len(posted) : posted[i] = posted[j] => i = j
    /\ Bptr = IF Len(posted) = 0 \/ (at = "casFront" /\ Len(posted) = 1)
              THEN NIL ELSE posted[Len(posted)]
    /\ Fptr # NIL => /\ Len(posted) > 0
                     /\ \/ Fptr = posted[1]
                        \/ at = "casFront" /\ Len(posted) > 1 /\ Fptr = posted[2]
    /\ Len(posted) > 0 => Link[posted[Len(posted)]] = NIL
    /\ \A i \in 1..(Len(posted) - 1) : Link[posted[i]] \in {NIL, posted[i + 1]}

(* What the owner has in hand. *)
FrontWord ==
    /\ Taking => Len(posted) > 0 /\ ptr = posted[1] /\ Fptr # NIL
    /\ Taking /\ at # "casFront" => Fptr = ptr
    /\ at = "deqNext" => Len(posted) > 1
    /\ at = "setFront" => /\ Len(posted) > 1
                          /\ next = posted[2] /\ Link[posted[1]] = posted[2]

(* What the senders have in hand: the process to enqueue and the place      *)
(* where its pointer has to go.                                             *)
Place(s) ==
    \/ /\ back[s] = NIL
       /\ IF at = "casFront"
          THEN Len(posted) > 1 /\ item[s] = posted[2] /\ Fptr = posted[1]
          ELSE Len(posted) > 0 /\ item[s] = posted[1] /\ Fptr = NIL
    \/ /\ back[s] # NIL
       /\ \E i \in 1..(Len(posted) - 1) :
             /\ at = "casFront" => i > 1
             /\ back[s] = posted[i] /\ item[s] = posted[i + 1] /\ Link[posted[i]] = NIL

Sends ==
    /\ \A s \in Senders :
        /\ doing[s] \in {"swap", "link"} => item[s] # NIL
        /\ doing[s] = "swap" => /\ Link[item[s]] = NIL
                                /\ \A k \in 1..Len(posted) : posted[k] # item[s]
        /\ Linking(s) => Place(s)
    /\ \A s, u \in Senders :
        /\ doing[s] = "swap" /\ doing[u] = "swap" /\ item[s] = item[u] => s = u
        /\ Linking(s) /\ Linking(u) /\ item[s] = item[u] => s = u

(* Every gap in the chain has a sender that is about to fill it. *)
Filled ==
    /\ Len(posted) > 0 /\ Fptr = NIL => \E s \in Senders : Linking(s) /\ back[s] = NIL
    /\ at = "casFront" /\ Len(posted) > 1 /\ Fptr = posted[1] =>
        \E s \in Senders : Linking(s) /\ back[s] = NIL
    /\ \A i \in 1..(Len(posted) - 1) :
        Link[posted[i]] = NIL /\ (at = "casFront" => i > 1) =>
            \E s \in Senders : Linking(s) /\ back[s] = posted[i]

(* Mail is known to the owner, is in sync, or its sender has yet to set it. *)
Noticed ==
    Len(posted) > 0 => \/ "PMAIL" \in sync
                       \/ Taking \/ at = "deq"
                       \/ at = "restore" /\ "PMAIL" \in seen
                       \/ \E s \in Senders : doing[s] \in {"link", "setSync"}

(* The sleeping bit, sync and the pipe: an owner that has announced its     *)
(* sleep is woken by whoever has anything to tell it.                       *)
Woken ==
    /\ at \in {"check", "pause"} /\ ~sleeping =>
        sync # {} \/ \E s \in Senders : doing[s] = "wakeSync"
    /\ at = "read" /\ ~sleeping =>
        \/ \E s \in Senders : doing[s] = "wakeSync"
        \/ sync # {} /\ (pipe > 0 \/ \E s \in Senders : doing[s] = "write")
    /\ at = "read" /\ sleeping /\ sync # {} =>
        pipe > 0 \/ \E s \in Senders : doing[s] \in {"look", "clearSleeping", "write"}

MInv == MailTypeOK /\ Chain /\ FrontWord /\ Sends /\ Filled /\ Noticed /\ Woken
=============================================================================
