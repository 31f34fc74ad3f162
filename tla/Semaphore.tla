----------------------------- MODULE Semaphore -----------------------------
(***************************************************************************)
(* The lock-free semaphore of the multiprocessor scheduler: sem_init,      *)
(* sem_claim, sem_release and sem_dequeue of kernel/sched.c.               *)
(*                                                                         *)
(* A semaphore is two words.  fptr points at the first waiting process,    *)
(* bptr at the last; bit 0 of bptr is set while nobody owns the semaphore  *)
(* (a process pointer is word aligned, so the bit is spare).  Waiting      *)
(* processes are chained through the Link word of their workspaces.        *)
(*                                                                         *)
(* A scheduler thread executes an operation for a process.  The two are    *)
(* kept apart: once sem_claim has published Wptr in bptr, another thread   *)
(* may grant the semaphore to the process and run it while the first       *)
(* thread is still in the tail of sem_claim.                               *)
(*                                                                         *)
(* One action is one access to a shared word, in the code's order.  A      *)
(* definition named after a slip (TryLockAlways, UnlockOmitted...) is a    *)
(* mutant of the one that follows it: the property named with it in        *)
(* PROJECT.json fails when the code is wrong that way.                     *)
(***************************************************************************)
EXTENDS Naturals, Sequences

CONSTANTS Threads,   \* the scheduler threads
          Claimants, \* the processes that use the semaphore
          NP         \* NotProcess_p

ASSUME NPAssumption == NP \notin Claimants

VARIABLES
    fptr,            \* sem->fptr
    bptr,            \* sem->bptr: pointer and bit 0
    link,            \* Wptr[Link] of each process
    pc,              \* where each thread is in the code
    me,              \* Wptr of the process a thread executes for; NP once
                     \*   sem_claim has given the process away
    val,             \* local val of sem_claim
    f,               \* local fptr of sem_dequeue
    l,               \* local link of sem_dequeue
    status,          \* what each process is doing
    waitq            \* ghost: published processes, in the order of the CAS

shared  == <<fptr, bptr, link>>
locals  == <<me, val, f, l>>
semVars == <<fptr, bptr, link, pc, me, val, f, l, status, waitq>>

Ptr  == Claimants \cup {NP}
Word == [ptr : Ptr, bit : {0, 1}]
W(p, i) == [ptr |-> p, bit |-> i]
NoWord == W(NP, 0)

PCs == {"idle", "claimCas", "reread", "clearLink", "publish", "join", "tryLock",
        "loadFront", "loadBack", "loadLink", "takeFirst", "clearFront", "takeLast",
        "undoFront", "unlock", "retest", "relock", "grant", "releaseCas"}

Statuses == {"out", "claiming", "waiting", "granted", "in", "releasing"}

SemTypeOK ==
    /\ fptr \in Ptr
    /\ bptr \in Word
    /\ link \in [Claimants -> Ptr]
    /\ pc \in [Threads -> PCs]
    /\ me \in [Threads -> Ptr]
    /\ val \in [Threads -> Word]
    /\ f \in [Threads -> Ptr]
    /\ l \in [Threads -> Ptr]
    /\ status \in [Claimants -> Statuses]
    /\ waitq \in Seq(Claimants)

(* sem_init *)
SemInit ==
    /\ fptr = NP
    /\ bptr = W(NP, 1)
    /\ link = [p \in Claimants |-> NP]
    /\ pc = [t \in Threads |-> "idle"]
    /\ me = [t \in Threads |-> NP]
    /\ val = [t \in Threads |-> NoWord]
    /\ f = [t \in Threads |-> NP]
    /\ l = [t \in Threads |-> NP]
    /\ status = [p \in Claimants |-> "out"]
    /\ waitq = <<>>

Goto(t, label)    == pc' = [pc EXCEPT ![t] = label]
At(t, label)      == pc[t] = label
Becomes(p, s)     == status' = [status EXCEPT ![p] = s]

(* Locals are forgotten when they are dead, to keep the state space small. *)
Forget(t) ==
    /\ me' = [me EXCEPT ![t] = NP]
    /\ val' = [val EXCEPT ![t] = NoWord]
    /\ f' = [f EXCEPT ![t] = NP]
    /\ UNCHANGED l

(* The thread leaves the operation: a releasing process carries on. *)
Return(t) ==
    /\ status' = [p \in Claimants |-> IF p = me[t] THEN "out" ELSE status[p]]
    /\ Forget(t)
    /\ Goto(t, "idle")

-----------------------------------------------------------------------------
(* sem_claim *)

(* The process enters sem_claim and reads bptr.  Only a word that is both   *)
(* free and without waiters is worth the fast-path CAS.                     *)
BeginClaimOvertakes(t, p) ==
    /\ At(t, "idle") /\ status[p] = "out"
    /\ me' = [me EXCEPT ![t] = p]
    /\ val' = [val EXCEPT ![t] = bptr]
    /\ Goto(t, IF bptr.bit = 1 THEN "claimCas" ELSE "clearLink")
    /\ Becomes(p, "claiming")
    /\ UNCHANGED <<shared, f, l, waitq>>

BeginClaim(t, p) ==
    /\ At(t, "idle") /\ status[p] = "out"
    /\ me' = [me EXCEPT ![t] = p]
    /\ val' = [val EXCEPT ![t] = bptr]
    /\ Goto(t, IF bptr = W(NP, 1) THEN "claimCas" ELSE "clearLink")
    /\ Becomes(p, "claiming")
    /\ UNCHANGED <<shared, f, l, waitq>>

ClaimCas(t) ==
    /\ At(t, "claimCas") /\ bptr = val[t]
    /\ bptr' = W(NP, 0)
    /\ Becomes(me[t], "in")
    /\ Forget(t)
    /\ Goto(t, "idle")
    /\ UNCHANGED <<fptr, link, waitq>>

ClaimCasFails(t) ==
    /\ At(t, "claimCas") /\ bptr # val[t]
    /\ Goto(t, "reread")
    /\ UNCHANGED <<shared, locals, status, waitq>>

Reread(t) ==
    /\ At(t, "reread")
    /\ val' = [val EXCEPT ![t] = bptr]
    /\ Goto(t, "clearLink")
    /\ UNCHANGED <<shared, me, f, l, status, waitq>>

(* save_priofinity, Wptr[Link] = NotProcess_p, save_return *)
ClearLink(t) ==
    /\ At(t, "clearLink")
    /\ link' = [link EXCEPT ![me[t]] = NP]
    /\ Goto(t, "publish")
    /\ UNCHANGED <<fptr, bptr, locals, status, waitq>>

(* The CAS loop.  Success publishes the process as the new tail and, if the *)
(* word was free, takes the semaphore for the thread (bit 0 is cleared).    *)
Publish(t) ==
    /\ At(t, "publish") /\ bptr = val[t]
    /\ bptr' = W(me[t], 0)
    /\ waitq' = Append(waitq, me[t])
    /\ Becomes(me[t], "waiting")
    /\ Goto(t, "join")
    /\ UNCHANGED <<fptr, link, locals>>

PublishFails(t) ==
    /\ At(t, "publish") /\ bptr # val[t]
    /\ val' = [val EXCEPT ![t] = bptr]
    /\ UNCHANGED <<shared, pc, me, f, l, status, waitq>>

(* Complete the enqueue: hang the process behind the old tail. *)
Join(t) ==
    /\ At(t, "join")
    /\ IF val[t].ptr = NP
       THEN fptr' = me[t] /\ UNCHANGED link
       ELSE link' = [link EXCEPT ![val[t].ptr] = me[t]] /\ UNCHANGED fptr
    /\ Goto(t, IF val[t].bit = 1 THEN "loadFront" ELSE "tryLock")
    /\ Forget(t)
    /\ UNCHANGED <<bptr, status, waitq>>

(* atw_test_clear_bit: the semaphore may have been let go since the CAS. *)
TryLockAlways(t) ==
    /\ At(t, "tryLock")
    /\ bptr' = [bptr EXCEPT !.bit = 0]
    /\ Goto(t, "loadFront")
    /\ UNCHANGED <<fptr, link, locals, status, waitq>>

TryLock(t) ==
    /\ At(t, "tryLock")
    /\ bptr' = [bptr EXCEPT !.bit = 0]
    /\ Goto(t, IF bptr.bit = 1 THEN "loadFront" ELSE "idle")
    /\ UNCHANGED <<fptr, link, locals, status, waitq>>

-----------------------------------------------------------------------------
(* sem_dequeue: executed by a thread that owns the semaphore *)

(* Also the reload of fptr after the lock has been regained. *)
LoadFront(t) ==
    /\ At(t, "loadFront")
    /\ f' = [f EXCEPT ![t] = fptr]
    /\ Goto(t, IF fptr = NP THEN "unlock" ELSE "loadBack")
    /\ UNCHANGED <<shared, me, val, l, status, waitq>>

(* Read bptr.  If the front is also the back, the link read next is not used. *)
LoadBack(t) ==
    /\ At(t, "loadBack")
    /\ Goto(t, IF bptr = W(f[t], 0) THEN "clearFront" ELSE "loadLink")
    /\ UNCHANGED <<shared, locals, status, waitq>>

(* Read fptr[Link]: the first of several waiters, or one whose successor    *)
(* has not finished its enqueue.                                            *)
LoadLink(t) ==
    /\ At(t, "loadLink")
    /\ l' = [l EXCEPT ![t] = link[f[t]]]
    /\ Goto(t, IF link[f[t]] # NP THEN "takeFirst" ELSE "unlock")
    /\ UNCHANGED <<shared, me, val, f, status, waitq>>

(* The dequeued process owns the semaphore from here on. *)
Dequeued(t) ==
    /\ Becomes(f[t], "granted")
    /\ waitq' = SubSeq(waitq, 2, Len(waitq))
    /\ Goto(t, "grant")

TakeFirst(t) ==
    /\ At(t, "takeFirst")
    /\ fptr' = l[t]
    /\ l' = [l EXCEPT ![t] = NP]
    /\ Dequeued(t)
    /\ UNCHANGED <<bptr, link, me, val, f>>

(* One waiter: fptr is emptied first, so that a process enqueued after the  *)
(* CAS finds it empty and may set it.                                       *)
ClearFront(t) ==
    /\ At(t, "clearFront")
    /\ fptr' = NP
    /\ Goto(t, "takeLast")
    /\ UNCHANGED <<bptr, link, locals, status, waitq>>

TakeLast(t) ==
    /\ At(t, "takeLast") /\ bptr = W(f[t], 0)
    /\ bptr' = W(NP, 0)
    /\ Dequeued(t)
    /\ UNCHANGED <<fptr, link, locals>>

(* The CAS failed: somebody enqueued behind the process.  Put it back, loop. *)
TakeLastFails(t) ==
    /\ At(t, "takeLast") /\ bptr # W(f[t], 0)
    /\ Goto(t, "undoFront")
    /\ UNCHANGED <<shared, locals, status, waitq>>

UndoFront(t) ==
    /\ At(t, "undoFront")
    /\ fptr' = f[t]
    /\ Goto(t, "loadBack")
    /\ UNCHANGED <<bptr, link, locals, status, waitq>>

(* An incomplete enqueue is in the way: let go of the semaphore... *)
UnlockOmitted(t) ==
    /\ At(t, "unlock")
    /\ Goto(t, "retest")
    /\ UNCHANGED <<shared, locals, status, waitq>>

Unlock(t) ==
    /\ At(t, "unlock")
    /\ bptr' = [bptr EXCEPT !.bit = 1]
    /\ Goto(t, "retest")
    /\ UNCHANGED <<fptr, link, locals, status, waitq>>

(* ... look once more at the word that was missing (to_test)... *)
ToTestNever(t) == NP
ToTest(t) == IF f[t] = NP THEN fptr ELSE link[f[t]]

Retest(t) ==
    /\ At(t, "retest") /\ ToTest(t) # NP
    /\ Goto(t, "relock")
    /\ UNCHANGED <<shared, locals, status, waitq>>

RetestFails(t) ==
    /\ At(t, "retest") /\ ToTest(t) = NP
    /\ Return(t)
    /\ UNCHANGED <<shared, waitq>>

(* ... and if it has appeared, try to take the semaphore back. *)
Relock(t) ==
    /\ At(t, "relock") /\ bptr.bit = 1
    /\ bptr' = [bptr EXCEPT !.bit = 0]
    /\ Goto(t, "loadFront")
    /\ UNCHANGED <<fptr, link, locals, status, waitq>>

RelockFails(t) ==
    /\ At(t, "relock") /\ bptr.bit = 0
    /\ Return(t)
    /\ UNCHANGED <<shared, waitq>>

(* enqueue_process: the process will run, owning the semaphore.  Its Link   *)
(* word now belongs to a run queue: nil or, for a late reader, not nil.      *)
Grant(t) ==
    /\ At(t, "grant")
    /\ \E x \in {NP, f[t]} : link' = [link EXCEPT ![f[t]] = x]
    /\ status' = [p \in Claimants |-> IF p = f[t] THEN "in"
                                  ELSE IF p = me[t] THEN "out" ELSE status[p]]
    /\ Forget(t)
    /\ Goto(t, "idle")
    /\ UNCHANGED <<fptr, bptr, waitq>>

-----------------------------------------------------------------------------
(* sem_release *)

BeginRelease(t, p) ==
    /\ At(t, "idle") /\ status[p] = "in"
    /\ me' = [me EXCEPT ![t] = p]
    /\ Becomes(p, "releasing")
    /\ Goto(t, IF bptr = W(NP, 0) THEN "releaseCas" ELSE "loadFront")
    /\ UNCHANGED <<shared, val, f, l, waitq>>

(* Nobody waits: free the semaphore, unless somebody has come meanwhile. *)
ReleaseCas(t) ==
    /\ At(t, "releaseCas") /\ bptr = W(NP, 0)
    /\ bptr' = W(NP, 1)
    /\ Return(t)
    /\ UNCHANGED <<fptr, link, waitq>>

ReleaseCasFails(t) ==
    /\ At(t, "releaseCas") /\ bptr # W(NP, 0)
    /\ Goto(t, "loadFront")
    /\ UNCHANGED <<shared, locals, status, waitq>>

-----------------------------------------------------------------------------
Claiming(t)  == \/ ClaimCas(t) \/ ClaimCasFails(t) \/ Reread(t) \/ ClearLink(t)
                \/ Publish(t) \/ PublishFails(t) \/ Join(t) \/ TryLock(t)

Dequeuing(t) == \/ LoadFront(t)  \/ LoadBack(t) \/ LoadLink(t)      \/ TakeFirst(t)
                \/ ClearFront(t) \/ TakeLast(t) \/ TakeLastFails(t) \/ UndoFront(t)
                \/ Unlock(t)     \/ Retest(t)   \/ RetestFails(t)
                \/ Relock(t)     \/ RelockFails(t) \/ Grant(t)

(* A thread inside an operation takes its next step. *)
Step(t) == Claiming(t) \/ Dequeuing(t) \/ ReleaseCas(t) \/ ReleaseCasFails(t)

SemNext == \E t \in Threads :
            \/ Step(t)
            \/ \E p \in Claimants : BeginClaim(t, p) \/ BeginRelease(t, p)

SemSpec == SemInit /\ [][SemNext]_semVars

(* Scheduler threads are never stopped inside a kernel call, and a process  *)
(* that owns the semaphore eventually releases it (the occam CLAIM block    *)
(* and mt_lock/mt_unlock pairs end).  Nobody is obliged to claim.           *)
Fairness ==
    /\ \A t \in Threads : WF_semVars(Step(t))
    /\ \A p \in Claimants : WF_semVars(\E t \in Threads : BeginRelease(t, p))

FairSpec == SemSpec /\ Fairness

-----------------------------------------------------------------------------
(* Properties *)

Owns(p) == status[p] \in {"granted", "in"}

(* A thread that acts as the owner: it took bit 0 away and must give the    *)
(* semaphore to a process or put the bit back.                              *)
Locked(t) == \/ pc[t] \in {"loadFront", "loadBack", "loadLink", "takeFirst",
                            "clearFront", "takeLast", "undoFront", "unlock",
                            "releaseCas"}
             \/ pc[t] = "join" /\ val[t].bit = 1

(* At most one process is between a claim that returned (or a grant) and    *)
(* the release: sem_claim and sem_release are a lock.                       *)
MutualExclusion == \A p, q \in Claimants : Owns(p) /\ Owns(q) => p = q

(* Bit 0 of bptr tells the truth: it is set exactly when no process and no  *)
(* thread owns the semaphore, and there is never more than one owner.  A    *)
(* lost release or a double grant breaks it.                                *)
OneOwner ==
    /\ MutualExclusion
    /\ \A t, u \in Threads : Locked(t) /\ Locked(u) => t = u
    /\ \A p \in Claimants, t \in Threads : ~(Owns(p) /\ Locked(t))

BitTellsOwner ==
    /\ bptr.bit = 1 => /\ \A p \in Claimants : ~Owns(p)
                       /\ \A t \in Threads : ~Locked(t)
    /\ bptr.bit = 0 => \/ \E p \in Claimants : Owns(p)
                       \/ \E t \in Threads : Locked(t)

(* What each thread's program counter says about the process it executes    *)
(* for and the process it has dequeued.                                     *)
Entering(t)  == pc[t] \in {"claimCas", "reread", "clearLink", "publish"}
Joining(t)   == pc[t] = "join"
Releasing(t) == me[t] # NP /\ ~Entering(t) /\ ~Joining(t)
HasFront(t)  == pc[t] \in {"loadBack", "loadLink", "takeFirst", "clearFront",
                           "takeLast", "undoFront"}

Bookkeeping ==
    /\ \A t \in Threads :
        /\ Entering(t) => me[t] # NP /\ status[me[t]] = "claiming"
        /\ Joining(t) => me[t] # NP
        /\ pc[t] = "claimCas" => val[t] = W(NP, 1)
        /\ pc[t] = "publish" => link[me[t]] = NP
        /\ Releasing(t) => status[me[t]] = "releasing"
        /\ pc[t] = "grant" => f[t] # NP /\ status[f[t]] = "granted"
    /\ \A t, u \in Threads :
        /\ pc[t] = "grant" /\ pc[u] = "grant" => t = u
        /\ Entering(t) /\ Entering(u) /\ me[t] = me[u] => t = u
        /\ Releasing(t) /\ Releasing(u) /\ me[t] = me[u] => t = u

(* The chain of Link words against the queue of published processes: the    *)
(* two differ only by the enqueues that are still incomplete.               *)
Queue ==
    /\ \A i, j \in 1..Len(waitq) : waitq[i] = waitq[j] => i = j
    /\ \A i \in 1..Len(waitq) : status[waitq[i]] = "waiting"
    /\ bptr.ptr = IF Len(waitq) = 0 THEN NP ELSE waitq[Len(waitq)]
    /\ fptr # NP => Len(waitq) > 0 /\ fptr = waitq[1]
    /\ Len(waitq) > 0 => link[waitq[Len(waitq)]] = NP
    /\ \A i \in 1..(Len(waitq) - 1) : link[waitq[i]] \in {NP, waitq[i + 1]}

Fronts ==
    \A t \in Threads : HasFront(t) =>
        /\ Len(waitq) > 0 /\ f[t] = waitq[1]
        /\ pc[t] = "takeFirst" => /\ Len(waitq) > 1
                                  /\ l[t] = waitq[2] /\ link[waitq[1]] = waitq[2]
        /\ pc[t] \in {"takeLast", "undoFront"} => fptr = NP

Joins ==
    /\ \A t \in Threads : Joining(t) =>
        \/ /\ val[t].ptr = NP /\ fptr = NP
           /\ Len(waitq) > 0 /\ me[t] = waitq[1]
           /\ \A u \in Threads : ~HasFront(u)
        \/ /\ val[t].ptr # NP
           /\ \E i \in 1..(Len(waitq) - 1) :
                 /\ val[t].ptr = waitq[i] /\ me[t] = waitq[i + 1]
                 /\ link[waitq[i]] = NP
    /\ \A t, u \in Threads : Joining(t) /\ Joining(u) /\ me[t] = me[u] => t = u

(* The inductive invariant. *)
IInv == /\ SemTypeOK /\ OneOwner /\ BitTellsOwner
        /\ Bookkeeping /\ Queue /\ Fronts /\ Joins

(* A gap in the chain is the work of a thread: a word that does not yet     *)
(* name the next waiter is about to be written.                             *)
Linked ==
    /\ Len(waitq) > 0 /\ fptr = NP =>
        \E t \in Threads : \/ Joining(t) /\ val[t].ptr = NP
                           \/ pc[t] \in {"takeLast", "undoFront"}
    /\ \A i \in 1..(Len(waitq) - 1) : link[waitq[i]] = NP =>
        \E t \in Threads : Joining(t) /\ val[t].ptr = waitq[i]

(* A thread lets go with the first waiter in hand only when there is a second. *)
Behind ==
    \A t \in Threads :
        /\ pc[t] = "loadLink" => Len(waitq) > 1
        /\ pc[t] = "unlock" /\ f[t] # NP => Len(waitq) > 1 /\ f[t] = waitq[1]

(* A thread that will try to take the semaphore before it leaves. *)
Looks(t) ==
    \/ Joining(t)
    \/ pc[t] \in {"tryLock", "relock"}
    \/ /\ pc[t] = "retest"
       /\ IF f[t] = NP THEN fptr # NP ELSE f[t] = waitq[1] /\ link[f[t]] # NP

Attended == bptr.bit = 1 /\ Len(waitq) > 0 => \E t \in Threads : Looks(t)

(* The inductive invariant for the waiters. *)
WInv == IInv /\ Linked /\ Behind /\ Attended

(* A free semaphore with a waiting process is somebody's business: some     *)
(* thread is still inside sem_claim or sem_dequeue and will look again.     *)
(* When every thread has left, no process is stranded on the queue.         *)
NoStrandedWaiter ==
    (\A t \in Threads : At(t, "idle")) /\ bptr.bit = 1 => waitq = <<>>

(* The semaphore implements the FIFO semaphore of the abstract module: the  *)
(* fast path never overtakes a waiter and a grant goes to the oldest one.   *)
Owner == IF \E p \in Claimants : Owns(p) THEN CHOOSE p \in Claimants : Owns(p) ELSE NP

Abstract == INSTANCE FifoSemaphore WITH
                Procs <- Claimants, NoProc <- NP, owner <- Owner, queue <- waitq

IsFifoSemaphore == Abstract!Spec

(* Every process whose claim has been queued is eventually granted the      *)
(* semaphore, whatever the interleaving of claimers, releasers and partial  *)
(* enqueues.                                                                *)
EveryWaiterServed == \A p \in Claimants : status[p] = "waiting" ~> Owns(p)
=============================================================================
