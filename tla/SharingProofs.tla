--------------------------- MODULE SharingProofs ---------------------------
(***************************************************************************)
(* Proofs about what processes share.                                      *)
(*                                                                         *)
(* A shared channel end is claimed and released through a semaphore, which *)
(* is a lock and serves its claimants in order, for every set of threads   *)
(* and processes.  IInv is inductive.  Ownership is a single token, held   *)
(* by a process or by a thread inside sem_dequeue, and bit 0 of bptr is    *)
(* set when nobody holds it (OneOwner, BitTellsOwner).  That sem_dequeue   *)
(* hands the token to a process that is really waiting needs the shape of  *)
(* the queue (Queue, Fronts) and of the enqueues in progress (Joins).      *)
(*                                                                         *)
(* The bundle of channels itself, like a fork barrier and the end of a     *)
(* PAR, is counted: the counts are exact in every reachable state, so that *)
(* nothing is freed while it is referred to and whoever sleeps has         *)
(* somebody to wake him.  Each action is first reduced to its effect on    *)
(* single blocks, variables and processes (Cloned, Moved, GivenUp, Waits,  *)
(* Finishes, Ends); the part of the invariant it can disturb then follows  *)
(* from what one action does to three sets: Holders and Elements of a      *)
(* block, Forked of a barrier, Branches of a PAR.                          *)
(***************************************************************************)
EXTENDS Semaphore, MobileTypes, FiniteSetTheorems, TLAPS

-----------------------------------------------------------------------------
(* Semaphore *)

(* sem_init establishes the invariant. *)
LEMMA InitIInv == SemInit => IInv
BY NPAssumption
   DEF SemInit, IInv, SemTypeOK, OneOwner, MutualExclusion, BitTellsOwner, Bookkeeping,
       Queue, Fronts, Joins, Owns, Locked, Entering, Joining, Releasing, HasFront,
       Ptr, Word, W, NoWord, PCs, Statuses

(* Words are made and updated within their type. *)
LEMMA WordType ==
    /\ \A p \in Ptr, i \in {0, 1} : W(p, i) \in Word
    /\ \A w \in Word, i \in {0, 1} : [w EXCEPT !.bit = i] \in Word
    /\ NoWord \in Word
    /\ \A w \in Word : w.ptr \in Ptr /\ w.bit \in {0, 1}
BY DEF Word, W, NoWord, Ptr

(* Every step keeps the variables in their types. *)
LEMMA TypeStep == IInv /\ [SemNext]_semVars => SemTypeOK'
<1> SUFFICES ASSUME IInv, [SemNext]_semVars PROVE SemTypeOK'
  OBVIOUS
<1>a. SemTypeOK /\ NP \in Ptr /\ Claimants \subseteq Ptr
  BY DEF IInv, Ptr
<1>b. \A t \in Threads :
        /\ Entering(t) \/ Joining(t) => me[t] \in Claimants
        /\ HasFront(t) \/ pc[t] = "grant" => f[t] \in Claimants
  BY DEF IInv, SemTypeOK, Bookkeeping, Fronts, Ptr
<1> USE <1>a, <1>b, WordType DEF SemTypeOK, PCs, Statuses, Goto, At, Becomes, Forget, Return,
        shared, locals, Entering, Joining, HasFront
<1>1. CASE UNCHANGED semVars
  BY <1>1 DEF semVars
<1>2. ASSUME NEW t \in Threads, Step(t) PROVE SemTypeOK'
  <2>1. CASE ClaimCas(t) BY <2>1 DEF ClaimCas
  <2>2. CASE ClaimCasFails(t) BY <2>2 DEF ClaimCasFails
  <2>3. CASE Reread(t) BY <2>3 DEF Reread
  <2>4. CASE ClearLink(t) BY <2>4 DEF ClearLink
  <2>5. CASE Publish(t) BY <2>5 DEF Publish
  <2>6. CASE PublishFails(t) BY <2>6 DEF PublishFails
  <2>7. CASE Join(t) BY <2>7 DEF Join
  <2>8. CASE TryLock(t) BY <2>8 DEF TryLock
  <2>9. CASE LoadFront(t) BY <2>9 DEF LoadFront
  <2>10. CASE LoadBack(t) BY <2>10 DEF LoadBack
  <2>11. CASE LoadLink(t) BY <2>11 DEF LoadLink
  <2>12. CASE TakeFirst(t) BY <2>12 DEF TakeFirst, Dequeued
  <2>13. CASE ClearFront(t) BY <2>13 DEF ClearFront
  <2>14. CASE TakeLast(t) BY <2>14 DEF TakeLast, Dequeued
  <2>15. CASE TakeLastFails(t) BY <2>15 DEF TakeLastFails
  <2>16. CASE UndoFront(t) BY <2>16 DEF UndoFront
  <2>17. CASE Unlock(t) BY <2>17 DEF Unlock
  <2>18. CASE Retest(t) BY <2>18 DEF Retest
  <2>19. CASE RetestFails(t) BY <2>19 DEF RetestFails
  <2>20. CASE Relock(t) BY <2>20 DEF Relock
  <2>21. CASE RelockFails(t) BY <2>21 DEF RelockFails
  <2>22. CASE Grant(t) BY <2>22 DEF Grant
  <2>23. CASE ReleaseCas(t) BY <2>23 DEF ReleaseCas
  <2>24. CASE ReleaseCasFails(t) BY <2>24 DEF ReleaseCasFails
  <2> QED
    BY <1>2, <2>1, <2>2, <2>3, <2>4, <2>5, <2>6, <2>7, <2>8, <2>9, <2>10, <2>11, <2>12,
       <2>13, <2>14, <2>15, <2>16, <2>17, <2>18, <2>19, <2>20, <2>21, <2>22, <2>23, <2>24
       DEF Step, Claiming, Dequeuing
<1>3. ASSUME NEW t \in Threads, NEW p \in Claimants, BeginClaim(t, p) PROVE SemTypeOK'
  BY <1>3 DEF BeginClaim
<1>4. ASSUME NEW t \in Threads, NEW p \in Claimants, BeginRelease(t, p) PROVE SemTypeOK'
  BY <1>4 DEF BeginRelease
<1> QED
  BY <1>1, <1>2, <1>3, <1>4 DEF SemNext

(* No step makes a second owner. *)
LEMMA OneOwnerStep == IInv /\ [SemNext]_semVars => OneOwner'
<1> SUFFICES ASSUME IInv, [SemNext]_semVars PROVE OneOwner'
  OBVIOUS
<1> USE NPAssumption DEF IInv, SemTypeOK, OneOwner, MutualExclusion, BitTellsOwner, Bookkeeping,
        Owns, Locked, Entering, Joining, Releasing, HasFront, Ptr, Word, W, NoWord, Goto, At,
        Becomes, Forget, Return, shared, locals
<1>1. CASE UNCHANGED semVars
  BY <1>1 DEF semVars
<1>2. ASSUME NEW t \in Threads, Step(t) PROVE OneOwner'
  <2>1. CASE ClaimCas(t) BY <2>1 DEF ClaimCas
  <2>2. CASE ClaimCasFails(t) BY <2>2 DEF ClaimCasFails
  <2>3. CASE Reread(t) BY <2>3 DEF Reread
  <2>4. CASE ClearLink(t) BY <2>4 DEF ClearLink
  <2>5. CASE Publish(t) BY <2>5 DEF Publish
  <2>6. CASE PublishFails(t) BY <2>6 DEF PublishFails
  <2>7. CASE Join(t) BY <2>7 DEF Join
  <2>8. CASE TryLock(t) BY <2>8 DEF TryLock
  <2>9. CASE LoadFront(t) BY <2>9 DEF LoadFront
  <2>10. CASE LoadBack(t) BY <2>10 DEF LoadBack
  <2>11. CASE LoadLink(t) BY <2>11 DEF LoadLink
  <2>12. CASE TakeFirst(t) BY <2>12 DEF TakeFirst, Dequeued
  <2>13. CASE ClearFront(t) BY <2>13 DEF ClearFront
  <2>14. CASE TakeLast(t) BY <2>14 DEF TakeLast, Dequeued
  <2>15. CASE TakeLastFails(t) BY <2>15 DEF TakeLastFails
  <2>16. CASE UndoFront(t) BY <2>16 DEF UndoFront
  <2>17. CASE Unlock(t) BY <2>17 DEF Unlock
  <2>18. CASE Retest(t) BY <2>18 DEF Retest
  <2>19. CASE RetestFails(t) BY <2>19 DEF RetestFails
  <2>20. CASE Relock(t) BY <2>20 DEF Relock
  <2>21. CASE RelockFails(t) BY <2>21 DEF RelockFails
  <2>22. CASE Grant(t) BY <2>22 DEF Grant
  <2>23. CASE ReleaseCas(t) BY <2>23 DEF ReleaseCas
  <2>24. CASE ReleaseCasFails(t) BY <2>24 DEF ReleaseCasFails
  <2> QED
    BY <1>2, <2>1, <2>2, <2>3, <2>4, <2>5, <2>6, <2>7, <2>8, <2>9, <2>10, <2>11, <2>12,
       <2>13, <2>14, <2>15, <2>16, <2>17, <2>18, <2>19, <2>20, <2>21, <2>22, <2>23, <2>24
       DEF Step, Claiming, Dequeuing
<1>3. ASSUME NEW t \in Threads, NEW p \in Claimants, BeginClaim(t, p) PROVE OneOwner'
  BY <1>3 DEF BeginClaim
<1>4. ASSUME NEW t \in Threads, NEW p \in Claimants, BeginRelease(t, p) PROVE OneOwner'
  BY <1>4 DEF BeginRelease
<1> QED
  BY <1>1, <1>2, <1>3, <1>4 DEF SemNext

(* Bit 0 of bptr follows the owner. *)
LEMMA BitStep == IInv /\ [SemNext]_semVars => BitTellsOwner'
<1> SUFFICES ASSUME IInv, [SemNext]_semVars PROVE BitTellsOwner'
  OBVIOUS
<1>a. \A t \in Threads : HasFront(t) => f[t] \in Claimants /\ status[f[t]] = "waiting"
  BY DEF IInv, SemTypeOK, Queue, Fronts
<1> USE NPAssumption DEF IInv, SemTypeOK, OneOwner, MutualExclusion, BitTellsOwner, Bookkeeping,
        Owns, Locked, Entering, Joining, Releasing, HasFront, Ptr, Word, W, NoWord, Goto, At,
        Becomes, Forget, Return, shared, locals
<1>1. CASE UNCHANGED semVars
  BY <1>1 DEF semVars
<1>2. ASSUME NEW t \in Threads, Step(t) PROVE BitTellsOwner'
  <2>1. CASE ClaimCas(t) BY <2>1 DEF ClaimCas
  <2>2. CASE ClaimCasFails(t) BY <2>2 DEF ClaimCasFails
  <2>3. CASE Reread(t) BY <2>3 DEF Reread
  <2>4. CASE ClearLink(t) BY <2>4 DEF ClearLink
  <2>5. CASE Publish(t) BY <2>5 DEF Publish
  <2>6. CASE PublishFails(t) BY <2>6 DEF PublishFails
  <2>7. CASE Join(t) BY <2>7 DEF Join
  <2>8. CASE TryLock(t) BY <2>8 DEF TryLock
  <2>9. CASE LoadFront(t) BY <2>9 DEF LoadFront
  <2>10. CASE LoadBack(t) BY <2>10 DEF LoadBack
  <2>11. CASE LoadLink(t) BY <2>11 DEF LoadLink
  <2>12. CASE TakeFirst(t)
    <3>1. f[t] \in Claimants BY <1>a, <2>12 DEF TakeFirst
    <3>2. \E p \in Claimants : Owns(p)' BY <3>1, <2>12 DEF TakeFirst, Dequeued
    <3>3. bptr'.bit = 0 BY <2>12 DEF TakeFirst
    <3> QED BY ONLY <3>2, <3>3 DEF BitTellsOwner
  <2>13. CASE ClearFront(t) BY <2>13 DEF ClearFront
  <2>14. CASE TakeLast(t)
    <3>1. f[t] \in Claimants BY <1>a, <2>14 DEF TakeLast
    <3>2. \E p \in Claimants : Owns(p)' BY <3>1, <2>14 DEF TakeLast, Dequeued
    <3>3. bptr'.bit = 0 BY <2>14 DEF TakeLast
    <3> QED BY ONLY <3>2, <3>3 DEF BitTellsOwner
  <2>15. CASE TakeLastFails(t) BY <2>15 DEF TakeLastFails
  <2>16. CASE UndoFront(t) BY <2>16 DEF UndoFront
  <2>17. CASE Unlock(t) BY <2>17 DEF Unlock
  <2>18. CASE Retest(t) BY <2>18 DEF Retest
  <2>19. CASE RetestFails(t)
    <3>0. /\ status' = [p \in Claimants |-> IF p = me[t] THEN "out" ELSE status[p]]
          /\ me[t] \in Claimants => status[me[t]] = "releasing"
      BY <2>19 DEF RetestFails
    <3>1. \A p \in Claimants : Owns(p)' <=> Owns(p) BY ONLY <3>0, SemTypeOK DEF Owns, SemTypeOK
    <3>2. \A u \in Threads : Locked(u)' <=> Locked(u) BY <2>19 DEF RetestFails
    <3>3. bptr' = bptr BY <2>19 DEF RetestFails
    <3> QED BY ONLY <3>1, <3>2, <3>3, IInv DEF IInv, BitTellsOwner
  <2>20. CASE Relock(t) BY <2>20 DEF Relock
  <2>21. CASE RelockFails(t)
    <3>0. /\ status' = [p \in Claimants |-> IF p = me[t] THEN "out" ELSE status[p]]
          /\ me[t] \in Claimants => status[me[t]] = "releasing"
      BY <2>21 DEF RelockFails
    <3>1. \A p \in Claimants : Owns(p)' <=> Owns(p) BY ONLY <3>0, SemTypeOK DEF Owns, SemTypeOK
    <3>2. \A u \in Threads : Locked(u)' <=> Locked(u) BY <2>21 DEF RelockFails
    <3>3. bptr' = bptr BY <2>21 DEF RelockFails
    <3> QED BY ONLY <3>1, <3>2, <3>3, IInv DEF IInv, BitTellsOwner
  <2>22. CASE Grant(t) BY <2>22 DEF Grant
  <2>23. CASE ReleaseCas(t) BY <2>23 DEF ReleaseCas
  <2>24. CASE ReleaseCasFails(t) BY <2>24 DEF ReleaseCasFails
  <2> QED
    BY <1>2, <2>1, <2>2, <2>3, <2>4, <2>5, <2>6, <2>7, <2>8, <2>9, <2>10, <2>11, <2>12,
       <2>13, <2>14, <2>15, <2>16, <2>17, <2>18, <2>19, <2>20, <2>21, <2>22, <2>23, <2>24
       DEF Step, Claiming, Dequeuing
<1>3. ASSUME NEW t \in Threads, NEW p \in Claimants, BeginClaim(t, p) PROVE BitTellsOwner'
  BY <1>3 DEF BeginClaim
<1>4. ASSUME NEW t \in Threads, NEW p \in Claimants, BeginRelease(t, p) PROVE BitTellsOwner'
  BY <1>4 DEF BeginRelease
<1> QED
  BY <1>1, <1>2, <1>3, <1>4 DEF SemNext

(* No step disturbs another thread's process. *)
LEMMA BookkeepingStep == IInv /\ [SemNext]_semVars => Bookkeeping'
<1> SUFFICES ASSUME IInv, [SemNext]_semVars PROVE Bookkeeping'
  OBVIOUS
<1>a. \A t \in Threads : HasFront(t) => f[t] \in Claimants /\ status[f[t]] = "waiting"
  BY DEF IInv, SemTypeOK, Queue, Fronts
<1> USE <1>a
<1> USE NPAssumption DEF IInv, SemTypeOK, OneOwner, MutualExclusion, BitTellsOwner, Bookkeeping,
        Owns, Locked, Entering, Joining, Releasing, HasFront, Ptr, Word, W, NoWord, Goto, At,
        Becomes, Forget, Return, shared, locals
<1>1. CASE UNCHANGED semVars
  BY <1>1 DEF semVars
<1>2. ASSUME NEW t \in Threads, Step(t) PROVE Bookkeeping'
  <2>1. CASE ClaimCas(t) BY <2>1 DEF ClaimCas
  <2>2. CASE ClaimCasFails(t) BY <2>2 DEF ClaimCasFails
  <2>3. CASE Reread(t) BY <2>3 DEF Reread
  <2>4. CASE ClearLink(t) BY <2>4 DEF ClearLink
  <2>5. CASE Publish(t) BY <2>5 DEF Publish
  <2>6. CASE PublishFails(t) BY <2>6 DEF PublishFails
  <2>7. CASE Join(t)
    <3>1. val[t].ptr # NP => val[t].ptr \in Claimants /\ status[val[t].ptr] = "waiting"
      BY <2>7 DEF Join, Joins, Queue
    <3>2. \A u \in Threads : pc[u] = "publish" => link'[me[u]] = link[me[u]]
      BY <3>1, <2>7 DEF Join
    <3> QED BY <3>2, <2>7 DEF Join
  <2>8. CASE TryLock(t) BY <2>8 DEF TryLock
  <2>9. CASE LoadFront(t) BY <2>9 DEF LoadFront
  <2>10. CASE LoadBack(t) BY <2>10 DEF LoadBack
  <2>11. CASE LoadLink(t) BY <2>11 DEF LoadLink
  <2>12. CASE TakeFirst(t) BY <2>12 DEF TakeFirst, Dequeued
  <2>13. CASE ClearFront(t) BY <2>13 DEF ClearFront
  <2>14. CASE TakeLast(t) BY <2>14 DEF TakeLast, Dequeued
  <2>15. CASE TakeLastFails(t) BY <2>15 DEF TakeLastFails
  <2>16. CASE UndoFront(t) BY <2>16 DEF UndoFront
  <2>17. CASE Unlock(t) BY <2>17 DEF Unlock
  <2>18. CASE Retest(t) BY <2>18 DEF Retest
  <2>19. CASE RetestFails(t) BY <2>19 DEF RetestFails
  <2>20. CASE Relock(t) BY <2>20 DEF Relock
  <2>21. CASE RelockFails(t) BY <2>21 DEF RelockFails
  <2>22. CASE Grant(t) BY <2>22 DEF Grant
  <2>23. CASE ReleaseCas(t) BY <2>23 DEF ReleaseCas
  <2>24. CASE ReleaseCasFails(t) BY <2>24 DEF ReleaseCasFails
  <2> QED
    BY <1>2, <2>1, <2>2, <2>3, <2>4, <2>5, <2>6, <2>7, <2>8, <2>9, <2>10, <2>11, <2>12,
       <2>13, <2>14, <2>15, <2>16, <2>17, <2>18, <2>19, <2>20, <2>21, <2>22, <2>23, <2>24
       DEF Step, Claiming, Dequeuing
<1>3. ASSUME NEW t \in Threads, NEW p \in Claimants, BeginClaim(t, p) PROVE Bookkeeping'
  BY <1>3 DEF BeginClaim
<1>4. ASSUME NEW t \in Threads, NEW p \in Claimants, BeginRelease(t, p) PROVE Bookkeeping'
  BY <1>4 DEF BeginRelease
<1> QED
  BY <1>1, <1>2, <1>3, <1>4 DEF SemNext

(* Incomplete enqueues are undisturbed by a step that leaves the queue and  *)
(* the words they wait to write alone.                                      *)
LEMMA JoinsFrame ==
    ASSUME Joins, UNCHANGED <<waitq, fptr>>,
           \A u \in Threads : Joining(u)' =>
               /\ Joining(u) /\ val'[u] = val[u] /\ me'[u] = me[u]
               /\ \A i \in 1..(Len(waitq) - 1) :
                     val[u].ptr = waitq[i] => link'[waitq[i]] = link[waitq[i]],
           \A u \in Threads : HasFront(u)' => HasFront(u)
    PROVE  Joins'
<1>1. ASSUME NEW u \in Threads, Joining(u)'
      PROVE  \/ /\ val'[u].ptr = NP /\ fptr' = NP
                /\ Len(waitq') > 0 /\ me'[u] = waitq'[1]
                /\ \A v \in Threads : ~HasFront(v)'
             \/ /\ val'[u].ptr # NP
                /\ \E i \in 1..(Len(waitq') - 1) :
                     /\ val'[u].ptr = waitq'[i] /\ me'[u] = waitq'[i + 1]
                     /\ link'[waitq'[i]] = NP
  <2>1. CASE val[u].ptr = NP BY <1>1, <2>1 DEF Joins
  <2>2. CASE val[u].ptr # NP BY <1>1, <2>2 DEF Joins
  <2> QED BY <2>1, <2>2
<1>2. \A u, v \in Threads : Joining(u)' /\ Joining(v)' /\ me'[u] = me'[v] => u = v
  BY DEF Joins
<1> QED BY <1>1, <1>2 DEF Joins

(* A thread that is about to leave sem_dequeue acts for a releasing process *)
(* or, after its claim, for none.                                           *)
LEMMA LeavingActsFor ==
    ASSUME Bookkeeping, NEW t \in Threads, pc[t] \in {"retest", "relock", "grant"}
    PROVE  me[t] = NP \/ status[me[t]] = "releasing"
BY DEF Bookkeeping, Releasing, Entering, Joining

(* The queue is undisturbed by a step that leaves its words alone. *)
LEMMA QueueFrame ==
    ASSUME Queue, UNCHANGED <<waitq, fptr>>, bptr'.ptr = bptr.ptr, waitq \in Seq(Claimants),
           \A i \in 1..Len(waitq) : /\ link'[waitq[i]] = link[waitq[i]]
                                    /\ status'[waitq[i]] = status[waitq[i]]
    PROVE  Queue'
<1>1. Len(waitq) \in Nat
  OBVIOUS
<1>2. \A i, j \in 1..Len(waitq') : waitq'[i] = waitq'[j] => i = j
  BY DEF Queue
<1>3. \A i \in 1..Len(waitq') : status'[waitq'[i]] = "waiting"
  BY DEF Queue
<1>4. /\ bptr'.ptr = IF Len(waitq') = 0 THEN NP ELSE waitq'[Len(waitq')]
      /\ fptr' # NP => Len(waitq') > 0 /\ fptr' = waitq'[1]
  BY DEF Queue
<1>5. Len(waitq') > 0 => link'[waitq'[Len(waitq')]] = NP
  BY <1>1 DEF Queue
<1>6. \A i \in 1..(Len(waitq') - 1) : link'[waitq'[i]] \in {NP, waitq'[i + 1]}
  BY <1>1 DEF Queue
<1> QED BY <1>2, <1>3, <1>4, <1>5, <1>6 DEF Queue

(* The chain of Link words stays the queue. *)
LEMMA QueueStep == IInv /\ [SemNext]_semVars => Queue'
<1> SUFFICES ASSUME IInv, [SemNext]_semVars PROVE Queue'
  OBVIOUS
<1> USE NPAssumption DEF IInv, SemTypeOK, Bookkeeping, Queue, Fronts, Joins, Entering, Joining,
        Releasing, HasFront, Ptr, Word, W, NoWord, Goto, At, Becomes, Forget, Return,
        shared, locals
<1>1. CASE UNCHANGED semVars
  BY <1>1 DEF semVars
<1>2. ASSUME NEW t \in Threads, Step(t) PROVE Queue'
  <2>1. CASE ClaimCas(t) BY <2>1 DEF ClaimCas
  <2>2. CASE ClaimCasFails(t) BY <2>2 DEF ClaimCasFails
  <2>3. CASE Reread(t) BY <2>3 DEF Reread
  <2>4. CASE ClearLink(t) BY <2>4 DEF ClearLink
  <2>5. CASE Publish(t) BY <2>5 DEF Publish
  <2>6. CASE PublishFails(t) BY <2>6 DEF PublishFails
  <2>7. CASE Join(t)
    <3>1. CASE val[t].ptr = NP
      <4>1. fptr' = waitq[1] /\ Len(waitq) > 0 /\ UNCHANGED <<link, bptr, status, waitq>>
        BY <3>1, <2>7 DEF Join
      <4> QED BY <4>1
    <3>2. CASE val[t].ptr # NP
      <4>1. PICK i \in 1..(Len(waitq) - 1) : val[t].ptr = waitq[i] /\ me[t] = waitq[i + 1]
        BY <3>2, <2>7 DEF Join
      <4>2. /\ link' = [link EXCEPT ![waitq[i]] = waitq[i + 1]]
            /\ UNCHANGED <<fptr, bptr, status, waitq>>
        BY <3>2, <4>1, <2>7 DEF Join
      <4>3. /\ Len(waitq) \in Nat /\ waitq[i] \in Claimants
            /\ \A k \in 1..Len(waitq) : waitq[k] \in Claimants
            /\ \A k \in 1..Len(waitq) : k # i => waitq[k] # waitq[i]
            /\ link \in [Claimants -> Ptr]
        BY <4>1
      <4>4. \A k \in 1..Len(waitq) :
              link'[waitq[k]] = IF k = i THEN waitq[i + 1] ELSE link[waitq[k]]
        BY ONLY <4>2, <4>3
      <4>5. Len(waitq) > 0 /\ Len(waitq) # i
        BY ONLY <4>1, <4>3
      <4>6. Len(waitq') > 0 => link'[waitq'[Len(waitq')]] = NP
        BY <4>2, <4>3, <4>4, <4>5
      <4>7. \A k \in 1..(Len(waitq') - 1) : link'[waitq'[k]] \in {NP, waitq'[k + 1]}
        BY <4>2, <4>3, <4>4
      <4> HIDE DEF SemTypeOK, Bookkeeping, Fronts, Joins, IInv
      <4>8. Queue BY DEF IInv
      <4> QED BY ONLY <4>2, <4>6, <4>7, <4>8
    <3> QED BY <3>1, <3>2
  <2>8. CASE TryLock(t) BY <2>8 DEF TryLock
  <2>9. CASE LoadFront(t) BY <2>9 DEF LoadFront
  <2>10. CASE LoadBack(t) BY <2>10 DEF LoadBack
  <2>11. CASE LoadLink(t) BY <2>11 DEF LoadLink
  <2>12. CASE TakeFirst(t) BY <2>12 DEF TakeFirst, Dequeued
  <2>13. CASE ClearFront(t) BY <2>13 DEF ClearFront
  <2>14. CASE TakeLast(t)
    <3>a. /\ bptr.ptr = f[t] /\ f[t] = waitq[1] /\ Len(waitq) > 0 /\ Len(waitq) \in Nat
          /\ bptr.ptr = waitq[Len(waitq)]
          /\ \A i, j \in 1..Len(waitq) : waitq[i] = waitq[j] => i = j
      BY <2>14 DEF TakeLast
    <3>b. 1 \in 1..Len(waitq) /\ Len(waitq) \in 1..Len(waitq)
      BY ONLY <3>a
    <3>1. Len(waitq) = 1 BY ONLY <3>a, <3>b
    <3>2. waitq' = <<>> BY <3>1, <2>14 DEF TakeLast, Dequeued
    <3>3. fptr' = NP /\ bptr'.ptr = NP BY <2>14 DEF TakeLast
    <3> QED BY <3>2, <3>3
  <2>15. CASE TakeLastFails(t) BY <2>15 DEF TakeLastFails
  <2>16. CASE UndoFront(t) BY <2>16 DEF UndoFront
  <2>17. CASE Unlock(t) BY <2>17 DEF Unlock
  <2>18. CASE Retest(t) BY <2>18 DEF Retest
  <2>19. CASE RetestFails(t)
    <3> HIDE DEF Queue, Fronts, Joins
    <3>1. UNCHANGED <<link, fptr, bptr, waitq>> /\ waitq \in Seq(Claimants)
      BY <2>19 DEF RetestFails
    <3>m. me[t] = NP \/ status[me[t]] = "releasing"
      BY <2>19, LeavingActsFor DEF RetestFails
    <3> HIDE DEF Bookkeeping
    <3>2. \A p \in Claimants : status[p] = "waiting" => status'[p] = "waiting"
      BY <2>19, <3>m DEF RetestFails
    <3>3. \A i \in 1..Len(waitq) : waitq[i] \in Claimants /\ status[waitq[i]] = "waiting"
      BY <3>1 DEF Queue
    <3> QED BY <3>1, <3>2, <3>3, QueueFrame
  <2>20. CASE Relock(t) BY <2>20 DEF Relock
  <2>21. CASE RelockFails(t)
    <3> HIDE DEF Queue, Fronts, Joins
    <3>1. UNCHANGED <<link, fptr, bptr, waitq>> /\ waitq \in Seq(Claimants)
      BY <2>21 DEF RelockFails
    <3>m. me[t] = NP \/ status[me[t]] = "releasing"
      BY <2>21, LeavingActsFor DEF RelockFails
    <3> HIDE DEF Bookkeeping
    <3>2. \A p \in Claimants : status[p] = "waiting" => status'[p] = "waiting"
      BY <2>21, <3>m DEF RelockFails
    <3>3. \A i \in 1..Len(waitq) : waitq[i] \in Claimants /\ status[waitq[i]] = "waiting"
      BY <3>1 DEF Queue
    <3> QED BY <3>1, <3>2, <3>3, QueueFrame
  <2>22. CASE Grant(t)
    <3> HIDE DEF Queue, Fronts, Joins
    <3>1. waitq \in Seq(Claimants) /\ UNCHANGED <<fptr, bptr, waitq>>
      BY <2>22 DEF Grant
    <3>2. /\ \A i \in 1..Len(waitq) : waitq[i] \in Claimants /\ status[waitq[i]] = "waiting"
          /\ me[t] = NP \/ status[me[t]] = "releasing"
          /\ f[t] # NP /\ status[f[t]] = "granted"
      BY <2>22, <3>1, LeavingActsFor DEF Grant, Queue
    <3> HIDE DEF Bookkeeping
    <3>3. \A i \in 1..Len(waitq) : waitq[i] # f[t] /\ waitq[i] # me[t]
      BY <3>2
    <3>4. \A i \in 1..Len(waitq) : /\ link'[waitq[i]] = link[waitq[i]]
                                   /\ status'[waitq[i]] = status[waitq[i]]
      BY <3>2, <3>3, <2>22 DEF Grant
    <3> QED BY <3>1, <3>4, QueueFrame
  <2>23. CASE ReleaseCas(t) BY <2>23 DEF ReleaseCas
  <2>24. CASE ReleaseCasFails(t) BY <2>24 DEF ReleaseCasFails
  <2> QED
    BY <1>2, <2>1, <2>2, <2>3, <2>4, <2>5, <2>6, <2>7, <2>8, <2>9, <2>10, <2>11, <2>12,
       <2>13, <2>14, <2>15, <2>16, <2>17, <2>18, <2>19, <2>20, <2>21, <2>22, <2>23, <2>24
       DEF Step, Claiming, Dequeuing
<1>3. ASSUME NEW t \in Threads, NEW p \in Claimants, BeginClaim(t, p) PROVE Queue'
  BY <1>3 DEF BeginClaim
<1>4. ASSUME NEW t \in Threads, NEW p \in Claimants, BeginRelease(t, p) PROVE Queue'
  BY <1>4 DEF BeginRelease
<1> QED
  BY <1>1, <1>2, <1>3, <1>4 DEF SemNext

(* A dequeuing thread's front stays the oldest waiter. *)
LEMMA FrontsStep == IInv /\ [SemNext]_semVars => Fronts'
<1> SUFFICES ASSUME IInv, [SemNext]_semVars PROVE Fronts'
  OBVIOUS
<1> USE NPAssumption DEF IInv, SemTypeOK, Bookkeeping, Queue, Fronts, Joins, Entering, Joining,
        Releasing, HasFront, Ptr, Word, W, NoWord, Goto, At, Becomes, Forget, Return,
        shared, locals
<1>1. CASE UNCHANGED semVars
  BY <1>1 DEF semVars
<1>2. ASSUME NEW t \in Threads, Step(t) PROVE Fronts'
  <2>1. CASE ClaimCas(t) BY <2>1 DEF ClaimCas
  <2>2. CASE ClaimCasFails(t) BY <2>2 DEF ClaimCasFails
  <2>3. CASE Reread(t) BY <2>3 DEF Reread
  <2>4. CASE ClearLink(t) BY <2>4 DEF ClearLink
  <2>5. CASE Publish(t) BY <2>5 DEF Publish
  <2>6. CASE PublishFails(t) BY <2>6 DEF PublishFails
  <2>7. CASE Join(t)
    <3>1. CASE val[t].ptr = NP BY <3>1, <2>7 DEF Join
    <3>2. CASE val[t].ptr # NP
      <4>1. link[val[t].ptr] = NP BY <3>2, <2>7 DEF Join
      <4>2. \A u \in Threads : pc[u] = "takeFirst" => link'[waitq[1]] = waitq[2]
        BY <4>1, <3>2, <2>7 DEF Join
      <4> QED BY <4>2, <3>2, <2>7 DEF Join
    <3> QED BY <3>1, <3>2
  <2>8. CASE TryLock(t) BY <2>8 DEF TryLock
  <2>9. CASE LoadFront(t) BY <2>9 DEF LoadFront
  <2>10. CASE LoadBack(t) BY <2>10 DEF LoadBack
  <2>11. CASE LoadLink(t) BY <2>11 DEF LoadLink
  <2>12. CASE TakeFirst(t)
    <3>1. \A u \in Threads : u # t => ~HasFront(u)
      BY <2>12 DEF TakeFirst, OneOwner, Locked
    <3> QED BY <3>1, <2>12 DEF TakeFirst, Dequeued
  <2>13. CASE ClearFront(t) BY <2>13 DEF ClearFront
  <2>14. CASE TakeLast(t)
    <3>1. \A u \in Threads : u # t => ~HasFront(u)
      BY <2>14 DEF TakeLast, OneOwner, Locked
    <3> QED BY <3>1, <2>14 DEF TakeLast, Dequeued
  <2>15. CASE TakeLastFails(t) BY <2>15 DEF TakeLastFails
  <2>16. CASE UndoFront(t)
    <3>1. \A u \in Threads : u # t => ~HasFront(u)
      BY <2>16 DEF UndoFront, OneOwner, Locked
    <3> QED BY <3>1, <2>16 DEF UndoFront
  <2>17. CASE Unlock(t) BY <2>17 DEF Unlock
  <2>18. CASE Retest(t) BY <2>18 DEF Retest
  <2>19. CASE RetestFails(t) BY <2>19 DEF RetestFails
  <2>20. CASE Relock(t) BY <2>20 DEF Relock
  <2>21. CASE RelockFails(t) BY <2>21 DEF RelockFails
  <2>22. CASE Grant(t) BY <2>22 DEF Grant
  <2>23. CASE ReleaseCas(t) BY <2>23 DEF ReleaseCas
  <2>24. CASE ReleaseCasFails(t) BY <2>24 DEF ReleaseCasFails
  <2> QED
    BY <1>2, <2>1, <2>2, <2>3, <2>4, <2>5, <2>6, <2>7, <2>8, <2>9, <2>10, <2>11, <2>12,
       <2>13, <2>14, <2>15, <2>16, <2>17, <2>18, <2>19, <2>20, <2>21, <2>22, <2>23, <2>24
       DEF Step, Claiming, Dequeuing
<1>3. ASSUME NEW t \in Threads, NEW p \in Claimants, BeginClaim(t, p) PROVE Fronts'
  BY <1>3 DEF BeginClaim
<1>4. ASSUME NEW t \in Threads, NEW p \in Claimants, BeginRelease(t, p) PROVE Fronts'
  BY <1>4 DEF BeginRelease
<1> QED
  BY <1>1, <1>2, <1>3, <1>4 DEF SemNext

(* An incomplete enqueue keeps its place in the queue. *)
LEMMA JoinsStep == IInv /\ [SemNext]_semVars => Joins'
<1> SUFFICES ASSUME IInv, [SemNext]_semVars PROVE Joins'
  OBVIOUS
<1> USE NPAssumption DEF IInv, SemTypeOK, Bookkeeping, Queue, Fronts, Joins, Entering, Joining,
        Releasing, HasFront, Ptr, Word, W, NoWord, Goto, At, Becomes, Forget, Return,
        shared, locals
<1>1. CASE UNCHANGED semVars
  BY <1>1 DEF semVars
<1>2. ASSUME NEW t \in Threads, Step(t) PROVE Joins'
  <2>1. CASE ClaimCas(t)
    <3>1. /\ Joins /\ UNCHANGED <<waitq, fptr, link>>
          /\ \A u \in Threads : u # t => /\ pc'[u] = pc[u] /\ val'[u] = val[u]
                                        /\ me'[u] = me[u]
          /\ pc'[t] = "idle"
      BY <2>1 DEF ClaimCas
    <3> HIDE DEF SemTypeOK, Bookkeeping, Queue, Fronts, Joins
    <3> QED BY <3>1, JoinsFrame
  <2>2. CASE ClaimCasFails(t) BY <2>2 DEF ClaimCasFails
  <2>3. CASE Reread(t) BY <2>3 DEF Reread
  <2>4. CASE ClearLink(t) BY <2>4 DEF ClearLink
  <2>5. CASE Publish(t)
    <3>1. /\ waitq' \in Seq(Claimants) /\ Len(waitq') = Len(waitq) + 1
          /\ waitq'[Len(waitq) + 1] = me[t]
          /\ \A i \in 1..Len(waitq) : waitq'[i] = waitq[i]
          /\ UNCHANGED <<val, me, link, fptr>>
      BY <2>5 DEF Publish
    <3>2. /\ ~Joining(t)
          /\ \A u \in Threads : Joining(u)' => u = t \/ Joining(u)
          /\ \A u \in Threads : HasFront(u)' => HasFront(u)
      BY <2>5 DEF Publish
    <3>3. \A u \in Threads : Joining(u) => me[u] # me[t]
      <4>1. status[me[t]] = "claiming" /\ me[t] \in Claimants
        BY <2>5 DEF Publish
      <4>2. \A u \in Threads : Joining(u) => \E i \in 1..Len(waitq) : me[u] = waitq[i]
        BY ONLY Joins, SemTypeOK DEF Joins, SemTypeOK
      <4>3. \A i \in 1..Len(waitq) : status[waitq[i]] = "waiting"
        OBVIOUS
      <4> QED BY ONLY <4>1, <4>2, <4>3
    <3>4. val[t].ptr = IF Len(waitq) = 0 THEN NP ELSE waitq[Len(waitq)]
      BY <2>5 DEF Publish
    <3>5. ASSUME NEW u \in Threads, Joining(u)', u # t
          PROVE  \/ /\ val[u].ptr = NP /\ fptr = NP
                    /\ Len(waitq') > 0 /\ me[u] = waitq'[1]
                    /\ \A v \in Threads : ~HasFront(v)'
                 \/ /\ val[u].ptr # NP
                    /\ \E i \in 1..(Len(waitq') - 1) :
                         /\ val[u].ptr = waitq'[i] /\ me[u] = waitq'[i + 1]
                         /\ link[waitq'[i]] = NP
      <4>1. Joining(u)
        BY ONLY <3>2, <3>5
      <4>0. Len(waitq) \in Nat
        BY ONLY SemTypeOK DEF SemTypeOK
      <4> HIDE DEF HasFront, Joining, SemTypeOK, Bookkeeping, Queue, Fronts
      <4>2. CASE val[u].ptr = NP
        <5>1. fptr = NP /\ Len(waitq) > 0 /\ me[u] = waitq[1]
              /\ \A v \in Threads : ~HasFront(v)
          BY <4>1, <4>2
        <5> QED BY ONLY <5>1, <4>0, <4>2, <3>1, <3>2
      <4>3. CASE val[u].ptr # NP
        <5>1. PICK i \in 1..(Len(waitq) - 1) : /\ val[u].ptr = waitq[i]
                                               /\ me[u] = waitq[i + 1]
                                               /\ link[waitq[i]] = NP
          BY <4>1, <4>3
        <5>2. i \in 1..(Len(waitq') - 1) /\ waitq'[i] = waitq[i] /\ waitq'[i + 1] = waitq[i + 1]
          BY ONLY <5>1, <4>0, <3>1
        <5> QED BY ONLY <4>3, <5>1, <5>2
      <4> QED BY <4>2, <4>3
    <3>6. \/ /\ val[t].ptr = NP /\ fptr = NP
             /\ Len(waitq') > 0 /\ me[t] = waitq'[1]
             /\ \A v \in Threads : ~HasFront(v)'
          \/ /\ val[t].ptr # NP
             /\ \E i \in 1..(Len(waitq') - 1) :
                   /\ val[t].ptr = waitq'[i] /\ me[t] = waitq'[i + 1]
                   /\ link[waitq'[i]] = NP
      <4>1. CASE Len(waitq) = 0
        BY <4>1, <3>1, <3>4, <3>2
      <4>2. CASE Len(waitq) # 0
        <5>1. Len(waitq) \in 1..(Len(waitq') - 1) /\ waitq[Len(waitq)] # NP
              /\ link[waitq[Len(waitq)]] = NP
          BY <4>2, <3>1
        <5> QED BY ONLY <4>2, <5>1, <3>1, <3>4
      <4> QED BY <4>1, <4>2
    <3>7. \A u, v \in Threads : Joining(u)' /\ Joining(v)' /\ me[u] = me[v] => u = v
      BY ONLY <3>2, <3>3, Joins DEF Joins
    <3> HIDE DEF HasFront, Joining, SemTypeOK, Bookkeeping, Queue, Fronts
    <3> QED BY <3>1, <3>5, <3>6, <3>7
  <2>6. CASE PublishFails(t) BY <2>6 DEF PublishFails
  <2>7. CASE Join(t)
    <3>1. \A u \in Threads : Joining(u)' => u # t /\ Joining(u)
      BY <2>7 DEF Join
    <3>2. CASE val[t].ptr = NP
      <4>1. Joining(t) /\ me[t] = waitq[1]
        BY <3>2, <2>7 DEF Join
      <4>2. \A u \in Threads : Joining(u)' => val[u].ptr # NP
        <5> HIDE DEF HasFront, Joining, SemTypeOK, Bookkeeping, Queue, Fronts
        <5> QED BY <3>1, <4>1
      <4>3. UNCHANGED <<waitq, link>>
            /\ \A u \in Threads : Joining(u)' => val'[u] = val[u] /\ me'[u] = me[u]
        BY <3>1, <3>2, <2>7 DEF Join
      <4> HIDE DEF HasFront, Joining, SemTypeOK, Bookkeeping, Queue, Fronts
      <4> QED BY <3>1, <4>2, <4>3
    <3>3. CASE val[t].ptr # NP
      <4>1. \A u \in Threads : Joining(u)' => val[u].ptr # val[t].ptr
        BY <3>1, <3>3, <2>7 DEF Join
      <4>2. UNCHANGED <<fptr, waitq>> /\ link' = [link EXCEPT ![val[t].ptr] = me[t]]
            /\ \A u \in Threads : /\ Joining(u)' => val'[u] = val[u] /\ me'[u] = me[u]
                                  /\ HasFront(u)' => HasFront(u)
        BY <3>3, <2>7 DEF Join
      <4>3. \A u \in Threads : Joining(u)' =>
              \A i \in 1..(Len(waitq) - 1) :
                val[u].ptr = waitq[i] => link'[waitq[i]] = link[waitq[i]]
        BY <4>1, <4>2
      <4>4. \A u \in Threads : Joining(u)' =>
              /\ Joining(u) /\ val'[u] = val[u] /\ me'[u] = me[u]
              /\ \A i \in 1..(Len(waitq) - 1) :
                    val[u].ptr = waitq[i] => link'[waitq[i]] = link[waitq[i]]
        BY ONLY <3>1, <4>2, <4>3
      <4> QED BY ONLY IInv, <4>2, <4>4, JoinsFrame DEF IInv
    <3> QED BY <3>2, <3>3
  <2>8. CASE TryLock(t) BY <2>8 DEF TryLock
  <2>9. CASE LoadFront(t) BY <2>9 DEF LoadFront
  <2>10. CASE LoadBack(t) BY <2>10 DEF LoadBack
  <2>11. CASE LoadLink(t) BY <2>11 DEF LoadLink
  <2>12. CASE TakeFirst(t)
    <3>1. Len(waitq) > 1 /\ f[t] = waitq[1] /\ link[waitq[1]] = waitq[2] /\ waitq[2] # NP
      BY <2>12 DEF TakeFirst
    <3>2. waitq' \in Seq(Claimants) /\ Len(waitq') = Len(waitq) - 1
          /\ \A i \in 1..(Len(waitq) - 1) : waitq'[i] = waitq[i + 1]
      BY <3>1, <2>12 DEF TakeFirst, Dequeued
    <3>3. ASSUME NEW u \in Threads, Joining(u)'
          PROVE /\ val'[u].ptr # NP
                /\ \E i \in 1..(Len(waitq') - 1) :
                     /\ val'[u].ptr = waitq'[i] /\ me'[u] = waitq'[i + 1]
                     /\ link'[waitq'[i]] = NP
      <4>1. Joining(u) /\ UNCHANGED <<val, me, link>>
        BY <3>3, <2>12 DEF TakeFirst, Dequeued
      <4>2. val[u].ptr # NP
        BY <4>1, <2>12 DEF TakeFirst
      <4>3. PICK i \in 1..(Len(waitq) - 1) : /\ val[u].ptr = waitq[i] /\ me[u] = waitq[i + 1]
                                            /\ link[waitq[i]] = NP
        BY <4>1, <4>2
      <4>4. i # 1 BY <4>3, <3>1
      <4>5. i - 1 \in 1..(Len(waitq') - 1) /\ waitq'[i - 1] = waitq[i]
            /\ waitq'[(i - 1) + 1] = waitq[i + 1]
        BY <4>3, <4>4, <3>2
      <4> QED BY <4>1, <4>2, <4>3, <4>5
    <3>4. \A u, v \in Threads : Joining(u)' /\ Joining(v)' /\ me'[u] = me'[v] => u = v
      BY <2>12 DEF TakeFirst, Dequeued
    <3> QED BY <3>3, <3>4
  <2>13. CASE ClearFront(t) BY <2>13 DEF ClearFront
  <2>14. CASE TakeLast(t) BY <2>14 DEF TakeLast, Dequeued
  <2>15. CASE TakeLastFails(t) BY <2>15 DEF TakeLastFails
  <2>16. CASE UndoFront(t) BY <2>16 DEF UndoFront
  <2>17. CASE Unlock(t) BY <2>17 DEF Unlock
  <2>18. CASE Retest(t) BY <2>18 DEF Retest
  <2>19. CASE RetestFails(t) BY <2>19 DEF RetestFails
  <2>20. CASE Relock(t) BY <2>20 DEF Relock
  <2>21. CASE RelockFails(t)
    <3>1. /\ Joins /\ UNCHANGED <<waitq, fptr, link>>
          /\ \A u \in Threads : u # t => /\ pc'[u] = pc[u] /\ val'[u] = val[u]
                                        /\ me'[u] = me[u]
          /\ pc'[t] = "idle"
      BY <2>21 DEF RelockFails
    <3> HIDE DEF SemTypeOK, Bookkeeping, Queue, Fronts, Joins
    <3> QED BY <3>1, JoinsFrame
  <2>22. CASE Grant(t)
    <3>1. \A i \in 1..Len(waitq) : waitq[i] # f[t]
      BY <2>22 DEF Grant
    <3>2. \A i \in 1..Len(waitq) : link'[waitq[i]] = link[waitq[i]]
      BY <3>1, <2>22 DEF Grant
    <3>3. UNCHANGED <<fptr, waitq>>
          /\ \A u \in Threads : /\ Joining(u)' => Joining(u) /\ val'[u] = val[u] /\ me'[u] = me[u]
                                /\ HasFront(u)' => HasFront(u)
      BY <2>22 DEF Grant
    <3>4. \A i \in 1..(Len(waitq) - 1) : link'[waitq[i]] = link[waitq[i]]
      BY <3>2, Len(waitq) \in Nat
    <3>5. \A u \in Threads : Joining(u)' =>
            /\ Joining(u) /\ val'[u] = val[u] /\ me'[u] = me[u]
            /\ \A i \in 1..(Len(waitq) - 1) :
                  val[u].ptr = waitq[i] => link'[waitq[i]] = link[waitq[i]]
      BY ONLY <3>3, <3>4
    <3> QED BY ONLY IInv, <3>3, <3>5, JoinsFrame DEF IInv
  <2>23. CASE ReleaseCas(t) BY <2>23 DEF ReleaseCas
  <2>24. CASE ReleaseCasFails(t) BY <2>24 DEF ReleaseCasFails
  <2> QED
    BY <1>2, <2>1, <2>2, <2>3, <2>4, <2>5, <2>6, <2>7, <2>8, <2>9, <2>10, <2>11, <2>12,
       <2>13, <2>14, <2>15, <2>16, <2>17, <2>18, <2>19, <2>20, <2>21, <2>22, <2>23, <2>24
       DEF Step, Claiming, Dequeuing
<1>3. ASSUME NEW t \in Threads, NEW p \in Claimants, BeginClaim(t, p) PROVE Joins'
  <2>1. UNCHANGED <<fptr, waitq, link>>
        /\ \A u \in Threads : /\ Joining(u)' => Joining(u) /\ val'[u] = val[u] /\ me'[u] = me[u]
                              /\ HasFront(u)' => HasFront(u)
    BY <1>3 DEF BeginClaim
  <2>2. \A u \in Threads : Joining(u)' =>
          /\ Joining(u) /\ val'[u] = val[u] /\ me'[u] = me[u]
          /\ \A i \in 1..(Len(waitq) - 1) :
                val[u].ptr = waitq[i] => link'[waitq[i]] = link[waitq[i]]
    BY ONLY <2>1
  <2> QED BY ONLY IInv, <2>1, <2>2, JoinsFrame DEF IInv
<1>4. ASSUME NEW t \in Threads, NEW p \in Claimants, BeginRelease(t, p) PROVE Joins'
  BY <1>4 DEF BeginRelease
<1> QED
  BY <1>1, <1>2, <1>3, <1>4 DEF SemNext

(* IInv is an invariant of the semaphore. *)
THEOREM SemaphoreInvariance == SemSpec => []IInv
<1>1. IInv /\ [SemNext]_semVars => IInv'
  BY TypeStep, OneOwnerStep, BitStep, BookkeepingStep, QueueStep, FrontsStep, JoinsStep DEF IInv
<1> QED
  BY InitIInv, <1>1, PTL DEF SemSpec

(* Type correctness. *)
THEOREM SemaphoreTypes == SemSpec => []SemTypeOK
BY SemaphoreInvariance, PTL DEF IInv

(* sem_claim and sem_release are a lock: at any time at most one process or *)
(* thread owns the semaphore, however many claim, release and dequeue.      *)
THEOREM SingleOwner == SemSpec => []OneOwner
BY SemaphoreInvariance, PTL DEF IInv

(* The semaphore is never leaked or given away twice: bit 0 of bptr is set  *)
(* exactly when there is no owner.                                          *)
THEOREM BitIsTruthful == SemSpec => []BitTellsOwner
BY SemaphoreInvariance, PTL DEF IInv

-----------------------------------------------------------------------------
(* No waiter is stranded *)

(* A step that writes no word of the queue leaves the gaps and the threads  *)
(* that will fill them as they are.                                         *)
LEMMA LinkedQuiet ==
    ASSUME NEW t \in Threads, Linked, UNCHANGED <<waitq, fptr, link>>,
           \A u \in Threads : u # t => pc'[u] = pc[u] /\ val'[u] = val[u],
           ~Joining(t),
           pc[t] \in {"takeLast", "undoFront"} => pc'[t] \in {"takeLast", "undoFront"}
    PROVE  Linked'
<1>1. \A u \in Threads : /\ Joining(u) => Joining(u)' /\ val'[u] = val[u]
                         /\ pc[u] \in {"takeLast", "undoFront"} =>
                               pc'[u] \in {"takeLast", "undoFront"}
  BY DEF Joining
<1> QED
  BY <1>1 DEF Linked

(* Gaps in the chain are filled by the threads that left them. *)
LEMMA LinkedStep == WInv /\ [SemNext]_semVars => Linked'
<1> SUFFICES ASSUME WInv, [SemNext]_semVars PROVE Linked'
  OBVIOUS
<1>a. SemTypeOK
  BY DEF WInv, IInv
<1>b. Linked
  BY DEF WInv
<1> USE <1>a, <1>b, NPAssumption, LinkedQuiet DEF SemTypeOK, Joining, W, Goto, At, Becomes, Forget,
        Return, shared, locals
<1>1. CASE UNCHANGED semVars
  BY <1>1 DEF semVars, Linked
<1>2. ASSUME NEW t \in Threads, Step(t) PROVE Linked'
  <2>1. CASE ClaimCas(t) BY <2>1 DEF ClaimCas
  <2>2. CASE ClaimCasFails(t) BY <2>2 DEF ClaimCasFails
  <2>3. CASE Reread(t) BY <2>3 DEF Reread
  <2>4. CASE ClearLink(t)
    <3>1. me[t] \in Claimants /\ status[me[t]] = "claiming"
      BY <2>4 DEF ClearLink, WInv, IInv, Bookkeeping, Entering, Ptr
    <3>2. \A i \in 1..Len(waitq) : link'[waitq[i]] = link[waitq[i]]
      BY <3>1, <2>4 DEF ClearLink, WInv, IInv, Queue
    <3>3. /\ UNCHANGED <<fptr, waitq>>
          /\ \A u \in Threads : /\ Joining(u) => Joining(u)' /\ val'[u] = val[u]
                                /\ pc[u] \in {"takeLast", "undoFront"} => pc'[u] = pc[u]
      BY <2>4 DEF ClearLink
    <3> QED BY ONLY <1>a, <1>b, <3>2, <3>3 DEF Linked, SemTypeOK
  <2>5. CASE Publish(t)
    <3>1. /\ waitq' \in Seq(Claimants) /\ Len(waitq') = Len(waitq) + 1
          /\ waitq'[Len(waitq) + 1] = me[t]
          /\ \A i \in 1..Len(waitq) : waitq'[i] = waitq[i]
          /\ UNCHANGED <<fptr, link>>
      BY <2>5 DEF Publish, WInv, IInv, Bookkeeping, Entering, Ptr
    <3>2. \A u \in Threads : /\ Joining(u) => Joining(u)' /\ val'[u] = val[u]
                             /\ pc[u] \in {"takeLast", "undoFront"} => pc'[u] = pc[u]
      BY <2>5 DEF Publish
    <3>3. Joining(t)' /\ val'[t].ptr = IF Len(waitq) = 0 THEN NP ELSE waitq[Len(waitq)]
      BY <2>5 DEF Publish, WInv, IInv, Queue
    <3>4. Len(waitq) \in Nat
      OBVIOUS
    <3>5. Len(waitq') > 0 /\ fptr' = NP =>
            \E u \in Threads : \/ Joining(u)' /\ val'[u].ptr = NP
                               \/ pc'[u] \in {"takeLast", "undoFront"}
      BY ONLY <1>b, <3>1, <3>2, <3>3, <3>4 DEF Linked
    <3>6. ASSUME NEW i \in 1..(Len(waitq') - 1), link'[waitq'[i]] = NP
          PROVE  \E u \in Threads : Joining(u)' /\ val'[u].ptr = waitq'[i]
      <4>1. CASE i = Len(waitq)
        BY ONLY <4>1, <3>1, <3>3, <3>4, t \in Threads
      <4>2. CASE i # Len(waitq)
        <5>1. i \in 1..(Len(waitq) - 1) /\ waitq'[i] = waitq[i]
          BY ONLY <4>2, <3>1, <3>4
        <5>2. PICK u \in Threads : Joining(u) /\ val[u].ptr = waitq[i]
          BY ONLY <5>1, <3>1, <3>6, <1>b DEF Linked
        <5> QED BY ONLY <5>1, <5>2, <3>2
      <4> QED BY ONLY <4>1, <4>2
    <3> QED BY ONLY <3>5, <3>6 DEF Linked
  <2>6. CASE PublishFails(t) BY <2>6 DEF PublishFails
  <2>7. CASE Join(t)
    <3>1. \A u \in Threads : /\ Joining(u) /\ u # t => Joining(u)' /\ val'[u] = val[u]
                             /\ pc[u] \in {"takeLast", "undoFront"} => pc'[u] = pc[u]
      BY <2>7 DEF Join
    <3>2. me[t] # NP /\ waitq' = waitq /\ Len(waitq) \in Nat
      BY <2>7 DEF Join, WInv, IInv, Bookkeeping
    <3>3. CASE val[t].ptr = NP
      <4>1. fptr' = me[t] /\ link' = link
        BY <3>3, <2>7 DEF Join
      <4>2. \A i \in 1..Len(waitq) : waitq[i] # NP
        OBVIOUS
      <4> QED BY ONLY <1>b, <3>1, <3>2, <3>3, <4>1, <4>2 DEF Linked
    <3>4. CASE val[t].ptr # NP
      <4>1. fptr' = fptr /\ \A i \in 1..Len(waitq) :
              /\ waitq[i] = val[t].ptr => link'[waitq[i]] = me[t]
              /\ waitq[i] # val[t].ptr => link'[waitq[i]] = link[waitq[i]]
        BY <3>4, <2>7 DEF Join
      <4> QED BY ONLY <1>b, <3>1, <3>2, <3>4, <4>1 DEF Linked
    <3> QED BY <3>3, <3>4
  <2>8. CASE TryLock(t) BY <2>8 DEF TryLock
  <2>9. CASE LoadFront(t) BY <2>9 DEF LoadFront
  <2>10. CASE LoadBack(t) BY <2>10 DEF LoadBack
  <2>11. CASE LoadLink(t) BY <2>11 DEF LoadLink
  <2>12. CASE TakeFirst(t)
    <3>1. Len(waitq) > 1 /\ l[t] = waitq[2] /\ Len(waitq) \in Nat
      BY <2>12 DEF TakeFirst, WInv, IInv, Fronts, HasFront
    <3>2. /\ Len(waitq') = Len(waitq) - 1
          /\ \A i \in 1..(Len(waitq) - 1) : waitq'[i] = waitq[i + 1]
          /\ fptr' = l[t] /\ link' = link
      BY <3>1, <2>12 DEF TakeFirst, Dequeued
    <3>3. \A u \in Threads : Joining(u) => Joining(u)' /\ val'[u] = val[u]
      BY <2>12 DEF TakeFirst, Dequeued
    <3>4. l[t] # NP
      BY <3>1
    <3>5. ASSUME NEW i \in 1..(Len(waitq') - 1), link'[waitq'[i]] = NP
          PROVE  \E u \in Threads : Joining(u)' /\ val'[u].ptr = waitq'[i]
      <4>1. i + 1 \in 1..(Len(waitq) - 1) /\ waitq'[i] = waitq[i + 1]
        BY ONLY <3>1, <3>2
      <4>2. PICK u \in Threads : Joining(u) /\ val[u].ptr = waitq[i + 1]
        BY ONLY <4>1, <3>2, <3>5, <1>b DEF Linked
      <4> QED BY ONLY <4>1, <4>2, <3>3
    <3> QED BY ONLY <3>2, <3>4, <3>5 DEF Linked
  <2>13. CASE ClearFront(t)
    <3>1. \A u \in Threads : Joining(u) => Joining(u)' /\ val'[u] = val[u]
      BY <2>13 DEF ClearFront
    <3>2. pc'[t] = "takeLast" /\ UNCHANGED <<waitq, link>>
      BY <2>13 DEF ClearFront
    <3> QED BY ONLY <1>b, <3>1, <3>2 DEF Linked
  <2>14. CASE TakeLast(t)
    <3>1. Len(waitq) > 0 /\ bptr.ptr = waitq[1]
      BY <2>14 DEF TakeLast, WInv, IInv, Fronts, HasFront
    <3>2. Len(waitq) = 1
      <4>1. bptr.ptr = waitq[Len(waitq)]
        BY <3>1 DEF WInv, IInv, Queue
      <4>2. \A i, j \in 1..Len(waitq) : waitq[i] = waitq[j] => i = j
        BY DEF WInv, IInv, Queue
      <4>3. Len(waitq) \in Nat
        OBVIOUS
      <4>4. Len(waitq) \in 1..Len(waitq) /\ 1 \in 1..Len(waitq)
        BY ONLY <3>1, <4>3
      <4> QED BY ONLY <3>1, <4>1, <4>2, <4>4
    <3>3. Len(waitq') = 0
      BY <3>2, <2>14 DEF TakeLast, Dequeued
    <3> QED BY ONLY <3>3 DEF Linked
  <2>15. CASE TakeLastFails(t) BY <2>15 DEF TakeLastFails
  <2>16. CASE UndoFront(t)
    <3>1. f[t] # NP
      BY <2>16 DEF UndoFront, WInv, IInv, Fronts, HasFront
    <3>2. \A u \in Threads : Joining(u) => Joining(u)' /\ val'[u] = val[u]
      BY <2>16 DEF UndoFront
    <3>3. fptr' = f[t] /\ UNCHANGED <<waitq, link>>
      BY <2>16 DEF UndoFront
    <3> QED BY ONLY <1>b, <3>1, <3>2, <3>3 DEF Linked
  <2>17. CASE Unlock(t) BY <2>17 DEF Unlock
  <2>18. CASE Retest(t) BY <2>18 DEF Retest
  <2>19. CASE RetestFails(t) BY <2>19 DEF RetestFails
  <2>20. CASE Relock(t) BY <2>20 DEF Relock
  <2>21. CASE RelockFails(t) BY <2>21 DEF RelockFails
  <2>22. CASE Grant(t)
    <3>1. f[t] \in Claimants /\ status[f[t]] = "granted"
      BY <2>22 DEF Grant, WInv, IInv, Bookkeeping, Ptr
    <3>2. \A i \in 1..Len(waitq) : link'[waitq[i]] = link[waitq[i]]
      BY <3>1, <2>22 DEF Grant, WInv, IInv, Queue
    <3>3. /\ UNCHANGED <<fptr, waitq>>
          /\ \A u \in Threads : /\ Joining(u) => Joining(u)' /\ val'[u] = val[u]
                                /\ pc[u] \in {"takeLast", "undoFront"} => pc'[u] = pc[u]
      BY <2>22 DEF Grant
    <3> QED BY ONLY <1>a, <1>b, <3>2, <3>3 DEF Linked, SemTypeOK
  <2>23. CASE ReleaseCas(t) BY <2>23 DEF ReleaseCas
  <2>24. CASE ReleaseCasFails(t) BY <2>24 DEF ReleaseCasFails
  <2> QED
    BY <1>2, <2>1, <2>2, <2>3, <2>4, <2>5, <2>6, <2>7, <2>8, <2>9, <2>10, <2>11, <2>12,
       <2>13, <2>14, <2>15, <2>16, <2>17, <2>18, <2>19, <2>20, <2>21, <2>22, <2>23, <2>24
       DEF Step, Claiming, Dequeuing
<1>3. ASSUME NEW t \in Threads, NEW p \in Claimants, BeginClaim(t, p) PROVE Linked'
  BY <1>3 DEF BeginClaim
<1>4. ASSUME NEW t \in Threads, NEW p \in Claimants, BeginRelease(t, p) PROVE Linked'
  BY <1>4 DEF BeginRelease
<1> QED
  BY <1>1, <1>2, <1>3, <1>4 DEF SemNext

(* The second waiter stays: only the owner dequeues. *)
LEMMA BehindStep == WInv /\ [SemNext]_semVars => Behind'
<1> SUFFICES ASSUME WInv, [SemNext]_semVars PROVE Behind'
  OBVIOUS
<1> USE NPAssumption DEF WInv, IInv, SemTypeOK, OneOwner, BitTellsOwner, Queue, Fronts, Behind,
        Joining, HasFront, Entering, Releasing, Locked, Owns, Ptr, Word, W, NoWord,
        Goto, At, Becomes, Forget, Return, shared, locals
<1>1. CASE UNCHANGED semVars
  BY <1>1 DEF semVars
<1>2. ASSUME NEW t \in Threads, Step(t) PROVE Behind'
  <2>1. CASE ClaimCas(t) BY <2>1 DEF ClaimCas
  <2>2. CASE ClaimCasFails(t) BY <2>2 DEF ClaimCasFails
  <2>3. CASE Reread(t) BY <2>3 DEF Reread
  <2>4. CASE ClearLink(t) BY <2>4 DEF ClearLink
  <2>5. CASE Publish(t) BY <2>5 DEF Publish
  <2>6. CASE PublishFails(t) BY <2>6 DEF PublishFails
  <2>7. CASE Join(t) BY <2>7 DEF Join
  <2>8. CASE TryLock(t) BY <2>8 DEF TryLock
  <2>9. CASE LoadFront(t) BY <2>9 DEF LoadFront
  <2>10. CASE LoadBack(t) BY <2>10 DEF LoadBack
  <2>11. CASE LoadLink(t) BY <2>11 DEF LoadLink
  <2>12. CASE TakeFirst(t) BY <2>12 DEF TakeFirst, Dequeued
  <2>13. CASE ClearFront(t) BY <2>13 DEF ClearFront
  <2>14. CASE TakeLast(t) BY <2>14 DEF TakeLast, Dequeued
  <2>15. CASE TakeLastFails(t) BY <2>15 DEF TakeLastFails
  <2>16. CASE UndoFront(t) BY <2>16 DEF UndoFront
  <2>17. CASE Unlock(t) BY <2>17 DEF Unlock
  <2>18. CASE Retest(t) BY <2>18 DEF Retest
  <2>19. CASE RetestFails(t) BY <2>19 DEF RetestFails
  <2>20. CASE Relock(t) BY <2>20 DEF Relock
  <2>21. CASE RelockFails(t) BY <2>21 DEF RelockFails
  <2>22. CASE Grant(t) BY <2>22 DEF Grant
  <2>23. CASE ReleaseCas(t) BY <2>23 DEF ReleaseCas
  <2>24. CASE ReleaseCasFails(t) BY <2>24 DEF ReleaseCasFails
  <2> QED
    BY <1>2, <2>1, <2>2, <2>3, <2>4, <2>5, <2>6, <2>7, <2>8, <2>9, <2>10, <2>11, <2>12,
       <2>13, <2>14, <2>15, <2>16, <2>17, <2>18, <2>19, <2>20, <2>21, <2>22, <2>23, <2>24
       DEF Step, Claiming, Dequeuing
<1>3. ASSUME NEW t \in Threads, NEW p \in Claimants, BeginClaim(t, p) PROVE Behind'
  BY <1>3 DEF BeginClaim
<1>4. ASSUME NEW t \in Threads, NEW p \in Claimants, BeginRelease(t, p) PROVE Behind'
  BY <1>4 DEF BeginRelease
<1> QED
  BY <1>1, <1>2, <1>3, <1>4 DEF SemNext

(* A free semaphore with waiters is always watched. *)
LEMMA AttendedStep == WInv /\ [SemNext]_semVars => Attended'
<1> SUFFICES ASSUME WInv, [SemNext]_semVars PROVE Attended'
  OBVIOUS
<1> USE NPAssumption DEF WInv, IInv, SemTypeOK, OneOwner, BitTellsOwner, Bookkeeping, Queue, Linked,
        Behind, Attended, Looks, ToTest, Joining, HasFront, Entering, Releasing, Locked, Owns, Ptr, Word, W, NoWord,
        Goto, At, Becomes, Forget, Return, shared, locals
<1>1. CASE UNCHANGED semVars
  BY <1>1 DEF semVars
<1>2. ASSUME NEW t \in Threads, Step(t) PROVE Attended'
  <2>1. CASE ClaimCas(t) BY <2>1 DEF ClaimCas
  <2>2. CASE ClaimCasFails(t) BY <2>2 DEF ClaimCasFails
  <2>3. CASE Reread(t) BY <2>3 DEF Reread
  <2>4. CASE ClearLink(t) BY <2>4 DEF ClearLink
  <2>5. CASE Publish(t) BY <2>5 DEF Publish
  <2>6. CASE PublishFails(t) BY <2>6 DEF PublishFails
  <2>7. CASE Join(t) BY <2>7 DEF Join
  <2>8. CASE TryLock(t) BY <2>8 DEF TryLock
  <2>9. CASE LoadFront(t) BY <2>9 DEF LoadFront
  <2>10. CASE LoadBack(t) BY <2>10 DEF LoadBack
  <2>11. CASE LoadLink(t) BY <2>11 DEF LoadLink
  <2>12. CASE TakeFirst(t) BY <2>12 DEF TakeFirst, Dequeued
  <2>13. CASE ClearFront(t) BY <2>13 DEF ClearFront
  <2>14. CASE TakeLast(t) BY <2>14 DEF TakeLast, Dequeued
  <2>15. CASE TakeLastFails(t) BY <2>15 DEF TakeLastFails
  <2>16. CASE UndoFront(t) BY <2>16 DEF UndoFront
  <2>17. CASE Unlock(t)
    <3>1. /\ bptr.bit = 0 /\ \A u \in Threads : Locked(u) => u = t
          /\ ~Joining(t) /\ pc'[t] = "retest" /\ UNCHANGED <<fptr, link, waitq, f, val>>
          /\ \A u \in Threads : Joining(u) => Joining(u)'
      BY <2>17 DEF Unlock
    <3>2. CASE f[t] = NP
      <4>1. \A u \in Threads : pc[u] \notin {"takeLast", "undoFront"}
        BY <3>1, <2>17 DEF Unlock
      <4>2. Len(waitq) > 0 /\ fptr = NP => \E u \in Threads : Joining(u)
        BY ONLY Linked, <4>1 DEF Linked
      <4> QED BY ONLY <3>1, <3>2, <4>2 DEF Attended, Looks
    <3>3. CASE f[t] # NP
      <4>1. f[t] = waitq[1] /\ Len(waitq) > 1
        BY <3>3, <2>17 DEF Unlock
      <4>2. link[f[t]] = NP => \E u \in Threads : Joining(u)
        BY ONLY Linked, <4>1, SemTypeOK DEF Linked, SemTypeOK
      <4> QED BY ONLY <3>1, <3>3, <4>1, <4>2 DEF Attended, Looks
    <3> QED BY <3>2, <3>3
  <2>18. CASE Retest(t) BY <2>18 DEF Retest
  <2>19. CASE RetestFails(t) BY <2>19 DEF RetestFails
  <2>20. CASE Relock(t) BY <2>20 DEF Relock
  <2>21. CASE RelockFails(t) BY <2>21 DEF RelockFails
  <2>22. CASE Grant(t) BY <2>22 DEF Grant
  <2>23. CASE ReleaseCas(t) BY <2>23 DEF ReleaseCas
  <2>24. CASE ReleaseCasFails(t) BY <2>24 DEF ReleaseCasFails
  <2> QED
    BY <1>2, <2>1, <2>2, <2>3, <2>4, <2>5, <2>6, <2>7, <2>8, <2>9, <2>10, <2>11, <2>12,
       <2>13, <2>14, <2>15, <2>16, <2>17, <2>18, <2>19, <2>20, <2>21, <2>22, <2>23, <2>24
       DEF Step, Claiming, Dequeuing
<1>3. ASSUME NEW t \in Threads, NEW p \in Claimants, BeginClaim(t, p) PROVE Attended'
  BY <1>3 DEF BeginClaim
<1>4. ASSUME NEW t \in Threads, NEW p \in Claimants, BeginRelease(t, p) PROVE Attended'
  BY <1>4 DEF BeginRelease
<1> QED
  BY <1>1, <1>2, <1>3, <1>4 DEF SemNext

(* Initially nobody waits. *)
LEMMA InitWInv == SemInit => WInv
BY InitIInv DEF SemInit, WInv, Linked, Behind, Attended

(* No wake-up is lost: as long as the semaphore is free and a process       *)
(* waits, some thread has yet to look again, so a waiter is never left      *)
(* behind by threads that have all gone.                                    *)
THEOREM NobodyStranded == SemSpec => []NoStrandedWaiter
<1>1. IInv /\ [SemNext]_semVars => IInv'
  BY TypeStep, OneOwnerStep, BitStep, BookkeepingStep, QueueStep, FrontsStep, JoinsStep DEF IInv
<1>2. WInv /\ [SemNext]_semVars => WInv'
  BY <1>1, LinkedStep, BehindStep, AttendedStep DEF WInv
<1>3. WInv => NoStrandedWaiter
  BY DEF WInv, IInv, SemTypeOK, Attended, Looks, Joining, NoStrandedWaiter, At
<1> QED
  BY InitWInv, <1>2, <1>3, PTL DEF SemSpec

-----------------------------------------------------------------------------
(* Refinement of the FIFO semaphore *)

(* Owner names the process that owns the semaphore, before and after a step. *)
LEMMA OwnerNow ==
    ASSUME MutualExclusion
    PROVE  /\ \A p \in Claimants : Owns(p) => Owner = p
           /\ (\A p \in Claimants : ~Owns(p)) => Owner = NP
BY DEF MutualExclusion, Owner

LEMMA OwnerNext ==
    ASSUME MutualExclusion'
    PROVE  /\ \A p \in Claimants : Owns(p)' => Owner' = p
           /\ (\A p \in Claimants : ~Owns(p)') => Owner' = NP
BY DEF MutualExclusion, Owner

(* A step that moves neither ownership nor the queue is a stutter. *)
LEMMA OwnerSame ==
    ASSUME MutualExclusion, MutualExclusion', \A p \in Claimants : Owns(p)' <=> Owns(p)
    PROVE  Owner' = Owner
<1>1. CASE \E p \in Claimants : Owns(p)
  <2>1. PICK p \in Claimants : Owns(p) BY <1>1
  <2> QED BY <2>1, OwnerNow, OwnerNext
<1>2. CASE \A p \in Claimants : ~Owns(p)
  BY <1>2, OwnerNow, OwnerNext
<1> QED BY <1>1, <1>2

(* Every step of the semaphore is a step of the FIFO semaphore or leaves    *)
(* its state alone.                                                         *)
LEMMA FifoStep ==
    ASSUME IInv, IInv', [SemNext]_semVars
    PROVE  [Abstract!Next]_(Abstract!vars)
<1> DEFINE Stutter == Owner' = Owner /\ waitq' = waitq
<1>a. MutualExclusion /\ MutualExclusion'
  BY DEF IInv, OneOwner
<1>b. SemTypeOK
  BY DEF IInv
<1>s. ASSUME UNCHANGED waitq, \A p \in Claimants : Owns(p)' <=> Owns(p) PROVE Stutter
  BY <1>a, <1>s, OwnerSame
<1>q. Stutter => [Abstract!Next]_(Abstract!vars)
  BY DEF Abstract!vars
<1> USE DEF Goto, At, Becomes, Forget, Return, shared, locals
<1>1. CASE UNCHANGED semVars
  BY <1>1, <1>s, <1>q DEF semVars, Owns
<1>2. ASSUME NEW t \in Threads, Claiming(t) PROVE [Abstract!Next]_(Abstract!vars)
  <2>1. CASE ClaimCas(t)
    <3>1. me[t] \in Claimants /\ status'[me[t]] = "in"
      BY <2>1, <1>b DEF ClaimCas, IInv, SemTypeOK, Bookkeeping, Entering, Ptr
    <3>2. bptr = W(NP, 1)
      BY <2>1 DEF ClaimCas, IInv, Bookkeeping
    <3>3. \A p \in Claimants : ~Owns(p)
      BY <3>2 DEF IInv, BitTellsOwner, W
    <3>4. waitq = <<>> /\ waitq' = waitq
      BY <2>1, <3>2, <1>b, NPAssumption DEF ClaimCas, IInv, Queue, SemTypeOK, W
    <3>5. Owner = NP /\ Owner' = me[t]
      BY <3>1, <3>3, <1>a, OwnerNow, OwnerNext DEF Owns
    <3> QED BY <3>1, <3>4, <3>5 DEF Abstract!Next, Abstract!Claim
  <2>2. CASE Publish(t)
    <3>1. me[t] \in Claimants /\ status[me[t]] = "claiming" /\ waitq' = Append(waitq, me[t])
      BY <2>2, <1>b DEF Publish, IInv, SemTypeOK, Bookkeeping, Entering, Ptr
    <3>2. \A p \in Claimants : Owns(p)' <=> Owns(p)
      BY <2>2, <3>1, <1>b DEF Publish, Owns, SemTypeOK
    <3>3. Owner' = Owner
      BY <3>2, <1>a, OwnerSame
    <3>4. Owner # me[t]
      <4>1. ~Owns(me[t]) BY <3>1 DEF Owns
      <4> QED BY <4>1, <3>1, <1>a, OwnerNow, NPAssumption
    <3>5. ~Abstract!Queued(me[t])
      BY <3>1 DEF IInv, Queue, Abstract!Queued
    <3> QED BY <3>1, <3>3, <3>4, <3>5 DEF Abstract!Next, Abstract!Wait
  <2>3. CASE ClaimCasFails(t) \/ Reread(t) \/ ClearLink(t) \/ PublishFails(t) \/ Join(t) \/ TryLock(t)
    BY <2>3, <1>s, <1>q DEF ClaimCasFails, Reread, ClearLink, PublishFails, Join, TryLock, Owns
  <2> QED BY <1>2, <2>1, <2>2, <2>3 DEF Claiming
<1>3. ASSUME NEW t \in Threads, TakeFirst(t) \/ TakeLast(t) PROVE [Abstract!Next]_(Abstract!vars)
  <2>1. Locked(t) /\ HasFront(t) /\ Dequeued(t)
    BY <1>3 DEF TakeFirst, TakeLast, Locked, HasFront
  <2>2. f[t] \in Claimants /\ Len(waitq) > 0 /\ f[t] = Head(waitq)
    BY <2>1, <1>b DEF IInv, Fronts, SemTypeOK
  <2>3. Owner = NP
    BY <2>1, <1>a, OwnerNow DEF IInv, OneOwner
  <2>4. Owner' = f[t]
    <3>1. status'[f[t]] = "granted"
      BY <2>1, <2>2, <1>b DEF Dequeued, SemTypeOK
    <3> QED BY <3>1, <2>2, <1>a, OwnerNext DEF Owns
  <2>5. waitq # <<>> /\ waitq' = Tail(waitq)
    BY <2>1, <2>2, <1>b DEF Dequeued, SemTypeOK
  <2> QED BY <2>2, <2>3, <2>4, <2>5 DEF Abstract!Next, Abstract!Grant
<1>4. ASSUME NEW t \in Threads,
             \/ RetestFails(t) \/ RelockFails(t) \/ ReleaseCas(t) \/ Grant(t)
      PROVE  [Abstract!Next]_(Abstract!vars)
  <2>1. /\ ~Entering(t) /\ ~Joining(t)
        /\ me[t] \in Claimants => status[me[t]] = "releasing"
    BY <1>4, NPAssumption DEF RetestFails, RelockFails, ReleaseCas, Grant, Entering, Joining,
       IInv, Bookkeeping, Releasing
  <2>2. Grant(t) => f[t] \in Claimants /\ status[f[t]] = "granted"
    BY <1>b DEF Grant, IInv, Bookkeeping, SemTypeOK, Ptr
  <2>3. waitq' = waitq
    BY <1>4 DEF RetestFails, RelockFails, ReleaseCas, Grant
  <2>4. \A p \in Claimants : Owns(p)' <=> Owns(p)
    BY <1>4, <2>1, <2>2, <1>b DEF RetestFails, RelockFails, ReleaseCas, Grant, Owns, SemTypeOK
  <2> QED BY <2>3, <2>4, <1>s, <1>q
<1>5. ASSUME NEW t \in Threads,
             \/ LoadFront(t) \/ LoadBack(t) \/ LoadLink(t) \/ ClearFront(t)
             \/ TakeLastFails(t) \/ UndoFront(t) \/ Unlock(t) \/ Retest(t) \/ Relock(t)
             \/ ReleaseCasFails(t)
      PROVE  [Abstract!Next]_(Abstract!vars)
  BY <1>5, <1>s, <1>q DEF LoadFront, LoadBack, LoadLink, ClearFront, TakeLastFails, UndoFront,
     Unlock, Retest, Relock, ReleaseCasFails, Owns
<1>6. ASSUME NEW t \in Threads, NEW p \in Claimants, BeginClaim(t, p)
      PROVE  [Abstract!Next]_(Abstract!vars)
  <2>1. waitq' = waitq /\ \A q \in Claimants : Owns(q)' <=> Owns(q)
    BY <1>6, <1>b DEF BeginClaim, Owns, SemTypeOK
  <2> QED BY <2>1, <1>s, <1>q
<1>7. ASSUME NEW t \in Threads, NEW p \in Claimants, BeginRelease(t, p)
      PROVE  [Abstract!Next]_(Abstract!vars)
  <2>1. Owns(p) /\ waitq' = waitq
    BY <1>7 DEF BeginRelease, Owns
  <2>2. \A q \in Claimants : ~Owns(q)'
    BY <1>7, <2>1, <1>a, <1>b DEF BeginRelease, Owns, MutualExclusion, SemTypeOK
  <2>3. Owner = p /\ Owner' = NP
    BY <2>1, <2>2, <1>a, OwnerNow, OwnerNext
  <2> QED BY <2>1, <2>3, NPAssumption DEF Abstract!Next, Abstract!Release
<1> QED
  BY <1>1, <1>2, <1>3, <1>4, <1>5, <1>6, <1>7 DEF SemNext, Step, Dequeuing

(* The lock-free semaphore implements the FIFO semaphore: no claim          *)
(* overtakes a waiter, and a release passes to the longest waiting process. *)
THEOREM Fifo == SemSpec => IsFifoSemaphore
<1>1. SemInit => Abstract!Init
  BY DEF SemInit, Abstract!Init, Owner, Owns
<1> QED
  BY <1>1, SemaphoreInvariance, FifoStep, PTL DEF SemSpec, IsFifoSemaphore, Abstract!Spec

-----------------------------------------------------------------------------
(* MobileTypes *)

(* Sets that differ in at most one element.                                 *)
LEMMA OneDiffers ==
  ASSUME NEW S, NEW T, NEW x, IsFiniteSet(S), \A y : y # x => (y \in T <=> y \in S)
  PROVE  /\ IsFiniteSet(T) /\ Cardinality(S) \in Nat /\ Cardinality(T) \in Nat
         /\ (x \in S <=> x \in T) => T = S
         /\ x \notin S /\ x \in T => Cardinality(T) = Cardinality(S) + 1
         /\ x \in S /\ x \notin T => Cardinality(T) = Cardinality(S) - 1
<1>1. Cardinality(S) \in Nat
  BY FS_CardinalityType
<1>2. CASE x \in S <=> x \in T
  <2>1. T = S
    BY <1>2
  <2> QED
    BY <1>1, <1>2, <2>1
<1>3. CASE x \notin S /\ x \in T
  <2>1. T = S \cup {x}
    BY <1>3
  <2>2. IsFiniteSet(T) /\ Cardinality(T) = Cardinality(S) + 1
    BY <1>3, <2>1, FS_AddElement
  <2> QED
    BY <1>1, <1>3, <2>2
<1>4. CASE x \in S /\ x \notin T
  <2>1. T = S \ {x}
    BY <1>4
  <2>2. IsFiniteSet(T) /\ Cardinality(T) = Cardinality(S) - 1
    BY <1>4, <2>1, FS_RemoveElement
  <2>3. Cardinality(T) \in Nat
    BY <2>2, FS_CardinalityType
  <2> QED
    BY <1>1, <1>4, <2>2, <2>3
<1> QED
  BY <1>2, <1>3, <1>4

(* Everything that is counted is finite.                                    *)
LEMMA Finite ==
  /\ \A o : IsFiniteSet(Holders(o)) /\ Cardinality(Holders(o)) \in Nat
  /\ \A o : IsFiniteSet(Elements(o)) /\ Cardinality(Elements(o)) \in Nat
  /\ \A o : IsFiniteSet(Forked(o)) /\ Cardinality(Forked(o)) \in Nat
  /\ \A p : IsFiniteSet(Branches(p)) /\ Cardinality(Branches(p)) \in Nat
<1>1. IsFiniteSet(Procs \X Slots)
  BY FiniteAssumption, FS_Product
<1>2. ASSUME NEW o PROVE IsFiniteSet(Holders(o)) /\ Cardinality(Holders(o)) \in Nat
  <2>1. Holders(o) \subseteq Procs \X Slots
    BY DEF Holders
  <2> QED
    BY <1>1, <2>1, FS_Subset, FS_CardinalityType
<1>3. ASSUME NEW o PROVE IsFiniteSet(Elements(o)) /\ Cardinality(Elements(o)) \in Nat
  <2>1. Elements(o) \subseteq Objs
    BY DEF Elements
  <2> QED
    BY <2>1, FiniteAssumption, FS_Subset, FS_CardinalityType
<1>4. ASSUME NEW o PROVE IsFiniteSet(Forked(o)) /\ Cardinality(Forked(o)) \in Nat
  <2>1. Forked(o) \subseteq Procs
    BY DEF Forked
  <2> QED
    BY <2>1, FiniteAssumption, FS_Subset, FS_CardinalityType
<1>5. ASSUME NEW p PROVE IsFiniteSet(Branches(p)) /\ Cardinality(Branches(p)) \in Nat
  <2>1. Branches(p) \subseteq Procs
    BY DEF Branches
  <2> QED
    BY <2>1, FiniteAssumption, FS_Subset, FS_CardinalityType
<1> QED
  BY <1>2, <1>3, <1>4, <1>5

(* One variable changes: the holders of the block it referred to lose one,  *)
(* those of the block it refers to gain one.                                *)
LEMMA HoldersSet ==
  ASSUME TypeOK, NEW p \in Procs, NEW s \in Slots, NEW x, NEW old,
         var[p][s] = old, Set(p, s, x), x # old
  PROVE  /\ \A o : o # x /\ o # old => Holders(o)' = Holders(o)
         /\ Cardinality(Holders(x)') = Cardinality(Holders(x)) + 1
         /\ Cardinality(Holders(old)') = Cardinality(Holders(old)) - 1
<1>1. ASSUME NEW o, NEW q \in Procs, NEW r \in Slots
      PROVE  /\ <<q, r>> \in Holders(o) <=> var[q][r] = o
             /\ <<q, r>> \in Holders(o)' <=> var'[q][r] = o
  BY DEF Holders
<1>2. /\ \A q \in Procs, r \in Slots : <<q, r>> # <<p, s>> => var'[q][r] = var[q][r]
      /\ var'[p][s] = x
  BY DEF TypeOK, Set
<1>3. ASSUME NEW o, NEW y, y # <<p, s>> PROVE y \in Holders(o)' <=> y \in Holders(o)
  <2>1. CASE y \in Procs \X Slots
    <3>1. PICK q \in Procs, r \in Slots : y = <<q, r>>
      BY <2>1
    <3> QED
      BY ONLY <1>1, <1>2, <1>3, <3>1
  <2>2. CASE y \notin Procs \X Slots
    BY <2>2 DEF Holders
  <2> QED
    BY <2>1, <2>2
<1>4. ASSUME NEW o
      PROVE  (<<p, s>> \in Holders(o) <=> old = o) /\ (<<p, s>> \in Holders(o)' <=> x = o)
  BY ONLY <1>1, <1>2, p \in Procs, s \in Slots, var[p][s] = old
<1>5. ASSUME NEW o, o # x, o # old PROVE Holders(o)' = Holders(o)
  BY ONLY <1>3, <1>4, <1>5
<1>6. Cardinality(Holders(x)') = Cardinality(Holders(x)) + 1
  BY ONLY <1>3, <1>4, x # old, Finite, OneDiffers
<1>7. Cardinality(Holders(old)') = Cardinality(Holders(old)) - 1
  BY ONLY <1>3, <1>4, x # old, Finite, OneDiffers
<1> QED
  BY <1>5, <1>6, <1>7

(* A variable moves to another.                                             *)
LEMMA HoldersMove ==
  ASSUME TypeOK, NEW p \in Procs, NEW s \in Slots, NEW q \in Procs, NEW r \in Slots, NEW x,
         var[p][s] = x, var[q][r] = NULL, x # NULL,
         var' = [var EXCEPT ![q][r] = x, ![p][s] = NULL]
  PROVE  \A o \in Objs : Cardinality(Holders(o)') = Cardinality(Holders(o))
<1>1. ASSUME NEW o, NEW a \in Procs, NEW b \in Slots
      PROVE  /\ <<a, b>> \in Holders(o) <=> var[a][b] = o
             /\ <<a, b>> \in Holders(o)' <=> var'[a][b] = o
  BY DEF Holders
<1>2. /\ \A a \in Procs, b \in Slots :
           <<a, b>> # <<p, s>> /\ <<a, b>> # <<q, r>> => var'[a][b] = var[a][b]
      /\ var'[p][s] = NULL /\ var'[q][r] = x /\ <<p, s>> # <<q, r>>
  BY DEF TypeOK
<1> SUFFICES ASSUME NEW o \in Objs PROVE Cardinality(Holders(o)') = Cardinality(Holders(o))
  OBVIOUS
<1>3. o # NULL
  BY NullAssumption
<1>4. ASSUME NEW y, y # <<p, s>>, y # <<q, r>> PROVE y \in Holders(o)' <=> y \in Holders(o)
  <2>1. CASE y \in Procs \X Slots
    <3>1. PICK a \in Procs, b \in Slots : y = <<a, b>>
      BY <2>1
    <3> QED
      BY ONLY <1>1, <1>2, <1>4, <3>1
  <2>2. CASE y \notin Procs \X Slots
    BY <2>2 DEF Holders
  <2> QED
    BY <2>1, <2>2
<1>5. /\ <<p, s>> \in Holders(o) <=> o = x
      /\ <<q, r>> \in Holders(o)' <=> o = x
      /\ <<p, s>> \notin Holders(o)' /\ <<q, r>> \notin Holders(o)
  BY ONLY <1>1, <1>2, <1>3, p \in Procs, s \in Slots, q \in Procs, r \in Slots,
          var[p][s] = x, var[q][r] = NULL
<1>6. CASE o = x
  <2> DEFINE S == Holders(o) \ {<<p, s>>}
  <2>1. IsFiniteSet(S) /\ Cardinality(S) = Cardinality(Holders(o)) - 1
    BY ONLY <1>5, <1>6, Finite, FS_RemoveElement
  <2>2. Holders(o)' = S \cup {<<q, r>>} /\ <<q, r>> \notin S
    BY ONLY <1>2, <1>4, <1>5, <1>6
  <2> HIDE DEF S
  <2>3. Cardinality(Holders(o)') = Cardinality(S) + 1
    BY ONLY <2>1, <2>2, FS_AddElement
  <2> QED
    BY ONLY <2>1, <2>3, Finite
<1>7. CASE o # x
  <2>1. Holders(o)' = Holders(o)
    BY ONLY <1>4, <1>5, <1>7
  <2> QED
    BY ONLY <2>1
<1> QED
  BY <1>6, <1>7

(* At most one block changes what it has in it.                             *)
LEMMA ElementsSet ==
  ASSUME NEW a \in Objs, NEW x, NEW old, obj[a].elem = old, obj'[a].elem = x,
         \A b \in Objs : b # a => obj'[b].elem = obj[b].elem
  PROVE  /\ \A o : (o # x /\ o # old) \/ x = old => Elements(o)' = Elements(o)
         /\ x # old => Cardinality(Elements(x)') = Cardinality(Elements(x)) + 1
         /\ x # old => Cardinality(Elements(old)') = Cardinality(Elements(old)) - 1
<1>1. ASSUME NEW o, NEW b, b # a PROVE b \in Elements(o)' <=> b \in Elements(o)
  BY <1>1 DEF Elements
<1>2. ASSUME NEW o
      PROVE  (a \in Elements(o) <=> old = o) /\ (a \in Elements(o)' <=> x = o)
  BY DEF Elements
<1>3. ASSUME NEW o, (o # x /\ o # old) \/ x = old PROVE Elements(o)' = Elements(o)
  BY ONLY <1>1, <1>2, <1>3
<1>4. ASSUME x # old
      PROVE  /\ Cardinality(Elements(x)') = Cardinality(Elements(x)) + 1
             /\ Cardinality(Elements(old)') = Cardinality(Elements(old)) - 1
  <2>1. Cardinality(Elements(x)') = Cardinality(Elements(x)) + 1
    BY ONLY <1>1, <1>2, <1>4, Finite, OneDiffers
  <2>2. Cardinality(Elements(old)') = Cardinality(Elements(old)) - 1
    BY ONLY <1>1, <1>2, <1>4, Finite, OneDiffers
  <2> QED
    BY <2>1, <2>2
<1> QED
  BY <1>3, <1>4

(* What is held, or in an array, has a reference.                           *)
LEMMA Referred ==
  ASSUME TypeOK
  PROVE  /\ \A p \in Procs, s \in Slots : Cardinality(Holders(var[p][s])) >= 1
         /\ \A a \in Objs : Cardinality(Elements(obj[a].elem)) >= 1
<1>1. ASSUME NEW p \in Procs, NEW s \in Slots PROVE Cardinality(Holders(var[p][s])) >= 1
  <2>1. <<p, s>> \in Holders(var[p][s])
    BY DEF Holders
  <2>2. Holders(var[p][s]) # {}
    BY <2>1
  <2> QED
    BY ONLY <2>2, Finite, FS_EmptySet
<1>2. ASSUME NEW a \in Objs PROVE Cardinality(Elements(obj[a].elem)) >= 1
  <2>1. a \in Elements(obj[a].elem)
    BY DEF Elements
  <2>2. Elements(obj[a].elem) # {}
    BY <2>1
  <2> QED
    BY ONLY <2>2, Finite, FS_EmptySet
<1> QED
  BY <1>1, <1>2

(* A block without references is in no variable and in no array.            *)
LEMMA Unreferred ==
  ASSUME TypeOK, NEW o \in Objs, Refs(o) = 0
  PROVE  /\ \A p \in Procs, s \in Slots : var[p][s] # o
         /\ \A a \in Objs : obj[a].elem # o
<1>1. Cardinality(Holders(o)) = 0 /\ Cardinality(Elements(o)) = 0
  BY ONLY Refs(o) = 0, Finite DEF Refs
<1> QED
  BY ONLY <1>1, Referred, TypeOK

(* What mt_clone does to the blocks: bundle e has one more reference, and   *)
(* if an array was cloned c is its copy.                                    *)
LEMMA CloneEffect ==
  ASSUME TypeOK, Shape, NEW o \in Objs, NEW c \in Objs, Kind(o) \in {"cb", "array"},
         CloneInto(o, c)
  PROVE  \E e \in Objs :
           /\ Kind(e) = "cb" /\ obj'[e].kind = "cb" /\ obj'[e].ref = obj[e].ref + 1
           /\ obj'[e].elem = obj[e].elem /\ obj'[e].word = obj[e].word
           /\ \/ Kind(o) = "cb" /\ c = o /\ e = o
              \/ /\ Kind(o) = "array" /\ Kind(c) = "free" /\ obj[o].elem = e
                 /\ obj'[c] = obj[o]
           /\ \A b \in Objs : b # e /\ b # c => obj'[b] = obj[b]
<1>1. CASE Kind(o) = "cb"
  <2>1. obj' = [obj EXCEPT ![o].ref = @ + 1] /\ c = o
    BY <1>1 DEF CloneInto
  <2>2. /\ obj'[o].kind = "cb" /\ obj'[o].ref = obj[o].ref + 1
        /\ obj'[o].elem = obj[o].elem /\ obj'[o].word = obj[o].word
        /\ \A b \in Objs : b # o => obj'[b] = obj[b]
    BY <1>1, <2>1 DEF TypeOK, Kind
  <2> QED
    BY ONLY <1>1, <2>1, <2>2, o \in Objs
<1>2. CASE Kind(o) = "array"
  <2> DEFINE e == obj[o].elem
  <2>1. e \in Objs /\ Kind(e) = "cb"
    BY <1>2 DEF Shape
  <2>2. Kind(c) = "free" /\ obj' = [obj EXCEPT ![c] = obj[o], ![e].ref = @ + 1]
    BY <1>2 DEF CloneInto
  <2>3. c # e
    BY <2>1, <2>2
  <2> HIDE DEF e
  <2>4. /\ obj'[e].kind = "cb" /\ obj'[e].ref = obj[e].ref + 1
        /\ obj'[e].elem = obj[e].elem /\ obj'[e].word = obj[e].word
        /\ obj'[c] = obj[o]
        /\ \A b \in Objs : b # e /\ b # c => obj'[b] = obj[b]
    BY <2>1, <2>2, <2>3 DEF TypeOK, Kind
  <2>5. obj[o].elem = e
    BY DEF e
  <2> QED
    BY ONLY <1>2, <2>1, <2>2, <2>4, <2>5
<1> QED
  BY <1>1, <1>2

(* What giving up a reference does to a block.                              *)
LEMMA DropEffect ==
  ASSUME TypeOK, NEW o \in Objs
  PROVE  /\ obj[o].ref = 1 => Dropped(obj, o)[o] = Free
         /\ obj[o].ref # 1 =>
              /\ Dropped(obj, o)[o].kind = obj[o].kind
              /\ Dropped(obj, o)[o].ref = obj[o].ref - 1
              /\ Dropped(obj, o)[o].elem = obj[o].elem
              /\ Dropped(obj, o)[o].word = obj[o].word
         /\ \A b \in Objs : b # o => Dropped(obj, o)[b] = obj[b]
         /\ DOMAIN Dropped(obj, o) = Objs
<1>1. CASE obj[o].ref = 1
  <2>1. Dropped(obj, o) = [obj EXCEPT ![o] = Free]
    BY <1>1 DEF Dropped
  <2> QED
    BY <1>1, <2>1 DEF TypeOK
<1>2. CASE obj[o].ref # 1
  <2>1. Dropped(obj, o) = [obj EXCEPT ![o].ref = @ - 1]
    BY <1>2 DEF Dropped
  <2> QED
    BY <1>2, <2>1 DEF TypeOK
<1> QED
  BY <1>1, <1>2

(* What mt_release of a bundle or an array does: a reference to bundle e is *)
(* given up, and an array goes.                                             *)
LEMMA ReleaseEffect ==
  ASSUME TypeOK, Shape, NEW o \in Objs, Kind(o) \in {"cb", "array"}, obj' = Released(o)
  PROVE  \E e \in Objs :
           /\ Kind(e) = "cb"
           /\ obj[e].ref = 1 => obj'[e] = Free
           /\ obj[e].ref # 1 => /\ obj'[e].kind = "cb" /\ obj'[e].ref = obj[e].ref - 1
                                /\ obj'[e].elem = obj[e].elem /\ obj'[e].word = obj[e].word
           /\ \/ Kind(o) = "cb" /\ e = o
              \/ Kind(o) = "array" /\ e = obj[o].elem /\ obj'[o] = Free
           /\ \A b \in Objs : b # e /\ b # o => obj'[b] = obj[b]
<1>1. CASE Kind(o) = "cb"
  <2>1. obj' = Dropped(obj, o)
    BY <1>1 DEF Released
  <2> QED
    BY ONLY <1>1, <2>1, DropEffect, TypeOK, o \in Objs DEF Kind
<1>2. CASE Kind(o) = "array"
  <2>1. obj[o].elem \in Objs /\ Kind(obj[o].elem) = "cb"
    BY <1>2 DEF Shape
  <2>2. PICK e \in Objs : e = obj[o].elem
    BY <2>1
  <2>3. obj' = [Dropped(obj, e) EXCEPT ![o] = Free] /\ e # o /\ Kind(e) = "cb"
    BY <1>2, <2>1, <2>2 DEF Released
  <2>4. /\ obj'[o] = Free /\ obj'[e] = Dropped(obj, e)[e]
        /\ \A b \in Objs : b # e /\ b # o => obj'[b] = obj[b]
    BY ONLY <2>3, DropEffect, TypeOK, o \in Objs, e \in Objs
  <2> QED
    BY ONLY <1>2, <2>2, <2>3, <2>4, DropEffect, TypeOK, e \in Objs DEF Kind
<1> QED
  BY <1>1, <1>2

(* RefsExact in two halves: what variables and arrays refer to, and what    *)
(* processes do.                                                            *)
BundleRefs ==
    \A o \in Objs :
        /\ Kind(o) = "cb" => obj[o].ref = Refs(o) + stray[o] /\ obj[o].ref > 0
        /\ Kind(o) = "array" => Refs(o) = 1
        /\ Kind(o) = "free" => Refs(o) = 0
BarRefs ==
    \A o \in Objs :
        /\ Kind(o) = "forking" => obj[o].ref = Cardinality(Forked(o)) /\ obj[o].ref > 0
        /\ Kind(o) = "free" => Forked(o) = {}

(* The counts of PARs.                                                      *)
BranchCounts ==
    \A p \in Procs :
        /\ state[p] = "par" => Branches(p) # {}
        /\ Count[p] = Cardinality(Branches(p))
                      + (IF state[p] # "par" /\ Count[p] > 0 THEN 1 ELSE 0)

(* The halves of RefsExact and SleeperHasWaker hold when they do.           *)
LEMMA Halves ==
  ASSUME MInv PROVE BundleRefs /\ BarRefs /\ BranchCounts
BY DEF MInv, RefsExact, SleeperHasWaker, BundleRefs, BarRefs, BranchCounts

(* A set with one element.                                                  *)
LEMMA Singleton ==
  ASSUME NEW S, IsFiniteSet(S), Cardinality(S) = 1, NEW x \in S PROVE S = {x}
<1>1. PICK y : S = {y}
  BY FS_Singleton
<1> QED
  BY <1>1

(* What cloning into variable r of q changes.                               *)
Cloned(p, s, q, r, o, e, c) ==
    /\ o = var[p][s] /\ var[q][r] = NULL /\ Set(q, r, c)
    /\ \A a \in Procs, b \in Slots :
          var'[a][b] = var[a][b] \/ (a = q /\ b = r /\ var'[a][b] = c)
    /\ Kind(e) = "cb" /\ obj'[e].kind = "cb" /\ obj'[e].ref = obj[e].ref + 1
    /\ obj'[e].elem = obj[e].elem /\ obj'[e].word = obj[e].word
    /\ \/ Kind(o) = "cb" /\ c = o /\ e = o
       \/ /\ Kind(o) = "array" /\ Kind(c) = "free" /\ obj[o].elem = e
          /\ obj'[c] = obj[o]
    /\ \A b \in Objs : b # e /\ b # c => obj'[b] = obj[b]

(* Clone does what Cloned says.                                             *)
LEMMA CloneFacts ==
  ASSUME MInv, NEW p \in Procs, NEW s \in Slots, NEW q \in Procs, NEW r \in Slots,
         Clone(p, s, q, r)
  PROVE  \E o, e, c \in Objs : Cloned(p, s, q, r, o, e, c)
<1>1. var[p][s] # NULL /\ var[q][r] = NULL
  BY DEF Clone
<1>2. PICK c \in Objs : CloneInto(var[p][s], c) /\ Set(q, r, c)
  BY DEF Clone
<1>3. PICK o \in Objs : o = var[p][s]
  BY <1>1 DEF MInv, TypeOK
<1>4. Kind(o) \in {"cb", "array"}
  BY <1>1, <1>3 DEF MInv, Shape
<1>5. PICK e \in Objs :
        /\ Kind(e) = "cb" /\ obj'[e].kind = "cb" /\ obj'[e].ref = obj[e].ref + 1
        /\ obj'[e].elem = obj[e].elem /\ obj'[e].word = obj[e].word
        /\ \/ Kind(o) = "cb" /\ c = o /\ e = o
           \/ /\ Kind(o) = "array" /\ Kind(c) = "free" /\ obj[o].elem = e
              /\ obj'[c] = obj[o]
        /\ \A b \in Objs : b # e /\ b # c => obj'[b] = obj[b]
  BY ONLY <1>2, <1>3, <1>4, MInv, CloneEffect DEF MInv
<1>6. \A a \in Procs, b \in Slots :
         var'[a][b] = var[a][b] \/ (a = q /\ b = r /\ var'[a][b] = c)
  BY <1>2 DEF MInv, TypeOK, Set
<1> QED
  BY ONLY <1>1, <1>2, <1>3, <1>5, <1>6 DEF Cloned

(* What an output changes: a shared end is shared with the receiver; an     *)
(* array goes to it, and its bundle has a reference too many.               *)
Moved(p, s, q, r, o, e) ==
    /\ o = var[p][s] /\ var[q][r] = NULL
    /\ \A a \in Procs, b \in Slots :
          \/ var'[a][b] = var[a][b]
          \/ a = q /\ b = r /\ var'[a][b] = o
          \/ var'[a][b] = NULL
    /\ Kind(e) = "cb" /\ obj'[e].kind = "cb" /\ obj'[e].ref = obj[e].ref + 1
    /\ obj'[e].elem = obj[e].elem /\ obj'[e].word = obj[e].word
    /\ \A b \in Objs : b # e => obj'[b] = obj[b] /\ stray'[b] = stray[b]
    /\ \/ /\ Kind(o) = "cb" /\ e = o /\ Set(q, r, o)
          /\ stray'[e] = stray[e]
       \/ /\ Kind(o) = "array" /\ e = obj[o].elem
          /\ var' = [var EXCEPT ![q][r] = o, ![p][s] = NULL]
          /\ stray[e] < MaxLeak /\ stray'[e] = stray[e] + 1

(* Move does what Moved says.                                               *)
LEMMA MoveFacts ==
  ASSUME MInv, NEW p \in Procs, NEW s \in Slots, NEW q \in Procs, NEW r \in Slots,
         Move(p, s, q, r)
  PROVE  \E o, e \in Objs : Moved(p, s, q, r, o, e)
<1>1. var[p][s] # NULL /\ var[q][r] = NULL
  BY DEF Move
<1>2. PICK o \in Objs : o = var[p][s]
  BY <1>1 DEF MInv, TypeOK
<1>3. CASE Shares(p, s, q, r)
  <2>1. /\ Kind(o) = "cb" /\ obj' = [obj EXCEPT ![o].ref = @ + 1] /\ stray' = stray
        /\ Set(q, r, o)
    BY <1>2, <1>3 DEF Shares, IoUpdateCB
  <2>2. /\ obj'[o].kind = "cb" /\ obj'[o].ref = obj[o].ref + 1
        /\ obj'[o].elem = obj[o].elem /\ obj'[o].word = obj[o].word
        /\ \A b \in Objs : b # o => obj'[b] = obj[b]
    BY <2>1 DEF MInv, TypeOK, Kind
  <2>3. \A a \in Procs, b \in Slots :
           var'[a][b] = var[a][b] \/ (a = q /\ b = r /\ var'[a][b] = o)
    BY <2>1 DEF MInv, TypeOK, Set
  <2> QED
    BY ONLY <1>1, <1>2, <2>1, <2>2, <2>3 DEF Moved
<1>4. CASE Moves(p, s, q, r)
  <2>1. Kind(o) = "array"
    BY <1>2, <1>4 DEF Moves, IoUpdateArray
  <2>2. PICK e \in Objs : e = obj[o].elem /\ Kind(e) = "cb"
    BY <2>1 DEF MInv, Shape
  <2>3. /\ obj' = [obj EXCEPT ![e].ref = @ + 1]
        /\ stray[e] < MaxLeak /\ stray' = [stray EXCEPT ![e] = @ + 1]
        /\ var' = [var EXCEPT ![q][r] = o, ![p][s] = NULL]
    BY <1>2, <1>4, <2>2 DEF Moves, IoUpdateArray
  <2>4. /\ obj'[e].kind = "cb" /\ obj'[e].ref = obj[e].ref + 1
        /\ obj'[e].elem = obj[e].elem /\ obj'[e].word = obj[e].word
        /\ stray'[e] = stray[e] + 1
        /\ \A b \in Objs : b # e => obj'[b] = obj[b] /\ stray'[b] = stray[b]
    BY <2>2, <2>3 DEF MInv, TypeOK, Kind
  <2>5. \A a \in Procs, b \in Slots :
           \/ var'[a][b] = var[a][b]
           \/ a = q /\ b = r /\ var'[a][b] = o
           \/ var'[a][b] = NULL
    BY <2>3 DEF MInv, TypeOK
  <2> QED
    BY ONLY <1>1, <1>2, <2>1, <2>2, <2>3, <2>4, <2>5 DEF Moved
<1> QED
  BY <1>3, <1>4 DEF Move

(* What a release changes.                                                  *)
GivenUp(p, s, o, e) ==
    /\ o = var[p][s] /\ Set(p, s, NULL)
    /\ \A a \in Procs, b \in Slots : var'[a][b] \in {var[a][b], NULL}
    /\ Kind(e) = "cb"
    /\ obj[e].ref = 1 => obj'[e] = Free
    /\ obj[e].ref # 1 => /\ obj'[e].kind = "cb" /\ obj'[e].ref = obj[e].ref - 1
                         /\ obj'[e].elem = obj[e].elem /\ obj'[e].word = obj[e].word
    /\ \/ Kind(o) = "cb" /\ e = o
       \/ Kind(o) = "array" /\ e = obj[o].elem /\ obj'[o] = Free
    /\ \A b \in Objs : b # e /\ b # o => obj'[b] = obj[b]
    /\ \A b \in Objs : stray'[b] = IF obj'[b].kind = "free" THEN 0 ELSE stray[b]
    /\ DOMAIN stray' = Objs

(* Release does what GivenUp says.                                          *)
LEMMA ReleaseFacts ==
  ASSUME MInv, NEW p \in Procs, NEW s \in Slots, Release(p, s)
  PROVE  \E o, e \in Objs : GivenUp(p, s, o, e)
<1>1. /\ var[p][s] # NULL /\ Set(p, s, NULL)
      /\ obj' = Released(var[p][s]) /\ stray' = Kept(obj')
  BY DEF Release
<1>2. PICK o \in Objs : o = var[p][s]
  BY <1>1 DEF MInv, TypeOK
<1>3. Kind(o) \in {"cb", "array"}
  BY <1>1, <1>2 DEF MInv, Shape
<1>4. PICK e \in Objs :
        /\ Kind(e) = "cb"
        /\ obj[e].ref = 1 => obj'[e] = Free
        /\ obj[e].ref # 1 => /\ obj'[e].kind = "cb" /\ obj'[e].ref = obj[e].ref - 1
                             /\ obj'[e].elem = obj[e].elem /\ obj'[e].word = obj[e].word
        /\ \/ Kind(o) = "cb" /\ e = o
           \/ Kind(o) = "array" /\ e = obj[o].elem /\ obj'[o] = Free
        /\ \A b \in Objs : b # e /\ b # o => obj'[b] = obj[b]
  BY ONLY <1>1, <1>2, <1>3, MInv, ReleaseEffect DEF MInv
<1>5. \A a \in Procs, b \in Slots : var'[a][b] \in {var[a][b], NULL}
  BY <1>1 DEF MInv, TypeOK, Set
<1>6. /\ \A b \in Objs : stray'[b] = IF obj'[b].kind = "free" THEN 0 ELSE stray[b]
      /\ DOMAIN stray' = Objs
  BY ONLY <1>1 DEF Kept
<1> QED
  BY ONLY <1>1, <1>2, <1>4, <1>5, <1>6 DEF GivenUp

(* What fork_bar_sync changes when it gives up the opener's reference.      *)
Waits(p, o) ==
    /\ o = forkBar[p] /\ Kind(o) = "forking" /\ opened[p] /\ obj[o].word = p
    /\ state[p] = "dec" /\ p \in Forked(o)
    /\ \A b \in Objs : b # o => obj'[b] = obj[b]
    /\ \A q \in Procs : q # p => /\ state'[q] = state[q] /\ forkBar'[q] = forkBar[q]
                                 /\ opened'[q] = opened[q]
    /\ \/ /\ obj[o].ref = 1 /\ Forked(o) = {p} /\ obj'[o] = Free
          /\ state'[p] = "run" /\ forkBar'[p] = NULL /\ opened'[p] = FALSE
       \/ /\ obj[o].ref > 1 /\ obj'[o].kind = "forking" /\ obj'[o].ref = obj[o].ref - 1
          /\ obj'[o].elem = obj[o].elem /\ obj'[o].word = p
          /\ state'[p] = "sync" /\ forkBar'[p] = o /\ opened'[p] = TRUE

(* SyncDec does what Waits says: with one reference left it is the opener's own, *)
(* so nobody is left to wait for.                                           *)
LEMMA SyncDecFacts ==
  ASSUME MInv, NEW p \in Procs, SyncDec(p)
  PROVE  \E o \in Objs : Waits(p, o)
<1>1. state[p] = "dec" /\ opened[p] /\ forkBar[p] # NULL /\ obj[forkBar[p]].word = p
  BY DEF SyncDec, MInv, Blocks
<1>2. PICK o \in Objs : o = forkBar[p]
  BY <1>1 DEF MInv, TypeOK
<1>3. Kind(o) = "forking"
  BY <1>1, <1>2 DEF MInv, Shape
<1>4. p \in Forked(o)
  BY <1>1, <1>2 DEF Forked
<1>5. obj[o].ref = Cardinality(Forked(o)) /\ obj[o].ref > 0 /\ obj[o].ref \in Nat
  BY <1>3 DEF MInv, TypeOK, RefsExact
<1>6. obj' = Dropped(obj, o)
  BY <1>2 DEF SyncDec
<1>7. \A b \in Objs : b # o => obj'[b] = obj[b]
  BY ONLY <1>6, DropEffect, MInv, o \in Objs DEF MInv
<1>8. CASE obj[o].ref = 1
  <2>1. Forked(o) = {p}
    BY ONLY <1>4, <1>5, <1>8, Finite, Singleton
  <2>2. obj'[o] = Free
    BY ONLY <1>6, <1>8, DropEffect, MInv, o \in Objs DEF MInv
  <2>3. /\ \A q \in Procs : q # p => /\ state'[q] = state[q] /\ forkBar'[q] = forkBar[q]
                                     /\ opened'[q] = opened[q]
        /\ state'[p] = "run" /\ forkBar'[p] = NULL /\ opened'[p] = FALSE
    BY <1>2, <1>8 DEF SyncDec, To, MInv, TypeOK
  <2> QED
    BY ONLY <1>1, <1>2, <1>3, <1>4, <1>7, <1>8, <2>1, <2>2, <2>3 DEF Waits
<1>9. CASE obj[o].ref # 1
  <2>1. obj[o].ref > 1
    BY <1>5, <1>9
  <2>2. /\ obj'[o].kind = "forking" /\ obj'[o].ref = obj[o].ref - 1
        /\ obj'[o].elem = obj[o].elem /\ obj'[o].word = obj[o].word
    BY ONLY <1>3, <1>6, <1>9, DropEffect, MInv, o \in Objs DEF MInv, Kind
  <2>3. /\ \A q \in Procs : q # p => /\ state'[q] = state[q] /\ forkBar'[q] = forkBar[q]
                                     /\ opened'[q] = opened[q]
        /\ state'[p] = "sync" /\ forkBar'[p] = forkBar[p] /\ opened'[p] = opened[p]
    BY <1>2, <1>9 DEF SyncDec, To, MInv, TypeOK
  <2>4. opened[p] = TRUE
    BY <1>1 DEF MInv, TypeOK
  <2> QED
    BY ONLY <1>1, <1>2, <1>3, <1>4, <1>7, <1>9, <2>1, <2>2, <2>3, <2>4 DEF Waits
<1> QED
  BY <1>8, <1>9

(* What the end of a forked process changes.  If its reference is the last  *)
(* one, the opener is in the word and asleep.                               *)
Finishes(p, o) ==
    /\ o = forkBar[p] /\ Kind(o) = "forking" /\ ~opened[p] /\ state[p] = "run"
    /\ Count[p] = 0 /\ parent[p] = NULL /\ p \in Forked(o)
    /\ \A b \in Objs : b # o => obj'[b] = obj[b]
    /\ \/ /\ obj[o].ref = 1 /\ Forked(o) = {p} /\ obj'[o] = Free /\ late' = late
          /\ \E w \in Procs :
               /\ w # p /\ obj[o].word = w /\ forkBar[w] = o /\ opened[w]
               /\ state[w] = "sync"
               /\ state'[p] = "none" /\ state'[w] = "run"
               /\ forkBar'[p] = NULL /\ forkBar'[w] = NULL
               /\ opened'[p] = opened[p] /\ opened'[w] = FALSE
               /\ \A q \in Procs : q # p /\ q # w =>
                     /\ state'[q] = state[q] /\ forkBar'[q] = forkBar[q]
                     /\ opened'[q] = opened[q]
       \/ /\ obj[o].ref > 1 /\ obj'[o].kind = "forking" /\ obj'[o].ref = obj[o].ref - 1
          /\ obj'[o].elem = obj[o].elem /\ obj'[o].word = obj[o].word
          /\ state'[p] = "resign" /\ forkBar'[p] = NULL /\ opened' = opened
          /\ late' = [late EXCEPT ![p] = o]
          /\ \A q \in Procs : q # p =>
                state'[q] = state[q] /\ forkBar'[q] = forkBar[q]

(* ReleaseBar does what Finishes says: with one reference left it is the    *)
(* process's own, and the opener that is in the word sleeps.                *)
LEMMA ReleaseBarFacts ==
  ASSUME MInv, NEW p \in Procs, ReleaseBar(p)
  PROVE  \E o \in Objs : Finishes(p, o)
<1>1. state[p] = "run" /\ forkBar[p] # NULL /\ ~opened[p] /\ Count[p] = 0
  BY DEF ReleaseBar
<1>2. PICK o \in Objs : o = forkBar[p]
  BY <1>1 DEF MInv, TypeOK
<1>3. Kind(o) = "forking"
  BY <1>1, <1>2 DEF MInv, Shape
<1>4. p \in Forked(o)
  BY <1>1, <1>2 DEF Forked
<1>5. obj[o].ref = Cardinality(Forked(o)) /\ obj[o].ref > 0 /\ obj[o].ref \in Nat
  BY <1>3 DEF MInv, TypeOK, RefsExact
<1>6. obj' = Dropped(obj, o)
  BY <1>2 DEF ReleaseBar
<1>7. \A b \in Objs : b # o => obj'[b] = obj[b]
  BY ONLY <1>6, DropEffect, MInv, o \in Objs DEF MInv
<1>8. parent[p] = NULL
  BY <1>1 DEF MInv, Families
<1>9. CASE obj[o].ref = 1
  <2>1. Forked(o) = {p}
    BY ONLY <1>4, <1>5, <1>9, Finite, Singleton
  <2>2. obj'[o] = Free
    BY ONLY <1>6, <1>9, DropEffect, MInv, o \in Objs DEF MInv
  <2>3. PICK w \in Procs : opened[w] /\ forkBar[w] = o
    BY <1>3 DEF MInv, Blocks
  <2>4. w # p
    BY <1>1, <2>3
  <2>5. state[w] = "sync"
    BY <2>1, <2>3, <2>4 DEF Forked
  <2>6. obj[o].word = w /\ w # NULL
    BY <2>3, <2>5, NullAssumption DEF MInv, Blocks
  <2>7. /\ state' = [state EXCEPT ![p] = "none", ![w] = "run"]
        /\ forkBar' = [forkBar EXCEPT ![p] = NULL, ![w] = NULL]
        /\ opened' = [opened EXCEPT ![w] = FALSE] /\ late' = late
    BY <1>2, <1>9, <2>6 DEF ReleaseBar, Leaves
  <2>8. /\ state'[p] = "none" /\ state'[w] = "run"
        /\ forkBar'[p] = NULL /\ forkBar'[w] = NULL
        /\ opened'[p] = opened[p] /\ opened'[w] = FALSE
        /\ \A q \in Procs : q # p /\ q # w =>
              /\ state'[q] = state[q] /\ forkBar'[q] = forkBar[q]
              /\ opened'[q] = opened[q]
    BY <2>4, <2>7 DEF MInv, TypeOK
  <2>9. late' = late
    BY ONLY <2>7
  <2>10. \E v \in Procs :
           /\ v # p /\ obj[o].word = v /\ forkBar[v] = o /\ opened[v] /\ state[v] = "sync"
           /\ state'[p] = "none" /\ state'[v] = "run"
           /\ forkBar'[p] = NULL /\ forkBar'[v] = NULL
           /\ opened'[p] = opened[p] /\ opened'[v] = FALSE
           /\ \A q \in Procs : q # p /\ q # v =>
                 /\ state'[q] = state[q] /\ forkBar'[q] = forkBar[q]
                 /\ opened'[q] = opened[q]
    BY ONLY <2>3, <2>4, <2>5, <2>6, <2>8
  <2> QED
    BY ONLY <1>1, <1>2, <1>3, <1>4, <1>7, <1>8, <1>9, <2>1, <2>2, <2>9, <2>10 DEF Finishes
<1>10. CASE obj[o].ref # 1
  <2>1. obj[o].ref > 1
    BY <1>5, <1>10
  <2>2. /\ obj'[o].kind = "forking" /\ obj'[o].ref = obj[o].ref - 1
        /\ obj'[o].elem = obj[o].elem /\ obj'[o].word = obj[o].word
    BY ONLY <1>3, <1>6, <1>10, DropEffect, MInv, o \in Objs DEF MInv, Kind
  <2>3. /\ state' = [state EXCEPT ![p] = "resign"] /\ late' = [late EXCEPT ![p] = o]
        /\ forkBar' = [forkBar EXCEPT ![p] = NULL] /\ opened' = opened
    BY <1>2, <1>10 DEF ReleaseBar, To
  <2>4. /\ state'[p] = "resign" /\ forkBar'[p] = NULL
        /\ \A q \in Procs : q # p => state'[q] = state[q] /\ forkBar'[q] = forkBar[q]
    BY <2>3 DEF MInv, TypeOK
  <2> QED
    BY ONLY <1>1, <1>2, <1>3, <1>4, <1>7, <1>8, <1>10, <2>1, <2>2, <2>3, <2>4 DEF Finishes
<1> QED
  BY <1>9, <1>10

(* What the end of a branch of a PAR changes.                               *)
Ends(p, w) ==
    /\ state[p] = "run" /\ ~opened[p]
    /\ Count'[w] = Count[w] - 1 /\ Count[w] > 0 /\ Count[w] \in Nat
    /\ \A q \in Procs : q # w => Count'[q] = Count[q]
    /\ \A q \in Procs : q # p => parent'[q] = parent[q]
    /\ \A q \in Procs : q # p /\ q # w => state'[q] = state[q]
    /\ \/ /\ w = p /\ parent'[p] = parent[p]
          /\ state'[p] = IF Count[p] = 1 THEN "run" ELSE "par"
       \/ /\ w # p /\ w = parent[p] /\ p \in Branches(w)
          /\ forkBar[p] = NULL /\ Count[p] = 0 /\ parent'[p] = NULL
          /\ state'[p] = "none"
          /\ state'[w] = IF Count[w] = 1 THEN "run" ELSE state[w]
          /\ Count[w] = 1 => state[w] = "par"

(* Endp does what Ends says: the last branch finds its parent asleep.       *)
LEMMA EndpFacts ==
  ASSUME MInv, NEW p \in Procs, NEW w \in Procs, Endp(p, w)
  PROVE  Ends(p, w)
<1>1. /\ state[p] = "run" /\ ~opened[p]
      /\ (w = parent[p] /\ w # NULL /\ Count[p] = 0) \/ (w = p /\ Count[p] > 0)
      /\ Count' = [Count EXCEPT ![w] = @ - 1]
      /\ parent' = [parent EXCEPT ![p] = IF w = p THEN @ ELSE NULL]
  BY DEF Endp
<1>2. /\ Count'[w] = Count[w] - 1 /\ \A q \in Procs : q # w => Count'[q] = Count[q]
      /\ \A q \in Procs : q # p => parent'[q] = parent[q]
      /\ Count[w] \in Nat /\ Count[p] \in Nat
  BY <1>1 DEF MInv, TypeOK
<1>3. CASE w = p /\ Count[p] > 0
  <2>1. Count[p] = 1 => state' = [[state EXCEPT ![p] = "par"] EXCEPT ![p] = "run"]
    BY <1>3 DEF Endp
  <2>2. Count[p] # 1 => state' = [state EXCEPT ![p] = "par"]
    BY <1>3 DEF Endp
  <2>3. /\ state'[p] = IF Count[p] = 1 THEN "run" ELSE "par"
        /\ \A q \in Procs : q # p => state'[q] = state[q]
    BY <2>1, <2>2 DEF MInv, TypeOK
  <2>4. parent'[p] = parent[p]
    BY <1>1, <1>3 DEF MInv, TypeOK
  <2> QED
    BY ONLY <1>1, <1>2, <1>3, <2>3, <2>4 DEF Ends
<1>4. CASE w = parent[p] /\ w # NULL /\ Count[p] = 0
  <2>1. p \in Branches(w)
    BY <1>1, <1>4 DEF Branches
  <2>2. Cardinality(Branches(w)) # 0 /\ Cardinality(Branches(w)) \in Nat
    BY ONLY <2>1, Finite, FS_EmptySet
  <2>3. Count[w] = Cardinality(Branches(w)) + (IF state[w] # "par" /\ Count[w] > 0 THEN 1 ELSE 0)
    BY DEF MInv, SleeperHasWaker
  <2>4. Count[w] > 0 /\ (Count[w] = 1 => state[w] = "par")
    BY ONLY <1>2, <2>2, <2>3
  <2>5. w # p
    BY ONLY <1>2, <1>4, <2>4
  <2>6. Count[w] = 1 => state' = [[state EXCEPT ![p] = "none"] EXCEPT ![w] = "run"]
    BY <2>5 DEF Endp
  <2>7. Count[w] # 1 => state' = [state EXCEPT ![p] = "none"]
    BY <2>5 DEF Endp
  <2>8. /\ state'[p] = "none" /\ state'[w] = IF Count[w] = 1 THEN "run" ELSE state[w]
        /\ \A q \in Procs : q # p /\ q # w => state'[q] = state[q]
    BY <2>5, <2>6, <2>7 DEF MInv, TypeOK
  <2>9. parent'[p] = NULL
    BY <1>1, <2>5 DEF MInv, TypeOK
  <2>10. forkBar[p] = NULL
    BY <1>1, <1>4 DEF MInv, Families
  <2> QED
    BY ONLY <1>1, <1>2, <1>4, <2>1, <2>4, <2>5, <2>8, <2>9, <2>10 DEF Ends
<1> QED
  BY <1>1, <1>3, <1>4

(* What does not change what blocks have in them does not change who is in  *)
(* which.                                                                   *)
LEMMA ElementsSame ==
  ASSUME \A b \in Objs : obj'[b].elem = obj[b].elem
  PROVE  \A o : Elements(o)' = Elements(o)
BY DEF Elements

(* No variable changes, so no block has other holders.                      *)
LEMMA HoldersSame ==
  ASSUME var' = var
  PROVE  \A o : Holders(o)' = Holders(o)
BY DEF Holders

(* A fork barrier is in no variable and in no array.                        *)
LEMMA BarsUnreferred ==
  ASSUME MInv, NEW o \in Objs, Kind(o) = "forking" PROVE Refs(o) = 0
<1>1. Holders(o) = {}
  <2>1. \A p \in Procs, s \in Slots : var[p][s] # o
    BY NullAssumption DEF MInv, Shape
  <2> QED
    BY <2>1 DEF Holders
<1>2. Elements(o) = {}
  BY NullAssumption DEF MInv, Shape, Elements
<1> QED
  BY <1>1, <1>2, FS_EmptySet DEF Refs

(* What is unreferred after a step is in no variable and in no array.       *)
LEMMA UnreferredNext ==
  ASSUME NEW o \in Objs, Refs(o)' = 0
  PROVE  /\ \A p \in Procs, s \in Slots : var'[p][s] # o
         /\ \A a \in Objs : obj'[a].elem # o
<1>1. IsFiniteSet(Holders(o)')
  <2>1. IsFiniteSet(Procs \X Slots) /\ Holders(o)' \subseteq Procs \X Slots
    BY FiniteAssumption, FS_Product DEF Holders
  <2> QED
    BY <2>1, FS_Subset
<1>2. IsFiniteSet(Elements(o)')
  <2>1. Elements(o)' \subseteq Objs
    BY DEF Elements
  <2> QED
    BY <2>1, FiniteAssumption, FS_Subset
<1>3. Cardinality(Holders(o)') = 0 /\ Cardinality(Elements(o)') = 0
  <2>1. Cardinality(Holders(o)') \in Nat /\ Cardinality(Elements(o)') \in Nat
    BY <1>1, <1>2, FS_CardinalityType
  <2>2. Cardinality(Holders(o)') + Cardinality(Elements(o)') = 0
    BY DEF Refs
  <2> QED
    BY ONLY <2>1, <2>2
<1>4. Holders(o)' = {} /\ Elements(o)' = {}
  BY ONLY <1>1, <1>2, <1>3, FS_EmptySet
<1>5. \A p \in Procs, s \in Slots : var'[p][s] = o => <<p, s>> \in Holders(o)'
  BY DEF Holders
<1>6. \A a \in Objs : obj'[a].elem = o => a \in Elements(o)'
  BY DEF Elements
<1> QED
  BY ONLY <1>4, <1>5, <1>6

(* Operations on variables leave fork barriers and processes alone.         *)
Aside ==
    /\ \A b \in Objs : /\ Kind(b) = "forking" => obj'[b] = obj[b]
                       /\ obj'[b].kind = "forking" => Kind(b) = "forking"
    /\ UNCHANGED <<state, forkBar, opened, parent, Count, late>>

(* Actions on variables of bundles and arrays do what Aside says.           *)
LEMMA VariablesAside ==
  ASSUME MInv, NEW p \in Procs, NEW r \in Slots, NEW s \in Slots, NEW q \in Procs,
         \/ AllocCB(p, r, s) \/ AllocArray(p, s) \/ Release(p, s)
         \/ Clone(p, s, q, r) \/ Move(p, s, q, r)
  PROVE  Aside
<1>1. CASE AllocCB(p, r, s)
  BY <1>1 DEF AllocCB, Aside, Kind, Free, MInv, TypeOK
<1>2. CASE AllocArray(p, s)
  BY <1>2 DEF AllocArray, Aside, Kind, Free, MInv, TypeOK
<1>3. CASE Release(p, s)
  <2>1. PICK o, e \in Objs : GivenUp(p, s, o, e)
    BY <1>3, ReleaseFacts
  <2>2. UNCHANGED <<state, forkBar, opened, parent, Count, late>>
    BY <1>3 DEF Release
  <2>3. \A b \in Objs : /\ Kind(b) = "forking" => obj'[b] = obj[b]
                        /\ obj'[b].kind = "forking" => Kind(b) = "forking"
    BY ONLY <2>1 DEF GivenUp, Kind, Free
  <2> QED
    BY ONLY <2>2, <2>3 DEF Aside
<1>4. CASE Clone(p, s, q, r)
  <2>1. PICK o, e, c \in Objs : Cloned(p, s, q, r, o, e, c)
    BY <1>4, CloneFacts
  <2>2. UNCHANGED <<state, forkBar, opened, parent, Count, late>>
    BY <1>4 DEF Clone
  <2>3. \A b \in Objs : /\ Kind(b) = "forking" => obj'[b] = obj[b]
                        /\ obj'[b].kind = "forking" => Kind(b) = "forking"
    BY ONLY <2>1 DEF Cloned, Kind
  <2> QED
    BY ONLY <2>2, <2>3 DEF Aside
<1>5. CASE Move(p, s, q, r)
  <2>1. PICK o, e \in Objs : Moved(p, s, q, r, o, e)
    BY <1>5, MoveFacts
  <2>2. UNCHANGED <<state, forkBar, opened, parent, Count, late>>
    BY <1>5 DEF Move
  <2>3. \A b \in Objs : /\ Kind(b) = "forking" => obj'[b] = obj[b]
                        /\ obj'[b].kind = "forking" => Kind(b) = "forking"
    BY ONLY <2>1 DEF Moved, Kind
  <2> QED
    BY ONLY <2>2, <2>3 DEF Aside
<1> QED
  BY <1>1, <1>2, <1>3, <1>4, <1>5

(* At most one process takes or gives up a reference to a barrier.          *)
LEMMA ForkedOne ==
  ASSUME NEW p \in Procs,
         \A q \in Procs : q # p => /\ forkBar'[q] = forkBar[q]
                                   /\ state'[q] = "sync" <=> state[q] = "sync"
  PROVE  \A o : /\ Forked(o)' = Forked(o) \/ (p \in Forked(o)' <=> p \notin Forked(o))
                /\ p \notin Forked(o) /\ p \in Forked(o)' =>
                     Cardinality(Forked(o)') = Cardinality(Forked(o)) + 1
                /\ p \in Forked(o) /\ p \notin Forked(o)' =>
                     Cardinality(Forked(o)') = Cardinality(Forked(o)) - 1
<1> SUFFICES ASSUME NEW o
             PROVE  /\ Forked(o)' = Forked(o) \/ (p \in Forked(o)' <=> p \notin Forked(o))
                    /\ p \notin Forked(o) /\ p \in Forked(o)' =>
                         Cardinality(Forked(o)') = Cardinality(Forked(o)) + 1
                    /\ p \in Forked(o) /\ p \notin Forked(o)' =>
                         Cardinality(Forked(o)') = Cardinality(Forked(o)) - 1
  OBVIOUS
<1>1. \A q : q # p => (q \in Forked(o)' <=> q \in Forked(o))
  BY DEF Forked
<1>2. IsFiniteSet(Forked(o))
  BY Finite
<1> QED
  BY ONLY <1>1, <1>2, OneDiffers

(* No process takes or gives up a reference to a barrier.                   *)
LEMMA ForkedSame ==
  ASSUME \A q \in Procs : forkBar'[q] = forkBar[q] /\ (state'[q] = "sync" <=> state[q] = "sync")
  PROVE  \A o : Forked(o)' = Forked(o)
BY DEF Forked

(* Only barriers are referred to by processes.                              *)
LEMMA OnlyBarsForked ==
  ASSUME MInv, NEW o \in Objs, Kind(o) # "forking" PROVE Forked(o) = {}
BY NullAssumption DEF MInv, Shape, Forked

-----------------------------------------------------------------------------
(* The counts of bundles are the references to them.                        *)
LEMMA BundleRefsStep == MInv /\ [Next]_vars => BundleRefs'
<1> SUFFICES ASSUME MInv, [Next]_vars PROVE BundleRefs'
  OBVIOUS
<1> USE MobileAssumption, NullAssumption
    DEF MInv, TypeOK, Shape, Kind, To, memory
<1>1. CASE UNCHANGED vars
  <2>1. var' = var /\ obj' = obj /\ stray' = stray
    BY <1>1 DEF vars
  <2>2. \A b : Elements(b)' = Elements(b) /\ Holders(b)' = Holders(b)
    BY ONLY <2>1, ElementsSame, HoldersSame
  <2> QED
    BY ONLY <2>1, <2>2, Halves, MInv DEF BundleRefs, Refs, Kind
<1>2. ASSUME NEW p \in Procs, NEW r \in Slots, NEW s \in Slots,
             AllocCB(p, r, s)
      PROVE  BundleRefs'
  <2>1. PICK o \in Objs :
          /\ Kind(o) = "free" /\ r # s /\ var[p][r] = NULL /\ var[p][s] = NULL
          /\ obj' = [obj EXCEPT ![o] = [Free EXCEPT !.kind = "cb", !.ref = 2]]
          /\ var' = [var EXCEPT ![p][r] = o, ![p][s] = o]
    BY <1>2 DEF AllocCB
  <2>2. UNCHANGED stray
    BY <1>2 DEF AllocCB
  <2>3. /\ BundleRefs /\ NULL \notin Objs
        /\ \A b \in Objs : /\ Cardinality(Holders(b)) \in Nat /\ Cardinality(Elements(b)) \in Nat
                           /\ stray[b] \in Nat /\ obj[b].ref \in Nat
    BY Halves, Finite, NullAssumption DEF MInv, TypeOK
  <2>4. /\ obj'[o].kind = "cb" /\ obj'[o].ref = 2 /\ obj'[o].elem = NULL
        /\ obj[o].elem = NULL /\ stray[o] = 0 /\ Refs(o) = 0
        /\ \A b \in Objs : b # o => obj'[b] = obj[b]
    BY <2>1, <2>3 DEF MInv, TypeOK, Shape, Free, BundleRefs
  <2>5. \A b : Elements(b)' = Elements(b)
    BY ONLY <2>4, ElementsSame
  <2>6. Cardinality(Elements(o)) = 0 /\ \A a \in Procs, b \in Slots : var[a][b] # o
    <3>1. \A a \in Procs, b \in Slots : var[a][b] # o
      BY ONLY <2>4, Unreferred, MInv DEF MInv
    <3>2. Cardinality(Elements(o)) = 0
      BY ONLY <2>3, <2>4 DEF Refs
    <3> QED
      BY <3>1, <3>2
  <2>7. \A a \in Procs, b \in Slots :
           var'[a][b] = IF a = p /\ b \in {r, s} THEN o ELSE var[a][b]
    BY <2>1 DEF MInv, TypeOK
  <2>8. Cardinality(Holders(o)') = 2
    <3>1. Holders(o)' = {<<p, r>>, <<p, s>>}
      BY <2>6, <2>7 DEF Holders
    <3>2. <<p, r>> # <<p, s>>
      BY <2>1
    <3>3. IsFiniteSet({<<p, s>>}) /\ Cardinality({<<p, s>>}) = 1
      BY FS_Singleton
    <3>4. {<<p, r>>, <<p, s>>} = {<<p, s>>} \cup {<<p, r>>} /\ <<p, r>> \notin {<<p, s>>}
      BY <3>2
    <3>5. Cardinality({<<p, s>>} \cup {<<p, r>>}) = 1 + 1
      BY ONLY <3>3, <3>4, FS_AddElement
    <3> QED
      BY ONLY <3>1, <3>4, <3>5
  <2>9. \A b \in Objs : b # o => Holders(b)' = Holders(b)
    <3>1. \A b \in Objs, a \in Procs, k \in Slots : b # o => (var'[a][k] = b <=> var[a][k] = b)
      <4>1. \A b \in Objs : b # NULL
        BY ONLY <2>3
      <4>2. var[p][r] = NULL /\ var[p][s] = NULL
        BY <2>1
      <4> QED
        BY ONLY <2>7, <4>1, <4>2
    <3> QED
      BY <3>1 DEF Holders
  <2> QED
    BY ONLY <2>1, <2>2, <2>3, <2>4, <2>5, <2>6, <2>8, <2>9 DEF BundleRefs, Refs, Kind
<1>3. ASSUME NEW p \in Procs, NEW s \in Slots, AllocArray(p, s) PROVE BundleRefs'
  <2>1. PICK o \in Objs :
          /\ Kind(o) = "free" /\ var[p][s] # NULL /\ Kind(var[p][s]) = "cb"
          /\ obj' = [obj EXCEPT ![o] = [Free EXCEPT !.kind = "array", !.elem = var[p][s]]]
          /\ Set(p, s, o)
    BY <1>3 DEF AllocArray
  <2>2. UNCHANGED stray
    BY <1>3 DEF AllocArray
  <2>3. /\ BundleRefs /\ NULL \notin Objs
        /\ \A b \in Objs : /\ Cardinality(Holders(b)) \in Nat /\ Cardinality(Elements(b)) \in Nat
                           /\ stray[b] \in Nat /\ obj[b].ref \in Nat
    BY Halves, Finite, NullAssumption DEF MInv, TypeOK
  <2>4. PICK e \in Objs : var[p][s] = e /\ Kind(e) = "cb" /\ e # o
    BY <2>1 DEF MInv, TypeOK
  <2>5. /\ obj'[o].kind = "array" /\ obj'[o].elem = e
        /\ obj[o].elem = NULL /\ stray[o] = 0 /\ Refs(o) = 0
        /\ \A b \in Objs : b # o => obj'[b] = obj[b]
    BY <2>1, <2>3, <2>4 DEF MInv, TypeOK, Shape, Free, BundleRefs
  <2>6. /\ Cardinality(Elements(e)') = Cardinality(Elements(e)) + 1
        /\ \A b \in Objs : b # e => Elements(b)' = Elements(b)
    BY ONLY <2>1, <2>3, <2>4, <2>5, ElementsSet
  <2>7. /\ Cardinality(Holders(o)') = Cardinality(Holders(o)) + 1
        /\ Cardinality(Holders(e)') = Cardinality(Holders(e)) - 1
        /\ \A b \in Objs : b # o /\ b # e => Holders(b)' = Holders(b)
    <3>1. TypeOK /\ Set(p, s, o)
      BY ONLY <2>1, MInv DEF MInv
    <3> QED
      BY ONLY <1>3, <2>4, <3>1, HoldersSet, <2>3
  <2> QED
    BY ONLY <2>1, <2>2, <2>3, <2>4, <2>5, <2>6, <2>7 DEF BundleRefs, Refs, Kind
<1>4. ASSUME NEW p \in Procs, NEW s \in Slots, Release(p, s) PROVE BundleRefs'
  <2>1. PICK o, e \in Objs : GivenUp(p, s, o, e)
    BY <1>4, ReleaseFacts
  <2>2. UNCHANGED <<state, forkBar, opened, parent, Count, late>>
    BY <1>4 DEF Release, memory
  <2>3. /\ BundleRefs /\ NULL \notin Objs
        /\ \A b \in Objs : /\ Cardinality(Holders(b)) \in Nat /\ Cardinality(Elements(b)) \in Nat
                           /\ stray[b] \in Nat /\ obj[b].ref \in Nat
    BY Halves, Finite, NullAssumption DEF MInv, TypeOK
  <2>4. /\ Cardinality(Holders(o)') = Cardinality(Holders(o)) - 1
        /\ \A b \in Objs : b # o => Holders(b)' = Holders(b)
    <3>1. var[p][s] = o /\ Set(p, s, NULL)
      BY ONLY <2>1 DEF GivenUp
    <3>2. TypeOK /\ o # NULL
      BY ONLY <2>1, <2>3, MInv DEF MInv
    <3> QED
      BY ONLY <1>4, <2>3, <3>1, <3>2, HoldersSet
  <2>5. Cardinality(Holders(o)) >= 1
    BY ONLY <1>4, <2>1, MInv, Referred DEF MInv, GivenUp
  <2>6. /\ Kind(e) = "cb"
        /\ \/ obj[e].ref = 1 /\ obj'[e] = Free /\ stray'[e] = 0
           \/ /\ obj[e].ref # 1 /\ obj'[e].kind = "cb" /\ obj'[e].ref = obj[e].ref - 1
              /\ obj'[e].elem = obj[e].elem /\ stray'[e] = stray[e]
        /\ \A b \in Objs : b # e /\ b # o =>
              obj'[b] = obj[b] /\ stray'[b] = IF obj[b].kind = "free" THEN 0 ELSE stray[b]
    BY ONLY <2>1 DEF GivenUp, Free
  <2>7. obj[e].elem = NULL /\ obj'[e].elem = NULL
    <3>1. obj[e].elem = NULL
      BY ONLY <2>1, <2>6, MInv DEF MInv, Shape, Kind
    <3> QED
      BY ONLY <2>6, <3>1 DEF Free
  <2>8. CASE Kind(o) = "cb"
    <3>1. e = o
      BY ONLY <2>1, <2>8 DEF GivenUp
    <3>2. \A b : Elements(b)' = Elements(b)
      BY ONLY <2>6, <2>7, <3>1, ElementsSame
    <3> QED
      BY ONLY <1>4, <2>1, <2>3, <2>4, <2>5, <2>6, <3>1, <3>2 DEF BundleRefs, Refs, Kind, Free
  <2>9. CASE Kind(o) # "cb"
    <3>1. Kind(o) = "array" /\ obj[o].elem = e /\ obj'[o] = Free /\ obj'[o].elem = NULL
      BY ONLY <2>1, <2>9 DEF GivenUp, Free
    <3>2. e # o
      BY ONLY <2>6, <3>1
    <3>3. /\ Cardinality(Elements(e)') = Cardinality(Elements(e)) - 1
          /\ \A b \in Objs : b # e => Elements(b)' = Elements(b)
      BY ONLY <2>1, <2>3, <2>6, <2>7, <3>1, <3>2, ElementsSet
    <3>4. Cardinality(Elements(e)) >= 1
      BY ONLY <2>1, <3>1, MInv, Referred DEF MInv
    <3> QED
      <4>1. Refs(o)' = 0 /\ obj'[o].kind = "free"
        BY ONLY <2>1, <2>3, <2>4, <2>5, <3>1, <3>2, <3>3 DEF BundleRefs, Refs, Kind, Free
      <4>2. /\ Refs(e)' = Refs(e) - 1 /\ Refs(e) \in Nat /\ Refs(e) >= 1
            /\ obj[e].ref = Refs(e) + stray[e] /\ obj[e].ref > 0
        BY ONLY <2>1, <2>3, <2>4, <2>6, <3>2, <3>3, <3>4 DEF BundleRefs, Refs
      <4>3. \A b \in Objs : b # e /\ b # o => Refs(b)' = Refs(b)
        BY ONLY <2>1, <2>4, <3>3 DEF Refs
      <4> QED
        <5>1. obj[e].ref = 1 => Refs(e)' = 0 /\ obj'[e].kind = "free"
          <6>1. stray[e] \in Nat
            BY ONLY <2>1, <2>3
          <6>2. obj[e].ref = 1 => obj'[e] = Free
            BY ONLY <2>6
          <6>3. obj[e].ref = 1 => Refs(e) = 1
            BY ONLY <4>2, <6>1
          <6>4. obj[e].ref = 1 => Refs(e)' = 0
            BY ONLY <4>2, <6>3
          <6> QED
            BY ONLY <6>2, <6>4 DEF Free
        <5>2. obj[e].ref # 1 =>
                /\ obj'[e].kind = "cb" /\ obj'[e].ref = Refs(e)' + stray'[e] /\ obj'[e].ref > 0
          BY ONLY <2>1, <2>3, <2>6, <4>2
        <5> QED
          BY ONLY <2>1, <2>3, <2>6, <4>1, <4>3, <5>1, <5>2 DEF BundleRefs, Kind
  <2> QED
    BY <2>8, <2>9
<1>5. ASSUME NEW p \in Procs, NEW q \in Procs, NEW r \in Slots, NEW s \in Slots,
             Clone(p, s, q, r)
      PROVE  BundleRefs'
  <2>1. PICK o, e, c \in Objs : Cloned(p, s, q, r, o, e, c)
    BY <1>5, CloneFacts
  <2>2. UNCHANGED <<state, forkBar, opened, parent, Count, late, stray>>
    BY <1>5 DEF Clone, memory
  <2>3. /\ BundleRefs /\ NULL \notin Objs
        /\ \A b \in Objs : /\ Cardinality(Holders(b)) \in Nat /\ Cardinality(Elements(b)) \in Nat
                           /\ stray[b] \in Nat /\ obj[b].ref \in Nat
    BY Halves, Finite, NullAssumption DEF MInv, TypeOK
  <2>4. /\ Cardinality(Holders(c)') = Cardinality(Holders(c)) + 1
        /\ \A b \in Objs : b # c => Holders(b)' = Holders(b)
    <3>1. var[q][r] = NULL /\ Set(q, r, c)
      BY ONLY <2>1 DEF Cloned
    <3>2. TypeOK /\ c # NULL
      BY ONLY <2>1, <2>3, MInv DEF MInv
    <3> QED
      BY ONLY <1>5, <3>1, <3>2, HoldersSet, <2>3
  <2>5. CASE Kind(o) = "cb"
    <3>1. /\ c = e /\ Kind(e) = "cb" /\ obj'[e].kind = "cb" /\ obj'[e].ref = obj[e].ref + 1
          /\ obj'[e].elem = obj[e].elem
          /\ \A b \in Objs : b # e => obj'[b] = obj[b]
      BY ONLY <2>1, <2>5 DEF Cloned
    <3>2. \A b : Elements(b)' = Elements(b)
      BY ONLY <3>1, ElementsSame
    <3> QED
      BY ONLY <1>5, <2>1, <2>2, <2>3, <2>4, <3>1, <3>2 DEF BundleRefs, Refs, Kind
  <2>6. CASE Kind(o) # "cb"
    <3>1. /\ Kind(e) = "cb" /\ obj'[e].kind = "cb" /\ obj'[e].ref = obj[e].ref + 1
          /\ obj'[e].elem = obj[e].elem /\ Kind(o) = "array" /\ Kind(c) = "free" /\ c # e
          /\ obj'[c] = obj[o] /\ obj'[c].elem = e
          /\ \A b \in Objs : b # e /\ b # c => obj'[b] = obj[b]
      BY ONLY <2>1, <2>6 DEF Cloned
    <3>2. obj[c].elem = NULL
      BY ONLY <2>1, <3>1, MInv DEF MInv, Shape
    <3>3. /\ Cardinality(Elements(e)') = Cardinality(Elements(e)) + 1
          /\ \A b \in Objs : b # e => Elements(b)' = Elements(b)
      BY ONLY <2>1, <2>3, <3>1, <3>2, ElementsSet
    <3> QED
      BY ONLY <1>5, <2>1, <2>2, <2>3, <2>4, <3>1, <3>3 DEF BundleRefs, Refs, Kind
  <2> QED
    BY <2>5, <2>6
<1>6. ASSUME NEW p \in Procs, NEW q \in Procs, NEW r \in Slots, NEW s \in Slots,
             Move(p, s, q, r)
      PROVE  BundleRefs'
  <2>1. PICK o, e \in Objs : Moved(p, s, q, r, o, e)
    BY <1>6, MoveFacts
  <2>2. UNCHANGED <<state, forkBar, opened, parent, Count, late>>
    BY <1>6 DEF Move, memory
  <2>3. /\ BundleRefs /\ NULL \notin Objs
        /\ \A b \in Objs : /\ Cardinality(Holders(b)) \in Nat /\ Cardinality(Elements(b)) \in Nat
                           /\ stray[b] \in Nat /\ obj[b].ref \in Nat
    BY Halves, Finite, NullAssumption DEF MInv, TypeOK
  <2>4. \A b : Elements(b)' = Elements(b)
    <3>1. \A b \in Objs : obj'[b].elem = obj[b].elem
      BY ONLY <2>1 DEF Moved
    <3> QED
      BY ONLY <3>1, ElementsSame
  <2>5. /\ Kind(e) = "cb" /\ obj'[e].kind = "cb" /\ obj'[e].ref = obj[e].ref + 1
        /\ \A b \in Objs : b # e => obj'[b] = obj[b] /\ stray'[b] = stray[b]
    BY ONLY <2>1 DEF Moved
  <2>6. CASE Kind(o) = "cb"
    <3>1. e = o /\ var[q][r] = NULL /\ Set(q, r, o) /\ stray'[e] = stray[e]
      BY ONLY <2>1, <2>6 DEF Moved
    <3>2. TypeOK /\ o # NULL
      BY ONLY <2>1, <2>3, MInv DEF MInv
    <3>3. /\ Cardinality(Holders(o)') = Cardinality(Holders(o)) + 1
          /\ \A b \in Objs : b # o => Holders(b)' = Holders(b)
      BY ONLY <1>6, <2>3, <3>1, <3>2, HoldersSet
    <3> QED
      BY ONLY <1>6, <2>1, <2>3, <2>4, <2>5, <3>1, <3>3 DEF BundleRefs, Refs, Kind
  <2>7. CASE Kind(o) # "cb"
    <3>1. /\ var[p][s] = o /\ var[q][r] = NULL /\ var' = [var EXCEPT ![q][r] = o, ![p][s] = NULL]
          /\ stray'[e] = stray[e] + 1
      BY ONLY <2>1, <2>7 DEF Moved
    <3>2. \A b \in Objs : Cardinality(Holders(b)') = Cardinality(Holders(b))
      BY ONLY <1>6, <2>1, <2>3, <3>1, MInv, HoldersMove DEF MInv
    <3> QED
      BY ONLY <1>6, <2>1, <2>3, <2>4, <2>5, <3>1, <3>2 DEF BundleRefs, Refs, Kind
  <2> QED
    BY <2>6, <2>7
<1>7. ASSUME NEW p \in Procs, OpenBlock(p) PROVE BundleRefs'
  <2>2. var' = var /\ stray' = stray
    BY <1>7 DEF OpenBlock
  <2>3. \A b \in Objs :
           \/ obj'[b] = obj[b]
           \/ /\ Kind(b) \in {"free", "forking"} /\ obj'[b].kind = "forking"
              /\ obj'[b].elem = obj[b].elem
    BY <1>7 DEF OpenBlock, Free
  <2>4. \A b : Elements(b)' = Elements(b) /\ Holders(b)' = Holders(b)
    BY ONLY <2>2, <2>3, ElementsSame, HoldersSame
  <2> QED
    BY ONLY <2>2, <2>3, <2>4, Halves, BarsUnreferred, MInv DEF BundleRefs, Refs, Kind, Free
<1>8. ASSUME NEW p \in Procs, SyncSets(p) PROVE BundleRefs'
  <2>2. var' = var /\ stray' = stray
    BY <1>8 DEF SyncSets
  <2>3. \A b \in Objs :
           \/ obj'[b] = obj[b]
           \/ /\ Kind(b) \in {"free", "forking"} /\ obj'[b].kind = "forking"
              /\ obj'[b].elem = obj[b].elem
    BY <1>8 DEF SyncSets
  <2>4. \A b : Elements(b)' = Elements(b) /\ Holders(b)' = Holders(b)
    BY ONLY <2>2, <2>3, ElementsSame, HoldersSame
  <2> QED
    BY ONLY <2>2, <2>3, <2>4, Halves, BarsUnreferred, MInv DEF BundleRefs, Refs, Kind, Free
<1>9. ASSUME NEW p \in Procs, SyncDec(p) PROVE BundleRefs'
  <2>1. PICK o \in Objs : Waits(p, o)
    BY <1>9, SyncDecFacts
  <2>2. var' = var /\ stray' = stray
    BY <1>9 DEF SyncDec
  <2>3. \A b \in Objs :
           \/ obj'[b] = obj[b]
           \/ Kind(b) = "forking" /\ obj'[b].kind \in {"free", "forking"} /\ obj'[b].elem = obj[b].elem
    <3>1. Kind(o) = "forking" /\ obj[o].elem = NULL
      BY <2>1 DEF Waits
    <3> QED
      BY ONLY <2>1, <3>1 DEF Waits, Free
  <2>4. \A b : Elements(b)' = Elements(b) /\ Holders(b)' = Holders(b)
    BY ONLY <2>2, <2>3, ElementsSame, HoldersSame
  <2> QED
    BY ONLY <2>2, <2>3, <2>4, Halves, BarsUnreferred, MInv DEF BundleRefs, Refs, Kind, Free
<1>10. ASSUME NEW p \in Procs, ReleaseBar(p) PROVE BundleRefs'
  <2>1. PICK o \in Objs : Finishes(p, o)
    BY <1>10, ReleaseBarFacts
  <2>2. var' = var /\ stray' = stray
    BY <1>10 DEF ReleaseBar
  <2>3. \A b \in Objs :
           \/ obj'[b] = obj[b]
           \/ Kind(b) = "forking" /\ obj'[b].kind \in {"free", "forking"} /\ obj'[b].elem = obj[b].elem
    <3>1. Kind(o) = "forking" /\ obj[o].elem = NULL
      BY <2>1 DEF Finishes
    <3> QED
      BY ONLY <2>1, <3>1 DEF Finishes, Free
  <2>4. \A b : Elements(b)' = Elements(b) /\ Holders(b)' = Holders(b)
    BY ONLY <2>2, <2>3, ElementsSame, HoldersSame
  <2> QED
    BY ONLY <2>2, <2>3, <2>4, Halves, BarsUnreferred, MInv DEF BundleRefs, Refs, Kind, Free
<1>11. ASSUME NEW p \in Procs, ProcEnd(p) PROVE BundleRefs'
  <2>1. var' = var /\ obj' = obj /\ stray' = stray
    BY <1>11 DEF ProcEnd
  <2>2. \A b : Elements(b)' = Elements(b) /\ Holders(b)' = Holders(b)
    BY ONLY <2>1, ElementsSame, HoldersSame
  <2> QED
    BY ONLY <2>1, <2>2, Halves, MInv DEF BundleRefs, Refs, Kind
<1>12. ASSUME NEW p \in Procs, NEW q \in Procs, Fork(p, q) PROVE BundleRefs'
  <2>2. var' = var /\ stray' = stray
    BY <1>12 DEF Fork
  <2>3. \A b \in Objs :
           \/ obj'[b] = obj[b]
           \/ /\ Kind(b) \in {"free", "forking"} /\ obj'[b].kind = "forking"
              /\ obj'[b].elem = obj[b].elem
    BY <1>12 DEF Fork
  <2>4. \A b : Elements(b)' = Elements(b) /\ Holders(b)' = Holders(b)
    BY ONLY <2>2, <2>3, ElementsSame, HoldersSame
  <2> QED
    BY ONLY <2>2, <2>3, <2>4, Halves, BarsUnreferred, MInv DEF BundleRefs, Refs, Kind, Free
<1>13. ASSUME NEW p \in Procs, NEW q \in Procs, ProcStart(p, q) PROVE BundleRefs'
  <2>1. var' = var /\ obj' = obj /\ stray' = stray
    BY <1>13 DEF ProcStart
  <2>2. \A b : Elements(b)' = Elements(b) /\ Holders(b)' = Holders(b)
    BY ONLY <2>1, ElementsSame, HoldersSame
  <2> QED
    BY ONLY <2>1, <2>2, Halves, MInv DEF BundleRefs, Refs, Kind
<1>14. ASSUME NEW p \in Procs, NEW q \in Procs, Startp(p, q) PROVE BundleRefs'
  <2>1. var' = var /\ obj' = obj /\ stray' = stray
    BY <1>14 DEF Startp
  <2>2. \A b : Elements(b)' = Elements(b) /\ Holders(b)' = Holders(b)
    BY ONLY <2>1, ElementsSame, HoldersSame
  <2> QED
    BY ONLY <2>1, <2>2, Halves, MInv DEF BundleRefs, Refs, Kind
<1>15. ASSUME NEW p \in Procs, NEW q \in Procs, ParEnroll(p, q) PROVE BundleRefs'
  <2>1. var' = var /\ obj' = obj /\ stray' = stray
    BY <1>15 DEF ParEnroll
  <2>2. \A b : Elements(b)' = Elements(b) /\ Holders(b)' = Holders(b)
    BY ONLY <2>1, ElementsSame, HoldersSame
  <2> QED
    BY ONLY <2>1, <2>2, Halves, MInv DEF BundleRefs, Refs, Kind
<1>16. ASSUME NEW p \in Procs, NEW q \in Procs, Endp(p, q) PROVE BundleRefs'
  <2>1. var' = var /\ obj' = obj /\ stray' = stray
    BY <1>16 DEF Endp
  <2>2. \A b : Elements(b)' = Elements(b) /\ Holders(b)' = Holders(b)
    BY ONLY <2>1, ElementsSame, HoldersSame
  <2> QED
    BY ONLY <2>1, <2>2, Halves, MInv DEF BundleRefs, Refs, Kind
<1> QED
  BY <1>1, <1>2, <1>3, <1>4, <1>5, <1>6, <1>7, <1>8, <1>9, <1>10, <1>11, <1>12, <1>13,
     <1>14, <1>15, <1>16
     DEF Next

(* Nothing refers to a block that is free after a step.                     *)
LEMMA FreeUnseen ==
  ASSUME MInv, [Next]_vars, NEW b \in Objs, obj'[b].kind = "free"
  PROVE  /\ \A p \in Procs, s \in Slots : var'[p][s] # b
         /\ \A a \in Objs : obj'[a].elem # b
<1>1. Refs(b)' = 0
  BY ONLY BundleRefsStep, MInv, [Next]_vars, b \in Objs, obj'[b].kind = "free"
     DEF BundleRefs, Kind
<1> QED
  BY ONLY <1>1, UnreferredNext, b \in Objs

(* Whose branches change when no process, or only q, changes its parent or  *)
(* is started.                                                              *)
LEMMA BranchesSame ==
  ASSUME \A q, x \in Procs : (parent'[q] = x /\ state'[q] # "setup")
                             <=> (parent[q] = x /\ state[q] # "setup")
  PROVE  \A x \in Procs : Branches(x)' = Branches(x)
BY DEF Branches

(* When only q may become or stop being a branch, the branches of a PAR change *)
(* by one at most.                                                          *)
LEMMA BranchesOne ==
  ASSUME NEW q \in Procs,
         \A y \in Procs : y # q => /\ parent'[y] = parent[y]
                                   /\ state'[y] = "setup" <=> state[y] = "setup"
  PROVE  \A x : /\ Branches(x)' = Branches(x) \/ (q \in Branches(x)' <=> q \notin Branches(x))
                /\ q \notin Branches(x) /\ q \in Branches(x)' =>
                     Cardinality(Branches(x)') = Cardinality(Branches(x)) + 1
                /\ q \in Branches(x) /\ q \notin Branches(x)' =>
                     /\ Cardinality(Branches(x)') = Cardinality(Branches(x)) - 1
                     /\ Cardinality(Branches(x)') # 0 => Branches(x)' # {}
<1> SUFFICES ASSUME NEW x
             PROVE  /\ Branches(x)' = Branches(x) \/ (q \in Branches(x)' <=> q \notin Branches(x))
                    /\ q \notin Branches(x) /\ q \in Branches(x)' =>
                         Cardinality(Branches(x)') = Cardinality(Branches(x)) + 1
                    /\ q \in Branches(x) /\ q \notin Branches(x)' =>
                         /\ Cardinality(Branches(x)') = Cardinality(Branches(x)) - 1
                         /\ Cardinality(Branches(x)') # 0 => Branches(x)' # {}
  OBVIOUS
<1>1. \A y : y # q => (y \in Branches(x)' <=> y \in Branches(x))
  BY DEF Branches
<1>2. IsFiniteSet(Branches(x))
  BY Finite
<1>3. Cardinality(Branches(x)') # 0 => Branches(x)' # {}
  BY FS_EmptySet
<1> QED
  BY ONLY <1>1, <1>2, <1>3, OneDiffers

(* The count of a PAR is that of its branches.                              *)
LEMMA BranchCountsStep == MInv /\ [Next]_vars => BranchCounts'
<1> SUFFICES ASSUME MInv, [Next]_vars PROVE BranchCounts'
  OBVIOUS
<1>1. CASE UNCHANGED vars
  <2>1. UNCHANGED <<parent, state, Count>>
    BY <1>1 DEF vars
  <2>2. \A x \in Procs : Branches(x)' = Branches(x)
    BY ONLY <2>1, BranchesSame
  <2> QED
    BY ONLY <2>1, <2>2, Halves, MInv DEF BranchCounts
<1>2. ASSUME NEW p \in Procs, NEW r \in Slots, NEW s \in Slots,
             AllocCB(p, r, s)
      PROVE  BranchCounts'
  <2>1. Aside
    BY <1>2, VariablesAside
  <2>2. \A x \in Procs : Branches(x)' = Branches(x)
    BY ONLY <2>1, BranchesSame DEF Aside
  <2> QED
    BY ONLY <2>1, <2>2, Halves, MInv DEF BranchCounts, Aside
<1>3. ASSUME NEW p \in Procs, NEW s \in Slots, AllocArray(p, s) PROVE BranchCounts'
  <2>1. Aside
    BY <1>3, VariablesAside
  <2>2. \A x \in Procs : Branches(x)' = Branches(x)
    BY ONLY <2>1, BranchesSame DEF Aside
  <2> QED
    BY ONLY <2>1, <2>2, Halves, MInv DEF BranchCounts, Aside
<1>4. ASSUME NEW p \in Procs, NEW s \in Slots, Release(p, s) PROVE BranchCounts'
  <2>1. Aside
    BY <1>4, VariablesAside
  <2>2. \A x \in Procs : Branches(x)' = Branches(x)
    BY ONLY <2>1, BranchesSame DEF Aside
  <2> QED
    BY ONLY <2>1, <2>2, Halves, MInv DEF BranchCounts, Aside
<1>5. ASSUME NEW p \in Procs, NEW q \in Procs, NEW r \in Slots, NEW s \in Slots,
             Clone(p, s, q, r)
      PROVE  BranchCounts'
  <2>1. Aside
    BY <1>5, VariablesAside
  <2>2. \A x \in Procs : Branches(x)' = Branches(x)
    BY ONLY <2>1, BranchesSame DEF Aside
  <2> QED
    BY ONLY <2>1, <2>2, Halves, MInv DEF BranchCounts, Aside
<1>6. ASSUME NEW p \in Procs, NEW q \in Procs, NEW r \in Slots, NEW s \in Slots,
             Move(p, s, q, r)
      PROVE  BranchCounts'
  <2>1. Aside
    BY <1>6, VariablesAside
  <2>2. \A x \in Procs : Branches(x)' = Branches(x)
    BY ONLY <2>1, BranchesSame DEF Aside
  <2> QED
    BY ONLY <2>1, <2>2, Halves, MInv DEF BranchCounts, Aside
<1>7. ASSUME NEW p \in Procs, OpenBlock(p) PROVE BranchCounts'
  <2>1. /\ \A x, y \in Procs : (parent'[x] = y /\ state'[x] # "setup")
                              <=> (parent[x] = y /\ state[x] # "setup")
        /\ \A x \in Procs : (state'[x] = "par" <=> state[x] = "par") /\ Count'[x] = Count[x]
    BY <1>7, NullAssumption DEF OpenBlock, To, memory, MInv, TypeOK, Families
  <2>2. \A x \in Procs : Branches(x)' = Branches(x)
    BY ONLY <2>1, BranchesSame
  <2> QED
    BY ONLY <2>1, <2>2, Halves, MInv DEF BranchCounts
<1>8. ASSUME NEW p \in Procs, SyncSets(p) PROVE BranchCounts'
  <2>1. /\ \A x, y \in Procs : (parent'[x] = y /\ state'[x] # "setup")
                              <=> (parent[x] = y /\ state[x] # "setup")
        /\ \A x \in Procs : (state'[x] = "par" <=> state[x] = "par") /\ Count'[x] = Count[x]
    BY <1>8, NullAssumption DEF SyncSets, To, memory, MInv, TypeOK, Families
  <2>2. \A x \in Procs : Branches(x)' = Branches(x)
    BY ONLY <2>1, BranchesSame
  <2> QED
    BY ONLY <2>1, <2>2, Halves, MInv DEF BranchCounts
<1>9. ASSUME NEW p \in Procs, SyncDec(p) PROVE BranchCounts'
  <2>1. PICK o \in Objs : Waits(p, o)
    BY <1>9, SyncDecFacts
  <2>2. UNCHANGED <<stray, var, parent, Count, late>>
    BY <1>9 DEF SyncDec, memory
  <2>3. \A x \in Procs : /\ state'[x] = "setup" <=> state[x] = "setup"
                         /\ state'[x] = "par" <=> state[x] = "par"
    BY ONLY <1>9, <2>1 DEF Waits
  <2>4. \A x \in Procs : Branches(x)' = Branches(x)
    BY ONLY <2>2, <2>3, BranchesSame
  <2> QED
    BY ONLY <2>2, <2>3, <2>4, Halves, MInv DEF BranchCounts
<1>10. ASSUME NEW p \in Procs, ReleaseBar(p) PROVE BranchCounts'
  <2>1. PICK o \in Objs : Finishes(p, o)
    BY <1>10, ReleaseBarFacts
  <2>2. UNCHANGED <<stray, var, parent, Count>>
    BY <1>10 DEF ReleaseBar, memory
  <2>3. \A x \in Procs : /\ state'[x] = "setup" <=> state[x] = "setup"
                         /\ state'[x] = "par" <=> state[x] = "par"
    BY ONLY <1>10, <2>1 DEF Finishes
  <2>4. \A x \in Procs : Branches(x)' = Branches(x)
    BY ONLY <2>2, <2>3, BranchesSame
  <2> QED
    BY ONLY <2>2, <2>3, <2>4, Halves, MInv DEF BranchCounts
<1>11. ASSUME NEW p \in Procs, ProcEnd(p) PROVE BranchCounts'
  <2>1. /\ \A x, y \in Procs : (parent'[x] = y /\ state'[x] # "setup")
                              <=> (parent[x] = y /\ state[x] # "setup")
        /\ \A x \in Procs : (state'[x] = "par" <=> state[x] = "par") /\ Count'[x] = Count[x]
    BY <1>11, NullAssumption DEF ProcEnd, To, memory, MInv, TypeOK, Families
  <2>2. \A x \in Procs : Branches(x)' = Branches(x)
    BY ONLY <2>1, BranchesSame
  <2> QED
    BY ONLY <2>1, <2>2, Halves, MInv DEF BranchCounts
<1>12. ASSUME NEW p \in Procs, NEW q \in Procs, Fork(p, q) PROVE BranchCounts'
  <2>1. /\ \A x, y \in Procs : (parent'[x] = y /\ state'[x] # "setup")
                              <=> (parent[x] = y /\ state[x] # "setup")
        /\ \A x \in Procs : (state'[x] = "par" <=> state[x] = "par") /\ Count'[x] = Count[x]
    BY <1>12, NullAssumption DEF Fork, To, memory, MInv, TypeOK, Families
  <2>2. \A x \in Procs : Branches(x)' = Branches(x)
    BY ONLY <2>1, BranchesSame
  <2> QED
    BY ONLY <2>1, <2>2, Halves, MInv DEF BranchCounts
<1>13. ASSUME NEW p \in Procs, NEW q \in Procs, ProcStart(p, q) PROVE BranchCounts'
  <2>1. /\ \A x, y \in Procs : (parent'[x] = y /\ state'[x] # "setup")
                              <=> (parent[x] = y /\ state[x] # "setup")
        /\ \A x \in Procs : (state'[x] = "par" <=> state[x] = "par") /\ Count'[x] = Count[x]
    BY <1>13, NullAssumption DEF ProcStart, SetsUp, To, memory, MInv, TypeOK, Families
  <2>2. \A x \in Procs : Branches(x)' = Branches(x)
    BY ONLY <2>1, BranchesSame
  <2> QED
    BY ONLY <2>1, <2>2, Halves, MInv DEF BranchCounts
<1>14. ASSUME NEW p \in Procs, NEW q \in Procs, Startp(p, q) PROVE BranchCounts'
  <2>1. /\ state[p] = "run" /\ state'[p] = "run" /\ Count[p] = 0 /\ Count'[p] = 2
        /\ \A x \in Procs : x # p => Count'[x] = Count[x]
    BY <1>14 DEF Startp, To, MInv, TypeOK
  <2>2. /\ parent[q] = NULL /\ parent'[q] = p /\ state[q] = "none" /\ state'[q] = "run"
        /\ \A x \in Procs : x # q => parent'[x] = parent[x] /\ state'[x] = state[x]
    BY <1>14 DEF Startp, To, MInv, TypeOK, Families
  <2>3. /\ q \in Branches(p)' /\ \A x \in Procs : q \notin Branches(x)
        /\ \A x \in Procs : q \in Branches(x)' => x = p
    BY ONLY <2>1, <2>2, MInv, NullAssumption, <1>14 DEF Branches
  <2>4. /\ Cardinality(Branches(p)') = Cardinality(Branches(p)) + 1
        /\ \A x \in Procs : x # p => Branches(x)' = Branches(x)
    BY ONLY <1>14, <2>1, <2>2, <2>3, BranchesOne
  <2>5. BranchCounts /\ Cardinality(Branches(p)) \in Nat /\ Count[p] \in Nat
    BY Halves, Finite DEF MInv, TypeOK
  <2> QED
    BY ONLY <1>14, <2>1, <2>2, <2>4, <2>5 DEF BranchCounts
<1>15. ASSUME NEW p \in Procs, NEW q \in Procs, ParEnroll(p, q) PROVE BranchCounts'
  <2>1. /\ state[p] = "run" /\ state'[p] = "run" /\ Count[p] > 0 /\ Count'[p] = Count[p] + 1
        /\ \A x \in Procs : x # p => Count'[x] = Count[x]
    BY <1>15 DEF ParEnroll, To, MInv, TypeOK
  <2>2. /\ parent[q] = NULL /\ parent'[q] = p /\ state[q] = "none" /\ state'[q] = "run"
        /\ \A x \in Procs : x # q => parent'[x] = parent[x] /\ state'[x] = state[x]
    BY <1>15 DEF ParEnroll, To, MInv, TypeOK, Families
  <2>3. /\ q \in Branches(p)' /\ \A x \in Procs : q \notin Branches(x)
        /\ \A x \in Procs : q \in Branches(x)' => x = p
    BY ONLY <2>1, <2>2, MInv, NullAssumption, <1>15 DEF Branches
  <2>4. /\ Cardinality(Branches(p)') = Cardinality(Branches(p)) + 1
        /\ \A x \in Procs : x # p => Branches(x)' = Branches(x)
    BY ONLY <1>15, <2>1, <2>2, <2>3, BranchesOne
  <2>5. BranchCounts /\ Cardinality(Branches(p)) \in Nat /\ Count[p] \in Nat
    BY Halves, Finite DEF MInv, TypeOK
  <2> QED
    BY ONLY <1>15, <2>1, <2>2, <2>4, <2>5 DEF BranchCounts
<1>16. ASSUME NEW p \in Procs, NEW q \in Procs, Endp(p, q) PROVE BranchCounts'
  <2>1. Ends(p, q)
    BY <1>16, EndpFacts
  <2>2. UNCHANGED <<obj, stray, var, forkBar, opened, late>>
    BY <1>16 DEF Endp, memory
  <2>3. /\ BranchCounts
        /\ \A x \in Procs : Cardinality(Branches(x)) \in Nat /\ Count[x] \in Nat
    BY Halves, Finite DEF MInv, TypeOK
  <2>4. CASE p = q
    <3>1. /\ state[p] = "run" /\ state'[p] = IF Count[p] = 1 THEN "run" ELSE "par"
          /\ Count[p] > 0 /\ Count'[p] = Count[p] - 1
          /\ \A x \in Procs : x # p => state'[x] = state[x] /\ Count'[x] = Count[x]
          /\ \A x \in Procs : parent'[x] = parent[x]
      BY ONLY <2>1, <2>4 DEF Ends
    <3>2. \A x, y \in Procs : (parent'[x] = y /\ state'[x] # "setup")
                              <=> (parent[x] = y /\ state[x] # "setup")
      BY ONLY <3>1
    <3>3. \A x \in Procs : Branches(x)' = Branches(x)
      BY ONLY <3>2, BranchesSame
    <3>4. Count[p] > 1 => Branches(p) # {}
      <4>1. Count[p] > 1 => Cardinality(Branches(p)) # 0
        BY ONLY <1>16, <2>3, <3>1 DEF BranchCounts
      <4> QED
        BY ONLY <4>1, FS_EmptySet
    <3> QED
      BY ONLY <1>16, <2>3, <3>1, <3>3, <3>4 DEF BranchCounts
  <2>5. CASE p # q
    <3>1. /\ state[p] = "run" /\ state'[p] = "none" /\ parent'[p] = NULL
          /\ Count[p] = 0 /\ p \in Branches(q) /\ parent[p] = q
          /\ Count[q] > 0 /\ Count'[q] = Count[q] - 1
          /\ state'[q] = IF Count[q] = 1 THEN "run" ELSE state[q]
          /\ Count[q] = 1 => state[q] = "par"
          /\ \A x \in Procs : x # q => Count'[x] = Count[x]
          /\ \A x \in Procs : x # p /\ x # q => state'[x] = state[x]
          /\ \A x \in Procs : x # p => parent'[x] = parent[x]
      BY ONLY <2>1, <2>5 DEF Ends
    <3>2. /\ p \notin Branches(q)'
          /\ \A x \in Procs : x # q => p \notin Branches(x) /\ p \notin Branches(x)'
      BY ONLY <1>16, <3>1, NullAssumption DEF Branches
    <3>3. \A x \in Procs : x # p => /\ parent'[x] = parent[x]
                                    /\ state'[x] = "setup" <=> state[x] = "setup"
      BY ONLY <2>1, <3>1
    <3>4. /\ Cardinality(Branches(q)') = Cardinality(Branches(q)) - 1
          /\ Cardinality(Branches(q)') # 0 => Branches(q)' # {}
          /\ \A x \in Procs : x # q => Branches(x)' = Branches(x)
      BY ONLY <1>16, <3>1, <3>2, <3>3, BranchesOne
    <3>5. \A x \in Procs : x # q =>
             /\ state'[x] = "par" => Branches(x)' # {}
             /\ Count'[x] = Cardinality(Branches(x)')
                            + (IF state'[x] # "par" /\ Count'[x] > 0 THEN 1 ELSE 0)
      BY ONLY <1>16, <2>3, <2>5, <3>1, <3>4 DEF BranchCounts
    <3>6. /\ state'[q] = "par" => Branches(q)' # {}
          /\ Count'[q] = Cardinality(Branches(q)')
                         + (IF state'[q] # "par" /\ Count'[q] > 0 THEN 1 ELSE 0)
      BY ONLY <1>16, <2>3, <2>5, <3>1, <3>4 DEF BranchCounts
    <3> QED
      BY ONLY <3>5, <3>6 DEF BranchCounts
  <2> QED
    BY <2>4, <2>5
<1> QED
  BY <1>1, <1>2, <1>3, <1>4, <1>5, <1>6, <1>7, <1>8, <1>9, <1>10, <1>11, <1>12, <1>13,
     <1>14, <1>15, <1>16
     DEF Next

(* The type of a block, and what keeps it.                                  *)
Block == [kind : {"free", "cb", "array", "forking"}, ref : Nat,
          elem : Objs \cup {NULL}, word : Procs \cup {NULL}]

(* What actions store in a block has the type of a block.                   *)
LEMMA BlockType ==
  /\ Free \in Block
  /\ \A n \in Nat, k \in {"cb", "forking"} : [Free EXCEPT !.kind = k, !.ref = n] \in Block
  /\ \A e \in Objs : [Free EXCEPT !.kind = "array", !.elem = e] \in Block
  /\ \A b \in Block, n \in Nat : [b EXCEPT !.ref = n] \in Block
  /\ \A b \in Block, p \in Procs : [b EXCEPT !.word = p] \in Block
<1>1. Free \in Block
  BY DEF Free, Block
<1>2. \A n \in Nat, k \in {"cb", "forking"} : [Free EXCEPT !.kind = k, !.ref = n] \in Block
  BY DEF Free, Block
<1>3. \A e \in Objs : [Free EXCEPT !.kind = "array", !.elem = e] \in Block
  BY DEF Free, Block
<1>4. \A b \in Block, n \in Nat : [b EXCEPT !.ref = n] \in Block
  BY DEF Block
<1>5. \A b \in Block, p \in Procs : [b EXCEPT !.word = p] \in Block
  BY DEF Block
<1> QED
  BY <1>1, <1>2, <1>3, <1>4, <1>5

(* Blocks have the type, and what is counted has a count above zero.        *)
LEMMA BlocksTyped ==
  ASSUME MInv
  PROVE  /\ obj \in [Objs -> Block]
         /\ \A o \in Objs : obj[o] \in Block /\ obj[o].ref \in Nat
         /\ \A o \in Objs : Kind(o) \in {"cb", "forking"} => obj[o].ref > 0
BY DEF MInv, TypeOK, Block, RefsExact

(* One reference less, or none.                                             *)
LEMMA DroppedType ==
  ASSUME MInv, NEW o \in Objs, Kind(o) \in {"cb", "forking"}
  PROVE  Dropped(obj, o) \in [Objs -> Block]
<1>1. obj \in [Objs -> Block] /\ obj[o] \in Block /\ obj[o].ref \in Nat /\ obj[o].ref > 0
  BY BlocksTyped
<1>2. CASE obj[o].ref = 1
  <2>1. Dropped(obj, o) = [obj EXCEPT ![o] = Free]
    BY <1>2 DEF Dropped
  <2> QED
    BY ONLY <1>1, <2>1, BlockType, o \in Objs
<1>3. CASE obj[o].ref # 1
  <2>1. Dropped(obj, o) = [obj EXCEPT ![o] = [obj[o] EXCEPT !.ref = obj[o].ref - 1]]
    BY <1>3 DEF Dropped
  <2>2. obj[o].ref - 1 \in Nat
    BY <1>1
  <2>3. [obj[o] EXCEPT !.ref = obj[o].ref - 1] \in Block
    BY ONLY <1>1, <2>2, BlockType
  <2> HIDE DEF Block
  <2> QED
    BY ONLY <1>1, <2>1, <2>3
<1> QED
  BY <1>2, <1>3

(* One more reference.                                                      *)
LEMMA GainedType ==
  ASSUME NEW g \in [Objs -> Block], NEW o \in Objs
  PROVE  [g EXCEPT ![o].ref = @ + 1] \in [Objs -> Block]
<1>1. g[o] \in Block /\ g[o].ref \in Nat
  BY DEF Block
<1>2. g[o].ref + 1 \in Nat
  BY <1>1
<1>3. [g[o] EXCEPT !.ref = g[o].ref + 1] \in Block
  BY ONLY <1>1, <1>2, BlockType
<1>4. [g EXCEPT ![o].ref = @ + 1] = [g EXCEPT ![o] = [g[o] EXCEPT !.ref = g[o].ref + 1]]
  OBVIOUS
<1> HIDE DEF Block
<1> QED
  BY ONLY <1>3, <1>4, g \in [Objs -> Block], o \in Objs

(* The variables keep their types.                                          *)
LEMMA TypeOKStep == MInv /\ [Next]_vars => TypeOK'
<1> SUFFICES ASSUME MInv, [Next]_vars PROVE TypeOK'
  OBVIOUS
<1>1. CASE UNCHANGED vars
  BY <1>1 DEF vars, MInv, TypeOK
<1>2. ASSUME NEW p \in Procs, NEW r \in Slots, NEW s \in Slots,
             AllocCB(p, r, s)
      PROVE  TypeOK'
  <2>1. obj' \in [Objs -> Block]
    <3>1. PICK o \in Objs, b \in Block : obj' = [obj EXCEPT ![o] = b]
      <4>1. [Free EXCEPT !.kind = "cb", !.ref = 2] \in Block
        BY BlockType
      <4>2. \E o \in Objs : obj' = [obj EXCEPT ![o] = [Free EXCEPT !.kind = "cb", !.ref = 2]]
        BY <1>2 DEF AllocCB
      <4> QED
        BY ONLY <4>1, <4>2
    <3> QED
      BY ONLY <3>1, MInv, BlocksTyped
  <2>2. /\ stray' \in [Objs -> 0..MaxLeak]
        /\ opened' \in [Procs -> BOOLEAN]
        /\ state' \in [Procs -> {"none", "setup", "run", "fork", "resign", "dec", "sync", "par"}]
        /\ var' \in [Procs -> [Slots -> Objs \cup {NULL}]]
        /\ forkBar' \in [Procs -> Objs \cup {NULL}]
        /\ late' \in [Procs -> Objs \cup {NULL}]
        /\ parent' \in [Procs -> Procs \cup {NULL}]
        /\ Count' \in [Procs -> Nat]
    BY <1>2 DEF AllocCB, MInv, TypeOK, Set, To, memory
  <2> QED
    BY ONLY <2>1, <2>2 DEF TypeOK, Block
<1>3. ASSUME NEW p \in Procs, NEW s \in Slots, AllocArray(p, s) PROVE TypeOK'
  <2>1. obj' \in [Objs -> Block]
    <3>1. PICK o \in Objs, b \in Block : obj' = [obj EXCEPT ![o] = b]
      <4>1. var[p][s] \in Objs
        BY <1>3 DEF AllocArray, MInv, TypeOK
      <4>2. [Free EXCEPT !.kind = "array", !.elem = var[p][s]] \in Block
        BY ONLY <4>1, BlockType
      <4>3. \E o \in Objs : obj' = [obj EXCEPT ![o] = [Free EXCEPT !.kind = "array", !.elem = var[p][s]]]
        BY <1>3 DEF AllocArray
      <4> QED
        BY ONLY <4>2, <4>3
    <3> QED
      BY ONLY <3>1, MInv, BlocksTyped
  <2>2. /\ stray' \in [Objs -> 0..MaxLeak]
        /\ opened' \in [Procs -> BOOLEAN]
        /\ state' \in [Procs -> {"none", "setup", "run", "fork", "resign", "dec", "sync", "par"}]
        /\ var' \in [Procs -> [Slots -> Objs \cup {NULL}]]
        /\ forkBar' \in [Procs -> Objs \cup {NULL}]
        /\ late' \in [Procs -> Objs \cup {NULL}]
        /\ parent' \in [Procs -> Procs \cup {NULL}]
        /\ Count' \in [Procs -> Nat]
    BY <1>3 DEF AllocArray, MInv, TypeOK, Set, To, memory
  <2> QED
    BY ONLY <2>1, <2>2 DEF TypeOK, Block
<1>4. ASSUME NEW p \in Procs, NEW s \in Slots, Release(p, s) PROVE TypeOK'
  <2>1. obj' \in [Objs -> Block]
    <3>1. PICK o \in Objs : o = var[p][s] /\ Kind(o) \in {"cb", "array"}
      BY <1>4 DEF Release, MInv, TypeOK, Shape
    <3>2. obj \in [Objs -> Block] /\ obj[o] \in Block
      BY BlocksTyped
    <3>3. Kind(o) = "array" => obj[o].elem \in Objs /\ Kind(obj[o].elem) = "cb"
      BY DEF MInv, Shape
    <3>4. CASE Kind(o) = "cb"
      <4>1. obj' = Dropped(obj, o)
        BY <1>4, <3>1, <3>4 DEF Release, Released
      <4> QED
        BY ONLY <1>4, <3>1, <3>4, <4>1, MInv, DroppedType
    <3>5. CASE Kind(o) = "array"
      <4>1. PICK e \in Objs : e = obj[o].elem /\ Kind(e) = "cb"
        BY <3>3, <3>5
      <4>2. obj' = [Dropped(obj, e) EXCEPT ![o] = Free]
        BY <1>4, <3>1, <3>5, <4>1 DEF Release, Released
      <4>3. Dropped(obj, e) \in [Objs -> Block]
        BY ONLY <4>1, MInv, DroppedType
      <4> QED
        BY ONLY <3>1, <4>2, <4>3, BlockType
    <3> QED
      BY <3>1, <3>4, <3>5
  <2>2. /\ opened' \in [Procs -> BOOLEAN]
        /\ state' \in [Procs -> {"none", "setup", "run", "fork", "resign", "dec", "sync", "par"}]
        /\ var' \in [Procs -> [Slots -> Objs \cup {NULL}]]
        /\ forkBar' \in [Procs -> Objs \cup {NULL}]
        /\ late' \in [Procs -> Objs \cup {NULL}]
        /\ parent' \in [Procs -> Procs \cup {NULL}]
        /\ Count' \in [Procs -> Nat]
    BY <1>4 DEF Release, MInv, TypeOK, Set, To, memory
  <2>3. stray' \in [Objs -> 0..MaxLeak]
    <3>1. stray' = [o \in Objs |-> IF obj'[o].kind = "free" THEN 0 ELSE stray[o]]
      BY <1>4 DEF Release, Kept
    <3> QED
      BY ONLY <3>1, MInv, MobileAssumption DEF MInv, TypeOK
  <2> QED
    BY ONLY <2>1, <2>2, <2>3 DEF TypeOK, Block
<1>5. ASSUME NEW p \in Procs, NEW q \in Procs, NEW r \in Slots, NEW s \in Slots,
             Clone(p, s, q, r)
      PROVE  TypeOK'
  <2>1. obj' \in [Objs -> Block]
    <3>1. PICK o \in Objs : o = var[p][s] /\ Kind(o) \in {"cb", "array"}
      BY <1>5 DEF Clone, MInv, TypeOK, Shape
    <3>2. obj \in [Objs -> Block] /\ obj[o] \in Block
      BY BlocksTyped
    <3>3. Kind(o) = "array" => obj[o].elem \in Objs /\ Kind(obj[o].elem) = "cb"
      BY DEF MInv, Shape
    <3>4. CASE Kind(o) = "cb"
      <4>1. obj' = [obj EXCEPT ![o].ref = @ + 1]
        BY <1>5, <3>1, <3>4 DEF Clone, CloneInto
      <4> QED
        BY ONLY <3>1, <3>2, <4>1, GainedType
    <3>5. CASE Kind(o) = "array"
      <4>1. PICK c \in Objs :
                /\ Kind(c) = "free"
                /\ obj' = [obj EXCEPT ![c] = obj[o], ![obj[o].elem].ref = @ + 1]
        BY <1>5, <3>1, <3>5 DEF Clone, CloneInto
      <4>2. PICK e \in Objs : e = obj[o].elem
        BY <3>3, <3>5
      <4>3. obj' = [obj EXCEPT ![c] = obj[o], ![e].ref = @ + 1] /\ c # e
        BY ONLY <3>3, <3>5, <4>1, <4>2 DEF Kind
      <4>4. obj[e] \in Block /\ obj[e].ref + 1 \in Nat
        BY ONLY <4>2, MInv, BlocksTyped
      <4>5. [obj[e] EXCEPT !.ref = obj[e].ref + 1] \in Block
        BY ONLY <4>4, BlockType
      <4>6. obj' = [obj EXCEPT ![c] = obj[o], ![e] = [obj[e] EXCEPT !.ref = obj[e].ref + 1]]
        BY ONLY <3>2, <4>3, c \in Objs, e \in Objs
      <4> HIDE DEF Block
      <4> QED
        BY ONLY <3>2, <4>5, <4>6, c \in Objs, e \in Objs
    <3> QED
      BY <3>1, <3>4, <3>5
  <2>2. /\ stray' \in [Objs -> 0..MaxLeak]
        /\ opened' \in [Procs -> BOOLEAN]
        /\ state' \in [Procs -> {"none", "setup", "run", "fork", "resign", "dec", "sync", "par"}]
        /\ forkBar' \in [Procs -> Objs \cup {NULL}]
        /\ late' \in [Procs -> Objs \cup {NULL}]
        /\ parent' \in [Procs -> Procs \cup {NULL}]
        /\ Count' \in [Procs -> Nat]
    BY <1>5 DEF Clone, MInv, TypeOK, Set, To, memory
  <2>3. var' \in [Procs -> [Slots -> Objs \cup {NULL}]]
    <3>1. PICK o, e, c \in Objs : Cloned(p, s, q, r, o, e, c)
      BY <1>5, CloneFacts
    <3>2. Set(q, r, c)
      BY ONLY <3>1 DEF Cloned
    <3> QED
      BY ONLY <1>5, <3>1, <3>2, MInv DEF MInv, TypeOK, Set
  <2> QED
    BY ONLY <2>1, <2>2, <2>3 DEF TypeOK, Block
<1>6. ASSUME NEW p \in Procs, NEW q \in Procs, NEW r \in Slots, NEW s \in Slots,
             Move(p, s, q, r)
      PROVE  TypeOK'
  <2>1. obj' \in [Objs -> Block]
    <3>1. PICK o \in Objs : o = var[p][s] /\ Kind(o) \in {"cb", "array"}
      BY <1>6 DEF Move, MInv, TypeOK, Shape
    <3>2. obj \in [Objs -> Block] /\ obj[o] \in Block
      BY BlocksTyped
    <3>3. Kind(o) = "array" => obj[o].elem \in Objs /\ Kind(obj[o].elem) = "cb"
      BY DEF MInv, Shape
    <3>4. \E e \in Objs : obj' = [obj EXCEPT ![e].ref = @ + 1]
      BY <1>6, <3>1, <3>3 DEF Move, Shares, Moves, IoUpdateCB, IoUpdateArray
    <3> QED
      BY ONLY <3>2, <3>4, GainedType
  <2>2. /\ opened' \in [Procs -> BOOLEAN]
        /\ state' \in [Procs -> {"none", "setup", "run", "fork", "resign", "dec", "sync", "par"}]
        /\ forkBar' \in [Procs -> Objs \cup {NULL}]
        /\ late' \in [Procs -> Objs \cup {NULL}]
        /\ parent' \in [Procs -> Procs \cup {NULL}]
        /\ Count' \in [Procs -> Nat]
    BY <1>6 DEF Move, MInv, TypeOK, Set, To, memory
  <2>3. stray' \in [Objs -> 0..MaxLeak]
    <3>1. stray' = stray \/ \E e \in Objs : stray[e] < MaxLeak /\ stray' = [stray EXCEPT ![e] = @ + 1]
      <4>1. PICK o, e \in Objs : Moved(p, s, q, r, o, e)
        BY <1>6, MoveFacts
      <4>2. CASE Shares(p, s, q, r)
        BY <4>2 DEF Shares, IoUpdateCB
      <4>3. CASE Moves(p, s, q, r)
        <5>1. PICK x \in Objs : x = obj[var[p][s]].elem
          BY <1>6, <4>3 DEF Moves, IoUpdateArray, Move, MInv, TypeOK, Shape
        <5> QED
          BY <4>3, <5>1 DEF Moves, IoUpdateArray
      <4> QED
        BY <1>6, <4>2, <4>3 DEF Move
    <3> QED
      BY <3>1, MobileAssumption DEF MInv, TypeOK
  <2>4. var' \in [Procs -> [Slots -> Objs \cup {NULL}]]
    <3>1. PICK o, e \in Objs : Moved(p, s, q, r, o, e)
      BY <1>6, MoveFacts
    <3>2. Set(q, r, o) \/ var' = [var EXCEPT ![q][r] = o, ![p][s] = NULL]
      BY ONLY <3>1 DEF Moved
    <3> DEFINE g == [var EXCEPT ![q][r] = o]
    <3>3. var \in [Procs -> [Slots -> Objs \cup {NULL}]] /\ g \in [Procs -> [Slots -> Objs \cup {NULL}]]
      BY ONLY <1>6, <3>1, MInv DEF MInv, TypeOK
    <3>4. var' = g \/ var' = [g EXCEPT ![p][s] = NULL]
      BY ONLY <1>6, <3>1, <3>2, <3>3 DEF Set
    <3> HIDE DEF g
    <3> QED
      BY ONLY <1>6, <3>3, <3>4
  <2> QED
    BY ONLY <2>1, <2>2, <2>3, <2>4 DEF TypeOK, Block
<1>7. ASSUME NEW p \in Procs, OpenBlock(p) PROVE TypeOK'
  <2>1. obj' \in [Objs -> Block]
    <3>1. PICK o \in Objs, b \in Block : obj' = [obj EXCEPT ![o] = b]
      <4>1. [Free EXCEPT !.kind = "forking", !.ref = 1] \in Block
        BY BlockType
      <4>2. \E o \in Objs : obj' = [obj EXCEPT ![o] = [Free EXCEPT !.kind = "forking", !.ref = 1]]
        BY <1>7 DEF OpenBlock
      <4> QED
        BY ONLY <4>1, <4>2
    <3> QED
      BY ONLY <3>1, MInv, BlocksTyped
  <2>2. /\ stray' \in [Objs -> 0..MaxLeak]
        /\ opened' \in [Procs -> BOOLEAN]
        /\ state' \in [Procs -> {"none", "setup", "run", "fork", "resign", "dec", "sync", "par"}]
        /\ var' \in [Procs -> [Slots -> Objs \cup {NULL}]]
        /\ forkBar' \in [Procs -> Objs \cup {NULL}]
        /\ late' \in [Procs -> Objs \cup {NULL}]
        /\ parent' \in [Procs -> Procs \cup {NULL}]
        /\ Count' \in [Procs -> Nat]
    BY <1>7 DEF OpenBlock, MInv, TypeOK, Set, To, memory
  <2> QED
    BY ONLY <2>1, <2>2 DEF TypeOK, Block
<1>8. ASSUME NEW p \in Procs, SyncSets(p) PROVE TypeOK'
  <2>1. obj' \in [Objs -> Block]
    <3>1. PICK o \in Objs : o = forkBar[p]
      BY <1>8 DEF SyncSets, MInv, TypeOK, Blocks
    <3>2. obj' = [obj EXCEPT ![o] = [obj[o] EXCEPT !.word = p]]
      BY <1>8, <3>1 DEF SyncSets
    <3>3. [obj[o] EXCEPT !.word = p] \in Block /\ obj \in [Objs -> Block]
      BY ONLY <1>8, <3>1, MInv, BlocksTyped, BlockType
    <3> QED
      BY ONLY <3>1, <3>2, <3>3
  <2>2. /\ stray' \in [Objs -> 0..MaxLeak]
        /\ opened' \in [Procs -> BOOLEAN]
        /\ state' \in [Procs -> {"none", "setup", "run", "fork", "resign", "dec", "sync", "par"}]
        /\ var' \in [Procs -> [Slots -> Objs \cup {NULL}]]
        /\ forkBar' \in [Procs -> Objs \cup {NULL}]
        /\ late' \in [Procs -> Objs \cup {NULL}]
        /\ parent' \in [Procs -> Procs \cup {NULL}]
        /\ Count' \in [Procs -> Nat]
    BY <1>8 DEF SyncSets, MInv, TypeOK, Set, To, memory
  <2> QED
    BY ONLY <2>1, <2>2 DEF TypeOK, Block
<1>9. ASSUME NEW p \in Procs, SyncDec(p) PROVE TypeOK'
  <2>1. obj' \in [Objs -> Block]
    <3>1. PICK o \in Objs : Waits(p, o)
      BY <1>9, SyncDecFacts
    <3>2. Kind(o) = "forking" /\ o = forkBar[p]
      BY ONLY <3>1 DEF Waits
    <3>3. obj' = Dropped(obj, o)
      BY <1>9, <3>2 DEF SyncDec
    <3> QED
      BY ONLY <3>1, <3>2, <3>3, MInv, DroppedType
  <2>2. /\ stray' \in [Objs -> 0..MaxLeak]
        /\ opened' \in [Procs -> BOOLEAN]
        /\ state' \in [Procs -> {"none", "setup", "run", "fork", "resign", "dec", "sync", "par"}]
        /\ var' \in [Procs -> [Slots -> Objs \cup {NULL}]]
        /\ forkBar' \in [Procs -> Objs \cup {NULL}]
        /\ late' \in [Procs -> Objs \cup {NULL}]
        /\ parent' \in [Procs -> Procs \cup {NULL}]
        /\ Count' \in [Procs -> Nat]
    BY <1>9 DEF SyncDec, MInv, TypeOK, Set, To, memory, Leaves
  <2> QED
    BY ONLY <2>1, <2>2 DEF TypeOK, Block
<1>10. ASSUME NEW p \in Procs, ReleaseBar(p) PROVE TypeOK'
  <2>1. obj' \in [Objs -> Block]
    <3>1. PICK o \in Objs : Finishes(p, o)
      BY <1>10, ReleaseBarFacts
    <3>2. Kind(o) = "forking" /\ o = forkBar[p]
      BY ONLY <3>1 DEF Finishes
    <3>3. obj' = Dropped(obj, o)
      BY <1>10, <3>2 DEF ReleaseBar
    <3> QED
      BY ONLY <3>1, <3>2, <3>3, MInv, DroppedType
  <2>2. /\ stray' \in [Objs -> 0..MaxLeak]
        /\ opened' \in [Procs -> BOOLEAN]
        /\ state' \in [Procs -> {"none", "setup", "run", "fork", "resign", "dec", "sync", "par"}]
        /\ var' \in [Procs -> [Slots -> Objs \cup {NULL}]]
        /\ forkBar' \in [Procs -> Objs \cup {NULL}]
        /\ late' \in [Procs -> Objs \cup {NULL}]
        /\ parent' \in [Procs -> Procs \cup {NULL}]
        /\ Count' \in [Procs -> Nat]
    BY <1>10 DEF ReleaseBar, MInv, TypeOK, Set, To, memory, Leaves
  <2> QED
    BY ONLY <2>1, <2>2 DEF TypeOK, Block
<1>11. ASSUME NEW p \in Procs, ProcEnd(p) PROVE TypeOK'
  <2>1. obj' = obj
    BY <1>11 DEF ProcEnd, memory
  <2> QED
    BY <1>11, <2>1 DEF ProcEnd, MInv, TypeOK, To, memory
<1>12. ASSUME NEW p \in Procs, NEW q \in Procs, Fork(p, q) PROVE TypeOK'
  <2>1. obj' \in [Objs -> Block]
    <3>1. PICK o \in Objs : o = forkBar[p]
      BY <1>12 DEF Fork, MInv, TypeOK
    <3>2. obj' = [obj EXCEPT ![o].ref = @ + 1]
      BY <1>12, <3>1 DEF Fork
    <3> QED
      BY ONLY <3>1, <3>2, MInv, BlocksTyped, GainedType
  <2>2. /\ stray' \in [Objs -> 0..MaxLeak]
        /\ opened' \in [Procs -> BOOLEAN]
        /\ state' \in [Procs -> {"none", "setup", "run", "fork", "resign", "dec", "sync", "par"}]
        /\ var' \in [Procs -> [Slots -> Objs \cup {NULL}]]
        /\ forkBar' \in [Procs -> Objs \cup {NULL}]
        /\ late' \in [Procs -> Objs \cup {NULL}]
        /\ parent' \in [Procs -> Procs \cup {NULL}]
        /\ Count' \in [Procs -> Nat]
    BY <1>12 DEF Fork, MInv, TypeOK, Set, To, memory
  <2> QED
    BY ONLY <2>1, <2>2 DEF TypeOK, Block
<1>13. ASSUME NEW p \in Procs, NEW q \in Procs, ProcStart(p, q) PROVE TypeOK'
  <2>1. obj' = obj
    BY <1>13 DEF ProcStart, memory
  <2> QED
    BY <1>13, <2>1 DEF ProcStart, MInv, TypeOK, To, memory
<1>14. ASSUME NEW p \in Procs, NEW q \in Procs, Startp(p, q) PROVE TypeOK'
  <2>1. obj' = obj
    BY <1>14 DEF Startp, memory
  <2> QED
    BY <1>14, <2>1 DEF Startp, MInv, TypeOK, To, memory
<1>15. ASSUME NEW p \in Procs, NEW q \in Procs, ParEnroll(p, q) PROVE TypeOK'
  <2>1. obj' = obj
    BY <1>15 DEF ParEnroll, memory
  <2> QED
    BY <1>15, <2>1 DEF ParEnroll, MInv, TypeOK, To, memory
<1>16. ASSUME NEW p \in Procs, NEW q \in Procs, Endp(p, q) PROVE TypeOK'
  <2>1. obj' \in [Objs -> Block]
    <3>1. obj' = obj
      BY <1>16 DEF Endp, memory
    <3> QED
      BY ONLY <3>1, MInv, BlocksTyped
  <2>2. /\ stray' \in [Objs -> 0..MaxLeak]
        /\ opened' \in [Procs -> BOOLEAN]
        /\ var' \in [Procs -> [Slots -> Objs \cup {NULL}]]
        /\ forkBar' \in [Procs -> Objs \cup {NULL}]
        /\ late' \in [Procs -> Objs \cup {NULL}]
        /\ parent' \in [Procs -> Procs \cup {NULL}]
    BY <1>16 DEF Endp, MInv, TypeOK, Set, To, memory
  <2>3. state' \in [Procs -> {"none", "setup", "run", "fork", "resign", "dec", "sync", "par"}]
    <3>1. state' \in {[state EXCEPT ![p] = "par"], [state EXCEPT ![p] = "none"],
                       [[state EXCEPT ![p] = "par"] EXCEPT ![q] = "run"],
                       [[state EXCEPT ![p] = "none"] EXCEPT ![q] = "run"]}
      BY <1>16 DEF Endp
    <3> QED
      BY ONLY <1>16, <3>1, MInv DEF MInv, TypeOK
  <2>4. Count' \in [Procs -> Nat]
    <3>1. Count' = [Count EXCEPT ![q] = @ - 1] /\ Count[q] > 0
      BY <1>16, EndpFacts DEF Endp, Ends
    <3> QED
      BY ONLY <1>16, <3>1, MInv DEF MInv, TypeOK
  <2> QED
    BY ONLY <2>1, <2>2, <2>3, <2>4 DEF TypeOK, Block
<1> QED
  BY <1>1, <1>2, <1>3, <1>4, <1>5, <1>6, <1>7, <1>8, <1>9, <1>10, <1>11, <1>12, <1>13,
     <1>14, <1>15, <1>16
     DEF Next

-----------------------------------------------------------------------------
(* Blocks keep their shape, and what refers to them.                        *)
LEMMA ShapeStep == MInv /\ [Next]_vars => Shape'
<1> SUFFICES ASSUME MInv, [Next]_vars PROVE Shape'
  OBVIOUS
<1> USE MobileAssumption, NullAssumption
    DEF MInv, TypeOK, Shape, Kind, To, Set, memory
<1>1. CASE UNCHANGED vars
  BY <1>1 DEF vars
<1>2. ASSUME NEW p \in Procs, NEW r \in Slots, NEW s \in Slots,
             AllocCB(p, r, s)
      PROVE  Shape'
  BY <1>2 DEF AllocCB, Free
<1>3. ASSUME NEW p \in Procs, NEW s \in Slots, AllocArray(p, s) PROVE Shape'
  BY <1>3 DEF AllocArray, Free
<1>4. ASSUME NEW p \in Procs, NEW s \in Slots, Release(p, s) PROVE Shape'
  <2>1. PICK o, e \in Objs : GivenUp(p, s, o, e)
    BY <1>4, ReleaseFacts
  <2>2. UNCHANGED <<state, forkBar, opened, parent, Count, late>>
    BY <1>4 DEF Release, memory
  <2>3. /\ \A b \in Objs : obj'[b].kind = "free" =>
              /\ \A a \in Procs, k \in Slots : var'[a][k] # b
              /\ \A a \in Objs : obj'[a].elem # b
        /\ Shape /\ TypeOK
    BY ONLY MInv, [Next]_vars, FreeUnseen DEF MInv
  <2>4. \A b \in Objs :
           \/ obj'[b].kind = "free" /\ obj'[b].elem = NULL /\ stray'[b] = 0
           \/ obj'[b].kind = Kind(b) /\ obj'[b].elem = obj[b].elem
              /\ stray'[b] \in {stray[b], 0}
    BY ONLY <2>1 DEF GivenUp, Free, Kind
  <2>5. \A a \in Procs, k \in Slots : var'[a][k] \in {var[a][k], NULL}
    BY ONLY <2>1 DEF GivenUp
  <2>6. \A b \in Objs : Kind(b) = "forking" => obj'[b].kind = "forking"
    BY <1>4, VariablesAside DEF Aside, Kind
  <2>7. \A b \in Objs :
           /\ obj'[b].kind = "array" => obj'[b].elem \in Objs /\ obj'[obj'[b].elem].kind = "cb"
           /\ obj'[b].kind # "array" => obj'[b].elem = NULL
           /\ obj'[b].kind # "cb" => stray'[b] = 0
    BY ONLY <2>3, <2>4 DEF Shape, Kind
  <2>8. \A a \in Procs, k \in Slots :
           var'[a][k] # NULL => obj'[var'[a][k]].kind \in {"cb", "array"}
    <3>0. SUFFICES ASSUME NEW a \in Procs, NEW k \in Slots, var'[a][k] # NULL
                 PROVE  obj'[var'[a][k]].kind \in {"cb", "array"}
      OBVIOUS
    <3>1. var'[a][k] = var[a][k] /\ var[a][k] \in Objs
      BY ONLY <2>3, <2>5, <3>0 DEF TypeOK
    <3>2. PICK b \in Objs : b = var[a][k]
      BY ONLY <3>1
    <3>3. Kind(b) \in {"cb", "array"}
      BY ONLY <2>3, <3>0, <3>1, <3>2 DEF Shape
    <3>4. obj'[b].kind # "free"
      BY ONLY <2>3, <3>0, <3>1, <3>2
    <3> QED
      BY ONLY <2>4, <3>1, <3>2, <3>3, <3>4
  <2>9. \A a \in Procs : forkBar'[a] # NULL => obj'[forkBar'[a]].kind = "forking"
    BY ONLY <2>2, <2>3, <2>6 DEF Shape, Kind, TypeOK
  <2> QED
    BY ONLY <2>7, <2>8, <2>9 DEF Shape, Kind
<1>5. ASSUME NEW p \in Procs, NEW q \in Procs, NEW r \in Slots, NEW s \in Slots,
             Clone(p, s, q, r)
      PROVE  Shape'
  <2>1. PICK o, e, c \in Objs : Cloned(p, s, q, r, o, e, c)
    BY <1>5, CloneFacts
  <2>2. UNCHANGED <<state, forkBar, opened, parent, Count, late, stray>>
    BY <1>5 DEF Clone, memory
  <2>3. Shape /\ TypeOK
    BY ONLY MInv DEF MInv
  <2>4. PICK kind \in {"cb", "array"} :
           /\ obj'[c].kind = kind /\ Kind(c) \in {kind, "free"} /\ Kind(e) = "cb" /\ obj'[e].kind = "cb"
           /\ obj'[e].elem = obj[e].elem
           /\ kind = "array" => obj'[c].elem = e
           /\ kind = "cb" => c = e
           /\ \A b \in Objs : b # e /\ b # c => obj'[b] = obj[b]
    BY ONLY <2>1 DEF Cloned, Kind
  <2>5. \A a \in Procs, k \in Slots : var'[a][k] \in {var[a][k], c}
    BY ONLY <2>1 DEF Cloned
  <2>6. \A b \in Objs : Kind(b) # "free" => obj'[b].kind = Kind(b) /\ obj'[b].elem = obj[b].elem
    BY ONLY <2>1, <2>4 DEF Cloned, Kind
  <2>7. \A b \in Objs :
           /\ obj'[b].kind = "array" => obj'[b].elem \in Objs /\ obj'[obj'[b].elem].kind = "cb"
           /\ obj'[b].kind # "array" => obj'[b].elem = NULL
           /\ obj'[b].kind # "cb" => stray'[b] = 0
    <3> SUFFICES ASSUME NEW b \in Objs
                 PROVE  /\ obj'[b].kind = "array" => /\ obj'[b].elem \in Objs
                                                     /\ obj'[obj'[b].elem].kind = "cb"
                        /\ obj'[b].kind # "array" => obj'[b].elem = NULL
                        /\ obj'[b].kind # "cb" => stray'[b] = 0
      OBVIOUS
    <3>1. stray' = stray
      BY ONLY <2>2
    <3>2. CASE b = e
      BY ONLY <2>1, <2>3, <2>4, <3>2 DEF Shape, Kind
    <3>3. CASE b # e /\ b = c
      BY ONLY <2>1, <2>3, <2>4, <3>1, <3>3 DEF Shape, Kind
    <3>4. CASE b # e /\ b # c
      <4>1. obj'[b] = obj[b]
        BY <2>4, <3>4
      <4>2. /\ Kind(b) = "array" => obj[b].elem \in Objs /\ Kind(obj[b].elem) = "cb"
            /\ Kind(b) # "array" => obj[b].elem = NULL
            /\ Kind(b) # "cb" => stray[b] = 0
        BY <2>3 DEF Shape
      <4>3. \A x \in Objs : Kind(x) = "cb" => obj'[x].kind = "cb"
        BY ONLY <2>6
      <4> QED
        BY ONLY <3>1, <4>1, <4>2, <4>3 DEF Kind
    <3> QED
      BY <3>2, <3>3, <3>4
  <2>8. \A a \in Procs, k \in Slots :
           var'[a][k] # NULL => obj'[var'[a][k]].kind \in {"cb", "array"}
    <3>1. obj'[c].kind \in {"cb", "array"}
      BY ONLY <2>4
    <3>2. \A a \in Procs, k \in Slots :
             var[a][k] # NULL => var[a][k] \in Objs /\ Kind(var[a][k]) \in {"cb", "array"}
      BY ONLY <2>3 DEF Shape, TypeOK
    <3>3. \A x \in Objs : Kind(x) \in {"cb", "array"} => obj'[x].kind \in {"cb", "array"}
      BY ONLY <2>6
    <3> QED
      BY ONLY <2>5, <3>1, <3>2, <3>3
  <2>9. \A a \in Procs : forkBar'[a] # NULL => obj'[forkBar'[a]].kind = "forking"
    <3>1. forkBar' = forkBar
      BY ONLY <2>2
    <3>2. \A a \in Procs :
             forkBar[a] # NULL => forkBar[a] \in Objs /\ Kind(forkBar[a]) = "forking"
      BY ONLY <2>3 DEF Shape, TypeOK
    <3>3. \A x \in Objs : Kind(x) = "forking" => obj'[x].kind = "forking"
      BY ONLY <2>6
    <3> QED
      BY ONLY <3>1, <3>2, <3>3
  <2> QED
    BY ONLY <2>7, <2>8, <2>9 DEF Shape, Kind
<1>6. ASSUME NEW p \in Procs, NEW q \in Procs, NEW r \in Slots, NEW s \in Slots,
             Move(p, s, q, r)
      PROVE  Shape'
  <2>1. PICK o, e \in Objs : Moved(p, s, q, r, o, e)
    BY <1>6, MoveFacts
  <2>2. UNCHANGED <<state, forkBar, opened, parent, Count, late>>
    BY <1>6 DEF Move, memory
  <2>3. Shape /\ TypeOK
    BY ONLY MInv DEF MInv
  <2>4. /\ \A b \in Objs : obj'[b].kind = Kind(b) /\ obj'[b].elem = obj[b].elem
        /\ \A b \in Objs : Kind(b) # "cb" => stray'[b] = stray[b]
    BY ONLY <2>1 DEF Moved, Kind
  <2>5. \A a \in Procs, k \in Slots : var'[a][k] \in {var[a][k], var[p][s], NULL}
    BY ONLY <2>1 DEF Moved
  <2> QED
    BY ONLY <1>6, <2>2, <2>3, <2>4, <2>5 DEF Shape, Kind, TypeOK
<1>7. ASSUME NEW p \in Procs, OpenBlock(p) PROVE Shape'
  BY <1>7 DEF OpenBlock, Free
<1>8. ASSUME NEW p \in Procs, SyncSets(p) PROVE Shape'
  BY <1>8 DEF SyncSets
<1>9. ASSUME NEW p \in Procs, SyncDec(p) PROVE Shape'
  <2>1. PICK o \in Objs : Waits(p, o)
    BY <1>9, SyncDecFacts
  <2>2. UNCHANGED <<stray, var, parent, Count, late>>
    BY <1>9 DEF SyncDec, memory
  <2>3. Shape /\ TypeOK /\ Blocks
    BY ONLY MInv DEF MInv
  <2>4. /\ Kind(o) = "forking" /\ obj'[o].kind \in {"free", "forking"}
        /\ obj'[o].elem = NULL
        /\ \A b \in Objs : b # o => obj'[b] = obj[b]
    <3>1. Kind(o) = "forking" /\ obj[o].elem = NULL
      BY ONLY <2>1, <2>3 DEF Waits, Shape
    <3> QED
      BY ONLY <2>1, <3>1 DEF Waits, Free
  <2>5. /\ obj'[o].kind = "free" => \A x \in Procs : forkBar'[x] # o
        /\ \A x \in Procs : forkBar'[x] \in {forkBar[x], NULL}
    <3>1. CASE obj[o].ref = 1
      <4>1. Forked(o) = {p} /\ forkBar[p] = o /\ forkBar'[p] = NULL /\ opened[p]
        BY ONLY <2>1, <3>1 DEF Waits
      <4>2. \A x \in Procs : x # p => state'[x] = state[x] /\ forkBar'[x] = forkBar[x]
        BY ONLY <2>1, <3>1 DEF Waits
      <4>3. \A x \in Procs : forkBar[x] = o => x = p
        BY ONLY <1>9, <2>1, <2>3, <4>1 DEF Forked, Blocks
      <4> QED
        BY ONLY <2>1, <4>1, <4>2, <4>3, NullAssumption
    <3>2. CASE obj[o].ref # 1
      BY ONLY <2>1, <3>2 DEF Waits
    <3> QED
      BY <3>1, <3>2
  <2>6. \A b \in Objs :
           /\ obj'[b].kind = "array" => obj'[b].elem \in Objs /\ obj'[obj'[b].elem].kind = "cb"
           /\ obj'[b].kind # "array" => obj'[b].elem = NULL
           /\ obj'[b].kind # "cb" => stray'[b] = 0
    <3>1. stray' = stray
      BY ONLY <2>2
    <3>2. /\ obj'[o].kind \notin {"array", "cb"} /\ obj'[o].elem = NULL /\ stray[o] = 0
          /\ \A x \in Objs : Kind(x) = "cb" => obj'[x].kind = "cb"
      BY ONLY <2>1, <2>3, <2>4 DEF Shape, Kind
    <3>3. \A b \in Objs : b # o =>
             /\ obj'[b].kind = "array" => obj'[b].elem \in Objs /\ obj'[obj'[b].elem].kind = "cb"
             /\ obj'[b].kind # "array" => obj'[b].elem = NULL
             /\ obj'[b].kind # "cb" => stray[b] = 0
      BY ONLY <2>3, <2>4, <3>2 DEF Shape, Kind
    <3> QED
      BY ONLY <3>1, <3>2, <3>3
  <2>7. \A a \in Procs, k \in Slots :
           var'[a][k] # NULL => obj'[var'[a][k]].kind \in {"cb", "array"}
    <3>1. var' = var
      BY ONLY <2>2
    <3>2. \A a \in Procs, k \in Slots :
             var[a][k] # NULL => /\ var[a][k] \in Objs /\ var[a][k] # o
                                 /\ obj[var[a][k]].kind \in {"cb", "array"}
      BY ONLY <2>3, <2>4 DEF Shape, TypeOK, Kind
    <3> QED
      BY ONLY <2>4, <3>1, <3>2
  <2>8. \A a \in Procs : forkBar'[a] # NULL => obj'[forkBar'[a]].kind = "forking"
    <3>1. \A a \in Procs :
             forkBar'[a] # NULL => forkBar'[a] \in Objs /\ obj[forkBar'[a]].kind = "forking"
      BY ONLY <2>3, <2>5 DEF Shape, TypeOK, Kind
    <3> QED
      BY ONLY <2>4, <2>5, <3>1
  <2> QED
    BY ONLY <2>6, <2>7, <2>8 DEF Shape, Kind
<1>10. ASSUME NEW p \in Procs, ReleaseBar(p) PROVE Shape'
  <2>1. PICK o \in Objs : Finishes(p, o)
    BY <1>10, ReleaseBarFacts
  <2>2. UNCHANGED <<stray, var, parent, Count>>
    BY <1>10 DEF ReleaseBar, memory
  <2>3. Shape /\ TypeOK /\ Blocks
    BY ONLY MInv DEF MInv
  <2>4. /\ Kind(o) = "forking" /\ obj'[o].kind \in {"free", "forking"}
        /\ obj'[o].elem = NULL
        /\ \A b \in Objs : b # o => obj'[b] = obj[b]
    <3>1. Kind(o) = "forking" /\ obj[o].elem = NULL
      BY ONLY <2>1, <2>3 DEF Finishes, Shape
    <3> QED
      BY ONLY <2>1, <3>1 DEF Finishes, Free
  <2>5. /\ obj'[o].kind = "free" => \A x \in Procs : forkBar'[x] # o
        /\ \A x \in Procs : forkBar'[x] \in {forkBar[x], NULL}
    <3>1. CASE obj[o].ref = 1
      <4>1. Forked(o) = {p} /\ forkBar[p] = o /\ forkBar'[p] = NULL
        BY ONLY <2>1, <3>1 DEF Finishes
      <4>2. PICK w \in Procs :
              /\ forkBar[w] = o /\ opened[w] /\ forkBar'[w] = NULL
              /\ \A x \in Procs : x # p /\ x # w => forkBar'[x] = forkBar[x]
        BY ONLY <2>1, <3>1 DEF Finishes
      <4>3. \A x \in Procs : forkBar[x] = o => x \in {p, w}
        BY ONLY <1>10, <2>1, <2>3, <4>1, <4>2 DEF Forked, Blocks
      <4> QED
        BY ONLY <2>1, <4>1, <4>2, <4>3, NullAssumption
    <3>2. CASE obj[o].ref # 1
      BY ONLY <2>1, <3>2 DEF Finishes
    <3> QED
      BY <3>1, <3>2
  <2>6. \A b \in Objs :
           /\ obj'[b].kind = "array" => obj'[b].elem \in Objs /\ obj'[obj'[b].elem].kind = "cb"
           /\ obj'[b].kind # "array" => obj'[b].elem = NULL
           /\ obj'[b].kind # "cb" => stray'[b] = 0
    <3>1. stray' = stray
      BY ONLY <2>2
    <3>2. /\ obj'[o].kind \notin {"array", "cb"} /\ obj'[o].elem = NULL /\ stray[o] = 0
          /\ \A x \in Objs : Kind(x) = "cb" => obj'[x].kind = "cb"
      BY ONLY <2>1, <2>3, <2>4 DEF Shape, Kind
    <3>3. \A b \in Objs : b # o =>
             /\ obj'[b].kind = "array" => obj'[b].elem \in Objs /\ obj'[obj'[b].elem].kind = "cb"
             /\ obj'[b].kind # "array" => obj'[b].elem = NULL
             /\ obj'[b].kind # "cb" => stray[b] = 0
      BY ONLY <2>3, <2>4, <3>2 DEF Shape, Kind
    <3> QED
      BY ONLY <3>1, <3>2, <3>3
  <2>7. \A a \in Procs, k \in Slots :
           var'[a][k] # NULL => obj'[var'[a][k]].kind \in {"cb", "array"}
    <3>1. var' = var
      BY ONLY <2>2
    <3>2. \A a \in Procs, k \in Slots :
             var[a][k] # NULL => /\ var[a][k] \in Objs /\ var[a][k] # o
                                 /\ obj[var[a][k]].kind \in {"cb", "array"}
      BY ONLY <2>3, <2>4 DEF Shape, TypeOK, Kind
    <3> QED
      BY ONLY <2>4, <3>1, <3>2
  <2>8. \A a \in Procs : forkBar'[a] # NULL => obj'[forkBar'[a]].kind = "forking"
    <3>1. \A a \in Procs :
             forkBar'[a] # NULL => forkBar'[a] \in Objs /\ obj[forkBar'[a]].kind = "forking"
      BY ONLY <2>3, <2>5 DEF Shape, TypeOK, Kind
    <3> QED
      BY ONLY <2>4, <2>5, <3>1
  <2> QED
    BY ONLY <2>6, <2>7, <2>8 DEF Shape, Kind
<1>11. ASSUME NEW p \in Procs, ProcEnd(p) PROVE Shape'
  BY <1>11 DEF ProcEnd
<1>12. ASSUME NEW p \in Procs, NEW q \in Procs, Fork(p, q) PROVE Shape'
  BY <1>12 DEF Fork
<1>13. ASSUME NEW p \in Procs, NEW q \in Procs, ProcStart(p, q) PROVE Shape'
  BY <1>13 DEF ProcStart, SetsUp
<1>14. ASSUME NEW p \in Procs, NEW q \in Procs, Startp(p, q) PROVE Shape'
  BY <1>14 DEF Startp
<1>15. ASSUME NEW p \in Procs, NEW q \in Procs, ParEnroll(p, q) PROVE Shape'
  BY <1>15 DEF ParEnroll
<1>16. ASSUME NEW p \in Procs, NEW q \in Procs, Endp(p, q) PROVE Shape'
  BY <1>16 DEF Endp, Clean
<1> QED
  BY <1>1, <1>2, <1>3, <1>4, <1>5, <1>6, <1>7, <1>8, <1>9, <1>10, <1>11, <1>12, <1>13,
     <1>14, <1>15, <1>16
     DEF Next

(* What the state of a process says about its place in blocks and PARs.     *)
LEMMA FamiliesStep == MInv /\ [Next]_vars => Families'
<1> SUFFICES ASSUME MInv, [Next]_vars PROVE Families'
  OBVIOUS
<1> USE MobileAssumption, NullAssumption
    DEF MInv, TypeOK, Families, Kind, To, Set, memory
<1>1. CASE UNCHANGED vars
  BY <1>1 DEF vars
<1>2. ASSUME NEW p \in Procs, NEW r \in Slots, NEW s \in Slots,
             AllocCB(p, r, s)
      PROVE  Families'
  BY <1>2 DEF AllocCB, Free
<1>3. ASSUME NEW p \in Procs, NEW s \in Slots, AllocArray(p, s) PROVE Families'
  BY <1>3 DEF AllocArray, Free
<1>4. ASSUME NEW p \in Procs, NEW s \in Slots, Release(p, s) PROVE Families'
  <2>1. UNCHANGED <<state, forkBar, opened, parent, Count>>
    BY ONLY <1>4 DEF Release
  <2> QED
    BY ONLY <2>1, MInv DEF MInv, Families
<1>5. ASSUME NEW p \in Procs, NEW q \in Procs, NEW r \in Slots, NEW s \in Slots,
             Clone(p, s, q, r)
      PROVE  Families'
  <2>1. UNCHANGED <<state, forkBar, opened, parent, Count>>
    BY ONLY <1>5 DEF Clone
  <2> QED
    BY ONLY <2>1, MInv DEF MInv, Families
<1>6. ASSUME NEW p \in Procs, NEW q \in Procs, NEW r \in Slots, NEW s \in Slots,
             Move(p, s, q, r)
      PROVE  Families'
  <2>1. UNCHANGED <<state, forkBar, opened, parent, Count>>
    BY ONLY <1>6 DEF Move
  <2> QED
    BY ONLY <2>1, MInv DEF MInv, Families
<1>7. ASSUME NEW p \in Procs, OpenBlock(p) PROVE Families'
  BY <1>7 DEF OpenBlock, Free
<1>8. ASSUME NEW p \in Procs, SyncSets(p) PROVE Families'
  BY <1>8 DEF SyncSets
<1>9. ASSUME NEW p \in Procs, SyncDec(p) PROVE Families'
  <2>1. PICK o \in Objs : Waits(p, o)
    BY <1>9, SyncDecFacts
  <2>2. UNCHANGED <<stray, var, parent, Count, late>>
    BY <1>9 DEF SyncDec, memory
  <2>3. /\ parent \in [Procs -> Procs \cup {NULL}] /\ NULL \notin Procs
        /\ Families
    BY ONLY MInv, NullAssumption DEF MInv, TypeOK
  <2>4. /\ \A q \in Procs : q # p => /\ state'[q] = state[q] /\ forkBar'[q] = forkBar[q]
                                     /\ opened'[q] = opened[q]
        /\ state[p] = "dec" /\ state'[p] \in {"run", "sync"}
        /\ forkBar'[p] = NULL \/ opened'[p]
    BY ONLY <2>1 DEF Waits
  <2> QED
    BY ONLY <1>9, <2>2, <2>3, <2>4 DEF Families
<1>10. ASSUME NEW p \in Procs, ReleaseBar(p) PROVE Families'
  <2>1. PICK o \in Objs : Finishes(p, o)
    BY <1>10, ReleaseBarFacts
  <2>2. UNCHANGED <<stray, var, parent, Count>>
    BY <1>10 DEF ReleaseBar, memory
  <2>3. /\ parent \in [Procs -> Procs \cup {NULL}] /\ NULL \notin Procs
        /\ Families
    BY ONLY MInv, NullAssumption DEF MInv, TypeOK
  <2>4. /\ state[p] = "run" /\ parent[p] = NULL /\ Count[p] = 0
        /\ ~opened[p] /\ opened'[p] = opened[p] /\ forkBar'[p] = NULL
        /\ state'[p] \in {"none", "resign"}
    BY ONLY <2>1 DEF Finishes
  <2>5. \A q \in Procs : q # p =>
           \/ /\ state'[q] = state[q] /\ forkBar'[q] = forkBar[q]
              /\ opened'[q] = opened[q]
           \/ state[q] = "sync" /\ state'[q] = "run" /\ forkBar'[q] = NULL
    BY ONLY <1>10, <2>1 DEF Finishes
  <2> QED
    BY ONLY <1>10, <2>2, <2>3, <2>4, <2>5 DEF Families
<1>11. ASSUME NEW p \in Procs, ProcEnd(p) PROVE Families'
  BY <1>11 DEF ProcEnd
<1>12. ASSUME NEW p \in Procs, NEW q \in Procs, Fork(p, q) PROVE Families'
  BY <1>12 DEF Fork
<1>13. ASSUME NEW p \in Procs, NEW q \in Procs, ProcStart(p, q) PROVE Families'
  BY <1>13 DEF ProcStart, SetsUp
<1>14. ASSUME NEW p \in Procs, NEW q \in Procs, Startp(p, q) PROVE Families'
  BY <1>14 DEF Startp
<1>15. ASSUME NEW p \in Procs, NEW q \in Procs, ParEnroll(p, q) PROVE Families'
  BY <1>15 DEF ParEnroll
<1>16. ASSUME NEW p \in Procs, NEW q \in Procs, Endp(p, q) PROVE Families'
  <2>1. Ends(p, q)
    BY <1>16, EndpFacts
  <2>2. UNCHANGED <<obj, stray, var, forkBar, opened, late>>
    BY <1>16 DEF Endp, memory
  <2>3. /\ parent \in [Procs -> Procs \cup {NULL}] /\ NULL \notin Procs
        /\ Families
    BY ONLY MInv, NullAssumption DEF MInv, TypeOK
  <2>4. CASE q = p
    <3>1. /\ state[p] = "run" /\ ~opened[p] /\ state'[p] \in {"run", "par"}
          /\ \A x \in Procs : x # p => state'[x] = state[x] /\ Count'[x] = Count[x]
          /\ \A x \in Procs : parent'[x] = parent[x]
      BY ONLY <1>16, <2>1, <2>4 DEF Ends
    <3> QED
      BY ONLY <1>16, <2>2, <2>3, <3>1 DEF Families
  <2>5. CASE q # p
    <3>1. /\ state[p] = "run" /\ ~opened[p] /\ state'[p] = "none" /\ parent'[p] = NULL
          /\ forkBar[p] = NULL /\ Count[p] = 0 /\ Count'[p] = 0
          /\ Count[q] # 0
          /\ state'[q] = state[q] \/ (state[q] = "par" /\ state'[q] = "run")
      BY ONLY <1>16, <2>1, <2>5 DEF Ends
    <3>2. /\ \A x \in Procs : x # p => parent'[x] = parent[x]
          /\ \A x \in Procs : x # p /\ x # q => state'[x] = state[x] /\ Count'[x] = Count[x]
      BY ONLY <1>16, <2>1, <2>5 DEF Ends
    <3> QED
      BY ONLY <1>16, <2>2, <2>3, <2>5, <3>1, <3>2 DEF Families
  <2> QED
    BY <2>4, <2>5
<1> QED
  BY <1>1, <1>2, <1>3, <1>4, <1>5, <1>6, <1>7, <1>8, <1>9, <1>10, <1>11, <1>12, <1>13,
     <1>14, <1>15, <1>16
     DEF Next

(* A block keeps its one opener, who is in its word while it waits.         *)
LEMMA BlocksStep == MInv /\ [Next]_vars => Blocks'
<1> SUFFICES ASSUME MInv, [Next]_vars PROVE Blocks'
  OBVIOUS
<1> USE MobileAssumption, NullAssumption
    DEF MInv, TypeOK, Shape, Families, Blocks, Kind, To, Set, memory
<1>1. CASE UNCHANGED vars
  BY <1>1 DEF vars
<1>2. ASSUME NEW p \in Procs, NEW r \in Slots, NEW s \in Slots,
             AllocCB(p, r, s)
      PROVE  Blocks'
  <2>1. Aside
    BY <1>2, VariablesAside
  <2>2. Shape /\ TypeOK /\ Blocks
    BY ONLY MInv DEF MInv
  <2> QED
    BY ONLY <2>1, <2>2 DEF Aside, Shape, TypeOK, Blocks, Kind
<1>3. ASSUME NEW p \in Procs, NEW s \in Slots, AllocArray(p, s) PROVE Blocks'
  <2>1. Aside
    BY <1>3, VariablesAside
  <2>2. Shape /\ TypeOK /\ Blocks
    BY ONLY MInv DEF MInv
  <2> QED
    BY ONLY <2>1, <2>2 DEF Aside, Shape, TypeOK, Blocks, Kind
<1>4. ASSUME NEW p \in Procs, NEW s \in Slots, Release(p, s) PROVE Blocks'
  <2>1. Aside
    BY <1>4, VariablesAside
  <2>2. Shape /\ TypeOK /\ Blocks
    BY ONLY MInv DEF MInv
  <2> QED
    BY ONLY <2>1, <2>2 DEF Aside, Shape, TypeOK, Blocks, Kind
<1>5. ASSUME NEW p \in Procs, NEW q \in Procs, NEW r \in Slots, NEW s \in Slots,
             Clone(p, s, q, r)
      PROVE  Blocks'
  <2>1. Aside
    BY <1>5, VariablesAside
  <2>2. Shape /\ TypeOK /\ Blocks
    BY ONLY MInv DEF MInv
  <2> QED
    BY ONLY <2>1, <2>2 DEF Aside, Shape, TypeOK, Blocks, Kind
<1>6. ASSUME NEW p \in Procs, NEW q \in Procs, NEW r \in Slots, NEW s \in Slots,
             Move(p, s, q, r)
      PROVE  Blocks'
  <2>1. Aside
    BY <1>6, VariablesAside
  <2>2. Shape /\ TypeOK /\ Blocks
    BY ONLY MInv DEF MInv
  <2> QED
    BY ONLY <2>1, <2>2 DEF Aside, Shape, TypeOK, Blocks, Kind
<1>7. ASSUME NEW p \in Procs, OpenBlock(p) PROVE Blocks'
  BY <1>7 DEF OpenBlock, Free
<1>8. ASSUME NEW p \in Procs, SyncSets(p) PROVE Blocks'
  BY <1>8 DEF SyncSets
<1>9. ASSUME NEW p \in Procs, SyncDec(p) PROVE Blocks'
  <2>1. PICK o \in Objs : Waits(p, o)
    BY <1>9, SyncDecFacts
  <2>2. UNCHANGED <<stray, var, parent, Count, late>>
    BY <1>9 DEF SyncDec, memory
  <2>3. /\ Shape /\ Blocks /\ forkBar \in [Procs -> Objs \cup {NULL}]
        /\ \A x \in Procs : x # NULL
        /\ \A x \in Objs : x # NULL
    BY ONLY MInv, NullAssumption DEF MInv, TypeOK
  <2>5. \A b \in Objs : Kind(b) = "forking" /\ obj[b].word # NULL => obj[b].word \in Procs
    BY ONLY MInv DEF MInv, TypeOK, Kind
  <2>6. /\ o = forkBar[p] /\ Kind(o) = "forking" /\ opened[p] /\ obj[o].word = p
        /\ \A b \in Objs : b # o => obj'[b] = obj[b]
        /\ \A x \in Procs : x # p => /\ state'[x] = state[x] /\ forkBar'[x] = forkBar[x]
                                     /\ opened'[x] = opened[x]
    BY ONLY <2>1 DEF Waits
  <2>7. CASE obj[o].ref = 1
    <3>1. /\ obj'[o].kind = "free" /\ obj'[o].word = NULL
          /\ state'[p] = "run" /\ forkBar'[p] = NULL /\ ~opened'[p]
      BY ONLY <2>1, <2>7 DEF Waits, Free
    <3>2. \A x \in Procs : opened[x] /\ x # p => forkBar[x] # o
      BY ONLY <1>9, <2>3, <2>6 DEF Blocks
    <3> QED
      BY ONLY <1>9, <2>1, <2>3, <2>5, <2>6, <3>1, <3>2 DEF Blocks, Shape, Kind
  <2>8. CASE obj[o].ref # 1
    <3>1. /\ obj'[o].kind = "forking" /\ obj'[o].word = p
          /\ state'[p] = "sync" /\ forkBar'[p] = o /\ opened'[p]
      BY ONLY <2>1, <2>8 DEF Waits
    <3> QED
      BY ONLY <1>9, <2>1, <2>3, <2>5, <2>6, <3>1 DEF Blocks, Shape, Kind
  <2> QED
    BY <2>7, <2>8
<1>10. ASSUME NEW p \in Procs, ReleaseBar(p) PROVE Blocks'
  <2>1. PICK o \in Objs : Finishes(p, o)
    BY <1>10, ReleaseBarFacts
  <2>2. UNCHANGED <<stray, var, parent, Count>>
    BY <1>10 DEF ReleaseBar, memory
  <2>3. /\ Shape /\ Blocks /\ forkBar \in [Procs -> Objs \cup {NULL}]
        /\ \A x \in Procs : x # NULL
        /\ \A x \in Objs : x # NULL
    BY ONLY MInv, NullAssumption DEF MInv, TypeOK
  <2>5. \A b \in Objs : Kind(b) = "forking" /\ obj[b].word # NULL => obj[b].word \in Procs
    BY ONLY MInv DEF MInv, TypeOK, Kind
  <2>6. /\ o = forkBar[p] /\ Kind(o) = "forking" /\ ~opened[p] /\ state[p] = "run"
        /\ \A b \in Objs : b # o => obj'[b] = obj[b]
    BY ONLY <2>1 DEF Finishes
  <2>7. CASE obj[o].ref = 1
    <3>1. PICK w \in Procs :
            /\ w # p /\ forkBar[w] = o /\ opened[w] /\ state[w] = "sync"
            /\ state'[p] = "none" /\ state'[w] = "run"
            /\ forkBar'[p] = NULL /\ forkBar'[w] = NULL
            /\ opened'[p] = opened[p] /\ opened'[w] = FALSE
            /\ \A x \in Procs : x # p /\ x # w =>
                  /\ state'[x] = state[x] /\ forkBar'[x] = forkBar[x]
                  /\ opened'[x] = opened[x]
      BY ONLY <2>1, <2>7 DEF Finishes
    <3>2. obj'[o].kind = "free" /\ ~opened'[p] /\ ~opened'[w]
      BY ONLY <2>1, <2>6, <2>7, <3>1 DEF Finishes, Free
    <3>3. \A x \in Procs : opened[x] /\ x # w => forkBar[x] # o
      BY ONLY <2>3, <3>1 DEF Blocks
    <3> QED
      BY ONLY <1>10, <2>1, <2>3, <2>5, <2>6, <3>1, <3>2, <3>3 DEF Blocks, Shape, Kind
  <2>8. CASE obj[o].ref # 1
    <3>1. /\ obj'[o].kind = "forking" /\ obj'[o].word = obj[o].word
          /\ state'[p] = "resign" /\ forkBar'[p] = NULL /\ opened' = opened
          /\ \A x \in Procs : x # p => state'[x] = state[x] /\ forkBar'[x] = forkBar[x]
      BY ONLY <2>1, <2>8 DEF Finishes
    <3>2. \A b \in Objs : Kind(b) = "forking" => obj[b].word # p
      BY ONLY <1>10, <2>3, <2>6 DEF Blocks
    <3> QED
      BY ONLY <1>10, <2>1, <2>3, <2>5, <2>6, <3>1, <3>2 DEF Blocks, Shape, Kind
  <2> QED
    BY <2>7, <2>8
<1>11. ASSUME NEW p \in Procs, ProcEnd(p) PROVE Blocks'
  BY <1>11 DEF ProcEnd
<1>12. ASSUME NEW p \in Procs, NEW q \in Procs, Fork(p, q) PROVE Blocks'
  <2>1. /\ state[p] = "run" /\ ~opened[q] /\ opened' = opened
        /\ state'[q] = "setup" /\ state'[p] \notin {"dec", "sync"}
        /\ \A x \in Procs : x # q => forkBar'[x] = forkBar[x]
        /\ \A x \in Procs : x # p /\ x # q => state'[x] = state[x]
        /\ p # q /\ state[q] = "none"
    BY <1>12 DEF Fork, MInv, TypeOK, Families
  <2>2. \A b \in Objs : obj'[b].kind = Kind(b) /\ obj'[b].word = obj[b].word
    BY <1>12 DEF Fork, MInv, TypeOK, Kind
  <2>3. /\ Shape /\ Blocks /\ forkBar \in [Procs -> Objs \cup {NULL}]
        /\ \A x \in Procs : x # NULL
        /\ \A x \in Objs : x # NULL
    BY ONLY MInv, NullAssumption DEF MInv, TypeOK
  <2>4. \A b \in Objs : Kind(b) = "forking" /\ obj[b].word # NULL =>
           obj[b].word \in Procs /\ obj[b].word # p /\ obj[b].word # q
    <3>1. \A b \in Objs : Kind(b) = "forking" /\ obj[b].word # NULL => obj[b].word \in Procs
      BY ONLY MInv DEF MInv, TypeOK, Kind
    <3> QED
      BY ONLY <2>1, <2>3, <3>1 DEF Blocks, Kind
  <2> QED
    BY ONLY <1>12, <2>1, <2>2, <2>3, <2>4 DEF Blocks, Shape, Kind
<1>13. ASSUME NEW p \in Procs, NEW q \in Procs, ProcStart(p, q) PROVE Blocks'
  BY <1>13 DEF ProcStart, SetsUp
<1>14. ASSUME NEW p \in Procs, NEW q \in Procs, Startp(p, q) PROVE Blocks'
  BY <1>14 DEF Startp
<1>15. ASSUME NEW p \in Procs, NEW q \in Procs, ParEnroll(p, q) PROVE Blocks'
  BY <1>15 DEF ParEnroll
<1>16. ASSUME NEW p \in Procs, NEW q \in Procs, Endp(p, q) PROVE Blocks'
  <2>1. Ends(p, q)
    BY <1>16, EndpFacts
  <2>2. UNCHANGED <<obj, stray, var, forkBar, opened, late>>
    BY <1>16 DEF Endp, memory
  <2>3. /\ Shape /\ Blocks /\ forkBar \in [Procs -> Objs \cup {NULL}]
        /\ \A x \in Procs : x # NULL
        /\ \A x \in Objs : x # NULL
    BY ONLY MInv, NullAssumption DEF MInv, TypeOK
  <2>4. \A x \in Procs :
           \/ state'[x] = state[x]
           \/ /\ state[x] \in {"run", "par"} /\ state'[x] \in {"run", "par", "none"}
    BY ONLY <1>16, <2>1 DEF Ends
  <2>5. \A b \in Objs : Kind(b) = "forking" /\ obj[b].word # NULL => obj[b].word \in Procs
    BY ONLY MInv DEF MInv, TypeOK, Kind
  <2> QED
    BY ONLY <1>16, <2>2, <2>3, <2>4, <2>5 DEF Blocks, Shape, Kind
<1> QED
  BY <1>1, <1>2, <1>3, <1>4, <1>5, <1>6, <1>7, <1>8, <1>9, <1>10, <1>11, <1>12, <1>13,
     <1>14, <1>15, <1>16
     DEF Next

(* The count of a fork barrier is that of the processes that have yet to    *)
(* give up theirs.                                                          *)
LEMMA BarRefsStep == MInv /\ [Next]_vars => BarRefs'
<1> SUFFICES ASSUME MInv, [Next]_vars PROVE BarRefs'
  OBVIOUS
<1>1. CASE UNCHANGED vars
  <2>1. /\ obj' = obj
        /\ \A x \in Procs : forkBar'[x] = forkBar[x] /\ (state'[x] = "sync" <=> state[x] = "sync")
    BY <1>1 DEF vars
  <2>2. \A o : Forked(o)' = Forked(o)
    BY ONLY <2>1, ForkedSame
  <2> QED
    BY ONLY <2>1, <2>2, Halves, MInv DEF BarRefs, Kind
<1>2. ASSUME NEW p \in Procs, NEW r \in Slots, NEW s \in Slots,
             AllocCB(p, r, s)
      PROVE  BarRefs'
  <2>1. Aside
    BY <1>2, VariablesAside
  <2>2. \A o : Forked(o)' = Forked(o)
    BY ONLY <2>1, ForkedSame DEF Aside
  <2> QED
    BY ONLY <2>1, <2>2, Halves, OnlyBarsForked, MInv DEF BarRefs, Aside, Kind
<1>3. ASSUME NEW p \in Procs, NEW s \in Slots, AllocArray(p, s) PROVE BarRefs'
  <2>1. Aside
    BY <1>3, VariablesAside
  <2>2. \A o : Forked(o)' = Forked(o)
    BY ONLY <2>1, ForkedSame DEF Aside
  <2> QED
    BY ONLY <2>1, <2>2, Halves, OnlyBarsForked, MInv DEF BarRefs, Aside, Kind
<1>4. ASSUME NEW p \in Procs, NEW s \in Slots, Release(p, s) PROVE BarRefs'
  <2>1. Aside
    BY <1>4, VariablesAside
  <2>2. \A o : Forked(o)' = Forked(o)
    BY ONLY <2>1, ForkedSame DEF Aside
  <2> QED
    BY ONLY <2>1, <2>2, Halves, OnlyBarsForked, MInv DEF BarRefs, Aside, Kind
<1>5. ASSUME NEW p \in Procs, NEW q \in Procs, NEW r \in Slots, NEW s \in Slots,
             Clone(p, s, q, r)
      PROVE  BarRefs'
  <2>1. Aside
    BY <1>5, VariablesAside
  <2>2. \A o : Forked(o)' = Forked(o)
    BY ONLY <2>1, ForkedSame DEF Aside
  <2> QED
    BY ONLY <2>1, <2>2, Halves, OnlyBarsForked, MInv DEF BarRefs, Aside, Kind
<1>6. ASSUME NEW p \in Procs, NEW q \in Procs, NEW r \in Slots, NEW s \in Slots,
             Move(p, s, q, r)
      PROVE  BarRefs'
  <2>1. Aside
    BY <1>6, VariablesAside
  <2>2. \A o : Forked(o)' = Forked(o)
    BY ONLY <2>1, ForkedSame DEF Aside
  <2> QED
    BY ONLY <2>1, <2>2, Halves, OnlyBarsForked, MInv DEF BarRefs, Aside, Kind
<1>7. ASSUME NEW p \in Procs, OpenBlock(p) PROVE BarRefs'
  <2>1. PICK o \in Objs :
          /\ Kind(o) = "free" /\ obj' = [obj EXCEPT ![o] = [Free EXCEPT !.kind = "forking", !.ref = 1]]
          /\ forkBar' = [forkBar EXCEPT ![p] = o] /\ forkBar[p] = NULL
          /\ state[p] = "run" /\ state' = state
    BY <1>7 DEF OpenBlock
  <2>2. /\ obj'[o].kind = "forking" /\ obj'[o].ref = 1
        /\ \A b \in Objs : b # o => obj'[b] = obj[b]
        /\ forkBar'[p] = o /\ \A x \in Procs : x # p => forkBar'[x] = forkBar[x]
    BY <2>1 DEF MInv, TypeOK, Free
  <2>3. /\ BarRefs /\ NULL \notin Objs
        /\ \A b \in Objs : Cardinality(Forked(b)) \in Nat /\ obj[b].ref \in Nat
    BY Halves, Finite, NullAssumption DEF MInv, TypeOK
  <2>4. \A b \in Objs : p \notin Forked(b) /\ (p \in Forked(b)' <=> b = o)
    BY <2>1, <2>2, <2>3 DEF Forked
  <2>5. Cardinality(Forked(o)) = 0
    BY <2>1, <2>3, FS_EmptySet DEF BarRefs
  <2>6. /\ Cardinality(Forked(o)') = Cardinality(Forked(o)) + 1
        /\ \A b \in Objs : b # o => Forked(b)' = Forked(b)
    <3>1. \A x \in Procs : x # p => forkBar'[x] = forkBar[x] /\ (state'[x] = "sync" <=> state[x] = "sync")
      BY <2>1, <2>2
    <3> QED
      BY ONLY <1>7, <2>1, <2>4, <3>1, ForkedOne
  <2> QED
    BY ONLY <2>1, <2>2, <2>3, <2>5, <2>6 DEF BarRefs, Kind
<1>8. ASSUME NEW p \in Procs, SyncSets(p) PROVE BarRefs'
  <2>1. /\ \A b \in Objs : obj'[b].kind = obj[b].kind /\ obj'[b].ref = obj[b].ref
        /\ \A x \in Procs : forkBar'[x] = forkBar[x] /\ (state'[x] = "sync" <=> state[x] = "sync")
    BY <1>8 DEF SyncSets, To, MInv, TypeOK
  <2>2. \A o : Forked(o)' = Forked(o)
    BY ONLY <2>1, ForkedSame
  <2> QED
    BY ONLY <2>1, <2>2, Halves, MInv DEF BarRefs, Kind
<1>9. ASSUME NEW p \in Procs, SyncDec(p) PROVE BarRefs'
  <2>1. PICK o \in Objs : Waits(p, o)
    BY <1>9, SyncDecFacts
  <2>2. UNCHANGED <<stray, var, parent, Count, late>>
    BY <1>9 DEF SyncDec, memory
  <2>3. /\ BarRefs /\ NULL \notin Objs
        /\ \A b \in Objs : Cardinality(Forked(b)) \in Nat /\ obj[b].ref \in Nat
    BY Halves, Finite, NullAssumption DEF MInv, TypeOK
  <2>4. CASE obj[o].ref = 1
    <3>1. /\ obj'[o].kind = "free" /\ \A b \in Objs : b # o => obj'[b] = obj[b]
          /\ Forked(o) = {p} /\ forkBar[p] = o /\ forkBar'[p] = NULL
          /\ \A x \in Procs : x # p => state'[x] = state[x] /\ forkBar'[x] = forkBar[x]
      BY ONLY <2>1, <2>4 DEF Waits, Free
    <3>2. Forked(o)' = {} /\ \A b \in Objs : b # o => Forked(b)' = Forked(b)
      BY ONLY <2>1, <2>3, <3>1 DEF Forked
    <3> QED
      BY ONLY <2>1, <2>3, <3>1, <3>2 DEF BarRefs, Kind
  <2>5. CASE obj[o].ref # 1
    <3>1. /\ obj'[o].kind = "forking" /\ obj'[o].ref = obj[o].ref - 1 /\ obj[o].ref > 1
          /\ \A b \in Objs : b # o => obj'[b] = obj[b]
          /\ Kind(o) = "forking" /\ forkBar[p] = o /\ forkBar'[p] = o
          /\ state[p] = "dec" /\ state'[p] = "sync"
          /\ \A x \in Procs : x # p => state'[x] = state[x] /\ forkBar'[x] = forkBar[x]
      BY ONLY <2>1, <2>5 DEF Waits
    <3>2. \A b \in Objs : p \notin Forked(b)' /\ (p \in Forked(b) <=> b = o)
      BY ONLY <1>9, <3>1 DEF Forked
    <3>3. /\ Cardinality(Forked(o)') = Cardinality(Forked(o)) - 1
          /\ \A b \in Objs : b # o => Forked(b)' = Forked(b)
      BY ONLY <1>9, <2>1, <3>1, <3>2, ForkedOne
    <3> QED
      BY ONLY <2>1, <2>3, <3>1, <3>3 DEF BarRefs, Kind
  <2> QED
    BY <2>4, <2>5
<1>10. ASSUME NEW p \in Procs, ReleaseBar(p) PROVE BarRefs'
  <2>1. PICK o \in Objs : Finishes(p, o)
    BY <1>10, ReleaseBarFacts
  <2>2. UNCHANGED <<stray, var, parent, Count>>
    BY <1>10 DEF ReleaseBar, memory
  <2>3. /\ BarRefs /\ NULL \notin Objs
        /\ \A b \in Objs : Cardinality(Forked(b)) \in Nat /\ obj[b].ref \in Nat
    BY Halves, Finite, NullAssumption DEF MInv, TypeOK
  <2>4. CASE obj[o].ref = 1
    <3>1. /\ obj'[o].kind = "free" /\ \A b \in Objs : b # o => obj'[b] = obj[b]
          /\ Forked(o) = {p} /\ forkBar[p] = o /\ forkBar'[p] = NULL
      BY ONLY <2>1, <2>4 DEF Finishes, Free
    <3>2. PICK w \in Procs :
            /\ forkBar[w] = o /\ forkBar'[w] = NULL
            /\ \A x \in Procs : x # p /\ x # w => state'[x] = state[x] /\ forkBar'[x] = forkBar[x]
      BY ONLY <2>1, <2>4 DEF Finishes
    <3>3. Forked(o)' = {} /\ \A b \in Objs : b # o => Forked(b)' = Forked(b)
      BY ONLY <2>1, <2>3, <3>1, <3>2 DEF Forked
    <3> QED
      BY ONLY <2>1, <2>3, <3>1, <3>3 DEF BarRefs, Kind
  <2>5. CASE obj[o].ref # 1
    <3>1. /\ obj'[o].kind = "forking" /\ obj'[o].ref = obj[o].ref - 1 /\ obj[o].ref > 1
          /\ \A b \in Objs : b # o => obj'[b] = obj[b]
          /\ Kind(o) = "forking" /\ forkBar[p] = o /\ forkBar'[p] = NULL
          /\ state[p] = "run" /\ state'[p] = "resign"
          /\ \A x \in Procs : x # p => state'[x] = state[x] /\ forkBar'[x] = forkBar[x]
      BY ONLY <2>1, <2>5 DEF Finishes
    <3>2. \A b \in Objs : p \notin Forked(b)' /\ (p \in Forked(b) <=> b = o)
      BY ONLY <1>10, <2>3, <3>1 DEF Forked
    <3>3. /\ Cardinality(Forked(o)') = Cardinality(Forked(o)) - 1
          /\ \A b \in Objs : b # o => Forked(b)' = Forked(b)
      BY ONLY <1>10, <2>1, <3>1, <3>2, ForkedOne
    <3> QED
      BY ONLY <2>1, <2>3, <3>1, <3>3 DEF BarRefs, Kind
  <2> QED
    BY <2>4, <2>5
<1>11. ASSUME NEW p \in Procs, ProcEnd(p) PROVE BarRefs'
  <2>1. /\ obj' = obj
        /\ \A x \in Procs : forkBar'[x] = forkBar[x] /\ (state'[x] = "sync" <=> state[x] = "sync")
    BY <1>11 DEF ProcEnd, To, memory, MInv, TypeOK, Families
  <2>2. \A o : Forked(o)' = Forked(o)
    BY ONLY <2>1, ForkedSame
  <2> QED
    BY ONLY <2>1, <2>2, Halves, MInv DEF BarRefs, Kind
<1>12. ASSUME NEW p \in Procs, NEW q \in Procs, Fork(p, q) PROVE BarRefs'
  <2>1. /\ state[p] = "run" /\ state[q] = "none" /\ forkBar[p] # NULL
        /\ forkBar' = [forkBar EXCEPT ![q] = forkBar[p]]
        /\ state' = [state EXCEPT ![p] = "fork", ![q] = "setup"]
    BY ONLY <1>12 DEF Fork
  <2>2. PICK o \in Objs : o = forkBar[p] /\ Kind(o) = "forking" /\ forkBar[q] = NULL
    BY <2>1 DEF MInv, TypeOK, Shape, Families
  <2>3. /\ BarRefs /\ NULL \notin Objs
        /\ \A b \in Objs : Cardinality(Forked(b)) \in Nat /\ obj[b].ref \in Nat
    BY Halves, Finite, NullAssumption DEF MInv, TypeOK
  <2>4. /\ obj'[o].kind = "forking" /\ obj'[o].ref = obj[o].ref + 1
        /\ \A b \in Objs : b # o => obj'[b] = obj[b]
        /\ forkBar'[q] = o /\ \A x \in Procs : x # q => forkBar'[x] = forkBar[x]
        /\ state'[q] = "setup"
        /\ \A x \in Procs : state'[x] = "sync" <=> state[x] = "sync"
    <3>1. forkBar' = [forkBar EXCEPT ![q] = o]
      BY <2>1, <2>2
    <3>2. /\ obj'[o].kind = "forking" /\ obj'[o].ref = obj[o].ref + 1
          /\ \A b \in Objs : b # o => obj'[b] = obj[b]
      BY <1>12, <2>2 DEF Fork, MInv, TypeOK, Kind
    <3>3. forkBar'[q] = o /\ \A x \in Procs : x # q => forkBar'[x] = forkBar[x]
      BY ONLY <1>12, <3>1, MInv DEF MInv, TypeOK
    <3>4. state'[q] = "setup" /\ \A x \in Procs : state'[x] = "sync" <=> state[x] = "sync"
      BY ONLY <1>12, <2>1, MInv DEF MInv, TypeOK
    <3> QED
      BY ONLY <3>2, <3>3, <3>4
  <2>5. \A b \in Objs : q \notin Forked(b) /\ (q \in Forked(b)' <=> b = o)
    BY <2>2, <2>3, <2>4 DEF Forked
  <2>6. /\ Cardinality(Forked(o)') = Cardinality(Forked(o)) + 1
        /\ \A b \in Objs : b # o => Forked(b)' = Forked(b)
    BY ONLY <1>12, <2>2, <2>4, <2>5, ForkedOne
  <2> QED
    BY ONLY <2>2, <2>3, <2>4, <2>6 DEF BarRefs, Kind
<1>13. ASSUME NEW p \in Procs, NEW q \in Procs, ProcStart(p, q) PROVE BarRefs'
  <2>1. /\ obj' = obj
        /\ \A x \in Procs : forkBar'[x] = forkBar[x] /\ (state'[x] = "sync" <=> state[x] = "sync")
    BY <1>13 DEF ProcStart, To, memory, SetsUp, MInv, TypeOK, Families
  <2>2. \A o : Forked(o)' = Forked(o)
    BY ONLY <2>1, ForkedSame
  <2> QED
    BY ONLY <2>1, <2>2, Halves, MInv DEF BarRefs, Kind
<1>14. ASSUME NEW p \in Procs, NEW q \in Procs, Startp(p, q) PROVE BarRefs'
  <2>1. /\ obj' = obj
        /\ \A x \in Procs : forkBar'[x] = forkBar[x] /\ (state'[x] = "sync" <=> state[x] = "sync")
    BY <1>14 DEF Startp, To, memory, MInv, TypeOK, Families
  <2>2. \A o : Forked(o)' = Forked(o)
    BY ONLY <2>1, ForkedSame
  <2> QED
    BY ONLY <2>1, <2>2, Halves, MInv DEF BarRefs, Kind
<1>15. ASSUME NEW p \in Procs, NEW q \in Procs, ParEnroll(p, q) PROVE BarRefs'
  <2>1. /\ obj' = obj
        /\ \A x \in Procs : forkBar'[x] = forkBar[x] /\ (state'[x] = "sync" <=> state[x] = "sync")
    BY <1>15 DEF ParEnroll, To, memory, MInv, TypeOK, Families
  <2>2. \A o : Forked(o)' = Forked(o)
    BY ONLY <2>1, ForkedSame
  <2> QED
    BY ONLY <2>1, <2>2, Halves, MInv DEF BarRefs, Kind
<1>16. ASSUME NEW p \in Procs, NEW q \in Procs, Endp(p, q) PROVE BarRefs'
  <2>1. Ends(p, q)
    BY <1>16, EndpFacts
  <2>2. UNCHANGED <<obj, stray, var, forkBar, opened, late>>
    BY <1>16 DEF Endp, memory
  <2>3. \A x \in Procs : forkBar'[x] = forkBar[x] /\ (state'[x] = "sync" <=> state[x] = "sync")
    BY ONLY <1>16, <2>1, <2>2 DEF Ends
  <2>4. \A o : Forked(o)' = Forked(o)
    BY ONLY <2>3, ForkedSame
  <2> QED
    BY ONLY <2>2, <2>4, Halves, MInv DEF BarRefs, Kind
<1> QED
  BY <1>1, <1>2, <1>3, <1>4, <1>5, <1>6, <1>7, <1>8, <1>9, <1>10, <1>11, <1>12, <1>13,
     <1>14, <1>15, <1>16
     DEF Next

-----------------------------------------------------------------------------
(* A process that waits in fork_bar_sync has a waker after every step: the  *)
(* barrier it waits at has a count above zero, so somebody refers to it.    *)
LEMMA SleepersStep ==
  MInv /\ [Next]_vars => SleeperHasWaker'
<1> SUFFICES ASSUME MInv, [Next]_vars PROVE SleeperHasWaker'
  OBVIOUS
<1>1. TypeOK' /\ Shape' /\ Blocks' /\ BarRefs' /\ BranchCounts'
  BY TypeOKStep, ShapeStep, BlocksStep, BarRefsStep, BranchCountsStep
<1>2. ASSUME NEW p \in Procs, state'[p] = "sync"
      PROVE  Forked(forkBar[p])' # {} /\ obj'[forkBar'[p]].word = p
  <2>1. opened'[p] /\ obj'[forkBar'[p]].word = p /\ forkBar'[p] # NULL
    BY ONLY <1>1, <1>2 DEF Blocks
  <2>2. PICK o \in Objs : o = forkBar'[p]
    BY ONLY <1>1, <1>2, <2>1 DEF TypeOK
  <2>3. obj'[o].kind = "forking"
    BY ONLY <1>1, <1>2, <2>1, <2>2 DEF Shape, Kind
  <2>4. Cardinality(Forked(o)') > 0
    BY ONLY <1>1, <2>2, <2>3 DEF BarRefs, Kind
  <2>5. Forked(o)' # {}
    BY ONLY <2>4, FS_EmptySet
  <2> QED
    BY ONLY <2>1, <2>2, <2>5 DEF Forked
<1> QED
  BY ONLY <1>1, <1>2 DEF BranchCounts, SleeperHasWaker

(* Both halves together: the counts stay exact.                             *)
LEMMA RefsStep ==
  MInv /\ [Next]_vars => RefsExact'
<1> SUFFICES ASSUME MInv, [Next]_vars PROVE RefsExact'
  OBVIOUS
<1>1. BundleRefs' /\ BarRefs'
  BY BundleRefsStep, BarRefsStep
<1> QED
  BY ONLY <1>1 DEF BundleRefs, BarRefs, RefsExact

(* In the first state all blocks are free and nothing is referred to.       *)
LEMMA InitMInv ==
  Init => MInv
<1> SUFFICES ASSUME Init PROVE MInv
  OBVIOUS
<1>1. TypeOK
  BY MobileAssumption DEF Init, TypeOK, Free
<1>2. Shape /\ Families /\ Blocks
  BY NullAssumption DEF Init, Shape, Families, Blocks, Kind, Free
<1>3. ASSUME NEW o \in Objs PROVE Holders(o) = {} /\ Elements(o) = {} /\ Forked(o) = {}
  BY NullAssumption DEF Init, Holders, Elements, Forked, Free
<1>4. ASSUME NEW o \in Objs PROVE Refs(o) = 0
  <2>1. Cardinality({}) = 0
    BY FS_EmptySet
  <2> QED
    BY ONLY <1>3, <2>1 DEF Refs
<1>5. RefsExact
  BY <1>3, <1>4 DEF Init, RefsExact, Kind, Free
<1>6. ASSUME NEW p \in Procs PROVE Branches(p) = {}
  BY NullAssumption DEF Init, Branches
<1>7. SleeperHasWaker
  <2>1. Cardinality({}) = 0
    BY FS_EmptySet
  <2>2. \A p \in Procs : Count[p] = 0 /\ state[p] \in {"run", "none"}
    BY DEF Init
  <2> QED
    BY ONLY <1>6, <2>1, <2>2 DEF SleeperHasWaker
<1> QED
  BY ONLY <1>1, <1>2, <1>5, <1>7 DEF MInv

-----------------------------------------------------------------------------
(* Every reachable state satisfies the inductive invariant: it holds at the *)
(* start and no access to a count, a barrier or a process disturbs it.      *)
THEOREM MobileInvariance == Spec => []MInv
<1>1. MInv /\ [Next]_vars => MInv'
  BY TypeOKStep, ShapeStep, FamiliesStep, BlocksStep, RefsStep, SleepersStep DEF MInv
<1> QED
  BY InitMInv, <1>1, PTL DEF Spec

(* mt_alloc, mt_clone, mt_io_update, mt_release and the fork barrier keep   *)
(* the counts exact, for any number of processes, blocks and variables:     *)
(* nothing is freed while a variable, an array or a process refers to it.   *)
THEOREM CountsAreExact == Spec => []RefsExact
<1>1. MInv => RefsExact
  BY DEF MInv
<1> QED
  BY MobileInvariance, <1>1, PTL

(* Whoever sleeps in fork_bar_sync or at the end of a PAR has an unfinished *)
(* process left that will wake him, and Y_endp's count says how many.       *)
THEOREM SleepersAreWoken == Spec => []SleeperHasWaker
<1>1. MInv => SleeperHasWaker
  BY DEF MInv
<1> QED
  BY MobileInvariance, <1>1, PTL

-----------------------------------------------------------------------------
(* The refinement mapping of J: who is unfinished in the block that p has   *)
(* opened, and whether p is in it or waits at its end.                      *)
members ==
    [p \in Procs |-> IF opened[p]
                     THEN {q \in Procs \ {p} : forkBar[q] = forkBar[p]} ELSE {}]
block ==
    [p \in Procs |-> IF ~opened[p] THEN "closed"
                     ELSE IF state[p] \in {"dec", "sync"} THEN "waiting" ELSE "open"]

(* What changes neither who refers to which barrier nor which opener waits  *)
(* is a step that Join does not see.                                        *)
LEMMA Stutters ==
  ASSUME \A x \in Procs :
           /\ forkBar'[x] = forkBar[x] /\ opened'[x] = opened[x]
           /\ opened[x] => (state'[x] \in {"dec", "sync"} <=> state[x] \in {"dec", "sync"})
  PROVE  UNCHANGED <<members, block>>
<1>1. \A x \in Procs : {q \in Procs \ {x} : forkBar'[q] = forkBar'[x]}
                        = {q \in Procs \ {x} : forkBar[q] = forkBar[x]}
  OBVIOUS
<1>2. members' = members
  BY <1>1 DEF members
<1>3. block' = block
  BY DEF block
<1> QED
  BY <1>2, <1>3

(* Whoever refers to a barrier and is not its opener is counted in it: only *)
(* the opener sleeps in fork_bar_sync.                                      *)
LEMMA MembersCounted ==
  ASSUME MInv, NEW w \in Procs, opened[w]
  PROVE  /\ members[w] = Forked(forkBar[w]) \ {w}
         /\ forkBar[w] # NULL
<1>1. Blocks
  BY DEF MInv
<1>2. \A q \in Procs \ {w} : forkBar[q] = forkBar[w] => state[q] # "sync"
  BY ONLY <1>1, w \in Procs, opened[w] DEF Blocks
<1>3. members[w] = {q \in Procs \ {w} : forkBar[q] = forkBar[w]}
  BY DEF members
<1>4. members[w] = Forked(forkBar[w]) \ {w}
  BY ONLY <1>2, <1>3 DEF Forked
<1> QED
  BY <1>1, <1>4 DEF Blocks

(* mt_alloc_barrier opens an empty block.                                   *)
LEMMA OpenBlockJoins ==
  ASSUME MInv, NEW p \in Procs, OpenBlock(p) PROVE J!Open(p)
<1>1. PICK o \in Objs : Kind(o) = "free" /\ forkBar' = [forkBar EXCEPT ![p] = o]
  BY DEF OpenBlock
<1>2. /\ state[p] = "run" /\ forkBar[p] = NULL /\ opened' = [opened EXCEPT ![p] = TRUE]
      /\ state' = state
  BY DEF OpenBlock
<1>3. Blocks /\ Shape /\ TypeOK
  BY DEF MInv
<1>4. /\ \A q \in Procs : forkBar[q] # o /\ (opened[q] => forkBar[q] # NULL)
      /\ forkBar'[p] = o /\ ~opened[p] /\ opened'[p]
      /\ \A q \in Procs \ {p} : forkBar'[q] = forkBar[q] /\ opened'[q] = opened[q]
  <2>1. \A q \in Procs : forkBar[q] # o
    BY ONLY <1>1, <1>3, NullAssumption DEF Shape
  <2> QED
    BY ONLY <1>1, <1>2, <1>3, <2>1 DEF Blocks, TypeOK
<1>5. members' = members
  <2>1. ASSUME NEW x \in Procs PROVE members'[x] = members[x]
    <3>1. CASE x = p
      BY ONLY <1>4, <3>1 DEF members
    <3>2. CASE x # p
      BY ONLY <1>2, <1>4, <3>2 DEF members
    <3> QED
      BY <3>1, <3>2
  <2> QED
    BY ONLY <2>1 DEF members
<1>6. block[p] = "closed" /\ block' = [block EXCEPT ![p] = "open"]
  BY ONLY <1>2, <1>4 DEF block
<1> QED
  BY <1>5, <1>6 DEF J!Open, members, block

(* FORK adds a process to the block of the forking process, which may be the *)
(* opener or a process that was forked in the block itself.                 *)
LEMMA ForkJoins ==
  ASSUME MInv, NEW p \in Procs, NEW q \in Procs, Fork(p, q)
  PROVE  \E w \in Procs : J!Fork(w, q)
<1>1. /\ state[p] = "run" /\ state[q] = "none" /\ forkBar[p] # NULL /\ p # q
      /\ forkBar' = [forkBar EXCEPT ![q] = forkBar[p]]
      /\ state' = [state EXCEPT ![p] = "fork", ![q] = "setup"] /\ opened' = opened
  BY DEF Fork
<1>2. TypeOK /\ Shape /\ Families /\ Blocks
  BY DEF MInv
<1>3. PICK w \in Procs : opened[w] /\ forkBar[w] = forkBar[p]
  <2>1. PICK o \in Objs : o = forkBar[p]
    BY ONLY <1>1, <1>2 DEF TypeOK
  <2> QED
    BY ONLY <1>1, <1>2, <2>1 DEF Shape, Blocks
<1>4. /\ forkBar[q] = NULL /\ ~opened[q] /\ w # q
      /\ \A x \in Procs : opened[x] => forkBar[x] # NULL
      /\ \A x \in Procs : opened[x] /\ x # w => forkBar[x] # forkBar[p]
  BY ONLY <1>1, <1>2, <1>3 DEF Families, Blocks
<1>5. /\ forkBar'[q] = forkBar[p]
      /\ \A x \in Procs \ {q} : forkBar'[x] = forkBar[x]
      /\ \A x \in Procs \ {q, p} : state'[x] = state[x]
      /\ state'[p] = "fork"
  BY ONLY <1>1, <1>2 DEF TypeOK
<1>6. block[w] = "open" \/ (block[w] = "waiting" /\ members[w] # {})
  <2>1. CASE w = p
    BY ONLY <1>1, <1>3, <2>1 DEF block
  <2>2. CASE w # p
    <3>1. p \in members[w]
      BY ONLY <1>3, <2>2, p \in Procs DEF members
    <3> QED
      BY ONLY <1>3, <3>1 DEF block
  <2> QED
    BY <2>1, <2>2
<1>7. \A x \in Procs : q \notin members[x]
  BY ONLY <1>4 DEF members
<1>8. members' = [members EXCEPT ![w] = @ \cup {q}]
  <2>1. ASSUME NEW x \in Procs
        PROVE  members'[x] = IF x = w THEN members[x] \cup {q} ELSE members[x]
    <3>1. CASE x = w
      <4>1. /\ members[x] = {y \in Procs \ {x} : forkBar[y] = forkBar[x]}
            /\ members'[x] = {y \in Procs \ {x} : forkBar'[y] = forkBar'[x]}
        BY ONLY <1>1, <1>3, <3>1 DEF members
      <4> QED
        BY ONLY <1>3, <1>4, <1>5, <3>1, <4>1, q \in Procs
    <3>2. CASE x # w /\ opened[x]
      <4>1. /\ members[x] = {y \in Procs \ {x} : forkBar[y] = forkBar[x]}
            /\ members'[x] = {y \in Procs \ {x} : forkBar'[y] = forkBar'[x]}
        BY ONLY <1>1, <3>2 DEF members
      <4>2. x # q /\ forkBar'[x] = forkBar[x] /\ forkBar[x] # forkBar[p] /\ forkBar[x] # NULL
        BY ONLY <1>4, <1>5, <3>2
      <4>3. \A y \in Procs : forkBar'[y] = forkBar[x] <=> forkBar[y] = forkBar[x]
        BY ONLY <1>4, <1>5, <4>2
      <4> QED
        BY ONLY <3>2, <4>1, <4>2, <4>3
    <3>3. CASE x # w /\ ~opened[x]
      BY ONLY <1>1, <3>3 DEF members
    <3> QED
      BY <3>1, <3>2, <3>3
  <2> QED
    BY ONLY <2>1 DEF members
<1>9. block' = block
  BY ONLY <1>1, <1>4, <1>5 DEF block
<1> QED
  BY <1>6, <1>7, <1>8, <1>9 DEF J!Fork, members, block

(* A forked process that finishes leaves the block, and the last one lets an *)
(* opener that waits go on.                                                 *)
LEMMA ReleaseBarJoins ==
  ASSUME MInv, NEW p \in Procs, ReleaseBar(p)
  PROVE  \E w \in Procs : J!Finish(w, p) \/ J!FinishAndLeave(w, p)
<1>1. PICK o \in Objs : Finishes(p, o)
  BY ReleaseBarFacts
<1>2. TypeOK /\ Blocks
  BY DEF MInv
<1>3. PICK w \in Procs : opened[w] /\ forkBar[w] = o /\ w # p
  BY ONLY <1>1, <1>2 DEF Finishes, Blocks
<1>4. members[w] = Forked(o) \ {w} /\ p \in members[w]
  BY ONLY <1>1, <1>3, MInv, MembersCounted DEF Finishes
<1>5. /\ \A x \in Procs : opened[x] => forkBar[x] # NULL
      /\ \A x \in Procs : opened[x] /\ x # w => forkBar[x] # o
  BY ONLY <1>2, <1>3 DEF Blocks
<1>6. CASE obj[o].ref = 1
  <2>1. /\ Forked(o) = {p} /\ state[w] = "sync" /\ ~opened[p] /\ opened'[p] = opened[p]
        /\ opened'[w] = FALSE /\ forkBar'[p] = NULL /\ forkBar'[w] = NULL
        /\ \A x \in Procs : x # p /\ x # w =>
              state'[x] = state[x] /\ forkBar'[x] = forkBar[x] /\ opened'[x] = opened[x]
    <3>1. PICK v \in Procs :
             /\ v # p /\ forkBar[v] = o /\ opened[v] /\ state[v] = "sync"
             /\ forkBar'[p] = NULL /\ forkBar'[v] = NULL
             /\ opened'[p] = opened[p] /\ opened'[v] = FALSE
             /\ \A x \in Procs : x # p /\ x # v =>
                   state'[x] = state[x] /\ forkBar'[x] = forkBar[x] /\ opened'[x] = opened[x]
      BY ONLY <1>1, <1>6 DEF Finishes
    <3>2. v = w
      BY ONLY <1>5, <3>1
    <3>3. Forked(o) = {p} /\ ~opened[p]
      BY ONLY <1>1, <1>6 DEF Finishes
    <3> QED
      BY ONLY <3>1, <3>2, <3>3
  <2>2. members[w] = {p} /\ block[w] = "waiting"
    BY ONLY <1>3, <1>4, <2>1 DEF block
  <2>3. members' = [members EXCEPT ![w] = {}]
    <3>1. ASSUME NEW x \in Procs
          PROVE  members'[x] = IF x = w THEN {} ELSE members[x]
      <4>1. CASE x = w
        BY ONLY <2>1, <4>1 DEF members
      <4>2. CASE x # w /\ opened[x]
        <5>1. x # p /\ opened'[x] /\ forkBar'[x] = forkBar[x]
          BY ONLY <2>1, <4>2
        <5>2. \A y \in Procs : forkBar'[y] = forkBar[x] <=> forkBar[y] = forkBar[x]
          BY ONLY <1>1, <1>3, <1>5, <2>1, <4>2 DEF Finishes
        <5> QED
          BY ONLY <4>2, <5>1, <5>2 DEF members
      <4>3. CASE x # w /\ ~opened[x]
        BY ONLY <2>1, <4>3 DEF members
      <4> QED
        BY <4>1, <4>2, <4>3
    <3> QED
      BY ONLY <3>1 DEF members
  <2>4. block' = [block EXCEPT ![w] = "closed"]
    BY ONLY <1>3, <2>1 DEF block
  <2>5. J!FinishAndLeave(w, p)
    BY <2>2, <2>3, <2>4 DEF J!FinishAndLeave, members, block
  <2> QED
    BY <2>5
<1>7. CASE obj[o].ref # 1
  <2>1. /\ ~opened[p] /\ forkBar'[p] = NULL /\ opened' = opened /\ forkBar[p] = o
        /\ \A x \in Procs : x # p => state'[x] = state[x] /\ forkBar'[x] = forkBar[x]
    BY ONLY <1>1, <1>7 DEF Finishes
  <2>2. members' = [members EXCEPT ![w] = @ \ {p}]
    <3>1. ASSUME NEW x \in Procs
          PROVE  members'[x] = IF x = w THEN members[x] \ {p} ELSE members[x]
      <4>1. CASE opened[x]
        <5>1. x # p /\ opened'[x] /\ forkBar'[x] = forkBar[x] /\ forkBar[x] # NULL
          BY ONLY <1>5, <2>1, <4>1
        <5>2. /\ members[x] = {y \in Procs \ {x} : forkBar[y] = forkBar[x]}
              /\ members'[x] = {y \in Procs \ {x} : forkBar'[y] = forkBar[x]}
          BY ONLY <4>1, <5>1 DEF members
        <5>3. CASE x = w
          BY ONLY <2>1, <5>1, <5>2, <5>3
        <5>4. CASE x # w
          <6>1. p \notin members[x]
            BY ONLY <1>5, <2>1, <4>1, <5>2, <5>4
          <6> QED
            BY ONLY <2>1, <5>1, <5>2, <5>4, <6>1
        <5> QED
          BY <5>3, <5>4
      <4>2. CASE ~opened[x]
        BY ONLY <1>3, <2>1, <4>2 DEF members
      <4> QED
        BY <4>1, <4>2
    <3> QED
      BY ONLY <3>1 DEF members
  <2>3. block' = block
    BY ONLY <2>1 DEF block
  <2>4. J!Finish(w, p)
    BY <1>4, <2>2, <2>3 DEF J!Finish, members, block
  <2> QED
    BY <2>4
<1> QED
  BY <1>6, <1>7

(* An opener that enters its process into the word begins to wait.          *)
LEMMA SyncSetsJoins ==
  ASSUME MInv, NEW p \in Procs, SyncSets(p) PROVE J!Close(p)
<1>1. /\ state[p] = "run" /\ opened[p] /\ state' = [state EXCEPT ![p] = "dec"]
      /\ UNCHANGED <<forkBar, opened>>
  BY DEF SyncSets, To
<1>2. state'[p] = "dec" /\ \A x \in Procs \ {p} : state'[x] = state[x]
  BY <1>1 DEF MInv, TypeOK
<1>3. members' = members
  BY ONLY <1>1 DEF members
<1>4. block[p] = "open" /\ block' = [block EXCEPT ![p] = "waiting"]
  BY ONLY <1>1, <1>2, p \in Procs DEF block
<1> QED
  BY <1>3, <1>4 DEF J!Close, members, block

(* An opener that gives up the last reference leaves the block.             *)
LEMMA SyncDecJoins ==
  ASSUME MInv, NEW p \in Procs, SyncDec(p)
  PROVE  J!Leave(p) \/ UNCHANGED <<members, block>>
<1>1. PICK o \in Objs : Waits(p, o)
  BY SyncDecFacts
<1>2. CASE obj[o].ref = 1
  <2>1. /\ opened[p] /\ forkBar[p] = o /\ state[p] = "dec" /\ Forked(o) = {p}
        /\ opened'[p] = FALSE /\ forkBar'[p] = NULL
        /\ \A x \in Procs : x # p => /\ state'[x] = state[x] /\ forkBar'[x] = forkBar[x]
                                     /\ opened'[x] = opened[x]
    BY ONLY <1>1, <1>2 DEF Waits
  <2>2. members[p] = {} /\ block[p] = "waiting"
    <3>1. members[p] = Forked(o) \ {p}
      BY ONLY <2>1, MInv, MembersCounted, p \in Procs
    <3>2. members[p] = {}
      BY ONLY <2>1, <3>1
    <3>3. block[p] = "waiting"
      BY ONLY <2>1, p \in Procs DEF block
    <3> QED
      BY <3>2, <3>3
  <2>3. members' = members
    <3>1. ASSUME NEW x \in Procs PROVE members'[x] = members[x]
      <4>1. CASE x = p
        BY ONLY <2>1, <2>2, <4>1, p \in Procs DEF members
      <4>2. CASE x # p /\ opened[x]
        <5>1. forkBar[x] # NULL /\ forkBar[x] # o /\ forkBar'[x] = forkBar[x] /\ opened'[x]
          BY ONLY <2>1, <4>2, MInv DEF MInv, Blocks
        <5>2. \A y \in Procs : forkBar'[y] = forkBar[x] <=> forkBar[y] = forkBar[x]
          BY ONLY <2>1, <5>1
        <5> QED
          BY ONLY <4>2, <5>1, <5>2 DEF members
      <4>3. CASE x # p /\ ~opened[x]
        BY ONLY <2>1, <4>3 DEF members
      <4> QED
        BY <4>1, <4>2, <4>3
    <3> QED
      BY ONLY <3>1 DEF members
  <2>4. block' = [block EXCEPT ![p] = "closed"]
    BY ONLY <2>1, p \in Procs DEF block
  <2>5. J!Leave(p)
    BY <2>2, <2>3, <2>4 DEF J!Leave, members, block
  <2> QED
    BY <2>5
<1>3. CASE obj[o].ref # 1
  <2>1. \A x \in Procs : /\ forkBar'[x] = forkBar[x] /\ opened'[x] = opened[x]
                         /\ state'[x] \in {"dec", "sync"} <=> state[x] \in {"dec", "sync"}
    BY ONLY <1>1, <1>3 DEF Waits
  <2> QED
    BY ONLY <2>1, Stutters
<1> QED
  BY <1>2, <1>3

(* Every step is a step of Join or one that Join does not see.              *)
LEMMA StepJoins ==
  MInv /\ [Next]_vars => [J!Next]_<<members, block>>
<1> SUFFICES ASSUME MInv, [Next]_vars PROVE J!Next \/ UNCHANGED <<members, block>>
  OBVIOUS
<1>1. CASE UNCHANGED vars
  BY ONLY <1>1, Stutters DEF vars
<1>2. CASE \/ \E p \in Procs, r, s \in Slots : AllocCB(p, r, s)
           \/ \E p \in Procs, s \in Slots : AllocArray(p, s) \/ Release(p, s)
           \/ \E p, q \in Procs, r, s \in Slots : Clone(p, s, q, r) \/ Move(p, s, q, r)
  <2>1. \A p \in Procs, r, s \in Slots : AllocCB(p, r, s) => UNCHANGED <<state, forkBar, opened>>
    BY DEF AllocCB
  <2>2. \A p \in Procs, s \in Slots : AllocArray(p, s) => UNCHANGED <<state, forkBar, opened>>
    BY DEF AllocArray
  <2>3. \A p \in Procs, s \in Slots : Release(p, s) => UNCHANGED <<state, forkBar, opened>>
    BY DEF Release
  <2>4. \A p, q \in Procs, r, s \in Slots :
           Clone(p, s, q, r) => UNCHANGED <<state, forkBar, opened>>
    BY DEF Clone
  <2>5. \A p, q \in Procs, r, s \in Slots :
           Move(p, s, q, r) => UNCHANGED <<state, forkBar, opened>>
    BY DEF Move
  <2>6. UNCHANGED <<state, forkBar, opened>>
    BY ONLY <1>2, <2>1, <2>2, <2>3, <2>4, <2>5
  <2> QED
    BY ONLY <2>6, Stutters
<1>3. ASSUME NEW p \in Procs, OpenBlock(p) \/ SyncSets(p) \/ SyncDec(p) \/ ReleaseBar(p)
      PROVE  J!Next \/ UNCHANGED <<members, block>>
  BY ONLY <1>3, MInv, OpenBlockJoins, SyncSetsJoins, SyncDecJoins, ReleaseBarJoins DEF J!Next
<1>4. ASSUME NEW p \in Procs, NEW q \in Procs, Fork(p, q)
      PROVE  J!Next \/ UNCHANGED <<members, block>>
  BY ONLY <1>4, MInv, ForkJoins DEF J!Next
<1>5. ASSUME NEW p \in Procs, ProcEnd(p) PROVE UNCHANGED <<members, block>>
  <2>1. /\ UNCHANGED <<forkBar, opened>> /\ ~opened[p]
        /\ \A x \in Procs \ {p} : state'[x] = state[x]
    BY <1>5 DEF ProcEnd, To, MInv, TypeOK, Families
  <2> QED
    BY ONLY <2>1, Stutters
<1>6. ASSUME NEW p \in Procs, NEW q \in Procs, ProcStart(p, q)
      PROVE  UNCHANGED <<members, block>>
  <2>1. /\ UNCHANGED <<forkBar, opened>> /\ ~opened[q] /\ state[p] = "fork"
        /\ state' = [state EXCEPT ![p] = "run", ![q] = "run"]
    BY <1>6 DEF ProcStart, SetsUp, MInv, Families
  <2>2. \A x \in Procs \ {q} : x = p \/ state'[x] = state[x]
    BY ONLY <2>1, MInv DEF MInv, TypeOK
  <2>3. p # q => state'[p] = "run"
    BY ONLY <2>1, MInv, p \in Procs, q \in Procs DEF MInv, TypeOK
  <2> QED
    BY ONLY <2>1, <2>2, <2>3, Stutters
<1>7. ASSUME NEW p \in Procs, NEW q \in Procs, Startp(p, q) \/ ParEnroll(p, q)
      PROVE  UNCHANGED <<members, block>>
  <2>1. /\ UNCHANGED opened /\ forkBar' = [forkBar EXCEPT ![q] = NULL] /\ state[q] = "none"
        /\ state' = [state EXCEPT ![q] = "run"]
    BY <1>7 DEF Startp, ParEnroll, To
  <2>2. forkBar[q] = NULL /\ ~opened[q]
    BY <2>1 DEF MInv, Families
  <2>3. \A x \in Procs : /\ forkBar'[x] = forkBar[x]
                         /\ x # q => state'[x] = state[x]
    BY ONLY <2>1, <2>2, MInv DEF MInv, TypeOK
  <2> QED
    BY ONLY <2>1, <2>2, <2>3, Stutters
<1>8. ASSUME NEW p \in Procs, NEW q \in Procs, Endp(p, q)
      PROVE  UNCHANGED <<members, block>>
  <2>1. Ends(p, q) /\ UNCHANGED <<forkBar, opened>>
    BY <1>8, EndpFacts DEF Endp
  <2>2. \A x \in Procs : \/ state'[x] = state[x]
                         \/ ~opened[x]
                         \/ state[x] = "par" /\ state'[x] = "run"
    BY ONLY <2>1, q \in Procs DEF Ends
  <2> QED
    BY ONLY <2>1, <2>2, Stutters
<1> QED
  BY <1>1, <1>2, <1>3, <1>4, <1>5, <1>6, <1>7, <1>8 DEF Next

(* A FORKING block is a join: fork_bar_sync lets the opener go on once, and *)
(* only when every process that was forked in the block has given up its    *)
(* reference, whoever forked it and in whatever order they finish.          *)
THEOREM ForkingIsJoin == Spec => IsJoin
<1>1. Init => J!Init
  BY DEF Init, J!Init
<1>2. MInv /\ [Next]_vars => [J!Next]_<<members, block>>
  BY StepJoins
<1> QED
  BY MobileInvariance, <1>1, <1>2, PTL DEF Spec, IsJoin, J!Spec, members, block
=============================================================================
