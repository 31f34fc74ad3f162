-------------------------- MODULE BlockingCallsProofs --------------------------
(***************************************************************************)
(* A pool of blocking system calls runs no call twice and no thread is    *)
(* reaped twice, for every number of processes and threads and whatever is *)
(* killed; and it loses no call, as long as no killer has hit a thread     *)
(* other than the one it was aimed at (astray).                            *)
(*                                                                         *)
(* BInv is inductive.  Stages ties what a thread holds to where it is;     *)
(* Held says where each call is; Kills, that before the first stray kill a *)
(* thread that has been cancelled runs a terminatable call, and that a     *)
(* killer which got hold of a call has the thread's name in the call's     *)
(* memory; Counts, what pending and running count.                         *)
(***************************************************************************)
EXTENDS BlockingCalls, FiniteSetTheorems, TLAPS

(* A terminatable call that a thread has in hand has its memory. *)
LEMMA MemoryInHand ==
    ASSUME BInv, NEW t \in Threads, job[t] \in Killable
    PROVE  job[t] \in Jobs /\ job[t] \in calling /\ mem[job[t]] \in Batches
BY KillableAssumption, NullAssumption DEF BInv, TypeOK, Held, Memory

(* A terminatable call begins: what its thread changes. *)
LEMMA Begins ==
    ASSUME BInv, NEW t \in Threads, BeginKillable(t)
    PROVE  /\ pc[t] = "begin" /\ job[t] \in Killable /\ job[t] \in Jobs
           /\ mem[job[t]] \in Batches
           /\ thread' = [thread EXCEPT ![mem[job[t]]] = t]
           /\ word' = [word EXCEPT ![job[t]] = mem[job[t]]]
           /\ \E n \in {"call", "skip"} : pc' = [pc EXCEPT ![t] = n]
           /\ UNCHANGED <<pool, counters, calling, mem, kill, astray, job, reap, leaving,
                         cancelled>>
<1>1. mem[job[t]] \in Batches /\ job[t] \in Jobs
  BY MemoryInHand DEF BeginKillable
<1> QED
  BY ONLY <1>1, BeginKillable(t) DEF BeginKillable, Step

(* What a thread holds follows from where it is. *)
LEMMA StagesStep == BInv /\ [Next]_vars => Stages'
<1> SUFFICES ASSUME BInv, [Next]_vars PROVE Stages'
  OBVIOUS
<1> USE KillableAssumption, LimitAssumption, NullAssumption, AddressAssumption
    DEF BInv, TypeOK, Stages, Cancellable, WithJob, Exiting, Step, pool, threads,
        killing, counters
<1>1. CASE UNCHANGED vars
  BY <1>1 DEF vars
<1>2. ASSUME NEW t \in Threads, Take(t) PROVE Stages'
  BY <1>2 DEF Take
<1>3. ASSUME NEW t \in Threads, Wait(t) PROVE Stages'
  BY <1>3 DEF Wait
<1>4. ASSUME NEW t \in Threads, Begin(t) PROVE Stages'
  BY <1>4 DEF Begin
<1>5. ASSUME NEW t \in Threads, BeginKillable(t) PROVE Stages'
  <2>1. PICK n \in {"call", "skip"} : pc' = [pc EXCEPT ![t] = n]
    BY <1>5, Begins
  <2>2. /\ pc[t] = "begin" /\ job[t] \in Killable /\ UNCHANGED <<job, reap, leaving, dead>>
    BY <1>5, Begins
  <2> QED BY <2>1, <2>2
<1>6. ASSUME NEW t \in Threads, Cas(t) PROVE Stages'
  BY <1>6 DEF Cas
<1>7. ASSUME NEW t \in Threads, Skip(t) PROVE Stages'
  BY <1>7 DEF Skip
<1>8. ASSUME NEW t \in Threads, Cancelled(t) PROVE Stages'
  BY <1>8 DEF Cancelled
<1>9. ASSUME NEW t \in Threads, NotCancelled(t) PROVE Stages'
  BY <1>9 DEF NotCancelled
<1>10. ASSUME NEW t \in Threads, PthreadExit(t) PROVE Stages'
  BY <1>10 DEF PthreadExit
<1>11. ASSUME NEW t \in Threads, ClearWord(t) PROVE Stages'
  BY <1>11 DEF ClearWord
<1>12. ASSUME NEW t \in Threads, Schedule(t) PROVE Stages'
  BY <1>12 DEF Schedule
<1>13. ASSUME NEW t \in Threads, DecPending(t) PROVE Stages'
  BY <1>13 DEF DecPending
<1>14. ASSUME NEW t \in Threads, CleanupPool(t) PROVE Stages'
  BY <1>14 DEF CleanupPool
<1>15. ASSUME NEW t \in Threads, DecRunning(t) PROVE Stages'
  BY <1>15 DEF DecRunning
<1>16. ASSUME NEW t \in Threads, Join(t) PROVE Stages'
  <2>1. /\ pc[t] = "join" /\ reap[t] \in Threads /\ reap[t] # t /\ pc[reap[t]] = "ended"
        /\ pc' = [pc EXCEPT ![t] = "ended", ![reap[t]] = "none"]
        /\ reap' = [reap EXCEPT ![t] = NULL] /\ UNCHANGED <<job, dead>>
        /\ leaving' = [leaving EXCEPT ![reap[t]] = FALSE]
    BY <1>16 DEF Join, ReapedOnce
  <2>2. /\ \A u \in Threads : reap[u] # NULL /\ reap[u] = reap[t] => u = t
        /\ reap[t] # dead
    BY <2>1 DEF ReapedOnce
  <2>3. /\ pc'[t] = "ended" /\ pc'[reap[t]] = "none"
        /\ \A u \in Threads : u # t /\ u # reap[t] => pc'[u] = pc[u]
        /\ \A u \in Threads : u # t => reap'[u] = reap[u]
        /\ reap'[t] = NULL /\ ~leaving'[reap[t]]
        /\ \A u \in Threads : u # reap[t] => leaving'[u] = leaving[u]
    BY <2>1
  <2>4. reap[reap[t]] = NULL
    BY <2>1
  <2>5. ASSUME NEW u \in Threads
        PROVE  /\ job'[u] # NULL <=> pc'[u] \in WithJob
               /\ pc'[u] = "join" => reap'[u] # NULL
               /\ leaving'[u] => pc'[u] \in Exiting \cup {"clearWord", "schedule",
                                                         "decPending", "cleanupPool"}
               /\ pc'[u] \in Exiting \cup {"cleanupPool"} => leaving'[u]
               /\ pc'[u] \in Cancellable \ {"call"} => job'[u] \in Killable
    BY <2>1, <2>3
  <2>6. ASSUME NEW u \in Threads, reap'[u] # NULL
        PROVE  pc'[u] \in {"decRunning", "join"} /\ pc'[reap'[u]] \in Exiting
    <3>1. u # t /\ u # reap[t] /\ reap[u] # reap[t] /\ reap'[u] = reap[u] /\ reap[u] \in Threads
      BY <2>2, <2>3, <2>4, <2>6
    <3> QED BY <3>1, <2>1, <2>3, <2>6
  <2>7. dead' # NULL => pc'[dead'] \in Exiting
    BY <2>1, <2>2, <2>3
  <2> QED BY ONLY <2>5, <2>6, <2>7 DEF Stages
<1>17. ASSUME NEW t \in Threads, Return(t) PROVE Stages'
  BY <1>17 DEF Return
<1>18. ASSUME NEW t \in Threads, TimedOut(t) PROVE Stages'
  BY <1>18 DEF TimedOut
<1>19. ASSUME NEW j \in Jobs, Dispatch(j) PROVE Stages'
  BY <1>19 DEF Dispatch, Signal, Create, MayCreate
<1>20. ASSUME NEW j \in Jobs, KillSwap(j) PROVE Stages'
  BY <1>20 DEF KillSwap
<1>21. ASSUME NEW j \in Jobs, KillCancel(j) PROVE Stages'
  BY <1>21 DEF KillCancel
<1>22. ASSUME NEW j \in Jobs, KillReset(j) PROVE Stages'
  BY <1>22 DEF KillReset
<1>23. ASSUME NEW t \in Threads, StrayCancelled(t) PROVE Stages'
  BY <1>23 DEF StrayCancelled
<1>24. ASSUME NEW j \in Jobs, KillRead(j) PROVE Stages'
  BY <1>24 DEF KillRead
<1> QED
  BY <1>1, <1>2, <1>3, <1>4, <1>5, <1>6, <1>7, <1>8, <1>9, <1>10, <1>11, <1>12, <1>13,
     <1>14, <1>15, <1>16, <1>17, <1>18, <1>19, <1>20, <1>21, <1>22,
     <1>23, <1>24
     DEF Next, Working, Killing

(* A call stays in one place, in the queue or with one thread. *)
LEMMA HeldStep == BInv /\ [Next]_vars => Held'
<1> SUFFICES ASSUME BInv, [Next]_vars PROVE Held'
  OBVIOUS
<1> USE KillableAssumption, LimitAssumption, NullAssumption, AddressAssumption
    DEF BInv, TypeOK, Stages, Cancellable, WithJob, Exiting, Held, Queued, Step, pool,
        threads, killing, counters
<1>1. CASE UNCHANGED vars
  BY <1>1 DEF vars
<1>2. ASSUME NEW t \in Threads, Take(t) PROVE Held'
  <2>0. queue \in Seq(Jobs) /\ queue # <<>> /\ queue' = Tail(queue)
    BY <1>2 DEF Take
  <2>1. /\ queue \in Seq(Jobs) /\ Len(queue) \in Nat /\ Len(queue) > 0 /\ queue' = Tail(queue)
        /\ job' = [job EXCEPT ![t] = queue[1]] /\ job[t] = NULL /\ UNCHANGED <<calling, astray>>
    <3>1. Len(queue) \in Nat /\ Len(queue) > 0 /\ Head(queue) = queue[1]
      BY ONLY <2>0
    <3>2. job' = [job EXCEPT ![t] = Head(queue)] /\ pc[t] = "loop" /\ UNCHANGED <<calling, astray>>
      BY <1>2 DEF Take
    <3>3. job[t] = NULL
      BY <3>2
    <3> QED BY ONLY <2>0, <3>1, <3>2, <3>3
  <2>2. /\ Len(queue') = Len(queue) - 1
        /\ \A i \in 1..Len(queue') : i + 1 \in 1..Len(queue) /\ queue'[i] = queue[i + 1]
        /\ 1 \in 1..Len(queue)
    BY ONLY <2>1
  <2>3. \A k \in 1..Len(queue) : k = 1 \/ (k - 1 \in 1..Len(queue') /\ queue'[k - 1] = queue[k])
    BY ONLY <2>1, <2>2
  <2>4. job'[t] = queue[1] /\ \A u \in Threads : u # t => job'[u] = job[u]
    BY <2>1
  <2>5. \A i, k \in 1..Len(queue') : queue'[i] = queue'[k] => i = k
    BY ONLY <2>1, <2>2, Held DEF Held
  <2>6. \A u \in Threads, k \in 1..Len(queue') : job'[u] # queue'[k]
    <3>1. \A k \in 1..Len(queue') : queue'[k] # queue[1]
      BY ONLY <2>1, <2>2, Held DEF Held
    <3> QED BY ONLY <3>1, <2>2, <2>4, Held DEF Held
  <2>7. ~astray => \A j \in calling : Queued(j)' \/ \E u \in Threads : job'[u] = j
    <3>1. ASSUME NEW j \in calling, NEW k \in 1..Len(queue), queue[k] = j
          PROVE  Queued(j)' \/ \E u \in Threads : job'[u] = j
      BY ONLY <3>1, <2>3, <2>4, t \in Threads DEF Queued
    <3>2. ASSUME NEW j \in calling, NEW u \in Threads, job[u] = j, j # NULL
          PROVE  \E v \in Threads : job'[v] = j
      BY ONLY <3>2, <2>1, <2>4
    <3>3. \A j \in calling : j # NULL
      OBVIOUS
    <3> QED BY ONLY <3>1, <3>2, <3>3, Held DEF Held, Queued
  <2>8. \A u, v \in Threads : job'[u] # NULL /\ job'[u] = job'[v] => u = v
    BY ONLY <2>2, <2>4, Held DEF Held
  <2>9. /\ \A k \in 1..Len(queue') : queue'[k] \in calling
        /\ \A u \in Threads : job'[u] # NULL => job'[u] \in calling
    BY ONLY <2>2, <2>4, Held DEF Held
  <2> QED BY ONLY <2>1, <2>5, <2>6, <2>7, <2>8, <2>9 DEF Held
<1>3. ASSUME NEW t \in Threads, Wait(t) PROVE Held'
  <2>1. UNCHANGED <<queue, calling, job, astray>>
    BY <1>3 DEF Wait
  <2> QED BY ONLY <2>1, Held DEF Held, Queued
<1>4. ASSUME NEW t \in Threads, Begin(t) PROVE Held'
  <2>1. UNCHANGED <<queue, calling, job, astray>>
    BY <1>4 DEF Begin
  <2> QED BY ONLY <2>1, Held DEF Held, Queued
<1>5. ASSUME NEW t \in Threads, BeginKillable(t) PROVE Held'
  <2>1. UNCHANGED <<queue, calling, job, astray>>
    BY <1>5 DEF BeginKillable
  <2> QED BY ONLY <2>1, Held DEF Held, Queued
<1>6. ASSUME NEW t \in Threads, Cas(t) PROVE Held'
  <2>1. UNCHANGED <<queue, calling, job, astray>>
    BY <1>6 DEF Cas
  <2> QED BY ONLY <2>1, Held DEF Held, Queued
<1>7. ASSUME NEW t \in Threads, Skip(t) PROVE Held'
  <2>1. UNCHANGED <<queue, calling, job, astray>>
    BY <1>7 DEF Skip
  <2> QED BY ONLY <2>1, Held DEF Held, Queued
<1>8. ASSUME NEW t \in Threads, Cancelled(t) PROVE Held'
  <2>1. UNCHANGED <<queue, calling, job, astray>>
    BY <1>8 DEF Cancelled
  <2> QED BY ONLY <2>1, Held DEF Held, Queued
<1>9. ASSUME NEW t \in Threads, NotCancelled(t) PROVE Held'
  <2>1. UNCHANGED <<queue, calling, job, astray>>
    BY <1>9 DEF NotCancelled
  <2> QED BY ONLY <2>1, Held DEF Held, Queued
<1>10. ASSUME NEW t \in Threads, PthreadExit(t) PROVE Held'
  <2>1. UNCHANGED <<queue, calling, job, astray>>
    BY <1>10 DEF PthreadExit
  <2> QED BY ONLY <2>1, Held DEF Held, Queued
<1>11. ASSUME NEW t \in Threads, ClearWord(t) PROVE Held'
  <2>1. UNCHANGED <<queue, calling, job, astray>>
    BY <1>11 DEF ClearWord
  <2> QED BY ONLY <2>1, Held DEF Held, Queued
<1>12. ASSUME NEW t \in Threads, Schedule(t) PROVE Held'
  BY <1>12 DEF Schedule
<1>13. ASSUME NEW t \in Threads, DecPending(t) PROVE Held'
  <2>1. UNCHANGED <<queue, calling, job, astray>>
    BY <1>13 DEF DecPending
  <2> QED BY ONLY <2>1, Held DEF Held, Queued
<1>14. ASSUME NEW t \in Threads, CleanupPool(t) PROVE Held'
  <2>1. UNCHANGED <<queue, calling, job, astray>>
    BY <1>14 DEF CleanupPool
  <2> QED BY ONLY <2>1, Held DEF Held, Queued
<1>15. ASSUME NEW t \in Threads, DecRunning(t) PROVE Held'
  <2>1. UNCHANGED <<queue, calling, job, astray>>
    BY <1>15 DEF DecRunning
  <2> QED BY ONLY <2>1, Held DEF Held, Queued
<1>16. ASSUME NEW t \in Threads, Join(t) PROVE Held'
  <2>1. UNCHANGED <<queue, calling, job, astray>>
    BY <1>16 DEF Join
  <2> QED BY ONLY <2>1, Held DEF Held, Queued
<1>17. ASSUME NEW t \in Threads, Return(t) PROVE Held'
  <2>1. UNCHANGED <<queue, calling, job, astray>>
    BY <1>17 DEF Return
  <2> QED BY ONLY <2>1, Held DEF Held, Queued
<1>18. ASSUME NEW t \in Threads, TimedOut(t) PROVE Held'
  <2>1. UNCHANGED <<queue, calling, job, astray>>
    BY <1>18 DEF TimedOut
  <2> QED BY ONLY <2>1, Held DEF Held, Queued
<1>19. ASSUME NEW j \in Jobs, Dispatch(j) PROVE Held'
  <2>1. /\ queue \in Seq(Jobs) /\ Len(queue) \in Nat /\ queue' = Append(queue, j)
        /\ calling' = calling \cup {j} /\ j \notin calling /\ UNCHANGED <<job, astray>> /\ j # NULL
    BY <1>19 DEF Dispatch
  <2>2. /\ Len(queue') = Len(queue) + 1 /\ queue'[Len(queue) + 1] = j
        /\ Len(queue) + 1 \in 1..Len(queue')
        /\ \A i \in 1..Len(queue) : i \in 1..Len(queue') /\ queue'[i] = queue[i]
        /\ \A i \in 1..Len(queue') : i = Len(queue) + 1 \/ i \in 1..Len(queue)
    BY ONLY <2>1, j \in Jobs
  <2>3. \A k \in 1..Len(queue) : queue[k] # j
    BY <2>1
  <2>4. \A i, k \in 1..Len(queue') : queue'[i] = queue'[k] => i = k
    BY ONLY <2>2, <2>3, Held DEF Held
  <2>5. \A u \in Threads, k \in 1..Len(queue') : job'[u] # queue'[k]
    BY ONLY <2>1, <2>2, Held DEF Held
  <2>6. ~astray => \A i \in calling' : Queued(i)' \/ \E u \in Threads : job'[u] = i
    BY ONLY <2>1, <2>2, Held DEF Held, Queued
  <2>7. \A k \in 1..Len(queue') : queue'[k] \in calling'
    BY ONLY <2>1, <2>2, Held DEF Held
  <2> QED BY ONLY <2>1, <2>4, <2>5, <2>6, <2>7, Held DEF Held
<1>20. ASSUME NEW j \in Jobs, KillSwap(j) PROVE Held'
  <2>1. UNCHANGED <<queue, calling, job, astray>>
    BY <1>20 DEF KillSwap
  <2> QED BY ONLY <2>1, Held DEF Held, Queued
<1>21. ASSUME NEW j \in Jobs, KillCancel(j) PROVE Held'
  <2>1. UNCHANGED <<queue, calling, job>> /\ (astray => astray')
    BY <1>21 DEF KillCancel
  <2> QED BY ONLY <2>1, Held DEF Held, Queued
<1>22. ASSUME NEW j \in Jobs, KillReset(j) PROVE Held'
  <2>1. UNCHANGED <<queue, calling, job, astray>>
    BY <1>22 DEF KillReset
  <2> QED BY ONLY <2>1, Held DEF Held, Queued
<1>23. ASSUME NEW t \in Threads, StrayCancelled(t) PROVE Held'
  <2>1. /\ \A u \in Threads : u # t => job'[u] = job[u]
        /\ job'[t] = NULL /\ UNCHANGED <<queue, calling, astray>>
    BY <1>23 DEF StrayCancelled
  <2>2. astray
    BY <1>23 DEF StrayCancelled, Kills, Hit
  <2>3. \A u \in Threads : job'[u] # NULL => u # t /\ job'[u] = job[u]
    BY ONLY <2>1
  <2>4. \A u \in Threads, k \in 1..Len(queue') : job'[u] # queue'[k]
    <3>1. \A k \in 1..Len(queue) : queue[k] \in Jobs /\ NULL \notin Jobs
      OBVIOUS
    <3> QED BY ONLY <2>1, <2>3, <3>1, Held DEF Held
  <2> QED BY ONLY <2>1, <2>2, <2>3, <2>4, Held DEF Held
<1>24. ASSUME NEW j \in Jobs, KillRead(j) PROVE Held'
  <2>1. UNCHANGED <<queue, calling, job, astray>>
    BY <1>24 DEF KillRead
  <2> QED BY ONLY <2>1, Held DEF Held, Queued
<1> QED
  BY <1>1, <1>2, <1>3, <1>4, <1>5, <1>6, <1>7, <1>8, <1>9, <1>10, <1>11, <1>12, <1>13,
     <1>14, <1>15, <1>16, <1>17, <1>18, <1>19, <1>20, <1>21, <1>22,
     <1>23, <1>24
     DEF Next, Working, Killing

(* The memory of a call is free when the call is over, and not before. *)
LEMMA MemoryStep == BInv /\ [Next]_vars => Memory'
<1> SUFFICES ASSUME BInv, [Next]_vars PROVE Memory'
  OBVIOUS
<1> USE KillableAssumption, LimitAssumption, NullAssumption, AddressAssumption
    DEF BInv, TypeOK, Stages, Cancellable, WithJob, Exiting, Held, Memory, Step, pool,
        threads, killing, counters
<1>1. CASE UNCHANGED vars
  BY <1>1 DEF vars
<1>2. ASSUME NEW t \in Threads, Take(t) PROVE Memory'
  BY <1>2 DEF Take
<1>3. ASSUME NEW t \in Threads, Wait(t) PROVE Memory'
  BY <1>3 DEF Wait
<1>4. ASSUME NEW t \in Threads, Begin(t) PROVE Memory'
  BY <1>4 DEF Begin
<1>5. ASSUME NEW t \in Threads, BeginKillable(t) PROVE Memory'
  BY <1>5 DEF BeginKillable
<1>6. ASSUME NEW t \in Threads, Cas(t) PROVE Memory'
  BY <1>6 DEF Cas
<1>7. ASSUME NEW t \in Threads, Skip(t) PROVE Memory'
  BY <1>7 DEF Skip
<1>8. ASSUME NEW t \in Threads, Cancelled(t) PROVE Memory'
  BY <1>8 DEF Cancelled
<1>9. ASSUME NEW t \in Threads, NotCancelled(t) PROVE Memory'
  BY <1>9 DEF NotCancelled
<1>10. ASSUME NEW t \in Threads, PthreadExit(t) PROVE Memory'
  BY <1>10 DEF PthreadExit
<1>11. ASSUME NEW t \in Threads, ClearWord(t) PROVE Memory'
  BY <1>11 DEF ClearWord
<1>12. ASSUME NEW t \in Threads, Schedule(t) PROVE Memory'
  BY <1>12 DEF Schedule
<1>13. ASSUME NEW t \in Threads, DecPending(t) PROVE Memory'
  BY <1>13 DEF DecPending
<1>14. ASSUME NEW t \in Threads, CleanupPool(t) PROVE Memory'
  BY <1>14 DEF CleanupPool
<1>15. ASSUME NEW t \in Threads, DecRunning(t) PROVE Memory'
  BY <1>15 DEF DecRunning
<1>16. ASSUME NEW t \in Threads, Join(t) PROVE Memory'
  BY <1>16 DEF Join
<1>17. ASSUME NEW t \in Threads, Return(t) PROVE Memory'
  BY <1>17 DEF Return
<1>18. ASSUME NEW t \in Threads, TimedOut(t) PROVE Memory'
  BY <1>18 DEF TimedOut
<1>19. ASSUME NEW j \in Jobs, Dispatch(j) PROVE Memory'
  <2>0. /\ calling' = calling \cup {j} /\ j \notin calling /\ UNCHANGED <<job, thread>>
        /\ \A u \in Threads : pc[u] \in WithJob => pc'[u] = pc[u]
    BY <1>19 DEF Dispatch, Signal, Create
  <2>1. /\ calling' = calling \cup {j} /\ j \notin calling /\ UNCHANGED <<job, thread>>
        /\ \A u \in Threads : job[u] # NULL => pc'[u] = pc[u] /\ job[u] # j
    BY <2>0
  <2>2. \/ /\ j \in Killable
           /\ \E b \in Batches \ {mem[i] : i \in Jobs} : mem' = [mem EXCEPT ![j] = b]
        \/ j \notin Killable /\ UNCHANGED mem
    BY <1>19 DEF Dispatch, Allocate
  <2>3. ASSUME j \in Killable, NEW b \in Batches \ {mem[i] : i \in Jobs},
               mem' = [mem EXCEPT ![j] = b]
        PROVE  Memory'
    <3>1. /\ mem'[j] = b /\ b # NULL /\ \A i \in Jobs : mem[i] # b
          /\ \A i \in Jobs : i # j => mem'[i] = mem[i]
      BY <2>3
    <3> QED BY <2>1, <2>3, <3>1
  <2> QED BY <2>1, <2>2, <2>3
<1>20. ASSUME NEW j \in Jobs, KillSwap(j) PROVE Memory'
  BY <1>20 DEF KillSwap
<1>21. ASSUME NEW j \in Jobs, KillCancel(j) PROVE Memory'
  BY <1>21 DEF KillCancel
<1>22. ASSUME NEW j \in Jobs, KillReset(j) PROVE Memory'
  BY <1>22 DEF KillReset
<1>23. ASSUME NEW t \in Threads, StrayCancelled(t) PROVE Memory'
  BY <1>23 DEF StrayCancelled
<1>24. ASSUME NEW j \in Jobs, KillRead(j) PROVE Memory'
  BY <1>24 DEF KillRead
<1> QED
  BY <1>1, <1>2, <1>3, <1>4, <1>5, <1>6, <1>7, <1>8, <1>9, <1>10, <1>11, <1>12, <1>13,
     <1>14, <1>15, <1>16, <1>17, <1>18, <1>19, <1>20, <1>21, <1>22, <1>23, <1>24
     DEF Next, Working, Killing

(* A killer and the thread it may cancel. *)
LEMMA KillsStep == BInv /\ [Next]_vars => Kills'
<1> SUFFICES ASSUME BInv, [Next]_vars PROVE Kills'
  OBVIOUS
<1> USE KillableAssumption, LimitAssumption, NullAssumption, AddressAssumption
    DEF BInv, TypeOK, Stages, Cancellable, WithJob, Exiting, Held, Memory, Kills, Aims, Hit, Queued,
        WordNamesLiveCall, Holders, Step, pool, threads, killing, counters
<1>1. CASE UNCHANGED vars
  BY <1>1 DEF vars
<1>2. ASSUME NEW t \in Threads, Take(t) PROVE Kills'
  <2>1. /\ queue # <<>> /\ queue' = Tail(queue) /\ pc[t] = "loop"
        /\ pc' = [pc EXCEPT ![t] = "begin"] /\ job' = [job EXCEPT ![t] = Head(queue)]
        /\ UNCHANGED <<calling, word, mem, thread, kill, astray, leaving, cancelled>>
    BY <1>2 DEF Take
  <2>2. /\ 1 \in 1..Len(queue) /\ Head(queue) = queue[1]
        /\ \A i \in 1..Len(queue') : i + 1 \in 1..Len(queue) /\ queue'[i] = queue[i + 1]
    <3>1. queue \in Seq(Jobs)
      OBVIOUS
    <3> QED BY ONLY <2>1, <3>1
  <2>3. /\ Queued(queue[1]) /\ \A j \in Jobs : Queued(j)' => Queued(j)
    BY ONLY <2>2 DEF Queued
  <2>4. /\ job'[t] = queue[1] /\ job[t] = NULL /\ ~leaving[t] /\ (cancelled[t] => astray)
        /\ \A u \in Threads : u # t => job'[u] = job[u] /\ pc'[u] = pc[u]
    BY <2>1, <2>2
  <2>5. ASSUME NEW j \in Jobs PROVE Aims(j)'
    <3>1. Aims(j) /\ (Queued(j)' => Queued(j)) /\ (Queued(j) \/ queue[1] # j)
      BY ONLY <2>3, <2>5, Kills DEF Kills
    <3>2. ASSUME kill[j] \in Batches \cup Threads
          PROVE  j # queue[1] /\ \A u \in Threads : job'[u] = j => u # t
      BY ONLY <3>1, <3>2, <2>4 DEF Aims
    <3>3. j # NULL
      OBVIOUS
    <3> QED BY ONLY <3>1, <3>2, <3>3, <2>1, <2>4 DEF Aims
  <2>6. ASSUME ~astray', NEW u \in Threads PROVE Hit(u)'
    BY ONLY <2>1, <2>4, <2>6, Kills DEF Kills, Hit
  <2> QED BY ONLY <2>5, <2>6 DEF Kills, Aims, Hit
<1>3. ASSUME NEW t \in Threads, Wait(t) PROVE Kills'
  BY <1>3 DEF Wait
<1>4. ASSUME NEW t \in Threads, Begin(t) PROVE Kills'
  BY <1>4 DEF Begin
<1>5. ASSUME NEW t \in Threads, BeginKillable(t) PROVE Kills'
  <2>1. PICK n \in {"call", "skip"} : pc' = [pc EXCEPT ![t] = n]
    BY <1>5, Begins
  <2>2. /\ pc[t] = "begin" /\ job[t] \in Killable /\ mem[job[t]] \in Batches /\ job[t] \in Jobs
        /\ thread' = [thread EXCEPT ![mem[job[t]]] = t]
        /\ word' = [word EXCEPT ![job[t]] = mem[job[t]]]
        /\ UNCHANGED <<queue, calling, mem, kill, astray, job, leaving, cancelled>>
    BY <1>5, Begins
  <2>3. /\ \A u \in Threads : u # t => pc'[u] = pc[u] /\ job[u] # job[t]
        /\ \A j \in Jobs : j # job[t] => word'[j] = word[j]
        /\ \A b \in Batches : thread[b] \in Threads => thread'[b] \in Threads
        /\ ~leaving[t] /\ pc[t] \notin Cancellable
    BY <2>1, <2>2
  <2>4. kill[job[t]] \notin Batches \cup Threads
    BY <2>2, <2>3
  <2>5. ASSUME NEW j \in Jobs PROVE Aims(j)'
    <3>1. CASE j = job[t]
      BY ONLY <3>1, <2>2, <2>4 DEF Aims
    <3>2. CASE j # job[t]
      BY ONLY <3>2, <2>2, <2>3, <2>5, Kills DEF Kills, Aims, Queued
    <3> QED BY ONLY <3>1, <3>2
  <2>6. ASSUME ~astray', NEW u \in Threads PROVE Hit(u)'
    BY ONLY <2>2, <2>3, <2>6, Kills, KillableAssumption DEF Kills, Aims, Hit
  <2> QED BY ONLY <2>5, <2>6 DEF Kills, Aims, Hit
<1>6. ASSUME NEW t \in Threads, Cas(t) PROVE Kills'
  BY <1>6 DEF Cas
<1>7. ASSUME NEW t \in Threads, Skip(t) PROVE Kills'
  BY <1>7 DEF Skip
<1>8. ASSUME NEW t \in Threads, Cancelled(t) PROVE Kills'
  BY <1>8 DEF Cancelled
<1>9. ASSUME NEW t \in Threads, NotCancelled(t) PROVE Kills'
  BY <1>9 DEF NotCancelled
<1>10. ASSUME NEW t \in Threads, PthreadExit(t) PROVE Kills'
  BY <1>10 DEF PthreadExit
<1>11. ASSUME NEW t \in Threads, ClearWord(t) PROVE Kills'
  BY <1>11 DEF ClearWord
<1>12. ASSUME NEW t \in Threads, Schedule(t) PROVE Kills'
  BY <1>12 DEF Schedule
<1>13. ASSUME NEW t \in Threads, DecPending(t) PROVE Kills'
  BY <1>13 DEF DecPending
<1>14. ASSUME NEW t \in Threads, CleanupPool(t) PROVE Kills'
  BY <1>14 DEF CleanupPool
<1>15. ASSUME NEW t \in Threads, DecRunning(t) PROVE Kills'
  BY <1>15 DEF DecRunning
<1>16. ASSUME NEW t \in Threads, Join(t) PROVE Kills'
  <2>1. /\ reap[t] \in Threads /\ pc[reap[t]] = "ended" /\ pc[t] = "join"
        /\ UNCHANGED <<queue, calling, job, word, mem, thread, kill, astray>>
        /\ pc' = [pc EXCEPT ![t] = "ended", ![reap[t]] = "none"]
        /\ leaving' = [leaving EXCEPT ![reap[t]] = FALSE]
        /\ cancelled' = [cancelled EXCEPT ![reap[t]] = FALSE]
    BY <1>16 DEF Join
  <2>2. \A u \in Threads : job[u] \in Jobs => u # t /\ u # reap[t]
    BY <2>1
  <2>3. \A u \in Threads : job[u] \in Jobs => pc'[u] = pc[u] /\ leaving'[u] = leaving[u]
    BY ONLY <2>1, <2>2, TypeOK DEF TypeOK
  <2>4. \A u \in Threads : cancelled'[u] => u # reap[t]
    BY ONLY <2>1, TypeOK DEF TypeOK
  <2>5. \A u \in Threads : cancelled'[u] => cancelled[u] /\ leaving'[u] = leaving[u]
    BY ONLY <2>1, <2>4, TypeOK DEF TypeOK
  <2>6. ASSUME ~astray', NEW u \in Threads PROVE Hit(u)'
    <3>1. Hit(u)
      BY ONLY <2>1, <2>6, Kills DEF Kills
    <3> QED BY ONLY <3>1, <2>1, <2>3, <2>5, <2>6, KillableAssumption DEF Hit
  <2>7. ASSUME NEW j \in Jobs PROVE Aims(j)'
    <3>1. Aims(j) /\ \A u \in Threads : job[u] = j => pc'[u] = pc[u] /\ leaving'[u] = leaving[u]
      BY ONLY <2>3, <2>7, Kills DEF Kills
    <3>2. Queued(j)' <=> Queued(j)
      BY ONLY <2>1 DEF Queued
    <3>3. UNCHANGED <<calling, job, word, mem, thread, kill>>
      BY ONLY <2>1
    <3>4. kill'[j] \in Batches \cup Threads => \A u \in Threads : job'[u] = j =>
            /\ leaving'[u] \/ pc'[u] \in Cancellable
            /\ kill'[j] \in Threads => kill'[j] = u
      <4>1. ASSUME kill[j] \in Batches \cup Threads
            PROVE  \A u \in Threads : job[u] = j =>
                     /\ leaving[u] \/ pc[u] \in Cancellable
                     /\ kill[j] \in Threads => kill[j] = u
        BY ONLY <3>1, <4>1 DEF Aims
      <4> QED BY ONLY <4>1, <3>1, <3>3
    <3> QED BY ONLY <3>1, <3>2, <3>3, <3>4 DEF Aims
  <2> QED BY ONLY <2>6, <2>7 DEF Kills
<1>17. ASSUME NEW t \in Threads, Return(t) PROVE Kills'
  BY <1>17 DEF Return
<1>18. ASSUME NEW t \in Threads, TimedOut(t) PROVE Kills'
  BY <1>18 DEF TimedOut
<1>19. ASSUME NEW j \in Jobs, Dispatch(j) PROVE Kills'
  <2>1. /\ j \notin calling /\ kill[j] = "out" /\ calling' = calling \cup {j}
        /\ word' = [word EXCEPT ![j] = "0"] /\ queue' = Append(queue, j)
        /\ UNCHANGED <<thread, kill, astray, job, leaving, cancelled>>
    BY <1>19 DEF Dispatch
  <2>2. \A u \in Threads : pc[u] \in WithJob => pc'[u] = pc[u]
    BY <1>19 DEF Dispatch, Signal, Create
  <2>3. \A i \in Jobs : i # j => mem'[i] = mem[i]
    BY <1>19 DEF Dispatch, Allocate
  <2>4. \A i \in Jobs : i # j => word'[i] = word[i] /\ (Queued(i)' => Queued(i))
    <3>1. queue \in Seq(Jobs)
      OBVIOUS
    <3>2. \A n \in 1..Len(queue') : \/ n \in 1..Len(queue) /\ queue'[n] = queue[n]
                                    \/ queue'[n] = j
      BY ONLY <3>1, <2>1, j \in Jobs
    <3>3. \A i \in Jobs : i # j => word'[i] = word[i]
      BY <2>1
    <3> QED BY ONLY <3>2, <3>3 DEF Queued
  <2>5. "out" \notin Batches \cup Threads
    OBVIOUS
  <2>6. ASSUME NEW i \in Jobs PROVE Aims(i)'
    <3>1. CASE i = j
      BY ONLY <3>1, <2>1, <2>5 DEF Aims
    <3>2. CASE i # j
      <4>1. \A u \in Threads : job[u] = i => pc'[u] = pc[u]
        BY <2>2
      <4> QED BY ONLY <3>2, <4>1, <2>1, <2>3, <2>4, <2>6, Kills DEF Kills, Aims
    <3> QED BY ONLY <3>1, <3>2
  <2>7. ASSUME ~astray', NEW u \in Threads PROVE Hit(u)'
    <3>1. Hit(u) /\ (pc[u] \in Cancellable => job[u] # j)
      BY <2>1, <2>7
    <3> QED BY ONLY <3>1, <2>1, <2>2, <2>4, <2>7, KillableAssumption DEF Hit, WithJob
  <2> QED BY ONLY <2>6, <2>7 DEF Kills
<1>20. ASSUME NEW j \in Jobs, KillSwap(j) PROVE Kills'
  BY <1>20 DEF KillSwap
<1>21. ASSUME NEW j \in Jobs, KillCancel(j) PROVE Kills'
  BY <1>21 DEF KillCancel
<1>22. ASSUME NEW j \in Jobs, KillReset(j) PROVE Kills'
  BY <1>22 DEF KillReset
<1>23. ASSUME NEW t \in Threads, StrayCancelled(t) PROVE Kills'
  BY <1>23 DEF StrayCancelled
<1>24. ASSUME NEW j \in Jobs, KillRead(j) PROVE Kills'
  <2>0. /\ kill[j] \in Batches /\ kill' = [kill EXCEPT ![j] = thread[kill[j]]]
        /\ UNCHANGED <<queue, calling, word, mem, thread, astray, threads>>
    BY <1>24 DEF KillRead
  <2>1. /\ kill[j] \in Batches /\ thread[kill[j]] \in Threads
        /\ kill' = [kill EXCEPT ![j] = thread[kill[j]]]
        /\ UNCHANGED <<queue, calling, word, mem, thread, astray, threads>>
    BY ONLY <2>0, Kills, j \in Jobs DEF Kills, Aims, Hit
  <2>2. ASSUME NEW u \in Threads, job[u] = j PROVE thread[kill[j]] = u
    <3>1. kill[j] = mem[j] /\ j \in Killable /\ pc[u] # "begin"
      BY <2>1, <2>2
    <3> QED BY <2>2, <3>1
  <2>3. \A i \in Jobs : i # j => kill'[i] = kill[i]
    BY <2>1
  <2>4. kill'[j] = thread[kill[j]] /\ kill'[j] \notin Batches
    BY <2>1
  <2> QED BY ONLY <2>1, <2>2, <2>3, <2>4, Kills DEF Kills, Aims, Hit, Queued, threads
<1> QED
  BY <1>1, <1>2, <1>3, <1>4, <1>5, <1>6, <1>7, <1>8, <1>9, <1>10, <1>11, <1>12, <1>13,
     <1>14, <1>15, <1>16, <1>17, <1>18, <1>19, <1>20, <1>21, <1>22, <1>23, <1>24
     DEF Next, Working, Killing

(* A kill word loses the job before the call is over. *)
LEMMA WordNamesLiveCallStep == BInv /\ [Next]_vars => WordNamesLiveCall'
<1> SUFFICES ASSUME BInv, [Next]_vars PROVE WordNamesLiveCall'
  OBVIOUS
<1> USE KillableAssumption, LimitAssumption, NullAssumption, AddressAssumption
    DEF BInv, TypeOK, Stages, Cancellable, WithJob, Exiting, Held, Queued, Memory, Kills, Aims, Hit,
        WordNamesLiveCall, Holders, Step, pool, threads, killing, counters
<1>1. CASE UNCHANGED vars
  BY <1>1 DEF vars
<1>2. ASSUME NEW t \in Threads, Take(t) PROVE WordNamesLiveCall'
  BY <1>2 DEF Take
<1>3. ASSUME NEW t \in Threads, Wait(t) PROVE WordNamesLiveCall'
  BY <1>3 DEF Wait
<1>4. ASSUME NEW t \in Threads, Begin(t) PROVE WordNamesLiveCall'
  BY <1>4 DEF Begin
<1>5. ASSUME NEW t \in Threads, BeginKillable(t) PROVE WordNamesLiveCall'
  BY <1>5 DEF BeginKillable
<1>6. ASSUME NEW t \in Threads, Cas(t) PROVE WordNamesLiveCall'
  <2>1. CASE word[job[t]] = mem[job[t]]
    BY <1>6, <2>1 DEF Cas
  <2>2. CASE word[job[t]] # mem[job[t]]
    BY <1>6, <2>2 DEF Cas
  <2> QED BY <2>1, <2>2
<1>7. ASSUME NEW t \in Threads, Skip(t) PROVE WordNamesLiveCall'
  BY <1>7 DEF Skip
<1>8. ASSUME NEW t \in Threads, Cancelled(t) PROVE WordNamesLiveCall'
  BY <1>8 DEF Cancelled
<1>9. ASSUME NEW t \in Threads, NotCancelled(t) PROVE WordNamesLiveCall'
  BY <1>9 DEF NotCancelled
<1>10. ASSUME NEW t \in Threads, PthreadExit(t) PROVE WordNamesLiveCall'
  BY <1>10 DEF PthreadExit
<1>11. ASSUME NEW t \in Threads, ClearWord(t) PROVE WordNamesLiveCall'
  BY <1>11 DEF ClearWord
<1>12. ASSUME NEW t \in Threads, Schedule(t) PROVE WordNamesLiveCall'
  BY <1>12 DEF Schedule
<1>13. ASSUME NEW t \in Threads, DecPending(t) PROVE WordNamesLiveCall'
  BY <1>13 DEF DecPending
<1>14. ASSUME NEW t \in Threads, CleanupPool(t) PROVE WordNamesLiveCall'
  BY <1>14 DEF CleanupPool
<1>15. ASSUME NEW t \in Threads, DecRunning(t) PROVE WordNamesLiveCall'
  BY <1>15 DEF DecRunning
<1>16. ASSUME NEW t \in Threads, Join(t) PROVE WordNamesLiveCall'
  BY <1>16 DEF Join
<1>17. ASSUME NEW t \in Threads, Return(t) PROVE WordNamesLiveCall'
  BY <1>17 DEF Return
<1>18. ASSUME NEW t \in Threads, TimedOut(t) PROVE WordNamesLiveCall'
  BY <1>18 DEF TimedOut
<1>19. ASSUME NEW j \in Jobs, Dispatch(j) PROVE WordNamesLiveCall'
  <2>1. /\ word' = [word EXCEPT ![j] = "0"] /\ UNCHANGED <<job, leaving>>
        /\ \A u \in Threads : pc[u] \in {"call", "cas", "skip", "clearWord"} => pc'[u] = pc[u]
        /\ \A i \in Jobs : i # j => mem'[i] = mem[i]
    BY <1>19 DEF Dispatch, Allocate, Signal, Create
  <2>2. \A i \in Jobs : word'[i] \in Batches => word[i] = word'[i] /\ i # j
    BY <2>1
  <2> QED BY ONLY <2>1, <2>2, WordNamesLiveCall DEF WordNamesLiveCall, Holders
<1>20. ASSUME NEW j \in Jobs, KillSwap(j) PROVE WordNamesLiveCall'
  BY <1>20 DEF KillSwap
<1>21. ASSUME NEW j \in Jobs, KillCancel(j) PROVE WordNamesLiveCall'
  BY <1>21 DEF KillCancel
<1>22. ASSUME NEW j \in Jobs, KillReset(j) PROVE WordNamesLiveCall'
  BY <1>22 DEF KillReset
<1>23. ASSUME NEW t \in Threads, StrayCancelled(t) PROVE WordNamesLiveCall'
  <2>1. /\ \A u \in Threads : u # t => pc'[u] = pc[u] /\ job'[u] = job[u] /\ leaving'[u] = leaving[u]
        /\ ~(pc[t] \in {"call", "cas", "skip"} /\ job[t] \in Killable) /\ ~leaving[t]
        /\ UNCHANGED <<word, mem>>
    BY <1>23 DEF StrayCancelled
  <2>2. ASSUME NEW j \in Jobs, word[j] \in Batches, NEW u \in Threads, job[u] = j,
               pc[u] \in {"call", "cas", "skip"} \/ (pc[u] = "clearWord" /\ leaving[u])
        PROVE  u # t
    <3>1. j \in Killable
      BY <2>2
    <3> QED BY ONLY <2>1, <2>2, <3>1
  <2> QED
    <3>1. ASSUME NEW j \in Jobs, word'[j] \in Batches
          PROVE  /\ word'[j] = mem'[j]
                 /\ \E u \in Holders(j)' : \/ pc'[u] \in {"call", "cas", "skip"}
                                           \/ pc'[u] = "clearWord" /\ leaving'[u]
      <4>1. word[j] \in Batches
        BY ONLY <2>1, <3>1
      <4>2. PICK u \in Threads : job[u] = j /\ (\/ pc[u] \in {"call", "cas", "skip"}
                                                \/ pc[u] = "clearWord" /\ leaving[u])
        BY <4>1 DEF WordNamesLiveCall, Holders
      <4>3. u # t
        BY ONLY <2>2, <4>1, <4>2, <3>1
      <4>4. word[j] = mem[j]
        BY <4>1
      <4> QED BY ONLY <2>1, <4>2, <4>3, <4>4 DEF Holders
    <3> QED BY ONLY <3>1 DEF WordNamesLiveCall
<1>24. ASSUME NEW j \in Jobs, KillRead(j) PROVE WordNamesLiveCall'
  BY <1>24 DEF KillRead
<1> QED
  BY <1>1, <1>2, <1>3, <1>4, <1>5, <1>6, <1>7, <1>8, <1>9, <1>10, <1>11, <1>12, <1>13,
     <1>14, <1>15, <1>16, <1>17, <1>18, <1>19, <1>20, <1>21, <1>22,
     <1>23, <1>24
     DEF Next, Working, Killing

(* A thread that exits is joined by one other. *)
LEMMA ReapedOnceStep == BInv /\ [Next]_vars => ReapedOnce'
<1> SUFFICES ASSUME BInv, [Next]_vars PROVE ReapedOnce'
  OBVIOUS
<1> USE KillableAssumption, LimitAssumption, NullAssumption, AddressAssumption
    DEF BInv, TypeOK, Stages, Cancellable, WithJob, Exiting, ReapedOnce, Step, pool,
        threads, killing, counters
<1>1. CASE UNCHANGED vars
  BY <1>1 DEF vars
<1>2. ASSUME NEW t \in Threads, Take(t) PROVE ReapedOnce'
  BY <1>2 DEF Take
<1>3. ASSUME NEW t \in Threads, Wait(t) PROVE ReapedOnce'
  BY <1>3 DEF Wait
<1>4. ASSUME NEW t \in Threads, Begin(t) PROVE ReapedOnce'
  BY <1>4 DEF Begin
<1>5. ASSUME NEW t \in Threads, BeginKillable(t) PROVE ReapedOnce'
  BY <1>5 DEF BeginKillable
<1>6. ASSUME NEW t \in Threads, Cas(t) PROVE ReapedOnce'
  BY <1>6 DEF Cas
<1>7. ASSUME NEW t \in Threads, Skip(t) PROVE ReapedOnce'
  BY <1>7 DEF Skip
<1>8. ASSUME NEW t \in Threads, Cancelled(t) PROVE ReapedOnce'
  BY <1>8 DEF Cancelled
<1>9. ASSUME NEW t \in Threads, NotCancelled(t) PROVE ReapedOnce'
  BY <1>9 DEF NotCancelled
<1>10. ASSUME NEW t \in Threads, PthreadExit(t) PROVE ReapedOnce'
  BY <1>10 DEF PthreadExit
<1>11. ASSUME NEW t \in Threads, ClearWord(t) PROVE ReapedOnce'
  BY <1>11 DEF ClearWord
<1>12. ASSUME NEW t \in Threads, Schedule(t) PROVE ReapedOnce'
  BY <1>12 DEF Schedule
<1>13. ASSUME NEW t \in Threads, DecPending(t) PROVE ReapedOnce'
  BY <1>13 DEF DecPending
<1>14. ASSUME NEW t \in Threads, CleanupPool(t) PROVE ReapedOnce'
  BY <1>14 DEF CleanupPool
<1>15. ASSUME NEW t \in Threads, DecRunning(t) PROVE ReapedOnce'
  BY <1>15 DEF DecRunning
<1>16. ASSUME NEW t \in Threads, Join(t) PROVE ReapedOnce'
  BY <1>16 DEF Join
<1>17. ASSUME NEW t \in Threads, Return(t) PROVE ReapedOnce'
  BY <1>17 DEF Return
<1>18. ASSUME NEW t \in Threads, TimedOut(t) PROVE ReapedOnce'
  BY <1>18 DEF TimedOut
<1>19. ASSUME NEW j \in Jobs, Dispatch(j) PROVE ReapedOnce'
  BY <1>19 DEF Dispatch, Signal, Create, MayCreate
<1>20. ASSUME NEW j \in Jobs, KillSwap(j) PROVE ReapedOnce'
  BY <1>20 DEF KillSwap
<1>21. ASSUME NEW j \in Jobs, KillCancel(j) PROVE ReapedOnce'
  BY <1>21 DEF KillCancel
<1>22. ASSUME NEW j \in Jobs, KillReset(j) PROVE ReapedOnce'
  BY <1>22 DEF KillReset
<1>23. ASSUME NEW t \in Threads, StrayCancelled(t) PROVE ReapedOnce'
  BY <1>23 DEF StrayCancelled
<1>24. ASSUME NEW j \in Jobs, KillRead(j) PROVE ReapedOnce'
  BY <1>24 DEF KillRead
<1> QED
  BY <1>1, <1>2, <1>3, <1>4, <1>5, <1>6, <1>7, <1>8, <1>9, <1>10, <1>11, <1>12, <1>13,
     <1>14, <1>15, <1>16, <1>17, <1>18, <1>19, <1>20, <1>21, <1>22,
     <1>23, <1>24
     DEF Next, Working, Killing

(* The counters follow the calls and the threads. *)
LEMMA CountsStep == BInv /\ [Next]_vars => Counts'
<1> SUFFICES ASSUME BInv, [Next]_vars PROVE Counts'
  OBVIOUS
<1> USE KillableAssumption, LimitAssumption, NullAssumption, AddressAssumption
    DEF BInv, TypeOK, Stages, Cancellable, WithJob, Exiting, Step, pool, threads,
        killing, counters
<1>0. pending \in Nat
  OBVIOUS
<1>1. CASE UNCHANGED vars
  BY <1>1 DEF vars, Counts, PendingCounts, Active, Resuming
<1>2. ASSUME NEW t \in Threads, Take(t) PROVE Counts'
  <2>1. UNCHANGED <<calling, pending, running, astray>> /\ Active' = Active /\ Resuming' = Resuming
    BY <1>2 DEF Take, Active, Resuming
  <2> QED BY ONLY <2>1, Counts, <1>0 DEF Counts, PendingCounts
<1>3. ASSUME NEW t \in Threads, Wait(t) PROVE Counts'
  <2>1. UNCHANGED <<calling, pending, running, astray>> /\ Active' = Active /\ Resuming' = Resuming
    BY <1>3 DEF Wait, Active, Resuming
  <2> QED BY ONLY <2>1, Counts, <1>0 DEF Counts, PendingCounts
<1>4. ASSUME NEW t \in Threads, Begin(t) PROVE Counts'
  <2>1. UNCHANGED <<calling, pending, running, astray>> /\ Active' = Active /\ Resuming' = Resuming
    BY <1>4 DEF Begin, Active, Resuming
  <2> QED BY ONLY <2>1, Counts, <1>0 DEF Counts, PendingCounts
<1>5. ASSUME NEW t \in Threads, BeginKillable(t) PROVE Counts'
  <2>1. UNCHANGED <<calling, pending, running, astray>> /\ Active' = Active /\ Resuming' = Resuming
    BY <1>5 DEF BeginKillable, Active, Resuming
  <2> QED BY ONLY <2>1, Counts, <1>0 DEF Counts, PendingCounts
<1>6. ASSUME NEW t \in Threads, Cas(t) PROVE Counts'
  <2>1. UNCHANGED <<calling, pending, running, astray>> /\ Active' = Active /\ Resuming' = Resuming
    BY <1>6 DEF Cas, Active, Resuming
  <2> QED BY ONLY <2>1, Counts, <1>0 DEF Counts, PendingCounts
<1>7. ASSUME NEW t \in Threads, Skip(t) PROVE Counts'
  <2>1. UNCHANGED <<calling, pending, running, astray>> /\ Active' = Active /\ Resuming' = Resuming
    BY <1>7 DEF Skip, Active, Resuming
  <2> QED BY ONLY <2>1, Counts, <1>0 DEF Counts, PendingCounts
<1>8. ASSUME NEW t \in Threads, Cancelled(t) PROVE Counts'
  <2>1. UNCHANGED <<calling, pending, running, astray>> /\ Active' = Active /\ Resuming' = Resuming
    BY <1>8 DEF Cancelled, Active, Resuming
  <2> QED BY ONLY <2>1, Counts, <1>0 DEF Counts, PendingCounts
<1>9. ASSUME NEW t \in Threads, NotCancelled(t) PROVE Counts'
  <2>1. UNCHANGED <<calling, pending, running, astray>> /\ Active' = Active /\ Resuming' = Resuming
    BY <1>9 DEF NotCancelled, Active, Resuming
  <2> QED BY ONLY <2>1, Counts, <1>0 DEF Counts, PendingCounts
<1>10. ASSUME NEW t \in Threads, PthreadExit(t) PROVE Counts'
  <2>1. UNCHANGED <<calling, pending, running, astray>> /\ Active' = Active /\ Resuming' = Resuming
    BY <1>10 DEF PthreadExit, Active, Resuming
  <2> QED BY ONLY <2>1, Counts, <1>0 DEF Counts, PendingCounts
<1>11. ASSUME NEW t \in Threads, ClearWord(t) PROVE Counts'
  <2>1. UNCHANGED <<calling, pending, running, astray>> /\ Active' = Active /\ Resuming' = Resuming
    BY <1>11 DEF ClearWord, Active, Resuming
  <2> QED BY ONLY <2>1, Counts, <1>0 DEF Counts, PendingCounts
<1>12. ASSUME NEW t \in Threads, Schedule(t) PROVE Counts'
  <2>1. /\ calling' = calling \ {job[t]} /\ job[t] \in calling /\ Active' = Active
        /\ Resuming' = Resuming \cup {t} /\ t \notin Resuming /\ UNCHANGED <<pending, running, astray>>
    BY <1>12 DEF Schedule, Active, Resuming, Held
  <2>2. IsFiniteSet(calling') /\ Cardinality(calling') = Cardinality(calling) - 1
    BY ONLY <2>1, Counts, FS_RemoveElement DEF Counts
  <2>3. IsFiniteSet(Resuming') /\ Cardinality(Resuming') = Cardinality(Resuming) + 1
    BY ONLY <2>1, Counts, FS_AddElement DEF Counts
  <2>4. Cardinality(calling) \in Nat /\ Cardinality(Resuming) \in Nat
    BY ONLY Counts, FS_CardinalityType DEF Counts
  <2> QED BY ONLY <2>1, <2>2, <2>3, <2>4, Counts, <1>0 DEF Counts, PendingCounts
<1>13. ASSUME NEW t \in Threads, DecPending(t) PROVE Counts'
  <2>1. /\ Resuming' = Resuming \ {t} /\ t \in Resuming /\ Active' = Active
        /\ pending' = pending - 1 /\ UNCHANGED <<calling, running, astray>>
    BY <1>13 DEF DecPending, Active, Resuming
  <2>2. IsFiniteSet(Resuming') /\ Cardinality(Resuming') = Cardinality(Resuming) - 1
    BY ONLY <2>1, Counts, FS_RemoveElement DEF Counts
  <2>3. Cardinality(calling) \in Nat /\ Cardinality(Resuming) \in Nat
    BY ONLY Counts, FS_CardinalityType DEF Counts
  <2> QED BY ONLY <2>1, <2>2, <2>3, Counts, <1>0 DEF Counts, PendingCounts
<1>14. ASSUME NEW t \in Threads, CleanupPool(t) PROVE Counts'
  <2>1. UNCHANGED <<calling, pending, running, astray>> /\ Active' = Active /\ Resuming' = Resuming
    BY <1>14 DEF CleanupPool, Active, Resuming
  <2> QED BY ONLY <2>1, Counts, <1>0 DEF Counts, PendingCounts
<1>15. ASSUME NEW t \in Threads, DecRunning(t) PROVE Counts'
  <2>1. /\ Active' = Active \ {t} /\ t \in Active /\ Resuming' = Resuming
        /\ running' = running - 1 /\ UNCHANGED <<calling, pending, astray>>
    BY <1>15 DEF DecRunning, Active, Resuming
  <2>2. IsFiniteSet(Active') /\ Cardinality(Active') = Cardinality(Active) - 1
    BY ONLY <2>1, Counts, FS_RemoveElement DEF Counts
  <2> QED BY ONLY <2>1, <2>2, Counts, <1>0 DEF Counts, PendingCounts
<1>16. ASSUME NEW t \in Threads, Join(t) PROVE Counts'
  <2>1. /\ pc[t] = "join" /\ pc[reap[t]] = "ended" /\ reap[t] \in Threads
        /\ pc' = [pc EXCEPT ![t] = "ended", ![reap[t]] = "none"]
        /\ UNCHANGED <<calling, pending, running, astray>>
    BY <1>16 DEF Join
  <2>2. \A u \in Threads : \/ pc'[u] = pc[u]
                           \/ /\ pc[u] \in {"none", "join", "ended"}
                              /\ pc'[u] \in {"none", "join", "ended"}
    BY <2>1
  <2>3. Active' = Active /\ Resuming' = Resuming
    BY ONLY <2>2 DEF Active, Resuming
  <2> QED BY ONLY <2>1, <2>3, Counts, <1>0 DEF Counts, PendingCounts
<1>17. ASSUME NEW t \in Threads, Return(t) PROVE Counts'
  <2>1. UNCHANGED <<calling, pending, running, astray>> /\ Active' = Active /\ Resuming' = Resuming
    BY <1>17 DEF Return, Active, Resuming
  <2> QED BY ONLY <2>1, Counts, <1>0 DEF Counts, PendingCounts
<1>18. ASSUME NEW t \in Threads, TimedOut(t) PROVE Counts'
  <2>1. UNCHANGED <<calling, pending, running, astray>> /\ Active' = Active /\ Resuming' = Resuming
    BY <1>18 DEF TimedOut, Active, Resuming
  <2> QED BY ONLY <2>1, Counts, <1>0 DEF Counts, PendingCounts
<1>19. ASSUME NEW j \in Jobs, Dispatch(j) PROVE Counts'
  <2>1. calling' = calling \cup {j} /\ j \notin calling /\ pending' = pending + 1 /\ UNCHANGED astray
    BY <1>19 DEF Dispatch
  <2>2. IsFiniteSet(calling') /\ Cardinality(calling') = Cardinality(calling) + 1
    BY ONLY <2>1, Counts, FS_AddElement DEF Counts
  <2>3. Cardinality(calling) \in Nat /\ Cardinality(Resuming) \in Nat
    BY ONLY Counts, FS_CardinalityType DEF Counts
  <2>4. CASE running' = running
    <3>1. Active' = Active /\ Resuming' = Resuming
      <4>1. CASE UNCHANGED pc
        BY <4>1 DEF Active, Resuming
      <4>2. ASSUME NEW u \in Threads, Step(u, "wait", "loop")
            PROVE  Active' = Active /\ Resuming' = Resuming
        BY <4>2 DEF Active, Resuming
      <4> QED BY <1>19, <2>4, <4>1, <4>2 DEF Dispatch, Signal
    <3> QED BY ONLY <3>1, <2>1, <2>2, <2>3, <2>4, Counts, <1>0 DEF Counts, PendingCounts
  <2>5. ASSUME NEW u \in Threads, Step(u, "none", "loop"), running' = running + 1 PROVE Counts'
    <3>1. Active' = Active \cup {u} /\ u \notin Active /\ Resuming' = Resuming
      BY <2>5 DEF Active, Resuming
    <3>2. IsFiniteSet(Active') /\ Cardinality(Active') = Cardinality(Active) + 1
      BY ONLY <3>1, Counts, FS_AddElement DEF Counts
    <3> QED BY ONLY <3>1, <3>2, <2>1, <2>2, <2>3, <2>5, Counts, <1>0 DEF Counts, PendingCounts
  <2> QED BY <1>19, <2>4, <2>5 DEF Dispatch, Create
<1>20. ASSUME NEW j \in Jobs, KillSwap(j) PROVE Counts'
  <2>1. UNCHANGED <<calling, pending, running, astray>> /\ Active' = Active /\ Resuming' = Resuming
    BY <1>20 DEF KillSwap, Active, Resuming
  <2> QED BY ONLY <2>1, Counts, <1>0 DEF Counts, PendingCounts
<1>21. ASSUME NEW j \in Jobs, KillCancel(j) PROVE Counts'
  <2>1. /\ UNCHANGED <<calling, pending, running>> /\ (astray => astray')
        /\ Active' = Active /\ Resuming' = Resuming
    BY <1>21 DEF KillCancel, Active, Resuming
  <2> QED BY ONLY <2>1, Counts, <1>0 DEF Counts, PendingCounts
<1>22. ASSUME NEW j \in Jobs, KillReset(j) PROVE Counts'
  <2>1. UNCHANGED <<calling, pending, running, astray>> /\ Active' = Active /\ Resuming' = Resuming
    BY <1>22 DEF KillReset, Active, Resuming
  <2> QED BY ONLY <2>1, Counts, <1>0 DEF Counts, PendingCounts
<1>23. ASSUME NEW t \in Threads, StrayCancelled(t) PROVE Counts'
  <2>1. /\ UNCHANGED <<calling, pending, running, astray>>
        /\ Active' = Active /\ Resuming' = Resuming \ {t}
    BY <1>23 DEF StrayCancelled, Active, Resuming
  <2>2. astray
    BY <1>23 DEF StrayCancelled, Kills, Aims, Hit
  <2>3. IsFiniteSet(Resuming') /\ Cardinality(Resuming') <= Cardinality(Resuming)
    <3>1. CASE t \in Resuming
      <4>1. IsFiniteSet(Resuming') /\ Cardinality(Resuming') = Cardinality(Resuming) - 1
        BY ONLY <2>1, <3>1, Counts, FS_RemoveElement DEF Counts
      <4>2. Cardinality(Resuming) \in Nat
        BY ONLY Counts, FS_CardinalityType DEF Counts
      <4> QED BY ONLY <4>1, <4>2
    <3>2. CASE t \notin Resuming
      <4>1. Resuming' = Resuming /\ Cardinality(Resuming) \in Nat
        BY ONLY <2>1, <3>2, Counts, FS_CardinalityType DEF Counts
      <4> QED BY ONLY <4>1, Counts DEF Counts
    <3> QED BY <3>1, <3>2
  <2>4. /\ Cardinality(calling) \in Nat /\ Cardinality(Resuming) \in Nat
        /\ Cardinality(Resuming') \in Nat
    BY ONLY <2>3, Counts, FS_CardinalityType DEF Counts
  <2> QED BY ONLY <2>1, <2>2, <2>3, <2>4, Counts, <1>0 DEF Counts, PendingCounts
<1>24. ASSUME NEW j \in Jobs, KillRead(j) PROVE Counts'
  <2>1. UNCHANGED <<calling, pending, running, astray>> /\ Active' = Active /\ Resuming' = Resuming
    BY <1>24 DEF KillRead, Active, Resuming
  <2> QED BY ONLY <2>1, Counts, <1>0 DEF Counts, PendingCounts
<1> QED
  BY <1>1, <1>2, <1>3, <1>4, <1>5, <1>6, <1>7, <1>8, <1>9, <1>10, <1>11, <1>12, <1>13,
     <1>14, <1>15, <1>16, <1>17, <1>18, <1>19, <1>20, <1>21, <1>22,
     <1>23, <1>24
     DEF Next, Working, Killing

(* Every step keeps the variables in their types. *)
LEMMA TypeOKStep == BInv /\ [Next]_vars => TypeOK'
<1> SUFFICES ASSUME BInv, [Next]_vars PROVE TypeOK'
  OBVIOUS
<1> USE KillableAssumption, LimitAssumption, NullAssumption, AddressAssumption
    DEF BInv, TypeOK, Words, Labels, Stages, Step, pool, threads, killing, counters
<1>1. CASE UNCHANGED vars
  BY <1>1 DEF vars
<1>2. ASSUME NEW t \in Threads, Take(t) PROVE TypeOK'
  <2>1. Head(queue) \in Jobs /\ Tail(queue) \in Seq(Jobs)
    BY <1>2 DEF Take
  <2> QED BY <2>1, <1>2 DEF Take
<1>3. ASSUME NEW t \in Threads, Wait(t) PROVE TypeOK'
  BY <1>3 DEF Wait
<1>4. ASSUME NEW t \in Threads, Begin(t) PROVE TypeOK'
  BY <1>4 DEF Begin
<1>5. ASSUME NEW t \in Threads, BeginKillable(t) PROVE TypeOK'
  <2>1. PICK n \in {"call", "skip"} : pc' = [pc EXCEPT ![t] = n]
    BY <1>5, Begins
  <2>2. /\ job[t] \in Jobs /\ mem[job[t]] \in Batches
        /\ thread' = [thread EXCEPT ![mem[job[t]]] = t]
        /\ word' = [word EXCEPT ![job[t]] = mem[job[t]]]
        /\ UNCHANGED <<pool, counters, calling, mem, kill, astray, job, reap, leaving, cancelled>>
    BY <1>5, Begins
  <2>3. pc' \in [Threads -> Labels] /\ word' \in [Jobs -> Words]
    BY <2>1, <2>2
  <2>4. thread' \in [Batches -> Threads \cup {NULL}]
    BY <2>2
  <2> QED BY <2>2, <2>3, <2>4
<1>6. ASSUME NEW t \in Threads, Cas(t) PROVE TypeOK'
  BY <1>6 DEF Cas
<1>7. ASSUME NEW t \in Threads, Skip(t) PROVE TypeOK'
  BY <1>7 DEF Skip
<1>8. ASSUME NEW t \in Threads, Cancelled(t) PROVE TypeOK'
  BY <1>8 DEF Cancelled
<1>9. ASSUME NEW t \in Threads, NotCancelled(t) PROVE TypeOK'
  BY <1>9 DEF NotCancelled
<1>10. ASSUME NEW t \in Threads, PthreadExit(t) PROVE TypeOK'
  BY <1>10 DEF PthreadExit
<1>11. ASSUME NEW t \in Threads, ClearWord(t) PROVE TypeOK'
  BY <1>11 DEF ClearWord
<1>12. ASSUME NEW t \in Threads, Schedule(t) PROVE TypeOK'
  BY <1>12 DEF Schedule
<1>13. ASSUME NEW t \in Threads, DecPending(t) PROVE TypeOK'
  <2>1. pending' \in Nat
    <3>1. Counts'
      BY CountsStep
    <3>2. pending' \in Int
      BY <1>13 DEF DecPending
    <3> QED BY ONLY <3>1, <3>2, FS_CardinalityType DEF Counts, PendingCounts
  <2> QED BY <2>1, <1>13 DEF DecPending
<1>14. ASSUME NEW t \in Threads, CleanupPool(t) PROVE TypeOK'
  BY <1>14 DEF CleanupPool
<1>15. ASSUME NEW t \in Threads, DecRunning(t) PROVE TypeOK'
  <2>1. running' = running - 1 /\ running' \in Nat
    <3>1. Counts'
      BY CountsStep
    <3> QED BY ONLY <1>15, <3>1, FS_CardinalityType DEF Counts, DecRunning
  <2>2. running' \in 0..(IF Shared THEN Limit ELSE 1)
    BY <2>1
  <2> QED BY <2>2, <1>15 DEF DecRunning
<1>16. ASSUME NEW t \in Threads, Join(t) PROVE TypeOK'
  BY <1>16 DEF Join
<1>17. ASSUME NEW t \in Threads, Return(t) PROVE TypeOK'
  BY <1>17 DEF Return
<1>18. ASSUME NEW t \in Threads, TimedOut(t) PROVE TypeOK'
  BY <1>18 DEF TimedOut
<1>19. ASSUME NEW j \in Jobs, Dispatch(j) PROVE TypeOK'
  <2>1. running' \in 0..(IF Shared THEN Limit ELSE 1) /\ waiting' \in Nat
    BY <1>19 DEF Dispatch, MayCreate
  <2>2. pc' \in [Threads -> Labels]
    BY <1>19 DEF Dispatch, Signal, Create
  <2>3. Append(queue, j) \in Seq(Jobs)
    OBVIOUS
  <2>4. mem' \in [Jobs -> Batches \cup {NULL}]
    BY <1>19 DEF Dispatch, Allocate
  <2> QED BY <2>1, <2>2, <2>3, <2>4, <1>19 DEF Dispatch
<1>20. ASSUME NEW j \in Jobs, KillSwap(j) PROVE TypeOK'
  BY <1>20 DEF KillSwap
<1>21. ASSUME NEW j \in Jobs, KillCancel(j) PROVE TypeOK'
  BY <1>21 DEF KillCancel
<1>22. ASSUME NEW j \in Jobs, KillReset(j) PROVE TypeOK'
  BY <1>22 DEF KillReset
<1>23. ASSUME NEW t \in Threads, StrayCancelled(t) PROVE TypeOK'
  BY <1>23 DEF StrayCancelled
<1>24. ASSUME NEW j \in Jobs, KillRead(j) PROVE TypeOK'
  <2>1. thread[kill[j]] \in Threads
    <3>1. kill[j] \in Batches /\ Kills
      BY <1>24 DEF KillRead
    <3> QED BY ONLY <3>1, j \in Jobs DEF Kills, Aims, Hit
  <2> QED BY <2>1, <1>24 DEF KillRead
<1> QED
  BY <1>1, <1>2, <1>3, <1>4, <1>5, <1>6, <1>7, <1>8, <1>9, <1>10, <1>11, <1>12, <1>13,
     <1>14, <1>15, <1>16, <1>17, <1>18, <1>19, <1>20, <1>21, <1>22,
     <1>23, <1>24
     DEF Next, Working, Killing

(* At first there are no calls and no threads. *)
LEMMA InitBInv == Init => BInv
<1> SUFFICES ASSUME Init PROVE BInv
  OBVIOUS
<1> USE NullAssumption DEF Init
<1>1. TypeOK
  <2>1. running \in 0..(IF Shared THEN Limit ELSE 1)
    BY LimitAssumption
  <2>2. queue \in Seq(Jobs)
    OBVIOUS
  <2> QED BY <2>1, <2>2 DEF TypeOK, Words, Labels
<1>2. Stages /\ ReapedOnce
  BY DEF Stages, ReapedOnce, Cancellable, WithJob, Exiting
<1>3. Held /\ Memory /\ WordNamesLiveCall
  BY AddressAssumption, KillableAssumption DEF Held, Memory, WordNamesLiveCall
<1>4. Kills
  BY KillableAssumption, AddressAssumption DEF Kills, Aims, Hit
<1>5. Counts
  <2>1. calling = {} /\ Active = {} /\ Resuming = {} /\ pending = 0 /\ running = 0
    BY DEF Active, Resuming
  <2> QED BY ONLY <2>1, FS_EmptySet DEF Counts, PendingCounts
<1> QED
  BY <1>1, <1>2, <1>3, <1>4, <1>5 DEF BInv

(* BInv is an invariant of the pool. *)
THEOREM PoolInvariance == Spec => []BInv
<1>1. BInv /\ [Next]_vars => BInv'
  BY TypeOKStep, StagesStep, HeldStep, MemoryStep, KillsStep, WordNamesLiveCallStep, ReapedOnceStep,
     CountsStep DEF BInv
<1> QED
  BY InitBInv, <1>1, PTL DEF Spec

(* A process in a call is in one place: bsyscall_dispatch, bsc_thread and   *)
(* the clean-up handlers never reschedule it twice, and lose it only where  *)
(* a killer has cancelled a clone that did not execute the call it killed.  *)
THEOREM CallInOnePlace == Spec => []CallHeldOnce
<1>1. ASSUME BInv PROVE CallHeldOnce
  <2>1. ASSUME NEW j \in calling
        PROVE  LET places == Cardinality({k \in 1..Len(queue) : queue[k] = j})
                               + Cardinality(Holders(j))
               IN  places <= 1 /\ (~astray => places = 1)
    <3> DEFINE places == {k \in 1..Len(queue) : queue[k] = j}
    <3> SUFFICES /\ Cardinality(places) + Cardinality(Holders(j)) <= 1
                 /\ ~astray => Cardinality(places) + Cardinality(Holders(j)) = 1
      OBVIOUS
    <3>0. \A n : Cardinality({n}) = 1 /\ Cardinality({}) = 0
      BY FS_EmptySet, FS_Singleton
    <3>1. CASE Queued(j)
      <4>1. PICK n \in 1..Len(queue) : queue[n] = j
        BY <3>1 DEF Queued
      <4>2. places = {n} /\ Holders(j) = {}
        BY <1>1, <4>1 DEF BInv, Held, Holders
      <4> HIDE DEF places, Holders
      <4>3. Cardinality(places) = 1 /\ Cardinality(Holders(j)) = 0
        BY ONLY <4>2, <3>0
      <4> QED BY ONLY <4>3
    <3>2. ASSUME NEW t \in Threads, job[t] = j
          PROVE  Cardinality(places) + Cardinality(Holders(j)) = 1
      <4>1. j # NULL
        BY <1>1, NullAssumption DEF BInv, TypeOK
      <4>2. places = {} /\ Holders(j) = {t}
        BY <1>1, <3>2, <4>1 DEF BInv, Held, Holders
      <4> HIDE DEF places, Holders
      <4>3. Cardinality(places) = 0 /\ Cardinality(Holders(j)) = 1
        BY ONLY <4>2, <3>0
      <4> QED BY ONLY <4>3
    <3>3. CASE ~Queued(j) /\ \A t \in Threads : job[t] # j
      <4>1. places = {} /\ Holders(j) = {}
        BY <3>3 DEF Queued, Holders
      <4>2. astray
        BY <1>1, <3>3 DEF BInv, Held
      <4> HIDE DEF places, Holders
      <4> QED BY ONLY <4>1, <4>2, <3>0
    <3> QED BY <3>1, <3>2, <3>3
  <2>2. \A j \in Jobs \ calling : ~Queued(j) /\ Holders(j) = {}
    BY <1>1, NullAssumption DEF BInv, Held, Holders, Queued
  <2> QED BY ONLY <2>1, <2>2 DEF CallHeldOnce
<1> QED
  BY <1>1, PoolInvariance, PTL

(* pending, which the test for deadlock reads, never falls below the number *)
(* of the calls that bsc_cleanup_job has yet to count off.  It exceeds it   *)
(* only where a killer has gone astray.                                     *)
THEOREM PendingIsExact == Spec => []PendingCounts
BY PoolInvariance, PTL DEF BInv, Counts

(* The swap of C.killcall never yields the job of a call that is over, and  *)
(* bsyscall_kill has the memory and then the clone of the call it has       *)
(* killed, unless that ends before it comes to pthread_cancel.              *)
THEOREM KillsAreAimed == Spec => []KillNamesLiveCall
<1>1. BInv => KillNamesLiveCall
  <2> SUFFICES ASSUME BInv, NEW j \in calling
               PROVE  /\ kill[j] \in Batches => kill[j] = mem[j]
                      /\ kill[j] \in Threads => job[kill[j]] = j
    BY DEF BInv, KillNamesLiveCall
  <2>1. j \in Jobs /\ Aims(j)
    BY DEF BInv, TypeOK, Kills
  <2> QED
    BY ONLY <2>1, j \in calling DEF Aims
<1> QED
  BY <1>1, PoolInvariance, PTL

(* bsc_cleanup_pool joins every thread that exits once, and never itself. *)
THEOREM ReapsOnce == Spec => []ReapedOnce
BY PoolInvariance, PTL DEF BInv
=============================================================================
