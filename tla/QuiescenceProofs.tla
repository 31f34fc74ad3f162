---------------------------- MODULE QuiescenceProofs ----------------------------
(***************************************************************************)
(* Proofs about Quiescence: for any number of threads and any finite set   *)
(* of processes, a report of deadlock that has not been overtaken (raced)  *)
(* by a call, a timer, mail or a thread taking work while its bit in       *)
(* sleeping_threads is set is right.                                       *)
(*                                                                         *)
(* The inductive invariant is QInv.  Rest says what a thread that is about *)
(* to pause has left undone; Reading carries it over the time between the  *)
(* reads of idle_threads and of sleeping_threads: work that is left was on *)
(* threads that had been woken, may have moved to others that are awake,   *)
(* and none of them can sleep again with it.                               *)
(***************************************************************************)
EXTENDS Quiescence, FiniteSetTheorems, TLAPS

(* The places of different kinds, or of different threads, differ. *)
LEMMA PlacesDiffer ==
  \A t, u \in Threads :
    /\ Queue(t) # Mail(u) /\ Queue(t) # Timer(u) /\ Mail(t) # Timer(u)
    /\ Queue(t) # InCall /\ Mail(t) # InCall /\ Timer(t) # InCall
    /\ Queue(t) # Blocked /\ Mail(t) # Blocked /\ Timer(t) # Blocked
    /\ t # u => Queue(t) # Queue(u) /\ Mail(t) # Mail(u) /\ Timer(t) # Timer(u)
    /\ Queue(t) \in Places /\ Mail(t) \in Places /\ Timer(t) \in Places
  BY DEF Queue, Mail, Timer, InCall, Blocked, Places

(* When processes are put somewhere, no other place gains any. *)
LEMMA PutMoves ==
  ASSUME TypeOK, NEW ps \in SUBSET Procs, NEW where, Put(ps, where)
  PROVE  /\ \A w : w # where => On(w)' = On(w) \ ps
         /\ On(where)' = On(where) \cup ps
  BY DEF TypeOK, Put, On

(* The same when nothing is put. *)
LEMMA NothingMoves ==
  ASSUME UNCHANGED place PROVE \A w : On(w)' = On(w)
  BY DEF On

(* The calls that are pending are finitely many. *)
LEMMA CallsFinite ==
  /\ IsFiniteSet(Calls) /\ Cardinality(Calls) \in Nat
  /\ Cardinality(Calls) <= Cardinality(Procs) /\ Cardinality(Procs) \in Nat
<1>1. Calls \subseteq Procs
  BY DEF Calls
<1> QED
  BY <1>1, ProcsAssumption, FS_Subset, FS_CardinalityType

(* The same in the state after a step. *)
LEMMA CallsFiniteNext ==
  Cardinality(Calls') \in Nat /\ Cardinality(Calls') <= Cardinality(Procs)
<1>1. Calls' \subseteq Procs
  BY DEF Calls
<1> QED
  BY <1>1, ProcsAssumption, FS_Subset, FS_CardinalityType

(* Threads and clones stay where their kind can be, and idle_threads tells. *)
LEMMA PositionsStep == QInv /\ [Next]_vars => Positions'
<1> SUFFICES ASSUME QInv, [Next]_vars PROVE Positions'
  OBVIOUS
<1> USE NullAssumption, RoleAssumption, FirstAssumption
    DEF QInv, TypeOK, Notifying, Idling, Positions, Queue, Mail, Timer, InCall,
        Blocked, Step, Put, waking, words, global, Actors
<1>1. CASE UNCHANGED vars
  BY <1>1 DEF vars
<1>2. ASSUME NEW t \in Threads, NEW p \in Procs, Ready(t, p) PROVE Positions'
  BY <1>2 DEF Ready
<1>3. ASSUME NEW t \in Threads, NEW p \in Procs, ReadyFar(t, p) PROVE Positions'
  BY <1>3 DEF ReadyFar, Send
<1>4. ASSUME NEW t \in Threads, NEW p \in Procs, SetAff(t, p) PROVE Positions'
  BY <1>4 DEF SetAff, Send
<1>5. ASSUME NEW t \in Threads, NEW p \in Procs, Block(t, p) PROVE Positions'
  BY <1>5 DEF Block
<1>6. ASSUME NEW t \in Threads, NEW p \in Procs, Delay(t, p) PROVE Positions'
  BY <1>6 DEF Delay
<1>7. ASSUME NEW t \in Threads, NEW p \in Procs, Call(t, p) PROVE Positions'
  BY <1>7 DEF Call
<1>8. ASSUME NEW t \in Threads, NEW p \in Procs, Shutdown(t, p) PROVE Positions'
  BY <1>8 DEF Shutdown
<1>9. ASSUME NEW t \in Threads, TakeSync(t) PROVE Positions'
  <2>1. \A q \in Procs : place'[q] = InCall <=> place[q] = InCall
    BY <1>9 DEF TakeSync, On
  <2>2. /\ pc' = [pc EXCEPT ![t] = "pick"] /\ pc[t] = "sched"
        /\ to' = to /\ back' = back /\ idle' = idle
    BY <1>9 DEF TakeSync
  <2> QED
    BY <2>1, <2>2
<1>10. ASSUME NEW t \in Threads, Pick(t) PROVE Positions'
  <2>1. \A q \in Procs : place'[q] = InCall <=> place[q] = InCall
    BY <1>10 DEF Pick, On
  <2>2. /\ \A a \in Actors : a # t => pc'[a] = pc[a] /\ to'[a] = to[a] /\ back'[a] = back[a]
        /\ pc[t] = "pick" /\ idle' = idle
        /\ \/ pc'[t] \in {"run", "active"}
           \/ pc'[t] = "wake" /\ to'[t] \in Threads /\ back'[t] = "run"
    BY <1>10 DEF Pick
  <2> QED
    BY ONLY <2>1, <2>2, t \in Threads, Positions, NullAssumption
    DEF Positions, Notifying, Idling, Actors
<1>11. ASSUME NEW t \in Threads, Sleep(t) PROVE Positions'
  BY <1>11 DEF Sleep
<1>12. ASSUME NEW t \in Threads, Check(t) PROVE Positions'
  BY <1>12 DEF Check
<1>13. ASSUME NEW t \in Threads, Unsleep(t) PROVE Positions'
  BY <1>13 DEF Unsleep
<1>14. ASSUME NEW t \in Threads, SetIdle(t) PROVE Positions'
  BY <1>14 DEF SetIdle
<1>15. ASSUME NEW t \in Threads, ReadPending(t) PROVE Positions'
  BY <1>15 DEF ReadPending
<1>16. ASSUME NEW t \in Threads, ReadIdle(t) PROVE Positions'
  BY <1>16 DEF ReadIdle
<1>17. ASSUME NEW t \in Threads, ReadSleeping(t) PROVE Positions'
  BY <1>17 DEF ReadSleeping
<1>18. ASSUME NEW t \in Threads, Pause(t) PROVE Positions'
  BY <1>18 DEF Pause
<1>19. ASSUME NEW t \in Threads, Unidle(t) PROVE Positions'
  BY <1>19 DEF Unidle
<1>20. ASSUME NEW t \in Threads, TimedPause(t) PROVE Positions'
  <2>1. \A q \in Procs : place'[q] = InCall <=> place[q] = InCall
    BY <1>20 DEF TimedPause, On
  <2>2. /\ pc' = [pc EXCEPT ![t] = "sched"] /\ pc[t] = "timedPause"
        /\ to' = to /\ back' = back /\ idle' = idle
    BY <1>20 DEF TimedPause
  <2> QED
    BY <2>1, <2>2
<1>21. ASSUME NEW a \in Actors, Look(a) PROVE Positions'
  BY <1>21 DEF Look, Sent
<1>22. ASSUME NEW a \in Actors, Wake(a) PROVE Positions'
  BY <1>22 DEF Wake
<1>23. ASSUME NEW a \in Actors, WakeSync(a) PROVE Positions'
  BY <1>23 DEF WakeSync, Sent
<1>24. ASSUME NEW p \in Procs, CallDone(p) PROVE Positions'
  BY <1>24 DEF CallDone, Send
<1>25. ASSUME NEW p \in Procs, Dec(p) PROVE Positions'
  BY <1>25 DEF Dec
<1>26. ASSUME NEW p \in Procs, Last(p) PROVE Positions'
  BY <1>26 DEF Last
<1>27. ASSUME NEW t \in Threads, NEW p \in Procs, Requeue(t, p) PROVE Positions'
  BY <1>27 DEF Requeue
<1>28. ASSUME NEW t \in Threads, ReadActive(t) PROVE Positions'
  BY <1>28 DEF ReadActive
<1>29. ASSUME NEW t \in Threads, Migrate(t) PROVE Positions'
  <2>1. \A q \in Procs : place'[q] = InCall <=> place[q] = InCall
    BY <1>29 DEF Migrate, Advertised, On
  <2>2. /\ pc' = [pc EXCEPT ![t] = "run"] /\ pc[t] = "migrate"
        /\ to' = to /\ back' = back /\ idle' = idle
    BY <1>29 DEF Migrate
  <2> QED
    BY <2>1, <2>2
<1>30. ASSUME NEW t \in Threads, NoWork(t) PROVE Positions'
  BY <1>30 DEF NoWork
<1> QED
  BY <1>1, <1>2, <1>3, <1>4, <1>5, <1>6, <1>7, <1>8, <1>9, <1>10, <1>11, <1>12, <1>13,
     <1>14, <1>15, <1>16, <1>17, <1>18, <1>19, <1>20, <1>21, <1>22, <1>23, <1>24,
     <1>25, <1>26, <1>27, <1>28, <1>29, <1>30
     DEF Next, Process, Scheduler, Waking, Clone

(* bsyscalls_pending counts the calls that are not counted off. *)
LEMMA PendingIsCallsStep == QInv /\ [Next]_vars => PendingIsCalls'
<1> SUFFICES ASSUME QInv, [Next]_vars PROVE PendingIsCalls'
  OBVIOUS
<1> USE NullAssumption, RoleAssumption, FirstAssumption
    DEF QInv, TypeOK, Notifying, Idling, Positions, Step, Put, waking, words, global,
        Actors
<1>1. CASE UNCHANGED vars
  BY <1>1 DEF vars, PendingIsCalls, Calls, Counted
<1>2. ASSUME NEW t \in Threads, NEW p \in Procs, Ready(t, p) PROVE PendingIsCalls'
  <2>1. \A q \in Procs : q \in Calls' <=> q \in Calls
    BY <1>2 DEF Ready, Calls, Counted
  <2>2. Calls' = Calls /\ pending' = pending
    BY <1>2, <2>1 DEF Ready, Calls
  <2> QED
    BY ONLY <2>2, PendingIsCalls DEF PendingIsCalls
<1>3. ASSUME NEW t \in Threads, NEW p \in Procs, ReadyFar(t, p) PROVE PendingIsCalls'
  <2>1. \A q \in Procs : q \in Calls' <=> q \in Calls
    BY <1>3 DEF ReadyFar, Send, Calls, Counted
  <2>2. Calls' = Calls /\ pending' = pending
    BY <1>3, <2>1 DEF ReadyFar, Send, Calls
  <2> QED
    BY ONLY <2>2, PendingIsCalls DEF PendingIsCalls
<1>4. ASSUME NEW t \in Threads, NEW p \in Procs, SetAff(t, p) PROVE PendingIsCalls'
  <2>1. \A q \in Procs : q \in Calls' <=> q \in Calls
    BY <1>4 DEF SetAff, Send, Calls, Counted
  <2>2. Calls' = Calls /\ pending' = pending
    BY <1>4, <2>1 DEF SetAff, Send, Calls
  <2> QED
    BY ONLY <2>2, PendingIsCalls DEF PendingIsCalls
<1>5. ASSUME NEW t \in Threads, NEW p \in Procs, Block(t, p) PROVE PendingIsCalls'
  <2>1. \A q \in Procs : q \in Calls' <=> q \in Calls
    BY <1>5 DEF Block, Calls, Counted
  <2>2. Calls' = Calls /\ pending' = pending
    BY <1>5, <2>1 DEF Block, Calls
  <2> QED
    BY ONLY <2>2, PendingIsCalls DEF PendingIsCalls
<1>6. ASSUME NEW t \in Threads, NEW p \in Procs, Delay(t, p) PROVE PendingIsCalls'
  <2>1. \A q \in Procs : q \in Calls' <=> q \in Calls
    BY <1>6 DEF Delay, Calls, Counted
  <2>2. Calls' = Calls /\ pending' = pending
    BY <1>6, <2>1 DEF Delay, Calls
  <2> QED
    BY ONLY <2>2, PendingIsCalls DEF PendingIsCalls
<1>7. ASSUME NEW t \in Threads, NEW p \in Procs, Call(t, p) PROVE PendingIsCalls'
  <2>1. pc[p] = "none" /\ p \notin Calls
    BY <1>7 DEF Call, Calls, Counted
  <2>2. \A q \in Procs : q \in Calls' <=> q \in Calls \/ q = p
    BY <1>7 DEF Call, Calls, Counted
  <2>3. Calls' = Calls \cup {p}
    BY ONLY <2>2, p \in Procs DEF Calls
  <2>4. Cardinality(Calls') = Cardinality(Calls) + 1
    BY ONLY <2>1, <2>3, CallsFinite, FS_AddElement
  <2>5. pending' = pending + 1
    BY <1>7 DEF Call
  <2> QED
    BY ONLY <2>4, <2>5, PendingIsCalls DEF PendingIsCalls
<1>8. ASSUME NEW t \in Threads, NEW p \in Procs, Shutdown(t, p) PROVE PendingIsCalls'
  <2>1. \A q \in Procs : q \in Calls' <=> q \in Calls
    BY <1>8 DEF Shutdown, Calls, Counted
  <2>2. Calls' = Calls /\ pending' = pending
    BY <1>8, <2>1 DEF Shutdown, Calls
  <2> QED
    BY ONLY <2>2, PendingIsCalls DEF PendingIsCalls
<1>9. ASSUME NEW t \in Threads, TakeSync(t) PROVE PendingIsCalls'
  <2>1. \A q \in Procs : q \in Calls' <=> q \in Calls
    BY <1>9 DEF TakeSync, Calls, Counted
  <2>2. Calls' = Calls /\ pending' = pending
    BY <1>9, <2>1 DEF TakeSync, Calls
  <2> QED
    BY ONLY <2>2, PendingIsCalls DEF PendingIsCalls
<1>10. ASSUME NEW t \in Threads, Pick(t) PROVE PendingIsCalls'
  <2>1. \A q \in Procs : q \in Calls' <=> q \in Calls
    BY <1>10 DEF Pick, Calls, Counted
  <2>2. Calls' = Calls /\ pending' = pending
    BY <1>10, <2>1 DEF Pick, Calls
  <2> QED
    BY ONLY <2>2, PendingIsCalls DEF PendingIsCalls
<1>11. ASSUME NEW t \in Threads, Sleep(t) PROVE PendingIsCalls'
  <2>1. \A q \in Procs : q \in Calls' <=> q \in Calls
    BY <1>11 DEF Sleep, Calls, Counted
  <2>2. Calls' = Calls /\ pending' = pending
    BY <1>11, <2>1 DEF Sleep, Calls
  <2> QED
    BY ONLY <2>2, PendingIsCalls DEF PendingIsCalls
<1>12. ASSUME NEW t \in Threads, Check(t) PROVE PendingIsCalls'
  <2>1. \A q \in Procs : q \in Calls' <=> q \in Calls
    BY <1>12 DEF Check, Calls, Counted
  <2>2. Calls' = Calls /\ pending' = pending
    BY <1>12, <2>1 DEF Check, Calls
  <2> QED
    BY ONLY <2>2, PendingIsCalls DEF PendingIsCalls
<1>13. ASSUME NEW t \in Threads, Unsleep(t) PROVE PendingIsCalls'
  <2>1. \A q \in Procs : q \in Calls' <=> q \in Calls
    BY <1>13 DEF Unsleep, Calls, Counted
  <2>2. Calls' = Calls /\ pending' = pending
    BY <1>13, <2>1 DEF Unsleep, Calls
  <2> QED
    BY ONLY <2>2, PendingIsCalls DEF PendingIsCalls
<1>14. ASSUME NEW t \in Threads, SetIdle(t) PROVE PendingIsCalls'
  <2>1. \A q \in Procs : q \in Calls' <=> q \in Calls
    BY <1>14 DEF SetIdle, Calls, Counted
  <2>2. Calls' = Calls /\ pending' = pending
    BY <1>14, <2>1 DEF SetIdle, Calls
  <2> QED
    BY ONLY <2>2, PendingIsCalls DEF PendingIsCalls
<1>15. ASSUME NEW t \in Threads, ReadPending(t) PROVE PendingIsCalls'
  <2>1. \A q \in Procs : q \in Calls' <=> q \in Calls
    BY <1>15 DEF ReadPending, Calls, Counted
  <2>2. Calls' = Calls /\ pending' = pending
    BY <1>15, <2>1 DEF ReadPending, Calls
  <2> QED
    BY ONLY <2>2, PendingIsCalls DEF PendingIsCalls
<1>16. ASSUME NEW t \in Threads, ReadIdle(t) PROVE PendingIsCalls'
  <2>1. \A q \in Procs : q \in Calls' <=> q \in Calls
    BY <1>16 DEF ReadIdle, Calls, Counted
  <2>2. Calls' = Calls /\ pending' = pending
    BY <1>16, <2>1 DEF ReadIdle, Calls
  <2> QED
    BY ONLY <2>2, PendingIsCalls DEF PendingIsCalls
<1>17. ASSUME NEW t \in Threads, ReadSleeping(t) PROVE PendingIsCalls'
  <2>1. \A q \in Procs : q \in Calls' <=> q \in Calls
    BY <1>17 DEF ReadSleeping, Calls, Counted
  <2>2. Calls' = Calls /\ pending' = pending
    BY <1>17, <2>1 DEF ReadSleeping, Calls
  <2> QED
    BY ONLY <2>2, PendingIsCalls DEF PendingIsCalls
<1>18. ASSUME NEW t \in Threads, Pause(t) PROVE PendingIsCalls'
  <2>1. \A q \in Procs : q \in Calls' <=> q \in Calls
    BY <1>18 DEF Pause, Calls, Counted
  <2>2. Calls' = Calls /\ pending' = pending
    BY <1>18, <2>1 DEF Pause, Calls
  <2> QED
    BY ONLY <2>2, PendingIsCalls DEF PendingIsCalls
<1>19. ASSUME NEW t \in Threads, Unidle(t) PROVE PendingIsCalls'
  <2>1. \A q \in Procs : q \in Calls' <=> q \in Calls
    BY <1>19 DEF Unidle, Calls, Counted
  <2>2. Calls' = Calls /\ pending' = pending
    BY <1>19, <2>1 DEF Unidle, Calls
  <2> QED
    BY ONLY <2>2, PendingIsCalls DEF PendingIsCalls
<1>20. ASSUME NEW t \in Threads, TimedPause(t) PROVE PendingIsCalls'
  <2>1. \A q \in Procs : q \in Calls' <=> q \in Calls
    BY <1>20 DEF TimedPause, Calls, Counted
  <2>2. Calls' = Calls /\ pending' = pending
    BY <1>20, <2>1 DEF TimedPause, Calls
  <2> QED
    BY ONLY <2>2, PendingIsCalls DEF PendingIsCalls
<1>21. ASSUME NEW a \in Actors, Look(a) PROVE PendingIsCalls'
  <2>1. \A q \in Procs : q \in Calls' <=> q \in Calls
    BY <1>21 DEF Look, Sent, Calls, Counted
  <2>2. Calls' = Calls /\ pending' = pending
    BY <1>21, <2>1 DEF Look, Calls
  <2> QED
    BY ONLY <2>2, PendingIsCalls DEF PendingIsCalls
<1>22. ASSUME NEW a \in Actors, Wake(a) PROVE PendingIsCalls'
  <2>1. \A q \in Procs : q \in Calls' <=> q \in Calls
    BY <1>22 DEF Wake, Calls, Counted
  <2>2. Calls' = Calls /\ pending' = pending
    BY <1>22, <2>1 DEF Wake, Calls
  <2> QED
    BY ONLY <2>2, PendingIsCalls DEF PendingIsCalls
<1>23. ASSUME NEW a \in Actors, WakeSync(a) PROVE PendingIsCalls'
  <2>1. \A q \in Procs : q \in Calls' <=> q \in Calls
    BY <1>23 DEF WakeSync, Sent, Calls, Counted
  <2>2. Calls' = Calls /\ pending' = pending
    BY <1>23, <2>1 DEF WakeSync, Calls
  <2> QED
    BY ONLY <2>2, PendingIsCalls DEF PendingIsCalls
<1>24. ASSUME NEW p \in Procs, CallDone(p) PROVE PendingIsCalls'
  <2>1. \A q \in Procs : q \in Calls' <=> q \in Calls
    BY <1>24 DEF CallDone, Send, Calls, Counted
  <2>2. Calls' = Calls /\ pending' = pending
    BY <1>24, <2>1 DEF CallDone, Send, Calls
  <2> QED
    BY ONLY <2>2, PendingIsCalls DEF PendingIsCalls
<1>25. ASSUME NEW p \in Procs, Dec(p) PROVE PendingIsCalls'
  <2>1. p \in Calls
    BY <1>25 DEF Dec, Calls, Counted
  <2>2. \A q \in Procs : q \in Calls' <=> q \in Calls /\ q # p
    BY <1>25 DEF Dec, Calls, Counted
  <2>3. Calls' = Calls \ {p}
    BY ONLY <2>2 DEF Calls
  <2>4. Cardinality(Calls') = Cardinality(Calls) - 1
    BY ONLY <2>1, <2>3, CallsFinite, FS_RemoveElement
  <2>5. pending' = pending - 1
    BY <1>25 DEF Dec
  <2> QED
    BY ONLY <2>4, <2>5, PendingIsCalls DEF PendingIsCalls
<1>26. ASSUME NEW p \in Procs, Last(p) PROVE PendingIsCalls'
  <2>1. \A q \in Procs : q \in Calls' <=> q \in Calls
    BY <1>26 DEF Last, Calls, Counted
  <2>2. Calls' = Calls /\ pending' = pending
    BY <1>26, <2>1 DEF Last, Calls
  <2> QED
    BY ONLY <2>2, PendingIsCalls DEF PendingIsCalls
<1>27. ASSUME NEW t \in Threads, NEW p \in Procs, Requeue(t, p) PROVE PendingIsCalls'
  <2>1. \A q \in Procs : q \in Calls' <=> q \in Calls
    BY <1>27 DEF Requeue, Calls, Counted
  <2>2. Calls' = Calls /\ pending' = pending
    BY <1>27, <2>1 DEF Requeue, Calls
  <2> QED
    BY ONLY <2>2, PendingIsCalls DEF PendingIsCalls
<1>28. ASSUME NEW t \in Threads, ReadActive(t) PROVE PendingIsCalls'
  <2>1. \A q \in Procs : q \in Calls' <=> q \in Calls
    BY <1>28 DEF ReadActive, Calls, Counted
  <2>2. Calls' = Calls /\ pending' = pending
    BY <1>28, <2>1 DEF ReadActive, Calls
  <2> QED
    BY ONLY <2>2, PendingIsCalls DEF PendingIsCalls
<1>29. ASSUME NEW t \in Threads, Migrate(t) PROVE PendingIsCalls'
  <2>1. \A q \in Procs : q \in Calls' <=> q \in Calls
    BY <1>29 DEF Migrate, Calls, Counted
  <2>2. Calls' = Calls /\ pending' = pending
    BY <1>29, <2>1 DEF Migrate, Calls
  <2> QED
    BY ONLY <2>2, PendingIsCalls DEF PendingIsCalls
<1>30. ASSUME NEW t \in Threads, NoWork(t) PROVE PendingIsCalls'
  <2>1. \A q \in Procs : q \in Calls' <=> q \in Calls
    BY <1>30 DEF NoWork, Calls, Counted
  <2>2. Calls' = Calls /\ pending' = pending
    BY <1>30, <2>1 DEF NoWork, Calls
  <2> QED
    BY ONLY <2>2, PendingIsCalls DEF PendingIsCalls
<1> QED
  BY <1>1, <1>2, <1>3, <1>4, <1>5, <1>6, <1>7, <1>8, <1>9, <1>10, <1>11, <1>12, <1>13,
     <1>14, <1>15, <1>16, <1>17, <1>18, <1>19, <1>20, <1>21, <1>22, <1>23, <1>24,
     <1>25, <1>26, <1>27, <1>28, <1>29, <1>30
     DEF Next, Process, Scheduler, Waking, Clone

(* A thread that says it is idle has no work, or is being woken. *)
LEMMA RestStep == QInv /\ [Next]_vars => Rest'
<1> SUFFICES ASSUME QInv, [Next]_vars PROVE Rest'
  OBVIOUS
<1> USE NullAssumption, RoleAssumption, FirstAssumption
    DEF QInv, TypeOK, Notifying, Idling, Positions, Rest, Resting, Workless, On, Calls, Counted,
        Queue, Mail, Timer, InCall, Blocked, Step, Put, waking, words, global, Actors
<1>1. CASE UNCHANGED vars
  BY <1>1 DEF vars
<1>2. ASSUME NEW t \in Threads, NEW p \in Procs, Ready(t, p) PROVE Rest'
  <2>1. Put({p}, Queue(t))
    BY <1>2 DEF Ready
  <2>2. /\ \A w : w # Queue(t) => On(w)' = On(w) \ {p}
        /\ On(Queue(t))' = On(Queue(t)) \cup {p}
    BY ONLY <2>1, PutMoves, TypeOK, p \in Procs
  <2>3. Calls' = Calls
    BY <1>2 DEF Ready
  <2>4. /\ \A a \in Actors : a # t => pc'[a] = pc[a]
        /\ pc'[t] = "run" /\ pc[t] = "run" /\ Calls \subseteq Procs
    BY <1>2 DEF Ready
  <2>5. to' = to /\ sleeping' = sleeping /\ sync' = sync
    BY <1>2 DEF Ready
  <2> QED
    BY ONLY <2>2, <2>3, <2>4, <2>5, PlacesDiffer, Rest, t \in Threads, NullAssumption
    DEF Rest, Resting, Workless, Idling, Actors
<1>3. ASSUME NEW t \in Threads, NEW p \in Procs, ReadyFar(t, p) PROVE Rest'
  <2>1. PICK v \in Threads : /\ Put({p}, Mail(v)) /\ sync' = sync \cup {v}
                             /\ to' = [to EXCEPT ![t] = v]
    BY <1>3 DEF ReadyFar, Send
  <2>2. /\ \A w : w # Mail(v) => On(w)' = On(w) \ {p}
        /\ On(Mail(v))' = On(Mail(v)) \cup {p}
    BY ONLY <2>1, PutMoves, TypeOK, p \in Procs
  <2>3. Calls' = Calls /\ Calls \subseteq Procs
    BY <1>3 DEF ReadyFar, Send
  <2>4. /\ \A b \in Actors : b # t => pc'[b] = pc[b] /\ to'[b] = to[b]
        /\ pc'[t] = "look" /\ to'[t] = v /\ pc[t] = "run"
    BY <1>3, <2>1 DEF ReadyFar, Send
  <2>5. sleeping' = sleeping
    BY <1>3 DEF ReadyFar, Send
  <2>6. t \in Actors /\ Calls' \subseteq Actors /\ Threads \subseteq Actors
    BY ONLY <2>3, t \in Threads DEF Actors
  <2>7. \A u \in Threads : u # t => pc'[u] = pc[u]
    BY ONLY <2>4, <2>6
  <2>8. ASSUME NEW u \in Threads
        PROVE  /\ pc'[u] \in Workless => On(Queue(u))' = {}
               /\ pc'[u] \in Resting => On(Timer(u))' = {}
               /\ On(Mail(u))' # {} => u \in sync'
    <3>1. On(Queue(u))' \subseteq On(Queue(u)) /\ On(Timer(u))' \subseteq On(Timer(u))
      BY ONLY <2>2, PlacesDiffer, u \in Threads, v \in Threads
    <3>2. u # v => On(Mail(u))' \subseteq On(Mail(u))
      BY ONLY <2>2, PlacesDiffer, u \in Threads, v \in Threads
    <3> QED
      BY ONLY <2>1, <2>4, <2>7, <3>1, <3>2, Rest, u \in Threads DEF Rest, Resting, Workless, Idling
  <2>9. ASSUME NEW u \in Threads, pc'[u] \in Resting, On(Mail(u))' # {}, u \in sleeping'
        PROVE  \E a \in Threads \cup Calls' : to'[a] = u /\ pc'[a] \in {"look", "wake"}
    <3>1. CASE u = v
      BY ONLY <2>3, <2>4, <3>1, t \in Threads
    <3>2. CASE u # v
      <4>1. On(Mail(u)) # {} /\ u \in sleeping
        BY ONLY <2>2, <2>5, <2>9, <3>2, PlacesDiffer, v \in Threads
      <4>2. pc[u] \in Resting
        BY ONLY <2>4, <2>7, <2>9 DEF Resting, Idling
      <4>3. PICK b \in Threads \cup Calls : to[b] = u /\ pc[b] \in {"look", "wake"}
        BY ONLY <4>1, <4>2, Rest, u \in Threads DEF Rest
      <4>4. b \in Actors /\ b # t
        BY ONLY <2>3, <2>4, <2>6, <4>3
      <4> QED
        BY ONLY <2>3, <2>4, <4>3, <4>4
    <3> QED
      BY ONLY <3>1, <3>2
  <2> QED
    BY ONLY <2>8, <2>9 DEF Rest
<1>4. ASSUME NEW t \in Threads, NEW p \in Procs, SetAff(t, p) PROVE Rest'
  <2>1. PICK v \in Threads : /\ Put({p}, Mail(v)) /\ sync' = sync \cup {v}
                             /\ to' = [to EXCEPT ![t] = v]
    BY <1>4 DEF SetAff, Send
  <2>2. /\ \A w : w # Mail(v) => On(w)' = On(w) \ {p}
        /\ On(Mail(v))' = On(Mail(v)) \cup {p}
    BY ONLY <2>1, PutMoves, TypeOK, p \in Procs
  <2>3. Calls' = Calls /\ Calls \subseteq Procs
    BY <1>4 DEF SetAff, Send
  <2>4. /\ \A b \in Actors : b # t => pc'[b] = pc[b] /\ to'[b] = to[b]
        /\ pc'[t] = "look" /\ to'[t] = v /\ pc[t] = "run"
    BY <1>4, <2>1 DEF SetAff, Send
  <2>5. sleeping' = sleeping
    BY <1>4 DEF SetAff, Send
  <2>6. t \in Actors /\ Calls' \subseteq Actors /\ Threads \subseteq Actors
    BY ONLY <2>3, t \in Threads DEF Actors
  <2>7. \A u \in Threads : u # t => pc'[u] = pc[u]
    BY ONLY <2>4, <2>6
  <2>8. ASSUME NEW u \in Threads
        PROVE  /\ pc'[u] \in Workless => On(Queue(u))' = {}
               /\ pc'[u] \in Resting => On(Timer(u))' = {}
               /\ On(Mail(u))' # {} => u \in sync'
    <3>1. On(Queue(u))' \subseteq On(Queue(u)) /\ On(Timer(u))' \subseteq On(Timer(u))
      BY ONLY <2>2, PlacesDiffer, u \in Threads, v \in Threads
    <3>2. u # v => On(Mail(u))' \subseteq On(Mail(u))
      BY ONLY <2>2, PlacesDiffer, u \in Threads, v \in Threads
    <3> QED
      BY ONLY <2>1, <2>4, <2>7, <3>1, <3>2, Rest, u \in Threads DEF Rest, Resting, Workless, Idling
  <2>9. ASSUME NEW u \in Threads, pc'[u] \in Resting, On(Mail(u))' # {}, u \in sleeping'
        PROVE  \E a \in Threads \cup Calls' : to'[a] = u /\ pc'[a] \in {"look", "wake"}
    <3>1. CASE u = v
      BY ONLY <2>3, <2>4, <3>1, t \in Threads
    <3>2. CASE u # v
      <4>1. On(Mail(u)) # {} /\ u \in sleeping
        BY ONLY <2>2, <2>5, <2>9, <3>2, PlacesDiffer, v \in Threads
      <4>2. pc[u] \in Resting
        BY ONLY <2>4, <2>7, <2>9 DEF Resting, Idling
      <4>3. PICK b \in Threads \cup Calls : to[b] = u /\ pc[b] \in {"look", "wake"}
        BY ONLY <4>1, <4>2, Rest, u \in Threads DEF Rest
      <4>4. b \in Actors /\ b # t
        BY ONLY <2>3, <2>4, <2>6, <4>3
      <4> QED
        BY ONLY <2>3, <2>4, <4>3, <4>4
    <3> QED
      BY ONLY <3>1, <3>2
  <2> QED
    BY ONLY <2>8, <2>9 DEF Rest
<1>5. ASSUME NEW t \in Threads, NEW p \in Procs, Block(t, p) PROVE Rest'
  <2>1. Put({p}, Blocked)
    BY <1>5 DEF Block
  <2>2. /\ \A w : w # Blocked => On(w)' = On(w) \ {p}
        /\ On(Blocked)' = On(Blocked) \cup {p}
    BY ONLY <2>1, PutMoves, TypeOK, p \in Procs
  <2>3. Calls' = Calls
    BY <1>5 DEF Block
  <2>4. /\ \A a \in Actors : a # t => pc'[a] = pc[a]
        /\ pc'[t] = "sched" /\ pc[t] = "run" /\ Calls \subseteq Procs
    BY <1>5 DEF Block
  <2>5. to' = to /\ sleeping' = sleeping /\ sync' = sync
    BY <1>5 DEF Block
  <2> QED
    BY ONLY <2>2, <2>3, <2>4, <2>5, PlacesDiffer, Rest, t \in Threads, NullAssumption
    DEF Rest, Resting, Workless, Idling, Actors
<1>6. ASSUME NEW t \in Threads, NEW p \in Procs, Delay(t, p) PROVE Rest'
  <2>1. Put({p}, Timer(t))
    BY <1>6 DEF Delay
  <2>2. /\ \A w : w # Timer(t) => On(w)' = On(w) \ {p}
        /\ On(Timer(t))' = On(Timer(t)) \cup {p}
    BY ONLY <2>1, PutMoves, TypeOK, p \in Procs
  <2>3. Calls' = Calls
    BY <1>6 DEF Delay
  <2>4. /\ \A a \in Actors : a # t => pc'[a] = pc[a]
        /\ pc'[t] = "sched" /\ pc[t] = "run" /\ Calls \subseteq Procs
    BY <1>6 DEF Delay
  <2>5. to' = to /\ sleeping' = sleeping /\ sync' = sync
    BY <1>6 DEF Delay
  <2> QED
    BY ONLY <2>2, <2>3, <2>4, <2>5, PlacesDiffer, Rest, t \in Threads, NullAssumption
    DEF Rest, Resting, Workless, Idling, Actors
<1>7. ASSUME NEW t \in Threads, NEW p \in Procs, Call(t, p) PROVE Rest'
  <2>1. Put({p}, InCall)
    BY <1>7 DEF Call
  <2>2. /\ \A w : w # InCall => On(w)' = On(w) \ {p}
        /\ On(InCall)' = On(InCall) \cup {p}
    BY ONLY <2>1, PutMoves, TypeOK, p \in Procs
  <2>3. Calls \subseteq Calls' /\ p \notin Calls
    BY <1>7 DEF Call
  <2>4. /\ \A a \in Actors : a # t /\ a # p => pc'[a] = pc[a]
        /\ pc'[t] = "sched" /\ pc[t] = "run" /\ Calls \subseteq Procs
        /\ pc[p] = "none" /\ p \notin Threads
    BY <1>7 DEF Call
  <2>5. to' = to /\ sleeping' = sleeping /\ sync' = sync
    BY <1>7 DEF Call
  <2> QED
    BY ONLY <2>2, <2>3, <2>4, <2>5, PlacesDiffer, Rest, t \in Threads, NullAssumption
    DEF Rest, Resting, Workless, Idling, Actors
<1>8. ASSUME NEW t \in Threads, NEW p \in Procs, Shutdown(t, p) PROVE Rest'
  <2>1. Put({p}, Blocked)
    BY <1>8 DEF Shutdown
  <2>2. /\ \A w : w # Blocked => On(w)' = On(w) \ {p}
        /\ On(Blocked)' = On(Blocked) \cup {p}
    BY ONLY <2>1, PutMoves, TypeOK, p \in Procs
  <2>3. Calls' = Calls
    BY <1>8 DEF Shutdown
  <2>4. /\ \A a \in Actors : a # t => pc'[a] = pc[a]
        /\ pc'[t] = "sched" /\ pc[t] = "run" /\ Calls \subseteq Procs
    BY <1>8 DEF Shutdown
  <2>5. to' = to /\ sleeping' = sleeping /\ sync' = sync
    BY <1>8 DEF Shutdown
  <2> QED
    BY ONLY <2>2, <2>3, <2>4, <2>5, PlacesDiffer, Rest, t \in Threads, NullAssumption
    DEF Rest, Resting, Workless, Idling, Actors
<1>9. ASSUME NEW t \in Threads, TakeSync(t) PROVE Rest'
  <2> DEFINE ps == IF t \in sync THEN On(Mail(t)) ELSE {}
  <2>1. Put(ps, Queue(t)) /\ ps \in SUBSET Procs
    BY <1>9 DEF TakeSync, On
  <2> HIDE DEF ps
  <2>2. /\ \A w : w # Queue(t) => On(w)' = On(w) \ ps
        /\ On(Queue(t))' = On(Queue(t)) \cup ps
    BY ONLY <2>1, PutMoves, TypeOK
  <2>3. Calls' = Calls
    BY <1>9 DEF TakeSync
  <2>4. /\ \A a \in Actors : a # t => pc'[a] = pc[a]
        /\ pc'[t] = "pick" /\ pc[t] = "sched" /\ Calls \subseteq Procs
    BY <1>9 DEF TakeSync
  <2>5. to' = to /\ sleeping' = sleeping /\ sync' = sync \ {t}
    BY <1>9 DEF TakeSync
  <2>6. On(Mail(t)) \subseteq ps
    BY ONLY Rest, t \in Threads DEF ps, Rest
  <2>7. On(Mail(t))' = {}
    BY ONLY <2>2, <2>6, PlacesDiffer, t \in Threads
  <2> QED
    BY ONLY <2>2, <2>3, <2>4, <2>5, <2>7, PlacesDiffer, Rest, t \in Threads, NullAssumption
    DEF Rest, Resting, Workless, Idling, Actors
<1>10. ASSUME NEW t \in Threads, Pick(t) PROVE Rest'
  <2>1. PICK due \in SUBSET On(Timer(t)) :
           /\ Put(due, Queue(t))
           /\ IF due \cup On(Queue(t)) = {}
              THEN Step(t, "pick", "active") /\ UNCHANGED waking
              ELSE \/ Step(t, "pick", "run") /\ UNCHANGED waking
                   \/ /\ Step(t, "pick", "wake")
                      /\ \E u \in sleeping : to' = [to EXCEPT ![t] = u]
                      /\ back' = [back EXCEPT ![t] = "run"]
    BY ONLY <1>10 DEF Pick
  <2>2. due \in SUBSET Procs
    BY ONLY <2>1 DEF On
  <2>3. /\ \A w : w # Queue(t) => On(w)' = On(w) \ due
        /\ On(Queue(t))' = On(Queue(t)) \cup due
    BY ONLY <2>1, <2>2, PutMoves, TypeOK
  <2>4. Calls' = Calls
    BY <1>10 DEF Pick
  <2>5. /\ \A b \in Actors : b # t => pc'[b] = pc[b] /\ to'[b] = to[b]
        /\ pc[t] = "pick"
        /\ pc'[t] \in {"run", "wake"} \/ (pc'[t] = "active" /\ due \cup On(Queue(t)) = {})
    BY <2>1
  <2>6. sleeping' = sleeping /\ sync' = sync
    BY <1>10 DEF Pick
  <2>7. t \in Actors /\ Calls \subseteq Actors /\ Threads \subseteq Actors
    BY ONLY t \in Threads DEF Actors, Calls
  <2>8. ASSUME NEW u \in Threads
        PROVE  /\ pc'[u] \in Workless => On(Queue(u))' = {}
               /\ pc'[u] \in Resting => On(Timer(u))' = {}
               /\ On(Mail(u))' # {} => u \in sync'
    <3>1. On(Timer(u))' \subseteq On(Timer(u)) /\ On(Mail(u))' \subseteq On(Mail(u))
      BY ONLY <2>3, PlacesDiffer, u \in Threads, t \in Threads
    <3>2. u # t => On(Queue(u))' \subseteq On(Queue(u))
      BY ONLY <2>3, PlacesDiffer, u \in Threads, t \in Threads
    <3>3. u # t => pc'[u] = pc[u]
      BY ONLY <2>5, <2>7
    <3> QED
      BY ONLY <2>3, <2>5, <2>6, <3>1, <3>2, <3>3, Rest, u \in Threads
      DEF Rest, Resting, Workless, Idling
  <2>9. ASSUME NEW u \in Threads, pc'[u] \in Resting, On(Mail(u))' # {}, u \in sleeping'
        PROVE  \E a \in Threads \cup Calls' : to'[a] = u /\ pc'[a] \in {"look", "wake"}
    <3>1. On(Mail(u)) # {} /\ u \in sleeping
      BY ONLY <2>3, <2>6, <2>9, PlacesDiffer, t \in Threads
    <3>2. pc[u] \in Resting
      BY ONLY <2>5, <2>7, <2>9 DEF Resting, Idling
    <3>3. PICK b \in Threads \cup Calls : to[b] = u /\ pc[b] \in {"look", "wake"}
      BY ONLY <3>1, <3>2, Rest, u \in Threads DEF Rest
    <3>4. b \in Actors /\ b # t
      BY ONLY <2>5, <2>7, <3>3
    <3> QED
      BY ONLY <2>4, <2>5, <3>3, <3>4
  <2> QED
    BY ONLY <2>8, <2>9 DEF Rest
<1>11. ASSUME NEW t \in Threads, Sleep(t) PROVE Rest'
  BY <1>11 DEF Sleep
<1>12. ASSUME NEW t \in Threads, Check(t) PROVE Rest'
  BY <1>12 DEF Check
<1>13. ASSUME NEW t \in Threads, Unsleep(t) PROVE Rest'
  BY <1>13 DEF Unsleep
<1>14. ASSUME NEW t \in Threads, SetIdle(t) PROVE Rest'
  BY <1>14 DEF SetIdle
<1>15. ASSUME NEW t \in Threads, ReadPending(t) PROVE Rest'
  BY <1>15 DEF ReadPending
<1>16. ASSUME NEW t \in Threads, ReadIdle(t) PROVE Rest'
  BY <1>16 DEF ReadIdle
<1>17. ASSUME NEW t \in Threads, ReadSleeping(t) PROVE Rest'
  BY <1>17 DEF ReadSleeping
<1>18. ASSUME NEW t \in Threads, Pause(t) PROVE Rest'
  BY <1>18 DEF Pause
<1>19. ASSUME NEW t \in Threads, Unidle(t) PROVE Rest'
  BY <1>19 DEF Unidle
<1>20. ASSUME NEW t \in Threads, TimedPause(t) PROVE Rest'
  BY <1>20 DEF TimedPause
<1>21. ASSUME NEW a \in Actors, Look(a) PROVE Rest'
  BY <1>21 DEF Look, Sent
<1>22. ASSUME NEW a \in Actors, Wake(a) PROVE Rest'
  BY <1>22 DEF Wake
<1>23. ASSUME NEW a \in Actors, WakeSync(a) PROVE Rest'
  BY <1>23 DEF WakeSync, Sent
<1>24. ASSUME NEW p \in Procs, CallDone(p) PROVE Rest'
  <2>1. PICK v \in Threads : /\ Put({p}, Mail(v)) /\ sync' = sync \cup {v}
                             /\ to' = [to EXCEPT ![p] = v]
    BY <1>24 DEF CallDone, Send
  <2>2. /\ \A w : w # Mail(v) => On(w)' = On(w) \ {p}
        /\ On(Mail(v))' = On(Mail(v)) \cup {p}
    BY ONLY <2>1, PutMoves, TypeOK, p \in Procs
  <2>3. Calls' = Calls /\ Calls \subseteq Procs /\ p \in Calls'
    BY <1>24 DEF CallDone, Send
  <2>4. /\ \A b \in Actors : b # p => pc'[b] = pc[b] /\ to'[b] = to[b]
        /\ pc'[p] = "look" /\ to'[p] = v /\ pc[p] = "call"
    BY <1>24, <2>1 DEF CallDone, Send
  <2>5. sleeping' = sleeping
    BY <1>24 DEF CallDone, Send
  <2>6. p \in Actors /\ Calls' \subseteq Actors /\ Threads \subseteq Actors
    BY ONLY <2>3, p \in Procs DEF Actors
  <2>7. \A u \in Threads : u # p => pc'[u] = pc[u]
    BY ONLY <2>4, <2>6
  <2>8. ASSUME NEW u \in Threads
        PROVE  /\ pc'[u] \in Workless => On(Queue(u))' = {}
               /\ pc'[u] \in Resting => On(Timer(u))' = {}
               /\ On(Mail(u))' # {} => u \in sync'
    <3>1. On(Queue(u))' \subseteq On(Queue(u)) /\ On(Timer(u))' \subseteq On(Timer(u))
      BY ONLY <2>2, PlacesDiffer, u \in Threads, v \in Threads
    <3>2. u # v => On(Mail(u))' \subseteq On(Mail(u))
      BY ONLY <2>2, PlacesDiffer, u \in Threads, v \in Threads
    <3> QED
      BY ONLY <2>1, <2>4, <2>7, <3>1, <3>2, Rest, u \in Threads DEF Rest, Resting, Workless, Idling
  <2>9. ASSUME NEW u \in Threads, pc'[u] \in Resting, On(Mail(u))' # {}, u \in sleeping'
        PROVE  \E a \in Threads \cup Calls' : to'[a] = u /\ pc'[a] \in {"look", "wake"}
    <3>1. CASE u = v
      BY ONLY <2>3, <2>4, <3>1, p \in Procs
    <3>2. CASE u # v
      <4>1. On(Mail(u)) # {} /\ u \in sleeping
        BY ONLY <2>2, <2>5, <2>9, <3>2, PlacesDiffer, v \in Threads
      <4>2. pc[u] \in Resting
        BY ONLY <2>4, <2>7, <2>9 DEF Resting, Idling
      <4>3. PICK b \in Threads \cup Calls : to[b] = u /\ pc[b] \in {"look", "wake"}
        BY ONLY <4>1, <4>2, Rest, u \in Threads DEF Rest
      <4>4. b \in Actors /\ b # p
        BY ONLY <2>3, <2>4, <2>6, <4>3
      <4> QED
        BY ONLY <2>3, <2>4, <4>3, <4>4
    <3> QED
      BY ONLY <3>1, <3>2
  <2> QED
    BY ONLY <2>8, <2>9 DEF Rest
<1>25. ASSUME NEW p \in Procs, Dec(p) PROVE Rest'
  BY <1>25 DEF Dec
<1>26. ASSUME NEW p \in Procs, Last(p) PROVE Rest'
  BY <1>26 DEF Last
<1>27. ASSUME NEW t \in Threads, NEW p \in Procs, Requeue(t, p) PROVE Rest'
  BY <1>27 DEF Requeue
<1>28. ASSUME NEW t \in Threads, ReadActive(t) PROVE Rest'
  BY <1>28 DEF ReadActive
<1>29. ASSUME NEW t \in Threads, Migrate(t) PROVE Rest'
  <2>1. PICK v \in Threads : \E ps \in Advertised(v) : Put(ps, Queue(t))
    BY <1>29 DEF Migrate
  <2>2. PICK ps \in SUBSET On(Queue(v)) : Put(ps, Queue(t))
    BY ONLY <2>1 DEF Advertised
  <2>3. ps \in SUBSET Procs
    BY ONLY <2>2 DEF On
  <2>4. /\ \A w : w # Queue(t) => On(w)' = On(w) \ ps
        /\ On(Queue(t))' = On(Queue(t)) \cup ps
    BY ONLY <2>2, <2>3, PutMoves, TypeOK
  <2>5. Calls' = Calls
    BY <1>29 DEF Migrate
  <2>6. /\ \A a \in Actors : a # t => pc'[a] = pc[a]
        /\ pc[t] = "migrate" /\ pc'[t] = "run" /\ Calls \subseteq Procs
        /\ to' = to /\ sleeping' = sleeping /\ sync' = sync
    BY <1>29 DEF Migrate
  <2> QED
    BY ONLY <2>4, <2>5, <2>6, PlacesDiffer, Rest, t \in Threads, NullAssumption
    DEF Rest, Resting, Workless, Idling, Actors
<1>30. ASSUME NEW t \in Threads, NoWork(t) PROVE Rest'
  BY <1>30 DEF NoWork
<1> QED
  BY <1>1, <1>2, <1>3, <1>4, <1>5, <1>6, <1>7, <1>8, <1>9, <1>10, <1>11, <1>12, <1>13,
     <1>14, <1>15, <1>16, <1>17, <1>18, <1>19, <1>20, <1>21, <1>22, <1>23, <1>24,
     <1>25, <1>26, <1>27, <1>28, <1>29, <1>30
     DEF Next, Process, Scheduler, Waking, Clone

(* What was asleep at the first read is still asleep, or has taken its work. *)
LEMMA ReadingStep == QInv /\ [Next]_vars => Reading'
<1> SUFFICES ASSUME QInv, [Next]_vars PROVE Reading'
  OBVIOUS
<1> USE NullAssumption, RoleAssumption, FirstAssumption
    DEF QInv, TypeOK, Notifying, Idling, Positions, Rest, Resting, Workless, On, Reading, Quiet,
        Runs, Past, Calls, Counted, Queue, Mail, Timer, InCall, Blocked, Step, Put, waking,
        words, global, Actors
<1>1. CASE UNCHANGED vars
  BY <1>1 DEF vars
<1>2. ASSUME NEW t \in Threads, NEW p \in Procs, Ready(t, p) PROVE Reading'
  <2>1. Put({p}, Queue(t))
    BY <1>2 DEF Ready
  <2>2. /\ \A w : w # Queue(t) => On(w)' = On(w) \ {p}
        /\ On(Queue(t))' = On(Queue(t)) \cup {p}
    BY ONLY <2>1, PutMoves, TypeOK, p \in Procs
  <2>3. Calls' = Calls
    BY <1>2 DEF Ready
  <2>4. /\ \A a \in Actors : a # t => pc'[a] = pc[a]
        /\ pc'[t] = "run" /\ pc[t] = "run"
    BY <1>2 DEF Ready
  <2>5. seen' = seen /\ sleeping' = sleeping /\ raced' = raced /\ back' = back
    BY <1>2 DEF Ready
  <2> QED
    BY ONLY <2>2, <2>3, <2>4, <2>5, PlacesDiffer, Reading, t \in Threads, NullAssumption
    DEF Reading, Quiet, Runs, Notifying, Idling, Actors
<1>3. ASSUME NEW t \in Threads, NEW p \in Procs, ReadyFar(t, p) PROVE Reading'
  BY <1>3 DEF ReadyFar, Send
<1>4. ASSUME NEW t \in Threads, NEW p \in Procs, SetAff(t, p) PROVE Reading'
  BY <1>4 DEF SetAff, Send
<1>5. ASSUME NEW t \in Threads, NEW p \in Procs, Block(t, p) PROVE Reading'
  <2>1. Put({p}, Blocked)
    BY <1>5 DEF Block
  <2>2. /\ \A w : w # Blocked => On(w)' = On(w) \ {p}
        /\ On(Blocked)' = On(Blocked) \cup {p}
    BY ONLY <2>1, PutMoves, TypeOK, p \in Procs
  <2>3. Calls' = Calls
    BY <1>5 DEF Block
  <2>4. /\ \A a \in Actors : a # t => pc'[a] = pc[a]
        /\ pc'[t] = "sched" /\ pc[t] = "run"
    BY <1>5 DEF Block
  <2>5. seen' = seen /\ sleeping' = sleeping /\ raced' = raced /\ back' = back
    BY <1>5 DEF Block
  <2> QED
    BY ONLY <2>2, <2>3, <2>4, <2>5, PlacesDiffer, Reading, t \in Threads, NullAssumption
    DEF Reading, Quiet, Runs, Notifying, Idling, Actors
<1>6. ASSUME NEW t \in Threads, NEW p \in Procs, Delay(t, p) PROVE Reading'
  BY <1>6 DEF Delay
<1>7. ASSUME NEW t \in Threads, NEW p \in Procs, Call(t, p) PROVE Reading'
  BY <1>7 DEF Call
<1>8. ASSUME NEW t \in Threads, NEW p \in Procs, Shutdown(t, p) PROVE Reading'
  <2>1. Put({p}, Blocked)
    BY <1>8 DEF Shutdown
  <2>2. /\ \A w : w # Blocked => On(w)' = On(w) \ {p}
        /\ On(Blocked)' = On(Blocked) \cup {p}
    BY ONLY <2>1, PutMoves, TypeOK, p \in Procs
  <2>3. Calls' = Calls
    BY <1>8 DEF Shutdown
  <2>4. /\ \A a \in Actors : a # t => pc'[a] = pc[a]
        /\ pc'[t] = "sched" /\ pc[t] = "run"
    BY <1>8 DEF Shutdown
  <2>5. seen' = seen /\ sleeping' = sleeping /\ raced' = raced /\ back' = back
    BY <1>8 DEF Shutdown
  <2> QED
    BY ONLY <2>2, <2>3, <2>4, <2>5, PlacesDiffer, Reading, t \in Threads, NullAssumption
    DEF Reading, Quiet, Runs, Notifying, Idling, Actors
<1>9. ASSUME NEW t \in Threads, TakeSync(t) PROVE Reading'
  <2> DEFINE ps == IF t \in sync THEN On(Mail(t)) ELSE {}
  <2>1. Put(ps, Queue(t)) /\ ps \in SUBSET Procs
    BY <1>9 DEF TakeSync, On
  <2>2. ps = On(Mail(t))
    BY ONLY Rest, t \in Threads DEF Rest
  <2> HIDE DEF ps
  <2>3. /\ \A w : w # Queue(t) => On(w)' = On(w) \ ps
        /\ On(Queue(t))' = On(Queue(t)) \cup ps
    BY ONLY <2>1, PutMoves, TypeOK
  <2>4. Calls' = Calls
    BY <1>9 DEF TakeSync
  <2>5. /\ \A a \in Actors : a # t => pc'[a] = pc[a]
        /\ pc'[t] = "pick" /\ pc[t] = "sched"
    BY <1>9 DEF TakeSync
  <2>6. seen' = seen /\ sleeping' = sleeping /\ raced' = raced /\ back' = back
    BY <1>9 DEF TakeSync
  <2>7. On(Mail(t))' = {}
    BY ONLY <2>2, <2>3, PlacesDiffer, t \in Threads
  <2> QED
    BY ONLY <2>2, <2>3, <2>4, <2>5, <2>6, <2>7, PlacesDiffer, Reading, t \in Threads, NullAssumption
    DEF Reading, Quiet, Runs, Notifying, Idling, Actors
<1>10. ASSUME NEW t \in Threads, Pick(t) PROVE Reading'
  <2>1. PICK due \in SUBSET On(Timer(t)) :
           /\ Put(due, Queue(t))
           /\ IF due \cup On(Queue(t)) = {}
              THEN Step(t, "pick", "active") /\ UNCHANGED waking
              ELSE \/ Step(t, "pick", "run") /\ UNCHANGED waking
                   \/ /\ Step(t, "pick", "wake")
                      /\ \E u \in sleeping : to' = [to EXCEPT ![t] = u]
                      /\ back' = [back EXCEPT ![t] = "run"]
    BY ONLY <1>10 DEF Pick
  <2>2. due \in SUBSET Procs
    BY ONLY <2>1 DEF On
  <2>3. /\ \A w : w # Queue(t) => On(w)' = On(w) \ due
        /\ On(Queue(t))' = On(Queue(t)) \cup due
    BY ONLY <2>1, <2>2, PutMoves, TypeOK
  <2>4. Calls' = Calls
    BY <1>10 DEF Pick
  <2>5. /\ \A a \in Actors : a # t => pc'[a] = pc[a] /\ back'[a] = back[a]
        /\ pc[t] = "pick"
        /\ \/ pc'[t] = "active"
           \/ pc'[t] = "run" /\ due \cup On(Queue(t)) # {}
           \/ pc'[t] = "wake" /\ back'[t] = "run" /\ due \cup On(Queue(t)) # {}
    BY <2>1
  <2>6. seen' = seen /\ sleeping' = sleeping /\ raced' = raced
    BY <1>10 DEF Pick
  <2>7. due \subseteq On(Timer(t))
    BY ONLY <2>1
  <2> QED
    BY ONLY <2>3, <2>4, <2>5, <2>6, <2>7, PlacesDiffer, Reading, t \in Threads, NullAssumption
    DEF Reading, Quiet, Runs, Notifying, Idling, Actors
<1>11. ASSUME NEW t \in Threads, Sleep(t) PROVE Reading'
  BY <1>11 DEF Sleep
<1>12. ASSUME NEW t \in Threads, Check(t) PROVE Reading'
  BY <1>12 DEF Check
<1>13. ASSUME NEW t \in Threads, Unsleep(t) PROVE Reading'
  BY <1>13 DEF Unsleep
<1>14. ASSUME NEW t \in Threads, SetIdle(t) PROVE Reading'
  BY <1>14 DEF SetIdle
<1>15. ASSUME NEW t \in Threads, ReadPending(t) PROVE Reading'
  <2>1. IsFiniteSet(Calls) /\ Cardinality(Calls) \in Nat
    BY ONLY ProcsAssumption, FS_Subset, FS_CardinalityType DEF Calls
  <2>2. pending = 0 => Calls = {}
    BY ONLY <2>1, PendingIsCalls, FS_EmptySet DEF PendingIsCalls
  <2>3. /\ \A a \in Actors : a # t => pc'[a] = pc[a]
        /\ pc[t] = "pending"
        /\ pc'[t] = "pause" \/ (pc'[t] = "readIdle" /\ pending = 0)
    BY <1>15 DEF ReadPending
  <2>4. /\ seen' = seen /\ sleeping' = sleeping /\ raced' = raced
        /\ back' = back /\ Calls' = Calls
    BY <1>15 DEF ReadPending
  <2>5. \A w : On(w)' = On(w)
    BY ONLY <1>15, NothingMoves DEF ReadPending
  <2> QED
    BY ONLY <2>2, <2>3, <2>4, <2>5, Reading, t \in Threads, NullAssumption
    DEF Reading, Quiet, Runs, Notifying, Idling, Actors
<1>16. ASSUME NEW t \in Threads, ReadIdle(t) PROVE Reading'
  BY <1>16 DEF ReadIdle
<1>17. ASSUME NEW t \in Threads, ReadSleeping(t) PROVE Reading'
  BY <1>17 DEF ReadSleeping
<1>18. ASSUME NEW t \in Threads, Pause(t) PROVE Reading'
  BY <1>18 DEF Pause
<1>19. ASSUME NEW t \in Threads, Unidle(t) PROVE Reading'
  BY <1>19 DEF Unidle
<1>20. ASSUME NEW t \in Threads, TimedPause(t) PROVE Reading'
  BY <1>20 DEF TimedPause
<1>21. ASSUME NEW a \in Actors, Look(a) PROVE Reading'
  BY <1>21 DEF Look, Sent
<1>22. ASSUME NEW a \in Actors, Wake(a) PROVE Reading'
  BY <1>22 DEF Wake
<1>23. ASSUME NEW a \in Actors, WakeSync(a) PROVE Reading'
  BY <1>23 DEF WakeSync, Sent
<1>24. ASSUME NEW p \in Procs, CallDone(p) PROVE Reading'
  BY <1>24 DEF CallDone, Send
<1>25. ASSUME NEW p \in Procs, Dec(p) PROVE Reading'
  BY <1>25 DEF Dec
<1>26. ASSUME NEW p \in Procs, Last(p) PROVE Reading'
  BY <1>26 DEF Last
<1>27. ASSUME NEW t \in Threads, NEW p \in Procs, Requeue(t, p) PROVE Reading'
  BY <1>27 DEF Requeue
<1>28. ASSUME NEW t \in Threads, ReadActive(t) PROVE Reading'
  BY <1>28 DEF ReadActive
<1>29. ASSUME NEW t \in Threads, Migrate(t) PROVE Reading'
  <2>1. PICK v \in Threads : \E ps \in Advertised(v) : Put(ps, Queue(t))
    BY <1>29 DEF Migrate
  <2>2. PICK ps \in SUBSET On(Queue(v)) : Put(ps, Queue(t))
    BY ONLY <2>1 DEF Advertised
  <2>3. ps \in SUBSET Procs
    BY ONLY <2>2 DEF On
  <2>4. /\ \A w : w # Queue(t) => On(w)' = On(w) \ ps
        /\ On(Queue(t))' = On(Queue(t)) \cup ps
    BY ONLY <2>2, <2>3, PutMoves, TypeOK
  <2>5. Calls' = Calls
    BY <1>29 DEF Migrate
  <2>6. /\ \A a \in Actors : a # t => pc'[a] = pc[a] /\ seen'[a] = seen[a]
        /\ pc[t] = "migrate" /\ pc'[t] = "run"
        /\ back' = back /\ sleeping' = sleeping /\ raced \subseteq raced'
        /\ t \in sleeping => \A u \in Threads : pc[u] = "readSleeping" => u \in raced'
    BY <1>29 DEF Migrate
  <2> QED
    BY ONLY <2>4, <2>5, <2>6, PlacesDiffer, Reading, t \in Threads, NullAssumption
    DEF Reading, Quiet, Runs, Notifying, Idling, Actors
<1>30. ASSUME NEW t \in Threads, NoWork(t) PROVE Reading'
  BY <1>30 DEF NoWork
<1> QED
  BY <1>1, <1>2, <1>3, <1>4, <1>5, <1>6, <1>7, <1>8, <1>9, <1>10, <1>11, <1>12, <1>13,
     <1>14, <1>15, <1>16, <1>17, <1>18, <1>19, <1>20, <1>21, <1>22, <1>23, <1>24,
     <1>25, <1>26, <1>27, <1>28, <1>29, <1>30
     DEF Next, Process, Scheduler, Waking, Clone

(* The words keep their types; no more calls are pending than there are processes. *)
LEMMA TypeOKStep == QInv /\ [Next]_vars => TypeOK'
<1> SUFFICES ASSUME QInv, [Next]_vars PROVE TypeOK'
  OBVIOUS
<1>1. PendingIsCalls'
  BY PendingIsCallsStep
<1>2. pending' \in 0..Cardinality(Procs)
  BY ONLY <1>1, CallsFinite, CallsFiniteNext DEF PendingIsCalls
<1> USE NullAssumption, RoleAssumption, FirstAssumption
    DEF QInv, TypeOK, Notifying, Idling, Positions, Labels, Places, On, Past, Queue,
        Mail, Timer, InCall, Blocked, Step, Put, waking, words, global, Actors
<1>3. CASE UNCHANGED vars
  BY <1>3 DEF vars
<1>4. ASSUME NEW t \in Threads, NEW p \in Procs, Ready(t, p) PROVE TypeOK'
  BY <1>4, <1>2 DEF Ready
<1>5. ASSUME NEW t \in Threads, NEW p \in Procs, ReadyFar(t, p) PROVE TypeOK'
  BY <1>5, <1>2 DEF ReadyFar, Send
<1>6. ASSUME NEW t \in Threads, NEW p \in Procs, SetAff(t, p) PROVE TypeOK'
  BY <1>6, <1>2 DEF SetAff, Send
<1>7. ASSUME NEW t \in Threads, NEW p \in Procs, Block(t, p) PROVE TypeOK'
  BY <1>7, <1>2 DEF Block
<1>8. ASSUME NEW t \in Threads, NEW p \in Procs, Delay(t, p) PROVE TypeOK'
  BY <1>8, <1>2 DEF Delay
<1>9. ASSUME NEW t \in Threads, NEW p \in Procs, Call(t, p) PROVE TypeOK'
  BY <1>9, <1>2 DEF Call
<1>10. ASSUME NEW t \in Threads, NEW p \in Procs, Shutdown(t, p) PROVE TypeOK'
  BY <1>10, <1>2 DEF Shutdown
<1>11. ASSUME NEW t \in Threads, TakeSync(t) PROVE TypeOK'
  BY <1>11, <1>2 DEF TakeSync
<1>12. ASSUME NEW t \in Threads, Pick(t) PROVE TypeOK'
  BY <1>12, <1>2 DEF Pick
<1>13. ASSUME NEW t \in Threads, Sleep(t) PROVE TypeOK'
  BY <1>13, <1>2 DEF Sleep
<1>14. ASSUME NEW t \in Threads, Check(t) PROVE TypeOK'
  BY <1>14, <1>2 DEF Check
<1>15. ASSUME NEW t \in Threads, Unsleep(t) PROVE TypeOK'
  BY <1>15, <1>2 DEF Unsleep
<1>16. ASSUME NEW t \in Threads, SetIdle(t) PROVE TypeOK'
  BY <1>16, <1>2 DEF SetIdle
<1>17. ASSUME NEW t \in Threads, ReadPending(t) PROVE TypeOK'
  BY <1>17, <1>2 DEF ReadPending
<1>18. ASSUME NEW t \in Threads, ReadIdle(t) PROVE TypeOK'
  BY <1>18, <1>2 DEF ReadIdle
<1>19. ASSUME NEW t \in Threads, ReadSleeping(t) PROVE TypeOK'
  <2>1. dead' \in BOOLEAN
    BY ONLY <1>19 DEF ReadSleeping, FindsAllAsleep
  <2>2. seen' \in [Threads -> SUBSET Threads] /\ raced' \subseteq Threads
    BY <1>19 DEF ReadSleeping
  <2>3. pc' \in [Actors -> Labels]
    BY <1>19 DEF ReadSleeping
  <2>4. UNCHANGED <<place, affine, words, pending, shutdown, waking>>
    BY ONLY <1>19 DEF ReadSleeping
  <2> QED
    BY ONLY <2>1, <2>2, <2>3, <2>4, TypeOK DEF TypeOK, words, waking
<1>20. ASSUME NEW t \in Threads, Pause(t) PROVE TypeOK'
  BY <1>20, <1>2 DEF Pause
<1>21. ASSUME NEW t \in Threads, Unidle(t) PROVE TypeOK'
  BY <1>21, <1>2 DEF Unidle
<1>22. ASSUME NEW t \in Threads, TimedPause(t) PROVE TypeOK'
  BY <1>22, <1>2 DEF TimedPause
<1>23. ASSUME NEW a \in Actors, Look(a) PROVE TypeOK'
  BY <1>23, <1>2 DEF Look, Sent
<1>24. ASSUME NEW a \in Actors, Wake(a) PROVE TypeOK'
  BY <1>24, <1>2 DEF Wake
<1>25. ASSUME NEW a \in Actors, WakeSync(a) PROVE TypeOK'
  BY <1>25, <1>2 DEF WakeSync, Sent
<1>26. ASSUME NEW p \in Procs, CallDone(p) PROVE TypeOK'
  BY <1>26, <1>2 DEF CallDone, Send
<1>27. ASSUME NEW p \in Procs, Dec(p) PROVE TypeOK'
  BY <1>27, <1>2 DEF Dec
<1>28. ASSUME NEW p \in Procs, Last(p) PROVE TypeOK'
  BY <1>28, <1>2 DEF Last
<1>29. ASSUME NEW t \in Threads, NEW p \in Procs, Requeue(t, p) PROVE TypeOK'
  BY <1>29, <1>2 DEF Requeue
<1>30. ASSUME NEW t \in Threads, ReadActive(t) PROVE TypeOK'
  BY <1>30, <1>2 DEF ReadActive
<1>31. ASSUME NEW t \in Threads, Migrate(t) PROVE TypeOK'
  BY <1>31, <1>2 DEF Migrate, Advertised
<1>32. ASSUME NEW t \in Threads, NoWork(t) PROVE TypeOK'
  BY <1>32, <1>2 DEF NoWork
<1> QED
  BY <1>3, <1>4, <1>5, <1>6, <1>7, <1>8, <1>9, <1>10, <1>11, <1>12, <1>13, <1>14,
     <1>15, <1>16, <1>17, <1>18, <1>19, <1>20, <1>21, <1>22, <1>23, <1>24, <1>25,
     <1>26, <1>27, <1>28, <1>29, <1>30, <1>31, <1>32
     DEF Next, Process, Scheduler, Waking, Clone

(* Nothing has run yet: every process is on the run queue of the first      *)
(* thread.                                                                  *)
LEMMA InitQInv == Init => QInv
<1> SUFFICES ASSUME Init PROVE QInv
  OBVIOUS
<1> USE NullAssumption, FirstAssumption DEF Init, Actors
<1>1. Calls = {}
  BY DEF Calls, Counted, Notifying
<1>2. PendingIsCalls
  BY <1>1, FS_EmptySet DEF PendingIsCalls
<1>3. place \in [Procs -> Places] /\ \A p \in Procs : place[p] = Queue(First)
  BY PlacesDiffer
<1>4. Cardinality(Procs) \in Nat
  BY ProcsAssumption, FS_CardinalityType
<1>5. TypeOK
  <2>1. /\ pc \in [Actors -> Labels] /\ back \in [Actors -> Labels]
        /\ to \in [Actors -> Threads \cup {NULL}]
    BY DEF Labels
  <2>2. seen \in [Threads -> SUBSET Threads] /\ pending \in 0..Cardinality(Procs)
    BY <1>4
  <2>3. /\ shutdown \in BOOLEAN /\ dead \in BOOLEAN
        /\ affine = {} /\ sync = {} /\ sleeping = {} /\ idle = {} /\ raced = {}
    OBVIOUS
  <2> QED
    BY ONLY <1>3, <2>1, <2>2, <2>3 DEF TypeOK
<1>6. Positions
  BY <1>3, PlacesDiffer DEF Positions, Notifying, Idling
<1>7. \A t \in Threads : On(Mail(t)) = {}
  BY <1>3, PlacesDiffer DEF On
<1>8. Rest
  BY <1>7 DEF Rest, Resting, Workless, Idling
<1>9. Reading
  BY DEF Reading
<1> QED
  BY <1>2, <1>5, <1>6, <1>8, <1>9 DEF QInv

(* Every step of a thread, a process or a clone keeps the whole invariant.  *)
THEOREM IdleInvariance == Spec => []QInv
<1>1. Init => QInv
  BY InitQInv
<1>2. QInv /\ [Next]_vars => QInv'
  BY TypeOKStep, PositionsStep, PendingIsCallsStep, RestStep, ReadingStep DEF QInv
<1> QED
  BY <1>1, <1>2, PTL DEF Spec

(* kernel_scheduler calls ccsp_kernel_deadlock only when no process is left *)
(* to run, in the mail, in a call or on a timer, for any number of threads  *)
(* and whatever migrates between them and whom they wake, if between its    *)
(* reads no call, timer or mail came and no thread that is marked asleep    *)
(* took work.                                                               *)
THEOREM DeadlockReportIsTrue == Spec => []DeadlockIsReal
<1>1. ASSUME QInv PROVE DeadlockIsReal
  <2> SUFFICES ASSUME NEW t \in Threads, Reports(t), t \notin raced, NEW p \in Procs
               PROVE  place[p] = Blocked
    BY DEF DeadlockIsReal, NothingLeft
  <2>1. pc[t] = "readSleeping" /\ seen[t] \cap sleeping = Threads
    BY DEF Reports, FindsAllAsleep
  <2>2. seen[t] = Threads /\ sleeping = Threads
    BY <1>1, <2>1 DEF QInv, TypeOK
  <2>3. Calls = {} /\ Quiet
    BY <1>1, <2>1, <2>2 DEF QInv, Reading
  <2>4. \A u \in Threads : On(Queue(u)) = {} /\ On(Mail(u)) = {} /\ On(Timer(u)) = {}
    BY <2>2, <2>3 DEF Quiet
  <2>5. \A u \in Threads : place[p] \notin {Queue(u), Mail(u), Timer(u)}
    BY <2>4 DEF On
  <2>6. place[p] # InCall
    BY <1>1, <2>3 DEF QInv, Positions, Calls, Counted
  <2>7. place[p] \in Places
    BY <1>1 DEF QInv, TypeOK
  <2> QED
    BY <2>5, <2>6, <2>7 DEF Places, Queue, Mail, Timer
<1> QED
  BY <1>1, IdleInvariance, PTL
=============================================================================
