------------------------------ MODULE BarrierProofs ------------------------------
(***************************************************************************)
(* Proofs about Barrier: for any number of threads and any finite set of   *)
(* processes the count in bar->state is exact, no phase completes early    *)
(* and no waiting process is lost.                                         *)
(*                                                                         *)
(* The inductive invariant is BInv.  Its crux is Tagged: while a process   *)
(* has not synchronised the tag cannot move, so the head that bar_sync     *)
(* finds or makes with a state it read before is of the current phase; a   *)
(* head of the phase that ends is on the list of the one thread that       *)
(* completes it.                                                           *)
(***************************************************************************)
EXTENDS Barrier, FiniteSetTheorems, TLAPS

(* Where add and release return to, and what a thread that has read a head  *)
(* remembers of it.                                                         *)
LEMMA PcShape ==
  ASSUME TypeOK, NEW t \in Threads
  PROVE  /\ pc[t][1] \in {"add", "release"} =>
            pc[t] = <<pc[t][1], pc[t][2]>> /\ pc[t][2] \in {"setBit", "clearLocal", "others"}
         /\ At(t, "resignCas") => pc[t][2] \in {"leave", "complete"}
         /\ At(t, "headCas") => pc[t][2] \in Threads /\ pc[t][3] \in Tags
<1>1. pc[t] \in PCs
  BY DEF TypeOK
<1>2. CASE pc[t] \in {<<label>> : label \in Labels}
  BY <1>2 DEF Labels, At
<1>3. CASE pc[t] \in {"resignCas"} \X {"leave", "complete"}
  BY <1>3 DEF At
<1>4. CASE pc[t] \in {"add", "release"} \X {"setBit", "clearLocal", "others"}
  BY <1>4 DEF At
<1>5. CASE pc[t] \in {"headCas"} \X Threads \X Tags
  BY <1>5 DEF At
<1> QED
  BY <1>1, <1>2, <1>3, <1>4, <1>5 DEF PCs

(* The processes that have not synchronised are finitely many. *)
LEMMA AbsentFinite ==
  /\ IsFiniteSet(Absent) /\ Cardinality(Absent) \in Nat
  /\ Cardinality(Absent) <= Cardinality(Procs)
  /\ Cardinality(Procs) \in Nat
<1>1. Absent \subseteq Procs
  BY DEF Absent
<1> QED
  BY <1>1, ProcsAssumption, FS_Subset, FS_CardinalityType

(* The same in the state after a step. *)
LEMMA AbsentFiniteNext ==
  /\ IsFiniteSet(Absent') /\ Cardinality(Absent') \in Nat
  /\ Cardinality(Absent') <= Cardinality(Procs)
<1>1. Absent' \subseteq Procs
  BY DEF Absent
<1> QED
  BY <1>1, ProcsAssumption, FS_Subset, FS_CardinalityType

(* A process that a thread serves has not synchronised. *)
LEMMA ServedIsAbsent ==
  ASSUME BInv, NEW t \in Threads, cur[t] # NULL
  PROVE  cur[t] \in Procs /\ cur[t] \in Absent /\ Cardinality(Absent) >= 1
<1>1. cur[t] \in Procs /\ cur[t] \in Absent
  BY DEF BInv, TypeOK, Runs, Absent
<1>2. Absent # {}
  BY <1>1
<1>3. Cardinality(Absent) # 0
  BY <1>2, AbsentFinite, FS_EmptySet
<1> QED
  BY <1>1, <1>3, AbsentFinite

(* The process whose count is the last one is the only one that has not     *)
(* synchronised, and no other thread serves a process.                      *)
LEMMA OnlyOne ==
  ASSUME BInv, NEW t \in Threads, cur[t] # NULL, state.count = 1, ~state.syncing
  PROVE  /\ \A p \in Procs : p # cur[t] => status[p] \in {"in", "out"}
         /\ \A u \in Threads : u # t => cur[u] = NULL
<1>1. Cardinality(Absent) = 1
  BY AbsentFinite DEF BInv, CountIsAbsent
<1>2. PICK q : Absent = {q}
  BY <1>1, AbsentFinite, FS_Singleton
<1>3. cur[t] = q
  BY <1>2, ServedIsAbsent
<1>4. \A p \in Procs : p # cur[t] => status[p] \in {"in", "out"}
  BY <1>2, <1>3 DEF Absent, BInv, TypeOK, Statuses
<1>5. ASSUME NEW u \in Threads, u # t PROVE cur[u] = NULL
  <2>1. SUFFICES ASSUME cur[u] # NULL PROVE FALSE
    OBVIOUS
  <2>2. cur[u] \in Absent
    BY <2>1, ServedIsAbsent
  <2> QED
    BY <2>1, <2>2, <1>2, <1>3, <1>5 DEF BInv, Runs
<1> QED
  BY <1>4, <1>5

(* When only the count of the completing thread is left, everyone has       *)
(* synchronised or resigned, and no thread serves a process.                *)
LEMMA NoneLeft ==
  ASSUME BInv, state.count = 1, state.syncing
  PROVE  /\ \A p \in Procs : status[p] \in {"in", "out"}
         /\ \A u \in Threads : cur[u] = NULL
<1>1. Cardinality(Absent) = 0
  BY AbsentFinite DEF BInv, CountIsAbsent
<1>2. Absent = {}
  BY <1>1, AbsentFinite, FS_EmptySet
<1>3. \A p \in Procs : status[p] \in {"in", "out"}
  BY <1>2 DEF Absent, BInv, TypeOK, Statuses
<1>4. ASSUME NEW u \in Threads PROVE cur[u] = NULL
  BY <1>2, ServedIsAbsent
<1> QED
  BY <1>3, <1>4

(* No thread serves a process while the heads of a phase are being swapped. *)
LEMMA SwapQuiet ==
  ASSUME BInv, NEW c \in Threads, At(c, "swapHeads")
  PROVE  \A u \in Threads : cur[u] = NULL /\ ~Serves(u)
<1>1. \A p \in Procs : status[p] \in {"in", "out"}
  BY DEF BInv, NobodyPassesEarly
<1>2. \A u \in Threads : cur[u] # NULL => cur[u] \in Procs /\ status[cur[u]] \in {"on", "joining"}
  BY DEF BInv, Runs, TypeOK
<1>3. \A u \in Threads : cur[u] = NULL
  BY <1>1, <1>2
<1> QED
  BY <1>3 DEF BInv, Runs

(* No other step touches the process a thread serves. *)
LEMMA RunsStep == BInv /\ [Next]_vars => Runs'
<1> SUFFICES ASSUME BInv, [Next]_vars PROVE Runs'
  OBVIOUS
<1> USE NullAssumption
    DEF BInv, TypeOK, Statuses, Tags, NextTag, State, Runs, Completer, Completes,
        Serves, Stale, At, Goto, Mark, bar, tmp
<1>1. CASE UNCHANGED vars
  BY <1>1 DEF vars
<1>2. ASSUME NEW t \in Threads, ReadHead(t) PROVE Runs'
  BY <1>2 DEF ReadHead, HasHead
<1>3. ASSUME NEW t \in Threads, TakeStale(t) PROVE Runs'
  BY <1>3 DEF TakeStale
<1>4. ASSUME NEW t \in Threads, SetBit(t) PROVE Runs'
  BY <1>4 DEF SetBit
<1>5. ASSUME NEW t \in Threads, SetHead(t) PROVE Runs'
  BY <1>5 DEF SetHead
<1>6. ASSUME NEW t \in Threads, Join(t) PROVE Runs'
  BY <1>6 DEF Join, Collect
<1>7. ASSUME NEW t \in Threads, SyncCas(t) PROVE Runs'
  BY <1>7 DEF SyncCas, Forget
<1>8. ASSUME NEW t \in Threads, SyncCasFails(t) PROVE Runs'
  BY <1>8 DEF SyncCasFails
<1>9. ASSUME NEW t \in Threads, ReadHeads(t) PROVE Runs'
  BY <1>9 DEF ReadHeads
<1>10. ASSUME NEW t \in Threads, ResignCas(t) PROVE Runs'
  BY <1>10 DEF ResignCas, Forget
<1>11. ASSUME NEW t \in Threads, BeginResign(t) PROVE Runs'
  BY <1>11 DEF BeginResign
<1>12. ASSUME NEW t \in Threads, SwapHeads(t) PROVE Runs'
  BY <1>12 DEF SwapHeads
<1>13. ASSUME NEW t \in Threads, Local(t) PROVE Runs'
  <2>1. status' = status /\ cur' = cur
    BY <1>13 DEF Local
  <2>2. /\ At(t, "local")
        /\ \A u \in Threads : u # t => pc'[u] = pc[u]
        /\ pc'[t] = <<"add", "clearLocal">> \/ pc'[t] = <<"others">>
    BY <1>13 DEF Local
  <2> QED
    BY ONLY <2>1, <2>2, Runs DEF Runs, Serves, Completes, Stale, At
<1>14. ASSUME NEW t \in Threads, ClearLocal(t) PROVE Runs'
  BY <1>14 DEF ClearLocal
<1>15. ASSUME NEW t \in Threads, Add(t) PROVE Runs'
  <2>1. \A u \in Threads : cur[u] # NULL => cur[u] \in Procs /\ cur[u] \notin taken[t]
    BY <1>15 DEF Add, Collected
  <2>2. \A u \in Threads : cur[u] # NULL => status'[cur[u]] = status[cur[u]]
    BY <1>15, <2>1 DEF Add
  <2>3. pc' = [pc EXCEPT ![t] = <<"release", pc[t][2]>>] /\ cur' = cur /\ At(t, "add")
    BY <1>15 DEF Add
  <2> QED
    BY <2>2, <2>3
<1>16. ASSUME NEW t \in Threads, Release(t) PROVE Runs'
  <2>1. \A u \in Threads : cur[u] # NULL => cur[u] \in Procs /\ cur[u] \notin taken[t]
    BY <1>16 DEF Release, Collected
  <2>2. \A u \in Threads : cur[u] # NULL => status'[cur[u]] = status[cur[u]]
    BY <1>16, <2>1 DEF Release
  <2>3. /\ cur' = cur /\ At(t, "release") /\ pc' = [pc EXCEPT ![t] = <<pc[t][2]>>]
        /\ pc[t][2] \in {"setBit", "clearLocal", "others"}
    BY <1>16, PcShape DEF Release
  <2> QED
    BY <2>2, <2>3
<1>17. ASSUME NEW t \in Threads, HeadTaken(t) PROVE Runs'
  BY <1>17 DEF HeadTaken
<1>18. ASSUME NEW t \in Threads, HeadLost(t) PROVE Runs'
  BY <1>18 DEF HeadLost
<1>19. ASSUME NEW t \in Threads, ReadState(t) PROVE Runs'
  BY <1>19 DEF ReadState
<1>20. ASSUME NEW t \in Threads, Last(t) PROVE Runs'
  BY <1>20 DEF Last
<1>21. ASSUME NEW t \in Threads, Again(t) PROVE Runs'
  BY <1>21 DEF Again, Forget
<1>22. ASSUME NEW t \in Threads, Finish(t) PROVE Runs'
  BY <1>22 DEF Finish, Forget
<1>23. ASSUME NEW t \in Threads, BeginSync(t) PROVE Runs'
  BY <1>23 DEF BeginSync
<1>24. ASSUME NEW t \in Threads, NEW u \in Threads, HeadGone(t, u) PROVE Runs'
  BY <1>24 DEF HeadGone
<1>25. ASSUME NEW t \in Threads, NEW u \in Threads, HeadNew(t, u) PROVE Runs'
  BY <1>25 DEF HeadNew
<1>26. ASSUME NEW t \in Threads, NEW u \in Threads, HeadOld(t, u) PROVE Runs'
  BY <1>26 DEF HeadOld
<1>27. ASSUME NEW t \in Threads, NEW p \in Procs, Dispatch(t, p) PROVE Runs'
  BY <1>27 DEF Dispatch
<1>28. ASSUME NEW t \in Threads, NEW p \in Procs, Enroll(t, p) PROVE Runs'
  BY <1>28 DEF Enroll
<1> QED
  BY <1>1, <1>2, <1>3, <1>4, <1>5, <1>6, <1>7, <1>8, <1>9, <1>10, <1>11, <1>12, <1>13,
     <1>14, <1>15, <1>16, <1>17, <1>18, <1>19, <1>20, <1>21, <1>22, <1>23, <1>24,
     <1>25, <1>26, <1>27, <1>28
     DEF Next, Kernel, Syncing, Resigning, Completing, Running, Ended

(* SYNCING is handed from the last process to the thread that completes. *)
LEMMA CompleterStep == BInv /\ [Next]_vars => Completer'
<1> SUFFICES ASSUME BInv, [Next]_vars PROVE Completer'
  OBVIOUS
<1> USE NullAssumption
    DEF BInv, TypeOK, Statuses, Tags, NextTag, State, Runs, Completer, NoState,
        Completes, Serves, Stale, At, Goto, Mark, bar, tmp
<1>1. CASE UNCHANGED vars
  BY <1>1 DEF vars
<1>2. ASSUME NEW t \in Threads, ReadHead(t) PROVE Completer'
  BY <1>2 DEF ReadHead, HasHead
<1>3. ASSUME NEW t \in Threads, TakeStale(t) PROVE Completer'
  BY <1>3 DEF TakeStale
<1>4. ASSUME NEW t \in Threads, SetBit(t) PROVE Completer'
  BY <1>4 DEF SetBit
<1>5. ASSUME NEW t \in Threads, SetHead(t) PROVE Completer'
  BY <1>5 DEF SetHead
<1>6. ASSUME NEW t \in Threads, Join(t) PROVE Completer'
  BY <1>6 DEF Join, Collect
<1>7. ASSUME NEW t \in Threads, SyncCas(t) PROVE Completer'
  <2>1. /\ At(t, "syncCas") /\ todo' = todo /\ hd' = hd /\ state = st[t]
        /\ \A u \in Threads : u # t => st'[u] = st[u]
    BY <1>7 DEF SyncCas, Forget
  <2>2. ~Completes(t) /\ todo[t] = {}
    BY <2>1
  <2>3. CASE state = State(1, state.tag, FALSE)
    <3>1. /\ state' = State(1, NextTag(state.tag), TRUE) /\ pc' = [pc EXCEPT ![t] = <<"swapHeads">>]
      BY <1>7, <2>3 DEF SyncCas
    <3>2. ~state.syncing
      BY <2>1, <2>3
    <3>3. \A u \in Threads : ~Completes(u)
      BY <3>2
    <3> QED
      BY <2>1, <2>2, <3>1, <3>3
  <2>4. CASE ~(state = State(1, state.tag, FALSE))
    <3>1. /\ state'.syncing = state.syncing /\ state'.tag = state.tag
          /\ pc' = [pc EXCEPT ![t] = <<"run">>]
      BY <1>7, <2>4 DEF SyncCas
    <3>2. \A u \in Threads : Completes(u)' <=> Completes(u)
      BY <3>1, <2>2
    <3>3. /\ \A u \in Threads : u # t => pc'[u] = pc[u]
          /\ pc'[t] = <<"run">>
      BY <3>1
    <3>4. (\E u \in Threads : Completes(u)') <=> \E u \in Threads : Completes(u)
      BY ONLY <3>2
    <3> QED
      BY ONLY <2>1, <2>2, <3>1, <3>2, <3>3, <3>4, Completer DEF Completer, State, At
  <2> QED
    BY <2>3, <2>4
<1>8. ASSUME NEW t \in Threads, SyncCasFails(t) PROVE Completer'
  <2>1. At(t, "syncCas") /\ pc' = pc /\ hd' = hd /\ todo' = todo /\ state' = state
    BY <1>8 DEF SyncCasFails
  <2>2. \A u \in Threads : u # t => st'[u] = st[u]
    BY <1>8 DEF SyncCasFails
  <2> QED
    BY ONLY <2>1, <2>2, Completer DEF Completer, Completes, State, At
<1>9. ASSUME NEW t \in Threads, ReadHeads(t) PROVE Completer'
  BY <1>9 DEF ReadHeads
<1>10. ASSUME NEW t \in Threads, ResignCas(t) PROVE Completer'
  <2>1. /\ At(t, "resignCas") /\ todo' = todo /\ hd' = hd /\ state = st[t]
        /\ \A u \in Threads : u # t => st'[u] = st[u]
    BY <1>10 DEF ResignCas, Forget
  <2>2. ~Completes(t) /\ todo[t] = {}
    BY <2>1
  <2>3. CASE pc[t][2] = "complete"
    <3>1. /\ state' = State(1, NextTag(state.tag), TRUE) /\ pc' = [pc EXCEPT ![t] = <<"swapHeads">>]
      BY <1>10, <2>3 DEF ResignCas
    <3>2. ~state.syncing
      BY <2>1, <2>3
    <3>3. \A u \in Threads : ~Completes(u)
      BY <3>2
    <3> QED
      BY <2>1, <2>2, <3>1, <3>3
  <2>4. CASE ~(pc[t][2] = "complete")
    <3>1. /\ state'.syncing = state.syncing /\ state'.tag = state.tag
          /\ pc' = [pc EXCEPT ![t] = <<"run">>]
      BY <1>10, <2>4 DEF ResignCas
    <3>2. \A u \in Threads : Completes(u)' <=> Completes(u)
      BY <3>1, <2>2
    <3>3. /\ \A u \in Threads : u # t => pc'[u] = pc[u]
          /\ pc'[t] = <<"run">>
      BY <3>1
    <3>4. (\E u \in Threads : Completes(u)') <=> \E u \in Threads : Completes(u)
      BY ONLY <3>2
    <3> QED
      BY ONLY <2>1, <2>2, <3>1, <3>2, <3>3, <3>4, Completer DEF Completer, State, At
  <2> QED
    BY <2>3, <2>4
<1>11. ASSUME NEW t \in Threads, BeginResign(t) PROVE Completer'
  BY <1>11 DEF BeginResign
<1>12. ASSUME NEW t \in Threads, SwapHeads(t) PROVE Completer'
  BY <1>12 DEF SwapHeads
<1>13. ASSUME NEW t \in Threads, Local(t) PROVE Completer'
  <2>1. /\ At(t, "local") /\ state' = state /\ st' = st /\ hd' = hd /\ todo' = todo
        /\ \A u \in Threads : u # t => pc'[u] = pc[u]
        /\ pc'[t] = <<"add", "clearLocal">> \/ pc'[t] = <<"others">>
    BY <1>13 DEF Local
  <2>2. \A u \in Threads : Completes(u)' <=> Completes(u)
    BY ONLY <2>1, TypeOK DEF TypeOK, Completes, At
  <2>3. (\E u \in Threads : Completes(u)') <=> \E u \in Threads : Completes(u)
    BY ONLY <2>2
  <2>4. /\ \A u \in Threads : u # t => pc'[u] = pc[u]
        /\ pc'[t][1] \in {"add", "setBit", "clearLocal", "others"}
    BY <2>1
  <2>5. /\ state' = state /\ st' = st /\ hd' = hd /\ todo' = todo
        /\ pc[t][1] \in {"local", "release"} /\ (Completes(t) => hd[t] = state.tag)
    BY ONLY <2>1, Completer DEF Completer, At
  <2> QED
    BY ONLY <2>2, <2>3, <2>4, <2>5, Completer DEF Completer, At
<1>14. ASSUME NEW t \in Threads, ClearLocal(t) PROVE Completer'
  BY <1>14 DEF ClearLocal
<1>15. ASSUME NEW t \in Threads, Add(t) PROVE Completer'
  BY <1>15 DEF Add
<1>16. ASSUME NEW t \in Threads, Release(t) PROVE Completer'
  <2>1. /\ At(t, "release") /\ state' = state /\ st' = st /\ hd' = hd /\ todo' = todo
        /\ pc' = [pc EXCEPT ![t] = <<pc[t][2]>>]
        /\ pc[t][2] \in {"setBit", "clearLocal", "others"}
    BY <1>16, PcShape DEF Release
  <2>2. \A u \in Threads : Completes(u)' <=> Completes(u)
    BY ONLY <2>1, TypeOK DEF TypeOK, Completes, At
  <2>3. (\E u \in Threads : Completes(u)') <=> \E u \in Threads : Completes(u)
    BY ONLY <2>2
  <2>4. /\ \A u \in Threads : u # t => pc'[u] = pc[u]
        /\ pc'[t][1] \in {"add", "setBit", "clearLocal", "others"}
    BY <2>1
  <2>5. /\ state' = state /\ st' = st /\ hd' = hd /\ todo' = todo
        /\ pc[t][1] \in {"local", "release"} /\ (Completes(t) => hd[t] = state.tag)
    BY ONLY <2>1, Completer DEF Completer, At
  <2> QED
    BY ONLY <2>2, <2>3, <2>4, <2>5, Completer DEF Completer, At
<1>17. ASSUME NEW t \in Threads, HeadTaken(t) PROVE Completer'
  BY <1>17 DEF HeadTaken
<1>18. ASSUME NEW t \in Threads, HeadLost(t) PROVE Completer'
  BY <1>18 DEF HeadLost
<1>19. ASSUME NEW t \in Threads, ReadState(t) PROVE Completer'
  <2>1. /\ state' = state /\ hd' = hd /\ todo' = todo /\ pc[t][1] \in {"others", "lastCas", "again"}
        /\ todo[t] = {} /\ hd[t] = state.tag
        /\ \A u \in Threads : u # t => st'[u] = st[u]
        /\ st'[t] = state
    BY <1>19 DEF ReadState
  <2>2. /\ \A u \in Threads : u # t => pc'[u] = pc[u]
        /\ \/ pc'[t] = <<"last">> /\ state = State(1, hd[t], TRUE)
           \/ pc'[t] = <<"lastCas">>
    BY <1>19 DEF ReadState
  <2>3. \A u \in Threads : Completes(u)' <=> Completes(u)
    BY ONLY <2>1, <2>2 DEF Completes, At
  <2>4. (\E u \in Threads : Completes(u)') <=> \E u \in Threads : Completes(u)
    BY ONLY <2>3
  <2>5. CASE pc'[t] = <<"last">> /\ state = State(1, hd[t], TRUE)
    <3>1. st'[t] = State(1, hd'[t], TRUE)
      BY ONLY <2>1, <2>5
    <3>2. pc'[t] = <<"last">> /\ \A u \in Threads : u # t => pc'[u] = pc[u]
      BY ONLY <2>2, <2>5
    <3>3. /\ state'.syncing <=> \E u \in Threads : Completes(u)'
          /\ \A v, u \in Threads : Completes(v)' /\ Completes(u)' => v = u
      BY ONLY <2>1, <2>3, <2>4, Completer DEF Completer
    <3>4. ASSUME NEW u \in Threads, u # t
          PROVE  /\ Completes(u)' /\ ~At(u, "swapHeads")' => hd'[u] = state'.tag
                 /\ ~Completes(u)' \/ pc'[u][1] \in {"swapHeads", "last", "lastCas", "again"}
                    => todo'[u] = {}
                 /\ At(u, "headCas")' => pc'[u][3] # state'.tag
                 /\ pc'[u][1] \in {"last", "again"} => st'[u] = State(1, hd'[u], TRUE)
                 /\ At(u, "resign")' \/ (At(u, "resignCas")' /\ pc'[u][2] = "complete") =>
                    st'[u].count = 1 /\ ~st'[u].syncing
      BY ONLY <2>1, <2>3, <3>2, <3>4, Completer DEF Completer, At
    <3>5. /\ hd'[t] = state'.tag /\ todo'[t] = {}
          /\ pc'[t][1] = "last" /\ st'[t] = State(1, hd'[t], TRUE)
      BY ONLY <2>1, <3>1, <3>2
    <3> QED
      BY ONLY <3>3, <3>4, <3>5 DEF Completer, At
  <2>6. CASE pc'[t] = <<"lastCas">>
    BY ONLY <2>1, <2>2, <2>3, <2>4, <2>6, Completer DEF Completer, At
  <2> QED
    BY ONLY <2>2, <2>5, <2>6
<1>20. ASSUME NEW t \in Threads, Last(t) PROVE Completer'
  BY <1>20 DEF Last
<1>21. ASSUME NEW t \in Threads, Again(t) PROVE Completer'
  BY <1>21 DEF Again, Forget
<1>22. ASSUME NEW t \in Threads, Finish(t) PROVE Completer'
  BY <1>22 DEF Finish, Forget
<1>23. ASSUME NEW t \in Threads, BeginSync(t) PROVE Completer'
  BY <1>23 DEF BeginSync
<1>24. ASSUME NEW t \in Threads, NEW u \in Threads, HeadGone(t, u) PROVE Completer'
  BY <1>24 DEF HeadGone
<1>25. ASSUME NEW t \in Threads, NEW u \in Threads, HeadNew(t, u) PROVE Completer'
  BY <1>25 DEF HeadNew
<1>26. ASSUME NEW t \in Threads, NEW u \in Threads, HeadOld(t, u) PROVE Completer'
  BY <1>26 DEF HeadOld
<1>27. ASSUME NEW t \in Threads, NEW p \in Procs, Dispatch(t, p) PROVE Completer'
  BY <1>27 DEF Dispatch
<1>28. ASSUME NEW t \in Threads, NEW p \in Procs, Enroll(t, p) PROVE Completer'
  BY <1>28 DEF Enroll
<1> QED
  BY <1>1, <1>2, <1>3, <1>4, <1>5, <1>6, <1>7, <1>8, <1>9, <1>10, <1>11, <1>12, <1>13,
     <1>14, <1>15, <1>16, <1>17, <1>18, <1>19, <1>20, <1>21, <1>22, <1>23, <1>24,
     <1>25, <1>26, <1>27, <1>28
     DEF Next, Kernel, Syncing, Resigning, Completing, Running, Ended

(* A head is of the current phase, or of the one that ends. *)
LEMMA TaggedStep == BInv /\ [Next]_vars => Tagged'
<1> SUFFICES ASSUME BInv, [Next]_vars PROVE Tagged'
  OBVIOUS
<1> USE NullAssumption
    DEF BInv, TypeOK, Statuses, Tags, NextTag, State, Runs, Completer, Tagged,
        NobodyPassesEarly, Completes, Serves, Stale, At, Goto, Mark, bar, tmp
<1>1. CASE UNCHANGED vars
  BY <1>1 DEF vars
<1>2. ASSUME NEW t \in Threads, ReadHead(t) PROVE Tagged'
  BY <1>2 DEF ReadHead, HasHead
<1>3. ASSUME NEW t \in Threads, TakeStale(t) PROVE Tagged'
  <2>1. /\ At(t, "takeStale") /\ state' = state /\ heads' = heads /\ todo' = todo /\ st' = st
        /\ head'[t] = NULL /\ state.tag # NULL
        /\ \A u \in Threads : u # t => pc'[u] = pc[u] /\ head'[u] = head[u]
        /\ pc'[t] = <<"setBit">> \/ pc'[t] = <<"add", "setBit">>
    BY <1>3, NoTagAssumption DEF TakeStale
  <2>2. \A c \in Threads : At(c, "headCas") => pc[c][2] \in Threads
    BY PcShape
  <2> QED
    BY ONLY <2>1, <2>2, Tagged DEF Tagged, Stale, At
<1>4. ASSUME NEW t \in Threads, SetBit(t) PROVE Tagged'
  BY <1>4 DEF SetBit
<1>5. ASSUME NEW t \in Threads, SetHead(t) PROVE Tagged'
  <2>1. /\ At(t, "setHead") /\ state' = state /\ heads' = heads /\ todo' = todo /\ st' = st
        /\ head' = [head EXCEPT ![t] = state.tag] /\ pc' = [pc EXCEPT ![t] = <<"join">>]
    BY <1>5 DEF SetHead
  <2>2. t \in heads /\ head[t] = NULL /\ state.tag # NULL
    BY <2>1, NoTagAssumption
  <2>3. \A c \in Threads : ~At(c, "swapHeads")
    BY <2>1, SwapQuiet
  <2> QED
    BY <2>1, <2>2, <2>3
<1>6. ASSUME NEW t \in Threads, Join(t) PROVE Tagged'
  BY <1>6 DEF Join, Collect
<1>7. ASSUME NEW t \in Threads, SyncCas(t) PROVE Tagged'
  <2>1. /\ At(t, "syncCas") /\ head' = head /\ heads' = heads /\ todo' = todo /\ state = st[t]
        /\ \A u \in Threads : u # t => st'[u] = st[u]
    BY <1>7 DEF SyncCas, Forget
  <2>2. CASE state = State(1, state.tag, FALSE)
    <3>1. state' = State(1, NextTag(state.tag), TRUE) /\ pc' = [pc EXCEPT ![t] = <<"swapHeads">>]
      BY <1>7, <2>2 DEF SyncCas
    <3>2. state.count = 1 /\ ~state.syncing
      BY <2>1, <2>2
    <3>3. \A u \in Threads : u # t => cur[u] = NULL /\ ~Serves(u)
      BY <2>1, <3>2, OnlyOne
    <3>4. \A u \in Threads : ~Completes(u) /\ todo[u] = {}
      BY <3>2
    <3>5. \A u \in Threads : head[u] # NULL => head[u] = state.tag /\ u \in heads
      BY ONLY <3>4, Tagged DEF Tagged, Completes, At
    <3>6. state'.tag # state.tag /\ state'.tag # NULL
      BY <3>1, NoTagAssumption
    <3>7. pc'[t] = <<"swapHeads">> /\ \A u \in Threads : u # t => pc'[u] = pc[u]
      BY <3>1
    <3> QED
      BY ONLY <2>1, <3>3, <3>4, <3>5, <3>6, <3>7
      DEF Tagged, Stale, At, Serves, Completes
  <2>3. CASE ~(state = State(1, state.tag, FALSE))
    <3>1. /\ state'.syncing = state.syncing /\ state'.tag = state.tag
          /\ pc' = [pc EXCEPT ![t] = <<"run">>]
      BY <1>7, <2>3 DEF SyncCas
    <3> QED
      BY <2>1, <3>1
  <2> QED
    BY <2>2, <2>3
<1>8. ASSUME NEW t \in Threads, SyncCasFails(t) PROVE Tagged'
  BY <1>8 DEF SyncCasFails
<1>9. ASSUME NEW t \in Threads, ReadHeads(t) PROVE Tagged'
  BY <1>9 DEF ReadHeads
<1>10. ASSUME NEW t \in Threads, ResignCas(t) PROVE Tagged'
  <2>1. /\ At(t, "resignCas") /\ head' = head /\ heads' = heads /\ todo' = todo /\ state = st[t]
        /\ \A u \in Threads : u # t => st'[u] = st[u]
    BY <1>10 DEF ResignCas, Forget
  <2>2. CASE pc[t][2] = "complete"
    <3>1. state' = State(1, NextTag(state.tag), TRUE) /\ pc' = [pc EXCEPT ![t] = <<"swapHeads">>]
      BY <1>10, <2>2 DEF ResignCas
    <3>2. state.count = 1 /\ ~state.syncing
      BY <2>1, <2>2
    <3>3. \A u \in Threads : u # t => cur[u] = NULL /\ ~Serves(u)
      BY <2>1, <3>2, OnlyOne
    <3>4. \A u \in Threads : ~Completes(u) /\ todo[u] = {}
      BY <3>2
    <3>5. \A u \in Threads : head[u] # NULL => head[u] = state.tag /\ u \in heads
      BY ONLY <3>4, Tagged DEF Tagged, Completes, At
    <3>6. state'.tag # state.tag /\ state'.tag # NULL
      BY <3>1, NoTagAssumption
    <3>7. pc'[t] = <<"swapHeads">> /\ \A u \in Threads : u # t => pc'[u] = pc[u]
      BY <3>1
    <3> QED
      BY ONLY <2>1, <3>3, <3>4, <3>5, <3>6, <3>7
      DEF Tagged, Stale, At, Serves, Completes
  <2>3. CASE ~(pc[t][2] = "complete")
    <3>1. /\ state'.syncing = state.syncing /\ state'.tag = state.tag
          /\ pc' = [pc EXCEPT ![t] = <<"run">>]
      BY <1>10, <2>3 DEF ResignCas
    <3> QED
      BY <2>1, <3>1
  <2> QED
    BY <2>2, <2>3
<1>11. ASSUME NEW t \in Threads, BeginResign(t) PROVE Tagged'
  BY <1>11 DEF BeginResign
<1>12. ASSUME NEW t \in Threads, SwapHeads(t) PROVE Tagged'
  <2>1. /\ At(t, "swapHeads") /\ heads' = {} /\ todo' = [todo EXCEPT ![t] = heads]
        /\ state' = state /\ head' = head /\ st' = st
        /\ pc' = [pc EXCEPT ![t] = <<"local">>]
    BY <1>12 DEF SwapHeads
  <2>2. \A u \in Threads : ~Serves(u)
    BY <2>1, SwapQuiet
  <2>3. \A u \in Threads : todo[u] = {} /\ (u # t => ~Completes(u))
    BY <2>1
  <2>4. \A u \in Threads : head[u] # state.tag /\ (head[u] # NULL => u \in heads)
    BY <2>1, <2>3
  <2> QED
    BY <2>1, <2>2, <2>3, <2>4
<1>13. ASSUME NEW t \in Threads, Local(t) PROVE Tagged'
  <2>1. /\ At(t, "local") /\ state' = state /\ heads' = heads /\ todo' = todo /\ st' = st
        /\ head' = head
        /\ \A u \in Threads : u # t => pc'[u] = pc[u]
        /\ pc'[t] = <<"add", "clearLocal">> \/ pc'[t] = <<"others">>
    BY <1>13 DEF Local
  <2> QED
    BY ONLY <2>1, Tagged DEF Tagged, Stale, At
<1>14. ASSUME NEW t \in Threads, ClearLocal(t) PROVE Tagged'
  <2>1. /\ At(t, "clearLocal") /\ state' = state /\ heads' = heads /\ st' = st
        /\ todo' = [todo EXCEPT ![t] = todo[t] \ {t}]
        /\ head' = [head EXCEPT ![t] = NULL] /\ pc' = [pc EXCEPT ![t] = <<"others">>]
    BY <1>14 DEF ClearLocal
  <2>2. \A u, c \in Threads : u # t => (u \in todo'[c] <=> u \in todo[c])
    BY <2>1
  <2>3. \A c \in Threads : ~At(c, "headCas") /\ ~At(c, "swapHeads")
    BY <2>1
  <2>4. /\ pc'[t] = <<"others">> /\ head'[t] = NULL /\ state.tag # NULL
        /\ \A u \in Threads : u # t => pc'[u] = pc[u] /\ head'[u] = head[u]
    BY <2>1, NoTagAssumption
  <2>5. At(t, "clearLocal") /\ state' = state /\ heads' = heads /\ st' = st
    BY <2>1
  <2> QED
    BY ONLY <2>2, <2>3, <2>4, <2>5, Tagged DEF Tagged, Stale, At
<1>15. ASSUME NEW t \in Threads, Add(t) PROVE Tagged'
  BY <1>15 DEF Add
<1>16. ASSUME NEW t \in Threads, Release(t) PROVE Tagged'
  <2>1. /\ At(t, "release") /\ state' = state /\ heads' = heads /\ todo' = todo /\ st' = st
        /\ head' = head /\ pc' = [pc EXCEPT ![t] = <<pc[t][2]>>]
        /\ pc[t][2] \in {"setBit", "clearLocal", "others"}
    BY <1>16, PcShape DEF Release
  <2> QED
    BY <2>1
<1>17. ASSUME NEW t \in Threads, HeadTaken(t) PROVE Tagged'
  <2> DEFINE u == pc[t][2]
  <2>1. /\ At(t, "headCas") /\ state' = state /\ heads' = heads /\ st' = st
        /\ todo' = [todo EXCEPT ![t] = todo[t] \ {u}]
        /\ head' = [head EXCEPT ![u] = NULL] /\ pc' = [pc EXCEPT ![t] = <<"add", "others">>]
    BY <1>17 DEF HeadTaken
  <2>2. u \in Threads /\ u = pc[t][2] /\ head[u] = pc[t][3] /\ pc[t][3] \in Tags
    BY <1>17, <2>1, PcShape DEF HeadTaken
  <2> HIDE DEF u
  <2>3. \A w, c \in Threads : w # u => (w \in todo'[c] <=> w \in todo[c])
    BY <2>1
  <2>4. \A c \in Threads : ~At(c, "swapHeads") /\ (c # t => ~At(c, "headCas"))
    BY <2>1
  <2>5. head[u] # NULL /\ head[u] # state.tag /\ state.tag # NULL
    BY <2>1, <2>2, NoTagAssumption
  <2>6. /\ state' = state /\ heads' = heads /\ st' = st
        /\ pc'[t] = <<"add", "others">> /\ head'[u] = NULL
        /\ \A w \in Threads : (w # t => pc'[w] = pc[w]) /\ (w # u => head'[w] = head[w])
    BY <2>1, <2>2
  <2> QED
    BY ONLY <2>1, <2>2, <2>3, <2>4, <2>5, <2>6, Tagged DEF Tagged, Stale, At
<1>18. ASSUME NEW t \in Threads, HeadLost(t) PROVE Tagged'
  <2> DEFINE u == pc[t][2]
  <2>1. /\ At(t, "headCas") /\ state' = state /\ heads' = heads /\ st' = st /\ head' = head
        /\ todo' = [todo EXCEPT ![t] = todo[t] \ {u}] /\ pc' = [pc EXCEPT ![t] = <<"others">>]
    BY <1>18 DEF HeadLost
  <2>2. u \in Threads /\ head[u] \in {NULL, state.tag}
    BY <1>18, <2>1, PcShape DEF HeadLost
  <2> HIDE DEF u
  <2>3. \A w, c \in Threads : w # u => (w \in todo'[c] <=> w \in todo[c])
    BY <2>1
  <2>4. \A c \in Threads : ~At(c, "swapHeads") /\ (c # t => ~At(c, "headCas"))
    BY <2>1
  <2> QED
    BY <2>1, <2>2, <2>3, <2>4
<1>19. ASSUME NEW t \in Threads, ReadState(t) PROVE Tagged'
  BY <1>19 DEF ReadState
<1>20. ASSUME NEW t \in Threads, Last(t) PROVE Tagged'
  BY <1>20 DEF Last
<1>21. ASSUME NEW t \in Threads, Again(t) PROVE Tagged'
  <2>1. /\ At(t, "again") /\ state = st[t] /\ head' = head /\ heads' = heads /\ todo' = todo
        /\ \A u \in Threads : u # t => st'[u] = st[u]
        /\ state' = State(1, NextTag(hd[t]), TRUE) /\ pc' = [pc EXCEPT ![t] = <<"swapHeads">>]
    BY <1>21 DEF Again, Forget
  <2>2. state = State(1, hd[t], TRUE) /\ hd[t] = state.tag
    BY <2>1
  <2>3. state.count = 1 /\ state.syncing
    BY <2>2
  <2>4. \A u \in Threads : cur[u] = NULL /\ ~Serves(u)
    BY <2>3, NoneLeft
  <2>5. \A u \in Threads : todo[u] = {} /\ (u # t => ~Completes(u))
    BY <2>1
  <2>6. \A u \in Threads : head[u] # NULL => head[u] = state.tag /\ u \in heads
    BY <2>1, <2>5
  <2>7. state'.tag # state.tag /\ state'.tag # NULL
    BY <2>1, <2>2, NoTagAssumption
  <2>8. /\ pc'[t] = <<"swapHeads">> /\ \A u \in Threads : u # t => pc'[u] = pc[u]
        /\ head' = head /\ heads' = heads /\ todo' = todo
    BY <2>1
  <2> QED
    BY ONLY <2>4, <2>5, <2>6, <2>7, <2>8 DEF Tagged, Stale, At, Serves, Completes
<1>22. ASSUME NEW t \in Threads, Finish(t) PROVE Tagged'
  BY <1>22 DEF Finish, Forget
<1>23. ASSUME NEW t \in Threads, BeginSync(t) PROVE Tagged'
  BY <1>23 DEF BeginSync
<1>24. ASSUME NEW t \in Threads, NEW u \in Threads, HeadGone(t, u) PROVE Tagged'
  BY <1>24 DEF HeadGone
<1>25. ASSUME NEW t \in Threads, NEW u \in Threads, HeadNew(t, u) PROVE Tagged'
  BY <1>25 DEF HeadNew
<1>26. ASSUME NEW t \in Threads, NEW u \in Threads, HeadOld(t, u) PROVE Tagged'
  BY <1>26 DEF HeadOld
<1>27. ASSUME NEW t \in Threads, NEW p \in Procs, Dispatch(t, p) PROVE Tagged'
  BY <1>27 DEF Dispatch
<1>28. ASSUME NEW t \in Threads, NEW p \in Procs, Enroll(t, p) PROVE Tagged'
  BY <1>28 DEF Enroll
<1> QED
  BY <1>1, <1>2, <1>3, <1>4, <1>5, <1>6, <1>7, <1>8, <1>9, <1>10, <1>11, <1>12, <1>13,
     <1>14, <1>15, <1>16, <1>17, <1>18, <1>19, <1>20, <1>21, <1>22, <1>23, <1>24,
     <1>25, <1>26, <1>27, <1>28
     DEF Next, Kernel, Syncing, Resigning, Completing, Running, Ended

(* A waiting process is under one head, or taken from one. *)
LEMMA CollectedStep == BInv /\ [Next]_vars => Collected'
<1> SUFFICES ASSUME BInv, [Next]_vars PROVE Collected'
  OBVIOUS
<1> USE NullAssumption
    DEF BInv, TypeOK, Statuses, Tags, NextTag, State, Runs, Completer, Tagged,
        Collected, Completes, Serves, Stale, At, Goto, Mark, bar, tmp
<1>1. CASE UNCHANGED vars
  BY <1>1 DEF vars
<1>2. ASSUME NEW t \in Threads, ReadHead(t) PROVE Collected'
  BY <1>2 DEF ReadHead, HasHead
<1>3. ASSUME NEW t \in Threads, TakeStale(t) PROVE Collected'
  <2>1. /\ At(t, "takeStale") /\ status' = status /\ cur' = cur
        /\ head' = [head EXCEPT ![t] = NULL] /\ held' = [held EXCEPT ![t] = {}]
        /\ taken' = [taken EXCEPT ![t] = held[t]]
    BY <1>3 DEF TakeStale
  <2>2. taken[t] = {} /\ \A p \in held[t] : status[p] = "in"
    BY ONLY <2>1, Collected DEF Collected, At
  <2>3. \/ pc' = [pc EXCEPT ![t] = <<"add", "setBit">>]
        \/ pc' = [pc EXCEPT ![t] = <<"setBit">>] /\ held[t] = {}
    BY <1>3 DEF TakeStale
  <2>4. /\ \A u \in Threads : u # t => /\ pc'[u] = pc[u] /\ taken'[u] = taken[u]
                                       /\ held'[u] = held[u] /\ head'[u] = head[u]
        /\ taken'[t] = held[t] /\ held'[t] = {} /\ status' = status /\ cur' = cur
        /\ \/ pc'[t] = <<"add", "setBit">>
           \/ pc'[t] = <<"setBit">> /\ held[t] = {}
    BY <2>1, <2>3
  <2> QED
    BY ONLY <2>2, <2>4, Collected DEF Collected, At
<1>4. ASSUME NEW t \in Threads, SetBit(t) PROVE Collected'
  BY <1>4 DEF SetBit
<1>5. ASSUME NEW t \in Threads, SetHead(t) PROVE Collected'
  BY <1>5 DEF SetHead
<1>6. ASSUME NEW t \in Threads, Join(t) PROVE Collected'
  <2>1. /\ At(t, "join") /\ cur[t] \in Procs /\ status[cur[t]] = "on" /\ head[t] # NULL
    <3>1. At(t, "join") /\ Serves(t)
      BY <1>6 DEF Join
    <3>2. head[t] = state.tag
      BY ONLY <3>1, Tagged DEF Tagged, At
    <3> QED
      BY <3>1, <3>2, NoTagAssumption
  <2>2. /\ held' = [held EXCEPT ![t] = held[t] \cup {cur[t]}] /\ taken' = taken /\ head' = head
        /\ cur' = cur /\ pc' = [pc EXCEPT ![t] = <<"syncCas">>]
        /\ status' = [p \in Procs |-> IF p \in {cur[t]} THEN "joining" ELSE status[p]]
    BY <1>6, <2>1 DEF Join, Collect
  <2>3. \A u \in Threads : cur[t] \notin held[u] /\ cur[t] \notin taken[u]
    BY ONLY <2>1, Collected DEF Collected
  <2>4. /\ \A u \in Threads : u # t => pc'[u] = pc[u] /\ held'[u] = held[u]
        /\ pc'[t] = <<"syncCas">> /\ held'[t] = held[t] \cup {cur[t]}
        /\ \A u \in Threads : held[u] \subseteq Procs /\ taken[u] \subseteq Procs
        /\ \A p \in Procs : status'[p] = IF p = cur[t] THEN "joining" ELSE status[p]
        /\ taken' = taken /\ head' = head /\ cur' = cur
    BY <2>2
  <2> QED
    BY ONLY <2>1, <2>3, <2>4, Collected DEF Collected, At
<1>7. ASSUME NEW t \in Threads, SyncCas(t) PROVE Collected'
  BY <1>7 DEF SyncCas, Forget
<1>8. ASSUME NEW t \in Threads, SyncCasFails(t) PROVE Collected'
  BY <1>8 DEF SyncCasFails
<1>9. ASSUME NEW t \in Threads, ReadHeads(t) PROVE Collected'
  BY <1>9 DEF ReadHeads
<1>10. ASSUME NEW t \in Threads, ResignCas(t) PROVE Collected'
  BY <1>10 DEF ResignCas, Forget
<1>11. ASSUME NEW t \in Threads, BeginResign(t) PROVE Collected'
  BY <1>11 DEF BeginResign
<1>12. ASSUME NEW t \in Threads, SwapHeads(t) PROVE Collected'
  BY <1>12 DEF SwapHeads
<1>13. ASSUME NEW t \in Threads, Local(t) PROVE Collected'
  <2>1. /\ At(t, "local") /\ status' = status /\ cur' = cur /\ head' = head
        /\ taken[t] = {} /\ \A p \in held[t] : status[p] = "in"
    BY <1>13 DEF Local
  <2>2. CASE t \in todo[t]
    <3>1. /\ pc' = [pc EXCEPT ![t] = <<"add", "clearLocal">>] /\ held' = [held EXCEPT ![t] = {}]
          /\ taken' = [taken EXCEPT ![t] = held[t]]
      BY <1>13, <2>2 DEF Local
    <3>2. \A u \in Threads : held'[u] \cup taken'[u] = held[u] \cup taken[u]
      BY <2>1, <3>1
    <3> QED
      BY <2>1, <3>1, <3>2
  <2>3. CASE t \notin todo[t]
    <3>1. pc' = [pc EXCEPT ![t] = <<"others">>] /\ held' = held /\ taken' = taken
      BY <1>13, <2>3 DEF Local
    <3> QED
      BY <2>1, <3>1
  <2> QED
    BY <2>2, <2>3
<1>14. ASSUME NEW t \in Threads, ClearLocal(t) PROVE Collected'
  BY <1>14 DEF ClearLocal
<1>15. ASSUME NEW t \in Threads, Add(t) PROVE Collected'
  <2>1. /\ At(t, "add") /\ held' = held /\ taken' = taken /\ head' = head /\ cur' = cur
        /\ pc' = [pc EXCEPT ![t] = <<"release", pc[t][2]>>]
        /\ status' = [p \in Procs |-> IF p \in taken[t] THEN "counted" ELSE status[p]]
    BY <1>15 DEF Add
  <2>2. \A p \in taken[t] : p \in Procs /\ status[p] = "in"
    BY <2>1
  <2>3. /\ \A u \in Threads : u # t => pc'[u] = pc[u]
        /\ pc'[t] = <<"release", pc[t][2]>> /\ pc[t] = <<"add", pc[t][2]>>
        /\ \A u \in Threads : held[u] \subseteq Procs /\ taken[u] \subseteq Procs
        /\ \A p \in Procs : status'[p] = IF p \in taken[t] THEN "counted" ELSE status[p]
        /\ held' = held /\ taken' = taken /\ head' = head /\ cur' = cur
    BY <2>1, PcShape
  <2> QED
    BY ONLY <2>2, <2>3, Collected DEF Collected, At
<1>16. ASSUME NEW t \in Threads, Release(t) PROVE Collected'
  <2>1. /\ At(t, "release") /\ held' = held /\ head' = head /\ cur' = cur
        /\ taken' = [taken EXCEPT ![t] = {}]
        /\ pc' = [pc EXCEPT ![t] = <<pc[t][2]>>] /\ pc[t] = <<"release", pc[t][2]>>
        /\ pc[t][2] \in {"setBit", "clearLocal", "others"}
        /\ status' = [p \in Procs |-> IF p \in taken[t] THEN "ready" ELSE status[p]]
    BY <1>16, PcShape DEF Release
  <2>2. \A p \in taken[t] : p \in Procs /\ status[p] = "counted"
    BY <2>1
  <2>3. /\ \A u \in Threads : u # t => pc'[u] = pc[u] /\ taken'[u] = taken[u]
        /\ taken'[t] = {} /\ pc'[t] = <<pc[t][2]>>
        /\ \A u \in Threads : held[u] \subseteq Procs /\ taken[u] \subseteq Procs
        /\ \A p \in Procs : status'[p] = IF p \in taken[t] THEN "ready" ELSE status[p]
        /\ held' = held /\ head' = head /\ cur' = cur
    BY <2>1
  <2>4. pc[t] = <<"release", pc[t][2]>> /\ pc[t][2] \in {"setBit", "clearLocal", "others"}
    BY <2>1
  <2>5. CASE pc[t][2] = "clearLocal"
    <3>1. held[t] = {}
      BY ONLY <2>4, <2>5, Collected DEF Collected
    <3> QED
      BY ONLY <2>2, <2>3, <2>4, <2>5, <3>1, Collected DEF Collected, At
  <2>6. CASE pc[t][2] \in {"setBit", "others"}
    BY ONLY <2>2, <2>3, <2>4, <2>6, Collected DEF Collected, At
  <2> QED
    BY ONLY <2>4, <2>5, <2>6
<1>17. ASSUME NEW t \in Threads, HeadTaken(t) PROVE Collected'
  <2> DEFINE u == pc[t][2]
  <2>1. /\ At(t, "headCas") /\ status' = status /\ cur' = cur
        /\ head' = [head EXCEPT ![u] = NULL] /\ held' = [held EXCEPT ![u] = {}]
        /\ taken' = [taken EXCEPT ![t] = held[u]] /\ pc' = [pc EXCEPT ![t] = <<"add", "others">>]
    BY <1>17 DEF HeadTaken
  <2>2. u \in Threads /\ u = pc[t][2] /\ head[u] = pc[t][3] /\ pc[t][3] \in Tags
    BY <1>17, <2>1, PcShape DEF HeadTaken
  <2>3. ~At(u, "syncCas")
    BY <2>1, <2>2
  <2> HIDE DEF u
  <2>4. taken[t] = {} /\ \A p \in held[u] : status[p] = "in"
    BY <2>1, <2>2, <2>3
  <2>5. /\ \A w \in Threads : w # t => pc'[w] = pc[w] /\ taken'[w] = taken[w]
        /\ \A w \in Threads : w # u => held'[w] = held[w] /\ head'[w] = head[w]
        /\ pc'[t] = <<"add", "others">> /\ taken'[t] = held[u] /\ held'[u] = {}
        /\ status' = status /\ cur' = cur
    BY <2>1, <2>2
  <2> QED
    BY ONLY <2>1, <2>2, <2>3, <2>4, <2>5, Collected DEF Collected, At
<1>18. ASSUME NEW t \in Threads, HeadLost(t) PROVE Collected'
  BY <1>18 DEF HeadLost
<1>19. ASSUME NEW t \in Threads, ReadState(t) PROVE Collected'
  BY <1>19 DEF ReadState
<1>20. ASSUME NEW t \in Threads, Last(t) PROVE Collected'
  BY <1>20 DEF Last
<1>21. ASSUME NEW t \in Threads, Again(t) PROVE Collected'
  BY <1>21 DEF Again, Forget
<1>22. ASSUME NEW t \in Threads, Finish(t) PROVE Collected'
  BY <1>22 DEF Finish, Forget
<1>23. ASSUME NEW t \in Threads, BeginSync(t) PROVE Collected'
  BY <1>23 DEF BeginSync
<1>24. ASSUME NEW t \in Threads, NEW u \in Threads, HeadGone(t, u) PROVE Collected'
  BY <1>24 DEF HeadGone
<1>25. ASSUME NEW t \in Threads, NEW u \in Threads, HeadNew(t, u) PROVE Collected'
  BY <1>25 DEF HeadNew
<1>26. ASSUME NEW t \in Threads, NEW u \in Threads, HeadOld(t, u) PROVE Collected'
  BY <1>26 DEF HeadOld
<1>27. ASSUME NEW t \in Threads, NEW p \in Procs, Dispatch(t, p) PROVE Collected'
  BY <1>27 DEF Dispatch
<1>28. ASSUME NEW t \in Threads, NEW p \in Procs, Enroll(t, p) PROVE Collected'
  BY <1>28 DEF Enroll
<1> QED
  BY <1>1, <1>2, <1>3, <1>4, <1>5, <1>6, <1>7, <1>8, <1>9, <1>10, <1>11, <1>12, <1>13,
     <1>14, <1>15, <1>16, <1>17, <1>18, <1>19, <1>20, <1>21, <1>22, <1>23, <1>24,
     <1>25, <1>26, <1>27, <1>28
     DEF Next, Kernel, Syncing, Resigning, Completing, Running, Ended

(* A phase ends when the last process that is absent comes or resigns. *)
LEMMA NobodyPassesEarlyStep == BInv /\ [Next]_vars => NobodyPassesEarly'
<1> SUFFICES ASSUME BInv, [Next]_vars PROVE NobodyPassesEarly'
  OBVIOUS
<1> USE NullAssumption
    DEF BInv, TypeOK, Statuses, Tags, NextTag, State, Runs, Completer,
        NobodyPassesEarly, Collected, Completes, Serves, Stale, At, Goto, Mark, bar, tmp
<1>1. CASE UNCHANGED vars
  BY <1>1 DEF vars
<1>2. ASSUME NEW t \in Threads, ReadHead(t) PROVE NobodyPassesEarly'
  BY <1>2 DEF ReadHead, HasHead
<1>3. ASSUME NEW t \in Threads, TakeStale(t) PROVE NobodyPassesEarly'
  BY <1>3 DEF TakeStale
<1>4. ASSUME NEW t \in Threads, SetBit(t) PROVE NobodyPassesEarly'
  BY <1>4 DEF SetBit
<1>5. ASSUME NEW t \in Threads, SetHead(t) PROVE NobodyPassesEarly'
  BY <1>5 DEF SetHead
<1>6. ASSUME NEW t \in Threads, Join(t) PROVE NobodyPassesEarly'
  BY <1>6 DEF Join, Collect
<1>7. ASSUME NEW t \in Threads, SyncCas(t) PROVE NobodyPassesEarly'
  <2>1. /\ At(t, "syncCas") /\ state = st[t]
        /\ status' = [p \in Procs |-> IF p \in {cur[t]} THEN "in" ELSE status[p]]
    BY <1>7 DEF SyncCas
  <2>2. CASE state = State(1, state.tag, FALSE)
    <3>1. pc' = [pc EXCEPT ![t] = <<"swapHeads">>]
      BY <1>7, <2>2 DEF SyncCas
    <3>2. state.count = 1 /\ ~state.syncing
      BY <2>2
    <3>3. \A p \in Procs : p # cur[t] => status[p] \in {"in", "out"}
      BY <2>1, <3>2, OnlyOne
    <3> QED
      BY <2>1, <3>3
  <2>3. CASE ~(state = State(1, state.tag, FALSE))
    <3>1. pc' = [pc EXCEPT ![t] = <<"run">>]
      BY <1>7, <2>3 DEF SyncCas
    <3> QED
      BY <2>1, <3>1
  <2> QED
    BY <2>2, <2>3
<1>8. ASSUME NEW t \in Threads, SyncCasFails(t) PROVE NobodyPassesEarly'
  BY <1>8 DEF SyncCasFails
<1>9. ASSUME NEW t \in Threads, ReadHeads(t) PROVE NobodyPassesEarly'
  BY <1>9 DEF ReadHeads
<1>10. ASSUME NEW t \in Threads, ResignCas(t) PROVE NobodyPassesEarly'
  <2>1. /\ At(t, "resignCas") /\ state = st[t]
        /\ status' = [p \in Procs |-> IF p \in {cur[t]} THEN "out" ELSE status[p]]
    BY <1>10 DEF ResignCas
  <2>2. CASE pc[t][2] = "complete"
    <3>1. pc' = [pc EXCEPT ![t] = <<"swapHeads">>]
      BY <1>10, <2>2 DEF ResignCas
    <3>2. state.count = 1 /\ ~state.syncing
      BY <2>1, <2>2
    <3>3. \A p \in Procs : p # cur[t] => status[p] \in {"in", "out"}
      BY <2>1, <3>2, OnlyOne
    <3> QED
      BY <2>1, <3>3
  <2>3. CASE ~(pc[t][2] = "complete")
    <3>1. pc' = [pc EXCEPT ![t] = <<"run">>]
      BY <1>10, <2>3 DEF ResignCas
    <3> QED
      BY <2>1, <3>1
  <2> QED
    BY <2>2, <2>3
<1>11. ASSUME NEW t \in Threads, BeginResign(t) PROVE NobodyPassesEarly'
  BY <1>11 DEF BeginResign
<1>12. ASSUME NEW t \in Threads, SwapHeads(t) PROVE NobodyPassesEarly'
  BY <1>12 DEF SwapHeads
<1>13. ASSUME NEW t \in Threads, Local(t) PROVE NobodyPassesEarly'
  <2>1. /\ status' = status /\ \A u \in Threads : u # t => pc'[u] = pc[u]
        /\ pc'[t] = <<"add", "clearLocal">> \/ pc'[t] = <<"others">>
    BY <1>13 DEF Local
  <2> QED
    BY ONLY <2>1, NobodyPassesEarly DEF NobodyPassesEarly, At
<1>14. ASSUME NEW t \in Threads, ClearLocal(t) PROVE NobodyPassesEarly'
  BY <1>14 DEF ClearLocal
<1>15. ASSUME NEW t \in Threads, Add(t) PROVE NobodyPassesEarly'
  <2>1. At(t, "add") /\ pc' = [pc EXCEPT ![t] = <<"release", pc[t][2]>>]
    BY <1>15 DEF Add
  <2>2. Serves(t) \/ Completes(t)
    BY <2>1
  <2>3. \A u \in Threads : ~At(u, "swapHeads")
    BY <2>1, <2>2, SwapQuiet
  <2> QED
    BY <2>1, <2>3
<1>16. ASSUME NEW t \in Threads, Release(t) PROVE NobodyPassesEarly'
  <2>1. /\ At(t, "release") /\ pc' = [pc EXCEPT ![t] = <<pc[t][2]>>]
        /\ pc[t][2] \in {"setBit", "clearLocal", "others"}
    BY <1>16, PcShape DEF Release
  <2>2. Serves(t) \/ Completes(t)
    BY <2>1
  <2>3. \A u \in Threads : ~At(u, "swapHeads")
    BY <2>1, <2>2, SwapQuiet
  <2> QED
    BY <2>1, <2>3
<1>17. ASSUME NEW t \in Threads, HeadTaken(t) PROVE NobodyPassesEarly'
  BY <1>17 DEF HeadTaken
<1>18. ASSUME NEW t \in Threads, HeadLost(t) PROVE NobodyPassesEarly'
  BY <1>18 DEF HeadLost
<1>19. ASSUME NEW t \in Threads, ReadState(t) PROVE NobodyPassesEarly'
  BY <1>19 DEF ReadState
<1>20. ASSUME NEW t \in Threads, Last(t) PROVE NobodyPassesEarly'
  BY <1>20 DEF Last
<1>21. ASSUME NEW t \in Threads, Again(t) PROVE NobodyPassesEarly'
  <2>1. At(t, "again") /\ state = st[t] /\ status' = status
    BY <1>21 DEF Again
  <2>2. state = State(1, hd[t], TRUE)
    BY <2>1
  <2>3. state.count = 1 /\ state.syncing
    BY <2>2
  <2> QED
    BY <2>1, <2>3, NoneLeft
<1>22. ASSUME NEW t \in Threads, Finish(t) PROVE NobodyPassesEarly'
  BY <1>22 DEF Finish, Forget
<1>23. ASSUME NEW t \in Threads, BeginSync(t) PROVE NobodyPassesEarly'
  BY <1>23 DEF BeginSync
<1>24. ASSUME NEW t \in Threads, NEW u \in Threads, HeadGone(t, u) PROVE NobodyPassesEarly'
  BY <1>24 DEF HeadGone
<1>25. ASSUME NEW t \in Threads, NEW u \in Threads, HeadNew(t, u) PROVE NobodyPassesEarly'
  BY <1>25 DEF HeadNew
<1>26. ASSUME NEW t \in Threads, NEW u \in Threads, HeadOld(t, u) PROVE NobodyPassesEarly'
  BY <1>26 DEF HeadOld
<1>27. ASSUME NEW t \in Threads, NEW p \in Procs, Dispatch(t, p) PROVE NobodyPassesEarly'
  BY <1>27 DEF Dispatch
<1>28. ASSUME NEW t \in Threads, NEW p \in Procs, Enroll(t, p) PROVE NobodyPassesEarly'
  <2>1. \A u \in Threads : ~At(u, "swapHeads")
    BY <1>28, SwapQuiet DEF Enroll
  <2> QED
    BY <1>28, <2>1 DEF Enroll
<1> QED
  BY <1>1, <1>2, <1>3, <1>4, <1>5, <1>6, <1>7, <1>8, <1>9, <1>10, <1>11, <1>12, <1>13,
     <1>14, <1>15, <1>16, <1>17, <1>18, <1>19, <1>20, <1>21, <1>22, <1>23, <1>24,
     <1>25, <1>26, <1>27, <1>28
     DEF Next, Kernel, Syncing, Resigning, Completing, Running, Ended

(* The count follows the processes. *)
LEMMA CountIsAbsentStep == BInv /\ [Next]_vars => CountIsAbsent'
<1> SUFFICES ASSUME BInv, [Next]_vars PROVE CountIsAbsent'
  OBVIOUS
<1> USE NullAssumption
    DEF BInv, TypeOK, Statuses, Tags, NextTag, State, Runs, Collected, Completes,
        Serves, Stale, At, Goto, Mark, bar, tmp
<1>1. CASE UNCHANGED vars
  BY <1>1 DEF vars, CountIsAbsent, Absent
<1>2. ASSUME NEW t \in Threads, ReadHead(t) PROVE CountIsAbsent'
  <2>1. status' = status /\ state'.count = state.count /\ state'.syncing = state.syncing
    BY <1>2 DEF ReadHead
  <2>2. Absent' = Absent
    BY <2>1 DEF Absent
  <2> QED
    BY ONLY <2>1, <2>2, CountIsAbsent DEF CountIsAbsent
<1>3. ASSUME NEW t \in Threads, TakeStale(t) PROVE CountIsAbsent'
  <2>1. status' = status /\ state'.count = state.count /\ state'.syncing = state.syncing
    BY <1>3 DEF TakeStale
  <2>2. Absent' = Absent
    BY <2>1 DEF Absent
  <2> QED
    BY ONLY <2>1, <2>2, CountIsAbsent DEF CountIsAbsent
<1>4. ASSUME NEW t \in Threads, SetBit(t) PROVE CountIsAbsent'
  <2>1. status' = status /\ state'.count = state.count /\ state'.syncing = state.syncing
    BY <1>4 DEF SetBit
  <2>2. Absent' = Absent
    BY <2>1 DEF Absent
  <2> QED
    BY ONLY <2>1, <2>2, CountIsAbsent DEF CountIsAbsent
<1>5. ASSUME NEW t \in Threads, SetHead(t) PROVE CountIsAbsent'
  <2>1. status' = status /\ state'.count = state.count /\ state'.syncing = state.syncing
    BY <1>5 DEF SetHead
  <2>2. Absent' = Absent
    BY <2>1 DEF Absent
  <2> QED
    BY ONLY <2>1, <2>2, CountIsAbsent DEF CountIsAbsent
<1>6. ASSUME NEW t \in Threads, Join(t) PROVE CountIsAbsent'
  <2>1. \A q \in Procs : q \in Absent' <=> q \in Absent
    BY <1>6 DEF Join, bar, Absent
  <2>2. Absent' = Absent
    BY ONLY <2>1 DEF Absent
  <2>3. state'.count = state.count /\ state'.syncing = state.syncing
    BY <1>6 DEF Join
  <2> QED
    BY ONLY <2>2, <2>3, CountIsAbsent DEF CountIsAbsent
<1>7. ASSUME NEW t \in Threads, SyncCas(t) PROVE CountIsAbsent'
  <2>1. /\ At(t, "syncCas") /\ state = st[t] /\ cur[t] \in Procs /\ cur[t] \in Absent
        /\ status' = [q \in Procs |-> IF q \in {cur[t]} THEN "in" ELSE status[q]]
    BY <1>7, ServedIsAbsent DEF SyncCas
  <2>2. \A q \in Procs : q \in Absent' <=> q \in Absent /\ q # cur[t]
    BY <2>1 DEF Absent
  <2>3. Absent' = Absent \ {cur[t]}
    BY ONLY <2>2 DEF Absent
  <2>4. Cardinality(Absent') = Cardinality(Absent) - 1
    BY ONLY <2>1, <2>3, AbsentFinite, FS_RemoveElement
  <2>5. CASE state = State(1, state.tag, FALSE)
    <3>1. state' = State(1, NextTag(state.tag), TRUE)
      BY <1>7, <2>5 DEF SyncCas
    <3>2. state'.count = 1 /\ state'.syncing
      BY ONLY <3>1 DEF State
    <3>3. state.count = 1 /\ ~state.syncing
      BY ONLY <2>5 DEF State
    <3> QED
      BY ONLY <2>4, <3>2, <3>3, AbsentFinite, CountIsAbsent DEF CountIsAbsent
  <2>6. CASE ~(state = State(1, state.tag, FALSE))
    <3>1. state'.count = state.count - 1 /\ state'.syncing = state.syncing
      BY <1>7, <2>6 DEF SyncCas
    <3> QED
      BY ONLY <2>4, <3>1, AbsentFinite, CountIsAbsent DEF CountIsAbsent
  <2> QED
    BY ONLY <2>5, <2>6
<1>8. ASSUME NEW t \in Threads, SyncCasFails(t) PROVE CountIsAbsent'
  <2>1. status' = status /\ state'.count = state.count /\ state'.syncing = state.syncing
    BY <1>8 DEF SyncCasFails
  <2>2. Absent' = Absent
    BY <2>1 DEF Absent
  <2> QED
    BY ONLY <2>1, <2>2, CountIsAbsent DEF CountIsAbsent
<1>9. ASSUME NEW t \in Threads, ReadHeads(t) PROVE CountIsAbsent'
  <2>1. status' = status /\ state'.count = state.count /\ state'.syncing = state.syncing
    BY <1>9 DEF ReadHeads
  <2>2. Absent' = Absent
    BY <2>1 DEF Absent
  <2> QED
    BY ONLY <2>1, <2>2, CountIsAbsent DEF CountIsAbsent
<1>10. ASSUME NEW t \in Threads, ResignCas(t) PROVE CountIsAbsent'
  <2>1. /\ At(t, "resignCas") /\ state = st[t] /\ cur[t] \in Procs /\ cur[t] \in Absent
        /\ status' = [q \in Procs |-> IF q \in {cur[t]} THEN "out" ELSE status[q]]
    BY <1>10, ServedIsAbsent DEF ResignCas
  <2>2. \A q \in Procs : q \in Absent' <=> q \in Absent /\ q # cur[t]
    BY <2>1 DEF Absent
  <2>3. Absent' = Absent \ {cur[t]}
    BY ONLY <2>2 DEF Absent
  <2>4. Cardinality(Absent') = Cardinality(Absent) - 1
    BY ONLY <2>1, <2>3, AbsentFinite, FS_RemoveElement
  <2>5. CASE pc[t][2] = "complete"
    <3>1. state' = State(1, NextTag(state.tag), TRUE)
      BY <1>10, <2>5 DEF ResignCas
    <3>2. state'.count = 1 /\ state'.syncing
      BY ONLY <3>1 DEF State
    <3>3. state.count = 1 /\ ~state.syncing
      BY ONLY <2>1, <2>5, Completer DEF Completer, At
    <3> QED
      BY ONLY <2>4, <3>2, <3>3, AbsentFinite, CountIsAbsent DEF CountIsAbsent
  <2>6. CASE ~(pc[t][2] = "complete")
    <3>1. state'.count = state.count - 1 /\ state'.syncing = state.syncing
      BY <1>10, <2>6 DEF ResignCas
    <3> QED
      BY ONLY <2>4, <3>1, AbsentFinite, CountIsAbsent DEF CountIsAbsent
  <2> QED
    BY ONLY <2>5, <2>6
<1>11. ASSUME NEW t \in Threads, BeginResign(t) PROVE CountIsAbsent'
  <2>1. status' = status /\ state'.count = state.count /\ state'.syncing = state.syncing
    BY <1>11 DEF BeginResign
  <2>2. Absent' = Absent
    BY <2>1 DEF Absent
  <2> QED
    BY ONLY <2>1, <2>2, CountIsAbsent DEF CountIsAbsent
<1>12. ASSUME NEW t \in Threads, SwapHeads(t) PROVE CountIsAbsent'
  <2>1. status' = status /\ state'.count = state.count /\ state'.syncing = state.syncing
    BY <1>12 DEF SwapHeads
  <2>2. Absent' = Absent
    BY <2>1 DEF Absent
  <2> QED
    BY ONLY <2>1, <2>2, CountIsAbsent DEF CountIsAbsent
<1>13. ASSUME NEW t \in Threads, Local(t) PROVE CountIsAbsent'
  <2>1. status' = status /\ state'.count = state.count /\ state'.syncing = state.syncing
    BY <1>13 DEF Local
  <2>2. Absent' = Absent
    BY <2>1 DEF Absent
  <2> QED
    BY ONLY <2>1, <2>2, CountIsAbsent DEF CountIsAbsent
<1>14. ASSUME NEW t \in Threads, ClearLocal(t) PROVE CountIsAbsent'
  <2>1. status' = status /\ state'.count = state.count /\ state'.syncing = state.syncing
    BY <1>14 DEF ClearLocal
  <2>2. Absent' = Absent
    BY <2>1 DEF Absent
  <2> QED
    BY ONLY <2>1, <2>2, CountIsAbsent DEF CountIsAbsent
<1>15. ASSUME NEW t \in Threads, Add(t) PROVE CountIsAbsent'
  <2>1. /\ state' = [state EXCEPT !.count = state.count + Cardinality(taken[t])]
        /\ status' = [q \in Procs |-> IF q \in taken[t] THEN "counted" ELSE status[q]]
        /\ taken[t] \subseteq Procs
    BY <1>15 DEF Add
  <2>2. \A q \in taken[t] : status[q] = "in"
    BY ONLY <1>15, Collected DEF Collected, Add, At
  <2>3. \A q \in Procs : q \in Absent' <=> q \in Absent \/ q \in taken[t]
    BY <2>1 DEF Absent
  <2>4. Absent' = Absent \cup taken[t] /\ Absent \cap taken[t] = {}
    BY ONLY <2>1, <2>2, <2>3 DEF Absent
  <2>5. IsFiniteSet(taken[t]) /\ Cardinality(taken[t]) \in Nat
    BY ONLY <2>1, ProcsAssumption, FS_Subset, FS_CardinalityType
  <2>6. Cardinality(Absent') = Cardinality(Absent) + Cardinality(taken[t])
                                 - Cardinality(Absent \cap taken[t])
    BY ONLY <2>4, <2>5, AbsentFinite, FS_Union
  <2>7. Cardinality(Absent \cap taken[t]) = 0
    BY ONLY <2>4, FS_EmptySet
  <2>8. /\ state'.count = state.count + Cardinality(taken[t])
        /\ state'.syncing = state.syncing
    BY <2>1
  <2> QED
    BY ONLY <2>5, <2>6, <2>7, <2>8, AbsentFinite, CountIsAbsent DEF CountIsAbsent
<1>16. ASSUME NEW t \in Threads, Release(t) PROVE CountIsAbsent'
  <2>1. \A q \in taken[t] : status[q] = "counted"
    BY ONLY <1>16, Collected DEF Collected, Release, At
  <2>2. \A q \in Procs : q \in Absent' <=> q \in Absent
    BY <1>16, <2>1 DEF Release, Absent
  <2>3. Absent' = Absent
    BY ONLY <2>2 DEF Absent
  <2>4. state' = state
    BY <1>16 DEF Release
  <2> QED
    BY ONLY <2>3, <2>4, CountIsAbsent DEF CountIsAbsent
<1>17. ASSUME NEW t \in Threads, HeadTaken(t) PROVE CountIsAbsent'
  <2>1. status' = status /\ state'.count = state.count /\ state'.syncing = state.syncing
    BY <1>17 DEF HeadTaken
  <2>2. Absent' = Absent
    BY <2>1 DEF Absent
  <2> QED
    BY ONLY <2>1, <2>2, CountIsAbsent DEF CountIsAbsent
<1>18. ASSUME NEW t \in Threads, HeadLost(t) PROVE CountIsAbsent'
  <2>1. status' = status /\ state'.count = state.count /\ state'.syncing = state.syncing
    BY <1>18 DEF HeadLost
  <2>2. Absent' = Absent
    BY <2>1 DEF Absent
  <2> QED
    BY ONLY <2>1, <2>2, CountIsAbsent DEF CountIsAbsent
<1>19. ASSUME NEW t \in Threads, ReadState(t) PROVE CountIsAbsent'
  <2>1. status' = status /\ state'.count = state.count /\ state'.syncing = state.syncing
    BY <1>19 DEF ReadState
  <2>2. Absent' = Absent
    BY <2>1 DEF Absent
  <2> QED
    BY ONLY <2>1, <2>2, CountIsAbsent DEF CountIsAbsent
<1>20. ASSUME NEW t \in Threads, Last(t) PROVE CountIsAbsent'
  <2>1. status' = status /\ state'.count = state.count /\ state'.syncing = state.syncing
    BY <1>20 DEF Last
  <2>2. Absent' = Absent
    BY <2>1 DEF Absent
  <2> QED
    BY ONLY <2>1, <2>2, CountIsAbsent DEF CountIsAbsent
<1>21. ASSUME NEW t \in Threads, Again(t) PROVE CountIsAbsent'
  <2>1. state = State(1, hd[t], TRUE) /\ state' = State(1, NextTag(hd[t]), TRUE)
    BY ONLY <1>21, Completer DEF Again, Completer, At
  <2>2. status' = status
    BY <1>21 DEF Again
  <2>3. Absent' = Absent
    BY <2>2 DEF Absent
  <2>4. state'.count = state.count /\ state'.syncing = state.syncing
    BY ONLY <2>1 DEF State
  <2> QED
    BY ONLY <2>3, <2>4, CountIsAbsent DEF CountIsAbsent
<1>22. ASSUME NEW t \in Threads, Finish(t) PROVE CountIsAbsent'
  <2>1. At(t, "lastCas") /\ status' = status /\ state' = State(state.count - 1, hd[t], FALSE)
    BY <1>22 DEF Finish
  <2>2. Completes(t)
    BY ONLY <2>1 DEF Completes, At
  <2>3. state.syncing
    BY ONLY <2>2, Completer DEF Completer
  <2>4. Absent' = Absent
    BY <2>1 DEF Absent
  <2>5. state'.count = state.count - 1 /\ ~state'.syncing
    BY ONLY <2>1 DEF State
  <2> QED
    BY ONLY <2>3, <2>4, <2>5, AbsentFinite, CountIsAbsent DEF CountIsAbsent
<1>23. ASSUME NEW t \in Threads, BeginSync(t) PROVE CountIsAbsent'
  <2>1. status' = status /\ state'.count = state.count /\ state'.syncing = state.syncing
    BY <1>23 DEF BeginSync
  <2>2. Absent' = Absent
    BY <2>1 DEF Absent
  <2> QED
    BY ONLY <2>1, <2>2, CountIsAbsent DEF CountIsAbsent
<1>24. ASSUME NEW t \in Threads, NEW u \in Threads, HeadGone(t, u) PROVE CountIsAbsent'
  <2>1. status' = status /\ state'.count = state.count /\ state'.syncing = state.syncing
    BY <1>24 DEF HeadGone
  <2>2. Absent' = Absent
    BY <2>1 DEF Absent
  <2> QED
    BY ONLY <2>1, <2>2, CountIsAbsent DEF CountIsAbsent
<1>25. ASSUME NEW t \in Threads, NEW u \in Threads, HeadNew(t, u) PROVE CountIsAbsent'
  <2>1. status' = status /\ state'.count = state.count /\ state'.syncing = state.syncing
    BY <1>25 DEF HeadNew
  <2>2. Absent' = Absent
    BY <2>1 DEF Absent
  <2> QED
    BY ONLY <2>1, <2>2, CountIsAbsent DEF CountIsAbsent
<1>26. ASSUME NEW t \in Threads, NEW u \in Threads, HeadOld(t, u) PROVE CountIsAbsent'
  <2>1. status' = status /\ state'.count = state.count /\ state'.syncing = state.syncing
    BY <1>26 DEF HeadOld
  <2>2. Absent' = Absent
    BY <2>1 DEF Absent
  <2> QED
    BY ONLY <2>1, <2>2, CountIsAbsent DEF CountIsAbsent
<1>27. ASSUME NEW t \in Threads, NEW p \in Procs, Dispatch(t, p) PROVE CountIsAbsent'
  <2>1. \A q \in Procs : q \in Absent' <=> q \in Absent
    BY <1>27 DEF Dispatch, bar, Absent
  <2>2. Absent' = Absent
    BY ONLY <2>1 DEF Absent
  <2>3. state'.count = state.count /\ state'.syncing = state.syncing
    BY <1>27 DEF Dispatch
  <2> QED
    BY ONLY <2>2, <2>3, CountIsAbsent DEF CountIsAbsent
<1>28. ASSUME NEW t \in Threads, NEW p \in Procs, Enroll(t, p) PROVE CountIsAbsent'
  <2>1. /\ status[p] = "out" /\ state' = [state EXCEPT !.count = state.count + 1]
        /\ status' = [q \in Procs |-> IF q \in {p} THEN "ready" ELSE status[q]]
    BY <1>28 DEF Enroll
  <2>2. \A q \in Procs : q \in Absent' <=> q \in Absent \/ q = p
    BY <2>1 DEF Absent
  <2>3. Absent' = Absent \cup {p} /\ p \notin Absent
    BY ONLY <2>1, <2>2, p \in Procs DEF Absent
  <2>4. Cardinality(Absent') = Cardinality(Absent) + 1
    BY ONLY <2>3, AbsentFinite, FS_AddElement
  <2>5. state'.count = state.count + 1 /\ state'.syncing = state.syncing
    BY <2>1
  <2> QED
    BY ONLY <2>4, <2>5, AbsentFinite, CountIsAbsent DEF CountIsAbsent
<1> QED
  BY <1>1, <1>2, <1>3, <1>4, <1>5, <1>6, <1>7, <1>8, <1>9, <1>10, <1>11, <1>12, <1>13,
     <1>14, <1>15, <1>16, <1>17, <1>18, <1>19, <1>20, <1>21, <1>22, <1>23, <1>24,
     <1>25, <1>26, <1>27, <1>28
     DEF Next, Kernel, Syncing, Resigning, Completing, Running, Ended

(* The words keep their types; the bound of the count is the number of processes. *)
LEMMA TypeOKStep == BInv /\ [Next]_vars => TypeOK'
<1> SUFFICES ASSUME BInv, [Next]_vars PROVE TypeOK'
  OBVIOUS
<1>1. CountIsAbsent'
  BY CountIsAbsentStep
<1>2. state'.count \in Nat /\ state'.count <= Cardinality(Procs) + 1
  BY ONLY <1>1, AbsentFinite, AbsentFiniteNext DEF CountIsAbsent
<1>3. state'.count \in 0..(Cardinality(Procs) + 1)
  BY ONLY <1>2, AbsentFinite
<1> USE NullAssumption
    DEF BInv, TypeOK, Statuses, Tags, NextTag, State, PCs, Labels, NoState, At, Goto,
        Mark, bar, tmp
<1>4. CASE UNCHANGED vars
  BY <1>4 DEF vars
<1>5. ASSUME NEW t \in Threads, ReadHead(t) PROVE TypeOK'
  BY <1>5, <1>3 DEF ReadHead, HasHead
<1>6. ASSUME NEW t \in Threads, TakeStale(t) PROVE TypeOK'
  BY <1>6, <1>3 DEF TakeStale
<1>7. ASSUME NEW t \in Threads, SetBit(t) PROVE TypeOK'
  BY <1>7, <1>3 DEF SetBit
<1>8. ASSUME NEW t \in Threads, SetHead(t) PROVE TypeOK'
  BY <1>8, <1>3 DEF SetHead
<1>9. ASSUME NEW t \in Threads, Join(t) PROVE TypeOK'
  <2>1. cur[t] \in Procs
    BY <1>9 DEF Join, Runs, Serves
  <2>2. held' \in [Threads -> SUBSET Procs]
    BY <1>9, <2>1 DEF Join, Collect
  <2>3. pc' \in [Threads -> PCs] /\ status' \in [Procs -> Statuses]
    BY <1>9 DEF Join
  <2> QED
    BY <1>9, <2>2, <2>3 DEF Join
<1>10. ASSUME NEW t \in Threads, SyncCas(t) PROVE TypeOK'
  <2>1. state' \in [count : 0..(Cardinality(Procs) + 1), tag : Tags, syncing : BOOLEAN]
    <3>1. CASE state' = State(1, NextTag(state.tag), TRUE)
      BY ONLY <1>3, <3>1, TypeOK DEF TypeOK, State, NextTag, Tags
    <3>2. CASE state' = [state EXCEPT !.count = state.count - 1]
      BY ONLY <1>3, <3>2, TypeOK DEF TypeOK
    <3> QED
      BY ONLY <1>10, <3>1, <3>2 DEF SyncCas
  <2>2. pc' \in [Threads -> PCs]
    <3>1. <<"run">> \in PCs /\ <<"swapHeads">> \in PCs
      BY ONLY TRUE DEF PCs, Labels
    <3>2. \/ pc' = [pc EXCEPT ![t] = <<"run">>]
          \/ pc' = [pc EXCEPT ![t] = <<"swapHeads">>]
      BY ONLY <1>10 DEF SyncCas, Goto
    <3>3. pc \in [Threads -> PCs]
      BY ONLY TypeOK DEF TypeOK
    <3>4. CASE pc' = [pc EXCEPT ![t] = <<"run">>]
      BY ONLY <3>1, <3>3, <3>4
    <3>5. CASE pc' = [pc EXCEPT ![t] = <<"swapHeads">>]
      BY ONLY <3>1, <3>3, <3>5
    <3> QED
      BY ONLY <3>2, <3>4, <3>5
  <2>3. status' \in [Procs -> Statuses] /\ cur' \in [Threads -> Procs \cup {NULL}]
    BY <1>10 DEF SyncCas
  <2>4. st' \in [Threads -> [count : Nat, tag : Tags, syncing : BOOLEAN]]
    BY <1>10 DEF SyncCas, Forget
  <2>5. heads' = heads /\ head' = head /\ held' = held /\ hd' = hd /\ todo' = todo /\ taken' = taken
    BY <1>10 DEF SyncCas
  <2> QED
    BY <2>1, <2>2, <2>3, <2>4, <2>5
<1>11. ASSUME NEW t \in Threads, SyncCasFails(t) PROVE TypeOK'
  BY <1>11, <1>3 DEF SyncCasFails
<1>12. ASSUME NEW t \in Threads, ReadHeads(t) PROVE TypeOK'
  BY <1>12, <1>3 DEF ReadHeads
<1>13. ASSUME NEW t \in Threads, ResignCas(t) PROVE TypeOK'
  <2>1. state' \in [count : 0..(Cardinality(Procs) + 1), tag : Tags, syncing : BOOLEAN]
    <3>1. CASE state' = State(1, NextTag(state.tag), TRUE)
      BY ONLY <1>3, <3>1, TypeOK DEF TypeOK, State, NextTag, Tags
    <3>2. CASE state' = [state EXCEPT !.count = state.count - 1]
      BY ONLY <1>3, <3>2, TypeOK DEF TypeOK
    <3> QED
      BY ONLY <1>13, <3>1, <3>2 DEF ResignCas
  <2>2. pc' \in [Threads -> PCs]
    <3>1. <<"run">> \in PCs /\ <<"swapHeads">> \in PCs
      BY ONLY TRUE DEF PCs, Labels
    <3>2. \/ pc' = [pc EXCEPT ![t] = <<"run">>]
          \/ pc' = [pc EXCEPT ![t] = <<"swapHeads">>]
      BY ONLY <1>13 DEF ResignCas, Goto
    <3>3. pc \in [Threads -> PCs]
      BY ONLY TypeOK DEF TypeOK
    <3>4. CASE pc' = [pc EXCEPT ![t] = <<"run">>]
      BY ONLY <3>1, <3>3, <3>4
    <3>5. CASE pc' = [pc EXCEPT ![t] = <<"swapHeads">>]
      BY ONLY <3>1, <3>3, <3>5
    <3> QED
      BY ONLY <3>2, <3>4, <3>5
  <2>3. status' \in [Procs -> Statuses] /\ cur' \in [Threads -> Procs \cup {NULL}]
    BY <1>13 DEF ResignCas
  <2>4. st' \in [Threads -> [count : Nat, tag : Tags, syncing : BOOLEAN]]
    BY <1>13 DEF ResignCas, Forget
  <2>5. heads' = heads /\ head' = head /\ held' = held /\ hd' = hd /\ todo' = todo /\ taken' = taken
    BY <1>13 DEF ResignCas
  <2> QED
    BY <2>1, <2>2, <2>3, <2>4, <2>5
<1>14. ASSUME NEW t \in Threads, BeginResign(t) PROVE TypeOK'
  BY <1>14, <1>3 DEF BeginResign
<1>15. ASSUME NEW t \in Threads, SwapHeads(t) PROVE TypeOK'
  BY <1>15, <1>3 DEF SwapHeads
<1>16. ASSUME NEW t \in Threads, Local(t) PROVE TypeOK'
  <2>1. <<"others">> \in PCs /\ <<"add", "clearLocal">> \in PCs
    BY ONLY TRUE DEF PCs, Labels
  <2>2. /\ \/ pc' = [pc EXCEPT ![t] = <<"add", "clearLocal">>]
           \/ pc' = [pc EXCEPT ![t] = <<"others">>]
        /\ \/ held' = [held EXCEPT ![t] = {}] /\ taken' = [taken EXCEPT ![t] = held[t]]
           \/ UNCHANGED <<held, taken>>
    BY ONLY <1>16 DEF Local, Goto
  <2>3. pc' \in [Threads -> PCs]
    <3>1. pc \in [Threads -> PCs]
      BY ONLY TypeOK DEF TypeOK
    <3>2. CASE pc' = [pc EXCEPT ![t] = <<"add", "clearLocal">>]
      BY ONLY <2>1, <3>1, <3>2
    <3>3. CASE pc' = [pc EXCEPT ![t] = <<"others">>]
      BY ONLY <2>1, <3>1, <3>3
    <3> QED
      BY ONLY <2>2, <3>2, <3>3
  <2>4. held' \in [Threads -> SUBSET Procs] /\ taken' \in [Threads -> SUBSET Procs]
    <3>1. held \in [Threads -> SUBSET Procs] /\ taken \in [Threads -> SUBSET Procs]
      BY ONLY TypeOK DEF TypeOK
    <3>2. CASE held' = [held EXCEPT ![t] = {}] /\ taken' = [taken EXCEPT ![t] = held[t]]
      BY ONLY <3>1, <3>2, t \in Threads
    <3>3. CASE UNCHANGED <<held, taken>>
      BY ONLY <3>1, <3>3
    <3> QED
      BY ONLY <2>2, <3>2, <3>3
  <2>5. UNCHANGED <<state, heads, head, status, cur, st, hd, todo>>
    BY ONLY <1>16 DEF Local
  <2> QED
    BY ONLY <2>3, <2>4, <2>5, TypeOK DEF TypeOK
<1>17. ASSUME NEW t \in Threads, ClearLocal(t) PROVE TypeOK'
  BY <1>17, <1>3 DEF ClearLocal
<1>18. ASSUME NEW t \in Threads, Add(t) PROVE TypeOK'
  <2>1. pc[t][2] \in {"setBit", "clearLocal", "others"}
    BY <1>18, PcShape DEF Add
  <2>2. state' \in [count : 0..(Cardinality(Procs) + 1), tag : Tags, syncing : BOOLEAN]
    BY <1>18, <1>3 DEF Add
  <2>3. pc' \in [Threads -> PCs]
    BY <1>18, <2>1 DEF Add
  <2> QED
    BY <1>18, <2>2, <2>3 DEF Add
<1>19. ASSUME NEW t \in Threads, Release(t) PROVE TypeOK'
  <2>1. pc[t][2] \in {"setBit", "clearLocal", "others"}
    BY <1>19, PcShape DEF Release
  <2> QED
    BY <1>19, <2>1 DEF Release, PCs, Labels
<1>20. ASSUME NEW t \in Threads, HeadTaken(t) PROVE TypeOK'
  BY <1>20, <1>3 DEF HeadTaken
<1>21. ASSUME NEW t \in Threads, HeadLost(t) PROVE TypeOK'
  BY <1>21, <1>3 DEF HeadLost
<1>22. ASSUME NEW t \in Threads, ReadState(t) PROVE TypeOK'
  BY <1>22, <1>3 DEF ReadState
<1>23. ASSUME NEW t \in Threads, Last(t) PROVE TypeOK'
  BY <1>23, <1>3 DEF Last
<1>24. ASSUME NEW t \in Threads, Again(t) PROVE TypeOK'
  <2>1. state' = State(1, NextTag(hd[t]), TRUE) /\ hd[t] = state.tag
    BY ONLY <1>24, Completer DEF Again, Completer, Completes, At
  <2>2. state' \in [count : 0..(Cardinality(Procs) + 1), tag : Tags, syncing : BOOLEAN]
    BY <1>3, <2>1
  <2> QED
    BY <1>24, <2>2 DEF Again, Forget
<1>25. ASSUME NEW t \in Threads, Finish(t) PROVE TypeOK'
  <2>1. state' = State(state.count - 1, hd[t], FALSE) /\ hd[t] = state.tag
    BY ONLY <1>25, Completer DEF Finish, Completer, Completes, At
  <2>2. state' \in [count : 0..(Cardinality(Procs) + 1), tag : Tags, syncing : BOOLEAN]
    BY <1>3, <2>1
  <2> QED
    BY <1>25, <2>2 DEF Finish, Forget
<1>26. ASSUME NEW t \in Threads, BeginSync(t) PROVE TypeOK'
  BY <1>26, <1>3 DEF BeginSync
<1>27. ASSUME NEW t \in Threads, NEW u \in Threads, HeadGone(t, u) PROVE TypeOK'
  BY <1>27, <1>3 DEF HeadGone
<1>28. ASSUME NEW t \in Threads, NEW u \in Threads, HeadNew(t, u) PROVE TypeOK'
  BY <1>28, <1>3 DEF HeadNew
<1>29. ASSUME NEW t \in Threads, NEW u \in Threads, HeadOld(t, u) PROVE TypeOK'
  BY <1>29, <1>3 DEF HeadOld
<1>30. ASSUME NEW t \in Threads, NEW p \in Procs, Dispatch(t, p) PROVE TypeOK'
  BY <1>30, <1>3 DEF Dispatch
<1>31. ASSUME NEW t \in Threads, NEW p \in Procs, Enroll(t, p) PROVE TypeOK'
  BY <1>31, <1>3 DEF Enroll
<1> QED
  BY <1>4, <1>5, <1>6, <1>7, <1>8, <1>9, <1>10, <1>11, <1>12, <1>13, <1>14, <1>15,
     <1>16, <1>17, <1>18, <1>19, <1>20, <1>21, <1>22, <1>23, <1>24, <1>25, <1>26,
     <1>27, <1>28, <1>29, <1>30, <1>31
     DEF Next, Kernel, Syncing, Resigning, Completing, Running, Ended


(* bar_init: nobody has synchronised and no thread is in a call. *)
LEMMA InitBInv == Init => BInv
<1> SUFFICES ASSUME Init PROVE BInv
  OBVIOUS
<1> USE DEF Init, NoState, State
<1>1. Absent = Procs
  BY DEF Absent
<1>2. Cardinality(Procs) \in Nat
  BY ProcsAssumption, FS_CardinalityType
<1>3. CountIsAbsent
  BY <1>1, <1>2 DEF CountIsAbsent
<1>4. TypeOK
  BY <1>2, NullAssumption DEF TypeOK, Tags, Statuses, PCs, Labels
<1>5. Runs
  BY DEF Runs, Serves, Completes, Stale, At
<1>6. Completer
  BY DEF Completer, Completes, At
<1>7. Tagged
  BY <1>4, NoTagAssumption DEF Tagged, Stale, At, TypeOK
<1>8. Collected
  BY DEF Collected, At
<1>9. NobodyPassesEarly
  BY DEF NobodyPassesEarly, At
<1> QED
  BY <1>3, <1>4, <1>5, <1>6, <1>7, <1>8, <1>9 DEF BInv

(* Every step of every thread keeps the whole invariant. *)
THEOREM BarrierInvariance == Spec => []BInv
<1>1. Init => BInv
  BY InitBInv
<1>2. BInv /\ [Next]_vars => BInv'
  BY TypeOKStep, RunsStep, CompleterStep, TaggedStep, CollectedStep, CountIsAbsentStep,
     NobodyPassesEarlyStep DEF BInv
<1> QED
  BY <1>1, <1>2, PTL DEF Spec

(* bar->state counts the enrolled processes that have not synchronised,     *)
(* with one for the thread that completes, at every access to it.           *)
THEOREM CountIsExact == Spec => []CountIsAbsent
<1>1. BInv => CountIsAbsent
  BY DEF BInv
<1> QED
  BY <1>1, BarrierInvariance, PTL

(* bar_complete starts on a phase only when every enrolled process has      *)
(* synchronised in it.                                                      *)
THEOREM NoEarlyPass == Spec => []NobodyPassesEarly
<1>1. BInv => NobodyPassesEarly
  BY DEF BInv
<1> QED
  BY <1>1, BarrierInvariance, PTL

(* A process that waits is where bar_complete or the thread of a stale head *)
(* will find it: its head is of the current phase, and has its bit in       *)
(* heads, or of the one that ends, and is on the list of the thread that    *)
(* completes.                                                               *)
THEOREM WaitersAreFound == Spec => []NobodyLost
<1>1. ASSUME BInv PROVE NobodyLost
  <2> SUFFICES ASSUME NEW p \in Procs, status[p] = "in", \A t \in Threads : p \notin taken[t]
               PROVE  \E t \in Threads : /\ p \in held[t] /\ head[t] # NULL
                                         /\ (t \in heads \/ \E u \in Threads : t \in todo[u])
    BY DEF NobodyLost
  <2>1. PICK t \in Threads : p \in held[t]
    BY <1>1 DEF BInv, Collected
  <2>2. head[t] # NULL
    BY <1>1, <2>1 DEF BInv, Collected
  <2>3. t \in heads \/ \E u \in Threads : t \in todo[u]
    BY <1>1, <2>2 DEF BInv, Tagged
  <2> QED
    BY <2>1, <2>2, <2>3
<1> QED
  BY <1>1, BarrierInvariance, PTL
=============================================================================
