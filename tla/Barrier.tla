------------------------------ MODULE Barrier ------------------------------
(***************************************************************************)
(* The full barrier of occam-pi: bar_sync, bar_enroll, bar_resign,         *)
(* bar_complete and bar_complete_head of kernel/sched.c.                   *)
(*                                                                         *)
(* bar->state packs the number of enrolled processes that have not yet     *)
(* synchronised, a two-bit tag that names the phase, and SYNCING, set      *)
(* while a thread completes a phase; that thread holds one count.  Every   *)
(* thread collects the processes that synchronise on it under a head of    *)
(* its own, bar->head[t], tagged with the phase; bar->heads is the set of  *)
(* threads that have one.  Processes are released while the completion is  *)
(* under way, and synchronise again.                                       *)
(*                                                                         *)
(* What is in a head (batches by priority and affinity) is a set of        *)
(* processes here.  One action is one access to a word of the barrier.     *)
(*                                                                         *)
(* A definition named after a slip (AddNothing, LocalKeeps...) is a    *)
(* mutant of the one that follows it.                                      *)
(***************************************************************************)
EXTENDS Naturals, FiniteSets

CONSTANTS
    Threads,         \* scheduler threads
    Procs,           \* processes
    NULL

(* The two-bit tag of a phase. *)
Tags == 0..3

ASSUME NullAssumption == NULL \notin Threads \cup Procs
ASSUME NoTagAssumption == NULL \notin Tags
ASSUME ProcsAssumption == IsFiniteSet(Procs)

VARIABLES
    state,           \* bar->state
    heads,           \* bar->heads
    head,            \* bar->head: its tag, or NULL
    held,            \* the processes under each thread's head
    status,          \* of each process
    cur,             \* the process a thread is running
    pc,
    st, hd,          \* a thread: local state, tag of local hdata
    todo,            \* a thread: local heads of bar_complete
    taken            \* a thread: the head bar_complete_head is working on

vars == <<state, heads, head, held, status, cur, pc, st, hd, todo, taken>>

NextTag(t) == (t + 1) % 4
State(c, t, s) == [count |-> c, tag |-> t, syncing |-> s]
NoState == State(0, 0, FALSE)

(* Where a thread is; add and release return to the label behind them, and  *)
(* headCas is about a thread's head and the tag that was read from it.      *)
Labels == {"run", "hdata", "takeStale", "setBit", "setHead", "join", "syncCas", "resign",
           "swapHeads", "local", "clearLocal", "others", "last", "lastCas", "again"}
PCs == {<<label>> : label \in Labels}
       \cup {"resignCas"} \X {"leave", "complete"}
       \cup {"add", "release"} \X {"setBit", "clearLocal", "others"}
       \cup {"headCas"} \X Threads \X Tags

(* out: not enrolled.  on: running.  ready: on a run queue.  joining: under *)
(* a head, not yet subtracted.  in: waiting.  counted: added again.         *)
Statuses == {"out", "on", "ready", "joining", "in", "counted"}

(* bar_init, with every process enrolled *)
Init ==
    /\ state = State(Cardinality(Procs), 0, FALSE)
    /\ heads = {}
    /\ head = [t \in Threads |-> NULL] /\ held = [t \in Threads |-> {}]
    /\ status = [p \in Procs |-> "ready"]
    /\ cur = [t \in Threads |-> NULL]
    /\ pc = [t \in Threads |-> <<"run">>]
    /\ st = [t \in Threads |-> NoState] /\ hd = [t \in Threads |-> NULL]
    /\ todo = [t \in Threads |-> {}] /\ taken = [t \in Threads |-> {}]

At(t, label)   == pc[t][1] = label
Goto(t, label) == pc' = [pc EXCEPT ![t] = <<label>>]
Mark(ps, s)    == status' = [p \in Procs |-> IF p \in ps THEN s ELSE status[p]]
Enrolled(p)    == status[p] # "out"

bar  == <<state, heads, head, held>>
tmp  == <<st, hd, todo, taken>>

-----------------------------------------------------------------------------
(* The threads run the released processes, wherever their batches go. *)
Dispatch(t, p) ==
    /\ At(t, "run") /\ cur[t] = NULL /\ status[p] = "ready"
    /\ cur' = [cur EXCEPT ![t] = p]
    /\ Mark({p}, "on")
    /\ UNCHANGED <<bar, pc, tmp>>

(* bar_enroll: an enrolled process enrolls one that it starts. *)
Enroll(t, q) ==
    /\ At(t, "run") /\ cur[t] # NULL /\ status[q] = "out"
    /\ state' = [state EXCEPT !.count = @ + 1]
    /\ Mark({q}, "ready")
    /\ UNCHANGED <<heads, head, held, cur, pc, tmp>>

-----------------------------------------------------------------------------
(* bar_sync *)

BeginSync(t) ==
    /\ At(t, "run") /\ cur[t] # NULL
    /\ st' = [st EXCEPT ![t] = state]
    /\ Goto(t, "hdata")
    /\ UNCHANGED <<bar, status, cur, hd, todo, taken>>

HasHead(t, s) == head[t] # NULL /\ (s.syncing => head[t] = s.tag)

ReadHead(t) ==
    /\ At(t, "hdata")
    /\ Goto(t, CASE HasHead(t, st[t]) -> "join"
                 [] ~HasHead(t, st[t]) /\ head[t] # NULL -> "takeStale"
                 [] OTHER -> "setBit")
    /\ UNCHANGED <<bar, status, cur, tmp>>

(* The head of the phase that is being completed: whoever takes it, this    *)
(* thread or the one that completes, releases it.                           *)
TakeStale(t) ==
    /\ At(t, "takeStale")
    /\ head' = [head EXCEPT ![t] = NULL]
    /\ held' = [held EXCEPT ![t] = {}]
    /\ taken' = [taken EXCEPT ![t] = held[t]]
    /\ pc' = [pc EXCEPT ![t] = IF head[t] = NULL THEN <<"setBit">> ELSE <<"add", "setBit">>]
    /\ UNCHANGED <<state, heads, status, cur, st, hd, todo>>

SetBit(t) ==
    /\ At(t, "setBit")
    /\ heads' = heads \cup {t}
    /\ Goto(t, "setHead")
    /\ UNCHANGED <<state, head, held, status, cur, tmp>>

SetHead(t) ==
    /\ At(t, "setHead")
    /\ head' = [head EXCEPT ![t] = st[t].tag]
    /\ Goto(t, "join")
    /\ UNCHANGED <<state, heads, held, status, cur, tmp>>

(* The process goes in a batch under the head the thread found or made; if  *)
(* that has been taken away it is in nobody's hands.                        *)
Collect(t) == held' = [held EXCEPT ![t] = IF head[t] = NULL THEN @ ELSE @ \cup {cur[t]}]

Join(t) ==
    /\ At(t, "join")
    /\ Collect(t)
    /\ Mark({cur[t]}, "joining")
    /\ Goto(t, "syncCas")
    /\ UNCHANGED <<state, heads, head, cur, tmp>>

Forget(t) == st' = [st EXCEPT ![t] = NoState]

(* The last one completes the barrier, the others leave it to the last. *)
SyncCas(t) ==
    /\ At(t, "syncCas") /\ state = st[t]
    /\ IF state = State(1, state.tag, FALSE)
       THEN state' = State(1, NextTag(state.tag), TRUE) /\ Goto(t, "swapHeads")
       ELSE state' = [state EXCEPT !.count = @ - 1] /\ Goto(t, "run")
    /\ Mark({cur[t]}, "in")
    /\ cur' = [cur EXCEPT ![t] = NULL]
    /\ Forget(t)
    /\ UNCHANGED <<heads, head, held, hd, todo, taken>>

SyncCasFails(t) ==
    /\ At(t, "syncCas") /\ state # st[t]
    /\ st' = [st EXCEPT ![t] = state]
    /\ UNCHANGED <<bar, status, cur, pc, hd, todo, taken>>

-----------------------------------------------------------------------------
(* bar_resign, of one process *)

BeginResign(t) ==
    /\ \/ At(t, "run") /\ cur[t] # NULL
       \/ At(t, "resignCas") /\ state # st[t]
    /\ st' = [st EXCEPT ![t] = state]
    /\ pc' = [pc EXCEPT ![t] = IF state = State(1, state.tag, FALSE) THEN <<"resign">>
                               ELSE <<"resignCas", "leave">>]
    /\ UNCHANGED <<bar, status, cur, hd, todo, taken>>

ReadHeads(t) ==
    /\ At(t, "resign")
    /\ pc' = [pc EXCEPT ![t] = <<"resignCas", IF heads = {} THEN "leave" ELSE "complete">>]
    /\ UNCHANGED <<bar, status, cur, tmp>>

ResignCas(t) ==
    /\ At(t, "resignCas") /\ state = st[t]
    /\ IF pc[t][2] = "complete"
       THEN state' = State(1, NextTag(state.tag), TRUE) /\ Goto(t, "swapHeads")
       ELSE state' = [state EXCEPT !.count = @ - 1] /\ Goto(t, "run")
    /\ Mark({cur[t]}, "out")
    /\ cur' = [cur EXCEPT ![t] = NULL]
    /\ Forget(t)
    /\ UNCHANGED <<heads, head, held, hd, todo, taken>>

-----------------------------------------------------------------------------
(* bar_complete; the tag it works with is hd *)

SwapHeads(t) ==
    /\ At(t, "swapHeads")
    /\ heads' = {}
    /\ todo' = [todo EXCEPT ![t] = heads]
    /\ hd' = [hd EXCEPT ![t] = state.tag]
    /\ Goto(t, "local")
    /\ UNCHANGED <<state, head, held, status, cur, st, taken>>

(* The thread's own processes first. *)
Local(t) ==
    /\ At(t, "local")
    /\ IF t \in todo[t]
       THEN /\ taken' = [taken EXCEPT ![t] = held[t]]
            /\ held' = [held EXCEPT ![t] = {}]
            /\ pc' = [pc EXCEPT ![t] = <<"add", "clearLocal">>]
       ELSE Goto(t, "others") /\ UNCHANGED <<taken, held>>
    /\ UNCHANGED <<state, heads, head, status, cur, st, hd, todo>>

LocalKeeps(t) ==
    /\ At(t, "clearLocal")
    /\ todo' = [todo EXCEPT ![t] = @ \ {t}]
    /\ Goto(t, "others")
    /\ UNCHANGED <<state, heads, head, held, status, cur, st, hd, taken>>

ClearLocal(t) ==
    /\ At(t, "clearLocal")
    /\ head' = [head EXCEPT ![t] = NULL]
    /\ todo' = [todo EXCEPT ![t] = @ \ {t}]
    /\ Goto(t, "others")
    /\ UNCHANGED <<state, heads, held, status, cur, st, hd, taken>>

(* The other threads' heads: gone, of the new phase (the bit is put back),  *)
(* or to be released.                                                       *)
HeadGone(t, u) ==
    /\ At(t, "others") /\ u \in todo[t] /\ head[u] = NULL
    /\ todo' = [todo EXCEPT ![t] = @ \ {u}]
    /\ UNCHANGED <<bar, status, cur, pc, st, hd, taken>>

HeadNew(t, u) ==
    /\ At(t, "others") /\ u \in todo[t] /\ head[u] = hd[t]
    /\ heads' = heads \cup {u}
    /\ todo' = [todo EXCEPT ![t] = @ \ {u}]
    /\ UNCHANGED <<state, head, held, status, cur, pc, st, hd, taken>>

HeadOld(t, u) ==
    /\ At(t, "others") /\ u \in todo[t] /\ head[u] \notin {NULL, hd[t]}
    /\ pc' = [pc EXCEPT ![t] = <<"headCas", u, head[u]>>]
    /\ UNCHANGED <<bar, status, cur, tmp>>

HeadTaken(t) ==
    LET u == pc[t][2] IN
    /\ At(t, "headCas") /\ head[u] = pc[t][3]
    /\ head' = [head EXCEPT ![u] = NULL]
    /\ taken' = [taken EXCEPT ![t] = held[u]]
    /\ held' = [held EXCEPT ![u] = {}]
    /\ todo' = [todo EXCEPT ![t] = @ \ {u}]
    /\ pc' = [pc EXCEPT ![t] = <<"add", "others">>]
    /\ UNCHANGED <<state, heads, status, cur, st, hd>>

HeadLost(t) ==
    /\ At(t, "headCas") /\ head[pc[t][2]] # pc[t][3]
    /\ todo' = [todo EXCEPT ![t] = @ \ {pc[t][2]}]
    /\ Goto(t, "others")
    /\ UNCHANGED <<bar, status, cur, st, hd, taken>>

(* bar_complete_head: the processes count again before they can run. *)
AddNothing(t) ==
    /\ At(t, "add")
    /\ Mark(taken[t], "counted")
    /\ pc' = [pc EXCEPT ![t] = <<"release", pc[t][2]>>]
    /\ UNCHANGED <<bar, cur, tmp>>

Add(t) ==
    /\ At(t, "add")
    /\ state' = [state EXCEPT !.count = @ + Cardinality(taken[t])]
    /\ Mark(taken[t], "counted")
    /\ pc' = [pc EXCEPT ![t] = <<"release", pc[t][2]>>]
    /\ UNCHANGED <<heads, head, held, cur, tmp>>

Release(t) ==
    /\ At(t, "release")
    /\ Mark(taken[t], "ready")
    /\ taken' = [taken EXCEPT ![t] = {}]
    /\ Goto(t, pc[t][2])
    /\ UNCHANGED <<bar, cur, st, hd, todo>>

(* All released.  If they have all synchronised again, so that only the     *)
(* count of this thread is left, it has the next phase to complete.         *)
ReadState(t) ==
    /\ \/ At(t, "others") /\ todo[t] = {}
       \/ pc[t][1] \in {"lastCas", "again"} /\ state # st[t]
    /\ st' = [st EXCEPT ![t] = state]
    /\ Goto(t, IF state = State(1, hd[t], TRUE) THEN "last" ELSE "lastCas")
    /\ UNCHANGED <<bar, status, cur, hd, todo, taken>>

LastIgnoresHeads(t) ==
    /\ At(t, "last")
    /\ Goto(t, "lastCas")
    /\ UNCHANGED <<bar, status, cur, tmp>>

Last(t) ==
    /\ At(t, "last")
    /\ Goto(t, IF heads = {} THEN "lastCas" ELSE "again")
    /\ UNCHANGED <<bar, status, cur, tmp>>

Again(t) ==
    /\ At(t, "again") /\ state = st[t]
    /\ state' = State(1, NextTag(hd[t]), TRUE)
    /\ Goto(t, "swapHeads")
    /\ Forget(t)
    /\ UNCHANGED <<heads, head, held, status, cur, hd, todo, taken>>

Finish(t) ==
    /\ At(t, "lastCas") /\ state = st[t]
    /\ state' = State(state.count - 1, hd[t], FALSE)
    /\ hd' = [hd EXCEPT ![t] = NULL]
    /\ Goto(t, "run")
    /\ Forget(t)
    /\ UNCHANGED <<heads, head, held, status, cur, todo, taken>>

-----------------------------------------------------------------------------
Syncing(t)    == \/ ReadHead(t) \/ TakeStale(t) \/ SetBit(t) \/ SetHead(t) \/ Join(t)
                 \/ SyncCas(t) \/ SyncCasFails(t)
Resigning(t)  == ReadHeads(t) \/ ResignCas(t) \/ (At(t, "resignCas") /\ BeginResign(t))
Completing(t) == \/ SwapHeads(t) \/ Local(t) \/ ClearLocal(t) \/ Add(t) \/ Release(t)
                 \/ HeadTaken(t) \/ HeadLost(t) \/ ReadState(t) \/ Last(t) \/ Again(t) \/ Finish(t)
                 \/ \E u \in Threads : HeadGone(t, u) \/ HeadNew(t, u) \/ HeadOld(t, u)
Kernel(t)     == Syncing(t) \/ Resigning(t) \/ Completing(t)

Running(t) == \/ BeginSync(t) \/ BeginResign(t)
              \/ \E p \in Procs : Dispatch(t, p) \/ Enroll(t, p)

(* Everyone has resigned. *)
Ended == (\A t \in Threads : At(t, "run")) /\ (\A p \in Procs : ~Enrolled(p)) /\ UNCHANGED vars

Next == Ended \/ \E t \in Threads : Kernel(t) \/ Running(t)

Spec == Init /\ [][Next]_vars

(* Threads run, every released process gets to run, and every enrolled      *)
(* process synchronises or resigns in the end.                              *)
FairSpec == /\ Spec
            /\ \A t \in Threads : WF_vars(Kernel(t)) /\ WF_vars(BeginSync(t) \/ BeginResign(t))
            /\ \A p \in Procs : SF_vars(\E t \in Threads : Dispatch(t, p))

-----------------------------------------------------------------------------
(* Properties *)

TypeOK ==
    /\ state \in [count : 0..(Cardinality(Procs) + 1), tag : Tags, syncing : BOOLEAN]
    /\ heads \subseteq Threads /\ head \in [Threads -> Tags \cup {NULL}]
    /\ held \in [Threads -> SUBSET Procs] /\ status \in [Procs -> Statuses]
    /\ cur \in [Threads -> Procs \cup {NULL}]
    /\ pc \in [Threads -> PCs]
    /\ st \in [Threads -> [count : Nat, tag : Tags, syncing : BOOLEAN]]
    /\ hd \in [Threads -> Tags \cup {NULL}]
    /\ todo \in [Threads -> SUBSET Threads] /\ taken \in [Threads -> SUBSET Procs]

(* The count in bar->state is the number of enrolled processes that have    *)
(* not synchronised, and one for the thread that completes.                 *)
Absent == {p \in Procs : status[p] \in {"on", "ready", "joining", "counted"}}
CountIsAbsent == state.count = Cardinality(Absent) + (IF state.syncing THEN 1 ELSE 0)

(* A barrier: no phase completes before every enrolled process has          *)
(* synchronised in it.                                                      *)
NobodyPassesEarly ==
    \A t \in Threads : At(t, "swapHeads") => \A p \in Procs : status[p] \in {"in", "out"}

(* No process is lost: one that waits is under a head that the completing   *)
(* thread will find in heads, or still has on its list, or has been taken   *)
(* by a thread that is about to release it.                                 *)
NobodyLost ==
    \A p \in Procs : status[p] = "in" =>
        \/ \E t \in Threads : p \in taken[t]
        \/ \E t \in Threads : p \in held[t] /\ head[t] # NULL
                              /\ (t \in heads \/ \E u \in Threads : t \in todo[u])

(* Every process that synchronises is released, however the phases overlap, *)
(* unless the others enroll and resign one another for ever: enrolled       *)
(* processes synchronise or resign in the end, by FairSpec.                 *)
EnrollsNobody == \A t \in Threads, p \in Procs : ~Enroll(t, p)
EveryoneReleased ==
    <>[][EnrollsNobody]_vars => \A p \in Procs : status[p] = "in" ~> status[p] # "in"

-----------------------------------------------------------------------------
(* The inductive invariant behind the safety properties *)

(* The thread that completes a phase, and one that serves its process. *)
Stale(t)     == pc[t][1] \in {"add", "release"} /\ pc[t][2] = "setBit"
Completes(t) == \/ pc[t][1] \in {"swapHeads", "local", "clearLocal", "others", "headCas",
                                 "last", "lastCas", "again"}
                \/ pc[t][1] \in {"add", "release"} /\ pc[t][2] # "setBit"
Serves(t)    == \/ pc[t][1] \in {"hdata", "takeStale", "setBit", "setHead", "join",
                                 "syncCas", "resign", "resignCas"}
                \/ Stale(t)

Runs ==
    /\ \A t \in Threads :
        /\ cur[t] # NULL => status[cur[t]] = IF At(t, "syncCas") THEN "joining" ELSE "on"
        /\ Serves(t) => cur[t] # NULL
        /\ Completes(t) => cur[t] = NULL
    /\ \A t, u \in Threads : cur[t] # NULL /\ cur[t] = cur[u] => t = u

(* SYNCING is set as long as one thread completes, and it is the only one.  *)
Completer ==
    /\ state.syncing <=> \E t \in Threads : Completes(t)
    /\ \A t, u \in Threads : Completes(t) /\ Completes(u) => t = u
    /\ \A t \in Threads :
        /\ Completes(t) /\ ~At(t, "swapHeads") => hd[t] = state.tag
        /\ ~Completes(t) \/ pc[t][1] \in {"swapHeads", "last", "lastCas", "again"} => todo[t] = {}
        /\ At(t, "headCas") => pc[t][3] # state.tag
        /\ pc[t][1] \in {"last", "again"} => st[t] = State(1, hd[t], TRUE)
        /\ At(t, "resign") \/ (At(t, "resignCas") /\ pc[t][2] = "complete") =>
            st[t].count = 1 /\ ~st[t].syncing

(* A head of the phase that ends is on the list of the completing thread; a *)
(* head of the current phase has its bit in heads.                          *)
Tagged ==
    \A u \in Threads :
        /\ head[u] \notin {NULL, state.tag} =>
            \E c \in Threads : (At(c, "swapHeads") /\ u \in heads) \/ u \in todo[c]
        /\ head[u] = state.tag => u \in heads /\ \A c \in Threads : ~At(c, "swapHeads")
        /\ At(u, "setHead") => u \in heads
        /\ pc[u][1] \in {"setBit", "setHead"} \/ Stale(u) => head[u] = NULL
        /\ At(u, "takeStale") => head[u] # state.tag
        /\ At(u, "headCas") => head[pc[u][2]] \in {NULL, state.tag, pc[u][3]}
        /\ pc[u][1] \in {"join", "syncCas"} => head[u] = state.tag
        /\ pc[u][1] \in {"hdata", "takeStale", "setBit", "setHead"} \/ Stale(u) =>
            st[u].tag = state.tag /\ (state.syncing => st[u].syncing)

(* Where the processes that have synchronised are. *)
Collected ==
    /\ \A t \in Threads :
        /\ held[t] # {} => head[t] # NULL
        /\ \A p \in held[t] : \/ status[p] = "in"
                              \/ status[p] = "joining" /\ cur[t] = p /\ At(t, "syncCas")
        /\ At(t, "syncCas") => cur[t] \in held[t]
        /\ At(t, "clearLocal") \/ (pc[t][1] \in {"add", "release"} /\ pc[t][2] = "clearLocal")
           => held[t] = {}
        /\ At(t, "add") => \A p \in taken[t] : status[p] = "in"
        /\ At(t, "release") => \A p \in taken[t] : status[p] = "counted"
        /\ pc[t][1] \notin {"add", "release"} => taken[t] = {}
    /\ \A t, u \in Threads :
        /\ t # u => held[t] \cap held[u] = {} /\ taken[t] \cap taken[u] = {}
        /\ held[t] \cap taken[u] = {}
    /\ \A p \in Procs : status[p] = "in" => \E t \in Threads : p \in held[t] \/ p \in taken[t]

BInv == /\ TypeOK /\ Runs /\ Completer /\ Tagged /\ Collected
        /\ CountIsAbsent /\ NobodyPassesEarly
=============================================================================
