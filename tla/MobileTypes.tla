----------------------------- MODULE MobileTypes -----------------------------
(***************************************************************************)
(* Mobile types and the processes that share them: mt_alloc, mt_clone,     *)
(* mt_io_update, mt_release and the fork barrier of kernel/sched.c, with   *)
(* the calls that start and end processes (Y_startp, Y_endp, X_par_enroll, *)
(* X_proc_mt_copy, X_proc_mt_move, Y_proc_start, Y_proc_end).              *)
(*                                                                         *)
(* Shared channel bundles and barriers are reference counted; a mobile     *)
(* array has one owner, and its elements are references.  The barrier of a *)
(* FORKING block is a mobile barrier too: every forked process holds a     *)
(* reference to it, and the process that opened the block waits for the    *)
(* count to reach zero.  One action is one access to a word that several   *)
(* processes write; which thread a process is on does not matter here.     *)
(*                                                                         *)
(* A definition named after a slip is a mutant of the one that follows it. *)
(***************************************************************************)
EXTENDS Integers, FiniteSets

CONSTANTS
    Procs, Root,     \* processes; the one that is started first
    Objs,            \* blocks of memory
    Slots,           \* mobile variables of a process
    MaxLeak,         \* bound: how often arrays of shared ends are moved
    NULL

ASSUME MobileAssumption == Root \in Procs /\ MaxLeak \in Nat
ASSUME FiniteAssumption == IsFiniteSet(Procs) /\ IsFiniteSet(Objs) /\ IsFiniteSet(Slots)
ASSUME NullAssumption == NULL \notin Objs \cup Procs

VARIABLES
    obj,             \* blocks: kind, ref_count, element, word of a barrier
    stray,           \* (history) increments by mt_io_update_array
    state,           \* of a process
    var,             \* mobile variables of a process
    forkBar,         \* the fork barrier a process has a reference to
    opened,          \* the process opened the FORKING block itself
    parent,          \* whose PAR a process is a branch of, or who sets it up
    Count,           \* Wptr[Count] of a process in a PAR
    late             \* the barrier whose resign a process is about to call

memory == <<obj, stray>>
vars   == <<obj, stray, state, var, forkBar, opened, parent, Count, late>>

Free == [kind |-> "free", ref |-> 0, elem |-> NULL, word |-> NULL]

Init ==
    /\ obj = [o \in Objs |-> Free] /\ stray = [o \in Objs |-> 0]
    /\ state = [p \in Procs |-> IF p = Root THEN "run" ELSE "none"]
    /\ var = [p \in Procs |-> [s \in Slots |-> NULL]]
    /\ forkBar = [p \in Procs |-> NULL] /\ opened = [p \in Procs |-> FALSE]
    /\ parent = [p \in Procs |-> NULL] /\ Count = [p \in Procs |-> 0]
    /\ late = [p \in Procs |-> NULL]

Kind(o) == obj[o].kind
To(p, s) == state' = [state EXCEPT ![p] = s]
Set(p, s, o) == var' = [var EXCEPT ![p][s] = o]

-----------------------------------------------------------------------------
(* mt_alloc.  A new bundle is what both of its ends refer to (ref_count 2). *)
AllocCB(p, s1, s2) ==
    /\ state[p] = "run" /\ s1 # s2 /\ var[p][s1] = NULL /\ var[p][s2] = NULL
    /\ \E o \in Objs :
          /\ Kind(o) = "free"
          /\ obj' = [obj EXCEPT ![o] = [Free EXCEPT !.kind = "cb", !.ref = 2]]
          /\ var' = [var EXCEPT ![p][s1] = o, ![p][s2] = o]
    /\ UNCHANGED <<stray, state, forkBar, opened, parent, Count, late>>

(* mt_alloc_array; the program puts an end of a bundle into it. *)
AllocArray(p, s) ==
    /\ state[p] = "run" /\ var[p][s] # NULL /\ Kind(var[p][s]) = "cb"
    /\ \E o \in Objs :
          /\ Kind(o) = "free"
          /\ obj' = [obj EXCEPT ![o] = [Free EXCEPT !.kind = "array", !.elem = var[p][s]]]
          /\ Set(p, s, o)
    /\ UNCHANGED <<stray, state, forkBar, opened, parent, Count, late>>

(* mt_clone: a bundle gets one more reference; an array is copied and its   *)
(* element cloned.                                                          *)
CloneInto(o, c) ==
    IF Kind(o) = "cb"
    THEN /\ obj' = [obj EXCEPT ![o].ref = @ + 1]
         /\ c = o
    ELSE /\ Kind(c) = "free"
         /\ obj' = [obj EXCEPT ![c] = obj[o], ![obj[o].elem].ref = @ + 1]

(* X_mt_clone, and X_proc_mt_copy to the workspace of a process that is     *)
(* being set up                                                             *)
SetsUp(p, q) == state[q] = "setup" /\ parent[q] = p

Clone(p, s, q, r) ==
    /\ (q = p /\ state[p] = "run") \/ SetsUp(p, q)
    /\ var[p][s] # NULL /\ var[q][r] = NULL
    /\ \E c \in Objs : CloneInto(var[p][s], c) /\ Set(q, r, c)
    /\ UNCHANGED <<stray, state, forkBar, opened, parent, Count, late>>

(* mt_io_update: the sender of a shared end keeps it and the count goes up; *)
(* an array goes to the receiver, but the counts of its elements go up too. *)
IoUpdateCB(p, s) ==
    /\ Kind(var[p][s]) = "cb"
    /\ obj' = [obj EXCEPT ![var[p][s]].ref = @ + 1]
    /\ UNCHANGED stray

IoUpdateArray(p, s) ==
    /\ Kind(var[p][s]) = "array"
    /\ LET e == obj[var[p][s]].elem IN
          /\ stray[e] < MaxLeak
          /\ obj' = [obj EXCEPT ![e].ref = @ + 1]
          /\ stray' = [stray EXCEPT ![e] = @ + 1]

(* X_proc_mt_move; X_mt_out to a process that runs (module Alternation has  *)
(* the rendezvous).                                                         *)
KeepsShared(p, s, q, r) ==
    /\ Kind(var[p][s]) = "cb"
    /\ UNCHANGED obj /\ UNCHANGED stray
    /\ Set(q, r, var[p][s])

Shares(p, s, q, r) ==
    /\ IoUpdateCB(p, s)
    /\ Set(q, r, var[p][s])

Moves(p, s, q, r) ==
    /\ IoUpdateArray(p, s)
    /\ var' = [var EXCEPT ![q][r] = var[p][s], ![p][s] = NULL]

Move(p, s, q, r) ==
    /\ (q # p /\ state[p] = "run" /\ state[q] = "run") \/ SetsUp(p, q)
    /\ var[p][s] # NULL /\ var[q][r] = NULL
    /\ Shares(p, s, q, r) \/ Moves(p, s, q, r)
    /\ UNCHANGED <<state, forkBar, opened, parent, Count, late>>

(* mt_release: the last reference to a bundle frees it; an array frees its  *)
(* elements' references and goes.                                           *)
Dropped(f, o) == IF f[o].ref = 1 THEN [f EXCEPT ![o] = Free]
                                 ELSE [f EXCEPT ![o].ref = @ - 1]
Released(o) == IF Kind(o) = "cb" THEN Dropped(obj, o)
               ELSE [Dropped(obj, obj[o].elem) EXCEPT ![o] = Free]
Kept(f) == [o \in Objs |-> IF f[o].kind = "free" THEN 0 ELSE stray[o]]

Release(p, s) ==
    /\ state[p] = "run" /\ var[p][s] # NULL
    /\ obj' = Released(var[p][s]) /\ stray' = Kept(obj')
    /\ Set(p, s, NULL)
    /\ UNCHANGED <<state, forkBar, opened, parent, Count, late>>

-----------------------------------------------------------------------------
(* FORKING: mt_alloc_barrier *)
OpenBlock(p) ==
    /\ state[p] = "run" /\ forkBar[p] = NULL
    /\ \E o \in Objs :
          /\ Kind(o) = "free"
          /\ obj' = [obj EXCEPT ![o] = [Free EXCEPT !.kind = "forking", !.ref = 1]]
          /\ forkBar' = [forkBar EXCEPT ![p] = o]
    /\ opened' = [opened EXCEPT ![p] = TRUE]
    /\ UNCHANGED <<stray, state, var, parent, Count, late>>

(* FORK: the new process gets a reference to the barrier (mt_clone_simple;  *)
(* fork_bar_enroll does nothing) and its parameters, then Y_proc_start.     *)
ForkUncounted(p, q) ==
    /\ state[p] = "run" /\ state[q] = "none" /\ forkBar[p] # NULL
    /\ UNCHANGED obj
    /\ forkBar' = [forkBar EXCEPT ![q] = forkBar[p]]
    /\ state' = [state EXCEPT ![p] = "fork", ![q] = "setup"]
    /\ parent' = [parent EXCEPT ![q] = p]
    /\ UNCHANGED <<stray, var, opened, Count, late>>

Fork(p, q) ==
    /\ state[p] = "run" /\ state[q] = "none" /\ forkBar[p] # NULL
    /\ obj' = [obj EXCEPT ![forkBar[p]].ref = @ + 1]
    /\ forkBar' = [forkBar EXCEPT ![q] = forkBar[p]]
    /\ state' = [state EXCEPT ![p] = "fork", ![q] = "setup"]
    /\ parent' = [parent EXCEPT ![q] = p]
    /\ UNCHANGED <<stray, var, opened, Count, late>>

ProcStart(p, q) ==
    /\ SetsUp(p, q)
    /\ state' = [state EXCEPT ![p] = "run", ![q] = "run"]
    /\ parent' = [parent EXCEPT ![q] = NULL]
    /\ UNCHANGED <<memory, var, forkBar, opened, Count, late>>

(* A forked process is done: mt_release of its barrier.  The last reference *)
(* wakes the process in the word (fork_bar_complete) and frees the block;   *)
(* otherwise barrier.resign of the block is called, after the count is      *)
(* given up.                                                                *)
Clean(p) == \A s \in Slots : var[p][s] = NULL

Leaves(p, o) ==
    IF obj[o].word # NULL
    THEN /\ state' = [state EXCEPT ![p] = "none", ![obj[o].word] = "run"]
         /\ forkBar' = [forkBar EXCEPT ![p] = NULL, ![obj[o].word] = NULL]
         /\ opened' = [opened EXCEPT ![obj[o].word] = FALSE]
    ELSE /\ To(p, "none") /\ UNCHANGED opened
         /\ forkBar' = [forkBar EXCEPT ![p] = NULL]

ReleaseBar(p) ==
    /\ state[p] = "run" /\ forkBar[p] # NULL /\ ~opened[p] /\ Count[p] = 0 /\ Clean(p)
    /\ LET o == forkBar[p] IN
          /\ obj' = Dropped(obj, o)
          /\ IF obj[o].ref = 1
             THEN Leaves(p, o) /\ UNCHANGED late
             ELSE /\ To(p, "resign") /\ late' = [late EXCEPT ![p] = o]
                  /\ forkBar' = [forkBar EXCEPT ![p] = NULL] /\ UNCHANGED opened
    /\ UNCHANGED <<stray, var, parent, Count>>

(* fork_bar_resign does nothing; then Y_proc_end. *)
ProcEnd(p) ==
    /\ state[p] = "resign"
    /\ To(p, "none") /\ late' = [late EXCEPT ![p] = NULL]
    /\ UNCHANGED <<memory, var, forkBar, opened, parent, Count>>

(* fork_bar_sync: the process is entered before the count is given up.      *)
SyncForgetsProcess(p) ==
    /\ state[p] = "run" /\ opened[p]
    /\ To(p, "dec")
    /\ UNCHANGED <<memory, var, forkBar, opened, parent, Count, late>>

SyncSets(p) ==
    /\ state[p] = "run" /\ opened[p]
    /\ obj' = [obj EXCEPT ![forkBar[p]].word = p]
    /\ To(p, "dec")
    /\ UNCHANGED <<stray, var, forkBar, opened, parent, Count, late>>

SyncDec(p) ==
    /\ state[p] = "dec"
    /\ obj' = Dropped(obj, forkBar[p])
    /\ IF obj[forkBar[p]].ref = 1
       THEN /\ To(p, "run")
            /\ forkBar' = [forkBar EXCEPT ![p] = NULL] /\ opened' = [opened EXCEPT ![p] = FALSE]
       ELSE To(p, "sync") /\ UNCHANGED <<forkBar, opened>>
    /\ UNCHANGED <<stray, var, parent, Count, late>>

-----------------------------------------------------------------------------
(* PAR: the count is set before the branches are started (Y_startp); a      *)
(* branch may add others (X_par_enroll).                                    *)
Startp(p, q) ==
    /\ state[p] = "run" /\ state[q] = "none" /\ Count[p] = 0
    /\ Count' = [Count EXCEPT ![p] = 2]
    /\ parent' = [parent EXCEPT ![q] = p]
    /\ forkBar' = [forkBar EXCEPT ![q] = NULL]
    /\ To(q, "run")
    /\ UNCHANGED <<memory, var, opened, late>>

ParEnroll(p, q) ==
    /\ state[p] = "run" /\ state[q] = "none" /\ Count[p] > 0
    /\ Count' = [Count EXCEPT ![p] = @ + 1]
    /\ parent' = [parent EXCEPT ![q] = p]
    /\ forkBar' = [forkBar EXCEPT ![q] = NULL]
    /\ To(q, "run")
    /\ UNCHANGED <<memory, var, opened, late>>

(* Y_endp of a branch that has its own workspace, and of the one that runs  *)
(* in the workspace of the PAR: the last one goes on after the PAR.         *)
Endp(p, w) ==
    /\ state[p] = "run" /\ ~opened[p] /\ Clean(p)
    /\ \/ w = parent[p] /\ w # NULL /\ Count[p] = 0
       \/ w = p /\ Count[p] > 0
    /\ Count' = [Count EXCEPT ![w] = @ - 1]
    /\ state' = LET f == [state EXCEPT ![p] = IF w = p THEN "par" ELSE "none"]
                IN  IF Count[w] = 1 THEN [f EXCEPT ![w] = "run"] ELSE f
    /\ parent' = [parent EXCEPT ![p] = IF w = p THEN @ ELSE NULL]
    /\ UNCHANGED <<memory, var, forkBar, opened, late>>

-----------------------------------------------------------------------------
Next ==
    \/ \E p \in Procs, r, s \in Slots : AllocCB(p, r, s)
    \/ \E p \in Procs, s \in Slots : AllocArray(p, s) \/ Release(p, s)
    \/ \E p, q \in Procs, r, s \in Slots : Clone(p, s, q, r) \/ Move(p, s, q, r)
    \/ \E p \in Procs : \/ OpenBlock(p) \/ SyncSets(p) \/ SyncDec(p)
                       \/ ReleaseBar(p) \/ ProcEnd(p)
    \/ \E p, q \in Procs : \/ Fork(p, q) \/ ProcStart(p, q) \/ Startp(p, q) \/ ParEnroll(p, q)
                          \/ Endp(p, q)

Spec == Init /\ [][Next]_vars

-----------------------------------------------------------------------------
(* Properties *)

(* Every component of the state has its type. *)
TypeOK ==
    /\ obj \in [Objs -> [kind : {"free", "cb", "array", "forking"}, ref : Nat,
                         elem : Objs \cup {NULL}, word : Procs \cup {NULL}]]
    /\ stray \in [Objs -> 0..MaxLeak] /\ opened \in [Procs -> BOOLEAN]
    /\ state \in [Procs -> {"none", "setup", "run", "fork", "resign", "dec", "sync", "par"}]
    /\ var \in [Procs -> [Slots -> Objs \cup {NULL}]]
    /\ forkBar \in [Procs -> Objs \cup {NULL}] /\ late \in [Procs -> Objs \cup {NULL}]
    /\ parent \in [Procs -> Procs \cup {NULL}] /\ Count \in [Procs -> Nat]

Holders(o)  == {x \in Procs \X Slots : var[x[1]][x[2]] = o}
Elements(o) == {a \in Objs : obj[a].elem = o}
Forked(o)   == {p \in Procs : forkBar[p] = o /\ state[p] # "sync"}

(* The count of a bundle or a fork barrier is the number of references that *)
(* exist, plus what mt_io_update_array added for arrays that were moved:    *)
(* nothing is freed while it is referred to, and a bundle is never freed at *)
(* all once an array with it has been sent.                                 *)
Refs(o) == Cardinality(Holders(o)) + Cardinality(Elements(o))
RefsExact ==
    \A o \in Objs :
        /\ Kind(o) = "cb" => obj[o].ref = Refs(o) + stray[o] /\ obj[o].ref > 0
        /\ Kind(o) = "forking" => obj[o].ref = Cardinality(Forked(o)) /\ obj[o].ref > 0
        /\ Kind(o) = "array" => Refs(o) = 1
        /\ Kind(o) = "free" => Refs(o) = 0 /\ Forked(o) = {}

(* Nobody sleeps with nobody left to wake him: a process that waits in      *)
(* fork_bar_sync is in the word of a barrier that an unfinished process     *)
(* still refers to, and one at the end of a PAR waits for as many branches  *)
(* as its count says.                                                       *)
Branches(p) == {q \in Procs : parent[q] = p /\ state[q] # "setup"}
SleeperHasWaker ==
    \A p \in Procs :
        /\ state[p] = "sync" => Forked(forkBar[p]) # {} /\ obj[forkBar[p]].word = p
        /\ state[p] = "par" => Branches(p) # {}
        /\ Count[p] = Cardinality(Branches(p))
                      + (IF state[p] # "par" /\ Count[p] > 0 THEN 1 ELSE 0)

(* A FORKING block is a join: its opener leaves it once, and only when      *)
(* every process that was forked in it, by whomever, has finished.          *)
J == INSTANCE Join WITH
        members <- [p \in Procs |-> IF opened[p]
                                    THEN {q \in Procs \ {p} : forkBar[q] = forkBar[p]} ELSE {}],
        block <- [p \in Procs |-> IF ~opened[p] THEN "closed"
                                  ELSE IF state[p] \in {"dec", "sync"} THEN "waiting" ELSE "open"]
IsJoin == J!Spec

-----------------------------------------------------------------------------
(* The inductive invariant behind the properties *)

(* An array has a bundle in it, variables refer to bundles and arrays, fork *)
(* barriers to barriers, and only bundles leak.                             *)
Shape ==
    /\ \A o \in Objs :
        /\ Kind(o) = "array" => obj[o].elem \in Objs /\ Kind(obj[o].elem) = "cb"
        /\ Kind(o) # "array" => obj[o].elem = NULL
        /\ Kind(o) # "cb" => stray[o] = 0
    /\ \A p \in Procs, s \in Slots : var[p][s] # NULL => Kind(var[p][s]) \in {"cb", "array"}
    /\ \A p \in Procs : forkBar[p] # NULL => Kind(forkBar[p]) = "forking"

(* What the state of a process says about its place in blocks and PARs.     *)
Families ==
    /\ \A p \in Procs :
        /\ state[p] \in {"none", "resign"} => forkBar[p] = NULL /\ parent[p] = NULL
        /\ state[p] \in {"none", "resign", "setup"} => ~opened[p] /\ Count[p] = 0
        /\ state[p] = "setup" => parent[p] # NULL /\ state[parent[p]] = "fork"
        /\ parent[p] # NULL /\ state[p] # "setup" /\ forkBar[p] # NULL => opened[p]
    /\ \A p, q \in Procs :
        state[p] = "setup" /\ state[q] = "setup" /\ parent[p] = parent[q] => p = q

(* A FORKING block has one opener, and its word names the opener exactly    *)
(* while it waits.                                                          *)
Blocks ==
    /\ \A p \in Procs :
        /\ opened[p] => forkBar[p] # NULL
        /\ state[p] \in {"dec", "sync"} => opened[p] /\ obj[forkBar[p]].word = p
    /\ \A p, q \in Procs : opened[p] /\ opened[q] /\ forkBar[p] = forkBar[q] => p = q
    /\ \A o \in Objs :
        /\ Kind(o) = "forking" => \E p \in Procs : opened[p] /\ forkBar[p] = o
        /\ Kind(o) = "forking" /\ obj[o].word # NULL =>
            forkBar[obj[o].word] = o /\ state[obj[o].word] \in {"dec", "sync"}

MInv == TypeOK /\ Shape /\ Families /\ Blocks /\ RefsExact /\ SleeperHasWaker
=============================================================================
