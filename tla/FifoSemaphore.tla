--------------------------- MODULE FifoSemaphore ---------------------------
(***************************************************************************)
(* What a CCSP semaphore promises: at most one process owns it, processes  *)
(* that find it taken wait in arrival order, and ownership is handed to    *)
(* the process at the front of the queue.  It says nothing about words,    *)
(* bits or threads: module Semaphore is shown to implement it.             *)
(***************************************************************************)
EXTENDS Naturals, Sequences

CONSTANTS Procs,     \* the processes
          NoProc     \* "nobody owns the semaphore"

VARIABLES owner,     \* the process inside the semaphore, or NoProc
          queue      \* the processes waiting, in arrival order

vars == <<owner, queue>>

Init == owner = NoProc /\ queue = <<>>

Queued(p) == \E i \in 1..Len(queue) : queue[i] = p

(* The semaphore is free and nobody waits: the claim succeeds at once. *)
Claim(p) ==
    /\ owner = NoProc /\ queue = <<>>
    /\ owner' = p
    /\ UNCHANGED queue

(* Any other claim waits behind the processes that came before it. *)
Wait(p) ==
    /\ owner # p /\ ~Queued(p)
    /\ queue' = Append(queue, p)
    /\ UNCHANGED owner

Release ==
    /\ owner # NoProc
    /\ owner' = NoProc
    /\ UNCHANGED queue

(* The semaphore passes to the process that has waited longest. *)
Grant ==
    /\ owner = NoProc /\ queue # <<>>
    /\ owner' = Head(queue)
    /\ queue' = Tail(queue)

Next == \/ \E p \in Procs : Claim(p) \/ Wait(p)
        \/ Release
        \/ Grant

Spec == Init /\ [][Next]_vars
=============================================================================
