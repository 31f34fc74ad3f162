-------------------------------- MODULE Join --------------------------------
(***************************************************************************)
(* What FORKING promises: the process that opened the block leaves it only *)
(* when every process that was forked in it has finished, and it leaves it *)
(* once.  A forked process may fork others into the same block.            *)
(***************************************************************************)
CONSTANT Procs

VARIABLES
    members,         \* [Procs -> SUBSET Procs]: unfinished, by opener
    block            \* [Procs -> {"closed", "open", "waiting"}]

Init ==
    /\ members = [p \in Procs |-> {}]
    /\ block = [p \in Procs |-> "closed"]

Open(p) ==
    /\ block[p] = "closed" /\ block' = [block EXCEPT ![p] = "open"]
    /\ UNCHANGED members

Fork(p, q) ==
    /\ block[p] = "open" \/ (block[p] = "waiting" /\ members[p] # {})
    /\ \A o \in Procs : q \notin members[o]
    /\ members' = [members EXCEPT ![p] = @ \cup {q}]
    /\ UNCHANGED block

Finish(p, q) ==
    /\ q \in members[p] /\ members' = [members EXCEPT ![p] = @ \ {q}]
    /\ UNCHANGED block

Close(p) ==
    /\ block[p] = "open" /\ block' = [block EXCEPT ![p] = "waiting"]
    /\ UNCHANGED members

(* The last to finish lets the opener go on; so does the opener itself if   *)
(* nobody is left.                                                          *)
Leave(p) ==
    /\ block[p] \in {"open", "waiting"} /\ members[p] = {}
    /\ block' = [block EXCEPT ![p] = "closed"]
    /\ UNCHANGED members

FinishAndLeave(p, q) ==
    /\ block[p] = "waiting" /\ members[p] = {q}
    /\ members' = [members EXCEPT ![p] = {}]
    /\ block' = [block EXCEPT ![p] = "closed"]

Next ==
    \/ \E p \in Procs : Open(p) \/ Close(p) \/ Leave(p)
    \/ \E p, q \in Procs : Fork(p, q) \/ Finish(p, q) \/ FinishAndLeave(p, q)

Spec == Init /\ [][Next]_<<members, block>>
=============================================================================
