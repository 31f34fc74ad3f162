--------------------------- MODULE Transterpreter ---------------------------
(***************************************************************************)
(* The Transterpreter, the byte-code interpreter of runtime/libtvm, as its *)
(* wrappers drive it: two execution contexts, firmware and user, take      *)
(* turns on one thread and communicate over the top-level channels of the  *)
(* user program.  Modelled are the scheduler and its timer queue           *)
(* (scheduler.c), channel input and output, extended input, ALT and timer  *)
(* ALT (ins_chan.c, ins_pi.c, ins_alt.c, ins_timer.c), disconnection of a  *)
(* context (interpreter.c) and the main loops of tvm/posix and tvm/srv1.   *)
(*                                                                         *)
(* One action is one instruction.  The firmware runs until it has nothing  *)
(* to run, the user program may be time-sliced between any two             *)
(* instructions.  In the posix wrapper an alarm signal may come between    *)
(* any two steps; the calls of set_alarm and the rounds of the loop in     *)
(* walk_timer_queue are steps of their own.                                *)
(*                                                                         *)
(* Times are relative to the clock: 0 is now.  TIME_AFTER subtracts, so    *)
(* only differences matter, and these are far below half the range of a    *)
(* word (bound MaxDelay).                                                  *)
(*                                                                         *)
(* A definition named after a slip is a mutant of the one that follows it. *)
(***************************************************************************)
EXTENDS Integers, Sequences, FiniteSets, SequencesExt

CONSTANTS
    Procs,           \* processes
    Ctx,             \* the context of a process
    Ops,             \* with each wrapper, the operations of a process
    Chans, Writer, Reader,
    TopLevel,        \* channels that are parameters of the user program
    Alts,            \* with each wrapper, the ALTs of a process
    Wrappers,        \* of {"posix", "srv1"}
    MaxDelay,        \* bound: how far ahead a timeout is
    MaxLate,         \* bound: ticks between two steps of the same ALT
    TIMER, SKIP, NULL

Contexts == {"firmware", "user"}
OpKinds  == {"in", "out", "xin", "alt", "tin", "stop", "kill"}

ASSUME ProgramAssumption ==
    /\ Ctx \in [Procs -> Contexts] /\ Ops \in [Wrappers -> [Procs -> SUBSET OpKinds]]
    /\ Writer \in [Chans -> Procs] /\ Reader \in [Chans -> Procs]
    /\ TopLevel = {c \in Chans : Ctx[Writer[c]] # Ctx[Reader[c]]}
    /\ \A w \in Wrappers : \A p \in Procs : \A a \in Alts[w][p] :
          a \in Seq({TIMER, SKIP} \cup {c \in Chans : Reader[c] = p}) /\ a # <<>>
ASSUME ProcsAssumption == IsFiniteSet(Procs)
ASSUME NamesAssumption == NULL \notin Procs /\ {TIMER, SKIP} \cap Chans = {} /\ TIMER # SKIP
ASSUME BoundsAssumption == MaxDelay \in Nat \ {0} /\ MaxLate \in Nat \ {0}

VARIABLES
    wrapper,         \* which program embeds the interpreter
    turn,            \* the context that runs, or "sleep", or "off"
    mode, then,      \* where the interpreter is, and after set_alarm
    alive,           \* the user program is being run
    wptr, runq, tq,  \* per context: WPTR, FPTR .. BPTR, TPTR ..
    sflag,           \* per context: SFLAG_TQ
    chan,            \* channel words
    slot,            \* WS_STATE and WS_POINTER, which are one word
    tlink, time,     \* WS_TLINK, WS_TIME
    temp,            \* WS_TEMP: the guard selected
    pc, guards, due, idx, \* a process: where it is in its ALT or input
    alarm, itimer,   \* alarm_set, alarm_time; the interval timer of the OS
    err              \* EFLAG_CHAN or EFLAG_ALT

sched == <<wptr, runq>>
timer == <<tq, tlink, time>>
ws    == <<temp, pc, guards, due, idx>>
os    == <<alarm, itimer>>
loop  == <<wrapper, alive>>
vars  == <<loop, turn, mode, then, sched, timer, sflag, chan, slot, ws, os, err>>

Word(p, a) == [who |-> p, alt |-> a]
Empty == Word(NULL, FALSE)               \* NOT_PROCESS_P
Cut   == Word(NULL, TRUE)                \* NOT_PROCESS_P | 1: disconnected
Plain(v) == v.who # NULL /\ ~v.alt

Off == -1                                \* the interval timer is not running
Far == MaxDelay + 2                      \* it runs for 2^32 microseconds less a few

InAlt == {"enable", "wait", "disable", "end"}

Init ==
    /\ wrapper \in Wrappers /\ alive = TRUE
    /\ turn = "firmware" /\ mode = "sync" /\ then = "run"
    /\ wptr = [c \in Contexts |-> NULL]
    /\ runq = [c \in Contexts |-> SetToSeq({p \in Procs : Ctx[p] = c})]
    /\ tq = [c \in Contexts |-> <<>>] /\ sflag = [c \in Contexts |-> FALSE]
    /\ chan = [c \in Chans |-> Empty]
    /\ slot = [p \in Procs |-> "none"]
    /\ tlink = [p \in Procs |-> "notset"] /\ time = [p \in Procs |-> 0]
    /\ temp = [p \in Procs |-> 0] /\ idx = [p \in Procs |-> 0]
    /\ pc = [p \in Procs |-> "idle"]
    /\ guards = [p \in Procs |-> <<>>] /\ due = [p \in Procs |-> <<>>]
    /\ alarm = [set |-> FALSE, at |-> 0, t |-> Off] /\ itimer = Off
    /\ err = FALSE

-----------------------------------------------------------------------------
(* Scheduling *)

(* p executes an instruction *)
Runs(p) == turn = Ctx[p] /\ mode = "run" /\ wptr[turn] = p

(* ADD_TO_QUEUE_ECTX *)
Queue(rq, p) == [rq EXCEPT ![Ctx[p]] = Append(@, p)]

(* RUN_NEXT_ON_QUEUE, which Synchronise and Pick carry out *)
RunNext ==
    /\ wptr' = [wptr EXCEPT ![turn] = NULL]
    /\ mode' = "sync" /\ UNCHANGED <<then, turn>>

Continue == UNCHANGED <<wptr, mode, then, turn>>

(* LOAD_PROCESS_RET: a process of the same context goes on at once.         *)
Load(p, rq) ==
    \/ /\ p # NULL /\ Ctx[p] = turn
       /\ wptr' = [wptr EXCEPT ![turn] = p] /\ runq' = rq
       /\ UNCHANGED <<mode, then, turn>>
    \/ /\ p # NULL /\ Ctx[p] # turn
       /\ runq' = Queue(rq, p) /\ RunNext
    \/ /\ p = NULL
       /\ runq' = rq /\ RunNext

(* set_error_flag: the context fails, and with it the program *)
Fail ==
    /\ err' = TRUE /\ turn' = "off"
    /\ UNCHANGED <<loop, mode, then, sched, timer, sflag, chan, slot, ws, os>>

(* tvm_run and tvm_run_count: a context goes on where it was *)
Begin(c) ==
    /\ turn' = c
    /\ mode' = IF wptr[c] = NULL THEN "sync" ELSE "run"

(* The end of a round of the main loop *)
Round ==
    IF \A c \in Contexts : runq[c] = <<>> THEN turn' = "sleep" /\ UNCHANGED mode
    ELSE Begin("firmware")

(* Both wrappers: the user program has run its number of instructions *)
Slice ==
    /\ turn = "user" /\ mode = "run"
    /\ Begin("firmware")
    /\ UNCHANGED <<loop, then, sched, timer, sflag, chan, slot, ws, os, err>>

-----------------------------------------------------------------------------
(* The timer queue *)

After(t1, t2) == t1 > t2
TNEXT(c) == time[Head(tq[c])]            \* kept in a word of its own

(* Go on at next, after a call of set_alarm if there is one. *)
Enter(setAlarm, next) ==
    /\ mode' = IF setAlarm THEN "alarm" ELSE next
    /\ then' = IF setAlarm THEN next ELSE "run"
Resume == mode' = then /\ then' = "run"

(* timer_queue_insert, then run the next process.  set_alarm if p is first. *)
Insert(q, p, t) ==
    LET later == {i \in DOMAIN q : After(time[q[i]], t)}
    IN  IF later = {} THEN Append(q, p) ELSE InsertAt(q, Min(later), p)

TimerQueueInsert(p, t) ==
    LET q == Insert(tq[turn], p, t) IN
    /\ tq' = [tq EXCEPT ![turn] = q]
    /\ time' = [time EXCEPT ![p] = t]
    /\ tlink' = [tlink EXCEPT ![p] = "link"]
    /\ wptr' = [wptr EXCEPT ![turn] = NULL]
    /\ Enter(Head(q) = p, "sync")
    /\ UNCHANGED <<turn, runq>>

(* timer_queue_remove, in the middle of disabling *)
Place(q, p) == CHOOSE i \in DOMAIN q : q[i] = p
TimerQueueRemove(p) ==
    LET q == RemoveAt(tq[turn], Place(tq[turn], p)) IN
    /\ tq' = [tq EXCEPT ![turn] = q]
    /\ tlink' = [tlink EXCEPT ![p] = "notset"]
    /\ Enter(Head(tq[turn]) = p /\ q # <<>>, "run")

(* run_next_on_queue: busy_wait_synchronise, and walk_timer_queue up to its *)
(* loop.  The flag stays set while anything is on the timer queue.          *)
Expired(c) == tq[c] # <<>> /\ ~After(TNEXT(c), 0)
FlagClears(c) ==
    sflag' = [sflag EXCEPT ![c] = FALSE]
FlagAfterWalk(c) ==
    sflag' = [sflag EXCEPT ![c] = tq'[c] # <<>>]

Synchronise ==
    /\ turn \in Contexts /\ mode = "sync" /\ sflag[turn]
    /\ \/ Expired(turn) /\ mode' = "walk" /\ UNCHANGED <<timer, sflag>>
       \/ ~Expired(turn) /\ UNCHANGED timer /\ FlagAfterWalk(turn) /\ mode' = "pick"
    /\ UNCHANGED <<loop, turn, then, sched, chan, slot, ws, os, err>>

(* The loop.  A process that a channel has made ready is on a run queue, or *)
(* running, and is only taken off the timer queue.                          *)
WalkTimerQueue ==
    /\ turn \in Contexts /\ mode = "walk"
    /\ LET p    == Head(tq[turn])
           rest == Tail(tq[turn])
           more == rest # <<>> /\ ~After(time[Head(rest)], 0)
       IN
       /\ tq' = [tq EXCEPT ![turn] = rest]
       /\ tlink' = [tlink EXCEPT ![p] = "set"] /\ time' = [time EXCEPT ![p] = 0]
       /\ slot' = [slot EXCEPT ![p] = "ready"]
       /\ runq' = IF slot[p] # "ready" THEN Queue(runq, p) ELSE runq
       /\ \/ more /\ UNCHANGED <<mode, then, sflag>>
          \/ ~more /\ Enter(rest # <<>>, "pick") /\ FlagAfterWalk(turn)
    /\ UNCHANGED <<loop, turn, wptr, chan, ws, os, err>>

-----------------------------------------------------------------------------
(* Alarms *)

(* tvm_set_alarm of tvm/posix/vm.c; busy_wait_set_alarm on the SRV-1.  An   *)
(* alarm that is due or overdue sets the flag, and goes on: setitimer is    *)
(* then given 0, which stops the timer, or nearly 2^32 microseconds.        *)
SetAlarm ==
    /\ turn \in Contexts /\ mode = "alarm"
    /\ LET next == TNEXT(turn) IN
       \/ /\ wrapper = "srv1"
          /\ sflag' = [sflag EXCEPT ![turn] = TRUE]
          /\ Resume /\ UNCHANGED alarm
       \/ /\ wrapper = "posix" /\ alarm.set /\ After(next, alarm.at)
          /\ Resume /\ UNCHANGED <<alarm, sflag>>
       \/ /\ wrapper = "posix" /\ ~(alarm.set /\ After(next, alarm.at))
          /\ sflag' = [sflag EXCEPT ![turn] = @ \/ ~After(next, 0)]
          /\ alarm' = [set |-> TRUE, at |-> next,
                       t |-> IF After(next, 0) THEN next ELSE IF next = 0 THEN Off ELSE Far]
          /\ mode' = "itimer" /\ UNCHANGED then
    /\ UNCHANGED <<loop, turn, sched, timer, chan, slot, ws, itimer, err>>

SetItimer ==
    /\ mode = "itimer"
    /\ itimer' = alarm.t /\ alarm' = [alarm EXCEPT !.t = Off]
    /\ Resume
    /\ UNCHANGED <<loop, turn, sched, timer, sflag, chan, slot, ws, err>>

(* sigalrm_handler; the signal ends a nanosleep. *)
SigAlrm ==
    /\ turn # "off" /\ itimer = 0
    /\ sflag' = [c \in Contexts |-> TRUE]
    /\ alarm' = [alarm EXCEPT !.set = FALSE, !.at = 0] /\ itimer' = Off
    /\ IF turn = "sleep" THEN Begin("firmware") ELSE UNCHANGED <<turn, mode>>
    /\ UNCHANGED <<loop, then, sched, timer, chan, slot, ws, err>>

(* tvm_sleep: until the first timeout, if there is one.  On the SRV-1 any   *)
(* interrupt ends it, and it does not begin while a flag is set.            *)
Awake ==
    /\ turn = "sleep"
    /\ \/ wrapper = "srv1"
       \/ \A c \in Contexts : tq[c] = <<>>
       \/ \E c \in Contexts : tq[c] # <<>> /\ ~After(TNEXT(c), 0)
    /\ Begin("firmware")
    /\ UNCHANGED <<loop, then, sched, timer, sflag, chan, slot, ws, os, err>>

(* Times that somebody still compares, of contexts that are still run *)
Runnable(c) == c = "firmware" \/ alive
Aging(p) == Runnable(Ctx[p]) /\ (tlink[p] = "link" \/ pc[p] \in InAlt)

Timers(p) == {i \in DOMAIN guards[p] : guards[p][i] = TIMER /\ due[p] # <<>>}

(* A tick is longer than the step from reading the clock to setitimer, than *)
(* a walk of the timer queue, and than the delivery of a signal.            *)
Tick ==
    /\ turn # "off" /\ itimer # 0 /\ mode \notin {"itimer", "walk"}
    /\ \A p \in Procs : Aging(p) =>
          /\ tlink[p] # "notset" => time[p] > -MaxLate
          /\ \A i \in Timers(p) : due[p][i] >= -MaxLate
    /\ time' = [p \in Procs |-> IF Aging(p) /\ tlink[p] # "notset" THEN time[p] - 1 ELSE time[p]]
    /\ due' = [p \in Procs |-> [i \in DOMAIN due[p] |->
                  IF Aging(p) /\ i \in Timers(p) THEN due[p][i] - 1 ELSE due[p][i]]]
    /\ alarm' = [alarm EXCEPT !.at = IF alarm.set /\ @ >= -MaxLate THEN @ - 1 ELSE @]
    /\ itimer' = IF itimer \in {Off, Far} THEN itimer ELSE itimer - 1
    /\ UNCHANGED <<loop, turn, mode, then, sched, tq, tlink, sflag, chan, slot, temp, pc,
                   guards, idx, err>>

-----------------------------------------------------------------------------
(* run_next_on_queue, the rest: the first process of the run queue, or the  *)
(* context stops (ECTX_SLEEP, ECTX_EMPTY) and the main loop goes on.        *)
Picking(c) == turn = c /\ mode \in {"pick", "sync"} /\ (mode = "sync" => ~sflag[c])

PickNext ==
    /\ turn \in Contexts /\ Picking(turn) /\ runq[turn] # <<>>
    /\ wptr' = [wptr EXCEPT ![turn] = Head(runq[turn])]
    /\ runq' = [runq EXCEPT ![turn] = Tail(@)]
    /\ mode' = "run"
    /\ UNCHANGED <<loop, turn, then, timer, sflag, chan, slot, ws, os, err>>

FirmwareStops ==
    /\ Picking("firmware") /\ runq["firmware"] = <<>>
    /\ IF alive THEN Begin("user") ELSE Round
    /\ UNCHANGED <<loop, then, sched, timer, sflag, chan, slot, ws, os, err>>

(* tvm_ectx_waiting_on: a process of the user program is in a channel word  *)
WaitingOn == \E c \in TopLevel : chan[c].who # NULL /\ Ctx[chan[c].who] = "user"

UserStops ==
    /\ Picking("user") /\ runq["user"] = <<>>
    /\ tq["user"] # <<>> \/ WaitingOn
    /\ Round
    /\ UNCHANGED <<loop, then, sched, timer, sflag, chan, slot, ws, os, err>>

(* tvm_ectx_disconnect: nobody is left waiting on a top-level channel, and  *)
(* nobody will.  Whoever waits is resumed, an ALT once.                     *)
Released ==
    {p \in Procs : \E c \in TopLevel :
        chan[c].who = p /\ (chan[c].alt => slot[p] = "waiting")}

Disconnect ==
    /\ chan' = [c \in Chans |-> IF c \in TopLevel THEN Cut ELSE chan[c]]
    /\ slot' = [p \in Procs |->
                  IF slot[p] \in {"waiting", "enabling"} /\ \E c \in TopLevel : chan[c] = Word(p, TRUE)
                  THEN "ready" ELSE slot[p]]
    /\ runq' = [c \in Contexts |-> runq[c] \o SetToSeq({p \in Released : Ctx[p] = c})]

(* run_user: a user program that can never go on.  The posix wrapper ends,  *)
(* the SRV-1 goes on without it.                                            *)
UserBreaksDown ==
    /\ Picking("user") /\ runq["user"] = <<>>
    /\ tq["user"] = <<>> /\ ~WaitingOn
    /\ \/ /\ wrapper = "posix" /\ turn' = "off"
          /\ UNCHANGED <<alive, chan, slot, runq, mode>>
       \/ /\ wrapper = "srv1" /\ alive' = FALSE
          /\ Disconnect /\ Begin("firmware")
    /\ UNCHANGED <<wrapper, then, wptr, timer, sflag, ws, os, err>>

-----------------------------------------------------------------------------
(* Channels *)

Goto(p, label) == pc' = [pc EXCEPT ![p] = label]
Enters(p, kind) == Runs(p) /\ pc[p] = "idle" /\ kind \in Ops[wrapper][p]
Done(p) ==
    /\ Goto(p, "idle")
    /\ guards' = [guards EXCEPT ![p] = <<>>] /\ due' = [due EXCEPT ![p] = <<>>]
    /\ temp' = [temp EXCEPT ![p] = 0] /\ idx' = [idx EXCEPT ![p] = 0]

(* chan_io and chan_std_io: input and output alike *)
Communicate(p, c) ==              \* the other end is there
    /\ Plain(chan[c])
    /\ chan' = [chan EXCEPT ![c] = Empty]
    /\ Load(chan[c].who, Queue(runq, p))
    /\ UNCHANGED slot

Block(p, c) ==                    \* the word is empty, or an ALT's
    LET other == chan[c].who IN
    /\ \/ /\ chan[c] = Empty
          /\ slot' = [slot EXCEPT ![p] = "data"] /\ Load(NULL, runq)
       \/ /\ other # NULL /\ chan[c].alt /\ slot[other] \in {"waiting", "enabling", "ready"}
          /\ slot' = [slot EXCEPT ![other] = "ready", ![p] = "data"]
          /\ Load(IF slot[other] = "waiting" THEN other ELSE NULL, runq)
    /\ chan' = [chan EXCEPT ![c] = Word(p, FALSE)]

Pass(p, c) ==                     \* disconnected: nothing is communicated
    /\ chan[c] = Cut
    /\ Load(NULL, Queue(runq, p))
    /\ UNCHANGED <<chan, slot>>

ChanIO(p, c) ==
    \/ /\ Communicate(p, c) \/ Block(p, c) \/ Pass(p, c)
       /\ Done(p) /\ UNCHANGED <<loop, timer, sflag, os, err>>
    \/ /\ chan[c].who # NULL /\ chan[c].alt
       /\ slot[chan[c].who] \notin {"waiting", "enabling", "ready"}
       /\ Fail

Out(p) == Enters(p, "out") /\ \E c \in Chans : Writer[c] = p /\ ChanIO(p, c)
In(p) ==
    \/ Enters(p, "in") /\ \E c \in Chans : Reader[c] = p /\ ChanIO(p, c)
    \/ Runs(p) /\ pc[p] = "in" /\ ChanIO(p, guards[p][temp[p]])

(* ins_xable: wait for the writer, as an ALT of one guard does *)
XAble(p) ==
    /\ Enters(p, "xin")
    /\ \E c \in Chans :
          /\ Reader[c] = p
          /\ guards' = [guards EXCEPT ![p] = <<c>>] /\ temp' = [temp EXCEPT ![p] = 1]
          /\ \/ /\ chan[c] = Empty
                /\ slot' = [slot EXCEPT ![p] = "waiting"]
                /\ chan' = [chan EXCEPT ![c] = Word(p, TRUE)]
                /\ RunNext
             \/ /\ chan[c] # Empty /\ Continue
                /\ UNCHANGED <<slot, chan>>
    /\ Goto(p, "xin")
    /\ UNCHANGED <<loop, runq, timer, sflag, due, idx, os, err>>

(* ins_xin: takes the value, leaves the writer in the channel word.  On a   *)
(* disconnected channel the process goes to the back of the queue.          *)
XIn(p) ==
    /\ Runs(p) /\ pc[p] = "xin"
    /\ LET v == chan[guards[p][temp[p]]] IN
       \/ /\ Plain(v) /\ Continue
          /\ Goto(p, "xend")
          /\ UNCHANGED <<loop, runq, timer, sflag, chan, slot, temp, guards, due, idx, os, err>>
       \/ /\ v = Cut
          /\ Load(NULL, Queue(runq, p))
          /\ Goto(p, "xend")
          /\ UNCHANGED <<loop, timer, sflag, chan, slot, temp, guards, due, idx, os, err>>
       \/ /\ ~Plain(v) /\ v # Cut /\ Fail

(* ins_xend: lets the writer go, unless disconnection has *)
XEnd(p) ==
    /\ Runs(p) /\ pc[p] = "xend"
    /\ LET c == guards[p][temp[p]] IN
       \/ /\ chan[c] # Cut
          /\ chan' = [chan EXCEPT ![c] = Empty]
          /\ runq' = Queue(runq, chan[c].who)
       \/ /\ chan[c] = Cut
          /\ UNCHANGED <<chan, runq>>
    /\ Continue /\ Done(p)
    /\ UNCHANGED <<loop, timer, sflag, slot, os, err>>

-----------------------------------------------------------------------------
(* Alternation *)

HasTimer(p) == Timers(p) # {}
Guard(p) == guards[p][idx[p]]
Advance(p, next) ==
    IF idx[p] < Len(guards[p]) THEN idx' = [idx EXCEPT ![p] = @ + 1] /\ UNCHANGED pc
    ELSE idx' = [idx EXCEPT ![p] = 0] /\ Goto(p, next)

(* ins_alt and ins_talt, with the program's choice of ALT and timeouts *)
AltStart(p) ==
    /\ Enters(p, "alt")
    /\ \E a \in Alts[wrapper][p] : \E d \in [DOMAIN a -> 0..MaxDelay] :
          /\ \A i \in DOMAIN a : a[i] # TIMER => d[i] = 0
          /\ guards' = [guards EXCEPT ![p] = a] /\ due' = [due EXCEPT ![p] = d]
    /\ slot' = [slot EXCEPT ![p] = "enabling"]
    /\ tlink' = [tlink EXCEPT ![p] = "notset"] /\ time' = [time EXCEPT ![p] = 0]
    /\ Goto(p, "enable") /\ idx' = [idx EXCEPT ![p] = 1]
    /\ Continue
    /\ UNCHANGED <<loop, runq, tq, sflag, chan, temp, os, err>>

(* ins_enbc, ins_enbs, ins_enbt *)
Enbc(p, c) ==
    /\ chan' = [chan EXCEPT ![c] = IF @ = Empty THEN Word(p, TRUE) ELSE @]
    /\ slot' = [slot EXCEPT ![p] = IF chan[c] \in {Empty, Word(p, TRUE)} THEN @ ELSE "ready"]
    /\ UNCHANGED <<tlink, time>>
Enbs(p) ==
    /\ slot' = [slot EXCEPT ![p] = "ready"]
    /\ UNCHANGED <<chan, tlink, time>>
Enbt(p, timeout) ==
    /\ tlink' = [tlink EXCEPT ![p] = "set"]
    /\ time' = [time EXCEPT ![p] = IF tlink[p] = "notset" \/ After(@, timeout) THEN timeout ELSE @]
    /\ UNCHANGED <<chan, slot>>

Enable(p) ==
    /\ Runs(p) /\ pc[p] = "enable"
    /\ \/ Guard(p) \in Chans /\ Enbc(p, Guard(p))
       \/ Guard(p) = SKIP /\ Enbs(p)
       \/ Guard(p) = TIMER /\ Enbt(p, due[p][idx[p]])
    /\ Advance(p, "wait") /\ Continue
    /\ UNCHANGED <<loop, runq, tq, sflag, temp, guards, due, os, err>>

(* ins_altwt and ins_taltwt.  WS_TIME becomes the time of the wait or of    *)
(* the wake-up, which disabling compares with the timeouts.                 *)
KeepsTimeout(p) == time
NowIn(p) == IF HasTimer(p) THEN [time EXCEPT ![p] = 0] ELSE time

AltWait(p) ==
    /\ Runs(p) /\ pc[p] = "wait"
    /\ Goto(p, "disable") /\ idx' = [idx EXCEPT ![p] = 1]
    /\ LET over == HasTimer(p) /\ After(0, time[p]) IN
       \/ /\ slot[p] = "ready" \/ over
          /\ slot' = [slot EXCEPT ![p] = "ready"] /\ time' = NowIn(p)
          /\ Continue /\ UNCHANGED <<runq, tq, tlink>>
       \/ /\ slot[p] # "ready" /\ ~over
          /\ slot' = [slot EXCEPT ![p] = "waiting"]
          /\ IF HasTimer(p) THEN TimerQueueInsert(p, time[p] + 1)
             ELSE RunNext /\ UNCHANGED <<runq, timer>>
    /\ UNCHANGED <<loop, sflag, chan, temp, guards, due, os, err>>

(* ins_disc, ins_diss, ins_dist: the first guard found ready is selected *)
Select(p, ready) ==
    temp' = [temp EXCEPT ![p] = IF ready /\ @ = 0 THEN idx[p] ELSE @]

DiscLeavesWord(p, c) ==
    /\ Select(p, chan[c] \notin {Empty, Word(p, TRUE)})
    /\ UNCHANGED <<chan, tq, tlink, mode, then>>
Disc(p, c) ==
    /\ chan' = [chan EXCEPT ![c] = IF @ = Word(p, TRUE) THEN Empty ELSE @]
    /\ Select(p, chan[c] \notin {Empty, Word(p, TRUE)})
    /\ UNCHANGED <<tq, tlink, mode, then>>
Diss(p) ==
    /\ Select(p, TRUE)
    /\ UNCHANGED <<chan, tq, tlink, mode, then>>
Dist(p, timeout) ==
    /\ Select(p, tlink[p] = "set" /\ ~After(timeout, time[p]))
    /\ IF tlink[p] = "link" THEN TimerQueueRemove(p) ELSE UNCHANGED <<tq, tlink, mode, then>>
    /\ UNCHANGED chan

Disable(p) ==
    /\ Runs(p) /\ pc[p] = "disable"
    /\ \/ Guard(p) \in Chans /\ Disc(p, Guard(p))
       \/ Guard(p) = SKIP /\ Diss(p)
       \/ Guard(p) = TIMER /\ Dist(p, due[p][idx[p]])
    /\ Advance(p, "end")
    /\ UNCHANGED <<loop, turn, sched, time, sflag, slot, guards, due, os, err>>

(* ins_altend: the branch of the guard selected, which begins with an input *)
(* or an extended input if the guard is a channel                           *)
Selected(p) == guards[p][temp[p]]
AltEnd(p) ==
    /\ Runs(p) /\ pc[p] = "end"
    /\ \/ /\ temp[p] = 0 /\ Fail
       \/ /\ temp[p] # 0 /\ Selected(p) \notin Chans
          /\ Done(p) /\ time' = [time EXCEPT ![p] = 0] /\ Continue
          /\ UNCHANGED <<loop, runq, tq, tlink, sflag, chan, slot, os, err>>
       \/ /\ temp[p] # 0 /\ Selected(p) \in Chans
          /\ \E next \in {"in", "xin"} : (next = "xin" => "xin" \in Ops[wrapper][p]) /\ Goto(p, next)
          /\ due' = [due EXCEPT ![p] = <<>>] /\ time' = [time EXCEPT ![p] = 0] /\ Continue
          /\ UNCHANGED <<loop, runq, tq, tlink, sflag, chan, slot, temp, guards, idx, os, err>>

-----------------------------------------------------------------------------
(* Other instructions *)

(* ins_tin.  WS_STATE is set so that walk_timer_queue does not take the     *)
(* process for a ready ALT.  A timeout that is over is a step of nothing.   *)
TinKeepsState(p) ==
    /\ Enters(p, "tin")
    /\ \E d \in 0..MaxDelay : TimerQueueInsert(p, d)
    /\ UNCHANGED <<loop, sflag, chan, slot, ws, os, err>>
Tin(p) ==
    /\ Enters(p, "tin")
    /\ \E d \in 0..MaxDelay : TimerQueueInsert(p, d)
    /\ slot' = [slot EXCEPT ![p] = "none"]
    /\ UNCHANGED <<loop, sflag, chan, ws, os, err>>

(* ins_stopp *)
Stop(p) ==
    /\ Enters(p, "stop")
    /\ Goto(p, "stopped") /\ RunNext
    /\ UNCHANGED <<loop, runq, timer, sflag, chan, slot, temp, guards, due, idx, os, err>>

(* firmware_kill_user of tvm/srv1; the process that started the user        *)
(* program, which is resumed, is left out.                                  *)
KillUser(p) ==
    /\ Enters(p, "kill") /\ wrapper = "srv1" /\ alive
    /\ alive' = FALSE /\ Disconnect
    /\ Continue
    /\ UNCHANGED <<wrapper, timer, sflag, ws, os, err>>

Instruction(p) ==
    \/ Out(p) \/ In(p) \/ XAble(p) \/ XIn(p) \/ XEnd(p)
    \/ AltStart(p) \/ Enable(p) \/ AltWait(p) \/ Disable(p) \/ AltEnd(p)
    \/ Tin(p) \/ Stop(p) \/ KillUser(p)

Scheduler ==
    \/ Synchronise \/ WalkTimerQueue \/ SetAlarm \/ SetItimer \/ PickNext
    \/ FirmwareStops \/ UserStops \/ UserBreaksDown \/ Awake

Next ==
    \/ \E p \in Procs : Instruction(p)
    \/ Scheduler \/ Slice \/ SigAlrm \/ Tick

(* The interpreter goes on; a slice of the user program is at least one     *)
(* instruction long, and ends; signals are delivered, and the clock ticks.  *)
Fairness ==
    /\ WF_vars(Scheduler) /\ WF_vars(SigAlrm) /\ SF_vars(Tick) /\ SF_vars(Slice)
    /\ SF_vars(\E p \in Procs : Ctx[p] = "user" /\ Instruction(p))
    /\ WF_vars(\E p \in Procs : Ctx[p] = "firmware" /\ Instruction(p))

Spec == Init /\ [][Next]_vars /\ Fairness

-----------------------------------------------------------------------------
(* Properties *)

Times == (-MaxLate - 1)..(MaxDelay + 1)
TypeOK ==
    /\ wrapper \in Wrappers /\ alive \in BOOLEAN
    /\ turn \in Contexts \cup {"sleep", "off"}
    /\ mode \in {"sync", "walk", "alarm", "itimer", "pick", "run"} /\ then \in {"sync", "pick", "run"}
    /\ wptr \in [Contexts -> Procs \cup {NULL}]
    /\ runq \in [Contexts -> Seq(Procs)] /\ tq \in [Contexts -> Seq(Procs)]
    /\ sflag \in [Contexts -> BOOLEAN]
    /\ chan \in [Chans -> [who: Procs \cup {NULL}, alt: BOOLEAN]]
    /\ slot \in [Procs -> {"none", "data", "enabling", "waiting", "ready"}]
    /\ tlink \in [Procs -> {"notset", "set", "link"}]
    /\ time \in [Procs -> Times]
    /\ pc \in [Procs -> InAlt \cup {"idle", "in", "xin", "xend", "stopped"}]
    /\ guards \in [Procs -> Seq(Chans \cup {TIMER, SKIP})] /\ due \in [Procs -> Seq((-MaxLate - 1)..MaxDelay)]
    /\ temp \in [Procs -> Nat] /\ idx \in [Procs -> Nat]
    /\ alarm \in [set: BOOLEAN, at: Int, t: {Off, Far} \cup 1..(MaxDelay + 1)]
    /\ itimer \in {Off, Far} \cup 0..(MaxDelay + 1) /\ err \in BOOLEAN

(* EFLAG_CHAN and EFLAG_ALT are never set: a writer that finds an ALT in    *)
(* the channel word finds it in a state of its ALT, xin finds a writer, and *)
(* no ALT ends without a selection, disconnection and time slices included. *)
NoErrors == ~err

(* A process is on one run queue, once, or the current one, or it waits for *)
(* something that will resume it: a channel word, a timer queue.  A process *)
(* that can run is on no timer queue, unless its ALT has still to take it   *)
(* off, in which case walk_timer_queue sees that it is ready.               *)
OnQueue(p) == {c \in Contexts : p \in ToSet(runq[c])}
CanRun(p)  == OnQueue(p) # {} \/ \E c \in Contexts : wptr[c] = p
Timed(p)   == p \in ToSet(tq[Ctx[p]])
Held(p)    == \E c \in Chans : chan[c] = Word(p, FALSE)

InOnePlace ==
    /\ \A c \in Contexts : IsInjective(runq[c]) /\ IsInjective(tq[c])
    /\ \A p \in Procs :
         /\ OnQueue(p) \subseteq {Ctx[p]}
         /\ wptr[Ctx[p]] = p => OnQueue(p) = {}
         /\ CanRun(p) => ~Held(p) /\ slot[p] # "waiting" /\ (Timed(p) => slot[p] = "ready")
         /\ ~CanRun(p) /\ pc[p] # "stopped" /\ Runnable(Ctx[p]) =>
              \/ Held(p)
              \/ Timed(p) /\ slot[p] # "ready"
              \/ slot[p] = "waiting" /\ \E c \in Chans : chan[c] = Word(p, TRUE)

(* A guard is selected only if it is ready: its writer waits in the channel *)
(* or the channel is disconnected, or its timeout is over.                  *)
SelectedIsReady ==
    \A p \in Procs : pc[p] = "end" /\ temp[p] # 0 /\ Runnable(Ctx[p]) =>
       CASE Selected(p) = TIMER -> ~After(due[p][temp[p]], 0)
         [] Selected(p) = SKIP  -> TRUE
         [] OTHER -> chan[Selected(p)] \in {Word(Writer[Selected(p)], FALSE), Cut}

(* tvm_set_alarm believes in an alarm that it has switched off. *)
Stuck == alarm.set /\ itimer \in {Off, Far} /\ mode # "itimer"

(* A process on a timer queue leaves it, although the contexts share one    *)
(* alarm that each sets, moves and clears: as long as none is stuck, and if *)
(* the contexts come back to their schedulers, since nothing takes the      *)
(* interpreter away from a process that never deschedules.                  *)
Returns(c) == []<>(~Runnable(c) \/ (turn = c /\ mode = "sync"))
TimersWake ==
    []~Stuck /\ (\A c \in Contexts : Returns(c)) =>
       \A p \in Procs : []<>(~Timed(p) \/ ~Runnable(Ctx[p]))

-----------------------------------------------------------------------------
(* The inductive invariant behind NoErrors, InOnePlace and SelectedIsReady *)

(* The interpreter may take a process from a queue only when its context    *)
(* has none; it walks while the first process is due, and sets an alarm for *)
(* one.                                                                     *)
Switching ==
    \/ mode \in {"sync", "walk", "pick"}
    \/ mode \in {"alarm", "itimer"} /\ then # "run"
Turns ==
    /\ turn \in Contexts /\ Switching => wptr[turn] = NULL
    /\ mode = "walk" => turn \in Contexts /\ Expired(turn)
    /\ mode = "alarm" => turn \in Contexts /\ tq[turn] # <<>>

(* Processes are queued in their own contexts, once.                        *)
RunLists ==
    \A c \in Contexts :
        /\ IsInjective(runq[c]) /\ \A p \in ToSet(runq[c]) : Ctx[p] = c
        /\ wptr[c] # NULL => Ctx[wptr[c]] = c /\ wptr[c] \notin ToSet(runq[c])
TimerLists ==
    /\ \A c \in Contexts : IsInjective(tq[c]) /\ \A p \in ToSet(tq[c]) : Ctx[p] = c
    /\ \A p \in Procs : Timed(p) <=> tlink[p] = "link"

(* The guards that a process has enabled and not yet disabled.              *)
Offered(p) ==
    {i \in DOMAIN guards[p] :
        \/ pc[p] = "enable" /\ i < idx[p]
        \/ pc[p] = "wait"
        \/ pc[p] = "disable" /\ i >= idx[p]
        \/ pc[p] = "xin" /\ slot[p] = "waiting" /\ i = temp[p]}

(* A channel word has the ALT of a reader that offers to input from it, or  *)
(* a process that waits there and nowhere else.                             *)
HasAlt(c, p) ==
    /\ p = Reader[c] /\ slot[p] \in {"enabling", "waiting", "ready"}
    /\ \E i \in Offered(p) : guards[p][i] = c
HasWaiter(c, p) ==
    /\ p \in {Writer[c], Reader[c]}
    /\ pc[p] = "idle" /\ slot[p] = "data" /\ ~CanRun(p)
Words ==
    /\ \A c \in Chans : chan[c].who # NULL =>
          IF chan[c].alt THEN HasAlt(c, chan[c].who) ELSE HasWaiter(c, chan[c].who)
    /\ \A c, d \in Chans : Plain(chan[c]) /\ chan[c] = chan[d] => c = d

(* What a process has at its position in the code.                          *)
Position(p) ==
    /\ Len(due[p]) \in {0, Len(guards[p])}
    /\ \A i \in DOMAIN guards[p] : guards[p][i] \in Chans => Reader[guards[p][i]] = p
    /\ pc[p] \in {"idle", "stopped"} => guards[p] = <<>> /\ temp[p] = 0 /\ slot[p] # "waiting"
    /\ pc[p] = "idle" => CanRun(p) \/ Held(p) \/ tlink[p] = "link"
    /\ pc[p] = "stopped" => ~CanRun(p)
    /\ pc[p] \notin {"idle", "stopped"} => (CanRun(p) <=> slot[p] # "waiting")
    /\ pc[p] \in InAlt => guards[p] # <<>> /\ Len(due[p]) = Len(guards[p])
    /\ pc[p] \in {"enable", "disable"} => idx[p] \in DOMAIN guards[p]
    /\ pc[p] \in {"enable", "wait"} => slot[p] \in {"enabling", "ready"} /\ temp[p] = 0
    /\ pc[p] = "disable" => \/ slot[p] = "ready"
                            \/ slot[p] = "waiting" /\ idx[p] = 1 /\ temp[p] = 0
    /\ pc[p] = "end" => slot[p] = "ready"
    /\ pc[p] \in {"in", "xend"} => slot[p] # "waiting"
    /\ pc[p] \in {"in", "xin", "xend"} => temp[p] \in DOMAIN guards[p] /\ guards[p][temp[p]] \in Chans

(* A channel on which an input completes at once                            *)
Ready(c) == chan[c] \in {Word(Writer[c], FALSE), Cut}
Fires(p, i) ==
    \/ guards[p][i] = SKIP
    \/ guards[p][i] \in Chans /\ Ready(guards[p][i])
    \/ guards[p][i] = TIMER /\ tlink[p] = "set" /\ ~After(due[p][i], time[p])
Chosen(p, i) ==
    /\ i \in DOMAIN guards[p]
    /\ \/ guards[p][i] = SKIP
       \/ guards[p][i] \in Chans /\ Ready(guards[p][i])
       \/ guards[p][i] = TIMER /\ ~After(due[p][i], 0)

(* An ALT is ready if one of the guards it offers is, and otherwise has its *)
(* word in every channel it offers; there is always something to select,    *)
(* and what has been selected stays ready.                                  *)
Selection(p) ==
    /\ slot[p] \in {"enabling", "waiting"} =>
          \A i \in Offered(p) : /\ guards[p][i] \in Chans => chan[guards[p][i]] = Word(p, TRUE)
                                /\ guards[p][i] # SKIP
    /\ pc[p] \in {"enable", "wait", "disable"} /\ slot[p] = "ready" /\ temp[p] = 0 =>
          \E i \in Offered(p) : Fires(p, i) /\ (pc[p] # "disable" => guards[p][i] # TIMER)
    /\ pc[p] = "end" => temp[p] # 0
    /\ pc[p] \in {"disable", "end"} /\ temp[p] # 0 => Chosen(p, temp[p])
    /\ pc[p] \in {"in", "xin", "xend"} /\ slot[p] # "waiting" => Ready(guards[p][temp[p]])

(* The Time field of an ALT: the time of an enabled timer guard, one more   *)
(* in the timer queue, the time of the wait or the wake-up in the end.      *)
Deadline(p) ==
    /\ tlink[p] = "link" => \/ pc[p] = "idle" /\ slot[p] = "none" /\ ~CanRun(p)
                            \/ pc[p] = "disable"
    /\ pc[p] \in {"enable", "wait"} =>
          \/ tlink[p] = "notset" /\ \A i \in Offered(p) : guards[p][i] # TIMER
          \/ tlink[p] = "set" /\ \E i \in Offered(p) : guards[p][i] = TIMER /\ due[p][i] = time[p]
    /\ pc[p] = "disable" =>
          /\ tlink[p] = "set" => time[p] <= 0
          /\ tlink[p] = "link" =>
                /\ \A i \in DOMAIN guards[p] : guards[p][i] = TIMER => i \in Offered(p)
                /\ \E i \in Offered(p) : guards[p][i] = TIMER /\ due[p][i] + 1 = time[p]
          /\ slot[p] = "waiting" /\ tlink[p] # "link" =>
                \A i \in DOMAIN guards[p] : guards[p][i] # TIMER

Processes == \A p \in Procs : Position(p) /\ Selection(p) /\ Deadline(p)

TInv == TypeOK /\ NoErrors /\ Turns /\ RunLists /\ TimerLists /\ Words /\ Processes

=============================================================================
