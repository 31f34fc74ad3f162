---------------------------- MODULE Alternation ----------------------------
(***************************************************************************)
(* Channel communication and alternation in the multiprocessor scheduler   *)
(* (kernel/sched.c): kernel_chan_io, xable/xend, the ALT instructions, the *)
(* timer node of a timed ALT, and trigger_alt_guard.                       *)
(*                                                                         *)
(* One process, the reader, owns the reading ends of the channels; each    *)
(* channel has its own writer, which outputs for ever.  All of them run on *)
(* different threads and share the channel words and the reader's State    *)
(* word.  A channel word is NotProcess_p, the pointer of the process that  *)
(* waits there, or the reader's pointer with bit 0 set while it ALTs.      *)
(*                                                                         *)
(* The State word counts 1 for the ALTing process and 1 for each guard     *)
(* that may still trigger it.  It shares its place in the workspace with   *)
(* Pointer, the buffer address of a plain communication: a trigger that    *)
(* comes too late would corrupt a pointer.                                 *)
(*                                                                         *)
(* An action is one access to a shared word together with the local work   *)
(* up to the next one.  A definition named after a slip (AltEndAtOnce,     *)
(* ExpireEarly...) is  a mutant of the one that follows it: the property   *)
(* named with it in PROJECT.json fails when the code is wrong that way.    *)
(***************************************************************************)
EXTENDS Integers, Sequences, FiniteSets

CONSTANTS
    Chans,           \* channels; a channel also names its writer process
    Reader,          \* the process at the other end
    Tagged,          \* the reader's pointer with bit 0 set
    NP,              \* NotProcess_p
    TIMER, SKIP,     \* guards that are not channels
    Alts             \* ALTs the reader may perform: the guards in the order they are
                     \*   enabled, and the client, who compiled it

Procs == Chans \cup {Reader}

ASSUME AltsAssumption ==
    \A a \in Alts :
        /\ a.client \in {"occam", "ProcAlt", "raw"}
        /\ a.guards \in Seq(Chans \cup {TIMER, SKIP}) /\ Len(a.guards) > 0
        /\ \A j, k \in DOMAIN a.guards : a.guards[j] = TIMER /\ a.guards[k] = TIMER => j = k
ASSUME DistinctAssumption ==
    /\ Reader \notin {Tagged, NP} /\ Tagged # NP /\ TIMER # SKIP
    /\ {Reader, Tagged, NP, TIMER, SKIP} \cap Chans = {}
ASSUME ChansAssumption == IsFiniteSet(Chans) /\ Chans # {}

VARIABLES
    prog,            \* the ALT of the reader's program
    chan,            \* the channel words
    slot,            \* the reader's State/Pointer word
    pend,            \* calls of trigger_alt_guard under way against the reader
    run,             \* is a process running (or on a run queue) or descheduled?
    pc,              \* where each process is
    cur,             \* the channel of the reader's current communication
    i, hi,           \* guard being enabled or disabled; last one to disable
    saved,           \* local state of altwt
    temp,            \* Wptr[Temp] of the reader: the selected guard
    tlink,           \* Wptr[TLink] of the reader
    node,            \* wptr of the reader's timer queue node
    due,             \* has the ALT's timeout passed?
    now,             \* had it passed when taltwt read the time?
    tfield,          \* the reader's Time field against the timeout
    sent, rec,       \* ghost: outputs begun and transfers made, modulo 2
    ready,           \* ghost: channel guards ready when the disabling begins
    again            \* ghost: a process was enqueued that was not descheduled

altvars   == <<i, hi, saved, temp, tlink, now, tfield>>
ghosts    == <<sent, rec, ready>>
vars      == <<prog, chan, slot, pend, run, pc, cur, i, hi, saved, temp, tlink, node, due, now,
               tfield, sent, rec, ready, again>>

Guards == prog.guards
Client == prog.client

-----------------------------------------------------------------------------
(* The State word: flag bits and a count *)

Flags   == {"ENABLING", "WAITING", "NOT_READY"}
State(fl, n)  == [flags |-> fl, n |-> n]
Pointer(c)    == [flags |-> {"POINTER"}, n |-> 0, to |-> c]
IsState(s)    == s.flags \subseteq Flags
And(s, fl)    == [s EXCEPT !.flags = @ \ fl]
Add(s, k)     == [s EXCEPT !.n = @ + k]
Zero          == State({}, 0)
Clear         == {"NOT_READY", "ENABLING"}

(* Wptr[Temp] holds the number of the selected guard, or one of these. *)
NoneSelected == 0
Stale == -1

Timed == \E k \in DOMAIN Guards : Guards[k] = TIMER

Goto(p, label) == pc' = [pc EXCEPT ![p] = label]
At(p, label)   == pc[p] = label /\ run[p] = "running"

(* kernel_scheduler: the process gives up its thread. *)
Deschedule(p)  == run' = [run EXCEPT ![p] = "descheduled"]

(* enqueue_process: the process is put on a run queue. *)
Enqueue(p) ==
    /\ run' = [run EXCEPT ![p] = "running"]
    /\ again' = (again \/ run[p] = "running")

Init ==
    /\ prog \in Alts
    /\ chan = [c \in Chans |-> NP]
    /\ slot = Zero
    /\ pend = 0
    /\ run = [p \in Procs |-> "running"]
    /\ pc = [p \in Procs |-> "top"]
    /\ cur = CHOOSE c \in Chans : TRUE
    /\ i = 1 /\ hi = 0
    /\ saved = Zero
    /\ temp = Stale
    /\ tlink = "stale"
    /\ node = NP
    /\ due = FALSE /\ now = FALSE /\ tfield = "stale"
    /\ sent = [c \in Chans |-> 0] /\ rec = [c \in Chans |-> 0]
    /\ ready = {}
    /\ again = FALSE

-----------------------------------------------------------------------------
(* trigger_alt_guard, executed by whoever swapped the reader's tagged       *)
(* pointer out of a channel or a timer node.  The loop around the CAS       *)
(* makes it one atomic update.                                              *)

InAlt == pc[Reader] \in {"enable", "enbSwap", "enbInc", "enbRestore", "enbReady", "enbClear",
                         "wait", "waitCas", "waitOut", "disable", "disCas", "disDec",
                         "altend", "altDec"}

ReadyGuards == {k \in DOMAIN Guards : Guards[k] \in Chans /\ chan[Guards[k]] = Guards[k]}

Triggered(s) == And(Add(s, -1), {"NOT_READY", "WAITING"})

Trigger ==
    /\ pend > 0
    /\ pend' = pend - 1
    /\ slot' = Triggered(slot)
    /\ IF "WAITING" \in slot.flags \/ Triggered(slot) = Zero
       THEN Enqueue(Reader) ELSE UNCHANGED <<run, again>>
    /\ ready' = IF InAlt /\ "WAITING" \in slot.flags THEN ReadyGuards ELSE ready
    /\ UNCHANGED <<prog, chan, pc, cur, altvars, node, due, sent, rec>>

-----------------------------------------------------------------------------
(* kernel_chan_io, by the writer of c (output) or the reader (input) *)

IoChan(p) == IF p = Reader THEN cur ELSE p

(* Read the channel; if there is nobody to communicate with, save the       *)
(* buffer address in Pointer before the process can be seen in the channel. *)
IoReadUnsaved(p) ==
    /\ At(p, "io")
    /\ Goto(p, IF chan[IoChan(p)] \in {NP, Tagged} THEN "ioSwap" ELSE "ioTake")
    /\ UNCHANGED <<prog, chan, slot, pend, run, cur, altvars, node, due, ghosts, again>>

IoRead(p) ==
    LET c == IoChan(p) IN
    /\ At(p, "io")
    /\ IF chan[c] \in {NP, Tagged}
       THEN /\ Goto(p, "ioSwap")
            /\ slot' = IF p = Reader THEN Pointer(c) ELSE slot
       ELSE Goto(p, "ioTake") /\ UNCHANGED slot
    /\ UNCHANGED <<prog, chan, pend, run, cur, altvars, node, due, ghosts, again>>

(* Swap in the own pointer.  Found nobody: wait.  Found the ALTing reader:  *)
(* trigger it and wait.  Found the partner: it will be taken.               *)
IoSwap(p) ==
    LET c == IoChan(p) IN
    /\ At(p, "ioSwap")
    /\ chan' = [chan EXCEPT ![c] = p]
    /\ IF chan[c] \in {NP, Tagged}
       THEN Deschedule(p) /\ Goto(p, "top")
       ELSE Goto(p, "ioTake") /\ UNCHANGED run
    /\ pend' = IF chan[c] = Tagged THEN pend + 1 ELSE pend
    /\ UNCHANGED <<prog, slot, cur, altvars, node, due, ghosts, again>>

(* Empty the channel... *)
IoTake(p) ==
    /\ At(p, "ioTake")
    /\ chan' = [chan EXCEPT ![IoChan(p)] = NP]
    /\ Goto(p, "ioCopy")
    /\ UNCHANGED <<prog, slot, pend, run, cur, altvars, node, due, ghosts, again>>

(* ... copy the data and reschedule the partner. *)
Transfer(c) == rec' = [rec EXCEPT ![c] = 1 - @]

IoCopy(p) ==
    LET c == IoChan(p) IN
    /\ At(p, "ioCopy")
    /\ Transfer(c)
    /\ Enqueue(IF p = Reader THEN c ELSE Reader)
    /\ Goto(p, "top")
    /\ UNCHANGED <<prog, chan, slot, pend, cur, altvars, node, due, sent, ready>>

Output(c) ==
    /\ At(c, "top")
    /\ sent' = [sent EXCEPT ![c] = 1 - @]
    /\ Goto(c, "io")
    /\ UNCHANGED <<prog, chan, slot, pend, run, cur, altvars, node, due, rec, ready, again>>

Input(c) ==
    /\ At(Reader, "top")
    /\ cur' = c
    /\ Goto(Reader, "io")
    /\ UNCHANGED <<prog, chan, slot, pend, run, altvars, node, due, ghosts, again>>

-----------------------------------------------------------------------------
(* Extended input: xable, xin, the program's own code, xend *)

Xable(c) ==
    /\ At(Reader, "top")
    /\ cur' = c
    /\ IF chan[c] = NP
       THEN slot' = State({"WAITING"}, 1) /\ Goto(Reader, "xSwap")
       ELSE UNCHANGED slot /\ Goto(Reader, "xin")
    /\ UNCHANGED <<prog, chan, pend, run, altvars, node, due, ghosts, again>>

XSwap ==
    /\ At(Reader, "xSwap")
    /\ chan' = [chan EXCEPT ![cur] = Tagged]
    /\ IF chan[cur] = NP
       THEN Deschedule(Reader) /\ Goto(Reader, "xin")
       ELSE UNCHANGED run /\ Goto(Reader, "xRestore")
    /\ UNCHANGED <<prog, slot, pend, cur, altvars, node, due, ghosts, again>>

(* The writer came first: put it back. *)
XRestore ==
    /\ At(Reader, "xRestore")
    /\ chan' = [chan EXCEPT ![cur] = cur]
    /\ Goto(Reader, "xin")
    /\ UNCHANGED <<prog, slot, pend, run, cur, altvars, node, due, ghosts, again>>

(* kernel_chan_io with CIO_EXTENDED: copy, but leave the writer waiting.    *)
Xin ==
    /\ At(Reader, "xin")
    /\ IF chan[cur] = cur
       THEN Transfer(cur) /\ Goto(Reader, "xend") /\ UNCHANGED slot
       ELSE slot' = Pointer(cur) /\ Goto(Reader, "ioSwap") /\ UNCHANGED rec
    /\ UNCHANGED <<prog, chan, pend, run, cur, altvars, node, due, sent, ready, again>>

Xend ==
    /\ At(Reader, "xend")
    /\ chan' = [chan EXCEPT ![cur] = NP]
    /\ Enqueue(cur)
    /\ Goto(Reader, "top")
    /\ UNCHANGED <<prog, slot, pend, cur, altvars, node, due, ghosts>>

-----------------------------------------------------------------------------
(* The ALT instructions, in the order the client issues them *)

Guard == Guards[i]

(* X_alt, X_talt *)
AltStateNotEnabling == State({"NOT_READY"}, 1)
AltState == State({"ENABLING", "NOT_READY"}, 1)

Alt ==
    /\ At(Reader, "top")
    /\ slot' = AltState
    /\ tlink' = IF Timed THEN "unset" ELSE tlink
    /\ i' = 1 /\ hi' = Len(Guards)
    /\ due' = FALSE
    /\ Goto(Reader, "enable")
    /\ UNCHANGED <<prog, chan, pend, run, cur, saved, temp, node, now, tfield, ghosts, again>>

(* Disabling goes backwards in compiled occam (NDISC), forwards in C. *)
StartDisable(last) ==
    /\ hi' = last
    /\ ready' = ReadyGuards
    /\ i' = IF Client = "occam" THEN last ELSE 1
    /\ Goto(Reader, "disable")

(* All guards are enabled: altwt or taltwt. *)
EnableDone == i' = i + 1 /\ Goto(Reader, IF i = Len(Guards) THEN "wait" ELSE "enable")

(* A guard has been found ready.  Compiled occam jumps and ProcAlt breaks   *)
(* to the disabling; a program on the raw interface enables the rest.       *)
AfterReady ==
    IF Client = "raw" THEN EnableDone /\ UNCHANGED <<hi, ready>> ELSE StartDisable(i)

(* kernel_enbc, kernel_enbt, kernel_enbs: look at the guard. *)
EnableChannel ==
    /\ At(Reader, "enable") /\ Guard \in Chans
    /\ \/ chan[Guard] = NP /\ Goto(Reader, "enbSwap") /\ UNCHANGED i
       \/ chan[Guard] = Tagged /\ EnableDone
       \/ chan[Guard] = Guard /\ Goto(Reader, "enbReady") /\ UNCHANGED i
    /\ UNCHANGED <<prog, chan, slot, pend, run, cur, hi, saved, temp, tlink, node, due, now,
                   tfield, ghosts, again>>

EnableTimer ==
    /\ At(Reader, "enable") /\ Guard = TIMER
    /\ tlink' = "set"
    /\ tfield' = IF due THEN "past" ELSE "timeout"
    /\ IF due THEN Goto(Reader, "enbReady") /\ UNCHANGED i ELSE EnableDone
    /\ UNCHANGED <<prog, chan, slot, pend, run, cur, hi, saved, temp, now, node, due, ghosts,
                   again>>

EnableSkip ==
    /\ At(Reader, "enable") /\ Guard = SKIP
    /\ Goto(Reader, "enbReady")
    /\ UNCHANGED <<prog, chan, slot, pend, run, cur, altvars, node, due, ghosts, again>>

EnbSwap ==
    /\ At(Reader, "enbSwap")
    /\ chan' = [chan EXCEPT ![Guard] = Tagged]
    /\ Goto(Reader, IF chan[Guard] = NP THEN "enbInc" ELSE "enbRestore")
    /\ UNCHANGED <<prog, slot, pend, run, cur, altvars, node, due, ghosts, again>>

EnbInc ==
    /\ At(Reader, "enbInc")
    /\ slot' = Add(slot, 1)
    /\ EnableDone
    /\ UNCHANGED <<prog, chan, pend, run, cur, hi, saved, temp, tlink, node, due, now, tfield,
                   ghosts, again>>

(* The writer came first: put it back. *)
EnbRestore ==
    /\ At(Reader, "enbRestore")
    /\ chan' = [chan EXCEPT ![Guard] = Guard]
    /\ Goto(Reader, "enbReady")
    /\ UNCHANGED <<prog, slot, pend, run, cur, altvars, node, due, ghosts, again>>

(* A guard is ready.  With a ready address (the occam compiler's ENBC3) the *)
(* kernel ends the enabling and jumps to the disabling of this guard;       *)
(* without, it only does so if no guard has been ready before (NOT_READY).  *)
EnbReady ==
    /\ At(Reader, "enbReady")
    /\ \/ Client = "occam" /\ Goto(Reader, "enbClear") /\ UNCHANGED <<i, hi, ready>>
       \/ /\ Client # "occam" /\ "NOT_READY" \in slot.flags
          /\ Goto(Reader, "enbClear") /\ UNCHANGED <<i, hi, ready>>
       \/ /\ Client # "occam" /\ "NOT_READY" \notin slot.flags
          /\ AfterReady
    /\ UNCHANGED <<prog, chan, slot, pend, run, cur, saved, temp, tlink, node, due, now, tfield,
                   sent, rec, again>>

EnbClear ==
    /\ At(Reader, "enbClear")
    /\ slot' = And(slot, Clear)
    /\ temp' = IF Client = "occam" THEN temp ELSE i
    /\ AfterReady
    /\ UNCHANGED <<prog, chan, pend, run, cur, saved, tlink, node, due, now, tfield, sent, rec,
                   again>>

(* altwt and taltwt.  The process is about to wait: a timeout that has not  *)
(* passed becomes a node in the timer queue of its thread.                  *)
Wait ==
    /\ At(Reader, "wait")
    /\ temp' = NoneSelected
    /\ now' = due
    /\ saved' = slot
    /\ IF "NOT_READY" \in slot.flags /\ ~(Timed /\ tlink = "set" /\ due)
       THEN /\ Goto(Reader, "waitCas")
            /\ IF Timed /\ tlink = "set"
               THEN tlink' = "node" /\ node' = Tagged
               ELSE UNCHANGED <<tlink, node>>
       ELSE Goto(Reader, "waitOut") /\ UNCHANGED <<tlink, node>>
    /\ UNCHANGED <<prog, chan, slot, pend, run, cur, i, hi, due, tfield, ghosts, again>>

Waiting(s) == And([s EXCEPT !.flags = @ \cup {"WAITING"}], Clear)

WaitCas ==
    /\ At(Reader, "waitCas") /\ slot = saved
    /\ slot' = IF tlink = "node" THEN Add(Waiting(slot), 1) ELSE Waiting(slot)
    /\ Deschedule(Reader)
    /\ StartDisable(hi)
    /\ UNCHANGED <<prog, chan, pend, cur, saved, temp, tlink, node, due, now, tfield, sent, rec,
                   again>>

(* A guard fired meanwhile: take the timer node back. *)
WaitCasFails ==
    /\ At(Reader, "waitCas") /\ slot # saved
    /\ tlink' = IF tlink = "node" THEN "set" ELSE tlink
    /\ node' = NP
    /\ Goto(Reader, "waitOut")
    /\ UNCHANGED <<prog, chan, slot, pend, run, cur, i, hi, saved, temp, due, now, tfield,
                   ghosts, again>>

(* SetTimeField (Wptr, now) and the flags, without a wait *)
WaitOut ==
    /\ At(Reader, "waitOut")
    /\ slot' = And(slot, IF Timed THEN Clear ELSE {"ENABLING"})
    /\ tfield' = IF ~Timed THEN tfield ELSE IF now THEN "past" ELSE "before"
    /\ StartDisable(hi)
    /\ UNCHANGED <<prog, chan, pend, run, cur, saved, temp, tlink, node, due, now, sent, rec,
                   again>>

(* kernel_disc, kernel_dist, diss *)
DisableNext ==
    IF i = (IF Client = "occam" THEN 1 ELSE hi)
    THEN Goto(Reader, "altend") /\ UNCHANGED i
    ELSE Goto(Reader, "disable") /\ i' = IF Client = "occam" THEN i - 1 ELSE i + 1

(* The guard fired.  NDISC always selects it, so that the guard enabled     *)
(* first wins; DISC selects it if no other guard has been selected.         *)
FiredFirst ==
    /\ temp' = IF temp \in DOMAIN Guards THEN temp ELSE i
    /\ DisableNext

Fired ==
    /\ temp' = IF Client = "occam" \/ temp = NoneSelected THEN i ELSE temp
    /\ DisableNext

DisableChannel ==
    /\ At(Reader, "disable") /\ Guard \in Chans
    /\ \/ chan[Guard] = Tagged /\ Goto(Reader, "disCas") /\ UNCHANGED <<i, temp>>
       \/ chan[Guard] = NP /\ DisableNext /\ UNCHANGED temp
       \/ chan[Guard] = Guard /\ Fired
    /\ UNCHANGED <<prog, chan, slot, pend, run, cur, hi, saved, tlink, node, due, now, tfield,
                   ghosts, again>>

DisCas ==
    /\ At(Reader, "disCas")
    /\ IF chan[Guard] = Tagged
       THEN /\ chan' = [chan EXCEPT ![Guard] = NP]
            /\ Goto(Reader, "disDec") /\ UNCHANGED <<i, temp>>
       ELSE UNCHANGED chan /\ Fired
    /\ UNCHANGED <<prog, slot, pend, run, cur, hi, saved, tlink, node, due, now, tfield, ghosts,
                   again>>

Disabled(s) == Add(s, -1)

DisDec ==
    /\ At(Reader, "disDec")
    /\ slot' = Disabled(slot)
    /\ DisableNext
    /\ UNCHANGED <<prog, chan, pend, run, cur, hi, saved, temp, tlink, node, due, now, tfield,
                   ghosts, again>>

(* A node still in the timer queue is taken back (remove_from_timer_queue); *)
(* one that is not has fired.  Without a node the Time field decides.       *)
TimePassed == tlink = "set" /\ tfield # "before"

DisableTimer ==
    /\ At(Reader, "disable") /\ Guard = TIMER
    /\ \/ TimePassed /\ Fired /\ UNCHANGED <<tlink, node>>
       \/ tlink # "node" /\ ~TimePassed /\ DisableNext /\ UNCHANGED <<temp, tlink, node>>
       \/ tlink = "node" /\ node = NP /\ Fired /\ tlink' = "unset" /\ UNCHANGED node
       \/ /\ tlink = "node" /\ node = Tagged
          /\ node' = NP /\ tlink' = "unset"
          /\ Goto(Reader, "disDec") /\ UNCHANGED <<i, temp>>
    /\ UNCHANGED <<prog, chan, slot, pend, run, cur, hi, saved, due, now, tfield, ghosts, again>>

DisableSkip ==
    /\ At(Reader, "disable") /\ Guard = SKIP
    /\ Fired
    /\ UNCHANGED <<prog, chan, slot, pend, run, cur, hi, saved, tlink, node, due, now, tfield,
                   ghosts, again>>

(* kernel_altend: if a trigger is still on its way, wait for it. *)
AltEndAtOnce ==
    /\ At(Reader, "altend")
    /\ Goto(Reader, "selected")
    /\ UNCHANGED <<prog, chan, slot, pend, run, cur, altvars, node, due, ghosts, again>>

AltEndFallsThrough ==
    /\ At(Reader, "altend")
    /\ Goto(Reader, IF slot = State({}, 1) THEN "top" ELSE "altDec")
    /\ UNCHANGED <<prog, chan, slot, pend, run, cur, altvars, node, due, ghosts, again>>

AltEnd ==
    /\ At(Reader, "altend")
    /\ Goto(Reader, IF slot = State({}, 1) THEN "selected" ELSE "altDec")
    /\ UNCHANGED <<prog, chan, slot, pend, run, cur, altvars, node, due, ghosts, again>>

AltDec ==
    /\ At(Reader, "altDec")
    /\ slot' = Add(slot, -1)
    /\ IF Add(slot, -1) = Zero THEN UNCHANGED run ELSE Deschedule(Reader)
    /\ Goto(Reader, "selected")
    /\ UNCHANGED <<prog, chan, pend, cur, altvars, node, due, ghosts, again>>

(* The selected guard's process: the input, for a channel guard. *)
Selected ==
    /\ At(Reader, "selected") /\ temp \in DOMAIN Guards
    /\ IF Guards[temp] \in Chans
       THEN cur' = Guards[temp] /\ Goto(Reader, "io")
       ELSE UNCHANGED cur /\ Goto(Reader, "top")
    /\ temp' = Stale
    /\ ready' = {}
    /\ UNCHANGED <<prog, chan, slot, pend, run, i, hi, saved, tlink, now, tfield, node, due,
                   sent, rec, again>>

-----------------------------------------------------------------------------
(* The timer queue: walk_timer_queue on the thread that holds the node *)

Tick ==
    /\ Timed /\ ~due
    /\ due' = TRUE
    /\ UNCHANGED <<prog, chan, slot, pend, run, pc, cur, altvars, node, ghosts, again>>

ExpireEarly ==
    /\ node = Tagged /\ pc[Reader] # "waitCas"
    /\ node' = NP
    /\ pend' = pend + 1
    /\ UNCHANGED <<prog, chan, slot, run, pc, cur, altvars, due, ghosts, again>>

Expire ==
    /\ due /\ node = Tagged /\ pc[Reader] # "waitCas"
    /\ node' = NP
    /\ pend' = pend + 1
    /\ UNCHANGED <<prog, chan, slot, run, pc, cur, altvars, due, ghosts, again>>

-----------------------------------------------------------------------------
Enabling  == \/ EnableChannel \/ EnableTimer \/ EnableSkip \/ EnbSwap \/ EnbInc
             \/ EnbRestore \/ EnbReady \/ EnbClear
AltWait   == Wait \/ WaitCas \/ WaitCasFails \/ WaitOut
Disabling == \/ DisableChannel \/ DisCas \/ DisDec \/ DisableTimer \/ DisableSkip
             \/ AltEnd \/ AltDec \/ Selected
Extended  == XSwap \/ XRestore \/ Xin \/ Xend
Io(p)     == IoRead(p) \/ IoSwap(p) \/ IoTake(p) \/ IoCopy(p)

(* What a process or a thread inside a kernel call must go on to do. *)
ReaderStep == Io(Reader) \/ Enabling \/ AltWait \/ Disabling \/ Extended
WriterStep(c) == Io(c) \/ Output(c)

(* What the reader's program chooses to do next. *)
Begin == Alt \/ \E c \in Chans : Input(c) \/ Xable(c)

Next == \/ ReaderStep \/ Begin
        \/ \E c \in Chans : WriterStep(c)
        \/ Trigger \/ Tick \/ Expire

Spec == Init /\ [][Next]_vars

(* Threads run; a thread that has begun a trigger or holds an expired timer *)
(* node gets on with it; time passes.                                       *)
FairSpec == /\ Spec
            /\ WF_vars(ReaderStep) /\ WF_vars(Trigger) /\ WF_vars(Tick) /\ WF_vars(Expire)
            /\ \A c \in Chans : WF_vars(WriterStep(c))

-----------------------------------------------------------------------------
(* Properties *)

Labels == {"top", "io", "ioSwap", "ioTake", "ioCopy", "xSwap", "xRestore", "xin", "xend",
           "enable", "enbSwap", "enbInc", "enbRestore", "enbReady", "enbClear",
           "wait", "waitCas", "waitOut", "disable", "disCas", "disDec", "altend", "altDec",
           "selected"}

SlotWords == [flags : SUBSET Flags, n : Nat] \cup {Pointer(c) : c \in Chans}

(* Types; in particular the count of the State word never goes below zero,  *)
(* where it would borrow from the flag bits.                                *)
TypeOK ==
    /\ prog \in Alts
    /\ chan \in [Chans -> Procs \cup {NP, Tagged}]
    /\ \A c \in Chans : chan[c] \in {NP, Reader, Tagged, c}
    /\ slot \in SlotWords /\ saved \in SlotWords
    /\ pend \in Nat
    /\ run \in [Procs -> {"running", "descheduled"}]
    /\ pc \in [Procs -> Labels]
    /\ cur \in Chans
    /\ i \in 1..(Len(Guards) + 1) /\ hi \in 0..Len(Guards)
    /\ temp \in (DOMAIN Guards) \cup {NoneSelected, Stale}
    /\ tlink \in {"stale", "unset", "set", "node"}
    /\ tfield \in {"stale", "timeout", "past", "before"}
    /\ node \in {NP, Tagged}
    /\ due \in BOOLEAN /\ now \in BOOLEAN /\ again \in BOOLEAN
    /\ sent \in [Chans -> {0, 1}] /\ rec \in [Chans -> {0, 1}]
    /\ ready \subseteq DOMAIN Guards

(* No process is put on a run queue while it runs or is on one already: two *)
(* threads would execute it at once.                                        *)
NeverScheduledTwice == ~again

Count(test) == IF test THEN 1 ELSE 0

(* A trigger finds an ALT state, not the buffer address of a communication  *)
(* that has begun since: altend waits for every trigger that is under way.  *)
(* So the count of the State word is 1 plus the guards that can still       *)
(* trigger the process: tagged channels, an armed timer, triggers under way. *)
TriggerFindsState ==
    /\ pend > 0 => IsState(slot) /\ slot.n > 0
    /\ InAlt =>
          slot.n = 1 + pend + Cardinality({c \in Chans : chan[c] = Tagged})
                   + Count(node = Tagged /\ pc[Reader] # "waitCas")
                   - Count(pc[Reader] \in {"enbInc", "enbRestore"})
                   + Count(pc[Reader] = "disDec")

(* Every output is transferred exactly once before the writer resumes, into *)
(* the buffer of the reader's communication on the same channel.            *)
ExactlyOnce ==
    \A c \in Chans :
        /\ At(c, "top") => sent[c] = rec[c]
        /\ At(c, "ioCopy") => sent[c] # rec[c] /\ slot = Pointer(c)
        /\ pc[Reader] = "ioCopy" /\ cur = c => sent[c] # rec[c]

(* An ALT that has ended has selected a guard that is ready: a channel with *)
(* its writer waiting in it, a timeout that has passed, or SKIP.            *)
SelectsReadyGuard ==
    At(Reader, "selected") =>
        /\ temp \in DOMAIN Guards
        /\ Guards[temp] \in Chans => chan[Guards[temp]] = Guards[temp]
        /\ Guards[temp] = TIMER => due

(* Of the channel guards that are ready when the disabling begins, none     *)
(* precedes the selected one: the doc's PRI ALT order (revalt), which only  *)
(* the compiler promises.                                                   *)
PriAlt == Client = "occam" /\ At(Reader, "selected") => \A k \in ready : temp <= k

Completes == InAlt /\ (ReadyGuards # {} \/ Timed) ~> At(Reader, "selected")

(* A compiled ALT with a ready channel or a timeout ends.                   *)
AltCompletes == Client = "occam" => Completes

(* And so does ProcAlt.                                                     *)
ProcAltCompletes == Client = "ProcAlt" => Completes
-----------------------------------------------------------------------------
(* The inductive invariant (module AlternationProofs) *)

EnablePcs  == {"enable", "enbSwap", "enbInc", "enbRestore", "enbReady", "enbClear"}
WaitPcs    == {"wait", "waitCas", "waitOut"}
DisablePcs == {"disable", "disCas", "disDec"}
EndPcs     == {"altend", "altDec", "selected"}

(* Guards that have been enabled and not yet disabled. *)
Left ==
    {k \in DOMAIN Guards :
        \/ pc[Reader] \in EnablePcs /\ k < i
        \/ pc[Reader] \in {"enbInc", "enbRestore"} /\ k = i
        \/ pc[Reader] \in WaitPcs
        \/ /\ pc[Reader] \in DisablePcs /\ k <= hi
           /\ IF Client = "occam" THEN k < i ELSE k > i
        \/ pc[Reader] \in {"disable", "disCas"} /\ k = i}

OnOffer(g) == \E k \in Left : Guards[k] = g

Indices ==
    /\ pc[Reader] \in EnablePcs => i \in DOMAIN Guards
    /\ pc[Reader] \in EnablePcs \cup WaitPcs => hi = Len(Guards)
    /\ pc[Reader] \in DisablePcs => i \in 1..hi
    /\ pc[Reader] \in {"enbSwap", "enbInc", "enbRestore", "disCas"} => Guard \in Chans

(* The reader waits in a communication on c; the reader holds the writer of *)
(* c, which it has swapped or taken out of the channel word.                *)
Awaits(c) == pc[Reader] = "top" /\ run[Reader] = "descheduled" /\ cur = c
Holds(c)  == \/ pc[Reader] \in {"ioTake", "ioCopy", "xRestore"} /\ cur = c
             \/ pc[Reader] = "enbRestore" /\ Guard = c

Writers ==
    \A c \in Chans :
        /\ pc[c] \in {"top", "io", "ioSwap", "ioTake", "ioCopy"}
        /\ run[c] = "descheduled" => pc[c] = "top" /\ (chan[c] = c \/ Holds(c))
        /\ Holds(c) => run[c] = "descheduled"
        /\ chan[c] = c => run[c] = "descheduled" \/ pc[c] = "ioTake"
        /\ pc[c] = "ioTake" => Awaits(c) /\ chan[c] \in {Reader, c}
        /\ pc[c] = "ioCopy" => Awaits(c) /\ chan[c] = NP

Words ==
    \A c \in Chans :
        /\ chan[c] = Reader => Awaits(c) \/ (pc[Reader] = "ioTake" /\ cur = c)
        /\ chan[c] = Tagged =>
              \/ OnOffer(c)
              \/ pc[Reader] = "xRestore" /\ cur = c
              \/ pc[Reader] = "xin" /\ run[Reader] = "descheduled" /\ cur = c

(* Where the reader is, and the word of its communication. *)
ReaderIo ==
    /\ run[Reader] = "descheduled" => pc[Reader] \in {"top", "xin", "disable", "selected"}
    /\ Awaits(cur) => /\ slot = Pointer(cur)
                      /\ chan[cur] = Reader \/ pc[cur] \in {"ioTake", "ioCopy"}
    /\ pc[Reader] = "ioSwap" => slot = Pointer(cur) /\ chan[cur] \in {NP, cur}
    /\ pc[Reader] = "ioTake" => chan[cur] \in {Reader, cur}
    /\ pc[Reader] = "ioCopy" => chan[cur] = NP
    /\ pc[Reader] = "xSwap"  => slot = State({"WAITING"}, 1) /\ chan[cur] \in {NP, cur}
    /\ pc[Reader] = "xRestore" => chan[cur] = Tagged
    /\ pc[Reader] = "xin" =>
          \/ run[Reader] = "running" /\ chan[cur] = cur
          \/ /\ run[Reader] = "descheduled" /\ slot = State({"WAITING"}, 1)
             /\ \/ chan[cur] = Tagged /\ pend = 0
                \/ chan[cur] = cur /\ pend = 1
    /\ pc[Reader] = "xend" => chan[cur] = cur
    /\ pc[Reader] = "enbSwap" => chan[Guard] \in {NP, Guard}
    /\ pc[Reader] = "enbInc"  => chan[Guard] \in {Tagged, Guard}
    /\ pc[Reader] = "enbRestore" => chan[Guard] = Tagged
    /\ pc[Reader] = "disCas" => chan[Guard] \in {Tagged, Guard}

Armed == node = Tagged /\ pc[Reader] # "waitCas"

Tags  == {c \in Chans : chan[c] = Tagged}
NTags == Cardinality(Tags)

(* The State word and the triggers under way. *)
Counts ==
    /\ InAlt =>
          /\ IsState(slot)
          /\ slot.n = 1 + pend + NTags + Count(Armed)
                      - Count(pc[Reader] \in {"enbInc", "enbRestore"})
                      + Count(pc[Reader] = "disDec")
          /\ "WAITING" \in slot.flags <=> run[Reader] = "descheduled"
    /\ pc[Reader] \in EnablePcs => "ENABLING" \in slot.flags
    /\ pc[Reader] = "selected" =>
          \/ run[Reader] = "running" /\ pend = 0
          \/ /\ run[Reader] = "descheduled"
             /\ IsState(slot) /\ slot.n = pend /\ "WAITING" \notin slot.flags
    /\ pend > 0 => \/ InAlt \/ pc[Reader] = "selected"
                   \/ pc[Reader] = "xin" /\ run[Reader] = "descheduled"

(* The timer node. *)
TimerNode ==
    /\ tlink # "stale" => Timed
    /\ node = Tagged => tlink = "node" /\ OnOffer(TIMER)
    /\ pc[Reader] = "waitCas" /\ tlink = "node" => node = Tagged
    /\ pc[Reader] \in EnablePcs \cup {"wait", "waitOut"} => tlink # "node"

(* Outputs begun and not transferred. *)
Outputs ==
    \A c \in Chans :
        sent[c] = rec[c] <=> \/ pc[c] = "top" /\ run[c] = "running"
                             \/ pc[Reader] = "xend" /\ cur = c

(* What a raw client breaks: the enabling ends at the first ready guard.    *)
JumpsWhenReady == Client # "raw"

AInv == /\ TypeOK /\ JumpsWhenReady /\ Indices /\ Writers /\ Words /\ ReaderIo
        /\ Counts /\ TimerNode /\ Outputs /\ ~again

(* The words of guards on offer hold the reader or the writer. *)
Offers ==
    pc[Reader] \in EnablePcs \cup WaitPcs =>
        /\ \A c \in Chans : OnOffer(c) => chan[c] \in {Tagged, c}
        /\ pc[Reader] = "enbSwap" => ~OnOffer(Guard)

(* Disabling guard k will find it ready. *)
Fires(k) ==
    \/ Guards[k] = SKIP
    \/ Guards[k] \in Chans /\ chan[Guards[k]] = Guards[k]
    \/ Guards[k] = TIMER /\ (TimePassed \/ (tlink = "node" /\ node = NP))

ChannelFires == \E k \in Left : Guards[k] \in Chans /\ chan[Guards[k]] = Guards[k]
GuardFires   == \E k \in Left : Fires(k)

(* While enabling: the reader does not stop waiting unless a guard is ready. *)
Waking ==
    /\ pc[Reader] \notin {"waitCas", "waitOut"} \cup DisablePcs \cup EndPcs => temp = Stale
    /\ pc[Reader] \in {"waitCas", "waitOut"} => temp = NoneSelected
    /\ pc[Reader] \in EnablePcs \cup WaitPcs =>
          (pend > 0 \/ "NOT_READY" \notin slot.flags => ChannelFires)
    /\ pc[Reader] \in {"enbReady", "enbClear"} => Fires(i)
    /\ pc[Reader] = "waitCas" /\ "NOT_READY" \in slot.flags => slot = saved
    /\ pc[Reader] = "waitOut" => ChannelFires \/ (Timed /\ tlink = "set" /\ now)

(* While disabling: a guard has been selected or will be, unless the process *)
(* still waits or is one of those that ProcAlt leaves with ALT_ENABLING.     *)
Selecting ==
    pc[Reader] \in DisablePcs \cup EndPcs =>
        /\ temp \in DOMAIN Guards /\ Guards[temp] \in Chans => chan[Guards[temp]] = Guards[temp]
        /\ \/ temp \in DOMAIN Guards
           \/ GuardFires
           \/ Client = "ProcAlt" /\ "ENABLING" \in slot.flags
           \/ run[Reader] = "descheduled" /\ pend = 0
        /\ Client = "ProcAlt" /\ temp = Stale => "ENABLING" \in slot.flags
        /\ pc[Reader] = "selected" /\ "ENABLING" \in slot.flags => run[Reader] = "descheduled"

(* A compiled ALT disables from the last guard back to the first.            *)
Priority ==
    Client = "occam" =>
        /\ pc[Reader] \in DisablePcs \cup EndPcs =>
              /\ temp <= hi
              /\ \A k \in ready :
                    /\ Guards[k] \in Chans /\ chan[Guards[k]] = Guards[k]
                    /\ k <= hi /\ k \notin Left => temp <= k
        /\ pc[Reader] = "disable" /\ run[Reader] = "descheduled" => i = hi /\ temp = NoneSelected

(* The timeout has passed when the TIMER guard fires.                        *)
TimerLast == \A k \in DOMAIN Guards : Guards[k] = TIMER => k = Len(Guards)

Deadlines ==
    /\ InAlt /\ tlink = "set" /\ tfield = "past" => due
    /\ InAlt /\ tlink = "node" /\ node = NP => due
    /\ pc[Reader] \in DisablePcs /\ tlink = "set" => tfield \in {"past", "before"}
    /\ pc[Reader] \in EnablePcs /\ (Guard # TIMER \/ pc[Reader] = "enable") => tlink # "set"
    /\ pc[Reader] \in EnablePcs /\ Guard = TIMER /\ pc[Reader] # "enable" =>
          tlink = "set" /\ tfield = "past"
    /\ pc[Reader] = "waitCas" => tlink # "set"
    /\ pc[Reader] \in {"wait", "waitCas"} /\ tlink \in {"set", "node"} => tfield = "timeout"
    /\ pc[Reader] \in {"waitCas", "waitOut"} /\ now => due
    /\ pc[Reader] \in DisablePcs \cup EndPcs /\ temp \in DOMAIN Guards /\ Guards[temp] = TIMER => due

SInv == AInv /\ Offers /\ Waking /\ Selecting /\ Priority
DInv == SInv /\ TimerLast /\ Deadlines
=============================================================================
