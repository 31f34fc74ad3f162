------------------------- MODULE AlternationProofs --------------------------
(***************************************************************************)
(* Proofs about channels and ALTs: the types of their state, that nobody   *)
(* is scheduled twice, that triggers find the State word of their ALT,     *)
(* that each output is transferred once, and which guard an ALT selects.   *)
(*                                                                         *)
(* There are three inductive invariants, each with the one before it:      *)
(* Alternation!AInv, who owns which word and what the State word counts;   *)
(* SInv, that the reader waits, and disables, as long as some guard fires; *)
(* DInv, that a TIMER guard fires in time.  Their parts are proved one at  *)
(* a time, each from the whole invariant before the step.  OnOfferKept,    *)
(* LeftKept and the like say what a step does to the guards on offer.      *)
(***************************************************************************)
EXTENDS Alternation, FiniteSetTheorems, TLAPS

(* What the assumptions say of the reader's program.                        *)
LEMMA Program ==
    ASSUME TypeOK
    PROVE  /\ Len(Guards) \in Nat /\ Len(Guards) > 0
           /\ DOMAIN Guards = 1..Len(Guards)
           /\ \A k \in 1..Len(Guards) : Guards[k] \in Chans \cup {TIMER, SKIP}
           /\ Client \in {"occam", "ProcAlt", "raw"}
           /\ \A j, k \in DOMAIN Guards : Guards[j] = TIMER /\ Guards[k] = TIMER => j = k
<1>1. prog \in Alts
  BY DEF TypeOK
<1> QED
  BY <1>1, AltsAssumption DEF Guards, Client

(* The words that are not channels, and the ones that are.                  *)
LEMMA Distinct ==
    /\ Reader # Tagged /\ Reader # NP /\ Tagged # NP /\ TIMER # SKIP
    /\ \A c \in Chans : c # Reader /\ c # Tagged /\ c # NP /\ c # TIMER /\ c # SKIP
  BY DistinctAssumption

-----------------------------------------------------------------------------
(* The State word                                                           *)

States == [flags : SUBSET Flags, n : Nat]

(* A word with flags of a State is one, and a State is its flags and count. *)
LEMMA StateWord ==
    ASSUME NEW s \in SlotWords
    PROVE  /\ IsState(s) => s \in States
           /\ s \in States => IsState(s)
           /\ \A c \in Chans : s = Pointer(c) => s \notin States /\ ~IsState(s)
           /\ s \in States => \A fl, n : s = State(fl, n) <=> s.flags = fl /\ s.n = n
<1>1. ASSUME NEW c \in Chans PROVE ~IsState(Pointer(c)) /\ Pointer(c) \notin States
  <2>1. Pointer(c).flags = {"POINTER"}
    BY DEF Pointer
  <2> QED
    BY <2>1 DEF IsState, Flags, States
<1>2. ASSUME s \in States PROVE IsState(s)
  BY <1>2 DEF States, IsState
<1>3. ASSUME s \in States, NEW fl, NEW n PROVE s = State(fl, n) <=> s.flags = fl /\ s.n = n
  <2>1. s = [flags |-> s.flags, n |-> s.n]
    BY <1>3 DEF States
  <2> QED
    BY <2>1 DEF State
<1> QED
  BY <1>1, <1>2, <1>3 DEF SlotWords, States

(* What the updates of the State word do to its parts.                      *)
LEMMA StateOps ==
    ASSUME NEW s \in States
    PROVE  /\ \A fl : And(s, fl).flags = s.flags \ fl /\ And(s, fl).n = s.n
           /\ \A fl : And(s, fl) \in States
           /\ \A k \in Int : Add(s, k).flags = s.flags /\ Add(s, k).n = s.n + k
           /\ \A k \in Int : s.n + k >= 0 => Add(s, k) \in States
           /\ Triggered(s).flags = s.flags \ {"NOT_READY", "WAITING"}
           /\ Triggered(s).n = s.n - 1
           /\ s.n > 0 => Triggered(s) \in States
           /\ Waiting(s).flags = (s.flags \cup {"WAITING"}) \ Clear
           /\ Waiting(s).n = s.n
           /\ Waiting(s) \in States
<1>1. s = [flags |-> s.flags, n |-> s.n] /\ s.flags \in SUBSET Flags /\ s.n \in Nat
  BY DEF States
<1>2. ASSUME NEW fl PROVE And(s, fl) = [flags |-> s.flags \ fl, n |-> s.n]
  BY <1>1 DEF And
<1>3. ASSUME NEW k PROVE Add(s, k) = [flags |-> s.flags, n |-> s.n + k]
  BY <1>1 DEF Add
<1>4. Triggered(s) = [flags |-> s.flags \ {"NOT_READY", "WAITING"}, n |-> s.n + (-1)]
  <2>1. Add(s, -1) = [flags |-> s.flags, n |-> s.n + (-1)]
    BY <1>3
  <2> DEFINE a == Add(s, -1)
  <2>2. [a EXCEPT !.flags = @ \ {"NOT_READY", "WAITING"}]
          = [flags |-> s.flags \ {"NOT_READY", "WAITING"}, n |-> s.n + (-1)]
    BY <2>1
  <2> QED
    BY <2>2 DEF Triggered, And
<1>5. Waiting(s) = [flags |-> (s.flags \cup {"WAITING"}) \ Clear, n |-> s.n]
  <2> DEFINE w == [s EXCEPT !.flags = @ \cup {"WAITING"}]
  <2>1. w = [flags |-> s.flags \cup {"WAITING"}, n |-> s.n]
    BY <1>1
  <2> HIDE DEF w
  <2>2. [w EXCEPT !.flags = @ \ Clear] = [flags |-> (s.flags \cup {"WAITING"}) \ Clear, n |-> s.n]
    BY <2>1
  <2> QED
    BY <2>2 DEF Waiting, And, w
<1>6. ASSUME NEW fl PROVE And(s, fl) \in States
  BY <1>1, <1>2 DEF States
<1>7. ASSUME NEW k \in Int, s.n + k >= 0 PROVE Add(s, k) \in States
  BY <1>1, <1>3, <1>7 DEF States
<1>8. ASSUME s.n > 0 PROVE Triggered(s) \in States
  BY <1>1, <1>4, <1>8 DEF States
<1>9. Waiting(s) \in States
  BY <1>1, <1>5 DEF States, Flags
<1> QED
  BY <1>1, <1>2, <1>3, <1>4, <1>5, <1>6, <1>7, <1>8, <1>9

(* The States the code stores.                                              *)
LEMMA FixedStates ==
    /\ Zero \in States /\ AltState \in States /\ State({"WAITING"}, 1) \in States
    /\ \A c \in Chans : Pointer(c) \in SlotWords
    /\ States \subseteq SlotWords
    /\ AltState.flags = {"ENABLING", "NOT_READY"} /\ AltState.n = 1
    /\ Zero.flags = {} /\ Zero.n = 0
    /\ State({"WAITING"}, 1).flags = {"WAITING"} /\ State({"WAITING"}, 1).n = 1
  BY DEF Zero, AltState, State, States, SlotWords, Flags

-----------------------------------------------------------------------------
(* The tagged channel words                                                 *)

(* Writing one channel word changes the number of tagged ones by what it    *)
(* was and what it becomes.                                                 *)
LEMMA TagCount ==
    ASSUME NEW c \in Chans, \A d \in Chans : d # c => chan'[d] = chan[d]
    PROVE  NTags' = NTags - Count(chan[c] = Tagged) + Count(chan'[c] = Tagged)
<1>1. IsFiniteSet(Tags) /\ Cardinality(Tags) \in Nat
  BY ChansAssumption, FS_Subset, FS_CardinalityType DEF Tags
<1>2. CASE (chan[c] = Tagged) = (chan'[c] = Tagged)
  <2>1. Tags' = Tags
    BY <1>2 DEF Tags
  <2> QED
    BY <1>1, <1>2, <2>1 DEF Count, NTags
<1>3. CASE chan[c] = Tagged /\ chan'[c] # Tagged
  <2>1. Tags' = Tags \ {c} /\ c \in Tags
    BY <1>3 DEF Tags
  <2>2. Cardinality(Tags \ {c}) = Cardinality(Tags) - 1
    BY <1>1, <2>1, FS_RemoveElement
  <2> QED
    BY <1>1, <1>3, <2>1, <2>2 DEF Count, NTags
<1>4. CASE chan[c] # Tagged /\ chan'[c] = Tagged
  <2>1. Tags' = Tags \cup {c} /\ c \notin Tags
    BY <1>4 DEF Tags
  <2> QED
    BY <1>1, <1>4, <2>1, FS_AddElement DEF Count, NTags
<1> QED
  BY <1>2, <1>3, <1>4

(* The tagged words are finitely many.                                      *)
LEMMA TagsFinite == IsFiniteSet(Tags) /\ NTags \in Nat /\ NTags' \in Nat
  BY ChansAssumption, FS_Subset, FS_CardinalityType DEF Tags, NTags

(* What the invariant says of the State word.                               *)
LEMMA SlotFacts ==
    ASSUME AInv
    PROVE  /\ InAlt => /\ slot \in States
                       /\ slot.n = 1 + pend + NTags + Count(Armed)
                                   - Count(pc[Reader] \in {"enbInc", "enbRestore"})
                                   + Count(pc[Reader] = "disDec")
                       /\ pc[Reader] \notin {"enbInc", "enbRestore"} => slot.n > pend
           /\ pend > 0 => slot \in States /\ slot.n > 0
           /\ pc[Reader] = "disDec" => slot.n > 1
           /\ pend \in Nat /\ slot \in SlotWords
           /\ slot \in States => slot.n \in Nat /\ slot.flags \subseteq Flags
<1>1. TypeOK /\ Counts /\ ReaderIo
  BY DEF AInv
<1>2. slot \in SlotWords /\ pend \in Nat
  BY <1>1 DEF TypeOK
<1>3. NTags \in Nat
  BY <1>1, TagsFinite
<1>4. InAlt => /\ slot \in States
               /\ slot.n = 1 + pend + NTags + Count(Armed)
                           - Count(pc[Reader] \in {"enbInc", "enbRestore"})
                           + Count(pc[Reader] = "disDec")
  BY <1>1, <1>2, StateWord DEF Counts, Tags
<1>5. pc[Reader] \in {"enbInc", "enbRestore", "disDec"} => InAlt
  BY DEF InAlt
<1>6. CASE InAlt
  BY <1>2, <1>3, <1>4, <1>5, <1>6 DEF Count, States
<1>7. CASE ~InAlt /\ pc[Reader] = "selected"
  BY <1>1, <1>2, <1>5, <1>7, StateWord DEF Counts, States
<1>8. CASE ~InAlt /\ pc[Reader] # "selected"
  BY <1>1, <1>2, <1>5, <1>8, FixedStates DEF Counts, States, ReaderIo
<1> QED
  BY <1>6, <1>7, <1>8

(* Types, and the count of the State word.                                  *)
LEMMA TypeOKStep == AInv /\ [Next]_vars => TypeOK'
<1> SUFFICES ASSUME AInv, [Next]_vars PROVE TypeOK'
  OBVIOUS
<1>1. TypeOK /\ Indices /\ JumpsWhenReady
  BY DEF AInv
<1>2. Client \in {"occam", "ProcAlt"}
  BY <1>1, Program DEF JumpsWhenReady
<1>3. pc[Reader] \in {"enbInc", "enbClear", "waitCas", "waitOut", "disDec", "altDec"} => InAlt
  BY DEF InAlt
<1>4. ReadyGuards \subseteq DOMAIN Guards
  BY DEF ReadyGuards
<1>5. AltDec => Add(slot, -1) \in States
  <2> SUFFICES ASSUME AltDec PROVE Add(slot, -1) \in States
    OBVIOUS
  <2>1. pc[Reader] = "altDec"
    BY DEF AltDec, At
  <2>2. slot \in States /\ slot.n > pend /\ pend \in Nat
    BY <1>3, <2>1, SlotFacts
  <2>3. slot.n + (-1) >= 0
    BY <2>2 DEF States
  <2> QED
    BY <2>2, <2>3, StateOps
<1> USE <1>1, <1>2, <1>4, Program, Distinct
<1> USE DEF TypeOK, Labels, Procs, Guards, Client, Guard, NoneSelected, Stale, Indices,
            EnablePcs, WaitPcs, DisablePcs, altvars, ghosts, At, Goto, IoChan
<1>6. CASE UNCHANGED vars
  BY <1>6 DEF vars
<1>7. CASE IoRead(Reader)
  BY <1>7, FixedStates DEF IoRead
<1>8. CASE IoSwap(Reader)
  BY <1>8 DEF IoSwap, Deschedule
<1>9. CASE IoTake(Reader)
  BY <1>9 DEF IoTake
<1>10. CASE IoCopy(Reader)
  BY <1>10 DEF IoCopy, Transfer, Enqueue
<1>11. ASSUME NEW c \in Chans, IoRead(c) PROVE TypeOK'
  BY <1>11 DEF IoRead
<1>12. ASSUME NEW c \in Chans, IoSwap(c) PROVE TypeOK'
  BY <1>12 DEF IoSwap, Deschedule
<1>13. ASSUME NEW c \in Chans, IoTake(c) PROVE TypeOK'
  BY <1>13 DEF IoTake
<1>14. ASSUME NEW c \in Chans, IoCopy(c) PROVE TypeOK'
  BY <1>14 DEF IoCopy, Transfer, Enqueue
<1>15. ASSUME NEW c \in Chans, Output(c) PROVE TypeOK'
  BY <1>15 DEF Output
<1>16. ASSUME NEW c \in Chans, Input(c) PROVE TypeOK'
  BY <1>16 DEF Input
<1>17. ASSUME NEW c \in Chans, Xable(c) PROVE TypeOK'
  BY <1>17, FixedStates DEF Xable
<1>18. CASE XSwap
  BY <1>18 DEF XSwap, Deschedule
<1>19. CASE XRestore
  BY <1>19 DEF XRestore
<1>20. CASE Xin
  BY <1>20, FixedStates DEF Xin, Transfer
<1>21. CASE Xend
  BY <1>21 DEF Xend, Enqueue
<1>22. CASE Alt
  <2>1. AltState \in States
    BY <1>3, <1>22, StateOps, SlotFacts, FixedStates DEF Alt
  <2>2. slot' \in SlotWords
    BY <1>22, <2>1, FixedStates DEF Alt, Disabled
  <2>3. i' \in 1..(Len(Guards) + 1) /\ hi' \in 0..Len(Guards) /\ pc' \in [Procs -> Labels]
    BY <1>22 DEF Alt
  <2>4. tlink' \in {"stale", "unset", "set", "node"}
    BY <1>22 DEF Alt
  <2> HIDE DEF Labels
  <2> QED
    BY <1>22, <2>2, <2>3, <2>4 DEF Alt
<1>23. CASE EnableChannel
  BY <1>23 DEF EnableChannel, EnableDone
<1>24. CASE EnableTimer
  BY <1>24 DEF EnableTimer, EnableDone
<1>25. CASE EnableSkip
  BY <1>25 DEF EnableSkip
<1>26. CASE EnbSwap
  BY <1>26 DEF EnbSwap
<1>27. CASE EnbInc
  <2>1. Add(slot, 1) \in States
    BY <1>3, <1>27, StateOps, SlotFacts, FixedStates DEF EnbInc
  <2>2. slot' \in SlotWords
    BY <1>27, <2>1, FixedStates DEF EnbInc, Disabled
  <2> QED
    BY <1>27, <2>2 DEF EnbInc, EnableDone
<1>28. CASE EnbRestore
  BY <1>28 DEF EnbRestore
<1>29. CASE EnbReady
  BY <1>29 DEF EnbReady, StartDisable, AfterReady
<1>30. CASE EnbClear
  <2>1. And(slot, Clear) \in States
    BY <1>3, <1>30, StateOps, SlotFacts, FixedStates DEF EnbClear
  <2>2. slot' \in SlotWords
    BY <1>30, <2>1, FixedStates DEF EnbClear, Disabled
  <2> QED
    BY <1>30, <2>2 DEF EnbClear, AfterReady, StartDisable
<1>31. CASE Wait
  BY <1>31 DEF Wait
<1>32. CASE WaitCas
  <2>1. slot \in States /\ Waiting(slot) \in States /\ Waiting(slot).n \in Nat
    BY <1>3, <1>32, StateOps, SlotFacts DEF WaitCas
  <2>2. Add(Waiting(slot), 1) \in States
    BY <2>1, StateOps
  <2>3. slot' \in SlotWords
    BY <1>32, <2>1, <2>2, FixedStates DEF WaitCas
  <2> QED
    BY <1>32, <2>3 DEF WaitCas, StartDisable, Deschedule
<1>33. CASE WaitCasFails
  BY <1>33 DEF WaitCasFails
<1>34. CASE WaitOut
  <2>1. \A fl : And(slot, fl) \in States
    BY <1>3, <1>34, StateOps, SlotFacts DEF WaitOut
  <2>2. slot' \in SlotWords
    BY <1>34, <2>1, FixedStates DEF WaitOut
  <2> QED
    BY <1>34, <2>2 DEF WaitOut, StartDisable
<1>35. CASE DisableChannel
  BY <1>35 DEF DisableChannel, Fired, DisableNext
<1>36. CASE DisCas
  <2>1. chan' \in [Chans -> Procs \cup {NP, Tagged}]
        /\ \A c \in Chans : chan'[c] \in {NP, Reader, Tagged, c}
    BY <1>36 DEF DisCas
  <2>2. /\ i' \in 1..(Len(Guards) + 1) /\ pc' \in [Procs -> Labels]
        /\ temp' \in (DOMAIN Guards) \cup {NoneSelected, Stale}
    BY <1>36 DEF DisCas, Fired, DisableNext
  <2> HIDE DEF Labels
  <2> QED
    BY <1>36, <2>1, <2>2 DEF DisCas
<1>37. CASE DisDec
  <2>1. Add(slot, -1) \in States
    BY <1>3, <1>37, StateOps, SlotFacts, FixedStates DEF DisDec
  <2>2. slot' \in SlotWords
    BY <1>37, <2>1, FixedStates DEF DisDec, Disabled
  <2> QED
    BY <1>37, <2>2 DEF DisDec, DisableNext, Disabled
<1>38. CASE DisableTimer
  BY <1>38 DEF DisableTimer, Fired, DisableNext
<1>39. CASE DisableSkip
  BY <1>39 DEF DisableSkip, Fired, DisableNext
<1>40. CASE AltEnd
  BY <1>40 DEF AltEnd
<1>41. CASE AltDec
  <2>1. Add(slot, -1) \in States
    BY <1>41, <1>5
  <2>2. slot' \in SlotWords
    BY <1>41, <2>1, FixedStates DEF AltDec, Disabled
  <2> QED
    BY <1>41, <2>2 DEF AltDec, Deschedule
<1>42. CASE Selected
  BY <1>42 DEF Selected
<1>43. CASE Trigger
  <2>1. Triggered(slot) \in States
    BY <1>3, <1>43, StateOps, SlotFacts, FixedStates DEF Trigger
  <2>2. slot' \in SlotWords
    BY <1>43, <2>1, FixedStates DEF Trigger, Disabled
  <2>3. run' \in [Procs -> {"running", "descheduled"}] /\ again' \in BOOLEAN
    BY <1>43 DEF Trigger, Enqueue
  <2>4. ready' \subseteq DOMAIN Guards
    BY <1>43 DEF Trigger
  <2> HIDE DEF Labels
  <2> QED
    BY <1>43, <2>2, <2>3, <2>4 DEF Trigger
<1>44. CASE Tick
  BY <1>44 DEF Tick
<1>45. CASE Expire
  BY <1>45 DEF Expire
<1> QED
  BY <1>6, <1>7, <1>8, <1>9, <1>10, <1>11, <1>12, <1>13, <1>14, <1>15, <1>16, <1>17,
     <1>18, <1>19, <1>20, <1>21, <1>22, <1>23, <1>24, <1>25, <1>26, <1>27, <1>28,
     <1>29, <1>30, <1>31, <1>32, <1>33, <1>34, <1>35, <1>36, <1>37, <1>38, <1>39,
     <1>40, <1>41, <1>42, <1>43, <1>44, <1>45
     DEF Next, ReaderStep, WriterStep, Begin, Enabling, AltWait, Disabling, Extended, Io

(* The program does not change.                                             *)
LEMMA ProgramKept == [Next]_vars => prog' = prog /\ Guards' = Guards /\ Client' = Client
  BY DEF Guards, Client, Next, ReaderStep, WriterStep, Begin, Enabling, AltWait, Disabling,
     Extended, Io, vars, altvars, ghosts,
         IoRead, IoSwap, IoTake, IoCopy, Output, Input, Xable, XSwap, XRestore, Xin,
         Xend, Alt, EnableChannel, EnableTimer, EnableSkip, EnbSwap, EnbInc,
         EnbRestore, EnbReady, EnbClear, Wait, WaitCas, WaitCasFails, WaitOut,
         DisableChannel, DisCas, DisDec, DisableTimer, DisableSkip, AltEnd, AltDec,
         Selected, Trigger, Tick, Expire

(* The next guard to disable.                                               *)
LEMMA NextGuard ==
    ASSUME TypeOK, Indices, JumpsWhenReady, pc[Reader] \in DisablePcs, DisableNext
    PROVE  /\ i' \in 1..hi /\ pc'[Reader] \in {"altend", "disable"}
           /\ pc' = [pc EXCEPT ![Reader] = pc'[Reader]]
           /\ pc'[Reader] = "altend" => i = IF Client = "occam" THEN 1 ELSE hi
           /\ pc'[Reader] = "disable" => i' = IF Client = "occam" THEN i - 1 ELSE i + 1
  BY Program DEF TypeOK, Indices, JumpsWhenReady, DisableNext, Goto, Procs

(* The guard being enabled or disabled is one.                              *)
LEMMA IndicesStep == AInv /\ [Next]_vars => Indices'
<1> SUFFICES ASSUME AInv, [Next]_vars PROVE Indices'
  OBVIOUS
<1>1. TypeOK /\ Indices /\ JumpsWhenReady
  BY DEF AInv
<1>2. Client \in {"occam", "ProcAlt"} /\ Len(Guards) \in Nat /\ Len(Guards) > 0
         /\ DOMAIN Guards = 1..Len(Guards)
  BY <1>1, Program DEF JumpsWhenReady
<1>3. Guards' = Guards /\ Client' = Client
  BY ProgramKept
<1>4. pc[Reader] \in DisablePcs /\ DisableNext =>
           /\ i' \in 1..hi /\ pc'[Reader] \in {"altend", "disable"}
           /\ pc' = [pc EXCEPT ![Reader] = pc'[Reader]]
           /\ pc'[Reader] = "altend" => i = IF Client = "occam" THEN 1 ELSE hi
           /\ pc'[Reader] = "disable" => i' = IF Client = "occam" THEN i - 1 ELSE i + 1
  BY <1>1, NextGuard
<1>5. AfterReady => StartDisable(i)
  BY <1>1, Program DEF AfterReady, JumpsWhenReady
<1>6. pend > 0 =>
           pc[Reader] \notin {"top", "io", "ioSwap", "ioTake", "ioCopy", "xSwap", "xRestore", "xend"}
  BY DEF AInv, Counts, InAlt
<1> USE <1>1, <1>2, <1>3, <1>4, <1>5, Distinct
<1> USE DEF Indices, TypeOK, Procs, Guard, EnablePcs, WaitPcs, DisablePcs, altvars, ghosts, At,
            Goto, IoChan
<1>7. CASE UNCHANGED vars
  BY <1>7 DEF vars
<1>8. CASE IoRead(Reader)
  BY <1>8 DEF IoRead
<1>9. CASE IoSwap(Reader)
  BY <1>9 DEF IoSwap, Deschedule
<1>10. CASE IoTake(Reader)
  BY <1>10 DEF IoTake
<1>11. CASE IoCopy(Reader)
  BY <1>11 DEF IoCopy, Transfer, Enqueue
<1>12. ASSUME NEW c \in Chans, IoRead(c) PROVE Indices'
  BY <1>12 DEF IoRead
<1>13. ASSUME NEW c \in Chans, IoSwap(c) PROVE Indices'
  BY <1>13 DEF IoSwap, Deschedule
<1>14. ASSUME NEW c \in Chans, IoTake(c) PROVE Indices'
  BY <1>14 DEF IoTake
<1>15. ASSUME NEW c \in Chans, IoCopy(c) PROVE Indices'
  BY <1>15 DEF IoCopy, Transfer, Enqueue
<1>16. ASSUME NEW c \in Chans, Output(c) PROVE Indices'
  BY <1>16 DEF Output
<1>17. ASSUME NEW c \in Chans, Input(c) PROVE Indices'
  BY <1>17 DEF Input
<1>18. ASSUME NEW c \in Chans, Xable(c) PROVE Indices'
  BY <1>18 DEF Xable
<1>19. CASE XSwap
  BY <1>19 DEF XSwap, Deschedule
<1>20. CASE XRestore
  BY <1>20 DEF XRestore
<1>21. CASE Xin
  BY <1>21 DEF Xin, Transfer
<1>22. CASE Xend
  BY <1>22 DEF Xend, Enqueue
<1>23. CASE Alt
  BY <1>23 DEF Alt
<1>24. CASE EnableChannel
  BY <1>24 DEF EnableChannel, EnableDone
<1>25. CASE EnableTimer
  BY <1>25 DEF EnableTimer, EnableDone
<1>26. CASE EnableSkip
  BY <1>26 DEF EnableSkip
<1>27. CASE EnbSwap
  BY <1>27 DEF EnbSwap
<1>28. CASE EnbInc
  BY <1>28 DEF EnbInc, EnableDone
<1>29. CASE EnbRestore
  BY <1>29 DEF EnbRestore
<1>30. CASE EnbReady
  BY <1>30 DEF EnbReady, StartDisable
<1>31. CASE EnbClear
  BY <1>31 DEF EnbClear, StartDisable
<1>32. CASE Wait
  BY <1>32 DEF Wait
<1>33. CASE WaitCas
  BY <1>33 DEF WaitCas, StartDisable, Deschedule
<1>34. CASE WaitCasFails
  BY <1>34 DEF WaitCasFails
<1>35. CASE WaitOut
  BY <1>35 DEF WaitOut, StartDisable
<1>36. CASE DisableChannel
  BY <1>36 DEF DisableChannel, Fired
<1>37. CASE DisCas
  BY <1>37 DEF DisCas, Fired
<1>38. CASE DisDec
  BY <1>38 DEF DisDec, Disabled
<1>39. CASE DisableTimer
  BY <1>39 DEF DisableTimer, Fired
<1>40. CASE DisableSkip
  BY <1>40 DEF DisableSkip, Fired
<1>41. CASE AltEnd
  BY <1>41 DEF AltEnd
<1>42. CASE AltDec
  BY <1>42 DEF AltDec, Deschedule
<1>43. CASE Selected
  BY <1>43 DEF Selected
<1>44. CASE Trigger
  BY <1>44 DEF Trigger, Enqueue
<1>45. CASE Tick
  BY <1>45 DEF Tick
<1>46. CASE Expire
  BY <1>46 DEF Expire
<1> QED
  BY <1>7, <1>8, <1>9, <1>10, <1>11, <1>12, <1>13, <1>14, <1>15, <1>16, <1>17, <1>18,
     <1>19, <1>20, <1>21, <1>22, <1>23, <1>24, <1>25, <1>26, <1>27, <1>28, <1>29,
     <1>30, <1>31, <1>32, <1>33, <1>34, <1>35, <1>36, <1>37, <1>38, <1>39, <1>40,
     <1>41, <1>42, <1>43, <1>44, <1>45, <1>46
     DEF Next, ReaderStep, WriterStep, Begin, Enabling, AltWait, Disabling, Extended, Io

(* A guard that is enabled stays so until it is disabled.                   *)
PassesGuard ==
    \/ pc[Reader] = "enbRestore" /\ pc'[Reader] = "enbReady"
    \/ /\ pc[Reader] \in {"disable", "disCas"}
       /\ pc'[Reader] \in {"altend", "disDec"} \/ i' # i
LeftKept == \A k \in Left : k \in Left' \/ (k = i /\ PassesGuard)

(* Guards leave Left one at a time.                                         *)
LEMMA LeftStep == AInv /\ [Next]_vars => LeftKept
<1> SUFFICES ASSUME AInv, [Next]_vars PROVE LeftKept
  OBVIOUS
<1>1. TypeOK /\ Indices /\ JumpsWhenReady
  BY DEF AInv
<1>2. Client \in {"occam", "ProcAlt"} /\ Len(Guards) \in Nat /\ Len(Guards) > 0
         /\ DOMAIN Guards = 1..Len(Guards)
  BY <1>1, Program DEF JumpsWhenReady
<1>3. Guards' = Guards /\ Client' = Client
  BY ProgramKept
<1>4. pc[Reader] \in DisablePcs /\ DisableNext =>
           /\ i' \in 1..hi /\ pc'[Reader] \in {"altend", "disable"}
           /\ pc' = [pc EXCEPT ![Reader] = pc'[Reader]]
           /\ pc'[Reader] = "altend" => i = IF Client = "occam" THEN 1 ELSE hi
           /\ pc'[Reader] = "disable" => i' = IF Client = "occam" THEN i - 1 ELSE i + 1
  BY <1>1, NextGuard
<1>5. AfterReady => StartDisable(i)
  BY <1>1, Program DEF AfterReady, JumpsWhenReady
<1>6. pend > 0 =>
           pc[Reader] \notin {"top", "io", "ioSwap", "ioTake", "ioCopy", "xSwap", "xRestore", "xend"}
  BY DEF AInv, Counts, InAlt
<1> USE <1>1, <1>2, <1>3, <1>4, <1>5, Distinct
<1> USE DEF Indices, TypeOK, Procs, Guard, LeftKept, PassesGuard, Left, EnablePcs, WaitPcs,
            DisablePcs, altvars, ghosts, At, Goto, IoChan
<1>7. CASE UNCHANGED vars
  BY <1>7 DEF vars
<1>8. CASE IoRead(Reader)
  BY <1>8 DEF IoRead
<1>9. CASE IoSwap(Reader)
  BY <1>9 DEF IoSwap, Deschedule
<1>10. CASE IoTake(Reader)
  BY <1>10 DEF IoTake
<1>11. CASE IoCopy(Reader)
  BY <1>11 DEF IoCopy, Transfer, Enqueue
<1>12. ASSUME NEW c \in Chans, IoRead(c) PROVE LeftKept
  BY <1>12 DEF IoRead
<1>13. ASSUME NEW c \in Chans, IoSwap(c) PROVE LeftKept
  BY <1>13 DEF IoSwap, Deschedule
<1>14. ASSUME NEW c \in Chans, IoTake(c) PROVE LeftKept
  BY <1>14 DEF IoTake
<1>15. ASSUME NEW c \in Chans, IoCopy(c) PROVE LeftKept
  BY <1>15 DEF IoCopy, Transfer, Enqueue
<1>16. ASSUME NEW c \in Chans, Output(c) PROVE LeftKept
  BY <1>16 DEF Output
<1>17. ASSUME NEW c \in Chans, Input(c) PROVE LeftKept
  BY <1>17 DEF Input
<1>18. ASSUME NEW c \in Chans, Xable(c) PROVE LeftKept
  BY <1>18 DEF Xable
<1>19. CASE XSwap
  BY <1>19 DEF XSwap, Deschedule
<1>20. CASE XRestore
  BY <1>20 DEF XRestore
<1>21. CASE Xin
  BY <1>21 DEF Xin, Transfer
<1>22. CASE Xend
  BY <1>22 DEF Xend, Enqueue
<1>23. CASE Alt
  BY <1>23 DEF Alt
<1>24. CASE EnableChannel
  BY <1>24 DEF EnableChannel, EnableDone
<1>25. CASE EnableTimer
  BY <1>25 DEF EnableTimer, EnableDone
<1>26. CASE EnableSkip
  BY <1>26 DEF EnableSkip
<1>27. CASE EnbSwap
  BY <1>27 DEF EnbSwap
<1>28. CASE EnbInc
  BY <1>28 DEF EnbInc, EnableDone
<1>29. CASE EnbRestore
  BY <1>29 DEF EnbRestore
<1>30. CASE EnbReady
  BY <1>30 DEF EnbReady, StartDisable
<1>31. CASE EnbClear
  BY <1>31 DEF EnbClear, StartDisable
<1>32. CASE Wait
  BY <1>32 DEF Wait
<1>33. CASE WaitCas
  BY <1>33 DEF WaitCas, StartDisable, Deschedule
<1>34. CASE WaitCasFails
  BY <1>34 DEF WaitCasFails
<1>35. CASE WaitOut
  BY <1>35 DEF WaitOut, StartDisable
<1>36. CASE DisableChannel
  BY <1>36 DEF DisableChannel, Fired
<1>37. CASE DisCas
  BY <1>37 DEF DisCas, Fired
<1>38. CASE DisDec
  BY <1>38 DEF DisDec, Disabled
<1>39. CASE DisableTimer
  BY <1>39 DEF DisableTimer, Fired
<1>40. CASE DisableSkip
  BY <1>40 DEF DisableSkip, Fired
<1>41. CASE AltEnd
  BY <1>41 DEF AltEnd
<1>42. CASE AltDec
  BY <1>42 DEF AltDec, Deschedule
<1>43. CASE Selected
  BY <1>43 DEF Selected
<1>44. CASE Trigger
  BY <1>44 DEF Trigger, Enqueue
<1>45. CASE Tick
  BY <1>45 DEF Tick
<1>46. CASE Expire
  BY <1>46 DEF Expire
<1> QED
  BY <1>7, <1>8, <1>9, <1>10, <1>11, <1>12, <1>13, <1>14, <1>15, <1>16, <1>17, <1>18,
     <1>19, <1>20, <1>21, <1>22, <1>23, <1>24, <1>25, <1>26, <1>27, <1>28, <1>29,
     <1>30, <1>31, <1>32, <1>33, <1>34, <1>35, <1>36, <1>37, <1>38, <1>39, <1>40,
     <1>41, <1>42, <1>43, <1>44, <1>45, <1>46
     DEF Next, ReaderStep, WriterStep, Begin, Enabling, AltWait, Disabling, Extended, Io

(* Where the writers are.                                                   *)
LEMMA WritersStep == AInv /\ [Next]_vars => Writers'
<1> SUFFICES ASSUME AInv, [Next]_vars PROVE Writers'
  OBVIOUS
<1>1. TypeOK /\ Indices /\ Writers /\ Words /\ ReaderIo /\ JumpsWhenReady
  BY DEF AInv
<1>2. Guards' = Guards /\ Client' = Client
  BY ProgramKept
<1>3. TypeOK'
  BY TypeOKStep
<1>4. pc[Reader] \in DisablePcs /\ DisableNext =>
           /\ i' \in 1..hi /\ pc'[Reader] \in {"altend", "disable"}
           /\ pc' = [pc EXCEPT ![Reader] = pc'[Reader]]
           /\ pc'[Reader] = "altend" => i = IF Client = "occam" THEN 1 ELSE hi
           /\ pc'[Reader] = "disable" => i' = IF Client = "occam" THEN i - 1 ELSE i + 1
  BY <1>1, NextGuard
<1>5. AfterReady => StartDisable(i)
  BY <1>1, Program DEF AfterReady, JumpsWhenReady
<1>6. pend > 0 =>
           pc[Reader] \notin {"top", "io", "ioSwap", "ioTake", "ioCopy", "xSwap", "xRestore", "xend"}
  BY DEF AInv, Counts, InAlt
<1> USE <1>1, <1>2, <1>3, <1>4, <1>5, <1>6, Distinct
<1> USE DEF TypeOK, Procs, Indices, Writers, Words, ReaderIo, Awaits, Holds, Guard, EnablePcs,
            DisablePcs, altvars, ghosts, At, Goto, IoChan
<1>7. CASE UNCHANGED vars
  BY <1>7 DEF vars
<1>8. CASE IoRead(Reader)
  BY <1>8 DEF IoRead
<1>9. CASE IoSwap(Reader)
  BY <1>9 DEF IoSwap, Deschedule
<1>10. CASE IoTake(Reader)
  BY <1>10 DEF IoTake
<1>11. CASE IoCopy(Reader)
  BY <1>11 DEF IoCopy, Transfer, Enqueue
<1>12. ASSUME NEW c \in Chans, IoRead(c) PROVE Writers'
  BY <1>12 DEF IoRead
<1>13. ASSUME NEW c \in Chans, IoSwap(c) PROVE Writers'
  BY <1>13 DEF IoSwap, Deschedule
<1>14. ASSUME NEW c \in Chans, IoTake(c) PROVE Writers'
  BY <1>14 DEF IoTake
<1>15. ASSUME NEW c \in Chans, IoCopy(c) PROVE Writers'
  BY <1>15 DEF IoCopy, Transfer, Enqueue
<1>16. ASSUME NEW c \in Chans, Output(c) PROVE Writers'
  BY <1>16 DEF Output
<1>17. ASSUME NEW c \in Chans, Input(c) PROVE Writers'
  BY <1>17 DEF Input
<1>18. ASSUME NEW c \in Chans, Xable(c) PROVE Writers'
  BY <1>18 DEF Xable
<1>19. CASE XSwap
  BY <1>19 DEF XSwap, Deschedule
<1>20. CASE XRestore
  BY <1>20 DEF XRestore
<1>21. CASE Xin
  BY <1>21 DEF Xin, Transfer
<1>22. CASE Xend
  BY <1>22 DEF Xend, Enqueue
<1>23. CASE Alt
  BY <1>23 DEF Alt
<1>24. CASE EnableChannel
  BY <1>24 DEF EnableChannel, EnableDone
<1>25. CASE EnableTimer
  BY <1>25 DEF EnableTimer, EnableDone
<1>26. CASE EnableSkip
  BY <1>26 DEF EnableSkip
<1>27. CASE EnbSwap
  BY <1>27 DEF EnbSwap
<1>28. CASE EnbInc
  BY <1>28 DEF EnbInc, EnableDone
<1>29. CASE EnbRestore
  BY <1>29 DEF EnbRestore
<1>30. CASE EnbReady
  BY <1>30 DEF EnbReady, StartDisable
<1>31. CASE EnbClear
  BY <1>31 DEF EnbClear, StartDisable
<1>32. CASE Wait
  BY <1>32 DEF Wait
<1>33. CASE WaitCas
  BY <1>33 DEF WaitCas, StartDisable, Deschedule
<1>34. CASE WaitCasFails
  BY <1>34 DEF WaitCasFails
<1>35. CASE WaitOut
  BY <1>35 DEF WaitOut, StartDisable
<1>36. CASE DisableChannel
  BY <1>36 DEF DisableChannel, Fired
<1>37. CASE DisCas
  BY <1>37 DEF DisCas, Fired
<1>38. CASE DisDec
  BY <1>38 DEF DisDec, Disabled
<1>39. CASE DisableTimer
  BY <1>39 DEF DisableTimer, Fired
<1>40. CASE DisableSkip
  BY <1>40 DEF DisableSkip, Fired
<1>41. CASE AltEnd
  BY <1>41 DEF AltEnd
<1>42. CASE AltDec
  BY <1>42 DEF AltDec, Deschedule
<1>43. CASE Selected
  BY <1>43 DEF Selected
<1>44. CASE Trigger
  BY <1>44 DEF Trigger, Enqueue
<1>45. CASE Tick
  BY <1>45 DEF Tick
<1>46. CASE Expire
  BY <1>46 DEF Expire
<1> QED
  BY <1>7, <1>8, <1>9, <1>10, <1>11, <1>12, <1>13, <1>14, <1>15, <1>16, <1>17, <1>18,
     <1>19, <1>20, <1>21, <1>22, <1>23, <1>24, <1>25, <1>26, <1>27, <1>28, <1>29,
     <1>30, <1>31, <1>32, <1>33, <1>34, <1>35, <1>36, <1>37, <1>38, <1>39, <1>40,
     <1>41, <1>42, <1>43, <1>44, <1>45, <1>46
     DEF Next, ReaderStep, WriterStep, Begin, Enabling, AltWait, Disabling, Extended, Io

(* A guard on offer stays so until it is disabled.                          *)
OnOfferKept ==
    \A g : OnOffer(g) =>
        \/ OnOffer(g)'
        \/ Guard = g /\ PassesGuard

(* A guard stays on offer until it is disabled.                             *)
LEMMA OfferStep == AInv /\ [Next]_vars => OnOfferKept
<1> SUFFICES ASSUME AInv, [Next]_vars PROVE OnOfferKept
  OBVIOUS
<1>1. LeftKept /\ Guards' = Guards
  BY LeftStep, ProgramKept
<1> QED
  BY <1>1 DEF LeftKept, OnOfferKept, OnOffer, Guard

(* Guards are on offer during an ALT only.                                  *)
LEMMA OfferInAlt == \A g : OnOffer(g) => InAlt
  BY DEF OnOffer, Left, InAlt, EnablePcs, WaitPcs, DisablePcs

(* Where the reader's pointer is, tagged or not.                            *)
LEMMA WordsStep == AInv /\ [Next]_vars => Words'
<1> SUFFICES ASSUME AInv, [Next]_vars PROVE Words'
  OBVIOUS
<1>1. TypeOK /\ Indices /\ Writers /\ Words /\ ReaderIo /\ JumpsWhenReady
  BY DEF AInv
<1>2. Guards' = Guards /\ Client' = Client
  BY ProgramKept
<1>3. TypeOK'
  BY TypeOKStep
<1>4. pc[Reader] \in DisablePcs /\ DisableNext =>
           /\ i' \in 1..hi /\ pc'[Reader] \in {"altend", "disable"}
           /\ pc' = [pc EXCEPT ![Reader] = pc'[Reader]]
           /\ pc'[Reader] = "altend" => i = IF Client = "occam" THEN 1 ELSE hi
           /\ pc'[Reader] = "disable" => i' = IF Client = "occam" THEN i - 1 ELSE i + 1
  BY <1>1, NextGuard
<1>5. AfterReady => StartDisable(i)
  BY <1>1, Program DEF AfterReady, JumpsWhenReady
<1>6. pend > 0 =>
           pc[Reader] \notin {"top", "io", "ioSwap", "ioTake", "ioCopy", "xSwap", "xRestore", "xend"}
  BY DEF AInv, Counts, InAlt
<1>7. OnOfferKept
  BY OfferStep
<1>8. EnbSwap => OnOffer(Guard)'
  BY <1>1, <1>2, Program DEF EnbSwap, Goto, At, altvars, TypeOK, Procs, Indices, OnOffer,
     Left, Guard, EnablePcs
<1>9. /\ \A g : OnOffer(g) => InAlt
      /\ InAlt =>
            ~(pc[Reader] \in {"top", "io", "ioSwap", "ioTake", "ioCopy", "xSwap", "xRestore", "xin",
                              "xend"})
      /\ node = Tagged => OnOffer(TIMER)
  BY OfferInAlt DEF InAlt, AInv, TimerNode
<1> USE <1>1, <1>2, <1>3, <1>4, <1>5, <1>6, <1>7, <1>9, Distinct
<1> USE DEF TypeOK, Procs, Indices, Writers, Words, ReaderIo, Awaits, Holds, Guard, EnablePcs,
            DisablePcs, OnOfferKept, PassesGuard, altvars, ghosts, At, Goto, IoChan
<1>10. CASE UNCHANGED vars
  BY <1>10 DEF vars
<1>11. CASE IoRead(Reader)
  BY <1>11 DEF IoRead
<1>12. CASE IoSwap(Reader)
  BY <1>12 DEF IoSwap, Deschedule
<1>13. CASE IoTake(Reader)
  BY <1>13 DEF IoTake
<1>14. CASE IoCopy(Reader)
  BY <1>14 DEF IoCopy, Transfer, Enqueue
<1>15. ASSUME NEW c \in Chans, IoRead(c) PROVE Words'
  BY <1>15 DEF IoRead
<1>16. ASSUME NEW c \in Chans, IoSwap(c) PROVE Words'
  BY <1>16 DEF IoSwap, Deschedule
<1>17. ASSUME NEW c \in Chans, IoTake(c) PROVE Words'
  BY <1>17 DEF IoTake
<1>18. ASSUME NEW c \in Chans, IoCopy(c) PROVE Words'
  BY <1>18 DEF IoCopy, Transfer, Enqueue
<1>19. ASSUME NEW c \in Chans, Output(c) PROVE Words'
  BY <1>19 DEF Output
<1>20. ASSUME NEW c \in Chans, Input(c) PROVE Words'
  BY <1>20 DEF Input
<1>21. ASSUME NEW c \in Chans, Xable(c) PROVE Words'
  BY <1>21 DEF Xable
<1>22. CASE XSwap
  BY <1>22 DEF XSwap, Deschedule
<1>23. CASE XRestore
  BY <1>23 DEF XRestore
<1>24. CASE Xin
  BY <1>24 DEF Xin, Transfer
<1>25. CASE Xend
  BY <1>25 DEF Xend, Enqueue
<1>26. CASE Alt
  BY <1>26 DEF Alt
<1>27. CASE EnableChannel
  BY <1>27 DEF EnableChannel, EnableDone
<1>28. CASE EnableTimer
  BY <1>28 DEF EnableTimer, EnableDone
<1>29. CASE EnableSkip
  BY <1>29 DEF EnableSkip
<1>30. CASE EnbSwap
  BY <1>30, <1>8 DEF EnbSwap
<1>31. CASE EnbInc
  BY <1>31 DEF EnbInc, EnableDone
<1>32. CASE EnbRestore
  BY <1>32 DEF EnbRestore
<1>33. CASE EnbReady
  BY <1>33 DEF EnbReady, StartDisable
<1>34. CASE EnbClear
  BY <1>34 DEF EnbClear, StartDisable
<1>35. CASE Wait
  BY <1>35 DEF Wait
<1>36. CASE WaitCas
  BY <1>36 DEF WaitCas, StartDisable, Deschedule
<1>37. CASE WaitCasFails
  BY <1>37 DEF WaitCasFails
<1>38. CASE WaitOut
  BY <1>38 DEF WaitOut, StartDisable
<1>39. CASE DisableChannel
  BY <1>39 DEF DisableChannel, Fired
<1>40. CASE DisCas
  BY <1>40 DEF DisCas, Fired
<1>41. CASE DisDec
  BY <1>41 DEF DisDec, Disabled
<1>42. CASE DisableTimer
  BY <1>42 DEF DisableTimer, Fired
<1>43. CASE DisableSkip
  BY <1>43 DEF DisableSkip, Fired
<1>44. CASE AltEnd
  BY <1>44 DEF AltEnd
<1>45. CASE AltDec
  BY <1>45 DEF AltDec, Deschedule
<1>46. CASE Selected
  BY <1>46 DEF Selected
<1>47. CASE Trigger
  BY <1>47 DEF Trigger, Enqueue
<1>48. CASE Tick
  BY <1>48 DEF Tick
<1>49. CASE Expire
  BY <1>49 DEF Expire
<1> QED
  BY <1>10, <1>11, <1>12, <1>13, <1>14, <1>15, <1>16, <1>17, <1>18, <1>19, <1>20,
     <1>21, <1>22, <1>23, <1>24, <1>25, <1>26, <1>27, <1>28, <1>29, <1>30, <1>31,
     <1>32, <1>33, <1>34, <1>35, <1>36, <1>37, <1>38, <1>39, <1>40, <1>41, <1>42,
     <1>43, <1>44, <1>45, <1>46, <1>47, <1>48, <1>49
     DEF Next, ReaderStep, WriterStep, Begin, Enabling, AltWait, Disabling, Extended, Io

(* Where the reader is, and the word of its communication.                  *)
LEMMA ReaderIoStep == AInv /\ [Next]_vars => ReaderIo'
<1> SUFFICES ASSUME AInv, [Next]_vars PROVE ReaderIo'
  OBVIOUS
<1>1. TypeOK /\ Indices /\ Writers /\ Words /\ ReaderIo /\ JumpsWhenReady
  BY DEF AInv
<1>2. Guards' = Guards /\ Client' = Client
  BY ProgramKept
<1>3. TypeOK'
  BY TypeOKStep
<1>4. pc[Reader] \in DisablePcs /\ DisableNext =>
           /\ i' \in 1..hi /\ pc'[Reader] \in {"altend", "disable"}
           /\ pc' = [pc EXCEPT ![Reader] = pc'[Reader]]
           /\ pc'[Reader] = "altend" => i = IF Client = "occam" THEN 1 ELSE hi
           /\ pc'[Reader] = "disable" => i' = IF Client = "occam" THEN i - 1 ELSE i + 1
  BY <1>1, NextGuard
<1>5. AfterReady => StartDisable(i)
  BY <1>1, Program DEF AfterReady, JumpsWhenReady
<1>6. pend > 0 =>
           pc[Reader] \notin {"top", "io", "ioSwap", "ioTake", "ioCopy", "xSwap", "xRestore", "xend"}
  BY DEF AInv, Counts, InAlt
<1>7. OnOfferKept
  BY OfferStep
<1>8. EnbSwap => OnOffer(Guard)'
  BY <1>1, <1>2, Program DEF EnbSwap, Goto, At, altvars, TypeOK, Procs, Indices, OnOffer,
     Left, Guard, EnablePcs
<1>9. /\ \A g : OnOffer(g) => InAlt
      /\ InAlt =>
            ~(pc[Reader] \in {"top", "io", "ioSwap", "ioTake", "ioCopy", "xSwap", "xRestore", "xin",
                              "xend"})
      /\ node = Tagged => OnOffer(TIMER)
  BY OfferInAlt DEF InAlt, AInv, TimerNode
<1>10. /\ slot \in SlotWords
      /\ slot = State({"WAITING"}, 1) => "WAITING" \in slot.flags
  BY <1>1, FixedStates DEF TypeOK
<1> USE <1>1, <1>2, <1>3, <1>4, <1>5, <1>6, <1>7, <1>9, <1>10, Distinct
<1> USE DEF TypeOK, Procs, Indices, Writers, Words, ReaderIo, Awaits, Holds, Guard, EnablePcs,
            DisablePcs, altvars, ghosts, At, Goto, IoChan
<1>11. CASE UNCHANGED vars
  BY <1>11 DEF vars
<1>12. CASE IoRead(Reader)
  BY <1>12 DEF IoRead
<1>13. CASE IoSwap(Reader)
  BY <1>13 DEF IoSwap, Deschedule
<1>14. CASE IoTake(Reader)
  BY <1>14 DEF IoTake
<1>15. CASE IoCopy(Reader)
  BY <1>15 DEF IoCopy, Transfer, Enqueue
<1>16. ASSUME NEW c \in Chans, IoRead(c) PROVE ReaderIo'
  BY <1>16 DEF IoRead
<1>17. ASSUME NEW c \in Chans, IoSwap(c) PROVE ReaderIo'
  BY <1>17 DEF IoSwap, Deschedule
<1>18. ASSUME NEW c \in Chans, IoTake(c) PROVE ReaderIo'
  BY <1>18 DEF IoTake
<1>19. ASSUME NEW c \in Chans, IoCopy(c) PROVE ReaderIo'
  BY <1>19 DEF IoCopy, Transfer, Enqueue
<1>20. ASSUME NEW c \in Chans, Output(c) PROVE ReaderIo'
  BY <1>20 DEF Output
<1>21. ASSUME NEW c \in Chans, Input(c) PROVE ReaderIo'
  BY <1>21 DEF Input
<1>22. ASSUME NEW c \in Chans, Xable(c) PROVE ReaderIo'
  BY <1>22 DEF Xable
<1>23. CASE XSwap
  BY <1>23 DEF XSwap, Deschedule
<1>24. CASE XRestore
  BY <1>24 DEF XRestore
<1>25. CASE Xin
  BY <1>25 DEF Xin, Transfer
<1>26. CASE Xend
  BY <1>26 DEF Xend, Enqueue
<1>27. CASE Alt
  BY <1>27 DEF Alt
<1>28. CASE EnableChannel
  BY <1>28 DEF EnableChannel, EnableDone
<1>29. CASE EnableTimer
  BY <1>29 DEF EnableTimer, EnableDone
<1>30. CASE EnableSkip
  BY <1>30 DEF EnableSkip
<1>31. CASE EnbSwap
  BY <1>31 DEF EnbSwap
<1>32. CASE EnbInc
  BY <1>32 DEF EnbInc, EnableDone
<1>33. CASE EnbRestore
  BY <1>33 DEF EnbRestore
<1>34. CASE EnbReady
  BY <1>34 DEF EnbReady, StartDisable
<1>35. CASE EnbClear
  BY <1>35 DEF EnbClear, StartDisable
<1>36. CASE Wait
  BY <1>36 DEF Wait
<1>37. CASE WaitCas
  BY <1>37 DEF WaitCas, StartDisable, Deschedule
<1>38. CASE WaitCasFails
  BY <1>38 DEF WaitCasFails
<1>39. CASE WaitOut
  BY <1>39 DEF WaitOut, StartDisable
<1>40. CASE DisableChannel
  BY <1>40 DEF DisableChannel, Fired
<1>41. CASE DisCas
  BY <1>41 DEF DisCas, Fired
<1>42. CASE DisDec
  BY <1>42 DEF DisDec, Disabled
<1>43. CASE DisableTimer
  BY <1>43 DEF DisableTimer, Fired
<1>44. CASE DisableSkip
  BY <1>44 DEF DisableSkip, Fired
<1>45. CASE AltEnd
  BY <1>45 DEF AltEnd
<1>46. CASE AltDec
  BY <1>46 DEF AltDec, Deschedule
<1>47. CASE Selected
  BY <1>47 DEF Selected
<1>48. CASE Trigger
  BY <1>48 DEF Trigger, Enqueue
<1>49. CASE Tick
  BY <1>49 DEF Tick
<1>50. CASE Expire
  BY <1>50 DEF Expire
<1> QED
  BY <1>11, <1>12, <1>13, <1>14, <1>15, <1>16, <1>17, <1>18, <1>19, <1>20, <1>21,
     <1>22, <1>23, <1>24, <1>25, <1>26, <1>27, <1>28, <1>29, <1>30, <1>31, <1>32,
     <1>33, <1>34, <1>35, <1>36, <1>37, <1>38, <1>39, <1>40, <1>41, <1>42, <1>43,
     <1>44, <1>45, <1>46, <1>47, <1>48, <1>49, <1>50
     DEF Next, ReaderStep, WriterStep, Begin, Enabling, AltWait, Disabling, Extended, Io

(* The timer node.                                                          *)
LEMMA TimerNodeStep == AInv /\ [Next]_vars => TimerNode'
<1> SUFFICES ASSUME AInv, [Next]_vars PROVE TimerNode'
  OBVIOUS
<1>1. TypeOK /\ Indices /\ Writers /\ Words /\ ReaderIo /\ JumpsWhenReady /\ TimerNode /\ Counts
  BY DEF AInv
<1>2. Guards' = Guards /\ Client' = Client
  BY ProgramKept
<1>3. TypeOK'
  BY TypeOKStep
<1>4. pc[Reader] \in DisablePcs /\ DisableNext =>
           /\ i' \in 1..hi /\ pc'[Reader] \in {"altend", "disable"}
           /\ pc' = [pc EXCEPT ![Reader] = pc'[Reader]]
           /\ pc'[Reader] = "altend" => i = IF Client = "occam" THEN 1 ELSE hi
           /\ pc'[Reader] = "disable" => i' = IF Client = "occam" THEN i - 1 ELSE i + 1
  BY <1>1, NextGuard
<1>5. AfterReady => StartDisable(i)
  BY <1>1, Program DEF AfterReady, JumpsWhenReady
<1>6. pend > 0 =>
           pc[Reader] \notin {"top", "io", "ioSwap", "ioTake", "ioCopy", "xSwap", "xRestore", "xend"}
  BY DEF AInv, Counts, InAlt
<1>7. OnOfferKept
  BY OfferStep
<1>8. EnbSwap => OnOffer(Guard)'
  BY <1>1, <1>2, Program DEF EnbSwap, Goto, At, altvars, TypeOK, Procs, Indices, OnOffer,
     Left, Guard, EnablePcs
<1>9. /\ \A g : OnOffer(g) => InAlt
      /\ InAlt =>
            ~(pc[Reader] \in {"top", "io", "ioSwap", "ioTake", "ioCopy", "xSwap", "xRestore", "xin",
                              "xend"})
      /\ node = Tagged => OnOffer(TIMER)
  BY OfferInAlt DEF InAlt, AInv, TimerNode
<1>10. Wait /\ Timed => OnOffer(TIMER)'
  BY <1>1, <1>2, Program DEF Wait, Goto, At, altvars, TypeOK, Procs, Indices, OnOffer, Left,
     Timed, WaitPcs
<1>11. Timed' = Timed /\ (EnableTimer => Timed)
  BY <1>1, <1>2 DEF Timed, EnableTimer, Guard, Indices, EnablePcs, At
<1> USE <1>1, <1>2, <1>3, <1>4, <1>5, <1>6, <1>7, <1>9, <1>11, Distinct
<1> USE DEF TypeOK, Procs, Indices, TimerNode, Guard, EnablePcs, WaitPcs, DisablePcs,
            OnOfferKept, PassesGuard, altvars, ghosts, At, Goto, IoChan
<1>12. CASE UNCHANGED vars
  BY <1>12 DEF vars
<1>13. CASE IoRead(Reader)
  BY <1>13 DEF IoRead
<1>14. CASE IoSwap(Reader)
  BY <1>14 DEF IoSwap, Deschedule
<1>15. CASE IoTake(Reader)
  BY <1>15 DEF IoTake
<1>16. CASE IoCopy(Reader)
  BY <1>16 DEF IoCopy, Transfer, Enqueue
<1>17. ASSUME NEW c \in Chans, IoRead(c) PROVE TimerNode'
  BY <1>17 DEF IoRead
<1>18. ASSUME NEW c \in Chans, IoSwap(c) PROVE TimerNode'
  BY <1>18 DEF IoSwap, Deschedule
<1>19. ASSUME NEW c \in Chans, IoTake(c) PROVE TimerNode'
  BY <1>19 DEF IoTake
<1>20. ASSUME NEW c \in Chans, IoCopy(c) PROVE TimerNode'
  BY <1>20 DEF IoCopy, Transfer, Enqueue
<1>21. ASSUME NEW c \in Chans, Output(c) PROVE TimerNode'
  BY <1>21 DEF Output
<1>22. ASSUME NEW c \in Chans, Input(c) PROVE TimerNode'
  BY <1>22 DEF Input
<1>23. ASSUME NEW c \in Chans, Xable(c) PROVE TimerNode'
  BY <1>23 DEF Xable
<1>24. CASE XSwap
  BY <1>24 DEF XSwap, Deschedule
<1>25. CASE XRestore
  BY <1>25 DEF XRestore
<1>26. CASE Xin
  BY <1>26 DEF Xin, Transfer
<1>27. CASE Xend
  BY <1>27 DEF Xend, Enqueue
<1>28. CASE Alt
  BY <1>28 DEF Alt
<1>29. CASE EnableChannel
  BY <1>29 DEF EnableChannel, EnableDone
<1>30. CASE EnableTimer
  BY <1>30 DEF EnableTimer, EnableDone
<1>31. CASE EnableSkip
  BY <1>31 DEF EnableSkip
<1>32. CASE EnbSwap
  BY <1>32 DEF EnbSwap
<1>33. CASE EnbInc
  BY <1>33 DEF EnbInc, EnableDone
<1>34. CASE EnbRestore
  BY <1>34 DEF EnbRestore
<1>35. CASE EnbReady
  BY <1>35 DEF EnbReady, StartDisable
<1>36. CASE EnbClear
  BY <1>36 DEF EnbClear, StartDisable
<1>37. CASE Wait
  BY <1>37, <1>10 DEF Wait
<1>38. CASE WaitCas
  BY <1>38 DEF WaitCas, StartDisable, Deschedule
<1>39. CASE WaitCasFails
  BY <1>39 DEF WaitCasFails
<1>40. CASE WaitOut
  BY <1>40 DEF WaitOut, StartDisable
<1>41. CASE DisableChannel
  BY <1>41 DEF DisableChannel, Fired
<1>42. CASE DisCas
  BY <1>42 DEF DisCas, Fired
<1>43. CASE DisDec
  BY <1>43 DEF DisDec, Disabled
<1>44. CASE DisableTimer
  BY <1>44 DEF DisableTimer, Fired, TimePassed
<1>45. CASE DisableSkip
  BY <1>45 DEF DisableSkip, Fired
<1>46. CASE AltEnd
  BY <1>46 DEF AltEnd
<1>47. CASE AltDec
  BY <1>47 DEF AltDec, Deschedule
<1>48. CASE Selected
  BY <1>48 DEF Selected
<1>49. CASE Trigger
  BY <1>49 DEF Trigger, Enqueue
<1>50. CASE Tick
  BY <1>50 DEF Tick
<1>51. CASE Expire
  BY <1>51 DEF Expire
<1> QED
  BY <1>12, <1>13, <1>14, <1>15, <1>16, <1>17, <1>18, <1>19, <1>20, <1>21, <1>22,
     <1>23, <1>24, <1>25, <1>26, <1>27, <1>28, <1>29, <1>30, <1>31, <1>32, <1>33,
     <1>34, <1>35, <1>36, <1>37, <1>38, <1>39, <1>40, <1>41, <1>42, <1>43, <1>44,
     <1>45, <1>46, <1>47, <1>48, <1>49, <1>50, <1>51
     DEF Next, ReaderStep, WriterStep, Begin, Enabling, AltWait, Disabling, Extended, Io

(* Outputs begun and not transferred.                                       *)
LEMMA OutputsStep == AInv /\ [Next]_vars => Outputs'
<1> SUFFICES ASSUME AInv, [Next]_vars PROVE Outputs'
  OBVIOUS
<1>1. TypeOK /\ Indices /\ Writers /\ Words /\ ReaderIo /\ JumpsWhenReady /\ TimerNode
      /\ Counts /\ Outputs
  BY DEF AInv
<1>2. Guards' = Guards /\ Client' = Client
  BY ProgramKept
<1>3. TypeOK'
  BY TypeOKStep
<1>4. pc[Reader] \in DisablePcs /\ DisableNext =>
           /\ i' \in 1..hi /\ pc'[Reader] \in {"altend", "disable"}
           /\ pc' = [pc EXCEPT ![Reader] = pc'[Reader]]
           /\ pc'[Reader] = "altend" => i = IF Client = "occam" THEN 1 ELSE hi
           /\ pc'[Reader] = "disable" => i' = IF Client = "occam" THEN i - 1 ELSE i + 1
  BY <1>1, NextGuard
<1>5. AfterReady => StartDisable(i)
  BY <1>1, Program DEF AfterReady, JumpsWhenReady
<1>6. pend > 0 =>
           pc[Reader] \notin {"top", "io", "ioSwap", "ioTake", "ioCopy", "xSwap", "xRestore", "xend"}
  BY DEF AInv, Counts, InAlt
<1> USE <1>1, <1>2, <1>3, <1>4, <1>5, <1>6, Distinct
<1> USE DEF TypeOK, Procs, Outputs, Writers, ReaderIo, Holds, Awaits, DisablePcs, altvars,
            ghosts, At, Goto, IoChan
<1>7. CASE UNCHANGED vars
  BY <1>7 DEF vars
<1>8. CASE IoRead(Reader)
  BY <1>8 DEF IoRead
<1>9. CASE IoSwap(Reader)
  BY <1>9 DEF IoSwap, Deschedule
<1>10. CASE IoTake(Reader)
  BY <1>10 DEF IoTake
<1>11. CASE IoCopy(Reader)
  BY <1>11 DEF IoCopy, Transfer, Enqueue
<1>12. ASSUME NEW c \in Chans, IoRead(c) PROVE Outputs'
  BY <1>12 DEF IoRead
<1>13. ASSUME NEW c \in Chans, IoSwap(c) PROVE Outputs'
  BY <1>13 DEF IoSwap, Deschedule
<1>14. ASSUME NEW c \in Chans, IoTake(c) PROVE Outputs'
  BY <1>14 DEF IoTake
<1>15. ASSUME NEW c \in Chans, IoCopy(c) PROVE Outputs'
  BY <1>15 DEF IoCopy, Transfer, Enqueue
<1>16. ASSUME NEW c \in Chans, Output(c) PROVE Outputs'
  BY <1>16 DEF Output
<1>17. ASSUME NEW c \in Chans, Input(c) PROVE Outputs'
  BY <1>17 DEF Input
<1>18. ASSUME NEW c \in Chans, Xable(c) PROVE Outputs'
  BY <1>18 DEF Xable
<1>19. CASE XSwap
  BY <1>19 DEF XSwap, Deschedule
<1>20. CASE XRestore
  BY <1>20 DEF XRestore
<1>21. CASE Xin
  BY <1>21 DEF Xin, Transfer
<1>22. CASE Xend
  BY <1>22 DEF Xend, Enqueue
<1>23. CASE Alt
  BY <1>23 DEF Alt
<1>24. CASE EnableChannel
  BY <1>24 DEF EnableChannel, EnableDone
<1>25. CASE EnableTimer
  BY <1>25 DEF EnableTimer, EnableDone
<1>26. CASE EnableSkip
  BY <1>26 DEF EnableSkip
<1>27. CASE EnbSwap
  BY <1>27 DEF EnbSwap
<1>28. CASE EnbInc
  BY <1>28 DEF EnbInc, EnableDone
<1>29. CASE EnbRestore
  BY <1>29 DEF EnbRestore
<1>30. CASE EnbReady
  BY <1>30 DEF EnbReady, StartDisable
<1>31. CASE EnbClear
  BY <1>31 DEF EnbClear, StartDisable
<1>32. CASE Wait
  BY <1>32 DEF Wait
<1>33. CASE WaitCas
  BY <1>33 DEF WaitCas, StartDisable, Deschedule
<1>34. CASE WaitCasFails
  BY <1>34 DEF WaitCasFails
<1>35. CASE WaitOut
  BY <1>35 DEF WaitOut, StartDisable
<1>36. CASE DisableChannel
  BY <1>36 DEF DisableChannel, Fired
<1>37. CASE DisCas
  BY <1>37 DEF DisCas, Fired
<1>38. CASE DisDec
  BY <1>38 DEF DisDec, Disabled
<1>39. CASE DisableTimer
  BY <1>39 DEF DisableTimer, Fired
<1>40. CASE DisableSkip
  BY <1>40 DEF DisableSkip, Fired
<1>41. CASE AltEnd
  BY <1>41 DEF AltEnd
<1>42. CASE AltDec
  BY <1>42 DEF AltDec, Deschedule
<1>43. CASE Selected
  BY <1>43 DEF Selected
<1>44. CASE Trigger
  BY <1>44 DEF Trigger, Enqueue
<1>45. CASE Tick
  BY <1>45 DEF Tick
<1>46. CASE Expire
  BY <1>46 DEF Expire
<1> QED
  BY <1>7, <1>8, <1>9, <1>10, <1>11, <1>12, <1>13, <1>14, <1>15, <1>16, <1>17, <1>18,
     <1>19, <1>20, <1>21, <1>22, <1>23, <1>24, <1>25, <1>26, <1>27, <1>28, <1>29,
     <1>30, <1>31, <1>32, <1>33, <1>34, <1>35, <1>36, <1>37, <1>38, <1>39, <1>40,
     <1>41, <1>42, <1>43, <1>44, <1>45, <1>46
     DEF Next, ReaderStep, WriterStep, Begin, Enabling, AltWait, Disabling, Extended, Io

(* Outside an ALT nothing is tagged, but by an extended input.              *)
LEMMA NothingTagged ==
    ASSUME AInv, pc[Reader] \notin EnablePcs \cup WaitPcs \cup DisablePcs \cup {"xRestore", "xin"}
    PROVE  NTags = 0 /\ node # Tagged
<1>1. \A g : ~OnOffer(g)
  BY DEF OnOffer, Left, EnablePcs, WaitPcs, DisablePcs
<1>2. Tags = {} /\ node # Tagged
  BY <1>1, Distinct DEF AInv, Words, TimerNode, Tags
<1> QED
  BY <1>2, FS_EmptySet DEF NTags

(* The count of the State word.                                             *)
LEMMA CountsStep == AInv /\ [Next]_vars => Counts'
<1> SUFFICES ASSUME AInv, [Next]_vars PROVE Counts'
  OBVIOUS
<1>1. TypeOK /\ Indices /\ Writers /\ Words /\ ReaderIo /\ JumpsWhenReady /\ TimerNode /\ Counts
  BY DEF AInv
<1>2. Guards' = Guards /\ Client' = Client
  BY ProgramKept
<1>3. TypeOK'
  BY TypeOKStep
<1>4. pc[Reader] \in DisablePcs /\ DisableNext =>
           /\ i' \in 1..hi /\ pc'[Reader] \in {"altend", "disable"}
           /\ pc' = [pc EXCEPT ![Reader] = pc'[Reader]]
           /\ pc'[Reader] = "altend" => i = IF Client = "occam" THEN 1 ELSE hi
           /\ pc'[Reader] = "disable" => i' = IF Client = "occam" THEN i - 1 ELSE i + 1
  BY <1>1, NextGuard
<1>5. AfterReady => StartDisable(i)
  BY <1>1, Program DEF AfterReady, JumpsWhenReady
<1>6. pend > 0 =>
           pc[Reader] \notin {"top", "io", "ioSwap", "ioTake", "ioCopy", "xSwap", "xRestore", "xend"}
  BY DEF AInv, Counts, InAlt
<1>7. NTags \in Nat /\ NTags' \in Nat /\ (chan' = chan => NTags' = NTags)
  BY TagsFinite DEF NTags, Tags
<1>8. \A c \in Chans : (\A d \in Chans : d # c => chan'[d] = chan[d]) =>
          NTags' = NTags - Count(chan[c] = Tagged) + Count(chan'[c] = Tagged)
  BY TagCount
<1>9. /\ InAlt => /\ slot \in States
                  /\ slot.n = 1 + pend + NTags + Count(Armed)
                              - Count(pc[Reader] \in {"enbInc", "enbRestore"})
                              + Count(pc[Reader] = "disDec")
      /\ pend > 0 => slot \in States /\ slot.n > 0
      /\ slot \in States => slot.n \in Nat /\ slot.flags \subseteq Flags
  BY SlotFacts
<1>10. pc[Reader] \notin EnablePcs \cup WaitPcs \cup DisablePcs \cup {"xRestore", "xin"} =>
           NTags = 0 /\ node # Tagged
  BY NothingTagged
<1>11. IsState(slot') <=> slot' \in States
  BY <1>3, StateWord DEF TypeOK
<1>12. ASSUME InAlt', slot' \in States,
               slot'.n = 1 + pend' + NTags' + Count(Armed')
                           - Count(pc'[Reader] \in {"enbInc", "enbRestore"})
                           + Count(pc'[Reader] = "disDec"),
               "WAITING" \in slot'.flags <=> run'[Reader] = "descheduled",
               pc'[Reader] \in EnablePcs => "ENABLING" \in slot'.flags
        PROVE  Counts'
  BY <1>11, <1>12 DEF Counts, InAlt
<1>13. \A s \in States : Add(s, 1).n = s.n + 1 /\ Add(s, 1).flags = s.flags
       /\ Add(s, 1) \in States
  <2> SUFFICES ASSUME NEW s \in States
               PROVE  Add(s, 1).n = s.n + 1 /\ Add(s, 1).flags = s.flags /\ Add(s, 1) \in States
    OBVIOUS
  <2>1. s.n \in Nat
    BY DEF States
  <2> QED
    BY <2>1, StateOps
<1> USE DEF TypeOK, Procs, Indices, Counts, Guard, Count, Armed, InAlt, EnablePcs, WaitPcs,
            DisablePcs
<1>14. CASE UNCHANGED vars
  BY <1>14, <1>1, <1>2, <1>3, <1>4, <1>5, <1>6, <1>7, <1>9, <1>10, <1>11, Distinct
     DEF vars, altvars, ghosts
<1>15. CASE IoRead(Reader)
  BY <1>15, <1>1, <1>2, <1>3, <1>4, <1>5, <1>6, <1>7, <1>9, <1>10, <1>11, Distinct
     DEF IoRead, altvars, ghosts, At, Goto, IoChan
<1>16. CASE IoSwap(Reader)
  <2>1. chan[cur] # Tagged /\ pc[Reader] = "ioSwap"
    BY <1>16, <1>1, Distinct DEF IoSwap, IoChan, At, ReaderIo
  <2> QED
    BY <1>16, <2>1, <1>1, <1>2, <1>3, <1>4, <1>5, <1>6, <1>7, <1>9, <1>10, <1>11, Distinct
       DEF IoSwap, IoChan, Deschedule, altvars, ghosts, At, Goto
<1>17. CASE IoTake(Reader)
  BY <1>17, <1>1, <1>2, <1>3, <1>4, <1>5, <1>6, <1>7, <1>9, <1>10, <1>11, Distinct, <1>8
     DEF IoTake, altvars, ghosts, At, Goto, IoChan
<1>18. CASE IoCopy(Reader)
  BY <1>18, <1>1, <1>2, <1>3, <1>4, <1>5, <1>6, <1>7, <1>9, <1>10, <1>11, Distinct
     DEF IoCopy, altvars, ghosts, At, Goto, IoChan, Transfer, Enqueue
<1>19. ASSUME NEW c \in Chans, IoRead(c) PROVE Counts'
  <2>1. slot' = slot /\ pend' = pend /\ run' = run /\ chan' = chan /\ pc'[Reader] = pc[Reader]
        /\ Armed' = Armed /\ InAlt' = InAlt
    BY <1>19, <1>1, Distinct DEF IoRead, Goto, TypeOK, Procs, Armed, InAlt
  <2> QED
    BY <2>1, <1>1, <1>7, <1>11
<1>20. ASSUME NEW c \in Chans, IoSwap(c) PROVE Counts'
  <2>1. NTags' = IF chan[c] = Tagged THEN NTags - 1 ELSE NTags
    BY <1>20, <1>1, <1>7, <1>8, Distinct DEF IoSwap, IoChan
  <2>2. chan[c] = Tagged => InAlt \/ (pc[Reader] = "xin" /\ run[Reader] = "descheduled")
    BY <1>20, <1>1, OfferInAlt, Distinct DEF IoSwap, IoChan, At, Words, Writers, Holds
  <2>3. pc'[Reader] = pc[Reader] /\ run'[Reader] = run[Reader] /\ slot' = slot
    BY <1>20, <1>1, Distinct DEF IoSwap, Goto, Deschedule, TypeOK, Procs
  <2>4. pend' = IF chan[c] = Tagged THEN pend + 1 ELSE pend
    BY <1>20, Distinct DEF IoSwap, IoChan
  <2>5. Armed' = Armed /\ InAlt' = InAlt
    BY <1>20, <2>3 DEF IoSwap, Armed, InAlt
  <2> QED
    BY <1>20, <2>1, <2>2, <2>3, <2>4, <2>5,
       <1>1, <1>2, <1>3, <1>4, <1>5, <1>6, <1>7, <1>9, <1>10, <1>11, Distinct
          DEF IoSwap, IoChan, Deschedule, altvars, ghosts, At, Goto
<1>21. ASSUME NEW c \in Chans, IoTake(c) PROVE Counts'
  <2>1. pc[Reader] = "top"
    BY <1>21, <1>1 DEF IoTake, At, Writers, Awaits
  <2> QED
    BY <1>21, <2>1, <1>1, <1>2, <1>3, <1>4, <1>5, <1>6, <1>7, <1>9, <1>10, <1>11, Distinct
       DEF IoTake, IoChan, altvars, ghosts, At, Goto
<1>22. ASSUME NEW c \in Chans, IoCopy(c) PROVE Counts'
  <2>1. pc[Reader] = "top"
    BY <1>22, <1>1 DEF IoCopy, At, Writers, Awaits
  <2> QED
    BY <1>22, <2>1, <1>1, <1>2, <1>3, <1>4, <1>5, <1>6, <1>7, <1>9, <1>10, <1>11, Distinct
       DEF IoCopy, IoChan, Transfer, Enqueue, altvars, ghosts, At, Goto
<1>23. ASSUME NEW c \in Chans, Output(c) PROVE Counts'
  BY <1>23, <1>1, <1>2, <1>3, <1>4, <1>5, <1>6, <1>7, <1>9, <1>10, <1>11, Distinct
     DEF Output, altvars, ghosts, At, Goto
<1>24. ASSUME NEW c \in Chans, Input(c) PROVE Counts'
  BY <1>24, <1>1, <1>2, <1>3, <1>4, <1>5, <1>6, <1>7, <1>9, <1>10, <1>11, Distinct
     DEF Input, altvars, ghosts, At, Goto
<1>25. ASSUME NEW c \in Chans, Xable(c) PROVE Counts'
  BY <1>25, <1>1, <1>2, <1>3, <1>4, <1>5, <1>6, <1>7, <1>9, <1>10, <1>11, Distinct,
     FixedStates DEF Xable, altvars, ghosts, At, Goto
<1>26. CASE XSwap
  BY <1>26, <1>1, <1>2, <1>3, <1>4, <1>5, <1>6, <1>7, <1>9, <1>10, <1>11, Distinct, <1>8
     DEF XSwap, altvars, ghosts, At, Goto, Deschedule
<1>27. CASE XRestore
  BY <1>27, <1>1, <1>2, <1>3, <1>4, <1>5, <1>6, <1>7, <1>9, <1>10, <1>11, Distinct, <1>8
     DEF XRestore, altvars, ghosts, At, Goto
<1>28. CASE Xin
  BY <1>28, <1>1, <1>2, <1>3, <1>4, <1>5, <1>6, <1>7, <1>9, <1>10, <1>11, Distinct
     DEF Xin, altvars, ghosts, At, Goto, Transfer
<1>29. CASE Xend
  BY <1>29, <1>1, <1>2, <1>3, <1>4, <1>5, <1>6, <1>7, <1>9, <1>10, <1>11, Distinct, <1>8
     DEF Xend, altvars, ghosts, At, Goto, Enqueue
<1>30. CASE Alt
  BY <1>30, <1>1, <1>2, <1>3, <1>4, <1>5, <1>6, <1>7, <1>9, <1>10, <1>11, Distinct,
     FixedStates DEF Alt, altvars, ghosts, At, Goto
<1>31. CASE EnableChannel
  BY <1>31, <1>1, <1>2, <1>3, <1>4, <1>5, <1>6, <1>7, <1>9, <1>10, <1>11, Distinct
     DEF EnableChannel, altvars, ghosts, At, Goto, EnableDone
<1>32. CASE EnableTimer
  <2>1. /\ InAlt /\ InAlt' /\ pc[Reader] = "enable" /\ run' = run /\ pend' = pend
           /\ slot' = slot /\ chan' = chan
        /\ pc'[Reader] \in {"enable", "enbReady", "wait"} /\ Armed' = Armed
    BY <1>32, <1>1 DEF EnableTimer, EnableDone, TypeOK, Procs, InAlt, Armed, altvars, At, Goto
  <2>2. /\ "WAITING" \in slot.flags <=> run[Reader] = "descheduled"
        /\ "ENABLING" \in slot.flags
    BY <2>1, <1>1 DEF Counts, EnablePcs
  <2>3. pend \in Nat /\ Count(Armed) \in Nat
    BY <1>1 DEF TypeOK, Count
  <2> HIDE DEF Counts, InAlt, TypeOK, Indices
  <2> QED
    BY <2>1, <2>2, <2>3, <1>7, <1>9, <1>12 DEF Count
<1>33. CASE EnableSkip
  BY <1>33, <1>1, <1>2, <1>3, <1>4, <1>5, <1>6, <1>7, <1>9, <1>10, <1>11, Distinct
     DEF EnableSkip, altvars, ghosts, At, Goto
<1>34. CASE EnbSwap
  <2>1. NTags' = NTags + 1
    BY <1>34, <1>1, <1>7, <1>8, Distinct DEF EnbSwap, At, ReaderIo, Indices, Guard
  <2>2. InAlt /\ pc[Reader] = "enbSwap" /\ pc'[Reader] \in {"enbInc", "enbRestore"}
        /\ slot' = slot /\ run' = run
    BY <1>34, <1>1 DEF EnbSwap, At, Goto, InAlt, TypeOK, Procs
  <2> QED
    BY <1>34, <2>1, <2>2,
       <1>1, <1>2, <1>3, <1>4, <1>5, <1>6, <1>7, <1>9, <1>10, <1>11, Distinct
          DEF EnbSwap, altvars, ghosts, At, Goto
<1>35. CASE EnbInc
  <2>1. slot' \in States /\ slot'.n = slot.n + 1 /\ slot'.flags = slot.flags
    BY <1>35, <1>9, StateOps DEF EnbInc, At, InAlt
  <2> QED
    BY <1>35, <2>1, <1>1, <1>2, <1>3, <1>4, <1>5, <1>6, <1>7, <1>9, <1>10, <1>11, Distinct
       DEF EnbInc, EnableDone, altvars, ghosts, At, Goto
<1>36. CASE EnbRestore
  <2>1. NTags' = NTags - 1
    BY <1>36, <1>1, <1>7, <1>8, Distinct DEF EnbRestore, At, ReaderIo, Indices, Guard
  <2>2. InAlt /\ pc[Reader] = "enbRestore" /\ pc'[Reader] = "enbReady" /\ slot' = slot
        /\ run' = run /\ pend' = pend /\ Armed' = Armed
    BY <1>36, <1>1 DEF EnbRestore, At, Goto, InAlt, TypeOK, Procs, Armed
  <2>3. Count(Armed) \in {0, 1} /\ Count(Armed') = Count(Armed) /\ Count(Armed)' = Count(Armed)
    BY <2>2 DEF Count
  <2>4. slot.n = pend + NTags + Count(Armed)
    BY <2>2, <2>3, <1>1, <1>7, <1>9 DEF TypeOK, Count
  <2>5. slot'.n = (1 + pend + NTags + Count(Armed)
                   - Count(pc[Reader] \in {"enbInc", "enbRestore"}) + Count(pc[Reader] = "disDec"))'
    BY <2>1, <2>2, <2>3, <2>4, <1>1, <1>7 DEF TypeOK, Count
  <2>6. slot' \in States /\ ("WAITING" \in slot'.flags <=> run'[Reader] = "descheduled")
        /\ "ENABLING" \in slot'.flags
    BY <2>2, <1>1, <1>9 DEF Counts, EnablePcs
  <2> QED
    BY <1>36, <2>1, <2>2, <2>3, <2>4, <2>5, <2>6,
       <1>1, <1>2, <1>3, <1>4, <1>5, <1>6, <1>7, <1>9, <1>10, <1>11, Distinct
          DEF EnbRestore, altvars, ghosts, At, Goto
<1>37. CASE EnbReady
  BY <1>37, <1>1, <1>2, <1>3, <1>4, <1>5, <1>6, <1>7, <1>9, <1>10, <1>11, Distinct
     DEF EnbReady, altvars, ghosts, At, Goto, StartDisable
<1>38. CASE EnbClear
  <2>1. slot' \in States /\ slot'.n = slot.n /\ slot'.flags = slot.flags \ Clear
    BY <1>38, <1>9, StateOps DEF EnbClear, At, InAlt
  <2> QED
    BY <1>38, <2>1, <1>1, <1>2, <1>3, <1>4, <1>5, <1>6, <1>7, <1>9, <1>10, <1>11, Distinct
       DEF EnbClear, StartDisable, Clear, altvars, ghosts, At, Goto
<1>39. CASE Wait
  <2>1. node # Tagged /\ ~Armed /\ ~Armed'
    BY <1>39, <1>1, <1>3, Distinct DEF Wait, TimerNode, At, Goto
  <2> QED
    BY <1>39, <2>1, <1>1, <1>2, <1>3, <1>4, <1>5, <1>6, <1>7, <1>9, <1>10, <1>11, Distinct
       DEF Wait, altvars, ghosts, At, Goto
<1>40. CASE WaitCas
  <2>1. slot \in States /\ Waiting(slot) \in States
    BY <1>40, <1>9, StateOps DEF WaitCas, At, InAlt
  <2>2. Waiting(slot).n = slot.n /\ "WAITING" \in Waiting(slot).flags /\ slot.n \in Nat
    BY <1>40, <2>1, <1>9, StateOps DEF Clear
  <2>3. /\ Add(Waiting(slot), 1).n = slot.n + 1
           /\ Add(Waiting(slot), 1).flags = Waiting(slot).flags
        /\ Add(Waiting(slot), 1) \in States
    BY <2>1, <2>2, <1>13
  <2>4. /\ slot' \in States /\ "WAITING" \in slot'.flags
        /\ slot'.n = IF tlink = "node" THEN slot.n + 1 ELSE slot.n
    BY <1>40, <2>1, <2>2, <2>3 DEF WaitCas
  <2>5. /\ InAlt /\ InAlt' /\ pc[Reader] = "waitCas" /\ pc'[Reader] = "disable"
           /\ run'[Reader] = "descheduled"
        /\ pend' = pend /\ chan' = chan
    BY <1>40, <1>1 DEF WaitCas, StartDisable, Deschedule, TypeOK, Procs, InAlt, Armed,
       altvars, At, Goto
  <2>6. ~Armed /\ (Armed' <=> tlink = "node")
    BY <1>40, <2>5, <1>1, Distinct DEF WaitCas, TimerNode, TypeOK, Armed
  <2>7. pend \in Nat /\ pc'[Reader] \notin EnablePcs
    BY <2>5, <1>1 DEF TypeOK, EnablePcs
  <2> HIDE DEF Counts, InAlt, TypeOK, Indices
  <2> QED
    BY <2>1, <2>2, <2>3, <2>4, <2>5, <2>6, <2>7, <1>7, <1>9, <1>12 DEF Count
<1>41. CASE WaitCasFails
  BY <1>41, <1>1, <1>2, <1>3, <1>4, <1>5, <1>6, <1>7, <1>9, <1>10, <1>11, Distinct
     DEF WaitCasFails, altvars, ghosts, At, Goto
<1>42. CASE WaitOut
  <2>1. slot' \in States /\ slot'.n = slot.n
        /\ ("WAITING" \in slot'.flags <=> "WAITING" \in slot.flags)
    BY <1>42, <1>9, StateOps DEF WaitOut, At, InAlt, Clear
  <2> QED
    BY <1>42, <2>1, <1>1, <1>2, <1>3, <1>4, <1>5, <1>6, <1>7, <1>9, <1>10, <1>11, Distinct
       DEF WaitOut, StartDisable, altvars, ghosts, At, Goto
<1>43. CASE DisableChannel
  BY <1>43, <1>1, <1>2, <1>3, <1>4, <1>5, <1>6, <1>7, <1>9, <1>10, <1>11, Distinct
     DEF DisableChannel, altvars, ghosts, At, Goto, Fired
<1>44. CASE DisCas
  <2>1. NTags' = IF chan[Guard] = Tagged THEN NTags - 1 ELSE NTags
    BY <1>44, <1>1, <1>7, <1>8, Distinct DEF DisCas, At, Indices, Guard
  <2>2. /\ InAlt /\ InAlt' /\ pc[Reader] = "disCas" /\ run' = run /\ pend' = pend
           /\ slot' = slot /\ Armed' = Armed
        /\ pc'[Reader] \in {"altend", "disable", "disDec"}
        /\ pc'[Reader] = "disDec" <=> chan[Guard] = Tagged
    BY <1>44, <1>1, <1>4 DEF DisCas, Fired, DisablePcs, TypeOK, Procs, InAlt, Armed, altvars,
       At, Goto
  <2>3. "WAITING" \in slot.flags <=> run[Reader] = "descheduled"
    BY <2>2, <1>1 DEF Counts
  <2>4. pend \in Nat /\ Count(Armed) \in Nat
    BY <1>1 DEF TypeOK, Count
  <2> HIDE DEF Counts, InAlt, TypeOK, Indices
  <2> QED
    BY <2>1, <2>2, <2>3, <2>4, <1>7, <1>9, <1>12 DEF Count
<1>45. CASE DisDec
  <2>1. slot' \in States /\ slot'.n = slot.n - 1 /\ slot'.flags = slot.flags
    BY <1>45, SlotFacts, StateOps DEF DisDec, Disabled, At, InAlt
  <2>2. /\ InAlt /\ InAlt' /\ pc[Reader] = "disDec" /\ pc'[Reader] \in {"altend", "disable"}
        /\ run' = run /\ pend' = pend /\ chan' = chan /\ Armed' = Armed
    BY <1>45, <1>4 DEF DisDec, TypeOK, Procs, InAlt, Armed, altvars, At, Goto
  <2>3. "WAITING" \in slot.flags <=> run[Reader] = "descheduled"
    BY <2>2, <1>1 DEF Counts
  <2>4. pend \in Nat /\ Count(Armed) \in Nat
    BY <1>1 DEF TypeOK, Count
  <2> HIDE DEF Counts, InAlt, TypeOK, Indices
  <2> QED
    BY <2>1, <2>2, <2>3, <2>4, <1>7, <1>9, <1>12 DEF Count
<1>46. CASE DisableTimer
  <2>1. /\ InAlt /\ InAlt' /\ pc[Reader] = "disable" /\ run' = run /\ pend' = pend
           /\ slot' = slot /\ chan' = chan
        /\ pc'[Reader] \in {"altend", "disable", "disDec"}
    BY <1>46, <1>1, <1>4 DEF DisableTimer, Fired, DisablePcs, TypeOK, Procs, InAlt, Armed,
       altvars, At, Goto
  <2>2. /\ pc'[Reader] = "disDec" => Armed /\ ~Armed'
        /\ pc'[Reader] # "disDec" => Armed' = Armed
    BY <1>46, <1>1, <1>4, Distinct DEF DisableTimer, Fired, DisablePcs, TypeOK, Procs, InAlt,
       Armed, altvars, At, Goto
  <2>3. "WAITING" \in slot.flags <=> run[Reader] = "descheduled"
    BY <2>1, <1>1 DEF Counts
  <2>4. pend \in Nat /\ Count(Armed) \in Nat
    BY <1>1 DEF TypeOK, Count
  <2> HIDE DEF Counts, InAlt, TypeOK, Indices
  <2> QED
    BY <2>1, <2>2, <2>3, <2>4, <1>7, <1>9, <1>12 DEF Count
<1>47. CASE DisableSkip
  BY <1>47, <1>1, <1>2, <1>3, <1>4, <1>5, <1>6, <1>7, <1>9, <1>10, <1>11, Distinct
     DEF DisableSkip, altvars, ghosts, At, Goto, Fired
<1>48. CASE AltEnd
  BY <1>48, <1>1, <1>2, <1>3, <1>4, <1>5, <1>6, <1>7, <1>9, <1>10, <1>11, Distinct,
     StateWord DEF AltEnd, altvars, ghosts, At, Goto
<1>49. CASE AltDec
  <2>1. slot' \in States /\ slot'.n = slot.n - 1 /\ slot'.flags = slot.flags
    BY <1>49, SlotFacts, StateOps DEF AltDec, At, InAlt
  <2>2. slot' = Zero => slot'.n = 0
    BY FixedStates
  <2> QED
    BY <1>49, <2>1, <2>2,
       <1>1, <1>2, <1>3, <1>4, <1>5, <1>6, <1>7, <1>9, <1>10, <1>11, Distinct
          DEF AltDec, Deschedule, altvars, ghosts, At, Goto
<1>50. CASE Selected
  BY <1>50, <1>1, <1>2, <1>3, <1>4, <1>5, <1>6, <1>7, <1>9, <1>10, <1>11, Distinct
     DEF Selected, altvars, ghosts, At, Goto
<1>51. CASE Trigger
  <2>1. slot' \in States /\ slot'.n = slot.n - 1
        /\ slot'.flags = slot.flags \ {"NOT_READY", "WAITING"}
    BY <1>51, <1>9, StateOps DEF Trigger
  <2>2. slot' = Zero => slot'.n = 0 /\ slot'.flags = {}
    BY FixedStates
  <2>3. \/ run' = [run EXCEPT ![Reader] = "running"]
        \/ run' = run /\ "WAITING" \notin slot.flags /\ slot' # Zero
    BY <1>51 DEF Trigger, Enqueue
  <2>4. pc[Reader] = "xin" => pend = 1
    BY <1>51, <1>1, <1>7 DEF Trigger, ReaderIo
  <2>5. InAlt => ~(pc[Reader] \in {"xin", "selected"})
    BY DEF InAlt
  <2>6. pend' = pend - 1 /\ pc' = pc /\ NTags' = NTags /\ Armed' = Armed
    BY <1>51, <1>7 DEF Trigger, altvars
  <2> QED
    BY <1>51, <2>1, <2>2, <2>3, <2>4, <2>5, <2>6,
       <1>1, <1>2, <1>3, <1>4, <1>5, <1>6, <1>7, <1>9, <1>10, <1>11, Distinct
          DEF Trigger, Enqueue, altvars, ghosts
<1>52. CASE Tick
  BY <1>52, <1>1, <1>2, <1>3, <1>4, <1>5, <1>6, <1>7, <1>9, <1>10, <1>11, Distinct
     DEF Tick, altvars, ghosts, At, Goto
<1>53. CASE Expire
  <2>1. InAlt /\ Armed /\ ~Armed'
    BY <1>53, <1>1, OfferInAlt, Distinct DEF Expire, TimerNode
  <2> QED
    BY <1>53, <2>1, <1>1, <1>2, <1>3, <1>4, <1>5, <1>6, <1>7, <1>9, <1>10, <1>11, Distinct
       DEF Expire, altvars, ghosts, At, Goto
<1> QED
  BY <1>14, <1>15, <1>16, <1>17, <1>18, <1>19, <1>20, <1>21, <1>22, <1>23, <1>24,
     <1>25, <1>26, <1>27, <1>28, <1>29, <1>30, <1>31, <1>32, <1>33, <1>34, <1>35,
     <1>36, <1>37, <1>38, <1>39, <1>40, <1>41, <1>42, <1>43, <1>44, <1>45, <1>46,
     <1>47, <1>48, <1>49, <1>50, <1>51, <1>52, <1>53
     DEF Next, ReaderStep, WriterStep, Begin, Enabling, AltWait, Disabling, Extended, Io

(* Whoever is put on a run queue is descheduled.                            *)
LEMMA AgainStep == AInv /\ [Next]_vars => ~again'
<1> SUFFICES ASSUME AInv, [Next]_vars PROVE ~again'
  OBVIOUS
<1>1. TypeOK /\ Indices /\ Writers /\ Words /\ ReaderIo /\ TimerNode /\ Counts /\ ~again
  BY DEF AInv
<1>2. pend > 0 => slot \in States /\ slot.n > 0
  BY SlotFacts
<1>3. slot \in States => slot.n \in Nat /\ slot.flags \subseteq Flags
  BY SlotFacts
<1> USE <1>1, Distinct
<1> USE DEF altvars, ghosts, At, Goto, IoChan
<1>4. CASE UNCHANGED vars
  BY <1>4 DEF vars
<1>5. CASE IoRead(Reader)
  BY <1>5 DEF IoRead
<1>6. CASE IoSwap(Reader)
  BY <1>6 DEF IoSwap, Deschedule
<1>7. CASE IoTake(Reader)
  BY <1>7 DEF IoTake
<1>8. CASE IoCopy(Reader)
  BY <1>8 DEF IoCopy, Transfer, Enqueue, Writers, Awaits, Holds, TypeOK
<1>9. ASSUME NEW c \in Chans, IoRead(c) PROVE ~again'
  BY <1>9 DEF IoRead
<1>10. ASSUME NEW c \in Chans, IoSwap(c) PROVE ~again'
  BY <1>10 DEF IoSwap, Deschedule
<1>11. ASSUME NEW c \in Chans, IoTake(c) PROVE ~again'
  BY <1>11 DEF IoTake
<1>12. ASSUME NEW c \in Chans, IoCopy(c) PROVE ~again'
  BY <1>12 DEF IoCopy, Transfer, Enqueue, Writers, Awaits, Holds, TypeOK
<1>13. ASSUME NEW c \in Chans, Output(c) PROVE ~again'
  BY <1>13 DEF Output
<1>14. ASSUME NEW c \in Chans, Input(c) PROVE ~again'
  BY <1>14 DEF Input
<1>15. ASSUME NEW c \in Chans, Xable(c) PROVE ~again'
  BY <1>15 DEF Xable
<1>16. CASE XSwap
  BY <1>16 DEF XSwap, Deschedule
<1>17. CASE XRestore
  BY <1>17 DEF XRestore
<1>18. CASE Xin
  BY <1>18 DEF Xin, Transfer
<1>19. CASE Xend
  BY <1>19 DEF Xend, Enqueue, Writers, Holds, ReaderIo, Awaits, TypeOK
<1>20. CASE Alt
  BY <1>20 DEF Alt
<1>21. CASE EnableChannel
  BY <1>21 DEF EnableChannel, EnableDone
<1>22. CASE EnableTimer
  BY <1>22 DEF EnableTimer, EnableDone
<1>23. CASE EnableSkip
  BY <1>23 DEF EnableSkip
<1>24. CASE EnbSwap
  BY <1>24 DEF EnbSwap
<1>25. CASE EnbInc
  BY <1>25 DEF EnbInc, EnableDone
<1>26. CASE EnbRestore
  BY <1>26 DEF EnbRestore
<1>27. CASE EnbReady
  BY <1>27 DEF EnbReady, StartDisable
<1>28. CASE EnbClear
  BY <1>28 DEF EnbClear, StartDisable
<1>29. CASE Wait
  BY <1>29 DEF Wait
<1>30. CASE WaitCas
  BY <1>30 DEF WaitCas, StartDisable, Deschedule
<1>31. CASE WaitCasFails
  BY <1>31 DEF WaitCasFails
<1>32. CASE WaitOut
  BY <1>32 DEF WaitOut, StartDisable
<1>33. CASE DisableChannel
  BY <1>33 DEF DisableChannel, Fired
<1>34. CASE DisCas
  BY <1>34 DEF DisCas, Fired
<1>35. CASE DisDec
  BY <1>35 DEF DisDec, Disabled
<1>36. CASE DisableTimer
  BY <1>36 DEF DisableTimer, Fired
<1>37. CASE DisableSkip
  BY <1>37 DEF DisableSkip, Fired
<1>38. CASE AltEnd
  BY <1>38 DEF AltEnd
<1>39. CASE AltDec
  BY <1>39 DEF AltDec, Deschedule
<1>40. CASE Selected
  BY <1>40 DEF Selected
<1>41. CASE Trigger
  <2>1. CASE "WAITING" \in slot.flags
    <3>1. run[Reader] = "descheduled"
      BY <1>41, <2>1, <1>2, StateWord DEF Counts, Trigger, ReaderIo, TypeOK
    <3> QED
      BY <1>41, <3>1 DEF Trigger, Enqueue
  <2>2. CASE Triggered(slot) = Zero
    <3>1. slot \in States /\ slot.n = 1 /\ slot.flags \subseteq {"NOT_READY", "WAITING"}
      <4>1. slot \in States /\ slot.n \in Nat
        BY <1>41, <1>2, <1>3 DEF Trigger
      <4>2. Triggered(slot).n = slot.n - 1
        BY <4>1, StateOps
      <4>3. Triggered(slot).flags = slot.flags \ {"NOT_READY", "WAITING"}
        BY <4>1, StateOps
      <4> QED
        BY <2>2, <4>1, <4>2, <4>3, FixedStates
    <3>2. ~InAlt
      <4>1. SUFFICES ASSUME InAlt PROVE FALSE
        OBVIOUS
      <4>2. CASE pc[Reader] \in {"enbInc", "enbRestore"}
        BY <4>2, <3>1 DEF Counts, EnablePcs
      <4>3. CASE pc[Reader] \notin {"enbInc", "enbRestore"}
        <5>1. slot.n > pend
          BY <4>1, <4>3, SlotFacts
        <5> QED
          BY <1>41, <5>1, <3>1, SlotFacts DEF Trigger
      <4> QED
        BY <4>2, <4>3
    <3>3. run[Reader] = "descheduled"
      BY <1>41, <3>1, <3>2 DEF Counts, Trigger, TypeOK
    <3> QED
      BY <1>41, <3>3 DEF Trigger, Enqueue
  <2>3. CASE "WAITING" \notin slot.flags /\ Triggered(slot) # Zero
    BY <1>41, <2>3 DEF Trigger
  <2> QED
    BY <2>1, <2>2, <2>3
<1>42. CASE Tick
  BY <1>42 DEF Tick
<1>43. CASE Expire
  BY <1>43 DEF Expire
<1> QED
  BY <1>4, <1>5, <1>6, <1>7, <1>8, <1>9, <1>10, <1>11, <1>12, <1>13, <1>14, <1>15,
     <1>16, <1>17, <1>18, <1>19, <1>20, <1>21, <1>22, <1>23, <1>24, <1>25, <1>26,
     <1>27, <1>28, <1>29, <1>30, <1>31, <1>32, <1>33, <1>34, <1>35, <1>36, <1>37,
     <1>38, <1>39, <1>40, <1>41, <1>42, <1>43
     DEF Next, ReaderStep, WriterStep, Begin, Enabling, AltWait, Disabling, Extended, Io

(* Nothing has happened at the start.                                       *)
LEMMA InitAInv == Init /\ JumpsWhenReady => AInv
<1> SUFFICES ASSUME Init, JumpsWhenReady PROVE AInv
  OBVIOUS
<1>1. TypeOK
  <2>1. prog \in Alts
    BY DEF Init
  <2>2. Len(Guards) \in Nat /\ Len(Guards) > 0
    BY <2>1, AltsAssumption DEF Guards
  <2>3. cur \in Chans
    BY ChansAssumption DEF Init
  <2>4. /\ chan \in [Chans -> Procs \cup {NP, Tagged}]
           /\ run \in [Procs -> {"running", "descheduled"}]
        /\ pc \in [Procs -> Labels] /\ sent \in [Chans -> {0, 1}] /\ rec \in [Chans -> {0, 1}]
        /\ \A c \in Chans : chan[c] \in {NP, Reader, Tagged, c}
    BY DEF Init, Procs, Labels
  <2>5. slot \in SlotWords /\ saved \in SlotWords
    BY FixedStates DEF Init
  <2>6. pend \in Nat /\ i \in 1..(Len(Guards) + 1) /\ hi \in 0..Len(Guards)
    BY <2>2 DEF Init
  <2>7. temp \in (DOMAIN Guards) \cup {NoneSelected, Stale}
    BY DEF Init
  <2>8. due \in BOOLEAN /\ now \in BOOLEAN /\ again \in BOOLEAN
    BY DEF Init
  <2> QED
    BY <2>1, <2>3, <2>4, <2>5, <2>6, <2>7, <2>8 DEF Init, TypeOK
<1>2. Indices /\ Writers /\ Words /\ ReaderIo /\ Counts /\ TimerNode /\ Outputs /\ ~again
  BY ChansAssumption, Distinct DEF Init, Indices, EnablePcs, WaitPcs, DisablePcs, Writers,
     Holds, Words,
     ReaderIo, Awaits, Counts, InAlt, TimerNode, Outputs, Procs
<1> QED
  BY <1>1, <1>2 DEF AInv

(* Every step keeps the invariant.                                          *)
LEMMA NextAInv == AInv /\ [Next]_vars => AInv'
<1> SUFFICES ASSUME AInv, [Next]_vars PROVE AInv'
  OBVIOUS
<1>1. JumpsWhenReady'
  BY ProgramKept DEF AInv, JumpsWhenReady
<1> QED
  BY <1>1, TypeOKStep, IndicesStep, WritersStep, WordsStep, ReaderIoStep, CountsStep,
     TimerNodeStep,
     OutputsStep, AgainStep DEF AInv

(* The program never becomes another one, and while it is not raw the state *)
(* keeps the whole invariant.                                               *)
THEOREM AltInvariance == Spec => [](JumpsWhenReady => AInv)
<1>1. Init => (JumpsWhenReady => AInv)
  BY InitAInv
<1>2. (JumpsWhenReady => AInv) /\ [Next]_vars => (JumpsWhenReady => AInv)'
  BY ProgramKept, NextAInv DEF JumpsWhenReady
<1> QED
  BY <1>1, <1>2, PTL DEF Spec

(* enqueue_process is never called for a process that runs or is on a run   *)
(* queue: whoever puts the reader or a writer there (trigger_alt_guard,     *)
(* kernel_chan_io, xend) has found it descheduled, in a channel word, a     *)
(* timer node or with ALT_WAITING set.                                      *)
THEOREM ScheduledOnce == Spec => [](JumpsWhenReady => NeverScheduledTwice)
<1>1. (JumpsWhenReady => AInv) => (JumpsWhenReady => NeverScheduledTwice)
  BY DEF AInv, NeverScheduledTwice
<1> QED
  BY <1>1, AltInvariance, PTL

(* trigger_alt_guard never subtracts its 1 from a buffer address, or from a *)
(* State that does not count it: the State of an ALT counts the process,    *)
(* the tagged channels, the armed timer and the triggers under way,         *)
(* exactly.                                                                 *)
THEOREM TriggersFindState == Spec => [](JumpsWhenReady => TriggerFindsState)
<1>1. ASSUME AInv PROVE TriggerFindsState
  <2>1. pend > 0 => IsState(slot) /\ slot.n > 0
    BY <1>1, SlotFacts, StateWord
  <2>2. InAlt => slot.n = 1 + pend + NTags + Count(Armed)
                         - Count(pc[Reader] \in {"enbInc", "enbRestore"})
                         + Count(pc[Reader] = "disDec")
    BY <1>1, SlotFacts
  <2> QED
    BY <2>1, <2>2 DEF TriggerFindsState, NTags, Tags, Armed
<1> QED
  BY <1>1, AltInvariance, PTL

(* kernel_chan_io and xin transfer each output once, before its writer is   *)
(* put on a run queue, and into the buffer that the reader gave for that    *)
(* channel.                                                                 *)
THEOREM TransferredOnce == Spec => [](JumpsWhenReady => ExactlyOnce)
<1>1. ASSUME AInv PROVE ExactlyOnce
  BY <1>1 DEF ExactlyOnce, AInv, Outputs, Writers, ReaderIo, Awaits, Holds, At
<1> QED
  BY <1>1, AltInvariance, PTL

(* A writer that waits in a channel on offer is left there.                 *)
ReadyKept ==
    pc[Reader] \in EnablePcs \cup WaitPcs \cup DisablePcs \cup EndPcs =>
        \A c \in Chans : chan[c] = c =>
            chan'[c] = c \/ (pc[Reader] = "enbSwap" /\ pc'[Reader] = "enbRestore" /\ Guard = c)

(* Writers wait.                                                            *)
LEMMA ReadyStep == AInv /\ [Next]_vars => ReadyKept
<1> SUFFICES ASSUME AInv, [Next]_vars PROVE ReadyKept
  OBVIOUS
<1>1. TypeOK /\ Indices /\ Writers /\ Words /\ ReaderIo /\ JumpsWhenReady /\ TimerNode /\ Counts
  BY DEF AInv
<1>2. Guards' = Guards /\ Client' = Client
  BY ProgramKept
<1>3. TypeOK'
  BY TypeOKStep
<1>4. pc[Reader] \in DisablePcs /\ DisableNext =>
           /\ i' \in 1..hi /\ pc'[Reader] \in {"altend", "disable"}
           /\ pc' = [pc EXCEPT ![Reader] = pc'[Reader]]
           /\ pc'[Reader] = "altend" => i = IF Client = "occam" THEN 1 ELSE hi
           /\ pc'[Reader] = "disable" => i' = IF Client = "occam" THEN i - 1 ELSE i + 1
  BY <1>1, NextGuard
<1>5. AfterReady => StartDisable(i)
  BY <1>1, Program DEF AfterReady, JumpsWhenReady
<1>6. pend > 0 =>
           pc[Reader] \notin {"top", "io", "ioSwap", "ioTake", "ioCopy", "xSwap", "xRestore", "xend"}
  BY DEF AInv, Counts, InAlt
<1> USE <1>1, <1>2, <1>3, <1>4, <1>5, <1>6, Distinct
<1> USE DEF TypeOK, Procs, Indices, ReadyKept, Writers, ReaderIo, Holds, Awaits, Guard,
            EnablePcs, WaitPcs, DisablePcs, EndPcs, altvars, ghosts, At, Goto, IoChan
<1>7. CASE UNCHANGED vars
  BY <1>7 DEF vars
<1>8. CASE IoRead(Reader)
  BY <1>8 DEF IoRead
<1>9. CASE IoSwap(Reader)
  BY <1>9 DEF IoSwap, Deschedule
<1>10. CASE IoTake(Reader)
  BY <1>10 DEF IoTake
<1>11. CASE IoCopy(Reader)
  BY <1>11 DEF IoCopy, Transfer, Enqueue
<1>12. ASSUME NEW c \in Chans, IoRead(c) PROVE ReadyKept
  BY <1>12 DEF IoRead
<1>13. ASSUME NEW c \in Chans, IoSwap(c) PROVE ReadyKept
  BY <1>13 DEF IoSwap, Deschedule
<1>14. ASSUME NEW c \in Chans, IoTake(c) PROVE ReadyKept
  BY <1>14 DEF IoTake
<1>15. ASSUME NEW c \in Chans, IoCopy(c) PROVE ReadyKept
  BY <1>15 DEF IoCopy, Transfer, Enqueue
<1>16. ASSUME NEW c \in Chans, Output(c) PROVE ReadyKept
  BY <1>16 DEF Output
<1>17. ASSUME NEW c \in Chans, Input(c) PROVE ReadyKept
  BY <1>17 DEF Input
<1>18. ASSUME NEW c \in Chans, Xable(c) PROVE ReadyKept
  BY <1>18 DEF Xable
<1>19. CASE XSwap
  BY <1>19 DEF XSwap, Deschedule
<1>20. CASE XRestore
  BY <1>20 DEF XRestore
<1>21. CASE Xin
  BY <1>21 DEF Xin, Transfer
<1>22. CASE Xend
  BY <1>22 DEF Xend, Enqueue
<1>23. CASE Alt
  BY <1>23 DEF Alt
<1>24. CASE EnableChannel
  BY <1>24 DEF EnableChannel, EnableDone
<1>25. CASE EnableTimer
  BY <1>25 DEF EnableTimer, EnableDone
<1>26. CASE EnableSkip
  BY <1>26 DEF EnableSkip
<1>27. CASE EnbSwap
  BY <1>27 DEF EnbSwap
<1>28. CASE EnbInc
  BY <1>28 DEF EnbInc, EnableDone
<1>29. CASE EnbRestore
  BY <1>29 DEF EnbRestore
<1>30. CASE EnbReady
  BY <1>30 DEF EnbReady, StartDisable
<1>31. CASE EnbClear
  BY <1>31 DEF EnbClear, StartDisable
<1>32. CASE Wait
  BY <1>32 DEF Wait
<1>33. CASE WaitCas
  BY <1>33 DEF WaitCas, StartDisable, Deschedule
<1>34. CASE WaitCasFails
  BY <1>34 DEF WaitCasFails
<1>35. CASE WaitOut
  BY <1>35 DEF WaitOut, StartDisable
<1>36. CASE DisableChannel
  BY <1>36 DEF DisableChannel, Fired
<1>37. CASE DisCas
  BY <1>37 DEF DisCas, Fired
<1>38. CASE DisDec
  BY <1>38 DEF DisDec, Disabled
<1>39. CASE DisableTimer
  BY <1>39 DEF DisableTimer, Fired
<1>40. CASE DisableSkip
  BY <1>40 DEF DisableSkip, Fired
<1>41. CASE AltEnd
  BY <1>41 DEF AltEnd
<1>42. CASE AltDec
  BY <1>42 DEF AltDec, Deschedule
<1>43. CASE Selected
  BY <1>43 DEF Selected
<1>44. CASE Trigger
  BY <1>44 DEF Trigger, Enqueue
<1>45. CASE Tick
  BY <1>45 DEF Tick
<1>46. CASE Expire
  BY <1>46 DEF Expire
<1> QED
  BY <1>7, <1>8, <1>9, <1>10, <1>11, <1>12, <1>13, <1>14, <1>15, <1>16, <1>17, <1>18,
     <1>19, <1>20, <1>21, <1>22, <1>23, <1>24, <1>25, <1>26, <1>27, <1>28, <1>29,
     <1>30, <1>31, <1>32, <1>33, <1>34, <1>35, <1>36, <1>37, <1>38, <1>39, <1>40,
     <1>41, <1>42, <1>43, <1>44, <1>45, <1>46
     DEF Next, ReaderStep, WriterStep, Begin, Enabling, AltWait, Disabling, Extended, Io

(* Only the guard that has just been enabled comes on offer.                *)
OnOfferGrows ==
    pc'[Reader] \in EnablePcs \cup WaitPcs =>
        \A g : OnOffer(g)' =>
            \/ OnOffer(g)
            \/ Guard = g /\ \/ pc[Reader] = "enbSwap" /\ pc'[Reader] # "enbSwap"
                            \/ /\ pc[Reader] \in {"enable", "enbInc"}
                               /\ i' # i \/ pc'[Reader] = "wait"

(* One guard at a time comes on offer.                                      *)
LEMMA OfferGrowsStep == AInv /\ [Next]_vars => OnOfferGrows
<1> SUFFICES ASSUME AInv, [Next]_vars PROVE OnOfferGrows
  OBVIOUS
<1>1. TypeOK /\ Indices /\ Writers /\ Words /\ ReaderIo /\ JumpsWhenReady /\ TimerNode /\ Counts
  BY DEF AInv
<1>2. Guards' = Guards /\ Client' = Client
  BY ProgramKept
<1>3. TypeOK'
  BY TypeOKStep
<1>4. pc[Reader] \in DisablePcs /\ DisableNext =>
           /\ i' \in 1..hi /\ pc'[Reader] \in {"altend", "disable"}
           /\ pc' = [pc EXCEPT ![Reader] = pc'[Reader]]
           /\ pc'[Reader] = "altend" => i = IF Client = "occam" THEN 1 ELSE hi
           /\ pc'[Reader] = "disable" => i' = IF Client = "occam" THEN i - 1 ELSE i + 1
  BY <1>1, NextGuard
<1>5. AfterReady => StartDisable(i)
  BY <1>1, Program DEF AfterReady, JumpsWhenReady
<1>6. pend > 0 =>
           pc[Reader] \notin {"top", "io", "ioSwap", "ioTake", "ioCopy", "xSwap", "xRestore", "xend"}
  BY DEF AInv, Counts, InAlt
<1> USE <1>1, <1>2, <1>3, <1>4, <1>5, <1>6, Distinct, Program
<1> USE DEF TypeOK, Procs, Indices, OnOfferGrows, OnOffer, Left, Guard, EnablePcs, WaitPcs,
            DisablePcs, altvars, ghosts, At, Goto, IoChan
<1>7. CASE UNCHANGED vars
  BY <1>7 DEF vars
<1>8. CASE IoRead(Reader)
  BY <1>8 DEF IoRead
<1>9. CASE IoSwap(Reader)
  BY <1>9 DEF IoSwap, Deschedule
<1>10. CASE IoTake(Reader)
  BY <1>10 DEF IoTake
<1>11. CASE IoCopy(Reader)
  BY <1>11 DEF IoCopy, Transfer, Enqueue
<1>12. ASSUME NEW c \in Chans, IoRead(c) PROVE OnOfferGrows
  BY <1>12 DEF IoRead
<1>13. ASSUME NEW c \in Chans, IoSwap(c) PROVE OnOfferGrows
  BY <1>13 DEF IoSwap, Deschedule
<1>14. ASSUME NEW c \in Chans, IoTake(c) PROVE OnOfferGrows
  BY <1>14 DEF IoTake
<1>15. ASSUME NEW c \in Chans, IoCopy(c) PROVE OnOfferGrows
  BY <1>15 DEF IoCopy, Transfer, Enqueue
<1>16. ASSUME NEW c \in Chans, Output(c) PROVE OnOfferGrows
  BY <1>16 DEF Output
<1>17. ASSUME NEW c \in Chans, Input(c) PROVE OnOfferGrows
  BY <1>17 DEF Input
<1>18. ASSUME NEW c \in Chans, Xable(c) PROVE OnOfferGrows
  BY <1>18 DEF Xable
<1>19. CASE XSwap
  BY <1>19 DEF XSwap, Deschedule
<1>20. CASE XRestore
  BY <1>20 DEF XRestore
<1>21. CASE Xin
  BY <1>21 DEF Xin, Transfer
<1>22. CASE Xend
  BY <1>22 DEF Xend, Enqueue
<1>23. CASE Alt
  BY <1>23 DEF Alt
<1>24. CASE EnableChannel
  BY <1>24 DEF EnableChannel, EnableDone
<1>25. CASE EnableTimer
  BY <1>25 DEF EnableTimer, EnableDone
<1>26. CASE EnableSkip
  BY <1>26 DEF EnableSkip
<1>27. CASE EnbSwap
  BY <1>27 DEF EnbSwap
<1>28. CASE EnbInc
  BY <1>28 DEF EnbInc, EnableDone
<1>29. CASE EnbRestore
  BY <1>29 DEF EnbRestore
<1>30. CASE EnbReady
  BY <1>30 DEF EnbReady, StartDisable
<1>31. CASE EnbClear
  BY <1>31 DEF EnbClear, StartDisable
<1>32. CASE Wait
  BY <1>32 DEF Wait
<1>33. CASE WaitCas
  BY <1>33 DEF WaitCas, StartDisable, Deschedule
<1>34. CASE WaitCasFails
  BY <1>34 DEF WaitCasFails
<1>35. CASE WaitOut
  BY <1>35 DEF WaitOut, StartDisable
<1>36. CASE DisableChannel
  BY <1>36 DEF DisableChannel, Fired
<1>37. CASE DisCas
  BY <1>37 DEF DisCas, Fired
<1>38. CASE DisDec
  BY <1>38 DEF DisDec, Disabled
<1>39. CASE DisableTimer
  BY <1>39 DEF DisableTimer, Fired
<1>40. CASE DisableSkip
  BY <1>40 DEF DisableSkip, Fired
<1>41. CASE AltEnd
  BY <1>41 DEF AltEnd
<1>42. CASE AltDec
  BY <1>42 DEF AltDec, Deschedule
<1>43. CASE Selected
  BY <1>43 DEF Selected
<1>44. CASE Trigger
  BY <1>44 DEF Trigger, Enqueue
<1>45. CASE Tick
  BY <1>45 DEF Tick
<1>46. CASE Expire
  BY <1>46 DEF Expire
<1> QED
  BY <1>7, <1>8, <1>9, <1>10, <1>11, <1>12, <1>13, <1>14, <1>15, <1>16, <1>17, <1>18,
     <1>19, <1>20, <1>21, <1>22, <1>23, <1>24, <1>25, <1>26, <1>27, <1>28, <1>29,
     <1>30, <1>31, <1>32, <1>33, <1>34, <1>35, <1>36, <1>37, <1>38, <1>39, <1>40,
     <1>41, <1>42, <1>43, <1>44, <1>45, <1>46
     DEF Next, ReaderStep, WriterStep, Begin, Enabling, AltWait, Disabling, Extended, Io

(* Words of guards on offer.                                                *)
LEMMA OffersStep == SInv /\ [Next]_vars => Offers'
<1> SUFFICES ASSUME SInv, [Next]_vars PROVE Offers'
  OBVIOUS
<1>1. TypeOK /\ Indices /\ Writers /\ Words /\ ReaderIo /\ JumpsWhenReady /\ TimerNode /\ Counts
  BY DEF AInv, SInv
<1>2. Guards' = Guards /\ Client' = Client
  BY ProgramKept
<1>3. TypeOK'
  BY TypeOKStep DEF SInv
<1>4. pc[Reader] \in DisablePcs /\ DisableNext =>
           /\ i' \in 1..hi /\ pc'[Reader] \in {"altend", "disable"}
           /\ pc' = [pc EXCEPT ![Reader] = pc'[Reader]]
           /\ pc'[Reader] = "altend" => i = IF Client = "occam" THEN 1 ELSE hi
           /\ pc'[Reader] = "disable" => i' = IF Client = "occam" THEN i - 1 ELSE i + 1
  BY <1>1, NextGuard
<1>5. AfterReady => StartDisable(i)
  BY <1>1, Program DEF AfterReady, JumpsWhenReady
<1>6. pend > 0 =>
           pc[Reader] \notin {"top", "io", "ioSwap", "ioTake", "ioCopy", "xSwap", "xRestore", "xend"}
  BY DEF AInv, SInv, Counts, InAlt
<1>7. Offers /\ ReadyKept
  BY ReadyStep DEF SInv
<1>8. OnOfferGrows
  BY OfferGrowsStep DEF SInv
<1>9. pc[Reader] = "top" => \A g : ~OnOffer(g)
  BY OfferInAlt DEF InAlt
<1> USE <1>1, <1>2, <1>3, <1>4, <1>5, <1>6, Distinct, <1>7, <1>8
<1> USE DEF TypeOK, Procs, Indices, Offers, ReadyKept, OnOfferGrows, Guard, EnablePcs, WaitPcs,
            DisablePcs, Writers, Awaits, Holds, ReaderIo, altvars, ghosts, At, Goto, IoChan
<1>10. CASE UNCHANGED vars
  BY <1>10 DEF vars
<1>11. CASE IoRead(Reader)
  BY <1>11 DEF IoRead
<1>12. CASE IoSwap(Reader)
  BY <1>12 DEF IoSwap, Deschedule
<1>13. CASE IoTake(Reader)
  BY <1>13 DEF IoTake
<1>14. CASE IoCopy(Reader)
  BY <1>14 DEF IoCopy, Transfer, Enqueue
<1>15. ASSUME NEW c \in Chans, IoRead(c) PROVE Offers'
  BY <1>15 DEF IoRead
<1>16. ASSUME NEW c \in Chans, IoSwap(c) PROVE Offers'
  BY <1>16 DEF IoSwap, Deschedule
<1>17. ASSUME NEW c \in Chans, IoTake(c) PROVE Offers'
  BY <1>17 DEF IoTake
<1>18. ASSUME NEW c \in Chans, IoCopy(c) PROVE Offers'
  BY <1>18 DEF IoCopy, Transfer, Enqueue
<1>19. ASSUME NEW c \in Chans, Output(c) PROVE Offers'
  BY <1>19 DEF Output
<1>20. ASSUME NEW c \in Chans, Input(c) PROVE Offers'
  BY <1>20 DEF Input
<1>21. ASSUME NEW c \in Chans, Xable(c) PROVE Offers'
  BY <1>21 DEF Xable
<1>22. CASE XSwap
  BY <1>22 DEF XSwap, Deschedule
<1>23. CASE XRestore
  BY <1>23 DEF XRestore
<1>24. CASE Xin
  BY <1>24 DEF Xin, Transfer
<1>25. CASE Xend
  BY <1>25 DEF Xend, Enqueue
<1>26. CASE Alt
  BY <1>26, <1>9 DEF Alt
<1>27. CASE EnableChannel
  BY <1>27 DEF EnableChannel, EnableDone
<1>28. CASE EnableTimer
  BY <1>28 DEF EnableTimer, EnableDone
<1>29. CASE EnableSkip
  BY <1>29 DEF EnableSkip
<1>30. CASE EnbSwap
  BY <1>30 DEF EnbSwap
<1>31. CASE EnbInc
  BY <1>31 DEF EnbInc, EnableDone
<1>32. CASE EnbRestore
  BY <1>32 DEF EnbRestore
<1>33. CASE EnbReady
  BY <1>33 DEF EnbReady, StartDisable
<1>34. CASE EnbClear
  BY <1>34 DEF EnbClear, StartDisable
<1>35. CASE Wait
  BY <1>35 DEF Wait
<1>36. CASE WaitCas
  BY <1>36 DEF WaitCas, StartDisable, Deschedule
<1>37. CASE WaitCasFails
  BY <1>37 DEF WaitCasFails
<1>38. CASE WaitOut
  BY <1>38 DEF WaitOut, StartDisable
<1>39. CASE DisableChannel
  BY <1>39 DEF DisableChannel, Fired
<1>40. CASE DisCas
  BY <1>40 DEF DisCas, Fired
<1>41. CASE DisDec
  BY <1>41 DEF DisDec, Disabled
<1>42. CASE DisableTimer
  BY <1>42 DEF DisableTimer, Fired
<1>43. CASE DisableSkip
  BY <1>43 DEF DisableSkip, Fired
<1>44. CASE AltEnd
  BY <1>44 DEF AltEnd
<1>45. CASE AltDec
  BY <1>45 DEF AltDec, Deschedule
<1>46. CASE Selected
  BY <1>46 DEF Selected
<1>47. CASE Trigger
  BY <1>47 DEF Trigger, Enqueue
<1>48. CASE Tick
  BY <1>48 DEF Tick
<1>49. CASE Expire
  BY <1>49 DEF Expire
<1> QED
  BY <1>10, <1>11, <1>12, <1>13, <1>14, <1>15, <1>16, <1>17, <1>18, <1>19, <1>20,
     <1>21, <1>22, <1>23, <1>24, <1>25, <1>26, <1>27, <1>28, <1>29, <1>30, <1>31,
     <1>32, <1>33, <1>34, <1>35, <1>36, <1>37, <1>38, <1>39, <1>40, <1>41, <1>42,
     <1>43, <1>44, <1>45, <1>46, <1>47, <1>48, <1>49
     DEF Next, ReaderStep, WriterStep, Begin, Enabling, AltWait, Disabling, Extended, Io

(* A channel on offer fires when its writer waits in it...                  *)
LEMMA ChannelFiresMeans ==
    ASSUME TypeOK
    PROVE  ChannelFires <=> \E c \in Chans : OnOffer(c) /\ chan[c] = c
  BY Program DEF ChannelFires, OnOffer, Left

(* ... and goes on firing until the disabling.                              *)
LEMMA ChannelFiresKept ==
    ASSUME SInv, [Next]_vars, pc[Reader] \in EnablePcs \cup WaitPcs, ChannelFires
    PROVE  ChannelFires'
<1>1. TypeOK /\ AInv /\ Offers /\ ReaderIo
  BY DEF SInv, AInv
<1>2. TypeOK'
  BY <1>1, TypeOKStep
<1>3. PICK c \in Chans : OnOffer(c) /\ chan[c] = c
  BY <1>1, ChannelFiresMeans
<1>4. chan'[c] = c
  BY <1>1, <1>3, ReadyStep DEF ReadyKept, Offers, EnablePcs
<1>5. ~(Guard = c /\ PassesGuard)
  BY <1>1, <1>3, Distinct DEF PassesGuard, ReaderIo, EnablePcs, WaitPcs
<1>6. OnOffer(c)'
  BY <1>1, <1>3, <1>5, OfferStep DEF OnOfferKept
<1>7. \E d \in Chans : OnOffer(d)' /\ chan'[d] = d
  BY <1>4, <1>6
<1>8. ChannelFires' <=> \E d \in Chans : OnOffer(d)' /\ chan'[d] = d
  <2>1. Guards' = Guards
    BY ProgramKept
  <2> QED
    BY <1>2, <2>1, Program DEF ChannelFires, OnOffer, Left
<1> QED
  BY <1>7, <1>8

(* A writer that triggers the reader makes a guard fire.                    *)
LEMMA WriterFires ==
    ASSUME SInv, [Next]_vars, NEW c \in Chans, IoSwap(c), chan[c] = Tagged, InAlt
    PROVE  ChannelFires'
<1>1. TypeOK /\ AInv /\ Words /\ Guards' = Guards
  BY ProgramKept DEF SInv, AInv
<1>2. TypeOK' /\ OnOfferKept
  BY <1>1, TypeOKStep, OfferStep
<1>3. OnOffer(c)
  BY <1>1 DEF Words, InAlt
<1>4. chan'[c] = c /\ i' = i /\ pc'[Reader] = pc[Reader]
  BY <1>1, Distinct DEF IoSwap, IoChan, TypeOK, Deschedule, Goto, Procs, altvars
<1>5. OnOffer(c)'
  BY <1>2, <1>3, <1>4 DEF OnOfferKept, PassesGuard
<1> QED
  BY <1>1, <1>2, <1>4, <1>5, Program DEF ChannelFires, OnOffer, Left

(* The reader stops waiting for a ready guard only.                         *)
LEMMA WakingStep == SInv /\ [Next]_vars => Waking'
<1> SUFFICES ASSUME SInv, [Next]_vars PROVE Waking'
  OBVIOUS
<1>1. TypeOK /\ Indices /\ Writers /\ Words /\ ReaderIo /\ JumpsWhenReady /\ TimerNode
      /\ Counts /\ AInv
  BY DEF AInv, SInv
<1>2. Guards' = Guards /\ Client' = Client /\ Timed' = Timed
  BY ProgramKept DEF Timed
<1>3. TypeOK'
  BY <1>1, TypeOKStep
<1>4. pc[Reader] \in DisablePcs /\ DisableNext =>
           /\ i' \in 1..hi /\ pc'[Reader] \in {"altend", "disable"}
           /\ pc' = [pc EXCEPT ![Reader] = pc'[Reader]]
           /\ pc'[Reader] = "altend" => i = IF Client = "occam" THEN 1 ELSE hi
           /\ pc'[Reader] = "disable" => i' = IF Client = "occam" THEN i - 1 ELSE i + 1
  BY <1>1, NextGuard
<1>5. AfterReady => StartDisable(i)
  BY <1>1, Program DEF AfterReady, JumpsWhenReady
<1>6. pend > 0 =>
           pc[Reader] \notin {"top", "io", "ioSwap", "ioTake", "ioCopy", "xSwap", "xRestore", "xend"}
  BY DEF AInv, SInv, Counts, InAlt
<1>7. Offers /\ Waking /\ ReadyKept
  BY <1>1, ReadyStep DEF SInv
<1>8. pc[Reader] \in EnablePcs \cup WaitPcs /\ ChannelFires => ChannelFires'
  BY ChannelFiresKept
<1>9. /\ InAlt => slot \in States
      /\ pc[Reader] \in EnablePcs \cup WaitPcs \cup DisablePcs => InAlt
  BY <1>1, SlotFacts DEF InAlt, EnablePcs, WaitPcs, DisablePcs
<1>10. pc[Reader] \in EnablePcs =>
            i \in DOMAIN Guards /\ Guard \in Chans \cup {TIMER, SKIP}
  BY <1>1, Program DEF Indices, Guard
<1>11. EnbInc => slot'.flags = slot.flags
  BY <1>9, StateOps DEF EnbInc, At, InAlt
<1> USE <1>1, <1>2, <1>3, <1>4, <1>5, <1>6, Distinct, <1>7, <1>8, <1>9, <1>10
<1> USE DEF TypeOK, Procs, Indices, Waking, TimerNode, ReadyKept, Fires, TimePassed, Guard,
            NoneSelected, Stale, EnablePcs, WaitPcs, DisablePcs, EndPcs, altvars, ghosts, At,
            Goto, IoChan
<1>12. CASE UNCHANGED vars
  BY <1>12 DEF vars
<1>13. CASE IoRead(Reader)
  BY <1>13 DEF IoRead
<1>14. CASE IoSwap(Reader)
  BY <1>14 DEF IoSwap, Deschedule
<1>15. CASE IoTake(Reader)
  BY <1>15 DEF IoTake
<1>16. CASE IoCopy(Reader)
  BY <1>16 DEF IoCopy, Transfer, Enqueue
<1>17. ASSUME NEW c \in Chans, IoRead(c) PROVE Waking'
  BY <1>17 DEF IoRead
<1>18. ASSUME NEW c \in Chans, IoSwap(c) PROVE Waking'
  <2>1. CASE chan[c] = Tagged /\ InAlt
    <3>1. ChannelFires'
      BY <1>18, <2>1, WriterFires
    <3>2. pc'[Reader] = pc[Reader] /\ slot' = slot /\ i' = i /\ temp' = temp /\ prog' = prog
      BY <1>18 DEF IoSwap
    <3> QED
      BY <1>18, <2>1, <3>1, <3>2 DEF IoSwap, Deschedule
  <2>2. CASE chan[c] # Tagged \/ ~InAlt
    BY <1>18, <2>2 DEF IoSwap, Deschedule
  <2> QED
    BY <2>1, <2>2
<1>19. ASSUME NEW c \in Chans, IoTake(c) PROVE Waking'
  BY <1>19 DEF IoTake
<1>20. ASSUME NEW c \in Chans, IoCopy(c) PROVE Waking'
  BY <1>20 DEF IoCopy, Transfer, Enqueue
<1>21. ASSUME NEW c \in Chans, Output(c) PROVE Waking'
  BY <1>21 DEF Output
<1>22. ASSUME NEW c \in Chans, Input(c) PROVE Waking'
  BY <1>22 DEF Input
<1>23. ASSUME NEW c \in Chans, Xable(c) PROVE Waking'
  BY <1>23 DEF Xable
<1>24. CASE XSwap
  BY <1>24 DEF XSwap, Deschedule
<1>25. CASE XRestore
  BY <1>25 DEF XRestore
<1>26. CASE Xin
  BY <1>26 DEF Xin, Transfer
<1>27. CASE Xend
  BY <1>27 DEF Xend, Enqueue
<1>28. CASE Alt
  BY <1>28, FixedStates DEF Alt
<1>29. CASE EnableChannel
  BY <1>29 DEF EnableChannel, EnableDone
<1>30. CASE EnableTimer
  BY <1>30 DEF EnableTimer, EnableDone
<1>31. CASE EnableSkip
  BY <1>31 DEF EnableSkip
<1>32. CASE EnbSwap
  BY <1>32 DEF EnbSwap
<1>33. CASE EnbInc
  BY <1>33, <1>11 DEF EnbInc, EnableDone
<1>34. CASE EnbRestore
  BY <1>34 DEF EnbRestore
<1>35. CASE EnbReady
  BY <1>35 DEF EnbReady, StartDisable
<1>36. CASE EnbClear
  BY <1>36, StateOps DEF EnbClear, StartDisable
<1>37. CASE Wait
  BY <1>37 DEF Wait
<1>38. CASE WaitCas
  BY <1>38, StateOps DEF WaitCas, StartDisable, Deschedule
<1>39. CASE WaitCasFails
  BY <1>39 DEF WaitCasFails
<1>40. CASE WaitOut
  BY <1>40, StateOps DEF WaitOut, StartDisable
<1>41. CASE DisableChannel
  BY <1>41 DEF DisableChannel, Fired
<1>42. CASE DisCas
  BY <1>42 DEF DisCas, Fired
<1>43. CASE DisDec
  BY <1>43, StateOps DEF DisDec, Disabled
<1>44. CASE DisableTimer
  BY <1>44 DEF DisableTimer, Fired
<1>45. CASE DisableSkip
  BY <1>45 DEF DisableSkip, Fired
<1>46. CASE AltEnd
  BY <1>46 DEF AltEnd
<1>47. CASE AltDec
  BY <1>47, StateOps DEF AltDec, Deschedule
<1>48. CASE Selected
  BY <1>48 DEF Selected
<1>49. CASE Trigger
  BY <1>49, StateOps DEF Trigger, Enqueue
<1>50. CASE Tick
  BY <1>50 DEF Tick
<1>51. CASE Expire
  BY <1>51 DEF Expire
<1> QED
  BY <1>12, <1>13, <1>14, <1>15, <1>16, <1>17, <1>18, <1>19, <1>20, <1>21, <1>22,
     <1>23, <1>24, <1>25, <1>26, <1>27, <1>28, <1>29, <1>30, <1>31, <1>32, <1>33,
     <1>34, <1>35, <1>36, <1>37, <1>38, <1>39, <1>40, <1>41, <1>42, <1>43, <1>44,
     <1>45, <1>46, <1>47, <1>48, <1>49, <1>50, <1>51
     DEF Next, ReaderStep, WriterStep, Begin, Enabling, AltWait, Disabling, Extended, Io

(* A guard that will fire does so until it is disabled...                   *)
FiringKept ==
    pc[Reader] \in DisablePcs =>
        \A k \in Left : Fires(k) => Fires(k)' \/ (k = i /\ PassesGuard)

(* Firing guards.                                                           *)
LEMMA FiringStep == SInv /\ [Next]_vars => FiringKept
<1> SUFFICES ASSUME SInv, [Next]_vars PROVE FiringKept
  OBVIOUS
<1>1. TypeOK /\ Indices /\ Writers /\ Words /\ ReaderIo /\ JumpsWhenReady /\ TimerNode
      /\ Counts /\ AInv
  BY DEF AInv, SInv
<1>2. Guards' = Guards /\ Client' = Client /\ Timed' = Timed
  BY ProgramKept DEF Timed
<1>3. TypeOK'
  BY <1>1, TypeOKStep
<1>4. pc[Reader] \in DisablePcs /\ DisableNext =>
           /\ i' \in 1..hi /\ pc'[Reader] \in {"altend", "disable"}
           /\ pc' = [pc EXCEPT ![Reader] = pc'[Reader]]
           /\ pc'[Reader] = "altend" => i = IF Client = "occam" THEN 1 ELSE hi
           /\ pc'[Reader] = "disable" => i' = IF Client = "occam" THEN i - 1 ELSE i + 1
  BY <1>1, NextGuard
<1>5. AfterReady => StartDisable(i)
  BY <1>1, Program DEF AfterReady, JumpsWhenReady
<1>6. pend > 0 =>
           pc[Reader] \notin {"top", "io", "ioSwap", "ioTake", "ioCopy", "xSwap", "xRestore", "xend"}
  BY DEF AInv, SInv, Counts, InAlt
<1>7. ReadyKept /\ (pc[Reader] = "enbSwap" => pc[Reader] \notin DisablePcs)
  BY <1>1, ReadyStep DEF DisablePcs
<1>8. \A k \in Left :
           /\ k \in DOMAIN Guards
           /\ Guards[k] = TIMER /\ Guard = TIMER /\ pc[Reader] \in DisablePcs => k = i
  BY <1>1, Program DEF Left, Guard, Indices, TypeOK
<1>9. \A k : Guards[k] \in Chans /\ chan[Guards[k]] = Guards[k] /\ pc[Reader] \in DisablePcs =>
           chan'[Guards[k]] = Guards[k]
  BY <1>7 DEF ReadyKept, EnablePcs, WaitPcs, DisablePcs
<1> USE <1>1, <1>2, <1>3, <1>4, <1>5, <1>6, Distinct, <1>8, <1>9
<1> USE DEF FiringKept, Fires, TimePassed, TypeOK, Procs, Indices, PassesGuard, TimerNode,
            Guard, DisablePcs, altvars, ghosts, At, Goto, IoChan
<1>10. CASE UNCHANGED vars
  BY <1>10 DEF vars
<1>11. CASE IoRead(Reader)
  BY <1>11 DEF IoRead
<1>12. CASE IoSwap(Reader)
  BY <1>12 DEF IoSwap, Deschedule
<1>13. CASE IoTake(Reader)
  BY <1>13 DEF IoTake
<1>14. CASE IoCopy(Reader)
  BY <1>14 DEF IoCopy, Transfer, Enqueue
<1>15. ASSUME NEW c \in Chans, IoRead(c) PROVE FiringKept
  BY <1>15 DEF IoRead
<1>16. ASSUME NEW c \in Chans, IoSwap(c) PROVE FiringKept
  BY <1>16 DEF IoSwap, Deschedule
<1>17. ASSUME NEW c \in Chans, IoTake(c) PROVE FiringKept
  BY <1>17 DEF IoTake
<1>18. ASSUME NEW c \in Chans, IoCopy(c) PROVE FiringKept
  BY <1>18 DEF IoCopy, Transfer, Enqueue
<1>19. ASSUME NEW c \in Chans, Output(c) PROVE FiringKept
  BY <1>19 DEF Output
<1>20. ASSUME NEW c \in Chans, Input(c) PROVE FiringKept
  BY <1>20 DEF Input
<1>21. ASSUME NEW c \in Chans, Xable(c) PROVE FiringKept
  BY <1>21 DEF Xable
<1>22. CASE XSwap
  BY <1>22 DEF XSwap, Deschedule
<1>23. CASE XRestore
  BY <1>23 DEF XRestore
<1>24. CASE Xin
  BY <1>24 DEF Xin, Transfer
<1>25. CASE Xend
  BY <1>25 DEF Xend, Enqueue
<1>26. CASE Alt
  BY <1>26 DEF Alt
<1>27. CASE EnableChannel
  BY <1>27 DEF EnableChannel, EnableDone
<1>28. CASE EnableTimer
  BY <1>28 DEF EnableTimer, EnableDone
<1>29. CASE EnableSkip
  BY <1>29 DEF EnableSkip
<1>30. CASE EnbSwap
  BY <1>30 DEF EnbSwap
<1>31. CASE EnbInc
  BY <1>31 DEF EnbInc, EnableDone
<1>32. CASE EnbRestore
  BY <1>32 DEF EnbRestore
<1>33. CASE EnbReady
  BY <1>33 DEF EnbReady, StartDisable
<1>34. CASE EnbClear
  BY <1>34 DEF EnbClear, StartDisable
<1>35. CASE Wait
  BY <1>35 DEF Wait
<1>36. CASE WaitCas
  BY <1>36 DEF WaitCas, StartDisable, Deschedule
<1>37. CASE WaitCasFails
  BY <1>37 DEF WaitCasFails
<1>38. CASE WaitOut
  BY <1>38 DEF WaitOut, StartDisable
<1>39. CASE DisableChannel
  BY <1>39 DEF DisableChannel, Fired
<1>40. CASE DisCas
  BY <1>40 DEF DisCas, Fired
<1>41. CASE DisDec
  BY <1>41 DEF DisDec, Disabled
<1>42. CASE DisableTimer
  BY <1>42 DEF DisableTimer, Fired
<1>43. CASE DisableSkip
  BY <1>43 DEF DisableSkip, Fired
<1>44. CASE AltEnd
  BY <1>44 DEF AltEnd
<1>45. CASE AltDec
  BY <1>45 DEF AltDec, Deschedule
<1>46. CASE Selected
  BY <1>46 DEF Selected
<1>47. CASE Trigger
  BY <1>47 DEF Trigger, Enqueue
<1>48. CASE Tick
  BY <1>48 DEF Tick
<1>49. CASE Expire
  BY <1>49 DEF Expire
<1> QED
  BY <1>10, <1>11, <1>12, <1>13, <1>14, <1>15, <1>16, <1>17, <1>18, <1>19, <1>20,
     <1>21, <1>22, <1>23, <1>24, <1>25, <1>26, <1>27, <1>28, <1>29, <1>30, <1>31,
     <1>32, <1>33, <1>34, <1>35, <1>36, <1>37, <1>38, <1>39, <1>40, <1>41, <1>42,
     <1>43, <1>44, <1>45, <1>46, <1>47, <1>48, <1>49
     DEF Next, ReaderStep, WriterStep, Begin, Enabling, AltWait, Disabling, Extended, Io

(* ... and is selected then, if nothing was before it.                      *)
FiringSelected ==
    PassesGuard /\ pc[Reader] \in DisablePcs /\ Fires(i) =>
        temp' \in DOMAIN Guards \/ (temp' = temp /\ Client = "ProcAlt" /\ temp = Stale)

(* They are selected.                                                       *)
LEMMA FiringSelectedStep == SInv /\ [Next]_vars => FiringSelected
<1> SUFFICES ASSUME SInv, [Next]_vars PROVE FiringSelected
  OBVIOUS
<1>1. TypeOK /\ Indices /\ Writers /\ Words /\ ReaderIo /\ JumpsWhenReady /\ TimerNode
      /\ Counts /\ AInv
  BY DEF AInv, SInv
<1>2. Guards' = Guards /\ Client' = Client /\ Timed' = Timed
  BY ProgramKept DEF Timed
<1>3. TypeOK'
  BY <1>1, TypeOKStep
<1>4. pc[Reader] \in DisablePcs /\ DisableNext =>
           /\ i' \in 1..hi /\ pc'[Reader] \in {"altend", "disable"}
           /\ pc' = [pc EXCEPT ![Reader] = pc'[Reader]]
           /\ pc'[Reader] = "altend" => i = IF Client = "occam" THEN 1 ELSE hi
           /\ pc'[Reader] = "disable" => i' = IF Client = "occam" THEN i - 1 ELSE i + 1
  BY <1>1, NextGuard
<1>5. AfterReady => StartDisable(i)
  BY <1>1, Program DEF AfterReady, JumpsWhenReady
<1>6. pend > 0 =>
           pc[Reader] \notin {"top", "io", "ioSwap", "ioTake", "ioCopy", "xSwap", "xRestore", "xend"}
  BY DEF AInv, SInv, Counts, InAlt
<1>7. temp \in DOMAIN Guards \cup {NoneSelected, Stale}
  BY <1>1 DEF TypeOK
<1>8. pc[Reader] \in DisablePcs => i \in DOMAIN Guards /\ Client \in {"occam", "ProcAlt"}
  BY <1>1, Program DEF Indices, TypeOK, JumpsWhenReady, DisablePcs
<1> USE <1>1, <1>2, <1>3, <1>4, <1>5, <1>6, Distinct, <1>7, <1>8
<1> USE DEF FiringSelected, Fires, TimePassed, TypeOK, Procs, Indices, PassesGuard, TimerNode,
            Guard, DisablePcs, altvars, ghosts, At, Goto, IoChan
<1>9. CASE UNCHANGED vars
  BY <1>9 DEF vars
<1>10. CASE IoRead(Reader)
  BY <1>10 DEF IoRead
<1>11. CASE IoSwap(Reader)
  BY <1>11 DEF IoSwap, Deschedule
<1>12. CASE IoTake(Reader)
  BY <1>12 DEF IoTake
<1>13. CASE IoCopy(Reader)
  BY <1>13 DEF IoCopy, Transfer, Enqueue
<1>14. ASSUME NEW c \in Chans, IoRead(c) PROVE FiringSelected
  BY <1>14 DEF IoRead
<1>15. ASSUME NEW c \in Chans, IoSwap(c) PROVE FiringSelected
  BY <1>15 DEF IoSwap, Deschedule
<1>16. ASSUME NEW c \in Chans, IoTake(c) PROVE FiringSelected
  BY <1>16 DEF IoTake
<1>17. ASSUME NEW c \in Chans, IoCopy(c) PROVE FiringSelected
  BY <1>17 DEF IoCopy, Transfer, Enqueue
<1>18. ASSUME NEW c \in Chans, Output(c) PROVE FiringSelected
  BY <1>18 DEF Output
<1>19. ASSUME NEW c \in Chans, Input(c) PROVE FiringSelected
  BY <1>19 DEF Input
<1>20. ASSUME NEW c \in Chans, Xable(c) PROVE FiringSelected
  BY <1>20 DEF Xable
<1>21. CASE XSwap
  BY <1>21 DEF XSwap, Deschedule
<1>22. CASE XRestore
  BY <1>22 DEF XRestore
<1>23. CASE Xin
  BY <1>23 DEF Xin, Transfer
<1>24. CASE Xend
  BY <1>24 DEF Xend, Enqueue
<1>25. CASE Alt
  BY <1>25 DEF Alt
<1>26. CASE EnableChannel
  BY <1>26 DEF EnableChannel, EnableDone
<1>27. CASE EnableTimer
  BY <1>27 DEF EnableTimer, EnableDone
<1>28. CASE EnableSkip
  BY <1>28 DEF EnableSkip
<1>29. CASE EnbSwap
  BY <1>29 DEF EnbSwap
<1>30. CASE EnbInc
  BY <1>30 DEF EnbInc, EnableDone
<1>31. CASE EnbRestore
  BY <1>31 DEF EnbRestore
<1>32. CASE EnbReady
  BY <1>32 DEF EnbReady, StartDisable
<1>33. CASE EnbClear
  BY <1>33 DEF EnbClear, StartDisable
<1>34. CASE Wait
  BY <1>34 DEF Wait
<1>35. CASE WaitCas
  BY <1>35 DEF WaitCas, StartDisable, Deschedule
<1>36. CASE WaitCasFails
  BY <1>36 DEF WaitCasFails
<1>37. CASE WaitOut
  BY <1>37 DEF WaitOut, StartDisable
<1>38. CASE DisableChannel
  BY <1>38 DEF DisableChannel, Fired
<1>39. CASE DisCas
  BY <1>39 DEF DisCas, Fired
<1>40. CASE DisDec
  BY <1>40 DEF DisDec, Disabled
<1>41. CASE DisableTimer
  BY <1>41 DEF DisableTimer, Fired
<1>42. CASE DisableSkip
  BY <1>42 DEF DisableSkip, Fired
<1>43. CASE AltEnd
  BY <1>43 DEF AltEnd
<1>44. CASE AltDec
  BY <1>44 DEF AltDec, Deschedule
<1>45. CASE Selected
  BY <1>45 DEF Selected
<1>46. CASE Trigger
  BY <1>46 DEF Trigger, Enqueue
<1>47. CASE Tick
  BY <1>47 DEF Tick
<1>48. CASE Expire
  BY <1>48 DEF Expire
<1> QED
  BY <1>9, <1>10, <1>11, <1>12, <1>13, <1>14, <1>15, <1>16, <1>17, <1>18, <1>19, <1>20,
     <1>21, <1>22, <1>23, <1>24, <1>25, <1>26, <1>27, <1>28, <1>29, <1>30, <1>31,
     <1>32, <1>33, <1>34, <1>35, <1>36, <1>37, <1>38, <1>39, <1>40, <1>41, <1>42,
     <1>43, <1>44, <1>45, <1>46, <1>47, <1>48
     DEF Next, ReaderStep, WriterStep, Begin, Enabling, AltWait, Disabling, Extended, Io

(* So some guard fires or has been selected as long as the disabling lasts. *)
LEMMA GuardFiresKept ==
    ASSUME SInv, [Next]_vars, pc[Reader] \in DisablePcs, GuardFires
    PROVE  \/ GuardFires'
           \/ temp' \in DOMAIN Guards
           \/ temp' = temp /\ Client = "ProcAlt" /\ temp = Stale
<1>1. PICK k \in Left : Fires(k)
  BY DEF GuardFires
<1>2. FiringKept /\ FiringSelected /\ LeftKept
  BY FiringStep, FiringSelectedStep, LeftStep DEF SInv
<1>3. CASE Fires(k)' /\ k \in Left'
  BY <1>3 DEF GuardFires
<1>4. CASE k = i /\ PassesGuard
  BY <1>1, <1>2, <1>4 DEF FiringSelected
<1> QED
  BY <1>1, <1>2, <1>3, <1>4 DEF FiringKept, LeftKept

(* Disabling begins with every guard that has been enabled.                 *)
LEMMA DisablingStarts ==
    ASSUME Guards' = Guards, Client' = Client, DOMAIN Guards = 1..Len(Guards), Len(Guards) \in Nat,
           Client \in {"occam", "ProcAlt"}, hi' \in DOMAIN Guards,
           pc'[Reader] = "disable", i' = IF Client = "occam" THEN hi' ELSE 1
    PROVE  \A k \in DOMAIN Guards : k <= hi' <=> k \in Left'
  BY DEF Left, EnablePcs, WaitPcs, DisablePcs

(* The ALT that ends has selected a guard.                                  *)
LEMMA SelectingStep == SInv /\ [Next]_vars => Selecting'
<1> SUFFICES ASSUME SInv, [Next]_vars PROVE Selecting'
  OBVIOUS
<1>1. TypeOK /\ Indices /\ Writers /\ Words /\ ReaderIo /\ JumpsWhenReady /\ TimerNode
      /\ Counts /\ AInv
  BY DEF AInv, SInv
<1>2. Guards' = Guards /\ Client' = Client /\ Timed' = Timed
  BY ProgramKept DEF Timed
<1>3. TypeOK'
  BY <1>1, TypeOKStep
<1>4. pc[Reader] \in DisablePcs /\ DisableNext =>
           /\ i' \in 1..hi /\ pc'[Reader] \in {"altend", "disable"}
           /\ pc' = [pc EXCEPT ![Reader] = pc'[Reader]]
           /\ pc'[Reader] = "altend" => i = IF Client = "occam" THEN 1 ELSE hi
           /\ pc'[Reader] = "disable" => i' = IF Client = "occam" THEN i - 1 ELSE i + 1
  BY <1>1, NextGuard
<1>5. AfterReady => StartDisable(i)
  BY <1>1, Program DEF AfterReady, JumpsWhenReady
<1>6. pend > 0 =>
           pc[Reader] \notin {"top", "io", "ioSwap", "ioTake", "ioCopy", "xSwap", "xRestore", "xend"}
  BY DEF AInv, SInv, Counts, InAlt
<1>7. Offers /\ Waking /\ ReadyKept /\ Selecting
  BY <1>1, ReadyStep DEF SInv
<1>8. pc[Reader] \in EnablePcs \cup WaitPcs /\ ChannelFires => ChannelFires'
  BY ChannelFiresKept
<1>9. /\ InAlt => slot \in States
      /\ pc[Reader] \in EnablePcs \cup WaitPcs \cup DisablePcs \cup {"altend", "altDec"} => InAlt
      /\ pend > 0 => slot \in States /\ slot.n > 0
  BY <1>1, SlotFacts DEF InAlt, EnablePcs, WaitPcs, DisablePcs
<1>10. DOMAIN Guards = 1..Len(Guards) /\ Len(Guards) \in Nat /\ Client \in {"occam", "ProcAlt"}
       /\ \A k \in DOMAIN Guards : Guards[k] \in Chans \cup {TIMER, SKIP}
  BY <1>1, Program DEF JumpsWhenReady
<1>11. pc[Reader] \in DisablePcs /\ GuardFires =>
           \/ GuardFires'
           \/ temp' \in DOMAIN Guards
           \/ temp' = temp /\ Client = "ProcAlt" /\ temp = Stale
  BY GuardFiresKept
<1>12. /\ ChannelFires => GuardFires
       /\ ChannelFires' => GuardFires'
  BY DEF ChannelFires, GuardFires, Fires
<1>13. pc[Reader] \notin DisablePcs \cup WaitPcs \cup EnablePcs => ~GuardFires
  BY DEF GuardFires, Left, DisablePcs, WaitPcs, EnablePcs
<1> USE DEF TypeOK, Procs, Indices, Selecting, ReadyKept, Guard, NoneSelected, Stale,
            EnablePcs, WaitPcs, DisablePcs, EndPcs
<1>14. CASE UNCHANGED vars
  BY <1>14, <1>1, <1>2, <1>3, <1>4, <1>5, <1>6, Distinct, <1>7, <1>8, <1>9, <1>10, <1>11,
     <1>12, <1>13 DEF vars, altvars, ghosts
<1>15. CASE IoRead(Reader)
  BY <1>15, <1>1, <1>2, <1>3, <1>4, <1>5, <1>6, Distinct, <1>7, <1>8, <1>9, <1>10,
     <1>11, <1>12, <1>13 DEF IoRead, altvars, ghosts, At, Goto, IoChan
<1>16. CASE IoSwap(Reader)
  BY <1>16, <1>1, <1>2, <1>3, <1>4, <1>5, <1>6, Distinct, <1>7, <1>8, <1>9, <1>10,
     <1>11, <1>12, <1>13 DEF IoSwap, altvars, ghosts, At, Goto, IoChan, Deschedule
<1>17. CASE IoTake(Reader)
  BY <1>17, <1>1, <1>2, <1>3, <1>4, <1>5, <1>6, Distinct, <1>7, <1>8, <1>9, <1>10,
     <1>11, <1>12, <1>13 DEF IoTake, altvars, ghosts, At, Goto, IoChan
<1>18. CASE IoCopy(Reader)
  BY <1>18, <1>1, <1>2, <1>3, <1>4, <1>5, <1>6, Distinct, <1>7, <1>8, <1>9, <1>10,
     <1>11, <1>12, <1>13 DEF IoCopy, altvars, ghosts, At, Goto, IoChan, Transfer, Enqueue
<1>19. ASSUME NEW c \in Chans, IoRead(c) PROVE Selecting'
  <2>1. /\ pc'[Reader] = pc[Reader] /\ slot' = slot /\ run' = run /\ pend' = pend
           /\ chan' = chan
        /\ temp' = temp /\ i' = i /\ hi' = hi /\ tlink' = tlink /\ tfield' = tfield /\ node' = node
    BY <1>19, <1>1, Distinct DEF IoRead, Goto, TypeOK, Procs, altvars
  <2>2. GuardFires' <=> GuardFires
    BY <2>1, <1>2 DEF GuardFires, Left, Fires, TimePassed
  <2> QED
    BY <2>1, <2>2, <1>2, <1>7 DEF Selecting, DisablePcs, EndPcs
<1>20. ASSUME NEW c \in Chans, IoSwap(c) PROVE Selecting'
  <2>1. CASE chan[c] = Tagged /\ InAlt
    <3>1. GuardFires'
      BY <1>20, <2>1, <1>12, WriterFires
    <3>2. pc'[Reader] = pc[Reader] /\ slot' = slot /\ run'[Reader] = run[Reader] /\ temp' = temp
      BY <1>20, <1>1, Distinct DEF IoSwap, IoChan, Goto, Deschedule, TypeOK, Procs, altvars
    <3> QED
      BY <3>1, <3>2, <1>1, <1>2, <1>7 DEF Selecting, ReadyKept, EnablePcs, WaitPcs,
         DisablePcs, EndPcs
  <2>2. CASE chan[c] = Tagged /\ ~InAlt
    BY <1>20, <2>2, <1>1, <1>9, OfferInAlt DEF Words, IoSwap, IoChan, At, Goto, TypeOK, Procs
  <2>3. CASE chan[c] # Tagged
    <3>1. pc'[Reader] = pc[Reader] /\ slot' = slot /\ run'[Reader] = run[Reader]
          /\ temp' = temp /\ pend' = pend
      BY <1>20, <2>3, <1>1, Distinct DEF IoSwap, IoChan, Goto, Deschedule, TypeOK, Procs,
         altvars
    <3> QED
      BY <3>1, <1>1, <1>2, <1>3, <1>4, <1>5, <1>6, Distinct, <1>7, <1>8, <1>9, <1>10, <1>11,
         <1>12, <1>13
  <2> QED
    BY <2>1, <2>2, <2>3
<1>21. ASSUME NEW c \in Chans, IoTake(c) PROVE Selecting'
  BY <1>21, <1>1, <1>2, <1>3, <1>4, <1>5, <1>6, Distinct, <1>7, <1>8, <1>9, <1>10,
     <1>11, <1>12, <1>13 DEF IoTake, altvars, ghosts, At, Goto, IoChan
<1>22. ASSUME NEW c \in Chans, IoCopy(c) PROVE Selecting'
  <2>1. pc[Reader] = "top"
    BY <1>22, <1>1 DEF IoCopy, At, Writers, Awaits
  <2> QED
    BY <1>22, <2>1, <1>1, Distinct DEF IoCopy, Goto, TypeOK, Procs, DisablePcs, EndPcs
<1>23. ASSUME NEW c \in Chans, Output(c) PROVE Selecting'
  BY <1>23, <1>1, <1>2, <1>3, <1>4, <1>5, <1>6, Distinct, <1>7, <1>8, <1>9, <1>10,
     <1>11, <1>12, <1>13 DEF Output, altvars, ghosts, At, Goto
<1>24. ASSUME NEW c \in Chans, Input(c) PROVE Selecting'
  BY <1>24, <1>1, <1>2, <1>3, <1>4, <1>5, <1>6, Distinct, <1>7, <1>8, <1>9, <1>10,
     <1>11, <1>12, <1>13 DEF Input, altvars, ghosts, At, Goto
<1>25. ASSUME NEW c \in Chans, Xable(c) PROVE Selecting'
  BY <1>25, <1>1, <1>2, <1>3, <1>4, <1>5, <1>6, Distinct, <1>7, <1>8, <1>9, <1>10,
     <1>11, <1>12, <1>13 DEF Xable, altvars, ghosts, At, Goto
<1>26. CASE XSwap
  BY <1>26, <1>1, <1>2, <1>3, <1>4, <1>5, <1>6, Distinct, <1>7, <1>8, <1>9, <1>10,
     <1>11, <1>12, <1>13 DEF XSwap, altvars, ghosts, At, Goto, Deschedule
<1>27. CASE XRestore
  BY <1>27, <1>1, <1>2, <1>3, <1>4, <1>5, <1>6, Distinct, <1>7, <1>8, <1>9, <1>10,
     <1>11, <1>12, <1>13 DEF XRestore, altvars, ghosts, At, Goto
<1>28. CASE Xin
  BY <1>28, <1>1, <1>2, <1>3, <1>4, <1>5, <1>6, Distinct, <1>7, <1>8, <1>9, <1>10,
     <1>11, <1>12, <1>13 DEF Xin, altvars, ghosts, At, Goto, Transfer
<1>29. CASE Xend
  BY <1>29, <1>1, <1>2, <1>3, <1>4, <1>5, <1>6, Distinct, <1>7, <1>8, <1>9, <1>10,
     <1>11, <1>12, <1>13 DEF Xend, altvars, ghosts, At, Goto, Enqueue
<1>30. CASE Alt
  BY <1>30, <1>1, <1>2, <1>3, <1>4, <1>5, <1>6, Distinct, <1>7, <1>8, <1>9, <1>10,
     <1>11, <1>12, <1>13 DEF Alt, altvars, ghosts, At, Goto
<1>31. CASE EnableChannel
  BY <1>31, <1>1, <1>2, <1>3, <1>4, <1>5, <1>6, Distinct, <1>7, <1>8, <1>9, <1>10,
     <1>11, <1>12, <1>13 DEF EnableChannel, altvars, ghosts, At, Goto, EnableDone
<1>32. CASE EnableTimer
  BY <1>32, <1>1, <1>2, <1>3, <1>4, <1>5, <1>6, Distinct, <1>7, <1>8, <1>9, <1>10,
     <1>11, <1>12, <1>13 DEF EnableTimer, altvars, ghosts, At, Goto, EnableDone
<1>33. CASE EnableSkip
  BY <1>33, <1>1, <1>2, <1>3, <1>4, <1>5, <1>6, Distinct, <1>7, <1>8, <1>9, <1>10,
     <1>11, <1>12, <1>13 DEF EnableSkip, altvars, ghosts, At, Goto
<1>34. CASE EnbSwap
  BY <1>34, <1>1, <1>2, <1>3, <1>4, <1>5, <1>6, Distinct, <1>7, <1>8, <1>9, <1>10,
     <1>11, <1>12, <1>13 DEF EnbSwap, altvars, ghosts, At, Goto
<1>35. CASE EnbInc
  BY <1>35, <1>1, <1>2, <1>3, <1>4, <1>5, <1>6, Distinct, <1>7, <1>8, <1>9, <1>10,
     <1>11, <1>12, <1>13, StateOps DEF EnbInc, altvars, ghosts, At, Goto, EnableDone
<1>36. CASE EnbRestore
  BY <1>36, <1>1, <1>2, <1>3, <1>4, <1>5, <1>6, Distinct, <1>7, <1>8, <1>9, <1>10,
     <1>11, <1>12, <1>13 DEF EnbRestore, altvars, ghosts, At, Goto
<1>37. CASE EnbReady
  <2>1. i \in DOMAIN Guards /\ Fires(i) /\ temp = Stale
    BY <1>37, <1>1, <1>7 DEF EnbReady, At, Waking
  <2>2. CASE pc'[Reader] # "disable"
    BY <1>37, <2>2, <1>1, <1>5 DEF EnbReady, At, Goto, StartDisable
  <2>3. CASE pc'[Reader] = "disable"
    <3>1. hi' = i /\ i' = (IF Client = "occam" THEN hi' ELSE 1) /\ chan' = chan
          /\ tlink' = tlink /\ tfield' = tfield /\ node' = node /\ prog' = prog
      BY <1>37, <2>3, <1>1, <1>5 DEF EnbReady, At, Goto, StartDisable, altvars, ghosts
    <3>2. i \in Left'
      BY <1>2, <1>10, <2>1, <2>3, <3>1, DisablingStarts
    <3>3. \E k \in Left' :
             \/ Guards[k] = SKIP
             \/ Guards[k] \in Chans /\ chan[Guards[k]] = Guards[k]
             \/ Guards[k] = TIMER /\ (TimePassed \/ (tlink = "node" /\ node = NP))
      BY <2>1, <3>2 DEF Fires
    <3>4. GuardFires'
      BY <3>1, <3>3, <1>2 DEF GuardFires, Fires, TimePassed
    <3>5. Client = "ProcAlt" => temp' = i \/ (temp' = Stale /\ "ENABLING" \in slot'.flags)
      BY <1>37, <2>1, <2>3, <1>1 DEF EnbReady, At, Counts, altvars, EnablePcs, Goto
    <3>6. Client # "ProcAlt" => temp' = Stale
      BY <1>37, <2>1, <1>10 DEF EnbReady, altvars
    <3>7. temp' \in DOMAIN Guards => temp' = i
      BY <3>5, <3>6, <1>10 DEF Stale
    <3>8. Guards[i] \in Chans => Guards[i] # SKIP /\ Guards[i] # TIMER
      BY Distinct
    <3>9. temp' \in DOMAIN Guards
          /\ Guards[temp'] \in Chans => chan'[Guards[temp']] = Guards[temp']
      BY <2>1, <3>1, <3>7, <3>8 DEF Fires
    <3>10. Client = "ProcAlt" /\ temp' = Stale => "ENABLING" \in slot'.flags
      BY <2>1, <3>5, <1>10 DEF Stale
    <3> QED
      BY <2>3, <3>4, <3>9, <3>10, <1>2 DEF Selecting
  <2> QED
    BY <2>2, <2>3
<1>38. CASE EnbClear
  <2>1. i \in DOMAIN Guards /\ Fires(i) /\ temp = Stale
    BY <1>38, <1>1, <1>7 DEF EnbClear, At, Waking
  <2>2. CASE pc'[Reader] # "disable"
    BY <1>38, <2>2, <1>1, <1>5 DEF EnbClear, At, Goto, StartDisable
  <2>3. CASE pc'[Reader] = "disable"
    <3>1. hi' = i /\ i' = (IF Client = "occam" THEN hi' ELSE 1) /\ chan' = chan
          /\ tlink' = tlink /\ tfield' = tfield /\ node' = node /\ prog' = prog
      BY <1>38, <2>3, <1>1, <1>5 DEF EnbClear, At, Goto, StartDisable, altvars, ghosts
    <3>2. i \in Left'
      BY <1>2, <1>10, <2>1, <2>3, <3>1, DisablingStarts
    <3>3. \E k \in Left' :
             \/ Guards[k] = SKIP
             \/ Guards[k] \in Chans /\ chan[Guards[k]] = Guards[k]
             \/ Guards[k] = TIMER /\ (TimePassed \/ (tlink = "node" /\ node = NP))
      BY <2>1, <3>2 DEF Fires
    <3>4. GuardFires'
      BY <3>1, <3>3, <1>2 DEF GuardFires, Fires, TimePassed
    <3>5. Client = "ProcAlt" => temp' = i \/ (temp' = Stale /\ "ENABLING" \in slot'.flags)
      BY <1>38, <2>1, <2>3, <1>1 DEF EnbClear, At, Counts, altvars, EnablePcs, Goto
    <3>6. Client # "ProcAlt" => temp' = Stale
      BY <1>38, <2>1, <1>10 DEF EnbClear, altvars
    <3>7. temp' \in DOMAIN Guards => temp' = i
      BY <3>5, <3>6, <1>10 DEF Stale
    <3>8. Guards[i] \in Chans => Guards[i] # SKIP /\ Guards[i] # TIMER
      BY Distinct
    <3>9. temp' \in DOMAIN Guards
          /\ Guards[temp'] \in Chans => chan'[Guards[temp']] = Guards[temp']
      BY <2>1, <3>1, <3>7, <3>8 DEF Fires
    <3>10. Client = "ProcAlt" /\ temp' = Stale => "ENABLING" \in slot'.flags
      BY <2>1, <3>5, <1>10 DEF Stale
    <3> QED
      BY <2>3, <3>4, <3>9, <3>10, <1>2 DEF Selecting
  <2> QED
    BY <2>2, <2>3
<1>39. CASE Wait
  BY <1>39, <1>1, <1>2, <1>3, <1>4, <1>5, <1>6, Distinct, <1>7, <1>8, <1>9, <1>10,
     <1>11, <1>12, <1>13 DEF Wait, altvars, ghosts, At, Goto
<1>40. CASE WaitCas
  <2>1. pend' = pend /\ run'[Reader] = "descheduled" /\ temp' = NoneSelected
        /\ pc'[Reader] = "disable"
    BY <1>40, <1>1, <1>7 DEF WaitCas, Deschedule, StartDisable, Goto, Waking, At
  <2>2. pend > 0 => GuardFires'
    BY <1>40, <1>1, <1>7, <1>8, <1>12 DEF WaitCas, Waking, At
  <2> QED
    BY <2>1, <2>2, <1>1, <1>2, <1>10
<1>41. CASE WaitCasFails
  BY <1>41, <1>1, <1>2, <1>3, <1>4, <1>5, <1>6, Distinct, <1>7, <1>8, <1>9, <1>10,
     <1>11, <1>12, <1>13 DEF WaitCasFails, altvars, ghosts, At, Goto
<1>42. CASE WaitOut
  <2>1. temp' = NoneSelected /\ pc'[Reader] = "disable"
    BY <1>42, <1>1, <1>7 DEF WaitOut, StartDisable, Goto, Waking, At
  <2>2. CASE ChannelFires
    BY <1>42, <2>1, <2>2, <1>1, <1>2, <1>8, <1>10, <1>12 DEF WaitOut, At
  <2>3. CASE Timed /\ tlink = "set" /\ now
    <3>1. PICK k \in DOMAIN Guards : Guards[k] = TIMER
      BY <2>3 DEF Timed
    <3>2. hi' = Len(Guards) /\ hi' \in DOMAIN Guards /\ i' = IF Client = "occam" THEN hi' ELSE 1
      BY <1>42, <1>1, <1>10, Program DEF WaitOut, At, StartDisable
    <3>3. k \in Left'
      BY <1>2, <2>1, <3>1, <3>2, <1>10, DisablingStarts
    <3>4. tlink' = "set" /\ tfield' = "past"
      BY <1>42, <2>3 DEF WaitOut
    <3>5. Fires(k)'
      BY <3>1, <3>4, <1>2 DEF Fires, TimePassed
    <3> QED
      BY <2>1, <3>3, <3>5, <1>2, <1>10 DEF GuardFires
  <2> QED
    BY <1>42, <2>2, <2>3, <1>7 DEF Waking, WaitOut, At
<1>43. CASE DisableChannel
  BY <1>43, <1>1, <1>2, <1>3, <1>4, <1>5, <1>6, Distinct, <1>7, <1>8, <1>9, <1>10,
     <1>11, <1>12, <1>13 DEF DisableChannel, altvars, ghosts, At, Goto, Fired
<1>44. CASE DisCas
  BY <1>44, <1>1, <1>2, <1>3, <1>4, <1>5, <1>6, Distinct, <1>7, <1>8, <1>9, <1>10,
     <1>11, <1>12, <1>13 DEF DisCas, altvars, ghosts, At, Goto, Fired, ReaderIo
<1>45. CASE DisDec
  <2>1. slot'.flags = slot.flags
    BY <1>45, <1>9, StateOps DEF DisDec, Disabled, At, DisablePcs
  <2>2. temp' = temp /\ chan' = chan /\ pc'[Reader] \in {"disable", "altend"} /\ run' = run
        /\ pend' = pend
    BY <1>45, <1>4 DEF DisDec, At, DisablePcs
  <2> QED
    BY <1>45, <2>1, <2>2, <1>1, <1>2, <1>7, <1>10, <1>11
       DEF Selecting, DisDec, At, DisablePcs, EndPcs
<1>46. CASE DisableTimer
  BY <1>46, <1>1, <1>2, <1>3, <1>4, <1>5, <1>6, Distinct, <1>7, <1>8, <1>9, <1>10,
     <1>11, <1>12, <1>13 DEF DisableTimer, altvars, ghosts, At, Goto, Fired
<1>47. CASE DisableSkip
  BY <1>47, <1>1, <1>2, <1>3, <1>4, <1>5, <1>6, Distinct, <1>7, <1>8, <1>9, <1>10,
     <1>11, <1>12, <1>13 DEF DisableSkip, altvars, ghosts, At, Goto, Fired
<1>48. CASE AltEnd
  BY <1>48, <1>1, <1>2, <1>3, <1>4, <1>5, <1>6, Distinct, <1>7, <1>8, <1>9, <1>10,
     <1>11, <1>12, <1>13, StateWord DEF AltEnd, altvars, ghosts, At, Goto
<1>49. CASE AltDec
  <2>1. slot'.flags = slot.flags
    <3>1. slot \in States
      BY <1>49, <1>9 DEF AltDec, At
    <3> QED
      BY <1>49, <3>1, StateOps DEF AltDec
  <2>2. slot' = Zero => slot'.flags = {}
    BY FixedStates
  <2>3. temp' = temp /\ chan' = chan /\ pc'[Reader] = "selected" /\ pend' = pend
    BY <1>49, <1>1 DEF AltDec, At, Goto, altvars, TypeOK, Procs
  <2>4. slot' = Zero \/ run'[Reader] = "descheduled"
    BY <1>49, <1>1 DEF AltDec, Deschedule, TypeOK, Procs
  <2> QED
    BY <1>49, <2>1, <2>2, <2>3, <2>4, <1>1, <1>2, <1>7, <1>10, <1>13
       DEF Selecting, AltDec, At, DisablePcs, EndPcs, WaitPcs, EnablePcs
<1>50. CASE Selected
  BY <1>50, <1>1, <1>2, <1>3, <1>4, <1>5, <1>6, Distinct, <1>7, <1>8, <1>9, <1>10,
     <1>11, <1>12, <1>13 DEF Selected, altvars, ghosts, At, Goto
<1>51. CASE Trigger
  <2>1. slot'.flags = slot.flags \ {"NOT_READY", "WAITING"} /\ pc' = pc /\ temp' = temp
        /\ chan' = chan
    BY <1>51, <1>9, StateOps DEF Trigger, altvars
  <2>2. slot' = Zero => slot'.flags = {}
    BY FixedStates
  <2>3. run' = run \/ "WAITING" \in slot.flags \/ slot' = Zero
    BY <1>51 DEF Trigger
  <2>4. pc[Reader] = "selected" =>
            (run[Reader] = "running" /\ pend = 0) \/ "WAITING" \notin slot.flags
    BY <1>1 DEF Counts
  <2>5. "ENABLING" \in slot.flags <=> "ENABLING" \in slot'.flags
    BY <2>1
  <2>6. pend > 0
    BY <1>51 DEF Trigger
  <2>7. GuardFires' <=> GuardFires
    BY <1>51, <1>2 DEF Trigger, GuardFires, Fires, TimePassed, Left, altvars
  <2> QED
    BY <2>1, <2>2, <2>3, <2>4, <2>5, <2>6, <2>7, <1>1, <1>2, <1>7
<1>52. CASE Tick
  BY <1>52, <1>1, <1>2, <1>3, <1>4, <1>5, <1>6, Distinct, <1>7, <1>8, <1>9, <1>10,
     <1>11, <1>12, <1>13 DEF Tick, altvars, ghosts, At, Goto
<1>53. CASE Expire
  <2>1. OnOffer(TIMER) /\ tlink = "node" /\ pc[Reader] \in DisablePcs
    BY <1>53, <1>1, Distinct DEF Expire, TimerNode, OnOffer, Left, EnablePcs, WaitPcs,
       DisablePcs
  <2>2. OnOffer(TIMER)' /\ tlink' = "node" /\ node' = NP
    BY <1>53, <1>2, <2>1 DEF Expire, altvars, OnOffer, Left
  <2>3. GuardFires'
    BY <1>2, <2>2 DEF GuardFires, OnOffer, Fires
  <2> QED
    BY <1>53, <2>3, <1>1, <1>2, <1>7 DEF Expire, altvars
<1> QED
  BY <1>14, <1>15, <1>16, <1>17, <1>18, <1>19, <1>20, <1>21, <1>22, <1>23, <1>24,
     <1>25, <1>26, <1>27, <1>28, <1>29, <1>30, <1>31, <1>32, <1>33, <1>34, <1>35,
     <1>36, <1>37, <1>38, <1>39, <1>40, <1>41, <1>42, <1>43, <1>44, <1>45, <1>46,
     <1>47, <1>48, <1>49, <1>50, <1>51, <1>52, <1>53
     DEF Next, ReaderStep, WriterStep, Begin, Enabling, AltWait, Disabling, Extended, Io

(* A compiled ALT prefers the first guard.                                  *)
LEMMA PriorityStep == SInv /\ [Next]_vars => Priority'
<1> SUFFICES ASSUME SInv, [Next]_vars PROVE Priority'
  OBVIOUS
<1>1. TypeOK /\ Indices /\ Writers /\ Words /\ ReaderIo /\ JumpsWhenReady /\ TimerNode
      /\ Counts /\ AInv
  BY DEF AInv, SInv
<1>2. Guards' = Guards /\ Client' = Client /\ Timed' = Timed
  BY ProgramKept DEF Timed
<1>3. TypeOK'
  BY <1>1, TypeOKStep
<1>4. pc[Reader] \in DisablePcs /\ DisableNext =>
           /\ i' \in 1..hi /\ pc'[Reader] \in {"altend", "disable"}
           /\ pc' = [pc EXCEPT ![Reader] = pc'[Reader]]
           /\ pc'[Reader] = "altend" => i = IF Client = "occam" THEN 1 ELSE hi
           /\ pc'[Reader] = "disable" => i' = IF Client = "occam" THEN i - 1 ELSE i + 1
  BY <1>1, NextGuard
<1>5. AfterReady => StartDisable(i)
  BY <1>1, Program DEF AfterReady, JumpsWhenReady
<1>6. pend > 0 =>
           pc[Reader] \notin {"top", "io", "ioSwap", "ioTake", "ioCopy", "xSwap", "xRestore", "xend"}
  BY DEF AInv, SInv, Counts, InAlt
<1>7. Waking /\ ReadyKept /\ Priority /\ LeftKept
  BY <1>1, ReadyStep, LeftStep DEF SInv
<1>8. Client = "occam" /\ pc[Reader] \in {"disable", "disCas"} =>
          \A k \in DOMAIN Guards : k <= hi => (k \in Left <=> k <= i)
  BY <1>1, Program DEF Left, EnablePcs, WaitPcs, DisablePcs, Indices, TypeOK
<1>9. DOMAIN Guards = 1..Len(Guards) /\ Len(Guards) \in Nat /\ Client \in {"occam", "ProcAlt"}
      /\ \A k \in DOMAIN Guards : Guards[k] \in Chans \cup {TIMER, SKIP}
  BY <1>1, Program DEF JumpsWhenReady
<1>10. \A k \in ReadyGuards : k \in DOMAIN Guards /\ Guards[k] \in Chans
       /\ chan[Guards[k]] = Guards[k]
  BY DEF ReadyGuards
<1>11. pc'[Reader] = "disable" /\ hi' \in DOMAIN Guards
       /\ i' = (IF Client = "occam" THEN hi' ELSE 1) =>
           \A k \in DOMAIN Guards : k <= hi' <=> k \in Left'
  BY <1>2, <1>9, DisablingStarts
<1>12. ASSUME NEW c \in Chans, IoRead(c) \/ IoSwap(c) PROVE Priority'
  <2>1. /\ pc'[Reader] = pc[Reader] /\ run'[Reader] = run[Reader] /\ temp' = temp
        /\ i' = i /\ hi' = hi /\ ready' = ready
    BY <1>12, <1>1, Distinct DEF TypeOK, Procs, IoRead, IoSwap, Goto, Deschedule, altvars,
       ghosts
  <2>2. \A k \in Left : k \in Left'
    BY <1>7, <2>1 DEF LeftKept, PassesGuard
  <2> QED
    BY <2>1, <2>2, <1>1, <1>2, <1>7, <1>9 DEF Priority, ReadyKept, EnablePcs
<1>13. Trigger =>
           /\ pc' = pc /\ temp' = temp /\ i' = i /\ hi' = hi /\ chan' = chan
           /\ run'[Reader] = "descheduled" => run[Reader] = "descheduled"
  BY <1>1 DEF Trigger, Enqueue, altvars, TypeOK, Procs
<1>14. Trigger => Left' = Left
  BY <1>2, <1>13 DEF Left
<1> USE <1>1, <1>2, <1>3, <1>4, <1>5, <1>6, Distinct, <1>7, <1>8, <1>9, <1>10, <1>11
<1> USE DEF TypeOK, Procs, Indices, Priority, Waking, ReadyKept, LeftKept, PassesGuard, Guard,
            NoneSelected, Stale, EnablePcs, WaitPcs, DisablePcs, EndPcs, altvars, ghosts, At,
            Goto, IoChan
<1>15. CASE UNCHANGED vars
  BY <1>15 DEF vars
<1>16. CASE IoRead(Reader)
  BY <1>16 DEF IoRead
<1>17. CASE IoSwap(Reader)
  BY <1>17 DEF IoSwap, Deschedule
<1>18. CASE IoTake(Reader)
  BY <1>18 DEF IoTake
<1>19. CASE IoCopy(Reader)
  BY <1>19 DEF IoCopy, Transfer, Enqueue
<1>20. ASSUME NEW c \in Chans, IoRead(c) PROVE Priority'
  BY <1>20, <1>12
<1>21. ASSUME NEW c \in Chans, IoSwap(c) PROVE Priority'
  BY <1>21, <1>12
<1>22. ASSUME NEW c \in Chans, IoTake(c) PROVE Priority'
  BY <1>22 DEF IoTake
<1>23. ASSUME NEW c \in Chans, IoCopy(c) PROVE Priority'
  BY <1>23 DEF IoCopy, Transfer, Enqueue
<1>24. ASSUME NEW c \in Chans, Output(c) PROVE Priority'
  BY <1>24 DEF Output
<1>25. ASSUME NEW c \in Chans, Input(c) PROVE Priority'
  BY <1>25 DEF Input
<1>26. ASSUME NEW c \in Chans, Xable(c) PROVE Priority'
  BY <1>26 DEF Xable
<1>27. CASE XSwap
  BY <1>27 DEF XSwap, Deschedule
<1>28. CASE XRestore
  BY <1>28 DEF XRestore
<1>29. CASE Xin
  BY <1>29 DEF Xin, Transfer
<1>30. CASE Xend
  BY <1>30 DEF Xend, Enqueue
<1>31. CASE Alt
  BY <1>31 DEF Alt
<1>32. CASE EnableChannel
  BY <1>32 DEF EnableChannel, EnableDone
<1>33. CASE EnableTimer
  BY <1>33 DEF EnableTimer, EnableDone
<1>34. CASE EnableSkip
  BY <1>34 DEF EnableSkip
<1>35. CASE EnbSwap
  BY <1>35 DEF EnbSwap
<1>36. CASE EnbInc
  BY <1>36 DEF EnbInc, EnableDone
<1>37. CASE EnbRestore
  BY <1>37 DEF EnbRestore
<1>38. CASE EnbReady
  BY <1>38 DEF EnbReady, StartDisable
<1>39. CASE EnbClear
  BY <1>39 DEF EnbClear, StartDisable
<1>40. CASE Wait
  BY <1>40 DEF Wait
<1>41. CASE WaitCas
  BY <1>41 DEF WaitCas, StartDisable, Deschedule
<1>42. CASE WaitCasFails
  BY <1>42 DEF WaitCasFails
<1>43. CASE WaitOut
  BY <1>43 DEF WaitOut, StartDisable
<1>44. CASE DisableChannel
  BY <1>44 DEF DisableChannel, Fired
<1>45. CASE DisCas
  BY <1>45 DEF DisCas, Fired
<1>46. CASE DisDec
  BY <1>46 DEF DisDec, Disabled
<1>47. CASE DisableTimer
  BY <1>47 DEF DisableTimer, Fired
<1>48. CASE DisableSkip
  BY <1>48 DEF DisableSkip, Fired
<1>49. CASE AltEnd
  BY <1>49 DEF AltEnd
<1>50. CASE AltDec
  BY <1>50 DEF AltDec, Deschedule
<1>51. CASE Selected
  BY <1>51 DEF Selected
<1>52. CASE Trigger
  <2>1. pc' = pc /\ temp' = temp /\ i' = i /\ hi' = hi /\ chan' = chan
    BY <1>52, <1>13
  <2>2. run'[Reader] = "descheduled" => run[Reader] = "descheduled"
    BY <1>52, <1>13
  <2>3. Left' = Left
    BY <1>52, <1>14
  <2>4. CASE ready' = ready
    BY <2>1, <2>2, <2>3, <2>4
  <2>5. CASE InAlt /\ "WAITING" \in slot.flags /\ ready' = ReadyGuards
    <3>1. pc[Reader] = "disable" /\ run[Reader] = "descheduled"
      BY <2>5 DEF Counts, ReaderIo, InAlt
    <3>2. Client = "occam" => temp <= hi /\ \A k \in ready' : k <= hi => k \in Left
      BY <2>5, <3>1
    <3> QED
      BY <2>1, <2>2, <2>3, <2>5, <3>1, <3>2
  <2> QED
    BY <1>52, <2>4, <2>5 DEF Trigger
<1>53. CASE Tick
  BY <1>53 DEF Tick
<1>54. CASE Expire
  BY <1>54 DEF Expire
<1> QED
  BY <1>15, <1>16, <1>17, <1>18, <1>19, <1>20, <1>21, <1>22, <1>23, <1>24, <1>25,
     <1>26, <1>27, <1>28, <1>29, <1>30, <1>31, <1>32, <1>33, <1>34, <1>35, <1>36,
     <1>37, <1>38, <1>39, <1>40, <1>41, <1>42, <1>43, <1>44, <1>45, <1>46, <1>47,
     <1>48, <1>49, <1>50, <1>51, <1>52, <1>53, <1>54
     DEF Next, ReaderStep, WriterStep, Begin, Enabling, AltWait, Disabling, Extended, Io

(* A TIMER guard fires in time.                                             *)
LEMMA DeadlinesStep == DInv /\ [Next]_vars => Deadlines'
<1> SUFFICES ASSUME DInv, [Next]_vars PROVE Deadlines'
  OBVIOUS
<1>1. TypeOK /\ Indices /\ Writers /\ Words /\ ReaderIo /\ JumpsWhenReady /\ TimerNode
      /\ Counts /\ AInv
  BY DEF AInv, SInv, DInv
<1>2. Guards' = Guards /\ Client' = Client /\ Timed' = Timed
  BY ProgramKept DEF Timed
<1>3. TypeOK'
  BY <1>1, TypeOKStep
<1>4. pc[Reader] \in DisablePcs /\ DisableNext =>
           /\ i' \in 1..hi /\ pc'[Reader] \in {"altend", "disable"}
           /\ pc' = [pc EXCEPT ![Reader] = pc'[Reader]]
           /\ pc'[Reader] = "altend" => i = IF Client = "occam" THEN 1 ELSE hi
           /\ pc'[Reader] = "disable" => i' = IF Client = "occam" THEN i - 1 ELSE i + 1
  BY <1>1, NextGuard
<1>5. AfterReady => StartDisable(i)
  BY <1>1, Program DEF AfterReady, JumpsWhenReady
<1>6. pend > 0 =>
           pc[Reader] \notin {"top", "io", "ioSwap", "ioTake", "ioCopy", "xSwap", "xRestore", "xend"}
  BY DEF DInv, SInv, AInv, Counts, InAlt
<1>7. Waking /\ Deadlines /\ TimerLast
  BY DEF SInv, DInv
<1>8. DOMAIN Guards = 1..Len(Guards) /\ Len(Guards) \in Nat /\ Client \in {"occam", "ProcAlt"}
      /\ \A k \in DOMAIN Guards : Guards[k] \in Chans \cup {TIMER, SKIP}
  BY <1>1, Program DEF JumpsWhenReady
<1>9. EnableTimer => Timed /\ i = Len(Guards)
  BY <1>1, <1>7 DEF Timed, EnableTimer, Guard, Indices, EnablePcs, At, TimerLast
<1>10. \A c \in Chans : IoSwap(c) =>
           /\ pc'[Reader] = pc[Reader] /\ i' = i /\ temp' = temp /\ node' = node /\ due' = due
           /\ now' = now /\ tlink' = tlink /\ tfield' = tfield
  BY <1>1, Distinct DEF TypeOK, Procs, IoSwap, Goto, altvars
<1>11. pc'[Reader] \notin EnablePcs \cup WaitPcs \cup DisablePcs \cup EndPcs => Deadlines'
  BY <1>2 DEF Deadlines, InAlt, EnablePcs, WaitPcs, DisablePcs, EndPcs
<1>12. \/ IoRead(Reader) \/ IoSwap(Reader) \/ XSwap \/ XRestore \/ Xin \/ Xend \/ Selected
       \/ \E c \in Chans : Input(c) \/ Xable(c)
       => pc'[Reader] \in {"top", "io", "ioSwap", "ioTake", "xSwap", "xRestore", "xin", "xend"}
  BY <1>1 DEF TypeOK, Procs, Goto, IoRead, IoSwap, Input, Xable, XSwap, XRestore, Xin, Xend,
     Selected
<1>13. \A c \in Chans : IoRead(c) =>
           /\ pc'[Reader] = pc[Reader] /\ i' = i /\ temp' = temp /\ node' = node /\ due' = due
           /\ now' = now /\ tlink' = tlink /\ tfield' = tfield
  BY <1>1, Distinct DEF TypeOK, Procs, IoRead, Goto, altvars
<1> USE <1>1, <1>2, <1>3, <1>4, <1>5, <1>6, Distinct, <1>7, <1>8, <1>9
<1> USE DEF TypeOK, Procs, Indices, Deadlines, Waking, TimerNode, InAlt, Guard, NoneSelected,
            Stale, EnablePcs, WaitPcs, DisablePcs, EndPcs, altvars, ghosts, At, Goto, IoChan
<1>14. CASE UNCHANGED vars
  BY <1>14 DEF vars
<1>15. CASE IoRead(Reader)
  <2>1. pc'[Reader] \in {"top", "io", "ioSwap", "ioTake", "xSwap", "xRestore", "xin", "xend"}
    BY <1>15, <1>12
  <2> HIDE DEF Deadlines
  <2> QED
    BY <2>1, <1>11
<1>16. CASE IoSwap(Reader)
  <2>1. pc'[Reader] \in {"top", "io", "ioSwap", "ioTake", "xSwap", "xRestore", "xin", "xend"}
    BY <1>16, <1>12
  <2> HIDE DEF Deadlines
  <2> QED
    BY <2>1, <1>11
<1>17. CASE IoTake(Reader)
  BY <1>17 DEF IoTake
<1>18. CASE IoCopy(Reader)
  BY <1>18 DEF IoCopy, Transfer, Enqueue
<1>19. ASSUME NEW c \in Chans, IoRead(c) PROVE Deadlines'
  <2>1. pc'[Reader] = pc[Reader] /\ i' = i /\ temp' = temp /\ node' = node /\ due' = due
        /\ now' = now
        /\ tlink' = tlink /\ tfield' = tfield
    BY <1>13, <1>19
  <2> QED
    BY <2>1 DEF Timed
<1>20. ASSUME NEW c \in Chans, IoSwap(c) PROVE Deadlines'
  <2>1. pc'[Reader] = pc[Reader] /\ i' = i /\ temp' = temp /\ node' = node /\ due' = due
        /\ now' = now
        /\ tlink' = tlink /\ tfield' = tfield
    BY <1>10, <1>20
  <2> QED
    BY <2>1 DEF Timed
<1>21. ASSUME NEW c \in Chans, IoTake(c) PROVE Deadlines'
  BY <1>21 DEF IoTake
<1>22. ASSUME NEW c \in Chans, IoCopy(c) PROVE Deadlines'
  BY <1>22 DEF IoCopy, Transfer, Enqueue
<1>23. ASSUME NEW c \in Chans, Output(c) PROVE Deadlines'
  BY <1>23 DEF Output
<1>24. ASSUME NEW c \in Chans, Input(c) PROVE Deadlines'
  <2>1. pc'[Reader] \in {"top", "io", "ioSwap", "ioTake", "xSwap", "xRestore", "xin", "xend"}
    BY <1>24, <1>12
  <2> HIDE DEF Deadlines
  <2> QED
    BY <2>1, <1>11
<1>25. ASSUME NEW c \in Chans, Xable(c) PROVE Deadlines'
  <2>1. pc'[Reader] \in {"top", "io", "ioSwap", "ioTake", "xSwap", "xRestore", "xin", "xend"}
    BY <1>25, <1>12
  <2> HIDE DEF Deadlines
  <2> QED
    BY <2>1, <1>11
<1>26. CASE XSwap
  <2>1. pc'[Reader] \in {"top", "io", "ioSwap", "ioTake", "xSwap", "xRestore", "xin", "xend"}
    BY <1>26, <1>12
  <2> HIDE DEF Deadlines
  <2> QED
    BY <2>1, <1>11
<1>27. CASE XRestore
  <2>1. pc'[Reader] \in {"top", "io", "ioSwap", "ioTake", "xSwap", "xRestore", "xin", "xend"}
    BY <1>27, <1>12
  <2> HIDE DEF Deadlines
  <2> QED
    BY <2>1, <1>11
<1>28. CASE Xin
  <2>1. pc'[Reader] \in {"top", "io", "ioSwap", "ioTake", "xSwap", "xRestore", "xin", "xend"}
    BY <1>28, <1>12
  <2> HIDE DEF Deadlines
  <2> QED
    BY <2>1, <1>11
<1>29. CASE Xend
  <2>1. pc'[Reader] \in {"top", "io", "ioSwap", "ioTake", "xSwap", "xRestore", "xin", "xend"}
    BY <1>29, <1>12
  <2> HIDE DEF Deadlines
  <2> QED
    BY <2>1, <1>11
<1>30. CASE Alt
  BY <1>30 DEF Alt
<1>31. CASE EnableChannel
  BY <1>31 DEF EnableChannel, EnableDone
<1>32. CASE EnableTimer
  BY <1>32 DEF EnableTimer, EnableDone
<1>33. CASE EnableSkip
  BY <1>33 DEF EnableSkip
<1>34. CASE EnbSwap
  BY <1>34 DEF EnbSwap
<1>35. CASE EnbInc
  BY <1>35 DEF EnbInc, EnableDone
<1>36. CASE EnbRestore
  BY <1>36 DEF EnbRestore
<1>37. CASE EnbReady
  BY <1>37 DEF EnbReady, StartDisable
<1>38. CASE EnbClear
  BY <1>38 DEF EnbClear, StartDisable
<1>39. CASE Wait
  BY <1>39 DEF Wait
<1>40. CASE WaitCas
  BY <1>40 DEF WaitCas, StartDisable, Deschedule
<1>41. CASE WaitCasFails
  <2>1. /\ pc[Reader] = "waitCas" /\ pc'[Reader] = "waitOut" /\ node' = NP
        /\ tlink' = IF tlink = "node" THEN "set" ELSE tlink
        /\ tfield' = tfield /\ due' = due /\ now' = now /\ temp' = temp
    BY <1>41 DEF WaitCasFails
  <2> QED
    BY <2>1 DEF Timed
<1>42. CASE WaitOut
  BY <1>42 DEF WaitOut, StartDisable
<1>43. CASE DisableChannel
  BY <1>43 DEF DisableChannel, Fired
<1>44. CASE DisCas
  BY <1>44 DEF DisCas, Fired
<1>45. CASE DisDec
  BY <1>45 DEF DisDec, Disabled
<1>46. CASE DisableTimer
  BY <1>46 DEF DisableTimer, Fired, TimePassed
<1>47. CASE DisableSkip
  BY <1>47 DEF DisableSkip, Fired
<1>48. CASE AltEnd
  BY <1>48 DEF AltEnd
<1>49. CASE AltDec
  BY <1>49 DEF AltDec, Deschedule
<1>50. CASE Selected
  <2>1. pc'[Reader] \in {"top", "io", "ioSwap", "ioTake", "xSwap", "xRestore", "xin", "xend"}
    BY <1>50, <1>12
  <2> HIDE DEF Deadlines
  <2> QED
    BY <2>1, <1>11
<1>51. CASE Trigger
  BY <1>51 DEF Trigger, Enqueue
<1>52. CASE Tick
  BY <1>52 DEF Tick
<1>53. CASE Expire
  BY <1>53 DEF Expire
<1> QED
  BY <1>14, <1>15, <1>16, <1>17, <1>18, <1>19, <1>20, <1>21, <1>22, <1>23, <1>24,
     <1>25, <1>26, <1>27, <1>28, <1>29, <1>30, <1>31, <1>32, <1>33, <1>34, <1>35,
     <1>36, <1>37, <1>38, <1>39, <1>40, <1>41, <1>42, <1>43, <1>44, <1>45, <1>46,
     <1>47, <1>48, <1>49, <1>50, <1>51, <1>52, <1>53
     DEF Next, ReaderStep, WriterStep, Begin, Enabling, AltWait, Disabling, Extended, Io

(* The parts that say which guard is selected.                              *)
LEMMA InitSInv == Init /\ JumpsWhenReady => SInv
<1> SUFFICES ASSUME Init, JumpsWhenReady PROVE SInv
  OBVIOUS
<1>1. AInv
  BY InitAInv
<1>2. Offers /\ Waking /\ Selecting /\ Priority
  BY DEF Init, Procs, Offers, Waking, Selecting, Priority, EnablePcs, WaitPcs, DisablePcs,
     EndPcs
<1> QED
  BY <1>1, <1>2 DEF SInv

(* Every step keeps them.                                                   *)
LEMMA NextSInv == SInv /\ [Next]_vars => SInv'
<1> SUFFICES ASSUME SInv, [Next]_vars PROVE SInv'
  OBVIOUS
<1>1. AInv'
  BY NextAInv DEF SInv
<1> QED
  BY <1>1, OffersStep, WakingStep, SelectingStep, PriorityStep DEF SInv

(* And so the state keeps them.                                             *)
THEOREM SelectionInvariance == Spec => [](JumpsWhenReady => SInv)
<1>1. Init => (JumpsWhenReady => SInv)
  BY InitSInv
<1>2. (JumpsWhenReady => SInv) /\ [Next]_vars => (JumpsWhenReady => SInv)'
  BY ProgramKept, NextSInv DEF JumpsWhenReady
<1> QED
  BY <1>1, <1>2, PTL DEF Spec

(* The ALT of compiled occam selects no guard that comes after a channel    *)
(* that was ready when the disabling began: NDISC goes backwards and        *)
(* overwrites.                                                              *)
THEOREM FirstReadyGuard == Spec => [](JumpsWhenReady => PriAlt)
<1>1. ASSUME SInv PROVE PriAlt
  <2> SUFFICES ASSUME Client = "occam", At(Reader, "selected"), NEW k \in ready PROVE temp <= k
    BY DEF PriAlt
  <2>1. TypeOK /\ Priority
    BY <1>1 DEF SInv, AInv
  <2>2. k \notin Left
    BY DEF At, Left, EnablePcs, WaitPcs, DisablePcs
  <2>3. temp <= hi /\ (k <= hi => temp <= k)
    BY <2>1, <2>2 DEF Priority, At, EndPcs
  <2>4. temp \in Int /\ hi \in Int /\ k \in Int
    BY <2>1, Program DEF TypeOK, NoneSelected, Stale
  <2> QED
    BY <2>3, <2>4
<1> QED
  BY <1>1, SelectionInvariance, PTL

(* A program with the TIMER guard last keeps the part about timeouts.       *)
LEMMA NextDInv == DInv /\ [Next]_vars => DInv'
<1> SUFFICES ASSUME DInv, [Next]_vars PROVE DInv'
  OBVIOUS
<1>1. SInv' /\ Deadlines'
  BY NextSInv, DeadlinesStep DEF DInv
<1>2. TimerLast'
  BY ProgramKept DEF DInv, TimerLast
<1> QED
  BY <1>1, <1>2 DEF DInv

(* And so the state keeps the part about timeouts.                          *)
THEOREM DeadlineInvariance == Spec => [](JumpsWhenReady /\ TimerLast => DInv)
<1>1. Init => (JumpsWhenReady /\ TimerLast => DInv)
  <2> SUFFICES ASSUME Init, JumpsWhenReady, TimerLast PROVE DInv
    OBVIOUS
  <2>1. Deadlines
    BY DEF Init, Procs, Deadlines, InAlt, EnablePcs, WaitPcs, DisablePcs, EndPcs
  <2> QED
    BY <2>1, InitSInv DEF DInv
<1>2. (JumpsWhenReady /\ TimerLast => DInv) /\ [Next]_vars => (JumpsWhenReady
      /\ TimerLast => DInv)'
  BY ProgramKept, NextDInv DEF JumpsWhenReady, TimerLast
<1> QED
  BY <1>1, <1>2, PTL DEF Spec

(* An ALT that ends has selected a guard, and this guard can go on at once: *)
(* the writer waits in the channel word, or the timeout has passed.         *)
THEOREM SelectedIsReady == Spec => [](JumpsWhenReady /\ TimerLast => SelectsReadyGuard)
<1>1. ASSUME DInv PROVE SelectsReadyGuard
  <2> SUFFICES ASSUME At(Reader, "selected")
               PROVE  /\ temp \in DOMAIN Guards
                      /\ Guards[temp] \in Chans => chan[Guards[temp]] = Guards[temp]
                      /\ Guards[temp] = TIMER => due
    BY DEF SelectsReadyGuard
  <2>1. Selecting /\ Deadlines
    BY <1>1 DEF DInv, SInv
  <2>2. ~GuardFires
    BY DEF GuardFires, At, Left, EnablePcs, WaitPcs, DisablePcs
  <2>3. temp \in DOMAIN Guards
    BY <2>1, <2>2 DEF Selecting, At, EndPcs
  <2> QED
    BY <2>1, <2>3 DEF Selecting, Deadlines, At, EndPcs
<1> QED
  BY <1>1, DeadlineInvariance, PTL
=============================================================================
