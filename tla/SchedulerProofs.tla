-------------------------- MODULE SchedulerProofs --------------------------
(***************************************************************************)
(* Proofs about the two sources of a scheduler thread's work.              *)
(*                                                                         *)
(* Its mailbox is a FIFO queue, and it does not sleep through mail, for    *)
(* every set of senders and processes.  Mailbox!MInv is inductive: Chain,  *)
(* FrontWord and Sends say how the words of the queue follow the order of  *)
(* the swaps while enqueues are incomplete; Filled and Noticed, that what  *)
(* the owner cannot see yet has a sender who will set the sync bit; Woken, *)
(* that an owner which has announced its sleep is told.                    *)
(*                                                                         *)
(* Its run queue and the windows other threads take batches from keep      *)
(* every process in one place, and no batch is used again while another    *)
(* thread may still reach it, for every number of threads, processes,      *)
(* batches and slots.  RunQueues!RInv is inductive: the operations on      *)
(* words and lists come first, then the effect of each action in the terms *)
(* of the invariant (lemmas named ...Effect), then one lemma per conjunct  *)
(* of RInv (named ...Step).                                                *)
(***************************************************************************)
EXTENDS Mailbox, RunQueues, FiniteSetTheorems, SequenceTheorems, TLAPS

-----------------------------------------------------------------------------
(* Mailbox *)

(* What is left of the queue when the oldest process is taken out. *)
LEMMA TailFacts ==
    ASSUME posted \in Seq(Items), Len(posted) > 0, posted' = Tail(posted)
    PROVE  /\ posted' \in Seq(Items) /\ Len(posted) \in Nat
           /\ Len(posted') = Len(posted) - 1
           /\ \A i \in 1..(Len(posted) - 1) : posted'[i] = posted[i + 1]
OBVIOUS

(* A positive number is one or more than one. *)
LEMMA Positive == \A n \in Nat : n > 0 => n = 1 \/ n > 1
OBVIOUS

(* What the queue is when a process has been added. *)
LEMMA AppendFacts ==
    ASSUME posted \in Seq(Items), NEW p \in Items, posted' = Append(posted, p)
    PROVE  /\ posted' \in Seq(Items) /\ Len(posted) \in Nat
           /\ Len(posted') = Len(posted) + 1 /\ posted'[Len(posted) + 1] = p
           /\ \A i \in 1..Len(posted) : posted'[i] = posted[i]
OBVIOUS

(* Every step keeps the variables in their types. *)
LEMMA MailTypeOKStep == MInv /\ [MailNext]_mailVars => MailTypeOK'
<1> SUFFICES ASSUME MInv, [MailNext]_mailVars PROVE MailTypeOK'
  OBVIOUS
<1> USE NilAssumption, PipeAssumption
     DEF MInv, MailTypeOK, Ptr, Bits, SenderPCs, OwnerPCs, Chain, FrontWord, Sends, Taking,
        mail, sender, owner, Sent, Turn, Move
<1>1. CASE UNCHANGED mailVars
  BY <1>1 DEF mailVars
<1>2. CASE OwnerRuns BY <1>2 DEF OwnerRuns
<1>3. CASE TakeSync BY <1>3 DEF TakeSync
<1>4. CASE DeqFront BY <1>4 DEF DeqFront
<1>5. CASE DeqBack BY <1>5 DEF DeqBack
<1>6. CASE CasBack BY <1>6 DEF CasBack
<1>7. CASE CasBackFails BY <1>7 DEF CasBackFails
<1>8. CASE CasFront BY <1>8 DEF CasFront, Deliver
<1>9. CASE DeqNext BY <1>9 DEF DeqNext
<1>10. CASE SetFront BY <1>10 DEF SetFront, Deliver
<1>11. CASE After BY <1>11 DEF After
<1>12. CASE Sleep BY <1>12 DEF Sleep
<1>13. CASE Check BY <1>13 DEF Check
<1>14. CASE Awake BY <1>14 DEF Awake
<1>15. CASE Spin BY <1>15 DEF Spin
<1>16. CASE TimedOut BY <1>16 DEF TimedOut
<1>17. CASE Pause BY <1>17 DEF Pause
<1>18. CASE Read BY <1>18 DEF Read
<1>19. CASE Restore BY <1>19 DEF Restore
<1>20. ASSUME NEW s \in Senders, SwapBack(s) PROVE MailTypeOK'
  BY <1>20 DEF SwapBack
<1>21. ASSUME NEW s \in Senders, LinkIn(s) PROVE MailTypeOK'
  BY <1>21 DEF LinkIn
<1>22. ASSUME NEW s \in Senders, SetSync(s) PROVE MailTypeOK'
  BY <1>22 DEF SetSync
<1>23. ASSUME NEW s \in Senders, Look(s) PROVE MailTypeOK'
  BY <1>23 DEF Look
<1>24. ASSUME NEW s \in Senders, ClearSleeping(s) PROVE MailTypeOK'
  BY <1>24 DEF ClearSleeping
<1>25. ASSUME NEW s \in Senders, WakeSync(s) PROVE MailTypeOK'
  <2>1. bit[s] \in Bits
    OBVIOUS
  <2>2. sync' \subseteq Bits
    BY <2>1, <1>25 DEF WakeSync
  <2> QED BY <2>2, <1>25 DEF WakeSync
<1>26. ASSUME NEW s \in Senders, Write(s) PROVE MailTypeOK'
  BY <1>26 DEF Write
<1>27. ASSUME NEW s \in Senders, Alarm(s) PROVE MailTypeOK'
  BY <1>27 DEF Alarm
<1>28. ASSUME NEW s \in Senders, NEW p \in Items, Mail(s, p) PROVE MailTypeOK'
  BY <1>28 DEF Mail
<1> QED
  BY <1>1, <1>2, <1>3, <1>4, <1>5, <1>6, <1>7, <1>8, <1>9, <1>10, <1>11, <1>12, <1>13,
     <1>14, <1>15, <1>16, <1>17, <1>18, <1>19, <1>20, <1>21, <1>22, <1>23, <1>24, <1>25,
     <1>26, <1>27, <1>28
     DEF MailNext, OwnerStep, Dequeue, Pausing, Sending

(* The mailbox stays the chain of the mailed processes. *)
LEMMA ChainStep == MInv /\ [MailNext]_mailVars => Chain'
<1> SUFFICES ASSUME MInv, [MailNext]_mailVars PROVE Chain'
  OBVIOUS
<1> USE NilAssumption, PipeAssumption
     DEF MInv, MailTypeOK, Ptr, Chain, FrontWord, Sends, Taking, Linking, Place,
        mail, sender, owner, Sent, Turn, Move
<1>1. CASE UNCHANGED mailVars
  BY <1>1 DEF mailVars
<1>2. CASE OwnerRuns BY <1>2 DEF OwnerRuns
<1>3. CASE TakeSync BY <1>3 DEF TakeSync
<1>4. CASE DeqFront BY <1>4 DEF DeqFront
<1>5. CASE DeqBack BY <1>5 DEF DeqBack
<1>6. CASE CasBack
  <2>1. Len(posted) > 0 /\ posted[1] = posted[Len(posted)] /\ Len(posted) \in Nat
    BY <1>6 DEF CasBack
  <2>2. Len(posted) = 1
    <3>1. 1 \in 1..Len(posted) /\ Len(posted) \in 1..Len(posted)
      BY ONLY <2>1
    <3>2. \A i, j \in 1..Len(posted) : posted[i] = posted[j] => i = j
      OBVIOUS
    <3> QED BY ONLY <2>1, <3>1, <3>2
  <2>3. Bptr' = NIL /\ at' = "casFront" /\ UNCHANGED <<posted, Link, Fptr>> /\ at # "casFront"
    BY <1>6 DEF CasBack
  <2>4. Chain
    OBVIOUS
  <2> QED BY ONLY <2>2, <2>3, <2>4 DEF Chain
<1>7. CASE CasBackFails BY <1>7 DEF CasBackFails
<1>8. CASE CasFront
  <2>1. /\ Len(posted) \in Nat /\ Len(posted') = Len(posted) - 1
        /\ \A i \in 1..(Len(posted) - 1) : posted'[i] = posted[i + 1]
    BY <1>8, TailFacts DEF CasFront, Deliver
  <2>2. /\ UNCHANGED <<Bptr, Link>> /\ at' = "deq" /\ Len(posted) > 0
        /\ Bptr = IF Len(posted) = 1 THEN NIL ELSE posted[Len(posted)]
        /\ Link[posted[Len(posted)]] = NIL
    BY <1>8 DEF CasFront, Deliver
  <2>3. \A i, j \in 1..Len(posted') : posted'[i] = posted'[j] => i = j
    <3>1. \A i, j \in 1..Len(posted) : posted[i] = posted[j] => i = j
      OBVIOUS
    <3>2. \A i \in 1..Len(posted') : i + 1 \in 1..Len(posted) /\ posted'[i] = posted[i + 1]
      BY ONLY <2>1
    <3> QED BY ONLY <2>1, <3>1, <3>2
  <2>4. Fptr' # NIL => Len(posted') > 0 /\ Fptr' = posted'[1]
    <3>1. Fptr' # NIL => Len(posted) > 1 /\ Fptr' = posted[2]
      BY <1>8 DEF CasFront
    <3> QED BY ONLY <2>1, <3>1
  <2>5. \A i \in 1..(Len(posted') - 1) : Link'[posted'[i]] \in {NIL, posted'[i + 1]}
    <3>1. \A i \in 1..(Len(posted) - 1) : Link[posted[i]] \in {NIL, posted[i + 1]}
      OBVIOUS
    <3>2. \A i \in 1..(Len(posted') - 1) :
            /\ i + 1 \in 1..(Len(posted) - 1)
            /\ posted'[i] = posted[i + 1] /\ posted'[i + 1] = posted[i + 1 + 1]
      BY ONLY <2>1
    <3> QED BY ONLY <2>2, <3>1, <3>2
  <2>6. Len(posted') > 0 => posted'[Len(posted')] = posted[Len(posted)]
    BY ONLY <2>1
  <2>7. /\ Bptr' = IF Len(posted') = 0 THEN NIL ELSE posted'[Len(posted')]
        /\ Len(posted') > 0 => Link'[posted'[Len(posted')]] = NIL
    BY ONLY <2>1, <2>2, <2>6
  <2>8. Bptr' = IF Len(posted') = 0 \/ (at' = "casFront" /\ Len(posted') = 1)
                THEN NIL ELSE posted'[Len(posted')]
    BY ONLY <2>2, <2>7
  <2> QED BY ONLY <2>3, <2>4, <2>5, <2>7, <2>8 DEF Chain
<1>9. CASE DeqNext BY <1>9 DEF DeqNext
<1>10. CASE SetFront BY <1>10 DEF SetFront, Deliver
<1>11. CASE After BY <1>11 DEF After
<1>12. CASE Sleep BY <1>12 DEF Sleep
<1>13. CASE Check BY <1>13 DEF Check
<1>14. CASE Awake BY <1>14 DEF Awake
<1>15. CASE Spin BY <1>15 DEF Spin
<1>16. CASE TimedOut BY <1>16 DEF TimedOut
<1>17. CASE Pause BY <1>17 DEF Pause
<1>18. CASE Read BY <1>18 DEF Read
<1>19. CASE Restore BY <1>19 DEF Restore
<1>20. ASSUME NEW s \in Senders, SwapBack(s) PROVE Chain'
  BY <1>20 DEF SwapBack
<1>21. ASSUME NEW s \in Senders, LinkIn(s) PROVE Chain'
  <2>1. /\ UNCHANGED <<Bptr, posted, at>> /\ Place(s)
        /\ \A i, j \in 1..Len(posted) : posted[i] = posted[j] => i = j
        /\ posted \in Seq(Items) /\ Chain
    BY <1>21 DEF LinkIn
  <2>2. CASE back[s] = NIL
    BY <1>21, <2>2 DEF LinkIn
  <2>3. CASE back[s] # NIL
    <3>1. PICK i \in 1..(Len(posted) - 1) : back[s] = posted[i] /\ item[s] = posted[i + 1]
      BY <2>1, <2>3
    <3>2. UNCHANGED Fptr /\ Link' = [Link EXCEPT ![posted[i]] = posted[i + 1]]
      BY <1>21, <2>3, <3>1 DEF LinkIn
    <3>3. Link'[posted[i]] = posted[i + 1] /\ i \in 1..Len(posted)
          /\ \A k \in 1..Len(posted) : k # i => Link'[posted[k]] = Link[posted[k]]
      BY <3>2, <2>1
    <3>4. Len(posted) \in Nat /\ (Len(posted) > 0 => Len(posted) \in 1..Len(posted))
      BY <2>1
    <3> QED BY ONLY <2>1, <3>1, <3>2, <3>3, <3>4 DEF Chain
  <2> QED BY <2>2, <2>3
<1>22. ASSUME NEW s \in Senders, SetSync(s) PROVE Chain'
  BY <1>22 DEF SetSync
<1>23. ASSUME NEW s \in Senders, Look(s) PROVE Chain'
  BY <1>23 DEF Look
<1>24. ASSUME NEW s \in Senders, ClearSleeping(s) PROVE Chain'
  BY <1>24 DEF ClearSleeping
<1>25. ASSUME NEW s \in Senders, WakeSync(s) PROVE Chain'
  BY <1>25 DEF WakeSync
<1>26. ASSUME NEW s \in Senders, Write(s) PROVE Chain'
  BY <1>26 DEF Write
<1>27. ASSUME NEW s \in Senders, Alarm(s) PROVE Chain'
  BY <1>27 DEF Alarm
<1>28. ASSUME NEW s \in Senders, NEW p \in Items, Mail(s, p) PROVE Chain'
  BY <1>28 DEF Mail
<1> QED
  BY <1>1, <1>2, <1>3, <1>4, <1>5, <1>6, <1>7, <1>8, <1>9, <1>10, <1>11, <1>12, <1>13,
     <1>14, <1>15, <1>16, <1>17, <1>18, <1>19, <1>20, <1>21, <1>22, <1>23, <1>24, <1>25,
     <1>26, <1>27, <1>28
     DEF MailNext, OwnerStep, Dequeue, Pausing, Sending

(* The owner's hold on the front is not disturbed by the senders. *)
LEMMA FrontStep == MInv /\ [MailNext]_mailVars => FrontWord'
<1> SUFFICES ASSUME MInv, [MailNext]_mailVars PROVE FrontWord'
  OBVIOUS
<1> USE NilAssumption, PipeAssumption
     DEF MInv, MailTypeOK, Ptr, Chain, FrontWord, Sends, Taking, Linking, Place,
        mail, sender, owner, Sent, Turn, Move
<1>1. CASE UNCHANGED mailVars
  BY <1>1 DEF mailVars
<1>2. CASE OwnerRuns BY <1>2 DEF OwnerRuns
<1>3. CASE TakeSync BY <1>3 DEF TakeSync
<1>4. CASE DeqFront BY <1>4 DEF DeqFront
<1>5. CASE DeqBack BY <1>5 DEF DeqBack
<1>6. CASE CasBack BY <1>6 DEF CasBack
<1>7. CASE CasBackFails BY <1>7 DEF CasBackFails
<1>8. CASE CasFront BY <1>8 DEF CasFront, Deliver
<1>9. CASE DeqNext BY <1>9 DEF DeqNext
<1>10. CASE SetFront BY <1>10 DEF SetFront, Deliver
<1>11. CASE After BY <1>11 DEF After
<1>12. CASE Sleep BY <1>12 DEF Sleep
<1>13. CASE Check BY <1>13 DEF Check
<1>14. CASE Awake BY <1>14 DEF Awake
<1>15. CASE Spin BY <1>15 DEF Spin
<1>16. CASE TimedOut BY <1>16 DEF TimedOut
<1>17. CASE Pause BY <1>17 DEF Pause
<1>18. CASE Read BY <1>18 DEF Read
<1>19. CASE Restore BY <1>19 DEF Restore
<1>20. ASSUME NEW s \in Senders, SwapBack(s) PROVE FrontWord'
  BY <1>20 DEF SwapBack
<1>21. ASSUME NEW s \in Senders, LinkIn(s) PROVE FrontWord'
  BY <1>21 DEF LinkIn
<1>22. ASSUME NEW s \in Senders, SetSync(s) PROVE FrontWord'
  BY <1>22 DEF SetSync
<1>23. ASSUME NEW s \in Senders, Look(s) PROVE FrontWord'
  BY <1>23 DEF Look
<1>24. ASSUME NEW s \in Senders, ClearSleeping(s) PROVE FrontWord'
  BY <1>24 DEF ClearSleeping
<1>25. ASSUME NEW s \in Senders, WakeSync(s) PROVE FrontWord'
  BY <1>25 DEF WakeSync
<1>26. ASSUME NEW s \in Senders, Write(s) PROVE FrontWord'
  BY <1>26 DEF Write
<1>27. ASSUME NEW s \in Senders, Alarm(s) PROVE FrontWord'
  BY <1>27 DEF Alarm
<1>28. ASSUME NEW s \in Senders, NEW p \in Items, Mail(s, p) PROVE FrontWord'
  BY <1>28 DEF Mail
<1> QED
  BY <1>1, <1>2, <1>3, <1>4, <1>5, <1>6, <1>7, <1>8, <1>9, <1>10, <1>11, <1>12, <1>13,
     <1>14, <1>15, <1>16, <1>17, <1>18, <1>19, <1>20, <1>21, <1>22, <1>23, <1>24, <1>25,
     <1>26, <1>27, <1>28
     DEF MailNext, OwnerStep, Dequeue, Pausing, Sending

(* The senders' places stay theirs while the owner dequeues. *)
LEMMA SendsStep == MInv /\ [MailNext]_mailVars => Sends'
<1> SUFFICES ASSUME MInv, [MailNext]_mailVars PROVE Sends'
  OBVIOUS
<1> USE NilAssumption, PipeAssumption
     DEF MInv, MailTypeOK, Ptr, Chain, FrontWord, Sends, Taking, Linking, Place, Mailed,
        mail, sender, owner, Sent, Turn, Move
<1>1. CASE UNCHANGED mailVars
  BY <1>1 DEF mailVars
<1>2. CASE OwnerRuns BY <1>2 DEF OwnerRuns
<1>3. CASE TakeSync BY <1>3 DEF TakeSync
<1>4. CASE DeqFront BY <1>4 DEF DeqFront
<1>5. CASE DeqBack BY <1>5 DEF DeqBack
<1>6. CASE CasBack BY <1>6 DEF CasBack
<1>7. CASE CasBackFails BY <1>7 DEF CasBackFails
<1>8. CASE CasFront
  <2>1. /\ Len(posted) \in Nat /\ Len(posted') = Len(posted) - 1
        /\ \A i \in 1..(Len(posted) - 1) : posted'[i] = posted[i + 1]
        /\ UNCHANGED <<Link, doing, item, back>> /\ at' = "deq"
    BY <1>8, TailFacts DEF CasFront, Deliver
  <2>2. ASSUME NEW u \in Senders, Linking(u) PROVE Place(u)'
    <3>1. Place(u)
      BY <2>2
    <3>2. CASE back[u] = NIL
      BY <1>8, <2>1, <2>2, <3>1, <3>2 DEF CasFront
    <3>3. CASE back[u] # NIL
      <4>1. PICK i \in 1..(Len(posted) - 1) :
              /\ i > 1
              /\ back[u] = posted[i] /\ item[u] = posted[i + 1] /\ Link[posted[i]] = NIL
        BY <1>8, <3>1, <3>3 DEF CasFront
      <4>2. /\ i - 1 \in 1..(Len(posted') - 1)
            /\ posted'[i - 1] = posted[i] /\ posted'[i - 1 + 1] = posted[i + 1]
        BY ONLY <4>1, <2>1
      <4> QED BY ONLY <3>3, <4>1, <4>2, <2>1 DEF Place
    <3> QED BY <3>2, <3>3
  <2>3. \A u \in Senders : doing[u] = "swap" => \A k \in 1..Len(posted') : posted'[k] # item[u]
    <3>1. \A k \in 1..Len(posted') : k + 1 \in 1..Len(posted) /\ posted'[k] = posted[k + 1]
      BY ONLY <2>1
    <3>2. \A u \in Senders : doing[u] = "swap" => \A k \in 1..Len(posted) : posted[k] # item[u]
      OBVIOUS
    <3> QED BY ONLY <3>1, <3>2
  <2>4. Sends
    OBVIOUS
  <2> QED BY ONLY <2>1, <2>2, <2>3, <2>4 DEF Sends, Linking
<1>9. CASE DeqNext BY <1>9 DEF DeqNext
<1>10. CASE SetFront
  <2>1. /\ Len(posted) \in Nat /\ Len(posted') = Len(posted) - 1
        /\ \A i \in 1..(Len(posted) - 1) : posted'[i] = posted[i + 1]
        /\ UNCHANGED <<Link, doing, item, back>> /\ at' = "deq"
    BY <1>10, TailFacts DEF SetFront, Deliver
  <2>2. ASSUME NEW u \in Senders, Linking(u) PROVE Place(u)'
    <3>1. Place(u)
      BY <2>2
    <3>2. CASE back[u] = NIL
      BY <1>10, <2>1, <2>2, <3>1, <3>2 DEF SetFront
    <3>3. CASE back[u] # NIL
      <4>1. PICK i \in 1..(Len(posted) - 1) :
              /\ i > 1
              /\ back[u] = posted[i] /\ item[u] = posted[i + 1] /\ Link[posted[i]] = NIL
        BY <1>10, <3>1, <3>3 DEF SetFront
      <4>2. /\ i - 1 \in 1..(Len(posted') - 1)
            /\ posted'[i - 1] = posted[i] /\ posted'[i - 1 + 1] = posted[i + 1]
        BY ONLY <4>1, <2>1
      <4> QED BY ONLY <3>3, <4>1, <4>2, <2>1 DEF Place
    <3> QED BY <3>2, <3>3
  <2>3. \A u \in Senders : doing[u] = "swap" => \A k \in 1..Len(posted') : posted'[k] # item[u]
    <3>1. \A k \in 1..Len(posted') : k + 1 \in 1..Len(posted) /\ posted'[k] = posted[k + 1]
      BY ONLY <2>1
    <3>2. \A u \in Senders : doing[u] = "swap" => \A k \in 1..Len(posted) : posted[k] # item[u]
      OBVIOUS
    <3> QED BY ONLY <3>1, <3>2
  <2>4. Sends
    OBVIOUS
  <2> QED BY ONLY <2>1, <2>2, <2>3, <2>4 DEF Sends, Linking
<1>11. CASE After BY <1>11 DEF After
<1>12. CASE Sleep BY <1>12 DEF Sleep
<1>13. CASE Check BY <1>13 DEF Check
<1>14. CASE Awake BY <1>14 DEF Awake
<1>15. CASE Spin BY <1>15 DEF Spin
<1>16. CASE TimedOut BY <1>16 DEF TimedOut
<1>17. CASE Pause BY <1>17 DEF Pause
<1>18. CASE Read BY <1>18 DEF Read
<1>19. CASE Restore BY <1>19 DEF Restore
<1>20. ASSUME NEW s \in Senders, SwapBack(s) PROVE Sends'
  <2>1. /\ Len(posted) \in Nat /\ Len(posted') = Len(posted) + 1
        /\ posted'[Len(posted) + 1] = item[s]
        /\ \A i \in 1..Len(posted) : posted'[i] = posted[i]
    BY <1>20, AppendFacts DEF SwapBack
  <2>2. /\ doing[s] = "swap" /\ doing'[s] = "link" /\ back'[s] = Bptr
        /\ UNCHANGED <<Link, Fptr, item, at>>
        /\ \A u \in Senders : u # s => doing'[u] = doing[u] /\ back'[u] = back[u]
    BY <1>20 DEF SwapBack
  <2>3. ASSUME NEW u \in Senders, Linking(u), u # s PROVE Place(u)'
    <3>1. Place(u)
      BY <2>3
    <3>2. CASE back[u] = NIL
      BY ONLY <2>1, <2>2, <2>3, <3>1, <3>2 DEF Place
    <3>3. CASE back[u] # NIL
      <4>1. PICK i \in 1..(Len(posted) - 1) :
              /\ at = "casFront" => i > 1
              /\ back[u] = posted[i] /\ item[u] = posted[i + 1] /\ Link[posted[i]] = NIL
        BY ONLY <3>1, <3>3 DEF Place
      <4>2. /\ i \in 1..(Len(posted') - 1)
            /\ posted'[i] = posted[i] /\ posted'[i + 1] = posted[i + 1]
        BY ONLY <4>1, <2>1
      <4> QED BY ONLY <3>3, <4>1, <4>2, <2>2, <2>3 DEF Place
    <3> QED BY ONLY <3>2, <3>3
  <2>4. Place(s)'
    <3>0. /\ Bptr = IF Len(posted) = 0 \/ (at = "casFront" /\ Len(posted) = 1)
                    THEN NIL ELSE posted[Len(posted)]
          /\ Len(posted) > 0 => Link[posted[Len(posted)]] = NIL
          /\ \A k \in 1..Len(posted) : posted[k] # NIL
      OBVIOUS
    <3>1. CASE Len(posted) = 0
      <4>1. at # "casFront" /\ Fptr = NIL
        BY <3>1
      <4> QED BY ONLY <4>1, <3>0, <3>1, <2>1, <2>2 DEF Place
    <3>2. CASE at = "casFront" /\ Len(posted) = 1
      <4>1. Fptr = posted[1]
        BY <3>2
      <4> QED BY ONLY <4>1, <3>0, <3>2, <2>1, <2>2 DEF Place
    <3>3. CASE Len(posted) > 0 /\ ~(at = "casFront" /\ Len(posted) = 1)
      <4>1. /\ Len(posted) \in 1..(Len(posted') - 1)
            /\ posted'[Len(posted)] = posted[Len(posted)] /\ (at = "casFront" => Len(posted) > 1)
            /\ Bptr = posted[Len(posted)] /\ Bptr # NIL
        <5>1. Len(posted) \in 1..Len(posted) /\ Len(posted) \in 1..(Len(posted') - 1)
          BY ONLY <3>3, <2>1
        <5>2. Bptr = posted[Len(posted)]
          BY ONLY <3>0, <3>3
        <5>3. Bptr # NIL /\ posted'[Len(posted)] = posted[Len(posted)]
          BY ONLY <5>1, <5>2, <3>0, <2>1
        <5>4. at = "casFront" => Len(posted) > 1
          BY ONLY <3>3, <2>1, Positive
        <5> QED BY ONLY <5>1, <5>2, <5>3, <5>4
      <4> QED BY ONLY <4>1, <3>0, <3>3, <2>1, <2>2 DEF Place
    <3> QED BY ONLY <3>1, <3>2, <3>3, <2>1
  <2>5. \A u \in Senders : Linking(u) => item[u] # item[s]
    <3>1. \A k \in 1..Len(posted) : posted[k] # item[s]
      BY <2>2
    <3>2. ASSUME NEW u \in Senders, Linking(u)
          PROVE  \E k \in 1..Len(posted) : item[u] = posted[k]
      <4>1. Place(u)
        BY <3>2
      <4> QED BY ONLY <4>1, <2>1 DEF Place
    <3> QED BY ONLY <3>1, <3>2
  <2>6. \A u \in Senders : doing'[u] = "swap" => /\ doing[u] = "swap"
                                                 /\ \A k \in 1..Len(posted') : posted'[k] # item[u]
    <3>1. \A u \in Senders : doing'[u] = "swap" => doing[u] = "swap" /\ u # s /\ item[u] # item[s]
      BY <2>2
    <3>2. \A u \in Senders : doing[u] = "swap" => \A k \in 1..Len(posted) : posted[k] # item[u]
      OBVIOUS
    <3>3. \A k \in 1..Len(posted') : k = Len(posted) + 1 \/ k \in 1..Len(posted)
      BY ONLY <2>1
    <3> QED BY ONLY <3>1, <3>2, <3>3, <2>1
  <2>7. Sends
    OBVIOUS
  <2> QED BY ONLY <2>2, <2>3, <2>4, <2>5, <2>6, <2>7 DEF Sends, Linking
<1>21. ASSUME NEW s \in Senders, LinkIn(s) PROVE Sends'
  <2>1. /\ doing[s] = "link" /\ doing'[s] = "setSync" /\ UNCHANGED <<posted, at>> /\ Place(s)
        /\ \A u \in Senders : u # s => /\ doing'[u] = doing[u] /\ item'[u] = item[u]
                                       /\ back'[u] = back[u] /\ (Linking(u) => item[u] # item[s])
    BY <1>21 DEF LinkIn
  <2>2. posted \in Seq(Items) /\ Len(posted) \in Nat
        /\ (\A k \in 1..Len(posted) : posted[k] # NIL)
        /\ \A i, j \in 1..Len(posted) : posted[i] = posted[j] => i = j
    OBVIOUS
  <2>3. CASE back[s] = NIL
    <3>1. UNCHANGED Link
      BY <1>21, <2>3 DEF LinkIn
    <3>2. \A u \in Senders : Linking(u) /\ u # s => back[u] # NIL
      BY ONLY <2>1, <2>3, Sends DEF Sends, Place
    <3>3. \A u \in Senders : Linking(u) /\ u # s => Place(u)'
      BY ONLY <2>1, <3>1, <3>2, Sends DEF Sends, Place
    <3> QED BY ONLY <2>1, <3>1, <3>3, Sends DEF Sends, Linking
  <2>4. CASE back[s] # NIL
    <3>1. PICK i \in 1..(Len(posted) - 1) : back[s] = posted[i] /\ item[s] = posted[i + 1]
      BY <2>1, <2>4
    <3>2. UNCHANGED Fptr /\ Link' = [Link EXCEPT ![posted[i]] = posted[i + 1]]
      BY <1>21, <2>4, <3>1 DEF LinkIn
    <3>3. \A p \in Items : p # posted[i] => Link'[p] = Link[p]
      BY <3>2
    <3>4. ASSUME NEW u \in Senders, Linking(u), u # s PROVE Place(u)'
      <4>1. Place(u)
        BY <3>4
      <4>2. CASE back[u] = NIL
        BY ONLY <4>1, <4>2, <2>1, <3>2, <3>4 DEF Place
      <4>3. CASE back[u] # NIL
        <5>1. PICK k \in 1..(Len(posted) - 1) :
                /\ at = "casFront" => k > 1
                /\ back[u] = posted[k] /\ item[u] = posted[k + 1] /\ Link[posted[k]] = NIL
          BY ONLY <4>1, <4>3 DEF Place
        <5>2. k # i
          BY ONLY <5>1, <3>1, <2>1, <3>4
        <5>3. posted[k] # posted[i] /\ posted[k] \in Items
          BY ONLY <5>1, <5>2, <3>1, <2>2
        <5>4. Link'[posted[k]] = NIL
          BY ONLY <5>1, <5>3, <3>3
        <5> QED BY ONLY <5>1, <5>4, <4>3, <2>1, <3>4 DEF Place
      <4> QED BY ONLY <4>2, <4>3
    <3>5. \A u \in Senders : doing[u] = "swap" => Link'[item[u]] = NIL
      <4>1. \A u \in Senders : doing[u] = "swap" =>
              item[u] \in Items /\ item[u] # posted[i] /\ Link[item[u]] = NIL
        BY <3>1
      <4> QED BY ONLY <4>1, <3>3
    <3> QED BY ONLY <2>1, <3>4, <3>5, Sends DEF Sends, Linking
  <2> QED BY <2>3, <2>4
<1>22. ASSUME NEW s \in Senders, SetSync(s) PROVE Sends'
  BY <1>22 DEF SetSync
<1>23. ASSUME NEW s \in Senders, Look(s) PROVE Sends'
  BY <1>23 DEF Look
<1>24. ASSUME NEW s \in Senders, ClearSleeping(s) PROVE Sends'
  BY <1>24 DEF ClearSleeping
<1>25. ASSUME NEW s \in Senders, WakeSync(s) PROVE Sends'
  BY <1>25 DEF WakeSync
<1>26. ASSUME NEW s \in Senders, Write(s) PROVE Sends'
  BY <1>26 DEF Write
<1>27. ASSUME NEW s \in Senders, Alarm(s) PROVE Sends'
  BY <1>27 DEF Alarm
<1>28. ASSUME NEW s \in Senders, NEW p \in Items, Mail(s, p) PROVE Sends'
  BY <1>28 DEF Mail
<1> QED
  BY <1>1, <1>2, <1>3, <1>4, <1>5, <1>6, <1>7, <1>8, <1>9, <1>10, <1>11, <1>12, <1>13,
     <1>14, <1>15, <1>16, <1>17, <1>18, <1>19, <1>20, <1>21, <1>22, <1>23, <1>24, <1>25,
     <1>26, <1>27, <1>28
     DEF MailNext, OwnerStep, Dequeue, Pausing, Sending

(* A gap keeps the sender that fills it. *)
LEMMA FilledStep == MInv /\ [MailNext]_mailVars => Filled'
<1> SUFFICES ASSUME MInv, [MailNext]_mailVars PROVE Filled'
  OBVIOUS
<1> USE NilAssumption, PipeAssumption
     DEF MInv, MailTypeOK, Ptr, Chain, FrontWord, Sends, Filled, Taking, Linking, Place,
        mail, sender, owner, Sent, Turn, Move
<1>1. CASE UNCHANGED mailVars
  BY <1>1 DEF mailVars
<1>2. CASE OwnerRuns BY <1>2 DEF OwnerRuns
<1>3. CASE TakeSync BY <1>3 DEF TakeSync
<1>4. CASE DeqFront BY <1>4 DEF DeqFront
<1>5. CASE DeqBack BY <1>5 DEF DeqBack
<1>6. CASE CasBack BY <1>6 DEF CasBack
<1>7. CASE CasBackFails BY <1>7 DEF CasBackFails
<1>8. CASE CasFront BY <1>8 DEF CasFront, Deliver
<1>9. CASE DeqNext BY <1>9 DEF DeqNext
<1>10. CASE SetFront BY <1>10 DEF SetFront, Deliver
<1>11. CASE After BY <1>11 DEF After
<1>12. CASE Sleep BY <1>12 DEF Sleep
<1>13. CASE Check BY <1>13 DEF Check
<1>14. CASE Awake BY <1>14 DEF Awake
<1>15. CASE Spin BY <1>15 DEF Spin
<1>16. CASE TimedOut BY <1>16 DEF TimedOut
<1>17. CASE Pause BY <1>17 DEF Pause
<1>18. CASE Read BY <1>18 DEF Read
<1>19. CASE Restore BY <1>19 DEF Restore
<1>20. ASSUME NEW s \in Senders, SwapBack(s) PROVE Filled'
  <2>1. /\ Len(posted) \in Nat /\ Len(posted') = Len(posted) + 1
        /\ \A i \in 1..Len(posted) : posted'[i] = posted[i]
    BY <1>20, AppendFacts DEF SwapBack
  <2>2. /\ doing'[s] = "link" /\ back'[s] = Bptr /\ UNCHANGED <<Link, Fptr, at>>
        /\ \A u \in Senders : Linking(u) => Linking(u)' /\ back'[u] = back[u]
    BY <1>20 DEF SwapBack
  <2>3. Bptr = IF Len(posted) = 0 \/ (at = "casFront" /\ Len(posted) = 1)
               THEN NIL ELSE posted[Len(posted)]
    OBVIOUS
  <2>4. at = "casFront" => Len(posted) > 0
    OBVIOUS
  <2>5. ASSUME NEW i \in 1..(Len(posted') - 1), Link'[posted'[i]] = NIL,
               at' = "casFront" => i > 1
        PROVE  \E u \in Senders : Linking(u)' /\ back'[u] = posted'[i]
    <3>1. CASE i = Len(posted)
      BY ONLY <3>1, <2>1, <2>2, <2>3, <2>5, s \in Senders DEF Linking
    <3>2. CASE i # Len(posted)
      <4>1. i \in 1..(Len(posted) - 1) /\ posted'[i] = posted[i]
        BY ONLY <3>2, <2>1
      <4>2. PICK u \in Senders : Linking(u) /\ back[u] = posted[i]
        BY ONLY <4>1, <2>2, <2>5, Filled DEF Filled
      <4> QED BY ONLY <4>1, <4>2, <2>2
    <3> QED BY ONLY <3>1, <3>2
  <2>6. Len(posted') > 0 /\ Fptr' = NIL => \E u \in Senders : Linking(u)' /\ back'[u] = NIL
    BY ONLY <2>1, <2>2, <2>3, Filled, s \in Senders DEF Filled, Linking
  <2>7. at' = "casFront" /\ Len(posted') > 1 /\ Fptr' = posted'[1] =>
          \E u \in Senders : Linking(u)' /\ back'[u] = NIL
    <3>1. CASE Len(posted) > 1
      <4>1. posted'[1] = posted[1]
        BY ONLY <3>1, <2>1
      <4> QED BY ONLY <4>1, <3>1, <2>2, Filled DEF Filled
    <3>2. CASE at = "casFront" /\ Len(posted) = 1
      <4>1. back'[s] = NIL /\ Linking(s)'
        BY ONLY <3>2, <2>2, <2>3 DEF Linking
      <4> QED BY ONLY <4>1, s \in Senders
    <3>3. CASE at # "casFront"
      BY ONLY <3>3, <2>2
    <3>4. Len(posted) > 1 \/ (at = "casFront" /\ Len(posted) = 1) \/ at # "casFront"
      BY ONLY <2>4, <2>1, Positive
    <3> QED BY ONLY <3>1, <3>2, <3>3, <3>4
  <2> QED BY ONLY <2>5, <2>6, <2>7 DEF Filled
<1>21. ASSUME NEW s \in Senders, LinkIn(s) PROVE Filled'
  <2>1. /\ UNCHANGED <<posted, at>> /\ Place(s) /\ item[s] # NIL
        /\ \A u \in Senders : u # s /\ Linking(u) => Linking(u)' /\ back'[u] = back[u]
    BY <1>21 DEF LinkIn
  <2>2. Len(posted) \in Nat
        /\ (\A k \in 1..Len(posted) : posted[k] # NIL)
        /\ \A i, j \in 1..Len(posted) : posted[i] = posted[j] => i = j
    OBVIOUS
  <2>3. CASE back[s] = NIL
    <3>1. UNCHANGED Link /\ Fptr' = item[s]
      BY <1>21, <2>3 DEF LinkIn
    <3>2. Fptr' = posted[1] => at # "casFront"
      BY ONLY <2>1, <2>2, <2>3, <3>1 DEF Place
    <3> QED BY ONLY <2>1, <2>2, <2>3, <3>1, <3>2, Filled DEF Filled
  <2>4. CASE back[s] # NIL
    <3>1. UNCHANGED Fptr /\ \A k \in 1..Len(posted) :
            /\ posted[k] = back[s] => Link'[posted[k]] = item[s]
            /\ posted[k] # back[s] => Link'[posted[k]] = Link[posted[k]]
      BY <1>21, <2>4 DEF LinkIn
    <3> QED BY ONLY <2>1, <2>2, <2>4, <3>1, Filled DEF Filled
  <2> QED BY <2>3, <2>4
<1>22. ASSUME NEW s \in Senders, SetSync(s) PROVE Filled'
  BY <1>22 DEF SetSync
<1>23. ASSUME NEW s \in Senders, Look(s) PROVE Filled'
  BY <1>23 DEF Look
<1>24. ASSUME NEW s \in Senders, ClearSleeping(s) PROVE Filled'
  BY <1>24 DEF ClearSleeping
<1>25. ASSUME NEW s \in Senders, WakeSync(s) PROVE Filled'
  BY <1>25 DEF WakeSync
<1>26. ASSUME NEW s \in Senders, Write(s) PROVE Filled'
  BY <1>26 DEF Write
<1>27. ASSUME NEW s \in Senders, Alarm(s) PROVE Filled'
  BY <1>27 DEF Alarm
<1>28. ASSUME NEW s \in Senders, NEW p \in Items, Mail(s, p) PROVE Filled'
  <2>1. /\ UNCHANGED <<posted, at, Fptr>>
        /\ \A u \in Senders : Linking(u) => Linking(u)' /\ back'[u] = back[u]
    BY <1>28 DEF Mail
  <2>2. \A k \in 1..Len(posted) : Link'[posted[k]] = Link[posted[k]]
    BY <1>28 DEF Mail, Mailed
  <2>3. Len(posted) \in Nat
    OBVIOUS
  <2> QED BY ONLY <2>1, <2>2, <2>3, Filled DEF Filled
<1> QED
  BY <1>1, <1>2, <1>3, <1>4, <1>5, <1>6, <1>7, <1>8, <1>9, <1>10, <1>11, <1>12, <1>13,
     <1>14, <1>15, <1>16, <1>17, <1>18, <1>19, <1>20, <1>21, <1>22, <1>23, <1>24, <1>25,
     <1>26, <1>27, <1>28
     DEF MailNext, OwnerStep, Dequeue, Pausing, Sending

(* The owner does not turn away from mail that nobody will announce. *)
LEMMA NoticedStep == MInv /\ [MailNext]_mailVars => Noticed'
<1> SUFFICES ASSUME MInv, [MailNext]_mailVars PROVE Noticed'
  OBVIOUS
<1> USE NilAssumption, PipeAssumption
     DEF MInv, MailTypeOK, Ptr, Chain, FrontWord, Filled, Noticed, Taking, Linking,
        mail, sender, owner, Sent, Turn, Move
<1>1. CASE UNCHANGED mailVars
  BY <1>1 DEF mailVars
<1>2. CASE OwnerRuns BY <1>2 DEF OwnerRuns
<1>3. CASE TakeSync BY <1>3 DEF TakeSync
<1>4. CASE DeqFront BY <1>4 DEF DeqFront
<1>5. CASE DeqBack BY <1>5 DEF DeqBack
<1>6. CASE CasBack BY <1>6 DEF CasBack
<1>7. CASE CasBackFails BY <1>7 DEF CasBackFails
<1>8. CASE CasFront BY <1>8 DEF CasFront, Deliver
<1>9. CASE DeqNext BY <1>9 DEF DeqNext
<1>10. CASE SetFront BY <1>10 DEF SetFront, Deliver
<1>11. CASE After BY <1>11 DEF After
<1>12. CASE Sleep BY <1>12 DEF Sleep
<1>13. CASE Check BY <1>13 DEF Check
<1>14. CASE Awake BY <1>14 DEF Awake
<1>15. CASE Spin BY <1>15 DEF Spin
<1>16. CASE TimedOut BY <1>16 DEF TimedOut
<1>17. CASE Pause BY <1>17 DEF Pause
<1>18. CASE Read BY <1>18 DEF Read
<1>19. CASE Restore BY <1>19 DEF Restore
<1>20. ASSUME NEW s \in Senders, SwapBack(s) PROVE Noticed'
  BY <1>20 DEF SwapBack
<1>21. ASSUME NEW s \in Senders, LinkIn(s) PROVE Noticed'
  BY <1>21 DEF LinkIn
<1>22. ASSUME NEW s \in Senders, SetSync(s) PROVE Noticed'
  BY <1>22 DEF SetSync
<1>23. ASSUME NEW s \in Senders, Look(s) PROVE Noticed'
  BY <1>23 DEF Look
<1>24. ASSUME NEW s \in Senders, ClearSleeping(s) PROVE Noticed'
  BY <1>24 DEF ClearSleeping
<1>25. ASSUME NEW s \in Senders, WakeSync(s) PROVE Noticed'
  BY <1>25 DEF WakeSync
<1>26. ASSUME NEW s \in Senders, Write(s) PROVE Noticed'
  BY <1>26 DEF Write
<1>27. ASSUME NEW s \in Senders, Alarm(s) PROVE Noticed'
  BY <1>27 DEF Alarm
<1>28. ASSUME NEW s \in Senders, NEW p \in Items, Mail(s, p) PROVE Noticed'
  BY <1>28 DEF Mail
<1> QED
  BY <1>1, <1>2, <1>3, <1>4, <1>5, <1>6, <1>7, <1>8, <1>9, <1>10, <1>11, <1>12, <1>13,
     <1>14, <1>15, <1>16, <1>17, <1>18, <1>19, <1>20, <1>21, <1>22, <1>23, <1>24, <1>25,
     <1>26, <1>27, <1>28
     DEF MailNext, OwnerStep, Dequeue, Pausing, Sending

(* The handshake of sleep and wake-up. *)
LEMMA WokenStep == MInv /\ [MailNext]_mailVars => Woken'
<1> SUFFICES ASSUME MInv, [MailNext]_mailVars PROVE Woken'
  OBVIOUS
<1> USE NilAssumption, PipeAssumption
     DEF MInv, MailTypeOK, Bits, Woken, mail, sender, owner, Sent, Turn, Move
<1>1. CASE UNCHANGED mailVars
  BY <1>1 DEF mailVars
<1>2. CASE OwnerRuns BY <1>2 DEF OwnerRuns
<1>3. CASE TakeSync BY <1>3 DEF TakeSync
<1>4. CASE DeqFront BY <1>4 DEF DeqFront
<1>5. CASE DeqBack BY <1>5 DEF DeqBack
<1>6. CASE CasBack BY <1>6 DEF CasBack
<1>7. CASE CasBackFails BY <1>7 DEF CasBackFails
<1>8. CASE CasFront BY <1>8 DEF CasFront, Deliver
<1>9. CASE DeqNext BY <1>9 DEF DeqNext
<1>10. CASE SetFront BY <1>10 DEF SetFront, Deliver
<1>11. CASE After BY <1>11 DEF After
<1>12. CASE Sleep BY <1>12 DEF Sleep
<1>13. CASE Check BY <1>13 DEF Check
<1>14. CASE Awake BY <1>14 DEF Awake
<1>15. CASE Spin BY <1>15 DEF Spin
<1>16. CASE TimedOut BY <1>16 DEF TimedOut
<1>17. CASE Pause BY <1>17 DEF Pause
<1>18. CASE Read BY <1>18 DEF Read
<1>19. CASE Restore BY <1>19 DEF Restore
<1>20. ASSUME NEW s \in Senders, SwapBack(s) PROVE Woken'
  BY <1>20 DEF SwapBack
<1>21. ASSUME NEW s \in Senders, LinkIn(s) PROVE Woken'
  BY <1>21 DEF LinkIn
<1>22. ASSUME NEW s \in Senders, SetSync(s) PROVE Woken'
  BY <1>22 DEF SetSync
<1>23. ASSUME NEW s \in Senders, Look(s) PROVE Woken'
  BY <1>23 DEF Look
<1>24. ASSUME NEW s \in Senders, ClearSleeping(s) PROVE Woken'
  BY <1>24 DEF ClearSleeping
<1>25. ASSUME NEW s \in Senders, WakeSync(s) PROVE Woken'
  BY <1>25 DEF WakeSync
<1>26. ASSUME NEW s \in Senders, Write(s) PROVE Woken'
  BY <1>26 DEF Write
<1>27. ASSUME NEW s \in Senders, Alarm(s) PROVE Woken'
  BY <1>27 DEF Alarm
<1>28. ASSUME NEW s \in Senders, NEW p \in Items, Mail(s, p) PROVE Woken'
  BY <1>28 DEF Mail
<1> QED
  BY <1>1, <1>2, <1>3, <1>4, <1>5, <1>6, <1>7, <1>8, <1>9, <1>10, <1>11, <1>12, <1>13,
     <1>14, <1>15, <1>16, <1>17, <1>18, <1>19, <1>20, <1>21, <1>22, <1>23, <1>24, <1>25,
     <1>26, <1>27, <1>28
     DEF MailNext, OwnerStep, Dequeue, Pausing, Sending

(* The mailbox is empty and the owner awake at first. *)
LEMMA InitMInv == MailInit => MInv
<1> SUFFICES ASSUME MailInit PROVE MInv
  OBVIOUS
<1>1. MailTypeOK
  <2>1. pipe \in 0..PipeSize
    BY PipeAssumption DEF MailInit
  <2>2. posted \in Seq(Items)
    BY DEF MailInit
  <2> QED BY <2>1, <2>2 DEF MailInit, MailTypeOK, Ptr, Bits, SenderPCs, OwnerPCs
<1>2. Len(posted) = 0
  BY DEF MailInit
<1>3. Chain /\ FrontWord /\ Filled /\ Noticed /\ Woken
  BY <1>2 DEF MailInit, Chain, FrontWord, Filled, Noticed, Woken, Taking
<1>4. Sends
  BY DEF MailInit, Sends, Linking
<1> QED
  BY <1>1, <1>3, <1>4 DEF MInv

(* MInv is an invariant of the mailbox. *)
THEOREM MailboxInvariance == MailSpec => []MInv
<1>1. MInv /\ [MailNext]_mailVars => MInv'
  BY MailTypeOKStep, ChainStep, FrontStep, SendsStep, FilledStep, NoticedStep, WokenStep DEF MInv
<1> QED
  BY InitMInv, <1>1, PTL DEF MailSpec

(* The mailbox is first in, first out, for any number of senders: the       *)
(* process that atomic_dequeue_from_runqueue returns is the one whose       *)
(* enqueue swapped the back pointer first.                                  *)
THEOREM MailboxIsFifo == MailSpec => []TakesOldest
<1>1. MInv => TakesOldest
  BY DEF MInv, MailTypeOK, FrontWord, Taking, TakesOldest
<1> QED
  BY MailboxInvariance, <1>1, PTL

(* No wake-up is lost between mail_process and the sleep of the owner: a    *)
(* thread that blocks in the read on its pipe with mail for it is about to  *)
(* be woken.                                                                *)
THEOREM WakeupNotLost == MailSpec => []NoLostWakeup
<1>1. MInv => NoLostWakeup
  BY DEF MInv, MailTypeOK, Noticed, Woken, Taking, NoLostWakeup
<1> QED
  BY MailboxInvariance, <1>1, PTL

-----------------------------------------------------------------------------
(* RunQueues *)

(* The elements of a sequence, and of one with an element more or less.     *)
LEMMA SetOf ==
  ASSUME NEW S, NEW s \in Seq(S)
  PROVE  /\ ToSet(s) \subseteq S /\ (ToSet(s) = {} <=> s = <<>>)
         /\ \A x : x \in ToSet(s) <=> \E i \in 1..Len(s) : s[i] = x
<1>1. Len(s) \in Nat /\ DOMAIN s = 1..Len(s) /\ \A i \in 1..Len(s) : s[i] \in S
  OBVIOUS
<1>2. \A x : x \in ToSet(s) <=> \E i \in 1..Len(s) : s[i] = x
  BY <1>1 DEF ToSet
<1>3. ToSet(s) \subseteq S
  BY <1>1, <1>2
<1>4. s = <<>> => Len(s) = 0
  OBVIOUS
<1>5. s # <<>> => 1 \in 1..Len(s)
  OBVIOUS
<1>6. ToSet(s) = {} <=> s = <<>>
  <2>1. s = <<>> => \A x : x \notin ToSet(s)
    BY <1>2, <1>4
  <2>2. s # <<>> => s[1] \in ToSet(s)
    BY <1>2, <1>5
  <2> QED
    BY ONLY <2>1, <2>2
<1> QED
  BY <1>2, <1>3, <1>6

LEMMA SetOfEmpty == ToSet(<<>>) = {} /\ IsInjective(<<>>)
  BY DEF ToSet, IsInjective

LEMMA SetOfOne ==
  ASSUME NEW x PROVE ToSet(<<x>>) = {x} /\ IsInjective(<<x>>)
  BY DEF ToSet, IsInjective

LEMMA Appended ==
  ASSUME NEW S, NEW s \in Seq(S), NEW x \in S
  PROVE  /\ Append(s, x) \in Seq(S) /\ Append(s, x) # <<>>
         /\ ToSet(Append(s, x)) = ToSet(s) \cup {x}
         /\ IsInjective(s) /\ x \notin ToSet(s) => IsInjective(Append(s, x))
<1>1. /\ Append(s, x) \in Seq(S) /\ Len(s) \in Nat /\ Len(Append(s, x)) = Len(s) + 1
      /\ \A i \in 1..Len(s) : Append(s, x)[i] = s[i]
      /\ Append(s, x)[Len(s) + 1] = x
  OBVIOUS
<1>2. DOMAIN s = 1..Len(s) /\ DOMAIN Append(s, x) = 1..(Len(s) + 1)
  BY <1>1
<1>3. ToSet(Append(s, x)) = ToSet(s) \cup {x}
  <2> DEFINE r == Append(s, x)
  <2> HIDE DEF r
  <2>1. ASSUME NEW y \in ToSet(r) PROVE y \in ToSet(s) \cup {x}
    BY <1>1, <1>2, <2>1 DEF ToSet, r
  <2>2. ASSUME NEW y \in ToSet(s) PROVE y \in ToSet(r)
    BY <1>1, <1>2, <2>2 DEF ToSet, r
  <2>3. x \in ToSet(r)
    BY <1>1, <1>2 DEF ToSet, r
  <2> QED
    BY <2>1, <2>2, <2>3 DEF r
<1>4. ASSUME IsInjective(s), x \notin ToSet(s) PROVE IsInjective(Append(s, x))
  BY <1>1, <1>2, <1>4 DEF IsInjective, ToSet
<1> QED
  BY <1>1, <1>3, <1>4

LEMMA HeadAndTail ==
  ASSUME NEW S, NEW s \in Seq(S), s # <<>>, IsInjective(s)
  PROVE  /\ Head(s) \in S /\ Head(s) \in ToSet(s)
         /\ Tail(s) \in Seq(S) /\ IsInjective(Tail(s))
         /\ ToSet(Tail(s)) = ToSet(s) \ {Head(s)}
<1>1. /\ Head(s) = s[1] /\ s[1] \in S /\ Len(s) \in Nat /\ Len(s) > 0
      /\ Tail(s) \in Seq(S) /\ Len(Tail(s)) = Len(s) - 1
      /\ \A i \in 1..(Len(s) - 1) : Tail(s)[i] = s[i + 1]
  OBVIOUS
<1>2. DOMAIN s = 1..Len(s) /\ DOMAIN Tail(s) = 1..(Len(s) - 1)
  BY <1>1
<1>3. IsInjective(Tail(s))
  BY <1>1, <1>2 DEF IsInjective
<1>4. ASSUME NEW y \in ToSet(Tail(s)) PROVE y \in ToSet(s) /\ y # Head(s)
  <2>1. PICK i \in 1..(Len(s) - 1) : y = Tail(s)[i]
    BY <1>2 DEF ToSet
  <2>2. i + 1 \in DOMAIN s /\ 1 \in DOMAIN s /\ y = s[i + 1] /\ i + 1 # 1
    BY <1>1, <1>2, <2>1
  <2> QED
    BY <1>1, <2>2 DEF ToSet, IsInjective
<1>5. ASSUME NEW y \in ToSet(s), y # Head(s) PROVE y \in ToSet(Tail(s))
  <2>1. PICK i \in 1..Len(s) : y = s[i]
    BY <1>2 DEF ToSet
  <2>2. i # 1
    BY <1>1, <1>5, <2>1
  <2>3. i - 1 \in DOMAIN Tail(s) /\ y = Tail(s)[i - 1]
    BY <1>1, <1>2, <2>1, <2>2
  <2> QED
    BY <2>3 DEF ToSet
<1>6. Head(s) \in ToSet(s)
  BY <1>1, <1>2 DEF ToSet
<1> QED
  BY <1>1, <1>3, <1>4, <1>5, <1>6

(* The best slot of a window with batches is one of them.                   *)
LEMMA HighestSlot ==
  ASSUME NEW S \in SUBSET Windows, S # {}
  PROVE  Max(S) \in S
<1>1. MWINDOW_SIZE \in Nat /\ S \subseteq 1..MWINDOW_SIZE
  BY SizesAssumption DEF Windows
<1> DEFINE R == {ss \in Nat \X Nat : ss[1] < ss[2]}
           D == {MWINDOW_SIZE - w : w \in S}
<1>2. IsWellFoundedOn(R, Nat)
  BY NatLessThanWellFounded DEF OpToRel
<1>3. \A x, y \in Nat : <<y, x>> \in R <=> y < x
  OBVIOUS
<1>4. D \subseteq Nat /\ D # {}
  <2>1. \A w \in S : w \in 1..MWINDOW_SIZE /\ MWINDOW_SIZE - w \in Nat
    BY <1>1
  <2> QED
    BY <2>1
<1> HIDE DEF R
<1>5. PICK d \in D : \A y \in D : ~(<<y, d>> \in R)
  BY ONLY <1>2, <1>4, WFMin
<1>6. PICK w \in S : d = MWINDOW_SIZE - w
  OBVIOUS
<1>7. \A v \in S : ~(MWINDOW_SIZE - v < MWINDOW_SIZE - w)
  BY <1>3, <1>4, <1>5, <1>6
<1>8. \A v \in S : w >= v
  BY ONLY <1>1, <1>7, w \in S
<1>9. \E x \in S : \A y \in S : x >= y
  BY <1>8
<1> QED
  BY <1>9 DEF Max

LEMMA BestSlot ==
  ASSUME NEW word \in [head: 0..MWINDOW_SIZE, bm: SUBSET Windows], word.bm # {}
  PROVE  BestWindow(word) \in word.bm /\ BestWindow(word) \in Windows
<1> DEFINE up == {w \in word.bm : w >= word.head}
           S  == IF up # {} THEN up ELSE word.bm
<1>1. S \subseteq word.bm /\ S # {} /\ word.bm \subseteq Windows
  OBVIOUS
<1>2. Max(S) \in S
  BY <1>1, HighestSlot
<1>3. BestWindow(word) = Max(S)
  BY DEF BestWindow
<1> QED
  BY <1>1, <1>2, <1>3

LEMMA DispatchesIsNat ==
  ASSUME NEW ps \in Seq(Procs)
  PROVE  Dispatches(ps) \in Nat
<1> DEFINE a == BATCH_PPD * Len(ps)
           m == BATCH_MD_MASK
<1>1. a \in Nat /\ m \in Nat
  <2>1. BATCH_PPD \in Nat /\ Len(ps) \in Nat
    BY SizesAssumption
  <2>2. \A x, y \in Nat : x * y \in Nat
    OBVIOUS
  <2> QED
    BY <2>1, <2>2, SizesAssumption
<1> HIDE DEF a, m
<1>2. \E x \in {a, m} : \A y \in {a, m} : x <= y
  BY <1>1
<1>3. Min({a, m}) \in {a, m}
  BY <1>2 DEF Min
<1>4. Dispatches(ps) = Min({a, m}) + 1
  BY DEF Dispatches, a, m
<1> QED
  BY <1>1, <1>3, <1>4

LEMMA NextSlot ==
  ASSUME NEW h \in 0..MWINDOW_SIZE
  PROVE  NextWindow(h) \in Windows /\ NextWindow(h) \in 0..MWINDOW_SIZE /\ NextWindow(h) # 0
  BY SizesAssumption DEF NextWindow, Windows

BatchType == [procs: Seq(Procs), window: 0..MWINDOW_SIZE, dirty: BOOLEAN]
CurbType  == [procs: Seq(Procs), left: Nat, emptied: BOOLEAN, affine: BOOLEAN]
WordType  == [head: 0..MWINDOW_SIZE, bm: SUBSET Windows]

(* Batches and current batches after the assignments that the model makes. *)
WithProcs(f, b, v) == [f EXCEPT ![b].procs = v]
WithWindow(f, b, w, d) == [f EXCEPT ![b].window = w, ![b].dirty = d]
Cleaned(f, b) == [f EXCEPT ![b].dirty = FALSE, ![b].procs = <<>>]
Blanked(f, b) == [f EXCEPT ![b] = [procs |-> <<>>, window |-> 0, dirty |-> FALSE]]
WithCurb(f, t, v) == [f EXCEPT ![t].procs = v]
WithTwo(f, b, v, c, w) == [f EXCEPT ![b].procs = v, ![c].procs = w]

(* The fields of a batch after the assignments that the model makes.        *)
LEMMA SetProcs ==
  ASSUME NEW f \in [Batches -> BatchType], NEW b \in Batches, NEW v \in Seq(Procs)
  PROVE  /\ WithProcs(f, b, v) \in [Batches -> BatchType]
         /\ \A c \in Batches : /\ WithProcs(f, b, v)[c].procs = IF c = b THEN v ELSE f[c].procs
                               /\ WithProcs(f, b, v)[c].window = f[c].window /\ WithProcs(f, b, v)[c].dirty = f[c].dirty
  BY DEF BatchType, WithProcs

LEMMA SetWindow ==
  ASSUME NEW f \in [Batches -> BatchType], NEW b \in Batches,
         NEW w \in 0..MWINDOW_SIZE, NEW d \in BOOLEAN
  PROVE  /\ WithWindow(f, b, w, d) \in [Batches -> BatchType]
         /\ \A c \in Batches : /\ WithWindow(f, b, w, d)[c].procs = f[c].procs
                               /\ WithWindow(f, b, w, d)[c].window = IF c = b THEN w ELSE f[c].window
                               /\ WithWindow(f, b, w, d)[c].dirty = IF c = b THEN d ELSE f[c].dirty
  BY DEF BatchType, WithWindow

LEMMA SetClean ==
  ASSUME NEW f \in [Batches -> BatchType], NEW b \in Batches
  PROVE  /\ Cleaned(f, b) \in [Batches -> BatchType]
         /\ \A c \in Batches : /\ Cleaned(f, b)[c].procs = IF c = b THEN <<>> ELSE f[c].procs
                               /\ Cleaned(f, b)[c].window = f[c].window
                               /\ Cleaned(f, b)[c].dirty = IF c = b THEN FALSE ELSE f[c].dirty
<1>1. <<>> \in Seq(Procs)
  OBVIOUS
<1> QED
  BY <1>1 DEF BatchType, Cleaned

LEMMA SetBlank ==
  ASSUME NEW f \in [Batches -> BatchType], NEW b \in Batches
  PROVE  /\ Blanked(f, b) \in [Batches -> BatchType]
         /\ \A c \in Batches : /\ Blanked(f, b)[c].procs = IF c = b THEN <<>> ELSE f[c].procs
                               /\ Blanked(f, b)[c].window = IF c = b THEN 0 ELSE f[c].window
                               /\ Blanked(f, b)[c].dirty = IF c = b THEN FALSE ELSE f[c].dirty
<1>1. <<>> \in Seq(Procs) /\ 0 \in 0..MWINDOW_SIZE
  BY SizesAssumption
<1> QED
  BY <1>1 DEF BatchType, Blanked

LEMMA SetCurb ==
  ASSUME NEW f \in [Threads -> CurbType], NEW t \in Threads, NEW v \in Seq(Procs)
  PROVE  /\ WithCurb(f, t, v) \in [Threads -> CurbType]
         /\ \A u \in Threads : /\ WithCurb(f, t, v)[u].procs = IF u = t THEN v ELSE f[u].procs
                               /\ WithCurb(f, t, v)[u].affine = f[u].affine
  BY DEF CurbType, WithCurb

LEMMA SetTwo ==
  ASSUME NEW f \in [Batches -> BatchType], NEW b \in Batches, NEW v \in Seq(Procs),
         NEW c \in Batches, NEW w \in Seq(Procs), b # c
  PROVE  /\ WithTwo(f, b, v, c, w) \in [Batches -> BatchType]
         /\ \A x \in Batches : /\ WithTwo(f, b, v, c, w)[x].procs = IF x = c THEN w ELSE IF x = b THEN v ELSE f[x].procs
                               /\ WithTwo(f, b, v, c, w)[x].window = f[x].window /\ WithTwo(f, b, v, c, w)[x].dirty = f[x].dirty
  BY DEF BatchType, WithTwo

(* What the type invariant says of single values.                           *)
LEMMA Types ==
  ASSUME TypeOK
  PROVE  /\ bt \in [Batches -> BatchType] /\ curb \in [Threads -> CurbType]
         /\ mw \in [Threads -> WordType] /\ st \in [Threads -> WordType]
         /\ \A b \in Batches : /\ bt[b] \in BatchType /\ bt[b].procs \in Seq(Procs)
                               /\ bt[b].window \in 0..MWINDOW_SIZE /\ bt[b].dirty \in BOOLEAN
                               /\ b[1] \in Threads
         /\ \A t \in Threads : /\ curb[t] \in CurbType /\ curb[t].procs \in Seq(Procs)
                               /\ curb[t].left \in Nat /\ curb[t].affine \in BOOLEAN
                               /\ curb[t].emptied \in BOOLEAN
                               /\ list[t] \in Seq(Batches) /\ adds[t] \in Seq(Batches)
                               /\ pending[t] \in Batches /\ used[t] \in BOOLEAN
                               /\ free[t] \subseteq Batches /\ laundry[t] \subseteq Batches
                               /\ hand[t] \in Batches \cup {NULL} /\ victim[t] \in Threads \cup {NULL}
                               /\ st[t] \in WordType /\ st[t].head \in 0..MWINDOW_SIZE
                               /\ st[t].bm \subseteq Windows
                               /\ mw[t] \in WordType /\ mw[t].head \in 0..MWINDOW_SIZE
                               /\ mw[t].bm \subseteq Windows
                               /\ pmail[t] \subseteq Procs
                               /\ \A w \in Windows : slot[t][w] \in Batches \cup {NULL}
         /\ asleep \subseteq Procs
<1>1. /\ bt \in [Batches -> BatchType] /\ curb \in [Threads -> CurbType]
      /\ mw \in [Threads -> WordType] /\ st \in [Threads -> WordType]
  BY DEF TypeOK, BatchType, CurbType, WordType
<1>2. ASSUME NEW b \in Batches
      PROVE  /\ bt[b] \in BatchType /\ bt[b].procs \in Seq(Procs)
             /\ bt[b].window \in 0..MWINDOW_SIZE /\ bt[b].dirty \in BOOLEAN
             /\ b[1] \in Threads
  BY <1>1 DEF BatchType, Batches
<1>3. ASSUME NEW t \in Threads
      PROVE  /\ curb[t] \in CurbType /\ curb[t].procs \in Seq(Procs)
             /\ curb[t].left \in Nat /\ curb[t].affine \in BOOLEAN /\ curb[t].emptied \in BOOLEAN
             /\ st[t] \in WordType /\ st[t].head \in 0..MWINDOW_SIZE /\ st[t].bm \subseteq Windows
             /\ mw[t] \in WordType /\ mw[t].head \in 0..MWINDOW_SIZE /\ mw[t].bm \subseteq Windows
  BY <1>1 DEF CurbType, WordType
<1>4. ASSUME NEW t \in Threads
      PROVE  /\ list[t] \in Seq(Batches) /\ adds[t] \in Seq(Batches)
             /\ pending[t] \in Batches /\ used[t] \in BOOLEAN
             /\ free[t] \subseteq Batches /\ laundry[t] \subseteq Batches
             /\ hand[t] \in Batches \cup {NULL} /\ victim[t] \in Threads \cup {NULL}
             /\ pmail[t] \subseteq Procs
             /\ \A w \in Windows : slot[t][w] \in Batches \cup {NULL}
  BY DEF TypeOK
<1> QED
  BY <1>1, <1>2, <1>3, <1>4 DEF TypeOK

LEMMA TypeOKFrom ==
  ASSUME bt' \in [Batches -> BatchType], curb' \in [Threads -> CurbType],
         mw' \in [Threads -> WordType], st' \in [Threads -> WordType],
         list' \in [Threads -> Seq(Batches)], adds' \in [Threads -> Seq(Batches)],
         pending' \in [Threads -> Batches], used' \in [Threads -> BOOLEAN],
         rqstate' \in [Threads -> BOOLEAN], mwstate' \in [Threads -> BOOLEAN],
         free' \in [Threads -> SUBSET Batches], laundry' \in [Threads -> SUBSET Batches],
         slot' \in [Threads -> [Windows -> Batches \cup {NULL}]],
         pmail' \in [Threads -> SUBSET Procs], asleep' \in SUBSET Procs, waits' \in Nat,
         pc' \in [Threads -> Labels], hand' \in [Threads -> Batches \cup {NULL}],
         victim' \in [Threads -> Threads \cup {NULL}]
  PROVE  TypeOK'
  BY DEF TypeOK, BatchType, CurbType, WordType

(* What allocate_batch does to the batches.                                 *)
LEMMA Sweeping ==
  ASSUME TypeOK, NEW t \in Threads, NEW washed \in BOOLEAN
  PROVE  /\ Swept(t, washed) \in [Batches -> BatchType]
         /\ \A b \in Batches :
               /\ Swept(t, washed)[b].window = bt[b].window
               /\ Swept(t, washed)[b].dirty = bt[b].dirty
               /\ Swept(t, washed)[b].procs = IF washed /\ b \in Washed(t) THEN <<>> ELSE bt[b].procs
<1>1. \A b \in Batches : bt[b] \in BatchType
  BY Types
<1>2. <<>> \in Seq(Procs)
  OBVIOUS
<1> QED
  BY <1>1, <1>2 DEF Swept, BatchType

(* Where allocate_batch finds a batch.                                      *)
LEMMA Supplies ==
  ASSUME TypeOK, NEW t \in Threads, NEW fr \in SUBSET Batches
  PROVE  /\ Refill(t, fr) \subseteq Batches /\ Washed(t) \subseteq laundry[t]
         /\ Washed(t) \subseteq Batches
         /\ Refill(t, fr) # {} => Spare(Refill(t, fr)) \in Refill(t, fr)
         /\ NoBatch(fr) \in BOOLEAN
         /\ Refill(t, fr) = IF fr = {} THEN Washed(t) ELSE fr
<1>1. laundry[t] \subseteq Batches
  BY Types
<1> QED
  BY <1>1 DEF Refill, Spare, Washed, NoBatch

LEMMA LoadedType ==
  ASSUME TypeOK, NEW b \in Batches
  PROVE  Loaded(b) \in CurbType /\ Loaded(b).procs = bt[b].procs /\ Loaded(b).affine = HasAffinity(b)
<1>1. bt[b].procs \in Seq(Procs)
  BY Types
<1> QED
  BY <1>1, DispatchesIsNat DEF Loaded, HasAffinity, CurbType

(* Where a process may be, and what is there: Places, the other way round.  *)
Asleep      == <<"asleep", NULL, NULL>>
MailOf(t)     == <<"mail", t, NULL>>
Curb(t)     == <<"curb", t, NULL>>
Batch(t, b) == <<"batch", t, b>>
Spots == {Asleep} \cup {MailOf(t) : t \in Threads} \cup {Curb(t) : t \in Threads}
         \cup {Batch(t, b) : t \in Threads, b \in Batches}
InCurb(t)     == ToSet(curb[t].procs)
InBatch(t, b) == IF b \in Waiting(t) THEN ToSet(bt[b].procs) ELSE {}
Held(x) ==
    IF x = Asleep THEN asleep
    ELSE IF \E t \in Threads : x = MailOf(t) THEN pmail[x[2]]
    ELSE IF \E t \in Threads : x = Curb(t) THEN InCurb(x[2]) ELSE InBatch(x[2], x[3])

LEMMA SpotsDiffer ==
  /\ Asleep \in Spots
  /\ \A t, u, b, c :
        /\ Asleep # MailOf(t) /\ Asleep # Curb(t) /\ Asleep # Batch(t, b)
        /\ MailOf(t) # Curb(u) /\ MailOf(t) # Batch(u, b) /\ Curb(t) # Batch(u, b)
        /\ (MailOf(t) = MailOf(u) <=> t = u) /\ (Curb(t) = Curb(u) <=> t = u)
        /\ Batch(t, b) = Batch(u, c) <=> t = u /\ b = c
        /\ MailOf(t)[2] = t /\ Curb(t)[2] = t /\ Batch(t, b)[2] = t /\ Batch(t, b)[3] = b
  /\ \A t \in Threads : MailOf(t) \in Spots /\ Curb(t) \in Spots
  /\ \A t \in Threads, b \in Batches : Batch(t, b) \in Spots
<1>1. "asleep" # "mail" /\ "asleep" # "curb" /\ "asleep" # "batch" /\ "mail" # "curb"
      /\ "mail" # "batch" /\ "curb" # "batch"
  OBVIOUS
<1>2. ASSUME NEW t, NEW u, NEW b, NEW c
      PROVE  /\ Asleep # MailOf(t) /\ Asleep # Curb(t) /\ Asleep # Batch(t, b)
             /\ MailOf(t) # Curb(u) /\ MailOf(t) # Batch(u, b) /\ Curb(t) # Batch(u, b)
             /\ (MailOf(t) = MailOf(u) <=> t = u) /\ (Curb(t) = Curb(u) <=> t = u)
             /\ Batch(t, b) = Batch(u, c) <=> t = u /\ b = c
             /\ MailOf(t)[2] = t /\ Curb(t)[2] = t /\ Batch(t, b)[2] = t /\ Batch(t, b)[3] = b
  BY <1>1 DEF Asleep, MailOf, Curb, Batch
<1>3. /\ Asleep \in Spots
      /\ \A t \in Threads : MailOf(t) \in Spots /\ Curb(t) \in Spots
      /\ \A t \in Threads, b \in Batches : Batch(t, b) \in Spots
  BY DEF Spots
<1> QED
  BY <1>2, <1>3

LEMMA EverySpot ==
  ASSUME NEW x \in Spots
  PROVE  \/ x = Asleep \/ \E t \in Threads : x = MailOf(t) \/ x = Curb(t)
         \/ \E t \in Threads, b \in Batches : x = Batch(t, b)
  BY DEF Spots

LEMMA HeldThere ==
  /\ Held(Asleep) = asleep
  /\ \A t \in Threads : Held(MailOf(t)) = pmail[t] /\ Held(Curb(t)) = InCurb(t)
  /\ \A t \in Threads, b \in Batches : Held(Batch(t, b)) = InBatch(t, b)
  BY SpotsDiffer DEF Held

LEMMA HeldThereNext ==
  /\ Held(Asleep)' = asleep'
  /\ \A t \in Threads : Held(MailOf(t))' = pmail'[t] /\ Held(Curb(t))' = InCurb(t)'
  /\ \A t \in Threads, b \in Batches : Held(Batch(t, b))' = InBatch(t, b)'
  BY SpotsDiffer DEF Held

LEMMA PlacesAreSpots ==
  ASSUME NEW p \in Procs
  PROVE  /\ \A x : x \in Places(p) <=> x \in Spots /\ p \in Held(x)
         /\ \A x : x \in Places(p)' <=> x \in Spots /\ p \in Held(x)'
<1>1. ASSUME NEW x
      PROVE x \in Places(p) <=> x \in Spots /\ p \in Held(x)
  <2>1. x \in {<<"batch", y[1], y[2]>> : y \in
            {y \in Threads \X Batches : y[2] \in Waiting(y[1]) /\ p \in ToSet(bt[y[2]].procs)}}
        <=> \E t \in Threads, b \in Batches : x = Batch(t, b) /\ p \in InBatch(t, b)
    <3>1. ASSUME NEW t \in Threads, NEW b \in Batches, x = Batch(t, b), p \in InBatch(t, b)
          PROVE  \E y \in Threads \X Batches : /\ y[2] \in Waiting(y[1]) /\ p \in ToSet(bt[y[2]].procs)
                                               /\ x = <<"batch", y[1], y[2]>>
      <4>1. <<t, b>> \in Threads \X Batches /\ b \in Waiting(t) /\ p \in ToSet(bt[b].procs)
        BY <3>1 DEF InBatch
      <4> QED
        BY <3>1, <4>1 DEF Batch
    <3>2. ASSUME NEW y \in Threads \X Batches, y[2] \in Waiting(y[1]), p \in ToSet(bt[y[2]].procs),
                 x = <<"batch", y[1], y[2]>>
          PROVE  \E t \in Threads, b \in Batches : x = Batch(t, b) /\ p \in InBatch(t, b)
      BY <3>2 DEF Batch, InBatch
    <3> QED
      BY <3>1, <3>2
  <2>2. x \in Places(p) <=>
            \/ x = Asleep /\ p \in asleep
            \/ \E t \in Threads : x = MailOf(t) /\ p \in pmail[t]
            \/ \E t \in Threads : x = Curb(t) /\ p \in InCurb(t)
            \/ \E t \in Threads, b \in Batches : x = Batch(t, b) /\ p \in InBatch(t, b)
    BY <2>1 DEF Places, Asleep, MailOf, Curb, InCurb
  <2>3. x \in Spots /\ p \in Held(x) =>
            \/ x = Asleep /\ p \in asleep
            \/ \E t \in Threads : x = MailOf(t) /\ p \in pmail[t]
            \/ \E t \in Threads : x = Curb(t) /\ p \in InCurb(t)
            \/ \E t \in Threads, b \in Batches : x = Batch(t, b) /\ p \in InBatch(t, b)
    BY EverySpot, HeldThere
  <2> QED
    BY <2>2, <2>3, SpotsDiffer, HeldThere
<1>2. ASSUME NEW x
      PROVE x \in Places(p)' <=> x \in Spots /\ p \in Held(x)'
  <2>1. x \in {<<"batch", y[1], y[2]>> : y \in
            {y \in Threads \X Batches : y[2] \in Waiting(y[1])' /\ p \in ToSet(bt'[y[2]].procs)}}
        <=> \E t \in Threads, b \in Batches : x = Batch(t, b) /\ p \in InBatch(t, b)'
    <3>1. ASSUME NEW t \in Threads, NEW b \in Batches, x = Batch(t, b), p \in InBatch(t, b)'
          PROVE  \E y \in Threads \X Batches : /\ y[2] \in Waiting(y[1])' /\ p \in ToSet(bt'[y[2]].procs)
                                               /\ x = <<"batch", y[1], y[2]>>
      <4>1. <<t, b>> \in Threads \X Batches /\ b \in Waiting(t)' /\ p \in ToSet(bt'[b].procs)
        BY <3>1 DEF InBatch
      <4> QED
        BY <3>1, <4>1 DEF Batch
    <3>2. ASSUME NEW y \in Threads \X Batches, y[2] \in Waiting(y[1])', p \in ToSet(bt'[y[2]].procs),
                 x = <<"batch", y[1], y[2]>>
          PROVE  \E t \in Threads, b \in Batches : x = Batch(t, b) /\ p \in InBatch(t, b)'
      BY <3>2 DEF Batch, InBatch
    <3> QED
      BY <3>1, <3>2
  <2>2. x \in Places(p)' <=>
            \/ x = Asleep /\ p \in asleep'
            \/ \E t \in Threads : x = MailOf(t) /\ p \in pmail'[t]
            \/ \E t \in Threads : x = Curb(t) /\ p \in InCurb(t)'
            \/ \E t \in Threads, b \in Batches : x = Batch(t, b) /\ p \in InBatch(t, b)'
    BY <2>1 DEF Places, Asleep, MailOf, Curb, InCurb
  <2>3. x \in Spots /\ p \in Held(x)' =>
            \/ x = Asleep /\ p \in asleep'
            \/ \E t \in Threads : x = MailOf(t) /\ p \in pmail'[t]
            \/ \E t \in Threads : x = Curb(t) /\ p \in InCurb(t)'
            \/ \E t \in Threads, b \in Batches : x = Batch(t, b) /\ p \in InBatch(t, b)'
    BY EverySpot, HeldThereNext
  <2> QED
    BY <2>2, <2>3, SpotsDiffer, HeldThereNext
<1> QED
  BY <1>1, <1>2

(* A settled process is in one spot.                                        *)
LEMMA OneSpot ==
  ASSUME Settled, NEW p \in Procs
  PROVE  \E x \in Spots : \A y \in Spots : p \in Held(y) <=> y = x
<1>1. PICK x \in Places(p) : Places(p) = {x}
  BY DEF Settled
<1>2. \A y : y \in Spots /\ p \in Held(y) <=> y = x
  BY <1>1, PlacesAreSpots
<1> QED
  BY <1>2

LEMMA SettledFrom ==
  ASSUME \A p \in Procs : \E x \in Spots : \A y \in Spots : p \in Held(y)' <=> y = x
  PROVE  Settled'
<1>1. ASSUME NEW p \in Procs
      PROVE  \E x \in Places(p)' : Places(p)' = {x}
  <2>1. PICK x \in Spots : \A y \in Spots : p \in Held(y)' <=> y = x
    OBVIOUS
  <2>2. \A y : y \in Places(p)' <=> y = x
    BY <2>1, PlacesAreSpots
  <2> DEFINE P == Places(p)'
  <2> HIDE DEF P
  <2>3. \A y : y \in P <=> y = x
    BY <2>2 DEF P
  <2>4. \E z \in P : P = {z}
    BY ONLY <2>3
  <2> QED
    BY <2>4 DEF P
<1> QED
  BY <1>1 DEF Settled

LEMMA ElseNowhere ==
  ASSUME Settled, NEW a \in Spots, NEW b \in Spots, a # b, NEW p \in Procs, p \in Held(a)
  PROVE  p \notin Held(b)
  BY OneSpot

LEMMA Separate ==
  ASSUME Settled, NEW p \in Procs
  PROVE  /\ \A t \in Threads : /\ ~(p \in asleep /\ p \in pmail[t])
                               /\ ~(p \in asleep /\ p \in InCurb(t))
         /\ \A t, u \in Threads : /\ ~(p \in pmail[t] /\ p \in InCurb(u))
                                  /\ p \in pmail[t] /\ p \in pmail[u] => t = u
                                  /\ p \in InCurb(t) /\ p \in InCurb(u) => t = u
         /\ \A t, u \in Threads, b \in Batches :
                /\ ~(p \in asleep /\ p \in InBatch(t, b))
                /\ ~(p \in pmail[t] /\ p \in InBatch(u, b))
                /\ ~(p \in InCurb(t) /\ p \in InBatch(u, b))
                /\ \A c \in Batches : p \in InBatch(t, b) /\ p \in InBatch(u, c) => t = u /\ b = c
<1>1. PICK x \in Spots : \A y \in Spots : p \in Held(y) <=> y = x
  BY OneSpot
<1>2. p \in asleep <=> x = Asleep
  BY <1>1, SpotsDiffer, HeldThere
<1>3. \A t \in Threads : (p \in pmail[t] <=> x = MailOf(t)) /\ (p \in InCurb(t) <=> x = Curb(t))
  BY <1>1, SpotsDiffer, HeldThere
<1>4. \A t \in Threads, b \in Batches : p \in InBatch(t, b) <=> x = Batch(t, b)
  BY <1>1, SpotsDiffer, HeldThere
<1> QED
  BY <1>2, <1>3, <1>4, SpotsDiffer, SMTT(40)

(* The processes X go from spot a to spot b.                                *)
LEMMA Moved ==
  ASSUME Settled, NEW a \in Spots, NEW b \in Spots, a # b, NEW X \in SUBSET Held(a),
         Held(a)' = Held(a) \ X, Held(b)' = Held(b) \cup X,
         \A x \in Spots \ {a, b} : Held(x)' = Held(x)
  PROVE  Settled'
<1>1. ASSUME NEW p \in Procs, NEW x \in Spots
      PROVE  p \in Held(x)' <=> IF p \in X THEN x = b ELSE p \in Held(x)
  <2>1. p \in X /\ x # a => p \notin Held(x)
    BY ElseNowhere
  <2> QED
    BY <2>1
<1>2. ASSUME NEW p \in Procs
      PROVE  \E x \in Spots : \A y \in Spots : p \in Held(y)' <=> y = x
  <2>1. PICK x \in Spots : \A y \in Spots : p \in Held(y) <=> y = x
    BY OneSpot
  <2> QED
    BY <1>1, <2>1
<1> QED
  BY <1>2, SettledFrom

LEMMA Stays ==
  ASSUME Settled, \A x \in Spots : Held(x)' = Held(x)
  PROVE  Settled'
<1>1. ASSUME NEW p \in Procs
      PROVE  \E x \in Spots : \A y \in Spots : p \in Held(y)' <=> y = x
  BY OneSpot
<1> QED
  BY <1>1, SettledFrom

(* Taking a batch from the free list, after doing the laundry if that is    *)
(* empty: W is what comes back from the laundry.                            *)
LEMMA Allocation ==
  ASSUME TypeOK, NEW t \in Threads, Refill(t, free[t]) # {}
  PROVE  \E W \in SUBSET Washed(t) :
            /\ Refill(t, free[t]) = free[t] \cup W
            /\ W = IF NoBatch(free[t]) THEN Washed(t) ELSE {}
  BY DEF Refill, NoBatch

(* The current batch of a thread holds the processes S.                     *)
CurbBecomes(t, S) ==
    /\ curb' \in [Threads -> CurbType]
    /\ ToSet(curb'[t].procs) = S /\ IsInjective(curb'[t].procs)
    /\ curb'[t].affine = curb[t].affine
    /\ \A u \in Threads : u # t => curb'[u] = curb[u]

LEMMA RunningTo ==
  ASSUME RInv, NEW t \in Threads, ~EndOfCurb(t), NEW rest \in Seq(Procs), Running(t, rest),
         IsInjective(rest)
  PROVE  CurbBecomes(t, ToSet(rest))
<1>1. curb \in [Threads -> CurbType] /\ curb[t] \in CurbType /\ curb[t].left \in Nat /\ curb[t].emptied \in BOOLEAN
  BY Types DEF RInv
<1>2. curb[t].left - 1 \in Nat
  BY <1>1 DEF EndOfCurb
<1>3. (curb[t].emptied \/ Len(curb[t].procs) = 1) \in BOOLEAN
  OBVIOUS
<1> DEFINE c == curb[t]
           e == c.emptied \/ Len(c.procs) = 1
           r == [c EXCEPT !.procs = rest, !.left = @ - 1, !.emptied = @ \/ Len(c.procs) = 1]
<1>4. r \in CurbType /\ r.procs = rest /\ r.affine = c.affine
  BY <1>1, <1>2, <1>3 DEF CurbType
<1>5. curb' = [curb EXCEPT ![t] = r]
  BY DEF Running
<1> HIDE DEF r
<1> QED
  BY <1>1, <1>4, <1>5 DEF CurbBecomes

(* enqueue_process to another batch than the current one.                   *)
Enqueued(t, p) ==
    /\ bt' \in [Batches -> BatchType]
    /\ \A c \in Batches : bt'[c].window = bt[c].window /\ bt'[c].dirty = bt[c].dirty
    /\ list' = list /\ rqstate' \in [Threads -> BOOLEAN]
    /\ used' = [used EXCEPT ![t] = TRUE]
    /\ \/ /\ SamePending(t, p)
          /\ bt'[pending[t]].procs = Append(bt[pending[t]].procs, p)
          /\ \A c \in Batches : c # pending[t] => bt'[c].procs = bt[c].procs
          /\ pending' = pending /\ free' = free /\ laundry' = laundry
          /\ adds' = adds /\ pc' = pc
       \/ \E W \in SUBSET Washed(t) : \E b \in free[t] \cup W :
          /\ used[t] /\ b \in Batches
          /\ bt'[b].procs = <<p>>
          /\ \A c \in Batches : c # b => bt'[c].procs = IF c \in W THEN <<>> ELSE bt[c].procs
          /\ pending' = [pending EXCEPT ![t] = b]
          /\ free' = [free EXCEPT ![t] = (free[t] \cup W) \ {b}]
          /\ laundry' = [laundry EXCEPT ![t] = laundry[t] \ W]
          /\ adds' = [adds EXCEPT ![t] = <<pending[t]>>]
          /\ pc' = [pc EXCEPT ![t] = "add"]

LEMMA EnqueueEffect ==
  ASSUME TypeOK, NEW t \in Threads, NEW p \in Procs, EnqueueFar(t, p)
  PROVE  Enqueued(t, p)
<1>1. /\ list' = list /\ used' = [used EXCEPT ![t] = TRUE]
      /\ rqstate' \in [Threads -> BOOLEAN]
  BY DEF EnqueueFar, TypeOK
<1>2. pending[t] \in Batches /\ bt[pending[t]].procs \in Seq(Procs) /\ bt \in [Batches -> BatchType]
  BY Types
<1>3. CASE SamePending(t, p)
  <2>1. /\ bt' = [bt EXCEPT ![pending[t]].procs = Append(bt[pending[t]].procs, p)]
        /\ UNCHANGED <<pending, free, laundry, adds, pc>>
    BY <1>3 DEF EnqueueFar
  <2>2. Append(bt[pending[t]].procs, p) \in Seq(Procs)
    BY <1>2
  <2> DEFINE v == Append(bt[pending[t]].procs, p)
             d == pending[t]
  <2>4. bt' = WithProcs(bt, d, v) /\ d \in Batches /\ v \in Seq(Procs)
    BY <1>2, <2>1, <2>2 DEF WithProcs
  <2>3. /\ bt' \in [Batches -> BatchType]
        /\ \A c \in Batches :
              /\ bt'[c].procs = IF c = d THEN v ELSE bt[c].procs
              /\ bt'[c].window = bt[c].window /\ bt'[c].dirty = bt[c].dirty
    <3> HIDE DEF v, d
    <3> QED
      BY ONLY <1>2, <2>4, SetProcs
  <2> QED
    BY <1>1, <1>2, <1>3, <2>1, <2>3 DEF Enqueued
<1>4. CASE ~SamePending(t, p)
  <2> DEFINE fr == Refill(t, free[t])
             w  == NoBatch(free[t])
  <2>1. /\ fr # {} /\ pending' = [pending EXCEPT ![t] = Spare(fr)]
        /\ bt' = [Swept(t, w) EXCEPT ![Spare(fr)].procs = <<p>>]
        /\ SetMemory(t, fr \ {Spare(fr)}, w)
        /\ adds' = [adds EXCEPT ![t] = <<pending[t]>>] /\ pc' = [pc EXCEPT ![t] = "add"]
    BY <1>4 DEF EnqueueFar, Goto
  <2>2. PICK W \in SUBSET Washed(t) : fr = free[t] \cup W /\ W = IF w THEN Washed(t) ELSE {}
    BY <2>1, Allocation
  <2>3. free[t] \in SUBSET Batches
    BY Types
  <2>4. Spare(fr) \in fr /\ fr \subseteq Batches /\ w \in BOOLEAN
    BY <2>1, <2>3, Supplies
  <2>5. used[t]
    BY <1>4 DEF SamePending
  <2>6. /\ Swept(t, w) \in [Batches -> BatchType]
        /\ \A b \in Batches :
              /\ Swept(t, w)[b].window = bt[b].window /\ Swept(t, w)[b].dirty = bt[b].dirty
              /\ Swept(t, w)[b].procs = IF b \in W THEN <<>> ELSE bt[b].procs
    BY <2>2, <2>4, Sweeping
  <2> DEFINE b == Spare(fr)
             f == Swept(t, w)
  <2>7. b \in free[t] \cup W /\ b \in Batches
    BY <2>2, <2>4
  <2>8. free' = [free EXCEPT ![t] = (free[t] \cup W) \ {b}]
    BY <2>1, <2>2 DEF SetMemory
  <2>9. laundry' = [laundry EXCEPT ![t] = laundry[t] \ W]
    <3>1. laundry' = [laundry EXCEPT ![t] = IF w THEN laundry[t] \ Washed(t) ELSE laundry[t]]
      BY <2>1 DEF SetMemory
    <3> QED
      BY <2>2, <3>1
  <2> HIDE DEF fr, w, b, f
  <2> DEFINE v == <<p>>
  <2>10. v \in Seq(Procs)
    OBVIOUS
  <2>11. bt' = WithProcs(f, b, v) /\ f \in [Batches -> BatchType]
    BY <2>1, <2>6 DEF b, f, WithProcs
  <2>12. /\ bt' \in [Batches -> BatchType]
         /\ \A c \in Batches :
               /\ bt'[c].procs = IF c = b THEN v ELSE f[c].procs
               /\ bt'[c].window = f[c].window /\ bt'[c].dirty = f[c].dirty
    <3> HIDE DEF v
    <3> QED
      BY ONLY <2>7, <2>10, <2>11, SetProcs
  <2>13. /\ bt'[b].procs = <<p>>
         /\ \A c \in Batches : c # b => bt'[c].procs = IF c \in W THEN <<>> ELSE bt[c].procs
         /\ \A c \in Batches : bt'[c].window = bt[c].window /\ bt'[c].dirty = bt[c].dirty
    BY <2>6, <2>7, <2>12 DEF f
  <2>14. pending' = [pending EXCEPT ![t] = b]
    BY <2>1 DEF b
  <2>15. \E V \in SUBSET Washed(t) : \E d \in free[t] \cup V :
          /\ used[t] /\ d \in Batches
          /\ bt'[d].procs = <<p>>
          /\ \A c \in Batches : c # d => bt'[c].procs = IF c \in V THEN <<>> ELSE bt[c].procs
          /\ pending' = [pending EXCEPT ![t] = d]
          /\ free' = [free EXCEPT ![t] = (free[t] \cup V) \ {d}]
          /\ laundry' = [laundry EXCEPT ![t] = laundry[t] \ V]
          /\ adds' = [adds EXCEPT ![t] = <<pending[t]>>]
          /\ pc' = [pc EXCEPT ![t] = "add"]
    <3>1. /\ used[t] /\ b \in Batches
          /\ bt'[b].procs = <<p>>
          /\ \A c \in Batches : c # b => bt'[c].procs = IF c \in W THEN <<>> ELSE bt[c].procs
          /\ pending' = [pending EXCEPT ![t] = b]
          /\ free' = [free EXCEPT ![t] = (free[t] \cup W) \ {b}]
          /\ laundry' = [laundry EXCEPT ![t] = laundry[t] \ W]
          /\ adds' = [adds EXCEPT ![t] = <<pending[t]>>]
          /\ pc' = [pc EXCEPT ![t] = "add"]
      BY <2>1, <2>5, <2>7, <2>8, <2>9, <2>13, <2>14
    <3>2. W \in SUBSET Washed(t) /\ b \in free[t] \cup W
      BY <2>2, <2>7
    <3> QED
      BY ONLY <3>1, <3>2
  <2> QED
    BY ONLY <1>1, <2>12, <2>13, <2>15 DEF Enqueued
<1> QED
  BY <1>3, <1>4

(* What a process that runs does: it pauses, goes to sleep, or wakes one.   *)
LEMMA RunEffect ==
  ASSUME RInv, NEW t \in Threads, Run(t)
  PROVE  /\ pc[t] = "run" /\ UNCHANGED <<slot, mw, mwstate, st, hand, victim>>
         /\ \/ /\ CurbBecomes(t, InCurb(t))
               /\ UNCHANGED <<bt, list, pending, used, rqstate, free, laundry, pmail, asleep,
                              waits, pc, adds>>
            \/ \E p \in InCurb(t) :
               /\ CurbBecomes(t, InCurb(t) \ {p})
               /\ asleep' = asleep \cup {p} /\ waits' \in Nat
               /\ UNCHANGED <<bt, list, pending, used, rqstate, free, laundry, pmail, pc, adds>>
            \/ \E r \in asleep :
               /\ asleep' = asleep \ {r} /\ UNCHANGED waits
               /\ \/ /\ Home[r] \in {NULL, t} /\ SameCurb(t, r)
                     /\ CurbBecomes(t, InCurb(t) \cup {r})
                     /\ UNCHANGED <<bt, list, pending, used, rqstate, free, laundry, pmail, pc, adds>>
                  \/ /\ Home[r] \in {NULL, t} /\ ~SameCurb(t, r)
                     /\ CurbBecomes(t, InCurb(t)) /\ Enqueued(t, r) /\ UNCHANGED pmail
                  \/ /\ Home[r] \notin {NULL, t} /\ CurbBecomes(t, InCurb(t))
                     /\ pmail' = [pmail EXCEPT ![Home[r]] = @ \cup {r}]
                     /\ UNCHANGED <<bt, list, pending, used, rqstate, free, laundry, pc, adds>>
<1> DEFINE c == curb[t].procs
           p == Head(c)
           q == Tail(c)
<1>1. TypeOK /\ c \in Seq(Procs) /\ c # <<>> /\ IsInjective(c) /\ ~EndOfCurb(t)
  BY Types DEF RInv, Contents, Run, EndOfCurb
<1>2. /\ p \in Procs /\ p \in ToSet(c) /\ q \in Seq(Procs) /\ IsInjective(q)
      /\ ToSet(q) = ToSet(c) \ {p}
  BY <1>1, HeadAndTail
<1>3. asleep \subseteq Procs /\ asleep \cap ToSet(c) = {}
  <2>1. asleep \subseteq Procs /\ Settled
    BY <1>1, Types DEF RInv
  <2> QED
    BY <2>1, Separate DEF InCurb
<1> HIDE DEF c, p, q
<1>4. /\ Append(q, p) \in Seq(Procs) /\ IsInjective(Append(q, p)) /\ ToSet(Append(q, p)) = ToSet(c)
  <2>1. p \notin ToSet(q) /\ ToSet(q) \cup {p} = ToSet(c)
    BY <1>2
  <2>2. /\ Append(q, p) \in Seq(Procs) /\ ToSet(Append(q, p)) = ToSet(q) \cup {p}
        /\ IsInjective(Append(q, p))
    BY <1>2, <2>1, Appended
  <2> QED
    BY <2>1, <2>2
<1>5. ASSUME NEW r \in asleep
      PROVE  /\ Append(Append(q, r), p) \in Seq(Procs) /\ IsInjective(Append(Append(q, r), p))
             /\ ToSet(Append(Append(q, r), p)) = ToSet(c) \cup {r}
  <2>1. r \in Procs /\ r \notin ToSet(c) /\ r # p
    BY <1>2, <1>3
  <2>2. /\ Append(q, r) \in Seq(Procs) /\ IsInjective(Append(q, r))
        /\ ToSet(Append(q, r)) = ToSet(q) \cup {r}
    BY <1>2, <2>1, Appended
  <2> DEFINE s == Append(q, r)
  <2>3. p \notin ToSet(s) /\ ToSet(s) \cup {p} = ToSet(c) \cup {r}
    BY <1>2, <2>1, <2>2
  <2>4. s \in Seq(Procs) /\ IsInjective(s)
    BY <2>2
  <2> HIDE DEF s
  <2>5. Append(s, p) \in Seq(Procs) /\ IsInjective(Append(s, p)) /\ ToSet(Append(s, p)) = ToSet(c) \cup {r}
    BY ONLY <1>2, <2>3, <2>4, Appended
  <2> QED
    BY <2>5 DEF s
<1>6. Running(t, Append(q, p)) => CurbBecomes(t, InCurb(t))
  BY <1>1, <1>4, RunningTo DEF InCurb, c
<1>7. Running(t, q) => CurbBecomes(t, InCurb(t) \ {p})
  BY <1>1, <1>2, RunningTo DEF InCurb, c
<1>8. ASSUME NEW r \in asleep, Running(t, Append(Append(q, r), p)) PROVE CurbBecomes(t, InCurb(t) \cup {r})
  BY <1>1, <1>5, <1>8, RunningTo DEF InCurb, c
<1>9. waits \in Nat /\ waits + 1 \in Nat
  BY <1>1 DEF TypeOK
<1>10. pc[t] = "run" /\ UNCHANGED <<slot, mw, mwstate, st, hand, victim>>
  BY DEF Run, At, window
<1>11. CASE Running(t, Append(q, p)) /\ UNCHANGED <<bt, queue, env, pc, adds>>
  BY <1>6, <1>10, <1>11 DEF queue, env
<1>12. CASE /\ waits' = waits + 1 /\ Running(t, q) /\ asleep' = asleep \cup {p}
            /\ UNCHANGED <<bt, queue, pmail, pc, adds>>
  <2>1. p \in InCurb(t)
    BY <1>2 DEF InCurb, c
  <2> QED
    BY <1>7, <1>9, <1>10, <1>12, <2>1 DEF queue
<1>13. ASSUME NEW r \in asleep, asleep' = asleep \ {r}, UNCHANGED waits,
              \/ /\ Home[r] \in {NULL, t} /\ SameCurb(t, r)
                 /\ Running(t, Append(Append(q, r), p))
                 /\ UNCHANGED <<bt, queue, pmail, pc, adds>>
              \/ /\ Home[r] \in {NULL, t} /\ ~SameCurb(t, r)
                 /\ Running(t, Append(q, p)) /\ EnqueueFar(t, r) /\ UNCHANGED pmail
              \/ /\ Home[r] \notin {NULL, t} /\ Running(t, Append(q, p))
                 /\ pmail' = [pmail EXCEPT ![Home[r]] = @ \cup {r}]
                 /\ UNCHANGED <<bt, queue, pc, adds>>
       PROVE  \/ /\ Home[r] \in {NULL, t} /\ SameCurb(t, r)
                 /\ CurbBecomes(t, InCurb(t) \cup {r})
                 /\ UNCHANGED <<bt, list, pending, used, rqstate, free, laundry, pmail, pc, adds>>
              \/ /\ Home[r] \in {NULL, t} /\ ~SameCurb(t, r)
                 /\ CurbBecomes(t, InCurb(t)) /\ Enqueued(t, r) /\ UNCHANGED pmail
              \/ /\ Home[r] \notin {NULL, t} /\ CurbBecomes(t, InCurb(t))
                 /\ pmail' = [pmail EXCEPT ![Home[r]] = @ \cup {r}]
                 /\ UNCHANGED <<bt, list, pending, used, rqstate, free, laundry, pc, adds>>
  <2>1. r \in Procs
    BY <1>3
  <2>2. EnqueueFar(t, r) => Enqueued(t, r)
    BY <1>1, <2>1, EnqueueEffect
  <2>3. Running(t, Append(Append(q, r), p)) => CurbBecomes(t, InCurb(t) \cup {r})
    BY <1>8
  <2> QED
    BY <1>6, <1>13, <2>2, <2>3 DEF queue
<1>14. \/ Running(t, Append(q, p)) /\ UNCHANGED <<bt, queue, env, pc, adds>>
       \/ /\ waits' = waits + 1 /\ Running(t, q) /\ asleep' = asleep \cup {p}
          /\ UNCHANGED <<bt, queue, pmail, pc, adds>>
       \/ \E r \in asleep :
             /\ asleep' = asleep \ {r} /\ UNCHANGED waits
             /\ \/ /\ Home[r] \in {NULL, t} /\ SameCurb(t, r)
                   /\ Running(t, Append(Append(q, r), p))
                   /\ UNCHANGED <<bt, queue, pmail, pc, adds>>
                \/ /\ Home[r] \in {NULL, t} /\ ~SameCurb(t, r)
                   /\ Running(t, Append(q, p)) /\ EnqueueFar(t, r) /\ UNCHANGED pmail
                \/ /\ Home[r] \notin {NULL, t} /\ Running(t, Append(q, p))
                   /\ pmail' = [pmail EXCEPT ![Home[r]] = @ \cup {r}]
                   /\ UNCHANGED <<bt, queue, pc, adds>>
  BY DEF Run, c, p, q
<1> QED
  BY <1>10, <1>11, <1>12, <1>13, <1>14

LEMMA MailEffect ==
  ASSUME RInv, NEW t \in Threads, TakeMail(t)
  PROVE  /\ pc[t] = "run" /\ UNCHANGED <<slot, mw, mwstate, st, hand, victim, asleep, waits>>
         /\ \E p \in pmail[t] :
               /\ pmail' = [pmail EXCEPT ![t] = @ \ {p}]
               /\ \/ /\ SameCurb(t, p)
                     /\ CurbBecomes(t, InCurb(t) \cup {p})
                     /\ UNCHANGED <<bt, list, pending, used, rqstate, free, laundry, pc, adds>>
                  \/ /\ ~SameCurb(t, p)
                     /\ Enqueued(t, p) /\ UNCHANGED curb
<1>1. TypeOK /\ curb[t].procs \in Seq(Procs) /\ IsInjective(curb[t].procs) /\ curb \in [Threads -> CurbType]
  BY Types DEF RInv, Contents
<1>2. pmail[t] \subseteq Procs /\ pmail[t] \cap ToSet(curb[t].procs) = {}
  <2>1. pmail[t] \subseteq Procs /\ Settled
    BY <1>1, Types DEF RInv
  <2> QED
    BY <2>1, Separate DEF InCurb
<1>3. PICK p \in pmail[t] :
          /\ pmail' = [pmail EXCEPT ![t] = @ \ {p}]
          /\ \/ /\ SameCurb(t, p)
                /\ curb' = [curb EXCEPT ![t].procs = Append(@, p)]
                /\ UNCHANGED <<bt, queue, pc, adds>>
             \/ ~SameCurb(t, p) /\ EnqueueFar(t, p) /\ UNCHANGED curb
  BY DEF TakeMail
<1>4. EnqueueFar(t, p) => Enqueued(t, p)
  BY <1>1, <1>2, EnqueueEffect
<1>5. ASSUME curb' = [curb EXCEPT ![t].procs = Append(@, p)]
      PROVE  CurbBecomes(t, InCurb(t) \cup {p})
  <2>1. p \in Procs /\ p \notin ToSet(curb[t].procs)
    BY <1>2
  <2> DEFINE s == Append(curb[t].procs, p)
  <2>2. s \in Seq(Procs) /\ IsInjective(s) /\ ToSet(s) = InCurb(t) \cup {p}
    BY <1>1, <2>1, Appended DEF InCurb
  <2>3. curb' = WithCurb(curb, t, s)
    BY <1>5 DEF WithCurb
  <2> HIDE DEF s
  <2>4. /\ curb' \in [Threads -> CurbType]
        /\ \A u \in Threads : /\ curb'[u].procs = IF u = t THEN s ELSE curb[u].procs
                              /\ curb'[u].affine = curb[u].affine
    BY ONLY <1>1, <2>2, <2>3, t \in Threads, SetCurb
  <2>5. \A u \in Threads : u # t => curb'[u] = curb[u]
    BY <1>1, <1>5
  <2> QED
    BY <2>2, <2>4, <2>5 DEF CurbBecomes
<1>6. pc[t] = "run" /\ UNCHANGED <<slot, mw, mwstate, st, hand, victim, asleep, waits>>
  BY DEF TakeMail, At, window
<1> QED
  BY <1>3, <1>4, <1>5, <1>6 DEF queue

(* The current batch of t is replaced by processes v.                       *)
Emptied(t, v, affine) ==
    /\ curb' \in [Threads -> CurbType]
    /\ curb'[t].procs = v /\ curb'[t].affine = affine
    /\ \A u \in Threads : u # t => curb'[u] = curb[u]

(* The washed batches W go from the laundry of t, blank; D are the batches  *)
(* that get other processes.                                                *)
WashedBut(t, W, D) ==
    /\ bt' \in [Batches -> BatchType]
    /\ \A c \in Batches : bt'[c].window = bt[c].window /\ bt'[c].dirty = bt[c].dirty
    /\ \A c \in Batches \ D : bt'[c].procs = IF c \in W THEN <<>> ELSE bt[c].procs
    /\ laundry' = [laundry EXCEPT ![t] = laundry[t] \ W]

LEMMA SweptOf ==
  ASSUME TypeOK, NEW t \in Threads, NEW w \in BOOLEAN
  PROVE  /\ Swept(t, w) \in [Batches -> BatchType]
         /\ \A b \in Batches :
              /\ Swept(t, w)[b].window = bt[b].window /\ Swept(t, w)[b].dirty = bt[b].dirty
              /\ Swept(t, w)[b].procs = IF b \in (IF w THEN Washed(t) ELSE {}) THEN <<>> ELSE bt[b].procs
  BY Sweeping

LEMMA LaundryOf ==
  ASSUME NEW t \in Threads, NEW fr, NEW w \in BOOLEAN,
         SetMemory(t, fr, w)
  PROVE  /\ free' = [free EXCEPT ![t] = fr]
         /\ laundry' = [laundry EXCEPT ![t] = laundry[t] \ (IF w THEN Washed(t) ELSE {})]
<1>1. laundry' = [laundry EXCEPT ![t] = IF w THEN laundry[t] \ Washed(t) ELSE laundry[t]]
  BY DEF SetMemory
<1> QED
  BY <1>1 DEF SetMemory

(* What push_curb and push_batch leave of the memory of t.                  *)
Old(t) == IF used[t] THEN {} ELSE {pending[t]}
OldAdds(t) == IF used[t] THEN <<pending[t]>> ELSE <<>>
PushedOne(t) ==
    \E W \in SUBSET Washed(t) : \E b \in free[t] \cup W :
        /\ b \in Batches /\ WashedBut(t, W, {b})
        /\ bt'[b].procs = curb[t].procs
        /\ pending' = [pending EXCEPT ![t] = b]
        /\ free' = [free EXCEPT ![t] = (free[t] \cup W \cup Old(t)) \ {b}]
        /\ adds' = [adds EXCEPT ![t] = OldAdds(t)]
        /\ pc' = [pc EXCEPT ![t] = IF used[t] THEN "add" ELSE "pick"]
PushedTwo(t) ==
    \E W \in SUBSET Washed(t) : \E b \in free[t] \cup W :
    \E d \in (free[t] \cup W \cup Old(t)) \ {b} :
        /\ Len(curb[t].procs) > 1
        /\ b \in Batches /\ d \in Batches /\ WashedBut(t, W, {b, d})
        /\ bt'[b].procs = <<Head(curb[t].procs)>> /\ bt'[d].procs = Tail(curb[t].procs)
        /\ pending' = [pending EXCEPT ![t] = d]
        /\ free' = [free EXCEPT ![t] = (free[t] \cup W \cup Old(t)) \ {b, d}]
        /\ adds' = [adds EXCEPT ![t] = OldAdds(t) \o <<b>>]
        /\ pc' = [pc EXCEPT ![t] = "add"]

LEMMA PushEffect ==
  ASSUME RInv, NEW t \in Threads, PushCurb(t)
  PROVE  /\ pc[t] = "run" /\ curb[t].procs # <<>>
         /\ UNCHANGED <<list, slot, mw, mwstate, pmail, asleep, waits, st, hand, victim>>
         /\ used' = [used EXCEPT ![t] = TRUE] /\ rqstate' = [rqstate EXCEPT ![t] = TRUE]
         /\ Emptied(t, <<>>, curb[t].affine)
         /\ PushedOne(t) \/ PushedTwo(t)
<1>1. /\ TypeOK /\ bt \in [Batches -> BatchType] /\ curb \in [Threads -> CurbType]
      /\ curb[t].procs \in Seq(Procs) /\ pending[t] \in Batches /\ free[t] \subseteq Batches
      /\ laundry[t] \subseteq Batches /\ used[t] \in BOOLEAN
  BY Types DEF RInv
<1>2. /\ free[t] \cap laundry[t] = {} /\ pending[t] \notin free[t] \cup laundry[t]
  BY DEF RInv, Memory
<1>3. /\ pc[t] = "run" /\ curb[t].procs # <<>>
      /\ UNCHANGED <<list, slot, mw, mwstate, pmail, asleep, waits, st, hand, victim>>
      /\ used' = [used EXCEPT ![t] = TRUE] /\ rqstate' = [rqstate EXCEPT ![t] = TRUE]
  BY DEF PushCurb, At, window, env
<1>4. Emptied(t, <<>>, curb[t].affine)
  <2> DEFINE s == <<>>
  <2>1. s \in Seq(Procs) /\ curb' = WithCurb(curb, t, s)
    BY DEF PushCurb, WithCurb
  <2>2. curb' = [curb EXCEPT ![t].procs = <<>>]
    BY DEF PushCurb
  <2> HIDE DEF s
  <2>3. /\ curb' \in [Threads -> CurbType]
        /\ \A u \in Threads : /\ curb'[u].procs = IF u = t THEN s ELSE curb[u].procs
                              /\ curb'[u].affine = curb[u].affine
    BY ONLY <1>1, <2>1, t \in Threads, SetCurb
  <2>4. \A u \in Threads : u # t => curb'[u] = curb[u]
    BY <1>1, <2>2
  <2> QED
    BY <2>3, <2>4 DEF Emptied, s
<1> DEFINE ps    == curb[t].procs
           w     == NoBatch(free[t])
           one   == Refill(t, free[t])
           b     == Spare(one)
           rest  == (one \ {b}) \cup Old(t)
           two   == IF w THEN rest ELSE Refill(t, rest)
           d     == Spare(two)
           again == w \/ NoBatch(rest)
<1>5. /\ one # {} /\ (Split(t) => two # {})
      /\ \/ /\ Split(t)
            /\ bt' = [Swept(t, again) EXCEPT ![b].procs = <<Head(ps)>>, ![d].procs = Tail(ps)]
            /\ pending' = [pending EXCEPT ![t] = d]
            /\ SetMemory(t, two \ {d}, again)
         \/ /\ ~Split(t)
            /\ bt' = [Swept(t, w) EXCEPT ![b].procs = ps]
            /\ pending' = [pending EXCEPT ![t] = b]
            /\ SetMemory(t, rest, w)
      /\ adds' = [adds EXCEPT ![t] = OldAdds(t) \o (IF Split(t) THEN <<b>> ELSE <<>>)]
      /\ pc' = [pc EXCEPT ![t] = IF adds'[t] = <<>> THEN "pick" ELSE "add"]
  BY DEF PushCurb, Goto, Old, OldAdds
<1>6. /\ one \subseteq Batches /\ b \in one /\ w \in BOOLEAN
      /\ one = IF free[t] = {} THEN Washed(t) ELSE free[t]
      /\ Washed(t) \subseteq laundry[t] /\ Washed(t) \subseteq Batches
  BY <1>1, <1>5, Supplies
<1>7. Old(t) \subseteq Batches /\ rest \subseteq Batches
  BY <1>1, <1>6 DEF Old
<1>8. w <=> free[t] = {}
  BY DEF NoBatch
<1>9. adds \in [Threads -> Seq(Batches)]
  BY <1>1 DEF TypeOK
<1>10. Split(t) \in BOOLEAN
  BY DEF Split
<1> HIDE DEF ps, w, one, b, rest, two, d, again
<1>11. CASE Split(t)
  <2>1. /\ two = IF w \/ rest # {} THEN rest ELSE Washed(t)
        /\ d \in two /\ again \in BOOLEAN /\ (again <=> w \/ rest = {})
    <3>1. Refill(t, rest) = IF rest = {} THEN Washed(t) ELSE rest
      BY <1>1, <1>7, Supplies
    <3>2. two # {} /\ two \subseteq Batches
      BY <1>1, <1>5, <1>6, <1>7, <1>11, <3>1 DEF two
    <3>3. d \in two
      BY <3>2 DEF d, Spare
    <3> QED
      BY <3>1, <3>3 DEF two, again, NoBatch, w
  <2> DEFINE W == IF again THEN Washed(t) ELSE {}
  <2>2. /\ W \in SUBSET Washed(t) /\ b \in free[t] \cup W
        /\ d \in (free[t] \cup W \cup Old(t)) \ {b}
        /\ two \ {d} = (free[t] \cup W \cup Old(t)) \ {b, d}
    BY <1>2, <1>6, <1>8, <2>1 DEF rest, Old
  <2>3. b \in Batches /\ d \in Batches /\ b # d
    BY <1>1, <1>6, <1>7, <2>2
  <2>4. free' = [free EXCEPT ![t] = two \ {d}] /\ laundry' = [laundry EXCEPT ![t] = laundry[t] \ W]
    <3>1. SetMemory(t, two \ {d}, again)
      BY <1>5, <1>11
    <3> QED
      BY <2>1, <3>1, LaundryOf
  <2>5. Len(ps) > 1 /\ Head(ps) \in Procs /\ Tail(ps) \in Seq(Procs)
    BY <1>1, <1>3, <1>11 DEF Split, ps
  <2> DEFINE f == Swept(t, again)
             v == <<Head(ps)>>
             u == Tail(ps)
  <2>6. bt' = WithTwo(f, b, v, d, u)
    BY <1>5, <1>11 DEF WithTwo
  <2>7. /\ f \in [Batches -> BatchType]
        /\ \A c \in Batches :
              /\ f[c].window = bt[c].window /\ f[c].dirty = bt[c].dirty
              /\ f[c].procs = IF c \in W THEN <<>> ELSE bt[c].procs
    BY <1>1, <2>1, SweptOf
  <2>8. v \in Seq(Procs) /\ u \in Seq(Procs)
    BY <2>5
  <2> HIDE DEF f, v, u, W
  <2>9. /\ bt' \in [Batches -> BatchType]
        /\ \A x \in Batches : /\ bt'[x].procs = IF x = d THEN u ELSE IF x = b THEN v ELSE f[x].procs
                              /\ bt'[x].window = f[x].window /\ bt'[x].dirty = f[x].dirty
    BY ONLY <2>3, <2>6, <2>7, <2>8, SetTwo
  <2>10. WashedBut(t, W, {b, d}) /\ bt'[b].procs = v /\ bt'[d].procs = u
    BY <2>3, <2>4, <2>7, <2>9 DEF WashedBut
  <2>11. adds' = [adds EXCEPT ![t] = OldAdds(t) \o <<b>>]
    BY <1>5, <1>11
  <2>12. adds'[t] # <<>>
    BY <1>1, <1>9, <2>3, <2>11 DEF OldAdds
  <2>13. pc' = [pc EXCEPT ![t] = "add"]
    BY <1>5, <2>12
  <2>14. /\ Len(curb[t].procs) > 1 /\ b \in Batches /\ d \in Batches /\ WashedBut(t, W, {b, d})
         /\ bt'[b].procs = <<Head(curb[t].procs)>> /\ bt'[d].procs = Tail(curb[t].procs)
         /\ pending' = [pending EXCEPT ![t] = d]
         /\ free' = [free EXCEPT ![t] = (free[t] \cup W \cup Old(t)) \ {b, d}]
         /\ adds' = [adds EXCEPT ![t] = OldAdds(t) \o <<b>>]
         /\ pc' = [pc EXCEPT ![t] = "add"]
    BY <1>5, <1>11, <2>2, <2>3, <2>4, <2>5, <2>10, <2>11, <2>13 DEF ps, v, u
  <2>15. PushedTwo(t)
    BY ONLY <2>2, <2>14 DEF PushedTwo
  <2> QED
    BY <1>3, <1>4, <2>15
<1>12. CASE ~Split(t)
  <2> DEFINE W == IF w THEN Washed(t) ELSE {}
  <2>1. /\ W \in SUBSET Washed(t) /\ b \in free[t] \cup W
        /\ rest = (free[t] \cup W \cup Old(t)) \ {b}
    BY <1>2, <1>6, <1>8 DEF rest, Old
  <2>2. b \in Batches
    BY <1>6
  <2>3. free' = [free EXCEPT ![t] = rest] /\ laundry' = [laundry EXCEPT ![t] = laundry[t] \ W]
    <3>1. SetMemory(t, rest, w)
      BY <1>5, <1>12
    <3> QED
      BY <1>6, <3>1, LaundryOf
  <2> DEFINE f == Swept(t, w)
  <2>4. bt' = WithProcs(f, b, ps)
    BY <1>5, <1>12 DEF WithProcs
  <2>5. /\ f \in [Batches -> BatchType]
        /\ \A c \in Batches :
              /\ f[c].window = bt[c].window /\ f[c].dirty = bt[c].dirty
              /\ f[c].procs = IF c \in W THEN <<>> ELSE bt[c].procs
    BY <1>1, <1>6, SweptOf
  <2>6. ps \in Seq(Procs)
    BY <1>1 DEF ps
  <2> HIDE DEF f, W
  <2>7. /\ bt' \in [Batches -> BatchType]
        /\ \A c \in Batches : /\ bt'[c].procs = IF c = b THEN ps ELSE f[c].procs
                              /\ bt'[c].window = f[c].window /\ bt'[c].dirty = f[c].dirty
    BY ONLY <2>2, <2>4, <2>5, <2>6, SetProcs
  <2>8. WashedBut(t, W, {b}) /\ bt'[b].procs = ps
    BY <2>2, <2>3, <2>5, <2>7 DEF WashedBut
  <2>9. OldAdds(t) \in Seq(Batches) /\ OldAdds(t) \o <<>> = OldAdds(t) /\ (OldAdds(t) = <<>> <=> ~used[t])
    BY <1>1 DEF OldAdds
  <2>10. adds' = [adds EXCEPT ![t] = OldAdds(t)]
    BY <1>5, <1>12, <2>9
  <2>11. adds'[t] = OldAdds(t)
    BY <1>9, <2>10
  <2>12. pc' = [pc EXCEPT ![t] = IF used[t] THEN "add" ELSE "pick"]
    BY <1>5, <2>9, <2>11
  <2>13. /\ b \in Batches /\ WashedBut(t, W, {b})
         /\ bt'[b].procs = curb[t].procs
         /\ pending' = [pending EXCEPT ![t] = b]
         /\ free' = [free EXCEPT ![t] = (free[t] \cup W \cup Old(t)) \ {b}]
         /\ adds' = [adds EXCEPT ![t] = OldAdds(t)]
         /\ pc' = [pc EXCEPT ![t] = IF used[t] THEN "add" ELSE "pick"]
    BY <1>5, <1>12, <2>1, <2>2, <2>3, <2>8, <2>10, <2>12 DEF ps
  <2>14. PushedOne(t)
    BY ONLY <2>1, <2>13 DEF PushedOne
  <2> QED
    BY <1>3, <1>4, <2>14
<1> QED
  BY <1>11, <1>12

LEMMA LoadEffect ==
  ASSUME TypeOK, NEW t \in Threads, NEW b \in Batches, curb' = [curb EXCEPT ![t] = Loaded(b)]
  PROVE  Emptied(t, bt[b].procs, HasAffinity(b))
<1>1. curb \in [Threads -> CurbType]
  BY Types
<1>2. Loaded(b) \in CurbType /\ Loaded(b).procs = bt[b].procs /\ Loaded(b).affine = HasAffinity(b)
  BY LoadedType
<1> QED
  BY <1>1, <1>2 DEF Emptied

LEMMA KeepEffect ==
  ASSUME RInv, NEW t \in Threads, KeepCurb(t)
  PROVE  /\ pc[t] = "run"
         /\ UNCHANGED <<bt, list, pending, used, rqstate, free, laundry, slot, mw, mwstate,
                        pmail, asleep, waits, pc, adds, st, hand, victim>>
         /\ Emptied(t, curb[t].procs, curb[t].affine)
<1>1. curb \in [Threads -> CurbType] /\ curb[t] \in CurbType /\ curb[t].procs \in Seq(Procs)
  BY Types DEF RInv
<1> DEFINE n == Dispatches(curb[t].procs)
           c == [curb[t] EXCEPT !.left = n, !.emptied = FALSE]
<1>2. n \in Nat
  BY <1>1, DispatchesIsNat
<1>3. curb' = [curb EXCEPT ![t] = c]
  BY <1>1 DEF KeepCurb
<1> HIDE DEF n
<1>4. c \in CurbType /\ c.procs = curb[t].procs /\ c.affine = curb[t].affine
  BY <1>1, <1>2 DEF CurbType
<1> HIDE DEF c
<1>5. Emptied(t, curb[t].procs, curb[t].affine)
  BY <1>1, <1>3, <1>4 DEF Emptied
<1> QED
  BY <1>5 DEF KeepCurb, At, queue, window, env, local

(* The first batch to be added.                                             *)
LEMMA AddingIs ==
  ASSUME RInv, NEW t \in Threads, pc[t] \in {"add", "slot", "publish", "advertise"}
  PROVE  /\ adds[t] # <<>> /\ Adding(t) \in Batches /\ Adding(t) \in ToSet(adds[t])
         /\ Adding(t)[1] = t
         /\ Tail(adds[t]) \in Seq(Batches) /\ IsInjective(Tail(adds[t]))
         /\ ToSet(Tail(adds[t])) = ToSet(adds[t]) \ {Adding(t)}
         /\ (Tail(adds[t]) = <<>> <=> ~(Len(adds[t]) > 1))
<1>1. adds[t] # <<>> /\ adds[t] \in Seq(Batches) /\ IsInjective(adds[t])
      /\ \A b \in ToSet(adds[t]) : b[1] = t
  BY Types DEF RInv, Stages, Enlisting, Memory
<1>2. Tail(adds[t]) = <<>> <=> ~(Len(adds[t]) > 1)
  <2> DEFINE s == adds[t]
             r == Tail(s)
  <2>1. s \in Seq(Batches) /\ s # <<>>
    BY <1>1
  <2> HIDE DEF s
  <2>2. r \in Seq(Batches) /\ Len(r) = Len(s) - 1 /\ Len(s) \in Nat /\ Len(s) # 0
    BY <2>1
  <2> HIDE DEF r
  <2>3. r = <<>> <=> Len(r) = 0
    BY <2>2, SMTT(40)
  <2>4. r = <<>> <=> ~(Len(s) > 1)
    BY <2>2, <2>3
  <2> QED
    BY <2>4 DEF r, s
<1> QED
  BY <1>1, <1>2, HeadAndTail DEF Adding

(* Batch b gets another window number and dirty bit.                        *)
Marked(b, w, d) ==
    /\ bt' \in [Batches -> BatchType]
    /\ \A c \in Batches : /\ bt'[c].procs = bt[c].procs
                          /\ bt'[c].window = IF c = b THEN w ELSE bt[c].window
                          /\ bt'[c].dirty = IF c = b THEN d ELSE bt[c].dirty

LEMMA MarkEffect ==
  ASSUME TypeOK, NEW b \in Batches, NEW w \in 0..MWINDOW_SIZE, NEW d \in BOOLEAN,
         bt' = [bt EXCEPT ![b].window = w, ![b].dirty = d]
  PROVE  Marked(b, w, d)
<1>1. bt \in [Batches -> BatchType] /\ bt' = WithWindow(bt, b, w, d)
  BY Types DEF WithWindow
<1>2. /\ bt' \in [Batches -> BatchType]
      /\ \A c \in Batches : /\ bt'[c].procs = bt[c].procs
                            /\ bt'[c].window = IF c = b THEN w ELSE bt[c].window
                            /\ bt'[c].dirty = IF c = b THEN d ELSE bt[c].dirty
  BY ONLY <1>1, b \in Batches, w \in 0..MWINDOW_SIZE, d \in BOOLEAN, SetWindow
<1> QED
  BY <1>2 DEF Marked

LEMMA AddAffineEffect ==
  ASSUME RInv, NEW t \in Threads, AddAffine(t)
  PROVE  /\ pc[t] = "add" /\ HasAffinity(Adding(t)) /\ Marked(Adding(t), 0, FALSE)
         /\ list' = [list EXCEPT ![t] = Append(list[t], Adding(t))]
         /\ Added(t)
         /\ UNCHANGED <<pending, used, rqstate, free, laundry, slot, mw, mwstate, curb,
                        pmail, asleep, waits, st, hand, victim>>
<1>1. pc[t] = "add" /\ TypeOK
  BY DEF AddAffine, At, RInv
<1>2. Adding(t) \in Batches /\ 0 \in 0..MWINDOW_SIZE
  BY <1>1, AddingIs, SizesAssumption
<1> DEFINE a == Adding(t)
<1>3. bt' = [bt EXCEPT ![a].window = 0, ![a].dirty = FALSE]
  BY DEF AddAffine
<1> HIDE DEF a
<1>4. Marked(a, 0, FALSE)
  BY <1>1, <1>2, <1>3, MarkEffect DEF a
<1> QED
  BY <1>1, <1>4 DEF AddAffine, window, env, a

LEMMA AddVisibleEffect ==
  ASSUME RInv, NEW t \in Threads, AddVisible(t)
  PROVE  /\ pc[t] = "add" /\ ~HasAffinity(Adding(t))
         /\ Marked(Adding(t), NextWindow(mw[t].head), TRUE)
         /\ st' = [st EXCEPT ![t] = mw[t]]
         /\ pc' = [pc EXCEPT ![t] = "slot"]
         /\ UNCHANGED <<list, pending, used, rqstate, free, laundry, slot, mw, mwstate, curb,
                        pmail, asleep, waits, adds, hand, victim>>
<1>1. pc[t] = "add" /\ TypeOK
  BY DEF AddVisible, At, RInv
<1>2. Adding(t) \in Batches /\ NextWindow(mw[t].head) \in 0..MWINDOW_SIZE
  BY <1>1, AddingIs, Types, NextSlot
<1> DEFINE a == Adding(t)
           w == NextWindow(mw[t].head)
<1>3. bt' = [bt EXCEPT ![a].window = w, ![a].dirty = TRUE]
  BY DEF AddVisible
<1> HIDE DEF a, w
<1>4. Marked(a, w, TRUE)
  BY <1>1, <1>2, <1>3, MarkEffect DEF a, w
<1> QED
  BY <1>1, <1>4 DEF AddVisible, queue, window, env, a, w, Goto

LEMMA FillEffect ==
  ASSUME RInv, NEW t \in Threads, FillSlot(t)
  PROVE  LET w == NextWindow(st[t].head) IN
         /\ pc[t] = "slot" /\ w \in Windows
         /\ Marked(slot[t][w], 0, FALSE)
         /\ slot' = [slot EXCEPT ![t][w] = Adding(t)]
         /\ pc' = [pc EXCEPT ![t] = "publish"]
         /\ UNCHANGED <<list, pending, used, rqstate, free, laundry, mw, mwstate, curb,
                        pmail, asleep, waits, adds, st, hand, victim>>
<1> DEFINE w == NextWindow(st[t].head)
           o == slot[t][w]
<1>1. TypeOK /\ pc[t] = "slot" /\ bt \in [Batches -> BatchType] /\ 0 \in 0..MWINDOW_SIZE
  <2>1. TypeOK /\ pc[t] = "slot"
    BY DEF FillSlot, At, RInv
  <2> QED
    BY <2>1, Types, SizesAssumption
<1>2. w \in Windows
  BY <1>1, Types, NextSlot
<1>3. bt' = [b \in Batches |-> IF b = o THEN [bt[b] EXCEPT !.window = 0, !.dirty = FALSE]
                               ELSE bt[b]]
  BY DEF FillSlot
<1>4. /\ slot' = [slot EXCEPT ![t][w] = Adding(t)]
      /\ pc' = [pc EXCEPT ![t] = "publish"]
      /\ UNCHANGED <<list, pending, used, rqstate, free, laundry, mw, mwstate, curb,
                     pmail, asleep, waits, adds, st, hand, victim>>
  BY DEF FillSlot, queue, env, local, Goto
<1> HIDE DEF w, o
<1>5. Marked(o, 0, FALSE)
  BY <1>1, <1>3 DEF Marked, BatchType
<1> QED
  BY <1>1, <1>2, <1>4, <1>5 DEF w, o

(* Batch b loses its processes.                                             *)
Drained(b) ==
    /\ bt' \in [Batches -> BatchType]
    /\ bt'[b].procs = <<>>
    /\ \A c \in Batches : /\ c # b => bt'[c].procs = bt[c].procs
                          /\ bt'[c].window = bt[c].window /\ bt'[c].dirty = bt[c].dirty

LEMMA PullEffect ==
  ASSUME RInv, NEW t \in Threads, Pull(t)
  PROVE  LET b == Head(list[t]) IN
         /\ Picking(t) /\ b \in Batches /\ b[1] = t /\ b \in ToSet(list[t])
         /\ list' = [list EXCEPT ![t] = Tail(list[t])] /\ list[t] # <<>>
         /\ Tail(list[t]) \in Seq(Batches) /\ IsInjective(Tail(list[t]))
         /\ ToSet(Tail(list[t])) = ToSet(list[t]) \ {b}
         /\ UNCHANGED <<pending, used, rqstate, mw, mwstate, pmail, asleep, waits, adds, st, victim>>
         /\ \/ /\ bt[b].window = 0 /\ Emptied(t, bt[b].procs, HasAffinity(b)) /\ Drained(b)
               /\ free' = [free EXCEPT ![t] = free[t] \cup {b}]
               /\ pc' = [pc EXCEPT ![t] = "run"]
               /\ UNCHANGED <<laundry, slot, hand>>
            \/ /\ bt[b].window # 0 /\ bt[b].window \in Windows /\ slot[t][bt[b].window] = b
               /\ slot' = [slot EXCEPT ![t][bt[b].window] = NULL]
               /\ hand' = [hand EXCEPT ![t] = b]
               /\ pc' = [pc EXCEPT ![t] = "unmark"]
               /\ UNCHANGED <<bt, free, laundry, curb>>
            \/ /\ bt[b].window # 0 /\ ~InSlot(b)
               /\ laundry' = [laundry EXCEPT ![t] = laundry[t] \cup {b}]
               /\ pc' = [pc EXCEPT ![t] = "pick"]
               /\ UNCHANGED <<bt, free, slot, hand, curb>>
<1> DEFINE b == Head(list[t])
<1>1. /\ TypeOK /\ bt \in [Batches -> BatchType] /\ list[t] \in Seq(Batches) /\ list[t] # <<>>
      /\ IsInjective(list[t]) /\ \A c \in ToSet(list[t]) : c[1] = t
  BY Types DEF RInv, Memory, Pull
<1>2. /\ b \in Batches /\ b \in ToSet(list[t])
      /\ Tail(list[t]) \in Seq(Batches) /\ IsInjective(Tail(list[t]))
      /\ ToSet(Tail(list[t])) = ToSet(list[t]) \ {b}
  BY <1>1, HeadAndTail
<1>3. b[1] = t
  BY <1>1, <1>2
<1>4. bt[b].window \in 0..MWINDOW_SIZE
  BY <1>1, <1>2, Types
<1>5. /\ Picking(t) /\ list' = [list EXCEPT ![t] = Tail(list[t])]
      /\ \/ /\ bt[b].window = 0
            /\ LoadOwn(t, b)
            /\ bt' = [bt EXCEPT ![b].procs = <<>>]
            /\ free' = [free EXCEPT ![t] = free[t] \cup {b}]
            /\ UNCHANGED <<laundry, slot, hand>>
         \/ /\ bt[b].window # 0 /\ slot[t][bt[b].window] = b
            /\ slot' = [slot EXCEPT ![t][bt[b].window] = NULL]
            /\ hand' = [hand EXCEPT ![t] = b]
            /\ Goto(t, "unmark")
            /\ UNCHANGED <<bt, free, laundry, curb>>
         \/ /\ bt[b].window # 0 /\ slot[t][bt[b].window] # b
            /\ laundry' = [laundry EXCEPT ![t] = laundry[t] \cup {b}]
            /\ Goto(t, "pick")
            /\ UNCHANGED <<bt, free, slot, hand, curb>>
      /\ UNCHANGED <<pending, used, rqstate, mw, mwstate, pmail, asleep, waits, adds, st, victim>>
  BY DEF Pull, env
<1> HIDE DEF b
<1>6. CASE /\ bt[b].window = 0
           /\ LoadOwn(t, b)
           /\ bt' = [bt EXCEPT ![b].procs = <<>>]
           /\ free' = [free EXCEPT ![t] = free[t] \cup {b}]
           /\ UNCHANGED <<laundry, slot, hand>>
  <2>1. Emptied(t, bt[b].procs, HasAffinity(b))
    BY <1>1, <1>2, <1>6, LoadEffect DEF LoadOwn
  <2> DEFINE v == <<>>
  <2>2. bt' = WithProcs(bt, b, v) /\ v \in Seq(Procs)
    BY <1>6 DEF WithProcs
  <2> HIDE DEF v
  <2>3. /\ bt' \in [Batches -> BatchType]
        /\ \A c \in Batches : /\ bt'[c].procs = IF c = b THEN v ELSE bt[c].procs
                              /\ bt'[c].window = bt[c].window /\ bt'[c].dirty = bt[c].dirty
    BY ONLY <1>1, <1>2, <2>2, SetProcs
  <2>4. Drained(b)
    BY <1>2, <2>3 DEF Drained, v
  <2> QED
    BY <1>1, <1>2, <1>3, <1>5, <1>6, <2>1, <2>4 DEF b, LoadOwn, Goto
<1>7. bt[b].window # 0 => bt[b].window \in Windows
  BY <1>4 DEF Windows
<1>8. InSlot(b) <=> bt[b].window # 0 /\ slot[t][bt[b].window] = b
  BY <1>3 DEF InSlot
<1> QED
  BY <1>1, <1>2, <1>3, <1>5, <1>6, <1>7, <1>8 DEF b, Goto

LEMMA UnmarkEffect ==
  ASSUME RInv, NEW t \in Threads, UnmarkWrite(t)
  PROVE  /\ pc[t] = "unmarkW" /\ hand[t] \in Batches /\ hand[t][1] = t
         /\ Emptied(t, bt[hand[t]].procs, HasAffinity(hand[t]))
         /\ bt' \in [Batches -> BatchType]
         /\ \A c \in Batches : /\ bt'[c].procs = IF c = hand[t] THEN <<>> ELSE bt[c].procs
                               /\ bt'[c].window = IF c = hand[t] THEN 0 ELSE bt[c].window
                               /\ bt'[c].dirty = IF c = hand[t] THEN FALSE ELSE bt[c].dirty
         /\ free' = [free EXCEPT ![t] = free[t] \cup {hand[t]}]
         /\ hand' = [hand EXCEPT ![t] = NULL] /\ st' = [st EXCEPT ![t] = Word(0, {})]
         /\ pc' = [pc EXCEPT ![t] = "run"]
         /\ mw' \in [Threads -> WordType]
         /\ UNCHANGED <<list, pending, used, rqstate, laundry, slot, mwstate,
                        pmail, asleep, waits, adds, victim>>
<1> DEFINE b == hand[t]
<1>1. /\ TypeOK /\ pc[t] = "unmarkW" /\ bt \in [Batches -> BatchType] /\ mw \in [Threads -> WordType]
      /\ st[t].head \in 0..MWINDOW_SIZE /\ st[t].bm \subseteq Windows
  BY Types DEF UnmarkWrite, At, RInv
<1>2. b \in Batches /\ b[1] = t
  BY <1>1, Types DEF RInv, Stages, Memory, Owning
<1>3. /\ mw' = [mw EXCEPT ![t] = Word(st[t].head, st[t].bm \ {bt[b].window})]
      /\ curb' = [curb EXCEPT ![t] = Loaded(b)]
      /\ bt' = [bt EXCEPT ![b] = [procs |-> <<>>, window |-> 0, dirty |-> FALSE]]
  BY DEF UnmarkWrite, LoadOwn
<1>4. /\ pc' = [pc EXCEPT ![t] = "run"] /\ free' = [free EXCEPT ![t] = free[t] \cup {b}]
      /\ hand' = [hand EXCEPT ![t] = NULL] /\ st' = [st EXCEPT ![t] = Word(0, {})]
      /\ UNCHANGED <<list, pending, used, rqstate, laundry, slot, mwstate,
                     pmail, asleep, waits, adds, victim>>
  BY DEF UnmarkWrite, LoadOwn, Goto, Forget, env
<1> HIDE DEF b
<1>5. Emptied(t, bt[b].procs, HasAffinity(b))
  BY <1>1, <1>2, <1>3, LoadEffect
<1>6. bt' = Blanked(bt, b)
  BY <1>3 DEF Blanked
<1>7. /\ bt' \in [Batches -> BatchType]
      /\ \A c \in Batches : /\ bt'[c].procs = IF c = b THEN <<>> ELSE bt[c].procs
                            /\ bt'[c].window = IF c = b THEN 0 ELSE bt[c].window
                            /\ bt'[c].dirty = IF c = b THEN FALSE ELSE bt[c].dirty
  BY ONLY <1>1, <1>2, <1>6, SetBlank
<1> DEFINE x == Word(st[t].head, st[t].bm \ {bt[b].window})
<1>8. x \in WordType
  BY <1>1 DEF WordType, Word
<1> HIDE DEF x
<1>9. mw' \in [Threads -> WordType]
  BY <1>1, <1>3, <1>8 DEF x
<1> QED
  BY <1>1, <1>2, <1>4, <1>5, <1>7, <1>9 DEF b

PulledPending(t) ==
    \E W \in SUBSET Washed(t) : \E b \in free[t] \cup W :
        /\ b \in Batches /\ WashedBut(t, W, {pending[t]})
        /\ bt'[pending[t]].procs = <<>>
        /\ pending' = [pending EXCEPT ![t] = b]
        /\ free' = [free EXCEPT ![t] = ((free[t] \cup W) \ {b}) \cup {pending[t]}]

LEMMA PullPendingEffect ==
  ASSUME RInv, NEW t \in Threads, PullPending(t)
  PROVE  /\ Picking(t) /\ used[t] /\ list[t] = <<>>
         /\ used' = [used EXCEPT ![t] = FALSE] /\ pc' = [pc EXCEPT ![t] = "run"]
         /\ Emptied(t, bt[pending[t]].procs, HasAffinity(pending[t]))
         /\ UNCHANGED <<list, rqstate, slot, mw, mwstate, pmail, asleep, waits,
                        adds, st, hand, victim>>
         /\ PulledPending(t)
<1> DEFINE d  == pending[t]
           fr == Refill(t, free[t])
           b  == Spare(fr)
           w  == NoBatch(free[t])
<1>1. /\ TypeOK /\ bt \in [Batches -> BatchType] /\ d \in Batches /\ free[t] \subseteq Batches
  BY Types DEF RInv
<1>2. /\ Picking(t) /\ used[t] /\ list[t] = <<>> /\ fr # {}
      /\ pending' = [pending EXCEPT ![t] = b]
      /\ bt' = [Swept(t, w) EXCEPT ![d].procs = <<>>]
      /\ SetMemory(t, (fr \ {b}) \cup {d}, w)
      /\ used' = [used EXCEPT ![t] = FALSE] /\ pc' = [pc EXCEPT ![t] = "run"]
      /\ curb' = [curb EXCEPT ![t] = Loaded(d)]
      /\ UNCHANGED <<list, rqstate, slot, mw, mwstate, pmail, asleep, waits,
                     adds, st, hand, victim>>
  BY DEF PullPending, LoadOwn, Goto, window, env, local
<1>3. Emptied(t, bt[d].procs, HasAffinity(d))
  BY <1>1, <1>2, LoadEffect
<1>4. fr \subseteq Batches /\ b \in fr /\ w \in BOOLEAN
  BY <1>1, <1>2, Supplies
<1>5. PICK W \in SUBSET Washed(t) : fr = free[t] \cup W /\ W = IF w THEN Washed(t) ELSE {}
  BY <1>1, <1>2, Allocation
<1>6. /\ free' = [free EXCEPT ![t] = (fr \ {b}) \cup {d}]
      /\ laundry' = [laundry EXCEPT ![t] = laundry[t] \ (IF w THEN Washed(t) ELSE {})]
  BY <1>2, <1>4, LaundryOf
<1> DEFINE f == Swept(t, w)
           v == <<>>
<1>7. /\ f \in [Batches -> BatchType]
      /\ \A c \in Batches :
            /\ f[c].window = bt[c].window /\ f[c].dirty = bt[c].dirty
            /\ f[c].procs = IF c \in W THEN <<>> ELSE bt[c].procs
  BY <1>1, <1>4, <1>5, SweptOf
<1>8. bt' = WithProcs(f, d, v) /\ v \in Seq(Procs)
  BY <1>2 DEF WithProcs
<1> HIDE DEF d, fr, b, w, f, v
<1>9. /\ bt' \in [Batches -> BatchType]
      /\ \A c \in Batches : /\ bt'[c].procs = IF c = d THEN v ELSE f[c].procs
                            /\ bt'[c].window = f[c].window /\ bt'[c].dirty = f[c].dirty
  BY ONLY <1>1, <1>7, <1>8, SetProcs
<1>10. laundry' = [laundry EXCEPT ![t] = laundry[t] \ W]
  BY <1>5, <1>6
<1>11. WashedBut(t, W, {d}) /\ bt'[d].procs = <<>>
  BY <1>1, <1>7, <1>9, <1>10 DEF WashedBut, v
<1>12. /\ b \in Batches /\ WashedBut(t, W, {pending[t]})
       /\ bt'[pending[t]].procs = <<>>
       /\ pending' = [pending EXCEPT ![t] = b]
       /\ free' = [free EXCEPT ![t] = ((free[t] \cup W) \ {b}) \cup {pending[t]}]
  BY <1>2, <1>4, <1>5, <1>6, <1>11 DEF d
<1>13. W \in SUBSET Washed(t) /\ b \in free[t] \cup W
  BY <1>4, <1>5
<1>14. PulledPending(t)
  BY ONLY <1>12, <1>13 DEF PulledPending
<1> QED
  BY <1>2, <1>3, <1>14 DEF d

LEMMA IdleEffect ==
  ASSUME RInv, NEW t \in Threads, Idle(t)
  PROVE  /\ pc[t] = "migrate" /\ pc' = [pc EXCEPT ![t] = "run"]
         /\ Emptied(t, <<>>, curb[t].affine)
         /\ WashedBut(t, Washed(t), {}) /\ free' = [free EXCEPT ![t] = free[t] \cup Washed(t)]
         /\ UNCHANGED <<list, pending, used, rqstate, slot, mw, mwstate, pmail, asleep, waits,
                        adds, st, hand, victim>>
<1>1. TypeOK /\ curb \in [Threads -> CurbType] /\ curb[t] \in CurbType
  BY Types DEF RInv
<1> DEFINE c == [curb[t] EXCEPT !.procs = <<>>, !.left = BATCH_PPD, !.emptied = TRUE]
<1>2. curb' = [curb EXCEPT ![t] = c]
  BY <1>1 DEF Idle
<1>3. c \in CurbType /\ c.procs = <<>> /\ c.affine = curb[t].affine
  <2>1. BATCH_PPD \in Nat /\ <<>> \in Seq(Procs)
    BY SizesAssumption
  <2> QED
    BY <1>1, <2>1 DEF CurbType
<1> HIDE DEF c
<1>4. Emptied(t, <<>>, curb[t].affine)
  BY <1>1, <1>2, <1>3 DEF Emptied
<1>5. /\ bt' = Swept(t, TRUE) /\ SetMemory(t, free[t] \cup Washed(t), TRUE)
      /\ pc[t] = "migrate" /\ pc' = [pc EXCEPT ![t] = "run"]
      /\ UNCHANGED <<list, pending, used, rqstate, slot, mw, mwstate, pmail, asleep, waits,
                     adds, st, hand, victim>>
  BY DEF Idle, At, Goto, window, env, local
<1>6. /\ bt' \in [Batches -> BatchType]
      /\ \A b \in Batches :
            /\ bt'[b].window = bt[b].window /\ bt'[b].dirty = bt[b].dirty
            /\ bt'[b].procs = IF b \in Washed(t) THEN <<>> ELSE bt[b].procs
  BY <1>1, <1>5, SweptOf
<1>7. /\ free' = [free EXCEPT ![t] = free[t] \cup Washed(t)]
      /\ laundry' = [laundry EXCEPT ![t] = laundry[t] \ Washed(t)]
  BY <1>5 DEF SetMemory
<1>8. WashedBut(t, Washed(t), {})
  BY <1>6, <1>7 DEF WashedBut
<1> QED
  BY <1>4, <1>5, <1>7, <1>8

LEMMA CopyEffect ==
  ASSUME RInv, NEW t \in Threads, Copy(t)
  PROVE  /\ pc[t] = "copy" /\ hand[t] \in Batches /\ pc' = [pc EXCEPT ![t] = "clean"]
         /\ Emptied(t, bt[hand[t]].procs, HasAffinity(hand[t]))
         /\ UNCHANGED <<bt, list, pending, used, rqstate, free, laundry, slot, mw, mwstate,
                        pmail, asleep, waits, adds, st, hand, victim>>
<1>1. TypeOK /\ pc[t] = "copy"
  BY DEF RInv, Copy, At
<1>2. hand[t] \in Batches
  BY <1>1, Types DEF RInv, Stages
<1>3. Emptied(t, bt[hand[t]].procs, HasAffinity(hand[t]))
  BY <1>1, <1>2, LoadEffect DEF Copy
<1> QED
  BY <1>1, <1>2, <1>3 DEF Copy, Goto, queue, window, env, local

LEMMA CleanEffect ==
  ASSUME RInv, NEW t \in Threads, MarkClean(t)
  PROVE  /\ pc[t] = "clean" /\ hand[t] \in Batches /\ pc' = [pc EXCEPT ![t] = "run"]
         /\ hand' = [hand EXCEPT ![t] = NULL]
         /\ bt' \in [Batches -> BatchType]
         /\ \A c \in Batches : /\ bt'[c].procs = IF c = hand[t] THEN <<>> ELSE bt[c].procs
                               /\ bt'[c].window = bt[c].window
                               /\ bt'[c].dirty = IF c = hand[t] THEN FALSE ELSE bt[c].dirty
         /\ UNCHANGED <<list, pending, used, rqstate, free, laundry, slot, mw, mwstate, curb,
                        pmail, asleep, waits, adds, st, victim>>
<1> DEFINE b == hand[t]
<1>1. TypeOK /\ pc[t] = "clean" /\ bt \in [Batches -> BatchType]
  BY Types DEF RInv, MarkClean, At
<1>2. b \in Batches
  BY <1>1, Types DEF RInv, Stages
<1>3. bt' = Cleaned(bt, b)
  BY DEF MarkClean, Cleaned
<1>4. /\ pc' = [pc EXCEPT ![t] = "run"] /\ hand' = [hand EXCEPT ![t] = NULL]
      /\ UNCHANGED <<list, pending, used, rqstate, free, laundry, slot, mw, mwstate, curb,
                     pmail, asleep, waits, adds, st, victim>>
  BY DEF MarkClean, Goto, queue, window, env
<1> HIDE DEF b
<1>5. /\ bt' \in [Batches -> BatchType]
      /\ \A c \in Batches : /\ bt'[c].procs = IF c = b THEN <<>> ELSE bt[c].procs
                            /\ bt'[c].window = bt[c].window
                            /\ bt'[c].dirty = IF c = b THEN FALSE ELSE bt[c].dirty
  BY ONLY <1>1, <1>2, <1>3, SetClean
<1> QED
  BY <1>1, <1>2, <1>4, <1>5 DEF b

LEMMA Spaces ==
  ASSUME TypeOK
  PROVE  /\ bt \in [Batches -> BatchType] /\ curb \in [Threads -> CurbType]
         /\ mw \in [Threads -> WordType] /\ st \in [Threads -> WordType]
         /\ list \in [Threads -> Seq(Batches)] /\ adds \in [Threads -> Seq(Batches)]
         /\ pending \in [Threads -> Batches] /\ used \in [Threads -> BOOLEAN]
         /\ rqstate \in [Threads -> BOOLEAN] /\ mwstate \in [Threads -> BOOLEAN]
         /\ free \in [Threads -> SUBSET Batches] /\ laundry \in [Threads -> SUBSET Batches]
         /\ slot \in [Threads -> [Windows -> Batches \cup {NULL}]]
         /\ pmail \in [Threads -> SUBSET Procs] /\ asleep \in SUBSET Procs /\ waits \in Nat
         /\ pc \in [Threads -> Labels] /\ hand \in [Threads -> Batches \cup {NULL}]
         /\ victim \in [Threads -> Threads \cup {NULL}]
  BY Types DEF TypeOK

LEMMA AllLabels ==
  {"run", "add", "slot", "publish", "advertise", "pick", "unmark", "unmarkW", "migrate",
   "mwRead", "mwClear", "mwSwap", "mwCheck", "mwOff", "copy", "clean"} \subseteq Labels
  BY DEF Labels

LEMMA BlankWord == Word(0, {}) \in WordType
  BY SizesAssumption DEF Word, WordType

LEMMA WashedOnes ==
  ASSUME TypeOK, NEW t \in Threads
  PROVE  Washed(t) \subseteq laundry[t] /\ Washed(t) \subseteq Batches /\ free[t] \subseteq Batches
  BY Types DEF Washed

LEMMA TypeEnqueued ==
  ASSUME TypeOK, NEW t \in Threads, NEW p \in Procs, Enqueued(t, p)
  PROVE  /\ bt' \in [Batches -> BatchType] /\ list' \in [Threads -> Seq(Batches)]
         /\ adds' \in [Threads -> Seq(Batches)]
         /\ pending' \in [Threads -> Batches] /\ used' \in [Threads -> BOOLEAN]
         /\ rqstate' \in [Threads -> BOOLEAN] /\ pc' \in [Threads -> Labels]
         /\ free' \in [Threads -> SUBSET Batches] /\ laundry' \in [Threads -> SUBSET Batches]
<1>1. CASE pending' = pending /\ free' = free /\ laundry' = laundry /\ adds' = adds /\ pc' = pc
  BY <1>1, Spaces DEF Enqueued
<1>2. ASSUME NEW W \in SUBSET Washed(t), NEW b \in free[t] \cup W, b \in Batches,
             pending' = [pending EXCEPT ![t] = b],
             free' = [free EXCEPT ![t] = (free[t] \cup W) \ {b}],
             laundry' = [laundry EXCEPT ![t] = laundry[t] \ W],
             adds' = [adds EXCEPT ![t] = <<pending[t]>>],
             pc' = [pc EXCEPT ![t] = "add"]
      PROVE  /\ adds' \in [Threads -> Seq(Batches)]
             /\ pending' \in [Threads -> Batches] /\ pc' \in [Threads -> Labels]
             /\ free' \in [Threads -> SUBSET Batches] /\ laundry' \in [Threads -> SUBSET Batches]
  <2>1. /\ W \subseteq Batches /\ free[t] \subseteq Batches /\ laundry[t] \subseteq Batches
        /\ <<pending[t]>> \in Seq(Batches)
    BY WashedOnes, Types
  <2> QED
    BY <1>2, <2>1, Spaces, AllLabels
<1>3. /\ bt' \in [Batches -> BatchType] /\ list' \in [Threads -> Seq(Batches)]
      /\ used' \in [Threads -> BOOLEAN] /\ rqstate' \in [Threads -> BOOLEAN]
  BY Spaces DEF Enqueued
<1> QED
  BY <1>1, <1>2, <1>3 DEF Enqueued

(* The type invariant, one action at a time.                                *)
LEMMA TypeOKStep == RInv /\ [Next]_vars => TypeOK'
<1> SUFFICES ASSUME RInv, [Next]_vars PROVE TypeOK'
  OBVIOUS
<1>0. CASE UNCHANGED vars
  BY <1>0 DEF RInv, vars, queue, window, env, local, TypeOK
<1>1. ASSUME NEW t \in Threads, Run(t) PROVE TypeOK'
  <2>1. TypeOK
    BY DEF RInv
  <2>2. curb' \in [Threads -> CurbType] /\ waits' \in Nat
    BY <2>1, <1>1, RunEffect, Spaces DEF CurbBecomes
  <2>3. UNCHANGED <<slot, mw, mwstate, st, hand, victim>>
    BY <1>1, RunEffect
  <2>4. asleep' \in SUBSET Procs /\ pmail' \in [Threads -> SUBSET Procs]
    <3>1. asleep \in SUBSET Procs /\ InCurb(t) \subseteq Procs
      BY <2>1, Types, SetOf DEF InCurb
    <3>2. \/ asleep' = asleep \/ \E p \in InCurb(t) : asleep' = asleep \cup {p}
          \/ \E r \in asleep : asleep' = asleep \ {r}
      BY <1>1, RunEffect
    <3>3. \/ pmail' = pmail \/ \E r \in asleep : pmail' = [pmail EXCEPT ![Home[r]] = pmail[Home[r]] \cup {r}]
      BY <1>1, RunEffect
    <3>4. pmail \in [Threads -> SUBSET Procs]
      BY <2>1, Spaces
    <3>5. pmail' \in [Threads -> SUBSET Procs]
      BY <3>1, <3>3, <3>4
    <3> QED
      BY <3>1, <3>2, <3>5
  <2>5. \/ UNCHANGED <<bt, list, pending, used, rqstate, free, laundry, pc, adds>>
        \/ \E r \in asleep : Enqueued(t, r)
    BY <1>1, RunEffect
  <2>6. /\ bt' \in [Batches -> BatchType] /\ list' \in [Threads -> Seq(Batches)]
        /\ adds' \in [Threads -> Seq(Batches)]
        /\ pending' \in [Threads -> Batches] /\ used' \in [Threads -> BOOLEAN]
        /\ rqstate' \in [Threads -> BOOLEAN] /\ pc' \in [Threads -> Labels]
        /\ free' \in [Threads -> SUBSET Batches] /\ laundry' \in [Threads -> SUBSET Batches]
    BY <2>1, <2>5, Spaces, TypeEnqueued
  <2> QED
    BY <2>1, <2>2, <2>3, <2>4, <2>6, Spaces, TypeOKFrom
<1>2. ASSUME NEW t \in Threads, TakeMail(t) PROVE TypeOK'
  <2>1. TypeOK
    BY DEF RInv
  <2>2. UNCHANGED <<slot, mw, mwstate, st, hand, victim, asleep, waits>>
    BY <1>2, MailEffect
  <2>3. PICK p \in pmail[t] :
               /\ pmail' = [pmail EXCEPT ![t] = pmail[t] \ {p}]
               /\ \/ /\ CurbBecomes(t, InCurb(t) \cup {p})
                     /\ UNCHANGED <<bt, list, pending, used, rqstate, free, laundry, pc, adds>>
                  \/ Enqueued(t, p) /\ UNCHANGED curb
    BY <1>2, MailEffect
  <2>4. pmail' \in [Threads -> SUBSET Procs] /\ p \in Procs
    BY <2>1, <2>3, Spaces
  <2>5. curb' \in [Threads -> CurbType]
    BY <2>1, <2>3, Spaces DEF CurbBecomes
  <2>6. /\ bt' \in [Batches -> BatchType] /\ list' \in [Threads -> Seq(Batches)]
        /\ adds' \in [Threads -> Seq(Batches)]
        /\ pending' \in [Threads -> Batches] /\ used' \in [Threads -> BOOLEAN]
        /\ rqstate' \in [Threads -> BOOLEAN] /\ pc' \in [Threads -> Labels]
        /\ free' \in [Threads -> SUBSET Batches] /\ laundry' \in [Threads -> SUBSET Batches]
    BY <2>1, <2>3, <2>4, Spaces, TypeEnqueued
  <2> QED
    BY <2>1, <2>2, <2>4, <2>5, <2>6, Spaces, TypeOKFrom
<1>3. ASSUME NEW t \in Threads, KeepCurb(t) PROVE TypeOK'
  BY <1>3, KeepEffect, Spaces, TypeOKFrom DEF RInv, Emptied
<1>4. ASSUME NEW t \in Threads, PushCurb(t) PROVE TypeOK'
  <2>1. TypeOK
    BY DEF RInv
  <2>2. /\ UNCHANGED <<list, slot, mw, mwstate, pmail, asleep, waits, st, hand, victim>>
        /\ used' = [used EXCEPT ![t] = TRUE] /\ rqstate' = [rqstate EXCEPT ![t] = TRUE]
        /\ curb' \in [Threads -> CurbType]
        /\ PushedOne(t) \/ PushedTwo(t)
    BY <1>4, PushEffect DEF Emptied
  <2>3. /\ Old(t) \subseteq Batches /\ OldAdds(t) \in Seq(Batches)
        /\ \A b \in Batches : OldAdds(t) \o <<b>> \in Seq(Batches)
        /\ free[t] \subseteq Batches /\ laundry[t] \subseteq Batches /\ Washed(t) \subseteq Batches
    <3>1. pending[t] \in Batches
      BY <2>1, Types
    <3>2. OldAdds(t) \in Seq(Batches)
      BY <3>1 DEF OldAdds
    <3>3. \A b \in Batches : OldAdds(t) \o <<b>> \in Seq(Batches)
      BY <3>2
    <3> QED
      BY <2>1, <3>1, <3>2, <3>3, WashedOnes, Types DEF Old
  <2>4. /\ bt' \in [Batches -> BatchType] /\ adds' \in [Threads -> Seq(Batches)]
        /\ pending' \in [Threads -> Batches] /\ pc' \in [Threads -> Labels]
        /\ free' \in [Threads -> SUBSET Batches] /\ laundry' \in [Threads -> SUBSET Batches]
    <3>1. CASE PushedOne(t)
      <4>1. PICK W \in SUBSET Washed(t), b \in Batches :
               /\ bt' \in [Batches -> BatchType] /\ laundry' = [laundry EXCEPT ![t] = laundry[t] \ W]
               /\ pending' = [pending EXCEPT ![t] = b]
               /\ free' = [free EXCEPT ![t] = (free[t] \cup W \cup Old(t)) \ {b}]
               /\ adds' = [adds EXCEPT ![t] = OldAdds(t)]
               /\ pc' = [pc EXCEPT ![t] = IF used[t] THEN "add" ELSE "pick"]
        BY <3>1 DEF PushedOne, WashedBut
      <4>2. W \subseteq Batches
        BY <2>3
      <4> QED
        BY <2>1, <2>3, <4>1, <4>2, Spaces, AllLabels
    <3>2. CASE PushedTwo(t)
      <4>1. PICK W \in SUBSET Washed(t), b \in Batches, d \in Batches :
               /\ bt' \in [Batches -> BatchType] /\ laundry' = [laundry EXCEPT ![t] = laundry[t] \ W]
               /\ pending' = [pending EXCEPT ![t] = d]
               /\ free' = [free EXCEPT ![t] = (free[t] \cup W \cup Old(t)) \ {b, d}]
               /\ adds' = [adds EXCEPT ![t] = OldAdds(t) \o <<b>>]
               /\ pc' = [pc EXCEPT ![t] = "add"]
        BY <3>2 DEF PushedTwo, WashedBut
      <4>2. W \subseteq Batches
        BY <2>3
      <4>3. OldAdds(t) \o <<b>> \in Seq(Batches)
        BY <2>3
      <4> QED
        BY <2>1, <2>3, <4>1, <4>2, <4>3, Spaces, AllLabels
    <3> QED
      BY <2>2, <3>1, <3>2
  <2> QED
    BY <2>1, <2>2, <2>4, Spaces, TypeOKFrom
<1>5. ASSUME NEW t \in Threads, AddAffine(t) PROVE TypeOK'
  <2>1. TypeOK /\ Append(list[t], Adding(t)) \in Seq(Batches) /\ Tail(adds[t]) \in Seq(Batches)
    <3>1. TypeOK /\ pc[t] = "add"
      BY <1>5, AddAffineEffect DEF RInv
    <3>2. Adding(t) \in Batches /\ Tail(adds[t]) \in Seq(Batches) /\ list[t] \in Seq(Batches)
      BY <3>1, AddingIs, Types
    <3> QED
      BY <3>1, <3>2, Appended
  <2>2. /\ bt' \in [Batches -> BatchType]
        /\ list' = [list EXCEPT ![t] = Append(list[t], Adding(t))]
        /\ adds' = [adds EXCEPT ![t] = Tail(adds[t])]
        /\ pc' = [pc EXCEPT ![t] = IF Len(adds[t]) > 1 THEN "add"
                                   ELSE IF curb[t].procs = <<>> THEN "pick" ELSE "run"]
        /\ UNCHANGED <<pending, used, rqstate, free, laundry, slot, mw, mwstate, curb,
                       pmail, asleep, waits, st, hand, victim>>
    BY <1>5, AddAffineEffect DEF Marked, Added, Goto
  <2>3. pc' \in [Threads -> Labels]
    BY <2>1, <2>2, Spaces, AllLabels
  <2> QED
    BY <2>1, <2>2, <2>3, Spaces, TypeOKFrom
<1>6. ASSUME NEW t \in Threads, AddVisible(t) PROVE TypeOK'
  <2>1. /\ TypeOK /\ bt' \in [Batches -> BatchType]
        /\ st' = [st EXCEPT ![t] = mw[t]]
        /\ pc' = [pc EXCEPT ![t] = "slot"]
        /\ UNCHANGED <<list, pending, used, rqstate, free, laundry, slot, mw, mwstate, curb,
                       pmail, asleep, waits, adds, hand, victim>>
    BY <1>6, AddVisibleEffect DEF RInv, Marked
  <2> QED
    BY <2>1, Spaces, TypeOKFrom, AllLabels
<1>7. ASSUME NEW t \in Threads, FillSlot(t) PROVE TypeOK'
  <2>1. TypeOK /\ Adding(t) \in Batches
    BY <1>7, FillEffect, AddingIs DEF RInv
  <2> DEFINE w == NextWindow(st[t].head)
  <2>2. slot' = [slot EXCEPT ![t][w] = Adding(t)] /\ w \in Windows
    BY <1>7, FillEffect
  <2> HIDE DEF w
  <2>3. slot' \in [Threads -> [Windows -> Batches \cup {NULL}]]
    BY <2>1, <2>2, Spaces
  <2>4. /\ bt' \in [Batches -> BatchType]
        /\ pc' = [pc EXCEPT ![t] = "publish"]
        /\ UNCHANGED <<list, pending, used, rqstate, free, laundry, mw, mwstate, curb,
                       pmail, asleep, waits, adds, st, hand, victim>>
    BY <1>7, FillEffect DEF Marked
  <2> QED
    BY <2>1, <2>3, <2>4, Spaces, TypeOKFrom, AllLabels
<1>8. ASSUME NEW t \in Threads, Publish(t) PROVE TypeOK'
  <2>1. TypeOK /\ Append(list[t], Adding(t)) \in Seq(Batches)
    <3>1. TypeOK /\ pc[t] = "publish"
      BY <1>8 DEF RInv, Publish, At
    <3>2. Adding(t) \in Batches /\ list[t] \in Seq(Batches)
      BY <3>1, AddingIs, Types
    <3> QED
      BY <3>1, <3>2, Appended
  <2> DEFINE w == NextWindow(st[t].head)
  <2>2. w \in Windows /\ w \in 0..MWINDOW_SIZE /\ st[t].bm \subseteq Windows
    BY <2>1, Types, NextSlot
  <2>3. mw' = [mw EXCEPT ![t] = Word(w, st[t].bm \cup {w})]
    BY <1>8 DEF Publish
  <2> HIDE DEF w
  <2>4. Word(w, st[t].bm \cup {w}) \in WordType
    BY <2>2 DEF Word, WordType
  <2>5. mw' \in [Threads -> WordType]
    BY <2>1, <2>3, <2>4, Spaces
  <2>6. /\ UNCHANGED <<bt, pending, used, rqstate, free, laundry, slot, mwstate, curb, env, local>>
        /\ list' = [list EXCEPT ![t] = Append(list[t], Adding(t))]
        /\ pc' = [pc EXCEPT ![t] = "advertise"]
    BY <1>8 DEF Publish, Goto
  <2> QED
    BY <2>1, <2>5, <2>6, Spaces, TypeOKFrom, AllLabels DEF env, local
<1>9. ASSUME NEW t \in Threads, Advertise(t) PROVE TypeOK'
  <2>1. TypeOK /\ Tail(adds[t]) \in Seq(Batches)
    BY <1>9, AddingIs DEF RInv, Advertise, At
  <2> QED
    BY <1>9, <2>1, Spaces, TypeOKFrom, AllLabels, BlankWord DEF Advertise, Added, Goto, Forget, queue, env
<1>10. ASSUME NEW t \in Threads, Pull(t) PROVE TypeOK'
  <2> DEFINE b == Head(list[t])
             w == bt[b].window
  <2>1. TypeOK
    BY DEF RInv
  <2>2. /\ b \in Batches /\ list' = [list EXCEPT ![t] = Tail(list[t])]
        /\ Tail(list[t]) \in Seq(Batches)
        /\ UNCHANGED <<pending, used, rqstate, mw, mwstate, pmail, asleep, waits, adds, st, victim>>
        /\ \/ /\ curb' \in [Threads -> CurbType] /\ bt' \in [Batches -> BatchType]
              /\ free' = [free EXCEPT ![t] = free[t] \cup {b}]
              /\ pc' = [pc EXCEPT ![t] = "run"]
              /\ UNCHANGED <<laundry, slot, hand>>
           \/ /\ w \in Windows
              /\ slot' = [slot EXCEPT ![t][w] = NULL]
              /\ hand' = [hand EXCEPT ![t] = b]
              /\ pc' = [pc EXCEPT ![t] = "unmark"]
              /\ UNCHANGED <<bt, free, laundry, curb>>
           \/ /\ laundry' = [laundry EXCEPT ![t] = laundry[t] \cup {b}]
              /\ pc' = [pc EXCEPT ![t] = "pick"]
              /\ UNCHANGED <<bt, free, slot, hand, curb>>
    BY <1>10, PullEffect DEF Emptied, Drained
  <2> HIDE DEF b, w
  <2>3. bt' \in [Batches -> BatchType] /\ curb' \in [Threads -> CurbType]
    BY <2>1, <2>2, Spaces
  <2>4. slot' \in [Threads -> [Windows -> Batches \cup {NULL}]]
    <3>1. CASE w \in Windows /\ slot' = [slot EXCEPT ![t][w] = NULL]
      BY <2>1, <3>1, Spaces
    <3>2. CASE UNCHANGED slot
      BY <2>1, <3>2, Spaces
    <3> QED
      BY <2>2, <3>1, <3>2
  <2>5. /\ free' \in [Threads -> SUBSET Batches] /\ laundry' \in [Threads -> SUBSET Batches]
        /\ hand' \in [Threads -> Batches \cup {NULL}] /\ pc' \in [Threads -> Labels]
        /\ list' \in [Threads -> Seq(Batches)]
    <3> USE <2>1
    <3>1. CASE free' = [free EXCEPT ![t] = free[t] \cup {b}] /\ UNCHANGED <<laundry, hand>> /\ pc' = [pc EXCEPT ![t] = "run"]
      BY <2>2, <3>1, Spaces, AllLabels
    <3>2. CASE hand' = [hand EXCEPT ![t] = b] /\ UNCHANGED <<free, laundry>> /\ pc' = [pc EXCEPT ![t] = "unmark"]
      BY <2>2, <3>2, Spaces, AllLabels
    <3>3. CASE laundry' = [laundry EXCEPT ![t] = laundry[t] \cup {b}] /\ UNCHANGED <<free, hand>> /\ pc' = [pc EXCEPT ![t] = "pick"]
      BY <2>2, <3>3, Spaces, AllLabels
    <3> QED
      BY <2>2, <3>1, <3>2, <3>3
  <2> QED
    BY <2>1, <2>2, <2>3, <2>4, <2>5, Spaces, TypeOKFrom
<1>11. ASSUME NEW t \in Threads, UnmarkRead(t) PROVE TypeOK'
  BY <1>11, Spaces, TypeOKFrom, AllLabels DEF RInv, UnmarkRead, Goto, queue, window, env
<1>12. ASSUME NEW t \in Threads, UnmarkWrite(t) PROVE TypeOK'
  <2>1. /\ TypeOK /\ curb' \in [Threads -> CurbType] /\ bt' \in [Batches -> BatchType]
        /\ hand[t] \in Batches
        /\ free' = [free EXCEPT ![t] = free[t] \cup {hand[t]}]
        /\ hand' = [hand EXCEPT ![t] = NULL] /\ st' = [st EXCEPT ![t] = Word(0, {})]
        /\ pc' = [pc EXCEPT ![t] = "run"] /\ mw' \in [Threads -> WordType]
        /\ UNCHANGED <<list, pending, used, rqstate, laundry, slot, mwstate,
                       pmail, asleep, waits, adds, victim>>
    BY <1>12, UnmarkEffect DEF RInv, Emptied
  <2> QED
    BY <2>1, Spaces, TypeOKFrom, AllLabels, BlankWord
<1>13. ASSUME NEW t \in Threads, PullPending(t) PROVE TypeOK'
  <2>1. /\ TypeOK /\ curb' \in [Threads -> CurbType]
        /\ used' = [used EXCEPT ![t] = FALSE] /\ pc' = [pc EXCEPT ![t] = "run"]
        /\ UNCHANGED <<list, rqstate, slot, mw, mwstate, pmail, asleep, waits,
                       adds, st, hand, victim>>
    BY <1>13, PullPendingEffect DEF RInv, Emptied
  <2>2. PulledPending(t)
    BY <1>13, PullPendingEffect
  <2>3. PICK W \in SUBSET Washed(t), b \in Batches :
               /\ WashedBut(t, W, {pending[t]})
               /\ pending' = [pending EXCEPT ![t] = b]
               /\ free' = [free EXCEPT ![t] = ((free[t] \cup W) \ {b}) \cup {pending[t]}]
    BY <2>2 DEF PulledPending
  <2>4. W \subseteq Batches /\ free[t] \subseteq Batches /\ laundry[t] \subseteq Batches /\ pending[t] \in Batches
    BY <2>1, WashedOnes, Types
  <2>5. bt' \in [Batches -> BatchType] /\ laundry' = [laundry EXCEPT ![t] = laundry[t] \ W]
    BY <2>3 DEF WashedBut
  <2>6. /\ free' \in [Threads -> SUBSET Batches] /\ laundry' \in [Threads -> SUBSET Batches]
        /\ pending' \in [Threads -> Batches]
    BY <2>1, <2>3, <2>4, <2>5, Spaces
  <2> QED
    BY <2>1, <2>5, <2>6, Spaces, TypeOKFrom, AllLabels
<1>14. ASSUME NEW t \in Threads, PickFails(t) PROVE TypeOK'
  BY <1>14, Spaces, TypeOKFrom, AllLabels DEF RInv, PickFails, Goto, env, local
<1>15. ASSUME NEW t \in Threads, ChooseVictim(t) PROVE TypeOK'
  BY <1>15, Spaces, TypeOKFrom, AllLabels DEF RInv, ChooseVictim, Goto, queue, window, env
<1>16. ASSUME NEW t \in Threads, Idle(t) PROVE TypeOK'
  <2>1. /\ TypeOK /\ curb' \in [Threads -> CurbType] /\ pc' = [pc EXCEPT ![t] = "run"]
        /\ UNCHANGED <<list, pending, used, rqstate, slot, mw, mwstate, pmail, asleep, waits,
                       adds, st, hand, victim>>
    BY <1>16, IdleEffect DEF RInv, Emptied
  <2>2. /\ bt' \in [Batches -> BatchType] /\ laundry' = [laundry EXCEPT ![t] = laundry[t] \ Washed(t)]
        /\ free' = [free EXCEPT ![t] = free[t] \cup Washed(t)]
    BY <1>16, IdleEffect DEF WashedBut
  <2>3. /\ free' \in [Threads -> SUBSET Batches] /\ laundry' \in [Threads -> SUBSET Batches]
    BY <2>1, <2>2, WashedOnes, Spaces
  <2> QED
    BY <2>1, <2>2, <2>3, Spaces, TypeOKFrom, AllLabels
<1>17. ASSUME NEW t \in Threads, ReadWindow(t) PROVE TypeOK'
  <2>1. TypeOK /\ victim[t] \in Threads
    BY <1>17 DEF RInv, Stages, Looking, ReadWindow, At
  <2>2. mw[victim[t]] \in WordType
    BY <2>1, Types
  <2>3. st' \in [Threads -> WordType]
    BY <1>17, <2>1, <2>2, Spaces DEF ReadWindow
  <2>4. pc' \in [Threads -> Labels]
    BY <1>17, <2>1, Spaces, AllLabels DEF ReadWindow, Goto
  <2> QED
    BY <1>17, <2>1, <2>3, <2>4, Spaces, TypeOKFrom DEF ReadWindow, queue, window, env
<1>18. ASSUME NEW t \in Threads, ClearBit(t) PROVE TypeOK'
  <2>1. TypeOK /\ victim[t] \in Threads
    BY <1>18 DEF RInv, Stages, Looking, ClearBit, At
  <2> DEFINE v == victim[t]
             x == BestWindow(st[t])
             y == [mw[v] EXCEPT !.bm = mw[v].bm \ {x}]
  <2>2. mw[v] \in WordType
    BY <2>1, Types
  <2>3. mw' = [mw EXCEPT ![v] = y]
    BY <1>18, <2>1, Spaces DEF ClearBit
  <2> HIDE DEF x
  <2>4. y \in WordType
    BY <2>2 DEF WordType
  <2> HIDE DEF y, v
  <2>5. mw' \in [Threads -> WordType]
    BY <2>1, <2>3, <2>4, Spaces
  <2> QED
    BY <1>18, <2>1, <2>5, Spaces, TypeOKFrom, AllLabels DEF ClearBit, Goto, queue, env, local
<1>19. ASSUME NEW t \in Threads, TakeSlot(t) PROVE TypeOK'
  <2>1. TypeOK /\ victim[t] \in Threads /\ BestWindow(st[t]) \in Windows
    <3>1. TypeOK /\ victim[t] \in Threads /\ st[t].bm # {}
      BY <1>19 DEF RInv, Stages, Looking, TakeSlot, At
    <3>2. st[t] \in [head: 0..MWINDOW_SIZE, bm: SUBSET Windows]
      BY <3>1, Types DEF WordType
    <3> QED
      BY <3>1, <3>2, BestSlot
  <2> DEFINE v == victim[t]
             w == BestWindow(st[t])
             y == [st[t] EXCEPT !.bm = st[t].bm \ {w}]
  <2>2. /\ st[t] \in WordType
        /\ hand' = [hand EXCEPT ![t] = slot[v][w]] /\ slot' = [slot EXCEPT ![v][w] = NULL]
        /\ st' = [st EXCEPT ![t] = y]
    BY <1>19, <2>1, Types, Spaces DEF TakeSlot
  <2>3. slot[v][w] \in Batches \cup {NULL} /\ v \in Threads /\ w \in Windows
    BY <2>1, Types
  <2> HIDE DEF w, v
  <2>4. y \in WordType
    BY <2>2 DEF WordType
  <2> HIDE DEF y
  <2>5. st' \in [Threads -> WordType] /\ hand' \in [Threads -> Batches \cup {NULL}]
    BY <2>1, <2>2, <2>3, <2>4, Spaces
  <2>6. slot' \in [Threads -> [Windows -> Batches \cup {NULL}]]
    BY <2>1, <2>2, <2>3, Spaces
  <2>7. pc' \in [Threads -> Labels]
    BY <1>19, <2>1, Spaces, AllLabels DEF TakeSlot, Goto
  <2> QED
    BY <1>19, <2>1, <2>5, <2>6, <2>7, Spaces, TypeOKFrom DEF TakeSlot, queue, env
<1>20. ASSUME NEW t \in Threads, CheckWindow(t) PROVE TypeOK'
  <2>1. TypeOK /\ UNCHANGED <<bt, queue, window, curb, env, adds, hand>>
    BY <1>20 DEF CheckWindow, RInv
  <2>2. \/ UNCHANGED <<st, victim>> /\ pc' = [pc EXCEPT ![t] = "mwOff"]
        \/ /\ st' = [st EXCEPT ![t] = Word(0, {})] /\ victim' = [victim EXCEPT ![t] = NULL]
           /\ pc' = [pc EXCEPT ![t] = IF hand[t] = NULL THEN "migrate" ELSE "copy"]
    BY <1>20 DEF CheckWindow, LeaveWindow, Forget, Goto
  <2>3. /\ st' \in [Threads -> WordType] /\ victim' \in [Threads -> Threads \cup {NULL}]
        /\ pc' \in [Threads -> Labels]
    <3>1. CASE UNCHANGED <<st, victim>> /\ pc' = [pc EXCEPT ![t] = "mwOff"]
      BY <2>1, <3>1, Spaces, AllLabels
    <3>2. CASE /\ st' = [st EXCEPT ![t] = Word(0, {})] /\ victim' = [victim EXCEPT ![t] = NULL]
               /\ pc' = [pc EXCEPT ![t] = IF hand[t] = NULL THEN "migrate" ELSE "copy"]
      BY <2>1, <3>2, Spaces, AllLabels, BlankWord
    <3> QED
      BY <2>2, <3>1, <3>2
  <2> QED
    BY <2>1, <2>3, Spaces, TypeOKFrom DEF queue, window, env
<1>21. ASSUME NEW t \in Threads, Unadvertise(t) PROVE TypeOK'
  <2>1. /\ st' \in [Threads -> WordType] /\ victim' \in [Threads -> Threads \cup {NULL}]
        /\ pc' \in [Threads -> Labels]
    BY <1>21, Spaces, AllLabels, BlankWord DEF Unadvertise, LeaveWindow, Forget, Goto, RInv
  <2> QED
    BY <1>21, <2>1, Spaces, TypeOKFrom DEF RInv, Unadvertise, queue, env
<1>22. ASSUME NEW t \in Threads, Copy(t) PROVE TypeOK'
  <2>1. /\ TypeOK /\ curb' \in [Threads -> CurbType] /\ pc' = [pc EXCEPT ![t] = "clean"]
        /\ UNCHANGED <<bt, list, pending, used, rqstate, free, laundry, slot, mw, mwstate,
                       pmail, asleep, waits, adds, st, hand, victim>>
    BY <1>22, CopyEffect DEF RInv, Emptied
  <2> QED
    BY <2>1, Spaces, TypeOKFrom, AllLabels
<1>23. ASSUME NEW t \in Threads, MarkClean(t) PROVE TypeOK'
  <2>1. /\ TypeOK /\ bt' \in [Batches -> BatchType] /\ pc' = [pc EXCEPT ![t] = "run"]
        /\ hand' = [hand EXCEPT ![t] = NULL]
        /\ UNCHANGED <<list, pending, used, rqstate, free, laundry, slot, mw, mwstate, curb,
                       pmail, asleep, waits, adds, st, victim>>
    BY <1>23, CleanEffect DEF RInv
  <2> QED
    BY <2>1, Spaces, TypeOKFrom, AllLabels
<1> QED
  BY <1>0, <1>1, <1>2, <1>3, <1>4, <1>5, <1>6, <1>7, <1>8, <1>9, <1>10, <1>11,
     <1>12, <1>13, <1>14, <1>15, <1>16, <1>17, <1>18, <1>19, <1>20, <1>21, <1>22, <1>23
     DEF Next, Scheduler

(* Where one thread is in the code.                                         *)
StageOf(t) ==
    /\ Enlisting(t) <=> adds[t] # <<>>
    /\ curb[t].procs = <<>> \/ pc[t] = "run" \/ pc[t] = "clean" \/ Enlisting(t)
    /\ hand[t] # NULL => Owning(t) \/ Stealing(t)
    /\ Owning(t) \/ pc[t] \in {"copy", "clean"} => hand[t] # NULL
    /\ Looking(t) => victim[t] \in Threads
    /\ pc[t] \in {"mwClear", "mwSwap"} => st[t].bm # {}

LEMMA StagesFrom ==
  ASSUME RInv, NEW t \in Threads, StageOf(t)',
         \A u \in Threads : u # t => /\ pc'[u] = pc[u] /\ adds'[u] = adds[u]
                                     /\ curb'[u] = curb[u] /\ hand'[u] = hand[u]
                                     /\ victim'[u] = victim[u] /\ st'[u] = st[u]
  PROVE  Stages'
<1>1. ASSUME NEW u \in Threads, u # t PROVE StageOf(u)'
  <2>1. StageOf(u)
    BY DEF RInv, Stages, StageOf
  <2> QED
    BY <1>1, <2>1 DEF StageOf, Enlisting, Owning, Stealing, Looking
<1> QED
  BY <1>1 DEF Stages, StageOf

LEMMA StageIs == ASSUME RInv, NEW t \in Threads PROVE StageOf(t)
  BY DEF RInv, Stages, StageOf

LEMMA NotAtAdd ==
  ASSUME RInv, NEW t \in Threads, ~Enlisting(t)
  PROVE  adds[t] = <<>>
  BY DEF RInv, Stages

LEMMA StageEnqueued ==
  ASSUME RInv, NEW t \in Threads, NEW p \in Procs, Enqueued(t, p), pc[t] = "run",
         UNCHANGED <<hand, victim, st>>,
         \A u \in Threads : u # t => curb'[u] = curb[u]
  PROVE  Stages'
<1>0. TypeOK /\ StageOf(t)
  BY StageIs DEF RInv
<1>1. CASE adds' = adds /\ pc' = pc
  <2>1. StageOf(t)'
    BY <1>0, <1>1 DEF StageOf, Enlisting, Owning, Stealing, Looking
  <2> QED
    BY <1>1, <2>1, StagesFrom
<1>2. CASE adds' = [adds EXCEPT ![t] = <<pending[t]>>] /\ pc' = [pc EXCEPT ![t] = "add"]
  <2>1. /\ adds'[t] = <<pending[t]>> /\ pc'[t] = "add"
        /\ \A u \in Threads : u # t => pc'[u] = pc[u] /\ adds'[u] = adds[u]
    BY <1>0, <1>2, Spaces
  <2>2. StageOf(t)'
    BY <1>0, <2>1 DEF StageOf, Enlisting, Owning, Stealing, Looking
  <2> QED
    BY <2>1, <2>2, StagesFrom
<1>3. \/ adds' = adds /\ pc' = pc
      \/ adds' = [adds EXCEPT ![t] = <<pending[t]>>] /\ pc' = [pc EXCEPT ![t] = "add"]
  BY DEF Enqueued
<1> QED
  BY <1>1, <1>2, <1>3

LEMMA StagePushed ==
  ASSUME RInv, NEW t \in Threads, PushCurb(t)
  PROVE  /\ pc'[t] \in {"add", "pick"} /\ (pc'[t] = "add" <=> adds'[t] # <<>>)
         /\ curb'[t].procs = <<>> /\ UNCHANGED <<hand, victim, st>>
         /\ \A u \in Threads : u # t => pc'[u] = pc[u] /\ adds'[u] = adds[u] /\ curb'[u] = curb[u]
<1>0. TypeOK /\ (PushedOne(t) \/ PushedTwo(t))
  BY PushEffect DEF RInv
<1>1. /\ curb'[t].procs = <<>> /\ UNCHANGED <<hand, victim, st>>
      /\ \A u \in Threads : u # t => curb'[u] = curb[u]
  BY PushEffect DEF Emptied
<1>2. CASE PushedOne(t)
  <2>1. /\ adds' = [adds EXCEPT ![t] = OldAdds(t)]
        /\ pc' = [pc EXCEPT ![t] = IF used[t] THEN "add" ELSE "pick"]
    BY <1>2 DEF PushedOne
  <2>2. OldAdds(t) # <<>> <=> used[t]
    BY DEF OldAdds
  <2> QED
    BY <1>0, <1>1, <2>1, <2>2, Spaces
<1>3. CASE PushedTwo(t)
  <2>1. PICK b \in Batches : /\ adds' = [adds EXCEPT ![t] = OldAdds(t) \o <<b>>]
                             /\ pc' = [pc EXCEPT ![t] = "add"]
    BY <1>3 DEF PushedTwo
  <2>2. OldAdds(t) \o <<b>> # <<>>
    <3>1. pending[t] \in Batches
      BY <1>0, Types
    <3> QED
      BY <3>1 DEF OldAdds
  <2> QED
    BY <1>0, <1>1, <2>1, <2>2, Spaces
<1> QED
  BY <1>0, <1>2, <1>3

LEMMA AddedStage ==
  ASSUME RInv, NEW t \in Threads, pc[t] \in {"add", "advertise"}, Added(t)
  PROVE  /\ pc'[t] \in {"add", "pick", "run"} /\ (pc'[t] = "add" <=> adds'[t] # <<>>)
         /\ curb[t].procs # <<>> /\ adds'[t] = <<>> => pc'[t] = "run"
         /\ adds'[t] = Tail(adds[t])
         /\ \A u \in Threads : u # t => pc'[u] = pc[u] /\ adds'[u] = adds[u]
<1>1. TypeOK /\ (Tail(adds[t]) = <<>> <=> ~(Len(adds[t]) > 1))
  BY AddingIs DEF RInv
<1>2. /\ adds' = [adds EXCEPT ![t] = Tail(adds[t])]
      /\ pc' = [pc EXCEPT ![t] = IF Len(adds[t]) > 1 THEN "add"
                                 ELSE IF curb[t].procs = <<>> THEN "pick" ELSE "run"]
  BY DEF Added, Goto
<1>3. /\ adds'[t] = Tail(adds[t])
      /\ pc'[t] = IF Len(adds[t]) > 1 THEN "add" ELSE IF curb[t].procs = <<>> THEN "pick" ELSE "run"
      /\ \A u \in Threads : u # t => pc'[u] = pc[u] /\ adds'[u] = adds[u]
  BY <1>1, <1>2, Spaces
<1> QED
  BY <1>1, <1>3

(* Where the threads are.                                                   *)
LEMMA StagesStep == RInv /\ [Next]_vars => Stages'
<1> SUFFICES ASSUME RInv, [Next]_vars PROVE Stages'
  OBVIOUS
<1>0. CASE UNCHANGED vars
  BY <1>0 DEF RInv, vars, queue, window, env, local, Stages, Enlisting, Owning, Stealing, Looking
<1>1. ASSUME NEW t \in Threads, Run(t) PROVE Stages'
  <2>1. /\ pc[t] = "run" /\ UNCHANGED <<st, hand, victim>> /\ TypeOK
        /\ \A u \in Threads : u # t => curb'[u] = curb[u]
        /\ UNCHANGED <<pc, adds>> \/ \E r \in asleep : Enqueued(t, r)
    BY <1>1, RunEffect DEF CurbBecomes, RInv
  <2>2. CASE UNCHANGED <<pc, adds>>
    <3>1. StageOf(t)'
      BY <2>1, <2>2, StageIs DEF StageOf, Enlisting, Owning, Stealing, Looking
    <3> QED
      BY <2>1, <2>2, <3>1, StagesFrom
  <2>3. asleep \subseteq Procs
    BY <2>1, Types
  <2> QED
    BY <2>1, <2>2, <2>3, StageEnqueued
<1>2. ASSUME NEW t \in Threads, TakeMail(t) PROVE Stages'
  <2>1. /\ pc[t] = "run" /\ UNCHANGED <<st, hand, victim>> /\ TypeOK
        /\ UNCHANGED <<pc, adds>> \/ \E p \in pmail[t] : Enqueued(t, p)
    BY <1>2, MailEffect DEF RInv
  <2>4. \A u \in Threads : u # t => curb'[u] = curb[u]
    BY <1>2, MailEffect DEF CurbBecomes
  <2>2. CASE UNCHANGED <<pc, adds>>
    <3>1. StageOf(t)'
      BY <2>1, <2>2, StageIs DEF StageOf, Enlisting, Owning, Stealing, Looking
    <3> QED
      BY <2>1, <2>2, <2>4, <3>1, StagesFrom
  <2>3. pmail[t] \subseteq Procs
    BY <2>1, Types
  <2> QED
    BY <2>1, <2>2, <2>3, <2>4, StageEnqueued
<1>3. ASSUME NEW t \in Threads, KeepCurb(t) PROVE Stages'
  <2>0. TypeOK /\ StageOf(t)
    BY StageIs DEF RInv
  <2>1. /\ pc[t] = "run" /\ UNCHANGED <<pc, adds, st, hand, victim>>
        /\ \A u \in Threads : u # t => curb'[u] = curb[u]
    BY <1>3, KeepEffect DEF Emptied
  <2>2. StageOf(t)'
    BY <2>0, <2>1, Spaces DEF StageOf, Enlisting, Owning, Stealing, Looking
  <2> QED
    BY <2>0, <2>1, <2>2, StagesFrom, Spaces
<1>4. ASSUME NEW t \in Threads, PushCurb(t) PROVE Stages'
  <2>0. TypeOK /\ StageOf(t)
    BY StageIs DEF RInv
  <2>1. /\ pc[t] = "run" /\ pc'[t] \in {"add", "pick"} /\ (pc'[t] = "add" <=> adds'[t] # <<>>)
        /\ curb'[t].procs = <<>> /\ UNCHANGED <<hand, victim, st>>
        /\ \A u \in Threads : u # t => pc'[u] = pc[u] /\ adds'[u] = adds[u] /\ curb'[u] = curb[u]
    BY <1>4, StagePushed, PushEffect
  <2>2. StageOf(t)'
    BY <2>0, <2>1, Spaces DEF StageOf, Enlisting, Owning, Stealing, Looking
  <2> QED
    BY <2>0, <2>1, <2>2, StagesFrom, Spaces
<1>5. ASSUME NEW t \in Threads, AddAffine(t) PROVE Stages'
  <2>0. TypeOK /\ StageOf(t)
    BY StageIs DEF RInv
  <2>1. /\ pc[t] = "add" /\ UNCHANGED <<curb, hand, victim>> /\ (st' = st \/ st' = [st EXCEPT ![t] = Word(0, {})])
        /\ pc'[t] \in {"add", "pick", "run"} /\ (pc'[t] = "add" <=> adds'[t] # <<>>)
        /\ curb[t].procs # <<>> /\ adds'[t] = <<>> => pc'[t] = "run"
        /\ \A u \in Threads : u # t => pc'[u] = pc[u] /\ adds'[u] = adds[u]
    BY <1>5, AddAffineEffect, AddedStage
  <2>2. StageOf(t)'
    BY <2>0, <2>1, Spaces DEF StageOf, Enlisting, Owning, Stealing, Looking
  <2> QED
    BY <2>0, <2>1, <2>2, StagesFrom, Spaces
<1>6. ASSUME NEW t \in Threads, AddVisible(t) PROVE Stages'
  <2>0. TypeOK /\ StageOf(t)
    BY StageIs DEF RInv
  <2>1. /\ pc[t] = "add" /\ st' = [st EXCEPT ![t] = mw[t]] /\ pc' = [pc EXCEPT ![t] = "slot"]
        /\ UNCHANGED <<curb, adds, hand, victim>>
    BY <1>6, AddVisibleEffect
  <2>2. StageOf(t)'
    BY <2>0, <2>1, Spaces DEF StageOf, Enlisting, Owning, Stealing, Looking
  <2> QED
    BY <2>0, <2>1, <2>2, StagesFrom, Spaces
<1>7. ASSUME NEW t \in Threads, FillSlot(t) PROVE Stages'
  <2>0. TypeOK /\ StageOf(t)
    BY StageIs DEF RInv
  <2>1. /\ pc[t] = "slot" /\ pc' = [pc EXCEPT ![t] = "publish"]
        /\ UNCHANGED <<curb, adds, st, hand, victim>>
    BY <1>7, FillEffect
  <2>2. StageOf(t)'
    BY <2>0, <2>1, Spaces DEF StageOf, Enlisting, Owning, Stealing, Looking
  <2> QED
    BY <2>0, <2>1, <2>2, StagesFrom, Spaces
<1>8. ASSUME NEW t \in Threads, Publish(t) PROVE Stages'
  <2>0. TypeOK /\ StageOf(t)
    BY StageIs DEF RInv
  <2>1. /\ pc[t] = "publish" /\ pc' = [pc EXCEPT ![t] = "advertise"]
        /\ UNCHANGED <<curb, adds, st, hand, victim>>
    BY <1>8 DEF Publish, At, Goto, local
  <2>2. StageOf(t)'
    BY <2>0, <2>1, Spaces DEF StageOf, Enlisting, Owning, Stealing, Looking
  <2> QED
    BY <2>0, <2>1, <2>2, StagesFrom, Spaces
<1>9. ASSUME NEW t \in Threads, Advertise(t) PROVE Stages'
  <2>0. TypeOK /\ StageOf(t)
    BY StageIs DEF RInv
  <2>1. /\ pc[t] = "advertise" /\ UNCHANGED <<curb, hand, victim>> /\ (st' = st \/ st' = [st EXCEPT ![t] = Word(0, {})])
        /\ pc'[t] \in {"add", "pick", "run"} /\ (pc'[t] = "add" <=> adds'[t] # <<>>)
        /\ curb[t].procs # <<>> /\ adds'[t] = <<>> => pc'[t] = "run"
        /\ \A u \in Threads : u # t => pc'[u] = pc[u] /\ adds'[u] = adds[u]
    BY <1>9, AddedStage DEF Advertise, At, Forget
  <2>2. StageOf(t)'
    BY <2>0, <2>1, Spaces DEF StageOf, Enlisting, Owning, Stealing, Looking
  <2> QED
    BY <2>0, <2>1, <2>2, StagesFrom, Spaces
<1>10. ASSUME NEW t \in Threads, Pull(t) PROVE Stages'
  <2>0. TypeOK /\ StageOf(t) /\ adds[t] = <<>> /\ pc[t] \in {"run", "pick"} /\ curb[t].procs = <<>>
    BY <1>10, PullEffect, StageIs DEF RInv, Picking, At, StageOf, Enlisting
  <2>1. UNCHANGED <<adds, st, victim>> /\ Head(list[t]) \in Batches
    BY <1>10, PullEffect
  <2>2. CASE pc' = [pc EXCEPT ![t] = "run"] /\ UNCHANGED hand /\ \A u \in Threads : u # t => curb'[u] = curb[u]
    <3>1. StageOf(t)'
      BY <2>0, <2>1, <2>2, Spaces DEF StageOf, Enlisting, Owning, Stealing, Looking
    <3> QED
      BY <2>0, <2>1, <2>2, <3>1, StagesFrom, Spaces
  <2>3. CASE pc' = [pc EXCEPT ![t] = "unmark"] /\ UNCHANGED curb /\ hand' = [hand EXCEPT ![t] = Head(list[t])]
    <3>1. StageOf(t)'
      BY <2>0, <2>1, <2>3, Spaces, NullAssumption DEF StageOf, Enlisting, Owning, Stealing, Looking
    <3> QED
      BY <2>0, <2>1, <2>3, <3>1, StagesFrom, Spaces
  <2>4. CASE pc' = [pc EXCEPT ![t] = "pick"] /\ UNCHANGED <<curb, hand>>
    <3>1. StageOf(t)'
      BY <2>0, <2>1, <2>4, Spaces DEF StageOf, Enlisting, Owning, Stealing, Looking
    <3> QED
      BY <2>0, <2>1, <2>4, <3>1, StagesFrom, Spaces
  <2>5. \/ pc' = [pc EXCEPT ![t] = "run"] /\ UNCHANGED hand /\ \A u \in Threads : u # t => curb'[u] = curb[u]
        \/ pc' = [pc EXCEPT ![t] = "unmark"] /\ UNCHANGED curb /\ hand' = [hand EXCEPT ![t] = Head(list[t])]
        \/ pc' = [pc EXCEPT ![t] = "pick"] /\ UNCHANGED <<curb, hand>>
    BY <1>10, PullEffect DEF Emptied
  <2> QED
    BY <2>2, <2>3, <2>4, <2>5
<1>11. ASSUME NEW t \in Threads, UnmarkRead(t) PROVE Stages'
  <2>0. TypeOK /\ StageOf(t)
    BY StageIs DEF RInv
  <2>1. /\ pc[t] = "unmark" /\ pc' = [pc EXCEPT ![t] = "unmarkW"] /\ st' = [st EXCEPT ![t] = mw[t]]
        /\ UNCHANGED <<curb, adds, hand, victim>>
    BY <1>11 DEF UnmarkRead, At, Goto
  <2>2. StageOf(t)'
    BY <2>0, <2>1, Spaces DEF StageOf, Enlisting, Owning, Stealing, Looking
  <2> QED
    BY <2>0, <2>1, <2>2, StagesFrom, Spaces
<1>12. ASSUME NEW t \in Threads, UnmarkWrite(t) PROVE Stages'
  <2>0. TypeOK /\ StageOf(t)
    BY StageIs DEF RInv
  <2>1. /\ pc[t] = "unmarkW" /\ pc' = [pc EXCEPT ![t] = "run"] /\ UNCHANGED <<adds, victim>>
        /\ hand' = [hand EXCEPT ![t] = NULL] /\ st' = [st EXCEPT ![t] = Word(0, {})]
        /\ \A u \in Threads : u # t => curb'[u] = curb[u]
    BY <1>12, UnmarkEffect DEF Emptied
  <2>2. StageOf(t)'
    BY <2>0, <2>1, Spaces DEF StageOf, Enlisting, Owning, Stealing, Looking
  <2> QED
    BY <2>0, <2>1, <2>2, StagesFrom, Spaces
<1>13. ASSUME NEW t \in Threads, PullPending(t) PROVE Stages'
  <2>0. TypeOK /\ StageOf(t)
    BY StageIs DEF RInv
  <2>1. /\ pc[t] \in {"run", "pick"} /\ pc' = [pc EXCEPT ![t] = "run"] /\ UNCHANGED <<adds, st, hand, victim>>
        /\ \A u \in Threads : u # t => curb'[u] = curb[u]
    BY <1>13, PullPendingEffect DEF Emptied, Picking, At
  <2>2. StageOf(t)'
    BY <2>0, <2>1, Spaces DEF StageOf, Enlisting, Owning, Stealing, Looking
  <2> QED
    BY <2>0, <2>1, <2>2, StagesFrom, Spaces
<1>14. ASSUME NEW t \in Threads, PickFails(t) PROVE Stages'
  <2>0. TypeOK /\ StageOf(t)
    BY StageIs DEF RInv
  <2>1. /\ pc[t] \in {"run", "pick"} /\ pc' = [pc EXCEPT ![t] = "migrate"] /\ UNCHANGED <<curb, adds, st, hand, victim>>
        /\ (pc[t] = "run" => curb[t].procs = <<>>)
    BY <1>14 DEF PickFails, Picking, At, Goto, local
  <2>2. StageOf(t)'
    BY <2>0, <2>1, Spaces DEF StageOf, Enlisting, Owning, Stealing, Looking
  <2> QED
    BY <2>0, <2>1, <2>2, StagesFrom, Spaces
<1>15. ASSUME NEW t \in Threads, ChooseVictim(t) PROVE Stages'
  <2>0. TypeOK /\ StageOf(t)
    BY StageIs DEF RInv
  <2>1. PICK v \in Threads : victim' = [victim EXCEPT ![t] = v]
    BY <1>15 DEF ChooseVictim
  <2>2. /\ pc[t] = "migrate" /\ pc' = [pc EXCEPT ![t] = "mwRead"] /\ UNCHANGED <<curb, adds, st, hand>>
    BY <1>15 DEF ChooseVictim, At, Goto
  <2>3. StageOf(t)'
    BY <2>0, <2>1, <2>2, Spaces DEF StageOf, Enlisting, Owning, Stealing, Looking
  <2> QED
    BY <2>0, <2>1, <2>2, <2>3, StagesFrom, Spaces
<1>16. ASSUME NEW t \in Threads, Idle(t) PROVE Stages'
  <2>0. TypeOK /\ StageOf(t)
    BY StageIs DEF RInv
  <2>1. /\ pc[t] = "migrate" /\ pc' = [pc EXCEPT ![t] = "run"] /\ UNCHANGED <<adds, st, hand, victim>>
        /\ \A u \in Threads : u # t => curb'[u] = curb[u]
    BY <1>16, IdleEffect DEF Emptied
  <2>2. StageOf(t)'
    BY <2>0, <2>1, Spaces DEF StageOf, Enlisting, Owning, Stealing, Looking
  <2> QED
    BY <2>0, <2>1, <2>2, StagesFrom, Spaces
<1>17. ASSUME NEW t \in Threads, ReadWindow(t) PROVE Stages'
  <2>0. TypeOK /\ StageOf(t)
    BY StageIs DEF RInv
  <2> DEFINE v == victim[t]
  <2>1. /\ pc[t] = "mwRead" /\ st' = [st EXCEPT ![t] = mw[v]] /\ UNCHANGED <<curb, adds, hand, victim>>
        /\ pc' = [pc EXCEPT ![t] = IF mw[v].bm = {} THEN "mwCheck" ELSE "mwClear"]
    BY <1>17 DEF ReadWindow, At, Goto
  <2>2. st'[t] = mw[v] /\ pc'[t] = IF mw[v].bm = {} THEN "mwCheck" ELSE "mwClear"
    BY <2>0, <2>1, Spaces
  <2>3. StageOf(t)'
    BY <2>0, <2>1, <2>2, Spaces DEF StageOf, Enlisting, Owning, Stealing, Looking
  <2> QED
    BY <2>0, <2>1, <2>3, StagesFrom, Spaces
<1>18. ASSUME NEW t \in Threads, ClearBit(t) PROVE Stages'
  <2>0. TypeOK /\ StageOf(t)
    BY StageIs DEF RInv
  <2>1. /\ pc[t] = "mwClear" /\ pc' = [pc EXCEPT ![t] = "mwSwap"]
        /\ UNCHANGED <<curb, adds, st, hand, victim>>
    BY <1>18 DEF ClearBit, At, Goto, local
  <2>2. StageOf(t)'
    BY <2>0, <2>1, Spaces DEF StageOf, Enlisting, Owning, Stealing, Looking
  <2> QED
    BY <2>0, <2>1, <2>2, StagesFrom, Spaces
<1>19. ASSUME NEW t \in Threads, TakeSlot(t) PROVE Stages'
  <2>0. TypeOK /\ StageOf(t)
    BY StageIs DEF RInv
  <2> DEFINE w == BestWindow(st[t])
             s == slot[victim[t]][w]
             y == [st[t] EXCEPT !.bm = st[t].bm \ {w}]
  <2>1. /\ pc[t] = "mwSwap" /\ UNCHANGED <<curb, adds, victim>> /\ hand' = [hand EXCEPT ![t] = s]
        /\ st' = [st EXCEPT ![t] = y]
        /\ pc' = [pc EXCEPT ![t] = IF hand'[t] = NULL /\ st'[t].bm # {} THEN "mwClear" ELSE "mwCheck"]
    BY <1>19, <2>0, Spaces DEF TakeSlot, At, Goto
  <2> HIDE DEF s, y
  <2>2. /\ pc'[t] = IF hand'[t] = NULL /\ st'[t].bm # {} THEN "mwClear" ELSE "mwCheck"
        /\ \A u \in Threads : u # t => pc'[u] = pc[u] /\ hand'[u] = hand[u] /\ st'[u] = st[u]
    BY <2>0, <2>1, Spaces
  <2>3. StageOf(t)'
    BY <2>0, <2>1, <2>2 DEF StageOf, Enlisting, Owning, Stealing, Looking
  <2> QED
    BY <2>1, <2>2, <2>3, StagesFrom
<1>20. ASSUME NEW t \in Threads, CheckWindow(t) PROVE Stages'
  <2>0. TypeOK /\ StageOf(t)
    BY StageIs DEF RInv
  <2>1. /\ pc[t] = "mwCheck" /\ UNCHANGED <<curb, adds, hand>>
        /\ \/ UNCHANGED <<st, victim>> /\ pc' = [pc EXCEPT ![t] = "mwOff"]
           \/ /\ st' = [st EXCEPT ![t] = Word(0, {})] /\ victim' = [victim EXCEPT ![t] = NULL]
              /\ pc' = [pc EXCEPT ![t] = IF hand[t] = NULL THEN "migrate" ELSE "copy"]
    BY <1>20 DEF CheckWindow, At, Goto, LeaveWindow, Forget
  <2>2. /\ \/ UNCHANGED <<st, victim>> /\ pc'[t] = "mwOff"
           \/ pc'[t] = IF hand[t] = NULL THEN "migrate" ELSE "copy"
        /\ \A u \in Threads : u # t => pc'[u] = pc[u] /\ victim'[u] = victim[u] /\ st'[u] = st[u]
    BY <2>0, <2>1, Spaces
  <2>3. StageOf(t)'
    BY <2>0, <2>1, <2>2 DEF StageOf, Enlisting, Owning, Stealing, Looking
  <2> QED
    BY <2>1, <2>2, <2>3, StagesFrom
<1>21. ASSUME NEW t \in Threads, Unadvertise(t) PROVE Stages'
  <2>0. TypeOK /\ StageOf(t)
    BY StageIs DEF RInv
  <2>1. /\ pc[t] = "mwOff" /\ UNCHANGED <<curb, adds, hand>>
        /\ \/ UNCHANGED <<st, victim>> /\ pc' = [pc EXCEPT ![t] = "mwOff"]
           \/ /\ st' = [st EXCEPT ![t] = Word(0, {})] /\ victim' = [victim EXCEPT ![t] = NULL]
              /\ pc' = [pc EXCEPT ![t] = IF hand[t] = NULL THEN "migrate" ELSE "copy"]
    BY <1>21 DEF Unadvertise, At, Goto, LeaveWindow, Forget
  <2>2. /\ \/ UNCHANGED <<st, victim>> /\ pc'[t] = "mwOff"
           \/ pc'[t] = IF hand[t] = NULL THEN "migrate" ELSE "copy"
        /\ \A u \in Threads : u # t => pc'[u] = pc[u] /\ victim'[u] = victim[u] /\ st'[u] = st[u]
    BY <2>0, <2>1, Spaces
  <2>3. StageOf(t)'
    BY <2>0, <2>1, <2>2 DEF StageOf, Enlisting, Owning, Stealing, Looking
  <2> QED
    BY <2>1, <2>2, <2>3, StagesFrom
<1>22. ASSUME NEW t \in Threads, Copy(t) PROVE Stages'
  <2>0. TypeOK /\ StageOf(t)
    BY StageIs DEF RInv
  <2>1. /\ pc[t] = "copy" /\ pc' = [pc EXCEPT ![t] = "clean"] /\ UNCHANGED <<adds, st, hand, victim>>
        /\ \A u \in Threads : u # t => curb'[u] = curb[u]
    BY <1>22, CopyEffect DEF Emptied
  <2>2. StageOf(t)'
    BY <2>0, <2>1, Spaces DEF StageOf, Enlisting, Owning, Stealing, Looking
  <2> QED
    BY <2>0, <2>1, <2>2, StagesFrom, Spaces
<1>23. ASSUME NEW t \in Threads, MarkClean(t) PROVE Stages'
  <2>0. TypeOK /\ StageOf(t)
    BY StageIs DEF RInv
  <2>1. /\ pc[t] = "clean" /\ pc' = [pc EXCEPT ![t] = "run"] /\ UNCHANGED <<curb, adds, st, victim>>
        /\ hand' = [hand EXCEPT ![t] = NULL]
    BY <1>23, CleanEffect
  <2>2. StageOf(t)'
    BY <2>0, <2>1, Spaces DEF StageOf, Enlisting, Owning, Stealing, Looking
  <2> QED
    BY <2>0, <2>1, <2>2, StagesFrom, Spaces
<1> QED
  BY <1>0, <1>1, <1>2, <1>3, <1>4, <1>5, <1>6, <1>7, <1>8, <1>9, <1>10, <1>11,
     <1>12, <1>13, <1>14, <1>15, <1>16, <1>17, <1>18, <1>19, <1>20, <1>21, <1>22, <1>23
     DEF Next, Scheduler

(* The batches of one thread.                                               *)
MemoryOf(t) ==
    /\ \A b \in free[t] \cup laundry[t] \cup {pending[t]} \cup ToSet(adds[t])
                 \cup ToSet(list[t]) : b[1] = t
    /\ IsInjective(adds[t]) /\ IsInjective(list[t])
    /\ free[t] \cap laundry[t] = {} /\ pending[t] \notin free[t] \cup laundry[t]
    /\ \A b \in ToSet(adds[t]) \cup ToSet(list[t]) :
          b \notin free[t] \cup laundry[t] \cup {pending[t]}
    /\ \A b \in ToSet(adds[t]) : b \in ToSet(list[t]) => pc[t] = "advertise" /\ b = Adding(t)
    /\ pc[t] = "advertise" => Adding(t) \in ToSet(list[t])
    /\ Owning(t) => /\ hand[t][1] = t
                    /\ hand[t] \notin free[t] \cup laundry[t] \cup {pending[t]}
                    /\ hand[t] \notin ToSet(adds[t]) \cup ToSet(list[t])

LEMMA MemoryFrom ==
  ASSUME RInv, NEW t \in Threads, MemoryOf(t)',
         \A u \in Threads : u # t => /\ pc'[u] = pc[u] /\ adds'[u] = adds[u] /\ list'[u] = list[u]
                                     /\ pending'[u] = pending[u] /\ hand'[u] = hand[u]
                                     /\ free'[u] = free[u] /\ laundry'[u] = laundry[u]
  PROVE  Memory'
<1>1. ASSUME NEW u \in Threads, u # t PROVE MemoryOf(u)'
  <2>1. MemoryOf(u)
    BY DEF RInv, Memory, MemoryOf
  <2> QED
    BY <1>1, <2>1 DEF MemoryOf, Owning, Adding
<1>2. \A u \in Threads : MemoryOf(u)'
  BY <1>1
<1> QED
  BY ONLY <1>2 DEF Memory, MemoryOf

LEMMA MemoryIs == ASSUME RInv, NEW t \in Threads PROVE MemoryOf(t)
  BY DEF RInv, Memory, MemoryOf

(* Nothing of what MemoryOf is about moves.                                 *)
LEMMA MemoryStays ==
  ASSUME RInv, NEW t \in Threads, UNCHANGED <<list, pending, free, laundry, adds>>,
         \A u \in Threads : u # t => pc'[u] = pc[u] /\ hand'[u] = hand[u],
         pc[t] # "advertise" \/ ToSet(adds[t]) \cap ToSet(list[t]) = {}, pc'[t] # "advertise",
         Owning(t)' => Owning(t) /\ hand'[t] = hand[t]
  PROVE  Memory'
<1>1. MemoryOf(t)
  BY MemoryIs
<1>2. MemoryOf(t)'
  BY <1>1 DEF MemoryOf, Adding
<1> QED
  BY <1>2, MemoryFrom

LEMMA OneAdd ==
  ASSUME NEW x
  PROVE  /\ Head(<<x>>) = x /\ ToSet(<<x>>) = {x} /\ IsInjective(<<x>>) /\ <<x>> # <<>>
<1>1. Head(<<x>>) = x /\ <<x>> # <<>>
    OBVIOUS
<1> QED
  BY <1>1, SetOfOne

LEMMA TwoAdds ==
  ASSUME NEW x, NEW y
  PROVE  /\ ToSet(<<x, y>>) = {x, y} /\ Head(<<x, y>>) = x /\ <<x, y>> # <<>>
         /\ x # y => IsInjective(<<x, y>>)
  BY DEF ToSet, IsInjective

(* What push_curb has to add: the pending batch, the first half, or both.   *)
LEMMA PushedAdds ==
  ASSUME TypeOK, NEW t \in Threads, NEW b \in Batches
  PROVE  /\ OldAdds(t) \in Seq(Batches) /\ OldAdds(t) \o <<b>> \in Seq(Batches)
         /\ used[t] => /\ ToSet(OldAdds(t)) = {pending[t]} /\ IsInjective(OldAdds(t))
                       /\ Head(OldAdds(t)) = pending[t]
                       /\ ToSet(OldAdds(t) \o <<b>>) = {pending[t], b}
                       /\ Head(OldAdds(t) \o <<b>>) = pending[t]
                       /\ b # pending[t] => IsInjective(OldAdds(t) \o <<b>>)
         /\ ~used[t] => /\ ToSet(OldAdds(t)) = {} /\ IsInjective(OldAdds(t)) /\ OldAdds(t) = <<>>
                        /\ ToSet(OldAdds(t) \o <<b>>) = {b}
                        /\ Head(OldAdds(t) \o <<b>>) = b
                        /\ IsInjective(OldAdds(t) \o <<b>>)
         /\ OldAdds(t) \o <<b>> # <<>>
<1>1. pending[t] \in Batches
  BY Types
<1>2. <<pending[t]>> \o <<b>> = <<pending[t], b>> /\ <<>> \o <<b>> = <<b>>
  <2> DEFINE d == pending[t]
             c == <<d>> \o <<b>>
  <2>1. c = <<d, b>>
    <3>1. <<d>> \in Seq(Batches) /\ Len(<<d>>) = 1 /\ <<d>>[1] = d
      BY <1>1
    <3>2. <<b>> \in Seq(Batches) /\ Len(<<b>>) = 1 /\ <<b>>[1] = b
      OBVIOUS
    <3>3. <<d, b>> \in Seq(Batches) /\ Len(<<d, b>>) = 2 /\ <<d, b>>[1] = d /\ <<d, b>>[2] = b
      BY <1>1
    <3> DEFINE x == <<d>>
               y == <<b>>
               z == <<d, b>>
    <3> HIDE DEF x, y, z
    <3>4. x \o y \in Seq(Batches) /\ Len(x \o y) = 2 /\ (x \o y)[1] = d /\ (x \o y)[2] = b
      BY <3>1, <3>2, ConcatProperties DEF x, y
    <3>5. \A i \in 1..Len(z) : (x \o y)[i] = z[i]
      BY <3>3, <3>4 DEF z
    <3>6. x \o y = z
      BY <3>3, <3>4, <3>5, SeqEqual DEF z
    <3> QED
      BY <3>6 DEF x, y, z
  <2>2. <<b>> \in Seq(Batches)
    OBVIOUS
  <2>3. <<>> \o <<b>> = <<b>>
    BY <2>2, ConcatEmptySeq
  <2> QED
    BY <2>1, <2>3
<1>3. CASE used[t]
  <2>1. OldAdds(t) = <<pending[t]>> /\ OldAdds(t) \o <<b>> = <<pending[t], b>>
    BY <1>2, <1>3 DEF OldAdds
  <2>2. <<pending[t]>> \in Seq(Batches) /\ <<pending[t], b>> \in Seq(Batches)
    BY <1>1
  <2>3. /\ ToSet(OldAdds(t)) = {pending[t]} /\ IsInjective(OldAdds(t)) /\ Head(OldAdds(t)) = pending[t]
    BY <2>1, OneAdd
  <2>4. /\ ToSet(OldAdds(t) \o <<b>>) = {pending[t], b} /\ Head(OldAdds(t) \o <<b>>) = pending[t]
        /\ OldAdds(t) \o <<b>> # <<>> /\ (b # pending[t] => IsInjective(OldAdds(t) \o <<b>>))
    <3> DEFINE z == <<pending[t], b>>
    <3>1. /\ ToSet(z) = {pending[t], b} /\ Head(z) = pending[t] /\ z # <<>>
          /\ pending[t] # b => IsInjective(z)
      BY TwoAdds
    <3>2. OldAdds(t) \o <<b>> = z
      BY <2>1
    <3> HIDE DEF z
    <3> QED
      BY <3>1, <3>2
  <2> QED
    BY <1>3, <2>1, <2>2, <2>3, <2>4
<1>4. CASE ~used[t]
  <2>1. OldAdds(t) = <<>> /\ OldAdds(t) \o <<b>> = <<b>>
    BY <1>2, <1>4 DEF OldAdds
  <2>2. <<>> \in Seq(Batches) /\ <<b>> \in Seq(Batches)
    OBVIOUS
  <2> QED
    BY <1>4, <2>1, <2>2, OneAdd, SetOfEmpty
<1> QED
  BY <1>3, <1>4

LEMMA MemoryEnqueued ==
  ASSUME RInv, NEW t \in Threads, NEW p \in Procs, Enqueued(t, p), pc[t] = "run", UNCHANGED hand
  PROVE  Memory'
<1>0. TypeOK /\ MemoryOf(t) /\ adds[t] = <<>>
  BY MemoryIs, NotAtAdd DEF RInv, Enlisting
<1>1. CASE UNCHANGED <<pending, free, laundry, adds, pc>>
  <2>1. UNCHANGED <<list, pending, free, laundry, adds, pc>>
    BY <1>1 DEF Enqueued
  <2> QED
    BY <2>1, MemoryStays DEF Owning
<1>2. CASE ~UNCHANGED <<pending, free, laundry, adds, pc>>
  <2>1. PICK W \in SUBSET Washed(t), b \in Batches :
          /\ b \in free[t] \cup W
          /\ b \in Batches
          /\ pending' = [pending EXCEPT ![t] = b]
          /\ free' = [free EXCEPT ![t] = (free[t] \cup W) \ {b}]
          /\ laundry' = [laundry EXCEPT ![t] = laundry[t] \ W]
          /\ adds' = [adds EXCEPT ![t] = <<pending[t]>>]
          /\ pc' = [pc EXCEPT ![t] = "add"]
    BY <1>2 DEF Enqueued
  <2>2. /\ W \subseteq laundry[t] /\ list' = list
        /\ \A u \in Threads : u # t => /\ pc'[u] = pc[u] /\ adds'[u] = adds[u] /\ list'[u] = list[u]
                                       /\ pending'[u] = pending[u] /\ hand'[u] = hand[u]
                                       /\ free'[u] = free[u] /\ laundry'[u] = laundry[u]
        /\ pending'[t] = b /\ free'[t] = (free[t] \cup W) \ {b} /\ laundry'[t] = laundry[t] \ W
        /\ adds'[t] = <<pending[t]>> /\ pc'[t] = "add"
    BY <1>0, <2>1, WashedOnes, Spaces DEF Enqueued
  <2>3. MemoryOf(t)'
    <3>1. ToSet(adds'[t]) = {pending[t]} /\ IsInjective(adds'[t])
      BY <2>2, OneAdd
    <3> QED
      BY <1>0, <2>1, <2>2, <3>1 DEF MemoryOf, Owning
  <2> QED
    BY <2>2, <2>3, MemoryFrom
<1> QED
  BY <1>1, <1>2

(* The memory of batches.                                                   *)
LEMMA MemoryStep == RInv /\ [Next]_vars => Memory'
<1> SUFFICES ASSUME RInv, [Next]_vars PROVE Memory'
  OBVIOUS
<1>0. CASE UNCHANGED vars
  BY <1>0 DEF RInv, vars, queue, window, env, local, Memory, Owning, Adding
<1>1. ASSUME NEW t \in Threads, Run(t) PROVE Memory'
  <2>1. pc[t] = "run" /\ UNCHANGED hand /\ asleep \subseteq Procs
    BY <1>1, RunEffect, Types DEF RInv
  <2>2. CASE UNCHANGED <<list, pending, free, laundry, adds, pc>>
    BY <2>1, <2>2, MemoryStays DEF Owning
  <2>3. UNCHANGED <<list, pending, free, laundry, adds, pc>> \/ \E r \in asleep : Enqueued(t, r)
    BY <1>1, RunEffect
  <2> QED
    BY <2>1, <2>2, <2>3, MemoryEnqueued
<1>2. ASSUME NEW t \in Threads, TakeMail(t) PROVE Memory'
  <2>1. pc[t] = "run" /\ UNCHANGED hand /\ pmail[t] \subseteq Procs
    BY <1>2, MailEffect, Types DEF RInv
  <2>2. CASE UNCHANGED <<list, pending, free, laundry, adds, pc>>
    BY <2>1, <2>2, MemoryStays DEF Owning
  <2>3. UNCHANGED <<list, pending, free, laundry, adds, pc>> \/ \E p \in pmail[t] : Enqueued(t, p)
    BY <1>2, MailEffect
  <2> QED
    BY <2>1, <2>2, <2>3, MemoryEnqueued
<1>3. ASSUME NEW t \in Threads, KeepCurb(t) PROVE Memory'
  <2>0. TypeOK
    BY DEF RInv
  <2>1. /\ UNCHANGED <<list, pending, free, laundry, adds>>
        /\ pc[t] = "run" /\ UNCHANGED <<pc, hand>>
    BY <1>3, KeepEffect
  <2> QED
    BY <2>0, <2>1, MemoryStays, Spaces DEF Owning
<1>4. ASSUME NEW t \in Threads, PushCurb(t) PROVE Memory'
  <2>0. /\ TypeOK /\ MemoryOf(t) /\ pc[t] = "run" /\ adds[t] = <<>> /\ UNCHANGED <<list, hand>>
        /\ (PushedOne(t) \/ PushedTwo(t))
    BY <1>4, PushEffect, MemoryIs, NotAtAdd DEF RInv, Enlisting
  <2>1. CASE PushedOne(t)
    <3>1. PICK W \in SUBSET Washed(t), b \in Batches :
            /\ b \in free[t] \cup W
            /\ laundry' = [laundry EXCEPT ![t] = laundry[t] \ W]
            /\ pending' = [pending EXCEPT ![t] = b]
            /\ free' = [free EXCEPT ![t] = (free[t] \cup W \cup Old(t)) \ {b}]
            /\ adds' = [adds EXCEPT ![t] = OldAdds(t)]
            /\ pc' = [pc EXCEPT ![t] = IF used[t] THEN "add" ELSE "pick"]
      BY <2>1 DEF PushedOne, WashedBut
    <3>2. /\ W \subseteq laundry[t]
          /\ \A u \in Threads : u # t => /\ pc'[u] = pc[u] /\ adds'[u] = adds[u] /\ list'[u] = list[u]
                                         /\ pending'[u] = pending[u] /\ hand'[u] = hand[u]
                                         /\ free'[u] = free[u] /\ laundry'[u] = laundry[u]
          /\ pending'[t] = b /\ free'[t] = (free[t] \cup W \cup Old(t)) \ {b}
          /\ laundry'[t] = laundry[t] \ W /\ adds'[t] = OldAdds(t)
          /\ pc'[t] = IF used[t] THEN "add" ELSE "pick"
      BY <2>0, <3>1, WashedOnes, Spaces
    <3>3. /\ ToSet(adds'[t]) = IF used[t] THEN {pending[t]} ELSE {}
          /\ IsInjective(adds'[t])
      BY <2>0, <3>1, <3>2, PushedAdds
    <3>4. MemoryOf(t)'
      BY <2>0, <3>1, <3>2, <3>3 DEF MemoryOf, Owning, Old
    <3> QED
      BY <3>2, <3>4, MemoryFrom
  <2>2. CASE PushedTwo(t)
    <3>1. PICK W \in SUBSET Washed(t), b \in Batches, d \in Batches :
            /\ b \in free[t] \cup W /\ d \in (free[t] \cup W \cup Old(t)) \ {b}
            /\ laundry' = [laundry EXCEPT ![t] = laundry[t] \ W]
            /\ pending' = [pending EXCEPT ![t] = d]
            /\ free' = [free EXCEPT ![t] = (free[t] \cup W \cup Old(t)) \ {b, d}]
            /\ adds' = [adds EXCEPT ![t] = OldAdds(t) \o <<b>>]
            /\ pc' = [pc EXCEPT ![t] = "add"]
      BY <2>2 DEF PushedTwo, WashedBut
    <3>2. /\ W \subseteq laundry[t]
          /\ \A u \in Threads : u # t => /\ pc'[u] = pc[u] /\ adds'[u] = adds[u] /\ list'[u] = list[u]
                                         /\ pending'[u] = pending[u] /\ hand'[u] = hand[u]
                                         /\ free'[u] = free[u] /\ laundry'[u] = laundry[u]
          /\ pending'[t] = d /\ free'[t] = (free[t] \cup W \cup Old(t)) \ {b, d}
          /\ laundry'[t] = laundry[t] \ W /\ adds'[t] = OldAdds(t) \o <<b>>
          /\ pc'[t] = "add"
      BY <2>0, <3>1, WashedOnes, Spaces
    <3>3. b # pending[t]
      BY <2>0, <3>1, <3>2 DEF MemoryOf
    <3>4. /\ ToSet(adds'[t]) = IF used[t] THEN {pending[t], b} ELSE {b}
          /\ IsInjective(adds'[t])
      <4>1. CASE used[t]
        BY <2>0, <3>1, <3>2, <3>3, <4>1, PushedAdds
      <4>2. CASE ~used[t]
        BY <2>0, <3>1, <3>2, <4>2, PushedAdds
      <4> QED
        BY <4>1, <4>2
    <3>5. MemoryOf(t)'
      BY <2>0, <3>1, <3>2, <3>3, <3>4 DEF MemoryOf, Owning, Old
    <3> QED
      BY <3>2, <3>5, MemoryFrom
  <2> QED
    BY <2>0, <2>1, <2>2
<1>5. ASSUME NEW t \in Threads, AddAffine(t) PROVE Memory'
  <2>0. TypeOK /\ MemoryOf(t) /\ pc[t] = "add" /\ Added(t)
    BY <1>5, AddAffineEffect, MemoryIs DEF RInv
  <2>1. /\ list' = [list EXCEPT ![t] = Append(list[t], Adding(t))]
        /\ UNCHANGED <<pending, free, laundry, hand>>
    BY <1>5, AddAffineEffect
  <2>2. /\ pc'[t] \in {"add", "pick", "run"} /\ adds'[t] = Tail(adds[t])
        /\ \A u \in Threads : u # t => pc'[u] = pc[u] /\ adds'[u] = adds[u]
    BY <2>0, AddedStage
  <2>3. /\ Adding(t) \in Batches /\ Adding(t) \in ToSet(adds[t]) /\ IsInjective(Tail(adds[t]))
        /\ ToSet(Tail(adds[t])) = ToSet(adds[t]) \ {Adding(t)}
    BY <2>0, AddingIs
  <2>4. list'[t] = Append(list[t], Adding(t)) /\ \A u \in Threads : u # t => list'[u] = list[u]
    BY <2>0, <2>1, Spaces
  <2>5. Adding(t) \notin ToSet(list[t]) /\ list[t] \in Seq(Batches) /\ IsInjective(list[t])
    BY <2>0, <2>3, Types DEF MemoryOf
  <2>6. ToSet(list'[t]) = ToSet(list[t]) \cup {Adding(t)} /\ IsInjective(list'[t])
    BY <2>3, <2>4, <2>5, Appended
  <2> DEFINE a == Adding(t)
  <2>7. a \in ToSet(adds[t]) /\ ToSet(list'[t]) = ToSet(list[t]) \cup {a} /\ ToSet(adds'[t]) = ToSet(adds[t]) \ {a}
    BY <2>2, <2>3, <2>6
  <2>9. IsInjective(adds'[t]) /\ IsInjective(list'[t])
    BY <2>2, <2>3, <2>6
  <2> HIDE DEF a
  <2>8. MemoryOf(t)'
    BY <2>0, <2>1, <2>2, <2>7, <2>9 DEF MemoryOf, Owning
  <2> QED
    BY <2>1, <2>2, <2>4, <2>8, MemoryFrom
<1>6. ASSUME NEW t \in Threads, AddVisible(t) PROVE Memory'
  <2>0. TypeOK
    BY DEF RInv
  <2>1. /\ UNCHANGED <<list, pending, free, laundry, adds>>
        /\ pc[t] = "add" /\ pc' = [pc EXCEPT ![t] = "slot"] /\ UNCHANGED hand
    BY <1>6, AddVisibleEffect
  <2> QED
    BY <2>0, <2>1, MemoryStays, Spaces DEF Owning
<1>7. ASSUME NEW t \in Threads, FillSlot(t) PROVE Memory'
  <2>0. TypeOK
    BY DEF RInv
  <2>1. /\ UNCHANGED <<list, pending, free, laundry, adds>>
        /\ pc[t] = "slot" /\ pc' = [pc EXCEPT ![t] = "publish"] /\ UNCHANGED hand
    BY <1>7, FillEffect
  <2> QED
    BY <2>0, <2>1, MemoryStays, Spaces DEF Owning
<1>8. ASSUME NEW t \in Threads, Publish(t) PROVE Memory'
  <2>0. TypeOK /\ MemoryOf(t) /\ pc[t] = "publish"
    BY <1>8, MemoryIs DEF RInv, Publish, At
  <2>1. /\ list' = [list EXCEPT ![t] = Append(list[t], Adding(t))]
        /\ pc' = [pc EXCEPT ![t] = "advertise"] /\ UNCHANGED <<pending, free, laundry, adds, hand>>
    BY <1>8 DEF Publish, Goto, local
  <2>3. Adding(t) \in Batches /\ Adding(t) \in ToSet(adds[t])
    BY <2>0, AddingIs
  <2>4. /\ list'[t] = Append(list[t], Adding(t)) /\ \A u \in Threads : u # t => list'[u] = list[u]
        /\ pc'[t] = "advertise" /\ \A u \in Threads : u # t => pc'[u] = pc[u]
    BY <2>0, <2>1, Spaces
  <2>5. Adding(t) \notin ToSet(list[t]) /\ list[t] \in Seq(Batches) /\ IsInjective(list[t])
    BY <2>0, <2>3, Types DEF MemoryOf
  <2>6. ToSet(list'[t]) = ToSet(list[t]) \cup {Adding(t)} /\ IsInjective(list'[t])
    BY <2>3, <2>4, <2>5, Appended
  <2>7. Adding(t)' = Adding(t)
    BY <2>1 DEF Adding
  <2>8. MemoryOf(t)'
    BY <2>0, <2>1, <2>3, <2>4, <2>5, <2>6, <2>7 DEF MemoryOf, Owning
  <2> QED
    BY <2>1, <2>4, <2>8, MemoryFrom
<1>9. ASSUME NEW t \in Threads, Advertise(t) PROVE Memory'
  <2>0. TypeOK /\ MemoryOf(t) /\ pc[t] = "advertise" /\ Added(t) /\ UNCHANGED <<list, pending, free, laundry, hand>>
    BY <1>9, MemoryIs DEF RInv, Advertise, At, queue
  <2>2. /\ pc'[t] \in {"add", "pick", "run"} /\ adds'[t] = Tail(adds[t])
        /\ \A u \in Threads : u # t => pc'[u] = pc[u] /\ adds'[u] = adds[u]
    BY <2>0, AddedStage
  <2>3. /\ Adding(t) \in ToSet(adds[t]) /\ IsInjective(Tail(adds[t]))
        /\ ToSet(Tail(adds[t])) = ToSet(adds[t]) \ {Adding(t)}
    BY <2>0, AddingIs
  <2>8. MemoryOf(t)'
    BY <2>0, <2>2, <2>3 DEF MemoryOf, Owning
  <2> QED
    BY <2>0, <2>2, <2>8, MemoryFrom
<1>10. ASSUME NEW t \in Threads, Pull(t) PROVE Memory'
  <2> DEFINE b == Head(list[t])
  <2>0. /\ TypeOK /\ MemoryOf(t) /\ adds[t] = <<>> /\ pc[t] \in {"run", "pick"} /\ b \in Batches
        /\ b[1] = t /\ b \in ToSet(list[t])
        /\ IsInjective(Tail(list[t])) /\ ToSet(Tail(list[t])) = ToSet(list[t]) \ {b}
        /\ list' = [list EXCEPT ![t] = Tail(list[t])] /\ UNCHANGED <<pending, adds>>
    BY <1>10, PullEffect, NotAtAdd, MemoryIs DEF RInv, Picking, At, Enlisting
  <2>1. \/ /\ free' = [free EXCEPT ![t] = free[t] \cup {b}]
           /\ pc' = [pc EXCEPT ![t] = "run"] /\ UNCHANGED <<laundry, hand>>
        \/ /\ hand' = [hand EXCEPT ![t] = b]
           /\ pc' = [pc EXCEPT ![t] = "unmark"] /\ UNCHANGED <<free, laundry>>
        \/ /\ laundry' = [laundry EXCEPT ![t] = laundry[t] \cup {b}]
           /\ pc' = [pc EXCEPT ![t] = "pick"] /\ UNCHANGED <<free, hand>>
    BY <1>10, PullEffect
  <2> HIDE DEF b
  <2>2. list'[t] = Tail(list[t]) /\ \A u \in Threads : u # t => list'[u] = list[u]
    BY <2>0, Spaces
  <2>3. ToSet(list'[t]) = ToSet(list[t]) \ {b} /\ IsInjective(list'[t]) /\ adds'[t] = <<>> /\ ToSet(adds'[t]) = {}
    BY <2>0, <2>2, SetOfEmpty
  <2>7. b \notin free[t] \cup laundry[t] \cup {pending[t]}
    BY <2>0 DEF MemoryOf
  <2>4. CASE /\ free' = [free EXCEPT ![t] = free[t] \cup {b}]
             /\ pc' = [pc EXCEPT ![t] = "run"] /\ UNCHANGED <<laundry, hand>>
    <3>1. /\ free'[t] = free[t] \cup {b} /\ pc'[t] = "run"
          /\ \A u \in Threads : u # t => free'[u] = free[u] /\ pc'[u] = pc[u]
      BY <2>0, <2>4, Spaces
    <3>2. MemoryOf(t)'
      BY <2>0, <2>3, <2>4, <2>7, <3>1 DEF MemoryOf, Owning
    <3> QED
      BY <2>0, <2>2, <2>4, <3>1, <3>2, MemoryFrom
  <2>5. CASE /\ hand' = [hand EXCEPT ![t] = b]
             /\ pc' = [pc EXCEPT ![t] = "unmark"] /\ UNCHANGED <<free, laundry>>
    <3>1. /\ hand'[t] = b /\ pc'[t] = "unmark"
          /\ \A u \in Threads : u # t => hand'[u] = hand[u] /\ pc'[u] = pc[u]
      BY <2>0, <2>5, Spaces
    <3>2. MemoryOf(t)'
      BY <2>0, <2>3, <2>5, <2>7, <3>1 DEF MemoryOf, Owning
    <3> QED
      BY <2>0, <2>2, <2>5, <3>1, <3>2, MemoryFrom
  <2>6. CASE /\ laundry' = [laundry EXCEPT ![t] = laundry[t] \cup {b}]
             /\ pc' = [pc EXCEPT ![t] = "pick"] /\ UNCHANGED <<free, hand>>
    <3>1. /\ laundry'[t] = laundry[t] \cup {b} /\ pc'[t] = "pick"
          /\ \A u \in Threads : u # t => laundry'[u] = laundry[u] /\ pc'[u] = pc[u]
      BY <2>0, <2>6, Spaces
    <3>2. MemoryOf(t)'
      BY <2>0, <2>3, <2>6, <2>7, <3>1 DEF MemoryOf, Owning
    <3> QED
      BY <2>0, <2>2, <2>6, <3>1, <3>2, MemoryFrom
  <2> QED
    BY <2>1, <2>4, <2>5, <2>6
<1>11. ASSUME NEW t \in Threads, UnmarkRead(t) PROVE Memory'
  <2>0. TypeOK
    BY DEF RInv
  <2>1. /\ UNCHANGED <<list, pending, free, laundry, adds, hand>>
        /\ pc[t] = "unmark" /\ pc' = [pc EXCEPT ![t] = "unmarkW"]
    BY <1>11 DEF UnmarkRead, At, Goto, queue
  <2> QED
    BY <2>0, <2>1, MemoryStays, Spaces DEF Owning
<1>12. ASSUME NEW t \in Threads, UnmarkWrite(t) PROVE Memory'
  <2>0. TypeOK /\ MemoryOf(t) /\ pc[t] = "unmarkW" /\ adds[t] = <<>>
    BY <1>12, UnmarkEffect, MemoryIs, NotAtAdd DEF RInv, Enlisting
  <2>1. /\ free' = [free EXCEPT ![t] = free[t] \cup {hand[t]}]
        /\ hand' = [hand EXCEPT ![t] = NULL] /\ pc' = [pc EXCEPT ![t] = "run"]
        /\ UNCHANGED <<list, pending, laundry, adds>> /\ hand[t] \in Batches
    BY <1>12, UnmarkEffect
  <2>2. /\ free'[t] = free[t] \cup {hand[t]} /\ pc'[t] = "run"
        /\ \A u \in Threads : u # t => free'[u] = free[u] /\ hand'[u] = hand[u] /\ pc'[u] = pc[u]
    BY <2>0, <2>1, Spaces
  <2> DEFINE h == hand[t]
  <2>4. /\ h[1] = t /\ h \notin free[t] \cup laundry[t] \cup {pending[t]}
        /\ h \notin ToSet(adds[t]) \cup ToSet(list[t]) /\ free'[t] = free[t] \cup {h}
    BY <2>0, <2>2 DEF MemoryOf, Owning
  <2> HIDE DEF h
  <2>3. MemoryOf(t)'
    BY <2>0, <2>1, <2>2, <2>4 DEF MemoryOf, Owning
  <2> QED
    BY <2>1, <2>2, <2>3, MemoryFrom
<1>13. ASSUME NEW t \in Threads, PullPending(t) PROVE Memory'
  <2>0. /\ TypeOK /\ MemoryOf(t) /\ adds[t] = <<>> /\ pc[t] \in {"run", "pick"}
        /\ PulledPending(t) /\ pc' = [pc EXCEPT ![t] = "run"] /\ UNCHANGED <<list, adds, hand>>
    BY <1>13, PullPendingEffect, NotAtAdd, MemoryIs DEF RInv, Picking, At, Enlisting
  <2>1. PICK W \in SUBSET Washed(t), b \in Batches :
            /\ b \in free[t] \cup W
            /\ laundry' = [laundry EXCEPT ![t] = laundry[t] \ W]
            /\ pending' = [pending EXCEPT ![t] = b]
            /\ free' = [free EXCEPT ![t] = ((free[t] \cup W) \ {b}) \cup {pending[t]}]
    BY <2>0 DEF PulledPending, WashedBut
  <2>2. /\ W \subseteq laundry[t]
        /\ \A u \in Threads : u # t => /\ pc'[u] = pc[u]
                                       /\ pending'[u] = pending[u]
                                       /\ free'[u] = free[u] /\ laundry'[u] = laundry[u]
        /\ pending'[t] = b /\ free'[t] = ((free[t] \cup W) \ {b}) \cup {pending[t]}
        /\ laundry'[t] = laundry[t] \ W /\ pc'[t] = "run"
    BY <2>0, <2>1, WashedOnes, Spaces
  <2>3. ToSet(adds[t]) = {}
    BY <2>0, SetOfEmpty
  <2>4. MemoryOf(t)'
    BY <2>0, <2>1, <2>2, <2>3 DEF MemoryOf, Owning
  <2> QED
    BY <2>0, <2>2, <2>4, MemoryFrom
<1>14. ASSUME NEW t \in Threads, PickFails(t) PROVE Memory'
  <2>0. TypeOK
    BY DEF RInv
  <2>1. /\ UNCHANGED <<list, pending, free, laundry, adds>>
        /\ pc[t] \in {"run", "pick"} /\ pc' = [pc EXCEPT ![t] = "migrate"] /\ UNCHANGED hand
    BY <1>14 DEF PickFails, Picking, At, Goto, local
  <2> QED
    BY <2>0, <2>1, MemoryStays, Spaces DEF Owning
<1>15. ASSUME NEW t \in Threads, ChooseVictim(t) PROVE Memory'
  <2>0. TypeOK
    BY DEF RInv
  <2>1. /\ UNCHANGED <<list, pending, free, laundry, adds>>
        /\ pc[t] = "migrate" /\ pc' = [pc EXCEPT ![t] = "mwRead"] /\ UNCHANGED hand
    BY <1>15 DEF ChooseVictim, At, Goto, queue
  <2> QED
    BY <2>0, <2>1, MemoryStays, Spaces DEF Owning
<1>16. ASSUME NEW t \in Threads, Idle(t) PROVE Memory'
  <2>0. /\ TypeOK /\ MemoryOf(t) /\ pc[t] = "migrate" /\ adds[t] = <<>>
        /\ pc' = [pc EXCEPT ![t] = "run"] /\ UNCHANGED <<list, pending, adds, hand>>
    BY <1>16, IdleEffect, NotAtAdd, MemoryIs DEF RInv, Enlisting
  <2>1. /\ laundry' = [laundry EXCEPT ![t] = laundry[t] \ Washed(t)]
        /\ free' = [free EXCEPT ![t] = free[t] \cup Washed(t)]
    BY <1>16, IdleEffect DEF WashedBut
  <2>2. /\ Washed(t) \subseteq laundry[t]
        /\ \A u \in Threads : u # t => pc'[u] = pc[u] /\ free'[u] = free[u] /\ laundry'[u] = laundry[u]
        /\ free'[t] = free[t] \cup Washed(t)
        /\ laundry'[t] = laundry[t] \ Washed(t) /\ pc'[t] = "run"
    BY <2>0, <2>1, WashedOnes, Spaces
  <2>4. MemoryOf(t)'
    BY <2>0, <2>2 DEF MemoryOf, Owning
  <2> QED
    BY <2>0, <2>2, <2>4, MemoryFrom
<1>17. ASSUME NEW t \in Threads, ReadWindow(t) PROVE Memory'
  <2>0. TypeOK
    BY DEF RInv
  <2>1. /\ UNCHANGED <<list, pending, free, laundry, adds>>
        /\ pc' = [pc EXCEPT ![t] = IF mw[victim[t]].bm = {} THEN "mwCheck" ELSE "mwClear"]
        /\ pc[t] = "mwRead" /\ UNCHANGED hand
    BY <1>17 DEF ReadWindow, At, Goto, queue
  <2> QED
    BY <2>0, <2>1, MemoryStays, Spaces DEF Owning
<1>18. ASSUME NEW t \in Threads, ClearBit(t) PROVE Memory'
  <2>0. TypeOK
    BY DEF RInv
  <2>1. /\ UNCHANGED <<list, pending, free, laundry, adds>>
        /\ pc[t] = "mwClear" /\ pc' = [pc EXCEPT ![t] = "mwSwap"] /\ UNCHANGED hand
    BY <1>18 DEF ClearBit, At, Goto, queue, local
  <2> QED
    BY <2>0, <2>1, MemoryStays, Spaces DEF Owning
<1>19. ASSUME NEW t \in Threads, TakeSlot(t) PROVE Memory'
  <2>0. TypeOK
    BY DEF RInv
  <2> DEFINE s == slot[victim[t]][BestWindow(st[t])]
  <2>1. /\ UNCHANGED <<list, pending, free, laundry, adds>> /\ pc[t] = "mwSwap"
        /\ pc' = [pc EXCEPT ![t] = IF hand'[t] = NULL /\ st'[t].bm # {} THEN "mwClear" ELSE "mwCheck"]
        /\ hand' = [hand EXCEPT ![t] = s]
    BY <1>19 DEF TakeSlot, At, Goto, queue
  <2> HIDE DEF s
  <2> QED
    BY <2>0, <2>1, MemoryStays, Spaces DEF Owning
<1>20. ASSUME NEW t \in Threads, CheckWindow(t) PROVE Memory'
  <2>0. TypeOK
    BY DEF RInv
  <2>1. /\ UNCHANGED <<list, pending, free, laundry, adds>>
        /\ pc[t] = "mwCheck" /\ UNCHANGED hand
        /\ \/ pc' = [pc EXCEPT ![t] = "mwOff"]
           \/ pc' = [pc EXCEPT ![t] = IF hand[t] = NULL THEN "migrate" ELSE "copy"]
    BY <1>20 DEF CheckWindow, LeaveWindow, At, Goto, queue
  <2> QED
    BY <2>0, <2>1, MemoryStays, Spaces DEF Owning
<1>21. ASSUME NEW t \in Threads, Unadvertise(t) PROVE Memory'
  <2>0. TypeOK
    BY DEF RInv
  <2>1. /\ UNCHANGED <<list, pending, free, laundry, adds>>
        /\ pc[t] = "mwOff" /\ UNCHANGED hand
        /\ pc' = [pc EXCEPT ![t] = IF hand[t] = NULL THEN "migrate" ELSE "copy"]
    BY <1>21 DEF Unadvertise, LeaveWindow, At, Goto, queue
  <2> QED
    BY <2>0, <2>1, MemoryStays, Spaces DEF Owning
<1>22. ASSUME NEW t \in Threads, Copy(t) PROVE Memory'
  <2>0. TypeOK
    BY DEF RInv
  <2>1. /\ UNCHANGED <<list, pending, free, laundry, adds>>
        /\ pc[t] = "copy" /\ pc' = [pc EXCEPT ![t] = "clean"] /\ UNCHANGED hand
    BY <1>22, CopyEffect
  <2> QED
    BY <2>0, <2>1, MemoryStays, Spaces DEF Owning
<1>23. ASSUME NEW t \in Threads, MarkClean(t) PROVE Memory'
  <2>0. TypeOK
    BY DEF RInv
  <2>1. /\ UNCHANGED <<list, pending, free, laundry, adds>>
        /\ pc[t] = "clean" /\ pc' = [pc EXCEPT ![t] = "run"] /\ hand' = [hand EXCEPT ![t] = NULL]
    BY <1>23, CleanEffect
  <2> QED
    BY <2>0, <2>1, MemoryStays, Spaces DEF Owning
<1> QED
  BY <1>0, <1>1, <1>2, <1>3, <1>4, <1>5, <1>6, <1>7, <1>8, <1>9, <1>10, <1>11,
     <1>12, <1>13, <1>14, <1>15, <1>16, <1>17, <1>18, <1>19, <1>20, <1>21, <1>22, <1>23
     DEF Next, Scheduler

(* What a batch holds, what a thread keeps, and what it runs.               *)
ContentOf(b) ==
    /\ IsInjective(bt[b].procs)
    /\ \A p \in ToSet(bt[b].procs) : Home[p] \in {NULL, b[1]} /\ (bt[b].dirty => Home[p] = NULL)
    /\ \A p, q \in ToSet(bt[b].procs) : Home[p] = NULL => Home[q] = NULL
KeepOf(t) ==
    /\ \A b \in free[t] : bt[b].procs = <<>> /\ ~bt[b].dirty
    /\ ~bt[pending[t]].dirty
    /\ ~used[t] => bt[pending[t]].procs = <<>>
    /\ \A b \in ToSet(list[t]) : bt[b].window = 0 => ~bt[b].dirty
CurbOf(t) ==
    /\ IsInjective(curb[t].procs)
    /\ \A p \in ToSet(curb[t].procs) :
          Home[p] \in {NULL, t} /\ (Home[p] # NULL <=> curb[t].affine)
    /\ \A p \in pmail[t] : Home[p] = t

LEMMA ContentIs ==
  ASSUME RInv
  PROVE  /\ \A b \in Batches : ContentOf(b)
         /\ \A t \in Threads : KeepOf(t) /\ CurbOf(t)
  BY DEF RInv, Contents, ContentOf, KeepOf, CurbOf

LEMMA ContentFrom ==
  ASSUME \A b \in Batches : ContentOf(b)', \A t \in Threads : KeepOf(t)' /\ CurbOf(t)'
  PROVE  Contents'
  BY DEF Contents, ContentOf, KeepOf, CurbOf

LEMMA SameContent ==
  ASSUME RInv, NEW b \in Batches, bt'[b].procs = bt[b].procs \/ bt'[b].procs = <<>>,
         bt'[b].dirty => bt[b].dirty
  PROVE  ContentOf(b)'
<1>1. ContentOf(b)
  BY ContentIs
<1> QED
  BY <1>1, SetOfEmpty DEF ContentOf

LEMMA SameCurbs ==
  ASSUME RInv, NEW u \in Threads, curb'[u] = curb[u] \/ curb'[u].procs = <<>>, pmail'[u] = pmail[u]
  PROVE  CurbOf(u)'
<1>1. CurbOf(u)
  BY ContentIs
<1> QED
  BY <1>1, SetOfEmpty DEF CurbOf

LEMMA OneKind ==
  ASSUME RInv, NEW b \in Batches, NEW p \in ToSet(bt[b].procs)
  PROVE  Home[p] # NULL <=> HasAffinity(b)
<1>1. ContentOf(b) /\ bt[b].procs \in Seq(Procs) /\ bt[b].procs # <<>> /\ IsInjective(bt[b].procs)
  <2>1. ContentOf(b) /\ bt[b].procs \in Seq(Procs)
    BY ContentIs, Types DEF RInv
  <2>2. bt[b].procs # <<>>
    BY SetOfEmpty
  <2> QED
    BY <2>1, <2>2 DEF ContentOf
<1>2. Head(bt[b].procs) \in ToSet(bt[b].procs)
  BY <1>1, HeadAndTail
<1> QED
  BY <1>1, <1>2 DEF ContentOf, HasAffinity

(* A batch that is loaded becomes a current batch as it should be.          *)
LEMMA LoadedCurb ==
  ASSUME RInv, NEW t \in Threads, NEW b \in Batches, b[1] = t \/ bt[b].dirty,
         Emptied(t, bt[b].procs, HasAffinity(b)), pmail'[t] = pmail[t]
  PROVE  CurbOf(t)'
<1>1. ContentOf(b) /\ CurbOf(t)
  BY ContentIs
<1>2. \A p \in ToSet(bt[b].procs) : Home[p] # NULL <=> HasAffinity(b)
  BY OneKind
<1>3. curb'[t].procs = bt[b].procs /\ curb'[t].affine = HasAffinity(b)
  BY DEF Emptied
<1>4. \A p \in ToSet(bt[b].procs) : Home[p] \in {NULL, t}
  BY <1>1 DEF ContentOf
<1> QED
  BY <1>1, <1>2, <1>3, <1>4 DEF ContentOf, CurbOf

(* The memory of other threads is not touched.                              *)
LEMMA Owned ==
  ASSUME RInv, NEW t \in Threads
  PROVE  /\ \A b \in free[t] \cup laundry[t] \cup {pending[t]} : b \in Batches /\ b[1] = t
         /\ \A b \in ToSet(list[t]) \cup ToSet(adds[t]) : b \in Batches /\ b[1] = t
         /\ \A b \in free[t] : bt[b].procs = <<>> /\ ~bt[b].dirty
         /\ \A b \in Washed(t) : b \in laundry[t] /\ ~bt[b].dirty
         /\ ~bt[pending[t]].dirty /\ (~used[t] => bt[pending[t]].procs = <<>>)
<1>1. TypeOK /\ MemoryOf(t) /\ KeepOf(t)
  BY MemoryIs, ContentIs DEF RInv
<1>2. ToSet(list[t]) \subseteq Batches /\ ToSet(adds[t]) \subseteq Batches
  BY <1>1, Types, SetOf
<1> QED
  BY <1>1, <1>2, Types DEF MemoryOf, KeepOf, Washed

LEMMA EmptyOf == ToSet(<<>>) = {}
  BY SetOfEmpty

(* A process about to join the pending batch is not in it.                  *)
LEMMA NotPending ==
  ASSUME RInv, NEW t \in Threads, NEW p \in Procs, p \in asleep \/ p \in pmail[t]
  PROVE  p \notin ToSet(bt[pending[t]].procs)
<1>1. CASE used[t]
  <2>1. pending[t] \in Waiting(t)
    BY <1>1 DEF Waiting
  <2>2. pending[t] \in Batches /\ Settled
    BY Types DEF RInv
  <2>3. p \notin InBatch(t, pending[t])
    BY <2>2, Separate
  <2> QED
    BY <2>1, <2>3 DEF InBatch
<1>2. CASE ~used[t]
  BY <1>2, Owned, EmptyOf
<1> QED
  BY <1>1, <1>2

LEMMA ContentEnqueued ==
  ASSUME RInv, NEW t \in Threads, NEW p \in Procs, Enqueued(t, p), Home[p] \in {NULL, t},
         p \in asleep \/ p \in pmail[t]
  PROVE  /\ \A b \in Batches : ContentOf(b)'
         /\ \A u \in Threads : KeepOf(u)'
<1>0. /\ TypeOK /\ pending[t] \in Batches /\ bt[pending[t]].procs \in Seq(Procs)
      /\ list' = list /\ used' = [used EXCEPT ![t] = TRUE]
      /\ \A c \in Batches : bt'[c].window = bt[c].window /\ bt'[c].dirty = bt[c].dirty
  BY Types DEF RInv, Enqueued
<1>u. used'[t] /\ \A u \in Threads : u # t => used'[u] = used[u]
  BY <1>0, Spaces
<1>1. CASE UNCHANGED <<pending, free, laundry, adds, pc>>
  <2>0. PICK d \in Batches : d = pending[t]
    BY <1>0
  <2> DEFINE q == bt[d].procs
  <2>1. /\ SamePending(t, p) /\ bt'[d].procs = Append(q, p)
        /\ \A c \in Batches : c # d => bt'[c].procs = bt[c].procs
    <3>1. ~\E b \in Batches : pc' = [pc EXCEPT ![t] = "add"] /\ adds' = [adds EXCEPT ![t] = <<pending[t]>>]
              /\ pending' = [pending EXCEPT ![t] = b] /\ b # d
      BY <1>0, <1>1, <2>0, Spaces
    <3>2. \A W \in SUBSET Washed(t) : \A b \in free[t] \cup W : b # d
      BY MemoryIs, WashedOnes, <1>0, <2>0 DEF MemoryOf
    <3> QED
      BY <3>1, <3>2, <1>1, <2>0 DEF Enqueued
  <2>2. p \notin ToSet(q)
    BY <2>0, NotPending
  <2>3. ContentOf(d) /\ d[1] = t /\ ~bt[d].dirty
    BY <1>0, <2>0, ContentIs, Owned
  <2>4. /\ ToSet(Append(q, p)) = ToSet(q) \cup {p} /\ IsInjective(Append(q, p))
    BY <1>0, <2>0, <2>2, <2>3, Appended DEF ContentOf
  <2>5. \A x \in ToSet(q) : Home[x] = NULL <=> Home[p] = NULL
    <3>1. CASE used[t]
      BY <1>0, <2>0, <2>1, <3>1, OneKind DEF SamePending
    <3>2. CASE ~used[t]
      BY <2>0, <3>2, Owned, EmptyOf
    <3> QED
      BY <3>1, <3>2
  <2>6. ContentOf(d)'
    <3>1. /\ bt'[d].dirty = bt[d].dirty /\ IsInjective(bt'[d].procs)
          /\ ToSet(bt'[d].procs) = ToSet(q) \cup {p}
      BY <1>0, <2>1, <2>4
    <3>2. /\ \A x \in ToSet(q) : Home[x] \in {NULL, t}
          /\ \A x, y \in ToSet(q) : Home[x] = NULL => Home[y] = NULL
      BY <2>3 DEF ContentOf
    <3>3. d[1] = t /\ ~bt[d].dirty
      BY <2>3
    <3> HIDE DEF q
    <3>4. /\ \A x \in ToSet(bt'[d].procs) : Home[x] \in {NULL, d[1]}
          /\ \A x, y \in ToSet(bt'[d].procs) : Home[x] = NULL => Home[y] = NULL
          /\ ~bt'[d].dirty
      BY <2>5, <3>1, <3>2, <3>3
    <3> QED
      BY ONLY <3>1, <3>4 DEF ContentOf
  <2>7. ASSUME NEW b \in Batches PROVE ContentOf(b)'
    <3>1. CASE b = d
      BY <2>6, <3>1
    <3>2. CASE b # d
      <4>1. bt'[b].procs = bt[b].procs /\ (bt'[b].dirty => bt[b].dirty)
        BY <1>0, <2>1, <3>2
      <4> QED
        BY <4>1, SameContent
    <3> QED
      BY <3>1, <3>2
  <2>8. ASSUME NEW u \in Threads PROVE KeepOf(u)'
    <3>1. KeepOf(u) /\ MemoryOf(u) /\ free[u] \subseteq Batches /\ pending[u] \in Batches
      BY <1>0, ContentIs, MemoryIs, Types
    <3>2. \A b \in ToSet(list[u]) : b \in Batches
      BY Owned
    <3>3. d \notin free[u] /\ (u # t => d # pending[u])
      <4>1. \A b \in free[u] \cup {pending[u]} : b[1] = u /\ (b # pending[u] \/ b \notin free[u])
        BY <3>1 DEF MemoryOf
      <4>2. pending[u][1] = u
        BY <3>1 DEF MemoryOf
      <4> QED
        BY <2>0, <2>3, <4>1, <4>2
    <3> QED
      BY <1>0, <1>1, <1>u, <2>0, <2>1, <3>1, <3>2, <3>3 DEF KeepOf
  <2> QED
    BY <2>7, <2>8
<1>2. CASE ~UNCHANGED <<pending, free, laundry, adds, pc>>
  <2>1. PICK W \in SUBSET Washed(t), b \in Batches :
          /\ b \in free[t] \cup W
          /\ bt'[b].procs = <<p>>
          /\ \A c \in Batches : c # b => bt'[c].procs = IF c \in W THEN <<>> ELSE bt[c].procs
          /\ pending' = [pending EXCEPT ![t] = b]
          /\ free' = [free EXCEPT ![t] = (free[t] \cup W) \ {b}]
    BY <1>2 DEF Enqueued
  <2>2. /\ pending'[t] = b /\ free'[t] = (free[t] \cup W) \ {b}
        /\ \A u \in Threads : u # t => pending'[u] = pending[u] /\ free'[u] = free[u]
    BY <1>0, <2>1, Spaces
  <2>3. b[1] = t /\ ~bt[b].dirty
    BY <2>1, Owned
  <2>4. ContentOf(b)'
    BY <1>0, <2>1, <2>3, SetOfOne DEF ContentOf
  <2>5. \A c \in Batches : ContentOf(c)'
    BY <1>0, <2>1, <2>4, SameContent
  <2>6. KeepOf(t)'
    <3>1. KeepOf(t) /\ free[t] \subseteq Batches /\ W \subseteq Batches
      BY <1>0, ContentIs, WashedOnes
    <3>2. \A c \in ToSet(list[t]) : c \in Batches
      BY Owned
    <3>3. \A c \in W : ~bt[c].dirty
      BY Owned
    <3> QED
      BY <1>0, <1>u, <2>1, <2>2, <2>3, <3>1, <3>2, <3>3 DEF KeepOf
  <2>7. ASSUME NEW u \in Threads, u # t PROVE KeepOf(u)'
    <3>1. KeepOf(u) /\ MemoryOf(u) /\ free[u] \subseteq Batches /\ pending[u] \in Batches
      BY <1>0, ContentIs, MemoryIs, Types
    <3>2. \A c \in ToSet(list[u]) : c \in Batches
      BY Owned
    <3>3. b \notin free[u] /\ b # pending[u]
      BY <2>3, <2>7, <3>1 DEF MemoryOf
    <3> QED
      BY <1>0, <1>u, <2>1, <2>2, <2>7, <3>1, <3>2, <3>3 DEF KeepOf
  <2> QED
    BY <2>5, <2>6, <2>7
<1> QED
  BY <1>1, <1>2

LEMMA WashedKeep ==
  ASSUME RInv, NEW t \in Threads, NEW W \in SUBSET Washed(t), NEW D \in SUBSET Batches, WashedBut(t, W, D),
         \A b \in D : b[1] = t
  PROVE  /\ \A b \in Batches \ D : ContentOf(b)'
         /\ \A u \in Threads \ {t} : UNCHANGED <<free[u], pending[u], used[u], list[u]>> => KeepOf(u)'
<1>1. /\ \A c \in Batches : bt'[c].window = bt[c].window /\ bt'[c].dirty = bt[c].dirty
      /\ \A c \in Batches \ D : bt'[c].procs = IF c \in W THEN <<>> ELSE bt[c].procs
  BY DEF WashedBut
<1>2. \A b \in Batches \ D : ContentOf(b)'
  BY <1>1, SameContent
<1>3. ASSUME NEW u \in Threads \ {t}, UNCHANGED <<free[u], pending[u], used[u], list[u]>>
      PROVE  KeepOf(u)'
  <2>1. KeepOf(u)
    BY ContentIs
  <2>2. \A b \in free[u] \cup {pending[u]} : b \in Batches \ D
    BY <1>3, Owned
  <2>3. \A b \in ToSet(list[u]) : b \in Batches
    BY Owned
  <2> QED
    BY <1>1, <1>3, <2>1, <2>2, <2>3 DEF KeepOf
<1> QED
  BY <1>2, <1>3

(* Nothing moves but the current batch of t and the list of t gets shorter. *)
LEMMA ContentStays ==
  ASSUME RInv, UNCHANGED <<bt, pending, used, free, pmail>>,
         \A u \in Threads : curb'[u] = curb[u] \/ CurbOf(u)',
         \A u \in Threads : ToSet(list'[u]) \subseteq ToSet(list[u])
  PROVE  Contents'
<1>1. \A b \in Batches : ContentOf(b)'
  BY SameContent
<1>2. ASSUME NEW u \in Threads PROVE KeepOf(u)' /\ CurbOf(u)'
  <2>1. KeepOf(u)
    BY ContentIs
  <2>2. KeepOf(u)'
    BY <2>1 DEF KeepOf
  <2>3. CASE curb'[u] = curb[u]
    BY <2>2, <2>3, SameCurbs
  <2> QED
    BY <2>2, <2>3
<1> QED
  BY <1>1, <1>2, ContentFrom

(* Window numbers and dirty bits.                                           *)
LEMMA MarkedContent ==
  ASSUME RInv, UNCHANGED <<pending, used, free, curb, pmail>>, NEW b, NEW w, NEW d,
         Marked(b, w, d), ~d \/ (b \in Batches /\ \A p \in ToSet(bt[b].procs) : Home[p] = NULL),
         d => w # 0 /\ \A u \in Threads : b \notin free[u] \cup {pending[u]},
         \A u \in Threads : ToSet(list'[u]) \subseteq ToSet(list[u]) \cup ({b} \cap Batches)
  PROVE  Contents'
<1>1. \A c \in Batches : /\ bt'[c].procs = bt[c].procs
                         /\ bt'[c].window = IF c = b THEN w ELSE bt[c].window
                         /\ bt'[c].dirty = IF c = b THEN d ELSE bt[c].dirty
  BY DEF Marked
<1>2. ASSUME NEW c \in Batches PROVE ContentOf(c)'
  <2>1. ContentOf(c)
    BY ContentIs
  <2> QED
    BY <1>1, <2>1 DEF ContentOf
<1>3. ASSUME NEW u \in Threads PROVE KeepOf(u)' /\ CurbOf(u)'
  <2>1. KeepOf(u) /\ free[u] \subseteq Batches /\ pending[u] \in Batches
    BY ContentIs, Types DEF RInv
  <2>2. \A c \in ToSet(list[u]) : c \in Batches
    BY Owned
  <2>3. /\ \A c \in free[u] : bt'[c].procs = <<>> /\ ~bt'[c].dirty
        /\ ~bt'[pending[u]].dirty
        /\ ~used[u] => bt'[pending[u]].procs = <<>>
    BY <1>1, <2>1 DEF KeepOf
  <2>4. ASSUME NEW c \in ToSet(list'[u]), bt'[c].window = 0 PROVE ~bt'[c].dirty
    <3>1. CASE c = b /\ c \in Batches
      BY <1>1, <2>4, <3>1
    <3>2. CASE c # b
      BY <1>1, <2>1, <2>2, <2>4, <3>2 DEF KeepOf
    <3> QED
      BY <2>2, <2>4, <3>1, <3>2
  <2> QED
    BY <2>3, <2>4, SameCurbs DEF KeepOf
<1> QED
  BY <1>2, <1>3, ContentFrom

LEMMA ClearedContent ==
  ASSUME RInv, UNCHANGED <<pending, used, free, curb, pmail>>, NEW b, Marked(b, 0, FALSE),
         \A u \in Threads : ToSet(list'[u]) \subseteq ToSet(list[u]) \cup ({b} \cap Batches)
  PROVE  Contents'
<1> DEFINE d == FALSE
           w == 0
<1>1. Marked(b, w, d) /\ ~d
  OBVIOUS
<1> HIDE DEF d, w
<1>2. d => w # 0 /\ \A u \in Threads : b \notin free[u] \cup {pending[u]}
  BY <1>1
<1>3. ~d \/ (b \in Batches /\ \A p \in ToSet(bt[b].procs) : Home[p] = NULL)
  BY <1>1
<1> QED
  BY <1>1, <1>2, <1>3, MarkedContent

(* What the batches hold.                                                   *)
LEMMA ContentsStep == RInv /\ [Next]_vars => Contents'
<1> SUFFICES ASSUME RInv, [Next]_vars PROVE Contents'
  OBVIOUS
<1>0. CASE UNCHANGED vars
  BY <1>0 DEF RInv, vars, queue, window, env, local, Contents
<1>1. ASSUME NEW t \in Threads, Run(t) PROVE Contents'
  <2>1. CASE \E r \in asleep : /\ Home[r] \in {NULL, t} /\ Enqueued(t, r)
                             /\ CurbBecomes(t, InCurb(t)) /\ UNCHANGED pmail
    <3>1. asleep \subseteq Procs /\ TypeOK
      BY Types DEF RInv
    <3>2. \A u \in Threads : CurbOf(u)'
      BY <2>1, ContentIs DEF CurbOf, CurbBecomes, InCurb
    <3>3. (\A b \in Batches : ContentOf(b)') /\ (\A u \in Threads : KeepOf(u)')
      BY <2>1, <3>1, ContentEnqueued
    <3> QED
      BY <3>2, <3>3, ContentFrom
  <2>2. CASE UNCHANGED <<bt, list, pending, used, free>>
    <3>1. \A u \in Threads : CurbOf(u)
      BY ContentIs
    <3>2. \A u \in Threads : CurbOf(u)'
      <4>1. CASE \E X \in SUBSET InCurb(t) : CurbBecomes(t, X) /\ UNCHANGED pmail
        BY <3>1, <4>1 DEF CurbOf, CurbBecomes, InCurb
      <4>2. CASE \E r \in asleep : /\ Home[r] \in {NULL, t} /\ SameCurb(t, r) /\ UNCHANGED pmail
                                   /\ CurbBecomes(t, InCurb(t) \cup {r})
        <5>1. curb[t].affine \in BOOLEAN
          BY Types DEF RInv
        <5> QED
          BY <3>1, <4>2, <5>1 DEF CurbOf, CurbBecomes, InCurb, SameCurb
      <4>3. CASE \E r \in asleep : /\ Home[r] \notin {NULL, t} /\ CurbBecomes(t, InCurb(t))
                                   /\ pmail' = [pmail EXCEPT ![Home[r]] = pmail[Home[r]] \cup {r}]
        <5>1. pmail \in [Threads -> SUBSET Procs]
          BY Spaces DEF RInv
        <5>2. PICK r \in asleep : /\ CurbBecomes(t, InCurb(t))
                                  /\ pmail' = [pmail EXCEPT ![Home[r]] = pmail[Home[r]] \cup {r}]
          BY <4>3
        <5>3. \A u \in Threads : pmail'[u] \subseteq pmail[u] \cup {p \in {r} : Home[p] = u}
          BY <5>1, <5>2
        <5> QED
          BY <3>1, <5>2, <5>3 DEF CurbOf, CurbBecomes, InCurb
      <4>4. \/ \E X \in SUBSET InCurb(t) : CurbBecomes(t, X) /\ UNCHANGED pmail
            \/ \E r \in asleep : /\ Home[r] \in {NULL, t} /\ SameCurb(t, r) /\ UNCHANGED pmail
                                   /\ CurbBecomes(t, InCurb(t) \cup {r})
            \/ \E r \in asleep : /\ Home[r] \notin {NULL, t} /\ CurbBecomes(t, InCurb(t))
                                   /\ pmail' = [pmail EXCEPT ![Home[r]] = pmail[Home[r]] \cup {r}]
        <5>1. \/ CurbBecomes(t, InCurb(t)) /\ UNCHANGED pmail
              \/ \E p \in InCurb(t) : CurbBecomes(t, InCurb(t) \ {p}) /\ UNCHANGED pmail
              \/ \E r \in asleep : /\ Home[r] \in {NULL, t} /\ SameCurb(t, r) /\ UNCHANGED pmail
                                   /\ CurbBecomes(t, InCurb(t) \cup {r})
              \/ \E r \in asleep : /\ Home[r] \notin {NULL, t} /\ CurbBecomes(t, InCurb(t))
                                   /\ pmail' = [pmail EXCEPT ![Home[r]] = pmail[Home[r]] \cup {r}]
          BY <1>1, RunEffect
        <5>2. InCurb(t) \in SUBSET InCurb(t) /\ \A p : InCurb(t) \ {p} \in SUBSET InCurb(t)
          OBVIOUS
        <5> QED
          BY <5>1, <5>2
      <4> QED
        BY <4>1, <4>2, <4>3, <4>4
    <3>3. \A u \in Threads : KeepOf(u)'
      BY <2>2, ContentIs DEF KeepOf
    <3>4. \A b \in Batches : ContentOf(b)'
      BY <2>2, SameContent
    <3> QED
      BY <3>2, <3>3, <3>4, ContentFrom
  <2> QED
    BY <1>1, <2>1, <2>2, RunEffect
<1>2. ASSUME NEW t \in Threads, TakeMail(t) PROVE Contents'
  <2>1. PICK p \in pmail[t] :
               /\ pmail' = [pmail EXCEPT ![t] = pmail[t] \ {p}]
               /\ \/ /\ SameCurb(t, p)
                     /\ CurbBecomes(t, InCurb(t) \cup {p})
                     /\ UNCHANGED <<bt, list, pending, used, rqstate, free, laundry, pc, adds>>
                  \/ Enqueued(t, p) /\ UNCHANGED curb
    BY <1>2, MailEffect
  <2>2. /\ p \in Procs /\ pmail \in [Threads -> SUBSET Procs] /\ curb[t].affine \in BOOLEAN
        /\ \A u \in Threads : CurbOf(u)
    BY Types, Spaces, ContentIs DEF RInv
  <2>3. Home[p] = t /\ NULL \notin Threads
    BY <2>1, <2>2, HomeAssumption DEF CurbOf
  <2>4. \A u \in Threads : pmail'[u] \subseteq pmail[u]
    BY <2>1, <2>2
  <2>5. \A u \in Threads : CurbOf(u)'
    <3>1. CASE UNCHANGED curb
      BY <2>2, <2>4, <3>1 DEF CurbOf
    <3>2. CASE SameCurb(t, p) /\ CurbBecomes(t, InCurb(t) \cup {p})
      BY <2>2, <2>3, <2>4, <3>2 DEF CurbOf, CurbBecomes, InCurb, SameCurb
    <3> QED
      BY <2>1, <3>1, <3>2
  <2>6. CASE Enqueued(t, p)
    BY <2>2, <2>3, <2>5, <2>6, ContentEnqueued, ContentFrom
  <2>7. CASE UNCHANGED <<bt, list, pending, used, rqstate, free, laundry, pc, adds>>
    <3>1. \A u \in Threads : KeepOf(u)'
      BY <2>7, ContentIs DEF KeepOf
    <3>2. \A b \in Batches : ContentOf(b)'
      BY <2>7, SameContent
    <3> QED
      BY <2>5, <3>1, <3>2, ContentFrom
  <2> QED
    BY <2>1, <2>6, <2>7
<1>3. ASSUME NEW t \in Threads, KeepCurb(t) PROVE Contents'
  <2>1. /\ UNCHANGED <<bt, list, pending, used, free, pmail>>
        /\ curb'[t].procs = curb[t].procs /\ curb'[t].affine = curb[t].affine
        /\ \A u \in Threads : u # t => curb'[u] = curb[u]
    BY <1>3, KeepEffect DEF Emptied
  <2>2. CurbOf(t)'
    <3>1. CurbOf(t)
      BY ContentIs
    <3> QED
      BY <2>1, <3>1 DEF CurbOf
  <2> QED
    BY <2>1, <2>2, ContentStays
<1>4. ASSUME NEW t \in Threads, PushCurb(t) PROVE Contents'
  <2>0. /\ TypeOK /\ CurbOf(t) /\ curb[t].procs \in Seq(Procs) /\ curb[t].procs # <<>>
        /\ Emptied(t, <<>>, curb[t].affine)
        /\ UNCHANGED <<list, pmail>> /\ used' = [used EXCEPT ![t] = TRUE]
        /\ (PushedOne(t) \/ PushedTwo(t))
    BY <1>4, PushEffect, ContentIs, Types DEF RInv
  <2>1. used'[t] /\ \A u \in Threads : u # t => used'[u] = used[u]
    BY <2>0, Spaces
  <2>2. \A u \in Threads : CurbOf(u)'
    BY <2>0, SameCurbs DEF Emptied
  <2>3. /\ \A p \in ToSet(curb[t].procs) : Home[p] \in {NULL, t}
        /\ \A p, q \in ToSet(curb[t].procs) : Home[p] = NULL => Home[q] = NULL
        /\ IsInjective(curb[t].procs)
    BY <2>0 DEF CurbOf
  <2>4. Old(t) \subseteq Batches /\ (\A b \in Old(t) : b[1] = t /\ bt[b].procs = <<>> /\ ~bt[b].dirty)
        /\ (Old(t) # {} => Old(t) = {pending[t]})
    BY <2>0, Owned, Types DEF Old
  <2>5. CASE PushedOne(t)
    <3>1. PICK W \in SUBSET Washed(t), b \in Batches :
            /\ b \in free[t] \cup W /\ WashedBut(t, W, {b})
            /\ bt'[b].procs = curb[t].procs
            /\ pending' = [pending EXCEPT ![t] = b]
            /\ free' = [free EXCEPT ![t] = (free[t] \cup W \cup Old(t)) \ {b}]
      BY <2>5 DEF PushedOne
    <3>2. /\ pending'[t] = b /\ free'[t] = (free[t] \cup W \cup Old(t)) \ {b}
          /\ \A u \in Threads : u # t => pending'[u] = pending[u] /\ free'[u] = free[u]
      BY <2>0, <3>1, Spaces
    <3>3. /\ \A c \in Batches : bt'[c].window = bt[c].window /\ bt'[c].dirty = bt[c].dirty
          /\ \A c \in Batches \ {b} : bt'[c].procs = IF c \in W THEN <<>> ELSE bt[c].procs
      BY <3>1 DEF WashedBut
    <3>4. b[1] = t /\ ~bt[b].dirty
      BY <3>1, Owned
    <3>5. ContentOf(b)'
      BY <2>3, <3>1, <3>3, <3>4 DEF ContentOf
    <3>6. /\ \A c \in Batches \ {b} : ContentOf(c)'
          /\ \A u \in Threads \ {t} : KeepOf(u)'
      BY <2>0, <2>1, <3>1, <3>2, <3>4, WashedKeep, ZenonT(60)
    <3>7. KeepOf(t)'
      <4>1. KeepOf(t) /\ free[t] \subseteq Batches /\ W \subseteq Batches
        BY <2>0, ContentIs, WashedOnes
      <4>2. \A c \in ToSet(list[t]) : c \in Batches
        BY Owned
      <4>3. \A c \in W : ~bt[c].dirty
        BY Owned
      <4>4. \A c \in free'[t] : bt'[c].procs = <<>> /\ ~bt'[c].dirty
        BY <2>4, <3>2, <3>3, <4>1, <4>3 DEF KeepOf
      <4> QED
        BY <2>0, <2>1, <3>1, <3>2, <3>3, <3>4, <4>1, <4>2, <4>4 DEF KeepOf
    <3> QED
      BY <2>2, <3>5, <3>6, <3>7, ContentFrom
  <2>6. CASE PushedTwo(t)
    <3>1. PICK W \in SUBSET Washed(t), b \in Batches, d \in Batches :
            /\ b \in free[t] \cup W /\ d \in (free[t] \cup W \cup Old(t)) \ {b}
            /\ Len(curb[t].procs) > 1 /\ WashedBut(t, W, {b, d})
            /\ bt'[b].procs = <<Head(curb[t].procs)>> /\ bt'[d].procs = Tail(curb[t].procs)
            /\ pending' = [pending EXCEPT ![t] = d]
            /\ free' = [free EXCEPT ![t] = (free[t] \cup W \cup Old(t)) \ {b, d}]
      BY <2>6 DEF PushedTwo
    <3>2. /\ pending'[t] = d /\ free'[t] = (free[t] \cup W \cup Old(t)) \ {b, d}
          /\ \A u \in Threads : u # t => pending'[u] = pending[u] /\ free'[u] = free[u]
      BY <2>0, <3>1, Spaces
    <3>3. /\ \A c \in Batches : bt'[c].window = bt[c].window /\ bt'[c].dirty = bt[c].dirty
          /\ \A c \in Batches \ {b, d} : bt'[c].procs = IF c \in W THEN <<>> ELSE bt[c].procs
      BY <3>1 DEF WashedBut
    <3>4. b[1] = t /\ ~bt[b].dirty /\ d[1] = t /\ ~bt[d].dirty
      BY <2>4, <3>1, Owned
    <3>5. /\ Head(curb[t].procs) \in ToSet(curb[t].procs) /\ IsInjective(Tail(curb[t].procs))
          /\ ToSet(Tail(curb[t].procs)) \subseteq ToSet(curb[t].procs)
      BY <2>0, <2>3, HeadAndTail
    <3>6. ContentOf(b)'
      <4> DEFINE h == Head(curb[t].procs)
      <4>1. ToSet(bt'[b].procs) = {h} /\ IsInjective(bt'[b].procs) /\ h \in ToSet(curb[t].procs)
        BY <3>1, <3>5, SetOfOne
      <4> HIDE DEF h
      <4> QED
        BY <2>3, <3>3, <3>4, <4>1 DEF ContentOf
    <3>7. ContentOf(d)'
      BY <2>3, <3>1, <3>3, <3>4, <3>5 DEF ContentOf
    <3>8. /\ \A c \in Batches \ {b, d} : ContentOf(c)'
          /\ \A u \in Threads \ {t} : KeepOf(u)'
      <4>1. {b, d} \in SUBSET Batches /\ \A c \in {b, d} : c[1] = t
        BY <3>4
      <4> QED
        BY <2>0, <2>1, <3>1, <3>2, <4>1, WashedKeep
    <3>9. KeepOf(t)'
      <4>1. KeepOf(t) /\ free[t] \subseteq Batches /\ W \subseteq Batches
        BY <2>0, ContentIs, WashedOnes
      <4>2. \A c \in ToSet(list[t]) : c \in Batches
        BY Owned
      <4>3. \A c \in W : ~bt[c].dirty
        BY Owned
      <4>4. \A c \in free'[t] : bt'[c].procs = <<>> /\ ~bt'[c].dirty
        BY <2>4, <3>2, <3>3, <4>1, <4>3 DEF KeepOf
      <4> QED
        BY <2>0, <2>1, <3>1, <3>2, <3>3, <3>4, <4>1, <4>2, <4>4 DEF KeepOf
    <3> QED
      BY <2>2, <3>6, <3>7, <3>8, <3>9, ContentFrom
  <2> QED
    BY <2>0, <2>5, <2>6
<1>5. ASSUME NEW t \in Threads, AddAffine(t) PROVE Contents'
  <2>1. /\ pc[t] = "add" /\ Marked(Adding(t), 0, FALSE)
        /\ list' = [list EXCEPT ![t] = Append(list[t], Adding(t))]
        /\ UNCHANGED <<pending, used, free, curb, pmail>>
    BY <1>5, AddAffineEffect
  <2>2. \A u \in Threads : ToSet(list'[u]) \subseteq ToSet(list[u]) \cup {Adding(t)}
    <3>1. TypeOK /\ Adding(t) \in Batches /\ list[t] \in Seq(Batches)
      BY <2>1, AddingIs, Types DEF RInv
    <3>2. ToSet(Append(list[t], Adding(t))) = ToSet(list[t]) \cup {Adding(t)}
      BY <3>1, Appended
    <3>3. /\ list'[t] = Append(list[t], Adding(t))
          /\ \A u \in Threads : u # t => list'[u] = list[u]
      BY <3>1, <2>1, Spaces
    <3> QED
      BY <3>2, <3>3
  <2>3. Adding(t) \in Batches
    BY <2>1, AddingIs
  <2> DEFINE a == Adding(t)
  <2>4. Marked(a, 0, FALSE) /\ \A u \in Threads : ToSet(list'[u]) \subseteq ToSet(list[u]) \cup ({a} \cap Batches)
    BY <2>1, <2>2, <2>3
  <2> HIDE DEF a
  <2> QED
    BY <2>1, <2>4, ClearedContent
<1>6. ASSUME NEW t \in Threads, AddVisible(t) PROVE Contents'
  <2> DEFINE a == Adding(t)
             w == NextWindow(mw[t].head)
  <2>1. /\ pc[t] = "add" /\ ~HasAffinity(a) /\ Marked(a, w, TRUE)
        /\ UNCHANGED <<list, pending, used, free, curb, pmail>>
    BY <1>6, AddVisibleEffect
  <2>2. TypeOK /\ a \in Batches /\ a \in ToSet(adds[t]) /\ a[1] = t /\ w # 0
    BY <2>1, AddingIs, NextSlot, Types DEF RInv
  <2>3. \A p \in ToSet(bt[a].procs) : Home[p] = NULL
    BY <2>1, <2>2, OneKind
  <2>4. \A u \in Threads : a \notin free[u] \cup {pending[u]}
    <3>1. a \notin free[t] \cup {pending[t]}
      BY <2>2, MemoryIs DEF MemoryOf
    <3> QED
      BY <2>2, <3>1, Owned
  <2> HIDE DEF a, w
  <2>5. \A u \in Threads : ToSet(list'[u]) \subseteq ToSet(list[u]) \cup ({a} \cap Batches)
    BY <2>1
  <2> QED
    BY <2>1, <2>2, <2>3, <2>4, <2>5, MarkedContent
<1>7. ASSUME NEW t \in Threads, FillSlot(t) PROVE Contents'
  <2> DEFINE b == slot[t][NextWindow(st[t].head)]
  <2>1. /\ Marked(b, 0, FALSE)
        /\ UNCHANGED <<list, pending, used, free, curb, pmail>>
    BY <1>7, FillEffect
  <2> HIDE DEF b
  <2>2. \A u \in Threads : ToSet(list'[u]) \subseteq ToSet(list[u]) \cup ({b} \cap Batches)
    BY <2>1
  <2> QED
    BY <2>1, <2>2, ClearedContent
<1>8. ASSUME NEW t \in Threads, Publish(t) PROVE Contents'
  <2>1. /\ pc[t] = "publish" /\ list' = [list EXCEPT ![t] = Append(list[t], Adding(t))]
        /\ UNCHANGED <<bt, pending, used, free, curb, pmail>>
    BY <1>8 DEF Publish, At, env
  <2>2. \A u \in Threads : ToSet(list'[u]) \subseteq ToSet(list[u]) \cup {Adding(t)}
    <3>1. TypeOK /\ Adding(t) \in Batches /\ list[t] \in Seq(Batches)
      BY <2>1, AddingIs, Types DEF RInv
    <3>2. ToSet(Append(list[t], Adding(t))) = ToSet(list[t]) \cup {Adding(t)}
      BY <3>1, Appended
    <3>3. /\ list'[t] = Append(list[t], Adding(t))
          /\ \A u \in Threads : u # t => list'[u] = list[u]
      BY <3>1, <2>1, Spaces
    <3> QED
      BY <3>2, <3>3
  <2>3. bt[Adding(t)].window # 0
    BY <2>1 DEF RInv, Slots
  <2>4. \A b \in Batches : ContentOf(b)'
    BY <2>1, SameContent
  <2>5. ASSUME NEW u \in Threads PROVE KeepOf(u)' /\ CurbOf(u)'
    <3>1. KeepOf(u)
      BY ContentIs
    <3>2. CurbOf(u)'
      BY <2>1, SameCurbs
    <3>3. \A b \in ToSet(list'[u]) : b \in ToSet(list[u]) \/ bt[b].window # 0
      BY <2>2, <2>3
    <3>4. KeepOf(u)'
      BY <2>1, <3>1, <3>3 DEF KeepOf
    <3> QED
      BY <3>2, <3>4
  <2> QED
    BY <2>4, <2>5, ContentFrom
<1>9. ASSUME NEW t \in Threads, Advertise(t) PROVE Contents'
  <2>1. UNCHANGED <<bt, list, pending, used, free, pmail, curb>>
    BY <1>9 DEF Advertise, queue, env
  <2> QED
    BY <2>1, ContentStays
<1>10. ASSUME NEW t \in Threads, Pull(t) PROVE Contents'
  <2> DEFINE b == Head(list[t])
  <2>1. /\ b \in Batches /\ b[1] = t /\ b \in ToSet(list[t]) /\ ToSet(Tail(list[t])) = ToSet(list[t]) \ {b}
        /\ list' = [list EXCEPT ![t] = Tail(list[t])] /\ UNCHANGED <<pending, used, pmail>> /\ TypeOK
    BY <1>10, PullEffect DEF RInv
  <2>2. /\ list'[t] = Tail(list[t])
        /\ \A u \in Threads : u # t => list'[u] = list[u]
    BY <2>1, Spaces
  <2>3. \A u \in Threads : ToSet(list'[u]) \subseteq ToSet(list[u])
    BY <2>1, <2>2
  <2>4. CASE UNCHANGED <<bt, free, curb>>
    BY <2>1, <2>3, <2>4, ContentStays
  <2>5. CASE /\ bt[b].window = 0 /\ Emptied(t, bt[b].procs, HasAffinity(b)) /\ Drained(b)
             /\ free' = [free EXCEPT ![t] = free[t] \cup {b}]
    <3>1. PICK d \in Batches : d = b
      BY <2>1
    <3>2. /\ bt'[d].procs = <<>>
          /\ \A c \in Batches : /\ c # d => bt'[c].procs = bt[c].procs
                                /\ bt'[c].window = bt[c].window /\ bt'[c].dirty = bt[c].dirty
      BY <2>5, <3>1 DEF Drained
    <3>3. \A c \in Batches : ContentOf(c)'
      BY <3>2, SameContent
    <3>4. ASSUME NEW u \in Threads PROVE CurbOf(u)'
      <4>1. CASE u = t
        BY <2>1, <2>5, <4>1, LoadedCurb
      <4>2. CASE u # t
        BY <2>1, <2>5, <4>2, SameCurbs DEF Emptied
      <4> QED
        BY <4>1, <4>2
    <3>5. ~bt[d].dirty
      BY <2>1, <2>5, <3>1, ContentIs DEF KeepOf
    <3>6. /\ free'[t] = free[t] \cup {d} /\ \A u \in Threads : u # t => free'[u] = free[u]
      BY <2>1, <2>5, <3>1, Spaces
    <3>7. ASSUME NEW u \in Threads PROVE KeepOf(u)'
      <4>1. KeepOf(u) /\ free[u] \subseteq Batches /\ pending[u] \in Batches
        BY <2>1, ContentIs, Types
      <4>2. \A c \in ToSet(list[u]) : c \in Batches
        BY Owned
      <4>3. free'[u] \subseteq free[u] \cup {d}
        BY <3>6
      <4> QED
        BY <2>1, <2>3, <3>2, <3>5, <4>1, <4>2, <4>3 DEF KeepOf
    <3> QED
      BY <3>3, <3>4, <3>7, ContentFrom
  <2> QED
    BY <1>10, <2>4, <2>5, PullEffect
<1>11. ASSUME NEW t \in Threads, UnmarkRead(t) PROVE Contents'
  <2>1. UNCHANGED <<bt, list, pending, used, free, pmail, curb>>
    BY <1>11 DEF UnmarkRead, queue, env
  <2> QED
    BY <2>1, ContentStays
<1>12. ASSUME NEW t \in Threads, UnmarkWrite(t) PROVE Contents'
  <2>0. PICK b \in Batches : b = hand[t]
    BY <1>12, UnmarkEffect
  <2>1. /\ b[1] = t /\ Emptied(t, bt[b].procs, HasAffinity(b))
        /\ \A c \in Batches : /\ bt'[c].procs = IF c = b THEN <<>> ELSE bt[c].procs
                              /\ bt'[c].window = IF c = b THEN 0 ELSE bt[c].window
                              /\ bt'[c].dirty = IF c = b THEN FALSE ELSE bt[c].dirty
        /\ free' = [free EXCEPT ![t] = free[t] \cup {b}] /\ UNCHANGED <<list, pending, used, pmail>>
    <3>1. /\ hand[t][1] = t /\ Emptied(t, bt[hand[t]].procs, HasAffinity(hand[t]))
          /\ \A c \in Batches : /\ bt'[c].procs = IF c = hand[t] THEN <<>> ELSE bt[c].procs
                                /\ bt'[c].window = IF c = hand[t] THEN 0 ELSE bt[c].window
                                /\ bt'[c].dirty = IF c = hand[t] THEN FALSE ELSE bt[c].dirty
          /\ free' = [free EXCEPT ![t] = free[t] \cup {hand[t]}] /\ UNCHANGED <<list, pending, used, pmail>>
      BY <1>12, UnmarkEffect
    <3> QED
      BY <2>0, <3>1
  <2>2. \A c \in Batches : ContentOf(c)'
    BY <2>1, SameContent
  <2>3. ASSUME NEW u \in Threads PROVE CurbOf(u)'
    <3>1. CASE u = t
      BY <2>1, <3>1, LoadedCurb
    <3>2. CASE u # t
      BY <2>1, <3>2, SameCurbs DEF Emptied
    <3> QED
      BY <3>1, <3>2
  <2>4. free \in [Threads -> SUBSET Batches] /\ TypeOK
    BY Spaces DEF RInv
  <2>5. ASSUME NEW u \in Threads PROVE KeepOf(u)'
    <3>1. KeepOf(u) /\ free[u] \subseteq Batches /\ pending[u] \in Batches
      BY <2>4, ContentIs, Types
    <3>2. \A c \in ToSet(list[u]) : c \in Batches
      BY Owned
    <3>3. free'[u] \subseteq free[u] \cup {b}
      BY <2>1, <2>4
    <3> QED
      BY <2>1, <3>1, <3>2, <3>3 DEF KeepOf
  <2> QED
    BY <2>2, <2>3, <2>5, ContentFrom
<1>13. ASSUME NEW t \in Threads, PullPending(t) PROVE Contents'
  <2>0. PICK d \in Batches : d = pending[t]
    BY Types DEF RInv
  <2>1. /\ TypeOK /\ Emptied(t, bt[d].procs, HasAffinity(d)) /\ PulledPending(t)
        /\ used' = [used EXCEPT ![t] = FALSE] /\ UNCHANGED <<list, pmail>>
    BY <1>13, <2>0, PullPendingEffect DEF RInv
  <2>2. PICK W \in SUBSET Washed(t), b \in Batches :
            /\ b \in free[t] \cup W /\ WashedBut(t, W, {d})
            /\ bt'[d].procs = <<>>
            /\ pending' = [pending EXCEPT ![t] = b]
            /\ free' = [free EXCEPT ![t] = ((free[t] \cup W) \ {b}) \cup {d}]
    BY <2>0, <2>1 DEF PulledPending
  <2>3. /\ pending'[t] = b /\ free'[t] = ((free[t] \cup W) \ {b}) \cup {d}
        /\ ~used'[t]
        /\ \A u \in Threads : u # t => pending'[u] = pending[u] /\ free'[u] = free[u] /\ used'[u] = used[u]
    BY <2>1, <2>2, Spaces
  <2>4. d[1] = t /\ ~bt[d].dirty /\ ~bt[b].dirty
    BY <2>0, <2>2, Owned
  <2>5. /\ \A c \in Batches : bt'[c].window = bt[c].window /\ bt'[c].dirty = bt[c].dirty
        /\ \A c \in Batches \ {d} : bt'[c].procs = IF c \in W THEN <<>> ELSE bt[c].procs
    BY <2>2 DEF WashedBut
  <2>6. \A c \in Batches : ContentOf(c)'
    BY <2>2, <2>5, SameContent
  <2>7. \A u \in Threads \ {t} : KeepOf(u)'
    <3>1. {d} \in SUBSET Batches /\ \A c \in {d} : c[1] = t
      BY <2>4
    <3>2. \A u \in Threads \ {t} : UNCHANGED <<free[u], pending[u], used[u], list[u]>>
      BY <2>1, <2>3
    <3> QED
      BY <2>2, <3>1, <3>2, WashedKeep
  <2>8. KeepOf(t)'
    <3>1. KeepOf(t) /\ free[t] \subseteq Batches /\ W \subseteq Batches
      BY <2>1, ContentIs, WashedOnes
    <3>2. \A c \in ToSet(list[t]) : c \in Batches
      BY Owned
    <3>3. \A c \in W : ~bt[c].dirty
      BY Owned
    <3>4. d \notin free[t] \cup W
      BY <2>0, <2>1, MemoryIs, WashedOnes DEF MemoryOf
    <3>5. bt'[b].procs = <<>>
      BY <2>2, <2>5, <3>1, <3>4 DEF KeepOf
    <3> QED
      BY <2>1, <2>2, <2>3, <2>4, <2>5, <3>1, <3>2, <3>3, <3>5 DEF KeepOf
  <2>9. ASSUME NEW u \in Threads PROVE CurbOf(u)'
    <3>1. CASE u = t
      BY <2>1, <2>4, <3>1, LoadedCurb
    <3>2. CASE u # t
      BY <2>1, <3>2, SameCurbs DEF Emptied
    <3> QED
      BY <3>1, <3>2
  <2> QED
    BY <2>6, <2>7, <2>8, <2>9, ContentFrom
<1>14. ASSUME NEW t \in Threads, PickFails(t) PROVE Contents'
  <2>1. UNCHANGED <<bt, list, pending, used, free, pmail, curb>>
    BY <1>14 DEF PickFails, env
  <2> QED
    BY <2>1, ContentStays
<1>15. ASSUME NEW t \in Threads, ChooseVictim(t) PROVE Contents'
  <2>1. UNCHANGED <<bt, list, pending, used, free, pmail, curb>>
    BY <1>15 DEF ChooseVictim, queue, env
  <2> QED
    BY <2>1, ContentStays
<1>16. ASSUME NEW t \in Threads, Idle(t) PROVE Contents'
  <2>1. /\ TypeOK /\ Emptied(t, <<>>, curb[t].affine) /\ WashedBut(t, Washed(t), {})
        /\ free' = [free EXCEPT ![t] = free[t] \cup Washed(t)]
        /\ UNCHANGED <<list, pending, used, pmail>>
    BY <1>16, IdleEffect DEF RInv
  <2>2. PICK W \in SUBSET Washed(t) : W = Washed(t)
    OBVIOUS
  <2>3. /\ free'[t] = free[t] \cup W
        /\ \A u \in Threads : u # t => free'[u] = free[u]
    BY <2>1, <2>2, Spaces
  <2>4. /\ \A c \in Batches : bt'[c].window = bt[c].window /\ bt'[c].dirty = bt[c].dirty
        /\ \A c \in Batches : bt'[c].procs = IF c \in W THEN <<>> ELSE bt[c].procs
    BY <2>1, <2>2 DEF WashedBut
  <2>5. \A c \in Batches : ContentOf(c)'
    BY <2>4, SameContent
  <2>6. ASSUME NEW u \in Threads PROVE KeepOf(u)' /\ CurbOf(u)'
    <3>1. KeepOf(u) /\ free[u] \subseteq Batches /\ W \subseteq Batches /\ pending[u] \in Batches
      BY <2>1, ContentIs, WashedOnes, Types
    <3>2. \A c \in ToSet(list[u]) : c \in Batches
      BY Owned
    <3>3. \A c \in W : ~bt[c].dirty
      BY Owned
    <3>4. KeepOf(u)'
      BY <2>1, <2>3, <2>4, <3>1, <3>2, <3>3 DEF KeepOf
    <3>5. CurbOf(u)'
      BY <2>1, SameCurbs DEF Emptied
    <3> QED
      BY <3>4, <3>5
  <2> QED
    BY <2>5, <2>6, ContentFrom
<1>17. ASSUME NEW t \in Threads, ReadWindow(t) PROVE Contents'
  <2>1. UNCHANGED <<bt, list, pending, used, free, pmail, curb>>
    BY <1>17 DEF ReadWindow, queue, env
  <2> QED
    BY <2>1, ContentStays
<1>18. ASSUME NEW t \in Threads, ClearBit(t) PROVE Contents'
  <2>1. UNCHANGED <<bt, list, pending, used, free, pmail, curb>>
    BY <1>18 DEF ClearBit, queue, env
  <2> QED
    BY <2>1, ContentStays
<1>19. ASSUME NEW t \in Threads, TakeSlot(t) PROVE Contents'
  <2>1. UNCHANGED <<bt, list, pending, used, free, pmail, curb>>
    BY <1>19 DEF TakeSlot, queue, env
  <2> QED
    BY <2>1, ContentStays
<1>20. ASSUME NEW t \in Threads, CheckWindow(t) PROVE Contents'
  <2>1. UNCHANGED <<bt, list, pending, used, free, pmail, curb>>
    BY <1>20 DEF CheckWindow, queue, env
  <2> QED
    BY <2>1, ContentStays
<1>21. ASSUME NEW t \in Threads, Unadvertise(t) PROVE Contents'
  <2>1. UNCHANGED <<bt, list, pending, used, free, pmail, curb>>
    BY <1>21 DEF Unadvertise, queue, env
  <2> QED
    BY <2>1, ContentStays
<1>22. ASSUME NEW t \in Threads, Copy(t) PROVE Contents'
  <2>1. /\ pc[t] = "copy" /\ hand[t] \in Batches /\ Emptied(t, bt[hand[t]].procs, HasAffinity(hand[t]))
        /\ UNCHANGED <<bt, list, pending, used, free, pmail>>
    BY <1>22, CopyEffect
  <2>2. bt[hand[t]].dirty
    BY <2>1, NullAssumption DEF RInv, Hands, Stealing
  <2>3. CurbOf(t)'
    BY <2>1, <2>2, LoadedCurb
  <2> QED
    BY <2>1, <2>3, ContentStays DEF Emptied
<1>23. ASSUME NEW t \in Threads, MarkClean(t) PROVE Contents'
  <2>1. /\ hand[t] \in Batches /\ TypeOK
        /\ \A c \in Batches : /\ bt'[c].procs = IF c = hand[t] THEN <<>> ELSE bt[c].procs
                              /\ bt'[c].window = bt[c].window
                              /\ bt'[c].dirty = IF c = hand[t] THEN FALSE ELSE bt[c].dirty
        /\ UNCHANGED <<list, pending, used, free, curb, pmail>>
    BY <1>23, CleanEffect DEF RInv
  <2>2. \A c \in Batches : ContentOf(c)'
    BY <2>1, SameContent
  <2>3. ASSUME NEW u \in Threads PROVE KeepOf(u)' /\ CurbOf(u)'
    <3>1. KeepOf(u) /\ free[u] \subseteq Batches /\ pending[u] \in Batches
      BY <2>1, ContentIs, Types
    <3>2. \A c \in ToSet(list[u]) : c \in Batches
      BY Owned
    <3>3. KeepOf(u)'
      BY <2>1, <3>1, <3>2 DEF KeepOf
    <3> QED
      BY <2>1, <3>3, SameCurbs
  <2> QED
    BY <2>2, <2>3, ContentFrom
<1> QED
  BY <1>0, <1>1, <1>2, <1>3, <1>4, <1>5, <1>6, <1>7, <1>8, <1>9, <1>10, <1>11,
     <1>12, <1>13, <1>14, <1>15, <1>16, <1>17, <1>18, <1>19, <1>20, <1>21, <1>22, <1>23
     DEF Next, Scheduler

(* A slot of a window, a batch on its way into one, and a batch in hand.    *)
SlotOf(t, w) ==
    LET b == slot[t][w] IN
    b # NULL => /\ b[1] = t /\ Listed(b) /\ bt[b].window = w /\ bt[b].dirty
                /\ \A u \in Threads : hand[u] # b
MarkOf(t) ==
    /\ pc[t] = "slot" => bt[Adding(t)].window = NextWindow(st[t].head) /\ bt[Adding(t)].dirty
    /\ pc[t] \in {"publish", "advertise"} => bt[Adding(t)].window # 0
HandOf(u) ==
    Stealing(u) /\ hand[u] # NULL =>
        /\ bt[hand[u]].dirty /\ bt[hand[u]].window # 0
        /\ Listed(hand[u]) \/ hand[u] \in laundry[hand[u][1]]

LEMMA SlotIs ==
  ASSUME RInv
  PROVE  /\ \A t \in Threads, w \in Windows : SlotOf(t, w)
         /\ \A t \in Threads : MarkOf(t) /\ HandOf(t)
         /\ \A u, v \in Threads : hand[u] # NULL /\ hand[u] = hand[v] => u = v
  BY DEF RInv, Slots, Hands, SlotOf, MarkOf, HandOf

(* A batch in its slot, one somebody has taken, and one still to be added.  *)
LEMMA Slotted ==
  ASSUME RInv, NEW b \in Batches, InSlot(b)
  PROVE  /\ b[1] \in Threads /\ bt[b].window \in Windows /\ Listed(b) /\ bt[b].dirty
         /\ \A u \in Threads : hand[u] # b
<1>1. b[1] \in Threads /\ bt[b].window \in 0..MWINDOW_SIZE
  BY Types DEF RInv
<1>2. bt[b].window \in Windows /\ slot[b[1]][bt[b].window] = b
  BY <1>1 DEF InSlot, Windows
<1>3. SlotOf(b[1], bt[b].window)
  BY <1>1, <1>2, SlotIs
<1> QED
  BY <1>1, <1>2, <1>3, NullAssumption DEF SlotOf

LEMMA ListedIs ==
  ASSUME RInv, NEW b \in Batches, Listed(b)
  PROVE  /\ b[1] \in Threads
         /\ \/ b \in ToSet(list[b[1]]) \/ (pc[b[1]] = "publish" /\ b = Adding(b[1]))
         /\ \A u \in Threads : b \notin free[u] \cup laundry[u] \cup {pending[u]}
         /\ \A u \in Threads : pc[u] \in {"add", "slot"} => b # Adding(u)
<1>1. b[1] \in Threads /\ MemoryOf(b[1])
  BY MemoryIs, Types DEF RInv
<1>2. pc[b[1]] \in {"add", "slot", "publish", "advertise"} => /\ Adding(b[1]) \in ToSet(adds[b[1]])
  BY <1>1, AddingIs
<1>3. b \notin free[b[1]] \cup laundry[b[1]] \cup {pending[b[1]]}
  BY <1>1, <1>2 DEF MemoryOf, Listed
<1>4. ASSUME NEW u \in Threads, pc[u] \in {"add", "slot"}, b = Adding(u) PROVE FALSE
  <2>1. b[1] = u /\ Adding(u) \in ToSet(adds[u])
    BY <1>4, AddingIs
  <2>2. b \in ToSet(list[u])
    BY <1>4, <2>1 DEF Listed
  <2> QED
    BY <1>1, <1>4, <2>1, <2>2 DEF MemoryOf
<1> QED
  BY <1>1, <1>3, <1>4, Owned DEF Listed

LEMMA Taken ==
  ASSUME RInv, NEW u \in Threads, NEW b \in Batches, hand[u] = b
  PROVE  /\ ~InSlot(b)
         /\ \A v \in Threads : pc[v] \in {"add", "slot"} => b # Adding(v)
         /\ Owning(u) => b[1] = u
         /\ Stealing(u) => /\ bt[b].dirty /\ bt[b].window # 0
                           /\ Listed(b) \/ b \in laundry[b[1]]
         /\ \A v \in Threads : hand[v] = b => v = u
         /\ b # NULL /\ (Owning(u) \/ Stealing(u))
<1>1. b # NULL /\ HandOf(u) /\ MemoryOf(u) /\ StageOf(u)
  BY SlotIs, MemoryIs, StageIs, NullAssumption
<1>2. Owning(u) \/ Stealing(u)
  BY <1>1 DEF StageOf
<1>3. ASSUME NEW v \in Threads, pc[v] \in {"add", "slot"}, b = Adding(v) PROVE FALSE
  <2>1. b[1] = v /\ b \in ToSet(adds[v]) /\ MemoryOf(v)
    BY <1>3, AddingIs, MemoryIs
  <2>2. CASE Owning(u)
    BY <1>1, <1>3, <2>1, <2>2 DEF MemoryOf, Owning
  <2>3. CASE Stealing(u)
    BY <1>1, <1>3, <2>1, <2>3, ListedIs DEF MemoryOf, HandOf
  <2> QED
    BY <1>2, <2>2, <2>3
<1> QED
  BY <1>1, <1>2, <1>3, Slotted, SlotIs DEF HandOf, MemoryOf

LEMMA SlotsFrom ==
  ASSUME RInv,
         \A u \in Threads, w \in Windows : slot'[u][w] = slot[u][w] \/ slot'[u][w] = NULL \/ SlotOf(u, w)',
         \A b \in Batches : InSlot(b) /\ slot'[b[1]][bt[b].window] = b =>
             /\ bt'[b].window = bt[b].window /\ bt'[b].dirty /\ Listed(b)'
             /\ \A u \in Threads : hand'[u] # b,
         \A u \in Threads : MarkOf(u)'
  PROVE  Slots'
<1>1. ASSUME NEW u \in Threads, NEW w \in Windows PROVE SlotOf(u, w)'
  <2>1. CASE slot'[u][w] = NULL
    BY <2>1 DEF SlotOf
  <2>2. CASE slot'[u][w] = slot[u][w] /\ slot[u][w] # NULL
    <3>1. PICK b \in Batches : b = slot[u][w]
      BY <2>2, Types DEF RInv
    <3>2. b[1] = u /\ bt[b].window = w /\ b # NULL
      BY <2>2, <3>1, SlotIs DEF SlotOf
    <3>3. w # 0
      BY SizesAssumption DEF Windows
    <3>4. InSlot(b) /\ slot'[b[1]][bt[b].window] = b
      BY <2>2, <3>1, <3>2, <3>3 DEF InSlot
    <3>5. /\ bt'[b].window = w /\ bt'[b].dirty /\ Listed(b)'
          /\ \A v \in Threads : hand'[v] # b
      BY <3>2, <3>4
    <3>6. slot'[u][w] = b
      BY <2>2, <3>1
    <3> QED
      BY <3>2, <3>5, <3>6 DEF SlotOf, Listed, Adding
  <2> QED
    BY <2>1, <2>2
<1> QED
  BY <1>1 DEF Slots, SlotOf, MarkOf

LEMMA HandsFrom ==
  ASSUME RInv, NEW t \in Threads,
         \A u \in Threads : u # t => hand'[u] = hand[u] /\ pc'[u] = pc[u],
         HandOf(t)', hand'[t] = NULL \/ \A u \in Threads : u # t => hand[u] # hand'[t],
         \A u \in Threads \ {t}, b \in Batches : Stealing(u) /\ hand[u] = b =>
             /\ bt'[b].dirty /\ bt'[b].window # 0
             /\ Listed(b)' \/ b \in laundry'[b[1]]
  PROVE  Hands'
<1>1. ASSUME NEW u \in Threads PROVE HandOf(u)'
  <2>1. CASE u = t
    BY <2>1
  <2>2. CASE u # t /\ hand[u] # NULL /\ Stealing(u)
    <3>1. PICK b \in Batches : b = hand[u]
      BY <2>2, Types DEF RInv
    <3>2. /\ bt'[b].dirty /\ bt'[b].window # 0
          /\ Listed(b)' \/ b \in laundry'[b[1]]
      BY <2>2, <3>1
    <3>3. hand'[u] = b
      BY <2>2, <3>1
    <3> QED
      BY <3>2, <3>3 DEF HandOf, Listed, Adding
  <2>3. CASE u # t /\ (hand[u] = NULL \/ ~Stealing(u))
    BY <2>3 DEF HandOf, Stealing
  <2> QED
    BY <2>1, <2>2, <2>3
<1>2. \A u, v \in Threads : hand'[u] # NULL /\ hand'[u] = hand'[v] => u = v
  BY SlotIs
<1> QED
  BY <1>1, <1>2 DEF Hands, HandOf

(* A batch stays listed, or in the laundry, as long as it is dirty.         *)
LEMMA ListedStays ==
  ASSUME RInv, NEW t \in Threads, NEW b \in Batches, Listed(b),
         \A u \in Threads : u # t => pc'[u] = pc[u] /\ adds'[u] = adds[u],
         pc[t] # "publish", b \in ToSet(list[b[1]]) => b \in ToSet(list'[b[1]])
  PROVE  Listed(b)'
<1>1. b[1] \in Threads
  BY Types DEF RInv
<1> QED
  BY <1>1 DEF Listed, Adding

(* Steps that leave windows, lists and what others do alone.                *)
Calm(t) ==
    /\ \A b \in Batches : bt'[b].window = bt[b].window /\ bt'[b].dirty = bt[b].dirty
    /\ UNCHANGED <<slot, list>>
    /\ \A u \in Threads : u # t => pc'[u] = pc[u] /\ adds'[u] = adds[u] /\ st'[u] = st[u] /\ hand'[u] = hand[u]
    /\ hand'[t] = hand[t] /\ pc[t] # "publish" /\ pc'[t] \notin {"slot", "publish", "advertise"}
    /\ hand[t] # NULL /\ Stealing(t)' => Stealing(t)
    /\ \A u \in Threads : \A b \in laundry[u] : bt[b].dirty => b \in laundry'[u]

LEMMA CalmStep ==
  ASSUME RInv, NEW t \in Threads, Calm(t)
  PROVE  Slots' /\ Hands'
<1>1. /\ \A b \in Batches : bt'[b].window = bt[b].window /\ bt'[b].dirty = bt[b].dirty
      /\ UNCHANGED <<slot, list>>
      /\ \A u \in Threads : u # t => pc'[u] = pc[u] /\ adds'[u] = adds[u] /\ st'[u] = st[u] /\ hand'[u] = hand[u]
      /\ hand'[t] = hand[t] /\ pc[t] # "publish" /\ pc'[t] \notin {"slot", "publish", "advertise"}
      /\ hand[t] # NULL /\ Stealing(t)' => Stealing(t)
      /\ \A u \in Threads : \A b \in laundry[u] : bt[b].dirty => b \in laundry'[u]
  BY DEF Calm
<1>2. ASSUME NEW b \in Batches, Listed(b) PROVE Listed(b)'
  BY <1>1, <1>2, ListedStays
<1>3. ASSUME NEW b \in Batches, InSlot(b)
      PROVE  /\ bt'[b].window = bt[b].window /\ bt'[b].dirty /\ Listed(b)'
             /\ \A u \in Threads : hand'[u] # b
  BY <1>1, <1>2, <1>3, Slotted
<1>4. ASSUME NEW u \in Threads PROVE MarkOf(u)'
  <2>1. CASE u = t
    BY <1>1, <2>1 DEF MarkOf
  <2>2. CASE u # t /\ pc[u] \in {"slot", "publish", "advertise"}
    <3>1. Adding(u) \in Batches /\ MarkOf(u)
      BY <2>2, AddingIs, SlotIs
    <3>2. /\ Adding(u)' = Adding(u) /\ pc'[u] = pc[u] /\ st'[u] = st[u]
      BY <1>1, <2>2 DEF Adding
    <3> QED
      BY <1>1, <3>1, <3>2 DEF MarkOf
  <2>3. CASE u # t /\ pc[u] \notin {"slot", "publish", "advertise"}
    BY <1>1, <2>3 DEF MarkOf
  <2> QED
    BY <2>1, <2>2, <2>3
<1>5. Slots'
  BY <1>1, <1>3, <1>4, SlotsFrom
<1>6. ASSUME NEW u \in Threads, NEW b \in Batches, Stealing(u), hand[u] = b
      PROVE  /\ bt'[b].dirty /\ bt'[b].window # 0
             /\ Listed(b)' \/ b \in laundry'[b[1]]
  <2>1. b[1] \in Threads /\ bt[b].dirty /\ bt[b].window # 0 /\ (Listed(b) \/ b \in laundry[b[1]])
    BY <1>6, Taken, Types DEF RInv
  <2> QED
    BY <1>1, <1>2, <2>1
<1>7. HandOf(t)'
  <2>1. CASE hand[t] # NULL /\ Stealing(t)
    <3>1. PICK b \in Batches : b = hand[t]
      BY <2>1, Types DEF RInv
    <3>2. bt'[b].dirty /\ bt'[b].window # 0 /\ (Listed(b)' \/ b \in laundry'[b[1]])
      BY <1>6, <2>1, <3>1
    <3>3. hand'[t] = b
      BY <1>1, <3>1
    <3> QED
      BY <3>2, <3>3 DEF HandOf, Listed, Adding
  <2>2. CASE hand[t] = NULL \/ ~Stealing(t)
    BY <1>1, <2>2 DEF HandOf
  <2> QED
    BY <2>1, <2>2
<1>8. hand'[t] = NULL \/ \A u \in Threads : u # t => hand[u] # hand'[t]
  BY <1>1, SlotIs
<1>9. Hands'
  BY <1>1, <1>6, <1>7, <1>8, HandsFrom
<1> QED
  BY <1>5, <1>9

(* What enqueue_process, push_curb and the laundry do to other threads.     *)
LEMMA CalmEnqueued ==
  ASSUME RInv, NEW t \in Threads, NEW p, Enqueued(t, p), pc[t] = "run",
         UNCHANGED <<slot, st, hand>>
  PROVE  Calm(t)
<1>1. \A c \in Batches : bt'[c].window = bt[c].window /\ bt'[c].dirty = bt[c].dirty
  BY DEF Enqueued
<1>2. /\ pc \in [Threads -> Labels] /\ adds \in [Threads -> Seq(Batches)] /\ list' = list
      /\ laundry \in [Threads -> SUBSET Batches]
  BY Spaces DEF RInv, Enqueued
<1>3. \/ laundry' = laundry /\ adds' = adds /\ pc' = pc
      \/ \E W \in SUBSET Washed(t) :
            /\ laundry' = [laundry EXCEPT ![t] = laundry[t] \ W]
            /\ adds' = [adds EXCEPT ![t] = <<pending[t]>>] /\ pc' = [pc EXCEPT ![t] = "add"]
  BY DEF Enqueued
<1>4. /\ \A u \in Threads : u # t => pc'[u] = pc[u] /\ adds'[u] = adds[u]
      /\ pc'[t] \in {"run", "add"}
      /\ \A u \in Threads : \A b \in laundry[u] : bt[b].dirty => b \in laundry'[u]
  BY <1>2, <1>3 DEF Washed
<1> QED
  BY <1>1, <1>2, <1>4 DEF Calm, Stealing

LEMMA CalmWashed ==
  ASSUME RInv, NEW t \in Threads, NEW W \in SUBSET Washed(t), NEW D \in SUBSET Batches, WashedBut(t, W, D),
         pc[t] # "publish", NEW l \in {"run", "add", "pick"}, pc' = [pc EXCEPT ![t] = l],
         \A u \in Threads : u # t => adds'[u] = adds[u], UNCHANGED <<list, slot, st, hand>>
  PROVE  Calm(t)
<1>1. \A c \in Batches : bt'[c].window = bt[c].window /\ bt'[c].dirty = bt[c].dirty
  BY DEF WashedBut
<1>2. pc \in [Threads -> Labels] /\ laundry \in [Threads -> SUBSET Batches]
  BY Spaces DEF RInv
<1>3. \A u \in Threads : \A b \in laundry[u] : bt[b].dirty => b \in laundry'[u]
  BY <1>2 DEF Washed, WashedBut
<1>4. pc'[t] = l /\ \A u \in Threads : u # t => pc'[u] = pc[u]
  BY <1>2
<1> QED
  BY <1>1, <1>3, <1>4 DEF Calm, Stealing

(* A batch that changes its window: it is in no slot and nobody took it.    *)
LEMMA Unseen ==
  ASSUME RInv, NEW t \in Threads, pc[t] \in {"add", "slot"}
  PROVE  /\ Adding(t) \in Batches /\ Adding(t)[1] = t
         /\ ~InSlot(Adding(t)) /\ \A u \in Threads : hand[u] # Adding(t)
<1>1. Adding(t) \in Batches /\ Adding(t)[1] = t
  BY AddingIs
<1> QED
  BY <1>1, Slotted, ListedIs, Taken

LEMMA MarkStays ==
  ASSUME RInv, NEW u \in Threads, pc'[u] = pc[u], adds'[u] = adds[u], st'[u] = st[u],
         pc[u] \in {"slot", "publish", "advertise"} =>
            /\ bt'[Adding(u)].window = bt[Adding(u)].window
            /\ pc[u] = "slot" => bt'[Adding(u)].dirty = bt[Adding(u)].dirty
  PROVE  MarkOf(u)'
<1>1. MarkOf(u) /\ Adding(u)' = Adding(u)
  BY SlotIs DEF Adding
<1> QED
  BY <1>1 DEF MarkOf
(* What the slots of the windows and the hands hold.                        *)
LEMMA HandoverStep == RInv /\ [Next]_vars => (Slots /\ Hands)'
<1> SUFFICES ASSUME RInv, [Next]_vars PROVE (Slots /\ Hands)'
  OBVIOUS
<1>0. CASE UNCHANGED vars
  BY <1>0 DEF RInv, vars, queue, window, env, local
     , Slots, Hands, SlotOf, HandOf, MarkOf, Listed, Adding, Stealing
<1>1. ASSUME NEW t \in Threads, Run(t) PROVE (Slots /\ Hands)'
  <2>1. pc[t] = "run" /\ UNCHANGED <<slot, st, hand>>
    BY <1>1, RunEffect
  <2>2. \/ UNCHANGED <<bt, list, laundry, pc, adds>> \/ \E p \in asleep : Enqueued(t, p)
    BY <1>1, RunEffect
  <2>3. CASE UNCHANGED <<bt, list, laundry, pc, adds>>
    BY <2>1, <2>3, CalmStep DEF Calm, Stealing
  <2>4. CASE \E p \in asleep : Enqueued(t, p)
    BY <2>1, <2>4, CalmEnqueued, CalmStep
  <2> QED
    BY <2>2, <2>3, <2>4
<1>2. ASSUME NEW t \in Threads, TakeMail(t) PROVE (Slots /\ Hands)'
  <2>1. pc[t] = "run" /\ UNCHANGED <<slot, st, hand>>
    BY <1>2, MailEffect
  <2>2. \/ UNCHANGED <<bt, list, laundry, pc, adds>> \/ \E p \in pmail[t] : Enqueued(t, p)
    BY <1>2, MailEffect
  <2>3. CASE UNCHANGED <<bt, list, laundry, pc, adds>>
    BY <2>1, <2>3, CalmStep DEF Calm, Stealing
  <2>4. CASE \E p \in pmail[t] : Enqueued(t, p)
    BY <2>1, <2>4, CalmEnqueued, CalmStep
  <2> QED
    BY <2>2, <2>3, <2>4
<1>3. ASSUME NEW t \in Threads, KeepCurb(t) PROVE (Slots /\ Hands)'
  <2>1. pc[t] = "run" /\ UNCHANGED <<bt, list, laundry, slot, pc, adds, st, hand>>
    BY <1>3, KeepEffect
  <2> QED
    BY <2>1, CalmStep DEF Calm, Stealing
<1>4. ASSUME NEW t \in Threads, PushCurb(t) PROVE (Slots /\ Hands)'
  <2>1. /\ pc[t] = "run" /\ UNCHANGED <<list, slot, st, hand>>
        /\ (PushedOne(t) \/ PushedTwo(t))
    BY <1>4, PushEffect
  <2>2. adds \in [Threads -> Seq(Batches)] /\ pc \in [Threads -> Labels]
    BY Spaces DEF RInv
  <2>3. \E W \in SUBSET Washed(t), D \in SUBSET Batches, l \in {"add", "pick"} :
           /\ WashedBut(t, W, D) /\ pc' = [pc EXCEPT ![t] = l]
           /\ \A u \in Threads : u # t => adds'[u] = adds[u]
    <3>1. CASE PushedOne(t)
      <4>1. PICK W \in SUBSET Washed(t), b \in Batches :
              /\ WashedBut(t, W, {b})
              /\ adds' = [adds EXCEPT ![t] = OldAdds(t)]
              /\ pc' = [pc EXCEPT ![t] = IF used[t] THEN "add" ELSE "pick"]
        BY <3>1 DEF PushedOne
      <4>2. {b} \in SUBSET Batches /\ \A u \in Threads : u # t => adds'[u] = adds[u]
        BY <2>2, <4>1
      <4>3. PICK l \in {"add", "pick"} : l = IF used[t] THEN "add" ELSE "pick"
        OBVIOUS
      <4> QED
        BY <4>1, <4>2, <4>3
    <3>2. CASE PushedTwo(t)
      <4>1. PICK W \in SUBSET Washed(t), b \in Batches, d \in Batches :
              /\ WashedBut(t, W, {b, d})
              /\ adds' = [adds EXCEPT ![t] = OldAdds(t) \o <<b>>]
              /\ pc' = [pc EXCEPT ![t] = "add"]
        BY <3>2 DEF PushedTwo
      <4>2. {b, d} \in SUBSET Batches /\ \A u \in Threads : u # t => adds'[u] = adds[u]
        BY <2>2, <4>1
      <4> QED
        BY <4>1, <4>2
    <3> QED
      BY <2>1, <3>1, <3>2
  <2> QED
    BY <2>1, <2>3, CalmWashed, CalmStep
<1>5. ASSUME NEW t \in Threads, AddAffine(t) PROVE (Slots /\ Hands)'
  <2>1. /\ pc[t] = "add" /\ Marked(Adding(t), 0, FALSE) /\ Added(t)
        /\ list' = [list EXCEPT ![t] = Append(list[t], Adding(t))]
        /\ UNCHANGED <<laundry, slot, st, hand>>
    BY <1>5, AddAffineEffect
  <2>2. /\ pc'[t] \in {"add", "pick", "run"}
        /\ \A u \in Threads : u # t => pc'[u] = pc[u] /\ adds'[u] = adds[u]
    BY <2>1, AddedStage
  <2>3. \A u \in Threads : ToSet(list[u]) \subseteq ToSet(list'[u])
    <3>1. TypeOK /\ Adding(t) \in Batches /\ list[t] \in Seq(Batches)
      BY <2>1, AddingIs, Types DEF RInv
    <3>2. ToSet(Append(list[t], Adding(t))) = ToSet(list[t]) \cup {Adding(t)}
      BY <3>1, Appended
    <3>3. /\ list'[t] = Append(list[t], Adding(t))
          /\ \A u \in Threads : u # t => list'[u] = list[u]
      BY <3>1, <2>1, Spaces
    <3> QED
      BY <3>2, <3>3
  <2>4. PICK a \in Batches : a = Adding(t)
    BY <2>1, AddingIs
  <2>5. a[1] = t /\ ~InSlot(a) /\ \A u \in Threads : hand[u] # a
    BY <2>1, <2>4, Unseen
  <2>6. \A c \in Batches : c # a => bt'[c].window = bt[c].window /\ bt'[c].dirty = bt[c].dirty
    BY <2>1, <2>4 DEF Marked
  <2>7. ASSUME NEW b \in Batches, Listed(b) PROVE Listed(b)'
    BY <2>1, <2>2, <2>3, <2>7, ListedStays, Types DEF RInv
  <2>8. Slots'
    <3>1. ASSUME NEW u \in Threads PROVE MarkOf(u)'
      <4>1. CASE u = t
        BY <2>2, <4>1 DEF MarkOf
      <4>2. CASE u # t
        BY <2>1, <2>2, <2>5, <2>6, <4>2, MarkStays, AddingIs
      <4> QED
        BY <4>1, <4>2
    <3> QED
      BY <2>1, <2>5, <2>6, <2>7, <3>1, Slotted, SlotsFrom
  <2>9. Hands'
    <3>1. HandOf(t)'
      BY <2>2 DEF HandOf, Stealing
    <3>2. ASSUME NEW u \in Threads, NEW b \in Batches, Stealing(u), hand[u] = b
          PROVE  bt'[b].dirty /\ bt'[b].window # 0 /\ (Listed(b)' \/ b \in laundry'[b[1]])
      BY <2>1, <2>5, <2>6, <2>7, <3>2, Taken
    <3> QED
      BY <2>1, <2>2, <3>1, <3>2, SlotIs, HandsFrom
  <2> QED
    BY <2>8, <2>9
<1>6. ASSUME NEW t \in Threads, AddVisible(t) PROVE (Slots /\ Hands)'
  <2>1. /\ pc[t] = "add" /\ Marked(Adding(t), NextWindow(mw[t].head), TRUE)
        /\ st' = [st EXCEPT ![t] = mw[t]] /\ pc' = [pc EXCEPT ![t] = "slot"]
        /\ UNCHANGED <<list, adds, laundry, slot, hand>>
    BY <1>6, AddVisibleEffect
  <2>2. /\ pc'[t] = "slot" /\ st'[t] = mw[t]
        /\ \A u \in Threads : u # t => pc'[u] = pc[u] /\ adds'[u] = adds[u] /\ st'[u] = st[u]
    BY <2>1, Spaces DEF RInv
  <2>4. PICK a \in Batches : a = Adding(t)
    BY <2>1, AddingIs
  <2>5. a[1] = t /\ ~InSlot(a) /\ \A u \in Threads : hand[u] # a
    BY <2>1, <2>4, Unseen
  <2>6. /\ \A c \in Batches : c # a => bt'[c].window = bt[c].window /\ bt'[c].dirty = bt[c].dirty
        /\ bt'[a].window = NextWindow(mw[t].head) /\ bt'[a].dirty
    BY <2>1, <2>4 DEF Marked
  <2>7. ASSUME NEW b \in Batches, Listed(b) PROVE Listed(b)'
    BY <2>1, <2>2, <2>7, ListedStays
  <2>8. Slots'
    <3>1. ASSUME NEW u \in Threads PROVE MarkOf(u)'
      <4>1. CASE u = t
        <5>1. Adding(t)' = a
          BY <2>1, <2>4 DEF Adding
        <5> QED
          BY <2>2, <2>6, <4>1, <5>1 DEF MarkOf
      <4>2. CASE u # t
        BY <2>1, <2>2, <2>5, <2>6, <4>2, MarkStays, AddingIs
      <4> QED
        BY <4>1, <4>2
    <3> QED
      BY <2>1, <2>5, <2>6, <2>7, <3>1, Slotted, SlotsFrom
  <2>9. Hands'
    <3>1. HandOf(t)'
      BY <2>2 DEF HandOf, Stealing
    <3>2. ASSUME NEW u \in Threads, NEW b \in Batches, Stealing(u), hand[u] = b
          PROVE  bt'[b].dirty /\ bt'[b].window # 0 /\ (Listed(b)' \/ b \in laundry'[b[1]])
      BY <2>1, <2>5, <2>6, <2>7, <3>2, Taken
    <3> QED
      BY <2>1, <2>2, <3>1, <3>2, SlotIs, HandsFrom
  <2> QED
    BY <2>8, <2>9
<1>7. ASSUME NEW t \in Threads, FillSlot(t) PROVE (Slots /\ Hands)'
  <2>0. PICK w \in Windows : w = NextWindow(st[t].head)
    BY <1>7, FillEffect
  <2>x. PICK o \in Batches \cup {NULL} : o = slot[t][w]
    BY Types DEF RInv
  <2>1. /\ pc[t] = "slot" /\ Marked(o, 0, FALSE)
        /\ slot' = [slot EXCEPT ![t][w] = Adding(t)] /\ pc' = [pc EXCEPT ![t] = "publish"]
        /\ UNCHANGED <<list, laundry, adds, st, hand>>
    BY <1>7, <2>0, <2>x, FillEffect
  <2>2. /\ pc'[t] = "publish" /\ \A u \in Threads : u # t => pc'[u] = pc[u]
        /\ slot \in [Threads -> [Windows -> Batches \cup {NULL}]]
    BY <2>1, Spaces DEF RInv
  <2>3. PICK a \in Batches : a = Adding(t)
    BY <2>1, AddingIs
  <2>4. a[1] = t /\ ~InSlot(a) /\ \A u \in Threads : hand[u] # a
    BY <2>1, <2>3, Unseen
  <2>5. SlotOf(t, w) /\ MarkOf(t)
    BY <2>1, SlotIs
  <2>6. a # o /\ bt[a].window = w /\ bt[a].dirty /\ w # 0
    BY <2>0, <2>x, <2>1, <2>3, <2>4, <2>5, NullAssumption, SizesAssumption DEF SlotOf, MarkOf, InSlot, Windows
  <2>7. /\ slot'[t][w] = a /\ \A v \in Windows : v # w => slot'[t][v] = slot[t][v]
        /\ \A u \in Threads : u # t => slot'[u] = slot[u]
    BY <2>1, <2>2, <2>3
  <2>8. \A c \in Batches : c # o => bt'[c].window = bt[c].window /\ bt'[c].dirty = bt[c].dirty
    BY <2>1 DEF Marked
  <2>9. o # NULL => o[1] = t /\ bt[o].window = w /\ \A u \in Threads : hand[u] # o
    BY <2>5, <2>x DEF SlotOf
  <2>10. ASSUME NEW b \in Batches, Listed(b) PROVE Listed(b)'
    BY <2>1, <2>2, <2>10, ListedStays
  <2>11. Slots'
    <3>1. ASSUME NEW u \in Threads PROVE MarkOf(u)'
      <4>1. CASE u = t
        <5>1. Adding(t)' = a
          BY <2>1, <2>3 DEF Adding
        <5> QED
          BY <2>2, <2>6, <2>8, <4>1, <5>1 DEF MarkOf
      <4>2. CASE u # t
        <5>1. pc[u] \in {"slot", "publish", "advertise"} => Adding(u) \in Batches /\ Adding(u)[1] = u
          BY AddingIs
        <5>2. pc[u] \in {"slot", "publish", "advertise"} => Adding(u) # o
          BY <2>9, <4>2, <5>1, NullAssumption
        <5> QED
          BY <2>1, <2>2, <2>8, <4>2, <5>1, <5>2, MarkStays
      <4> QED
        BY <4>1, <4>2
    <3>2. SlotOf(t, w)'
      <4>1. Listed(a)'
        BY <2>1, <2>2, <2>3, <2>4 DEF Listed, Adding
      <4>2. /\ a[1] = t /\ bt'[a].window = w /\ bt'[a].dirty
            /\ \A u \in Threads : hand'[u] # a
        BY <2>1, <2>4, <2>6, <2>8
      <4> QED
        BY <2>7, <4>1, <4>2 DEF SlotOf, Listed, Adding
    <3>3. ASSUME NEW b \in Batches, InSlot(b), slot'[b[1]][bt[b].window] = b
          PROVE  /\ bt'[b].window = bt[b].window /\ bt'[b].dirty /\ Listed(b)'
                 /\ \A u \in Threads : hand'[u] # b
      <4>1. b # o
        BY <2>6, <2>7, <2>9, <3>3, NullAssumption
      <4> QED
        BY <2>1, <2>8, <2>10, <3>3, <4>1, Slotted
    <3>4. \A u \in Threads, v \in Windows : slot'[u][v] = slot[u][v] \/ slot'[u][v] = NULL \/ SlotOf(u, v)'
      BY <2>7, <3>2
    <3> QED
      BY <3>1, <3>3, <3>4, SlotsFrom
  <2>12. Hands'
    <3>1. HandOf(t)'
      BY <2>2 DEF HandOf, Stealing
    <3>2. ASSUME NEW u \in Threads, NEW b \in Batches, Stealing(u), hand[u] = b
          PROVE  bt'[b].dirty /\ bt'[b].window # 0 /\ (Listed(b)' \/ b \in laundry'[b[1]])
      <4>1. b # o
        BY <2>9, <3>2, NullAssumption
      <4> QED
        BY <2>1, <2>8, <2>10, <3>2, <4>1, Taken
    <3> QED
      BY <2>1, <2>2, <3>1, <3>2, SlotIs, HandsFrom
  <2> QED
    BY <2>11, <2>12
<1>8. ASSUME NEW t \in Threads, Publish(t) PROVE (Slots /\ Hands)'
  <2>1. /\ pc[t] = "publish" /\ list' = [list EXCEPT ![t] = Append(list[t], Adding(t))]
        /\ pc' = [pc EXCEPT ![t] = "advertise"]
        /\ UNCHANGED <<bt, laundry, slot, adds, st, hand>>
    BY <1>8 DEF Publish, At, Goto, local
  <2>2. /\ pc'[t] = "advertise" /\ \A u \in Threads : u # t => pc'[u] = pc[u]
    BY <2>1, Spaces DEF RInv
  <2>3. \A u \in Threads : ToSet(list[u]) \subseteq ToSet(list'[u]) /\ Adding(t) \in ToSet(list'[t])
    <3>1. TypeOK /\ Adding(t) \in Batches /\ list[t] \in Seq(Batches)
      BY <2>1, AddingIs, Types DEF RInv
    <3>2. ToSet(Append(list[t], Adding(t))) = ToSet(list[t]) \cup {Adding(t)}
      BY <3>1, Appended
    <3>3. /\ list'[t] = Append(list[t], Adding(t))
          /\ \A u \in Threads : u # t => list'[u] = list[u]
      BY <3>1, <2>1, Spaces
    <3> QED
      BY <3>2, <3>3
  <2>4. ASSUME NEW b \in Batches, Listed(b) PROVE Listed(b)'
    <3>1. b[1] \in Threads /\ Adding(t)[1] = t /\ Adding(b[1])' = Adding(b[1])
      BY <2>1, <2>4, ListedIs, AddingIs DEF Adding
    <3>2. CASE b \in ToSet(list[b[1]])
      BY <2>3, <3>1, <3>2 DEF Listed
    <3>3. CASE pc[b[1]] = "publish" /\ b = Adding(b[1])
      BY <2>2, <2>3, <3>1, <3>3 DEF Listed
    <3> QED
      BY <2>4, <3>2, <3>3 DEF Listed
  <2>5. \A u \in Threads : MarkOf(u)'
    <3>1. \A u \in Threads : MarkOf(u)
      BY SlotIs
    <3> QED
      BY <2>1, <2>2, <3>1 DEF MarkOf, Adding
  <2>6. Slots'
    BY <2>1, <2>4, <2>5, Slotted, SlotsFrom
  <2>7. Hands'
    <3>1. HandOf(t)'
      BY <2>2 DEF HandOf, Stealing
    <3>2. ASSUME NEW u \in Threads, NEW b \in Batches, Stealing(u), hand[u] = b
          PROVE  bt'[b].dirty /\ bt'[b].window # 0 /\ (Listed(b)' \/ b \in laundry'[b[1]])
      BY <2>1, <2>4, <3>2, Taken
    <3> QED
      BY <2>1, <2>2, <3>1, <3>2, SlotIs, HandsFrom
  <2> QED
    BY <2>6, <2>7
<1>9. ASSUME NEW t \in Threads, Advertise(t) PROVE (Slots /\ Hands)'
  <2>1. /\ pc[t] = "advertise" /\ Added(t) /\ st' = [st EXCEPT ![t] = Word(0, {})]
        /\ UNCHANGED <<bt, list, laundry, slot, hand>>
    BY <1>9 DEF Advertise, At, Forget, queue
  <2>2. /\ pc'[t] \in {"add", "pick", "run"}
        /\ \A u \in Threads : u # t => pc'[u] = pc[u] /\ adds'[u] = adds[u]
    BY <2>1, AddedStage
  <2>3. \A u \in Threads : u # t => st'[u] = st[u]
    BY <2>1, Spaces DEF RInv
  <2> QED
    BY <2>1, <2>2, <2>3, CalmStep DEF Calm, Stealing
<1>10. ASSUME NEW t \in Threads, Pull(t) PROVE (Slots /\ Hands)'
  <2> DEFINE h == Head(list[t])
  <2>0. PICK b \in Batches : b = h
    BY <1>10, PullEffect
  <2>1. /\ pc[t] # "publish" /\ b[1] = t /\ b \in ToSet(list[t])
        /\ list' = [list EXCEPT ![t] = Tail(list[t])]
        /\ ToSet(Tail(list[t])) = ToSet(list[t]) \ {b} /\ UNCHANGED <<adds, st>>
    BY <1>10, <2>0, PullEffect DEF Picking, At
  <2>2. \/ /\ bt[b].window = 0 /\ Drained(b) /\ pc' = [pc EXCEPT ![t] = "run"]
           /\ UNCHANGED <<laundry, slot, hand>>
        \/ /\ bt[b].window \in Windows /\ slot[t][bt[b].window] = b /\ bt[b].window # 0
           /\ slot' = [slot EXCEPT ![t][bt[b].window] = NULL]
           /\ hand' = [hand EXCEPT ![t] = b] /\ pc' = [pc EXCEPT ![t] = "unmark"]
           /\ UNCHANGED <<bt, laundry>>
        \/ /\ ~InSlot(b) /\ laundry' = [laundry EXCEPT ![t] = laundry[t] \cup {b}]
           /\ pc' = [pc EXCEPT ![t] = "pick"] /\ UNCHANGED <<bt, slot, hand>>
    <3>1. LET d == Head(list[t]) IN
          \/ /\ bt[d].window = 0 /\ Drained(d) /\ pc' = [pc EXCEPT ![t] = "run"]
             /\ UNCHANGED <<laundry, slot, hand>>
          \/ /\ bt[d].window \in Windows /\ slot[t][bt[d].window] = d /\ bt[d].window # 0
             /\ slot' = [slot EXCEPT ![t][bt[d].window] = NULL]
             /\ hand' = [hand EXCEPT ![t] = d] /\ pc' = [pc EXCEPT ![t] = "unmark"]
             /\ UNCHANGED <<bt, laundry>>
          \/ /\ ~InSlot(d) /\ laundry' = [laundry EXCEPT ![t] = laundry[t] \cup {d}]
             /\ pc' = [pc EXCEPT ![t] = "pick"] /\ UNCHANGED <<bt, slot, hand>>
      BY <1>10, PullEffect
    <3> QED
      BY <2>0, <3>1
  <2>3. /\ list'[t] = Tail(list[t]) /\ \A u \in Threads : u # t => list'[u] = list[u]
        /\ pc'[t] \in {"run", "unmark", "pick"} /\ \A u \in Threads : u # t => pc'[u] = pc[u]
    BY <2>1, <2>2, Spaces DEF RInv
  <2>4. \A c \in Batches : bt'[c].window = bt[c].window /\ bt'[c].dirty = bt[c].dirty
    BY <2>2 DEF Drained
  <2>5. ASSUME NEW c \in Batches, Listed(c), c # b PROVE Listed(c)'
    <3>1. c \in ToSet(list[c[1]]) => c \in ToSet(list'[c[1]])
      BY <2>1, <2>3, <2>5, Types DEF RInv
    <3> QED
      BY <2>1, <2>3, <2>5, <3>1, ListedStays
  <2>6. \A u \in Threads : MarkOf(u)'
    <3>1. \A u \in Threads : MarkOf(u) /\ (pc[u] \in {"slot", "publish", "advertise"} => Adding(u) \in Batches)
      BY SlotIs, AddingIs
    <3> QED
      BY <2>1, <2>3, <2>4, <3>1 DEF MarkOf, Adding
  <2>7. ~Stealing(t)'
    BY <2>3 DEF Stealing
  <2>8. /\ \A u \in Threads : u # t => hand'[u] = hand[u]
        /\ hand'[t] = hand[t] \/ (hand'[t] = b /\ InSlot(b) /\ slot'[t][bt[b].window] = NULL)
        /\ \A u \in Threads, w \in Windows : slot'[u][w] = slot[u][w] \/ slot'[u][w] = NULL
        /\ InSlot(b) => slot'[t][bt[b].window] = NULL
    <3>1. /\ hand \in [Threads -> Batches \cup {NULL}]
          /\ slot \in [Threads -> [Windows -> Batches \cup {NULL}]]
      BY Spaces DEF RInv
    <3> QED
      BY <2>1, <2>2, <3>1 DEF InSlot
  <2>9. Slots'
    <3>1. ASSUME NEW c \in Batches, InSlot(c), slot'[c[1]][bt[c].window] = c
          PROVE  /\ bt'[c].window = bt[c].window /\ bt'[c].dirty /\ Listed(c)'
                 /\ \A u \in Threads : hand'[u] # c
      <4>1. c # b
        BY <2>1, <2>8, <3>1, NullAssumption
      <4>2. bt[c].dirty /\ Listed(c) /\ \A u \in Threads : hand[u] # c
        BY <3>1, Slotted
      <4> QED
        BY <2>4, <2>5, <2>8, <4>1, <4>2
    <3> QED
      BY <2>6, <2>8, <3>1, SlotsFrom
  <2>10. Hands'
    <3>1. HandOf(t)'
      BY <2>7 DEF HandOf, Stealing
    <3>2. ASSUME NEW u \in Threads, NEW c \in Batches, Stealing(u), hand[u] = c
          PROVE  bt'[c].dirty /\ bt'[c].window # 0 /\ (Listed(c)' \/ c \in laundry'[c[1]])
      <4>1. /\ bt[c].dirty /\ bt[c].window # 0 /\ (Listed(c) \/ c \in laundry[c[1]]) /\ ~InSlot(c)
            /\ c[1] \in Threads
        BY <3>2, Taken, Types DEF RInv
      <4>2. laundry \in [Threads -> SUBSET Batches]
        BY Spaces DEF RInv
      <4>3. c = b => c \in laundry'[c[1]]
        BY <2>1, <2>2, <4>1, <4>2 DEF InSlot
      <4>4. c \in laundry[c[1]] => c \in laundry'[c[1]]
        BY <2>2, <4>1, <4>2
      <4> QED
        BY <2>4, <2>5, <4>1, <4>3, <4>4
    <3>3. hand'[t] = NULL \/ \A u \in Threads : u # t => hand[u] # hand'[t]
      BY <2>8, SlotIs, Slotted
    <3> QED
      BY <2>3, <2>8, <3>1, <3>2, <3>3, HandsFrom
  <2> QED
    BY <2>9, <2>10
<1>11. ASSUME NEW t \in Threads, UnmarkRead(t) PROVE (Slots /\ Hands)'
  <2>1. /\ pc[t] \in {"unmark"} /\ UNCHANGED <<bt, list, laundry, slot, adds, hand>>
        /\ \E l \in {"unmarkW"} : pc' = [pc EXCEPT ![t] = l]
        /\ \A u \in Threads : u # t => st'[u] = st[u]
    BY <1>11, Spaces DEF RInv, UnmarkRead, At, Goto, queue, window
  <2>2. pc'[t] \in {"unmarkW"} /\ \A u \in Threads : u # t => pc'[u] = pc[u]
    BY <2>1, Spaces DEF RInv
  <2>3. StageOf(t)
    BY StageIs
  <2> QED
    BY <2>1, <2>2, <2>3, CalmStep DEF Calm, Stealing, StageOf, Owning
<1>12. ASSUME NEW t \in Threads, UnmarkWrite(t) PROVE (Slots /\ Hands)'
  <2>0. PICK b \in Batches : b = hand[t] /\ b[1] = t
    BY <1>12, UnmarkEffect
  <2>1. /\ pc[t] = "unmarkW"
        /\ \A c \in Batches : c # b => bt'[c].window = bt[c].window /\ bt'[c].dirty = bt[c].dirty
        /\ hand' = [hand EXCEPT ![t] = NULL] /\ st' = [st EXCEPT ![t] = Word(0, {})]
        /\ pc' = [pc EXCEPT ![t] = "run"] /\ UNCHANGED <<list, laundry, slot, adds>>
    <3>0. /\ pc[t] = "unmarkW"
          /\ \A c \in Batches : /\ bt'[c].procs = IF c = hand[t] THEN <<>> ELSE bt[c].procs
                                /\ bt'[c].window = IF c = hand[t] THEN 0 ELSE bt[c].window
                                /\ bt'[c].dirty = IF c = hand[t] THEN FALSE ELSE bt[c].dirty
          /\ hand' = [hand EXCEPT ![t] = NULL] /\ st' = [st EXCEPT ![t] = Word(0, {})]
          /\ pc' = [pc EXCEPT ![t] = "run"] /\ UNCHANGED <<list, laundry, slot, adds>>
      BY <1>12, UnmarkEffect
    <3>1. /\ pc[t] = "unmarkW"
          /\ \A c \in Batches : c # hand[t] => bt'[c].window = bt[c].window /\ bt'[c].dirty = bt[c].dirty
          /\ hand' = [hand EXCEPT ![t] = NULL] /\ st' = [st EXCEPT ![t] = Word(0, {})]
          /\ pc' = [pc EXCEPT ![t] = "run"] /\ UNCHANGED <<list, laundry, slot, adds>>
      BY <3>0
    <3> QED
      BY <2>0, <3>1
  <2>2. /\ pc'[t] = "run" /\ \A u \in Threads : u # t => pc'[u] = pc[u] /\ adds'[u] = adds[u] /\ st'[u] = st[u]
    BY <2>1, Spaces DEF RInv
  <2>3. ASSUME NEW c \in Batches, Listed(c) PROVE Listed(c)'
    BY <2>1, <2>2, <2>3, ListedStays
  <2>4. /\ hand'[t] = NULL /\ \A u \in Threads : u # t => hand'[u] = hand[u] /\ hand[u] # b
    BY <2>0, <2>1, Spaces, SlotIs, NullAssumption DEF RInv
  <2>5. \A c \in Batches : c # b => bt'[c].window = bt[c].window /\ bt'[c].dirty = bt[c].dirty
    BY <2>1
  <2>6. Slots'
    <3>1. ASSUME NEW c \in Batches, InSlot(c)
          PROVE  /\ bt'[c].window = bt[c].window /\ bt'[c].dirty /\ Listed(c)'
                 /\ \A u \in Threads : hand'[u] # c
      <4>1. c # b /\ bt[c].dirty /\ Listed(c) /\ c # NULL /\ \A u \in Threads : hand[u] # c
        BY <2>0, <3>1, Slotted, NullAssumption
      <4> QED
        BY <2>3, <2>4, <2>5, <4>1
    <3>2. ASSUME NEW u \in Threads PROVE MarkOf(u)'
      <4>1. CASE u = t
        BY <2>2, <4>1 DEF MarkOf
      <4>2. CASE u # t
        <5>1. pc[u] \in {"slot", "publish", "advertise"} => Adding(u) \in Batches /\ Adding(u)[1] = u
          BY AddingIs
        <5> QED
          BY <2>0, <2>2, <2>5, <4>2, <5>1, MarkStays
      <4> QED
        BY <4>1, <4>2
    <3> QED
      BY <2>1, <3>1, <3>2, SlotsFrom
  <2>7. Hands'
    <3>1. HandOf(t)'
      BY <2>4 DEF HandOf
    <3>2. ASSUME NEW u \in Threads \ {t}, NEW c \in Batches, Stealing(u), hand[u] = c
          PROVE  bt'[c].dirty /\ bt'[c].window # 0 /\ (Listed(c)' \/ c \in laundry'[c[1]])
      <4>1. c # b /\ bt[c].dirty /\ bt[c].window # 0 /\ (Listed(c) \/ c \in laundry[c[1]])
        BY <2>4, <3>2, Taken
      <4> QED
        BY <2>1, <2>3, <2>5, <4>1
    <3> QED
      BY <2>2, <2>4, <3>1, <3>2, HandsFrom
  <2> QED
    BY <2>6, <2>7
<1>13. ASSUME NEW t \in Threads, PullPending(t) PROVE (Slots /\ Hands)'
  <2>1. /\ pc[t] # "publish" /\ UNCHANGED <<list, slot, st, hand, adds>> /\ PulledPending(t)
        /\ pc' = [pc EXCEPT ![t] = "run"] /\ pending[t] \in Batches
    BY <1>13, PullPendingEffect, Types DEF Picking, At, RInv
  <2>2. PICK W \in SUBSET Washed(t) : WashedBut(t, W, {pending[t]})
    BY <2>1 DEF PulledPending
  <2>3. {pending[t]} \in SUBSET Batches
    BY <2>1
  <2> QED
    BY <2>1, <2>2, <2>3, CalmWashed, CalmStep
<1>14. ASSUME NEW t \in Threads, PickFails(t) PROVE (Slots /\ Hands)'
  <2>1. /\ pc[t] \in {"pick", "run"} /\ UNCHANGED <<bt, list, laundry, slot, adds, hand>>
        /\ \E l \in {"migrate"} : pc' = [pc EXCEPT ![t] = l]
        /\ \A u \in Threads : u # t => st'[u] = st[u]
    BY <1>14, Spaces DEF RInv, PickFails, Picking, At, Goto, local
  <2>2. pc'[t] \in {"migrate"} /\ \A u \in Threads : u # t => pc'[u] = pc[u]
    BY <2>1, Spaces DEF RInv
  <2>3. StageOf(t)
    BY StageIs
  <2> QED
    BY <2>1, <2>2, <2>3, CalmStep DEF Calm, Stealing, StageOf, Owning
<1>15. ASSUME NEW t \in Threads, ChooseVictim(t) PROVE (Slots /\ Hands)'
  <2>1. /\ pc[t] \in {"migrate"} /\ UNCHANGED <<bt, list, laundry, slot, adds, hand>>
        /\ \E l \in {"mwRead"} : pc' = [pc EXCEPT ![t] = l]
        /\ \A u \in Threads : u # t => st'[u] = st[u]
    BY <1>15, Spaces DEF RInv, ChooseVictim, At, Goto, queue, window
  <2>2. pc'[t] \in {"mwRead"} /\ \A u \in Threads : u # t => pc'[u] = pc[u]
    BY <2>1, Spaces DEF RInv
  <2>3. StageOf(t)
    BY StageIs
  <2> QED
    BY <2>1, <2>2, <2>3, CalmStep DEF Calm, Stealing, StageOf, Owning
<1>16. ASSUME NEW t \in Threads, Idle(t) PROVE (Slots /\ Hands)'
  <2>1. /\ pc[t] # "publish" /\ UNCHANGED <<list, slot, st, hand, adds>>
        /\ pc' = [pc EXCEPT ![t] = "run"] /\ WashedBut(t, Washed(t), {})
    BY <1>16, IdleEffect
  <2>x. PICK W \in SUBSET Washed(t), D \in SUBSET Batches, l \in {"run"} : W = Washed(t) /\ D = {}
    OBVIOUS
  <2>2. Calm(t)
    BY <2>1, <2>x, CalmWashed
  <2> QED
    BY <2>2, CalmStep
<1>17. ASSUME NEW t \in Threads, ReadWindow(t) PROVE (Slots /\ Hands)'
  <2>1. /\ pc[t] \in {"mwRead"} /\ UNCHANGED <<bt, list, laundry, slot, adds, hand>>
        /\ \E l \in {"mwCheck", "mwClear"} : pc' = [pc EXCEPT ![t] = l]
        /\ \A u \in Threads : u # t => st'[u] = st[u]
    BY <1>17, Spaces DEF RInv, ReadWindow, At, Goto, queue, window
  <2>2. pc'[t] \in {"mwCheck", "mwClear"} /\ \A u \in Threads : u # t => pc'[u] = pc[u]
    BY <2>1, Spaces DEF RInv
  <2>3. StageOf(t)
    BY StageIs
  <2> QED
    BY <2>1, <2>2, <2>3, CalmStep DEF Calm, Stealing, StageOf, Owning
<1>18. ASSUME NEW t \in Threads, ClearBit(t) PROVE (Slots /\ Hands)'
  <2>1. /\ pc[t] \in {"mwClear"} /\ UNCHANGED <<bt, list, laundry, slot, adds, hand>>
        /\ \E l \in {"mwSwap"} : pc' = [pc EXCEPT ![t] = l]
        /\ \A u \in Threads : u # t => st'[u] = st[u]
    BY <1>18, Spaces DEF RInv, ClearBit, At, Goto, queue, local
  <2>2. pc'[t] \in {"mwSwap"} /\ \A u \in Threads : u # t => pc'[u] = pc[u]
    BY <2>1, Spaces DEF RInv
  <2>3. StageOf(t)
    BY StageIs
  <2> QED
    BY <2>1, <2>2, <2>3, CalmStep DEF Calm, Stealing, StageOf, Owning
<1>19. ASSUME NEW t \in Threads, TakeSlot(t) PROVE (Slots /\ Hands)'
  <2> DEFINE v == victim[t]
             w == BestWindow(st[t])
  <2>1. /\ pc[t] = "mwSwap" /\ hand' = [hand EXCEPT ![t] = slot[v][w]]
        /\ slot' = [slot EXCEPT ![v][w] = NULL] /\ UNCHANGED <<bt, list, laundry, adds>>
        /\ (pc' = [pc EXCEPT ![t] = "mwClear"] \/ pc' = [pc EXCEPT ![t] = "mwCheck"])
        /\ \A u \in Threads : u # t => st'[u] = st[u]
    BY <1>19, Spaces DEF RInv, TakeSlot, At, Goto, queue
  <2>2. v \in Threads /\ w \in Windows
    <3>1. StageOf(t) /\ st[t] \in WordType
      BY StageIs, Types DEF RInv
    <3> QED
      BY <2>1, <3>1, BestSlot DEF StageOf, Looking, WordType
  <2>3. /\ pc'[t] \in {"mwClear", "mwCheck"}
        /\ \A u \in Threads : u # t => pc'[u] = pc[u] /\ adds'[u] = adds[u]
    BY <2>1, Spaces DEF RInv
  <2> DEFINE x == slot[v][w]
  <2>4. SlotOf(v, w) /\ x \in Batches \cup {NULL}
    BY <2>2, SlotIs, Types DEF RInv
  <2>5. /\ slot'[v][w] = NULL /\ hand'[t] = x /\ \A u \in Threads : u # t => hand'[u] = hand[u]
        /\ \A u \in Threads, y \in Windows : slot'[u][y] = slot[u][y] \/ slot'[u][y] = NULL
    BY <2>1, <2>2, Spaces DEF RInv
  <2>6. x # NULL => /\ x \in Batches /\ x[1] = v /\ Listed(x) /\ bt[x].window = w /\ bt[x].dirty
                    /\ \A u \in Threads : hand[u] # x
    BY <2>4 DEF SlotOf
  <2>7. w # 0
    BY <2>2, SizesAssumption DEF Windows
  <2> HIDE DEF v, w, x
  <2>8. ASSUME NEW c \in Batches, Listed(c) PROVE Listed(c)'
    BY <2>1, <2>3, <2>8, ListedStays
  <2>9. Slots'
    <3>1. ASSUME NEW c \in Batches, InSlot(c), slot'[c[1]][bt[c].window] = c
          PROVE  /\ bt'[c].window = bt[c].window /\ bt'[c].dirty /\ Listed(c)'
                 /\ \A u \in Threads : hand'[u] # c
      <4>1. c # x
        BY <2>5, <2>6, <3>1, NullAssumption
      <4> QED
        BY <2>1, <2>5, <2>8, <3>1, <4>1, Slotted
    <3>2. ASSUME NEW u \in Threads PROVE MarkOf(u)'
      <4>1. CASE u = t
        BY <2>3, <4>1 DEF MarkOf
      <4>2. CASE u # t
        BY <2>1, <2>3, <4>2, MarkStays
      <4> QED
        BY <4>1, <4>2
    <3> QED
      BY <2>5, <3>1, <3>2, SlotsFrom
  <2>10. Hands'
    <3>1. HandOf(t)'
      <4>1. CASE x # NULL
        <5>1. PICK b \in Batches : b = x
          BY <2>6, <4>1
        <5>2. Listed(b)' /\ bt'[b].dirty /\ bt'[b].window # 0
          BY <2>1, <2>6, <2>7, <2>8, <4>1, <5>1
        <5>3. hand'[t] = b
          BY <2>5, <5>1
        <5> QED
          BY <5>2, <5>3 DEF HandOf, Listed, Adding
      <4>2. CASE x = NULL
        BY <2>5, <4>2 DEF HandOf
      <4> QED
        BY <4>1, <4>2
    <3>2. ASSUME NEW u \in Threads, NEW c \in Batches, Stealing(u), hand[u] = c
          PROVE  bt'[c].dirty /\ bt'[c].window # 0 /\ (Listed(c)' \/ c \in laundry'[c[1]])
      BY <2>1, <2>8, <3>2, Taken
    <3>3. hand'[t] = NULL \/ \A u \in Threads : u # t => hand[u] # hand'[t]
      BY <2>5, <2>6
    <3> QED
      BY <2>3, <2>5, <3>1, <3>2, <3>3, HandsFrom
  <2> QED
    BY <2>9, <2>10
<1>20. ASSUME NEW t \in Threads, CheckWindow(t) PROVE (Slots /\ Hands)'
  <2>1. /\ pc[t] \in {"mwCheck"} /\ UNCHANGED <<bt, list, laundry, slot, adds, hand>>
        /\ \E l \in {"mwOff", "migrate", "copy"} : pc' = [pc EXCEPT ![t] = l]
        /\ \A u \in Threads : u # t => st'[u] = st[u]
    BY <1>20, Spaces DEF RInv, CheckWindow, LeaveWindow, Forget, At, Goto, queue, window
  <2>2. pc'[t] \in {"mwOff", "migrate", "copy"} /\ \A u \in Threads : u # t => pc'[u] = pc[u]
    BY <2>1, Spaces DEF RInv
  <2>3. StageOf(t)
    BY StageIs
  <2> QED
    BY <2>1, <2>2, <2>3, CalmStep DEF Calm, Stealing, StageOf, Owning
<1>21. ASSUME NEW t \in Threads, Unadvertise(t) PROVE (Slots /\ Hands)'
  <2>1. /\ pc[t] \in {"mwOff"} /\ UNCHANGED <<bt, list, laundry, slot, adds, hand>>
        /\ \E l \in {"migrate", "copy"} : pc' = [pc EXCEPT ![t] = l]
        /\ \A u \in Threads : u # t => st'[u] = st[u]
    BY <1>21, Spaces DEF RInv, Unadvertise, LeaveWindow, Forget, At, Goto, queue
  <2>2. pc'[t] \in {"migrate", "copy"} /\ \A u \in Threads : u # t => pc'[u] = pc[u]
    BY <2>1, Spaces DEF RInv
  <2>3. StageOf(t)
    BY StageIs
  <2> QED
    BY <2>1, <2>2, <2>3, CalmStep DEF Calm, Stealing, StageOf, Owning
<1>22. ASSUME NEW t \in Threads, Copy(t) PROVE (Slots /\ Hands)'
  <2>1. /\ pc[t] \in {"copy"} /\ UNCHANGED <<bt, list, laundry, slot, adds, hand>>
        /\ \E l \in {"clean"} : pc' = [pc EXCEPT ![t] = l]
        /\ \A u \in Threads : u # t => st'[u] = st[u]
    BY <1>22, Spaces DEF RInv, Copy, At, Goto, queue, window, local
  <2>2. pc'[t] \in {"clean"} /\ \A u \in Threads : u # t => pc'[u] = pc[u]
    BY <2>1, Spaces DEF RInv
  <2>3. StageOf(t)
    BY StageIs
  <2> QED
    BY <2>1, <2>2, <2>3, CalmStep DEF Calm, Stealing, StageOf, Owning
<1>23. ASSUME NEW t \in Threads, MarkClean(t) PROVE (Slots /\ Hands)'
  <2>0. PICK b \in Batches : b = hand[t] /\ pc[t] = "clean"
    BY <1>23, CleanEffect
  <2>1. /\ \A c \in Batches : c # b => bt'[c].window = bt[c].window /\ bt'[c].dirty = bt[c].dirty
        /\ bt'[b].window = bt[b].window
        /\ hand' = [hand EXCEPT ![t] = NULL] /\ st' = st
        /\ pc' = [pc EXCEPT ![t] = "run"] /\ UNCHANGED <<list, laundry, slot, adds>>
    <3>1. /\ \A c \in Batches : /\ c # hand[t] => bt'[c].dirty = bt[c].dirty
                                /\ bt'[c].window = bt[c].window
          /\ hand' = [hand EXCEPT ![t] = NULL] /\ st' = st
          /\ pc' = [pc EXCEPT ![t] = "run"] /\ UNCHANGED <<list, laundry, slot, adds>>
      BY <1>23, CleanEffect
    <3> QED
      BY <2>0, <3>1
  <2>2. /\ pc[t] # "publish" /\ pc'[t] = "run"
        /\ \A u \in Threads : u # t => pc'[u] = pc[u] /\ adds'[u] = adds[u] /\ st'[u] = st[u]
    BY <2>0, <2>1, Spaces DEF RInv
  <2>3. ASSUME NEW c \in Batches, Listed(c) PROVE Listed(c)'
    BY <2>1, <2>2, <2>3, ListedStays
  <2>4. /\ hand'[t] = NULL /\ \A u \in Threads : u # t => hand'[u] = hand[u] /\ hand[u] # b
    BY <2>0, <2>1, Spaces, SlotIs, NullAssumption DEF RInv
  <2>5. \A c \in Batches : c # b => bt'[c].window = bt[c].window /\ bt'[c].dirty = bt[c].dirty
    BY <2>1
  <2>6. Slots'
    <3>1. ASSUME NEW c \in Batches, InSlot(c)
          PROVE  /\ bt'[c].window = bt[c].window /\ bt'[c].dirty /\ Listed(c)'
                 /\ \A u \in Threads : hand'[u] # c
      <4>1. c # b /\ bt[c].dirty /\ Listed(c) /\ c # NULL /\ \A u \in Threads : hand[u] # c
        BY <2>0, <3>1, Slotted, NullAssumption
      <4> QED
        BY <2>3, <2>4, <2>5, <4>1
    <3>2. ASSUME NEW u \in Threads PROVE MarkOf(u)'
      <4>1. CASE u = t
        BY <2>2, <4>1 DEF MarkOf
      <4>2. CASE u # t
        <5>1. pc[u] \in {"slot", "publish", "advertise"} => Adding(u) \in Batches
          BY AddingIs
        <5>2. pc[u] = "slot" => Adding(u) # b
          BY <2>0, Taken
        <5> QED
          BY <2>1, <2>2, <2>5, <4>2, <5>1, <5>2, MarkStays
      <4> QED
        BY <4>1, <4>2
    <3> QED
      BY <2>1, <3>1, <3>2, SlotsFrom
  <2>7. Hands'
    <3>1. HandOf(t)'
      BY <2>4 DEF HandOf
    <3>2. ASSUME NEW u \in Threads \ {t}, NEW c \in Batches, Stealing(u), hand[u] = c
          PROVE  bt'[c].dirty /\ bt'[c].window # 0 /\ (Listed(c)' \/ c \in laundry'[c[1]])
      <4>1. c # b /\ bt[c].dirty /\ bt[c].window # 0 /\ (Listed(c) \/ c \in laundry[c[1]])
        BY <2>4, <3>2, Taken
      <4> QED
        BY <2>1, <2>3, <2>5, <4>1
    <3> QED
      BY <2>2, <2>4, <3>1, <3>2, HandsFrom
  <2> QED
    BY <2>6, <2>7
<1> QED
  BY <1>0, <1>1, <1>2, <1>3, <1>4, <1>5, <1>6, <1>7, <1>8, <1>9, <1>10, <1>11,
     <1>12, <1>13, <1>14, <1>15, <1>16, <1>17, <1>18, <1>19, <1>20, <1>21, <1>22, <1>23
     DEF Next, Scheduler

(* Where the processes of a batch wait for thread t.                        *)
InAdds(t, b) == b \in ToSet(adds[t]) /\ (InSlot(b) \/ b # Adding(t) \/ pc[t] \in {"add", "slot"})
InList(t, b) == b \in ToSet(list[t]) /\ (bt[b].window = 0 \/ InSlot(b))
InHand(t, b) == hand[t] # NULL /\ pc[t] # "clean" /\ b = hand[t]
IsPending(t, b) == used[t] /\ b = pending[t]
Awaits(t, b) == IsPending(t, b) \/ InAdds(t, b) \/ InList(t, b) \/ InHand(t, b)

LEMMA AwaitsIs ==
  ASSUME NEW t, NEW b
  PROVE  /\ InBatch(t, b) = IF Awaits(t, b) THEN ToSet(bt[b].procs) ELSE {}
         /\ InBatch(t, b)' = IF Awaits(t, b)' THEN ToSet(bt'[b].procs) ELSE {}
<1>1. b \in Waiting(t) <=> Awaits(t, b)
  BY DEF Waiting, Awaits, IsPending, InAdds, InList, InHand
<1>2. b \in Waiting(t)' <=> Awaits(t, b)'
  BY DEF Waiting, Awaits, IsPending, InAdds, InList, InHand
<1> QED
  BY <1>1, <1>2 DEF InBatch

(* The spots outside A hold what they held.                                 *)
LEMMA SpotsSame ==
  ASSUME NEW A, Asleep \in A \/ asleep' = asleep,
         \A u \in Threads : MailOf(u) \in A \/ pmail'[u] = pmail[u],
         \A u \in Threads : Curb(u) \in A \/ InCurb(u)' = InCurb(u),
         \A u \in Threads, b \in Batches : Batch(u, b) \in A \/ InBatch(u, b)' = InBatch(u, b)
  PROVE  \A x \in Spots \ A : Held(x)' = Held(x)
<1>1. ASSUME NEW x \in Spots, x \notin A PROVE Held(x)' = Held(x)
  <2>1. CASE x = Asleep
    BY <1>1, <2>1, HeldThere, HeldThereNext
  <2>2. CASE \E t \in Threads : x = MailOf(t)
    <3>1. PICK t \in Threads : x = MailOf(t)
      BY <2>2
    <3>2. Held(MailOf(t)) = pmail[t] /\ Held(MailOf(t))' = pmail'[t] /\ pmail'[t] = pmail[t]
      BY <1>1, <3>1, HeldThere, HeldThereNext
    <3> QED
      BY <3>1, <3>2
  <2>3. CASE \E t \in Threads : x = Curb(t)
    <3>1. PICK t \in Threads : x = Curb(t)
      BY <2>3
    <3>2. Held(Curb(t)) = InCurb(t) /\ Held(Curb(t))' = InCurb(t)' /\ InCurb(t)' = InCurb(t)
      BY <1>1, <3>1, HeldThere, HeldThereNext
    <3> QED
      BY <3>1, <3>2
  <2>4. CASE \E t \in Threads, b \in Batches : x = Batch(t, b)
    <3>1. PICK t \in Threads, b \in Batches : x = Batch(t, b)
      BY <2>4
    <3>2. Held(Batch(t, b)) = InBatch(t, b) /\ Held(Batch(t, b))' = InBatch(t, b)' /\ InBatch(t, b)' = InBatch(t, b)
      BY <1>1, <3>1, HeldThere, HeldThereNext
    <3> QED
      BY <3>1, <3>2
  <2> QED
    BY <2>1, <2>2, <2>3, <2>4, EverySpot
<1> QED
  BY <1>1

LEMMA NothingMoves ==
  ASSUME RInv, asleep' = asleep, pmail' = pmail,
         \A u \in Threads : InCurb(u)' = InCurb(u),
         \A u \in Threads, b \in Batches : InBatch(u, b)' = InBatch(u, b)
  PROVE  Settled'
<1> DEFINE A == {}
<1>1. \A x \in Spots \ A : Held(x)' = Held(x)
  <2> HIDE DEF A
  <2> QED
    BY SpotsSame
<1> QED
  BY <1>1, Stays DEF RInv

(* Whoever waits for b goes on waiting for it, or never did.                *)
LEMMA AwaitsSame ==
  ASSUME NEW u, NEW b, used'[u] = used[u], pending'[u] = pending[u], adds'[u] = adds[u],
         list'[u] = list[u], hand'[u] = hand[u], pc'[u] = pc[u],
         b \in ToSet(adds[u]) \cup ToSet(list[u]) =>
            (InSlot(b)' <=> InSlot(b)) /\ (bt'[b].window = 0 <=> bt[b].window = 0)
  PROVE  Awaits(u, b)' <=> Awaits(u, b)
<1>1. IsPending(u, b)' <=> IsPending(u, b)
  BY DEF IsPending
<1>2. InAdds(u, b)' <=> InAdds(u, b)
  BY DEF InAdds, Adding
<1>3. InList(u, b)' <=> InList(u, b)
  BY DEF InList
<1>4. InHand(u, b)' <=> InHand(u, b)
  BY DEF InHand
<1> QED
  BY <1>1, <1>2, <1>3, <1>4 DEF Awaits

LEMMA SlotSame ==
  ASSUME NEW b, bt'[b].window = bt[b].window, slot'[b[1]] = slot[b[1]]
  PROVE  InSlot(b)' <=> InSlot(b)
  BY DEF InSlot

LEMMA BatchSame ==
  ASSUME NEW u, NEW b, Awaits(u, b)' <=> Awaits(u, b), Awaits(u, b) => bt'[b].procs = bt[b].procs
  PROVE  InBatch(u, b)' = InBatch(u, b)
  BY AwaitsIs

(* Nobody waits for a free batch, or for the pending one that is not used.  *)
LEMMA NoneAwaits ==
  ASSUME RInv, NEW t \in Threads,
         NEW b \in free[t] \cup Washed(t) \cup Old(t), NEW u \in Threads
  PROVE  ~Awaits(u, b) /\ InBatch(u, b) = {}
<1>1. b \in Batches /\ b[1] = t /\ (b \in free[t] \/ (b \in laundry[t] /\ ~bt[b].dirty) \/ (b = pending[t] /\ ~used[t]))
  BY Owned DEF Old
<1>2. MemoryOf(t) /\ MemoryOf(u)
  BY MemoryIs
<1>3. ~IsPending(u, b)
  BY <1>1, <1>2, Owned DEF IsPending, MemoryOf
<1>4. b \notin ToSet(adds[u]) /\ b \notin ToSet(list[u])
  <2>1. u = t \/ (b \notin ToSet(adds[u]) /\ b \notin ToSet(list[u]))
    BY <1>1, Owned
  <2> QED
    BY <1>1, <1>2, <2>1 DEF MemoryOf
<1>5. hand[u] # b
  <2>1. SUFFICES ASSUME hand[u] = b PROVE FALSE
    OBVIOUS
  <2>2. /\ Owning(u) => u = t
        /\ Stealing(u) => bt[b].dirty /\ (Listed(b) \/ b \in laundry[t])
        /\ Owning(u) \/ Stealing(u)
    BY <1>1, <2>1, Taken
  <2>3. CASE Owning(u)
    BY <1>1, <1>2, <2>1, <2>2, <2>3 DEF MemoryOf
  <2>4. CASE Stealing(u)
    BY <1>1, <1>2, <2>2, <2>4, ListedIs DEF MemoryOf
  <2> QED
    BY <2>2, <2>3, <2>4
<1>6. ~Awaits(u, b)
  BY <1>3, <1>4, <1>5 DEF Awaits, InAdds, InList, InHand
<1> QED
  BY <1>6, AwaitsIs

(* Steps of a thread that adds nothing, and takes no batch.                 *)
LEMMA BatchesStill ==
  ASSUME RInv, NEW t \in Threads, UNCHANGED <<list, pending, used, adds, slot, hand>>,
         adds[t] = <<>>, hand[t] = NULL \/ (pc[t] # "clean" /\ pc'[t] # "clean"),
         \A u \in Threads : u # t => pc'[u] = pc[u],
         \A b \in Batches : /\ bt'[b].window = bt[b].window
                            /\ bt'[b].procs = bt[b].procs \/ \A u \in Threads : ~Awaits(u, b)
  PROVE  \A u \in Threads, b \in Batches : InBatch(u, b)' = InBatch(u, b)
<1>1. ASSUME NEW u \in Threads, NEW b \in Batches PROVE InBatch(u, b)' = InBatch(u, b)
  <2>1. InSlot(b)' <=> InSlot(b)
    BY SlotSame
  <2>2. CASE u # t
    BY <2>1, <2>2, AwaitsSame, BatchSame
  <2>3. CASE u = t
    <3>1. Awaits(t, b) <=> IsPending(t, b) \/ InList(t, b) \/ InHand(t, b)
      BY EmptyOf DEF Awaits, InAdds
    <3>2. Awaits(t, b)' <=> IsPending(t, b)' \/ InList(t, b)' \/ InHand(t, b)'
      BY EmptyOf DEF Awaits, InAdds
    <3>3. (IsPending(t, b)' <=> IsPending(t, b)) /\ (InHand(t, b)' <=> InHand(t, b))
      BY DEF IsPending, InHand
    <3>4. InList(t, b)' <=> InList(t, b)
      BY <2>1 DEF InList
    <3> QED
      BY <2>3, <3>1, <3>2, <3>3, <3>4, BatchSame
  <2> QED
    BY <2>2, <2>3
<1> QED
  BY <1>1

(* The processes X of one spot go to another one.                           *)
LEMMA MovedFrom ==
  ASSUME RInv, NEW a \in Spots, NEW c \in Spots, a # c, NEW X \in SUBSET Held(a),
         Held(a)' = Held(a) \ X, Held(c)' = Held(c) \cup X,
         Asleep \in {a, c} \/ asleep' = asleep,
         \A u \in Threads : MailOf(u) \in {a, c} \/ pmail'[u] = pmail[u],
         \A u \in Threads : Curb(u) \in {a, c} \/ InCurb(u)' = InCurb(u),
         \A u \in Threads, b \in Batches : Batch(u, b) \in {a, c} \/ InBatch(u, b)' = InBatch(u, b)
  PROVE  Settled'
<1> DEFINE A == {a, c}
<1>1. \A x \in Spots \ A : Held(x)' = Held(x)
  <2>1. /\ Asleep \in A \/ asleep' = asleep
        /\ \A u \in Threads : MailOf(u) \in A \/ pmail'[u] = pmail[u]
        /\ \A u \in Threads : Curb(u) \in A \/ InCurb(u)' = InCurb(u)
        /\ \A u \in Threads, b \in Batches : Batch(u, b) \in A \/ InBatch(u, b)' = InBatch(u, b)
    OBVIOUS
  <2> HIDE DEF A
  <2> QED
    BY <2>1, SpotsSame
<1> QED
  BY <1>1, Moved DEF RInv

(* A batch is loaded: all its processes go to the current batch of t, which *)
(* was empty.                                                               *)
LEMMA Load ==
  ASSUME RInv, NEW t \in Threads, NEW d \in Batches, curb[t].procs = <<>>,
         InBatch(t, d) = ToSet(bt[d].procs), InBatch(t, d)' = {},
         curb'[t].procs = bt[d].procs, \A u \in Threads : u # t => curb'[u] = curb[u],
         asleep' = asleep, pmail' = pmail,
         \A u \in Threads, b \in Batches : u # t \/ b # d => InBatch(u, b)' = InBatch(u, b)
  PROVE  Settled'
<1> DEFINE X == ToSet(bt[d].procs)
<1>1. PICK a \in Spots : a = Batch(t, d)
  BY SpotsDiffer
<1>2. PICK c \in Spots : c = Curb(t)
  BY SpotsDiffer
<1>3. a # c
  BY <1>1, <1>2, SpotsDiffer
<1>4. Held(a) = X /\ Held(a)' = Held(a) \ X
  <2>1. Held(Batch(t, d)) = X /\ Held(Batch(t, d))' = {}
    BY HeldThere, HeldThereNext
  <2> QED
    BY <1>1, <2>1
<1>5. Held(c)' = Held(c) \cup X
  <2>1. Held(Curb(t)) = {} /\ Held(Curb(t))' = X
    BY HeldThere, HeldThereNext, EmptyOf DEF InCurb
  <2> QED
    BY <1>2, <2>1
<1>6. X \in SUBSET Held(a)
  BY <1>4
<1> HIDE DEF X
<1>7. \A u \in Threads : Curb(u) \in {a, c} \/ InCurb(u)' = InCurb(u)
  BY <1>2 DEF InCurb
<1>8. \A u \in Threads, b \in Batches : Batch(u, b) \in {a, c} \/ InBatch(u, b)' = InBatch(u, b)
  BY <1>1
<1> QED
  BY <1>3, <1>4, <1>5, <1>6, <1>7, <1>8, MovedFrom

(* One process goes from its spot to another one.                           *)
LEMMA GoesTo ==
  ASSUME RInv, NEW a \in Spots, NEW c \in Spots, a # c, NEW p \in Held(a),
         Held(a)' = Held(a) \ {p}, Held(c)' = Held(c) \cup {p},
         Asleep \in {a, c} \/ asleep' = asleep,
         \A u \in Threads : MailOf(u) \in {a, c} \/ pmail'[u] = pmail[u],
         \A u \in Threads : Curb(u) \in {a, c} \/ InCurb(u)' = InCurb(u),
         \A u \in Threads, b \in Batches : Batch(u, b) \in {a, c} \/ InBatch(u, b)' = InBatch(u, b)
  PROVE  Settled'
<1>1. PICK X \in SUBSET Held(a) : X = {p}
  OBVIOUS
<1> QED
  BY <1>1, MovedFrom

(* What a thread that adds nothing waits for.                               *)
LEMMA NoAdds ==
  ASSUME NEW t, NEW b
  PROVE  /\ adds[t] = <<>> => (Awaits(t, b) <=> IsPending(t, b) \/ InList(t, b) \/ InHand(t, b))
         /\ adds'[t] = <<>> => (Awaits(t, b)' <=> IsPending(t, b)' \/ InList(t, b)' \/ InHand(t, b)')
  BY EmptyOf DEF Awaits, InAdds

(* Where a thread is that adds nothing and has nothing in hand.             *)
LEMMA Resting ==
  ASSUME RInv, NEW t \in Threads
  PROVE  /\ pc[t] \notin {"add", "slot", "publish", "advertise"} => adds[t] = <<>>
         /\ pc[t] \notin {"unmark", "unmarkW", "mwCheck", "mwOff", "copy", "clean"} => hand[t] = NULL
         /\ pc[t] \notin {"run", "clean", "add", "slot", "publish", "advertise"} => curb[t].procs = <<>>
  BY StageIs DEF StageOf, Enlisting, Owning, Stealing

(* Another thread waits only for what it has taken.                         *)
LEMMA OnlyInHand ==
  ASSUME RInv, NEW u \in Threads, NEW b \in Batches, b[1] # u, Awaits(u, b)
  PROVE  hand[u] = b /\ Stealing(u) /\ bt[b].dirty /\ bt[b].window # 0
<1>1. b # pending[u] /\ b \notin ToSet(adds[u]) \cup ToSet(list[u])
  BY Owned
<1>2. hand[u] = b
  BY <1>1 DEF Awaits, IsPending, InAdds, InList, InHand
<1> QED
  BY <1>2, Taken

(* The pending batch is waited for as such only.                            *)
LEMMA PendingOnly ==
  ASSUME RInv, NEW t \in Threads, NEW b \in Batches, b = pending[t], NEW u \in Threads
  PROVE  b[1] = t /\ ~InAdds(u, b) /\ ~InList(u, b) /\ ~InHand(u, b) /\ (u # t => ~Awaits(u, b))
<1>1. MemoryOf(t) /\ b[1] = t
  BY MemoryIs, Owned
<1>2. b \notin ToSet(adds[u]) /\ b \notin ToSet(list[u])
  <2>1. u # t => b \notin ToSet(adds[u]) /\ b \notin ToSet(list[u])
    BY <1>1, Owned
  <2> QED
    BY <1>1, <2>1 DEF MemoryOf
<1>3. hand[u] # b
  <2>1. SUFFICES ASSUME hand[u] = b PROVE FALSE
    OBVIOUS
  <2>2. /\ Owning(u) => u = t
        /\ Stealing(u) => Listed(b) \/ b \in laundry[t]
        /\ Owning(u) \/ Stealing(u)
    BY <1>1, <2>1, Taken
  <2> QED
    BY <1>1, <2>1, <2>2, ListedIs DEF MemoryOf
<1>4. u # t => ~IsPending(u, b)
  BY <1>1, Owned DEF IsPending
<1> QED
  BY <1>1, <1>2, <1>3, <1>4 DEF Awaits, InAdds, InList, InHand

(* Batches D are filled: one becomes the pending batch, the others and the  *)
(* pending batch as it was are to be added.                                 *)
LEMMA BatchesFilled ==
  ASSUME RInv, NEW t \in Threads, pc[t] = "run", used' = [used EXCEPT ![t] = TRUE],
         UNCHANGED <<list, slot, hand>>,
         NEW W \in SUBSET Washed(t), NEW D \in SUBSET Batches, WashedBut(t, W, D),
         \A c \in D : c \in free[t] \cup W \cup Old(t), pending'[t] \in D,
         \A u \in Threads : u # t => pending'[u] = pending[u] /\ adds'[u] = adds[u] /\ pc'[u] = pc[u],
         ToSet(adds'[t]) = (IF used[t] THEN {pending[t]} ELSE {}) \cup (D \ {pending'[t]}),
         ToSet(adds'[t]) # {} => pc'[t] = "add"
  PROVE  /\ \A u \in Threads, c \in Batches : u # t \/ c \notin D => InBatch(u, c)' = InBatch(u, c)
         /\ \A c \in D : InBatch(t, c) = {} /\ InBatch(t, c)' = ToSet(bt'[c].procs)
<1>1. /\ adds[t] = <<>> /\ hand[t] = NULL /\ hand' = hand /\ list' = list
      /\ used'[t] /\ \A u \in Threads : u # t => used'[u] = used[u]
  BY Resting, Spaces DEF RInv
<1>2. /\ \A c \in Batches : bt'[c].window = bt[c].window
      /\ \A c \in Batches \ D : bt'[c].procs = IF c \in W THEN <<>> ELSE bt[c].procs
  BY DEF WashedBut
<1>3. \A c \in Batches : InSlot(c)' <=> InSlot(c)
  BY <1>2, SlotSame
<1>4. \A c \in D \cup W, u \in Threads : ~Awaits(u, c) /\ InBatch(u, c) = {}
  BY NoneAwaits
<1>5. ASSUME NEW u \in Threads, NEW c \in Batches, u # t PROVE InBatch(u, c)' = InBatch(u, c)
  <2>1. Awaits(u, c)' <=> Awaits(u, c)
    BY <1>1, <1>2, <1>3, <1>5, AwaitsSame
  <2>2. Awaits(u, c) => bt'[c].procs = bt[c].procs
    BY <1>2, <1>4
  <2> QED
    BY <2>1, <2>2, BatchSame
<1>6. ASSUME NEW c \in Batches, c \notin D PROVE InBatch(t, c)' = InBatch(t, c)
  <2>1. Awaits(t, c) <=> IsPending(t, c) \/ InList(t, c)
    BY <1>1, NoAdds DEF InHand
  <2>2. ~IsPending(t, c)' /\ (InList(t, c)' <=> InList(t, c)) /\ ~InHand(t, c)'
    BY <1>1, <1>2, <1>3, <1>6 DEF IsPending, InList, InHand
  <2>3. InAdds(t, c)' <=> IsPending(t, c)
    BY <1>6 DEF InAdds, IsPending
  <2>4. Awaits(t, c)' <=> Awaits(t, c)
    BY <2>1, <2>2, <2>3 DEF Awaits
  <2>5. Awaits(t, c) => bt'[c].procs = bt[c].procs
    BY <1>2, <1>4, <1>6
  <2> QED
    BY <2>4, <2>5, BatchSame
<1>7. ASSUME NEW c \in D PROVE InBatch(t, c)' = ToSet(bt'[c].procs)
  <2>1. IsPending(t, c)' \/ InAdds(t, c)'
    BY <1>1 DEF IsPending, InAdds
  <2> QED
    BY <2>1, AwaitsIs DEF Awaits
<1> QED
  BY <1>4, <1>5, <1>6, <1>7

(* The process that is enqueued joins one batch of t.                       *)
LEMMA Joins ==
  ASSUME RInv, NEW t \in Threads, NEW p \in Procs, Enqueued(t, p), pc[t] = "run", UNCHANGED <<slot, hand>>
  PROVE  \E d \in Batches : /\ InBatch(t, d)' = InBatch(t, d) \cup {p}
                            /\ \A u \in Threads, b \in Batches :
                                  u # t \/ b # d => InBatch(u, b)' = InBatch(u, b)
<1>0. /\ list' = list /\ used' = [used EXCEPT ![t] = TRUE] /\ adds[t] = <<>> /\ hand[t] = NULL
      /\ \A c \in Batches : bt'[c].window = bt[c].window /\ bt'[c].dirty = bt[c].dirty
      /\ bt' \in [Batches -> BatchType]
  BY Resting DEF Enqueued
<1>1. /\ pc \in [Threads -> Labels] /\ adds \in [Threads -> Seq(Batches)]
      /\ pending \in [Threads -> Batches] /\ used'[t] /\ \A u \in Threads : u # t => used'[u] = used[u]
  BY <1>0, Spaces DEF RInv
<1>2. PICK d \in Batches : d = pending[t]
  BY Types DEF RInv
<1>3. CASE /\ bt'[pending[t]].procs = Append(bt[pending[t]].procs, p)
           /\ \A c \in Batches : c # pending[t] => bt'[c].procs = bt[c].procs
           /\ UNCHANGED <<pending, adds, pc>>
  <2>1. /\ bt'[d].procs = Append(bt[d].procs, p) /\ \A c \in Batches : c # d => bt'[c].procs = bt[c].procs
    BY <1>2, <1>3
  <2>2. \A c \in Batches : InSlot(c)' <=> InSlot(c)
    BY <1>0, SlotSame
  <2>3. ASSUME NEW u \in Threads, NEW b \in Batches, u # t \/ b # d PROVE InBatch(u, b)' = InBatch(u, b)
    <3>1. CASE u # t
      <4>1. Awaits(u, b)' <=> Awaits(u, b)
        BY <1>0, <1>1, <1>3, <2>2, <3>1, AwaitsSame
      <4>2. Awaits(u, b) => b # d
        BY <1>2, <3>1, PendingOnly
      <4> QED
        BY <2>1, <4>1, <4>2, BatchSame
    <3>2. CASE u = t /\ b # d
      <4>1. (IsPending(t, b)' <=> IsPending(t, b)) /\ (InList(t, b)' <=> InList(t, b)) /\ (InHand(t, b)' <=> InHand(t, b))
        BY <1>0, <1>2, <1>3, <2>2, <3>2 DEF IsPending, InList, InHand
      <4>2. Awaits(t, b)' <=> Awaits(t, b)
        BY <1>0, <1>3, <4>1, NoAdds
      <4> QED
        BY <2>1, <3>2, <4>2, BatchSame
    <3> QED
      BY <2>3, <3>1, <3>2
  <2>4. InBatch(t, d)' = InBatch(t, d) \cup {p}
    <3>1. InBatch(t, d)' = ToSet(Append(bt[d].procs, p))
      BY <1>1, <1>2, <1>3, <2>1, AwaitsIs DEF Awaits, IsPending
    <3>2. InBatch(t, d) = ToSet(bt[d].procs)
      <4>1. CASE used[t]
        BY <1>2, <4>1, AwaitsIs DEF Awaits, IsPending
      <4>2. CASE ~used[t]
        <5>1. ToSet(bt[d].procs) = {}
          BY <1>2, <4>2, Owned, EmptyOf
        <5>2. d \in Old(t)
          BY <1>2, <4>2 DEF Old
        <5> QED
          BY <5>1, <5>2, NoneAwaits
      <4> QED
        BY <4>1, <4>2
    <3>3. bt[d].procs \in Seq(Procs)
      BY Types DEF RInv
    <3> QED
      BY <3>1, <3>2, <3>3, Appended
  <2> QED
    BY <2>3, <2>4
<1>4. ASSUME NEW W \in SUBSET Washed(t), NEW b \in Batches, b \in free[t] \cup W, used[t],
             bt'[b].procs = <<p>>,
             \A c \in Batches : c # b => bt'[c].procs = IF c \in W THEN <<>> ELSE bt[c].procs,
             pending' = [pending EXCEPT ![t] = b], laundry' = [laundry EXCEPT ![t] = laundry[t] \ W],
             adds' = [adds EXCEPT ![t] = <<pending[t]>>], pc' = [pc EXCEPT ![t] = "add"]
      PROVE  /\ InBatch(t, b)' = InBatch(t, b) \cup {p}
             /\ \A u \in Threads, c \in Batches : u # t \/ c # b => InBatch(u, c)' = InBatch(u, c)
  <2>1. PICK D \in SUBSET Batches : D = {b}
    OBVIOUS
  <2>2. WashedBut(t, W, D)
    BY <1>0, <1>4, <2>1 DEF WashedBut
  <2>3. /\ pending'[t] = b /\ adds'[t] = <<pending[t]>> /\ pc'[t] = "add"
        /\ \A u \in Threads : u # t => pending'[u] = pending[u] /\ adds'[u] = adds[u] /\ pc'[u] = pc[u]
    BY <1>1, <1>4
  <2>4. ToSet(adds'[t]) = (IF used[t] THEN {pending[t]} ELSE {}) \cup (D \ {pending'[t]})
    BY <1>4, <2>1, <2>3, SetOfOne
  <2>5. /\ \A u \in Threads, c \in Batches : u # t \/ c \notin D => InBatch(u, c)' = InBatch(u, c)
        /\ \A c \in D : InBatch(t, c) = {} /\ InBatch(t, c)' = ToSet(bt'[c].procs)
    <3>1. (\A c \in D : c \in free[t] \cup W \cup Old(t)) /\ pending'[t] \in D
      BY <1>4, <2>1, <2>3
    <3> QED
      BY <1>0, <2>2, <2>3, <2>4, <3>1, BatchesFilled
  <2> QED
    BY <1>4, <2>1, <2>5, SetOfOne
<1>5. CASE \E W \in SUBSET Washed(t) : \E b \in free[t] \cup W :
             /\ used[t] /\ b \in Batches /\ bt'[b].procs = <<p>>
             /\ \A c \in Batches : c # b => bt'[c].procs = IF c \in W THEN <<>> ELSE bt[c].procs
             /\ pending' = [pending EXCEPT ![t] = b] /\ laundry' = [laundry EXCEPT ![t] = laundry[t] \ W]
             /\ adds' = [adds EXCEPT ![t] = <<pending[t]>>] /\ pc' = [pc EXCEPT ![t] = "add"]
  BY <1>4, <1>5
<1> QED
  BY <1>3, <1>5 DEF Enqueued

(* Batches of t go from one list to another, and t waits for the same ones. *)
LEMMA Shuffled ==
  ASSUME RInv, NEW t \in Threads, asleep' = asleep, pmail' = pmail, curb' = curb,
         \A u \in Threads : u # t =>
            /\ used'[u] = used[u] /\ pending'[u] = pending[u] /\ adds'[u] = adds[u]
            /\ list'[u] = list[u] /\ hand'[u] = hand[u] /\ pc'[u] = pc[u],
         \A b \in Batches : b[1] # t => bt'[b].window = bt[b].window /\ slot'[b[1]] = slot[b[1]],
         \A b \in Batches : bt'[b].procs = bt[b].procs \/ \A u \in Threads : ~Awaits(u, b),
         \A b \in Batches : Awaits(t, b)' <=> Awaits(t, b)
  PROVE  Settled'
<1>1. ASSUME NEW u \in Threads, NEW b \in Batches PROVE InBatch(u, b)' = InBatch(u, b)
  <2>1. Awaits(u, b)' <=> Awaits(u, b)
    <3>1. CASE u = t
      BY <3>1
    <3>2. CASE u # t
      <4>1. b \in ToSet(adds[u]) \cup ToSet(list[u]) => b[1] # t
        BY <3>2, Owned
      <4>2. b[1] # t => (InSlot(b)' <=> InSlot(b)) /\ bt'[b].window = bt[b].window
        BY SlotSame
      <4> QED
        BY <3>2, <4>1, <4>2, AwaitsSame
    <3> QED
      BY <3>1, <3>2
  <2> QED
    BY <2>1, BatchSame
<1> QED
  BY <1>1, NothingMoves DEF InCurb

(* A batch that another thread has taken is in no list any more.            *)
LEMMA HandOnly ==
  ASSUME RInv, NEW t \in Threads, NEW h \in Batches, hand[t] = h, NEW u \in Threads
  PROVE  /\ ~IsPending(u, h) /\ ~InAdds(u, h) /\ ~InList(u, h)
         /\ InHand(u, h) => u = t
         /\ u # t \/ pc[t] = "clean" => ~Awaits(u, h)
<1>1. /\ ~InSlot(h) /\ (Owning(t) => h[1] = t)
      /\ Stealing(t) => bt[h].window # 0 /\ (Listed(h) \/ h \in laundry[h[1]])
      /\ h # NULL /\ (Owning(t) \/ Stealing(t))
      /\ \A v \in Threads : pc[v] \in {"add", "slot"} => h # Adding(v)
      /\ \A v \in Threads : hand[v] = h => v = t
  BY Taken
<1>2. h[1] \in Threads /\ MemoryOf(h[1]) /\ MemoryOf(t) /\ MemoryOf(u)
  BY MemoryIs, Types DEF RInv
<1>3. CASE Owning(t)
  <2>1. h \notin ToSet(adds[t]) \cup ToSet(list[t]) /\ h # pending[t]
    BY <1>2, <1>3 DEF MemoryOf
  <2>2. u # t => h \notin ToSet(adds[u]) \cup ToSet(list[u]) /\ h # pending[u]
    BY <1>1, <1>3, Owned
  <2> QED
    BY <1>1, <1>3, <2>1, <2>2 DEF IsPending, InAdds, InList, InHand, Awaits, Owning
<1>4. CASE Stealing(t)
  <2>1. u # h[1] => h \notin ToSet(adds[u]) \cup ToSet(list[u]) /\ h # pending[u]
    BY Owned
  <2>2. h # pending[u]
    BY <1>1, <1>2, <1>4, <2>1, ListedIs DEF MemoryOf
  <2>3. h \in ToSet(adds[u]) => h = Adding(u) /\ pc[u] \notin {"add", "slot"}
    <3>1. SUFFICES ASSUME h \in ToSet(adds[u]) PROVE h = Adding(u)
      BY <1>1
    <3>2. u = h[1] /\ h \notin laundry[u]
      BY <1>2, <2>1, <3>1 DEF MemoryOf
    <3> QED
      BY <1>1, <1>2, <1>4, <3>1, <3>2 DEF Listed, MemoryOf
  <2> QED
    BY <1>1, <1>4, <2>2, <2>3 DEF IsPending, InAdds, InList, InHand, Awaits
<1> QED
  BY <1>1, <1>3, <1>4

(* Every process stays in one place.                                        *)
LEMMA SettledStep == RInv /\ [Next]_vars => Settled'
<1> SUFFICES ASSUME RInv, [Next]_vars PROVE Settled'
  OBVIOUS
<1>0. CASE UNCHANGED vars
  BY <1>0, SMTT(40) DEF RInv, vars, queue, window, env, local, Settled, Places, Waiting, InSlot, Adding
<1>1. ASSUME NEW t \in Threads, Run(t) PROVE Settled'
  <2>1. pc[t] = "run" /\ UNCHANGED <<slot, hand>>
    BY <1>1, RunEffect
  <2>2. adds[t] = <<>> /\ hand[t] = NULL /\ asleep \subseteq Procs
    BY <2>1, Resting, Types DEF RInv
  <2>3. UNCHANGED <<bt, list, pending, used, adds, pc>> =>
           \A u \in Threads, b \in Batches : InBatch(u, b)' = InBatch(u, b)
    BY <2>1, <2>2, BatchesStill
  <2>4. \A X : CurbBecomes(t, X) => InCurb(t)' = X /\ \A u \in Threads : u # t => InCurb(u)' = InCurb(u)
    BY DEF CurbBecomes, InCurb
  <2>5. Asleep \in Spots /\ Curb(t) \in Spots /\ Asleep # Curb(t)
    BY SpotsDiffer
  <2>6. /\ Held(Asleep) = asleep /\ Held(Asleep)' = asleep'
        /\ Held(Curb(t)) = InCurb(t) /\ Held(Curb(t))' = InCurb(t)'
    BY HeldThere, HeldThereNext
  <2>7. CASE CurbBecomes(t, InCurb(t)) /\ UNCHANGED <<bt, list, pending, used, pmail, asleep, pc, adds>>
    BY <2>3, <2>4, <2>7, NothingMoves
  <2>8. CASE \E p \in InCurb(t) : /\ CurbBecomes(t, InCurb(t) \ {p}) /\ asleep' = asleep \cup {p}
                                  /\ UNCHANGED <<bt, list, pending, used, pmail, pc, adds>>
    <3>1. PICK p \in InCurb(t) : /\ CurbBecomes(t, InCurb(t) \ {p}) /\ asleep' = asleep \cup {p}
                                 /\ UNCHANGED <<bt, list, pending, used, pmail, pc, adds>>
      BY <2>8
    <3>2. PICK a \in Spots, c \in Spots : a = Curb(t) /\ c = Asleep
      BY <2>5
    <3>3. a # c /\ p \in Held(a) /\ Held(a)' = Held(a) \ {p} /\ Held(c)' = Held(c) \cup {p}
      BY <2>4, <2>5, <2>6, <3>1, <3>2
    <3>4. /\ Asleep \in {a, c} /\ pmail' = pmail
          /\ \A u \in Threads : Curb(u) \in {a, c} \/ InCurb(u)' = InCurb(u)
      BY <2>4, <3>1, <3>2
    <3> QED
      BY <2>3, <3>1, <3>3, <3>4, GoesTo
  <2>9. CASE \E r \in asleep :
                /\ asleep' = asleep \ {r} /\ CurbBecomes(t, InCurb(t) \cup {r})
                /\ UNCHANGED <<bt, list, pending, used, pmail, pc, adds>>
    <3>1. PICK r \in asleep : /\ asleep' = asleep \ {r} /\ CurbBecomes(t, InCurb(t) \cup {r})
                              /\ UNCHANGED <<bt, list, pending, used, pmail, pc, adds>>
      BY <2>9
    <3>2. PICK a \in Spots, c \in Spots : a = Asleep /\ c = Curb(t)
      BY <2>5
    <3>3. a # c /\ r \in Held(a) /\ Held(a)' = Held(a) \ {r} /\ Held(c)' = Held(c) \cup {r}
      BY <2>4, <2>5, <2>6, <3>1, <3>2
    <3>4. /\ Asleep \in {a, c} /\ pmail' = pmail
          /\ \A u \in Threads : Curb(u) \in {a, c} \/ InCurb(u)' = InCurb(u)
      BY <2>4, <3>1, <3>2
    <3> QED
      BY <2>3, <3>1, <3>3, <3>4, GoesTo
  <2>10. CASE \E r \in asleep :
                /\ asleep' = asleep \ {r} /\ CurbBecomes(t, InCurb(t)) /\ Enqueued(t, r) /\ UNCHANGED pmail
    <3>1. PICK r \in asleep : /\ asleep' = asleep \ {r} /\ CurbBecomes(t, InCurb(t))
                              /\ Enqueued(t, r) /\ UNCHANGED pmail
      BY <2>10
    <3>2. PICK d \in Batches : /\ InBatch(t, d)' = InBatch(t, d) \cup {r}
                               /\ \A u \in Threads, b \in Batches :
                                     u # t \/ b # d => InBatch(u, b)' = InBatch(u, b)
      BY <2>1, <2>2, <3>1, Joins
    <3>3. PICK a \in Spots, c \in Spots : a = Asleep /\ c = Batch(t, d)
      BY SpotsDiffer
    <3>4. Held(Batch(t, d)) = InBatch(t, d) /\ Held(Batch(t, d))' = InBatch(t, d)'
      BY HeldThere, HeldThereNext
    <3>5. a # c /\ r \in Held(a) /\ Held(a)' = Held(a) \ {r} /\ Held(c)' = Held(c) \cup {r}
      BY <2>6, <3>1, <3>2, <3>3, <3>4, SpotsDiffer
    <3>6. /\ Asleep \in {a, c} /\ pmail' = pmail
          /\ \A u \in Threads : InCurb(u)' = InCurb(u)
          /\ \A u \in Threads, b \in Batches : Batch(u, b) \in {a, c} \/ InBatch(u, b)' = InBatch(u, b)
      BY <2>4, <3>1, <3>2, <3>3
    <3> QED
      BY <3>5, <3>6, GoesTo
  <2>11. CASE \E r \in asleep :
                /\ asleep' = asleep \ {r} /\ Home[r] \notin {NULL, t} /\ CurbBecomes(t, InCurb(t))
                /\ pmail' = [pmail EXCEPT ![Home[r]] = pmail[Home[r]] \cup {r}]
                /\ UNCHANGED <<bt, list, pending, used, pc, adds>>
    <3>1. PICK r \in asleep : /\ asleep' = asleep \ {r} /\ Home[r] \notin {NULL, t} /\ CurbBecomes(t, InCurb(t))
                              /\ pmail' = [pmail EXCEPT ![Home[r]] = pmail[Home[r]] \cup {r}]
                              /\ UNCHANGED <<bt, list, pending, used, pc, adds>>
      BY <2>11
    <3>2. PICK h \in Threads : h = Home[r]
      BY <2>2, <3>1, HomeAssumption
    <3>3. pmail'[h] = pmail[h] \cup {r} /\ \A u \in Threads : u # h => pmail'[u] = pmail[u]
      BY <3>1, <3>2, Spaces DEF RInv
    <3>4. PICK a \in Spots, c \in Spots : a = Asleep /\ c = MailOf(h)
      BY SpotsDiffer
    <3>5. Held(MailOf(h)) = pmail[h] /\ Held(MailOf(h))' = pmail'[h]
      BY HeldThere, HeldThereNext
    <3>6. a # c /\ r \in Held(a) /\ Held(a)' = Held(a) \ {r} /\ Held(c)' = Held(c) \cup {r}
      BY <2>6, <3>1, <3>3, <3>4, <3>5, SpotsDiffer
    <3>7. /\ Asleep \in {a, c} /\ \A u \in Threads : InCurb(u)' = InCurb(u)
          /\ \A u \in Threads : MailOf(u) \in {a, c} \/ pmail'[u] = pmail[u]
      BY <2>4, <3>1, <3>3, <3>4
    <3>8. \A u \in Threads, b \in Batches : InBatch(u, b)' = InBatch(u, b)
      BY <2>3, <3>1
    <3> QED
      BY <3>6, <3>7, <3>8, GoesTo
  <2> QED
    BY <1>1, <2>7, <2>8, <2>9, <2>10, <2>11, RunEffect
<1>2. ASSUME NEW t \in Threads, TakeMail(t) PROVE Settled'
  <2>1. pc[t] = "run" /\ UNCHANGED <<slot, hand, asleep>>
    BY <1>2, MailEffect
  <2>2. PICK p \in pmail[t] :
               /\ pmail' = [pmail EXCEPT ![t] = pmail[t] \ {p}]
               /\ \/ /\ CurbBecomes(t, InCurb(t) \cup {p})
                     /\ UNCHANGED <<bt, list, pending, used, pc, adds>>
                  \/ Enqueued(t, p) /\ UNCHANGED curb
    BY <1>2, MailEffect
  <2>3. adds[t] = <<>> /\ hand[t] = NULL /\ p \in Procs
    BY <2>1, <2>2, Resting, Types DEF RInv
  <2>4. pmail'[t] = pmail[t] \ {p} /\ \A u \in Threads : u # t => pmail'[u] = pmail[u]
    BY <2>2, Spaces DEF RInv
  <2>5. PICK a \in Spots : a = MailOf(t)
    BY SpotsDiffer
  <2>6. p \in Held(a) /\ Held(a)' = Held(a) \ {p}
    <3>1. Held(MailOf(t)) = pmail[t] /\ Held(MailOf(t))' = pmail'[t]
      BY HeldThere, HeldThereNext
    <3> QED
      BY <2>4, <2>5, <3>1
  <2>7. CASE CurbBecomes(t, InCurb(t) \cup {p}) /\ UNCHANGED <<bt, list, pending, used, pc, adds>>
    <3>1. PICK c \in Spots : c = Curb(t)
      BY SpotsDiffer
    <3>2. InCurb(t)' = InCurb(t) \cup {p} /\ \A u \in Threads : u # t => InCurb(u)' = InCurb(u)
      BY <2>7 DEF CurbBecomes, InCurb
    <3>3. Held(Curb(t)) = InCurb(t) /\ Held(Curb(t))' = InCurb(t)'
      BY HeldThere, HeldThereNext
    <3>4. a # c /\ Held(c)' = Held(c) \cup {p}
      BY <2>5, <3>1, <3>2, <3>3, SpotsDiffer
    <3>5. /\ \A u \in Threads : MailOf(u) \in {a, c} \/ pmail'[u] = pmail[u]
          /\ \A u \in Threads : Curb(u) \in {a, c} \/ InCurb(u)' = InCurb(u)
      BY <2>4, <2>5, <3>1, <3>2
    <3>6. \A u \in Threads, b \in Batches : InBatch(u, b)' = InBatch(u, b)
      BY <2>1, <2>3, <2>7, BatchesStill
    <3> QED
      BY <2>1, <2>6, <3>4, <3>5, <3>6, GoesTo
  <2>8. CASE Enqueued(t, p) /\ UNCHANGED curb
    <3>1. PICK d \in Batches : /\ InBatch(t, d)' = InBatch(t, d) \cup {p}
                               /\ \A u \in Threads, b \in Batches :
                                     u # t \/ b # d => InBatch(u, b)' = InBatch(u, b)
      BY <2>1, <2>3, <2>8, Joins
    <3>2. PICK c \in Spots : c = Batch(t, d)
      BY SpotsDiffer
    <3>3. Held(Batch(t, d)) = InBatch(t, d) /\ Held(Batch(t, d))' = InBatch(t, d)'
      BY HeldThere, HeldThereNext
    <3>4. a # c /\ Held(c)' = Held(c) \cup {p}
      BY <2>5, <3>1, <3>2, <3>3, SpotsDiffer
    <3>5. /\ \A u \in Threads : MailOf(u) \in {a, c} \/ pmail'[u] = pmail[u]
          /\ \A u \in Threads : InCurb(u)' = InCurb(u)
          /\ \A u \in Threads, b \in Batches : Batch(u, b) \in {a, c} \/ InBatch(u, b)' = InBatch(u, b)
      BY <2>4, <2>5, <2>8, <3>1, <3>2 DEF InCurb
    <3> QED
      BY <2>1, <2>6, <3>4, <3>5, GoesTo
  <2> QED
    BY <2>2, <2>7, <2>8
<1>3. ASSUME NEW t \in Threads, KeepCurb(t) PROVE Settled'
  <2>1. /\ pc[t] = "run" /\ UNCHANGED <<bt, list, pending, used, adds, slot, hand, asleep, pmail, pc>>
        /\ Emptied(t, curb[t].procs, curb[t].affine)
    BY <1>3, KeepEffect
  <2>2. adds[t] = <<>> /\ hand[t] = NULL
    BY <2>1, Resting
  <2>3. \A u \in Threads, b \in Batches : InBatch(u, b)' = InBatch(u, b)
    BY <2>1, <2>2, BatchesStill
  <2>4. \A u \in Threads : InCurb(u)' = InCurb(u)
    BY <2>1 DEF Emptied, InCurb
  <2> QED
    BY <2>1, <2>3, <2>4, NothingMoves
<1>4. ASSUME NEW t \in Threads, PushCurb(t) PROVE Settled'
  <2>1. /\ pc[t] = "run" /\ UNCHANGED <<list, slot, hand, asleep, pmail>>
        /\ used' = [used EXCEPT ![t] = TRUE] /\ Emptied(t, <<>>, curb[t].affine)
        /\ (PushedOne(t) \/ PushedTwo(t)) /\ curb[t].procs # <<>>
    BY <1>4, PushEffect
  <2>2. /\ adds \in [Threads -> Seq(Batches)] /\ pc \in [Threads -> Labels]
        /\ pending \in [Threads -> Batches] /\ TypeOK
        /\ curb[t].procs \in Seq(Procs) /\ IsInjective(curb[t].procs)
    BY Spaces, Types, ContentIs DEF RInv, CurbOf
  <2>3. InCurb(t)' = {} /\ \A u \in Threads : u # t => InCurb(u)' = InCurb(u)
    BY <2>1, EmptyOf DEF Emptied, InCurb
  <2>4. PICK k \in Spots : k = Curb(t)
    BY SpotsDiffer
  <2>5. Held(k) = InCurb(t) /\ Held(k)' = {}
    <3>1. Held(Curb(t)) = InCurb(t) /\ Held(Curb(t))' = InCurb(t)'
      BY HeldThere, HeldThereNext
    <3> QED
      BY <2>3, <2>4, <3>1
  <2>6. CASE PushedOne(t)
    <3>1. PICK W \in SUBSET Washed(t), b \in Batches :
            /\ b \in free[t] \cup W /\ WashedBut(t, W, {b})
            /\ bt'[b].procs = curb[t].procs /\ pending' = [pending EXCEPT ![t] = b]
            /\ adds' = [adds EXCEPT ![t] = OldAdds(t)]
            /\ pc' = [pc EXCEPT ![t] = IF used[t] THEN "add" ELSE "pick"]
      BY <2>6 DEF PushedOne
    <3>2. PICK D \in SUBSET Batches : D = {b}
      OBVIOUS
    <3>3. /\ pending'[t] = b /\ adds'[t] = OldAdds(t)
          /\ \A u \in Threads : u # t => pending'[u] = pending[u] /\ adds'[u] = adds[u] /\ pc'[u] = pc[u]
      BY <2>2, <3>1
    <3>4. ToSet(adds'[t]) = (IF used[t] THEN {pending[t]} ELSE {}) \cup (D \ {pending'[t]})
      BY <2>2, <3>2, <3>3, PushedAdds
    <3>5. ToSet(adds'[t]) # {} => pc'[t] = "add"
      BY <2>2, <3>1, <3>2, <3>3, <3>4
    <3>6. WashedBut(t, W, D) /\ (\A c \in D : c \in free[t] \cup W \cup Old(t)) /\ pending'[t] \in D
      BY <3>1, <3>2, <3>3
    <3>7. /\ \A u \in Threads, c \in Batches : u # t \/ c \notin D => InBatch(u, c)' = InBatch(u, c)
          /\ \A c \in D : InBatch(t, c) = {} /\ InBatch(t, c)' = ToSet(bt'[c].procs)
      BY <2>1, <3>3, <3>4, <3>5, <3>6, BatchesFilled
    <3>8. PICK c \in Spots : c = Batch(t, b)
      BY SpotsDiffer
    <3>9. Held(c) = {} /\ Held(c)' = InCurb(t)
      <4>1. Held(Batch(t, b)) = InBatch(t, b) /\ Held(Batch(t, b))' = InBatch(t, b)'
        BY HeldThere, HeldThereNext
      <4> QED
        BY <3>1, <3>2, <3>7, <3>8, <4>1 DEF InCurb
    <3>10. PICK X \in SUBSET Held(k) : X = InCurb(t)
      BY <2>5
    <3>11. k # c /\ Held(k)' = Held(k) \ X /\ Held(c)' = Held(c) \cup X
      BY <2>4, <2>5, <3>8, <3>9, <3>10, SpotsDiffer
    <3>12. /\ \A u \in Threads : Curb(u) \in {k, c} \/ InCurb(u)' = InCurb(u)
           /\ \A u \in Threads, e \in Batches : Batch(u, e) \in {k, c} \/ InBatch(u, e)' = InBatch(u, e)
      BY <2>3, <2>4, <3>2, <3>7, <3>8
    <3> QED
      BY <2>1, <3>11, <3>12, MovedFrom
  <2>7. CASE PushedTwo(t)
    <3>1. PICK W \in SUBSET Washed(t), b \in Batches, d \in Batches :
            /\ b \in free[t] \cup W /\ d \in (free[t] \cup W \cup Old(t)) \ {b}
            /\ WashedBut(t, W, {b, d})
            /\ bt'[b].procs = <<Head(curb[t].procs)>> /\ bt'[d].procs = Tail(curb[t].procs)
            /\ pending' = [pending EXCEPT ![t] = d]
            /\ adds' = [adds EXCEPT ![t] = OldAdds(t) \o <<b>>]
            /\ pc' = [pc EXCEPT ![t] = "add"]
      BY <2>7 DEF PushedTwo
    <3>2. PICK D \in SUBSET Batches : D = {b, d}
      OBVIOUS
    <3>3. /\ pending'[t] = d /\ adds'[t] = OldAdds(t) \o <<b>> /\ pc'[t] = "add" /\ b # d
          /\ \A u \in Threads : u # t => pending'[u] = pending[u] /\ adds'[u] = adds[u] /\ pc'[u] = pc[u]
      BY <2>2, <3>1
    <3>4. ToSet(adds'[t]) = (IF used[t] THEN {pending[t]} ELSE {}) \cup (D \ {pending'[t]})
      BY <2>2, <3>2, <3>3, PushedAdds
    <3>5. WashedBut(t, W, D) /\ (\A c \in D : c \in free[t] \cup W \cup Old(t)) /\ pending'[t] \in D
      BY <3>1, <3>2, <3>3
    <3>6. /\ \A u \in Threads, c \in Batches : u # t \/ c \notin D => InBatch(u, c)' = InBatch(u, c)
          /\ \A c \in D : InBatch(t, c) = {} /\ InBatch(t, c)' = ToSet(bt'[c].procs)
      BY <2>1, <3>3, <3>4, <3>5, BatchesFilled
    <3> DEFINE H == {Head(curb[t].procs)}
               T == ToSet(Tail(curb[t].procs))
    <3>7. PICK X \in SUBSET Procs, Y \in SUBSET Procs : X = H /\ Y = T
      <4>1. /\ Head(curb[t].procs) \in Procs /\ Tail(curb[t].procs) \in Seq(Procs)
        BY <2>1, <2>2, HeadAndTail
      <4>2. ToSet(Tail(curb[t].procs)) \subseteq Procs
        BY <4>1, SetOf
      <4> QED
        BY <4>1, <4>2
    <3>8. X \cup Y = InCurb(t) /\ X \cap Y = {}
      BY <2>1, <2>2, <3>7, HeadAndTail DEF InCurb
    <3>9. InBatch(t, b)' = X /\ InBatch(t, d)' = Y
      BY <3>1, <3>2, <3>6, <3>7, SetOfOne
    <3>10. PICK a \in Spots, c \in Spots : a = Batch(t, b) /\ c = Batch(t, d)
      BY SpotsDiffer
    <3>11. Held(a)' = X /\ Held(c)' = Y /\ a # c /\ a # k /\ c # k
      <4>1. Held(Batch(t, b))' = InBatch(t, b)' /\ Held(Batch(t, d))' = InBatch(t, d)'
        BY HeldThereNext
      <4> QED
        BY <2>4, <3>3, <3>9, <3>10, <4>1, SpotsDiffer
    <3>12. \A x \in Spots \ {k, a, c} : Held(x)' = Held(x)
      <4>1. PICK A : A = {k, a, c}
        OBVIOUS
      <4>2. /\ \A u \in Threads : Curb(u) \in A \/ InCurb(u)' = InCurb(u)
            /\ \A u \in Threads, e \in Batches : Batch(u, e) \in A \/ InBatch(u, e)' = InBatch(u, e)
        BY <2>3, <2>4, <3>2, <3>6, <3>10, <4>1
      <4>3. \A x \in Spots \ A : Held(x)' = Held(x)
        BY <2>1, <4>2, SpotsSame
      <4> QED
        BY <4>1, <4>3
    <3>13. Held(a) = {} /\ Held(c) = {}
      <4>1. Held(Batch(t, b)) = InBatch(t, b) /\ Held(Batch(t, d)) = InBatch(t, d)
        BY HeldThere
      <4> QED
        BY <3>2, <3>6, <3>10, <4>1
    <3>14. ASSUME NEW p \in Procs, NEW x \in Spots
           PROVE  p \in Held(x)' <=> IF p \in X THEN x = a ELSE IF p \in Y THEN x = c ELSE p \in Held(x)
      <4>1. p \in X \cup Y /\ x # k => p \notin Held(x)
        BY <2>5, <3>8, ElseNowhere DEF RInv
      <4>2. CASE x = k
        BY <2>5, <3>8, <3>11, <4>2
      <4>3. CASE x = a
        BY <3>8, <3>11, <3>13, <4>3
      <4>4. CASE x = c
        BY <3>8, <3>11, <3>13, <4>4
      <4>5. CASE x \notin {k, a, c}
        BY <3>12, <4>1, <4>5
      <4> QED
        BY <4>2, <4>3, <4>4, <4>5
    <3>15. Settled /\ a \in Spots /\ c \in Spots
      BY DEF RInv
    <3>16. ASSUME NEW p \in Procs
           PROVE  \E x \in Spots : \A y \in Spots : p \in Held(y)' <=> y = x
      <4>1. PICK x \in Spots : \A y \in Spots : p \in Held(y) <=> y = x
        BY <3>15, OneSpot
      <4> QED
        BY <3>14, <4>1
    <3> QED
      BY <3>16, SettledFrom
  <2> QED
    BY <2>1, <2>6, <2>7
<1>5. ASSUME NEW t \in Threads, AddAffine(t) PROVE Settled'
  <2>1. /\ pc[t] = "add" /\ Marked(Adding(t), 0, FALSE) /\ Added(t)
        /\ list' = [list EXCEPT ![t] = Append(list[t], Adding(t))]
        /\ UNCHANGED <<pending, used, slot, hand, curb, asleep, pmail>>
    BY <1>5, AddAffineEffect
  <2>2. /\ pc'[t] \in {"add", "pick", "run"} /\ (pc'[t] = "add" <=> adds'[t] # <<>>)
        /\ adds'[t] = Tail(adds[t])
        /\ \A u \in Threads : u # t => pc'[u] = pc[u] /\ adds'[u] = adds[u]
    BY <2>1, AddedStage
  <2>3. PICK a \in Batches : a = Adding(t) /\ a[1] = t /\ ~InSlot(a)
    BY <2>1, Unseen
  <2>4. /\ bt'[a].window = 0
        /\ \A b \in Batches : bt'[b].procs = bt[b].procs /\ (b # a => bt'[b].window = bt[b].window)
    BY <2>1, <2>3 DEF Marked
  <2>5. \A u \in Threads : u # t => list'[u] = list[u]
    BY <2>1, Spaces DEF RInv
  <2>6. ToSet(list'[t]) = ToSet(list[t]) \cup {a}
    <3>1. list'[t] = Append(list[t], a) /\ list[t] \in Seq(Batches)
      BY <2>1, <2>3, Spaces DEF RInv
    <3> QED
      BY <3>1, Appended
  <2>7. ToSet(adds'[t]) = ToSet(adds[t]) \ {a} /\ a \in ToSet(adds[t])
    BY <2>1, <2>2, <2>3, AddingIs
  <2>8. hand[t] = NULL
    BY <2>1, Resting
  <2>9. ASSUME NEW b \in Batches PROVE Awaits(t, b)' <=> Awaits(t, b)
    <3>1. (IsPending(t, b)' <=> IsPending(t, b)) /\ ~InHand(t, b) /\ ~InHand(t, b)'
      BY <2>1, <2>8 DEF IsPending, InHand
    <3>2. (InAdds(t, b) <=> b \in ToSet(adds[t])) /\ (InAdds(t, b)' <=> b \in ToSet(adds'[t]))
      BY <2>1, <2>2, EmptyOf DEF InAdds
    <3>3. CASE b = a
      <4>1. InList(t, b)'
        BY <2>4, <2>6, <3>3 DEF InList
      <4> QED
        BY <2>7, <3>2, <3>3, <4>1 DEF Awaits
    <3>4. CASE b # a
      <4>1. InSlot(b)' <=> InSlot(b)
        BY <2>1, <2>4, <3>4, SlotSame
      <4>2. InList(t, b)' <=> InList(t, b)
        BY <2>4, <2>6, <3>4, <4>1 DEF InList
      <4> QED
        BY <2>7, <3>1, <3>2, <3>4, <4>2 DEF Awaits
    <3> QED
      BY <3>3, <3>4
  <2> QED
    BY <2>1, <2>2, <2>3, <2>4, <2>5, <2>9, Shuffled
<1>6. ASSUME NEW t \in Threads, AddVisible(t) PROVE Settled'
  <2>1. /\ pc[t] = "add" /\ Marked(Adding(t), NextWindow(mw[t].head), TRUE)
        /\ pc' = [pc EXCEPT ![t] = "slot"]
        /\ UNCHANGED <<list, adds, pending, used, slot, hand, curb, asleep, pmail>>
    BY <1>6, AddVisibleEffect
  <2>2. pc'[t] = "slot" /\ \A u \in Threads : u # t => pc'[u] = pc[u]
    BY <2>1, Spaces DEF RInv
  <2>3. PICK a \in Batches : a = Adding(t) /\ a[1] = t /\ ~InSlot(a)
    BY <2>1, Unseen
  <2>4. \A b \in Batches : bt'[b].procs = bt[b].procs /\ (b # a => bt'[b].window = bt[b].window)
    BY <2>1, <2>3 DEF Marked
  <2>5. ~Listed(a) /\ a \notin ToSet(list[t])
    BY <2>1, <2>3, ListedIs DEF Listed
  <2>6. hand[t] = NULL
    BY <2>1, Resting
  <2>7. ASSUME NEW b \in Batches PROVE Awaits(t, b)' <=> Awaits(t, b)
    <3>1. (IsPending(t, b)' <=> IsPending(t, b)) /\ ~InHand(t, b) /\ ~InHand(t, b)'
      BY <2>1, <2>6 DEF IsPending, InHand
    <3>2. (InAdds(t, b) <=> b \in ToSet(adds[t])) /\ (InAdds(t, b)' <=> b \in ToSet(adds'[t]))
      BY <2>1, <2>2 DEF InAdds
    <3>3. InList(t, b)' <=> InList(t, b)
      <4>1. b # a => (InSlot(b)' <=> InSlot(b)) /\ bt'[b].window = bt[b].window
        BY <2>1, <2>4, SlotSame
      <4> QED
        BY <2>1, <2>5, <4>1 DEF InList
    <3> QED
      BY <2>1, <3>1, <3>2, <3>3 DEF Awaits
  <2> QED
    BY <2>1, <2>2, <2>3, <2>4, <2>7, Shuffled
<1>7. ASSUME NEW t \in Threads, FillSlot(t) PROVE Settled'
  <2>0. PICK w \in Windows : w = NextWindow(st[t].head)
    BY <1>7, FillEffect
  <2>x. PICK o \in Batches \cup {NULL} : o = slot[t][w]
    BY Types DEF RInv
  <2>1. /\ pc[t] = "slot" /\ Marked(o, 0, FALSE)
        /\ slot' = [slot EXCEPT ![t][w] = Adding(t)] /\ pc' = [pc EXCEPT ![t] = "publish"]
        /\ UNCHANGED <<list, adds, pending, used, hand, curb, asleep, pmail>>
    BY <1>7, <2>0, <2>x, FillEffect
  <2>2. pc'[t] = "publish" /\ \A u \in Threads : u # t => pc'[u] = pc[u]
    BY <2>1, Spaces DEF RInv
  <2>3. PICK a \in Batches : a = Adding(t) /\ a[1] = t /\ ~InSlot(a)
    BY <2>1, Unseen
  <2>4. /\ slot'[t][w] = a /\ \A v \in Windows : v # w => slot'[t][v] = slot[t][v]
        /\ \A u \in Threads : u # t => slot'[u] = slot[u]
    BY <2>1, <2>3, Spaces DEF RInv
  <2>5. /\ bt[a].window = w /\ w # 0 /\ a # o
        /\ o # NULL => o[1] = t /\ bt[o].window = w /\ InSlot(o) /\ Listed(o)
    <3>1. SlotOf(t, w) /\ MarkOf(t)
      BY <2>1, SlotIs
    <3>2. w # 0
      BY SizesAssumption DEF Windows
    <3>3. bt[a].window = w
      BY <2>0, <2>1, <2>3, <3>1 DEF MarkOf
    <3>4. o # NULL => o[1] = t /\ bt[o].window = w /\ Listed(o)
      BY <2>x, <3>1 DEF SlotOf
    <3>5. o # NULL => InSlot(o)
      BY <2>x, <3>2, <3>4 DEF InSlot
    <3> QED
      BY <2>3, <3>2, <3>3, <3>4, <3>5, NullAssumption
  <2>6. /\ \A b \in Batches : bt'[b].procs = bt[b].procs /\ (b # o => bt'[b].window = bt[b].window)
        /\ o \in Batches => bt'[o].window = 0
    BY <2>1 DEF Marked
  <2>7. a \in ToSet(adds[t]) /\ Adding(t)' = a /\ hand[t] = NULL
    BY <2>1, <2>3, AddingIs, Resting DEF Adding
  <2>8. o # NULL => o \in ToSet(list[t])
    BY <2>1, <2>5 DEF Listed
  <2>9. ASSUME NEW b \in Batches, b # a, b # o PROVE InSlot(b)' <=> InSlot(b)
    <3>1. b[1] \in Threads /\ bt[b].window \in 0..MWINDOW_SIZE
      BY Types DEF RInv
    <3>2. bt[b].window # 0 => bt[b].window \in Windows
      BY <3>1 DEF Windows
    <3>3. bt'[b].window = bt[b].window
      BY <2>6, <2>9
    <3>4. CASE b[1] = t /\ bt[b].window = w
      BY <2>x, <2>4, <2>9, <3>3, <3>4 DEF InSlot
    <3>5. CASE b[1] # t \/ bt[b].window # w
      BY <2>4, <3>1, <3>2, <3>3, <3>5 DEF InSlot
    <3> QED
      BY <3>4, <3>5
  <2>10. ASSUME NEW b \in Batches PROVE Awaits(t, b)' <=> Awaits(t, b)
    <3>1. (IsPending(t, b)' <=> IsPending(t, b)) /\ ~InHand(t, b) /\ ~InHand(t, b)'
      BY <2>1, <2>7 DEF IsPending, InHand
    <3>2. CASE b = a
      <4>1. InSlot(a)'
        BY <2>3, <2>4, <2>5, <2>6 DEF InSlot
      <4>2. InAdds(t, a) /\ InAdds(t, a)'
        BY <2>1, <2>7, <4>1 DEF InAdds
      <4> QED
        BY <3>2, <4>2 DEF Awaits
    <3>3. CASE b # a /\ b = o
      <4>1. InList(t, o) /\ InList(t, o)'
        BY <2>1, <2>5, <2>6, <2>8, <3>3, NullAssumption DEF InList
      <4> QED
        BY <3>3, <4>1 DEF Awaits
    <3>4. CASE b # a /\ b # o
      <4>1. InSlot(b)' <=> InSlot(b)
        BY <2>9, <3>4
      <4>2. InAdds(t, b)' <=> InAdds(t, b)
        BY <2>1, <2>3, <2>7, <3>4 DEF InAdds
      <4>3. InList(t, b)' <=> InList(t, b)
        BY <2>1, <2>6, <3>4, <4>1 DEF InList
      <4> QED
        BY <3>1, <4>2, <4>3 DEF Awaits
    <3> QED
      BY <3>2, <3>3, <3>4
  <2>11. \A b \in Batches : b[1] # t => bt'[b].window = bt[b].window /\ slot'[b[1]] = slot[b[1]]
    BY <2>4, <2>5, <2>6, Types, NullAssumption DEF RInv
  <2> QED
    BY <2>1, <2>2, <2>6, <2>10, <2>11, Shuffled
<1>8. ASSUME NEW t \in Threads, Publish(t) PROVE Settled'
  <2>1. /\ pc[t] = "publish" /\ list' = [list EXCEPT ![t] = Append(list[t], Adding(t))]
        /\ pc' = [pc EXCEPT ![t] = "advertise"]
        /\ UNCHANGED <<bt, adds, pending, used, slot, hand, curb, asleep, pmail>>
    BY <1>8 DEF Publish, At, Goto, local, env
  <2>2. /\ pc'[t] = "advertise" /\ \A u \in Threads : u # t => pc'[u] = pc[u] /\ list'[u] = list[u]
    BY <2>1, Spaces DEF RInv
  <2>3. PICK a \in Batches : a = Adding(t) /\ a \in ToSet(adds[t])
    BY <2>1, AddingIs
  <2>4. ToSet(list'[t]) = ToSet(list[t]) \cup {a}
    <3>1. list'[t] = Append(list[t], a) /\ list[t] \in Seq(Batches)
      BY <2>1, <2>3, Spaces DEF RInv
    <3> QED
      BY <3>1, Appended
  <2>5. bt[a].window # 0 /\ hand[t] = NULL
    BY <2>1, <2>3, SlotIs, Resting DEF MarkOf
  <2>6. ASSUME NEW b \in Batches PROVE Awaits(t, b)' <=> Awaits(t, b)
    <3>1. (IsPending(t, b)' <=> IsPending(t, b)) /\ ~InHand(t, b) /\ ~InHand(t, b)'
      BY <2>1, <2>5 DEF IsPending, InHand
    <3>2. InSlot(b)' <=> InSlot(b)
      BY <2>1, SlotSame
    <3>3. InAdds(t, b)' <=> InAdds(t, b)
      BY <2>1, <2>2, <3>2 DEF InAdds, Adding
    <3>4. b # a => (InList(t, b)' <=> InList(t, b))
      BY <2>1, <2>4, <3>2 DEF InList
    <3>5. b = a => (InAdds(t, b) <=> InSlot(b)) /\ (InList(t, b) => InSlot(b)) /\ (InList(t, b)' => InSlot(b)')
      BY <2>1, <2>3, <2>5 DEF InAdds, InList
    <3> QED
      BY <3>1, <3>2, <3>3, <3>4, <3>5 DEF Awaits
  <2> QED
    BY <2>1, <2>2, <2>6, Shuffled
<1>9. ASSUME NEW t \in Threads, Advertise(t) PROVE Settled'
  <2>1. /\ pc[t] = "advertise" /\ Added(t)
        /\ UNCHANGED <<bt, list, pending, used, slot, hand, curb, asleep, pmail>>
    BY <1>9 DEF Advertise, At, queue, env
  <2>2. /\ pc'[t] \in {"add", "pick", "run"} /\ (pc'[t] = "add" <=> adds'[t] # <<>>)
        /\ adds'[t] = Tail(adds[t])
        /\ \A u \in Threads : u # t => pc'[u] = pc[u] /\ adds'[u] = adds[u]
    BY <2>1, AddedStage
  <2>3. PICK a \in Batches : a = Adding(t) /\ a \in ToSet(adds[t]) /\ ToSet(adds'[t]) = ToSet(adds[t]) \ {a}
    BY <2>1, <2>2, AddingIs
  <2>4. bt[a].window # 0 /\ hand[t] = NULL /\ a \in ToSet(list[t])
    BY <2>1, <2>3, SlotIs, Resting, MemoryIs DEF MarkOf, MemoryOf
  <2>5. ASSUME NEW b \in Batches PROVE Awaits(t, b)' <=> Awaits(t, b)
    <3>1. (IsPending(t, b)' <=> IsPending(t, b)) /\ ~InHand(t, b) /\ ~InHand(t, b)'
      BY <2>1, <2>4 DEF IsPending, InHand
    <3>2. InSlot(b)' <=> InSlot(b)
      BY <2>1, SlotSame
    <3>3. InList(t, b)' <=> InList(t, b)
      BY <2>1, <3>2 DEF InList
    <3>4. InAdds(t, b)' <=> b \in ToSet(adds[t]) \ {a}
      BY <2>2, <2>3, EmptyOf DEF InAdds
    <3>5. b # a => (InAdds(t, b) <=> b \in ToSet(adds[t]))
      BY <2>3 DEF InAdds
    <3>6. b = a => (InAdds(t, b) => InList(t, b))
      BY <2>1, <2>3, <2>4 DEF InAdds, InList
    <3> QED
      BY <3>1, <3>3, <3>4, <3>5, <3>6 DEF Awaits
  <2> QED
    BY <2>1, <2>2, <2>5, Shuffled
<1>10. ASSUME NEW t \in Threads, Pull(t) PROVE Settled'
  <2>0. PICK b \in Batches : b = Head(list[t])
    BY <1>10, PullEffect
  <2>1. /\ Picking(t) /\ b[1] = t /\ b \in ToSet(list[t])
        /\ list' = [list EXCEPT ![t] = Tail(list[t])]
        /\ ToSet(Tail(list[t])) = ToSet(list[t]) \ {b}
        /\ UNCHANGED <<adds, pending, used, asleep, pmail>>
    BY <1>10, <2>0, PullEffect
  <2>2. \/ /\ bt[b].window = 0 /\ Emptied(t, bt[b].procs, HasAffinity(b)) /\ Drained(b)
           /\ pc' = [pc EXCEPT ![t] = "run"] /\ UNCHANGED <<slot, hand>>
        \/ /\ bt[b].window \in Windows /\ slot[t][bt[b].window] = b /\ bt[b].window # 0
           /\ slot' = [slot EXCEPT ![t][bt[b].window] = NULL]
           /\ hand' = [hand EXCEPT ![t] = b] /\ pc' = [pc EXCEPT ![t] = "unmark"]
           /\ UNCHANGED <<bt, curb>>
        \/ /\ bt[b].window # 0 /\ ~InSlot(b)
           /\ pc' = [pc EXCEPT ![t] = "pick"] /\ UNCHANGED <<bt, slot, hand, curb>>
    <3>1. LET d == Head(list[t]) IN
          \/ /\ bt[d].window = 0 /\ Emptied(t, bt[d].procs, HasAffinity(d)) /\ Drained(d)
             /\ pc' = [pc EXCEPT ![t] = "run"] /\ UNCHANGED <<slot, hand>>
          \/ /\ bt[d].window \in Windows /\ slot[t][bt[d].window] = d /\ bt[d].window # 0
             /\ slot' = [slot EXCEPT ![t][bt[d].window] = NULL]
             /\ hand' = [hand EXCEPT ![t] = d] /\ pc' = [pc EXCEPT ![t] = "unmark"]
             /\ UNCHANGED <<bt, curb>>
          \/ /\ bt[d].window # 0 /\ ~InSlot(d)
             /\ pc' = [pc EXCEPT ![t] = "pick"] /\ UNCHANGED <<bt, slot, hand, curb>>
      BY <1>10, PullEffect
    <3> QED
      BY <2>0, <3>1
  <2>3. adds[t] = <<>> /\ hand[t] = NULL /\ curb[t].procs = <<>>
    BY <2>1, Resting DEF Picking, At
  <2>4. /\ ToSet(list'[t]) = ToSet(list[t]) \ {b} /\ \A u \in Threads : u # t => list'[u] = list[u]
        /\ pc'[t] \in {"run", "unmark", "pick"} /\ \A u \in Threads : u # t => pc'[u] = pc[u]
    BY <2>1, <2>2, Spaces DEF RInv
  <2>5. CASE /\ bt[b].window = 0 /\ Emptied(t, bt[b].procs, HasAffinity(b)) /\ Drained(b)
             /\ UNCHANGED <<slot, hand>>
    <3>1. /\ bt'[b].procs = <<>>
          /\ \A c \in Batches : bt'[c].window = bt[c].window /\ (c # b => bt'[c].procs = bt[c].procs)
      BY <2>5 DEF Drained
    <3>2. \A c \in Batches : InSlot(c)' <=> InSlot(c)
      BY <2>5, <3>1, SlotSame
    <3>3. InBatch(t, b) = ToSet(bt[b].procs) /\ InBatch(t, b)' = {}
      BY <2>1, <2>5, <3>1, AwaitsIs, EmptyOf DEF Awaits, InList
    <3>4. ASSUME NEW u \in Threads, NEW c \in Batches, u # t \/ c # b PROVE InBatch(u, c)' = InBatch(u, c)
      <4>1. CASE u # t
        <5>1. Awaits(u, c)' <=> Awaits(u, c)
          BY <2>1, <2>4, <2>5, <3>1, <3>2, <4>1, AwaitsSame
        <5>2. Awaits(u, c) => c # b
          BY <2>1, <2>5, <4>1, OnlyInHand
        <5> QED
          BY <3>1, <5>1, <5>2, BatchSame
      <4>2. CASE u = t /\ c # b
        <5>1. /\ (IsPending(t, c)' <=> IsPending(t, c)) /\ ~InHand(t, c) /\ ~InHand(t, c)'
              /\ (InList(t, c)' <=> InList(t, c))
          BY <2>1, <2>3, <2>4, <2>5, <3>1, <3>2, <4>2 DEF IsPending, InList, InHand
        <5>2. Awaits(t, c)' <=> Awaits(t, c)
          BY <2>1, <2>3, <5>1, NoAdds
        <5> QED
          BY <3>1, <4>2, <5>2, BatchSame
      <4> QED
        BY <3>4, <4>1, <4>2
    <3> QED
      BY <2>1, <2>3, <2>5, <3>3, <3>4, Load DEF Emptied
  <2>6. CASE /\ bt[b].window \in Windows /\ slot[t][bt[b].window] = b /\ bt[b].window # 0
             /\ slot' = [slot EXCEPT ![t][bt[b].window] = NULL]
             /\ hand' = [hand EXCEPT ![t] = b] /\ pc' = [pc EXCEPT ![t] = "unmark"]
             /\ UNCHANGED <<bt, curb>>
    <3>1. /\ hand'[t] = b /\ pc'[t] = "unmark" /\ \A u \in Threads : u # t => hand'[u] = hand[u] /\ slot'[u] = slot[u]
          /\ \A w \in Windows : w # bt[b].window => slot'[t][w] = slot[t][w]
      BY <2>6, Spaces DEF RInv
    <3>2. InSlot(b)
      BY <2>1, <2>6 DEF InSlot
    <3>3. ASSUME NEW c \in Batches, c # b PROVE InSlot(c)' <=> InSlot(c)
      <4>1. c[1] \in Threads /\ bt[c].window \in 0..MWINDOW_SIZE
        BY Types DEF RInv
      <4>2. bt[c].window # 0 => bt[c].window \in Windows
        BY <4>1 DEF Windows
      <4>3. CASE c[1] = t /\ bt[c].window = bt[b].window
        <5>1. slot'[t][bt[b].window] = NULL
          BY <2>6, Spaces DEF RInv
        <5> QED
          BY <2>6, <3>3, <4>3, <5>1, NullAssumption DEF InSlot
      <4>4. CASE c[1] # t \/ bt[c].window # bt[b].window
        BY <2>6, <3>1, <4>1, <4>2, <4>4 DEF InSlot
      <4> QED
        BY <4>3, <4>4
    <3>4. ASSUME NEW c \in Batches PROVE Awaits(t, c)' <=> Awaits(t, c)
      <4>1. CASE c = b
        <5>1. InList(t, b) /\ InHand(t, b)'
          BY <2>1, <3>1, <3>2, NullAssumption DEF InList, InHand
        <5> QED
          BY <4>1, <5>1 DEF Awaits
      <4>2. CASE c # b
        <5>1. /\ (IsPending(t, c)' <=> IsPending(t, c)) /\ ~InHand(t, c) /\ ~InHand(t, c)'
              /\ (InList(t, c)' <=> InList(t, c))
          BY <2>1, <2>3, <2>4, <2>6, <3>1, <3>3, <4>2 DEF IsPending, InList, InHand
        <5> QED
          BY <2>1, <2>3, <5>1, NoAdds
      <4> QED
        BY <4>1, <4>2
    <3>5. \A c \in Batches : c[1] # t => slot'[c[1]] = slot[c[1]]
      BY <3>1, Types DEF RInv
    <3> QED
      BY <2>1, <2>4, <2>6, <3>1, <3>4, <3>5, Shuffled
  <2>7. CASE bt[b].window # 0 /\ ~InSlot(b) /\ UNCHANGED <<bt, slot, hand, curb>>
    <3>1. ASSUME NEW c \in Batches PROVE Awaits(t, c)' <=> Awaits(t, c)
      <4>1. InSlot(c)' <=> InSlot(c)
        BY <2>7, SlotSame
      <4>2. /\ (IsPending(t, c)' <=> IsPending(t, c)) /\ ~InHand(t, c) /\ ~InHand(t, c)'
            /\ (InList(t, c)' <=> InList(t, c))
        BY <2>1, <2>3, <2>4, <2>7, <4>1 DEF IsPending, InList, InHand
      <4> QED
        BY <2>1, <2>3, <4>2, NoAdds
    <3> QED
      BY <2>1, <2>4, <2>7, <3>1, Shuffled
  <2> QED
    BY <2>2, <2>5, <2>6, <2>7
<1>11. ASSUME NEW t \in Threads, UnmarkRead(t) PROVE Settled'
  <2>1. /\ pc[t] \in {"unmark"} /\ UNCHANGED <<bt, list, pending, used, adds, slot, hand, curb, asleep, pmail>>
        /\ \E l \in {"unmarkW"} : pc' = [pc EXCEPT ![t] = l]
    BY <1>11 DEF UnmarkRead, At, Goto, queue, window, env
  <2>2. pc'[t] \in {"unmarkW"} /\ \A u \in Threads : u # t => pc'[u] = pc[u]
    BY <2>1, Spaces DEF RInv
  <2>3. adds[t] = <<>> /\ (hand[t] = NULL \/ (pc[t] # "clean" /\ pc'[t] # "clean"))
    BY <2>1, <2>2, Resting
  <2>4. \A u \in Threads, b \in Batches : InBatch(u, b)' = InBatch(u, b)
    BY <2>1, <2>2, <2>3, BatchesStill
  <2> QED
    BY <2>1, <2>4, NothingMoves DEF InCurb
<1>12. ASSUME NEW t \in Threads, UnmarkWrite(t) PROVE Settled'
  <2>0. PICK h \in Batches : h = hand[t] /\ pc[t] = "unmarkW" /\ h[1] = t
    BY <1>12, UnmarkEffect
  <2>1. /\ Emptied(t, bt[h].procs, HasAffinity(h)) /\ pc' = [pc EXCEPT ![t] = "run"]
        /\ bt'[h].procs = <<>> /\ bt'[h].window = 0
        /\ \A c \in Batches : c # h => bt'[c].procs = bt[c].procs /\ bt'[c].window = bt[c].window
        /\ hand' = [hand EXCEPT ![t] = NULL]
        /\ UNCHANGED <<list, pending, used, slot, adds, asleep, pmail>>
    <3>1. /\ Emptied(t, bt[hand[t]].procs, HasAffinity(hand[t])) /\ pc' = [pc EXCEPT ![t] = "run"]
          /\ \A c \in Batches : /\ bt'[c].procs = IF c = hand[t] THEN <<>> ELSE bt[c].procs
                                /\ bt'[c].window = IF c = hand[t] THEN 0 ELSE bt[c].window
                                /\ bt'[c].dirty = IF c = hand[t] THEN FALSE ELSE bt[c].dirty
          /\ hand' = [hand EXCEPT ![t] = NULL]
          /\ UNCHANGED <<list, pending, used, slot, adds, asleep, pmail>>
      BY <1>12, UnmarkEffect
    <3> QED
      BY <2>0, <3>1
  <2>2. /\ pc'[t] = "run" /\ hand'[t] = NULL /\ adds[t] = <<>> /\ curb[t].procs = <<>>
        /\ \A u \in Threads : u # t => pc'[u] = pc[u] /\ hand'[u] = hand[u]
    BY <2>0, <2>1, Spaces, Resting DEF RInv
  <2>3. InBatch(t, h) = ToSet(bt[h].procs)
    BY <2>0, AwaitsIs, NullAssumption DEF Awaits, InHand
  <2>4. ASSUME NEW b \in Batches, b # h PROVE InSlot(b)' <=> InSlot(b)
    BY <2>1, <2>4, SlotSame
  <2>5. ASSUME NEW b \in Batches, b # h PROVE Awaits(t, b)' <=> Awaits(t, b)
    <3>1. (IsPending(t, b)' <=> IsPending(t, b)) /\ ~InHand(t, b) /\ ~InHand(t, b)'
      BY <2>0, <2>1, <2>2, <2>5 DEF IsPending, InHand
    <3>2. InList(t, b)' <=> InList(t, b)
      BY <2>1, <2>4, <2>5 DEF InList
    <3> QED
      BY <2>1, <2>2, <3>1, <3>2, NoAdds
  <2>6. InBatch(t, h)' = {}
    BY <2>1, AwaitsIs, EmptyOf
  <2>7. ASSUME NEW u \in Threads, NEW b \in Batches, u # t \/ b # h PROVE InBatch(u, b)' = InBatch(u, b)
    <3>1. CASE u # t /\ b # h
      <4>1. Awaits(u, b)' <=> Awaits(u, b)
        BY <2>1, <2>2, <2>4, <3>1, AwaitsSame
      <4> QED
        BY <2>1, <3>1, <4>1, BatchSame
    <3>2. CASE u # t /\ b = h
      <4>1. ~Awaits(u, h)
        BY <2>0, <3>2, HandOnly
      <4> QED
        BY <2>1, <3>2, <4>1, AwaitsIs, EmptyOf
    <3>3. CASE u = t /\ b # h
      BY <2>1, <2>5, <3>3, BatchSame
    <3> QED
      BY <2>7, <3>1, <3>2, <3>3
  <2> QED
    BY <2>1, <2>2, <2>3, <2>6, <2>7, Load DEF Emptied
<1>13. ASSUME NEW t \in Threads, PullPending(t) PROVE Settled'
  <2>0. PICK d \in Batches : d = pending[t]
    BY Types DEF RInv
  <2>1. /\ Emptied(t, bt[d].procs, HasAffinity(d)) /\ PulledPending(t) /\ Picking(t) /\ used[t]
        /\ used' = [used EXCEPT ![t] = FALSE] /\ pc' = [pc EXCEPT ![t] = "run"]
        /\ UNCHANGED <<list, slot, adds, hand, asleep, pmail>>
    BY <1>13, <2>0, PullPendingEffect
  <2>2. PICK W \in SUBSET Washed(t), n \in Batches :
            /\ n \in free[t] \cup W /\ WashedBut(t, W, {d})
            /\ bt'[d].procs = <<>> /\ pending' = [pending EXCEPT ![t] = n]
    BY <2>0, <2>1 DEF PulledPending
  <2>3. /\ pending'[t] = n /\ ~used'[t] /\ pc'[t] = "run"
        /\ \A u \in Threads : u # t => pending'[u] = pending[u] /\ pc'[u] = pc[u] /\ used'[u] = used[u]
    BY <2>1, <2>2, Spaces DEF RInv
  <2>4. adds[t] = <<>> /\ hand[t] = NULL /\ curb[t].procs = <<>>
    BY <2>1, Resting DEF Picking, At
  <2>5. /\ \A c \in Batches : bt'[c].window = bt[c].window
        /\ \A c \in Batches \ {d} : bt'[c].procs = IF c \in W THEN <<>> ELSE bt[c].procs
    BY <2>2 DEF WashedBut
  <2>6. \A b \in Batches : InSlot(b)' <=> InSlot(b)
    BY <2>1, <2>5, SlotSame
  <2>7. InBatch(t, d) = ToSet(bt[d].procs) /\ InBatch(t, d)' = {}
    BY <2>0, <2>1, <2>2, AwaitsIs, EmptyOf DEF Awaits, IsPending
  <2>8. \A c \in W, u \in Threads : ~Awaits(u, c)
    BY NoneAwaits
  <2>9. ASSUME NEW u \in Threads, NEW b \in Batches, u # t \/ b # d PROVE InBatch(u, b)' = InBatch(u, b)
    <3>1. CASE u # t
      <4>1. Awaits(u, b)' <=> Awaits(u, b)
        BY <2>1, <2>3, <2>5, <2>6, <3>1, AwaitsSame
      <4>2. Awaits(u, b) => b # d
        BY <2>0, <3>1, PendingOnly
      <4>3. Awaits(u, b) => bt'[b].procs = bt[b].procs
        BY <2>5, <2>8, <4>2
      <4> QED
        BY <4>1, <4>3, BatchSame
    <3>2. CASE u = t /\ b # d
      <4>1. /\ ~IsPending(t, b) /\ ~IsPending(t, b)' /\ ~InHand(t, b) /\ ~InHand(t, b)'
            /\ (InList(t, b)' <=> InList(t, b))
        BY <2>0, <2>1, <2>3, <2>4, <2>5, <2>6, <3>2 DEF IsPending, InList, InHand
      <4>2. Awaits(t, b)' <=> Awaits(t, b)
        BY <2>1, <2>4, <4>1, NoAdds
      <4>3. Awaits(t, b) => bt'[b].procs = bt[b].procs
        BY <2>5, <2>8, <3>2
      <4> QED
        BY <3>2, <4>2, <4>3, BatchSame
    <3> QED
      BY <2>9, <3>1, <3>2
  <2> QED
    BY <2>1, <2>4, <2>7, <2>9, Load DEF Emptied
<1>14. ASSUME NEW t \in Threads, PickFails(t) PROVE Settled'
  <2>1. /\ pc[t] \in {"pick", "run"} /\ UNCHANGED <<bt, list, pending, used, adds, slot, hand, curb, asleep, pmail>>
        /\ \E l \in {"migrate"} : pc' = [pc EXCEPT ![t] = l]
    BY <1>14 DEF PickFails, Picking, At, Goto, local, env
  <2>2. pc'[t] \in {"migrate"} /\ \A u \in Threads : u # t => pc'[u] = pc[u]
    BY <2>1, Spaces DEF RInv
  <2>3. adds[t] = <<>> /\ (hand[t] = NULL \/ (pc[t] # "clean" /\ pc'[t] # "clean"))
    BY <2>1, <2>2, Resting
  <2>4. \A u \in Threads, b \in Batches : InBatch(u, b)' = InBatch(u, b)
    BY <2>1, <2>2, <2>3, BatchesStill
  <2> QED
    BY <2>1, <2>4, NothingMoves DEF InCurb
<1>15. ASSUME NEW t \in Threads, ChooseVictim(t) PROVE Settled'
  <2>1. /\ pc[t] \in {"migrate"} /\ UNCHANGED <<bt, list, pending, used, adds, slot, hand, curb, asleep, pmail>>
        /\ \E l \in {"mwRead"} : pc' = [pc EXCEPT ![t] = l]
    BY <1>15 DEF ChooseVictim, At, Goto, queue, window, env
  <2>2. pc'[t] \in {"mwRead"} /\ \A u \in Threads : u # t => pc'[u] = pc[u]
    BY <2>1, Spaces DEF RInv
  <2>3. adds[t] = <<>> /\ (hand[t] = NULL \/ (pc[t] # "clean" /\ pc'[t] # "clean"))
    BY <2>1, <2>2, Resting
  <2>4. \A u \in Threads, b \in Batches : InBatch(u, b)' = InBatch(u, b)
    BY <2>1, <2>2, <2>3, BatchesStill
  <2> QED
    BY <2>1, <2>4, NothingMoves DEF InCurb
<1>16. ASSUME NEW t \in Threads, Idle(t) PROVE Settled'
  <2>1. /\ pc[t] = "migrate" /\ UNCHANGED <<list, pending, used, adds, slot, hand, asleep, pmail>>
        /\ pc' = [pc EXCEPT ![t] = "run"] /\ Emptied(t, <<>>, curb[t].affine) /\ WashedBut(t, Washed(t), {})
    BY <1>16, IdleEffect
  <2>2. pc'[t] = "run" /\ \A u \in Threads : u # t => pc'[u] = pc[u]
    BY <2>1, Spaces DEF RInv
  <2>3. adds[t] = <<>> /\ hand[t] = NULL /\ curb[t].procs = <<>>
    BY <2>1, Resting
  <2>4. \A b \in Batches : /\ bt'[b].window = bt[b].window
                           /\ bt'[b].procs = bt[b].procs \/ b \in Washed(t)
    BY <2>1 DEF WashedBut
  <2>5. \A b \in Washed(t), u \in Threads : ~Awaits(u, b)
    BY NoneAwaits
  <2>6. \A u \in Threads, b \in Batches : InBatch(u, b)' = InBatch(u, b)
    BY <2>1, <2>2, <2>3, <2>4, <2>5, BatchesStill
  <2>7. \A u \in Threads : InCurb(u)' = InCurb(u)
    BY <2>1, <2>3 DEF Emptied, InCurb
  <2> QED
    BY <2>1, <2>6, <2>7, NothingMoves
<1>17. ASSUME NEW t \in Threads, ReadWindow(t) PROVE Settled'
  <2>1. /\ pc[t] \in {"mwRead"} /\ UNCHANGED <<bt, list, pending, used, adds, slot, hand, curb, asleep, pmail>>
        /\ \E l \in {"mwCheck", "mwClear"} : pc' = [pc EXCEPT ![t] = l]
    BY <1>17 DEF ReadWindow, At, Goto, queue, window, env
  <2>2. pc'[t] \in {"mwCheck", "mwClear"} /\ \A u \in Threads : u # t => pc'[u] = pc[u]
    BY <2>1, Spaces DEF RInv
  <2>3. adds[t] = <<>> /\ (hand[t] = NULL \/ (pc[t] # "clean" /\ pc'[t] # "clean"))
    BY <2>1, <2>2, Resting
  <2>4. \A u \in Threads, b \in Batches : InBatch(u, b)' = InBatch(u, b)
    BY <2>1, <2>2, <2>3, BatchesStill
  <2> QED
    BY <2>1, <2>4, NothingMoves DEF InCurb
<1>18. ASSUME NEW t \in Threads, ClearBit(t) PROVE Settled'
  <2>1. /\ pc[t] \in {"mwClear"} /\ UNCHANGED <<bt, list, pending, used, adds, slot, hand, curb, asleep, pmail>>
        /\ \E l \in {"mwSwap"} : pc' = [pc EXCEPT ![t] = l]
    BY <1>18 DEF ClearBit, At, Goto, queue, local, env
  <2>2. pc'[t] \in {"mwSwap"} /\ \A u \in Threads : u # t => pc'[u] = pc[u]
    BY <2>1, Spaces DEF RInv
  <2>3. adds[t] = <<>> /\ (hand[t] = NULL \/ (pc[t] # "clean" /\ pc'[t] # "clean"))
    BY <2>1, <2>2, Resting
  <2>4. \A u \in Threads, b \in Batches : InBatch(u, b)' = InBatch(u, b)
    BY <2>1, <2>2, <2>3, BatchesStill
  <2> QED
    BY <2>1, <2>4, NothingMoves DEF InCurb
<1>19. ASSUME NEW t \in Threads, TakeSlot(t) PROVE Settled'
  <2>0. PICK v \in Threads, w \in Windows : v = victim[t] /\ w = BestWindow(st[t]) /\ pc[t] = "mwSwap"
    <3>1. StageOf(t) /\ st[t] \in WordType /\ pc[t] = "mwSwap"
      BY <1>19, StageIs, Types DEF RInv, TakeSlot, At
    <3> QED
      BY <3>1, BestSlot DEF StageOf, Looking, WordType
  <2>1. PICK x \in Batches \cup {NULL} : x = slot[v][w]
    BY Types DEF RInv
  <2>2. /\ hand' = [hand EXCEPT ![t] = x] /\ slot' = [slot EXCEPT ![v][w] = NULL]
        /\ UNCHANGED <<bt, list, pending, used, adds, curb, asleep, pmail>>
        /\ (pc' = [pc EXCEPT ![t] = "mwClear"] \/ pc' = [pc EXCEPT ![t] = "mwCheck"])
    BY <1>19, <2>0, <2>1 DEF TakeSlot, At, Goto, queue, env
  <2>3. /\ pc'[t] \in {"mwClear", "mwCheck"} /\ hand'[t] = x /\ slot'[v][w] = NULL
        /\ \A u \in Threads : u # t => pc'[u] = pc[u] /\ hand'[u] = hand[u]
        /\ \A u \in Threads : u # v => slot'[u] = slot[u]
        /\ \A y \in Windows : y # w => slot'[v][y] = slot[v][y]
    BY <2>2, Spaces DEF RInv
  <2>4. adds[t] = <<>> /\ hand[t] = NULL /\ w # 0
    BY <2>0, Resting, SizesAssumption DEF Windows
  <2>5. ASSUME NEW c \in Batches, c # x PROVE InSlot(c)' <=> InSlot(c)
    <3>1. c[1] \in Threads /\ bt[c].window \in 0..MWINDOW_SIZE
      BY Types DEF RInv
    <3>2. bt[c].window # 0 => bt[c].window \in Windows
      BY <3>1 DEF Windows
    <3>3. CASE c[1] = v /\ bt[c].window = w
      BY <2>1, <2>2, <2>3, <2>5, <3>3, NullAssumption DEF InSlot
    <3>4. CASE c[1] # v \/ bt[c].window # w
      BY <2>2, <2>3, <3>1, <3>2, <3>4 DEF InSlot
    <3> QED
      BY <3>3, <3>4
  <2>6. ASSUME NEW u \in Threads, NEW c \in Batches, c # x PROVE InBatch(u, c)' = InBatch(u, c)
    <3>1. InSlot(c)' <=> InSlot(c)
      BY <2>5, <2>6
    <3>2. CASE u # t
      BY <2>2, <2>3, <3>1, <3>2, AwaitsSame, BatchSame
    <3>3. CASE u = t
      <4>1. /\ (IsPending(t, c)' <=> IsPending(t, c)) /\ ~InHand(t, c) /\ ~InHand(t, c)'
            /\ (InList(t, c)' <=> InList(t, c))
        BY <2>2, <2>3, <2>4, <2>6, <3>1 DEF IsPending, InList, InHand
      <4>2. Awaits(t, c)' <=> Awaits(t, c)
        BY <2>2, <2>4, <4>1, NoAdds
      <4> QED
        BY <2>2, <3>3, <4>2, BatchSame
    <3> QED
      BY <3>2, <3>3
  <2>7. \A u \in Threads : InCurb(u)' = InCurb(u)
    BY <2>2 DEF InCurb
  <2>8. CASE x = NULL
    BY <2>2, <2>6, <2>7, <2>8, NullAssumption, NothingMoves
  <2>9. CASE x # NULL
    <3>1. PICK b \in Batches : b = x
      BY <2>9
    <3>2. b[1] = v /\ bt[b].window = w /\ Listed(b) /\ \A u \in Threads : hand[u] # b
      BY <2>1, <2>9, <3>1, SlotIs DEF SlotOf
    <3>3. InSlot(b) /\ ~InSlot(b)' /\ b # NULL
      BY <2>1, <2>2, <2>3, <2>4, <3>1, <3>2, NullAssumption DEF InSlot
    <3>4. Awaits(v, b) /\ \A u \in Threads : u # v => ~Awaits(u, b)
      <4>1. Awaits(v, b)
        BY <3>2, <3>3, AddingIs DEF Awaits, InList, InAdds, Listed
      <4> QED
        BY <3>2, <4>1, OnlyInHand
    <3>5. ASSUME NEW u \in Threads PROVE ~IsPending(u, b)' /\ ~InAdds(u, b)' /\ ~InList(u, b)'
      <4>1. b # pending[u] /\ (u # v => b \notin ToSet(adds[u]) \cup ToSet(list[u]))
        BY <3>2, ListedIs, Owned
      <4>2. b \in ToSet(adds[v]) => b = Adding(v) /\ pc[v] \notin {"add", "slot"}
        BY <3>2, ListedIs, MemoryIs DEF MemoryOf, Listed
      <4>3. b \in ToSet(adds[v]) => v # t
        BY <2>4, EmptyOf
      <4> QED
        BY <2>2, <2>3, <3>2, <3>3, <2>4, <4>1, <4>2, <4>3 DEF IsPending, InAdds, InList, Adding
    <3>6. Awaits(t, b)' /\ \A u \in Threads : u # t => ~Awaits(u, b)'
      BY <2>3, <3>1, <3>2, <3>3, <3>5 DEF Awaits, InHand
    <3>7. bt' = bt /\ \A u \in Threads : /\ InBatch(u, b) = IF u = v THEN ToSet(bt[b].procs) ELSE {}
                                         /\ InBatch(u, b)' = IF u = t THEN ToSet(bt[b].procs) ELSE {}
      BY <2>2, <3>4, <3>6, AwaitsIs
    <3>8. CASE v = t
      <4>1. \A u \in Threads : InBatch(u, b)' = InBatch(u, b)
        BY <3>7, <3>8
      <4> QED
        BY <2>2, <2>6, <2>7, <3>1, <4>1, NothingMoves
    <3>9. CASE v # t
      <4>1. PICK a \in Spots, c \in Spots : a = Batch(v, b) /\ c = Batch(t, b)
        BY SpotsDiffer
      <4>2. Held(a) = ToSet(bt[b].procs) /\ Held(a)' = {} /\ Held(c) = {} /\ Held(c)' = ToSet(bt[b].procs)
        <5>1. /\ Held(Batch(v, b)) = InBatch(v, b) /\ Held(Batch(v, b))' = InBatch(v, b)'
              /\ Held(Batch(t, b)) = InBatch(t, b) /\ Held(Batch(t, b))' = InBatch(t, b)'
          BY HeldThere, HeldThereNext
        <5> QED
          BY <3>7, <3>9, <4>1, <5>1
      <4>3. PICK X \in SUBSET Held(a) : X = ToSet(bt[b].procs)
        BY <4>2
      <4>4. a # c /\ Held(a)' = Held(a) \ X /\ Held(c)' = Held(c) \cup X
        BY <3>9, <4>1, <4>2, <4>3, SpotsDiffer
      <4>5. ASSUME NEW u \in Threads, NEW e \in Batches
            PROVE Batch(u, e) \in {a, c} \/ InBatch(u, e)' = InBatch(u, e)
        BY <2>6, <3>1, <3>7, <4>1
      <4> QED
        BY <2>2, <2>7, <4>4, <4>5, MovedFrom
    <3> QED
      BY <3>8, <3>9
  <2> QED
    BY <2>8, <2>9
<1>20. ASSUME NEW t \in Threads, CheckWindow(t) PROVE Settled'
  <2>1. /\ pc[t] \in {"mwCheck"} /\ UNCHANGED <<bt, list, pending, used, adds, slot, hand, curb, asleep, pmail>>
        /\ \E l \in {"mwOff", "migrate", "copy"} : pc' = [pc EXCEPT ![t] = l]
    BY <1>20 DEF CheckWindow, LeaveWindow, Forget, At, Goto, queue, window, env
  <2>2. pc'[t] \in {"mwOff", "migrate", "copy"} /\ \A u \in Threads : u # t => pc'[u] = pc[u]
    BY <2>1, Spaces DEF RInv
  <2>3. adds[t] = <<>> /\ (hand[t] = NULL \/ (pc[t] # "clean" /\ pc'[t] # "clean"))
    BY <2>1, <2>2, Resting
  <2>4. \A u \in Threads, b \in Batches : InBatch(u, b)' = InBatch(u, b)
    BY <2>1, <2>2, <2>3, BatchesStill
  <2> QED
    BY <2>1, <2>4, NothingMoves DEF InCurb
<1>21. ASSUME NEW t \in Threads, Unadvertise(t) PROVE Settled'
  <2>1. /\ pc[t] \in {"mwOff"} /\ UNCHANGED <<bt, list, pending, used, adds, slot, hand, curb, asleep, pmail>>
        /\ \E l \in {"migrate", "copy"} : pc' = [pc EXCEPT ![t] = l]
    BY <1>21 DEF Unadvertise, LeaveWindow, Forget, At, Goto, queue, env
  <2>2. pc'[t] \in {"migrate", "copy"} /\ \A u \in Threads : u # t => pc'[u] = pc[u]
    BY <2>1, Spaces DEF RInv
  <2>3. adds[t] = <<>> /\ (hand[t] = NULL \/ (pc[t] # "clean" /\ pc'[t] # "clean"))
    BY <2>1, <2>2, Resting
  <2>4. \A u \in Threads, b \in Batches : InBatch(u, b)' = InBatch(u, b)
    BY <2>1, <2>2, <2>3, BatchesStill
  <2> QED
    BY <2>1, <2>4, NothingMoves DEF InCurb
<1>22. ASSUME NEW t \in Threads, Copy(t) PROVE Settled'
  <2>0. PICK h \in Batches : h = hand[t] /\ pc[t] = "copy"
    BY <1>22, CopyEffect
  <2>1. /\ Emptied(t, bt[h].procs, HasAffinity(h)) /\ pc' = [pc EXCEPT ![t] = "clean"]
        /\ UNCHANGED <<bt, list, pending, used, slot, adds, hand, asleep, pmail>>
    BY <1>22, <2>0, CopyEffect
  <2>2. /\ pc'[t] = "clean" /\ adds[t] = <<>> /\ curb[t].procs = <<>>
        /\ \A u \in Threads : u # t => pc'[u] = pc[u]
    BY <2>0, <2>1, Spaces, Resting DEF RInv
  <2>3. InBatch(t, h) = ToSet(bt[h].procs)
    BY <2>0, AwaitsIs, NullAssumption DEF Awaits, InHand
  <2>4. ASSUME NEW b \in Batches PROVE InSlot(b)' <=> InSlot(b)
    BY <2>1, SlotSame
  <2>5. ASSUME NEW b \in Batches PROVE Awaits(t, b)' <=> Awaits(t, b) /\ b # h
    <3>1. (IsPending(t, b)' <=> IsPending(t, b)) /\ (InHand(t, b) <=> b = h) /\ ~InHand(t, b)'
      BY <2>0, <2>1, <2>2, NullAssumption DEF IsPending, InHand
    <3>2. InList(t, b)' <=> InList(t, b)
      BY <2>1, <2>4 DEF InList
    <3>3. b = h => ~IsPending(t, b) /\ ~InList(t, b)
      BY <2>0, HandOnly
    <3> QED
      BY <2>1, <2>2, <3>1, <3>2, <3>3, NoAdds
  <2>6. InBatch(t, h)' = {}
    BY <2>5, AwaitsIs
  <2>7. ASSUME NEW u \in Threads, NEW b \in Batches, u # t \/ b # h PROVE InBatch(u, b)' = InBatch(u, b)
    <3>1. u # t => (Awaits(u, b)' <=> Awaits(u, b))
      BY <2>1, <2>2, <2>4, AwaitsSame
    <3> QED
      BY <2>1, <2>5, <2>7, <3>1, BatchSame
  <2> QED
    BY <2>1, <2>2, <2>3, <2>6, <2>7, Load DEF Emptied
<1>23. ASSUME NEW t \in Threads, MarkClean(t) PROVE Settled'
  <2>0. PICK h \in Batches : h = hand[t] /\ pc[t] = "clean"
    BY <1>23, CleanEffect
  <2>1. /\ \A c \in Batches : bt'[c].window = bt[c].window /\ (c # h => bt'[c].procs = bt[c].procs)
        /\ hand' = [hand EXCEPT ![t] = NULL] /\ pc' = [pc EXCEPT ![t] = "run"]
        /\ UNCHANGED <<list, pending, used, slot, adds, curb, asleep, pmail>>
    <3>1. /\ \A c \in Batches : bt'[c].window = bt[c].window /\ (c # hand[t] => bt'[c].procs = bt[c].procs)
          /\ hand' = [hand EXCEPT ![t] = NULL] /\ pc' = [pc EXCEPT ![t] = "run"]
          /\ UNCHANGED <<list, pending, used, slot, adds, curb, asleep, pmail>>
      BY <1>23, CleanEffect
    <3> QED
      BY <2>0, <3>1
  <2>2. /\ pc'[t] = "run" /\ hand'[t] = NULL /\ adds[t] = <<>>
        /\ \A u \in Threads : u # t => pc'[u] = pc[u] /\ hand'[u] = hand[u]
    BY <2>0, <2>1, Spaces, Resting DEF RInv
  <2>3. \A u \in Threads : ~Awaits(u, h)
    BY <2>0, HandOnly
  <2>4. ASSUME NEW b \in Batches PROVE Awaits(t, b)' <=> Awaits(t, b)
    <3>1. (IsPending(t, b)' <=> IsPending(t, b)) /\ ~InHand(t, b) /\ ~InHand(t, b)'
      BY <2>0, <2>1, <2>2 DEF IsPending, InHand
    <3>2. InSlot(b)' <=> InSlot(b)
      BY <2>1, SlotSame
    <3>3. InList(t, b)' <=> InList(t, b)
      BY <2>1, <3>2 DEF InList
    <3> QED
      BY <2>1, <2>2, <3>1, <3>3, NoAdds
  <2> QED
    BY <2>1, <2>2, <2>3, <2>4, Shuffled
<1> QED
  BY <1>0, <1>1, <1>2, <1>3, <1>4, <1>5, <1>6, <1>7, <1>8, <1>9, <1>10, <1>11,
     <1>12, <1>13, <1>14, <1>15, <1>16, <1>17, <1>18, <1>19, <1>20, <1>21, <1>22, <1>23
     DEF Next, Scheduler

-----------------------------------------------------------------------------
(* The initial state *)

(* SetToSeq lists a finite set, each element once.                          *)
LEMMA Listing ==
  ASSUME NEW S, IsFiniteSet(S)
  PROVE  SetToSeq(S) \in Seq(S) /\ IsInjective(SetToSeq(S)) /\ ToSet(SetToSeq(S)) = S
<1> DEFINE n == Cardinality(S)
           s == SetToSeq(S)
<1>1. PICK m \in Nat : ExistsBijection(1..m, S)
  BY FS_NatBijection
<1>2. n = m
  BY <1>1, FS_CountingElements
<1>3. PICK f \in Bijection(1..m, S) : TRUE
  BY <1>1 DEF ExistsBijection
<1>4. f \in [1..n -> S] /\ IsInjective(f)
  BY <1>2, <1>3 DEF Bijection, Injection
<1>5. s \in [1..n -> S] /\ IsInjective(s)
  BY <1>4 DEF SetToSeq
<1>6. s \in Bijection(1..n, ToSet(s))
  <2>1. DOMAIN s = 1..n
    BY <1>5
  <2>2. s \in [1..n -> ToSet(s)] /\ \A x \in ToSet(s) : \E i \in 1..n : s[i] = x
    BY <1>5, <2>1 DEF ToSet
  <2> QED
    BY <1>5, <2>2 DEF Bijection, Injection, Surjection
<1>7. Cardinality(ToSet(s)) = n
  BY <1>1, <1>2, <1>6, FS_CountingElements DEF ExistsBijection
<1>8. ToSet(s) \in SUBSET S
  BY <1>5 DEF ToSet
<1>9. ToSet(s) = S
  BY <1>7, <1>8, FS_Subset
<1>10. s \in Seq(S)
  BY <1>1, <1>2, <1>5
<1> QED
  BY <1>5, <1>9, <1>10

Wanderers == {p \in Procs : Home[p] = NULL}
Order == SetToSeq(Wanderers)

LEMMA OrderIs ==
  Order \in Seq(Procs) /\ IsInjective(Order) /\ ToSet(Order) = Wanderers
<1>1. IsFiniteSet(Wanderers)
  BY ProcsAssumption, FS_Subset DEF Wanderers
<1>2. Order \in Seq(Wanderers) /\ IsInjective(Order) /\ ToSet(Order) = Wanderers
  BY <1>1, Listing DEF Order
<1>3. Wanderers \subseteq Procs
  BY DEF Wanderers
<1> HIDE DEF Order, Wanderers
<1>4. Order \in Seq(Procs)
  BY <1>2, <1>3
<1> QED
  BY <1>2, <1>4

(* What Init says of each thread and each batch.                            *)
StartOf(t) ==
    /\ list[t] = <<>> /\ pending[t] = <<t, 1>> /\ used[t] = FALSE /\ rqstate[t] = FALSE
    /\ free[t] = {t} \X (2..PoolSize) /\ laundry[t] = {} /\ mwstate[t] = FALSE
    /\ slot[t] = [w \in Windows |-> NULL] /\ mw[t] = Word(0, {}) /\ st[t] = Word(0, {})
    /\ curb[t] = [procs |-> IF t = Start THEN Order ELSE <<>>, left |-> BATCH_PPD,
                  emptied |-> t # Start, affine |-> FALSE]
    /\ pmail[t] = {} /\ pc[t] = "run" /\ adds[t] = <<>> /\ hand[t] = NULL /\ victim[t] = NULL

LEMMA Starting ==
  ASSUME Init
  PROVE  /\ \A t \in Threads : StartOf(t)
         /\ \A b \in Batches : bt[b] = [procs |-> <<>>, window |-> 0, dirty |-> FALSE]
         /\ asleep = {p \in Procs : Home[p] # NULL} /\ waits = 0
  BY DEF Init, StartOf, Order, Wanderers

LEMMA FirstBatches ==
  ASSUME NEW t \in Threads
  PROVE  /\ <<t, 1>> \in Batches /\ {t} \X (2..PoolSize) \subseteq Batches
         /\ \A b \in {t} \X (2..PoolSize) : b[1] = t /\ b # <<t, 1>>
<1>1. 1 \in 1..PoolSize /\ 2..PoolSize \subseteq 1..PoolSize /\ 1 \notin 2..PoolSize
  BY SizesAssumption
<1> QED
  BY <1>1 DEF Batches

LEMMA InitTypeOK == Init => TypeOK
<1> SUFFICES ASSUME Init PROVE TypeOK
  OBVIOUS
<1>1. /\ bt \in [Batches -> BatchType]
      /\ mw \in [Threads -> WordType] /\ st \in [Threads -> WordType]
  <2>1. [procs |-> <<>>, window |-> 0, dirty |-> FALSE] \in BatchType
    BY SizesAssumption DEF BatchType
  <2>2. Word(0, {}) \in WordType
    BY BlankWord
  <2> QED
    BY <2>1, <2>2 DEF Init
<1>2. curb \in [Threads -> CurbType]
  <2>1. ASSUME NEW t \in Threads
        PROVE  [procs |-> IF t = Start THEN Order ELSE <<>>, left |-> BATCH_PPD,
                emptied |-> t # Start, affine |-> FALSE] \in CurbType
    BY OrderIs, SizesAssumption DEF CurbType
  <2> QED
    BY <2>1 DEF Init, Order, Wanderers
<1>3. /\ pending \in [Threads -> Batches] /\ free \in [Threads -> SUBSET Batches]
  BY FirstBatches DEF Init
<1>4. /\ list \in [Threads -> Seq(Batches)] /\ adds \in [Threads -> Seq(Batches)]
      /\ laundry \in [Threads -> SUBSET Batches] /\ pmail \in [Threads -> SUBSET Procs]
      /\ slot \in [Threads -> [Windows -> Batches \cup {NULL}]]
      /\ hand \in [Threads -> Batches \cup {NULL}] /\ victim \in [Threads -> Threads \cup {NULL}]
  BY DEF Init
<1>5. /\ used \in [Threads -> BOOLEAN] /\ rqstate \in [Threads -> BOOLEAN]
      /\ mwstate \in [Threads -> BOOLEAN] /\ pc \in [Threads -> Labels]
      /\ asleep \in SUBSET Procs /\ waits \in Nat
  BY DEF Init, Labels
<1> QED
  BY <1>1, <1>2, <1>3, <1>4, <1>5 DEF TypeOK, BatchType, CurbType, WordType

LEMMA InitPlaces ==
  ASSUME Init
  PROVE  Stages /\ Memory /\ Slots /\ Hands /\ Contents
<1>1. ASSUME NEW t \in Threads PROVE StageOf(t)
  <2>1. StartOf(t)
    BY Starting
  <2>2. curb[t].procs = <<>> \/ pc[t] = "run"
    BY <2>1 DEF StartOf
  <2> QED
    BY <2>1, <2>2 DEF StartOf, StageOf, Enlisting, Owning, Stealing, Looking
<1>2. ASSUME NEW t \in Threads PROVE MemoryOf(t)
  <2>1. StartOf(t)
    BY Starting
  <2>2. /\ ToSet(adds[t]) = {} /\ ToSet(list[t]) = {} /\ IsInjective(adds[t]) /\ IsInjective(list[t])
        /\ laundry[t] = {} /\ pc[t] = "run"
    BY <2>1, SetOfEmpty DEF StartOf
  <2>3. \A b \in free[t] \cup {pending[t]} : b[1] = t
    BY <2>1, FirstBatches DEF StartOf
  <2>4. pending[t] \notin free[t]
    BY <2>1, FirstBatches DEF StartOf
  <2> QED
    BY <2>2, <2>3, <2>4 DEF MemoryOf, Owning
<1>3. Slots
  <2>1. ASSUME NEW t \in Threads, NEW w \in Windows PROVE slot[t][w] = NULL
    BY Starting DEF StartOf
  <2>2. ASSUME NEW t \in Threads PROVE pc[t] = "run"
    BY Starting DEF StartOf
  <2> QED
    BY <2>1, <2>2 DEF Slots
<1>4. Hands
  BY Starting DEF StartOf, Hands
<1>5. ASSUME NEW b \in Batches PROVE ContentOf(b)
  <2>1. bt[b].procs = <<>>
    BY <1>5, Starting
  <2> QED
    BY <2>1, SetOfEmpty DEF ContentOf
<1>6. ASSUME NEW t \in Threads PROVE KeepOf(t) /\ CurbOf(t)
  <2>1. StartOf(t) /\ free[t] \subseteq Batches /\ pending[t] \in Batches
    <3>1. free[t] = {t} \X (2..PoolSize) /\ pending[t] = <<t, 1>>
      BY Starting DEF StartOf
    <3> QED
      BY <3>1, Starting, FirstBatches
  <2>2. \A b \in Batches : bt[b].procs = <<>> /\ bt[b].dirty = FALSE
    BY Starting
  <2>3. KeepOf(t)
    BY <2>1, <2>2, SetOfEmpty DEF KeepOf, StartOf
  <2>4. curb[t].procs = (IF t = Start THEN Order ELSE <<>>) /\ curb[t].affine = FALSE /\ pmail[t] = {}
    BY <2>1 DEF StartOf
  <2>5. IsInjective(curb[t].procs) /\ \A p \in ToSet(curb[t].procs) : Home[p] = NULL
    BY <2>4, OrderIs, SetOfEmpty DEF Wanderers
  <2> QED
    BY <2>3, <2>4, <2>5 DEF CurbOf
<1> QED
  BY <1>1, <1>2, <1>3, <1>4, <1>5, <1>6
     DEF Stages, StageOf, Memory, MemoryOf, Contents, ContentOf, KeepOf, CurbOf

LEMMA InitSettled ==
  ASSUME Init
  PROVE  Settled
<1>1. ASSUME NEW t \in Threads, NEW b \in Batches PROVE InBatch(t, b) = {}
  BY <1>1, Starting, SetOfEmpty DEF InBatch
<1>2. ASSUME NEW t \in Threads PROVE InCurb(t) = (IF t = Start THEN Wanderers ELSE {}) /\ pmail[t] = {}
  <2>1. StartOf(t)
    BY Starting
  <2>2. curb[t].procs = (IF t = Start THEN Order ELSE <<>>)
    BY <2>1 DEF StartOf
  <2> QED
    BY <2>1, <2>2, OrderIs, SetOfEmpty DEF InCurb, StartOf
<1>3. asleep = Procs \ Wanderers /\ Start \in Threads
  BY Starting, StartAssumption DEF Wanderers
<1>4. ASSUME NEW p \in Procs PROVE \E x \in Places(p) : Places(p) = {x}
  <2>1. PICK x \in Spots : x = IF p \in Wanderers THEN Curb(Start) ELSE Asleep
    BY <1>3, SpotsDiffer
  <2>2. ASSUME NEW y \in Spots PROVE p \in Held(y) <=> y = x
    BY <1>1, <1>2, <1>3, <2>1, EverySpot, HeldThere, SpotsDiffer
  <2> QED
    BY <2>2, PlacesAreSpots
<1> QED
  BY <1>4 DEF Settled

-----------------------------------------------------------------------------
(* The theorems *)

(* RInv is inductive: whatever the threads do to each other's windows, the  *)
(* batches of a thread stay accounted for and every process stays in one    *)
(* place (kernel/sched.c, add_to_runqueue, try_pull_from_runqueue,          *)
(* migrate_some_work).                                                      *)
THEOREM RunQueuesInvariance == Spec => []RInv
<1>1. Init => RInv
  BY InitTypeOK, InitPlaces, InitSettled DEF RInv
<1>2. RInv /\ [Next]_vars => RInv'
  BY TypeOKStep, StagesStep, MemoryStep, HandoverStep, ContentsStep, SettledStep DEF RInv
<1> QED
  BY <1>1, <1>2, PTL DEF Spec

(* The type invariant of the module (the fields of sched_t, batch_t and     *)
(* mwindow_t that the scheduler threads use).                               *)
THEOREM RunQueuesTypeCorrect == Spec => []TypeOK
<1>1. RInv => TypeOK
  BY DEF RInv
<1> QED
  BY <1>1, RunQueuesInvariance, PTL

(* Every process is in one place and one only, for any number of threads,   *)
(* processes, batches and window slots: none is lost or runs twice however  *)
(* a pull races a migration, and affinity is kept.                          *)
THEOREM ProcessStaysInOnePlace == Spec => []ProcessInOnePlace
<1>1. RInv => ProcessInOnePlace
  <2> SUFFICES ASSUME RInv, NEW p \in Procs
               PROVE  /\ Cardinality(Places(p)) = 1
                      /\ \A t \in Threads : p \in ToSet(curb[t].procs) => Home[p] \in {NULL, t}
    BY DEF ProcessInOnePlace
  <2>1. PICK x \in Places(p) : Places(p) = {x}
    BY DEF RInv, Settled
  <2>2. Cardinality(Places(p)) = 1
    BY <2>1, FS_Singleton
  <2>3. \A t \in Threads : p \in ToSet(curb[t].procs) => Home[p] \in {NULL, t}
    BY DEF RInv, Contents
  <2> QED
    BY <2>2, <2>3
<1> QED
  BY <1>1, RunQueuesInvariance, PTL

(* allocate_batch never hands out a batch that is still listed, still in a  *)
(* window slot, or still being read by the thread that took it.             *)
THEOREM FreeBatchStaysUnseen == Spec => []FreeBatchUnseen
<1>1. RInv => FreeBatchUnseen
  <2> SUFFICES ASSUME RInv, NEW t \in Threads, NEW b \in free[t] \cup {pending[t]}
               PROVE  /\ ~InSlot(b) /\ b \notin ToSet(list[t])
                      /\ \A u \in Threads : hand[u] # b
    BY DEF FreeBatchUnseen
  <2>1. MemoryOf(t) /\ b \in Batches /\ b[1] = t /\ ~bt[b].dirty
    BY MemoryIs, Owned
  <2>2. ~InSlot(b)
    BY <2>1, Slotted
  <2>3. b \notin ToSet(list[t])
    BY <2>1 DEF MemoryOf
  <2>4. ASSUME NEW u \in Threads, hand[u] = b PROVE FALSE
    <3>1. (Owning(u) \/ Stealing(u)) /\ (Owning(u) => b[1] = u) /\ (Stealing(u) => bt[b].dirty)
      <4>1. StageOf(u) /\ b # NULL
        BY <2>1, NullAssumption, StageIs
      <4> QED
        BY <2>1, <2>4, <4>1, Taken DEF StageOf
    <3>2. Owning(t) /\ hand[t] = b
      BY <2>1, <2>4, <3>1
    <3> QED
      BY <2>1, <3>2 DEF MemoryOf
  <2> QED
    BY <2>2, <2>3, <2>4
<1> QED
  BY <1>1, RunQueuesInvariance, PTL

=============================================================================
