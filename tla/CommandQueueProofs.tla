------------------------- MODULE CommandQueueProofs -------------------------
(***************************************************************************)
(* Theorems about CommandQueue for any senders, events, depth, threshold   *)
(* and number of sends.                                                    *)
(***************************************************************************)
EXTENDS CommandQueue, FiniteSetTheorems, TLAPS

(* Recording a fault leaves a fault on record and forgets none. *)
LEMMA RecordFaultLemma ==
  ASSUME NEW f \in FaultRecord
  PROVE  /\ RecordFault(f, "CommandQueue", "CommandQueueOverflow") \in FaultRecord
         /\ HasFault(RecordFault(f, "CommandQueue", "CommandQueueOverflow"))
  BY DEF RecordFault, HasFault, FaultRecord, FaultSource, FaultReason

(* The fault handler keeps the type of its record. *)
LEMMA NoFaultLemma == NoFault \in FaultRecord /\ ~ HasFault(NoFault)
  BY DEF NoFault, HasFault, FaultRecord, FaultSource, FaultReason

(* What the queue calls do to a sequence of commands of any set. *)
LEMMA SendLemma ==
  ASSUME NEW S, NEW q \in Seq(S), NEW c \in S
  PROVE  /\ SendToBack(q, c) \in Seq(S) /\ Len(SendToBack(q, c)) = Len(q) + 1
         /\ SendToFront(q, c) \in Seq(S) /\ Len(SendToFront(q, c)) = Len(q) + 1
  BY DEF SendToBack, SendToFront

(* What taking the oldest command does to it. *)
LEMMA TakeLemma ==
  ASSUME NEW S, NEW q \in Seq(S), q # << >>
  PROVE  Head(q) \in S /\ Tail(q) \in Seq(S) /\ Len(Tail(q)) = Len(q) - 1
  OBVIOUS

-----------------------------------------------------------------------------
(* Type correctness: no interleaving of senders overfills the queue or     *)
(* leaves the domain of a variable (BlindsCommandQueue.cpp:57-121).        *)
THEOREM TypeCorrect == Spec => []TypeOK
<1> USE QueueAssumption
<1>1. Init => TypeOK
  BY NoFaultLemma DEF Init, TypeOK, Positions, RecoveryEvents
<1>2. TypeOK /\ [Next]_vars => TypeOK'
  <2> SUFFICES ASSUME TypeOK, [Next]_vars PROVE TypeOK'
    OBVIOUS
  <2> USE DEF TypeOK, Positions, RecoveryEvents, Goto
  <2>1. ASSUME NEW s \in Senders, Send(s) PROVE TypeOK'
    <3> PICK e \in Events :
          LET c == [event |-> e, from |-> s, no |-> sent[s] + 1] IN
          \/ /\ HasRoom(queue)
             /\ queue' = SendToBack(queue, c)
             /\ UNCHANGED <<pc, refused>>
          \/ /\ ~ HasRoom(queue)
             /\ refused' = refused \cup {c}
             /\ Goto(s, "load")
             /\ UNCHANGED queue
      BY <2>1 DEF Send
    <3> DEFINE c == [event |-> e, from |-> s, no |-> sent[s] + 1]
    <3>1. c \in Command
      BY <2>1 DEF Send, Command
    <3>2. queue' \in Seq(Command \cup Recovery) /\ Len(queue') <= Depth
      <4>1. CASE HasRoom(queue) /\ queue' = SendToBack(queue, c)
        <5>1. c \in Command \cup Recovery
          BY <3>1
        <5>2. queue' \in Seq(Command \cup Recovery) /\ Len(queue') = Len(queue) + 1
          BY ONLY <4>1, <5>1, SendLemma, queue \in Seq(Command \cup Recovery)
        <5> QED
          BY <4>1, <5>2 DEF HasRoom
      <4> QED
        BY <4>1
    <3>3. refused' \subseteq Command /\ pc' \in [Senders -> Positions]
      BY <3>1
    <3>4. /\ sent' \in [Senders -> 0..MaxSends]
          /\ UNCHANGED <<droppedEvents, fault, loaded, recovery, delivered, discarded>>
      BY <2>1 DEF Send
    <3> QED
      BY <3>2, <3>3, <3>4
  <2>2. ASSUME NEW s \in Senders, LoadDropped(s) PROVE TypeOK'
    BY <2>2 DEF LoadDropped
  <2>3. ASSUME NEW s \in Senders, StoreDropped(s) PROVE TypeOK'
    BY <2>3 DEF StoreDropped
  <2>4. ASSUME NEW s \in Senders, ChooseRecovery(s) PROVE TypeOK'
    BY <2>4 DEF ChooseRecovery, RecoveryEventFor
  <2>5. ASSUME NEW s \in Senders, RecordOverflow(s) PROVE TypeOK'
    BY <2>5, RecordFaultLemma DEF RecordOverflow, OverflowRecorded
  <2>6. ASSUME NEW s \in Senders, SendRecoveryToFront(s) PROVE TypeOK'
    <3>1. CommandFor(recovery[s]) \in Recovery
      BY DEF CommandFor, Recovery
    <3> DEFINE r == CommandFor(recovery[s])
    <3>2. SendToFront(queue, r) \in Seq(Command \cup Recovery)
          /\ Len(SendToFront(queue, r)) = Len(queue) + 1
      <4>1. r \in Command \cup Recovery
        BY <3>1
      <4> QED
        BY ONLY <4>1, SendLemma, queue \in Seq(Command \cup Recovery)
    <3>3. queue' \in Seq(Command \cup Recovery) /\ Len(queue') <= Depth
      BY <2>6, <3>2 DEF SendRecoveryToFront, HasRoom
    <3> QED
      BY <2>6, <3>3 DEF SendRecoveryToFront
  <2>7. ASSUME NEW s \in Senders, DiscardHead(s) PROVE TypeOK'
    <3>1. CASE queue = << >>
      BY <2>7, <3>1 DEF DiscardHead
    <3>2. CASE queue # << >>
      <4>1. Head(queue) \in Command \cup Recovery /\ Tail(queue) \in Seq(Command \cup Recovery)
            /\ Len(Tail(queue)) = Len(queue) - 1
        BY <3>2, TakeLemma
      <4>2. queue' \in Seq(Command \cup Recovery) /\ Len(queue') <= Depth
        <5>1. queue' = Tail(queue)
          BY <2>7, <3>2 DEF DiscardHead, HeadRemoved
        <5> QED
          BY <4>1, <5>1
      <4>3. discarded' \subseteq Command \cup Recovery
        BY <2>7, <3>2, <4>1 DEF DiscardHead
      <4>4. /\ pc' \in [Senders -> Positions]
            /\ UNCHANGED <<droppedEvents, fault, loaded, recovery, sent, refused, delivered>>
        BY <2>7, <3>2 DEF DiscardHead
      <4> QED
        BY <4>2, <4>3, <4>4
    <3> QED
      BY <3>1, <3>2
  <2>8. ASSUME NEW s \in Senders, SendRecoveryAgain(s) PROVE TypeOK'
    <3>1. CommandFor(recovery[s]) \in Recovery
      BY DEF CommandFor, Recovery
    <3> DEFINE r == CommandFor(recovery[s])
    <3>2. SendToFront(queue, r) \in Seq(Command \cup Recovery)
          /\ Len(SendToFront(queue, r)) = Len(queue) + 1
      <4>1. r \in Command \cup Recovery
        BY <3>1
      <4> QED
        BY ONLY <4>1, SendLemma, queue \in Seq(Command \cup Recovery)
    <3>3. queue' \in Seq(Command \cup Recovery) /\ Len(queue') <= Depth
      BY <2>8, <3>2 DEF SendRecoveryAgain, HasRoom
    <3> QED
      BY <2>8, <3>3 DEF SendRecoveryAgain
  <2>9. ASSUME Receive PROVE TypeOK'
    <3>1. Head(queue) \in Command \cup Recovery /\ Tail(queue) \in Seq(Command \cup Recovery)
          /\ Len(Tail(queue)) = Len(queue) - 1
      BY <2>9, TakeLemma DEF Receive
    <3> QED
      BY <2>9, <3>1 DEF Receive
  <2>10. CASE UNCHANGED vars
    BY <2>10 DEF vars
  <2> QED
    BY <2>1, <2>2, <2>3, <2>4, <2>5, <2>6, <2>7, <2>8, <2>9, <2>10 DEF Next, SenderStep
<1> QED
  BY <1>1, <1>2, PTL DEF Spec

(* What send() does in one step to the shared state: it queues a command   *)
(* of the sender's or leaves the queue as it is.                           *)
LEMMA SendStepLemma ==
  ASSUME TypeOK, NEW s \in Senders, Send(s)
  PROVE  /\ queue' = queue \/ \E c \in Command : HasRoom(queue) /\ queue' = SendToBack(queue, c)
         /\ UNCHANGED <<fault, delivered, discarded>>
<1> PICK e \in Events :
      LET c == [event |-> e, from |-> s, no |-> sent[s] + 1] IN
      \/ HasRoom(queue) /\ queue' = SendToBack(queue, c)
      \/ UNCHANGED queue
  BY DEF Send
<1>1. [event |-> e, from |-> s, no |-> sent[s] + 1] \in Command
  BY QueueAssumption DEF Send, Command, TypeOK
<1> QED
  BY <1>1 DEF Send

-----------------------------------------------------------------------------
(* The queue's elements after each queue call, for invariants that speak   *)
(* of the recovery events in it.                                           *)
LEMMA ElementsLemma ==
  ASSUME NEW S, NEW q \in Seq(S), NEW c \in S
  PROVE  /\ Range(SendToBack(q, c)) = Range(q) \cup {c}
         /\ Range(SendToFront(q, c)) = Range(q) \cup {c}
         /\ q # << >> => Head(q) \in Range(q) /\ Range(Tail(q)) \subseteq Range(q)
<1>1. Range(SendToBack(q, c)) = Range(q) \cup {c}
  <2>1. \A i \in 1..Len(q) : SendToBack(q, c)[i] = q[i]
    BY DEF SendToBack
  <2>2. SendToBack(q, c)[Len(q) + 1] = c /\ DOMAIN SendToBack(q, c) = 1..(Len(q) + 1)
    BY DEF SendToBack
  <2> QED
    BY <2>1, <2>2 DEF Range
<1>2. Range(SendToFront(q, c)) = Range(q) \cup {c}
  <2>1. /\ DOMAIN SendToFront(q, c) = 1..(Len(q) + 1)
        /\ SendToFront(q, c)[1] = c
        /\ \A i \in 1..Len(q) : SendToFront(q, c)[i + 1] = q[i]
    BY DEF SendToFront
  <2>2. \A i \in 2..(Len(q) + 1) : i - 1 \in 1..Len(q) /\ (i - 1) + 1 = i
    OBVIOUS
  <2>3. \A i \in 2..(Len(q) + 1) : SendToFront(q, c)[i] = q[i - 1]
    BY <2>1, <2>2
  <2>4. Range(SendToFront(q, c)) \subseteq Range(q) \cup {c}
    <3> SUFFICES ASSUME NEW i \in 1..(Len(q) + 1)
                 PROVE  SendToFront(q, c)[i] \in Range(q) \cup {c}
      BY <2>1 DEF Range
    <3>1. CASE i = 1
      BY <2>1, <3>1
    <3>2. CASE i \in 2..(Len(q) + 1)
      BY <2>2, <2>3, <3>2 DEF Range
    <3> QED
      BY <3>1, <3>2
  <2>5. \A i \in 1..Len(q) : q[i] \in Range(SendToFront(q, c))
    <3> TAKE i \in 1..Len(q)
    <3>1. i + 1 \in DOMAIN SendToFront(q, c) /\ SendToFront(q, c)[i + 1] = q[i]
      BY <2>1
    <3> QED
      BY <3>1 DEF Range
  <2>6. c \in Range(SendToFront(q, c))
    BY <2>1 DEF Range
  <2>7. Range(q) \subseteq Range(SendToFront(q, c))
    BY <2>5 DEF Range
  <2> QED
    BY <2>4, <2>6, <2>7
<1>3. ASSUME q # << >>
      PROVE  Head(q) \in Range(q) /\ Range(Tail(q)) \subseteq Range(q)
  <2>1. DOMAIN Tail(q) = 1..(Len(q) - 1) /\ \A i \in DOMAIN Tail(q) : Tail(q)[i] = q[i + 1]
    BY <1>3
  <2>2. DOMAIN q = 1..Len(q) /\ Len(q) \in Nat /\ Len(q) >= 1 /\ Head(q) = q[1]
    BY <1>3
  <2> QED
    BY <2>1, <2>2 DEF Range
<1> QED
  BY <1>1, <1>2, <1>3

(* The overflow is on record before a command is lost or a recovery event  *)
(* is queued (BlindsCommandQueue.cpp:68 comes before line 71).  The three  *)
(* conjuncts of RecordedBeforeLoss are inductive together with TypeOK,     *)
(* because a fault once recorded stays.                                    *)
THEOREM LossIsRecorded == Spec => []RecordedBeforeLoss
<1> USE QueueAssumption
<1>1. Init => RecordedBeforeLoss
  BY DEF Init, RecordedBeforeLoss, Range
<1>2. TypeOK /\ RecordedBeforeLoss /\ [Next]_vars => RecordedBeforeLoss'
  <2> SUFFICES ASSUME TypeOK, RecordedBeforeLoss, [Next]_vars PROVE RecordedBeforeLoss'
    OBVIOUS
  <2> DEFINE All == Command \cup Recovery
  <2> USE DEF RecordedBeforeLoss, Goto
  <2>0. queue \in Seq(All) /\ pc \in [Senders -> Positions] /\ fault \in FaultRecord
    BY DEF TypeOK
  <2>1. ASSUME NEW s \in Senders, Send(s) PROVE RecordedBeforeLoss'
    <3>1. UNCHANGED <<fault, delivered, discarded>>
      BY <2>1 DEF Send
    <3>2. \A t \in Senders : pc'[t] \in {"front", "discard", "again"} => pc'[t] = pc[t]
      BY <2>0, <2>1 DEF Send
    <3>3. \A c \in Range(queue') : c \in Range(queue) \/ c \in Command
      <4>1. CASE queue' = queue
        BY <4>1
      <4>2. ASSUME NEW c \in Command, queue' = SendToBack(queue, c)
            PROVE  \A d \in Range(queue') : d \in Range(queue) \/ d \in Command
        <5>1. c \in All
          OBVIOUS
        <5>2. Range(queue') = Range(queue) \cup {c}
          BY ONLY <5>1, <4>2, <2>0, ElementsLemma
        <5> QED
          BY <5>2
      <4>3. queue' = queue \/ \E c \in Command : queue' = SendToBack(queue, c)
        BY <2>1, SendStepLemma
      <4> QED
        BY <4>1, <4>2, <4>3
    <3>4. Command \cap Recovery = {}
      BY DEF Command, Recovery
    <3> QED
      BY <3>1, <3>2, <3>3, <3>4
  <2>2. ASSUME NEW s \in Senders, LoadDropped(s) \/ StoreDropped(s) \/ ChooseRecovery(s)
        PROVE  RecordedBeforeLoss'
    BY <2>0, <2>2 DEF LoadDropped, StoreDropped, ChooseRecovery
  <2>3. ASSUME NEW s \in Senders, RecordOverflow(s) PROVE RecordedBeforeLoss'
    <3>1. HasFault(fault')
      BY <2>0, <2>3, RecordFaultLemma DEF RecordOverflow, OverflowRecorded
    <3> QED
      BY <3>1
  <2>4. ASSUME NEW s \in Senders,
               SendRecoveryToFront(s) \/ DiscardHead(s) \/ SendRecoveryAgain(s)
        PROVE  RecordedBeforeLoss'
    <3>1. HasFault(fault)
      BY <2>4 DEF SendRecoveryToFront, DiscardHead, SendRecoveryAgain
    <3>2. fault' = fault
      BY <2>4 DEF SendRecoveryToFront, DiscardHead, SendRecoveryAgain
    <3> QED
      BY <3>1, <3>2
  <2>5. ASSUME Receive PROVE RecordedBeforeLoss'
    <3>1. Head(queue) \in Range(queue) /\ Range(Tail(queue)) \subseteq Range(queue)
      <4>1. queue # << >>
        BY <2>5 DEF Receive
      <4>2. Head(queue) \in All
        BY <2>0, <4>1, TakeLemma
      <4> QED
        BY ONLY <4>1, <4>2, <2>0, ElementsLemma
    <3> QED
      BY <2>5, <3>1 DEF Receive
  <2>6. CASE UNCHANGED vars
    BY <2>6 DEF vars
  <2> QED
    BY <2>1, <2>2, <2>3, <2>4, <2>5, <2>6 DEF Next, SenderStep
<1> QED
  BY <1>1, <1>2, TypeCorrect, PTL DEF Spec

-----------------------------------------------------------------------------
(* The queue with its non-atomic send() implements the bounded FIFO that   *)
(* loses or overtakes commands only once a fault is on record.             *)
THEOREM ImplementsLossyFifo == Spec => LossyFifoSpec
<1> USE QueueAssumption
<1>1. Init => Fifo!Init
  BY NoFaultLemma DEF Init, Fifo!Init
<1>2. TypeOK /\ RecordedBeforeLoss /\ [Next]_vars => [Fifo!Next]_(Fifo!fifoVars)
  <2> SUFFICES ASSUME TypeOK, RecordedBeforeLoss, [Next]_vars
               PROVE  Fifo!Next \/ UNCHANGED Fifo!fifoVars
    OBVIOUS
  <2> USE DEF Fifo!fifoVars, Fifo!Next
  <2>1. ASSUME NEW s \in Senders, Send(s) PROVE Fifo!Next \/ UNCHANGED Fifo!fifoVars
    <3>1. fault' = fault /\ delivered' = delivered
      BY <2>1 DEF Send
    <3>2. CASE queue' = queue
      BY <3>1, <3>2
    <3>3. ASSUME NEW c \in Command, HasRoom(queue), queue' = SendToBack(queue, c)
          PROVE  Fifo!Accept
      BY <3>1, <3>3 DEF Fifo!Accept, HasRoom, SendToBack
    <3>4. queue' = queue \/ \E c \in Command : HasRoom(queue) /\ queue' = SendToBack(queue, c)
      BY <2>1, SendStepLemma
    <3> QED
      BY <3>2, <3>3, <3>4
  <2>2. ASSUME NEW s \in Senders, LoadDropped(s) \/ StoreDropped(s) \/ ChooseRecovery(s)
        PROVE  UNCHANGED Fifo!fifoVars
    BY <2>2 DEF LoadDropped, StoreDropped, ChooseRecovery
  <2>3. ASSUME NEW s \in Senders, RecordOverflow(s) PROVE Fifo!Degrade
    BY <2>3, RecordFaultLemma DEF RecordOverflow, OverflowRecorded, Fifo!Degrade, TypeOK
  <2>4. ASSUME NEW s \in Senders, SendRecoveryToFront(s) \/ SendRecoveryAgain(s)
        PROVE  Fifo!Inject \/ UNCHANGED Fifo!fifoVars
    <3>1. HasFault(fault) /\ fault' = fault /\ delivered' = delivered
      BY <2>4 DEF SendRecoveryToFront, SendRecoveryAgain, RecordedBeforeLoss
    <3>2. CommandFor(recovery[s]) \in Recovery
      BY DEF CommandFor, Recovery, TypeOK
    <3> QED
      BY <2>4, <3>1, <3>2
         DEF SendRecoveryToFront, SendRecoveryAgain, Fifo!Inject, HasRoom, SendToFront
  <2>5. ASSUME NEW s \in Senders, DiscardHead(s) PROVE Fifo!Lose \/ UNCHANGED Fifo!fifoVars
    BY <2>5 DEF DiscardHead, HeadRemoved, Fifo!Lose, RecordedBeforeLoss
  <2>6. ASSUME Receive PROVE Fifo!Deliver
    BY <2>6 DEF Receive, Fifo!Deliver
  <2>7. CASE UNCHANGED vars
    BY <2>7 DEF vars
  <2> QED
    BY <2>1, <2>2, <2>3, <2>4, <2>5, <2>6, <2>7 DEF Next, SenderStep
<1> QED
  BY <1>1, <1>2, TypeCorrect, LossIsRecorded, PTL DEF Spec, LossyFifoSpec, Fifo!Spec

-----------------------------------------------------------------------------
(* What became of the commands.  Numbers grow with every send, so a        *)
(* command is told from all earlier ones of its sender by its number; the  *)
(* histories and the queue together are a ledger of all of them.           *)
Entry == Command \cup Recovery

Ordered(q) ==
  \A i, j \in 1..Len(q) :
    i < j /\ q[i].from = q[j].from /\ q[i] \in Command => q[i].no < q[j].no

Queued == Range(queue) \cap Command

Gone == (delivered \cup discarded) \cap Command

QueuedAfterGone == \A c \in Queued, d \in Gone : c.from = d.from => d.no < c.no

NumberedBySender == \A c \in Queued \cup Gone \cup refused : c.no <= sent[c.from]

OnePlace ==
  /\ delivered \cap discarded \cap Command = {}
  /\ refused \cap (Queued \cup Gone) = {}

NoneMissing ==
  \A s \in Senders, n \in 1..MaxSends :
    n <= sent[s] => \E c \in Queued \cup Gone \cup refused : c.from = s /\ c.no = n

Ledger ==
  Ordered(queue) /\ QueuedAfterGone /\ NumberedBySender /\ OnePlace /\ NoneMissing

(* A recovery event is nobody's command. *)
LEMMA AuthorsLemma ==
  /\ \A c \in Command : c.from \in Senders /\ c.no \in 1..MaxSends
  /\ \A r \in Recovery : r \notin Command /\ r.from = QueueItself
  /\ \A r \in Recovery : r.from \notin Senders
  BY QueueAssumption DEF Command, Recovery

(* The order of the senders' commands survives every queue call. *)
LEMMA OrderedBack ==
  ASSUME NEW q \in Seq(Entry), Ordered(q), NEW c \in Command,
         \A d \in Range(q) \cap Command : d.from = c.from => d.no < c.no
  PROVE  Ordered(SendToBack(q, c))
<1> DEFINE p == SendToBack(q, c)
<1>1. /\ Len(q) \in Nat /\ Len(p) = Len(q) + 1 /\ p[Len(q) + 1] = c
      /\ \A i \in 1..Len(q) : p[i] = q[i]
  BY DEF SendToBack
<1>2. \A i \in 1..Len(q) : q[i] \in Range(q)
  BY DEF Range
<1> HIDE DEF p
<1>3. SUFFICES ASSUME NEW i \in 1..Len(p), NEW j \in 1..Len(p),
                      i < j, p[i].from = p[j].from, p[i] \in Command
               PROVE  p[i].no < p[j].no
  BY DEF Ordered, p
<1>4. i \in 1..Len(q) /\ p[i] = q[i]
  BY <1>1, <1>3
<1>5. CASE j \in 1..Len(q)
  BY <1>1, <1>3, <1>4, <1>5 DEF Ordered
<1>6. CASE j = Len(q) + 1
  BY <1>1, <1>2, <1>3, <1>4, <1>6
<1>7. QED
  BY <1>1, <1>5, <1>6

LEMMA OrderedFront ==
  ASSUME NEW q \in Seq(Entry), Ordered(q), NEW r \in Recovery
  PROVE  Ordered(SendToFront(q, r))
<1> DEFINE p == SendToFront(q, r)
<1>1. /\ Len(q) \in Nat /\ Len(p) = Len(q) + 1 /\ p[1] = r
      /\ \A i \in 2..(Len(q) + 1) : p[i] = q[i - 1]
  BY DEF SendToFront
<1> HIDE DEF p
<1>2. SUFFICES ASSUME NEW i \in 1..Len(p), NEW j \in 1..Len(p),
                      i < j, p[i].from = p[j].from, p[i] \in Command
               PROVE  p[i].no < p[j].no
  BY DEF Ordered, p
<1>3. i # 1
  BY <1>1, <1>2, AuthorsLemma
<1>4. /\ i - 1 \in 1..Len(q) /\ j - 1 \in 1..Len(q) /\ i - 1 < j - 1
      /\ p[i] = q[i - 1] /\ p[j] = q[j - 1]
  BY <1>1, <1>2, <1>3
<1>5. QED
  BY <1>2, <1>4 DEF Ordered

LEMMA OrderedTail ==
  ASSUME NEW q \in Seq(Entry), Ordered(q), q # << >>
  PROVE  /\ Ordered(Tail(q))
         /\ Range(q) = {Head(q)} \cup Range(Tail(q))
         /\ Head(q) \in Command =>
              \A c \in Range(Tail(q)) : c.from = Head(q).from => Head(q).no < c.no
<1> DEFINE p == Tail(q)
<1>1. /\ Len(q) \in Nat /\ Len(q) >= 1 /\ Len(p) = Len(q) - 1 /\ Head(q) = q[1]
      /\ \A i \in 1..Len(p) : p[i] = q[i + 1]
      /\ DOMAIN p = 1..Len(p) /\ DOMAIN q = 1..Len(q)
  OBVIOUS
<1> HIDE DEF p
<1>2. Ordered(p)
  <2>1. SUFFICES ASSUME NEW i \in 1..Len(p), NEW j \in 1..Len(p),
                        i < j, p[i].from = p[j].from, p[i] \in Command
                 PROVE  p[i].no < p[j].no
    BY DEF Ordered
  <2>2. i + 1 \in 1..Len(q) /\ j + 1 \in 1..Len(q) /\ i + 1 < j + 1
    BY <1>1, <2>1
  <2>3. p[i] = q[i + 1] /\ p[j] = q[j + 1]
    BY <1>1
  <2>4. QED
    BY <2>1, <2>2, <2>3 DEF Ordered
<1>3. \A c : c \in Range(p) <=> \E i \in 2..Len(q) : c = q[i]
  <2>1. ASSUME NEW i \in 1..Len(p) PROVE i + 1 \in 2..Len(q) /\ p[i] = q[i + 1]
    BY <1>1
  <2>2. ASSUME NEW i \in 2..Len(q) PROVE i - 1 \in 1..Len(p) /\ p[i - 1] = q[i]
    BY <1>1
  <2>3. QED
    BY <1>1, <2>1, <2>2 DEF Range
<1>4. Range(q) = {Head(q)} \cup Range(p)
  <2>1. \A i \in 1..Len(q) : i = 1 \/ i \in 2..Len(q)
    BY <1>1
  <2>2. 1 \in 1..Len(q) /\ \A i \in 2..Len(q) : i \in 1..Len(q)
    BY <1>1
  <2>3. QED
    BY <1>1, <1>3, <2>1, <2>2 DEF Range
<1>5. ASSUME Head(q) \in Command, NEW c \in Range(p), c.from = Head(q).from
      PROVE  Head(q).no < c.no
  <2>1. PICK j \in 2..Len(q) : c = q[j]
    BY <1>3, <1>5
  <2>2. 1 \in 1..Len(q) /\ j \in 1..Len(q) /\ 1 < j
    BY <1>1
  <2>3. QED
    BY <1>1, <1>5, <2>1, <2>2 DEF Ordered
<1>6. QED
  BY <1>2, <1>4, <1>5 DEF p

(* A new command has a number no earlier one of its sender has. *)
LEMMA LedgerSend ==
  ASSUME TypeOK, Ledger, NEW s \in Senders, Send(s)
  PROVE  Ledger'
<1> USE DEF Ledger
<1>1. PICK e \in Events :
        LET c == [event |-> e, from |-> s, no |-> sent[s] + 1] IN
        \/ queue' = SendToBack(queue, c) /\ refused' = refused
        \/ queue' = queue /\ refused' = refused \cup {c}
  BY DEF Send
<1> DEFINE c == [event |-> e, from |-> s, no |-> sent[s] + 1]
<1>2. /\ sent[s] \in Nat /\ sent[s] < MaxSends /\ UNCHANGED <<delivered, discarded>>
      /\ sent' = [sent EXCEPT ![s] = sent[s] + 1] /\ sent \in [Senders -> 0..MaxSends]
      /\ queue \in Seq(Entry) /\ refused \subseteq Command
  BY DEF Send, TypeOK, Entry
<1>3. c \in Command /\ c.from = s /\ c.no = sent[s] + 1
  BY <1>2, QueueAssumption DEF Command
<1> HIDE DEF c
<1>4. \A t \in Senders : sent'[t] = IF t = s THEN sent[s] + 1 ELSE sent[t]
  BY <1>2
<1>5. \A d \in Queued \cup Gone \cup refused :
        d \in Command /\ d.from \in Senders /\ d.no \in Nat /\ (d.from = s => d.no < c.no)
  BY <1>2, <1>3, AuthorsLemma DEF NumberedBySender, Queued, Gone
<1>6. c \notin Queued \cup Gone \cup refused
  BY <1>3, <1>5
<1>7. Gone' = Gone
  BY <1>2 DEF Gone
<1>8. /\ Ordered(queue')
      /\ \/ Queued' = Queued \cup {c} /\ refused' = refused
         \/ Queued' = Queued /\ refused' = refused \cup {c}
  <2>1. CASE queue' = SendToBack(queue, c) /\ refused' = refused
    <3>1. \A d \in Range(queue) \cap Command : d.from = c.from => d.no < c.no
      BY <1>3, <1>5 DEF Queued
    <3>2. Ordered(queue')
      BY <1>2, <1>3, <2>1, <3>1, OrderedBack
    <3>3. c \in Entry
      BY <1>3 DEF Entry
    <3>4. Range(queue') = Range(queue) \cup {c}
      BY <1>2, <2>1, <3>3, ElementsLemma
    <3>5. QED
      BY <1>3, <2>1, <3>2, <3>4 DEF Queued
  <2>2. CASE queue' = queue /\ refused' = refused \cup {c}
    BY <2>2 DEF Queued
  <2>3. QED
    BY <1>1, <2>1, <2>2 DEF c
<1>9. QueuedAfterGone'
  BY <1>3, <1>5, <1>7, <1>8 DEF QueuedAfterGone
<1>10. NumberedBySender'
  <2>1. SUFFICES ASSUME NEW d \in Queued' \cup Gone' \cup refused' PROVE d.no <= sent'[d.from]
    BY DEF NumberedBySender
  <2>2. CASE d = c
    BY <1>2, <1>3, <1>4, <2>2
  <2>3. CASE d \in Queued \cup Gone \cup refused
    BY <1>2, <1>4, <1>5, <2>3 DEF NumberedBySender
  <2>4. QED
    BY <1>7, <1>8, <2>2, <2>3
<1>11. OnePlace'
  BY <1>2, <1>6, <1>7, <1>8 DEF OnePlace
<1>12. NoneMissing'
  <2>1. SUFFICES ASSUME NEW t \in Senders, NEW n \in 1..MaxSends, n <= sent'[t]
                 PROVE  \E d \in Queued' \cup Gone' \cup refused' : d.from = t /\ d.no = n
    BY DEF NoneMissing
  <2>2. CASE t = s /\ n = sent[s] + 1
    BY <1>3, <1>8, <2>2
  <2>3. CASE n <= sent[t]
    BY <1>7, <1>8, <2>3 DEF NoneMissing
  <2>4. QED
    BY <1>2, <1>4, <2>1, <2>2, <2>3
<1>13. QED
  BY <1>8, <1>9, <1>10, <1>11, <1>12

(* A recovery event overtakes commands without changing their order. *)
LEMMA LedgerFront ==
  ASSUME TypeOK, Ledger, NEW s \in Senders, SendRecoveryToFront(s) \/ SendRecoveryAgain(s)
  PROVE  Ledger'
<1> USE DEF Ledger
<1>1. UNCHANGED <<sent, refused, delivered, discarded>>
  BY DEF SendRecoveryToFront, SendRecoveryAgain
<1>2. Ordered(queue') /\ Queued' = Queued
  <2> DEFINE r == CommandFor(recovery[s])
  <2>1. CASE queue' = queue
    BY <2>1 DEF Queued
  <2>2. CASE queue' = SendToFront(queue, r)
    <3>1. r \in Recovery /\ r \in Entry /\ queue \in Seq(Entry)
      BY DEF CommandFor, Recovery, TypeOK, Entry
    <3>2. Ordered(queue')
      BY <2>2, <3>1, OrderedFront
    <3>3. Range(queue') = Range(queue) \cup {r} /\ r \notin Command
      BY <2>2, <3>1, ElementsLemma, AuthorsLemma
    <3>4. QED
      BY <3>2, <3>3 DEF Queued
  <2>3. QED
    BY <2>1, <2>2 DEF SendRecoveryToFront, SendRecoveryAgain
<1>3. Gone' = Gone
  BY <1>1 DEF Gone
<1>4. QED
  BY <1>1, <1>2, <1>3 DEF QueuedAfterGone, NumberedBySender, OnePlace, NoneMissing

(* The oldest command goes to the Blinds task or is thrown away; every     *)
(* earlier one of its sender has gone before.                              *)
LEMMA LedgerTake ==
  ASSUME TypeOK, Ledger, queue # << >>, queue' = Tail(queue),
         UNCHANGED <<sent, refused>>,
         \/ delivered' = delivered \cup {Head(queue)} /\ UNCHANGED discarded
         \/ discarded' = discarded \cup {Head(queue)} /\ UNCHANGED delivered
  PROVE  Ledger'
<1> USE DEF Ledger
<1> DEFINE h == Head(queue)
<1>1. queue \in Seq(Entry) /\ h \in Entry /\ refused \subseteq Command
  BY TakeLemma DEF TypeOK, Entry
<1>2. /\ Ordered(queue') /\ Range(queue) = {h} \cup Range(queue')
      /\ h \in Command => \A c \in Range(queue') : c.from = h.from => h.no < c.no
  BY <1>1, OrderedTail
<1> HIDE DEF h
<1>3. \A c \in Command : c.no \in Nat
  BY AuthorsLemma
<1>4. CASE h \in Command
  <2>1. h \in Queued /\ h \notin Gone
    BY <1>2, <1>3, <1>4 DEF Queued, QueuedAfterGone
  <2>2. /\ Queued = Queued' \cup {h} /\ h \notin Queued' /\ Gone' = Gone \cup {h}
        /\ \A c \in Queued' : c.from = h.from => h.no < c.no
    BY <1>2, <1>3, <1>4 DEF Queued, Gone, h
  <2>3. QueuedAfterGone'
    BY <2>2 DEF QueuedAfterGone
  <2>4. OnePlace'
    BY <2>1, <2>2 DEF OnePlace, Gone, h
  <2>5. Queued' \cup Gone' \cup refused' = Queued \cup Gone \cup refused
    BY <2>2
  <2>6. NumberedBySender' /\ NoneMissing'
    BY <2>5 DEF NumberedBySender, NoneMissing
  <2>7. QED
    BY <1>2, <2>3, <2>4, <2>6
<1>5. CASE h \notin Command
  <2>1. Queued' = Queued /\ Gone' = Gone
    BY <1>2, <1>5 DEF Queued, Gone, h
  <2>2. OnePlace'
    BY <1>5, <2>1 DEF OnePlace, h
  <2>3. QueuedAfterGone' /\ NumberedBySender' /\ NoneMissing'
    BY <2>1 DEF QueuedAfterGone, NumberedBySender, NoneMissing
  <2>4. QED
    BY <1>2, <2>2, <2>3
<1>6. QED
  BY <1>4, <1>5

LEMMA LedgerNext ==
  ASSUME TypeOK, Ledger, [Next]_vars
  PROVE  Ledger'
<1>1. ASSUME UNCHANGED <<queue, sent, refused, delivered, discarded>> PROVE Ledger'
  BY <1>1 DEF Ledger, QueuedAfterGone, NumberedBySender, OnePlace, NoneMissing, Queued, Gone
<1>2. ASSUME NEW s \in Senders,
             LoadDropped(s) \/ StoreDropped(s) \/ ChooseRecovery(s) \/ RecordOverflow(s)
      PROVE  Ledger'
  BY <1>1, <1>2 DEF LoadDropped, StoreDropped, ChooseRecovery, RecordOverflow
<1>3. ASSUME NEW s \in Senders, DiscardHead(s) PROVE Ledger'
  BY <1>1, <1>3, LedgerTake DEF DiscardHead, HeadRemoved
<1>4. CASE Receive
  BY <1>4, LedgerTake DEF Receive
<1>5. CASE UNCHANGED vars
  BY <1>1, <1>5 DEF vars
<1>6. QED
  BY <1>2, <1>3, <1>4, <1>5, LedgerSend, LedgerFront DEF Next, SenderStep

LEMMA LedgerKept == Spec => []Ledger
<1>1. Init => Ledger
  <2>1. SUFFICES ASSUME Init PROVE Ledger
    OBVIOUS
  <2>2. Queued = {} /\ Gone = {} /\ refused = {} /\ delivered = {} /\ Len(queue) = 0
    BY <2>1 DEF Init, Queued, Gone, Range
  <2>3. \A s \in Senders : sent[s] = 0
    BY <2>1 DEF Init
  <2>4. QED
    BY <2>2, <2>3
    DEF Ledger, Ordered, QueuedAfterGone, NumberedBySender, OnePlace, NoneMissing
<1>2. TypeOK /\ Ledger /\ [Next]_vars => Ledger'
  BY LedgerNext
<1>3. QED
  BY <1>1, <1>2, TypeCorrect, PTL DEF Spec

(* Commands of one task or ISR reach the Blinds task in the order they     *)
(* were sent, past every recovery event and every discarded head           *)
(* (BlindsCommandQueue.cpp:57-121).                                        *)
THEOREM OrderOfSenders == Spec => []SenderOrder
<1>1. TypeOK /\ Ledger => SenderOrder
  <2>1. SUFFICES ASSUME TypeOK, Ledger PROVE SenderOrder
    OBVIOUS
  <2>2. DOMAIN queue = 1..Len(queue)
    BY <2>1 DEF TypeOK
  <2>3. \A i, j \in DOMAIN queue :
          i < j /\ queue[i].from = queue[j].from /\ queue[i] \in Command
            => queue[i].no < queue[j].no
    BY <2>1, <2>2 DEF Ledger, Ordered
  <2>4. \A c \in Range(queue) \cap Command, d \in delivered \cap Command :
          c.from = d.from => d.no < c.no
    BY <2>1 DEF Ledger, QueuedAfterGone, Queued, Gone
  <2>5. QED
    BY <2>3, <2>4 DEF SenderOrder
<1>2. QED
  BY <1>1, LedgerKept, TypeCorrect, PTL

(* Each command begun is in exactly one place: queued, received, discarded *)
(* or refused.                                                             *)
THEOREM EveryCommandAccounted == Spec => []Accounted
<1>1. TypeOK /\ Ledger => Accounted
  <2>1. SUFFICES ASSUME TypeOK, Ledger PROVE Accounted
    OBVIOUS
  <2>2. Queued \cap Gone = {}
    BY <2>1, AuthorsLemma DEF Ledger, QueuedAfterGone, Queued, Gone
  <2>3. QED
    BY <2>1, <2>2 DEF Ledger, OnePlace, NoneMissing, Accounted, Queued, Gone
<1>2. QED
  BY <1>1, LedgerKept, TypeCorrect, PTL

-----------------------------------------------------------------------------
(* The unlocked counter.  A sender between its refusal and its write of    *)
(* the counter has a refusal the counter does not hold yet, so the counter *)
(* and every copy of it about to be written leave room for all of them.    *)
Pending == {s \in Senders : pc[s] \in {"load", "store"}}

Covered(n) == n + Cardinality(Pending) <= Cardinality(refused)

CountInv ==
  /\ IsFiniteSet(Pending) /\ IsFiniteSet(refused)
  /\ Covered(droppedEvents)
  /\ \A s \in Senders : pc[s] = "store" => Covered(loaded[s])
  /\ \A s \in Senders : recovery[s] = "FAULT" => Cardinality(refused) >= DropThreshold

LEMMA CountSend ==
  ASSUME TypeOK, Ledger, CountInv, NEW s \in Senders, Send(s)
  PROVE  CountInv'
<1> USE DEF CountInv
<1>1. PICK e \in Events :
        LET c == [event |-> e, from |-> s, no |-> sent[s] + 1] IN
        \/ UNCHANGED <<pc, refused>>
        \/ Goto(s, "load") /\ refused' = refused \cup {c}
  BY DEF Send
<1>2. pc[s] = "idle" /\ UNCHANGED <<droppedEvents, loaded, recovery>>
  BY DEF Send
<1>3. CASE UNCHANGED <<pc, refused>>
  BY <1>2, <1>3 DEF Pending, Covered
<1> DEFINE c == [event |-> e, from |-> s, no |-> sent[s] + 1]
<1>4. CASE Goto(s, "load") /\ refused' = refused \cup {c}
  <2>1. c \notin refused
    BY DEF Ledger, NumberedBySender, TypeOK
  <2> HIDE DEF c
  <2>2. s \notin Pending /\ Pending' = Pending \cup {s}
    BY <1>2, <1>4 DEF Pending, Goto, TypeOK
  <2>3. /\ IsFiniteSet(Pending') /\ Cardinality(Pending') = Cardinality(Pending) + 1
        /\ IsFiniteSet(refused') /\ Cardinality(refused') = Cardinality(refused) + 1
        /\ Cardinality(Pending) \in Nat /\ Cardinality(refused) \in Nat
    BY <1>4, <2>1, <2>2, FS_AddElement, FS_CardinalityType
  <2>4. \A t \in Senders : pc'[t] = "store" => pc[t] = "store"
    BY <1>4 DEF Goto, TypeOK
  <2>5. \A n \in Nat : Covered(n) => Covered(n)'
    BY <2>3 DEF Covered
  <2>6. Covered(droppedEvents)' /\ \A t \in Senders : pc'[t] = "store" => Covered(loaded[t])'
    BY <1>2, <2>3, <2>4 DEF Covered, TypeOK
  <2>7. \A t \in Senders : recovery'[t] = "FAULT" => Cardinality(refused') >= DropThreshold
    BY <1>2, <2>3, QueueAssumption
  <2>8. QED
    BY <2>3, <2>6, <2>7
<1>5. QED
  BY <1>1, <1>3, <1>4

(* The write of the counter settles one refusal, even if it undoes the     *)
(* writes of others.                                                       *)
LEMMA CountStore ==
  ASSUME TypeOK, CountInv, NEW s \in Senders, StoreDropped(s)
  PROVE  CountInv'
<1> USE DEF CountInv
<1>1. /\ pc[s] = "store" /\ droppedEvents' = loaded[s] + 1 /\ loaded[s] \in Nat
      /\ pc' = [pc EXCEPT ![s] = "choose"] /\ UNCHANGED <<loaded, recovery, refused>>
  BY DEF StoreDropped, Goto, TypeOK
<1>2. s \in Pending /\ Pending' = Pending \ {s}
  BY <1>1 DEF Pending, TypeOK
<1>3. /\ IsFiniteSet(Pending') /\ Cardinality(Pending') = Cardinality(Pending) - 1
      /\ Cardinality(Pending) \in Nat /\ Cardinality(refused) \in Nat
  BY <1>2, FS_RemoveElement, FS_CardinalityType
<1>4. Covered(droppedEvents)'
  BY <1>1, <1>3 DEF Covered
<1>5. ASSUME NEW t \in Senders, pc'[t] = "store" PROVE Covered(loaded[t])'
  <2>1. pc[t] = "store" /\ loaded[t] \in Nat
    BY <1>1, <1>5 DEF TypeOK
  <2>2. QED
    BY <1>1, <1>3, <2>1 DEF Covered
<1>6. QED
  BY <1>1, <1>3, <1>4, <1>5

LEMMA CountNext ==
  ASSUME TypeOK, Ledger, CountInv, [Next]_vars
  PROVE  CountInv'
<1> USE DEF CountInv
<1>1. ASSUME UNCHANGED <<pc, droppedEvents, loaded, recovery, refused>> PROVE CountInv'
  BY <1>1 DEF Pending, Covered
<1>2. ASSUME NEW s \in Senders, LoadDropped(s) PROVE CountInv'
  <2>1. /\ loaded' = [loaded EXCEPT ![s] = droppedEvents] /\ pc[s] = "load"
        /\ pc' = [pc EXCEPT ![s] = "store"] /\ UNCHANGED <<droppedEvents, recovery, refused>>
    BY <1>2 DEF LoadDropped, Goto
  <2>2. Pending' = Pending
    BY <2>1 DEF Pending, TypeOK
  <2>3. \A t \in Senders \ {s} : pc'[t] = pc[t] /\ loaded'[t] = loaded[t]
    BY <2>1 DEF TypeOK
  <2>4. loaded'[s] = droppedEvents
    BY <2>1 DEF TypeOK
  <2>5. \A t \in Senders : pc'[t] = "store" => Covered(loaded[t])'
    BY <2>1, <2>2, <2>3, <2>4 DEF Covered
  <2>6. QED
    BY <2>1, <2>2, <2>5 DEF Covered
<1>3. ASSUME NEW s \in Senders, ChooseRecovery(s) PROVE CountInv'
  <2>1. /\ recovery' = [recovery EXCEPT ![s] = RecoveryEventFor(droppedEvents)]
        /\ pc[s] = "choose" /\ pc' = [pc EXCEPT ![s] = "record"]
        /\ UNCHANGED <<droppedEvents, loaded, refused>>
    BY <1>3 DEF ChooseRecovery, Goto
  <2>2. Pending' = Pending /\ \A t \in Senders : pc'[t] = "store" => pc[t] = "store"
    BY <2>1 DEF Pending, TypeOK
  <2>3. Cardinality(Pending) \in Nat /\ Cardinality(refused) \in Nat /\ droppedEvents \in Nat
    BY FS_CardinalityType DEF TypeOK
  <2>4. droppedEvents <= Cardinality(refused)
    BY <2>3 DEF Covered
  <2>5. recovery'[s] = "FAULT" => Cardinality(refused) >= DropThreshold
    BY <2>1, <2>3, <2>4, QueueAssumption DEF RecoveryEventFor, TypeOK
  <2>6. \A t \in Senders \ {s} : recovery'[t] = recovery[t]
    BY <2>1 DEF TypeOK
  <2>7. QED
    BY <2>1, <2>2, <2>5, <2>6 DEF Covered
<1>4. ASSUME NEW s \in Senders,
             RecordOverflow(s) \/ SendRecoveryToFront(s) \/ DiscardHead(s) \/ SendRecoveryAgain(s)
      PROVE  CountInv'
  <2>1. /\ UNCHANGED <<droppedEvents, loaded, recovery, refused>>
        /\ pc[s] \notin {"load", "store"}
        /\ \E l \in {"front", "discard", "again", "idle"} : pc' = [pc EXCEPT ![s] = l]
    BY <1>4 DEF RecordOverflow, SendRecoveryToFront, DiscardHead, SendRecoveryAgain, Goto
  <2>2. Pending' = Pending /\ \A t \in Senders : pc'[t] = "store" => pc[t] = "store"
    BY <2>1 DEF Pending, TypeOK
  <2>3. QED
    BY <2>1, <2>2 DEF Covered
<1>5. CASE Receive
  BY <1>1, <1>5 DEF Receive
<1>6. CASE UNCHANGED vars
  BY <1>1, <1>6 DEF vars
<1>7. QED
  BY <1>2, <1>3, <1>4, <1>5, <1>6, CountSend, CountStore DEF Next, SenderStep

(* Lost updates only make droppedEvents_ too small: FAULT is never forced  *)
(* in front before DropThreshold commands were refused, for any number of  *)
(* senders racing on the counter (BlindsCommandQueue.cpp:66-71).           *)
THEOREM EscalationIsJustified == Spec => []EscalationJustified
<1>1. Init => CountInv
  <2>1. SUFFICES ASSUME Init PROVE CountInv
    OBVIOUS
  <2>2. Pending = {} /\ refused = {} /\ droppedEvents = 0
    BY <2>1 DEF Init, Pending
  <2>3. \A s \in Senders : pc[s] # "store" /\ recovery[s] # "FAULT"
    BY <2>1 DEF Init
  <2>4. QED
    BY <2>2, <2>3, FS_EmptySet DEF CountInv, Covered
<1>2. TypeOK /\ Ledger /\ CountInv /\ [Next]_vars => CountInv'
  BY CountNext
<1>3. TypeOK /\ CountInv => EscalationJustified
  <2>1. SUFFICES ASSUME TypeOK, CountInv PROVE EscalationJustified
    OBVIOUS
  <2>2. Cardinality(Pending) \in Nat /\ Cardinality(refused) \in Nat /\ droppedEvents \in Nat
    BY <2>1, FS_CardinalityType DEF CountInv, TypeOK
  <2>3. QED
    BY <2>1, <2>2 DEF CountInv, Covered, EscalationJustified
<1>4. QED
  BY <1>1, <1>2, <1>3, LedgerKept, TypeCorrect, PTL DEF Spec

=============================================================================
