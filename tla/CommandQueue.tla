---------------------------- MODULE CommandQueue ----------------------------
(***************************************************************************)
(* BlindsCommandQueue: the one queue through which buttons, MQTT, the      *)
(* motor's refill task, the sensor ISRs and app_main reach the Blinds task.*)
(*                                                                         *)
(* Each FreeRTOS queue call is atomic, but send() is not: after a refusal  *)
(* it bumps a volatile counter without a lock, records the fault and then  *)
(* forces a recovery event to the front in up to three separate queue      *)
(* calls, while every other sender and the receiver keep running on either *)
(* core.  pc[s] is the next such call of sender s.  sendFromISR() makes    *)
(* the same calls in the same order, so an ISR is one more sender.         *)
(***************************************************************************)
EXTENDS FaultHandler, Naturals, Sequences, FiniteSets, Functions

CONSTANTS Senders,       \* tasks and ISRs that call send()
          QueueItself,   \* the author of recovery commands, not a sender
          Events,        \* events the senders send
          Depth,         \* AppConfig::commandsQueueDepth
          DropThreshold, \* DROPPED_EVENT_FAULT_THRESHOLD
          MaxSends       \* bound on the sends of one sender

ASSUME QueueAssumption ==
  /\ QueueItself \notin Senders
  /\ Depth \in Nat \ {0}
  /\ DropThreshold \in Nat \ {0}
  /\ MaxSends \in Nat

VARIABLES
  queue,         \* queue_, oldest first
  droppedEvents, \* droppedEvents_
  fault,         \* the FaultHandler's record
  pc,            \* pc[s]: the next call of s inside send(), or "idle"
  loaded,        \* loaded[s]: the value of droppedEvents_ s has read
  recovery,      \* recovery[s]: recoveryEvent of s
  sent,          \* history: how many sends s has begun
  refused,       \* history: commands xQueueSend refused
  delivered,     \* history: commands the Blinds task received
  discarded      \* history: commands thrown away to make room

vars == <<queue, droppedEvents, fault, pc, loaded, recovery,
          sent, refused, delivered, discarded>>

RecoveryEvents == {"STOP", "FAULT"}

(* A command carries its author and number so that histories can tell it   *)
(* from others; the program's BlindsCommand holds the event only.          *)
Command  == [event : Events, from : Senders, no : 1..MaxSends]
Recovery == [event : RecoveryEvents, from : {QueueItself}, no : {0}]

CommandFor(e) == [event |-> e, from |-> QueueItself, no |-> 0]

-----------------------------------------------------------------------------
(* Mutated forms of the operators below. *)

EscalateEarly(dropped) == IF dropped + 1 >= DropThreshold THEN "FAULT" ELSE "STOP"

RoomForOneMore(q) == Len(q) <= Depth

PutInFront(q, c) == <<c>> \o q

OverflowForgotten(s) == UNCHANGED fault

HeadPeeked(s) == UNCHANGED queue

-----------------------------------------------------------------------------
(* The FreeRTOS queue. *)

HasRoom(q) == Len(q) < Depth

SendToBack(q, c) == Append(q, c)

SendToFront(q, c) == <<c>> \o q

RecoveryEventFor(dropped) == IF dropped >= DropThreshold THEN "FAULT" ELSE "STOP"

-----------------------------------------------------------------------------
Init ==
  /\ queue = << >>
  /\ droppedEvents = 0
  /\ fault = NoFault
  /\ pc = [s \in Senders |-> "idle"]
  /\ loaded = [s \in Senders |-> 0]
  /\ recovery = [s \in Senders |-> "STOP"]
  /\ sent = [s \in Senders |-> 0]
  /\ refused = {} /\ delivered = {} /\ discarded = {}

Goto(s, l) == pc' = [pc EXCEPT ![s] = l]

(* send(), sendFromISR(): xQueueSend with no wait either queues the        *)
(* command and is done, or refuses it.                                     *)
Send(s) ==
  /\ pc[s] = "idle"
  /\ sent[s] < MaxSends
  /\ sent' = [sent EXCEPT ![s] = @ + 1]
  /\ \E e \in Events :
       LET c == [event |-> e, from |-> s, no |-> sent[s] + 1] IN
       \/ /\ HasRoom(queue)
          /\ queue' = SendToBack(queue, c)
          /\ UNCHANGED <<pc, refused>>
       \/ /\ ~ HasRoom(queue)
          /\ refused' = refused \cup {c}
          /\ Goto(s, "load")
          /\ UNCHANGED queue
  /\ UNCHANGED <<droppedEvents, fault, loaded, recovery, delivered, discarded>>

(* droppedEvents_ = droppedEvents_ + 1 reads the volatile and writes it in *)
(* two accesses.                                                           *)
LoadDropped(s) ==
  /\ pc[s] = "load"
  /\ loaded' = [loaded EXCEPT ![s] = droppedEvents]
  /\ Goto(s, "store")
  /\ UNCHANGED <<queue, droppedEvents, fault, recovery, sent, refused, delivered, discarded>>

StoreDropped(s) ==
  /\ pc[s] = "store"
  /\ droppedEvents' = loaded[s] + 1
  /\ Goto(s, "choose")
  /\ UNCHANGED <<queue, fault, loaded, recovery, sent, refused, delivered, discarded>>

(* recoveryEventFor() reads the counter again. *)
ChooseRecovery(s) ==
  /\ pc[s] = "choose"
  /\ recovery' = [recovery EXCEPT ![s] = RecoveryEventFor(droppedEvents)]
  /\ Goto(s, "record")
  /\ UNCHANGED <<queue, droppedEvents, fault, loaded, sent, refused, delivered, discarded>>

OverflowRecorded(s) == fault' = RecordFault(fault, "CommandQueue", "CommandQueueOverflow")

RecordOverflow(s) ==
  /\ pc[s] = "record"
  /\ OverflowRecorded(s)
  /\ Goto(s, "front")
  /\ UNCHANGED <<queue, droppedEvents, loaded, recovery, sent, refused, delivered, discarded>>

(* The first attempt to put the recovery event in front. *)
SendRecoveryToFront(s) ==
  /\ pc[s] = "front"
  /\ \/ /\ HasRoom(queue)
        /\ queue' = SendToFront(queue, CommandFor(recovery[s]))
        /\ Goto(s, "idle")
     \/ /\ ~ HasRoom(queue)
        /\ Goto(s, "discard")
        /\ UNCHANGED queue
  /\ UNCHANGED <<droppedEvents, fault, loaded, recovery, sent, refused, delivered, discarded>>

HeadRemoved(s) == queue' = Tail(queue)

(* The oldest command makes room; nothing to discard ends the attempt. *)
DiscardHead(s) ==
  /\ pc[s] = "discard"
  /\ \/ /\ queue # << >>
        /\ HeadRemoved(s)
        /\ discarded' = discarded \cup {Head(queue)}
        /\ Goto(s, "again")
     \/ /\ queue = << >>
        /\ Goto(s, "idle")
        /\ UNCHANGED <<queue, discarded>>
  /\ UNCHANGED <<droppedEvents, fault, loaded, recovery, sent, refused, delivered>>

(* The second attempt.  If another sender has taken the room meanwhile the *)
(* recovery event is dropped: send() logs it, sendFromISR() does not.      *)
SendRecoveryAgain(s) ==
  /\ pc[s] = "again"
  /\ \/ /\ HasRoom(queue)
        /\ queue' = SendToFront(queue, CommandFor(recovery[s]))
     \/ /\ ~ HasRoom(queue)
        /\ UNCHANGED queue
  /\ Goto(s, "idle")
  /\ UNCHANGED <<droppedEvents, fault, loaded, recovery, sent, refused, delivered, discarded>>

(* receive(): the Blinds task takes the oldest command. *)
Receive ==
  /\ queue # << >>
  /\ queue' = Tail(queue)
  /\ delivered' = delivered \cup {Head(queue)}
  /\ UNCHANGED <<droppedEvents, fault, pc, loaded, recovery, sent, refused, discarded>>

SenderStep(s) ==
  \/ Send(s) \/ LoadDropped(s) \/ StoreDropped(s) \/ ChooseRecovery(s)
  \/ RecordOverflow(s) \/ SendRecoveryToFront(s) \/ DiscardHead(s)
  \/ SendRecoveryAgain(s)

Next == Receive \/ \E s \in Senders : SenderStep(s)

Spec == Init /\ [][Next]_vars

-----------------------------------------------------------------------------
Positions == {"idle", "load", "store", "choose", "record", "front", "discard", "again"}

(* The queue is never longer than its depth, holds only commands of the    *)
(* senders or of the queue itself, and every history holds what it says.   *)
TypeOK ==
  /\ queue \in Seq(Command \cup Recovery)
  /\ Len(queue) <= Depth
  /\ droppedEvents \in Nat
  /\ fault \in FaultRecord
  /\ pc \in [Senders -> Positions]
  /\ loaded \in [Senders -> Nat]
  /\ recovery \in [Senders -> RecoveryEvents]
  /\ sent \in [Senders -> 0..MaxSends]
  /\ refused \subseteq Command
  /\ delivered \subseteq Command \cup Recovery
  /\ discarded \subseteq Command \cup Recovery

(* A sender's commands reach the Blinds task in the order it sent them:    *)
(* neither the recovery events pushed in front nor the discarding of the   *)
(* head ever lets a later command of a sender overtake an earlier one.     *)
SenderOrder ==
  /\ \A i, j \in DOMAIN queue :
       i < j /\ queue[i].from = queue[j].from /\ queue[i] \in Command
         => queue[i].no < queue[j].no
  /\ \A c \in Range(queue) \cap Command, d \in delivered \cap Command :
       c.from = d.from => d.no < c.no

(* Whatever the interleaving, a command send() accepted is in the queue,   *)
(* was received or was discarded, exactly one of them; a refused one is in *)
(* none of these places.                                                   *)
Accounted ==
  LET queued == Range(queue) \cap Command
      gone   == (delivered \cup discarded) \cap Command IN
  /\ queued \cap gone = {}
  /\ delivered \cap discarded \cap Command = {}
  /\ refused \cap (queued \cup gone) = {}
  /\ \A s \in Senders, n \in 1..MaxSends :
       n <= sent[s] => \E c \in queued \cup gone \cup refused : c.from = s /\ c.no = n

(* The unlocked counter may lose updates but never over-counts, so the     *)
(* queue escalates from STOP to FAULT only after DropThreshold refusals.   *)
EscalationJustified ==
  /\ droppedEvents <= Cardinality(refused)
  /\ \A s \in Senders :
       recovery[s] = "FAULT" => Cardinality(refused) >= DropThreshold

(* Losing a queued command, or overtaking it, is only possible once the    *)
(* overflow is on record: the fault that tells the user about the loss     *)
(* always comes first.                                                     *)
RecordedBeforeLoss ==
  /\ \A s \in Senders : pc[s] \in {"front", "discard", "again"} => HasFault(fault)
  /\ discarded # {} => HasFault(fault)
  /\ (\E c \in Range(queue) \cup delivered : c \in Recovery) => HasFault(fault)

(* The queue is a bounded FIFO that loses or overtakes commands only when  *)
(* a fault is on record.                                                   *)
Fifo == INSTANCE LossyFifo WITH chan <- queue, degraded <- HasFault(fault)

LossyFifoSpec == Fifo!Spec

(* BlindsCommandQueue.hpp:13 promises that stop and fault handling is not  *)
(* silently lost: a sender that has made room for its recovery event       *)
(* leaves it at the front of the queue.  This does not hold: another       *)
(* sender may take the room between the two queue calls.                   *)
RecoveryQueued ==
  [][\A s \in Senders :
       pc[s] = "again" /\ pc'[s] = "idle"
         => queue' # << >> /\ Head(queue') = CommandFor(recovery[s])]_vars

=============================================================================
