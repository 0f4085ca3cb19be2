----------------------------- MODULE LossyFifo ------------------------------
(***************************************************************************)
(* What the command queue promises its users: a bounded FIFO that loses a  *)
(* queued command, or lets a recovery command overtake the others, only    *)
(* once the queue is degraded, that is, after a fault has been recorded.   *)
(***************************************************************************)
EXTENDS Naturals, Sequences

CONSTANTS Command,   \* commands users may queue
          Recovery,  \* commands the queue itself may inject
          Depth      \* capacity

VARIABLES chan,      \* commands waiting, oldest first
          delivered, \* commands handed to the consumer
          degraded   \* a fault is on record

fifoVars == <<chan, delivered, degraded>>

Init == chan = << >> /\ delivered = {} /\ degraded = FALSE

Accept ==
  /\ Len(chan) < Depth
  /\ \E c \in Command : chan' = Append(chan, c)
  /\ UNCHANGED <<delivered, degraded>>

Deliver ==
  /\ chan # << >>
  /\ chan' = Tail(chan)
  /\ delivered' = delivered \cup {Head(chan)}
  /\ UNCHANGED degraded

Degrade == degraded' = TRUE /\ UNCHANGED <<chan, delivered>>

Lose ==
  /\ degraded
  /\ chan # << >>
  /\ chan' = Tail(chan)
  /\ UNCHANGED <<delivered, degraded>>

Inject ==
  /\ degraded
  /\ Len(chan) < Depth
  /\ \E r \in Recovery : chan' = <<r>> \o chan
  /\ UNCHANGED <<delivered, degraded>>

Next == Accept \/ Deliver \/ Degrade \/ Lose \/ Inject

Spec == Init /\ [][Next]_fifoVars

=============================================================================
