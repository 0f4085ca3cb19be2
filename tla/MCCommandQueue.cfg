SPECIFICATION Spec
CONSTANTS
  refill = refill
  button = button
  isr = isr
  Senders = {refill, button, isr}
  QueueItself = QueueItself
  Events = {"UP"}
  Depth = 2
  DropThreshold = 2
  MaxSends = 2
SYMMETRY SenderSymmetry
INVARIANTS TypeOK SenderOrder Accounted EscalationJustified RecordedBeforeLoss
PROPERTY LossyFifoSpec
CHECK_DEADLOCK FALSE
