-------------------------- MODULE MCFaultReporting --------------------------
(* Values for TLC. *)
EXTENDS FaultReporting

StallExhausted == [source |-> "BlindsController", reason |-> "StallRecoveryExhausted"]

RefillFailed == [source |-> "MotorController", reason |-> "RmtRefillFailed"]

TwoCauses == {StallExhausted, RefillFailed}

Sent(payload) == [topic |-> "command", retain |-> FALSE, whole |-> TRUE, payload |-> payload]

SomeMessages ==
  { [Sent(<<"up">>) EXCEPT !.topic = "other"],
    [Sent(<<"down">>) EXCEPT !.retain = TRUE],
    [Sent(<<"1", "0">>) EXCEPT !.whole = FALSE],
    Sent(<<" ", "stop", " ">>),
    Sent(<<"0", "1", "0", "0">>),
    Sent(<<"6", "5", "5", "4", "6">>) }

=============================================================================
