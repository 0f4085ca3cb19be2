---------------------------- MODULE FaultHandler ----------------------------
(***************************************************************************)
(* The first-fault recorder shared by every module (FaultHandler.cpp).     *)
(* A fault record is a value; the critical section of record() and         *)
(* recordFromISR() is one application of RecordFault.  The esp_err_t kept  *)
(* beside the reason only feeds the status payload and is left out.        *)
(***************************************************************************)

FaultSource == {"BlindsController", "MotorController", "HomeSensor", "CommandQueue"}

FaultReason ==
  { "None", "MotorStopFailed", "MotorMoveFailed", "StallRecoveryExhausted",
    "InvalidStallRecoveryTarget", "StallRecoveryBackoffInvalid",
    "UnexpectedCalibrationCommand", "StuckHomeSensor", "RmtRefillFailed",
    "MovementCompletionFailed", "CommandQueueOverflow",
    "CommandQueueUnavailable", "ExplicitFaultEvent" }

FaultRecord == [source : FaultSource, reason : FaultReason]

(* The value fault_ has before any fault: its reason is None. *)
NoFault == [source |-> "BlindsController", reason |-> "None"]

(* hasFault_ is set together with a reason other than None. *)
HasFault(f) == f.reason # "None"

(* Mutated form: the latest fault replaces the first. *)
RecordLatest(f, src, why) == [source |-> src, reason |-> why]

(* Only the first fault is kept, so that the original cause survives. *)
RecordFault(f, src, why) ==
  IF HasFault(f) THEN f ELSE [source |-> src, reason |-> why]

=============================================================================
