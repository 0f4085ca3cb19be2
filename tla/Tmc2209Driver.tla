---------------------------- MODULE Tmc2209Driver ----------------------------
(***************************************************************************)
(* Tmc2209Driver::configureAndVerify() over a one-wire UART that may       *)
(* damage, lose or add bytes, and app_main's restart when it fails.  The   *)
(* chip is modelled by its datasheet as the driver uses it: it ignores a   *)
(* damaged frame, counts the writes it takes in the 8-bit register IFCNT,  *)
(* and keeps its registers while the program restarts.  Every byte sent    *)
(* comes back as an echo.  A damaged reply fails the CRC (TmcCrc).         *)
(***************************************************************************)
EXTENDS Integers, Sequences

CONSTANTS
  InitialCounts,  \* what IFCNT may hold when the program first starts
  Version,        \* the version in the chip's IOIN register
  MaxFaults,      \* bound: line faults
  MaxResets       \* bound: resets of the chip

TMC_EXPECTED_VERSION == 33  \* 0x21

ASSUME TmcAssumption ==
  /\ InitialCounts \subseteq 0..255
  /\ Version \in 0..255
  /\ MaxFaults \in Nat /\ MaxResets \in Nat

VARIABLES
  set,      \* the registers that hold the configured value
  ifcnt,    \* the chip's counter
  at,       \* the access of Script the driver is in
  part,     \* "issue", or for a read "echo" and "reply"
  rx,       \* the UART's receive buffer, a sequence of frames
  before,   \* ifcntBefore
  outcome,  \* "running", "accepted" or "failed"
  faults,   \* line faults so far
  resets,   \* resets of the chip so far
  attempt   \* history of this attempt: writes taken, was the line hit, counts
            \* wiped out by resets of the chip, and how many resets

vars == <<set, ifcnt, at, part, rx, before, outcome, faults, resets, attempt>>

Read(r) == [op |-> "read", reg |-> r]

Write(r) == [op |-> "write", reg |-> r]

Script ==
  << Read("IFCNT"), Write("GCONF"), Read("CHOPCONF"), Write("CHOPCONF"),
     Write("IHOLD_IRUN"), Write("TPWMTHRS"), Write("TCOOLTHRS"), Write("SGTHRS"),
     Read("IFCNT"), Read("IOIN") >>

Configured == {"GCONF", "CHOPCONF", "IHOLD_IRUN", "TPWMTHRS", "TCOOLTHRS", "SGTHRS"}

CONFIG_WRITE_COUNT == 6

FreshAttempt == [taken |-> 0, hit |-> FALSE, wiped |-> 0, resets |-> 0]

Init ==
  /\ set = {}
  /\ ifcnt \in InitialCounts
  /\ at = 1
  /\ part = "issue"
  /\ rx = << >>
  /\ before = 0
  /\ outcome = "running"
  /\ faults = 0
  /\ resets = 0
  /\ attempt = FreshAttempt

-----------------------------------------------------------------------------
(* Mutated forms of the operators below. *)

IfcntUnmasked(count) == count + CONFIG_WRITE_COUNT

IfcntUnchecked(count) == ifcnt

KeptInput == rx

-----------------------------------------------------------------------------
(* A fault of the line: it hits one access of the attempt.                 *)
LineFault ==
  /\ faults < MaxFaults
  /\ faults' = faults + 1
  /\ attempt' = [attempt EXCEPT !.hit = TRUE]

(* An ESP_RETURN_ON_ERROR that returns; app_main restarts.                 *)
Fail ==
  /\ outcome' = "failed"
  /\ UNCHANGED <<set, ifcnt, at, part, before, resets>>

Frame(kind, r, value) == [kind |-> kind, reg |-> r, value |-> value]

(* uart_flush_input(): what is left of the buffer. *)
Flushed == << >>

-----------------------------------------------------------------------------
(* writeReg().  A frame damaged on the line is not noticed here: its echo  *)
(* is not looked at.                                                       *)
Writing == outcome = "running" /\ Script[at].op = "write"

(* The frame reaches the chip. *)
Delivered ==
  /\ set' = set \cup {Script[at].reg}
  /\ ifcnt' = (ifcnt + 1) % 256
  /\ rx' = Append(Flushed, Frame("write", Script[at].reg, 0))
  /\ at' = at + 1
  /\ UNCHANGED <<part, before, resets>>

WriteTaken ==
  /\ Writing
  /\ Delivered
  /\ attempt' = [attempt EXCEPT !.taken = @ + 1]
  /\ UNCHANGED <<outcome, faults>>

WriteDamaged ==
  /\ Writing
  /\ LineFault
  /\ rx' = Append(Flushed, Frame("damaged", Script[at].reg, 0))
  /\ at' = at + 1
  /\ UNCHANGED <<set, ifcnt, part, before, outcome, resets>>

WriteFails ==
  /\ Writing
  /\ LineFault
  /\ Fail
  /\ UNCHANGED rx

(* uart_wait_tx_done() times out, and the frame arrives all the same before *)
(* the program has restarted.                                              *)
WriteLate ==
  /\ Writing
  /\ faults < MaxFaults
  /\ faults' = faults + 1
  /\ Delivered
  /\ outcome' = "failed"
  /\ attempt' = [attempt EXCEPT !.taken = @ + 1, !.hit = TRUE]

-----------------------------------------------------------------------------
(* readReg(): the request, and what comes back of it. *)
Reading(p) == outcome = "running" /\ Script[at].op = "read" /\ part = p

RegisterValue(r) ==
  CASE r = "IFCNT" -> ifcnt
    [] r = "IOIN"  -> Version
    [] OTHER       -> 0

Echo == Frame("request", Script[at].reg, 0)

Reply == Frame("reply", Script[at].reg, RegisterValue(Script[at].reg))

Request ==
  /\ Reading("issue")
  /\ rx' = Flushed \o <<Echo, Reply>>
  /\ part' = "echo"
  /\ UNCHANGED <<set, ifcnt, at, before, outcome, faults, resets, attempt>>

(* Bytes damaged, lost or added by the line: the echo is not what was sent, *)
(* the chip does not answer, or its answer has a wrong header or CRC.      *)
Spoiled ==
  { << >>, <<Frame("damaged", Script[at].reg, 0)>>, <<Echo>>,
    <<Frame("damaged", Script[at].reg, 0), Echo, Reply>>,
    <<Echo, Frame("damaged", Script[at].reg, 0)>> }

RequestSpoiled ==
  /\ Reading("issue")
  /\ LineFault
  /\ \E frames \in Spoiled : rx' = Flushed \o frames
  /\ part' = "echo"
  /\ UNCHANGED <<set, ifcnt, at, before, outcome, resets>>

RequestFails ==
  /\ Reading("issue")
  /\ LineFault
  /\ Fail
  /\ UNCHANGED rx

(* ESP_ERR_TIMEOUT without enough bytes, ESP_ERR_INVALID_RESPONSE or       *)
(* ESP_ERR_INVALID_CRC for the wrong ones.                                 *)
Arrived(frame) == rx # << >> /\ Head(rx) = frame

ReadEcho ==
  /\ Reading("echo")
  /\ Arrived(Echo)
  /\ rx' = Tail(rx)
  /\ part' = "reply"
  /\ UNCHANGED <<set, ifcnt, at, before, outcome, faults, resets, attempt>>

ReadEchoFails ==
  /\ Reading("echo")
  /\ ~ Arrived(Echo)
  /\ Fail
  /\ UNCHANGED <<rx, faults, attempt>>

ReplyIsValid == rx # << >> /\ Head(rx).kind = "reply" /\ Head(rx).reg = Script[at].reg

ReadReplyFails ==
  /\ Reading("reply")
  /\ ~ ReplyIsValid
  /\ Fail
  /\ UNCHANGED <<rx, faults, attempt>>

(* What configureAndVerify() does with a value read: the first IFCNT is    *)
(* kept, the second compared, and so is the version in IOIN.               *)
ExpectedIfcnt(count) == (count + CONFIG_WRITE_COUNT) % 256

Passes(value) ==
  CASE at = 9  -> value = ExpectedIfcnt(before)
    [] at = 10 -> value = TMC_EXPECTED_VERSION
    [] OTHER   -> TRUE

ReadReply ==
  /\ Reading("reply")
  /\ ReplyIsValid
  /\ Passes(Head(rx).value)
  /\ rx' = Tail(rx)
  /\ part' = "issue"
  /\ before' = IF at = 1 THEN Head(rx).value ELSE before
  /\ IF at = Len(Script) THEN outcome' = "accepted" /\ UNCHANGED at
                         ELSE at' = at + 1 /\ UNCHANGED outcome
  /\ UNCHANGED <<set, ifcnt, faults, resets, attempt>>

VerificationFails ==
  /\ Reading("reply")
  /\ ReplyIsValid
  /\ ~ Passes(Head(rx).value)
  /\ Fail
  /\ UNCHANGED <<rx, faults, attempt>>

-----------------------------------------------------------------------------
(* esp_restart(): the driver starts afresh, the chip does not.             *)
Restart ==
  /\ outcome = "failed"
  /\ outcome' = "running"
  /\ at' = 1
  /\ part' = "issue"
  /\ rx' = << >>
  /\ before' = 0
  /\ attempt' = FreshAttempt
  /\ UNCHANGED <<set, ifcnt, faults, resets>>

(* The chip's supply fails for a moment.  Between the two reads of IFCNT   *)
(* the driver can notice; before them the writes are still to come, and    *)
(* after them nobody looks again.                                          *)
BetweenCounts ==
  \/ at = 1 /\ part # "issue"
  \/ at \in 2..8
  \/ at = 9 /\ part = "issue"

ChipResets ==
  /\ outcome = "running" /\ BetweenCounts /\ resets < MaxResets
  /\ set' = {}
  /\ ifcnt' = 0
  /\ resets' = resets + 1
  /\ attempt' = [attempt EXCEPT !.wiped = @ + ifcnt, !.resets = @ + 1]
  /\ UNCHANGED <<at, part, rx, before, outcome, faults>>

Driver ==
  \/ WriteTaken \/ Request \/ ReadEcho \/ ReadEchoFails \/ ReadReply
  \/ ReadReplyFails \/ VerificationFails \/ Restart

Next ==
  \/ Driver
  \/ WriteDamaged \/ WriteFails \/ WriteLate \/ RequestSpoiled \/ RequestFails
  \/ ChipResets

Spec == Init /\ [][Next]_vars

(* The driver never waits without a timeout. *)
FairSpec == Spec /\ WF_vars(Driver)

-----------------------------------------------------------------------------
TypeOK ==
  /\ set \subseteq Configured
  /\ ifcnt \in 0..255
  /\ at \in 1..Len(Script)
  /\ part \in {"issue", "echo", "reply"}
  /\ rx \in Seq([kind : {"request", "write", "reply", "damaged"},
                 reg : Configured \cup {"IFCNT", "IOIN"}, value : 0..255])
  /\ before \in 0..255
  /\ outcome \in {"running", "accepted", "failed"}
  /\ faults \in 0..MaxFaults
  /\ resets \in 0..MaxResets
  /\ attempt \in [taken : 0..CONFIG_WRITE_COUNT, hit : BOOLEAN, wiped : Nat, resets : Nat]

(* The counts wiped out by resets make up, modulo 256, for the writes that *)
(* are missing: the one case the comparison of IFCNT cannot see.           *)
Hidden ==
  /\ attempt.resets > 0
  /\ (attempt.wiped + CONFIG_WRITE_COUNT - attempt.taken) % 256 = 0

(* A configuration is accepted only if the chip holds all of it, whatever  *)
(* was damaged on the line, wherever the counter stood and however often   *)
(* the program was restarted; a reset of the chip in between is noticed    *)
(* unless the counts cancel out exactly.                                   *)
AcceptedMeansConfigured == outcome = "accepted" => set = Configured \/ Hidden

(* The program is restarted only for a reason outside it: a wrap of the    *)
(* counter or what an earlier call left in the UART is none.               *)
RejectedMeansFault ==
  outcome = "failed" =>
    attempt.hit \/ attempt.resets > 0 \/ Version # TMC_EXPECTED_VERSION

(* With the right chip and a line that fails a number of times only, the   *)
(* configuration is accepted in the end.                                   *)
BootCompletes == Version = TMC_EXPECTED_VERSION => <>(outcome = "accepted")

=============================================================================
