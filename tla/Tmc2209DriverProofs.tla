-------------------------- MODULE Tmc2209DriverProofs --------------------------
(***************************************************************************)
(* Proofs about Tmc2209Driver, for any number of line faults, resets of    *)
(* the chip and restarts, any value of IFCNT and any version of the chip.  *)
(***************************************************************************)
EXTENDS Tmc2209Driver, SequenceTheorems, TLAPS

(* The writes before access a of Script: how many, and of which registers. *)
Done(a) ==
  CASE a \in {1, 2} -> 0 [] a \in {3, 4} -> 1 [] a = 5 -> 2 [] a = 6 -> 3
    [] a = 7 -> 4 [] a = 8 -> 5 [] OTHER -> 6

Written(a) == {Script[i].reg : i \in {j \in 1..10 : j < a /\ Script[j].op = "write"}}

FrameRecord ==
  [kind : {"request", "write", "reply", "damaged"},
   reg : Configured \cup {"IFCNT", "IOIN"}, value : 0..255]

(* Counted from v, the chip's counter tells the writes taken, modulo 256,  *)
(* once what resets wiped out is put back.                                 *)
Counted(v) == \E k \in Int : ifcnt + attempt.wiped = v + attempt.taken + 256 * k

CountInv ==
  /\ at = 1 /\ part = "issue" => attempt.wiped = 0 /\ attempt.resets = 0
  /\ at = 1 /\ part # "issue" =>
       \A i \in 1..Len(rx) : rx[i].kind = "reply" => Counted(rx[i].value)
  /\ at # 1 => Counted(before)
  /\ at = 9 /\ part # "issue" =>
       \A i \in 1..Len(rx) : rx[i].kind = "reply" => rx[i].value = ifcnt
  /\ at = 10 => ifcnt = ExpectedIfcnt(before)

WriteInv ==
  /\ attempt.taken <= Done(at)
  /\ attempt.resets = 0 => attempt.wiped = 0
  /\ attempt.resets = 0 /\ attempt.taken = Done(at) => Written(at) \subseteq set

(* On a line without faults every write is taken and every read answered.  *)
IsReply(f) ==
  f.kind = "reply" /\ f.reg = Script[at].reg /\ (at = 10 => f.value = Version)

LineInv ==
  ~ attempt.hit =>
    /\ attempt.taken = Done(at)
    /\ part = "echo" => Len(rx) = 2 /\ rx[1] = Echo /\ IsReply(rx[2])
    /\ part = "reply" => Len(rx) = 1 /\ IsReply(rx[1])
    /\ outcome = "failed" => attempt.resets > 0 \/ Version # TMC_EXPECTED_VERSION

Types ==
  /\ set \subseteq Configured
  /\ ifcnt \in 0..255
  /\ at \in 1..10
  /\ part \in {"issue", "echo", "reply"}
  /\ part # "issue" => Script[at].op = "read"
  /\ rx \in Seq(FrameRecord)
  /\ before \in 0..255
  /\ outcome \in {"running", "accepted", "failed"}
  /\ outcome = "accepted" => at = 10
  /\ faults \in 0..MaxFaults
  /\ resets \in 0..MaxResets
  /\ attempt \in [taken : 0..6, hit : BOOLEAN, wiped : Nat, resets : Nat]

IInv == Types /\ CountInv /\ WriteInv /\ LineInv

-----------------------------------------------------------------------------
(* The script, one access at a time.                                       *)
LEMMA ScriptLength == Len(Script) = 10
  BY DEF Script, Read, Write

LEMMA ScriptAccess ==
  ASSUME NEW a \in 1..10
  PROVE  /\ Script[a].op \in {"read", "write"}
         /\ Script[a].reg \in Configured \cup {"IFCNT", "IOIN"}
         /\ a \in {1, 9} => Script[a].op = "read" /\ Script[a].reg = "IFCNT"
         /\ a = 10 => Script[a].op = "read" /\ Script[a].reg = "IOIN"
         /\ Script[a].op = "read" => Script[a].reg \in {"IFCNT", "CHOPCONF", "IOIN"}
         /\ a \in {3} => Script[a].op = "read" /\ Script[a].reg = "CHOPCONF"
<1>1. a \in {1, 2, 3, 4, 5, 6, 7, 8, 9, 10}
  OBVIOUS
<1>2. QED
  BY <1>1 DEF Script, Read, Write, Configured

(* A write is the next one of Written, a read adds none.                   *)
LEMMA ScriptProgress ==
  ASSUME NEW a \in 1..10
  PROVE  /\ Script[a].op = "write" =>
              /\ a \in 2..8 /\ Script[a].reg \in Configured
              /\ Done(a + 1) = Done(a) + 1 /\ Done(a + 1) <= 6
              /\ Written(a + 1) = Written(a) \cup {Script[a].reg}
         /\ Script[a].op = "read" /\ a # 10 =>
              Done(a + 1) = Done(a) /\ Written(a + 1) = Written(a)
         /\ Done(a) \in 0..6
         /\ a = 1 => Done(a) = 0 /\ Written(a) = {}
         /\ a \in {9, 10} => Done(a) = 6 /\ Written(a) = Configured
<1>1. a \in {1, 2, 3, 4, 5, 6, 7, 8, 9, 10}
  OBVIOUS
<1>2. /\ Script[a].op = "write" =>
           /\ a \in 2..8 /\ Script[a].reg \in Configured
           /\ Done(a + 1) = Done(a) + 1 /\ Done(a + 1) <= 6
      /\ Script[a].op = "read" /\ a # 10 => Done(a + 1) = Done(a)
      /\ Done(a) \in 0..6
      /\ a = 1 => Done(a) = 0
      /\ a \in {9, 10} => Done(a) = 6
  BY <1>1 DEF Script, Read, Write, Configured, Done
<1>3. /\ Script[a].op = "write" => Written(a + 1) = Written(a) \cup {Script[a].reg}
      /\ Script[a].op = "read" /\ a # 10 => Written(a + 1) = Written(a)
  <2> DEFINE W(n) == {j \in 1..10 : j < n /\ Script[j].op = "write"}
  <2>1. /\ Script[a].op = "write" => W(a + 1) = W(a) \cup {a}
        /\ Script[a].op = "read" /\ a # 10 => W(a + 1) = W(a)
    <3>1. Script[a].op = "write" => Script[a].op # "read"
      OBVIOUS
    <3>2. QED
      BY <3>1
  <2> HIDE DEF W
  <2>2. QED
    BY <2>1 DEF Written, W
<1>4. /\ a = 1 => Written(a) = {}
      /\ a \in {9, 10} => Written(a) = Configured
  <2>1. a = 1 => Written(a) = {}
    BY DEF Written
  <2>2. ASSUME a \in {9, 10} PROVE Written(a) = Configured
    <3>1. \A j \in 1..10 : Script[j].op = "write" => j < a /\ Script[j].reg \in Configured
      BY <2>2 DEF Script, Read, Write, Configured
    <3>2. \A r \in Configured : \E j \in 1..10 : Script[j].op = "write" /\ Script[j].reg = r
      <4>1. /\ Script[2] = Write("GCONF") /\ Script[4] = Write("CHOPCONF")
            /\ Script[5] = Write("IHOLD_IRUN") /\ Script[6] = Write("TPWMTHRS")
            /\ Script[7] = Write("TCOOLTHRS") /\ Script[8] = Write("SGTHRS")
        BY DEF Script
      <4>2. QED
        BY <4>1 DEF Write, Configured
    <3>3. QED
      BY <3>1, <3>2 DEF Written
  <2>3. QED
    BY <2>1, <2>2
<1>5. QED
  BY <1>2, <1>3, <1>4

(* IFCNT counts modulo 256. *)
LEMMA Modulo ==
  ASSUME NEW n \in 0..511
  PROVE  n % 256 = IF n < 256 THEN n ELSE n - 256
  OBVIOUS

-----------------------------------------------------------------------------
LEMMA FrameTypes ==
  ASSUME Types
  PROVE  /\ \A kind \in {"request", "write", "damaged"} : Frame(kind, Script[at].reg, 0) \in FrameRecord
         /\ Echo \in FrameRecord /\ Reply \in FrameRecord
         /\ Echo.kind = "request" /\ Reply.kind = "reply"
         /\ Reply.reg = Script[at].reg
         /\ at \in {1, 9} => Reply.value = ifcnt
         /\ at = 10 => Reply.value = Version
<1>1. /\ Script[at].reg \in Configured \cup {"IFCNT", "IOIN"}
      /\ at \in {1, 9} => Script[at].reg = "IFCNT"
      /\ at = 10 => Script[at].reg = "IOIN"
  BY ScriptAccess DEF Types
<1>2. RegisterValue(Script[at].reg) \in 0..255
  BY TmcAssumption DEF Types, RegisterValue
<1>3. /\ at \in {1, 9} => RegisterValue(Script[at].reg) = ifcnt
      /\ at = 10 => RegisterValue(Script[at].reg) = Version
  BY <1>1 DEF RegisterValue
<1>4. QED
  BY <1>1, <1>2, <1>3 DEF FrameRecord, Frame, Echo, Reply

(* What follows the flush is all there is in the buffer. *)
LEMMA AfterFlush ==
  ASSUME NEW S, NEW s \in Seq(S)
  PROVE  Flushed \o s = s
  BY DEF Flushed

(* A failed access changes nothing but the outcome.                        *)
LEMMA FailKeeps ==
  ASSUME IInv, Fail, UNCHANGED rx, faults' \in 0..MaxFaults,
         attempt' = attempt \/ attempt' = [attempt EXCEPT !.hit = TRUE],
         attempt'.hit \/ attempt.resets > 0 \/ Version # TMC_EXPECTED_VERSION
  PROVE  IInv'
<1>1. /\ attempt'.taken = attempt.taken /\ attempt'.wiped = attempt.wiped
      /\ attempt'.resets = attempt.resets /\ (attempt.hit => attempt'.hit)
      /\ attempt' \in [taken : 0..6, hit : BOOLEAN, wiped : Nat, resets : Nat]
  BY DEF IInv, Types
<1>2. /\ outcome' = "failed"
      /\ UNCHANGED <<set, ifcnt, at, part, rx, before, resets>>
  BY DEF Fail
<1> HIDE DEF Fail
<1>3. Types'
  BY <1>1, <1>2 DEF IInv, Types
<1>4. CountInv' /\ WriteInv'
  BY <1>1, <1>2 DEF IInv, CountInv, WriteInv, Counted, ExpectedIfcnt
<1>5. LineInv'
  BY <1>1, <1>2 DEF IInv, LineInv, IsReply, Echo, Frame
<1>6. QED
  BY <1>3, <1>4, <1>5 DEF IInv

LEMMA LineFaultTypes ==
  ASSUME Types, LineFault
  PROVE  /\ faults' \in 0..MaxFaults
         /\ attempt' = [attempt EXCEPT !.hit = TRUE] /\ attempt'.hit
  BY TmcAssumption DEF Types, LineFault

LEMMA WriteKeeps ==
  ASSUME IInv, WriteTaken \/ WriteDamaged \/ WriteFails \/ WriteLate
  PROVE  IInv'
<1> USE DEF IInv
<1>1. CASE WriteFails
  BY <1>1, FailKeeps, LineFaultTypes DEF WriteFails
<1>2. CASE WriteTaken \/ WriteDamaged \/ WriteLate
  <2>1. /\ at \in 2..8 /\ Script[at].reg \in Configured
        /\ Done(at + 1) = Done(at) + 1 /\ Done(at + 1) <= 6 /\ Done(at) \in 0..6
        /\ Written(at + 1) = Written(at) \cup {Script[at].reg}
    BY <1>2, ScriptProgress DEF WriteTaken, WriteDamaged, WriteLate, Writing, Types
  <2>2. /\ at' = at + 1 /\ UNCHANGED <<part, before, resets>> /\ outcome = "running"
        /\ part = "issue" /\ outcome' \in {"running", "failed"}
        /\ WriteTaken \/ WriteDamaged => outcome' = "running"
    BY <1>2 DEF WriteTaken, WriteDamaged, WriteLate, Delivered, Writing, Types
  <2>3. rx' \in Seq(FrameRecord)
    <3>1. PICK f \in FrameRecord : rx' = Append(Flushed, f)
      BY <1>2, FrameTypes DEF WriteTaken, WriteDamaged, WriteLate, Delivered
    <3>2. QED
      BY <3>1 DEF Flushed
  <2>4. CASE WriteTaken \/ WriteLate
    <3>1. /\ attempt'.taken = attempt.taken + 1 /\ attempt'.wiped = attempt.wiped
          /\ attempt'.resets = attempt.resets
          /\ ~ attempt'.hit => ~ attempt.hit /\ outcome' = "running"
          /\ attempt.taken + 1 <= Done(at + 1)
          /\ attempt' \in [taken : 0..6, hit : BOOLEAN, wiped : Nat, resets : Nat]
      <4>1. attempt \in [taken : 0..6, hit : BOOLEAN, wiped : Nat, resets : Nat]
        BY DEF Types
      <4>2. \/ /\ attempt' = [attempt EXCEPT !.taken = attempt.taken + 1]
               /\ outcome' = "running"
            \/ attempt' = [attempt EXCEPT !.taken = attempt.taken + 1, !.hit = TRUE]
        BY <2>2, <2>4 DEF WriteTaken, WriteLate
      <4>3. attempt.taken <= Done(at)
        BY DEF WriteInv
      <4>4. attempt.taken + 1 <= Done(at + 1) /\ attempt.taken + 1 \in 0..6
        BY ONLY <2>1, <4>1, <4>3
      <4>5. QED
        BY ONLY <4>1, <4>2, <4>4
    <3>2. ifcnt' = IF ifcnt < 255 THEN ifcnt + 1 ELSE 0
      <4>1. ifcnt + 1 \in 0..511 /\ ifcnt \in 0..255
        BY DEF Types
      <4>2. ifcnt' = (ifcnt + 1) % 256
        BY <2>4 DEF WriteTaken, WriteLate, Delivered
      <4>3. QED
        BY ONLY <4>1, <4>2, Modulo
    <3>3. Types'
      <4>1. set' \subseteq Configured /\ faults' \in 0..MaxFaults
        BY <2>1, <2>4, TmcAssumption DEF Types, WriteTaken, WriteLate, Delivered
      <4>2. ifcnt' \in 0..255
        <5>1. ifcnt \in 0..255
          BY DEF Types
        <5>2. QED
          BY ONLY <3>2, <5>1
      <4>3. at' \in 1..10
        BY <2>1, <2>2
      <4>4. QED
        BY <2>2, <2>3, <3>1, <4>1, <4>2, <4>3 DEF Types
    <3>4. CountInv'
      <4>1. PICK k \in Int : ifcnt + attempt.wiped = before + attempt.taken + 256 * k
        BY <2>1 DEF CountInv, Counted
      <4>2. \/ ifcnt' + attempt'.wiped = before' + attempt'.taken + 256 * k
            \/ ifcnt' + attempt'.wiped = before' + attempt'.taken + 256 * (k - 1)
        <5>1. /\ ifcnt \in 0..255 /\ before \in 0..255 /\ attempt.wiped \in Nat /\ attempt.taken \in 0..6
              /\ before' = before
          BY <2>2 DEF Types
        <5>2. QED
          BY ONLY <3>1, <3>2, <4>1, <5>1, k \in Int
      <4>3. Counted(before)'
        <5>1. k \in Int /\ k - 1 \in Int
          OBVIOUS
        <5>2. QED
          BY ONLY <4>2, <5>1 DEF Counted
      <4>4. QED
        BY <2>1, <2>2, <4>3 DEF CountInv
    <3>5. WriteInv'
      BY <2>1, <2>2, <2>4, <3>1, SMTT(30) DEF WriteInv, WriteTaken, WriteLate, Delivered, Types
    <3>6. LineInv'
      BY <2>1, <2>2, <3>1 DEF LineInv
    <3>7. QED
      BY <3>3, <3>4, <3>5, <3>6
  <2>5. CASE WriteDamaged
    <3>1. /\ attempt'.taken = attempt.taken /\ attempt'.wiped = attempt.wiped
          /\ attempt'.resets = attempt.resets /\ attempt'.hit
          /\ attempt' \in [taken : 0..6, hit : BOOLEAN, wiped : Nat, resets : Nat]
          /\ faults' \in 0..MaxFaults /\ UNCHANGED <<set, ifcnt>>
      BY <2>5, LineFaultTypes DEF WriteDamaged, Types
    <3>2. Types'
      BY <2>1, <2>2, <2>3, <3>1 DEF Types
    <3>3. CountInv'
      BY <2>1, <2>2, <3>1 DEF CountInv, Counted
    <3>4. WriteInv'
      BY <2>1, <2>2, <3>1, SMTT(20) DEF WriteInv, Types
    <3>5. LineInv'
      BY <3>1 DEF LineInv
    <3>6. QED
      BY <3>2, <3>3, <3>4, <3>5
  <2>6. QED
    BY <1>2, <2>4, <2>5
<1>3. QED
  BY <1>1, <1>2

(* A request, good or bad, leaves frames whose reply is the chip's.        *)
LEMMA RequestKeeps ==
  ASSUME IInv, Request \/ RequestSpoiled \/ RequestFails
  PROVE  IInv'
<1> USE DEF IInv
<1>1. CASE RequestFails
  BY <1>1, FailKeeps, LineFaultTypes DEF RequestFails
<1>2. CASE Request \/ RequestSpoiled
  <2>1. /\ part = "issue" /\ part' = "echo" /\ Script[at].op = "read" /\ outcome = "running"
        /\ UNCHANGED <<set, ifcnt, at, before, outcome, resets>>
    BY <1>2 DEF Request, RequestSpoiled, Reading
  <2>2. /\ attempt'.taken = attempt.taken /\ attempt'.wiped = attempt.wiped
        /\ attempt'.resets = attempt.resets /\ (attempt.hit => attempt'.hit)
        /\ attempt' \in [taken : 0..6, hit : BOOLEAN, wiped : Nat, resets : Nat]
        /\ faults' \in 0..MaxFaults
    BY <1>2, LineFaultTypes DEF Request, RequestSpoiled, Types
  <2>3. PICK frames \in Spoiled \cup {<<Echo, Reply>>} :
          /\ rx' = Flushed \o frames
          /\ frames # <<Echo, Reply>> => attempt'.hit
    BY <1>2, LineFaultTypes DEF Request, RequestSpoiled
  <2> DEFINE D == Frame("damaged", Script[at].reg, 0)
  <2>4. /\ D \in FrameRecord /\ Echo \in FrameRecord /\ Reply \in FrameRecord
        /\ D.kind = "damaged" /\ Echo.kind = "request" /\ Reply.kind = "reply"
        /\ Reply.reg = Script[at].reg
        /\ at \in {1, 9} => Reply.value = ifcnt
        /\ at = 10 => Reply.value = Version
    <3>1. D.kind = "damaged"
      BY DEF Frame
    <3>2. QED
      BY <3>1, FrameTypes
  <2>5. frames \in {<< >>, <<D>>, <<Echo>>, <<D, Echo, Reply>>, <<Echo, D>>, <<Echo, Reply>>}
    BY <2>3 DEF Spoiled
  <2> HIDE DEF D
  <2>6. /\ frames \in Seq(FrameRecord)
        /\ \A i \in 1..Len(frames) : frames[i].kind = "reply" => frames[i] = Reply
    <3> DEFINE Good(s) == /\ s \in Seq(FrameRecord)
                          /\ \A i \in 1..Len(s) : s[i].kind = "reply" => s[i] = Reply
    <3>1. D.kind # "reply" /\ Echo.kind # "reply"
      BY <2>4
    <3>2. Good(<< >>) /\ Good(<<D>>) /\ Good(<<Echo>>)
      BY ONLY <2>4, <3>1
    <3>3. Good(<<Echo, D>>) /\ Good(<<Echo, Reply>>)
      BY ONLY <2>4, <3>1
    <3>4. Good(<<D, Echo, Reply>>)
      BY ONLY <2>4, <3>1
    <3> HIDE DEF Good
    <3>5. Good(frames)
      BY <2>5, <3>2, <3>3, <3>4
    <3>6. QED
      BY <3>5 DEF Good
  <2>7. rx' = frames
    BY <2>3, <2>6, AfterFlush
  <2>8. Types'
    BY <2>1, <2>2, <2>6, <2>7 DEF Types
  <2>9. CountInv'
    <3>1. at = 1 => Counted(ifcnt)'
      <4>1. ASSUME at = 1 PROVE attempt.wiped = 0 /\ attempt.taken = 0
        BY <2>1, <4>1, ScriptProgress DEF CountInv, WriteInv, Types
      <4>2. at = 1 => ifcnt' + attempt'.wiped = ifcnt' + attempt'.taken + 256 * 0
        BY <2>1, <2>2, <4>1 DEF Types
      <4>3. QED
        BY <4>2 DEF Counted
    <3>2. at # 1 => Counted(before)'
      BY <2>1, <2>2 DEF CountInv, Counted
    <3>3. QED
      BY <2>1, <2>4, <2>6, <2>7, <3>1, <3>2 DEF CountInv, ExpectedIfcnt
  <2>10. WriteInv'
    BY <2>1, <2>2 DEF WriteInv
  <2>11. LineInv'
    <3>1. SUFFICES ASSUME ~ attempt'.hit PROVE LineInv'
      BY DEF LineInv
    <3>2. rx' = <<Echo, Reply>>
      BY <2>3, <2>7, <3>1
    <3>3. Len(rx') = 2 /\ rx'[1] = Echo /\ rx'[2] = Reply
      BY <3>2
    <3>4. Echo' = Echo /\ IsReply(rx[2])'
      BY <2>1, <2>4, <3>3 DEF IsReply, Echo, Frame
    <3>5. part' # "reply" /\ outcome' # "failed" /\ attempt'.taken = Done(at')
      BY <2>1, <2>2, <3>1 DEF LineInv
    <3>6. QED
      BY <3>3, <3>4, <3>5 DEF LineInv
  <2>12. QED
    BY <2>8, <2>9, <2>10, <2>11
<1>3. QED
  BY <1>1, <1>2

(* Taking the first frame from the buffer. *)
LEMMA Taken ==
  ASSUME Types, rx # << >>
  PROVE  /\ Tail(rx) \in Seq(FrameRecord) /\ Len(Tail(rx)) = Len(rx) - 1
         /\ \A i \in 1..Len(Tail(rx)) : i + 1 \in 1..Len(rx) /\ Tail(rx)[i] = rx[i + 1]
         /\ Head(rx) = rx[1] /\ 1 \in 1..Len(rx) /\ Head(rx) \in FrameRecord
<1>1. rx \in Seq(FrameRecord)
  BY DEF Types
<1>2. QED
  BY ONLY <1>1, rx # << >>, HeadTailProperties

LEMMA ReadEchoKeeps ==
  ASSUME IInv, ReadEcho \/ ReadEchoFails
  PROVE  IInv'
<1> USE DEF IInv
<1>1. CASE ReadEchoFails
  <2>1. attempt.hit \/ attempt.resets > 0 \/ Version # TMC_EXPECTED_VERSION
    <3>1. SUFFICES ASSUME ~ attempt.hit PROVE FALSE
      OBVIOUS
    <3>2. part = "echo" /\ ~ Arrived(Echo)
      BY <1>1 DEF ReadEchoFails, Reading
    <3>3. Len(rx) = 2 /\ rx[1] = Echo
      BY <3>1, <3>2 DEF LineInv
    <3>4. rx # << >> /\ Head(rx) = Echo
      <4>1. rx # << >>
        BY <3>3
      <4>2. QED
        BY <3>3, <4>1, Taken
    <3>5. QED
      BY <3>2, <3>4 DEF Arrived
  <2>2. faults' \in 0..MaxFaults
    BY <1>1 DEF ReadEchoFails, Types
  <2>3. QED
    BY <1>1, <2>1, <2>2, FailKeeps DEF ReadEchoFails
<1>2. CASE ReadEcho
  <2>1. /\ part = "echo" /\ part' = "reply" /\ Script[at].op = "read" /\ outcome = "running"
        /\ rx # << >> /\ rx' = Tail(rx)
        /\ UNCHANGED <<set, ifcnt, at, before, outcome, faults, resets, attempt>>
    BY <1>2 DEF ReadEcho, Reading, Arrived
  <2>2. Types'
    BY <2>1, Taken DEF Types
  <2>3. CountInv'
    <3>1. at = 1 => \A i \in 1..Len(rx') : rx'[i].kind = "reply" => Counted(rx'[i].value)
      BY <2>1, Taken DEF CountInv
    <3>2. at = 9 => \A i \in 1..Len(rx') : rx'[i].kind = "reply" => rx'[i].value = ifcnt
      BY <2>1, Taken DEF CountInv
    <3>3. QED
      BY <2>1, <3>1, <3>2 DEF CountInv, Counted, ExpectedIfcnt
  <2>4. WriteInv'
    BY <2>1 DEF WriteInv
  <2>5. LineInv'
    <3>1. SUFFICES ASSUME ~ attempt.hit PROVE LineInv'
      BY <2>1 DEF LineInv
    <3>2. Len(rx) = 2 /\ IsReply(rx[2]) /\ attempt.taken = Done(at)
      BY <2>1, <3>1 DEF LineInv
    <3>3. Len(rx') = 1 /\ rx'[1] = rx[2]
      BY <2>1, <3>2, Taken, SMTT(20)
    <3>4. IsReply(rx[1])'
      BY <2>1, <3>2, <3>3 DEF IsReply
    <3>5. QED
      BY <2>1, <3>2, <3>3, <3>4 DEF LineInv
  <2>6. QED
    BY <2>2, <2>3, <2>4, <2>5
<1>3. QED
  BY <1>1, <1>2

(* The last access is accepted only after the counts were compared.        *)
LEMMA ReadReplyKeeps ==
  ASSUME IInv, ReadReply
  PROVE  IInv'
<1> USE DEF IInv
<1>1. /\ part = "reply" /\ part' = "issue" /\ Script[at].op = "read" /\ outcome = "running"
      /\ rx # << >> /\ rx' = Tail(rx) /\ rx[1].kind = "reply" /\ 1 \in 1..Len(rx)
      /\ rx[1] \in FrameRecord /\ Passes(rx[1].value)
      /\ before' = IF at = 1 THEN rx[1].value ELSE before
      /\ UNCHANGED <<set, ifcnt, faults, resets, attempt>>
  BY Taken DEF ReadReply, Reading, ReplyIsValid
<1>2. /\ at = 10 => at' = at /\ outcome' = "accepted"
      /\ at # 10 => at' = at + 1 /\ UNCHANGED outcome
  BY ScriptLength DEF ReadReply
<1>3. rx[1].value \in 0..255
  BY <1>1 DEF FrameRecord
<1>4. Types'
  <2>1. at' \in 1..10 /\ before' \in 0..255 /\ rx' \in Seq(FrameRecord)
    <3>1. rx' \in Seq(FrameRecord)
      BY <1>1, Taken
    <3>2. at' \in 1..10 /\ before' \in 0..255
      <4>1. at \in 1..10 /\ before \in 0..255
        BY DEF Types
      <4>2. before' \in 0..255
        BY <1>1, <1>3, <4>1
      <4>3. at' = IF at = 10 THEN at ELSE at + 1
        BY <1>2
      <4>4. QED
        BY ONLY <4>1, <4>2, <4>3
    <3>3. QED
      BY <3>1, <3>2
  <2>2. QED
    BY <1>1, <1>2, <2>1 DEF Types
<1>5. at' \in 2..10 /\ (at' = 10 => at \in {9, 10}) /\ (at' = 9 => at = 8)
  BY <1>2, SMTT(20) DEF Types
<1>6. Done(at') = Done(at) /\ Written(at') = Written(at)
  BY <1>1, <1>2, ScriptProgress DEF Types
<1>7. CountInv'
  <2>1. Counted(before)'
    <3>1. Counted(before')
      BY <1>1 DEF CountInv
    <3>2. QED
      BY <1>1, <3>1 DEF Counted
  <2>2. at = 9 => ifcnt = ExpectedIfcnt(before)
    BY <1>1 DEF CountInv, Passes
  <2>3. at' = 10 => (ifcnt = ExpectedIfcnt(before))'
    BY <1>1, <1>5, <2>2 DEF CountInv, ExpectedIfcnt
  <2>4. QED
    BY <1>1, <1>5, <2>1, <2>3 DEF CountInv
<1>8. WriteInv'
  BY <1>1, <1>6 DEF WriteInv
<1>9. LineInv'
  BY <1>1, <1>2, <1>6 DEF LineInv
<1>10. QED
  BY <1>4, <1>7, <1>8, <1>9

LEMMA ReadReplyFailsKeeps ==
  ASSUME IInv, ReadReplyFails \/ VerificationFails
  PROVE  IInv'
<1> USE DEF IInv
<1>1. /\ part = "reply" /\ Fail /\ UNCHANGED <<rx, faults, attempt>> /\ faults' \in 0..MaxFaults
      /\ ~ ReplyIsValid \/ (ReplyIsValid /\ ~ Passes(Head(rx).value))
  BY DEF ReadReplyFails, VerificationFails, Reading, Types
<1>2. attempt.hit \/ attempt.resets > 0 \/ Version # TMC_EXPECTED_VERSION
  <2>1. SUFFICES ASSUME ~ attempt.hit, attempt.resets = 0 PROVE Version # TMC_EXPECTED_VERSION
    BY DEF Types
  <2>2. /\ Len(rx) = 1 /\ rx[1].kind = "reply" /\ rx[1].reg = Script[at].reg
        /\ at = 10 => rx[1].value = Version
        /\ attempt.taken = Done(at) /\ attempt.wiped = 0
    BY <1>1, <2>1 DEF LineInv, IsReply, WriteInv
  <2>3. rx # << >>
    <3>1. Len(rx) = 1
      BY <2>2
    <3>2. QED
      BY ONLY <3>1
  <2>4. Head(rx) = rx[1] /\ 1 \in 1..Len(rx)
    BY <2>3, Taken
  <2>5. ~ Passes(rx[1].value)
    BY <1>1, <2>2, <2>3, <2>4 DEF ReplyIsValid
  <2>6. CASE at = 10
    BY <2>2, <2>5, <2>6 DEF Passes
  <2>7. CASE at = 9
    <3>1. rx[1].value = ifcnt
      BY <1>1, <2>2, <2>4, <2>7 DEF CountInv
    <3>2. PICK k \in Int : ifcnt + attempt.wiped = before + attempt.taken + 256 * k
      BY <2>7 DEF CountInv, Counted
    <3>3. attempt.taken = 6 /\ ifcnt \in 0..255 /\ before \in 0..255
      BY <2>2, <2>7, ScriptProgress DEF Types
    <3>4. ifcnt = (before + 6) % 256
      <4>1. ifcnt = IF before + 6 < 256 THEN before + 6 ELSE before + 6 - 256
        BY ONLY <2>2, <3>2, <3>3, k \in Int
      <4>2. before + 6 \in 0..511
        BY <3>3
      <4>3. QED
        BY ONLY <3>3, <4>1, <4>2, Modulo
    <3>5. QED
      BY <2>5, <2>7, <3>1, <3>4 DEF Passes, ExpectedIfcnt, CONFIG_WRITE_COUNT
  <2>8. QED
    BY <2>5, <2>6, <2>7 DEF Passes
<1>3. QED
  BY <1>1, <1>2, FailKeeps

(* The chip keeps its registers over a restart of the program.             *)
LEMMA RestartKeeps ==
  ASSUME IInv, Restart
  PROVE  IInv'
<1> USE DEF IInv
<1>1. /\ outcome' = "running" /\ at' = 1 /\ part' = "issue" /\ rx' = << >> /\ before' = 0
      /\ UNCHANGED <<set, ifcnt, faults, resets>>
      /\ attempt'.taken = 0 /\ attempt'.wiped = 0 /\ attempt'.resets = 0
      /\ attempt' \in [taken : 0..6, hit : BOOLEAN, wiped : Nat, resets : Nat]
  BY DEF Restart, FreshAttempt
<1>2. Done(1) = 0 /\ Written(1) = {}
  BY ScriptProgress
<1>3. Types'
  BY <1>1 DEF Types
<1>4. QED
  BY <1>1, <1>2, <1>3 DEF CountInv, WriteInv, LineInv

(* What the chip forgets is put back by attempt.wiped. *)
LEMMA ChipResetsKeeps ==
  ASSUME IInv, ChipResets
  PROVE  IInv'
<1> USE DEF IInv
<1>1. /\ set' = {} /\ ifcnt' = 0 /\ outcome = "running" /\ resets' \in 0..MaxResets /\ BetweenCounts
      /\ UNCHANGED <<at, part, rx, before, outcome, faults>>
  BY TmcAssumption DEF ChipResets, Types
<1>2. /\ attempt'.taken = attempt.taken /\ attempt'.wiped = attempt.wiped + ifcnt
      /\ attempt'.resets = attempt.resets + 1 /\ attempt'.hit = attempt.hit
      /\ attempt' \in [taken : 0..6, hit : BOOLEAN, wiped : Nat, resets : Nat]
      /\ attempt.resets \in Nat /\ attempt.wiped \in Nat /\ ifcnt \in 0..255
  <2>1. /\ attempt \in [taken : 0..6, hit : BOOLEAN, wiped : Nat, resets : Nat]
        /\ ifcnt \in 0..255
    BY DEF Types
  <2>2. attempt' = [attempt EXCEPT !.wiped = attempt.wiped + ifcnt, !.resets = attempt.resets + 1]
    BY DEF ChipResets
  <2>3. attempt.wiped + ifcnt \in Nat /\ attempt.resets + 1 \in Nat
    BY <2>1
  <2>4. QED
    BY ONLY <2>1, <2>2, <2>3
<1>3. \A v : Counted(v) => (\E k \in Int : ifcnt' + attempt'.wiped = v + attempt'.taken + 256 * k)
  BY <1>1, <1>2 DEF Counted
<1>4. Types'
  BY <1>1, <1>2 DEF Types
<1>5. CountInv'
  <2>1. at # 1 => Counted(before)'
    BY <1>1, <1>3 DEF CountInv, Counted
  <2>2. at = 1 => part # "issue" /\ \A i \in 1..Len(rx') : rx'[i].kind = "reply" => Counted(rx[i].value)'
    BY <1>1, <1>3 DEF CountInv, Counted, BetweenCounts
  <2>3. at = 9 => part = "issue"
    BY <1>1 DEF BetweenCounts
  <2>4. at # 10
    BY <1>1 DEF BetweenCounts
  <2>5. QED
    BY <1>1, <2>1, <2>2, <2>3, <2>4 DEF CountInv
<1>6. WriteInv'
  BY <1>1, <1>2 DEF WriteInv
<1>7. LineInv'
  BY <1>1, <1>2 DEF LineInv, IsReply, Echo, Frame
<1>8. QED
  BY <1>4, <1>5, <1>6, <1>7

-----------------------------------------------------------------------------
LEMMA IInvInit == Init => IInv
<1> SUFFICES ASSUME Init PROVE IInv
  OBVIOUS
<1>1. Done(1) = 0 /\ Written(1) = {}
  BY ScriptProgress
<1>2. Types
  BY TmcAssumption DEF Init, Types, FreshAttempt
<1>3. QED
  BY <1>1, <1>2 DEF Init, FreshAttempt, IInv, CountInv, WriteInv, LineInv

LEMMA IInvNext ==
  ASSUME IInv, [Next]_vars
  PROVE  IInv'
<1>1. CASE WriteTaken \/ WriteDamaged \/ WriteFails \/ WriteLate
  BY <1>1, WriteKeeps
<1>2. CASE Request \/ RequestSpoiled \/ RequestFails
  BY <1>2, RequestKeeps
<1>3. CASE ReadEcho \/ ReadEchoFails
  BY <1>3, ReadEchoKeeps
<1>4. CASE ReadReply
  BY <1>4, ReadReplyKeeps
<1>5. CASE ReadReplyFails \/ VerificationFails
  BY <1>5, ReadReplyFailsKeeps
<1>6. CASE Restart
  BY <1>6, RestartKeeps
<1>7. CASE ChipResets
  BY <1>7, ChipResetsKeeps
<1>8. CASE UNCHANGED vars
  BY <1>8 DEF vars, IInv, Types, CountInv, Counted, ExpectedIfcnt, WriteInv, LineInv, IsReply, Echo, Frame
<1>9. QED
  BY <1>1, <1>2, <1>3, <1>4, <1>5, <1>6, <1>7, <1>8 DEF Next, Driver

(* Every reachable state satisfies the invariant the theorems rest on.     *)
THEOREM Invariance == Spec => []IInv
<1>1. IInv /\ [Next]_vars => IInv'
  BY IInvNext
<1>2. QED
  BY IInvInit, <1>1, PTL DEF Spec

(* Every variable of the driver, the line and the chip keeps its type.     *)
THEOREM TypeCorrect == Spec => []TypeOK
<1>1. IInv => TypeOK
  BY ScriptLength DEF IInv, Types, TypeOK, FrameRecord, CONFIG_WRITE_COUNT
<1>2. QED
  BY Invariance, <1>1, PTL

(* configureAndVerify() succeeds only with the whole configuration in the   *)
(* chip, or after resets of the chip whose lost counts cancel out.         *)
THEOREM ConfigurationVerified == Spec => []AcceptedMeansConfigured
<1>1. ASSUME IInv, outcome = "accepted" PROVE set = Configured \/ Hidden
  <2>1. at = 10 /\ Done(10) = 6 /\ Written(10) = Configured /\ set \subseteq Configured
    BY <1>1, ScriptProgress DEF IInv, Types
  <2>2. PICK k \in Int : ifcnt + attempt.wiped = before + attempt.taken + 256 * k
    BY <1>1, <2>1 DEF IInv, CountInv, Counted
  <2>3. /\ attempt.taken \in 0..6 /\ attempt.wiped \in Nat /\ attempt.resets \in Nat
        /\ before \in 0..255 /\ ifcnt \in 0..255
    BY <1>1 DEF IInv, Types
  <2>4. \/ ifcnt = before + 6
        \/ ifcnt = before + 6 - 256
    <3>1. ifcnt = (before + 6) % 256
      BY <1>1, <2>1 DEF IInv, CountInv, ExpectedIfcnt, CONFIG_WRITE_COUNT
    <3>2. before + 6 \in 0..511
      BY <2>3
    <3>3. (before + 6) % 256 = IF before + 6 < 256 THEN before + 6 ELSE before + 6 - 256
      BY ONLY <2>3, <3>2, Modulo
    <3>4. QED
      BY ONLY <2>3, <3>1, <3>3
  <2>5. PICK j \in Int : attempt.wiped + 6 - attempt.taken = 256 * j
    <3>1. \/ attempt.wiped + 6 - attempt.taken = 256 * k
          \/ attempt.wiped + 6 - attempt.taken = 256 * (k + 1)
      BY ONLY <2>2, <2>3, <2>4, k \in Int
    <3>2. QED
      BY <3>1, k \in Int, k + 1 \in Int
  <2>6. CASE attempt.resets = 0
    <3>1. attempt.wiped = 0
      BY <1>1, <2>6 DEF IInv, WriteInv
    <3>2. attempt.taken = 6
      BY ONLY <2>3, <2>5, <3>1, j \in Int
    <3>3. QED
      BY <1>1, <2>1, <2>6, <3>2 DEF IInv, WriteInv
  <2>7. CASE attempt.resets > 0
    <3>1. attempt.wiped + 6 - attempt.taken \in Int
      BY <2>3
    <3>2. (attempt.wiped + 6 - attempt.taken) % 256 = 0
      BY ONLY <2>5, <3>1, j \in Int
    <3>3. QED
      BY <2>7, <3>2 DEF Hidden, CONFIG_WRITE_COUNT
  <2>8. QED
    BY <2>3, <2>6, <2>7
<1>2. IInv => AcceptedMeansConfigured
  BY <1>1 DEF AcceptedMeansConfigured
<1>3. QED
  BY Invariance, <1>2, PTL

(* A line without faults, a chip that is not reset and the right version:   *)
(* the program never restarts for the driver's sake.                       *)
THEOREM RejectionJustified == Spec => []RejectedMeansFault
<1>1. IInv => RejectedMeansFault
  BY DEF IInv, LineInv, RejectedMeansFault
<1>2. QED
  BY Invariance, <1>1, PTL

=============================================================================
