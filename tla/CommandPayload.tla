--------------------------- MODULE CommandPayload ---------------------------
(***************************************************************************)
(* MqttClient::parseCommandPayload().  A payload is a sequence of symbols: *)
(* white space, a digit, a letter that fits nothing, or one of the three   *)
(* words in any case, which count as a single symbol.                      *)
(***************************************************************************)
EXTENDS Integers, Sequences

Space == " "

Digit == [d \in {"0", "1", "2", "3", "4", "5", "6", "7", "8", "9"} |->
            CHOOSE n \in 0..9 : d = <<"0", "1", "2", "3", "4", "5", "6", "7", "8", "9">>[n + 1]]

NoCommand == [event |-> "NONE", percent |-> 0]

StopCommand == [event |-> "STOP", percent |-> 0]

MoveToPercent(n) == [event |-> "MOVE_TO_PERCENT", percent |-> n]

-----------------------------------------------------------------------------
(* The percentage is kept in 16 bits and given up as soon as it exceeds    *)
(* 100; Overrun stands for having given up.                                *)
Overrun == 2^16

ShiftIn(percent, digit) ==
  LET shifted == (percent * 10 + digit) % 2^16 IN
  IF percent = Overrun \/ shifted > 100 THEN Overrun ELSE shifted

PercentOf(token) ==
  LET percent[i \in 0..Len(token)] ==
        IF i = 0 THEN 0 ELSE ShiftIn(percent[i - 1], Digit[token[i]])
  IN  percent[Len(token)]

(* The payload without the white space around it. *)
Trimmed(payload) ==
  LET ink == {i \in DOMAIN payload : payload[i] # Space} IN
  IF ink = {} THEN << >>
  ELSE SubSeq(payload, CHOOSE i \in ink : \A j \in ink : i <= j,
                       CHOOSE i \in ink : \A j \in ink : i >= j)

ParseCommandPayload(payload) ==
  LET token == Trimmed(payload) IN
  CASE token = << >>        -> NoCommand
    [] token = <<"up">>     -> MoveToPercent(100)
    [] token = <<"down">>   -> MoveToPercent(0)
    [] token = <<"stop">>   -> StopCommand
    [] OTHER                ->
         IF (\E i \in DOMAIN token : token[i] \notin DOMAIN Digit) \/ PercentOf(token) > 100
         THEN NoCommand ELSE MoveToPercent(PercentOf(token))

-----------------------------------------------------------------------------
(* What the documented table of payloads says (lib/Connection/README.md):  *)
(* a word or a decimal number up to 100, in white space.                   *)
Number(token) ==
  LET value[i \in 0..Len(token)] == IF i = 0 THEN 0 ELSE value[i - 1] * 10 + Digit[token[i]]
  IN  value[Len(token)]

Words == [up |-> MoveToPercent(100), down |-> MoveToPercent(0),
          stop |-> StopCommand]

IsNumber(token) == token # << >> /\ \A i \in DOMAIN token : token[i] \in DOMAIN Digit

(* The parts of a payload that stand for a command, with nothing but white *)
(* space around them.                                                      *)
Tokens(payload) ==
  { token \in {SubSeq(payload, i, j) : i \in DOMAIN payload, j \in DOMAIN payload} :
      /\ (Len(token) = 1 /\ token[1] \in DOMAIN Words) \/ (IsNumber(token) /\ Number(token) <= 100)
      /\ \E n, k \in 0..Len(payload) :
           payload = [i \in 1..n |-> Space] \o token \o [i \in 1..k |-> Space] }

Meaning(token) == IF IsNumber(token) THEN MoveToPercent(Number(token)) ELSE Words[token[1]]

Understood(payload, c) ==
  IF Tokens(payload) = {} THEN c = NoCommand ELSE \E token \in Tokens(payload) : c = Meaning(token)

=============================================================================
