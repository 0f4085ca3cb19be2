------------------------- MODULE MotorPositionProofs -------------------------
(***************************************************************************)
(* Proofs that a movement puts out no more pulses than it has, that the    *)
(* position kept is where the shaft is, that LIMIT_REACHED means arrived,  *)
(* and that all the sections together keep the promise of Movement, for    *)
(* any buffers, travel and number of moves, until there is trouble: a      *)
(* move() over a movement or an acting refill task, or (for all but the    *)
(* first) a failed rmt_disable() or call of the counter.                   *)
(*                                                                         *)
(* Four invariants, each on top of the one before and of StillInv: an      *)
(* account of the pulses counted, in the channel and about to be           *)
(* transmitted; where the shaft is while both tasks are anywhere; what     *)
(* a task that completes a movement knows of its target; and that one task *)
(* at a time completes it, with nothing left over for the next one.        *)
(***************************************************************************)
EXTENDS MotorStopProofs

-----------------------------------------------------------------------------
(* Pulses left in the channel.                                             *)
(* Running sums: the count now, and after each transaction the channel     *)
(* holds; with the last one done the counter reads n.                      *)
Line(q, n) ==
  { f \in [0..Len(q) -> 0..n] :
      /\ f[Len(q)] = n
      /\ \A i \in 1..Len(q) : f[i] = f[i - 1] + q[i].left
      /\ \A i, j \in 0..Len(q) : i <= j => f[i] <= f[j] }

(* The count c and the pulses left in q make n. *)
Makes(q, c, n) == \E f \in Line(q, n) : f[0] = c

LEMMA MakesTyped ==
  ASSUME NEW q \in Seq(Descriptor), NEW c, NEW n \in Nat, Makes(q, c, n)
  PROVE  c \in Nat /\ c <= n
  BY DEF Makes, Line

(* One pulse fewer, with the count e higher. *)
LEMMA OneLess ==
  ASSUME NEW x \in Nat, NEW y \in Nat, NEW z \in Nat, NEW e \in Nat, x = y + z
  PROVE  x - 1 + e = (y - 1 + e) + z
  OBVIOUS

(* An empty channel adds nothing. *)
LEMMA MakesNothing ==
  ASSUME NEW c \in Nat, NEW n \in Nat
  PROVE  Makes(<< >>, c, n) <=> n = c
<1>1. Len(<< >>) = 0
  OBVIOUS
<1>2. ASSUME n = c PROVE Makes(<< >>, c, n)
  <2>1. [i \in 0..0 |-> c] \in [0..0 -> 0..n]
    BY <1>2
  <2>2. [i \in 0..0 |-> c] \in Line(<< >>, n)
    BY <1>1, <1>2, <2>1 DEF Line
  <2>3. QED
    BY <1>1, <1>2, <2>2 DEF Makes
<1>3. QED
  BY <1>1, <1>2 DEF Makes, Line

(* One more transaction is queued. *)
LEMMA MakesMore ==
  ASSUME NEW q \in Seq(Descriptor), NEW c \in Nat, NEW n \in Nat, Makes(q, c, n),
         NEW d \in Descriptor
  PROVE  Makes(Append(q, d), c, n + d.left)
<1> DEFINE l == Len(q)
           p == Append(q, d)
           m == n + d.left
<1>1. /\ l \in Nat /\ Len(p) = l + 1 /\ p[l + 1] = d /\ d.left \in Nat
      /\ m \in Nat /\ n <= m
      /\ \A i \in 1..l : p[i] = q[i]
  BY MotorAssumption DEF Descriptor
<1>2. PICK f \in [0..l -> 0..n] :
        /\ f[0] = c /\ f[l] = n
        /\ \A i \in 1..l : f[i] = f[i - 1] + q[i].left
        /\ \A i, j \in 0..l : i <= j => f[i] <= f[j]
  BY DEF Makes, Line
<1> DEFINE g == [i \in 0..(l + 1) |-> IF i = l + 1 THEN m ELSE f[i]]
<1>3. m = n + d.left
  OBVIOUS
<1> HIDE DEF l, p, m
<1>4. g \in [0..(l + 1) -> 0..m]
  BY <1>1, <1>2
<1>5. g[0] = c /\ g[l + 1] = m
  BY <1>1, <1>2
<1>6. \A i \in 1..(l + 1) : g[i] = g[i - 1] + p[i].left
  <2>1. SUFFICES ASSUME NEW i \in 1..(l + 1) PROVE g[i] = g[i - 1] + p[i].left
    OBVIOUS
  <2>2. CASE i = l + 1
    <3>1. g[i] = m /\ i - 1 = l /\ l \in 0..(l + 1) /\ l # l + 1
      BY <1>1, <2>2
    <3>2. g[l] = n
      BY <1>2, <3>1
    <3>3. QED
      BY <1>1, <1>3, <2>2, <3>1, <3>2
  <2>3. CASE i # l + 1
    <3>1. i \in 1..l /\ i - 1 \in 0..(l + 1) /\ i - 1 # l + 1
      BY <1>1, <2>3
    <3>2. g[i] = f[i] /\ g[i - 1] = f[i - 1] /\ p[i] = q[i]
      BY <1>1, <2>3, <3>1
    <3>3. QED
      BY <1>2, <3>1, <3>2
  <2>4. QED
    BY <2>2, <2>3
<1>7. \A i, j \in 0..(l + 1) : i <= j => g[i] <= g[j]
  BY <1>1, <1>2
<1> HIDE DEF g
<1>8. QED
  BY <1>1, <1>4, <1>5, <1>6, <1>7 DEF Makes, Line, p, m

(* The transaction at the head is done. *)
LEMMA MakesLess ==
  ASSUME NEW q \in Seq(Descriptor), NEW c \in Nat, NEW n \in Nat, Makes(q, c, n),
         q # << >>
  PROVE  /\ Head(q).left \in Nat /\ c + Head(q).left <= n
         /\ Makes(Tail(q), c, n - Head(q).left)
<1> DEFINE l == Len(q)
           p == Tail(q)
           h == q[1].left
           m == n - h
<1>1. /\ l \in Nat /\ l >= 1 /\ Len(p) = l - 1 /\ h \in Nat /\ Head(q) = q[1]
      /\ \A i \in 1..(l - 1) : p[i] = q[i + 1]
      /\ \A i \in 1..l : q[i].left \in Nat
  <2>1. l \in Nat /\ l >= 1
    OBVIOUS
  <2>2. \A i \in 1..l : q[i] \in Descriptor
    OBVIOUS
  <2>3. \A i \in 1..l : q[i].left \in Nat
    BY <2>2, MotorAssumption DEF Descriptor
  <2>4. Len(p) = l - 1 /\ Head(q) = q[1] /\ \A i \in 1..(l - 1) : p[i] = q[i + 1]
    BY <2>1
  <2>5. 1 \in 1..l
    BY <2>1
  <2>6. QED
    BY <2>1, <2>3, <2>4, <2>5
<1>2. PICK f \in [0..l -> 0..n] :
        /\ f[0] = c /\ f[l] = n
        /\ \A i \in 1..l : f[i] = f[i - 1] + q[i].left
        /\ \A i, j \in 0..l : i <= j => f[i] <= f[j]
  BY DEF Makes, Line
<1>3. 0 \in 0..l /\ 1 \in 1..l /\ 1 \in 0..l /\ l \in 0..l /\ 1 - 1 = 0
  BY <1>1
<1>4. f[1] = c + h /\ f[1] \in 0..n /\ f[1] <= f[l]
  BY <1>1, <1>2, <1>3
<1>5. m = n - h /\ m \in Nat /\ c + h <= n
  BY <1>1, <1>2, <1>4
<1> DEFINE g == [i \in 0..(l - 1) |-> f[i + 1] - h]
<1> HIDE DEF l, p, h, m
<1>6. \A i \in 0..(l - 1) : i + 1 \in 0..l /\ i + 1 \in 1..l /\ f[i + 1] \in 0..n /\ f[1] <= f[i + 1]
  BY <1>1, <1>2
<1>7. g \in [0..(l - 1) -> 0..m]
  BY <1>1, <1>4, <1>5, <1>6
<1>8. g[0] = c /\ g[l - 1] = m
  BY <1>1, <1>2, <1>4, <1>5
<1>9. \A i \in 1..(l - 1) : g[i] = g[i - 1] + p[i].left
  <2>1. SUFFICES ASSUME NEW i \in 1..(l - 1) PROVE g[i] = g[i - 1] + p[i].left
    OBVIOUS
  <2>2. i + 1 \in 1..l /\ i \in 0..(l - 1) /\ i - 1 \in 0..(l - 1) /\ (i - 1) + 1 = i /\ (i + 1) - 1 = i
    BY <1>1
  <2>3. f[i + 1] = f[i] + q[i + 1].left /\ g[i] = f[i + 1] - h /\ g[i - 1] = f[i] - h
    BY <1>2, <2>2
  <2>4. f[i] \in Nat /\ q[i + 1].left \in Nat /\ p[i] = q[i + 1] /\ h \in Nat
    BY <1>1, <1>2, <2>2
  <2>5. QED
    BY SMTT(30), <2>3, <2>4
<1>10. \A i, j \in 0..(l - 1) : i <= j => g[i] <= g[j]
  <2>1. SUFFICES ASSUME NEW i \in 0..(l - 1), NEW j \in 0..(l - 1), i <= j PROVE g[i] <= g[j]
    OBVIOUS
  <2>2. f[i + 1] \in Nat /\ f[j + 1] \in Nat /\ f[i + 1] <= f[j + 1]
    BY <1>1, <1>2, <1>6, <2>1
  <2>3. QED
    BY <1>1, <2>2
<1> HIDE DEF g
<1>11. Makes(p, c, m)
  BY <1>1, <1>7, <1>8, <1>9, <1>10 DEF Makes, Line
<1>12. QED
  BY <1>1, <1>5, <1>11 DEF m, p, h

(* A pulse comes out, counted (k = 1) or not (k = 0). *)
LEMMA MakesPulse ==
  ASSUME NEW q \in Seq(Descriptor), NEW c \in Nat, NEW n \in Nat, Makes(q, c, n),
         q # << >>, Head(q).left > 0, NEW k \in {0, 1}
  PROVE  /\ c + 1 <= n
         /\ Makes([q EXCEPT ![1].left = @ - 1], c + k, n - 1 + k)
<1> DEFINE l == Len(q)
           p == [q EXCEPT ![1].left = @ - 1]
           h == q[1].left
           m == n - 1 + k
<1>1. /\ l \in Nat /\ l >= 1 /\ h \in Nat /\ h > 0 /\ Head(q) = q[1]
      /\ 1 \in 1..l /\ q[1] \in Descriptor
      /\ \A i \in 1..l : q[i].left \in Nat
  <2>1. l \in Nat /\ l >= 1 /\ Head(q) = q[1]
    OBVIOUS
  <2>2. \A i \in 1..l : q[i] \in Descriptor
    OBVIOUS
  <2>3. \A i \in 1..l : q[i].left \in Nat
    BY <2>2, MotorAssumption DEF Descriptor
  <2>4. 1 \in 1..l
    BY <2>1
  <2>5. QED
    BY <2>1, <2>2, <2>3, <2>4
<1>2. Len(p) = l /\ p[1].left = h - 1 /\ \A i \in 2..l : p[i] = q[i]
  BY <1>1 DEF Descriptor
<1>3. PICK f \in [0..l -> 0..n] :
        /\ f[0] = c /\ f[l] = n
        /\ \A i \in 1..l : f[i] = f[i - 1] + q[i].left
        /\ \A i, j \in 0..l : i <= j => f[i] <= f[j]
  BY DEF Makes, Line
<1>4. 0 \in 0..l /\ 1 \in 1..l /\ 1 \in 0..l /\ l \in 0..l /\ 1 - 1 = 0
  BY <1>1
<1>5. f[1] = c + h /\ f[1] \in 0..n /\ f[1] <= f[l]
  BY <1>1, <1>3, <1>4
<1>6. m = n - 1 + k /\ m \in Nat /\ c + 1 <= n
  BY <1>1, <1>3, <1>5
<1> DEFINE g == [i \in 0..l |-> IF i = 0 THEN c + k ELSE f[i] - 1 + k]
<1> HIDE DEF l, p, h, m
<1>7. \A i \in 1..l : i \in 0..l /\ f[i] \in 0..n /\ f[1] <= f[i]
  BY <1>1, <1>3
<1>8. g \in [0..l -> 0..m]
  BY SMTT(30), <1>1, <1>5, <1>6, <1>7
<1>9. g[0] = c + k /\ g[l] = m
  BY <1>1, <1>3, <1>6
<1>10. \A i \in 1..l : g[i] = g[i - 1] + p[i].left
  <2>1. SUFFICES ASSUME NEW i \in 1..l PROVE g[i] = g[i - 1] + p[i].left
    OBVIOUS
  <2>2. CASE i = 1
    BY <1>1, <1>2, <1>5, <2>2
  <2>3. CASE i # 1
    <3>1. i \in 0..l /\ i - 1 \in 0..l /\ i # 0 /\ i - 1 # 0
      BY <1>1, <2>3
    <3>2. i \in 2..l
      BY <1>1, <2>3
    <3>3. f[i] = f[i - 1] + q[i].left /\ f[i - 1] \in Nat
      BY <1>1, <1>3, <3>1
    <3>4. p[i] = q[i] /\ q[i].left \in Nat
      BY <1>1, <1>2, <3>2
    <3>5. g[i] = f[i] - 1 + k /\ g[i - 1] = f[i - 1] - 1 + k
      BY <3>1
    <3>6. k \in Nat /\ f[i] \in Nat
      BY <1>7
    <3> DEFINE x == f[i]
               y == f[i - 1]
               z == q[i].left
    <3>7. x \in Nat /\ y \in Nat /\ z \in Nat /\ x = y + z
      BY <3>3, <3>4, <3>6
    <3>8. g[i] = x - 1 + k /\ g[i - 1] = y - 1 + k /\ p[i].left = z
      BY <3>4, <3>5
    <3> HIDE DEF x, y, z
    <3>9. x - 1 + k = (y - 1 + k) + z
      BY ONLY <3>6, <3>7, OneLess
    <3>10. QED
      BY ONLY <3>8, <3>9
  <2>4. QED
    BY <2>2, <2>3
<1>11. \A i, j \in 0..l : i <= j => g[i] <= g[j]
  <2>1. SUFFICES ASSUME NEW i \in 0..l, NEW j \in 0..l, i <= j PROVE g[i] <= g[j]
    OBVIOUS
  <2>2. f[i] \in Nat /\ f[j] \in Nat /\ f[i] <= f[j]
    BY <1>3, <2>1
  <2>3. CASE i = 0
    BY SMTT(30), <1>1, <1>5, <1>7, <2>2, <2>3
  <2>4. CASE i # 0
    BY SMTT(30), <1>1, <2>1, <2>2, <2>4
  <2>5. QED
    BY <2>3, <2>4
<1> HIDE DEF g
<1>12. Makes(p, c + k, m)
  BY <1>2, <1>8, <1>9, <1>10, <1>11 DEF Makes, Line
<1>13. QED
  BY <1>6, <1>12 DEF m, p

-----------------------------------------------------------------------------
(* The account of a movement's pulses.                                     *)
(* The movement is under way and nothing has begun to end it. *)
Live ==
  /\ motor.state # "STOPPED" /\ ~ motor.abort /\ ~ motor.limit
  /\ \A t \in Tasks : ~ Failing(t)

(* Pulses reserved by task t and not in the channel yet. *)
Pending(t) == IF task[t].at \in {"transmit", "refused"} THEN task[t].count ELSE 0

Owing == Pending("blinds") + Pending("refill")

(* What is counted, in the channel and about to be transmitted stays       *)
(* within what was reserved, and is all of it while the movement is live.  *)
Budget ==
  motor.state # "STOPPED" =>
    \E n \in 0..motor.reserved :
      /\ Makes(rmt.queue, pcnt.count, n)
      /\ n + Owing <= motor.reserved
      /\ Live => n + Owing = motor.reserved

LaunchReady ==
  /\ task["blinds"].at \in {"enable", "launch"} => pcnt.running /\ pcnt.count = 0
  /\ task["blinds"].at = "launch" => rmt.enabled /\ rmt.queue = << >>

LiveOn == Live => rmt.enabled /\ pcnt.running

(* Task t is completing the movement; motor.limit keeps the other out. *)
Marking(t) == Ending(t, "completed") \/ task[t].at = "completed"

Marked == \A t \in Tasks : Marking(t) => motor.limit \/ motor.state = "STOPPED"

(* A completion begins with every pulse counted. *)
AllOut ==
  /\ task["blinds"].at = "complete" => motor.pulses = 0
  /\ task["refill"].at = "complete" /\ Live => pcnt.count = motor.pulses

AccountInv == Budget /\ LaunchReady /\ LiveOn /\ Marked /\ AllOut

LEMMA PendingType ==
  /\ IInv  => \A t \in Tasks : Pending(t) \in Nat
  /\ IInv' => \A t \in Tasks : Pending(t)' \in Nat
<1>1. 0..Symbols \subseteq Nat
  BY MotorAssumption
<1>2. ASSUME IInv, NEW t \in Tasks PROVE Pending(t) \in Nat
  <2>1. task[t] \in TaskRecord
    BY <1>2 DEF IInv, Typed, TasksTyped
  <2>2. QED
    BY <1>1, <2>1 DEF Pending, TaskRecord
<1>3. ASSUME IInv', NEW t \in Tasks PROVE Pending(t)' \in Nat
  <2>1. task'[t] \in TaskRecord
    BY <1>3 DEF IInv, Typed, TasksTyped
  <2>2. QED
    BY <1>1, <2>1 DEF Pending, TaskRecord
<1>4. QED
  BY <1>2, <1>3

(* A step of task t that neither reserves nor transmits. *)
LEMMA Passing ==
  ASSUME IInv, IInv', AccountInv, NEW t \in Tasks, Others(t), UNCHANGED <<rmt, pcnt>>,
         motor'.state = motor.state, motor'.reserved = motor.reserved,
         motor'.pulses = motor.pulses,
         motor'.limit = motor.limit \/ motor'.limit, motor'.abort = motor.abort \/ motor'.abort,
         Pending(t)' = Pending(t) \/ (Pending(t)' = 0 /\ ~ Live'),
         Live' => ~ Failing(t),
         Marking(t)' => Marking(t) \/ motor'.limit,
         task'[t].at \notin {"enable", "launch"},
         task'[t].at = "complete" =>
           IF t = "blinds" THEN motor.pulses = 0 ELSE Live => pcnt.count = motor.pulses
  PROVE  AccountInv'
<1>1. Live' => Live
  BY DEF Live, Failing, Ending, Others
<1>2. Budget'
  <2>1. Owing' \in Nat /\ Owing \in Nat /\ Owing' <= Owing /\ (Live' => Owing' = Owing)
    <3>1. \A u \in Tasks : Pending(u) \in Nat /\ Pending(u)' \in Nat
      BY PendingType
    <3>2. \A u \in Tasks : u # t => Pending(u)' = Pending(u)
      BY DEF Others, Pending
    <3>3. Pending(t)' <= Pending(t) /\ (Live' => Pending(t)' = Pending(t))
      BY <3>1
    <3>4. CASE t = "blinds"
      BY <3>1, <3>2, <3>3, <3>4 DEF Owing, Tasks
    <3>5. CASE t = "refill"
      BY <3>1, <3>2, <3>3, <3>5 DEF Owing, Tasks
    <3>6. QED
      BY <3>4, <3>5 DEF Tasks
  <2>2. motor.reserved \in Nat
    BY Numbers
  <2>3. SUFFICES ASSUME motor.state # "STOPPED"
                 PROVE  \E n \in 0..motor.reserved :
                          /\ Makes(rmt.queue, pcnt.count, n)
                          /\ n + Owing' <= motor.reserved
                          /\ Live' => n + Owing' = motor.reserved
    BY DEF Budget, Makes, Line
  <2>4. PICK n \in 0..motor.reserved :
          /\ Makes(rmt.queue, pcnt.count, n)
          /\ n + Owing <= motor.reserved
          /\ Live => n + Owing = motor.reserved
    BY <2>3 DEF AccountInv, Budget
  <2>5. QED
    BY <1>1, <2>1, <2>2, <2>4
<1>3. LaunchReady' /\ Marked'
  BY DEF AccountInv, LaunchReady, Marked, Marking, Ending, Others, Tasks
<1>4. LiveOn' /\ AllOut'
  BY <1>1 DEF AccountInv, LiveOn, AllOut, Others, Tasks
<1>5. QED
  BY <1>2, <1>3, <1>4 DEF AccountInv

(* The movement itself stays as it is. *)
SameMovement ==
  /\ motor'.state = motor.state /\ motor'.reserved = motor.reserved
  /\ motor'.pulses = motor.pulses /\ motor'.limit = motor.limit /\ motor'.abort = motor.abort

(* A stopped motor owes no pulses. *)
LEMMA ComingToRest ==
  ASSUME AccountInv, NEW t \in Tasks, Others(t), UNCHANGED <<rmt, pcnt>>,
         motor'.state = "STOPPED", motor'.pulses = 0,
         task'[t].at \notin {"enable", "launch"}
  PROVE  AccountInv'
<1>1. Budget' /\ LiveOn' /\ Marked' /\ AllOut'
  BY DEF Budget, LiveOn, Marked, AllOut, Live
<1>2. LaunchReady'
  BY DEF AccountInv, LaunchReady, Others, Tasks
<1>3. QED
  BY <1>1, <1>2 DEF AccountInv

(* A failing call ends startMovement(), and no other teardown. *)
LEMMA CallFailing ==
  ASSUME task \in [Tasks -> TaskRecord], NEW t \in Tasks, NEW l, CallFails(t, l)
  PROVE  /\ Others(t)
         /\ \/ task'[t].at = "home" /\ ~ task'[t].still /\ task[t].then = "aim"
            \/ /\ task'[t].at = l /\ ~ task'[t].ok /\ task'[t].then = task[t].then
               /\ task[t].then # "aim"
<1>1. CASE task[t].then = "aim"
  BY <1>1, Effects DEF CallFails
<1>2. CASE task[t].then # "aim"
  <2>1. Others(t) /\ task'[t] = [task[t] EXCEPT !.at = l, !.ok = FALSE]
    BY <1>2 DEF CallFails, Others
  <2>2. task[t] \in TaskRecord
    OBVIOUS
  <2>3. QED
    BY <1>2, <2>1, <2>2 DEF TaskRecord
<1>3. QED
  BY <1>1, <1>2

(* stopPulseHardware(), but for the channel and the counter. *)
LEMMA TeardownAccount ==
  ASSUME IInv, IInv', AccountInv, NEW t \in Tasks,
         \/ ReadActive(t) \/ ResetBuffers(t) \/ RefreshRead(t) \/ ReadCount(t)
         \/ RefreshPosition(t)
  PROVE  AccountInv'
<1> USE Numbers
<1>1. /\ Others(t) /\ UNCHANGED <<rmt, pcnt>> /\ SameMovement /\ task[t].at \in Teardown
      /\ \/ task'[t].at = "home" /\ task[t].then = "aim"
         \/ task'[t].at \in Teardown /\ task'[t].then = task[t].then
  <2>1. CASE ReadActive(t)
    <3>1. task'[t] = [task[t] EXCEPT !.at = "disable", !.recreate = ring.active > 0] /\ Others(t)
      BY <2>1 DEF ReadActive, Others
    <3>2. task[t] \in TaskRecord
      OBVIOUS
    <3>3. task'[t].at = "disable" /\ task'[t].then = task[t].then
      BY <3>1, <3>2 DEF TaskRecord
    <3>4. QED
      BY <2>1, <3>1, <3>3 DEF ReadActive, At, SameMovement, Teardown
  <2>2. CASE ResetBuffers(t)
    BY <2>2, Effects DEF ResetBuffers, At, SameMovement, Teardown, Locals
  <2>3. CASE RefreshRead(t)
    <3>1. CASE Goto(t, "stopCounter")
      BY <2>3, <3>1, Effects DEF RefreshRead, At, SameMovement, Teardown, Locals
    <3>2. CASE task' = [task EXCEPT ![t].at = "count",
                                    ![t].state = motor.state, ![t].from = motor.from]
      <4>1. /\ Others(t)
            /\ task'[t] = [task[t] EXCEPT !.at = "count", !.state = motor.state, !.from = motor.from]
        BY <3>2 DEF Others
      <4>2. task[t] \in TaskRecord
        OBVIOUS
      <4>3. task'[t].at = "count" /\ task'[t].then = task[t].then
        BY <4>1, <4>2 DEF TaskRecord
      <4>4. QED
        BY <2>3, <4>1, <4>3 DEF RefreshRead, At, SameMovement, Teardown
    <3>3. QED
      BY <2>3, <3>1, <3>2 DEF RefreshRead
  <2>4. CASE ReadCount(t)
    <3>1. CASE CallFails(t, "stopCounter")
      <4>1. /\ Others(t)
            /\ \/ task'[t].at = "home" /\ task[t].then = "aim"
               \/ task'[t].at = "stopCounter" /\ task'[t].then = task[t].then
        BY <3>1, CallFailing
      <4>2. QED
        BY <2>4, <4>1 DEF ReadCount, At, SameMovement, Teardown
    <3>2. ASSUME NEW s, task' = [task EXCEPT ![t].at = "position", ![t].step = s]
          PROVE  /\ Others(t) /\ task'[t].at = "position" /\ task'[t].then = task[t].then
      <4>1. Others(t) /\ task'[t] = [task[t] EXCEPT !.at = "position", !.step = s]
        BY <3>2 DEF Others
      <4>2. task[t] \in TaskRecord
        OBVIOUS
      <4>3. QED
        BY <4>1, <4>2 DEF TaskRecord
    <3>3. QED
      BY <2>4, <3>1, <3>2 DEF ReadCount, At, SameMovement, Teardown
  <2>5. CASE RefreshPosition(t)
    BY <2>5, Effects DEF RefreshPosition, At, SameMovement, Teardown, Locals, MotorRecord
  <2>6. QED
    BY <2>1, <2>2, <2>3, <2>4, <2>5
<1>2. /\ Pending(t)' = Pending(t) /\ (Failing(t) <=> Failing(t)') /\ (Marking(t)' => Marking(t))
      /\ task'[t].at \notin {"enable", "launch", "complete"}
  BY <1>1 DEF Pending, Failing, Marking, Ending, Teardown
<1>3. Live' => ~ Failing(t)
  BY <1>2 DEF Live
<1>4. QED
  BY <1>1, <1>2, <1>3, Passing DEF SameMovement

(* A teardown has begun only for a movement that is over. *)
LEMMA TeardownNotLive ==
  ASSUME StillInv, AccountInv, NEW t \in Tasks, task[t].at \in Teardown
  PROVE  ~ Live
<1>1. task[t].then \in {"completed", "failed", "aim", "stopped"}
  BY DEF StillInv, Places
<1>2. CASE task[t].then = "completed"
  BY <1>2 DEF AccountInv, Marked, Marking, Ending, Live
<1>3. CASE task[t].then = "failed"
  BY <1>3 DEF Failing, Ending, Live
<1>4. CASE task[t].then = "aim"
  BY <1>4 DEF StillInv, Places, LaunchAlone, BeforeLaunch, Ending, Live, Tasks
<1>5. CASE task[t].then = "stopped"
  BY <1>5 DEF StillInv, Places, StopOff, Stopping, Dead, Ending, Live, Tasks
<1>6. QED
  BY <1>1, <1>2, <1>3, <1>4, <1>5

(* Nothing of the movement changes but the channel, which is emptied, or   *)
(* the counter, which stops.                                               *)
LEMMA TurningOff ==
  ASSUME IInv, IInv', StillInv, AccountInv, NEW t \in Tasks, Others(t),
         task[t].at \in Teardown, UNCHANGED motor, pcnt'.count = pcnt.count,
         UNCHANGED rmt \/ rmt'.queue = << >>,
         \/ task'[t].at = "home" /\ task[t].then = "aim"
         \/ task'[t].at \in Teardown /\ task'[t].then = task[t].then
         \/ task'[t].at = task[t].then
  PROVE  AccountInv'
<1> USE Numbers
<1>1. ~ Live /\ task[t].then \in {"completed", "failed", "aim", "stopped"}
  BY TeardownNotLive DEF StillInv, Places
<1>2. /\ Pending(t)' = 0 /\ Pending(t) = 0 /\ (Failing(t) => Failing(t)')
      /\ (Marking(t)' => Marking(t))
      /\ task'[t].at \notin {"enable", "launch", "complete"}
  BY <1>1 DEF Pending, Failing, Marking, Ending, Teardown
<1>3. ~ Live'
  BY <1>1, <1>2 DEF Live, Failing, Ending, Others
<1>4. Budget'
  <2>1. Owing' = Owing
    BY <1>2 DEF Owing, Pending, Others, Tasks
  <2>2. SUFFICES ASSUME motor.state # "STOPPED"
                 PROVE  \E n \in 0..motor.reserved :
                          Makes(rmt'.queue, pcnt.count, n) /\ n + Owing <= motor.reserved
    BY <1>3, <2>1 DEF Budget
  <2>3. PICK n \in 0..motor.reserved :
          Makes(rmt.queue, pcnt.count, n) /\ n + Owing <= motor.reserved
    BY <2>2 DEF AccountInv, Budget
  <2>4. pcnt.count \in Nat /\ pcnt.count <= n /\ rmt.queue \in Seq(Descriptor) /\ n \in Nat
    BY <2>3, MakesTyped
  <2>5. Owing \in Nat
    BY PendingType DEF Owing, Tasks
  <2>6. Makes(<< >>, pcnt.count, pcnt.count)
    BY <2>4, MakesNothing
  <2>7. QED
    BY <2>3, <2>4, <2>5, <2>6
<1>5. ~ BeforeLaunch \/ t = "blinds"
  BY DEF StillInv, LaunchAlone, Teardown, Tasks
<1>6. LaunchReady'
  BY <1>2, <1>5 DEF LaunchReady, BeforeLaunch, Others, Tasks
<1>7. LiveOn' /\ Marked' /\ AllOut'
  BY <1>2, <1>3 DEF AccountInv, LiveOn, Marked, Marking, AllOut, Ending, Others, Tasks
<1>8. QED
  BY <1>4, <1>6, <1>7 DEF AccountInv

LEMMA DisableOutputAccount ==
  ASSUME IInv, IInv', StillInv, AccountInv, NEW t \in Tasks, DisableOutput(t)
  PROVE  AccountInv'
<1> USE Numbers
<1>1. /\ task[t].at = "disable" /\ Others(t) /\ UNCHANGED <<motor, pcnt>>
      /\ UNCHANGED rmt \/ rmt'.queue = << >>
  <2>1. CASE rmt' = IF rmt.enabled THEN Disabled(task[t].recreate) ELSE rmt
    BY <2>1, Effects DEF DisableOutput, At, StillInv, Ends, Disabled
  <2>2. CASE UNCHANGED rmt
    BY <2>2, Effects DEF DisableOutput, At
  <2>3. QED
    BY <2>1, <2>2 DEF DisableOutput
<1>2. \/ task'[t].at = "home" /\ task[t].then = "aim"
      \/ task'[t].at \in Teardown /\ task'[t].then = task[t].then
  <2>1. CASE Goto(t, "reset")
    BY <2>1, Effects DEF Teardown, Locals
  <2>2. CASE CallFails(t, "refresh")
    BY <2>2, CallFailing DEF Teardown
  <2>3. QED
    BY <2>1, <2>2 DEF DisableOutput
<1>3. task[t].at \in Teardown
  BY <1>1 DEF Teardown
<1>4. QED
  BY <1>1, <1>2, <1>3, TurningOff

LEMMA StopCounterAccount ==
  ASSUME IInv, IInv', StillInv, AccountInv, NEW t \in Tasks, StopCounter(t)
  PROVE  AccountInv'
<1> USE Numbers
<1>1. /\ task[t].at = "stopCounter" /\ Others(t) /\ UNCHANGED <<motor, rmt>>
      /\ pcnt'.count = pcnt.count
      /\ \/ task'[t].at = "home" /\ task[t].then = "aim"
         \/ task'[t].at = task[t].then
  <2>1. CASE Goto(t, task[t].then)
    BY <2>1, Effects DEF StopCounter, At, IInv, Typed
  <2>2. CASE CallFails(t, task[t].then)
    BY <2>2, CallFailing DEF StopCounter, At, IInv, Typed
  <2>3. QED
    BY <2>1, <2>2 DEF StopCounter
<1>2. task[t].at \in Teardown
  BY <1>1 DEF Teardown
<1>3. QED
  BY <1>1, <1>2, TurningOff

(* A reservation moves pulses from those left to those owed. *)
LEMMA ReserveBufferAccount ==
  ASSUME IInv, IInv', StillInv, AccountInv, NEW t \in Tasks, ReserveBuffer(t)
  PROVE  AccountInv'
<1> USE Numbers
<1>1. task[t].at = "reserve" /\ UNCHANGED <<rmt, pcnt>>
  BY DEF ReserveBuffer, At
<1>2. CASE Goto(t, "filled") /\ UNCHANGED motor
  <2>1. Others(t) /\ task'[t].at = "filled"
    BY <1>2, Effects
  <2>2. /\ Pending(t)' = Pending(t) /\ ~ Failing(t) /\ ~ Marking(t)'
    BY <1>1, <2>1 DEF Pending, Failing, Marking, Ending, Teardown
  <2>3. QED
    BY <1>1, <1>2, <2>1, <2>2, Passing
<1>3. CASE Fails(t) /\ UNCHANGED motor
  <2>1. Others(t) /\ task'[t].at = "readActive" /\ task'[t].then = "failed"
    BY <1>3, Effects DEF Fails
  <2>2. /\ Pending(t)' = Pending(t) /\ ~ Failing(t) /\ ~ Marking(t)'
    BY <1>1, <2>1 DEF Pending, Failing, Marking, Ending, Teardown
  <2>3. QED
    BY <1>1, <1>3, <2>1, <2>2, Passing
<1>4. ASSUME NEW n, n = BufferPulses(motor.pulses - motor.reserved),
             motor' = [motor EXCEPT !.reserved = @ + n],
             task' = [task EXCEPT ![t].at = "transmit", ![t].buffer = ring.put, ![t].count = n]
      PROVE  AccountInv'
  <2>1. task[t] \in TaskRecord /\ task' \in [Tasks -> TaskRecord]
    BY DEF IInv, Typed, TasksTyped
  <2>2. /\ Others(t)
        /\ task'[t] = [task[t] EXCEPT !.at = "transmit", !.buffer = ring.put, !.count = n]
    BY <1>4 DEF Others
  <2>3. task'[t].at = "transmit" /\ task'[t].then = task[t].then /\ task'[t].count = n
    BY <2>1, <2>2 DEF TaskRecord
  <2>4. n \in Nat
    <3>1. task'[t].count \in Nat
      BY <2>1, MotorAssumption DEF TaskRecord
    <3>2. QED
      BY <2>3, <3>1
  <2>5. /\ motor'.state = motor.state /\ motor'.reserved = motor.reserved + n
        /\ motor'.pulses = motor.pulses /\ motor'.limit = motor.limit /\ motor'.abort = motor.abort
    BY <1>4 DEF MotorRecord
  <2>6. /\ Pending(t) = 0 /\ Pending(t)' = n
        /\ \A u \in Tasks : (Failing(u)' <=> Failing(u)) /\ (Marking(u)' <=> Marking(u))
    BY <1>1, <2>2, <2>3 DEF Pending, Failing, Marking, Ending, Teardown, Others
  <2>7. Live' <=> Live
    BY <2>5, <2>6 DEF Live
  <2>8. Owing \in Nat /\ Owing' = Owing + n
    <3>1. \A u \in Tasks : Pending(u) \in Nat /\ (u # t => Pending(u)' = Pending(u))
      BY <2>2, PendingType DEF Others, Pending
    <3>2. CASE t = "blinds"
      BY <2>4, <2>6, <3>1, <3>2 DEF Owing
    <3>3. CASE t = "refill"
      BY <2>4, <2>6, <3>1, <3>3 DEF Owing
    <3>4. QED
      BY <3>2, <3>3
  <2>9. Budget'
    <3>1. SUFFICES ASSUME motor.state # "STOPPED"
                   PROVE  \E k \in 0..(motor.reserved + n) :
                            /\ Makes(rmt.queue, pcnt.count, k)
                            /\ k + (Owing + n) <= motor.reserved + n
                            /\ Live => k + (Owing + n) = motor.reserved + n
      BY <1>1, <2>5, <2>7, <2>8 DEF Budget
    <3>2. PICK k \in 0..motor.reserved :
            /\ Makes(rmt.queue, pcnt.count, k)
            /\ k + Owing <= motor.reserved
            /\ Live => k + Owing = motor.reserved
      BY <3>1 DEF AccountInv, Budget
    <3>3. QED
      BY <2>4, <2>8, <3>2
  <2>10. LaunchReady'
    BY <1>1, <2>2, <2>3 DEF AccountInv, LaunchReady, Others
  <2>11. LiveOn' /\ AllOut'
    <3>1. LiveOn'
      BY <1>1, <2>7 DEF AccountInv, LiveOn
    <3>2. AllOut'
      <4>1. \A u \in Tasks : task'[u].at = "complete" => task[u].at = "complete"
        BY <2>2, <2>3 DEF Others
      <4>2. QED
        BY <1>1, <2>5, <2>7, <4>1 DEF AccountInv, AllOut
    <3>3. QED
      BY <3>1, <3>2
  <2>12. Marked'
    BY <2>5, <2>6 DEF AccountInv, Marked
  <2>13. QED
    BY <2>9, <2>10, <2>11, <2>12 DEF AccountInv
<1>5. QED
  BY <1>2, <1>3, <1>4 DEF ReserveBuffer

(* A transmit moves them on into the channel. *)
LEMMA TransmitAccount ==
  ASSUME IInv, IInv', StillInv, AccountInv, NEW t \in Tasks, Transmit(t)
  PROVE  AccountInv'
<1> USE Numbers
<1>1. task[t].at = "transmit" /\ UNCHANGED <<motor, pcnt>>
  BY DEF Transmit, At
<1>2. CASE ~ CanTransmit /\ Goto(t, "filled") /\ UNCHANGED rmt
  <2>1. Others(t) /\ task'[t].at = "filled"
    BY <1>2, Effects
  <2>2. ~ Live
    BY <1>2 DEF AccountInv, LiveOn, Live, CanTransmit
  <2>3. Pending(t)' = 0 /\ ~ Failing(t) /\ ~ Marking(t)'
    BY <1>1, <2>1 DEF Pending, Failing, Marking, Ending, Teardown
  <2>4. ~ Live'
    BY <1>1, <2>1, <2>2, <2>3 DEF Live, Failing, Ending, Others
  <2>5. QED
    BY <1>1, <1>2, <2>1, <2>3, <2>4, Passing
<1>3. CASE Goto(t, "refused") /\ UNCHANGED rmt
  <2>1. Others(t) /\ task'[t].at = "refused" /\ task'[t].count = task[t].count
    <3>1. Others(t) /\ task'[t] = [task[t] EXCEPT !.at = "refused"]
      BY <1>3 DEF Goto, Others
    <3>2. task[t] \in TaskRecord
      OBVIOUS
    <3>3. QED
      BY <3>1, <3>2 DEF TaskRecord
  <2>2. Pending(t)' = Pending(t) /\ ~ Failing(t) /\ ~ Marking(t)'
    BY <1>1, <2>1 DEF Pending, Failing, Marking, Ending, Teardown
  <2>3. QED
    BY <1>1, <1>3, <2>1, <2>2, Passing
<1>4. ASSUME NEW d, d = [buffer |-> task[t].buffer, left |-> task[t].count],
             rmt' = [rmt EXCEPT !.queue = Append(@, d)], Goto(t, "reserve")
      PROVE  AccountInv'
  <2>1. task[t] \in TaskRecord /\ d \in Descriptor /\ d.left = task[t].count
    BY <1>4 DEF TaskRecord, Descriptor
  <2>2. Others(t) /\ task'[t].at = "reserve" /\ Locals(t)
    BY <1>4, Effects
  <2>3. rmt'.enabled = rmt.enabled /\ rmt'.queue = Append(rmt.queue, d)
    BY <1>4
  <2>4. /\ Pending(t) = d.left /\ Pending(t)' = 0
        /\ \A u \in Tasks : (Failing(u)' <=> Failing(u)) /\ (Marking(u)' <=> Marking(u))
    BY <1>1, <2>1, <2>2 DEF Pending, Failing, Marking, Ending, Teardown, Others, Locals
  <2>5. Live' <=> Live
    BY <1>1, <2>4 DEF Live
  <2>6. Owing \in Nat /\ Owing' \in Nat /\ d.left \in Nat /\ Owing = Owing' + d.left
    <3>1. \A u \in Tasks : Pending(u) \in Nat /\ (u # t => Pending(u)' = Pending(u))
      BY <2>2, PendingType DEF Others, Pending
    <3>2. CASE t = "blinds"
      BY <2>4, <3>1, <3>2 DEF Owing
    <3>3. CASE t = "refill"
      BY <2>4, <3>1, <3>3 DEF Owing
    <3>4. QED
      BY <3>2, <3>3
  <2>7. Budget'
    <3>1. SUFFICES ASSUME motor.state # "STOPPED"
                   PROVE  \E k \in 0..motor.reserved :
                            /\ Makes(Append(rmt.queue, d), pcnt.count, k)
                            /\ k + Owing' <= motor.reserved
                            /\ Live => k + Owing' = motor.reserved
      BY <1>1, <2>3, <2>5 DEF Budget
    <3>2. PICK k \in 0..motor.reserved :
            /\ Makes(rmt.queue, pcnt.count, k)
            /\ k + Owing <= motor.reserved
            /\ Live => k + Owing = motor.reserved
      BY <3>1 DEF AccountInv, Budget
    <3>3. rmt.queue \in Seq(Descriptor) /\ k \in Nat /\ pcnt.count \in Nat
      BY <3>2, MakesTyped
    <3>4. Makes(Append(rmt.queue, d), pcnt.count, k + d.left)
      BY <2>1, <3>2, <3>3, MakesMore
    <3>5. k + d.left \in 0..motor.reserved
      <4>1. k + d.left \in Nat /\ k + Owing = (k + d.left) + Owing'
        BY ONLY <2>6, <3>3, SMTT(30)
      <4>2. motor.reserved \in Nat /\ k + Owing <= motor.reserved
        BY <3>2
      <4>3. QED
        BY ONLY <2>6, <4>1, <4>2, SMTT(30)
    <3>6. QED
      BY <2>6, <3>2, <3>3, <3>4, <3>5
  <2>8. task["blinds"].at # "launch" \/ t = "blinds"
    BY <1>1 DEF StillInv, LaunchAlone, BeforeLaunch
  <2>9. LaunchReady' /\ LiveOn' /\ Marked' /\ AllOut'
    BY <1>1, <2>2, <2>3, <2>4, <2>5, <2>8
    DEF AccountInv, LaunchReady, LiveOn, Marked, AllOut, Others
  <2>10. QED
    BY <2>7, <2>9 DEF AccountInv
<1>5. QED
  BY <1>2, <1>3, <1>4 DEF Transmit

LEMMA TransmitRefusedAccount ==
  ASSUME IInv, IInv', AccountInv, NEW t \in Tasks, TransmitRefused(t)
  PROVE  AccountInv'
<1> USE Numbers
<1>1. /\ task[t].at = "refused" /\ Others(t) /\ UNCHANGED <<motor, rmt, pcnt>>
      /\ \/ motor.abort /\ task'[t].at = "filled"
         \/ task'[t].at = "readActive" /\ task'[t].then = "failed"
  BY Effects DEF TransmitRefused, Fails, At
<1>2. /\ Pending(t)' = 0 /\ ~ Live' /\ ~ Marking(t)'
      /\ task'[t].at \notin {"enable", "launch", "complete"}
  BY <1>1 DEF Pending, Failing, Marking, Live, Ending, Teardown
<1>3. QED
  BY <1>1, <1>2, Passing

LEMMA BeginCompletionAccount ==
  ASSUME IInv, IInv', AccountInv, NEW t \in Tasks, BeginCompletion(t)
  PROVE  AccountInv'
<1> USE Numbers
<1>1. task[t].at = "complete" /\ Others(t) /\ UNCHANGED <<rmt, pcnt>>
  BY Effects DEF BeginCompletion, At
<1>2. \/ task'[t].at = "home" /\ UNCHANGED motor
      \/ /\ task'[t].at = "readActive" /\ task'[t].then = "completed"
         /\ motor' = [motor EXCEPT !.limit = TRUE]
  BY Effects DEF BeginCompletion
<1>3. /\ motor'.state = motor.state /\ motor'.reserved = motor.reserved
      /\ motor'.pulses = motor.pulses /\ motor'.abort = motor.abort
      /\ motor'.limit = motor.limit \/ motor'.limit
      /\ task'[t].at # "home" => motor'.limit
  BY <1>2 DEF MotorRecord
<1>4. /\ Pending(t)' = Pending(t) /\ ~ Failing(t) /\ (Marking(t)' => motor'.limit)
      /\ task'[t].at \notin {"enable", "launch", "complete"}
  BY <1>1, <1>2, <1>3 DEF Pending, Failing, Marking, Ending, Teardown
<1>5. QED
  BY <1>1, <1>3, <1>4, Passing

LEMMA RestAccount ==
  ASSUME IInv, AccountInv, NEW t \in Tasks,
         EndCompletion(t) \/ EndFailure(t) \/ (t = "blinds" /\ Stopped)
  PROVE  AccountInv'
<1> USE Numbers
<1>1. Others(t) /\ task'[t].at \in {"limit", "home", "readActive"}
  <2>1. CASE EndCompletion(t)
    BY <2>1, Effects DEF EndCompletion, CompletionFails, Fails
  <2>2. CASE EndFailure(t)
    BY <2>2, Effects DEF EndFailure
  <2>3. CASE t = "blinds" /\ Stopped
    BY <2>3 DEF Stopped, IdleTask, Others
  <2>4. QED
    BY <2>1, <2>2, <2>3
<1>2. motor'.state = "STOPPED" /\ motor'.pulses = 0 /\ UNCHANGED <<rmt, pcnt>>
  BY DEF EndCompletion, EndFailure, Stopped, Cleared, MotorRecord
<1>3. QED
  BY <1>1, <1>2, ComingToRest

LEMMA SendLimitReachedAccount ==
  ASSUME IInv, IInv', AccountInv, NEW t \in Tasks, SendLimitReached(t)
  PROVE  AccountInv'
<1> USE Numbers
<1>1. /\ task[t].at = "limit" /\ Others(t) /\ UNCHANGED <<motor, rmt, pcnt>>
      /\ \/ task'[t].at = "home"
         \/ task'[t].at = "readActive" /\ task'[t].then = "failed"
  BY Effects DEF SendLimitReached, CompletionFails, Fails, At
<1>2. /\ Pending(t)' = Pending(t) /\ ~ Failing(t) /\ ~ Marking(t)'
      /\ task'[t].at \notin {"enable", "launch", "complete"}
  BY <1>1 DEF Pending, Failing, Marking, Ending, Teardown
<1>3. QED
  BY <1>1, <1>2, Passing

(* The calls of the Blinds task up to the direction pin. *)
LEMMA CallsAccount ==
  ASSUME IInv, IInv', AccountInv, Stop \/ (\E target \in 0..MaxStep : Move(target)) \/ Aim
  PROVE  AccountInv'
<1> USE Numbers
<1> DEFINE t == "blinds"
<1>1. /\ task[t].at \in {"home", "aim"} /\ Others(t) /\ UNCHANGED <<rmt, pcnt>>
      /\ \/ task'[t].at \in {"home", "startCounter"}
         \/ task'[t].at = "readActive" /\ task'[t].then \in {"stopped", "aim"}
  <2>1. CASE Stop
    BY <2>1, Effects DEF Stop, At
  <2>2. CASE \E target \in 0..MaxStep : Move(target)
    <3>1. PICK target \in 0..MaxStep : Move(target)
      BY <2>2
    <3>2. /\ Others(t) /\ task'[t].at = "readActive" /\ task'[t].then = "aim"
          /\ task[t].at = "home" /\ UNCHANGED <<rmt, pcnt>>
      BY <3>1 DEF Move, At, Others, IdleTask
    <3>3. QED
      BY <3>2
  <2>3. CASE Aim
    <3>1. CASE StartFails
      BY <2>3, <3>1, Effects DEF Aim, At, StartFails
    <3>2. ASSUME NEW k, task' = [task EXCEPT ![t].at = "startCounter", ![t].distance = k]
          PROVE  Others(t) /\ task'[t].at = "startCounter"
      <4>1. Others(t) /\ task'[t] = [task[t] EXCEPT !.at = "startCounter", !.distance = k]
        BY <3>2 DEF Others
      <4>2. task[t] \in TaskRecord
        OBVIOUS
      <4>3. QED
        BY <4>1, <4>2 DEF TaskRecord
    <3>3. QED
      BY <2>3, <3>1, <3>2 DEF Aim, At
  <2>4. QED
    BY <2>1, <2>2, <2>3
<1>2. /\ motor'.state = motor.state /\ motor'.reserved = motor.reserved
      /\ motor'.pulses = motor.pulses /\ motor'.limit = motor.limit
      /\ motor'.abort = motor.abort \/ motor'.abort
  BY DEF Stop, Move, Aim, MotorRecord
<1>3. /\ Pending(t)' = Pending(t) /\ ~ Failing(t) /\ ~ Marking(t)'
      /\ task'[t].at \notin {"enable", "launch", "complete"}
  BY <1>1 DEF Pending, Failing, Marking, Ending, Teardown
<1>4. t \in Tasks
  OBVIOUS
<1> HIDE DEF t
<1>5. QED
  BY <1>1, <1>2, <1>3, <1>4, Passing

(* The counter and the channel start from nothing, with the refill task    *)
(* out of the way.                                                         *)
LEMMA StartAccount ==
  ASSUME IInv, StillInv, AccountInv, StartCounter \/ EnableOutput
  PROVE  AccountInv'
<1> USE Numbers
<1>1. /\ motor.state = "STOPPED" /\ UNCHANGED motor
      /\ task["refill"].at \in {"home", "release", "reserve", "filled"}
  BY DEF StartCounter, EnableOutput, At, StillInv, LaunchAlone, BeforeLaunch
<1>2. Others("blinds") /\ task'["blinds"].at \in {"enable", "launch", "home"}
  <2>1. CASE StartCounter
    BY <2>1, Effects DEF StartCounter, StartFails
  <2>2. CASE EnableOutput
    BY <2>2, Effects DEF EnableOutput, StartFails
  <2>3. QED
    BY <2>1, <2>2
<1>3. task'["refill"] = task["refill"]
  BY <1>2 DEF Others
<1>4. LaunchReady'
  <2>1. CASE StartCounter
    <3>1. CASE StartFails
      BY <3>1, Effects DEF StartFails, LaunchReady
    <3>2. CASE pcnt' = [running |-> TRUE, count |-> 0] /\ Goto("blinds", "enable")
      BY <3>2, Effects DEF LaunchReady
    <3>3. QED
      BY <2>1, <3>1, <3>2 DEF StartCounter
  <2>2. CASE EnableOutput
    <3>1. ~ rmt.enabled /\ rmt.queue = << >>
      BY <2>2 DEF EnableOutput, At, StillInv, LaunchFresh, BeforeLaunch, OffEmpty
    <3>2. pcnt.running /\ pcnt.count = 0 /\ UNCHANGED pcnt
      BY <2>2 DEF EnableOutput, At, AccountInv, LaunchReady
    <3>3. \/ task'["blinds"].at = "home"
          \/ task'["blinds"].at = "launch" /\ rmt' = [rmt EXCEPT !.enabled = TRUE]
      BY <2>2, Effects DEF EnableOutput, StartFails
    <3>4. QED
      BY <3>1, <3>2, <3>3 DEF LaunchReady
  <2>3. QED
    BY <2>1, <2>2
<1>5. Budget' /\ LiveOn' /\ Marked' /\ AllOut'
  BY <1>1, <1>2, <1>3 DEF Budget, LiveOn, Marked, AllOut, Live
<1>6. QED
  BY <1>4, <1>5 DEF AccountInv

LEMMA LaunchAccount ==
  ASSUME IInv, StillInv, AccountInv, Launch
  PROVE  AccountInv'
<1> USE Numbers
<1>1. /\ Others("blinds") /\ UNCHANGED <<rmt, pcnt>>
      /\ task["blinds"].at = "launch" /\ task'["blinds"].at = "reserve"
      /\ motor'.reserved = 0
      /\ task["refill"].at \in {"home", "release", "reserve", "filled"}
  <2>1. BeforeLaunch
    BY DEF Launch, At, BeforeLaunch
  <2>2. QED
    BY <2>1, Effects DEF StillInv, LaunchAlone, Launch, At, MotorRecord
<1>2. task'["refill"] = task["refill"]
  BY <1>1 DEF Others
<1>3. rmt.enabled /\ rmt.queue = << >> /\ pcnt.running /\ pcnt.count = 0
  BY <1>1 DEF AccountInv, LaunchReady
<1>4. Owing' = 0
  BY <1>1, <1>2 DEF Owing, Pending
<1>5. Budget'
  <2>1. Makes(rmt.queue, pcnt.count, 0)
    BY <1>3, MakesNothing
  <2>2. \E n \in 0..0 :
          /\ Makes(rmt.queue, pcnt.count, n) /\ n + 0 <= 0 /\ (Live' => n + 0 = 0)
    BY <2>1
  <2>3. QED
    BY <1>1, <1>4, <2>2 DEF Budget
<1>6. LaunchReady' /\ LiveOn' /\ AllOut'
  BY <1>1, <1>2, <1>3 DEF LaunchReady, LiveOn, AllOut
<1>7. Marked'
  BY <1>1, <1>2 DEF Marked, Marking, Ending, Teardown
<1>8. QED
  BY <1>5, <1>6, <1>7 DEF AccountInv

(* A completion is begun with every pulse out. *)
LEMMA FilledAccount ==
  ASSUME IInv, IInv', StillInv, AccountInv, Launched \/ Refilled
  PROVE  AccountInv'
<1> USE Numbers
<1>1. PICK t \in Tasks :
        /\ t = IF Launched THEN "blinds" ELSE "refill"
        /\ task[t].at = "filled" /\ Others(t) /\ UNCHANGED <<motor, rmt, pcnt>>
        /\ task'[t].at \in {"home", "complete"}
  <2>1. CASE Launched
    BY <2>1, Effects DEF Launched, At
  <2>2. CASE Refilled /\ ~ Launched
    BY <2>2, Effects DEF Refilled, At
  <2>3. QED
    BY <2>1, <2>2
<1>2. ASSUME task'["blinds"].at = "complete", t = "blinds" PROVE motor.pulses = 0
  <2>1. Launched
    BY <1>1, <1>2
  <2>2. task["blinds"].distance = 0
    BY <1>2, <2>1, Effects DEF Launched
  <2>3. QED
    BY <1>1, <1>2, <2>2 DEF StillInv, DistanceKept, Filling
<1>3. ASSUME task'["refill"].at = "complete", t = "refill", Live PROVE pcnt.count = motor.pulses
  <2>1. ShouldComplete
    BY <1>1, <1>3, Effects DEF Refilled
  <2>2. Len(rmt.queue) = 0 /\ ~ Claims("blinds") /\ ~ Claims("refill")
    BY <1>3, <2>1 DEF ShouldComplete, StillInv, Backed, Claim, AccountInv, LiveOn
  <2>3. rmt.queue = << >> /\ Owing = 0
    BY <2>2 DEF Claims, Owing, Pending
  <2>4. PICK n \in 0..motor.reserved :
          Makes(rmt.queue, pcnt.count, n) /\ n + Owing = motor.reserved
    BY <1>3 DEF AccountInv, Budget, Live
  <2>5. pcnt.count = n
    BY <2>3, <2>4, MakesTyped, MakesNothing
  <2>6. QED
    BY <2>1, <2>3, <2>4, <2>5 DEF ShouldComplete, IInv, ReservedWithin
<1>4. /\ Pending(t)' = Pending(t) /\ ~ Failing(t) /\ ~ Marking(t)'
      /\ task'[t].at \notin {"enable", "launch"}
  BY <1>1 DEF Pending, Failing, Marking, Ending, Teardown
<1>5. QED
  BY <1>1, <1>2, <1>3, <1>4, Passing

LEMMA RefillAccount ==
  ASSUME IInv, IInv', AccountInv, Wake \/ Release
  PROVE  AccountInv'
<1> USE Numbers
<1>1. /\ task["refill"].at \in {"home", "release"} /\ Others("refill")
      /\ UNCHANGED <<motor, rmt, pcnt>> /\ task'["refill"].at \in {"release", "reserve"}
  BY Effects DEF Wake, Release, At
<1>2. /\ Pending("refill")' = Pending("refill") /\ ~ Failing("refill") /\ ~ Marking("refill")'
      /\ task'["refill"].at \notin {"enable", "launch", "complete"}
  BY <1>1 DEF Pending, Failing, Marking, Ending, Teardown
<1>3. QED
  BY <1>1, <1>2, Passing

-----------------------------------------------------------------------------
(* The peripheral. *)
LEMMA PeripheralTasks ==
  ASSUME UNCHANGED <<motor, task>>
  PROVE  /\ Live' <=> Live
         /\ Owing' = Owing
         /\ Marked' <=> Marked
  BY DEF Live, Failing, Ending, Owing, Pending, Marked, Marking

LEMMA PulseAccount ==
  ASSUME IInv, StillInv, AccountInv, Pulse
  PROVE  AccountInv'
<1> USE Numbers
<1>1. /\ rmt.enabled /\ rmt.queue # << >> /\ Head(rmt.queue).left > 0
      /\ UNCHANGED <<motor, task>>
  BY DEF Pulse
<1>2. /\ rmt'.enabled = rmt.enabled
      /\ rmt'.queue = [rmt.queue EXCEPT ![1].left = @ - 1]
  BY DEF Pulse
<1>3. PICK k \in {0, 1} : /\ pcnt'.running = pcnt.running /\ pcnt'.count = pcnt.count + k
                          /\ pcnt.running <=> k = 1
  <2>1. pcnt \in [running : BOOLEAN, count : Nat]
    BY DEF IInv, Typed
  <2>2. CASE pcnt.running
    BY <2>1, <2>2 DEF Pulse
  <2>3. CASE ~ pcnt.running
    BY <2>1, <2>3 DEF Pulse
  <2>4. QED
    BY <2>2, <2>3
<1>4. ASSUME motor.state # "STOPPED"
      PROVE  /\ pcnt.count + 1 <= motor.reserved
             /\ \E n \in 0..motor.reserved :
                  /\ Makes(rmt'.queue, pcnt'.count, n)
                  /\ n + Owing <= motor.reserved
                  /\ Live => n + Owing = motor.reserved
  <2>1. PICK n \in 0..motor.reserved :
          /\ Makes(rmt.queue, pcnt.count, n)
          /\ n + Owing <= motor.reserved
          /\ Live => n + Owing = motor.reserved
    BY <1>4 DEF AccountInv, Budget
  <2>2. pcnt.count \in Nat /\ rmt.queue \in Seq(Descriptor) /\ n \in Nat /\ Owing \in Nat
    BY <2>1, PendingType DEF IInv, Typed, Owing
  <2>3. pcnt.count + 1 <= n /\ Makes(rmt'.queue, pcnt'.count, n - 1 + k)
    BY <1>1, <1>2, <1>3, <2>1, <2>2, MakesPulse
  <2>4. Live => k = 1
    BY <1>3 DEF AccountInv, LiveOn
  <2>5. PICK m \in Int : m = n - 1 + k
    BY <2>2
  <2>6. m \in 0..motor.reserved /\ m <= n /\ (Live => m = n)
    BY <2>1, <2>2, <2>3, <2>4, <2>5
  <2>7. m + Owing <= motor.reserved /\ (Live => m + Owing = motor.reserved)
    BY <2>1, <2>2, <2>6
  <2>8. pcnt.count + 1 <= motor.reserved
    BY <2>1, <2>2, <2>3
  <2>9. QED
    BY <2>3, <2>5, <2>6, <2>7, <2>8
<1>5. Budget'
  BY <1>1, <1>4, PeripheralTasks DEF Budget
<1>6. LaunchReady'
  <2>1. task["blinds"].at \in {"enable", "launch"} => ~ rmt.enabled \/ rmt.queue = << >>
    BY DEF StillInv, LaunchFresh, BeforeLaunch, AccountInv, LaunchReady
  <2>2. QED
    BY <1>1, <2>1 DEF LaunchReady
<1>7. LiveOn' /\ Marked'
  BY <1>1, <1>2, <1>3, PeripheralTasks DEF AccountInv, LiveOn
<1>8. AllOut'
  <2>1. task["refill"].at = "complete" /\ Live => motor.state # "STOPPED" /\ pcnt.count = motor.pulses
    BY DEF AccountInv, AllOut, Live
  <2>2. ~ (task["refill"].at = "complete" /\ Live)
    BY <1>4, <2>1 DEF IInv, Typed, ReservedWithin
  <2>3. QED
    BY <1>1, <2>2, PeripheralTasks DEF AccountInv, AllOut
<1>9. QED
  BY <1>5, <1>6, <1>7, <1>8 DEF AccountInv

LEMMA TransactionDoneAccount ==
  ASSUME IInv, StillInv, AccountInv, TransactionDone
  PROVE  AccountInv'
<1> USE Numbers
<1>1. /\ rmt.enabled /\ rmt.queue # << >> /\ Head(rmt.queue).left = 0
      /\ rmt'.enabled = rmt.enabled /\ rmt'.queue = Tail(rmt.queue)
      /\ UNCHANGED <<motor, task, pcnt>>
  BY DEF TransactionDone
<1>2. ASSUME motor.state # "STOPPED"
      PROVE  \E n \in 0..motor.reserved :
                  /\ Makes(rmt'.queue, pcnt.count, n)
                  /\ n + Owing <= motor.reserved
                  /\ Live => n + Owing = motor.reserved
  <2>1. PICK n \in 0..motor.reserved :
          /\ Makes(rmt.queue, pcnt.count, n)
          /\ n + Owing <= motor.reserved
          /\ Live => n + Owing = motor.reserved
    BY <1>2 DEF AccountInv, Budget
  <2>2. pcnt.count \in Nat /\ rmt.queue \in Seq(Descriptor) /\ n \in Nat
    BY <2>1 DEF IInv, Typed
  <2>3. Makes(rmt'.queue, pcnt.count, n - 0)
    BY <1>1, <2>1, <2>2, MakesLess
  <2>4. QED
    BY <2>1, <2>2, <2>3
<1>3. Budget'
  BY <1>1, <1>2, PeripheralTasks DEF Budget
<1>4. task["blinds"].at # "launch"
  BY <1>1 DEF AccountInv, LaunchReady
<1>5. LaunchReady' /\ LiveOn' /\ Marked' /\ AllOut'
  BY <1>1, <1>4, PeripheralTasks DEF AccountInv, LaunchReady, LiveOn, AllOut
<1>6. QED
  BY <1>3, <1>5 DEF AccountInv

-----------------------------------------------------------------------------
LEMMA AccountInvInit == Init => AccountInv
  BY DEF Init, AccountInv, Budget, LaunchReady, LiveOn, Live, Marked, Marking, Ending, AllOut,
         Teardown, IdleTask, Tasks

LEMMA AccountInvNext ==
  ASSUME IInv, IInv', StillInv, AccountInv, [Next]_vars
  PROVE  AccountInv'
<1>1. ASSUME NEW t \in Tasks, Procedure(t) PROVE AccountInv'
  BY <1>1, TeardownAccount, DisableOutputAccount, StopCounterAccount, ReserveBufferAccount,
     TransmitAccount, TransmitRefusedAccount, BeginCompletionAccount, RestAccount,
     SendLimitReachedAccount DEF Procedure
<1>2. CASE BlindsStep
  BY <1>1, <1>2, RestAccount, CallsAccount, StartAccount, LaunchAccount, FilledAccount
  DEF BlindsStep, Tasks
<1>3. CASE RefillStep
  BY <1>1, <1>3, RefillAccount, FilledAccount DEF RefillStep, Tasks
<1>4. CASE UNCHANGED vars
  BY <1>4, PeripheralTasks DEF vars, AccountInv, Budget, LaunchReady, LiveOn, AllOut
<1>5. QED
  BY <1>2, <1>3, <1>4, CallsAccount, PulseAccount, TransactionDoneAccount DEF Next

(* Both tasks together never queue more pulses than the movement has, and   *)
(* the pulses put out never exceed it, whatever calls of the driver fail,  *)
(* until a move() is called over a movement or an acting refill task.      *)
THEOREM TravelNeverExceeded == Spec => []NoOverrun
<1> DEFINE Kept == NoOverlap => StillInv /\ AccountInv
<1>1. ASSUME IInv, Kept PROVE NoOverrun
  <2>1. ASSUME motor.state # "STOPPED", NoOverlap PROVE pcnt.count <= motor.pulses
    <3>1. PICK n \in 0..motor.reserved :
            Makes(rmt.queue, pcnt.count, n) /\ n + Owing <= motor.reserved
      BY <1>1, <2>1 DEF AccountInv, Budget
    <3>2. pcnt.count \in Nat /\ pcnt.count <= n
      BY <1>1, <3>1, Numbers, MakesTyped
    <3>3. QED
      BY <1>1, <3>1, <3>2, Numbers DEF IInv, ReservedWithin
  <2>2. QED
    BY <1>1, <2>1 DEF NoOverrun, NoOverlap, IInv, ReservedWithin
<1>2. IInv /\ IInv' /\ Kept /\ [Next]_vars => Kept'
  BY AccountInvNext, StillInvNext, TroubleStays DEF NoOverlap
<1>3. Init => Kept
  BY AccountInvInit, StillInvInit
<1>4. IInv /\ Kept => NoOverrun
  BY <1>1
<1> HIDE DEF Kept
<1>5. QED
  BY <1>2, <1>3, <1>4, Invariance, PTL DEF Spec

-----------------------------------------------------------------------------
(* Where the shaft is.                                                     *)
(* What a task between two steps relies on. *)
Sound(t) ==
  /\ task[t].at \in {"reset", "refresh", "count", "position", "stopCounter"} => ~ rmt.enabled
  /\ task[t].at \in {"completed", "failed", "stopped"} => ~ pcnt.running
  /\ task[t].at = "count" =>
       PositionFromCount(task[t].from, task[t].state, pcnt.count) = shaft.at
  /\ task[t].at = "position" => task[t].step = shaft.at
  /\ task[t].at = "stopCounter" => motor.step = shaft.at
  /\ task[t].at \in {"startCounter", "enable", "launch"} => shaft.up = (task[t].dir = "UP")

(* No pulse comes out uncounted, and none without a movement. *)
OnCounts == rmt.enabled => pcnt.running

StoppedQuiet == motor.state = "STOPPED" => rmt.queue = << >>

(* During a movement the counter tells where the shaft is. *)
Tracks ==
  motor.state # "STOPPED" =>
    /\ shaft.up = (motor.state = "UP")
    /\ shaft.at = PositionFromCount(motor.from, motor.state, pcnt.count)

(* Without one, or once the counter has been read and stopped, the step    *)
(* does.                                                                   *)
Stands == motor.state = "STOPPED" \/ ~ pcnt.running => motor.step = shaft.at

PositionInv ==
  /\ OnCounts /\ StoppedQuiet /\ Tracks /\ Stands
  /\ \A t \in Tasks : Sound(t)

(* A step that only moves task t on. *)
LEMMA OnlyTask ==
  ASSUME PositionInv, NEW t \in Tasks, Others(t), Sound(t)', UNCHANGED <<rmt, pcnt, shaft>>,
         motor'.state = motor.state, motor'.from = motor.from, motor'.step = motor.step
  PROVE  PositionInv'
<1>1. OnCounts' /\ StoppedQuiet' /\ Tracks' /\ Stands'
  BY DEF PositionInv, OnCounts, StoppedQuiet, Tracks, Stands
<1>2. \A u \in Tasks : Sound(u)'
  BY DEF PositionInv, Sound, Others
<1>3. QED
  BY <1>1, <1>2 DEF PositionInv

(* A teardown is over, and the motor stops. *)
LEMMA ToRest ==
  ASSUME StillInv, PositionInv, NEW t \in Tasks, Others(t), UNCHANGED <<rmt, pcnt, shaft>>,
         task[t].at \in {"completed", "failed", "stopped"},
         task'[t].at \in {"limit", "home", "readActive"},
         motor'.state = "STOPPED", motor'.step = motor.step
  PROVE  PositionInv'
<1>1. ~ pcnt.running /\ ~ rmt.enabled
  BY DEF PositionInv, Sound, OnCounts
<1>2. motor.step = shaft.at /\ rmt.queue = << >>
  BY <1>1 DEF PositionInv, Stands, StillInv, OffEmpty
<1>3. OnCounts' /\ StoppedQuiet' /\ Tracks' /\ Stands'
  BY <1>2 DEF PositionInv, OnCounts, StoppedQuiet, Tracks, Stands
<1>4. \A u \in Tasks : Sound(u)'
  BY DEF PositionInv, Sound, Others
<1>5. QED
  BY <1>3, <1>4 DEF PositionInv

(* stopPulseHardware() *)
LEMMA DisableOutputPosition ==
  ASSUME IInv, StillInv, PositionInv, trouble' = {}, NEW t \in Tasks, DisableOutput(t)
  PROVE  PositionInv'
<1> USE Numbers
<1>1. /\ rmt' = IF rmt.enabled THEN Disabled(task[t].recreate) ELSE rmt
      /\ Goto(t, "reset") /\ task[t].at = "disable" /\ UNCHANGED <<motor, pcnt, shaft>>
  BY DEF DisableOutput, At
<1>2. ~ rmt'.enabled /\ rmt'.queue = << >> /\ task'[t].at = "reset" /\ Others(t)
  BY <1>1, Effects DEF StillInv, Ends, OffEmpty, Disabled
<1>3. OnCounts' /\ StoppedQuiet' /\ Tracks' /\ Stands'
  BY <1>1, <1>2 DEF PositionInv, OnCounts, StoppedQuiet, Tracks, Stands
<1>4. Sound(t)'
  BY <1>2 DEF Sound
<1>5. \A u \in Tasks : u # t => Sound(u)'
  BY <1>1, <1>2 DEF PositionInv, Sound, Others
<1>6. QED
  BY <1>3, <1>4, <1>5 DEF PositionInv

LEMMA RefreshPositions ==
  ASSUME IInv, PositionInv, trouble' = {}, NEW t \in Tasks,
         ReadActive(t) \/ ResetBuffers(t) \/ RefreshRead(t) \/ ReadCount(t)
  PROVE  PositionInv'
<1> USE Numbers
<1>1. UNCHANGED <<motor, rmt, pcnt, shaft>>
  BY DEF ReadActive, ResetBuffers, RefreshRead, ReadCount
<1>2. task[t] \in TaskRecord
  OBVIOUS
<1>3. Others(t) /\ Sound(t)'
  <2>1. CASE ReadActive(t)
    <3>1. task'[t] = [task[t] EXCEPT !.at = "disable", !.recreate = ring.active > 0] /\ Others(t)
      BY <2>1 DEF ReadActive, Others
    <3>2. task'[t].at = "disable"
      BY <1>2, <3>1 DEF TaskRecord
    <3>3. QED
      BY <3>1, <3>2 DEF Sound
  <2>2. CASE ResetBuffers(t)
    <3>1. task[t].at = "reset" /\ task'[t].at = "refresh" /\ Others(t)
      BY <2>2, Effects DEF ResetBuffers, At
    <3>2. QED
      BY <1>1, <3>1 DEF PositionInv, Sound
  <2>3. CASE RefreshRead(t)
    <3>1. task[t].at = "refresh" /\ ~ rmt.enabled
      BY <2>3 DEF RefreshRead, At, PositionInv, Sound
    <3>2. ASSUME pcnt.running /\ motor.state # "STOPPED" PROVE Others(t) /\ Sound(t)'
      <4>1. /\ Others(t)
            /\ task'[t] = [task[t] EXCEPT !.at = "count", !.state = motor.state, !.from = motor.from]
        BY <2>3, <3>2 DEF RefreshRead, Others
      <4>2. /\ task'[t].at = "count" /\ task'[t].state = motor.state
            /\ task'[t].from = motor.from
        BY <1>2, <4>1 DEF TaskRecord
      <4>3. PositionFromCount(motor.from, motor.state, pcnt.count) = shaft.at
        BY <3>2 DEF PositionInv, Tracks
      <4>4. QED
        BY <1>1, <3>1, <4>1, <4>2, <4>3 DEF Sound
    <3>3. ASSUME ~ (pcnt.running /\ motor.state # "STOPPED") PROVE Others(t) /\ Sound(t)'
      <4>1. task'[t].at = "stopCounter" /\ Others(t)
        BY <2>3, <3>3, Effects DEF RefreshRead
      <4>2. motor.step = shaft.at
        BY <3>3 DEF PositionInv, Stands
      <4>3. QED
        BY <1>1, <3>1, <4>1, <4>2 DEF Sound
    <3>4. QED
      BY <3>2, <3>3
  <2>4. CASE ReadCount(t)
    <3>1. task[t].at = "count" /\ ~ rmt.enabled
      BY <2>4 DEF ReadCount, At, PositionInv, Sound
    <3>2. PICK s : /\ s = PositionFromCount(task[t].from, task[t].state, pcnt.count)
                   /\ Others(t) /\ task'[t] = [task[t] EXCEPT !.at = "position", !.step = s]
      BY <2>4 DEF ReadCount, Others
    <3>3. task'[t].at = "position" /\ task'[t].step = s
      BY <1>2, <3>2 DEF TaskRecord
    <3>4. s = shaft.at
      BY <3>1, <3>2 DEF PositionInv, Sound
    <3>5. QED
      BY <1>1, <3>1, <3>2, <3>3, <3>4 DEF Sound
  <2>5. QED
    BY <2>1, <2>2, <2>3, <2>4
<1>4. QED
  BY <1>1, <1>3, OnlyTask

LEMMA RefreshPositionPosition ==
  ASSUME IInv, PositionInv, NEW t \in Tasks, RefreshPosition(t)
  PROVE  PositionInv' /\ motor'.step = shaft.at
<1> USE Numbers
<1>1. /\ task[t].at = "position" /\ task'[t].at = "stopCounter" /\ Others(t)
      /\ UNCHANGED <<rmt, pcnt, shaft>>
  BY Effects DEF RefreshPosition, At
<1>2. task[t].step = shaft.at /\ ~ rmt.enabled
  BY <1>1 DEF PositionInv, Sound
<1>3. motor'.state = motor.state /\ motor'.from = motor.from /\ motor'.step = shaft.at
  BY <1>2 DEF RefreshPosition, MotorRecord
<1>4. OnCounts' /\ StoppedQuiet' /\ Tracks' /\ Stands'
  BY <1>1, <1>3 DEF PositionInv, OnCounts, StoppedQuiet, Tracks, Stands
<1>5. Sound(t)'
  BY <1>1, <1>2, <1>3 DEF Sound
<1>6. \A u \in Tasks : u # t => Sound(u)'
  BY <1>1, <1>3 DEF PositionInv, Sound, Others
<1>7. QED
  BY <1>3, <1>4, <1>5, <1>6 DEF PositionInv

LEMMA StopCounterPosition ==
  ASSUME IInv, StillInv, PositionInv, trouble' = {}, NEW t \in Tasks, StopCounter(t)
  PROVE  PositionInv'
<1> USE Numbers
<1>1. /\ task[t].at = "stopCounter" /\ task'[t].at = task[t].then /\ Others(t)
      /\ pcnt' = [pcnt EXCEPT !.running = FALSE] /\ UNCHANGED <<motor, rmt, shaft>>
  BY Effects DEF StopCounter, At
<1>2. ~ pcnt'.running /\ pcnt'.count = pcnt.count
  BY <1>1 DEF IInv, Typed
<1>3. ~ rmt.enabled /\ motor.step = shaft.at
  BY <1>1 DEF PositionInv, Sound
<1>4. task'[t].at \in {"completed", "failed", "aim", "stopped"}
  BY <1>1 DEF StillInv, Places, Teardown
<1>5. OnCounts' /\ StoppedQuiet' /\ Tracks' /\ Stands'
  BY <1>1, <1>2, <1>3 DEF PositionInv, OnCounts, StoppedQuiet, Tracks, Stands
<1>6. Sound(t)'
  BY <1>2, <1>4 DEF Sound
<1>7. \A u \in Tasks : u # t => Sound(u)'
  BY <1>1, <1>2, <1>3 DEF PositionInv, Sound, Others
<1>8. QED
  BY <1>5, <1>6, <1>7 DEF PositionInv

(* The steps that leave the channel, the counter and the shaft alone and   *)
(* go where nothing is relied on.                                          *)
LEMMA QuietPosition ==
  ASSUME IInv, PositionInv, NEW t \in Tasks,
         \/ ReserveBuffer(t) \/ TransmitRefused(t) \/ BeginCompletion(t) \/ SendLimitReached(t)
         \/ t = "blinds" /\ (Stop \/ Launched \/ (\E target \in 0..MaxStep : Move(target)))
         \/ t = "refill" /\ (Wake \/ Release \/ Refilled)
  PROVE  PositionInv'
<1> USE Numbers
<1> DEFINE Carefree == {"home", "readActive", "reserve", "transmit", "filled", "complete", "release"}
<1>1. /\ Others(t) /\ task'[t].at \in Carefree
      /\ UNCHANGED <<rmt, pcnt, shaft>>
      /\ motor'.state = motor.state /\ motor'.from = motor.from /\ motor'.step = motor.step
  <2>1. CASE ReserveBuffer(t)
    <3>1. ASSUME NEW n, motor' = [motor EXCEPT !.reserved = @ + n],
                 task' = [task EXCEPT ![t].at = "transmit", ![t].buffer = ring.put, ![t].count = n]
          PROVE  /\ Others(t) /\ task'[t].at = "transmit"
                 /\ motor'.state = motor.state /\ motor'.from = motor.from
                 /\ motor'.step = motor.step
      <4>1. /\ Others(t)
            /\ task'[t] = [task[t] EXCEPT !.at = "transmit", !.buffer = ring.put, !.count = n]
        BY <3>1 DEF Others
      <4>2. task[t] \in TaskRecord
        OBVIOUS
      <4>3. QED
        BY <3>1, <4>1, <4>2 DEF TaskRecord, MotorRecord
    <3>2. CASE Goto(t, "filled") /\ UNCHANGED motor
      BY <2>1, <3>2, Effects DEF ReserveBuffer
    <3>3. CASE Fails(t) /\ UNCHANGED motor
      BY <2>1, <3>3, Effects DEF ReserveBuffer, Fails
    <3>4. UNCHANGED <<rmt, pcnt, shaft>>
      BY <2>1 DEF ReserveBuffer
    <3>5. QED
      BY <2>1, <3>1, <3>2, <3>3, <3>4 DEF ReserveBuffer
  <2>2. CASE TransmitRefused(t)
    BY <2>2, Effects DEF TransmitRefused, Fails
  <2>3. CASE BeginCompletion(t)
    BY <2>3, Effects DEF BeginCompletion, MotorRecord
  <2>4. CASE SendLimitReached(t)
    BY <2>4, Effects DEF SendLimitReached, CompletionFails, Fails
  <2>5. CASE t = "blinds" /\ (Stop \/ Launched)
    BY <2>5, Effects DEF Stop, Launched, MotorRecord
  <2>6. CASE t = "blinds" /\ (\E target \in 0..MaxStep : Move(target))
    <3>1. PICK target \in 0..MaxStep : Move(target)
      BY <2>6
    <3>2. Others(t) /\ task'[t].at = "readActive"
      BY <2>6, <3>1 DEF Move, Others, IdleTask
    <3>3. QED
      BY <3>1, <3>2 DEF Move, MotorRecord
  <2>7. CASE t = "refill" /\ (Wake \/ Release \/ Refilled)
    BY <2>7, Effects DEF Wake, Release, Refilled
  <2>8. QED
    BY <2>1, <2>2, <2>3, <2>4, <2>5, <2>6, <2>7
<1>2. Sound(t)'
  BY <1>1 DEF Sound
<1>3. QED
  BY <1>1, <1>2, OnlyTask

(* Only a running movement is transmitted for. *)
LEMMA TransmitPosition ==
  ASSUME IInv, PositionInv, NEW t \in Tasks, Transmit(t)
  PROVE  PositionInv'
<1> USE Numbers
<1>1. /\ Others(t) /\ task'[t].at \in {"filled", "reserve", "refused"}
      /\ UNCHANGED <<motor, pcnt, shaft>>
  BY Effects DEF Transmit
<1>2. rmt'.enabled = rmt.enabled /\ (motor.state = "STOPPED" => rmt' = rmt)
  BY DEF Transmit, CanTransmit
<1>3. OnCounts' /\ StoppedQuiet' /\ Tracks' /\ Stands'
  BY <1>1, <1>2 DEF PositionInv, OnCounts, StoppedQuiet, Tracks, Stands
<1>4. Sound(t)'
  BY <1>1 DEF Sound
<1>5. \A u \in Tasks : u # t => Sound(u)'
  BY <1>1, <1>2 DEF PositionInv, Sound, Others
<1>6. QED
  BY <1>3, <1>4, <1>5 DEF PositionInv

LEMMA RestPosition ==
  ASSUME IInv, StillInv, PositionInv, NEW t \in Tasks,
         EndCompletion(t) \/ EndFailure(t) \/ (t = "blinds" /\ Stopped)
  PROVE  PositionInv'
<1> USE Numbers
<1>1. /\ Others(t) /\ task'[t].at \in {"limit", "home", "readActive"}
      /\ task[t].at \in {"completed", "failed", "stopped"}
  <2>1. CASE EndCompletion(t)
    BY <2>1, Effects DEF EndCompletion, CompletionFails, Fails, At
  <2>2. CASE EndFailure(t)
    BY <2>2, Effects DEF EndFailure, At
  <2>3. CASE t = "blinds" /\ Stopped
    BY <2>3 DEF Stopped, IdleTask, Others, At
  <2>4. QED
    BY <2>1, <2>2, <2>3
<1>2. motor'.state = "STOPPED" /\ motor'.step = motor.step /\ UNCHANGED <<rmt, pcnt, shaft>>
  BY DEF EndCompletion, EndFailure, Stopped, Cleared, MotorRecord
<1>3. QED
  BY <1>1, <1>2, ToRest

-----------------------------------------------------------------------------
(* A movement starts. *)
LEMMA AimPosition ==
  ASSUME IInv, StillInv, PositionInv, Aim
  PROVE  PositionInv'
<1> USE Numbers
<1>1. motor.state = "STOPPED" /\ UNCHANGED <<motor, rmt, pcnt>>
  BY DEF Aim, At, StillInv, LaunchAlone, BeforeLaunch
<1>2. /\ Others("blinds")
      /\ \/ task'["blinds"].at = "home" /\ UNCHANGED shaft
         \/ /\ task'["blinds"].at = "startCounter" /\ shaft'.at = shaft.at
            /\ shaft'.up = (task'["blinds"].dir = "UP")
  <2>1. CASE StartFails /\ UNCHANGED shaft
    BY <2>1, Effects DEF StartFails
  <2>2. ASSUME NEW k, task' = [task EXCEPT !["blinds"].at = "startCounter", !["blinds"].distance = k]
        PROVE  /\ Others("blinds") /\ task'["blinds"].at = "startCounter"
               /\ task'["blinds"].dir = task["blinds"].dir
    <3>1. /\ Others("blinds")
          /\ task'["blinds"] = [task["blinds"] EXCEPT !.at = "startCounter", !.distance = k]
      BY <2>2 DEF Others
    <3>2. task["blinds"] \in TaskRecord
      OBVIOUS
    <3>3. QED
      BY <3>1, <3>2 DEF TaskRecord
  <2>3. shaft \in [up : BOOLEAN, at : Int]
    BY DEF IInv, Typed
  <2>4. QED
    BY <2>1, <2>2, <2>3 DEF Aim
<1>3. shaft'.at = shaft.at
  BY <1>2
<1>4. OnCounts' /\ StoppedQuiet' /\ Tracks' /\ Stands'
  BY <1>1, <1>3 DEF PositionInv, OnCounts, StoppedQuiet, Tracks, Stands
<1>5. Sound("blinds")'
  BY <1>2 DEF Sound
<1>6. Sound("refill")'
  <2>1. task'["refill"] = task["refill"]
    BY <1>2 DEF Others
  <2>2. task["refill"].at \in {"home", "release", "reserve", "filled"}
    BY DEF Aim, At, StillInv, LaunchAlone, BeforeLaunch
  <2>3. QED
    BY <2>1, <2>2 DEF Sound
<1>7. QED
  BY <1>4, <1>5, <1>6 DEF PositionInv

LEMMA StartPosition ==
  ASSUME IInv, StillInv, AccountInv, PositionInv, StartCounter \/ EnableOutput
  PROVE  PositionInv'
<1> USE Numbers
<1>1. /\ motor.state = "STOPPED" /\ UNCHANGED <<motor, shaft>>
      /\ task["refill"].at \in {"home", "release", "reserve", "filled"}
      /\ task["blinds"].at \in {"startCounter", "enable"}
      /\ ~ rmt.enabled /\ rmt.queue = << >>
  BY DEF StartCounter, EnableOutput, At, StillInv, LaunchAlone, LaunchFresh, BeforeLaunch, OffEmpty
<1>2. /\ Others("blinds")
      /\ \/ task'["blinds"].at = "home"
         \/ /\ task'["blinds"].at \in {"enable", "launch"}
            /\ task'["blinds"].dir = task["blinds"].dir
  <2>1. \A l : Goto("blinds", l) => task'["blinds"].at = l /\ task'["blinds"].dir = task["blinds"].dir
    <3>1. task["blinds"] \in TaskRecord
      OBVIOUS
    <3>2. ASSUME NEW l, Goto("blinds", l)
          PROVE  task'["blinds"].at = l /\ task'["blinds"].dir = task["blinds"].dir
      <4>1. task'["blinds"] = [task["blinds"] EXCEPT !.at = l]
        BY <3>2 DEF Goto
      <4>2. QED
        BY <3>1, <4>1 DEF TaskRecord
    <3>3. QED
      BY <3>2
  <2>2. CASE StartCounter
    BY <2>1, <2>2, Effects DEF StartCounter, StartFails
  <2>3. CASE EnableOutput
    BY <2>1, <2>3, Effects DEF EnableOutput, StartFails
  <2>4. QED
    BY <2>2, <2>3
<1>3. rmt'.queue = << >> /\ OnCounts'
  <2>1. CASE StartCounter
    BY <1>1, <2>1 DEF StartCounter, OnCounts
  <2>2. CASE EnableOutput
    <3>1. pcnt.running /\ UNCHANGED pcnt
      BY <2>2 DEF EnableOutput, At, AccountInv, LaunchReady
    <3>2. rmt'.queue = << >>
      BY <1>1, <2>2 DEF EnableOutput
    <3>3. QED
      BY <3>1, <3>2 DEF OnCounts
  <2>3. QED
    BY <2>1, <2>2
<1>4. StoppedQuiet' /\ Tracks' /\ Stands'
  BY <1>1, <1>3 DEF PositionInv, StoppedQuiet, Tracks, Stands
<1>5. Sound("blinds")'
  BY <1>1, <1>2 DEF PositionInv, Sound
<1>6. Sound("refill")'
  BY <1>1, <1>2 DEF Sound, Others
<1>7. QED
  BY <1>3, <1>4, <1>5, <1>6 DEF PositionInv

LEMMA LaunchPosition ==
  ASSUME IInv, StillInv, AccountInv, PositionInv, Launch
  PROVE  PositionInv'
<1> USE Numbers
<1>1. /\ Others("blinds") /\ task["blinds"].at = "launch" /\ task'["blinds"].at = "reserve"
      /\ UNCHANGED <<rmt, pcnt, shaft>>
  BY Effects DEF Launch, At
<1>2. /\ motor'.state = task["blinds"].dir /\ motor'.from = motor.step
      /\ motor'.step = motor.step /\ motor.step \in Int
  BY DEF Launch, MotorRecord
<1>3. task["blinds"].dir \in {"UP", "DOWN"}
  BY DEF TaskRecord
<1>4. pcnt.running /\ pcnt.count = 0 /\ motor.step = shaft.at /\ shaft.up = (task["blinds"].dir = "UP")
  BY <1>1 DEF AccountInv, LaunchReady, PositionInv, Stands, Sound, StillInv, LaunchAlone,
     BeforeLaunch
<1>5. OnCounts' /\ StoppedQuiet' /\ Tracks' /\ Stands'
  BY <1>1, <1>2, <1>3, <1>4
  DEF PositionInv, OnCounts, StoppedQuiet, Tracks, Stands, PositionFromCount
<1>6. task'["refill"] = task["refill"] /\ task["refill"].at \in {"home", "release", "reserve", "filled"}
  BY <1>1 DEF Others, StillInv, LaunchAlone, BeforeLaunch
<1>7. Sound("blinds")' /\ Sound("refill")'
  BY <1>1, <1>6 DEF Sound
<1>8. QED
  BY <1>5, <1>7 DEF PositionInv

-----------------------------------------------------------------------------
(* The peripheral. *)
LEMMA PulsePosition ==
  ASSUME IInv, StillInv, PositionInv, Pulse
  PROVE  PositionInv'
<1> USE Numbers
<1>1. /\ rmt.enabled /\ rmt.queue # << >> /\ rmt'.enabled = rmt.enabled
      /\ UNCHANGED <<motor, task>> /\ pcnt.running /\ motor.state # "STOPPED"
  BY DEF Pulse, PositionInv, OnCounts, StoppedQuiet
<1>2. /\ pcnt'.running /\ pcnt'.count = pcnt.count + 1 /\ pcnt.count \in Nat
      /\ shaft'.up = shaft.up /\ shaft'.at = shaft.at + (IF shaft.up THEN 1 ELSE -1)
      /\ shaft.at \in Int /\ motor.from \in Int
  <2>1. pcnt \in [running : BOOLEAN, count : Nat] /\ shaft \in [up : BOOLEAN, at : Int]
    BY DEF IInv, Typed
  <2>2. QED
    BY <1>1, <2>1 DEF Pulse, MotorRecord
<1>3. motor.state \in {"UP", "DOWN"}
  BY <1>1 DEF MotorRecord, MotorState
<1>4. Tracks'
  <2>1. /\ shaft.up = (motor.state = "UP")
        /\ shaft.at = PositionFromCount(motor.from, motor.state, pcnt.count)
    BY <1>1 DEF PositionInv, Tracks
  <2>2. shaft'.at = PositionFromCount(motor.from, motor.state, pcnt'.count)
    <3>1. CASE motor.state = "UP"
      <4>1. shaft.up
        BY <2>1, <3>1, Zenon
      <4>2. shaft.at = motor.from + pcnt.count /\ shaft'.at = shaft.at + 1
        BY <1>2, <2>1, <3>1, <4>1 DEF PositionFromCount
      <4>3. QED
        BY <1>2, <3>1, <4>2 DEF PositionFromCount
    <3>2. CASE motor.state = "DOWN"
      <4>1. ~ shaft.up
        BY <2>1, <3>2, Zenon
      <4>2. shaft.at = motor.from - pcnt.count /\ shaft'.at = shaft.at + (-1)
        BY <1>2, <2>1, <3>2, <4>1 DEF PositionFromCount
      <4>3. QED
        BY <1>2, <3>2, <4>2 DEF PositionFromCount
    <3>3. QED
      BY <1>3, <3>1, <3>2
  <2>3. motor' = motor
    BY <1>1
  <2>4. shaft'.up = (motor.state = "UP")
    BY <1>2, <2>1, Zenon
  <2>5. QED
    BY <2>2, <2>3, <2>4, Zenon DEF Tracks, PositionFromCount
<1>5. OnCounts' /\ StoppedQuiet' /\ Stands'
  BY <1>1, <1>2 DEF OnCounts, StoppedQuiet, Stands
<1>6. \A u \in Tasks : Sound(u)'
  BY <1>1, <1>2 DEF PositionInv, Sound
<1>7. QED
  BY <1>4, <1>5, <1>6 DEF PositionInv

LEMMA TransactionDonePosition ==
  ASSUME IInv, PositionInv, TransactionDone
  PROVE  PositionInv'
<1> USE Numbers
<1>1. /\ rmt.queue # << >> /\ rmt'.enabled = rmt.enabled
      /\ UNCHANGED <<motor, task, pcnt, shaft>>
  BY DEF TransactionDone
<1>2. OnCounts' /\ StoppedQuiet' /\ Tracks' /\ Stands'
  BY <1>1 DEF PositionInv, OnCounts, StoppedQuiet, Tracks, Stands
<1>3. \A u \in Tasks : Sound(u)'
  BY <1>1 DEF PositionInv, Sound
<1>4. QED
  BY <1>2, <1>3 DEF PositionInv

-----------------------------------------------------------------------------
LEMMA PositionInvInit == Init => PositionInv
<1> SUFFICES ASSUME Init PROVE PositionInv
  OBVIOUS
<1>1. /\ motor.state = "STOPPED" /\ motor.step = 0 /\ shaft.at = 0
      /\ ~ rmt.enabled /\ rmt.queue = << >>
      /\ \A t \in Tasks : task[t].at = "home"
  BY DEF Init, IdleTask
<1>2. OnCounts /\ StoppedQuiet /\ Tracks /\ Stands
  BY <1>1 DEF OnCounts, StoppedQuiet, Tracks, Stands
<1>3. \A t \in Tasks : Sound(t)
  BY <1>1 DEF Sound
<1>4. QED
  BY <1>2, <1>3 DEF PositionInv

LEMMA PositionInvNext ==
  ASSUME IInv, StillInv, AccountInv, PositionInv, trouble' = {}, [Next]_vars
  PROVE  PositionInv'
<1>1. ASSUME NEW t \in Tasks, Procedure(t) PROVE PositionInv'
  BY <1>1, RefreshPositions, DisableOutputPosition, RefreshPositionPosition, StopCounterPosition,
     QuietPosition, TransmitPosition, RestPosition DEF Procedure
<1>2. CASE BlindsStep
  BY <1>1, <1>2, RestPosition, AimPosition, StartPosition, LaunchPosition, QuietPosition
  DEF BlindsStep, Tasks
<1>3. CASE RefillStep
  BY <1>1, <1>3, QuietPosition DEF RefillStep, Tasks
<1>4. CASE UNCHANGED vars
  BY <1>4 DEF vars, PositionInv, OnCounts, StoppedQuiet, Tracks, Stands, Sound
<1>5. CASE Stop \/ \E target \in 0..MaxStep : Move(target)
  BY <1>5, QuietPosition DEF Tasks
<1>6. QED
  BY <1>2, <1>3, <1>4, <1>5, PulsePosition, TransactionDonePosition DEF Next

-----------------------------------------------------------------------------
(* Arrival.                                                                *)
(* A movement is aimed from where the shaft is at its target. *)
AimTrue ==
  BeforeLaunch =>
    /\ task["blinds"].at \notin {"count", "position"}
    /\ task["blinds"].dir = IF motor.target >= motor.step THEN "UP" ELSE "DOWN"
    /\ task["blinds"].at \in {"startCounter", "enable", "launch"} =>
         task["blinds"].distance = Distance(motor.target, motor.step)

(* The pulses of a movement end at its target. *)
TargetAhead ==
  motor.state # "STOPPED" =>
    motor.target = PositionFromCount(motor.from, motor.state, motor.pulses)

(* A failure has been told of, or the Blinds task is about to report it. *)
FailureTold == report \cap {"FAULT", "OVERFLOW"} # {}

Excused == Failing("blinds") \/ FailureTold

(* Task t has begun to complete the movement and is to report it. *)
Done(t) == Ending(t, "completed") \/ task[t].at \in {"completed", "limit"}

Arrived ==
  /\ Done("blinds") => shaft.at = motor.target
  /\ Done("refill") => shaft.at = motor.target \/ Excused

Reported ==
  "LIMIT_REACHED" \in report =>
    /\ motor.state = "STOPPED" /\ ~ BeforeLaunch
    /\ shaft.at = motor.target \/ Excused

ArrivalInv == AimTrue /\ TargetAhead /\ Arrived /\ Reported

(* What a step of task t has to show. *)
Achieved(t) == shaft.at = motor.target \/ (t = "refill" /\ Excused)

(* A step of task t during which the shaft stands. *)
LEMMA Onward ==
  ASSUME StillInv, ArrivalInv, NEW t \in Tasks, Others(t), shaft'.at = shaft.at,
         motor'.target = motor.target,
         \/ motor'.state = "STOPPED"
         \/ motor'.state = motor.state /\ motor'.from = motor.from /\ motor'.pulses = motor.pulses,
         motor'.step = motor.step \/ (~ BeforeLaunch /\ ~ BeforeLaunch'),
         FailureTold => FailureTold',
         "LIMIT_REACHED" \in report' =>
           "LIMIT_REACHED" \in report \/ (motor.state = "STOPPED" /\ ~ BeforeLaunch /\ Achieved(t)),
         Done(t)' => Done(t) \/ Achieved(t),
         t = "blinds" /\ BeforeLaunch' =>
           /\ BeforeLaunch /\ task'[t].dir = task[t].dir /\ task'[t].at \notin {"count", "position"}
           /\ task'[t].at \in {"startCounter", "enable", "launch"} =>
                task'[t].distance = Distance(motor.target, motor.step),
         t = "blinds" /\ Failing(t) => Failing(t)' \/ FailureTold'
  PROVE  ArrivalInv'
<1>1. BeforeLaunch' => BeforeLaunch
  BY DEF BeforeLaunch, Ending, Others, Tasks
<1>2. Excused => Excused'
  BY DEF Excused, Failing, Ending, Others, Tasks
<1>3. AimTrue'
  <2>1. CASE ~ BeforeLaunch'
    BY <2>1 DEF AimTrue
  <2>2. CASE BeforeLaunch'
    <3>1. AimTrue /\ BeforeLaunch /\ motor'.step = motor.step
      BY <1>1, <2>2 DEF ArrivalInv
    <3>2. CASE t = "blinds"
      BY <2>2, <3>1, <3>2 DEF AimTrue, Distance
    <3>3. CASE t # "blinds"
      <4>1. task'["blinds"] = task["blinds"]
        BY <3>3 DEF Others, Tasks
      <4>2. QED
        BY <3>1, <4>1 DEF AimTrue, Distance
    <3>4. QED
      BY <3>2, <3>3
  <2>3. QED
    BY <2>1, <2>2
<1>4. TargetAhead'
  BY DEF ArrivalInv, TargetAhead, PositionFromCount
<1>5. Arrived'
  <2>1. CASE t = "blinds"
    <3>1. Done("refill")' = Done("refill")
      BY <2>1 DEF Others, Done, Ending, Tasks
    <3>2. Done("blinds")' => shaft.at = motor.target
      BY <2>1 DEF ArrivalInv, Arrived, Achieved
    <3>3. QED
      BY <1>2, <3>1, <3>2 DEF ArrivalInv, Arrived
  <2>2. CASE t = "refill"
    <3>1. Done("blinds")' = Done("blinds")
      BY <2>2 DEF Others, Done, Ending, Tasks
    <3>2. Done("refill")' => shaft.at = motor.target \/ Excused
      BY <2>2 DEF ArrivalInv, Arrived, Achieved
    <3>3. QED
      BY <1>2, <3>1, <3>2 DEF ArrivalInv, Arrived
  <2>3. QED
    BY <2>1, <2>2 DEF Tasks
<1>6. Reported'
  BY <1>1, <1>2 DEF ArrivalInv, Reported, Achieved
<1>7. QED
  BY <1>3, <1>4, <1>5, <1>6 DEF ArrivalInv

LEMMA GotoKeeps ==
  ASSUME task \in [Tasks -> TaskRecord], NEW t \in Tasks, NEW l, Goto(t, l)
  PROVE  /\ Others(t) /\ task'[t].at = l /\ task'[t].then = task[t].then
         /\ task'[t].dir = task[t].dir /\ task'[t].distance = task[t].distance
<1>1. Others(t) /\ task'[t] = [task[t] EXCEPT !.at = l]
  BY DEF Goto, Others
<1>2. task[t] \in TaskRecord
  OBVIOUS
<1>3. QED
  BY <1>1, <1>2 DEF TaskRecord

TeardownStep(t) ==
  \/ ReadActive(t) \/ DisableOutput(t) \/ ResetBuffers(t) \/ RefreshRead(t) \/ ReadCount(t)
  \/ RefreshPosition(t) \/ StopCounter(t)

(* stopPulseHardware() with no call failing. *)
LEMMA TeardownEffect ==
  ASSUME IInv, StillInv, trouble' = {}, NEW t \in Tasks, TeardownStep(t)
  PROVE  /\ Others(t) /\ task[t].at \in Teardown /\ task'[t].then = task[t].then
         /\ task'[t].dir = task[t].dir /\ task'[t].distance = task[t].distance
         /\ task'[t].at \in Teardown \/ task'[t].at = task[t].then
         /\ task'[t].at = "count" => motor.state # "STOPPED"
         /\ task'[t].at = "position" => task[t].at = "count"
<1> USE Numbers
<1> DEFINE Kept == /\ Others(t) /\ task'[t].then = task[t].then
                   /\ task'[t].dir = task[t].dir /\ task'[t].distance = task[t].distance
<1>0. task[t] \in TaskRecord
  OBVIOUS
<1>1. CASE ReadActive(t)
  <2>1. task'[t] = [task[t] EXCEPT !.at = "disable", !.recreate = ring.active > 0] /\ Others(t)
    BY <1>1 DEF ReadActive, Others
  <2>2. Kept /\ task'[t].at = "disable"
    BY <1>0, <2>1 DEF TaskRecord
  <2>3. QED
    BY <1>1, <2>2 DEF ReadActive, At, Teardown
<1>2. CASE DisableOutput(t)
  <2>1. Kept /\ task'[t].at = "reset"
    BY <1>2, GotoKeeps DEF DisableOutput
  <2>2. QED
    BY <1>2, <2>1 DEF DisableOutput, At, Teardown
<1>3. CASE ResetBuffers(t)
  <2>1. Kept /\ task'[t].at = "refresh"
    BY <1>3, GotoKeeps DEF ResetBuffers
  <2>2. QED
    BY <1>3, <2>1 DEF ResetBuffers, At, Teardown
<1>4. CASE RefreshRead(t)
  <2>1. CASE Goto(t, "stopCounter")
    <3>1. Kept /\ task'[t].at = "stopCounter"
      BY <2>1, GotoKeeps
    <3>2. QED
      BY <1>4, <3>1 DEF RefreshRead, At, Teardown
  <2>2. CASE ~ Goto(t, "stopCounter")
    <3>1. /\ motor.state # "STOPPED" /\ Others(t)
          /\ task'[t] = [task[t] EXCEPT !.at = "count", !.state = motor.state, !.from = motor.from]
      BY <1>4, <2>2 DEF RefreshRead, Others
    <3>2. Kept /\ task'[t].at = "count"
      BY <1>0, <3>1 DEF TaskRecord
    <3>3. QED
      BY <1>4, <3>1, <3>2 DEF RefreshRead, At, Teardown
  <2>3. QED
    BY <2>1, <2>2
<1>5. CASE ReadCount(t)
  <2>1. PICK s : Others(t) /\ task'[t] = [task[t] EXCEPT !.at = "position", !.step = s]
    BY <1>5 DEF ReadCount, Others
  <2>2. Kept /\ task'[t].at = "position"
    BY <1>0, <2>1 DEF TaskRecord
  <2>3. QED
    BY <1>5, <2>2 DEF ReadCount, At, Teardown
<1>6. CASE RefreshPosition(t)
  <2>1. Kept /\ task'[t].at = "stopCounter"
    BY <1>6, GotoKeeps DEF RefreshPosition
  <2>2. QED
    BY <1>6, <2>1 DEF RefreshPosition, At, Teardown
<1>7. CASE StopCounter(t)
  <2>1. Kept /\ task'[t].at = task[t].then /\ task[t].at = "stopCounter"
    BY <1>7, GotoKeeps DEF StopCounter, At
  <2>2. task[t].then \in {"completed", "failed", "aim", "stopped"}
    BY <2>1 DEF StillInv, Places, Teardown
  <2>3. QED
    BY <2>1, <2>2 DEF Teardown
<1>8. QED
  BY <1>1, <1>2, <1>3, <1>4, <1>5, <1>6, <1>7 DEF TeardownStep

LEMMA TeardownArrival ==
  ASSUME IInv, StillInv, ArrivalInv, trouble' = {}, NEW t \in Tasks, TeardownStep(t)
  PROVE  ArrivalInv'
<1> USE Numbers
<1>1. /\ Others(t) /\ task[t].at \in Teardown /\ task'[t].then = task[t].then
      /\ task'[t].dir = task[t].dir /\ task'[t].distance = task[t].distance
      /\ task'[t].at \in Teardown \/ task'[t].at = task[t].then
      /\ task'[t].at = "count" => motor.state # "STOPPED"
      /\ task'[t].at = "position" => task[t].at = "count"
  BY TeardownEffect
<1>2. task[t].then \in {"completed", "failed", "aim", "stopped"}
  BY <1>1 DEF StillInv, Places
<1>3. /\ UNCHANGED <<shaft, report>>
      /\ motor'.target = motor.target /\ motor'.state = motor.state
      /\ motor'.from = motor.from /\ motor'.pulses = motor.pulses
      /\ motor'.step = motor.step \/ task[t].at = "position"
  BY DEF TeardownStep, ReadActive, DisableOutput, ResetBuffers, RefreshRead, ReadCount,
         RefreshPosition, StopCounter, At, MotorRecord
<1>4. Done(t)' => Done(t)
  BY <1>1, <1>2 DEF Done, Ending, Teardown
<1>5. Failing(t) => Failing(t)'
  BY <1>1, <1>2 DEF Failing, Ending, Teardown
<1>6. t = "blinds" /\ BeforeLaunch' => BeforeLaunch /\ task[t].then = "aim"
  BY <1>1, <1>2 DEF BeforeLaunch, Ending, Teardown
<1>7. t = "blinds" /\ BeforeLaunch' =>
        /\ task'[t].at \notin {"count", "position"}
        /\ task'[t].at \notin {"startCounter", "enable", "launch"}
  BY <1>1, <1>6 DEF ArrivalInv, AimTrue, StillInv, LaunchAlone, Teardown
<1>8. motor'.step = motor.step \/ (~ BeforeLaunch /\ ~ BeforeLaunch')
  <2>1. SUFFICES ASSUME task[t].at = "position" PROVE ~ BeforeLaunch /\ ~ BeforeLaunch'
    BY <1>3
  <2>2. ~ BeforeLaunch
    <3>1. CASE t = "blinds"
      BY <2>1, <3>1 DEF ArrivalInv, AimTrue
    <3>2. CASE t = "refill"
      BY <2>1, <3>2 DEF StillInv, LaunchAlone
    <3>3. QED
      BY <3>1, <3>2
  <2>3. BeforeLaunch' => BeforeLaunch
    BY <1>1, <1>6 DEF BeforeLaunch, Ending, Others
  <2>4. QED
    BY <2>2, <2>3
<1>9. QED
  BY <1>1, <1>3, <1>4, <1>5, <1>6, <1>7, <1>8, Onward DEF FailureTold

(* fillRmtQueue(), and the refill task about it: nothing is done with, and *)
(* nothing has failed before.                                              *)
FillStep(t) ==
  \/ ReserveBuffer(t) \/ Transmit(t) \/ TransmitRefused(t)
  \/ t = "blinds" /\ Launched
  \/ t = "refill" /\ (Wake \/ Release \/ Refilled)

LEMMA FillEffect ==
  ASSUME IInv, NEW t \in Tasks, FillStep(t)
  PROVE  /\ Others(t)
         /\ task[t].at \in {"reserve", "transmit", "refused", "filled", "home", "release"}
         /\ \/ task'[t].at \in {"home", "reserve", "transmit", "refused", "filled", "complete", "release"}
            \/ task'[t].at = "readActive" /\ task'[t].then = "failed"
         /\ UNCHANGED <<shaft, report>>
         /\ motor'.target = motor.target /\ motor'.state = motor.state /\ motor'.step = motor.step
         /\ motor'.from = motor.from /\ motor'.pulses = motor.pulses /\ motor'.abort = motor.abort
<1> USE Numbers DEF FillStep
<1>1. /\ Others(t)
      /\ task[t].at \in {"reserve", "transmit", "refused", "filled", "home", "release"}
      /\ \/ task'[t].at \in {"home", "reserve", "transmit", "refused", "filled", "complete", "release"}
         \/ task'[t].at = "readActive" /\ task'[t].then = "failed"
  <2>1. CASE ReserveBuffer(t)
    <3>1. ASSUME NEW n,
                 task' = [task EXCEPT ![t].at = "transmit", ![t].buffer = ring.put, ![t].count = n]
          PROVE  Others(t) /\ task'[t].at = "transmit"
      <4>1. /\ Others(t)
            /\ task'[t] = [task[t] EXCEPT !.at = "transmit", !.buffer = ring.put, !.count = n]
        BY <3>1 DEF Others
      <4>2. task[t] \in TaskRecord
        OBVIOUS
      <4>3. QED
        BY <4>1, <4>2 DEF TaskRecord
    <3>2. CASE Goto(t, "filled") \/ Fails(t)
      BY <2>1, <3>2, Effects DEF ReserveBuffer, Fails, At
    <3>3. QED
      BY <2>1, <3>1, <3>2 DEF ReserveBuffer, At
  <2>2. CASE Transmit(t)
    BY <2>2, Effects DEF Transmit, At
  <2>3. CASE TransmitRefused(t)
    BY <2>3, Effects DEF TransmitRefused, Fails, At
  <2>4. CASE t = "blinds" /\ Launched
    BY <2>4, Effects DEF Launched, At
  <2>5. CASE t = "refill" /\ (Wake \/ Release \/ Refilled)
    BY <2>5, Effects DEF Wake, Release, Refilled, At
  <2>6. QED
    BY <2>1, <2>2, <2>3, <2>4, <2>5
<1>2. /\ UNCHANGED <<shaft, report>>
      /\ motor'.target = motor.target /\ motor'.state = motor.state /\ motor'.step = motor.step
      /\ motor'.from = motor.from /\ motor'.pulses = motor.pulses /\ motor'.abort = motor.abort
  <2>1. CASE UNCHANGED motor
    BY <2>1 DEF ReserveBuffer, Transmit, TransmitRefused, Launched, Wake, Release, Refilled
  <2>2. CASE ~ UNCHANGED motor
    <3>1. UNCHANGED <<shaft, report>> /\ \E n : motor' = [motor EXCEPT !.reserved = @ + n]
      BY <2>2 DEF ReserveBuffer, Transmit, TransmitRefused, Launched, Wake, Release, Refilled
    <3>2. QED
      BY <3>1 DEF MotorRecord
  <2>3. QED
    BY <2>1, <2>2
<1>3. QED
  BY <1>1, <1>2

LEMMA StopEffect ==
  ASSUME IInv, Stop
  PROVE  /\ Others("blinds") /\ task["blinds"].at = "home"
         /\ task'["blinds"].at = "readActive" /\ task'["blinds"].then = "stopped"
         /\ UNCHANGED <<shaft, report>> /\ motor'.abort
         /\ motor'.target = motor.target /\ motor'.state = motor.state /\ motor'.step = motor.step
         /\ motor'.from = motor.from /\ motor'.pulses = motor.pulses
<1> USE Numbers
<1>1. /\ Others("blinds") /\ task["blinds"].at = "home"
      /\ task'["blinds"].at = "readActive" /\ task'["blinds"].then = "stopped"
  BY Effects DEF Stop, At
<1>2. QED
  BY <1>1 DEF Stop, MotorRecord

LEMMA FillArrival ==
  ASSUME IInv, StillInv, ArrivalInv, NEW t \in Tasks, FillStep(t) \/ (t = "blinds" /\ Stop)
  PROVE  ArrivalInv'
<1> USE Numbers
<1>1. /\ Others(t)
      /\ task[t].at \in {"reserve", "transmit", "refused", "filled", "home", "release"}
      /\ \/ task'[t].at \in {"home", "reserve", "transmit", "refused", "filled", "complete", "release"}
         \/ task'[t].at = "readActive" /\ task'[t].then \in {"failed", "stopped"}
      /\ UNCHANGED <<shaft, report>>
      /\ motor'.target = motor.target /\ motor'.state = motor.state /\ motor'.step = motor.step
      /\ motor'.from = motor.from /\ motor'.pulses = motor.pulses
  BY FillEffect, StopEffect
<1>2. ~ Done(t)' /\ ~ Failing(t) /\ (t = "blinds" => ~ BeforeLaunch')
  BY <1>1 DEF Done, Failing, BeforeLaunch, Ending, Teardown
<1>3. QED
  BY <1>1, <1>2, Onward DEF FailureTold

(* A movement is only completed where it was to go, or after a failure.    *)
LEMMA BeginCompletionArrival ==
  ASSUME IInv, StillInv, AccountInv, PositionInv, ArrivalInv, NEW t \in Tasks, BeginCompletion(t)
  PROVE  ArrivalInv'
<1> USE Numbers
<1>1. task[t].at = "complete" /\ Others(t) /\ UNCHANGED <<shaft, report>>
  BY Effects DEF BeginCompletion, At
<1>2. \/ task'[t].at = "home" /\ UNCHANGED motor
      \/ /\ task'[t].at = "readActive" /\ task'[t].then = "completed"
         /\ motor' = [motor EXCEPT !.limit = TRUE]
         /\ motor.state # "STOPPED" /\ ~ motor.limit /\ ~ motor.abort
  BY Effects DEF BeginCompletion
<1>3. /\ motor'.target = motor.target /\ motor'.state = motor.state /\ motor'.step = motor.step
      /\ motor'.from = motor.from /\ motor'.pulses = motor.pulses
  BY <1>2 DEF MotorRecord
<1>4. ASSUME motor.state # "STOPPED", pcnt.count = motor.pulses PROVE shaft.at = motor.target
  BY <1>4 DEF PositionInv, Tracks, ArrivalInv, TargetAhead
<1>5. Done(t)' => Achieved(t)
  <2>1. SUFFICES ASSUME motor.state # "STOPPED", ~ motor.limit, ~ motor.abort
                 PROVE  Achieved(t)
    BY <1>2 DEF Done, Ending, Teardown
  <2>2. CASE t = "blinds"
    <3>1. motor.pulses = 0
      BY <1>1, <2>2 DEF AccountInv, AllOut
    <3>2. PICK n \in 0..motor.reserved :
            Makes(rmt.queue, pcnt.count, n) /\ n + Owing <= motor.reserved
      BY <2>1 DEF AccountInv, Budget
    <3>3. pcnt.count \in Nat /\ pcnt.count <= n
      BY <3>2, MakesTyped
    <3>4. pcnt.count = motor.pulses
      BY <3>1, <3>2, <3>3 DEF IInv, ReservedWithin
    <3>5. QED
      BY <1>4, <2>1, <3>4 DEF Achieved
  <2>3. CASE t = "refill"
    <3>1. CASE Live
      BY <1>1, <1>4, <2>1, <2>3, <3>1 DEF Achieved, AccountInv, AllOut
    <3>2. CASE ~ Live
      <4>1. ~ Failing("refill")
        BY <1>1, <2>3 DEF Failing, Ending, Teardown
      <4>2. Failing("blinds")
        BY <2>1, <3>2, <4>1 DEF Live
      <4>3. QED
        BY <2>3, <4>2 DEF Achieved, Excused
    <3>3. QED
      BY <3>1, <3>2
  <2>4. QED
    BY <2>2, <2>3
<1>6. ~ Failing(t) /\ (t = "blinds" => ~ BeforeLaunch')
  BY <1>1, <1>2 DEF Failing, BeforeLaunch, Ending, Teardown
<1>7. QED
  BY <1>1, <1>3, <1>5, <1>6, Onward DEF FailureTold

(* A task that ends a movement takes no part in the start of another. *)
LEMMA EndsOutside ==
  ASSUME StillInv, NEW t \in Tasks, task[t].at \in {"completed", "limit", "failed", "stopped"}
  PROVE  ~ BeforeLaunch
<1>1. CASE t = "blinds"
  BY <1>1 DEF BeforeLaunch, Ending, Teardown
<1>2. CASE t = "refill"
  BY <1>2 DEF StillInv, LaunchAlone
<1>3. QED
  BY <1>1, <1>2 DEF Tasks

LEMMA RestArrival ==
  ASSUME IInv, StillInv, ArrivalInv, NEW t \in Tasks,
         EndCompletion(t) \/ EndFailure(t) \/ (t = "blinds" /\ Stopped)
  PROVE  ArrivalInv'
<1> USE Numbers
<1>1. /\ Others(t) /\ task[t].at \in {"completed", "failed", "stopped"}
      /\ \/ task'[t].at = "limit" /\ task[t].at = "completed"
         \/ task'[t].at = "home"
         \/ task'[t].at = "readActive" /\ task'[t].then = "failed"
  <2>1. CASE EndCompletion(t)
    BY <2>1, Effects DEF EndCompletion, CompletionFails, Fails, At
  <2>2. CASE EndFailure(t)
    BY <2>2, Effects DEF EndFailure, At
  <2>3. CASE t = "blinds" /\ Stopped
    BY <2>3 DEF Stopped, IdleTask, Others, At
  <2>4. QED
    BY <2>1, <2>2, <2>3
<1>2. /\ motor'.state = "STOPPED" /\ motor'.step = motor.step /\ motor'.target = motor.target
      /\ UNCHANGED shaft
  BY DEF EndCompletion, EndFailure, Stopped, Cleared, MotorRecord
<1>3. /\ FailureTold => FailureTold'
      /\ "LIMIT_REACHED" \in report' => "LIMIT_REACHED" \in report
      /\ task[t].at = "failed" => FailureTold'
  BY DEF EndCompletion, EndFailure, Stopped, FailureTold, At
<1>4. /\ Done(t)' => Done(t)
      /\ Failing(t) => FailureTold'
      /\ t = "blinds" => ~ BeforeLaunch'
  BY <1>1, <1>3 DEF Done, Failing, BeforeLaunch, Ending, Teardown
<1>5. QED
  BY <1>1, <1>2, <1>3, <1>4, Onward

LEMMA SendLimitReachedArrival ==
  ASSUME IInv, StillInv, ArrivalInv, NEW t \in Tasks, SendLimitReached(t)
  PROVE  ArrivalInv'
<1> USE Numbers
<1>1. /\ task[t].at = "limit" /\ Others(t) /\ UNCHANGED <<motor, shaft>>
      /\ \/ task'[t].at = "home"
         \/ task'[t].at = "readActive" /\ task'[t].then = "failed"
      /\ FailureTold => FailureTold'
  BY Effects DEF SendLimitReached, CompletionFails, Fails, FailureTold, At
<1>2. ~ Done(t)' /\ ~ Failing(t) /\ (t = "blinds" => ~ BeforeLaunch')
  BY <1>1 DEF Done, Failing, BeforeLaunch, Ending, Teardown
<1>3. motor.state = "STOPPED" /\ ~ BeforeLaunch /\ Achieved(t)
  BY <1>1, EndsOutside DEF StillInv, Ends, ArrivalInv, Arrived, Achieved, Done
<1>4. QED
  BY <1>1, <1>2, <1>3, Onward

(* move() is called with the motor at rest and both tasks done. *)
LEMMA MoveArrival ==
  ASSUME IInv, StillInv, ArrivalInv, trouble' = {},
         NEW target \in 0..MaxStep, Move(target)
  PROVE  ArrivalInv'
<1> USE Numbers
<1>1. /\ motor.state = "STOPPED" /\ task["blinds"].at = "home"
      /\ task["refill"].at \in {"home", "release", "reserve", "filled"}
      /\ report' = {} /\ UNCHANGED shaft
  BY DEF Move, FromRest, At
<1>2. motor'.target = target /\ motor'.state = motor.state /\ motor'.step = motor.step
  BY DEF Move, MotorRecord
<1>3. /\ task'["blinds"].at = "readActive" /\ task'["blinds"].then = "aim"
      /\ task'["blinds"].dir = IF target >= motor.step THEN "UP" ELSE "DOWN"
      /\ task'["refill"] = task["refill"]
  BY <1>1 DEF Move, IdleTask, CurrentStep
<1>4. AimTrue'
  BY <1>2, <1>3 DEF AimTrue
<1>5. TargetAhead' /\ Reported'
  BY <1>1, <1>2 DEF TargetAhead, Reported
<1>6. Arrived'
  BY <1>1, <1>3 DEF Arrived, Done, Ending, Teardown
<1>7. QED
  BY <1>4, <1>5, <1>6 DEF ArrivalInv

LEMMA StartArrival ==
  ASSUME IInv, StillInv, ArrivalInv, Aim \/ StartCounter \/ EnableOutput
  PROVE  ArrivalInv'
<1> USE Numbers
<1> DEFINE t == "blinds"
<1>1. /\ task[t].at \in {"aim", "startCounter", "enable"} /\ BeforeLaunch
      /\ UNCHANGED <<motor, report>>
  BY DEF Aim, StartCounter, EnableOutput, At, BeforeLaunch
<1>2. shaft'.at = shaft.at
  <2>1. shaft \in [up : BOOLEAN, at : Int]
    BY DEF IInv, Typed
  <2>2. UNCHANGED shaft \/ \E u : shaft' = [shaft EXCEPT !.up = u]
    BY DEF Aim, StartCounter, EnableOutput
  <2>3. QED
    BY <2>1, <2>2
<1>3. /\ Others(t)
      /\ \/ task'[t].at = "home"
         \/ /\ task'[t].at \in {"startCounter", "enable", "launch"} /\ task'[t].dir = task[t].dir
            /\ task'[t].distance = Distance(motor.target, motor.step)
  <2>1. CASE Aim
    <3>1. ASSUME NEW k, task' = [task EXCEPT ![t].at = "startCounter", ![t].distance = k]
          PROVE  /\ Others(t) /\ task'[t].at = "startCounter" /\ task'[t].distance = k
                 /\ task'[t].dir = task[t].dir
      <4>1. Others(t) /\ task'[t] = [task[t] EXCEPT !.at = "startCounter", !.distance = k]
        BY <3>1 DEF Others
      <4>2. task[t] \in TaskRecord
        OBVIOUS
      <4>3. QED
        BY <4>1, <4>2 DEF TaskRecord
    <3>2. CASE StartFails
      BY <3>2, Effects DEF StartFails
    <3>3. QED
      BY <2>1, <3>1, <3>2 DEF Aim
  <2>2. CASE ~ Aim
    <3>1. CASE StartFails
      BY <3>1, Effects DEF StartFails
    <3>2. CASE Goto(t, "enable") \/ Goto(t, "launch")
      <4>1. task[t].at \in {"startCounter", "enable", "launch"}
        BY <2>2 DEF StartCounter, EnableOutput, At
      <4>2. task[t].distance = Distance(motor.target, motor.step)
        BY <1>1, <4>1 DEF ArrivalInv, AimTrue
      <4>3. QED
        BY <3>2, <4>2, GotoKeeps
    <3>3. QED
      BY <2>2, <3>1, <3>2 DEF StartCounter, EnableOutput
  <2>3. QED
    BY <2>1, <2>2
<1>4. ~ Done(t)' /\ ~ Failing(t)
  BY <1>1, <1>3 DEF Done, Failing, Ending, Teardown
<1>5. BeforeLaunch' => /\ task'[t].at \notin {"home", "count", "position"}
                       /\ task'[t].dir = task[t].dir
                       /\ task'[t].distance = Distance(motor.target, motor.step)
  BY <1>3 DEF BeforeLaunch, Ending, Teardown
<1>6. t \in Tasks
  OBVIOUS
<1> HIDE DEF t
<1>7. QED
  BY <1>1, <1>2, <1>3, <1>4, <1>5, <1>6, Onward DEF FailureTold

LEMMA LaunchArrival ==
  ASSUME IInv, StillInv, ArrivalInv, Launch
  PROVE  ArrivalInv'
<1> USE Numbers
<1>1. /\ BeforeLaunch /\ task["blinds"].at = "launch" /\ task'["blinds"].at = "reserve"
      /\ task'["refill"] = task["refill"] /\ UNCHANGED <<shaft, report>>
  BY Effects DEF Launch, At, BeforeLaunch, Others
<1>2. /\ motor'.target = motor.target /\ motor'.state = task["blinds"].dir
      /\ motor'.from = motor.step /\ motor'.pulses = task["blinds"].distance
      /\ motor.step \in Int /\ motor.target \in Int
  BY MotorAssumption DEF Launch, MotorRecord
<1>3. /\ task["blinds"].dir = IF motor.target >= motor.step THEN "UP" ELSE "DOWN"
      /\ task["blinds"].distance = Distance(motor.target, motor.step)
  BY <1>1 DEF ArrivalInv, AimTrue
<1>4. TargetAhead'
  <2>1. CASE motor.target >= motor.step
    BY <1>2, <1>3, <2>1 DEF TargetAhead, PositionFromCount, Distance
  <2>2. CASE ~ (motor.target >= motor.step)
    BY <1>2, <1>3, <2>2 DEF TargetAhead, PositionFromCount, Distance
  <2>3. QED
    BY <2>1, <2>2
<1>5. ~ BeforeLaunch' /\ ~ Done("blinds")' /\ ~ Done("refill")'
  BY <1>1 DEF StillInv, LaunchAlone, BeforeLaunch, Done, Ending, Teardown
<1>6. AimTrue' /\ Arrived' /\ Reported'
  BY <1>1, <1>5 DEF ArrivalInv, AimTrue, Arrived, Reported
<1>7. QED
  BY <1>4, <1>6 DEF ArrivalInv

(* No pulse comes out beyond the target. *)
LEMMA PulseWithin ==
  ASSUME IInv, StillInv, AccountInv, Pulse, motor.state # "STOPPED"
  PROVE  pcnt.count \in Nat /\ pcnt.count < motor.pulses
<1> USE Numbers
<1>1. PICK n \in 0..motor.reserved :
        Makes(rmt.queue, pcnt.count, n) /\ n + Owing <= motor.reserved
  BY DEF AccountInv, Budget
<1>2. pcnt.count \in Nat /\ rmt.queue \in Seq(Descriptor) /\ n \in Nat
  BY <1>1 DEF IInv, Typed
<1>3. rmt.queue # << >> /\ Head(rmt.queue).left > 0
      /\ rmt'.queue = [rmt.queue EXCEPT ![1].left = @ - 1]
  BY DEF Pulse
<1>4. pcnt.count + 1 <= n
  BY <1>1, <1>2, <1>3, MakesPulse
<1>5. QED
  BY <1>1, <1>2, <1>4 DEF IInv, ReservedWithin

LEMMA PulseArrival ==
  ASSUME IInv, StillInv, AccountInv, PositionInv, ArrivalInv, Pulse
  PROVE  ArrivalInv'
<1> USE Numbers
<1>1. rmt.queue # << >> /\ UNCHANGED <<motor, task, report>>
  BY DEF Pulse
<1>2. motor.state # "STOPPED"
  BY <1>1 DEF PositionInv, StoppedQuiet
<1>3. shaft.at # motor.target
  <2>1. /\ shaft.at = PositionFromCount(motor.from, motor.state, pcnt.count)
        /\ motor.target = PositionFromCount(motor.from, motor.state, motor.pulses)
    BY <1>2 DEF PositionInv, Tracks, ArrivalInv, TargetAhead
  <2>2. pcnt.count \in Nat /\ pcnt.count < motor.pulses /\ motor.from \in Int
    BY <1>2, PulseWithin DEF MotorRecord
  <2>3. QED
    BY <2>1, <2>2 DEF PositionFromCount
<1>4. AimTrue' /\ TargetAhead'
  BY <1>1 DEF ArrivalInv, AimTrue, BeforeLaunch, Ending, Distance, TargetAhead, PositionFromCount
<1>5. /\ Excused' <=> Excused
      /\ \A t \in Tasks : Done(t)' <=> Done(t)
  BY <1>1 DEF Excused, FailureTold, Failing, Done, Ending
<1>6. Arrived' /\ Reported'
  BY <1>1, <1>2, <1>3, <1>5 DEF ArrivalInv, Arrived, Reported
<1>7. QED
  BY <1>4, <1>6 DEF ArrivalInv

LEMMA UntouchedArrival ==
  ASSUME ArrivalInv, UNCHANGED <<motor, task, shaft, report>>
  PROVE  ArrivalInv'
<1>1. AimTrue' /\ TargetAhead'
  BY DEF ArrivalInv, AimTrue, BeforeLaunch, Ending, Distance, TargetAhead, PositionFromCount
<1>2. Arrived' /\ Reported'
  BY DEF ArrivalInv, Arrived, Reported, Excused, FailureTold, Failing, Done, BeforeLaunch, Ending
<1>3. QED
  BY <1>1, <1>2 DEF ArrivalInv

-----------------------------------------------------------------------------
LEMMA ArrivalInvInit == Init => ArrivalInv
<1> SUFFICES ASSUME Init PROVE ArrivalInv
  OBVIOUS
<1>1. motor.state = "STOPPED" /\ report = {} /\ \A t \in Tasks : task[t].at = "home"
  BY DEF Init, IdleTask
<1>2. task["blinds"].at = "home" /\ task["refill"].at = "home"
  BY <1>1 DEF Tasks
<1>3. QED
  BY <1>1, <1>2 DEF ArrivalInv, AimTrue, TargetAhead, Arrived, Reported, BeforeLaunch, Done,
     Ending, Teardown

LEMMA ArrivalInvNext ==
  ASSUME IInv, StillInv, AccountInv, PositionInv, ArrivalInv,
         trouble' = {}, [Next]_vars
  PROVE  ArrivalInv'
<1>1. ASSUME NEW t \in Tasks, Procedure(t) PROVE ArrivalInv'
  BY <1>1, TeardownArrival, FillArrival, BeginCompletionArrival, RestArrival,
     SendLimitReachedArrival DEF Procedure, TeardownStep, FillStep
<1>2. CASE BlindsStep
  BY <1>1, <1>2, RestArrival, StartArrival, LaunchArrival, FillArrival
  DEF BlindsStep, FillStep, Tasks
<1>3. CASE RefillStep
  BY <1>1, <1>3, FillArrival DEF RefillStep, FillStep, Tasks
<1>4. CASE TransactionDone \/ UNCHANGED vars
  BY <1>4, UntouchedArrival DEF TransactionDone, vars
<1>5. CASE Stop \/ \E target \in 0..MaxStep : Move(target)
  BY <1>5, FillArrival, MoveArrival DEF Tasks
<1>6. QED
  BY <1>2, <1>3, <1>4, <1>5, PulseArrival DEF Next

-----------------------------------------------------------------------------
(* The events of one movement.                                            *)
(* LIMIT_REACHED comes once at most, and no event of an earlier movement   *)
(* comes in while the next one starts.                                     *)
OnceInv ==
  /\ BeforeLaunch => report = {}
  /\ ~ (Done("blinds") /\ Done("refill"))
  /\ \A t \in Tasks : Done(t) => "LIMIT_REACHED" \notin report

(* A step of task t without an event. *)
LEMMA OnceOnward ==
  ASSUME OnceInv, NEW t \in Tasks, Others(t), UNCHANGED report, Done(t)' => Done(t),
         t = "blinds" /\ BeforeLaunch' => BeforeLaunch
  PROVE  OnceInv'
<1>1. \A u \in Tasks : u # t => (Done(u)' <=> Done(u))
  BY DEF Others, Done, Ending
<1>2. BeforeLaunch' => BeforeLaunch
  <2>1. CASE t = "blinds"
    BY <2>1
  <2>2. CASE t = "refill"
    BY <2>2 DEF Others, BeforeLaunch, Ending, Tasks
  <2>3. QED
    BY <2>1, <2>2 DEF Tasks
<1>3. \A u \in Tasks : Done(u)' => Done(u)
  BY <1>1
<1>4. QED
  BY <1>2, <1>3 DEF OnceInv, Tasks

LEMMA OnceCompletion ==
  ASSUME IInv, StillInv, AccountInv, ArrivalInv, OnceInv, NEW t \in Tasks, BeginCompletion(t)
  PROVE  OnceInv'
<1> USE Numbers
<1>1. task[t].at = "complete" /\ Others(t) /\ UNCHANGED report
  BY Effects DEF BeginCompletion, At
<1>2. CASE task'[t].at = "home"
  <2>1. ~ Done(t)' /\ (t = "blinds" => ~ BeforeLaunch')
    BY <1>2 DEF Done, BeforeLaunch, Ending, Teardown
  <2>2. QED
    BY <1>1, <2>1, OnceOnward
<1>3. CASE /\ task'[t].at = "readActive" /\ task'[t].then = "completed"
           /\ motor.state # "STOPPED" /\ ~ motor.limit
  <2>1. "LIMIT_REACHED" \notin report
    BY <1>3 DEF ArrivalInv, Reported
  <2>2. \A u \in Tasks : ~ Done(u)
    BY <1>3 DEF AccountInv, Marked, Marking, StillInv, Ends, Done
  <2>3. \A u \in Tasks : u # t => ~ Done(u)'
    BY <1>1, <2>2 DEF Others, Done, Ending
  <2>4. ~ BeforeLaunch'
    <3>1. ~ BeforeLaunch
      BY <1>3 DEF StillInv, LaunchAlone
    <3>2. CASE t = "blinds"
      BY <1>3, <3>2 DEF BeforeLaunch, Ending, Teardown
    <3>3. CASE t = "refill"
      BY <1>1, <3>1, <3>3 DEF BeforeLaunch, Ending, Others
    <3>4. QED
      BY <3>2, <3>3
  <2>5. QED
    BY <1>1, <2>1, <2>3, <2>4 DEF OnceInv
<1>4. QED
  BY <1>2, <1>3, Effects DEF BeginCompletion

LEMMA OnceEvent ==
  ASSUME IInv, StillInv, OnceInv, NEW t \in Tasks, SendLimitReached(t) \/ EndFailure(t)
  PROVE  OnceInv'
<1> USE Numbers
<1>1. /\ Others(t) /\ task[t].at \in {"limit", "failed"}
      /\ \/ task'[t].at = "home"
         \/ task'[t].at = "readActive" /\ task'[t].then = "failed"
  <2>1. CASE SendLimitReached(t)
    BY <2>1, Effects DEF SendLimitReached, CompletionFails, Fails, At
  <2>2. CASE EndFailure(t)
    BY <2>2, Effects DEF EndFailure, At
  <2>3. QED
    BY <2>1, <2>2
<1>2. ~ Done(t)' /\ \A u \in Tasks : u # t => (Done(u)' <=> Done(u))
  BY <1>1 DEF Others, Done, Ending, Teardown
<1>3. ~ BeforeLaunch'
  <2>1. ~ BeforeLaunch
    BY <1>1, EndsOutside
  <2>2. CASE t = "blinds"
    BY <1>1, <2>2 DEF BeforeLaunch, Ending, Teardown
  <2>3. CASE t = "refill"
    BY <1>1, <2>1, <2>3 DEF BeforeLaunch, Ending, Others
  <2>4. QED
    BY <2>2, <2>3
<1>4. \A u \in Tasks : Done(u)' => "LIMIT_REACHED" \notin report'
  <2>1. CASE "LIMIT_REACHED" \in report' => "LIMIT_REACHED" \in report
    BY <1>2, <2>1 DEF OnceInv
  <2>2. CASE task[t].at = "limit"
    <3>1. \A u \in Tasks : u # t => ~ Done(u)
      BY <2>2 DEF OnceInv, Done
    <3>2. QED
      BY <1>2, <3>1
  <2>3. QED
    BY <2>1, <2>2 DEF SendLimitReached, EndFailure, At
<1>5. ~ (Done("blinds")' /\ Done("refill")')
  BY <1>2 DEF OnceInv
<1>6. QED
  BY <1>3, <1>4, <1>5 DEF OnceInv

LEMMA OnceInvInit == Init => OnceInv
  BY DEF Init, IdleTask, OnceInv, Done, Ending, Teardown, Tasks

LEMMA OnceInvNext ==
  ASSUME IInv, StillInv, AccountInv, ArrivalInv, OnceInv,
         trouble' = {}, [Next]_vars
  PROVE  OnceInv'
<1> USE Numbers
<1>1. ASSUME NEW t \in Tasks, TeardownStep(t) PROVE OnceInv'
  <2>1. /\ Others(t) /\ task[t].at \in Teardown /\ task'[t].then = task[t].then
        /\ task'[t].at \in Teardown \/ task'[t].at = task[t].then
    BY <1>1, TeardownEffect
  <2>2. task[t].then \in {"completed", "failed", "aim", "stopped"}
    BY <2>1 DEF StillInv, Places
  <2>3. Done(t)' => Done(t)
    BY <2>1, <2>2 DEF Done, Ending, Teardown
  <2>4. t = "blinds" /\ BeforeLaunch' => BeforeLaunch
    BY <2>1, <2>2 DEF BeforeLaunch, Ending, Teardown
  <2>5. UNCHANGED report
    BY <1>1 DEF TeardownStep, ReadActive, DisableOutput, ResetBuffers, RefreshRead, ReadCount,
       RefreshPosition, StopCounter
  <2>6. QED
    BY <2>1, <2>3, <2>4, <2>5, OnceOnward
<1>2. ASSUME NEW t \in Tasks, FillStep(t) \/ (t = "blinds" /\ Stop) PROVE OnceInv'
  <2>1. /\ Others(t) /\ UNCHANGED report
        /\ \/ task'[t].at \in {"home", "reserve", "transmit", "refused", "filled", "complete", "release"}
           \/ task'[t].at = "readActive" /\ task'[t].then \in {"failed", "stopped"}
    BY <1>2, FillEffect, StopEffect
  <2>2. ~ Done(t)' /\ (t = "blinds" => ~ BeforeLaunch')
    BY <2>1 DEF Done, BeforeLaunch, Ending, Teardown
  <2>3. QED
    BY <2>1, <2>2, OnceOnward
<1>3. ASSUME NEW t \in Tasks, EndCompletion(t) \/ (t = "blinds" /\ Stopped) PROVE OnceInv'
  <2>1. /\ Others(t) /\ UNCHANGED report
        /\ \/ task'[t].at = "limit" /\ task[t].at = "completed"
           \/ task'[t].at = "home"
           \/ task'[t].at = "readActive" /\ task'[t].then = "failed"
    <3>1. CASE EndCompletion(t)
      BY <3>1, Effects DEF EndCompletion, CompletionFails, Fails, At
    <3>2. CASE t = "blinds" /\ Stopped
      BY <3>2 DEF Stopped, IdleTask, Others
    <3>3. QED
      BY <1>3, <3>1, <3>2
  <2>2. (Done(t)' => Done(t)) /\ (t = "blinds" => ~ BeforeLaunch')
    BY <2>1 DEF Done, BeforeLaunch, Ending, Teardown
  <2>3. QED
    BY <2>1, <2>2, OnceOnward
<1>4. CASE Aim \/ StartCounter \/ EnableOutput \/ Launch
  <2>1. /\ Others("blinds") /\ UNCHANGED report /\ BeforeLaunch
        /\ task'["blinds"].at \in {"home", "startCounter", "enable", "launch", "reserve"}
    <3>1. CASE Aim
      <4>1. BeforeLaunch /\ Others("blinds") /\ UNCHANGED report
        BY <3>1 DEF Aim, At, BeforeLaunch, Others, StartFails, Home
      <4>2. task'["blinds"].at \in {"home", "startCounter"}
        BY <3>1, Effects DEF Aim, StartFails, TaskRecord
      <4>3. QED
        BY <4>1, <4>2
    <3>2. CASE StartCounter
      BY <3>2, Effects DEF StartCounter, StartFails, At, BeforeLaunch
    <3>3. CASE EnableOutput
      BY <3>3, Effects DEF EnableOutput, StartFails, At, BeforeLaunch
    <3>4. CASE Launch
      BY <3>4, Effects DEF Launch, At, BeforeLaunch
    <3>5. QED
      BY <1>4, <3>1, <3>2, <3>3, <3>4
  <2>2. ~ Done("blinds")'
    BY <2>1 DEF Done, Ending, Teardown
  <2>3. QED
    BY <2>1, <2>2, OnceOnward
<1>5. ASSUME NEW target \in 0..MaxStep, Move(target) PROVE OnceInv'
  <2>1. /\ report' = {} /\ task'["refill"] = task["refill"]
        /\ task["refill"].at \in {"home", "release", "reserve", "filled"}
        /\ task'["blinds"].at = "readActive" /\ task'["blinds"].then = "aim"
    BY <1>5 DEF Move, FromRest, At, IdleTask
  <2>2. QED
    BY <2>1 DEF OnceInv, Done, Ending, Teardown
<1>6. CASE Pulse \/ TransactionDone \/ UNCHANGED vars
  BY <1>6 DEF Pulse, TransactionDone, vars, OnceInv, BeforeLaunch, Done, Ending
<1>7. ASSUME NEW t \in Tasks, Procedure(t) PROVE OnceInv'
  BY <1>1, <1>2, <1>3, <1>7, OnceCompletion, OnceEvent DEF Procedure, TeardownStep, FillStep
<1>8. CASE BlindsStep
  BY <1>2, <1>3, <1>4, <1>7, <1>8 DEF BlindsStep, FillStep
<1>9. CASE RefillStep
  BY <1>2, <1>7, <1>9 DEF RefillStep, FillStep
<1>10. QED
  BY <1>2, <1>5, <1>6, <1>8, <1>9 DEF Next

-----------------------------------------------------------------------------
(* Step by step, the tasks keep the promise of Movement.                   *)
(* A step that the Blinds task is not promised anything of. *)
PromiseVars == <<shaft.at, motor.target, motor.state # "STOPPED", motor.abort, Failing("blinds"), report>>

LEMMA Unpromised ==
  ASSUME shaft'.at = shaft.at, motor'.target = motor.target, motor'.state = motor.state,
         motor'.abort = motor.abort, Failing("blinds")' <=> Failing("blinds"), UNCHANGED report
  PROVE  UNCHANGED PromiseVars
  BY DEF PromiseVars, Failing, Ending, Teardown

(* Whether the Blinds task is failing, for a step of task t. *)
LEMMA FailingKept ==
  ASSUME NEW t \in Tasks, Others(t),
         t = "blinds" => (Failing(t)' <=> Failing(t))
  PROVE  Failing("blinds")' <=> Failing("blinds")
  BY DEF Others, Failing, Ending, Tasks

LEMMA TeardownPromise ==
  ASSUME IInv, StillInv, trouble' = {}, NEW t \in Tasks, TeardownStep(t)
  PROVE  UNCHANGED PromiseVars
<1> USE Numbers
<1>1. /\ Others(t) /\ task[t].at \in Teardown /\ task'[t].then = task[t].then
      /\ task'[t].at \in Teardown \/ task'[t].at = task[t].then
  BY TeardownEffect
<1>2. task[t].then \in {"completed", "failed", "aim", "stopped"}
  BY <1>1 DEF StillInv, Places
<1>3. Failing(t)' <=> Failing(t)
  BY <1>1, <1>2 DEF Failing, Ending, Teardown
<1>4. /\ UNCHANGED <<shaft, report>>
      /\ motor'.target = motor.target /\ motor'.state = motor.state /\ motor'.abort = motor.abort
  BY DEF TeardownStep, ReadActive, DisableOutput, ResetBuffers, RefreshRead, ReadCount,
     RefreshPosition, StopCounter, MotorRecord
<1>5. QED
  BY <1>1, <1>3, <1>4, FailingKept, Unpromised

LEMMA FillPromise ==
  ASSUME IInv, NEW t \in Tasks, FillStep(t)
  PROVE  Promise!Falter \/ UNCHANGED PromiseVars
<1> USE Numbers
<1>1. /\ Others(t)
      /\ task[t].at \in {"reserve", "transmit", "refused", "filled", "home", "release"}
      /\ \/ task'[t].at \in {"home", "reserve", "transmit", "refused", "filled", "complete", "release"}
         \/ task'[t].at = "readActive" /\ task'[t].then = "failed"
      /\ UNCHANGED <<shaft, report>>
      /\ motor'.target = motor.target /\ motor'.state = motor.state /\ motor'.abort = motor.abort
  BY FillEffect
<1>2. CASE Failing("blinds")' <=> Failing("blinds")
  BY <1>1, <1>2, Unpromised
<1>3. CASE ~ (Failing("blinds")' <=> Failing("blinds"))
  <2>1. t = "blinds"
    BY <1>1, <1>3, FailingKept
  <2>2. Failing("blinds")' = TRUE
    <3>1. ~ Failing("blinds")
      BY <1>1, <2>1 DEF Failing, Ending, Teardown
    <3>2. QED
      BY <1>3, <3>1 DEF Failing, Ending, Teardown
  <2>3. QED
    BY <1>1, <2>2 DEF Promise!Falter
<1>4. QED
  BY <1>2, <1>3

LEMMA StopPromise ==
  ASSUME IInv, Stop
  PROVE  Promise!Interrupt
<1> USE Numbers
<1>1. /\ task["blinds"].at = "home"
      /\ task'["blinds"].at = "readActive" /\ task'["blinds"].then = "stopped"
      /\ UNCHANGED <<shaft, report>> /\ motor'.abort
      /\ motor'.target = motor.target /\ motor'.state = motor.state
  BY StopEffect
<1>2. motor'.abort = TRUE
  BY DEF Stop, MotorRecord
<1>3. ~ Failing("blinds") /\ ~ Failing("blinds")'
  BY <1>1 DEF Failing, Ending, Teardown
<1>4. Failing("blinds")' = Failing("blinds")
  BY <1>3 DEF Failing, Ending, Teardown
<1>5. QED
  BY <1>1, <1>2, <1>3, <1>4 DEF Promise!Interrupt

LEMMA StoppedPromise ==
  ASSUME IInv, StillInv, Stopped
  PROVE  Promise!Halt
<1> USE Numbers
<1>1. task["blinds"].at = "stopped" /\ task'["blinds"].at = "home"
  BY DEF Stopped, At, IdleTask
<1>2. motor.state # "STOPPED" => motor.abort
  BY <1>1 DEF StillInv, StopOff, Stopping, Dead
<1>3. /\ motor'.state = "STOPPED" /\ motor'.abort = FALSE /\ motor'.target = motor.target
      /\ UNCHANGED <<shaft, report>>
  BY DEF Stopped, Cleared, MotorRecord
<1>4. Failing("blinds")' = Failing("blinds")
  BY <1>1 DEF Failing, Ending, Teardown
<1>5. QED
  BY <1>2, <1>3, <1>4 DEF Promise!Halt

LEMMA CompletionPromise ==
  ASSUME IInv, StillInv, ArrivalInv, OnceInv, NEW t \in Tasks,
         BeginCompletion(t) \/ EndCompletion(t) \/ SendLimitReached(t)
  PROVE  Promise!Arrive \/ Promise!Announce \/ UNCHANGED PromiseVars
<1> USE Numbers
<1>1. /\ Others(t) /\ task[t].at \in {"complete", "completed", "limit"}
      /\ task'[t].at \in {"home", "limit", "readActive"}
      /\ task'[t].at = "readActive" => task'[t].then = "completed" \/ t = "refill"
  <2>1. CASE BeginCompletion(t)
    BY <2>1, Effects DEF BeginCompletion, At
  <2>2. CASE EndCompletion(t)
    BY <2>2, Effects DEF EndCompletion, CompletionFails, Fails, At
  <2>3. CASE SendLimitReached(t)
    BY <2>3, Effects DEF SendLimitReached, CompletionFails, Fails, At
  <2>4. QED
    BY <2>1, <2>2, <2>3
<1>2. Failing("blinds")' <=> Failing("blinds")
  <2>1. t = "blinds" => ~ Failing(t) /\ ~ Failing(t)'
    BY <1>1 DEF Failing, Ending, Teardown
  <2>2. QED
    BY <1>1, <2>1, FailingKept
<1>3. Failing("blinds")' = Failing("blinds")
  BY <1>2 DEF Failing, Ending, Teardown
<1>4. /\ UNCHANGED shaft /\ motor'.target = motor.target /\ motor'.abort = motor.abort
      /\ ~ EndCompletion(t) => motor'.state = motor.state
      /\ ~ SendLimitReached(t) => UNCHANGED report
  BY DEF BeginCompletion, EndCompletion, SendLimitReached, MotorRecord
<1>5. Done(t) => Promise!HasArrived
  BY DEF ArrivalInv, Arrived, Excused, FailureTold, Promise!HasArrived, Promise!FailureEvents
<1>6. CASE BeginCompletion(t)
  <2>1. ~ EndCompletion(t) /\ ~ SendLimitReached(t)
    BY <1>6 DEF BeginCompletion, EndCompletion, SendLimitReached, At
  <2>2. QED
    BY <1>2, <1>4, <2>1, Unpromised
<1>7. CASE EndCompletion(t)
  <2>1. motor'.state = "STOPPED" /\ UNCHANGED report
    BY <1>7 DEF EndCompletion, MotorRecord
  <2>2. Promise!HasArrived
    BY <1>5, <1>7 DEF EndCompletion, At, Done
  <2>3. CASE motor.state = "STOPPED"
    BY <1>2, <1>4, <2>1, <2>3, Unpromised
  <2>4. CASE motor.state # "STOPPED"
    BY <1>3, <1>4, <2>1, <2>2, <2>4 DEF Promise!Arrive
  <2>5. QED
    BY <2>3, <2>4
<1>8. CASE SendLimitReached(t)
  <2>1. task[t].at = "limit" /\ UNCHANGED motor
    BY <1>8 DEF SendLimitReached, At
  <2>2. motor.state = "STOPPED" /\ "LIMIT_REACHED" \notin report /\ Promise!HasArrived
    BY <1>5, <2>1 DEF StillInv, Ends, OnceInv, Done
  <2>3. CASE UNCHANGED report
    BY <1>2, <1>4, <2>1, <2>3, Unpromised
  <2>4. CASE report' = report \cup {"LIMIT_REACHED"}
    BY <1>3, <1>4, <2>1, <2>2, <2>4 DEF Promise!Announce
  <2>5. QED
    BY <1>8, <2>3, <2>4 DEF SendLimitReached
<1>9. QED
  BY <1>6, <1>7, <1>8

LEMMA FailurePromise ==
  ASSUME IInv, NEW t \in Tasks, EndFailure(t)
  PROVE  Promise!Fail
<1> USE Numbers
<1>1. Others(t) /\ task'[t].at = "home"
  BY Effects DEF EndFailure
<1>2. /\ motor'.state = "STOPPED" /\ motor'.abort = FALSE /\ motor'.target = motor.target
      /\ UNCHANGED shaft
      /\ report' = report \cup {"FAULT"} \/ report' = report \cup {"OVERFLOW"}
  BY DEF EndFailure, Cleared, MotorRecord
<1>3. Failing("blinds")' \in {FALSE, Failing("blinds")}
  <2>1. CASE t = "blinds"
    BY <1>1, <2>1 DEF Failing, Ending, Teardown
  <2>2. CASE t = "refill"
    BY <1>1, <2>2 DEF Failing, Ending, Teardown, Others
  <2>3. QED
    BY <2>1, <2>2
<1>4. QED
  BY <1>2, <1>3 DEF Promise!Fail, Promise!FailureEvents

LEMMA StartPromise ==
  ASSUME IInv, StillInv, OnceInv, Aim \/ StartCounter \/ EnableOutput \/ Launch
  PROVE  Promise!Begin \/ UNCHANGED PromiseVars
<1> USE Numbers
<1>1. BeforeLaunch /\ task["blinds"].at \in {"aim", "startCounter", "enable", "launch"}
  BY DEF Aim, StartCounter, EnableOutput, Launch, At, BeforeLaunch
<1>2. motor.state = "STOPPED" /\ report = {}
  BY <1>1 DEF StillInv, LaunchAlone, OnceInv
<1>3. task'["blinds"].at \in {"home", "startCounter", "enable", "launch", "reserve"}
  <2>1. CASE Aim
    BY <2>1, Effects DEF Aim, StartFails, TaskRecord
  <2>2. CASE StartCounter
    BY <2>2, Effects DEF StartCounter, StartFails
  <2>3. CASE EnableOutput
    BY <2>3, Effects DEF EnableOutput, StartFails
  <2>4. CASE Launch
    BY <2>4, Effects DEF Launch
  <2>5. QED
    BY <2>1, <2>2, <2>3, <2>4
<1>4. ~ Failing("blinds") /\ ~ Failing("blinds")'
  BY <1>1, <1>3 DEF Failing, Ending, Teardown
<1>5. Failing("blinds")' = Failing("blinds")
  BY <1>4 DEF Failing, Ending, Teardown
<1>6. shaft'.at = shaft.at /\ UNCHANGED report
  <2>1. shaft \in [up : BOOLEAN, at : Int]
    BY DEF IInv, Typed
  <2>2. QED
    BY <2>1 DEF Aim, StartCounter, EnableOutput, Launch
<1>7. CASE Launch
  <2>1. /\ motor'.state # "STOPPED" /\ motor'.abort = FALSE /\ motor'.target = motor.target
    BY <1>7 DEF Launch, MotorRecord, TaskRecord
  <2>2. QED
    BY <1>2, <1>4, <1>5, <1>6, <2>1 DEF Promise!Begin
<1>8. CASE ~ Launch
  BY <1>4, <1>6, <1>8, Unpromised DEF Aim, StartCounter, EnableOutput
<1>9. QED
  BY <1>7, <1>8

LEMMA MovePromise ==
  ASSUME IInv, trouble' = {}, NEW target \in 0..MaxStep, Move(target)
  PROVE  Promise!Command(target)
<1> USE Numbers
<1>1. /\ motor.state = "STOPPED" /\ task["blinds"].at = "home"
      /\ task'["blinds"].at = "readActive" /\ task'["blinds"].then = "aim"
      /\ report' = {} /\ UNCHANGED shaft
  BY DEF Move, FromRest, At, IdleTask
<1>2. /\ motor'.target = target /\ motor'.state = motor.state /\ motor'.abort = motor.abort
  BY DEF Move, MotorRecord
<1>3. ~ Failing("blinds") /\ ~ Failing("blinds")'
  BY <1>1 DEF Failing, Ending, Teardown
<1>4. Failing("blinds")' = Failing("blinds")
  BY <1>3 DEF Failing, Ending, Teardown
<1>5. QED
  BY <1>1, <1>2, <1>3, <1>4 DEF Promise!Command

LEMMA PulsePromise ==
  ASSUME IInv, StillInv, AccountInv, PositionInv, ArrivalInv, Pulse
  PROVE  Promise!Approach
<1> USE Numbers
<1>1. UNCHANGED <<motor, task, report>> /\ rmt.queue # << >>
  BY DEF Pulse
<1>2. motor.state # "STOPPED"
  BY <1>1 DEF PositionInv, StoppedQuiet
<1>3. /\ shaft.at = PositionFromCount(motor.from, motor.state, pcnt.count)
      /\ motor.target = PositionFromCount(motor.from, motor.state, motor.pulses)
      /\ shaft.up = (motor.state = "UP")
  BY <1>2 DEF PositionInv, Tracks, ArrivalInv, TargetAhead
<1>4. /\ pcnt.count \in Nat /\ motor.pulses \in Nat /\ pcnt.count < motor.pulses
      /\ motor.from \in Int
  BY <1>2, PulseWithin DEF MotorRecord
<1>5. shaft'.at = shaft.at + (IF shaft.up THEN 1 ELSE -1)
  <2>1. shaft \in [up : BOOLEAN, at : Int]
    BY DEF IInv, Typed
  <2>2. QED
    BY <2>1 DEF Pulse
<1>6. /\ shaft.at # motor.target
      /\ shaft'.at = IF motor.target > shaft.at THEN shaft.at + 1 ELSE shaft.at - 1
  <2>1. CASE motor.state = "UP"
    <3>1. /\ shaft.at = motor.from + pcnt.count
          /\ motor.target = motor.from + motor.pulses
          /\ shaft'.at = shaft.at + 1
      BY <1>3, <1>5, <2>1 DEF PositionFromCount
    <3>2. QED
      BY <1>4, <3>1
  <2>2. CASE motor.state # "UP"
    <3>1. /\ shaft.at = motor.from - pcnt.count
          /\ motor.target = motor.from - motor.pulses
          /\ shaft'.at = shaft.at + (-1)
      BY <1>3, <1>5, <2>2 DEF PositionFromCount
    <3>2. QED
      BY <1>4, <3>1
  <2>3. QED
    BY <2>1, <2>2
<1>7. Failing("blinds")' = Failing("blinds")
  BY <1>1 DEF Failing, Ending, Teardown
<1>8. QED
  BY <1>1, <1>2, <1>6, <1>7 DEF Promise!Approach

LEMMA PromiseNext ==
  ASSUME IInv, StillInv, AccountInv, PositionInv, ArrivalInv, OnceInv,
         trouble' = {}, [Next]_vars
  PROVE  Promise!Keeping \/ UNCHANGED PromiseVars
<1> USE DEF Promise!Keeping
<1>1. ASSUME NEW t \in Tasks, Procedure(t) PROVE Promise!Keeping \/ UNCHANGED PromiseVars
  BY <1>1, TeardownPromise, FillPromise, CompletionPromise, FailurePromise
  DEF Procedure, TeardownStep, FillStep
<1>2. CASE BlindsStep
  BY <1>1, <1>2, StoppedPromise, StartPromise, FillPromise DEF BlindsStep, FillStep, Tasks
<1>3. CASE RefillStep
  BY <1>1, <1>3, FillPromise DEF RefillStep, FillStep, Tasks
<1>4. CASE Stop
  BY <1>4, StopPromise
<1>5. ASSUME NEW target \in 0..MaxStep, Move(target) PROVE Promise!Keeping
  BY <1>5, MovePromise
<1>6. CASE Pulse
  BY <1>6, PulsePromise
<1>7. CASE TransactionDone \/ UNCHANGED vars
  <2>1. UNCHANGED <<motor, task, shaft, report>>
    BY <1>7 DEF TransactionDone, vars
  <2>2. QED
    BY <2>1, Unpromised DEF Failing, Ending
<1>8. QED
  BY <1>2, <1>3, <1>4, <1>5, <1>6, <1>7 DEF Next

-----------------------------------------------------------------------------
(* All that holds while there is no trouble. *)
Untroubled ==
  trouble = {} => StillInv /\ AccountInv /\ PositionInv /\ ArrivalInv /\ OnceInv

LEMMA UntroubledNext ==
  ASSUME IInv, IInv', Untroubled, [Next]_vars
  PROVE  Untroubled'
<1>1. SUFFICES ASSUME trouble' = {}
               PROVE  StillInv' /\ AccountInv' /\ PositionInv' /\ ArrivalInv' /\ OnceInv'
  BY DEF Untroubled
<1>2. StillInv /\ AccountInv /\ PositionInv /\ ArrivalInv /\ OnceInv
  BY <1>1, TroubleStays DEF Untroubled
<1>3. StillInv'
  BY <1>1, <1>2, StillInvNext DEF NoOverlap
<1>4. AccountInv'
  BY <1>2, AccountInvNext
<1>5. PositionInv' /\ ArrivalInv' /\ OnceInv'
  BY <1>1, <1>2, PositionInvNext, ArrivalInvNext, OnceInvNext
<1>6. QED
  BY <1>3, <1>4, <1>5

LEMMA UntroubledAlways == Spec => []Untroubled
<1>1. Init => Untroubled
  BY StillInvInit, AccountInvInit, PositionInvInit, ArrivalInvInit, OnceInvInit DEF Untroubled
<1>2. IInv /\ IInv' /\ Untroubled /\ [Next]_vars => Untroubled'
  BY UntroubledNext
<1>3. QED
  BY <1>1, <1>2, Invariance, PTL DEF Spec

(* When the motor is stopped, whoever stopped it and wherever the refill   *)
(* task was, the step that completeMovementFromTask(), stop() and          *)
(* failMovementFromTask() leave behind is where the shaft is: nothing but  *)
(* an overlapping move() and a channel or a counter that did not obey can  *)
(* lose it.                                                                *)
THEOREM PositionNeverLost == Spec => []PositionKept
<1>1. Untroubled => PositionKept
  BY DEF Untroubled, PositionInv, Stands, PositionTrue, PositionKept
<1>2. QED
  BY <1>1, UntroubledAlways, PTL

(* When the Blinds task takes its next command, LIMIT_REACHED without a    *)
(* FAULT or the record of a refused one tells it that the shaft is at the  *)
(* target of the last move(): a completion that races a failure, a stop()  *)
(* or the other task's completion reports no arrival that has not          *)
(* happened, until there is trouble.                                       *)
THEOREM LimitAtTarget == Spec => []LimitMeansArrived
<1>1. Untroubled => LimitMeansArrived
  BY DEF Untroubled, ArrivalInv, Reported, Excused, FailureTold, Failing, Ending, Teardown,
     LimitMeansArrived, At
<1>2. QED
  BY <1>1, UntroubledAlways, PTL

(* stopPulseHardware(), fillRmtQueue(), completeMovementFromTask() and     *)
(* failMovementFromTask(), run by two tasks in any interleaving with the   *)
(* peripheral, implement the promise Movement makes the Blinds task: a     *)
(* movement runs to its target and no further, ends by arriving, by stop() *)
(* or with a failure that is told or on record, and reports LIMIT_REACHED  *)
(* once at most and before the next one starts, until there is trouble.    *)
THEOREM ImplementsMovement == Spec => MovementSpec
<1>1. Init => Promise!Init
  <2>1. Init => ~ Failing("blinds")
    BY DEF Init, IdleTask, Failing, Ending, Teardown, Tasks
  <2>2. Init => Failing("blinds") = FALSE
    BY <2>1 DEF Failing, Ending
  <2>3. Init => /\ (motor.state # "STOPPED") = FALSE /\ motor.abort = FALSE
                /\ motor.target = 0 /\ shaft.at = 0 /\ report = {}
                /\ (trouble # {}) = FALSE
    BY DEF Init
  <2>4. QED
    BY <2>2, <2>3 DEF Promise!Init
<1>2. ASSUME IInv, Untroubled, [Next]_vars
      PROVE  [Promise!Next]_(Promise!movementVars)
  <2>1. CASE trouble' # {}
    BY <2>1 DEF Promise!Next
  <2>2. CASE trouble' = {}
    <3>1. trouble = {}
      BY <1>2, <2>2, TroubleStays
    <3>2. Promise!Keeping \/ UNCHANGED PromiseVars
      BY <1>2, <2>2, <3>1, PromiseNext DEF Untroubled
    <3>3. (trouble # {}) = FALSE /\ (trouble' # {}) = FALSE
      BY <2>2, <3>1
    <3>4. CASE Promise!Keeping
      BY <3>3, <3>4 DEF Promise!Next
    <3>5. CASE UNCHANGED PromiseVars
      BY <3>3, <3>5 DEF PromiseVars, Promise!movementVars
    <3>6. QED
      BY <3>2, <3>4, <3>5
  <2>3. QED
    BY <2>1, <2>2
<1>3. IInv /\ Untroubled /\ [Next]_vars => [Promise!Next]_(Promise!movementVars)
  BY <1>2
<1>4. QED
  BY <1>1, <1>3, UntroubledAlways, Invariance, PTL DEF Spec, MovementSpec, Promise!Spec

=============================================================================
