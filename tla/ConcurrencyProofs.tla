-------------------------- MODULE ConcurrencyProofs --------------------------
(***************************************************************************)
(* What keeps concurrent work in the server apart: the mutex and the clock *)
(* of the id generator, and the order in which transactions lock rows.     *)
(***************************************************************************)
EXTENDS Snowflake, RowLocks, TotalsProofs

-----------------------------------------------------------------------------
(***************************************************************************)
(* The order numbers of an instance grow, for any number of instances, any *)
(* width of the packed fields, and any number of set-backs or restarts.    *)
(*                                                                         *)
(* The argument: what an instance has given out is not above the number it *)
(* remembers, or, when a restart made it forget, below the first number of *)
(* the millisecond its clock shows; and every call gives out a number      *)
(* above that.  Between instances, the worker id can be read back from the *)
(* packed number.                                                          *)
(***************************************************************************)

(* Packing: x shifted by one field of width b, with s in that field. *)
LEMMA PackOrder ==
  ASSUME NEW x \in Nat, NEW y \in Nat, NEW b \in Nat, NEW s \in 0..b - 1, NEW r \in Nat, x < y
  PROVE  x * b + s < y * b + r
<1>1. PICK d \in Nat : y = x + 1 + d
  <2>1. y - x - 1 \in Nat /\ y = x + 1 + (y - x - 1)
    OBVIOUS
  <2> QED BY <2>1
<1>2. y * b = x * b + b + d * b
  BY <1>1
<1>3. d * b \in Nat /\ x * b \in Nat
  OBVIOUS
<1> QED BY <1>2, <1>3

LEMMA PackOnce ==
  ASSUME NEW x \in Nat, NEW y \in Nat, NEW b \in Nat, NEW s \in 0..b - 1, NEW r \in 0..b - 1,
         x * b + s = y * b + r
  PROVE  x = y /\ s = r
<1>1. ~ (x < y)
  BY PackOrder
<1>2. ~ (y < x)
  BY PackOrder
<1>3. x = y
  BY <1>1, <1>2
<1>4. x * b \in Nat
  OBVIOUS
<1> QED BY <1>3, <1>4

LEMMA IdType ==
  ASSUME NEW t \in Nat, NEW w \in 0..MaxWorkerID, NEW s \in 0..MaxSequence
  PROVE  /\ Id(t, w, s) \in Nat
         /\ t * (MaxWorkerID + 1) + w \in Nat
<1>1. t * (MaxWorkerID + 1) + w \in Nat
  BY SnowflakeAssumption
<1>2. \A x \in Nat : x * (MaxSequence + 1) + s \in Nat
  BY SnowflakeAssumption
<1> QED BY <1>1, <1>2 DEF Id

(* A later time gives a greater number, whatever the sequence numbers. *)
LEMMA IdGrows ==
  ASSUME NEW t \in Nat, NEW u \in Nat, NEW w \in 0..MaxWorkerID,
         NEW s \in 0..MaxSequence, NEW r \in 0..MaxSequence, t < u
  PROVE  Id(t, w, s) < Id(u, w, r)
<1>1. t * (MaxWorkerID + 1) + w < u * (MaxWorkerID + 1) + w
  BY PackOrder, SnowflakeAssumption
<1>2. MaxSequence + 1 \in Nat /\ s \in 0..(MaxSequence + 1) - 1
  BY SnowflakeAssumption
<1> DEFINE x == t * (MaxWorkerID + 1) + w
           y == u * (MaxWorkerID + 1) + w
<1>3. x \in Nat /\ y \in Nat
  BY IdType
<1> HIDE DEF x, y
<1>4. x < y => x * (MaxSequence + 1) + s < y * (MaxSequence + 1) + r
  BY <1>2, <1>3, PackOrder
<1> QED BY <1>1, <1>4 DEF Id, x, y

(* At one time the numbers grow with the sequence. *)
LEMMA IdGrowsWithin ==
  ASSUME NEW t \in Nat, NEW w \in 0..MaxWorkerID,
         NEW s \in 0..MaxSequence, NEW r \in 0..MaxSequence
  PROVE  /\ s < r => Id(t, w, s) < Id(t, w, r)
         /\ s <= r => Id(t, w, s) <= Id(t, w, r)
<1> DEFINE x == (t * (MaxWorkerID + 1) + w) * (MaxSequence + 1)
<1>1. x \in Nat
  <2>1. \A y \in Nat : y * (MaxSequence + 1) \in Nat
    BY SnowflakeAssumption
  <2> QED BY <2>1, IdType
<1>2. Id(t, w, s) = x + s /\ Id(t, w, r) = x + r
  BY DEF Id
<1> HIDE DEF x
<1> QED BY <1>1, <1>2

(* The worker id can be read back from a number. *)
LEMMA IdNamesWorker ==
  ASSUME NEW t \in Nat, NEW u \in Nat, NEW v \in 0..MaxWorkerID, NEW w \in 0..MaxWorkerID,
         NEW s \in 0..MaxSequence, NEW r \in 0..MaxSequence,
         Id(t, v, s) = Id(u, w, r)
  PROVE  v = w
<1> DEFINE x == t * (MaxWorkerID + 1) + v
           y == u * (MaxWorkerID + 1) + w
<1>1. x \in Nat /\ y \in Nat
  BY IdType
<1>2. MaxSequence + 1 \in Nat /\ s \in 0..(MaxSequence + 1) - 1 /\ r \in 0..(MaxSequence + 1) - 1
  BY SnowflakeAssumption
<1>3. x * (MaxSequence + 1) + s = y * (MaxSequence + 1) + r
  BY DEF Id
<1>4. x = y
  <2> HIDE DEF x, y
  <2> QED BY <1>1, <1>2, <1>3, PackOnce
<1>5. MaxWorkerID + 1 \in Nat /\ v \in 0..(MaxWorkerID + 1) - 1 /\ w \in 0..(MaxWorkerID + 1) - 1
  BY SnowflakeAssumption
<1> DEFINE b == MaxWorkerID + 1
<1>6. t * b + v = u * b + w /\ b \in Nat /\ v \in 0..b - 1 /\ w \in 0..b - 1
  BY <1>4, <1>5
<1> HIDE DEF x, y, b
<1> QED BY <1>6, PackOnce

-----------------------------------------------------------------------------
(* The invariant. *)
Types ==
  /\ clock \in [Instances -> Nat]
  /\ last \in [Instances -> Nat \union {-1}]
  /\ sequence \in [Instances -> 0..MaxSequence]
  /\ call \in [Instances -> [op : {"none", "wait"}] \union [op : {"sleep"}, left : Int]]
  /\ given \in [Instances -> Seq(Nat)]
  /\ backs \in Nat /\ restarts \in Nat

(* The sequence number that is used up: all of them, while a call waits. *)
Top(i) == IF call[i].op = "wait" THEN MaxSequence ELSE sequence[i]

Remembered == \A i \in Instances :
  last[i] # -1 => \A n \in 1..Len(given[i]) : given[i][n] <= Id(last[i], Worker[i], Top(i))

Forgotten == \A i \in Instances :
  last[i] = -1 =>
    /\ restarts = 0 => given[i] = <<>>
    /\ \A n \in 1..Len(given[i]) : given[i][n] < Id(clock[i], Worker[i], 0)

(* Clocks are set back or instances restart: a clock that was never set    *)
(* back is not behind. *)
ClockNotBehind ==
  /\ backs = 0 \/ restarts = 0
  /\ backs = 0 => \A i \in Instances : last[i] <= clock[i]

Packed == \A i \in Instances : \A n \in 1..Len(given[i]) :
  \E t \in Nat, s \in 0..MaxSequence : given[i][n] = Id(t, Worker[i], s)

Sorted == \A i \in Instances : \A m, n \in 1..Len(given[i]) : m < n => given[i][m] < given[i][n]

Ordered == Types /\ Remembered /\ Forgotten /\ ClockNotBehind /\ Packed /\ Sorted

LEMMA OneMore == \A m \in Nat : \A n \in 1..m + 1 : n \in 1..m \/ n = m + 1
OBVIOUS

LEMMA OrderedTypes ==
  ASSUME Ordered, NEW i \in Instances
  PROVE  /\ clock[i] \in Nat /\ Worker[i] \in 0..MaxWorkerID
         /\ last[i] \in Int /\ (last[i] # -1 => last[i] \in Nat)
         /\ sequence[i] \in 0..MaxSequence /\ Top(i) \in 0..MaxSequence /\ 0 \in 0..MaxSequence
         /\ backs \in Nat /\ restarts \in Nat /\ given[i] \in Seq(Nat)
<1>1. last[i] \in Nat \union {-1}
  BY DEF Ordered, Types
<1>2. last[i] \in Int /\ (last[i] # -1 => last[i] \in Nat)
  BY <1>1
<1> QED BY <1>2, SnowflakeAssumption DEF Ordered, Types, Top

LEMMA OrderedInit == Init => Ordered
<1> SUFFICES ASSUME Init PROVE Ordered
  OBVIOUS
<1>1. \A i \in Instances : given[i] = <<>> /\ Len(given[i]) = 0
  BY DEF Init
<1>2. Types
  BY SnowflakeAssumption DEF Init, Types, NoCall
<1>3. Remembered /\ Forgotten /\ ClockNotBehind
  BY <1>1 DEF Init, Remembered, Forgotten, ClockNotBehind
<1>4. Packed /\ Sorted
  BY <1>1 DEF Packed, Sorted
<1> QED BY <1>2, <1>3, <1>4 DEF Ordered

(* A call gives out a number above all that its instance has given out. *)
LEMMA GiveKeepsOrder ==
  ASSUME Ordered, NEW i \in Instances, NEW s \in 0..MaxSequence,
         Give(i, clock[i], s), UNCHANGED <<clock, backs, restarts>>,
         \/ clock[i] > last[i]
         \/ clock[i] = last[i] /\ call[i].op # "wait" /\ sequence[i] < s
  PROVE  Ordered'
<1> DEFINE v == Id(clock[i], Worker[i], s)
           q == given[i]
<1>1. /\ clock[i] \in Nat /\ Worker[i] \in 0..MaxWorkerID /\ q \in Seq(Nat)
      /\ last[i] \in Nat \union {-1} /\ Top(i) \in 0..MaxSequence /\ 0 \in 0..MaxSequence
  BY SnowflakeAssumption DEF Ordered, Types, Top
<1>2. v \in Nat
  BY <1>1, IdType
<1>3. \A n \in 1..Len(q) : q[n] < v
  <2> SUFFICES ASSUME NEW n \in 1..Len(q) PROVE q[n] < v
    OBVIOUS
  <2>1. q[n] \in Nat
    BY <1>1
  <2>2. CASE last[i] = -1
    <3>1. q[n] < Id(clock[i], Worker[i], 0)
      BY <2>2 DEF Ordered, Forgotten
    <3>2. Id(clock[i], Worker[i], 0) <= v
      BY <1>1, IdGrowsWithin
    <3>3. Id(clock[i], Worker[i], 0) \in Nat
      BY <1>1, IdType
    <3> HIDE DEF v
    <3> QED BY <1>2, <2>1, <3>1, <3>2, <3>3
  <2>3. CASE last[i] # -1
    <3>1. q[n] <= Id(last[i], Worker[i], Top(i)) /\ last[i] \in Nat
      BY <1>1, <2>3 DEF Ordered, Remembered
    <3>2. Id(last[i], Worker[i], Top(i)) < v
      <4>1. CASE clock[i] > last[i]
        BY <1>1, <3>1, <4>1, IdGrows
      <4>2. CASE clock[i] = last[i] /\ call[i].op # "wait" /\ sequence[i] < s
        <5>1. Top(i) < s
          BY <4>2 DEF Top
        <5> QED BY <1>1, <3>1, <4>2, <5>1, IdGrowsWithin
      <4> QED BY <4>1, <4>2
    <3>3. Id(last[i], Worker[i], Top(i)) \in Nat
      BY <1>1, <3>1, IdType
    <3> HIDE DEF v
    <3> QED BY <1>2, <2>1, <3>1, <3>2, <3>3
  <2> QED BY <2>2, <2>3
<1>4. /\ given'[i] = Append(q, v) /\ last'[i] = clock[i] /\ sequence'[i] = s /\ call'[i].op = "none"
      /\ \A j \in Instances : j # i => /\ given'[j] = given[j] /\ last'[j] = last[j]
                                       /\ sequence'[j] = sequence[j] /\ call'[j] = call[j]
  BY DEF Give, Ordered, Types, NoCall
<1> HIDE DEF v
<1>5. Len(given'[i]) = Len(q) + 1 /\ given'[i][Len(q) + 1] = v
      /\ \A n \in 1..Len(q) : given'[i][n] = q[n]
  BY <1>1, <1>2, <1>4
<1> HIDE DEF q
<1>6. Len(q) \in Nat /\ \A n \in 1..Len(q) + 1 : n \in 1..Len(q) \/ n = Len(q) + 1
  <2>1. Len(q) \in Nat
    BY <1>1
  <2> QED BY <2>1, OneMore
<1>7. Types'
  <2>1. given' \in [Instances -> Seq(Nat)]
    BY <1>1, <1>2 DEF Give, Ordered, Types, v
  <2> QED BY <1>1, <2>1 DEF Give, Ordered, Types, NoCall
<1>8. Remembered'
  <2> SUFFICES ASSUME NEW j \in Instances, last'[j] # -1, NEW n \in 1..Len(given'[j])
               PROVE  given'[j][n] <= Id(last'[j], Worker[j], Top(j)')
    BY DEF Remembered
  <2>1. CASE j = i
    <3>1. Id(last'[j], Worker[j], Top(j)') = v
      BY <1>4, <2>1 DEF v, Top
    <3>2. \A k \in 1..Len(q) : q[k] \in Nat
      BY <1>1
    <3> QED BY <1>2, <1>3, <1>5, <1>6, <2>1, <3>1, <3>2
  <2>2. CASE j # i
    BY <1>4, <2>2 DEF Ordered, Remembered, Top
  <2> QED BY <2>1, <2>2
<1>9. Forgotten'
  <2>1. last'[i] # -1
    BY <1>1, <1>4
  <2> QED BY <1>4, <2>1 DEF Ordered, Forgotten
<1>10. ClockNotBehind'
  <2>1. last'[i] <= clock[i]
    BY <1>1, <1>4
  <2> QED BY <1>4, <2>1 DEF Ordered, ClockNotBehind
<1>11. Packed'
  <2> SUFFICES ASSUME NEW j \in Instances, NEW n \in 1..Len(given'[j])
               PROVE  \E t \in Nat, r \in 0..MaxSequence : given'[j][n] = Id(t, Worker[j], r)
    BY DEF Packed
  <2>1. CASE j = i /\ n = Len(q) + 1
    BY <1>1, <1>5, <2>1 DEF v
  <2>2. CASE j = i /\ n \in 1..Len(q)
    BY <1>5, <2>2 DEF Ordered, Packed, q
  <2>3. CASE j # i
    BY <1>4, <2>3 DEF Ordered, Packed
  <2> QED BY <1>5, <1>6, <2>1, <2>2, <2>3
<1>12. Sorted'
  <2> SUFFICES ASSUME NEW j \in Instances, NEW m \in 1..Len(given'[j]), NEW n \in 1..Len(given'[j]),
                      m < n
               PROVE  given'[j][m] < given'[j][n]
    BY DEF Sorted
  <2>1. CASE j = i
    <3>1. m \in 1..Len(q)
      BY <1>5, <1>6, <2>1
    <3>2. CASE n \in 1..Len(q)
      BY <1>5, <2>1, <3>1, <3>2 DEF Ordered, Sorted, q
    <3>3. CASE n = Len(q) + 1
      BY <1>3, <1>5, <2>1, <3>1, <3>3
    <3> QED BY <1>5, <1>6, <2>1, <3>2, <3>3
  <2>2. CASE j # i
    BY <1>4, <2>2 DEF Ordered, Sorted
  <2> QED BY <2>1, <2>2
<1> QED BY <1>7, <1>8, <1>9, <1>10, <1>11, <1>12 DEF Ordered

(* The call returns a number, or begins to wait. *)
LEMMA NumberKeepsOrder ==
  ASSUME Ordered, NEW i \in Instances, Number(i), UNCHANGED <<clock, backs, restarts>>,
         clock[i] >= last[i], call[i].op # "wait"
  PROVE  Ordered'
<1>1. /\ clock[i] \in Nat /\ last[i] \in Nat \union {-1} /\ sequence[i] \in 0..MaxSequence
      /\ MaxSequence \in Nat
  BY SnowflakeAssumption DEF Ordered, Types
<1>2. CASE clock[i] = last[i] /\ sequence[i] < MaxSequence
  <2>1. Give(i, clock[i], sequence[i] + 1) /\ sequence[i] + 1 \in 0..MaxSequence
    BY <1>1, <1>2 DEF Number
  <2> QED BY <1>1, <1>2, <2>1, GiveKeepsOrder
<1>3. CASE clock[i] # last[i]
  <2>1. Give(i, clock[i], 0) /\ 0 \in 0..MaxSequence /\ clock[i] > last[i]
    BY <1>1, <1>3 DEF Number
  <2> QED BY <2>1, GiveKeepsOrder
<1>4. CASE clock[i] = last[i] /\ ~ (sequence[i] < MaxSequence)
  <2>1. /\ sequence[i] = MaxSequence
        /\ sequence' = [sequence EXCEPT ![i] = 0]
        /\ call' = [call EXCEPT ![i] = [op |-> "wait"]]
        /\ UNCHANGED <<last, given>>
    BY <1>1, <1>4 DEF Number
  <2>2. Types'
    BY <1>1, <2>1 DEF Ordered, Types
  <2>3. \A j \in Instances : Top(j)' = Top(j)
    BY <2>1 DEF Ordered, Types, Top
  <2>4. Remembered' /\ Forgotten' /\ ClockNotBehind'
    BY <2>1, <2>3 DEF Ordered, Remembered, Forgotten, ClockNotBehind
  <2>5. Packed' /\ Sorted'
    BY <2>1 DEF Ordered, Packed, Sorted
  <2> QED BY <2>2, <2>4, <2>5 DEF Ordered
<1> QED BY <1>2, <1>3, <1>4

(* Nothing is given out, and no clock is set back. *)
LEMMA TimePasses ==
  ASSUME Ordered, Types', UNCHANGED <<last, given, backs, restarts>>,
         \A j \in Instances : clock[j] <= clock'[j] /\ Top(j)' = Top(j)
  PROVE  Ordered'
<1>1. Remembered'
  BY DEF Ordered, Remembered
<1>2. Forgotten'
  <2> SUFFICES ASSUME NEW j \in Instances, last[j] = -1, NEW n \in 1..Len(given[j])
               PROVE  given[j][n] < Id(clock'[j], Worker[j], 0)
    BY DEF Ordered, Forgotten
  <2>1. /\ clock[j] \in Nat /\ clock'[j] \in Nat /\ Worker[j] \in 0..MaxWorkerID
        /\ 0 \in 0..MaxSequence /\ given[j][n] \in Nat
    BY SnowflakeAssumption DEF Ordered, Types
  <2>2. given[j][n] < Id(clock[j], Worker[j], 0)
    BY DEF Ordered, Forgotten
  <2>3. clock'[j] = clock[j] \/ Id(clock[j], Worker[j], 0) < Id(clock'[j], Worker[j], 0)
    BY <2>1, IdGrows
  <2>4. Id(clock[j], Worker[j], 0) \in Nat /\ Id(clock'[j], Worker[j], 0) \in Nat
    BY <2>1, IdType
  <2> QED BY <2>1, <2>2, <2>3, <2>4
<1>3. ClockNotBehind'
  <2>1. \A j \in Instances : last[j] <= clock[j] => last[j] <= clock'[j]
    BY OrderedTypes DEF Types
  <2> QED BY <2>1 DEF Ordered, ClockNotBehind
<1>4. Packed' /\ Sorted'
  BY DEF Ordered, Packed, Sorted
<1> QED BY <1>1, <1>2, <1>3, <1>4 DEF Ordered

(* Starting again takes longer than a millisecond: what was given out is   *)
(* below the first number of the next one. *)
LEMMA RestartKeepsOrder ==
  ASSUME Ordered, NEW i \in Instances, Restart(i)
  PROVE  Ordered'
<1>1. /\ clock[i] \in Nat /\ Worker[i] \in 0..MaxWorkerID
      /\ last[i] \in Int /\ (last[i] # -1 => last[i] \in Nat)
      /\ Top(i) \in 0..MaxSequence /\ 0 \in 0..MaxSequence
      /\ last[i] <= clock[i] /\ restarts \in Nat
  BY OrderedTypes DEF Ordered, ClockNotBehind, Restart
<1>2. /\ clock'[i] = clock[i] + 1 /\ last'[i] = -1 /\ restarts' = restarts + 1
      /\ UNCHANGED <<given, backs>> /\ backs = 0
      /\ \A j \in Instances : j # i => /\ clock'[j] = clock[j] /\ last'[j] = last[j]
                                       /\ sequence'[j] = sequence[j] /\ call'[j] = call[j]
  BY DEF Restart, Ordered, Types
<1>3. Types'
  BY <1>1 DEF Restart, Ordered, Types, NoCall
<1>4. Remembered'
  BY <1>2 DEF Ordered, Remembered, Top
<1>5. Forgotten'
  <2> SUFFICES ASSUME NEW j \in Instances, last'[j] = -1, NEW n \in 1..Len(given[j])
               PROVE  given[j][n] < Id(clock'[j], Worker[j], 0)
    BY <1>1, <1>2 DEF Forgotten
  <2>1. CASE j # i
    BY <1>2, <2>1 DEF Ordered, Forgotten
  <2>2. CASE j = i
    <3>1. given[i][n] \in Nat /\ clock[i] + 1 \in Nat
      BY <1>1, <2>2 DEF Ordered, Types
    <3>2. Id(clock[i] + 1, Worker[i], 0) \in Nat
      BY <1>1, <3>1, IdType
    <3>3. CASE last[i] = -1
      <4>1. given[i][n] < Id(clock[i], Worker[i], 0)
        BY <2>2, <3>3 DEF Ordered, Forgotten
      <4>2. Id(clock[i], Worker[i], 0) < Id(clock[i] + 1, Worker[i], 0)
        BY <1>1, <3>1, IdGrows
      <4>3. Id(clock[i], Worker[i], 0) \in Nat
        BY <1>1, IdType
      <4> QED BY <1>2, <2>2, <3>1, <3>2, <4>1, <4>2, <4>3
    <3>4. CASE last[i] # -1
      <4>1. given[i][n] <= Id(last[i], Worker[i], Top(i))
        BY <2>2, <3>4 DEF Ordered, Remembered
      <4>2. last[i] \in Nat /\ last[i] < clock[i] + 1
        BY <1>1, <3>4
      <4>3. Id(last[i], Worker[i], Top(i)) < Id(clock[i] + 1, Worker[i], 0)
        BY <1>1, <3>1, <4>2, IdGrows
      <4>4. Id(last[i], Worker[i], Top(i)) \in Nat
        BY <1>1, <4>2, IdType
      <4> QED BY <1>2, <2>2, <3>1, <3>2, <4>1, <4>3, <4>4
    <3> QED BY <3>3, <3>4
  <2> QED BY <2>1, <2>2
<1>6. ClockNotBehind'
  BY <1>1, <1>2 DEF Ordered, ClockNotBehind
<1>7. Packed' /\ Sorted'
  BY <1>2 DEF Ordered, Packed, Sorted
<1> QED BY <1>3, <1>4, <1>5, <1>6, <1>7 DEF Ordered

LEMMA OrderedStep == Ordered /\ [Next]_vars => Ordered'
<1> SUFFICES ASSUME Ordered, [Next]_vars PROVE Ordered'
  OBVIOUS
<1>0. CASE UNCHANGED vars
  BY <1>0 DEF vars, Ordered, Types, Remembered, Forgotten, ClockNotBehind, Packed, Sorted, Top
<1>1. ASSUME NEW i \in Instances, NextID(i) PROVE Ordered'
  BY <1>1, NumberKeepsOrder DEF NextID, NoCall
<1>2. ASSUME NEW i \in Instances, Wake(i) PROVE Ordered'
  BY <1>2, NumberKeepsOrder DEF Wake
<1>3. ASSUME NEW i \in Instances, WaitOver(i) PROVE Ordered'
  <2>1. sequence[i] \in 0..MaxSequence
    BY DEF Ordered, Types
  <2> QED BY <1>3, <2>1, GiveKeepsOrder DEF WaitOver
<1>4. ASSUME NEW i \in Instances, Sleep(i) \/ WakeBehind(i) PROVE Ordered'
  <2>1. UNCHANGED <<clock, last, sequence, given, backs, restarts>>
    BY <1>4 DEF Sleep, WakeBehind
  <2> DEFINE C == [op : {"none"}] \union [op : {"sleep"}, left : Int]
  <2>2. call[i].op # "wait" /\ \E c \in C : call' = [call EXCEPT ![i] = c]
    <3>1. CASE Sleep(i)
      <4> DEFINE c == [op |-> "sleep", left |-> last[i] - clock[i]]
      <4>1. last[i] - clock[i] \in Int
        BY OrderedTypes
      <4>2. c \in C
        BY <4>1
      <4>3. call[i].op # "wait" /\ call' = [call EXCEPT ![i] = c]
        BY <3>1 DEF Sleep, NoCall
      <4> HIDE DEF c, C
      <4> QED BY <4>2, <4>3
    <3>2. CASE WakeBehind(i)
      <4>1. NoCall \in C
        BY DEF NoCall
      <4>2. call[i].op # "wait" /\ call' = [call EXCEPT ![i] = NoCall]
        BY <3>2 DEF WakeBehind
      <4> HIDE DEF C
      <4> QED BY <4>1, <4>2
    <3> QED BY <1>4, <3>1, <3>2
  <2>3. Types' /\ \A j \in Instances : Top(j)' = Top(j)
    BY <2>1, <2>2 DEF Ordered, Types, Top
  <2>4. \A j \in Instances : clock[j] <= clock'[j]
    BY <2>1 DEF Ordered, Types
  <2> QED BY <2>1, <2>3, <2>4, TimePasses
<1>5. ASSUME NEW i \in Instances, Tick(i) PROVE Ordered'
  <2>1. /\ \A j \in Instances : clock[j] <= clock'[j]
        /\ clock' \in [Instances -> Nat]
        /\ UNCHANGED <<last, sequence, given, backs, restarts>>
    BY <1>5 DEF Tick, Ordered, Types
  <2> DEFINE C == [op : {"none", "wait"}] \union [op : {"sleep"}, left : Int]
  <2>2. (\A j \in Instances : call'[j].op = call[j].op) /\ call' \in [Instances -> C]
    <3>1. call \in [Instances -> C]
      BY DEF Ordered, Types
    <3>2. CASE call[i].op = "sleep" /\ call[i].left > 0
      <4>1. call[i] \in [op : {"sleep"}, left : Int]
        BY <3>1, <3>2
      <4> DEFINE c == [call[i] EXCEPT !.left = call[i].left - 1]
      <4>2. c.op = "sleep" /\ c \in C
        BY <4>1
      <4>3. call' = [call EXCEPT ![i] = c]
        BY <1>5, <3>2 DEF Tick
      <4> HIDE DEF c, C
      <4> QED BY <3>1, <3>2, <4>2, <4>3
    <3>3. CASE ~ (call[i].op = "sleep" /\ call[i].left > 0)
      BY <1>5, <3>1, <3>3 DEF Tick
    <3> QED BY <3>2, <3>3
  <2>4. Types' /\ \A j \in Instances : Top(j)' = Top(j)
    BY <2>1, <2>2 DEF Ordered, Types, Top
  <2> QED BY <2>1, <2>4, TimePasses
<1>6. ASSUME NEW i \in Instances, SetBack(i) PROVE Ordered'
  <2>1. PICK t \in 1..clock[i] - 1 : clock' = [clock EXCEPT ![i] = t]
    BY <1>6 DEF SetBack
  <2>2. UNCHANGED <<last, sequence, call, given, restarts>> /\ restarts = 0 /\ backs' = backs + 1
    BY <1>6 DEF SetBack
  <2>3. Types'
    BY <2>1, <2>2 DEF Ordered, Types
  <2>4. Remembered' /\ Packed' /\ Sorted'
    BY <2>2 DEF Ordered, Remembered, Packed, Sorted, Top
  <2>5. Forgotten'
    <3>1. \A j \in Instances : last[j] = -1 => Len(given[j]) = 0
      BY <2>2 DEF Ordered, Forgotten
    <3> QED BY <2>2, <3>1 DEF Ordered, Forgotten
  <2>6. ClockNotBehind'
    BY <2>2 DEF Ordered, Types, ClockNotBehind
  <2> QED BY <2>3, <2>4, <2>5, <2>6 DEF Ordered
<1>7. ASSUME NEW i \in Instances, Restart(i) PROVE Ordered'
  BY <1>7, RestartKeepsOrder
<1> QED BY <1>0, <1>1, <1>2, <1>3, <1>4, <1>5, <1>6, <1>7 DEF Next

LEMMA OrderedAlways == Spec => []Ordered
BY OrderedInit, OrderedStep, PTL DEF Spec

-----------------------------------------------------------------------------
(* The numbers an instance gives out grow: through sequences that run out, *)
(* waits, clocks that are set back and restarts. *)
THEOREM IdsIncrease == Spec => []Increasing
<1>1. Ordered => Increasing
  <2> SUFFICES ASSUME Ordered, NEW i \in Instances, NEW n \in 1..Len(given[i]) - 1
               PROVE  given[i][n] < given[i][n + 1]
    BY DEF Increasing
  <2>1. Len(given[i]) \in Nat
    BY DEF Ordered, Types
  <2>2. n \in 1..Len(given[i]) /\ n + 1 \in 1..Len(given[i]) /\ n < n + 1
    BY <2>1
  <2> QED BY <2>2 DEF Ordered, Sorted
<1> QED BY <1>1, OrderedAlways, PTL

(* A number that two calls of NextIDWithError returned was given out by two *)
(* instances, and these have the same worker id. *)
RepeatsShareWorker ==
  \A i, j \in Instances :
    \A m \in 1..Len(given[i]), n \in 1..Len(given[j]) :
      given[i][m] = given[j][n] =>
        Worker[i] = Worker[j] /\ (i = j => m = n)

(* One instance never repeats a number, nor do two whose worker ids differ, *)
(* for any worker ids and field widths: with the one id that init gives    *)
(* every process, other processes are the only source of repetitions. *)
THEOREM OnlyTwinsRepeat == Spec => []RepeatsShareWorker
<1>1. Ordered => RepeatsShareWorker
  <2> SUFFICES ASSUME Ordered, NEW i \in Instances, NEW j \in Instances,
                      NEW m \in 1..Len(given[i]), NEW n \in 1..Len(given[j]),
                      given[i][m] = given[j][n]
               PROVE  Worker[i] = Worker[j] /\ (i = j => m = n)
    BY DEF RepeatsShareWorker
  <2>1. Worker[i] = Worker[j]
    <3>1. PICK t \in Nat, s \in 0..MaxSequence : given[i][m] = Id(t, Worker[i], s)
      BY DEF Ordered, Packed
    <3>2. PICK u \in Nat, r \in 0..MaxSequence : given[j][n] = Id(u, Worker[j], r)
      BY DEF Ordered, Packed
    <3>3. Worker[i] \in 0..MaxWorkerID /\ Worker[j] \in 0..MaxWorkerID
      BY SnowflakeAssumption
    <3>4. Id(t, Worker[i], s) = Id(u, Worker[j], r)
      BY <3>1, <3>2
    <3> QED BY <3>3, <3>4, IdNamesWorker
  <2>2. ASSUME i = j PROVE m = n
    <3>1. given[i][m] \in Nat /\ given[i][n] \in Nat
      BY <2>2 DEF Ordered, Types
    <3>2. m < n => given[i][m] < given[i][n]
      BY <2>2 DEF Ordered, Sorted
    <3>3. n < m => given[i][n] < given[i][m]
      BY <2>2 DEF Ordered, Sorted
    <3>4. m \in Nat /\ n \in Nat
      BY DEF Ordered, Types
    <3> QED BY <2>2, <3>1, <3>2, <3>3, <3>4
  <2> QED BY <2>1, <2>2
<1> QED BY <1>1, OrderedAlways, PTL

-----------------------------------------------------------------------------
(***************************************************************************)
(* The transactions of the services never wait for each other in a circle, *)
(* for any number of transactions, products, orders and keys.              *)
(*                                                                         *)
(* The argument: a transaction has locked nothing that comes after a row   *)
(* it has still to lock.  So one that is waited for, and waits itself,     *)
(* waits for a stock row, and for one with a greater product id than any   *)
(* stock row it holds.  In a circle the product ids waited for would have  *)
(* no greatest one.                                                        *)
(***************************************************************************)
Rows == {Row("key", k) : k \in Keys} \union {Row("order", o) : o \in Orders} \union Stock(Products)

(* The sets of rows transactions lock, and what is left of them, are rows  *)
(* of the three tables; what is locked comes before what is not. *)
LockTypes ==
  /\ todo \in [Transactions -> SUBSET Rows]
  /\ held \in [Transactions -> SUBSET Rows]

LocksInOrder == \A t \in Transactions : \A h \in held[t], r \in todo[t] : Before(h, r)

OrderInv == LockTypes /\ LocksInOrder

LEMMA BeginKeepsOrder ==
  ASSUME OrderInv, NEW t \in Transactions, NEW rows \in SUBSET Rows, Begin(t, rows)
  PROVE  OrderInv'
<1>1. LockTypes'
  BY DEF OrderInv, LockTypes, Begin
<1>2. held[t] = {} /\ UNCHANGED held /\ \A u \in Transactions : u # t => todo'[u] = todo[u]
  BY DEF OrderInv, LockTypes, Begin, Idle
<1>3. LocksInOrder'
  BY <1>2 DEF OrderInv, LocksInOrder, Before
<1> QED BY <1>1, <1>3 DEF OrderInv

LEMMA OrderStep == OrderInv /\ [LockNext]_lockVars => OrderInv'
<1> SUFFICES ASSUME OrderInv, [LockNext]_lockVars PROVE OrderInv'
  OBVIOUS
<1>1. CASE UNCHANGED lockVars
  BY <1>1 DEF lockVars, OrderInv, LockTypes, LocksInOrder, Before
<1>2. ASSUME NEW t \in Transactions, NEW k \in Keys, NEW S \in Carts, CreateOrder(t, k, S)
      PROVE  OrderInv'
  <2>1. {Row("key", k)} \union Stock(S) \subseteq Rows
    BY LockAssumption DEF Rows, Stock
  <2> QED BY <1>2, <2>1, BeginKeepsOrder DEF CreateOrder
<1>3. ASSUME NEW t \in Transactions, NEW o \in Orders, ReleaseOrConsume(t, o) PROVE OrderInv'
  <2>1. {Row("order", o)} \union Stock(Contents[o]) \subseteq Rows
    BY LockAssumption DEF Rows, Stock
  <2> QED BY <1>3, <2>1, BeginKeepsOrder DEF ReleaseOrConsume
<1>4. ASSUME NEW t \in Transactions, NEW o \in Orders, FinishOrder(t, o) PROVE OrderInv'
  <2>1. {Row("order", o)} \subseteq Rows
    BY DEF Rows
  <2> QED BY <1>4, <2>1, BeginKeepsOrder DEF FinishOrder
<1>5. ASSUME NEW t \in Transactions, NEW p \in Products, ChangeStock(t, p) PROVE OrderInv'
  <2>1. Stock({p}) \subseteq Rows
    BY DEF Rows, Stock
  <2> QED BY <1>5, <2>1, BeginKeepsOrder DEF ChangeStock
<1>6. ASSUME NEW t \in Transactions, Lock(t) PROVE OrderInv'
  <2>1. PICK r \in Upcoming(t) : /\ todo' = [todo EXCEPT ![t] = @ \ {r}]
                                 /\ held' = [held EXCEPT ![t] = @ \union {r}]
    BY <1>6 DEF Lock
  <2>2. r \in todo[t] /\ \A s \in todo[t] \ {r} : Before(r, s)
    BY DEF Upcoming
  <2>3. LockTypes'
    BY <2>1, <2>2 DEF OrderInv, LockTypes
  <2>4. /\ todo'[t] = todo[t] \ {r} /\ held'[t] = held[t] \union {r}
        /\ \A u \in Transactions : u # t => todo'[u] = todo[u] /\ held'[u] = held[u]
    BY <2>1 DEF OrderInv, LockTypes
  <2>5. LocksInOrder'
    BY <2>2, <2>4 DEF OrderInv, LocksInOrder, Before
  <2> QED BY <2>3, <2>5 DEF OrderInv
<1>7. ASSUME NEW t \in Transactions, End(t) PROVE OrderInv'
  BY <1>7 DEF End, OrderInv, LockTypes, LocksInOrder, Before
<1> QED BY <1>1, <1>2, <1>3, <1>4, <1>5, <1>6, <1>7 DEF LockNext

(* Every transaction takes its locks in one order: the key or order row,   *)
(* then the stock rows by their product ids, whatever order the client     *)
(* listed the items in. *)
THEOREM LocksTakenInOrder == LockSpec => [](LockTypes /\ LocksInOrder)
<1>1. LockInit => OrderInv
  BY DEF LockInit, OrderInv, LockTypes, LocksInOrder
<1> QED BY <1>1, OrderStep, PTL DEF LockSpec, OrderInv

-----------------------------------------------------------------------------
(* A transaction that is waited for, and waits itself, waits for a stock   *)
(* row that comes after the one it is waited for. *)
LEMMA WaitsForLaterRow ==
  ASSUME OrderInv, NEW t \in Transactions, NEW h \in held[t], NEW r \in Upcoming(t)
  PROVE  /\ r.table = "stock" /\ r.id \in Products
         /\ h.table = "stock" => h.id < r.id
<1>1. r \in todo[t] /\ r \in Rows /\ Before(h, r)
  BY DEF OrderInv, LockTypes, LocksInOrder, Upcoming
<1>2. r.table = "stock" /\ (h.table = "stock" => h.id < r.id)
  BY <1>1 DEF Before
<1> QED BY <1>1, <1>2 DEF Rows, Row, Stock

(* A non-empty set of naturals that has a bound has a greatest element. *)
LEMMA GreatestNatural ==
  ASSUME NEW b \in Nat, NEW T, T \subseteq 0..b, T # {}
  PROVE  \E m \in T : \A k \in T : k <= m
<1> DEFINE D == {b - k : k \in T}
<1>1. D \subseteq Nat /\ D # {}
  <2>1. \A x \in T : b - x \in Nat
    OBVIOUS
  <2>2. PICK x \in T : TRUE
    OBVIOUS
  <2> QED BY <2>1, <2>2
<1>2. PICK d \in D : \A e \in D : d <= e
  <2> HIDE DEF D
  <2> QED BY <1>1, LeastNatural
<1>3. PICK m \in T : d = b - m
  OBVIOUS
<1>4. ASSUME NEW k \in T PROVE k <= m
  <2>1. b - m <= b - k
    BY <1>2, <1>3
  <2>2. k \in 0..b /\ m \in 0..b
    OBVIOUS
  <2> QED BY <2>1, <2>2
<1> QED BY <1>4

LEMMA NoCycle ==
  ASSUME OrderInv, NEW b \in Nat, Products \subseteq 0..b
  PROVE  NoWaitCycle
<1> SUFFICES ASSUME NEW S \in SUBSET Transactions, S # {},
                    \A t \in S : \E u \in S : Waits(t, u)
             PROVE  FALSE
  BY DEF NoWaitCycle
<1> DEFINE Waited == {p \in Products : \E t, u \in S :
                        \E r \in Upcoming(t) : r \in held[u] /\ r.table = "stock" /\ r.id = p}
<1>1. ASSUME NEW t \in S, NEW u \in S, NEW h \in Upcoming(t), h \in held[u]
      PROVE  \E p \in Waited : h.table = "stock" => h.id < p
  <2>1. PICK v \in S : \E r \in Upcoming(u) : r \in held[v]
    BY DEF Waits
  <2>2. PICK r \in Upcoming(u) : r \in held[v]
    BY <2>1
  <2>3. r.table = "stock" /\ r.id \in Products /\ (h.table = "stock" => h.id < r.id)
    BY <1>1, WaitsForLaterRow
  <2>4. r.id \in Waited
    BY <2>2, <2>3
  <2>5. h.table = "stock" => h.id < r.id
    BY <2>3
  <2> HIDE DEF Waited
  <2> QED BY <2>4, <2>5
<1>2. Waited # {}
  <2>1. PICK t \in S, u \in S : Waits(t, u)
    OBVIOUS
  <2>2. PICK h \in Upcoming(t) : h \in held[u]
    BY <2>1 DEF Waits
  <2> HIDE DEF Waited
  <2> QED BY <1>1, <2>2
<1>3. PICK m \in Waited : \A k \in Waited : k <= m
  <2>1. Waited \subseteq 0..b
    OBVIOUS
  <2> HIDE DEF Waited
  <2> QED BY <1>2, <2>1, GreatestNatural
<1>4. PICK t \in S, u \in S : \E r \in Upcoming(t) : r \in held[u] /\ r.table = "stock" /\ r.id = m
  BY <1>3
<1>5. PICK r \in Upcoming(t) : r \in held[u] /\ r.table = "stock" /\ r.id = m
  BY <1>4
<1>6. PICK p \in Waited : m < p
  <2>1. \E p \in Waited : r.table = "stock" => r.id < p
    <3> HIDE DEF Waited
    <3> QED BY <1>1, <1>5
  <2> HIDE DEF Waited
  <2> QED BY <1>5, <2>1
<1>7. p <= m /\ p \in Nat /\ m \in Nat
  BY <1>3, <1>6, LockAssumption
<1> QED BY <1>6, <1>7

(* Product ids have a greatest one (they are a column of bounded width).   *)
(* Then, however requests, payments, cancellations and stock changes       *)
(* interleave, in every set of transactions there is one that waits for    *)
(* none of the others: MySQL never has to break a deadlock. *)
THEOREM NoDeadlock ==
  ASSUME NEW b \in Nat, Products \subseteq 0..b
  PROVE  LockSpec => []NoWaitCycle
<1>1. LockTypes /\ LocksInOrder => NoWaitCycle
  BY NoCycle DEF OrderInv
<1> QED BY <1>1, LocksTakenInOrder, PTL
=============================================================================
