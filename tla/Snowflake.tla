------------------------------ MODULE Snowflake ------------------------------
(***************************************************************************)
(* The generator of order numbers.  Each instance of the service has one,  *)
(* behind a mutex: a call that sleeps or waits keeps the others out.       *)
(*                                                                         *)
(* The clock of an instance ticks; it can be set back, and a call can find *)
(* it behind the last number it gave out.  A number is the time, the       *)
(* worker id and a sequence number packed into one integer.                *)
(***************************************************************************)
EXTENDS Integers, Sequences

CONSTANTS Instances,
          Worker,       \* Worker[i]: the worker id of instance i
          MaxWorkerID,
          MaxSequence,
          Tolerance,    \* how far back the clock may be for a call to sleep
          MaxTime,      \* bound: the clocks
          MaxBack,      \* bound: how often clocks are set back
          MaxRestarts   \* bound: how often instances restart

ASSUME SnowflakeAssumption ==
  /\ MaxWorkerID \in Nat
  /\ MaxSequence \in Nat
  /\ Worker \in [Instances -> 0..MaxWorkerID]
  /\ Tolerance \in Nat
  /\ MaxTime \in Nat
  /\ MaxBack \in Nat
  /\ MaxRestarts \in Nat

VARIABLES
  clock,      \* the time each instance reads
  last,       \* lastTimestamp
  sequence,   \* sequence
  call,       \* the call that holds the mutex
  given,      \* history: the numbers each instance gave out, in order
  backs,      \* how often a clock was set back
  restarts    \* how often an instance restarted

vars == <<clock, last, sequence, call, given, backs, restarts>>

NoCall == [op |-> "none"]

Init ==
  /\ clock = [i \in Instances |-> 1]
  /\ last = [i \in Instances |-> -1]
  /\ sequence = [i \in Instances |-> 0]
  /\ call = [i \in Instances |-> NoCall]
  /\ given = [i \in Instances |-> <<>>]
  /\ backs = 0
  /\ restarts = 0

(* The shifts by workerShift and timeShift. *)
Id(t, w, s) == (t * (MaxWorkerID + 1) + w) * (MaxSequence + 1) + s

(* The call returns the number for time t and sequence number s. *)
Give(i, t, s) ==
  /\ last' = [last EXCEPT ![i] = t]
  /\ sequence' = [sequence EXCEPT ![i] = s]
  /\ given' = [given EXCEPT ![i] = Append(@, Id(t, Worker[i], s))]
  /\ call' = [call EXCEPT ![i] = NoCall]

(* The clock is not behind: the next sequence number of this millisecond,  *)
(* the first one of a new millisecond or, when the sequence is used up,    *)
(* the start of a wait for the next millisecond. *)
Number(i) ==
  IF clock[i] = last[i]
  THEN IF sequence[i] < MaxSequence
       THEN Give(i, clock[i], sequence[i] + 1)
       ELSE /\ sequence' = [sequence EXCEPT ![i] = 0]
            /\ call' = [call EXCEPT ![i] = [op |-> "wait"]]
            /\ UNCHANGED <<last, given>>
  ELSE Give(i, clock[i], 0)

(* Defect: the time is not compared with the last one. *)
CallUnordered(i) ==
  /\ call[i] = NoCall
  /\ Number(i)
  /\ UNCHANGED <<clock, backs, restarts>>

NextID(i) ==
  /\ call[i] = NoCall
  /\ clock[i] >= last[i]
  /\ Number(i)
  /\ UNCHANGED <<clock, backs, restarts>>

(* The clock is a little behind: the call sleeps for the difference.  When *)
(* it is further behind the call fails and changes nothing. *)
Sleep(i) ==
  /\ call[i] = NoCall
  /\ clock[i] < last[i]
  /\ last[i] - clock[i] <= Tolerance
  /\ call' = [call EXCEPT ![i] = [op |-> "sleep", left |-> last[i] - clock[i]]]
  /\ UNCHANGED <<clock, last, sequence, given, backs, restarts>>

Wake(i) ==
  /\ call[i] = [op |-> "sleep", left |-> 0]
  /\ clock[i] >= last[i]
  /\ Number(i)
  /\ UNCHANGED <<clock, backs, restarts>>

(* The clock was set back once more: the call fails. *)
WakeBehind(i) ==
  /\ call[i] = [op |-> "sleep", left |-> 0]
  /\ clock[i] < last[i]
  /\ call' = [call EXCEPT ![i] = NoCall]
  /\ UNCHANGED <<clock, last, sequence, given, backs, restarts>>

WaitOver(i) ==
  /\ call[i].op = "wait"
  /\ clock[i] > last[i]
  /\ Give(i, clock[i], sequence[i])
  /\ UNCHANGED <<clock, backs, restarts>>

(* A millisecond passes; it passes for a call that sleeps too. *)
Tick(i) ==
  /\ clock[i] < MaxTime
  /\ clock' = [clock EXCEPT ![i] = @ + 1]
  /\ IF call[i].op = "sleep" /\ call[i].left > 0
     THEN call' = [call EXCEPT ![i].left = @ - 1]
     ELSE UNCHANGED call
  /\ UNCHANGED <<last, sequence, given, backs, restarts>>

(* A generator notices a clock that was set back only by the time it       *)
(* remembers, and a restart forgets it: behaviours have either set-backs   *)
(* or restarts. *)
SetBack(i) ==
  /\ restarts = 0
  /\ backs < MaxBack
  /\ \E t \in 1..clock[i] - 1 : clock' = [clock EXCEPT ![i] = t]
  /\ backs' = backs + 1
  /\ UNCHANGED <<last, sequence, call, given, restarts>>

(* The process starts again: it remembers nothing, and takes longer than a *)
(* millisecond to come up. *)
Restart(i) ==
  /\ backs = 0
  /\ restarts < MaxRestarts
  /\ restarts' = restarts + 1
  /\ clock[i] < MaxTime
  /\ clock' = [clock EXCEPT ![i] = @ + 1]
  /\ last' = [last EXCEPT ![i] = -1]
  /\ sequence' = [sequence EXCEPT ![i] = 0]
  /\ call' = [call EXCEPT ![i] = NoCall]
  /\ UNCHANGED <<given, backs>>

Next ==
  \E i \in Instances :
    \/ NextID(i)
    \/ Sleep(i)
    \/ Wake(i)
    \/ WakeBehind(i)
    \/ WaitOver(i)
    \/ Tick(i)
    \/ SetBack(i)
    \/ Restart(i)

Spec == Init /\ [][Next]_vars

-----------------------------------------------------------------------------
(* The numbers an instance gives out grow: no later one is smaller than an *)
(* earlier one or equal to it, although its clock is set back or it        *)
(* restarts, and the sequence runs out while callers queue for the lock. *)
Increasing ==
  \A i \in Instances : \A n \in 1..Len(given[i]) - 1 : given[i][n] < given[i][n + 1]

(* No number is ever given out twice, by one instance or by two: what a    *)
(* "distributed unique ID generator" promises. *)
UniqueIds ==
  \A i, j \in Instances :
    \A m \in 1..Len(given[i]), n \in 1..Len(given[j]) :
      given[i][m] = given[j][n] => i = j /\ m = n
=============================================================================
