------------------------------- MODULE Family -------------------------------
(***************************************************************************)
(* The familyState of src/pkg/metrics_state.go, which summarises the       *)
(* events of one kind in constant space: a ring of the latest samples with *)
(* the running sum of their durations, a wheel that counts the events of   *)
(* each of the latest seconds, and the counts of three windows as they     *)
(* were when the latest event was recorded.                                *)
(*                                                                         *)
(* A sample is a record with the second `start' and the duration `took'.   *)
(* Seconds are Unix seconds, so they are positive.                         *)
(***************************************************************************)
EXTENDS Integers, Functions

CONSTANTS
  RingSize,      \* samples kept
  WheelSeconds,  \* seconds the wheel looks back
  Windows        \* seconds of the windows that are counted

ASSUME FamilyAssumption ==
  /\ RingSize \in Nat \ {0}
  /\ WheelSeconds \in Nat \ {0}
  /\ Windows \subseteq 1..WheelSeconds

(***************************************************************************)
(* floatRing and timeRing.  Both take one sample per event and are one     *)
(* ring here.                                                              *)
(***************************************************************************)

EmptyRing ==
  [vals |-> [i \in 0..RingSize-1 |-> [start |-> 0, took |-> 0]], n |-> 0, total |-> 0]

Held(r) == IF r.n < RingSize THEN r.n ELSE RingSize

\* Mutant: the sum keeps the samples that leave the ring.
AddKeepsTotal(r, v) ==
  [vals |-> [r.vals EXCEPT ![r.n % RingSize] = v], n |-> r.n + 1, total |-> r.total + v.took]

Add(r, v) ==
  LET i == r.n % RingSize IN
  [vals  |-> [r.vals EXCEPT ![i] = v],
   n     |-> r.n + 1,
   total |-> r.total + v.took - IF r.n >= RingSize THEN r.vals[i].took ELSE 0]

\* The samples, oldest first.
Slice(r) == [j \in 1..Held(r) |-> r.vals[(r.n - Held(r) + j - 1) % RingSize]]

(***************************************************************************)
(* bucketWheel                                                             *)
(***************************************************************************)

EmptyWheel == [buckets |-> [i \in 0..WheelSeconds-1 |-> 0], lastSec |-> 0]

\* The slots of the seconds that have begun since are cleared, which are all of
\* them after a long gap.
Advance(w, sec) ==
  IF w.lastSec = 0 THEN [w EXCEPT !.lastSec = sec]
  ELSE IF sec <= w.lastSec THEN w
  ELSE [buckets |-> [i \in 0..WheelSeconds-1 |->
                       IF \E s \in w.lastSec+1..sec : s % WheelSeconds = i THEN 0 ELSE w.buckets[i]],
        lastSec |-> sec]

\* Mutant: an event older than the last one is dropped.
TurnDropsLate(w, sec) ==
  LET v == Advance(w, sec) IN
  IF sec = v.lastSec THEN [v EXCEPT !.buckets[sec % WheelSeconds] = @ + 1] ELSE v

\* bucketWheel.record: an event that began a little before the last one still
\* counts.
Turn(w, sec) ==
  LET v == Advance(w, sec) IN
  IF v.lastSec - sec < WheelSeconds
    THEN [v EXCEPT !.buckets[sec % WheelSeconds] = @ + 1]
    ELSE v

\* countLast, on a wheel that has been advanced to now.
CountLast(w, now, seconds) ==
  SumFunction([s \in {x \in now-seconds+1..now : x > 0} |-> w.buckets[s % WheelSeconds]])

(***************************************************************************)
(* familyState                                                             *)
(***************************************************************************)

EmptyFamily ==
  [ring |-> EmptyRing, wheel |-> EmptyWheel, ratio |-> [k \in Windows |-> 0]]

\* familyState.record, at the instant now.
RecordSample(f, v, now) ==
  LET w == Advance(Turn(f.wheel, v.start), now) IN
  [ring |-> Add(f.ring, v), wheel |-> w, ratio |-> [k \in Windows |-> CountLast(w, now, k)]]
=============================================================================
