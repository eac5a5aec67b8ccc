---------------------------- MODULE SampleQueue ----------------------------
(***************************************************************************)
(* What a telemetry ring promises its two threads: a bounded first-in      *)
(* first-out queue of samples.  The producer never waits: a sample that    *)
(* finds Capacity samples queued is dropped and counted.  The consumer     *)
(* takes a batch from the front.                                           *)
(***************************************************************************)
EXTENDS Naturals, Sequences

CONSTANTS Sample,       \* the samples
          Capacity,     \* how many of them are queued at most
          Width         \* the drop counter counts modulo Width

VARIABLES queue,        \* the samples queued, oldest first
          taken,        \* the batch the consumer took last
          lost          \* the number of samples dropped, modulo Width

Init ==
  /\ queue = <<>>
  /\ taken = <<>>
  /\ lost = 0

Put(v) ==
  /\ Len(queue) < Capacity
  /\ queue' = Append(queue, v)
  /\ UNCHANGED <<taken, lost>>

Drop ==
  /\ Len(queue) = Capacity
  /\ lost' = (lost + 1) % Width
  /\ UNCHANGED <<queue, taken>>

Take(n) ==
  /\ n <= Len(queue)
  /\ taken' = SubSeq(queue, 1, n)
  /\ queue' = SubSeq(queue, n + 1, Len(queue))
  /\ UNCHANGED lost

Next ==
  \/ \E v \in Sample : Put(v)
  \/ Drop
  \/ \E n \in 0 .. Capacity : Take(n)

Spec == Init /\ [][Next]_<<queue, taken, lost>>
=============================================================================
