------------------------------ MODULE SpscRing ------------------------------
(***************************************************************************)
(* The lock-free ring between the realtime thread and the logger or the    *)
(* telemetry thread (SpscRing<Sample>): one producer, one consumer, no     *)
(* lock.  A step is one access to shared memory, so the two threads        *)
(* interleave between the check, the write of the slot and the store of    *)
(* head, and between any two slots a batch copies.  head_ and tail_ are    *)
(* counters of Wrap values that wrap around (size_t); a slot is chosen by  *)
(* their low bits.  The release stores of head_ and tail_, read with       *)
(* acquire, make what precedes them visible, hence sequential consistency. *)
(***************************************************************************)
EXTENDS Integers, Sequences

CONSTANTS Sample,       \* the samples
          Cap,          \* cap_: roundUpPow2 of the configured capacity
          Wrap,         \* the counters count modulo Wrap (2^64)
          Batch         \* the batch sizes the consumer asks for

(* Powers of two in the code: Cap divides Wrap, and Wrap counts beyond Cap.*)
ASSUME RingAssumption ==
  /\ Cap \in Nat \ {0} /\ Wrap \in Nat \ {0}
  /\ Wrap % Cap = 0 /\ Cap < Wrap
  /\ Batch \subseteq Nat \ {0}

ASSUME SampleAssumption == Sample # {}

(* The loop of roundUpPow2, from p = 1.                                    *)
roundUpPow2(v) ==
  LET up[p \in 1 .. 2 * v] == IF p < v THEN up[2 * p] ELSE p
  IN  IF v < 2 THEN 2 ELSE up[1]

VARIABLES
  head, tail,           \* the counters, written by producer and consumer
  buf,                  \* the slots
  dropped,              \* samples refused
  ppc, v,               \* the producer in push(v)
  cpc, h, t, max_n, out,\* the consumer in popBatch(out, max_n)
  batch                 \* what popBatch returned last

producer == <<head, buf, dropped, ppc, v>>
consumer == <<tail, cpc, h, t, max_n, out, batch>>
vars     == <<producer, consumer>>

Counter == 0 .. (Wrap - 1)
Slot    == 0 .. (Cap - 1)

Plus1(c)    == (c + 1) % Wrap
Minus(a, b) == (a - b) % Wrap
slotOf(c)   == c % Cap

TypeOK ==
  /\ head \in Counter /\ tail \in Counter
  /\ buf \in [Slot -> Sample]
  /\ dropped \in Counter
  /\ ppc \in {"idle", "write", "publish"} /\ v \in Sample
  /\ cpc \in {"idle", "copy"}
  /\ h \in Counter /\ t \in Counter
  /\ max_n \in Nat /\ out \in Seq(Sample) /\ batch \in Seq(Sample)

(* init(): empty.  The slots hold whatever the allocation left there.      *)
Init ==
  /\ head = 0 /\ tail = 0 /\ dropped = 0
  /\ buf \in [Slot -> Sample]
  /\ ppc = "idle" /\ v \in Sample
  /\ cpc = "idle" /\ h = 0 /\ t = 0 /\ max_n = 0 /\ out = <<>>
  /\ batch = <<>>

-----------------------------------------------------------------------------
(* push(s): full, and the sample is dropped and counted ...                *)
(* Slip: one sample too many.                                              *)
FullOneMore == Minus(head, tail) > Cap

Full == Minus(head, tail) >= Cap

PushDrop ==
  /\ ppc = "idle" /\ Full
  /\ dropped' = Plus1(dropped)
  /\ UNCHANGED <<head, buf, ppc, v, consumer>>

(* ... or there is room, ...                                               *)
PushBegin(s) ==
  /\ ppc = "idle" /\ ~Full
  /\ ppc' = "write"
  /\ v' = s
  /\ UNCHANGED <<head, buf, dropped, consumer>>

(* ... the slot is written ...                                             *)
PushWrite ==
  /\ ppc = "write"
  /\ buf' = [buf EXCEPT ![slotOf(head)] = v]
  /\ ppc' = "publish"
  /\ UNCHANGED <<head, dropped, v, consumer>>

(* ... and then head, which hands the sample over.                         *)
PushPublish ==
  /\ ppc = "publish"
  /\ head' = Plus1(head)
  /\ ppc' = "idle"
  /\ UNCHANGED <<buf, dropped, v, consumer>>

Producer == PushDrop \/ (\E s \in Sample : PushBegin(s)) \/ PushWrite \/ PushPublish

(* popBatch(out, n): head and tail are loaded once, ...                    *)
PopBegin(n) ==
  /\ cpc = "idle"
  /\ h' = head /\ t' = tail
  /\ max_n' = n /\ out' = <<>>
  /\ cpc' = "copy"
  /\ UNCHANGED <<tail, batch, producer>>

More == t # h /\ Len(out) < max_n

(* ... slots are copied one after the other ...                            *)
PopCopy ==
  /\ cpc = "copy" /\ More
  /\ out' = Append(out, buf[slotOf(t)])
  /\ t' = Plus1(t)
  /\ UNCHANGED <<tail, cpc, h, max_n, batch, producer>>

(* Slips: everything seen is given back, or nothing.                       *)
PopEndAll ==
  /\ cpc = "copy" /\ ~More
  /\ tail' = h /\ batch' = out
  /\ cpc' = "idle" /\ out' = <<>>
  /\ UNCHANGED <<h, t, max_n, producer>>

PopEndNothing ==
  /\ cpc = "copy" /\ ~More
  /\ batch' = out
  /\ cpc' = "idle" /\ out' = <<>>
  /\ UNCHANGED <<tail, h, t, max_n, producer>>

(* ... and then the store of tail gives them back to the producer.         *)
PopEnd ==
  /\ cpc = "copy" /\ ~More
  /\ tail' = t
  /\ batch' = out
  /\ cpc' = "idle" /\ out' = <<>>
  /\ UNCHANGED <<h, t, max_n, producer>>

Consumer == (\E n \in Batch : PopBegin(n)) \/ PopCopy \/ PopEnd

Next == Producer \/ Consumer

Spec == Init /\ [][Next]_vars /\ WF_vars(Consumer)

-----------------------------------------------------------------------------
(* The counters never run apart: at most Cap samples are queued, a batch   *)
(* ends within what the consumer saw and that within what is there, and    *)
(* the producer writes only a slot that is free -- although each side acts *)
(* on a counter of the other that may have moved on.                       *)
Bounds ==
  /\ Minus(head, tail) <= Cap
  /\ ppc # "idle" => Minus(head, tail) < Cap
  /\ cpc = "copy" => /\ Minus(h, tail) <= Minus(head, tail)
                     /\ Minus(t, tail) = Len(out)
                     /\ Len(out) <= Minus(h, tail)

(* The queue the ring stands for: the slots from tail up to head.          *)
Queued ==
  [i \in 1 .. Minus(head, tail) |-> buf[slotOf((tail + i - 1) % Wrap)]]

(* What a batch has copied so far is the front of the queue: no slot is    *)
(* overwritten while it is being copied.                                   *)
CopiedIsQueued ==
  cpc = "copy" => \A i \in 1 .. Len(out) : out[i] = Queued[i]

(* What is queued is taken: the oldest sample does not wait for ever.      *)
OldestIsTaken ==
  \A c \in Counter : (tail = c /\ head # c) ~> tail # c

(* The ring implements the queue.                                          *)
Q == INSTANCE SampleQueue WITH
       Capacity <- Cap, Width <- Wrap,
       queue <- Queued, lost <- dropped, taken <- batch

ImplementsQueue == Q!Spec
=============================================================================
