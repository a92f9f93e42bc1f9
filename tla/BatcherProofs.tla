--------------------------- MODULE BatcherProofs ---------------------------
(* Proofs about the telemetry batcher, for any number of handlers, closers *)
(* and events and for any limits Config.Validate accepts.                  *)
EXTENDS Batcher, SequenceTheorems, FunctionTheorems, FiniteSetTheorems, TLAPS

-----------------------------------------------------------------------------
(* Bytes counts the byte positions of a finite set, so it is a number.     *)
LEMMA BytesType ==
  ASSUME NEW q \in Seq(Event)
  PROVE  /\ IsFiniteSet(BytePositions(q))
         /\ Bytes(q) \in Nat
<1>1. Len(q) \in Nat /\ MaxEventBytes \in Nat
  BY ConfigAssumption
<1>2. IsFiniteSet((1 .. Len(q)) \X (1 .. MaxEventBytes))
  <2>1. IsFiniteSet(1 .. Len(q)) /\ IsFiniteSet(1 .. MaxEventBytes)
    BY <1>1, FS_Interval
  <2> QED
    BY <2>1, FS_Product
<1>3. IsFiniteSet(BytePositions(q))
  BY <1>2, FS_Subset DEF BytePositions
<1> QED
  BY <1>3, FS_CardinalityType DEF Bytes

(* An empty queue holds no bytes.                                          *)
LEMMA BytesEmpty == Bytes(<<>>) = 0
<1>1. BytePositions(<<>>) = {}
  BY DEF BytePositions
<1> QED
  BY <1>1, FS_EmptySet DEF Bytes

(* The bytes of a concatenation are the bytes of its parts: what Enqueue   *)
(* adds to pendingBytes and takeBatch subtracts from it.                   *)
LEMMA BytesConcat ==
  ASSUME NEW s \in Seq(Event), NEW t \in Seq(Event)
  PROVE  Bytes(s \o t) = Bytes(s) + Bytes(t)
<1> DEFINE st == s \o t
           High == {p \in BytePositions(st) : p[1] > Len(s)}
           f == [p \in BytePositions(t) |-> <<p[1] + Len(s), p[2]>>]
<1>1. /\ st \in Seq(Event)
      /\ Len(st) = Len(s) + Len(t)
      /\ \A i \in 1 .. Len(s) + Len(t) :
           st[i] = IF i <= Len(s) THEN s[i] ELSE t[i - Len(s)]
  BY ConcatProperties
<1>2. /\ Len(s) \in Nat /\ Len(t) \in Nat /\ MaxEventBytes \in Nat
  BY ConfigAssumption
<1>3. BytePositions(st) = BytePositions(s) \cup High
  <2>1. ASSUME NEW p \in BytePositions(st), ~(p[1] > Len(s))
        PROVE  p \in BytePositions(s)
    BY <1>1, <1>2, <2>1 DEF BytePositions
  <2>2. ASSUME NEW p \in BytePositions(s)
        PROVE  p \in BytePositions(st)
    BY <1>1, <1>2, <2>2 DEF BytePositions
  <2> QED
    BY <2>1, <2>2
<1>4. BytePositions(s) \cap High = {}
  BY <1>2 DEF BytePositions
<1>5. f \in Bijection(BytePositions(t), High)
  <2>1. ASSUME NEW p \in BytePositions(t)
        PROVE  f[p] \in High
    <3>1. p[1] \in 1 .. Len(t) /\ p[2] \in 1 .. MaxEventBytes
      BY DEF BytePositions
    <3>2. st[p[1] + Len(s)] = t[p[1]]
      BY <1>1, <1>2, <3>1
    <3> QED
      BY <1>1, <1>2, <3>1, <3>2 DEF BytePositions
  <2>2. ASSUME NEW p \in BytePositions(t), NEW q \in BytePositions(t), f[p] = f[q]
        PROVE  p = q
    BY <1>2, <2>2 DEF BytePositions
  <2>3. ASSUME NEW h \in High
        PROVE  \E p \in BytePositions(t) : f[p] = h
    <3>1. /\ h[1] \in Len(s) + 1 .. Len(s) + Len(t)
          /\ h[2] \in 1 .. MaxEventBytes
          /\ h = <<h[1], h[2]>>
          /\ h[2] <= Size[st[h[1]]]
      BY <1>1, <1>2 DEF BytePositions
    <3>2. st[h[1]] = t[h[1] - Len(s)]
      BY <1>1, <1>2, <3>1
    <3>3. <<h[1] - Len(s), h[2]>> \in BytePositions(t)
      BY <1>2, <3>1, <3>2 DEF BytePositions
    <3>4. f[<<h[1] - Len(s), h[2]>>] = h
      BY <1>2, <3>1, <3>3
    <3> QED
      BY <3>3, <3>4
  <2>4. f \in [BytePositions(t) -> High]
    BY <2>1
  <2> QED
    BY <2>2, <2>3, <2>4, Fun_IsBij
<1>6. /\ IsFiniteSet(High)
      /\ Cardinality(High) = Bytes(t)
  <2>1. ExistsBijection(BytePositions(t), High)
    BY <1>5 DEF ExistsBijection
  <2> QED
    BY <2>1, BytesType, FS_Bijection DEF Bytes
<1>7. Cardinality(BytePositions(st))
        = Cardinality(BytePositions(s)) + Cardinality(High) - Cardinality({})
  BY <1>3, <1>4, <1>6, BytesType, FS_Union
<1> QED
  BY <1>6, <1>7, BytesType, FS_EmptySet DEF Bytes

(* Concatenation of event sequences is associative.                        *)
LEMMA EventConcat ==
  \A s, t, u \in Seq(Event) : (s \o t) \o u = s \o (t \o u)
BY ConcatAssociative

(* takeBatch splits the queue, and its bytes, in two.                      *)
LEMMA SplitQueue ==
  ASSUME NEW q \in Seq(Event), NEW k \in 1 .. Len(q)
  PROVE  /\ SubSeq(q, 1, k) \in Seq(Event)
         /\ SubSeq(q, k + 1, Len(q)) \in Seq(Event)
         /\ Len(SubSeq(q, k + 1, Len(q))) = Len(q) - k
         /\ q = SubSeq(q, 1, k) \o SubSeq(q, k + 1, Len(q))
         /\ Bytes(q) = Bytes(SubSeq(q, 1, k)) + Bytes(SubSeq(q, k + 1, Len(q)))
<1>1. Len(q) \in Nat /\ \A i \in 1 .. Len(q) : q[i] \in Event
  OBVIOUS
<1>2. /\ SubSeq(q, 1, k) \in Seq(Event)
      /\ SubSeq(q, k + 1, Len(q)) \in Seq(Event)
      /\ Len(SubSeq(q, k + 1, Len(q))) = Len(q) - k
  <2>1. SubSeq(q, 1, k) \in Seq(Event)
    BY <1>1, SubSeqProperties
  <2>2. /\ SubSeq(q, k + 1, Len(q)) \in Seq(Event)
        /\ Len(SubSeq(q, k + 1, Len(q))) = IF k + 1 <= Len(q) THEN Len(q) - (k + 1) + 1 ELSE 0
    BY <1>1, SubSeqProperties
  <2> QED
    BY <1>1, <2>1, <2>2
<1>3. q = SubSeq(q, 1, k) \o SubSeq(q, k + 1, Len(q))
  <2>1. SubSeq(q, 1, k) \o SubSeq(q, k + 1, Len(q)) = SubSeq(q, 1, Len(q))
    BY <1>1, ConcatAdjacentSubSeq
  <2> QED
    BY <2>1, SubSeqFull
<1> QED
  BY <1>2, <1>3, BytesConcat

-----------------------------------------------------------------------------
(* The inductive invariant.  NoLostWakeup needs the wake-up to be pending   *)
(* before the loop starts as well; FifoConservation needs to know that a    *)
(* batch is held only while it is written and that events are discarded     *)
(* only at the very end; DrainedOnExit needs the count taken by the drain   *)
(* to be the length of the queue still, because the batcher is closed.      *)
WakeInv == (thresholdReached /\ (Parked \/ loop = "off")) => WakePending

LoopInv ==
  /\ batch # <<>> => loop = "write"
  /\ discarded # <<>> => loop = "exited"
  /\ loop = "discard" => remaining = Len(queue)
  /\ loop = "exited" => queue = <<>>
  /\ (loop \in {"drain", "discard", "exited"} \/ after = "drain") => closed

CloseInv ==
  /\ loop # "off" => started
  /\ ~closed => stopClosed = 0
  /\ stopClosed <= 1 /\ doneClosed <= 1
  /\ doneClosed = 1 => (loop = "exited" \/ (loop = "off" /\ started))

IInv == TypeOK /\ QueueAccounting /\ FifoConservation /\ WakeInv /\ LoopInv /\ CloseInv

(* The batcher starts empty, with nothing closed.                          *)
LEMMA InitIInv == Init => IInv
<1> SUFFICES ASSUME Init PROVE IInv
  OBVIOUS
<1> USE DEF Init
<1>1. TypeOK
  <2>1. <<>> \in Seq(Event)
    BY EmptySeq
  <2>2. metrics \in [accepted : Nat, dropped : Nat, flushed : Nat]
    OBVIOUS
  <2>3. closed \in BOOLEAN /\ started \in BOOLEAN /\ wake \in BOOLEAN /\ drainExpired \in BOOLEAN
    OBVIOUS
  <2> QED
    BY <2>1, <2>2, <2>3 DEF TypeOK
<1>2. QueueAccounting
  BY BytesEmpty, ConfigAssumption DEF QueueAccounting
<1>3. FifoConservation
  BY DEF FifoConservation
<1>4. WakeInv
  BY ConfigAssumption DEF WakeInv, thresholdReached
<1>5. LoopInv /\ CloseInv
  BY DEF LoopInv, CloseInv
<1> QED
  BY <1>1, <1>2, <1>3, <1>4, <1>5 DEF IInv
(* Every step keeps the inductive invariant: one step per action, under it  *)
(* one per conjunct.                                                        *)
LEMMA NextIInv == IInv /\ [Next]_vars => IInv'
<1> SUFFICES ASSUME IInv, [Next]_vars
             PROVE  IInv'
  OBVIOUS
<1>0. /\ TypeOK /\ QueueAccounting /\ FifoConservation
      /\ WakeInv /\ LoopInv /\ CloseInv
  BY DEF IInv
<1> USE DEF lockVars, chanVars, loopVars, histVars
<1>1. CASE Start
  <2>1. TypeOK'
    BY <1>0, <1>1 DEF TypeOK, Start
  <2>2. QueueAccounting'
    BY <1>0, <1>1 DEF QueueAccounting, Start, Bytes, BytePositions
  <2>3. FifoConservation'
    BY <1>0, <1>1 DEF FifoConservation, Start
  <2>4. WakeInv'
    <3>1. loop = "off"
      BY <1>0, <1>1 DEF CloseInv, Start
    <3> QED
      BY <1>0, <1>1, <3>1 DEF WakeInv, thresholdReached, Parked, WakePending, Start
  <2>5. LoopInv' /\ CloseInv'
    BY <1>0, <1>1 DEF LoopInv, CloseInv, Start, TypeOK
  <2> QED
    BY <2>1, <2>2, <2>3, <2>4, <2>5 DEF IInv
<1>2. ASSUME NEW r \in Request, Enqueue(r)
      PROVE  IInv'
  <2>0. Body[r] \in Seq(Event)
    BY BodyAssumption
  <2>a. /\ queue' \in Seq(Event) /\ admitted' \in Seq(Event)
        /\ Len(queue') = Len(queue) + Len(Body[r])
        /\ Bytes(queue') = Bytes(queue) + Bytes(Body[r])
    BY <1>0, <1>2, <2>0, ConcatProperties, BytesConcat DEF TypeOK, Enqueue
  <2>1. TypeOK'
    <3>1. pendingBytes' \in Nat
      <4>1. pendingBytes' = pendingBytes + Bytes(Body[r])
        BY <1>2 DEF Enqueue
      <4>2. pendingBytes \in Nat /\ Bytes(Body[r]) \in Nat
        BY <1>0, <2>0, BytesType DEF TypeOK
      <4> QED
        BY <4>1, <4>2
    <3>2. handler' \in [Request -> {"new", "count", "countAndWake", "countDrop",
                              "signal", "accepted", "rejected"}]
      BY <1>0, <1>2 DEF TypeOK, Enqueue
    <3>3. UNCHANGED <<closed, started, chanVars, closer, loopVars, metrics, taken, discarded>>
      BY <1>2 DEF Enqueue
    <3> QED
      BY <1>0, <2>a, <3>1, <3>2, <3>3 DEF TypeOK, chanVars, loopVars
  <2>2. QueueAccounting'
    BY <1>0, <1>2, <2>a DEF QueueAccounting, Enqueue, EnqueueAdmits
  <2>3. FifoConservation'
    <3> DEFINE done == (taken \o batch) \o discarded
    <3>1. done \in Seq(Event)
      BY <1>0, ConcatProperties DEF TypeOK
    <3>2. (done \o queue) \o Body[r] = done \o (queue \o Body[r])
      <4> HIDE DEF done
      <4>1. queue \in Seq(Event)
        BY <1>0 DEF TypeOK
      <4> QED
        BY <2>0, <3>1, <4>1, EventConcat, Zenon
    <3> QED
      BY <1>0, <1>2, <3>2 DEF FifoConservation, Enqueue
  <2>4. WakeInv'
    <3>1. ASSUME thresholdReached'
          PROVE  WakePending'
      <4>1. handler'[r] = "countAndWake"
        BY <1>0, <1>2, <3>1 DEF TypeOK, Enqueue
      <4> QED
        BY <4>1 DEF WakePending
    <3> QED
      BY <3>1 DEF WakeInv
  <2>5. LoopInv' /\ CloseInv'
    BY <1>0, <1>2 DEF LoopInv, CloseInv, Enqueue, EnqueueAdmits, TypeOK
  <2> QED
    BY <2>1, <2>2, <2>3, <2>4, <2>5 DEF IInv
<1>3. ASSUME NEW r \in Request, EnqueueRefuses(r)
      PROVE  IInv'
  <2>1. TypeOK'
    BY <1>0, <1>3 DEF TypeOK, EnqueueRefuses
  <2>2. QueueAccounting'
    BY <1>0, <1>3 DEF QueueAccounting, EnqueueRefuses, Bytes, BytePositions
  <2>3. FifoConservation'
    BY <1>0, <1>3 DEF FifoConservation, EnqueueRefuses
  <2>4. WakeInv'
    BY <1>0, <1>3 DEF WakeInv, thresholdReached, Parked, WakePending, EnqueueRefuses, TypeOK
  <2>5. LoopInv' /\ CloseInv'
    BY <1>0, <1>3 DEF LoopInv, CloseInv, EnqueueRefuses, TypeOK
  <2> QED
    BY <2>1, <2>2, <2>3, <2>4, <2>5 DEF IInv
<1>4. ASSUME NEW r \in Request, EnqueueEmpty(r)
      PROVE  IInv'
  <2>1. TypeOK'
    BY <1>0, <1>4 DEF TypeOK, EnqueueEmpty
  <2>2. QueueAccounting'
    BY <1>0, <1>4 DEF QueueAccounting, EnqueueEmpty, Bytes, BytePositions
  <2>3. FifoConservation'
    BY <1>0, <1>4 DEF FifoConservation, EnqueueEmpty
  <2>4. WakeInv'
    BY <1>0, <1>4 DEF WakeInv, thresholdReached, Parked, WakePending, EnqueueEmpty, TypeOK
  <2>5. LoopInv' /\ CloseInv'
    BY <1>0, <1>4 DEF LoopInv, CloseInv, EnqueueEmpty, TypeOK
  <2> QED
    BY <2>1, <2>2, <2>3, <2>4, <2>5 DEF IInv
<1>5. ASSUME NEW r \in Request, EnqueueCounts(r)
      PROVE  IInv'
  <2>1. TypeOK'
    <3>1. Len(Body[r]) \in Nat /\ metrics \in [accepted : Nat, dropped : Nat, flushed : Nat]
      BY <1>0, BodyAssumption DEF TypeOK
    <3>2. \/ metrics' = [metrics EXCEPT !.dropped = @ + Len(Body[r])]
          \/ metrics' = [metrics EXCEPT !.accepted = @ + Len(Body[r])]
      BY <1>5 DEF EnqueueCounts
    <3>3. metrics' \in [accepted : Nat, dropped : Nat, flushed : Nat]
      BY <3>1, <3>2
    <3> QED
      BY <1>0, <1>5, <3>3 DEF TypeOK, EnqueueCounts
  <2>2. QueueAccounting'
    BY <1>0, <1>5 DEF QueueAccounting, EnqueueCounts, Bytes, BytePositions
  <2>3. FifoConservation'
    BY <1>0, <1>5 DEF FifoConservation, EnqueueCounts
  <2>4. WakeInv'
    BY <1>0, <1>5 DEF WakeInv, thresholdReached, Parked, WakePending, EnqueueCounts, TypeOK
  <2>5. LoopInv' /\ CloseInv'
    BY <1>0, <1>5 DEF LoopInv, CloseInv, EnqueueCounts, TypeOK
  <2> QED
    BY <2>1, <2>2, <2>3, <2>4, <2>5 DEF IInv
<1>6. ASSUME NEW r \in Request, signal(r)
      PROVE  IInv'
  <2>1. TypeOK'
    BY <1>0, <1>6 DEF TypeOK, signal
  <2>2. QueueAccounting'
    BY <1>0, <1>6 DEF QueueAccounting, signal, Bytes, BytePositions
  <2>3. FifoConservation'
    BY <1>0, <1>6 DEF FifoConservation, signal
  <2>4. WakeInv'
    BY <1>0, <1>6 DEF WakeInv, thresholdReached, Parked, WakePending, signal, TypeOK
  <2>5. LoopInv' /\ CloseInv'
    BY <1>0, <1>6 DEF LoopInv, CloseInv, signal, TypeOK
  <2> QED
    BY <2>1, <2>2, <2>3, <2>4, <2>5 DEF IInv
<1>7. ASSUME NEW c \in Closer, CloseNotStarted(c)
      PROVE  IInv'
  <2>1. TypeOK'
    BY <1>0, <1>7 DEF TypeOK, CloseNotStarted
  <2>2. QueueAccounting'
    BY <1>0, <1>7 DEF QueueAccounting, CloseNotStarted, Bytes, BytePositions
  <2>3. FifoConservation'
    BY <1>0, <1>7 DEF FifoConservation, CloseNotStarted
  <2>4. WakeInv'
    BY <1>0, <1>7 DEF WakeInv, thresholdReached, Parked, WakePending, CloseNotStarted, TypeOK
  <2>5. LoopInv' /\ CloseInv'
    BY <1>0, <1>7 DEF LoopInv, CloseInv, CloseNotStarted, TypeOK
  <2> QED
    BY <2>1, <2>2, <2>3, <2>4, <2>5 DEF IInv
<1>8. ASSUME NEW c \in Closer, Close(c)
      PROVE  IInv'
  <2>1. TypeOK'
    BY <1>0, <1>8 DEF TypeOK, Close
  <2>2. QueueAccounting'
    BY <1>0, <1>8 DEF QueueAccounting, Close, Bytes, BytePositions
  <2>3. FifoConservation'
    BY <1>0, <1>8 DEF FifoConservation, Close
  <2>4. WakeInv'
    BY <1>0, <1>8 DEF WakeInv, thresholdReached, Parked, WakePending, Close, TypeOK
  <2>5. LoopInv' /\ CloseInv'
    BY <1>0, <1>8 DEF LoopInv, CloseInv, Close, TypeOK
  <2> QED
    BY <2>1, <2>2, <2>3, <2>4, <2>5 DEF IInv
<1>9. ASSUME NEW c \in Closer, CloseReturns(c)
      PROVE  IInv'
  <2>1. TypeOK'
    BY <1>0, <1>9 DEF TypeOK, CloseReturns
  <2>2. QueueAccounting'
    BY <1>0, <1>9 DEF QueueAccounting, CloseReturns, Bytes, BytePositions
  <2>3. FifoConservation'
    BY <1>0, <1>9 DEF FifoConservation, CloseReturns
  <2>4. WakeInv'
    BY <1>0, <1>9 DEF WakeInv, thresholdReached, Parked, WakePending, CloseReturns, TypeOK
  <2>5. LoopInv' /\ CloseInv'
    BY <1>0, <1>9 DEF LoopInv, CloseInv, CloseReturns, TypeOK
  <2> QED
    BY <2>1, <2>2, <2>3, <2>4, <2>5 DEF IInv
<1>10. CASE LoopWake
  <2>1. TypeOK'
    BY <1>0, <1>10 DEF TypeOK, LoopWake
  <2>2. QueueAccounting'
    BY <1>0, <1>10 DEF QueueAccounting, LoopWake, Bytes, BytePositions
  <2>3. FifoConservation'
    BY <1>0, <1>10 DEF FifoConservation, LoopWake
  <2>4. WakeInv'
    BY <1>0, <1>10 DEF WakeInv, thresholdReached, Parked, WakePending, LoopWake, TypeOK
  <2>5. LoopInv' /\ CloseInv'
    BY <1>0, <1>10 DEF LoopInv, CloseInv, LoopWake, TypeOK
  <2> QED
    BY <2>1, <2>2, <2>3, <2>4, <2>5 DEF IInv
<1>11. CASE LoopTick
  <2>1. TypeOK'
    BY <1>0, <1>11 DEF TypeOK, LoopTick
  <2>2. QueueAccounting'
    BY <1>0, <1>11 DEF QueueAccounting, LoopTick, Bytes, BytePositions
  <2>3. FifoConservation'
    BY <1>0, <1>11 DEF FifoConservation, LoopTick
  <2>4. WakeInv'
    BY <1>0, <1>11 DEF WakeInv, thresholdReached, Parked, WakePending, LoopTick, TypeOK
  <2>5. LoopInv' /\ CloseInv'
    BY <1>0, <1>11 DEF LoopInv, CloseInv, LoopTick, TypeOK
  <2> QED
    BY <2>1, <2>2, <2>3, <2>4, <2>5 DEF IInv
<1>12. CASE LoopStop
  <2>1. TypeOK'
    BY <1>0, <1>12 DEF TypeOK, LoopStop
  <2>2. QueueAccounting'
    BY <1>0, <1>12 DEF QueueAccounting, LoopStop, Bytes, BytePositions
  <2>3. FifoConservation'
    BY <1>0, <1>12 DEF FifoConservation, LoopStop
  <2>4. WakeInv'
    BY <1>0, <1>12 DEF WakeInv, thresholdReached, Parked, WakePending, LoopStop, TypeOK
  <2>5. LoopInv' /\ CloseInv'
    BY <1>0, <1>12 DEF LoopInv, CloseInv, LoopStop, TypeOK
  <2> QED
    BY <2>1, <2>2, <2>3, <2>4, <2>5 DEF IInv
<1>13. CASE LoopCheck
  <2>1. TypeOK'
    BY <1>0, <1>13 DEF TypeOK, LoopCheck
  <2>2. QueueAccounting'
    BY <1>0, <1>13 DEF QueueAccounting, LoopCheck, Bytes, BytePositions
  <2>3. FifoConservation'
    BY <1>0, <1>13 DEF FifoConservation, LoopCheck
  <2>4. WakeInv'
    BY <1>0, <1>13 DEF WakeInv, thresholdReached, Parked, WakePending, LoopCheck, TypeOK
  <2>5. LoopInv' /\ CloseInv'
    BY <1>0, <1>13 DEF LoopInv, CloseInv, LoopCheck, TypeOK
  <2> QED
    BY <2>1, <2>2, <2>3, <2>4, <2>5 DEF IInv
<1>14. CASE takeBatch
  <2>0. PICK k \in 1 .. Len(queue) :
            /\ batch' = SubSeq(queue, 1, k)
            /\ queue' = SubSeq(queue, k + 1, Len(queue))
            /\ pendingBytes' = pendingBytes - Bytes(SubSeq(queue, 1, k))
    BY <1>14 DEF takeBatch
  <2>a. /\ batch' \in Seq(Event) /\ queue' \in Seq(Event)
        /\ queue = batch' \o queue'
        /\ Len(queue') = Len(queue) - k
        /\ Bytes(queue) = Bytes(batch') + Bytes(queue')
    BY <1>0, <2>0, SplitQueue DEF TypeOK
  <2>b. /\ Bytes(queue') \in Nat /\ Bytes(batch') \in Nat
        /\ Len(queue) \in Nat /\ Len(queue') \in Nat
        /\ pendingBytes' = Bytes(queue')
    <3>1. Bytes(queue') \in Nat /\ Bytes(batch') \in Nat
      BY <2>a, BytesType
    <3>2. Len(queue) \in Nat /\ Len(queue') \in Nat
      BY <1>0, <2>a DEF TypeOK
    <3>3. pendingBytes' = (Bytes(batch') + Bytes(queue')) - Bytes(batch')
      BY <1>0, <2>0, <2>a DEF QueueAccounting
    <3> QED
      BY <3>1, <3>2, <3>3
  <2>1. TypeOK'
    BY <1>0, <1>14, <2>a, <2>b DEF TypeOK, takeBatch
  <2>2. QueueAccounting'
    BY <1>0, <1>14, <2>a, <2>b, ConfigAssumption DEF QueueAccounting, takeBatch
  <2>3. FifoConservation'
    <3>1. batch = <<>> /\ discarded = <<>>
      BY <1>0, <1>14 DEF LoopInv, takeBatch
    <3>2. admitted = taken \o queue
      BY <1>0, <3>1, ConcatEmptySeq DEF FifoConservation, TypeOK
    <3>3. (taken \o batch') \o <<>> = taken \o batch'
      BY <1>0, <2>a, ConcatProperties, ConcatEmptySeq DEF TypeOK
    <3>4. taken \o (batch' \o queue') = (taken \o batch') \o queue'
      <4>1. taken \in Seq(Event)
        BY <1>0 DEF TypeOK
      <4> QED
        BY <2>a, <4>1, EventConcat, Zenon
    <3> QED
      BY <1>14, <2>a, <3>1, <3>2, <3>3, <3>4 DEF FifoConservation, takeBatch
  <2>4. WakeInv'
    <3>1. thresholdReached' => thresholdReached
      BY <1>0, <2>a, <2>b, ConfigAssumption DEF thresholdReached, QueueAccounting
    <3>2. Parked' => Parked
      BY <1>0, <1>14 DEF Parked, takeBatch, TypeOK
    <3>3. WakePending => WakePending'
      BY <1>0, <1>14 DEF WakePending, takeBatch
    <3> QED
      BY <1>0, <1>14, <3>1, <3>2, <3>3 DEF WakeInv, takeBatch
  <2>5. LoopInv' /\ CloseInv'
    BY <1>0, <1>14 DEF LoopInv, CloseInv, takeBatch, TypeOK
  <2> QED
    BY <2>1, <2>2, <2>3, <2>4, <2>5 DEF IInv
<1>15. CASE takeNothing
  <2>1. TypeOK'
    BY <1>0, <1>15 DEF TypeOK, takeNothing
  <2>2. QueueAccounting'
    BY <1>0, <1>15 DEF QueueAccounting, takeNothing, Bytes, BytePositions
  <2>3. FifoConservation'
    BY <1>0, <1>15 DEF FifoConservation, takeNothing
  <2>4. WakeInv'
    BY <1>0, <1>15 DEF WakeInv, thresholdReached, Parked, WakePending, takeNothing, TypeOK
  <2>5. LoopInv' /\ CloseInv'
    BY <1>0, <1>15 DEF LoopInv, CloseInv, takeNothing, TypeOK
  <2> QED
    BY <2>1, <2>2, <2>3, <2>4, <2>5 DEF IInv
<1>16. CASE flushNext
  <2>1. TypeOK'
    <3>1. taken' \in Seq(Event) /\ batch' \in Seq(Event)
      BY <1>0, <1>16, ConcatProperties, EmptySeq DEF TypeOK, flushNext
    <3>2. metrics' \in [accepted : Nat, dropped : Nat, flushed : Nat]
      <4>1. Len(batch) \in Nat /\ metrics \in [accepted : Nat, dropped : Nat, flushed : Nat]
        BY <1>0 DEF TypeOK
      <4>2. metrics' = [metrics EXCEPT !.flushed = @ + Len(batch)]
        BY <1>16 DEF flushNext
      <4> QED
        BY <4>1, <4>2
    <3> QED
      BY <1>0, <1>16, <3>1, <3>2 DEF TypeOK, flushNext
  <2>2. QueueAccounting'
    BY <1>0, <1>16 DEF QueueAccounting, flushNext, BytePositions, Bytes
  <2>3. FifoConservation'
    <3>1. (taken \o batch) \o <<>> = taken \o batch
      BY <1>0, ConcatProperties, ConcatEmptySeq DEF TypeOK
    <3> QED
      BY <1>0, <1>16, <3>1 DEF FifoConservation, flushNext
  <2>4. WakeInv'
    <3>1. thresholdReached' => thresholdReached
      BY <1>16 DEF thresholdReached, flushNext
    <3>2. (Parked' \/ loop' = "off") => Parked
      BY <1>0, <1>16 DEF Parked, flushNext, TypeOK
    <3>3. WakePending => WakePending'
      BY <1>16 DEF WakePending, flushNext
    <3> QED
      BY <1>0, <3>1, <3>2, <3>3 DEF WakeInv
  <2>5. LoopInv' /\ CloseInv'
    BY <1>0, <1>16 DEF LoopInv, CloseInv, flushNext, TypeOK
  <2> QED
    BY <2>1, <2>2, <2>3, <2>4, <2>5 DEF IInv
<1>17. CASE DrainNext
  <2>1. TypeOK'
    <3>1. Len(queue) \in Nat /\ metrics \in [accepted : Nat, dropped : Nat, flushed : Nat]
      BY <1>0 DEF TypeOK
    <3>2. metrics' = metrics \/ metrics' = [metrics EXCEPT !.dropped = @ + Len(queue)]
      BY <1>17 DEF DrainNext
    <3>3. metrics' \in [accepted : Nat, dropped : Nat, flushed : Nat]
      BY <3>1, <3>2
    <3> QED
      BY <1>0, <1>17, <3>1, <3>3 DEF TypeOK, DrainNext
  <2>2. QueueAccounting'
    BY <1>0, <1>17 DEF QueueAccounting, DrainNext, Bytes, BytePositions
  <2>3. FifoConservation'
    BY <1>0, <1>17 DEF FifoConservation, DrainNext
  <2>4. WakeInv'
    BY <1>0, <1>17 DEF WakeInv, thresholdReached, Parked, WakePending, DrainNext, TypeOK
  <2>5. LoopInv' /\ CloseInv'
    BY <1>0, <1>17 DEF LoopInv, CloseInv, DrainNext, TypeOK
  <2> QED
    BY <2>1, <2>2, <2>3, <2>4, <2>5 DEF IInv
<1>18. CASE discardPending
  <2>0. queue' = <<>> /\ discarded' = discarded \o queue
    <3>1. CASE remaining > 0
      BY <1>18, <3>1 DEF discardPending
    <3>2. CASE ~(remaining > 0)
      <4>1. queue = <<>>
        BY <1>0, <1>18, <3>2, EmptySeq DEF LoopInv, TypeOK, discardPending
      <4> QED
        BY <1>0, <1>18, <3>2, <4>1, ConcatEmptySeq DEF discardPending, TypeOK
    <3> QED
      BY <3>1, <3>2
  <2>a. pendingBytes' = 0
    BY <1>0, <1>18, <2>0, BytesEmpty DEF discardPending, QueueAccounting
  <2>1. TypeOK'
    <3>1. discarded' \in Seq(Event) /\ queue' \in Seq(Event)
      BY <1>0, <2>0, ConcatProperties, EmptySeq DEF TypeOK
    <3> QED
      BY <1>0, <1>18, <2>a, <3>1 DEF TypeOK, discardPending
  <2>2. QueueAccounting'
    BY <2>0, <2>a, BytesEmpty, EmptySeq, ConfigAssumption DEF QueueAccounting
  <2>3. FifoConservation'
    <3> DEFINE done == taken \o batch
    <3>1. done \in Seq(Event)
      BY <1>0, ConcatProperties DEF TypeOK
    <3>2. (done \o discarded) \o queue = done \o (discarded \o queue)
      <4> HIDE DEF done
      <4>1. discarded \in Seq(Event) /\ queue \in Seq(Event)
        BY <1>0 DEF TypeOK
      <4> QED
        BY <3>1, <4>1, EventConcat, Zenon
    <3>3. (done \o (discarded \o queue)) \o <<>> = done \o (discarded \o queue)
      BY <1>0, <3>1, ConcatProperties, ConcatEmptySeq DEF TypeOK
    <3> QED
      BY <1>0, <1>18, <2>0, <3>2, <3>3 DEF FifoConservation, discardPending
  <2>4. WakeInv'
    BY <1>18 DEF WakeInv, Parked, discardPending
  <2>5. LoopInv' /\ CloseInv'
    BY <1>0, <1>18, <2>0 DEF LoopInv, CloseInv, discardPending, TypeOK
  <2> QED
    BY <2>1, <2>2, <2>3, <2>4, <2>5 DEF IInv
<1>19. CASE DrainExpires
  <2>1. TypeOK'
    BY <1>0, <1>19 DEF TypeOK, DrainExpires
  <2>2. QueueAccounting'
    BY <1>0, <1>19 DEF QueueAccounting, DrainExpires, Bytes, BytePositions
  <2>3. FifoConservation'
    BY <1>0, <1>19 DEF FifoConservation, DrainExpires
  <2>4. WakeInv'
    BY <1>0, <1>19 DEF WakeInv, thresholdReached, Parked, WakePending, DrainExpires, TypeOK
  <2>5. LoopInv' /\ CloseInv'
    BY <1>0, <1>19 DEF LoopInv, CloseInv, DrainExpires, TypeOK
  <2> QED
    BY <2>1, <2>2, <2>3, <2>4, <2>5 DEF IInv
<1>20. CASE UNCHANGED vars
  BY <1>0, <1>20 DEF vars, IInv, TypeOK, QueueAccounting, Bytes, BytePositions,
     FifoConservation, WakeInv, thresholdReached, Parked, WakePending, LoopInv, CloseInv
<1> QED
  BY <1>1, <1>2, <1>3, <1>4, <1>5, <1>6, <1>7, <1>8, <1>9, <1>10, <1>11, <1>12, <1>13, <1>14, <1>15, <1>16, <1>17, <1>18, <1>19, <1>20
     DEF Next, HandlerStep, CloserStep, LoopStep

-----------------------------------------------------------------------------
(* IInv holds in every reachable state.                                    *)
THEOREM Invariance == Spec => []IInv
BY InitIInv, NextIInv, PTL DEF Spec

(* The type invariant of the batcher.                                      *)
THEOREM TypeCorrect == Spec => []TypeOK
<1>1. IInv => TypeOK
  BY DEF IInv
<1> QED
  BY <1>1, Invariance, PTL

(* The queue never outgrows BufferMaxEvents and pendingBytes never drifts. *)
THEOREM QueueAccounted == Spec => []QueueAccounting
<1>1. IInv => QueueAccounting
  BY DEF IInv
<1> QED
  BY <1>1, Invariance, PTL

(* Between Enqueue and the sink nothing is lost, duplicated or reordered.  *)
THEOREM EventsConserved == Spec => []FifoConservation
<1>1. IInv => FifoConservation
  BY DEF IInv
<1> QED
  BY <1>1, Invariance, PTL

(* No wake-up is lost between signal's non-blocking send and the select.   *)
THEOREM WakeupNeverLost == Spec => []NoLostWakeup
<1>1. IInv => NoLostWakeup
  BY DEF IInv, WakeInv, NoLostWakeup
<1> QED
  BY <1>1, Invariance, PTL

(* No order of Start and Close calls closes a channel twice.               *)
THEOREM ChannelsClosedOnce == Spec => []NoDoubleClose
<1>1. IInv => NoDoubleClose
  BY DEF IInv, CloseInv, NoDoubleClose
<1> QED
  BY <1>1, Invariance, PTL

(* A batcher whose loop has exited holds no event, and admits none.        *)
THEOREM ExitLeavesNothing == Spec => []DrainedOnExit
<1>1. IInv => DrainedOnExit
  BY DEF IInv, LoopInv, DrainedOnExit
<1> QED
  BY <1>1, Invariance, PTL

-----------------------------------------------------------------------------
(* flushNext holds at most one batch of FlushMaxEvents, which is the room  *)
(* the abstract buffer has beyond the queue.                               *)
BatchFits == Len(batch) <= FlushMaxEvents

\* A batch is never larger than the configured size.
LEMMA BatchBounded == Spec => []BatchFits
<1>1. Init => BatchFits
  BY ConfigAssumption, EmptySeq DEF Init, BatchFits
<1>2. IInv /\ BatchFits /\ [Next]_vars => BatchFits'
  <2> SUFFICES ASSUME IInv, Len(batch) <= FlushMaxEvents, [Next]_vars
               PROVE  Len(batch') <= FlushMaxEvents
    BY DEF BatchFits
  <2>1. CASE takeBatch
    <3>1. PICK k \in 1 .. Len(queue) : TakeCount(k) /\ batch' = SubSeq(queue, 1, k)
      BY <2>1 DEF takeBatch
    <3>2. queue \in Seq(Event)
      BY DEF IInv, TypeOK
    <3>3. Len(SubSeq(queue, 1, k)) = k
      BY <3>2
    <3> QED
      BY <3>1, <3>3 DEF TakeCount
  <2>2. CASE flushNext
    BY <2>2, ConfigAssumption, EmptySeq DEF flushNext
  <2>3. CASE UNCHANGED batch
    BY <2>3
  <2> QED
    BY <2>1, <2>2, <2>3 DEF Next, HandlerStep, CloserStep, LoopStep, vars, loopVars,
       Start, Enqueue, EnqueueRefuses, EnqueueEmpty, EnqueueCounts, signal,
       CloseNotStarted, Close, CloseReturns, LoopWake, LoopTick, LoopStop, LoopCheck,
       takeNothing, DrainNext, discardPending, DrainExpires
<1> QED
  BY <1>1, <1>2, Invariance, PTL DEF Spec

(* The front of a concatenation, and what is left behind it: what Deliver  *)
(* takes from the events held is the batch.                                *)
LEMMA CutConcat ==
  ASSUME NEW s \in Seq(Event), NEW t \in Seq(Event)
  PROVE  /\ SubSeq(s \o t, 1, Len(s)) = s
         /\ SubSeq(s \o t, Len(s) + 1, Len(s \o t)) = t
<1> DEFINE st == s \o t
           front == SubSeq(st, 1, Len(s))
           rest == SubSeq(st, Len(s) + 1, Len(st))
<1>1. /\ st \in Seq(Event) /\ Len(st) = Len(s) + Len(t)
      /\ \A i \in 1 .. Len(s) + Len(t) : st[i] = IF i <= Len(s) THEN s[i] ELSE t[i - Len(s)]
      /\ Len(s) \in Nat /\ Len(t) \in Nat
  BY ConcatProperties
<1> HIDE DEF st
<1>2. front = s
  <2>1. front \in Seq(Event) /\ Len(front) = Len(s) /\ \A i \in 1 .. Len(s) : front[i] = st[i]
    BY <1>1
  <2> QED
    BY <1>1, <2>1, SeqEqual
<1>3. rest = t
  <2>1. rest \in Seq(Event) /\ Len(rest) = Len(t)
        /\ \A i \in 1 .. Len(t) : rest[i] = st[Len(s) + i]
    BY <1>1
  <2>2. \A i \in 1 .. Len(t) : rest[i] = t[i]
    BY <1>1, <2>1
  <2> QED
    BY <1>1, <2>1, <2>2, SeqEqual
<1> QED
  BY <1>2, <1>3 DEF st

(* Room for the batch and room for the queue are the room of the buffer.   *)
LEMMA RoomSum ==
  ASSUME NEW a \in Nat, NEW b \in Nat, NEW c \in Nat, NEW m \in Int, NEW n \in Int,
         a <= n, b + c <= m
  PROVE  (a + b) + c <= m + n
OBVIOUS

(* A step that leaves these alone is not seen through the mapping.         *)
Visible == <<closed, handler, batch, queue, taken, discarded>>

(* The mapped state of a batcher that has just been made.                  *)
LEMMA InitRefines == Init => Buffer!Init
<1> SUFFICES ASSUME Init PROVE Buffer!Init
  OBVIOUS
<1>1. [r \in Request |-> Answer(r)] = [r \in Request |-> "pending"]
  BY DEF Init, Answer
<1>2. <<>> \o <<>> = <<>>
  BY EmptySeq, ConcatEmptySeq
<1> QED
  BY <1>1, <1>2 DEF Init, Buffer!Init

(* Every step of the batcher is a step of the buffer or invisible to it.   *)
LEMMA NextRefines ==
  ASSUME IInv, BatchFits, [Next]_vars
  PROVE  [Buffer!Next]_(Buffer!vars)
<1> USE DEF lockVars, chanVars, loopVars, histVars
<1>0. /\ queue \in Seq(Event) /\ batch \in Seq(Event) /\ taken \in Seq(Event)
      /\ discarded \in Seq(Event) /\ LoopInv
      /\ Len(queue) <= BufferMaxEvents /\ Len(batch) <= FlushMaxEvents
      /\ handler \in [Request -> {"new", "count", "countAndWake", "countDrop",
                                  "signal", "accepted", "rejected"}]
  BY DEF IInv, TypeOK, QueueAccounting, BatchFits
<1>1. CASE UNCHANGED Visible
  <2>1. [r \in Request |-> Answer(r)]' = [r \in Request |-> Answer(r)]
    BY <1>1 DEF Visible, Answer
  <2> QED
    BY <1>1, <2>1 DEF Visible, Buffer!vars
<1>2. ASSUME NEW r \in Request, Enqueue(r)
      PROVE  Buffer!Accept(r)
  <2>1. Body[r] \in Seq(Event) /\ Body[r] # <<>> /\ ~closed
    BY <1>2, BodyAssumption DEF Enqueue, EnqueueAdmits
  <2>2. batch \o (queue \o Body[r]) = (batch \o queue) \o Body[r]
    BY <1>0, <2>1, EventConcat, Zenon
  <2>3. Len(batch \o queue) + Len(Body[r]) <= BufferMaxEvents + FlushMaxEvents
    <3>1. Len(batch \o queue) = Len(batch) + Len(queue)
      BY <1>0, ConcatProperties
    <3>2. Len(queue) + Len(Body[r]) <= BufferMaxEvents
      BY <1>2 DEF Enqueue, EnqueueAdmits
    <3>3. Len(batch) \in Nat /\ Len(queue) \in Nat /\ Len(Body[r]) \in Nat
      BY <1>0, <2>1
    <3>4. BufferMaxEvents \in Int /\ FlushMaxEvents \in Int /\ Len(batch) <= FlushMaxEvents
      BY <1>0, ConfigAssumption
    <3> QED
      BY <3>1, <3>2, <3>3, <3>4, RoomSum
  <2>4. Answer(r) = "pending"
    BY <1>2 DEF Enqueue, Answer
  <2>5. [q \in Request |-> Answer(q)]'
          = [[q \in Request |-> Answer(q)] EXCEPT ![r] = "accepted"]
    BY <1>0, <1>2 DEF Enqueue, Answer
  <2> QED
    BY <1>2, <2>1, <2>2, <2>3, <2>4, <2>5 DEF Enqueue, Buffer!Accept
<1>3. ASSUME NEW r \in Request, EnqueueRefuses(r) \/ EnqueueEmpty(r)
      PROVE  Buffer!Reject(r)
  <2>1. Answer(r) = "pending"
    BY <1>3 DEF EnqueueRefuses, EnqueueEmpty, Answer
  <2>2. [q \in Request |-> Answer(q)]'
          = [[q \in Request |-> Answer(q)] EXCEPT ![r] = "rejected"]
    BY <1>0, <1>3 DEF EnqueueRefuses, EnqueueEmpty, Answer
  <2> QED
    BY <1>3, <2>1, <2>2 DEF EnqueueRefuses, EnqueueEmpty, Buffer!Reject
<1>4. ASSUME NEW r \in Request, EnqueueCounts(r) \/ signal(r)
      PROVE  UNCHANGED Buffer!vars
  <2>1. [q \in Request |-> Answer(q)]' = [q \in Request |-> Answer(q)]
    BY <1>0, <1>4 DEF EnqueueCounts, signal, Answer
  <2> QED
    BY <1>4, <2>1 DEF EnqueueCounts, signal, Buffer!vars
<1>5. ASSUME NEW c \in Closer, CloseNotStarted(c) \/ Close(c)
      PROVE  Buffer!Shut \/ UNCHANGED Visible
  <2>1. closed' = TRUE /\ UNCHANGED <<handler, batch, queue, taken, discarded>>
    BY <1>5 DEF CloseNotStarted, Close
  <2>2. [q \in Request |-> Answer(q)]' = [q \in Request |-> Answer(q)]
    BY <2>1 DEF Answer
  <2>3. CASE closed = FALSE
    BY <2>1, <2>2, <2>3 DEF Buffer!Shut
  <2>4. CASE closed = TRUE
    BY <2>1, <2>4 DEF Visible
  <2> QED
    BY <2>3, <2>4 DEF IInv, TypeOK
<1>6. CASE takeBatch
  <2>1. batch = <<>>
    BY <1>0, <1>6 DEF LoopInv, takeBatch
  <2>2. PICK k \in 1 .. Len(queue) : /\ batch' = SubSeq(queue, 1, k)
                                     /\ queue' = SubSeq(queue, k + 1, Len(queue))
    BY <1>6 DEF takeBatch
  <2>3. batch' \o queue' = batch \o queue
    BY <1>0, <2>1, <2>2, SplitQueue, ConcatEmptySeq
  <2>4. [q \in Request |-> Answer(q)]' = [q \in Request |-> Answer(q)]
    BY <1>6 DEF takeBatch, Answer
  <2> QED
    BY <1>6, <2>3, <2>4 DEF takeBatch, Buffer!vars
<1>7. CASE flushNext
  <2>1. [q \in Request |-> Answer(q)]' = [q \in Request |-> Answer(q)]
    BY <1>7 DEF flushNext, Answer
  <2>2. batch' \o queue' = queue
    BY <1>0, <1>7, ConcatEmptySeq DEF flushNext
  <2>3. CASE batch = <<>>
    BY <1>0, <1>7, <2>1, <2>3, ConcatEmptySeq DEF flushNext, Buffer!vars
  <2>4. CASE batch # <<>>
    <3>1. Len(batch) \in 1 .. Len(batch \o queue)
      BY <1>0, <2>4, EmptySeq, ConcatProperties
    <3>2. /\ taken' = taken \o SubSeq(batch \o queue, 1, Len(batch))
          /\ (batch \o queue)'
               = SubSeq(batch \o queue, Len(batch) + 1, Len(batch \o queue))
      BY <1>0, <1>7, <2>2, CutConcat DEF flushNext
    <3>3. Buffer!Deliver
      BY <1>7, <2>1, <3>1, <3>2 DEF flushNext, Buffer!Deliver
    <3> QED
      BY <3>3 DEF Buffer!Next
  <2> QED
    BY <2>3, <2>4
<1>8. CASE discardPending
  <2>1. closed /\ discarded = <<>> /\ batch = <<>>
    BY <1>0, <1>8 DEF LoopInv, discardPending
  <2>2. CASE remaining > 0
    <3>1. discarded' = batch \o queue /\ batch' \o queue' = <<>>
      BY <1>0, <1>8, <2>1, <2>2, ConcatEmptySeq, EmptySeq DEF discardPending
    <3>2. [q \in Request |-> Answer(q)]' = [q \in Request |-> Answer(q)]
      BY <1>8 DEF discardPending, Answer
    <3>3. Buffer!Discard
      BY <1>8, <2>1, <3>1, <3>2 DEF discardPending, Buffer!Discard
    <3> QED
      BY <3>3 DEF Buffer!Next
  <2>3. CASE ~(remaining > 0)
    BY <1>1, <1>8, <2>3 DEF discardPending, Visible
  <2> QED
    BY <2>2, <2>3
<1>9. CASE Start \/ LoopWake \/ LoopTick \/ LoopStop \/ LoopCheck \/ takeNothing
             \/ DrainNext \/ DrainExpires \/ (\E c \in Closer : CloseReturns(c))
             \/ UNCHANGED vars
  BY <1>1, <1>9 DEF Visible, vars, Start, LoopWake, LoopTick, LoopStop, LoopCheck,
     takeNothing, DrainNext, DrainExpires, CloseReturns
<1> QED
  BY <1>1, <1>2, <1>3, <1>4, <1>5, <1>6, <1>7, <1>8, <1>9
     DEF Next, HandlerStep, CloserStep, LoopStep, Buffer!Next

(* The batcher, with its mutex, channels and thresholds, is a bounded      *)
(* first-in first-out buffer with one discard at shutdown.                 *)
THEOREM BatcherRefines == Spec => ImplementsBuffer
<1>1. IInv /\ BatchFits /\ [Next]_vars => [Buffer!Next]_(Buffer!vars)
  BY NextRefines
<1> QED
  BY <1>1, InitRefines, Invariance, BatchBounded, PTL DEF Spec, ImplementsBuffer, Buffer!Spec

-----------------------------------------------------------------------------
(* The counters.  Each is updated by one party, after the mutex was        *)
(* released, and is what the handlers that have got past their update, or  *)
(* the events that have left the loop, account for.                        *)
HandlersIn(states) == {r \in Request : handler[r] \in states}
HasAdmitted == HandlersIn({"count", "countAndWake", "signal", "accepted"})
HasCounted == HandlersIn({"signal", "accepted"})
HasRejected == HandlersIn({"rejected"})
LeftOver == IF loop \in {"discard", "exited"} THEN remaining ELSE 0

CountInv ==
  /\ IsFiniteSet(Offered(HasAdmitted)) /\ Len(admitted) = Cardinality(Offered(HasAdmitted))
  /\ IsFiniteSet(Offered(HasCounted)) /\ metrics.accepted = Cardinality(Offered(HasCounted))
  /\ IsFiniteSet(Offered(HasRejected))
  /\ metrics.dropped = Cardinality(Offered(HasRejected)) + LeftOver
  /\ metrics.flushed = Len(taken)
  /\ loop = "exited" => Len(discarded) = remaining

(* One more request offers its events more.                                *)
LEMMA OfferedOne ==
  ASSUME NEW R \in SUBSET Request, NEW r \in Request, r \notin R, IsFiniteSet(Offered(R))
  PROVE  /\ IsFiniteSet(Offered(R \cup {r}))
         /\ Cardinality(Offered(R \cup {r})) = Cardinality(Offered(R)) + Len(Body[r])
<1> DEFINE n == Len(Body[r])
           More == {r} \X (1 .. n)
<1>1. n \in Nat
  BY BodyAssumption
<1>2. IsFiniteSet({r}) /\ Cardinality({r}) = 1
  BY FS_Singleton
<1>3. IsFiniteSet(1 .. n) /\ Cardinality(1 .. n) = n
  BY <1>1, FS_Interval
<1>4. IsFiniteSet(More) /\ Cardinality(More) = 1 * n
  BY <1>2, <1>3, FS_Product
<1>5. Offered(R \cup {r}) = Offered(R) \cup More /\ Offered(R) \cap More = {}
  BY DEF Offered
<1> HIDE DEF More, n
<1>6. /\ IsFiniteSet(Offered(R) \cup More)
      /\ Cardinality(Offered(R) \cup More)
           = Cardinality(Offered(R)) + Cardinality(More) - Cardinality(Offered(R) \cap More)
  BY <1>4, FS_Union
<1>7. Cardinality(Offered(R)) \in Nat /\ Cardinality({}) = 0
  BY FS_CardinalityType, FS_EmptySet
<1>8. Cardinality(More) = n /\ Cardinality(Offered(R) \cap More) = 0
  BY <1>1, <1>4, <1>5, <1>7
<1>9. Cardinality(Offered(R) \cup More) = Cardinality(Offered(R)) + n
  BY <1>1, <1>6, <1>7, <1>8
<1> QED
  BY <1>5, <1>6, <1>9 DEF n

(* What two disjoint groups of requests offer together.                    *)
LEMMA OfferedBoth ==
  ASSUME NEW R \in SUBSET Request, NEW Q \in SUBSET Request, R \cap Q = {},
         IsFiniteSet(Offered(R)), IsFiniteSet(Offered(Q))
  PROVE  Cardinality(Offered(R \cup Q)) = Cardinality(Offered(R)) + Cardinality(Offered(Q))
<1>1. Offered(R \cup Q) = Offered(R) \cup Offered(Q) /\ Offered(R) \cap Offered(Q) = {}
  BY DEF Offered
<1>2. Cardinality(Offered(R) \cup Offered(Q))
        = Cardinality(Offered(R)) + Cardinality(Offered(Q))
            - Cardinality(Offered(R) \cap Offered(Q))
  BY FS_Union
<1>3. /\ Cardinality(Offered(R)) \in Nat /\ Cardinality(Offered(Q)) \in Nat
      /\ Cardinality({}) = 0
  BY FS_CardinalityType, FS_EmptySet
<1>4. Cardinality(Offered(R) \cap Offered(Q)) = 0
  BY <1>1, <1>3
<1>5. Cardinality(Offered(R) \cup Offered(Q)) = Cardinality(Offered(R)) + Cardinality(Offered(Q))
  BY <1>2, <1>3, <1>4
<1> QED
  BY <1>1, <1>5

(* A handler moves: it leaves the groups it was in and joins those of its  *)
(* new state.                                                              *)
LEMMA HandlerMoves ==
  ASSUME TypeOK, NEW r \in Request, NEW x, handler' = [handler EXCEPT ![r] = x], NEW states
  PROVE  /\ x \in states => HandlersIn(states)' = HandlersIn(states) \cup {r}
         /\ x \notin states => HandlersIn(states)' = HandlersIn(states) \ {r}
         /\ r \in HandlersIn(states) <=> handler[r] \in states
         /\ HandlersIn(states) \in SUBSET Request
<1>1. \A q \in Request : handler'[q] = IF q = r THEN x ELSE handler[q]
  BY DEF TypeOK
<1> QED
  BY <1>1 DEF HandlersIn

(* Nobody has counted anything yet.                                        *)
LEMMA CountStarts == Init => CountInv
<1> SUFFICES ASSUME Init PROVE CountInv
  OBVIOUS
<1>1. Offered({}) = {} /\ IsFiniteSet({}) /\ Cardinality({}) = 0
  BY FS_EmptySet DEF Offered
<1>2. HasAdmitted = {} /\ HasCounted = {} /\ HasRejected = {}
  BY DEF Init, HasAdmitted, HasCounted, HasRejected, HandlersIn
<1>3. LeftOver = 0 /\ Len(admitted) = 0 /\ Len(taken) = 0
  BY EmptySeq DEF Init, LeftOver
<1>4. /\ Offered(HasAdmitted) = {} /\ Offered(HasCounted) = {} /\ Offered(HasRejected) = {}
  BY <1>1, <1>2
<1>5. metrics.accepted = 0 /\ metrics.dropped = 0 /\ metrics.flushed = 0 /\ loop # "exited"
  BY DEF Init
<1> QED
  BY <1>1, <1>3, <1>4, <1>5 DEF CountInv

(* A step in which nothing is counted, admitted or given up.               *)
LEMMA CountStays ==
  ASSUME CountInv, UNCHANGED <<handler, metrics, admitted, taken, discarded>>,
         LeftOver' = LeftOver, loop' = "exited" => loop = "exited" /\ remaining' = remaining
  PROVE  CountInv'
<1>1. HasAdmitted' = HasAdmitted /\ HasCounted' = HasCounted /\ HasRejected' = HasRejected
  BY DEF HasAdmitted, HasCounted, HasRejected, HandlersIn
<1>2. \A R : Offered(R)' = Offered(R)
  BY DEF Offered
<1> QED
  BY <1>1, <1>2 DEF CountInv

(* The handlers: admitting, counting, signalling, and being turned away.   *)
LEMMA CountHandlers ==
  ASSUME TypeOK, CountInv, NEW r \in Request, HandlerStep(r)
  PROVE  CountInv'
<1> DEFINE n == Len(Body[r])
<1>1. n \in Nat /\ Body[r] \in Seq(Event)
  BY BodyAssumption
<1>2. /\ admitted \in Seq(Event) /\ metrics \in [accepted : Nat, dropped : Nat, flushed : Nat]
  BY DEF TypeOK
<1>3. UNCHANGED <<loop, remaining, taken, discarded>>
  BY DEF HandlerStep, Enqueue, EnqueueRefuses, EnqueueEmpty, EnqueueCounts, signal, loopVars, histVars
<1>4. LeftOver' = LeftOver /\ LeftOver \in Nat
  BY <1>3 DEF LeftOver, TypeOK
<1>5. PICK x : handler' = [handler EXCEPT ![r] = x]
  BY DEF HandlerStep, Enqueue, EnqueueRefuses, EnqueueEmpty, EnqueueCounts, signal
<1> DEFINE A == HasAdmitted
           C == HasCounted
           J == HasRejected
<1>6. handler'[r] = x
  BY <1>5 DEF TypeOK
<1>7. /\ A' = IF x \in {"count", "countAndWake", "signal", "accepted"} THEN A \cup {r} ELSE A \ {r}
      /\ C' = IF x \in {"signal", "accepted"} THEN C \cup {r} ELSE C \ {r}
      /\ J' = IF x = "rejected" THEN J \cup {r} ELSE J \ {r}
      /\ r \in A <=> handler[r] \in {"count", "countAndWake", "signal", "accepted"}
      /\ r \in C <=> handler[r] \in {"signal", "accepted"}
      /\ r \in J <=> handler[r] \in {"rejected"}
      /\ A \in SUBSET Request /\ C \in SUBSET Request /\ J \in SUBSET Request
  BY <1>5, HandlerMoves DEF HasAdmitted, HasCounted, HasRejected
<1>8. /\ IsFiniteSet(Offered(A)) /\ Len(admitted) = Cardinality(Offered(A))
      /\ IsFiniteSet(Offered(C)) /\ metrics.accepted = Cardinality(Offered(C))
      /\ IsFiniteSet(Offered(J)) /\ metrics.dropped = Cardinality(Offered(J)) + LeftOver
      /\ metrics.flushed = Len(taken)
      /\ loop = "exited" => Len(discarded) = remaining
      /\ Cardinality(Offered(A)) \in Nat /\ Cardinality(Offered(C)) \in Nat
      /\ Cardinality(Offered(J)) \in Nat
  BY FS_CardinalityType DEF CountInv
<1>9. \A R \in SUBSET Request : r \notin R /\ IsFiniteSet(Offered(R)) =>
        /\ IsFiniteSet(Offered(R \cup {r}))
        /\ Cardinality(Offered(R \cup {r})) = Cardinality(Offered(R)) + n
  BY OfferedOne
<1>10. \A R : Offered(R)' = Offered(R')
  BY DEF Offered
<1> HIDE DEF n, A, C, J
<1>11. SUFFICES /\ IsFiniteSet(Offered(A')) /\ Len(admitted') = Cardinality(Offered(A'))
                /\ IsFiniteSet(Offered(C')) /\ metrics'.accepted = Cardinality(Offered(C'))
                /\ IsFiniteSet(Offered(J')) /\ metrics'.dropped = Cardinality(Offered(J')) + LeftOver
                /\ metrics'.flushed = Len(taken)
  <2>1. Offered(A)' = Offered(A') /\ Offered(C)' = Offered(C') /\ Offered(J)' = Offered(J')
    BY DEF Offered
  <2> QED
    BY <1>3, <1>4, <1>8, <2>1 DEF CountInv, A, C, J
<1>12. CASE Enqueue(r)
  <2>1. /\ handler[r] = "new" /\ admitted' = admitted \o Body[r] /\ metrics' = metrics
        /\ x \in {"count", "countAndWake"}
    BY <1>6, <1>12 DEF Enqueue, TypeOK
  <2>2. Len(admitted') = Len(admitted) + n
    BY <1>1, <1>2, <2>1, ConcatProperties DEF n
  <2>3. A' = A \cup {r} /\ r \notin A /\ C' = C /\ J' = J
    BY <1>7, <2>1
  <2> QED
    BY <1>7, <1>8, <1>9, <2>1, <2>2, <2>3
<1>13. CASE EnqueueRefuses(r)
  <2>1. handler[r] = "new" /\ x = "countDrop" /\ metrics' = metrics /\ admitted' = admitted
    BY <1>6, <1>13 DEF EnqueueRefuses, histVars, TypeOK
  <2>2. A' = A /\ C' = C /\ J' = J
    BY <1>7, <2>1
  <2> QED
    BY <1>8, <2>1, <2>2
<1>14. CASE EnqueueEmpty(r)
  <2>1. /\ handler[r] = "new" /\ x = "rejected" /\ metrics' = metrics /\ admitted' = admitted
        /\ n = 0
    BY <1>6, <1>14, EmptySeq DEF EnqueueEmpty, histVars, TypeOK, n
  <2>2. A' = A /\ C' = C /\ J' = J \cup {r} /\ r \notin J
    BY <1>7, <2>1
  <2>3. IsFiniteSet(Offered(J')) /\ Cardinality(Offered(J')) = Cardinality(Offered(J))
    <3>1. IsFiniteSet(Offered(J')) /\ Cardinality(Offered(J')) = Cardinality(Offered(J)) + n
      BY <1>7, <1>8, <1>9, <2>2
    <3> QED
      BY <1>8, <2>1, <3>1
  <2> QED
    BY <1>8, <2>1, <2>2, <2>3
<1>15. CASE signal(r)
  <2>1. handler[r] = "signal" /\ x = "accepted" /\ metrics' = metrics /\ admitted' = admitted
    BY <1>6, <1>15 DEF signal, histVars, TypeOK
  <2>2. A' = A /\ C' = C /\ J' = J
    BY <1>7, <2>1
  <2> QED
    BY <1>8, <2>1, <2>2
<1>16. CASE EnqueueCounts(r)
  <2>1. admitted' = admitted
    BY <1>16 DEF EnqueueCounts, histVars
  <2>2. CASE /\ handler[r] = "countDrop" /\ x = "rejected"
             /\ metrics' = [metrics EXCEPT !.dropped = @ + n]
    <3>1. /\ metrics'.dropped = metrics.dropped + n /\ metrics'.accepted = metrics.accepted
          /\ metrics'.flushed = metrics.flushed
      BY <1>2, <2>2
    <3>2. A' = A /\ C' = C /\ J' = J \cup {r} /\ r \notin J
      BY <1>7, <2>2
    <3>3. IsFiniteSet(Offered(J')) /\ Cardinality(Offered(J')) = Cardinality(Offered(J)) + n
      BY <1>7, <1>8, <1>9, <3>2
    <3> QED
      BY <1>1, <1>4, <1>8, <2>1, <3>1, <3>2, <3>3 DEF n
  <2>3. CASE /\ handler[r] \in {"count", "countAndWake"} /\ x \in {"accepted", "signal"}
             /\ metrics' = [metrics EXCEPT !.accepted = @ + n]
    <3>1. /\ metrics'.accepted = metrics.accepted + n /\ metrics'.dropped = metrics.dropped
          /\ metrics'.flushed = metrics.flushed
      BY <1>2, <2>3
    <3>2. A' = A /\ C' = C \cup {r} /\ r \notin C /\ J' = J
      BY <1>7, <2>3
    <3>3. IsFiniteSet(Offered(C')) /\ Cardinality(Offered(C')) = Cardinality(Offered(C)) + n
      BY <1>7, <1>8, <1>9, <3>2
    <3> QED
      BY <1>1, <1>4, <1>8, <2>1, <3>1, <3>2, <3>3 DEF n
  <2> QED
    BY <1>6, <1>16, <2>2, <2>3 DEF EnqueueCounts, TypeOK, n
<1> QED
  BY <1>12, <1>13, <1>14, <1>15, <1>16 DEF HandlerStep

(* The loop: a batch is counted when it was written, what the drain leaves *)
(* when the drain is over, and that is what is then discarded.             *)
LEMMA CountNext == IInv /\ CountInv /\ [Next]_vars => CountInv'
<1> SUFFICES ASSUME IInv, CountInv, [Next]_vars PROVE CountInv'
  OBVIOUS
<1>1. TypeOK /\ LoopInv
  BY DEF IInv
<1>2. metrics \in [accepted : Nat, dropped : Nat, flushed : Nat]
      /\ queue \in Seq(Event) /\ batch \in Seq(Event) /\ taken \in Seq(Event)
      /\ discarded \in Seq(Event) /\ remaining \in Nat
  BY <1>1 DEF TypeOK
<1>3. /\ Offered(HasAdmitted)' = Offered(HasAdmitted') /\ Offered(HasCounted)' = Offered(HasCounted')
      /\ Offered(HasRejected)' = Offered(HasRejected')
  BY DEF Offered
<1>4. handler' = handler => HasAdmitted' = HasAdmitted /\ HasCounted' = HasCounted /\ HasRejected' = HasRejected
  BY DEF HasAdmitted, HasCounted, HasRejected, HandlersIn
<1>5. Cardinality(Offered(HasRejected)) \in Nat
  BY FS_CardinalityType DEF CountInv
<1>6. ASSUME NEW r \in Request, HandlerStep(r) PROVE CountInv'
  BY <1>1, <1>6, CountHandlers
<1>7. CASE flushNext
  <2>1. /\ metrics'.flushed = metrics.flushed + Len(batch) /\ metrics'.accepted = metrics.accepted
        /\ metrics'.dropped = metrics.dropped
        /\ UNCHANGED <<handler, remaining, admitted, discarded>>
        /\ loop = "write" /\ loop' \in {"select", "check", "drain"}
    BY <1>1, <1>2, <1>7 DEF flushNext, TypeOK
  <2>2. Len(taken') = Len(taken) + Len(batch)
    BY <1>2, <1>7, ConcatProperties DEF flushNext
  <2>3. LeftOver' = LeftOver
    BY <2>1 DEF LeftOver
  <2> QED
    BY <1>2, <1>3, <1>4, <2>1, <2>2, <2>3 DEF CountInv
<1>8. CASE DrainNext
  <2>1. CASE UNCHANGED <<remaining, metrics>> /\ loop' = "take"
    <3>1. UNCHANGED <<handler, admitted, taken, discarded>> /\ LeftOver' = LeftOver
      BY <1>8, <2>1 DEF DrainNext, LeftOver, histVars
    <3> QED
      BY <2>1, <3>1, CountStays
  <2>2. CASE /\ loop' = "discard" /\ remaining' = Len(queue)
             /\ metrics' = [metrics EXCEPT !.dropped = @ + Len(queue)]
    <3>1. /\ metrics'.dropped = metrics.dropped + Len(queue) /\ metrics'.accepted = metrics.accepted
          /\ metrics'.flushed = metrics.flushed
      BY <1>2, <2>2
    <3>2. UNCHANGED <<handler, admitted, taken, discarded>> /\ LeftOver = 0 /\ LeftOver' = Len(queue)
      BY <1>8, <2>2 DEF DrainNext, LeftOver, histVars
    <3>3. Len(queue) \in Nat
      BY <1>2
    <3> QED
      BY <1>3, <1>4, <1>5, <2>2, <3>1, <3>2, <3>3 DEF CountInv
  <2> QED
    BY <1>8, <2>1, <2>2 DEF DrainNext
<1>9. CASE discardPending
  <2>1. /\ UNCHANGED <<handler, metrics, admitted, taken, remaining>>
        /\ loop = "discard" /\ loop' = "exited"
    BY <1>9 DEF discardPending
  <2>2. discarded = <<>> /\ remaining = Len(queue)
    BY <1>1, <2>1 DEF LoopInv
  <2>3. Len(discarded') = remaining
    <3>1. CASE remaining > 0
      <4>1. discarded' = <<>> \o queue
        BY <1>9, <2>2, <3>1 DEF discardPending
      <4> QED
        BY <1>2, <2>2, <4>1
    <3>2. CASE ~(remaining > 0)
      <4>1. discarded' = <<>> /\ remaining = 0
        BY <1>2, <1>9, <2>2, <3>2 DEF discardPending
      <4> QED
        BY <4>1, EmptySeq
    <3> QED
      BY <3>1, <3>2
  <2>4. LeftOver' = LeftOver
    BY <2>1 DEF LeftOver
  <2> QED
    BY <1>3, <1>4, <2>1, <2>3, <2>4 DEF CountInv
<1>10. CASE UNCHANGED <<loop, remaining, handler, metrics, admitted, taken, discarded>>
  <2>1. LeftOver' = LeftOver
    BY <1>10 DEF LeftOver
  <2> QED
    BY <1>10, <2>1, CountStays
<1>11. CASE Start \/ LoopWake \/ LoopTick \/ LoopStop \/ LoopCheck \/ takeBatch \/ takeNothing
  <2>1. UNCHANGED <<handler, metrics, admitted, taken, discarded, remaining>>
    BY <1>11 DEF Start, LoopWake, LoopTick, LoopStop, LoopCheck, takeBatch, takeNothing, histVars
  <2>2. loop \in {"off", "select", "check", "take"}
    <3>1. Start => loop = "off"
      BY DEF IInv, CloseInv, Start
    <3> QED
      BY <1>11, <3>1 DEF LoopWake, LoopTick, LoopStop, LoopCheck, takeBatch, takeNothing
  <2>3. loop' \in {"select", "check", "take", "drain", "write"}
    BY <1>1, <1>11 DEF Start, LoopWake, LoopTick, LoopStop, LoopCheck, takeBatch, takeNothing, TypeOK
  <2>4. LeftOver' = LeftOver
    BY <2>2, <2>3 DEF LeftOver
  <2> QED
    BY <2>1, <2>3, <2>4, CountStays
<1>12. CASE (\E c \in Closer : CloserStep(c)) \/ DrainExpires \/ UNCHANGED vars
  BY <1>10, <1>12
     DEF CloserStep, CloseNotStarted, Close, CloseReturns, DrainExpires, vars, loopVars, histVars
<1> QED
  BY <1>6, <1>7, <1>8, <1>9, <1>11, <1>12 DEF Next, LoopStep

(* Once the loop has exited and every handler is done, the counters account *)
(* for every event that was offered, whatever the order in which the       *)
(* handlers, the loop and the drain updated them (batcher.go, Enqueue,     *)
(* flushNext and flushAll).                                                *)
THEOREM CountersSettle == Spec => []SettledMetrics
<1>1. IInv /\ CountInv => SettledMetrics
  <2> SUFFICES ASSUME IInv, CountInv, Settled
               PROVE  /\ metrics.accepted = metrics.flushed + Len(discarded)
                      /\ metrics.flushed + metrics.dropped = Cardinality(Offered(Request))
    BY DEF SettledMetrics
  <2>1. /\ handler \in [Request -> {"new", "count", "countAndWake", "countDrop",
                                    "signal", "accepted", "rejected"}]
        /\ taken \in Seq(Event) /\ discarded \in Seq(Event)
        /\ batch = <<>> /\ queue = <<>> /\ admitted = taken \o batch \o discarded \o queue
    BY DEF IInv, TypeOK, LoopInv, FifoConservation, Settled
  <2>2. \A r \in Request : handler[r] \in {"accepted", "rejected"}
    BY DEF Settled
  <2>3. HasAdmitted = HasCounted /\ Request = HasCounted \cup HasRejected
        /\ HasCounted \cap HasRejected = {}
        /\ HasCounted \in SUBSET Request /\ HasRejected \in SUBSET Request
    BY <2>2 DEF HasAdmitted, HasCounted, HasRejected, HandlersIn
  <2>4. Len(admitted) = Len(taken) + Len(discarded)
    <3>1. taken \o <<>> = taken
      BY <2>1, ConcatEmptySeq
    <3>2. (taken \o discarded) \o <<>> = taken \o discarded
      BY <2>1, ConcatProperties, ConcatEmptySeq
    <3> QED
      BY <2>1, <3>1, <3>2, ConcatProperties
  <2>5. Cardinality(Offered(Request)) = Cardinality(Offered(HasCounted)) + Cardinality(Offered(HasRejected))
    <3> DEFINE C == HasCounted
               J == HasRejected
    <3>1. IsFiniteSet(Offered(C)) /\ IsFiniteSet(Offered(J))
      BY DEF CountInv
    <3>2. Request = C \cup J /\ C \cap J = {} /\ C \in SUBSET Request /\ J \in SUBSET Request
      BY <2>3
    <3> HIDE DEF C, J
    <3>3. Cardinality(Offered(C \cup J)) = Cardinality(Offered(C)) + Cardinality(Offered(J))
      BY <3>1, <3>2, OfferedBoth
    <3>4. Cardinality(Offered(Request)) = Cardinality(Offered(C \cup J))
      BY <3>2
    <3> QED
      BY <3>3, <3>4 DEF C, J
  <2>6. LeftOver = remaining /\ Len(discarded) = remaining
    BY DEF LeftOver, CountInv, Settled
  <2>7. /\ Len(taken) \in Nat /\ Len(discarded) \in Nat
        /\ Cardinality(Offered(HasCounted)) \in Nat /\ Cardinality(Offered(HasRejected)) \in Nat
    BY <2>1, FS_CardinalityType DEF CountInv
  <2>8. /\ Len(admitted) = Cardinality(Offered(HasCounted))
        /\ metrics.accepted = Cardinality(Offered(HasCounted))
        /\ metrics.dropped = Cardinality(Offered(HasRejected)) + LeftOver
        /\ metrics.flushed = Len(taken)
    BY <2>3 DEF CountInv
  <2> QED
    BY <2>4, <2>5, <2>6, <2>7, <2>8
<1>2. Init => CountInv
  BY CountStarts
<1>3. IInv /\ CountInv /\ [Next]_vars => CountInv'
  BY CountNext
<1> QED
  BY <1>1, <1>2, <1>3, Invariance, PTL DEF Spec
=============================================================================
