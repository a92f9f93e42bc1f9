------------------------------ MODULE Batcher ------------------------------
(***************************************************************************)
(* The in-memory event batcher of the telemetry backend                    *)
(* (internal/telemetrybackend/batcher.go): one bounded queue under a mutex,*)
(* any number of request handlers calling Enqueue, exactly one flush loop, *)
(* and any number of callers of Start and Close.                           *)
(*                                                                         *)
(* A critical section under b.mu is one step.  What a method does outside  *)
(* the mutex (the metric counters, the non-blocking send on wake, the sink *)
(* write, the two channel operations of Close) is a step of its own.       *)
(***************************************************************************)
EXTENDS Naturals, Sequences, FiniteSets

CONSTANTS
  Event,            \* telemetry events, each unique (event_id)
  Request,          \* request handlers; each calls Enqueue once
  Body,             \* Body[r]: the events request r carries
  Closer,           \* callers of Close
  Size,             \* Size[e]: estimateEventBytes of event e
  MaxEventBytes,    \* the largest value Size takes
  BufferMaxEvents,  \* config.BufferMaxEvents
  FlushMaxEvents,   \* config.FlushMaxEvents
  FlushMaxBytes     \* config.FlushMaxBytes

(* What Config.Validate guarantees of the limits, and what the wire decoder *)
(* guarantees of the events.                                                *)
ASSUME ConfigAssumption ==
  /\ BufferMaxEvents \in Nat \ {0}
  /\ FlushMaxEvents \in 1 .. BufferMaxEvents
  /\ FlushMaxBytes \in Nat \ {0}
  /\ MaxEventBytes \in Nat \ {0}
  /\ Size \in [Event -> 1 .. MaxEventBytes]

ASSUME BodyAssumption == Body \in [Request -> Seq(Event)]

VARIABLES
  queue,        \* b.queue, guarded by b.mu
  pendingBytes, \* b.pendingBytes, guarded by b.mu
  closed,       \* b.closed, guarded by b.mu
  started,      \* b.started, guarded by b.mu
  wake,         \* b.wake holds its one token
  stopClosed,   \* how often b.stop was closed (a second close panics)
  doneClosed,   \* how often b.done was closed (a second close panics)
  handler,      \* control state of each request handler
  closer,       \* control state of each caller of Close
  loop,         \* control state of the flush loop
  after,        \* where the loop continues after flushNext returns
  batch,        \* the batch flushNext holds outside the mutex
  remaining,    \* flushAll's local count of what the drain left over
  drainExpired, \* the drain context has expired
  metrics,      \* the Metrics counters the batcher maintains
  admitted,     \* history: every event Enqueue appended, in order
  taken,        \* history: every event flushNext finished with, in order
  discarded     \* history: every event discardPending threw away, in order

lockVars  == <<queue, pendingBytes, closed, started>>
chanVars  == <<wake, stopClosed, doneClosed>>
loopVars  == <<loop, after, batch, remaining, drainExpired>>
histVars  == <<admitted, taken, discarded>>
vars == <<lockVars, chanVars, handler, closer, loopVars, metrics, histVars>>

-----------------------------------------------------------------------------
(* The number of bytes of a sequence of events, as the number of its byte  *)
(* positions.                                                              *)
BytePositions(q) ==
  {p \in (1 .. Len(q)) \X (1 .. MaxEventBytes) : p[2] <= Size[q[p[1]]]}
Bytes(q) == Cardinality(BytePositions(q))

thresholdReached ==
  \/ Len(queue) >= FlushMaxEvents
  \/ pendingBytes >= FlushMaxBytes

(* takeBatch stops in front of event k+1 when the batch is full: the first *)
(* event is always taken, a later one only if the bytes still fit.         *)
Fits(k) == k = 1 \/ Bytes(SubSeq(queue, 1, k)) <= FlushMaxBytes
TakeCount(k) ==
  /\ k \in 1 .. Len(queue)
  /\ k <= FlushMaxEvents
  /\ Fits(k)
  /\ (k < Len(queue) /\ k < FlushMaxEvents) => ~Fits(k + 1)

Init ==
  /\ queue = <<>> /\ pendingBytes = 0 /\ closed = FALSE /\ started = FALSE
  /\ wake = FALSE /\ stopClosed = 0 /\ doneClosed = 0
  /\ handler = [r \in Request |-> "new"]
  /\ closer = [c \in Closer |-> "new"]
  /\ loop = "off" /\ after = "select" /\ batch = <<>>
  /\ remaining = 0 /\ drainExpired = FALSE
  /\ metrics = [accepted |-> 0, dropped |-> 0, flushed |-> 0]
  /\ admitted = <<>> /\ taken = <<>> /\ discarded = <<>>

-----------------------------------------------------------------------------
(* Start: the first caller starts the loop, later callers do nothing.      *)
Start ==
  /\ ~started
  /\ started' = TRUE
  /\ loop' = "select"
  /\ UNCHANGED <<queue, pendingBytes, closed, chanVars, handler, closer,
                 after, batch, remaining, drainExpired, metrics, histVars>>

(* Enqueue's critical section: all of a request's events or none of them.  *)
(* Mutants: the closed flag, or the bound on the queue, is not checked.    *)
AdmitsAfterClose(r) == Len(queue) + Len(Body[r]) <= BufferMaxEvents
AdmitsBeyondBound(r) == ~closed /\ Len(queue) <= BufferMaxEvents
EnqueueAdmits(r) == ~closed /\ Len(queue) + Len(Body[r]) <= BufferMaxEvents

Enqueue(r) ==
  /\ handler[r] = "new"
  /\ Body[r] # <<>>
  /\ EnqueueAdmits(r)
  /\ queue' = queue \o Body[r]
  /\ pendingBytes' = pendingBytes + Bytes(Body[r])
  /\ admitted' = admitted \o Body[r]
  /\ handler' = [handler EXCEPT ![r] =
                   IF thresholdReached' THEN "countAndWake" ELSE "count"]
  /\ UNCHANGED <<closed, started, chanVars, closer, loopVars, metrics,
                 taken, discarded>>

EnqueueRefuses(r) ==
  /\ handler[r] = "new"
  /\ Body[r] # <<>>
  /\ ~EnqueueAdmits(r)
  /\ handler' = [handler EXCEPT ![r] = "countDrop"]
  /\ UNCHANGED <<lockVars, chanVars, closer, loopVars, metrics, histVars>>

(* An empty request returns false before it takes the mutex.               *)
EnqueueEmpty(r) ==
  /\ handler[r] = "new"
  /\ Body[r] = <<>>
  /\ handler' = [handler EXCEPT ![r] = "rejected"]
  /\ UNCHANGED <<lockVars, chanVars, closer, loopVars, metrics, histVars>>

(* The counters, after the mutex was released.                             *)
EnqueueCounts(r) ==
  /\ \/ /\ handler[r] = "countDrop"
        /\ metrics' = [metrics EXCEPT !.dropped = @ + Len(Body[r])]
        /\ handler' = [handler EXCEPT ![r] = "rejected"]
     \/ /\ handler[r] = "count"
        /\ metrics' = [metrics EXCEPT !.accepted = @ + Len(Body[r])]
        /\ handler' = [handler EXCEPT ![r] = "accepted"]
     \/ /\ handler[r] = "countAndWake"
        /\ metrics' = [metrics EXCEPT !.accepted = @ + Len(Body[r])]
        /\ handler' = [handler EXCEPT ![r] = "signal"]
  /\ UNCHANGED <<lockVars, chanVars, closer, loopVars, histVars>>

(* signal: a non-blocking send on a channel of capacity one.               *)
signal(r) ==
  /\ handler[r] = "signal"
  /\ wake' = TRUE
  /\ handler' = [handler EXCEPT ![r] = "accepted"]
  /\ UNCHANGED <<lockVars, stopClosed, doneClosed, closer, loopVars, metrics,
                 histVars>>

(* Close's critical section, then its wait for done or for its context.    *)
CloseNotStarted(c) ==
  /\ closer[c] = "new"
  /\ ~started
  /\ closed' = TRUE /\ started' = TRUE
  /\ doneClosed' = doneClosed + 1
  /\ closer' = [closer EXCEPT ![c] = "returned"]
  /\ UNCHANGED <<queue, pendingBytes, wake, stopClosed, handler, loopVars,
                 metrics, histVars>>

(* Mutant: every call closes b.stop.                                       *)
CloseTwice(c) ==
  /\ closer[c] = "new" /\ started
  /\ closed' = TRUE /\ stopClosed' = stopClosed + 1
  /\ closer' = [closer EXCEPT ![c] = "waiting"]
  /\ UNCHANGED <<queue, pendingBytes, started, wake, doneClosed, handler,
                 loopVars, metrics, histVars>>

Close(c) ==
  /\ closer[c] = "new"
  /\ started
  /\ closed' = TRUE
  /\ stopClosed' = IF closed THEN stopClosed ELSE stopClosed + 1
  /\ closer' = [closer EXCEPT ![c] = "waiting"]
  /\ UNCHANGED <<queue, pendingBytes, started, wake, doneClosed, handler,
                 loopVars, metrics, histVars>>

(* The wait ends with done, or at any time with the caller's context: the   *)
(* error it returns then is the only difference, and changes no state.      *)
CloseReturns(c) ==
  /\ closer[c] = "waiting"
  /\ closer' = [closer EXCEPT ![c] = "returned"]
  /\ UNCHANGED <<lockVars, chanVars, handler, loopVars, metrics, histVars>>

-----------------------------------------------------------------------------
(* The loop's select: any ready branch may be chosen.                      *)
LoopWake ==
  /\ loop = "select"
  /\ wake
  /\ wake' = FALSE
  /\ loop' = "check"
  /\ UNCHANGED <<lockVars, stopClosed, doneClosed, handler, closer, after, batch,
                 remaining, drainExpired, metrics, histVars>>

(* Mutant: a tick flushes only what reaches a threshold.                   *)
TickChecks ==
  /\ loop = "select" /\ loop' = "check"
  /\ UNCHANGED <<lockVars, chanVars, handler, closer, after, batch, remaining,
                 drainExpired, metrics, histVars>>

LoopTick ==
  /\ loop = "select"
  /\ loop' = "take" /\ after' = "select"
  /\ UNCHANGED <<lockVars, chanVars, handler, closer, batch, remaining,
                 drainExpired, metrics, histVars>>

LoopStop ==
  /\ loop = "select"
  /\ stopClosed > 0
  /\ loop' = "drain"
  /\ UNCHANGED <<lockVars, chanVars, handler, closer, after, batch, remaining,
                 drainExpired, metrics, histVars>>

(* Mutant: if instead of for, one flush for one wake-up.                   *)
CheckOnce ==
  /\ loop = "check"
  /\ IF thresholdReached
       THEN loop' = "take" /\ after' = "select"
       ELSE loop' = "select" /\ UNCHANGED after
  /\ UNCHANGED <<lockVars, chanVars, handler, closer, batch, remaining,
                 drainExpired, metrics, histVars>>

(* for b.thresholdReached() { b.flushNext(...) }                           *)
LoopCheck ==
  /\ loop = "check"
  /\ IF thresholdReached
       THEN loop' = "take" /\ after' = "check"
       ELSE loop' = "select" /\ UNCHANGED after
  /\ UNCHANGED <<lockVars, chanVars, handler, closer, batch, remaining,
                 drainExpired, metrics, histVars>>

(* Mutants: the queue is not cut after the copy; the bytes of the event    *)
(* the loop stopped at are subtracted too.                                 *)
TakeWith(Rest(_), Taken(_)) ==
  /\ loop = "take" /\ loop' = "write"
  /\ \E k \in 1 .. Len(queue) :
       /\ TakeCount(k)
       /\ batch' = SubSeq(queue, 1, k) /\ queue' = Rest(k)
       /\ pendingBytes' = pendingBytes - Bytes(Taken(k))
  /\ UNCHANGED <<closed, started, chanVars, handler, closer, after, remaining,
                 drainExpired, metrics, histVars>>
TakeWithoutCut == TakeWith(LAMBDA k : queue, LAMBDA k : <<>>)
TakeOvercounts ==
  TakeWith(LAMBDA k : SubSeq(queue, k + 1, Len(queue)),
           LAMBDA k : SubSeq(queue, 1, IF k < Len(queue) THEN k + 1 ELSE k))

(* takeBatch, the first half of flushNext.                                 *)
takeBatch ==
  /\ loop = "take"
  /\ \E k \in 1 .. Len(queue) :
       /\ TakeCount(k)
       /\ batch' = SubSeq(queue, 1, k)
       /\ queue' = SubSeq(queue, k + 1, Len(queue))
       /\ pendingBytes' = pendingBytes - Bytes(SubSeq(queue, 1, k))
  /\ loop' = "write"
  /\ UNCHANGED <<closed, started, chanVars, handler, closer, after, remaining,
                 drainExpired, metrics, histVars>>

takeNothing ==
  /\ loop = "take"
  /\ queue = <<>>
  /\ loop' = after
  /\ UNCHANGED <<lockVars, chanVars, handler, closer, after, batch, remaining,
                 drainExpired, metrics, histVars>>

(* The sink write, the second half of flushNext.  Its outcome reaches only  *)
(* the log and the per-sink counters: whether the INSERT IGNORE was applied,*)
(* failed or timed out, the batch is given up and counted as flushed.       *)
flushNext ==
  /\ loop = "write"
  /\ metrics' = [metrics EXCEPT !.flushed = @ + Len(batch)]
  /\ taken' = taken \o batch
  /\ batch' = <<>>
  /\ loop' = after
  /\ UNCHANGED <<lockVars, chanVars, handler, closer, after, remaining,
                 drainExpired, admitted, discarded>>

-----------------------------------------------------------------------------
(* flushAll: drain until empty or until the context expires, then count    *)
(* what is left and discard it.                                            *)
DrainExpires ==
  /\ loop = "drain" \/ (loop \in {"take", "write"} /\ after = "drain")
  /\ ~drainExpired
  /\ drainExpired' = TRUE
  /\ UNCHANGED <<lockVars, chanVars, handler, closer, loop, after, batch,
                 remaining, metrics, histVars>>

(* Mutant: what the drain leaves over is not counted as dropped.           *)
DrainUncounted ==
  /\ loop = "drain"
  /\ IF queue # <<>> /\ ~drainExpired
       THEN loop' = "take" /\ after' = "drain" /\ UNCHANGED remaining
       ELSE loop' = "discard" /\ UNCHANGED after /\ remaining' = Len(queue)
  /\ UNCHANGED <<lockVars, chanVars, handler, closer, batch, drainExpired,
                 metrics, histVars>>

DrainNext ==
  /\ loop = "drain"
  /\ IF queue # <<>> /\ ~drainExpired
       THEN loop' = "take" /\ after' = "drain" /\ UNCHANGED <<remaining, metrics>>
       ELSE /\ loop' = "discard" /\ UNCHANGED after
            /\ remaining' = Len(queue)
            /\ metrics' = [metrics EXCEPT !.dropped = @ + Len(queue)]
  /\ UNCHANGED <<lockVars, chanVars, handler, closer, batch, drainExpired, 
                 histVars>>

(* Mutant: a break that leaves the select, not the loop.                   *)
DrainThenLoop ==
  /\ loop = "discard" /\ loop' = "select"
  /\ queue' = <<>> /\ pendingBytes' = 0 /\ discarded' = discarded \o queue
  /\ UNCHANGED <<closed, started, chanVars, handler, closer, after, batch,
                 remaining, drainExpired, metrics, admitted, taken>>

discardPending ==
  /\ loop = "discard"
  /\ IF remaining > 0
       THEN /\ queue' = <<>> /\ pendingBytes' = 0
            /\ discarded' = discarded \o queue
       ELSE UNCHANGED <<queue, pendingBytes, discarded>>
  /\ loop' = "exited"
  /\ doneClosed' = doneClosed + 1
  /\ UNCHANGED <<closed, started, wake, stopClosed, handler, closer, after, batch,
                 remaining, drainExpired, metrics, admitted, taken>>

-----------------------------------------------------------------------------
HandlerStep(r) == Enqueue(r) \/ EnqueueRefuses(r) \/ EnqueueEmpty(r)
                    \/ EnqueueCounts(r) \/ signal(r)
CloserStep(c) == CloseNotStarted(c) \/ Close(c) \/ CloseReturns(c)
LoopStep == LoopWake \/ LoopTick \/ LoopStop \/ LoopCheck \/ takeBatch
              \/ takeNothing \/ flushNext \/ DrainNext \/ discardPending

Next ==
  \/ Start
  \/ \E r \in Request : HandlerStep(r)
  \/ \E c \in Closer : CloserStep(c)
  \/ LoopStep
  \/ DrainExpires

Spec == Init /\ [][Next]_vars

(* The loop goroutine runs; the ticker keeps ticking; Go's select chooses  *)
(* uniformly among ready branches, so a branch that is ready again and     *)
(* again is taken: strong fairness on the branches of the select.          *)
Fairness ==
  /\ WF_vars(LoopStep)
  /\ SF_vars(LoopTick)
  /\ SF_vars(LoopStop)
  /\ \A r \in Request : WF_vars(EnqueueCounts(r) \/ signal(r))

FairSpec == Spec /\ Fairness

-----------------------------------------------------------------------------
TypeOK ==
  /\ queue \in Seq(Event) /\ batch \in Seq(Event)
  /\ admitted \in Seq(Event) /\ taken \in Seq(Event) /\ discarded \in Seq(Event)
  /\ pendingBytes \in Nat
  /\ closed \in BOOLEAN /\ started \in BOOLEAN /\ wake \in BOOLEAN
  /\ drainExpired \in BOOLEAN
  /\ stopClosed \in Nat /\ doneClosed \in Nat /\ remaining \in Nat
  /\ handler \in [Request -> {"new", "count", "countAndWake", "countDrop",
                              "signal", "accepted", "rejected"}]
  /\ closer \in [Closer -> {"new", "waiting", "returned"}]
  /\ loop \in {"off", "select", "check", "take", "write", "drain", "discard",
               "exited"}
  /\ after \in {"select", "check", "drain"}
  /\ metrics \in [accepted : Nat, dropped : Nat, flushed : Nat]

(* Enqueue and takeBatch keep the queue inside its limit and pendingBytes  *)
(* equal to the bytes queued, whatever the interleaving of handlers, loop  *)
(* and shutdown (a drift would disable or force every byte-threshold wake).*)
QueueAccounting ==
  /\ Len(queue) <= BufferMaxEvents
  /\ pendingBytes = Bytes(queue)

(* Nothing is lost, duplicated or reordered between Enqueue and the sink:  *)
(* what was admitted is, in order, what was flushed, what flushNext holds, *)
(* what the shutdown drain discarded, and what is still queued.            *)
FifoConservation == admitted = taken \o batch \o discarded \o queue

(* The non-blocking send in signal never loses the wake-up: whenever a     *)
(* flush threshold is reached and the loop is parked in its select (or is  *)
(* serving a tick), a token is in wake or some handler is about to put one *)
(* there.                                                                  *)
WakePending == wake \/ \E r \in Request : handler[r] \in {"countAndWake", "signal"}
Parked == loop = "select" \/ (loop \in {"take", "write"} /\ after = "select")
NoLostWakeup == (thresholdReached /\ Parked) => WakePending

(* Start and Close, called in any order by any number of goroutines, close *)
(* b.stop and b.done at most once each: a second close would panic.        *)
NoDoubleClose == stopClosed <= 1 /\ doneClosed <= 1

(* Once the loop has exited, no event is left in memory, and a handler that*)
(* races with the shutdown cannot put one there afterwards.                *)
DrainedOnExit == loop = "exited" => queue = <<>> /\ batch = <<>>

(* The events that a set of requests offers, one by one.                    *)
Offered(R) == UNION {{r} \X (1 .. Len(Body[r])) : r \in R}
Settled == loop = "exited" /\ \A r \in Request : handler[r] \in {"accepted", "rejected"}

(* After shutdown, with every handler done, the exported counters account  *)
(* for every event offered: accepted = flushed + discarded, and everything *)
(* that was not flushed was counted as dropped exactly once.               *)
SettledMetrics ==
  Settled => /\ metrics.accepted = metrics.flushed + Len(discarded)
             /\ metrics.flushed + metrics.dropped = Cardinality(Offered(Request))

(* A running batcher does not sit on events: once the handlers stop adding *)
(* to it, the queue empties, by the ticker below the thresholds and by the *)
(* drain at shutdown.                                                      *)
EventuallyTaken == (queue # <<>> /\ loop # "off") ~> (queue = <<>>)

(* Once Close has asked the loop to stop, the loop exits: no sink outcome, *)
(* wake-up or tick can hold the drain up for ever.                         *)
StopLeadsToDone == (stopClosed > 0) ~> (doneClosed > 0)

-----------------------------------------------------------------------------
(* The batcher implements the abstract buffer: what flushNext holds and    *)
(* what is queued are the events held, and a request is answered in        *)
(* Enqueue's critical section, before the counters and the wake-up.        *)
Answer(r) ==
  CASE handler[r] = "new" -> "pending"
    [] handler[r] \in {"countDrop", "rejected"} -> "rejected"
    [] OTHER -> "accepted"

Buffer == INSTANCE EventBuffer WITH
  Capacity <- BufferMaxEvents + FlushMaxEvents,
  open <- ~closed,
  answer <- [r \in Request |-> Answer(r)],
  held <- batch \o queue,
  delivered <- taken,
  lost <- discarded

(* Enqueue, flushNext, Close and the drain, interleaved in any way, behave *)
(* like one bounded buffer: a request is taken whole or refused, events    *)
(* reach the sink in order, nothing enters after Close, and only the drain *)
(* throws events away, once and after Close.                               *)
ImplementsBuffer == Buffer!Spec

=============================================================================
