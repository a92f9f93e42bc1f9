---------------------------- MODULE EventBuffer ----------------------------
(***************************************************************************)
(* What the batcher promises its callers and its sink, without its mutex,  *)
(* channels, thresholds and flush loop: a bounded buffer that takes the    *)
(* events of a request all together or not at all, hands them to the sink  *)
(* in the order they came, takes nothing more once it is shut, and throws  *)
(* away only what is left after that.                                      *)
(***************************************************************************)
EXTENDS Naturals, Sequences

CONSTANTS Request, Body, Capacity

VARIABLES
  open,       \* requests are still admitted
  answer,     \* what each request was told: "pending", "accepted" or "rejected"
  held,       \* events that were admitted and are still in memory
  delivered,  \* events handed to the sink, in order
  lost        \* events thrown away at shutdown, in order

vars == <<open, answer, held, delivered, lost>>

Init ==
  /\ open = TRUE
  /\ answer = [r \in Request |-> "pending"]
  /\ held = <<>> /\ delivered = <<>> /\ lost = <<>>

Accept(r) ==
  /\ answer[r] = "pending" /\ open
  /\ Body[r] # <<>> /\ Len(held) + Len(Body[r]) <= Capacity
  /\ answer' = [answer EXCEPT ![r] = "accepted"]
  /\ held' = held \o Body[r]
  /\ UNCHANGED <<open, delivered, lost>>

Reject(r) ==
  /\ answer[r] = "pending"
  /\ answer' = [answer EXCEPT ![r] = "rejected"]
  /\ UNCHANGED <<open, held, delivered, lost>>

Deliver ==
  /\ \E k \in 1 .. Len(held) :
       /\ delivered' = delivered \o SubSeq(held, 1, k)
       /\ held' = SubSeq(held, k + 1, Len(held))
  /\ UNCHANGED <<open, answer, lost>>

Shut ==
  /\ open /\ open' = FALSE
  /\ UNCHANGED <<answer, held, delivered, lost>>

Discard ==
  /\ ~open /\ lost = <<>>
  /\ lost' = held /\ held' = <<>>
  /\ UNCHANGED <<open, answer, delivered>>

Next == (\E r \in Request : Accept(r) \/ Reject(r)) \/ Deliver \/ Shut \/ Discard

Spec == Init /\ [][Next]_vars
=============================================================================
