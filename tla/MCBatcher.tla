----------------------------- MODULE MCBatcher -----------------------------
(* Requests of three, one and no events.  The first fills the buffer and    *)
(* passes both thresholds; what a batch leaves of it reaches the threshold  *)
(* in bytes; the second stays below both on its own and depends on the      *)
(* ticker.                                                                  *)
EXTENDS Batcher

CONSTANTS e1, e2, e3, e4, r1, r2, r3

MCEvent == {e1, e2, e3, e4}
MCRequest == {r1, r2, r3}
MCBody == [r \in MCRequest |-> CASE r = r1 -> <<e1, e2, e3>>
                                 [] r = r2 -> <<e4>>
                                 [] r = r3 -> <<>>]
MCSize == [e \in MCEvent |-> IF e = e3 THEN 3 ELSE 1]
=============================================================================
