------------------------------- MODULE MCFuse -------------------------------
EXTENDS FuseRuntime, TLC

Budget(cached, opens, writes, others, upsets) ==
    [cached |-> cached, opens |-> opens, writes |-> writes, others |-> others, upsets |-> upsets]

\* With the cache: two handles and another client, two handles that write, and one
\* handle with a write, another client and an upset.  Without: two handles with a
\* write or an upset beside the other client.
FuseBudgets == {Budget(TRUE, 2, 0, 1, 0), Budget(TRUE, 2, 1, 0, 0), Budget(TRUE, 1, 1, 1, 1),
                Budget(FALSE, 2, 1, 1, 0), Budget(FALSE, 2, 0, 1, 1)}

Symmetry == Permutations(Handles) \cup Permutations(Paths)
=============================================================================
