------------------------- MODULE MCAssertedExchange -------------------------
(* Small instances of AssertedExchange for TLC. *)
EXTENDS AssertedExchange, TLC

Symmetric ==
    Permutations(Clients) \cup Permutations(Handlers)
        \cup Permutations(Jtis) \cup Permutations(Codes)

=============================================================================
