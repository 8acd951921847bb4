----------------------------- MODULE MCJwksCache -----------------------------
(* Small instances of JwksCache for TLC. *)
EXTENDS JwksCache, TLC

Symmetric == Permutations(Kids) \cup Permutations(Callers)

=============================================================================
