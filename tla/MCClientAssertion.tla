-------------------------- MODULE MCClientAssertion --------------------------
(* Small instances of ClientAssertion for TLC. *)
EXTENDS ClientAssertion, TLC

Symmetric == Permutations(Clients) \cup Permutations(Jtis) \cup Permutations(Handlers)

=============================================================================
