---------------------------- MODULE MCOAuthServer ----------------------------
(* Small instances of OAuthServer for TLC. *)
EXTENDS OAuthServer, TLC

\* Interchangeable values; the handlers treat them alike.
Symmetric == Permutations(Logins) \cup Permutations(Calls)

=============================================================================
