----------------------------- MODULE MCMcpServer -----------------------------
(* Small instances of McpServer for TLC. *)
EXTENDS McpServer, TLC

Symmetric == Permutations(Logins) \cup Permutations(Calls) \cup Permutations(GateCalls)

=============================================================================
