---------------------------- MODULE MCDeployment ----------------------------
(* Small instances of Deployment for TLC. *)
EXTENDS Deployment

CONSTANTS ours, chatgpt, appOfOurs

\* A client under the host of the environment, and one that is the default host.
MCUnder == [h \in ClientHosts |-> IF h = appOfOurs THEN {ours} ELSE {chatgpt}]

=============================================================================
