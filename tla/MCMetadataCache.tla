--------------------------- MODULE MCMetadataCache ---------------------------
(* Small instances of MetadataCache for TLC. *)
EXTENDS MetadataCache, TLC

CONSTANTS inline, hosted, elsewhere, broken, home, foreign

MCVersions == {inline, hosted, elsewhere, broken}
MCKeysAt == (inline :> None) @@ (hosted :> home) @@ (elsewhere :> foreign) @@ (broken :> None)

Symmetric == Permutations(Requests)

=============================================================================
