-------------------------- MODULE MCCredentialSync --------------------------
(***************************************************************************)
(* Instances of CredentialSync for TLC.                                    *)
(***************************************************************************)
EXTENDS CredentialSync

CONSTANTS k1, k2

\* One credential that is available and one that is missing.
MCTables == {[k \in Keys |-> IF k = k1 THEN [c |-> 1, on |-> TRUE, at |-> 1] ELSE None]}

AllEdits == {"create", "import", "update", "switch", "delete"}
=============================================================================
