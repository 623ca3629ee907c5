----------------------------- MODULE MCSecrets ------------------------------
(* Small instances of Secrets.                                             *)
EXTENDS Secrets, TLC

MCSteps == {1}

(* Two refs that are written as one environment variable.                  *)
MCEnvKey == [r \in Refs |-> "VAR"]

MCStubValues == {}

Symmetry == Permutations(Workers)
=============================================================================
