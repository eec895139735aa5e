--------------------------- MODULE MCSecretRotation ---------------------------
(***************************************************************************)
(* Instances of SecretRotation for TLC.                                    *)
(***************************************************************************)
EXTENDS SecretRotation, TLC

CONSTANTS r1, r2, k1, k2

\* Rotations differ in nothing but their name.
RotatorSymmetry == Permutations(Rotators)

=============================================================================
