---------------------------- MODULE MCShellStream ----------------------------
(* ShellStream for TLC: the callers are interchangeable.                    *)
EXTENDS ShellStream, TLC

Symmetry == Permutations(Callers)

==============================================================================
