------------------------- MODULE MCShellIntegration -------------------------
(* An instance of ShellIntegration for TLC: the processes are alike.       *)
EXTENDS ShellIntegration

Symmetry == Permutations(Runs) \union Permutations(Commands)

=============================================================================
