----------------------------- MODULE MCZipQueue -----------------------------
(* Small instances of ZipQueue for TLC. *)
EXTENDS ZipQueue, TLC

\* Workers of one kind and markers are interchangeable: safety runs only.
Symmetry == Permutations(Token) \cup Permutations(Vm) \cup Permutations(Browser)

=============================================================================
