--------------------------- MODULE MCBrowserWorker ---------------------------
(* Small instances of BrowserWorker for TLC. *)
EXTENDS BrowserWorker, TLC

\* Markers and machines are interchangeable: safety runs only.
Symmetry == Permutations(Token) \cup Permutations(Vm) \cup Permutations(Browser)

=============================================================================
