----------------------------- MODULE MCApiKeys -----------------------------
(* Small instances of ApiKeys for TLC.                                     *)
EXTENDS ApiKeys, TLC

\* A key that ends after a day and one without an end.
MCLifetimes == {1, Never}

Symmetry == Permutations(Keys \ Issued) \cup Permutations(Owners \cap Crashable)
                \cup Permutations(Owners \ Crashable)
                \cup Permutations(Requests \cap Crashable) \cup Permutations(Requests \ Crashable)
=============================================================================
