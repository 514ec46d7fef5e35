----------------------------- MODULE MCProjects -----------------------------
(* Two workers, one identity, a managed root and one outside.                *)
EXTENDS Projects, TLC

\* The workers are interchangeable (safety only).
HandlerSymmetry == Permutations(Handlers)
=============================================================================
