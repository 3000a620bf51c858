------------------------- MODULE MCInstanceSettings -------------------------
(* Requests that are interchangeable, for TLC.                             *)
EXTENDS InstanceSettings, TLC

Symmetry == Permutations(Request)

=============================================================================
