------------------------------- MODULE Fields -------------------------------
(***************************************************************************)
(* Objects with optional fields, as functions whose domain is the fields   *)
(* that are present.  (f ++ g is TLC's f @@ g, and Field(n, TRUE, v) its   *)
(* n :> v, by definitions of their own so that proofs can expand them.)    *)
(***************************************************************************)

\* The fields of f, and those of g that f lacks; f ++ g in a chain
Overlay(f, g) == [x \in DOMAIN f \cup DOMAIN g |-> IF x \in DOMAIN f THEN f[x] ELSE g[x]]
f ++ g == Overlay(f, g)

\* The field, if it is present
Field(name, present, value) == [x \in IF present THEN {name} ELSE {} |-> value]
=============================================================================
