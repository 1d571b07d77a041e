------------------------------ MODULE MCIngest ------------------------------
(***************************************************************************)
(* Small instances of Ingest.  Two contents share a format, so that two    *)
(* writers can aim at one original key; the last content fails validation. *)
(***************************************************************************)
EXTENDS Ingest, TLC

CONSTANTS c1, c2, bad

MCValid == {c1, c2}
MCSmall == {c1, bad}
MCOne == {c1}
MCFormat == [c \in Contents |-> "jpeg"]
MCSize == [c \in Contents |-> IF c = c2 THEN 2 ELSE 1]
\* Quotas the uploads of an instance reach, and quotas they do not.
MCTenantMax == [bytes |-> 3, assets |-> 2]
MCKeyMax == [k \in ApiKeys |-> [bytes |-> 2, assets |-> 1]]
MCNoTenantMax == [bytes |-> 99, assets |-> 99]
MCNoKeyMax == [k \in ApiKeys |-> MCNoTenantMax]

Symmetry == Permutations(Requests) \cup Permutations(AssetIds)
=============================================================================
