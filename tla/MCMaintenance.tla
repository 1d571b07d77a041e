----------------------------- MODULE MCMaintenance -----------------------------
(***************************************************************************)
(* Small instances of Maintenance.  Every content passes validation; hard is  *)
(* one the decoder refuses, huge one that needs a master.                  *)
(***************************************************************************)
EXTENDS Maintenance, TLC

CONSTANTS huge, hard

MCContents == {huge, hard}
MCHuge == {huge}
MCHard == {hard}
MCNone == {}
MCFormat == [c \in Contents |-> "jpeg"]
MCSize == [c \in Contents |-> 1]
MCTenantMax == [bytes |-> 99, assets |-> 99]
MCKeyMax == [k \in ApiKeys |-> MCTenantMax]

Symmetry == Permutations(Workers)
=============================================================================
