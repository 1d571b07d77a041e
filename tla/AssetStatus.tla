---------------------------- MODULE AssetStatus ----------------------------
(***************************************************************************)
(* The status lifecycle of an asset row: packages/db/src/status.ts.        *)
(***************************************************************************)

Status == {"pending_upload", "stored", "ready", "rejected", "failed", "deleted"}

\* For each status, the statuses a validated transition may move to.
TRANSITIONS ==
  [pending_upload |-> {"stored", "rejected", "deleted"},
   stored         |-> {"stored", "ready", "failed", "deleted"},
   ready          |-> {"stored", "ready", "failed", "deleted"},
   failed         |-> {"stored", "ready", "deleted"},
   rejected       |-> {"deleted"},
   deleted        |-> {}]

\* assertTransition throws exactly when this is false.
canTransition(from, to) == to \in TRANSITIONS[from]
=============================================================================
