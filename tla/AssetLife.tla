----------------------------- MODULE AssetLife -----------------------------
(***************************************************************************)
(* What the control plane promises about one asset id, whatever runs       *)
(* concurrently: the id is reserved, then the asset shows versions 1, 2,   *)
(* 3, ... in that order and none twice, then it is gone for good.          *)
(***************************************************************************)
EXTENDS Naturals

CONSTANT AssetIds

VARIABLES
  life,         \* "unknown", "reserved", "live" or "gone"
  shown         \* the version a reader is given; 0 when there is none

lifeVars == <<life, shown>>

Init ==
  /\ life = [a \in AssetIds |-> "unknown"]
  /\ shown = [a \in AssetIds |-> 0]

ReserveId(a) ==
  /\ life[a] = "unknown"
  /\ life' = [life EXCEPT ![a] = "reserved"]
  /\ UNCHANGED shown

Publish(a) ==
  /\ life[a] \in {"reserved", "live"}
  /\ life' = [life EXCEPT ![a] = "live"]
  /\ shown' = [shown EXCEPT ![a] = @ + 1]

Remove(a) ==
  /\ life[a] \in {"reserved", "live"}
  /\ life' = [life EXCEPT ![a] = "gone"]
  /\ shown' = [shown EXCEPT ![a] = 0]

Next == \E a \in AssetIds : ReserveId(a) \/ Publish(a) \/ Remove(a)

Spec == Init /\ [][Next]_lifeVars
=============================================================================
