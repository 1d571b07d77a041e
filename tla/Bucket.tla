------------------------------- MODULE Bucket -------------------------------
(***************************************************************************)
(* The S3 bucket, by prefix.  Every operation is atomic on one object.     *)
(***************************************************************************)
EXTENDS Registry

CONSTANTS
  Stamps,       \* values Date.now() takes in a replacement's staging key
  Variants      \* names of the variants a version can be rendered to

\* staging/{assetId}, and staging/{assetId}-{now} for a replacement
StagingKeys == AssetIds \X ({"upload"} \cup Stamps)

\* master/{assetId}/{version}.webp, and derived/{assetId}/v{version}-{epoch}/{variant}
DerivedKeys == AssetIds \X Versions \X ({"master"} \cup Variants)

VARIABLES
  staging,      \* staging key -> bytes or None
  originals,    \* original key -> bytes or None
  derived       \* key under master/ or derived/ -> the bytes it was rendered from

bucketVars == <<staging, originals, derived>>

BucketTypeOK ==
  /\ staging \in [StagingKeys -> Contents \cup {None}]
  /\ originals \in [OriginalKeys -> Contents \cup {None}]
  /\ derived \in [DerivedKeys -> Contents \cup {None}]

BucketInit ==
  /\ staging = [s \in StagingKeys |-> None]
  /\ originals = [o \in OriginalKeys |-> None]
  /\ derived = [d \in DerivedKeys |-> None]

PutStaged(s, c) ==
  staging' = [staging EXCEPT ![s] = c] /\ UNCHANGED <<originals, derived>>

DeleteStaged(s) ==
  staging' = [staging EXCEPT ![s] = None] /\ UNCHANGED <<originals, derived>>

\* A server-side copy overwrites whatever the destination held.
CopyToOriginal(s, o) ==
  originals' = [originals EXCEPT ![o] = staging[s]] /\ UNCHANGED <<staging, derived>>

\* deletePrefix of original/{a}/, and of master/{a}/ and derived/{a}/
DeleteOriginals(a) ==
  /\ originals' = [o \in OriginalKeys |-> IF o[1] = a THEN None ELSE originals[o]]
  /\ UNCHANGED <<staging, derived>>

DeleteDerived(a) ==
  /\ derived' = [d \in DerivedKeys |-> IF d[1] = a THEN None ELSE derived[d]]
  /\ UNCHANGED <<staging, originals>>

\* put of a master overwrites; a variant is only ever put if absent.
PutDerived(d, c) ==
  derived' = [derived EXCEPT ![d] = c] /\ UNCHANGED <<staging, originals>>

PutIfAbsent(d, c) == PutDerived(d, IF derived[d] = None THEN c ELSE derived[d])
=============================================================================
