----------------------------- MODULE Registry -----------------------------
(***************************************************************************)
(* The registry rows (packages/db): one row per asset and one row per      *)
(* asset version, with the writes the services issue.  The database is     *)
(* PostgreSQL at its default isolation (READ COMMITTED), so a transaction  *)
(* that reads a row and later updates it is two steps here: what it read   *)
(* may be stale when it writes.  A single statement is one step.           *)
(***************************************************************************)
EXTENDS AssetStatus, Integers

CONSTANTS
  AssetIds,     \* the ids that can be minted
  Contents,     \* distinct image byte strings
  Formats,      \* detected formats; they name the extension of an original
  MaxVersion,   \* bound: versions of one asset
  None          \* null

Versions == 1..MaxVersion

\* original/{assetId}/{version}/source.{ext}
OriginalKeys == AssetIds \X Versions \X Formats

VersionRow ==
  [source : OriginalKeys,         \* sourceKey
   hash : Contents,               \* contentHash: SHA-256 is taken to be injective
   createdAt : Nat,
   supersededAt : Nat]            \* 0 is NULL

ASSUME RegistryAssumption ==
  /\ MaxVersion \in Nat \ {0}
  /\ None \notin AssetIds \cup Contents \cup Formats
  /\ None \notin VersionRow

VARIABLES
  assets,       \* asset id -> its row ("absent" before the insert)
  versions,     \* primary key (asset id, version) -> its row or None
  clock         \* database time: the next created_at

registryVars == <<assets, versions, clock>>

AssetRow ==
  [status : Status \cup {"absent"},
   current : 0..MaxVersion,       \* currentVersion
   gone : BOOLEAN]                \* deletedAt is not null

RegistryTypeOK ==
  /\ assets \in [AssetIds -> AssetRow]
  /\ versions \in [AssetIds \X Versions -> VersionRow \cup {None}]
  /\ clock \in Nat \ {0}

RegistryInit ==
  /\ assets = [a \in AssetIds |-> [status |-> "absent", current |-> 0, gone |-> FALSE]]
  /\ versions = [v \in AssetIds \X Versions |-> None]
  /\ clock = 1

---------------------------------------------------------------------------
\* What a read by id sees.  findById without includeDeleted hides a row whose
\* deletedAt is set; requireById throws exactly when Visible is false.
Exists(a)  == assets[a].status # "absent"
Visible(a) == Exists(a) /\ ~assets[a].gone

\* repo.create: the id is reserved before any byte is stored.
Create(a) ==
  /\ ~Exists(a)
  /\ assets' = [assets EXCEPT ![a].status = "pending_upload"]
  /\ UNCHANGED <<versions, clock>>

\* The update of the tenant-scoped softDelete and markRejected: it follows a
\* requireById, and checks nothing itself.
RemoveAs(a, status) ==
  /\ assets' = [assets EXCEPT ![a] = [status |-> status, current |-> @.current, gone |-> TRUE]]
  /\ UNCHANGED <<versions, clock>>

\* addVersionInTransaction, from the insert to the commit, after its opening
\* read saw currentVersion = seen.  The insert fails on the primary key when
\* another transaction has committed that version.
UpsertVersion(a, seen) == TRUE      \* wrong: the insert is an upsert
CanInsertVersion(a, seen) == versions[<<a, seen + 1>>] = None

\* wrong: the promotion also clears deletedAt
CommitReviving(a, seen, key, hash) ==
  /\ versions' =
       [v \in DOMAIN versions |->
          IF v = <<a, seen + 1>>
            THEN [source |-> key, hash |-> hash, createdAt |-> clock, supersededAt |-> 0]
          ELSE IF v = <<a, seen>> /\ versions[v] # None
            THEN [versions[v] EXCEPT !.supersededAt = clock]
          ELSE versions[v]]
  /\ assets' = [assets EXCEPT ![a] = [status |-> "stored", current |-> seen + 1, gone |-> FALSE]]
  /\ clock' = clock + 1

CommitVersion(a, seen, key, hash) ==
  /\ versions' =
       [v \in DOMAIN versions |->
          IF v = <<a, seen + 1>>
            THEN [source |-> key, hash |-> hash, createdAt |-> clock, supersededAt |-> 0]
          ELSE IF v = <<a, seen>> /\ versions[v] # None /\ versions[v].supersededAt = 0
            THEN [versions[v] EXCEPT !.supersededAt = clock]
          ELSE versions[v]]
  /\ assets' = [assets EXCEPT ![a] = [status |-> "stored", current |-> seen + 1, gone |-> @.gone]]
  /\ clock' = clock + 1

\* findByContentHash of the scoped repository: the oldest row with these bytes
\* among assets in sight, and only if that row is its asset's current version.
Matches(hash) ==
  {v \in DOMAIN versions :
     /\ versions[v] # None
     /\ versions[v].hash = hash
     /\ Visible(v[1])
     /\ assets[v[1]].status \notin {"rejected", "deleted"}}

Twins(hash) ==
  {v \in Matches(hash) :
     /\ \A w \in Matches(hash) : versions[v].createdAt <= versions[w].createdAt
     /\ assets[v[1]].current = v[2]}
=============================================================================
