------------------------------- MODULE Ingest -------------------------------
(***************************************************************************)
(* The control plane's writers: UploadService (ingestStream, the presigned *)
(* pair createUploadTarget / completeUpload, replaceSourceStream) and      *)
(* AssetsService (delete, reprocess), running concurrently over one        *)
(* registry, one bucket and one queue.  A request is a process with a      *)
(* program counter; every await on storage, database or queue is one step. *)
(* A call may fail without effect (Fail), take effect and lose its answer  *)
(* (Took), or the process may die between two calls (Crash).               *)
(***************************************************************************)
EXTENDS Bucket, JobQueue, Quota

CONSTANTS
  Requests,             \* slots for requests in flight
  ValidContents,        \* the byte strings ValidationService accepts
  Format,               \* content -> detected format
  Size,                 \* content -> bytes
  Verdicts,             \* what MalwareScanService can answer
  HoldsWithoutVerdict,  \* MalwareScanService.holdsWithoutVerdict
  MaxPuts,              \* bound: posts a client makes to one presigned target
  MaxFaults             \* bound: failed calls, lost answers and crashes

ASSUME IngestAssumption ==
  /\ ValidContents \subseteq Contents
  /\ Format \in [Contents -> Formats]
  /\ Size \in [Contents -> Nat]
  /\ Verdicts \subseteq {"clean", "threat", "unavailable"} /\ "unavailable" \in Verdicts
  /\ HoldsWithoutVerdict \in BOOLEAN
  /\ MaxPuts \in Nat /\ MaxFaults \in Nat

VARIABLES
  targets,      \* asset id -> posts its presigned upload target still accepts
  req,          \* request slot -> state of the request
  faults

sharedVars == <<registryVars, bucketVars, queueVars>>
vars == <<sharedVars, quotaVars, targets, req, faults>>

\* Where the handler goes when the call it awaits throws: into reject() from
\* the validation try, into the release of the promotion try, out of the
\* handler, or on, where the code swallows the error.
OnError ==
  [put |-> "idle", head |-> "idle", validate |-> "rejectDelete",
   rejectDelete |-> "rejectRead", rejectRead |-> "idle", rejectWrite |-> "idle",
   reserve |-> "idle", hash |-> "release", dedup |-> "release",
   dupDelete |-> "release", dupRelease |-> "release", dupRead |-> "release",
   dupWrite |-> "release", dupReturn |-> "release", copy |-> "release",
   txRead |-> "release", txCommit |-> "release", enqueue |-> "clean",
   clean |-> "release", return |-> "release", release |-> "idle",
   delWrite |-> "idle", delOriginals |-> "delDerived", delDerived |-> "idle", resend |-> "idle"]

Labels == DOMAIN OnError \cup {"idle", "scan", "acked"}

Idle == [pc |-> "idle", asset |-> None, stage |-> None, key |-> None, dedup |-> FALSE,
         base |-> 0, bytes |-> 0, fmt |-> None, hash |-> None, twin |-> None, seen |-> 0]

RequestState ==
  [pc : Labels,
   asset : AssetIds \cup {None},
   stage : StagingKeys \cup {None},      \* stagingKey
   key : ApiKeys \cup {None},            \* apiKeyId, whose quota pays
   dedup : BOOLEAN,
   base : 0..MaxVersion,                 \* asset.currentVersion as first read
   bytes : Nat,                          \* head.bytes
   fmt : Formats \cup {None},            \* result.format
   hash : Contents \cup {None},
   twin : AssetIds \cup {None},          \* existing.assetId
   seen : 0..MaxVersion]                 \* currentVersion the transaction read

TypeOK ==
  /\ RegistryTypeOK
  /\ BucketTypeOK
  /\ QueueTypeOK
  /\ QuotaTypeOK
  /\ targets \in [AssetIds -> 0..MaxPuts]
  /\ req \in [Requests -> RequestState]
  /\ faults \in 0..MaxFaults

Init ==
  /\ RegistryInit
  /\ BucketInit
  /\ QueueInit
  /\ QuotaInit
  /\ targets = [a \in AssetIds |-> 0]
  /\ req = [r \in Requests |-> Idle]
  /\ faults = 0

---------------------------------------------------------------------------
(* Control flow of a request. *)

At(r, l) == req[r].pc = l

To(q, l) == IF l = "idle" THEN Idle ELSE [q EXCEPT !.pc = l]

Become(r, q) == req' = [req EXCEPT ![r] = q] /\ UNCHANGED faults
Goto(r, l) == Become(r, To(req[r], l))

CountFault == faults < MaxFaults /\ faults' = faults + 1

\* The call took effect: its answer arrives, or is lost on the way.
Took(r, l) ==
  \/ Goto(r, l)
  \/ CountFault /\ req' = [req EXCEPT ![r] = To(@, OnError[@.pc])]

\* The call failed without effect.
Fail(r) ==
  /\ req[r].pc \in DOMAIN OnError
  /\ CountFault
  /\ req' = [req EXCEPT ![r] = To(@, OnError[@.pc])]
  /\ UNCHANGED <<sharedVars, quotaVars, targets>>

\* The process serving the request dies; nothing of it survives.
Crash(r) ==
  /\ ~At(r, "idle")
  /\ CountFault
  /\ req' = [req EXCEPT ![r] = Idle]
  /\ UNCHANGED <<sharedVars, quotaVars, targets>>

Respond(r) ==
  /\ At(r, "acked")
  /\ Goto(r, "idle")
  /\ UNCHANGED <<sharedVars, quotaVars, targets>>

---------------------------------------------------------------------------
(* The ways in. *)

\* A request that has read the row of asset a.
Arrived(l, a, k, stage, dedup) ==
  [pc |-> l, asset |-> a, stage |-> stage, key |-> k, dedup |-> dedup,
   base |-> assets[a].current, bytes |-> 0, fmt |-> None, hash |-> None, twin |-> None, seen |-> 0]

\* POST of the bytes: reserve an id, then stream the body into staging.
ingestStream(r, a, k) ==
  /\ At(r, "idle")
  /\ Create(a)
  /\ Become(r, Arrived("put", a, k, <<a, "upload">>, TRUE))
  /\ UNCHANGED <<bucketVars, queueVars, quotaVars, targets>>

createUploadTarget(a) ==
  /\ Create(a)
  /\ targets' = [targets EXCEPT ![a] = MaxPuts]
  /\ UNCHANGED <<bucketVars, queueVars, quotaVars, req, faults>>

\* The client posts to its presigned target, once or again, at any time.
ClientPut(a, c) ==
  /\ targets[a] > 0
  /\ targets' = [targets EXCEPT ![a] = @ - 1]
  /\ PutStaged(<<a, "upload">>, c)
  /\ UNCHANGED <<registryVars, queueVars, quotaVars, req, faults>>

\* A deleted row is still found; a completed one is refused with a 409.
completeUpload(r, a, k) ==
  /\ At(r, "idle")
  /\ Exists(a)
  /\ assets[a].current = 0
  /\ Become(r, Arrived("head", a, k, <<a, "upload">>, TRUE))
  /\ UNCHANGED <<sharedVars, quotaVars, targets>>

replaceSourceStream(r, a, k, t) ==
  /\ At(r, "idle")
  /\ Visible(a)
  /\ assets[a].current < MaxVersion     \* bound
  /\ Become(r, Arrived("put", a, k, <<a, t>>, FALSE))
  /\ UNCHANGED <<sharedVars, quotaVars, targets>>

Put(r, c) ==
  /\ At(r, "put")
  /\ PutStaged(req[r].stage, c)
  /\ Took(r, "head")
  /\ UNCHANGED <<registryVars, queueVars, quotaVars, targets>>

---------------------------------------------------------------------------
(* validateAndPromote, up to the quota reservation. *)

Staged(r) == staging[req[r].stage]

Head(r) ==
  /\ At(r, "head")
  /\ IF Staged(r) = None
       THEN Goto(r, "idle")
       ELSE Become(r, To([req[r] EXCEPT !.bytes = Size[Staged(r)]], "validate"))
  /\ UNCHANGED <<sharedVars, quotaVars, targets>>

\* getRange and validate share one try: a missing object is rejected as an
\* invalid one is.
Validate(r) ==
  /\ At(r, "validate")
  /\ IF Staged(r) \in ValidContents
       THEN Become(r, To([req[r] EXCEPT !.fmt = Format[Staged(r)]], "scan"))
       ELSE Goto(r, "rejectDelete")
  /\ UNCHANGED <<sharedVars, quotaVars, targets>>

\* Tags of an object that is gone are no verdict.
Scan(r, verdict) ==
  /\ At(r, "scan")
  /\ Staged(r) = None => verdict = "unavailable"
  /\ \/ verdict = "threat" /\ Goto(r, "rejectDelete")
     \/ verdict = "unavailable" /\ HoldsWithoutVerdict /\ Goto(r, "idle")
     \/ verdict = "unavailable" /\ ~HoldsWithoutVerdict /\ Goto(r, "reserve")
     \/ verdict = "clean" /\ Goto(r, "reserve")
  /\ UNCHANGED <<sharedVars, quotaVars, targets>>

\* reject(), and the threat branch: delete the staged object, mark rejected.
RejectDelete(r) ==
  /\ At(r, "rejectDelete")
  /\ DeleteStaged(req[r].stage)
  /\ Goto(r, "rejectRead")
  /\ UNCHANGED <<registryVars, queueVars, quotaVars, targets>>

RejectRead(r) ==
  /\ At(r, "rejectRead")
  /\ Goto(r, IF Visible(req[r].asset) THEN "rejectWrite" ELSE "idle")
  /\ UNCHANGED <<sharedVars, quotaVars, targets>>

RejectWrite(r) ==
  /\ At(r, "rejectWrite")
  /\ RemoveAs(req[r].asset, "rejected")
  /\ Goto(r, "idle")
  /\ UNCHANGED <<bucketVars, queueVars, quotaVars, targets>>

Reserve(r) ==
  /\ At(r, "reserve")
  /\ \/ reserveQuota(req[r].key, req[r].bytes) /\ Took(r, "hash")
     \/ ~CanReserve(req[r].key, req[r].bytes) /\ Goto(r, "idle") /\ UNCHANGED quotaVars
  /\ UNCHANGED <<sharedVars, targets>>

---------------------------------------------------------------------------
(* The promotion try block. *)

Hash(r) ==
  /\ At(r, "hash")
  /\ IF Staged(r) = None
       THEN Goto(r, "release")
       ELSE Become(r, To([req[r] EXCEPT !.hash = Staged(r)],
                         IF req[r].dedup THEN "dedup" ELSE "copy"))
  /\ UNCHANGED <<sharedVars, quotaVars, targets>>

Dedup(r) ==
  /\ At(r, "dedup")
  /\ LET others == {v[1] : v \in Twins(req[r].hash)} \ {req[r].asset}
     IN  \/ others = {} /\ Goto(r, "copy")
         \/ \E b \in others : Become(r, To([req[r] EXCEPT !.twin = b], "dupDelete"))
  /\ UNCHANGED <<sharedVars, quotaVars, targets>>

DupDelete(r) ==
  /\ At(r, "dupDelete")
  /\ DeleteStaged(req[r].stage)
  /\ Took(r, "dupRelease")
  /\ UNCHANGED <<registryVars, queueVars, quotaVars, targets>>

DupRelease(r) ==
  /\ At(r, "dupRelease")
  /\ releaseQuota(req[r].key, req[r].bytes)
  /\ Took(r, "dupRead")
  /\ UNCHANGED <<sharedVars, targets>>

DupRead(r) ==
  /\ At(r, "dupRead")
  /\ Goto(r, IF Visible(req[r].asset) THEN "dupWrite" ELSE "release")
  /\ UNCHANGED <<sharedVars, quotaVars, targets>>

DupWrite(r) ==
  /\ At(r, "dupWrite")
  /\ RemoveAs(req[r].asset, "deleted")
  /\ Took(r, "dupReturn")
  /\ UNCHANGED <<bucketVars, queueVars, quotaVars, targets>>

DupReturn(r) ==
  /\ At(r, "dupReturn")
  /\ Goto(r, IF Visible(req[r].twin) THEN "acked" ELSE "release")
  /\ UNCHANGED <<sharedVars, quotaVars, targets>>

\* The version in the key is the one read when the request arrived.
OriginalKey(r) == <<req[r].asset, req[r].base + 1, req[r].fmt>>

CopySwallowing(r) ==        \* wrong: a failed copy is logged and passed over
  /\ At(r, "copy")
  /\ CopyToOriginal(req[r].stage, OriginalKey(r))
  /\ Took(r, "txRead")
  /\ UNCHANGED <<registryVars, queueVars, quotaVars, targets>>

Copy(r) ==
  /\ At(r, "copy")
  /\ IF Staged(r) = None
       THEN Goto(r, "release") /\ UNCHANGED bucketVars
       ELSE /\ CopyToOriginal(req[r].stage, OriginalKey(r))
            /\ Took(r, "txRead")
  /\ UNCHANGED <<registryVars, queueVars, quotaVars, targets>>

\* The transaction of addVersion: its opening read does not look at deletedAt.
TxRead(r) ==
  /\ At(r, "txRead")
  /\ LET row == assets[req[r].asset]
     IN  IF canTransition(row.status, "stored")
           THEN /\ row.current < MaxVersion     \* bound
                /\ Become(r, To([req[r] EXCEPT !.seen = row.current], "txCommit"))
           ELSE Goto(r, "release")
  /\ UNCHANGED <<sharedVars, quotaVars, targets>>

TxCommit(r) ==
  /\ At(r, "txCommit")
  /\ IF CanInsertVersion(req[r].asset, req[r].seen)
       THEN /\ CommitVersion(req[r].asset, req[r].seen, OriginalKey(r), req[r].hash)
            /\ Took(r, "enqueue")
       ELSE Goto(r, "release") /\ UNCHANGED registryVars
  /\ UNCHANGED <<bucketVars, queueVars, quotaVars, targets>>

\* The job names the version the transaction created, not base + 1.
Enqueue(r) ==
  /\ At(r, "enqueue")
  /\ enqueue(req[r].asset, req[r].seen + 1)
  /\ Goto(r, "clean")
  /\ UNCHANGED <<registryVars, bucketVars, quotaVars, targets>>

Clean(r) ==
  /\ At(r, "clean")
  /\ DeleteStaged(req[r].stage)
  /\ Took(r, "return")
  /\ UNCHANGED <<registryVars, queueVars, quotaVars, targets>>

ReturnUnread(r) ==          \* wrong: the answer is built without reading the row again
  /\ At(r, "return")
  /\ Goto(r, "acked")
  /\ UNCHANGED <<sharedVars, quotaVars, targets>>

Return(r) ==
  /\ At(r, "return")
  /\ Goto(r, IF Visible(req[r].asset) THEN "acked" ELSE "release")
  /\ UNCHANGED <<sharedVars, quotaVars, targets>>

\* The catch: whatever threw, and wherever, the reservation is returned.
Release(r) ==
  /\ At(r, "release")
  /\ releaseQuota(req[r].key, req[r].bytes)
  /\ Goto(r, "idle")
  /\ UNCHANGED <<sharedVars, targets>>

---------------------------------------------------------------------------
(* AssetsService.delete: the row first, then the objects. *)

delete(r, a) ==
  /\ At(r, "idle")
  /\ Visible(a)
  /\ Become(r, Arrived("delWrite", a, None, None, FALSE))
  /\ UNCHANGED <<sharedVars, quotaVars, targets>>

DelWrite(r) ==
  /\ At(r, "delWrite")
  /\ RemoveAs(req[r].asset, "deleted")
  /\ Took(r, "delOriginals")
  /\ UNCHANGED <<bucketVars, queueVars, quotaVars, targets>>

DelOriginals(r) ==
  /\ At(r, "delOriginals")
  /\ DeleteOriginals(req[r].asset)
  /\ Goto(r, "delDerived")
  /\ UNCHANGED <<registryVars, queueVars, quotaVars, targets>>

DelDerived(r) ==
  /\ At(r, "delDerived")
  /\ DeleteDerived(req[r].asset)
  /\ Goto(r, "idle")
  /\ UNCHANGED <<registryVars, queueVars, quotaVars, targets>>

(* AssetsService.reprocess: queue the current version again. *)

reprocess(r, a) ==
  /\ At(r, "idle")
  /\ Visible(a) /\ assets[a].current > 0
  /\ Become(r, Arrived("resend", a, None, None, FALSE))
  /\ UNCHANGED <<sharedVars, quotaVars, targets>>

ResendNext(r) ==            \* wrong: the job names the version to come
  /\ At(r, "resend")
  /\ enqueue(req[r].asset, req[r].base + 1)
  /\ Goto(r, "idle")
  /\ UNCHANGED <<registryVars, bucketVars, quotaVars, targets>>

Resend(r) ==
  /\ At(r, "resend")
  /\ enqueue(req[r].asset, req[r].base)
  /\ Goto(r, "idle")
  /\ UNCHANGED <<registryVars, bucketVars, quotaVars, targets>>

---------------------------------------------------------------------------
Arrive(r) ==
  \E a \in AssetIds :
    \/ delete(r, a)
    \/ reprocess(r, a)
    \/ \E k \in ApiKeys : \/ ingestStream(r, a, k)
                          \/ completeUpload(r, a, k)
                          \/ \E t \in Stamps : replaceSourceStream(r, a, k, t)

Handle(r) ==
  \/ \E c \in Contents : Put(r, c)
  \/ Head(r) \/ Validate(r)
  \/ \E v \in Verdicts : Scan(r, v)
  \/ RejectDelete(r) \/ RejectRead(r) \/ RejectWrite(r)
  \/ Reserve(r) \/ Hash(r) \/ Dedup(r)
  \/ DupDelete(r) \/ DupRelease(r) \/ DupRead(r) \/ DupWrite(r) \/ DupReturn(r)
  \/ Copy(r) \/ TxRead(r) \/ TxCommit(r) \/ Enqueue(r) \/ Clean(r) \/ Return(r)
  \/ Release(r)
  \/ DelWrite(r) \/ DelOriginals(r) \/ DelDerived(r) \/ Resend(r)
  \/ Respond(r)

Client ==
  \E a \in AssetIds :
    createUploadTarget(a) \/ \E c \in Contents : ClientPut(a, c)

Next == Client \/ \E r \in Requests : Arrive(r) \/ Handle(r) \/ Fail(r) \/ Crash(r)

Spec == Init /\ [][Next]_vars

---------------------------------------------------------------------------
(* What the writers guarantee. *)

Stored(o) == originals[o] # None

HasSource(a) ==
  /\ versions[<<a, assets[a].current>>] # None
  /\ Stored(versions[<<a, assets[a].current>>].source)

Servable(a) == Visible(a) /\ assets[a].current > 0 /\ HasSource(a)

\* An asset a client can see as having a source really has one: its current
\* version has a row, and the object that row names is in the bucket.  It
\* rests on the copy preceding the transaction, and on delete hiding the row
\* before it touches an object.
CurrentSourceDurable ==
  \A a \in AssetIds : Visible(a) /\ assets[a].current > 0 => HasSource(a)

\* Version history has no hole and no second head, whatever transactions
\* race: the rows of an asset are exactly 1..currentVersion, and each row but
\* the current one carries its successor's creation time as supersededAt.
VersionHistory ==
  \A a \in AssetIds, n \in Versions :
    /\ versions[<<a, n>>] # None <=> n <= assets[a].current
    /\ versions[<<a, n>>] # None =>
         versions[<<a, n>>].supersededAt =
           IF n = assets[a].current THEN 0 ELSE versions[<<a, n + 1>>].createdAt

\* The asset the response of a request names.
Answered(r) == IF req[r].twin # None THEN req[r].twin ELSE req[r].asset

\* An upload is acknowledged, as new or as a duplicate, only at a moment when
\* the asset it names is visible and its source is durable.
AckedIsDurable ==
  [][\A r \in Requests :
       ~At(r, "acked") /\ At(r, "acked")' => Servable(Answered(r))']_vars

\* Every status change is one TRANSITIONS allows.
StatusFollowsTable ==
  [][\A a \in AssetIds :
       Exists(a) /\ assets'[a].status # assets[a].status =>
         canTransition(assets[a].status, assets'[a].status)]_vars

\* An original is written once: no step replaces its bytes by others.
OriginalWrittenOnce ==
  [][\A o \in OriginalKeys :
       Stored(o) /\ originals'[o] # None => originals'[o] = originals[o]]_vars

\* A reservation is released at most once, so no counter drops below zero.
UsageNotNegative ==
  /\ tenantUsed.assets >= 0
  /\ \A k \in ApiKeys : keyUsed[k].assets >= 0

---------------------------------------------------------------------------
(* The abstract life of an asset id, as the rows show it. *)

lifeOf == [a \in AssetIds |-> IF ~Exists(a) THEN "unknown"
                              ELSE IF assets[a].gone THEN "gone"
                              ELSE IF assets[a].current = 0 THEN "reserved"
                              ELSE "live"]
shownOf == [a \in AssetIds |-> IF Visible(a) THEN assets[a].current ELSE 0]

Life == INSTANCE AssetLife WITH life <- lifeOf, shown <- shownOf

\* The writers implement AssetLife: no interleaving, failure or crash shows a
\* version twice, skips one, or brings back an asset once removed.
ImplementsAssetLife == Life!Spec
=============================================================================
