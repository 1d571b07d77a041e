---------------------------- MODULE IngestProofs ----------------------------
(***************************************************************************)
(* Ingest, for every instance.  The typing invariant TypeInv is inductive; *)
(* on it rests the safety invariant SafetyInv, which is inductive too, and *)
(* from which the safety properties and the refinement of AssetLife        *)
(* follow.                                                                 *)
(***************************************************************************)
EXTENDS Ingest, CountingLemmas, TLAPS

Promoting == {"copy", "txRead", "txCommit"}

Typed == {"scan", "reserve", "hash", "dedup"} \cup Promoting

UploadLabels ==
  {"put", "head", "validate", "scan", "rejectDelete", "rejectRead", "rejectWrite",
   "reserve", "hash", "dedup", "dupDelete", "dupRelease", "dupRead", "dupWrite",
   "dupReturn", "enqueue", "clean", "return", "release"} \cup Promoting

\* What the fields of a request hold at each label, when the assets of E exist.
RequestOK(q, E) ==
  /\ q.pc # "idle" => q.asset \in E
  /\ q.pc \in UploadLabels =>
       q.stage \in StagingKeys /\ q.key \in ApiKeys /\ q.base < MaxVersion
  /\ q.pc \in Typed => q.fmt \in Formats
  /\ q.pc \in {"dedup"} \cup Promoting => q.hash \in Contents
  /\ q.pc \in {"txCommit", "enqueue"} => q.seen < MaxVersion
  /\ q.pc = "resend" => q.base \in Versions

Existing == {a \in AssetIds : Exists(a)}

RequestInv == \A r \in Requests : RequestOK(req[r], Existing)

\* An id not yet reserved has no history.
FreshRows == \A a \in AssetIds : ~Exists(a) => assets[a].current = 0 /\ ~assets[a].gone

RegistryInv == RegistryTypeOK /\ FreshRows

TypeInv == TypeOK /\ FreshRows /\ RequestInv

USE RegistryAssumption, QuotaAssumption, IngestAssumption, JobQueueAssumption

LEMMA TypeInit == Init => TypeInv
  BY DEF Init, TypeInv, TypeOK, FreshRows, Exists, RequestInv, RequestOK, RegistryInit, RegistryTypeOK, BucketInit,
     BucketTypeOK, QueueInit, QueueTypeOK, QuotaInit, QuotaTypeOK, Idle, RequestState, Labels,
     OnError, AssetRow, Usage, Promoting, Typed, UploadLabels, Versions

\* The label l asks nothing of the fields that p does not.
Narrows(p, l) ==
  /\ p # "idle" /\ l # "resend"
  /\ l \in UploadLabels => p \in UploadLabels
  /\ l \in Typed => p \in Typed
  /\ l \in {"dedup"} \cup Promoting => p \in {"dedup"} \cup Promoting
  /\ l \in {"txCommit", "enqueue"} => p \in {"txCommit", "enqueue"}

---------------------------------------------------------------------------
(* Requests. *)

LEMMA ToType ==
  ASSUME NEW q \in RequestState, NEW l \in Labels
  PROVE  /\ To(q, l) \in RequestState
         /\ To(q, l).pc = l
         /\ l # "idle" => To(q, l) = [q EXCEPT !.pc = l]
  BY DEF To, Idle, RequestState, Labels, OnError

LEMMA ToOK ==
  ASSUME NEW E, NEW q \in RequestState, RequestOK(q, E), NEW l \in Labels, Narrows(q.pc, l)
  PROVE  To(q, l) \in RequestState /\ RequestOK(To(q, l), E)
  <1>1. CASE l = "idle"
    BY <1>1, ToType DEF RequestOK, UploadLabels, Promoting, Typed
  <1>2. CASE l # "idle"
    <2>1. To(q, l) = [q EXCEPT !.pc = l] /\ To(q, l).pc = l /\ To(q, l) \in RequestState
      BY <1>2, ToType
    <2>2. /\ To(q, l).asset = q.asset /\ To(q, l).stage = q.stage /\ To(q, l).key = q.key
          /\ To(q, l).base = q.base /\ To(q, l).fmt = q.fmt /\ To(q, l).hash = q.hash
          /\ To(q, l).seen = q.seen
      BY <2>1 DEF RequestState
    <2> QED
      BY <2>1, <2>2 DEF RequestOK, Narrows
  <1> QED
    BY <1>1, <1>2

LEMMA OnErrorNarrows ==
  ASSUME NEW p \in DOMAIN OnError
  PROVE  OnError[p] \in Labels /\ Narrows(p, OnError[p])
  BY DEF OnError, Labels, Narrows, UploadLabels, Promoting, Typed

LEMMA UpdateOK ==
  ASSUME NEW E, NEW F, E \subseteq F,
         NEW f \in [Requests -> RequestState], \A s \in Requests : RequestOK(f[s], E),
         NEW r \in Requests, NEW q \in RequestState, RequestOK(q, F)
  PROVE  /\ [f EXCEPT ![r] = q] \in [Requests -> RequestState]
         /\ \A s \in Requests : RequestOK([f EXCEPT ![r] = q][s], F)
  BY DEF RequestOK

\* A step that takes a request to a sound state and forgets no asset.
LEMMA BecomeKeeps ==
  ASSUME TypeInv, Existing \subseteq Existing', NEW r \in Requests, NEW STATE q,
         q \in RequestState, RequestOK(q, Existing'), req' = [req EXCEPT ![r] = q]
  PROVE  req' \in [Requests -> RequestState] /\ RequestInv'
  BY UpdateOK DEF TypeInv, TypeOK, RequestInv

LEMMA MoveKeeps ==
  ASSUME TypeInv, Existing \subseteq Existing', NEW r \in Requests, NEW l \in Labels,
         Narrows(req[r].pc, l), Goto(r, l) \/ (req[r].pc \in DOMAIN OnError /\ Took(r, l))
  PROVE  req' \in [Requests -> RequestState] /\ RequestInv' /\ faults' \in 0..MaxFaults
  <1>1. /\ req[r] \in RequestState /\ RequestOK(req[r], Existing')
        /\ faults \in 0..MaxFaults
    BY DEF TypeInv, TypeOK, RequestInv, RequestOK
  <1>2. CASE Goto(r, l)
    BY <1>1, <1>2, ToOK, BecomeKeeps DEF Goto, Become
  <1>3. CASE req[r].pc \in DOMAIN OnError /\ CountFault
             /\ req' = [req EXCEPT ![r] = To(@, OnError[@.pc])]
    <2>1. req' = [req EXCEPT ![r] = To(req[r], OnError[req[r].pc])]
      BY <1>3
    <2>2. /\ To(req[r], OnError[req[r].pc]) \in RequestState
          /\ RequestOK(To(req[r], OnError[req[r].pc]), Existing')
      BY <1>1, <1>3, OnErrorNarrows, ToOK
    <2>3. req' \in [Requests -> RequestState] /\ RequestInv'
      BY <2>1, <2>2, BecomeKeeps
    <2>4. faults' \in 0..MaxFaults
      BY <1>1, <1>3 DEF CountFault
    <2> QED
      BY <2>3, <2>4
  <1> QED
    BY <1>2, <1>3 DEF Took

---------------------------------------------------------------------------
(* Data. *)

LEMMA CreateKeeps ==
  ASSUME RegistryInv, NEW a \in AssetIds, Create(a)
  PROVE  RegistryInv' /\ Existing \subseteq Existing' /\ a \in Existing'
  BY DEF RegistryInv, RegistryTypeOK, FreshRows, Create, Existing, Exists, AssetRow, Status

LEMMA RemoveKeeps ==
  ASSUME RegistryInv, NEW a \in AssetIds, NEW st \in {"rejected", "deleted"}, RemoveAs(a, st)
  PROVE  RegistryInv' /\ Existing \subseteq Existing'
  <1> DEFINE row == [status |-> st, current |-> assets[a].current, gone |-> TRUE]
  <1>1. row \in AssetRow /\ row.status = st /\ st # "absent"
    BY DEF RegistryInv, RegistryTypeOK, AssetRow, Status
  <1>2. assets' = [assets EXCEPT ![a] = row]
    BY DEF RemoveAs
  <1> QED
    BY <1>1, <1>2 DEF RegistryInv, RegistryTypeOK, FreshRows, RemoveAs, Existing, Exists

LEMMA CommitKeeps ==
  ASSUME RegistryInv, NEW a \in AssetIds, NEW n \in 0..MaxVersion, n < MaxVersion,
         NEW key \in OriginalKeys, NEW hash \in Contents, CommitVersion(a, n, key, hash)
  PROVE  RegistryInv' /\ Existing \subseteq Existing'
  <1>1. assets' \in [AssetIds -> AssetRow] /\ FreshRows' /\ Existing \subseteq Existing'
    <2> DEFINE row == [status |-> "stored", current |-> n + 1, gone |-> assets[a].gone]
    <2>1. row \in AssetRow /\ row.status = "stored"
      BY DEF RegistryInv, RegistryTypeOK, AssetRow, Status
    <2>2. assets' = [assets EXCEPT ![a] = row]
      BY DEF CommitVersion
    <2> QED
      BY <2>1, <2>2 DEF RegistryInv, RegistryTypeOK, FreshRows, Existing, Exists
  <1>2. versions' \in [AssetIds \X Versions -> VersionRow \cup {None}]
    <2> DEFINE new == [source |-> key, hash |-> hash, createdAt |-> clock, supersededAt |-> 0]
    <2>1. new \in VersionRow
      BY DEF VersionRow, RegistryInv, RegistryTypeOK
    <2>2. \A v \in AssetIds \X Versions :
            versions[v] # None => [versions[v] EXCEPT !.supersededAt = clock] \in VersionRow
      BY DEF VersionRow, RegistryInv, RegistryTypeOK
    <2> QED
      BY <2>1, <2>2 DEF RegistryInv, RegistryTypeOK, CommitVersion
  <1>3. clock' \in Nat \ {0}
    BY DEF RegistryInv, RegistryTypeOK, CommitVersion
  <1> QED
    BY <1>1, <1>2, <1>3 DEF RegistryInv, RegistryTypeOK

LEMMA SameRegistry ==
  ASSUME RegistryInv, UNCHANGED registryVars
  PROVE  RegistryInv' /\ Existing' = Existing
  BY DEF RegistryInv, RegistryTypeOK, FreshRows, registryVars, Existing, Exists

LEMMA StagingKeeps ==
  ASSUME BucketTypeOK, NEW s \in StagingKeys, NEW c \in Contents \cup {None},
         PutStaged(s, c) \/ DeleteStaged(s)
  PROVE  BucketTypeOK'
  BY DEF BucketTypeOK, PutStaged, DeleteStaged

LEMMA OriginalsKeep ==
  ASSUME BucketTypeOK, NEW s \in StagingKeys, NEW o \in OriginalKeys, NEW a \in AssetIds,
         CopyToOriginal(s, o) \/ DeleteOriginals(a) \/ DeleteDerived(a)
  PROVE  BucketTypeOK'
  BY DEF BucketTypeOK, CopyToOriginal, DeleteOriginals, DeleteDerived

LEMMA enqueueKeeps ==
  ASSUME QueueTypeOK, NEW a \in AssetIds, NEW n \in Versions, enqueue(a, n)
  PROVE  QueueTypeOK'
  BY DEF QueueTypeOK, enqueue

LEMMA QuotaKeeps ==
  ASSUME QuotaTypeOK, NEW k \in ApiKeys, NEW b \in Nat, reserveQuota(k, b) \/ releaseQuota(k, b)
  PROVE  QuotaTypeOK'
  <1>1. \A u \in Usage, n \in Int : Add(u, b, n) \in Usage /\ Add(u, -b, n) \in Usage
    BY DEF Add, Usage
  <1>2. CASE reserveQuota(k, b)
    BY <1>1, <1>2 DEF QuotaTypeOK, reserveQuota
  <1>3. CASE releaseQuota(k, b)
    BY <1>1, <1>3 DEF QuotaTypeOK, releaseQuota
  <1> QED
    BY <1>2, <1>3

LEMMA SameOthers ==
  /\ BucketTypeOK /\ UNCHANGED bucketVars => BucketTypeOK'
  /\ QueueTypeOK /\ UNCHANGED queueVars => QueueTypeOK'
  /\ QuotaTypeOK /\ UNCHANGED quotaVars => QuotaTypeOK'
  BY DEF BucketTypeOK, bucketVars, QueueTypeOK, queueVars, QuotaTypeOK, quotaVars

---------------------------------------------------------------------------
(* Steps. *)

\* What a step that leaves the data alone still owes.
LEMMA QuietKeeps ==
  ASSUME TypeInv, UNCHANGED <<sharedVars, quotaVars, targets>>
  PROVE  /\ Existing' = Existing
         /\ RegistryInv' /\ BucketTypeOK' /\ QueueTypeOK' /\ QuotaTypeOK'
         /\ targets' \in [AssetIds -> 0..MaxPuts]
  <1>1. /\ UNCHANGED registryVars /\ UNCHANGED bucketVars /\ UNCHANGED queueVars
        /\ UNCHANGED quotaVars /\ UNCHANGED targets
    BY DEF sharedVars
  <1> QED
    BY <1>1, SameRegistry, SameOthers DEF TypeInv, TypeOK, RegistryInv

LEMMA QuietMove ==
  ASSUME TypeInv, UNCHANGED <<sharedVars, quotaVars, targets>>, NEW r \in Requests,
         NEW l \in Labels, Narrows(req[r].pc, l), Goto(r, l)
  PROVE  TypeInv'
  <1>1. req' \in [Requests -> RequestState] /\ RequestInv' /\ faults' \in 0..MaxFaults
    BY QuietKeeps, MoveKeeps
  <1> QED
    BY <1>1, QuietKeeps DEF TypeInv, TypeOK, RegistryInv

LEMMA QuietBecome ==
  ASSUME TypeInv, UNCHANGED <<sharedVars, quotaVars, targets>>, NEW r \in Requests,
         NEW STATE q, q \in RequestState, RequestOK(q, Existing), Become(r, q)
  PROVE  TypeInv'
  <1>1. Existing' = Existing
    BY QuietKeeps
  <1>2. RequestOK(q, Existing')
    BY <1>1
  <1>3. req' = [req EXCEPT ![r] = q] /\ faults' = faults
    BY DEF Become
  <1>4. req' \in [Requests -> RequestState] /\ RequestInv'
    BY <1>1, <1>2, <1>3, BecomeKeeps
  <1>5. faults' \in 0..MaxFaults
    BY <1>3 DEF TypeInv, TypeOK
  <1> QED
    BY <1>4, <1>5, QuietKeeps DEF TypeInv, TypeOK, RegistryInv

\* A request that arrives, or that learns one field, is sound.
LEMMA ArrivedOK ==
  ASSUME TypeInv, NEW a \in AssetIds, NEW E, a \in E,
         NEW l \in {"put", "head", "delWrite", "resend"},
         NEW k, NEW s, NEW d \in BOOLEAN,
         l \in {"put", "head"} =>
           k \in ApiKeys /\ s \in StagingKeys /\ assets[a].current < MaxVersion,
         l \in {"delWrite", "resend"} => k = None /\ s = None,
         l = "resend" => assets[a].current > 0
  PROVE  Arrived(l, a, k, s, d) \in RequestState /\ RequestOK(Arrived(l, a, k, s, d), E)
  <1>1. assets[a].current \in 0..MaxVersion
    BY DEF TypeInv, TypeOK, RegistryTypeOK, AssetRow
  <1>2. l \in Labels /\ l \notin Typed /\ l \notin {"dedup"} \cup Promoting
    BY DEF Labels, OnError, Typed, Promoting
  <1> QED
    BY <1>1, <1>2 DEF Arrived, RequestState, RequestOK, Typed, Promoting, UploadLabels, Versions

LEMMA LearnOK ==
  ASSUME NEW E, NEW q \in RequestState, RequestOK(q, E), NEW l \in Labels \ {"idle", "resend"},
         NEW p \in RequestState,
         p.pc = q.pc /\ p.asset = q.asset /\ p.stage = q.stage /\ p.key = q.key /\ p.base = q.base,
         q.pc # "idle" /\ (l \in UploadLabels => q.pc \in UploadLabels),
         l \in Typed => p.fmt \in Formats,
         l \in {"dedup"} \cup Promoting => p.hash \in Contents,
         l \in {"txCommit", "enqueue"} => p.seen < MaxVersion
  PROVE  To(p, l) \in RequestState /\ RequestOK(To(p, l), E)
  <1>1. To(p, l) = [p EXCEPT !.pc = l] /\ To(p, l).pc = l /\ To(p, l) \in RequestState
    BY ToType
  <1>2. /\ To(p, l).asset = q.asset /\ To(p, l).stage = q.stage /\ To(p, l).key = q.key
        /\ To(p, l).base = q.base /\ To(p, l).fmt = p.fmt /\ To(p, l).hash = p.hash
        /\ To(p, l).seen = p.seen
    BY <1>1 DEF RequestState
  <1> QED
    BY <1>1, <1>2 DEF RequestOK

---------------------------------------------------------------------------
(* Every action preserves TypeInv. *)

\* The facts about the acting request that the steps below rest on.
LEMMA ActingRequest ==
  ASSUME TypeInv, NEW r \in Requests
  PROVE  /\ req[r] \in RequestState /\ RequestOK(req[r], Existing)
         /\ req[r].pc # "idle" => req[r].asset \in AssetIds /\ req[r].asset \in Existing
         /\ req[r].pc \in UploadLabels =>
              req[r].stage \in StagingKeys /\ req[r].key \in ApiKeys /\ req[r].bytes \in Nat
         /\ req[r].stage \in StagingKeys => staging[req[r].stage] \in Contents \cup {None}
  BY DEF TypeInv, TypeOK, RequestInv, RequestOK, RequestState, Existing, BucketTypeOK

LEMMA ArriveStep ==
  ASSUME TypeInv, NEW r \in Requests, Arrive(r)
  PROVE  TypeInv'
  <1>1. ASSUME NEW a \in AssetIds, delete(r, a)
        PROVE  TypeInv'
    <2>1. a \in Existing
      BY <1>1 DEF delete, Visible, Existing
    <2>2. /\ Arrived("delWrite", a, None, None, FALSE) \in RequestState
          /\ RequestOK(Arrived("delWrite", a, None, None, FALSE), Existing)
      BY <2>1, ArrivedOK
    <2> QED
      BY <1>1, <2>2, QuietBecome DEF delete
  <1>2. ASSUME NEW a \in AssetIds, reprocess(r, a)
        PROVE  TypeInv'
    <2>1. a \in Existing /\ assets[a].current > 0
      BY <1>2 DEF reprocess, Visible, Existing
    <2>2. /\ Arrived("resend", a, None, None, FALSE) \in RequestState
          /\ RequestOK(Arrived("resend", a, None, None, FALSE), Existing)
      BY <2>1, ArrivedOK
    <2> QED
      BY <1>2, <2>2, QuietBecome DEF reprocess
  <1>3. ASSUME NEW a \in AssetIds, NEW k \in ApiKeys, completeUpload(r, a, k)
        PROVE  TypeInv'
    <2>1. a \in Existing /\ assets[a].current = 0 /\ <<a, "upload">> \in StagingKeys
      BY <1>3 DEF completeUpload, Existing, StagingKeys
    <2>2. assets[a].current < MaxVersion
      BY <2>1
    <2>3. /\ Arrived("head", a, k, <<a, "upload">>, TRUE) \in RequestState
          /\ RequestOK(Arrived("head", a, k, <<a, "upload">>, TRUE), Existing)
      BY <2>1, <2>2, ArrivedOK
    <2> QED
      BY <1>3, <2>3, QuietBecome DEF completeUpload
  <1>4. ASSUME NEW a \in AssetIds, NEW k \in ApiKeys, NEW t \in Stamps,
               replaceSourceStream(r, a, k, t)
        PROVE  TypeInv'
    <2>1. a \in Existing /\ assets[a].current < MaxVersion /\ <<a, t>> \in StagingKeys
      BY <1>4 DEF replaceSourceStream, Visible, Existing, StagingKeys
    <2>2. /\ Arrived("put", a, k, <<a, t>>, FALSE) \in RequestState
          /\ RequestOK(Arrived("put", a, k, <<a, t>>, FALSE), Existing)
      BY <2>1, ArrivedOK
    <2> QED
      BY <1>4, <2>2, QuietBecome DEF replaceSourceStream
  <1>5. ASSUME NEW a \in AssetIds, NEW k \in ApiKeys, ingestStream(r, a, k)
        PROVE  TypeInv'
    <2> DEFINE q == Arrived("put", a, k, <<a, "upload">>, TRUE)
    <2>1. RegistryInv' /\ Existing \subseteq Existing' /\ a \in Existing'
      BY <1>5, CreateKeeps DEF ingestStream, TypeInv, TypeOK, RegistryInv
    <2>2. <<a, "upload">> \in StagingKeys
      BY DEF StagingKeys
    <2>3. q \in RequestState /\ RequestOK(q, Existing')
      <3>1. assets[a].current < MaxVersion
        BY <1>5 DEF ingestStream, Create, TypeInv, FreshRows
      <3> HIDE DEF q
      <3> QED
        BY <3>1, <2>1, <2>2, ArrivedOK DEF q
    <2>4. req' = [req EXCEPT ![r] = q] /\ faults' = faults
      BY <1>5 DEF ingestStream, Become
    <2>5. req' \in [Requests -> RequestState] /\ RequestInv'
      <3> HIDE DEF q
      <3> QED
        BY <2>1, <2>3, <2>4, BecomeKeeps
    <2> QED
      BY <1>5, <2>1, <2>4, <2>5, SameOthers DEF ingestStream, TypeInv, TypeOK, RegistryInv
  <1> QED
    BY <1>1, <1>2, <1>3, <1>4, <1>5 DEF Arrive

LEMMA MovedOn ==
  ASSUME TypeInv, NEW r \in Requests, NEW l \in Labels, Narrows(req[r].pc, l),
         Goto(r, l) \/ (req[r].pc \in DOMAIN OnError /\ Took(r, l)),
         RegistryInv', Existing \subseteq Existing', BucketTypeOK', QueueTypeOK', QuotaTypeOK',
         UNCHANGED targets
  PROVE  TypeInv'
  <1>1. req' \in [Requests -> RequestState] /\ RequestInv' /\ faults' \in 0..MaxFaults
    BY MoveKeeps
  <1> QED
    BY <1>1 DEF TypeInv, TypeOK, RegistryInv

LEMMA LabelFacts ==
  /\ Labels = {"idle", "scan", "acked", "resend"} \cup UploadLabels \cup
              {"delWrite", "delOriginals", "delDerived"}
  /\ DOMAIN OnError = Labels \ {"idle", "scan", "acked"}
  BY DEF Labels, OnError, UploadLabels, Promoting

\* Validation, scan, rejection and reservation.
LEMMA GateStep ==
  ASSUME TypeInv, NEW r \in Requests,
         \/ \E c \in Contents : Put(r, c)
         \/ Head(r) \/ Validate(r)
         \/ \E v \in Verdicts : Scan(r, v)
         \/ RejectDelete(r) \/ RejectRead(r) \/ RejectWrite(r) \/ Reserve(r)
  PROVE  TypeInv'
  <1> USE DEF At
  <1>0. /\ RegistryInv /\ BucketTypeOK /\ QueueTypeOK /\ QuotaTypeOK
        /\ req[r] \in RequestState /\ RequestOK(req[r], Existing)
    BY ActingRequest DEF TypeInv, TypeOK, RegistryInv
  <1>1. ASSUME NEW c \in Contents, Put(r, c)
        PROVE  TypeInv'
    <2>1. req[r].stage \in StagingKeys /\ Narrows(req[r].pc, "head") /\ req[r].pc \in DOMAIN OnError
      BY <1>1, ActingRequest DEF Put, UploadLabels, Narrows, Typed, Promoting, OnError
    <2>2. BucketTypeOK'
      BY <1>0, <1>1, <2>1, StagingKeeps DEF Put
    <2> QED
      BY <1>0, <1>1, <2>1, <2>2, MovedOn, SameRegistry, SameOthers, LabelFacts DEF Put, UploadLabels
  <1>2. ASSUME Head(r)
        PROVE  TypeInv'
    <2>1. CASE Staged(r) = None
      BY <1>2, <2>1, QuietMove, LabelFacts DEF Head, Narrows, UploadLabels, Typed, Promoting
    <2>2. CASE Staged(r) # None
      <3> DEFINE p == [req[r] EXCEPT !.bytes = Size[Staged(r)]]
      <3>1. Size[Staged(r)] \in Nat
        BY <1>2, <2>2, ActingRequest DEF Head, Staged, UploadLabels
      <3>2. p \in RequestState /\ p.pc = req[r].pc /\ p.asset = req[r].asset
            /\ p.stage = req[r].stage /\ p.key = req[r].key /\ p.base = req[r].base
        BY <1>0, <3>1 DEF RequestState
      <3>3. To(p, "validate") \in RequestState /\ RequestOK(To(p, "validate"), Existing)
        <4> HIDE DEF p
        <4> QED
          BY <1>0, <1>2, <3>2, LearnOK, LabelFacts DEF Head, UploadLabels, Typed, Promoting
      <3> QED
        BY <1>2, <2>2, <3>3, QuietBecome DEF Head
    <2> QED
      BY <2>1, <2>2
  <1>3. ASSUME Validate(r)
        PROVE  TypeInv'
    <2>1. CASE Staged(r) \notin ValidContents
      BY <1>3, <2>1, QuietMove, LabelFacts DEF Validate, Narrows, UploadLabels, Typed, Promoting
    <2>2. CASE Staged(r) \in ValidContents
      <3> DEFINE p == [req[r] EXCEPT !.fmt = Format[Staged(r)]]
      <3>1. Format[Staged(r)] \in Formats
        BY <2>2
      <3>2. p \in RequestState /\ p.pc = req[r].pc /\ p.asset = req[r].asset
            /\ p.stage = req[r].stage /\ p.key = req[r].key /\ p.base = req[r].base
            /\ p.fmt \in Formats
        BY <1>0, <3>1 DEF RequestState
      <3>3. To(p, "scan") \in RequestState /\ RequestOK(To(p, "scan"), Existing)
        <4> HIDE DEF p
        <4> QED
          BY <1>0, <1>3, <3>2, LearnOK, LabelFacts DEF Validate, UploadLabels, Typed, Promoting
      <3> QED
        BY <1>3, <2>2, <3>3, QuietBecome DEF Validate
    <2> QED
      BY <2>1, <2>2
  <1>4. ASSUME NEW v \in Verdicts, Scan(r, v)
        PROVE  TypeInv'
    <2>1. PICK l \in {"rejectDelete", "idle", "reserve"} : Goto(r, l)
      BY <1>4 DEF Scan
    <2>2. l \in Labels /\ Narrows(req[r].pc, l)
      BY <1>4, <2>1, LabelFacts DEF Scan, Narrows, UploadLabels, Typed, Promoting
    <2> QED
      BY <1>4, <2>1, <2>2, QuietMove DEF Scan
  <1>5. ASSUME RejectDelete(r)
        PROVE  TypeInv'
    <2>1. /\ req[r].stage \in StagingKeys /\ Narrows(req[r].pc, "rejectRead")
          /\ "rejectRead" \in Labels
      BY <1>5, ActingRequest, LabelFacts DEF RejectDelete, UploadLabels, Narrows, Typed, Promoting
    <2>2. BucketTypeOK'
      BY <1>0, <1>5, <2>1, StagingKeeps DEF RejectDelete
    <2> QED
      BY <1>0, <1>5, <2>1, <2>2, MovedOn, SameRegistry, SameOthers DEF RejectDelete
  <1>6. ASSUME RejectRead(r)
        PROVE  TypeInv'
    <2>1. PICK l \in {"rejectWrite", "idle"} : Goto(r, l)
      BY <1>6 DEF RejectRead
    <2>2. l \in Labels /\ Narrows(req[r].pc, l)
      BY <1>6, <2>1, LabelFacts DEF RejectRead, Narrows, UploadLabels, Typed, Promoting
    <2> QED
      BY <1>6, <2>1, <2>2, QuietMove DEF RejectRead
  <1>7. ASSUME RejectWrite(r)
        PROVE  TypeInv'
    <2>1. /\ req[r].asset \in AssetIds /\ Narrows(req[r].pc, "idle") /\ "idle" \in Labels
      BY <1>7, ActingRequest, LabelFacts DEF RejectWrite, UploadLabels, Narrows, Typed, Promoting
    <2>2. RegistryInv' /\ Existing \subseteq Existing'
      BY <1>0, <1>7, <2>1, RemoveKeeps DEF RejectWrite
    <2> QED
      BY <1>0, <1>7, <2>1, <2>2, MovedOn, SameOthers DEF RejectWrite
  <1>8. ASSUME Reserve(r)
        PROVE  TypeInv'
    <2>1. /\ req[r].key \in ApiKeys /\ req[r].bytes \in Nat /\ req[r].pc \in DOMAIN OnError
          /\ \A l \in {"hash", "idle"} : l \in Labels /\ Narrows(req[r].pc, l)
      BY <1>8, ActingRequest, LabelFacts DEF Reserve, UploadLabels, Narrows, Typed, Promoting
    <2>2. QuotaTypeOK'
      BY <1>0, <1>8, <2>1, QuotaKeeps, SameOthers DEF Reserve
    <2>3. UNCHANGED registryVars /\ UNCHANGED bucketVars /\ UNCHANGED queueVars /\ UNCHANGED targets
      BY <1>8 DEF Reserve, sharedVars
    <2> QED
      BY <1>0, <1>8, <2>1, <2>2, <2>3, MovedOn, SameRegistry, SameOthers DEF Reserve
  <1> QED
    BY <1>1, <1>2, <1>3, <1>4, <1>5, <1>6, <1>7, <1>8

\* The promotion try block.
LEMMA PromoteStep ==
  ASSUME TypeInv, NEW r \in Requests,
         \/ Hash(r) \/ Dedup(r)
         \/ DupDelete(r) \/ DupRelease(r) \/ DupRead(r) \/ DupWrite(r) \/ DupReturn(r)
         \/ Copy(r) \/ TxRead(r) \/ TxCommit(r) \/ Enqueue(r) \/ Clean(r) \/ Return(r)
         \/ Release(r)
  PROVE  TypeInv'
  <1> USE DEF At
  <1>0. /\ RegistryInv /\ BucketTypeOK /\ QueueTypeOK /\ QuotaTypeOK
        /\ req[r] \in RequestState /\ RequestOK(req[r], Existing)
    BY ActingRequest DEF TypeInv, TypeOK, RegistryInv
  <1>a. /\ req[r].pc # "idle" /\ req[r].pc \in UploadLabels /\ req[r].pc \in DOMAIN OnError
        /\ req[r].asset \in AssetIds /\ req[r].asset \in Existing
        /\ req[r].stage \in StagingKeys /\ req[r].key \in ApiKeys /\ req[r].bytes \in Nat
        /\ req[r].base \in 0..MaxVersion /\ req[r].base < MaxVersion
        /\ Staged(r) \in Contents \cup {None}
    <2>1. req[r].pc # "idle" /\ req[r].pc \in UploadLabels /\ req[r].pc \in DOMAIN OnError
      BY LabelFacts DEF UploadLabels, Promoting, Hash, Dedup, DupDelete, DupRelease, DupRead,
         DupWrite, DupReturn, Copy, TxRead, TxCommit, Enqueue, Clean, Return, Release
    <2>2. req[r].base \in 0..MaxVersion /\ req[r].base < MaxVersion
      BY <1>0, <2>1 DEF RequestState, RequestOK
    <2> QED
      BY <2>1, <2>2, ActingRequest DEF Staged
  <1>1. ASSUME Hash(r)
        PROVE  TypeInv'
    <2>1. CASE Staged(r) = None
      BY <1>1, <2>1, QuietMove, LabelFacts DEF Hash, Narrows, UploadLabels, Typed, Promoting
    <2>2. CASE Staged(r) # None
      <3> DEFINE p == [req[r] EXCEPT !.hash = Staged(r)]
      <3>1. req[r].fmt \in Formats
        BY <1>0, <1>1 DEF Hash, RequestOK, Typed
      <3>2. p \in RequestState /\ p.pc = req[r].pc /\ p.asset = req[r].asset
            /\ p.stage = req[r].stage /\ p.key = req[r].key /\ p.base = req[r].base
            /\ p.fmt = req[r].fmt /\ p.hash \in Contents
        BY <1>0, <1>a, <2>2 DEF RequestState
      <3>3. PICK l \in {"dedup", "copy"} : Become(r, To(p, l))
        BY <1>1, <2>2 DEF Hash
      <3>4. To(p, l) \in RequestState /\ RequestOK(To(p, l), Existing)
        <4>1. l \in Labels \ {"idle", "resend"} /\ l \notin {"txCommit", "enqueue"}
          BY <3>3, LabelFacts DEF UploadLabels, Promoting
        <4> HIDE DEF p
        <4> QED
          BY <1>0, <1>a, <3>1, <3>2, <4>1, LearnOK
      <3> HIDE DEF p
      <3> QED
        BY <1>1, <3>3, <3>4, QuietBecome DEF Hash
    <2> QED
      BY <2>1, <2>2
  <1>2. ASSUME Dedup(r)
        PROVE  TypeInv'
    <2>1. CASE Goto(r, "copy")
      BY <1>2, <2>1, QuietMove, LabelFacts DEF Dedup, Narrows, UploadLabels, Typed, Promoting
    <2>2. ASSUME NEW b \in {v[1] : v \in Twins(req[r].hash)},
                 Become(r, To([req[r] EXCEPT !.twin = b], "dupDelete"))
          PROVE  TypeInv'
      <3> DEFINE p == [req[r] EXCEPT !.twin = b]
      <3>1. b \in AssetIds
        BY <1>0, <2>2 DEF Twins, Matches, RegistryInv, RegistryTypeOK
      <3>2. p \in RequestState /\ p.pc = req[r].pc /\ p.asset = req[r].asset
            /\ p.stage = req[r].stage /\ p.key = req[r].key /\ p.base = req[r].base
        BY <1>0, <3>1 DEF RequestState
      <3>3. To(p, "dupDelete") \in RequestState /\ RequestOK(To(p, "dupDelete"), Existing)
        <4> HIDE DEF p
        <4> QED
          BY <1>0, <1>a, <3>2, LearnOK, LabelFacts DEF UploadLabels, Typed, Promoting
      <3> QED
        BY <1>2, <2>2, <3>3, QuietBecome DEF Dedup
    <2> QED
      BY <1>2, <2>1, <2>2 DEF Dedup
  <1>3. ASSUME DupDelete(r) \/ Clean(r)
        PROVE  TypeInv'
    <2>1. \A l \in {"dupRelease", "return"} : l \in Labels /\ (Narrows(req[r].pc, l))
      BY <1>a, LabelFacts DEF Narrows, UploadLabels, Typed, Promoting
    <2>2. BucketTypeOK'
      BY <1>0, <1>a, <1>3, StagingKeeps DEF DupDelete, Clean
    <2> QED
      BY <1>0, <1>a, <1>3, <2>1, <2>2, MovedOn, SameRegistry, SameOthers DEF DupDelete, Clean
  <1>4. ASSUME DupRelease(r) \/ Release(r)
        PROVE  TypeInv'
    <2>1. \A l \in {"dupRead", "idle"} : l \in Labels /\ Narrows(req[r].pc, l)
      BY <1>a, LabelFacts DEF Narrows, UploadLabels, Typed, Promoting
    <2>2. QuotaTypeOK'
      BY <1>0, <1>a, <1>4, QuotaKeeps DEF DupRelease, Release
    <2>3. UNCHANGED registryVars /\ UNCHANGED bucketVars /\ UNCHANGED queueVars /\ UNCHANGED targets
      BY <1>4 DEF DupRelease, Release, sharedVars
    <2>4. \/ Goto(r, "idle")
          \/ Took(r, "dupRead")
      BY <1>4 DEF DupRelease, Release
    <2> QED
      BY <1>0, <1>a, <2>1, <2>2, <2>3, <2>4, MovedOn, SameRegistry, SameOthers
  <1>5. ASSUME DupRead(r) \/ DupReturn(r) \/ Return(r)
        PROVE  TypeInv'
    <2>1. PICK l \in {"dupWrite", "acked", "release"} : Goto(r, l)
      BY <1>5 DEF DupRead, DupReturn, Return
    <2>2. l \in Labels /\ Narrows(req[r].pc, l)
      BY <1>a, <2>1, LabelFacts DEF Narrows, UploadLabels, Typed, Promoting
    <2>3. UNCHANGED <<sharedVars, quotaVars, targets>>
      BY <1>5 DEF DupRead, DupReturn, Return
    <2> QED
      BY <2>1, <2>2, <2>3, QuietMove
  <1>6. ASSUME DupWrite(r)
        PROVE  TypeInv'
    <2>1. "dupReturn" \in Labels /\ Narrows(req[r].pc, "dupReturn")
      BY <1>a, LabelFacts DEF Narrows, UploadLabels, Typed, Promoting
    <2>2. RegistryInv' /\ Existing \subseteq Existing'
      BY <1>0, <1>a, <1>6, RemoveKeeps DEF DupWrite
    <2> QED
      BY <1>0, <1>a, <1>6, <2>1, <2>2, MovedOn, SameOthers DEF DupWrite
  <1>7. ASSUME Copy(r)
        PROVE  TypeInv'
    <2>1. OriginalKey(r) \in OriginalKeys
      BY <1>0, <1>a, <1>7 DEF Copy, RequestOK, Typed, Promoting, OriginalKey, OriginalKeys, Versions
    <2>2. \A l \in {"txRead", "release"} : l \in Labels /\ Narrows(req[r].pc, l)
      BY <1>7, LabelFacts DEF Copy, Narrows, UploadLabels, Typed, Promoting
    <2>3. BucketTypeOK'
      BY <1>0, <1>a, <1>7, <2>1, OriginalsKeep, SameOthers DEF Copy
    <2>4. Goto(r, "release") \/ Took(r, "txRead")
      BY <1>7 DEF Copy
    <2> QED
      BY <1>0, <1>a, <1>7, <2>2, <2>3, <2>4, MovedOn, SameRegistry, SameOthers DEF Copy
  <1>8. ASSUME TxRead(r)
        PROVE  TypeInv'
    <2>1. CASE Goto(r, "release")
      BY <1>8, <2>1, QuietMove, LabelFacts DEF TxRead, Narrows, UploadLabels, Typed, Promoting
    <2>2. CASE ~Goto(r, "release")
      <3> DEFINE n == assets[req[r].asset].current
                 p == [req[r] EXCEPT !.seen = n]
      <3>1. n \in 0..MaxVersion /\ n < MaxVersion /\ Become(r, To(p, "txCommit"))
        BY <1>0, <1>a, <1>8, <2>2 DEF TxRead, RegistryInv, RegistryTypeOK, AssetRow
      <3>2. p \in RequestState /\ p.pc = req[r].pc /\ p.asset = req[r].asset
            /\ p.stage = req[r].stage /\ p.key = req[r].key /\ p.base = req[r].base
            /\ p.fmt = req[r].fmt /\ p.hash = req[r].hash /\ p.seen = n
        BY <1>0, <3>1 DEF RequestState
      <3>3. p.fmt \in Formats /\ p.hash \in Contents /\ p.seen < MaxVersion
        BY <1>0, <1>8, <3>1, <3>2 DEF TxRead, RequestOK, Typed, Promoting
      <3>4. To(p, "txCommit") \in RequestState /\ RequestOK(To(p, "txCommit"), Existing)
        <4> HIDE DEF p, n
        <4> QED
          BY <1>0, <1>a, <3>2, <3>3, LearnOK, LabelFacts DEF UploadLabels, Promoting
      <3> HIDE DEF p, n
      <3> QED
        BY <1>8, <3>1, <3>4, QuietBecome DEF TxRead
    <2> QED
      BY <2>1, <2>2
  <1>9. ASSUME TxCommit(r)
        PROVE  TypeInv'
    <2>1. OriginalKey(r) \in OriginalKeys /\ req[r].hash \in Contents
          /\ req[r].seen \in 0..MaxVersion /\ req[r].seen < MaxVersion
      BY <1>0, <1>a, <1>9 DEF TxCommit, RequestOK, RequestState, Typed, Promoting, OriginalKey,
         OriginalKeys, Versions
    <2>2. \A l \in {"enqueue", "release"} : l \in Labels /\ Narrows(req[r].pc, l)
      BY <1>9, LabelFacts DEF TxCommit, Narrows, UploadLabels, Typed, Promoting
    <2>3. RegistryInv' /\ Existing \subseteq Existing'
      BY <1>0, <1>a, <1>9, <2>1, CommitKeeps, SameRegistry DEF TxCommit
    <2>4. Goto(r, "release") \/ Took(r, "enqueue")
      BY <1>9 DEF TxCommit
    <2> QED
      BY <1>0, <1>a, <1>9, <2>2, <2>3, <2>4, MovedOn, SameOthers DEF TxCommit
  <1>10. ASSUME Enqueue(r)
         PROVE  TypeInv'
    <2>1. req[r].seen + 1 \in Versions
      BY <1>0, <1>10 DEF Enqueue, RequestOK, RequestState, Versions
    <2>2. "clean" \in Labels /\ Narrows(req[r].pc, "clean")
      BY <1>a, LabelFacts DEF Narrows, UploadLabels, Typed, Promoting
    <2>3. QueueTypeOK'
      BY <1>0, <1>a, <1>10, <2>1, enqueueKeeps DEF Enqueue
    <2> QED
      BY <1>0, <1>10, <2>2, <2>3, MovedOn, SameRegistry, SameOthers DEF Enqueue
  <1> QED
    BY <1>1, <1>2, <1>3, <1>4, <1>5, <1>6, <1>7, <1>8, <1>9, <1>10

\* Deletion, reprocessing, and the ways a request ends.
LEMMA RestStep ==
  ASSUME TypeInv, NEW r \in Requests,
         DelWrite(r) \/ DelOriginals(r) \/ DelDerived(r) \/ Resend(r) \/ Respond(r)
           \/ Fail(r) \/ Crash(r)
  PROVE  TypeInv'
  <1> USE DEF At
  <1>0. /\ RegistryInv /\ BucketTypeOK /\ QueueTypeOK /\ QuotaTypeOK /\ faults \in 0..MaxFaults
        /\ req[r] \in RequestState /\ RequestOK(req[r], Existing)
        /\ req[r].pc # "idle" => req[r].asset \in AssetIds /\ req[r].asset \in Existing
    BY ActingRequest DEF TypeInv, TypeOK, RegistryInv
  <1>a. \A l \in {"delOriginals", "delDerived", "idle"} :
          /\ l \in Labels
          /\ req[r].pc # "idle" => Narrows(req[r].pc, l)
    BY LabelFacts DEF Narrows, UploadLabels, Typed, Promoting
  <1>1. ASSUME DelWrite(r)
        PROVE  TypeInv'
    <2>1. RegistryInv' /\ Existing \subseteq Existing'
      BY <1>0, <1>1, RemoveKeeps DEF DelWrite
    <2> QED
      BY <1>0, <1>a, <1>1, <2>1, MovedOn, SameOthers, LabelFacts DEF DelWrite
  <1>2. ASSUME DelOriginals(r)
        PROVE  TypeInv'
    <2>1. BucketTypeOK'
      BY <1>0, <1>2 DEF DelOriginals, DeleteOriginals, BucketTypeOK
    <2> QED
      BY <1>0, <1>a, <1>2, <2>1, MovedOn, SameRegistry, SameOthers DEF DelOriginals
  <1>3. ASSUME DelDerived(r)
        PROVE  TypeInv'
    <2>1. BucketTypeOK'
      BY <1>0, <1>3 DEF DelDerived, DeleteDerived, BucketTypeOK
    <2> QED
      BY <1>0, <1>a, <1>3, <2>1, MovedOn, SameRegistry, SameOthers DEF DelDerived
  <1>4. ASSUME Resend(r)
        PROVE  TypeInv'
    <2>1. QueueTypeOK'
      BY <1>0, <1>4, enqueueKeeps DEF Resend, RequestOK
    <2> QED
      BY <1>0, <1>a, <1>4, <2>1, MovedOn, SameRegistry, SameOthers DEF Resend
  <1>5. ASSUME Respond(r)
        PROVE  TypeInv'
    BY <1>a, <1>5, QuietMove DEF Respond
  <1>6. ASSUME Fail(r)
        PROVE  TypeInv'
    <2>1. Took(r, "idle") /\ UNCHANGED <<sharedVars, quotaVars, targets>>
          /\ req[r].pc \in DOMAIN OnError /\ req[r].pc # "idle"
      BY <1>6, LabelFacts DEF Fail, Took
    <2>2. req' \in [Requests -> RequestState] /\ RequestInv' /\ faults' \in 0..MaxFaults
      BY <1>a, <2>1, MoveKeeps, QuietKeeps
    <2> QED
      BY <2>1, <2>2, QuietKeeps DEF TypeInv, TypeOK, RegistryInv
  <1>7. ASSUME Crash(r)
        PROVE  TypeInv'
    <2>1. Idle \in RequestState /\ RequestOK(Idle, Existing')
      BY DEF Idle, RequestState, RequestOK, Labels, UploadLabels, Typed, Promoting
    <2>2. UNCHANGED <<sharedVars, quotaVars, targets>> /\ req' = [req EXCEPT ![r] = Idle]
      BY <1>7 DEF Crash
    <2>3. req' \in [Requests -> RequestState] /\ RequestInv'
      BY <2>1, <2>2, BecomeKeeps, QuietKeeps
    <2>4. faults' \in 0..MaxFaults
      BY <1>0, <1>7 DEF Crash, CountFault
    <2> QED
      BY <2>2, <2>3, <2>4, QuietKeeps DEF TypeInv, TypeOK, RegistryInv
  <1> QED
    BY <1>1, <1>2, <1>3, <1>4, <1>5, <1>6, <1>7

LEMMA ClientStep ==
  ASSUME TypeInv, Client
  PROVE  TypeInv'
  <1>0. /\ RegistryInv /\ BucketTypeOK /\ QueueTypeOK /\ QuotaTypeOK /\ faults \in 0..MaxFaults
        /\ targets \in [AssetIds -> 0..MaxPuts]
        /\ req \in [Requests -> RequestState] /\ \A r \in Requests : RequestOK(req[r], Existing)
    BY DEF TypeInv, TypeOK, RegistryInv, RequestInv
  <1>1. ASSUME NEW a \in AssetIds, createUploadTarget(a)
        PROVE  TypeInv'
    <2>1. RegistryInv' /\ Existing \subseteq Existing'
      BY <1>0, <1>1, CreateKeeps DEF createUploadTarget
    <2>2. RequestInv'
      BY <1>0, <1>1, <2>1 DEF createUploadTarget, RequestInv, RequestOK
    <2>3. targets' \in [AssetIds -> 0..MaxPuts]
      BY <1>0, <1>1 DEF createUploadTarget
    <2> QED
      BY <1>0, <1>1, <2>1, <2>2, <2>3, SameOthers DEF createUploadTarget, TypeInv, TypeOK, RegistryInv
  <1>2. ASSUME NEW a \in AssetIds, NEW c \in Contents, ClientPut(a, c)
        PROVE  TypeInv'
    <2>1. <<a, "upload">> \in StagingKeys
      BY DEF StagingKeys
    <2>2. BucketTypeOK'
      BY <1>0, <1>2, <2>1, StagingKeeps DEF ClientPut
    <2>3. RegistryInv' /\ Existing' = Existing
      BY <1>0, <1>2, SameRegistry DEF ClientPut
    <2>4. RequestInv'
      BY <1>0, <1>2, <2>3 DEF ClientPut, RequestInv
    <2>5. targets' \in [AssetIds -> 0..MaxPuts]
      BY <1>0, <1>2 DEF ClientPut
    <2> QED
      BY <1>0, <1>2, <2>2, <2>3, <2>4, <2>5, SameOthers DEF ClientPut, TypeInv, TypeOK, RegistryInv
  <1> QED
    BY <1>1, <1>2 DEF Client

\* TypeInv is inductive.
LEMMA TypeStep == TypeInv /\ [Next]_vars => TypeInv'
  <1> SUFFICES ASSUME TypeInv, [Next]_vars
               PROVE  TypeInv'
    OBVIOUS
  <1>1. CASE UNCHANGED vars
    <2>1. UNCHANGED <<sharedVars, quotaVars, targets>> /\ req' = req /\ faults' = faults
      BY <1>1 DEF vars
    <2> QED
      BY <2>1, QuietKeeps DEF TypeInv, TypeOK, RegistryInv, RequestInv
  <1>2. ASSUME NEW r \in Requests, Handle(r)
        PROVE  TypeInv'
    BY <1>2, GateStep, PromoteStep, RestStep DEF Handle
  <1> QED
    BY <1>1, <1>2, ArriveStep, RestStep, ClientStep DEF Next

\* Every reachable state is well typed: no handler leaves a row, an object
\* key, a counter or a request outside the values its fields may hold.
THEOREM TypeCorrect == Spec => []TypeOK
  <1>1. Spec => []TypeInv
    BY TypeInit, TypeStep, PTL DEF Spec
  <1>2. TypeInv => TypeOK
    BY DEF TypeInv
  <1> QED
    BY <1>1, <1>2, PTL

---------------------------------------------------------------------------
(* Safety *)

USE RegistryAssumption, QuotaAssumption, IngestAssumption, JobQueueAssumption

\* A version row names an object of its own asset.
OwnSource == \A v \in AssetIds \X Versions : versions[v] # None => versions[v].source[1] = v[1]

\* What a transaction read is not ahead of the row.
SeenInv ==
  \A r \in Requests : At(r, "txCommit") => req[r].seen <= assets[req[r].asset].current

\* Between the copy and the commit the copied object is there, unless the
\* asset was removed meanwhile; objects are deleted of removed assets only.
CopyInv ==
  \A r \in Requests :
    /\ req[r].pc \in {"txRead", "txCommit"} /\ Visible(req[r].asset) => Stored(OriginalKey(r))
    /\ req[r].pc \in {"delOriginals", "delDerived"} => ~Visible(req[r].asset)

Single ==
  {"put", "head", "validate", "scan", "reserve", "hash", "dedup", "copy", "txRead", "txCommit",
   "enqueue", "clean", "return"}

Duplicate == {"dupDelete", "dupRelease", "dupRead", "dupWrite", "dupReturn"}

\* A request that will answer names an asset with a version, its own or a twin.
AnswerInv ==
  \A r \in Requests :
    /\ req[r].pc \in {"enqueue", "clean", "return"} => assets[req[r].asset].current > 0
    /\ req[r].pc \in Duplicate =>
         req[r].twin \in AssetIds /\ assets[req[r].twin].current > 0
    /\ req[r].pc \in Single => req[r].twin = None

SafetyInv == VersionHistory /\ CurrentSourceDurable /\ OwnSource /\ SeenInv /\ CopyInv /\ AnswerInv

---------------------------------------------------------------------------
(* How a step moves the acting request. *)

\* All but the program counter.
Keeps(p, q) ==
  /\ p.asset = q.asset /\ p.stage = q.stage /\ p.key = q.key /\ p.dedup = q.dedup
  /\ p.base = q.base /\ p.bytes = q.bytes /\ p.fmt = q.fmt /\ p.hash = q.hash
  /\ p.twin = q.twin /\ p.seen = q.seen

Others(r) == \A s \in Requests \ {r} : req'[s] = req[s]

\* By which step a request comes to a label the invariant speaks of.
Own(r) ==
  LET p == req[r]
      q == req'[r]
  IN  /\ q.pc = "txRead" =>
           /\ p.pc = "copy" /\ Keeps(q, p) /\ Staged(r) # None
           /\ CopyToOriginal(p.stage, OriginalKey(r)) /\ UNCHANGED registryVars
      /\ q.pc = "txCommit" =>
           /\ p.pc = "txRead" /\ p.asset = q.asset /\ p.base = q.base /\ p.fmt = q.fmt
           /\ p.twin = q.twin /\ q.seen = assets[p.asset].current
           /\ UNCHANGED <<registryVars, originals>>
      /\ q.pc = "enqueue" =>
           /\ p.pc = "txCommit" /\ Keeps(q, p) /\ CanInsertVersion(p.asset, p.seen)
           /\ CommitVersion(p.asset, p.seen, OriginalKey(r), p.hash)
      /\ q.pc \in {"clean", "return"} =>
           p.pc \in {"enqueue", "clean"} /\ Keeps(q, p) /\ UNCHANGED registryVars
      /\ q.pc = "dupDelete" =>
           /\ UNCHANGED registryVars /\ \E v \in Twins(p.hash) : q.twin = v[1]
      /\ q.pc \in Duplicate \ {"dupDelete"} => p.pc \in Duplicate /\ Keeps(q, p)
      /\ q.pc = "delOriginals" =>
           p.pc = "delWrite" /\ Keeps(q, p) /\ RemoveAs(p.asset, "deleted")
      /\ q.pc = "delDerived" =>
           p.pc = "delOriginals" /\ Keeps(q, p) /\ UNCHANGED registryVars
      /\ q.pc \in Single => q.twin = None \/ (p.pc \in Single /\ q.twin = p.twin)
      /\ q.pc = "acked" =>
           /\ Keeps(q, p) /\ UNCHANGED <<registryVars, originals>>
           /\ p.pc = "acked" \/ (p.pc = "return" /\ Visible(p.asset))
                \/ (p.pc = "dupReturn" /\ Visible(p.twin))

\* The labels Own says nothing about.
Plain == {"idle", "rejectDelete", "rejectRead", "rejectWrite", "release", "delWrite", "resend"}

LEMMA PlainOwn ==
  ASSUME NEW r \in Requests, req'[r].pc \in Plain
  PROVE  Own(r)
  BY DEF Plain, Own, Single, Duplicate

LEMMA ToKeeps ==
  ASSUME NEW q \in RequestState, NEW l \in Labels
  PROVE  To(q, l).pc = l /\ (l # "idle" => Keeps(To(q, l), q))
  <1>1. To(q, l).pc = l /\ (l # "idle" => To(q, l) = [q EXCEPT !.pc = l])
    BY ToType
  <1> QED
    BY <1>1 DEF Keeps, RequestState

LEMMA Shape ==
  ASSUME TypeInv, NEW r \in Requests, NEW l \in Labels,
         Goto(r, l) \/ (req[r].pc \in DOMAIN OnError /\ Took(r, l))
  PROVE  /\ Others(r)
         /\ \/ req'[r].pc = l
            \/ req[r].pc \in DOMAIN OnError /\ req'[r].pc = OnError[req[r].pc]
         /\ req'[r].pc # "idle" => Keeps(req'[r], req[r])
  <1>1. req \in [Requests -> RequestState] /\ req[r] \in RequestState
    BY DEF TypeInv, TypeOK
  <1>2. ASSUME NEW m \in Labels, req' = [req EXCEPT ![r] = To(req[r], m)]
        PROVE  Others(r) /\ req'[r].pc = m /\ (req'[r].pc # "idle" => Keeps(req'[r], req[r]))
    <2>1. req'[r] = To(req[r], m) /\ Others(r)
      BY <1>1, <1>2 DEF Others
    <2> QED
      BY <1>1, <2>1, ToKeeps
  <1>3. CASE req' = [req EXCEPT ![r] = To(req[r], l)]
    BY <1>2, <1>3
  <1>4. CASE req[r].pc \in DOMAIN OnError /\ req' = [req EXCEPT ![r] = To(@, OnError[@.pc])]
    <2>1. OnError[req[r].pc] \in Labels
      BY <1>4, OnErrorNarrows
    <2> QED
      BY <1>2, <1>4, <2>1
  <1> QED
    BY <1>3, <1>4 DEF Goto, Become, Took

LEMMA BecomeShape ==
  ASSUME TypeInv, NEW r \in Requests, NEW STATE q, Become(r, q)
  PROVE  Others(r) /\ req'[r] = q
  BY DEF TypeInv, TypeOK, Become, Others

\* Where an error leads.
LEMMA OnErrorPlain ==
  ASSUME NEW p \in DOMAIN OnError
  PROVE  \/ OnError[p] \in Plain
         \/ p = "enqueue" /\ OnError[p] = "clean"
         \/ p = "delOriginals" /\ OnError[p] = "delDerived"
  BY DEF OnError, Plain

LEMMA LearnShape ==
  ASSUME TypeInv, NEW r \in Requests, NEW STATE p, NEW l \in Labels \ {"idle"},
         p \in RequestState, Become(r, To(p, l))
  PROVE  Others(r) /\ req'[r].pc = l /\ Keeps(req'[r], p)
  <1>1. Others(r) /\ req'[r] = To(p, l)
    BY BecomeShape
  <1> QED
    BY <1>1, ToKeeps

LEMMA ArriveOwn ==
  ASSUME TypeInv, NEW r \in Requests, Arrive(r)
  PROVE  Others(r) /\ Own(r)
  <1>1. PICK a \in AssetIds, k \in ApiKeys \cup {None}, l \in {"put", "head", "delWrite", "resend"},
             s \in StagingKeys \cup {None}, d \in BOOLEAN : Become(r, Arrived(l, a, k, s, d))
    <2>1. \A a \in AssetIds, t \in Stamps \cup {"upload"} : <<a, t>> \in StagingKeys
      BY DEF StagingKeys
    <2> QED
      BY <2>1 DEF Arrive, delete, reprocess, ingestStream, completeUpload, replaceSourceStream
  <1>2. Others(r) /\ req'[r].pc = l /\ req'[r].twin = None
    BY <1>1, BecomeShape DEF Arrived
  <1> QED
    BY <1>2 DEF Own, Single, Duplicate

LEMMA GateOwn ==
  ASSUME TypeInv, NEW r \in Requests,
         \/ \E c \in Contents : Put(r, c)
         \/ Head(r) \/ Validate(r)
         \/ \E v \in Verdicts : Scan(r, v)
         \/ RejectDelete(r) \/ RejectRead(r) \/ RejectWrite(r) \/ Reserve(r)
  PROVE  Others(r) /\ Own(r)
  <1> USE DEF At
  <1>0. req[r] \in RequestState /\ req[r].pc \in Single \cup Plain
    BY ActingRequest DEF Put, Head, Validate, Scan, RejectDelete, RejectRead, RejectWrite, Reserve,
       Single, Plain
  <1>1. ASSUME NEW l \in Plain \cup {"head", "hash", "reserve"},
               Goto(r, l) \/ (req[r].pc \in DOMAIN OnError /\ Took(r, l)),
               req[r].pc \notin {"enqueue", "delOriginals"},
               l \in {"head", "hash", "reserve"} => req[r].pc \in Single
        PROVE  Others(r) /\ Own(r)
    <2>1. l \in Labels
      BY LabelFacts DEF Plain, UploadLabels
    <2>2. Others(r) /\ (req'[r].pc # "idle" => Keeps(req'[r], req[r]))
          /\ req'[r].pc \in Plain \cup {l}
      BY <1>1, <2>1, Shape, OnErrorPlain
    <2>3. CASE req'[r].pc \in Plain
      BY <2>2, <2>3, PlainOwn
    <2>4. CASE req'[r].pc \notin Plain
      BY <1>1, <2>2, <2>4 DEF Own, Keeps, Single, Duplicate, Plain
    <2> QED
      BY <2>2, <2>3, <2>4
  <1>2. ASSUME NEW STATE p, NEW l \in {"validate", "scan"}, p \in RequestState,
               p.twin = req[r].twin, req[r].pc \in Single, Become(r, To(p, l))
        PROVE  Others(r) /\ Own(r)
    <2>1. l \in Labels \ {"idle"}
      BY LabelFacts DEF UploadLabels
    <2>2. Others(r) /\ req'[r].pc = l /\ Keeps(req'[r], p)
      BY <1>2, <2>1, LearnShape
    <2> QED
      BY <1>2, <2>2 DEF Own, Keeps, Single, Duplicate
  <1>3. CASE \E c \in Contents : Put(r, c)
    BY <1>1, <1>3, LabelFacts DEF Put, Single, UploadLabels
  <1>4. CASE Head(r)
    <2>1. CASE Staged(r) = None
      BY <1>1, <1>4, <2>1 DEF Head, Plain
    <2>2. CASE Staged(r) # None
      <3> DEFINE p == [req[r] EXCEPT !.bytes = Size[Staged(r)]]
      <3>1. Size[Staged(r)] \in Nat
        BY <1>4, <2>2, ActingRequest DEF Head, Staged, UploadLabels
      <3>2. p \in RequestState /\ p.twin = req[r].twin
        BY <1>0, <3>1 DEF RequestState
      <3> HIDE DEF p
      <3> QED
        BY <1>2, <1>4, <2>2, <3>2 DEF Head, Single, p
    <2> QED
      BY <2>1, <2>2
  <1>5. CASE Validate(r)
    <2>1. CASE Staged(r) \notin ValidContents
      BY <1>1, <1>5, <2>1 DEF Validate, Plain
    <2>2. CASE Staged(r) \in ValidContents
      <3> DEFINE p == [req[r] EXCEPT !.fmt = Format[Staged(r)]]
      <3>1. Format[Staged(r)] \in Formats
        BY <2>2
      <3>2. p \in RequestState /\ p.twin = req[r].twin
        BY <1>0, <3>1 DEF RequestState
      <3> HIDE DEF p
      <3> QED
        BY <1>2, <1>5, <2>2, <3>2 DEF Validate, Single, p
    <2> QED
      BY <2>1, <2>2
  <1>6. CASE \E v \in Verdicts : Scan(r, v)
    BY <1>1, <1>6 DEF Scan, Plain, Single
  <1>7. CASE RejectDelete(r) \/ RejectRead(r) \/ RejectWrite(r)
    BY <1>1, <1>7 DEF RejectDelete, RejectRead, RejectWrite, Plain
  <1>8. CASE Reserve(r)
    BY <1>1, <1>8, LabelFacts DEF Reserve, Plain, Single, UploadLabels
  <1> QED
    BY <1>3, <1>4, <1>5, <1>6, <1>7, <1>8

LEMMA PromoteOwn ==
  ASSUME TypeInv, NEW r \in Requests,
         \/ Hash(r) \/ Dedup(r)
         \/ DupDelete(r) \/ DupRelease(r) \/ DupRead(r) \/ DupWrite(r) \/ DupReturn(r)
         \/ Copy(r) \/ TxRead(r) \/ TxCommit(r) \/ Enqueue(r) \/ Clean(r) \/ Return(r)
         \/ Release(r)
  PROVE  Others(r) /\ Own(r)
  <1> USE DEF At
  <1>0. /\ req[r] \in RequestState /\ req[r].pc \in DOMAIN OnError
        /\ req[r].pc # "delOriginals" /\ Staged(r) \in Contents \cup {None}
    <2>1. req[r].pc \in UploadLabels /\ req[r].pc \in DOMAIN OnError /\ req[r].pc # "delOriginals"
      BY LabelFacts DEF UploadLabels, Promoting, Hash, Dedup, DupDelete, DupRelease, DupRead,
         DupWrite, DupReturn, Copy, TxRead, TxCommit, Enqueue, Clean, Return, Release
    <2> QED
      BY <2>1, ActingRequest DEF Staged
  \* Either the step went wrong, or it went on to l.
  <1>1. ASSUME NEW l \in Labels, Goto(r, l) \/ Took(r, l), req[r].pc # "enqueue"
        PROVE  /\ Others(r)
               /\ Own(r) \/ req'[r].pc = l
               /\ req'[r].pc # "idle" => Keeps(req'[r], req[r])
    BY <1>0, <1>1, Shape, OnErrorPlain, PlainOwn
  <1>2. CASE Hash(r)
    <2>1. CASE Staged(r) = None
      BY <1>1, <1>2, <2>1, PlainOwn, LabelFacts DEF Hash, Plain, UploadLabels
    <2>2. CASE Staged(r) # None
      <3> DEFINE p == [req[r] EXCEPT !.hash = Staged(r)]
      <3>1. p \in RequestState /\ p.twin = req[r].twin
        BY <1>0, <2>2 DEF RequestState
      <3>2. PICK l \in {"dedup", "copy"} : Become(r, To(p, l))
        BY <1>2, <2>2 DEF Hash
      <3>3. l \in Labels \ {"idle"}
        BY LabelFacts DEF UploadLabels, Promoting
      <3> HIDE DEF p
      <3>4. Others(r) /\ req'[r].pc = l /\ Keeps(req'[r], p)
        BY <3>1, <3>2, <3>3, LearnShape
      <3> QED
        BY <1>2, <3>1, <3>4 DEF Hash, Own, Keeps, Single, Duplicate
    <2> QED
      BY <2>1, <2>2
  <1>3. CASE Dedup(r)
    <2>1. CASE Goto(r, "copy")
      <3>1. Others(r) /\ req'[r].pc = "copy" /\ Keeps(req'[r], req[r])
        <4>1. "copy" \in Labels \ {"idle"} /\ Become(r, To(req[r], "copy"))
          BY <2>1, LabelFacts DEF Goto, UploadLabels, Promoting
        <4> QED
          BY <1>0, <4>1, LearnShape
      <3> QED
        BY <1>3, <3>1 DEF Dedup, Own, Keeps, Single, Duplicate
    <2>2. CASE ~Goto(r, "copy")
      <3>1. PICK v \in Twins(req[r].hash) :
              Become(r, To([req[r] EXCEPT !.twin = v[1]], "dupDelete"))
        BY <1>3, <2>2 DEF Dedup
      <3> DEFINE p == [req[r] EXCEPT !.twin = v[1]]
      <3>2. v[1] \in AssetIds
        BY DEF Twins, Matches, TypeInv, TypeOK, RegistryTypeOK
      <3>3. p \in RequestState /\ p.twin = v[1]
        BY <1>0, <3>2 DEF RequestState
      <3>4. UNCHANGED registryVars /\ Become(r, To(p, "dupDelete")) /\ "dupDelete" \in Labels \ {"idle"}
        BY <1>3, <3>1, LabelFacts DEF Dedup, sharedVars, UploadLabels
      <3> HIDE DEF p
      <3>5. Others(r) /\ req'[r].pc = "dupDelete" /\ Keeps(req'[r], p)
        BY <3>3, <3>4, LearnShape
      <3> QED
        BY <3>3, <3>4, <3>5 DEF Own, Keeps, Single, Duplicate
    <2> QED
      BY <2>1, <2>2
  <1>4. CASE DupDelete(r) \/ DupRelease(r) \/ DupRead(r) \/ DupWrite(r)
    <2>1. PICK l \in {"dupRelease", "dupRead", "dupWrite", "dupReturn", "release"} :
            Goto(r, l) \/ Took(r, l)
      BY <1>4 DEF DupDelete, DupRelease, DupRead, DupWrite
    <2>2. l \in Labels /\ req[r].pc \in Duplicate /\ req[r].pc # "enqueue"
      BY <1>4, LabelFacts DEF UploadLabels, Duplicate, DupDelete, DupRelease, DupRead, DupWrite
    <2>3. /\ Others(r)
          /\ Own(r) \/ req'[r].pc = l
          /\ req'[r].pc # "idle" => Keeps(req'[r], req[r])
      BY <1>1, <2>1, <2>2
    <2> QED
      BY <2>2, <2>3 DEF Own, Single, Duplicate
  <1>5. CASE DupReturn(r) \/ Return(r)
    <2>1. PICK l \in {"acked", "release"} : Goto(r, l)
      BY <1>5 DEF DupReturn, Return
    <2>2. l \in Labels /\ req[r].pc # "enqueue"
      BY <1>5, LabelFacts DEF UploadLabels, DupReturn, Return
    <2>3. /\ Others(r)
          /\ Own(r) \/ req'[r].pc = l
          /\ req'[r].pc # "idle" => Keeps(req'[r], req[r])
      BY <1>1, <2>1, <2>2
    <2>4. UNCHANGED <<registryVars, originals>>
      BY <1>5 DEF DupReturn, Return, sharedVars, bucketVars
    <2>5. l = "acked" => (req[r].pc = "return" /\ Visible(req[r].asset))
                           \/ (req[r].pc = "dupReturn" /\ Visible(req[r].twin))
      <3>1. \A m \in {"acked", "release"} : Goto(r, m) => req'[r].pc = m
        BY <1>0, LabelFacts, ToKeeps DEF Goto, Become, TypeInv, TypeOK, UploadLabels
      <3> QED
        BY <1>5, <2>1, <3>1 DEF DupReturn, Return
    <2> QED
      BY <2>1, <2>3, <2>4, <2>5 DEF Own, Single, Duplicate
  <1>6. CASE Copy(r)
    <2>1. CASE Staged(r) = None
      BY <1>1, <1>6, <2>1, PlainOwn, LabelFacts DEF Copy, Plain, UploadLabels
    <2>2. CASE Staged(r) # None
      <3>1. Took(r, "txRead") /\ CopyToOriginal(req[r].stage, OriginalKey(r)) /\ UNCHANGED registryVars
            /\ req[r].pc = "copy" /\ "txRead" \in Labels
        BY <1>6, <2>2, LabelFacts DEF Copy, UploadLabels, Promoting
      <3>2. /\ Others(r)
            /\ Own(r) \/ req'[r].pc = "txRead"
            /\ req'[r].pc # "idle" => Keeps(req'[r], req[r])
        BY <1>1, <3>1
      <3>3. ASSUME req'[r].pc = "txRead"
            PROVE  Own(r)
        <4>1. Keeps(req'[r], req[r])
          BY <3>2, <3>3
        <4> QED
          BY <2>2, <3>1, <3>3, <4>1 DEF Own, Single, Duplicate, Keeps
      <3> QED
        BY <3>2, <3>3
    <2> QED
      BY <2>1, <2>2
  <1>7. CASE TxRead(r)
    <2>1. CASE Goto(r, "release")
      BY <1>1, <1>7, <2>1, PlainOwn, LabelFacts DEF TxRead, Plain, UploadLabels
    <2>2. CASE ~Goto(r, "release")
      <3> DEFINE n == assets[req[r].asset].current
                 p == [req[r] EXCEPT !.seen = n]
      <3>1. Become(r, To(p, "txCommit")) /\ UNCHANGED <<registryVars, originals>> /\ req[r].pc = "txRead"
            /\ req[r].asset \in AssetIds
        BY <1>7, <2>2, ActingRequest DEF TxRead, sharedVars, bucketVars
      <3>2. n \in 0..MaxVersion
        BY <3>1 DEF TypeInv, TypeOK, RegistryTypeOK, AssetRow
      <3>3. p \in RequestState /\ p.asset = req[r].asset /\ p.base = req[r].base
            /\ p.fmt = req[r].fmt /\ p.twin = req[r].twin /\ p.seen = n
        BY <1>0, <3>2 DEF RequestState
      <3>4. "txCommit" \in Labels \ {"idle"}
        BY LabelFacts DEF UploadLabels, Promoting
      <3> HIDE DEF p
      <3>5. Others(r) /\ req'[r].pc = "txCommit" /\ Keeps(req'[r], p)
        BY <3>1, <3>3, <3>4, LearnShape
      <3> QED
        BY <3>1, <3>3, <3>5 DEF Own, Keeps, Single, Duplicate
    <2> QED
      BY <2>1, <2>2
  <1>8. CASE TxCommit(r)
    <2>1. CASE ~CanInsertVersion(req[r].asset, req[r].seen)
      BY <1>1, <1>8, <2>1, PlainOwn, LabelFacts DEF TxCommit, Plain, UploadLabels
    <2>2. CASE CanInsertVersion(req[r].asset, req[r].seen)
      <3>1. Took(r, "enqueue") /\ CommitVersion(req[r].asset, req[r].seen, OriginalKey(r), req[r].hash)
            /\ req[r].pc = "txCommit" /\ "enqueue" \in Labels
        BY <1>8, <2>2, LabelFacts DEF TxCommit, UploadLabels, Promoting
      <3>2. /\ Others(r)
            /\ Own(r) \/ req'[r].pc = "enqueue"
            /\ req'[r].pc # "idle" => Keeps(req'[r], req[r])
        BY <1>1, <3>1
      <3> QED
        BY <2>2, <3>1, <3>2 DEF Own, Single, Duplicate, Keeps
    <2> QED
      BY <2>1, <2>2
  <1>9. CASE Enqueue(r)
    <2>1. Goto(r, "clean") /\ UNCHANGED registryVars /\ req[r].pc = "enqueue" /\ "clean" \in Labels
      BY <1>9, LabelFacts DEF Enqueue, UploadLabels
    <2>2. Others(r) /\ req'[r].pc \in {"clean"} /\ Keeps(req'[r], req[r])
      BY <2>1, Shape DEF OnError
    <2> QED
      BY <2>1, <2>2 DEF Own, Single, Duplicate, Keeps
  <1>10. CASE Clean(r)
    <2>1. Took(r, "return") /\ UNCHANGED registryVars /\ req[r].pc = "clean" /\ "return" \in Labels
      BY <1>10, LabelFacts DEF Clean, UploadLabels
    <2>2. /\ Others(r)
          /\ Own(r) \/ req'[r].pc = "return"
          /\ req'[r].pc # "idle" => Keeps(req'[r], req[r])
      BY <1>1, <2>1
    <2> QED
      BY <2>1, <2>2 DEF Own, Single, Duplicate, Keeps
  <1>11. CASE Release(r)
    BY <1>1, <1>11, PlainOwn, LabelFacts DEF Release, Plain
  <1> QED
    BY <1>2, <1>3, <1>4, <1>5, <1>6, <1>7, <1>8, <1>9, <1>10, <1>11

LEMMA RestOwn ==
  ASSUME TypeInv, NEW r \in Requests,
         DelWrite(r) \/ DelOriginals(r) \/ DelDerived(r) \/ Resend(r) \/ Respond(r)
           \/ Fail(r) \/ Crash(r)
  PROVE  Others(r) /\ Own(r)
  <1> USE DEF At
  <1>1. CASE DelWrite(r)
    <2>1. Took(r, "delOriginals") /\ RemoveAs(req[r].asset, "deleted") /\ req[r].pc = "delWrite"
          /\ "delOriginals" \in Labels /\ req[r].pc \in DOMAIN OnError
      BY <1>1, LabelFacts DEF DelWrite
    <2>2. Others(r) /\ (req'[r].pc # "idle" => Keeps(req'[r], req[r]))
          /\ req'[r].pc \in Plain \cup {"delOriginals"}
      BY <2>1, Shape, OnErrorPlain
    <2>3. req'[r].pc = "delOriginals" => Keeps(req'[r], req[r])
      BY <2>2
    <2> QED
      BY <2>1, <2>2, <2>3, PlainOwn DEF Own, Single, Duplicate
  <1>2. CASE DelOriginals(r)
    <2>1. Goto(r, "delDerived") /\ UNCHANGED registryVars /\ req[r].pc = "delOriginals"
          /\ "delDerived" \in Labels
      BY <1>2, LabelFacts DEF DelOriginals
    <2>2. Others(r) /\ req'[r].pc = "delDerived" /\ Keeps(req'[r], req[r])
      BY <2>1, Shape DEF OnError
    <2> QED
      BY <2>1, <2>2 DEF Own, Single, Duplicate
  <1>3. CASE DelDerived(r) \/ Resend(r) \/ Respond(r)
    <2>1. Goto(r, "idle") /\ "idle" \in Labels /\ req[r].pc \notin {"enqueue", "delOriginals"}
      BY <1>3, LabelFacts DEF DelDerived, Resend, Respond
    <2>2. Others(r) /\ req'[r].pc \in Plain
      BY <2>1, Shape, OnErrorPlain DEF Plain
    <2> QED
      BY <2>2, PlainOwn
  <1>4. CASE Fail(r)
    <2>1. Took(r, "idle") /\ "idle" \in Labels /\ req[r].pc \in DOMAIN OnError /\ UNCHANGED registryVars
      BY <1>4, LabelFacts DEF Fail, Took, sharedVars
    <2>2. Others(r) /\ (req'[r].pc # "idle" => Keeps(req'[r], req[r]))
          /\ \/ req'[r].pc \in Plain
             \/ req[r].pc = "enqueue" /\ req'[r].pc = "clean"
             \/ req[r].pc = "delOriginals" /\ req'[r].pc = "delDerived"
      BY <2>1, Shape, OnErrorPlain DEF Plain
    <2>3. req'[r].pc \in {"clean", "delDerived"} => Keeps(req'[r], req[r])
      BY <2>2
    <2> QED
      BY <2>1, <2>2, <2>3, PlainOwn DEF Own, Single, Duplicate, Keeps
  <1>5. CASE Crash(r)
    <2>1. req' = [req EXCEPT ![r] = Idle] /\ req \in [Requests -> RequestState]
      BY <1>5 DEF Crash, TypeInv, TypeOK
    <2>2. Others(r) /\ req'[r].pc \in Plain
      BY <2>1 DEF Others, Idle, Plain
    <2> QED
      BY <2>2, PlainOwn
  <1> QED
    BY <1>1, <1>2, <1>3, <1>4, <1>5

---------------------------------------------------------------------------
(* What a step does to the rows and the originals. *)

Data(r) ==
  LET p == req[r]
  IN  \/ UNCHANGED <<registryVars, originals>>
      \/ UNCHANGED originals /\ \E a \in AssetIds : Create(a)
      \/ /\ UNCHANGED originals /\ p.pc # "idle"
         /\ \E st \in {"rejected", "deleted"} : RemoveAs(p.asset, st)
      \/ /\ UNCHANGED originals /\ p.pc = "txCommit" /\ CanInsertVersion(p.asset, p.seen)
         /\ CommitVersion(p.asset, p.seen, OriginalKey(r), p.hash)
      \/ /\ UNCHANGED registryVars /\ p.pc = "copy" /\ Staged(r) # None
         /\ CopyToOriginal(p.stage, OriginalKey(r))
      \/ UNCHANGED registryVars /\ p.pc = "delOriginals" /\ DeleteOriginals(p.asset)

LEMMA HandleData ==
  ASSUME NEW r \in Requests, Arrive(r) \/ Handle(r) \/ Fail(r) \/ Crash(r)
  PROVE  Data(r)
  <1> USE DEF At, sharedVars, bucketVars, Data
  <1>1. CASE Arrive(r)
    BY <1>1 DEF Arrive, delete, reprocess, ingestStream, completeUpload, replaceSourceStream
  <1>2. CASE \/ \E c \in Contents : Put(r, c)
             \/ RejectDelete(r) \/ DupDelete(r) \/ Clean(r)
    BY <1>2 DEF Put, RejectDelete, DupDelete, Clean, PutStaged, DeleteStaged
  <1>3. CASE \/ Head(r) \/ Validate(r) \/ RejectRead(r) \/ Hash(r) \/ Dedup(r) \/ DupRead(r)
             \/ DupReturn(r) \/ TxRead(r) \/ Return(r) \/ Respond(r) \/ Fail(r) \/ Crash(r)
             \/ \E v \in Verdicts : Scan(r, v)
    BY <1>3 DEF Head, Validate, RejectRead, Hash, Dedup, DupRead, DupReturn, TxRead, Return,
       Respond, Fail, Crash, Scan
  <1>4. CASE RejectWrite(r) \/ DupWrite(r) \/ DelWrite(r)
    BY <1>4 DEF RejectWrite, DupWrite, DelWrite
  <1>5. CASE Reserve(r) \/ DupRelease(r) \/ Release(r) \/ Enqueue(r) \/ Resend(r) \/ DelDerived(r)
    BY <1>5 DEF Reserve, DupRelease, Release, Enqueue, Resend, DelDerived, DeleteDerived
  <1>6. CASE Copy(r)
    BY <1>6 DEF Copy
  <1>7. CASE TxCommit(r)
    BY <1>7 DEF TxCommit
  <1>8. CASE DelOriginals(r)
    BY <1>8 DEF DelOriginals
  <1> QED
    BY <1>1, <1>2, <1>3, <1>4, <1>5, <1>6, <1>7, <1>8 DEF Handle

\* Every step is one of these.
LEMMA NextMoves ==
  ASSUME TypeInv, [Next]_vars
  PROVE  \/ \E r \in Requests : Others(r) /\ Own(r) /\ Data(r)
         \/ /\ UNCHANGED <<req, originals>>
            /\ UNCHANGED registryVars \/ \E a \in AssetIds : Create(a)
  <1>1. CASE UNCHANGED vars
    BY <1>1 DEF vars, sharedVars, bucketVars
  <1>2. CASE Client
    BY <1>2 DEF Client, createUploadTarget, ClientPut, PutStaged, bucketVars
  <1>3. ASSUME NEW r \in Requests, Arrive(r) \/ Handle(r) \/ Fail(r) \/ Crash(r)
        PROVE  Others(r) /\ Own(r) /\ Data(r)
    BY <1>3, HandleData, ArriveOwn, GateOwn, PromoteOwn, RestOwn DEF Handle
  <1> QED
    BY <1>1, <1>2, <1>3 DEF Next

\* The rows before and after: the facts the invariants below turn on.
RowMoves ==
  /\ \A a \in AssetIds : Exists(a) => Exists(a)'
  /\ \A a \in AssetIds : Exists(a) /\ Visible(a)' => Visible(a)
  /\ \A a \in AssetIds : assets[a].current <= assets'[a].current

LEMMA CommitAtHead ==
  ASSUME TypeInv, VersionHistory, SeenInv, NEW r \in Requests, req[r].pc = "txCommit",
         CanInsertVersion(req[r].asset, req[r].seen)
  PROVE  /\ req[r].asset \in AssetIds /\ Exists(req[r].asset)
         /\ req[r].seen = assets[req[r].asset].current /\ req[r].seen + 1 \in Versions
         /\ OriginalKey(r) \in OriginalKeys /\ OriginalKey(r)[1] = req[r].asset
         /\ req[r].hash \in Contents
  <1>1. /\ req[r] \in RequestState /\ RequestOK(req[r], Existing)
        /\ req[r].asset \in AssetIds /\ req[r].asset \in Existing
        /\ req[r].base \in 0..MaxVersion /\ req[r].seen \in 0..MaxVersion
    BY ActingRequest DEF RequestState
  <1>2. req[r].fmt \in Formats /\ req[r].base < MaxVersion /\ req[r].seen < MaxVersion
        /\ req[r].hash \in Contents
    BY <1>1 DEF RequestOK, UploadLabels, Typed, Promoting
  <1>3. req[r].seen + 1 \in Versions /\ req[r].base + 1 \in Versions
    BY <1>1, <1>2 DEF Versions
  <1>4. assets[req[r].asset].current \in 0..MaxVersion
    BY <1>1 DEF TypeInv, TypeOK, RegistryTypeOK, AssetRow
  <1>5. ~(req[r].seen + 1 <= assets[req[r].asset].current)
    BY <1>1, <1>3 DEF VersionHistory, CanInsertVersion
  <1>6. req[r].seen <= assets[req[r].asset].current
    BY DEF SeenInv, At
  <1> QED
    BY <1>1, <1>2, <1>3, <1>4, <1>5, <1>6 DEF OriginalKey, OriginalKeys, Existing

LEMMA RowsMove ==
  ASSUME TypeInv, VersionHistory, SeenInv, [Next]_vars
  PROVE  RowMoves
  <1>0. \A a \in AssetIds : assets[a] \in AssetRow /\ assets[a].current \in Int
    BY DEF TypeInv, TypeOK, RegistryTypeOK, AssetRow
  <1>a. assets \in [AssetIds -> AssetRow]
    BY DEF TypeInv, TypeOK, RegistryTypeOK
  <1>1. CASE UNCHANGED registryVars
    BY <1>0, <1>1 DEF registryVars, RowMoves, Exists, Visible
  <1>2. ASSUME NEW b \in AssetIds, Create(b)
        PROVE  RowMoves
    <2>1. \A a \in AssetIds : assets'[a].current = assets[a].current /\ (a # b => assets'[a] = assets[a])
      BY <1>a, <1>2 DEF Create, AssetRow
    <2> QED
      BY <1>0, <1>2, <2>1 DEF Create, RowMoves, Exists, Visible
  <1>3. ASSUME NEW b \in AssetIds, NEW st \in {"rejected", "deleted"}, RemoveAs(b, st)
        PROVE  RowMoves
    <2>1. assets' = [assets EXCEPT ![b] = [status |-> st, current |-> assets[b].current, gone |-> TRUE]]
      BY <1>3 DEF RemoveAs
    <2>2. /\ assets'[b] = [status |-> st, current |-> assets[b].current, gone |-> TRUE]
          /\ \A a \in AssetIds : a # b => assets'[a] = assets[a]
      BY <1>a, <2>1
    <2> QED
      BY <1>0, <2>2 DEF RowMoves, Exists, Visible
  <1>4. ASSUME NEW r \in Requests, req[r].pc = "txCommit", CanInsertVersion(req[r].asset, req[r].seen),
               CommitVersion(req[r].asset, req[r].seen, OriginalKey(r), req[r].hash)
        PROVE  RowMoves
    <2> DEFINE b == req[r].asset
               row == [status |-> "stored", current |-> req[r].seen + 1, gone |-> assets[b].gone]
    <2>1. b \in AssetIds /\ Exists(b) /\ req[r].seen = assets[b].current
      BY <1>4, CommitAtHead
    <2>2. assets' = [assets EXCEPT ![b] = row]
      BY <1>4 DEF CommitVersion
    <2>3. assets'[b] = row /\ \A a \in AssetIds : a # b => assets'[a] = assets[a]
      BY <1>a, <2>1, <2>2
    <2> QED
      BY <1>0, <2>1, <2>3 DEF RowMoves, Exists, Visible
  <1> QED
    <2>1. \A r \in Requests : req[r].pc # "idle" => req[r].asset \in AssetIds
      BY ActingRequest
    <2> QED
      BY <1>1, <1>2, <1>3, <1>4, <2>1, NextMoves DEF Data

---------------------------------------------------------------------------
(* SafetyInv is inductive, conjunct by conjunct. *)

LEMMA SafetyInit == Init => SafetyInv
  <1> SUFFICES ASSUME Init
               PROVE  SafetyInv
    OBVIOUS
  <1>1. /\ \A a \in AssetIds : assets[a].current = 0
        /\ \A v \in AssetIds \X Versions : versions[v] = None
        /\ \A r \in Requests : req[r].pc = "idle"
    BY DEF Init, RegistryInit, Idle
  <1>2. VersionHistory
    BY <1>1 DEF VersionHistory, Versions
  <1> QED
    BY <1>1, <1>2 DEF SafetyInv, CurrentSourceDurable, OwnSource, SeenInv, CopyInv, AnswerInv,
       At, Single, Duplicate

\* A commit adds the row n + 1 and closes its predecessor, nothing else.
Committed(a, n, key, hash) ==
  /\ versions'[<<a, n + 1>>] =
       [source |-> key, hash |-> hash, createdAt |-> clock, supersededAt |-> 0]
  /\ versions'[<<a, n + 1>>] # None
  /\ \A v \in AssetIds \X Versions :
       v # <<a, n + 1>> =>
         /\ versions'[v] = None <=> versions[v] = None
         /\ versions[v] # None => /\ versions'[v].source = versions[v].source
                                  /\ versions'[v].createdAt = versions[v].createdAt
  /\ \A v \in AssetIds \X Versions :
       v # <<a, n + 1>> /\ v # <<a, n>> => versions'[v] = versions[v]
  /\ \A v \in AssetIds \X Versions :
       v = <<a, n>> /\ versions[v] # None /\ versions[v].supersededAt = 0 =>
         versions'[v].supersededAt = clock
  /\ assets'[a] = [status |-> "stored", current |-> n + 1, gone |-> assets[a].gone]
  /\ \A b \in AssetIds : b # a => assets'[b] = assets[b]

LEMMA CommitRows ==
  ASSUME TypeInv, NEW a \in AssetIds, NEW n \in 0..MaxVersion, n + 1 \in Versions,
         NEW key \in OriginalKeys, NEW hash \in Contents, CommitVersion(a, n, key, hash)
  PROVE  Committed(a, n, key, hash)
  <1> DEFINE new == [source |-> key, hash |-> hash, createdAt |-> clock, supersededAt |-> 0]
             row == [status |-> "stored", current |-> n + 1, gone |-> assets[a].gone]
             old(v) == v = <<a, n>> /\ versions[v] # None /\ versions[v].supersededAt = 0
             closed(v) == [versions[v] EXCEPT !.supersededAt = clock]
  <1>0. /\ assets \in [AssetIds -> AssetRow] /\ clock \in Nat
        /\ versions \in [AssetIds \X Versions -> VersionRow \cup {None}]
    BY DEF TypeInv, TypeOK, RegistryTypeOK
  <1>1. /\ assets' = [assets EXCEPT ![a] = row]
        /\ versions' = [v \in AssetIds \X Versions |->
                          IF v = <<a, n + 1>> THEN new ELSE IF old(v) THEN closed(v) ELSE versions[v]]
    BY <1>0 DEF CommitVersion
  <1>2. <<a, n + 1>> \in AssetIds \X Versions /\ new # None
    <2>1. new \in VersionRow
      BY <1>0 DEF VersionRow
    <2> QED
      BY <2>1
  <1>3. assets'[a] = row /\ \A b \in AssetIds : b # a => assets'[b] = assets[b]
    BY <1>0, <1>1
  <1>4. versions'[<<a, n + 1>>] = new
    BY <1>1, <1>2
  <1>5. \A v \in AssetIds \X Versions : v # <<a, n + 1>> /\ ~old(v) => versions'[v] = versions[v]
    BY <1>1
  <1>6. ASSUME NEW v \in AssetIds \X Versions, v # <<a, n + 1>>, old(v)
        PROVE  /\ versions'[v] # None /\ versions'[v].source = versions[v].source
               /\ versions'[v].createdAt = versions[v].createdAt
               /\ versions'[v].supersededAt = clock
    <2>1. versions'[v] = closed(v)
      BY <1>1, <1>6
    <2>2. versions[v] \in VersionRow
      BY <1>0, <1>6
    <2>3. closed(v) \in VersionRow /\ closed(v).source = versions[v].source
          /\ closed(v).createdAt = versions[v].createdAt /\ closed(v).supersededAt = clock
      BY <1>0, <2>2 DEF VersionRow
    <2> QED
      BY <2>1, <2>3
  <1>7. \A v \in AssetIds \X Versions : old(v) => v # <<a, n + 1>>
    OBVIOUS
  <1> HIDE DEF closed, new
  <1> QED
    <2>1. \A v \in AssetIds \X Versions :
              v # <<a, n + 1>> =>
                /\ versions'[v] = None <=> versions[v] = None
                /\ versions[v] # None => /\ versions'[v].source = versions[v].source
                                         /\ versions'[v].createdAt = versions[v].createdAt
      BY <1>5, <1>6
    <2>2. \A v \in AssetIds \X Versions :
              v # <<a, n + 1>> /\ v # <<a, n>> => versions'[v] = versions[v]
      BY <1>5
    <2>3. \A v \in AssetIds \X Versions :
              v = <<a, n>> /\ versions[v] # None /\ versions[v].supersededAt = 0 =>
                versions'[v].supersededAt = clock
      BY <1>6, <1>7
    <2> QED
      BY <1>2, <1>3, <1>4, <2>1, <2>2, <2>3 DEF new, Committed

\* The only step that changes a version row is a commit on the head.
LEMMA RowCases ==
  ASSUME TypeInv, SafetyInv, [Next]_vars
  PROVE  \/ versions' = versions /\ \A a \in AssetIds : assets'[a].current = assets[a].current
         \/ \E r \in Requests :
              /\ req[r].pc = "txCommit" /\ CanInsertVersion(req[r].asset, req[r].seen)
              /\ CommitVersion(req[r].asset, req[r].seen, OriginalKey(r), req[r].hash)
              /\ UNCHANGED originals
  <1>a. assets \in [AssetIds -> AssetRow]
    BY DEF TypeInv, TypeOK, RegistryTypeOK
  <1>1. ASSUME NEW b \in AssetIds, Create(b)
        PROVE  versions' = versions /\ \A a \in AssetIds : assets'[a].current = assets[a].current
    BY <1>a, <1>1 DEF Create, AssetRow
  <1>2. ASSUME NEW b \in AssetIds, NEW st \in {"rejected", "deleted"}, RemoveAs(b, st)
        PROVE  versions' = versions /\ \A a \in AssetIds : assets'[a].current = assets[a].current
    BY <1>a, <1>2 DEF RemoveAs, AssetRow
  <1>3. UNCHANGED registryVars =>
          versions' = versions /\ \A a \in AssetIds : assets'[a].current = assets[a].current
    BY DEF registryVars
  <1>4. \A r \in Requests : req[r].pc # "idle" => req[r].asset \in AssetIds
    BY ActingRequest
  <1> QED
    BY <1>1, <1>2, <1>3, <1>4, NextMoves DEF Data

LEMMA HistoryStep ==
  ASSUME TypeInv, SafetyInv, [Next]_vars
  PROVE  VersionHistory' /\ OwnSource'
  <1>0. VersionHistory /\ OwnSource /\ SeenInv
    BY DEF SafetyInv
  <1>1. CASE versions' = versions /\ \A a \in AssetIds : assets'[a].current = assets[a].current
    BY <1>0, <1>1 DEF VersionHistory, OwnSource
  <1>2. ASSUME NEW r \in Requests, req[r].pc = "txCommit",
               CanInsertVersion(req[r].asset, req[r].seen),
               CommitVersion(req[r].asset, req[r].seen, OriginalKey(r), req[r].hash)
        PROVE  VersionHistory' /\ OwnSource'
    <2> DEFINE b == req[r].asset
               m == req[r].seen
    <2>1. /\ b \in AssetIds /\ m = assets[b].current /\ m + 1 \in Versions
          /\ OriginalKey(r) \in OriginalKeys /\ OriginalKey(r)[1] = b /\ req[r].hash \in Contents
      BY <1>0, <1>2, CommitAtHead
    <2>2. m \in 0..MaxVersion /\ \A a \in AssetIds : assets[a].current \in 0..MaxVersion
      BY <2>1 DEF TypeInv, TypeOK, RegistryTypeOK, AssetRow
    <2>3. Committed(b, m, OriginalKey(r), req[r].hash)
      BY <1>2, <2>1, <2>2, CommitRows
    <2>4. OwnSource'
      BY <1>0, <2>1, <2>3 DEF Committed, OwnSource
    <2>5. assets'[b].current = m + 1
      BY <2>3 DEF Committed
    <2>6. ASSUME NEW a \in AssetIds, NEW n \in Versions
          PROVE  /\ versions'[<<a, n>>] # None <=> n <= assets'[a].current
                 /\ versions'[<<a, n>>] # None =>
                      versions'[<<a, n>>].supersededAt =
                        IF n = assets'[a].current THEN 0 ELSE versions'[<<a, n + 1>>].createdAt
      <3>0. /\ versions[<<a, n>>] # None <=> n <= assets[a].current
            /\ versions[<<a, n>>] # None =>
                 versions[<<a, n>>].supersededAt =
                   IF n = assets[a].current THEN 0 ELSE versions[<<a, n + 1>>].createdAt
        BY <1>0 DEF VersionHistory
      <3>n. n \in Int /\ m \in Int /\ assets[a].current \in Int
        BY <2>2 DEF Versions
      <3>1. CASE a # b
        <4>1. assets'[a] = assets[a] /\ versions'[<<a, n>>] = versions[<<a, n>>]
          BY <2>3, <3>1 DEF Committed
        <4>2. ASSUME versions[<<a, n>>] # None, n # assets[a].current
              PROVE  versions'[<<a, n + 1>>] = versions[<<a, n + 1>>]
          <5>1. n + 1 <= assets[a].current /\ n + 1 \in Versions
            BY <2>2, <3>0, <3>n, <4>2 DEF Versions
          <5> QED
            BY <2>3, <3>1, <5>1 DEF Committed
        <4> QED
          BY <3>0, <4>1, <4>2
      <3>2. CASE a = b /\ n = m + 1
        <4>1. versions'[<<a, n>>] # None /\ versions'[<<a, n>>].supersededAt = 0
          BY <2>3, <3>2 DEF Committed
        <4>2. n = assets'[a].current /\ n <= n
          BY <2>5, <3>2, <3>n
        <4> QED
          BY <4>1, <4>2
      <3>3. CASE a = b /\ n = m
        <4>1. n # m + 1 /\ n <= m + 1
          BY <3>n, <3>3
        <4>2. <<a, n>> # <<b, m + 1>> /\ <<a, n>> = <<b, m>>
          BY <3>3, <4>1
        <4>3. versions[<<a, n>>] # None /\ versions[<<a, n>>].supersededAt = 0
          BY <2>1, <3>0, <3>n, <3>3
        <4>4. versions'[<<a, n>>] # None /\ versions'[<<a, n>>].supersededAt = clock
          BY <2>3, <4>2, <4>3 DEF Committed
        <4>5. versions'[<<a, n + 1>>].createdAt = clock
          BY <2>3, <3>3 DEF Committed
        <4> QED
          BY <2>5, <3>3, <4>1, <4>4, <4>5
      <3>4. CASE a = b /\ n # m /\ n # m + 1
        <4>1. versions'[<<a, n>>] = versions[<<a, n>>]
          BY <2>3, <3>4 DEF Committed
        <4>2. assets[a].current = m /\ assets'[a].current = m + 1
          BY <2>1, <2>5, <3>4
        <4>3. (n <= m <=> n <= m + 1) /\ n # m /\ n # m + 1
          BY <3>n, <3>4
        <4>4. ASSUME versions[<<a, n>>] # None
              PROVE  versions'[<<a, n + 1>>].createdAt = versions[<<a, n + 1>>].createdAt
          <5>1. n <= m /\ n + 1 <= m /\ n + 1 # m + 1
            BY <3>0, <3>n, <3>4, <4>2, <4>4, SMTT(30)
          <5>2. n + 1 \in Versions
            BY <2>2, <3>n, <5>1 DEF Versions
          <5>3. versions[<<a, n + 1>>] # None
            BY <1>0, <4>2, <5>1, <5>2 DEF VersionHistory
          <5>4. <<a, n + 1>> # <<b, m + 1>>
            BY <5>1
          <5> QED
            BY <2>3, <5>2, <5>3, <5>4 DEF Committed
        <4> QED
          BY <3>0, <4>1, <4>2, <4>3, <4>4
      <3> QED
        BY <3>1, <3>2, <3>3, <3>4
    <2>7. VersionHistory'
      BY <2>6 DEF VersionHistory
    <2> QED
      BY <2>4, <2>7
  <1> QED
    BY <1>1, <1>2, RowCases

LEMMA DurableStep ==
  ASSUME TypeInv, SafetyInv, [Next]_vars
  PROVE  CurrentSourceDurable'
  <1>0. /\ CurrentSourceDurable /\ OwnSource /\ VersionHistory /\ SeenInv /\ CopyInv
        /\ RowMoves /\ VersionHistory' /\ OwnSource'
    BY RowsMove, HistoryStep DEF SafetyInv
  <1>a. \A a \in AssetIds : assets[a].current \in 0..MaxVersion
    BY DEF TypeInv, TypeOK, RegistryTypeOK, AssetRow
  <1>b. \A v \in AssetIds \X Versions : versions[v] # None => versions[v].source \in OriginalKeys
    BY DEF TypeInv, TypeOK, RegistryTypeOK, VersionRow
  <1>1. SUFFICES ASSUME NEW a \in AssetIds, Visible(a)', assets'[a].current > 0
                 PROVE  HasSource(a)'
    BY DEF CurrentSourceDurable
  \* The object a visible asset's current row names outlives the step.
  <1>2. ASSUME versions' = versions, assets'[a].current = assets[a].current, Visible(a),
               NEW r \in Requests, UNCHANGED originals \/ Data(r)
        PROVE  HasSource(a)'
    <2> DEFINE o == versions[<<a, assets[a].current>>].source
    <2>1. versions[<<a, assets[a].current>>] # None /\ originals[o] # None
      BY <1>0, <1>1, <1>2 DEF CurrentSourceDurable, HasSource, Stored
    <2>2. <<a, assets[a].current>> \in AssetIds \X Versions
      BY <1>1, <1>2, <1>a DEF Versions
    <2>3. o \in OriginalKeys /\ o[1] = a
      BY <1>0, <1>b, <2>1, <2>2 DEF OwnSource
    <2>4. originals'[o] # None
      <3> HIDE DEF o
      <3>1. CASE UNCHANGED originals
        BY <2>1, <3>1
      <3>2. CASE req[r].pc = "copy" /\ Staged(r) # None /\ CopyToOriginal(req[r].stage, OriginalKey(r))
        BY <2>1, <2>3, <3>2 DEF CopyToOriginal, Staged, TypeInv, TypeOK, BucketTypeOK
      <3>3. CASE req[r].pc = "delOriginals" /\ DeleteOriginals(req[r].asset)
        <4>1. req[r].asset # a
          BY <1>0, <1>2, <3>3 DEF CopyInv
        <4> QED
          BY <2>1, <2>3, <3>3, <4>1 DEF DeleteOriginals
      <3> QED
        BY <1>2, <3>1, <3>2, <3>3 DEF Data
    <2> QED
      BY <1>2, <2>1, <2>4 DEF HasSource, Stored
  <1>3. ASSUME NEW r \in Requests, req[r].pc = "txCommit",
               CanInsertVersion(req[r].asset, req[r].seen),
               CommitVersion(req[r].asset, req[r].seen, OriginalKey(r), req[r].hash),
               UNCHANGED originals
        PROVE  HasSource(a)'
    <2> DEFINE b == req[r].asset
               m == req[r].seen
    <2>1. /\ b \in AssetIds /\ m = assets[b].current /\ m + 1 \in Versions /\ Exists(b)
          /\ OriginalKey(r) \in OriginalKeys /\ req[r].hash \in Contents
      BY <1>0, <1>3, CommitAtHead
    <2>2. m \in 0..MaxVersion
      BY <1>a, <2>1
    <2>3. Committed(b, m, OriginalKey(r), req[r].hash)
      BY <1>3, <2>1, <2>2, CommitRows
    <2>4. CASE a = b
      <3>1. Visible(b)
        BY <1>0, <1>1, <2>1, <2>4 DEF RowMoves
      <3>2. originals[OriginalKey(r)] # None
        BY <1>0, <1>3, <3>1 DEF CopyInv, Stored
      <3>3. assets'[a].current = m + 1
        BY <2>3, <2>4 DEF Committed
      <3> QED
        BY <1>3, <2>3, <2>4, <3>2, <3>3 DEF Committed, HasSource, Stored
    <2>5. CASE a # b
      <3>1. assets'[a] = assets[a]
        BY <2>3, <2>5 DEF Committed
      <3>2. Visible(a) /\ assets[a].current > 0
        BY <1>1, <3>1 DEF Visible, Exists
      <3>3. <<a, assets[a].current>> \in AssetIds \X Versions
        BY <1>a, <3>2 DEF Versions
      <3>4. versions[<<a, assets[a].current>>] # None
            /\ originals[versions[<<a, assets[a].current>>].source] # None
        BY <1>0, <3>2 DEF CurrentSourceDurable, HasSource, Stored
      <3> QED
        BY <1>3, <2>3, <2>5, <3>1, <3>3, <3>4 DEF Committed, HasSource, Stored
    <2> QED
      BY <2>4, <2>5
  <1>4. ASSUME versions' = versions, \A c \in AssetIds : assets'[c].current = assets[c].current
        PROVE  HasSource(a)'
    <2>1. Exists(a)
      <3>1. assets[a].current > 0
        BY <1>1, <1>4
      <3> QED
        BY <3>1 DEF TypeInv, FreshRows
    <2>2. Visible(a)
      BY <1>0, <1>1, <2>1 DEF RowMoves
    <2>3. \/ \E r \in Requests : Data(r)
          \/ UNCHANGED originals
      BY NextMoves
    <2>4. CASE \E r \in Requests : Data(r)
      BY <1>2, <1>4, <2>2, <2>4
    <2>5. CASE UNCHANGED originals
      <3>1. versions[<<a, assets[a].current>>] # None
            /\ originals[versions[<<a, assets[a].current>>].source] # None
        BY <1>0, <1>1, <1>4, <2>2 DEF CurrentSourceDurable, HasSource, Stored
      <3> QED
        BY <1>4, <2>5, <3>1 DEF HasSource, Stored
    <2> QED
      BY <2>3, <2>4, <2>5
  <1> QED
    BY <1>3, <1>4, RowCases

LEMMA RequestStep ==
  ASSUME TypeInv, SafetyInv, [Next]_vars
  PROVE  SeenInv' /\ CopyInv' /\ AnswerInv'
  <1>0. /\ VersionHistory /\ SeenInv /\ CopyInv /\ AnswerInv
        /\ RowMoves
    BY RowsMove DEF SafetyInv
  <1>a. \A a \in AssetIds : assets[a].current \in Int
    BY DEF TypeInv, TypeOK, RegistryTypeOK, AssetRow
  <1>b. \A s \in Requests : req[s].pc # "idle" => req[s].asset \in AssetIds /\ Exists(req[s].asset)
    BY ActingRequest DEF Existing
  <1>c. TypeInv'
    BY TypeStep
  <1>d. /\ \A a \in AssetIds : assets'[a].current \in Int
        /\ req' \in [Requests -> RequestState]
        /\ \A s \in Requests : req'[s].seen \in Int /\ req[s].seen \in Int
    BY <1>c DEF TypeInv, TypeOK, RegistryTypeOK, AssetRow, RequestState
  \* The original a visible asset's promotion waits for is not deleted.
  <1>e. ASSUME NEW s \in Requests, req[s].pc \in {"txRead", "txCommit"}, Visible(req[s].asset)
        PROVE  originals'[OriginalKey(s)] # None
    <2>0. OriginalKey(s) \in OriginalKeys /\ OriginalKey(s)[1] = req[s].asset
      <3>1. req[s] \in RequestState /\ RequestOK(req[s], Existing) /\ req[s].asset \in AssetIds
        BY <1>e, ActingRequest
      <3>2. req[s].fmt \in Formats /\ req[s].base + 1 \in Versions
        BY <1>e, <3>1 DEF RequestOK, RequestState, UploadLabels, Typed, Promoting, Versions
      <3> QED
        BY <3>1, <3>2 DEF OriginalKey, OriginalKeys
    <2>1. Stored(OriginalKey(s))
      BY <1>0, <1>e DEF CopyInv
    <2>2. CASE UNCHANGED originals
      BY <2>1, <2>2 DEF Stored
    <2>3. ASSUME NEW r \in Requests, Data(r), ~UNCHANGED originals
          PROVE  originals'[OriginalKey(s)] # None
      <3>1. CASE req[r].pc = "copy" /\ Staged(r) # None /\ CopyToOriginal(req[r].stage, OriginalKey(r))
        BY <2>1, <2>0, <3>1 DEF Stored, CopyToOriginal, Staged, TypeInv, TypeOK, BucketTypeOK
      <3>2. CASE req[r].pc = "delOriginals" /\ DeleteOriginals(req[r].asset)
        <4>1. req[r].asset # req[s].asset
          BY <1>0, <1>e, <3>2 DEF CopyInv
        <4> QED
          BY <2>0, <2>1, <3>2, <4>1 DEF DeleteOriginals, Stored
      <3> QED
        BY <2>3, <3>1, <3>2 DEF Data
    <2> QED
      BY <2>2, <2>3, NextMoves
  \* What SeenInv, CopyInv and AnswerInv say of one request.
  <1> DEFINE Seen(s) == At(s, "txCommit") => req[s].seen <= assets[req[s].asset].current
             Copied(s) ==
               /\ req[s].pc \in {"txRead", "txCommit"} /\ Visible(req[s].asset) => Stored(OriginalKey(s))
               /\ req[s].pc \in {"delOriginals", "delDerived"} => ~Visible(req[s].asset)
             Answer(s) ==
               /\ req[s].pc \in {"enqueue", "clean", "return"} => assets[req[s].asset].current > 0
               /\ req[s].pc \in Duplicate =>
                    req[s].twin \in AssetIds /\ assets[req[s].twin].current > 0
               /\ req[s].pc \in Single => req[s].twin = None
  <1>1. ASSUME NEW s \in Requests, req'[s] = req[s]
        PROVE  Seen(s)' /\ Copied(s)' /\ Answer(s)'
    <2>1. Seen(s)'
      <3>1. At(s, "txCommit") => /\ req[s].asset \in AssetIds
                                 /\ req[s].seen <= assets[req[s].asset].current
                                 /\ assets[req[s].asset].current <= assets'[req[s].asset].current
        BY <1>0, <1>b DEF SeenInv, RowMoves, At
      <3> QED
        BY <1>1, <1>a, <1>d, <3>1 DEF At
    <2>2. Copied(s)'
      <3>1. req[s].pc # "idle" /\ Visible(req[s].asset)' => Visible(req[s].asset)
        BY <1>0, <1>b, <1>1 DEF RowMoves
      <3>2. OriginalKey(s)' = OriginalKey(s)
        BY <1>1 DEF OriginalKey
      <3>3. req[s].pc \in {"delOriginals", "delDerived"} => ~Visible(req[s].asset)
        BY <1>0 DEF CopyInv
      <3> QED
        BY <1>1, <1>e, <3>1, <3>2, <3>3 DEF Stored
    <2>3. Answer(s)'
      <3>1. \A a \in AssetIds : assets[a].current > 0 => assets'[a].current > 0
        BY <1>0, <1>a, <1>d DEF RowMoves
      <3>2. req[s].pc \in {"enqueue", "clean", "return"} => req[s].asset \in AssetIds
        BY <1>b
      <3> QED
        BY <1>0, <1>1, <3>1, <3>2 DEF AnswerInv
    <2> QED
      BY <2>1, <2>2, <2>3
  <1>2. ASSUME NEW r \in Requests, Others(r), Own(r), Data(r)
        PROVE  Seen(r)' /\ Copied(r)' /\ Answer(r)'
    <2>1. Seen(r)'
      <3>1. req'[r].pc = "txCommit" =>
              /\ req[r].pc = "txRead" /\ req'[r].asset = req[r].asset
              /\ req'[r].seen = assets[req[r].asset].current
              /\ assets' = assets
        BY <1>2 DEF Own, registryVars
      <3> QED
        BY <1>a, <1>b, <3>1 DEF At
    <2>2. Copied(r)'
      <3>1. ASSUME req'[r].pc = "txRead"
            PROVE  Stored(OriginalKey(r))'
        <4>1. /\ Staged(r) # None /\ CopyToOriginal(req[r].stage, OriginalKey(r))
              /\ req[r].pc = "copy" /\ Keeps(req'[r], req[r])
          BY <1>2, <3>1 DEF Own
        <4>2. OriginalKey(r)' = OriginalKey(r)
          BY <4>1 DEF Keeps, OriginalKey
        <4>3. OriginalKey(r) \in OriginalKeys
          <5>1. req[r] \in RequestState /\ RequestOK(req[r], Existing) /\ req[r].asset \in AssetIds
            BY <4>1, ActingRequest
          <5>2. req[r].fmt \in Formats /\ req[r].base + 1 \in Versions
            BY <4>1, <5>1 DEF RequestOK, RequestState, UploadLabels, Typed, Promoting, Versions
          <5> QED
            BY <5>1, <5>2 DEF OriginalKey, OriginalKeys
        <4> QED
          BY <4>1, <4>2, <4>3 DEF Stored, Staged, CopyToOriginal, TypeInv, TypeOK, BucketTypeOK
      <3>2. ASSUME req'[r].pc = "txCommit", Visible(req[r].asset)'
            PROVE  Stored(OriginalKey(r))'
        <4>1. /\ req[r].pc = "txRead" /\ req[r].asset = req'[r].asset /\ req[r].base = req'[r].base
              /\ req[r].fmt = req'[r].fmt /\ assets' = assets /\ originals' = originals
          BY <1>2, <3>2 DEF Own, registryVars
        <4>2. OriginalKey(r)' = OriginalKey(r) /\ Visible(req[r].asset)
          BY <3>2, <4>1 DEF OriginalKey, Visible, Exists
        <4> QED
          BY <1>0, <4>1, <4>2 DEF CopyInv, Stored
      <3>3. ASSUME req'[r].pc = "delOriginals"
            PROVE  ~Visible(req[r].asset)'
        <4>1. /\ req[r].pc = "delWrite" /\ req'[r].asset = req[r].asset
              /\ RemoveAs(req[r].asset, "deleted")
          BY <1>2, <3>3 DEF Own, Keeps
        <4>2. req[r].asset \in AssetIds /\ assets \in [AssetIds -> AssetRow]
          BY <1>b, <4>1 DEF TypeInv, TypeOK, RegistryTypeOK
        <4>3. assets'[req[r].asset].gone
          BY <4>1, <4>2 DEF RemoveAs
        <4> QED
          BY <4>1, <4>3 DEF Visible
      <3>4. ASSUME req'[r].pc = "delDerived"
            PROVE  ~Visible(req[r].asset)'
        <4>1. req[r].pc = "delOriginals" /\ req'[r].asset = req[r].asset /\ assets' = assets
          BY <1>2, <3>4 DEF Own, Keeps, registryVars
        <4> QED
          BY <1>0, <4>1 DEF CopyInv, Visible, Exists
      <3> QED
        BY <3>1, <3>2, <3>3, <3>4
    <2>3. Answer(r)'
      <3>1. ASSUME req'[r].pc = "enqueue"
            PROVE  assets'[req'[r].asset].current > 0
        <4>1. /\ req[r].pc = "txCommit" /\ req'[r].asset = req[r].asset
              /\ CanInsertVersion(req[r].asset, req[r].seen)
              /\ CommitVersion(req[r].asset, req[r].seen, OriginalKey(r), req[r].hash)
          BY <1>2, <3>1 DEF Own, Keeps
        <4>2. /\ req[r].asset \in AssetIds /\ req[r].seen = assets[req[r].asset].current
              /\ req[r].seen + 1 \in Versions
              /\ OriginalKey(r) \in OriginalKeys /\ req[r].hash \in Contents
          BY <1>0, <4>1, CommitAtHead
        <4>3. req[r].seen \in 0..MaxVersion
          BY <4>2 DEF TypeInv, TypeOK, RegistryTypeOK, AssetRow
        <4>4. Committed(req[r].asset, req[r].seen, OriginalKey(r), req[r].hash)
          BY <4>1, <4>2, <4>3, CommitRows
        <4>5. assets'[req[r].asset].current = req[r].seen + 1
          BY <4>4 DEF Committed
        <4> QED
          BY <4>1, <4>3, <4>5
      <3>2. ASSUME req'[r].pc \in {"clean", "return"}
            PROVE  assets'[req'[r].asset].current > 0
        <4>1. /\ req[r].pc \in {"enqueue", "clean"} /\ req'[r].asset = req[r].asset
              /\ assets' = assets
          BY <1>2, <3>2 DEF Own, Keeps, registryVars
        <4> QED
          BY <1>0, <4>1 DEF AnswerInv
      <3>3. ASSUME req'[r].pc = "dupDelete"
            PROVE  req'[r].twin \in AssetIds /\ assets'[req'[r].twin].current > 0
        <4>1. PICK v \in Twins(req[r].hash) : req'[r].twin = v[1]
          BY <1>2, <3>3 DEF Own
        <4>2. assets' = assets
          BY <1>2, <3>3 DEF Own, registryVars
        <4>3. v \in AssetIds \X Versions /\ assets[v[1]].current = v[2]
          BY DEF Twins, Matches, TypeInv, TypeOK, RegistryTypeOK
        <4> QED
          BY <4>1, <4>2, <4>3 DEF Versions
      <3>4. ASSUME req'[r].pc \in Duplicate \ {"dupDelete"}
            PROVE  req'[r].twin \in AssetIds /\ assets'[req'[r].twin].current > 0
        <4>1. req[r].pc \in Duplicate /\ req'[r].twin = req[r].twin
          BY <1>2, <3>4 DEF Own, Keeps
        <4>2. req[r].twin \in AssetIds /\ assets[req[r].twin].current > 0
          BY <1>0, <4>1 DEF AnswerInv
        <4>3. assets[req[r].twin].current <= assets'[req[r].twin].current
          BY <1>0, <4>2 DEF RowMoves
        <4> QED
          BY <1>a, <1>d, <4>1, <4>2, <4>3
      <3>5. req'[r].pc \in Single => req'[r].twin = None
        BY <1>0, <1>2 DEF Own, AnswerInv
      <3> QED
        BY <3>1, <3>2, <3>3, <3>4, <3>5
    <2> QED
      BY <2>1, <2>2, <2>3
  <1>3. ASSUME NEW s \in Requests
        PROVE  Seen(s)' /\ Copied(s)' /\ Answer(s)'
    <2>1. CASE UNCHANGED req
      BY <1>1, <2>1
    <2>2. ASSUME NEW r \in Requests, Others(r), Own(r), Data(r)
          PROVE  Seen(s)' /\ Copied(s)' /\ Answer(s)'
      <3>1. CASE s = r
        BY <1>2, <2>2, <3>1
      <3>2. CASE s # r
        BY <1>1, <2>2, <3>2 DEF Others
      <3> QED
        BY <3>1, <3>2
    <2> QED
      BY <2>1, <2>2, NextMoves
  <1> QED
    BY <1>3 DEF SeenInv, CopyInv, AnswerInv

LEMMA SafetyStep == TypeInv /\ SafetyInv /\ [Next]_vars => SafetyInv'
  BY HistoryStep, DurableStep, RequestStep DEF SafetyInv

---------------------------------------------------------------------------
(* Theorems. *)

LEMMA SpecInv == Spec => [](TypeInv /\ SafetyInv)
  BY TypeInit, TypeStep, SafetyInit, SafetyStep, PTL DEF Spec

\* Version history has no hole and no second head, whatever transactions of
\* addVersion race on an asset and wherever they are cut off.
THEOREM VersionHistoryCorrect == Spec => []VersionHistory
  <1>1. SafetyInv => VersionHistory
    BY DEF SafetyInv
  <1> QED
    BY <1>1, SpecInv, PTL

\* The source of every asset in sight is in the bucket: no crash, failed call
\* or concurrent delete leaves a visible version without its original.
THEOREM CurrentSourceDurableCorrect == Spec => []CurrentSourceDurable
  <1>1. SafetyInv => CurrentSourceDurable
    BY DEF SafetyInv
  <1> QED
    BY <1>1, SpecInv, PTL

LEMMA AckedStep ==
  ASSUME TypeInv, SafetyInv, [Next]_vars, NEW s \in Requests,
         ~At(s, "acked"), At(s, "acked")'
  PROVE  Servable(Answered(s))'
  <1>1. PICK r \in Requests : Others(r) /\ Own(r)
    BY NextMoves DEF At
  <1>2. s = r
    BY <1>1 DEF Others, At
  <1>3. /\ Keeps(req'[s], req[s]) /\ UNCHANGED <<registryVars, originals>>
        /\ \/ req[s].pc = "return" /\ Visible(req[s].asset)
           \/ req[s].pc = "dupReturn" /\ Visible(req[s].twin)
    BY <1>1, <1>2 DEF Own, At
  <1>4. /\ req[s].pc = "return" => assets[req[s].asset].current > 0 /\ req[s].twin = None
        /\ req[s].pc = "dupReturn" => req[s].twin \in AssetIds /\ assets[req[s].twin].current > 0
    BY DEF SafetyInv, AnswerInv, Single, Duplicate
  <1>5. Answered(s)' = Answered(s)
    BY <1>3 DEF Keeps, Answered
  <1>6. Answered(s) \in AssetIds /\ Visible(Answered(s)) /\ assets[Answered(s)].current > 0
    BY <1>3, <1>4, ActingRequest DEF Answered
  <1>7. HasSource(Answered(s))
    BY <1>6 DEF SafetyInv, CurrentSourceDurable
  <1> QED
    BY <1>3, <1>5, <1>6, <1>7 DEF Servable, HasSource, Visible, Exists, Stored, registryVars

\* No answer names an asset without a visible, durable source.
THEOREM AckedIsDurableCorrect == Spec => AckedIsDurable
  <1>1. TypeInv /\ SafetyInv /\ [Next]_vars =>
          [\A r \in Requests : ~At(r, "acked") /\ At(r, "acked")' => Servable(Answered(r))']_vars
    BY AckedStep
  <1> QED
    BY <1>1, SpecInv, PTL DEF Spec, AckedIsDurable

---------------------------------------------------------------------------
(* Refinement of AssetLife. *)

LEMMA LifeInit == Init => Life!Init
  BY DEF Init, RegistryInit, Life!Init, lifeOf, shownOf, Exists, Visible

\* Life of one id, in terms of its row.
LEMMA LifeStep ==
  ASSUME TypeInv, SafetyInv, [Next]_vars
  PROVE  [Life!Next]_(Life!lifeVars)
  <1>0. VersionHistory /\ SeenInv
    BY DEF SafetyInv
  <1>a. /\ assets \in [AssetIds -> AssetRow]
        /\ \A a \in AssetIds : ~Exists(a) => assets[a].current = 0 /\ ~assets[a].gone
        /\ \A a \in AssetIds : assets[a].current \in 0..MaxVersion
    BY DEF TypeInv, TypeOK, RegistryTypeOK, FreshRows, AssetRow
  <1>1. ASSUME UNCHANGED assets
        PROVE  UNCHANGED Life!lifeVars
    BY <1>1 DEF Life!lifeVars, lifeOf, shownOf, Exists, Visible
  <1>2. ASSUME NEW a \in AssetIds, Create(a)
        PROVE  Life!ReserveId(a)
    <2>1. /\ assets[a].current = 0 /\ ~assets[a].gone /\ ~Exists(a)
          /\ assets'[a].status = "pending_upload" /\ assets'[a].current = 0 /\ ~assets'[a].gone
          /\ \A b \in AssetIds : b # a => assets'[b] = assets[b]
      BY <1>a, <1>2 DEF Create, AssetRow
    <2>2. lifeOf' = [lifeOf EXCEPT ![a] = "reserved"] /\ lifeOf[a] = "unknown"
      BY <2>1 DEF lifeOf, Exists
    <2>3. shownOf' = shownOf
      BY <2>1 DEF shownOf, Exists, Visible
    <2> QED
      BY <2>2, <2>3 DEF Life!ReserveId
  <1>3. ASSUME NEW a \in AssetIds, Exists(a), NEW st \in {"rejected", "deleted"}, RemoveAs(a, st)
        PROVE  Life!Remove(a) \/ UNCHANGED Life!lifeVars
    <2>1. /\ assets'[a].status = st /\ assets'[a].gone
          /\ \A b \in AssetIds : b # a => assets'[b] = assets[b]
      BY <1>a, <1>3 DEF RemoveAs
    <2>2. CASE assets[a].gone
      <3>1. lifeOf' = lifeOf
        BY <1>3, <2>1, <2>2 DEF lifeOf, Exists
      <3>2. shownOf' = shownOf
        BY <1>3, <2>1, <2>2 DEF shownOf, Exists, Visible
      <3> QED
        BY <3>1, <3>2 DEF Life!lifeVars
    <2>3. CASE ~assets[a].gone
      <3>1. lifeOf' = [lifeOf EXCEPT ![a] = "gone"] /\ lifeOf[a] \in {"reserved", "live"}
        BY <1>3, <2>1, <2>3 DEF lifeOf, Exists
      <3>2. shownOf' = [shownOf EXCEPT ![a] = 0]
        BY <1>3, <2>1 DEF shownOf, Exists, Visible
      <3> QED
        BY <3>1, <3>2 DEF Life!Remove
    <2> QED
      BY <2>2, <2>3
  <1>4. ASSUME NEW r \in Requests, req[r].pc = "txCommit", CanInsertVersion(req[r].asset, req[r].seen),
               CommitVersion(req[r].asset, req[r].seen, OriginalKey(r), req[r].hash)
        PROVE  Life!Publish(req[r].asset) \/ UNCHANGED Life!lifeVars
    <2> DEFINE a == req[r].asset
               n == assets[a].current
    <2>1. /\ a \in AssetIds /\ Exists(a) /\ req[r].seen = n /\ n + 1 \in Versions /\ n \in 0..MaxVersion
          /\ OriginalKey(r) \in OriginalKeys /\ req[r].hash \in Contents
      BY <1>0, <1>a, <1>4, CommitAtHead
    <2>2. Committed(a, n, OriginalKey(r), req[r].hash)
      BY <1>4, <2>1, CommitRows
    <2>3. /\ assets'[a] = [status |-> "stored", current |-> n + 1, gone |-> assets[a].gone]
          /\ \A b \in AssetIds : b # a => assets'[b] = assets[b]
      BY <2>2 DEF Committed
    <2>4. n + 1 # 0
      BY <2>1
    <2>5. CASE assets[a].gone
      <3>1. lifeOf' = lifeOf /\ shownOf' = shownOf
        BY <2>1, <2>3, <2>5 DEF lifeOf, shownOf, Exists, Visible
      <3> QED
        BY <3>1 DEF Life!lifeVars
    <2>6. CASE ~assets[a].gone
      <3>1. lifeOf' = [lifeOf EXCEPT ![a] = "live"] /\ lifeOf[a] \in {"reserved", "live"}
        BY <2>1, <2>3, <2>4, <2>6 DEF lifeOf, Exists
      <3>2. shownOf' = [shownOf EXCEPT ![a] = n + 1] /\ shownOf[a] = n
        BY <2>1, <2>3, <2>6 DEF shownOf, Exists, Visible
      <3> QED
        BY <3>1, <3>2 DEF Life!Publish
    <2> QED
      BY <2>5, <2>6
  <1>5. \A r \in Requests : req[r].pc # "idle" => req[r].asset \in AssetIds /\ Exists(req[r].asset)
    BY ActingRequest DEF Existing
  <1>6. UNCHANGED registryVars => UNCHANGED assets
    BY DEF registryVars
  <1>7. \/ UNCHANGED assets
        \/ \E a \in AssetIds : Create(a)
        \/ \E a \in AssetIds, st \in {"rejected", "deleted"} : Exists(a) /\ RemoveAs(a, st)
        \/ \E r \in Requests :
             /\ req[r].pc = "txCommit" /\ CanInsertVersion(req[r].asset, req[r].seen)
             /\ CommitVersion(req[r].asset, req[r].seen, OriginalKey(r), req[r].hash)
    BY <1>5, <1>6, NextMoves DEF Data
  <1>8. CASE \E r \in Requests :
               /\ req[r].pc = "txCommit" /\ CanInsertVersion(req[r].asset, req[r].seen)
               /\ CommitVersion(req[r].asset, req[r].seen, OriginalKey(r), req[r].hash)
    <2>1. PICK r \in Requests :
               /\ req[r].pc = "txCommit" /\ CanInsertVersion(req[r].asset, req[r].seen)
               /\ CommitVersion(req[r].asset, req[r].seen, OriginalKey(r), req[r].hash)
      BY <1>8
    <2>2. req[r].asset \in AssetIds
      BY <1>5, <2>1
    <2> QED
      BY <1>4, <2>1, <2>2 DEF Life!Next
  <1> QED
    BY <1>1, <1>2, <1>3, <1>7, <1>8 DEF Life!Next

\* The writers implement AssetLife.
THEOREM AssetLifeImplemented == Spec => ImplementsAssetLife
  <1>1. TypeInv /\ SafetyInv /\ [Next]_vars => [Life!Next]_(Life!lifeVars)
    BY LifeStep
  <1> QED
    BY <1>1, LifeInit, SpecInv, PTL DEF Spec, Life!Spec, ImplementsAssetLife

---------------------------------------------------------------------------
(* Quota. *)

LEMMA QuotaMoves ==
  ASSUME TypeInv, [Next]_vars
  PROVE  \/ UNCHANGED quotaVars
         \/ \E k \in ApiKeys, b \in Nat : reserveQuota(k, b) \/ releaseQuota(k, b)
  <1> USE DEF At
  <1>1. CASE UNCHANGED vars
    BY <1>1 DEF vars
  <1>2. CASE Client
    BY <1>2 DEF Client, createUploadTarget, ClientPut
  <1>3. ASSUME NEW r \in Requests, Arrive(r) \/ Fail(r) \/ Crash(r)
        PROVE  UNCHANGED quotaVars
    BY <1>3 DEF Arrive, Fail, Crash, delete, reprocess, ingestStream, completeUpload, replaceSourceStream
  <1>4. ASSUME NEW r \in Requests, Reserve(r) \/ DupRelease(r) \/ Release(r)
        PROVE  \/ UNCHANGED quotaVars
               \/ \E k \in ApiKeys, b \in Nat : reserveQuota(k, b) \/ releaseQuota(k, b)
    <2>1. req[r].pc \in UploadLabels
      BY <1>4 DEF Reserve, DupRelease, Release, UploadLabels
    <2>2. req[r].key \in ApiKeys /\ req[r].bytes \in Nat
      BY <2>1, ActingRequest
    <2> QED
      BY <1>4, <2>2 DEF Reserve, DupRelease, Release
  <1>5. ASSUME NEW r \in Requests, Handle(r), ~Reserve(r), ~DupRelease(r), ~Release(r)
        PROVE  UNCHANGED quotaVars
    BY <1>5 DEF Handle, Put, Head, Validate, Scan, RejectDelete, RejectRead, RejectWrite, Hash, Dedup,
       DupDelete, DupRead, DupWrite, DupReturn, Copy, TxRead, TxCommit, Enqueue, Clean, Return,
       DelWrite, DelOriginals, DelDerived, Resend, Respond
  <1> QED
    BY <1>1, <1>2, <1>3, <1>4, <1>5 DEF Next

\* However many uploads run, fail, crash and release, no allowance is exceeded.
THEOREM QuotaCeilingCorrect == Spec => []QuotaCeiling
  <1>1. Init => QuotaCeiling
    BY DEF Init, QuotaInit, QuotaCeiling
  <1>2. TypeInv /\ QuotaCeiling /\ [Next]_vars => QuotaCeiling'
    <2> SUFFICES ASSUME TypeInv, QuotaCeiling, [Next]_vars
                 PROVE  QuotaCeiling'
      OBVIOUS
    <2>0. /\ tenantUsed.bytes \in Int /\ tenantUsed.assets \in Int
          /\ \A k \in ApiKeys : keyUsed[k].bytes \in Int /\ keyUsed[k].assets \in Int
          /\ keyUsed \in [ApiKeys -> Usage]
          /\ TenantMax.bytes \in Nat /\ TenantMax.assets \in Nat
          /\ \A k \in ApiKeys : KeyMax[k].bytes \in Nat /\ KeyMax[k].assets \in Nat
      BY DEF TypeInv, TypeOK, QuotaTypeOK, Usage
    <2>1. CASE UNCHANGED quotaVars
      BY <2>1 DEF quotaVars, QuotaCeiling
    <2>2. ASSUME NEW k \in ApiKeys, NEW b \in Nat, reserveQuota(k, b)
          PROVE  QuotaCeiling'
      <3>1. /\ tenantUsed' = [bytes |-> tenantUsed.bytes + b, assets |-> tenantUsed.assets + 1]
            /\ keyUsed'[k] = [bytes |-> keyUsed[k].bytes + b, assets |-> keyUsed[k].assets + 1]
            /\ \A j \in ApiKeys : j # k => keyUsed'[j] = keyUsed[j]
        BY <2>0, <2>2 DEF reserveQuota, Add
      <3>2. /\ tenantUsed.bytes <= TenantMax.bytes - b /\ tenantUsed.assets < TenantMax.assets
            /\ keyUsed[k].bytes <= KeyMax[k].bytes - b /\ keyUsed[k].assets < KeyMax[k].assets
        BY <2>2 DEF reserveQuota, CanReserve, HasRoom
      <3> QED
        BY <2>0, <3>1, <3>2 DEF QuotaCeiling
    <2>3. ASSUME NEW k \in ApiKeys, NEW b \in Nat, releaseQuota(k, b)
          PROVE  QuotaCeiling'
      <3>1. /\ tenantUsed' = [bytes |-> tenantUsed.bytes + -b, assets |-> tenantUsed.assets + -1]
            /\ keyUsed'[k] = [bytes |-> keyUsed[k].bytes + -b, assets |-> keyUsed[k].assets + -1]
            /\ \A j \in ApiKeys : j # k => keyUsed'[j] = keyUsed[j]
        BY <2>0, <2>3 DEF releaseQuota, Add
      <3>2. \A u, m \in Int : u <= m => u + -b <= m /\ u + -1 <= m
        OBVIOUS
      <3>3. /\ tenantUsed'.bytes <= TenantMax.bytes /\ tenantUsed'.assets <= TenantMax.assets
            /\ keyUsed'[k].bytes <= KeyMax[k].bytes /\ keyUsed'[k].assets <= KeyMax[k].assets
        BY <2>0, <3>1, <3>2 DEF QuotaCeiling
      <3> QED
        BY <3>1, <3>3 DEF QuotaCeiling
    <2> QED
      BY <2>1, <2>2, <2>3, QuotaMoves
  <1> QED
    BY <1>1, <1>2, TypeInit, TypeStep, PTL DEF Spec

\* Moving one key's counters by an amount moves the sum of the keys' by as much.
LEMMA KeySumMoves ==
  ASSUME NEW f \in [ApiKeys -> Int], NEW h \in [ApiKeys -> Int], NEW k \in ApiKeys, NEW n \in Int,
         h[k] = f[k] + n, \A j \in ApiKeys : j # k => h[j] = f[j]
  PROVE  SumFunction(h) = SumFunction(f) + n
PROOF
  <1>1. SumFunctionOnSet(h, ApiKeys) = SumFunctionOnSet(f, ApiKeys) + (h[k] - f[k])
    BY SumUpdated
  <1>2. h[k] - f[k] = n
    BY SMT
  <1> QED
    BY <1>1, <1>2 DEF SumFunction

\* Whatever reservations are refused and releases repeated, the tenant is charged what
\* its keys are, however many they are.
THEOREM TenantIsSumOfKeysCorrect == Spec => []TenantIsSumOfKeys
  <1>1. Init => TenantIsSumOfKeys
    <2> SUFFICES ASSUME Init PROVE TenantIsSumOfKeys
      OBVIOUS
    <2> DEFINE zero == [k \in ApiKeys |-> 0]
    <2>1. SumFunctionOnSet(zero, ApiKeys) = 0
      BY SumOfZeros
    <2>2. zero = [k \in ApiKeys |-> keyUsed[k].bytes] /\ zero = [k \in ApiKeys |-> keyUsed[k].assets]
      BY DEF Init, QuotaInit
    <2>3. SumFunction(zero) = 0
      BY <2>1 DEF SumFunction
    <2>4. tenantUsed.bytes = 0 /\ tenantUsed.assets = 0
      BY DEF Init, QuotaInit
    <2> HIDE DEF zero
    <2> QED
      BY <2>2, <2>3, <2>4 DEF TenantIsSumOfKeys
  <1>2. TypeInv /\ TenantIsSumOfKeys /\ [Next]_vars => TenantIsSumOfKeys'
    <2> SUFFICES ASSUME TypeInv, TenantIsSumOfKeys, [Next]_vars
                 PROVE  TenantIsSumOfKeys'
      OBVIOUS
    <2> DEFINE bytes == [k \in ApiKeys |-> keyUsed[k].bytes]
               assetCount == [k \in ApiKeys |-> keyUsed[k].assets]
    <2>0. /\ tenantUsed \in Usage /\ keyUsed \in [ApiKeys -> Usage]
          /\ bytes \in [ApiKeys -> Int] /\ assetCount \in [ApiKeys -> Int]
      BY DEF TypeInv, TypeOK, QuotaTypeOK, Usage
    <2>1. CASE UNCHANGED quotaVars
      BY <2>1 DEF quotaVars, TenantIsSumOfKeys
    <2>2. ASSUME NEW k \in ApiKeys, NEW b \in Int, NEW n \in Int,
                 tenantUsed' = Add(tenantUsed, b, n), keyUsed' = [keyUsed EXCEPT ![k] = Add(@, b, n)]
          PROVE  TenantIsSumOfKeys'
      <3>1. /\ tenantUsed'.bytes = tenantUsed.bytes + b /\ tenantUsed'.assets = tenantUsed.assets + n
            /\ keyUsed' \in [ApiKeys -> Usage]
            /\ keyUsed'[k].bytes = keyUsed[k].bytes + b /\ keyUsed'[k].assets = keyUsed[k].assets + n
            /\ \A j \in ApiKeys : j # k => keyUsed'[j] = keyUsed[j]
        BY <2>0, <2>2 DEF Add, Usage
      <3>2. bytes' \in [ApiKeys -> Int] /\ assetCount' \in [ApiKeys -> Int]
        BY <3>1 DEF Usage
      <3>3. /\ bytes'[k] = bytes[k] + b /\ assetCount'[k] = assetCount[k] + n
            /\ \A j \in ApiKeys : j # k => bytes'[j] = bytes[j] /\ assetCount'[j] = assetCount[j]
        BY <3>1
      <3>4. SumFunction(bytes) = tenantUsed.bytes /\ SumFunction(assetCount) = tenantUsed.assets
        BY DEF TenantIsSumOfKeys
      <3>5. SumFunction(bytes') = SumFunction(bytes) + b /\ SumFunction(assetCount') = SumFunction(assetCount) + n
        <4> HIDE DEF bytes, assetCount
        <4>1. \A f, h \in [ApiKeys -> Int], m \in Int :
                (h[k] = f[k] + m /\ \A j \in ApiKeys : j # k => h[j] = f[j]) => SumFunction(h) = SumFunction(f) + m
          BY KeySumMoves
        <4>2. /\ bytes \in [ApiKeys -> Int] /\ bytes' \in [ApiKeys -> Int] /\ bytes'[k] = bytes[k] + b
              /\ \A j \in ApiKeys : j # k => bytes'[j] = bytes[j]
          BY <2>0, <3>2, <3>3
        <4>3. /\ assetCount \in [ApiKeys -> Int] /\ assetCount' \in [ApiKeys -> Int]
              /\ assetCount'[k] = assetCount[k] + n
              /\ \A j \in ApiKeys : j # k => assetCount'[j] = assetCount[j]
          BY <2>0, <3>2, <3>3
        <4>4. SumFunction(bytes') = SumFunction(bytes) + b
          BY <4>1, <4>2, Zenon
        <4>5. SumFunction(assetCount') = SumFunction(assetCount) + n
          BY <4>1, <4>3, Zenon
        <4> QED
          BY <4>4, <4>5
      <3> QED
        BY <3>1, <3>4, <3>5 DEF TenantIsSumOfKeys
    <2>3. ASSUME NEW k \in ApiKeys, NEW b \in Nat, reserveQuota(k, b) \/ releaseQuota(k, b)
          PROVE  TenantIsSumOfKeys'
      <3>1. b \in Int /\ -b \in Int /\ -1 \in Int /\ 1 \in Int
        OBVIOUS
      <3> QED
        BY <2>2, <2>3, <3>1 DEF reserveQuota, releaseQuota
    <2> QED
      BY <2>1, <2>3, QuotaMoves
  <1> QED
    BY <1>1, <1>2, TypeInit, TypeStep, PTL DEF Spec
=============================================================================
