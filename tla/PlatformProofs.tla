--------------------------- MODULE PlatformProofs ---------------------------
(***************************************************************************)
(* Theorems about Platform for every instance: with any number of optimize *)
(* workers the properties of the control plane's writers still hold, and   *)
(* the status ready and the derivative rows are earned.                    *)
(***************************************************************************)
EXTENDS Platform, IngestProofs

\* One column of a row, or one field of a worker, is written.
LEMMA StatusUpdated ==
  ASSUME NEW row \in AssetRow, NEW st \in Status
  PROVE  /\ [row EXCEPT !.status = st] \in AssetRow
         /\ [row EXCEPT !.status = st].status = st
         /\ [row EXCEPT !.status = st].current = row.current
         /\ [row EXCEPT !.status = st].gone = row.gone
  BY DEF AssetRow

LEMMA KeyLearned ==
  ASSUME NEW q \in WorkState, NEW key \in OriginalKeys
  PROVE  /\ [q EXCEPT !.key = key] \in WorkState
         /\ [q EXCEPT !.key = key].job = q.job
         /\ [q EXCEPT !.key = key].todo = q.todo
         /\ [q EXCEPT !.key = key].key = key
  BY DEF WorkState

USE RegistryAssumption, QuotaAssumption, IngestAssumption, JobQueueAssumption, OptimizerAssumption

Rows == {v \in AssetIds \X Versions : versions[v] # None}
Live == {a \in AssetIds : Visible(a)}
Renditions == {d \in DerivedKeys : derived[d] # None}
Known == {v \in AssetIds \X Versions : described[v] # None}

Completing == {"describe", "readyRead", "readyWrite"}
Warming == {"warm", "record"} \cup Completing
Chosen == {"get", "master", "failRead", "failWrite"} \cup Warming

\* What a busy worker knows of the version rows V, the visible assets L, the
\* objects D and the described versions S: the variants it has passed exist.
WorkOK(q, V, L, D, S) ==
  /\ q.pc # "idle" => q.job \in AssetIds \X Versions
  /\ q.pc \in Chosen => q.job \in V
  /\ q.pc = "get" => q.key \in OriginalKeys
  /\ q.pc \in {"master"} \cup Warming => q.source \in Contents
  /\ q.todo \subseteq WarmSet
  /\ q.pc = "record" => q.variant \in WarmSet \ q.todo
  /\ q.pc \in Warming /\ q.job[1] \in L => \A v \in WarmSet \ q.todo : <<q.job[1], q.job[2], v>> \in D
  /\ q.pc \in Completing => q.todo = {}
  /\ q.pc \in {"readyRead", "readyWrite"} => q.job \in S

WorkInv == \A w \in Workers : WorkOK(work[w], Rows, Live, Renditions, Known)

\* A derivative row refers to a version row.
RecordedInv == \A d \in recorded : <<d[1], d[2]>> \in Rows

PlatformInv ==
  /\ TypeInv /\ SafetyInv /\ WorkerTypeOK
  /\ WorkInv /\ RecordedInv /\ ReadyIsEarned /\ InventoryIsReal

LEMMA PlatformInvInit == PlatformInit => PlatformInv
  <1> SUFFICES ASSUME PlatformInit
               PROVE  PlatformInv
    OBVIOUS
  <1>1. TypeInv /\ SafetyInv
    BY TypeInit, SafetyInit DEF PlatformInit
  <1>2. WorkerTypeOK /\ WorkInv
    BY DEF PlatformInit, WorkerInit, WorkerTypeOK, NoWork, WorkState, WorkLabels, WorkInv, WorkOK,
       Chosen, Warming, Completing
  <1>3. RecordedInv /\ ReadyIsEarned /\ InventoryIsReal
    BY DEF PlatformInit, Init, RecordedInv, RegistryInit, WorkerInit, ReadyIsEarned, InventoryIsReal, Visible, Exists
  <1> QED
    BY <1>1, <1>2, <1>3 DEF PlatformInv

---------------------------------------------------------------------------
(* Steps of the control plane. *)

\* More rows and objects, fewer visible assets: what is known stays true.
LEMMA WorkOKGrows ==
  ASSUME NEW q \in WorkState, NEW V, NEW L, NEW D, NEW S, WorkOK(q, V, L, D, S),
         NEW W, NEW M, NEW E, NEW T, V \subseteq W, S \subseteq T,
         \A v \in V : v[1] \in M => v[1] \in L,
         \A d \in D : d[1] \in M => d \in E
  PROVE  WorkOK(q, W, M, E, T)
  <1>1. q.pc \in Warming => q.pc \in Chosen
    BY DEF Chosen
  <1>2. ASSUME q.pc \in Warming, q.job[1] \in M, NEW v \in WarmSet \ q.todo
        PROVE  <<q.job[1], q.job[2], v>> \in E
    <2>1. q.job[1] \in L
      BY <1>1, <1>2 DEF WorkOK
    <2>2. <<q.job[1], q.job[2], v>> \in D
      BY <1>2, <2>1 DEF WorkOK
    <2>3. <<q.job[1], q.job[2], v>>[1] = q.job[1]
      OBVIOUS
    <2> QED
      BY <1>2, <2>2, <2>3
  <1> QED
    BY <1>2 DEF WorkOK

\* A version row belongs to an asset that was created.
LEMMA RowsExist ==
  ASSUME TypeInv, SafetyInv, NEW v \in Rows
  PROVE  v[1] \in AssetIds /\ Exists(v[1]) /\ v[2] \in 1..assets[v[1]].current
  <1>1. v \in AssetIds \X Versions /\ versions[v] # None /\ v = <<v[1], v[2]>>
    BY DEF Rows
  <1>2. v[1] \in AssetIds /\ v[2] \in Versions /\ v[2] \in Nat /\ v[2] > 0
    BY <1>1 DEF Versions
  <1>3. versions[<<v[1], v[2]>>] # None
    BY <1>1
  <1>4. v[2] <= assets[v[1]].current
    BY <1>2, <1>3 DEF SafetyInv, VersionHistory
  <1>5. assets[v[1]].current \in Nat
    BY <1>2 DEF TypeInv, TypeOK, RegistryTypeOK, AssetRow
  <1>6. assets[v[1]].current # 0
    BY <1>2, <1>4, <1>5
  <1>7. Exists(v[1])
    BY <1>2, <1>6 DEF TypeInv, FreshRows
  <1> QED
    BY <1>2, <1>4, <1>5, <1>7

\* Only a removal that has hidden its asset deletes derived objects.
Trims(r) ==
  \/ UNCHANGED derived
  \/ req[r].pc = "delDerived" /\ UNCHANGED registryVars /\ DeleteDerived(req[r].asset)

LEMMA HandleTrims ==
  ASSUME NEW r \in Requests, Arrive(r) \/ Handle(r) \/ Fail(r) \/ Crash(r)
  PROVE  Trims(r)
  <1> USE DEF At, sharedVars, bucketVars, Trims
  <1>1. CASE Arrive(r)
    BY <1>1 DEF Arrive, delete, reprocess, ingestStream, completeUpload, replaceSourceStream
  <1>2. CASE \/ \E c \in Contents : Put(r, c)
             \/ RejectDelete(r) \/ DupDelete(r) \/ Clean(r) \/ Copy(r) \/ DelOriginals(r)
    BY <1>2 DEF Put, RejectDelete, DupDelete, Clean, Copy, DelOriginals, PutStaged, DeleteStaged,
       CopyToOriginal, DeleteOriginals
  <1>3. CASE \/ Head(r) \/ Validate(r) \/ RejectRead(r) \/ Hash(r) \/ Dedup(r) \/ DupRead(r)
             \/ DupReturn(r) \/ TxRead(r) \/ Return(r) \/ Respond(r) \/ Fail(r) \/ Crash(r)
             \/ \E v \in Verdicts : Scan(r, v)
    BY <1>3 DEF Head, Validate, RejectRead, Hash, Dedup, DupRead, DupReturn, TxRead, Return,
       Respond, Fail, Crash, Scan
  <1>4. CASE RejectWrite(r) \/ DupWrite(r) \/ DelWrite(r) \/ TxCommit(r)
    BY <1>4 DEF RejectWrite, DupWrite, DelWrite, TxCommit
  <1>5. CASE Reserve(r) \/ DupRelease(r) \/ Release(r) \/ Enqueue(r) \/ Resend(r)
    BY <1>5 DEF Reserve, DupRelease, Release, Enqueue, Resend
  <1>6. CASE DelDerived(r)
    BY <1>6 DEF DelDerived
  <1> QED
    BY <1>1, <1>2, <1>3, <1>4, <1>5, <1>6 DEF Handle

\* What a step of the control plane leaves of the facts above.
Kept ==
  /\ Rows \subseteq Rows' /\ Known \subseteq Known'
  /\ \A v \in Rows : v[1] \in Live' => v[1] \in Live
  /\ \A d \in Renditions : d[1] \in Live' => d \in Renditions'

LEMMA NextKeeps ==
  ASSUME TypeInv, SafetyInv, Next, UNCHANGED described
  PROVE  Kept
  <1>1. SafetyInv' /\ TypeInv' /\ RowMoves
    BY SafetyStep, TypeStep, RowsMove DEF SafetyInv
  <1>2. ASSUME NEW v \in Rows
        PROVE  v \in Rows' /\ (v[1] \in Live' => v[1] \in Live)
    <2>1. v[1] \in AssetIds /\ Exists(v[1]) /\ v[2] \in 1..assets[v[1]].current
      BY RowsExist
    <2>2. v \in AssetIds \X Versions /\ v = <<v[1], v[2]>> /\ v[2] \in Versions
      BY DEF Rows
    <2>3. assets[v[1]].current <= assets'[v[1]].current
      BY <1>1, <2>1 DEF RowMoves
    <2>4. assets[v[1]].current \in Nat /\ assets'[v[1]].current \in Nat
      BY <1>1, <2>1 DEF TypeInv, TypeOK, RegistryTypeOK, AssetRow
    <2>5. v[2] <= assets'[v[1]].current
      BY <2>1, <2>3, <2>4
    <2>6. versions'[<<v[1], v[2]>>] # None
      BY <1>1, <2>1, <2>2, <2>5 DEF SafetyInv, VersionHistory
    <2> QED
      BY <1>1, <2>1, <2>2, <2>6 DEF Rows, Live, RowMoves
  <1>3. ASSUME NEW d \in Renditions, d[1] \in Live'
        PROVE  d \in Renditions'
    <2>0. d \in DerivedKeys /\ derived[d] # None
      BY DEF Renditions
    <2>1. CASE UNCHANGED derived
      BY <2>0, <2>1 DEF Renditions
    <2>2. ASSUME NEW r \in Requests, req[r].pc = "delDerived", UNCHANGED registryVars,
                 DeleteDerived(req[r].asset)
          PROVE  d \in Renditions'
      <3>1. ~Visible(req[r].asset)
        BY <2>2 DEF SafetyInv, CopyInv
      <3>2. Visible(d[1])
        BY <1>3, <2>2 DEF Live, Visible, Exists, registryVars
      <3>3. derived'[d] = derived[d]
        BY <2>0, <2>2, <3>1, <3>2 DEF DeleteDerived
      <3> QED
        BY <2>0, <3>3 DEF Renditions
    <2>3. CASE Client
      <3>1. UNCHANGED derived
        BY <2>3 DEF Client, createUploadTarget, ClientPut, PutStaged, bucketVars
      <3> QED
        BY <2>1, <3>1
    <2> QED
      BY <2>1, <2>2, <2>3, HandleTrims DEF Next, Trims
  <1>4. Known' = Known
    BY DEF Known
  <1> QED
    BY <1>2, <1>3, <1>4 DEF Kept

\* The control plane makes no asset ready.
LEMMA NextNotReady ==
  ASSUME TypeInv, SafetyInv, Next, NEW a \in AssetIds, assets'[a].status = "ready"
  PROVE  assets[a].status = "ready"
  <1>1. assets \in [AssetIds -> AssetRow]
    BY DEF TypeInv, TypeOK, RegistryTypeOK
  <1>2. CASE UNCHANGED registryVars
    BY <1>2 DEF registryVars
  <1>3. ASSUME NEW b \in AssetIds, Create(b)
        PROVE  assets[a].status = "ready"
    BY <1>1, <1>3 DEF Create
  <1>4. ASSUME NEW b \in AssetIds, NEW st \in {"rejected", "deleted"}, RemoveAs(b, st)
        PROVE  assets[a].status = "ready"
    BY <1>1, <1>4 DEF RemoveAs
  <1>5. ASSUME NEW b, NEW n, NEW key, NEW hash, b \in AssetIds, CommitVersion(b, n, key, hash)
        PROVE  assets[a].status = "ready"
    BY <1>1, <1>5 DEF CommitVersion
  <1>6. \A r \in Requests : req[r].pc # "idle" => req[r].asset \in AssetIds
    BY ActingRequest
  <1>7. \/ UNCHANGED registryVars
        \/ \E b \in AssetIds : Create(b)
        \/ \E b \in AssetIds, st \in {"rejected", "deleted"} : RemoveAs(b, st)
        \/ \E r \in Requests :
             /\ req[r].asset \in AssetIds
             /\ CommitVersion(req[r].asset, req[r].seen, OriginalKey(r), req[r].hash)
    BY <1>6, NextMoves DEF Data
  <1>8. CASE \E r \in Requests :
             /\ req[r].asset \in AssetIds
             /\ CommitVersion(req[r].asset, req[r].seen, OriginalKey(r), req[r].hash)
    <2>1. PICK r \in Requests :
             /\ req[r].asset \in AssetIds
             /\ CommitVersion(req[r].asset, req[r].seen, OriginalKey(r), req[r].hash)
      BY <1>8
    <2> QED
      BY <1>1, <2>1 DEF CommitVersion
  <1> QED
    BY <1>2, <1>3, <1>4, <1>7, <1>8

LEMMA WorkKept ==
  ASSUME WorkerTypeOK, WorkInv, Kept, NEW w \in Workers
  PROVE  WorkOK(work[w], Rows', Live', Renditions', Known')
  BY WorkOKGrows DEF WorkerTypeOK, WorkInv, Kept

LEMMA ReadyKept ==
  ASSUME TypeInv, SafetyInv, TypeInv', Kept, RowMoves, ReadyIsEarned,
         NEW a \in AssetIds, assets[a].status = "ready", Visible(a)'
  PROVE  \E n \in 1..assets'[a].current : WarmSetExists(a, n)' /\ described'[<<a, n>>] # None
  <1>1. Exists(a) /\ Visible(a)
    BY DEF Exists, RowMoves
  <1>2. PICK n \in 1..assets[a].current : WarmSetExists(a, n) /\ described[<<a, n>>] # None
    BY <1>1 DEF ReadyIsEarned
  <1>3. /\ assets[a].current \in 0..MaxVersion /\ assets'[a].current \in Nat
        /\ assets[a].current <= assets'[a].current
    BY DEF TypeInv, TypeOK, RegistryTypeOK, AssetRow, RowMoves
  <1>4. n \in 1..assets'[a].current /\ n \in Versions
    BY <1>3 DEF Versions
  <1>5. ASSUME NEW v \in WarmSet
        PROVE  derived'[<<a, n, v>>] # None
    <2>1. <<a, n, v>> \in Renditions
      BY <1>2, <1>4 DEF WarmSetExists, Renditions, DerivedKeys
    <2>2. <<a, n, v>>[1] \in Live'
      BY DEF Live
    <2>3. <<a, n, v>> \in Renditions'
      BY <2>1, <2>2 DEF Kept
    <2> QED
      BY <2>3 DEF Renditions
  <1>6. <<a, n>> \in Known'
    BY <1>2, <1>4 DEF Known, Kept
  <1> QED
    BY <1>4, <1>5, <1>6 DEF WarmSetExists, Known

LEMMA InventoryKept ==
  ASSUME WorkerTypeOK, RecordedInv, InventoryIsReal, Kept, NEW d \in recorded
  PROVE  <<d[1], d[2]>> \in Rows' /\ (Visible(d[1])' => derived'[d] # None)
  <1>1. <<d[1], d[2]>> \in Rows /\ <<d[1], d[2]>> \in Rows' /\ d \in DerivedKeys /\ d[1] \in AssetIds
    BY DEF RecordedInv, Kept, WorkerTypeOK, DerivedKeys
  <1>2. ASSUME Visible(d[1])'
        PROVE  derived'[d] # None
    <2>1. d[1] \in Live'
      BY <1>1, <1>2 DEF Live
    <2>2. d[1] \in Live
      BY <1>1, <2>1 DEF Kept
    <2>3. d \in Renditions
      BY <1>1, <2>2 DEF Live, Renditions, InventoryIsReal
    <2> QED
      BY <2>1, <2>3 DEF Kept, Renditions
  <1> QED
    BY <1>1, <1>2

LEMMA ServeStep ==
  ASSUME PlatformInv, Serve
  PROVE  PlatformInv'
  <1>0. TypeInv /\ SafetyInv /\ WorkerTypeOK /\ WorkInv /\ RecordedInv /\ ReadyIsEarned /\ InventoryIsReal
    BY DEF PlatformInv
  <1>1. Next /\ UNCHANGED work /\ UNCHANGED described /\ UNCHANGED recorded
    BY DEF Serve, workerVars
  <1>2. TypeInv' /\ SafetyInv' /\ RowMoves /\ Kept
    BY <1>0, <1>1, TypeStep, SafetyStep, RowsMove, NextKeeps DEF SafetyInv
  <1>3. WorkerTypeOK'
    BY <1>0, <1>1 DEF WorkerTypeOK
  <1>4. WorkInv'
    BY <1>0, <1>1, <1>2, WorkKept DEF WorkInv
  <1>5. ReadyIsEarned'
    BY <1>0, <1>1, <1>2, NextNotReady, ReadyKept DEF ReadyIsEarned
  <1>6. RecordedInv' /\ InventoryIsReal'
    BY <1>0, <1>1, <1>2, InventoryKept DEF RecordedInv, InventoryIsReal
  <1> QED
    BY <1>2, <1>3, <1>4, <1>5, <1>6 DEF PlatformInv

---------------------------------------------------------------------------
(* Steps of the workers. *)

\* A worker changes of the rows at most the status of its asset.
Touches(w) ==
  \/ UNCHANGED assets
  \/ /\ work[w].pc \in {"readyWrite", "failWrite"}
     /\ \E st \in {"ready", "failed"} :
          /\ st = "ready" => work[w].pc = "readyWrite"
          /\ assets' = [assets EXCEPT ![work[w].job[1]].status = st]

Frame ==
  UNCHANGED <<versions, clock, staging, originals, quotaVars, targets, req, faults>>

\* A status that is neither given to nor taken from an absent row.
SameStatus ==
  /\ assets' \in [AssetIds -> AssetRow]
  /\ \A a \in AssetIds :
       /\ assets'[a].current = assets[a].current
       /\ assets'[a].gone = assets[a].gone
       /\ Exists(a)' <=> Exists(a)

LEMMA TouchSame ==
  ASSUME PlatformInv, NEW w \in Workers, Touches(w)
  PROVE  SameStatus
  <1>0. assets \in [AssetIds -> AssetRow] /\ WorkInv /\ TypeInv /\ SafetyInv
    BY DEF PlatformInv, TypeInv, TypeOK, RegistryTypeOK
  <1>1. CASE UNCHANGED assets
    BY <1>0, <1>1 DEF SameStatus, Exists
  <1>2. ASSUME NEW st \in {"ready", "failed"}, work[w].pc \in {"readyWrite", "failWrite"},
               assets' = [assets EXCEPT ![work[w].job[1]].status = st]
        PROVE  SameStatus
    <2> DEFINE b == work[w].job[1]
    <2>1. work[w].job \in Rows
      BY <1>0, <1>2 DEF WorkInv, WorkOK, Chosen, Warming, Completing
    <2>2. b \in AssetIds /\ Exists(b)
      BY <1>0, <2>1, RowsExist
    <2>3. assets' = [assets EXCEPT ![b] = [assets[b] EXCEPT !.status = st]]
      BY <1>2
    <2>4. /\ [assets[b] EXCEPT !.status = st] \in AssetRow
          /\ [assets[b] EXCEPT !.status = st].status = st
          /\ [assets[b] EXCEPT !.status = st].current = assets[b].current
          /\ [assets[b] EXCEPT !.status = st].gone = assets[b].gone
      <3>1. assets[b] \in AssetRow /\ st \in Status
        BY <1>0, <2>2 DEF Status
      <3> HIDE DEF b
      <3> QED
        BY <3>1, StatusUpdated
    <2>5. assets'[b] = [assets[b] EXCEPT !.status = st] /\ \A a \in AssetIds : a # b => assets'[a] = assets[a]
      BY <1>0, <2>2, <2>3
    <2> QED
      BY <1>0, <2>2, <2>3, <2>4, <2>5 DEF SameStatus, Exists
  <1> QED
    BY <1>1, <1>2 DEF Touches

\* What only looks at the other columns of the rows is not disturbed.
LEMMA SameStatusKeeps ==
  ASSUME TypeInv, SafetyInv, SameStatus, Frame, BucketTypeOK', QueueTypeOK'
  PROVE  TypeInv' /\ SafetyInv' /\ RowMoves /\ Rows' = Rows /\ Live' = Live
  <1>0. /\ versions' = versions /\ clock' = clock /\ originals' = originals
        /\ req' = req /\ faults' = faults /\ targets' = targets /\ UNCHANGED quotaVars
    BY DEF Frame
  <1>1. \A a \in AssetIds : Visible(a)' <=> Visible(a)
    BY DEF SameStatus, Visible
  <1>2. Existing' = Existing
    BY DEF SameStatus, Existing
  <1>3. TypeInv'
    <2>1. RegistryTypeOK' /\ FreshRows'
      BY <1>0 DEF TypeInv, TypeOK, RegistryTypeOK, FreshRows, SameStatus
    <2>2. RequestInv'
      BY <1>0, <1>2 DEF TypeInv, RequestInv
    <2>3. QuotaTypeOK'
      BY <1>0, SameOthers DEF TypeInv, TypeOK
    <2> QED
      BY <1>0, <2>1, <2>2, <2>3 DEF TypeInv, TypeOK
  <1>4. SafetyInv'
    <2>0. \A r \in Requests : req[r].pc # "idle" => req[r].asset \in AssetIds
      BY ActingRequest
    <2>1. VersionHistory' /\ OwnSource'
      BY <1>0 DEF SafetyInv, VersionHistory, OwnSource, SameStatus
    <2>2. CurrentSourceDurable'
      BY <1>0, <1>1 DEF SafetyInv, CurrentSourceDurable, HasSource, Stored, SameStatus
    <2>3. SeenInv'
      BY <1>0, <2>0 DEF SafetyInv, SeenInv, At, SameStatus
    <2>4. CopyInv'
      BY <1>0, <1>1, <2>0 DEF SafetyInv, CopyInv, Stored, OriginalKey
    <2>5. AnswerInv'
      BY <1>0, <2>0 DEF SafetyInv, AnswerInv, SameStatus, Duplicate
    <2> QED
      BY <2>1, <2>2, <2>3, <2>4, <2>5 DEF SafetyInv
  <1>5. RowMoves
    <2>1. \A a \in AssetIds : assets[a].current <= assets[a].current
      BY DEF TypeInv, TypeOK, RegistryTypeOK, AssetRow
    <2> QED
      BY <1>1, <2>1 DEF RowMoves, SameStatus
  <1> QED
    BY <1>0, <1>1, <1>3, <1>4, <1>5 DEF Rows, Live

\* What a worker's step adds to objects, metadata and derivative rows.
Adds ==
  /\ BucketTypeOK' /\ QueueTypeOK'
  /\ Renditions \subseteq Renditions' /\ Known \subseteq Known'
  /\ described' \in [AssetIds \X Versions -> Contents \cup {None}]
  /\ \A d \in recorded' \ recorded :
       d \in DerivedKeys /\ <<d[1], d[2]>> \in Rows /\ (d[1] \in Live => d \in Renditions)

\* A step of worker w that moves it to a state it may be in keeps the invariant.
LEMMA WorkMove ==
  ASSUME PlatformInv, NEW w \in Workers, Touches(w), Frame, Adds,
         NEW STATE q, work' = [work EXCEPT ![w] = q],
         q \in WorkState, WorkOK(q, Rows, Live, Renditions', Known')
  PROVE  PlatformInv'
  <1>0. TypeInv /\ SafetyInv /\ WorkerTypeOK /\ WorkInv /\ RecordedInv /\ ReadyIsEarned /\ InventoryIsReal
    BY DEF PlatformInv
  <1>1. TypeInv' /\ SafetyInv' /\ RowMoves /\ Rows' = Rows /\ Live' = Live
    BY <1>0, TouchSame, SameStatusKeeps DEF Adds
  <1>2. Kept
    BY <1>1 DEF Kept, Adds
  <1>3. RecordedInv' /\ InventoryIsReal' /\ recorded' \subseteq DerivedKeys
    <2>1. ASSUME NEW d \in recorded'
          PROVE  d \in DerivedKeys /\ <<d[1], d[2]>> \in Rows' /\ (Visible(d[1])' => derived'[d] # None)
      <3>1. CASE d \in recorded
        BY <1>0, <1>2, <3>1, InventoryKept DEF WorkerTypeOK
      <3>2. CASE d \notin recorded
        <4>1. d \in DerivedKeys /\ <<d[1], d[2]>> \in Rows /\ (d[1] \in Live => d \in Renditions)
          BY <3>2 DEF Adds
        <4>2. d[1] \in AssetIds
          BY <4>1 DEF DerivedKeys
        <4>3. Visible(d[1])' => d \in Renditions'
          BY <1>1, <4>1, <4>2 DEF Adds, Live
        <4> QED
          BY <1>1, <4>1, <4>3 DEF Renditions
      <3> QED
        BY <3>1, <3>2
    <2> QED
      BY <2>1 DEF RecordedInv, InventoryIsReal
  <1>4. WorkerTypeOK'
    BY <1>0, <1>3 DEF WorkerTypeOK, Adds
  <1>5. WorkInv'
    <2>1. ASSUME NEW x \in Workers
          PROVE  WorkOK(work[x], Rows', Live', Renditions', Known')
      BY <1>0, <1>2, WorkKept
    <2>2. work'[w] = q /\ \A x \in Workers : x # w => work'[x] = work[x]
      BY <1>0 DEF WorkerTypeOK
    <2>3. WorkOK(q, Rows', Live', Renditions', Known')
      BY <1>1
    <2> QED
      BY <2>1, <2>2, <2>3 DEF WorkInv
  <1>6. ReadyIsEarned'
    <2>1. ASSUME NEW a \in AssetIds, Visible(a)', assets'[a].status = "ready"
          PROVE  \E n \in 1..assets'[a].current : WarmSetExists(a, n)' /\ described'[<<a, n>>] # None
      <3>1. CASE assets[a].status = "ready"
        BY <1>0, <1>1, <1>2, <2>1, <3>1, ReadyKept
      <3>2. CASE assets[a].status # "ready"
        <4>0. assets \in [AssetIds -> AssetRow]
          BY <1>0 DEF TypeInv, TypeOK, RegistryTypeOK
        <4>1. work[w].pc = "readyWrite" /\ a = work[w].job[1]
          BY <2>1, <3>2, <4>0 DEF Touches, AssetRow
        <4>2. WorkOK(work[w], Rows, Live, Renditions, Known) /\ a \in Live
          BY <1>0, <1>1, <2>1 DEF WorkInv, Live
        <4>3. work[w].job \in Rows /\ work[w].job \in Known
          BY <4>1, <4>2 DEF WorkOK, Chosen, Warming, Completing
        <4>4. PICK n \in 1..assets[a].current : work[w].job = <<a, n>>
          BY <1>0, <4>1, <4>3, RowsExist DEF Rows
        <4>5. \A v \in WarmSet : <<a, n, v>> \in Renditions
          BY <4>1, <4>2, <4>4 DEF WorkOK, Warming, Completing
        <4>6. WarmSetExists(a, n)'
          BY <4>5 DEF Adds, WarmSetExists, Renditions
        <4>7. described'[<<a, n>>] # None
          BY <4>3, <4>4 DEF Adds, Known
        <4>8. assets'[a].current = assets[a].current
          BY TouchSame DEF SameStatus
        <4> QED
          BY <4>4, <4>6, <4>7, <4>8
      <3> QED
        BY <3>1, <3>2
    <2> QED
      BY <2>1 DEF ReadyIsEarned
  <1> QED
    BY <1>1, <1>3, <1>4, <1>5, <1>6 DEF PlatformInv

---------------------------------------------------------------------------
(* The actions, one by one. *)

LEMMA OnFields ==
  ASSUME NEW q \in WorkState, NEW l \in WorkLabels
  PROVE  /\ On(q, l) \in WorkState /\ On(q, l).pc = l
         /\ l = "idle" => On(q, l) = NoWork
         /\ l # "idle" => /\ On(q, l).job = q.job /\ On(q, l).key = q.key
                          /\ On(q, l).source = q.source /\ On(q, l).todo = q.todo
                          /\ On(q, l).variant = q.variant
  BY DEF On, NoWork, WorkState, WorkLabels

\* A worker that is done, or gives up, knows nothing.
LEMMA DoneOK ==
  ASSUME NEW q \in WorkState, NEW V, NEW L, NEW D, NEW S, WorkOK(q, V, L, D, S), q.pc # "idle",
         NEW l \in {"idle", "acknowledge"}
  PROVE  On(q, l) \in WorkState /\ WorkOK(On(q, l), V, L, D, S)
  <1>1. l \in WorkLabels
    BY DEF WorkLabels
  <1> QED
    BY <1>1, OnFields DEF WorkOK, NoWork, Chosen, Warming, Completing

LEMMA WorkFacts ==
  ASSUME PlatformInv, NEW w \in Workers
  PROVE  /\ work[w] \in WorkState /\ WorkOK(work[w], Rows, Live, Renditions, Known)
         /\ TypeInv /\ SafetyInv /\ WorkerTypeOK /\ BucketTypeOK /\ QueueTypeOK
  BY DEF PlatformInv, WorkerTypeOK, WorkInv, TypeInv, TypeOK

\* A step that changes nothing but the worker.
LEMMA StillMove ==
  ASSUME PlatformInv, NEW w \in Workers,
         UNCHANGED <<registryVars, bucketVars, queueVars, described, recorded>>,
         UNCHANGED <<quotaVars, targets, req, faults>>,
         NEW STATE q, work' = [work EXCEPT ![w] = q],
         q \in WorkState, WorkOK(q, Rows, Live, Renditions, Known)
  PROVE  PlatformInv'
  <1>1. Touches(w) /\ Frame
    BY DEF Touches, Frame, registryVars, bucketVars
  <1>2. Renditions' = Renditions /\ Known' = Known
    BY DEF Renditions, Known, bucketVars
  <1>3. Adds
    BY <1>2, WorkFacts, SameOthers DEF Adds, WorkerTypeOK
  <1> QED
    BY <1>1, <1>2, <1>3, WorkMove

LEMMA GiveUp ==
  ASSUME PlatformInv, NEW w \in Workers,
         UNCHANGED <<registryVars, bucketVars, queueVars, described, recorded>>,
         UNCHANGED <<quotaVars, targets, req, faults>>,
         ~Doing(w, "idle"), NEW l \in {"idle", "acknowledge"}, Proceed(w, l)
  PROVE  PlatformInv'
  <1>1. On(work[w], l) \in WorkState /\ WorkOK(On(work[w], l), Rows, Live, Renditions, Known)
    BY WorkFacts, DoneOK DEF Doing
  <1> QED
    BY <1>1, StillMove DEF Proceed, Turn

LEMMA ReceiveStep ==
  ASSUME PlatformInv, NEW w \in Workers, NEW m \in jobs, Receive(w, m),
         UNCHANGED <<quotaVars, targets, req, faults>>
  PROVE  PlatformInv'
  <1> DEFINE q == [pc |-> "context", job |-> m, key |-> None, source |-> None,
                   todo |-> {}, variant |-> None]
  <1>0. m \in AssetIds \X Versions
    BY WorkFacts DEF QueueTypeOK
  <1>1. q \in WorkState /\ WorkOK(q, Rows, Live, Renditions, Known)
    BY <1>0 DEF WorkState, WorkLabels, WorkOK, Chosen, Warming, Completing
  <1>2. Touches(w) /\ Frame
    BY DEF Receive, Touches, Frame, registryVars, bucketVars
  <1>3. Renditions' = Renditions /\ Known' = Known
    BY DEF Receive, Renditions, Known, bucketVars
  <1>4. QueueTypeOK'
    <2>1. /\ jobs' = jobs /\ receives' = [receives EXCEPT ![m] = receives[m] + 1]
          /\ receives[m] < MaxReceives
      BY DEF Receive, receive
    <2>2. receives[m] + 1 \in 0..MaxReceives
      BY <1>0, <2>1, WorkFacts DEF QueueTypeOK
    <2> QED
      BY <1>0, <2>1, <2>2, WorkFacts DEF QueueTypeOK
  <1>5. Adds
    BY <1>3, <1>4, WorkFacts, SameOthers DEF Receive, Adds, WorkerTypeOK
  <1>6. work' = [work EXCEPT ![w] = q]
    BY DEF Receive, Turn
  <1> QED
    BY <1>1, <1>2, <1>3, <1>5, <1>6, WorkMove

LEMMA ContextStep ==
  ASSUME PlatformInv, NEW w \in Workers, Context(w), UNCHANGED <<quotaVars, targets, req, faults>>
  PROVE  PlatformInv'
  <1>0. UNCHANGED <<registryVars, bucketVars, queueVars, described, recorded>> /\ work[w].pc = "context"
    BY DEF Context, Doing
  <1>1. CASE Proceed(w, "acknowledge")
    BY <1>0, <1>1, GiveUp DEF Doing
  <1>2. CASE /\ versions[work[w].job] # None
             /\ Turn(w, On([work[w] EXCEPT !.key = versions[work[w].job].source], "get"))
    <2> DEFINE p == [work[w] EXCEPT !.key = versions[work[w].job].source]
               q == On(p, "get")
    <2>1. work[w].job \in AssetIds \X Versions /\ work[w].todo \subseteq WarmSet
      BY <1>0, WorkFacts DEF WorkOK
    <2>2. work[w].job \in Rows /\ versions[work[w].job] \in VersionRow
      BY <1>2, <2>1, WorkFacts DEF Rows, TypeInv, TypeOK, RegistryTypeOK
    <2>3. versions[work[w].job].source \in OriginalKeys
      BY <2>2 DEF VersionRow
    <2>4. /\ p \in WorkState /\ p.job = work[w].job /\ p.todo = work[w].todo
          /\ p.key = versions[work[w].job].source
      BY <2>3, WorkFacts, KeyLearned
    <2>5. "get" \in WorkLabels
      BY DEF WorkLabels
    <2> HIDE DEF p
    <2>6. q \in WorkState /\ q.pc = "get" /\ q.job = p.job /\ q.todo = p.todo /\ q.key = p.key
      BY <2>4, <2>5, OnFields
    <2> HIDE DEF q
    <2>7. WorkOK(q, Rows, Live, Renditions, Known)
      BY <2>1, <2>2, <2>3, <2>4, <2>6 DEF WorkOK, Warming, Completing
    <2> QED
      BY <1>0, <1>2, <2>6, <2>7, StillMove DEF Turn, p, q
  <1>3. work[w].job = <<work[w].job[1], VersionOf(w)>>
    BY <1>0, WorkFacts DEF WorkOK, VersionOf
  <1>4. VersionOf(w) = Row(w).current /\ optimizeContext(w) => versions[work[w].job] # None
    BY <1>3 DEF optimizeContext
  <1> QED
    BY <1>1, <1>2, <1>4 DEF Context

LEMMA GetStep ==
  ASSUME PlatformInv, NEW w \in Workers, Get(w), UNCHANGED <<quotaVars, targets, req, faults>>
  PROVE  PlatformInv'
  <1>0. UNCHANGED <<registryVars, bucketVars, queueVars, described, recorded>> /\ work[w].pc = "get"
    BY DEF Get, Doing
  <1>a. work[w].job \in AssetIds \X Versions /\ work[w].job \in Rows /\ work[w].todo \subseteq WarmSet
    BY <1>0, WorkFacts DEF WorkOK, Chosen
  <1>1. CASE Proceed(w, "idle")
    BY <1>0, <1>1, GiveUp DEF Doing
  <1>2. ASSUME NEW l \in {"failRead", "master"}, originals[work[w].key] \in Contents,
               Turn(w, On([work[w] EXCEPT !.source = originals[work[w].key]], l))
        PROVE  PlatformInv'
    <2> DEFINE p == [work[w] EXCEPT !.source = originals[work[w].key]]
               q == On(p, l)
    <2>1. /\ p \in WorkState /\ p.job = work[w].job /\ p.todo = work[w].todo
          /\ p.source \in Contents
      BY <1>2, WorkFacts, SMTT(30) DEF WorkState
    <2>2. l \in WorkLabels /\ l # "idle"
      BY DEF WorkLabels
    <2>3. q \in WorkState /\ q.pc = l /\ q.job = p.job /\ q.todo = p.todo /\ q.source = p.source
      BY <2>1, <2>2, OnFields, ZenonT(60)
    <2> HIDE DEF p, q
    <2>4. WorkOK(q, Rows, Live, Renditions, Known)
      BY <1>a, <2>1, <2>3 DEF WorkOK, Warming, Completing
    <2> QED
      BY <1>0, <1>2, <2>3, <2>4, StillMove DEF Turn, p, q
  <1>3. CASE /\ originals[work[w].key] \in Contents
             /\ Turn(w, On([[work[w] EXCEPT !.source = originals[work[w].key]] EXCEPT !.todo = WarmSet], "warm"))
    <2> DEFINE o == [work[w] EXCEPT !.source = originals[work[w].key]]
               p == [o EXCEPT !.todo = WarmSet]
               q == On(p, "warm")
    <2>1. o \in WorkState /\ o.job = work[w].job /\ o.source \in Contents
      BY <1>3, WorkFacts DEF WorkState
    <2>2. p \in WorkState /\ p.job = o.job /\ p.todo = WarmSet /\ p.source = o.source
      BY <2>1 DEF WorkState
    <2>3. "warm" \in WorkLabels
      BY DEF WorkLabels
    <2>4. q \in WorkState /\ q.pc = "warm" /\ q.job = p.job /\ q.todo = p.todo /\ q.source = p.source
      BY <2>2, <2>3, OnFields, ZenonT(60)
    <2> HIDE DEF o, p, q
    <2>5. WorkOK(q, Rows, Live, Renditions, Known)
      BY <1>a, <2>1, <2>2, <2>4 DEF WorkOK, Completing
    <2> QED
      BY <1>0, <1>3, <2>4, <2>5, StillMove DEF Turn, o, p, q
  <1>4. \/ Proceed(w, "idle")
        \/ /\ originals[work[w].key] \in Contents
           /\ \E l \in {"failRead", "master"} :
                Turn(w, On([work[w] EXCEPT !.source = originals[work[w].key]], l))
        \/ /\ originals[work[w].key] \in Contents
           /\ Turn(w, On([[work[w] EXCEPT !.source = originals[work[w].key]] EXCEPT !.todo = WarmSet], "warm"))
    BY Zenon DEF Get
  <1> QED
    BY <1>1, <1>2, <1>3, <1>4

\* A step that changes nothing shared but one derived object, which it puts.
LEMMA PutMove ==
  ASSUME PlatformInv, NEW w \in Workers, NEW d \in DerivedKeys, NEW c \in Contents,
         PutDerived(d, c) \/ PutIfAbsent(d, c),
         UNCHANGED <<registryVars, queueVars, described, recorded>>,
         UNCHANGED <<quotaVars, targets, req, faults>>,
         NEW STATE q, work' = [work EXCEPT ![w] = q],
         q \in WorkState, WorkOK(q, Rows, Live, Renditions \cup {d}, Known)
  PROVE  PlatformInv'
  <1>0. BucketTypeOK /\ QueueTypeOK /\ WorkerTypeOK /\ derived \in [DerivedKeys -> Contents \cup {None}]
    BY WorkFacts DEF BucketTypeOK
  <1>1. PICK b \in Contents : derived' = [derived EXCEPT ![d] = b] /\ UNCHANGED <<staging, originals>>
    BY <1>0 DEF PutDerived, PutIfAbsent
  <1>2. BucketTypeOK' /\ QueueTypeOK'
    BY <1>0, <1>1, SameOthers DEF BucketTypeOK
  <1>3. Renditions' = Renditions \cup {d} /\ Known' = Known
    BY <1>0, <1>1 DEF Renditions, Known
  <1>4. Touches(w) /\ Frame
    BY <1>1 DEF Touches, Frame, registryVars
  <1>5. Adds
    BY <1>0, <1>2, <1>3 DEF Adds, WorkerTypeOK
  <1> QED
    BY <1>3, <1>4, <1>5, WorkMove

LEMMA PutMasterStep ==
  ASSUME PlatformInv, NEW w \in Workers, PutMaster(w), UNCHANGED <<quotaVars, targets, req, faults>>
  PROVE  PlatformInv'
  <1> DEFINE p == [work[w] EXCEPT !.todo = WarmSet]
             q == On(p, "warm")
             d == RenditionKey(w, "master")
  <1>0. work[w].pc = "master"
    BY DEF PutMaster, Doing
  <1>1. work[w].job \in AssetIds \X Versions /\ work[w].job \in Rows /\ work[w].source \in Contents
    BY <1>0, WorkFacts DEF WorkOK, Chosen
  <1>2. d \in DerivedKeys
    BY <1>1 DEF RenditionKey, DerivedKeys
  <1>3. p \in WorkState /\ p.job = work[w].job /\ p.todo = WarmSet /\ p.source = work[w].source
    BY WorkFacts, SMTT(30) DEF WorkState
  <1>4. "warm" \in WorkLabels
    BY DEF WorkLabels
  <1> HIDE DEF p, d
  <1>5. q \in WorkState /\ q.pc = "warm" /\ q.job = p.job /\ q.todo = p.todo /\ q.source = p.source
    BY <1>3, <1>4, OnFields
  <1> HIDE DEF q
  <1>6. WorkOK(q, Rows, Live, Renditions \cup {d}, Known)
    BY <1>1, <1>3, <1>5 DEF WorkOK, Completing
  <1>7. /\ PutDerived(d, work[w].source) /\ work' = [work EXCEPT ![w] = q]
        /\ UNCHANGED <<registryVars, queueVars, described, recorded>>
    BY DEF PutMaster, Turn, d, q, p
  <1> QED
    BY <1>1, <1>2, <1>5, <1>6, <1>7, PutMove

LEMMA RenderStep ==
  ASSUME PlatformInv, NEW w \in Workers, NEW v \in WarmSet, Render(w, v),
         UNCHANGED <<quotaVars, targets, req, faults>>
  PROVE  PlatformInv'
  <1> DEFINE o == [work[w] EXCEPT !.todo = work[w].todo \ {v}]
             d == RenditionKey(w, v)
  <1>0. work[w].pc = "warm" /\ v \in work[w].todo
    BY DEF Render, Doing
  <1>1. /\ work[w].job \in AssetIds \X Versions /\ work[w].job \in Rows /\ work[w].source \in Contents
        /\ work[w].todo \subseteq WarmSet
        /\ work[w].job[1] \in Live =>
             \A u \in WarmSet \ work[w].todo : <<work[w].job[1], work[w].job[2], u>> \in Renditions
    BY <1>0, WorkFacts DEF WorkOK, Chosen, Warming
  <1>2. d \in DerivedKeys /\ v \in Variants /\ d = <<work[w].job[1], work[w].job[2], v>>
    BY <1>1 DEF RenditionKey, DerivedKeys
  <1>3. /\ o \in WorkState /\ o.job = work[w].job /\ o.todo = work[w].todo \ {v}
        /\ o.source = work[w].source /\ o.pc = "warm"
    BY <1>0, <1>1, WorkFacts DEF WorkState
  <1>4. \A D : Renditions \subseteq D /\ d \in D /\ work[w].job[1] \in Live =>
          \A u \in WarmSet \ o.todo : <<work[w].job[1], work[w].job[2], u>> \in D
    BY <1>1, <1>2, <1>3
  <1>5. CASE derived[d] # None /\ Turn(w, o) /\ UNCHANGED bucketVars
    <2>1. d \in Renditions
      BY <1>2, <1>5 DEF Renditions
    <2> HIDE DEF o, d
    <2>2. WorkOK(o, Rows, Live, Renditions, Known)
      BY <1>1, <1>3, <1>4, <2>1 DEF WorkOK, Completing
    <2> QED
      BY <1>3, <1>5, <2>2, StillMove DEF Render, Turn
  <1>6. CASE /\ PutIfAbsent(d, work[w].source)
             /\ Turn(w, On([o EXCEPT !.variant = v], "record"))
    <2> DEFINE p == [o EXCEPT !.variant = v]
               q == On(p, "record")
    <2> HIDE DEF o, d
    <2>1. /\ p \in WorkState /\ p.job = o.job /\ p.todo = o.todo /\ p.source = o.source
          /\ p.variant = v
      BY <1>2, <1>3 DEF WorkState
    <2>2. "record" \in WorkLabels
      BY DEF WorkLabels
    <2> HIDE DEF p
    <2>3. /\ q \in WorkState /\ q.pc = "record" /\ q.job = p.job /\ q.todo = p.todo
          /\ q.source = p.source /\ q.variant = p.variant
      BY <2>1, <2>2, OnFields
    <2> HIDE DEF q
    <2>a. q.job = work[w].job /\ q.todo = o.todo /\ q.source \in Contents
          /\ q.todo \subseteq WarmSet /\ q.variant \in WarmSet \ q.todo
      BY <1>1, <1>3, <2>1, <2>3
    <2>b. work[w].job[1] \in Live =>
            \A u \in WarmSet \ o.todo : <<work[w].job[1], work[w].job[2], u>> \in Renditions \cup {d}
      BY <1>4
    <2>4. WorkOK(q, Rows, Live, Renditions \cup {d}, Known)
      BY <1>1, <2>3, <2>a, <2>b DEF WorkOK, Completing
    <2>5. work' = [work EXCEPT ![w] = q]
      BY <1>6 DEF Turn, p, q
    <2>6. UNCHANGED <<registryVars, queueVars, described, recorded>>
      BY DEF Render
    <2> QED
      BY <1>1, <1>2, <1>6, <2>3, <2>4, <2>5, <2>6, PutMove
  <1> QED
    BY <1>5, <1>6 DEF Render

LEMMA RecordStep ==
  ASSUME PlatformInv, NEW w \in Workers, Record(w), UNCHANGED <<quotaVars, targets, req, faults>>
  PROVE  PlatformInv'
  <1> DEFINE q == On(work[w], "warm")
             d == RenditionKey(w, work[w].variant)
  <1>0. work[w].pc = "record" /\ UNCHANGED <<registryVars, bucketVars, queueVars, described>>
    BY DEF Record, Doing
  <1>1. /\ work[w].job \in AssetIds \X Versions /\ work[w].job \in Rows /\ work[w].source \in Contents
        /\ work[w].todo \subseteq WarmSet /\ work[w].variant \in WarmSet \ work[w].todo
        /\ work[w].job[1] \in Live =>
             \A u \in WarmSet \ work[w].todo : <<work[w].job[1], work[w].job[2], u>> \in Renditions
    BY <1>0, WorkFacts DEF WorkOK, Chosen, Warming
  <1>2. /\ d \in DerivedKeys /\ d = <<work[w].job[1], work[w].job[2], work[w].variant>>
        /\ d[1] = work[w].job[1] /\ <<d[1], d[2]>> = work[w].job
    BY <1>1 DEF RenditionKey, DerivedKeys
  <1>3. d[1] \in Live => d \in Renditions
    BY <1>1, <1>2
  <1>4. "warm" \in WorkLabels
    BY DEF WorkLabels
  <1> HIDE DEF d
  <1>5. q \in WorkState /\ q.pc = "warm" /\ q.job = work[w].job /\ q.todo = work[w].todo
        /\ q.source = work[w].source
    BY <1>4, WorkFacts, OnFields
  <1>6. work' = [work EXCEPT ![w] = q]
    BY DEF Record, Proceed, Turn
  <1> HIDE DEF q
  <1>7. Renditions' = Renditions /\ Known' = Known
    BY <1>0 DEF Renditions, Known, bucketVars
  <1>8. WorkOK(q, Rows, Live, Renditions, Known)
    BY <1>1, <1>5 DEF WorkOK, Completing
  <1>9. Touches(w) /\ Frame
    BY <1>0 DEF Touches, Frame, registryVars, bucketVars
  <1>10. recorded' \ recorded \subseteq {d}
    BY DEF Record, d
  <1>11. Adds
    BY <1>0, <1>1, <1>2, <1>3, <1>7, <1>10, WorkFacts, SameOthers DEF Adds, WorkerTypeOK
  <1> QED
    BY <1>5, <1>6, <1>7, <1>8, <1>9, <1>11, WorkMove

LEMMA CompleteStep ==
  ASSUME PlatformInv, NEW w \in Workers, Complete(w), UNCHANGED <<quotaVars, targets, req, faults>>
  PROVE  PlatformInv'
  <1>0. /\ work[w].pc = "warm" /\ work[w].todo = {}
        /\ UNCHANGED <<registryVars, bucketVars, queueVars, described, recorded>>
    BY DEF Complete, Doing
  <1>1. CASE Proceed(w, "idle")
    BY <1>0, <1>1, GiveUp DEF Doing
  <1>2. CASE Proceed(w, "describe")
    <2> DEFINE q == On(work[w], "describe")
    <2>1. "describe" \in WorkLabels
      BY DEF WorkLabels
    <2>2. q \in WorkState /\ q.pc = "describe" /\ q.job = work[w].job /\ q.todo = work[w].todo
          /\ q.source = work[w].source
      BY <2>1, WorkFacts, OnFields
    <2> HIDE DEF q
    <2>3. WorkOK(q, Rows, Live, Renditions, Known)
      BY <1>0, <2>2, WorkFacts DEF WorkOK, Chosen, Warming, Completing
    <2> QED
      BY <1>0, <1>2, <2>2, <2>3, StillMove DEF Proceed, Turn, q
  <1> QED
    BY <1>1, <1>2 DEF Complete

LEMMA DescribeStep ==
  ASSUME PlatformInv, NEW w \in Workers, Describe(w), UNCHANGED <<quotaVars, targets, req, faults>>
  PROVE  PlatformInv'
  <1>0. work[w].pc = "describe" /\ UNCHANGED <<registryVars, bucketVars, queueVars, recorded>>
    BY DEF Describe, Doing
  <1>1. CASE Proceed(w, "idle") /\ UNCHANGED described
    BY <1>0, <1>1, GiveUp DEF Doing
  <1>2. CASE /\ described' = [described EXCEPT ![work[w].job] = work[w].source]
             /\ Proceed(w, "readyRead")
    <2> DEFINE q == On(work[w], "readyRead")
    <2>1. "readyRead" \in WorkLabels
      BY DEF WorkLabels
    <2>2. q \in WorkState /\ q.pc = "readyRead" /\ q.job = work[w].job /\ q.todo = work[w].todo
          /\ q.source = work[w].source
      BY <2>1, WorkFacts, OnFields
    <2>3. work' = [work EXCEPT ![w] = q]
      BY <1>2 DEF Proceed, Turn
    <2> HIDE DEF q
    <2>4. work[w].job \in AssetIds \X Versions /\ work[w].source \in Contents
      BY <1>0, WorkFacts DEF WorkOK, Warming, Completing
    <2>5. described' \in [AssetIds \X Versions -> Contents \cup {None}]
      BY <1>2, <2>4, WorkFacts DEF WorkerTypeOK
    <2>6. Renditions' = Renditions /\ Known' = Known \cup {work[w].job}
      BY <1>0, <1>2, <2>4, WorkFacts, ZenonT(60) DEF Renditions, Known, bucketVars, WorkerTypeOK
    <2>7. WorkOK(q, Rows, Live, Renditions, Known \cup {work[w].job})
      BY <1>0, <2>2, WorkFacts DEF WorkOK, Chosen, Warming, Completing
    <2>8. Touches(w) /\ Frame
      BY <1>0 DEF Touches, Frame, registryVars, bucketVars
    <2>9. Adds
      BY <1>0, <2>5, <2>6, WorkFacts, SameOthers DEF Adds
    <2> QED
      BY <2>2, <2>3, <2>6, <2>7, <2>8, <2>9, WorkMove
  <1> QED
    BY <1>1, <1>2 DEF Describe

LEMMA StatusReadStep ==
  ASSUME PlatformInv, NEW w \in Workers, ReadyRead(w) \/ FailRead(w),
         UNCHANGED <<quotaVars, targets, req, faults>>
  PROVE  PlatformInv'
  <1>0. /\ work[w].pc \in {"readyRead", "failRead"}
        /\ UNCHANGED <<registryVars, bucketVars, queueVars, described, recorded>>
    BY DEF ReadyRead, FailRead, Doing
  <1>1. CASE Proceed(w, "idle") \/ Proceed(w, "acknowledge")
    BY <1>0, <1>1, GiveUp DEF Doing
  <1>2. ASSUME NEW l \in {"readyWrite", "failWrite"}, Proceed(w, l),
               l = "readyWrite" => work[w].pc = "readyRead"
        PROVE  PlatformInv'
    <2> DEFINE q == On(work[w], l)
    <2>1. l \in WorkLabels /\ l # "idle"
      BY DEF WorkLabels
    <2>2. q \in WorkState /\ q.pc = l /\ q.job = work[w].job /\ q.todo = work[w].todo
          /\ q.source = work[w].source
      BY <2>1, WorkFacts, OnFields
    <2> HIDE DEF q
    <2>3. WorkOK(q, Rows, Live, Renditions, Known)
      BY <1>0, <1>2, <2>2, WorkFacts DEF WorkOK, Chosen, Warming, Completing
    <2> QED
      BY <1>0, <1>2, <2>2, <2>3, StillMove DEF Proceed, Turn, q
  <1> QED
    BY <1>1, <1>2 DEF ReadyRead, FailRead, Doing

LEMMA StatusWriteStep ==
  ASSUME PlatformInv, NEW w \in Workers, ReadyWrite(w) \/ FailWrite(w),
         UNCHANGED <<quotaVars, targets, req, faults>>
  PROVE  PlatformInv'
  <1> DEFINE q == On(work[w], "acknowledge")
  <1>0. /\ work[w].pc \in {"readyWrite", "failWrite"} /\ work' = [work EXCEPT ![w] = q]
        /\ UNCHANGED <<bucketVars, queueVars, described, recorded>>
    BY DEF ReadyWrite, FailWrite, Doing, Proceed, Turn
  <1>1. q \in WorkState /\ WorkOK(q, Rows, Live, Renditions, Known)
    BY <1>0, WorkFacts, DoneOK
  <1> HIDE DEF q
  <1>2. Touches(w)
    BY DEF ReadyWrite, FailWrite, Doing, SetStatus, Touches
  <1>3. Frame
    BY <1>0 DEF ReadyWrite, FailWrite, SetStatus, Frame, bucketVars
  <1>4. Renditions' = Renditions /\ Known' = Known
    BY <1>0 DEF Renditions, Known, bucketVars
  <1>5. Adds
    BY <1>0, <1>4, WorkFacts, SameOthers DEF Adds, WorkerTypeOK
  <1> QED
    BY <1>0, <1>1, <1>2, <1>3, <1>4, <1>5, WorkMove

LEMMA AcknowledgeStep ==
  ASSUME PlatformInv, NEW w \in Workers, Acknowledge(w), UNCHANGED <<quotaVars, targets, req, faults>>
  PROVE  PlatformInv'
  <1> DEFINE q == On(work[w], "idle")
  <1>0. /\ work[w].pc = "acknowledge" /\ work' = [work EXCEPT ![w] = q]
        /\ UNCHANGED <<registryVars, bucketVars, described, recorded>>
    BY DEF Acknowledge, Doing, Proceed, Turn
  <1>1. q \in WorkState /\ WorkOK(q, Rows, Live, Renditions, Known)
    BY <1>0, WorkFacts, DoneOK
  <1> HIDE DEF q
  <1>2. Touches(w) /\ Frame
    BY <1>0 DEF Touches, Frame, registryVars, bucketVars
  <1>3. QueueTypeOK'
    BY WorkFacts DEF Acknowledge, acknowledge, QueueTypeOK
  <1>4. Renditions' = Renditions /\ Known' = Known
    BY <1>0 DEF Renditions, Known, bucketVars
  <1>5. Adds
    BY <1>0, <1>3, <1>4, WorkFacts, SameOthers DEF Adds, WorkerTypeOK
  <1> QED
    BY <1>0, <1>1, <1>2, <1>4, <1>5, WorkMove

LEMMA DeadLetterStep ==
  ASSUME PlatformInv, NEW m \in jobs, DeadLetter(m), UNCHANGED <<quotaVars, targets, req, faults>>
  PROVE  PlatformInv'
  <1>0. TypeInv /\ SafetyInv /\ WorkerTypeOK /\ WorkInv /\ RecordedInv /\ ReadyIsEarned /\ InventoryIsReal
    BY DEF PlatformInv
  <1>1. /\ UNCHANGED assets /\ UNCHANGED derived /\ Frame
        /\ UNCHANGED work /\ UNCHANGED described /\ UNCHANGED recorded
    BY DEF DeadLetter, Frame, registryVars, bucketVars, workerVars
  <1>2. SameStatus
    BY <1>0, <1>1 DEF SameStatus, Exists, TypeInv, TypeOK, RegistryTypeOK
  <1>3. BucketTypeOK' /\ QueueTypeOK'
    BY <1>0, SameOthers DEF DeadLetter, deadLetter, TypeInv, TypeOK, QueueTypeOK
  <1>4. TypeInv' /\ SafetyInv' /\ Rows' = Rows /\ Live' = Live
    BY <1>0, <1>1, <1>2, <1>3, SameStatusKeeps
  <1>5. Renditions' = Renditions /\ Known' = Known
    BY <1>1 DEF Renditions, Known
  <1>6. WorkerTypeOK' /\ WorkInv' /\ RecordedInv'
    BY <1>0, <1>1, <1>4, <1>5 DEF WorkerTypeOK, WorkInv, RecordedInv
  <1>7. ReadyIsEarned' /\ InventoryIsReal'
    BY <1>0, <1>1 DEF ReadyIsEarned, InventoryIsReal, WarmSetExists, Visible, Exists
  <1> QED
    BY <1>4, <1>6, <1>7 DEF PlatformInv

LEMMA OptimizeStep ==
  ASSUME PlatformInv, Optimize
  PROVE  PlatformInv'
  <1>0. UNCHANGED <<quotaVars, targets, req, faults>>
    BY DEF Optimize
  <1>1. ASSUME NEW w \in Workers, Swallow(w) \/ Abandon(w)
        PROVE  PlatformInv'
    BY <1>0, <1>1, GiveUp DEF Swallow, Abandon, Doing
  <1>2. ASSUME NEW w \in Workers, Step(w)
        PROVE  PlatformInv'
    BY <1>0, <1>1, <1>2, ReceiveStep, ContextStep, GetStep, PutMasterStep, RenderStep, RecordStep,
       CompleteStep, DescribeStep, StatusReadStep, StatusWriteStep, AcknowledgeStep DEF Step
  <1> QED
    BY <1>0, <1>2, DeadLetterStep DEF Optimize, WorkerNext

LEMMA PlatformInvStep == PlatformInv /\ [PlatformNext]_platformVars => PlatformInv'
  <1> SUFFICES ASSUME PlatformInv, [PlatformNext]_platformVars
               PROVE  PlatformInv'
    OBVIOUS
  <1>1. CASE UNCHANGED platformVars
    <2>0. TypeInv /\ SafetyInv /\ WorkerTypeOK /\ WorkInv /\ RecordedInv /\ ReadyIsEarned /\ InventoryIsReal
      BY DEF PlatformInv
    <2>1. UNCHANGED vars /\ UNCHANGED workerVars
      BY <1>1 DEF platformVars
    <2>2. TypeInv' /\ SafetyInv'
      BY <2>0, <2>1, TypeStep, SafetyStep
    <2>3. /\ UNCHANGED <<assets, versions, derived>>
          /\ UNCHANGED work /\ UNCHANGED described /\ UNCHANGED recorded
      BY <2>1 DEF vars, sharedVars, registryVars, bucketVars, workerVars
    <2>4. Rows' = Rows /\ Live' = Live /\ Renditions' = Renditions /\ Known' = Known
      BY <2>3 DEF Rows, Live, Renditions, Known, Visible, Exists
    <2>5. WorkerTypeOK' /\ WorkInv' /\ RecordedInv'
      BY <2>0, <2>3, <2>4 DEF WorkerTypeOK, WorkInv, RecordedInv
    <2>6. ReadyIsEarned' /\ InventoryIsReal'
      BY <2>0, <2>3 DEF ReadyIsEarned, InventoryIsReal, WarmSetExists, Visible, Exists
    <2> QED
      BY <2>2, <2>5, <2>6 DEF PlatformInv
  <1> QED
    BY <1>1, ServeStep, OptimizeStep DEF PlatformNext

---------------------------------------------------------------------------
(* Theorems. *)

LEMMA PlatformSpecInv == PlatformSpec => []PlatformInv
  BY PlatformInvInit, PlatformInvStep, PTL DEF PlatformSpec

\* Every reachable state of the whole is well typed: a worker's row writes,
\* puts and deliveries stay within the values their stores may hold.
THEOREM PlatformTypeCorrect == PlatformSpec => []PlatformTypeOK
  <1>1. PlatformInv => PlatformTypeOK
    BY DEF PlatformInv, PlatformTypeOK, TypeInv
  <1> QED
    BY <1>1, PlatformSpecInv, PTL

\* An asset is ready only when a version of it has its whole warm set and its
\* metadata, for any number of workers, requests, redeliveries and deaths.
THEOREM ReadyIsEarnedCorrect == PlatformSpec => []ReadyIsEarned
  <1>1. PlatformInv => ReadyIsEarned
    BY DEF PlatformInv
  <1> QED
    BY <1>1, PlatformSpecInv, PTL

\* Every derivative row of a visible asset names an object in the bucket.
THEOREM InventoryIsRealCorrect == PlatformSpec => []InventoryIsReal
  <1>1. PlatformInv => InventoryIsReal
    BY DEF PlatformInv
  <1> QED
    BY <1>1, PlatformSpecInv, PTL

\* With workers writing the same rows, a visible version still has its source.
THEOREM SourceDurableOnPlatform == PlatformSpec => []CurrentSourceDurable
  <1>1. PlatformInv => CurrentSourceDurable
    BY DEF PlatformInv, SafetyInv
  <1> QED
    BY <1>1, PlatformSpecInv, PTL

LEMMA StepTouches ==
  ASSUME NEW w \in Workers, Step(w)
  PROVE  Touches(w)
  <1> USE DEF Touches, registryVars
  <1>1. CASE \/ \E m \in jobs : Receive(w, m)
             \/ Context(w) \/ Get(w) \/ PutMaster(w) \/ \E v \in WarmSet : Render(w, v)
    BY <1>1 DEF Receive, Context, Get, PutMaster, Render
  <1>2. CASE \/ Record(w) \/ Complete(w) \/ Describe(w) \/ ReadyRead(w) \/ FailRead(w)
             \/ Swallow(w) \/ Acknowledge(w) \/ Abandon(w)
    BY <1>2 DEF Record, Complete, Describe, ReadyRead, FailRead, Swallow, Acknowledge, Abandon
  <1>3. CASE ReadyWrite(w) \/ FailWrite(w)
    BY <1>3 DEF ReadyWrite, FailWrite, SetStatus, Doing
  <1> QED
    BY <1>1, <1>2, <1>3 DEF Step

\* The control plane and the workers together implement AssetLife: a worker's
\* late status write neither publishes a version nor brings an asset back.
THEOREM PlatformLifeImplemented == PlatformSpec => ImplementsAssetLife
  <1>1. PlatformInv /\ [PlatformNext]_platformVars => [Life!Next]_(Life!lifeVars)
    <2> SUFFICES ASSUME PlatformInv, [PlatformNext]_platformVars
                 PROVE  [Life!Next]_(Life!lifeVars)
      OBVIOUS
    <2>0. TypeInv /\ SafetyInv
      BY DEF PlatformInv
    <2>1. CASE Serve \/ UNCHANGED platformVars
      <3>1. [Next]_vars
        BY <2>1 DEF Serve, platformVars
      <3> QED
        BY <2>0, <3>1, LifeStep
    <2>2. ASSUME SameStatus
          PROVE  UNCHANGED Life!lifeVars
      <3>1. lifeOf' = lifeOf
        BY <2>2 DEF SameStatus, lifeOf
      <3>2. shownOf' = shownOf
        BY <2>2 DEF SameStatus, shownOf, Visible
      <3> QED
        BY <3>1, <3>2 DEF Life!lifeVars
    <2>3. CASE Optimize
      <3>1. ASSUME NEW w \in Workers, Step(w)
            PROVE  SameStatus
        BY <3>1, StepTouches, TouchSame
      <3>2. ASSUME NEW m \in jobs, DeadLetter(m)
            PROVE  SameStatus
        BY <2>0, <3>2 DEF DeadLetter, registryVars, SameStatus, Exists, TypeInv, TypeOK, RegistryTypeOK
      <3> QED
        BY <2>2, <2>3, <3>1, <3>2 DEF Optimize, WorkerNext
    <2> QED
      BY <2>1, <2>3 DEF PlatformNext
  <1>2. PlatformInit => Life!Init
    BY LifeInit DEF PlatformInit
  <1> QED
    BY <1>1, <1>2, PlatformSpecInv, PTL DEF PlatformSpec, Life!Spec, ImplementsAssetLife
=============================================================================
