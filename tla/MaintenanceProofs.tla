-------------------------- MODULE MaintenanceProofs --------------------------
(***************************************************************************)
(* Reclamation beside requests and workers: how many originals a run can   *)
(* destroy at most, that a dry run destroys nothing, that the composition  *)
(* is typed, and that the original of a current version survives, as long  *)
(* as uploads of one asset do not overlap.                                 *)
(***************************************************************************)
EXTENDS Maintenance, PlatformProofs

MaintFields == {"pc", "dry", "todo", "item", "live", "prefix", "stray", "deletions", "basis", "lost"}

\* A destroyed original is counted as a deletion by the end of its item at the latest.
InItem == maint.pc \in {"reapRead", "reapWrite", "expireDerived", "expireRows"}
Uncounted == IF maint.pc \in {"expireDerived", "expireRows"} THEN 1 ELSE 0

RunInv ==
  /\ DOMAIN maint = MaintFields
  /\ maint.deletions \in Nat /\ maint.lost \in Nat
  /\ maint.deletions <= MaxDeletions
  /\ maint.lost <= maint.deletions + Uncounted
  /\ InItem => maint.deletions < MaxDeletions /\ ~maint.dry

\* The fields of a run that matter here, after a step.
Becomes(pc, deletions, lost) ==
  /\ DOMAIN maint' = MaintFields
  /\ maint'.pc = pc /\ maint'.deletions = deletions /\ maint'.lost = lost /\ maint'.dry = maint.dry

\* A step within the cap that counts what it destroys.
LEMMA RunInvKept ==
  ASSUME NEW pc, NEW deletions \in Nat, NEW lost \in Nat, Becomes(pc, deletions, lost),
         deletions <= MaxDeletions,
         lost <= deletions \/ (lost <= deletions + 1 /\ pc \in {"expireDerived", "expireRows"}),
         pc \in {"reapRead", "reapWrite", "expireDerived", "expireRows"} => deletions < MaxDeletions /\ ~maint.dry
  PROVE  RunInv'
  BY DEF RunInv, Becomes, InItem, Uncounted

LEMMA RunInvInit == ReclaimInit => RunInv
  <1> SUFFICES ASSUME NEW dry \in BOOLEAN, maint = Idling(dry) PROVE RunInv
    BY DEF ReclaimInit
  <1> QED
    BY MaintenanceAssumption DEF Idling, RunInv, MaintFields, InItem, Uncounted

\* Every step of a run keeps the count, and a dry run's leaves the stores alone.
Untouched == UNCHANGED <<registryVars, bucketVars, queueVars, described, recorded>>

LEMMA RunInvStep ==
  ASSUME RunInv, Reclaim
  PROVE  RunInv' /\ (maint.dry => Untouched)
PROOF
  <1> USE MaintenanceAssumption
  <1> DEFINE d == maint.deletions
             l == maint.lost
  <1>a. /\ d \in Nat /\ l \in Nat /\ d <= MaxDeletions /\ l <= d + 1
        /\ ~(maint.pc \in {"expireDerived", "expireRows"}) => l <= d
        /\ canDelete => d < MaxDeletions /\ d + 1 \in Nat /\ d + 1 <= MaxDeletions
    BY DEF RunInv, Uncounted, canDelete
  <1>b. UNCHANGED platformVars => Untouched
    BY DEF platformVars, vars, sharedVars, Untouched, workerVars
  \* A step that neither deletes nor enters an item.
  <1>c. ASSUME NEW pc, pc \notin {"reapRead", "reapWrite", "expireDerived", "expireRows"}, Becomes(pc, d, l), l <= d
        PROVE  RunInv'
    BY <1>a, <1>c, RunInvKept
  <1>1. CASE \E old \in SUBSET Abandoned : StartRun(old)
    <2>1. Becomes("reap", d, l) /\ l <= d
      BY <1>1, <1>a DEF StartRun, Run, RunInv, MaintFields, Becomes
    <2> QED
      BY <1>1, <1>b, <1>c, <2>1 DEF StartRun
  <1>2. ASSUME NEW a \in AssetIds, ReapStaged(a) PROVE RunInv' /\ (maint.dry => Untouched)
    <2>1. CASE maint.dry
      <3>1. Becomes("reap", d + 1, l)
        BY <1>2, <2>1 DEF ReapStaged, Run, Skipped, RunInv, MaintFields, Becomes
      <3>2. RunInv'
        BY <1>2, <1>a, <3>1, RunInvKept DEF ReapStaged
      <3> QED
        BY <1>2, <2>1, <3>2 DEF ReapStaged, KeepRows, Untouched, workerVars
    <2>2. CASE ~maint.dry
      <3>1. Becomes("reapRead", d, l)
        BY <1>2, <2>2 DEF ReapStaged, Run, RunInv, MaintFields, Becomes
      <3> QED
        BY <1>2, <1>a, <2>2, <3>1, RunInvKept DEF ReapStaged
    <2> QED
      BY <2>1, <2>2
  <1>3. CASE ReapRead
    <2>1. d < MaxDeletions /\ ~maint.dry /\ l <= d
      BY <1>3, <1>a DEF ReapRead, RunInv, InItem
    <2>2. Becomes("reapWrite", d, l) \/ Becomes("reap", d + 1, l)
      BY <1>3 DEF ReapRead, Run, Counted, RunInv, MaintFields, Becomes
    <2> QED
      BY <1>a, <2>1, <2>2, RunInvKept
  <1>4. CASE ReapWrite
    <2>1. d < MaxDeletions /\ ~maint.dry /\ l <= d
      BY <1>4, <1>a DEF ReapWrite, RunInv, InItem
    <2>2. Becomes("reap", d + 1, l)
      BY <1>4 DEF ReapWrite, Run, Counted, RunInv, MaintFields, Becomes
    <2> QED
      BY <1>a, <2>1, <2>2, RunInvKept
  <1>5. ASSUME NEW old \in SUBSET Superseded, SelectSuperseded(old) PROVE RunInv' /\ (maint.dry => Untouched)
    <2>1. Becomes("expire", d, l) /\ l <= d
      BY <1>5, <1>a DEF SelectSuperseded, LoopOver, Run, RunInv, MaintFields, Becomes
    <2> QED
      BY <1>5, <1>b, <1>c, <2>1 DEF SelectSuperseded
  <1>6. ASSUME NEW v \in AssetIds \X Versions, ExpireSource(v) PROVE RunInv' /\ (maint.dry => Untouched)
    <2>0. maint.pc = "expire" /\ l <= d /\ canDelete
      BY <1>6, <1>a DEF ExpireSource
    <2>1. CASE maint.dry
      <3>1. Becomes("expire", d + 1, l)
        BY <1>6, <2>0, <2>1 DEF ExpireSource, Run, Skipped, RunInv, MaintFields, Becomes
      <3>2. RunInv'
        BY <1>a, <2>0, <3>1, RunInvKept
      <3> QED
        BY <1>6, <2>1, <3>2 DEF ExpireSource, KeepRows, Untouched, workerVars
    <2>2. CASE ~maint.dry
      <3>1. Becomes("expireDerived", d, l) \/ Becomes("expireDerived", d, l + 1)
        <4> DEFINE lost == IF Present(versions[v].source) THEN 1 ELSE 0
        <4>1. \/ maint' = [maint EXCEPT !.pc = "expireDerived", !.item = v, !.lost = @ + lost]
              \/ maint' = [maint EXCEPT !.pc = "expireDerived", !.item = v]
          BY <1>6, <2>2 DEF ExpireSource, Run
        <4>2. lost = 0 \/ lost = 1
          OBVIOUS
        <4> HIDE DEF lost
        <4>3. DOMAIN maint = MaintFields /\ l + 0 = l
          BY <1>a DEF RunInv
        <4>4. CASE maint' = [maint EXCEPT !.pc = "expireDerived", !.item = v, !.lost = @ + lost]
          BY <4>2, <4>3, <4>4 DEF MaintFields, Becomes
        <4>5. CASE maint' = [maint EXCEPT !.pc = "expireDerived", !.item = v]
          BY <4>3, <4>5 DEF MaintFields, Becomes
        <4> QED
          BY <4>1, <4>4, <4>5
      <3> QED
        BY <1>a, <2>0, <2>2, <3>1, RunInvKept
    <2> QED
      BY <2>1, <2>2
  <1>7. CASE ExpireDerived
    <2>1. d < MaxDeletions /\ ~maint.dry
      BY <1>7 DEF ExpireDerived, RunInv, InItem
    <2>2. Becomes("expireRows", d, l)
      BY <1>7 DEF ExpireDerived, Run, RunInv, MaintFields, Becomes
    <2> QED
      BY <1>a, <2>1, <2>2, RunInvKept
  <1>8. CASE ExpireRows
    <2>1. d < MaxDeletions /\ ~maint.dry
      BY <1>8 DEF ExpireRows, RunInv, InItem
    <2>2. Becomes("expire", d + 1, l)
      BY <1>8 DEF ExpireRows, Run, Counted, RunInv, MaintFields, Becomes
    <2> QED
      BY <1>a, <2>1, <2>2, RunInvKept
  <1>9. CASE LoadLive
    <2>1. Becomes("list", d, l) /\ l <= d
      BY <1>9, <1>a DEF LoadLive, LoopOver, Run, RunInv, MaintFields, Becomes
    <2> QED
      BY <1>9, <1>b, <1>c, <2>1 DEF LoadLive
  <1>10. CASE List
    <2>1. Becomes("collect", d, l) /\ l <= d
      BY <1>10, <1>a DEF List, Run, RunInv, MaintFields, Becomes
    <2> QED
      BY <1>10, <1>b, <1>c, <2>1 DEF List
  <1>11. ASSUME NEW o \in Objects, Collect(o) PROVE RunInv' /\ (maint.dry => Untouched)
    <2>0. maint.pc = "collect" /\ l <= d /\ canDelete
      BY <1>11, <1>a DEF Collect
    <2>1. Becomes("collect", d + 1, l) \/ Becomes("collect", d + 1, l + 1)
      <3> DEFINE done == [maint EXCEPT !.todo = @ \ {o}, !.deletions = @ + 1,
                                       !.stray = IF maint.prefix = "derived" THEN @ \cup {o} ELSE @]
                 lost == IF o \in OriginalKeys /\ Present(o) THEN 1 ELSE 0
      <3>1. maint' = done \/ maint' = [done EXCEPT !.lost = @ + lost]
        BY <1>11 DEF Collect, Run
      <3>2. /\ DOMAIN done = MaintFields /\ done.pc = maint.pc /\ done.deletions = d + 1
            /\ done.lost = l /\ done.dry = maint.dry
        BY DEF RunInv, MaintFields
      <3>3. lost = 0 \/ lost = 1
        OBVIOUS
      <3> HIDE DEF done, lost
      <3> QED
        BY <1>a, <2>0, <3>1, <3>2, <3>3 DEF MaintFields, Becomes
    <2>2. RunInv'
      BY <1>a, <2>0, <2>1, RunInvKept
    <2> QED
      BY <1>11, <2>2 DEF Collect, KeepRows, Untouched, workerVars
  <1>12. CASE NextPrefix
    <2>1. (Becomes("rows", d, l) \/ Becomes("list", d, l)) /\ l <= d
      BY <1>12, <1>a DEF NextPrefix, LoopOver, Run, RunInv, MaintFields, Becomes
    <2> QED
      BY <1>12, <1>b, <1>c, <2>1 DEF NextPrefix
  <1>13. CASE ForgetStrays
    <2>1. Becomes("stalled", d, l) /\ l <= d
      BY <1>13, <1>a DEF ForgetStrays, Run, RunInv, MaintFields, Becomes
    <2> QED
      BY <1>13, <1>c, <2>1 DEF ForgetStrays, Untouched
  <1>14. ASSUME NEW old \in SUBSET AwaitingOptimization, SelectStalled(old) PROVE RunInv' /\ (maint.dry => Untouched)
    <2>1. Becomes("resend", d, l) /\ l <= d
      BY <1>14, <1>a DEF SelectStalled, Run, RunInv, MaintFields, Becomes
    <2> QED
      BY <1>14, <1>b, <1>c, <2>1 DEF SelectStalled
  <1>15. ASSUME NEW m \in AssetIds \X Versions, Reenqueue(m) PROVE RunInv' /\ (maint.dry => Untouched)
    <2>1. Becomes("resend", d, l) /\ l <= d
      BY <1>15, <1>a DEF Reenqueue, Run, RunInv, MaintFields, Becomes
    <2> QED
      BY <1>15, <1>c, <2>1 DEF Reenqueue, KeepRows, Untouched, workerVars
  <1>16. CASE FinishRun \/ AbortRun
    <2>1. maint' = Idling(maint.dry)
      BY <1>16 DEF FinishRun, AbortRun, Run
    <2>2. Becomes("idle", 0, 0)
      BY <2>1 DEF Idling, MaintFields, Becomes
    <2>3. RunInv'
      BY <2>2, RunInvKept
    <2> QED
      BY <1>16, <1>b, <2>3 DEF FinishRun, AbortRun
  <1> HIDE DEF d, l
  <1> QED
    BY <1>1, <1>2, <1>3, <1>4, <1>5, <1>6, <1>7, <1>8, <1>9, <1>10, <1>11, <1>12, <1>13, <1>14, <1>15, <1>16
    DEF Reclaim, RunStep

\* The platform's own steps and the passing of time leave a run where it is.
LEMMA RunInvUnchanged == RunInv /\ maint' = maint => RunInv'
  BY DEF RunInv, InItem, Uncounted

LEMMA RunInvInductive ==
  /\ PlatformInit /\ ReclaimInit => RunInv
  /\ RunInv /\ [ReclaimNext]_everything => RunInv'
PROOF
  <1>1. [ReclaimNext]_everything => Reclaim \/ maint' = maint
    BY DEF ReclaimNext, Operate, Pass, everything, reclaimVars
  <1> QED
    BY <1>1, RunInvInit, RunInvStep, RunInvUnchanged

\* Whatever a run selected and whatever happens meanwhile, it destroys no more
\* originals than maxDeletionsPerRun (maintenance.ts canDelete, deletionsThisRun).
THEOREM CapBoundsLossCorrect == ReclaimSpec => []CapBoundsLoss
PROOF
  <1>1. RunInv => CapBoundsLoss
    BY MaintenanceAssumption DEF RunInv, InItem, Uncounted, CapBoundsLoss
  <1> QED
    BY <1>1, RunInvInductive, PTL DEF ReclaimSpec

\* With dryRun set, no step of a run changes rows, objects or the queue
\* (maintenance.ts, each job's `if (this.lifecycle.dryRun)`).
THEOREM DryRunChangesNothingCorrect == ReclaimSpec => DryRunChangesNothing
PROOF
  <1>1. RunInv /\ [ReclaimNext]_everything =>
          [maint.dry /\ maint' # maint =>
             UNCHANGED <<registryVars, bucketVars, queueVars, described, recorded>>]_everything
    BY RunInvStep DEF ReclaimNext, Operate, Pass, everything, reclaimVars, Untouched
  <1> QED
    BY <1>1, RunInvInductive, PTL DEF ReclaimSpec, DryRunChangesNothing

---------------------------------------------------------------------------
(* Types: a worker's step beside reclamation. *)

WorkTyped(q) ==
  /\ q.pc # "idle" => q.job \in AssetIds \X Versions
  /\ q.pc = "record" => q.variant \in Variants

WorkersTyped == \A w \in Workers : work[w] \in WorkState /\ WorkTyped(work[w])

StoresTyped ==
  /\ BucketTypeOK /\ QueueTypeOK
  /\ described \in [AssetIds \X Versions -> Contents \cup {None}]
  /\ recorded \subseteq DerivedKeys

PlatformTyped == TypeInv /\ WorkersTyped /\ WorkerTypeOK

Moves(w) == \E q \in WorkState : WorkTyped(q) /\ work' = [work EXCEPT ![w] = q]

\* No worker writes a version row, an original or a staged object.
Steady == UNCHANGED <<versions, clock, staging, originals>>

LEMMA WorkFields ==
  ASSUME NEW q \in WorkState
  PROVE  /\ \A key \in OriginalKeys :
              [q EXCEPT !.key = key] \in WorkState /\ [q EXCEPT !.key = key].job = q.job
         /\ \A bytes \in Contents :
              [q EXCEPT !.source = bytes] \in WorkState /\ [q EXCEPT !.source = bytes].job = q.job
         /\ \A todo \in SUBSET Variants :
              [q EXCEPT !.todo = todo] \in WorkState /\ [q EXCEPT !.todo = todo].job = q.job
              /\ [q EXCEPT !.todo = todo].pc = q.pc
         /\ \A v \in Variants :
              [q EXCEPT !.variant = v] \in WorkState /\ [q EXCEPT !.variant = v].job = q.job
              /\ [q EXCEPT !.variant = v].variant = v
  BY DEF WorkState

LEMMA OnTyped ==
  ASSUME NEW q \in WorkState, q.job \in AssetIds \X Versions, NEW l \in WorkLabels,
         l = "record" => q.variant \in Variants
  PROVE  On(q, l) \in WorkState /\ WorkTyped(On(q, l))
  BY OnFields DEF WorkTyped, NoWork

LEMMA TurnTyped ==
  ASSUME NEW w, NEW STATE q, q \in WorkState, q.job \in AssetIds \X Versions, NEW l \in WorkLabels,
         l = "record" => q.variant \in Variants, Turn(w, On(q, l))
  PROVE  Moves(w)
  BY OnTyped DEF Moves, Turn

LEMMA BusyFacts ==
  ASSUME PlatformTyped, NEW w \in Workers
  PROVE  /\ work[w] \in WorkState /\ StoresTyped
         /\ work[w].pc # "idle" => work[w].job \in AssetIds \X Versions
         /\ work[w].pc = "record" => work[w].variant \in Variants
         /\ work[w].source \in Contents \cup {None} /\ work[w].todo \subseteq Variants
  <1>1. work[w] \in WorkState /\ WorkTyped(work[w])
    BY DEF PlatformTyped, WorkersTyped
  <1>2. StoresTyped
    BY DEF PlatformTyped, WorkerTypeOK, TypeInv, TypeOK, StoresTyped
  <1>3. work[w].source \in Contents \cup {None} /\ work[w].todo \subseteq Variants
    BY <1>1 DEF WorkState
  <1> QED
    BY <1>1, <1>2, <1>3 DEF WorkTyped

LEMMA StoresKept ==
  ASSUME StoresTyped, UNCHANGED <<bucketVars, queueVars, described, recorded>>
  PROVE  StoresTyped'
  BY SameOthers DEF StoresTyped

LEMMA PutTyped ==
  ASSUME BucketTypeOK, NEW d, NEW c \in Contents \cup {None}, PutDerived(d, c) \/ PutIfAbsent(d, c)
  PROVE  BucketTypeOK' /\ UNCHANGED <<staging, originals>>
  <1>1. CASE PutDerived(d, c)
    BY <1>1 DEF PutDerived, BucketTypeOK
  <1>2. CASE derived[d] = None /\ PutIfAbsent(d, c)
    BY <1>2 DEF PutDerived, PutIfAbsent, BucketTypeOK
  <1>3. CASE derived[d] # None /\ PutIfAbsent(d, c)
    <2>1. derived' = [derived EXCEPT ![d] = derived[d]] /\ UNCHANGED <<staging, originals>>
      BY <1>3 DEF PutDerived, PutIfAbsent
    <2>2. derived' = derived
      BY <2>1 DEF BucketTypeOK
    <2> QED
      BY <2>1, <2>2 DEF BucketTypeOK
  <1> QED
    BY <1>1, <1>2, <1>3

\* A step of a worker that writes no store.
Still == UNCHANGED <<registryVars, bucketVars, queueVars, described, recorded>>

LEMMA StillTyped ==
  ASSUME StoresTyped, Still
  PROVE  StoresTyped' /\ Steady
  BY StoresKept DEF Still, Steady, registryVars, bucketVars

LEMMA ProceedTyped ==
  ASSUME PlatformTyped, NEW w \in Workers, NEW l \in WorkLabels, l # "record",
         work[w].pc # "idle", Proceed(w, l)
  PROVE  Moves(w)
  <1>1. work[w] \in WorkState /\ work[w].job \in AssetIds \X Versions
    BY BusyFacts
  <1> QED
    BY <1>1, TurnTyped DEF Proceed

LEMMA ReadingStepTypes ==
  ASSUME PlatformTyped, NEW w \in Workers,
         \/ \E m \in jobs : Receive(w, m)
         \/ Context(w) \/ Get(w) \/ Complete(w) \/ ReadyRead(w) \/ FailRead(w)
         \/ Swallow(w) \/ Acknowledge(w) \/ Abandon(w)
  PROVE  Moves(w) /\ StoresTyped' /\ Steady
PROOF
  <1> USE DEF Doing
  <1>0. /\ work[w] \in WorkState /\ StoresTyped
        /\ work[w].pc # "idle" => work[w].job \in AssetIds \X Versions
        /\ work[w].source \in Contents \cup {None} /\ work[w].todo \subseteq Variants
    BY BusyFacts
  <1>l. WorkLabels = {"idle", "context", "get", "master", "warm", "record", "describe",
           "readyRead", "readyWrite", "failRead", "failWrite", "acknowledge"}
    BY DEF WorkLabels
  <1>1. ASSUME NEW m \in jobs, Receive(w, m)
        PROVE  Moves(w) /\ StoresTyped' /\ Steady
    <2> DEFINE q == [pc |-> "context", job |-> m, key |-> None, source |-> None,
                     todo |-> {}, variant |-> None]
    <2>0. m \in AssetIds \X Versions
      BY <1>0 DEF StoresTyped, QueueTypeOK
    <2>1. q \in WorkState /\ WorkTyped(q) /\ work' = [work EXCEPT ![w] = q]
      BY <1>1, <2>0 DEF Receive, Turn, WorkState, WorkLabels, WorkTyped
    <2>2. QueueTypeOK'
      <3>1. /\ jobs' = jobs /\ receives' = [receives EXCEPT ![m] = receives[m] + 1]
            /\ receives[m] < MaxReceives
        BY <1>1 DEF Receive, receive
      <3>2. receives[m] + 1 \in 0..MaxReceives
        BY <1>0, <2>0, <3>1, JobQueueAssumption DEF StoresTyped, QueueTypeOK
      <3> QED
        BY <1>0, <3>1, <3>2 DEF StoresTyped, QueueTypeOK
    <2>3. UNCHANGED <<registryVars, bucketVars, described, recorded>>
      BY <1>1 DEF Receive
    <2>4. StoresTyped' /\ Steady
      BY <1>0, <2>2, <2>3, SameOthers DEF StoresTyped, Steady, registryVars, bucketVars
    <2> HIDE DEF q
    <2> QED
      BY <2>1, <2>4 DEF Moves
  <1>2. CASE Context(w)
    <2>1. Still /\ work[w].pc = "context"
      BY <1>2 DEF Context, Still
    <2>2. CASE Proceed(w, "acknowledge")
      BY <1>0, <1>l, <2>1, <2>2, StillTyped, ProceedTyped
    <2>3. CASE ~Proceed(w, "acknowledge")
      <3> DEFINE key == versions[work[w].job].source
                 q == [work[w] EXCEPT !.key = key]
      <3>1. /\ optimizeContext(w) /\ VersionOf(w) = Row(w).current /\ Turn(w, On(q, "get"))
        BY <1>2, <2>3 DEF Context
      <3>2. work[w].job = <<work[w].job[1], VersionOf(w)>>
        BY <1>0, <2>1 DEF VersionOf
      <3>3. versions[work[w].job] # None
        BY <3>1, <3>2 DEF optimizeContext
      <3>4. versions[work[w].job] \in VersionRow
        BY <1>0, <2>1, <3>3 DEF PlatformTyped, TypeInv, TypeOK, RegistryTypeOK
      <3>5. key \in OriginalKeys
        BY <3>4 DEF VersionRow
      <3>6. q \in WorkState /\ q.job \in AssetIds \X Versions
        <4> HIDE DEF key
        <4> QED
          BY <1>0, <2>1, <3>5, WorkFields
      <3> HIDE DEF q
      <3> QED
        BY <1>0, <1>l, <2>1, <3>1, <3>6, TurnTyped, StillTyped
    <2> QED
      BY <2>2, <2>3
  <1>3. CASE Get(w)
    <2> DEFINE bytes == originals[work[w].key]
               read  == [work[w] EXCEPT !.source = bytes]
               warm  == [read EXCEPT !.todo = WarmSet]
    <2>1. Still /\ work[w].pc = "get"
      BY <1>3 DEF Get, Still
    <2>2. \/ Proceed(w, "idle")
          \/ bytes \in Contents /\ (Turn(w, On(read, "failRead")) \/ Turn(w, On(read, "master")))
          \/ bytes \in Contents /\ Turn(w, On(warm, "warm"))
      BY <1>3, OptimizerAssumption DEF Get
    <2>3. bytes \in Contents => read \in WorkState /\ read.job = work[w].job
      <3> HIDE DEF bytes
      <3> QED
        BY <1>0, WorkFields
    <2>4. bytes \in Contents => warm \in WorkState /\ warm.job = work[w].job
      <3> HIDE DEF bytes, read
      <3> QED
        BY <2>3, WorkFields, OptimizerAssumption
    <2> HIDE DEF bytes, read, warm
    <2>5. Moves(w)
      BY <1>0, <1>l, <2>1, <2>2, <2>3, <2>4, TurnTyped, ProceedTyped
    <2> QED
      BY <1>0, <2>1, <2>5, StillTyped
  <1>4. CASE Complete(w) \/ ReadyRead(w) \/ FailRead(w) \/ Swallow(w) \/ Abandon(w)
    <2>1. Still /\ work[w].pc # "idle"
      BY <1>4 DEF Complete, ReadyRead, FailRead, Swallow, Abandon, Still
    <2>2. PICK l \in {"describe", "idle", "readyWrite", "failWrite", "acknowledge"} : Proceed(w, l)
      BY <1>4 DEF Complete, ReadyRead, FailRead, Swallow, Abandon
    <2> QED
      BY <1>0, <1>l, <2>1, <2>2, StillTyped, ProceedTyped
  <1>5. CASE Acknowledge(w)
    <2>1. QueueTypeOK'
      BY <1>0, <1>5 DEF Acknowledge, acknowledge, StoresTyped, QueueTypeOK
    <2>2. UNCHANGED <<registryVars, bucketVars, described, recorded>>
      BY <1>5 DEF Acknowledge
    <2>3. StoresTyped' /\ Steady
      BY <1>0, <2>1, <2>2, SameOthers DEF StoresTyped, Steady, registryVars, bucketVars
    <2> QED
      BY <1>0, <1>l, <1>5, <2>3, ProceedTyped DEF Acknowledge
  <1> QED
    BY <1>1, <1>2, <1>3, <1>4, <1>5

LEMMA WritingStepTypes ==
  ASSUME PlatformTyped, NEW w \in Workers,
         \/ PutMaster(w) \/ \E v \in WarmSet : Render(w, v)
         \/ Record(w) \/ Describe(w) \/ ReadyWrite(w) \/ FailWrite(w)
  PROVE  Moves(w) /\ StoresTyped' /\ Steady
PROOF
  <1> USE DEF Doing
  <1>0. /\ work[w] \in WorkState /\ StoresTyped /\ BucketTypeOK
        /\ work[w].pc # "idle" => work[w].job \in AssetIds \X Versions
        /\ work[w].pc = "record" => work[w].variant \in Variants
        /\ work[w].source \in Contents \cup {None} /\ work[w].todo \subseteq Variants
    BY BusyFacts DEF StoresTyped
  <1>l. WorkLabels = {"idle", "context", "get", "master", "warm", "record", "describe",
           "readyRead", "readyWrite", "failRead", "failWrite", "acknowledge"}
    BY DEF WorkLabels
  <1>1. CASE PutMaster(w)
    <2> DEFINE q == [work[w] EXCEPT !.todo = WarmSet]
    <2>1. BucketTypeOK' /\ UNCHANGED <<staging, originals>>
      BY <1>0, <1>1, PutTyped DEF PutMaster
    <2>2. StoresTyped' /\ Steady
      BY <1>0, <1>1, <2>1, SameOthers DEF PutMaster, StoresTyped, Steady, registryVars
    <2>3. q \in WorkState /\ q.job = work[w].job
      BY <1>0, WorkFields, OptimizerAssumption
    <2>4. work[w].pc = "master" /\ Turn(w, On(q, "warm"))
      BY <1>1 DEF PutMaster
    <2> HIDE DEF q
    <2> QED
      BY <1>0, <1>l, <2>2, <2>3, <2>4, TurnTyped
  <1>2. ASSUME NEW v \in WarmSet, Render(w, v)
        PROVE  Moves(w) /\ StoresTyped' /\ Steady
    <2> DEFINE rest == [work[w] EXCEPT !.todo = work[w].todo \ {v}]
               q == [rest EXCEPT !.variant = v]
               d == RenditionKey(w, v)
    <2>0. /\ work[w].pc = "warm" /\ UNCHANGED <<registryVars, queueVars, described, recorded>>
          /\ \/ Turn(w, rest) /\ UNCHANGED bucketVars
             \/ PutIfAbsent(d, work[w].source) /\ Turn(w, On(q, "record"))
      BY <1>2 DEF Render
    <2>1. rest \in WorkState /\ rest.job = work[w].job /\ rest.pc = "warm"
      <3> DEFINE left == work[w].todo \ {v}
      <3>1. left \in SUBSET Variants
        BY <1>0
      <3> HIDE DEF left
      <3> QED
        BY <1>0, <2>0, <3>1, WorkFields
    <2> HIDE DEF rest
    <2>2. q \in WorkState /\ q.job = work[w].job /\ q.variant = v /\ v \in Variants
      BY <2>1, WorkFields, OptimizerAssumption
    <2> HIDE DEF q, d
    <2>3. CASE Turn(w, rest) /\ UNCHANGED bucketVars
      <3>1. Moves(w)
        BY <1>0, <2>0, <2>1, <2>3 DEF Moves, Turn, WorkTyped
      <3> QED
        BY <1>0, <2>0, <2>3, <3>1, StillTyped DEF Still
    <2>4. CASE PutIfAbsent(d, work[w].source) /\ Turn(w, On(q, "record"))
      <3>1. BucketTypeOK' /\ UNCHANGED <<staging, originals>>
        BY <1>0, <2>4, PutTyped
      <3>2. StoresTyped' /\ Steady
        BY <1>0, <2>0, <3>1, SameOthers DEF StoresTyped, Steady, registryVars
      <3> QED
        BY <1>0, <1>l, <2>0, <2>2, <2>4, <3>2, TurnTyped
    <2> QED
      BY <2>0, <2>3, <2>4
  <1>3. CASE Record(w)
    <2>1. work[w].pc = "record" /\ UNCHANGED <<registryVars, bucketVars, queueVars, described>>
      BY <1>3 DEF Record
    <2>2. RenditionKey(w, work[w].variant) \in DerivedKeys
      BY <1>0, <2>1 DEF RenditionKey, DerivedKeys
    <2>3. recorded' \subseteq DerivedKeys
      BY <1>0, <1>3, <2>2 DEF Record, StoresTyped
    <2>4. StoresTyped' /\ Steady
      BY <1>0, <2>1, <2>3, SameOthers DEF StoresTyped, Steady, registryVars, bucketVars
    <2> QED
      BY <1>0, <1>l, <1>3, <2>1, <2>4, ProceedTyped DEF Record
  <1>4. CASE Describe(w)
    <2>1. work[w].pc = "describe" /\ UNCHANGED <<registryVars, bucketVars, queueVars, recorded>>
      BY <1>4 DEF Describe
    <2>2. described' \in [AssetIds \X Versions -> Contents \cup {None}]
      BY <1>0, <1>4 DEF Describe, StoresTyped
    <2>3. StoresTyped' /\ Steady
      BY <1>0, <2>1, <2>2, SameOthers DEF StoresTyped, Steady, registryVars, bucketVars
    <2> QED
      BY <1>0, <1>l, <1>4, <2>1, <2>3, ProceedTyped DEF Describe
  <1>5. CASE ReadyWrite(w) \/ FailWrite(w)
    <2>1. /\ work[w].pc # "idle" /\ UNCHANGED <<bucketVars, queueVars, described, recorded>>
          /\ UNCHANGED <<versions, clock>> /\ Proceed(w, "acknowledge")
      BY <1>5 DEF ReadyWrite, FailWrite, SetStatus
    <2>2. StoresTyped' /\ Steady
      BY <1>0, <2>1, StoresKept DEF Steady, bucketVars
    <2> QED
      BY <1>0, <1>l, <2>1, <2>2, ProceedTyped
  <1> QED
    BY <1>1, <1>2, <1>3, <1>4, <1>5

\* What a step may do to the rows and the counters of the control plane: give an
\* existing or unknown asset another status, and hide it.
Restatused ==
  /\ assets' \in [AssetIds -> AssetRow] /\ Existing \subseteq Existing'
  /\ \A a \in AssetIds : assets'[a].current = assets[a].current
  /\ \A a \in AssetIds : ~Exists(a)' => assets'[a] = assets[a]
  /\ \A a \in AssetIds : Visible(a)' /\ Exists(a) => Visible(a)

LEMMA RestatusedTypes ==
  ASSUME TypeInv, Restatused, BucketTypeOK', QueueTypeOK', UNCHANGED <<quotaVars, targets, req, faults>>,
         versions' \in [AssetIds \X Versions -> VersionRow \cup {None}], UNCHANGED clock
  PROVE  TypeInv'
  <1>1. RegistryTypeOK' /\ FreshRows'
    BY DEF TypeInv, TypeOK, RegistryTypeOK, FreshRows, Restatused, Exists, Existing
  <1>2. RequestInv'
    BY DEF TypeInv, RequestInv, RequestOK, Restatused
  <1>3. QuotaTypeOK'
    BY SameOthers DEF TypeInv, TypeOK
  <1> QED
    BY <1>1, <1>2, <1>3 DEF TypeInv, TypeOK

LEMMA SameRows == TypeInv /\ UNCHANGED assets => Restatused
  BY DEF TypeInv, TypeOK, RegistryTypeOK, Restatused, Existing, Exists, Visible

LEMMA TouchedRows ==
  ASSUME PlatformTyped, NEW w \in Workers, Touches(w)
  PROVE  Restatused
PROOF
  <1>0. TypeInv /\ assets \in [AssetIds -> AssetRow]
    BY DEF PlatformTyped, TypeInv, TypeOK, RegistryTypeOK
  <1>1. ASSUME NEW st \in {"ready", "failed"}, work[w].pc \in {"readyWrite", "failWrite"},
               assets' = [assets EXCEPT ![work[w].job[1]].status = st]
        PROVE  Restatused
    <2> DEFINE b == work[w].job[1]
               row == [assets[b] EXCEPT !.status = st]
    <2>1. b \in AssetIds
      BY <1>1, BusyFacts
    <2> HIDE DEF b
    <2>2. row \in AssetRow /\ row.status = st /\ row.current = assets[b].current /\ row.gone = assets[b].gone
      <3>1. assets[b] \in AssetRow /\ st \in Status
        BY <1>0, <2>1 DEF Status
      <3> QED
        BY <3>1, StatusUpdated
    <2>3. assets' = [assets EXCEPT ![b] = row]
      BY <1>1 DEF b
    <2> HIDE DEF row
    <2>4. assets'[b] = row /\ (\A a \in AssetIds : a # b => assets'[a] = assets[a])
          /\ assets' \in [AssetIds -> AssetRow]
      BY <1>0, <2>1, <2>2, <2>3
    <2> QED
      BY <1>0, <2>1, <2>2, <2>4 DEF Restatused, Existing, Exists, Visible
  <1> QED
    BY <1>0, <1>1, SameRows DEF Touches

\* A step of the workers keeps the platform typed.
LEMMA WorkerNextTypes ==
  ASSUME PlatformTyped, WorkerNext, UNCHANGED <<quotaVars, targets, req, faults>>
  PROVE  PlatformTyped' /\ Restatused /\ UNCHANGED <<versions, clock, staging, originals>>
PROOF
  <1>0. TypeInv /\ WorkersTyped /\ work \in [Workers -> WorkState]
    BY DEF PlatformTyped, WorkerTypeOK
  <1>1. ASSUME NEW w \in Workers, Step(w)
        PROVE  PlatformTyped' /\ Restatused /\ Steady
    <2>1. Moves(w) /\ StoresTyped' /\ Steady
      BY <1>1, ReadingStepTypes, WritingStepTypes DEF Step
    <2>2. Restatused
      BY <1>1, StepTouches, TouchedRows
    <2>3. TypeInv'
      BY <1>0, <2>1, <2>2, RestatusedTypes DEF StoresTyped, Steady, TypeInv, TypeOK, RegistryTypeOK
    <2>4. WorkersTyped' /\ WorkerTypeOK'
      BY <1>0, <2>1 DEF Moves, WorkersTyped, WorkerTypeOK, StoresTyped
    <2> QED
      BY <2>1, <2>2, <2>3, <2>4 DEF PlatformTyped
  <1>2. ASSUME NEW m \in jobs, DeadLetter(m)
        PROVE  PlatformTyped' /\ Restatused /\ Steady
    <2>1. UNCHANGED <<registryVars, bucketVars, workerVars>> /\ BucketTypeOK' /\ QueueTypeOK'
      BY <1>0, <1>2, SameOthers DEF DeadLetter, deadLetter, TypeInv, TypeOK, QueueTypeOK
    <2>2. Restatused /\ Steady
      BY <1>0, <2>1, SameRows DEF registryVars, bucketVars, Steady
    <2>3. TypeInv'
      BY <1>0, <2>1, <2>2, RestatusedTypes DEF Steady, TypeInv, TypeOK, RegistryTypeOK
    <2> QED
      BY <2>1, <2>2, <2>3 DEF PlatformTyped, WorkersTyped, WorkerTypeOK, workerVars
  <1> QED
    BY <1>1, <1>2 DEF WorkerNext, Steady

LEMMA PlatformNextTypes ==
  ASSUME PlatformTyped, PlatformNext
  PROVE  PlatformTyped'
PROOF
  <1>1. CASE Serve
    <2>1. TypeInv' /\ UNCHANGED workerVars
      BY <1>1, TypeStep DEF Serve, PlatformTyped
    <2> QED
      BY <2>1 DEF PlatformTyped, WorkersTyped, WorkerTypeOK, workerVars
  <1> QED
    BY <1>1, WorkerNextTypes DEF PlatformNext, Optimize

---------------------------------------------------------------------------
(* Types: a step of reclamation. *)

ItemInv ==
  /\ maint.pc \in {"reapRead", "reapWrite"} => maint.item \in AssetIds
  /\ maint.pc = "collect" => \A o \in maint.todo : o \in Objects /\ PrefixOf(o) = maint.prefix

ReclaimInv == PlatformTyped /\ RunInv /\ ReclaimTypeOK /\ ItemInv

\* What a run does to the platform: it hides rows, and removes a version's row.
Trimmed ==
  /\ Restatused /\ StoresTyped'
  /\ versions' \in [AssetIds \X Versions -> VersionRow \cup {None}]
  /\ \A v \in AssetIds \X Versions :
       versions'[v] # versions[v] => versions'[v] = None /\ maint.pc = "expireRows" /\ v = maint.item
  /\ UNCHANGED <<clock, work, quotaVars, targets, req, faults>>

LEMMA TrimmedTypes ==
  ASSUME PlatformTyped, Trimmed
  PROVE  PlatformTyped'
  <1>1. TypeInv'
    BY RestatusedTypes DEF PlatformTyped, Trimmed, StoresTyped
  <1> QED
    BY <1>1 DEF PlatformTyped, Trimmed, WorkersTyped, WorkerTypeOK, StoresTyped

LEMMA EraseTyped ==
  ASSUME BucketTypeOK, NEW gone, Erase(gone)
  PROVE  BucketTypeOK'
  BY DEF BucketTypeOK, Erase

LEMMA Untrimmed ==
  ASSUME PlatformTyped, StoresTyped', UNCHANGED <<registryVars, work, quotaVars, targets, req, faults>>
  PROVE  Trimmed
  BY SameRows DEF PlatformTyped, Trimmed, registryVars, TypeInv, TypeOK, RegistryTypeOK

LEMMA RemovedRows ==
  ASSUME TypeInv, NEW a \in AssetIds, RemoveAs(a, "deleted")
  PROVE  Restatused /\ Visible(a)' = FALSE
PROOF
  <1> DEFINE row == [status |-> "deleted", current |-> assets[a].current, gone |-> TRUE]
  <1>1. assets \in [AssetIds -> AssetRow] /\ assets[a] \in AssetRow
    BY DEF TypeInv, TypeOK, RegistryTypeOK
  <1>2. row \in AssetRow
    BY <1>1 DEF AssetRow, Status
  <1>3. row.status = "deleted" /\ row.current = assets[a].current /\ row.gone = TRUE
    OBVIOUS
  <1>4. assets' = [assets EXCEPT ![a] = row]
    BY DEF RemoveAs
  <1> HIDE DEF row
  <1>5. assets'[a] = row /\ (\A b \in AssetIds : b # a => assets'[b] = assets[b])
        /\ assets' \in [AssetIds -> AssetRow]
    BY <1>1, <1>2, <1>4
  <1> QED
    BY <1>1, <1>3, <1>5 DEF Restatused, Existing, Exists, Visible

LEMMA ReclaimTrims ==
  ASSUME ReclaimInv, Reclaim
  PROVE  Trimmed
PROOF
  <1>0. /\ PlatformTyped /\ TypeInv /\ StoresTyped /\ BucketTypeOK /\ QueueTypeOK /\ WorkerTypeOK
        /\ versions \in [AssetIds \X Versions -> VersionRow \cup {None}]
    BY DEF ReclaimInv, PlatformTyped, StoresTyped, TypeInv, TypeOK, WorkerTypeOK, RegistryTypeOK
  <1>1. CASE UNCHANGED platformVars
    <2>1. UNCHANGED <<registryVars, bucketVars, queueVars, workerVars, quotaVars, targets, req, faults>>
      BY <1>1 DEF platformVars, vars, sharedVars
    <2> QED
      BY <1>0, <2>1, StoresKept, Untrimmed DEF workerVars
  <1>2. CASE KeepRows /\ KeepRest /\ UNCHANGED queueVars /\ BucketTypeOK'
    BY <1>0, <1>2, Untrimmed, SameOthers DEF KeepRows, KeepRest, workerVars, StoresTyped
  <1>3. ASSUME NEW a \in AssetIds, ReapStaged(a) PROVE Trimmed
    <2>1. <<a, "upload">> \in StagingKeys
      BY DEF StagingKeys
    <2>2. BucketTypeOK'
      BY <1>0, <1>3, <2>1, StagingKeeps, SameOthers DEF ReapStaged
    <2> QED
      BY <1>2, <1>3, <2>2 DEF ReapStaged
  <1>4. CASE ReapWrite
    <2>1. maint.item \in AssetIds
      BY <1>4 DEF ReapWrite, ReclaimInv, ItemInv
    <2>2. Restatused /\ UNCHANGED <<versions, clock>>
      BY <1>0, <1>4, <2>1, RemovedRows, SameRows DEF ReapWrite, RemoveAs, registryVars
    <2>3. StoresTyped'
      BY <1>0, <1>4, StoresKept DEF ReapWrite, workerVars
    <2> QED
      BY <1>0, <1>4, <2>2, <2>3 DEF ReapWrite, Trimmed, KeepRest, workerVars
  <1>5. ASSUME NEW v \in AssetIds \X Versions, ExpireSource(v) PROVE Trimmed
    <2>1. BucketTypeOK'
      BY <1>0, <1>5, EraseTyped, SameOthers DEF ExpireSource
    <2> QED
      BY <1>2, <1>5, <2>1 DEF ExpireSource
  <1>6. CASE ExpireDerived
    <2>1. BucketTypeOK'
      BY <1>0, <1>6, EraseTyped DEF ExpireDerived
    <2> QED
      BY <1>2, <1>6, <2>1 DEF ExpireDerived
  <1>7. CASE ExpireRows
    <2>1. versions' = [versions EXCEPT ![maint.item] = None] /\ UNCHANGED <<assets, clock>>
      BY <1>7 DEF ExpireRows
    <2>2. versions' \in [AssetIds \X Versions -> VersionRow \cup {None}]
      BY <1>0, <2>1
    <2>3. described' \in [AssetIds \X Versions -> Contents \cup {None}] /\ recorded' \subseteq DerivedKeys
      BY <1>0, <1>7 DEF ExpireRows, WorkerTypeOK
    <2>4. BucketTypeOK' /\ QueueTypeOK'
      BY <1>0, <1>7, SameOthers DEF ExpireRows
    <2>5. \A v \in AssetIds \X Versions :
            versions'[v] # versions[v] => versions'[v] = None /\ v = maint.item
      BY <1>0, <2>1
    <2> QED
      BY <1>0, <1>7, <2>1, <2>2, <2>3, <2>4, <2>5, SameRows DEF ExpireRows, Trimmed, StoresTyped, KeepRest
  <1>8. ASSUME NEW o \in Objects, Collect(o) PROVE Trimmed
    <2>1. BucketTypeOK'
      BY <1>0, <1>8, EraseTyped, SameOthers DEF Collect
    <2> QED
      BY <1>2, <1>8, <2>1 DEF Collect
  <1>9. CASE ForgetStrays
    <2>1. recorded' \subseteq DerivedKeys /\ described' = described
      BY <1>0, <1>9 DEF ForgetStrays, WorkerTypeOK
    <2>2. BucketTypeOK' /\ QueueTypeOK'
      BY <1>0, <1>9, SameOthers DEF ForgetStrays
    <2> QED
      BY <1>0, <1>9, <2>1, <2>2, Untrimmed DEF ForgetStrays, StoresTyped, KeepRest
  <1>10. ASSUME NEW m \in AssetIds \X Versions, Reenqueue(m) PROVE Trimmed
    <2>1. QueueTypeOK'
      BY <1>0, <1>10, enqueueKeeps, SameOthers DEF Reenqueue
    <2>2. BucketTypeOK'
      BY <1>0, <1>10, SameOthers DEF Reenqueue
    <2> QED
      BY <1>0, <1>10, <2>1, <2>2, Untrimmed DEF Reenqueue, StoresTyped, KeepRows, KeepRest, workerVars
  <1> QED
    BY <1>1, <1>3, <1>4, <1>5, <1>6, <1>7, <1>8, <1>9, <1>10
    DEF Reclaim, RunStep, StartRun, ReapRead, SelectSuperseded, LoadLive, List, NextPrefix, SelectStalled,
        FinishRun, AbortRun

LEMMA IdleTyped ==
  ASSUME NEW dry \in BOOLEAN
  PROVE  Idling(dry) \in RunState
  BY MaintenanceAssumption DEF Idling, RunState, Prefixes

\* A run that goes to its next label, its list replaced or not.
LEMMA Relabelled ==
  ASSUME maint \in RunState,
         NEW pc \in {"reap", "reapRead", "reapWrite", "expire", "expireDerived", "expireRows",
                     "list", "collect", "rows", "stalled", "resend"}
  PROVE  /\ [maint EXCEPT !.pc = pc] \in RunState
         /\ \A todo \in SUBSET (AssetIds \cup (AssetIds \X Versions) \cup Objects) :
              [maint EXCEPT !.pc = pc, !.todo = todo] \in RunState
  BY ZenonT(60) DEF RunState

\* An item that is done with, under the cap.
LEMMA CountedTyped ==
  ASSUME maint \in RunState, canDelete, NEW pc \in {"reap", "expire", "collect"}, NEW i
  PROVE  /\ Counted(pc) \in RunState
         /\ Skipped(i) \in RunState
PROOF
  <1>1. maint.deletions + 1 \in 0..MaxDeletions
    BY MaintenanceAssumption DEF RunState, canDelete
  <1>2. maint.todo \ {maint.item} \in SUBSET (AssetIds \cup (AssetIds \X Versions) \cup Objects)
        /\ maint.todo \ {i} \in SUBSET (AssetIds \cup (AssetIds \X Versions) \cup Objects)
    BY DEF RunState
  <1> QED
    BY <1>1, <1>2, ZenonT(60) DEF RunState, Counted, Skipped

LEMMA RunTyped ==
  ASSUME ReclaimInv, Reclaim
  PROVE  maint' \in RunState /\ ItemInv'
PROOF
  <1>0. /\ maint \in RunState /\ RunInv /\ ItemInv /\ TypeInv
        /\ assets \in [AssetIds -> AssetRow] /\ settled \subseteq Objects
    BY DEF ReclaimInv, ReclaimTypeOK, PlatformTyped, TypeInv, TypeOK, RegistryTypeOK
  <1>a. InItem => canDelete
    BY <1>0 DEF RunInv, canDelete
  \* Most labels ask nothing of the list.
  <1>b. maint'.pc \notin {"reapRead", "reapWrite", "collect"} => ItemInv'
    BY DEF ItemInv
  <1>1. ASSUME NEW old \in SUBSET Abandoned, StartRun(old) PROVE maint' \in RunState /\ ItemInv'
    <2>1. maint' = [maint EXCEPT !.pc = "reap", !.todo = old]
      BY <1>1 DEF StartRun, Run
    <2>2. old \in SUBSET (AssetIds \cup (AssetIds \X Versions) \cup Objects)
      BY DEF Abandoned
    <2>3. maint'.pc = "reap"
      BY <1>0, <2>1 DEF RunState
    <2> QED
      BY <1>0, <1>b, <2>1, <2>2, <2>3, Relabelled
  <1>2. ASSUME NEW a \in AssetIds, ReapStaged(a) PROVE maint' \in RunState /\ ItemInv'
    <2>1. CASE maint' = Skipped(a)
      <3>1. maint' \in RunState
        BY <1>0, <1>2, <2>1, CountedTyped DEF ReapStaged
      <3>2. maint'.pc = "reap"
        BY <1>0, <1>2, <2>1 DEF ReapStaged, Skipped, RunState
      <3> QED
        BY <1>b, <3>1, <3>2
    <2>2. CASE maint' = [maint EXCEPT !.pc = "reapRead", !.item = a]
      BY <1>0, <2>2 DEF RunState, ItemInv
    <2> QED
      BY <1>2, <2>1, <2>2 DEF ReapStaged, Run
  <1>3. CASE ReapRead
    <2>1. CASE maint' = [maint EXCEPT !.pc = "reapWrite"]
      <3>1. maint'.pc = "reapWrite" /\ maint'.item = maint.item
        BY <1>0, <2>1 DEF RunState
      <3> QED
        BY <1>0, <1>3, <2>1, <3>1, Relabelled DEF ReapRead, ItemInv
    <2>2. CASE maint' = Counted("reap")
      <3>1. maint' \in RunState /\ maint'.pc = "reap"
        BY <1>0, <1>a, <1>3, <2>2, CountedTyped DEF ReapRead, InItem, Counted, RunState
      <3> QED
        BY <1>b, <3>1
    <2> QED
      BY <1>3, <2>1, <2>2 DEF ReapRead, Run
  <1>4. CASE ReapWrite
    <2>1. maint' = Counted("reap") /\ canDelete
      BY <1>4, <1>a DEF ReapWrite, Run, InItem
    <2>2. maint' \in RunState
      BY <1>0, <2>1, CountedTyped
    <2>3. maint'.pc = "reap"
      BY <1>0, <2>1 DEF Counted, RunState
    <2> QED
      BY <1>b, <2>2, <2>3
  <1>5. ASSUME NEW old \in SUBSET Superseded, SelectSuperseded(old) PROVE maint' \in RunState /\ ItemInv'
    <2>1. maint' = [maint EXCEPT !.pc = "expire", !.todo = old]
      BY <1>5 DEF SelectSuperseded, Run
    <2>2. old \in SUBSET (AssetIds \cup (AssetIds \X Versions) \cup Objects)
      BY DEF Superseded
    <2>3. maint'.pc = "expire"
      BY <1>0, <2>1 DEF RunState
    <2> QED
      BY <1>0, <1>b, <2>1, <2>2, <2>3, Relabelled
  <1>6. ASSUME NEW v \in AssetIds \X Versions, ExpireSource(v) PROVE maint' \in RunState /\ ItemInv'
    <2> DEFINE lost == IF Present(versions[v].source) THEN 1 ELSE 0
    <2>1. \/ maint' = Skipped(v)
          \/ maint' = [maint EXCEPT !.pc = "expireDerived", !.item = v, !.lost = @ + lost]
          \/ maint' = [maint EXCEPT !.pc = "expireDerived", !.item = v]
      BY <1>6 DEF ExpireSource, Run
    <2>2. maint.pc = "expire" /\ canDelete
      BY <1>6 DEF ExpireSource
    <2>3. lost \in Nat
      OBVIOUS
    <2> HIDE DEF lost
    <2>4. CASE maint' = Skipped(v)
      <3>1. maint' \in RunState
        BY <1>0, <2>2, <2>4, CountedTyped
      <3>2. maint'.pc = "expire"
        BY <1>0, <2>2, <2>4 DEF Skipped, RunState
      <3> QED
        BY <1>b, <3>1, <3>2
    <2>5. CASE maint' = [maint EXCEPT !.pc = "expireDerived", !.item = v, !.lost = @ + lost]
      <3>1. maint.lost + lost \in Nat
        BY <1>0, <2>3 DEF RunState
      <3>2. maint' \in RunState /\ maint'.pc = "expireDerived"
        BY <1>0, <2>5, <3>1 DEF RunState
      <3> QED
        BY <1>b, <3>2
    <2>6. CASE maint' = [maint EXCEPT !.pc = "expireDerived", !.item = v]
      <3>1. maint' \in RunState /\ maint'.pc = "expireDerived"
        BY <1>0, <2>6 DEF RunState
      <3> QED
        BY <1>b, <3>1
    <2> QED
      BY <2>1, <2>4, <2>5, <2>6
  <1>7. CASE ExpireDerived
    <2>1. maint' = [maint EXCEPT !.pc = "expireRows"]
      BY <1>7 DEF ExpireDerived, Run
    <2>2. maint'.pc = "expireRows"
      BY <1>0, <2>1 DEF RunState
    <2> QED
      BY <1>0, <1>b, <2>1, <2>2, Relabelled
  <1>8. CASE ExpireRows
    <2>1. maint' = Counted("expire") /\ canDelete
      BY <1>8, <1>a DEF ExpireRows, Run, InItem
    <2>2. maint' \in RunState
      BY <1>0, <2>1, CountedTyped
    <2>3. maint'.pc = "expire"
      BY <1>0, <2>1 DEF Counted, RunState
    <2> QED
      BY <1>b, <2>2, <2>3
  <1>9. CASE LoadLive
    <2> DEFINE basis == {<<a, assets[a].current>> : a \in {b \in AssetIds : Visible(b)}}
    <2>1. maint' = [maint EXCEPT !.pc = "list", !.todo = {}, !.live = liveVersionKeys, !.basis = basis]
      BY <1>9 DEF LoadLive, Run
    <2>2. liveVersionKeys \in SUBSET (AssetIds \X Versions)
      BY DEF liveVersionKeys
    <2>3. basis \in SUBSET (AssetIds \X (0..MaxVersion))
      BY <1>0 DEF AssetRow
    <2> HIDE DEF basis
    <2>4. maint' \in RunState /\ maint'.pc = "list"
      BY <1>0, <2>1, <2>2, <2>3 DEF RunState
    <2> QED
      BY <1>b, <2>4
  <1>10. CASE List
    <2> DEFINE page == {o \in list(maint.prefix) : ownerOf(o) \notin maint.live}
    <2>1. maint' = [maint EXCEPT !.pc = "collect", !.todo = page]
      BY <1>10 DEF List, Run
    <2>2. \A o \in page : o \in Objects /\ PrefixOf(o) = maint.prefix
      BY <1>0 DEF list
    <2> HIDE DEF page
    <2>3. page \in SUBSET (AssetIds \cup (AssetIds \X Versions) \cup Objects)
      BY <2>2
    <2>4. maint'.pc = "collect" /\ maint'.todo = page /\ maint'.prefix = maint.prefix
      BY <1>0, <2>1 DEF RunState
    <2>5. maint' \in RunState
      BY <1>0, <2>1, <2>3, Relabelled
    <2> QED
      BY <2>2, <2>4, <2>5 DEF ItemInv, PrefixOf
  <1>11. ASSUME NEW o \in Objects, Collect(o) PROVE maint' \in RunState /\ ItemInv'
    <2> DEFINE stray == IF maint.prefix = "derived" THEN maint.stray \cup {o} ELSE maint.stray
               done == [maint EXCEPT !.todo = @ \ {o}, !.deletions = @ + 1, !.stray = stray]
               lost == IF o \in OriginalKeys /\ Present(o) THEN 1 ELSE 0
    <2>1. maint' = done \/ maint' = [done EXCEPT !.lost = @ + lost]
      BY <1>11 DEF Collect, Run
    <2>2. maint.pc = "collect" /\ canDelete /\ PrefixOf(o) = maint.prefix
      BY <1>0, <1>11 DEF Collect, ItemInv
    <2>3. stray \in SUBSET DerivedKeys
      <3>1. maint.prefix = "derived" => o \in DerivedKeys
        BY <2>2 DEF PrefixOf, Objects
      <3> QED
        BY <1>0, <3>1 DEF RunState
    <2>4. lost \in Nat
      OBVIOUS
    <2>5. maint.deletions + 1 \in 0..MaxDeletions
      BY <1>0, <2>2, MaintenanceAssumption DEF RunState, canDelete
    <2> HIDE DEF stray, lost
    <2>6. /\ done \in RunState /\ done.pc = "collect" /\ done.prefix = maint.prefix
          /\ done.todo = maint.todo \ {o} /\ done.lost \in Nat
      BY <1>0, <2>2, <2>3, <2>5 DEF RunState
    <2> HIDE DEF done
    <2>7. done.lost + lost \in Nat
      BY <2>4, <2>6
    <2>8. /\ maint' \in RunState /\ maint'.pc = "collect" /\ maint'.prefix = maint.prefix
          /\ maint'.todo = maint.todo \ {o}
      BY <2>1, <2>6, <2>7 DEF RunState
    <2> QED
      BY <1>0, <2>2, <2>8 DEF ItemInv, PrefixOf
  <1>12. CASE NextPrefix
    <2> DEFINE prefix == IF maint.prefix = "original" THEN "master" ELSE "derived"
    <2>1. \/ maint' = [maint EXCEPT !.pc = "rows", !.todo = {}]
          \/ maint' = [maint EXCEPT !.pc = "list", !.todo = {}, !.prefix = prefix]
      BY <1>12 DEF NextPrefix, Run
    <2>2. prefix \in Prefixes
      BY DEF Prefixes
    <2> HIDE DEF prefix
    <2>3. maint' \in RunState /\ maint'.pc \in {"rows", "list"}
      BY <1>0, <2>1, <2>2, ZenonT(60) DEF RunState
    <2> QED
      BY <1>b, <2>3
  <1>13. CASE ForgetStrays
    <2>1. maint' = [maint EXCEPT !.pc = "stalled"]
      BY <1>13 DEF ForgetStrays, Run
    <2>2. maint'.pc = "stalled"
      BY <1>0, <2>1 DEF RunState
    <2> QED
      BY <1>0, <1>b, <2>1, <2>2, Relabelled
  <1>14. ASSUME NEW old \in SUBSET AwaitingOptimization, SelectStalled(old)
         PROVE  maint' \in RunState /\ ItemInv'
    <2>1. maint' = [maint EXCEPT !.pc = "resend", !.todo = old]
      BY <1>14 DEF SelectStalled, Run
    <2>2. old \in SUBSET (AssetIds \cup (AssetIds \X Versions) \cup Objects)
      BY DEF AwaitingOptimization
    <2>3. maint'.pc = "resend"
      BY <1>0, <2>1 DEF RunState
    <2> QED
      BY <1>0, <1>b, <2>1, <2>2, <2>3, Relabelled
  <1>15. ASSUME NEW m \in AssetIds \X Versions, Reenqueue(m) PROVE maint' \in RunState /\ ItemInv'
    <2>1. maint' = [maint EXCEPT !.todo = @ \ {m}] /\ maint.pc = "resend"
      BY <1>15 DEF Reenqueue, Run
    <2>2. maint' \in RunState /\ maint'.pc = "resend"
      BY <1>0, <2>1 DEF RunState
    <2> QED
      BY <1>b, <2>2
  <1>16. CASE FinishRun \/ AbortRun
    <2>1. maint' = Idling(maint.dry) /\ maint.dry \in BOOLEAN
      BY <1>0, <1>16 DEF FinishRun, AbortRun, Run, RunState
    <2>2. maint' \in RunState
      BY <2>1, IdleTyped
    <2>3. maint'.pc = "idle"
      BY <2>1 DEF Idling
    <2> QED
      BY <1>b, <2>2, <2>3
  <1> QED
    BY <1>1, <1>2, <1>3, <1>4, <1>5, <1>6, <1>7, <1>8, <1>9, <1>10, <1>11, <1>12, <1>13, <1>14, <1>15, <1>16
    DEF Reclaim, RunStep

LEMMA SamePlatform == PlatformTyped /\ UNCHANGED platformVars => PlatformTyped'
PROOF
  <1> SUFFICES ASSUME PlatformTyped, UNCHANGED platformVars PROVE PlatformTyped'
    OBVIOUS
  <1>1. UNCHANGED vars /\ UNCHANGED workerVars
    BY DEF platformVars
  <1>2. TypeInv'
    BY <1>1, TypeStep DEF PlatformTyped
  <1> QED
    BY <1>1, <1>2 DEF PlatformTyped, WorkersTyped, WorkerTypeOK, workerVars

LEMMA ReclaimInvInit == PlatformInit /\ ReclaimInit => ReclaimInv
PROOF
  <1> SUFFICES ASSUME PlatformInit, ReclaimInit PROVE ReclaimInv
    OBVIOUS
  <1>1. PlatformTyped
    BY PlatformInvInit DEF PlatformInit, PlatformInv, PlatformTyped, WorkersTyped, WorkerTypeOK, WorkerInit, NoWork, WorkTyped
  <1>2. PICK dry \in BOOLEAN : maint = Idling(dry)
    BY DEF ReclaimInit
  <1>3. maint \in RunState /\ maint.pc = "idle"
    BY <1>2, IdleTyped DEF Idling
  <1>4. settled \subseteq Objects /\ slips \in 0..MaxSlips
    BY MaintenanceAssumption DEF ReclaimInit
  <1> QED
    BY <1>1, <1>3, <1>4, RunInvInit DEF ReclaimInv, ReclaimTypeOK, ItemInv

LEMMA ReclaimInvStep == ReclaimInv /\ [ReclaimNext]_everything => ReclaimInv'
PROOF
  <1> SUFFICES ASSUME ReclaimInv, [ReclaimNext]_everything PROVE ReclaimInv'
    OBVIOUS
  <1>0. PlatformTyped /\ RunInv /\ ReclaimTypeOK /\ ItemInv /\ RunInv'
    BY RunInvInductive DEF ReclaimInv
  <1>1. CASE Operate
    <2>1. PlatformTyped' /\ settled' \subseteq Objects /\ UNCHANGED <<maint, slips>>
      BY <1>0, <1>1, PlatformNextTypes DEF Operate, ReclaimTypeOK
    <2> QED
      BY <1>0, <2>1 DEF ReclaimInv, ReclaimTypeOK, ItemInv
  <1>2. CASE Reclaim
    <2>1. PlatformTyped' /\ maint' \in RunState /\ ItemInv'
      BY <1>0, <1>2, ReclaimTrims, TrimmedTypes, RunTyped
    <2>2. settled' \subseteq Objects
      BY <1>0, <1>2 DEF Reclaim, RunStep, StartRun, ReapStaged, ReapRead, ReapWrite, SelectSuperseded,
         ExpireSource, ExpireDerived, ExpireRows, LoadLive, List, Collect, NextPrefix, ForgetStrays,
         SelectStalled, Reenqueue, FinishRun, AbortRun, Erase, ReclaimTypeOK
    <2>3. slips' = slips \/ Slip
      BY <1>2 DEF Reclaim, RunStep, StartRun, ReapStaged, ReapRead, ReapWrite, SelectSuperseded,
         ExpireSource, ExpireDerived, ExpireRows, LoadLive, List, Collect, NextPrefix, ForgetStrays,
         SelectStalled, Reenqueue, FinishRun, AbortRun
    <2>4. slips' \in 0..MaxSlips
      BY <1>0, <2>3, MaintenanceAssumption DEF Slip, ReclaimTypeOK
    <2> QED
      BY <1>0, <2>1, <2>2, <2>4 DEF ReclaimInv, ReclaimTypeOK
  <1>3. CASE Pass
    <2>1. settled' \subseteq Objects /\ UNCHANGED <<platformVars, maint, slips>>
      BY <1>3 DEF Pass
    <2> QED
      BY <1>0, <2>1, SamePlatform DEF ReclaimInv, ReclaimTypeOK, ItemInv
  <1>4. CASE UNCHANGED everything
    <2>1. UNCHANGED <<platformVars, maint, settled, slips>>
      BY <1>4 DEF everything, reclaimVars
    <2> QED
      BY <1>0, <2>1, SamePlatform DEF ReclaimInv, ReclaimTypeOK, ItemInv
  <1> QED
    BY <1>1, <1>2, <1>3, <1>4 DEF ReclaimNext

LEMMA ReclaimSpecInv == ReclaimSpec => []ReclaimInv
  BY ReclaimInvInit, ReclaimInvStep, PTL DEF ReclaimSpec

\* Whatever a run deletes, hides or queues again while requests and workers go on,
\* it and the platform beside it stay typed: it works on keys, rows and versions of
\* its own lists and within its cap (maintenance.ts, run).
THEOREM ReclaimTypeOKCorrect == ReclaimSpec => [](ReclaimTypeOK /\ PlatformTypeOK)
PROOF
  <1>1. ReclaimInv => ReclaimTypeOK /\ PlatformTypeOK
    BY DEF ReclaimInv, PlatformTyped, TypeInv, PlatformTypeOK
  <1> QED
    BY <1>1, ReclaimSpecInv, PTL

---------------------------------------------------------------------------
(* The source of a current version, when uploads of one asset do not overlap. *)

\* The code does not exclude that two requests upload for one asset at once
\* (a second completeUpload, a replacement beside another); then the key of a
\* version can name another one, and superseding that one takes its source.
OneWriter ==
  \A r, s \in Requests :
    r # s /\ req[r].pc \in UploadLabels /\ req[s].pc \in UploadLabels => req[r].asset # req[s].asset

\* An upload that may still commit.
Pending == {"put", "head", "validate", "scan", "reserve", "hash", "dedup", "copy", "txRead", "txCommit"}

BaseInv ==
  \A r \in Requests :
    /\ req[r].pc \in Pending => req[r].base = assets[req[r].asset].current
    /\ req[r].pc = "txCommit" => req[r].seen = assets[req[r].asset].current

KeysNameVersions ==
  \A v \in AssetIds \X Versions : versions[v] # None => ownerOf(versions[v].source) = v

\* A pending upload has just read its base, or keeps the one it has.
Path(r) ==
  req'[r].pc \in Pending =>
    \/ req'[r].base = assets[req'[r].asset].current
    \/ /\ req[r].pc \in Pending \ {"txCommit"}
       /\ req'[r].asset = req[r].asset /\ req'[r].base = req[r].base

\* A committing upload is done with it, whatever becomes of its transaction.
Leaves(r) == req[r].pc = "txCommit" => req'[r].pc \notin Pending

LEMMA PendingLabels ==
  /\ Pending \subseteq Labels /\ Pending \subseteq UploadLabels /\ "idle" \notin Pending
  /\ \A p \in DOMAIN OnError : OnError[p] \notin Pending
  BY DEF Pending, Labels, OnError, UploadLabels, Promoting

LEMMA MovePath ==
  ASSUME TypeInv, NEW r \in Requests, NEW l \in Labels,
         Goto(r, l) \/ (req[r].pc \in DOMAIN OnError /\ Took(r, l)),
         l \notin Pending \/ req[r].pc \in Pending \ {"txCommit"}
  PROVE  Path(r) /\ Leaves(r)
PROOF
  <1>1. /\ req'[r].pc = l \/ (req[r].pc \in DOMAIN OnError /\ req'[r].pc = OnError[req[r].pc])
        /\ req'[r].pc # "idle" => Keeps(req'[r], req[r])
    BY Shape
  <1>2. req'[r].pc \notin Pending \/ (req'[r].pc = l /\ l \in Pending)
    BY <1>1, PendingLabels
  <1> QED
    BY <1>1, <1>2, PendingLabels DEF Path, Leaves, Keeps

LEMMA LearnPath ==
  ASSUME TypeInv, NEW r \in Requests, req[r].pc \in Pending \ {"txCommit"}, NEW l \in Labels \ {"idle"},
         NEW STATE p, p \in RequestState, p.asset = req[r].asset, p.base = req[r].base, Become(r, To(p, l))
  PROVE  Path(r) /\ Leaves(r)
PROOF
  <1>1. Keeps(req'[r], p)
    BY LearnShape
  <1> QED
    BY <1>1 DEF Path, Leaves, Keeps

LEMMA HandlePath ==
  ASSUME TypeInv, NEW r \in Requests, Arrive(r) \/ Handle(r) \/ Fail(r) \/ Crash(r)
  PROVE  Path(r) /\ Leaves(r)
PROOF
  <1> USE DEF At
  <1>0. req[r] \in RequestState /\ req \in [Requests -> RequestState]
    BY ActingRequest DEF TypeInv, TypeOK
  <1>l. /\ {"idle", "reserve", "head", "hash", "copy", "txRead", "release", "rejectDelete", "rejectRead",
            "rejectWrite", "dupRelease", "dupRead", "dupWrite", "dupReturn", "acked", "enqueue", "clean",
            "return", "delOriginals", "delDerived"} \subseteq Labels
        /\ {"validate", "scan", "dedup", "copy", "dupDelete", "txCommit"} \subseteq Labels \ {"idle"}
    BY DEF Labels, OnError
  <1>e. {"put", "reserve", "copy", "dupDelete", "dupRelease", "dupWrite", "txCommit", "clean", "delWrite"}
          \subseteq DOMAIN OnError
    BY DEF OnError
  <1>1. CASE Arrive(r)
    <2>1. PICK a \in AssetIds, k \in ApiKeys \cup {None}, l \in {"put", "head", "delWrite", "resend"},
               s \in StagingKeys \cup {None}, d \in BOOLEAN : Become(r, Arrived(l, a, k, s, d))
      <3>1. \A a \in AssetIds, t \in Stamps \cup {"upload"} : <<a, t>> \in StagingKeys
        BY DEF StagingKeys
      <3> QED
        BY <1>1, <3>1 DEF Arrive, delete, reprocess, ingestStream, completeUpload, replaceSourceStream
    <2>2. req[r].pc = "idle"
      BY <1>1 DEF Arrive, delete, reprocess, ingestStream, completeUpload, replaceSourceStream
    <2>3. req'[r].asset = a /\ req'[r].base = assets[a].current
      BY <2>1, BecomeShape DEF Arrived
    <2> QED
      BY <2>2, <2>3 DEF Path, Leaves
  <1>2. CASE \/ \E c \in Contents : Put(r, c)
             \/ \E v \in Verdicts : Scan(r, v)
             \/ Reserve(r) \/ Copy(r)
    BY <1>2, <1>l, <1>e, MovePath DEF Put, Scan, Reserve, Copy, Pending
  <1>3. CASE \/ RejectDelete(r) \/ RejectRead(r) \/ RejectWrite(r)
             \/ DupDelete(r) \/ DupRelease(r) \/ DupRead(r) \/ DupWrite(r) \/ DupReturn(r)
    BY <1>3, <1>l, <1>e, MovePath DEF RejectDelete, RejectRead, RejectWrite, DupDelete, DupRelease,
       DupRead, DupWrite, DupReturn, Pending
  <1>4. CASE \/ TxCommit(r) \/ Enqueue(r) \/ Clean(r) \/ Return(r) \/ Release(r)
             \/ DelWrite(r) \/ DelOriginals(r) \/ DelDerived(r) \/ Resend(r) \/ Respond(r)
    BY <1>4, <1>l, <1>e, MovePath DEF TxCommit, Enqueue, Clean, Return, Release, DelWrite, DelOriginals,
       DelDerived, Resend, Respond, Pending
  <1>5. CASE Head(r)
    <2>1. CASE Goto(r, "idle")
      BY <1>l, <2>1, MovePath DEF Pending
    <2>2. CASE Staged(r) # None
      <3> DEFINE bytes == Size[Staged(r)]
                 p == [req[r] EXCEPT !.bytes = bytes]
      <3>1. bytes \in Nat
        BY <1>5, <2>2, ActingRequest, IngestAssumption DEF Head, Staged, UploadLabels
      <3>2. req[r].pc = "head" /\ Become(r, To(p, "validate"))
        BY <1>5, <2>2 DEF Head
      <3> HIDE DEF bytes
      <3>3. p \in RequestState /\ p.asset = req[r].asset /\ p.base = req[r].base
        BY <1>0, <3>1 DEF RequestState
      <3> HIDE DEF p
      <3> QED
        BY <1>l, <3>2, <3>3, LearnPath DEF Pending
    <2> QED
      BY <1>5, <2>1, <2>2 DEF Head
  <1>6. CASE Validate(r)
    <2>1. CASE Goto(r, "rejectDelete")
      BY <1>l, <2>1, MovePath DEF Pending
    <2>2. CASE Staged(r) \in ValidContents
      <3> DEFINE fmt == Format[Staged(r)]
                 p == [req[r] EXCEPT !.fmt = fmt]
      <3>1. fmt \in Formats
        BY <2>2, IngestAssumption
      <3>2. req[r].pc = "validate" /\ Become(r, To(p, "scan"))
        BY <1>6, <2>2 DEF Validate
      <3> HIDE DEF fmt
      <3>3. p \in RequestState /\ p.asset = req[r].asset /\ p.base = req[r].base
        BY <1>0, <3>1 DEF RequestState
      <3> HIDE DEF p
      <3> QED
        BY <1>l, <3>2, <3>3, LearnPath DEF Pending
    <2> QED
      BY <1>6, <2>1, <2>2 DEF Validate
  <1>7. CASE Hash(r)
    <2>1. CASE Goto(r, "release")
      BY <1>l, <2>1, MovePath DEF Pending
    <2>2. CASE Staged(r) # None
      <3> DEFINE hash == Staged(r)
                 p == [req[r] EXCEPT !.hash = hash]
      <3>1. hash \in Contents
        BY <1>7, <2>2, ActingRequest DEF Hash, Staged, UploadLabels
      <3>2. req[r].pc = "hash" /\ \E l \in {"dedup", "copy"} : Become(r, To(p, l))
        BY <1>7, <2>2 DEF Hash
      <3> HIDE DEF hash
      <3>3. p \in RequestState /\ p.asset = req[r].asset /\ p.base = req[r].base
        BY <1>0, <3>1 DEF RequestState
      <3> HIDE DEF p
      <3> QED
        BY <1>l, <3>2, <3>3, LearnPath DEF Pending
    <2> QED
      BY <1>7, <2>1, <2>2 DEF Hash
  <1>8. CASE Dedup(r)
    <2>0. req[r].pc = "dedup"
      BY <1>8 DEF Dedup
    <2>1. CASE Goto(r, "copy")
      BY <1>l, <2>0, <2>1, MovePath DEF Pending
    <2>2. ASSUME NEW b, Become(r, To([req[r] EXCEPT !.twin = b], "dupDelete")), b \in AssetIds
          PROVE  Path(r) /\ Leaves(r)
      <3> DEFINE p == [req[r] EXCEPT !.twin = b]
      <3>1. p \in RequestState /\ p.asset = req[r].asset /\ p.base = req[r].base
        BY <1>0, <2>2 DEF RequestState
      <3>2. Become(r, To(p, "dupDelete"))
        BY <2>2
      <3> HIDE DEF p
      <3> QED
        BY <1>l, <2>0, <3>1, <3>2, LearnPath DEF Pending
    <2>3. DOMAIN versions = AssetIds \X Versions
      BY DEF TypeInv, TypeOK, RegistryTypeOK
    <2> QED
      BY <1>8, <2>1, <2>2, <2>3 DEF Dedup, Twins, Matches
  <1>9. CASE TxRead(r)
    <2>1. CASE Goto(r, "release")
      BY <1>l, <2>1, MovePath DEF Pending
    <2>2. CASE ~Goto(r, "release")
      <3> DEFINE n == assets[req[r].asset].current
                 p == [req[r] EXCEPT !.seen = n]
      <3>1. n \in 0..MaxVersion
        BY <1>9, ActingRequest DEF TxRead, TypeInv, TypeOK, RegistryTypeOK, AssetRow
      <3>2. req[r].pc = "txRead" /\ Become(r, To(p, "txCommit"))
        BY <1>9, <2>2 DEF TxRead
      <3> HIDE DEF n
      <3>3. p \in RequestState /\ p.asset = req[r].asset /\ p.base = req[r].base
        BY <1>0, <3>1 DEF RequestState
      <3> HIDE DEF p
      <3> QED
        BY <1>l, <3>2, <3>3, LearnPath DEF Pending
    <2> QED
      BY <2>1, <2>2
  <1>10. CASE Fail(r) \/ Crash(r)
    <2>1. req'[r].pc \notin Pending
      <3>1. CASE Crash(r)
        BY <1>0, <3>1, PendingLabels DEF Crash, Idle
      <3>2. CASE Fail(r)
        <4>1. req[r].pc \in DOMAIN OnError /\ req'[r] = To(req[r], OnError[req[r].pc])
          BY <1>0, <3>2 DEF Fail
        <4>2. req'[r].pc = OnError[req[r].pc]
          BY <1>0, <4>1, OnErrorNarrows, ToType
        <4> QED
          BY <4>1, <4>2, PendingLabels
      <3> QED
        BY <1>10, <3>1, <3>2
    <2> QED
      BY <2>1 DEF Path, Leaves
  <1> QED
    BY <1>1, <1>2, <1>3, <1>4, <1>5, <1>6, <1>7, <1>8, <1>9, <1>10 DEF Handle

SourceInv == BaseInv /\ KeysNameVersions

\* Versions are only added at the head, and never go back.
RowsGrow ==
  /\ \A a \in AssetIds : assets[a].current <= assets'[a].current
  /\ \A v \in AssetIds \X Versions :
       /\ versions[v] # None => versions'[v] # None
       /\ versions[v] = None /\ versions'[v] # None => v[2] > assets[v[1]].current

\* What changes no version number and adds no row asks nothing of the uploads.
LEMMA SourceKept ==
  ASSUME TypeInv, SourceInv, \A a \in AssetIds : assets'[a].current = assets[a].current, req' = req,
         \A v \in AssetIds \X Versions : versions'[v] # None => versions'[v] = versions[v]
  PROVE  SourceInv'
PROOF
  <1>1. \A r \in Requests : req[r].pc \in Pending => req[r].asset \in AssetIds
    BY ActingRequest, PendingLabels
  <1>2. "txCommit" \in Pending
    BY DEF Pending
  <1>3. BaseInv'
    BY <1>1, <1>2 DEF SourceInv, BaseInv
  <1>4. KeysNameVersions'
    BY DEF SourceInv, KeysNameVersions, ownerOf
  <1> QED
    BY <1>3, <1>4 DEF SourceInv

LEMMA CurrentIsNumber ==
  TypeInv => assets \in [AssetIds -> AssetRow] /\ \A a \in AssetIds : assets[a].current \in 0..MaxVersion
  BY DEF TypeInv, TypeOK, RegistryTypeOK, AssetRow

\* The one commit among uploads that do not overlap.
LEMMA CommitStep ==
  ASSUME TypeInv, TypeInv', SourceInv, OneWriter, NEW r \in Requests, req[r].pc = "txCommit",
         Others(r), Leaves(r), CanInsertVersion(req[r].asset, req[r].seen),
         CommitVersion(req[r].asset, req[r].seen, OriginalKey(r), req[r].hash)
  PROVE  SourceInv' /\ RowsGrow
PROOF
  <1> DEFINE a == req[r].asset
             n == req[r].seen
             key == OriginalKey(r)
             hash == req[r].hash
  <1>0. /\ req[r] \in RequestState /\ RequestOK(req[r], Existing) /\ a \in AssetIds
        /\ n \in 0..MaxVersion /\ req[r].base \in 0..MaxVersion
    BY ActingRequest DEF RequestState
  <1>1. n = assets[a].current /\ req[r].base = n
    BY DEF SourceInv, BaseInv, Pending
  <1>2. n < MaxVersion /\ hash \in Contents /\ req[r].fmt \in Formats
    BY <1>0 DEF RequestOK, Typed, Promoting
  <1>3. n + 1 \in Versions /\ <<a, n + 1>> \in AssetIds \X Versions
    BY <1>0, <1>2, RegistryAssumption DEF Versions
  <1>4. key \in OriginalKeys /\ key[1] = a /\ key[2] = n + 1
    BY <1>0, <1>1, <1>2, <1>3 DEF OriginalKey, OriginalKeys
  <1>5. CanInsertVersion(a, n) /\ CommitVersion(a, n, key, hash)
    OBVIOUS
  <1>6. \A s \in Requests \ {r} : req'[s] = req[s] /\ (req[s].pc \in Pending => req[s].asset \in AssetIds \ {a})
    BY ActingRequest, PendingLabels DEF OneWriter, Others, UploadLabels, Promoting
  <1>7. req'[r].pc \notin Pending
    BY DEF Leaves
  <1> HIDE DEF a, n, key, hash
  <1>8. Committed(a, n, key, hash)
    BY <1>0, <1>2, <1>3, <1>4, <1>5, CommitRows
  <1>9. /\ assets'[a].current = n + 1 /\ \A b \in AssetIds : b # a => assets'[b] = assets[b]
        /\ versions'[<<a, n + 1>>] # None /\ versions'[<<a, n + 1>>].source = key
        /\ \A v \in AssetIds \X Versions : v # <<a, n + 1>> =>
             /\ versions'[v] = None <=> versions[v] = None
             /\ versions[v] # None => versions'[v].source = versions[v].source
    BY <1>8 DEF Committed
  <1>10. BaseInv'
    <2>1. ASSUME NEW s \in Requests, req'[s].pc \in Pending
          PROVE  s # r /\ req'[s] = req[s] /\ assets'[req'[s].asset] = assets[req[s].asset]
      BY <1>6, <1>7, <1>9, <2>1
    <2>2. "txCommit" \in Pending
      BY DEF Pending
    <2> QED
      BY <2>1, <2>2 DEF SourceInv, BaseInv
  <1>11. KeysNameVersions'
    <2>1. ASSUME NEW v \in AssetIds \X Versions, versions'[v] # None
          PROVE  ownerOf(versions'[v].source) = v
      <3>1. CASE v = <<a, n + 1>>
        BY <1>4, <1>9, <3>1 DEF ownerOf
      <3>2. CASE v # <<a, n + 1>>
        BY <1>9, <2>1, <3>2 DEF SourceInv, KeysNameVersions, ownerOf
      <3> QED
        BY <3>1, <3>2
    <2> QED
      BY <2>1 DEF KeysNameVersions, ownerOf
  <1>12. RowsGrow
    <2>1. \A b \in AssetIds : assets[b].current <= assets'[b].current
      <3>1. ASSUME NEW b \in AssetIds PROVE assets[b].current <= assets'[b].current
        <4>1. assets[b].current \in Nat
          BY CurrentIsNumber
        <4>2. CASE b = a
          BY <1>0, <1>1, <1>9, <4>1, <4>2 DEF a, n
        <4>3. CASE b # a
          <5>1. assets'[b].current = assets[b].current
            BY <1>9, <4>3
          <5> QED
            BY <4>1, <5>1
        <4> QED
          BY <4>2, <4>3
      <3> QED
        BY <3>1
    <2>2. ASSUME NEW v \in AssetIds \X Versions
          PROVE  /\ versions[v] # None => versions'[v] # None
                 /\ versions[v] = None /\ versions'[v] # None => v[2] > assets[v[1]].current
      <3>1. CASE v = <<a, n + 1>>
        <4>1. v[2] = n + 1 /\ assets[v[1]].current = n /\ n \in Nat
          BY <1>0, <1>1, <3>1 DEF a, n
        <4>2. n + 1 > n
          BY <4>1
        <4> QED
          BY <1>9, <3>1, <4>1, <4>2
      <3>2. CASE v # <<a, n + 1>>
        BY <1>9, <3>2
      <3> QED
        BY <3>1, <3>2
    <2> QED
      BY <2>1, <2>2 DEF RowsGrow
  <1> QED
    BY <1>10, <1>11, <1>12 DEF SourceInv

LEMMA SameCurrent ==
  ASSUME TypeInv, \A a \in AssetIds : assets'[a].current = assets[a].current, versions' = versions
  PROVE  RowsGrow
  BY CurrentIsNumber DEF RowsGrow

\* A step of the control plane.
LEMMA ServeSource ==
  ASSUME TypeInv, TypeInv', SourceInv, OneWriter, Next
  PROVE  SourceInv' /\ RowsGrow
PROOF
  <1>0. assets \in [AssetIds -> AssetRow]
    BY CurrentIsNumber
  <1>1. ASSUME NEW b \in AssetIds, Create(b)
        PROVE  versions' = versions /\ \A a \in AssetIds : assets'[a].current = assets[a].current
    BY <1>0, <1>1 DEF Create, AssetRow
  <1>2. ASSUME NEW b \in AssetIds, NEW st \in {"rejected", "deleted"}, RemoveAs(b, st)
        PROVE  versions' = versions /\ \A a \in AssetIds : assets'[a].current = assets[a].current
    BY <1>0, <1>2 DEF RemoveAs, AssetRow
  <1>3. UNCHANGED registryVars =>
          versions' = versions /\ \A a \in AssetIds : assets'[a].current = assets[a].current
    BY DEF registryVars
  <1>4. CASE Client
    <2>1. req' = req /\ versions' = versions /\ \A a \in AssetIds : assets'[a].current = assets[a].current
      BY <1>1, <1>3, <1>4 DEF Client, createUploadTarget, ClientPut
    <2> QED
      BY <2>1, SourceKept, SameCurrent
  <1>5. ASSUME NEW r \in Requests, Arrive(r) \/ Handle(r) \/ Fail(r) \/ Crash(r)
        PROVE  SourceInv' /\ RowsGrow
    <2>1. Others(r) /\ Own(r) /\ Data(r) /\ Path(r) /\ Leaves(r)
      BY <1>5, HandleData, ArriveOwn, GateOwn, PromoteOwn, RestOwn, HandlePath DEF Handle
    <2>2. CASE versions' = versions /\ \A a \in AssetIds : assets'[a].current = assets[a].current
      <3>1. \A s \in Requests : req'[s].pc \in Pending => req'[s].asset \in AssetIds
        <4>1. \A s \in Requests : RequestOK(req'[s], Existing')
          BY DEF TypeInv, RequestInv
        <4> QED
          BY <4>1, PendingLabels DEF RequestOK, Existing
      <3>2. \A s \in Requests : req[s].pc \in Pending => req[s].asset \in AssetIds
        BY ActingRequest, PendingLabels
      <3>3. "txCommit" \in Pending
        BY DEF Pending
      <3>4. ASSUME NEW s \in Requests
            PROVE  /\ req'[s].pc \in Pending => req'[s].base = assets'[req'[s].asset].current
                   /\ req'[s].pc = "txCommit" => req'[s].seen = assets'[req'[s].asset].current
        <4>1. CASE s # r
          <5>1. req'[s] = req[s]
            BY <2>1, <4>1 DEF Others
          <5>2. /\ req[s].pc \in Pending => req[s].base = assets[req[s].asset].current
                /\ req[s].pc = "txCommit" => req[s].seen = assets[req[s].asset].current
            BY DEF SourceInv, BaseInv
          <5> QED
            BY <2>2, <3>2, <3>3, <5>1, <5>2
        <4>2. CASE s = r
          <5>1. req'[r].pc \in Pending => req'[r].base = assets[req'[r].asset].current
            BY <2>1 DEF Path, SourceInv, BaseInv
          <5>2. req'[r].pc = "txCommit" => req'[r].seen = assets[req'[r].asset].current
            BY <2>1 DEF Own
          <5> QED
            BY <2>2, <3>1, <3>3, <4>2, <5>1, <5>2
        <4> QED
          BY <4>1, <4>2
      <3>5. KeysNameVersions'
        BY <2>2 DEF SourceInv, KeysNameVersions, ownerOf
      <3>6. BaseInv'
        BY <3>4 DEF BaseInv
      <3> QED
        BY <2>2, <3>5, <3>6, SameCurrent DEF SourceInv
    <2>3. CASE /\ req[r].pc = "txCommit" /\ CanInsertVersion(req[r].asset, req[r].seen)
               /\ CommitVersion(req[r].asset, req[r].seen, OriginalKey(r), req[r].hash)
      BY <2>1, <2>3, CommitStep
    <2>4. req[r].pc # "idle" => req[r].asset \in AssetIds
      BY ActingRequest
    <2> QED
      BY <1>1, <1>2, <1>3, <2>1, <2>2, <2>3, <2>4 DEF Data
  <1> QED
    BY <1>4, <1>5 DEF Next

\* What a run holds in its lists: rows of versions that are and stay superseded,
\* and objects whose version was not among the live ones it loaded.
Outdated == {v \in AssetIds \X Versions : versions[v] # None /\ v[2] < assets[v[1]].current}

ExpireInv ==
  /\ maint.pc \in {"expire", "expireDerived", "expireRows"} => maint.todo \subseteq Outdated
  /\ maint.pc \in {"expireDerived", "expireRows"} => maint.item \in Outdated

LiveInv ==
  maint.pc \in {"list", "collect"} =>
    \A v \in AssetIds \X Versions :
      v \in maint.basis => v[2] <= assets[v[1]].current /\ (versions[v] # None => v \in maint.live)

OrphanInv == maint.pc = "collect" => \A o \in maint.todo : ownerOf(o) \notin maint.live

ListsInv == ExpireInv /\ LiveInv /\ OrphanInv

\* The platform goes on beside a run.
LEMMA ListsKept ==
  ASSUME TypeInv, TypeInv', ListsInv, RowsGrow, maint' = maint
  PROVE  ListsInv'
PROOF
  <1>0. \A a \in AssetIds : /\ assets[a].current \in Nat /\ assets'[a].current \in Nat
                            /\ assets[a].current <= assets'[a].current
    BY CurrentIsNumber DEF RowsGrow, TypeInv, TypeOK, RegistryTypeOK, AssetRow
  <1>a. \A i, j, k \in Int : (i < j /\ j <= k => i < k) /\ (i <= j /\ j <= k => i <= k) /\ ~(i <= j /\ i > j)
    OBVIOUS
  <1>1. \A v \in AssetIds \X Versions : v[1] \in AssetIds /\ v[2] \in Int
    BY DEF Versions
  <1>2. Outdated \subseteq Outdated'
    <2>1. ASSUME NEW v \in Outdated PROVE v \in Outdated'
      <3>1. v \in AssetIds \X Versions /\ versions'[v] # None /\ v[2] < assets[v[1]].current
        BY DEF Outdated, RowsGrow
      <3>2. v[2] < assets'[v[1]].current
        BY <1>0, <1>1, <1>a, <3>1
      <3> QED
        BY <3>1, <3>2 DEF Outdated
    <2> QED
      BY <2>1
  <1>3. ExpireInv'
    BY <1>2 DEF ListsInv, ExpireInv
  <1>4. LiveInv'
    <2>1. ASSUME NEW v \in AssetIds \X Versions, maint.pc \in {"list", "collect"}, v \in maint.basis
          PROVE  v[2] <= assets'[v[1]].current /\ (versions'[v] # None => v \in maint.live)
      <3>1. v[2] <= assets[v[1]].current /\ (versions[v] # None => v \in maint.live)
        BY <2>1 DEF ListsInv, LiveInv
      <3>2. versions'[v] # None => versions[v] # None
        BY <1>0, <1>1, <1>a, <3>1 DEF RowsGrow
      <3> QED
        BY <1>0, <1>1, <1>a, <3>1, <3>2
    <2> QED
      BY <2>1 DEF LiveInv
  <1>5. OrphanInv'
    BY DEF ListsInv, OrphanInv, ownerOf
  <1> QED
    BY <1>3, <1>4, <1>5 DEF ListsInv

\* A step of the run itself.
LEMMA ListsStep ==
  ASSUME ReclaimInv, ListsInv, Reclaim
  PROVE  ListsInv'
PROOF
  <1>0. /\ maint \in RunState /\ ExpireInv /\ LiveInv /\ OrphanInv /\ TypeInv
        /\ assets \in [AssetIds -> AssetRow]
        /\ \A a \in AssetIds : assets[a].current \in 0..MaxVersion
    BY CurrentIsNumber DEF ReclaimInv, ReclaimTypeOK, PlatformTyped, ListsInv
  <1>a. maint'.pc \notin {"expire", "expireDerived", "expireRows", "list", "collect"} => ListsInv'
    BY DEF ListsInv, ExpireInv, LiveInv, OrphanInv
  <1>b. UNCHANGED registryVars => Outdated' = Outdated
    BY DEF registryVars, Outdated
  \* A step within the expiry of versions.
  <1>c. ASSUME maint'.pc \in {"expire", "expireDerived", "expireRows"}, maint'.todo \subseteq Outdated',
               maint'.pc # "expire" => maint'.item \in Outdated'
        PROVE  ListsInv'
    BY <1>c DEF ListsInv, ExpireInv, LiveInv, OrphanInv
  \* A step within the collection of orphans, with the versions loaded before.
  <1>d. ASSUME UNCHANGED registryVars, maint.pc \in {"list", "collect"}, maint'.pc \in {"list", "collect"},
               maint'.basis = maint.basis, maint'.live = maint.live,
               maint'.pc = "collect" => \A o \in maint'.todo : ownerOf(o) \notin maint.live
        PROVE  ListsInv'
    <2>1. assets' = assets /\ versions' = versions
      BY <1>d DEF registryVars
    <2>2. ExpireInv'
      BY <1>d DEF ExpireInv
    <2>3. LiveInv'
      BY <1>0, <1>d, <2>1 DEF LiveInv
    <2>4. OrphanInv'
      BY <1>d DEF OrphanInv, ownerOf
    <2> QED
      BY <2>2, <2>3, <2>4 DEF ListsInv
  <1>e. UNCHANGED platformVars => UNCHANGED registryVars
    BY DEF platformVars, vars, sharedVars
  <1>1. ASSUME NEW a \in AssetIds, ReapStaged(a) PROVE ListsInv'
    <2>1. maint'.pc \in {"reap", "reapRead"}
      BY <1>0, <1>1 DEF ReapStaged, Run, Skipped, RunState
    <2> QED
      BY <1>a, <2>1
  <1>2. CASE ReapRead \/ ReapWrite
    <2>1. maint'.pc \in {"reap", "reapWrite"}
      BY <1>0, <1>2 DEF ReapRead, ReapWrite, Run, Counted, RunState
    <2> QED
      BY <1>a, <2>1
  <1>3. ASSUME NEW old \in SUBSET Superseded, SelectSuperseded(old) PROVE ListsInv'
    <2>1. maint'.pc = "expire" /\ maint'.todo = old /\ UNCHANGED registryVars
      BY <1>0, <1>3, <1>e DEF SelectSuperseded, Run, RunState
    <2>2. old \subseteq Outdated'
      BY <1>b, <2>1 DEF Superseded, Outdated
    <2> QED
      BY <1>c, <2>1, <2>2
  <1>4. ASSUME NEW v \in AssetIds \X Versions, ExpireSource(v) PROVE ListsInv'
    <2>1. maint.pc = "expire" /\ v \in maint.todo /\ UNCHANGED registryVars
      BY <1>4 DEF ExpireSource, KeepRows
    <2>2. maint'.todo \subseteq maint.todo /\ (maint'.pc = "expire" \/ (maint'.pc = "expireDerived" /\ maint'.item = v))
      <3> DEFINE lost == IF Present(versions[v].source) THEN 1 ELSE 0
      <3>1. \/ maint' = Skipped(v)
            \/ maint' = [maint EXCEPT !.pc = "expireDerived", !.item = v, !.lost = @ + lost]
            \/ maint' = [maint EXCEPT !.pc = "expireDerived", !.item = v]
        BY <1>4 DEF ExpireSource, Run
      <3> HIDE DEF lost
      <3> QED
        BY <1>0, <2>1, <3>1, ZenonT(60) DEF Skipped, RunState
    <2>3. maint.todo \subseteq Outdated'
      BY <1>0, <1>b, <2>1 DEF ExpireInv
    <2> QED
      BY <1>c, <2>1, <2>2, <2>3
  <1>5. CASE ExpireDerived
    <2>1. maint.pc = "expireDerived" /\ UNCHANGED registryVars
      BY <1>5 DEF ExpireDerived, KeepRows
    <2>2. maint'.pc = "expireRows" /\ maint'.todo = maint.todo /\ maint'.item = maint.item
      BY <1>0, <1>5 DEF ExpireDerived, Run, RunState
    <2> QED
      BY <1>0, <1>b, <1>c, <2>1, <2>2 DEF ExpireInv
  <1>6. CASE ExpireRows
    <2>1. /\ maint.pc = "expireRows" /\ assets' = assets /\ versions' = [versions EXCEPT ![maint.item] = None]
          /\ maint' = Counted("expire")
      BY <1>6 DEF ExpireRows, Run
    <2>2. maint'.pc = "expire" /\ maint'.todo = maint.todo \ {maint.item}
      BY <1>0, <2>1 DEF Counted, RunState
    <2>3. \A v \in AssetIds \X Versions : v # maint.item => versions'[v] = versions[v]
      BY <1>0, <2>1 DEF TypeInv, TypeOK, RegistryTypeOK
    <2>4. maint'.todo \subseteq Outdated'
      BY <1>0, <2>1, <2>2, <2>3 DEF ExpireInv, Outdated
    <2> QED
      BY <1>c, <2>2, <2>4
  <1>7. CASE LoadLive
    <2> DEFINE basis == {<<a, assets[a].current>> : a \in {b \in AssetIds : Visible(b)}}
    <2>1. maint' = [maint EXCEPT !.pc = "list", !.todo = {}, !.live = liveVersionKeys, !.basis = basis]
          /\ assets' = assets /\ versions' = versions
      BY <1>7, <1>e DEF LoadLive, Run, registryVars
    <2>2. ASSUME NEW v \in AssetIds \X Versions, v \in basis
          PROVE  v[2] <= assets[v[1]].current /\ (versions[v] # None => v \in liveVersionKeys)
      <3>1. PICK a \in AssetIds : Visible(a) /\ v = <<a, assets[a].current>>
        BY <2>2
      <3>2. v[1] = a /\ v[2] = assets[a].current /\ assets[a].current \in Int
        BY <1>0, <3>1
      <3>3. v[2] <= assets[v[1]].current
        BY <3>2
      <3> QED
        BY <3>1, <3>2, <3>3 DEF liveVersionKeys, Visible
    <2> HIDE DEF basis
    <2>3. maint'.pc = "list" /\ maint'.live = liveVersionKeys /\ maint'.basis = basis
      BY <1>0, <2>1 DEF RunState
    <2>4. LiveInv'
      BY <2>1, <2>2, <2>3 DEF LiveInv
    <2> QED
      BY <2>3, <2>4 DEF ListsInv, ExpireInv, OrphanInv
  <1>8. CASE List
    <2>1. maint.pc = "list" /\ UNCHANGED registryVars
      BY <1>8, <1>e DEF List
    <2>2. maint'.pc = "collect" /\ maint'.basis = maint.basis /\ maint'.live = maint.live
          /\ maint'.todo = {o \in list(maint.prefix) : ownerOf(o) \notin maint.live}
      BY <1>0, <1>8 DEF List, Run, RunState
    <2> QED
      BY <1>d, <2>1, <2>2
  <1>9. ASSUME NEW o \in Objects, Collect(o) PROVE ListsInv'
    <2>1. maint.pc = "collect" /\ UNCHANGED registryVars
      BY <1>9 DEF Collect, KeepRows
    <2>2. /\ maint'.pc = "collect" /\ maint'.basis = maint.basis /\ maint'.live = maint.live
          /\ maint'.todo = maint.todo \ {o}
      <3> DEFINE stray == IF maint.prefix = "derived" THEN maint.stray \cup {o} ELSE maint.stray
                 done == [maint EXCEPT !.todo = @ \ {o}, !.deletions = @ + 1, !.stray = stray]
                 lost == IF o \in OriginalKeys /\ Present(o) THEN 1 ELSE 0
      <3>1. maint' = done \/ maint' = [done EXCEPT !.lost = @ + lost]
        BY <1>9 DEF Collect, Run
      <3> HIDE DEF stray, lost
      <3> QED
        BY <1>0, <2>1, <3>1 DEF RunState
    <2> QED
      BY <1>0, <1>d, <2>1, <2>2 DEF OrphanInv
  <1>10. CASE NextPrefix
    <2>1. maint.pc = "collect" /\ UNCHANGED registryVars
      BY <1>10, <1>e DEF NextPrefix, LoopOver
    <2>2. \/ maint'.pc = "rows"
          \/ maint'.pc = "list" /\ maint'.basis = maint.basis /\ maint'.live = maint.live
      <3> DEFINE prefix == IF maint.prefix = "original" THEN "master" ELSE "derived"
      <3>1. \/ maint' = [maint EXCEPT !.pc = "rows", !.todo = {}]
            \/ maint' = [maint EXCEPT !.pc = "list", !.todo = {}, !.prefix = prefix]
        BY <1>10 DEF NextPrefix, Run
      <3> HIDE DEF prefix
      <3> QED
        BY <1>0, <3>1 DEF RunState
    <2> QED
      BY <1>a, <1>d, <2>1, <2>2
  <1>11. CASE \/ \E old \in SUBSET Abandoned : StartRun(old)
              \/ ForgetStrays
              \/ \E old \in SUBSET AwaitingOptimization : SelectStalled(old)
              \/ \E m \in AssetIds \X Versions : Reenqueue(m)
              \/ FinishRun \/ AbortRun
    <2>1. maint'.pc \in {"reap", "stalled", "resend", "idle"}
      <3>1. CASE FinishRun \/ AbortRun
        BY <3>1 DEF FinishRun, AbortRun, Run, Idling
      <3>2. CASE \E m \in AssetIds \X Versions : Reenqueue(m)
        BY <1>0, <3>2 DEF Reenqueue, Run, RunState
      <3>3. CASE ForgetStrays
        BY <1>0, <3>3 DEF ForgetStrays, Run, RunState
      <3>4. CASE \/ \E old \in SUBSET Abandoned : StartRun(old)
                 \/ \E old \in SUBSET AwaitingOptimization : SelectStalled(old)
        BY <1>0, <3>4 DEF StartRun, SelectStalled, Run, RunState
      <3> QED
        BY <1>11, <3>1, <3>2, <3>3, <3>4
    <2> QED
      BY <1>a, <2>1
  <1> QED
    BY <1>1, <1>2, <1>3, <1>4, <1>5, <1>6, <1>7, <1>8, <1>9, <1>10, <1>11 DEF Reclaim, RunStep

---------------------------------------------------------------------------
(* The invariant of one writer per asset, and what a run leaves in place. *)

OneWriterInv == ReclaimInv /\ SourceInv /\ ListsInv

LEMMA OneWriterInit == PlatformInit /\ ReclaimInit => OneWriterInv
PROOF
  <1> SUFFICES ASSUME PlatformInit, ReclaimInit PROVE OneWriterInv
    OBVIOUS
  <1>1. SourceInv
    BY DEF PlatformInit, Init, RegistryInit, Idle, SourceInv, BaseInv, KeysNameVersions, Pending
  <1>2. maint.pc = "idle"
    BY DEF ReclaimInit, Idling
  <1> QED
    BY <1>1, <1>2, ReclaimInvInit DEF OneWriterInv, ListsInv, ExpireInv, LiveInv, OrphanInv

LEMMA OneWriterStep == OneWriterInv /\ OneWriter /\ [ReclaimNext]_everything => OneWriterInv'
PROOF
  <1> SUFFICES ASSUME OneWriterInv, OneWriter, [ReclaimNext]_everything PROVE OneWriterInv'
    OBVIOUS
  <1>0. ReclaimInv /\ SourceInv /\ ListsInv /\ ReclaimInv' /\ PlatformTyped /\ TypeInv /\ TypeInv'
    BY ReclaimInvStep DEF OneWriterInv, ReclaimInv, PlatformTyped
  <1>1. CASE Serve /\ maint' = maint
    <2>1. SourceInv' /\ RowsGrow
      BY <1>0, <1>1, ServeSource DEF Serve
    <2> QED
      BY <1>0, <1>1, <2>1, ListsKept DEF OneWriterInv
  <1>2. CASE Optimize /\ maint' = maint
    <2>1. Restatused /\ versions' = versions /\ req' = req
      BY <1>0, <1>2, WorkerNextTypes DEF Optimize
    <2>2. \A a \in AssetIds : assets'[a].current = assets[a].current
      BY <2>1 DEF Restatused
    <2>3. SourceInv' /\ RowsGrow
      BY <1>0, <2>1, <2>2, SourceKept, SameCurrent
    <2> QED
      BY <1>0, <1>2, <2>3, ListsKept DEF OneWriterInv
  <1>3. CASE UNCHANGED platformVars /\ maint' = maint
    <2>1. assets' = assets /\ versions' = versions /\ req' = req
      BY <1>3 DEF platformVars, vars, sharedVars, registryVars
    <2>2. SourceInv' /\ RowsGrow
      BY <1>0, <2>1, SourceKept, SameCurrent
    <2> QED
      BY <1>0, <1>3, <2>2, ListsKept DEF OneWriterInv
  <1>4. CASE Reclaim
    <2>1. Trimmed
      BY <1>0, <1>4, ReclaimTrims
    <2>2. /\ \A a \in AssetIds : assets'[a].current = assets[a].current
          /\ \A v \in AssetIds \X Versions : versions'[v] # None => versions'[v] = versions[v]
          /\ req' = req
      BY <2>1 DEF Trimmed, Restatused
    <2>3. SourceInv'
      BY <1>0, <2>2, SourceKept
    <2> QED
      BY <1>0, <1>4, <2>3, ListsStep DEF OneWriterInv
  <1> QED
    BY <1>1, <1>2, <1>3, <1>4 DEF ReclaimNext, Operate, PlatformNext, Pass, everything, reclaimVars

LEMMA KeysAreApart == OriginalKeys \cap DerivedKeys = {}
  BY MaintenanceAssumption DEF OriginalKeys, DerivedKeys

\* No step of a run takes the current source of a visible asset.
Safe(a) ==
  Servable(a) /\ (maint.pc \in {"list", "collect"} => <<a, assets[a].current>> \in maint.basis)

LEMMA RunTakesNoSource ==
  ASSUME OneWriterInv, Reclaim, NEW a \in AssetIds, Safe(a)
  PROVE  (Servable(a) \/ ~Visible(a))'
PROOF
  <1> DEFINE v == <<a, assets[a].current>>
             key == versions[v].source
  <1>0. /\ TypeInv /\ SourceInv /\ ExpireInv /\ LiveInv /\ OrphanInv /\ ItemInv /\ ReclaimInv /\ Trimmed
        /\ versions \in [AssetIds \X Versions -> VersionRow \cup {None}]
        /\ assets[a].current \in 0..MaxVersion
    BY ReclaimTrims, CurrentIsNumber
    DEF OneWriterInv, ReclaimInv, PlatformTyped, ListsInv, TypeInv, TypeOK, RegistryTypeOK
  <1>1. Visible(a) /\ assets[a].current > 0 /\ versions[v] # None /\ originals[key] # None
    BY DEF Safe, Servable, HasSource, Stored
  <1>2. v \in AssetIds \X Versions /\ v[1] = a /\ v[2] = assets[a].current
    BY <1>0, <1>1 DEF Versions
  <1>3. key \in OriginalKeys /\ ownerOf(key) = v
    <2>1. versions[v] \in VersionRow
      BY <1>0, <1>1, <1>2
    <2> QED
      BY <1>0, <1>1, <1>2, <2>1 DEF VersionRow, SourceInv, KeysNameVersions
  <1>4. v \notin Outdated
    BY <1>0, <1>2 DEF Outdated
  <1>5. assets'[a].current = assets[a].current
    BY <1>0 DEF Trimmed, Restatused
  <1>6. versions'[v] = versions[v]
    BY <1>0, <1>2, <1>4 DEF Trimmed, ExpireInv
  <1> HIDE DEF v
  \* What is left to show: the object is still there.
  <1>a. ASSUME originals'[key] = originals[key]
        PROVE  (Servable(a) \/ ~Visible(a))'
    BY <1>1, <1>5, <1>6, <1>a DEF Servable, HasSource, Stored, v
  <1>b. \A gone : Erase(gone) /\ key \notin gone => originals'[key] = originals[key]
    BY <1>3 DEF Erase
  <1> HIDE DEF key
  <1>7. ASSUME NEW w \in AssetIds \X Versions, ExpireSource(w) PROVE originals'[key] = originals[key]
    <2>1. w \in Outdated
      BY <1>0, <1>7 DEF ExpireSource, ExpireInv
    <2>2. ownerOf(versions[w].source) = w
      BY <1>0, <2>1 DEF Outdated, SourceInv, KeysNameVersions
    <2>3. key # versions[w].source
      BY <1>3, <1>4, <2>1, <2>2
    <2> QED
      BY <1>7, <1>b, <2>3 DEF ExpireSource, bucketVars
  <1>8. CASE ExpireDerived
    <2>1. key \notin DerivedKeys
      BY <1>3, KeysAreApart
    <2> QED
      BY <1>8, <1>a, <1>b, <2>1 DEF ExpireDerived
  <1>9. ASSUME NEW o \in Objects, Collect(o) PROVE originals'[key] = originals[key]
    <2>1. v \in maint.live
      BY <1>0, <1>1, <1>2, <1>9 DEF Collect, LiveInv, Safe, v
    <2>2. ownerOf(o) \notin maint.live
      BY <1>0, <1>9 DEF Collect, OrphanInv
    <2>3. key # o
      BY <1>3, <2>1, <2>2
    <2> QED
      BY <1>9, <1>b, <2>3 DEF Collect, bucketVars
  <1>10. UNCHANGED platformVars \/ UNCHANGED bucketVars => originals'[key] = originals[key]
    BY DEF platformVars, vars, sharedVars, bucketVars
  <1>11. ASSUME NEW b \in AssetIds, ReapStaged(b) PROVE originals'[key] = originals[key]
    BY <1>11 DEF ReapStaged, DeleteStaged, bucketVars
  <1> QED
    BY <1>a, <1>7, <1>8, <1>9, <1>10, <1>11
    DEF Reclaim, RunStep, StartRun, ReapRead, ReapWrite, SelectSuperseded, ExpireRows, LoadLive, List,
        NextPrefix, ForgetStrays, SelectStalled, Reenqueue, FinishRun, AbortRun

\* As long as no two uploads of one asset overlap, no step of a run takes the
\* source of the current version of a visible asset: it expires only what is
\* superseded for good, and collects only what no version it knew of owns
\* (maintenance.ts, expireSupersededVersions and collectOrphans).
THEOREM CommittedSourceKeptCorrect == ReclaimSpec /\ []OneWriter => CommittedSourceKept
PROOF
  <1>1. OneWriterInv /\ [ReclaimNext]_everything =>
          [\A a \in AssetIds :
             /\ maint' # maint /\ Servable(a)
             /\ maint.pc \in {"list", "collect"} => <<a, assets[a].current>> \in maint.basis
             => (Servable(a) \/ ~Visible(a))']_everything
    <2> SUFFICES ASSUME OneWriterInv, [ReclaimNext]_everything, maint' # maint, NEW a \in AssetIds, Safe(a)
                 PROVE  (Servable(a) \/ ~Visible(a))'
      BY DEF Safe
    <2>1. Reclaim
      BY DEF ReclaimNext, Operate, Pass, everything, reclaimVars
    <2> QED
      BY <2>1, RunTakesNoSource
  <1> QED
    BY <1>1, OneWriterInit, OneWriterStep, PTL DEF ReclaimSpec, CommittedSourceKept
=============================================================================
