---------------------------- MODULE Maintenance ----------------------------
(***************************************************************************)
(* Scheduled reclamation (apps/maintenance) beside the running platform.   *)
(* One run is one pass: reap abandoned uploads, expire superseded          *)
(* versions, collect orphaned objects, re-enqueue stalled optimizations.   *)
(* Every query selects once; its rows are acted on one awaited call at a   *)
(* time, while requests and workers go on.                                 *)
(*                                                                         *)
(* Age.  A row is old enough whenever the query likes: no property here    *)
(* rests on the length of the row windows.  The safety window of objects   *)
(* is kept: only an object written before the last Pass is in settled.     *)
(***************************************************************************)
EXTENDS Platform, FiniteSets

CONSTANTS
  MaxDeletions,     \* maxDeletionsPerRun
  MaxReenqueues,    \* maxReenqueuesPerRun
  MaxSlips,         \* bound: failed calls and crashes of reclamation
  MaxActive         \* bound: requests, jobs and runs in progress at once

ASSUME MaintenanceAssumption ==
  /\ MaxDeletions \in Nat /\ MaxReenqueues \in Nat \ {0} /\ MaxSlips \in Nat /\ MaxActive \in Nat
  /\ Formats \cap ({"master"} \cup Variants) = {}

VARIABLES
  maint,        \* the run in progress
  settled,      \* objects last written before the safety window of the next run
  slips

reclaimVars == <<maint, settled, slips>>
everything == <<platformVars, reclaimVars>>

Objects == OriginalKeys \cup DerivedKeys
Prefixes == {"original", "master", "derived"}

Idling(dry) == [pc |-> "idle", dry |-> dry, todo |-> {}, item |-> None, live |-> {},
          prefix |-> "original", stray |-> {}, deletions |-> 0, basis |-> {}, lost |-> 0]

RunState ==
  [pc : {"idle", "reap", "reapRead", "reapWrite", "expire", "expireDerived", "expireRows",
         "list", "collect", "rows", "stalled", "resend"},
   dry : BOOLEAN,                   \* lifecycle.dryRun: a setting, no run changes it
   todo : SUBSET (AssetIds \cup (AssetIds \X Versions) \cup Objects),
   item : AssetIds \cup (AssetIds \X Versions) \cup {None},
   live : SUBSET (AssetIds \X Versions),
   prefix : Prefixes,
   stray : SUBSET DerivedKeys,      \* orphanedDerivativeKeys
   deletions : 0..MaxDeletions,     \* deletionsThisRun
   basis : SUBSET (AssetIds \X (0..MaxVersion)),  \* versions current when live was loaded (history)
   lost : Nat]                      \* originals this run destroyed (history)

ReclaimTypeOK == maint \in RunState /\ settled \subseteq Objects /\ slips \in 0..MaxSlips

ReclaimInit == (\E dry \in BOOLEAN : maint = Idling(dry)) /\ settled = {} /\ slips = 0

---------------------------------------------------------------------------
Present(o) == IF o \in OriginalKeys THEN originals[o] # None ELSE derived[o] # None

PrefixOf(o) == IF o \in OriginalKeys THEN "original" ELSE IF o[3] = "master" THEN "master" ELSE "derived"

\* ownerOf: every key the code itself writes can be parsed.
ownerOf(o) == <<o[1], o[2]>>

\* Objects removed from the bucket, and what that does to the settled ones.
Erase(gone) ==
  /\ originals' = [o \in OriginalKeys |-> IF o \in gone THEN None ELSE originals[o]]
  /\ derived' = [d \in DerivedKeys |-> IF d \in gone THEN None ELSE derived[d]]
  /\ settled' = settled \ gone
  /\ UNCHANGED staging

Slip == slips < MaxSlips /\ slips' = slips + 1

canDeleteAlways == TRUE                                 \* wrong: the cap is not consulted
canDeleteOneMore == maint.deletions <= MaxDeletions     \* wrong: off by one
canDelete == maint.deletions < MaxDeletions

\* The run's next state, and one whose current item is done with.
Run(m) == maint' = m
Counted(pc) == [maint EXCEPT !.pc = pc, !.item = None, !.todo = @ \ {maint.item}, !.deletions = @ + 1]
Skipped(i) == [maint EXCEPT !.todo = @ \ {i}, !.deletions = @ + 1]

\* A job's loop is over: its list is done, or the cap is reached.
LoopOver(l) == maint.pc = l /\ (maint.todo = {} \/ ~canDelete)

KeepRows == UNCHANGED <<registryVars, workerVars>>
KeepRest == UNCHANGED <<quotaVars, targets, req, faults>>

Active ==
  Cardinality({r \in Requests : ~At(r, "idle")}) + Cardinality({w \in Workers : ~Doing(w, "idle")})
    + IF maint.pc = "idle" THEN 0 ELSE 1

---------------------------------------------------------------------------
(* reapPendingUploads *)

Abandoned == {a \in AssetIds : assets[a].status = "pending_upload" /\ ~assets[a].gone}

StartRun(old) ==
  /\ maint.pc = "idle"
  /\ old \subseteq Abandoned
  /\ Active < MaxActive          \* bound
  /\ Run([maint EXCEPT !.pc = "reap", !.todo = old])
  /\ UNCHANGED <<platformVars, settled, slips>>

\* delete of the staged object, its failure swallowed.
ReapStaged(a) ==
  /\ maint.pc = "reap" /\ a \in maint.todo /\ canDelete
  /\ IF maint.dry
       THEN Run(Skipped(a)) /\ UNCHANGED <<bucketVars, slips>>
       ELSE /\ Run([maint EXCEPT !.pc = "reapRead", !.item = a])
            /\ \/ DeleteStaged(<<a, "upload">>) /\ UNCHANGED slips
               \/ Slip /\ UNCHANGED bucketVars
  /\ UNCHANGED <<settled, queueVars>> /\ KeepRows /\ KeepRest

\* softDelete: a transition from whatever status the row has by now.
ReapRead ==
  /\ maint.pc = "reapRead"
  /\ Run(IF canTransition(assets[maint.item].status, "deleted")
           THEN [maint EXCEPT !.pc = "reapWrite"] ELSE Counted("reap"))
  /\ UNCHANGED <<platformVars, settled, slips>>

ReapWrite ==
  /\ maint.pc = "reapWrite"
  /\ Run(Counted("reap"))
  /\ \/ RemoveAs(maint.item, "deleted") /\ UNCHANGED slips
     \/ Slip /\ UNCHANGED registryVars
  /\ UNCHANGED <<bucketVars, queueVars, workerVars, settled>> /\ KeepRest

---------------------------------------------------------------------------
(* expireSupersededVersions *)

SupersededNotOlder ==       \* wrong: the rows are aged by createdAt, and current ones pass
  {v \in AssetIds \X Versions :
     versions[v] # None /\ ~assets[v[1]].gone /\ v[2] <= assets[v[1]].current}

Superseded ==
  {v \in AssetIds \X Versions :
     /\ versions[v] # None /\ ~assets[v[1]].gone
     /\ versions[v].supersededAt # 0
     /\ v[2] < assets[v[1]].current}

SelectSuperseded(old) ==
  /\ LoopOver("reap")
  /\ old \subseteq Superseded
  /\ Run([maint EXCEPT !.pc = "expire", !.todo = old])
  /\ UNCHANGED <<platformVars, settled, slips>>

ExpireSource(v) ==
  /\ maint.pc = "expire" /\ v \in maint.todo /\ canDelete
  /\ LET o == versions[v].source
     IN  IF maint.dry
           THEN Run(Skipped(v)) /\ UNCHANGED <<bucketVars, settled, slips>>
           ELSE \/ /\ Erase({o})
                   /\ Run([maint EXCEPT !.pc = "expireDerived", !.item = v,
                                        !.lost = @ + IF Present(o) THEN 1 ELSE 0])
                   /\ UNCHANGED slips
                \/ /\ Slip
                   /\ Run([maint EXCEPT !.pc = "expireDerived", !.item = v])
                   /\ UNCHANGED <<bucketVars, settled>>
  /\ UNCHANGED queueVars /\ KeepRows /\ KeepRest

\* The master, if its key was recorded, and everything under derived/{a}/v{n}-.
ExpireDerived ==
  /\ maint.pc = "expireDerived"
  /\ LET v == maint.item
         all == {d \in DerivedKeys :
                   ownerOf(d) = v /\ (d[3] = "master" => described[v] \in Large)}
     IN  \/ Erase(all) /\ UNCHANGED slips
         \/ Slip /\ \E some \in SUBSET all : Erase(some)
  /\ Run([maint EXCEPT !.pc = "expireRows"])
  /\ UNCHANGED queueVars /\ KeepRows /\ KeepRest

\* deleteVersionRows: one transaction; its failure fails the run.
ExpireRows ==
  /\ maint.pc = "expireRows"
  /\ LET v == maint.item
     IN  /\ versions' = [versions EXCEPT ![v] = None]
         /\ described' = [described EXCEPT ![v] = None]
         /\ recorded' = {d \in recorded : ownerOf(d) # v}
  /\ Run(Counted("expire"))
  /\ UNCHANGED <<assets, clock, bucketVars, queueVars, work, settled, slips>> /\ KeepRest

---------------------------------------------------------------------------
(* collectOrphans *)

liveVersionKeysReady ==     \* wrong: an asset is live once it is ready
  {v \in AssetIds \X Versions : versions[v] # None /\ assets[v[1]].status = "ready"}

liveVersionKeys == {v \in AssetIds \X Versions : versions[v] # None /\ ~assets[v[1]].gone}

LoadLive ==
  /\ LoopOver("expire")
  /\ Run([maint EXCEPT !.pc = "list", !.todo = {}, !.live = liveVersionKeys,
                       !.basis = {<<a, assets[a].current>> : a \in {b \in AssetIds : Visible(b)}}])
  /\ UNCHANGED <<platformVars, settled, slips>>

\* One page holds a prefix: keys and times are those of the moment of the list.
list(prefix) == {o \in settled : PrefixOf(o) = prefix}

List ==
  /\ maint.pc = "list"
  /\ Run([maint EXCEPT !.pc = "collect",
                       !.todo = {o \in list(maint.prefix) : ownerOf(o) \notin maint.live}])
  /\ UNCHANGED <<platformVars, settled, slips>>

Collect(o) ==
  /\ maint.pc = "collect" /\ o \in maint.todo /\ canDelete
  /\ LET done == [maint EXCEPT !.todo = @ \ {o}, !.deletions = @ + 1,
                               !.stray = IF maint.prefix = "derived" THEN @ \cup {o} ELSE @]
         lost == IF o \in OriginalKeys /\ Present(o) THEN 1 ELSE 0
     IN  \/ maint.dry /\ Run(done) /\ UNCHANGED <<bucketVars, settled, slips>>
         \/ ~maint.dry /\ Erase({o}) /\ Run([done EXCEPT !.lost = @ + lost]) /\ UNCHANGED slips
         \/ ~maint.dry /\ Slip /\ Run(done) /\ UNCHANGED <<bucketVars, settled>>
  /\ UNCHANGED queueVars /\ KeepRows /\ KeepRest

NextPrefix ==
  /\ LoopOver("collect")
  /\ Run(IF maint.prefix = "derived"
           THEN [maint EXCEPT !.pc = "rows", !.todo = {}]
           ELSE [maint EXCEPT !.pc = "list", !.todo = {},
                              !.prefix = IF @ = "original" THEN "master" ELSE "derived"])
  /\ UNCHANGED <<platformVars, settled, slips>>

\* deleteDerivativeRows, best effort.
ForgetStrays ==
  /\ maint.pc = "rows"
  /\ \/ recorded' = (IF maint.dry THEN recorded ELSE recorded \ maint.stray) /\ UNCHANGED slips
     \/ Slip /\ UNCHANGED recorded
  /\ Run([maint EXCEPT !.pc = "stalled"])
  /\ UNCHANGED <<registryVars, bucketVars, queueVars, work, described, settled>> /\ KeepRest

---------------------------------------------------------------------------
(* reenqueueStalledOptimizations *)

AwaitingOptimization ==
  {v \in AssetIds \X Versions :
     assets[v[1]].status = "stored" /\ ~assets[v[1]].gone /\ v[2] = assets[v[1]].current}

SelectStalled(old) ==
  /\ maint.pc = "stalled"
  /\ old \subseteq AwaitingOptimization /\ Cardinality(old) <= MaxReenqueues
  /\ Run([maint EXCEPT !.pc = "resend", !.todo = old])
  /\ UNCHANGED <<platformVars, settled, slips>>

ReenqueueAlsoDry(m) ==      \* wrong: a dry run enqueues
  /\ maint.pc = "resend" /\ m \in maint.todo
  /\ enqueue(m[1], m[2])
  /\ Run([maint EXCEPT !.todo = @ \ {m}])
  /\ UNCHANGED <<bucketVars, settled, slips>> /\ KeepRows /\ KeepRest

ReenqueueFirst(m) ==        \* wrong: the job names the first version
  /\ maint.pc = "resend" /\ m \in maint.todo
  /\ ~maint.dry /\ enqueue(m[1], 1)
  /\ Run([maint EXCEPT !.todo = @ \ {m}])
  /\ UNCHANGED <<bucketVars, settled, slips>> /\ KeepRows /\ KeepRest

Reenqueue(m) ==
  /\ maint.pc = "resend" /\ m \in maint.todo
  /\ \/ ~maint.dry /\ enqueue(m[1], m[2]) /\ UNCHANGED slips
     \/ ~maint.dry /\ Slip /\ UNCHANGED queueVars
     \/ maint.dry /\ UNCHANGED <<queueVars, slips>>
  /\ Run([maint EXCEPT !.todo = @ \ {m}])
  /\ UNCHANGED <<bucketVars, settled>> /\ KeepRows /\ KeepRest

FinishRun ==
  /\ maint.pc = "resend" /\ maint.todo = {}
  /\ Run(Idling(maint.dry))
  /\ UNCHANGED <<platformVars, settled, slips>>

\* A call whose error the run does not catch, or the death of its container.
AbortRun ==
  /\ maint.pc # "idle"
  /\ Slip
  /\ Run(Idling(maint.dry))
  /\ UNCHANGED <<platformVars, settled>>

---------------------------------------------------------------------------
RunStep ==
  \/ \E a \in AssetIds : ReapStaged(a)
  \/ ReapRead \/ ReapWrite
  \/ \E old \in SUBSET Superseded : SelectSuperseded(old)
  \/ \E v \in AssetIds \X Versions : ExpireSource(v)
  \/ ExpireDerived \/ ExpireRows
  \/ LoadLive \/ List
  \/ \E o \in Objects : Collect(o)
  \/ NextPrefix \/ ForgetStrays
  \/ \E old \in SUBSET AwaitingOptimization : SelectStalled(old)
  \/ \E m \in AssetIds \X Versions : Reenqueue(m)
  \/ FinishRun

Reclaim ==
  \/ \E old \in SUBSET Abandoned : StartRun(old)
  \/ RunStep
  \/ AbortRun

\* An object the platform writes is young again, also when it writes the bytes
\* that were there: a copy to an original key, a put of a master.
Rewritten(o) ==
  \/ o \in OriginalKeys /\ originals'[o] # originals[o]
  \/ o \in DerivedKeys /\ derived'[o] # derived[o]
  \/ \E r \in Requests : At(r, "copy") /\ req'[r] # req[r] /\ o = OriginalKey(r)
  \/ \E w \in Workers : Doing(w, "master") /\ work'[w] # work[w] /\ o = RenditionKey(w, "master")

Operate ==
  /\ PlatformNext
  /\ settled' = {o \in settled : ~Rewritten(o)}
  /\ UNCHANGED <<maint, slips>>
  /\ Active' <= MaxActive        \* bound

\* A safety window passes: no request, job or run lasts as long as that.
Pass ==
  /\ \A r \in Requests : At(r, "idle")
  /\ \A w \in Workers : Doing(w, "idle")
  /\ maint.pc = "idle"
  /\ settled' = {o \in Objects : Present(o)}
  /\ UNCHANGED <<platformVars, maint, slips>>

ReclaimNext == Operate \/ Reclaim \/ Pass

ReclaimSpec == PlatformInit /\ ReclaimInit /\ [][ReclaimNext]_everything

\* The schedule fires, a run goes on, and a row that nothing updates is old in the end.
ReclaimFairness ==
  /\ SF_everything(\E old \in SUBSET Abandoned : StartRun(old))
  /\ WF_everything(RunStep)
  /\ \A m \in AssetIds \X Versions :
       SF_everything(\E old \in SUBSET AwaitingOptimization : m \in old /\ SelectStalled(old))

FairReclaimSpec == ReclaimSpec /\ ReclaimFairness

---------------------------------------------------------------------------
(* What reclamation guarantees. *)

\* Reclamation never takes the source of a version in sight: whatever a run
\* selected before, none of its steps removes the current original of a visible
\* asset.  The one exception is a version committed after the run loaded the
\* live versions.
CommittedSourceKept ==
  [][\A a \in AssetIds :
       /\ maint' # maint /\ Servable(a)
       /\ maint.pc \in {"list", "collect"} => <<a, assets[a].current>> \in maint.basis
       => (Servable(a) \/ ~Visible(a))']_everything

\* One run's mistake is bounded: whatever it selected, it destroys at most
\* maxDeletionsPerRun originals, the one thing that cannot be made again.
CapBoundsLoss == maint.lost <= MaxDeletions

\* A dry run reports and changes nothing, in any of its jobs.
DryRunChangesNothing ==
  [][maint.dry /\ maint' # maint =>
       UNCHANGED <<registryVars, bucketVars, queueVars, described, recorded>>]_everything

\* A lost job is found: a version left stored, with no message that could make
\* it ready, is queued again, unless it is replaced, finished or removed, or
\* reclamation is set to dry runs.
StalledIsRequeued ==
  \A m \in AssetIds \X Versions :
    m \in AwaitingOptimization /\ ~maint.dry ~> (m \in jobs \/ m \notin AwaitingOptimization)
=============================================================================
