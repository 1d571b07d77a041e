------------------------------ MODULE Platform ------------------------------
(***************************************************************************)
(* The control plane's writers and the optimize workers together.  They    *)
(* share the registry rows, the bucket and the queue, and nothing else.    *)
(***************************************************************************)
EXTENDS Ingest, Optimizer

platformVars == <<vars, workerVars>>

PlatformInit == Init /\ WorkerInit

Serve == Next /\ UNCHANGED workerVars

Optimize == WorkerNext /\ UNCHANGED <<quotaVars, targets, req, faults>>

PlatformNext == Serve \/ Optimize

PlatformSpec == PlatformInit /\ [][PlatformNext]_platformVars

\* A busy worker goes on or is timed out, the queue keeps handing out each
\* message while a worker is free, and it enforces its redrive policy.
\* Nothing is assumed of the clients or of the control plane.
Hand(m) == (\E w \in Workers : Receive(w, m)) /\ UNCHANGED <<quotaVars, targets, req, faults>>
Work(w) == ~Doing(w, "idle") /\ Step(w) /\ UNCHANGED <<quotaVars, targets, req, faults>>
Redrive(m) == DeadLetter(m) /\ UNCHANGED <<quotaVars, targets, req, faults>>

WorkerFairness ==
  /\ \A w \in Workers : WF_platformVars(Work(w))
  /\ \A m \in AssetIds \X Versions : SF_platformVars(Hand(m)) /\ WF_platformVars(Redrive(m))

FairPlatformSpec == PlatformSpec /\ WorkerFairness

PlatformTypeOK == TypeOK /\ WorkerTypeOK

---------------------------------------------------------------------------
WarmSetExists(a, n) == \A v \in WarmSet : derived[<<a, n, v>>] # None

\* The status ready is earned: a visible asset that is ready has a version whose
\* whole warm set is in the bucket and whose metadata is recorded.  No skipped,
\* interrupted or half-done job, delivered once or many times, grants it.
ReadyIsEarned ==
  \A a \in AssetIds :
    Visible(a) /\ assets[a].status = "ready" =>
      \E n \in 1..assets[a].current : WarmSetExists(a, n) /\ described[<<a, n>>] # None

\* A derivative row stands for an object: every row of a visible asset names
\* a key that is in the bucket, whichever workers raced for that key.
InventoryIsReal ==
  \A d \in recorded : Visible(d[1]) => derived[d] # None

\* No job circulates forever: however often workers die or meet retriable
\* errors, a message in the queue is at last acknowledged or dead-lettered,
\* unless a client keeps sending it afresh, which restarts its receive count.
MessagesSettle ==
  \A m \in AssetIds \X Versions :
    (m \in jobs /\ receives[m] > 0) ~> (m \notin jobs \/ receives[m] = 0)

\* What ready means: the warm set of the current version exists.
ReadyIsOptimized ==
  \A a \in AssetIds :
    Visible(a) /\ assets[a].status = "ready" => WarmSetExists(a, assets[a].current)
=============================================================================
