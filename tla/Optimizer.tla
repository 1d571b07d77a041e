----------------------------- MODULE Optimizer -----------------------------
(***************************************************************************)
(* The optimize worker (apps/optimizer) with the control-plane endpoints   *)
(* it reports to (internal.service.ts).  A slot in Workers processes one   *)
(* message at a time; every call on storage or registry is one step.  A    *)
(* worker that dies, or meets a retriable error, leaves its message in the *)
(* queue; a terminal error is recorded on the asset and acknowledged.      *)
(***************************************************************************)
EXTENDS Bucket, JobQueue

CONSTANTS
  Workers,      \* slots for jobs being processed
  WarmSet,      \* variants the worker renders eagerly
  Corrupt,      \* contents validation accepts and the decoder refuses
  Large         \* contents over the master threshold

ASSUME OptimizerAssumption ==
  /\ WarmSet \subseteq Variants
  /\ Corrupt \subseteq Contents /\ Large \subseteq Contents
  /\ None \notin Variants
  /\ None \notin AssetIds \X Versions
  /\ None \notin OriginalKeys

VARIABLES
  work,         \* worker slot -> state of its job
  described,    \* version -> bytes its metadata columns were taken from, or None
  recorded      \* keys with a derivative row

workerVars == <<work, described, recorded>>

WorkLabels ==
  {"idle", "context", "get", "master", "warm", "record", "describe",
   "readyRead", "readyWrite", "failRead", "failWrite", "acknowledge"}

NoWork == [pc |-> "idle", job |-> None, key |-> None, source |-> None, todo |-> {}, variant |-> None]

WorkState ==
  [pc : WorkLabels,
   job : (AssetIds \X Versions) \cup {None},
   key : OriginalKeys \cup {None},          \* context.sourceKey
   source : Contents \cup {None},           \* the original, as read
   todo : SUBSET Variants,                  \* warm variants still to look at
   variant : Variants \cup {None}]          \* the variant just written

WorkerTypeOK ==
  /\ work \in [Workers -> WorkState]
  /\ described \in [AssetIds \X Versions -> Contents \cup {None}]
  /\ recorded \subseteq DerivedKeys

WorkerInit ==
  /\ work = [w \in Workers |-> NoWork]
  /\ described = [v \in AssetIds \X Versions |-> None]
  /\ recorded = {}

---------------------------------------------------------------------------
Doing(w, l) == work[w].pc = l

On(q, l) == IF l = "idle" THEN NoWork ELSE [q EXCEPT !.pc = l]

Turn(w, q) == work' = [work EXCEPT ![w] = q]
Proceed(w, l) == Turn(w, On(work[w], l))

Row(w) == assets[work[w].job[1]]
VersionOf(w) == work[w].job[2]
RenditionKey(w, v) == <<work[w].job[1], work[w].job[2], v>>

\* Received by the Lambda handler, with the message's receive count raised.
Receive(w, m) ==
  /\ Doing(w, "idle")
  /\ receive(m)
  /\ Turn(w, [pc |-> "context", job |-> m, key |-> None, source |-> None,
              todo |-> {}, variant |-> None])
  /\ UNCHANGED <<registryVars, bucketVars, described, recorded>>

\* The control plane has a context to give: the row of the asset's current version.
optimizeContext(w) ==
  LET v == <<work[w].job[1], Row(w).current>> IN v \in DOMAIN versions /\ versions[v] # None

\* The checks on its answer: a job without one, for a deleted asset or for a
\* version that is no longer current is acknowledged and skipped.
Context(w) ==
  /\ Doing(w, "context")
  /\ IF optimizeContext(w) /\ ~Row(w).gone /\ VersionOf(w) = Row(w).current
       THEN Turn(w, On([work[w] EXCEPT !.key = versions[work[w].job].source], "get"))
       ELSE Proceed(w, "acknowledge")
  /\ UNCHANGED <<registryVars, bucketVars, queueVars, described, recorded>>

\* A missing original is retriable; one the decoder refuses is terminal.
Get(w) ==
  /\ Doing(w, "get")
  /\ LET bytes == originals[work[w].key]
         read  == [work[w] EXCEPT !.source = bytes]
     IN  \/ bytes = None /\ Proceed(w, "idle")
         \/ bytes \in Corrupt /\ Turn(w, On(read, "failRead"))
         \/ bytes \in Large \ Corrupt /\ Turn(w, On(read, "master"))
         \/ bytes \in Contents \ (Large \cup Corrupt)
            /\ Turn(w, On([read EXCEPT !.todo = WarmSet], "warm"))
  /\ UNCHANGED <<registryVars, bucketVars, queueVars, described, recorded>>

PutMaster(w) ==
  /\ Doing(w, "master")
  /\ PutDerived(RenditionKey(w, "master"), work[w].source)
  /\ Turn(w, On([work[w] EXCEPT !.todo = WarmSet], "warm"))
  /\ UNCHANGED <<registryVars, queueVars, described, recorded>>

RenderUnwritten(w, v) ==    \* wrong: the put is not awaited, its failure goes unseen
  /\ Doing(w, "warm")
  /\ v \in work[w].todo
  /\ \/ PutIfAbsent(RenditionKey(w, v), work[w].source)
     \/ UNCHANGED bucketVars
  /\ Turn(w, On([work[w] EXCEPT !.todo = @ \ {v}, !.variant = v], "record"))
  /\ UNCHANGED <<registryVars, queueVars, described, recorded>>

\* One turn of the warm-set loop: skip what exists, else render and put.
Render(w, v) ==
  /\ Doing(w, "warm")
  /\ v \in work[w].todo
  /\ LET rest == [work[w] EXCEPT !.todo = @ \ {v}]
     IN  IF derived[RenditionKey(w, v)] # None
           THEN Turn(w, rest) /\ UNCHANGED bucketVars
           ELSE /\ PutIfAbsent(RenditionKey(w, v), work[w].source)
                /\ Turn(w, On([rest EXCEPT !.variant = v], "record"))
  /\ UNCHANGED <<registryVars, queueVars, described, recorded>>

\* recordDerivative is best effort: without its version row it fails too.
Record(w) ==
  /\ Doing(w, "record")
  /\ \/ versions[work[w].job] # None
        /\ recorded' = recorded \cup {RenditionKey(w, work[w].variant)}
     \/ UNCHANGED recorded
  /\ Proceed(w, "warm")
  /\ UNCHANGED <<registryVars, bucketVars, queueVars, described>>

---------------------------------------------------------------------------
(* completeOptimize: a guard and two writes, each a statement of its own.  *)

\* The version guard; an asset that moved past the version answers 409.
completeOptimize(w) == Row(w).current = VersionOf(w)

CompleteEarly(w) ==         \* wrong: reported as soon as the metadata is known
  /\ Doing(w, "warm")
  /\ Proceed(w, IF completeOptimize(w) THEN "describe" ELSE "idle")
  /\ UNCHANGED <<registryVars, bucketVars, queueVars, described, recorded>>

\* Called once the warm set is done.  A 409, like every error of the control
\* plane, is retriable.
Complete(w) ==
  /\ Doing(w, "warm")
  /\ work[w].todo = {}
  /\ Proceed(w, IF completeOptimize(w) THEN "describe" ELSE "idle")
  /\ UNCHANGED <<registryVars, bucketVars, queueVars, described, recorded>>

Describe(w) ==
  /\ Doing(w, "describe")
  /\ IF versions[work[w].job] = None
       THEN Proceed(w, "idle") /\ UNCHANGED described
       ELSE /\ described' = [described EXCEPT ![work[w].job] = work[w].source]
            /\ Proceed(w, "readyRead")
  /\ UNCHANGED <<registryVars, bucketVars, queueVars, recorded>>

\* transitionStatus: the row is read, checked against the table, then updated.
ReadyRead(w) ==
  /\ Doing(w, "readyRead")
  /\ Proceed(w, IF canTransition(Row(w).status, "ready") THEN "readyWrite" ELSE "idle")
  /\ UNCHANGED <<registryVars, bucketVars, queueVars, described, recorded>>

SetStatusReviving(w, status) ==     \* wrong: the update clears deletedAt
  /\ assets' = [assets EXCEPT ![work[w].job[1]] =
                   [status |-> status, current |-> @.current, gone |-> FALSE]]
  /\ UNCHANGED <<versions, clock>>

SetStatus(w, status) ==
  /\ assets' = [assets EXCEPT ![work[w].job[1]].status = status]
  /\ UNCHANGED <<versions, clock>>

ReadyWrite(w) ==
  /\ Doing(w, "readyWrite")
  /\ SetStatus(w, "ready")
  /\ Proceed(w, "acknowledge")
  /\ UNCHANGED <<bucketVars, queueVars, described, recorded>>

(* markFailed, whose errors are swallowed; it does not name the version. *)

FailRead(w) ==
  /\ Doing(w, "failRead")
  /\ Proceed(w, IF canTransition(Row(w).status, "failed") THEN "failWrite" ELSE "acknowledge")
  /\ UNCHANGED <<registryVars, bucketVars, queueVars, described, recorded>>

FailWrite(w) ==
  /\ Doing(w, "failWrite")
  /\ SetStatus(w, "failed")
  /\ Proceed(w, "acknowledge")
  /\ UNCHANGED <<bucketVars, queueVars, described, recorded>>

Swallow(w) ==
  /\ work[w].pc \in {"failRead", "failWrite"}
  /\ Proceed(w, "acknowledge")
  /\ UNCHANGED <<registryVars, bucketVars, queueVars, described, recorded>>

Acknowledge(w) ==
  /\ Doing(w, "acknowledge")
  /\ acknowledge(work[w].job)
  /\ Proceed(w, "idle")
  /\ UNCHANGED <<registryVars, bucketVars, described, recorded>>

\* A retriable error, a time-out or the death of the worker: the message stays.
Abandon(w) ==
  /\ ~Doing(w, "idle")
  /\ Proceed(w, "idle")
  /\ UNCHANGED <<registryVars, bucketVars, queueVars, described, recorded>>

\* The visibility timeout outlasts a worker, so none still holds the message.
DeadLetter(m) ==
  /\ \A w \in Workers : work[w].job # m
  /\ deadLetter(m)
  /\ UNCHANGED <<registryVars, bucketVars, workerVars>>

Step(w) ==
  \/ \E m \in jobs : Receive(w, m)
  \/ Context(w) \/ Get(w) \/ PutMaster(w)
  \/ \E v \in WarmSet : Render(w, v)
  \/ Record(w)
  \/ Complete(w) \/ Describe(w) \/ ReadyRead(w) \/ ReadyWrite(w)
  \/ FailRead(w) \/ FailWrite(w) \/ Swallow(w)
  \/ Acknowledge(w) \/ Abandon(w)

WorkerNext == (\E w \in Workers : Step(w)) \/ (\E m \in jobs : DeadLetter(m))
=============================================================================
