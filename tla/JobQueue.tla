------------------------------ MODULE JobQueue ------------------------------
(***************************************************************************)
(* The optimize queue: SQS, at least once, unordered.  A message is the    *)
(* version it names; two messages for one version are one member that was  *)
(* sent again, which only restarts its receive count.                      *)
(***************************************************************************)
EXTENDS Registry

CONSTANT MaxReceives    \* maxReceiveCount of the redrive policy

ASSUME JobQueueAssumption == MaxReceives \in Nat \ {0}

VARIABLES
  jobs,         \* messages not yet acknowledged: <<asset id, version>>
  receives      \* message -> times received since it was last sent

queueVars == <<jobs, receives>>

QueueTypeOK ==
  /\ jobs \subseteq AssetIds \X Versions
  /\ receives \in [AssetIds \X Versions -> 0..MaxReceives]

QueueInit ==
  /\ jobs = {}
  /\ receives = [m \in AssetIds \X Versions |-> 0]

enqueue(a, n) ==
  /\ jobs' = jobs \cup {<<a, n>>}
  /\ receives' = [receives EXCEPT ![<<a, n>>] = 0]

receiveForever(m) ==    \* wrong: no redrive policy
  /\ m \in jobs
  /\ receives' = [receives EXCEPT ![m] = @ + 1]
  /\ UNCHANGED jobs

\* Any message may be handed out, also one that is being processed.
receive(m) ==
  /\ m \in jobs
  /\ receives[m] < MaxReceives
  /\ receives' = [receives EXCEPT ![m] = @ + 1]
  /\ UNCHANGED jobs

\* The acknowledgement is lost, or another copy of the message remains.
acknowledge(m) == jobs' \in {jobs \ {m}, jobs} /\ UNCHANGED receives

deadLetterLate(m) ==    \* wrong: off by one, the last receive is waited for in vain
  /\ m \in jobs
  /\ receives[m] > MaxReceives
  /\ jobs' = jobs \ {m}
  /\ UNCHANGED receives

\* A message received too often moves to the dead-letter queue, which nothing reads.
deadLetter(m) ==
  /\ m \in jobs
  /\ receives[m] = MaxReceives
  /\ jobs' = jobs \ {m}
  /\ UNCHANGED receives
=============================================================================
