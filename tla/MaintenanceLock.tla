--------------------------- MODULE MaintenanceLock ---------------------------
(***************************************************************************)
(* The lock file that keeps scheduled reclamation runs apart: created with *)
(* an exclusive open, filled with its time by a second call, read and      *)
(* broken by whoever finds it too old, removed at the end of a run.  Every *)
(* system call is a step; a process can be killed between any two.         *)
(***************************************************************************)
EXTENDS Integers, FiniteSets

CONSTANTS
  Runs,          \* processes the scheduler may have alive at once
  StaleAfter,    \* age beyond which a lock is broken
  MaxKills,      \* processes killed at most
  NoFile

ASSUME StaleAfterIsNat == StaleAfter \in Nat
ASSUME MaxKillsIsNat == MaxKills \in Nat
\* No lock is taken for the absence of one.
ASSUME NoFileIsNoLock == \A p \in Runs, e \in BOOLEAN, a \in 0..(StaleAfter + 1) : [by |-> p, empty |-> e, age |-> a] # NoFile

VARIABLES
  file,       \* NoFile or [by, empty, age]: the age of the time it holds, or its own
  run,        \* each process: the call it makes next, the age of its lock
  kills,      \* processes killed
  slips,      \* a lock was removed that was neither the remover's nor stale
  scheduled   \* the scheduler is on

lockVars == <<file, run, kills, slips, scheduled>>

Calls == {"idle", "open", "write", "read", "unlink", "retry", "running", "release"}

LockInit ==
  /\ file = NoFile
  /\ run = [p \in Runs |-> [at |-> "idle", age |-> 0]]
  /\ kills = 0
  /\ slips = FALSE

Goto(p, call) == run' = [run EXCEPT ![p] = [at |-> call, age |-> run[p].age]]
Lock(p) == [by |-> p, empty |-> TRUE, age |-> 0]

Launch(p) ==
  /\ scheduled /\ run[p].at = "idle"
  /\ run' = [run EXCEPT ![p] = [at |-> "open", age |-> 0]]
  /\ UNCHANGED <<file, kills, slips, scheduled>>

\* Without the exclusive flag, an existing file would be taken over.
OpenShared(p) ==
  /\ run[p].at = "open"
  /\ file' = Lock(p)
  /\ run' = [run EXCEPT ![p] = [at |-> "write", age |-> 0]]
  /\ UNCHANGED <<kills, slips, scheduled>>

Open(p) ==
  /\ run[p].at = "open"
  /\ IF file = NoFile
     THEN /\ file' = Lock(p)
          /\ run' = [run EXCEPT ![p] = [at |-> "write", age |-> 0]]
     ELSE file' = file /\ Goto(p, "read")
  /\ UNCHANGED <<kills, slips, scheduled>>

\* The time goes to the file this process opened, which may have been unlinked since.
Write(p) ==
  /\ run[p].at = "write"
  /\ file' = IF file # NoFile /\ file.by = p THEN [by |-> p, empty |-> FALSE, age |-> 0] ELSE file
  /\ Goto(p, "running")
  /\ UNCHANGED <<kills, slips, scheduled>>

isStaleNever(lock) == lock.empty

\* An empty file reads as time zero, which is long ago.
isStale(lock) == lock.empty \/ lock.age > StaleAfter

Read(p) ==
  /\ run[p].at = "read"
  /\ Goto(p, CASE file = NoFile -> "retry"
               [] file # NoFile -> IF isStale(file) THEN "unlink" ELSE "idle")
  /\ UNCHANGED <<file, kills, slips, scheduled>>

Outlived(lock) == lock.age > StaleAfter

\* What is unlinked is whatever bears the name by now.
Unlink(p) ==
  /\ run[p].at = "unlink"
  /\ file' = NoFile
  /\ slips' = (slips \/ (file # NoFile /\ ~Outlived(file)))
  /\ Goto(p, IF file = NoFile THEN "retry" ELSE "open")
  /\ UNCHANGED <<kills, scheduled>>

Retry(p) ==
  /\ run[p].at = "retry"
  /\ IF file = NoFile
     THEN /\ file' = Lock(p)
          /\ run' = [run EXCEPT ![p] = [at |-> "write", age |-> 0]]
     ELSE file' = file /\ Goto(p, "idle")
  /\ UNCHANGED <<kills, slips, scheduled>>

\* The run reports or throws; either way the lock is released next.
Finish(p) ==
  /\ run[p].at = "running"
  /\ Goto(p, "release")
  /\ UNCHANGED <<file, kills, slips, scheduled>>

\* No look at whose lock it is.
Release(p) ==
  /\ run[p].at = "release"
  /\ file' = NoFile
  /\ slips' = (slips \/ (file # NoFile /\ file.by # p /\ ~Outlived(file)))
  /\ Goto(p, "idle")
  /\ UNCHANGED <<kills, scheduled>>

Kill(p) ==
  /\ run[p].at # "idle" /\ kills < MaxKills
  /\ kills' = kills + 1
  /\ Goto(p, "idle")
  /\ UNCHANGED <<file, slips, scheduled>>

Step(p) ==
  Open(p) \/ Write(p) \/ Read(p) \/ Unlink(p) \/ Retry(p) \/ Finish(p) \/ Release(p)

Aged(age) == IF age > StaleAfter THEN age ELSE age + 1

\* Time passes for the lock and for those who hold it.
LockTick ==
  /\ file' = IF file = NoFile THEN file ELSE [by |-> file.by, empty |-> file.empty, age |-> Aged(file.age)]
  /\ run' = [p \in Runs |-> [at |-> run[p].at,
                             age |-> IF run[p].at \in {"write", "running"} THEN Aged(run[p].age) ELSE run[p].age]]
  /\ UNCHANGED <<kills, slips, scheduled>>

LockNext == \E p \in Runs : Launch(p) \/ Step(p) \/ Kill(p)

---------------------------------------------------------------------------
\* Properties

Running(p) == run[p].at = "running"

LockTypeOK ==
  /\ file = NoFile \/ (file.by \in Runs /\ file.empty \in BOOLEAN /\ file.age \in 0..(StaleAfter + 1))
  /\ \A p \in Runs : run[p].at \in Calls /\ run[p].age \in 0..(StaleAfter + 1)
  /\ kills \in 0..MaxKills

\* Two runs overlap only if one of them has outlived the staleness limit, or a lock was
\* taken from a holder it did not belong to: by a reader of the still empty file, by a
\* second breaker of the same stale lock, or by a run releasing after its lock was
\* broken (cli.ts acquireLock: "two containers ... cannot both win").
OneRunAtATime ==
  \A p, q \in Runs :
    p # q /\ Running(p) /\ Running(q) => slips \/ run[p].age > StaleAfter \/ run[q].age > StaleAfter

\* Killed runs never stop reclamation: as long as runs are scheduled, one runs again
\* (cli.ts: "does not block reclamation for a day").
ReclamationResumes == scheduled => []<>(\E p \in Runs : Running(p))
=============================================================================
