----------------------------- MODULE HostProofs -----------------------------
(***************************************************************************)
(* The host, for every number of containers and of sources: when runs of   *)
(* reclamation can overlap, and what the rate limiter lets through.        *)
(*                                                                         *)
(* The limiter's proof has three layers: what a request and the clock do   *)
(* to the table, what they do to the sums of what was let through, and the *)
(* budget that relates the two for every source.                           *)
(***************************************************************************)
EXTENDS TenancyProofs, SequenceTheorems

---------------------------------------------------------------------------
(* The lock.  What keeps runs apart is that a holder whose lock is not yet  *)
(* stale finds its own lock in the file, no older than itself; a removal    *)
(* that breaks this is a slip.                                              *)

Holding(p) == run[p].at \in {"write", "running"} /\ run[p].age <= StaleAfter

Owns(p) == file # NoFile /\ file.by = p /\ file.age <= run[p].age

LockRecords == [by : Runs, empty : BOOLEAN, age : 0..(StaleAfter + 1)]
RunRecords == [at : Calls, age : 0..(StaleAfter + 1)]

LockInv ==
  /\ file \in LockRecords \cup {NoFile}
  /\ run \in [Runs -> RunRecords]
  /\ kills \in 0..MaxKills
  /\ slips \in BOOLEAN
  /\ ~slips => \A p \in Runs : Holding(p) => Owns(p)

\* At the start nobody holds the lock.
LEMMA LockInvInit == LockInit => LockInv
  <1> SUFFICES ASSUME LockInit PROVE LockInv
    OBVIOUS
  <1>1. \A p \in Runs : run[p].at = "idle"
    BY DEF LockInit
  <1>2. QED
    <2>1. 0 \in 0..(StaleAfter + 1) /\ 0 \in 0..MaxKills
      BY StaleAfterIsNat, MaxKillsIsNat
    <2>2. run \in [Runs -> RunRecords]
      BY <2>1 DEF LockInit, RunRecords, Calls
    <2>3. \A p \in Runs : ~Holding(p)
      BY <1>1 DEF Holding
    <2> QED
      BY <2>1, <2>2, <2>3 DEF LockInit, LockInv

\* A process that moves on alone stays well typed.
LEMMA RunStaysTyped ==
  ASSUME NEW p \in Runs, NEW label \in Calls, NEW age \in 0..(StaleAfter + 1), run \in [Runs -> RunRecords],
         run' = [run EXCEPT ![p] = [at |-> label, age |-> age]]
  PROVE  /\ run' \in [Runs -> RunRecords]
         /\ run'[p].at = label /\ run'[p].age = age
         /\ \A q \in Runs : q # p => run'[q] = run[q]
  BY DEF RunRecords

\* Every call of a process keeps the lock's invariant.
LEMMA LockInvStep ==
  ASSUME LockInv, NEW p \in Runs, Launch(p) \/ Step(p) \/ Kill(p)
  PROVE  LockInv'
PROOF
  <1> USE StaleAfterIsNat, MaxKillsIsNat
  <1>a. run[p].age \in 0..(StaleAfter + 1) /\ run[p].at \in Calls
    BY DEF LockInv, RunRecords
  <1>b. Lock(p) \in LockRecords /\ Lock(p) # NoFile /\ Lock(p).by = p /\ Lock(p).age = 0
    <2>1. 0 \in 0..(StaleAfter + 1) /\ TRUE \in BOOLEAN
      OBVIOUS
    <2>2. [by |-> p, empty |-> TRUE, age |-> 0] # NoFile
      BY <2>1, NoFileIsNoLock
    <2> QED
      BY <2>1, <2>2 DEF Lock, LockRecords
  \* A step that leaves file and slips alone, and by which nobody comes to hold.
  <1>c. ASSUME UNCHANGED <<file, slips>>, kills' \in 0..MaxKills,
               NEW label \in Calls, NEW age \in 0..(StaleAfter + 1),
               run' = [run EXCEPT ![p] = [at |-> label, age |-> age]],
               label \notin {"write", "running"}
        PROVE  LockInv'
    <2>1. /\ run' \in [Runs -> RunRecords] /\ run'[p].at = label
          /\ \A q \in Runs : q # p => run'[q] = run[q]
      BY <1>c, RunStaysTyped DEF LockInv
    <2>2. ASSUME ~slips', NEW q \in Runs, Holding(q)' PROVE Owns(q)'
      <3>1. q # p
        BY <1>c, <2>1, <2>2 DEF Holding
      <3> QED
        BY <1>c, <2>1, <2>2, <3>1 DEF LockInv, Holding, Owns
    <2> QED
      BY <1>c, <2>1, <2>2 DEF LockInv
  \* The lock is created where there was none.
  <1>d. ASSUME file = NoFile, file' = Lock(p), UNCHANGED <<kills, slips>>,
               run' = [run EXCEPT ![p] = [at |-> "write", age |-> 0]]
        PROVE  LockInv'
    <2>0. 0 \in 0..(StaleAfter + 1) /\ "write" \in Calls
      BY DEF Calls
    <2>1. /\ run' \in [Runs -> RunRecords] /\ run'[p].age = 0
          /\ \A q \in Runs : q # p => run'[q] = run[q]
      BY <1>d, <2>0, RunStaysTyped DEF LockInv
    <2>2. ASSUME ~slips', NEW q \in Runs, Holding(q)' PROVE Owns(q)'
      <3>1. q = p
        BY <1>d, <2>1, <2>2 DEF LockInv, Holding, Owns
      <3> QED
        BY <1>b, <1>d, <2>1, <3>1 DEF Owns
    <2> QED
      BY <1>b, <1>d, <2>1, <2>2 DEF LockInv
  \* The file is removed: a slip, or nobody holding owned it.
  <1>e. ASSUME file' = NoFile, slips' \in BOOLEAN, ~slips' => ~slips, UNCHANGED kills,
               NEW label \in Calls, label \notin {"write", "running"},
               run' = [run EXCEPT ![p] = [at |-> label, age |-> run[p].age]],
               ~slips' /\ file # NoFile => Outlived(file) \/ (file.by = p /\ run[p].at = "release")
        PROVE  LockInv'
    <2>1. /\ run' \in [Runs -> RunRecords] /\ run'[p].at = label
          /\ \A q \in Runs : q # p => run'[q] = run[q]
      BY <1>a, <1>e, RunStaysTyped DEF LockInv
    <2>2. ASSUME ~slips', NEW q \in Runs, Holding(q)' PROVE FALSE
      <3>1. q # p
        BY <1>e, <2>1, <2>2 DEF Holding
      <3>2. Holding(q) /\ Owns(q)
        BY <1>e, <2>1, <2>2, <3>1 DEF LockInv, Holding
      <3>3. file \in LockRecords /\ run[q].age \in 0..(StaleAfter + 1)
        BY <3>2 DEF Owns, LockInv, RunRecords
      <3>4. ~Outlived(file)
        BY <3>2, <3>3 DEF Owns, Holding, Outlived, LockRecords
      <3> QED
        BY <1>e, <2>2, <3>1, <3>2, <3>4 DEF Owns
    <2> QED
      BY <1>e, <2>1, <2>2 DEF LockInv
  <1>1. CASE Launch(p)
    <2>1. "open" \in Calls /\ 0 \in 0..(StaleAfter + 1)
      BY DEF Calls
    <2> QED
      BY <1>1, <1>c, <2>1 DEF Launch, LockInv
  <1>2. CASE Open(p)
    <2>1. CASE file = NoFile
      BY <1>2, <1>d, <2>1 DEF Open
    <2>2. CASE file # NoFile
      BY <1>2, <1>a, <1>c, <2>2 DEF Open, Goto, LockInv, Calls
    <2> QED
      BY <2>1, <2>2
  <1>3. CASE Write(p)
    <2>1. /\ run' \in [Runs -> RunRecords] /\ run'[p].at = "running" /\ run'[p].age = run[p].age
          /\ \A q \in Runs : q # p => run'[q] = run[q]
      BY <1>3, <1>a, RunStaysTyped DEF Write, Goto, LockInv, Calls
    <2>2. [by |-> p, empty |-> FALSE, age |-> 0] \in LockRecords /\ [by |-> p, empty |-> FALSE, age |-> 0] # NoFile
      <3>1. 0 \in 0..(StaleAfter + 1) /\ FALSE \in BOOLEAN
        OBVIOUS
      <3>2. [by |-> p, empty |-> FALSE, age |-> 0] # NoFile
        BY <3>1, NoFileIsNoLock
      <3> QED
        BY <3>1, <3>2 DEF LockRecords
    <2>3. ASSUME ~slips', NEW q \in Runs, Holding(q)' PROVE Owns(q)'
      <3>1. Holding(q)
        BY <1>3, <2>1, <2>3 DEF Holding, Write
      <3>2. Owns(q)
        BY <1>3, <2>3, <3>1 DEF LockInv, Write
      <3>3. CASE q = p
        BY <1>3, <1>a, <2>1, <2>2, <3>2, <3>3 DEF Owns, Write
      <3>4. CASE q # p
        BY <1>3, <2>1, <3>2, <3>4 DEF Owns, Write
      <3> QED
        BY <3>3, <3>4
    <2> QED
      BY <1>3, <2>1, <2>2, <2>3 DEF LockInv, Write
  <1>4. CASE Read(p)
    <2>1. \E label \in {"retry", "unlink", "idle"} : run' = [run EXCEPT ![p] = [at |-> label, age |-> run[p].age]]
      BY <1>4 DEF Read, Goto
    <2> QED
      BY <1>4, <1>a, <1>c, <2>1 DEF Read, LockInv, Calls
  <1>5. CASE Unlink(p)
    <2>1. \E label \in {"retry", "open"} : run' = [run EXCEPT ![p] = [at |-> label, age |-> run[p].age]]
      BY <1>5 DEF Unlink, Goto
    <2>2. slips' \in BOOLEAN /\ (~slips' => ~slips) /\ (~slips' /\ file # NoFile => Outlived(file))
      BY <1>5 DEF Unlink, LockInv
    <2> QED
      BY <1>5, <1>e, <2>1, <2>2 DEF Unlink, Calls
  <1>6. CASE Retry(p)
    <2>1. CASE file = NoFile
      BY <1>6, <1>d, <2>1 DEF Retry
    <2>2. CASE file # NoFile
      BY <1>6, <1>a, <1>c, <2>2 DEF Retry, Goto, LockInv, Calls
    <2> QED
      BY <2>1, <2>2
  <1>7. CASE Finish(p)
    BY <1>7, <1>a, <1>c DEF Finish, Goto, LockInv, Calls
  <1>8. CASE Release(p)
    <2>1. slips' \in BOOLEAN /\ (~slips' => ~slips)
          /\ (~slips' /\ file # NoFile => Outlived(file) \/ (file.by = p /\ run[p].at = "release"))
      BY <1>8 DEF Release, LockInv
    <2>2. run' = [run EXCEPT ![p] = [at |-> "idle", age |-> run[p].age]]
      BY <1>8 DEF Release, Goto
    <2> QED
      BY <1>8, <1>e, <2>1, <2>2 DEF Release, Calls
  <1>9. CASE Kill(p)
    <2>1. kills' \in 0..MaxKills
      BY <1>9 DEF Kill, LockInv
    <2> QED
      BY <1>9, <1>a, <1>c, <2>1 DEF Kill, Goto, LockInv, Calls
  <1> QED
    BY <1>1, <1>2, <1>3, <1>4, <1>5, <1>6, <1>7, <1>8, <1>9 DEF Step

\* A lock ages no faster than its holder.
LEMMA LockInvTick ==
  ASSUME LockInv, LockTick
  PROVE  LockInv'
PROOF
  <1> USE StaleAfterIsNat
  <1>1. \A age \in 0..(StaleAfter + 1) :
          /\ Aged(age) \in 0..(StaleAfter + 1)
          /\ Aged(age) <= StaleAfter => age <= StaleAfter /\ Aged(age) = age + 1
          /\ age <= StaleAfter => Aged(age) = age + 1
    BY DEF Aged
  <1>2. \A p \in Runs : run[p].at \in Calls /\ run[p].age \in 0..(StaleAfter + 1)
    BY DEF LockInv, RunRecords
  <1>3. run' \in [Runs -> RunRecords]
    BY <1>1, <1>2 DEF LockTick, RunRecords
  <1>4. file' \in LockRecords \cup {NoFile}
    BY <1>1 DEF LockTick, LockInv, LockRecords
  <1>5. ASSUME ~slips', NEW p \in Runs, Holding(p)' PROVE Owns(p)'
    <2>1. run'[p].at = run[p].at /\ run'[p].age = Aged(run[p].age)
      BY <1>5 DEF LockTick, Holding
    <2>2. run[p].age <= StaleAfter /\ run'[p].age = run[p].age + 1
      BY <1>1, <1>2, <1>5, <2>1 DEF Holding
    <2>3. Owns(p)
      BY <1>5, <2>1, <2>2 DEF LockInv, LockTick, Holding
    <2>4. file \in LockRecords
      BY <2>3 DEF LockInv, Owns
    <2>5. file.age \in 0..(StaleAfter + 1) /\ file.empty \in BOOLEAN /\ file.by = p
      BY <2>3, <2>4 DEF LockRecords, Owns
    <2>6. Aged(file.age) \in 0..(StaleAfter + 1) /\ Aged(file.age) <= run'[p].age
      BY <1>1, <1>2, <2>2, <2>3, <2>5 DEF Owns
    <2>7. file' = [by |-> p, empty |-> file.empty, age |-> Aged(file.age)]
      BY <2>3, <2>5 DEF LockTick, Owns
    <2> QED
      BY <2>5, <2>6, <2>7, NoFileIsNoLock DEF Owns
  <1> QED
    BY <1>3, <1>4, <1>5 DEF LockInv, LockTick

\* What the lock promises follows: two holders would own the same file.
LEMMA HoldersAreApart == LockInv => OneRunAtATime
  <1> SUFFICES ASSUME LockInv, NEW p \in Runs, NEW q \in Runs, p # q, Running(p), Running(q),
                      ~slips, run[p].age <= StaleAfter, run[q].age <= StaleAfter
               PROVE  FALSE
    BY StaleAfterIsNat DEF OneRunAtATime, LockInv, RunRecords
  <1>1. Owns(p) /\ Owns(q)
    BY DEF LockInv, Holding, Running
  <1> QED
    BY <1>1 DEF Owns

LEMMA LockInvNext == LockInv /\ [Next]_vars => LockInv'
PROOF
  <1> SUFFICES ASSUME LockInv, [Next]_vars PROVE LockInv'
    OBVIOUS
  <1>1. CASE LockNext
    BY <1>1, LockInvStep DEF LockNext
  <1>2. CASE Tick
    BY <1>2, LockInvTick DEF Tick
  <1>3. CASE UNCHANGED lockVars
    BY <1>3 DEF LockInv, lockVars, Holding, Owns
  <1> QED
    BY <1>1, <1>2, <1>3 DEF Next, vars

\* For every number of containers, killed at any call: two reclamation runs overlap only
\* after one has outlived the staleness limit or a lock was taken from a holder it did
\* not belong to (cli.ts acquireLock).
THEOREM OneRunAtATimeCorrect == Spec => []OneRunAtATime
PROOF
  <1>1. Init => LockInv
    BY LockInvInit DEF Init
  <1> QED
    BY <1>1, LockInvNext, HoldersAreApart, PTL DEF Spec

---------------------------------------------------------------------------
(* The rate limiter's table.  A request leaves it within its cap, with one  *)
(* counter for its own source and, of the others, some of those there were. *)

Counts == [source : Sources, overall : Nat, mutating : Nat, age : 0..Window]

OnePerSource(table) == \A i, j \in DOMAIN table : table[i].source = table[j].source => i = j

TableOK(table) == table \in Seq(Counts) /\ OnePerSource(table) /\ Len(table) <= MaxTracked

Stays(table, drop) == DOMAIN table \ drop

\* What is kept stays in order, the last at the end.
KeptInOrder(table, kept, stays) ==
  /\ kept \in Seq(Counts) /\ Len(kept) = Cardinality(stays) /\ Len(kept) \in Nat
  /\ \A n \in DOMAIN kept : \E i \in stays : kept[n] = table[i] /\ Place(stays, i) = n
  /\ \A i \in stays : Place(stays, i) \in DOMAIN kept /\ kept[Place(stays, i)] = table[i]
  /\ Len(table) \in stays => Len(kept) \in DOMAIN kept /\ kept[Len(kept)] = table[Len(table)]

LEMMA KeptShape ==
  ASSUME NEW table \in Seq(Counts), NEW drop
  PROVE  KeptInOrder(table, Kept(table, drop), Stays(table, drop))
PROOF
  <1> DEFINE stays == Stays(table, drop)
             kept == Kept(table, drop)
             size == Cardinality(stays)
             from(n) == CHOOSE i \in stays : Place(stays, i) = n
  <1> USE DEF Stays
  <1>1. IsFiniteSet(stays) /\ stays \subseteq DOMAIN table /\ stays \subseteq Int
    <2>1. DOMAIN table = 1..Len(table) /\ IsFiniteSet(1..Len(table))
      BY FS_Interval
    <2> QED
      BY <2>1, FS_Subset
  <1>2. size \in Nat
    BY <1>1, FS_CardinalityType
  <1>3. kept = [n \in 1..size |-> table[from(n)]]
    BY DEF Kept, Place
  <1> HIDE DEF stays, kept
  <1>4. \A n \in 1..size : from(n) \in stays /\ Place(stays, from(n)) = n
    BY <1>1, PlaceTaken
  <1> HIDE DEF from, size
  <1>5. kept \in Seq(Counts) /\ Len(kept) = size /\ DOMAIN kept = 1..size
    <2>1. \A n \in 1..size : table[from(n)] \in Counts
      BY <1>1, <1>4
    <2> QED
      BY <1>2, <1>3, <2>1
  <1>6. ASSUME NEW i \in stays
        PROVE  Place(stays, i) \in DOMAIN kept /\ kept[Place(stays, i)] = table[i]
    <2> DEFINE n == Place(stays, i)
    <2>1. n \in 1..size
      BY <1>1, PlaceInRange DEF size
    <2>2. Place(stays, from(n)) = Place(stays, i) /\ from(n) \in stays
      BY <1>4, <2>1
    <2>3. from(n) = i
      <3> HIDE DEF n
      <3> QED
        BY <1>1, <2>2, PlaceUnique
    <2> HIDE DEF n
    <2>4. n \in DOMAIN kept /\ kept[n] = table[i]
      BY <1>3, <1>5, <2>1, <2>3
    <2> QED
      BY <2>4 DEF n
  <1>7. ASSUME Len(table) \in stays
        PROVE  Len(kept) \in DOMAIN kept /\ kept[Len(kept)] = table[Len(table)]
    <2>1. \A j \in stays : j <= Len(table)
      BY <1>1
    <2>2. Place(stays, Len(table)) = size
      BY <1>7, <2>1, GreatestHasLastPlace DEF size
    <2> QED
      BY <1>5, <1>6, <1>7, <2>2
  <1>8. \A n \in DOMAIN kept : \E i \in stays : kept[n] = table[i] /\ Place(stays, i) = n
    BY <1>3, <1>4, <1>5
  <1>9. KeptInOrder(table, kept, stays)
    BY <1>2, <1>5, <1>6, <1>7, <1>8 DEF KeptInOrder, size
  <1> QED
    BY <1>9 DEF kept, stays

LEMMA KeptOnePerSource ==
  ASSUME NEW table \in Seq(Counts), NEW drop, OnePerSource(table)
  PROVE  OnePerSource(Kept(table, drop))
PROOF
  <1> DEFINE stays == Stays(table, drop)
             kept == Kept(table, drop)
  <1>1. KeptInOrder(table, kept, stays)
    BY KeptShape
  <1> HIDE DEF kept, stays
  <1>2. stays \subseteq DOMAIN table
    BY DEF stays, Stays
  <1>3. OnePerSource(kept)
    <2> SUFFICES ASSUME NEW m \in DOMAIN kept, NEW n \in DOMAIN kept, kept[m].source = kept[n].source PROVE m = n
      BY DEF OnePerSource
    <2>1. PICK i \in stays : kept[m] = table[i] /\ Place(stays, i) = m
      BY <1>1 DEF KeptInOrder
    <2>2. PICK j \in stays : kept[n] = table[j] /\ Place(stays, j) = n
      BY <1>1 DEF KeptInOrder
    <2>3. i = j
      BY <1>2, <2>1, <2>2 DEF OnePerSource
    <2> QED
      BY <2>1, <2>2, <2>3
  <1> QED
    BY <1>3 DEF kept

\* One source too many, the newcomer at the end: another one goes.
LEMMA EvictShape ==
  ASSUME NEW table \in Seq(Counts), OnePerSource(table), Len(table) = MaxTracked + 1,
         table[Len(table)].age = 0, NEW after, after = evict(table)
  PROVE  /\ TableOK(after)
         /\ \A n \in DOMAIN after : \E i \in DOMAIN table : after[n] = table[i]
         /\ \E n \in DOMAIN after : after[n] = table[Len(table)]
PROOF
  <1> DEFINE live == evictExpired(table)
             old == {i \in DOMAIN table : Expired(table[i])}
             before(i, j) == live[i].age > live[j].age \/ (live[i].age = live[j].age /\ i < j)
             excess == Len(live) - MaxTracked
             oldest == {j \in DOMAIN live : Cardinality({i \in DOMAIN live : before(i, j)}) < excess}
             unexpired == Stays(table, old)
             stays == Stays(live, oldest)
  <1>0. MaxTracked \in Nat \ {0} /\ Window \in Nat \ {0}
    BY TracksSomeone, LimitsAreNat
  <1>1. Len(table) \in DOMAIN table /\ Len(table) \notin old
    BY <1>0 DEF Expired
  <1>2. live = Kept(table, old)
    BY DEF evictExpired
  <1> HIDE DEF old
  <1>3. /\ live \in Seq(Counts) /\ Len(live) = Cardinality(unexpired) /\ Len(live) \in Nat
        /\ \A n \in DOMAIN live : \E i \in unexpired : live[n] = table[i] /\ Place(unexpired, i) = n
        /\ Len(live) \in DOMAIN live /\ live[Len(live)] = table[Len(table)]
    <2>1. Len(table) \in unexpired
      BY <1>1 DEF Stays
    <2>2. KeptInOrder(table, live, unexpired)
      BY <1>2, KeptShape
    <2> HIDE DEF live, unexpired
    <2> QED
      BY <2>1, <2>2 DEF KeptInOrder
  <1>4. OnePerSource(live)
    BY <1>2, KeptOnePerSource
  <1>5. Len(live) <= MaxTracked + 1
    <2>1. DOMAIN table = 1..Len(table) /\ IsFiniteSet(1..Len(table)) /\ Cardinality(1..Len(table)) = Len(table)
      BY <1>0, FS_Interval
    <2>2. unexpired \subseteq 1..Len(table)
      BY <2>1 DEF Stays
    <2> HIDE DEF unexpired, live
    <2> DEFINE whole == 1..Len(table)
    <2>3. Cardinality(unexpired) <= Cardinality(whole)
      <3>1. unexpired \subseteq whole /\ IsFiniteSet(whole)
        BY <2>1, <2>2
      <3> HIDE DEF whole
      <3> QED
        BY <3>1, FS_Subset
    <2> QED
      BY <1>3, <2>1, <2>3
  <1>6. after = Kept(live, oldest)
    BY DEF evict
  <1> HIDE DEF live
  <1>7. /\ DOMAIN live = 1..Len(live) /\ IsFiniteSet(DOMAIN live) /\ Cardinality(DOMAIN live) = Len(live)
        /\ \A i \in DOMAIN live : live[i].age \in Nat
    <2>1. DOMAIN live = 1..Len(live) /\ IsFiniteSet(1..Len(live)) /\ Cardinality(1..Len(live)) = Len(live)
      BY <1>3, FS_Interval
    <2>2. \A i \in DOMAIN live : live[i].age \in Nat
      <3>1. \A i \in DOMAIN live : live[i] \in Counts
        BY <1>3, <2>1
      <3> QED
        BY <1>0, <3>1 DEF Counts
    <2> QED
      BY <2>1, <2>2
  \* The newcomer has somebody before it.
  <1>8. Len(live) \notin oldest
    <2> SUFFICES ASSUME Len(live) \in oldest PROVE FALSE
      OBVIOUS
    <2> DEFINE earlier == {i \in DOMAIN live : before(i, Len(live))}
    <2>1. IsFiniteSet(earlier) /\ Cardinality(earlier) \in Nat
      <3>1. earlier \subseteq DOMAIN live
        OBVIOUS
      <3> HIDE DEF earlier
      <3> QED
        BY <1>7, <3>1, FS_Subset, FS_CardinalityType
    <2>2. Cardinality(earlier) < excess
      OBVIOUS
    <2>3. Cardinality(earlier) = 0 /\ Len(live) = MaxTracked + 1
      <3> HIDE DEF earlier
      <3> QED
        BY <1>0, <1>3, <1>5, <2>1, <2>2
    <2>4. earlier = {}
      <3> HIDE DEF earlier
      <3> QED
        BY <2>1, <2>3, FS_EmptySet
    <2>5. 1 \in DOMAIN live /\ 1 < Len(live)
      BY <1>0, <1>7, <2>3
    <2>6. before(1, Len(live))
      <3>1. live[1].age \in Nat /\ live[Len(live)].age = 0
        BY <1>3, <1>7, <2>5
      <3>2. live[1].age > live[Len(live)].age \/ live[1].age = live[Len(live)].age
        BY <3>1
      <3> QED
        BY <2>5, <3>2
    <2> QED
      BY <2>4, <2>5, <2>6
  \* If one must go, one does: the first of the oldest.
  <1>9. Len(live) = MaxTracked + 1 => oldest # {}
    <2> SUFFICES ASSUME Len(live) = MaxTracked + 1 PROVE \E j \in oldest : TRUE
      OBVIOUS
    <2> DEFINE ages == {live[i].age : i \in DOMAIN live}
    <2>1. IsFiniteSet(ages) /\ ages \subseteq Int /\ ages # {}
      <3>1. ages \subseteq 0..Window
        <4>1. \A i \in DOMAIN live : live[i] \in Counts
          BY <1>3
        <4> QED
          BY <4>1 DEF Counts
      <3>2. IsFiniteSet(ages)
        <4> HIDE DEF ages
        <4> DEFINE whole == 0..Window
        <4>1. IsFiniteSet(whole)
          BY <1>0, FS_Interval
        <4>2. ages \subseteq whole
          BY <3>1
        <4> HIDE DEF whole
        <4> QED
          BY <4>1, <4>2, FS_Subset
      <3>3. ages \subseteq Int /\ ages # {}
        BY <1>3, <1>7
      <3> QED
        BY <3>2, <3>3
    <2>2. PICK top \in ages : \A age \in ages : age <= top
      <3> HIDE DEF ages
      <3> QED
        BY <2>1, GreatestMember
    <2> DEFINE eldest == {i \in DOMAIN live : live[i].age = top}
    <2>3. eldest \subseteq Nat /\ eldest # {}
      BY <1>7, <2>2
    <2>4. PICK j \in eldest : \A i \in eldest : j <= i
      <3> HIDE DEF eldest
      <3> QED
        BY <2>3, LeastNatural
    <2>5. \A i \in DOMAIN live : ~before(i, j)
      <3> SUFFICES ASSUME NEW i \in DOMAIN live, before(i, j) PROVE FALSE
        OBVIOUS
      <3>1. live[j].age = top /\ live[i].age <= top /\ live[i].age \in Nat /\ top \in Nat /\ j \in DOMAIN live
        BY <1>7, <2>2, <2>4
      <3>2. live[i].age = top /\ i < j
        BY <3>1
      <3>3. i \in eldest
        BY <3>2
      <3>4. i \in Int /\ j \in Int /\ j <= i
        BY <1>7, <2>4, <3>1, <3>3
      <3> QED
        BY <3>2, <3>4
    <2>6. {i \in DOMAIN live : before(i, j)} = {}
      BY <2>5
    <2>7. Cardinality({i \in DOMAIN live : before(i, j)}) = 0
      BY <2>6, FS_EmptySet
    <2>8. excess = 1
      BY <1>0
    <2>9. j \in oldest
      BY <2>4, <2>7, <2>8
    <2> QED
      BY <2>9
  <1> HIDE DEF oldest
  <1>10. /\ after \in Seq(Counts) /\ Len(after) = Cardinality(stays) /\ Len(after) \in Nat
         /\ \A n \in DOMAIN after : \E i \in stays : after[n] = live[i] /\ Place(stays, i) = n
         /\ Len(after) \in DOMAIN after /\ after[Len(after)] = live[Len(live)]
    <2>1. Len(live) \in stays
      BY <1>3, <1>8 DEF Stays
    <2>2. KeptInOrder(live, after, stays)
      BY <1>3, <1>6, KeptShape
    <2> HIDE DEF stays
    <2> QED
      BY <2>1, <2>2 DEF KeptInOrder
  <1>11. OnePerSource(after)
    BY <1>3, <1>4, <1>6, KeptOnePerSource
  <1>12. Len(after) <= MaxTracked
    <2>1. CASE Len(live) <= MaxTracked
      <3>1. stays \subseteq DOMAIN live
        BY DEF Stays
      <3> HIDE DEF stays
      <3>2. Cardinality(stays) <= Len(live)
        BY <1>7, <3>1, FS_Subset
      <3> QED
        BY <1>0, <1>3, <1>10, <2>1, <3>2
    <2>2. CASE Len(live) = MaxTracked + 1
      <3>1. PICK j \in oldest : TRUE
        BY <1>9, <2>2
      <3>2. j \in DOMAIN live /\ stays \subseteq DOMAIN live \ {j}
        BY <3>1 DEF oldest, Stays
      <3> HIDE DEF stays
      <3>3. Cardinality(DOMAIN live \ {j}) = Len(live) - 1 /\ IsFiniteSet(DOMAIN live \ {j})
        BY <1>7, <3>2, FS_RemoveElement
      <3>4. Cardinality(stays) <= Cardinality(DOMAIN live \ {j})
        BY <3>2, <3>3, FS_Subset
      <3> QED
        BY <1>0, <1>10, <2>2, <3>3, <3>4
    <2> QED
      BY <1>0, <1>3, <1>5, <2>1, <2>2
  <1>13. \A n \in DOMAIN after : \E i \in DOMAIN table : after[n] = table[i]
    <2> SUFFICES ASSUME NEW n \in DOMAIN after PROVE \E i \in DOMAIN table : after[n] = table[i]
      OBVIOUS
    <2>1. PICK m \in DOMAIN live : after[n] = live[m]
      BY <1>10 DEF Stays
    <2>2. PICK i \in DOMAIN table : live[m] = table[i]
      BY <1>3, <2>1 DEF Stays
    <2> QED
      BY <2>1, <2>2
  <1>14. \E n \in DOMAIN after : after[n] = table[Len(table)]
    BY <1>3, <1>10
  <1> QED
    BY <1>10, <1>11, <1>12, <1>13, <1>14 DEF TableOK

\* A table in order, with a counter for the source; the others are some of those there were.
Renewed(table, after, source) ==
  /\ TableOK(after)
  /\ \E n \in DOMAIN after : after[n].source = source
  /\ \A n \in DOMAIN after : after[n].source # source => \E i \in DOMAIN table : after[n] = table[i]

LEMMA CounterIsCount ==
  ASSUME NEW s \in Sources
  PROVE  Counter(s) \in Counts /\ Counter(s).source = s /\ Counter(s).age = 0
PROOF
  <1>1. 0 \in 0..Window /\ 0 \in Nat
    BY LimitsAreNat
  <1> QED
    BY <1>1 DEF Counter, Counts

LEMMA EnteredShape ==
  ASSUME NEW table, TableOK(table), NEW s \in Sources
  PROVE  Renewed(table, Entered(table, s), s)
PROOF
  <1> DEFINE at == At(table, s)
             fresh == Counter(s)
             longer == Append(table, fresh)
             renewed == [i \in DOMAIN table |-> IF i \in at THEN fresh ELSE table[i]]
             known == \E i \in at : ~Expired(table[i])
  <1>0. fresh \in Counts /\ fresh.source = s /\ fresh.age = 0 /\ table \in Seq(Counts) /\ MaxTracked \in Nat \ {0}
    BY CounterIsCount, TracksSomeone DEF TableOK
  <1> HIDE DEF fresh
  <1>1. CASE known
    <2>1. Entered(table, s) = table
      BY <1>1 DEF Entered
    <2>2. PICK i \in at : TRUE
      BY <1>1
    <2>3. i \in DOMAIN table /\ table[i].source = s
      BY <2>2 DEF At
    <2> QED
      BY <2>1, <2>3 DEF Renewed
  <1>2. CASE ~known /\ at = {}
    <2>1. /\ longer \in Seq(Counts) /\ Len(longer) = Len(table) + 1 /\ Len(table) \in Nat
          /\ longer[Len(longer)] = fresh
          /\ \A i \in DOMAIN longer : i = Len(longer) \/ (i \in DOMAIN table /\ longer[i] = table[i])
      BY <1>0
    <2>2. \A i \in DOMAIN table : table[i].source # s
      BY <1>2 DEF At
    <2> HIDE DEF longer
    <2>3. OnePerSource(longer)
      BY <1>0, <2>1, <2>2 DEF OnePerSource, TableOK
    <2>4. Len(longer) \in DOMAIN longer
      BY <2>1
    <2>5. CASE Len(longer) > MaxTracked
      <3>1. Entered(table, s) = evict(longer)
        BY <1>2, <2>5 DEF Entered, longer, fresh
      <3>2. Len(longer) = MaxTracked + 1
        BY <1>0, <2>1, <2>5 DEF TableOK
      <3>3. /\ TableOK(evict(longer))
            /\ \A n \in DOMAIN evict(longer) : \E i \in DOMAIN longer : evict(longer)[n] = longer[i]
            /\ \E n \in DOMAIN evict(longer) : evict(longer)[n] = longer[Len(longer)]
        BY <1>0, <2>1, <2>3, <3>2, EvictShape
      <3> QED
        BY <1>0, <2>1, <3>1, <3>3 DEF Renewed
    <2>6. CASE ~(Len(longer) > MaxTracked)
      <3>1. Entered(table, s) = longer
        BY <1>2, <2>6 DEF Entered, longer, fresh
      <3>2. TableOK(longer)
        BY <1>0, <2>1, <2>3, <2>6 DEF TableOK
      <3> QED
        BY <1>0, <2>1, <2>4, <3>1, <3>2 DEF Renewed
    <2> QED
      BY <2>5, <2>6
  <1>3. CASE ~known /\ at # {}
    <2>1. /\ renewed \in Seq(Counts) /\ Len(renewed) = Len(table) /\ DOMAIN renewed = DOMAIN table
          /\ \A i \in DOMAIN table : renewed[i] = IF i \in at THEN fresh ELSE table[i]
      BY <1>0
    <2> HIDE DEF renewed
    <2>2. \A i \in DOMAIN table : renewed[i].source = table[i].source
      BY <1>0, <2>1 DEF At
    <2>3. TableOK(renewed)
      BY <2>1, <2>2 DEF TableOK, OnePerSource
    <2>4. Entered(table, s) = renewed
      <3>1. ~(Len(renewed) > MaxTracked)
        BY <1>0, <2>1, <2>3 DEF TableOK
      <3> QED
        BY <1>3, <3>1 DEF Entered, renewed, fresh
    <2>5. PICK i \in DOMAIN table : table[i].source = s
      BY <1>3 DEF At
    <2>6. \A n \in DOMAIN renewed : renewed[n].source # s => renewed[n] = table[n]
      BY <1>0, <2>1, <2>2
    <2> QED
      BY <2>1, <2>2, <2>3, <2>4, <2>5, <2>6 DEF Renewed
  <1> QED
    BY <1>1, <1>2, <1>3

\* The counter of a source: the one it has, or a new one.
LEMMA CurrentShape ==
  ASSUME NEW table, TableOK(table), NEW s \in Sources
  PROVE  /\ Current(table, s) \in Counts /\ Current(table, s).source = s
         /\ \A i \in DOMAIN table : table[i].source = s /\ ~Expired(table[i]) => Current(table, s) = table[i]
         /\ (\A i \in DOMAIN table : table[i].source = s => Expired(table[i])) => Current(table, s) = Counter(s)
PROOF
  <1> DEFINE at == {i \in At(table, s) : ~Expired(table[i])}
  <1>1. CASE at = {}
    <2>1. Current(table, s) = Counter(s)
      BY <1>1 DEF Current
    <2> QED
      BY <1>1, <2>1, CounterIsCount DEF At
  <1>2. CASE at # {}
    <2>1. PICK i \in at : Current(table, s) = table[i]
      BY <1>2 DEF Current
    <2>2. i \in DOMAIN table /\ table[i].source = s /\ ~Expired(table[i])
      BY <2>1 DEF At
    <2>3. table[i] \in Counts
      BY <2>2 DEF TableOK
    <2>4. \A j \in DOMAIN table : table[j].source = s => j = i
      BY <2>2 DEF TableOK, OnePerSource
    <2> QED
      BY <2>1, <2>2, <2>3, <2>4
  <1> QED
    BY <1>1, <1>2

More(mutating) == IF mutating THEN 1 ELSE 0

LEMMA CountedShape ==
  ASSUME NEW count \in Counts, NEW mutating
  PROVE  Counted(count, mutating) = [source |-> count.source, overall |-> count.overall + 1,
                                     mutating |-> count.mutating + More(mutating), age |-> count.age]
         /\ Counted(count, mutating) \in Counts
PROOF
  <1>1. Counted(count, mutating) = [source |-> count.source, overall |-> count.overall + 1,
                                    mutating |-> count.mutating + More(mutating), age |-> count.age]
    BY DEF Counted, More
  <1>2. count.source \in Sources /\ count.overall \in Nat /\ count.mutating \in Nat /\ count.age \in 0..Window
    BY DEF Counts
  <1>3. count.overall + 1 \in Nat /\ count.mutating + More(mutating) \in Nat
    BY <1>2 DEF More
  <1> QED
    BY <1>1, <1>2, <1>3 DEF Counts

LEMMA RecordedShape ==
  ASSUME NEW table, TableOK(table), NEW s \in Sources, NEW mutating
  PROVE  /\ Renewed(table, Recorded(table, s, mutating), s)
         /\ \A n \in DOMAIN Recorded(table, s, mutating) :
              Recorded(table, s, mutating)[n].source = s =>
                Recorded(table, s, mutating)[n] = Counted(Current(table, s), mutating)
PROOF
  <1> DEFINE entered == Entered(table, s)
             counted == Counted(Current(table, s), mutating)
             after == [i \in DOMAIN entered |-> IF entered[i].source = s THEN counted ELSE entered[i]]
  <1>1. Renewed(table, entered, s)
    BY EnteredShape
  <1>2. counted \in Counts /\ counted.source = s
    BY CurrentShape, CountedShape
  <1>3. Recorded(table, s, mutating) = after
    BY DEF Recorded
  <1> HIDE DEF entered, counted
  <1>4. entered \in Seq(Counts) /\ Len(entered) <= MaxTracked /\ OnePerSource(entered)
    BY <1>1 DEF Renewed, TableOK
  <1>5. /\ after \in Seq(Counts) /\ Len(after) = Len(entered) /\ DOMAIN after = DOMAIN entered
        /\ \A i \in DOMAIN entered : after[i] = IF entered[i].source = s THEN counted ELSE entered[i]
    BY <1>2, <1>4
  <1> HIDE DEF after
  <1>6. \A i \in DOMAIN entered : after[i].source = entered[i].source
    BY <1>2, <1>5
  <1>7. TableOK(after)
    BY <1>4, <1>5, <1>6 DEF TableOK, OnePerSource
  <1>8. Renewed(table, after, s)
    BY <1>1, <1>5, <1>6, <1>7 DEF Renewed
  <1>9. \A n \in DOMAIN after : after[n].source = s => after[n] = counted
    BY <1>2, <1>5, <1>6
  <1> QED
    BY <1>3, <1>8, <1>9 DEF counted

LEMMA OlderShape ==
  ASSUME NEW table, TableOK(table)
  PROVE  /\ TableOK(Older(table)) /\ DOMAIN Older(table) = DOMAIN table
         /\ \A i \in DOMAIN table :
              Older(table)[i] = [source |-> table[i].source, overall |-> table[i].overall, mutating |-> table[i].mutating,
                                 age |-> IF Expired(table[i]) THEN table[i].age ELSE table[i].age + 1]
PROOF
  <1> DEFINE older == Older(table)
  <1>1. table \in Seq(Counts) /\ Window \in Nat
    BY LimitsAreNat DEF TableOK
  <1>2. \A i \in DOMAIN table : table[i] \in Counts
    BY <1>1
  <1>3. /\ DOMAIN older = DOMAIN table
        /\ \A i \in DOMAIN table :
             older[i] = [source |-> table[i].source, overall |-> table[i].overall, mutating |-> table[i].mutating,
                         age |-> IF Expired(table[i]) THEN table[i].age ELSE table[i].age + 1]
    BY <1>2 DEF Older, Counts
  <1>4. \A i \in DOMAIN table : older[i] \in Counts /\ older[i].source = table[i].source
    BY <1>1, <1>2, <1>3 DEF Counts, Expired
  <1>5. older = [i \in 1..Len(table) |-> older[i]]
    BY <1>1 DEF Older
  <1> HIDE DEF older
  <1>6. older \in Seq(Counts) /\ Len(older) = Len(table)
    BY <1>1, <1>3, <1>4, <1>5, SMTT(30)
  <1>7. TableOK(older)
    BY <1>3, <1>4, <1>6 DEF TableOK, OnePerSource
  <1> QED
    BY <1>3, <1>7 DEF older

---------------------------------------------------------------------------
(* The budget.  While its window runs, what a source got through in it is   *)
(* within what its counter counted, and what it got through in the part of  *)
(* the one before that can still be remembered is within the limit.  When   *)
(* no window runs it got nothing through in this instant.                   *)

Ever == 0..(Window - 1)
Sum(f, ages) == SumFunctionOnSet(f, ages)

\* f: how many got through at each age; counted in a window of this age
Spent(f, age, counted, limit) ==
  Sum(f, 0..age) <= counted /\ Sum(f, 0..age) <= limit /\ Sum(f, (age + 1)..(Window - 1)) <= limit

Unspent(f, limit) == f[0] = 0 /\ Sum(f, Ever) <= limit

LEMMA SumTyped ==
  ASSUME NEW f \in [Ever -> Nat], NEW ages \in SUBSET Ever
  PROVE  IsFiniteSet(ages) /\ Sum(f, ages) \in Nat /\ Sum(f, ages) <= Sum(f, Ever)
PROOF
  <1>1. IsFiniteSet(Ever)
    BY LimitsAreNat, FS_Interval DEF Ever
  <1>2. IsFiniteSet(ages) /\ \A a \in Ever : f[a] \in Nat
    BY <1>1, FS_Subset
  <1>3. \A a \in ages : f[a] \in Nat
    BY <1>2
  <1>4. Sum(f, ages) \in Nat
    BY <1>2, <1>3, SumIsNatural DEF Sum
  <1>5. Sum(f, ages) <= Sum(f, Ever)
    BY <1>1, <1>2, SumOfPart DEF Sum
  <1> QED
    BY <1>2, <1>4, <1>5

\* Time moves everything up by one age.
Aging(f, h) == h[0] = 0 /\ \A a \in Ever : a + 1 \in Ever => h[a + 1] = f[a]

LEMMA AgingSums ==
  ASSUME NEW f \in [Ever -> Nat], NEW h \in [Ever -> Nat], Aging(f, h), NEW b \in Ever
  PROVE  /\ Sum(h, 0..b) = Sum(f, 0..(b - 1))
         /\ Sum(h, (b + 1)..(Window - 1)) = Sum(f, b..(Window - 2))
PROOF
  <1>0. Window \in Nat \ {0} /\ b \in Nat /\ b < Window
    BY LimitsAreNat DEF Ever
  <1>1. Sum(h, 1..b) = Sum(f, 0..(b - 1))
    <2>1. \A a \in 0..(0 + b) : a < 0 + b => f[a] \in Int /\ h[a + 1] = f[a]
      BY <1>0 DEF Aging, Ever
    <2>2. SumFunctionOnSet(h, (0 + 1)..(0 + b)) = SumFunctionOnSet(f, 0..(0 + b - 1))
      BY <1>0, <2>1, SumShifted
    <2>3. (0 + 1)..(0 + b) = 1..b /\ 0..(0 + b - 1) = 0..(b - 1)
      BY <1>0
    <2> QED
      BY <2>2, <2>3 DEF Sum
  <1>2. Sum(h, 0..b) = Sum(h, 1..b)
    <2> DEFINE up == 1..b
    <2>1. 0..b = up \cup {0} /\ 0 \notin up /\ up \subseteq Ever
      BY <1>0 DEF Ever
    <2> HIDE DEF up
    <2>2. IsFiniteSet(up) /\ Sum(h, up) \in Nat /\ \A a \in up : h[a] \in Int
      BY <2>1, SumTyped
    <2>3. h[0] = 0
      BY DEF Aging
    <2>4. Sum(h, up \cup {0}) = 0 + Sum(h, up)
      BY <2>1, <2>2, <2>3, SumWith DEF Sum
    <2>5. \A k \in Nat : 0 + k = k
      OBVIOUS
    <2>6. Sum(h, up \cup {0}) = Sum(h, up)
      BY <2>2, <2>4, <2>5
    <2> QED
      BY <2>1, <2>6 DEF up
  <1>3. Sum(h, (b + 1)..(Window - 1)) = Sum(f, b..(Window - 2))
    <2> DEFINE n == Window - 1 - b
    <2>1. n \in Nat /\ b + n = Window - 1 /\ b + n - 1 = Window - 2
      BY <1>0
    <2>2. \A a \in b..(b + n) : a < b + n => f[a] \in Int /\ h[a + 1] = f[a]
      BY <1>0, <2>1 DEF Aging, Ever
    <2> HIDE DEF n
    <2>3. SumFunctionOnSet(h, (b + 1)..(b + n)) = SumFunctionOnSet(f, b..(b + n - 1))
      BY <1>0, <2>1, <2>2, SumShifted, ZenonT(60)
    <2> QED
      BY <2>1, <2>3 DEF Sum
  <1> QED
    BY <1>1, <1>2, <1>3

\* A window that goes on, one that ends, and none.
LEMMA SpentAging ==
  ASSUME NEW f \in [Ever -> Nat], NEW h \in [Ever -> Nat], Aging(f, h), NEW limit \in Nat, NEW counted \in Nat,
         NEW age \in Ever, Spent(f, age, counted, limit)
  PROVE  /\ age + 1 \in Ever => Spent(h, age + 1, counted, limit)
         /\ age + 1 \notin Ever => Unspent(h, limit)
PROOF
  <1>0. Window \in Nat \ {0} /\ age \in Nat /\ age < Window
    BY LimitsAreNat DEF Ever
  <1>1. ASSUME age + 1 \in Ever PROVE Spent(h, age + 1, counted, limit)
    <2>1. Sum(h, 0..(age + 1)) = Sum(f, 0..age)
      <3> DEFINE next == age + 1
      <3>0. next \in Ever
        BY <1>1
      <3>1. Sum(h, 0..next) = Sum(f, 0..(next - 1))
        <4> HIDE DEF next
        <4> QED
          BY <3>0, AgingSums
      <3>2. 0..(next - 1) = 0..age
        BY <1>0
      <3> HIDE DEF next
      <3>3. Sum(h, 0..next) = Sum(f, 0..age)
        BY <3>1, <3>2
      <3> QED
        BY <3>3 DEF next
    <2>2. Sum(h, (age + 1 + 1)..(Window - 1)) = Sum(f, (age + 1)..(Window - 2))
      BY <1>1, AgingSums
    <2> DEFINE part == (age + 1)..(Window - 2)
               whole == (age + 1)..(Window - 1)
    <2>3. part \subseteq whole /\ whole \subseteq Ever
      BY <1>0 DEF Ever
    <2> HIDE DEF part, whole
    <2>4. IsFiniteSet(whole) /\ Sum(f, whole) \in Nat /\ Sum(f, part) \in Nat /\ \A a \in whole : f[a] \in Nat
      <3>1. part \in SUBSET Ever /\ whole \in SUBSET Ever
        BY <2>3
      <3> QED
        BY <3>1, SumTyped
    <2>5. Sum(f, part) <= Sum(f, whole)
      BY <2>3, <2>4, SumOfPart DEF Sum
    <2>6. Sum(f, whole) <= limit
      BY DEF Spent, whole
    <2>7. Sum(f, part) <= limit
      BY <2>4, <2>5, <2>6
    <2>8. Sum(f, 0..age) <= counted /\ Sum(f, 0..age) <= limit
      BY DEF Spent
    <2> QED
      BY <2>1, <2>2, <2>7, <2>8 DEF Spent, part
  <1>2. ASSUME age + 1 \notin Ever PROVE Unspent(h, limit)
    <2>1. age = Window - 1 /\ age - 1 = Window - 2
      BY <1>0, <1>2 DEF Ever
    <2>2. Sum(h, 0..age) = Sum(f, 0..(age - 1))
      BY AgingSums
    <2> DEFINE part == 0..(age - 1)
    <2>3. part \subseteq Ever
      BY <1>0 DEF Ever
    <2> HIDE DEF part
    <2>4. Sum(f, part) <= Sum(f, Ever) /\ Sum(f, part) \in Nat /\ Sum(f, Ever) \in Nat
      <3>1. part \in SUBSET Ever /\ Ever \in SUBSET Ever
        BY <2>3
      <3> QED
        BY <3>1, SumTyped
    <2>5. Sum(f, Ever) <= limit
      BY <2>1 DEF Spent, Ever
    <2>6. Sum(h, Ever) = Sum(f, part)
      BY <2>1, <2>2 DEF part, Ever
    <2>7. Sum(h, Ever) <= limit
      BY <2>4, <2>5, <2>6
    <2> QED
      BY <2>7 DEF Unspent, Aging
  <1> QED
    BY <1>1, <1>2

LEMMA UnspentAging ==
  ASSUME NEW f \in [Ever -> Nat], NEW h \in [Ever -> Nat], Aging(f, h), NEW limit \in Nat, Unspent(f, limit)
  PROVE  Unspent(h, limit)
PROOF
  <1> DEFINE part == 0..(Window - 2)
  <1>0. Window \in Nat \ {0} /\ Window - 1 \in Ever /\ (Window - 1) - 1 = Window - 2
    BY LimitsAreNat DEF Ever
  <1>1. Sum(h, 0..(Window - 1)) = Sum(f, 0..((Window - 1) - 1))
    BY <1>0, AgingSums
  <1>2. Sum(h, Ever) = Sum(f, part)
    BY <1>0, <1>1 DEF Ever
  <1>3. part \in SUBSET Ever /\ Ever \in SUBSET Ever
    BY <1>0 DEF Ever
  <1> HIDE DEF part
  <1>4. Sum(f, part) <= Sum(f, Ever) /\ Sum(f, part) \in Nat /\ Sum(f, Ever) \in Nat
    BY <1>3, SumTyped
  <1>5. Sum(f, Ever) <= limit
    BY DEF Unspent
  <1>6. Sum(h, Ever) <= limit
    BY <1>2, <1>4, <1>5
  <1> QED
    BY <1>6 DEF Unspent, Aging

\* A window that begins
LEMMA SpentFresh ==
  ASSUME NEW f \in [Ever -> Nat], NEW limit \in Nat, Unspent(f, limit)
  PROVE  Spent(f, 0, 0, limit)
PROOF
  <1> DEFINE rest == 1..(Window - 1)
  <1>0. Window \in Nat \ {0} /\ 0 \in Ever
    BY LimitsAreNat DEF Ever
  <1>1. rest \in SUBSET Ever /\ Ever \in SUBSET Ever
    BY <1>0 DEF Ever
  <1> HIDE DEF rest
  <1>2. Sum(f, rest) <= Sum(f, Ever) /\ Sum(f, rest) \in Nat /\ Sum(f, Ever) \in Nat
    BY <1>1, SumTyped
  <1>3. Sum(f, Ever) <= limit /\ f[0] = 0
    BY DEF Unspent
  <1>4. Sum(f, rest) <= limit
    BY <1>2, <1>3
  <1>5. Sum(f, 0..0) = 0
    <2> DEFINE none == {}
    <2>1. IsFiniteSet(none) /\ SumFunctionOnSet(f, none) = 0 /\ 0 \notin none /\ none \cup {0} = 0..0
      BY FS_EmptySet, SumOfNone
    <2>2. f[0] \in Int /\ \A a \in none : f[a] \in Int
      BY <1>3
    <2> HIDE DEF none
    <2>3. SumFunctionOnSet(f, none \cup {0}) = f[0] + SumFunctionOnSet(f, none)
      BY <2>1, <2>2, SumWith
    <2> QED
      BY <1>3, <2>1, <2>3 DEF Sum
  <1> QED
    BY <1>4, <1>5 DEF Spent, rest

\* One more request counted, and let through if the count allows.
LEMMA SpentMore ==
  ASSUME NEW f \in [Ever -> Nat], NEW h \in [Ever -> Nat], NEW limit \in Nat, NEW counted \in Nat,
         NEW age \in Ever, Spent(f, age, counted, limit),
         NEW more \in Nat, NEW through \in Nat, through <= more, through # 0 => counted + more <= limit,
         h[0] = f[0] + through, \A a \in Ever : a # 0 => h[a] = f[a]
  PROVE  Spent(h, age, counted + more, limit)
PROOF
  <1> DEFINE now == 0..age
             before == (age + 1)..(Window - 1)
  <1>0. /\ Window \in Nat \ {0} /\ 0 \in now
        /\ now \in SUBSET Ever /\ before \in SUBSET Ever /\ 0 \notin before
    BY LimitsAreNat DEF Ever
  <1>1. Sum(f, now) <= counted /\ Sum(f, now) <= limit /\ Sum(f, before) <= limit
    BY DEF Spent
  <1> HIDE DEF now, before
  <1>2. IsFiniteSet(now) /\ IsFiniteSet(before) /\ Sum(f, now) \in Nat
    BY <1>0, SumTyped
  <1>3. Sum(h, now) = Sum(f, now) + (h[0] - f[0])
    <2>1. \A a \in now : f[a] \in Int /\ h[a] \in Int /\ (a # 0 => h[a] = f[a])
      BY <1>0
    <2> QED
      BY <1>0, <1>2, <2>1, SumUpdated DEF Sum
  <1>4. h[0] - f[0] = through
    <2>1. f[0] \in Nat
      BY <1>0
    <2> QED
      BY <2>1
  <1>5. Sum(h, before) = Sum(f, before)
    <2>1. \A a \in before : h[a] \in Int /\ h[a] = f[a]
      BY <1>0
    <2> QED
      BY <1>2, <2>1, SumOfSame DEF Sum
  <1>6. Sum(h, now) = Sum(f, now) + through
    BY <1>3, <1>4
  <1>7. Sum(h, now) <= counted + more
    BY <1>1, <1>2, <1>6
  <1>8. Sum(h, now) <= limit
    <2>1. CASE through = 0
      BY <1>1, <1>2, <1>6, <2>1
    <2>2. CASE through # 0
      BY <1>1, <1>2, <1>6, <2>2
    <2> QED
      BY <2>1, <2>2
  <1>9. Sum(h, before) <= limit
    BY <1>1, <1>5
  <1> QED
    BY <1>7, <1>8, <1>9 DEF Spent, now, before

Live(table, s) == {i \in At(table, s) : ~Expired(table[i])}
Kinds == {"all", "mutating"}
CountOf(count, kind) == IF kind = "all" THEN count.overall ELSE count.mutating
LimitOf(kind) == IF kind = "all" THEN OverallLimit ELSE MutatingLimit
LetThrough == [all : Nat, mutating : Nat]
Through(record, s, kind) == [a \in Ever |-> record[s][a][kind]]

Budget(table, f, s, kind) ==
  /\ Live(table, s) = {} => Unspent(f, LimitOf(kind))
  /\ \A i \in Live(table, s) : Spent(f, table[i].age, CountOf(table[i], kind), LimitOf(kind))

LimiterInv ==
  /\ TableOK(counters)
  /\ recent \in [Sources -> [Ever -> LetThrough]]
  /\ \A s \in Sources \ forgiven, kind \in Kinds : Budget(counters, Through(recent, s, kind), s, kind)

LEMMA ThroughTyped ==
  ASSUME NEW record \in [Sources -> [Ever -> LetThrough]], NEW s \in Sources, NEW kind \in Kinds
  PROVE  Through(record, s, kind) \in [Ever -> Nat] /\ LimitOf(kind) \in Nat
PROOF
  <1>1. \A a \in Ever : record[s][a].all \in Nat /\ record[s][a].mutating \in Nat
    BY DEF LetThrough
  <1>2. \A a \in Ever : record[s][a][kind] \in Nat
    BY <1>1 DEF Kinds
  <1> QED
    BY <1>2, LimitsAreNat DEF Through, LimitOf

LEMMA LiveShape ==
  ASSUME NEW table, TableOK(table), NEW s, NEW i \in Live(table, s)
  PROVE  /\ i \in DOMAIN table /\ table[i].source = s /\ table[i] \in Counts
         /\ table[i].age \in Ever /\ table[i].age + 1 \in Nat
         /\ \A kind \in Kinds : CountOf(table[i], kind) \in Nat
         /\ \A j \in DOMAIN table : table[j].source = s => j = i
PROOF
  <1>1. i \in DOMAIN table /\ table[i].source = s /\ ~Expired(table[i])
    BY DEF Live, At
  <1>2. table[i] \in Counts
    BY <1>1 DEF TableOK
  <1>3. table[i].age \in Ever /\ table[i].age + 1 \in Nat
    BY <1>1, <1>2, LimitsAreNat DEF Counts, Expired, Ever
  <1>4. \A kind \in Kinds : CountOf(table[i], kind) \in Nat
    BY <1>2 DEF Counts, CountOf
  <1>5. \A j \in DOMAIN table : table[j].source = s => j = i
    BY <1>1 DEF TableOK, OnePerSource
  <1> QED
    BY <1>1, <1>2, <1>3, <1>4, <1>5

\* Time passes: a window goes on or ends.
LEMMA BudgetAging ==
  ASSUME NEW table, TableOK(table), NEW s \in Sources, NEW kind \in Kinds,
         NEW f \in [Ever -> Nat], NEW h \in [Ever -> Nat], Aging(f, h), Budget(table, f, s, kind)
  PROVE  Budget(Older(table), h, s, kind)
PROOF
  <1> DEFINE older == Older(table)
  <1>0. LimitOf(kind) \in Nat /\ Window \in Nat \ {0}
    BY LimitsAreNat DEF LimitOf
  <1>1. /\ TableOK(older) /\ DOMAIN older = DOMAIN table
        /\ \A i \in DOMAIN table :
              older[i] = [source |-> table[i].source, overall |-> table[i].overall, mutating |-> table[i].mutating,
                          age |-> IF Expired(table[i]) THEN table[i].age ELSE table[i].age + 1]
    BY OlderShape
  <1> HIDE DEF older
  <1>2. \A i \in Live(table, s) : /\ older[i].source = s /\ older[i].age = table[i].age + 1
                                  /\ CountOf(older[i], kind) = CountOf(table[i], kind)
    BY <1>1 DEF Live, At, CountOf
  <1>3. Live(older, s) \subseteq Live(table, s)
    BY <1>1 DEF Live, At, Expired
  <1>4. \A i \in Live(table, s) :
          /\ table[i].age + 1 \in Ever => Spent(h, table[i].age + 1, CountOf(table[i], kind), LimitOf(kind))
          /\ table[i].age + 1 \notin Ever => Unspent(h, LimitOf(kind))
    <2> TAKE i \in Live(table, s)
    <2> QED
      BY <1>0, LiveShape, SpentAging DEF Budget
  <1>5. ASSUME NEW i \in Live(older, s)
        PROVE  Spent(h, older[i].age, CountOf(older[i], kind), LimitOf(kind))
    BY <1>1, <1>2, <1>3, <1>4, <1>5, LiveShape
  <1>6. ASSUME Live(older, s) = {} PROVE Unspent(h, LimitOf(kind))
    <2>1. CASE Live(table, s) = {}
      BY <1>0, <2>1, UnspentAging DEF Budget
    <2>2. CASE Live(table, s) # {}
      <3>1. PICK i \in Live(table, s) : TRUE
        BY <2>2
      <3>2. i \in DOMAIN table /\ table[i].age \in Ever /\ older[i].age = table[i].age + 1 /\ older[i].source = s
        BY <1>2, LiveShape
      <3>3. Expired(older[i])
        BY <1>1, <1>6, <3>2 DEF Live, At
      <3>4. table[i].age + 1 \notin Ever
        BY <1>0, <3>2, <3>3 DEF Expired, Ever
      <3> QED
        BY <1>4, <3>4
    <2> QED
      BY <2>1, <2>2
  <1> QED
    BY <1>5, <1>6 DEF Budget, older

\* A request of one source leaves the others' windows alone, unless one is dropped.
LEMMA BudgetOfOthers ==
  ASSUME NEW table, TableOK(table), NEW after, NEW s, Renewed(table, after, s), NEW t, t # s, NEW kind, NEW f,
         Budget(table, f, t, kind), t \in Tracked(table) \ Tracked(after) => Live(table, t) = {}
  PROVE  Budget(after, f, t, kind)
PROOF
  <1>1. ASSUME NEW n \in Live(after, t)
        PROVE  Spent(f, after[n].age, CountOf(after[n], kind), LimitOf(kind))
    <2>1. n \in DOMAIN after /\ after[n].source = t /\ ~Expired(after[n])
      BY <1>1 DEF Live, At
    <2>2. PICK i \in DOMAIN table : after[n] = table[i]
      BY <2>1 DEF Renewed
    <2>3. i \in Live(table, t)
      BY <2>1, <2>2 DEF Live, At
    <2> QED
      BY <2>2, <2>3 DEF Budget
  <1>2. ASSUME Live(after, t) = {} PROVE Live(table, t) = {}
    <2> SUFFICES ASSUME NEW i \in Live(table, t) PROVE FALSE
      OBVIOUS
    <2>1. i \in DOMAIN table /\ table[i].source = t /\ ~Expired(table[i])
          /\ \A j \in DOMAIN table : table[j].source = t => j = i
      BY LiveShape DEF Live, At
    <2>2. t \in Tracked(after)
      BY <2>1 DEF Tracked
    <2>3. PICK n \in DOMAIN after : after[n].source = t
      BY <2>2 DEF Tracked
    <2>4. after[n] = table[i]
      BY <2>1, <2>3 DEF Renewed
    <2>5. n \in Live(after, t)
      BY <2>1, <2>3, <2>4 DEF Live, At
    <2> QED
      BY <1>2, <2>5
  <1> QED
    BY <1>1, <1>2 DEF Budget

\* What a request is counted on holds what was spent.
LEMMA BudgetOfCurrent ==
  ASSUME NEW table, TableOK(table), NEW s \in Sources, NEW kind \in Kinds, NEW f \in [Ever -> Nat],
         Budget(table, f, s, kind)
  PROVE  /\ Current(table, s) \in Counts /\ Current(table, s).age \in Ever
         /\ Spent(f, Current(table, s).age, CountOf(Current(table, s), kind), LimitOf(kind))
PROOF
  <1>0. LimitOf(kind) \in Nat /\ 0 \in Ever
    BY LimitsAreNat DEF LimitOf, Ever
  <1>1. CASE Live(table, s) = {}
    <2>1. Current(table, s) = Counter(s)
      BY <1>1, CurrentShape DEF Live, At
    <2>2. Spent(f, 0, 0, LimitOf(kind))
      BY <1>0, <1>1, SpentFresh DEF Budget
    <2>3. Counter(s).age = 0 /\ CountOf(Counter(s), kind) = 0
      BY DEF Counter, CountOf
    <2> QED
      BY <1>0, <2>1, <2>2, <2>3, CounterIsCount
  <1>2. CASE Live(table, s) # {}
    <2>1. PICK i \in Live(table, s) : TRUE
      BY <1>2
    <2>2. Current(table, s) = table[i]
      BY <2>1, CurrentShape DEF Live, At
    <2> QED
      BY <2>1, <2>2, LiveShape DEF Budget
  <1> QED
    BY <1>1, <1>2

\* One request of a source, let through or not, on the source's own budget.
LEMMA BudgetOfRequest ==
  ASSUME NEW table, TableOK(table), NEW s \in Sources, NEW mutating, NEW kind \in Kinds,
         NEW f \in [Ever -> Nat], NEW h \in [Ever -> Nat], Budget(table, f, s, kind),
         NEW through \in Nat, through \in {0, IF kind = "all" THEN 1 ELSE More(mutating)},
         Refused(table, s, mutating) => through = 0,
         h[0] = f[0] + through, \A a \in Ever : a # 0 => h[a] = f[a]
  PROVE  Budget(Recorded(table, s, mutating), h, s, kind)
PROOF
  <1> DEFINE after == Recorded(table, s, mutating)
             count == Current(table, s)
             counted == Counted(count, mutating)
             more == IF kind = "all" THEN 1 ELSE More(mutating)
             age == count.age
             spent == CountOf(count, kind)
             limit == LimitOf(kind)
  <1>0. limit \in Nat
    BY LimitsAreNat DEF LimitOf
  <1>1. Renewed(table, after, s) /\ \A n \in DOMAIN after : after[n].source = s => after[n] = counted
    BY RecordedShape
  <1>2. count \in Counts /\ age \in Ever /\ Spent(f, age, spent, limit)
    BY BudgetOfCurrent
  <1>3. /\ counted.age = age /\ counted.overall = count.overall + 1
        /\ counted.mutating = count.mutating + More(mutating)
    <2> HIDE DEF count
    <2> QED
      BY <1>2, CountedShape
  <1>4. Refused(table, s, mutating) <=> over(counted, mutating)
    BY DEF Refused
  <1> HIDE DEF count, counted, after
  <1>5. CountOf(counted, kind) = spent + more /\ more \in Nat /\ spent \in Nat
    BY <1>2, <1>3 DEF CountOf, Counts, More
  <1>6. through # 0 => spent + more <= limit
    <2> SUFFICES ASSUME through # 0 PROVE spent + more <= limit
      OBVIOUS
    <2>1. ~over(counted, mutating)
      BY <1>4
    <2>2. counted.overall \in Nat /\ counted.mutating \in Nat
      BY <1>2, <1>3 DEF Counts, More
    <2>3. CASE kind = "all"
      BY <1>5, <2>1, <2>2, <2>3, LimitsAreNat DEF over, CountOf, LimitOf
    <2>4. CASE kind # "all"
      <3>1. mutating
        BY <2>4 DEF More
      <3>2. ~(counted.mutating > MutatingLimit)
        BY <2>1, <3>1, Zenon DEF over
      <3>3. counted.mutating <= MutatingLimit
        BY <2>2, <3>2, LimitsAreNat
      <3> QED
        BY <1>5, <2>4, <3>3 DEF CountOf, LimitOf
    <2> QED
      BY <2>3, <2>4
  <1>7. through <= more
    BY <1>5
  <1> HIDE DEF age, spent, limit, more
  <1>8. Spent(h, age, spent + more, limit)
    BY <1>0, <1>2, <1>5, <1>6, <1>7, SpentMore
  <1>9. \A n \in Live(after, s) : Spent(h, after[n].age, CountOf(after[n], kind), limit)
    <2> SUFFICES ASSUME NEW n \in Live(after, s) PROVE Spent(h, after[n].age, CountOf(after[n], kind), limit)
      OBVIOUS
    <2>1. after[n] = counted
      BY <1>1 DEF Live, At
    <2> QED
      BY <1>3, <1>5, <1>8, <2>1
  <1>10. Live(after, s) # {}
    <2>1. PICK n \in DOMAIN after : after[n].source = s
      BY <1>1 DEF Renewed
    <2>2. ~Expired(after[n])
      BY <1>1, <1>2, <1>3, <2>1, LimitsAreNat DEF Expired, Ever
    <2> QED
      BY <2>1, <2>2 DEF Live, At
  <1> QED
    BY <1>9, <1>10 DEF Budget, after, limit

\* A request recorded keeps every budget, but those of the sources forgiven for it.
LEMMA LimitKeepsBudgets ==
  ASSUME LimiterInv, NEW s \in Sources, NEW mutating, NEW refused, refused <=> Refused(counters, s, mutating),
         Limit(s, mutating, ~refused)
  PROVE  LimiterInv'
PROOF
  <1> DEFINE after == Recorded(counters, s, mutating)
             through(kind) == IF refused THEN 0 ELSE IF kind = "all" THEN 1 ELSE More(mutating)
  <1>0. 0 \in Ever
    BY LimitsAreNat DEF Ever
  <1>1. counters' = after /\ TableOK(after) /\ Renewed(counters, after, s)
    BY RecordedShape DEF Limit, LimiterInv, Renewed
  <1>2. recent[s][0] \in LetThrough
    BY <1>0 DEF LimiterInv
  <1>3. /\ recent' \in [Sources -> [Ever -> LetThrough]]
        /\ \A t \in Sources : t # s => recent'[t] = recent[t]
        /\ \A a \in Ever : a # 0 => recent'[s][a] = recent[s][a]
        /\ recent'[s][0].all = recent[s][0].all + through("all")
        /\ recent'[s][0].mutating = recent[s][0].mutating + through("mutating")
    <2>1. CASE refused
      BY <1>2, <2>1 DEF Limit, LimiterInv, LetThrough
    <2>2. CASE ~refused
      <3> DEFINE now == [all |-> recent[s][0].all + 1, mutating |-> recent[s][0].mutating + More(mutating)]
      <3>1. recent' = [recent EXCEPT ![s][0] = now]
        BY <2>2 DEF Limit, More
      <3>2. now \in LetThrough
        BY <1>2 DEF LetThrough, More
      <3>3. now.all = recent[s][0].all + through("all") /\ now.mutating = recent[s][0].mutating + through("mutating")
        BY <2>2
      <3> HIDE DEF now
      <3> QED
        BY <1>0, <3>1, <3>2, <3>3 DEF LimiterInv
    <2> QED
      BY <2>1, <2>2
  <1>4. ASSUME NEW t \in Sources \ forgiven', NEW kind \in Kinds
        PROVE  Budget(counters', Through(recent', t, kind), t, kind)
    <2> DEFINE f == Through(recent, t, kind)
               h == Through(recent', t, kind)
               more == through(kind)
    <2>1. f \in [Ever -> Nat] /\ h \in [Ever -> Nat]
      BY <1>3, ThroughTyped DEF LimiterInv
    <2>2. forgiven \subseteq forgiven'
      BY DEF Limit
    <2>3. Budget(counters, f, t, kind)
      BY <2>2 DEF LimiterInv
    <2>4. CASE t = s
      <3>1. h[0] = f[0] + more /\ \A a \in Ever : a # 0 => h[a] = f[a]
        BY <1>0, <1>3, <2>4 DEF Through, Kinds
      <3>2. more \in Nat /\ more \in {0, IF kind = "all" THEN 1 ELSE More(mutating)}
        BY DEF More
      <3>3. Refused(counters, s, mutating) => more = 0
        OBVIOUS
      <3> HIDE DEF f, h, more, after
      <3>4. Budget(Recorded(counters, s, mutating), h, s, kind)
        BY <2>1, <2>3, <2>4, <3>1, <3>2, <3>3, BudgetOfRequest DEF LimiterInv
      <3> QED
        BY <1>1, <2>4, <3>4 DEF after, h
    <2>5. CASE t # s
      <3>1. h = f
        BY <1>3, <2>5 DEF Through
      <3>2. t \in Tracked(counters) \ Tracked(after) => Live(counters, t) = {}
        BY DEF Limit, Live
      <3>3. TableOK(counters)
        BY DEF LimiterInv
      <3> HIDE DEF f, h, after
      <3>4. Budget(after, f, t, kind)
        BY <1>1, <2>3, <2>5, <3>2, <3>3, BudgetOfOthers
      <3> QED
        BY <1>1, <3>1, <3>4 DEF h
    <2> QED
      BY <2>4, <2>5
  <1> QED
    BY <1>1, <1>3, <1>4 DEF LimiterInv

\* Time passing keeps every budget.
LEMMA TickKeepsBudgets ==
  ASSUME LimiterInv, ApiTick
  PROVE  LimiterInv'
PROOF
  <1>1. counters' = Older(counters) /\ TableOK(counters') /\ forgiven' = forgiven
    BY OlderShape DEF ApiTick, LimiterInv
  <1>2. /\ recent' = [s \in Sources |-> [a \in Ever |-> IF a = 0 THEN [all |-> 0, mutating |-> 0] ELSE recent[s][a - 1]]]
        /\ 0 \in Ever /\ \A a \in Ever : a # 0 => a - 1 \in Ever
        /\ \A a \in Ever : a + 1 # 0 /\ (a + 1) - 1 = a
    BY LimitsAreNat DEF ApiTick, Ever
  <1>3. recent' \in [Sources -> [Ever -> LetThrough]]
    BY <1>2 DEF LimiterInv, LetThrough
  <1>4. ASSUME NEW s \in Sources \ forgiven', NEW kind \in Kinds
        PROVE  Budget(counters', Through(recent', s, kind), s, kind)
    <2> DEFINE f == Through(recent, s, kind)
               h == Through(recent', s, kind)
    <2>1. f \in [Ever -> Nat] /\ h \in [Ever -> Nat]
      BY <1>3, ThroughTyped DEF LimiterInv
    <2>2. Aging(f, h)
      BY <1>2 DEF Aging, Through, Kinds
    <2>3. Budget(counters, f, s, kind) /\ TableOK(counters)
      BY <1>1 DEF LimiterInv
    <2> HIDE DEF f, h
    <2>4. Budget(Older(counters), h, s, kind)
      BY <2>1, <2>2, <2>3, BudgetAging
    <2> QED
      BY <1>1, <2>4 DEF h
  <1> QED
    BY <1>1, <1>3, <1>4 DEF LimiterInv

LEMMA LimiterInvInit == ApiInit => LimiterInv
PROOF
  <1> SUFFICES ASSUME ApiInit PROVE LimiterInv
    OBVIOUS
  <1>0. 0 \in Ever /\ IsFiniteSet(Ever) /\ MaxTracked \in Nat
    BY LimitsAreNat, TracksSomeone, FS_Interval DEF Ever
  <1>1. TableOK(counters)
    BY <1>0 DEF ApiInit, TableOK, OnePerSource
  <1>2. recent = [s \in Sources |-> [a \in Ever |-> [all |-> 0, mutating |-> 0]]]
    BY DEF ApiInit, Ever
  <1>3. recent \in [Sources -> [Ever -> LetThrough]]
    BY <1>2 DEF LetThrough
  <1>4. ASSUME NEW s \in Sources \ forgiven, NEW kind \in Kinds
        PROVE  Budget(counters, Through(recent, s, kind), s, kind)
    <2> DEFINE f == Through(recent, s, kind)
    <2>1. \A a \in Ever : f[a] = 0
      BY <1>2 DEF Through, Kinds
    <2>2. LimitOf(kind) \in Nat
      BY LimitsAreNat DEF LimitOf
    <2> HIDE DEF f
    <2>3. SumFunctionOnSet(f, Ever) = 0
      BY <1>0, <2>1, SumOfZeros
    <2>4. Unspent(f, LimitOf(kind))
      BY <1>0, <2>1, <2>2, <2>3 DEF Unspent, Sum
    <2>5. Live(counters, s) = {}
      BY DEF Live, At, ApiInit
    <2> QED
      BY <2>4, <2>5 DEF Budget, f
  <1> QED
    BY <1>1, <1>3, <1>4 DEF LimiterInv

\* What the budget says of the window that runs, and of any stretch as long.
LEMMA BudgetBounds ==
  ASSUME NEW table, TableOK(table), NEW s, NEW kind \in Kinds, NEW f \in [Ever -> Nat], Budget(table, f, s, kind),
         NEW now, now = {a \in Ever : \E i \in At(table, s) : ~Expired(table[i]) /\ a <= table[i].age}
  PROVE  Sum(f, now) <= LimitOf(kind) /\ Sum(f, Ever) <= 2 * LimitOf(kind)
PROOF
  <1>0. LimitOf(kind) \in Nat /\ Window \in Nat \ {0}
    BY LimitsAreNat DEF LimitOf
  <1>1. CASE Live(table, s) = {}
    <2>1. now = {}
      BY <1>1 DEF Live
    <2>2. Sum(f, Ever) <= LimitOf(kind)
      BY <1>1 DEF Budget, Unspent
    <2>3. Ever \in SUBSET Ever
      OBVIOUS
    <2>4. Sum(f, Ever) \in Nat
      BY <2>3, SumTyped
    <2> QED
      BY <1>0, <2>1, <2>2, <2>4, SumOfNone DEF Sum
  <1>2. CASE Live(table, s) # {}
    <2>1. PICK i \in Live(table, s) : TRUE
      BY <1>2
    <2> DEFINE age == table[i].age
               before == (age + 1)..(Window - 1)
    <2>2. i \in At(table, s) /\ age \in Ever /\ \A j \in At(table, s) : j = i
      BY LiveShape DEF Live, At
    <2>3. Spent(f, age, CountOf(table[i], kind), LimitOf(kind))
      BY DEF Budget
    <2>4. now = 0..age
      BY <1>0, <2>2 DEF Live, Ever, At
    <2>5. Sum(f, now) <= LimitOf(kind) /\ Sum(f, before) <= LimitOf(kind)
      BY <2>3, <2>4 DEF Spent
    <2>6. now \in SUBSET Ever /\ before \in SUBSET Ever /\ now \cap before = {} /\ now \cup before = Ever
      BY <1>0, <2>2, <2>4 DEF Ever
    <2> HIDE DEF before
    <2>7. IsFiniteSet(now) /\ IsFiniteSet(before) /\ Sum(f, now) \in Nat /\ Sum(f, before) \in Nat
      BY <2>6, SumTyped
    <2>8. Sum(f, now \cup before) = Sum(f, now) + Sum(f, before)
      <3>1. \A a \in now \cup before : f[a] \in Int
        BY <2>6
      <3> QED
        BY <2>6, <2>7, <3>1, SumOfUnion DEF Sum
    <2>9. Sum(f, Ever) = Sum(f, now) + Sum(f, before)
      BY <2>6, <2>8
    <2> QED
      BY <1>0, <2>5, <2>7, <2>9
  <1> QED
    BY <1>1, <1>2

LEMMA TotalIsSum ==
  ASSUME recent \in [Sources -> [Ever -> LetThrough]], NEW s \in Sources, NEW kind \in Kinds, NEW ages \in SUBSET Ever
  PROVE  Total(s, ages, kind) = Sum(Through(recent, s, kind), ages)
PROOF
  <1> DEFINE f == [a \in ages |-> recent[s][a][kind]]
             h == Through(recent, s, kind)
  <1>1. h \in [Ever -> Nat]
    BY ThroughTyped
  <1>2. \A a \in ages : f[a] = h[a] /\ f[a] \in Int
    <2>1. \A a \in ages : f[a] = h[a]
      BY DEF Through
    <2>2. \A a \in ages : h[a] \in Nat
      BY <1>1
    <2> QED
      BY <2>1, <2>2
  <1>3. IsFiniteSet(ages)
    BY <1>1, SumTyped
  <1>4. Total(s, ages, kind) = SumFunctionOnSet(f, ages)
    BY DEF Total, SumFunctionOnSet
  <1> HIDE DEF f, h
  <1>5. SumFunctionOnSet(f, ages) = SumFunctionOnSet(h, ages)
    BY <1>2, <1>3, SumOfSame
  <1> QED
    BY <1>4, <1>5 DEF Sum, h

LEMMA BudgetsHold == LimiterInv => WithinBudget
PROOF
  <1> SUFFICES ASSUME LimiterInv PROVE WithinBudget
    OBVIOUS
  <1>1. ASSUME NEW s \in Sources \ forgiven, NEW kind \in Kinds,
               NEW now, now = {a \in Ever : \E i \in At(counters, s) : ~Expired(counters[i]) /\ a <= counters[i].age}
        PROVE  Total(s, now, kind) <= LimitOf(kind) /\ Total(s, Ever, kind) <= 2 * LimitOf(kind)
    <2> DEFINE f == Through(recent, s, kind)
    <2>1. f \in [Ever -> Nat] /\ Budget(counters, f, s, kind) /\ TableOK(counters)
      BY ThroughTyped DEF LimiterInv
    <2>2. now \in SUBSET Ever /\ Ever \in SUBSET Ever
      BY <1>1
    <2>3. Total(s, now, kind) = Sum(f, now) /\ Total(s, Ever, kind) = Sum(f, Ever)
      BY <2>2, TotalIsSum DEF LimiterInv
    <2> HIDE DEF f
    <2>4. Sum(f, now) <= LimitOf(kind) /\ Sum(f, Ever) <= 2 * LimitOf(kind)
      BY <1>1, <2>1, BudgetBounds
    <2> QED
      BY <2>3, <2>4
  <1> QED
    <2> SUFFICES ASSUME NEW s \in Sources \ forgiven
                 PROVE  LET now == {a \in Ever : \E i \in At(counters, s) : ~Expired(counters[i]) /\ a <= counters[i].age}
                        IN  /\ Total(s, now, "all") <= OverallLimit /\ Total(s, now, "mutating") <= MutatingLimit
                            /\ Total(s, Ever, "all") <= 2 * OverallLimit /\ Total(s, Ever, "mutating") <= 2 * MutatingLimit
      BY DEF WithinBudget, Ever
    <2> DEFINE now == {a \in Ever : \E i \in At(counters, s) : ~Expired(counters[i]) /\ a <= counters[i].age}
    <2>1. Total(s, now, "all") <= LimitOf("all") /\ Total(s, Ever, "all") <= 2 * LimitOf("all")
      BY <1>1 DEF Kinds
    <2>2. Total(s, now, "mutating") <= LimitOf("mutating") /\ Total(s, Ever, "mutating") <= 2 * LimitOf("mutating")
      BY <1>1 DEF Kinds
    <2>3. LimitOf("all") = OverallLimit /\ LimitOf("mutating") = MutatingLimit
      BY DEF LimitOf
    <2> QED
      BY <2>1, <2>2, <2>3

---------------------------------------------------------------------------
(* The steps of a caller: it sends a request, or moves the one it sent on.  *)

Addressed(request) == RequestFields \subseteq DOMAIN request /\ request.source \in Sources

Labels == {"idle", "verify", "handler", "write", "reread", "commit", "revoke", "done"}
Statuses == {0, 200, 400, 401, 403, 404, 409, 429, 500, 503}

CallTyped(c) ==
  /\ call[c].at \in Labels /\ call[c].status \in Statuses
  /\ call[c].status # 0 <=> call[c].at = "done"
  /\ call[c].at # "idle" => Addressed(call[c].request)

RowsTyped ==
  /\ DOMAIN keys \subseteq KeyIds
  /\ DOMAIN assets \subseteq DOMAIN FirstAssets \cup NewAssets

HostInv == LimiterInv /\ RowsTyped /\ \A c \in Callers : CallTyped(c)

Sends(c) == \E request, seen, wanted : Enter(c, request, seen, wanted) /\ Addressed(request)

\* From under way to the next label, the status given with the answer only
Proceeds(c) ==
  /\ call[c].at \notin {"idle", "done"} /\ call'[c].request = call[c].request
  /\ call'[c].at \in Labels \ {"idle"}
  /\ IF call'[c].at = "done" THEN call'[c].status \in Statuses \ {0} ELSE call'[c].status = call[c].status

LEMMA StatusesOfErrors ==
  ASSUME NEW error
  PROVE  statusOf(error) \in Statuses \ {0, 200, 429}
PROOF
  <1>0. "AssetNotFoundError" \notin DOMAIN ApiError
    BY DEF ApiError
  <1>1. CASE error \in DOMAIN ApiError
    <2>1. statusOf(error) = ApiError[error]
      BY <1>0, <1>1 DEF statusOf
    <2>2. \A e \in DOMAIN ApiError : ApiError[e] \in {400, 401, 403, 404, 409, 503}
      BY DEF ApiError
    <2>3. statusOf(error) \in {400, 401, 403, 404, 409, 503}
      BY <1>1, <2>1, <2>2
    <2> QED
      BY <2>3 DEF Statuses
  <1>2. CASE error \notin DOMAIN ApiError
    <2>1. statusOf(error) \in {404, 500}
      BY <1>2 DEF statusOf
    <2> QED
      BY <2>1 DEF Statuses
  <1> QED
    BY <1>1, <1>2

LEMMA AdvanceProceeds ==
  ASSUME CallsShaped, NEW c \in Callers, call[c].at \notin {"idle", "done"},
         \/ Onward(c)
         \/ \E scope : Advance(c, [at |-> "handler", scope |-> scope])
         \/ \E body, next, seen : Advance(c, [at |-> "done", status |-> 200, body |-> body, next |-> next, seen |-> seen])
  PROVE  Proceeds(c) /\ OnlyMoves(c)
PROOF
  <1>1. ASSUME NEW body, Answer(c, body) PROVE Proceeds(c) /\ OnlyMoves(c)
    BY <1>1 DEF Answer, Advance, Proceeds, OnlyMoves, CallsShaped, CallFields, Labels, Statuses
  <1>2. ASSUME NEW error, Throw(c, error) PROVE Proceeds(c) /\ OnlyMoves(c)
    <2>1. statusOf(error) \in Statuses \ {0}
      BY StatusesOfErrors
    <2> QED
      BY <1>2, <2>1 DEF Throw, Advance, Proceeds, OnlyMoves, CallsShaped, CallFields, Labels
  <1>3. ASSUME NEW label \in {"write", "reread", "commit", "revoke"}, Advance(c, [at |-> label])
        PROVE  Proceeds(c) /\ OnlyMoves(c)
    BY <1>3 DEF Advance, Proceeds, OnlyMoves, CallsShaped, CallFields, Labels
  <1>4. ASSUME NEW scope, Advance(c, [at |-> "handler", scope |-> scope])
        PROVE  Proceeds(c) /\ OnlyMoves(c)
    BY <1>4 DEF Advance, Proceeds, OnlyMoves, CallsShaped, CallFields, Labels
  <1>5. ASSUME NEW body, NEW next, NEW seen,
               Advance(c, [at |-> "done", status |-> 200, body |-> body, next |-> next, seen |-> seen])
        PROVE  Proceeds(c) /\ OnlyMoves(c)
    BY <1>5 DEF Advance, Proceeds, OnlyMoves, CallsShaped, CallFields, Labels, Statuses
  <1> QED
    BY <1>1, <1>2, <1>3, <1>4, <1>5 DEF Onward

LEMMA SendingMoves ==
  ASSUME CallsShaped, NEW c \in Callers, NEW STATE request, NEW STATE seen, NEW STATE wanted, Enter(c, request, seen, wanted), Addressed(request)
  PROVE  OnlyMoves(c) /\ Sends(c)
PROOF
  <1>1. OnlyMoves(c)
    BY DEF Enter, OnlyMoves, CallsShaped, CallFields
  <1>2. Sends(c)
    BY DEF Sends
  <1> QED
    BY <1>1, <1>2

LEMMA CallerSteps ==
  ASSUME TenancyInv, PagesInv, HostInv, NEW c \in Callers, CallerStep(c)
  PROVE  OnlyMoves(c) /\ (Sends(c) \/ (UNCHANGED limiter /\ Proceeds(c)))
PROOF
  <1>0. CallsShaped /\ ListingInv(c) /\ traffic \in Traffic /\ CallTyped(c)
    BY DEF TenancyInv, PagesInv, HostInv
  <1>1. CASE Arrive(c)
    <2>1. PICK request \in traffic.requests : \E wanted : Enter(c, request, <<>>, wanted)
      BY <1>1 DEF Arrive
    <2>2. Addressed(request)
      BY <1>0, RequestsSetOut DEF Addressed
    <2> QED
      BY <1>0, <2>1, <2>2, SendingMoves
  <1>2. CASE NextPage(c)
    <2> DEFINE request == [call[c].request EXCEPT !.cursor = call[c].next]
    <2>1. Enter(c, request, call[c].seen, call[c].wanted)
      BY <1>2 DEF NextPage
    <2>2. Addressed(call[c].request)
      BY <1>0, <1>2 DEF NextPage, CallTyped
    <2>3. Addressed(request)
      BY <2>2 DEF Addressed, RequestFields
    <2> HIDE DEF request
    <2> QED
      BY <1>0, <2>1, <2>3, SendingMoves
  <1>3. CASE Verify(c)
    <2>1. call[c].at \notin {"idle", "done"} /\ UNCHANGED limiter
      BY <1>3 DEF Verify
    <2>2. Onward(c) \/ \E scope : Advance(c, [at |-> "handler", scope |-> scope])
      BY <1>3 DEF Verify, Onward
    <2> QED
      BY <1>0, <2>1, <2>2, AdvanceProceeds
  <1>4. CASE List(c)
    <2>1. call[c].at \notin {"idle", "done"} /\ UNCHANGED limiter
      BY <1>4 DEF List, InHandler
    <2>2. \/ Onward(c)
          \/ \E body, next, seen : Advance(c, [at |-> "done", status |-> 200, body |-> body, next |-> next, seen |-> seen])
      <3> DEFINE read == page(call[c].scope, call[c].request.cursor, PageSize(call[c].request.limit) + 1)
                 shown == Newest(read, PageSize(call[c].request.limit))
                 next == IF Cardinality(read) > PageSize(call[c].request.limit) THEN Lowest(shown) ELSE 0
                 seen == Append(call[c].seen, shown)
      <3>1. Throw(c, "TypeError") \/ Advance(c, [at |-> "done", status |-> 200, body |-> shown, next |-> next, seen |-> seen])
        BY <1>4 DEF List
      <3> HIDE DEF read, shown, next, seen
      <3> QED
        BY <3>1, Zenon DEF Onward
    <2> QED
      BY <1>0, <2>1, <2>2, AdvanceProceeds
  <1>5. CASE ~(Arrive(c) \/ NextPage(c) \/ Verify(c) \/ List(c))
    <2>1. UNCHANGED limiter
      BY <1>5 DEF CallerStep, RefuseBody, Lookup, WriteAsset, Reread, CommitVersion, RefuseBytes, CreateAsset, CreateKey,
                  ListKeys, RevokeRead, RevokeWrite, WorkerCall, Health
    <2>2. Onward(c) /\ call[c].at \notin {"idle", "done"}
      BY <1>0, <1>5, OtherStepsGoOnward DEF CallerStep
    <2> QED
      BY <1>0, <2>1, <2>2, AdvanceProceeds
  <1> QED
    BY <1>1, <1>2, <1>3, <1>4, <1>5

\* Where a request is left by the guard, with a status if it ends there
LEMMA GuardTyped ==
  ASSUME NEW request
  PROVE  /\ AtGuard(request).at \in {"verify", "handler", "done"} /\ AtGuard(request).status \in Statuses
         /\ AtGuard(request).status # 0 <=> AtGuard(request).at = "done"
PROOF
  <1> DEFINE gate == AtGuard(request)
             passes == [at |-> "handler", status |-> 0]
             refused == [at |-> "done", status |-> statusOf("unauthorized")]
             looked == [at |-> "verify", status |-> 0]
  <1>1. statusOf("unauthorized") \in Statuses \ {0}
    BY StatusesOfErrors
  <1>2. gate \in {passes, refused, looked}
    <2> HIDE DEF passes, refused, looked
    <2>1. CASE ROUTES[request.route].guard = "public"
      BY <2>1 DEF AtGuard, passes, refused, looked
    <2>2. CASE ROUTES[request.route].guard = "worker"
      BY <2>2 DEF AtGuard, passes, refused, looked
    <2>3. CASE ROUTES[request.route].guard \notin {"public", "worker"}
      BY <2>3 DEF AtGuard, passes, refused, looked
    <2> QED
      BY <2>1, <2>2, <2>3
  <1> HIDE DEF gate
  <1>3. gate.at \in {"verify", "handler", "done"} /\ gate.status \in Statuses /\ (gate.status # 0 <=> gate.at = "done")
    BY <1>1, <1>2 DEF Statuses
  <1> QED
    BY <1>3 DEF gate

LEMMA SendingKeeps ==
  ASSUME CallsShaped, LimiterInv, NEW c \in Callers, Sends(c)
  PROVE  LimiterInv' /\ CallTyped(c)'
PROOF
  <1>1. PICK request, seen, wanted : Enter(c, request, seen, wanted) /\ Addressed(request)
    BY DEF Sends
  <1> DEFINE mutating == ROUTES[request.route].mutating
             refused == Refused(counters, request.source, mutating)
             gate == AtGuard(request)
  <1>2. Limit(request.source, mutating, ~refused) /\ request.source \in Sources
    BY <1>1 DEF Enter, Addressed
  <1>3. LimiterInv'
    <2> HIDE DEF mutating, refused
    <2>1. refused <=> Refused(counters, request.source, mutating)
      BY DEF refused
    <2> QED
      BY <1>2, <2>1, LimitKeepsBudgets
  <1>4. /\ call'[c].at = IF refused THEN "done" ELSE gate.at
        /\ call'[c].status = IF refused THEN 429 ELSE gate.status
        /\ call'[c].request = request
    <2> DEFINE at == IF refused THEN "done" ELSE gate.at
               status == IF refused THEN 429 ELSE gate.status
    <2>1. c \in DOMAIN call /\ call' = [call EXCEPT ![c] =
           [at |-> at, request |-> request, scope |-> "", known |-> revokedKeys, status |-> status, body |-> {},
            next |-> 0, seen |-> seen, wanted |-> wanted]]
      BY <1>1 DEF Enter, CallsShaped
    <2> HIDE DEF at, status
    <2>2. call'[c].at = at /\ call'[c].status = status /\ call'[c].request = request
      BY <2>1
    <2> QED
      BY <2>2 DEF at, status
  <1>5. /\ gate.at \in {"verify", "handler", "done"} /\ gate.status \in Statuses
        /\ gate.status # 0 <=> gate.at = "done"
    BY GuardTyped
  <1> HIDE DEF gate, refused
  <1>6. CallTyped(c)'
    BY <1>1, <1>4, <1>5 DEF CallTyped, Labels, Statuses
  <1> QED
    BY <1>3, <1>6

\* Keys are added one at a time.
LEMMA KeysTyped ==
  ASSUME NEW c \in Callers, CallerStep(c)
  PROVE  DOMAIN keys' = DOMAIN keys \/ \E k \in KeyIds : DOMAIN keys' = DOMAIN keys \cup {k}
PROOF
  <1>1. CASE CreateKey(c)
    <2>1. PICK k \in KeyIds \ DOMAIN keys :
            keys' = [j \in DOMAIN keys \cup {k} |->
                       IF j = k THEN [tenant |-> call[c].scope, permissions |-> call[c].request.permissions,
                                      revokedAt |-> Never, by |-> call[c].scope]
                       ELSE keys[j]]
      BY <1>1 DEF CreateKey
    <2>2. DOMAIN keys' = DOMAIN keys \cup {k}
      BY <2>1
    <2> QED
      BY <2>2
  <1>2. CASE RevokeWrite(c)
    BY <1>2 DEF RevokeWrite
  <1>3. CASE UNCHANGED keys
    BY <1>3
  <1> QED
    BY <1>1, <1>2, <1>3
    DEF CallerStep, Arrive, NextPage, Enter, Verify, RefuseBody, Lookup, WriteAsset, Reread, CommitVersion,
        RefuseBytes, CreateAsset, List, ListKeys, RevokeRead, WorkerCall, Health, rows

LEMMA HostInvInductive ==
  /\ Init => HostInv
  /\ TenancyInv /\ PagesInv /\ HostInv /\ [Next]_vars => HostInv'
PROOF
  <1>1. Init => HostInv
    <2> SUFFICES ASSUME ApiInit PROVE HostInv
      BY DEF Init
    <2>1. RowsTyped
      BY FirstKeysHaveIds DEF ApiInit, RowsTyped
    <2>2. \A c \in Callers : CallTyped(c)
      BY DEF ApiInit, CallTyped, Idle, Labels, Statuses
    <2> QED
      BY <2>1, <2>2, LimiterInvInit DEF HostInv
  <1>2. ASSUME TenancyInv, PagesInv, HostInv, [Next]_vars PROVE HostInv'
    <2>1. ASSUME NEW c \in Callers, CallerStep(c) PROVE HostInv'
      <3>1. OnlyMoves(c) /\ (Sends(c) \/ (UNCHANGED limiter /\ Proceeds(c)))
        BY <1>2, <2>1, CallerSteps
      <3>2. RowsTyped'
        <4>1. DOMAIN keys' = DOMAIN keys \/ \E k \in KeyIds : DOMAIN keys' = DOMAIN keys \cup {k}
          BY <2>1, KeysTyped
        <4>2. DOMAIN assets' = DOMAIN assets \/ \E a \in NewAssets : DOMAIN assets' = DOMAIN assets \cup {a}
          BY <1>2, <2>1, CallersOnlyAdd DEF AssetsGrow
        <4>3. DOMAIN keys' \subseteq KeyIds
          BY <1>2, <4>1 DEF RowsTyped, HostInv
        <4>4. DOMAIN assets' \subseteq DOMAIN FirstAssets \cup NewAssets
          BY <1>2, <4>2 DEF RowsTyped, HostInv
        <4> QED
          BY <4>3, <4>4 DEF RowsTyped
      <3>3. LimiterInv' /\ CallTyped(c)'
        <4>1. CASE Sends(c)
          BY <1>2, <4>1, SendingKeeps DEF HostInv, TenancyInv
        <4>2. CASE UNCHANGED limiter /\ Proceeds(c)
          <5>1. LimiterInv'
            BY <1>2, <4>2 DEF HostInv, LimiterInv, limiter
          <5>2. CallTyped(c)'
            BY <1>2, <4>2 DEF HostInv, CallTyped, Proceeds, Statuses
          <5> QED
            BY <5>1, <5>2
        <4> QED
          BY <3>1, <4>1, <4>2
      <3>4. \A d \in Callers : d # c => CallTyped(d)'
        BY <1>2, <3>1 DEF HostInv, CallTyped, OnlyMoves
      <3> QED
        BY <3>2, <3>3, <3>4 DEF HostInv
    <2>2. CASE Tick
      BY <1>2, <2>2, TickKeepsBudgets DEF Tick, ApiTick, rows, HostInv, RowsTyped, CallTyped
    <2>3. CASE UNCHANGED apiVars
      BY <1>2, <2>3 DEF apiVars, HostInv, LimiterInv, RowsTyped, CallTyped
    <2> QED
      BY <1>2, <2>1, <2>2, <2>3 DEF Next, vars, ApiNext
  <1> QED
    BY <1>1, <1>2

\* For every number of sources, window and limits, however requests and the clock
\* interleave and whichever sources the cap drops: a source whose window was not dropped
\* stays within its budget (rate-limit.middleware.ts use).
THEOREM WithinBudgetCorrect == Spec => []WithinBudget
PROOF
  <1>1. HostInv => WithinBudget
    BY BudgetsHold DEF HostInv
  <1> QED
    BY <1>1, TenancyInvInductive, PagesInvInductive, HostInvInductive, PTL DEF Spec

\* For every instance, everything on the host is of its type; in particular the limiter
\* never tracks a source twice, nor more sources than its cap (rate-limit.middleware.ts
\* evict).
THEOREM HostTypeOKCorrect == Spec => []HostTypeOK
PROOF
  <1>1. HostInv => ApiTypeOK
    <2> SUFFICES ASSUME HostInv PROVE ApiTypeOK
      OBVIOUS
    <2>1. \A i \in DOMAIN counters : counters[i] \in Counts
      BY DEF HostInv, LimiterInv, TableOK
    <2>2. Tracked(counters) \subseteq Sources
      BY <2>1 DEF Tracked, Counts
    <2>3. TableOK(counters) /\ RowsTyped /\ \A c \in Callers : CallTyped(c)
      BY DEF HostInv, LimiterInv
    <2>4. Len(counters) <= MaxTracked
      BY <2>3 DEF TableOK
    <2>5. \A i, j \in DOMAIN counters : counters[i].source = counters[j].source => i = j
      BY <2>3 DEF TableOK, OnePerSource
    <2>6. \A c \in Callers :
            /\ call[c].at \in {"idle", "verify", "handler", "write", "reread", "commit", "revoke", "done"}
            /\ call[c].status \in {0, 200, 400, 401, 403, 404, 409, 429, 500, 503}
            /\ (call[c].status # 0) <=> (call[c].at = "done")
      BY <2>3 DEF CallTyped, Labels, Statuses
    <2> QED
      BY <2>2, <2>3, <2>4, <2>5, <2>6 DEF ApiTypeOK, RowsTyped
  <1>2. LockInv => LockTypeOK
    BY DEF LockInv, LockTypeOK, LockRecords, RunRecords
  <1>3. Init => LockInv
    BY LockInvInit DEF Init
  <1>4. LockInv /\ [Next]_vars => LockInv'
    BY LockInvNext
  <1> QED
    BY <1>1, <1>2, <1>3, <1>4, TenancyInvInductive, PagesInvInductive, HostInvInductive, PTL DEF Spec, HostTypeOK

=============================================================================
