----------------------------- MODULE RateLimiter -----------------------------
(***************************************************************************)
(* The API's in-process rate limiter: a table of counters per source, in   *)
(* the insertion order of the Map that holds it, fixed windows and a cap   *)
(* on the number of sources tracked.  A window is known by its age, which  *)
(* the clock advances; ages from Window on are all alike.                  *)
(***************************************************************************)
EXTENDS Integers, Sequences, FiniteSets

CONSTANTS
  Window,           \* length of a window
  OverallLimit,     \* requests a source may make in a window
  MutatingLimit,    \* of which mutating
  MaxTracked        \* sources tracked at most

ASSUME LimitsAreNat == Window \in Nat \ {0} /\ OverallLimit \in Nat /\ MutatingLimit \in Nat
ASSUME TracksSomeone == MaxTracked \in Nat \ {0}

Counter(source) == [source |-> source, overall |-> 0, mutating |-> 0, age |-> 0]

Expired(counter) == counter.age >= Window
At(counters, source) == {i \in DOMAIN counters : counters[i].source = source}
Tracked(counters) == {counters[i].source : i \in DOMAIN counters}

\* The counters left when those of the indices in drop are deleted
Kept(counters, drop) ==
  LET stays == DOMAIN counters \ drop
      place(i) == Cardinality({j \in stays : j <= i})
  IN  [n \in 1..Cardinality(stays) |-> counters[CHOOSE i \in stays : place(i) = n]]

\* Expired windows go first; if that is not enough the oldest do, in insertion order
\* among equals.
evictExpired(counters) == Kept(counters, {i \in DOMAIN counters : Expired(counters[i])})
evict(counters) ==
  LET live == evictExpired(counters)
      before(i, j) == live[i].age > live[j].age \/ (live[i].age = live[j].age /\ i < j)
      excess == Len(live) - MaxTracked
      oldest == {j \in DOMAIN live : Cardinality({i \in DOMAIN live : before(i, j)}) < excess}
  IN  Kept(live, oldest)

\* The counter a request of the source is counted on, before it is counted
Current(counters, source) ==
  LET at == {i \in At(counters, source) : ~Expired(counters[i])}
  IN  IF at = {} THEN Counter(source) ELSE counters[CHOOSE i \in at : TRUE]

Counted(counter, mutating) ==
  [source |-> counter.source, overall |-> counter.overall + 1,
   mutating |-> counter.mutating + (IF mutating THEN 1 ELSE 0), age |-> counter.age]

\* The table after a request: a new source or a new window makes a new counter, and
\* only then is the size looked at.  Setting a key the Map has keeps its place.
Entered(counters, source) ==
  LET fresh == Counter(source)
      at == At(counters, source)
      set == IF at = {} THEN Append(counters, fresh)
             ELSE [i \in DOMAIN counters |-> IF i \in at THEN fresh ELSE counters[i]]
      known == \E i \in at : ~Expired(counters[i])
  IN  CASE known -> counters
        [] ~known /\ Len(set) > MaxTracked -> evict(set)
        [] OTHER -> set

Recorded(counters, source, mutating) ==
  LET entered == Entered(counters, source)
      counted == Counted(Current(counters, source), mutating)
  IN  [i \in DOMAIN entered |-> IF entered[i].source = source THEN counted ELSE entered[i]]

\* The comparison one request too late
overAfter(counter, mutating) ==
  counter.overall > OverallLimit + 1 \/ (mutating /\ counter.mutating > MutatingLimit + 1)

\* Counted first, judged after: a refused request counts as well.
over(counter, mutating) ==
  counter.overall > OverallLimit \/ (mutating /\ counter.mutating > MutatingLimit)

Refused(counters, source, mutating) ==
  over(Counted(Current(counters, source), mutating), mutating)

Older(counters) ==
  [i \in DOMAIN counters |->
     [counters[i] EXCEPT !.age = IF Expired(counters[i]) THEN @ ELSE @ + 1]]
=============================================================================
