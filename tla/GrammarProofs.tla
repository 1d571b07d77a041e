---------------------------- MODULE GrammarProofs ----------------------------
(***************************************************************************)
(* The functions that make a derivative's name.  The edge and the core,    *)
(* written twice, give every query the same name or the same refusal, and  *)
(* every name the core writes reads back as the spec it was written for.   *)
(***************************************************************************)
EXTENDS Delivery, CountingLemmas, SequenceTheorems, TLAPS

---------------------------------------------------------------------------
(* Edge and core.  The edge works with other fractions of the same value, in *)
(* another order.  Exact arithmetic: fractions that are equal are rounded    *)
(* alike.                                                                    *)

Fraction == Nat \X (Nat \ {0})

LEMMA QuotientIs ==
  ASSUME NEW n \in Nat, NEW d \in Nat \ {0}, NEW q \in Int, d * q <= n, n < d * q + d
  PROVE  n \div d = q
PROOF
  <1> DEFINE p == n \div d
  <1>1. p \in Nat /\ d * p <= n /\ n < d * p + d
    OBVIOUS
  <1> HIDE DEF p
  <1>2. d * p < d * (q + 1) /\ d * q < d * (p + 1)
    BY <1>1
  <1>3. p < q + 1 /\ q < p + 1
    BY <1>1, <1>2
  <1>4. p = q
    BY <1>1, <1>3
  <1> QED
    BY <1>4 DEF p

\* The two are the same number.
Same(r, s) == r[1] * s[2] = s[1] * r[2]

\* A bound on one is a bound on the other.
LEMMA SameBounds ==
  ASSUME NEW r \in Fraction, NEW s \in Fraction, Same(r, s), NEW a \in Nat, NEW b \in Nat, a * r[1] <= b * r[2]
  PROVE  a * s[1] <= b * s[2]
PROOF
  <1> DEFINE r1 == r[1]
             r2 == r[2]
             s1 == s[1]
             s2 == s[2]
  <1>1. r1 \in Nat /\ s1 \in Nat /\ r2 \in Nat \ {0} /\ s2 \in Nat \ {0}
    BY DEF Fraction
  <1>2. r1 * s2 = s1 * r2 /\ a * r1 <= b * r2
    BY DEF Same
  <1> HIDE DEF r1, r2, s1, s2
  <1>3. (a * r1) * s2 <= (b * r2) * s2
    BY <1>1, <1>2
  <1>4. (a * r1) * s2 = (a * s1) * r2
    BY <1>1, <1>2
  <1>5. (a * s1) * r2 <= (b * s2) * r2
    BY <1>1, <1>3, <1>4
  <1>6. a * s1 <= b * s2
    BY <1>1, <1>5
  <1> QED
    BY <1>6 DEF s1, s2

\* Rounded up, and to the nearest with ties going up
LEMMA CeilingsAgree ==
  ASSUME NEW r \in Fraction, NEW s \in Fraction, Same(r, s)
  PROVE  Ceiling(r[1], r[2]) = Ceiling(s[1], s[2]) /\ Ceiling(r[1], r[2]) \in Nat
PROOF
  <1> DEFINE a == r[1]
             d == r[2]
             b == s[1]
             e == s[2]
             q == Ceiling(a, d)
  <1>0. a \in Nat /\ b \in Nat /\ d \in Nat \ {0} /\ e \in Nat \ {0} /\ a * e = b * d
    BY DEF Same, Fraction
  <1> HIDE DEF a, b, d, e
  <1>1. q \in Nat /\ d * q <= a + d - 1 /\ a + d - 1 < d * q + d
    BY <1>0 DEF Ceiling
  <1>2. Ceiling(b, e) = (b + e - 1) \div e
    BY DEF Ceiling
  <1> HIDE DEF q
  <1>3. a <= d * q /\ d * q < a + d
    BY <1>0, <1>1
  <1>4. a * e <= (d * q) * e /\ (d * q) * e < (a + d) * e
    BY <1>0, <1>1, <1>3
  <1>5. b * d <= (e * q) * d /\ (e * q) * d < (b + e) * d
    <2>1. (d * q) * e = (e * q) * d /\ (a + d) * e = (b + e) * d
      BY <1>0, <1>1
    <2> QED
      BY <1>0, <1>4, <2>1
  <1>6. b <= e * q /\ e * q < b + e
    BY <1>0, <1>1, <1>5
  <1>7. (b + e - 1) \div e = q
    <2>1. b + e - 1 \in Nat /\ e * q <= b + e - 1 /\ b + e - 1 < e * q + e
      BY <1>0, <1>1, <1>6
    <2> QED
      BY <1>0, <1>1, <2>1, QuotientIs
  <1> QED
    BY <1>1, <1>2, <1>7 DEF q, a, b, d, e

\* ... and rounded to the nearest alike.
LEMMA RoundsAgree ==
  ASSUME NEW r \in Fraction, NEW s \in Fraction, Same(r, s)
  PROVE  Round(r[1], r[2]) = Round(s[1], s[2]) /\ Round(r[1], r[2]) \in Nat
PROOF
  <1> DEFINE a == r[1]
             d == r[2]
             b == s[1]
             e == s[2]
             q == Round(a, d)
  <1>0. a \in Nat /\ b \in Nat /\ d \in Nat \ {0} /\ e \in Nat \ {0} /\ a * e = b * d
    BY DEF Same, Fraction
  <1> HIDE DEF a, b, d, e
  <1>1. q \in Nat /\ (2 * d) * q <= 2 * a + d /\ 2 * a + d < (2 * d) * q + 2 * d
    <2>1. \A n \in Nat, k \in Nat \ {0} : n \div k \in Nat /\ k * (n \div k) <= n /\ n < k * (n \div k) + k
      OBVIOUS
    <2>2. 2 * a + d \in Nat /\ 2 * d \in Nat \ {0} /\ q = (2 * a + d) \div (2 * d)
      BY <1>0 DEF Round
    <2> QED
      BY <2>1, <2>2
  <1>2. Round(b, e) = (2 * b + e) \div (2 * e)
    BY DEF Round
  <1> HIDE DEF q
  <1>4. ((2 * d) * q) * e <= (2 * a + d) * e /\ (2 * a + d) * e < ((2 * d) * q + 2 * d) * e
    BY <1>0, <1>1
  <1>5. ((2 * e) * q) * d <= (2 * b + e) * d /\ (2 * b + e) * d < ((2 * e) * q + 2 * e) * d
    <2>1. /\ ((2 * d) * q) * e = ((2 * e) * q) * d
          /\ (2 * a + d) * e = (2 * b + e) * d
          /\ ((2 * d) * q + 2 * d) * e = ((2 * e) * q + 2 * e) * d
      BY <1>0, <1>1
    <2> QED
      BY <1>0, <1>4, <2>1
  <1>6. (2 * e) * q <= 2 * b + e /\ 2 * b + e < (2 * e) * q + 2 * e
    BY <1>0, <1>1, <1>5
  <1>7. (2 * b + e) \div (2 * e) = q
    <2>1. 2 * b + e \in Nat /\ 2 * e \in Nat \ {0}
      BY <1>0
    <2> QED
      BY <1>0, <1>1, <1>6, <2>1, QuotientIs
  <1> QED
    BY <1>1, <1>2, <1>7 DEF q, a, b, d, e

---------------------------------------------------------------------------
(* The tables the edge takes from the core are the core's. *)

LEMMA SharedTables ==
  /\ Edge!Core!LADDER = LADDER /\ Edge!Core!MAX_LADDER_WIDTH = MAX_LADDER_WIDTH
  /\ Edge!Core!RATIOS = RATIOS
  /\ Edge!Core!BLUR_LEVELS = BLUR_LEVELS /\ Edge!Core!SHARPEN_LEVELS = SHARPEN_LEVELS
  /\ Edge!Core!QUALITY_LEVELS = QUALITY_LEVELS /\ Edge!Core!DEFAULT_QUALITY = DEFAULT_QUALITY
  /\ Edge!Core!FIT_MODES = FIT_MODES /\ Edge!Core!DEFAULT_FIT = DEFAULT_FIT
  /\ Edge!Core!CROP_GRAVITIES = CROP_GRAVITIES /\ Edge!Core!DEFAULT_GRAVITY = DEFAULT_GRAVITY
  /\ Edge!Core!REQUESTED_FORMATS = REQUESTED_FORMATS /\ Edge!Core!FORMAT_EXTENSIONS = FORMAT_EXTENSIONS
PROOF
  <1>1. /\ Edge!Core!LADDER = LADDER /\ Edge!Core!MAX_LADDER_WIDTH = MAX_LADDER_WIDTH
        /\ Edge!Core!RATIOS = RATIOS
    BY DEF Edge!Core!LADDER, LADDER, ICON_WIDTHS, DEVICE_WIDTHS, Edge!Core!ICON_WIDTHS, Edge!Core!DEVICE_WIDTHS,
           Edge!Core!MAX_LADDER_WIDTH, MAX_LADDER_WIDTH, Edge!Core!RATIOS, RATIOS
  <1>2. /\ Edge!Core!BLUR_LEVELS = BLUR_LEVELS /\ Edge!Core!SHARPEN_LEVELS = SHARPEN_LEVELS
        /\ Edge!Core!QUALITY_LEVELS = QUALITY_LEVELS /\ Edge!Core!DEFAULT_QUALITY = DEFAULT_QUALITY
    BY DEF Edge!Core!BLUR_LEVELS, BLUR_LEVELS, Edge!Core!SHARPEN_LEVELS, SHARPEN_LEVELS,
           Edge!Core!QUALITY_LEVELS, QUALITY_LEVELS, Edge!Core!DEFAULT_QUALITY, DEFAULT_QUALITY
  <1>3. /\ Edge!Core!FIT_MODES = FIT_MODES /\ Edge!Core!DEFAULT_FIT = DEFAULT_FIT
        /\ Edge!Core!CROP_GRAVITIES = CROP_GRAVITIES /\ Edge!Core!DEFAULT_GRAVITY = DEFAULT_GRAVITY
    BY DEF Edge!Core!FIT_MODES, FIT_MODES, Edge!Core!DEFAULT_FIT, DEFAULT_FIT,
           Edge!Core!CROP_GRAVITIES, CROP_GRAVITIES, Edge!Core!DEFAULT_GRAVITY, DEFAULT_GRAVITY
  <1>4. Edge!Core!REQUESTED_FORMATS = REQUESTED_FORMATS /\ Edge!Core!FORMAT_EXTENSIONS = FORMAT_EXTENSIONS
    BY DEF Edge!Core!REQUESTED_FORMATS, REQUESTED_FORMATS, Edge!Core!OUTPUT_FORMATS, OUTPUT_FORMATS,
           Edge!Core!FORMAT_EXTENSIONS, FORMAT_EXTENSIONS
  <1> QED
    BY <1>1, <1>2, <1>3, <1>4

LEMMA SharedArithmetic ==
  /\ \A n, d : Edge!Core!Ceiling(n, d) = Ceiling(n, d) /\ Edge!Core!Round(n, d) = Round(n, d)
  /\ \A a, b : Edge!Core!Distance(a, b) = Distance(a, b)
  /\ \A s : Edge!Core!lower(s) = lower(s)
  BY DEF Edge!Core!Ceiling, Ceiling, Edge!Core!Round, Round, Edge!Core!Distance, Distance,
         Edge!Core!lower, lower, Edge!Core!Lower, Lower

\* Each has its own overlays, which are the same.
LEMMA SharedOverlays ==
  /\ \A f, g : Edge!++(f, g) = f ++ g
  /\ \A n, p, v : Edge!Field(n, p, v) = Field(n, p, v)
PROOF
  <1>1. ASSUME NEW f, NEW g PROVE Edge!++(f, g) = f ++ g
    <2>1. f ++ g = Overlay(f, g)
      BY DEF ++
    <2>2. Edge!++(f, g) = Edge!Overlay(f, g)
      BY DEF Edge!++
    <2>3. Edge!Overlay(f, g) = Overlay(f, g)
      BY DEF Overlay, Edge!Overlay
    <2> QED
      BY <2>1, <2>2, <2>3, Zenon
  <1>2. \A n, p, v : Edge!Field(n, p, v) = Field(n, p, v)
    BY DEF Field, Edge!Field
  <1> QED
    BY <1>1, <1>2, Zenon

---------------------------------------------------------------------------
(* Quantizers.  A least one is unique, however it is asked for. *)

LEMMA LeastIs ==
  ASSUME NEW S, S \subseteq Nat, NEW x \in S, \A y \in S : x <= y
  PROVE  Least(S) = x
PROOF
  <1> DEFINE l == Least(S)
  <1>1. l \in S /\ \A y \in S : l <= y
    BY DEF Least
  <1> HIDE DEF l
  <1>2. l = x
    <2>1. l \in Int /\ x \in Int /\ l <= x /\ x <= l
      BY <1>1
    <2> QED
      BY <2>1
  <1> QED
    BY <1>2 DEF l

LEMMA LadderIsNat == LADDER \subseteq Nat /\ MAX_LADDER_WIDTH \in LADDER
  BY DEF LADDER, ICON_WIDTHS, DEVICE_WIDTHS, MAX_LADDER_WIDTH

\* The first rung above is the same one, whether it is searched for or the least of a set.
LEMMA SnapsAgree ==
  ASSUME NEW width \in Nat
  PROVE  Edge!snapUp(width) = snapUp(width) /\ snapUp(width) \in LADDER
PROOF
  <1> DEFINE rungs == {r \in LADDER : r >= width}
  <1>1. CASE rungs = {}
    BY <1>1, SharedTables, LadderIsNat DEF snapUp, Edge!snapUp
  <1>2. CASE rungs # {}
    <2>1. rungs \subseteq Nat
      BY LadderIsNat
    <2>2. PICK x \in rungs : \A y \in rungs : x <= y
      <3> HIDE DEF rungs
      <3> QED
        BY <1>2, <2>1, LeastNatural
    <2>3. snapUp(width) = x
      <3>1. Least(rungs) = x
        <4> HIDE DEF rungs
        <4> QED
          BY <2>1, <2>2, LeastIs
      <3> QED
        BY <1>2, <3>1 DEF snapUp
    <2>4. Edge!snapUp(width) = x
      <3> DEFINE first(r) == r >= width /\ \A s \in LADDER : s >= width => r <= s
                 e == CHOOSE r \in LADDER : first(r)
      <3>1. x \in LADDER /\ first(x)
        BY <2>2
      <3>2. e \in LADDER /\ first(e)
        BY <3>1
      <3>3. e <= x /\ x <= e
        BY <3>1, <3>2
      <3>4. Edge!snapUp(width) = e
        BY <3>1, SharedTables DEF Edge!snapUp
      <3>5. e \in Nat /\ x \in Nat
        BY <3>1, <3>2, LadderIsNat
      <3> HIDE DEF e
      <3> QED
        BY <3>3, <3>4, <3>5
    <2> QED
      BY <2>2, <2>3, <2>4
  <1> QED
    BY <1>1, <1>2

\* The first of the closest levels, and the only one where a level is hit.
LEMMA NearestAgree ==
  ASSUME NEW levels, levels \subseteq Nat, levels # {}, NEW r \in Fraction
  PROVE  /\ Edge!nearest(levels, r) = nearest(levels, r)
         /\ nearest(levels, r) \in levels
         /\ \A level \in levels : r[1] = level * r[2] => nearest(levels, r) = level
PROOF
  <1> DEFINE off(l) == Distance(r[1], l * r[2])
             offs == {off(l) : l \in levels}
             closest == {l \in levels : \A k \in levels : off(l) <= off(k)}
  <1>0. r[1] \in Nat /\ r[2] \in Nat \ {0}
    BY DEF Fraction
  <1>1. \A l \in levels : off(l) \in Nat
    <2> SUFFICES ASSUME NEW l \in levels PROVE off(l) \in Nat
      OBVIOUS
    <2>1. l * r[2] \in Nat
      BY <1>0
    <2> QED
      BY <1>0, <2>1 DEF Distance
  <1>2. PICK l0 \in levels : \A k \in levels : off(l0) <= off(k)
    <2>1. offs \subseteq Nat /\ offs # {}
      BY <1>1
    <2>2. PICK n \in offs : \A m \in offs : n <= m
      <3> HIDE DEF offs
      <3> QED
        BY <2>1, LeastNatural
    <2> QED
      BY <2>2
  <1>3. closest \subseteq Nat /\ closest # {}
    BY <1>2
  <1>4. PICK x \in closest : \A y \in closest : x <= y
    <2> HIDE DEF closest
    <2> QED
      BY <1>3, LeastNatural
  <1>5. nearest(levels, r) = x
    <2>1. Least(closest) = x
      <3> HIDE DEF closest
      <3> QED
        BY <1>3, <1>4, LeastIs
    <2> QED
      BY <2>1 DEF nearest
  <1>6. Edge!nearest(levels, r) = x
    <2> HIDE DEF off
    <2> DEFINE first(l) == \A k \in levels : off(l) < off(k) \/ (off(l) = off(k) /\ l <= k)
               e == CHOOSE l \in levels : first(l)
    <2>1. x \in levels /\ first(x)
      <3> SUFFICES ASSUME NEW k \in levels PROVE off(x) < off(k) \/ (off(x) = off(k) /\ x <= k)
        OBVIOUS
      <3>1. off(x) \in Nat /\ off(k) \in Nat /\ off(x) <= off(k)
        BY <1>1
      <3>2. CASE off(x) = off(k)
        <4>1. k \in closest
          BY <3>2
        <4> QED
          BY <1>4, <3>2, <4>1
      <3> QED
        BY <3>1, <3>2
    <2>2. e \in levels /\ first(e)
      BY <2>1
    <2>3. e <= x /\ x <= e
      <3>1. off(e) \in Nat /\ off(x) \in Nat
        BY <1>1, <2>1, <2>2
      <3>2. off(e) < off(x) \/ (off(e) = off(x) /\ e <= x)
        BY <2>1, <2>2
      <3>3. off(x) < off(e) \/ (off(e) = off(x) /\ x <= e)
        BY <2>1, <2>2
      <3> QED
        BY <3>1, <3>2, <3>3
    <2>4. Edge!nearest(levels, r) = e
      BY SharedArithmetic DEF Edge!nearest, off
    <2>5. e \in Nat /\ x \in Nat
      BY <2>1, <2>2
    <2> HIDE DEF e
    <2> QED
      BY <2>3, <2>4, <2>5
  <1>7. ASSUME NEW level \in levels, r[1] = level * r[2] PROVE x = level
    <2>1. off(level) = 0
      <3>1. level * r[2] \in Nat
        BY <1>0
      <3> QED
        BY <1>0, <1>7, <3>1 DEF Distance
    <2>2. off(x) = 0
      <3> HIDE DEF off
      <3>1. off(x) <= off(level) /\ off(x) \in Nat
        BY <1>1, <1>4
      <3> QED
        BY <2>1, <3>1
    <2>3. x * r[2] = level * r[2]
      <3>1. x * r[2] \in Nat /\ level * r[2] \in Nat
        BY <1>0, <1>4
      <3> QED
        BY <1>7, <2>2, <3>1 DEF Distance
    <2> QED
      BY <1>0, <2>3
  <1> QED
    BY <1>4, <1>5, <1>6, <1>7

\* A quality at or beyond a bound is the bound: whether the bound itself is clamped shows nowhere.
LEMMA QualitiesAgree ==
  ASSUME NEW r \in Fraction
  PROVE  Edge!quantizeQuality(r) = quantizeQuality(r) /\ quantizeQuality(r) \in QUALITY_LEVELS
PROOF
  <1>0. r[1] \in Nat /\ r[2] \in Nat \ {0} /\ 50 * r[2] \in Nat /\ 95 * r[2] \in Nat
    BY DEF Fraction
  <1>1. /\ QUALITY_LEVELS \subseteq Nat /\ 50 \in QUALITY_LEVELS /\ 95 \in QUALITY_LEVELS
        /\ <<50, 1>> \in Fraction /\ <<95, 1>> \in Fraction
    BY DEF QUALITY_LEVELS, Fraction
  <1>2. Edge!quantizeQuality(r) =
          nearest(QUALITY_LEVELS, IF r[1] < 50 * r[2] THEN <<50, 1>> ELSE IF r[1] > 95 * r[2] THEN <<95, 1>> ELSE r)
    <2>1. Edge!quantizeQuality(r) =
            Edge!nearest(QUALITY_LEVELS, IF r[1] < 50 * r[2] THEN <<50, 1>> ELSE IF r[1] > 95 * r[2] THEN <<95, 1>> ELSE r)
      BY <1>0, SharedTables DEF Edge!quantizeQuality
    <2> QED
      BY <1>1, <2>1, NearestAgree
  <1>3. quantizeQuality(r) =
          nearest(QUALITY_LEVELS, IF r[1] <= 50 * r[2] THEN <<50, 1>> ELSE IF 95 * r[2] <= r[1] THEN <<95, 1>> ELSE r)
    BY <1>0 DEF quantizeQuality, AtMost, Num
  <1>4. nearest(QUALITY_LEVELS, <<50, 1>>) = 50 /\ nearest(QUALITY_LEVELS, <<95, 1>>) = 95
    <2>1. \A level \in QUALITY_LEVELS : \A q \in Fraction : q[1] = level * q[2] => nearest(QUALITY_LEVELS, q) = level
      BY <1>1, NearestAgree
    <2>2. <<50, 1>>[1] = 50 * <<50, 1>>[2] /\ <<95, 1>>[1] = 95 * <<95, 1>>[2]
      OBVIOUS
    <2> QED
      BY <1>1, <2>1, <2>2
  <1>5. /\ r[1] = 50 * r[2] => nearest(QUALITY_LEVELS, r) = 50
        /\ r[1] = 95 * r[2] => nearest(QUALITY_LEVELS, r) = 95
        /\ nearest(QUALITY_LEVELS, r) \in QUALITY_LEVELS
    BY <1>1, NearestAgree
  <1>6. CASE r[1] < 50 * r[2]
    BY <1>0, <1>1, <1>2, <1>3, <1>4, <1>6
  <1>7. CASE r[1] = 50 * r[2]
    <2>1. ~(r[1] > 95 * r[2])
      BY <1>0, <1>7
    <2> QED
      BY <1>0, <1>1, <1>2, <1>3, <1>4, <1>5, <1>7, <2>1
  <1>8. CASE r[1] > 50 * r[2] /\ r[1] < 95 * r[2]
    BY <1>0, <1>1, <1>2, <1>3, <1>5, <1>8
  <1>9. CASE r[1] > 50 * r[2] /\ r[1] >= 95 * r[2]
    BY <1>0, <1>1, <1>2, <1>3, <1>4, <1>5, <1>9
  <1> QED
    BY <1>0, <1>6, <1>7, <1>8, <1>9

\* The two floors differ in how they write one.
LEMMA FloorsAgree ==
  ASSUME NEW r \in Fraction
  PROVE  /\ floor1(r) \in Fraction /\ Edge!atLeastOne(r) \in Fraction /\ Same(floor1(r), Edge!atLeastOne(r))
         /\ floor1(r)[1] # 0 /\ Edge!atLeastOne(r)[1] # 0
  BY DEF Fraction, floor1, Edge!atLeastOne, Same, AtMost, Num

LEMMA ProductsAgree ==
  ASSUME NEW r \in Fraction, NEW s \in Fraction, Same(r, s), NEW d \in Fraction, NEW e \in Fraction, Same(d, e)
  PROVE  /\ <<r[1] * d[1], r[2] * d[2]>> \in Fraction /\ <<s[1] * e[1], s[2] * e[2]>> \in Fraction
         /\ Same(<<r[1] * d[1], r[2] * d[2]>>, <<s[1] * e[1], s[2] * e[2]>>)
PROOF
  <1>1. ASSUME NEW a \in Nat, NEW b \in Nat \ {0}, NEW p \in Nat, NEW q \in Nat \ {0}, a * q = p * b,
               NEW f \in Nat, NEW g \in Nat \ {0}, NEW h \in Nat, NEW i \in Nat \ {0}, f * i = h * g
        PROVE  a * f \in Nat /\ b * g \in Nat \ {0} /\ (a * f) * (q * i) = (p * h) * (b * g)
    <2>1. (a * f) * (q * i) = (a * q) * (f * i) /\ (p * h) * (b * g) = (p * b) * (h * g)
      BY <1>1
    <2>2. a * f \in Nat /\ b * g \in Nat \ {0}
      BY <1>1
    <2> QED
      BY <1>1, <2>1, <2>2
  <1> DEFINE a == r[1]
             b == r[2]
             p == s[1]
             q == s[2]
             f == d[1]
             g == d[2]
             h == e[1]
             i == e[2]
  <1>2. /\ a \in Nat /\ p \in Nat /\ f \in Nat /\ h \in Nat
        /\ b \in Nat \ {0} /\ q \in Nat \ {0} /\ g \in Nat \ {0} /\ i \in Nat \ {0}
        /\ a * q = p * b /\ f * i = h * g
    BY DEF Fraction, Same
  <1> HIDE DEF a, b, p, q, f, g, h, i
  <1>3. /\ a * f \in Nat /\ b * g \in Nat \ {0} /\ p * h \in Nat /\ q * i \in Nat \ {0}
        /\ (a * f) * (q * i) = (p * h) * (b * g)
    BY <1>1, <1>2
  <1>4. <<a * f, b * g>> \in Fraction /\ <<p * h, q * i>> \in Fraction /\ Same(<<a * f, b * g>>, <<p * h, q * i>>)
    BY <1>3 DEF Fraction, Same
  <1> QED
    BY <1>4 DEF a, b, p, q, f, g, h, i

\* A width times a density: the same rung, whichever multiplies which fraction.
LEMMA WidthsAgree ==
  ASSUME NEW r \in Fraction, NEW d \in Fraction, NEW e \in Fraction, Same(d, e)
  PROVE  Edge!snapWidth(r, e) = snapWidth(r, d, 0) /\ snapWidth(r, d, 0) \in LADDER
PROOF
  <1> DEFINE w == floor1(r)
             x == Edge!atLeastOne(r)
             n == Ceiling(w[1] * d[1], w[2] * d[2])
  <1>1. w \in Fraction /\ x \in Fraction /\ Same(w, x)
    BY FloorsAgree
  <1> HIDE DEF w, x
  <1>2. n = Ceiling(x[1] * e[1], x[2] * e[2]) /\ n \in Nat
    <2> DEFINE s == <<w[1] * d[1], w[2] * d[2]>>
               t == <<x[1] * e[1], x[2] * e[2]>>
    <2>1. s \in Fraction /\ t \in Fraction /\ Same(s, t)
      BY <1>1, ProductsAgree
    <2>2. s[1] = w[1] * d[1] /\ s[2] = w[2] * d[2] /\ t[1] = x[1] * e[1] /\ t[2] = x[2] * e[2]
      OBVIOUS
    <2> HIDE DEF s, t
    <2>3. Ceiling(s[1], s[2]) = Ceiling(t[1], t[2]) /\ Ceiling(s[1], s[2]) \in Nat
      BY <2>1, CeilingsAgree
    <2> QED
      BY <2>2, <2>3
  <1> DEFINE m == IF n <= MAX_LADDER_WIDTH THEN n ELSE MAX_LADDER_WIDTH
  <1>3. m \in Nat /\ m = (IF n > MAX_LADDER_WIDTH THEN MAX_LADDER_WIDTH ELSE n)
    BY <1>2 DEF MAX_LADDER_WIDTH
  <1>4. snapWidth(r, d, 0) = snapUp(m)
    BY DEF snapWidth, MinOf, w
  <1>5. Edge!snapWidth(r, e) = Edge!snapUp(IF n > MAX_LADDER_WIDTH THEN MAX_LADDER_WIDTH ELSE n)
    BY <1>2, SharedTables, SharedArithmetic DEF Edge!snapWidth, x
  <1> HIDE DEF m
  <1> QED
    BY <1>3, <1>4, <1>5, SnapsAgree

---------------------------------------------------------------------------
(* Ratios.  No two of the listed ones are near the same ratio, so it does    *)
(* not matter how the nearest is asked for.                                  *)

LEMMA SameBoundsBelow ==
  ASSUME NEW r \in Fraction, NEW s \in Fraction, Same(r, s), NEW a \in Nat, NEW b \in Nat, b * r[2] <= a * r[1]
  PROVE  b * s[2] <= a * s[1]
PROOF
  <1> DEFINE r1 == r[1]
             r2 == r[2]
             s1 == s[1]
             s2 == s[2]
  <1>1. r1 \in Nat /\ s1 \in Nat /\ r2 \in Nat \ {0} /\ s2 \in Nat \ {0}
    BY DEF Fraction
  <1>2. r1 * s2 = s1 * r2 /\ b * r2 <= a * r1
    BY DEF Same
  <1> HIDE DEF r1, r2, s1, s2
  <1>3. (b * r2) * s2 <= (a * r1) * s2
    BY <1>1, <1>2
  <1>4. (a * r1) * s2 = (a * s1) * r2
    BY <1>1, <1>2
  <1>5. (b * s2) * r2 <= (a * s1) * r2
    BY <1>1, <1>3, <1>4
  <1>6. b * s2 <= a * s1
    BY <1>1, <1>5
  <1> QED
    BY <1>6 DEF s1, s2

LEMMA RatiosAreFractions ==
  RATIOS \subseteq Fraction /\ \A c \in RATIOS : c[1] \in Nat \ {0} /\ c[2] \in Nat \ {0}
  BY DEF RATIOS, Fraction

Near(r, c) == Off(r, c) * 100 <= (3 * r[2]) * c[1]

LEMMA NearBounds ==
  ASSUME NEW r \in Fraction, NEW c \in RATIOS
  PROVE  /\ Near(r, c) <=> /\ (97 * c[1]) * r[2] <= (100 * c[2]) * r[1]
                           /\ (100 * c[2]) * r[1] <= (103 * c[1]) * r[2]
         /\ Off(r, c) \in Nat
PROOF
  <1> DEFINE P == r[1] * c[2]
             Q == c[1] * r[2]
  <1>0. r[1] \in Nat /\ r[2] \in Nat \ {0} /\ c[1] \in Nat \ {0} /\ c[2] \in Nat \ {0}
    BY RatiosAreFractions DEF Fraction
  <1>1. P \in Nat /\ Q \in Nat
    BY <1>0
  <1>2. /\ (97 * c[1]) * r[2] = 97 * Q /\ (103 * c[1]) * r[2] = 103 * Q
        /\ (100 * c[2]) * r[1] = 100 * P /\ (3 * r[2]) * c[1] = 3 * Q
    BY <1>0
  <1>3. Off(r, c) = IF P <= Q THEN Q - P ELSE P - Q
    BY DEF Off, Distance
  <1> HIDE DEF P, Q
  <1> QED
    BY <1>1, <1>2, <1>3 DEF Near

\* Being near a listed ratio is a property of the number, not of the fraction.
LEMMA NearTransfers ==
  ASSUME NEW r \in Fraction, NEW s \in Fraction, Same(r, s), NEW c \in RATIOS, Near(r, c)
  PROVE  Near(s, c)
PROOF
  <1> DEFINE a == 100 * c[2]
             b == 97 * c[1]
             d == 103 * c[1]
  <1>1. a \in Nat /\ b \in Nat /\ d \in Nat
    BY RatiosAreFractions
  <1>2. b * r[2] <= a * r[1] /\ a * r[1] <= d * r[2]
    BY NearBounds
  <1> HIDE DEF a, b, d
  <1>3. b * s[2] <= a * s[1] /\ a * s[1] <= d * s[2]
    BY <1>1, <1>2, SameBounds, SameBoundsBelow
  <1> QED
    BY <1>3, NearBounds DEF a, b, d

LEMMA RatiosApart ==
  \A c, d \in RATIOS :
    97 * (c[1] * d[2]) <= 103 * (d[1] * c[2]) /\ 97 * (d[1] * c[2]) <= 103 * (c[1] * d[2]) => c = d
  BY DEF RATIOS

LEMMA OneRatioNear ==
  ASSUME NEW r \in Fraction, NEW c \in RATIOS, NEW d \in RATIOS, Near(r, c), Near(r, d)
  PROVE  c = d
PROOF
  <1>1. ASSUME NEW x \in Nat, NEW y \in Nat \ {0}, NEW e \in Nat \ {0}, NEW f \in Nat \ {0},
               NEW g \in Nat \ {0}, NEW h \in Nat \ {0},
               (97 * e) * y <= (100 * f) * x, (100 * h) * x <= (103 * g) * y
        PROVE  97 * (e * h) <= 103 * (g * f)
    <2>1. ((97 * e) * y) * h <= ((100 * f) * x) * h /\ ((100 * h) * x) * f <= ((103 * g) * y) * f
      BY <1>1
    <2>2. ((100 * f) * x) * h = ((100 * h) * x) * f
      BY <1>1
    <2>3. ((97 * e) * y) * h = (97 * (e * h)) * y /\ ((103 * g) * y) * f = (103 * (g * f)) * y
      BY <1>1
    <2>4. 97 * (e * h) \in Nat /\ 103 * (g * f) \in Nat /\ ((100 * f) * x) * h \in Nat
      BY <1>1
    <2>5. (97 * (e * h)) * y <= (103 * (g * f)) * y
      BY <2>1, <2>2, <2>3, <2>4, <1>1
    <2> DEFINE m == 97 * (e * h)
               n == 103 * (g * f)
    <2>6. m \in Nat /\ n \in Nat /\ m * y <= n * y
      BY <2>4, <2>5
    <2> HIDE DEF m, n
    <2>7. m <= n
      BY <1>1, <2>6
    <2> QED
      BY <2>7 DEF m, n
  <1>2. /\ r[1] \in Nat /\ r[2] \in Nat \ {0}
        /\ c[1] \in Nat \ {0} /\ c[2] \in Nat \ {0} /\ d[1] \in Nat \ {0} /\ d[2] \in Nat \ {0}
    BY RatiosAreFractions DEF Fraction
  <1>3. /\ (97 * c[1]) * r[2] <= (100 * c[2]) * r[1] /\ (100 * c[2]) * r[1] <= (103 * c[1]) * r[2]
        /\ (97 * d[1]) * r[2] <= (100 * d[2]) * r[1] /\ (100 * d[2]) * r[1] <= (103 * d[1]) * r[2]
    BY NearBounds
  <1>4. 97 * (c[1] * d[2]) <= 103 * (d[1] * c[2])
    BY <1>1, <1>2, <1>3
  <1>5. 97 * (d[1] * c[2]) <= 103 * (c[1] * d[2])
    BY <1>1, <1>2, <1>3
  <1> QED
    BY <1>4, <1>5, RatiosApart

\* The ratio brought within bounds
Clamped(r) ==
  IF r[1] * 100 <= 5 * r[2] THEN MIN_RATIO ELSE IF 20 * r[2] <= r[1] THEN MAX_RATIO ELSE r

LEMMA ClampsAgree ==
  ASSUME NEW r \in Fraction, NEW s \in Fraction, Same(r, s)
  PROVE  Clamped(r) \in Fraction /\ Edge!clampRatio(s) \in Fraction /\ Same(Clamped(r), Edge!clampRatio(s))
PROOF
  <1>0. r[1] \in Nat /\ r[2] \in Nat \ {0} /\ s[1] \in Nat /\ s[2] \in Nat \ {0}
    BY DEF Fraction
  <1>1. <<5, 100>> \in Fraction /\ <<20, 1>> \in Fraction /\ <<1, 20>> \in Fraction
    BY DEF Fraction
  <1>2. Edge!clampRatio(s) = IF s[1] * 20 < s[2] THEN <<1, 20>> ELSE IF s[1] > 20 * s[2] THEN <<20, 1>> ELSE s
    BY <1>0 DEF Edge!clampRatio
  <1>3. 100 * r[1] <= 5 * r[2] <=> 100 * s[1] <= 5 * s[2]
    BY SameBounds DEF Same
  <1>4. 20 * r[2] <= 1 * r[1] <=> 20 * s[2] <= 1 * s[1]
    BY SameBoundsBelow DEF Same
  <1>5. CASE 100 * r[1] <= 5 * r[2]
    <2>1. Clamped(r) = <<5, 100>>
      BY <1>0, <1>5 DEF Clamped, MIN_RATIO
    <2>2. s[1] * 20 <= s[2]
      BY <1>0, <1>3, <1>5
    <2>3. CASE s[1] * 20 < s[2]
      BY <1>1, <1>2, <2>1, <2>3 DEF Same
    <2>4. CASE s[1] * 20 = s[2]
      <3>1. Edge!clampRatio(s) = s
        BY <1>0, <1>2, <2>4
      <3>2. Same(<<5, 100>>, s)
        BY <1>0, <2>4 DEF Same
      <3> QED
        BY <1>1, <2>1, <3>1, <3>2
    <2> QED
      BY <1>0, <2>2, <2>3, <2>4
  <1>6. CASE ~(100 * r[1] <= 5 * r[2]) /\ 20 * r[2] <= r[1]
    <2>1. Clamped(r) = <<20, 1>>
      BY <1>0, <1>6 DEF Clamped, MAX_RATIO
    <2>2. 20 * s[2] <= s[1] /\ ~(s[1] * 20 < s[2])
      BY <1>0, <1>3, <1>4, <1>6
    <2>3. CASE s[1] > 20 * s[2]
      BY <1>1, <1>2, <2>1, <2>2, <2>3 DEF Same
    <2>4. CASE s[1] = 20 * s[2]
      <3>1. Edge!clampRatio(s) = s
        BY <1>0, <1>2, <2>2, <2>4
      <3>2. Same(<<20, 1>>, s)
        BY <1>0, <2>4 DEF Same
      <3> QED
        BY <1>1, <2>1, <3>1, <3>2
    <2> QED
      BY <1>0, <2>2, <2>3, <2>4
  <1>7. CASE ~(100 * r[1] <= 5 * r[2]) /\ ~(20 * r[2] <= r[1])
    <2>1. Clamped(r) = r
      BY <1>0, <1>7 DEF Clamped
    <2>2. ~(s[1] * 20 < s[2]) /\ ~(s[1] > 20 * s[2])
      BY <1>0, <1>3, <1>4, <1>7
    <2>3. Edge!clampRatio(s) = s
      BY <1>2, <2>2
    <2> QED
      BY <2>1, <2>3
  <1> QED
    BY <1>5, <1>6, <1>7

\* How each asks for the ratio nearest to one within bounds
Listed(r) == {c \in RATIOS : Near(r, c)}
CoreNearest(r) == CHOOSE c \in Listed(r) : \A d \in Listed(r) : Off(r, c) * d[1] <= Off(r, d) * c[1]
EdgeNearest(r) ==
  CHOOSE c \in RATIOS : Near(r, c) /\ \A d \in RATIOS : Off(r, c) * d[1] <= Off(r, d) * c[1]

\* So the nearest is the one that is near, for the one and for the other.
LEMMA NearestRatios ==
  ASSUME NEW r \in Fraction, NEW c \in RATIOS, Near(r, c)
  PROVE  CoreNearest(r) = c /\ EdgeNearest(r) = c
PROOF
  <1>0. /\ \A d \in RATIOS : Off(r, d) \in Nat /\ d[1] \in Nat \ {0}
        /\ r[2] \in Nat \ {0}
    BY NearBounds, RatiosAreFractions DEF Fraction
  <1>1. Listed(r) = {c}
    BY OneRatioNear DEF Listed
  <1>2. Off(r, c) * c[1] <= Off(r, c) * c[1]
    <2>1. Off(r, c) * c[1] \in Nat
      BY <1>0
    <2> QED
      BY <2>1
  <1>3. CoreNearest(r) = c
    BY <1>1, <1>2 DEF CoreNearest
  <1>4. ASSUME NEW d \in RATIOS PROVE Off(r, c) * d[1] <= Off(r, d) * c[1]
    <2>1. CASE d = c
      BY <1>2, <2>1
    <2>2. CASE d # c
      <3>1. ~Near(r, d)
        BY <2>2, OneRatioNear
      <3> DEFINE m == Off(r, c)
                 n == Off(r, d)
                 e == c[1]
                 f == d[1]
                 y == r[2]
      <3>2. m * 100 <= (3 * y) * e /\ ~(n * 100 <= (3 * y) * f)
        BY <3>1 DEF Near
      <3>3. m \in Nat /\ n \in Nat /\ e \in Nat \ {0} /\ f \in Nat \ {0} /\ y \in Nat \ {0}
        BY <1>0
      <3> HIDE DEF m, n, e, f, y
      <3>4. (3 * y) * e \in Nat /\ (3 * y) * f \in Nat
        BY <3>3
      <3>5. (m * 100) * f <= ((3 * y) * e) * f /\ ((3 * y) * f) * e <= (n * 100) * e
        BY <3>2, <3>3, <3>4
      <3>6. ((3 * y) * e) * f = ((3 * y) * f) * e
        BY <3>3
      <3>7. (m * 100) * f = 100 * (m * f) /\ (n * 100) * e = 100 * (n * e) /\ m * f \in Nat /\ n * e \in Nat
        BY <3>3
      <3>9. ((3 * y) * e) * f \in Nat
        BY <3>3
      <3>8. m * f <= n * e
        BY <3>5, <3>6, <3>7, <3>9
      <3> QED
        BY <3>8 DEF m, n, e, f
    <2> QED
      BY <2>1, <2>2
  <1>5. EdgeNearest(r) = c
    <2> DEFINE best(x) == Near(r, x) /\ \A d \in RATIOS : Off(r, x) * d[1] <= Off(r, d) * x[1]
               e == CHOOSE x \in RATIOS : best(x)
    <2>1. best(c)
      BY <1>4
    <2>2. e \in RATIOS /\ best(e)
      BY <2>1
    <2>3. e = c
      BY <2>2, OneRatioNear
    <2> QED
      BY <2>3 DEF EdgeNearest
  <1> QED
    BY <1>3, <1>5

\* The nearest of the listed ratios, if one is near, and a whole number of percent else
LEMMA QuantizedIs ==
  ASSUME NEW r \in Fraction
  PROVE  quantizeRatio(r) = IF Listed(Clamped(r)) = {} THEN <<Round(100 * Clamped(r)[1], Clamped(r)[2]), 100>>
                            ELSE CoreNearest(Clamped(r))
PROOF
  <1> DEFINE x == Clamped(r)
  <1>0. r[1] \in Nat /\ r[2] \in Nat
    BY DEF Fraction
  <1>1. x = CASE AtMost(r, MIN_RATIO) -> MIN_RATIO [] AtMost(MAX_RATIO, r) -> MAX_RATIO [] OTHER -> r
    <2>1. r[2] # 0
      BY DEF Fraction
    <2>2. (AtMost(r, MIN_RATIO) <=> r[1] * 100 <= 5 * r[2]) /\ (AtMost(MAX_RATIO, r) <=> 20 * r[2] <= r[1])
      BY <1>0 DEF AtMost, MIN_RATIO, MAX_RATIO
    <2>3. ~(AtMost(r, MIN_RATIO) /\ AtMost(MAX_RATIO, r))
      BY <1>0, <2>1, <2>2
    <2> QED
      BY <2>2, <2>3 DEF Clamped
  <1> HIDE DEF x
  <1> DEFINE listed == {c \in RATIOS : Off(x, c) * RATIO_TOLERANCE[2] <= RATIO_TOLERANCE[1] * x[2] * c[1]}
  <1>2. listed = Listed(x)
    BY DEF Listed, Near, RATIO_TOLERANCE
  <1>3. quantizeRatio(r) =
          IF listed = {} THEN <<Round(100 * x[1], x[2]), 100>>
          ELSE CHOOSE c \in listed : \A d \in listed : Off(x, c) * d[1] <= Off(x, d) * c[1]
    BY <1>1 DEF quantizeRatio
  <1> HIDE DEF listed
  <1> QED
    BY <1>2, <1>3 DEF CoreNearest, x

\* The quantizers of ratios agree on fractions that are the same number.
LEMMA RatiosAgree ==
  ASSUME NEW r \in Fraction, NEW s \in Fraction, Same(r, s)
  PROVE  quantizeRatio(r) = Edge!quantizeRatio(s) /\ quantizeRatio(r) \in Fraction
PROOF
  <1> DEFINE x == Clamped(r)
             y == Edge!clampRatio(s)
  <1>1. x \in Fraction /\ y \in Fraction /\ Same(x, y) /\ Same(y, x)
    BY ClampsAgree DEF Same
  <1>2. /\ r[1] \in Nat /\ r[2] \in Nat /\ x[1] \in Nat /\ x[2] \in Nat /\ y[1] \in Nat /\ y[2] \in Nat
        /\ \A c \in RATIOS : c[1] \in Nat /\ c[2] \in Nat
    BY <1>1, RatiosAreFractions DEF Fraction
  <1>3. quantizeRatio(r) = IF Listed(x) = {} THEN <<Round(100 * x[1], x[2]), 100>> ELSE CoreNearest(x)
    BY QuantizedIs DEF x
  <1>4. Edge!quantizeRatio(s) = IF Listed(y) = {} THEN <<Round(y[1] * 100, y[2]), 100>> ELSE EdgeNearest(y)
    <2> HIDE DEF y
    <2>0. y = Edge!clampRatio(s)
      BY DEF y
    <2>2. (\E c \in RATIOS : Near(y, c)) <=> Listed(y) # {}
      BY DEF Listed
    <2> QED
      BY <2>0, <2>2
      DEF Edge!quantizeRatio, EdgeNearest, Near, Off, Edge!Core!Distance, Distance, Edge!Core!RATIOS, RATIOS,
          Edge!Core!Round, Round
  <1> HIDE DEF x, y
  <1>5. Listed(x) = Listed(y)
    BY <1>1, NearTransfers DEF Listed
  <1>6. CASE Listed(x) = {}
    <2>1. Round(100 * x[1], x[2]) = Round(y[1] * 100, y[2]) /\ Round(100 * x[1], x[2]) \in Nat
      <3> DEFINE m == <<100 * x[1], x[2]>>
                 n == <<y[1] * 100, y[2]>>
      <3>1. m \in Fraction /\ n \in Fraction
        BY <1>1 DEF Fraction
      <3>2. Same(m, n)
        <4>1. x[1] * y[2] = y[1] * x[2]
          BY <1>1 DEF Same
        <4>2. (100 * x[1]) * y[2] = (y[1] * 100) * x[2]
          BY <1>2, <4>1
        <4> QED
          BY <4>2 DEF Same
      <3>3. m[1] = 100 * x[1] /\ m[2] = x[2] /\ n[1] = y[1] * 100 /\ n[2] = y[2]
        OBVIOUS
      <3> HIDE DEF m, n
      <3>4. Round(m[1], m[2]) = Round(n[1], n[2]) /\ Round(m[1], m[2]) \in Nat
        BY <3>1, <3>2, RoundsAgree
      <3> QED
        BY <3>3, <3>4
    <2> QED
      BY <1>3, <1>4, <1>5, <1>6, <2>1 DEF Fraction
  <1>7. CASE Listed(x) # {}
    <2>1. PICK c \in RATIOS : Near(x, c)
      BY <1>7 DEF Listed
    <2>2. Near(y, c)
      BY <1>1, <2>1, NearTransfers
    <2>3. CoreNearest(x) = c /\ EdgeNearest(y) = c
      BY <1>1, <2>1, <2>2, NearestRatios
    <2> QED
      BY <1>3, <1>4, <1>5, <1>7, <2>3, RatiosAreFractions
  <1> QED
    BY <1>6, <1>7

---------------------------------------------------------------------------
(* Colours, and the rest of a spec *)

Hex == 0..15

\* Colours of any length: the core expands and then rounds, the edge does both at once.
LEMMA BackgroundsAgree ==
  ASSUME NEW digits \in Seq(Hex)
  PROVE  Edge!normalizeBackground(digits) = normalizeBackground(digits)
PROOF
  <1>1. DOMAIN digits = 1..Len(digits) /\ Len(digits) \in Nat
    OBVIOUS
  <1>2. \A i \in 1..Len(digits) : digits[i] \in Hex
    OBVIOUS
  <1>3. \A n \in Hex : 17 * n = n * 17
    BY DEF Hex
  <1>4. \A n : Edge!Core!Round(n, 17) * 17 = quantizeChannel(n)
    BY SharedArithmetic DEF quantizeChannel, BACKGROUND_CHANNEL_STEP
  <1> DEFINE bytes == CASE Len(digits) \in {3, 4} -> [i \in DOMAIN digits |-> 17 * digits[i]]
                        [] Len(digits) \in {6, 8} ->
                             [i \in 1..(Len(digits) \div 2) |-> 16 * digits[2 * i - 1] + digits[2 * i]]
                        [] OTHER -> <<>>
             byte(i) == IF Len(digits) <= 4 THEN digits[i] * 17 ELSE digits[2 * i - 1] * 16 + digits[2 * i]
             levels(n) == [i \in 1..n |-> quantizeChannel(byte(i))]
  <1>5. normalizeBackground(digits) = [i \in DOMAIN bytes |-> quantizeChannel(bytes[i])]
    BY DEF normalizeBackground, Unparseable
  <1>6. Edge!normalizeBackground(digits) =
          CASE Len(digits) \in {3, 6} -> levels(3) [] Len(digits) \in {4, 8} -> levels(4) [] OTHER -> <<>>
    BY DEF Edge!normalizeBackground, quantizeChannel, BACKGROUND_CHANNEL_STEP, Edge!Core!Round, Round
  <1>7. ASSUME NEW n \in {3, 4}, Len(digits) = n PROVE Edge!normalizeBackground(digits) = normalizeBackground(digits)
    <2>1. bytes = [i \in 1..n |-> 17 * digits[i]]
      BY <1>1, <1>7
    <2>2. Edge!normalizeBackground(digits) = levels(n)
      <3> HIDE DEF levels
      <3>1. CASE n = 3
        BY <1>6, <1>7, <3>1
      <3>2. CASE n = 4
        BY <1>6, <1>7, <3>2
      <3> QED
        BY <3>1, <3>2
    <2>3. \A i \in 1..n : bytes[i] = byte(i)
      BY <1>2, <1>3, <1>7, <2>1
    <2>4. DOMAIN bytes = 1..n
      BY <2>1
    <2> HIDE DEF bytes, byte
    <2> QED
      BY <1>5, <2>2, <2>3, <2>4
  <1>8. ASSUME NEW n \in {3, 4}, Len(digits) = 2 * n PROVE Edge!normalizeBackground(digits) = normalizeBackground(digits)
    <2>0. Len(digits) \div 2 = n /\ Len(digits) \in {6, 8}
      BY <1>8
    <2>1. bytes = [i \in 1..n |-> 16 * digits[2 * i - 1] + digits[2 * i]]
      BY <1>1, <1>8, <2>0
    <2>2. Edge!normalizeBackground(digits) = levels(n)
      <3> HIDE DEF levels
      <3>1. CASE n = 3
        BY <1>6, <1>8, <3>1
      <3>2. CASE n = 4
        BY <1>6, <1>8, <3>2
      <3> QED
        BY <3>1, <3>2
    <2>3. \A i \in 1..n : bytes[i] = byte(i)
      <3> SUFFICES ASSUME NEW i \in 1..n PROVE bytes[i] = byte(i)
        OBVIOUS
      <3>1. 2 * i - 1 \in 1..Len(digits)
        BY <1>8
      <3>2. \A d \in Hex : 16 * d = d * 16
        BY DEF Hex
      <3>3. 16 * digits[2 * i - 1] = digits[2 * i - 1] * 16
        BY <1>2, <3>1, <3>2
      <3> QED
        BY <1>8, <2>1, <3>3, SMTT(30)
    <2>4. DOMAIN bytes = 1..n
      BY <2>1
    <2> HIDE DEF bytes, byte
    <2> QED
      BY <1>5, <2>2, <2>3, <2>4
  <1>9. ASSUME Len(digits) \notin {3, 4, 6, 8} PROVE Edge!normalizeBackground(digits) = normalizeBackground(digits)
    <2>1. bytes = <<>>
      BY <1>9
    <2> HIDE DEF bytes
    <2>2. normalizeBackground(digits) = <<>>
      BY <1>5, <2>1
    <2> QED
      BY <1>6, <1>9, <2>2
  <1>10. Len(digits) \in {6, 8} => \E n \in {3, 4} : Len(digits) = 2 * n
    OBVIOUS
  <1> QED
    BY <1>7, <1>8, <1>9, <1>10

\* The pixel ratio brought within bounds, as each does it
CoreDpr(d) == CASE AtMost(d, MIN_DPR) -> MIN_DPR [] AtMost(MAX_DPR, d) -> MAX_DPR [] OTHER -> d
EdgeDpr(d) == CASE d[1] < d[2] -> <<1, 1>> [] d[1] > 3 * d[2] -> <<3, 1>> [] OTHER -> d

\* The density is clamped to the same number.
LEMMA DprsAgree ==
  ASSUME NEW d \in Fraction
  PROVE  CoreDpr(d) \in Fraction /\ EdgeDpr(d) \in Fraction /\ Same(CoreDpr(d), EdgeDpr(d))
PROOF
  <1>0. d[1] \in Nat /\ d[2] \in Nat \ {0} /\ <<1, 1>> \in Fraction /\ <<3, 1>> \in Fraction
    BY DEF Fraction
  <1>1. CoreDpr(d) = IF d[1] <= d[2] THEN <<1, 1>> ELSE IF 3 * d[2] <= d[1] THEN <<3, 1>> ELSE d
    BY <1>0 DEF CoreDpr, AtMost, MIN_DPR, MAX_DPR, Num
  <1>2. EdgeDpr(d) = IF d[1] < d[2] THEN <<1, 1>> ELSE IF d[1] > 3 * d[2] THEN <<3, 1>> ELSE d
    BY <1>0 DEF EdgeDpr
  <1>3. CASE d[1] < d[2]
    BY <1>0, <1>1, <1>2, <1>3 DEF Same
  <1>4. CASE d[1] = d[2]
    <2>1. CoreDpr(d) = <<1, 1>> /\ EdgeDpr(d) = d
      BY <1>0, <1>1, <1>2, <1>4
    <2> QED
      BY <1>0, <1>4, <2>1 DEF Same
  <1>5. CASE d[1] > d[2] /\ 3 * d[2] > d[1]
    BY <1>0, <1>1, <1>2, <1>5 DEF Same
  <1>6. CASE d[1] > d[2] /\ 3 * d[2] = d[1]
    <2>1. CoreDpr(d) = <<3, 1>> /\ EdgeDpr(d) = d
      BY <1>0, <1>1, <1>2, <1>6
    <2> QED
      BY <1>0, <1>6, <2>1 DEF Same
  <1>7. CASE 3 * d[2] < d[1]
    <2>1. CoreDpr(d) = <<3, 1>> /\ EdgeDpr(d) = <<3, 1>>
      BY <1>0, <1>1, <1>2, <1>7
    <2> QED
      BY <1>0, <2>1 DEF Same
  <1> QED
    BY <1>0, <1>3, <1>4, <1>5, <1>6, <1>7

---------------------------------------------------------------------------
(* Names.  The two put the tokens together in another grouping. *)

\* A spec with a quality has the same name, whoever writes it.
LEMMA NamesAgree ==
  ASSUME NEW spec, "quality" \in DOMAIN spec
  PROVE  Edge!buildVariantName(spec) = toVariantName(spec)
PROOF
  <1> DEFINE S == {<<"full">>, <<"w", spec["width"]>>, <<"h", spec["height"]>>, <<"fit", spec["fit"]>>,
                   <<"q", spec["quality"]>>, <<"g", spec["gravity"]>>, <<"bg", spec["background"]>>,
                   <<"bl", spec["blur"]>>, <<"sh", spec["sharpen"]>>}
             W == Token(spec, "width", "w")
             H == Token(spec, "height", "h")
             N == << <<"full">> >>
             F == Token(spec, "fit", "fit")
             Q == << <<"q", spec["quality"]>> >>
             G == Token(spec, "gravity", "g")
             B == Token(spec, "background", "bg")
             L == Token(spec, "blur", "bl")
             X == Token(spec, "sharpen", "sh")
             box == IF W \o H = <<>> THEN N ELSE W \o H
             none == IF DOMAIN spec \cap {"width", "height"} = {} THEN N ELSE <<>>
  <1>1. /\ W \in Seq(S) /\ H \in Seq(S) /\ N \in Seq(S) /\ F \in Seq(S) /\ Q \in Seq(S)
        /\ G \in Seq(S) /\ B \in Seq(S) /\ L \in Seq(S) /\ X \in Seq(S)
    BY DEF Token
  <1>2. /\ ("width" \in DOMAIN spec <=> W # <<>>) /\ ("height" \in DOMAIN spec <=> H # <<>>)
    BY DEF Token
  <1>3. toVariantName(spec) =
          [tokens |-> ((box \o F) \o Q) \o (((G \o B) \o L) \o X), ext |-> FORMAT_EXTENSIONS[spec.format]]
    BY DEF toVariantName, extrasTokens
  <1>4. Edge!buildVariantName(spec) =
          [tokens |-> ((((((((W \o H) \o none) \o F) \o Q) \o G) \o B) \o L) \o X), ext |-> FORMAT_EXTENSIONS[spec.format]]
    BY SharedTables DEF Edge!buildVariantName, Token
  <1> HIDE DEF S, W, H, N, F, Q, G, B, L, X
  <1>5. (W \o H) \o none = box /\ box \in Seq(S)
    <2>1. W \o H \in Seq(S)
      BY <1>1, ConcatProperties
    <2>2. W \o H = <<>> <=> W = <<>> /\ H = <<>>
      BY <1>1, ConcatEqualIffEmpty
    <2>3. CASE W = <<>> /\ H = <<>>
      <3>1. none = N /\ box = N /\ W \o H = <<>>
        BY <1>2, <2>2, <2>3
      <3>2. <<>> \o N = N
        BY <1>1, ConcatEmptySeq
      <3> QED
        BY <1>1, <3>1, <3>2
    <2>4. CASE ~(W = <<>> /\ H = <<>>)
      <3>1. none = <<>> /\ box = W \o H
        BY <1>2, <2>2, <2>4
      <3>2. (W \o H) \o <<>> = W \o H
        BY <2>1, ConcatEmptySeq
      <3> QED
        BY <2>1, <3>1, <3>2
    <2> QED
      BY <2>3, <2>4
  <1> HIDE DEF box, none
  <1> DEFINE Y == (box \o F) \o Q
  <1>6. Y \in Seq(S)
    BY <1>1, <1>5, ConcatProperties
  <1> HIDE DEF Y
  <1>7. (((Y \o G) \o B) \o L) \o X = Y \o (((G \o B) \o L) \o X)
    <2> DEFINE GB == G \o B
               GBL == GB \o L
    <2>0. Y \in Seq(S) /\ G \in Seq(S) /\ B \in Seq(S)
      BY <1>1, <1>6
    <2>1. GB \in Seq(S) /\ (Y \o G) \o B = Y \o GB
      BY <2>0, SMTT(30)
    <2> HIDE DEF GB
    <2>a. Y \in Seq(S) /\ GB \in Seq(S) /\ L \in Seq(S)
      BY <1>1, <1>6, <2>1
    <2>2. GBL \in Seq(S) /\ (Y \o GB) \o L = Y \o GBL
      BY <2>a, SMTT(30)
    <2> HIDE DEF GBL
    <2>b. Y \in Seq(S) /\ GBL \in Seq(S) /\ X \in Seq(S)
      BY <1>1, <1>6, <2>2
    <2>3. (Y \o GBL) \o X = Y \o (GBL \o X)
      BY <2>b
    <2> QED
      BY <2>1, <2>2, <2>3 DEF GB, GBL
  <1> QED
    BY <1>3, <1>4, <1>5, <1>7 DEF Y
---------------------------------------------------------------------------
(* Dimensions *)

\* Every number in the query is one.
Accepted(query) ==
  /\ \A p \in {"w", "h", "q", "blur", "sharpen", "dpr"} : p \in DOMAIN query => query[p] \in Fraction
  /\ "background" \in DOMAIN query => query.background \in Seq(Hex)

\* The height of a box, from its width and the shape asked for
CoreHeight(query, width) ==
  HeightFor(width, quantizeRatio(<<floor1(query.h)[1] * floor1(query.w)[2], floor1(query.h)[2] * floor1(query.w)[1]>>))

EdgeHeight(query, width) ==
  LET w == Edge!atLeastOne(query.w)
      h == Edge!atLeastOne(query.h)
      ratio == Edge!quantizeRatio(<<h[1] * w[2], h[2] * w[1]>>)
  IN  Edge!Core!Round(width * ratio[1], ratio[2])

\* The height a box gets follows from the quantized ratio and the snapped width.
LEMMA HeightsAgree ==
  ASSUME NEW query, query.w \in Fraction, query.h \in Fraction, NEW width
  PROVE  CoreHeight(query, width) = EdgeHeight(query, width)
PROOF
  <1> DEFINE a == floor1(query.h)
             b == floor1(query.w)
             c == Edge!atLeastOne(query.h)
             d == Edge!atLeastOne(query.w)
             r == <<a[1] * b[2], a[2] * b[1]>>
             s == <<c[1] * d[2], c[2] * d[1]>>
  <1>1. /\ a \in Fraction /\ b \in Fraction /\ c \in Fraction /\ d \in Fraction
        /\ Same(a, c) /\ Same(b, d) /\ b[1] # 0 /\ d[1] # 0
    BY FloorsAgree
  <1> HIDE DEF a, b, c, d
  <1>2. r \in Fraction /\ s \in Fraction /\ Same(r, s)
    <2> DEFINE u == <<b[2], b[1]>>
               t == <<d[2], d[1]>>
    <2>1. u \in Fraction /\ t \in Fraction /\ Same(u, t)
      <3>1. /\ b[1] \in Nat \ {0} /\ b[2] \in Nat \ {0} /\ d[1] \in Nat \ {0} /\ d[2] \in Nat \ {0}
            /\ b[1] * d[2] = d[1] * b[2]
        BY <1>1 DEF Fraction, Same
      <3>2. b[2] * d[1] = d[2] * b[1]
        BY <3>1
      <3> QED
        BY <3>1, <3>2 DEF Fraction, Same
    <2>2. u[1] = b[2] /\ u[2] = b[1] /\ t[1] = d[2] /\ t[2] = d[1]
      OBVIOUS
    <2> HIDE DEF u, t
    <2>3. /\ <<a[1] * u[1], a[2] * u[2]>> \in Fraction /\ <<c[1] * t[1], c[2] * t[2]>> \in Fraction
          /\ Same(<<a[1] * u[1], a[2] * u[2]>>, <<c[1] * t[1], c[2] * t[2]>>)
      BY <1>1, <2>1, ProductsAgree
    <2> QED
      BY <2>2, <2>3
  <1>3. CoreHeight(query, width) = HeightFor(width, quantizeRatio(r))
    BY DEF CoreHeight, a, b
  <1>4. EdgeHeight(query, width) = HeightFor(width, Edge!quantizeRatio(s))
    BY SharedArithmetic DEF EdgeHeight, HeightFor, c, d
  <1> HIDE DEF r, s
  <1>5. quantizeRatio(r) = Edge!quantizeRatio(s)
    BY <1>2, RatiosAgree
  <1> QED
    BY <1>3, <1>4, <1>5

\* What the edge adds to a spec for the box
EdgeBox(base, query, dpr) ==
  LET w == "w" \in DOMAIN query
      h == "h" \in DOMAIN query
      width == Edge!snapWidth(query.w, dpr)
  IN  ((base ++ Field("width", w, width))
         ++ Field("height", w /\ h, EdgeHeight(query, width)))
         ++ Field("height", h, Edge!snapWidth(query.h, dpr))

\* The dimensions: the core merges them as one record, the edge field by field.
LEMMA BoxesAgree ==
  ASSUME NEW base, NEW query, Accepted(query), NEW d \in Fraction, NEW e \in Fraction, Same(d, e)
  PROVE  base ++ resolveDimensions(query, d, 0) = EdgeBox(base, query, e)
PROOF
  <1> DEFINE dims == resolveDimensions(query, d, 0)
             w == snapWidth(query.w, d, 0)
             h == CoreHeight(query, w)
             g == snapWidth(query.h, d, 0)
  <1>1. dims = IF "w" \in DOMAIN query
               THEN IF "h" \in DOMAIN query THEN [width |-> w, height |-> h] ELSE [width |-> w]
               ELSE IF "h" \in DOMAIN query THEN [height |-> g] ELSE <<>>
    BY DEF resolveDimensions, CoreHeight
  <1>2. "w" \in DOMAIN query => w = Edge!snapWidth(query.w, e)
    BY WidthsAgree DEF Accepted
  <1>3. "h" \in DOMAIN query => g = Edge!snapWidth(query.h, e)
    BY WidthsAgree DEF Accepted
  <1>4. "w" \in DOMAIN query /\ "h" \in DOMAIN query => h = EdgeHeight(query, w)
    BY HeightsAgree DEF Accepted
  <1> HIDE DEF dims, w, h, g
  <1> DEFINE x == Edge!snapWidth(query.w, e)
             y == EdgeHeight(query, x)
             z == Edge!snapWidth(query.h, e)
  <1>e. EdgeBox(base, query, e) =
          ((base ++ Field("width", "w" \in DOMAIN query, x))
             ++ Field("height", "w" \in DOMAIN query /\ "h" \in DOMAIN query, y))
             ++ Field("height", "h" \in DOMAIN query, z)
    BY DEF EdgeBox
  <1>x. /\ "w" \in DOMAIN query => w = x
        /\ "h" \in DOMAIN query => g = z
        /\ "w" \in DOMAIN query /\ "h" \in DOMAIN query => h = y
    BY <1>2, <1>3, <1>4
  <1> HIDE DEF x, y, z
  <1>5. CASE "w" \in DOMAIN query /\ "h" \in DOMAIN query
    <2> DEFINE a == Field("width", TRUE, x)
               b == Field("height", TRUE, y)
               c == Field("height", TRUE, z)
    <2>1. DOMAIN a = {"width"} /\ DOMAIN b = {"height"} /\ DOMAIN c = {"height"}
      BY FieldIs
    <2>2. dims = a ++ b
      BY <1>1, <1>x, <1>5, DimensionsAre
    <2>3. /\ Field("width", "w" \in DOMAIN query, x) = a
          /\ Field("height", "w" \in DOMAIN query /\ "h" \in DOMAIN query, y) = b
          /\ Field("height", "h" \in DOMAIN query, z) = c
      BY <1>5 DEF Field
    <2> HIDE DEF a, b, c
    <2>4. EdgeBox(base, query, e) = ((base ++ a) ++ b) ++ c
      BY <1>e, <2>3
    <2>5. ((base ++ a) ++ b) ++ c = (base ++ a) ++ b
      BY <2>1, OverlayAbsorbs
    <2>6. base ++ (a ++ b) = (base ++ a) ++ b
      BY OverlayGroups
    <2> QED
      BY <2>2, <2>4, <2>5, <2>6 DEF dims
  <1>6. CASE "w" \in DOMAIN query /\ "h" \notin DOMAIN query
    <2> DEFINE a == Field("width", TRUE, x)
               b == Field("height", FALSE, y)
               c == Field("height", FALSE, z)
    <2>1. DOMAIN a = {"width"} /\ DOMAIN b = {} /\ DOMAIN c = {}
      BY FieldIs
    <2>2. dims = a
      BY <1>1, <1>x, <1>6, DimensionsAre
    <2>3. /\ Field("width", "w" \in DOMAIN query, x) = a
          /\ Field("height", "w" \in DOMAIN query /\ "h" \in DOMAIN query, y) = b
          /\ Field("height", "h" \in DOMAIN query, z) = c
      BY <1>6 DEF Field
    <2> HIDE DEF a, b, c
    <2>4. EdgeBox(base, query, e) = ((base ++ a) ++ b) ++ c
      BY <1>e, <2>3
    <2>5. ((base ++ a) ++ b) ++ c = (base ++ a) ++ c
      BY <2>1, OverlaySkips
    <2>6. (base ++ a) ++ c = base ++ a
      BY <2>1, OverlayAbsorbs
    <2> QED
      BY <2>2, <2>4, <2>5, <2>6 DEF dims
  <1>7. CASE "w" \notin DOMAIN query /\ "h" \in DOMAIN query
    <2> DEFINE a == Field("width", FALSE, x)
               b == Field("height", FALSE, y)
               c == Field("height", TRUE, z)
    <2>1. DOMAIN a = {} /\ DOMAIN b = {} /\ DOMAIN c = {"height"}
      BY FieldIs
    <2>2. dims = c
      BY <1>1, <1>x, <1>7, DimensionsAre
    <2>3. /\ Field("width", "w" \in DOMAIN query, x) = a
          /\ Field("height", "w" \in DOMAIN query /\ "h" \in DOMAIN query, y) = b
          /\ Field("height", "h" \in DOMAIN query, z) = c
      BY <1>7 DEF Field
    <2> HIDE DEF a, b, c
    <2>4. EdgeBox(base, query, e) = ((base ++ a) ++ b) ++ c
      BY <1>e, <2>3
    <2>5. ((base ++ a) ++ b) ++ c = (base ++ a) ++ c
      BY <2>1, OverlaySkips
    <2>6. (base ++ a) ++ c = base ++ c
      BY <2>1, OverlaySkips
    <2> QED
      BY <2>2, <2>4, <2>5, <2>6 DEF dims
  <1>8. CASE "w" \notin DOMAIN query /\ "h" \notin DOMAIN query
    <2> DEFINE a == Field("width", FALSE, x)
               b == Field("height", FALSE, y)
               c == Field("height", FALSE, z)
    <2>1. DOMAIN a = {} /\ DOMAIN b = {} /\ DOMAIN c = {}
      BY FieldIs
    <2>2. dims = <<>>
      BY <1>1, <1>x, <1>8, DimensionsAre
    <2>3. /\ Field("width", "w" \in DOMAIN query, x) = a
          /\ Field("height", "w" \in DOMAIN query /\ "h" \in DOMAIN query, y) = b
          /\ Field("height", "h" \in DOMAIN query, z) = c
      BY <1>8 DEF Field
    <2> HIDE DEF a, b, c
    <2>4. EdgeBox(base, query, e) = ((base ++ a) ++ b) ++ c
      BY <1>e, <2>3
    <2>5. ((base ++ a) ++ b) ++ c = (base ++ a) ++ c
      BY <2>1, OverlaySkips
    <2>6. (base ++ a) ++ c = base ++ c
      BY <2>1, OverlaySkips
    <2>7. base ++ c = base ++ <<>>
      <3> DEFINE n == <<>>
      <3>1. DOMAIN n = {}
        BY DimensionsAre
      <3> HIDE DEF n
      <3>2. base ++ c = base ++ n
        BY <2>1, <3>1, NothingOverlaid
      <3> QED
        BY <3>2 DEF n
    <2> QED
      BY <2>2, <2>4, <2>5, <2>6, <2>7 DEF dims
  <1> QED
    BY <1>5, <1>6, <1>7, <1>8

---------------------------------------------------------------------------
(* Specs.  Field by field, what the edge writes is what the core writes. *)


\* A spec from its first fields and the ones that may follow
Assembled(boxed, f1, f2, f3, f4, f5) == ((((boxed ++ f1) ++ f2) ++ f3) ++ f4) ++ f5

\* The alias table the edge was given is the one alias of the core.
LEMMA FitsAgree ==
  ASSUME NEW fit
  PROVE  /\ (IF fit \in DOMAIN Edge!FIT_ALIASES THEN Edge!FIT_ALIASES[fit] ELSE fit) = normalizeFit(fit)
         /\ Edge!has(Edge!CROPPING_FITS, fit) <=> fitCrops(fit)
         /\ Edge!has(Edge!PADDING_FITS, fit) <=> fitUsesBackground(fit)
PROOF
  <1>1. DOMAIN Edge!FIT_ALIASES = {"pad"} /\ Edge!FIT_ALIASES["pad"] = "contain"
    BY SharedTables DEF Edge!FIT_ALIASES, FIT_MODES, Edge!Core!normalizeFit
  <1>2. /\ Edge!has(Edge!CROPPING_FITS, fit) <=> fit = "cover"
        /\ Edge!has(Edge!PADDING_FITS, fit) <=> fit = "contain"
    BY SharedTables
    DEF Edge!has, Edge!CROPPING_FITS, Edge!PADDING_FITS, Edge!Core!CANONICAL_FIT_MODES, FIT_MODES,
        Edge!Core!fitCrops, Edge!Core!fitUsesBackground
  <1> QED
    BY <1>1, <1>2 DEF normalizeFit, fitCrops, fitUsesBackground

LEMMA FormatsAgree ==
  ASSUME NEW format, NEW accept
  PROVE  (IF format = "auto" THEN Edge!resolveAutoFormat(accept) ELSE format) = resolveFormat(format, accept, FALSE)
  BY DEF Edge!resolveAutoFormat, Edge!has, resolveFormat, resolveAutoFormat

LEMMA LevelsAgree ==
  ASSUME NEW r \in Fraction
  PROVE  /\ Edge!nearest(Edge!Core!BLUR_LEVELS, r) = quantizeBlur(r)
         /\ Edge!nearest(Edge!Core!SHARPEN_LEVELS, r) = quantizeSharpen(r)
PROOF
  <1>1. /\ BLUR_LEVELS \subseteq Nat /\ BLUR_LEVELS # {}
        /\ SHARPEN_LEVELS \subseteq Nat /\ SHARPEN_LEVELS # {}
    BY DEF BLUR_LEVELS, SHARPEN_LEVELS
  <1>2. /\ Edge!nearest(BLUR_LEVELS, r) = nearest(BLUR_LEVELS, r)
        /\ Edge!nearest(SHARPEN_LEVELS, r) = nearest(SHARPEN_LEVELS, r)
    BY <1>1, NearestAgree
  <1> QED
    BY <1>2, SharedTables DEF quantizeBlur, quantizeSharpen

\* Which dimensions a spec has
LEMMA BoxIsAsked ==
  ASSUME NEW query, NEW d
  PROVE  {"width", "height"} \subseteq DOMAIN resolveDimensions(query, d, 0) <=> "w" \in DOMAIN query /\ "h" \in DOMAIN query
PROOF
  <1> DEFINE w == snapWidth(query.w, d, 0)
             h == CoreHeight(query, w)
             g == snapWidth(query.h, d, 0)
  <1>1. resolveDimensions(query, d, 0) =
          IF "w" \in DOMAIN query
          THEN IF "h" \in DOMAIN query THEN [width |-> w, height |-> h] ELSE [width |-> w]
          ELSE IF "h" \in DOMAIN query THEN [height |-> g] ELSE <<>>
    BY DEF resolveDimensions, CoreHeight
  <1> HIDE DEF w, h, g
  <1> QED
    BY <1>1

\* The two assemble a query that passed the checks into the same name.
LEMMA SpecsAgree ==
  ASSUME NEW query, Accepted(query), NEW accept
  PROVE  Edge!normalizeAccepted(query, accept) = toVariantName(SpecOf(query, accept, 0, FALSE))
PROOF
  <1> DEFINE given(p, default) == IF p \in DOMAIN query THEN query[p] ELSE default
             dprRaw == given("dpr", <<1, 1>>)
             d == CoreDpr(dprRaw)
             e == EdgeDpr(dprRaw)
             dims == resolveDimensions(query, d, 0)
             fitRaw == lower(given("fit", "cover"))
             fit == normalizeFit(fitRaw)
             gravity == lower(given("crop", "center"))
             background == normalizeBackground(given("background", <<>>))
             format == lower(given("format", "auto"))
             blur == quantizeBlur(given("blur", <<0, 1>>))
             sharpen == quantizeSharpen(given("sharpen", <<0, 1>>))
             quality == IF "q" \in DOMAIN query THEN quantizeQuality(query.q) ELSE DEFAULT_QUALITY
             base == [format |-> resolveFormat(format, accept, FALSE), quality |-> quality]
             boxed == {"width", "height"} \subseteq DOMAIN dims
             asked2 == "w" \in DOMAIN query /\ "h" \in DOMAIN query
             f1 == Field("fit", boxed, fit)
             f2 == Field("gravity", boxed /\ fitCrops(fit) /\ gravity # "center", gravity)
             f3 == Field("background", boxed /\ fitUsesBackground(fit) /\ background # <<>>, background)
             f4 == Field("blur", blur > 0, blur)
             f5 == Field("sharpen", sharpen > 0, sharpen)
  <1>1. SpecOf(query, accept, 0, FALSE) = Assembled(base ++ dims, f1, f2, f3, f4, f5)
    BY DEF SpecOf, Assembled, CoreDpr, Num, DEFAULT_FIT, DEFAULT_GRAVITY, Unparseable
  <1> DEFINE edgeFit == IF Edge!Core!lower(Edge!raw(query, "fit", Edge!Core!DEFAULT_FIT)) \in DOMAIN Edge!FIT_ALIASES
                        THEN Edge!FIT_ALIASES[Edge!Core!lower(Edge!raw(query, "fit", Edge!Core!DEFAULT_FIT))]
                        ELSE Edge!Core!lower(Edge!raw(query, "fit", Edge!Core!DEFAULT_FIT))
             edgeGravity == Edge!Core!lower(Edge!raw(query, "crop", Edge!Core!DEFAULT_GRAVITY))
             edgeBackground == Edge!normalizeBackground(Edge!raw(query, "background", <<>>))
             edgeFormat == Edge!Core!lower(Edge!raw(query, "format", "auto"))
             edgeBlur == Edge!nearest(Edge!Core!BLUR_LEVELS, Edge!raw(query, "blur", <<0, 1>>))
             edgeSharpen == Edge!nearest(Edge!Core!SHARPEN_LEVELS, Edge!raw(query, "sharpen", <<0, 1>>))
             edgeWidth == Edge!snapWidth(query.w, e)
             g0 == [format |-> IF edgeFormat = "auto" THEN Edge!resolveAutoFormat(accept) ELSE edgeFormat,
                    quality |-> IF "q" \in DOMAIN query THEN Edge!quantizeQuality(query.q) ELSE Edge!Core!DEFAULT_QUALITY]
             h1 == Edge!Field("width", "w" \in DOMAIN query, edgeWidth)
             h2 == Edge!Field("height", asked2, EdgeHeight(query, edgeWidth))
             h3 == Edge!Field("height", "h" \in DOMAIN query, Edge!snapWidth(query.h, e))
             g1 == Edge!Field("fit", asked2, edgeFit)
             g2 == Edge!Field("gravity", asked2 /\ Edge!has(Edge!CROPPING_FITS, edgeFit) /\ edgeGravity # Edge!Core!DEFAULT_GRAVITY, edgeGravity)
             g3 == Edge!Field("background", asked2 /\ Edge!has(Edge!PADDING_FITS, edgeFit) /\ edgeBackground # <<>>, edgeBackground)
             g4 == Edge!Field("blur", edgeBlur > 0, edgeBlur)
             g5 == Edge!Field("sharpen", edgeSharpen > 0, edgeSharpen)
             s1 == Edge!++(g0, h1)
             s2 == Edge!++(s1, h2)
             s3 == Edge!++(s2, h3)
             s4 == Edge!++(s3, g1)
             s5 == Edge!++(s4, g2)
             s6 == Edge!++(s5, g3)
             s7 == Edge!++(s6, g4)
             s8 == Edge!++(s7, g5)
  <1>2. Edge!normalizeAccepted(query, accept) = Edge!buildVariantName(s8)
    <2>1. e = CASE Edge!raw(query, "dpr", <<1, 1>>)[1] < Edge!raw(query, "dpr", <<1, 1>>)[2] -> <<1, 1>>
                [] Edge!raw(query, "dpr", <<1, 1>>)[1] > 3 * Edge!raw(query, "dpr", <<1, 1>>)[2] -> <<3, 1>>
                [] OTHER -> Edge!raw(query, "dpr", <<1, 1>>)
      BY DEF EdgeDpr, Edge!raw
    <2> HIDE DEF e
    <2> QED
      BY <2>1 DEF Edge!normalizeAccepted, EdgeHeight
  <1>3. /\ d \in Fraction /\ e \in Fraction /\ Same(d, e)
        /\ given("blur", <<0, 1>>) \in Fraction /\ given("sharpen", <<0, 1>>) \in Fraction
        /\ given("background", <<>>) \in Seq(Hex)
        /\ "q" \in DOMAIN query => query.q \in Fraction
    <2>1. <<0, 1>> \in Fraction /\ <<1, 1>> \in Fraction
      BY DEF Fraction
    <2>2. dprRaw \in Fraction /\ given("blur", <<0, 1>>) \in Fraction /\ given("sharpen", <<0, 1>>) \in Fraction
      BY <2>1 DEF Accepted
    <2>3. given("background", <<>>) \in Seq(Hex)
      BY DEF Accepted
    <2>4. "q" \in DOMAIN query => query.q \in Fraction
      BY DEF Accepted
    <2>5. d \in Fraction /\ e \in Fraction /\ Same(d, e)
      <3> HIDE DEF dprRaw
      <3> QED
        BY <2>2, DprsAgree
    <2> QED
      BY <2>2, <2>3, <2>4, <2>5
  <1>4. edgeFit = fit
    <2>1. Edge!Core!lower(Edge!raw(query, "fit", Edge!Core!DEFAULT_FIT)) = fitRaw
      BY SharedTables, SharedArithmetic DEF Edge!raw, DEFAULT_FIT
    <2> HIDE DEF fitRaw
    <2>2. edgeFit = IF fitRaw \in DOMAIN Edge!FIT_ALIASES THEN Edge!FIT_ALIASES[fitRaw] ELSE fitRaw
      BY <2>1
    <2> QED
      BY <2>2, FitsAgree
  <1>5. edgeGravity = gravity /\ edgeFormat = format
    BY SharedTables, SharedArithmetic DEF Edge!raw, DEFAULT_GRAVITY
  <1>6. edgeBackground = background
    <2> DEFINE digits == given("background", <<>>)
    <2>1. Edge!raw(query, "background", <<>>) = digits
      BY DEF Edge!raw
    <2>2. digits \in Seq(Hex)
      BY <1>3
    <2> HIDE DEF digits
    <2>3. Edge!normalizeBackground(digits) = normalizeBackground(digits)
      BY <2>2, BackgroundsAgree
    <2> QED
      BY <2>1, <2>3 DEF digits
  <1>7. edgeBlur = blur /\ edgeSharpen = sharpen
    <2> DEFINE b == given("blur", <<0, 1>>)
               c == given("sharpen", <<0, 1>>)
    <2>1. Edge!raw(query, "blur", <<0, 1>>) = b /\ Edge!raw(query, "sharpen", <<0, 1>>) = c
      BY DEF Edge!raw
    <2>2. b \in Fraction /\ c \in Fraction
      BY <1>3
    <2> HIDE DEF b, c
    <2>3. /\ Edge!nearest(Edge!Core!BLUR_LEVELS, b) = quantizeBlur(b)
          /\ Edge!nearest(Edge!Core!SHARPEN_LEVELS, c) = quantizeSharpen(c)
      BY <2>2, LevelsAgree
    <2> QED
      BY <2>1, <2>3 DEF b, c
  <1>8. g0 = base
    <2>1. (IF "q" \in DOMAIN query THEN Edge!quantizeQuality(query.q) ELSE Edge!Core!DEFAULT_QUALITY) = quality
      BY <1>3, QualitiesAgree, SharedTables
    <2>2. (IF edgeFormat = "auto" THEN Edge!resolveAutoFormat(accept) ELSE edgeFormat) = resolveFormat(format, accept, FALSE)
      <3> HIDE DEF edgeFormat, format
      <3> QED
        BY <1>5, FormatsAgree
    <2> HIDE DEF quality, edgeFormat, format
    <2> QED
      BY <2>1, <2>2
  <1>9. boxed <=> asked2
    <2> HIDE DEF d
    <2> QED
      BY BoxIsAsked
  <1>10. edgeGravity # Edge!Core!DEFAULT_GRAVITY <=> gravity # "center"
    BY <1>5, SharedTables DEF DEFAULT_GRAVITY
  <1>11. Edge!has(Edge!CROPPING_FITS, edgeFit) <=> fitCrops(fit)
    <2> HIDE DEF edgeFit, fit
    <2> QED
      BY <1>4, FitsAgree
  <1>12. Edge!has(Edge!PADDING_FITS, edgeFit) <=> fitUsesBackground(fit)
    <2> HIDE DEF edgeFit, fit
    <2> QED
      BY <1>4, FitsAgree
  <1> HIDE DEF edgeFit, edgeGravity, edgeBackground, edgeFormat, edgeBlur, edgeSharpen, fit, gravity, background, format,
               blur, sharpen, quality, d, e, dims, boxed, asked2, base, g0
  <1>13. g1 = f1
    <2>1. Edge!Field("fit", asked2, edgeFit) = Field("fit", asked2, fit)
      BY <1>4, SharedOverlays
    <2>2. Field("fit", asked2, fit) = Field("fit", boxed, fit)
      BY <1>9 DEF Field
    <2> QED
      BY <2>1, <2>2
  <1>14. g2 = f2
    BY <1>5, <1>9, <1>10, <1>11 DEF Edge!Field, Field
  <1>15. g3 = f3
    BY <1>6, <1>9, <1>12 DEF Edge!Field, Field
  <1>16. g4 = f4 /\ g5 = f5
    BY <1>7 DEF Edge!Field, Field
  <1>17. s3 = EdgeBox(base, query, e)
    <2> DEFINE k1 == Field("width", "w" \in DOMAIN query, edgeWidth)
               k2 == Field("height", asked2, EdgeHeight(query, edgeWidth))
               k3 == Field("height", "h" \in DOMAIN query, Edge!snapWidth(query.h, e))
    <2>1. h1 = k1 /\ h2 = k2 /\ h3 = k3
      BY DEF Edge!Field, Field
    <2>2. EdgeBox(base, query, e) = ((base ++ k1) ++ k2) ++ k3
      BY DEF EdgeBox, asked2
    <2> HIDE DEF h1, h2, h3, k1, k2, k3
    <2>3. s1 = base ++ k1
      BY <1>8, <2>1, SharedOverlays
    <2> HIDE DEF s1
    <2>4. s2 = (base ++ k1) ++ k2
      BY <2>1, <2>3, SharedOverlays
    <2> HIDE DEF s2
    <2>5. s3 = ((base ++ k1) ++ k2) ++ k3
      BY <2>1, <2>4, SharedOverlays
    <2> QED
      BY <2>2, <2>5
  <1>18. EdgeBox(base, query, e) = base ++ dims
    <2>1. base ++ resolveDimensions(query, d, 0) = EdgeBox(base, query, e)
      BY <1>3, BoxesAgree
    <2> QED
      BY <2>1 DEF dims
  <1> HIDE DEF s3, g1, g2, g3, g4, g5, f1, f2, f3, f4, f5
  <1>19. s8 = Assembled(base ++ dims, f1, f2, f3, f4, f5)
    <2>1. s4 = (base ++ dims) ++ f1
      BY <1>13, <1>17, <1>18, SharedOverlays
    <2> HIDE DEF s4
    <2>2. s5 = ((base ++ dims) ++ f1) ++ f2
      BY <1>14, <2>1, SharedOverlays
    <2> HIDE DEF s5
    <2>3. s6 = (((base ++ dims) ++ f1) ++ f2) ++ f3
      BY <1>15, <2>2, SharedOverlays
    <2> HIDE DEF s6
    <2>4. s7 = ((((base ++ dims) ++ f1) ++ f2) ++ f3) ++ f4
      BY <1>16, <2>3, SharedOverlays
    <2> HIDE DEF s7
    <2>5. s8 = (((((base ++ dims) ++ f1) ++ f2) ++ f3) ++ f4) ++ f5
      BY <1>16, <2>4, SharedOverlays
    <2> QED
      BY <2>5 DEF Assembled
  <1> HIDE DEF s8
  <1>20. "quality" \in DOMAIN s8
    <2>1. "quality" \in DOMAIN base
      BY DEF base
    <2>2. \A f, g : "quality" \in DOMAIN f => "quality" \in DOMAIN (f ++ g)
      BY OverlayIs
    <2>3. "quality" \in DOMAIN Assembled(base ++ dims, f1, f2, f3, f4, f5)
      BY <2>1, <2>2 DEF Assembled
    <2> QED
      BY <1>19, <2>3
  <1> QED
    BY <1>1, <1>2, <1>19, <1>20, NamesAgree

---------------------------------------------------------------------------
(* Checks.  Both look at the same things in the same order. *)

Unknown(query, p, known) == p \in DOMAIN query /\ lower(query[p]) \notin known

\* A check of a number fails for what the core calls bad ...
LEMMA NumberChecks ==
  ASSUME NEW query, NEW i \in 1..6
  PROVE  /\ ~Edge!checks(query)[i][1] <=> Bad(query, i)
         /\ Edge!checks(query)[i][2] = "invalid_number" /\ Edge!checks(query)[i][3] = NumericParams[i]
PROOF
  <1> DEFINE p == NumericParams[i]
             number == <<Edge!raw(query, p, <<0, 1>>) # <<>>, "invalid_number", p>>
  <1>1. Edge!checks(query)[i] = number
    <2>1. CASE i = 1
      BY <2>1 DEF Edge!checks, NumericParams
    <2>2. CASE i = 2
      BY <2>2 DEF Edge!checks, NumericParams
    <2>3. CASE i = 3
      BY <2>3 DEF Edge!checks, NumericParams
    <2>4. CASE i = 4
      BY <2>4 DEF Edge!checks, NumericParams
    <2>5. CASE i = 5
      BY <2>5 DEF Edge!checks, NumericParams
    <2>6. CASE i = 6
      BY <2>6 DEF Edge!checks, NumericParams
    <2> QED
      BY <2>1, <2>2, <2>3, <2>4, <2>5, <2>6
  <1>2. number[1] <=> ~Bad(query, i)
    <2>1. (Edge!raw(query, p, <<0, 1>>) # <<>>) <=> ~(p \in DOMAIN query /\ query[p] = <<>>)
      BY DEF Edge!raw
    <2> HIDE DEF p
    <2> QED
      BY <2>1 DEF Bad, Unparseable, p
  <1>3. number[2] = "invalid_number" /\ number[3] = p
    OBVIOUS
  <1> HIDE DEF number
  <1> QED
    BY <1>1, <1>2, <1>3

\* ... and one of an enum for what it does not know, in the same order.
LEMMA EnumChecks ==
  ASSUME NEW query
  PROVE  /\ ~Edge!checks(query)[7][1] <=> Unknown(query, "fit", FIT_MODES)
         /\ ~Edge!checks(query)[8][1] <=> Unknown(query, "format", REQUESTED_FORMATS)
         /\ ~Edge!checks(query)[9][1] <=> Unknown(query, "crop", CROP_GRAVITIES)
         /\ Edge!checks(query)[7][2] = "invalid_enum" /\ Edge!checks(query)[7][3] = "fit"
         /\ Edge!checks(query)[8][2] = "invalid_enum" /\ Edge!checks(query)[8][3] = "format"
         /\ "crop" \in DOMAIN query =>
              Edge!checks(query)[9][2] = IF query.crop = "10,20" THEN "unsupported_crop" ELSE "invalid_enum"
         /\ Edge!checks(query)[9][3] = "crop"
         /\ DOMAIN Edge!checks(query) = 1..9
PROOF
  <1> DEFINE rect == "crop" \in DOMAIN query /\ query.crop = "10,20"
  <1>1. /\ lower("cover") \in FIT_MODES /\ lower("auto") \in REQUESTED_FORMATS /\ lower("center") \in CROP_GRAVITIES
        /\ lower("10,20") \notin CROP_GRAVITIES
    BY DEF lower, Lower, FIT_MODES, REQUESTED_FORMATS, OUTPUT_FORMATS, CROP_GRAVITIES
  <1>2. /\ lower(Edge!raw(query, "fit", "cover")) \notin FIT_MODES <=> Unknown(query, "fit", FIT_MODES)
        /\ lower(Edge!raw(query, "format", "auto")) \notin REQUESTED_FORMATS <=> Unknown(query, "format", REQUESTED_FORMATS)
        /\ lower(Edge!raw(query, "crop", "center")) \notin CROP_GRAVITIES <=> Unknown(query, "crop", CROP_GRAVITIES)
        /\ rect => Unknown(query, "crop", CROP_GRAVITIES)
    BY <1>1 DEF Edge!raw, Unknown
  <1>3. /\ Edge!checks(query)[7] =
             <<Edge!has(Edge!Core!FIT_MODES, Edge!Core!lower(Edge!raw(query, "fit", "cover"))), "invalid_enum", "fit">>
        /\ Edge!checks(query)[8] =
             <<Edge!has(Edge!Core!REQUESTED_FORMATS, Edge!Core!lower(Edge!raw(query, "format", "auto"))), "invalid_enum", "format">>
        /\ DOMAIN Edge!checks(query) = 1..9
    BY DEF Edge!checks
  <1>4. Edge!checks(query)[9] =
          IF rect THEN <<FALSE, "unsupported_crop", "crop">>
          ELSE <<Edge!has(Edge!Core!CROP_GRAVITIES, Edge!Core!lower(Edge!raw(query, "crop", "center"))), "invalid_enum", "crop">>
    BY DEF Edge!checks
  <1>5. /\ Edge!has(Edge!Core!FIT_MODES, Edge!Core!lower(Edge!raw(query, "fit", "cover"))) <=> ~Unknown(query, "fit", FIT_MODES)
        /\ Edge!has(Edge!Core!REQUESTED_FORMATS, Edge!Core!lower(Edge!raw(query, "format", "auto"))) <=>
             ~Unknown(query, "format", REQUESTED_FORMATS)
        /\ Edge!has(Edge!Core!CROP_GRAVITIES, Edge!Core!lower(Edge!raw(query, "crop", "center"))) <=>
             ~Unknown(query, "crop", CROP_GRAVITIES)
    BY <1>2, SharedTables, SharedArithmetic DEF Edge!has
  <1>6. /\ ~Edge!checks(query)[7][1] <=> Unknown(query, "fit", FIT_MODES)
        /\ Edge!checks(query)[7][2] = "invalid_enum" /\ Edge!checks(query)[7][3] = "fit"
    BY <1>3, <1>5
  <1>7. /\ ~Edge!checks(query)[8][1] <=> Unknown(query, "format", REQUESTED_FORMATS)
        /\ Edge!checks(query)[8][2] = "invalid_enum" /\ Edge!checks(query)[8][3] = "format"
    BY <1>3, <1>5
  <1>8. /\ ~Edge!checks(query)[9][1] <=> Unknown(query, "crop", CROP_GRAVITIES)
        /\ "crop" \in DOMAIN query =>
             Edge!checks(query)[9][2] = IF query.crop = "10,20" THEN "unsupported_crop" ELSE "invalid_enum"
        /\ Edge!checks(query)[9][3] = "crop"
    <2>1. CASE rect
      <3>1. Edge!checks(query)[9] = <<FALSE, "unsupported_crop", "crop">>
        BY <1>4, <2>1
      <3>2. ~Edge!checks(query)[9][1] /\ Edge!checks(query)[9][2] = "unsupported_crop" /\ Edge!checks(query)[9][3] = "crop"
        BY <3>1
      <3>3. Unknown(query, "crop", CROP_GRAVITIES) /\ query.crop = "10,20"
        BY <1>2, <2>1
      <3> QED
        BY <3>2, <3>3
    <2>2. CASE ~rect
      <3>1. Edge!checks(query)[9] =
              <<Edge!has(Edge!Core!CROP_GRAVITIES, Edge!Core!lower(Edge!raw(query, "crop", "center"))), "invalid_enum", "crop">>
        BY <1>4, <2>2
      <3>2. Edge!checks(query)[9][2] = "invalid_enum" /\ Edge!checks(query)[9][3] = "crop"
        BY <3>1
      <3>3. ~Edge!checks(query)[9][1] <=> Unknown(query, "crop", CROP_GRAVITIES)
        BY <1>5, <3>1
      <3>4. "crop" \in DOMAIN query => query.crop # "10,20"
        BY <2>2
      <3> QED
        BY <3>2, <3>3, <3>4
    <2> QED
      BY <2>1, <2>2
  <1> QED
    BY <1>3, <1>6, <1>7, <1>8

\* What the core answers to a query, and the edge in the same words
SameAnswer(query, accept) ==
  LET core == parseTransform(query, accept, 0, FALSE)
      edge == Edge!normalize(query, accept)
  IN  IF core.ok THEN edge = [variant |-> toVariantName(core.spec)]
      ELSE edge = [error |-> Edge!reject(core.code, core.parameter)]

\* The edge answers the first of the checks that fail.
LEMMA FirstFailure ==
  ASSUME NEW query, NEW accept, NEW i \in 1..9, ~Edge!checks(query)[i][1],
         \A j \in 1..9 : ~Edge!checks(query)[j][1] => i <= j
  PROVE  Edge!normalize(query, accept) = [error |-> Edge!reject(Edge!checks(query)[i][2], Edge!checks(query)[i][3])]
PROOF
  <1> DEFINE failed == {j \in DOMAIN Edge!checks(query) : ~Edge!checks(query)[j][1]}
  <1>1. failed \subseteq Nat /\ i \in failed /\ \A j \in failed : i <= j
    <2>1. DOMAIN Edge!checks(query) = 1..9
      BY EnumChecks
    <2> QED
      BY <2>1
  <1>2. Edge!normalize(query, accept) =
          IF failed = {} THEN [variant |-> Edge!normalizeAccepted(query, accept)]
          ELSE [error |-> Edge!reject(Edge!checks(query)[Edge!Core!Least(failed)][2],
                                      Edge!checks(query)[Edge!Core!Least(failed)][3])]
    BY DEF Edge!normalize
  <1> HIDE DEF failed
  <1>3. Least(failed) = i
    BY <1>1, LeastIs
  <1>4. Edge!Core!Least(failed) = i
    BY <1>3 DEF Edge!Core!Least, Least
  <1> QED
    BY <1>1, <1>2, <1>4

\* When no check fails the edge goes on.
LEMMA NoFailure ==
  ASSUME NEW query, NEW accept, \A j \in 1..9 : Edge!checks(query)[j][1]
  PROVE  Edge!normalize(query, accept) = [variant |-> Edge!normalizeAccepted(query, accept)]
  BY EnumChecks DEF Edge!normalize

\* The functions agree on every query, accepted or not, under every Accept header.
LEMMA EdgeAgrees ==
  ASSUME NEW query, IsQuery(query), NEW accept
  PROVE  SameAnswer(query, accept)
PROOF
  <1> DEFINE bad == {i \in DOMAIN NumericParams : Bad(query, i)}
             fit == Unknown(query, "fit", FIT_MODES)
             format == Unknown(query, "format", REQUESTED_FORMATS)
             crop == Unknown(query, "crop", CROP_GRAVITIES)
             core == parseTransform(query, accept, 0, FALSE)
             edge == Edge!normalize(query, accept)
  <1>1. DOMAIN NumericParams = 1..6
    BY DEF NumericParams
  <1>2. \A i \in 1..6 :
          /\ ~Edge!checks(query)[i][1] <=> Bad(query, i)
          /\ Edge!checks(query)[i][2] = "invalid_number" /\ Edge!checks(query)[i][3] = NumericParams[i]
    BY NumberChecks
  <1>3. core = CASE bad # {} -> Rejected("invalid_number", NumericParams[Least(bad)])
                 [] bad = {} /\ enumError(query) # <<>> -> Rejected(enumError(query)[1], enumError(query)[2])
                 [] OTHER -> [ok |-> TRUE, spec |-> SpecOf(query, accept, 0, FALSE)]
    BY DEF parseTransform
  <1>4. enumError(query) =
          CASE fit -> <<"invalid_enum", "fit">>
            [] ~fit /\ format -> <<"invalid_enum", "format">>
            [] ~fit /\ ~format /\ crop -> <<IF query.crop = "10,20" THEN "unsupported_crop" ELSE "invalid_enum", "crop">>
            [] OTHER -> <<>>
    BY DEF enumError, Unknown
  <1>r. SameAnswer(query, accept) <=>
          IF core.ok THEN edge = [variant |-> toVariantName(core.spec)]
          ELSE edge = [error |-> Edge!reject(core.code, core.parameter)]
    BY DEF SameAnswer
  <1>j. ASSUME NEW code, NEW parameter, core = Rejected(code, parameter), edge = [error |-> Edge!reject(code, parameter)]
        PROVE  SameAnswer(query, accept)
    <2> HIDE DEF core, edge
    <2>1. core.ok = FALSE /\ core.code = code /\ core.parameter = parameter
      BY <1>j DEF Rejected
    <2> QED
      BY <1>r, <1>j, <2>1
  <1> HIDE DEF fit, format, crop, core
  <1>5. CASE bad # {}
    <2>1. bad \subseteq Nat /\ bad \subseteq 1..6
      BY <1>1
    <2>2. PICK i \in bad : \A j \in bad : i <= j
      <3> HIDE DEF bad
      <3> QED
        BY <1>5, <2>1, LeastNatural
    <2>3. Least(bad) = i
      <3> HIDE DEF bad
      <3> QED
        BY <2>1, <2>2, LeastIs
    <2>4. core = Rejected("invalid_number", NumericParams[i])
      <3> HIDE DEF bad
      <3> QED
        BY <1>3, <1>5, <2>3
    <2>5. \A j \in 1..9 : ~Edge!checks(query)[j][1] => i <= j
      <3> SUFFICES ASSUME NEW j \in 1..9, ~Edge!checks(query)[j][1] PROVE i <= j
        OBVIOUS
      <3>1. CASE j \in 1..6
        <4>1. j \in bad
          BY <1>1, <1>2, <3>1
        <4> QED
          BY <2>2, <4>1
      <3>2. CASE j \notin 1..6
        BY <2>1, <2>2, <3>2
      <3> QED
        BY <3>1, <3>2
    <2>6. i \in 1..9 /\ ~Edge!checks(query)[i][1]
      BY <1>2, <2>1, <2>2
    <2>7. edge = [error |-> Edge!reject(Edge!checks(query)[i][2], Edge!checks(query)[i][3])]
      BY <2>5, <2>6, FirstFailure
    <2>8. edge = [error |-> Edge!reject("invalid_number", NumericParams[i])]
      BY <1>2, <2>1, <2>2, <2>7
    <2> QED
      BY <1>j, <2>4, <2>8
  <1>6. ASSUME bad = {}, NEW n \in {7, 8, 9}, NEW code, NEW parameter,
               enumError(query) = <<code, parameter>>,
               \A j \in {7, 8, 9} : j < n => Edge!checks(query)[j][1],
               ~Edge!checks(query)[n][1], Edge!checks(query)[n][2] = code, Edge!checks(query)[n][3] = parameter
        PROVE  SameAnswer(query, accept)
    <2>1. core = Rejected(code, parameter)
      <3>1. enumError(query) # <<>> /\ enumError(query)[1] = code /\ enumError(query)[2] = parameter
        BY <1>6
      <3> HIDE DEF bad
      <3> QED
        BY <1>3, <1>6, <3>1
    <2>2. \A j \in 1..6 : Edge!checks(query)[j][1]
      BY <1>1, <1>2, <1>6
    <2>3. \A j \in 1..9 : ~Edge!checks(query)[j][1] => n <= j
      <3> SUFFICES ASSUME NEW j \in 1..9, ~Edge!checks(query)[j][1] PROVE n <= j
        OBVIOUS
      <3>1. j \in {7, 8, 9}
        BY <2>2
      <3> QED
        BY <1>6, <3>1
    <2>4. edge = [error |-> Edge!reject(code, parameter)]
      BY <1>6, <2>3, FirstFailure
    <2> QED
      BY <1>j, <2>1, <2>4
  <1>7. /\ ~Edge!checks(query)[7][1] <=> fit
        /\ ~Edge!checks(query)[8][1] <=> format
        /\ ~Edge!checks(query)[9][1] <=> crop
        /\ Edge!checks(query)[7][2] = "invalid_enum" /\ Edge!checks(query)[7][3] = "fit"
        /\ Edge!checks(query)[8][2] = "invalid_enum" /\ Edge!checks(query)[8][3] = "format"
        /\ crop => Edge!checks(query)[9][2] = IF query.crop = "10,20" THEN "unsupported_crop" ELSE "invalid_enum"
        /\ Edge!checks(query)[9][3] = "crop"
    BY EnumChecks DEF fit, format, crop, Unknown
  <1>8. CASE bad = {} /\ fit
    <2>1. enumError(query) = <<"invalid_enum", "fit">>
      BY <1>4, <1>8
    <2> HIDE DEF bad, edge
    <2>3. 7 \in {7, 8, 9} /\ \A j \in {7, 8, 9} : j < 7 => Edge!checks(query)[j][1]
      <3>1. 7 \in {7, 8, 9} /\ \A j \in {7, 8, 9} : j < 7 => j \in {}
        OBVIOUS
      <3> QED
        BY <3>1
    <2>4. bad = {} /\ ~Edge!checks(query)[7][1] /\ Edge!checks(query)[7][2] = "invalid_enum" /\ Edge!checks(query)[7][3] = "fit"
      BY <1>7, <1>8
    <2> QED
      BY <1>6, <2>1, <2>3, <2>4, Zenon
  <1>9. CASE bad = {} /\ ~fit /\ format
    <2>1. enumError(query) = <<"invalid_enum", "format">>
      BY <1>4, <1>9
    <2> HIDE DEF bad, edge
    <2>3. 8 \in {7, 8, 9} /\ \A j \in {7, 8, 9} : j < 8 => Edge!checks(query)[j][1]
      <3>1. 8 \in {7, 8, 9} /\ \A j \in {7, 8, 9} : j < 8 => j \in {7}
        OBVIOUS
      <3>2. Edge!checks(query)[7][1]
        BY <1>7, <1>9
      <3> QED
        BY <3>1, <3>2
    <2>4. bad = {} /\ ~Edge!checks(query)[8][1] /\ Edge!checks(query)[8][2] = "invalid_enum" /\ Edge!checks(query)[8][3] = "format"
      BY <1>7, <1>9
    <2> QED
      BY <1>6, <2>1, <2>3, <2>4, Zenon
  <1>10. CASE bad = {} /\ ~fit /\ ~format /\ crop
    <2> DEFINE code == IF query.crop = "10,20" THEN "unsupported_crop" ELSE "invalid_enum"
    <2>1. enumError(query) = <<code, "crop">>
      BY <1>4, <1>10
    <2>2. Edge!checks(query)[9][2] = code
      BY <1>7, <1>10
    <2> HIDE DEF bad, edge, code
    <2>3. 9 \in {7, 8, 9} /\ \A j \in {7, 8, 9} : j < 9 => Edge!checks(query)[j][1]
      <3>1. 9 \in {7, 8, 9} /\ \A j \in {7, 8, 9} : j < 9 => j \in {7, 8}
        OBVIOUS
      <3>2. Edge!checks(query)[7][1] /\ Edge!checks(query)[8][1]
        BY <1>7, <1>10
      <3> QED
        BY <3>1, <3>2
    <2>4. bad = {} /\ ~Edge!checks(query)[9][1] /\ Edge!checks(query)[9][2] = code /\ Edge!checks(query)[9][3] = "crop"
      BY <1>7, <1>10, <2>2
    <2> QED
      BY <1>6, <2>1, <2>3, <2>4, Zenon
  <1>11. CASE bad = {} /\ ~fit /\ ~format /\ ~crop
    <2>1. core = [ok |-> TRUE, spec |-> SpecOf(query, accept, 0, FALSE)]
      <3>1. enumError(query) = <<>>
        BY <1>4, <1>11
      <3> HIDE DEF bad
      <3> QED
        BY <1>3, <1>11, <3>1
    <2>2. \A j \in 1..9 : Edge!checks(query)[j][1]
      <3> SUFFICES ASSUME NEW j \in 1..9 PROVE Edge!checks(query)[j][1]
        OBVIOUS
      <3>1. CASE j \in 1..6
        BY <1>1, <1>2, <1>11, <3>1
      <3>2. CASE j \notin 1..6
        <4>1. j \in {7, 8, 9}
          BY <3>2
        <4> HIDE DEF bad
        <4> QED
          BY <1>7, <1>11, <4>1
      <3> QED
        BY <3>1, <3>2
    <2>3. Accepted(query)
      <3>1. \A i \in 1..6 : NumericParams[i] \in DOMAIN query => query[NumericParams[i]] \in Fraction
        BY <1>1, <1>11 DEF Bad, IsQuery, Fraction
      <3>2. \A p \in {"w", "h", "q", "blur", "sharpen", "dpr"} : \E i \in 1..6 : NumericParams[i] = p
        BY DEF NumericParams
      <3> QED
        BY <3>1, <3>2 DEF Accepted, IsQuery, Hex
    <2>4. edge = [variant |-> toVariantName(SpecOf(query, accept, 0, FALSE))]
      BY <2>2, <2>3, NoFailure, SpecsAgree
    <2> HIDE DEF edge
    <2> QED
      BY <1>r, <2>1, <2>4
  <1> QED
    <2> HIDE DEF bad
    <2> QED
      BY <1>5, <1>8, <1>9, <1>10, <1>11

---------------------------------------------------------------------------
(* Reading a name back.  Each field has a kind of token of its own, so the  *)
(* parser finds the field under its kind and nothing else.                  *)

\* The tokens of a part of a name
Toks(part) == {part[i] : i \in DOMAIN part}

LEMMA ToksOfJoined ==
  ASSUME NEW A, NEW s \in Seq(A), NEW t \in Seq(A)
  PROVE  s \o t \in Seq(A) /\ Toks(s \o t) = Toks(s) \cup Toks(t)
PROOF
  <1>1. s \o t \in Seq(A) /\ Len(s \o t) = Len(s) + Len(t)
    OBVIOUS
  <1>2. DOMAIN (s \o t) = 1..(Len(s) + Len(t)) /\ DOMAIN s = 1..Len(s) /\ DOMAIN t = 1..Len(t)
        /\ Len(s) \in Nat /\ Len(t) \in Nat
    OBVIOUS
  <1>3. \A i \in DOMAIN s : i \in DOMAIN (s \o t) /\ (s \o t)[i] = s[i]
    BY <1>2
  <1>4. \A i \in DOMAIN t : i + Len(s) \in DOMAIN (s \o t) /\ (s \o t)[i + Len(s)] = t[i]
    BY <1>2
  <1>5. \A i \in DOMAIN (s \o t) : i \in DOMAIN s \/ i - Len(s) \in DOMAIN t
    BY <1>2
  <1>6. \A i \in DOMAIN (s \o t) : i \in DOMAIN s \/ (i - Len(s) \in DOMAIN t /\ (s \o t)[i] = t[i - Len(s)])
    <2> TAKE i \in DOMAIN (s \o t)
    <2>1. CASE i \in DOMAIN s
      BY <2>1
    <2>2. CASE i \notin DOMAIN s
      <3>1. i - Len(s) \in DOMAIN t /\ i \in Nat
        BY <1>2, <1>5, <2>2
      <3>2. (i - Len(s)) + Len(s) = i
        BY <1>2, <3>1
      <3> QED
        BY <1>4, <3>1, <3>2
    <2> QED
      BY <2>1, <2>2
  <1>7. Toks(s \o t) \subseteq Toks(s) \cup Toks(t)
    BY <1>3, <1>6 DEF Toks
  <1>8. Toks(s) \cup Toks(t) \subseteq Toks(s \o t)
    BY <1>3, <1>4 DEF Toks
  <1> QED
    BY <1>1, <1>7, <1>8

LEMMA ToksOfField ==
  ASSUME NEW A, NEW spec, NEW field, NEW kind, <<kind, spec[field]>> \in A
  PROVE  /\ Token(spec, field, kind) \in Seq(A)
         /\ Toks(Token(spec, field, kind)) = IF field \in DOMAIN spec THEN {<<kind, spec[field]>>} ELSE {}
  BY DEF Token, Toks

LEMMA ToksOfOne ==
  ASSUME NEW A, NEW t \in A
  PROVE  <<t>> \in Seq(A) /\ Toks(<<t>>) = {t}
  BY DEF Toks

\* The token a field puts in a name
TokenOf(spec, field, kind) == IF field \in DOMAIN spec THEN {<<kind, spec[field]>>} ELSE {}

\* The field of a spec, if it is present
FieldOf(spec, field) == Field(field, field \in DOMAIN spec, spec[field])

\* Where a kind has one token at most, that token is read.
LEMMA KindIsRead ==
  ASSUME NEW name, NEW A, name.tokens \in Seq(A), NEW spec, NEW field, NEW kind,
         {t \in Toks(name.tokens) : t[1] = kind} = TokenOf(spec, field, kind)
  PROVE  /\ tokensOf(name, kind) # {} <=> field \in DOMAIN spec
         /\ Read(name, field, kind) = FieldOf(spec, field)
PROOF
  <1> DEFINE present == field \in DOMAIN spec
             value == spec[field]
             S == tokensOf(name, kind)
             T == name.tokens
  <1>1. DOMAIN T = 1..Len(T) /\ Len(T) \in Nat
    OBVIOUS
  <1>2. S = {i \in DOMAIN T : T[i][1] = kind}
    BY DEF tokensOf
  <1>3. \A i \in S : T[i] \in {t \in Toks(T) : t[1] = kind}
    BY <1>2 DEF Toks
  <1>4. \A t \in Toks(T) : t[1] = kind => \E i \in S : T[i] = t
    BY <1>2 DEF Toks
  <1>9. /\ present => {t \in Toks(T) : t[1] = kind} = {<<kind, value>>}
        /\ ~present => {t \in Toks(T) : t[1] = kind} = {}
    BY DEF TokenOf
  <1> HIDE DEF T
  <1>5. CASE ~present
    <2>1. S = {}
      BY <1>3, <1>5, <1>9
    <2> QED
      BY <1>5, <2>1 DEF Read, Field, FieldOf
  <1>6. CASE present
    <2>1. <<kind, value>> \in Toks(T)
      BY <1>6, <1>9
    <2>2. S # {}
      <3> HIDE DEF S
      <3>1. <<kind, value>>[1] = kind
        OBVIOUS
      <3> QED
        BY <1>4, <2>1, <3>1
    <2>3. \A i \in S : T[i] = <<kind, value>>
      BY <1>3, <1>6, <1>9
    <2>4. IsFiniteSet(S) /\ S \subseteq Int
      <3>1. S \subseteq 1..Len(T)
        BY <1>1, <1>2
      <3>2. IsFiniteSet(1..Len(T))
        BY <1>1, FS_Interval
      <3> QED
        BY <1>1, <3>1, <3>2, FS_Subset
    <2> HIDE DEF S
    <2>5. \E x \in S : \A y \in S : x >= y
      BY <2>2, <2>4, GreatestMember
    <2>6. Greatest(S) \in S
      BY <2>5 DEF Greatest
    <2>7. T[Greatest(S)][2] = value
      BY <2>3, <2>6
    <2>8. Read(name, field, kind) = Field(field, S # {}, T[Greatest(S)][2])
      BY DEF Read, S, T
    <2>9. (S # {}) = TRUE
      BY <2>2
    <2>10. Read(name, field, kind) = Field(field, TRUE, value)
      BY <2>7, <2>8, <2>9 DEF Field
    <2> QED
      BY <1>6, <2>2, <2>10 DEF S, Field, FieldOf
  <1> QED
    BY <1>5, <1>6

AllTokens(spec) ==
  {<<"full">>, <<"w", spec["width"]>>, <<"h", spec["height"]>>, <<"fit", spec["fit"]>>, <<"q", spec["quality"]>>,
   <<"g", spec["gravity"]>>, <<"bg", spec["background"]>>, <<"bl", spec["blur"]>>, <<"sh", spec["sharpen"]>>}

BoxTokens(spec) == TokenOf(spec, "width", "w") \cup TokenOf(spec, "height", "h")

LEMMA TokensOfName ==
  ASSUME NEW spec
  PROVE  /\ toVariantName(spec).tokens \in Seq(AllTokens(spec))
         /\ Toks(toVariantName(spec).tokens)
              = (IF BoxTokens(spec) = {} THEN {<<"full">>} ELSE BoxTokens(spec))
                \cup TokenOf(spec, "fit", "fit") \cup {<<"q", spec["quality"]>>}
                \cup TokenOf(spec, "gravity", "g") \cup TokenOf(spec, "background", "bg")
                \cup TokenOf(spec, "blur", "bl") \cup TokenOf(spec, "sharpen", "sh")
PROOF
  <1> DEFINE A == AllTokens(spec)
             w == Token(spec, "width", "w")
             h == Token(spec, "height", "h")
             fit == Token(spec, "fit", "fit")
             q == << <<"q", spec["quality"]>> >>
             full == << <<"full">> >>
             g == Token(spec, "gravity", "g")
             bg == Token(spec, "background", "bg")
             bl == Token(spec, "blur", "bl")
             sh == Token(spec, "sharpen", "sh")
             box == w \o h
             size == IF box = <<>> THEN full ELSE box
             front == size \o fit
             upToQ == front \o q
             colours == g \o bg
             upToBlur == colours \o bl
             extras == upToBlur \o sh
             tokens == upToQ \o extras
  <1>1. /\ w \in Seq(A) /\ Toks(w) = TokenOf(spec, "width", "w")
        /\ h \in Seq(A) /\ Toks(h) = TokenOf(spec, "height", "h")
        /\ fit \in Seq(A) /\ Toks(fit) = TokenOf(spec, "fit", "fit")
        /\ g \in Seq(A) /\ Toks(g) = TokenOf(spec, "gravity", "g")
        /\ bg \in Seq(A) /\ Toks(bg) = TokenOf(spec, "background", "bg")
        /\ bl \in Seq(A) /\ Toks(bl) = TokenOf(spec, "blur", "bl")
        /\ sh \in Seq(A) /\ Toks(sh) = TokenOf(spec, "sharpen", "sh")
    <2>1. /\ <<"w", spec["width"]>> \in A /\ <<"h", spec["height"]>> \in A /\ <<"fit", spec["fit"]>> \in A
          /\ <<"g", spec["gravity"]>> \in A /\ <<"bg", spec["background"]>> \in A
          /\ <<"bl", spec["blur"]>> \in A /\ <<"sh", spec["sharpen"]>> \in A
      BY DEF AllTokens
    <2>2. \A field, kind : <<kind, spec[field]>> \in A =>
            Token(spec, field, kind) \in Seq(A) /\ Toks(Token(spec, field, kind)) = TokenOf(spec, field, kind)
      BY ToksOfField DEF TokenOf
    <2> HIDE DEF A
    <2> QED
      BY <2>1, <2>2
  <1>2. q \in Seq(A) /\ Toks(q) = {<<"q", spec["quality"]>>} /\ full \in Seq(A) /\ Toks(full) = {<<"full">>}
    BY ToksOfOne DEF AllTokens
  <1>3. toVariantName(spec).tokens = tokens
    BY DEF toVariantName, extrasTokens
  <1> HIDE DEF A, w, h, fit, q, full, g, bg, bl, sh
  <1>4. box \in Seq(A) /\ Toks(box) = BoxTokens(spec)
    BY <1>1, ToksOfJoined DEF BoxTokens
  <1> HIDE DEF box
  <1>5. size \in Seq(A) /\ Toks(size) = IF BoxTokens(spec) = {} THEN {<<"full">>} ELSE BoxTokens(spec)
    <2>1. box = <<>> <=> Toks(box) = {}
      <3>1. Toks(<<>>) = {}
        BY DEF Toks
      <3>2. ASSUME box # <<>> PROVE Toks(box) # {}
        <4>1. 1 \in DOMAIN box
          BY <1>4, <3>2
        <4> QED
          BY <4>1 DEF Toks
      <3> QED
        BY <3>1, <3>2
    <2> QED
      BY <1>2, <1>4, <2>1
  <1> HIDE DEF size
  <1>6. front \in Seq(A) /\ Toks(front) = Toks(size) \cup Toks(fit)
    BY <1>1, <1>5, ToksOfJoined
  <1> HIDE DEF front
  <1>7. upToQ \in Seq(A) /\ Toks(upToQ) = Toks(size) \cup Toks(fit) \cup Toks(q)
    BY <1>2, <1>6, ToksOfJoined
  <1>8. colours \in Seq(A) /\ Toks(colours) = Toks(g) \cup Toks(bg)
    BY <1>1, ToksOfJoined
  <1> HIDE DEF upToQ, colours
  <1>9. upToBlur \in Seq(A) /\ Toks(upToBlur) = Toks(g) \cup Toks(bg) \cup Toks(bl)
    BY <1>1, <1>8, ToksOfJoined
  <1> HIDE DEF upToBlur
  <1>10. extras \in Seq(A) /\ Toks(extras) = Toks(g) \cup Toks(bg) \cup Toks(bl) \cup Toks(sh)
    BY <1>1, <1>9, ToksOfJoined
  <1> HIDE DEF extras
  <1>11. tokens \in Seq(A) /\ Toks(tokens) = (Toks(size) \cup Toks(fit) \cup Toks(q)) \cup Toks(extras)
    BY <1>7, <1>10, ToksOfJoined
  <1> HIDE DEF tokens
  <1>12. Toks(tokens)
           = (IF BoxTokens(spec) = {} THEN {<<"full">>} ELSE BoxTokens(spec))
             \cup TokenOf(spec, "fit", "fit") \cup {<<"q", spec["quality"]>>}
             \cup TokenOf(spec, "gravity", "g") \cup TokenOf(spec, "background", "bg")
             \cup TokenOf(spec, "blur", "bl") \cup TokenOf(spec, "sharpen", "sh")
    <2>1. Toks(tokens) = ((IF BoxTokens(spec) = {} THEN {<<"full">>} ELSE BoxTokens(spec))
                            \cup TokenOf(spec, "fit", "fit") \cup {<<"q", spec["quality"]>>})
                          \cup (TokenOf(spec, "gravity", "g") \cup TokenOf(spec, "background", "bg")
                                  \cup TokenOf(spec, "blur", "bl") \cup TokenOf(spec, "sharpen", "sh"))
      BY <1>1, <1>2, <1>5, <1>10, <1>11
    <2> QED
      BY <2>1, Zenon
  <1> QED
    BY <1>3, <1>11, <1>12 DEF A

\* Each kind is one field's.
LEMMA KindsApart ==
  ASSUME NEW spec, "quality" \in DOMAIN spec, NEW tokens, tokens = toVariantName(spec).tokens
  PROVE  /\ {t \in Toks(tokens) : t[1] = "w"} = TokenOf(spec, "width", "w")
         /\ {t \in Toks(tokens) : t[1] = "h"} = TokenOf(spec, "height", "h")
         /\ {t \in Toks(tokens) : t[1] = "fit"} = TokenOf(spec, "fit", "fit")
         /\ {t \in Toks(tokens) : t[1] = "q"} = TokenOf(spec, "quality", "q")
         /\ {t \in Toks(tokens) : t[1] = "g"} = TokenOf(spec, "gravity", "g")
         /\ {t \in Toks(tokens) : t[1] = "bg"} = TokenOf(spec, "background", "bg")
         /\ {t \in Toks(tokens) : t[1] = "bl"} = TokenOf(spec, "blur", "bl")
         /\ {t \in Toks(tokens) : t[1] = "sh"} = TokenOf(spec, "sharpen", "sh")
PROOF
  <1> DEFINE w == TokenOf(spec, "width", "w")
             h == TokenOf(spec, "height", "h")
             fit == TokenOf(spec, "fit", "fit")
             q == TokenOf(spec, "quality", "q")
             g == TokenOf(spec, "gravity", "g")
             bg == TokenOf(spec, "background", "bg")
             bl == TokenOf(spec, "blur", "bl")
             sh == TokenOf(spec, "sharpen", "sh")
             full == IF w \cup h = {} THEN {<<"full">>} ELSE {}
  <1>1. /\ \A t \in w : t[1] = "w"
        /\ \A t \in h : t[1] = "h"
        /\ \A t \in fit : t[1] = "fit"
        /\ \A t \in q : t[1] = "q"
        /\ \A t \in g : t[1] = "g"
        /\ \A t \in bg : t[1] = "bg"
        /\ \A t \in bl : t[1] = "bl"
        /\ \A t \in sh : t[1] = "sh"
        /\ \A t \in full : t[1] = "full"
    BY DEF TokenOf
  <1>2. q = {<<"q", spec["quality"]>>}
    BY DEF TokenOf
  <1> HIDE DEF w, h, fit, q, g, bg, bl, sh
  <1>3. Toks(tokens) = w \cup h \cup full \cup fit \cup q \cup g \cup bg \cup bl \cup sh
    <2>1. Toks(tokens) = (IF w \cup h = {} THEN {<<"full">>} ELSE w \cup h) \cup fit \cup q \cup g \cup bg \cup bl \cup sh
      BY <1>2, TokensOfName DEF BoxTokens, w, h, fit, g, bg, bl, sh
    <2>2. (IF w \cup h = {} THEN {<<"full">>} ELSE w \cup h) = w \cup h \cup full
      OBVIOUS
    <2> HIDE DEF full
    <2> QED
      BY <2>1, <2>2
  <1> HIDE DEF full
  <1>4. /\ {t \in Toks(tokens) : t[1] = "w"} = w
        /\ {t \in Toks(tokens) : t[1] = "h"} = h
        /\ {t \in Toks(tokens) : t[1] = "fit"} = fit
        /\ {t \in Toks(tokens) : t[1] = "q"} = q
        /\ {t \in Toks(tokens) : t[1] = "g"} = g
        /\ {t \in Toks(tokens) : t[1] = "bg"} = bg
        /\ {t \in Toks(tokens) : t[1] = "bl"} = bl
        /\ {t \in Toks(tokens) : t[1] = "sh"} = sh
    BY <1>1, <1>3
  <1> QED
    BY <1>4 DEF w, h, fit, q, g, bg, bl, sh

\* The fields of a spec that are in S
Rest(spec, S) == [x \in DOMAIN spec \cap S |-> spec[x]]

LEMMA RestGrows ==
  ASSUME NEW spec, NEW S, NEW field
  PROVE  Rest(spec, S) ++ FieldOf(spec, field) = Rest(spec, S \cup {field})
PROOF
  <1> DEFINE f == Rest(spec, S)
             g == FieldOf(spec, field)
             h == Rest(spec, S \cup {field})
  <1>1. DOMAIN f = DOMAIN spec \cap S /\ \A x \in DOMAIN f : f[x] = spec[x]
    BY DEF Rest
  <1>2. DOMAIN g = DOMAIN spec \cap {field} /\ \A x \in DOMAIN g : g[x] = spec[x]
    BY DEF Field, FieldOf
  <1>3. DOMAIN h = DOMAIN spec \cap (S \cup {field}) /\ (\A x \in DOMAIN h : h[x] = spec[x]) /\ h = [x \in DOMAIN h |-> h[x]]
    BY DEF Rest
  <1> HIDE DEF f, g, h
  <1>4. h = f ++ g
    <2>1. DOMAIN h = DOMAIN f \cup DOMAIN g /\ (\A x \in DOMAIN f : h[x] = f[x])
          /\ (\A x \in DOMAIN g \ DOMAIN f : h[x] = g[x])
      BY <1>1, <1>2, <1>3
    <2> QED
      BY <1>3, <2>1, OverlaysAre
  <1> QED
    BY <1>4 DEF f, g, h

SpecFields == {"format", "quality", "width", "height", "fit", "gravity", "background", "blur", "sharpen"}

\* An object with fields of a spec, a format and a quality among them
SpecShaped(spec) ==
  /\ spec = [x \in DOMAIN spec |-> spec[x]]
  /\ DOMAIN spec \subseteq SpecFields
  /\ "format" \in DOMAIN spec /\ spec["format"] \in OUTPUT_FORMATS
  /\ "quality" \in DOMAIN spec

LEMMA ExtensionsInvert ==
  ASSUME NEW format \in OUTPUT_FORMATS
  PROVE  /\ FORMAT_EXTENSIONS[format] \in DOMAIN EXTENSION_FORMATS
         /\ EXTENSION_FORMATS[FORMAT_EXTENSIONS[format]] = format
  BY DEF OUTPUT_FORMATS, FORMAT_EXTENSIONS, EXTENSION_FORMATS

\* What is read in the name of a spec is the spec.
LEMMA SpecIsRead ==
  ASSUME NEW spec, SpecShaped(spec)
  PROVE  specIn(toVariantName(spec)) = spec /\ tokensOf(toVariantName(spec), "q") # {}
PROOF
  <1> DEFINE name == toVariantName(spec)
             tokens == name.tokens
             has(f) == FieldOf(spec, f)
  <1>1. name.ext = FORMAT_EXTENSIONS[spec["format"]]
    BY DEF toVariantName
  <1>2. tokens \in Seq(AllTokens(spec))
    BY TokensOfName
  <1> HIDE DEF name
  <1>3. ASSUME NEW field, NEW kind, {t \in Toks(tokens) : t[1] = kind} = TokenOf(spec, field, kind)
        PROVE  /\ Read(name, field, kind) = has(field)
               /\ tokensOf(name, kind) # {} <=> field \in DOMAIN spec
    <2>1. {t \in Toks(name.tokens) : t[1] = kind} = TokenOf(spec, field, kind) /\ name.tokens \in Seq(AllTokens(spec))
      BY <1>2, <1>3
    <2> QED
      BY <2>1, KindIsRead
  <1>4. /\ Read(name, "quality", "q") = has("quality") /\ tokensOf(name, "q") # {}
        /\ Read(name, "width", "w") = has("width") /\ Read(name, "height", "h") = has("height")
        /\ Read(name, "fit", "fit") = has("fit") /\ Read(name, "gravity", "g") = has("gravity")
        /\ Read(name, "background", "bg") = has("background")
        /\ Read(name, "blur", "bl") = has("blur") /\ Read(name, "sharpen", "sh") = has("sharpen")
    <2>0. "quality" \in DOMAIN spec /\ tokens = toVariantName(spec).tokens
      BY DEF SpecShaped, name
    <2>1. /\ {t \in Toks(tokens) : t[1] = "w"} = TokenOf(spec, "width", "w")
          /\ {t \in Toks(tokens) : t[1] = "h"} = TokenOf(spec, "height", "h")
          /\ {t \in Toks(tokens) : t[1] = "fit"} = TokenOf(spec, "fit", "fit")
          /\ {t \in Toks(tokens) : t[1] = "q"} = TokenOf(spec, "quality", "q")
          /\ {t \in Toks(tokens) : t[1] = "g"} = TokenOf(spec, "gravity", "g")
          /\ {t \in Toks(tokens) : t[1] = "bg"} = TokenOf(spec, "background", "bg")
          /\ {t \in Toks(tokens) : t[1] = "bl"} = TokenOf(spec, "blur", "bl")
          /\ {t \in Toks(tokens) : t[1] = "sh"} = TokenOf(spec, "sharpen", "sh")
      BY <2>0, KindsApart
    <2> HIDE DEF has, tokens
    <2> QED
      BY <1>3, <2>0, <2>1
  <1>5. [format |-> EXTENSION_FORMATS[name.ext]] = Rest(spec, {"format"})
    <2>1. EXTENSION_FORMATS[name.ext] = spec["format"] /\ DOMAIN spec \cap {"format"} = {"format"}
      BY <1>1, ExtensionsInvert DEF SpecShaped
    <2> QED
      BY <2>1 DEF Rest
  <1> DEFINE S1 == {"format"} \cup {"quality"}
             S2 == S1 \cup {"width"}
             S3 == S2 \cup {"height"}
             S4 == S3 \cup {"fit"}
             S5 == S4 \cup {"gravity"}
             S6 == S5 \cup {"background"}
             S7 == S6 \cup {"blur"}
             S8 == S7 \cup {"sharpen"}
             start == [format |-> EXTENSION_FORMATS[name.ext]]
  <1>6. S8 = SpecFields
    BY DEF SpecFields
  <1>7. specIn(name) = start ++ has("quality") ++ has("width") ++ has("height") ++ has("fit")
                         ++ has("gravity") ++ has("background") ++ has("blur") ++ has("sharpen")
    <2> HIDE DEF has
    <2> QED
      BY <1>4 DEF specIn
  <1>8. \A S, f : Rest(spec, S) ++ has(f) = Rest(spec, S \cup {f})
    BY RestGrows
  <1> HIDE DEF has, start, S1
  <1>9. start ++ has("quality") = Rest(spec, S1)
    BY <1>5, <1>8 DEF start, S1
  <1> HIDE DEF S2
  <1>10. start ++ has("quality") ++ has("width") = Rest(spec, S2)
    BY <1>8, <1>9 DEF S2
  <1> HIDE DEF S3
  <1>11. start ++ has("quality") ++ has("width") ++ has("height") = Rest(spec, S3)
    BY <1>8, <1>10 DEF S3
  <1> HIDE DEF S4
  <1>12. start ++ has("quality") ++ has("width") ++ has("height") ++ has("fit") = Rest(spec, S4)
    BY <1>8, <1>11 DEF S4
  <1> HIDE DEF S5
  <1>13. start ++ has("quality") ++ has("width") ++ has("height") ++ has("fit") ++ has("gravity") = Rest(spec, S5)
    BY <1>8, <1>12 DEF S5
  <1> HIDE DEF S6
  <1>14. start ++ has("quality") ++ has("width") ++ has("height") ++ has("fit") ++ has("gravity") ++ has("background")
           = Rest(spec, S6)
    BY <1>8, <1>13 DEF S6
  <1> HIDE DEF S7
  <1>15. start ++ has("quality") ++ has("width") ++ has("height") ++ has("fit") ++ has("gravity") ++ has("background")
           ++ has("blur") = Rest(spec, S7)
    BY <1>8, <1>14 DEF S7
  <1> HIDE DEF S8
  <1>16. specIn(name) = Rest(spec, S8)
    BY <1>7, <1>8, <1>15 DEF S8
  <1>17. Rest(spec, SpecFields) = spec
    <2>1. DOMAIN spec \cap SpecFields = DOMAIN spec /\ spec = [x \in DOMAIN spec |-> spec[x]]
      BY DEF SpecShaped
    <2> QED
      BY <2>1 DEF Rest
  <1> QED
    BY <1>4, <1>6, <1>16, <1>17 DEF name

\* What parsing a request makes of it
NormalSpec(spec) ==
  /\ SpecShaped(spec)
  /\ spec["quality"] \in QUALITY_LEVELS
  /\ "width" \in DOMAIN spec => spec["width"] \in LADDER
  /\ "height" \in DOMAIN spec => spec["height"] \in Nat \ {0}
  /\ "fit" \in DOMAIN spec => spec["fit"] \in CANONICAL_FIT_MODES
  /\ "gravity" \in DOMAIN spec => spec["gravity"] \in CROP_GRAVITIES
  /\ "background" \in DOMAIN spec => Len(spec["background"]) \in {3, 4} /\ isQuantizedBackground(spec["background"])
  /\ "blur" \in DOMAIN spec => spec["blur"] \in BLUR_LEVELS
  /\ "sharpen" \in DOMAIN spec => spec["sharpen"] \in SHARPEN_LEVELS
  /\ hasNormalizedDimensions(spec)
  /\ isFreeOfInertParameters(spec)

\* For every normal spec: the parser of names accepts its name, and reads the spec back.
LEMMA NormalParses ==
  ASSUME NEW spec, NormalSpec(spec)
  PROVE  parseVariantName(toVariantName(spec)).ok /\ parseVariantName(toVariantName(spec)).spec = spec
PROOF
  <1> DEFINE name == toVariantName(spec)
             tokens == name.tokens
  <1>1. SpecShaped(spec)
    BY DEF NormalSpec
  <1>2. specIn(name) = spec /\ tokensOf(name, "q") # {}
    BY <1>1, SpecIsRead
  <1>3. name.ext \in DOMAIN EXTENSION_FORMATS
    BY <1>1, ExtensionsInvert DEF toVariantName, SpecShaped
  <1>4. \A t \in Toks(tokens) : validToken(t)
    <2>1. /\ validToken(<<"full">>)
          /\ \A n \in Nat \ {0} : validToken(<<"w", n>>) /\ validToken(<<"h", n>>)
          /\ \A n \in QUALITY_LEVELS : validToken(<<"q", n>>)
          /\ \A n \in BLUR_LEVELS : validToken(<<"bl", n>>)
          /\ \A n \in SHARPEN_LEVELS : validToken(<<"sh", n>>)
          /\ \A n \in CROP_GRAVITIES : validToken(<<"g", n>>)
          /\ \A n \in CANONICAL_FIT_MODES : validToken(<<"fit", n>>)
          /\ \A n : Len(n) \in {3, 4} /\ isQuantizedBackground(n) => validToken(<<"bg", n>>)
      <3>1. validToken(<<"full">>)
        BY DEF validToken
      <3>2. \A n \in Nat \ {0} : validToken(<<"w", n>>) /\ validToken(<<"h", n>>)
        BY DEF validToken
      <3>3. \A n \in QUALITY_LEVELS : validToken(<<"q", n>>)
        BY DEF validToken
      <3>4. \A n \in BLUR_LEVELS : validToken(<<"bl", n>>)
        BY DEF validToken
      <3>5. \A n \in SHARPEN_LEVELS : validToken(<<"sh", n>>)
        BY DEF validToken
      <3>6. \A n \in CROP_GRAVITIES : validToken(<<"g", n>>)
        BY DEF validToken
      <3>7. \A n \in CANONICAL_FIT_MODES : validToken(<<"fit", n>>)
        BY DEF validToken
      <3>8. \A n : Len(n) \in {3, 4} /\ isQuantizedBackground(n) => validToken(<<"bg", n>>)
        BY DEF validToken
      <3> QED
        BY <3>1, <3>2, <3>3, <3>4, <3>5, <3>6, <3>7, <3>8
    <2>2. "width" \in DOMAIN spec => spec["width"] \in Nat \ {0}
      BY DEF NormalSpec, LADDER, ICON_WIDTHS, DEVICE_WIDTHS
    <2>3. /\ \A t \in TokenOf(spec, "width", "w") : validToken(t)
          /\ \A t \in TokenOf(spec, "height", "h") : validToken(t)
          /\ \A t \in TokenOf(spec, "fit", "fit") : validToken(t)
          /\ validToken(<<"q", spec["quality"]>>)
          /\ \A t \in TokenOf(spec, "gravity", "g") : validToken(t)
          /\ \A t \in TokenOf(spec, "background", "bg") : validToken(t)
          /\ \A t \in TokenOf(spec, "blur", "bl") : validToken(t)
          /\ \A t \in TokenOf(spec, "sharpen", "sh") : validToken(t)
      BY <2>1, <2>2 DEF NormalSpec, TokenOf
    <2> QED
      BY <2>1, <2>3, TokensOfName DEF BoxTokens
  <1>5. \A i \in DOMAIN tokens : validToken(tokens[i])
    BY <1>4 DEF Toks
  <1>6. hasNormalizedDimensions(spec) /\ isFreeOfInertParameters(spec)
    BY DEF NormalSpec
  <1> HIDE DEF name
  <1>7. toVariantName(specIn(name)) = name
    BY <1>2 DEF name
  <1>8. parseVariantName(name) = [ok |-> TRUE, spec |-> specIn(name)]
    BY <1>2, <1>3, <1>5, <1>6, <1>7 DEF parseVariantName
  <1> QED
    BY <1>2, <1>8 DEF name

---------------------------------------------------------------------------
(* What the quantizers give.  Every value of a spec is one its token can    *)
(* spell and the parser takes.                                              *)

MinPercent == 5
MaxPercent == 2000

\* A quantized ratio is a listed one, or a whole number of percent within bounds.
LEMMA QuantizedRatios ==
  ASSUME NEW r \in Fraction
  PROVE  quantizeRatio(r) \in RATIOS \/ \E k \in MinPercent..MaxPercent : quantizeRatio(r) = <<k, 100>>
PROOF
  <1> DEFINE x == Clamped(r)
  <1>1. quantizeRatio(r) = IF Listed(x) = {} THEN <<Round(100 * x[1], x[2]), 100>> ELSE CoreNearest(x)
    BY QuantizedIs
  <1>2. x \in Fraction /\ 5 * x[2] <= 100 * x[1] /\ x[1] <= 20 * x[2]
    BY DEF Clamped, Fraction, MIN_RATIO, MAX_RATIO
  <1> HIDE DEF x
  <1>3. CASE Listed(x) # {}
    <2>1. PICK c \in RATIOS : Near(x, c)
      BY <1>3 DEF Listed
    <2>2. CoreNearest(x) = c
      BY <1>2, <2>1, NearestRatios
    <2> QED
      BY <1>1, <1>3, <2>2
  <1>4. CASE Listed(x) = {}
    <2> DEFINE a == x[1]
               b == x[2]
               k == Round(100 * a, b)
    <2>1. a \in Nat /\ b \in Nat \ {0} /\ 5 * b <= 100 * a /\ a <= 20 * b
      BY <1>2 DEF Fraction
    <2> HIDE DEF a, b
    <2>2. k \in MinPercent..MaxPercent
      <3> DEFINE n == 2 * (100 * a) + b
                 d == 2 * b
      <3>1. n \in Nat /\ d \in Nat \ {0} /\ d * 5 <= n /\ n < d * 2001
        BY <2>1
      <3>2. k = n \div d
        BY DEF Round
      <3> HIDE DEF n, d
      <3>3. n \div d \in Nat /\ d * (n \div d) <= n /\ n < d * ((n \div d) + 1)
        BY <3>1
      <3> DEFINE q == n \div d
      <3>4. q \in Nat /\ d * 5 < d * (q + 1) /\ d * q < d * 2001
        BY <3>1, <3>3
      <3> HIDE DEF q
      <3>5. 5 < q + 1 /\ q < 2001
        BY <3>1, <3>4
      <3> QED
        BY <3>2, <3>4, <3>5 DEF q, MinPercent, MaxPercent
    <2>3. quantizeRatio(r) = <<k, 100>>
      BY <1>1, <1>4 DEF a, b
    <2> QED
      BY <2>2, <2>3
  <1> QED
    BY <1>3, <1>4

\* A colour has three or four channels, each a level.
LEMMA BackgroundsQuantized ==
  ASSUME NEW digits \in Seq(Hex), normalizeBackground(digits) # <<>>
  PROVE  Len(normalizeBackground(digits)) \in {3, 4} /\ isQuantizedBackground(normalizeBackground(digits))
PROOF
  <1> DEFINE byte(i) == IF Len(digits) <= 4 THEN digits[i] * 17 ELSE digits[2 * i - 1] * 16 + digits[2 * i]
             level(i) == Edge!Core!Round(byte(i), 17) * 17
             hex == normalizeBackground(digits)
  <1>1. hex = CASE Len(digits) \in {3, 6} -> [i \in 1..3 |-> level(i)]
                [] Len(digits) \in {4, 8} -> [i \in 1..4 |-> level(i)]
                [] OTHER -> <<>>
    BY BackgroundsAgree DEF Edge!normalizeBackground
  <1>0. Len(digits) \in {3, 6} => Len(digits) \notin {4, 8}
    <2>1. \A n : n = 3 \/ n = 6 => n # 4 /\ n # 8
      OBVIOUS
    <2> HIDE DEF hex, level, byte
    <2> QED
      BY <2>1
  <1>2. ASSUME NEW n \in {3, 4}, Len(digits) \in {n, 2 * n}, hex = [i \in 1..n |-> level(i)]
        PROVE  Len(hex) \in {3, 4} /\ isQuantizedBackground(hex)
    <2>1. \A i \in 1..n : level(i) \in Nat /\ level(i) % 17 = 0
      <3> SUFFICES ASSUME NEW i \in 1..n PROVE level(i) \in Nat /\ level(i) % 17 = 0
        OBVIOUS
      <3>1. byte(i) \in Nat
        <4>1. \A j \in 1..Len(digits) : digits[j] \in Nat
          BY DEF Hex
        <4>2. CASE Len(digits) <= 4
          <5>1. digits[i] \in Nat
            BY <1>2, <4>1, <4>2
          <5> QED
            BY <4>2, <5>1
        <4>3. CASE ~(Len(digits) <= 4)
          <5>1. 2 * i - 1 \in 1..Len(digits) /\ 2 * i \in 1..Len(digits)
            BY <1>2, <4>3
          <5>2. digits[2 * i - 1] \in Nat /\ digits[2 * i] \in Nat
            BY <4>1, <5>1
          <5> QED
            BY <4>3, <5>2
        <4> QED
          BY <4>2, <4>3
      <3> DEFINE b == byte(i)
                 k == (2 * b + 17) \div 34
      <3>2. level(i) = k * 17
        BY DEF Edge!Core!Round
      <3>3. b \in Nat
        BY <3>1
      <3> HIDE DEF b
      <3>4. k \in Nat
        BY <3>3
      <3> HIDE DEF k
      <3>5. (k * 17) % 17 = 0 /\ k * 17 \in Nat
        BY <3>4
      <3> QED
        BY <3>2, <3>5
    <2> HIDE DEF level
    <2>2. hex \in [1..n -> Nat] /\ n \in Nat
      BY <1>2, <2>1
    <2>3. Len(hex) = n /\ DOMAIN hex = 1..n
      BY <2>2
    <2>4. \A i \in DOMAIN hex : hex[i] % 17 = 0
      BY <1>2, <2>1, <2>3
    <2> HIDE DEF hex
    <2> QED
      BY <2>3, <2>4 DEF isQuantizedBackground, BACKGROUND_CHANNEL_STEP
  <1>3. CASE Len(digits) \in {3, 6}
    <2>1. hex = [i \in 1..3 |-> level(i)]
      BY <1>0, <1>1, <1>3
    <2> HIDE DEF hex, level
    <2>2. Len(digits) \in {3, 2 * 3} /\ 3 \in {3, 4}
      BY <1>3
    <2> QED
      BY <1>2, <2>1, <2>2 DEF hex
  <1>4. CASE Len(digits) \in {4, 8}
    <2>1. hex = [i \in 1..4 |-> level(i)]
      BY <1>0, <1>1, <1>4
    <2> HIDE DEF hex, level
    <2>2. Len(digits) \in {4, 2 * 4} /\ 4 \in {3, 4}
      BY <1>4
    <2> QED
      BY <1>2, <2>1, <2>2 DEF hex
  <1> QED
    BY <1>1, <1>3, <1>4

LEMMA Multiplied ==
  ASSUME NEW w \in Nat, NEW a \in Int, NEW b \in Int, a <= b
  PROVE  w * a <= w * b
  OBVIOUS

\* What a rounded share is
LEMMA RoundedBounds ==
  ASSUME NEW n \in Nat, NEW d \in Nat \ {0}
  PROVE  /\ Round(n, d) \in Nat
         /\ 2 * (d * Round(n, d)) <= 2 * n + d /\ 2 * n < 2 * (d * Round(n, d)) + d
PROOF
  <1> DEFINE m == 2 * n + d
             e == 2 * d
             q == m \div e
  <1>1. m \in Nat /\ e \in Nat \ {0}
    OBVIOUS
  <1>2. Round(n, d) = q
    BY DEF Round
  <1> HIDE DEF m, e
  <1>3. q \in Nat /\ e * q <= m /\ m < e * q + e
    BY <1>1
  <1> HIDE DEF q
  <1>4. e * q = 2 * (d * q)
    BY <1>3 DEF e
  <1> QED
    BY <1>2, <1>3, <1>4 DEF m, e

\* Every height the quantizer gives passes the parser's test of heights.  From 32 up the
\* percentage itself lies among the four that are tried; at 16 another one does.
LEMMA HeightsQuantized ==
  ASSUME NEW w \in LADDER, NEW ratio, ratio \in RATIOS \/ \E k \in MinPercent..MaxPercent : ratio = <<k, 100>>
  PROVE  isQuantizedHeight(w, HeightFor(w, ratio)) /\ HeightFor(w, ratio) \in Nat \ {0}
PROOF
  <1>1. w \in Nat /\ 16 <= w /\ (w = 16 \/ 32 <= w)
    BY DEF LADDER, ICON_WIDTHS, DEVICE_WIDTHS
  <1>2. CASE ratio \in RATIOS
    <2> DEFINE a == ratio[1]
               b == ratio[2]
               h == Round(w * a, b)
    <2>1. a \in Nat \ {0} /\ b \in Nat \ {0}
      BY <1>2, RatiosAreFractions
    <2>2. b <= 32 * a - 1
      BY <1>2 DEF RATIOS
    <2>3. HeightFor(w, ratio) = h
      BY DEF HeightFor
    <2> HIDE DEF a, b
    <2>4. w * a \in Nat /\ a * 16 <= a * w
      BY <1>1, <2>1, Multiplied
    <2>5. h \in Nat /\ 2 * (w * a) < 2 * (b * h) + b
      BY <2>1, <2>4, RoundedBounds
    <2> HIDE DEF h
    <2>6. h # 0
      <3> SUFFICES ASSUME h = 0 PROVE FALSE
        OBVIOUS
      <3>1. b * h = 0
        BY <2>1
      <3>2. a * w = w * a
        BY <1>1, <2>1
      <3> QED
        BY <2>1, <2>2, <2>4, <2>5, <3>1, <3>2
    <2> QED
      BY <1>2, <2>3, <2>5, <2>6 DEF isQuantizedHeight
  <1>3. ASSUME NEW k \in MinPercent..MaxPercent, ratio = <<k, 100>>
        PROVE  isQuantizedHeight(w, HeightFor(w, ratio)) /\ HeightFor(w, ratio) \in Nat \ {0}
    <2> DEFINE h == HeightFor(w, ratio)
               f == (h * 100) \div w
    <2>1. k \in Nat /\ 5 <= k /\ k <= 2000 /\ w * k \in Nat
      BY <1>1 DEF MinPercent, MaxPercent
    <2>2. \A j \in Nat : HeightFor(w, <<j, 100>>) = Round(w * j, 100)
      BY DEF HeightFor
    <2>3. h = Round(w * k, 100)
      BY <1>3, <2>1, <2>2
    <2>4. h \in Nat /\ 2 * (100 * h) <= 2 * (w * k) + 100 /\ 2 * (w * k) < 2 * (100 * h) + 100
      <3> DEFINE p == w * k
      <3>1. p \in Nat /\ 100 \in Nat \ {0} /\ h = Round(p, 100)
        BY <2>1, <2>3
      <3> HIDE DEF p, h
      <3>2. h \in Nat /\ 2 * (100 * h) <= 2 * p + 100 /\ 2 * p < 2 * (100 * h) + 100
        BY <3>1, RoundedBounds
      <3> QED
        BY <3>2 DEF p
    <2> HIDE DEF h
    <2>5. h # 0
      <3>1. w * 5 <= w * k
        BY <1>1, <2>1, Multiplied
      <3> QED
        BY <1>1, <2>1, <2>4, <3>1
    <2>6. f \in Nat /\ w * f <= h * 100 /\ h * 100 < w * f + w
      BY <1>1, <2>4
    <2> HIDE DEF f
    <2> DEFINE fits(j) == 5 <= j /\ j <= 2000 /\ HeightFor(w, <<j, 100>>) = h
    <2>7. \E j \in (f - 1)..(f + 2) : fits(j)
      <3>1. CASE 32 <= w
        <4>1. f - 1 <= k
          <5> SUFFICES ASSUME k + 2 <= f PROVE FALSE
            BY <2>1, <2>6
          <5>1. w * (k + 2) <= w * f /\ w * (k + 2) = w * k + 2 * w
            BY <1>1, <2>1, <2>6, Multiplied
          <5> QED
            BY <1>1, <2>1, <2>4, <2>6, <3>1, <5>1
        <4>2. k <= f + 2
          <5> SUFFICES ASSUME f + 3 <= k PROVE FALSE
            BY <2>1, <2>6
          <5>1. w * (f + 3) <= w * k /\ w * (f + 3) = w * f + 3 * w
            BY <1>1, <2>1, <2>6, Multiplied
          <5> QED
            BY <1>1, <2>1, <2>4, <2>6, <3>1, <5>1
        <4>3. k \in (f - 1)..(f + 2)
          BY <2>1, <2>6, <4>1, <4>2
        <4>4. fits(k)
          BY <2>1, <2>2, <2>3
        <4> HIDE DEF fits
        <4> QED
          BY <4>3, <4>4
      <3>2. CASE w = 16
        <4>1. 16 * f <= 100 * h /\ 100 * h < 16 * f + 16 /\ 100 * h <= 16 * k + 50
          BY <2>1, <2>4, <2>6, <3>2
        <4>2. 6 <= f /\ f <= 2000
          BY <2>1, <2>4, <2>5, <2>6, <4>1
        <4>3. Round(16 * f, 100) = h
          <5> DEFINE g == Round(16 * f, 100)
          <5>1. g \in Nat /\ 2 * (100 * g) <= 2 * (16 * f) + 100 /\ 2 * (16 * f) < 2 * (100 * g) + 100
            <6>1. 16 * f \in Nat /\ 100 \in Nat \ {0}
              BY <2>6
            <6> QED
              BY <6>1, RoundedBounds
          <5> HIDE DEF g
          <5>2. g = h
            BY <2>4, <2>6, <4>1, <5>1
          <5> QED
            BY <5>2 DEF g
        <4>4. f \in (f - 1)..(f + 2)
          BY <2>6
        <4>5. fits(f)
          BY <2>2, <2>6, <3>2, <4>2, <4>3
        <4> HIDE DEF fits
        <4> QED
          BY <4>4, <4>5
      <3> QED
        BY <1>1, <3>1, <3>2
    <2>8. isQuantizedHeight(w, h)
      <3> DEFINE low == (h * 100) \div w - 1
      <3>1. (f - 1)..(f + 2) = low..(low + 3)
        <4>1. low = f - 1 /\ low + 3 = f + 2
          BY <2>6 DEF f
        <4> QED
          BY <4>1
      <3>2. (\E j \in low..(low + 3) : fits(j)) => isQuantizedHeight(w, h)
        BY DEF isQuantizedHeight
      <3> HIDE DEF low, fits
      <3> QED
        BY <2>7, <3>1, <3>2
    <2> QED
      BY <2>4, <2>5, <2>8 DEF h
  <1> QED
    BY <1>2, <1>3

\* A spec made of parts: each of its fields comes from one of them.
MadeOf(spec, base, dims, f1, f2, f3, f4, f5) ==
  /\ spec = [x \in DOMAIN spec |-> spec[x]]
  /\ DOMAIN spec = {"format", "quality"} \cup DOMAIN dims \cup DOMAIN f1 \cup DOMAIN f2 \cup DOMAIN f3
                     \cup DOMAIN f4 \cup DOMAIN f5
  /\ \A x \in DOMAIN base : spec[x] = base[x]
  /\ \A x \in DOMAIN dims : spec[x] = dims[x]
  /\ \A x \in DOMAIN f1 : spec[x] = f1[x]
  /\ \A x \in DOMAIN f2 : spec[x] = f2[x]
  /\ \A x \in DOMAIN f3 : spec[x] = f3[x]
  /\ \A x \in DOMAIN f4 : spec[x] = f4[x]
  /\ \A x \in DOMAIN f5 : spec[x] = f5[x]

OverlayOf(h, f, g) ==
  /\ DOMAIN h = DOMAIN f \cup DOMAIN g
  /\ \A x \in DOMAIN f : h[x] = f[x]
  /\ \A x \in DOMAIN g \ DOMAIN f : h[x] = g[x]

LEMMA OverlaysAll == \A f, g : OverlayOf(f ++ g, f, g)
  BY OverlayIs DEF OverlayOf

LEMMA AssembledFields ==
  ASSUME NEW base, DOMAIN base = {"format", "quality"}, NEW dims, DOMAIN dims \subseteq {"width", "height"},
         NEW f1, DOMAIN f1 \subseteq {"fit"}, NEW f2, DOMAIN f2 \subseteq {"gravity"},
         NEW f3, DOMAIN f3 \subseteq {"background"}, NEW f4, DOMAIN f4 \subseteq {"blur"},
         NEW f5, DOMAIN f5 \subseteq {"sharpen"}
  PROVE  MadeOf(Assembled(base ++ dims, f1, f2, f3, f4, f5), base, dims, f1, f2, f3, f4, f5)
PROOF
  <1> DEFINE s0 == base ++ dims
             s1 == s0 ++ f1
             s2 == s1 ++ f2
             s3 == s2 ++ f3
             s4 == s3 ++ f4
             s5 == s4 ++ f5
  <1>1. Assembled(base ++ dims, f1, f2, f3, f4, f5) = s5
    BY DEF Assembled
  <1>2. s5 = [x \in DOMAIN s5 |-> s5[x]]
    <2> HIDE DEF s4
    <2> QED
      BY OverlaysAreFunctions, Zenon
  <1>3. OverlayOf(s0, base, dims)
    BY OverlaysAll
  <1> HIDE DEF s0
  <1>4. OverlayOf(s1, s0, f1)
    BY OverlaysAll
  <1> HIDE DEF s1
  <1>5. OverlayOf(s2, s1, f2)
    BY OverlaysAll
  <1> HIDE DEF s2
  <1>6. OverlayOf(s3, s2, f3)
    BY OverlaysAll
  <1> HIDE DEF s3
  <1>7. OverlayOf(s4, s3, f4)
    BY OverlaysAll
  <1> HIDE DEF s4
  <1>8. OverlayOf(s5, s4, f5)
    BY OverlaysAll
  <1> HIDE DEF s5
  <1>9. /\ \A x \in DOMAIN dims : x \notin DOMAIN base
        /\ \A x \in DOMAIN f1 : x \notin DOMAIN s0
        /\ \A x \in DOMAIN f2 : x \notin DOMAIN s1
        /\ \A x \in DOMAIN f3 : x \notin DOMAIN s2
        /\ \A x \in DOMAIN f4 : x \notin DOMAIN s3
        /\ \A x \in DOMAIN f5 : x \notin DOMAIN s4
    <2>1. DOMAIN s0 \subseteq {"format", "quality", "width", "height"}
      BY <1>3 DEF OverlayOf
    <2>2. DOMAIN s1 \subseteq {"format", "quality", "width", "height", "fit"}
      BY <1>4, <2>1 DEF OverlayOf
    <2>3. DOMAIN s2 \subseteq {"format", "quality", "width", "height", "fit", "gravity"}
      BY <1>5, <2>2 DEF OverlayOf
    <2>4. DOMAIN s3 \subseteq {"format", "quality", "width", "height", "fit", "gravity", "background"}
      BY <1>6, <2>3 DEF OverlayOf
    <2>5. DOMAIN s4 \subseteq {"format", "quality", "width", "height", "fit", "gravity", "background", "blur"}
      BY <1>7, <2>4 DEF OverlayOf
    <2>6. \A x \in {"width", "height"} : x \notin {"format", "quality"}
      OBVIOUS
    <2>7. /\ "fit" \notin DOMAIN s0 /\ "gravity" \notin DOMAIN s1 /\ "background" \notin DOMAIN s2
          /\ "blur" \notin DOMAIN s3 /\ "sharpen" \notin DOMAIN s4
      BY <2>1, <2>2, <2>3, <2>4, <2>5
    <2> QED
      BY <2>6, <2>7
  <1>10. DOMAIN s5 = {"format", "quality"} \cup DOMAIN dims \cup DOMAIN f1 \cup DOMAIN f2 \cup DOMAIN f3
                       \cup DOMAIN f4 \cup DOMAIN f5
    BY <1>3, <1>4, <1>5, <1>6, <1>7, <1>8 DEF OverlayOf
  <1>11. /\ \A x \in DOMAIN f5 : s5[x] = f5[x]
         /\ \A x \in DOMAIN f4 : s5[x] = f4[x]
         /\ \A x \in DOMAIN f3 : s5[x] = f3[x]
         /\ \A x \in DOMAIN f2 : s5[x] = f2[x]
    BY <1>5, <1>6, <1>7, <1>8, <1>9 DEF OverlayOf
  <1>12. /\ \A x \in DOMAIN f1 : s5[x] = f1[x]
         /\ \A x \in DOMAIN dims : s5[x] = dims[x]
         /\ \A x \in DOMAIN base : s5[x] = base[x]
    BY <1>3, <1>4, <1>5, <1>6, <1>7, <1>8, <1>9 DEF OverlayOf
  <1> QED
    BY <1>1, <1>2, <1>10, <1>11, <1>12 DEF MadeOf

\* No enum of the query has a value outside its list.
EnumsKnown(query) ==
  ~Unknown(query, "fit", FIT_MODES) /\ ~Unknown(query, "format", REQUESTED_FORMATS) /\ ~Unknown(query, "crop", CROP_GRAVITIES)

\* The dimensions are on the ladder, or a box whose height the quantizer gave.
LEMMA DimensionsNormal ==
  ASSUME NEW query, Accepted(query), NEW d \in Fraction, NEW dims, dims = resolveDimensions(query, d, 0)
  PROVE  /\ DOMAIN dims \subseteq {"width", "height"}
         /\ "width" \in DOMAIN dims => dims["width"] \in LADDER
         /\ "height" \in DOMAIN dims => dims["height"] \in Nat \ {0}
         /\ "height" \in DOMAIN dims /\ "width" \notin DOMAIN dims => dims["height"] \in LADDER
         /\ "height" \in DOMAIN dims /\ "width" \in DOMAIN dims => isQuantizedHeight(dims["width"], dims["height"])
PROOF
  <1> DEFINE w == snapWidth(query.w, d, 0)
             h == CoreHeight(query, w)
             g == snapWidth(query.h, d, 0)
  <1>1. dims = IF "w" \in DOMAIN query
               THEN IF "h" \in DOMAIN query THEN [width |-> w, height |-> h] ELSE [width |-> w]
               ELSE IF "h" \in DOMAIN query THEN [height |-> g] ELSE <<>>
    BY DEF resolveDimensions, CoreHeight
  <1>2. "w" \in DOMAIN query => query.w \in Fraction /\ w \in LADDER
    <2>1. "w" \in DOMAIN query => query.w \in Fraction
      BY DEF Accepted
    <2>2. Same(d, d)
      BY DEF Same
    <2> QED
      BY <2>1, <2>2, WidthsAgree
  <1>3. "h" \in DOMAIN query => query.h \in Fraction /\ g \in LADDER
    <2>1. "h" \in DOMAIN query => query.h \in Fraction
      BY DEF Accepted
    <2>2. Same(d, d)
      BY DEF Same
    <2> QED
      BY <2>1, <2>2, WidthsAgree
  <1>4. ASSUME "w" \in DOMAIN query, "h" \in DOMAIN query
        PROVE  isQuantizedHeight(w, h) /\ h \in Nat \ {0}
    <2> DEFINE a == floor1(query.h)
               b == floor1(query.w)
               r == <<a[1] * b[2], a[2] * b[1]>>
    <2>1. a \in Fraction /\ b \in Fraction /\ b[1] # 0
      BY <1>2, <1>3, <1>4, FloorsAgree
    <2>2. r \in Fraction
      <3> HIDE DEF a, b
      <3>1. a[1] \in Nat /\ a[2] \in Nat \ {0} /\ b[1] \in Nat \ {0} /\ b[2] \in Nat \ {0}
        BY <2>1 DEF Fraction
      <3>2. a[1] * b[2] \in Nat /\ a[2] * b[1] \in Nat /\ a[2] * b[1] # 0
        BY <3>1
      <3> QED
        BY <3>2 DEF Fraction
    <2>3. h = HeightFor(w, quantizeRatio(r))
      BY DEF CoreHeight
    <2> HIDE DEF r, h, w
    <2>4. quantizeRatio(r) \in RATIOS \/ \E k \in MinPercent..MaxPercent : quantizeRatio(r) = <<k, 100>>
      BY <2>2, QuantizedRatios
    <2>5. w \in LADDER
      BY <1>2, <1>4
    <2> QED
      BY <2>3, <2>4, <2>5, HeightsQuantized
  <1>5. LADDER \subseteq Nat \ {0}
    BY DEF LADDER, ICON_WIDTHS, DEVICE_WIDTHS
  <1> HIDE DEF w, h, g
  <1>6. CASE "w" \in DOMAIN query /\ "h" \in DOMAIN query
    <2>1. dims = [width |-> w, height |-> h]
      BY <1>1, <1>6
    <2>2. DOMAIN dims = {"width", "height"} /\ dims["width"] = w /\ dims["height"] = h
      BY <2>1
    <2>3. w \in LADDER /\ isQuantizedHeight(w, h) /\ h \in Nat \ {0}
      BY <1>2, <1>4, <1>6
    <2> QED
      BY <2>2, <2>3
  <1>7. CASE "w" \in DOMAIN query /\ "h" \notin DOMAIN query
    <2>1. dims = [width |-> w]
      BY <1>1, <1>7
    <2>2. DOMAIN dims = {"width"} /\ dims["width"] = w
      BY <2>1
    <2>3. w \in LADDER
      BY <1>2, <1>7
    <2> QED
      BY <2>2, <2>3
  <1>8. CASE "w" \notin DOMAIN query /\ "h" \in DOMAIN query
    <2>1. dims = [height |-> g]
      BY <1>1, <1>8
    <2>2. DOMAIN dims = {"height"} /\ dims["height"] = g
      BY <2>1
    <2>3. g \in LADDER /\ g \in Nat \ {0}
      BY <1>3, <1>5, <1>8
    <2> QED
      BY <2>2, <2>3
  <1>9. CASE "w" \notin DOMAIN query /\ "h" \notin DOMAIN query
    <2>1. DOMAIN dims = {}
      BY <1>1, <1>9, DimensionsAre
    <2> QED
      BY <2>1
  <1> QED
    BY <1>6, <1>7, <1>8, <1>9

\* The values of the enums are on their lists, the aliases resolved.
LEMMA EnumsNormal ==
  ASSUME NEW query, EnumsKnown(query), NEW accept
  PROVE  /\ normalizeFit(lower(IF "fit" \in DOMAIN query THEN query["fit"] ELSE "cover")) \in CANONICAL_FIT_MODES
         /\ lower(IF "crop" \in DOMAIN query THEN query["crop"] ELSE "center") \in CROP_GRAVITIES
         /\ resolveFormat(lower(IF "format" \in DOMAIN query THEN query["format"] ELSE "auto"), accept, FALSE)
              \in OUTPUT_FORMATS
PROOF
  <1>1. lower("cover") = "cover" /\ lower("center") = "center" /\ lower("auto") = "auto"
    BY DEF lower, Lower
  <1>2. lower(IF "fit" \in DOMAIN query THEN query["fit"] ELSE "cover") \in FIT_MODES
    BY <1>1 DEF EnumsKnown, Unknown, FIT_MODES
  <1>3. lower(IF "crop" \in DOMAIN query THEN query["crop"] ELSE "center") \in CROP_GRAVITIES
    BY <1>1 DEF EnumsKnown, Unknown, CROP_GRAVITIES
  <1>4. lower(IF "format" \in DOMAIN query THEN query["format"] ELSE "auto") \in REQUESTED_FORMATS
    BY <1>1 DEF EnumsKnown, Unknown, REQUESTED_FORMATS
  <1>5. \A fit \in FIT_MODES : normalizeFit(fit) \in CANONICAL_FIT_MODES
    BY DEF FIT_MODES, CANONICAL_FIT_MODES, normalizeFit
  <1>6. resolveAutoFormat(accept, FALSE) \in OUTPUT_FORMATS
    BY DEF resolveAutoFormat, OUTPUT_FORMATS
  <1>7. \A format \in REQUESTED_FORMATS : resolveFormat(format, accept, FALSE) \in OUTPUT_FORMATS
    BY <1>6 DEF resolveFormat, REQUESTED_FORMATS
  <1> QED
    BY <1>2, <1>3, <1>4, <1>5, <1>7

LEMMA LevelsNormal ==
  ASSUME NEW r \in Fraction
  PROVE  quantizeBlur(r) \in BLUR_LEVELS /\ quantizeSharpen(r) \in SHARPEN_LEVELS
PROOF
  <1>1. /\ BLUR_LEVELS \subseteq Nat /\ BLUR_LEVELS # {}
        /\ SHARPEN_LEVELS \subseteq Nat /\ SHARPEN_LEVELS # {}
    BY DEF BLUR_LEVELS, SHARPEN_LEVELS
  <1> QED
    BY <1>1, NearestAgree DEF quantizeBlur, quantizeSharpen

\* For every query whose parameters are all accepted: its spec is normal.
LEMMA SpecsNormal ==
  ASSUME NEW query, Accepted(query), EnumsKnown(query), NEW accept
  PROVE  NormalSpec(SpecOf(query, accept, 0, FALSE))
PROOF
  <1> DEFINE given(p, default) == IF p \in DOMAIN query THEN query[p] ELSE default
             dprRaw == given("dpr", <<1, 1>>)
             d == CoreDpr(dprRaw)
             dims == resolveDimensions(query, d, 0)
             fit == normalizeFit(lower(given("fit", "cover")))
             gravity == lower(given("crop", "center"))
             background == normalizeBackground(given("background", <<>>))
             format == resolveFormat(lower(given("format", "auto")), accept, FALSE)
             blur == quantizeBlur(given("blur", <<0, 1>>))
             sharpen == quantizeSharpen(given("sharpen", <<0, 1>>))
             quality == IF "q" \in DOMAIN query THEN quantizeQuality(query.q) ELSE DEFAULT_QUALITY
             base == [format |-> format, quality |-> quality]
             boxed == {"width", "height"} \subseteq DOMAIN dims
             f1 == Field("fit", boxed, fit)
             f2 == Field("gravity", boxed /\ fitCrops(fit) /\ gravity # "center", gravity)
             f3 == Field("background", boxed /\ fitUsesBackground(fit) /\ background # <<>>, background)
             f4 == Field("blur", blur > 0, blur)
             f5 == Field("sharpen", sharpen > 0, sharpen)
             spec == Assembled(base ++ dims, f1, f2, f3, f4, f5)
  <1>1. SpecOf(query, accept, 0, FALSE) = spec
    BY DEF SpecOf, Assembled, CoreDpr, Num, DEFAULT_FIT, DEFAULT_GRAVITY, Unparseable
  <1>2. /\ d \in Fraction
        /\ given("blur", <<0, 1>>) \in Fraction /\ given("sharpen", <<0, 1>>) \in Fraction
        /\ given("background", <<>>) \in Seq(Hex)
        /\ "q" \in DOMAIN query => query.q \in Fraction
    <2>1. <<0, 1>> \in Fraction /\ <<1, 1>> \in Fraction
      BY DEF Fraction
    <2>2. dprRaw \in Fraction /\ given("blur", <<0, 1>>) \in Fraction /\ given("sharpen", <<0, 1>>) \in Fraction
      BY <2>1 DEF Accepted
    <2>3. given("background", <<>>) \in Seq(Hex)
      BY DEF Accepted
    <2>4. "q" \in DOMAIN query => query.q \in Fraction
      BY DEF Accepted
    <2>5. d \in Fraction
      <3> HIDE DEF dprRaw
      <3> QED
        BY <2>2, DprsAgree
    <2> QED
      BY <2>2, <2>3, <2>4, <2>5
  <1>3. blur \in BLUR_LEVELS /\ sharpen \in SHARPEN_LEVELS
    <2> DEFINE b == given("blur", <<0, 1>>)
               c == given("sharpen", <<0, 1>>)
    <2>1. b \in Fraction /\ c \in Fraction
      BY <1>2
    <2> HIDE DEF b, c
    <2>2. quantizeBlur(b) \in BLUR_LEVELS /\ quantizeSharpen(c) \in SHARPEN_LEVELS
      BY <2>1, LevelsNormal
    <2> QED
      BY <2>2 DEF b, c
  <1>4. background # <<>> => Len(background) \in {3, 4} /\ isQuantizedBackground(background)
    <2> DEFINE digits == given("background", <<>>)
    <2>1. digits \in Seq(Hex)
      BY <1>2
    <2> HIDE DEF digits
    <2>2. normalizeBackground(digits) # <<>> =>
            Len(normalizeBackground(digits)) \in {3, 4} /\ isQuantizedBackground(normalizeBackground(digits))
      BY <2>1, BackgroundsQuantized
    <2> QED
      BY <2>2 DEF digits
  <1>5. fit \in CANONICAL_FIT_MODES /\ gravity \in CROP_GRAVITIES /\ format \in OUTPUT_FORMATS
    BY EnumsNormal
  <1>6. quality \in QUALITY_LEVELS
    <2>1. DEFAULT_QUALITY \in QUALITY_LEVELS
      BY DEF DEFAULT_QUALITY, QUALITY_LEVELS
    <2>2. "q" \in DOMAIN query => quantizeQuality(query.q) \in QUALITY_LEVELS
      BY <1>2, QualitiesAgree
    <2> QED
      BY <2>1, <2>2
  <1>7. /\ DOMAIN dims \subseteq {"width", "height"}
        /\ "width" \in DOMAIN dims => dims["width"] \in LADDER
        /\ "height" \in DOMAIN dims => dims["height"] \in Nat \ {0}
        /\ "height" \in DOMAIN dims /\ "width" \notin DOMAIN dims => dims["height"] \in LADDER
        /\ "height" \in DOMAIN dims /\ "width" \in DOMAIN dims => isQuantizedHeight(dims["width"], dims["height"])
    <2> HIDE DEF d, dims
    <2>1. dims = resolveDimensions(query, d, 0) /\ d \in Fraction
      BY <1>2 DEF dims
    <2> QED
      BY <2>1, DimensionsNormal
  <1> HIDE DEF d, dims, fit, gravity, background, format, blur, sharpen, quality, boxed
  <1>8. DOMAIN base = {"format", "quality"} /\ base["format"] = format /\ base["quality"] = quality
    OBVIOUS
  <1> HIDE DEF base
  <1>9. /\ DOMAIN f1 = (IF boxed THEN {"fit"} ELSE {}) /\ (\A x \in DOMAIN f1 : f1[x] = fit)
        /\ DOMAIN f2 = (IF boxed /\ fitCrops(fit) /\ gravity # "center" THEN {"gravity"} ELSE {})
        /\ (\A x \in DOMAIN f2 : f2[x] = gravity)
        /\ DOMAIN f3 = (IF boxed /\ fitUsesBackground(fit) /\ background # <<>> THEN {"background"} ELSE {})
        /\ (\A x \in DOMAIN f3 : f3[x] = background)
        /\ DOMAIN f4 = (IF blur > 0 THEN {"blur"} ELSE {}) /\ (\A x \in DOMAIN f4 : f4[x] = blur)
        /\ DOMAIN f5 = (IF sharpen > 0 THEN {"sharpen"} ELSE {}) /\ (\A x \in DOMAIN f5 : f5[x] = sharpen)
    BY DEF Field
  <1> HIDE DEF f1, f2, f3, f4, f5
  <1>10. MadeOf(spec, base, dims, f1, f2, f3, f4, f5)
    <2>1. /\ DOMAIN f1 \subseteq {"fit"} /\ DOMAIN f2 \subseteq {"gravity"} /\ DOMAIN f3 \subseteq {"background"}
          /\ DOMAIN f4 \subseteq {"blur"} /\ DOMAIN f5 \subseteq {"sharpen"}
      BY <1>9
    <2>2. DOMAIN base = {"format", "quality"} /\ DOMAIN dims \subseteq {"width", "height"}
      BY <1>7, <1>8
    <2> QED
      BY <2>1, <2>2, AssembledFields, Zenon
  <1> HIDE DEF spec
  <1>11. /\ "format" \in DOMAIN spec /\ spec["format"] = format
         /\ "quality" \in DOMAIN spec /\ spec["quality"] = quality
    BY <1>8, <1>10 DEF MadeOf
  <1>12. DOMAIN spec = {"format", "quality"} \cup DOMAIN dims \cup DOMAIN f1 \cup DOMAIN f2 \cup DOMAIN f3
                         \cup DOMAIN f4 \cup DOMAIN f5
    BY <1>10 DEF MadeOf
  <1>13. /\ "width" \in DOMAIN spec <=> "width" \in DOMAIN dims
         /\ "height" \in DOMAIN spec <=> "height" \in DOMAIN dims
         /\ "fit" \in DOMAIN spec <=> boxed
         /\ "gravity" \in DOMAIN spec <=> boxed /\ fitCrops(fit) /\ gravity # "center"
         /\ "background" \in DOMAIN spec <=> boxed /\ fitUsesBackground(fit) /\ background # <<>>
         /\ "blur" \in DOMAIN spec <=> blur > 0
         /\ "sharpen" \in DOMAIN spec <=> sharpen > 0
    BY <1>7, <1>9, <1>12
  <1>14. /\ "width" \in DOMAIN spec => spec["width"] = dims["width"]
         /\ "height" \in DOMAIN spec => spec["height"] = dims["height"]
         /\ "fit" \in DOMAIN spec => spec["fit"] = fit
         /\ "gravity" \in DOMAIN spec => spec["gravity"] = gravity
         /\ "background" \in DOMAIN spec => spec["background"] = background
         /\ "blur" \in DOMAIN spec => spec["blur"] = blur
         /\ "sharpen" \in DOMAIN spec => spec["sharpen"] = sharpen
    BY <1>9, <1>10, <1>13 DEF MadeOf
  <1>15. SpecShaped(spec)
    <2>1. DOMAIN spec \subseteq SpecFields
      BY <1>7, <1>9, <1>12 DEF SpecFields
    <2>2. spec = [x \in DOMAIN spec |-> spec[x]]
      BY <1>10 DEF MadeOf
    <2> QED
      BY <1>5, <1>11, <2>1, <2>2 DEF SpecShaped
  <1>16. boxed <=> "width" \in DOMAIN dims /\ "height" \in DOMAIN dims
    BY DEF boxed
  <1>17. hasNormalizedDimensions(spec)
    BY <1>7, <1>13, <1>14 DEF hasNormalizedDimensions, isLadderWidth
  <1>18. isFreeOfInertParameters(spec)
    <2>1. blur \in Nat /\ sharpen \in Nat
      BY <1>3 DEF BLUR_LEVELS, SHARPEN_LEVELS
    <2> QED
      BY <1>13, <1>14, <1>16, <2>1 DEF isFreeOfInertParameters, DEFAULT_GRAVITY
  <1>19. NormalSpec(spec)
    BY <1>3, <1>4, <1>5, <1>6, <1>7, <1>11, <1>13, <1>14, <1>15, <1>17, <1>18 DEF NormalSpec
  <1> QED
    BY <1>1, <1>19
=============================================================================
