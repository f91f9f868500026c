----------------------- MODULE NarrationTimingProofs -----------------------
(***************************************************************************)
(* Proofs about NarrationTiming, for any number of blocks, any lengths and *)
(* any rates.                                                              *)
(***************************************************************************)
EXTENDS NarrationTiming, SequenceTheorems, TLAPS, WellFoundedInduction

-----------------------------------------------------------------------------
(* Induction and recursion over the blocks of a plan.                      *)

(* A set of naturals that is not empty has a least element.                *)
LEMMA LeastNatural ==
    ASSUME NEW T \in SUBSET Nat, T # {}
    PROVE  \E x \in T : \A y \in T : x <= y
<1> DEFINE R == OpToRel(<, Nat)
<1>1. \A x, y \in Nat : x < y => <<x, y>> \in R
  BY DEF OpToRel
<1>2. IsWellFoundedOn(R, Nat)
  BY NatLessThanWellFounded
<1> HIDE DEF R
<1>3. PICK x \in T : \A y \in T : ~(<<y, x>> \in R)
  BY <1>2, WFMin
<1>4. ASSUME NEW y \in T PROVE x <= y
  <2>1. x \in Nat /\ y \in Nat
    OBVIOUS
  <2>2. ~(y < x)
    BY <1>1, <1>3, <2>1
  <2> QED BY <2>1, <2>2
<1> QED BY <1>4

(* Upwards: what holds of the first and goes from each to the next.        *)
LEMMA Upwards ==
    ASSUME NEW first \in Nat, NEW last \in Nat, NEW T, first \in T,
           \A i \in (first + 1)..last : i - 1 \in T => i \in T
    PROVE  first <= last => first..last \subseteq T
<1> DEFINE Bad == {i \in first..last : i \notin T}
<1>1. SUFFICES ASSUME Bad # {} PROVE FALSE
  OBVIOUS
<1>2. Bad \in SUBSET Nat
  OBVIOUS
<1>3. PICK i \in Bad : \A k \in Bad : i <= k
  BY <1>1, <1>2, LeastNatural
<1>4. i \in (first + 1)..last /\ i \notin T
  BY <1>3
<1>5. i - 1 \in first..last /\ i - 1 \notin Bad
  BY <1>3, <1>4
<1> QED BY <1>4, <1>5

(* Downwards: what holds of the last and goes from each to the one before. *)
LEMMA Downwards ==
    ASSUME NEW last \in Nat, NEW T, last \in T,
           \A i \in 1..(last - 1) : i + 1 \in T => i \in T
    PROVE  1..last \subseteq T
<1> DEFINE Up == {k \in Nat : last - k \in T}
<1>1. 0 \in Up
  OBVIOUS
<1>2. ASSUME NEW k \in 1..(last - 1), k - 1 \in Up PROVE k \in Up
  <2>1. last - k \in 1..(last - 1) /\ (last - k) + 1 = last - (k - 1)
    OBVIOUS
  <2>2. last - (k - 1) \in T
    BY <1>2
  <2> QED BY <2>1, <2>2
<1> HIDE DEF Up
<1>3. 0 <= last - 1 => 0..(last - 1) \subseteq Up
  <2>1. CASE last = 0
    BY <2>1
  <2>2. CASE last # 0
    <3>1. last - 1 \in Nat /\ 0 \in Nat /\ 0 + 1 = 1
      BY <2>2
    <3> QED BY <1>1, <1>2, <3>1, Upwards
  <2> QED BY <2>1, <2>2
<1>4. ASSUME NEW i \in 1..last PROVE i \in T
  <2>1. last - i \in 0..(last - 1) /\ last - (last - i) = i /\ 0 <= last - 1
    OBVIOUS
  <2>2. last - i \in Up
    BY <1>3, <2>1
  <2> QED BY <2>1, <2>2 DEF Up
<1> QED BY <1>4

(* g begins with a, and H leads from each of its n values to the next.     *)
Unfolds(g, n, S, a, H) ==
    /\ g \in [0..n -> S]
    /\ g[0] = a
    /\ \A i \in 1..n : g[i] = H[i][g[i - 1]]

Recursions(n, S) == [1..n -> [S -> S]]

(* A function that is given by its first value and by a step from each     *)
(* value to the next exists.                                               *)
LEMMA RecursionUpwards ==
    ASSUME NEW n \in Nat, NEW S, NEW a \in S, NEW H \in Recursions(n, S)
    PROVE  \E g : Unfolds(g, n, S, a, H)
<1> USE DEF Recursions
<1> DEFINE Upto(g, k) == g[0] = a /\ \A i \in 1..k : g[i] = H[i][g[i - 1]]
           T == {k \in 0..n : \E g \in [0..n -> S] : Upto(g, k)}
<1>1. 0 \in T
  <2> DEFINE h == [i \in 0..n |-> a]
  <2>1. h \in [0..n -> S] /\ Upto(h, 0) /\ 0 \in 0..n
    OBVIOUS
  <2> HIDE DEF h
  <2> QED BY <2>1
<1>2. ASSUME NEW k \in 1..n, k - 1 \in T PROVE k \in T
  <2>1. PICK g \in [0..n -> S] : Upto(g, k - 1)
    BY <1>2
  <2> DEFINE h == [g EXCEPT ![k] = H[k][g[k - 1]]]
  <2>2. H[k] \in [S -> S] /\ k - 1 \in 0..n
    OBVIOUS
  <2>3. h \in [0..n -> S]
    BY <2>2
  <2>4. \A i \in 0..n : h[i] = IF i = k THEN H[k][g[k - 1]] ELSE g[i]
    OBVIOUS
  <2> HIDE DEF h
  <2>5. Upto(h, k)
    BY <2>1, <2>2, <2>4
  <2> QED BY <2>3, <2>5
<1> HIDE DEF T
<1>3. 0..n \subseteq T
  <2>1. 0 \in Nat /\ 0 + 1 = 1 /\ 0 <= n
    OBVIOUS
  <2> QED BY <1>1, <1>2, <2>1, Upwards
<1>4. n \in T
  BY <1>3
<1> QED BY <1>4 DEF T, Unfolds

-----------------------------------------------------------------------------
(* Numbers.                                                                *)

(* The greater and the lesser of two.                                      *)
LEMMA Extremes ==
    ASSUME NEW a \in Int, NEW b \in Int
    PROVE  /\ AtLeast(a, b) = IF a >= b THEN a ELSE b
           /\ AtMost(a, b) = IF a <= b THEN a ELSE b
<1>1. \E x \in {a, b} : \A y \in {a, b} : x >= y
  OBVIOUS
<1>2. AtLeast(a, b) \in {a, b} /\ AtLeast(a, b) >= a /\ AtLeast(a, b) >= b
  BY <1>1 DEF AtLeast, Max
<1>3. \E x \in {a, b} : \A y \in {a, b} : x =< y
  OBVIOUS
<1>4. AtMost(a, b) \in {a, b} /\ AtMost(a, b) <= a /\ AtMost(a, b) <= b
  BY <1>3 DEF AtMost, Min
<1> QED BY <1>2, <1>4

(* Division by a number of any size.                                       *)
LEMMA Quotient ==
    ASSUME NEW a \in Int, NEW b \in Nat \ {0}
    PROVE  /\ a \div b \in Int
           /\ b * (a \div b) <= a
           /\ a < b * (a \div b) + b
OBVIOUS

(* A greater multiple has a greater factor.                                *)
LEMMA Factors ==
    ASSUME NEW a \in Int, NEW b \in Int, NEW n \in Nat \ {0}, n * a < n * b
    PROVE  a < b
<1>1. SUFFICES ASSUME b <= a PROVE FALSE
  OBVIOUS
<1>2. PICK d \in Nat : a = b + d
  BY <1>1
<1>3. n * a = n * b + n * d /\ n * d >= 0
  BY <1>2
<1> QED BY <1>3

(* A quotient rounded up is the least that is enough.                      *)
LEMMA RoundedUp ==
    ASSUME NEW a \in Int, NEW b \in Nat \ {0}
    PROVE  /\ CeilDiv(a, b) \in Int
           /\ a <= b * CeilDiv(a, b)
           /\ b * CeilDiv(a, b) < a + b
BY Quotient DEF CeilDiv

(* The duration of a block that says something is positive, and enough for *)
(* its work.                                                               *)
LEMMA DurationFacts ==
    ASSUME NEW w, w.work \in Nat \ {0}, NEW s \in Nat \ {0}
    PROVE  /\ DurationAt(w, s) \in Nat \ {0}
           /\ CeilDiv(w.work, s) \in Nat \ {0}
           /\ CeilDiv(w.work, s) * Second <= DurationAt(w, s) * Rate
<1> DEFINE k == CeilDiv(w.work, s)
           d == CeilDiv(k * Second, Rate)
<1>1. k \in Int /\ w.work <= s * k
  BY RoundedUp
<1>2. k > 0
  BY <1>1
<1> HIDE DEF k
<1>3. Rate \in Nat \ {0} /\ Second \in Nat \ {0}
  BY TimingAssumption
<1>4. k * Second \in Int
  BY <1>1, <1>3
<1>5. d \in Int /\ k * Second <= Rate * d
  BY <1>3, <1>4, RoundedUp
<1>6. DurationAt(w, s) = IF 1 >= d THEN 1 ELSE d
  BY <1>5, Extremes DEF DurationAt, k
<1> HIDE DEF d
<1> QED BY <1>1, <1>2, <1>3, <1>5, <1>6 DEF k

(* The speed a bisection ends with is one of those it searched, and it     *)
(* will do if the greatest does: after every round the high bound will do, *)
(* and the bounds are closer by one at least.                              *)
LEMMA BisectFinds ==
    ASSUME NEW lo \in Nat, NEW hi \in Nat, lo <= hi, NEW fits
    PROVE  /\ Bisect(fits, lo, hi) \in lo..hi
           /\ hi \in fits => Bisect(fits, lo, hi) \in fits
<1> DEFINE rounds == hi - lo
           whole == <<lo, hi>>
           Bounds == (lo..hi) \X (lo..hi)
           Round(r) == LET candidate == (r[1] + r[2]) \div 2 IN
                       IF r[1] >= r[2] THEN r
                       ELSE IF candidate \in fits THEN <<r[1], candidate>>
                       ELSE <<candidate + 1, r[2]>>
           Rule(f) == [n \in 0..rounds |-> IF n = 0 THEN whole ELSE Round(f[n - 1])]
           bounds == CHOOSE f : f = Rule(f)
           H == [n \in 1..rounds |-> [r \in Bounds |-> Round(r)]]
           Good(r, room) == /\ r \in Bounds
                            /\ r[1] <= r[2] /\ r[2] - r[1] <= room
                            /\ hi \in fits => r[2] \in fits
<1>1. ASSUME NEW r \in Bounds PROVE Round(r) \in Bounds
  <2>1. PICK l \in lo..hi, h \in lo..hi : r = <<l, h>>
    OBVIOUS
  <2>2. l < h => (l + h) \div 2 \in lo..hi /\ (l + h) \div 2 + 1 \in lo..hi
    BY <2>1
  <2> QED BY <2>1, <2>2
<1>2. ASSUME NEW room \in Nat, NEW r, Good(r, room + 1) PROVE Good(Round(r), room)
  <2>1. PICK l \in lo..hi, h \in lo..hi : r = <<l, h>>
    BY <1>2
  <2>2. l <= h /\ h - l <= room + 1 /\ (hi \in fits => h \in fits)
    BY <1>2, <2>1
  <2> DEFINE candidate == (l + h) \div 2
  <2>3. l < h => l <= candidate /\ candidate < h /\ candidate \in Int
    BY <2>1
  <2> HIDE DEF candidate
  <2>4. CASE l >= h
    <3>1. Round(r) = r
      BY <2>1, <2>4
    <3> QED BY <1>2, <2>1, <2>2, <2>4, <3>1
  <2>5. CASE l < h /\ candidate \in fits
    <3>1. Round(r) = <<l, candidate>>
      BY <2>1, <2>5 DEF candidate
    <3>2. candidate \in lo..hi /\ l <= candidate /\ candidate - l <= room
      BY <2>2, <2>3, <2>5
    <3> QED BY <2>5, <3>1, <3>2
  <2>6. CASE l < h /\ candidate \notin fits
    <3>1. Round(r) = <<candidate + 1, h>>
      BY <2>1, <2>6 DEF candidate
    <3>2. candidate + 1 \in lo..hi /\ candidate + 1 <= h /\ h - (candidate + 1) <= room
      BY <2>2, <2>3, <2>6
    <3> QED BY <2>2, <3>1, <3>2
  <2> QED BY <2>4, <2>5, <2>6
<1>3. Bisect(fits, lo, hi) = bounds[rounds][1]
  BY DEF Bisect
<1>4. whole \in Bounds /\ rounds \in Nat /\ Good(whole, rounds)
  OBVIOUS
<1> HIDE DEF Round, rounds, whole
<1>5. H \in Recursions(rounds, Bounds)
  BY <1>1 DEF Recursions
<1>6. \A n \in 1..rounds, r \in Bounds : H[n][r] = Round(r)
  OBVIOUS
<1>7. ASSUME NEW r, Good(r, 0)
      PROVE  r[1] \in lo..hi /\ (hi \in fits => r[1] \in fits)
  <2>1. PICK l \in lo..hi, h \in lo..hi : r = <<l, h>>
    BY <1>7
  <2>2. l = h
    BY <1>7, <2>1
  <2> QED BY <1>7, <2>1, <2>2
<1>8. \A r, room : Good(r, room) => r \in Bounds
  OBVIOUS
<1> HIDE DEF Bounds, H, Good
<1>9. PICK g : Unfolds(g, rounds, Bounds, whole, H)
  BY <1>4, <1>5, RecursionUpwards
<1>10. g = Rule(g)
  <2>1. ASSUME NEW n \in 1..rounds PROVE g[n] = Round(g[n - 1])
    <3>1. n - 1 \in 0..rounds
      BY <1>4
    <3> QED BY <1>6, <1>9, <3>1 DEF Unfolds
  <2> QED BY <1>4, <1>9, <2>1 DEF Unfolds
<1>11. bounds = Rule(bounds)
  BY <1>10
<1> HIDE DEF bounds
<1> DEFINE T == {n \in 0..rounds : Good(bounds[n], rounds - n)}
<1>12. 0 \in T
  <2>1. bounds[0] = whole /\ rounds - 0 = rounds /\ 0 \in 0..rounds
    BY <1>4, <1>11
  <2> QED BY <1>4, <2>1
<1>13. ASSUME NEW n \in 1..rounds, n - 1 \in T PROVE n \in T
  <2>1. bounds[n] = Round(bounds[n - 1])
    BY <1>4, <1>11
  <2>2. rounds - (n - 1) = (rounds - n) + 1 /\ rounds - n \in Nat /\ n \in 0..rounds
    BY <1>4
  <2> QED BY <1>2, <1>13, <2>1, <2>2
<1>14. rounds \in T
  <2> HIDE DEF T
  <2>1. 0 <= rounds /\ 0 \in Nat /\ 0 + 1 = 1
    BY <1>4
  <2>2. 0..rounds \subseteq T
    BY <1>4, <1>12, <1>13, <2>1, Upwards
  <2> QED BY <1>4, <2>2
<1>15. Good(bounds[rounds], 0)
  <2>1. rounds - rounds = 0
    BY <1>4
  <2> QED BY <1>14, <2>1
<1> QED BY <1>3, <1>7, <1>15

-----------------------------------------------------------------------------
(* The functions of a plan.                                                *)

Windows(ws) ==
    /\ DOMAIN ws = Ordinals /\ Len(ws) = Number
    /\ \A i \in Ordinals :
          /\ ws[i].lower \in Nat /\ ws[i].upper \in Int /\ ws[i].center \in Int
          /\ ws[i].work \in Nat \ {0}

Speeds == Unit..MaxSpeed
AllSpeeds == [Ordinals -> Speeds]

(* What the assumption says of the constants of the speeds.                *)
LEMMA Constants ==
    /\ Speeds \subseteq Nat \ {0} /\ Unit \in Speeds /\ MaxSpeed \in Speeds
    /\ Unit \in Nat /\ MaxSpeed \in Nat /\ Unit <= MaxSpeed
    /\ Number \in Nat \ {0} /\ Delta \in Nat /\ Ordinals \subseteq Nat \ {0}
BY TimingAssumption DEF Speeds, Ordinals

(* n windows with numbers in them: those of a plan, or of one chain.       *)
Timed(ws, n) ==
    /\ DOMAIN ws = 1..n /\ Len(ws) = n
    /\ \A i \in 1..n :
          ws[i].lower \in Nat /\ ws[i].upper \in Int /\ ws[i].work \in Nat \ {0}

SpeedsOf(n) == [1..n -> Speeds]

(* The windows of a plan are timed.                                        *)
LEMMA WindowsAreTimed ==
    ASSUME NEW ws, Windows(ws)
    PROVE  Timed(ws, Number) /\ SpeedsOf(Number) = AllSpeeds /\ Ordinals = 1..Number
BY DEF Windows, Timed, SpeedsOf, AllSpeeds, Ordinals

(* How long each block lasts.                                              *)
LEMMA BlocksLastOf ==
    ASSUME NEW n \in Nat, NEW ws, Timed(ws, n), NEW speeds \in SpeedsOf(n), NEW i \in 1..n
    PROVE  DurationAt(ws[i], speeds[i]) \in Nat \ {0}
<1>1. speeds[i] \in Nat \ {0}
  BY Constants DEF SpeedsOf
<1>2. ws[i].work \in Nat \ {0}
  BY DEF Timed
<1> QED BY <1>1, <1>2, DurationFacts

(* How long each block of a plan lasts.                                    *)
LEMMA BlocksLast ==
    ASSUME NEW ws, Windows(ws), NEW speeds \in AllSpeeds, NEW i \in Ordinals
    PROVE  DurationAt(ws[i], speeds[i]) \in Nat \ {0}
<1>1. Number \in Nat
  BY Constants
<1> QED BY <1>1, WindowsAreTimed, BlocksLastOf

(* The cursor is where each block ends that begins as early as it can.     *)
LEMMA CursorSteps ==
    ASSUME NEW n \in Nat, NEW ws, Timed(ws, n), NEW speeds \in SpeedsOf(n)
    PROVE  /\ \A i \in 0..n : Cursor(ws, speeds)[i] \in Nat
           /\ Cursor(ws, speeds)[0] = 0
           /\ \A i \in 1..n :
                 Cursor(ws, speeds)[i] = AtLeast(ws[i].lower, Cursor(ws, speeds)[i - 1])
                                           + DurationAt(ws[i], speeds[i])
<1> DEFINE Step(i, x) == AtLeast(ws[i].lower, x) + DurationAt(ws[i], speeds[i])
           Rule(f) == [i \in 0..n |-> IF i = 0 THEN 0 ELSE Step(i, f[i - 1])]
           cursor == CHOOSE f : f = Rule(f)
           H == [i \in 1..n |-> [x \in Nat |-> Step(i, x)]]
<1>1. ASSUME NEW i \in 1..n, NEW x \in Nat PROVE Step(i, x) \in Nat
  <2>1. ws[i].lower \in Nat
    BY DEF Timed
  <2>2. AtLeast(ws[i].lower, x) \in Nat
    BY <2>1, Extremes
  <2>3. DurationAt(ws[i], speeds[i]) \in Nat
    BY BlocksLastOf
  <2> QED BY <2>2, <2>3
<1>2. Cursor(ws, speeds) = cursor
  BY DEF Cursor, Timed
<1> HIDE DEF Step
<1>3. H \in Recursions(n, Nat)
  BY <1>1 DEF Recursions
<1>4. \A i \in 1..n, x \in Nat : H[i][x] = Step(i, x)
  OBVIOUS
<1> HIDE DEF H
<1>5. PICK g : Unfolds(g, n, Nat, 0, H)
  <2>1. 0 \in Nat
    OBVIOUS
  <2> QED BY <1>3, <2>1, RecursionUpwards
<1>6. g = Rule(g)
  <2>1. ASSUME NEW i \in 1..n PROVE g[i] = Step(i, g[i - 1])
    <3>1. i - 1 \in 0..n
      OBVIOUS
    <3> QED BY <1>4, <1>5, <3>1 DEF Unfolds
  <2> QED BY <1>5, <2>1 DEF Unfolds
<1>7. cursor = Rule(cursor)
  BY <1>6
<1> HIDE DEF cursor
<1>8. cursor[0] = 0 /\ \A i \in 1..n : cursor[i] = Step(i, cursor[i - 1])
  BY <1>7
<1> DEFINE T == {i \in 0..n : cursor[i] \in Nat}
<1>9. 0 \in T
  BY <1>8
<1>10. ASSUME NEW i \in 1..n, i - 1 \in T PROVE i \in T
  BY <1>1, <1>8, <1>10
<1>11. 0..n \subseteq T
  <2> HIDE DEF T
  <2>1. 0 <= n /\ 0 \in Nat /\ 0 + 1 = 1
    OBVIOUS
  <2> QED BY <1>9, <1>10, <2>1, Upwards
<1> QED BY <1>2, <1>8, <1>11 DEF Step

(* The cursor of a plan.                                                   *)
LEMMA CursorRule ==
    ASSUME NEW ws, Windows(ws), NEW speeds \in AllSpeeds
    PROVE  /\ \A i \in 0..Number : Cursor(ws, speeds)[i] \in Nat
           /\ Cursor(ws, speeds)[0] = 0
           /\ \A i \in Ordinals :
                 Cursor(ws, speeds)[i] = AtLeast(ws[i].lower, Cursor(ws, speeds)[i - 1])
                                           + DurationAt(ws[i], speeds[i])
<1>1. Number \in Nat
  BY Constants
<1> QED BY <1>1, WindowsAreTimed, CursorSteps

(* A set of ordinals that is not empty has a first and a last.             *)
LEMMA FirstAndLast ==
    ASSUME NEW n \in Nat, NEW T \in SUBSET (1..n), T # {}
    PROVE  /\ Min(T) \in T /\ \A y \in T : Min(T) <= y
           /\ Max(T) \in T /\ \A y \in T : y <= Max(T)
<1>1. \E x \in T : \A y \in T : x =< y
  <2>1. T \in SUBSET Nat
    OBVIOUS
  <2> QED BY <2>1, LeastNatural
<1>2. \E x \in T : \A y \in T : x >= y
  <2> DEFINE Below == {n - x : x \in T}
  <2>1. Below \in SUBSET Nat /\ Below # {}
    <3>1. \A x \in T : n - x \in Nat
      OBVIOUS
    <3> QED BY <3>1
  <2>2. PICK b \in Below : \A c \in Below : b <= c
    BY <2>1, LeastNatural
  <2>3. PICK x \in T : b = n - x
    OBVIOUS
  <2>4. ASSUME NEW y \in T PROVE x >= y
    <3>1. n - y \in Below /\ x \in Int /\ y \in Int
      OBVIOUS
    <3>2. n - x <= n - y
      BY <2>2, <2>3, <3>1
    <3> QED BY <3>1, <3>2
  <2> QED BY <2>4
<1>3. Min(T) \in T /\ \A y \in T : Min(T) =< y
  BY <1>1 DEF Min
<1>4. Max(T) \in T /\ \A y \in T : Max(T) >= y
  BY <1>2 DEF Max
<1> QED BY <1>3, <1>4

(* The failure is the first block that ends too late.                      *)
LEMMA FailureIsFirst ==
    ASSUME NEW n \in Nat, NEW ws, Timed(ws, n), NEW speeds \in SpeedsOf(n)
    PROVE  LET f == FirstFailure(ws, speeds)
               InTimeBefore(k) == \A i \in 1..(k - 1) : Cursor(ws, speeds)[i] <= ws[i].upper
           IN \/ f = 0 /\ InTimeBefore(n + 1)
              \/ f \in 1..n /\ Cursor(ws, speeds)[f] > ws[f].upper /\ InTimeBefore(f)
<1> DEFINE late == {i \in DOMAIN ws : Cursor(ws, speeds)[i] > ws[i].upper}
<1>1. late \in SUBSET (1..n) /\ DOMAIN ws = 1..n
  BY DEF Timed
<1>2. ASSUME NEW i \in 1..n, i \notin late PROVE Cursor(ws, speeds)[i] <= ws[i].upper
  <2>1. ~(Cursor(ws, speeds)[i] > ws[i].upper)
    BY <1>1, <1>2
  <2>2. Cursor(ws, speeds)[i] \in Int /\ ws[i].upper \in Int
    BY CursorSteps DEF Timed
  <2> QED BY <2>1, <2>2
<1>3. FirstFailure(ws, speeds) = IF late = {} THEN 0 ELSE Min(late)
  BY DEF FirstFailure
<1>4. CASE late = {}
  <2> HIDE DEF late
  <2>1. (n + 1) - 1 = n
    OBVIOUS
  <2> QED BY <1>2, <1>3, <1>4, <2>1
<1>5. CASE late # {}
  <2>1. Min(late) \in late /\ \A y \in late : Min(late) <= y
    BY <1>1, <1>5, FirstAndLast
  <2>2. Cursor(ws, speeds)[Min(late)] > ws[Min(late)].upper /\ Min(late) \in 1..n
    BY <1>1, <2>1
  <2> HIDE DEF late
  <2>3. ASSUME NEW i \in 1..(Min(late) - 1) PROVE i \in 1..n /\ i \notin late
    BY <2>1, <2>2
  <2> QED BY <1>2, <1>3, <1>5, <2>2, <2>3
<1> QED BY <1>4, <1>5

(* When no block fails, each of them ends within its window.               *)
LEMMA InTime ==
    ASSUME NEW ws, Windows(ws), NEW speeds \in AllSpeeds, FirstFailure(ws, speeds) = 0
    PROVE  \A i \in Ordinals : Cursor(ws, speeds)[i] <= ws[i].upper
<1>1. Number \in Nat /\ (Number + 1) - 1 = Number
  BY Constants
<1> QED BY <1>1, WindowsAreTimed, FailureIsFirst

(* A quotient rounded up grows with what is divided, and falls with what   *)
(* it is divided by.                                                       *)
LEMMA RoundedUpInOrder ==
    ASSUME NEW a \in Nat, NEW b \in Nat, a <= b,
           NEW m \in Nat \ {0}, NEW n \in Nat \ {0}, m <= n
    PROVE  CeilDiv(a, n) <= CeilDiv(b, m)
<1> DEFINE p == CeilDiv(a, n)
           q == CeilDiv(b, m)
<1>1. p \in Int /\ n * p < a + n
  BY RoundedUp
<1>2. q \in Int /\ b <= m * q
  BY RoundedUp
<1> HIDE DEF p, q
<1>3. q >= 0
  <2>1. SUFFICES ASSUME q < 0 PROVE FALSE
    BY <1>2
  <2>2. PICK d \in Nat : q = -1 - d
    BY <1>2, <2>1
  <2>3. m * q = -m - m * d /\ m * d >= 0
    BY <2>2
  <2> QED BY <1>2, <2>3
<1>4. m * q <= n * q
  <2>1. PICK d \in Nat : n = m + d
    OBVIOUS
  <2>2. n * q = m * q + d * q /\ d * q >= 0
    BY <1>2, <1>3, <2>1
  <2> QED BY <1>2, <2>2
<1>5. n * p < n * (q + 1)
  <2>1. n * (q + 1) = n * q + n /\ n * p \in Int /\ n * q \in Int /\ m * q \in Int
    BY <1>1, <1>2
  <2> QED BY <1>1, <1>2, <1>4, <2>1
<1>6. p < q + 1
  BY <1>1, <1>2, <1>5, Factors
<1> QED BY <1>1, <1>2, <1>6 DEF p, q

(* A block lasts no longer at a higher speed.                              *)
LEMMA ShorterWhenFaster ==
    ASSUME NEW w, w.work \in Nat \ {0},
           NEW slow \in Nat \ {0}, NEW fast \in Nat \ {0}, slow <= fast
    PROVE  DurationAt(w, fast) <= DurationAt(w, slow)
<1> DEFINE k == CeilDiv(w.work, fast)
           l == CeilDiv(w.work, slow)
<1>1. k \in Nat /\ l \in Nat
  BY DurationFacts
<1>2. k <= l
  BY RoundedUpInOrder
<1> HIDE DEF k, l
<1>3. Rate \in Nat \ {0} /\ Second \in Nat \ {0}
  BY TimingAssumption
<1>4. k * Second \in Nat /\ l * Second \in Nat /\ k * Second <= l * Second
  BY <1>1, <1>2, <1>3
<1> DEFINE x == k * Second
           y == l * Second
           c == CeilDiv(x, Rate)
           d == CeilDiv(y, Rate)
<1>5. c \in Int /\ d \in Int /\ c <= d
  <2>1. x \in Nat /\ y \in Nat /\ x <= y /\ x \in Int /\ y \in Int
    BY <1>4
  <2> HIDE DEF x, y
  <2>2. c \in Int /\ d \in Int
    BY <1>3, <2>1, RoundedUp
  <2> QED BY <1>3, <2>1, <2>2, RoundedUpInOrder
<1>6. /\ DurationAt(w, fast) = IF 1 >= c THEN 1 ELSE c
      /\ DurationAt(w, slow) = IF 1 >= d THEN 1 ELSE d
  BY <1>5, Extremes DEF DurationAt, k, l
<1> HIDE DEF c, d
<1> QED BY <1>5, <1>6

(* If all blocks are at least as fast, none ends later; so none fails if   *)
(* none failed.                                                            *)
LEMMA EarlierWhenFaster ==
    ASSUME NEW n \in Nat, NEW ws, Timed(ws, n),
           NEW slow \in SpeedsOf(n), NEW fast \in SpeedsOf(n),
           \A i \in 1..n : slow[i] <= fast[i]
    PROVE  /\ \A i \in 0..n : Cursor(ws, fast)[i] <= Cursor(ws, slow)[i]
           /\ FirstFailure(ws, slow) = 0 => FirstFailure(ws, fast) = 0
<1> DEFINE early == Cursor(ws, fast)
           late == Cursor(ws, slow)
           T == {i \in 0..n : early[i] <= late[i]}
<1>1. /\ \A i \in 0..n : early[i] \in Nat /\ late[i] \in Nat
      /\ early[0] = 0 /\ late[0] = 0
      /\ \A i \in 1..n :
            /\ early[i] = AtLeast(ws[i].lower, early[i - 1]) + DurationAt(ws[i], fast[i])
            /\ late[i] = AtLeast(ws[i].lower, late[i - 1]) + DurationAt(ws[i], slow[i])
  BY CursorSteps
<1> HIDE DEF early, late
<1>2. 0 \in T
  BY <1>1
<1>3. ASSUME NEW i \in 1..n, i - 1 \in T PROVE i \in T
  <2>1. /\ ws[i].lower \in Nat /\ ws[i].work \in Nat \ {0}
        /\ slow[i] \in Nat \ {0} /\ fast[i] \in Nat \ {0} /\ slow[i] <= fast[i]
    BY Constants DEF Timed, SpeedsOf
  <2>2. DurationAt(ws[i], fast[i]) <= DurationAt(ws[i], slow[i])
    BY <2>1, ShorterWhenFaster
  <2>3. DurationAt(ws[i], fast[i]) \in Nat /\ DurationAt(ws[i], slow[i]) \in Nat
    BY <2>1, DurationFacts
  <2>4. early[i - 1] \in Nat /\ late[i - 1] \in Nat /\ early[i - 1] <= late[i - 1]
    BY <1>1, <1>3
  <2>5. /\ AtLeast(ws[i].lower, early[i - 1]) \in Nat
        /\ AtLeast(ws[i].lower, late[i - 1]) \in Nat
        /\ AtLeast(ws[i].lower, early[i - 1]) <= AtLeast(ws[i].lower, late[i - 1])
    BY <2>1, <2>4, Extremes
  <2>6. /\ early[i] = AtLeast(ws[i].lower, early[i - 1]) + DurationAt(ws[i], fast[i])
        /\ late[i] = AtLeast(ws[i].lower, late[i - 1]) + DurationAt(ws[i], slow[i])
    BY <1>1
  <2> QED BY <2>2, <2>3, <2>5, <2>6
<1>4. 0..n \subseteq T
  <2> HIDE DEF T
  <2>1. 0 <= n /\ 0 \in Nat /\ 0 + 1 = 1
    OBVIOUS
  <2> QED BY <1>2, <1>3, <2>1, Upwards
<1>5. ASSUME FirstFailure(ws, slow) = 0 PROVE FirstFailure(ws, fast) = 0
  <2>1. \A i \in 1..((n + 1) - 1) : late[i] <= ws[i].upper
    BY <1>5, FailureIsFirst DEF late
  <2>2. ASSUME FirstFailure(ws, fast) # 0 PROVE FALSE
    <3>1. PICK f \in 1..n : early[f] > ws[f].upper
      BY <2>2, FailureIsFirst DEF early
    <3>2. late[f] <= ws[f].upper /\ early[f] <= late[f]
      BY <1>4, <2>1
    <3>3. early[f] \in Nat /\ late[f] \in Nat /\ ws[f].upper \in Int
      BY <1>1 DEF Timed
    <3> QED BY <3>1, <3>2, <3>3
  <2> QED BY <2>2
<1> QED BY <1>4, <1>5 DEF early, late

(* When every block of a schedule has to begin.                            *)
LEMMA LatestRule ==
    ASSUME NEW ws, Windows(ws), NEW length \in [Ordinals -> Nat]
    PROVE  /\ \A i \in Ordinals : Latest(ws, length)[i] \in Int
           /\ Latest(ws, length)[Number] = ws[Number].upper - length[Number]
           /\ \A i \in 1..(Number - 1) :
                 Latest(ws, length)[i] =
                     AtMost(ws[i].upper, Latest(ws, length)[i + 1]) - length[i]
<1> DEFINE Step(i, x) == AtMost(ws[i].upper, x) - length[i]
           last == ws[Number].upper - length[Number]
           Rule(f) == [i \in Ordinals |-> IF i = Number THEN last ELSE Step(i, f[i + 1])]
           latest == CHOOSE f : f = Rule(f)
           n == Number - 1
           H == [k \in 1..n |-> [x \in Int |-> Step(Number - k, x)]]
<1>1. Number \in Nat \ {0} /\ n \in Nat /\ n = Number - 1 /\ Ordinals = 1..Number
  BY Constants DEF Ordinals
<1>2. ASSUME NEW i \in Ordinals, NEW x \in Int PROVE Step(i, x) \in Int
  <2>1. ws[i].upper \in Int /\ length[i] \in Nat
    BY DEF Windows
  <2>2. AtMost(ws[i].upper, x) \in Int
    BY <2>1, Extremes
  <2> QED BY <2>1, <2>2
<1>3. last \in Int
  <2>1. Number \in Ordinals
    BY <1>1
  <2>2. ws[Number].upper \in Int /\ length[Number] \in Nat
    BY <2>1 DEF Windows
  <2> QED BY <2>2
<1>4. Latest(ws, length) = latest
  <2>1. \A f, i : i = Number => (ws[i].upper - length[i]) = last
    OBVIOUS
  <2>2. \A f : [i \in Ordinals |-> IF i = Number THEN ws[i].upper - length[i]
                                   ELSE Step(i, f[i + 1])] = Rule(f)
    BY <2>1
  <2> QED BY <2>2 DEF Latest, Windows
<1> HIDE DEF Step, last, n
<1>5. H \in Recursions(n, Int)
  <2>1. \A k \in 1..n : Number - k \in Ordinals
    BY <1>1
  <2> QED BY <1>2, <2>1 DEF Recursions
<1>6. \A k \in 1..n, x \in Int : H[k][x] = Step(Number - k, x)
  OBVIOUS
<1> HIDE DEF H
<1>7. PICK g : Unfolds(g, n, Int, last, H)
  BY <1>1, <1>3, <1>5, RecursionUpwards
<1> DEFINE h == [i \in Ordinals |-> g[Number - i]]
<1>8. h = Rule(h)
  <2>1. ASSUME NEW i \in Ordinals PROVE h[i] = IF i = Number THEN last ELSE Step(i, h[i + 1])
    <3>1. CASE i = Number
      BY <1>1, <1>7, <3>1 DEF Unfolds
    <3>2. CASE i # Number
      <4>1. /\ Number - i \in 1..n /\ Number - (i + 1) = (Number - i) - 1
            /\ (Number - i) - 1 \in 0..n /\ i + 1 \in Ordinals /\ Number - (Number - i) = i
        BY <1>1, <3>2
      <4>2. g[Number - i] = Step(i, g[(Number - i) - 1])
        BY <1>6, <1>7, <4>1 DEF Unfolds
      <4> QED BY <3>2, <4>1, <4>2
    <3> QED BY <3>1, <3>2
  <2> QED BY <2>1
<1>9. latest = Rule(latest)
  BY <1>8
<1> HIDE DEF latest
<1>10. /\ latest[Number] = last
       /\ \A i \in 1..(Number - 1) : latest[i] = Step(i, latest[i + 1])
  BY <1>1, <1>9
<1> DEFINE T == {i \in Ordinals : latest[i] \in Int}
<1>11. Number \in T
  BY <1>1, <1>3, <1>10
<1>12. ASSUME NEW i \in 1..(Number - 1), i + 1 \in T PROVE i \in T
  <2>1. i \in Ordinals /\ latest[i + 1] \in Int
    BY <1>1, <1>12
  <2>2. latest[i] \in Int
    BY <1>2, <1>10, <2>1
  <2> QED BY <2>1, <2>2
<1>13. Ordinals \subseteq T
  <2> HIDE DEF T
  <2> QED BY <1>1, <1>11, <1>12, Downwards
<1> QED BY <1>4, <1>10, <1>13 DEF Step, last

(* A feasible schedule is centred inside its windows, each block for as    *)
(* long as it lasts and none before the one before it has ended.           *)
LEMMA CenteredFits ==
    ASSUME NEW ws, Windows(ws), NEW speeds \in AllSpeeds, FirstFailure(ws, speeds) = 0
    PROVE  /\ Centered(ws, speeds) \in [Ordinals -> [start : Nat, end : Nat]]
           /\ \A i \in Ordinals :
                 LET slot == Centered(ws, speeds)[i] IN
                 /\ ws[i].lower <= slot.start /\ slot.end <= ws[i].upper
                 /\ slot.end = slot.start + DurationAt(ws[i], speeds[i])
           /\ \A i \in 2..Number :
                 Centered(ws, speeds)[i - 1].end <= Centered(ws, speeds)[i].start
<1> DEFINE length == [i \in Ordinals |-> DurationAt(ws[i], speeds[i])]
           latest == Latest(ws, length)
           lower(i, x) == IF i = 1 THEN ws[1].lower
                          ELSE AtLeast(ws[i].lower, x + length[i - 1])
           Step(i, x) == AtMost(AtLeast(ws[i].center - length[i] \div 2, lower(i, x)), latest[i])
           Rule(f) == [i \in Ordinals |-> Step(i, f[i - 1])]
           start == CHOOSE f : f = Rule(f)
           H == [i \in 1..Number |-> [x \in Int |-> Step(i, x)]]
           cursor == Cursor(ws, speeds)
<1>1. Centered(ws, speeds)
        = [i \in Ordinals |-> [start |-> start[i], end |-> start[i] + length[i]]]
  BY DEF Centered, Windows
<1>2. length \in [Ordinals -> Nat \ {0}] /\ length \in [Ordinals -> Nat]
  BY BlocksLast
<1>3. \A i \in Ordinals : length[i] = DurationAt(ws[i], speeds[i])
  OBVIOUS
<1> HIDE DEF length
<1>4. /\ \A i \in Ordinals : latest[i] \in Int
      /\ latest[Number] = ws[Number].upper - length[Number]
      /\ \A i \in 1..(Number - 1) : latest[i] = AtMost(ws[i].upper, latest[i + 1]) - length[i]
  BY <1>2, LatestRule
<1>5. Number \in Nat \ {0} /\ Ordinals = 1..Number
  BY Constants DEF Ordinals
<1>6. /\ \A i \in 0..Number : cursor[i] \in Nat
      /\ cursor[0] = 0
      /\ \A i \in Ordinals : cursor[i] = AtLeast(ws[i].lower, cursor[i - 1]) + length[i]
  BY <1>3, CursorRule
<1>7. \A i \in Ordinals : cursor[i] <= ws[i].upper
  BY InTime
<1>8. \A i \in Ordinals : /\ ws[i].lower \in Nat /\ ws[i].upper \in Int
                          /\ ws[i].center \in Int /\ length[i] \in Nat \ {0}
  BY <1>2 DEF Windows
<1> HIDE DEF latest, cursor
(* What the cursor reaches leaves the latest start as late. *)
<1> DEFINE Late == {i \in Ordinals : cursor[i] - length[i] <= latest[i]}
<1>9. Number \in Late
  BY <1>4, <1>5, <1>6, <1>7, <1>8
<1>10. ASSUME NEW i \in 1..(Number - 1), i + 1 \in Late PROVE i \in Late
  <2>1. /\ i \in Ordinals /\ i + 1 \in Ordinals /\ i \in 0..Number /\ i + 1 \in 0..Number
        /\ (i + 1) - 1 = i
    BY <1>5
  <2>2. cursor[i + 1] - length[i + 1] >= cursor[i]
    <3>1. cursor[i + 1] = AtLeast(ws[i + 1].lower, cursor[i]) + length[i + 1]
      BY <1>6, <2>1
    <3>2. /\ cursor[i] \in Nat /\ ws[i + 1].lower \in Nat /\ length[i + 1] \in Nat
      BY <1>6, <1>8, <2>1
    <3>3. AtLeast(ws[i + 1].lower, cursor[i]) \in Int
          /\ AtLeast(ws[i + 1].lower, cursor[i]) >= cursor[i]
      BY <3>2, Extremes
    <3> QED BY <3>1, <3>2, <3>3
  <2>3. latest[i + 1] \in Int /\ ws[i].upper \in Int /\ cursor[i] \in Nat
        /\ cursor[i + 1] \in Nat /\ length[i] \in Nat /\ length[i + 1] \in Nat
    BY <1>4, <1>6, <1>8, <2>1
  <2>4. cursor[i] <= AtMost(ws[i].upper, latest[i + 1])
        /\ AtMost(ws[i].upper, latest[i + 1]) \in Int
    BY <1>7, <1>10, <2>1, <2>2, <2>3, Extremes
  <2>5. latest[i] = AtMost(ws[i].upper, latest[i + 1]) - length[i]
    BY <1>4
  <2> QED BY <2>1, <2>3, <2>4, <2>5
<1>11. Ordinals \subseteq Late
  <2> HIDE DEF Late
  <2> QED BY <1>5, <1>9, <1>10, Downwards
<1>12. ASSUME NEW i \in Ordinals
       PROVE  ws[i].lower <= latest[i] /\ latest[i] + length[i] <= ws[i].upper
  <2>1. i \in 0..Number /\ i - 1 \in 0..Number
    BY <1>5
  <2>2. ws[i].lower <= cursor[i] - length[i]
    BY <1>6, <1>8, <2>1, Extremes
  <2>3. latest[i] + length[i] <= ws[i].upper
    <3>1. CASE i = Number
      BY <1>4, <1>8, <3>1
    <3>2. CASE i # Number
      <4>1. i \in 1..(Number - 1) /\ i + 1 \in Ordinals
        BY <1>5, <3>2
      <4> QED BY <1>4, <1>8, <4>1, Extremes
    <3> QED BY <3>1, <3>2
  <2>4. latest[i] \in Int /\ cursor[i] \in Nat /\ length[i] \in Nat /\ ws[i].lower \in Nat
    BY <1>4, <1>6, <1>8, <2>1
  <2> QED BY <1>11, <2>2, <2>3, <2>4
(* The starts exist, and are numbers. *)
<1>13. ASSUME NEW i \in Ordinals, NEW x \in Int
       PROVE  /\ lower(i, x) \in Int /\ Step(i, x) \in Int /\ Step(i, x) <= latest[i]
              /\ lower(i, x) <= latest[i] => lower(i, x) <= Step(i, x)
  <2>1. lower(i, x) \in Int
    <3>1. i # 1 => i - 1 \in Ordinals
      BY <1>5
    <3>2. 1 \in Ordinals
      BY <1>5
    <3> QED BY <1>8, <3>1, <3>2, Extremes
  <2> HIDE DEF lower
  <2> DEFINE wish == ws[i].center - length[i] \div 2
  <2>2. wish \in Int /\ latest[i] \in Int
    BY <1>4, <1>8
  <2> HIDE DEF wish
  <2>3. Step(i, x) = AtMost(AtLeast(wish, lower(i, x)), latest[i])
    BY DEF wish
  <2>4. AtLeast(wish, lower(i, x)) \in Int /\ AtLeast(wish, lower(i, x)) >= lower(i, x)
    BY <2>1, <2>2, Extremes
  <2> QED BY <2>1, <2>2, <2>3, <2>4, Extremes
<1>14. H \in Recursions(Number, Int)
  BY <1>5, <1>13 DEF Recursions
<1> HIDE DEF lower, Step
<1>15. \A i \in 1..Number, x \in Int : H[i][x] = Step(i, x)
  OBVIOUS
<1> HIDE DEF H
<1>16. PICK g : Unfolds(g, Number, Int, 0, H)
  <2>1. Number \in Nat /\ 0 \in Int
    BY <1>5
  <2> QED BY <1>14, <2>1, RecursionUpwards
<1> DEFINE h == [i \in Ordinals |-> g[i]]
<1>17. ASSUME NEW i \in Ordinals PROVE Step(i, g[i - 1]) = Step(i, h[i - 1])
  <2>1. CASE i = 1
    BY <2>1 DEF Step, lower
  <2>2. CASE i # 1
    <3>1. i - 1 \in Ordinals
      BY <1>5, <2>2
    <3> QED BY <3>1
  <2> QED BY <2>1, <2>2
<1>18. h = Rule(h)
  <2>1. ASSUME NEW i \in Ordinals PROVE h[i] = Step(i, h[i - 1])
    <3>1. g[i] = Step(i, g[i - 1])
      <4>1. i \in 1..Number /\ i - 1 \in 0..Number
        BY <1>5
      <4> QED BY <1>15, <1>16, <4>1 DEF Unfolds
    <3> QED BY <1>17, <3>1
  <2> QED BY <2>1
<1>19. start = Rule(start)
  BY <1>18
<1> HIDE DEF start
<1>20. \A i \in Ordinals : start[i] = Step(i, start[i - 1])
  BY <1>19
<1> DEFINE T == {i \in Ordinals : start[i] \in Int}
<1>21. 1 \in T
  <2>1. start[1] = Step(1, 0)
    <3>1. Step(1, start[1 - 1]) = Step(1, 0)
      BY DEF Step, lower
    <3> QED BY <1>5, <1>20, <3>1
  <2>2. 1 \in Ordinals /\ 0 \in Int
    BY <1>5
  <2>3. Step(1, 0) \in Int
    BY <1>13, <2>2
  <2> QED BY <2>1, <2>2, <2>3
<1>22. ASSUME NEW i \in (1 + 1)..Number, i - 1 \in T PROVE i \in T
  <2>1. i \in Ordinals /\ start[i - 1] \in Int
    BY <1>5, <1>22
  <2> QED BY <1>13, <1>20, <2>1
<1>23. Ordinals \subseteq T
  <2> HIDE DEF T
  <2>1. 1 \in Nat /\ 1 <= Number
    BY <1>5
  <2> QED BY <1>5, <1>21, <1>22, <2>1, Upwards
(* Every block begins in its window, after the one before it. *)
<1>24. ASSUME NEW i \in Ordinals
       PROVE  /\ start[i] \in Int /\ start[i] <= latest[i]
              /\ ws[i].lower <= start[i] /\ start[i] + length[i] <= ws[i].upper
              /\ i # 1 => start[i - 1] + length[i - 1] <= start[i]
  <2>1. start[i] \in Int /\ latest[i] \in Int /\ length[i] \in Nat
    BY <1>4, <1>8, <1>23
  <2>2. CASE i = 1
    <3>1. start[i] = Step(i, 0) /\ lower(i, 0) = ws[i].lower
      <4>1. Step(1, start[1 - 1]) = Step(1, 0)
        BY DEF Step, lower
      <4> QED BY <1>20, <2>2, <4>1 DEF lower
    <3> QED BY <1>8, <1>12, <1>13, <2>1, <2>2, <3>1
  <2>3. CASE i # 1
    <3>1. i - 1 \in Ordinals /\ i - 1 \in 1..(Number - 1) /\ (i - 1) + 1 = i
      BY <1>5, <2>3
    <3> DEFINE x == start[i - 1]
               j == i - 1
    <3>2. x \in Int /\ length[j] \in Nat /\ x <= latest[j] /\ latest[j] \in Int
      <4>1. start[j] = Step(j, start[j - 1])
        BY <1>20, <3>1
      <4>2. j = 1 => start[j] <= latest[j]
        <5>1. Step(1, start[1 - 1]) = Step(1, 0)
          BY DEF Step, lower
        <5> QED BY <1>13, <3>1, <4>1, <5>1
      <4>3. j # 1 => start[j] <= latest[j]
        <5>1. j # 1 => j - 1 \in Ordinals
          BY <1>5, <3>1
        <5> QED BY <1>13, <1>23, <3>1, <4>1, <5>1
      <4> QED BY <1>4, <1>8, <1>23, <3>1, <4>2, <4>3
    <3>3. latest[j] + length[j] <= latest[i]
      <4>1. latest[j] = AtMost(ws[j].upper, latest[i]) - length[j]
        BY <1>4, <3>1
      <4>2. ws[j].upper \in Int
        BY <1>8, <3>1
      <4> QED BY <2>1, <3>2, <4>1, <4>2, Extremes
    <3> HIDE DEF x
    <3>4. /\ lower(i, x) = AtLeast(ws[i].lower, x + length[j])
          /\ start[i] = Step(i, x)
      BY <1>20, <2>3 DEF lower, x
    <3>5. /\ ws[i].lower \in Nat /\ ws[i].lower <= latest[i]
          /\ latest[i] + length[i] <= ws[i].upper /\ ws[i].upper \in Int
      BY <1>8, <1>12
    <3>6. /\ lower(i, x) >= ws[i].lower /\ lower(i, x) >= x + length[j]
          /\ lower(i, x) <= latest[i]
      BY <2>1, <3>2, <3>3, <3>4, <3>5, Extremes
    <3>7. lower(i, x) \in Int /\ lower(i, x) <= start[i] /\ start[i] <= latest[i]
      BY <1>13, <3>2, <3>4, <3>6
    <3>8. x = start[i - 1] /\ length[j] = length[i - 1]
      BY DEF x
    <3> HIDE DEF j
    <3> QED BY <2>1, <3>2, <3>5, <3>6, <3>7, <3>8
  <2> QED BY <2>2, <2>3
<1>25. ASSUME NEW i \in Ordinals
       PROVE  /\ start[i] \in Nat /\ start[i] + length[i] \in Nat
              /\ Centered(ws, speeds)[i] = [start |-> start[i], end |-> start[i] + length[i]]
  BY <1>1, <1>8, <1>24
<1>26. Centered(ws, speeds) \in [Ordinals -> [start : Nat, end : Nat]]
  BY <1>1, <1>25
<1>27. ASSUME NEW i \in 2..Number
       PROVE  Centered(ws, speeds)[i - 1].end <= Centered(ws, speeds)[i].start
  <2>1. i \in Ordinals /\ i - 1 \in Ordinals /\ i # 1
    BY <1>5
  <2>2. start[i - 1] + length[i - 1] <= start[i]
    BY <1>24, <2>1
  <2>3. Centered(ws, speeds)[i - 1]
          = [start |-> start[i - 1], end |-> start[i - 1] + length[i - 1]]
    BY <1>25, <2>1
  <2>4. Centered(ws, speeds)[i] = [start |-> start[i], end |-> start[i] + length[i]]
    BY <1>25, <2>1
  <2> QED BY <2>2, <2>3, <2>4
<1> QED BY <1>3, <1>24, <1>25, <1>26, <1>27

(* Smoothing slows no block down, hurries none above the greatest speed,   *)
(* and leaves no step above Delta between neighbours that are near.        *)
LEMMA SmoothedFacts ==
    ASSUME NEW ws, Windows(ws), NEW own \in AllSpeeds
    PROVE  /\ Smoothed(ws, own) \in AllSpeeds
           /\ \A i \in Ordinals : own[i] <= Smoothed(ws, own)[i]
           /\ \A i \in 2..Number : Near(ws, i) =>
                 /\ Smoothed(ws, own)[i] - Smoothed(ws, own)[i - 1] <= Delta
                 /\ Smoothed(ws, own)[i - 1] - Smoothed(ws, own)[i] <= Delta
<1> DEFINE Up(i, x) == IF Near(ws, i) THEN AtLeast(own[i], x - Delta) ELSE own[i]
           UpRule(f) == [i \in Ordinals |-> Up(i, f[i - 1])]
           forward == CHOOSE f : f = UpRule(f)
           Down(i, x) == IF i < Number /\ Near(ws, i + 1)
                         THEN AtLeast(forward[i], x - Delta) ELSE forward[i]
           DownRule(f) == [i \in Ordinals |-> Down(i, f[i + 1])]
           backward == CHOOSE f : f = DownRule(f)
           UpH == [i \in 1..Number |-> [x \in Speeds |-> Up(i, x)]]
           DownH == [k \in 1..Number |-> [x \in Speeds |-> Down(Number + 1 - k, x)]]
<1>1. Smoothed(ws, own) = backward
  BY DEF Smoothed, Windows
<1>2. Number \in Nat \ {0} /\ Ordinals = 1..Number
  BY Constants DEF Ordinals
<1>3. \A x \in Speeds : x \in Int /\ Unit <= x /\ x <= MaxSpeed
  BY Constants DEF Speeds
<1>4. \A i \in Ordinals : own[i] \in Speeds
  BY DEF AllSpeeds
<1>5. Delta \in Nat /\ Unit \in Nat /\ MaxSpeed \in Nat /\ Unit \in Speeds
      /\ Speeds = Unit..MaxSpeed
  BY Constants DEF Speeds
<1>6. \A x, y \in Speeds : /\ AtLeast(x, y - Delta) \in Speeds
                           /\ AtLeast(x, y - Delta) >= x /\ AtLeast(x, y - Delta) >= y - Delta
  BY <1>3, <1>5, Extremes
<1>7. ASSUME NEW i \in Ordinals, NEW x \in Speeds
      PROVE  Up(i, x) \in Speeds /\ own[i] <= Up(i, x) /\ (Near(ws, i) => x - Delta <= Up(i, x))
  BY <1>3, <1>4, <1>6
<1>8. ~Near(ws, 1)
  BY DEF Near
(* The pass forward. *)
<1> HIDE DEF Up
<1>9. UpH \in Recursions(Number, Speeds)
  BY <1>2, <1>7 DEF Recursions
<1>10. \A i \in 1..Number, x \in Speeds : UpH[i][x] = Up(i, x)
  OBVIOUS
<1> HIDE DEF UpH
<1>11. PICK g : Unfolds(g, Number, Speeds, Unit, UpH)
  BY <1>2, <1>5, <1>9, RecursionUpwards
<1> DEFINE h == [i \in Ordinals |-> g[i]]
<1>12. h = UpRule(h)
  <2>1. ASSUME NEW i \in Ordinals PROVE h[i] = Up(i, h[i - 1])
    <3>1. g[i] = Up(i, g[i - 1])
      <4>1. i \in 1..Number /\ i - 1 \in 0..Number
        BY <1>2
      <4> QED BY <1>10, <1>11, <4>1 DEF Unfolds
    <3>2. CASE i = 1
      BY <1>8, <3>1, <3>2 DEF Up
    <3>3. CASE i # 1
      <4>1. i - 1 \in Ordinals
        BY <1>2, <3>3
      <4> QED BY <3>1, <4>1
    <3> QED BY <3>2, <3>3
  <2> QED BY <2>1
<1>13. forward = UpRule(forward)
  BY <1>12
<1> HIDE DEF forward
<1>14. \A i \in Ordinals : forward[i] = Up(i, forward[i - 1])
  BY <1>13
<1> DEFINE T == {i \in Ordinals : forward[i] \in Speeds}
<1>15. 1 \in T
  <2>1. 1 \in Ordinals /\ forward[1] = own[1]
    BY <1>2, <1>8, <1>14 DEF Up
  <2> QED BY <1>4, <2>1
<1>16. ASSUME NEW i \in (1 + 1)..Number, i - 1 \in T PROVE i \in T
  <2>1. i \in Ordinals /\ forward[i - 1] \in Speeds
    BY <1>2, <1>16
  <2>2. forward[i] \in Speeds
    BY <1>7, <1>14, <2>1
  <2> QED BY <2>1, <2>2
<1>17. \A i \in Ordinals : forward[i] \in Speeds
  <2>1. Ordinals \subseteq T
    <3> HIDE DEF T
    <3>1. 1 \in Nat /\ 1 <= Number
      BY <1>2
    <3> QED BY <1>2, <1>15, <1>16, <3>1, Upwards
  <2> QED BY <2>1
<1>18. ASSUME NEW i \in Ordinals
       PROVE  /\ own[i] <= forward[i]
              /\ Near(ws, i) => forward[i - 1] - Delta <= forward[i]
  <2>1. CASE i = 1
    BY <1>3, <1>4, <1>8, <1>14, <2>1 DEF Up
  <2>2. CASE i # 1
    <3>1. i - 1 \in Ordinals
      BY <1>2, <2>2
    <3> QED BY <1>7, <1>14, <1>17, <3>1
  <2> QED BY <2>1, <2>2
(* The pass backward. *)
<1>19. ASSUME NEW i \in Ordinals, NEW x \in Speeds
       PROVE  /\ Down(i, x) \in Speeds /\ forward[i] <= Down(i, x)
              /\ i < Number /\ Near(ws, i + 1) => x - Delta <= Down(i, x)
  BY <1>3, <1>6, <1>17
<1> HIDE DEF Down
<1>20. DownH \in Recursions(Number, Speeds)
  <2>1. \A k \in 1..Number : Number + 1 - k \in Ordinals
    BY <1>2
  <2> QED BY <1>19, <2>1 DEF Recursions
<1>21. \A k \in 1..Number, x \in Speeds : DownH[k][x] = Down(Number + 1 - k, x)
  OBVIOUS
<1> HIDE DEF DownH
<1>22. PICK d : Unfolds(d, Number, Speeds, Unit, DownH)
  BY <1>2, <1>5, <1>20, RecursionUpwards
<1> DEFINE b == [i \in Ordinals |-> d[Number + 1 - i]]
<1>23. b = DownRule(b)
  <2>1. ASSUME NEW i \in Ordinals PROVE b[i] = Down(i, b[i + 1])
    <3> DEFINE k == Number + 1 - i
    <3>1. k \in 1..Number /\ k - 1 \in 0..Number /\ Number + 1 - k = i
      BY <1>2
    <3>2. d[k] = Down(i, d[k - 1])
      BY <1>21, <1>22, <3>1 DEF Unfolds
    <3>3. CASE i = Number
      BY <1>2, <3>2, <3>3 DEF Down
    <3>4. CASE i # Number
      <4>1. i + 1 \in Ordinals /\ Number + 1 - (i + 1) = k - 1
        BY <1>2, <3>4
      <4> QED BY <3>2, <4>1
    <3> QED BY <3>3, <3>4
  <2> QED BY <2>1
<1>24. backward = DownRule(backward)
  BY <1>23
<1> HIDE DEF backward
<1>25. \A i \in Ordinals : backward[i] = Down(i, backward[i + 1])
  BY <1>24
<1> DEFINE U == {i \in Ordinals : backward[i] \in Speeds}
<1>26. Number \in U
  <2>1. Number \in Ordinals /\ backward[Number] = forward[Number]
    BY <1>2, <1>25 DEF Down
  <2> QED BY <1>17, <2>1
<1>27. ASSUME NEW i \in 1..(Number - 1), i + 1 \in U PROVE i \in U
  <2>1. i \in Ordinals /\ backward[i + 1] \in Speeds
    BY <1>2, <1>27
  <2>2. backward[i] \in Speeds
    BY <1>19, <1>25, <2>1
  <2> QED BY <2>1, <2>2
<1>28. \A i \in Ordinals : backward[i] \in Speeds
  <2>1. Ordinals \subseteq U
    <3> HIDE DEF U
    <3> QED BY <1>2, <1>26, <1>27, Downwards
  <2> QED BY <2>1
<1>29. ASSUME NEW i \in Ordinals
       PROVE  /\ forward[i] <= backward[i]
              /\ i < Number /\ Near(ws, i + 1) => backward[i + 1] - Delta <= backward[i]
  <2>1. CASE i = Number
    BY <1>2, <1>3, <1>17, <1>25, <2>1 DEF Down
  <2>2. CASE i # Number
    <3>1. i + 1 \in Ordinals
      BY <1>2, <2>2
    <3> QED BY <1>19, <1>25, <1>28, <3>1
  <2> QED BY <2>1, <2>2
(* Of two neighbours the second is near enough by the pass forward. *)
<1>30. backward \in AllSpeeds
  BY <1>24, <1>28 DEF AllSpeeds
<1>31. ASSUME NEW i \in 2..Number, Near(ws, i)
       PROVE  backward[i] - backward[i - 1] <= Delta /\ backward[i - 1] - backward[i] <= Delta
  <2> DEFINE j == i - 1
  <2>1. j \in Ordinals /\ i \in Ordinals /\ j < Number /\ j + 1 = i
    BY <1>2
  <2>2. backward[i] - Delta <= backward[j] /\ forward[i] <= backward[i]
    BY <1>29, <1>31, <2>1
  <2>3. forward[j] - Delta <= forward[i]
    BY <1>18, <1>31, <2>1
  <2>4. backward[j] = forward[j] \/ backward[j] = AtLeast(forward[j], backward[i] - Delta)
    BY <1>25, <2>1 DEF Down
  <2>5. /\ backward[j] \in Int /\ backward[i] \in Int /\ forward[j] \in Int /\ forward[i] \in Int
    BY <1>3, <1>17, <1>28, <2>1
  <2>6. backward[j] = forward[j] \/ backward[j] = backward[i] - Delta
    BY <1>5, <2>4, <2>5, Extremes
  <2> HIDE DEF j
  <2>7. backward[i] - backward[j] <= Delta /\ backward[j] - backward[i] <= Delta
    BY <1>5, <2>2, <2>3, <2>5, <2>6
  <2> QED BY <2>7 DEF j
<1>32. \A i \in Ordinals : own[i] <= backward[i]
  BY <1>3, <1>4, <1>17, <1>18, <1>28, <1>29
<1> QED BY <1>1, <1>30, <1>31, <1>32

(* A slot for every block is in its window, for as long as the block lasts *)
(* at its speed; the slots follow one another.                             *)
Fits(ws, speeds, slots) ==
    /\ speeds \in AllSpeeds
    /\ \A i \in 2..Number : Near(ws, i) =>
          speeds[i] - speeds[i - 1] <= Delta /\ speeds[i - 1] - speeds[i] <= Delta
    /\ slots \in [Ordinals -> [start : Nat, end : Nat]]
    /\ \A i \in Ordinals :
          /\ ws[i].lower <= slots[i].start /\ slots[i].end <= ws[i].upper
          /\ slots[i].end = slots[i].start + DurationAt(ws[i], speeds[i])
    /\ \A i \in 2..Number : slots[i - 1].end <= slots[i].start

(* What _plan_natural_windows returns, if it refuses nothing.              *)
LEMMA PlanFits ==
    ASSUME NEW ws, Windows(ws), PlanWindows(ws).refused = "no"
    PROVE  Fits(ws, PlanWindows(ws).speeds, PlanWindows(ws).slots)
<1> DEFINE Chain(i) == SubSeq(ws, i, ChainEnd(ws, i))
           Fails(i) == FirstFailure(Chain(i), Fastest(Chain(i)))
           crowded == {i \in ChainStarts(ws) : Fails(i) # 0}
           own == OwnSpeeds(ws)
           LevelAt(i) == Level(Chain(i), SubSeq(own, i, ChainEnd(ws, i)))
           level == [i \in DOMAIN ws |-> LevelAt(Max({k \in ChainStarts(ws) : k <= i}))]
           raised == [i \in DOMAIN ws |-> AtLeast(own[i], level[i])]
           speeds == Smoothed(ws, raised)
           short == Min(TooShort(ws))
           one == SubSeq(ws, short, short)
           chain == Chain(Min(crowded))
           failure == Fails(Min(crowded))
           refusals == <<Refusal(one, 1, one[1].upper - one[1].lower, 0, "capacity"),
                         Refusal(chain, failure, Available(chain, failure), 0, "capacity"),
                         Refusal(ws, FirstFailure(ws, speeds), 0, 0, "unexpected")>>
<1>1. PlanWindows(ws) =
        CASE TooShort(ws) # {} -> refusals[1]
          [] TooShort(ws) = {} /\ crowded # {} -> refusals[2]
          [] TooShort(ws) = {} /\ crowded = {} /\ FirstFailure(ws, speeds) # 0 -> refusals[3]
          [] OTHER -> [refused |-> "no", speeds |-> speeds, slots |-> Centered(ws, speeds)]
  BY DEF PlanWindows
<1>2. \A i \in {1, 2, 3} : refusals[i].refused # "no"
  <2>1. \A w, k, room, less : /\ Refusal(w, k, room, less, "capacity").refused # "no"
                              /\ Refusal(w, k, room, less, "unexpected").refused # "no"
    BY DEF Refusal
  <2> HIDE DEF chain, failure, one, short, speeds
  <2> QED BY <2>1
<1>3. \A s : Bisect(s, Unit, MaxSpeed) \in Speeds
  BY Constants, BisectFinds DEF Speeds
<1>4. \A w, s : Level(w, s) \in Speeds
  BY <1>3, Constants DEF Level
<1>5. raised \in AllSpeeds
  <2>1. DOMAIN ws = Ordinals
    BY DEF Windows
  <2>2. \A i \in Ordinals : own[i] \in Speeds /\ level[i] \in Speeds
    <3>1. \A i \in Ordinals : own[i] \in Speeds
      BY <1>3, <2>1 DEF OwnSpeeds
    <3>2. \A i \in Ordinals : level[i] \in Speeds
      BY <1>4, <2>1
    <3> QED BY <3>1, <3>2
  <2> HIDE DEF own, level
  <2>3. \A x, y \in Speeds : AtLeast(x, y) \in Speeds
    BY Constants, Extremes DEF Speeds
  <2> QED BY <2>1, <2>2, <2>3 DEF AllSpeeds
<1> HIDE DEF raised, refusals, crowded
<1>6. speeds \in AllSpeeds
  BY <1>5, SmoothedFacts
<1>7. /\ FirstFailure(ws, speeds) = 0
      /\ PlanWindows(ws)
           = [refused |-> "no", speeds |-> speeds, slots |-> Centered(ws, speeds)]
  BY <1>1, <1>2
<1>8. Fits(ws, speeds, Centered(ws, speeds))
  BY <1>5, <1>6, <1>7, SmoothedFacts, CenteredFits DEF Fits
<1> QED BY <1>7, <1>8

-----------------------------------------------------------------------------
(* What the planner refuses.                                               *)

(* At the level of a chain its blocks fit, if they do at full speed.       *)
LEMMA LevelSuffices ==
    ASSUME NEW n \in Nat, NEW ws, Timed(ws, n), NEW own \in SpeedsOf(n),
           FirstFailure(ws, Fastest(ws)) = 0
    PROVE  /\ Level(ws, own) \in Speeds
           /\ [i \in 1..n |-> AtLeast(own[i], Level(ws, own))] \in SpeedsOf(n)
           /\ FirstFailure(ws, [i \in 1..n |-> AtLeast(own[i], Level(ws, own))]) = 0
<1> DEFINE Raised(s) == [i \in 1..n |-> AtLeast(own[i], s)]
           fits == {s \in Unit..MaxSpeed : FirstFailure(ws, Raised(s)) = 0}
<1>1. DOMAIN ws = 1..n
  BY DEF Timed
<1>2. Level(ws, own) = IF FirstFailure(ws, own) = 0 THEN Unit
                       ELSE Bisect(fits, Unit, MaxSpeed)
  BY <1>1 DEF Level
<1>3. \A i \in 1..n : own[i] \in Speeds
  BY DEF SpeedsOf
<1>4. ASSUME NEW s \in Speeds
      PROVE  /\ Raised(s) \in SpeedsOf(n)
             /\ \A i \in 1..n : own[i] <= Raised(s)[i]
  <2>1. \A x \in Speeds : AtLeast(x, s) \in Speeds /\ x <= AtLeast(x, s)
    BY <1>4, Constants, Extremes DEF Speeds
  <2> QED BY <1>3, <2>1 DEF SpeedsOf
<1>5. Raised(MaxSpeed) = Fastest(ws)
  <2>1. \A x \in Speeds : AtLeast(x, MaxSpeed) = MaxSpeed
    BY Constants, Extremes DEF Speeds
  <2> QED BY <1>1, <1>3, <2>1 DEF Fastest
<1>6. MaxSpeed \in fits
  BY <1>5, Constants DEF Speeds
<1> HIDE DEF Raised
<1>7. CASE FirstFailure(ws, own) = 0
  <2>1. Level(ws, own) = Unit /\ Unit \in Speeds
    BY <1>2, <1>7, Constants
  <2>2. FirstFailure(ws, Raised(Unit)) = 0
    BY <1>4, <1>7, <2>1, EarlierWhenFaster
  <2> QED BY <1>4, <2>1, <2>2 DEF Raised
<1>8. CASE FirstFailure(ws, own) # 0
  <2>1. Level(ws, own) \in fits
    <3> HIDE DEF fits
    <3> QED BY <1>2, <1>6, <1>8, Constants, BisectFinds
  <2>2. Level(ws, own) \in Speeds /\ FirstFailure(ws, Raised(Level(ws, own))) = 0
    BY <2>1 DEF Speeds
  <2> QED BY <1>4, <2>2 DEF Raised
<1> QED BY <1>7, <1>8

(* The reach of the windows up to one of them is no less than its end.     *)
LEMMA ReachRule ==
    ASSUME NEW ws, Windows(ws), NEW i \in Ordinals
    PROVE  ReachOf(ws)[i] \in Int /\ ws[i].upper <= ReachOf(ws)[i]
<1> DEFINE Step(k, x) == AtLeast(x, ws[k].upper)
           first == ws[1].upper
           Rule(f) == [k \in Ordinals |-> IF k = 1 THEN first ELSE Step(k, f[k - 1])]
           reach == CHOOSE f : f = Rule(f)
           H == [k \in 1..Number |-> [x \in Int |-> Step(k, x)]]
<1>1. Number \in Nat \ {0} /\ Ordinals = 1..Number
  BY Constants DEF Ordinals
<1>2. first \in Int /\ \A k \in Ordinals : ws[k].upper \in Int
  BY <1>1 DEF Windows
<1>3. ASSUME NEW k \in 1..Number, NEW x \in Int
      PROVE  Step(k, x) \in Int /\ ws[k].upper <= Step(k, x)
  BY <1>1, <1>2, Extremes
<1>4. Step(1, first) = first
  BY <1>2, Extremes
<1>5. ReachOf(ws) = reach
  BY DEF ReachOf, Windows
<1> HIDE DEF Step, first
<1>6. H \in Recursions(Number, Int)
  BY <1>3 DEF Recursions
<1>7. \A k \in 1..Number, x \in Int : H[k][x] = Step(k, x)
  OBVIOUS
<1> HIDE DEF H
<1>8. PICK g : Unfolds(g, Number, Int, first, H)
  <2>1. Number \in Nat
    BY <1>1
  <2> QED BY <1>2, <1>6, <2>1, RecursionUpwards
<1> DEFINE h == [k \in Ordinals |-> g[k]]
<1>9. ASSUME NEW k \in Ordinals PROVE g[k - 1] \in Int /\ g[k] = Step(k, g[k - 1])
  <2>1. k - 1 \in 0..Number /\ k \in 1..Number
    BY <1>1
  <2> QED BY <1>7, <1>8, <2>1 DEF Unfolds
<1>10. h = Rule(h)
  <2>1. ASSUME NEW k \in Ordinals
        PROVE  g[k] = IF k = 1 THEN first ELSE Step(k, h[k - 1])
    <3>1. CASE k = 1
      <4>1. g[0] = first /\ k - 1 = 0
        BY <1>8, <3>1 DEF Unfolds
      <4> QED BY <1>4, <1>9, <3>1, <4>1
    <3>2. CASE k # 1
      <4>1. k - 1 \in Ordinals
        BY <1>1, <3>2
      <4> QED BY <1>9, <3>2, <4>1
    <3> QED BY <3>1, <3>2
  <2> QED BY <2>1
<1>11. reach = Rule(reach)
  BY <1>10
<1> HIDE DEF reach
<1> DEFINE T == {k \in 1..Number : reach[k] \in Int /\ ws[k].upper <= reach[k]}
<1>12. \A k \in Ordinals : reach[k] = IF k = 1 THEN first ELSE Step(k, reach[k - 1])
  BY <1>11
<1>13. 1 \in T
  BY <1>1, <1>2, <1>12 DEF first
<1>14. ASSUME NEW k \in 2..Number, k - 1 \in T PROVE k \in T
  <2>1. k \in 1..Number /\ k # 1
    BY <1>1
  <2> QED BY <1>1, <1>3, <1>12, <1>14, <2>1
<1>15. 1..Number \subseteq T
  <2> HIDE DEF T
  <2>1. 1 <= Number /\ 1 \in Nat /\ 1 + 1 = 2 /\ Number \in Nat
    BY <1>1
  <2> QED BY <1>13, <1>14, <2>1, Upwards
<1> QED BY <1>1, <1>5, <1>15

(* Where the chain of a block begins.                                      *)
StartOf(ws, i) == Max({k \in ChainStarts(ws) : k <= i})

(* A chain goes from its start to the block before the next start.         *)
LEMMA ChainsReach ==
    ASSUME NEW ws, Windows(ws), NEW c \in ChainStarts(ws)
    PROVE  /\ c \in Ordinals
           /\ ChainEnd(ws, c) \in c..Number
           /\ \A k \in ChainStarts(ws) : k <= c \/ ChainEnd(ws, c) < k
           /\ \A i \in c..ChainEnd(ws, c) : StartOf(ws, i) = c
<1> DEFINE Starts == ChainStarts(ws)
           next == {k - 1 : k \in {k \in Starts : k > c}}
           e == ChainEnd(ws, c)
<1>1. Number \in Nat \ {0} /\ Ordinals = 1..Number /\ Len(ws) = Number
  BY Constants DEF Ordinals, Windows
<1>2. Starts \in SUBSET (1..Number)
  BY <1>1 DEF ChainStarts, Windows
<1>3. next \cup {Number} \in SUBSET (1..Number) /\ next \cup {Number} # {}
  BY <1>1, <1>2
<1>4. e = Min(next \cup {Number})
  BY <1>1 DEF ChainEnd
<1>5. e \in next \cup {Number} /\ \A y \in next \cup {Number} : e <= y
  <2> HIDE DEF next, e
  <2> QED BY <1>1, <1>3, <1>4, FirstAndLast
<1> HIDE DEF e
<1>6. c \in 1..Number /\ e \in c..Number
  BY <1>1, <1>2, <1>5
<1>7. ASSUME NEW k \in Starts PROVE k <= c \/ e < k
  <2>1. k \in Int /\ c \in Int /\ e \in Int
    BY <1>2, <1>6
  <2>2. CASE k > c
    <3>1. k - 1 \in next
      BY <2>2
    <3>2. e <= k - 1
      BY <1>5, <3>1
    <3> QED BY <2>1, <3>2
  <2> QED BY <2>1, <2>2
<1>8. ASSUME NEW i \in c..e PROVE StartOf(ws, i) = c
  <2> DEFINE T == {k \in Starts : k <= i}
  <2>1. T \in SUBSET (1..Number) /\ c \in T /\ i \in Int
    BY <1>2, <1>6
  <2>2. \A k \in T : k <= c
    BY <1>2, <1>6, <1>7, <2>1
  <2>3. Max(T) \in T /\ \A y \in T : y <= Max(T)
    <3> HIDE DEF T
    <3> QED BY <1>1, <2>1, FirstAndLast
  <2>4. Max(T) <= c /\ c <= Max(T) /\ Max(T) \in Int /\ c \in Int
    <3> HIDE DEF T
    <3>1. Max(T) \in 1..Number
      BY <2>1, <2>3
    <3> QED BY <1>6, <2>1, <2>2, <2>3, <3>1
  <2>5. Max(T) = c
    <3> HIDE DEF T
    <3> QED BY <2>4
  <2> QED BY <2>5 DEF StartOf
<1> QED BY <1>1, <1>6, <1>7, <1>8 DEF e

(* Every block is in the chain that begins last before it.                 *)
LEMMA ChainOfBlock ==
    ASSUME NEW ws, Windows(ws), NEW i \in Ordinals
    PROVE  /\ StartOf(ws, i) \in ChainStarts(ws)
           /\ i \in StartOf(ws, i)..ChainEnd(ws, StartOf(ws, i))
<1> DEFINE c == StartOf(ws, i)
           T == {k \in ChainStarts(ws) : k <= i}
           next == {k - 1 : k \in {k \in ChainStarts(ws) : k > c}}
<1>1. Number \in Nat \ {0} /\ Ordinals = 1..Number /\ Len(ws) = Number /\ DOMAIN ws = Ordinals
  BY Constants DEF Ordinals, Windows
<1>2. ChainStarts(ws) \in SUBSET (1..Number) /\ 1 \in ChainStarts(ws)
  BY <1>1 DEF ChainStarts, Begins
<1>3. T \in SUBSET (1..Number) /\ 1 \in T
  BY <1>1, <1>2
<1>4. c \in T /\ \A y \in T : y <= c
  <2>1. Max(T) \in T /\ \A y \in T : y <= Max(T)
    <3> HIDE DEF T
    <3> QED BY <1>1, <1>3, FirstAndLast
  <2> QED BY <2>1 DEF StartOf
<1>5. c \in ChainStarts(ws) /\ c \in 1..Number /\ c <= i
  BY <1>2, <1>4
<1> HIDE DEF c
<1>6. ChainEnd(ws, c) = Min(next \cup {Number})
  BY <1>1 DEF ChainEnd
<1>7. next \cup {Number} \in SUBSET (1..Number) /\ next \cup {Number} # {}
  BY <1>1, <1>2, <1>5
<1>8. ChainEnd(ws, c) \in next \cup {Number}
  <2> DEFINE ends == next \cup {Number}
  <2>1. ends \in SUBSET (1..Number) /\ ends # {} /\ Number \in Nat
    BY <1>1, <1>7
  <2> HIDE DEF ends
  <2>2. Min(ends) \in ends
    BY <2>1, FirstAndLast
  <2> QED BY <1>6, <2>2 DEF ends
<1>9. \A y \in next \cup {Number} : i <= y
  <2>1. ASSUME NEW k \in ChainStarts(ws), k > c PROVE i <= k - 1
    <3>1. k \in Int /\ i \in Int /\ c \in Int
      BY <1>1, <1>2, <1>5
    <3>2. ~(k <= i)
      BY <1>4, <2>1, <3>1
    <3> QED BY <3>1, <3>2
  <2> QED BY <1>1, <2>1
<1>10. ChainEnd(ws, c) \in Int /\ i <= ChainEnd(ws, c)
  <2> HIDE DEF next
  <2> QED BY <1>7, <1>8, <1>9
<1> QED BY <1>1, <1>5, <1>10 DEF c

(* A chain is a sequence of windows of its own.                            *)
LEMMA ChainIsTimed ==
    ASSUME NEW ws, Windows(ws), NEW c \in Ordinals, NEW e \in c..Number
    PROVE  /\ Timed(SubSeq(ws, c, e), e - c + 1)
           /\ \A g \in 1..(e - c + 1) : SubSeq(ws, c, e)[g] = ws[c + g - 1]
<1> DEFINE S == {ws[k] : k \in c..e}
           chain == SubSeq(ws, c, e)
           n == e - c + 1
<1>1. /\ Ordinals = 1..Number /\ Number \in Nat
      /\ c \in 1..Number /\ e \in c..Number /\ n \in Nat
  BY Constants DEF Ordinals
<1>2. \A k \in c..e : ws[k] \in S
  OBVIOUS
<1> HIDE DEF S
<1>3. /\ chain \in Seq(S) /\ Len(chain) = n
      /\ \A g \in 1..n : chain[g] = ws[c + g - 1]
  BY <1>1, <1>2, SubSeqProperties
<1>4. DOMAIN chain = 1..n
  <2> HIDE DEF chain
  <2> QED BY <1>3
<1>5. ASSUME NEW g \in 1..n PROVE c + g - 1 \in Ordinals
  BY <1>1
<1> HIDE DEF chain
<1>6. Timed(chain, n)
  BY <1>3, <1>4, <1>5 DEF Timed, Windows
<1> QED BY <1>3, <1>6 DEF chain

(* And the speeds of its blocks are a sequence of their own.               *)
LEMMA ChainSpeeds ==
    ASSUME NEW speeds \in AllSpeeds, NEW c \in Ordinals, NEW e \in c..Number
    PROVE  /\ SubSeq(speeds, c, e) \in SpeedsOf(e - c + 1)
           /\ \A g \in 1..(e - c + 1) : SubSeq(speeds, c, e)[g] = speeds[c + g - 1]
<1> DEFINE part == SubSeq(speeds, c, e)
           n == e - c + 1
<1>1. /\ Ordinals = 1..Number /\ Number \in Nat
      /\ c \in 1..Number /\ e \in c..Number /\ n \in Nat
  BY Constants DEF Ordinals
<1>2. \A k \in c..e : speeds[k] \in Speeds
  BY <1>1 DEF AllSpeeds
<1>3. /\ part \in Seq(Speeds) /\ Len(part) = n
      /\ \A g \in 1..n : part[g] = speeds[c + g - 1]
  BY <1>1, <1>2, SubSeqProperties
<1> HIDE DEF part
<1>4. part \in SpeedsOf(n)
  BY <1>3, LenProperties DEF SpeedsOf
<1> QED BY <1>3, <1>4 DEF part

(* Chains do not disturb one another: where no block of any chain fails by *)
(* itself, no block of the plan does.                                      *)
LEMMA ChainsJoin ==
    ASSUME NEW ws, Windows(ws), NEW speeds \in AllSpeeds,
           \A c \in ChainStarts(ws) :
              FirstFailure(SubSeq(ws, c, ChainEnd(ws, c)),
                           SubSeq(speeds, c, ChainEnd(ws, c))) = 0
    PROVE  FirstFailure(ws, speeds) = 0
<1> DEFINE cursor == Cursor(ws, speeds)
           chain(c) == SubSeq(ws, c, ChainEnd(ws, c))
           own(c) == SubSeq(speeds, c, ChainEnd(ws, c))
           local(c) == Cursor(chain(c), own(c))
           T == {i \in 1..Number : cursor[i] = local(StartOf(ws, i))[i - StartOf(ws, i) + 1]}
<1>1. Number \in Nat \ {0} /\ Ordinals = 1..Number /\ Number \in Nat
  BY Constants DEF Ordinals
<1>2. /\ cursor[0] = 0
      /\ \A i \in 1..Number :
            /\ cursor[i - 1] \in Nat
            /\ cursor[i] = AtLeast(ws[i].lower, cursor[i - 1]) + DurationAt(ws[i], speeds[i])
  <2>1. \A i \in 1..Number : i - 1 \in 0..Number
    BY <1>1
  <2> QED BY <1>1, <2>1, CursorRule
<1>3. ASSUME NEW c \in ChainStarts(ws), NEW i \in c..ChainEnd(ws, c)
      PROVE  /\ i \in 1..Number /\ c \in 1..Number /\ StartOf(ws, i) = c
             /\ i - c + 1 \in 1..(ChainEnd(ws, c) - c + 1) /\ c + (i - c + 1) - 1 = i
             /\ local(c)[0] = 0
             /\ local(c)[i - c + 1] =
                   AtLeast(ws[i].lower, local(c)[i - c]) + DurationAt(ws[i], speeds[i])
             /\ local(c)[i - c + 1] <= ws[i].upper
  <2> DEFINE n == ChainEnd(ws, c) - c + 1
             g == i - c + 1
  <2>1. c \in Ordinals /\ ChainEnd(ws, c) \in c..Number /\ StartOf(ws, i) = c
    BY ChainsReach
  <2>2. /\ n \in Nat /\ g \in 1..n /\ c + g - 1 = i /\ g - 1 = i - c
        /\ i \in 1..Number /\ c \in 1..Number
    BY <1>1, <2>1
  <2>3. Timed(chain(c), n) /\ chain(c)[g] = ws[i]
    BY <2>1, <2>2, ChainIsTimed
  <2>4. own(c) \in SpeedsOf(n) /\ own(c)[g] = speeds[i]
    BY <2>1, <2>2, ChainSpeeds
  <2>5. FirstFailure(chain(c), own(c)) = 0
    OBVIOUS
  <2> HIDE DEF n, g, chain, own
  <2>6. /\ local(c)[0] = 0
        /\ local(c)[g] = AtLeast(ws[i].lower, local(c)[g - 1]) + DurationAt(ws[i], speeds[i])
    BY <2>2, <2>3, <2>4, CursorSteps
  <2>7. local(c)[g] <= ws[i].upper
    <3>1. \A k \in 1..((n + 1) - 1) : local(c)[k] <= chain(c)[k].upper
      BY <2>2, <2>3, <2>4, <2>5, FailureIsFirst
    <3>2. (n + 1) - 1 = n
      BY <2>2
    <3> QED BY <2>2, <2>3, <3>1, <3>2
  <2> QED BY <2>1, <2>2, <2>6, <2>7 DEF n, g
<1> HIDE DEF cursor, local, chain, own
<1>4. ASSUME NEW i \in 1..Number
      PROVE  StartOf(ws, i) \in ChainStarts(ws) /\ i \in StartOf(ws, i)..ChainEnd(ws, StartOf(ws, i))
  BY <1>1, ChainOfBlock
<1>5. ASSUME NEW i \in T PROVE cursor[i] <= ws[i].upper
  BY <1>3, <1>4
(* A chain begins after all windows before it end. *)
<1>6. ASSUME NEW i \in ChainStarts(ws), i # 1 => i - 1 \in T
      PROVE  cursor[i] = local(i)[1]
  <2>1. i \in i..ChainEnd(ws, i) /\ i \in 1..Number
    BY <1>1, ChainsReach
  <2>2. /\ local(i)[0] = 0 /\ i - i + 1 = 1 /\ i - i = 0
        /\ local(i)[1] = AtLeast(ws[i].lower, local(i)[0]) + DurationAt(ws[i], speeds[i])
    <3>1. i - i + 1 = 1 /\ i - i = 0
      BY <2>1
    <3> QED BY <1>3, <2>1, <3>1
  <2>3. cursor[i - 1] \in Nat /\ cursor[i - 1] <= ws[i].lower
    <3>1. ws[i].lower \in Nat
      BY <1>1, <2>1 DEF Windows
    <3>2. CASE i = 1
      BY <1>2, <2>1, <3>1, <3>2
    <3>3. CASE i # 1
      <4>1. i - 1 \in Ordinals
        BY <1>1, <2>1, <3>3
      <4>2. ws[i].lower >= ReachOf(ws)[i - 1]
        BY <3>3 DEF ChainStarts, Begins
      <4>3. ReachOf(ws)[i - 1] \in Int /\ ws[i - 1].upper <= ReachOf(ws)[i - 1]
        BY <4>1, ReachRule
      <4>4. cursor[i - 1] <= ws[i - 1].upper
        BY <1>5, <1>6, <3>3
      <4>5. cursor[i - 1] \in Nat /\ ws[i - 1].upper \in Int
        BY <1>2, <2>1, <4>1 DEF Windows
      <4> QED BY <3>1, <4>2, <4>3, <4>4, <4>5
    <3> QED BY <3>2, <3>3
  <2>4. AtLeast(ws[i].lower, cursor[i - 1]) = ws[i].lower /\ AtLeast(ws[i].lower, 0) = ws[i].lower
    <3>1. ws[i].lower \in Nat
      BY <1>1, <2>1 DEF Windows
    <3> QED BY <2>3, <3>1, Extremes
  <2> QED BY <1>2, <2>1, <2>2, <2>4
<1>7. ASSUME NEW i \in 1..Number, i # 1 => i - 1 \in T PROVE i \in T
  <2> DEFINE c == StartOf(ws, i)
  <2>1. c \in ChainStarts(ws) /\ i \in c..ChainEnd(ws, c)
    BY <1>4
  <2> HIDE DEF c
  <2>2. c \in 1..Number
    BY <1>3, <2>1
  <2>3. CASE i = c
    <3>1. cursor[i] = local(i)[1] /\ i - i + 1 = 1
      BY <1>6, <1>7, <2>1, <2>3
    <3> QED BY <2>3, <3>1 DEF c
  <2>4. CASE i # c
    <3>1. i - 1 \in c..ChainEnd(ws, c) /\ i # 1 /\ (i - 1) - c + 1 = i - c
      <4>1. ChainEnd(ws, c) \in Int
        BY <2>1, ChainsReach
      <4> QED BY <2>1, <2>2, <2>4, <4>1
    <3>2. StartOf(ws, i - 1) = c
      BY <1>3, <2>1, <3>1
    <3>3. cursor[i - 1] = local(c)[i - c]
      BY <1>7, <3>1, <3>2
    <3>4. local(c)[i - c + 1] =
            AtLeast(ws[i].lower, local(c)[i - c]) + DurationAt(ws[i], speeds[i])
      BY <1>3, <2>1
    <3> QED BY <1>2, <3>3, <3>4 DEF c
  <2> QED BY <2>3, <2>4
<1>8. 1..Number \subseteq T
  <2> HIDE DEF T
  <2>1. 1 \in T
    BY <1>1, <1>7
  <2>2. 1 <= Number /\ 1 \in Nat /\ 1 + 1 = 2
    BY <1>1
  <2>3. \A i \in 2..Number : i - 1 \in T => i \in T
    <3>1. 2..Number \subseteq 1..Number
      BY <1>1
    <3> QED BY <1>7, <3>1
  <2> QED BY <1>1, <2>1, <2>2, <2>3, Upwards
<1>9. \A i \in 1..Number : cursor[i] <= ws[i].upper
  <2> HIDE DEF T
  <2> QED BY <1>5, <1>8
<1>10. ASSUME FirstFailure(ws, speeds) # 0 PROVE FALSE
  <2>1. PICK f \in 1..Number : cursor[f] > ws[f].upper
    BY <1>1, <1>10, WindowsAreTimed, FailureIsFirst DEF cursor
  <2>2. cursor[f] \in Int /\ ws[f].upper \in Int
    <3>1. f \in 0..Number /\ f \in Ordinals
      BY <1>1
    <3> QED BY <3>1, CursorRule DEF Windows, cursor
  <2> QED BY <1>9, <2>1, <2>2
<1> QED BY <1>10

(* What the first blocks need is the sum of what each of them needs.       *)
LEMMA NeededRule ==
    ASSUME NEW ws, Windows(ws)
    PROVE  /\ \A k \in 0..Number : NeededUpTo(ws)[k] \in Nat
           /\ \A k \in 1..Number :
                 NeededUpTo(ws)[k] = NeededUpTo(ws)[k - 1] + DurationAt(ws[k], MaxSpeed)
<1> DEFINE Step(k, x) == x + DurationAt(ws[k], MaxSpeed)
           Rule(f) == [k \in 0..Number |-> IF k = 0 THEN 0 ELSE Step(k, f[k - 1])]
           needed == CHOOSE f : f = Rule(f)
           H == [k \in 1..Number |-> [x \in Nat |-> Step(k, x)]]
<1>1. Number \in Nat /\ Ordinals = 1..Number
  BY Constants DEF Ordinals
<1>2. ASSUME NEW k \in 1..Number, NEW x \in Nat PROVE Step(k, x) \in Nat
  <2>1. DurationAt(ws[k], MaxSpeed) \in Nat
    BY <1>1, Constants, DurationFacts DEF Windows
  <2> QED BY <2>1
<1>3. NeededUpTo(ws) = needed
  BY DEF NeededUpTo
<1> HIDE DEF Step
<1>4. H \in Recursions(Number, Nat)
  BY <1>2 DEF Recursions
<1>5. \A k \in 1..Number, x \in Nat : H[k][x] = Step(k, x)
  OBVIOUS
<1> HIDE DEF H
<1>6. PICK g : Unfolds(g, Number, Nat, 0, H)
  <2>1. 0 \in Nat
    OBVIOUS
  <2> QED BY <1>1, <1>4, <2>1, RecursionUpwards
<1>7. g = Rule(g)
  <2>1. ASSUME NEW k \in 1..Number PROVE g[k] = Step(k, g[k - 1])
    <3>1. k - 1 \in 0..Number
      BY <1>1
    <3> QED BY <1>5, <1>6, <3>1 DEF Unfolds
  <2> QED BY <1>1, <1>6, <2>1 DEF Unfolds
<1>8. needed = Rule(needed)
  BY <1>7
<1> HIDE DEF needed
<1>9. needed[0] = 0 /\ \A k \in 1..Number : needed[k] = Step(k, needed[k - 1])
  BY <1>1, <1>8
<1> DEFINE T == {k \in 0..Number : needed[k] \in Nat}
<1>10. 0 \in T
  BY <1>1, <1>9
<1>11. ASSUME NEW k \in 1..Number, k - 1 \in T PROVE k \in T
  <2>1. k \in 0..Number /\ needed[k - 1] \in Nat
    BY <1>1, <1>11
  <2> QED BY <1>2, <1>9, <2>1
<1>12. 0..Number \subseteq T
  <2> HIDE DEF T
  <2>1. 0 <= Number /\ 0 \in Nat /\ 0 + 1 = 1
    BY <1>1
  <2> QED BY <1>1, <1>10, <1>11, <2>1, Upwards
<1> QED BY <1>3, <1>9, <1>12 DEF Step

(* At full speed.                                                          *)
LEMMA FastestFacts ==
    ASSUME NEW n \in Nat, NEW ws, Timed(ws, n)
    PROVE  /\ Fastest(ws) \in SpeedsOf(n)
           /\ \A i \in 1..n : Fastest(ws)[i] = MaxSpeed
BY Constants DEF Fastest, Timed, SpeedsOf

(* A group begins with a block that need not wait, and all after it wait.  *)
LEMMA GroupWaits ==
    ASSUME NEW n \in Nat, NEW ws, Timed(ws, n), NEW f \in 1..n
    PROVE  /\ GroupStart(ws, f) \in 1..f
           /\ Cursor(ws, Fastest(ws))[GroupStart(ws, f) - 1] <= ws[GroupStart(ws, f)].lower
           /\ \A g \in (GroupStart(ws, f) + 1)..f :
                 ws[g].lower < Cursor(ws, Fastest(ws))[g - 1]
<1> DEFINE cursor == Cursor(ws, Fastest(ws))
           Free == {i \in 1..f : cursor[i - 1] <= ws[i].lower}
<1>1. /\ \A i \in 0..n : cursor[i] \in Nat
      /\ cursor[0] = 0
  BY FastestFacts, CursorSteps
<1> HIDE DEF cursor
<1>2. 1 \in Free
  BY <1>1 DEF Timed
<1>3. GroupStart(ws, f) = Max(Free)
  BY DEF GroupStart, cursor
<1>4. Max(Free) \in Free /\ \A y \in Free : y <= Max(Free)
  <2>1. Free \in SUBSET (1..f) /\ f \in Nat
    OBVIOUS
  <2> HIDE DEF Free
  <2> QED BY <1>2, <2>1, FirstAndLast
<1>5. ASSUME NEW g \in (Max(Free) + 1)..f PROVE ws[g].lower < cursor[g - 1]
  <2>1. g \in 1..f /\ Max(Free) \in Int /\ ~(g <= Max(Free))
    BY <1>4
  <2>2. g \notin Free
    BY <1>4, <2>1
  <2>3. cursor[g - 1] \in Nat /\ ws[g].lower \in Nat
    <3>1. g - 1 \in 0..n /\ g \in 1..n
      BY <2>1
    <3> QED BY <1>1, <3>1 DEF Timed
  <2> QED BY <2>1, <2>2, <2>3
<1> QED BY <1>3, <1>4, <1>5 DEF cursor

(* Windows that are in the order of their blocks.                          *)
Ordered(ws) ==
    \A i \in Ordinals :
        /\ ws[i].ordinal = i
        /\ ws[i].lower <= ws[i].upper
        /\ i # 1 => ws[i - 1].upper <= ws[i].upper

(* A refusal that is justified by the blocks it names.                     *)
Justified(ws, refusal) ==
    /\ refusal.refused = "capacity"
    /\ {refusal.start, refusal.failure} \subseteq Ordinals
    /\ refusal.start <= refusal.failure
    /\ refusal.deficit \in Nat \ {0}
    /\ Needed(ws, refusal.start, refusal.failure)
         = Room(ws, refusal.start, refusal.failure) + refusal.deficit

(* A block that is too long for its own window.                            *)
LEMMA TooShortIsJustified ==
    ASSUME NEW ws, Windows(ws), Ordered(ws), NEW i \in TooShort(ws)
    PROVE  LET one == SubSeq(ws, i, i) IN
           Justified(ws, Refusal(one, 1, one[1].upper - one[1].lower, 0, "capacity"))
<1> DEFINE one == SubSeq(ws, i, i)
           need == DurationAt(ws[i], MaxSpeed)
           room == ws[i].upper - ws[i].lower
           refusal == Refusal(one, 1, one[1].upper - one[1].lower, 0, "capacity")
<1>1. /\ Number \in Nat \ {0} /\ Ordinals = 1..Number /\ i \in Ordinals
      /\ need > room
  BY Constants DEF TooShort, Windows, Ordinals
<1>2. i \in i..Number /\ i - i + 1 = 1 /\ i + 1 - 1 = i /\ 1 \in 1..1 /\ 1 \in Nat
  BY <1>1
<1>3. Timed(one, 1) /\ one[1] = ws[i]
  <2>1. /\ Timed(one, i - i + 1)
        /\ \A g \in 1..(i - i + 1) : one[g] = ws[i + g - 1]
    BY <1>1, <1>2, ChainIsTimed
  <2> QED BY <1>2, <2>1
<1> HIDE DEF one
<1>4. GroupStart(one, 1) = 1
  <2>1. GroupStart(one, 1) \in 1..1
    BY <1>2, <1>3, GroupWaits
  <2> QED BY <2>1
<1>5. need \in Nat /\ room \in Int
  <2>1. ws[i].work \in Nat \ {0} /\ ws[i].upper \in Int /\ ws[i].lower \in Nat
    BY <1>1 DEF Windows
  <2> QED BY <2>1, Constants, DurationFacts
<1>6. Needed(ws, i, i) = need
  <2>1. i \in 1..Number /\ i - 1 \in 0..Number
    BY <1>1
  <2>2. NeededUpTo(ws)[i - 1] \in Nat /\ NeededUpTo(ws)[i] = NeededUpTo(ws)[i - 1] + need
    BY <2>1, NeededRule
  <2> HIDE DEF need
  <2> QED BY <1>5, <2>2 DEF Needed
<1>7. Room(ws, i, i) = room
  BY DEF Room
<1> HIDE DEF need, room
<1>8. AtLeast(1, need - room) = need - room /\ need - room \in Nat \ {0}
  BY <1>1, <1>5, Extremes
<1>9. refusal = [refused |-> "capacity", failure |-> i, start |-> i, deficit |-> need - room]
  <2>1. ws[i].ordinal = i
    BY <1>1 DEF Ordered
  <2> QED BY <1>3, <1>4, <1>8, <2>1 DEF Refusal, need, room
<1>10. refusal.refused = "capacity" /\ refusal.failure = i /\ refusal.start = i
       /\ refusal.deficit = need - room
  BY <1>9
<1> HIDE DEF refusal
<1>11. Justified(ws, refusal)
  BY <1>1, <1>5, <1>6, <1>7, <1>8, <1>10 DEF Justified
<1> QED BY <1>11 DEF refusal, one

(* A chain in which a block is late even at full speed.                    *)
LEMMA CrowdedIsJustified ==
    ASSUME NEW ws, Windows(ws), Ordered(ws),
           NEW c \in Ordinals, NEW e \in c..Number,
           FirstFailure(SubSeq(ws, c, e), Fastest(SubSeq(ws, c, e))) # 0
    PROVE  LET chain == SubSeq(ws, c, e)
               f == FirstFailure(chain, Fastest(chain))
           IN Justified(ws, Refusal(chain, f, Available(chain, f), 0, "capacity"))
<1> DEFINE chain == SubSeq(ws, c, e)
           n == e - c + 1
           cursor == Cursor(chain, Fastest(chain))
           f == FirstFailure(chain, Fastest(chain))
           s == GroupStart(chain, f)
           N == NeededUpTo(ws)
           need(g) == DurationAt(chain[g], MaxSpeed)
           refusal == Refusal(chain, f, Available(chain, f), 0, "capacity")
<1>1. /\ Number \in Nat \ {0} /\ Ordinals = 1..Number
      /\ c \in 1..Number /\ e \in c..Number /\ n \in Nat
  BY Constants DEF Ordinals
<1>2. Timed(chain, n) /\ \A g \in 1..n : chain[g] = ws[c + g - 1]
  BY ChainIsTimed
<1>3. Fastest(chain) \in SpeedsOf(n) /\ \A g \in 1..n : Fastest(chain)[g] = MaxSpeed
  <2> HIDE DEF n, chain
  <2> QED BY <1>1, <1>2, FastestFacts
<1>4. /\ \A g \in 0..n : cursor[g] \in Nat
      /\ cursor[0] = 0
      /\ \A g \in 1..n : cursor[g] = AtLeast(chain[g].lower, cursor[g - 1]) + need(g)
  <2> HIDE DEF n, chain
  <2> QED BY <1>1, <1>2, <1>3, CursorSteps
<1>5. /\ f \in 1..n /\ cursor[f] > chain[f].upper
      /\ \A g \in 1..(f - 1) : cursor[g] <= chain[g].upper
  <2>1. f # 0
    OBVIOUS
  <2> HIDE DEF n, chain
  <2> QED BY <1>1, <1>2, <1>3, <2>1, FailureIsFirst
<1>6. /\ s \in 1..f
      /\ cursor[s - 1] <= chain[s].lower
      /\ \A g \in (s + 1)..f : chain[g].lower < cursor[g - 1]
  <2> HIDE DEF n, chain, f
  <2> QED BY <1>1, <1>2, <1>5, GroupWaits
<1>7. Available(chain, f) = AtLeast(0, chain[f].upper - AtLeast(chain[f].lower, cursor[f - 1]))
  BY DEF Available
<1>8. ASSUME NEW g \in 1..n
      PROVE  /\ chain[g].lower \in Nat /\ chain[g].upper \in Int
             /\ chain[g].lower <= chain[g].upper /\ chain[g].ordinal = c + g - 1
             /\ need(g) \in Nat \ {0}
             /\ g # 1 => chain[g - 1].upper <= chain[g].upper
             /\ c + g - 1 \in Ordinals
             /\ N[c + g - 1] \in Nat /\ N[(c + g - 1) - 1] \in Nat
             /\ N[c + g - 1] = N[(c + g - 1) - 1] + need(g)
             /\ cursor[g] \in Nat /\ cursor[g - 1] \in Nat
  <2> DEFINE i == c + g - 1
  <2>1. /\ chain[g] = ws[i] /\ i \in 1..Number /\ i \in Ordinals
        /\ i \in 0..Number /\ i - 1 \in 0..Number
        /\ g \in 0..n /\ g - 1 \in 0..n
    BY <1>1, <1>2
  <2>2. g # 1 => chain[g - 1] = ws[i - 1] /\ i # 1
    <3>1. g # 1 => g - 1 \in 1..n /\ c + (g - 1) - 1 = i - 1 /\ i # 1
      BY <1>1
    <3> QED BY <1>2, <3>1
  <2> HIDE DEF i, chain, n, cursor
  <2>3. /\ ws[i].lower \in Nat /\ ws[i].upper \in Int /\ ws[i].work \in Nat \ {0}
        /\ ws[i].lower <= ws[i].upper /\ ws[i].ordinal = i
        /\ i # 1 => ws[i - 1].upper <= ws[i].upper
    BY <2>1 DEF Windows, Ordered
  <2>4. need(g) \in Nat \ {0} /\ need(g) = DurationAt(ws[i], MaxSpeed)
    BY <2>1, <2>3, Constants, DurationFacts
  <2>5. /\ N[i] \in Nat /\ N[i - 1] \in Nat
        /\ N[i] = N[i - 1] + DurationAt(ws[i], MaxSpeed)
    BY <2>1, NeededRule
  <2>6. cursor[g] \in Nat /\ cursor[g - 1] \in Nat
    BY <1>4, <2>1
  <2> QED BY <2>1, <2>2, <2>3, <2>4, <2>5, <2>6 DEF i
<1> HIDE DEF chain, n, cursor, f, s, N, need
(* From the start of the group on there is no silence. *)
<1> DEFINE T == {g \in s..f : cursor[g] = chain[s].lower + (N[c + g - 1] - N[(c + s - 1) - 1])}
<1>9. s \in 1..n /\ \A g \in s..f : g \in 1..n
  BY <1>1, <1>5, <1>6
<1>10. s \in T
  <2>1. AtLeast(chain[s].lower, cursor[s - 1]) = chain[s].lower
    BY <1>6, <1>8, <1>9, Extremes
  <2>2. cursor[s] = chain[s].lower + need(s)
    BY <1>4, <1>9, <2>1
  <2>3. N[c + s - 1] - N[(c + s - 1) - 1] = need(s)
    <3>1. /\ N[(c + s - 1) - 1] \in Nat /\ need(s) \in Nat
          /\ N[c + s - 1] = N[(c + s - 1) - 1] + need(s)
      BY <1>8, <1>9
    <3> QED BY <3>1
  <2>4. s \in s..f
    BY <1>6
  <2> QED BY <2>2, <2>3, <2>4
<1>11. ASSUME NEW g \in (s + 1)..f, g - 1 \in T PROVE g \in T
  <2>1. g \in 1..n /\ g \in s..f /\ g \in Int /\ s \in Int
    BY <1>1, <1>6, <1>9
  <2>2. AtLeast(chain[g].lower, cursor[g - 1]) = cursor[g - 1]
    <3>1. chain[g].lower \in Int /\ cursor[g - 1] \in Int /\ chain[g].lower < cursor[g - 1]
      BY <1>6, <1>8, <2>1
    <3> QED BY <3>1, Extremes
  <2>3. cursor[g] = cursor[g - 1] + need(g)
    BY <1>4, <2>1, <2>2
  <2>4. cursor[g - 1] = chain[s].lower + (N[(c + g - 1) - 1] - N[(c + s - 1) - 1])
    <3>1. c + (g - 1) - 1 = (c + g - 1) - 1
      BY <1>1, <2>1
    <3> QED BY <1>11, <3>1
  <2>5. /\ N[(c + g - 1) - 1] \in Nat /\ need(g) \in Nat
        /\ N[c + g - 1] = N[(c + g - 1) - 1] + need(g)
        /\ chain[s].lower \in Nat /\ N[(c + s - 1) - 1] \in Nat
    BY <1>8, <1>9, <2>1
  <2>6. cursor[g] = chain[s].lower + (N[c + g - 1] - N[(c + s - 1) - 1])
    BY <2>3, <2>4, <2>5
  <2> QED BY <2>1, <2>6
<1>12. f \in T
  <2> HIDE DEF T
  <2>1. s \in Nat /\ f \in Nat /\ s <= f
    BY <1>1, <1>5, <1>6
  <2>2. s..f \subseteq T
    BY <1>10, <1>11, <2>1, Upwards
  <2> QED BY <2>1, <2>2
(* So what is missing at the end of the group is missing in all of it. *)
<1> DEFINE x == AtLeast(chain[f].lower, cursor[f - 1])
<1>13. x \in Nat /\ x <= chain[f].upper /\ cursor[f] = x + need(f)
  <2>1. /\ chain[f].lower \in Nat /\ chain[f].upper \in Int /\ cursor[f - 1] \in Nat
        /\ chain[f].lower <= chain[f].upper
    BY <1>5, <1>8
  <2>2. cursor[f - 1] <= chain[f].upper
    <3>1. CASE f = 1
      BY <1>4, <2>1, <3>1
    <3>2. CASE f # 1
      <4>1. f - 1 \in 1..(f - 1) /\ f - 1 \in 1..n
        BY <1>1, <1>5, <3>2
      <4>2. cursor[f - 1] <= chain[f - 1].upper /\ chain[f - 1].upper <= chain[f].upper
        BY <1>5, <1>8, <3>2, <4>1
      <4>3. chain[f - 1].upper \in Int
        BY <1>8, <4>1
      <4> QED BY <2>1, <4>2, <4>3
    <3> QED BY <3>1, <3>2
  <2>3. cursor[f] = x + need(f)
    BY <1>4, <1>5
  <2> QED BY <2>1, <2>2, <2>3, Extremes
<1> HIDE DEF x
<1>14. need(f) \in Nat /\ chain[f].upper \in Int /\ need(f) - (chain[f].upper - x) > 0
  BY <1>5, <1>8, <1>13
<1>15. Available(chain, f) = chain[f].upper - x
  BY <1>7, <1>13, <1>14, Extremes DEF x
<1>16. AtLeast(1, need(f) - Available(chain, f)) = cursor[f] - chain[f].upper
  BY <1>13, <1>14, <1>15, Extremes
<1>17. /\ refusal.refused = "capacity"
       /\ refusal.failure = c + f - 1 /\ refusal.start = c + s - 1
       /\ refusal.deficit = cursor[f] - chain[f].upper
  <2>1. chain[f].ordinal = c + f - 1 /\ chain[s].ordinal = c + s - 1
    BY <1>5, <1>8, <1>9
  <2> QED BY <1>16, <2>1 DEF Refusal, need, s
<1>18. /\ c + f - 1 \in Ordinals /\ c + s - 1 \in Ordinals /\ c + s - 1 <= c + f - 1
       /\ cursor[f] - chain[f].upper \in Nat \ {0}
  <2>1. c + f - 1 \in Ordinals /\ c + s - 1 \in Ordinals
    BY <1>5, <1>8, <1>9
  <2>2. c + s - 1 <= c + f - 1
    BY <1>1, <1>5, <1>6
  <2> QED BY <1>13, <1>14, <2>1, <2>2
<1>19. Needed(ws, c + s - 1, c + f - 1)
         = Room(ws, c + s - 1, c + f - 1) + (cursor[f] - chain[f].upper)
  <2>1. Needed(ws, c + s - 1, c + f - 1) = N[c + f - 1] - N[(c + s - 1) - 1]
    BY DEF Needed, N
  <2>2. Room(ws, c + s - 1, c + f - 1) = chain[f].upper - chain[s].lower
    BY <1>2, <1>5, <1>9 DEF Room
  <2>3. cursor[f] = chain[s].lower + (N[c + f - 1] - N[(c + s - 1) - 1])
    BY <1>12
  <2>4. /\ chain[s].lower \in Nat /\ chain[f].upper \in Int /\ cursor[f] \in Nat
        /\ N[c + f - 1] \in Nat /\ N[(c + s - 1) - 1] \in Nat
    BY <1>5, <1>8, <1>9
  <2> QED BY <2>1, <2>2, <2>3, <2>4
<1> HIDE DEF refusal
<1>20. Justified(ws, refusal)
  BY <1>17, <1>18, <1>19 DEF Justified
<1> QED BY <1>20 DEF refusal, chain, f

(* What _plan_natural_windows refuses is justified, and it never meets the *)
(* failure after smoothing that the code calls unexpected.                 *)
LEMMA RefusalsAreJustified ==
    ASSUME NEW ws, Windows(ws), Ordered(ws), PlanWindows(ws).refused # "no"
    PROVE  Justified(ws, PlanWindows(ws))
<1> DEFINE Chain(i) == SubSeq(ws, i, ChainEnd(ws, i))
           Fails(i) == FirstFailure(Chain(i), Fastest(Chain(i)))
           crowded == {i \in ChainStarts(ws) : Fails(i) # 0}
           own == OwnSpeeds(ws)
           OwnOf(i) == SubSeq(own, i, ChainEnd(ws, i))
           LevelAt(i) == Level(Chain(i), OwnOf(i))
           level == [i \in DOMAIN ws |-> LevelAt(Max({k \in ChainStarts(ws) : k <= i}))]
           raised == [i \in DOMAIN ws |-> AtLeast(own[i], level[i])]
           speeds == Smoothed(ws, raised)
           short == Min(TooShort(ws))
           one == SubSeq(ws, short, short)
           chain == Chain(Min(crowded))
           failure == Fails(Min(crowded))
           tooShort == Refusal(one, 1, one[1].upper - one[1].lower, 0, "capacity")
           late == Refusal(chain, failure, Available(chain, failure), 0, "capacity")
<1>1. PlanWindows(ws) =
        CASE TooShort(ws) # {} -> tooShort
          [] TooShort(ws) = {} /\ crowded # {} -> late
          [] TooShort(ws) = {} /\ crowded = {} /\ FirstFailure(ws, speeds) # 0 ->
               Refusal(ws, FirstFailure(ws, speeds), 0, 0, "unexpected")
          [] OTHER -> [refused |-> "no", speeds |-> speeds, slots |-> Centered(ws, speeds)]
  BY DEF PlanWindows
<1>2. Number \in Nat \ {0} /\ Ordinals = 1..Number /\ DOMAIN ws = 1..Number
  BY Constants DEF Ordinals, Windows
<1> HIDE DEF late, tooShort, speeds
<1>3. CASE TooShort(ws) # {}
  <2>1. TooShort(ws) \in SUBSET (1..Number)
    BY <1>2 DEF TooShort
  <2>2. short \in TooShort(ws)
    BY <1>2, <1>3, <2>1, FirstAndLast
  <2>3. PlanWindows(ws) = tooShort
    BY <1>1, <1>3
  <2> QED BY <2>2, <2>3, TooShortIsJustified DEF tooShort
<1>4. CASE TooShort(ws) = {} /\ crowded # {}
  <2>1. crowded \in SUBSET (1..Number)
    BY <1>2 DEF ChainStarts
  <2>2. Min(crowded) \in crowded
    <3> HIDE DEF crowded
    <3> QED BY <1>2, <1>4, <2>1, FirstAndLast
  <2> DEFINE c == Min(crowded)
  <2>3. c \in ChainStarts(ws) /\ Fails(c) # 0
    BY <2>2
  <2> HIDE DEF c
  <2>4. c \in Ordinals /\ ChainEnd(ws, c) \in c..Number
    BY <2>3, ChainsReach
  <2>5. PlanWindows(ws) = late
    BY <1>1, <1>4
  <2> QED BY <2>3, <2>4, <2>5, CrowdedIsJustified DEF late, c
<1>5. CASE TooShort(ws) = {} /\ crowded = {}
  <2>1. own \in AllSpeeds
    <3>1. \A s : Bisect(s, Unit, MaxSpeed) \in Speeds
      BY Constants, BisectFinds DEF Speeds
    <3> QED BY <1>2, <3>1 DEF OwnSpeeds, AllSpeeds
  <2> HIDE DEF own
  <2>2. ASSUME NEW c \in ChainStarts(ws)
        PROVE  /\ LevelAt(c) \in Speeds
               /\ FirstFailure(Chain(c), [g \in 1..(ChainEnd(ws, c) - c + 1) |->
                                            AtLeast(OwnOf(c)[g], LevelAt(c))]) = 0
    <3> DEFINE n == ChainEnd(ws, c) - c + 1
    <3>1. c \in Ordinals /\ ChainEnd(ws, c) \in c..Number
      BY ChainsReach
    <3>2. n \in Nat
      BY <1>2, <3>1
    <3>3. Timed(Chain(c), n) /\ OwnOf(c) \in SpeedsOf(n)
      BY <2>1, <3>1, ChainIsTimed, ChainSpeeds
    <3>4. FirstFailure(Chain(c), Fastest(Chain(c))) = 0
      BY <1>5
    <3> HIDE DEF n, Chain, OwnOf
    <3> QED BY <3>2, <3>3, <3>4, LevelSuffices DEF n
  <2>3. ASSUME NEW i \in 1..Number
        PROVE  /\ StartOf(ws, i) \in ChainStarts(ws)
               /\ raised[i] = AtLeast(own[i], LevelAt(StartOf(ws, i)))
    BY <1>2, ChainOfBlock DEF StartOf
  <2>4. \A x, y \in Speeds : AtLeast(x, y) \in Speeds
    BY Constants, Extremes DEF Speeds
  <2>5. raised \in AllSpeeds
    <3>1. ASSUME NEW i \in 1..Number PROVE raised[i] \in Speeds
      <4>1. own[i] \in Speeds /\ LevelAt(StartOf(ws, i)) \in Speeds
        BY <1>2, <2>1, <2>2, <2>3 DEF AllSpeeds
      <4> HIDE DEF raised, LevelAt
      <4> QED BY <2>3, <2>4, <4>1
    <3>2. raised = [i \in 1..Number |-> raised[i]]
      BY <1>2
    <3> HIDE DEF raised
    <3> QED BY <1>2, <3>1, <3>2 DEF AllSpeeds
  <2> HIDE DEF raised
  <2>6. ASSUME NEW c \in ChainStarts(ws)
        PROVE  FirstFailure(Chain(c), SubSeq(raised, c, ChainEnd(ws, c))) = 0
    <3> DEFINE n == ChainEnd(ws, c) - c + 1
               part == SubSeq(raised, c, ChainEnd(ws, c))
    <3>1. c \in Ordinals /\ ChainEnd(ws, c) \in c..Number
      BY ChainsReach
    <3>2. n \in Nat
      BY <1>2, <3>1
    <3>3. /\ part \in SpeedsOf(n)
          /\ \A g \in 1..n : part[g] = raised[c + g - 1] /\ OwnOf(c)[g] = own[c + g - 1]
      BY <2>1, <2>5, <3>1, ChainSpeeds
    <3>4. ASSUME NEW g \in 1..n PROVE part[g] = AtLeast(OwnOf(c)[g], LevelAt(c))
      <4>1. c + g - 1 \in c..ChainEnd(ws, c) /\ c + g - 1 \in 1..Number
        BY <1>2, <3>1
      <4>2. StartOf(ws, c + g - 1) = c
        BY <4>1, ChainsReach
      <4>3. raised[c + g - 1] = AtLeast(own[c + g - 1], LevelAt(c))
        BY <2>3, <4>1, <4>2
      <4> QED BY <3>3, <4>3
    <3> HIDE DEF part, n, OwnOf, LevelAt
    <3>5. part = [g \in 1..n |-> AtLeast(OwnOf(c)[g], LevelAt(c))]
      BY <3>3, <3>4 DEF SpeedsOf
    <3> QED BY <2>2, <3>5 DEF n, part
  <2>7. FirstFailure(ws, raised) = 0
    BY <2>5, <2>6, ChainsJoin
  <2>8. FirstFailure(ws, speeds) = 0
    <3>1. speeds \in AllSpeeds /\ \A i \in Ordinals : raised[i] <= speeds[i]
      BY <2>5, SmoothedFacts DEF speeds
    <3>2. Number \in Nat
      BY <1>2
    <3> QED BY <2>5, <2>7, <3>1, <3>2, WindowsAreTimed, EarlierWhenFaster
  <2>9. PlanWindows(ws)
          = [refused |-> "no", speeds |-> speeds, slots |-> Centered(ws, speeds)]
    BY <1>1, <1>5, <2>8
  <2> QED BY <2>9
<1> QED BY <1>3, <1>4, <1>5

-----------------------------------------------------------------------------
(* What is narrated, and the windows of it.                                *)

(* The blocks follow one another inside the video, and each of them lasts  *)
(* a sample at least.                                                      *)
Spoken ==
    /\ profile \in {"natural", "strict"}
    /\ blocks \in [Ordinals -> [start : Nat, end : Nat, work : Nat \ {0}]]
    /\ duration \in Nat
    /\ \A i \in Ordinals :
          /\ blocks[i].start < blocks[i].end /\ blocks[i].end <= duration
          /\ (blocks[i].end - blocks[i].start) * Rate >= Second
    /\ \A i, k \in Ordinals : k < i => blocks[k].end <= blocks[i].start

(* The video begins with such blocks.                                      *)
LEMMA InputsAreSpoken == Init => Spoken
<1> SUFFICES ASSUME Init PROVE Spoken
  OBVIOUS
<1>1. PICK input \in Inputs : /\ blocks = BlocksOf(input)
                              /\ duration = blocks[Number].end + input.gap[Number + 1]
  BY DEF Init
<1> DEFINE Step(i, x) == x + input.gap[i] + input.length[i]
           Rule(f) == [i \in 0..Number |-> IF i = 0 THEN 0 ELSE Step(i, f[i - 1])]
           end == CHOOSE f : f = Rule(f)
           H == [i \in 1..Number |-> [x \in Nat |-> Step(i, x)]]
<1>2. Number \in Nat \ {0} /\ Ordinals = 1..Number
  BY Constants DEF Ordinals
<1>3. /\ \A i \in 1..(Number + 1) : input.gap[i] \in Nat
      /\ \A i \in Ordinals : /\ input.length[i] \in Nat \ {0} /\ input.work[i] \in Nat \ {0}
                             /\ input.length[i] * Rate >= Second
  <2>1. /\ input.gap \in [1..(Number + 1) -> Gaps] /\ input.length \in [Ordinals -> Lengths]
        /\ input.work \in [Ordinals -> Works]
    BY DEF Inputs
  <2>2. /\ Gaps \subseteq Nat /\ Lengths \subseteq Nat \ {0} /\ Works \subseteq Nat \ {0}
        /\ \A l \in Lengths : l * Rate >= Second
    BY TimingAssumption
  <2> QED BY <2>1, <2>2
<1>4. BlocksOf(input) = [i \in Ordinals |-> [start |-> end[i] - input.length[i],
                                              end |-> end[i], work |-> input.work[i]]]
  BY DEF BlocksOf
<1>5. ASSUME NEW i \in Ordinals, NEW x \in Nat
      PROVE  Step(i, x) \in Nat /\ x <= Step(i, x) - input.length[i]
  <2>1. i \in 1..(Number + 1)
    BY <1>2
  <2> QED BY <1>3, <2>1
<1> HIDE DEF Step
<1>6. H \in Recursions(Number, Nat)
  BY <1>2, <1>5 DEF Recursions
<1>7. \A i \in 1..Number, x \in Nat : H[i][x] = Step(i, x)
  OBVIOUS
<1> HIDE DEF H
<1>8. PICK g : Unfolds(g, Number, Nat, 0, H)
  BY <1>2, <1>6, RecursionUpwards
<1>9. g = Rule(g)
  <2>1. ASSUME NEW i \in 1..Number PROVE g[i] = Step(i, g[i - 1])
    <3>1. i - 1 \in 0..Number
      BY <1>2
    <3> QED BY <1>7, <1>8, <3>1 DEF Unfolds
  <2> QED BY <1>2, <1>8, <2>1 DEF Unfolds
<1>10. end = Rule(end)
  BY <1>9 DEF Step
<1> HIDE DEF end
<1>11. end[0] = 0 /\ \A i \in Ordinals : end[i] = Step(i, end[i - 1])
  BY <1>2, <1>10
<1> DEFINE T == {i \in 0..Number : end[i] \in Nat}
<1>12. 0 \in T
  BY <1>2, <1>11
<1>13. ASSUME NEW i \in 1..Number, i - 1 \in T PROVE i \in T
  <2>1. i \in Ordinals /\ i \in 0..Number /\ end[i - 1] \in Nat
    BY <1>2, <1>13
  <2>2. end[i] \in Nat
    BY <1>5, <1>11, <2>1
  <2> QED BY <2>1, <2>2
<1>14. \A i \in 0..Number : end[i] \in Nat
  <2>1. 0..Number \subseteq T
    <3> HIDE DEF T
    <3>1. 0 <= Number /\ 0 \in Nat /\ 0 + 1 = 1
      BY <1>2
    <3> QED BY <1>2, <1>12, <1>13, <3>1, Upwards
  <2> QED BY <2>1
<1>15. ASSUME NEW i \in Ordinals
       PROVE  /\ end[i - 1] \in Nat /\ end[i] \in Nat
              /\ end[i - 1] <= end[i] - input.length[i]
              /\ blocks[i].start = end[i] - input.length[i]
              /\ blocks[i].end = end[i] /\ blocks[i].work = input.work[i]
  <2>1. i - 1 \in 0..Number /\ i \in 0..Number
    BY <1>2
  <2>2. blocks[i] = [start |-> end[i] - input.length[i], end |-> end[i],
                     work |-> input.work[i]]
    BY <1>1, <1>4
  <2>3. end[i - 1] \in Nat /\ end[i] \in Nat
    BY <1>14, <2>1
  <2>4. end[i - 1] <= end[i] - input.length[i]
    BY <1>5, <1>11, <2>3
  <2> QED BY <2>2, <2>3, <2>4
(* The ends are in order. *)
<1>16. ASSUME NEW k \in Ordinals
       PROVE  \A i \in k..Number : end[k] <= end[i]
  <2> DEFINE After == {i \in k..Number : end[k] <= end[i]}
  <2>1. k \in After
    <3>1. k \in k..Number /\ end[k] \in Nat
      BY <1>2, <1>15
    <3> QED BY <3>1
  <2>2. ASSUME NEW i \in (k + 1)..Number, i - 1 \in After PROVE i \in After
    <3>1. i \in Ordinals /\ i \in k..Number
      BY <1>2
    <3>2. /\ end[i - 1] \in Nat /\ end[i] \in Nat /\ end[k] \in Nat
          /\ end[i - 1] <= end[i] - input.length[i] /\ input.length[i] \in Nat
      BY <1>3, <1>15, <3>1
    <3>3. end[k] <= end[i - 1]
      BY <2>2
    <3> QED BY <3>1, <3>2, <3>3
  <2>3. k..Number \subseteq After
    <3> HIDE DEF After
    <3>1. k \in Nat /\ k <= Number
      BY <1>2
    <3> QED BY <1>2, <2>1, <2>2, <3>1, Upwards
  <2> QED BY <2>3
<1>17. ASSUME NEW i \in Ordinals, NEW k \in Ordinals, k < i
       PROVE  blocks[k].end <= blocks[i].start
  <2>1. i - 1 \in k..Number
    BY <1>2, <1>17
  <2>2. end[k] <= end[i - 1]
    BY <1>16, <2>1
  <2>3. /\ end[i - 1] \in Nat /\ end[k] \in Nat
        /\ blocks[k].end = end[k] /\ end[i - 1] <= blocks[i].start
        /\ blocks[i].start \in Int
    BY <1>3, <1>15
  <2> QED BY <2>2, <2>3
<1>18. ASSUME NEW i \in Ordinals PROVE end[i] <= end[Number]
  BY <1>2, <1>16
<1>19. duration \in Nat /\ end[Number] <= duration
  <2>1. Number \in Ordinals /\ Number + 1 \in 1..(Number + 1)
    BY <1>2
  <2>2. input.gap[Number + 1] \in Nat /\ end[Number] \in Nat
        /\ duration = end[Number] + input.gap[Number + 1]
    BY <1>1, <1>3, <1>15, <2>1
  <2> QED BY <2>2
<1>20. ASSUME NEW i \in Ordinals
       PROVE  /\ blocks[i] \in [start : Nat, end : Nat, work : Nat \ {0}]
              /\ blocks[i].start < blocks[i].end /\ blocks[i].end <= duration
              /\ (blocks[i].end - blocks[i].start) * Rate >= Second
  <2>1. /\ end[i - 1] \in Nat /\ end[i] \in Nat /\ end[i - 1] <= end[i] - input.length[i]
        /\ input.length[i] \in Nat \ {0} /\ input.work[i] \in Nat \ {0}
        /\ input.length[i] * Rate >= Second
    BY <1>3, <1>15
  <2>2. /\ end[i] - input.length[i] \in Nat /\ end[i] - input.length[i] < end[i]
        /\ end[i] - (end[i] - input.length[i]) = input.length[i]
    BY <2>1
  <2>3. end[Number] \in Nat /\ end[i] <= end[Number]
    BY <1>2, <1>14, <1>18
  <2>4. blocks[i] = [start |-> end[i] - input.length[i], end |-> end[i],
                     work |-> input.work[i]]
    BY <1>1, <1>4
  <2> QED BY <1>19, <2>1, <2>2, <2>3, <2>4
<1>21. blocks \in [Ordinals -> [start : Nat, end : Nat, work : Nat \ {0}]]
  BY <1>1, <1>4, <1>20
<1> QED BY <1>17, <1>19, <1>20, <1>21 DEF Spoken, Init

(* The window every block has contains its scene and is inside the video.  *)
LEMMA BaseWindows ==
    ASSUME Spoken
    PROVE  /\ Windows(Base)
           /\ \A i \in Ordinals :
                 /\ Base[i].lower = IF blocks[i].start >= Borrow
                                    THEN blocks[i].start - Borrow ELSE 0
                 /\ Base[i].upper = IF blocks[i].end + Borrow <= duration
                                    THEN blocks[i].end + Borrow ELSE duration
                 /\ Base[i].lower <= blocks[i].start /\ blocks[i].end <= Base[i].upper
                 /\ Base[i].upper <= duration /\ Base[i].upper \in Nat
                 /\ Base[i].work = blocks[i].work
<1>1. Borrow \in Nat /\ Number \in Nat \ {0} /\ Ordinals = 1..Number
  BY TimingAssumption, Constants DEF Ordinals
<1>2. ASSUME NEW i \in Ordinals
      PROVE  /\ Base[i].lower = IF blocks[i].start >= Borrow
                                THEN blocks[i].start - Borrow ELSE 0
             /\ Base[i].upper = IF blocks[i].end + Borrow <= duration
                                THEN blocks[i].end + Borrow ELSE duration
             /\ Base[i].work = blocks[i].work /\ Base[i].center \in Int
  <2>1. Base[i] = [ordinal |-> i,
                   lower |-> AtLeast(0, blocks[i].start - Borrow),
                   upper |-> AtMost(duration, blocks[i].end + Borrow),
                   center |-> (blocks[i].start + blocks[i].end) \div 2,
                   work |-> blocks[i].work]
    BY DEF Base, Window
  <2>2. blocks[i].start \in Nat /\ blocks[i].end \in Nat /\ duration \in Nat
    BY DEF Spoken
  <2>3. AtLeast(0, blocks[i].start - Borrow)
          = IF blocks[i].start >= Borrow THEN blocks[i].start - Borrow ELSE 0
    BY <1>1, <2>2, Extremes
  <2>4. AtMost(duration, blocks[i].end + Borrow)
          = IF blocks[i].end + Borrow <= duration THEN blocks[i].end + Borrow ELSE duration
    BY <1>1, <2>2, Extremes
  <2>5. (blocks[i].start + blocks[i].end) \div 2 \in Int
    BY <2>2
  <2> QED BY <2>1, <2>3, <2>4, <2>5
<1>3. ASSUME NEW i \in Ordinals
      PROVE  /\ Base[i].lower <= blocks[i].start /\ blocks[i].end <= Base[i].upper
             /\ Base[i].upper <= duration /\ Base[i].upper \in Nat
             /\ Base[i].lower \in Nat /\ Base[i].work \in Nat \ {0}
  <2>1. /\ blocks[i].start \in Nat /\ blocks[i].end \in Nat /\ duration \in Nat
        /\ blocks[i].end <= duration /\ blocks[i].work \in Nat \ {0}
    BY DEF Spoken
  <2>2. /\ Base[i].lower \in Nat /\ Base[i].lower <= blocks[i].start
    BY <1>1, <1>2, <2>1
  <2>3. /\ Base[i].upper \in Nat /\ blocks[i].end <= Base[i].upper
        /\ Base[i].upper <= duration
    BY <1>1, <1>2, <2>1
  <2>4. Base[i].work \in Nat \ {0}
    BY <1>2, <2>1
  <2> QED BY <2>2, <2>3, <2>4
<1>4. DOMAIN Base = 1..Number /\ Len(Base) = Number
  BY <1>1 DEF Base
<1> QED BY <1>1, <1>2, <1>3, <1>4 DEF Windows

(* The silence around a block widens its window, but never as far as       *)
(* another block.                                                          *)
LEMMA ElasticWindows ==
    ASSUME Spoken
    PROVE  /\ Windows(Elastic)
           /\ \A i \in Ordinals :
                 /\ Elastic[i].lower <= Base[i].lower /\ Base[i].upper <= Elastic[i].upper
                 /\ Elastic[i].upper <= duration /\ Elastic[i].upper \in Nat
                 /\ Elastic[i].work = blocks[i].work
                 /\ Elastic[i].lower < Base[i].lower /\ i # 1 =>
                       blocks[i - 1].end + Guard <= Elastic[i].lower
                 /\ Base[i].upper < Elastic[i].upper /\ i # Number =>
                       Elastic[i].upper <= blocks[i + 1].start - Guard
<1>1. /\ SilentBorrow \in Nat /\ Guard \in Nat
      /\ Number \in Nat \ {0} /\ Ordinals = 1..Number
  BY TimingAssumption, Constants DEF Ordinals
<1>2. ASSUME NEW i \in Ordinals
      PROVE  /\ Elastic[i].lower \in Nat /\ Elastic[i].upper \in Nat
             /\ Elastic[i].center \in Int /\ Elastic[i].work = blocks[i].work
             /\ Elastic[i].work \in Nat \ {0}
             /\ Elastic[i].lower <= Base[i].lower /\ Base[i].upper <= Elastic[i].upper
             /\ Elastic[i].upper <= duration
             /\ Elastic[i].lower < Base[i].lower /\ i # 1 =>
                   blocks[i - 1].end + Guard <= Elastic[i].lower
             /\ Base[i].upper < Elastic[i].upper /\ i # Number =>
                   Elastic[i].upper <= blocks[i + 1].start - Guard
  <2> DEFINE floor == IF i = 1 THEN 0 ELSE blocks[i - 1].end + Guard
             ceiling == IF i = Number THEN duration ELSE blocks[i + 1].start - Guard
             least == AtLeast(0, blocks[i].start - SilentBorrow)
             most == AtMost(duration, blocks[i].end + SilentBorrow)
             down == AtLeast(least, floor)
             up == AtMost(most, ceiling)
             lower == AtMost(Base[i].lower, down)
             upper == AtLeast(Base[i].upper, up)
  <2>1. Elastic[i] = [Base[i] EXCEPT !.lower = lower, !.upper = upper]
    BY DEF Elastic, Stretched
  <2>2. Base[i] = [ordinal |-> i, lower |-> Base[i].lower, upper |-> Base[i].upper,
                   center |-> Base[i].center, work |-> Base[i].work]
    BY DEF Base, Window
  <2>3. /\ Elastic[i].lower = lower /\ Elastic[i].upper = upper
        /\ Elastic[i].center = Base[i].center /\ Elastic[i].work = Base[i].work
    BY <2>1, <2>2
  <2>4. /\ blocks[i].start \in Nat /\ blocks[i].end \in Nat /\ duration \in Nat
        /\ Base[i].lower \in Nat /\ Base[i].upper \in Nat /\ Base[i].upper <= duration
        /\ Base[i].center \in Int /\ Base[i].work = blocks[i].work
        /\ blocks[i].work \in Nat \ {0}
    BY BaseWindows DEF Spoken, Windows
  <2>5. floor \in Nat
    <3>1. i # 1 => i - 1 \in Ordinals
      BY <1>1
    <3> QED BY <1>1, <3>1 DEF Spoken
  <2>6. ceiling \in Int
    <3>1. i # Number => i + 1 \in Ordinals
      BY <1>1
    <3> QED BY <1>1, <2>4, <3>1 DEF Spoken
  <2>7. least \in Nat
    BY <1>1, <2>4, Extremes
  <2>8. most \in Int /\ most <= duration
    BY <1>1, <2>4, Extremes
  <2>9. i # 1 => floor = blocks[i - 1].end + Guard
    OBVIOUS
  <2>10. i # Number => ceiling = blocks[i + 1].start - Guard
    OBVIOUS
  <2> HIDE DEF floor, ceiling, least, most
  <2>11. down \in Nat /\ floor <= down
    BY <2>5, <2>7, Extremes
  <2>12. up \in Int /\ up <= most /\ up <= ceiling
    BY <2>6, <2>8, Extremes
  <2> HIDE DEF down, up
  <2>13. lower \in Nat /\ lower <= Base[i].lower /\ (lower < Base[i].lower => lower = down)
    BY <2>4, <2>11, Extremes
  <2>14. /\ upper \in Nat /\ Base[i].upper <= upper /\ upper <= duration
         /\ Base[i].upper < upper => upper = up
    BY <2>4, <2>8, <2>12, Extremes
  <2> HIDE DEF lower, upper
  <2>15. lower < Base[i].lower /\ i # 1 => blocks[i - 1].end + Guard <= lower
    BY <2>9, <2>11, <2>13
  <2>16. Base[i].upper < upper /\ i # Number => upper <= blocks[i + 1].start - Guard
    BY <2>10, <2>12, <2>14
  <2> QED BY <2>3, <2>4, <2>13, <2>14, <2>15, <2>16
<1>3. DOMAIN Elastic = 1..Number /\ Len(Elastic) = Number
  BY <1>1 DEF Elastic
<1> QED BY <1>1, <1>2, <1>3 DEF Windows

(* Blocks that are not far apart have windows that are near.               *)
LEMMA NeighboursAreNear ==
    ASSUME Spoken, NEW i \in 2..Number,
           blocks[i].start - blocks[i - 1].end <= 4 * Borrow
    PROVE  Near(Base, i) /\ Near(Elastic, i)
<1>1. i \in Ordinals /\ i - 1 \in Ordinals /\ i > 1 /\ Borrow \in Nat
  BY TimingAssumption, Constants DEF Ordinals
<1>2. /\ blocks[i].start \in Nat /\ blocks[i - 1].end \in Nat /\ duration \in Nat
      /\ blocks[i].start < blocks[i].end /\ blocks[i].end \in Nat /\ blocks[i].end <= duration
  BY <1>1 DEF Spoken
<1>3. /\ Base[i].lower = IF blocks[i].start >= Borrow THEN blocks[i].start - Borrow ELSE 0
      /\ Base[i - 1].upper = IF blocks[i - 1].end + Borrow <= duration
                             THEN blocks[i - 1].end + Borrow ELSE duration
  BY <1>1, BaseWindows
<1>4. Base[i].lower \in Nat /\ Base[i - 1].upper \in Nat
      /\ Base[i].lower - Base[i - 1].upper <= 2 * Borrow
  BY <1>1, <1>2, <1>3
<1>5. /\ Elastic[i].lower <= Base[i].lower /\ Base[i - 1].upper <= Elastic[i - 1].upper
      /\ Elastic[i].lower \in Nat /\ Elastic[i - 1].upper \in Nat
  BY <1>1, ElasticWindows DEF Windows
<1> QED BY <1>1, <1>4, <1>5 DEF Near

-----------------------------------------------------------------------------
(* Samples.                                                                *)

(* Times that are k samples apart, or more, are so after both are rounded. *)
LEMMA SamplesApart ==
    ASSUME NEW a \in Nat, NEW b \in Nat, NEW k \in Nat, a <= b,
           k * Second <= (b - a) * Rate
    PROVE  /\ Samples(a) \in Nat /\ Samples(b) \in Nat
           /\ Samples(a) + k <= Samples(b)
<1> DEFINE half == Second \div 2
           p == Samples(a)
           q == Samples(b)
<1>1. Second \in Nat \ {0} /\ Rate \in Nat \ {0}
  BY TimingAssumption
<1>2. half \in Nat
  BY <1>1
<1> DEFINE m == a * Rate + half
           n == b * Rate + half
<1>3. m \in Nat /\ n \in Nat
  BY <1>1, <1>2
<1>4. p = m \div Second /\ q = n \div Second
  BY DEF Samples
<1> HIDE DEF half, p, q, m, n
<1>5. p \in Int /\ Second * p <= m /\ m < Second * p + Second
  BY <1>1, <1>3, <1>4, Quotient
<1>6. q \in Int /\ Second * q <= n /\ n < Second * q + Second
  BY <1>1, <1>3, <1>4, Quotient
<1>7. p >= 0 /\ q >= 0
  <2>1. \A z \in Int : 0 <= Second * z + Second - 1 => z >= 0
    <3> SUFFICES ASSUME NEW z \in Int, 0 < Second * z + Second PROVE z >= 0
      BY <1>1
    <3>1. Second * (0 - 1) < Second * z
      BY <1>1
    <3>2. 0 - 1 < z
      BY <1>1, <3>1, Factors
    <3> QED BY <3>2
  <2>2. Second * p \in Int /\ Second * q \in Int
    BY <1>1, <1>5, <1>6
  <2>3. 0 <= Second * p + Second - 1 /\ 0 <= Second * q + Second - 1
    BY <1>1, <1>3, <1>5, <1>6, <2>2
  <2> QED BY <1>5, <1>6, <2>1, <2>3
<1>8. (b - a) * Rate = n - m
  BY <1>1, <1>2 DEF m, n
<1>9. Second * (p + k) < Second * (q + 1)
  <2>1. Second * (p + k) = Second * p + k * Second /\ Second * (q + 1) = Second * q + Second
    BY <1>1, <1>5, <1>6
  <2>2. Second * p \in Int /\ Second * q \in Int /\ k * Second \in Int
    BY <1>1, <1>5, <1>6
  <2> QED BY <1>1, <1>3, <1>5, <1>6, <1>8, <2>1, <2>2
<1>10. p + k < q + 1
  BY <1>1, <1>5, <1>6, <1>9, Factors
<1> QED BY <1>5, <1>6, <1>7, <1>10 DEF p, q

(* The video begins with sample 0.                                         *)
LEMMA SamplesOfNothing == Samples(0) = 0
<1>1. Second \in Nat \ {0} /\ Rate \in Nat
  BY TimingAssumption
<1>2. Second \div 2 \in Nat /\ Second \div 2 < Second
  BY <1>1
<1>3. 0 * Rate + Second \div 2 = Second \div 2
  BY <1>1, <1>2
<1> DEFINE half == Second \div 2
           z == half \div Second
<1>4. half \in Nat /\ half < Second
  BY <1>2
<1> HIDE DEF half
<1>5. z \in Int /\ Second * z <= half /\ half < Second * z + Second
  BY <1>1, <1>4, Quotient
<1> HIDE DEF z
<1>6. Second * z < Second * 1
  BY <1>1, <1>4, <1>5
<1>7. Second * (0 - 1) < Second * z
  BY <1>1, <1>4, <1>5
<1>8. z < 1 /\ 0 - 1 < z
  BY <1>1, <1>5, <1>6, <1>7, Factors
<1>9. z = 0
  BY <1>5, <1>8
<1> QED BY <1>3, <1>9 DEF Samples, z, half

-----------------------------------------------------------------------------
(* The inductive invariant: the plan is the planner's, what is fitted is   *)
(* what the plan says, and the track is what was fitted.                   *)

PlanSees ==
    plan # Unplanned => plan = IF profile = "strict" THEN PlanStrict ELSE PlanNatural

FitSees ==
    /\ fitted \in Seq([start : Nat, end : Nat, frames : Nat, padded : Int])
    /\ Len(fitted) <= Number
    /\ Len(fitted) > 0 => Planned
    /\ \A i \in 1..Len(fitted) :
          /\ fitted[i].start = plan.slots[i].start /\ fitted[i].end = plan.slots[i].end
          /\ fitted[i].frames = Frames(plan.slots[i])

TrackSees ==
    track # Unwritten =>
        /\ Len(fitted) = Number
        /\ track = [silence |-> [i \in 1..(Number + 1) |-> Silence(i)],
                    speech |-> [i \in Ordinals |-> fitted[i].frames]]

IInv == Spoken /\ PlanSees /\ FitSees /\ TrackSees /\ error = "none"

(* A plan in the natural profile fits into the windows every block has, or *)
(* it fits into the wider ones and was found local.                        *)
LEMMA NaturalPlan ==
    ASSUME Spoken, PlanSees, Planned, profile = "natural"
    PROVE  \/ Fits(Base, plan.speeds, plan.slots)
           \/ Fits(Elastic, plan.speeds, plan.slots) /\ NotLocal(plan) = {}
<1> DEFINE base == PlanWindows(Base)
           elastic == PlanWindows(Elastic)
           i == Min(NotLocal(elastic))
           refusal == Refusal(Elastic, i, 0, LocalityDeficit(i, elastic.slots[i]), "locality")
<1>1. plan = CASE base.refused = "no" -> base
               [] base.refused # "no" /\ elastic.refused # "no" -> elastic
               [] OTHER -> IF NotLocal(elastic) = {} THEN elastic ELSE refusal
  BY DEF PlanSees, Planned, PlanNatural
<1>2. refusal.refused # "no"
  BY DEF Refusal
<1>3. plan.refused = "no"
  BY DEF Planned
<1>4. Windows(Base) /\ Windows(Elastic)
  BY BaseWindows, ElasticWindows
<1> HIDE DEF base, elastic, refusal
<1>5. \/ plan = base /\ base.refused = "no"
      \/ plan = elastic /\ elastic.refused = "no" /\ NotLocal(plan) = {}
  BY <1>1, <1>2, <1>3
<1> QED BY <1>4, <1>5, PlanFits DEF base, elastic

(* Whatever the profile, the slots of a plan are in order and inside the   *)
(* video, and each is long enough, in samples, for its block.              *)
LEMMA SlotsAreSound ==
    ASSUME Spoken, PlanSees, Planned
    PROVE  /\ plan.slots \in [Ordinals -> [start : Nat, end : Nat]]
           /\ \A i \in Ordinals :
                 /\ plan.slots[i].start <= plan.slots[i].end
                 /\ plan.slots[i].end <= duration
                 /\ Frames(plan.slots[i]) \in Nat \ {0}
                 /\ profile = "natural" =>
                       blocks[i].work <= MaxSpeed * Frames(plan.slots[i])
           /\ \A i \in 2..Number : plan.slots[i - 1].end <= plan.slots[i].start
<1>1. CASE profile = "strict"
  <2>1. plan.slots = [i \in Ordinals |-> [start |-> blocks[i].start, end |-> blocks[i].end]]
    BY <1>1 DEF PlanSees, Planned, PlanStrict
  <2>2. ASSUME NEW i \in Ordinals
        PROVE  /\ plan.slots[i] = [start |-> blocks[i].start, end |-> blocks[i].end]
               /\ blocks[i].start \in Nat /\ blocks[i].end \in Nat
               /\ blocks[i].start <= blocks[i].end /\ blocks[i].end <= duration
               /\ 1 * Second <= (blocks[i].end - blocks[i].start) * Rate
    <3>1. /\ blocks[i].start \in Nat /\ blocks[i].end \in Nat /\ duration \in Nat
          /\ blocks[i].start < blocks[i].end /\ blocks[i].end <= duration
          /\ (blocks[i].end - blocks[i].start) * Rate >= Second
      BY DEF Spoken
    <3>2. Second \in Nat /\ Rate \in Nat
      BY TimingAssumption
    <3>3. (blocks[i].end - blocks[i].start) * Rate \in Int
      BY <3>1, <3>2
    <3>4. plan.slots[i] = [start |-> blocks[i].start, end |-> blocks[i].end]
      BY <2>1
    <3> QED BY <3>1, <3>2, <3>3, <3>4
  <2>3. \A i \in Ordinals : /\ plan.slots[i].start = blocks[i].start
                            /\ plan.slots[i].end = blocks[i].end
    BY <2>1
  <2>4. ASSUME NEW i \in Ordinals PROVE Frames(plan.slots[i]) \in Nat \ {0}
    <3>1. /\ Samples(blocks[i].start) \in Nat /\ Samples(blocks[i].end) \in Nat
          /\ Samples(blocks[i].start) + 1 <= Samples(blocks[i].end)
      BY <2>2, SamplesApart
    <3>2. Frames(plan.slots[i]) = Samples(blocks[i].end) - Samples(blocks[i].start)
      BY <2>3 DEF Frames
    <3> QED BY <3>1, <3>2
  <2>5. ASSUME NEW i \in 2..Number PROVE plan.slots[i - 1].end <= plan.slots[i].start
    <3>1. i \in Ordinals /\ i - 1 \in Ordinals /\ i - 1 < i
      BY Constants DEF Ordinals
    <3>2. blocks[i - 1].end <= blocks[i].start
      BY <3>1 DEF Spoken
    <3> QED BY <2>3, <3>1, <3>2
  <2>6. plan.slots \in [Ordinals -> [start : Nat, end : Nat]]
    BY <2>1, <2>2
  <2>7. \A i \in Ordinals : /\ plan.slots[i].start <= plan.slots[i].end
                            /\ plan.slots[i].end <= duration
    BY <2>2, <2>3
  <2> QED BY <1>1, <2>4, <2>5, <2>6, <2>7
<1>2. CASE profile = "natural"
  <2>1. PICK ws \in {Base, Elastic} : Fits(ws, plan.speeds, plan.slots)
    BY <1>2, NaturalPlan
  <2>2. /\ Windows(ws)
        /\ \A i \in Ordinals : ws[i].upper <= duration /\ ws[i].work = blocks[i].work
    BY BaseWindows, ElasticWindows
  <2>3. ASSUME NEW i \in Ordinals
        PROVE  /\ plan.slots[i].start <= plan.slots[i].end
               /\ plan.slots[i].end <= duration
               /\ Frames(plan.slots[i]) \in Nat \ {0}
               /\ blocks[i].work <= MaxSpeed * Frames(plan.slots[i])
    <3> DEFINE a == plan.slots[i].start
               b == plan.slots[i].end
               s == plan.speeds[i]
               k == CeilDiv(ws[i].work, s)
               f == Frames(plan.slots[i])
    <3>1. /\ a \in Nat /\ b \in Nat /\ b <= ws[i].upper
          /\ b = a + DurationAt(ws[i], s) /\ s \in Speeds
      BY <2>1 DEF Fits, AllSpeeds
    <3>2. /\ ws[i].work \in Nat \ {0} /\ ws[i].upper \in Int /\ ws[i].upper <= duration
          /\ ws[i].work = blocks[i].work /\ duration \in Nat
      BY <2>2 DEF Windows, Spoken
    <3>3. s \in Nat \ {0} /\ s <= MaxSpeed /\ MaxSpeed \in Nat
      BY <3>1, Constants DEF Speeds
    <3>4. /\ DurationAt(ws[i], s) \in Nat \ {0} /\ k \in Nat \ {0}
          /\ k * Second <= DurationAt(ws[i], s) * Rate
      BY <3>2, <3>3, DurationFacts
    <3>5. ws[i].work <= s * k
      <4> DEFINE work == ws[i].work
      <4>1. work \in Int
        BY <3>2
      <4> HIDE DEF work, s
      <4> QED BY <3>3, <4>1, RoundedUp DEF work
    <3> HIDE DEF k
    <3>6. f = Samples(b) - Samples(a)
      BY DEF Frames
    <3> HIDE DEF a, b, s, f
    <3>7. a <= b /\ b <= duration /\ b - a = DurationAt(ws[i], s)
      BY <3>1, <3>2, <3>4
    <3>8. Samples(a) \in Nat /\ Samples(b) \in Nat /\ Samples(a) + k <= Samples(b)
      BY <3>1, <3>4, <3>7, SamplesApart
    <3>9. f \in Nat \ {0} /\ k <= f
      BY <3>4, <3>6, <3>8
    <3>10. blocks[i].work <= MaxSpeed * f
      <4>1. s * k <= MaxSpeed * k
        BY <3>3, <3>4
      <4>2. MaxSpeed * k <= MaxSpeed * f
        BY <3>3, <3>4, <3>9
      <4>3. s * k \in Int /\ MaxSpeed * k \in Int /\ MaxSpeed * f \in Int
        BY <3>3, <3>4, <3>9
      <4> QED BY <3>2, <3>5, <4>1, <4>2, <4>3
    <3> QED BY <3>7, <3>9, <3>10 DEF a, b, f
  <2> QED BY <2>1, <2>3 DEF Fits
<1> QED BY <1>1, <1>2 DEF Spoken

(* What the planner would say does not change: it depends on the blocks    *)
(* and the duration only.                                                  *)
LEMMA PlanStays ==
    ASSUME UNCHANGED <<blocks, duration>>
    PROVE  PlanStrict' = PlanStrict /\ PlanNatural' = PlanNatural
<1>1. Base' = Base
  BY DEF Base, Window
<1>2. Elastic' = Elastic
  BY <1>1 DEF Elastic, Stretched
<1>3. \A p : NotLocal(p)' = NotLocal(p)
  BY <1>1 DEF NotLocal, Meets, DriftOf
<1>4. \A i, slot : LocalityDeficit(i, slot)' = LocalityDeficit(i, slot)
  BY <1>1 DEF LocalityDeficit, Meets, DriftOf
<1>5. PlanNatural' = PlanNatural
  BY <1>1, <1>2, <1>3, <1>4 DEF PlanNatural
<1>6. PlanStrict' = PlanStrict
  BY DEF PlanStrict
<1> QED BY <1>5, <1>6

(* The fitter refuses no block of a plan.                                  *)
LEMMA FitPreserves ==
    ASSUME IInv, FitBlock
    PROVE  IInv'
<1> DEFINE i == Len(fitted) + 1
           slot == plan.slots[i]
           target == Frames(slot)
           new == [start |-> slot.start, end |-> slot.end, frames |-> target,
                   padded |-> AtLeast(0, target - Slowest(i))]
           Fitted == [start : Nat, end : Nat, frames : Nat, padded : Int]
<1>1. /\ Planned /\ Len(fitted) < Number
      /\ UNCHANGED <<profile, blocks, duration, plan, track>>
  BY DEF FitBlock
<1>2. fitted \in Seq(Fitted) /\ Len(fitted) \in Nat /\ Number \in Nat
  BY Constants DEF IInv, FitSees
<1>3. i \in Ordinals /\ i \in Nat \ {0} /\ i <= Number
  BY <1>1, <1>2 DEF Ordinals
<1>4. /\ slot \in [start : Nat, end : Nat] /\ target \in Nat \ {0}
      /\ profile = "natural" => blocks[i].work <= MaxSpeed * target
  BY <1>1, <1>3, SlotsAreSound DEF IInv
<1>5. Slowest(i) \in Int
  <2>1. Slowdown \in Nat \ {0} /\ blocks[i].work \in Nat
    BY <1>3, TimingAssumption DEF IInv, Spoken
  <2>2. 2 * Slowdown \in Nat \ {0} /\ 2 * blocks[i].work + Slowdown \in Int
    BY <2>1
  <2> QED BY <2>2, Quotient DEF Slowest
<1>6. /\ ~(target <= 0)
      /\ ~(profile = "natural" /\ blocks[i].work > MaxSpeed * target)
  <2>1. MaxSpeed * target \in Int /\ blocks[i].work \in Int
    BY <1>3, <1>4, Constants DEF IInv, Spoken
  <2> HIDE DEF target, i
  <2> QED BY <1>4, <2>1
<1>7. fitted' = Append(fitted, new) /\ error' = error
  BY <1>6 DEF FitBlock
<1>8. new \in Fitted
  <2>1. AtLeast(0, target - Slowest(i)) \in Int
    BY <1>4, <1>5, Extremes
  <2> QED BY <1>4, <2>1
<1>9. /\ fitted' \in Seq(Fitted) /\ Len(fitted') = i
      /\ \A k \in 1..Len(fitted) : fitted'[k] = fitted[k]
      /\ fitted'[i] = new
  <2> HIDE DEF new, Fitted
  <2> QED BY <1>2, <1>7, <1>8
<1>10. /\ new.start = slot.start /\ new.end = slot.end /\ new.frames = Frames(slot)
  OBVIOUS
<1> HIDE DEF new, Fitted
<1>11. /\ \A s : Frames(s)' = Frames(s)
       /\ Planned' = Planned /\ plan' = plan
  BY <1>1 DEF Planned
<1>12. ASSUME NEW k \in 1..Len(fitted')
       PROVE  /\ fitted'[k].start = plan'.slots[k].start
              /\ fitted'[k].end = plan'.slots[k].end
              /\ fitted'[k].frames = Frames(plan.slots[k])
  <2>1. k = i \/ k \in 1..Len(fitted)
    BY <1>2, <1>9
  <2> QED BY <1>9, <1>10, <1>11, <2>1 DEF IInv, FitSees
<1>13. FitSees'
  BY <1>1, <1>3, <1>9, <1>11, <1>12 DEF FitSees, Fitted
<1>14. TrackSees'
  BY <1>1, <1>2 DEF IInv, TrackSees
<1>15. Spoken' /\ PlanSees'
  BY <1>1, PlanStays DEF IInv, Spoken, PlanSees
<1> QED BY <1>7, <1>13, <1>14, <1>15 DEF IInv

(* Nothing is fitted before there is a plan.                               *)
LEMMA PlanPreserves ==
    ASSUME IInv, PlanNarrationSlots
    PROVE  IInv'
<1>1. /\ plan = Unplanned
      /\ plan' = IF profile = "strict" THEN PlanStrict ELSE PlanNatural
      /\ UNCHANGED <<profile, blocks, duration, fitted, track, error>>
  BY DEF PlanNarrationSlots
<1>2. Len(fitted) = 0
  <2>1. Len(fitted) \in Nat /\ ~(Len(fitted) > 0)
    BY <1>1 DEF IInv, FitSees, Planned
  <2> QED BY <2>1
<1>3. Spoken' /\ error' = "none"
  BY <1>1 DEF IInv, Spoken
<1>4. PlanSees'
  BY <1>1, PlanStays DEF PlanSees
<1>5. FitSees'
  BY <1>1, <1>2 DEF IInv, FitSees
<1>6. TrackSees'
  BY <1>1, <1>2, Constants DEF IInv, TrackSees
<1> QED BY <1>3, <1>4, <1>5, <1>6 DEF IInv

(* What the track is made of: silence is not negative, and the samples of  *)
(* a block are those between its ends.                                     *)
LEMMA TrackIsSound ==
    ASSUME Spoken, PlanSees, FitSees, Len(fitted) = Number
    PROVE  /\ \A i \in Ordinals :
                 /\ fitted[i].start \in Nat /\ fitted[i].end \in Nat
                 /\ EndBefore(i) <= fitted[i].start /\ EndBefore(i) \in Nat
                 /\ fitted[i].start <= fitted[i].end /\ fitted[i].end <= duration
                 /\ Frames(fitted[i]) = fitted[i].frames
           /\ \A i \in 1..(Number + 1) : Silence(i) \in Nat
<1>1. Number \in Nat \ {0} /\ Ordinals = 1..Number
  BY Constants DEF Ordinals
<1>2. Planned
  BY <1>1 DEF FitSees
<1>3. ASSUME NEW i \in Ordinals
      PROVE  /\ fitted[i].start = plan.slots[i].start /\ fitted[i].end = plan.slots[i].end
             /\ fitted[i].frames = Frames(plan.slots[i])
  BY <1>1 DEF FitSees
<1>4. ASSUME NEW i \in Ordinals
      PROVE  /\ fitted[i].start \in Nat /\ fitted[i].end \in Nat
             /\ fitted[i].start <= fitted[i].end /\ fitted[i].end <= duration
             /\ Frames(fitted[i]) = fitted[i].frames
  <2>1. /\ plan.slots[i].start \in Nat /\ plan.slots[i].end \in Nat
        /\ plan.slots[i].start <= plan.slots[i].end /\ plan.slots[i].end <= duration
    BY <1>2, SlotsAreSound
  <2>2. Frames(fitted[i]) = Frames(plan.slots[i])
    BY <1>3 DEF Frames
  <2> QED BY <1>3, <2>1, <2>2
<1>5. ASSUME NEW i \in Ordinals PROVE EndBefore(i) \in Nat /\ EndBefore(i) <= fitted[i].start
  <2>1. CASE i = 1
    BY <1>4, <2>1 DEF EndBefore
  <2>2. CASE i # 1
    <3>1. i - 1 \in Ordinals /\ i \in 2..Number
      BY <1>1, <2>2
    <3>2. plan.slots[i - 1].end <= plan.slots[i].start
      BY <1>2, <3>1, SlotsAreSound
    <3>3. fitted[i - 1].end = plan.slots[i - 1].end /\ fitted[i].start = plan.slots[i].start
      BY <1>3, <3>1
    <3>4. fitted[i - 1].end \in Nat
      BY <1>4, <3>1
    <3> QED BY <2>2, <3>2, <3>3, <3>4 DEF EndBefore
  <2> QED BY <2>1, <2>2
<1>6. ASSUME NEW a \in Nat, NEW b \in Nat, a <= b PROVE Samples(b) - Samples(a) \in Nat
  <2>1. 0 \in Nat /\ 0 * Second <= (b - a) * Rate
    <3>1. Second \in Nat /\ Rate \in Nat /\ b - a \in Nat
      BY <1>6, TimingAssumption
    <3>2. 0 * Second = 0 /\ (b - a) * Rate \in Nat
      BY <3>1
    <3> QED BY <3>2
  <2>2. Samples(a) \in Nat /\ Samples(b) \in Nat /\ Samples(a) + 0 <= Samples(b)
    BY <1>6, <2>1, SamplesApart
  <2> QED BY <2>2
<1>7. ASSUME NEW i \in 1..(Number + 1) PROVE Silence(i) \in Nat
  <2>1. CASE i <= Number
    <3>1. i \in Ordinals
      BY <1>1, <2>1
    <3> QED BY <1>4, <1>5, <1>6, <2>1, <3>1 DEF Silence
  <2>2. CASE i = Number + 1
    <3>1. Number \in Ordinals /\ EndBefore(i) = fitted[Number].end /\ ~(i <= Number)
      BY <1>1, <2>2 DEF EndBefore
    <3>2. fitted[Number].end \in Nat /\ fitted[Number].end <= duration /\ duration \in Nat
      BY <1>4, <3>1 DEF Spoken
    <3> QED BY <1>6, <3>1, <3>2 DEF Silence
  <2> QED BY <1>1, <2>1, <2>2
<1> QED BY <1>4, <1>5, <1>7

(* The track is written: no block overlaps another.                        *)
LEMMA BuildPreserves ==
    ASSUME IInv, BuildTimeline
    PROVE  IInv'
<1>1. Len(fitted) = Number /\ UNCHANGED <<profile, blocks, duration, plan, fitted>>
  BY DEF BuildTimeline
<1>2. /\ \A i \in Ordinals : ~(fitted[i].start < EndBefore(i) \/ fitted[i].end > duration)
      /\ \A i \in 1..(Number + 1) : ~(Silence(i) < 0)
      /\ \A i \in Ordinals : Frames(fitted[i]) = fitted[i].frames
  <2>1. duration \in Nat
    BY DEF IInv, Spoken
  <2> QED BY <1>1, <2>1, TrackIsSound DEF IInv
<1>3. /\ error' = error
      /\ track' = [silence |-> [i \in 1..(Number + 1) |-> Silence(i)],
                   speech |-> [i \in Ordinals |-> fitted[i].frames]]
  BY <1>2 DEF BuildTimeline
<1>4. \A i : Silence(i)' = Silence(i)
  BY <1>1 DEF Silence, EndBefore
<1>5. TrackSees'
  BY <1>1, <1>3, <1>4 DEF TrackSees
<1>6. Spoken' /\ PlanSees' /\ FitSees'
  BY <1>1, PlanStays DEF IInv, Spoken, PlanSees, FitSees, Planned, Frames
<1> QED BY <1>3, <1>5, <1>6 DEF IInv

(* The inductive invariant holds for every input the constants allow.      *)
THEOREM Invariant == Spec => []IInv
<1>1. Init => IInv
  <2> SUFFICES ASSUME Init PROVE IInv
    OBVIOUS
  <2>1. plan = Unplanned /\ fitted = <<>> /\ track = Unwritten /\ error = "none"
    BY DEF Init
  <2>2. FitSees
    BY <2>1, Constants DEF FitSees
  <2> QED BY <2>1, <2>2, InputsAreSpoken DEF IInv, PlanSees, TrackSees
<1>2. IInv /\ [Next]_vars => IInv'
  <2> SUFFICES ASSUME IInv, [Next]_vars PROVE IInv'
    OBVIOUS
  <2>1. CASE Next
    BY <2>1, PlanPreserves, FitPreserves, BuildPreserves DEF Next
  <2>2. CASE UNCHANGED vars
    BY <2>2, PlanStays
    DEF vars, IInv, Spoken, PlanSees, FitSees, TrackSees, Planned, Frames, Silence, EndBefore
  <2> QED BY <2>1, <2>2
<1> QED BY <1>1, <1>2, PTL DEF Spec

-----------------------------------------------------------------------------
(* What the plan promises.                                                 *)

(* After each block the samples written are those up to its end.           *)
LEMMA WrittenToEnd ==
    ASSUME IInv, track # Unwritten
    PROVE  WrittenUpTo[Number] = Samples(fitted[Number].end)
<1> DEFINE Step(i, x) == x + track.silence[i] + track.speech[i]
           Rule(f) == [i \in 0..Number |-> IF i = 0 THEN 0 ELSE Step(i, f[i - 1])]
           written == CHOOSE f : f = Rule(f)
           H == [i \in 1..Number |-> [x \in Int |-> Step(i, x)]]
           After(i) == Samples(EndBefore(i + 1))
<1>1. /\ Number \in Nat \ {0} /\ Ordinals = 1..Number
      /\ Len(fitted) = Number /\ Spoken /\ PlanSees /\ FitSees
  BY Constants DEF Ordinals, IInv, TrackSees
<1>2. track = [silence |-> [i \in 1..(Number + 1) |-> Silence(i)],
               speech |-> [i \in Ordinals |-> fitted[i].frames]]
  BY DEF IInv, TrackSees
<1>3. ASSUME NEW i \in 1..Number
      PROVE  /\ track.silence[i] = Samples(fitted[i].start) - Samples(EndBefore(i))
             /\ track.speech[i] = Samples(fitted[i].end) - Samples(fitted[i].start)
             /\ Samples(EndBefore(i)) \in Nat /\ Samples(fitted[i].start) \in Nat
             /\ Samples(fitted[i].end) \in Nat /\ EndBefore(i + 1) = fitted[i].end
  <2>1. i \in Ordinals /\ i \in 1..(Number + 1) /\ i <= Number /\ i + 1 # 1 /\ (i + 1) - 1 = i
    BY <1>1
  <2>2. /\ fitted[i].start \in Nat /\ fitted[i].end \in Nat /\ EndBefore(i) \in Nat
        /\ Frames(fitted[i]) = fitted[i].frames
    BY <1>1, <2>1, TrackIsSound
  <2>3. ASSUME NEW a \in Nat PROVE Samples(a) \in Nat
    <3>1. 0 * Second <= (a - a) * Rate
      <4>1. Second \in Nat /\ Rate \in Nat
        BY TimingAssumption
      <4> QED BY <4>1
    <3>2. 0 \in Nat /\ a <= a
      BY <2>3
    <3> QED BY <2>3, <3>1, <3>2, SamplesApart
  <2>4. EndBefore(i + 1) = fitted[i].end
    BY <2>1 DEF EndBefore
  <2> QED BY <1>2, <2>1, <2>2, <2>3, <2>4 DEF Silence, Frames
<1>4. WrittenUpTo = written
  BY DEF WrittenUpTo
<1>5. ASSUME NEW i \in 1..Number, NEW x \in Int PROVE Step(i, x) \in Int
  BY <1>3
<1> HIDE DEF Step
<1>6. H \in Recursions(Number, Int)
  BY <1>5 DEF Recursions
<1>7. \A i \in 1..Number, x \in Int : H[i][x] = Step(i, x)
  OBVIOUS
<1> HIDE DEF H
<1>8. PICK g : Unfolds(g, Number, Int, 0, H)
  <2>1. Number \in Nat /\ 0 \in Int
    BY <1>1
  <2> QED BY <1>6, <2>1, RecursionUpwards
<1>9. g = Rule(g)
  <2>1. ASSUME NEW i \in 1..Number PROVE g[i] = Step(i, g[i - 1])
    <3>1. i - 1 \in 0..Number
      BY <1>1
    <3> QED BY <1>7, <1>8, <3>1 DEF Unfolds
  <2> QED BY <1>1, <1>8, <2>1 DEF Unfolds
<1>10. written = Rule(written)
  BY <1>9
<1> HIDE DEF written
<1>11. written[0] = 0 /\ \A i \in 1..Number : written[i] = Step(i, written[i - 1])
  BY <1>1, <1>10
<1> DEFINE T == {i \in 0..Number : written[i] = After(i)}
<1>12. 0 \in T
  <2>1. After(0) = 0
    BY SamplesOfNothing DEF EndBefore
  <2> QED BY <1>1, <1>11, <2>1
<1>13. ASSUME NEW i \in 1..Number, i - 1 \in T PROVE i \in T
  <2>1. written[i - 1] = Samples(EndBefore(i))
    <3>1. (i - 1) + 1 = i
      BY <1>1
    <3> QED BY <1>13, <3>1
  <2>2. written[i] = written[i - 1] + track.silence[i] + track.speech[i]
    BY <1>11 DEF Step
  <2>3. written[i] = Samples(fitted[i].end)
    BY <1>3, <2>1, <2>2
  <2> QED BY <1>1, <1>3, <2>3
<1>14. Number \in T
  <2> HIDE DEF T
  <2>1. 0 <= Number /\ 0 \in Nat /\ 0 + 1 = 1
    BY <1>1
  <2>2. 0..Number \subseteq T
    BY <1>1, <1>12, <1>13, <2>1, Upwards
  <2> QED BY <1>1, <2>2
<1> QED BY <1>1, <1>3, <1>4, <1>14

(* How far two speeds, or two times, are from one another.                 *)
LEMMA DistanceWithin ==
    ASSUME NEW a \in Int, NEW b \in Int, NEW d \in Int, a - b <= d, b - a <= d
    PROVE  Distance(a, b) <= d
BY Extremes DEF Distance

(* Every plan can be carried out: the fitter and the track refuse no slot, *)
(* the track is as long as the video, and no block is hurried above        *)
(* MaxSpeed or differs by more than Delta from a neighbour.                *)
THEOREM PlansAreSound == Spec => []PlanIsSound
<1>1. IInv => PlanIsSound
  <2> SUFFICES ASSUME IInv PROVE PlanIsSound
    OBVIOUS
  <2>1. error = "none" /\ Spoken /\ PlanSees /\ FitSees
    BY DEF IInv
  <2>2. ASSUME track # Unwritten
        PROVE  WrittenUpTo[Number] + track.silence[Number + 1] = Samples(duration)
    <3>1. Number \in Nat \ {0} /\ Ordinals = 1..Number /\ Len(fitted) = Number
      BY <2>2, Constants DEF Ordinals, IInv, TrackSees
    <3>2. Number \in Ordinals /\ Number + 1 \in 1..(Number + 1) /\ ~(Number + 1 <= Number)
          /\ EndBefore(Number + 1) = fitted[Number].end
      BY <3>1 DEF EndBefore
    <3>3. track.silence[Number + 1] = Samples(duration) - Samples(fitted[Number].end)
      <4>1. track.silence[Number + 1] = Silence(Number + 1)
        BY <2>2, <3>2 DEF IInv, TrackSees
      <4> QED BY <3>2, <4>1 DEF Silence
    <3>4. fitted[Number].end \in Nat /\ fitted[Number].end <= duration /\ duration \in Nat
      BY <2>1, <3>1, <3>2, TrackIsSound DEF Spoken
    <3>5. 0 * Second <= (duration - fitted[Number].end) * Rate
      <4>1. Second \in Nat /\ Rate \in Nat /\ duration - fitted[Number].end \in Nat
        BY <3>4, TimingAssumption
      <4>2. 0 * Second = 0 /\ (duration - fitted[Number].end) * Rate \in Nat
        BY <4>1
      <4> QED BY <4>2
    <3>6. 0 \in Nat
      OBVIOUS
    <3>7. Samples(fitted[Number].end) \in Nat /\ Samples(duration) \in Nat
      BY <3>4, <3>5, <3>6, SamplesApart
    <3> QED BY <2>2, <3>3, <3>7, WrittenToEnd
  <2>3. ASSUME Planned, profile = "natural", NEW i \in Ordinals
        PROVE  /\ plan.speeds[i] \in Unit..MaxSpeed
               /\ i > 1 /\ blocks[i].start - blocks[i - 1].end <= 4 * Borrow
                    => Distance(plan.speeds[i], plan.speeds[i - 1]) <= Delta
    <3>1. PICK ws \in {Base, Elastic} : Fits(ws, plan.speeds, plan.slots)
      BY <2>1, <2>3, NaturalPlan
    <3>2. plan.speeds \in [Ordinals -> Speeds]
      BY <3>1 DEF Fits, AllSpeeds
    <3>3. ASSUME i > 1, blocks[i].start - blocks[i - 1].end <= 4 * Borrow
          PROVE  Distance(plan.speeds[i], plan.speeds[i - 1]) <= Delta
      <4>1. i \in 2..Number /\ i - 1 \in Ordinals
        BY <3>3, Constants DEF Ordinals
      <4>2. Near(ws, i)
        BY <2>1, <3>3, <4>1, NeighboursAreNear
      <4>3. /\ plan.speeds[i] - plan.speeds[i - 1] <= Delta
            /\ plan.speeds[i - 1] - plan.speeds[i] <= Delta
        BY <3>1, <4>1, <4>2 DEF Fits
      <4>4. plan.speeds[i] \in Int /\ plan.speeds[i - 1] \in Int /\ Delta \in Int
        BY <3>2, <4>1, Constants DEF Speeds
      <4> QED BY <4>3, <4>4, DistanceWithin
    <3> QED BY <3>2, <3>3 DEF Speeds
  <2> QED BY <2>1, <2>2, <2>3 DEF PlanIsSound
<1> QED BY <1>1, Invariant, PTL

(* The drift of a slot from its scene is a number.                         *)
LEMMA DriftIsInt ==
    ASSUME Spoken, NEW i \in Ordinals, NEW slot \in [start : Nat, end : Nat]
    PROVE  DriftOf(i, slot) \in Int
<1>1. CenterOf(slot) \in Int
  BY DEF CenterOf
<1>2. Base[i].center \in Int
  BY BaseWindows DEF Windows
<1> QED BY <1>1, <1>2, Extremes DEF DriftOf, Distance

(* What a slot takes beyond the window of its block is silence, and it     *)
(* stays near its scene and away from the speech of every other block.     *)
THEOREM OnlySilenceIsLent == Spec => []SilenceOnlyIsLent
<1> DEFINE Lent(i) ==
        LET slot == plan.slots[i] IN
        /\ slot.start < Base[i].lower =>
             /\ DriftOf(i, slot) <= Drift
             /\ \A k \in 1..(i - 1) : blocks[k].end + Guard <= slot.start
        /\ slot.end > Base[i].upper =>
             /\ DriftOf(i, slot) <= Drift
             /\ \A k \in (i + 1)..Number : slot.end <= blocks[k].start - Guard
<1>1. ASSUME IInv, Planned, NEW i \in Ordinals PROVE Lent(i)
  <2> DEFINE slot == plan.slots[i]
  <2>1. Spoken /\ PlanSees
    BY <1>1 DEF IInv
  <2>2. Number \in Nat \ {0} /\ Ordinals = 1..Number /\ Guard \in Nat /\ Drift \in Nat
    BY Constants, TimingAssumption DEF Ordinals
  <2>3. /\ Base[i].lower \in Nat /\ Base[i].upper \in Nat
        /\ Base[i].lower <= blocks[i].start /\ blocks[i].end <= Base[i].upper
    BY <2>1, BaseWindows DEF Windows
  <2>4. slot \in [start : Nat, end : Nat]
    BY <1>1, <2>1, SlotsAreSound
  <2>5. ASSUME Base[i].lower <= slot.start, slot.end <= Base[i].upper PROVE Lent(i)
    BY <2>3, <2>4, <2>5
  <2>6. CASE profile = "strict"
    <3>1. slot.start = blocks[i].start /\ slot.end = blocks[i].end
      BY <1>1, <2>1, <2>6 DEF Planned, PlanSees, PlanStrict
    <3> QED BY <2>3, <2>5, <3>1
  <2>7. CASE Fits(Base, plan.speeds, plan.slots)
    BY <2>5, <2>7 DEF Fits
  <2>8. CASE Fits(Elastic, plan.speeds, plan.slots) /\ NotLocal(plan) = {}
    <3>1. DriftOf(i, slot) <= Drift
      <4>1. ~(DriftOf(i, slot) > Drift)
        BY <2>8 DEF NotLocal
      <4> QED BY <2>1, <2>2, <2>4, <4>1, DriftIsInt
    <3>2. Elastic[i].lower <= slot.start /\ slot.end <= Elastic[i].upper
      BY <2>8 DEF Fits
    <3>3. /\ Elastic[i].lower \in Nat /\ Elastic[i].upper \in Nat
          /\ Elastic[i].lower < Base[i].lower /\ i # 1 =>
                blocks[i - 1].end + Guard <= Elastic[i].lower
          /\ Base[i].upper < Elastic[i].upper /\ i # Number =>
                Elastic[i].upper <= blocks[i + 1].start - Guard
      BY <2>1, ElasticWindows DEF Windows
    <3>4. slot.start \in Nat /\ slot.end \in Nat
      BY <2>4
    <3> HIDE DEF slot
    <3>5. ASSUME slot.start < Base[i].lower, NEW k \in 1..(i - 1)
          PROVE  blocks[k].end + Guard <= slot.start
      <4>1. /\ k \in Ordinals /\ i - 1 \in Ordinals /\ i # 1
            /\ k = i - 1 \/ k < i - 1
        BY <2>2
      <4>2. blocks[i - 1].end + Guard <= slot.start /\ blocks[i - 1].end \in Nat
        <5>1. blocks[i - 1].end \in Nat
          BY <2>1, <4>1 DEF Spoken
        <5>2. Elastic[i].lower < Base[i].lower
          BY <2>3, <3>2, <3>3, <3>4, <3>5
        <5>3. blocks[i - 1].end + Guard <= Elastic[i].lower
          BY <3>3, <4>1, <5>2
        <5> QED BY <2>2, <3>2, <3>3, <3>4, <5>1, <5>3
      <4>3. CASE k = i - 1
        BY <4>2, <4>3
      <4>4. CASE k < i - 1
        <5>1. /\ blocks[k].end \in Nat /\ blocks[i - 1].start \in Nat
              /\ blocks[k].end <= blocks[i - 1].start
              /\ blocks[i - 1].start < blocks[i - 1].end
          BY <2>1, <4>1, <4>4 DEF Spoken
        <5>2. Guard \in Int
          BY <2>2
        <5> QED BY <3>4, <4>2, <5>1, <5>2
      <4> QED BY <4>1, <4>3, <4>4
    <3>6. ASSUME slot.end > Base[i].upper, NEW k \in (i + 1)..Number
          PROVE  slot.end <= blocks[k].start - Guard
      <4>1. /\ k \in Ordinals /\ i + 1 \in Ordinals /\ i # Number
            /\ k = i + 1 \/ i + 1 < k
        BY <2>2
      <4>2. slot.end <= blocks[i + 1].start - Guard /\ blocks[i + 1].start \in Nat
        <5>1. blocks[i + 1].start \in Nat
          BY <2>1, <4>1 DEF Spoken
        <5>2. Base[i].upper < Elastic[i].upper
          BY <2>3, <3>2, <3>3, <3>4, <3>6
        <5>3. Elastic[i].upper <= blocks[i + 1].start - Guard
          BY <3>3, <4>1, <5>2
        <5> QED BY <2>2, <3>2, <3>3, <3>4, <5>1, <5>3
      <4>3. CASE k = i + 1
        BY <4>2, <4>3
      <4>4. CASE i + 1 < k
        <5>1. /\ blocks[i + 1].end \in Nat /\ blocks[k].start \in Nat
              /\ blocks[i + 1].end <= blocks[k].start
              /\ blocks[i + 1].start < blocks[i + 1].end
          BY <2>1, <4>1, <4>4 DEF Spoken
        <5>2. Guard \in Int
          BY <2>2
        <5> QED BY <3>4, <4>2, <5>1, <5>2
      <4> QED BY <4>1, <4>3, <4>4
    <3> QED BY <3>1, <3>5, <3>6 DEF slot
  <2>9. profile \in {"natural", "strict"}
    BY <2>1 DEF Spoken
  <2> HIDE DEF Lent
  <2>10. CASE profile = "natural"
    BY <1>1, <2>1, <2>7, <2>8, <2>10, NaturalPlan
  <2> QED BY <2>6, <2>9, <2>10
<1>2. IInv => SilenceOnlyIsLent
  BY <1>1 DEF SilenceOnlyIsLent
<1> QED BY <1>2, Invariant, PTL

(* The windows of all blocks are in their order, with or without silence.  *)
LEMMA WindowsAreOrdered ==
    ASSUME Spoken
    PROVE  Ordered(Base) /\ Ordered(Elastic)
<1>1. Ordinals = 1..Number /\ Number \in Nat /\ Borrow \in Nat /\ Guard \in Nat
  BY Constants, TimingAssumption DEF Ordinals
<1>2. ASSUME NEW i \in Ordinals
      PROVE  /\ blocks[i].start \in Nat /\ blocks[i].end \in Nat /\ duration \in Nat
             /\ blocks[i].start < blocks[i].end
             /\ Base[i].lower \in Nat /\ Base[i].upper \in Nat
             /\ Elastic[i].lower \in Nat /\ Elastic[i].upper \in Nat
             /\ Base[i].lower <= blocks[i].start /\ blocks[i].end <= Base[i].upper
             /\ Elastic[i].lower <= Base[i].lower /\ Base[i].upper <= Elastic[i].upper
             /\ Base[i].upper = IF blocks[i].end + Borrow <= duration
                                THEN blocks[i].end + Borrow ELSE duration
             /\ Base[i].upper < Elastic[i].upper /\ i # Number =>
                   Elastic[i].upper <= blocks[i + 1].start - Guard
  BY BaseWindows, ElasticWindows DEF Spoken, Windows
<1>3. ASSUME NEW i \in Ordinals PROVE Base[i].ordinal = i /\ Elastic[i].ordinal = i
  <2>1. Base[i].ordinal = i
    BY <1>3 DEF Base, Window
  <2>2. Elastic[i].ordinal = Base[i].ordinal
    <3>1. DOMAIN Base[i] = {"ordinal", "lower", "upper", "center", "work"}
      BY DEF Base, Window
    <3>2. \E x, y : Elastic[i] = [Base[i] EXCEPT !.lower = x, !.upper = y]
      BY DEF Elastic, Stretched
    <3> QED BY <3>1, <3>2
  <2> QED BY <2>1, <2>2
<1>4. ASSUME NEW i \in Ordinals
      PROVE  Base[i].lower <= Base[i].upper /\ Elastic[i].lower <= Elastic[i].upper
  BY <1>2
<1>5. ASSUME NEW i \in Ordinals, i # 1
      PROVE  /\ Base[i - 1].upper <= Base[i].upper
             /\ Elastic[i - 1].upper <= Elastic[i].upper
  <2>1. i - 1 \in Ordinals /\ i - 1 < i /\ i - 1 # Number /\ (i - 1) + 1 = i
    BY <1>1, <1>5
  <2>2. /\ blocks[i - 1].end <= blocks[i].start
        /\ blocks[i - 1].end \in Nat /\ blocks[i].start \in Nat /\ blocks[i].end \in Nat
        /\ blocks[i].start < blocks[i].end /\ duration \in Nat
    BY <1>2, <2>1 DEF Spoken
  <2>3. Base[i - 1].upper <= Base[i].upper
    <3>1. /\ Base[i - 1].upper = IF blocks[i - 1].end + Borrow <= duration
                                 THEN blocks[i - 1].end + Borrow ELSE duration
          /\ Base[i].upper = IF blocks[i].end + Borrow <= duration
                             THEN blocks[i].end + Borrow ELSE duration
      BY <1>2, <2>1
    <3>2. blocks[i - 1].end <= blocks[i].end /\ Borrow \in Int
      BY <1>1, <2>2
    <3> QED BY <2>2, <3>1, <3>2
  <2>4. /\ Base[i - 1].upper <= Elastic[i - 1].upper
        /\ Base[i - 1].upper < Elastic[i - 1].upper =>
              Elastic[i - 1].upper <= blocks[i].start - Guard
    BY <1>2, <2>1
  <2>5. /\ Base[i - 1].upper \in Nat /\ Elastic[i - 1].upper \in Nat
        /\ Base[i].upper \in Nat /\ Elastic[i].upper \in Nat
        /\ blocks[i].end <= Base[i].upper /\ Base[i].upper <= Elastic[i].upper
    BY <1>2, <2>1
  <2>6. Elastic[i - 1].upper <= Elastic[i].upper
    BY <1>1, <2>2, <2>3, <2>4, <2>5
  <2> QED BY <2>3, <2>6
<1> QED BY <1>3, <1>4, <1>5 DEF Ordered

(* A rewrite is asked for only when it is needed: the blocks a refusal     *)
(* names are too long, even at full speed, by just as much as it says, or  *)
(* a slot would go too far from its scene; and without the silence there   *)
(* was no plan either.                                                     *)
THEOREM RefusalsAreNeeded == Spec => []RefusedIsOvercrowded
<1>1. IInv => RefusedIsOvercrowded
  <2> SUFFICES ASSUME IInv, Refused PROVE RefusedIsOvercrowded
    BY DEF RefusedIsOvercrowded
  <2> DEFINE base == PlanWindows(Base)
             elastic == PlanWindows(Elastic)
             i == Min(NotLocal(elastic))
             refusal == Refusal(Elastic, i, 0, LocalityDeficit(i, elastic.slots[i]), "locality")
  <2>1. Spoken /\ plan.refused # "no"
        /\ plan = IF profile = "strict" THEN PlanStrict ELSE PlanNatural
    BY DEF IInv, PlanSees, Refused
  <2>2. plan = PlanNatural
    BY <2>1 DEF PlanStrict
  <2>3. plan = CASE base.refused = "no" -> base
                 [] base.refused # "no" /\ elastic.refused # "no" -> elastic
                 [] OTHER -> IF NotLocal(elastic) = {} THEN elastic ELSE refusal
    BY <2>2 DEF PlanNatural
  <2>4. Windows(Base) /\ Windows(Elastic) /\ Ordered(Base) /\ Ordered(Elastic)
    BY <2>1, BaseWindows, ElasticWindows, WindowsAreOrdered
  <2>5. Number \in Nat /\ Ordinals = 1..Number
    BY Constants DEF Ordinals
  <2> HIDE DEF base, elastic, refusal
  <2>6. base.refused # "no"
    BY <2>1, <2>3
  <2>7. Justified(Base, base)
    BY <2>4, <2>6, RefusalsAreJustified DEF base
  <2>8. \E a, b \in Ordinals : a <= b /\ Needed(Base, a, b) > Room(Base, a, b)
    <3> DEFINE a == base.start
               b == base.failure
    <3>1. /\ a \in Ordinals /\ b \in Ordinals /\ a <= b
          /\ base.deficit \in Nat \ {0}
          /\ Needed(Base, a, b) = Room(Base, a, b) + base.deficit
      BY <2>7 DEF Justified
    <3> HIDE DEF a, b
    <3>2. Room(Base, a, b) \in Int
      BY <2>4, <3>1 DEF Room, Windows
    <3>3. Needed(Base, a, b) > Room(Base, a, b)
      BY <3>1, <3>2
    <3> QED BY <3>1, <3>3
  <2>9. /\ plan.refused \in {"capacity", "locality"}
        /\ plan.start <= plan.failure
        /\ plan.refused = "capacity" =>
             Needed(Elastic, plan.start, plan.failure)
               = Room(Elastic, plan.start, plan.failure) + plan.deficit
    <3>1. CASE elastic.refused # "no"
      <4>1. plan = elastic
        BY <2>3, <2>6, <3>1
      <4>2. Justified(Elastic, plan)
        BY <2>4, <3>1, <4>1, RefusalsAreJustified DEF elastic
      <4> QED BY <4>2 DEF Justified
    <3>2. CASE elastic.refused = "no"
      <4>1. NotLocal(elastic) # {} /\ plan = refusal
        BY <2>1, <2>3, <2>6, <3>2
      <4>2. NotLocal(elastic) \in SUBSET (1..Number)
        BY <2>5 DEF NotLocal
      <4>3. i \in 1..Number
        BY <2>5, <4>1, <4>2, FirstAndLast
      <4> HIDE DEF i
      <4> DEFINE s == GroupStart(Elastic, i)
      <4>4. s \in 1..i
        BY <2>4, <2>5, <4>3, WindowsAreTimed, GroupWaits
      <4> HIDE DEF s
      <4>5. s \in Ordinals /\ i \in Ordinals /\ s <= i
        BY <2>5, <4>3, <4>4
      <4>6. Elastic[s].ordinal = s /\ Elastic[i].ordinal = i
        BY <2>4, <4>5 DEF Ordered
      <4>7. plan.refused = "locality" /\ plan.failure = i /\ plan.start = s
        BY <4>1, <4>6 DEF refusal, Refusal, s
      <4> QED BY <4>5, <4>7
    <3> QED BY <3>1, <3>2
  <2> QED BY <2>8, <2>9 DEF RefusedIsOvercrowded
<1> QED BY <1>1, Invariant, PTL

=============================================================================
