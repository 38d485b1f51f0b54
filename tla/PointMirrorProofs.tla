-------------------------- MODULE PointMirrorProofs --------------------------
(***************************************************************************)
(* Points and their mirrors, with proofs for any values, steps and flags:  *)
(* the points stay as their constructors assert them, a mirror that missed *)
(* no change is the service's point when no signal is under way, one that  *)
(* missed a change is again after two more signals of its step, and a      *)
(* write of the rules carries what the mirror has.                         *)
(***************************************************************************)
EXTENDS PointMirror, SequenceTheorems, TLAPS

AllSteps == Nat \ {0}

\* The points of the program, whatever flags F there are.
Sound(F) == {p \in IoPoints(Int, AllSteps, F) : WellFormed(p)}

-----------------------------------------------------------------------------
(***************************************************************************)
(* Rounding                                                                *)
(***************************************************************************)

LEMMA Division ==
    ASSUME NEW a \in Int, NEW n \in AllSteps
    PROVE  /\ a \div n \in Int
           /\ (a \div n) * n <= a /\ a < (a \div n) * n + n
  BY DEF AllSteps

\* A multiple of a step that is nearest.
LEMMA Nearest ==
    ASSUME NEW x \in Int, NEW s \in AllSteps
    PROVE  \E k \in Int : /\ RoundToStep(x, s) = k * s
                          /\ 2 * (k * s) <= 2 * x + s /\ 2 * x <= 2 * (k * s) + s
<1>1. 2 * s \in AllSteps /\ 2 * x + s \in Int /\ s - 2 * x \in Int
  BY DEF AllSteps
<1>2. CASE x >= 0
  <2> DEFINE d == (2 * x + s) \div (2 * s)
  <2>1. d \in Int /\ d * (2 * s) <= 2 * x + s /\ 2 * x + s < d * (2 * s) + 2 * s
    BY <1>1, Division
  <2>2. RoundToStep(x, s) = d * s
    BY <1>2 DEF RoundToStep
  <2> HIDE DEF d
  <2>3. d * (2 * s) = 2 * (d * s)
    BY <2>1 DEF AllSteps
  <2>4. d * s \in Int /\ s \in Int
    BY <2>1 DEF AllSteps
  <2>5. 2 * (d * s) <= 2 * x + s /\ 2 * x <= 2 * (d * s) + s
    BY <2>1, <2>3, <2>4
  <2> QED BY <2>1, <2>2, <2>5
<1>3. CASE x < 0
  <2> DEFINE d == (s - 2 * x) \div (2 * s)
  <2>1. d \in Int /\ d * (2 * s) <= s - 2 * x /\ s - 2 * x < d * (2 * s) + 2 * s
    BY <1>1, Division
  <2>2. RoundToStep(x, s) = -(d * s)
    BY <1>3 DEF RoundToStep
  <2> HIDE DEF d
  <2>3. d * (2 * s) = 2 * (d * s) /\ -(d * s) = (-d) * s
    BY <2>1 DEF AllSteps
  <2>4. d * s \in Int /\ s \in Int /\ -d \in Int
    BY <2>1 DEF AllSteps
  <2>5. 2 * ((-d) * s) <= 2 * x + s /\ 2 * x <= 2 * ((-d) * s) + s
    BY <2>1, <2>3, <2>4
  <2> QED BY <2>2, <2>3, <2>4, <2>5
<1> QED BY <1>2, <1>3

\* The only multiple that is nearer than half a step.
LEMMA NearestIsUnique ==
    ASSUME NEW z \in Int, NEW s \in AllSteps, NEW k \in Int,
           2 * z < 2 * (k * s) + s, 2 * (k * s) < 2 * z + s
    PROVE  RoundToStep(z, s) = k * s
<1>1. PICK j \in Int : /\ RoundToStep(z, s) = j * s
                       /\ 2 * (j * s) <= 2 * z + s /\ 2 * z <= 2 * (j * s) + s
  BY Nearest
<1>2. j * s \in Int /\ k * s \in Int /\ s \in Int
  BY <1>1 DEF AllSteps
<1>3. j * s < k * s + s /\ k * s < j * s + s
  BY <1>1, <1>2
<1>4. CASE j > k
  <2>1. j * s >= k * s + s
    BY <1>1, <1>4 DEF AllSteps
  <2> QED BY <1>2, <1>3, <2>1
<1>5. CASE k > j
  <2>1. k * s >= j * s + s
    BY <1>1, <1>5 DEF AllSteps
  <2> QED BY <1>2, <1>3, <2>1
<1> QED BY <1>1, <1>4, <1>5

LEMMA Multiple ==
    ASSUME NEW x \in Int, NEW s \in AllSteps, x % s = 0
    PROVE  \E k \in Int : x = k * s
<1>1. x = (x \div s) * s /\ x \div s \in Int
  BY DEF AllSteps
<1> QED BY <1>1

\* Rounding gives a multiple and leaves multiples alone.
LEMMA Rounded ==
    ASSUME NEW x \in Int, NEW s \in AllSteps
    PROVE  /\ RoundToStep(x, s) \in Int /\ RoundToStep(x, s) % s = 0
           /\ x % s = 0 => RoundToStep(x, s) = x
<1>1. PICK k \in Int : RoundToStep(x, s) = k * s
  BY Nearest
<1>2. k * s \in Int /\ (k * s) % s = 0
  BY DEF AllSteps
<1>3. ASSUME x % s = 0
      PROVE  RoundToStep(x, s) = x
  <2>1. PICK j \in Int : x = j * s
    BY <1>3, Multiple
  <2>2. 2 * x < 2 * (j * s) + s /\ 2 * (j * s) < 2 * x + s
    BY <2>1 DEF AllSteps
  <2> QED BY <2>1, <2>2, NearestIsUnique
<1> QED BY <1>1, <1>2, <1>3

Distance(a, b) == IF a >= b THEN a - b ELSE b - a

\* Of two multiples half a step from a value the one further from zero is taken.
LEMMA HalvesAwayFromZero ==
    ASSUME NEW x \in Int, NEW s \in AllSteps, NEW k \in Int, RoundToStep(x, s) = k * s
    PROVE  /\ x >= 0 => 2 * x < 2 * (k * s) + s
           /\ x < 0 => 2 * (k * s) < 2 * x + s
<1>1. 2 * s \in AllSteps /\ 2 * x + s \in Int /\ s - 2 * x \in Int
  BY DEF AllSteps
<1>2. k * s \in Int /\ s \in Int
  BY DEF AllSteps
<1>3. ASSUME x >= 0
      PROVE  2 * x < 2 * (k * s) + s
  <2>1. PICK d \in Int : /\ d = (2 * x + s) \div (2 * s)
                         /\ 2 * x + s < d * (2 * s) + 2 * s
    BY <1>1, Division
  <2>2. k * s = d * s
    BY <1>3, <2>1 DEF RoundToStep
  <2>3. d * (2 * s) = 2 * (d * s) /\ d * s \in Int
    BY <2>1 DEF AllSteps
  <2> QED BY <1>2, <2>1, <2>2, <2>3
<1>4. ASSUME x < 0
      PROVE  2 * (k * s) < 2 * x + s
  <2>1. PICK d \in Int : /\ d = (s - 2 * x) \div (2 * s)
                         /\ s - 2 * x < d * (2 * s) + 2 * s
    BY <1>1, Division
  <2>2. k * s = -(d * s)
    BY <1>4, <2>1 DEF RoundToStep
  <2>3. d * (2 * s) = 2 * (d * s) /\ d * s \in Int
    BY <2>1 DEF AllSteps
  <2> QED BY <1>2, <2>1, <2>2, <2>3
<1> QED BY <1>3, <1>4

(* round (value / step) * step, which every setter of lib/input.c and lib/output.c
   begins with: the result is a multiple of the step, no other multiple is nearer, and
   of two at the same distance it is the one further from zero.  So a value that is a
   multiple is left alone, whatever its sign. *)
THEOREM RoundToStepRounds ==
    ASSUME NEW x \in Int, NEW s \in AllSteps
    PROVE  LET r == RoundToStep(x, s)
           IN  /\ r \in Int /\ r % s = 0
               /\ \A m \in Int : m % s = 0 => Distance(x, r) <= Distance(x, m)
               /\ \A m \in Int : m % s = 0 /\ m # r /\ Distance(x, m) = Distance(x, r)
                                    => Distance(m, 0) < Distance(r, 0)
               /\ x % s = 0 => r = x
<1>1. PICK k \in Int : /\ RoundToStep(x, s) = k * s
                       /\ 2 * (k * s) <= 2 * x + s /\ 2 * x <= 2 * (k * s) + s
  BY Nearest
<1>2. PICK r \in Int : r = k * s
  BY DEF AllSteps
<1>3. /\ RoundToStep(x, s) = r /\ r % s = 0 /\ (x % s = 0 => r = x)
      /\ 2 * r <= 2 * x + s /\ 2 * x <= 2 * r + s
      /\ x >= 0 => 2 * x < 2 * r + s
      /\ x < 0 => 2 * r < 2 * x + s
  <2>1. /\ x >= 0 => 2 * x < 2 * (k * s) + s
        /\ x < 0 => 2 * (k * s) < 2 * x + s
    BY <1>1, HalvesAwayFromZero
  <2> QED BY <1>1, <1>2, <2>1, Rounded
<1>4. ASSUME NEW m \in Int, m % s = 0, m # r
      PROVE  m >= r + s \/ m + s <= r
  <2>1. PICK j \in Int : m = j * s
    BY <1>4, Multiple
  <2>2. CASE j > k
    <3>1. j * s >= k * s + s
      BY <2>1, <2>2 DEF AllSteps
    <3> QED BY <1>2, <2>1, <3>1
  <2>3. CASE k > j
    <3>1. k * s >= j * s + s
      BY <2>1, <2>3 DEF AllSteps
    <3> QED BY <1>2, <2>1, <3>1
  <2>4. j # k
    BY <1>2, <1>4, <2>1
  <2> QED BY <2>2, <2>3, <2>4
<1>5. s \in Int /\ s > 0
  BY DEF AllSteps
<1>6. ASSUME NEW m \in Int, m % s = 0, m # r
      PROVE  /\ Distance(x, r) <= Distance(x, m)
             /\ Distance(x, m) = Distance(x, r) => Distance(m, 0) < Distance(r, 0)
  <2>1. m >= r + s \/ m + s <= r
    BY <1>4, <1>6
  <2>2. CASE m >= r + s
    BY <1>3, <1>5, <2>2 DEF Distance
  <2>3. CASE m + s <= r
    BY <1>3, <1>5, <2>3 DEF Distance
  <2> QED BY <2>1, <2>2, <2>3
<1> QED BY <1>3, <1>6 DEF Distance

\* A multiple of step t that was rounded to step s is found again from what step t
\* makes of it: the coarser of the two steps gives the same as before.
LEMMA RoundTrip ==
    ASSUME NEW x \in Int, NEW s \in AllSteps, NEW t \in AllSteps, x % t = 0
    PROVE  RoundToStep(RoundToStep(RoundToStep(x, s), t), s) = RoundToStep(x, s)
<1> DEFINE y == RoundToStep(x, s)
           z == RoundToStep(y, t)
<1>1. PICK m \in Int : x = m * t
  BY Multiple
<1>2. PICK k \in Int : /\ y = k * s
                       /\ 2 * (k * s) <= 2 * x + s /\ 2 * x <= 2 * (k * s) + s
  BY Nearest
<1>3. y \in Int
  BY Rounded
<1>4. PICK j \in Int : /\ z = j * t
                       /\ 2 * (j * t) <= 2 * y + t /\ 2 * y <= 2 * (j * t) + t
  <2> HIDE DEF y
  <2> QED BY <1>3, Nearest
<1>5. z \in Int /\ RoundToStep(x, s) = y /\ s \in Int /\ t \in Int
  <2> HIDE DEF y
  <2>1. z \in Int
    BY <1>3, Rounded
  <2> QED BY <2>1 DEF y, AllSteps
<1> HIDE DEF y, z
<1>6. CASE s < t
  <2>1. 2 * y < 2 * (m * t) + t /\ 2 * (m * t) < 2 * y + t
    BY <1>1, <1>2, <1>3, <1>5, <1>6
  <2>2. z = x
    BY <1>1, <1>3, <2>1, NearestIsUnique DEF z
  <2> QED BY <1>5, <2>2 DEF y, z
<1>7. CASE t < s
  <2>1. 2 * z < 2 * (k * s) + s /\ 2 * (k * s) < 2 * z + s
    BY <1>2, <1>3, <1>4, <1>5, <1>7
  <2>2. RoundToStep(z, s) = k * s
    BY <1>5, <2>1, NearestIsUnique
  <2> QED BY <1>2, <2>2 DEF y, z
<1>8. CASE s = t
  <2>1. y = x
    BY <1>8, Rounded DEF y
  <2>2. z = x
    BY <1>8, <2>1 DEF y, z
  <2> QED BY <2>1, <2>2 DEF y, z
<1> QED BY <1>5, <1>6, <1>7, <1>8

-----------------------------------------------------------------------------
(***************************************************************************)
(* The setters                                                             *)
(***************************************************************************)

LEMMA SoundFields ==
    ASSUME NEW F, NEW p
    PROVE  p \in Sound(F) <=>
              /\ p \in [min : Int, max : Int, step : AllSteps, val : Int, flags : SUBSET F]
              /\ p.min <= p.val /\ p.val <= p.max
              /\ p.min % p.step = 0 /\ p.val % p.step = 0 /\ p.max % p.step = 0
  BY DEF Sound, IoPoints, WellFormed

\* Whatever a setter is given, the point stays one that st_input_new and
\* st_output_new would have accepted.
THEOREM SettersKeepSound ==
    ASSUME NEW F, NEW p \in Sound(F), NEW v \in Int, NEW s \in AllSteps,
           NEW f \in SUBSET F
    PROVE  /\ SetMin(p, v) \in Sound(F)
           /\ SetMax(p, v) \in Sound(F)
           /\ SetVal(p, v) \in Sound(F)
           /\ SetStep(p, s) \in Sound(F)
           /\ SetFlags(p, f) \in Sound(F)
<1>1. /\ p \in [min : Int, max : Int, step : AllSteps, val : Int, flags : SUBSET F]
      /\ p.min <= p.val /\ p.val <= p.max
      /\ p.min % p.step = 0 /\ p.val % p.step = 0 /\ p.max % p.step = 0
  BY SoundFields
<1>2. \A x \in Int, t \in AllSteps :
         RoundToStep(x, t) \in Int /\ RoundToStep(x, t) % t = 0
  BY Rounded
<1>3. SetMin(p, v) \in Sound(F)
  BY <1>1, <1>2, SoundFields DEF SetMin
<1>4. SetMax(p, v) \in Sound(F)
  BY <1>1, <1>2, SoundFields DEF SetMax
<1>5. SetVal(p, v) \in Sound(F)
  BY <1>1, <1>2, SoundFields DEF SetVal, AcceptsVal
<1>6. SetStep(p, s) \in Sound(F)
  <2> DEFINE min == RoundToStep(p.min, s)
             max == RoundToStep(p.max, s)
             val == RoundToStep(p.val, s)
             q == [p EXCEPT !.min = min, !.max = max, !.val = val, !.step = s]
  <2>1. /\ min \in Int /\ max \in Int /\ val \in Int
        /\ min % s = 0 /\ max % s = 0 /\ val % s = 0
    BY <1>1, <1>2
  <2>2. SetStep(p, s) = IF min <= val /\ val <= max THEN q ELSE p
    BY DEF SetStep, AllSteps
  <2> HIDE DEF min, max, val
  <2>3. /\ q \in [min : Int, max : Int, step : AllSteps, val : Int, flags : SUBSET F]
        /\ q.min = min /\ q.max = max /\ q.val = val /\ q.step = s
    BY <1>1, <2>1
  <2> HIDE DEF q
  <2>4. min <= val /\ val <= max => q \in Sound(F)
    BY <2>1, <2>3, SoundFields
  <2> QED BY <2>2, <2>4
<1>7. SetFlags(p, f) \in Sound(F)
  BY <1>1, SoundFields DEF SetFlags
<1> QED BY <1>3, <1>4, <1>5, <1>6, <1>7

\* The points the mirrors and the service can hold.
Good == Sound(Flags)

-----------------------------------------------------------------------------
(***************************************************************************)
(* The change handler                                                      *)
(***************************************************************************)

\* All the setters of the handler, one after the other.
Handled(m, p) == SetFlags(SetVal(BoundsSet(m, p), p.val), p.flags)

\* A signal that tells the change from g to h: handling it makes a mirror that is
\* g exactly h, and a change of the step moves the value by rounding only.
Tells(g, h) ==
    /\ Handled(g, h) = h
    /\ h.step # g.step => h.val = RoundToStep(g.val, h.step)

LEMMA GoodFields ==
    ASSUME NEW p
    PROVE  p \in Good <=>
              /\ p \in [min : Int, max : Int, step : AllSteps, val : Int, flags : SUBSET Flags]
              /\ p.min <= p.val /\ p.val <= p.max
              /\ p.min % p.step = 0 /\ p.val % p.step = 0 /\ p.max % p.step = 0
  BY SoundFields DEF Good

\* A change that leaves the step and has the old value within the bounds.
LEMMA HandlesBounds ==
    ASSUME NEW p \in Good, NEW q \in Good, q.step = p.step,
           q.min <= p.val, p.val <= q.max
    PROVE  Handled(p, q) = q
<1>1. /\ p \in [min : Int, max : Int, step : AllSteps, val : Int, flags : SUBSET Flags]
      /\ p.val % p.step = 0
      /\ q \in [min : Int, max : Int, step : AllSteps, val : Int, flags : SUBSET Flags]
      /\ q.min <= q.val /\ q.val <= q.max
      /\ q.min % p.step = 0 /\ q.val % p.step = 0 /\ q.max % p.step = 0
  BY GoodFields
<1>2. \A x \in Int : x % p.step = 0 => RoundToStep(x, p.step) = x
  BY <1>1, Rounded
<1> DEFINE p1 == [p EXCEPT !.min = q.min]
           p2 == [p1 EXCEPT !.max = q.max]
           p3 == [p2 EXCEPT !.val = q.val]
<1>3. SetMin(p, q.min) = p1
  BY <1>1, <1>2 DEF SetMin
<1>4. SetMax(p1, q.max) = p2
  BY <1>1, <1>2 DEF SetMax
<1>5. SetStep(p2, q.step) = p2
  <2>1. p2.min = q.min /\ p2.max = q.max /\ p2.val = p.val /\ p2.step = p.step
    BY <1>1
  <2>2. RoundToStep(p2.min, q.step) = p2.min /\ RoundToStep(p2.max, q.step) = p2.max
        /\ RoundToStep(p2.val, q.step) = p2.val
    BY <1>1, <1>2, <2>1
  <2>3. p2 \in [min : Int, max : Int, step : AllSteps, val : Int, flags : SUBSET Flags]
    BY <1>1
  <2> HIDE DEF p2
  <2>4. [p2 EXCEPT !.min = p2.min, !.max = p2.max, !.val = p2.val, !.step = q.step] = p2
    BY <2>1, <2>3
  <2> QED BY <2>2, <2>4 DEF SetStep
<1>6. SetVal(p2, q.val) = p3
  BY <1>1, <1>2 DEF SetVal, AcceptsVal
<1>7. SetFlags(p3, q.flags) = q
  BY <1>1 DEF SetFlags
<1> HIDE DEF p1, p2, p3
<1> QED BY <1>3, <1>4, <1>5, <1>6, <1>7 DEF Handled, BoundsSet

\* A change of the step: bounds that the mirror rounds to its own step, or rejects,
\* come out right when its step follows.
LEMMA HandlesStep ==
    ASSUME NEW p \in Good, NEW s \in AllSteps
    PROVE  Handled(p, SetStep(p, s)) = SetStep(p, s)
<1> DEFINE min == RoundToStep(p.min, s)
           max == RoundToStep(p.max, s)
           val == RoundToStep(p.val, s)
           q == [p EXCEPT !.min = min, !.max = max, !.val = val, !.step = s]
<1>1. /\ p \in [min : Int, max : Int, step : AllSteps, val : Int, flags : SUBSET Flags]
      /\ p.min <= p.val /\ p.val <= p.max
      /\ p.min % p.step = 0 /\ p.val % p.step = 0 /\ p.max % p.step = 0
  BY GoodFields
<1>2. CASE ~(min <= val /\ val <= max)
  <2>1. SetStep(p, s) = p
    BY <1>2 DEF SetStep
  <2> QED BY <1>1, <2>1, HandlesBounds
<1>3. CASE min <= val /\ val <= max
  <2>1. SetStep(p, s) = q
    BY <1>3 DEF SetStep, AllSteps
  <2>2. /\ min \in Int /\ max \in Int /\ val \in Int
        /\ RoundToStep(val, s) = val
        /\ RoundToStep(RoundToStep(min, p.step), s) = min
        /\ RoundToStep(RoundToStep(max, p.step), s) = max
        /\ RoundToStep(p.min, s) = min /\ RoundToStep(p.max, s) = max
        /\ RoundToStep(p.val, s) = val
        /\ RoundToStep(min, p.step) \in Int /\ RoundToStep(max, p.step) \in Int
    BY <1>1, Rounded, RoundTrip
  <2> HIDE DEF min, max, val
  <2>3. /\ q \in [min : Int, max : Int, step : AllSteps, val : Int, flags : SUBSET Flags]
        /\ q.min = min /\ q.max = max /\ q.val = val /\ q.step = s /\ q.flags = p.flags
    BY <1>1, <2>2
  <2> HIDE DEF q
  <2> DEFINE p1 == SetMin(p, min)
             p2 == SetMax(p1, max)
             p3 == SetStep(p2, s)
  <2>4. /\ p1 \in [min : Int, max : Int, step : AllSteps, val : Int, flags : SUBSET Flags]
        /\ RoundToStep(p1.min, s) = min /\ p1.max = p.max /\ p1.step = p.step
        /\ p1.val = p.val /\ p1.flags = p.flags
    BY <1>1, <2>2 DEF SetMin
  <2> HIDE DEF p1
  <2>5. /\ p2 \in [min : Int, max : Int, step : AllSteps, val : Int, flags : SUBSET Flags]
        /\ RoundToStep(p2.min, s) = min /\ RoundToStep(p2.max, s) = max
        /\ p2.val = p.val /\ p2.flags = p.flags
    BY <1>1, <2>2, <2>4 DEF SetMax
  <2> HIDE DEF p2
  <2>6. p3 = q
    <3>1. RoundToStep(p2.val, s) = val /\ s # 0
      BY <2>2, <2>5 DEF AllSteps
    <3>2. p3 = [p2 EXCEPT !.min = min, !.max = max, !.val = val, !.step = s]
      BY <1>3, <2>5, <3>1 DEF SetStep, min, max, val
    <3> HIDE DEF p3
    <3>3. /\ p3 \in [min : Int, max : Int, step : AllSteps, val : Int, flags : SUBSET Flags]
          /\ p3.min = min /\ p3.max = max /\ p3.val = val /\ p3.step = s
          /\ p3.flags = p.flags
      BY <2>2, <2>5, <3>2
    <3> QED BY <2>3, <3>3
  <2> HIDE DEF p3
  <2>7. BoundsSet(p, q) = p3
    BY <2>3 DEF BoundsSet, p1, p2, p3
  <2>8. SetVal(q, q.val) = q
    <3>1. AcceptsVal(q, q.val) /\ RoundToStep(q.val, q.step) = q.val
      BY <1>3, <2>2, <2>3 DEF AcceptsVal, min, max, val
    <3>2. [q EXCEPT !.val = q.val] = q
      BY <2>3
    <3> QED BY <3>1, <3>2 DEF SetVal
  <2>9. SetFlags(q, q.flags) = q
    BY <2>3 DEF SetFlags
  <2> QED BY <2>1, <2>6, <2>7, <2>8, <2>9 DEF Handled
<1> QED BY <1>2, <1>3

(* The signal of one setter call of the service makes a mirror that was the point
   before it the point after it: the five setters of handle_input_changed_signal and
   handle_output_changed_signal (lib/client.c), in their order, neither reject nor round
   away what they are given, for any point, value, step and flags. *)
THEOREM HandlesSetters ==
    ASSUME NEW p \in Good, NEW v \in Int, NEW s \in AllSteps, NEW f \in SUBSET Flags,
           NEW q \in {SetMin(p, v), SetMax(p, v), SetVal(p, v), SetStep(p, s), SetFlags(p, f)}
    PROVE  q \in Good /\ Tells(p, q)
<1>1. /\ p \in [min : Int, max : Int, step : AllSteps, val : Int, flags : SUBSET Flags]
      /\ p.min <= p.val /\ p.val <= p.max
  BY GoodFields
<1>2. q \in Good
  BY SettersKeepSound DEF Good
<1>3. CASE q = SetStep(p, s)
  <2>1. q.step # p.step => q.val = RoundToStep(p.val, q.step)
    BY <1>1, <1>3 DEF SetStep
  <2> QED BY <1>2, <1>3, <2>1, HandlesStep DEF Tells
<1>4. CASE q = SetMin(p, v)
  <2>1. q.step = p.step /\ q.min <= p.val /\ p.val <= q.max
    BY <1>1, <1>4 DEF SetMin
  <2> QED BY <1>2, <2>1, HandlesBounds DEF Tells
<1>5. CASE q = SetMax(p, v)
  <2>1. q.step = p.step /\ q.min <= p.val /\ p.val <= q.max
    BY <1>1, <1>5 DEF SetMax
  <2> QED BY <1>2, <2>1, HandlesBounds DEF Tells
<1>6. CASE q = SetVal(p, v)
  <2>1. q.step = p.step /\ q.min <= p.val /\ p.val <= q.max
    BY <1>1, <1>6 DEF SetVal
  <2> QED BY <1>2, <2>1, HandlesBounds DEF Tells
<1>7. CASE q = SetFlags(p, f)
  <2>1. q.step = p.step /\ q.min <= p.val /\ p.val <= q.max
    BY <1>1, <1>7 DEF SetFlags
  <2> QED BY <1>2, <2>1, HandlesBounds DEF Tells
<1> QED BY <1>3, <1>4, <1>5, <1>6, <1>7

-----------------------------------------------------------------------------
(***************************************************************************)
(* What is on the way                                                      *)
(***************************************************************************)

Signals == {Signal(p) : p \in Good}
Snapshots == {Snapshot(p) : p \in Good}
Messages == Signals \cup Snapshots \cup {Stats, Done}

LEMMA MessageFields ==
    /\ \A p : /\ Signal(p).type = "signal" /\ Signal(p).point = p
              /\ Snapshot(p).type = "snapshot" /\ Snapshot(p).point = p
    /\ \A m \in Messages :
          /\ m.type = "signal" => m \in Signals /\ m.point \in Good
          /\ m.type = "snapshot" => m \in Snapshots /\ m.point \in Good
          /\ m.type = "stats" <=> m = Stats
          /\ m.type = "done" <=> m = Done
          /\ m.type \in {"signal", "snapshot", "stats", "done"}
          /\ m.point \in Good \cup {None}
  BY DEF Messages, Signals, Snapshots, Signal, Snapshot, Stats, Done

\* A reader that has the point as g, before m, has it as h after m: a signal is one
\* the handler applies exactly, a snapshot holds the point as it is.
Reads(g, m, h) ==
    IF m.type = "signal" THEN h = m.point /\ Tells(g, h)
    ELSE h = g /\ (m.type = "snapshot" => m.point = g)

\* points are the points a reader of s has, in order.
ReadingOf(points, s) ==
    /\ \A i \in 1 .. Len(s) : Reads(points[i], s[i], points[i + 1])
    /\ \A i, j \in 1 .. Len(s) + 1 :
          i <= j /\ (\A k \in 1 .. Len(s) : i <= k /\ k < j => s[k].type # "signal")
             => points[j] = points[i]

\* The messages of s lead a reader from point a to point b.
Leads(a, s, b) ==
    \E points \in [1 .. Len(s) + 1 -> Good] :
        points[1] = a /\ points[Len(s) + 1] = b /\ ReadingOf(points, s)

LEMMA LeadsNowhere ==
    ASSUME NEW a \in Good
    PROVE  Leads(a, <<>>, a)
<1> DEFINE points == [i \in 1 .. 1 |-> a]
<1>1. Len(<<>>) = 0
  OBVIOUS
<1>2. points \in [1 .. Len(<<>>) + 1 -> Good] /\ points[1] = a
  BY <1>1
<1>3. ReadingOf(points, <<>>)
  <2>1. \A i, j \in 1 .. Len(<<>>) + 1 : i = 1 /\ j = 1
    BY <1>1
  <2> QED BY <1>1, <2>1 DEF ReadingOf
<1> HIDE DEF points
<1> QED BY <1>1, <1>2, <1>3 DEF Leads

LEMMA LeadsFurther ==
    ASSUME NEW s \in Seq(Messages), NEW m \in Messages, NEW a, NEW b, NEW c \in Good,
           Leads(a, s, b), Reads(b, m, c)
    PROVE  Leads(a, Append(s, m), c)
<1>1. PICK points \in [1 .. Len(s) + 1 -> Good] :
         points[1] = a /\ points[Len(s) + 1] = b /\ ReadingOf(points, s)
  BY DEF Leads
<1> DEFINE n == Len(s)
           t == Append(s, m)
           further == [i \in 1 .. n + 2 |-> IF i <= n + 1 THEN points[i] ELSE c]
<1>2. n \in Nat /\ Len(t) = n + 1 /\ t[n + 1] = m /\ \A i \in 1 .. n : t[i] = s[i]
  BY AppendProperties, LenProperties
<1> HIDE DEF n, t
<1>3. /\ further \in [1 .. Len(t) + 1 -> Good] /\ further[1] = a
      /\ further[n + 2] = c /\ further[n + 1] = b
      /\ \A i \in 1 .. n + 1 : further[i] = points[i]
  BY <1>1, <1>2 DEF n
<1> HIDE DEF further
<1>4. ASSUME NEW i \in 1 .. Len(t)
      PROVE  Reads(further[i], t[i], further[i + 1])
  <2>1. CASE i <= n
    <3>1. i \in 1 .. n /\ i \in 1 .. n + 1 /\ i + 1 \in 1 .. n + 1
      BY <1>2, <2>1
    <3>2. Reads(points[i], s[i], points[i + 1])
      BY <1>1, <3>1 DEF ReadingOf, n
    <3> QED BY <1>2, <1>3, <3>1, <3>2
  <2>2. CASE i = n + 1
    <3>1. i + 1 = n + 2
      BY <1>2, <2>2
    <3> QED BY <1>2, <1>3, <2>2, <3>1
  <2> QED BY <1>2, <2>1, <2>2
<1>5. ASSUME NEW i \in 1 .. Len(t) + 1, NEW j \in 1 .. Len(t) + 1, i <= j,
             \A k \in 1 .. Len(t) : i <= k /\ k < j => t[k].type # "signal"
      PROVE  further[j] = further[i]
  <2>1. CASE j <= n + 1
    <3>1. i \in 1 .. n + 1 /\ j \in 1 .. n + 1
      BY <1>2, <1>5, <2>1
    <3>2. ASSUME NEW k \in 1 .. n, i <= k, k < j
          PROVE  s[k].type # "signal"
      <4>1. k \in 1 .. Len(t)
        BY <1>2
      <4> QED BY <1>2, <1>5, <3>2, <4>1
    <3>3. points[j] = points[i]
      BY <1>1, <1>5, <3>1, <3>2 DEF ReadingOf, n
    <3> QED BY <1>3, <3>1, <3>3
  <2>2. CASE j = n + 2 /\ i <= n + 1
    <3>1. i \in 1 .. n + 1 /\ n + 1 \in 1 .. n + 1 /\ n + 1 \in 1 .. Len(t) /\ n + 1 < j
      BY <1>2, <1>5, <2>2
    <3>2. ASSUME NEW k \in 1 .. n, i <= k, k < n + 1
          PROVE  s[k].type # "signal"
      <4>1. k \in 1 .. Len(t) /\ k < j
        BY <1>2, <2>2
      <4> QED BY <1>2, <1>5, <3>2, <4>1
    <3>3. points[n + 1] = points[i]
      BY <1>1, <2>2, <3>1, <3>2 DEF ReadingOf, n
    <3>4. m.type # "signal"
      BY <1>2, <1>5, <2>2, <3>1
    <3>5. c = b
      BY <3>4 DEF Reads
    <3> QED BY <1>3, <2>2, <3>1, <3>3, <3>5
  <2>3. CASE j = n + 2 /\ i = n + 2
    BY <2>3
  <2> QED BY <1>2, <1>5, <2>1, <2>2, <2>3
<1>6. ReadingOf(further, t)
  BY <1>4, <1>5 DEF ReadingOf
<1>7. further[Len(t) + 1] = c
  <2>1. Len(t) + 1 = n + 2
    BY <1>2
  <2> QED BY <1>3, <2>1
<1> QED BY <1>3, <1>6, <1>7 DEF Leads, t

LEMMA LeadsHead ==
    ASSUME NEW s \in Seq(Messages), s # <<>>, NEW a, NEW b, Leads(a, s, b)
    PROVE  /\ Head(s) \in Messages /\ Tail(s) \in Seq(Messages)
           /\ \E c \in Good : Reads(a, Head(s), c) /\ Leads(c, Tail(s), b)
<1>1. PICK points \in [1 .. Len(s) + 1 -> Good] :
         points[1] = a /\ points[Len(s) + 1] = b /\ ReadingOf(points, s)
  BY DEF Leads
<1> DEFINE n == Len(s)
           t == Tail(s)
           rest == [i \in 1 .. n |-> points[i + 1]]
<1>2. /\ n \in Nat \ {0} /\ Len(t) = n - 1 /\ \A i \in 1 .. n - 1 : t[i] = s[i + 1]
      /\ Head(s) = s[1] /\ s[1] \in Messages /\ t \in Seq(Messages)
  BY EmptySeq, HeadTailProperties, LenProperties, ElementOfSeq
<1> HIDE DEF n, t
<1>3. /\ rest \in [1 .. Len(t) + 1 -> Good] /\ points[2] \in Good
      /\ \A i \in 1 .. n : rest[i] = points[i + 1]
  <2>1. points \in [1 .. n + 1 -> Good]
    BY <1>1 DEF n
  <2>2. /\ \A i \in 1 .. n : i + 1 \in 1 .. n + 1
        /\ 2 \in 1 .. n + 1 /\ Len(t) + 1 = n
    BY <1>2
  <2>3. \A i \in 1 .. n : points[i + 1] \in Good
    BY <2>1, <2>2
  <2> QED BY <2>1, <2>2, <2>3
<1> HIDE DEF rest
<1>4. Reads(a, Head(s), points[2])
  BY <1>1, <1>2 DEF ReadingOf, n
<1>5. ASSUME NEW i \in 1 .. Len(t)
      PROVE  Reads(rest[i], t[i], rest[i + 1])
  <2>1. i \in 1 .. n /\ i + 1 \in 1 .. n /\ i \in 1 .. n - 1
    BY <1>2
  <2>2. Reads(points[i + 1], s[i + 1], points[i + 1 + 1])
    BY <1>1, <2>1 DEF ReadingOf, n
  <2> QED BY <1>2, <1>3, <2>1, <2>2
<1>6. ASSUME NEW i \in 1 .. Len(t) + 1, NEW j \in 1 .. Len(t) + 1, i <= j,
             \A k \in 1 .. Len(t) : i <= k /\ k < j => t[k].type # "signal"
      PROVE  rest[j] = rest[i]
  <2>1. i + 1 \in 1 .. n + 1 /\ j + 1 \in 1 .. n + 1 /\ i + 1 <= j + 1
        /\ i \in 1 .. n /\ j \in 1 .. n
    BY <1>2, <1>6
  <2>2. ASSUME NEW k \in 1 .. n, i + 1 <= k, k < j + 1
        PROVE  s[k].type # "signal"
    <3>1. k - 1 \in 1 .. Len(t) /\ i <= k - 1 /\ k - 1 < j /\ k - 1 \in 1 .. n - 1
          /\ k - 1 + 1 = k
      BY <1>2, <2>1, <2>2
    <3> QED BY <1>2, <1>6, <3>1
  <2>3. points[j + 1] = points[i + 1]
    BY <1>1, <2>1, <2>2 DEF ReadingOf, n
  <2> QED BY <1>3, <2>1, <2>3
<1>7. rest[1] = points[2] /\ rest[Len(t) + 1] = b
  <2>1. 1 \in 1 .. n /\ n \in 1 .. n /\ Len(t) + 1 = n
    BY <1>2
  <2> QED BY <1>1, <1>3, <2>1 DEF n
<1>8. Leads(points[2], t, b)
  <2>1. ReadingOf(rest, t)
    BY <1>5, <1>6 DEF ReadingOf
  <2> QED BY <1>3, <1>7, <2>1 DEF Leads
<1> QED BY <1>2, <1>3, <1>4, <1>8 DEF t

\* What is cut off without a signal makes no difference.
LEMMA LeadsCut ==
    ASSUME NEW s \in Seq(Messages), NEW n \in 0 .. Len(s), NEW a, NEW b, Leads(a, s, b),
           \A k \in 1 .. Len(s) : n < k => s[k].type # "signal"
    PROVE  SubSeq(s, 1, n) \in Seq(Messages) /\ Leads(a, SubSeq(s, 1, n), b)
<1>1. PICK points \in [1 .. Len(s) + 1 -> Good] :
         points[1] = a /\ points[Len(s) + 1] = b /\ ReadingOf(points, s)
  BY DEF Leads
<1> DEFINE t == SubSeq(s, 1, n)
           cut == [i \in 1 .. n + 1 |-> points[i]]
<1>2. /\ n \in Nat /\ Len(s) \in Nat /\ n <= Len(s) /\ Len(t) = n
      /\ t \in Seq(Messages) /\ \A i \in 1 .. n : t[i] = s[i]
  BY SubSeqProperties, LenProperties
<1> HIDE DEF t
<1>3. /\ cut \in [1 .. Len(t) + 1 -> Good] /\ cut[1] = a
      /\ \A i \in 1 .. n + 1 : cut[i] = points[i] /\ i \in 1 .. Len(s) + 1
      /\ \A i \in 1 .. n : i \in 1 .. Len(s) /\ i + 1 \in 1 .. n + 1 /\ i \in 1 .. n + 1
  <2>1. \A i \in 1 .. n + 1 : i \in 1 .. Len(s) + 1
    BY <1>2
  <2>2. \A i \in 1 .. n : i \in 1 .. Len(s) /\ i + 1 \in 1 .. n + 1 /\ i \in 1 .. n + 1
    BY <1>2
  <2>3. \A i \in 1 .. n + 1 : points[i] \in Good
    BY <1>1, <2>1
  <2>4. cut \in [1 .. n + 1 -> Good] /\ \A i \in 1 .. n + 1 : cut[i] = points[i]
    BY <2>3
  <2>5. 1 \in 1 .. n + 1
    BY <1>2
  <2> QED BY <1>1, <1>2, <2>1, <2>2, <2>4, <2>5
<1> HIDE DEF cut
<1>4. cut[Len(t) + 1] = b
  <2>1. n + 1 \in 1 .. Len(s) + 1 /\ Len(s) + 1 \in 1 .. Len(s) + 1 /\ n + 1 <= Len(s) + 1
        /\ n + 1 \in 1 .. n + 1
    BY <1>2
  <2>2. \A k \in 1 .. Len(s) : n + 1 <= k /\ k < Len(s) + 1 => s[k].type # "signal"
    BY <1>2
  <2>3. points[Len(s) + 1] = points[n + 1]
    BY <1>1, <2>1, <2>2 DEF ReadingOf
  <2> QED BY <1>1, <1>2, <1>3, <2>1, <2>3
<1>5. ASSUME NEW i \in 1 .. n
      PROVE  Reads(cut[i], t[i], cut[i + 1])
  BY <1>1, <1>2, <1>3 DEF ReadingOf
<1>6. ASSUME NEW i \in 1 .. n + 1, NEW j \in 1 .. n + 1, i <= j,
             \A k \in 1 .. n : i <= k /\ k < j => t[k].type # "signal"
      PROVE  cut[j] = cut[i]
  <2>1. \A k \in 1 .. Len(s) : i <= k /\ k < j => s[k].type # "signal"
    BY <1>2, <1>6
  <2> QED BY <1>1, <1>3, <1>6, <2>1 DEF ReadingOf
<1>7. ReadingOf(cut, t)
  BY <1>2, <1>5, <1>6 DEF ReadingOf
<1> QED BY <1>2, <1>3, <1>4, <1>7 DEF Leads, t

\* Without a signal nothing changes.
LEMMA LeadsQuietly ==
    ASSUME NEW s \in Seq(Messages), NEW a, NEW b, Leads(a, s, b),
           \A k \in DOMAIN s : s[k].type # "signal"
    PROVE  a = b
<1>1. PICK points \in [1 .. Len(s) + 1 -> Good] :
         points[1] = a /\ points[Len(s) + 1] = b /\ ReadingOf(points, s)
  BY DEF Leads
<1>2. 1 \in 1 .. Len(s) + 1 /\ Len(s) + 1 \in 1 .. Len(s) + 1 /\ 1 <= Len(s) + 1
      /\ DOMAIN s = 1 .. Len(s)
  BY LenProperties
<1> QED BY <1>1, <1>2 DEF ReadingOf

-----------------------------------------------------------------------------
(***************************************************************************)
(* The invariant                                                           *)
(***************************************************************************)

Loose == IoPoints(Int, AllSteps, Flags)
Passes == [at : {"idle", "rules", "calling"}, left : Int, rest : {"none", "val", "flags"},
           of : Loose \cup {None}]
SetCalls == [method : {"set"}, from : {"rule_value", "rule_flag", "debugger"},
             val : Int, flags : SUBSET Flags]
CallRecords == {GetPoints, GetStats} \cup SetCalls

Typed ==
    /\ server \in Good
    /\ mirror \in Good \cup {None}
    /\ calls \in Seq(CallRecords)
    /\ wire \in Seq(Messages)
    /\ loop \in Seq(Messages)
    /\ stage \in {"get_points", "get_stats", "ready"}
    /\ pass \in Passes
    /\ pass.rest # "none" => pass.of \in Loose
    /\ pass.at = "idle" => pass.rest = "none"

\* Before the snapshot only the snapshot reaches the main loop.
Cold(w, c, l) ==
    /\ w \in Seq(Messages \ {Stats})
    /\ c \in Seq(CallRecords \ {GetStats})
    /\ l \in Seq(Snapshots)

Phases ==
    IF stage = "get_points" THEN Cold(wire, calls, loop) /\ pass.rest = "none"
    ELSE mirror \in Good

\* The point as it will be when the handler is done with its signal.
Finish(m, rest, p) ==
    CASE rest = "val"   -> SetFlags(SetVal(m, p.val), p.flags)
      [] rest = "flags" -> SetFlags(m, p.flags)
      [] OTHER          -> m

Finished == Finish(mirror, pass.rest, pass.of)

\* What is queued, then what is on the wire, leads the mirror to the point.
Chained ==
    \E a \in Good, b \in Good :
        /\ stage # "get_points" => a = Finished
        /\ Leads(a, loop, b)
        /\ Leads(b, wire, server)

IInv == Typed /\ Phases /\ (missed \/ Chained)

-----------------------------------------------------------------------------
(***************************************************************************)
(* The service                                                             *)
(***************************************************************************)

LEMMA SeqOps ==
    ASSUME NEW S, NEW s \in Seq(S), NEW m \in S
    PROVE  /\ Append(s, m) \in Seq(S) /\ s \o <<m>> = Append(s, m) /\ s \o <<>> = s
           /\ s # <<>> => Head(s) \in S /\ Tail(s) \in Seq(S)
  BY AppendProperties, HeadTailProperties

LEMMA Regroup ==
    ASSUME NEW s \in Seq(Messages), NEW t \in Seq(Messages), NEW u \in Seq(Messages)
    PROVE  (s \o t) \o u = s \o (t \o u)
  BY ConcatAssociative, SMTT(20)

\* A change is told by a signal.
LEMMA Telling ==
    ASSUME NEW w \in Seq(Messages), NEW p \in Good, NEW q \in Good, Tells(p, q)
    PROVE  /\ w \o SignalIfChanged(p, q) \in Seq(Messages)
           /\ w \in Seq(Messages \ {Stats}) =>
                 w \o SignalIfChanged(p, q) \in Seq(Messages \ {Stats})
           /\ SignalIfChanged(p, q) \in Seq(Messages)
           /\ \A b : Leads(b, w, p) => Leads(b, w \o SignalIfChanged(p, q), q)
<1> DEFINE m == Signal(q)
<1>1. m \in Messages /\ m.type = "signal" /\ m.point = q /\ m # Stats
  <2>1. m.type = "signal" /\ m.point = q /\ m \in Messages
    BY MessageFields DEF Messages, Signals
  <2> QED BY <2>1, MessageFields
<1> HIDE DEF m
<1>2. CASE q = p
  <2>1. SignalIfChanged(p, q) = <<>>
    BY <1>2 DEF SignalIfChanged
  <2> QED BY <1>1, <1>2, <2>1, SeqOps
<1>3. CASE q # p
  <2>1. SignalIfChanged(p, q) = <<m>>
    BY <1>3 DEF SignalIfChanged, m
  <2>2. w \o <<m>> = Append(w, m) /\ Append(w, m) \in Seq(Messages) /\ <<m>> \in Seq(Messages)
    BY <1>1, SeqOps
  <2>3. w \in Seq(Messages \ {Stats}) => Append(w, m) \in Seq(Messages \ {Stats})
    BY <1>1, SeqOps
  <2>4. Reads(p, m, q)
    BY <1>1 DEF Reads
  <2>5. \A b : Leads(b, w, p) => Leads(b, Append(w, m), q)
    BY <1>1, <2>4, LeadsFurther
  <2> QED BY <2>1, <2>2, <2>3, <2>5
<1> QED BY <1>2, <1>3

\* So is a write of value and flags, by one signal for each that changes.
LEMMA WriteTells ==
    ASSUME NEW w \in Seq(Messages), NEW p \in Good, NEW v \in Int, NEW f \in SUBSET Flags
    PROVE  /\ Written(p, v, f) \in Good
           /\ w \o WriteSignals(p, v, f) \in Seq(Messages)
           /\ w \in Seq(Messages \ {Stats}) =>
                 w \o WriteSignals(p, v, f) \in Seq(Messages \ {Stats})
           /\ \A b : Leads(b, w, p) => Leads(b, w \o WriteSignals(p, v, f), Written(p, v, f))
<1> DEFINE q == SetVal(p, v)
           r == SetFlags(q, f)
<1>1. q \in Good /\ Tells(p, q)
  <2>1. 1 \in AllSteps
    BY DEF AllSteps
  <2> QED BY <2>1, HandlesSetters
<1>2. r \in Good /\ Tells(q, r)
  <2>1. 1 \in AllSteps
    BY DEF AllSteps
  <2> HIDE DEF q
  <2> QED BY <1>1, <2>1, HandlesSetters
<1>3. CASE AcceptsVal(p, v)
  <2>1. /\ Written(p, v, f) = r
        /\ WriteSignals(p, v, f) = SignalIfChanged(p, q) \o SignalIfChanged(q, r)
    BY <1>3 DEF Written, WriteSignals
  <2> HIDE DEF q, r
  <2> DEFINE s == SignalIfChanged(p, q)
             t == SignalIfChanged(q, r)
             u == w \o s
  <2>2. /\ u \in Seq(Messages) /\ s \in Seq(Messages)
        /\ w \in Seq(Messages \ {Stats}) => u \in Seq(Messages \ {Stats})
        /\ \A b : Leads(b, w, p) => Leads(b, u, q)
    BY <1>1, Telling
  <2> HIDE DEF u
  <2>3. /\ u \o t \in Seq(Messages) /\ t \in Seq(Messages)
        /\ u \in Seq(Messages \ {Stats}) => u \o t \in Seq(Messages \ {Stats})
        /\ \A b : Leads(b, u, q) => Leads(b, u \o t, r)
    BY <1>1, <1>2, <2>2, Telling
  <2> HIDE DEF s, t
  <2>4. u \o t = w \o (s \o t)
    BY <2>2, <2>3, ConcatAssociative DEF u
  <2> QED BY <1>2, <2>1, <2>2, <2>3, <2>4 DEF s, t
<1>4. CASE ~AcceptsVal(p, v)
  <2>1. Written(p, v, f) = p /\ WriteSignals(p, v, f) = <<>>
    BY <1>4 DEF Written, WriteSignals
  <2> QED BY <2>1, SeqOps
<1> QED BY <1>3, <1>4

\* What a step of the service leaves to show.
LEMMA ServiceStep ==
    ASSUME IInv, UNCHANGED <<stage, mirror, pass, loop, missed>>,
           server' \in Good, wire' \in Seq(Messages), calls' \in Seq(CallRecords),
           Cold(wire, calls, loop) => Cold(wire', calls', loop),
           \A b : Leads(b, wire, server) => Leads(b, wire', server')
    PROVE  IInv'
<1>1. Typed'
  BY DEF IInv, Typed
<1>2. Phases'
  BY DEF IInv, Phases
<1>3. Chained => Chained'
  BY DEF Chained, Finished
<1> QED BY <1>1, <1>2, <1>3 DEF IInv

LEMMA ServiceEditsStep ==
    ASSUME IInv, ServiceEdits
    PROVE  IInv' /\ \A b : Leads(b, wire, server) => Leads(b, wire', server')
<1>1. /\ UNCHANGED <<stage, mirror, pass, loop, missed, calls>>
      /\ wire' = wire \o SignalIfChanged(server, server')
      /\ server' \in Edited(server)
  BY DEF ServiceEdits, coreVars
<1>2. /\ server \in Good /\ wire \in Seq(Messages) /\ calls \in Seq(CallRecords)
  BY DEF IInv, Typed
<1>3. server' \in Good /\ Tells(server, server')
  <2>1. PICK v \in Int, s \in AllSteps, f \in SUBSET Flags :
           server' \in {SetMin(server, v), SetMax(server, v), SetVal(server, v),
                        SetStep(server, s), SetFlags(server, f)}
    <3>1. Values \subseteq Int /\ Steps \subseteq AllSteps /\ 0 \in Int /\ 1 \in AllSteps
          /\ {} \in SUBSET Flags
      BY MirrorAssumption DEF AllSteps
    <3> QED BY <1>1, <3>1 DEF Edited
  <2> QED BY <1>2, <2>1, HandlesSetters
<1>4. /\ wire' \in Seq(Messages)
      /\ wire \in Seq(Messages \ {Stats}) => wire' \in Seq(Messages \ {Stats})
      /\ \A b : Leads(b, wire, server) => Leads(b, wire', server')
  BY <1>1, <1>2, <1>3, Telling
<1>5. Cold(wire, calls, loop) => Cold(wire', calls', loop)
  BY <1>1, <1>4 DEF Cold
<1> QED BY <1>1, <1>2, <1>3, <1>4, <1>5, ServiceStep

LEMMA OperatorWritesStep ==
    ASSUME IInv, NEW v \in Values, NEW f \in SUBSET Flags, OperatorWrites(v, f)
    PROVE  IInv' /\ \A b : Leads(b, wire, server) => Leads(b, wire', server')
<1>1. /\ UNCHANGED <<stage, mirror, pass, loop, missed, calls>>
      /\ wire' = wire \o WriteSignals(server, v, f)
      /\ server' = Written(server, v, f)
  BY DEF OperatorWrites, coreVars
<1>2. server \in Good /\ wire \in Seq(Messages) /\ calls \in Seq(CallRecords) /\ v \in Int
  BY MirrorAssumption DEF IInv, Typed
<1>3. /\ server' \in Good /\ wire' \in Seq(Messages)
      /\ wire \in Seq(Messages \ {Stats}) => wire' \in Seq(Messages \ {Stats})
      /\ \A b : Leads(b, wire, server) => Leads(b, wire', server')
  BY <1>1, <1>2, WriteTells
<1>4. Cold(wire, calls, loop) => Cold(wire', calls', loop)
  BY <1>1, <1>3 DEF Cold
<1> QED BY <1>1, <1>2, <1>3, <1>4, ServiceStep

\* What the calls carry.
LEMMA CallKinds ==
    ASSUME NEW c \in CallRecords
    PROVE  /\ c.method = "set" => c.val \in Int /\ c.flags \in SUBSET Flags
           /\ c.method = "get_stats" => c = GetStats
<1>1. CASE c \in SetCalls
  BY <1>1 DEF SetCalls
<1>2. CASE c \in {GetPoints, GetStats}
  BY <1>2 DEF GetPoints, GetStats, Call
<1> QED BY <1>1, <1>2 DEF CallRecords

\* The messages that are no changes of the point.
LEMMA OtherMessages ==
    /\ Stats \in Messages /\ Done \in Messages /\ Done # Stats
    /\ \A p \in Good : /\ Snapshot(p) \in Messages /\ Snapshot(p) # Stats
                       /\ Reads(p, Snapshot(p), p)
    /\ \A p : Reads(p, Stats, p) /\ Reads(p, Done, p)
<1>1. Stats.type = "stats" /\ Done.type = "done" /\ \A p : Snapshot(p).type = "snapshot"
      /\ Snapshot(p).point = p
  BY DEF Stats, Done, Snapshot
<1>2. Stats \in Messages /\ Done \in Messages /\ \A p \in Good : Snapshot(p) \in Messages
  BY DEF Messages, Snapshots
<1> QED BY <1>1, <1>2 DEF Reads

LEMMA ServeStep ==
    ASSUME IInv, Serve
    PROVE  IInv' /\ \A b : Leads(b, wire, server) => Leads(b, wire', server')
<1> DEFINE call == Head(calls)
<1>1. /\ UNCHANGED <<stage, mirror, pass, loop, missed>>
      /\ calls # <<>> /\ calls' = Tail(calls)
      /\ \/ call.method = "get_points" /\ wire' = Append(wire, Snapshot(server))
                                       /\ server' = server
         \/ call.method = "get_stats" /\ wire' = Append(wire, Stats) /\ server' = server
         \/ /\ call.method = "set"
            /\ server' = Written(server, call.val, call.flags)
            /\ wire' = Append(wire \o WriteSignals(server, call.val, call.flags), Done)
  BY DEF Serve, coreVars
<1>2. server \in Good /\ wire \in Seq(Messages) /\ calls \in Seq(CallRecords)
  BY DEF IInv, Typed
<1>3. call \in CallRecords /\ calls' \in Seq(CallRecords)
  BY <1>1, <1>2, SeqOps
<1>4. calls \in Seq(CallRecords \ {GetStats}) =>
         call # GetStats /\ calls' \in Seq(CallRecords \ {GetStats})
  <2>1. ASSUME calls \in Seq(CallRecords \ {GetStats})
        PROVE  Head(calls) \in CallRecords \ {GetStats}
               /\ Tail(calls) \in Seq(CallRecords \ {GetStats})
    BY <1>1, <2>1, HeadTailProperties
  <2> QED BY <1>1, <2>1
<1> HIDE DEF call
<1>5. CASE call.method = "get_points" /\ wire' = Append(wire, Snapshot(server))
                                      /\ server' = server
  <2>1. /\ wire' \in Seq(Messages)
        /\ wire \in Seq(Messages \ {Stats}) => wire' \in Seq(Messages \ {Stats})
    BY <1>2, <1>5, OtherMessages, SeqOps
  <2>2. \A b : Leads(b, wire, server) => Leads(b, wire', server')
    BY <1>2, <1>5, OtherMessages, LeadsFurther
  <2>3. Cold(wire, calls, loop) => Cold(wire', calls', loop)
    BY <1>4, <2>1 DEF Cold
  <2> QED BY <1>1, <1>2, <1>3, <1>5, <2>1, <2>2, <2>3, ServiceStep
<1>6. CASE call.method = "get_stats" /\ wire' = Append(wire, Stats) /\ server' = server
  <2>1. wire' \in Seq(Messages)
    BY <1>2, <1>6, OtherMessages, SeqOps
  <2>2. \A b : Leads(b, wire, server) => Leads(b, wire', server')
    BY <1>2, <1>6, OtherMessages, LeadsFurther
  <2>3. ~Cold(wire, calls, loop)
    BY <1>3, <1>4, <1>6, CallKinds DEF Cold
  <2> QED BY <1>1, <1>2, <1>3, <1>6, <2>1, <2>2, <2>3, ServiceStep
<1>7. CASE /\ call.method = "set"
           /\ server' = Written(server, call.val, call.flags)
           /\ wire' = Append(wire \o WriteSignals(server, call.val, call.flags), Done)
  <2> DEFINE w == wire \o WriteSignals(server, call.val, call.flags)
  <2>1. call.val \in Int /\ call.flags \in SUBSET Flags
    BY <1>3, <1>7, CallKinds
  <2>2. /\ server' \in Good /\ w \in Seq(Messages)
        /\ wire \in Seq(Messages \ {Stats}) => w \in Seq(Messages \ {Stats})
        /\ \A b : Leads(b, wire, server) => Leads(b, w, server')
    BY <1>2, <1>7, <2>1, WriteTells
  <2>3. wire' = Append(w, Done)
    BY <1>7
  <2> HIDE DEF w
  <2>4. /\ wire' \in Seq(Messages)
        /\ w \in Seq(Messages \ {Stats}) => wire' \in Seq(Messages \ {Stats})
    BY <2>2, <2>3, OtherMessages, SeqOps
  <2>5. \A b : Leads(b, wire, server) => Leads(b, wire', server')
    BY <2>2, <2>3, OtherMessages, LeadsFurther
  <2>6. Cold(wire, calls, loop) => Cold(wire', calls', loop)
    BY <1>4, <2>2, <2>4 DEF Cold
  <2> QED BY <1>1, <1>3, <2>2, <2>4, <2>5, <2>6, ServiceStep
<1> QED BY <1>1, <1>5, <1>6, <1>7

LEMMA ServiceDiesStep ==
    ASSUME IInv, ServiceDies
    PROVE  IInv'
<1>1. /\ UNCHANGED <<stage, mirror, pass, loop, server>> /\ calls' = <<>>
      /\ missed' = (missed \/ \E i \in DOMAIN wire \ DOMAIN wire' : wire[i].type = "signal")
  BY DEF ServiceDies, coreVars
<1>2. PICK n \in 0 .. Len(wire) : wire' = SubSeq(wire, 1, n)
  BY DEF ServiceDies
<1>3. wire \in Seq(Messages)
  BY DEF IInv, Typed
<1>4. /\ Len(wire) \in Nat /\ DOMAIN wire = 1 .. Len(wire) /\ DOMAIN wire' = 1 .. n
      /\ \A i \in 1 .. n : wire[i] \in Messages
      /\ wire' \in Seq(Messages)
  <2>1. Len(wire) \in Nat /\ DOMAIN wire = 1 .. Len(wire)
    BY <1>3, LenProperties
  <2>2. \A i \in 1 .. n : i \in 1 .. Len(wire) /\ wire[i] \in Messages
    BY <1>3, <2>1, ElementOfSeq
  <2>3. 1 \in Int /\ n \in Int /\ n \in Nat
    BY <2>1
  <2>4. wire' \in Seq(Messages) /\ Len(wire') = n
    BY <1>2, <2>2, <2>3, SubSeqProperties
  <2> QED BY <2>1, <2>2, <2>4, LenProperties
<1>5. wire \in Seq(Messages \ {Stats}) => wire' \in Seq(Messages \ {Stats})
  <2> SUFFICES ASSUME wire \in Seq(Messages \ {Stats})
               PROVE  wire' \in Seq(Messages \ {Stats})
    OBVIOUS
  <2>1. \A i \in 1 .. n : i \in 1 .. Len(wire) /\ wire[i] \in Messages \ {Stats}
    BY <1>4, ElementOfSeq
  <2>2. 1 \in Int /\ n \in Int
    BY <1>4
  <2> QED BY <1>2, <2>1, <2>2, SubSeqProperties
<1>6. Typed'
  BY <1>1, <1>4 DEF IInv, Typed
<1>7. Phases'
  BY <1>1, <1>5 DEF IInv, Phases, Cold
<1>8. ASSUME ~missed'
      PROVE  Chained'
  <2>1. PICK a \in Good, b \in Good : /\ stage # "get_points" => a = Finished
                                      /\ Leads(a, loop, b) /\ Leads(b, wire, server)
    BY <1>1, <1>8 DEF IInv, Chained
  <2>2. ASSUME NEW k \in 1 .. Len(wire), n < k
        PROVE  wire[k].type # "signal"
    <3>1. k \in DOMAIN wire \ DOMAIN wire'
      BY <1>4, <2>2
    <3> QED BY <1>1, <1>8, <3>1
  <2>3. Leads(b, wire', server)
    BY <1>2, <1>3, <2>1, <2>2, LeadsCut
  <2>4. Finished' = Finished
    BY <1>1 DEF Finished
  <2> QED BY <1>1, <2>1, <2>3, <2>4 DEF Chained
<1> QED BY <1>6, <1>7, <1>8 DEF IInv

-----------------------------------------------------------------------------
(***************************************************************************)
(* The Core's GDBus worker thread                                          *)
(***************************************************************************)

\* Taking the first message off the wire.
LEMMA OffTheWire ==
    ASSUME IInv, wire # <<>>, wire' = Tail(wire)
    PROVE  /\ Head(wire) \in Messages /\ wire' \in Seq(Messages)
           /\ wire \in Seq(Messages \ {Stats}) =>
                 Head(wire) # Stats /\ wire' \in Seq(Messages \ {Stats})
           /\ \A b : Leads(b, wire, server) =>
                 \E c \in Good : Reads(b, Head(wire), c) /\ Leads(c, wire', server)
<1>1. wire \in Seq(Messages)
  BY DEF IInv, Typed
<1>2. wire \in Seq(Messages \ {Stats}) =>
         Head(wire) \in Messages \ {Stats} /\ Tail(wire) \in Seq(Messages \ {Stats})
  BY HeadTailProperties
<1>3. Head(wire) \in Messages /\ wire' \in Seq(Messages)
  BY <1>1, HeadTailProperties
<1>4. \A b : Leads(b, wire, server) =>
         \E c \in Good : Reads(b, Head(wire), c) /\ Leads(c, Tail(wire), server)
  BY <1>1, LeadsHead
<1> QED BY <1>2, <1>3, <1>4

\* A message is queued on the main loop, or dropped without loss.
LEMMA Queued ==
    ASSUME IInv, wire # <<>>, wire' = Tail(wire), loop' = Append(loop, Head(wire)),
           UNCHANGED <<server, calls, stage, mirror, pass, missed>>,
           stage = "get_points" => Head(wire).type \in {"snapshot", "stats"}
    PROVE  IInv'
<1>1. /\ Head(wire) \in Messages /\ wire' \in Seq(Messages)
      /\ wire \in Seq(Messages \ {Stats}) =>
            Head(wire) # Stats /\ wire' \in Seq(Messages \ {Stats})
      /\ \A b : Leads(b, wire, server) =>
            \E c \in Good : Reads(b, Head(wire), c) /\ Leads(c, wire', server)
  BY OffTheWire
<1>2. loop \in Seq(Messages)
  BY DEF IInv, Typed
<1>3. loop' \in Seq(Messages)
  BY <1>1, <1>2, SeqOps
<1>4. Typed'
  BY <1>1, <1>3 DEF IInv, Typed
<1>5. Phases'
  <2>1. CASE stage = "get_points"
    <3>1. Cold(wire, calls, loop) /\ pass.rest = "none"
      BY <2>1 DEF IInv, Phases
    <3>2. Head(wire) \in Snapshots
      BY <1>1, <2>1, <3>1, MessageFields DEF Cold
    <3>3. loop' \in Seq(Snapshots)
      BY <3>1, <3>2, SeqOps DEF Cold
    <3> QED BY <1>1, <2>1, <3>1, <3>3 DEF Phases, Cold
  <2>2. CASE stage # "get_points"
    BY <2>2 DEF IInv, Phases
  <2> QED BY <2>1, <2>2
<1>6. Chained => Chained'
  <2> SUFFICES ASSUME Chained PROVE Chained'
    OBVIOUS
  <2>1. PICK a \in Good, b \in Good : /\ stage # "get_points" => a = Finished
                                      /\ Leads(a, loop, b) /\ Leads(b, wire, server)
    BY DEF Chained
  <2>2. PICK c \in Good : Reads(b, Head(wire), c) /\ Leads(c, wire', server)
    BY <1>1, <2>1
  <2>3. Leads(a, loop', c)
    BY <1>1, <1>2, <2>1, <2>2, LeadsFurther
  <2>4. Finished' = Finished
    BY DEF Finished
  <2> QED BY <2>1, <2>2, <2>3, <2>4 DEF Chained
<1> QED BY <1>4, <1>5, <1>6 DEF IInv

LEMMA ReceiveSignalStep ==
    ASSUME IInv, ReceiveSignal
    PROVE  IInv'
<1>1. /\ wire # <<>> /\ Head(wire).type = "signal" /\ wire' = Tail(wire)
      /\ UNCHANGED <<server, calls, stage, mirror, pass>>
  BY DEF ReceiveSignal
<1>2. CASE Subscribed
  <2>1. loop' = Append(loop, Head(wire)) /\ missed' = missed /\ stage = "ready"
    BY <1>2 DEF ReceiveSignal, Subscribed
  <2> QED BY <1>1, <2>1, Queued
<1>3. CASE ~Subscribed
  <2>1. loop' = loop /\ missed' = (missed \/ stage # "get_points" \/ loop # <<>>)
    BY <1>3 DEF ReceiveSignal
  <2>2. /\ wire' \in Seq(Messages)
        /\ wire \in Seq(Messages \ {Stats}) => wire' \in Seq(Messages \ {Stats})
        /\ \A b : Leads(b, wire, server) => \E c \in Good : Leads(c, wire', server)
    BY <1>1, OffTheWire
  <2>3. Typed'
    BY <1>1, <2>1, <2>2 DEF IInv, Typed
  <2>4. Phases'
    BY <1>1, <2>1, <2>2 DEF IInv, Phases, Cold
  <2>5. ASSUME ~missed'
        PROVE  Chained'
    <3>1. ~missed /\ stage = "get_points" /\ loop = <<>>
      BY <2>1, <2>5
    <3>2. PICK c \in Good : Leads(c, wire', server)
      BY <2>2, <3>1 DEF IInv, Chained
    <3>3. Leads(c, <<>>, c)
      BY LeadsNowhere
    <3> QED BY <1>1, <2>1, <3>1, <3>2, <3>3 DEF Chained
  <2> QED BY <2>3, <2>4, <2>5 DEF IInv
<1> QED BY <1>2, <1>3

LEMMA ReceiveAnswerStep ==
    ASSUME IInv, ReceiveAnswer
    PROVE  IInv'
<1>1. wire # <<>> /\ wire' = Tail(wire) /\ UNCHANGED <<server, calls, stage, mirror, missed>>
  BY DEF ReceiveAnswer
<1>2. CASE Head(wire).type \in {"snapshot", "stats"} /\ loop' = Append(loop, Head(wire))
           /\ pass' = pass
  BY <1>1, <1>2, Queued
<1>3. CASE Head(wire).type = "done" /\ loop' = loop
           /\ pass' \in {pass, [pass EXCEPT !.at = "rules"]}
  <2>1. /\ wire' \in Seq(Messages)
        /\ wire \in Seq(Messages \ {Stats}) => wire' \in Seq(Messages \ {Stats})
        /\ \A b : Leads(b, wire, server) =>
              \E c \in Good : Reads(b, Head(wire), c) /\ Leads(c, wire', server)
    BY <1>1, OffTheWire
  <2>2. pass \in Passes /\ (pass.rest # "none" => pass.of \in Loose)
        /\ (pass.at = "idle" => pass.rest = "none")
    BY DEF IInv, Typed
  <2>3. pass' \in Passes /\ pass'.rest = pass.rest /\ pass'.of = pass.of
        /\ (pass'.at = "idle" => pass'.rest = "none")
    BY <1>3, <2>2 DEF Passes
  <2>4. Typed'
    BY <1>1, <1>3, <2>1, <2>2, <2>3 DEF IInv, Typed
  <2>5. Phases'
    BY <1>1, <1>3, <2>1, <2>3 DEF IInv, Phases, Cold
  <2>6. Chained => Chained'
    <3>1. \A b : Leads(b, wire, server) => Leads(b, wire', server)
      BY <1>3, <2>1 DEF Reads
    <3>2. Finished' = Finished
      BY <1>1, <2>3 DEF Finished
    <3> QED BY <1>1, <1>3, <3>1, <3>2 DEF Chained
  <2> QED BY <1>1, <2>4, <2>5, <2>6 DEF IInv
<1> QED BY <1>2, <1>3 DEF ReceiveAnswer

-----------------------------------------------------------------------------
(***************************************************************************)
(* The Core's main loop                                                    *)
(***************************************************************************)

LEMMA PassFields ==
    /\ Idle \in Passes /\ Idle.at = "idle" /\ Idle.rest = "none" /\ Idle.of = None
    /\ \A p \in Loose \cup {None}, rest \in {"none", "val", "flags"} :
          /\ Rules(rest, p) \in Passes /\ Rules(rest, p).at = "rules"
          /\ Rules(rest, p).rest = rest /\ Rules(rest, p).of = p
<1>1. MaxWrites \in Int
  BY MirrorAssumption
<1> QED BY <1>1 DEF Idle, Rules, Passes

LEMMA GoodIsLoose == Good \subseteq Loose
  BY DEF Good, Sound, Loose

\* A step of the main loop that reads no message.
LEMMA CoreStep ==
    ASSUME IInv, UNCHANGED <<server, wire, loop, stage>>, missed => missed',
           calls' \in Seq(CallRecords),
           stage = "get_points" =>
              UNCHANGED <<mirror, calls>> /\ pass'.rest = "none",
           stage # "get_points" => mirror' \in Good,
           pass' \in Passes, pass'.rest # "none" => pass'.of \in Loose,
           pass'.at = "idle" => pass'.rest = "none",
           missed' \/ stage = "get_points" \/ Finished' = Finished
    PROVE  IInv'
<1>1. Typed'
  <2>1. mirror' \in Good \cup {None}
    BY DEF IInv, Typed
  <2> QED BY <2>1 DEF IInv, Typed
<1>2. Phases'
  BY DEF IInv, Phases
<1>3. ASSUME ~missed'
      PROVE  Chained'
  <2>1. PICK a \in Good, b \in Good : /\ stage # "get_points" => a = Finished
                                      /\ Leads(a, loop, b) /\ Leads(b, wire, server)
    BY <1>3 DEF IInv, Chained
  <2>2. stage' # "get_points" => a = Finished'
    BY <1>3, <2>1
  <2> QED BY <2>1, <2>2 DEF Chained
<1> QED BY <1>1, <1>2, <1>3 DEF IInv

LEMMA CallTimesOutStep ==
    ASSUME IInv, CallTimesOut
    PROVE  IInv' /\ Finished' = Finished
<1>1. /\ UNCHANGED <<server, wire, loop, stage, mirror, calls, missed>>
      /\ pass' = [pass EXCEPT !.at = "rules"]
  BY DEF CallTimesOut
<1>2. /\ pass \in Passes /\ calls \in Seq(CallRecords)
      /\ pass.rest # "none" => pass.of \in Loose
      /\ stage = "get_points" => pass.rest = "none"
      /\ stage # "get_points" => mirror \in Good
  BY DEF IInv, Typed, Phases
<1>3. pass' \in Passes /\ pass'.at = "rules" /\ pass'.rest = pass.rest /\ pass'.of = pass.of
  BY <1>1, <1>2 DEF Passes
<1>4. Finished' = Finished
  BY <1>1, <1>3 DEF Finished
<1> QED BY <1>1, <1>2, <1>3, <1>4, CoreStep

\* Taking the first message from the main loop.
LEMMA Dispatched ==
    ASSUME IInv, NEW type, Dispatch(type)
    PROVE  /\ pass.rest = "none" /\ Finished = mirror
           /\ Head(loop) \in Messages /\ Head(loop).type = type /\ loop' \in Seq(Messages)
           /\ stage = "get_points" => type = "snapshot"
           /\ ~missed => \E a, b, c \in Good :
                /\ stage # "get_points" => a = mirror
                /\ Reads(a, Head(loop), c) /\ Leads(c, loop', b) /\ Leads(b, wire, server)
<1>1. pass.at = "idle" /\ loop # <<>> /\ Head(loop).type = type /\ loop' = Tail(loop)
  BY DEF Dispatch
<1>2. loop \in Seq(Messages) /\ pass.rest = "none"
  BY <1>1 DEF IInv, Typed
<1>3. Finished = mirror
  BY <1>2 DEF Finished, Finish
<1>4. Head(loop) \in Messages /\ loop' \in Seq(Messages)
  BY <1>1, <1>2, SeqOps
<1>5. ASSUME stage = "get_points"
      PROVE  type = "snapshot"
  <2>1. loop \in Seq(Snapshots)
    BY <1>5 DEF IInv, Phases, Cold
  <2>2. Head(loop) \in Snapshots
    BY <1>1, <2>1, SeqOps
  <2>3. \A m \in Snapshots : m.type = "snapshot"
    BY MessageFields DEF Snapshots
  <2> QED BY <1>1, <2>2, <2>3
<1>6. ASSUME ~missed
      PROVE  \E a, b, c \in Good :
                /\ stage # "get_points" => a = mirror
                /\ Reads(a, Head(loop), c) /\ Leads(c, loop', b) /\ Leads(b, wire, server)
  <2>1. PICK a \in Good, b \in Good : /\ stage # "get_points" => a = Finished
                                      /\ Leads(a, loop, b) /\ Leads(b, wire, server)
    BY <1>6 DEF IInv, Chained
  <2>2. PICK c \in Good : Reads(a, Head(loop), c) /\ Leads(c, loop', b)
    BY <1>1, <1>2, <2>1, LeadsHead
  <2> QED BY <1>3, <2>1, <2>2
<1> QED BY <1>1, <1>2, <1>3, <1>4, <1>5, <1>6

LEMMA OnSnapshotStep ==
    ASSUME IInv, OnSnapshot
    PROVE  IInv'
<1>1. /\ UNCHANGED <<server, wire, pass, missed>>
      /\ mirror' = Head(loop).point /\ stage' = "get_stats"
      /\ calls' \in {calls, Append(calls, GetStats)}
  BY DEF OnSnapshot
<1>2. Dispatch("snapshot")
  BY DEF OnSnapshot
<1>3. /\ pass.rest = "none" /\ loop' \in Seq(Messages) /\ Head(loop) \in Messages
      /\ Head(loop).type = "snapshot"
  BY <1>2, Dispatched
<1>4. mirror' \in Good
  BY <1>1, <1>3, MessageFields
<1>5. calls' \in Seq(CallRecords)
  <2>1. calls \in Seq(CallRecords) /\ GetStats \in CallRecords
    BY DEF IInv, Typed, CallRecords
  <2> QED BY <1>1, <2>1, SeqOps
<1>6. Typed'
  BY <1>1, <1>3, <1>4, <1>5 DEF IInv, Typed
<1>7. Phases'
  BY <1>1, <1>4 DEF Phases
<1>8. Finished' = mirror'
  BY <1>1, <1>3 DEF Finished, Finish
<1>9. ASSUME ~missed
      PROVE  Chained'
  <2>1. PICK a, b, c \in Good :
           Reads(a, Head(loop), c) /\ Leads(c, loop', b) /\ Leads(b, wire, server)
    BY <1>2, <1>9, Dispatched
  <2>2. c = mirror'
    BY <1>1, <1>3, <2>1 DEF Reads
  <2> QED BY <1>1, <1>8, <2>1, <2>2 DEF Chained
<1> QED BY <1>1, <1>6, <1>7, <1>9 DEF IInv

LEMMA OnStatsStep ==
    ASSUME IInv, OnStats
    PROVE  IInv'
<1>1. /\ UNCHANGED <<server, wire, mirror, calls, missed>>
      /\ stage' = "ready" /\ pass' = Rules("none", None)
  BY DEF OnStats
<1>2. Dispatch("stats")
  BY DEF OnStats
<1>3. /\ loop' \in Seq(Messages) /\ Head(loop).type = "stats" /\ stage # "get_points"
  BY <1>2, Dispatched
<1>4. /\ pass' \in Passes /\ pass'.at = "rules" /\ pass'.rest = "none"
  BY <1>1, PassFields
<1>5. mirror \in Good
  BY <1>3 DEF IInv, Phases
<1>6. Typed'
  BY <1>1, <1>3, <1>4 DEF IInv, Typed
<1>7. Phases'
  BY <1>1, <1>5 DEF Phases
<1>8. Finished' = mirror
  BY <1>1, <1>4 DEF Finished, Finish
<1>9. ASSUME ~missed
      PROVE  Chained'
  <2>1. PICK a, b, c \in Good :
           /\ a = mirror
           /\ Reads(a, Head(loop), c) /\ Leads(c, loop', b) /\ Leads(b, wire, server)
    BY <1>2, <1>3, <1>9, Dispatched
  <2>2. c = mirror
    BY <1>3, <2>1 DEF Reads
  <2> QED BY <1>1, <1>8, <2>1, <2>2 DEF Chained
<1> QED BY <1>1, <1>6, <1>7, <1>9 DEF IInv

\* Setting the value, and the flags at once or after the rules.
LEMMA ValSetResult ==
    ASSUME NEW m \in Good, NEW p \in Loose, ValSet(m, p)
    PROVE  /\ mirror' \in Good /\ pass' \in Passes
           /\ pass'.rest # "none" => pass'.of \in Loose
           /\ pass'.at = "idle" => pass'.rest = "none"
           /\ Finished' = SetFlags(SetVal(m, p.val), p.flags)
<1> DEFINE n == SetVal(m, p.val)
<1>1. p.val \in Int /\ p.flags \in SUBSET Flags /\ 1 \in AllSteps
  BY DEF Loose, IoPoints, AllSteps
<1>2. n \in Good
  BY <1>1, SettersKeepSound DEF Good
<1>3. \/ mirror' = n /\ pass' = Rules("flags", p)
      \/ mirror' = SetFlags(n, p.flags) /\ pass' = Idle
  BY DEF ValSet
<1> HIDE DEF n
<1>4. SetFlags(n, p.flags) \in Good
  BY <1>1, <1>2, SettersKeepSound DEF Good
<1>5. CASE mirror' = n /\ pass' = Rules("flags", p)
  <2>1. pass' \in Passes /\ pass'.at = "rules" /\ pass'.rest = "flags" /\ pass'.of = p
    BY <1>5, PassFields
  <2>2. Finished' = SetFlags(n, p.flags)
    BY <1>5, <2>1 DEF Finished, Finish
  <2> QED BY <1>2, <1>5, <2>1, <2>2 DEF n
<1>6. CASE mirror' = SetFlags(n, p.flags) /\ pass' = Idle
  <2>1. pass' \in Passes /\ pass'.rest = "none"
    BY <1>6, PassFields
  <2>2. Finished' = mirror'
    BY <2>1 DEF Finished, Finish
  <2> QED BY <1>4, <1>6, <2>1, <2>2 DEF n
<1> QED BY <1>3, <1>5, <1>6

LEMMA OnSignalStep ==
    ASSUME IInv, OnSignal
    PROVE  IInv' /\ Finished' = Handled(mirror, Head(loop).point)
<1> DEFINE p == Head(loop).point
           m == BoundsSet(mirror, p)
<1>1. /\ UNCHANGED <<server, wire, calls, stage, missed>>
      /\ \/ mirror' = m /\ pass' = Rules("val", p)
         \/ ValSet(m, p)
  BY DEF OnSignal
<1>2. Dispatch("signal")
  BY DEF OnSignal
<1>3. /\ loop' \in Seq(Messages) /\ Head(loop) \in Messages /\ Head(loop).type = "signal"
      /\ stage # "get_points"
  BY <1>2, Dispatched
<1>4. p \in Good /\ p \in Loose /\ mirror \in Good
  BY <1>3, MessageFields, GoodIsLoose DEF IInv, Phases
<1> HIDE DEF p
<1>5. m \in Good
  <2>1. p.min \in Int /\ p.max \in Int /\ p.step \in AllSteps /\ {} \in SUBSET Flags
        /\ 1 \in AllSteps
    BY <1>4 DEF Loose, IoPoints, AllSteps
  <2>2. SetMin(mirror, p.min) \in Good
    BY <1>4, <2>1, SettersKeepSound DEF Good
  <2>3. SetMax(SetMin(mirror, p.min), p.max) \in Good
    BY <2>1, <2>2, SettersKeepSound DEF Good
  <2>4. SetStep(SetMax(SetMin(mirror, p.min), p.max), p.step) \in Good
    BY <2>1, <2>3, SettersKeepSound DEF Good
  <2> QED BY <2>4 DEF BoundsSet
<1>6. /\ mirror' \in Good /\ pass' \in Passes
      /\ pass'.rest # "none" => pass'.of \in Loose
      /\ pass'.at = "idle" => pass'.rest = "none"
      /\ Finished' = Handled(mirror, p)
  <2> HIDE DEF m
  <2>1. Handled(mirror, p) = SetFlags(SetVal(m, p.val), p.flags)
    BY DEF Handled, m
  <2>2. CASE mirror' = m /\ pass' = Rules("val", p)
    <3>1. pass' \in Passes /\ pass'.at = "rules" /\ pass'.rest = "val" /\ pass'.of = p
      BY <1>4, <2>2, PassFields
    <3>2. Finished' = SetFlags(SetVal(m, p.val), p.flags)
      BY <2>2, <3>1 DEF Finished, Finish
    <3> QED BY <1>4, <1>5, <2>1, <2>2, <3>1, <3>2
  <2>3. CASE ValSet(m, p)
    BY <1>4, <1>5, <2>1, <2>3, ValSetResult
  <2> QED BY <1>1, <2>2, <2>3 DEF m
<1>7. Typed'
  BY <1>1, <1>3, <1>6 DEF IInv, Typed
<1>8. Phases'
  BY <1>1, <1>3, <1>6 DEF Phases
<1>9. ASSUME ~missed
      PROVE  Chained'
  <2>1. PICK a, b, c \in Good :
           /\ a = mirror
           /\ Reads(a, Head(loop), c) /\ Leads(c, loop', b) /\ Leads(b, wire, server)
    BY <1>2, <1>3, <1>9, Dispatched
  <2>2. c = p /\ Handled(mirror, p) = p
    BY <1>3, <2>1 DEF Reads, Tells, p
  <2> QED BY <1>1, <1>6, <2>1, <2>2 DEF Chained
<1> QED BY <1>1, <1>6, <1>7, <1>8, <1>9 DEF IInv, p

LEMMA EndPassStep ==
    ASSUME IInv, EndPass
    PROVE  IInv' /\ Finished' = Finished
<1>1. UNCHANGED <<server, wire, loop, stage, calls, missed>>
  BY DEF EndPass
<1>2. /\ pass.rest # "none" => pass.of \in Loose
      /\ stage = "get_points" => pass.rest = "none"
      /\ stage # "get_points" => mirror \in Good
      /\ calls \in Seq(CallRecords)
  BY DEF IInv, Typed, Phases
<1>3. CASE pass.rest = "none" /\ mirror' = mirror /\ pass' = Idle
  <2>1. pass' \in Passes /\ pass'.rest = "none"
    BY <1>3, PassFields
  <2>2. Finished' = Finished
    BY <1>3, <2>1 DEF Finished, Finish
  <2> QED BY <1>1, <1>2, <1>3, <2>1, <2>2, CoreStep
<1>4. CASE pass.rest = "val" /\ ValSet(mirror, pass.of)
  <2>1. stage # "get_points" /\ mirror \in Good /\ pass.of \in Loose
    BY <1>2, <1>4
  <2>2. Finished = SetFlags(SetVal(mirror, pass.of.val), pass.of.flags)
    BY <1>4 DEF Finished, Finish
  <2>3. /\ mirror' \in Good /\ pass' \in Passes
        /\ pass'.rest # "none" => pass'.of \in Loose
        /\ pass'.at = "idle" => pass'.rest = "none"
        /\ Finished' = Finished
    BY <1>4, <2>1, <2>2, ValSetResult
  <2> QED BY <1>1, <1>2, <2>1, <2>3, CoreStep
<1>5. CASE pass.rest = "flags" /\ mirror' = SetFlags(mirror, pass.of.flags) /\ pass' = Idle
  <2>1. stage # "get_points" /\ mirror \in Good /\ pass.of.flags \in SUBSET Flags
    BY <1>2, <1>5 DEF Loose, IoPoints
  <2>2. mirror' \in Good
    <3>1. 1 \in AllSteps /\ 1 \in Int
      BY DEF AllSteps
    <3> QED BY <1>5, <2>1, <3>1, SettersKeepSound DEF Good
  <2>3. pass' \in Passes /\ pass'.rest = "none"
    BY <1>5, PassFields
  <2>4. Finished' = Finished
    BY <1>5, <2>3 DEF Finished, Finish
  <2> QED BY <1>1, <1>2, <2>1, <2>2, <2>3, <2>4, CoreStep
<1> QED BY <1>3, <1>4, <1>5 DEF EndPass

LEMMA OtherPointChangesStep ==
    ASSUME IInv, OtherPointChanges
    PROVE  IInv' /\ Finished' = Finished
<1>1. /\ UNCHANGED <<server, wire, loop, stage, mirror, calls, missed>>
      /\ stage = "ready" /\ pass.at = "idle" /\ pass' = Rules("none", None)
  BY DEF OtherPointChanges
<1>2. mirror \in Good /\ calls \in Seq(CallRecords) /\ pass.rest = "none"
  BY <1>1 DEF IInv, Typed, Phases
<1>3. pass' \in Passes /\ pass'.at = "rules" /\ pass'.rest = "none"
  BY <1>1, PassFields
<1>4. Finished' = Finished
  BY <1>1, <1>2, <1>3 DEF Finished, Finish
<1> QED BY <1>1, <1>2, <1>3, <1>4, CoreStep

-----------------------------------------------------------------------------
(***************************************************************************)
(* Writes                                                                  *)
(***************************************************************************)

LEMMA WriteStep ==
    ASSUME IInv, NEW from \in {"rule_value", "rule_flag"}, NEW val \in Int,
           NEW flags \in SUBSET Flags, Write(from, val, flags)
    PROVE  IInv' /\ Finished' = Finished
<1>1. /\ UNCHANGED <<server, wire, loop, stage, mirror, missed>> /\ stage = "ready"
      /\ calls' = Append(calls, Call("set", from, val, flags))
      /\ pass' = [pass EXCEPT !.at = "calling", !.left = @ - 1]
  BY DEF Write
<1>2. /\ mirror \in Good /\ calls \in Seq(CallRecords) /\ pass \in Passes
      /\ pass.rest # "none" => pass.of \in Loose
  BY <1>1 DEF IInv, Typed, Phases
<1>3. calls' \in Seq(CallRecords)
  <2>1. Call("set", from, val, flags) \in CallRecords
    BY DEF Call, CallRecords, SetCalls
  <2> QED BY <1>1, <1>2, <2>1, SeqOps
<1>4. /\ pass' \in Passes /\ pass'.at = "calling" /\ pass'.rest = pass.rest
      /\ pass'.of = pass.of
  <2> DEFINE left == pass.left - 1
  <2>1. left \in Int
    BY <1>2 DEF Passes
  <2>2. pass' = [pass EXCEPT !.at = "calling", !.left = left]
    BY <1>1
  <2> HIDE DEF left
  <2> QED BY <1>2, <2>1, <2>2 DEF Passes
<1>5. Finished' = Finished
  BY <1>1, <1>4 DEF Finished
<1> QED BY <1>1, <1>2, <1>3, <1>4, <1>5, CoreStep

LEMMA MirrorReady ==
    ASSUME IInv, stage = "ready"
    PROVE  mirror \in Good /\ mirror.val \in Int /\ mirror.flags \in SUBSET Flags
<1>1. mirror \in Good
  BY DEF IInv, Phases
<1> QED BY <1>1, GoodFields

LEMMA RuleSetsValueStep ==
    ASSUME IInv, NEW v \in Values, RuleSetsValue(v)
    PROVE  IInv' /\ Finished' = Finished
<1>1. v \in Int
  BY MirrorAssumption
<1>2. stage = "ready" /\ Write("rule_value", v, mirror.flags)
  BY DEF RuleSetsValue
<1> QED BY <1>1, <1>2, MirrorReady, WriteStep

LEMMA RuleSetsFlagStep ==
    ASSUME IInv, NEW f \in SUBSET Flags, RuleSetsFlag(f)
    PROVE  IInv' /\ Finished' = Finished
<1>1. stage = "ready" /\ Write("rule_flag", mirror.val, f)
  BY DEF RuleSetsFlag
<1> QED BY <1>1, MirrorReady, WriteStep

LEMMA DebuggerSetsOutputStep ==
    ASSUME IInv, NEW v \in Values, NEW f \in SUBSET Flags, DebuggerSetsOutput(v, f)
    PROVE  IInv' /\ Finished' = Finished
<1>1. /\ UNCHANGED <<server, wire, loop, stage, mirror, missed>> /\ stage = "ready"
      /\ pass.at = "idle" /\ calls' = Append(calls, Call("set", "debugger", v, f))
      /\ pass' = [Idle EXCEPT !.at = "calling"]
  BY DEF DebuggerSetsOutput
<1>2. v \in Int
  BY MirrorAssumption
<1>3. mirror \in Good /\ calls \in Seq(CallRecords) /\ pass.rest = "none"
  BY <1>1 DEF IInv, Typed, Phases
<1>4. calls' \in Seq(CallRecords)
  <2>1. Call("set", "debugger", v, f) \in CallRecords
    BY <1>2 DEF Call, CallRecords, SetCalls
  <2> QED BY <1>1, <1>3, <2>1, SeqOps
<1>5. pass' \in Passes /\ pass'.at = "calling" /\ pass'.rest = "none"
  BY <1>1 DEF Idle, Passes
<1>6. Finished' = Finished
  BY <1>1, <1>3, <1>5 DEF Finished, Finish
<1> QED BY <1>1, <1>3, <1>4, <1>5, <1>6, CoreStep

LEMMA DebuggerSetsInputStep ==
    ASSUME IInv, NEW v \in Values, NEW f \in SUBSET Flags, DebuggerSetsInput(v, f)
    PROVE  IInv'
<1> DEFINE p == [mirror EXCEPT !.val = v, !.flags = f]
<1>1. /\ UNCHANGED <<server, wire, loop, stage, calls>> /\ stage = "ready"
      /\ ValSet(mirror, p) /\ missed' = TRUE
  BY DEF DebuggerSetsInput
<1>2. mirror \in Good /\ calls \in Seq(CallRecords)
  BY <1>1 DEF IInv, Typed, Phases
<1>3. p \in Loose
  <2>1. mirror \in Loose /\ v \in Int
    BY <1>2, GoodIsLoose, MirrorAssumption
  <2> QED BY <2>1 DEF Loose, IoPoints
<1> HIDE DEF p
<1>4. /\ mirror' \in Good /\ pass' \in Passes
      /\ pass'.rest # "none" => pass'.of \in Loose
      /\ pass'.at = "idle" => pass'.rest = "none"
  BY <1>1, <1>2, <1>3, ValSetResult
<1> QED BY <1>1, <1>2, <1>4, CoreStep

-----------------------------------------------------------------------------
(***************************************************************************)
(* The theorems                                                            *)
(***************************************************************************)

LEMMA InitIInv == Init => IInv
<1> SUFFICES ASSUME Init PROVE IInv
  OBVIOUS
<1>1. /\ server \in InitialPoints /\ calls = <<GetPoints>> /\ wire = <<>> /\ loop = <<>>
      /\ stage = "get_points" /\ mirror = None /\ pass = Idle /\ missed = FALSE
  BY DEF Init
<1>2. server \in Good
  BY <1>1, MirrorAssumption DEF Good, Sound, AllSteps
<1>3. /\ GetPoints \in CallRecords \ {GetStats}
  BY DEF CallRecords, GetPoints, GetStats, Call
<1>4. calls \in Seq(CallRecords \ {GetStats}) /\ calls \in Seq(CallRecords)
  BY <1>1, <1>3
<1>5. pass \in Passes /\ pass.rest = "none"
  BY <1>1, PassFields
<1>6. /\ wire \in Seq(Messages) /\ wire \in Seq(Messages \ {Stats})
      /\ loop \in Seq(Messages) /\ loop \in Seq(Snapshots)
  BY <1>1
<1>7. Typed
  BY <1>1, <1>2, <1>4, <1>5, <1>6 DEF Typed
<1>8. Phases
  BY <1>1, <1>4, <1>5, <1>6 DEF Phases, Cold
<1>9. Chained
  <2>1. Leads(server, <<>>, server)
    BY <1>2, LeadsNowhere
  <2> QED BY <1>1, <1>2, <2>1 DEF Chained
<1> QED BY <1>7, <1>8, <1>9 DEF IInv

LEMMA NextIInv == IInv /\ [Next]_vars => IInv'
<1> SUFFICES ASSUME IInv, [Next]_vars PROVE IInv'
  OBVIOUS
<1>1. CASE ServiceEdits
  BY <1>1, ServiceEditsStep
<1>2. ASSUME NEW v \in Values, NEW f \in SUBSET Flags, OperatorWrites(v, f)
      PROVE  IInv'
  BY <1>2, OperatorWritesStep
<1>3. CASE Serve
  BY <1>3, ServeStep
<1>4. CASE ServiceDies
  BY <1>4, ServiceDiesStep
<1>5. CASE ReceiveSignal
  BY <1>5, ReceiveSignalStep
<1>6. CASE ReceiveAnswer
  BY <1>6, ReceiveAnswerStep
<1>7. CASE CallTimesOut
  BY <1>7, CallTimesOutStep
<1>8. CASE OnSnapshot
  BY <1>8, OnSnapshotStep
<1>9. CASE OnStats
  BY <1>9, OnStatsStep
<1>10. CASE OnSignal
  BY <1>10, OnSignalStep
<1>11. CASE EndPass
  BY <1>11, EndPassStep
<1>12. CASE OtherPointChanges
  BY <1>12, OtherPointChangesStep
<1>13. ASSUME NEW v \in Values, RuleSetsValue(v)
       PROVE  IInv'
  BY <1>13, RuleSetsValueStep
<1>14. ASSUME NEW f \in SUBSET Flags, RuleSetsFlag(f)
       PROVE  IInv'
  BY <1>14, RuleSetsFlagStep
<1>15. ASSUME NEW v \in Values, NEW f \in SUBSET Flags, DebuggerSetsOutput(v, f)
       PROVE  IInv'
  BY <1>15, DebuggerSetsOutputStep
<1>16. ASSUME NEW v \in Values, NEW f \in SUBSET Flags, DebuggerSetsInput(v, f)
       PROVE  IInv'
  BY <1>16, DebuggerSetsInputStep
<1>17. CASE UNCHANGED vars
  BY <1>17 DEF vars, IInv, Typed, Phases, Chained, Finished
<1> QED BY <1>1, <1>2, <1>3, <1>4, <1>5, <1>6, <1>7, <1>8, <1>9, <1>10, <1>11, <1>12,
           <1>13, <1>14, <1>15, <1>16, <1>17 DEF Next

\* The invariant of the mirror holds whatever points, values, steps and flags
\* there are, whoever writes, and whenever the service dies.
THEOREM InvariantHolds == Spec => []IInv
  BY InitIInv, NextIInv, PTL DEF Spec

\* No setter, in the service or in the change handler, and no write ever leaves a
\* point that st_input_new and st_output_new would abort on.
THEOREM AssertionsHoldHolds == Spec => []AssertionsHold
<1>1. ASSUME IInv PROVE AssertionsHold
  <2>1. server \in Good /\ mirror \in Good \cup {None} /\ wire \in Seq(Messages)
    BY <1>1 DEF IInv, Typed
  <2>2. \A p \in Good : WellFormed(p)
    BY DEF Good, Sound
  <2>3. ASSUME NEW i \in DOMAIN wire
        PROVE  wire[i].point \in Good \cup {None}
    <3>1. wire[i] \in Messages
      BY <2>1, <2>3, ElementOfSeq, LenProperties
    <3> QED BY <3>1, MessageFields
  <2> QED BY <2>1, <2>2, <2>3 DEF AssertionsHold
<1> QED BY <1>1, InvariantHolds, PTL

\* With no signal queued, on the wire or in the handler, the chain is empty.
LEMMA QuietMirror ==
    ASSUME IInv
    PROVE  MirrorFollows
<1> SUFFICES ASSUME Quiet, ~missed PROVE mirror = server
  BY DEF MirrorFollows
<1>1. /\ stage = "ready" /\ pass.rest = "none"
      /\ \A i \in DOMAIN wire : wire[i].type # "signal"
      /\ \A i \in DOMAIN loop : loop[i].type # "signal"
  BY DEF Quiet, SignalUnderWay
<1>2. PICK a \in Good, b \in Good : a = Finished /\ Leads(a, loop, b) /\ Leads(b, wire, server)
  BY <1>1 DEF IInv, Chained
<1>3. Finished = mirror
  BY <1>1 DEF Finished, Finish
<1>4. wire \in Seq(Messages) /\ loop \in Seq(Messages)
  BY DEF IInv, Typed
<1>5. a = b /\ b = server
  BY <1>1, <1>2, <1>4, LeadsQuietly
<1> QED BY <1>2, <1>3, <1>5

\* A mirror that missed no change is the service's point when no signal is under
\* way: however the step and the bounds move, the five setters of the change
\* handlers never reject or round away what they are told.
THEOREM MirrorFollowsHolds == Spec => []MirrorFollows
  BY QuietMirror, InvariantHolds, PTL

-----------------------------------------------------------------------------
(***************************************************************************)
(* Writes whose answer is to come                                          *)
(***************************************************************************)

\* s holds at most n elements of M: they can be numbered, in order, up to n.
Numbers(r, s, M, n) ==
    /\ \A k \in DOMAIN s : s[k] \in M => r[k] \in 1 .. n
    /\ \A j, k \in DOMAIN s : j < k /\ s[j] \in M /\ s[k] \in M => r[j] < r[k]

AtMost(n, s, M) == \E r \in [DOMAIN s -> Nat] : Numbers(r, s, M, n)

LEMMA AtMostNone ==
    ASSUME NEW M
    PROVE  AtMost(0, <<>>, M)
<1>1. DOMAIN <<>> = {}
  OBVIOUS
<1>2. Numbers([k \in {} |-> 0], <<>>, M, 0)
  BY <1>1 DEF Numbers
<1> QED BY <1>1, <1>2 DEF AtMost

LEMMA AtMostOneMore ==
    ASSUME NEW S, NEW s \in Seq(S), NEW m \in S, NEW M, NEW n \in Nat, AtMost(n, s, M)
    PROVE  /\ AtMost(n + 1, Append(s, m), M)
           /\ m \notin M => AtMost(n, Append(s, m), M)
<1>1. PICK r \in [DOMAIN s -> Nat] : Numbers(r, s, M, n)
  BY DEF AtMost
<1> DEFINE t == Append(s, m)
           l == Len(s)
           q == [k \in 1 .. l + 1 |-> IF k <= l THEN r[k] ELSE n + 1]
<1>2. /\ l \in Nat /\ DOMAIN s = 1 .. l /\ DOMAIN t = 1 .. l + 1 /\ t[l + 1] = m
      /\ \A k \in 1 .. l : t[k] = s[k]
  BY AppendProperties, LenProperties
<1> HIDE DEF t, l
<1>3. /\ q \in [DOMAIN t -> Nat] /\ q[l + 1] = n + 1
      /\ \A k \in 1 .. l : q[k] = r[k] /\ k \in 1 .. l + 1
  BY <1>1, <1>2
<1> HIDE DEF q
<1>4. \A k \in DOMAIN t : k \in 1 .. l \/ k = l + 1
  BY <1>2
<1>5. \A j, k \in DOMAIN t : j < k => j \in 1 .. l
  BY <1>2
<1>6. \A j, k \in DOMAIN t : j < k /\ t[j] \in M /\ t[k] \in M => q[j] < q[k]
  <2> SUFFICES ASSUME NEW j \in DOMAIN t, NEW k \in DOMAIN t, j < k, t[j] \in M, t[k] \in M
               PROVE  q[j] < q[k]
    OBVIOUS
  <2>1. j \in 1 .. l /\ q[j] = r[j] /\ r[j] \in 1 .. n
    BY <1>1, <1>2, <1>3, <1>5 DEF Numbers
  <2>2. CASE k \in 1 .. l
    BY <1>1, <1>2, <1>3, <2>1, <2>2 DEF Numbers
  <2>3. CASE k = l + 1
    BY <1>3, <2>1, <2>3
  <2> QED BY <1>4, <2>2, <2>3
<1>7. \A k \in 1 .. l : t[k] \in M => q[k] \in 1 .. n
  BY <1>1, <1>2, <1>3 DEF Numbers
<1>8. AtMost(n + 1, t, M)
  <2>1. \A k \in DOMAIN t : t[k] \in M => q[k] \in 1 .. n + 1
    BY <1>3, <1>4, <1>7
  <2> QED BY <1>3, <1>6, <2>1 DEF AtMost, Numbers
<1>9. ASSUME m \notin M PROVE AtMost(n, t, M)
  <2>1. \A k \in DOMAIN t : t[k] \in M => q[k] \in 1 .. n
    BY <1>2, <1>4, <1>7, <1>9
  <2> QED BY <1>3, <1>6, <2>1 DEF AtMost, Numbers
<1> QED BY <1>8, <1>9 DEF t

LEMMA AtMostOfStart ==
    ASSUME NEW S, NEW s \in Seq(S), NEW l \in 0 .. Len(s), NEW M, NEW n \in Nat,
           AtMost(n, s, M)
    PROVE  AtMost(n, SubSeq(s, 1, l), M)
<1>1. PICK r \in [DOMAIN s -> Nat] : Numbers(r, s, M, n)
  BY DEF AtMost
<1> DEFINE t == SubSeq(s, 1, l)
           q == [k \in 1 .. l |-> r[k]]
<1>2. /\ DOMAIN t = 1 .. l /\ \A k \in 1 .. l : t[k] = s[k] /\ k \in DOMAIN s
  BY SubSeqProperties, LenProperties
<1> HIDE DEF t
<1>3. q \in [DOMAIN t -> Nat] /\ \A k \in 1 .. l : q[k] = r[k]
  BY <1>1, <1>2
<1> HIDE DEF q
<1>4. Numbers(q, t, M, n)
  BY <1>1, <1>2, <1>3 DEF Numbers
<1> QED BY <1>3, <1>4 DEF AtMost, t

\* Without its head, s holds one less if the head is of M; and if it held no more
\* than that one, no other is.
LEMMA AtMostBehind ==
    ASSUME NEW S, NEW s \in Seq(S), s # <<>>, NEW M, NEW n \in Nat, AtMost(n, s, M)
    PROVE  /\ AtMost(n, Tail(s), M)
           /\ Head(s) \in M => /\ n >= 1 /\ AtMost(n - 1, Tail(s), M)
                               /\ n = 1 => \A k \in DOMAIN s : k > 1 => s[k] \notin M
<1>1. PICK r \in [DOMAIN s -> Nat] : Numbers(r, s, M, n)
  BY DEF AtMost
<1> DEFINE t == Tail(s)
           l == Len(s)
           q == [k \in 1 .. l - 1 |-> r[k + 1]]
           p == [k \in 1 .. l - 1 |-> IF r[k + 1] >= 1 THEN r[k + 1] - 1 ELSE 0]
<1>2. /\ l \in Nat \ {0} /\ DOMAIN s = 1 .. l /\ DOMAIN t = 1 .. l - 1 /\ Head(s) = s[1]
      /\ \A k \in 1 .. l - 1 : t[k] = s[k + 1]
  BY EmptySeq, HeadTailProperties, LenProperties
<1> HIDE DEF t, l
<1>3. \A k \in DOMAIN t : /\ k \in Int /\ k + 1 \in DOMAIN s /\ k + 1 > 1 /\ t[k] = s[k + 1]
                         /\ r[k + 1] \in Nat
  BY <1>1, <1>2
<1>4. AtMost(n, t, M)
  <2>1. q \in [DOMAIN t -> Nat] /\ \A k \in DOMAIN t : q[k] = r[k + 1]
    BY <1>2, <1>3
  <2> HIDE DEF q
  <2>2. \A k \in DOMAIN t : t[k] \in M => q[k] \in 1 .. n
    BY <1>1, <1>2, <1>3, <2>1 DEF Numbers
  <2>3. ASSUME NEW j \in DOMAIN t, NEW k \in DOMAIN t, j < k, t[j] \in M, t[k] \in M
        PROVE  q[j] < q[k]
    <3>1. j + 1 < k + 1 /\ s[j + 1] \in M /\ s[k + 1] \in M
      BY <1>3, <2>3
    <3> QED BY <1>1, <1>2, <1>3, <2>1, <3>1 DEF Numbers
  <2> QED BY <2>1, <2>2, <2>3 DEF AtMost, Numbers
<1>5. ASSUME Head(s) \in M
      PROVE  /\ n >= 1 /\ AtMost(n - 1, t, M)
             /\ n = 1 => \A k \in DOMAIN s : k > 1 => s[k] \notin M
  <2>1. 1 \in DOMAIN s /\ s[1] \in M
    BY <1>2, <1>5
  <2>2. r[1] \in 1 .. n
    BY <1>1, <2>1 DEF Numbers
  <2>3. ASSUME NEW k \in DOMAIN s, k > 1, s[k] \in M
        PROVE  r[k] > 1 /\ r[k] \in 1 .. n
    <3>1. r[1] < r[k] /\ r[k] \in 1 .. n
      BY <1>1, <2>1, <2>3 DEF Numbers
    <3> QED BY <2>2, <3>1
  <2>4. p \in [DOMAIN t -> Nat]
        /\ \A k \in DOMAIN t : p[k] = IF r[k + 1] >= 1 THEN r[k + 1] - 1 ELSE 0
    BY <1>2, <1>3
  <2> HIDE DEF p
  <2>5. \A k \in DOMAIN t : t[k] \in M => r[k + 1] > 1 /\ r[k + 1] \in 1 .. n
    BY <1>2, <1>3, <2>3
  <2>6. \A k \in DOMAIN t : t[k] \in M => p[k] = r[k + 1] - 1 /\ p[k] \in 1 .. n - 1
    BY <2>4, <2>5
  <2>7. ASSUME NEW j \in DOMAIN t, NEW k \in DOMAIN t, j < k, t[j] \in M, t[k] \in M
        PROVE  p[j] < p[k]
    <3>1. j + 1 < k + 1 /\ s[j + 1] \in M /\ s[k + 1] \in M
      BY <1>3, <2>7
    <3>2. r[j + 1] < r[k + 1]
      BY <1>1, <1>2, <1>3, <3>1 DEF Numbers
    <3> QED BY <2>5, <2>6, <2>7, <3>2
  <2>8. AtMost(n - 1, t, M)
    BY <2>4, <2>6, <2>7 DEF AtMost, Numbers
  <2>9. n >= 1
    BY <2>2
  <2>10. n = 1 => \A k \in DOMAIN s : k > 1 => s[k] \notin M
    BY <2>3
  <2> QED BY <2>8, <2>9, <2>10
<1> QED BY <1>4, <1>5 DEF t

\* The call the rules or the debugger are waiting for, if any.
Waiting == IF pass.at = "calling" THEN 1 ELSE 0

\* The last write that is not served.
Newest(i) ==
    /\ calls[i] \in SetCalls
    /\ \A j \in DOMAIN calls : i < j => calls[j] \notin SetCalls

\* A write of the rules, with what they took from the mirror.
Carries(call) ==
    /\ call.from = "rule_value" => Manual \notin mirror.flags
    /\ call.from = "rule_flag" => call.val = mirror.val

\* Writes not served and answers not read are no more than those given up and
\* the one waited for, which is the newest.
Pending ==
    /\ late \in Nat
    /\ \E a, b \in Nat : /\ AtMost(a, calls, SetCalls) /\ AtMost(b, wire, {Done})
                         /\ a + b <= late + Waiting
    /\ pass.at = "calling" => /\ stage = "ready"
                              /\ \A i \in DOMAIN calls : Newest(i) => Carries(calls[i])

LEMMA TellingAnswersNone ==
    ASSUME NEW w \in Seq(Messages), NEW p, NEW q \in Good, NEW n \in Nat, AtMost(n, w, {Done})
    PROVE  AtMost(n, w \o SignalIfChanged(p, q), {Done})
<1> DEFINE m == Signal(q)
<1>1. m \in Messages /\ m \notin {Done}
  <2>1. m.type = "signal" /\ m \in Messages
    BY MessageFields DEF Messages, Signals
  <2> QED BY <2>1, MessageFields
<1> HIDE DEF m
<1>2. Append(w, m) = w \o <<m>> /\ w \o <<>> = w /\ AtMost(n, Append(w, m), {Done})
  BY <1>1, AtMostOneMore, SeqOps
<1> QED BY <1>2 DEF SignalIfChanged, m

LEMMA WriteAnswersNone ==
    ASSUME NEW w \in Seq(Messages), NEW p \in Good, NEW v \in Int, NEW f \in SUBSET Flags,
           NEW n \in Nat, AtMost(n, w, {Done})
    PROVE  AtMost(n, w \o WriteSignals(p, v, f), {Done})
<1> DEFINE q == SetVal(p, v)
           r == Written(p, v, f)
<1>1. q \in Good /\ Tells(p, q) /\ r \in Good /\ 1 \in AllSteps
  <2>1. 1 \in AllSteps
    BY DEF AllSteps
  <2> QED BY <2>1, HandlesSetters, WriteTells
<1>2. CASE AcceptsVal(p, v)
  <2>1. Tells(q, r)
    <3>1. r = SetFlags(q, f)
      BY <1>2 DEF Written
    <3> HIDE DEF q, r
    <3> QED BY <1>1, <3>1, HandlesSetters
  <2>2. WriteSignals(p, v, f) = SignalIfChanged(p, q) \o SignalIfChanged(q, r)
    BY <1>2 DEF WriteSignals
  <2> HIDE DEF q, r
  <2> DEFINE s == SignalIfChanged(p, q)
             t == SignalIfChanged(q, r)
             u == w \o s
  <2>3. u \in Seq(Messages) /\ s \in Seq(Messages) /\ AtMost(n, u, {Done})
    <3>1. s \in Seq(Messages) /\ AtMost(n, w \o s, {Done})
      BY <1>1, Telling, TellingAnswersNone
    <3>2. w \o s \in Seq(Messages)
      BY <3>1
    <3> QED BY <3>1, <3>2
  <2> HIDE DEF u
  <2>4. t \in Seq(Messages) /\ AtMost(n, u \o t, {Done})
    BY <1>1, <2>1, <2>3, Telling, TellingAnswersNone
  <2> HIDE DEF s, t
  <2>5. u \o t = w \o (s \o t)
    <3>1. u = w \o s
      BY DEF u
    <3> QED BY <2>3, <2>4, <3>1, Regroup
  <2> QED BY <2>2, <2>4, <2>5 DEF s, t
<1>3. CASE ~AcceptsVal(p, v)
  <2>1. WriteSignals(p, v, f) = <<>> /\ w \o <<>> = w
    BY <1>3 DEF WriteSignals
  <2> QED BY <2>1
<1> QED BY <1>2, <1>3

\* The wire changes and no answer comes or goes.
LEMMA WirePending ==
    ASSUME Pending, UNCHANGED <<calls, late, pass, mirror, stage>>,
           \A n \in Nat : AtMost(n, wire, {Done}) => AtMost(n, wire', {Done})
    PROVE  Pending'
  BY DEF Pending, Waiting, Newest, Carries

\* The main loop goes on, with no call under way before or after.
LEMMA LoopPending ==
    ASSUME Pending, UNCHANGED <<calls, wire, late>>,
           pass.at # "calling", pass'.at # "calling"
    PROVE  Pending'
  BY DEF Pending, Waiting

LEMMA ServiceEditsPending ==
    ASSUME IInv, Pending, ServiceEdits
    PROVE  Pending'
<1>1. /\ UNCHANGED <<calls, late, pass, mirror, stage>>
      /\ wire' = wire \o SignalIfChanged(server, server')
  BY DEF ServiceEdits, coreVars
<1>2. wire \in Seq(Messages) /\ server' \in Good
  BY ServiceEditsStep DEF IInv, Typed
<1> QED BY <1>1, <1>2, TellingAnswersNone, WirePending

LEMMA OperatorWritesPending ==
    ASSUME IInv, Pending, NEW v \in Values, NEW f \in SUBSET Flags, OperatorWrites(v, f)
    PROVE  Pending'
<1>1. /\ UNCHANGED <<calls, late, pass, mirror, stage>>
      /\ wire' = wire \o WriteSignals(server, v, f)
  BY DEF OperatorWrites, coreVars
<1>2. wire \in Seq(Messages) /\ server \in Good /\ v \in Int
  BY MirrorAssumption DEF IInv, Typed
<1> QED BY <1>1, <1>2, WriteAnswersNone, WirePending

\* Serving a write makes a call an answer.
LEMMA ServePending ==
    ASSUME IInv, Pending, Serve
    PROVE  Pending'
<1> DEFINE call == Head(calls)
           w == wire \o WriteSignals(server, call.val, call.flags)
<1>1. /\ UNCHANGED <<late, pass, mirror, stage>> /\ calls # <<>> /\ calls' = Tail(calls)
      /\ \/ /\ call.method # "set"
            /\ wire' \in {Append(wire, Snapshot(server)), Append(wire, Stats)}
         \/ call.method = "set" /\ wire' = Append(w, Done)
  BY DEF Serve, coreVars
<1>2. server \in Good /\ wire \in Seq(Messages) /\ calls \in Seq(CallRecords)
  BY DEF IInv, Typed
<1>3. call \in CallRecords
  BY <1>1, <1>2, SeqOps
<1>4. call \in SetCalls <=> call.method = "set"
  BY <1>3 DEF CallRecords, SetCalls, GetPoints, GetStats, Call
<1>5. PICK a \in Nat, b \in Nat : /\ AtMost(a, calls, SetCalls) /\ AtMost(b, wire, {Done})
                                  /\ a + b <= late + Waiting
  BY DEF Pending
<1>6. /\ AtMost(a, calls', SetCalls)
      /\ call \in SetCalls => a >= 1 /\ AtMost(a - 1, calls', SetCalls)
  BY <1>1, <1>2, <1>5, AtMostBehind
<1> HIDE DEF call, w
<1>7. \E c, d \in Nat : /\ AtMost(c, calls', SetCalls) /\ AtMost(d, wire', {Done})
                        /\ c + d <= late + Waiting
  <2>1. CASE /\ call.method # "set"
             /\ wire' \in {Append(wire, Snapshot(server)), Append(wire, Stats)}
    <3>1. /\ Snapshot(server) \in Messages /\ Snapshot(server) \notin {Done}
          /\ Stats \in Messages /\ Stats \notin {Done}
      BY <1>2, OtherMessages DEF Snapshot, Done
    <3>2. AtMost(b, wire', {Done})
      BY <1>2, <1>5, <2>1, <3>1, AtMostOneMore
    <3> QED BY <1>5, <1>6, <3>2
  <2>2. CASE call.method = "set" /\ wire' = Append(w, Done)
    <3>1. call.val \in Int /\ call.flags \in SUBSET Flags
      BY <1>3, <2>2, CallKinds
    <3>2. w \in Seq(Messages) /\ AtMost(b, w, {Done})
      BY <1>2, <1>5, <3>1, WriteTells, WriteAnswersNone DEF w
    <3>3. AtMost(b + 1, wire', {Done})
      BY <1>5, <2>2, <3>2, OtherMessages, AtMostOneMore
    <3>4. a - 1 \in Nat /\ b + 1 \in Nat /\ (a - 1) + (b + 1) = a + b
          /\ AtMost(a - 1, calls', SetCalls)
      BY <1>4, <1>5, <1>6, <2>2
    <3> QED BY <1>5, <3>3, <3>4
  <2> QED BY <1>1, <2>1, <2>2
<1>8. ASSUME NEW i \in DOMAIN calls', Newest(i)'
      PROVE  /\ i + 1 \in DOMAIN calls /\ calls'[i] = calls[i + 1]
             /\ Newest(i + 1)
  <2>1. /\ Len(calls) \in Nat \ {0} /\ DOMAIN calls = 1 .. Len(calls)
        /\ DOMAIN calls' = 1 .. Len(calls) - 1
        /\ \A k \in 1 .. Len(calls) - 1 : calls'[k] = calls[k + 1]
    BY <1>1, <1>2, EmptySeq, HeadTailProperties, LenProperties
  <2>2. i + 1 \in DOMAIN calls /\ calls'[i] = calls[i + 1]
    BY <2>1
  <2>3. ASSUME NEW j \in DOMAIN calls, i + 1 < j
        PROVE  calls[j] \notin SetCalls
    <3>1. j - 1 \in DOMAIN calls' /\ i < j - 1 /\ (j - 1) + 1 = j
      BY <2>1, <2>3
    <3>2. calls'[j - 1] = calls[j]
      BY <2>1, <3>1
    <3> QED BY <1>8, <3>1, <3>2 DEF Newest
  <2> QED BY <1>8, <2>2, <2>3 DEF Newest
<1>9. pass'.at = "calling" => \A i \in DOMAIN calls' : Newest(i)' => Carries(calls[i + 1])
  BY <1>1, <1>8 DEF Pending
<1>10. \A i \in DOMAIN calls' : Newest(i)' => Carries(calls'[i]) = Carries(calls[i + 1])
  BY <1>8
<1>11. Waiting' = Waiting /\ late' \in Nat /\ late' = late
  BY <1>1 DEF Waiting, Pending
<1>12. pass'.at = "calling" => \A i \in DOMAIN calls' : Newest(i)' => Carries(calls[i])'
  BY <1>1, <1>9, <1>10 DEF Carries
<1>13. pass'.at = "calling" => stage' = "ready"
  BY <1>1 DEF Pending
<1> QED BY <1>7, <1>11, <1>12, <1>13 DEF Pending

LEMMA ServiceDiesPending ==
    ASSUME IInv, Pending, ServiceDies
    PROVE  Pending'
<1>1. UNCHANGED <<late, pass, stage>> /\ calls' = <<>>
  BY DEF ServiceDies, coreVars
<1>2. PICK n \in 0 .. Len(wire) : wire' = SubSeq(wire, 1, n)
  BY DEF ServiceDies
<1>3. PICK a \in Nat, b \in Nat : AtMost(b, wire, {Done}) /\ a + b <= late + Waiting
  BY DEF Pending
<1>4. AtMost(0, calls', SetCalls) /\ DOMAIN calls' = {}
  BY <1>1, AtMostNone
<1>5. AtMost(b, wire', {Done})
  BY <1>2, <1>3, AtMostOfStart DEF IInv, Typed
<1>6. Waiting' = Waiting /\ Waiting \in Nat /\ late' = late /\ late \in Nat
  BY <1>1 DEF Waiting, Pending
<1>7. 0 + b <= late' + Waiting'
  BY <1>3, <1>6
<1>8. pass'.at = "calling" => stage' = "ready"
  BY <1>1 DEF Pending
<1> QED BY <1>3, <1>4, <1>5, <1>6, <1>7, <1>8 DEF Pending

LEMMA ReceiveSignalPending ==
    ASSUME IInv, Pending, ReceiveSignal
    PROVE  Pending'
<1>1. /\ UNCHANGED <<calls, late, pass, mirror, stage>>
      /\ wire # <<>> /\ wire' = Tail(wire)
  BY DEF ReceiveSignal
<1>2. \A n \in Nat : AtMost(n, wire, {Done}) => AtMost(n, wire', {Done})
  BY <1>1, AtMostBehind DEF IInv, Typed
<1> QED BY <1>1, <1>2, WirePending

\* An answer is of a call given up, or of the one waited for.
LEMMA ReceiveAnswerPending ==
    ASSUME IInv, Pending, ReceiveAnswer
    PROVE  Pending'
<1>1. /\ UNCHANGED <<calls, mirror, stage>> /\ wire # <<>> /\ wire' = Tail(wire)
      /\ wire \in Seq(Messages)
  BY DEF ReceiveAnswer, IInv, Typed
<1>2. PICK a \in Nat, b \in Nat : /\ AtMost(a, calls, SetCalls) /\ AtMost(b, wire, {Done})
                                  /\ a + b <= late + Waiting
  BY DEF Pending
<1>3. /\ AtMost(b, wire', {Done})
      /\ Head(wire) \in {Done} => b >= 1 /\ AtMost(b - 1, wire', {Done})
  BY <1>1, <1>2, AtMostBehind
<1>4. Head(wire).type = "done" => Head(wire) = Done
  BY <1>1, SeqOps, MessageFields
<1>5. late \in Nat /\ Waiting \in {0, 1} /\ (Waiting = 1 <=> pass.at = "calling")
  BY DEF Pending, Waiting
<1>6. CASE Head(wire).type \in {"snapshot", "stats"} /\ UNCHANGED <<pass, late>>
  <2>1. \A n \in Nat : AtMost(n, wire, {Done}) => AtMost(n, wire', {Done})
    BY <1>1, AtMostBehind
  <2> QED BY <1>1, <1>6, <2>1, WirePending
<1>7. CASE Head(wire).type = "done" /\ late > 0 /\ late' = late - 1 /\ pass' = pass
  <2>1. b - 1 \in Nat /\ AtMost(b - 1, wire', {Done}) /\ late' \in Nat /\ Waiting' = Waiting
        /\ a + (b - 1) <= late' + Waiting
    BY <1>2, <1>3, <1>4, <1>5, <1>7 DEF Waiting
  <2> QED BY <1>1, <1>2, <1>7, <2>1 DEF Pending, Newest, Carries
<1>8. CASE Head(wire).type = "done" /\ late = 0 /\ late' = late
           /\ pass' = [pass EXCEPT !.at = "rules"]
  <2>1. pass'.at = "rules"
    <3>1. pass \in Passes
      BY DEF IInv, Typed
    <3> QED BY <1>8, <3>1 DEF Passes
  <2>2. Waiting' = 0
    BY <2>1 DEF Waiting
  <2>3. b - 1 \in Nat /\ AtMost(b - 1, wire', {Done}) /\ late' \in Nat
        /\ a + (b - 1) <= late' + Waiting'
    BY <1>2, <1>3, <1>4, <1>5, <1>8, <2>2
  <2> QED BY <1>1, <1>2, <2>1, <2>3 DEF Pending
<1> QED BY <1>6, <1>7, <1>8 DEF ReceiveAnswer

LEMMA CallTimesOutPending ==
    ASSUME IInv, Pending, CallTimesOut
    PROVE  Pending'
<1>1. /\ UNCHANGED <<calls, wire>> /\ pass.at = "calling" /\ late' = late + 1
      /\ pass' = [pass EXCEPT !.at = "rules"] /\ pass \in Passes
  BY DEF CallTimesOut, IInv, Typed
<1>2. pass'.at = "rules"
  BY <1>1 DEF Passes
<1>3. Waiting = 1 /\ Waiting' = 0 /\ late \in Nat
  BY <1>1, <1>2 DEF Waiting, Pending
<1>4. late' \in Nat /\ late' + Waiting' = late + Waiting
  BY <1>1, <1>3
<1> QED BY <1>1, <1>2, <1>4 DEF Pending

LEMMA OnSnapshotPending ==
    ASSUME IInv, Pending, OnSnapshot
    PROVE  Pending'
<1>1. /\ UNCHANGED <<wire, pass, late>> /\ pass.at = "idle"
      /\ calls' \in {calls, Append(calls, GetStats)} /\ calls \in Seq(CallRecords)
  BY DEF OnSnapshot, Dispatch, IInv, Typed
<1>2. GetStats \in CallRecords /\ GetStats \notin SetCalls
  BY DEF CallRecords, SetCalls, GetStats, Call
<1>3. \A n \in Nat : AtMost(n, calls, SetCalls) => AtMost(n, calls', SetCalls)
  BY <1>1, <1>2, AtMostOneMore
<1> QED BY <1>1, <1>3 DEF Pending, Waiting

\* The main loop's other steps: no call is under way.
LEMMA DispatchPending ==
    ASSUME IInv, Pending,
           OnStats \/ OnSignal \/ EndPass \/ OtherPointChanges
              \/ \E v \in Values, f \in SUBSET Flags : DebuggerSetsInput(v, f)
    PROVE  Pending'
<1>1. Idle.at # "calling" /\ \A rest, p : Rules(rest, p).at # "calling"
  BY DEF Idle, Rules
<1>2. \A m, p : ValSet(m, p) => pass'.at # "calling"
  BY <1>1 DEF ValSet
<1>3. CASE OnStats
  BY <1>1, <1>3, LoopPending DEF OnStats, Dispatch
<1>4. CASE OnSignal
  <2>1. pass'.at # "calling"
    BY <1>1, <1>2, <1>4 DEF OnSignal
  <2> QED BY <1>4, <2>1, LoopPending DEF OnSignal, Dispatch
<1>5. CASE EndPass
  <2>1. pass'.at # "calling"
    BY <1>1, <1>2, <1>5 DEF EndPass
  <2> QED BY <1>5, <2>1, LoopPending DEF EndPass
<1>6. CASE OtherPointChanges
  BY <1>1, <1>6, LoopPending DEF OtherPointChanges
<1>7. CASE \E v \in Values, f \in SUBSET Flags : DebuggerSetsInput(v, f)
  BY <1>2, <1>7, LoopPending DEF DebuggerSetsInput
<1> QED BY <1>3, <1>4, <1>5, <1>6, <1>7

\* A new call is the newest, and it is waited for.
LEMMA CallPending ==
    ASSUME IInv, Pending, NEW call \in SetCalls, calls' = Append(calls, call),
           UNCHANGED <<wire, late, mirror, stage>>, stage = "ready",
           pass.at # "calling", pass'.at = "calling", Carries(call)
    PROVE  Pending'
<1>1. calls \in Seq(CallRecords) /\ call \in CallRecords
  BY DEF IInv, Typed, CallRecords
<1>2. PICK a \in Nat, b \in Nat : /\ AtMost(a, calls, SetCalls) /\ AtMost(b, wire, {Done})
                                  /\ a + b <= late + Waiting
  BY DEF Pending
<1>3. AtMost(a + 1, calls', SetCalls)
  BY <1>1, <1>2, AtMostOneMore
<1>4. Waiting = 0 /\ Waiting' = 1 /\ late \in Nat
  BY DEF Waiting, Pending
<1>5. a + 1 \in Nat /\ (a + 1) + b <= late' + Waiting'
  BY <1>2, <1>4
<1>6. ASSUME NEW i \in DOMAIN calls', Newest(i)'
      PROVE  calls'[i] = call
  <2>1. /\ Len(calls) \in Nat /\ DOMAIN calls' = 1 .. Len(calls) + 1
        /\ calls'[Len(calls) + 1] = call
    BY <1>1, AppendProperties, LenProperties
  <2>2. ~(i < Len(calls) + 1)
    BY <1>6, <2>1 DEF Newest
  <2> QED BY <2>1, <2>2
<1>7. \A i \in DOMAIN calls' : Newest(i)' => Carries(calls[i])'
  BY <1>6 DEF Carries
<1> QED BY <1>2, <1>3, <1>4, <1>5, <1>7 DEF Pending

LEMMA WritesPending ==
    ASSUME IInv, Pending,
           \/ \E v \in Values : RuleSetsValue(v)
           \/ \E f \in SUBSET Flags : RuleSetsFlag(f)
           \/ \E v \in Values, f \in SUBSET Flags : DebuggerSetsOutput(v, f)
    PROVE  Pending'
<1>1. Values \subseteq Int /\ pass \in Passes
  BY MirrorAssumption DEF IInv, Typed
<1>2. \A from \in {"rule_value", "rule_flag", "debugger"}, v \in Int, f \in SUBSET Flags :
         /\ Call("set", from, v, f) \in SetCalls
         /\ Call("set", from, v, f).from = from /\ Call("set", from, v, f).val = v
  BY DEF Call, SetCalls
<1>3. ASSUME NEW from \in {"rule_value", "rule_flag"}, NEW v \in Int, NEW f \in SUBSET Flags,
             Write(from, v, f)
      PROVE  /\ calls' = Append(calls, Call("set", from, v, f))
             /\ UNCHANGED <<wire, late, mirror, stage>> /\ stage = "ready"
             /\ pass.at # "calling" /\ pass'.at = "calling"
  BY <1>1, <1>3 DEF Write, Passes
<1>4. ASSUME NEW v \in Values, RuleSetsValue(v)
      PROVE  Pending'
  <2>1. Write("rule_value", v, mirror.flags) /\ stage = "ready" /\ Manual \notin mirror.flags
    BY <1>4 DEF RuleSetsValue
  <2>2. v \in Int /\ mirror.flags \in SUBSET Flags
    BY <1>1, <2>1, MirrorReady
  <2>3. Carries(Call("set", "rule_value", v, mirror.flags))
    BY <1>2, <2>1, <2>2 DEF Carries
  <2> QED BY <1>2, <1>3, <2>1, <2>2, <2>3, CallPending
<1>5. ASSUME NEW f \in SUBSET Flags, RuleSetsFlag(f)
      PROVE  Pending'
  <2>1. Write("rule_flag", mirror.val, f) /\ stage = "ready"
    BY <1>5 DEF RuleSetsFlag
  <2>2. mirror.val \in Int
    BY <2>1, MirrorReady
  <2>3. Carries(Call("set", "rule_flag", mirror.val, f))
    BY <1>2, <2>2 DEF Carries
  <2> QED BY <1>2, <1>3, <2>1, <2>2, <2>3, CallPending
<1>6. ASSUME NEW v \in Values, NEW f \in SUBSET Flags, DebuggerSetsOutput(v, f)
      PROVE  Pending'
  <2>1. /\ calls' = Append(calls, Call("set", "debugger", v, f))
        /\ UNCHANGED <<wire, late, mirror, stage>> /\ stage = "ready"
        /\ pass.at # "calling" /\ pass'.at = "calling"
    BY <1>6 DEF DebuggerSetsOutput, Idle
  <2>2. Carries(Call("set", "debugger", v, f))
    BY <1>1, <1>2 DEF Carries
  <2> QED BY <1>1, <1>2, <2>1, <2>2, CallPending
<1> QED BY <1>4, <1>5, <1>6

LEMMA InitPending == Init => Pending
<1> SUFFICES ASSUME Init PROVE Pending
  OBVIOUS
<1>1. calls = <<GetPoints>> /\ wire = <<>> /\ pass.at = "idle" /\ late = 0
  BY DEF Init, Idle
<1>2. GetPoints \notin SetCalls /\ GetPoints \in CallRecords
  BY DEF SetCalls, GetPoints, Call, CallRecords
<1>3. AtMost(0, calls, SetCalls)
  <2>1. calls = Append(<<>>, GetPoints) /\ <<>> \in Seq(CallRecords)
    BY <1>1
  <2> QED BY <1>2, <2>1, AtMostNone, AtMostOneMore
<1>4. AtMost(0, wire, {Done}) /\ Waiting = 0
  BY <1>1, AtMostNone DEF Waiting
<1>5. 0 + 0 <= late + Waiting /\ 0 \in Nat
  BY <1>1, <1>4
<1> QED BY <1>1, <1>3, <1>4, <1>5 DEF Pending

LEMMA NextPending == IInv /\ Pending /\ [Next]_vars => Pending'
<1> SUFFICES ASSUME IInv, Pending, [Next]_vars PROVE Pending'
  OBVIOUS
<1>1. CASE UNCHANGED vars
  BY <1>1, WirePending DEF vars
<1> QED BY <1>1, ServiceEditsPending, OperatorWritesPending, ServePending, ServiceDiesPending,
           ReceiveSignalPending, ReceiveAnswerPending, CallTimesOutPending,
           OnSnapshotPending, DispatchPending, WritesPending DEF Next

\* Whoever writes, and whatever times out or is lost with the service, no more
\* answers are to come than call_set_io_method gave up or waits for.
THEOREM PendingHolds == Spec => []Pending
<1>1. Init => IInv /\ Pending
  BY InitIInv, InitPending
<1>2. (IInv /\ Pending) /\ [Next]_vars => (IInv /\ Pending)'
  BY NextIInv, NextPending
<1> QED BY <1>1, <1>2, PTL DEF Spec

\* When no call was given up, the first write to be served is the one waited for.
LEMMA FirstIsNewest ==
    ASSUME IInv, Pending, late = 0, calls # <<>>, Head(calls) \in SetCalls
    PROVE  stage = "ready" /\ Carries(Head(calls))
<1>1. calls \in Seq(CallRecords)
  BY DEF IInv, Typed
<1>2. PICK a \in Nat, b \in Nat : AtMost(a, calls, SetCalls) /\ a + b <= late + Waiting
  BY DEF Pending
<1>3. a >= 1 /\ (a = 1 => \A k \in DOMAIN calls : k > 1 => calls[k] \notin SetCalls)
  BY <1>1, <1>2, AtMostBehind
<1>4. Waiting \in {0, 1} /\ (Waiting = 1 => pass.at = "calling")
  BY DEF Waiting
<1>5. a = 1 /\ pass.at = "calling"
  BY <1>2, <1>3, <1>4
<1>6. 1 \in DOMAIN calls /\ calls[1] = Head(calls)
  BY <1>1, EmptySeq, LenProperties, HeadTailProperties
<1>7. Newest(1)
  BY <1>3, <1>5, <1>6 DEF Newest
<1> QED BY <1>5, <1>6, <1>7 DEF Pending

\* The rules' calls are writes.
LEMMA RulesWrite ==
    ASSUME NEW c \in CallRecords, c.from \in {"rule_value", "rule_flag"}
    PROVE  c \in SetCalls /\ c.method = "set"
  BY DEF CallRecords, SetCalls, GetPoints, GetStats, Call

\* Only serving a call takes it off the queue and changes the point.
LEMMA OnlyServeServes ==
    ASSUME IInv, [Next]_vars, calls # <<>>, calls' = Tail(calls), server' # server
    PROVE  Serve
<1>1. calls' # calls
  <2>1. calls \in Seq(CallRecords)
    BY DEF IInv, Typed
  <2> DEFINE l == Len(calls)
             m == Len(Tail(calls))
  <2>2. l \in Nat /\ m = l - 1
    BY <2>1, EmptySeq, HeadTailProperties, LenProperties
  <2>3. ASSUME calls' = calls PROVE m = l
    BY <2>3
  <2> HIDE DEF l, m
  <2>4. m # l
    BY <2>2
  <2> QED BY <2>3, <2>4
<1>2. ~ServiceEdits /\ \A v \in Values, f \in SUBSET Flags : ~OperatorWrites(v, f)
  BY <1>1 DEF ServiceEdits, OperatorWrites
<1>3. ~ServiceDies /\ ~ReceiveSignal /\ ~ReceiveAnswer /\ ~CallTimesOut
  BY DEF ServiceDies, ReceiveSignal, ReceiveAnswer, CallTimesOut
<1>4. ~OnSnapshot /\ ~OnStats /\ ~OnSignal /\ ~EndPass /\ ~OtherPointChanges
  BY DEF OnSnapshot, OnStats, OnSignal, EndPass, OtherPointChanges
<1>5. /\ \A v \in Values : ~RuleSetsValue(v)
      /\ \A f \in SUBSET Flags : ~RuleSetsFlag(f)
  BY DEF RuleSetsValue, RuleSetsFlag, Write
<1>6. \A v \in Values, f \in SUBSET Flags :
         ~DebuggerSetsOutput(v, f) /\ ~DebuggerSetsInput(v, f)
  BY DEF DebuggerSetsOutput, DebuggerSetsInput
<1> QED BY <1>2, <1>3, <1>4, <1>5, <1>6 DEF Next, vars

\* No rule's write changes the value of an output the mirror has under manual
\* override, but a call that timed out: RuleSetsValue looked at the same mirror.
THEOREM OverrideLostOnlyUnseenHolds == Spec => OverrideLostOnlyUnseen
<1> DEFINE Step == ServedFor("rule_value") /\ Manual \in server.flags
                      /\ server'.val # server.val
                      => missed \/ late > 0 \/ Manual \notin mirror.flags
<1>1. ASSUME IInv, Pending PROVE Step
  <2> SUFFICES ASSUME calls # <<>>, Head(calls).from = "rule_value", ~(late > 0)
               PROVE  Manual \notin mirror.flags
    BY DEF ServedFor
  <2>1. late = 0
    BY <1>1 DEF Pending
  <2>2. Head(calls) \in SetCalls
    BY <1>1, SeqOps, RulesWrite DEF IInv, Typed
  <2> QED BY <1>1, <2>1, <2>2, FirstIsNewest DEF Carries
<1>2. IInv /\ Pending => [Step]_vars
  BY <1>1
<1> QED BY <1>2, InvariantHolds, PendingHolds, PTL DEF OverrideLostOnlyUnseen

\* A write of the value the point has leaves the value.
LEMMA SameValue ==
    ASSUME NEW p \in Good, NEW f
    PROVE  Written(p, p.val, f).val = p.val
<1>1. /\ p \in [min : Int, max : Int, step : AllSteps, val : Int, flags : SUBSET Flags]
      /\ p.val % p.step = 0
  BY GoodFields
<1>2. RoundToStep(p.val, p.step) = p.val
  BY <1>1, Rounded
<1> QED BY <1>1, <1>2 DEF Written, SetVal, SetFlags

\* No FLAG write changes the value but while a signal is under way, or after its
\* call timed out: the mirror whose value it carries is the point.
THEOREM ValueRevertedOnlyUnseenHolds == Spec => ValueRevertedOnlyUnseen
<1> DEFINE Step == ServedFor("rule_flag") /\ server'.val # server.val
                      => missed \/ late > 0 \/ SignalUnderWay
<1>1. ASSUME IInv, Pending, [Next]_vars PROVE Step
  <2> SUFFICES ASSUME calls # <<>>, calls' = Tail(calls), Head(calls).from = "rule_flag",
                      server'.val # server.val, ~missed, ~(late > 0), ~SignalUnderWay
               PROVE  FALSE
    BY DEF ServedFor
  <2>1. late = 0 /\ Head(calls) \in CallRecords
    BY <1>1, SeqOps DEF Pending, IInv, Typed
  <2>2. Head(calls) \in SetCalls /\ Head(calls).method = "set"
    BY <2>1, RulesWrite
  <2>3. Head(calls).val = mirror.val /\ stage = "ready"
    BY <1>1, <2>1, <2>2, FirstIsNewest DEF Carries
  <2>4. Serve
    BY <1>1, OnlyServeServes
  <2>5. server' = Written(server, mirror.val, Head(calls).flags)
    BY <2>2, <2>3, <2>4 DEF Serve
  <2>6. mirror = server
    BY <1>1, <2>3, QuietMirror DEF MirrorFollows, Quiet
  <2>7. server \in Good
    BY <1>1 DEF IInv, Typed
  <2> QED BY <2>5, <2>6, <2>7, SameValue
<1>2. IInv /\ Pending /\ [Next]_vars => [Step]_vars
  BY <1>1
<1> QED BY <1>2, InvariantHolds, PendingHolds, PTL DEF Spec, ValueRevertedOnlyUnseen

-----------------------------------------------------------------------------
(***************************************************************************)
(* What signals do to a mirror that is not the point                       *)
(***************************************************************************)

\* Value, step and flags are right; a bound may not be.
Agrees(m, a) == m.val = a.val /\ m.step = a.step /\ m.flags = a.flags

\* What n signals of its own step have made of a mirror m of the point a.
Follows(n, m, a) ==
    /\ n >= 1 => Agrees(m, a)
    /\ n >= 2 => m = a

LEMMA RoundingIsMonotone ==
    ASSUME NEW x \in Int, NEW y \in Int, NEW s \in AllSteps, x <= y
    PROVE  RoundToStep(x, s) <= RoundToStep(y, s)
<1>1. PICK j \in Int : /\ RoundToStep(x, s) = j * s
                       /\ 2 * (j * s) <= 2 * x + s /\ 2 * x <= 2 * (j * s) + s
  BY Nearest
<1>2. PICK k \in Int : /\ RoundToStep(y, s) = k * s
                       /\ 2 * (k * s) <= 2 * y + s /\ 2 * y <= 2 * (k * s) + s
  BY Nearest
<1>3. j * s \in Int /\ k * s \in Int /\ s \in Int /\ s > 0
  BY <1>1, <1>2 DEF AllSteps
<1>4. CASE j <= k
  <2>1. j * s <= k * s
    BY <1>1, <1>2, <1>4 DEF AllSteps
  <2> QED BY <1>1, <1>2, <2>1
<1>5. CASE j > k
  <2>1. j * s >= k * s + s
    BY <1>1, <1>2, <1>5 DEF AllSteps
  <2>2. x = y
    BY <1>1, <1>2, <1>3, <2>1
  <2> QED BY <1>1, <1>3, <2>2
<1> QED BY <1>1, <1>2, <1>4, <1>5

\* Setting the bounds keeps the value, and asking for the step there is changes
\* nothing.
LEMMA BoundsKeep ==
    ASSUME NEW m \in Good, NEW v \in Int, NEW w \in Int
    PROVE  LET n == SetMax(SetMin(m, v), w)
           IN  /\ n \in Good /\ n.val = m.val /\ n.step = m.step
               /\ SetStep(n, m.step) = n
<1> DEFINE n == SetMax(SetMin(m, v), w)
<1>1. /\ m \in [min : Int, max : Int, step : AllSteps, val : Int, flags : SUBSET Flags]
      /\ 1 \in AllSteps /\ {} \in SUBSET Flags
  BY GoodFields DEF AllSteps
<1>2. n \in Good
  <2>1. SetMin(m, v) \in Good
    BY <1>1, SettersKeepSound DEF Good
  <2> QED BY <1>1, <2>1, SettersKeepSound DEF Good
<1>3. n.val = m.val /\ n.step = m.step
  BY <1>1 DEF SetMin, SetMax
<1> HIDE DEF n
<1>4. SetStep(n, m.step) = n
  <2>1. /\ n \in [min : Int, max : Int, step : AllSteps, val : Int, flags : SUBSET Flags]
        /\ n.min % n.step = 0 /\ n.val % n.step = 0 /\ n.max % n.step = 0
    BY <1>2, GoodFields
  <2>2. /\ RoundToStep(n.min, m.step) = n.min /\ RoundToStep(n.max, m.step) = n.max
        /\ RoundToStep(n.val, m.step) = n.val
    BY <1>3, <2>1, Rounded
  <2>3. [n EXCEPT !.min = n.min, !.max = n.max, !.val = n.val, !.step = m.step] = n
    BY <1>3, <2>1
  <2> QED BY <2>2, <2>3 DEF SetStep
<1> QED BY <1>2, <1>3, <1>4 DEF n

\* The first signal of the mirror's step: one bound may be rejected because of the
\* mirror's value, which does not keep the signal's value from being taken.
LEMMA FirstAgrees ==
    ASSUME NEW m \in Good, NEW p \in Good, p.step = m.step
    PROVE  Agrees(Handled(m, p), p)
<1> DEFINE n == SetMax(SetMin(m, p.min), p.max)
<1>1. /\ m \in [min : Int, max : Int, step : AllSteps, val : Int, flags : SUBSET Flags]
      /\ p \in [min : Int, max : Int, step : AllSteps, val : Int, flags : SUBSET Flags]
      /\ m.min <= m.val /\ m.val <= m.max /\ p.min <= p.val /\ p.val <= p.max
      /\ p.min % p.step = 0 /\ p.val % p.step = 0 /\ p.max % p.step = 0
  BY GoodFields
<1>2. /\ RoundToStep(p.min, m.step) = p.min /\ RoundToStep(p.max, m.step) = p.max
      /\ RoundToStep(p.val, m.step) = p.val
  BY <1>1, Rounded
<1>3. n \in Good /\ n.step = m.step /\ SetStep(n, p.step) = n
  BY <1>1, BoundsKeep
<1>4. n.min <= p.val /\ p.val <= n.max
  BY <1>1, <1>2 DEF SetMin, SetMax
<1>5. BoundsSet(m, p) = n
  BY <1>3 DEF BoundsSet
<1> HIDE DEF n
<1>6. n \in [min : Int, max : Int, step : AllSteps, val : Int, flags : SUBSET Flags]
  BY <1>3, GoodFields
<1>7. SetVal(n, p.val) = [n EXCEPT !.val = p.val]
  BY <1>2, <1>3, <1>4 DEF SetVal, AcceptsVal
<1>8. Handled(m, p) = [[n EXCEPT !.val = p.val] EXCEPT !.flags = p.flags]
  BY <1>5, <1>7 DEF Handled, SetFlags
<1> QED BY <1>3, <1>6, <1>8 DEF Agrees

\* A signal of another step: the mirror's value is rounded as the point's was.
LEMMA StepAgrees ==
    ASSUME NEW m \in Good, NEW a \in Good, NEW p \in Good, Agrees(m, a), Tells(a, p),
           p.step # m.step
    PROVE  Agrees(Handled(m, p), p)
<1> DEFINE n == SetMax(SetMin(m, p.min), p.max)
           q == SetStep(n, p.step)
<1>1. /\ p \in [min : Int, max : Int, step : AllSteps, val : Int, flags : SUBSET Flags]
      /\ p.val % p.step = 0
  BY GoodFields
<1>2. n \in Good /\ n.val = m.val
  BY <1>1, BoundsKeep
<1>3. BoundsSet(m, p) = q
  BY DEF BoundsSet
<1> HIDE DEF n
<1>4. /\ n \in [min : Int, max : Int, step : AllSteps, val : Int, flags : SUBSET Flags]
      /\ n.min <= n.val /\ n.val <= n.max
  BY <1>2, GoodFields
<1>5. p.val = RoundToStep(n.val, p.step)
  BY <1>2 DEF Agrees, Tells
<1>6. RoundToStep(n.min, p.step) <= p.val /\ p.val <= RoundToStep(n.max, p.step)
  BY <1>1, <1>4, <1>5, RoundingIsMonotone
<1>7. /\ q.val = p.val /\ q.step = p.step
      /\ q \in [min : Int, max : Int, step : AllSteps, val : Int, flags : SUBSET Flags]
  <2> DEFINE min == RoundToStep(n.min, p.step)
             max == RoundToStep(n.max, p.step)
  <2>1. min \in Int /\ max \in Int
    BY <1>1, <1>4, Rounded
  <2>2. q = [n EXCEPT !.min = min, !.max = max, !.val = p.val, !.step = p.step]
    BY <1>1, <1>5, <1>6 DEF SetStep, AllSteps
  <2> HIDE DEF min, max, q
  <2> QED BY <1>1, <1>4, <2>1, <2>2
<1> HIDE DEF q
<1>8. RoundToStep(p.val, q.step) = p.val
  BY <1>1, <1>7, Rounded
<1>9. SetVal(q, p.val) = q
  <2>1. [q EXCEPT !.val = p.val] = q
    BY <1>7
  <2> QED BY <1>8, <2>1 DEF SetVal
<1>10. Handled(m, p) = [q EXCEPT !.flags = p.flags]
  BY <1>3, <1>9 DEF Handled, SetFlags
<1> QED BY <1>7, <1>10 DEF Agrees

\* The second signal of the mirror's step: nothing is rejected any more.
LEMMA SecondRepairs ==
    ASSUME NEW m \in Good, NEW a \in Good, NEW p \in Good, Agrees(m, a), Tells(a, p),
           p.step = m.step
    PROVE  Handled(m, p) = p
<1> DEFINE n == SetMax(SetMin(a, p.min), p.max)
<1>1. /\ a \in [min : Int, max : Int, step : AllSteps, val : Int, flags : SUBSET Flags]
      /\ p \in [min : Int, max : Int, step : AllSteps, val : Int, flags : SUBSET Flags]
      /\ a.min <= a.val /\ a.val <= a.max
      /\ p.min % p.step = 0 /\ p.max % p.step = 0 /\ p.step = a.step
  BY GoodFields DEF Agrees
<1>2. RoundToStep(p.min, a.step) = p.min /\ RoundToStep(p.max, a.step) = p.max
  BY <1>1, Rounded
<1>3. n \in Good /\ SetStep(n, p.step) = n
  BY <1>1, BoundsKeep
<1>4. BoundsSet(a, p) = n
  BY <1>3 DEF BoundsSet
<1>5. n.min = p.min /\ n.max = p.max
  <2> HIDE DEF n
  <2>1. n \in [min : Int, max : Int, step : AllSteps, val : Int, flags : SUBSET Flags]
    BY <1>3, GoodFields
  <2>2. Handled(a, p) = SetFlags(SetVal(n, p.val), p.flags)
    BY <1>4 DEF Handled
  <2>3. Handled(a, p).min = n.min /\ Handled(a, p).max = n.max
    BY <2>1, <2>2 DEF SetFlags, SetVal
  <2> QED BY <2>3 DEF Tells
<1>6. p.min <= a.val /\ a.val <= p.max
  BY <1>1, <1>2, <1>5 DEF SetMin, SetMax
<1> QED BY <1>6, HandlesBounds DEF Agrees

\* One signal more.
LEMMA SignalFollows ==
    ASSUME NEW m \in Good, NEW a \in Good, NEW p \in Good, Tells(a, p),
           NEW n \in 0 .. 2, Follows(n, m, a)
    PROVE  LET k == IF n < 2 /\ p.step = m.step THEN n + 1 ELSE n
           IN  k \in 0 .. 2 /\ Follows(k, Handled(m, p), p)
<1>1. CASE n = 0 /\ p.step = m.step
  BY <1>1, FirstAgrees DEF Follows
<1>2. CASE n = 0 /\ p.step # m.step
  BY <1>2 DEF Follows
<1>3. CASE n = 1 /\ p.step = m.step
  <2>1. Handled(m, p) = p
    BY <1>3, SecondRepairs DEF Follows
  <2> QED BY <1>3, <2>1 DEF Follows, Agrees
<1>4. CASE n = 1 /\ p.step # m.step
  BY <1>4, StepAgrees DEF Follows
<1>5. CASE n = 2
  <2>1. Handled(m, p) = p
    BY <1>5 DEF Follows, Tells
  <2> QED BY <1>5, <2>1 DEF Follows, Agrees
<1> QED BY <1>1, <1>2, <1>3, <1>4, <1>5

-----------------------------------------------------------------------------
(***************************************************************************)
(* The snapshot comes once                                                 *)
(***************************************************************************)

Plain == Messages \ Snapshots
NoGetPoints == CallRecords \ {GetPoints}

OneSnapshot(w) ==
    \A i, j \in 1 .. Len(w) : w[i] \in Snapshots /\ w[j] \in Snapshots => i = j

\* The call for the snapshot waits to be served, the snapshot is on the wire, or it
\* is queued on the main loop; or it is lost with the service.
Asking ==
    \/ calls = <<GetPoints>> /\ wire \in Seq(Plain) /\ loop = <<>>
    \/ calls = <<>> /\ OneSnapshot(wire) /\ loop = <<>>
    \/ calls = <<>> /\ wire \in Seq(Plain) /\ Len(loop) = 1

Handshake ==
    /\ stage = "get_points" => Asking
    /\ stage # "get_points" => /\ calls \in Seq(NoGetPoints)
                               /\ wire \in Seq(Plain)
                               /\ loop \in Seq(Plain)
    /\ stage = "get_stats" => loop \in Seq({Stats})
    /\ stage # "ready" => heard = 0
    /\ heard \in 0 .. 2

LEMMA SeqOfParts ==
    ASSUME NEW S, NEW T, NEW s \in Seq(S), \A i \in 1 .. Len(s) : s[i] \in T
    PROVE  s \in Seq(T)
<1>1. Len(s) \in Nat /\ DOMAIN s = 1 .. Len(s) /\ s \in [1 .. Len(s) -> S]
  BY LenProperties
<1>2. s \in [1 .. Len(s) -> T]
  BY <1>1
<1> QED BY <1>1, <1>2

\* One message more, other than a snapshot.
LEMMA PlainGrows ==
    ASSUME NEW w \in Seq(Messages), NEW m \in Plain
    PROVE  /\ w \in Seq(Plain) => Append(w, m) \in Seq(Plain)
           /\ OneSnapshot(w) => OneSnapshot(Append(w, m))
<1>1. w \in Seq(Plain) => Append(w, m) \in Seq(Plain)
  BY SeqOps
<1>2. ASSUME OneSnapshot(w)
      PROVE  OneSnapshot(Append(w, m))
  <2> DEFINE t == Append(w, m)
  <2>1. /\ Len(w) \in Nat /\ Len(t) = Len(w) + 1 /\ t[Len(w) + 1] = m
        /\ \A i \in 1 .. Len(w) : t[i] = w[i]
    <3>1. m \in Messages
      BY DEF Plain
    <3> QED BY <3>1, AppendProperties, LenProperties
  <2> HIDE DEF t
  <2>2. \A i \in 1 .. Len(t) : t[i] \in Snapshots => i \in 1 .. Len(w) /\ w[i] \in Snapshots
    BY <2>1 DEF Plain
  <2> QED BY <1>2, <2>2 DEF OneSnapshot, t
<1> QED BY <1>1, <1>2

\* The first snapshot, and none before.
LEMMA PlainAndSnapshot ==
    ASSUME NEW w \in Seq(Plain), NEW m \in Messages
    PROVE  OneSnapshot(w) /\ OneSnapshot(Append(w, m))
<1> DEFINE t == Append(w, m)
<1>1. w \in Seq(Messages) /\ Len(w) \in Nat /\ \A i \in 1 .. Len(w) : w[i] \in Plain
  <2>1. Len(w) \in Nat /\ \A i \in 1 .. Len(w) : w[i] \in Plain
    BY LenProperties, ElementOfSeq
  <2>2. \A i \in 1 .. Len(w) : w[i] \in Messages
    BY <2>1 DEF Plain
  <2> QED BY <2>1, <2>2, SeqOfParts
<1>2. Len(t) = Len(w) + 1 /\ \A i \in 1 .. Len(w) : t[i] = w[i]
  BY <1>1, AppendProperties
<1> HIDE DEF t
<1>3. \A i \in 1 .. Len(t) : t[i] \in Snapshots => i = Len(w) + 1
  BY <1>1, <1>2 DEF Plain
<1> QED BY <1>1, <1>3 DEF OneSnapshot, Plain, t

\* One message fewer, the first.
LEMMA PlainShrinks ==
    ASSUME NEW w \in Seq(Messages), w # <<>>
    PROVE  /\ w \in Seq(Plain) => Head(w) \notin Snapshots /\ Tail(w) \in Seq(Plain)
           /\ OneSnapshot(w) => OneSnapshot(Tail(w))
           /\ OneSnapshot(w) /\ Head(w) \in Snapshots => Tail(w) \in Seq(Plain)
<1> DEFINE t == Tail(w)
<1>1. /\ t \in Seq(Messages) /\ Len(w) \in Nat \ {0} /\ Len(t) = Len(w) - 1
      /\ \A i \in 1 .. Len(t) : t[i] = w[i + 1]
      /\ Head(w) = w[1]
  BY HeadTailProperties, EmptySeq
<1>2. w \in Seq(Plain) => Head(w) \notin Snapshots /\ t \in Seq(Plain)
  <2>1. w \in Seq(Plain) => Head(w) \in Plain /\ t \in Seq(Plain)
    BY HeadTailProperties
  <2> QED BY <2>1 DEF Plain
<1> HIDE DEF t
<1>3. \A i \in 1 .. Len(t) : i + 1 \in 1 .. Len(w) /\ i + 1 # 1
  BY <1>1
<1>4. OneSnapshot(w) => OneSnapshot(t)
  <2> SUFFICES ASSUME OneSnapshot(w), NEW i \in 1 .. Len(t), NEW j \in 1 .. Len(t),
                      t[i] \in Snapshots, t[j] \in Snapshots
               PROVE  i = j
    BY DEF OneSnapshot
  <2>1. i + 1 = j + 1
    BY <1>1, <1>3 DEF OneSnapshot
  <2> QED BY <2>1
<1>5. ASSUME OneSnapshot(w), Head(w) \in Snapshots
      PROVE  t \in Seq(Plain)
  <2>1. ASSUME NEW i \in 1 .. Len(t)
        PROVE  t[i] \in Plain
    <3>1. 1 \in 1 .. Len(w) /\ t[i] \in Messages
      BY <1>1, ElementOfSeq
    <3>2. w[i + 1] \notin Snapshots
      BY <1>1, <1>3, <1>5, <3>1 DEF OneSnapshot
    <3> QED BY <1>1, <3>1, <3>2 DEF Plain
  <2> QED BY <1>1, <2>1, SeqOfParts
<1> QED BY <1>2, <1>4, <1>5 DEF t

\* The beginning of what was sent.
LEMMA PlainCut ==
    ASSUME NEW w \in Seq(Messages), NEW n \in 0 .. Len(w)
    PROVE  /\ w \in Seq(Plain) => SubSeq(w, 1, n) \in Seq(Plain)
           /\ OneSnapshot(w) => OneSnapshot(SubSeq(w, 1, n))
<1> DEFINE t == SubSeq(w, 1, n)
<1>1. /\ Len(w) \in Nat /\ n \in Nat /\ n <= Len(w)
      /\ \A i \in 1 .. n : i \in 1 .. Len(w) /\ w[i] \in Messages
  <2>1. Len(w) \in Nat
    BY LenProperties
  <2>2. \A i \in 1 .. n : i \in 1 .. Len(w)
    BY <2>1
  <2> QED BY <2>1, <2>2, ElementOfSeq
<1>2. t \in Seq(Messages) /\ Len(t) = n /\ \A i \in 1 .. n : t[i] = w[i]
  BY <1>1, SubSeqProperties
<1> HIDE DEF t
<1>3. w \in Seq(Plain) => t \in Seq(Plain)
  <2>1. w \in Seq(Plain) => \A i \in 1 .. n : w[i] \in Plain
    BY <1>1, ElementOfSeq
  <2> QED BY <1>2, <2>1, SeqOfParts
<1>4. OneSnapshot(w) => OneSnapshot(t)
  BY <1>1, <1>2 DEF OneSnapshot
<1> QED BY <1>3, <1>4 DEF t

-----------------------------------------------------------------------------
(***************************************************************************)
(* The invariant                                                           *)
(***************************************************************************)

\* While the service lives, what is on the wire leads some point to the service's;
\* once the Core listens, what is queued leads to that point one which the mirror
\* follows as closely as the signals it heard make it.
Repairing ==
    alive => \E b \in Good :
        /\ Leads(b, wire, server)
        /\ stage = "ready" =>
              \E a \in Good : Leads(a, loop, b) /\ Follows(heard, Finished, a)

RInv == IInv /\ Handshake /\ Repairing

LEMMA PlainMessages ==
    /\ Stats \in Plain /\ Done \in Plain
    /\ \A p \in Good : Signal(p) \in Plain
    /\ \A m \in Messages : m \in Snapshots <=> m.type = "snapshot"
<1>1. \A m \in Snapshots : m.type = "snapshot"
  BY MessageFields DEF Snapshots
<1>2. Stats.type = "stats" /\ Done.type = "done" /\ \A p : Signal(p).type = "signal"
  BY DEF Stats, Done, Signal
<1>3. Stats \in Messages /\ Done \in Messages /\ \A p \in Good : Signal(p) \in Messages
  BY DEF Messages, Signals
<1> QED BY <1>1, <1>2, <1>3, MessageFields DEF Plain

\* What the service tells of a change has no snapshot in it.
LEMMA ChangePlain ==
    ASSUME NEW w \in Seq(Messages), NEW p \in Good, NEW q \in Good
    PROVE  LET t == w \o SignalIfChanged(p, q)
           IN  /\ t \in Seq(Messages)
               /\ w \in Seq(Plain) => t \in Seq(Plain)
               /\ OneSnapshot(w) => OneSnapshot(t)
<1> DEFINE m == Signal(q)
<1>1. m \in Plain /\ m \in Messages
  BY PlainMessages DEF Plain
<1> HIDE DEF m
<1>2. CASE q = p
  <2>1. SignalIfChanged(p, q) = <<>> /\ w \o <<>> = w
    BY <1>1, <1>2, SeqOps DEF SignalIfChanged
  <2> QED BY <2>1
<1>3. CASE q # p
  <2>1. SignalIfChanged(p, q) = <<m>>
    BY <1>3 DEF SignalIfChanged, m
  <2>2. w \o <<m>> = Append(w, m) /\ Append(w, m) \in Seq(Messages)
    BY <1>1, SeqOps
  <2> QED BY <1>1, <2>1, <2>2, PlainGrows
<1> QED BY <1>2, <1>3

LEMMA WritePlain ==
    ASSUME NEW w \in Seq(Messages), NEW p \in Good, NEW v \in Int, NEW f \in SUBSET Flags
    PROVE  LET t == w \o WriteSignals(p, v, f)
           IN  /\ t \in Seq(Messages)
               /\ w \in Seq(Plain) => t \in Seq(Plain)
               /\ OneSnapshot(w) => OneSnapshot(t)
<1> DEFINE q == SetVal(p, v)
           r == SetFlags(q, f)
<1>1. q \in Good /\ r \in Good
  <2>1. 1 \in AllSteps
    BY DEF AllSteps
  <2>2. q \in Good
    BY <2>1, SettersKeepSound DEF Good
  <2> HIDE DEF q
  <2> QED BY <2>1, <2>2, SettersKeepSound DEF Good
<1>2. CASE AcceptsVal(p, v)
  <2>1. WriteSignals(p, v, f) = SignalIfChanged(p, q) \o SignalIfChanged(q, r)
    BY <1>2 DEF Written, WriteSignals
  <2> HIDE DEF q, r
  <2> DEFINE a == SignalIfChanged(p, q)
             b == SignalIfChanged(q, r)
             u == w \o a
  <2>2. /\ u \in Seq(Messages) /\ (w \in Seq(Plain) => u \in Seq(Plain))
        /\ OneSnapshot(w) => OneSnapshot(u)
    BY <1>1, ChangePlain
  <2> HIDE DEF u
  <2>3. /\ u \o b \in Seq(Messages) /\ (u \in Seq(Plain) => u \o b \in Seq(Plain))
        /\ OneSnapshot(u) => OneSnapshot(u \o b)
    BY <1>1, <2>2, ChangePlain
  <2>4. a \in Seq(Messages) /\ b \in Seq(Messages)
    <3>1. \A x \in Good : Signal(x) \in Messages
      BY PlainMessages DEF Plain
    <3> QED BY <1>1, <3>1 DEF SignalIfChanged
  <2> HIDE DEF a, b
  <2>5. u \o b = w \o (a \o b)
    BY <2>4, ConcatAssociative DEF u
  <2> QED BY <2>1, <2>2, <2>3, <2>5 DEF a, b
<1>3. CASE ~AcceptsVal(p, v)
  <2>1. WriteSignals(p, v, f) = <<>> /\ w \o <<>> = w
    <3>1. Stats \in Messages
      BY OtherMessages
    <3> QED BY <1>3, <3>1, SeqOps DEF WriteSignals
  <2> QED BY <2>1
<1> QED BY <1>2, <1>3

-----------------------------------------------------------------------------
(***************************************************************************)
(* The steps                                                               *)
(***************************************************************************)

\* The service changes its point.
LEMMA ServiceRepairs ==
    ASSUME RInv, IInv', UNCHANGED <<alive, stage, loop, mirror, pass, heard>>, Handshake',
           \A b : Leads(b, wire, server) => Leads(b, wire', server')
    PROVE  RInv'
<1>1. Finished' = Finished
  BY DEF Finished
<1> QED BY <1>1 DEF RInv, Repairing

LEMMA EditsRepair ==
    ASSUME RInv,
           ServiceEdits \/ \E v \in Values, f \in SUBSET Flags : OperatorWrites(v, f)
    PROVE  RInv'
<1>1. UNCHANGED <<alive, stage, loop, mirror, pass, heard, calls>>
  BY DEF ServiceEdits, OperatorWrites, coreVars
<1>2. IInv' /\ \A b : Leads(b, wire, server) => Leads(b, wire', server')
  BY ServiceEditsStep, OperatorWritesStep DEF RInv
<1>3. server \in Good /\ server' \in Good /\ wire \in Seq(Messages) /\ Values \subseteq Int
  BY <1>2, MirrorAssumption DEF RInv, IInv, Typed
<1>4. /\ wire \in Seq(Plain) => wire' \in Seq(Plain)
      /\ OneSnapshot(wire) => OneSnapshot(wire')
  <2>1. CASE ServiceEdits
    BY <1>3, <2>1, ChangePlain DEF ServiceEdits
  <2>2. ASSUME NEW v \in Values, NEW f \in SUBSET Flags, OperatorWrites(v, f)
        PROVE  /\ wire \in Seq(Plain) => wire' \in Seq(Plain)
               /\ OneSnapshot(wire) => OneSnapshot(wire')
    <3>1. wire' = wire \o WriteSignals(server, v, f) /\ v \in Int
      BY <1>3, <2>2 DEF OperatorWrites
    <3> QED BY <1>3, <3>1, WritePlain
  <2> QED BY <2>1, <2>2
<1>5. Handshake'
  BY <1>1, <1>4 DEF RInv, Handshake, Asking
<1> QED BY <1>1, <1>2, <1>5, ServiceRepairs

LEMMA ServeRepairs ==
    ASSUME RInv, Serve
    PROVE  RInv'
<1> DEFINE call == Head(calls)
<1>1. /\ UNCHANGED <<alive, stage, loop, mirror, pass, heard>>
      /\ calls # <<>> /\ calls' = Tail(calls)
      /\ \/ call.method = "get_points" /\ wire' = Append(wire, Snapshot(server))
         \/ call.method = "get_stats" /\ wire' = Append(wire, Stats)
         \/ /\ call.method = "set"
            /\ wire' = Append(wire \o WriteSignals(server, call.val, call.flags), Done)
  BY DEF Serve, coreVars
<1>2. IInv' /\ \A b : Leads(b, wire, server) => Leads(b, wire', server')
  BY ServeStep DEF RInv
<1>3. server \in Good /\ wire \in Seq(Messages) /\ calls \in Seq(CallRecords)
  BY DEF RInv, IInv, Typed
<1>4. Handshake'
  <2>1. CASE stage = "get_points"
    <3>1. calls = <<GetPoints>> /\ wire \in Seq(Plain) /\ loop = <<>>
      BY <1>1, <2>1 DEF RInv, Handshake, Asking
    <3>2. call = GetPoints /\ Tail(calls) = <<>>
      BY <3>1
    <3>3. wire' = Append(wire, Snapshot(server)) /\ calls' = <<>>
      BY <1>1, <3>2 DEF GetPoints, Call
    <3>4. OneSnapshot(wire')
      BY <1>3, <3>1, <3>3, OtherMessages, PlainAndSnapshot
    <3> QED BY <1>1, <2>1, <3>1, <3>3, <3>4 DEF RInv, Handshake, Asking
  <2>2. CASE stage # "get_points"
    <3>1. calls \in Seq(NoGetPoints) /\ wire \in Seq(Plain)
      BY <2>2 DEF RInv, Handshake
    <3>2. call \in NoGetPoints /\ calls' \in Seq(NoGetPoints)
      BY <1>1, <3>1, HeadTailProperties
    <3>3. call.method # "get_points"
      BY <3>2 DEF NoGetPoints, CallRecords, SetCalls, GetPoints, GetStats, Call
    <3>4. wire' \in Seq(Plain)
      <4>1. CASE wire' = Append(wire, Stats)
        BY <1>3, <3>1, <4>1, PlainMessages, PlainGrows
      <4>2. CASE /\ call.method = "set"
                 /\ wire' = Append(wire \o WriteSignals(server, call.val, call.flags), Done)
        <5> DEFINE w == wire \o WriteSignals(server, call.val, call.flags)
        <5>1. call.val \in Int /\ call.flags \in SUBSET Flags
          BY <3>2, <4>2, CallKinds DEF NoGetPoints
        <5>2. w \in Seq(Messages) /\ w \in Seq(Plain)
          BY <1>3, <3>1, <5>1, WritePlain
        <5>3. wire' = Append(w, Done)
          BY <4>2
        <5> HIDE DEF w
        <5> QED BY <5>2, <5>3, PlainMessages, PlainGrows
      <4> QED BY <1>1, <3>3, <4>1, <4>2
    <3> QED BY <1>1, <2>2, <3>2, <3>4 DEF RInv, Handshake
  <2> QED BY <2>1, <2>2
<1> QED BY <1>1, <1>2, <1>4, ServiceRepairs

LEMMA DeathRepairs ==
    ASSUME RInv, ServiceDies
    PROVE  RInv'
<1>1. alive' = FALSE /\ calls' = <<>> /\ UNCHANGED <<stage, loop, heard>>
  BY DEF ServiceDies, coreVars
<1>2. PICK n \in 0 .. Len(wire) : wire' = SubSeq(wire, 1, n)
  BY DEF ServiceDies
<1>3. IInv' /\ wire \in Seq(Messages)
  BY ServiceDiesStep DEF RInv, IInv, Typed
<1>4. /\ wire \in Seq(Plain) => wire' \in Seq(Plain) /\ OneSnapshot(wire')
      /\ OneSnapshot(wire) => OneSnapshot(wire')
  <2>1. /\ wire \in Seq(Plain) => wire' \in Seq(Plain)
        /\ OneSnapshot(wire) => OneSnapshot(wire')
    BY <1>2, <1>3, PlainCut
  <2> QED BY <2>1, OtherMessages, PlainAndSnapshot
<1>5. Handshake'
  BY <1>1, <1>4 DEF RInv, Handshake, Asking
<1> QED BY <1>1, <1>3, <1>5 DEF RInv, Repairing

\* A message that is queued or dropped.
LEMMA ReceiveRepairs ==
    ASSUME RInv, ReceiveSignal \/ ReceiveAnswer
    PROVE  RInv'
<1> DEFINE m == Head(wire)
<1>1. /\ UNCHANGED <<alive, server, calls, stage, mirror, heard>>
      /\ wire # <<>> /\ wire' = Tail(wire)
  BY DEF ReceiveSignal, ReceiveAnswer
<1>2. IInv' /\ Finished' = Finished
  <2>1. IInv'
    BY ReceiveSignalStep, ReceiveAnswerStep DEF RInv
  <2>2. pass'.rest = pass.rest /\ pass'.of = pass.of
    <3>1. pass \in Passes
      BY DEF RInv, IInv, Typed
    <3> QED BY <3>1 DEF ReceiveSignal, ReceiveAnswer, Passes
  <2> QED BY <1>1, <2>1, <2>2 DEF Finished
<1>3. /\ wire \in Seq(Messages) /\ loop \in Seq(Messages) /\ m \in Messages
      /\ \A b : Leads(b, wire, server) =>
            \E c \in Good : Reads(b, m, c) /\ Leads(c, wire', server)
  BY <1>1, OffTheWire DEF RInv, IInv, Typed
<1>4. /\ wire \in Seq(Plain) => m \notin Snapshots /\ wire' \in Seq(Plain)
      /\ OneSnapshot(wire) => OneSnapshot(wire')
      /\ OneSnapshot(wire) /\ m \in Snapshots => wire' \in Seq(Plain)
  BY <1>1, <1>3, PlainShrinks
<1>5. \/ /\ loop' = Append(loop, m)
         /\ \/ m.type = "signal" /\ stage = "ready"
            \/ m.type \in {"snapshot", "stats"}
      \/ loop' = loop /\ (m.type = "done" \/ stage # "ready")
  BY DEF ReceiveSignal, ReceiveAnswer, Subscribed
<1> HIDE DEF m
<1>6. Handshake'
  <2>1. CASE stage = "get_points"
    <3>1. m.type # "stats"
      <4>1. wire \in Seq(Messages \ {Stats})
        BY <2>1 DEF RInv, IInv, Phases, Cold
      <4>2. m \in Messages \ {Stats}
        BY <1>1, <4>1, HeadTailProperties DEF m
      <4> QED BY <4>2, MessageFields
    <3>2. CASE loop' = loop
      BY <1>1, <1>4, <2>1, <3>2 DEF RInv, Handshake, Asking
    <3>3. CASE loop' = Append(loop, m)
      <4>1. m \in Snapshots
        BY <1>3, <1>5, <2>1, <3>1, <3>3, PlainMessages
      <4>2. calls = <<>> /\ OneSnapshot(wire) /\ loop = <<>>
        BY <1>4, <2>1, <4>1 DEF RInv, Handshake, Asking
      <4>3. Len(loop') = 1
        BY <3>3, <4>2
      <4> QED BY <1>1, <1>4, <2>1, <4>1, <4>2, <4>3 DEF RInv, Handshake, Asking
    <3> QED BY <1>5, <3>2, <3>3
  <2>2. CASE stage # "get_points"
    <3>1. wire \in Seq(Plain) /\ loop \in Seq(Plain)
      BY <2>2 DEF RInv, Handshake
    <3>2. m \in Plain /\ wire' \in Seq(Plain)
      BY <1>3, <1>4, <3>1 DEF Plain
    <3>3. loop' \in Seq(Plain)
      <4>1. Append(loop, m) \in Seq(Plain)
        BY <3>1, <3>2, SeqOps
      <4> QED BY <1>5, <3>1, <4>1
    <3>4. ASSUME stage = "get_stats"
          PROVE  loop' \in Seq({Stats})
      <4>1. loop \in Seq({Stats})
        BY <3>4 DEF RInv, Handshake
      <4>2. CASE loop' = Append(loop, m) /\ m.type \in {"snapshot", "stats"}
        <5>1. m \in {Stats}
          BY <1>3, <3>2, <4>2, PlainMessages, MessageFields DEF Plain
        <5> QED BY <4>1, <4>2, <5>1, SeqOps
      <4> QED BY <1>5, <3>4, <4>1, <4>2
    <3> QED BY <1>1, <2>2, <3>2, <3>3, <3>4 DEF RInv, Handshake
  <2> QED BY <2>1, <2>2
<1>7. Repairing'
  <2> SUFFICES ASSUME alive
               PROVE  \E b \in Good :
                         /\ Leads(b, wire', server)
                         /\ stage = "ready" => \E a \in Good :
                               Leads(a, loop', b) /\ Follows(heard, Finished, a)
    BY <1>1, <1>2 DEF Repairing
  <2>1. PICK b \in Good :
           /\ Leads(b, wire, server)
           /\ stage = "ready" =>
                 \E a \in Good : Leads(a, loop, b) /\ Follows(heard, Finished, a)
    BY DEF RInv, Repairing
  <2>2. PICK c \in Good : Reads(b, m, c) /\ Leads(c, wire', server)
    BY <1>3, <2>1
  <2>3. ASSUME stage = "ready"
        PROVE  \E a \in Good : Leads(a, loop', c) /\ Follows(heard, Finished, a)
    <3>1. PICK a \in Good : Leads(a, loop, b) /\ Follows(heard, Finished, a)
      BY <2>1, <2>3
    <3>2. CASE loop' = Append(loop, m)
      BY <1>3, <2>2, <3>1, <3>2, LeadsFurther
    <3>3. CASE loop' = loop /\ m.type = "done"
      <4>1. c = b
        BY <2>2, <3>3 DEF Reads
      <4> QED BY <3>1, <3>3, <4>1
    <3> QED BY <1>5, <2>3, <3>2, <3>3
  <2> QED BY <2>2, <2>3
<1> QED BY <1>2, <1>6, <1>7 DEF RInv

\* The snapshot becomes the mirror.
LEMMA SnapshotRepairs ==
    ASSUME RInv, OnSnapshot
    PROVE  RInv'
<1>1. /\ UNCHANGED <<alive, server, wire, heard>> /\ stage' = "get_stats"
      /\ calls' \in {calls, Append(calls, GetStats)}
      /\ loop # <<>> /\ Head(loop).type = "snapshot" /\ loop' = Tail(loop)
  BY DEF OnSnapshot, Dispatch
<1>2. IInv' /\ loop \in Seq(Messages)
  BY OnSnapshotStep DEF RInv, IInv, Typed
<1>3. Head(loop) \in Messages /\ Head(loop) \in Snapshots
  BY <1>1, <1>2, SeqOps, PlainMessages
<1>4. stage = "get_points"
  <2>1. loop \notin Seq(Plain)
    BY <1>1, <1>2, <1>3, PlainShrinks
  <2> QED BY <2>1 DEF RInv, Handshake
<1>5. calls = <<>> /\ wire \in Seq(Plain) /\ Len(loop) = 1
  BY <1>1, <1>4 DEF RInv, Handshake, Asking
<1>6. loop' = <<>>
  <2>1. loop' \in Seq(Messages) /\ Len(loop') = 0
    BY <1>1, <1>2, <1>5, HeadTailProperties
  <2> QED BY <2>1, EmptySeq
<1>7. calls' \in Seq(NoGetPoints)
  <2>1. GetStats \in NoGetPoints
    BY DEF NoGetPoints, CallRecords, GetStats, GetPoints, Call
  <2>2. <<>> \in Seq(NoGetPoints)
    OBVIOUS
  <2>3. Append(<<>>, GetStats) \in Seq(NoGetPoints)
    BY <2>1, <2>2, SeqOps
  <2> QED BY <1>1, <1>5, <2>2, <2>3
<1>8. Handshake'
  <2>1. <<>> \in Seq(Plain) /\ <<>> \in Seq({Stats})
    OBVIOUS
  <2>2. heard' = 0 /\ 0 \in 0 .. 2
    BY <1>1, <1>4 DEF RInv, Handshake
  <2>3. wire' \in Seq(Plain) /\ loop' \in Seq(Plain) /\ loop' \in Seq({Stats})
    BY <1>1, <1>5, <1>6, <2>1
  <2>4. stage' = "get_stats"
    BY <1>1
  <2> QED BY <1>7, <2>2, <2>3, <2>4 DEF Handshake
<1> QED BY <1>1, <1>2, <1>8 DEF RInv, Repairing

\* Nothing changes by answers to other calls.
LEMMA LeadsStill ==
    ASSUME NEW s \in Seq({Stats}), NEW b \in Good
    PROVE  Leads(b, s, b)
<1> DEFINE points == [i \in 1 .. Len(s) + 1 |-> b]
<1>1. Len(s) \in Nat /\ \A i \in 1 .. Len(s) : s[i] = Stats /\ i + 1 \in 1 .. Len(s) + 1
                                               /\ i \in 1 .. Len(s) + 1
  <2>1. Len(s) \in Nat /\ \A i \in 1 .. Len(s) : s[i] \in {Stats}
    BY LenProperties, ElementOfSeq
  <2> QED BY <2>1
<1>2. /\ points \in [1 .. Len(s) + 1 -> Good]
      /\ 1 \in 1 .. Len(s) + 1 /\ Len(s) + 1 \in 1 .. Len(s) + 1
      /\ \A i \in 1 .. Len(s) + 1 : points[i] = b
  BY <1>1
<1> HIDE DEF points
<1>3. Reads(b, Stats, b)
  BY OtherMessages
<1>4. ReadingOf(points, s)
  BY <1>1, <1>2, <1>3 DEF ReadingOf
<1> QED BY <1>2, <1>4 DEF Leads

\* The Core listens; the mirror may be any point by now.
LEMMA StatsRepairs ==
    ASSUME RInv, OnStats
    PROVE  RInv'
<1>1. /\ UNCHANGED <<alive, server, wire, calls, mirror, heard>> /\ stage' = "ready"
      /\ pass' = Rules("none", None)
  BY DEF OnStats
<1>2. loop # <<>> /\ Head(loop).type = "stats" /\ loop' = Tail(loop) /\ Dispatch("stats")
  BY DEF OnStats, Dispatch
<1>3. IInv' /\ loop \in Seq(Messages) /\ stage # "get_points" /\ Finished = mirror
  BY <1>2, OnStatsStep, Dispatched DEF RInv, IInv, Typed
<1>4. Finished' = mirror
  BY <1>1, PassFields DEF Finished, Finish
<1>5. loop' \in Seq(Plain)
  BY <1>2, <1>3, PlainShrinks DEF RInv, Handshake
<1>6. Handshake'
  BY <1>1, <1>3, <1>5 DEF RInv, Handshake
<1>7. Repairing'
  <2> SUFFICES ASSUME alive
               PROVE  \E b \in Good : /\ Leads(b, wire, server)
                                      /\ \E a \in Good : /\ Leads(a, loop', b)
                                                         /\ Follows(heard, mirror, a)
    BY <1>1, <1>4 DEF Repairing
  <2>1. PICK b \in Good :
           /\ Leads(b, wire, server)
           /\ stage = "ready" =>
                 \E a \in Good : Leads(a, loop, b) /\ Follows(heard, mirror, a)
    BY <1>3 DEF RInv, Repairing
  <2>2. CASE stage = "ready"
    <3>1. PICK a \in Good : Leads(a, loop, b) /\ Follows(heard, mirror, a)
      BY <2>1, <2>2
    <3>2. PICK c \in Good : Reads(a, Head(loop), c) /\ Leads(c, loop', b)
      BY <1>2, <1>3, <3>1, LeadsHead
    <3>3. c = a
      BY <1>2, <3>2 DEF Reads
    <3> QED BY <2>1, <3>1, <3>2, <3>3
  <2>3. CASE stage = "get_stats"
    <3>1. loop' \in Seq({Stats}) /\ heard = 0
      <4>1. loop \in Seq({Stats}) /\ heard = 0
        BY <2>3 DEF RInv, Handshake
      <4> QED BY <1>2, <4>1, SeqOps
    <3>2. Leads(b, loop', b) /\ Follows(heard, mirror, b)
      BY <3>1, LeadsStill DEF Follows
    <3> QED BY <2>1, <3>2
  <2>4. stage \in {"get_points", "get_stats", "ready"}
    BY DEF RInv, IInv, Typed
  <2> QED BY <1>3, <2>2, <2>3, <2>4
<1> QED BY <1>3, <1>6, <1>7 DEF RInv

\* A signal is handled.
LEMMA SignalRepairs ==
    ASSUME RInv, OnSignal
    PROVE  RInv'
<1> DEFINE p == Head(loop).point
<1>1. /\ UNCHANGED <<alive, server, wire, calls, stage>>
      /\ heard' = IF heard < 2 /\ p.step = mirror.step THEN heard + 1 ELSE heard
  BY DEF OnSignal
<1>2. loop # <<>> /\ Head(loop).type = "signal" /\ loop' = Tail(loop) /\ Dispatch("signal")
  BY DEF OnSignal, Dispatch
<1>3. /\ IInv' /\ Finished' = Handled(mirror, p)
      /\ loop \in Seq(Messages) /\ Head(loop) \in Messages
      /\ stage # "get_points" /\ Finished = mirror /\ mirror \in Good
  BY <1>2, OnSignalStep, Dispatched DEF RInv, IInv, Typed, Phases
<1>4. stage = "ready"
  <2>1. stage # "get_stats"
    <3>1. loop \in Seq({Stats}) => Head(loop) \in {Stats}
      BY <1>2, SeqOps
    <3>2. Head(loop) # Stats
      BY <1>2, <1>3, MessageFields
    <3> QED BY <3>1, <3>2 DEF RInv, Handshake
  <2> QED BY <1>3, <2>1 DEF RInv, IInv, Typed
<1>5. p \in Good /\ heard \in 0 .. 2
  BY <1>2, <1>3, MessageFields DEF RInv, Handshake
<1> HIDE DEF p
<1>6. heard' \in 0 .. 2
  BY <1>1, <1>5
<1>7. Handshake'
  <2>1. loop' \in Seq(Plain)
    BY <1>2, <1>3, PlainShrinks DEF RInv, Handshake
  <2> QED BY <1>1, <1>4, <1>6, <2>1 DEF RInv, Handshake
<1>8. Repairing'
  <2> SUFFICES ASSUME alive
               PROVE  \E b \in Good :
                         /\ Leads(b, wire, server)
                         /\ \E a \in Good : /\ Leads(a, loop', b)
                                            /\ Follows(heard', Handled(mirror, p), a)
    BY <1>1, <1>3 DEF Repairing
  <2>1. PICK a \in Good, b \in Good :
           Leads(b, wire, server) /\ Leads(a, loop, b) /\ Follows(heard, mirror, a)
    BY <1>3, <1>4 DEF RInv, Repairing
  <2>2. PICK c \in Good : Reads(a, Head(loop), c) /\ Leads(c, loop', b)
    BY <1>2, <1>3, <2>1, LeadsHead
  <2>3. c = p /\ Tells(a, p)
    BY <1>2, <2>2 DEF Reads, p
  <2>4. Follows(heard', Handled(mirror, p), p)
    BY <1>1, <1>3, <1>5, <2>1, <2>3, SignalFollows
  <2> QED BY <2>1, <2>2, <2>3, <2>4
<1> QED BY <1>3, <1>7, <1>8 DEF RInv

\* A step of the main loop that reads no message.
LEMMA CoreRepairs ==
    ASSUME RInv, IInv' /\ Finished' = Finished,
           UNCHANGED <<alive, server, wire, loop, stage, heard>>,
           calls' = calls \/ (stage = "ready" /\ calls' \in Seq(NoGetPoints))
    PROVE  RInv'
<1>1. Handshake'
  BY DEF RInv, Handshake, Asking
<1>2. Repairing'
  BY DEF RInv, Repairing
<1> QED BY <1>1, <1>2 DEF RInv

LEMMA PassRepairs ==
    ASSUME RInv, CallTimesOut \/ EndPass \/ OtherPointChanges
    PROVE  RInv'
<1>1. IInv' /\ Finished' = Finished
  BY CallTimesOutStep, EndPassStep, OtherPointChangesStep DEF RInv
<1>2. UNCHANGED <<alive, server, wire, loop, stage, heard, calls>>
  BY DEF CallTimesOut, EndPass, OtherPointChanges
<1> QED BY <1>1, <1>2, CoreRepairs

LEMMA WriteRepairs ==
    ASSUME RInv,
           \/ \E v \in Values : RuleSetsValue(v)
           \/ \E f \in SUBSET Flags : RuleSetsFlag(f)
           \/ \E v \in Values, f \in SUBSET Flags : DebuggerSetsOutput(v, f)
    PROVE  RInv'
<1>1. IInv' /\ Finished' = Finished
  BY RuleSetsValueStep, RuleSetsFlagStep, DebuggerSetsOutputStep DEF RInv
<1>2. PICK from, v, f :
         calls' = Append(calls, Call("set", from, v, f))
  BY DEF RuleSetsValue, RuleSetsFlag, DebuggerSetsOutput, Write
<1>3. UNCHANGED <<alive, server, wire, loop, stage, heard>> /\ stage = "ready"
  BY DEF RuleSetsValue, RuleSetsFlag, DebuggerSetsOutput, Write
<1>4. calls' \in Seq(NoGetPoints)
  <2> DEFINE c == Call("set", from, v, f)
  <2>1. calls \in Seq(CallRecords) /\ calls' \in Seq(CallRecords)
    BY <1>1 DEF RInv, IInv, Typed
  <2>2. calls \in Seq(NoGetPoints)
    BY <1>3 DEF RInv, Handshake
  <2>3. c # GetPoints
    BY DEF Call, GetPoints
  <2>4. c \in CallRecords
    <3> HIDE DEF c
    <3>1. Len(calls') = Len(calls) + 1 /\ calls'[Len(calls) + 1] = c /\ Len(calls) \in Nat
      BY <1>2, <2>1 DEF c
    <3>2. Len(calls) + 1 \in 1 .. Len(calls')
      BY <3>1
    <3> QED BY <2>1, <3>1, <3>2, ElementOfSeq
  <2>5. c \in NoGetPoints
    BY <2>3, <2>4 DEF NoGetPoints
  <2>6. Append(calls, c) \in Seq(NoGetPoints)
    BY <2>2, <2>5, SeqOps
  <2> QED BY <1>2, <2>6
<1> QED BY <1>1, <1>3, <1>4, CoreRepairs

\* The debugger makes the mirror another point, and the count starts anew.
LEMMA DebuggerRepairs ==
    ASSUME RInv, NEW v \in Values, NEW f \in SUBSET Flags, DebuggerSetsInput(v, f)
    PROVE  RInv'
<1>1. /\ UNCHANGED <<alive, server, wire, loop, stage, calls>>
      /\ stage = "ready" /\ heard' = 0
  BY DEF DebuggerSetsInput
<1>2. IInv'
  BY DebuggerSetsInputStep DEF RInv
<1>3. Handshake'
  BY <1>1 DEF RInv, Handshake
<1>4. Repairing'
  BY <1>1 DEF RInv, Repairing, Follows
<1> QED BY <1>2, <1>3, <1>4 DEF RInv

-----------------------------------------------------------------------------
(***************************************************************************)
(* The theorem                                                             *)
(***************************************************************************)

LEMMA InitRInv == Init => RInv
<1> SUFFICES ASSUME Init PROVE RInv
  OBVIOUS
<1>1. /\ server \in InitialPoints /\ calls = <<GetPoints>> /\ wire = <<>> /\ loop = <<>>
      /\ stage = "get_points" /\ heard = 0
  BY DEF Init
<1>2. Handshake
  <2>1. <<>> \in Seq(Plain)
    OBVIOUS
  <2> QED BY <1>1, <2>1 DEF Handshake, Asking
<1>3. IInv /\ server \in Good
  BY InitIInv DEF IInv, Typed
<1>4. Repairing
  BY <1>1, <1>3, LeadsNowhere DEF Repairing
<1> QED BY <1>2, <1>3, <1>4 DEF RInv

LEMMA NextRInv == RInv /\ [Next]_vars => RInv'
<1> SUFFICES ASSUME RInv, [Next]_vars PROVE RInv'
  OBVIOUS
<1>1. CASE UNCHANGED vars
  <2>1. IInv' /\ Finished' = Finished
    BY <1>1, NextIInv DEF RInv, vars, Finished
  <2>2. UNCHANGED <<alive, server, wire, loop, stage, heard, calls>>
    BY <1>1 DEF vars
  <2> QED BY <2>1, <2>2, CoreRepairs
<1>2. CASE ServiceEdits \/ \E v \in Values, f \in SUBSET Flags : OperatorWrites(v, f)
  BY <1>2, EditsRepair
<1>3. CASE Serve
  BY <1>3, ServeRepairs
<1>4. CASE ServiceDies
  BY <1>4, DeathRepairs
<1>5. CASE ReceiveSignal \/ ReceiveAnswer
  BY <1>5, ReceiveRepairs
<1>6. CASE OnSnapshot
  BY <1>6, SnapshotRepairs
<1>7. CASE OnStats
  BY <1>7, StatsRepairs
<1>8. CASE OnSignal
  BY <1>8, SignalRepairs
<1>9. CASE CallTimesOut \/ EndPass \/ OtherPointChanges
  BY <1>9, PassRepairs
<1>10. CASE \/ \E v \in Values : RuleSetsValue(v)
            \/ \E f \in SUBSET Flags : RuleSetsFlag(f)
            \/ \E v \in Values, f \in SUBSET Flags : DebuggerSetsOutput(v, f)
  BY <1>10, WriteRepairs
<1>11. ASSUME NEW v \in Values, NEW f \in SUBSET Flags, DebuggerSetsInput(v, f)
       PROVE  RInv'
  BY <1>11, DebuggerRepairs
<1> QED BY <1>1, <1>2, <1>3, <1>4, <1>5, <1>6, <1>7, <1>8, <1>9, <1>10, <1>11 DEF Next

\* The invariant of a mirror that may have missed something holds throughout: the
\* snapshot comes once, and what the mirror heard since leads it back to the point.
THEOREM RepairInvariantHolds == Spec => []RInv
  BY InitRInv, NextRInv, PTL DEF Spec

\* Whatever change a mirror missed, after two signals that do not change its step
\* it is the service's point whenever no signal is under way.
THEOREM TwoSignalsRepairHolds == Spec => []TwoSignalsRepair
<1>1. ASSUME RInv PROVE TwoSignalsRepair
  <2> SUFFICES ASSUME alive, Quiet, heard >= 2 PROVE mirror = server
    BY DEF TwoSignalsRepair
  <2>1. /\ stage = "ready" /\ pass.rest = "none"
        /\ \A i \in DOMAIN wire : wire[i].type # "signal"
        /\ \A i \in DOMAIN loop : loop[i].type # "signal"
    BY DEF Quiet, SignalUnderWay
  <2>2. PICK a \in Good, b \in Good :
           Leads(b, wire, server) /\ Leads(a, loop, b) /\ Follows(heard, Finished, a)
    BY <1>1, <2>1 DEF RInv, Repairing
  <2>3. Finished = mirror
    BY <2>1 DEF Finished, Finish
  <2>4. wire \in Seq(Messages) /\ loop \in Seq(Messages)
    BY <1>1 DEF RInv, IInv, Typed
  <2>5. a = b /\ b = server
    BY <2>1, <2>2, <2>4, LeadsQuietly
  <2> QED BY <2>2, <2>3, <2>5 DEF Follows
<1> QED BY <1>1, RepairInvariantHolds, PTL

-----------------------------------------------------------------------------
(***************************************************************************)
(* The way back to the main loop                                           *)
(***************************************************************************)

\* What the passes to come after the one at hand may still take.
Behind(rest) ==
    CASE rest = "val"   -> 4 * MaxWrites + 4
      [] rest = "flags" -> 2 * MaxWrites + 2
      [] OTHER          -> 0

\* What the main loop has still to do before it is free: each write is made and
\* answered, or given up.
Work(p) ==
    IF p.at = "idle" THEN 0
    ELSE Behind(p.rest) + 2 * p.left + (IF p.at = "calling" THEN 2 ELSE 1)

MostWork == 6 * MaxWrites + 6

WritesLeft == pass.left \in 0 .. MaxWrites

\* The work is a number, and none is left just when the main loop is free.
LEMMA WorkIsFinite ==
    ASSUME NEW p \in Passes, p.left \in 0 .. MaxWrites
    PROVE  Work(p) \in 0 .. MostWork /\ (Work(p) = 0 <=> p.at = "idle")
<1>1. MaxWrites \in Nat /\ p.left \in Nat /\ p.left <= MaxWrites
  BY MirrorAssumption
<1>2. Behind(p.rest) \in 0 .. 4 * MaxWrites + 4
  BY <1>1 DEF Behind
<1> QED BY <1>1, <1>2 DEF Work, MostWork

\* The work of the passes that begin.
LEMMA WorkBegins ==
    /\ Work(Idle) = 0 /\ Idle.left = 0
    /\ \A rest \in {"none", "val", "flags"} : \A p :
          /\ Work(Rules(rest, p)) = Behind(rest) + 2 * MaxWrites + 1
          /\ Rules(rest, p).left = MaxWrites
<1>1. MaxWrites \in Nat
  BY MirrorAssumption
<1>2. Work(Idle) = 0 /\ Idle.left = 0
  BY DEF Work, Idle
<1>3. ASSUME NEW rest \in {"none", "val", "flags"}, NEW p
      PROVE  /\ Work(Rules(rest, p)) = Behind(rest) + 2 * MaxWrites + 1
             /\ Rules(rest, p).left = MaxWrites
  <2>1. /\ Rules(rest, p).at = "rules" /\ Rules(rest, p).rest = rest
        /\ Rules(rest, p).left = MaxWrites
    BY DEF Rules
  <2> QED BY <2>1 DEF Work
<1> QED BY <1>2, <1>3

\* A pass that ends is followed by one with less behind it, or by none.
LEMMA EndPassWorks ==
    ASSUME IInv, WritesLeft, EndPass
    PROVE  WritesLeft' /\ Work(pass') < Work(pass)
<1>1. /\ pass.at = "rules" /\ MaxWrites \in Nat /\ pass.left \in Nat
      /\ pass.rest \in {"none", "val", "flags"}
  BY MirrorAssumption DEF EndPass, WritesLeft, IInv, Typed, Passes
<1>2. Work(pass) = Behind(pass.rest) + 2 * pass.left + 1
  BY <1>1 DEF Work
<1>3. \/ pass' = Idle
      \/ pass.rest = "val" /\ pass' = Rules("flags", pass.of)
  BY DEF EndPass, ValSet
<1>4. CASE pass' = Idle
  <2>1. Behind(pass.rest) >= 0 /\ Behind(pass.rest) \in Int
    BY <1>1 DEF Behind
  <2>2. 0 < Work(pass)
    BY <1>1, <1>2, <2>1
  <2>3. pass'.left = 0 /\ Work(pass') = 0
    BY <1>4, WorkBegins
  <2> QED BY <1>1, <2>2, <2>3 DEF WritesLeft
<1>5. CASE pass.rest = "val" /\ pass' = Rules("flags", pass.of)
  <2>1. Behind("val") = 4 * MaxWrites + 4 /\ Behind("flags") = 2 * MaxWrites + 2
    BY DEF Behind
  <2>2. pass'.left = MaxWrites /\ Work(pass') = Behind("flags") + 2 * MaxWrites + 1
    BY <1>5, WorkBegins
  <2>3. Work(pass') < Work(pass)
    BY <1>1, <1>2, <1>5, <2>1, <2>2
  <2> QED BY <1>1, <2>2, <2>3 DEF WritesLeft
<1> QED BY <1>3, <1>4, <1>5

\* A call that ends, answered or not, gives the pass back to the rules.
LEMMA CallEndsWorks ==
    ASSUME IInv, WritesLeft, pass.at = "calling", pass' = [pass EXCEPT !.at = "rules"]
    PROVE  WritesLeft' /\ Work(pass') < Work(pass)
<1>1. pass \in Passes /\ MaxWrites \in Nat /\ pass.left \in Nat
  BY MirrorAssumption DEF IInv, Typed, WritesLeft
<1>2. pass'.at = "rules" /\ pass'.left = pass.left /\ pass'.rest = pass.rest
  BY <1>1 DEF Passes
<1>3. Behind(pass.rest) \in Int
  BY <1>1 DEF Behind
<1>4. Work(pass') < Work(pass)
  <2>1. Work(pass) = Behind(pass.rest) + 2 * pass.left + 2
    BY DEF Work
  <2>2. Work(pass') = Behind(pass.rest) + 2 * pass.left + 1
    BY <1>2 DEF Work
  <2> QED BY <1>1, <1>3, <2>1, <2>2
<1> QED BY <1>2, <1>4 DEF WritesLeft

\* An answer of a write that the Core has not given up is one it waits for.
LEMMA AnswerAwaited ==
    ASSUME IInv, Pending, late = 0, wire # <<>>, Head(wire).type = "done"
    PROVE  pass.at = "calling"
<1>1. wire \in Seq(Messages)
  BY DEF IInv, Typed
<1>2. Head(wire) \in {Done}
  BY <1>1, SeqOps, MessageFields
<1>3. PICK a \in Nat, b \in Nat : AtMost(b, wire, {Done}) /\ a + b <= late + Waiting
  BY DEF Pending
<1>4. b >= 1
  BY <1>1, <1>2, <1>3, AtMostBehind
<1>5. Waiting # 0
  BY <1>3, <1>4 DEF Waiting
<1> QED BY <1>5 DEF Waiting

\* A write of the rules costs the pass one of those it has left.
LEMMA WriteWorks ==
    ASSUME IInv, WritesLeft, NEW from, NEW val, NEW flags, Write(from, val, flags)
    PROVE  WritesLeft' /\ Work(pass') < Work(pass)
<1>1. /\ pass \in Passes /\ MaxWrites \in Nat /\ pass.left \in Nat
      /\ pass.left > 0 /\ pass.left <= MaxWrites /\ pass.at = "rules"
  BY MirrorAssumption DEF IInv, Typed, WritesLeft, Write
<1>2. /\ pass'.at = "calling" /\ pass'.left = pass.left - 1 /\ pass'.rest = pass.rest
  <2>1. PICK left : left = pass.left - 1
    OBVIOUS
  <2>2. pass' = [pass EXCEPT !.at = "calling", !.left = left]
    BY <2>1 DEF Write
  <2> QED BY <1>1, <2>1, <2>2 DEF Passes
<1>3. Behind(pass.rest) \in Int
  BY <1>1 DEF Behind
<1>4. Work(pass') < Work(pass)
  <2>1. Work(pass) = Behind(pass.rest) + 2 * pass.left + 1
    BY <1>1 DEF Work
  <2>2. Work(pass') = Behind(pass.rest) + 2 * (pass.left - 1) + 2
    BY <1>2 DEF Work
  <2> QED BY <1>1, <1>3, <2>1, <2>2
<1>5. pass.left - 1 \in 0 .. MaxWrites
  BY <1>1
<1> QED BY <1>2, <1>4, <1>5 DEF WritesLeft

\* The debugger sets an input of the mirror as a signal would.
LEMMA InputSetWorks ==
    ASSUME NEW v, NEW f, DebuggerSetsInput(v, f)
    PROVE  pass.at = "idle" /\ \E p : ValSet(mirror, p)
<1> DEFINE p == [mirror EXCEPT !.val = v, !.flags = f]
<1>1. pass.at = "idle" /\ ValSet(mirror, p)
  BY DEF DebuggerSetsInput
<1> HIDE DEF p
<1> QED BY <1>1

\* What sets the main loop to work.
LEMMA BeginsWork ==
    ASSUME WritesLeft,
           \/ OnSnapshot \/ OnStats \/ OnSignal \/ OtherPointChanges
           \/ \E v \in Values, f \in SUBSET Flags : DebuggerSetsOutput(v, f)
           \/ \E v \in Values, f \in SUBSET Flags : DebuggerSetsInput(v, f)
    PROVE  pass.at = "idle" /\ WritesLeft'
<1>1. pass.at = "idle"
  <2>1. OnSnapshot \/ OnStats \/ OnSignal \/ OtherPointChanges => pass.at = "idle"
    BY DEF OnSnapshot, OnStats, OnSignal, OtherPointChanges, Dispatch
  <2>2. ASSUME NEW v \in Values, NEW f \in SUBSET Flags,
               DebuggerSetsOutput(v, f) \/ DebuggerSetsInput(v, f)
        PROVE  pass.at = "idle"
    BY <2>2, InputSetWorks DEF DebuggerSetsOutput
  <2> QED BY <2>1, <2>2
<1>2. \/ pass' = pass \/ pass' = Idle \/ pass' = [Idle EXCEPT !.at = "calling"]
      \/ \E rest \in {"none", "val", "flags"} : \E p : pass' = Rules(rest, p)
  <2>1. CASE OnSnapshot
    BY <2>1 DEF OnSnapshot
  <2>2. CASE OnStats \/ OtherPointChanges
    BY <2>2 DEF OnStats, OtherPointChanges
  <2>3. CASE OnSignal
    BY <2>3 DEF OnSignal, ValSet
  <2>4. CASE \E v \in Values, f \in SUBSET Flags : DebuggerSetsOutput(v, f)
    BY <2>4 DEF DebuggerSetsOutput
  <2>5. CASE \E v \in Values, f \in SUBSET Flags : DebuggerSetsInput(v, f)
    <3>1. PICK p : ValSet(mirror, p)
      BY <2>5, InputSetWorks
    <3> QED BY <3>1 DEF ValSet
  <2> QED BY <2>1, <2>2, <2>3, <2>4, <2>5
<1>3. pass'.left \in {pass.left, 0, MaxWrites}
  <2>1. [Idle EXCEPT !.at = "calling"].left = 0
    BY DEF Idle
  <2> QED BY <1>2, <2>1, WorkBegins
<1>4. MaxWrites \in Nat
  BY MirrorAssumption
<1> QED BY <1>1, <1>3, <1>4 DEF WritesLeft

\* No step prolongs a pass under way, and the end of a pass and of a call shorten it.
LEMMA StepWorks ==
    ASSUME IInv, Pending, WritesLeft, [Next]_vars
    PROVE  /\ WritesLeft'
           /\ pass.at # "idle" => UNCHANGED pass \/ Work(pass') < Work(pass)
           /\ CallTimesOut \/ EndPass => Work(pass') < Work(pass)
<1>1. EndPass => WritesLeft' /\ Work(pass') < Work(pass)
  BY EndPassWorks
<1>2. CallTimesOut => WritesLeft' /\ Work(pass') < Work(pass)
  BY CallEndsWorks DEF CallTimesOut
<1>3. ASSUME UNCHANGED pass
      PROVE  WritesLeft'
  BY <1>3 DEF WritesLeft
<1>4. CASE \/ ServiceEdits \/ Serve \/ ServiceDies \/ ReceiveSignal \/ UNCHANGED vars
           \/ \E v \in Values, f \in SUBSET Flags : OperatorWrites(v, f)
  <2>1. UNCHANGED pass
    BY <1>4 DEF ServiceEdits, Serve, ServiceDies, ReceiveSignal, OperatorWrites, coreVars, vars
  <2> QED BY <1>1, <1>2, <1>3, <2>1
<1>5. CASE ReceiveAnswer
  <2>1. CASE UNCHANGED pass
    BY <1>1, <1>2, <1>3, <2>1
  <2>2. CASE ~UNCHANGED pass
    <3>1. /\ wire # <<>> /\ Head(wire).type = "done" /\ late = 0
          /\ pass' = [pass EXCEPT !.at = "rules"]
      BY <1>5, <2>2 DEF ReceiveAnswer
    <3>2. pass.at = "calling"
      BY <3>1, AnswerAwaited
    <3> QED BY <3>1, <3>2, CallEndsWorks
  <2> QED BY <2>1, <2>2
<1>6. CASE \/ \E v \in Values : RuleSetsValue(v)
           \/ \E f \in SUBSET Flags : RuleSetsFlag(f)
  <2>1. PICK from, val, flags : Write(from, val, flags)
    BY <1>6 DEF RuleSetsValue, RuleSetsFlag
  <2> QED BY <2>1, WriteWorks
<1>7. CASE \/ OnSnapshot \/ OnStats \/ OnSignal \/ OtherPointChanges
           \/ \E v \in Values, f \in SUBSET Flags : DebuggerSetsOutput(v, f)
           \/ \E v \in Values, f \in SUBSET Flags : DebuggerSetsInput(v, f)
  <2>1. pass.at = "idle" /\ WritesLeft'
    BY <1>7, BeginsWork
  <2>2. ~CallTimesOut /\ ~EndPass
    BY <2>1 DEF CallTimesOut, EndPass
  <2> QED BY <2>1, <2>2
<1>8. CASE CallTimesOut \/ EndPass
  BY <1>1, <1>2, <1>8
<1> QED BY <1>4, <1>5, <1>6, <1>7, <1>8 DEF Next

(* The safety half of LoopReturns, for any number of writes a pass may make: while
   the main loop is in a callback (lib/client.c, engine_apply), whatever the service,
   the worker thread and the timeouts do, the work it has left is a number that no
   step raises and that the steps the fairness drives, the end of a pass and the end
   of a call nobody answers, lower; it is zero just when the loop is free. *)
THEOREM WorkGoesDownHolds ==
    Spec => /\ [](Work(pass) \in 0 .. MostWork /\ (Work(pass) = 0 <=> pass.at = "idle"))
            /\ [][/\ pass.at # "idle" => UNCHANGED pass \/ Work(pass') < Work(pass)
                  /\ CallTimesOut \/ EndPass => Work(pass') < Work(pass)]_vars
<1>1. Init => WritesLeft
  BY WorkBegins, MirrorAssumption DEF Init, WritesLeft
<1>2. IInv /\ Pending /\ WritesLeft /\ [Next]_vars => WritesLeft'
  BY StepWorks
<1>3. IInv /\ WritesLeft =>
         Work(pass) \in 0 .. MostWork /\ (Work(pass) = 0 <=> pass.at = "idle")
  BY WorkIsFinite DEF IInv, Typed, WritesLeft
<1>4. IInv /\ Pending /\ WritesLeft /\ [Next]_vars =>
         [/\ pass.at # "idle" => UNCHANGED pass \/ Work(pass') < Work(pass)
          /\ CallTimesOut \/ EndPass => Work(pass') < Work(pass)]_vars
  BY StepWorks
<1> QED BY <1>1, <1>2, <1>3, <1>4, InvariantHolds, PendingHolds, PTL DEF Spec
=============================================================================
