----------------------------- MODULE FrameTime -----------------------------
(***************************************************************************)
(* Frame numbers and times of the TDMA clock (GSMCommon.cpp, GSMCommon.h). *)
(* They are counted modulo the hyperframe of some three and a half hours,  *)
(* so "earlier" is not an order; the theorems say how far apart two times  *)
(* may be for the comparisons to mean what they look like.  Nothing here   *)
(* leaves the range of int32_t: a frame number is below the hyperframe,    *)
(* and the steps that are added are too.                                   *)
(***************************************************************************)
EXTENDS Integers, TLAPS

gHyperframe == 2048 * 26 * 51
halfModulus == gHyperframe \div 2

FN == 0 .. gHyperframe - 1
TN == 0 .. 7
Time == [fn : FN, tn : TN]

FNDelta(v1, v2) ==
    LET delta == v1 - v2 IN
    IF delta >= halfModulus THEN delta - gHyperframe
    ELSE IF delta < -halfModulus THEN delta + gHyperframe ELSE delta

FNCompare(v1, v2) ==
    LET delta == FNDelta(v1, v2) IN
    IF delta > 0 THEN 1 ELSE IF delta < 0 THEN -1 ELSE 0

\* operator<, and the operator+= that adds frames, backwards too.
earlier(t, u) == IF t.fn = u.fn THEN t.tn < u.tn ELSE FNCompare(t.fn, u.fn) < 0
addFrames(v, step) == (IF v + step < 0 THEN v + step + gHyperframe ELSE v + step) % gHyperframe

incTN(t, step) ==
    IF t.tn + step > 7
    THEN [fn |-> (t.fn + 1) % gHyperframe, tn |-> t.tn + step - 8]
    ELSE [t EXCEPT !.tn = @ + step]
decTN(t, step) ==
    IF t.tn - step < 0
    THEN [fn |-> IF t.fn = 0 THEN gHyperframe - 1 ELSE t.fn - 1, tn |-> t.tn - step + 8]
    ELSE [t EXCEPT !.tn = @ - step]

-----------------------------------------------------------------------------
LEMMA Hyperframe ==
    halfModulus \in Nat /\ halfModulus > 8 /\ gHyperframe = 2 * halfModulus
  BY SMT DEF gHyperframe, halfModulus

LEMMA Wraps ==
    ASSUME NEW v \in FN
    PROVE  v % gHyperframe = v /\ (v + gHyperframe) % gHyperframe = v
<1>1. v \in Int /\ 0 <= v /\ v < 2048 * 26 * 51
  <2>1. v \in Int /\ 0 <= v /\ v < gHyperframe BY Hyperframe, SMT DEF FN
  <2> QED BY <2>1, SMT DEF gHyperframe
<1>2. v % (2048 * 26 * 51) = v BY <1>1, SMT
<1>3. (v + 2048 * 26 * 51) % (2048 * 26 * 51) = v BY <1>1, SMT
<1> QED BY <1>2, <1>3, SMT DEF gHyperframe

\* The difference of two frame numbers is the one of least magnitude that is congruent to
\* it; of the two that half a hyperframe allows it is the negative one (FNDelta).
THEOREM DeltaIsNearest ==
    ASSUME NEW v1 \in FN, NEW v2 \in FN
    PROVE  /\ FNDelta(v1, v2) \in -halfModulus .. halfModulus - 1
           /\ v1 - v2 - FNDelta(v1, v2) \in {-gHyperframe, 0, gHyperframe}
<1>1. v1 - v2 \in Int /\ v1 - v2 > -gHyperframe /\ v1 - v2 < gHyperframe
  BY Hyperframe DEF FN
<1> QED BY <1>1, Hyperframe DEF FNDelta

\* A frame number to which a step of less than half a hyperframe was added differs by just
\* that step, wherever the clock wraps (operator+= and operator-).
THEOREM DeltaUndoesStep ==
    ASSUME NEW v \in FN, NEW step \in -halfModulus .. halfModulus - 1
    PROVE  addFrames(v, step) \in FN /\ FNDelta(addFrames(v, step), v) = step
<1> DEFINE w == addFrames(v, step)
<1>1. w \in FN /\ w - v - step \in {-gHyperframe, 0, gHyperframe}
  <2>1. v \in Int /\ v >= 0 /\ v < gHyperframe /\ step \in Int BY Hyperframe DEF FN
  <2>2. CASE v + step < 0
    <3>1. v + step + gHyperframe \in FN BY <2>1, <2>2, Hyperframe DEF FN
    <3>2. w = v + step + gHyperframe BY <2>2, <3>1, Wraps DEF addFrames
    <3> HIDE DEF w
    <3> QED BY <2>1, <3>1, <3>2, Hyperframe
  <2>3. CASE v + step \in FN
    <3>1. w = v + step BY <2>1, <2>3, Wraps, Hyperframe DEF addFrames, FN
    <3> HIDE DEF w
    <3> QED BY <2>1, <2>3, <3>1, Hyperframe
  <2>4. CASE v + step >= gHyperframe
    <3>1. v + step - gHyperframe \in FN BY <2>1, <2>4, Hyperframe DEF FN
    <3>2. (v + step - gHyperframe) + gHyperframe = v + step BY <2>1, Hyperframe
    <3>3. (v + step) % gHyperframe = v + step - gHyperframe BY <3>1, <3>2, Wraps
    <3>4. ~(v + step < 0) BY <2>1, <2>4, Hyperframe
    <3>5. w = v + step - gHyperframe BY <3>3, <3>4 DEF addFrames
    <3> HIDE DEF w
    <3> QED BY <2>1, <3>1, <3>5, Hyperframe
  <2> QED BY <2>1, <2>2, <2>3, <2>4, Hyperframe DEF FN
<1> HIDE DEF w
<1>2. FNDelta(w, v) = step BY <1>1, Hyperframe DEF FNDelta, FN
<1> QED BY <1>1, <1>2 DEF w

\* Of two frame numbers one is later, but for two that are half a hyperframe apart: each is
\* earlier than the other (FNCompare).
THEOREM CompareIsAntisymmetric ==
    ASSUME NEW v1 \in FN, NEW v2 \in FN
    PROVE  IF v1 - v2 \in {halfModulus, -halfModulus}
           THEN FNCompare(v1, v2) = -1 /\ FNCompare(v2, v1) = -1
           ELSE /\ FNCompare(v1, v2) = -FNCompare(v2, v1)
                /\ FNCompare(v1, v2) = 0 <=> v1 = v2
<1>1. /\ v1 \in Int /\ v1 >= 0 /\ v1 < gHyperframe
      /\ v2 \in Int /\ v2 >= 0 /\ v2 < gHyperframe
  BY Hyperframe DEF FN
<1>2. CASE v1 - v2 \in {halfModulus, -halfModulus}
  <2>1. FNDelta(v1, v2) = -halfModulus /\ FNDelta(v2, v1) = -halfModulus
    BY <1>1, <1>2, Hyperframe DEF FNDelta
  <2> QED BY <1>2, <2>1, Hyperframe DEF FNCompare
<1>3. CASE v1 - v2 \notin {halfModulus, -halfModulus}
  <2>1. FNDelta(v1, v2) = -FNDelta(v2, v1) BY <1>1, <1>3, Hyperframe DEF FNDelta
  <2>2. FNDelta(v1, v2) = 0 <=> v1 = v2 BY <1>1, <1>3, Hyperframe DEF FNDelta
  <2>3. FNDelta(v1, v2) \in Int /\ FNDelta(v2, v1) \in Int
    BY <1>1, Hyperframe DEF FNDelta
  <2>4. FNCompare(v1, v2) = -FNCompare(v2, v1) BY <2>1, <2>3 DEF FNCompare
  <2>5. FNCompare(v1, v2) = 0 <=> v1 = v2 BY <2>2, <2>3 DEF FNCompare
  <2> QED BY <1>3, <2>4, <2>5
<1> QED BY <1>2, <1>3

\* Times that lie within half a hyperframe are in order: the comparisons are transitive
\* there (operator<).
THEOREM EarlierIsTransitive ==
    ASSUME NEW t \in Time, NEW u \in Time, NEW v \in Time,
           earlier(t, u), earlier(u, v),
           FNDelta(v.fn, u.fn) + FNDelta(u.fn, t.fn) < halfModulus,
           u.fn - t.fn \notin {halfModulus, -halfModulus},
           v.fn - u.fn \notin {halfModulus, -halfModulus}
    PROVE  earlier(t, v)
<1>1. /\ t.fn \in FN /\ u.fn \in FN /\ v.fn \in FN
      /\ t.tn \in TN /\ u.tn \in TN /\ v.tn \in TN
  BY DEF Time
<1> DEFINE p == FNDelta(u.fn, t.fn)
           q == FNDelta(v.fn, u.fn)
           r == FNDelta(v.fn, t.fn)
<1>2. \A a, b \in FN : FNDelta(a, b) \in Int BY DeltaIsNearest, Hyperframe
<1>3. p >= 0 /\ (p = 0 => t.fn = u.fn)
  <2>1. CASE t.fn = u.fn BY <1>1, <2>1, Hyperframe DEF FNDelta, FN
  <2>2. CASE t.fn # u.fn
    <3>1. FNDelta(t.fn, u.fn) < 0 BY <1>1, <1>2, <2>2 DEF earlier, FNCompare
    <3> QED BY <1>1, <2>2, <3>1, Hyperframe DEF FNDelta, FN
  <2> QED BY <2>1, <2>2
<1>4. q >= 0 /\ (q = 0 => u.fn = v.fn)
  <2>1. CASE u.fn = v.fn BY <1>1, <2>1, Hyperframe DEF FNDelta, FN
  <2>2. CASE u.fn # v.fn
    <3>1. FNDelta(u.fn, v.fn) < 0 BY <1>1, <1>2, <2>2 DEF earlier, FNCompare
    <3> QED BY <1>1, <2>2, <3>1, Hyperframe DEF FNDelta, FN
  <2> QED BY <2>1, <2>2
<1>5. r = p + q BY <1>1, <1>3, <1>4, Hyperframe DEF FNDelta, FN
<1>6. p \in Int /\ q \in Int BY <1>1, <1>2
<1>7. CASE p = 0 /\ q = 0
  <2>1. t.fn = u.fn /\ u.fn = v.fn BY <1>3, <1>4, <1>7
  <2>2. t.tn < u.tn /\ u.tn < v.tn BY <2>1 DEF earlier
  <2> QED BY <1>1, <2>1, <2>2 DEF earlier, TN
<1>8. CASE p + q > 0
  <2>1. r > 0 BY <1>5, <1>8
  <2>2. t.fn # v.fn /\ FNDelta(t.fn, v.fn) < 0
    BY <1>1, <2>1, Hyperframe DEF FNDelta, FN
  <2>3. FNCompare(t.fn, v.fn) = -1 BY <1>1, <1>2, <2>2 DEF FNCompare
  <2> QED BY <2>2, <2>3 DEF earlier
<1> QED BY <1>3, <1>4, <1>6, <1>7, <1>8

\* Going on by up to eight timeslots gives a later time, and going back undoes it, also from
\* the last slot of the hyperframe (incTN, decTN).
THEOREM SlotsGoForward ==
    ASSUME NEW t \in Time, NEW step \in 1 .. 8
    PROVE  /\ incTN(t, step) \in Time
           /\ earlier(t, incTN(t, step))
           /\ decTN(incTN(t, step), step) = t
<1>1. /\ t.fn \in Int /\ t.fn >= 0 /\ t.fn < gHyperframe /\ t.tn \in Int /\ t.tn >= 0 /\ t.tn < 8
      /\ t = [fn |-> t.fn, tn |-> t.tn]
  BY Hyperframe DEF Time, FN, TN
<1>2. CASE t.tn + step <= 7
  <2>1. incTN(t, step) = [fn |-> t.fn, tn |-> t.tn + step]
    BY <1>1, <1>2 DEF incTN, Time
  <2>2. incTN(t, step) \in Time BY <1>1, <1>2, <2>1 DEF Time, TN, FN
  <2>3. earlier(t, incTN(t, step)) BY <1>1, <2>1 DEF earlier
  <2>4. decTN(incTN(t, step), step) = t BY <1>1, <2>1 DEF decTN
  <2> QED BY <2>2, <2>3, <2>4
<1>3. CASE t.tn + step > 7
  <2> DEFINE w == (t.fn + 1) % gHyperframe
  <2>1. w = IF t.fn = gHyperframe - 1 THEN 0 ELSE t.fn + 1
    <3>1. CASE t.fn = gHyperframe - 1
      <4>1. 0 \in FN /\ 0 + gHyperframe = t.fn + 1 BY <3>1, Hyperframe DEF FN
      <4> QED BY <3>1, <4>1, Wraps
    <3>2. CASE t.fn # gHyperframe - 1
      <4>1. t.fn + 1 \in FN BY <1>1, <3>2, Hyperframe DEF FN
      <4> QED BY <3>2, <4>1, Wraps
    <3> QED BY <3>1, <3>2
  <2>2. incTN(t, step) = [fn |-> w, tn |-> t.tn + step - 8] BY <1>3 DEF incTN
  <2> HIDE DEF w
  <2>3. incTN(t, step) \in Time BY <1>1, <1>3, <2>1, <2>2, Hyperframe DEF Time, TN, FN
  <2>4. w # t.fn /\ FNDelta(t.fn, w) = -1 BY <1>1, <2>1, Hyperframe DEF FNDelta
  <2>5. earlier(t, incTN(t, step)) BY <2>2, <2>4 DEF earlier, FNCompare
  <2>6. decTN(incTN(t, step), step) = t BY <1>1, <1>3, <2>1, <2>2, Hyperframe DEF decTN
  <2> QED BY <2>3, <2>5, <2>6
<1> QED BY <1>1, <1>2, <1>3
=============================================================================
