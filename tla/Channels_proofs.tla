-------------------------- MODULE Channels_proofs --------------------------
(***************************************************************************)
(* Theorems about Channels, for every pool, set of handsets and limit of   *)
(* the clocks that its assumptions allow: TypeOK, SafelyAbandoned,         *)
(* AlwaysTimed, UnsafeOnlyIf.                                              *)
(*                                                                         *)
(* The invariant says of each channel, as long as it is not unsafe, that   *)
(* it has one handset, one offer or one reservation at most, and that its  *)
(* timers have more left than the clock of that one allows it to stay.     *)
(***************************************************************************)
EXTENDS Channels, WellFoundedInduction, TLAPS

\* A handset is off when it is on no channel, and a thread in setup has reserved a TCH.
Placed ==
    /\ \A h \in Handsets : ms[h].st = "off" <=> ms[h].at = None
    /\ \A c \in Channel : thread[c].pc = "setup" => thread[c].tch \in TCH

TypeInv == TypeOK /\ Placed

(* What the timers of a channel have left, against the clock of its user. *)

AtLeast(t, n) == t = Off \/ t >= n

\* No timer of x runs out within n, with T3111 off.
Lasts(x, n) == x.t3111 = Off /\ AtLeast(x.t3101, n) /\ AtLeast(x.t3109, n)

\* The last good frame left T3109 at least n.
Kept(x, n) == x.t3101 = Off /\ x.t3109 # Off /\ x.t3109 >= n

\* Not expired, and not closed since it was opened.
Fresh(x) == x.t3111 = Off /\ x.t3101 # 0 /\ x.t3109 # 0

\* Closed no more than n ago.
Left(x, n) ==
    /\ x.t3101 = Off /\ AtLeast(x.t3109, T3109 - n)
    /\ x.t3111 # Off /\ x.t3111 >= T3111 - n

NewTimed(x, n) == n <= Reach /\ Lasts(x, T3101 - n)
OnTimed(x, f, n) ==
    /\ n <= RadioLinkTimeout
    /\ Fresh(x)
    /\ f = "none" => Kept(x, T3109 - n)
    /\ f = "speech" => Kept(x, T3109 - RadioLinkTimeout)
LeavingTimed(x, f, n) ==
    /\ n <= T3110
    /\ \/ Left(x, n)
       \/ Fresh(x) /\ (f # "facch" => Kept(x, T3109 - RadioLinkTimeout - n))
HandsetTimed(x, f, m) ==
    /\ m.st = "new" => NewTimed(x, m.t)
    /\ m.st = "on" => OnTimed(x, f, m.t)
    /\ m.st = "leaving" => LeavingTimed(x, f, m.t)
ReservedTimed(x, n) == n < T3101 => Lasts(x, T3101 - n)

\* One handset, one offer or one reservation.
Alone(c) ==
    /\ \A g, h \in Present(c) : g = h
    /\ \A o, p \in Offered(c) : o = p
    /\ \A d, e \in Reserving(c) : d = e
    /\ Present(c) = {} \/ Offered(c) = {}
    /\ Reserving(c) = {} \/ (Present(c) = {} /\ Offered(c) = {})

InTime(c) ==
    /\ \A h \in Present(c) : HandsetTimed(l1[c], decoding[c], ms[h])
    /\ \A o \in Offered(c) : NewTimed(l1[c], o.t)
    /\ \A d \in Reserving(c) : ReservedTimed(l1[c], thread[d].t)

Sound(c) == ~unsafe[c] => Alone(c) /\ InTime(c)
IInv == TypeInv /\ \A c \in Channel : Sound(c)
-----------------------------------------------------------------------------
LEMMA TimerTypes ==
    /\ Off \in Timer(T3101) /\ Off \in Timer(T3109) /\ Off \in Timer(T3111)
    /\ T3101 \in Timer(T3101) /\ T3109 \in Timer(T3109) /\ T3111 \in Timer(T3111)
    /\ 0 \in Timer(T3111)
  BY TimeAssumption DEF Timer, Off

LEMMA RunningType ==
    ASSUME NEW n \in Nat, NEW t \in Timer(n) PROVE Running(t) \in Timer(n)
  BY DEF Running, Timer, Off

LEMMA L1Types ==
    ASSUME NEW x \in L1, NEW f \in Frame, NEW hard \in BOOLEAN
    PROVE  /\ opened(x) \in L1 /\ closed(x, hard) \in L1
           /\ handleGoodFrame(x, f) \in L1 /\ aged(x) \in L1
<1>1. opened(x) \in L1 BY TimerTypes DEF opened, L1
<1>2. closed(x, hard) \in L1 BY TimerTypes DEF closed, L1
<1>3. handleGoodFrame(x, f) \in L1 BY TimerTypes DEF handleGoodFrame, L1
<1>4. aged(x) \in L1
  <2>1. Running(x.t3101) \in Timer(T3101) BY RunningType, TimeAssumption DEF L1
  <2>2. Running(x.t3109) \in Timer(T3109) BY RunningType, TimeAssumption DEF L1
  <2>3. Running(x.t3111) \in Timer(T3111) BY RunningType, TimeAssumption DEF L1
  <2> QED BY <2>1, <2>2, <2>3 DEF aged, L1
<1> QED BY <1>1, <1>2, <1>3, <1>4

LEMMA LeastNatural ==
    ASSUME NEW S \in SUBSET Nat, S # {} PROVE \E m \in S : \A n \in S : m <= n
<1> DEFINE R == OpToRel(<, Nat)
<1>1. PICK m \in S : \A n \in S : <<n, m>> \notin R
  <2>1. IsWellFoundedOn(R, Nat) BY NatLessThanWellFounded
  <2> HIDE DEF R
  <2> QED BY <2>1, WFMin, Zenon
<1>2. ASSUME NEW n \in S PROVE m <= n
  <2>1. n \in Nat /\ m \in Nat OBVIOUS
  <2>2. ~ (n < m)
    <3>1. <<n, m>> \in Nat \X Nat BY <2>1
    <3>2. <<n, m>>[1] = n /\ <<n, m>>[2] = m OBVIOUS
    <3>3. SUFFICES ASSUME n < m PROVE FALSE OBVIOUS
    <3>4. <<n, m>> \in R BY <3>1, <3>2, <3>3, Zenon DEF OpToRel
    <3> QED BY <3>4, <1>1
  <2> QED BY <2>1, <2>2
<1> QED BY <1>2

\* The channel that is taken is one of its pool.
LEMMA GetChanAvailable ==
    ASSUME NEW pool \in SUBSET Nat, Available(pool) # {}
    PROVE  getChan(pool) \in pool /\ recyclable(l1[getChan(pool)])
<1>1. Available(pool) \in SUBSET Nat BY DEF Available
<1>2. \E c \in Available(pool) : \A d \in Available(pool) : c <= d
  BY <1>1, LeastNatural
<1>3. getChan(pool) \in Available(pool) BY <1>2 DEF getChan
<1> QED BY <1>3 DEF Available

LEMMA PoolTypes == SDCCH \in SUBSET Nat /\ TCH \in SUBSET Nat /\ Channel \in SUBSET Nat
  BY PoolAssumption DEF Channel

-----------------------------------------------------------------------------
(***************************************************************************)
(* Types.                                                                  *)
(***************************************************************************)

LEMMA OpenType ==
    ASSUME TypeInv, NEW c \in Channel, NEW d, open(c, d)
    PROVE  l1' \in [Channel -> L1] /\ unsafe' \in [Channel -> BOOLEAN]
<1>1. l1[c] \in L1 BY DEF TypeInv, TypeOK
<1>2. opened(l1[c]) \in L1 BY <1>1, TimerTypes DEF opened, L1
<1>3. claimed(c, Channel \ {d}) \in BOOLEAN BY DEF claimed
<1> QED BY <1>2, <1>3, Zenon DEF open, TypeInv, TypeOK

LEMMA CloseType ==
    ASSUME TypeInv, NEW c \in Channel, NEW hard \in BOOLEAN, close(c, hard)
    PROVE  l1' \in [Channel -> L1] /\ unsafe' \in [Channel -> BOOLEAN]
<1>1. l1[c] \in L1 BY DEF TypeInv, TypeOK
<1>2. closed(l1[c], hard) \in L1 BY <1>1, L1Types, Zenon DEF Frame
<1>3. unsafe[c] \/ hard \in BOOLEAN BY DEF TypeInv, TypeOK
<1> QED BY <1>2, <1>3, Zenon DEF close, TypeInv, TypeOK

LEMMA GrowType ==
    ASSUME TypeInv, growT3122 \/ shrinkT3122 PROVE t3122' \in T3122Min .. T3122Max
<1>1. t3122 \in T3122Min .. T3122Max BY DEF TypeInv, TypeOK
<1>2. \A r \in 0 .. t3122 - 1 : r \div 2 \in Nat BY <1>1, T3122Assumption
<1>3. CASE growT3122
  <2>1. PICK r \in 0 .. t3122 - 1 : t3122' = Smaller(t3122 + r \div 2, T3122Max)
    BY <1>3 DEF growT3122
  <2>2. PICK k \in Nat : k = r \div 2 BY <1>2
  <2> QED BY <1>1, <2>1, <2>2, T3122Assumption DEF Smaller
<1>4. CASE shrinkT3122
  <2>1. PICK r \in 0 .. t3122 - 1 : t3122' = Larger(t3122 - r \div 2, T3122Min)
    BY <1>4 DEF shrinkT3122
  <2>2. PICK k \in Nat : k = r \div 2 BY <1>2
  <2> QED BY <1>1, <2>1, <2>2, T3122Assumption DEF Larger
<1> QED BY <1>3, <1>4

LEMMA InitType == ASSUME Init PROVE TypeInv
<1>1. [t3101 |-> T3101, t3109 |-> Off, t3111 |-> Off, rx |-> TRUE] \in L1
  BY TimerTypes DEF L1
<1>2. idleThread \in Thread BY DEF idleThread, Thread
<1>3. [at |-> None, st |-> "off", t |-> 0] \in Mobile BY DEF Mobile
<1>4. t3122 \in T3122Min .. T3122Max BY T3122Assumption DEF Init
<1>5. TypeOK BY <1>1, <1>2, <1>3, <1>4 DEF Init, TypeOK, Frame
<1>6. Placed BY DEF Init, Placed, idleThread
<1> QED BY <1>5, <1>6 DEF TypeInv

LEMMA IdleTypes ==
    idleThread \in Thread /\ [at |-> None, st |-> "off", t |-> 0] \in Mobile
  BY DEF idleThread, Thread, Mobile

LEMMA OfferType ==
    ASSUME NEW c \in Channel, NEW h \in Handsets, NEW f \in Channel \union {None}
    PROVE  [ch |-> c, to |-> h, from |-> f, t |-> 0] \in Offer
  BY DEF Offer

LEMMA RejectType == ASSUME TypeInv, NEW need, rejects(need) PROVE TypeInv'
  BY GrowType DEF rejects, TypeInv, TypeOK, Placed

LEMMA TooLateType == ASSUME TypeInv, tooLate PROVE TypeInv'
  BY GrowType DEF tooLate, TypeInv, TypeOK, Placed

LEMMA GrantType ==
    ASSUME TypeInv, NEW h \in Handsets, NEW need \in Needs, grants(h, need) PROVE TypeInv'
<1> DEFINE c == getChan(Pool(need))
           o == [ch |-> c, to |-> h, from |-> None, t |-> 0]
<1>1. c \in Channel
  BY GetChanAvailable, PoolTypes DEF grants, congested, Pool, Channel
<1>2. open(c, None) /\ offers' = offers \union {o} BY DEF grants
<1>3. o \in Offer BY <1>1, OfferType
<1> HIDE DEF c, o
<1>4. l1' \in [Channel -> L1] /\ unsafe' \in [Channel -> BOOLEAN] BY <1>1, <1>2, OpenType
<1>5. t3122' \in T3122Min .. T3122Max BY GrowType DEF grants
<1> QED BY <1>2, <1>3, <1>4, <1>5 DEF grants, TypeInv, TypeOK, Placed

LEMMA RadioType ==
    ASSUME TypeInv, NEW h \in Handsets, NEW f \in {"facch", "speech"}, writeLowSide(h, f)
    PROVE  TypeInv'
<1>1. ms[h].at \in Channel /\ ms[h] \in Mobile BY DEF writeLowSide, TypeInv, TypeOK, Mobile
<1>2. ms[h].st # "off" BY <1>1 DEF writeLowSide, TypeInv, Placed
<1>3. /\ contact(ms[h], f) \in Mobile /\ contact(ms[h], f).at = ms[h].at
      /\ contact(ms[h], f).st # "off"
  BY <1>1, <1>2 DEF contact, Mobile
<1>4. decoding' \in [Channel -> Frame] BY <1>1 DEF writeLowSide, TypeInv, TypeOK, Frame
<1>5. ms' = [ms EXCEPT ![h] = contact(ms[h], f)] BY DEF writeLowSide
<1>6. ms' \in [Handsets -> Mobile] BY <1>3, <1>5 DEF TypeInv, TypeOK
<1>7. \A g \in Handsets : ms'[g].st = "off" <=> ms'[g].at = None
  BY <1>1, <1>2, <1>3, <1>5, PoolAssumption DEF TypeInv, TypeOK, Placed
<1> QED BY <1>4, <1>6, <1>7 DEF writeLowSide, TypeInv, TypeOK, Placed

LEMMA DecoderType ==
    ASSUME TypeInv, NEW c \in Channel, goodFrame(c) \/ establish(c) \/ release(c) \/ error(c)
    PROVE  TypeInv'
<1>1. l1[c] \in L1 /\ decoding[c] \in Frame BY DEF TypeInv, TypeOK
<1>2. CASE goodFrame(c)
  <2>1. handleGoodFrame(l1[c], decoding[c]) \in L1 BY <1>1, L1Types
  <2> QED BY <1>2, <2>1 DEF goodFrame, TypeInv, TypeOK, Placed, Frame
<1>3. CASE establish(c)
  <2>1. thread[c] \in Thread BY DEF TypeInv, TypeOK
  <2>2. [thread[c] EXCEPT !.pc = "serve"] \in Thread BY <2>1 DEF Thread
  <2> QED BY <1>3, <2>1, <2>2 DEF establish, TypeInv, TypeOK, Placed, Thread
<1>4. CASE release(c)
  <2>1. l1' \in [Channel -> L1] /\ unsafe' \in [Channel -> BOOLEAN]
    BY <1>4, CloseType DEF release
  <2> QED BY <1>4, <2>1 DEF release, TypeInv, TypeOK, Placed
<1>5. CASE error(c)
  <2>1. closed(l1[c], FALSE) \in L1 BY <1>1, L1Types
  <2>2. unsafe' \in [Channel -> BOOLEAN] BY <1>5, Zenon DEF error, TypeInv, TypeOK
  <2> QED BY <1>5, <2>1, <2>2 DEF error, TypeInv, TypeOK, Placed
<1> QED BY <1>2, <1>3, <1>4, <1>5

LEMMA ReturnsType ==
    ASSUME TypeInv, NEW c \in Channel, returns(c)
    PROVE  /\ thread' \in [Channel -> Thread]
           /\ \A d \in Channel : thread'[d].pc = "setup" => thread'[d].tch \in TCH
  BY IdleTypes DEF returns, TypeInv, TypeOK, Placed, idleThread

LEMMA DispatcherType == ASSUME TypeInv, NEW c \in Channel, Dispatcher(c) PROVE TypeInv'
<1>1. CASE channelRelease(c)
  BY <1>1, ReturnsType DEF channelRelease, TypeInv, TypeOK, Placed
<1>2. CASE IMSIDetach(c)
  BY <1>2, ReturnsType, CloseType DEF IMSIDetach, TypeInv, TypeOK, Placed
<1>3. CASE allocateTCH(c)
  <2> DEFINE d == getChan(TCH)
             w == [pc |-> "setup", tch |-> d, t |-> 0]
  <2>1. d \in TCH /\ d \in Channel BY <1>3, GetChanAvailable, PoolTypes DEF allocateTCH, Channel
  <2>2. open(d, None) /\ thread' = [thread EXCEPT ![c] = w] BY <1>3 DEF allocateTCH
  <2>3. w \in Thread /\ w.tch \in TCH BY <2>1 DEF Thread
  <2> HIDE DEF d, w
  <2>4. l1' \in [Channel -> L1] /\ unsafe' \in [Channel -> BOOLEAN] BY <2>1, <2>2, OpenType
  <2> QED BY <1>3, <2>2, <2>3, <2>4 DEF allocateTCH, TypeInv, TypeOK, Placed
<1>4. CASE assignTCHF(c)
  <2> DEFINE d == thread[c].tch
             w == [thread[c] EXCEPT !.pc = "assigning", !.t = 0]
  <2>1. d \in TCH /\ d \in Channel BY <1>4 DEF assignTCHF, TypeInv, Placed, Channel
  <2>2. open(d, c) BY <1>4 DEF assignTCHF
  <2>3. thread' = [thread EXCEPT ![c] = w] BY <1>4 DEF assignTCHF, TypeInv, TypeOK
  <2>4. w \in Thread /\ w.pc = "assigning" BY DEF TypeInv, TypeOK, Thread
  <2>5. offers' \in SUBSET Offer
    <3>1. c \in Channel \union {None} OBVIOUS
    <3>2. \A h \in Handsets : [ch |-> d, to |-> h, from |-> c, t |-> 0] \in Offer
      BY <2>1, <3>1, OfferType
    <3>3. \/ offers' = offers
          \/ \E h \in Handsets :
                offers' = offers \union {[ch |-> d, to |-> h, from |-> c, t |-> 0]}
      BY <1>4 DEF assignTCHF, Present
    <3> QED BY <3>2, <3>3 DEF TypeInv, TypeOK
  <2> HIDE DEF d, w
  <2>6. l1' \in [Channel -> L1] /\ unsafe' \in [Channel -> BOOLEAN] BY <2>1, <2>2, OpenType
  <2> QED BY <1>4, <2>3, <2>4, <2>5, <2>6 DEF assignTCHF, TypeInv, TypeOK, Placed
<1>5. CASE assignmentFailed(c)
  BY <1>5, ReturnsType DEF assignmentFailed, TypeInv, TypeOK, Placed
<1>6. CASE assigned(c)
  BY <1>6, ReturnsType, CloseType DEF assigned, TypeInv, TypeOK, Placed
<1> QED BY <1>1, <1>2, <1>3, <1>4, <1>5, <1>6 DEF Dispatcher

LEMMA HandsetType ==
    ASSUME TypeInv, NEW h \in Handsets, disconnects(h) \/ goes(h) PROVE TypeInv'
<1>1. ms[h] \in Mobile BY DEF TypeInv, TypeOK
<1>2. CASE disconnects(h)
  <2> DEFINE m == [ms[h] EXCEPT !.st = "leaving", !.t = 0]
  <2>1. ms' = [ms EXCEPT ![h] = m] BY <1>2 DEF disconnects, TypeInv, TypeOK
  <2>2. m \in Mobile /\ m.at = ms[h].at /\ m.st = "leaving" BY <1>1 DEF Mobile
  <2>3. ms[h].at # None BY <1>2 DEF disconnects, TypeInv, Placed
  <2> HIDE DEF m
  <2> QED BY <1>2, <2>1, <2>2, <2>3 DEF disconnects, TypeInv, TypeOK, Placed
<1>3. CASE goes(h)
  BY <1>3, IdleTypes DEF goes, TypeInv, TypeOK, Placed
<1> QED BY <1>2, <1>3

LEMMA OfferMoveType ==
    ASSUME TypeInv, NEW o \in offers, takesAssignment(o) \/ misses(o) PROVE TypeInv'
<1>1. o \in Offer BY DEF TypeInv, TypeOK
<1>2. CASE takesAssignment(o)
  <2> DEFINE m == [at |-> o.ch, st |-> "new", t |-> o.t]
  <2>1. m \in Mobile /\ m.at # None /\ m.st # "off" BY <1>1, PoolAssumption DEF Mobile, Offer
  <2>2. ms' = [ms EXCEPT ![o.to] = m] /\ o.to \in Handsets
    BY <1>1, <1>2 DEF takesAssignment, Offer
  <2> HIDE DEF m
  <2> QED BY <1>2, <2>1, <2>2 DEF takesAssignment, TypeInv, TypeOK, Placed
<1>3. CASE misses(o) BY <1>3 DEF misses, TypeInv, TypeOK, Placed
<1> QED BY <1>2, <1>3

LEMMA TickType == ASSUME TypeInv, tick PROVE TypeInv'
<1>1. l1' \in [Channel -> L1] BY L1Types DEF tick, TypeInv, TypeOK, Frame
<1>2. \A w \in Thread : [w EXCEPT !.t = @ + 1] \in Thread BY DEF Thread
<1>3. \A m \in Mobile : [m EXCEPT !.t = @ + 1] \in Mobile BY DEF Mobile
<1>4. \A o \in Offer : [o EXCEPT !.t = @ + 1] \in Offer BY DEF Offer
<1>5. thread' \in [Channel -> Thread] BY <1>2 DEF tick, TypeInv, TypeOK
<1>6. ms' \in [Handsets -> Mobile] BY <1>3 DEF tick, TypeInv, TypeOK
<1>7. offers' \in SUBSET Offer BY <1>4 DEF tick, TypeInv, TypeOK
<1>8. \A h \in Handsets : ms'[h].st = ms[h].st /\ ms'[h].at = ms[h].at
  BY DEF tick, TypeInv, TypeOK, Mobile
<1>9. \A c \in Channel : thread'[c].pc = thread[c].pc /\ thread'[c].tch = thread[c].tch
  BY DEF tick, TypeInv, TypeOK, Thread
<1> QED BY <1>1, <1>5, <1>6, <1>7, <1>8, <1>9 DEF tick, TypeInv, TypeOK, Placed

LEMMA StepType == ASSUME TypeInv, [Next]_vars PROVE TypeInv'
<1>1. CASE UNCHANGED vars BY <1>1 DEF vars, TypeInv, TypeOK, Placed
<1>2. CASE Next
  <2>1. ASSUME NEW h \in Handsets, AccessGrantResponder(h) PROVE TypeInv'
    BY <2>1, GrantType, RejectType, TooLateType DEF AccessGrantResponder
  <2> QED BY <1>2, <2>1, TickType, DecoderType, DispatcherType, RadioType, HandsetType,
             OfferMoveType DEF Next
<1> QED BY <1>1, <1>2

-----------------------------------------------------------------------------
(***************************************************************************)
(* The clocks.                                                             *)
(***************************************************************************)

LEMMA TimerRange ==
    ASSUME NEW x \in L1
    PROVE  /\ x.t3101 \in Int /\ x.t3101 >= -1 /\ x.t3101 <= T3101
           /\ x.t3109 \in Int /\ x.t3109 >= -1 /\ x.t3109 <= T3109
           /\ x.t3111 \in Int /\ x.t3111 >= -1 /\ x.t3111 <= T3111
<1>1. x.t3101 \in Timer(T3101) /\ x.t3109 \in Timer(T3109) /\ x.t3111 \in Timer(T3111)
  BY DEF L1
<1> QED BY <1>1, TimeAssumption DEF Timer, Off

LEMMA OpenedIsNew == ASSUME NEW x \in L1 PROVE NewTimed(opened(x), 0) /\ ReservedTimed(opened(x), 0)
<1>1. /\ opened(x).t3111 = Off /\ opened(x).t3109 = Off /\ opened(x).t3101 = T3101
  BY DEF opened, L1
<1> QED BY <1>1, TimeAssumption DEF NewTimed, ReservedTimed, Lasts, AtLeast, Off

LEMMA ClosedIsLeft ==
    ASSUME NEW x \in L1, NEW f, NEW n \in Nat, LeavingTimed(x, f, n)
    PROVE  LeavingTimed(closed(x, FALSE), f, n)
<1> DEFINE y == closed(x, FALSE)
<1>1. y.t3101 = Off /\ y.t3109 = Off /\ y.t3111 = T3111 BY DEF closed, L1
<1> HIDE DEF y
<1>2. Left(y, n) BY <1>1, TimeAssumption DEF Left, AtLeast, Off
<1>3. n <= T3110 BY DEF LeavingTimed
<1>4. LeavingTimed(y, f, n) BY <1>2, <1>3, Zenon DEF LeavingTimed
<1> QED BY <1>4 DEF y

LEMMA GoodFrameTimed ==
    ASSUME NEW x \in L1, NEW f \in {"facch", "speech"}
    PROVE  LET y == handleGoodFrame(x, f) IN
           /\ \A n \in Nat : NewTimed(x, n) => NewTimed(y, n)
           /\ \A n \in Nat : ReservedTimed(x, n) => ReservedTimed(y, n)
           /\ \A m \in Mobile : HandsetTimed(x, f, m) => HandsetTimed(y, "none", m)
<1> DEFINE y == handleGoodFrame(x, f)
<1>1. /\ y.t3109 = T3109 /\ y.t3111 = x.t3111
      /\ y.t3101 = IF f = "facch" THEN Off ELSE x.t3101
  BY DEF handleGoodFrame, L1
<1>2. /\ T3101 \in Nat \ {0} /\ T3109 \in Nat \ {0} /\ T3111 \in Nat \ {0}
      /\ RadioLinkTimeout \in Nat /\ T3110 \in Nat /\ Reach \in Nat
      /\ T3101 <= T3109 /\ Reach < T3101
  BY TimeAssumption, HandsetGoesFirst
<1> HIDE DEF y
<1>3. ASSUME NEW n \in Nat, NewTimed(x, n) PROVE NewTimed(y, n)
  BY <1>1, <1>2, <1>3 DEF NewTimed, Lasts, AtLeast, Off
<1>4. ASSUME NEW n \in Nat, ReservedTimed(x, n) PROVE ReservedTimed(y, n)
  BY <1>1, <1>2, <1>4 DEF ReservedTimed, Lasts, AtLeast, Off
<1>5. ASSUME NEW n \in Nat, OnTimed(x, f, n) PROVE OnTimed(y, "none", n)
  <2>1. Fresh(y) BY <1>1, <1>2, <1>5 DEF OnTimed, Fresh, Off
  <2>2. Kept(y, T3109 - n) BY <1>1, <1>2, <1>5 DEF OnTimed, Kept, Off
  <2> QED BY <2>1, <2>2, <1>5 DEF OnTimed
<1>6. ASSUME NEW n \in Nat, LeavingTimed(x, f, n) PROVE LeavingTimed(y, "none", n)
  <2>1. CASE Left(x, n)
    <3>1. Left(y, n) BY <1>1, <1>2, <2>1 DEF Left, AtLeast, Off
    <3> QED BY <3>1, <1>6 DEF LeavingTimed
  <2>2. CASE Fresh(x) /\ (f # "facch" => Kept(x, T3109 - RadioLinkTimeout - n))
    <3>1. Fresh(y) BY <1>1, <1>2, <2>2 DEF Fresh, Off
    <3>2. Kept(y, T3109 - RadioLinkTimeout - n) BY <1>1, <1>2, <2>2 DEF Kept, Off
    <3> QED BY <3>1, <3>2, <1>6 DEF LeavingTimed
  <2> QED BY <2>1, <2>2, <1>6 DEF LeavingTimed
<1>7. \A m \in Mobile : m.t \in Nat BY DEF Mobile
<1>8. \A m \in Mobile : HandsetTimed(x, f, m) => HandsetTimed(y, "none", m)
  BY <1>3, <1>5, <1>6, <1>7 DEF HandsetTimed
<1> QED BY <1>3, <1>4, <1>8 DEF y

LEMMA ContactTimed ==
    ASSUME NEW x \in L1, ~recyclable(x), NEW f \in {"facch", "speech"}, NEW m \in Mobile,
           HandsetTimed(x, "none", m), f = "speech" => m.st = "on"
    PROVE  HandsetTimed(x, f, contact(m, f))
<1>1. /\ T3109 \in Nat \ {0} /\ RadioLinkTimeout \in Nat /\ m.t \in Nat
  BY TimeAssumption DEF Mobile
<1>2. x.t3101 # 0 /\ x.t3109 # 0 BY DEF recyclable
<1>3. CASE f = "facch" /\ m.st \in {"new", "on"}
  <2>1. contact(m, f).st = "on" /\ contact(m, f).t = 0 BY <1>3 DEF contact, Mobile
  <2>2. x.t3111 = Off BY <1>3 DEF HandsetTimed, NewTimed, Lasts, OnTimed, Fresh
  <2>3. OnTimed(x, f, 0) BY <1>1, <1>2, <1>3, <2>2 DEF OnTimed, Fresh
  <2> QED BY <2>1, <2>3 DEF HandsetTimed
<1>4. CASE f = "speech" /\ m.st = "on"
  <2>1. contact(m, f).st = "on" /\ contact(m, f).t = 0 BY <1>4 DEF contact, Mobile
  <2>2. Kept(x, T3109 - m.t) /\ m.t <= RadioLinkTimeout /\ Fresh(x)
    BY <1>4 DEF HandsetTimed, OnTimed
  <2>3. Kept(x, T3109 - RadioLinkTimeout) BY <1>1, <2>2, TimerRange DEF Kept
  <2>4. OnTimed(x, f, 0) BY <1>1, <1>4, <2>2, <2>3 DEF OnTimed
  <2> QED BY <2>1, <2>4 DEF HandsetTimed
<1>5. CASE f = "facch" /\ m.st \notin {"new", "on"}
  <2>1. contact(m, f) = m BY <1>5 DEF contact
  <2> QED BY <1>5, <2>1 DEF HandsetTimed, LeavingTimed
<1> QED BY <1>3, <1>4, <1>5

LEMMA DisconnectTimed ==
    ASSUME NEW x \in L1, NEW f \in Frame, NEW n \in Nat, OnTimed(x, f, n)
    PROVE  LeavingTimed(x, f, 0)
<1>1. T3109 \in Nat /\ RadioLinkTimeout \in Nat /\ T3110 \in Nat BY TimeAssumption
<1>2. n <= RadioLinkTimeout /\ Fresh(x) BY DEF OnTimed
<1>3. f # "facch" => Kept(x, T3109 - RadioLinkTimeout - 0)
  <2>1. CASE f = "none" BY <1>1, <1>2, <2>1, TimerRange DEF OnTimed, Kept
  <2>2. CASE f = "speech" BY <1>1, <2>2 DEF OnTimed, Kept
  <2> QED BY <2>1, <2>2 DEF Frame
<1> QED BY <1>1, <1>2, <1>3 DEF LeavingTimed

\* A unit of time, which no user has outstayed.
LEMMA TickTimed ==
    ASSUME NEW x \in L1
    PROVE  /\ \A n \in Nat : n < Reach /\ NewTimed(x, n) => NewTimed(aged(x), n + 1)
           /\ \A n \in Nat : ReservedTimed(x, n) => ReservedTimed(aged(x), n + 1)
           /\ \A m \in Mobile : m.t < Limit(m) /\ HandsetTimed(x, "none", m)
                => HandsetTimed(aged(x), "none", [m EXCEPT !.t = @ + 1])
<1> DEFINE y == aged(x)
<1>1. /\ y.t3101 = Running(x.t3101) /\ y.t3109 = Running(x.t3109)
      /\ y.t3111 = Running(x.t3111)
  BY DEF aged, L1
<1>2. /\ T3101 \in Nat \ {0} /\ T3109 \in Nat \ {0} /\ T3111 \in Nat \ {0}
      /\ RadioLinkTimeout \in Nat /\ T3110 \in Nat /\ Reach \in Nat
      /\ Reach < T3101 /\ T3110 < T3111 /\ RadioLinkTimeout + T3110 < T3109
  BY TimeAssumption, HandsetGoesFirst
<1>3. /\ y.t3101 = IF x.t3101 > 0 THEN x.t3101 - 1 ELSE x.t3101
      /\ y.t3109 = IF x.t3109 > 0 THEN x.t3109 - 1 ELSE x.t3109
      /\ y.t3111 = IF x.t3111 > 0 THEN x.t3111 - 1 ELSE x.t3111
  BY <1>1 DEF Running
<1> HIDE DEF y
<1>4. \A k \in Int : k > 0 /\ Lasts(x, k) => Lasts(y, k - 1)
  BY <1>3, TimerRange DEF Lasts, AtLeast, Off
<1>5. \A k \in Int : k > 1 /\ Kept(x, k) => Kept(y, k - 1) /\ (x.t3111 = Off => Fresh(y))
  BY <1>3, TimerRange DEF Kept, Fresh, Off
<1>6. ASSUME NEW n \in Nat, n < Reach, NewTimed(x, n) PROVE NewTimed(y, n + 1)
  <2>1. Lasts(x, T3101 - n) /\ T3101 - n > 0 BY <1>2, <1>6 DEF NewTimed
  <2>2. Lasts(y, (T3101 - n) - 1) BY <1>2, <1>4, <2>1
  <2>3. (T3101 - n) - 1 = T3101 - (n + 1) BY <1>2
  <2> QED BY <1>2, <1>6, <2>2, <2>3 DEF NewTimed
<1>7. ASSUME NEW n \in Nat, ReservedTimed(x, n) PROVE ReservedTimed(y, n + 1)
  <2>1. SUFFICES ASSUME n + 1 < T3101 PROVE Lasts(y, T3101 - (n + 1)) BY DEF ReservedTimed
  <2>2. Lasts(x, T3101 - n) /\ T3101 - n > 0 BY <1>2, <1>7, <2>1 DEF ReservedTimed
  <2>3. Lasts(y, (T3101 - n) - 1) BY <1>2, <1>4, <2>2
  <2>4. (T3101 - n) - 1 = T3101 - (n + 1) BY <1>2
  <2> QED BY <2>3, <2>4
<1>8. ASSUME NEW n \in Nat, n < RadioLinkTimeout, OnTimed(x, "none", n)
      PROVE  OnTimed(y, "none", n + 1)
  <2>1. Kept(x, T3109 - n) /\ T3109 - n > 1 /\ x.t3111 = Off
    BY <1>2, <1>8 DEF OnTimed, Fresh
  <2>2. Kept(y, (T3109 - n) - 1) /\ Fresh(y) BY <1>2, <1>5, <2>1
  <2>3. (T3109 - n) - 1 = T3109 - (n + 1) BY <1>2
  <2> QED BY <1>2, <1>8, <2>2, <2>3 DEF OnTimed
<1>9. ASSUME NEW n \in Nat, n < T3110, LeavingTimed(x, "none", n)
      PROVE  LeavingTimed(y, "none", n + 1)
  <2>1. CASE Left(x, n)
    <3>1. Left(y, n + 1) BY <1>2, <1>3, <1>9, <2>1, TimerRange DEF Left, AtLeast, Off
    <3> QED BY <1>2, <1>9, <3>1 DEF LeavingTimed
  <2>2. CASE Fresh(x) /\ Kept(x, T3109 - RadioLinkTimeout - n)
    <3> DEFINE k == T3109 - RadioLinkTimeout - n
    <3>1. k \in Int /\ k > 1 /\ k - 1 = T3109 - RadioLinkTimeout - (n + 1) BY <1>2, <1>9
    <3>2. x.t3111 = Off /\ Kept(x, k) BY <2>2 DEF Fresh
    <3> HIDE DEF k
    <3>3. Kept(y, k - 1) /\ Fresh(y) BY <1>5, <3>1, <3>2
    <3> QED BY <1>2, <1>9, <3>1, <3>3 DEF LeavingTimed
  <2> QED BY <1>9, <2>1, <2>2 DEF LeavingTimed
<1>10. ASSUME NEW m \in Mobile, m.t < Limit(m), HandsetTimed(x, "none", m)
       PROVE  HandsetTimed(y, "none", [m EXCEPT !.t = @ + 1])
  <2>1. /\ [m EXCEPT !.t = @ + 1].st = m.st /\ [m EXCEPT !.t = @ + 1].t = m.t + 1
        /\ m.t \in Nat
    BY DEF Mobile
  <2> QED BY <1>6, <1>8, <1>9, <1>10, <2>1 DEF HandsetTimed, Limit
<1> QED BY <1>6, <1>7, <1>10 DEF y

\* No timer has run out on a user.
LEMMA UserIsTimed ==
    ASSUME NEW x \in L1
    PROVE  /\ \A n \in Nat : NewTimed(x, n) => ~recyclable(x)
           /\ \A n \in Nat : n < T3101 /\ ReservedTimed(x, n) => ~recyclable(x)
           /\ \A f \in Frame, m \in Mobile :
                m.st # "off" /\ HandsetTimed(x, f, m) => ~recyclable(x)
<1>1. /\ T3101 \in Nat \ {0} /\ T3109 \in Nat \ {0} /\ T3111 \in Nat \ {0}
      /\ RadioLinkTimeout \in Nat /\ T3110 \in Nat /\ Reach \in Nat
      /\ Reach < T3101 /\ T3110 < T3111 /\ RadioLinkTimeout + T3110 < T3109
  BY TimeAssumption, HandsetGoesFirst
<1>2. \A k \in Int : k > 0 /\ Lasts(x, k) => ~recyclable(x)
  BY TimerRange DEF Lasts, AtLeast, Off, recyclable
<1>3. Fresh(x) => ~recyclable(x) BY DEF Fresh, Off, recyclable
<1>4. \A n \in Nat : NewTimed(x, n) => ~recyclable(x) BY <1>1, <1>2 DEF NewTimed
<1>5. \A n \in Nat : n < T3101 /\ ReservedTimed(x, n) => ~recyclable(x)
  BY <1>1, <1>2 DEF ReservedTimed
<1>6. \A n \in Nat : n <= T3110 /\ Left(x, n) => ~recyclable(x)
  BY <1>1, TimerRange DEF Left, AtLeast, Off, recyclable
<1>7. ASSUME NEW f \in Frame, NEW m \in Mobile, m.st # "off", HandsetTimed(x, f, m)
      PROVE  ~recyclable(x)
  <2>1. m.t \in Nat /\ m.st \in {"new", "on", "leaving"} BY <1>7 DEF Mobile
  <2> QED BY <1>3, <1>4, <1>6, <1>7, <2>1 DEF HandsetTimed, OnTimed, LeavingTimed
<1> QED BY <1>4, <1>5, <1>7

-----------------------------------------------------------------------------
(***************************************************************************)
(* Each action keeps every channel sound.                                  *)
(***************************************************************************)

\* A channel on which nothing is new.
LEMMA SoundKept ==
    ASSUME NEW c \in Channel, Sound(c), l1'[c] = l1[c], decoding'[c] = decoding[c],
           unsafe[c] => unsafe'[c],
           \A h \in Present(c)' : h \in Present(c) /\ ms'[h] = ms[h],
           Offered(c)' \subseteq Offered(c),
           \A d \in Reserving(c)' : d \in Reserving(c) /\ thread'[d].t = thread[d].t
    PROVE  Sound(c)'
<1>1. SUFFICES ASSUME ~unsafe'[c] PROVE Alone(c)' /\ InTime(c)' BY DEF Sound
<1>2. Alone(c) /\ InTime(c) BY <1>1 DEF Sound
<1>3. Alone(c)'
  <2>1. Present(c)' \subseteq Present(c) /\ Reserving(c)' \subseteq Reserving(c) OBVIOUS
  <2> QED BY <1>2, <2>1 DEF Alone
<1>4. InTime(c)' BY <1>2 DEF InTime
<1> QED BY <1>3, <1>4

\* Who is on a channel when it is opened for the thread d.
LEMMA OpenedAlone ==
    ASSUME NEW c \in Channel, NEW d, open(c, d), TypeInv, ~unsafe'[c]
    PROVE  Present(c) = {} /\ Offered(c) = {} /\ Reserving(c) \subseteq {d}
<1>1. ~claimed(c, Channel \ {d}) BY DEF open, TypeInv, TypeOK
<1> QED BY <1>1 DEF claimed, Reserving

LEMMA OpenElsewhere ==
    ASSUME NEW c \in Channel, NEW d, open(c, d), TypeInv, NEW e \in Channel \ {c}
    PROVE  l1'[e] = l1[e] /\ unsafe'[e] = unsafe[e]
  BY DEF open, TypeInv, TypeOK

LEMMA CloseElsewhere ==
    ASSUME NEW c \in Channel, NEW hard, close(c, hard), TypeInv, NEW e \in Channel \ {c}
    PROVE  l1'[e] = l1[e] /\ unsafe'[e] = unsafe[e]
  BY DEF close, TypeInv, TypeOK

LEMMA GrantSound ==
    ASSUME IInv, NEW h \in Handsets, NEW need \in Needs, grants(h, need), NEW e \in Channel
    PROVE  Sound(e)'
<1>1. TypeInv /\ Sound(e) BY DEF IInv
<1>2. PICK c \in Channel : c = getChan(Pool(need))
  BY GetChanAvailable, PoolTypes DEF grants, congested, Pool, Channel
<1> DEFINE o == [ch |-> c, to |-> h, from |-> None, t |-> 0]
<1>3. open(c, None) /\ offers' = offers \union {o} BY <1>2 DEF grants
<1>4. UNCHANGED <<decoding, thread, ms>> BY DEF grants
<1>5. o.ch = c /\ o.t = 0 OBVIOUS
<1> HIDE DEF o
<1>6. Present(e)' = Present(e) /\ Reserving(e)' = Reserving(e)
  BY <1>4 DEF Present, Reserving
<1>7. CASE e # c
  <2>1. l1'[e] = l1[e] /\ unsafe'[e] = unsafe[e] BY <1>1, <1>2, <1>3, <1>7, OpenElsewhere
  <2>2. Offered(e)' = Offered(e) BY <1>3, <1>5, <1>7 DEF Offered
  <2> QED BY <1>1, <1>4, <1>6, <2>1, <2>2, SoundKept
<1>8. CASE e = c
  <2>1. SUFFICES ASSUME ~unsafe'[c] PROVE Alone(c)' /\ InTime(c)' BY <1>8 DEF Sound
  <2>2. Present(c) = {} /\ Offered(c) = {} /\ Reserving(c) \subseteq {None}
    BY <1>1, <1>2, <1>3, <2>1, OpenedAlone
  <2>3. Reserving(c) = {} BY <2>2, PoolAssumption DEF Reserving
  <2>4. Offered(c)' = {o} BY <1>3, <1>5, <2>2 DEF Offered
  <2>5. l1'[c] = opened(l1[c]) /\ l1[c] \in L1 BY <1>1, <1>2, <1>3 DEF open, TypeInv, TypeOK
  <2>6. NewTimed(l1'[c], 0) BY <2>5, OpenedIsNew
  <2>7. Alone(c)' BY <1>6, <1>8, <2>2, <2>3, <2>4 DEF Alone
  <2>8. InTime(c)' BY <1>5, <1>6, <1>8, <2>2, <2>3, <2>4, <2>6 DEF InTime
  <2> QED BY <2>7, <2>8
<1> QED BY <1>7, <1>8

LEMMA RadioSound ==
    ASSUME IInv, NEW h \in Handsets, NEW f \in {"facch", "speech"}, writeLowSide(h, f),
           NEW e \in Channel
    PROVE  Sound(e)'
<1>1. TypeInv /\ Sound(e) BY DEF IInv
<1>2. PICK c \in Channel :
        /\ c = ms[h].at /\ active(l1[c]) /\ decoding[c] = "none"
        /\ f = "speech" => ms[h].st = "on"
  BY <1>1 DEF writeLowSide, TypeInv, TypeOK, Mobile
<1>10. PICK m : m = contact(ms[h], f) OBVIOUS
<1>3. /\ decoding' = [decoding EXCEPT ![c] = f] /\ ms' = [ms EXCEPT ![h] = m]
      /\ UNCHANGED <<l1, thread, offers, unsafe>>
  BY <1>2, <1>10 DEF writeLowSide
<1>4. m.at = c BY <1>1, <1>2, <1>10 DEF contact, TypeInv, TypeOK, Mobile
<1>5. ms[h] \in Mobile BY <1>1 DEF TypeInv, TypeOK
<1>6. Present(e)' = Present(e) BY <1>1, <1>2, <1>3, <1>4 DEF Present, TypeInv, TypeOK
<1>7. Offered(e)' = Offered(e) /\ Reserving(e)' = Reserving(e)
  BY <1>3 DEF Offered, Reserving
<1>8. CASE e # c
  <2>1. decoding'[e] = decoding[e] BY <1>1, <1>2, <1>3, <1>8 DEF TypeInv, TypeOK
  <2>2. \A g \in Present(e)' : g \in Present(e) /\ ms'[g] = ms[g]
    BY <1>1, <1>2, <1>3, <1>6, <1>8 DEF Present, TypeInv, TypeOK
  <2> QED BY <1>1, <1>3, <1>7, <2>1, <2>2, SoundKept
<1>9. CASE e = c
  <2>1. SUFFICES ASSUME ~unsafe[c] PROVE Alone(c)' /\ InTime(c)' BY <1>3, <1>9 DEF Sound
  <2>2. Alone(c) /\ InTime(c) BY <1>1, <1>9, <2>1 DEF Sound
  <2>3. Alone(c)' BY <1>6, <1>7, <1>9, <2>2 DEF Alone
  <2>4. h \in Present(c) BY <1>2 DEF Present
  <2>5. HandsetTimed(l1[c], "none", ms[h]) BY <1>2, <2>2, <2>4 DEF InTime
  <2>6. HandsetTimed(l1[c], f, m)
    BY <1>1, <1>2, <1>5, <1>10, <2>5, ContactTimed DEF active, TypeInv, TypeOK
  <2>7. Present(c)' = {h} /\ ms'[h] = m /\ decoding'[c] = f
    BY <1>1, <1>2, <1>3, <1>6, <1>9, <2>2, <2>4 DEF Alone, TypeInv, TypeOK
  <2>8. Offered(c)' = {} /\ Reserving(c)' = {} BY <1>7, <1>9, <2>2, <2>4 DEF Alone
  <2>9. InTime(c)' BY <1>3, <2>6, <2>7, <2>8 DEF InTime
  <2> QED BY <2>3, <2>9
<1> QED BY <1>8, <1>9

LEMMA DecoderSound ==
    ASSUME IInv, NEW c \in Channel, goodFrame(c) \/ establish(c) \/ release(c) \/ error(c),
           NEW e \in Channel
    PROVE  Sound(e)'
<1>1. TypeInv /\ Sound(e) BY DEF IInv
<1>2. /\ ms' = ms /\ offers' = offers
      /\ Present(e)' = Present(e) /\ Offered(e)' = Offered(e)
  BY DEF goodFrame, establish, release, error, Present, Offered
<1>3. l1[c] \in L1 /\ decoding[c] \in Frame BY <1>1 DEF TypeInv, TypeOK
<1>4. CASE goodFrame(c)
  <2> DEFINE y == handleGoodFrame(l1[c], decoding[c])
  <2>1. /\ l1' = [l1 EXCEPT ![c] = y] /\ decoding' = [decoding EXCEPT ![c] = "none"]
        /\ thread' = thread /\ unsafe' = unsafe /\ decoding[c] \in {"facch", "speech"}
    BY <1>3, <1>4 DEF goodFrame, Frame
  <2>2. /\ \A n \in Nat : NewTimed(l1[c], n) => NewTimed(y, n)
        /\ \A n \in Nat : ReservedTimed(l1[c], n) => ReservedTimed(y, n)
        /\ \A m \in Mobile : HandsetTimed(l1[c], decoding[c], m) => HandsetTimed(y, "none", m)
    BY <1>3, <2>1, GoodFrameTimed
  <2> HIDE DEF y
  <2>3. Reserving(e)' = Reserving(e) BY <2>1 DEF Reserving
  <2>4. CASE e # c
    <3>1. l1'[e] = l1[e] /\ decoding'[e] = decoding[e]
      BY <1>1, <2>1, <2>4 DEF TypeInv, TypeOK
    <3> QED BY <1>1, <1>2, <2>1, <2>3, <3>1, SoundKept
  <2>5. CASE e = c
    <3>1. SUFFICES ASSUME ~unsafe[c] PROVE Alone(c)' /\ InTime(c)' BY <2>1, <2>5 DEF Sound
    <3>2. Alone(c) /\ InTime(c) BY <1>1, <2>5, <3>1 DEF Sound
    <3>3. Alone(c)' BY <1>2, <2>3, <2>5, <3>2 DEF Alone
    <3>4. l1'[c] = y /\ decoding'[c] = "none" BY <1>1, <2>1 DEF TypeInv, TypeOK
    <3>5. /\ \A h \in Handsets : ms[h] \in Mobile
          /\ \A o \in offers : o.t \in Nat
          /\ \A d \in Channel : thread[d].t \in Nat
      BY <1>1 DEF TypeInv, TypeOK, Offer, Thread
    <3>6. /\ \A h \in Present(c) : HandsetTimed(y, "none", ms[h])
          /\ \A o \in Offered(c) : NewTimed(y, o.t)
          /\ \A d \in Reserving(c) : ReservedTimed(y, thread[d].t)
      BY <2>2, <3>2, <3>5 DEF InTime, Present, Offered, Reserving
    <3>7. InTime(c)' BY <1>2, <2>1, <2>3, <2>5, <3>4, <3>6 DEF InTime
    <3> QED BY <3>3, <3>7
  <2> QED BY <2>4, <2>5
<1>5. CASE establish(c)
  <2>1. UNCHANGED <<l1, decoding, unsafe>> BY <1>5 DEF establish
  <2>2. \A d \in Reserving(e)' : d \in Reserving(e) /\ thread'[d].t = thread[d].t
    BY <1>1, <1>5 DEF establish, Reserving, TypeInv, TypeOK, Thread
  <2> QED BY <1>1, <1>2, <2>1, <2>2, SoundKept
<1>6. CASE release(c) \/ error(c)
  <2>1. decoding' = decoding /\ thread' = thread /\ Reserving(e)' = Reserving(e)
    BY <1>6 DEF release, error, Reserving
  <2>2. CASE e # c
    <3>1. l1'[e] = l1[e] /\ unsafe'[e] = unsafe[e]
      <4>1. CASE release(c) BY <1>1, <2>2, <4>1, CloseElsewhere DEF release
      <4>2. CASE error(c) BY <1>1, <2>2, <4>2 DEF error, TypeInv, TypeOK
      <4> QED BY <1>6, <4>1, <4>2
    <3> QED BY <1>1, <1>2, <2>1, <3>1, SoundKept
  <2>3. CASE e = c
    <3>1. l1'[c] = closed(l1[c], FALSE)
      BY <1>1, <1>6 DEF release, error, close, TypeInv, TypeOK
    <3>2. SUFFICES ASSUME ~unsafe'[c] PROVE Alone(c)' /\ InTime(c)' BY <2>3 DEF Sound
    <3>3. ~unsafe[c] BY <1>1, <1>6, <3>2 DEF release, error, close, TypeInv, TypeOK
    <3>4. Alone(c) /\ InTime(c) BY <1>1, <2>3, <3>3 DEF Sound
    <3>5. /\ \A h \in Present(c) : ms[h].st = "leaving"
          /\ Offered(c) = {} /\ Reserving(c) = {}
      <4>1. CASE release(c) BY <3>4, <4>1 DEF release, Alone
      <4>2. CASE error(c)
        BY <1>1, <3>2, <4>2 DEF error, TypeInv, TypeOK
      <4> QED BY <1>6, <4>1, <4>2
    <3>6. \A h \in Present(c) : LeavingTimed(closed(l1[c], FALSE), decoding[c], ms[h].t)
      <4>1. \A h \in Present(c) : ms[h].t \in Nat
        BY <1>1 DEF Present, TypeInv, TypeOK, Mobile
      <4>2. \A h \in Present(c) : LeavingTimed(l1[c], decoding[c], ms[h].t)
        BY <3>4, <3>5 DEF InTime, HandsetTimed
      <4> QED BY <1>3, <4>1, <4>2, ClosedIsLeft
    <3>7. Alone(c)' BY <1>2, <2>1, <2>3, <3>4 DEF Alone
    <3>8. InTime(c)'
      BY <1>2, <2>1, <2>3, <3>1, <3>5, <3>6 DEF InTime, HandsetTimed
    <3> QED BY <3>7, <3>8
  <2> QED BY <2>2, <2>3
<1> QED BY <1>4, <1>5, <1>6

\* The thread of c returns, and closes its channel or not.
LEMMA ReturnsSound ==
    ASSUME IInv, NEW c \in Channel, returns(c), NEW e \in Channel,
           UNCHANGED <<decoding, ms>>, offers' \subseteq offers,
           close(c, TRUE) \/ UNCHANGED <<l1, unsafe>>
    PROVE  Sound(e)'
<1>1. TypeInv /\ Sound(e) BY DEF IInv
<1>2. \A d \in Reserving(e)' : d \in Reserving(e) /\ thread'[d].t = thread[d].t
  BY <1>1 DEF returns, idleThread, Reserving, TypeInv, TypeOK
<1>3. Present(e)' = Present(e) /\ Offered(e)' \subseteq Offered(e) BY DEF Present, Offered
<1>4. CASE close(c, TRUE) /\ e = c
  <2>1. unsafe'[e] BY <1>1, <1>4 DEF close, TypeInv, TypeOK
  <2> QED BY <2>1 DEF Sound
<1>5. CASE ~(close(c, TRUE) /\ e = c)
  <2>1. l1'[e] = l1[e] /\ unsafe'[e] = unsafe[e] BY <1>1, <1>5, CloseElsewhere
  <2> QED BY <1>1, <1>2, <1>3, <2>1, SoundKept
<1> QED BY <1>4, <1>5

LEMMA AllocateSound ==
    ASSUME IInv, NEW c \in Channel, allocateTCH(c), NEW e \in Channel
    PROVE  Sound(e)'
<1>1. TypeInv /\ Sound(e) BY DEF IInv
<1>2. PICK d \in TCH : d = getChan(TCH) BY GetChanAvailable, PoolTypes DEF allocateTCH
<1>3. /\ d \in Channel /\ open(d, None) /\ UNCHANGED <<decoding, offers, ms>>
      /\ thread[c].pc = "serve"
      /\ thread' = [thread EXCEPT ![c] = [pc |-> "setup", tch |-> d, t |-> 0]]
  BY <1>2 DEF allocateTCH, Channel
<1>4. Present(e)' = Present(e) /\ Offered(e)' = Offered(e) BY <1>3 DEF Present, Offered
<1>5. thread'[c] = [pc |-> "setup", tch |-> d, t |-> 0] BY <1>1, <1>3 DEF TypeInv, TypeOK
<1>6. \A x \in Channel \ {c} : thread'[x] = thread[x] BY <1>1, <1>3 DEF TypeInv, TypeOK
<1>7. CASE e # d
  <2>1. l1'[e] = l1[e] /\ unsafe'[e] = unsafe[e] BY <1>1, <1>3, <1>7, OpenElsewhere
  <2>2. \A x \in Reserving(e)' : x \in Reserving(e) /\ thread'[x].t = thread[x].t
    BY <1>5, <1>6, <1>7 DEF Reserving
  <2> QED BY <1>1, <1>3, <1>4, <2>1, <2>2, SoundKept
<1>8. CASE e = d
  <2>1. SUFFICES ASSUME ~unsafe'[d] PROVE Alone(d)' /\ InTime(d)' BY <1>8 DEF Sound
  <2>2. Present(d) = {} /\ Offered(d) = {} /\ Reserving(d) \subseteq {None}
    BY <1>1, <1>3, <2>1, OpenedAlone
  <2>3. Reserving(d) = {} BY <2>2, PoolAssumption DEF Reserving
  <2>4. Reserving(d)' = {c} BY <1>5, <1>6, <2>3 DEF Reserving
  <2>5. l1'[d] = opened(l1[d]) /\ l1[d] \in L1 BY <1>1, <1>3 DEF open, TypeInv, TypeOK
  <2>6. ReservedTimed(l1'[d], 0) BY <2>5, OpenedIsNew
  <2>7. Alone(d)' BY <1>4, <1>8, <2>2, <2>4 DEF Alone
  <2>8. InTime(d)' BY <1>4, <1>5, <1>8, <2>2, <2>4, <2>6 DEF InTime
  <2> QED BY <2>7, <2>8
<1> QED BY <1>7, <1>8

LEMMA AssignSound ==
    ASSUME IInv, NEW c \in Channel, assignTCHF(c), NEW e \in Channel
    PROVE  Sound(e)'
<1>1. TypeInv /\ Sound(e) BY DEF IInv
<1>2. PICK d \in TCH : d = thread[c].tch BY <1>1 DEF assignTCHF, TypeInv, Placed
<1>3. /\ d \in Channel /\ open(d, c) /\ UNCHANGED <<decoding, ms>>
      /\ thread' = [thread EXCEPT ![c].pc = "assigning", ![c].t = 0]
  BY <1>2 DEF assignTCHF, Channel
<1>4. \/ offers' = offers
      \/ \E h \in Handsets :
            offers' = offers \union {[ch |-> d, to |-> h, from |-> c, t |-> 0]}
  BY <1>2 DEF assignTCHF, Present
<1>5. Present(e)' = Present(e) BY <1>3 DEF Present
<1>6. thread'[c].pc = "assigning" BY <1>1, <1>3 DEF TypeInv, TypeOK, Thread
<1>7. \A x \in Channel \ {c} : thread'[x] = thread[x] BY <1>1, <1>3 DEF TypeInv, TypeOK
<1>8. \A x \in Reserving(e)' : x # c /\ x \in Reserving(e) /\ thread'[x].t = thread[x].t
  BY <1>6, <1>7 DEF Reserving
<1>9. CASE e # d
  <2>1. l1'[e] = l1[e] /\ unsafe'[e] = unsafe[e] BY <1>1, <1>3, <1>9, OpenElsewhere
  <2>2. Offered(e)' = Offered(e) BY <1>4, <1>9 DEF Offered
  <2> QED BY <1>1, <1>3, <1>5, <1>8, <2>1, <2>2, SoundKept
<1>10. CASE e = d
  <2>1. SUFFICES ASSUME ~unsafe'[d] PROVE Alone(d)' /\ InTime(d)' BY <1>10 DEF Sound
  <2>2. Present(d) = {} /\ Offered(d) = {} /\ Reserving(d) \subseteq {c}
    BY <1>1, <1>3, <2>1, OpenedAlone
  <2>3. Reserving(d)' = {} BY <1>8, <1>10, <2>2
  <2>4. /\ \A o \in Offered(d)' : o.t = 0
        /\ \A o, p \in Offered(d)' : o = p
    BY <1>4, <2>2 DEF Offered
  <2>5. l1'[d] = opened(l1[d]) /\ l1[d] \in L1 BY <1>1, <1>3 DEF open, TypeInv, TypeOK
  <2>6. NewTimed(l1'[d], 0) BY <2>5, OpenedIsNew
  <2>7. Alone(d)' BY <1>5, <1>10, <2>2, <2>3, <2>4 DEF Alone
  <2>8. InTime(d)' BY <1>5, <1>10, <2>2, <2>3, <2>4, <2>6 DEF InTime
  <2> QED BY <2>7, <2>8
<1> QED BY <1>9, <1>10

LEMMA DispatcherSound ==
    ASSUME IInv, NEW c \in Channel, Dispatcher(c), NEW e \in Channel PROVE Sound(e)'
<1>1. CASE channelRelease(c) BY <1>1, ReturnsSound DEF channelRelease
<1>2. CASE IMSIDetach(c) BY <1>2, ReturnsSound DEF IMSIDetach
<1>3. CASE assignmentFailed(c) BY <1>3, ReturnsSound DEF assignmentFailed
<1>4. CASE assigned(c) BY <1>4, ReturnsSound DEF assigned
<1> QED BY <1>1, <1>2, <1>3, <1>4, AllocateSound, AssignSound DEF Dispatcher

LEMMA HandsetSound ==
    ASSUME IInv, NEW h \in Handsets, disconnects(h) \/ goes(h), NEW e \in Channel
    PROVE  Sound(e)'
<1>1. TypeInv /\ Sound(e) BY DEF IInv
<1>2. /\ UNCHANGED <<l1, decoding, thread, offers, unsafe>>
      /\ Offered(e)' = Offered(e) /\ Reserving(e)' = Reserving(e)
  BY DEF disconnects, goes, Offered, Reserving
<1>3. ms[h] \in Mobile BY <1>1 DEF TypeInv, TypeOK
<1>4. CASE goes(h)
  <2>1. \A g \in Present(e)' : g \in Present(e) /\ ms'[g] = ms[g]
    BY <1>1, <1>4, PoolAssumption DEF goes, Present, TypeInv, TypeOK
  <2> QED BY <1>1, <1>2, <2>1, SoundKept
<1>5. CASE disconnects(h)
  <2> DEFINE m == [ms[h] EXCEPT !.st = "leaving", !.t = 0]
  <2>1. /\ ms' = [ms EXCEPT ![h] = m] /\ ms[h].st = "on" /\ ms[h].t \in Nat
        /\ m.at = ms[h].at /\ m.st = "leaving" /\ m.t = 0
    BY <1>1, <1>3, <1>5 DEF disconnects, Mobile, TypeInv, TypeOK
  <2> HIDE DEF m
  <2>2. Present(e)' = Present(e) BY <1>1, <2>1 DEF Present, TypeInv, TypeOK
  <2>3. SUFFICES ASSUME ~unsafe[e] PROVE Alone(e)' /\ InTime(e)' BY <1>2 DEF Sound
  <2>4. Alone(e) /\ InTime(e) BY <1>1, <2>3 DEF Sound
  <2>5. Alone(e)' BY <1>2, <2>2, <2>4 DEF Alone
  <2>6. l1[e] \in L1 /\ decoding[e] \in Frame BY <1>1 DEF TypeInv, TypeOK
  <2>7. ASSUME NEW g \in Present(e) PROVE HandsetTimed(l1[e], decoding[e], ms'[g])
    <3>1. HandsetTimed(l1[e], decoding[e], ms[g]) BY <2>4 DEF InTime
    <3>2. CASE g # h
      <4>1. ms'[g] = ms[g] BY <1>1, <2>1, <3>2 DEF Present, TypeInv, TypeOK
      <4> QED BY <3>1, <4>1
    <3>3. CASE g = h
      <4>1. ms'[g] = m BY <1>1, <2>1, <3>3 DEF TypeInv, TypeOK
      <4>2. OnTimed(l1[e], decoding[e], ms[h].t) BY <2>1, <3>1, <3>3 DEF HandsetTimed
      <4>3. LeavingTimed(l1[e], decoding[e], 0) BY <2>1, <2>6, <4>2, DisconnectTimed
      <4> QED BY <2>1, <4>1, <4>3 DEF HandsetTimed
    <3> QED BY <3>2, <3>3
  <2>8. InTime(e)' BY <1>2, <2>2, <2>4, <2>7 DEF InTime
  <2> QED BY <2>5, <2>8
<1> QED BY <1>4, <1>5

LEMMA OfferMoveSound ==
    ASSUME IInv, NEW o \in offers, takesAssignment(o) \/ misses(o), NEW e \in Channel
    PROVE  Sound(e)'
<1>1. TypeInv /\ Sound(e) BY DEF IInv
<1>2. /\ UNCHANGED <<l1, decoding, thread, unsafe>> /\ Reserving(e)' = Reserving(e)
      /\ Offered(e)' \subseteq Offered(e)
  BY DEF takesAssignment, misses, Reserving, Offered
<1>3. CASE misses(o)
  <2>1. ms' = ms /\ Present(e)' = Present(e) BY <1>3 DEF misses, Present
  <2> QED BY <1>1, <1>2, <2>1, SoundKept
<1>4. CASE takesAssignment(o)
  <2> DEFINE m == [at |-> o.ch, st |-> "new", t |-> o.t]
  <2>1. /\ ms' = [ms EXCEPT ![o.to] = m] /\ o.to \in Handsets /\ o.ch \in Channel
        /\ offers' = {x \in offers : x.to # o.to}
        /\ m.at = o.ch /\ m.st = "new" /\ m.t = o.t
    BY <1>1, <1>4 DEF takesAssignment, TypeInv, TypeOK, Offer
  <2> HIDE DEF m
  <2>2. /\ ms'[o.to] = m /\ \A g \in Handsets \ {o.to} : ms'[g] = ms[g]
    BY <1>1, <2>1 DEF TypeInv, TypeOK
  <2>3. CASE e # o.ch
    <3>1. \A g \in Present(e)' : g \in Present(e) /\ ms'[g] = ms[g]
      BY <2>1, <2>2, <2>3 DEF Present
    <3> QED BY <1>1, <1>2, <3>1, SoundKept
  <2>4. CASE e = o.ch
    <3>1. SUFFICES ASSUME ~unsafe[e] PROVE Alone(e)' /\ InTime(e)' BY <1>2 DEF Sound
    <3>2. Alone(e) /\ InTime(e) BY <1>1, <3>1 DEF Sound
    <3>3. o \in Offered(e) BY <2>4 DEF Offered
    <3>4. Present(e) = {} /\ Reserving(e) = {} /\ Offered(e) = {o} BY <3>2, <3>3 DEF Alone
    <3>5. Present(e)' = {o.to} BY <2>1, <2>2, <2>4, <3>4 DEF Present
    <3>6. Offered(e)' = {} BY <1>2, <2>1, <3>4 DEF Offered
    <3>7. NewTimed(l1[e], o.t) BY <3>2, <3>3 DEF InTime
    <3>8. Alone(e)' BY <1>2, <3>4, <3>5, <3>6 DEF Alone
    <3>9. InTime(e)' BY <1>2, <2>1, <2>2, <3>4, <3>5, <3>6, <3>7 DEF InTime, HandsetTimed
    <3> QED BY <3>8, <3>9
  <2> QED BY <2>3, <2>4
<1> QED BY <1>3, <1>4

LEMMA TickSound == ASSUME IInv, tick, NEW e \in Channel PROVE Sound(e)'
<1>1. TypeInv /\ Sound(e) BY DEF IInv
<1>2. UNCHANGED <<decoding, unsafe>> /\ decoding[e] = "none" BY DEF tick
<1>3. SUFFICES ASSUME ~unsafe[e] PROVE Alone(e)' /\ InTime(e)' BY <1>2 DEF Sound
<1>4. Alone(e) /\ InTime(e) BY <1>1, <1>3 DEF Sound
<1>5. l1[e] \in L1 /\ l1'[e] = aged(l1[e]) BY <1>1 DEF tick, TypeInv, TypeOK
<1>6. \A h \in Handsets : ms[h] \in Mobile BY <1>1 DEF TypeInv, TypeOK
<1>7. \A h \in Present(e) : ms'[h] = [ms[h] EXCEPT !.t = @ + 1] /\ ms[h].t < Limit(ms[h])
  BY PoolAssumption DEF tick, Present, Stays
<1>8. Present(e)' = Present(e)
  <2>1. \A h \in Handsets : ms'[h].at = ms[h].at BY <1>6 DEF tick, Mobile
  <2> QED BY <2>1 DEF Present
<1>9. offers \subseteq Offer /\ \A o \in Offer : [o EXCEPT !.t = @ + 1].ch = o.ch
  BY <1>1 DEF TypeInv, TypeOK, Offer
<1>10. Offered(e)' = {[o EXCEPT !.t = @ + 1] : o \in Offered(e)}
  <2>1. offers' = {[o EXCEPT !.t = @ + 1] : o \in offers} BY DEF tick
  <2>2. ASSUME NEW p \in Offered(e)' PROVE p \in {[o EXCEPT !.t = @ + 1] : o \in Offered(e)}
    <3>1. PICK o \in offers : p = [o EXCEPT !.t = @ + 1] BY <2>1, <2>2 DEF Offered
    <3> QED BY <1>9, <2>2, <3>1 DEF Offered
  <2>3. ASSUME NEW o \in Offered(e) PROVE [o EXCEPT !.t = @ + 1] \in Offered(e)'
    BY <1>9, <2>1, <2>3 DEF Offered
  <2> QED BY <2>2, <2>3
<1>11. \A c \in Channel : thread[c] \in Thread BY <1>1 DEF TypeInv, TypeOK
<1>12. Reserving(e)' = Reserving(e)
  <2>1. \A c \in Channel : thread'[c].pc = thread[c].pc /\ thread'[c].tch = thread[c].tch
    BY <1>11 DEF tick, Thread
  <2> QED BY <2>1 DEF Reserving
<1>13. \A d \in Reserving(e) : thread'[d].t = thread[d].t + 1 /\ thread[d].t \in Nat
  BY <1>11 DEF tick, Reserving, Timed, Thread
<1>14. Alone(e)' BY <1>4, <1>8, <1>10, <1>12 DEF Alone
<1>15. \A h \in Present(e) : HandsetTimed(l1'[e], decoding'[e], ms'[h])
  <2>1. \A h \in Present(e) : HandsetTimed(l1[e], "none", ms[h]) BY <1>2, <1>4 DEF InTime
  <2>2. \A h \in Present(e) : h \in Handsets BY DEF Present
  <2> QED BY <1>2, <1>5, <1>6, <1>7, <2>1, <2>2, TickTimed
<1>16. \A o \in Offered(e)' : NewTimed(l1'[e], o.t)
  <2>1. SUFFICES ASSUME NEW o \in Offered(e)
                 PROVE  NewTimed(l1'[e], [o EXCEPT !.t = @ + 1].t)
    BY <1>10
  <2>2. /\ [o EXCEPT !.t = @ + 1].t = o.t + 1 /\ o.t \in Nat /\ o.t < Reach
        /\ NewTimed(l1[e], o.t)
    BY <1>4, <1>9 DEF Offered, Offer, InTime, tick
  <2> QED BY <1>5, <2>2, TickTimed
<1>17. \A d \in Reserving(e) : ReservedTimed(l1'[e], thread'[d].t)
  BY <1>4, <1>5, <1>13, TickTimed DEF InTime
<1>18. InTime(e)' BY <1>8, <1>12, <1>15, <1>16, <1>17 DEF InTime
<1> QED BY <1>14, <1>18

LEMMA StutterSound == ASSUME IInv, UNCHANGED vars, NEW e \in Channel PROVE Sound(e)'
<1>1. Present(e)' = Present(e) /\ Offered(e)' = Offered(e) /\ Reserving(e)' = Reserving(e)
  BY DEF vars, Present, Offered, Reserving
<1> QED BY <1>1, SoundKept DEF vars, IInv

LEMMA CongestedSound ==
    ASSUME IInv, NEW h \in Handsets, AccessGrantResponder(h), NEW e \in Channel
    PROVE  Sound(e)'
<1>1. ASSUME NEW need, rejects(need) \/ tooLate PROVE Sound(e)'
  <2>1. UNCHANGED <<l1, decoding, thread, offers, ms, unsafe>>
    BY <1>1 DEF rejects, tooLate
  <2>2. Present(e)' = Present(e) /\ Offered(e)' = Offered(e) /\ Reserving(e)' = Reserving(e)
    BY <2>1 DEF Present, Offered, Reserving
  <2> QED BY <2>1, <2>2, SoundKept DEF IInv
<1> QED BY <1>1, GrantSound DEF AccessGrantResponder

LEMMA InitInv == ASSUME Init PROVE IInv
<1>1. ASSUME NEW c \in Channel PROVE Sound(c)
  <2>1. Present(c) = {} /\ Offered(c) = {} BY <1>1, PoolAssumption DEF Init, Present, Offered
  <2>2. Reserving(c) = {} BY DEF Init, Reserving, idleThread
  <2> QED BY <2>1, <2>2 DEF Sound, Alone, InTime
<1> QED BY <1>1, InitType DEF IInv

LEMMA StepInv == ASSUME IInv, [Next]_vars PROVE IInv'
<1>1. TypeInv' BY StepType DEF IInv
<1>2. ASSUME NEW e \in Channel PROVE Sound(e)'
  <2>1. CASE UNCHANGED vars BY <2>1, StutterSound
  <2>2. CASE Next
    BY <2>2, TickSound, DecoderSound, DispatcherSound, CongestedSound, RadioSound, HandsetSound,
       OfferMoveSound DEF Next
  <2> QED BY <2>1, <2>2
<1> QED BY <1>1, <1>2 DEF IInv

-----------------------------------------------------------------------------
(***************************************************************************)
(* The theorems.                                                           *)
(***************************************************************************)

LEMMA Invariant == Spec => []IInv
<1>1. Init => IInv BY InitInv
<1>2. IInv /\ [Next]_vars => IInv' BY StepInv
<1> QED BY <1>1, <1>2, PTL DEF Spec

\* A channel one of whose timers has run out has no user, or a reservation that is too old.
LEMMA TakenIsFree ==
    ASSUME IInv, NEW c \in Channel, ~unsafe[c], recyclable(l1[c])
    PROVE  /\ Present(c) = {} /\ Offered(c) = {}
           /\ \A d \in Reserving(c) : thread[d].t >= T3101
<1>1. InTime(c) /\ l1[c] \in L1 /\ decoding[c] \in Frame
  BY DEF IInv, Sound, TypeInv, TypeOK
<1>2. ASSUME NEW h \in Present(c) PROVE FALSE
  <2>1. ms[h] \in Mobile /\ ms[h].st # "off"
    BY PoolAssumption DEF IInv, TypeInv, TypeOK, Placed, Present
  <2>2. HandsetTimed(l1[c], decoding[c], ms[h]) BY <1>1 DEF InTime
  <2> QED BY <1>1, <2>1, <2>2, UserIsTimed
<1>3. ASSUME NEW o \in Offered(c) PROVE FALSE
  <2>1. o.t \in Nat BY DEF IInv, TypeInv, TypeOK, Offered, Offer
  <2>2. NewTimed(l1[c], o.t) BY <1>1 DEF InTime
  <2> QED BY <1>1, <2>1, <2>2, UserIsTimed
<1>4. ASSUME NEW d \in Reserving(c) PROVE thread[d].t >= T3101
  <2>1. thread[d].t \in Nat BY DEF IInv, TypeInv, TypeOK, Reserving, Thread
  <2>2. ReservedTimed(l1[c], thread[d].t) BY <1>1 DEF InTime
  <2> QED BY <1>1, <2>1, <2>2, UserIsTimed, TimeAssumption
<1> QED BY <1>2, <1>3, <1>4

\* Timers, threads, offers and handsets keep their types, and T3122 stays between its
\* limits (GSMConfig::growT3122, shrinkT3122).
THEOREM TypeCorrect == Spec => []TypeOK
<1>1. IInv => TypeOK BY DEF IInv, TypeInv
<1> QED BY <1>1, Invariant, PTL

\* L1Decoder::recyclable, "Return true if the channel is safely abandoned": whatever the
\* pools and the limits of the clocks, no handset is on a channel whose timer has run out.
THEOREM Abandoned == Spec => []SafelyAbandoned
<1>1. IInv => SafelyAbandoned BY TakenIsFree DEF SafelyAbandoned
<1> QED BY <1>1, Invariant, PTL

-----------------------------------------------------------------------------
\* Some timer of x is on.
OneOn(x) == x.t3101 # Off \/ x.t3109 # Off \/ x.t3111 # Off

LEMMA OneStaysOn ==
    ASSUME NEW x \in L1, OneOn(x), NEW f \in Frame, NEW hard \in BOOLEAN
    PROVE  /\ OneOn(opened(x)) /\ OneOn(closed(x, hard))
           /\ OneOn(handleGoodFrame(x, f)) /\ OneOn(aged(x))
<1>1. opened(x).t3101 = T3101 BY DEF opened, L1
<1>2. closed(x, hard).t3111 \in {0, T3111} BY DEF closed, L1
<1>3. handleGoodFrame(x, f).t3109 = T3109 BY DEF handleGoodFrame, L1
<1>4. /\ aged(x).t3101 = Running(x.t3101) /\ aged(x).t3109 = Running(x.t3109)
      /\ aged(x).t3111 = Running(x.t3111)
  BY DEF aged, L1
<1>5. OneOn(aged(x)) BY <1>4, TimerRange DEF OneOn, Running, Off
<1> QED BY <1>1, <1>2, <1>3, <1>5, TimeAssumption DEF OneOn, Off

\* Every action leaves a channel alone or does one of four things to its L1.
LEMMA L1Moves ==
    ASSUME TypeInv, [Next]_vars, NEW c \in Channel
    PROVE  \/ l1'[c] = l1[c]
           \/ l1'[c] = opened(l1[c])
           \/ \E hard \in BOOLEAN : l1'[c] = closed(l1[c], hard)
           \/ l1'[c] = handleGoodFrame(l1[c], decoding[c])
           \/ l1'[c] = aged(l1[c])
<1> DEFINE Moves == \/ l1'[c] = l1[c]
                    \/ l1'[c] = opened(l1[c])
                    \/ \E hard \in BOOLEAN : l1'[c] = closed(l1[c], hard)
                    \/ l1'[c] = handleGoodFrame(l1[c], decoding[c])
                    \/ l1'[c] = aged(l1[c])
<1>1. l1 \in [Channel -> L1] BY DEF TypeInv, TypeOK
<1>2. ASSUME NEW d, NEW e, open(d, e) PROVE Moves BY <1>1, <1>2 DEF open
<1>3. ASSUME NEW d, NEW hard \in BOOLEAN, close(d, hard) PROVE Moves
  BY <1>1, <1>3 DEF close
<1>4. ASSUME UNCHANGED vars PROVE Moves BY <1>4 DEF vars
<1>5. ASSUME tick PROVE Moves BY <1>1, <1>5 DEF tick
<1>6. ASSUME NEW d \in Channel, goodFrame(d) \/ establish(d) \/ error(d) PROVE Moves
  BY <1>1, <1>6 DEF goodFrame, establish, error
<1>7. ASSUME NEW d \in Channel, release(d) PROVE Moves BY <1>3, <1>7 DEF release
<1>8. ASSUME NEW d \in Channel, channelRelease(d) \/ assignmentFailed(d) PROVE Moves
  BY <1>8 DEF channelRelease, assignmentFailed
<1>9. ASSUME NEW d \in Channel, IMSIDetach(d) \/ assigned(d) PROVE Moves
  BY <1>3, <1>9 DEF IMSIDetach, assigned
<1>10. ASSUME NEW d \in Channel, allocateTCH(d) \/ assignTCHF(d) PROVE Moves
  BY <1>2, <1>10 DEF allocateTCH, assignTCHF
<1>11. ASSUME NEW h \in Handsets, AccessGrantResponder(h) PROVE Moves
  BY <1>2, <1>11 DEF AccessGrantResponder, grants, rejects, tooLate
<1>12. ASSUME NEW h \in Handsets, NEW f, writeLowSide(h, f) PROVE Moves
  BY <1>12 DEF writeLowSide
<1>13. ASSUME NEW h \in Handsets, disconnects(h) \/ goes(h) PROVE Moves
  BY <1>13 DEF disconnects, goes
<1>14. ASSUME NEW o \in offers, takesAssignment(o) \/ misses(o) PROVE Moves
  BY <1>14 DEF takesAssignment, misses
<1> HIDE DEF Moves
<1>15. ASSUME Next PROVE Moves
  BY <1>5, <1>6, <1>7, <1>8, <1>9, <1>10, <1>11, <1>12, <1>13, <1>14, <1>15
     DEF Next, Dispatcher
<1>16. Moves BY <1>4, <1>15
<1> QED BY <1>16 DEF Moves

\* No channel can be lost for ever: after any sequence of open, close, frames and time one
\* of its timers is on (GSML1FEC.cpp:330-352, 643-678).
THEOREM NeverLost == Spec => []AlwaysTimed
<1>1. AlwaysTimed <=> \A c \in Channel : OneOn(l1[c]) BY DEF AlwaysTimed, OneOn
<1>2. Init => AlwaysTimed BY <1>1, TimeAssumption DEF Init, OneOn, Off
<1>3. ASSUME TypeInv, AlwaysTimed, [Next]_vars PROVE AlwaysTimed'
  <2>1. ASSUME NEW c \in Channel PROVE OneOn(l1'[c])
    <3>1. l1[c] \in L1 /\ decoding[c] \in Frame /\ OneOn(l1[c])
      BY <1>1, <1>3 DEF TypeInv, TypeOK
    <3> QED BY <1>3, <3>1, L1Moves, OneStaysOn
  <2>2. (\A c \in Channel : OneOn(l1[c]))' BY <2>1 DEF OneOn
  <2> QED BY <2>2 DEF AlwaysTimed, OneOn
<1>4. IInv => TypeInv BY DEF IInv
<1> QED BY <1>2, <1>3, <1>4, Invariant, PTL DEF Spec

-----------------------------------------------------------------------------
\* A channel comes to be claimed twice, or is closed under its user, only by a hard release,
\* the failure of its data link, or a reservation of a TCH that outlived T3101
\* (GSMConfig::getSDCCH, getTCH; assignTCHF; GSML1FEC.cpp:782-798).
THEOREM ThreeWaysOnly == Spec => UnsafeOnlyIf
<1> DEFINE Excused(c) ==
        \/ hardReleased(c) \/ linkFailed(c)
        \/ \E d \in Reserving(c) : thread[d].t >= T3101
    A == \A c \in Channel : ~unsafe[c] /\ unsafe'[c] => Excused(c)
<1>1. ASSUME IInv, [Next]_vars, NEW c \in Channel, ~unsafe[c], unsafe'[c] PROVE Excused(c)
  <2>1. TypeInv BY <1>1 DEF IInv
  <2>2. ASSUME NEW d \in Channel, open(d, None), recyclable(l1[d]) PROVE Excused(c)
    <3>1. c = d BY <1>1, <2>1, <2>2, OpenElsewhere
    <3>2. claimed(c, Channel \ {None}) BY <1>1, <2>1, <2>2, <3>1 DEF open, TypeInv, TypeOK
    <3>3. /\ Present(c) = {} /\ Offered(c) = {}
          /\ \A e \in Reserving(c) : thread[e].t >= T3101
      BY <1>1, <2>2, <3>1, TakenIsFree
    <3>4. Reserving(c) # {} BY <3>2, <3>3 DEF claimed
    <3> QED BY <3>3, <3>4
  <2>3. ASSUME NEW h \in Handsets, AccessGrantResponder(h) PROVE Excused(c)
    <3>1. PICK need \in Needs : grants(h, need)
      BY <1>1, <2>3 DEF AccessGrantResponder, rejects, tooLate
    <3>2. PICK d \in Channel : d = getChan(Pool(need)) /\ recyclable(l1[d])
      BY <3>1, GetChanAvailable, PoolTypes DEF grants, congested, Pool, Channel
    <3>3. open(d, None) BY <3>1, <3>2 DEF grants
    <3> QED BY <2>2, <3>2, <3>3
  <2>4. ASSUME NEW d \in Channel, allocateTCH(d) PROVE Excused(c)
    <3>1. PICK e \in TCH : e = getChan(TCH) /\ recyclable(l1[e])
      BY <2>4, GetChanAvailable, PoolTypes DEF allocateTCH
    <3>2. e \in Channel /\ open(e, None) BY <2>4, <3>1 DEF allocateTCH, Channel
    <3> QED BY <2>2, <3>1, <3>2
  <2>5. ASSUME NEW d \in Channel, assignTCHF(d) PROVE Excused(c)
    <3>1. PICK e \in Channel : e = thread[d].tch /\ open(e, d) /\ d \in Reserving(e)
      BY <2>1, <2>5 DEF assignTCHF, TypeInv, Placed, Channel, Reserving
    <3>2. c = e BY <1>1, <2>1, <3>1, OpenElsewhere
    <3>3. claimed(c, Channel \ {d}) BY <1>1, <2>1, <3>1, <3>2 DEF open, TypeInv, TypeOK
    <3>4. Alone(c) BY <1>1 DEF IInv, Sound
    <3>5. Present(c) = {} /\ Offered(c) = {} /\ Reserving(c) \intersect (Channel \ {d}) = {}
      BY <3>1, <3>2, <3>4 DEF Alone
    <3> QED BY <3>3, <3>5 DEF claimed
  <2>6. ASSUME NEW d \in Channel, IMSIDetach(d) \/ assigned(d) PROVE Excused(c)
    <3>1. close(d, TRUE) /\ thread[d].pc \in {"serve", "assigning"}
      BY <2>6 DEF IMSIDetach, assigned
    <3>2. c = d BY <1>1, <2>1, <3>1, CloseElsewhere
    <3>3. l1'[c] = closed(l1[c], TRUE) BY <2>1, <3>1, <3>2 DEF close, TypeInv, TypeOK
    <3>4. l1'[c].t3111 = 0 /\ ~l1'[c].rx BY <2>1, <3>3 DEF closed, TypeInv, TypeOK, L1
    <3> QED BY <3>1, <3>2, <3>4 DEF hardReleased
  <2>7. ASSUME NEW d \in Channel, error(d) PROVE Excused(c)
    <3>1. c = d BY <1>1, <2>1, <2>7 DEF error, TypeInv, TypeOK
    <3>2. l1'[c] = closed(l1[c], FALSE) /\ l1[c].rx
      BY <2>1, <2>7, <3>1 DEF error, TypeInv, TypeOK
    <3>3. l1'[c].t3111 = T3111 /\ ~l1'[c].rx BY <2>1, <3>2 DEF closed, TypeInv, TypeOK, L1
    <3> QED BY <3>2, <3>3 DEF linkFailed
  <2>8. ASSUME NEW d \in Channel, release(d) PROVE FALSE
    BY <1>1, <2>1, <2>8 DEF release, close, TypeInv, TypeOK
  <2> HIDE DEF Excused
  <2>9. CASE unsafe' = unsafe BY <1>1, <2>9
  <2>10. CASE unsafe' # unsafe
    <3>1. \/ \E h \in Handsets : AccessGrantResponder(h)
          \/ \E d \in Channel : \/ allocateTCH(d) \/ assignTCHF(d) \/ IMSIDetach(d)
                                \/ assigned(d) \/ error(d) \/ release(d)
      BY <1>1, <2>10 DEF vars, Next, Dispatcher, tick, goodFrame, establish, channelRelease,
         assignmentFailed, writeLowSide, disconnects, goes, takesAssignment, misses
    <3> QED BY <2>3, <2>4, <2>5, <2>6, <2>7, <2>8, <3>1
  <2> QED BY <2>9, <2>10
<1>2. IInv /\ [Next]_vars => [A]_vars BY <1>1
<1> HIDE DEF A
<1>3. Spec => [][A]_vars BY <1>2, Invariant, PTL DEF Spec
<1> QED BY <1>3 DEF UnsafeOnlyIf, A
=============================================================================
