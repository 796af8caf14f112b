------------------------------ MODULE Channels ------------------------------
(***************************************************************************)
(* The dedicated channels as a shared resource: the L1 decoder's timers,   *)
(* which alone say when a channel may be given to somebody else            *)
(* (GSML1FEC.cpp), the pools (GSMConfig.cpp), the access grant thread      *)
(* (RadioResource.cpp), and what the dispatcher thread of each channel     *)
(* does to its own channel and to the TCH it reserves for a call           *)
(* (CallControl.cpp).  Nobody hands a channel back: it is taken when one   *)
(* of its timers has run out, and whether its last user has gone by then   *)
(* is a race of the base station's clocks with the handset's.              *)
(*                                                                         *)
(* Time is the action tick, which moves every clock by one unit and waits  *)
(* for whatever must happen within the unit.  The clocks of the handset    *)
(* count up to the limits GSM gives them.  A fade is taken to spoil both   *)
(* directions.  The data link (module LAPDm) is reduced to the primitives  *)
(* it writes to L1, and a handset to the frames it sends and when it goes. *)
(*                                                                         *)
(* An operator named Faulty_... is the definition that follows it with a   *)
(* mistake in it; no definition uses one.                                  *)
(***************************************************************************)
EXTENDS Integers, FiniteSets

CONSTANTS
    SDCCH, TCH,       \* the two pools, numbered in the order of their lists
    Handsets, None,
    T3101, T3109, T3111,    \* L1: new channel, existing channel, closed channel
    T3107,            \* how long assignTCHF listens on the old channel: T3107 and 2 s
    MaxSetup,         \* longest time from allocateTCH to assignTCHF
    Reach,            \* handset: from the assignment to the last SABM it tries
    RadioLinkTimeout, \* handset: without a downlink frame
    T3110,            \* handset: from DISC to leaving without an answer
    Reserve,          \* GSM.CCCH.PCH.Reserve
    T3122Min, T3122Max,
    MaxRach           \* bound: assignments on their way to one handset

Channel == SDCCH \union TCH
Needs == {"LUR", "SDCCH", "TCH"}    \* what a channel request may ask for

ASSUME PoolAssumption == /\ SDCCH \subseteq Nat /\ TCH \subseteq Nat
                         /\ SDCCH \intersect TCH = {} /\ None \notin Channel
ASSUME TimeAssumption == /\ {T3101, T3107, T3109, T3111, MaxSetup} \subseteq Nat \ {0}
                         /\ {Reach, RadioLinkTimeout, T3110} \subseteq Nat
ASSUME BoundAssumption == Reserve \in Nat /\ MaxRach \in Nat
ASSUME T3122Assumption == T3122Min \in Nat \ {0} /\ T3122Max \in Nat /\ T3122Min <= T3122Max
\* What the network's timers are for: each outlives the handset's clock it stands for.
ASSUME HandsetGoesFirst == /\ Reach < T3101 /\ T3110 < T3111
                           /\ RadioLinkTimeout + T3110 < T3109
                           /\ T3101 <= T3109

(* A timer is Off or the time it still has; at 0 it is expired. *)
Off == -1
Timer(limit) == {Off} \union 0 .. limit
Running(t) == IF t > 0 THEN t - 1 ELSE t

L1 == [t3101 : Timer(T3101), t3109 : Timer(T3109), t3111 : Timer(T3111),
       rx : BOOLEAN]    \* mActive of the decoder
Frame == {"none", "facch", "speech"}
Thread == [pc : {"wait", "serve", "setup", "assigning"},
           tch : TCH \union {None}, t : Nat]
Offer == [ch : Channel, to : Handsets, from : Channel \union {None}, t : Nat]
Mobile == [at : Channel \union {None}, st : {"off", "new", "on", "leaving"}, t : Nat]

VARIABLES
    l1,        \* L1 of each channel
    decoding,  \* the frame that passed active() and is being decoded
    thread,    \* the dispatcher thread of each channel
    offers,    \* immediate assignments and assignment commands on their way
    ms,        \* where each handset is
    unsafe,    \* history: since it was opened with nobody there, a channel was claimed
               \* by two, hard released or given up with its handset still on it
    t3122

vars == <<l1, decoding, thread, offers, ms, unsafe, t3122>>

TypeOK ==
    /\ l1 \in [Channel -> L1]
    /\ decoding \in [Channel -> Frame]
    /\ thread \in [Channel -> Thread]
    /\ offers \in SUBSET Offer
    /\ ms \in [Handsets -> Mobile]
    /\ unsafe \in [Channel -> BOOLEAN]
    /\ t3122 \in T3122Min .. T3122Max

-----------------------------------------------------------------------------
(* L1Decoder.  The encoder is opened and closed with it and has no timer. *)

recyclable(x) == 0 \in {x.t3101, x.t3109, x.t3111}
active(x) == x.rx /\ ~recyclable(x)

Faulty_opened(x) == [x EXCEPT !.t3109 = Off, !.t3101 = T3101, !.rx = TRUE]
opened(x) ==
    [x EXCEPT !.t3111 = Off, !.t3109 = Off, !.t3101 = T3101, !.rx = TRUE]

Faulty_closed(x, hardRelease) ==
    [x EXCEPT !.t3101 = Off, !.t3109 = Off, !.t3111 = IF hardRelease THEN 0 ELSE @,
              !.rx = FALSE]
closed(x, hardRelease) ==
    [x EXCEPT !.t3101 = Off, !.t3109 = Off, !.t3111 = IF hardRelease THEN 0 ELSE T3111,
              !.rx = FALSE]

\* A good FACCH or SDCCH frame stops T3101, good speech does not.
Faulty_handleGoodFrame(x, frame) == [x EXCEPT !.t3101 = IF frame = "facch" THEN Off ELSE @]
handleGoodFrame(x, frame) ==
    [x EXCEPT !.t3109 = T3109, !.t3101 = IF frame = "facch" THEN Off ELSE @]

aged(x) == [x EXCEPT !.t3101 = Running(@), !.t3109 = Running(@), !.t3111 = Running(@)]

-----------------------------------------------------------------------------
(* Who has been told that a channel is theirs. *)

Present(c) == {h \in Handsets : ms[h].at = c}
Offered(c) == {o \in offers : o.ch = c}
Reserving(c) == {d \in Channel : thread[d].pc = "setup" /\ thread[d].tch = c}

claimed(c, threads) ==
    Present(c) # {} \/ Offered(c) # {} \/ Reserving(c) \intersect threads # {}

\* LogicalChannel::open of c, for the thread d or for nobody's.
open(c, d) ==
    /\ l1' = [l1 EXCEPT ![c] = opened(@)]
    /\ unsafe' = [unsafe EXCEPT ![c] = claimed(c, Channel \ {d})]

close(c, hardRelease) ==
    /\ l1' = [l1 EXCEPT ![c] = closed(@, hardRelease)]
    /\ unsafe' = [unsafe EXCEPT ![c] = @ \/ hardRelease]

Faulty_Available(pool) == {c \in pool : ~active(l1[c])}
Available(pool) == {c \in pool : recyclable(l1[c])}
getChan(pool) == CHOOSE c \in Available(pool) : \A d \in Available(pool) : c <= d

-----------------------------------------------------------------------------
(* The access grant thread. *)

Smaller(a, b) == IF a < b THEN a ELSE b
Larger(a, b) == IF a < b THEN b ELSE a

Faulty_growT3122 == t3122' \in {t3122 + r \div 2 : r \in 0 .. t3122 - 1}
growT3122 == t3122' \in {Smaller(t3122 + r \div 2, T3122Max) : r \in 0 .. t3122 - 1}
shrinkT3122 == t3122' \in {Larger(t3122 - r \div 2, T3122Min) : r \in 0 .. t3122 - 1}

Pool(need) == IF need = "TCH" THEN TCH ELSE SDCCH

\* A location update leaves the last Reserve channels alone.
congested(need) ==
    \/ need = "LUR" /\ Cardinality(Available(SDCCH)) <= Reserve
    \/ Available(Pool(need)) = {}

grants(h, need) ==
    /\ ~congested(need)
    /\ LET c == getChan(Pool(need)) IN
        /\ open(c, None)
        /\ offers' = offers \union {[ch |-> c, to |-> h, from |-> None, t |-> 0]}
    /\ shrinkT3122
    /\ UNCHANGED <<decoding, thread, ms>>

rejects(need) ==
    /\ congested(need)
    /\ growT3122
    /\ UNCHANGED <<l1, decoding, thread, offers, ms, unsafe>>

\* The burst waited too long to be answered.
tooLate ==
    /\ growT3122
    /\ UNCHANGED <<l1, decoding, thread, offers, ms, unsafe>>

\* The handset repeats its request until it is answered, so it may be answered twice.
AccessGrantResponder(h) ==
    /\ ms[h].at = None
    /\ Cardinality({o \in offers : o.to = h}) < MaxRach
    /\ tooLate \/ \E need \in Needs : grants(h, need) \/ rejects(need)

-----------------------------------------------------------------------------
(* The radio: bursts that reach L1, and the data link's primitives. *)

contact(m, frame) ==
    CASE frame = "facch" /\ m.st \in {"new", "on"} -> [m EXCEPT !.st = "on", !.t = 0]
      [] frame = "speech" /\ m.st = "on" -> [m EXCEPT !.t = 0]
      [] OTHER -> m

writeLowSide(h, frame) ==
    LET c == ms[h].at IN
    /\ c # None
    /\ frame = "speech" => c \in TCH /\ ms[h].st = "on"
    /\ active(l1[c])
    /\ decoding[c] = "none"
    /\ decoding' = [decoding EXCEPT ![c] = frame]
    /\ ms' = [ms EXCEPT ![h] = contact(@, frame)]
    /\ UNCHANGED <<l1, thread, offers, unsafe, t3122>>

\* The lock is taken only now: the channel may have been closed and opened since.
goodFrame(c) ==
    /\ decoding[c] # "none"
    /\ l1' = [l1 EXCEPT ![c] = handleGoodFrame(@, decoding[c])]
    /\ decoding' = [decoding EXCEPT ![c] = "none"]
    /\ UNCHANGED <<thread, offers, ms, unsafe, t3122>>

establish(c) ==
    /\ thread[c].pc = "wait"
    /\ \E h \in Present(c) : ms[h].st = "on"
    /\ thread' = [thread EXCEPT ![c].pc = "serve"]
    /\ UNCHANGED <<l1, decoding, offers, ms, unsafe, t3122>>

\* After DISC, from the handset or answered by it.
release(c) ==
    /\ active(l1[c])
    /\ \E h \in Present(c) : ms[h].st = "leaving"
    /\ close(c, FALSE)
    /\ UNCHANGED <<decoding, thread, offers, ms, t3122>>

\* The data link gave up after N200 repeats: abnormalRelease writes ERROR, which
\* closes the encoder, and by clearState at once RELEASE, which closes both.  The
\* link has been up since the channel was opened: a frame has stopped T3101.
error(c) ==
    /\ l1[c].rx /\ l1[c].t3101 = Off
    /\ l1' = [l1 EXCEPT ![c] = closed(@, FALSE)]
    /\ unsafe' = [unsafe EXCEPT ![c] =
            \/ @ \/ Offered(c) # {} \/ Reserving(c) # {}
            \/ \E h \in Present(c) : ms[h].st # "leaving"]
    /\ UNCHANGED <<decoding, thread, offers, ms, t3122>>

-----------------------------------------------------------------------------
(* The dispatcher thread of channel c. *)

idleThread == [pc |-> "wait", tch |-> None, t |-> 0]
returns(c) == thread' = [thread EXCEPT ![c] = idleThread]

\* Every transaction ends with a ChannelRelease, which the handset may miss.
channelRelease(c) ==
    /\ thread[c].pc \in {"serve", "setup"}
    /\ returns(c)
    /\ UNCHANGED <<l1, decoding, offers, ms, unsafe, t3122>>

IMSIDetach(c) ==
    /\ thread[c].pc = "serve"
    /\ returns(c)
    /\ close(c, TRUE)
    /\ UNCHANGED <<decoding, offers, ms, t3122>>

\* MOCStarter or MTCStarter on an SDCCH.
allocateTCH(c) ==
    /\ thread[c].pc = "serve" /\ c \in SDCCH
    /\ Available(TCH) # {}
    /\ LET d == getChan(TCH) IN
        /\ open(d, None)
        /\ thread' = [thread EXCEPT ![c] = [pc |-> "setup", tch |-> d, t |-> 0]]
    /\ UNCHANGED <<decoding, offers, ms, t3122>>

\* The command goes to the handset at the other end of the data link, if any.
assignTCHF(c) ==
    /\ thread[c].pc = "setup"
    /\ LET d == thread[c].tch IN
        /\ open(d, c)
        /\ \/ offers' = offers
           \/ \E h \in Present(c) :
                /\ ms[h].st = "on"
                /\ offers' = offers \union {[ch |-> d, to |-> h, from |-> c, t |-> 0]}
    /\ thread' = [thread EXCEPT ![c].pc = "assigning", ![c].t = 0]
    /\ UNCHANGED <<decoding, ms, t3122>>

\* Something came on the SDCCH.  The data link of the TCH is down, so that
\* TCH->send(RELEASE) does nothing.
assignmentFailed(c) ==
    /\ thread[c].pc = "assigning"
    /\ active(l1[c]) /\ \E h \in Present(c) : ms[h].st = "on"
    /\ returns(c)
    /\ offers' = {o \in offers : o.from # c}
    /\ UNCHANGED <<l1, decoding, ms, unsafe, t3122>>

\* Nothing came on the SDCCH: taken for success.
assigned(c) ==
    /\ thread[c].pc = "assigning" /\ thread[c].t = T3107
    /\ returns(c)
    /\ close(c, TRUE)
    /\ UNCHANGED <<decoding, offers, ms, t3122>>

Dispatcher(c) ==
    \/ channelRelease(c) \/ IMSIDetach(c) \/ allocateTCH(c)
    \/ assignTCHF(c) \/ assignmentFailed(c) \/ assigned(c)

-----------------------------------------------------------------------------
(* The handset. *)

takesAssignment(o) ==
    /\ ms[o.to].at = o.from
    /\ o.from # None => ms[o.to].st = "on"
    /\ ms' = [ms EXCEPT ![o.to] = [at |-> o.ch, st |-> "new", t |-> o.t]]
    /\ offers' = {x \in offers : x.to # o.to}
    /\ UNCHANGED <<l1, decoding, thread, unsafe, t3122>>

misses(o) ==
    /\ offers' = offers \ {o}
    /\ UNCHANGED <<l1, decoding, thread, ms, unsafe, t3122>>

disconnects(h) ==
    /\ ms[h].st = "on"
    /\ ms' = [ms EXCEPT ![h].st = "leaving", ![h].t = 0]
    /\ UNCHANGED <<l1, decoding, thread, offers, unsafe, t3122>>

goes(h) ==
    /\ ms[h].at # None
    /\ ms' = [ms EXCEPT ![h] = [at |-> None, st |-> "off", t |-> 0]]
    /\ UNCHANGED <<l1, decoding, thread, offers, unsafe, t3122>>

-----------------------------------------------------------------------------
(* The clocks. *)

Limit(m) == CASE m.st = "new" -> Reach
              [] m.st = "on" -> RadioLinkTimeout
              [] OTHER -> T3110
Stays(h) == ms[h].at # None => ms[h].t < Limit(ms[h])
Waits(c) == /\ thread[c].pc = "setup" => thread[c].t < MaxSetup
            /\ thread[c].pc = "assigning" => thread[c].t < T3107
Timed(c) == thread[c].pc \in {"setup", "assigning"}

tick ==
    /\ \A c \in Channel : decoding[c] = "none" /\ Waits(c)
    /\ \A h \in Handsets : Stays(h)
    /\ \A o \in offers : o.t < Reach
    /\ l1' = [c \in Channel |-> aged(l1[c])]
    /\ thread' = [c \in Channel |->
                    IF Timed(c) THEN [thread[c] EXCEPT !.t = @ + 1] ELSE thread[c]]
    /\ ms' = [h \in Handsets |->
                IF ms[h].at # None THEN [ms[h] EXCEPT !.t = @ + 1] ELSE ms[h]]
    /\ offers' = {[o EXCEPT !.t = @ + 1] : o \in offers}
    /\ UNCHANGED <<decoding, unsafe, t3122>>

-----------------------------------------------------------------------------
\* createCombinationI and createCombinationVII open every channel.
Init ==
    /\ l1 = [c \in Channel |-> [t3101 |-> T3101, t3109 |-> Off, t3111 |-> Off,
                                rx |-> TRUE]]
    /\ decoding = [c \in Channel |-> "none"]
    /\ thread = [c \in Channel |-> idleThread]
    /\ offers = {}
    /\ ms = [h \in Handsets |-> [at |-> None, st |-> "off", t |-> 0]]
    /\ unsafe = [c \in Channel |-> FALSE]
    /\ t3122 = T3122Min

Next ==
    \/ tick
    \/ \E c \in Channel :
        goodFrame(c) \/ establish(c) \/ release(c) \/ error(c) \/ Dispatcher(c)
    \/ \E h \in Handsets :
        AccessGrantResponder(h) \/ disconnects(h) \/ goes(h)
          \/ \E frame \in {"facch", "speech"} : writeLowSide(h, frame)
    \/ \E o \in offers : takesAssignment(o) \/ misses(o)

Spec == Init /\ [][Next]_vars

\* Time goes on.  What has reached its limit happens first, as tick waits for it.
Fairness == []<><<tick>>_vars

FairSpec == Spec /\ Fairness

-----------------------------------------------------------------------------
\* One of a channel's timers is always on, so that it cannot be lost for ever
\* (L1Decoder::open, close and handleGoodFrame).
AlwaysTimed ==
    \A c \in Channel : \E t \in {l1[c].t3101, l1[c].t3109, l1[c].t3111} : t # Off

\* "Return true if the channel is safely abandoned": when a timer of the channel
\* has run out there is no handset on it or on its way to it, unless one of the
\* things that UnsafeOnlyIf names was done to it.
SafelyAbandoned ==
    \A c \in Channel :
        recyclable(l1[c]) /\ ~unsafe[c] => Present(c) = {} /\ Offered(c) = {}

\* No channel gets a second claimant, or is closed under one, but in three ways:
\* HARDRELEASE; a data link that failed (abnormalRelease), although L1 wants "to let
\* the receiver time out on its own" then; and T3101 running out on a TCH between
\* allocateTCH and assignTCHF.
hardReleased(c) == l1'[c].t3111 = 0 /\ ~l1'[c].rx /\ thread[c].pc \in {"serve", "assigning"}
linkFailed(c) == l1'[c].t3111 = T3111 /\ ~l1'[c].rx /\ l1[c].rx
UnsafeOnlyIf ==
    [][\A c \in Channel : ~unsafe[c] /\ unsafe'[c] =>
        \/ hardReleased(c) \/ linkFailed(c)
        \/ \E d \in Reserving(c) : thread[d].t >= T3101]_vars

\* A channel without a handset on it is given back, whatever became of its thread.
Recovered == \A c \in Channel : []<>(recyclable(l1[c]) \/ Present(c) # {})
=============================================================================
