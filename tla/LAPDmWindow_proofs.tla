------------------------- MODULE LAPDmWindow_proofs -------------------------
(***************************************************************************)
(* Theorems about LAPDm: the base station's window of one I-frame, the     *)
(* timer that guards it and the acknowledgements that move it.             *)
(*                                                                         *)
(* What the base station knows of its window, V(A) and V(S), can only be   *)
(* right if the handset's V(R) and all that is on the radio link agree     *)
(* with it.  They form a chain: V(A), then the N(R) on their way to the    *)
(* base station, then the handset's V(R), then the N(S) + 1 on their way   *)
(* to it, then V(S).  Along it there are only two values, V(A) and V(S),   *)
(* and once the second is met the first does not come again.               *)
(*                                                                         *)
(* In this module x is the base station's endpoint, y the handset's, w the *)
(* handset's L3 thread.                                                    *)
(***************************************************************************)
EXTENDS LAPDm_proofs, SequenceTheorems

\* The link the theorems are about: SAP0, where the handset establishes, and the base
\* station is never asked to establish the link again under the handset.  It is not, if
\* the handset's SABM carries its identity, or if no other handset is there and none of
\* the handset's threads starts T200 late.
OneHandset ==
    /\ Sapi = 0
    /\ Access # NoInfo \/ (MaxRival = 0 /\ ~Preempted)

\* The handset renews N(R) in what it repeats.  If it does not, an N(R) of long ago can
\* acknowledge what it has not received.
HandsetRenews == "ms" \in Refresh

CarriesAck(f) == f.t \in {"I", "RR", "REJ"}
Free(q, T) == \A k \in DOMAIN q : q[k].t \notin T

\* Along q, N(R) is lo and then, from some frame on, hi; the same for N(S) + 1.
AcksRise(q, lo, hi) ==
    /\ \A k \in DOMAIN q : CarriesAck(q[k]) => q[k].nr \in {lo, hi}
    /\ \A j, k \in DOMAIN q :
          j < k /\ CarriesAck(q[j]) /\ CarriesAck(q[k]) /\ q[j].nr = hi => q[k].nr = hi
SentRise(q, lo, hi) ==
    /\ \A k \in DOMAIN q : q[k].t = "I" => Mod(q[k].ns + 1) \in {lo, hi}
    /\ \A j, k \in DOMAIN q :
          j < k /\ q[j].t = "I" /\ q[k].t = "I" /\ Mod(q[j].ns + 1) = hi
             => Mod(q[k].ns + 1) = hi

\* Every SABM carries an identity.
AskedByName(q) == \A k \in DOMAIN q : q[k].t = "SABM" => q[k].info # NoInfo
\* Every SABM is ahead of the acknowledgements.
AsksFirst(q) ==
    \A j, k \in DOMAIN q : j < k /\ CarriesAck(q[j]) => q[k].t # "SABM"

Up(x) == x.state \in Multiframe
\* Opened, and not established since.
Unused(x) == x.state = "LinkReleased" /\ x.l1 # "closed"

\* The base station's own part.
Timed(x) ==
    /\ Up(x) => /\ HandsetRenews => /\ x.VS \in {x.VA, Mod(x.VA + 1)}
                                     /\ x.t200 <=> x.VS # x.VA
                /\ x.t200 => x.sent.t = "I" /\ Mod(x.sent.ns + 1) = x.VS
                /\ ~x.fresh
    /\ ~Up(x) => x.VS = x.VA
    /\ x.sent.t # "SABM" /\ Free(x.tx, {"SABM"})

\* The handset has not been in multiframe operation, and may yet be.
Waiting(y, w) ==
    y.state = "AwaitingEstablish" \/ w.pc = "estSet" \/ (w.pc = "idle" /\ y.ind = "none")
\* The handset has not sent its SABM.
NotAsked(y, w) == w.pc \in {"estSet", "estSABM"} \/ (w.pc = "idle" /\ y.ind = "none")

\* The handset's own part.
Asks(y, w) ==
    /\ y.ind = "none" => /\ w.pc \in {"idle", "estSet", "estSABM", "estTimer", "estRead"}
                         /\ w.pc = "idle" => y.state = "LinkReleased"
    /\ w.pc = "estSet" => y.state = "LinkReleased"
    /\ y.sent.t \notin {"RR", "REJ"}
    /\ Waiting(y, w) => Free(y.tx, {"I", "RR", "REJ"}) /\ ~CarriesAck(y.sent)

\* Before the link is established nothing of it is on its way.
NotYet(x, y) ==
    Unused(x) => Free(x.tx, {"I", "UA"}) /\ Free(y.tx, {"I", "RR", "REJ"}) /\ ~Up(y)

\* The chain, if the handset renews N(R).
InStep(x, y, w) ==
    HandsetRenews /\ Up(x) =>
        /\ AcksRise(y.tx, x.VA, x.VS)
        /\ Up(y) => /\ y.VR \in {x.VA, x.VS}
                    /\ AcksRise(y.tx, x.VA, y.VR) /\ SentRise(x.tx, y.VR, x.VS)
        /\ Waiting(y, w) => x.VA = 0 /\ SentRise(x.tx, 0, x.VS)

\* No SABM asks for the link again: either all of them carry an identity,
Named(y) ==
    Access # NoInfo =>
        /\ AskedByName(y.tx)
        /\ y.sent.t = "SABM" => y.sent.info # NoInfo
\* or none is left when the first acknowledgement ends the establishment (eip).
Alone(x, y, w) ==
    Access = NoInfo =>
        /\ NotAsked(y, w) =>
              /\ ~Up(x) /\ ~Up(y) /\ Free(x.tx, {"UA"}) /\ y.sent.t = "UI"
              /\ Free(y.tx, {"I", "RR", "REJ", "SABM", "DISC"})
        /\ w.pc # "estTimer"
        /\ AsksFirst(y.tx)
        /\ Up(y) /\ y.t200 => y.sent.t # "SABM"
        /\ Up(x) /\ ~x.eip => Free(y.tx, {"SABM"}) /\ y.state # "AwaitingEstablish"

Chain(x, y, w) ==
    /\ Timed(x) /\ Asks(y, w) /\ NotYet(x, y)
    /\ InStep(x, y, w) /\ Named(y) /\ Alone(x, y, w)
-----------------------------------------------------------------------------
(***************************************************************************)
(* Lemmas about the radio link.                                            *)
(***************************************************************************)
LEMMA TailFacts ==
    ASSUME NEW q \in Seq(Frame), q # <<>>
    PROVE  /\ Head(q) \in Frame /\ Tail(q) \in Seq(Frame)
           /\ 1 \in DOMAIN q /\ q[1] = Head(q)
           /\ \A k \in DOMAIN Tail(q) : /\ k \in Nat /\ k + 1 \in DOMAIN q
                                        /\ 1 < k + 1 /\ Tail(q)[k] = q[k + 1]
<1>1. /\ Head(q) \in Frame /\ Tail(q) \in Seq(Frame) /\ Len(Tail(q)) = Len(q) - 1
      /\ \A k \in 1 .. Len(Tail(q)) : Tail(q)[k] = q[k + 1]
  BY HeadTailProperties
<1>2. DOMAIN q = 1 .. Len(q) /\ Len(q) \in Nat /\ Len(q) # 0 BY EmptySeq
<1>3. DOMAIN Tail(q) = 1 .. Len(Tail(q)) BY <1>1
<1>4. q[1] = Head(q) OBVIOUS
<1> QED BY <1>1, <1>2, <1>3, <1>4

LEMMA AppendFacts ==
    ASSUME NEW q \in Seq(Frame), NEW f \in Frame
    PROVE  \A k \in DOMAIN Append(q, f) :
              /\ k \in Nat
              /\ \/ k \in DOMAIN q /\ k < Len(q) + 1 /\ Append(q, f)[k] = q[k]
                 \/ k = Len(q) + 1 /\ Append(q, f)[k] = f
<1>1. /\ Append(q, f) \in Seq(Frame) /\ Len(Append(q, f)) = Len(q) + 1
      /\ \A k \in 1 .. Len(q) : Append(q, f)[k] = q[k]
      /\ Append(q, f)[Len(q) + 1] = f
  BY AppendProperties
<1>2. DOMAIN q = 1 .. Len(q) /\ Len(q) \in Nat /\ DOMAIN Append(q, f) = 1 .. Len(q) + 1
  BY <1>1
<1> QED BY <1>1, <1>2

LEMMA FreeTail ==
    ASSUME NEW q \in Seq(Frame), q # <<>>, NEW T, Free(q, T)
    PROVE  Free(Tail(q), T) /\ Head(q).t \notin T
  BY TailFacts DEF Free

LEMMA FreeAppend ==
    ASSUME NEW q \in Seq(Frame), NEW f \in Frame, NEW T, Free(q, T), f.t \notin T
    PROVE  Free(Append(q, f), T)
  BY AppendFacts DEF Free

LEMMA AcksTail ==
    ASSUME NEW q \in Seq(Frame), q # <<>>, NEW lo, NEW hi, AcksRise(q, lo, hi)
    PROVE  /\ AcksRise(Tail(q), lo, hi)
           /\ CarriesAck(Head(q)) =>
                 /\ Head(q).nr \in {lo, hi}
                 /\ Head(q).nr = hi => AcksRise(Tail(q), hi, hi)
<1>1. /\ 1 \in DOMAIN q /\ q[1] = Head(q)
      /\ \A k \in DOMAIN Tail(q) : /\ k \in Nat /\ k + 1 \in DOMAIN q
                                   /\ 1 < k + 1 /\ Tail(q)[k] = q[k + 1]
  BY TailFacts
<1>2. AcksRise(Tail(q), lo, hi)
  <2>1. ASSUME NEW j \in DOMAIN Tail(q), NEW k \in DOMAIN Tail(q), j < k
        PROVE  j + 1 < k + 1
    BY <1>1, <2>1
  <2> QED BY <1>1, <2>1 DEF AcksRise
<1>3. CarriesAck(Head(q)) => Head(q).nr \in {lo, hi} BY <1>1 DEF AcksRise
<1>4. ASSUME CarriesAck(Head(q)), Head(q).nr = hi PROVE AcksRise(Tail(q), hi, hi)
  BY <1>1, <1>4 DEF AcksRise
<1> QED BY <1>2, <1>3, <1>4

LEMMA AcksAppend ==
    ASSUME NEW q \in Seq(Frame), NEW f \in Frame, NEW lo, NEW hi, AcksRise(q, lo, hi),
           CarriesAck(f) => f.nr = hi
    PROVE  AcksRise(Append(q, f), lo, hi)
<1>1. Len(q) \in Nat OBVIOUS
<1>2. ASSUME NEW j \in DOMAIN q PROVE j \in Nat /\ j < Len(q) + 1 OBVIOUS
<1> QED BY <1>1, <1>2, AppendFacts DEF AcksRise

LEMMA AskedByNameAppend ==
    ASSUME NEW q \in Seq(Frame), NEW f \in Frame, AskedByName(q),
           f.t = "SABM" => f.info # NoInfo
    PROVE  AskedByName(Append(q, f))
<1> DEFINE r == Append(q, f)
<1>1. \A k \in DOMAIN r : (k \in DOMAIN q /\ r[k] = q[k]) \/ r[k] = f BY AppendFacts
<1> HIDE DEF r
<1>2. AskedByName(r) BY <1>1 DEF AskedByName
<1> QED BY <1>2 DEF r

LEMMA AsksFirstAppend ==
    ASSUME NEW q \in Seq(Frame), NEW f \in Frame, AsksFirst(q),
           f.t # "SABM" \/ Free(q, {"I", "RR", "REJ"})
    PROVE  AsksFirst(Append(q, f))
<1> DEFINE r == Append(q, f)
<1>1. Len(q) \in Nat OBVIOUS
<1>2. \A k \in DOMAIN r : /\ k \in Nat
                          /\ \/ k \in DOMAIN q /\ k < Len(q) + 1 /\ r[k] = q[k]
                             \/ k = Len(q) + 1 /\ r[k] = f
  BY AppendFacts
<1> HIDE DEF r
<1>3. ASSUME NEW j \in DOMAIN r, NEW k \in DOMAIN r, j < k, CarriesAck(r[j])
      PROVE  r[k].t # "SABM"
  <2>1. j \in DOMAIN q /\ r[j] = q[j] BY <1>1, <1>2, <1>3
  <2>2. CASE k \in DOMAIN q /\ r[k] = q[k] BY <1>3, <2>1, <2>2 DEF AsksFirst
  <2>3. CASE r[k] = f BY <1>3, <2>1, <2>3 DEF Free, CarriesAck
  <2> QED BY <1>2, <2>2, <2>3
<1> QED BY <1>3 DEF AsksFirst, r

LEMMA SentTail ==
    ASSUME NEW q \in Seq(Frame), q # <<>>, NEW lo, NEW hi, SentRise(q, lo, hi)
    PROVE  /\ SentRise(Tail(q), lo, hi)
           /\ Head(q).t = "I" =>
                 /\ Mod(Head(q).ns + 1) \in {lo, hi}
                 /\ Mod(Head(q).ns + 1) = hi => SentRise(Tail(q), hi, hi)
<1>1. /\ 1 \in DOMAIN q /\ q[1] = Head(q)
      /\ \A k \in DOMAIN Tail(q) : /\ k \in Nat /\ k + 1 \in DOMAIN q
                                   /\ 1 < k + 1 /\ Tail(q)[k] = q[k + 1]
  BY TailFacts
<1>2. SentRise(Tail(q), lo, hi)
  <2>1. ASSUME NEW j \in DOMAIN Tail(q), NEW k \in DOMAIN Tail(q), j < k
        PROVE  j + 1 < k + 1
    BY <1>1, <2>1
  <2> QED BY <1>1, <2>1 DEF SentRise
<1>3. Head(q).t = "I" => Mod(Head(q).ns + 1) \in {lo, hi} BY <1>1 DEF SentRise
<1>4. ASSUME Head(q).t = "I", Mod(Head(q).ns + 1) = hi PROVE SentRise(Tail(q), hi, hi)
  BY <1>1, <1>4 DEF SentRise
<1> QED BY <1>2, <1>3, <1>4

LEMMA SentAppend ==
    ASSUME NEW q \in Seq(Frame), NEW f \in Frame, NEW lo, NEW hi, SentRise(q, lo, hi),
           f.t = "I" => Mod(f.ns + 1) = hi
    PROVE  SentRise(Append(q, f), lo, hi)
<1>1. Len(q) \in Nat OBVIOUS
<1>2. ASSUME NEW j \in DOMAIN q PROVE j \in Nat /\ j < Len(q) + 1 OBVIOUS
<1> QED BY <1>1, <1>2, AppendFacts DEF SentRise

\* A chain of one value can grow to any second one.
LEMMA RiseTo ==
    ASSUME NEW q, NEW lo, NEW hi
    PROVE  /\ AcksRise(q, lo, lo) => AcksRise(q, lo, hi)
           /\ SentRise(q, lo, lo) => SentRise(q, lo, hi)
  BY DEF AcksRise, SentRise

LEMMA FreeRises ==
    ASSUME NEW q, NEW lo, NEW hi
    PROVE  /\ Free(q, {"I", "RR", "REJ"}) => AcksRise(q, lo, hi)
           /\ Free(q, {"I"}) => SentRise(q, lo, hi)
  BY DEF Free, AcksRise, SentRise, CarriesAck

LEMMA NextNumber ==
    ASSUME NEW j \in SeqNum, NEW k \in SeqNum
    PROVE  /\ Mod(j + 1) # j
           /\ Mod(j + 1) = Mod(k + 1) => j = k
  BY SeqModAssumption DEF SeqNum, Mod
-----------------------------------------------------------------------------
(***************************************************************************)
(* What the procedures leave behind, in what the chain looks at.           *)
(***************************************************************************)
\* f was written to L1, or lost on the way to it; nothing else happened.
Said(x, z, f) ==
    Sent(x, z) /\ f \in Frame /\ z.sent = x.sent /\ z.tx \in {x.tx, Append(x.tx, f)}

\* The link was released; at most DM was sent.
Ended(x, z) ==
    /\ z \in Endpoint /\ z.state = "LinkReleased" /\ z.l1 = "closed"
    /\ z.sent = x.sent /\ z.ind \notin {"none", "ESTABLISH"}
    /\ \E f \in Frame : f.t = "DM" /\ z.tx \in {x.tx, Append(x.tx, f)}

LEMMA EndpointTypes ==
    ASSUME NEW x \in Endpoint
    PROVE  /\ x.tx \in Seq(Frame) /\ x.VS \in SeqNum /\ x.VA \in SeqNum /\ x.VR \in SeqNum
           /\ x.sent \in Frame /\ x.t200 \in BOOLEAN /\ x.eip \in BOOLEAN
  BY DEF Endpoint, RadioLink

LEMMA WriteL1Said ==
    ASSUME NEW x \in Endpoint, NEW f \in Frame PROVE Said(x, writeL1(x, f), f)
<1>1. Sent(x, writeL1(x, f)) BY WriteL1Sent
<1>2. writeL1(x, f).sent = x.sent BY DEF writeL1, Endpoint
<1>3. writeL1(x, f).tx \in {x.tx, Append(x.tx, f)} BY DEF writeL1, Endpoint
<1> QED BY <1>1, <1>2, <1>3 DEF Said

LEMMA SendersSay ==
    ASSUME NEW x \in Endpoint, NEW F \in BOOLEAN, NEW i \in Identity
    PROVE  /\ \E f : Said(x, sendSFrameRR(x, F), f) /\ f.t = "RR" /\ f.nr = x.VR
           /\ \E f : Said(x, sendSFrameREJ(x, F), f) /\ f.t = "REJ" /\ f.nr = x.VR
           /\ \E f : Said(x, sendUFrameDM(x, F), f) /\ f.t = "DM"
           /\ \E f : Said(x, sendUFrameUA(x, F, i), f) /\ f.t = "UA"
           /\ \E f : Said(x, sendUFrameUI(x), f) /\ f.t = "UI"
<1>1. NoInfo \in Identity BY DEF Identity
<1>2. x.VR \in SeqNum BY DEF Endpoint
<1> DEFINE rr == MkFrame("RR", RBit(x), F, 0, x.VR, NoInfo)
           rej == MkFrame("REJ", RBit(x), F, 0, x.VR, NoInfo)
           dm == UFrame("DM", RBit(x), F, NoInfo)
           ua == UFrame("UA", RBit(x), F, i)
           ui == UFrame("UI", CBit(x), TRUE, NoInfo)
<1>3. rr \in Frame /\ rr.t = "RR" /\ rr.nr = x.VR
  BY <1>1, <1>2, Zeros, Bits DEF MkFrame, Frame
<1>4. rej \in Frame /\ rej.t = "REJ" /\ rej.nr = x.VR
  BY <1>1, <1>2, Zeros, Bits DEF MkFrame, Frame
<1>5. dm \in Frame /\ ua \in Frame /\ ui \in Frame BY <1>1, Bits, UFrameType
<1>6. dm.t = "DM" /\ ua.t = "UA" /\ ui.t = "UI" BY DEF UFrame, MkFrame
<1>7. /\ Said(x, sendSFrameRR(x, F), rr) /\ Said(x, sendSFrameREJ(x, F), rej)
      /\ Said(x, sendUFrameDM(x, F), dm) /\ Said(x, sendUFrameUA(x, F, i), ua)
      /\ Said(x, sendUFrameUI(x), ui)
  BY <1>3, <1>4, <1>5, WriteL1Said
     DEF sendSFrameRR, sendSFrameREJ, sendUFrameDM, sendUFrameUA, sendUFrameUI
<1> HIDE DEF rr, rej, dm, ua, ui
<1> QED BY <1>3, <1>4, <1>6, <1>7

LEMMA ClearCountersFields ==
    ASSUME NEW x \in Endpoint
    PROVE  LET z == clearCounters(x) IN
           /\ z \in Endpoint /\ z.state = x.state /\ z.l1 = x.l1 /\ z.ind = x.ind
           /\ z.VS = 0 /\ z.VA = 0 /\ z.VR = 0 /\ z.t200 = FALSE /\ z.eip = x.eip
           /\ z.sent = x.sent /\ z.tx = x.tx /\ z.fresh = x.fresh
<1>1. clearCounters(x) \in Endpoint BY ClearCountersType
<1>2. clearCounters(x) = [x EXCEPT !.t200 = FALSE, !.VS = 0, !.VA = 0, !.VR = 0, !.RC = 0,
                                   !.recvBuffer = <<>>, !.discard = TRUE]
  BY DEF clearCounters
<1> QED BY <1>1, <1>2 DEF Endpoint

LEMMA ClearStateEnds ==
    ASSUME Sapi = 0, NEW x \in Endpoint, NEW p \in Primitives \ {"ESTABLISH"}
    PROVE  LET z == clearState(x, p) IN Ended(x, z) /\ z.tx = x.tx /\ z.VS = z.VA
<1> DEFINE c == clearCounters(x)
           z == clearState(x, p)
<1>1. /\ c \in Endpoint /\ c.VS = 0 /\ c.VA = 0 /\ c.sent = x.sent /\ c.tx = x.tx
  BY ClearCountersFields
<1>2. z \in Endpoint BY ClearStateReleases DEF Released
<1>3. z = releaseLink(c, p) BY DEF clearState
<1> HIDE DEF c, z
<1>4. /\ z.state = "LinkReleased" /\ z.l1 = "closed" /\ z.ind = p
      /\ z.VS = 0 /\ z.VA = 0 /\ z.sent = x.sent /\ z.tx = x.tx
  BY <1>1, <1>3 DEF releaseLink, indicate, writeL1Release, Endpoint
<1>5. \E f \in Frame : f.t = "DM"
  <2>1. UFrame("DM", 0, TRUE, NoInfo) \in Frame BY UFrameType DEF Identity
  <2>2. UFrame("DM", 0, TRUE, NoInfo).t = "DM" BY DEF UFrame, MkFrame
  <2> QED BY <2>1, <2>2
<1>6. p \notin {"none", "ESTABLISH"} BY DEF Primitives
<1> QED BY <1>2, <1>4, <1>5, <1>6 DEF Ended, z

LEMMA AbnormalEnds ==
    ASSUME Sapi = 0, NEW x \in Endpoint
    PROVE  LET z == abnormalRelease(x) IN Ended(x, z) /\ z.VS = z.VA
<1> DEFINE a == indicate(x, "ERROR")
           d == sendUFrameDM(a, TRUE)
           c == writeL1Error(d)
<1>1. a \in Endpoint /\ a.sent = x.sent /\ a.tx = x.tx
  BY DEF indicate, Endpoint, Indication, Primitives
<1> HIDE DEF a
<1>2. PICK f : Said(a, d, f) /\ f.t = "DM" BY <1>1, SendersSay DEF Identity
<1>3. d \in Endpoint /\ d.sent = x.sent /\ f \in Frame /\ d.tx \in {x.tx, Append(x.tx, f)}
  BY <1>1, <1>2 DEF Said, Sent
<1> HIDE DEF d
<1>4. c \in Endpoint /\ c.sent = x.sent /\ c.tx = d.tx
  BY <1>3 DEF writeL1Error, Endpoint, L1State
<1> HIDE DEF c
<1>5. LET z == clearState(c, "RELEASE") IN Ended(c, z) /\ z.tx = c.tx /\ z.VS = z.VA
  BY <1>4, ClearStateEnds DEF Primitives
<1>6. abnormalRelease(x) = clearState(c, "RELEASE") BY DEF abnormalRelease, a, d, c
<1>7. ASSUME NEW z, Ended(c, z), z.tx = c.tx PROVE Ended(x, z)
  BY <1>2, <1>3, <1>4, <1>7 DEF Ended
<1> QED BY <1>5, <1>6, <1>7
-----------------------------------------------------------------------------
(***************************************************************************)
(* A frame leaves the radio link: what the chain says of it.               *)
(***************************************************************************)
FromHandset(x, y, w, f) ==
    /\ CarriesAck(f) =>
          /\ ~Unused(x) /\ ~Waiting(y, w)
          /\ HandsetRenews /\ Up(x) =>
                /\ f.nr \in {x.VA, x.VS}
                /\ f.nr = x.VS => AcksRise(y.tx, x.VS, x.VS) /\ (Up(y) => y.VR = x.VS)
          /\ Access = NoInfo => ~NotAsked(y, w) /\ Free(y.tx, {"SABM"})
    /\ f.t = "SABM" => /\ Access # NoInfo => f.info # NoInfo
                       /\ Access = NoInfo => ~NotAsked(y, w) /\ (Up(x) => x.eip)
    /\ f.t = "DISC" => (Access = NoInfo => ~NotAsked(y, w))

FromBase(x, y, w, f) ==
    /\ f.t # "SABM"
    /\ f.t = "UA" => ~Unused(x) /\ (Access = NoInfo => ~NotAsked(y, w))
    /\ HandsetRenews /\ f.t = "I" /\ Up(x) /\ Up(y) =>
          /\ Mod(f.ns + 1) \in {y.VR, x.VS}
          /\ Mod(f.ns + 1) = x.VS => SentRise(x.tx, x.VS, x.VS)

LEMMA HandsetFrameLeaves ==
    ASSUME NEW x \in Endpoint, NEW y \in Endpoint, NEW w, Chain(x, y, w), y.tx # <<>>
    PROVE  LET p == [y EXCEPT !.tx = Tail(y.tx)]
           IN  Chain(x, p, w) /\ FromHandset(x, p, w, Head(y.tx))
<1> DEFINE q == y.tx
           p == [y EXCEPT !.tx = Tail(q)]
           f == Head(q)
<1>1. q \in Seq(Frame) /\ q # <<>> BY EndpointTypes
<1>2. /\ p.state = y.state /\ p.VR = y.VR /\ p.ind = y.ind /\ p.sent = y.sent
      /\ p.t200 = y.t200 /\ p.tx = Tail(q)
  BY DEF Endpoint
<1>3. Waiting(p, w) = Waiting(y, w) /\ NotAsked(p, w) = NotAsked(y, w) /\ Up(p) = Up(y)
  BY <1>2 DEF Waiting, NotAsked, Up
<1>4. /\ 1 \in DOMAIN q /\ q[1] = f
      /\ \A k \in DOMAIN Tail(q) : /\ k \in Nat /\ k + 1 \in DOMAIN q
                                   /\ 1 < k + 1 /\ Tail(q)[k] = q[k + 1]
  BY <1>1, TailFacts
<1> HIDE DEF q, p, f
<1>5. \A T : Free(q, T) => Free(Tail(q), T) /\ f.t \notin T BY <1>4 DEF Free
<1>6. Asks(p, w) BY <1>2, <1>3, <1>5 DEF Chain, Asks, q
<1>7. NotYet(x, p) BY <1>2, <1>3, <1>5 DEF Chain, NotYet, q
<1>8. Named(p) /\ (Access # NoInfo /\ f.t = "SABM" => f.info # NoInfo)
  BY <1>2, <1>4 DEF Chain, Named, AskedByName, q
<1>9. \A lo, hi : AcksRise(q, lo, hi) =>
         /\ AcksRise(Tail(q), lo, hi)
         /\ CarriesAck(f) => /\ f.nr \in {lo, hi}
                             /\ f.nr = hi => AcksRise(Tail(q), hi, hi)
  BY <1>1, AcksTail DEF f
<1>10. InStep(x, p, w) BY <1>2, <1>3, <1>9 DEF Chain, InStep, q
<1>11. AsksFirst(q) => AsksFirst(Tail(q)) BY <1>4 DEF AsksFirst
<1>12. Alone(x, p, w) BY <1>2, <1>3, <1>5, <1>11 DEF Chain, Alone, q
<1>13. FromHandset(x, p, w, f)
  <2>1. ASSUME CarriesAck(f)
        PROVE  /\ ~Unused(x) /\ ~Waiting(y, w)
               /\ Access = NoInfo => ~NotAsked(y, w) /\ Free(Tail(q), {"SABM"})
    <3>1. ~Free(q, {"I", "RR", "REJ"}) BY <1>4, <2>1 DEF Free, CarriesAck
    <3>2. ~Free(q, {"I", "RR", "REJ", "SABM", "DISC"}) BY <3>1 DEF Free
    <3>3. ~Unused(x) /\ ~Waiting(y, w) /\ (Access = NoInfo => ~NotAsked(y, w))
      BY <3>1, <3>2 DEF Chain, NotYet, Asks, Alone, q
    <3>4. Access = NoInfo => Free(Tail(q), {"SABM"})
      BY <1>4, <2>1 DEF Chain, Alone, AsksFirst, Free, q
    <3> QED BY <3>3, <3>4
  <2>2. ASSUME CarriesAck(f), HandsetRenews, Up(x)
        PROVE  /\ f.nr \in {x.VA, x.VS}
               /\ f.nr = x.VS => AcksRise(Tail(q), x.VS, x.VS) /\ (Up(y) => y.VR = x.VS)
    BY <1>9, <2>2 DEF Chain, InStep, q
  <2>3. ASSUME f.t = "SABM", Access = NoInfo PROVE ~NotAsked(y, w) /\ (Up(x) => x.eip)
    BY <1>5, <2>3 DEF Chain, Alone, q
  <2>4. ASSUME f.t = "DISC", Access = NoInfo PROVE ~NotAsked(y, w)
    BY <1>5, <2>4 DEF Chain, Alone, q
  <2> QED BY <1>2, <1>3, <1>8, <2>1, <2>2, <2>3, <2>4 DEF FromHandset
<1>14. Chain(x, p, w) BY <1>6, <1>7, <1>8, <1>10, <1>12 DEF Chain
<1> QED BY <1>13, <1>14 DEF p, q, f

LEMMA BaseFrameLeaves ==
    ASSUME NEW x \in Endpoint, NEW y \in Endpoint, NEW w, Chain(x, y, w), x.tx # <<>>
    PROVE  LET p == [x EXCEPT !.tx = Tail(x.tx)]
           IN  Chain(p, y, w) /\ FromBase(p, y, w, Head(x.tx))
<1> DEFINE q == x.tx
           p == [x EXCEPT !.tx = Tail(q)]
           f == Head(q)
<1>1. q \in Seq(Frame) /\ q # <<>> BY EndpointTypes
<1>2. /\ p.state = x.state /\ p.VS = x.VS /\ p.VA = x.VA /\ p.sent = x.sent
      /\ p.t200 = x.t200 /\ p.eip = x.eip /\ p.l1 = x.l1 /\ p.fresh = x.fresh
      /\ p.tx = Tail(q)
  BY DEF Endpoint
<1>3. Up(p) = Up(x) /\ Unused(p) = Unused(x) BY <1>2 DEF Up, Unused
<1>4. \A T : Free(q, T) => Free(Tail(q), T) /\ f.t \notin T BY <1>1, FreeTail
<1>5. \A lo, hi : SentRise(q, lo, hi) =>
         /\ SentRise(Tail(q), lo, hi)
         /\ f.t = "I" => /\ Mod(f.ns + 1) \in {lo, hi}
                         /\ Mod(f.ns + 1) = hi => SentRise(Tail(q), hi, hi)
  BY <1>1, SentTail
<1> HIDE DEF q, p, f
<1>6. Timed(p) BY <1>2, <1>3, <1>4 DEF Chain, Timed, q
<1>7. NotYet(p, y) BY <1>2, <1>3, <1>4 DEF Chain, NotYet, q
<1>8. InStep(p, y, w) BY <1>2, <1>3, <1>5 DEF Chain, InStep, q
<1>9. Alone(p, y, w) BY <1>2, <1>3, <1>4 DEF Chain, Alone, q
<1>10. FromBase(p, y, w, f)
  <2>1. f.t # "SABM" BY <1>4 DEF Chain, Timed, q
  <2>2. f.t = "UA" => ~Unused(x) /\ (Access = NoInfo => ~NotAsked(y, w))
    BY <1>4 DEF Chain, NotYet, Alone, q
  <2>3. HandsetRenews /\ f.t = "I" /\ Up(x) /\ Up(y) =>
          /\ Mod(f.ns + 1) \in {y.VR, x.VS}
          /\ Mod(f.ns + 1) = x.VS => SentRise(Tail(q), x.VS, x.VS)
    BY <1>5 DEF Chain, InStep, q
  <2> QED BY <1>2, <1>3, <2>1, <2>2, <2>3 DEF FromBase
<1>11. Chain(p, y, w) BY <1>6, <1>7, <1>8, <1>9 DEF Chain
<1> QED BY <1>10, <1>11 DEF p, q, f
-----------------------------------------------------------------------------
(***************************************************************************)
(* What the base station does, step by step.                               *)
(***************************************************************************)
\* Nothing the chain looks at has changed, but for what was sent.
Steady(x, z) ==
    /\ Up(z) = Up(x) /\ (Unused(z) => Unused(x))
    /\ z.VS = x.VS /\ z.VA = x.VA /\ z.t200 = x.t200 /\ z.sent = x.sent
    /\ z.eip = x.eip /\ z.fresh = x.fresh

\* A base station may say f, as far as the chain goes.
MaySay(z, y, w, f) ==
    /\ f.t \notin {"I", "SABM"}
    /\ f.t = "UA" => ~Unused(z) /\ (Access = NoInfo => ~NotAsked(y, w))

LEMMA BaseSays ==
    ASSUME NEW x \in Endpoint, NEW y, NEW w, NEW z, Chain(x, y, w), Steady(x, z),
           z.tx = x.tx \/ \E f \in Frame : z.tx = Append(x.tx, f) /\ MaySay(z, y, w, f)
    PROVE  Chain(z, y, w)
<1>1. x.tx \in Seq(Frame) BY EndpointTypes
<1>2. \A T : Free(x.tx, T) /\ "UA" \notin T /\ T \subseteq {"I", "SABM"} => Free(z.tx, T)
  BY <1>1, FreeAppend DEF MaySay
<1>3. /\ Unused(z) \/ (Access = NoInfo /\ NotAsked(y, w)) =>
            (Free(x.tx, {"UA"}) => Free(z.tx, {"UA"}))
      /\ Unused(z) => (Free(x.tx, {"I", "UA"}) => Free(z.tx, {"I", "UA"}))
  BY <1>1, FreeAppend DEF MaySay
<1>4. \A lo, hi : SentRise(x.tx, lo, hi) => SentRise(z.tx, lo, hi)
  BY <1>1, SentAppend DEF MaySay
<1>5. Timed(z) BY <1>2 DEF Chain, Timed, Steady
<1>6. NotYet(z, y) BY <1>3 DEF Chain, NotYet, Steady
<1>7. InStep(z, y, w) BY <1>4 DEF Chain, InStep, Steady
<1>8. Alone(z, y, w) BY <1>3 DEF Chain, Alone, Steady
<1> QED BY <1>5, <1>6, <1>7, <1>8 DEF Chain

LEMMA BaseSaid ==
    ASSUME NEW x \in Endpoint, NEW y, NEW w, NEW z, NEW f, Chain(x, y, w), Said(x, z, f),
           MaySay(x, y, w, f)
    PROVE  Chain(z, y, w)
<1>1. Steady(x, z) /\ Unused(z) = Unused(x) BY DEF Said, Sent, Steady, Up, Unused
<1>2. z.tx = x.tx \/ z.tx = Append(x.tx, f) BY DEF Said
<1>3. MaySay(z, y, w, f) /\ f \in Frame BY <1>1 DEF MaySay, Said
<1> QED BY <1>1, <1>2, <1>3, BaseSays

\* Multiframe operation is over, and the channel not yet opened again.
LEMMA BaseStops ==
    ASSUME NEW x \in Endpoint, NEW y, NEW w, NEW z, Chain(x, y, w),
           ~Up(z), ~Unused(z), z.VS = z.VA, z.sent.t # "SABM",
           z.tx = x.tx \/ \E f \in Frame : z.tx = Append(x.tx, f) /\ MaySay(z, y, w, f)
    PROVE  Chain(z, y, w)
<1>1. x.tx \in Seq(Frame) BY EndpointTypes
<1>2. Free(x.tx, {"SABM"}) => Free(z.tx, {"SABM"}) BY <1>1, FreeAppend DEF MaySay
<1>3. Access = NoInfo /\ NotAsked(y, w) => (Free(x.tx, {"UA"}) => Free(z.tx, {"UA"}))
  BY <1>1, FreeAppend DEF MaySay
<1>4. Timed(z) BY <1>2 DEF Chain, Timed
<1>5. NotYet(z, y) /\ InStep(z, y, w) BY DEF NotYet, InStep
<1>6. Alone(z, y, w) BY <1>3 DEF Chain, Alone
<1> QED BY <1>4, <1>5, <1>6 DEF Chain

LEMMA BaseEnds ==
    ASSUME NEW x \in Endpoint, NEW y, NEW w, NEW z, Chain(x, y, w), Ended(x, z),
           z.VS = z.VA
    PROVE  Chain(z, y, w)
<1>1. ~Up(z) /\ ~Unused(z) BY DEF Ended, Up, Unused, Multiframe
<1>2. PICK f \in Frame : f.t = "DM" /\ z.tx \in {x.tx, Append(x.tx, f)} BY DEF Ended
<1>3. MaySay(z, y, w, f) BY <1>2 DEF MaySay
<1>4. z.sent.t # "SABM" BY DEF Ended, Chain, Timed
<1> QED BY <1>1, <1>2, <1>3, <1>4, BaseStops

\* The first answer of the handset ends the establishment.
LEMMA BaseAnswered ==
    ASSUME NEW x \in Endpoint, NEW y, NEW w, Chain(x, y, w),
           Access = NoInfo /\ Up(x) =>
              Free(y.tx, {"SABM"}) /\ y.state # "AwaitingEstablish"
    PROVE  Chain([x EXCEPT !.eip = FALSE], y, w)
<1> DEFINE z == [x EXCEPT !.eip = FALSE]
<1>1. /\ Up(z) = Up(x) /\ Unused(z) = Unused(x) /\ z.tx = x.tx
      /\ z.VS = x.VS /\ z.VA = x.VA /\ z.t200 = x.t200 /\ z.sent = x.sent
      /\ z.fresh = x.fresh
  BY DEF Endpoint, Up, Unused
<1> HIDE DEF z
<1>2. Timed(z) /\ NotYet(z, y) /\ InStep(z, y, w)
  BY <1>1 DEF Chain, Timed, NotYet, InStep
<1>3. Alone(z, y, w) BY <1>1 DEF Chain, Alone
<1> QED BY <1>2, <1>3 DEF Chain, z

LEMMA BaseAcked ==
    ASSUME NEW x \in Endpoint, NEW y, NEW w, Chain(x, y, w), NEW n,
           Up(x), ~Waiting(y, w),
           HandsetRenews =>
              /\ n \in {x.VA, x.VS}
              /\ n = x.VS => AcksRise(y.tx, x.VS, x.VS) /\ (Up(y) => y.VR = x.VS)
    PROVE  Chain(processAck(x, n), y, w)
<1> DEFINE z == processAck(x, n)
<1>1. /\ Up(z) = Up(x) /\ Unused(z) = Unused(x) /\ z.tx = x.tx
      /\ z.VS = x.VS /\ z.VA = n /\ z.sent = x.sent /\ z.fresh = x.fresh /\ z.eip = x.eip
      /\ z.t200 = IF n = x.VS THEN FALSE ELSE x.t200
  BY DEF processAck, Endpoint, Up, Unused
<1> HIDE DEF z
<1>2. Timed(z) BY <1>1 DEF Chain, Timed
<1>3. NotYet(z, y) BY <1>1 DEF Chain, NotYet
<1>4. InStep(z, y, w)
  <2>1. CASE n = x.VS BY <1>1, <2>1 DEF Chain, InStep
  <2>2. CASE n # x.VS BY <1>1, <2>2 DEF Chain, InStep
  <2> QED BY <2>1, <2>2
<1>5. Alone(z, y, w) BY <1>1 DEF Chain, Alone
<1> QED BY <1>2, <1>3, <1>4, <1>5 DEF Chain, z

\* The next I-frame, when none is unacknowledged (canPass).
LEMMA BaseSendsI ==
    ASSUME NEW x \in Endpoint, NEW y, NEW w, Chain(x, y, w), NEW g \in Segment,
           Up(x), x.VS = x.VA
    PROVE  Chain(sendIFrame(x, g), y, w)
<1> DEFINE v == [x EXCEPT !.VS = Mod(x.VS + 1)]
           f == MkFrame("I", CBit(x), FALSE, x.VS, x.VR, g)
           z == sendIFrame(x, g)
<1>1. x.VS \in SeqNum /\ x.VR \in SeqNum /\ x.tx \in Seq(Frame) BY EndpointTypes
<1>2. f \in Frame /\ f.t = "I" /\ f.ns = x.VS BY <1>1, Bits DEF MkFrame, Frame
<1>3. z = writeL1Ack(v, f) BY DEF sendIFrame
<1> HIDE DEF f
<1>4. /\ z.state = x.state /\ z.l1 = x.l1 /\ z.VS = Mod(x.VS + 1) /\ z.VA = x.VA
      /\ z.t200 = TRUE /\ z.sent = f /\ z.fresh = x.fresh /\ z.eip = x.eip
      /\ z.tx \in {x.tx, Append(x.tx, f)}
  BY <1>3 DEF writeL1Ack, writeL1, Endpoint
<1> HIDE DEF v, z
<1>5. z.VS # x.VS BY <1>1, <1>4, NextNumber
<1>6. Up(z) /\ ~Unused(z) BY <1>4 DEF Up, Unused, Multiframe
<1>7. \A T : Free(x.tx, T) /\ "I" \notin T => Free(z.tx, T)
  BY <1>1, <1>2, <1>4, FreeAppend
<1>8. \A lo : SentRise(x.tx, lo, z.VS) => SentRise(z.tx, lo, z.VS)
  BY <1>1, <1>2, <1>4, SentAppend
<1>9. Timed(z) BY <1>2, <1>4, <1>5, <1>6, <1>7 DEF Chain, Timed
<1>10. NotYet(z, y) BY <1>6 DEF NotYet
<1>11. InStep(z, y, w)
  <2> SUFFICES ASSUME HandsetRenews PROVE InStep(z, y, w) BY DEF InStep
  <2>1. /\ AcksRise(y.tx, x.VA, x.VA)
        /\ Up(y) => y.VR = x.VA /\ SentRise(x.tx, x.VA, x.VA)
        /\ Waiting(y, w) => x.VA = 0 /\ SentRise(x.tx, 0, 0)
    BY DEF Chain, InStep
  <2>2. /\ AcksRise(y.tx, x.VA, z.VS)
        /\ Up(y) => SentRise(x.tx, x.VA, z.VS)
        /\ Waiting(y, w) => SentRise(x.tx, 0, z.VS)
    BY <2>1, RiseTo
  <2> QED BY <1>4, <1>8, <2>1, <2>2 DEF InStep
<1>12. Alone(z, y, w) BY <1>4, <1>6, <1>7 DEF Chain, Alone
<1> QED BY <1>9, <1>10, <1>11, <1>12 DEF Chain, z

\* T200 runs out: the link is released, or what was sent last is sent again.
LEMMA T200Cases ==
    ASSUME Sapi = 0, NEW x \in Endpoint, NEW e \in End
    PROVE  LET z == T200Expiration(x, e) IN
           \/ Ended(x, z) /\ (Up(x) \/ x.VS = x.VA => z.VS = z.VA)
           \/ /\ x.state \in Multiframe \union {"AwaitingEstablish"}
              /\ z.state = x.state /\ z.l1 = x.l1 /\ z.ind = x.ind /\ z.VS = x.VS
              /\ z.VA = x.VA /\ z.VR = x.VR /\ z.t200 = TRUE /\ z.eip = x.eip
              /\ z.sent = x.sent /\ z.fresh = x.fresh
              /\ z.tx \in {x.tx, Append(x.tx, resent(x, e))}
           \/ x.state = "LinkReleased" /\ z = [x EXCEPT !.t200 = FALSE]
<1> DEFINE y == [x EXCEPT !.t200 = FALSE]
           z == T200Expiration(x, e)
<1>1. /\ y \in Endpoint /\ y.state = x.state /\ y.l1 = x.l1 /\ y.ind = x.ind
      /\ y.VS = x.VS /\ y.VA = x.VA /\ y.VR = x.VR /\ y.eip = x.eip /\ y.sent = x.sent
      /\ y.fresh = x.fresh /\ y.tx = x.tx /\ y.RC = x.RC
  BY DEF Endpoint
<1>2. x.RC \in Nat /\ N200 \in Nat BY N200Assumption DEF Endpoint, RetryCount
<1>3. CASE x.state = "AwaitingRelease"
  <2>1. z = releaseLink(y, "RELEASE") BY <1>3 DEF T200Expiration, Multiframe
  <2> HIDE DEF y, z
  <2>2. z \in Endpoint
    BY <1>1, <2>1, ReleaseLinkReleases DEF Released, Primitives
  <2>3. /\ z.state = "LinkReleased" /\ z.l1 = "closed" /\ z.ind = "RELEASE"
        /\ z.VS = x.VS /\ z.VA = x.VA /\ z.sent = x.sent /\ z.tx = x.tx
    BY <1>1, <2>1 DEF releaseLink, indicate, writeL1Release, Endpoint
  <2>4. \E f \in Frame : f.t = "DM"
    <3>1. UFrame("DM", 0, TRUE, NoInfo) \in Frame BY UFrameType DEF Identity
    <3>2. UFrame("DM", 0, TRUE, NoInfo).t = "DM" BY DEF UFrame, MkFrame
    <3> QED BY <3>1, <3>2
  <2>5. Ended(x, z) BY <2>2, <2>3, <2>4 DEF Ended
  <2>6. ~Up(x) BY <1>3 DEF Up, Multiframe
  <2> QED BY <2>3, <2>5, <2>6 DEF z
<1>4. CASE x.state \in Multiframe \union {"AwaitingEstablish"} /\ x.RC > N200
  <2>1. z = abnormalRelease(y) BY <1>4 DEF T200Expiration, Multiframe
  <2>2. Ended(y, abnormalRelease(y)) /\ abnormalRelease(y).VS = abnormalRelease(y).VA
    BY <1>1, AbnormalEnds
  <2> HIDE DEF y, z
  <2>3. Ended(x, z) /\ z.VS = z.VA BY <1>1, <2>1, <2>2 DEF Ended
  <2> QED BY <2>3 DEF z
<1>5. CASE x.state \in Multiframe \union {"AwaitingEstablish"} /\ ~(x.RC > N200)
  <2>1. z = retransmissionProcedure(y, e) BY <1>5 DEF T200Expiration, Multiframe
  <2>2. y.RC <= N200 BY <1>1, <1>2, <1>5
  <2>3. resent(y, e) = resent(x, e) BY <1>1 DEF resent
  <2> DEFINE r == [y EXCEPT !.RC = y.RC + 1]
             v == writeL1(r, resent(x, e))
  <2>4. /\ r.state = x.state /\ r.l1 = x.l1 /\ r.ind = x.ind /\ r.VS = x.VS /\ r.VA = x.VA
        /\ r.VR = x.VR /\ r.eip = x.eip /\ r.sent = x.sent /\ r.fresh = x.fresh /\ r.tx = x.tx
        /\ r \in Endpoint
    <3>1. y.RC + 1 \in RetryCount BY <1>1, <1>2, <2>2 DEF RetryCount
    <3> QED BY <1>1, <3>1 DEF Endpoint
  <2>5. z = [v EXCEPT !.t200 = TRUE] BY <2>1, <2>3 DEF retransmissionProcedure
  <2> HIDE DEF y, z, r
  <2>6. Said(r, v, resent(x, e)) /\ v \in Endpoint
    BY <2>4, ResentType, WriteL1Said DEF Said, Sent
  <2> HIDE DEF v
  <2>7. /\ z.state = v.state /\ z.l1 = v.l1 /\ z.ind = v.ind /\ z.VS = v.VS /\ z.VA = v.VA
        /\ z.VR = v.VR /\ z.t200 = TRUE /\ z.eip = v.eip /\ z.sent = v.sent
        /\ z.fresh = v.fresh /\ z.tx = v.tx
    BY <2>5, <2>6 DEF Endpoint
  <2> QED BY <1>5, <2>4, <2>6, <2>7 DEF Said, Sent, z
<1>6. CASE x.state = "LinkReleased"
  BY <1>6 DEF T200Expiration, Multiframe
<1> QED BY <1>3, <1>4, <1>5, <1>6 DEF Endpoint, LAPDState, Multiframe

LEMMA BaseExpires ==
    ASSUME OneHandset, NEW x \in Endpoint, NEW y, NEW w, Chain(x, y, w), NEW expired,
           x.state # "AwaitingEstablish"
    PROVE  Chain(checkT200(x, "bts", expired), y, w)
<1> DEFINE z == T200Expiration(x, "bts")
<1> SUFFICES ASSUME x.t200 PROVE Chain(z, y, w) BY DEF checkT200
<1>1. Sapi = 0 /\ "bts" \in End /\ "bts" \notin Refresh
  BY RefreshAssumption DEF OneHandset, End
<1>2. x.sent \in Frame BY EndpointTypes
<1>3. CASE Ended(x, z) /\ (Up(x) \/ x.VS = x.VA => z.VS = z.VA)
  <2>1. z.VS = z.VA BY <1>3 DEF Chain, Timed
  <2> HIDE DEF z
  <2> QED BY <1>3, <2>1, BaseEnds
<1>4. CASE /\ x.state \in Multiframe \union {"AwaitingEstablish"}
           /\ z.state = x.state /\ z.l1 = x.l1 /\ z.VS = x.VS /\ z.VA = x.VA
           /\ z.t200 = TRUE /\ z.eip = x.eip /\ z.sent = x.sent /\ z.fresh = x.fresh
           /\ z.tx \in {x.tx, Append(x.tx, resent(x, "bts"))}
  <2>1. Up(x) /\ Up(z) /\ ~Unused(z) BY <1>4 DEF Up, Unused, Multiframe
  <2>2. resent(x, "bts") = x.sent BY <1>1 DEF resent
  <2>3. x.sent.t = "I" /\ Mod(x.sent.ns + 1) = x.VS BY <2>1 DEF Chain, Timed
  <2>4. x.tx \in Seq(Frame) BY EndpointTypes
  <2> HIDE DEF z
  <2>5. \A T : Free(x.tx, T) /\ "I" \notin T => Free(z.tx, T)
    BY <1>2, <1>4, <2>2, <2>3, <2>4, FreeAppend
  <2>6. \A lo : SentRise(x.tx, lo, x.VS) => SentRise(z.tx, lo, x.VS)
    BY <1>2, <1>4, <2>2, <2>3, <2>4, SentAppend
  <2>7. Timed(z) BY <1>4, <2>1, <2>5 DEF Chain, Timed
  <2>8. NotYet(z, y) BY <2>1 DEF NotYet
  <2>9. InStep(z, y, w) BY <1>4, <2>1, <2>6 DEF Chain, InStep
  <2>10. Alone(z, y, w) BY <1>4, <2>1, <2>5 DEF Chain, Alone
  <2> QED BY <2>7, <2>8, <2>9, <2>10 DEF Chain
<1>5. CASE x.state = "LinkReleased" /\ z = [x EXCEPT !.t200 = FALSE]
  <2>1. /\ Up(z) = Up(x) /\ Unused(z) = Unused(x) /\ ~Up(x) /\ z.tx = x.tx
        /\ z.VS = x.VS /\ z.VA = x.VA /\ z.sent = x.sent
    BY <1>5 DEF Endpoint, Up, Unused, Multiframe
  <2> HIDE DEF z
  <2> QED BY <2>1 DEF Chain, Timed, NotYet, InStep, Alone
<1> HIDE DEF z
<1> QED BY <1>1, <1>3, <1>4, <1>5, T200Cases DEF z

LEMMA BaseAccepts ==
    ASSUME NEW x \in Endpoint, NEW y, NEW w, Chain(x, y, w), NEW f \in Frame,
           f.info \in Identity, Unused(x), ~x.fresh, Access = NoInfo => ~NotAsked(y, w)
    PROVE  Chain(acceptSABM(x, f), y, w)
<1> DEFINE c == clearCounters(x)
           d == indicate([c EXCEPT !.eip = TRUE], "ESTABLISH")
           r == deliver([d EXCEPT !.state = "ContentionResolution", !.check = f.info], <<f.info>>)
           l == [d EXCEPT !.state = "LinkEstablished"]
           z == acceptSABM(x, f)
<1>1. /\ c \in Endpoint /\ c.VS = 0 /\ c.VA = 0 /\ c.t200 = FALSE
      /\ c.sent = x.sent /\ c.tx = x.tx /\ c.fresh = x.fresh
  BY ClearCountersFields
<1> HIDE DEF c
<1>2. /\ d \in Endpoint /\ d.VS = 0 /\ d.VA = 0 /\ d.t200 = FALSE /\ d.eip = TRUE
      /\ d.sent = x.sent /\ d.tx = x.tx /\ d.fresh = x.fresh
  BY <1>1 DEF indicate, Endpoint, Indication, Primitives
<1> HIDE DEF d
<1>3. /\ l \in Endpoint /\ Up(l) /\ l.VS = 0 /\ l.VA = 0 /\ l.t200 = FALSE /\ l.eip = TRUE
      /\ l.sent = x.sent /\ l.tx = x.tx /\ l.fresh = x.fresh
  BY <1>2 DEF Endpoint, LAPDState, Up, Multiframe
<1>4. f.info # NoInfo =>
      /\ r \in Endpoint /\ Up(r) /\ r.VS = 0 /\ r.VA = 0 /\ r.t200 = FALSE /\ r.eip = TRUE
      /\ r.sent = x.sent /\ r.tx = x.tx /\ r.fresh = x.fresh
  <2> HAVE f.info # NoInfo
  <2> DEFINE s == [d EXCEPT !.state = "ContentionResolution", !.check = f.info]
  <2>1. /\ s \in Endpoint /\ Up(s) /\ s.VS = 0 /\ s.VA = 0 /\ s.t200 = FALSE /\ s.eip = TRUE
        /\ s.sent = x.sent /\ s.tx = x.tx /\ s.fresh = x.fresh
    BY <1>2 DEF Endpoint, LAPDState, Up, Multiframe
  <2> HIDE DEF s
  <2>2. <<f.info>> \in Seq(Segment \union Handsets) BY DEF Identity
  <2>3. s.rx \in Seq(Seq(Segment \union Handsets)) BY <2>1 DEF Endpoint, DeliveredUnits
  <2>4. Append(s.rx, <<f.info>>) \in DeliveredUnits BY <2>2, <2>3 DEF DeliveredUnits
  <2>5. LET q == deliver(s, <<f.info>>) IN
        /\ q \in Endpoint /\ Up(q) /\ q.VS = 0 /\ q.VA = 0 /\ q.t200 = FALSE /\ q.eip = TRUE
        /\ q.sent = x.sent /\ q.tx = x.tx /\ q.fresh = x.fresh
    BY <2>1, <2>4 DEF deliver, Endpoint, Up
  <2> QED BY <2>5 DEF s
<1> HIDE DEF r, l
<1>5. PICK q \in Endpoint, i \in Identity :
        /\ Up(q) /\ q.VS = 0 /\ q.VA = 0 /\ q.t200 = FALSE /\ q.eip = TRUE
        /\ q.sent = x.sent /\ q.tx = x.tx /\ q.fresh = x.fresh
        /\ z = sendUFrameUA(q, TRUE, i)
  <2>1. CASE f.info # NoInfo
    BY <1>4, <2>1 DEF acceptSABM, r, d, c
  <2>2. CASE f.info = NoInfo
    BY <1>3, <2>2 DEF acceptSABM, l, d, c
  <2> QED BY <2>1, <2>2
<1> HIDE DEF z
<1>6. PICK a : Said(q, z, a) /\ a.t = "UA"
  <2>1. \E a : Said(q, sendUFrameUA(q, TRUE, i), a) /\ a.t = "UA" BY SendersSay
  <2> QED BY <1>5, <2>1
<1>7. /\ Up(z) /\ ~Unused(z) /\ z.VS = 0 /\ z.VA = 0 /\ z.t200 = FALSE /\ z.eip = TRUE
      /\ z.sent = x.sent /\ a \in Frame /\ z.tx \in {x.tx, Append(x.tx, a)} /\ ~z.fresh
  BY <1>5, <1>6 DEF Said, Sent, Up, Unused, Multiframe
<1>8. x.tx \in Seq(Frame) BY EndpointTypes
<1>9. \A T : Free(x.tx, T) /\ "UA" \notin T => Free(z.tx, T)
  BY <1>6, <1>7, <1>8, FreeAppend
<1>10. Free(x.tx, {"I", "UA"}) /\ Free(y.tx, {"I", "RR", "REJ"}) /\ ~Up(y)
  BY DEF Chain, NotYet
<1>11. Free(z.tx, {"I"})
  <2>1. Free(x.tx, {"I"}) BY <1>10 DEF Free
  <2> QED BY <1>9, <2>1
<1>12. Timed(z) BY <1>7, <1>9 DEF Chain, Timed
<1>13. NotYet(z, y) BY <1>7 DEF NotYet
<1>14. InStep(z, y, w) BY <1>7, <1>10, <1>11, FreeRises DEF InStep
<1>15. Alone(z, y, w) BY <1>7 DEF Chain, Alone
<1> QED BY <1>12, <1>13, <1>14, <1>15 DEF Chain, z

LEMMA BaseReceivesSABM ==
    ASSUME OneHandset, NEW x \in Endpoint, NEW y, NEW w, Chain(x, y, w), NEW f \in Frame,
           f.t = "SABM", FromHandset(x, y, w, f),
           ~x.fresh, x.l1 # "closed", x.state # "AwaitingEstablish"
    PROVE  Chain(receiveUFrameSABM(x, f), y, w)
<1> DEFINE l == [x EXCEPT !.state = "LinkEstablished"]
<1>1. /\ Sapi = 0 /\ f.info \in Identity /\ f.pf \in BOOLEAN /\ NoInfo \in Identity
      /\ Access = NoInfo => ~NotAsked(y, w)
  BY DEF OneHandset, Frame, Identity, FromHandset
<1>2. ASSUME NEW q \in Endpoint, Up(q), Chain(q, y, w), NEW i \in Identity
      PROVE  Chain(sendUFrameUA(q, TRUE, i), y, w)
  <2>1. PICK a : Said(q, sendUFrameUA(q, TRUE, i), a) /\ a.t = "UA" BY SendersSay
  <2>2. ~Unused(q) BY <1>2 DEF Up, Unused, Multiframe
  <2>3. MaySay(q, y, w, a) BY <1>1, <2>1, <2>2 DEF MaySay
  <2> HIDE DEF Said
  <2> QED BY <1>2, <2>1, <2>3, BaseSaid
<1>3. CASE ~f.pf
  BY <1>3 DEF receiveUFrameSABM
<1>4. CASE f.pf /\ x.state = "LinkReleased"
  <2>1. receiveUFrameSABM(x, f) = acceptSABM(x, f) BY <1>4 DEF receiveUFrameSABM
  <2>2. Unused(x) BY <1>4 DEF Unused
  <2> QED BY <1>1, <2>1, <2>2, BaseAccepts
<1>5. CASE f.pf /\ x.state = "ContentionResolution"
  <2>1. /\ l \in Endpoint /\ Up(l) /\ Up(x) /\ Steady(x, l) /\ l.tx = x.tx
    BY <1>5 DEF Endpoint, LAPDState, Up, Unused, Multiframe, Steady
  <2>2. receiveUFrameSABM(x, f) \in {x, sendUFrameUA(l, TRUE, f.info)}
    BY <1>5 DEF receiveUFrameSABM
  <2> HIDE DEF l
  <2>3. Chain(l, y, w) BY <2>1, BaseSays
  <2> QED BY <1>1, <1>2, <2>1, <2>2, <2>3
<1>6. CASE f.pf /\ x.state = "AwaitingRelease"
  <2>1. receiveUFrameSABM(x, f) = sendUFrameDM(x, TRUE) BY <1>6 DEF receiveUFrameSABM
  <2>2. PICK a : Said(x, sendUFrameDM(x, TRUE), a) /\ a.t = "DM" BY <1>1, SendersSay
  <2>3. MaySay(x, y, w, a) BY <2>2 DEF MaySay
  <2> QED BY <2>1, <2>2, <2>3, BaseSaid
<1>7. CASE f.pf /\ x.state = "LinkEstablished"
  <2>1. Up(x) BY <1>7 DEF Up, Multiframe
  <2>2. x.eip \/ f.info # NoInfo BY <2>1 DEF FromHandset
  <2>3. receiveUFrameSABM(x, f) \in {sendUFrameUA(x, TRUE, f.info), abnormalRelease(x)}
    BY <1>7, <2>2 DEF receiveUFrameSABM
  <2>4. Chain(abnormalRelease(x), y, w) BY <1>1, AbnormalEnds, BaseEnds
  <2> QED BY <1>1, <1>2, <2>1, <2>3, <2>4
<1> QED BY <1>1, <1>3, <1>4, <1>5, <1>6, <1>7 DEF Endpoint, LAPDState

LEMMA BaseReceivesDISC ==
    ASSUME OneHandset, NEW x \in Endpoint, NEW y, NEW w, Chain(x, y, w), NEW f \in Frame,
           f.t = "DISC", FromHandset(x, y, w, f), x.state # "AwaitingEstablish"
    PROVE  Chain(receiveUFrameDISC(x, f), y, w)
<1> DEFINE e == [x EXCEPT !.eip = FALSE]
           m == sendUFrameDM(e, f.pf)
           a == sendUFrameUA(e, f.pf, NoInfo)
           z == receiveUFrameDISC(x, f)
<1>1. /\ Sapi = 0 /\ f.pf \in BOOLEAN /\ NoInfo \in Identity
      /\ Access = NoInfo => ~NotAsked(y, w) /\ "RELEASE" \in Primitives \ {"ESTABLISH"}
  BY DEF OneHandset, Frame, Identity, FromHandset, Primitives
<1>2. /\ e \in Endpoint /\ e.state = x.state /\ e.VS = x.VS /\ e.VA = x.VA /\ e.sent = x.sent
      /\ e.tx = x.tx /\ e.l1 = x.l1
  BY DEF Endpoint
<1> HIDE DEF e
<1>3. PICK g : Said(e, m, g) /\ g.t = "DM" BY <1>1, <1>2, SendersSay
<1>4. PICK h : Said(e, a, h) /\ h.t = "UA" BY <1>1, <1>2, SendersSay
<1> HIDE DEF m, a
<1>5. m \in Endpoint /\ a \in Endpoint BY <1>3, <1>4 DEF Said, Sent
<1>6. x.sent.t # "SABM" BY DEF Chain, Timed
<1>7. ASSUME NEW q \in {m, a}, z = clearState(q, "RELEASE") PROVE Chain(z, y, w)
  <2>1. Ended(q, z) /\ z.tx = q.tx /\ z.VS = z.VA
    BY <1>1, <1>5, <1>7, ClearStateEnds DEF Primitives
  <2>2. ~Up(z) /\ ~Unused(z) /\ z.sent = q.sent BY <2>1 DEF Ended, Up, Unused, Multiframe
  <2>3. q.sent = x.sent /\ (q.tx = x.tx \/ \E k \in {g, h} : k \in Frame /\ q.tx = Append(x.tx, k))
    BY <1>2, <1>3, <1>4 DEF Said
  <2>4. \A k \in {g, h} : MaySay(z, y, w, k) BY <1>1, <1>3, <1>4, <2>2 DEF MaySay
  <2> HIDE DEF z
  <2> QED BY <1>6, <2>1, <2>2, <2>3, <2>4, BaseStops
<1>8. CASE x.state = "AwaitingRelease"
  <2>1. z = a BY <1>2, <1>8 DEF receiveUFrameDISC, a, e, Multiframe
  <2>2. ~Up(a) /\ ~Unused(a) /\ ~Up(x) /\ a.VS = x.VS /\ a.VA = x.VA
    BY <1>2, <1>4, <1>8 DEF Said, Sent, Up, Unused, Multiframe
  <2>3. a.VS = a.VA BY <2>2 DEF Chain, Timed
  <2>4. a.sent = x.sent /\ h \in Frame /\ a.tx \in {x.tx, Append(x.tx, h)}
    BY <1>2, <1>4 DEF Said
  <2>5. MaySay(a, y, w, h) BY <1>1, <1>4, <2>2 DEF MaySay
  <2> QED BY <1>6, <2>1, <2>2, <2>3, <2>4, <2>5, BaseStops
<1>9. CASE x.state # "AwaitingRelease"
  <2>1. z \in {clearState(m, "RELEASE"), clearState(a, "RELEASE")}
    BY <1>9 DEF receiveUFrameDISC, m, a, e, Endpoint, LAPDState, Multiframe
  <2> HIDE DEF z
  <2>2. Chain(z, y, w) BY <1>7, <2>1
  <2> QED BY <2>2 DEF z
<1> QED BY <1>8, <1>9

\* The acknowledgement in an I, RR or REJ frame, up to V(A) (processAck).
LEMMA BaseTakesAck ==
    ASSUME NEW x \in Endpoint, NEW y, NEW w, Chain(x, y, w), NEW f \in Frame,
           CarriesAck(f), FromHandset(x, y, w, f), Up(x)
    PROVE  LET v == leaveContention([x EXCEPT !.eip = FALSE])
           IN  /\ v \in Endpoint /\ Up(v) /\ Chain(v, y, w)
               /\ processAck(v, f.nr) \in Endpoint /\ Up(processAck(v, f.nr))
               /\ Chain(processAck(v, f.nr), y, w)
               /\ FromHandset(v, y, w, f)
<1> DEFINE e == [x EXCEPT !.eip = FALSE]
           v == leaveContention(e)
           a == processAck(v, f.nr)
<1>1. f.nr \in SeqNum BY DEF Frame
<1>2. /\ e \in Endpoint /\ Up(e) /\ e.VS = x.VS /\ e.VA = x.VA /\ e.tx = x.tx
      /\ e.t200 = x.t200 /\ e.sent = x.sent /\ e.fresh = x.fresh
  BY DEF Endpoint, Up
<1>3. Chain(e, y, w)
  <2>1. ~Waiting(y, w) /\ (Access = NoInfo => Free(y.tx, {"SABM"})) BY DEF FromHandset
  <2>2. y.state # "AwaitingEstablish" BY <2>1 DEF Waiting
  <2> QED BY <2>1, <2>2, BaseAnswered
<1> HIDE DEF e
<1>4. /\ v \in Endpoint /\ Up(v) /\ v.VS = e.VS /\ v.VA = e.VA /\ v.tx = e.tx
      /\ Steady(e, v)
  BY <1>2 DEF leaveContention, Endpoint, LAPDState, Up, Unused, Multiframe, Steady
<1> HIDE DEF v
<1>5. Chain(v, y, w) BY <1>2, <1>3, <1>4, BaseSays
<1>6. a \in Endpoint /\ Up(a)
  <2>1. GoesOn(v, v) BY <1>4 DEF GoesOn, Up
  <2> QED BY <1>1, <2>1, AckGoesOn DEF GoesOn, Up
<1>7. /\ ~Waiting(y, w)
      /\ HandsetRenews =>
            /\ f.nr \in {x.VA, x.VS}
            /\ f.nr = x.VS => AcksRise(y.tx, x.VS, x.VS) /\ (Up(y) => y.VR = x.VS)
  BY DEF FromHandset
<1>8. Chain(a, y, w) BY <1>2, <1>4, <1>5, <1>7, BaseAcked
<1>9. FromHandset(v, y, w, f)
  <2>1. ~Unused(v) BY <1>4 DEF Up, Unused, Multiframe
  <2>2. f.t \notin {"SABM", "DISC"} BY DEF CarriesAck
  <2> QED BY <1>2, <1>4, <1>7, <2>1, <2>2 DEF FromHandset
<1> QED BY <1>4, <1>5, <1>6, <1>8, <1>9 DEF v, e

\* Without one, only the establishment ends (mEstablishmentInProgress).
LEMMA BaseIgnores ==
    ASSUME NEW x \in Endpoint, NEW y, NEW w, Chain(x, y, w), ~Up(x)
    PROVE  Chain([x EXCEPT !.eip = FALSE], y, w)
  BY BaseAnswered

LEMMA BaseSaysS ==
    ASSUME NEW x \in Endpoint, NEW y, NEW w, Chain(x, y, w), NEW F \in BOOLEAN
    PROVE  /\ Chain(sendSFrameRR(x, F), y, w) /\ sendSFrameRR(x, F) \in Endpoint
           /\ Chain(sendSFrameREJ(x, F), y, w) /\ sendSFrameREJ(x, F) \in Endpoint
<1>1. NoInfo \in Identity BY DEF Identity
<1>2. PICK f : Said(x, sendSFrameRR(x, F), f) /\ f.t = "RR" BY <1>1, SendersSay
<1>3. PICK g : Said(x, sendSFrameREJ(x, F), g) /\ g.t = "REJ" BY <1>1, SendersSay
<1>4. MaySay(x, y, w, f) /\ MaySay(x, y, w, g) BY <1>2, <1>3 DEF MaySay
<1>5. sendSFrameRR(x, F) \in Endpoint /\ sendSFrameREJ(x, F) \in Endpoint
  BY <1>2, <1>3 DEF Said, Sent
<1>6. Chain(sendSFrameRR(x, F), y, w) BY <1>2, <1>4, BaseSaid
<1>7. Chain(sendSFrameREJ(x, F), y, w) BY <1>3, <1>4, BaseSaid
<1> QED BY <1>5, <1>6, <1>7

LEMMA BufferFields ==
    ASSUME NEW x \in Endpoint, NEW g \in Segment
    PROVE  LET z == bufferIFrameData(x, g) IN
           /\ z \in Endpoint /\ z.state = x.state /\ z.l1 = x.l1 /\ z.ind = x.ind
           /\ z.VS = x.VS /\ z.VA = x.VA /\ z.VR = x.VR /\ z.t200 = x.t200 /\ z.eip = x.eip
           /\ z.sent = x.sent /\ z.tx = x.tx /\ z.fresh = x.fresh
<1> DEFINE z == bufferIFrameData(x, g)
<1>1. x.recvBuffer \in Seq(Segment) /\ x.rx \in Seq(Seq(Segment \union Handsets))
  BY DEF Endpoint, RecvBuffer, DeliveredUnits
<1>2. Append(x.recvBuffer, g) \in RecvBuffer BY <1>1 DEF RecvBuffer
<1>3. Append(x.recvBuffer, g) \in Seq(Segment \union Handsets) BY <1>1
<1>4. Append(x.rx, Append(x.recvBuffer, g)) \in DeliveredUnits
  BY <1>1, <1>3 DEF DeliveredUnits
<1>5. CASE g.more
  <2>1. z = [x EXCEPT !.recvBuffer = Append(x.recvBuffer, g)] BY <1>5 DEF bufferIFrameData
  <2> QED BY <1>2, <2>1 DEF Endpoint
<1>6. CASE ~g.more
  <2> DEFINE d == Append(x.recvBuffer, g)
             u == Append(x.rx, d)
  <2>1. z = [x EXCEPT !.recvBuffer = <<>>, !.rx = u]
    BY <1>6 DEF bufferIFrameData, deliver, Endpoint
  <2> HIDE DEF u, z
  <2>2. u \in DeliveredUnits BY <1>4 DEF u
  <2> QED BY <2>1, <2>2, Zeros DEF Endpoint, z
<1> QED BY <1>5, <1>6

LEMMA BaseReceivesI ==
    ASSUME NEW x \in Endpoint, NEW y, NEW w, Chain(x, y, w), NEW f \in Frame,
           f.t = "I", FromHandset(x, y, w, f)
    PROVE  Chain(receiveIFrame(x, f), y, w)
<1> DEFINE v == leaveContention([x EXCEPT !.eip = FALSE])
           a == processAck(v, f.nr)
           u == [a EXCEPT !.VR = Mod(a.VR + 1)]
           r == bufferIFrameData(u, f.info)
<1>1. f.pf \in BOOLEAN /\ f.info \in Segment BY DEF Frame
<1>2. CASE ~Up(x)
  BY <1>2, BaseIgnores DEF receiveIFrame, Up
<1>3. CASE Up(x)
  <2>1. a \in Endpoint /\ Up(a) /\ Chain(a, y, w)
    BY <1>3, BaseTakesAck DEF CarriesAck
  <2>2. receiveIFrame(x, f) \in {sendSFrameRR(r, f.pf), sendSFrameREJ(a, f.pf)}
    BY <1>3 DEF receiveIFrame, Up
  <2> HIDE DEF a, v
  <2>3. u \in Endpoint /\ Steady(a, u) /\ u.tx = a.tx
    <3>1. Mod(a.VR + 1) \in SeqNum BY <2>1, ModIsSeqNum DEF Endpoint
    <3> QED BY <2>1, <3>1 DEF Endpoint, Steady, Up, Unused
  <2>4. Chain(u, y, w) BY <2>1, <2>3, BaseSays
  <2> HIDE DEF u
  <2>5. r \in Endpoint /\ Steady(u, r) /\ r.tx = u.tx
    BY <1>1, <2>3, BufferFields DEF Steady, Up, Unused
  <2>6. Chain(r, y, w) BY <2>3, <2>4, <2>5, BaseSays
  <2> HIDE DEF r
  <2> QED BY <1>1, <2>1, <2>2, <2>5, <2>6, BaseSaysS
<1> QED BY <1>2, <1>3

LEMMA BaseReceivesS ==
    ASSUME OneHandset, NEW x \in Endpoint, NEW y, NEW w, Chain(x, y, w), NEW f \in Frame,
           f.t \in {"RR", "REJ"}, FromHandset(x, y, w, f)
    PROVE  Chain(receiveSFrame(x, f), y, w)
<1> DEFINE e == [x EXCEPT !.eip = FALSE]
           v == leaveContention(e)
           a == processAck(v, f.nr)
           s == sendSFrameRR(v, TRUE)
<1>1. f.pf \in BOOLEAN /\ f.nr \in SeqNum /\ Sapi = 0 BY DEF Frame, OneHandset
<1>2. CASE ~Up(x)
  <2>1. ~Up(e) BY <1>2 DEF Up, Endpoint
  <2>2. receiveSFrame(x, f) = e
    BY <2>1 DEF receiveSFrame, receiveSFrameRR, receiveSFrameREJ, Up
  <2> QED BY <1>2, <2>2, BaseIgnores
<1>3. CASE Up(x)
  <2>1. /\ v \in Endpoint /\ Up(v) /\ Chain(v, y, w) /\ FromHandset(v, y, w, f)
        /\ a \in Endpoint /\ Chain(a, y, w)
    BY <1>3, BaseTakesAck DEF CarriesAck
  <2>2. Up(e) BY <1>3 DEF Up, Endpoint
  <2>3. CASE f.t = "RR"
    <3>1. receiveSFrame(x, f) \in {a, processAck(s, f.nr)}
      BY <2>2, <2>3 DEF receiveSFrame, receiveSFrameRR, Up
    <3> HIDE DEF v, a, e
    <3>2. s \in Endpoint /\ Chain(s, y, w) BY <2>1, BaseSaysS
    <3>3. s.VS = v.VS /\ s.VA = v.VA /\ Up(s)
      BY <2>1, SenderSent DEF Sent, Up, Identity
    <3>4. /\ ~Waiting(y, w)
          /\ HandsetRenews =>
                /\ f.nr \in {v.VA, v.VS}
                /\ f.nr = v.VS => AcksRise(y.tx, v.VS, v.VS) /\ (Up(y) => y.VR = v.VS)
      BY <2>1, <2>3 DEF FromHandset, CarriesAck
    <3> HIDE DEF s
    <3>5. Chain(processAck(s, f.nr), y, w) BY <3>2, <3>3, <3>4, BaseAcked
    <3> QED BY <2>1, <3>1, <3>5
  <2>4. CASE f.t = "REJ"
    <3>1. receiveSFrame(x, f) \in {a, sendSFrameRR(a, TRUE), abnormalRelease(a)}
      BY <1>1, <2>2, <2>4 DEF receiveSFrame, receiveSFrameREJ, Up
    <3> HIDE DEF a, v, e
    <3>2. Chain(sendSFrameRR(a, TRUE), y, w) BY <2>1, BaseSaysS
    <3>3. Chain(abnormalRelease(a), y, w) BY <1>1, <2>1, AbnormalEnds, BaseEnds
    <3> QED BY <2>1, <3>1, <3>2, <3>3
  <2> QED BY <2>3, <2>4
<1> QED BY <1>2, <1>3

LEMMA BaseReceives ==
    ASSUME OneHandset, NEW x \in Endpoint, NEW y, NEW w, Chain(x, y, w), NEW f \in Frame,
           FromHandset(x, y, w, f),
           ~x.fresh, x.l1 # "closed", x.state # "AwaitingEstablish"
    PROVE  Chain(receiveFrame(x, f), y, w)
<1>1. Sapi = 0 /\ "RELEASE" \in Primitives \ {"ESTABLISH"} BY DEF OneHandset, Primitives
<1>2. Chain(abnormalRelease(x), y, w) BY <1>1, AbnormalEnds, BaseEnds
<1>3. Chain(clearState(x, "RELEASE"), y, w) BY <1>1, ClearStateEnds, BaseEnds
<1>4. CASE f.t = "I"
  BY <1>4, BaseReceivesI DEF receiveFrame
<1>5. CASE f.t \in {"RR", "REJ"}
  BY <1>5, BaseReceivesS DEF receiveFrame
<1>6. CASE f.t = "SABM"
  BY <1>6, BaseReceivesSABM DEF receiveFrame
<1>7. CASE f.t = "DISC"
  BY <1>7, BaseReceivesDISC DEF receiveFrame
<1>8. CASE f.t = "UA"
  BY <1>2, <1>3, <1>8 DEF receiveFrame, receiveUFrameUA
<1>9. CASE f.t \in {"DM", "UI"}
  BY <1>3, <1>9 DEF receiveFrame, receiveUFrameDM
<1> QED BY <1>4, <1>5, <1>6, <1>7, <1>8, <1>9 DEF Frame
-----------------------------------------------------------------------------
(***************************************************************************)
(* What the handset does, step by step.                                    *)
(***************************************************************************)
\* Nothing the chain looks at has changed, but for what was sent.
Keeps(y, z) ==
    /\ z.state = y.state \/ (Up(y) /\ Up(z))
    /\ z.ind = y.ind /\ z.VR = y.VR /\ z.sent = y.sent /\ (z.t200 => y.t200)

LEMMA WaitingIsDown ==
    ASSUME NEW y, NEW w, Asks(y, w), Waiting(y, w) PROVE ~Up(y)
  BY DEF Asks, Waiting, Up, Multiframe

LEMMA HandsetSays ==
    ASSUME NEW x, NEW y \in Endpoint, NEW w, NEW z, Chain(x, y, w), Keeps(y, z),
           \/ z.tx = y.tx
           \/ \E f \in Frame : /\ z.tx = Append(y.tx, f) /\ f.t \notin {"SABM", "DISC"}
                               /\ CarriesAck(f) => Up(y) /\ f.nr = y.VR
    PROVE  Chain(x, z, w)
<1>1. y.tx \in Seq(Frame) BY EndpointTypes
<1>2. /\ Up(z) = Up(y) /\ Waiting(z, w) = Waiting(y, w) /\ NotAsked(z, w) = NotAsked(y, w)
      /\ (z.state = "AwaitingEstablish") = (y.state = "AwaitingEstablish")
  BY DEF Keeps, Up, Waiting, NotAsked, Multiframe
<1>3. /\ Free(y.tx, {"SABM"}) => Free(z.tx, {"SABM"})
      /\ ~Up(y) /\ Free(y.tx, {"I", "RR", "REJ"}) => Free(z.tx, {"I", "RR", "REJ"})
      /\ ~Up(y) /\ Free(y.tx, {"I", "RR", "REJ", "SABM", "DISC"})
            => Free(z.tx, {"I", "RR", "REJ", "SABM", "DISC"})
  BY <1>1, FreeAppend DEF CarriesAck
<1>4. \A lo : Up(y) /\ AcksRise(y.tx, lo, y.VR) => AcksRise(z.tx, lo, y.VR)
  BY <1>1, AcksAppend
<1>5. \A lo, hi : ~Up(y) /\ AcksRise(y.tx, lo, hi) => AcksRise(z.tx, lo, hi)
  BY <1>1, AcksAppend
<1>6. Asks(z, w)
  <2>1. Asks(y, w) BY DEF Chain
  <2>2. y.ind = "none" /\ w.pc = "idle" => z.state = "LinkReleased"
    BY <2>1, <1>2 DEF Asks, Keeps, Up, Multiframe
  <2>3. w.pc = "estSet" => z.state = "LinkReleased"
    BY <2>1, <1>2 DEF Asks, Keeps, Up, Multiframe
  <2>4. Waiting(y, w) => ~Up(y) BY <2>1, WaitingIsDown
  <2> QED BY <1>2, <1>3, <2>1, <2>2, <2>3, <2>4 DEF Asks, Keeps
<1>7. NotYet(x, z) BY <1>2, <1>3 DEF Chain, NotYet
<1>8. InStep(x, z, w)
  <2> SUFFICES ASSUME HandsetRenews, Up(x)
               PROVE  /\ AcksRise(z.tx, x.VA, x.VS)
                      /\ Up(z) => /\ z.VR \in {x.VA, x.VS}
                                  /\ AcksRise(z.tx, x.VA, z.VR) /\ SentRise(x.tx, z.VR, x.VS)
                      /\ Waiting(z, w) => x.VA = 0 /\ SentRise(x.tx, 0, x.VS)
    BY DEF InStep
  <2>1. /\ AcksRise(y.tx, x.VA, x.VS)
        /\ Up(y) => /\ y.VR \in {x.VA, x.VS}
                    /\ AcksRise(y.tx, x.VA, y.VR) /\ SentRise(x.tx, y.VR, x.VS)
        /\ Waiting(y, w) => x.VA = 0 /\ SentRise(x.tx, 0, x.VS)
    BY DEF Chain, InStep
  <2>2. Up(y) => AcksRise(z.tx, x.VA, y.VR) BY <1>4, <2>1
  <2>3. AcksRise(z.tx, x.VA, x.VS) BY <1>5, <2>1, <2>2, RiseTo
  <2> QED BY <1>2, <2>1, <2>2, <2>3 DEF Keeps
<1>9. Named(z)
  <2>1. Named(y) /\ z.sent = y.sent BY DEF Chain, Keeps
  <2> QED BY <1>1, <2>1, AskedByNameAppend DEF Named
<1>10. Alone(x, z, w)
  <2> SUFFICES ASSUME Access = NoInfo PROVE Alone(x, z, w) BY DEF Alone
  <2>1. Alone(x, y, w) BY DEF Chain
  <2>2. AsksFirst(y.tx) BY <2>1 DEF Alone
  <2>3. AsksFirst(z.tx) BY <1>1, <2>2, AsksFirstAppend
  <2> QED BY <1>2, <1>3, <2>1, <2>3 DEF Alone, Keeps
<1> QED BY <1>6, <1>7, <1>8, <1>9, <1>10 DEF Chain

\* The handset's link is over, by its own doing or by what it received.
LEMMA HandsetStops ==
    ASSUME NEW x, NEW y \in Endpoint, NEW w, NEW z, NEW v, Chain(x, y, w),
           z.state \notin Multiframe \union {"AwaitingEstablish"}, z.ind # "none",
           v.pc = w.pc \/ v.pc \notin {"estSet", "estSABM", "estTimer"},
           v.pc = "estSet" => z.state = "LinkReleased",
           z.sent = y.sent \/ (z.sent.t = "DISC" /\ ~NotAsked(z, v)),
           \/ z.tx = y.tx
           \/ \E f \in Frame : /\ z.tx = Append(y.tx, f) /\ f.t \in {"DM", "UA", "DISC"}
                               /\ f.t = "DISC" => ~NotAsked(z, v)
    PROVE  Chain(x, z, v)
<1>1. y.tx \in Seq(Frame) BY EndpointTypes
<1>2. /\ ~Up(z) /\ (Waiting(z, v) => v.pc = "estSet" /\ Waiting(y, w))
      /\ NotAsked(z, v) => NotAsked(y, w) /\ z.sent = y.sent
  BY DEF Up, Waiting, NotAsked
<1>3. /\ Free(y.tx, {"SABM"}) => Free(z.tx, {"SABM"})
      /\ Free(y.tx, {"I", "RR", "REJ"}) => Free(z.tx, {"I", "RR", "REJ"})
      /\ NotAsked(z, v) /\ Free(y.tx, {"I", "RR", "REJ", "SABM", "DISC"})
            => Free(z.tx, {"I", "RR", "REJ", "SABM", "DISC"})
  BY <1>1, FreeAppend
<1>4. \A lo, hi : AcksRise(y.tx, lo, hi) => AcksRise(z.tx, lo, hi)
  BY <1>1, AcksAppend DEF CarriesAck
<1>5. Asks(z, v) BY <1>2, <1>3 DEF Chain, Asks, CarriesAck
<1>6. NotYet(x, z) BY <1>2, <1>3 DEF Chain, NotYet
<1>7. InStep(x, z, v) BY <1>2, <1>4 DEF Chain, InStep
<1>8. Named(z)
  <2>1. Named(y) BY DEF Chain
  <2> QED BY <1>1, <2>1, AskedByNameAppend DEF Named
<1>9. Alone(x, z, v)
  <2> SUFFICES ASSUME Access = NoInfo PROVE Alone(x, z, v) BY DEF Alone
  <2>1. Alone(x, y, w) BY DEF Chain
  <2>2. AsksFirst(y.tx) BY <2>1 DEF Alone
  <2>3. AsksFirst(z.tx) BY <1>1, <2>2, AsksFirstAppend
  <2>4. z.state # "AwaitingEstablish" OBVIOUS
  <2> QED BY <1>2, <1>3, <2>1, <2>3, <2>4 DEF Alone
<1> QED BY <1>5, <1>6, <1>7, <1>8, <1>9 DEF Chain

LEMMA HandsetEnds ==
    ASSUME NEW x, NEW y \in Endpoint, NEW w, NEW z, NEW v, Chain(x, y, w), Ended(y, z),
           v.pc = w.pc \/ v.pc \notin {"estSet", "estSABM", "estTimer"}
    PROVE  Chain(x, z, v)
<1>1. z.state = "LinkReleased" /\ z.ind # "none" /\ z.sent = y.sent BY DEF Ended
<1>2. PICK f \in Frame : f.t = "DM" /\ z.tx \in {y.tx, Append(y.tx, f)} BY DEF Ended
<1>3. z.state \notin Multiframe \union {"AwaitingEstablish"} BY <1>1 DEF Multiframe
<1> QED BY <1>1, <1>2, <1>3, HandsetStops

\* The handset's link is established (receiveUFrameUA).
LEMMA HandsetEstablished ==
    ASSUME NEW x, NEW y \in Endpoint, NEW w, NEW z, Chain(x, y, w),
           y.state = "AwaitingEstablish", ~Unused(x), Access = NoInfo => ~NotAsked(y, w),
           z.state = "LinkEstablished", z.VR = 0, z.ind = "ESTABLISH", ~z.t200,
           z.sent = y.sent, z.tx = y.tx
    PROVE  Chain(x, z, w)
<1>1. Up(z) /\ Waiting(y, w) /\ ~Up(y) BY DEF Up, Waiting, Multiframe
<1>2. w.pc # "estSet" BY DEF Chain, Asks
<1>3. ~Waiting(z, w) /\ (NotAsked(z, w) => NotAsked(y, w))
  BY <1>2 DEF Waiting, NotAsked
<1>4. Free(y.tx, {"I", "RR", "REJ"}) BY <1>1 DEF Chain, Asks
<1>5. Asks(z, w) BY <1>2, <1>3 DEF Chain, Asks
<1>6. InStep(x, z, w)
  <2>1. HandsetRenews /\ Up(x) => x.VA = 0 /\ SentRise(x.tx, 0, x.VS)
    BY <1>1 DEF Chain, InStep
  <2> QED BY <1>3, <1>4, <2>1, FreeRises DEF InStep
<1>7. NotYet(x, z) /\ Named(z) BY DEF Chain, NotYet, Named
<1>8. Alone(x, z, w) BY <1>3 DEF Chain, Alone
<1> QED BY <1>5, <1>6, <1>7, <1>8 DEF Chain

\* The I-frame it waited for moves V(R), to the base station's V(S).
LEMMA HandsetAdvances ==
    ASSUME NEW x \in Endpoint, NEW y \in Endpoint, NEW w, Chain(x, y, w), NEW f \in Frame,
           f.t = "I", f.ns = y.VR, FromBase(x, y, w, f), Up(y)
    PROVE  Chain(x, [y EXCEPT !.VR = Mod(y.VR + 1)], w)
<1> DEFINE z == [y EXCEPT !.VR = Mod(y.VR + 1)]
<1>1. /\ z.VR = Mod(y.VR + 1) /\ z.state = y.state /\ z.ind = y.ind /\ z.sent = y.sent
      /\ z.t200 = y.t200 /\ z.tx = y.tx /\ Up(z) = Up(y)
      /\ Waiting(z, w) = Waiting(y, w) /\ NotAsked(z, w) = NotAsked(y, w)
  BY DEF Endpoint, Up, Waiting, NotAsked
<1> HIDE DEF z
<1>2. Mod(y.VR + 1) # y.VR BY NextNumber, EndpointTypes
<1>3. Asks(z, w) BY <1>1 DEF Chain, Asks
<1>4. InStep(x, z, w)
  <2> SUFFICES ASSUME HandsetRenews, Up(x)
               PROVE  /\ AcksRise(y.tx, x.VA, x.VS) /\ z.VR \in {x.VA, x.VS}
                      /\ AcksRise(y.tx, x.VA, z.VR) /\ SentRise(x.tx, z.VR, x.VS)
                      /\ Waiting(y, w) => x.VA = 0 /\ SentRise(x.tx, 0, x.VS)
    BY <1>1 DEF InStep
  <2>1. z.VR = x.VS /\ SentRise(x.tx, x.VS, x.VS) BY <1>1, <1>2 DEF FromBase
  <2> QED BY <2>1 DEF Chain, InStep
<1>5. NotYet(x, z) /\ Named(z) /\ Alone(x, z, w)
  BY <1>1 DEF Chain, NotYet, Named, Alone
<1> QED BY <1>3, <1>4, <1>5 DEF Chain, z

LEMMA HandsetSendsI ==
    ASSUME NEW x, NEW y \in Endpoint, NEW w, Chain(x, y, w), NEW g \in Segment, Up(y)
    PROVE  Chain(x, sendIFrame(y, g), w)
<1> DEFINE v == [y EXCEPT !.VS = Mod(y.VS + 1)]
           f == MkFrame("I", CBit(y), FALSE, y.VS, y.VR, g)
           z == sendIFrame(y, g)
<1>1. y.VS \in SeqNum /\ y.VR \in SeqNum /\ y.tx \in Seq(Frame) BY EndpointTypes
<1>2. f \in Frame /\ f.t = "I" /\ f.nr = y.VR BY <1>1, Bits DEF MkFrame, Frame
<1>3. z = writeL1Ack(v, f) BY DEF sendIFrame
<1> HIDE DEF f
<1>4. /\ z.state = y.state /\ z.VR = y.VR /\ z.ind = y.ind /\ z.sent = f
      /\ z.tx \in {y.tx, Append(y.tx, f)}
  BY <1>3 DEF writeL1Ack, writeL1, Endpoint
<1> HIDE DEF z
<1>5. Up(z) /\ ~Waiting(y, w) BY <1>4, WaitingIsDown DEF Chain, Up
<1>6. ~Waiting(z, w) /\ (NotAsked(z, w) = NotAsked(y, w))
  BY <1>4, <1>5 DEF Waiting, NotAsked
<1>7. \A lo : AcksRise(y.tx, lo, y.VR) => AcksRise(z.tx, lo, y.VR)
  BY <1>1, <1>2, <1>4, AcksAppend
<1>8. Asks(z, w) BY <1>2, <1>4, <1>6 DEF Chain, Asks
<1>9. NotYet(x, z) BY DEF Chain, NotYet
<1>10. InStep(x, z, w)
  <2> SUFFICES ASSUME HandsetRenews, Up(x)
               PROVE  /\ AcksRise(z.tx, x.VA, x.VS) /\ y.VR \in {x.VA, x.VS}
                      /\ AcksRise(z.tx, x.VA, y.VR) /\ SentRise(x.tx, y.VR, x.VS)
    BY <1>4, <1>6 DEF InStep
  <2>1. /\ y.VR \in {x.VA, x.VS}
        /\ AcksRise(y.tx, x.VA, y.VR) /\ SentRise(x.tx, y.VR, x.VS)
    BY DEF Chain, InStep
  <2>2. AcksRise(z.tx, x.VA, y.VR) BY <1>7, <2>1
  <2> QED BY <2>1, <2>2, RiseTo
<1>11. Named(z)
  <2>1. Named(y) BY DEF Chain
  <2> QED BY <1>1, <1>2, <1>4, <2>1, AskedByNameAppend DEF Named
<1>12. Alone(x, z, w)
  <2> SUFFICES ASSUME Access = NoInfo PROVE Alone(x, z, w) BY DEF Alone
  <2>1. Alone(x, y, w) /\ ~NotAsked(y, w) BY DEF Chain, Alone
  <2>2. Free(y.tx, {"SABM"}) => Free(z.tx, {"SABM"}) BY <1>1, <1>2, <1>4, FreeAppend
  <2>3. AsksFirst(y.tx) => AsksFirst(z.tx) BY <1>1, <1>2, <1>4, AsksFirstAppend
  <2> QED BY <1>2, <1>4, <1>6, <2>1, <2>2, <2>3 DEF Alone
<1> QED BY <1>8, <1>9, <1>10, <1>11, <1>12 DEF Chain, z

\* T200 repeats what the handset sent last: in AwaitingEstablish that is no acknowledgement.
LEMMA HandsetRepeats ==
    ASSUME OneHandset, NEW x, NEW y \in Endpoint, NEW w, NEW z, Chain(x, y, w), y.t200,
           y.state \in Multiframe \union {"AwaitingEstablish"},
           z.state = y.state, z.ind = y.ind, z.VR = y.VR, z.t200, z.sent = y.sent,
           z.tx \in {y.tx, Append(y.tx, resent(y, "ms"))}
    PROVE  Chain(x, z, w)
<1> DEFINE f == resent(y, "ms")
<1>1. y.tx \in Seq(Frame) /\ f \in Frame /\ y.sent \in Frame
  BY EndpointTypes, ResentType DEF End
<1>2. /\ f.t = y.sent.t /\ f.info = y.sent.info
      /\ HandsetRenews /\ y.sent.t = "I" => f.nr = y.VR
  BY <1>1 DEF resent, HandsetRenews, Frame
<1>3. z.tx = y.tx \/ z.tx = Append(y.tx, f) OBVIOUS
<1> HIDE DEF f
<1>4. /\ Up(z) = Up(y) /\ Waiting(z, w) = Waiting(y, w) /\ NotAsked(z, w) = NotAsked(y, w)
      /\ Up(y) = (y.state # "AwaitingEstablish")
  BY DEF Up, Waiting, NotAsked, Multiframe
<1>5. CarriesAck(f) => /\ y.sent.t = "I" /\ Up(y) /\ ~Waiting(y, w)
                       /\ HandsetRenews => f.nr = y.VR
  <2>1. ASSUME CarriesAck(f) PROVE y.sent.t = "I" /\ ~Waiting(y, w)
    BY <1>2, <2>1 DEF Chain, Asks, CarriesAck
  <2> QED BY <1>2, <1>4, <2>1 DEF Waiting
<1>6. \A T : Free(y.tx, T) /\ f.t \notin T => Free(z.tx, T) BY <1>1, <1>3, FreeAppend
<1>7. Waiting(y, w) => f.t \notin {"I", "RR", "REJ"} BY <1>5 DEF CarriesAck
<1>8. Asks(z, w) BY <1>4, <1>6, <1>7 DEF Chain, Asks
<1>9. NotYet(x, z) BY <1>4, <1>6, <1>7 DEF Chain, NotYet, Waiting
<1>10. InStep(x, z, w)
  <2> SUFFICES ASSUME HandsetRenews, Up(x)
               PROVE  /\ AcksRise(z.tx, x.VA, x.VS)
                      /\ Up(y) => /\ y.VR \in {x.VA, x.VS}
                                  /\ AcksRise(z.tx, x.VA, y.VR) /\ SentRise(x.tx, y.VR, x.VS)
                      /\ Waiting(y, w) => x.VA = 0 /\ SentRise(x.tx, 0, x.VS)
    BY <1>4 DEF InStep
  <2>1. /\ AcksRise(y.tx, x.VA, x.VS)
        /\ Up(y) => /\ y.VR \in {x.VA, x.VS}
                    /\ AcksRise(y.tx, x.VA, y.VR) /\ SentRise(x.tx, y.VR, x.VS)
        /\ Waiting(y, w) => x.VA = 0 /\ SentRise(x.tx, 0, x.VS)
    BY DEF Chain, InStep
  <2>2. Up(y) => AcksRise(z.tx, x.VA, y.VR) BY <1>1, <1>3, <1>5, <2>1, AcksAppend
  <2>3. ~Up(y) => AcksRise(z.tx, x.VA, x.VS) BY <1>1, <1>3, <1>5, <2>1, AcksAppend
  <2> QED BY <2>1, <2>2, <2>3, RiseTo
<1>11. Named(z)
  <2>1. Named(y) BY DEF Chain
  <2>2. Access # NoInfo /\ f.t = "SABM" => f.info # NoInfo BY <1>2, <2>1 DEF Named
  <2> QED BY <1>1, <1>3, <2>1, <2>2, AskedByNameAppend DEF Named
<1>12. Alone(x, z, w)
  <2> SUFFICES ASSUME Access = NoInfo PROVE Alone(x, z, w) BY DEF Alone
  <2>1. Alone(x, y, w) BY DEF Chain
  <2>2. NotAsked(y, w) => f.t = "UI" BY <1>2, <2>1 DEF Alone
  <2>3. f.t = "SABM" => y.state = "AwaitingEstablish" BY <1>2, <1>4, <2>1 DEF Alone
  <2>4. f.t = "SABM" => Free(y.tx, {"I", "RR", "REJ"})
    BY <2>3 DEF Chain, Asks, Waiting
  <2>5. AsksFirst(z.tx)
    <3>1. AsksFirst(y.tx) BY <2>1 DEF Alone
    <3> QED BY <1>1, <1>3, <2>4, <3>1, AsksFirstAppend
  <2>6. NotAsked(y, w) /\ Free(y.tx, {"I", "RR", "REJ", "SABM", "DISC"})
           => Free(z.tx, {"I", "RR", "REJ", "SABM", "DISC"})
    BY <1>6, <2>2
  <2>7. Up(x) /\ ~x.eip => Free(z.tx, {"SABM"}) BY <1>6, <2>1, <2>3 DEF Alone
  <2> QED BY <1>4, <2>1, <2>5, <2>6, <2>7 DEF Alone
<1> QED BY <1>8, <1>9, <1>10, <1>11, <1>12 DEF Chain

LEMMA HandsetExpires ==
    ASSUME OneHandset, NEW x, NEW y \in Endpoint, NEW w, Chain(x, y, w), NEW expired
    PROVE  Chain(x, checkT200(y, "ms", expired), w)
<1> DEFINE z == T200Expiration(y, "ms")
<1> SUFFICES ASSUME y.t200 PROVE Chain(x, z, w) BY DEF checkT200
<1>1. Sapi = 0 /\ "ms" \in End BY DEF OneHandset, End
<1>2. ASSUME y.state = "LinkReleased", z = [y EXCEPT !.t200 = FALSE] PROVE Chain(x, z, w)
  <2>1. Keeps(y, z) /\ z.tx = y.tx BY <1>2 DEF Keeps, Endpoint
  <2> HIDE DEF z
  <2> QED BY <2>1, HandsetSays
<1>3. ASSUME Ended(y, z) PROVE Chain(x, z, w) BY <1>3, HandsetEnds
<1>4. \/ Ended(y, z)
      \/ /\ y.state \in Multiframe \union {"AwaitingEstablish"}
         /\ z.state = y.state /\ z.ind = y.ind /\ z.VR = y.VR /\ z.t200 = TRUE
         /\ z.sent = y.sent /\ z.tx \in {y.tx, Append(y.tx, resent(y, "ms"))}
      \/ y.state = "LinkReleased" /\ z = [y EXCEPT !.t200 = FALSE]
  BY <1>1, T200Cases
<1> HIDE DEF z
<1> QED BY <1>2, <1>3, <1>4, HandsetRepeats

\* What any of the senders does.
LEMMA HandsetSaid ==
    ASSUME NEW x, NEW y \in Endpoint, NEW w, NEW z, NEW f, Chain(x, y, w), Said(y, z, f),
           f.t \notin {"SABM", "DISC"}, CarriesAck(f) => Up(y) /\ f.nr = y.VR
    PROVE  Chain(x, z, w) /\ z \in Endpoint
<1>1. Keeps(y, z) /\ z \in Endpoint BY DEF Said, Sent, Keeps
<1>2. z.tx = y.tx \/ z.tx = Append(y.tx, f) BY DEF Said
<1>3. f \in Frame BY DEF Said
<1> QED BY <1>1, <1>2, <1>3, HandsetSays

LEMMA HandsetSaysS ==
    ASSUME NEW x, NEW y \in Endpoint, NEW w, Chain(x, y, w), Up(y), NEW F \in BOOLEAN
    PROVE  /\ Chain(x, sendSFrameRR(y, F), w) /\ sendSFrameRR(y, F) \in Endpoint
           /\ Chain(x, sendSFrameREJ(y, F), w) /\ sendSFrameREJ(y, F) \in Endpoint
<1>1. NoInfo \in Identity BY DEF Identity
<1>2. PICK f : Said(y, sendSFrameRR(y, F), f) /\ f.t = "RR" /\ f.nr = y.VR
  BY <1>1, SendersSay
<1>3. PICK g : Said(y, sendSFrameREJ(y, F), g) /\ g.t = "REJ" /\ g.nr = y.VR
  BY <1>1, SendersSay
<1> QED BY <1>2, <1>3, HandsetSaid

\* Its own V(A) and V(S) are not the chain's.
LEMMA HandsetTakesAck ==
    ASSUME NEW x, NEW y \in Endpoint, NEW w, Chain(x, y, w), NEW f \in Frame,
           CarriesAck(f), FromBase(x, y, w, f), Up(y)
    PROVE  LET v == leaveContention([y EXCEPT !.eip = FALSE])
           IN  /\ v \in Endpoint /\ Up(v) /\ Chain(x, v, w)
               /\ processAck(v, f.nr) \in Endpoint /\ Up(processAck(v, f.nr))
               /\ Chain(x, processAck(v, f.nr), w)
               /\ FromBase(x, processAck(v, f.nr), w, f)
<1> DEFINE v == leaveContention([y EXCEPT !.eip = FALSE])
           a == processAck(v, f.nr)
<1>1. f.nr \in SeqNum BY DEF Frame, CarriesAck
<1>2. v \in Endpoint /\ Up(v) /\ Keeps(y, v) /\ v.tx = y.tx
  BY DEF leaveContention, Endpoint, LAPDState, Up, Multiframe, Keeps
<1> HIDE DEF v
<1>3. a \in Endpoint /\ Up(a)
  <2>1. GoesOn(v, v) BY <1>2 DEF GoesOn, Up
  <2> QED BY <1>1, <2>1, AckGoesOn DEF GoesOn, Up
<1>4. Keeps(v, a) /\ a.tx = v.tx
  BY <1>2 DEF processAck, Endpoint, Keeps
<1> HIDE DEF a
<1>5. Keeps(y, a) /\ a.tx = y.tx BY <1>2, <1>3, <1>4 DEF Keeps, Up
<1>6. Chain(x, v, w) /\ Chain(x, a, w) BY <1>2, <1>5, HandsetSays
<1>7. FromBase(x, a, w, f)
  <2>1. f.t \notin {"UA", "SABM"} /\ a.VR = y.VR BY <1>5 DEF CarriesAck, Keeps
  <2> QED BY <1>3, <2>1 DEF FromBase
<1> QED BY <1>2, <1>3, <1>6, <1>7 DEF a, v

LEMMA HandsetReceivesI ==
    ASSUME NEW x \in Endpoint, NEW y \in Endpoint, NEW w, Chain(x, y, w), NEW f \in Frame,
           f.t = "I", FromBase(x, y, w, f)
    PROVE  Chain(x, receiveIFrame(y, f), w)
<1> DEFINE e == [y EXCEPT !.eip = FALSE]
           v == leaveContention(e)
           a == processAck(v, f.nr)
           u == [a EXCEPT !.VR = Mod(a.VR + 1)]
           r == bufferIFrameData(u, f.info)
<1>1. f.pf \in BOOLEAN /\ f.info \in Segment BY DEF Frame
<1>2. CASE ~Up(y)
  <2>1. Keeps(y, e) /\ e.tx = y.tx BY DEF Keeps, Endpoint
  <2>2. receiveIFrame(y, f) = e BY <1>2 DEF receiveIFrame, Up
  <2> HIDE DEF e
  <2> QED BY <2>1, <2>2, HandsetSays
<1>3. CASE Up(y)
  <2>1. a \in Endpoint /\ Up(a) /\ Chain(x, a, w) /\ FromBase(x, a, w, f)
    BY <1>3, HandsetTakesAck DEF CarriesAck
  <2>2. \/ f.ns = a.VR /\ receiveIFrame(y, f) = sendSFrameRR(r, f.pf)
        \/ receiveIFrame(y, f) = sendSFrameREJ(a, f.pf)
    BY <1>3 DEF receiveIFrame, Up
  <2> HIDE DEF a, v, e
  <2>3. ASSUME f.ns = a.VR PROVE Chain(x, sendSFrameRR(r, f.pf), w)
    <3>1. Chain(x, u, w) BY <2>1, <2>3, HandsetAdvances
    <3>2. u \in Endpoint /\ Up(u)
      <4>1. Mod(a.VR + 1) \in SeqNum BY <2>1, ModIsSeqNum DEF Endpoint
      <4> QED BY <2>1, <4>1 DEF Endpoint, Up
    <3> HIDE DEF u
    <3>3. r \in Endpoint /\ Up(r) /\ Keeps(u, r) /\ r.tx = u.tx
      BY <1>1, <3>2, BufferFields DEF Up, Keeps
    <3> HIDE DEF r
    <3>4. Chain(x, r, w) BY <3>1, <3>2, <3>3, HandsetSays
    <3> QED BY <1>1, <3>3, <3>4, HandsetSaysS
  <2>4. Chain(x, sendSFrameREJ(a, f.pf), w) BY <1>1, <2>1, HandsetSaysS
  <2> QED BY <2>2, <2>3, <2>4
<1> QED BY <1>2, <1>3

LEMMA HandsetReceivesS ==
    ASSUME OneHandset, NEW x, NEW y \in Endpoint, NEW w, Chain(x, y, w), NEW f \in Frame,
           f.t \in {"RR", "REJ"}, FromBase(x, y, w, f)
    PROVE  Chain(x, receiveSFrame(y, f), w)
<1> DEFINE e == [y EXCEPT !.eip = FALSE]
           v == leaveContention(e)
           a == processAck(v, f.nr)
           s == sendSFrameRR(v, TRUE)
<1>1. f.pf \in BOOLEAN /\ f.nr \in SeqNum /\ Sapi = 0 BY DEF Frame, OneHandset
<1>2. CASE ~Up(y)
  <2>1. ~Up(e) /\ Keeps(y, e) /\ e.tx = y.tx BY <1>2 DEF Up, Endpoint, Keeps
  <2>2. receiveSFrame(y, f) = e
    BY <2>1 DEF receiveSFrame, receiveSFrameRR, receiveSFrameREJ, Up
  <2> HIDE DEF e
  <2> QED BY <2>1, <2>2, HandsetSays
<1>3. CASE Up(y)
  <2>1. /\ v \in Endpoint /\ Up(v) /\ Chain(x, v, w)
        /\ a \in Endpoint /\ Up(a) /\ Chain(x, a, w)
    BY <1>3, HandsetTakesAck DEF CarriesAck
  <2>2. Up(e) BY <1>3 DEF Up, Endpoint
  <2>3. CASE f.t = "RR"
    <3>1. receiveSFrame(y, f) \in {a, processAck(s, f.nr)}
      BY <2>2, <2>3 DEF receiveSFrame, receiveSFrameRR, Up
    <3> HIDE DEF v, a, e
    <3>2. s \in Endpoint /\ Chain(x, s, w) BY <2>1, HandsetSaysS
    <3> HIDE DEF s
    <3>3. Keeps(s, processAck(s, f.nr)) /\ processAck(s, f.nr).tx = s.tx
      BY <3>2 DEF processAck, Endpoint, Keeps
    <3>4. Chain(x, processAck(s, f.nr), w) BY <3>2, <3>3, HandsetSays
    <3> QED BY <2>1, <3>1, <3>4
  <2>4. CASE f.t = "REJ"
    <3>1. receiveSFrame(y, f) \in {a, sendSFrameRR(a, TRUE), abnormalRelease(a)}
      BY <1>1, <2>2, <2>4 DEF receiveSFrame, receiveSFrameREJ, Up
    <3> HIDE DEF a, v, e
    <3>2. Chain(x, sendSFrameRR(a, TRUE), w) BY <2>1, HandsetSaysS
    <3>3. Chain(x, abnormalRelease(a), w) BY <1>1, <2>1, AbnormalEnds, HandsetEnds
    <3> QED BY <2>1, <3>1, <3>2, <3>3
  <2> QED BY <2>3, <2>4
<1> QED BY <1>2, <1>3

LEMMA HandsetReceivesDISC ==
    ASSUME OneHandset, NEW x, NEW y \in Endpoint, NEW w, Chain(x, y, w), NEW f \in Frame
    PROVE  Chain(x, receiveUFrameDISC(y, f), w)
<1> DEFINE e == [y EXCEPT !.eip = FALSE]
           m == sendUFrameDM(e, f.pf)
           a == sendUFrameUA(e, f.pf, NoInfo)
           z == receiveUFrameDISC(y, f)
<1>1. Sapi = 0 /\ f.pf \in BOOLEAN /\ NoInfo \in Identity /\ "RELEASE" \in Primitives \ {"ESTABLISH"}
  BY DEF OneHandset, Frame, Identity, Primitives
<1>2. e \in Endpoint /\ e.state = y.state /\ Keeps(y, e) /\ e.tx = y.tx
  BY DEF Endpoint, Keeps
<1> HIDE DEF e
<1>3. Chain(x, e, w) BY <1>2, HandsetSays
<1>4. PICK g : Said(e, m, g) /\ g.t = "DM" BY <1>1, <1>2, SendersSay
<1>5. PICK h : Said(e, a, h) /\ h.t = "UA" BY <1>1, <1>2, SendersSay
<1> HIDE DEF m, a
<1>6. Chain(x, m, w) /\ m \in Endpoint /\ Chain(x, a, w) /\ a \in Endpoint
  <2>1. ~CarriesAck(g) /\ ~CarriesAck(h) BY <1>4, <1>5 DEF CarriesAck
  <2> QED BY <1>2, <1>3, <1>4, <1>5, <2>1, HandsetSaid
<1>7. ASSUME NEW q \in {e, m, a} PROVE Chain(x, clearState(q, "RELEASE"), w)
  BY <1>1, <1>2, <1>3, <1>6, ClearStateEnds, HandsetEnds
<1>8. z \in {clearState(e, "RELEASE"), clearState(m, "RELEASE"), clearState(a, "RELEASE"), a}
  BY DEF receiveUFrameDISC, m, a, e, Endpoint, LAPDState, Multiframe
<1> HIDE DEF z
<1>9. Chain(x, z, w) BY <1>6, <1>7, <1>8
<1> QED BY <1>9 DEF z

LEMMA HandsetReceivesUA ==
    ASSUME OneHandset, NEW x, NEW y \in Endpoint, NEW w, Chain(x, y, w), NEW f \in Frame,
           f.t = "UA", FromBase(x, y, w, f)
    PROVE  Chain(x, receiveUFrameUA(y, f), w)
<1> DEFINE c == clearCounters(y)
           z == indicate([c EXCEPT !.state = "LinkEstablished"], "ESTABLISH")
<1>1. Sapi = 0 /\ "RELEASE" \in Primitives \ {"ESTABLISH"} BY DEF OneHandset, Primitives
<1>2. /\ c \in Endpoint /\ c.VR = 0 /\ c.t200 = FALSE /\ c.sent = y.sent /\ c.tx = y.tx
  BY ClearCountersFields
<1>3. CASE f.pf /\ y.state = "AwaitingEstablish"
  <2>1. receiveUFrameUA(y, f) = z BY <1>3 DEF receiveUFrameUA
  <2> HIDE DEF c
  <2>2. /\ z.state = "LinkEstablished" /\ z.VR = 0 /\ z.ind = "ESTABLISH" /\ ~z.t200
        /\ z.sent = y.sent /\ z.tx = y.tx
    BY <1>2 DEF indicate, Endpoint
  <2> HIDE DEF z
  <2>3. ~Unused(x) /\ (Access = NoInfo => ~NotAsked(y, w)) BY DEF FromBase
  <2>4. Chain(x, z, w) BY <1>3, <2>2, <2>3, HandsetEstablished
  <2> QED BY <2>1, <2>4
<1>4. CASE ~(f.pf /\ y.state = "AwaitingEstablish")
  <2>1. receiveUFrameUA(y, f) \in {clearState(y, "RELEASE"), abnormalRelease(y)}
    BY <1>4 DEF receiveUFrameUA
  <2>2. Chain(x, clearState(y, "RELEASE"), w) BY <1>1, ClearStateEnds, HandsetEnds
  <2>3. Chain(x, abnormalRelease(y), w) BY <1>1, AbnormalEnds, HandsetEnds
  <2> QED BY <2>1, <2>2, <2>3
<1> QED BY <1>3, <1>4

LEMMA HandsetReceives ==
    ASSUME OneHandset, NEW x \in Endpoint, NEW y \in Endpoint, NEW w, Chain(x, y, w),
           NEW f \in Frame, FromBase(x, y, w, f)
    PROVE  Chain(x, receiveFrame(y, f), w)
<1>1. Sapi = 0 /\ "RELEASE" \in Primitives \ {"ESTABLISH"} BY DEF OneHandset, Primitives
<1>2. Chain(x, clearState(y, "RELEASE"), w) BY <1>1, ClearStateEnds, HandsetEnds
<1>3. CASE f.t = "I"
  BY <1>3, HandsetReceivesI DEF receiveFrame
<1>4. CASE f.t \in {"RR", "REJ"}
  BY <1>4, HandsetReceivesS DEF receiveFrame
<1>5. CASE f.t = "DISC"
  BY <1>5, HandsetReceivesDISC DEF receiveFrame
<1>6. CASE f.t = "UA"
  BY <1>6, HandsetReceivesUA DEF receiveFrame
<1>7. CASE f.t \in {"DM", "UI"}
  BY <1>2, <1>7 DEF receiveFrame, receiveUFrameDM
<1>8. f.t # "SABM" BY DEF FromBase
<1> QED BY <1>3, <1>4, <1>5, <1>6, <1>7, <1>8 DEF Frame

\* The handset's L3 has had an indication, and its thread moves.
LEMMA HandsetMoves ==
    ASSUME NEW x, NEW y, NEW w, NEW v, Chain(x, y, w),
           \/ v.pc = w.pc
           \/ y.ind # "none" /\ v.pc \notin {"estSet", "estSABM", "estTimer"}
    PROVE  Chain(x, y, v)
<1>1. CASE v.pc = w.pc
  BY <1>1 DEF Chain, Asks, InStep, Alone, Waiting, NotAsked
<1>2. CASE y.ind # "none" /\ v.pc \notin {"estSet", "estSABM", "estTimer"}
  <2>1. (Waiting(y, v) => Waiting(y, w)) /\ ~NotAsked(y, v)
    BY <1>2 DEF Waiting, NotAsked
  <2>2. Asks(y, v) /\ InStep(x, y, v) /\ Alone(x, y, v)
    BY <1>2, <2>1 DEF Chain, Asks, InStep, Alone
  <2> QED BY <2>2 DEF Chain
<1> QED BY <1>1, <1>2

\* ESTABLISH is called, and the handset waits for the UA to the SABM it will send.
LEMMA HandsetCallsEstablish ==
    ASSUME NEW x, NEW y, NEW w, NEW v, Chain(x, y, w),
           w.pc = "idle", y.ind = "none", v.pc = "estSet"
    PROVE  Chain(x, y, v)
<1>1. y.state = "LinkReleased" BY DEF Chain, Asks
<1>2. /\ Waiting(y, v) /\ Waiting(y, w) /\ NotAsked(y, v) /\ NotAsked(y, w)
  BY DEF Waiting, NotAsked
<1> QED BY <1>1, <1>2 DEF Chain, Asks, InStep, Alone

LEMMA HandsetAwaitsEstablish ==
    ASSUME NEW x, NEW y, NEW w, NEW z, NEW v, Chain(x, y, w),
           w.pc = "estSet", v.pc = "estSABM", z.state = "AwaitingEstablish",
           z.ind = y.ind, z.tx = y.tx, z.sent = y.sent
    PROVE  Chain(x, z, v)
<1>1. /\ Waiting(z, v) /\ Waiting(y, w) /\ NotAsked(z, v) /\ NotAsked(y, w) /\ ~Up(z)
  BY DEF Waiting, NotAsked, Up, Multiframe
<1>2. Asks(z, v) /\ NotYet(x, z) /\ InStep(x, z, v) /\ Named(z)
  BY <1>1 DEF Chain, Asks, NotYet, InStep, Named
<1>3. Alone(x, z, v) BY <1>1 DEF Chain, Alone
<1> QED BY <1>2, <1>3 DEF Chain

\* A SABM that carries an identity: the handset's, or another one's.
LEMMA NamedSABM ==
    ASSUME Access # NoInfo, NEW x, NEW y \in Endpoint, NEW w, NEW z, NEW v, NEW f \in Frame,
           Chain(x, y, w), f.t = "SABM", f.info # NoInfo,
           \/ v.pc = w.pc
           \/ w.pc \in {"estSABM", "estTimer"} /\ v.pc \in {"estTimer", "estRead"},
           z.state = y.state, z.ind = y.ind, z.VR = y.VR,
           z.sent \in {y.sent, f}, z.tx \in {y.tx, Append(y.tx, f)}
    PROVE  Chain(x, z, v)
<1>1. y.tx \in Seq(Frame) /\ ~CarriesAck(f) BY EndpointTypes DEF CarriesAck
<1>2. Up(z) = Up(y) /\ (Waiting(z, v) => Waiting(y, w)) BY DEF Up, Waiting
<1>3. Free(y.tx, {"I", "RR", "REJ"}) => Free(z.tx, {"I", "RR", "REJ"})
  BY <1>1, FreeAppend
<1>4. \A lo, hi : AcksRise(y.tx, lo, hi) => AcksRise(z.tx, lo, hi)
  BY <1>1, AcksAppend
<1>5. Asks(z, v)
  <2>1. Asks(y, w) BY DEF Chain
  <2>2. z.sent.t \notin {"RR", "REJ"} /\ (CarriesAck(z.sent) => CarriesAck(y.sent))
    BY <1>1, <2>1 DEF Asks
  <2>3. v.pc = "estSet" => w.pc = "estSet" OBVIOUS
  <2>4. z.ind = "none" /\ v.pc = "idle" => w.pc = "idle" OBVIOUS
  <2>5. z.ind = "none" => v.pc \in {"idle", "estSet", "estSABM", "estTimer", "estRead"}
    BY <2>1 DEF Asks
  <2> QED BY <1>2, <1>3, <2>1, <2>2, <2>3, <2>4, <2>5 DEF Asks
<1>6. NotYet(x, z) BY <1>2, <1>3 DEF Chain, NotYet
<1>7. InStep(x, z, v) BY <1>2, <1>4 DEF Chain, InStep
<1>8. Named(z)
  <2>1. AskedByName(y.tx) /\ (y.sent.t = "SABM" => y.sent.info # NoInfo)
    BY DEF Chain, Named
  <2>2. AskedByName(z.tx) BY <1>1, <2>1, AskedByNameAppend
  <2> QED BY <2>1, <2>2 DEF Named
<1>9. Alone(x, z, v) BY DEF Alone
<1> QED BY <1>5, <1>6, <1>7, <1>8, <1>9 DEF Chain

\* The one SABM that carries none.
LEMMA LonelySABM ==
    ASSUME Access = NoInfo, NEW x, NEW y \in Endpoint, NEW w, NEW z, NEW v, NEW f \in Frame,
           Chain(x, y, w), f.t = "SABM", w.pc = "estSABM", v.pc = "estRead",
           z.state = y.state, z.ind = y.ind, z.VR = y.VR,
           z.sent = f, z.tx \in {y.tx, Append(y.tx, f)}
    PROVE  Chain(x, z, v)
<1>1. y.tx \in Seq(Frame) /\ ~CarriesAck(f) BY EndpointTypes DEF CarriesAck
<1>2. /\ Up(z) = Up(y) /\ (Waiting(z, v) => Waiting(y, w))
      /\ NotAsked(y, w) /\ ~NotAsked(z, v)
  BY DEF Up, Waiting, NotAsked
<1>3. /\ ~Up(x) /\ ~Up(y) /\ AsksFirst(y.tx)
      /\ Free(y.tx, {"I", "RR", "REJ", "SABM", "DISC"})
  BY <1>2 DEF Chain, Alone
<1>4. Free(y.tx, {"I", "RR", "REJ"}) BY <1>3 DEF Free
<1>5. Free(z.tx, {"I", "RR", "REJ"}) BY <1>1, <1>4, FreeAppend
<1>6. Asks(z, v) BY <1>1, <1>2, <1>5 DEF Chain, Asks
<1>7. NotYet(x, z) /\ InStep(x, z, v) BY <1>2, <1>3, <1>5 DEF Chain, NotYet, InStep
<1>8. Named(z) BY DEF Named
<1>9. AsksFirst(z.tx) BY <1>1, <1>3, <1>4, AsksFirstAppend
<1>10. Alone(x, z, v) BY <1>2, <1>3, <1>9 DEF Alone
<1> QED BY <1>6, <1>7, <1>8, <1>10 DEF Chain

LEMMA StartReleaseFields ==
    ASSUME NEW x \in Endpoint
    PROVE  LET z == startRelease(x) IN
           /\ z.state = "AwaitingRelease" /\ z.ind = x.ind /\ z.VS = z.VA
           /\ z.sent.t = "DISC" /\ \E f \in Frame : f.t = "DISC" /\ z.tx \in {x.tx, Append(x.tx, f)}
<1> DEFINE c == clearCounters(x)
           r == [c EXCEPT !.eip = FALSE, !.state = "AwaitingRelease"]
           f == UFrame("DISC", CBit(r), TRUE, NoInfo)
           z == startRelease(x)
<1>1. c \in Endpoint /\ c.VS = 0 /\ c.VA = 0 /\ c.ind = x.ind /\ c.tx = x.tx
  BY ClearCountersFields
<1>2. z = writeL1Ack(r, f) BY DEF startRelease, sendUFrameDISC
<1> HIDE DEF c
<1>3. /\ r \in Endpoint /\ r.state = "AwaitingRelease" /\ r.VS = 0 /\ r.VA = 0
      /\ r.ind = x.ind /\ r.tx = x.tx
  BY <1>1 DEF Endpoint, LAPDState
<1> HIDE DEF r
<1>4. f \in Frame /\ f.t = "DISC"
  <2>1. f \in Frame BY <1>3, Bits, UFrameType DEF Identity
  <2> QED BY <2>1 DEF UFrame, MkFrame
<1> HIDE DEF f, z
<1>5. /\ z.state = r.state /\ z.ind = r.ind /\ z.VS = r.VS /\ z.VA = r.VA /\ z.sent = f
      /\ z.tx \in {r.tx, Append(r.tx, f)}
  BY <1>2, <1>3 DEF writeL1Ack, writeL1, Endpoint
<1> QED BY <1>3, <1>4, <1>5 DEF z
-----------------------------------------------------------------------------
(***************************************************************************)
(* Every action of LAPDm preserves the chain.                              *)
(***************************************************************************)
ChainInv == Chain(link["bts"], link["ms"], writer["ms"])

LEMMA HandsetStep ==
    ASSUME IInv, NEW z, NEW v, Chain(link["bts"], z, v),
           link' = [link EXCEPT !["ms"] = z], writer' = [writer EXCEPT !["ms"] = v]
    PROVE  ChainInv'
  BY DEF IInv, ChainInv, End

LEMMA BaseStep ==
    ASSUME IInv, NEW z, NEW v, Chain(z, link["ms"], writer["ms"]),
           link' = [link EXCEPT !["bts"] = z], writer' = [writer EXCEPT !["bts"] = v]
    PROVE  ChainInv'
  BY DEF IInv, ChainInv, End

\* A step in which no thread moves.
LEMMA LinkStep ==
    ASSUME IInv, UNCHANGED writer, NEW x, NEW y, Chain(x, y, writer["ms"]),
           \/ link' = [link EXCEPT !["bts"] = x] /\ y = link["ms"]
           \/ link' = [link EXCEPT !["ms"] = y] /\ x = link["bts"]
           \/ link' = [link EXCEPT !["bts"] = x, !["ms"] = y]
           \/ link' = [link EXCEPT !["ms"] = y, !["bts"] = x]
    PROVE  ChainInv'
  BY DEF IInv, ChainInv, End

LEMMA Sides ==
    ASSUME IInv
    PROVE  /\ "bts" \in End /\ "ms" \in End /\ End = {"bts", "ms"}
           /\ Peer("bts") = "ms" /\ Peer("ms") = "bts"
           /\ link["bts"] \in Endpoint /\ link["ms"] \in Endpoint
           /\ writer["bts"] \in Writer /\ writer["ms"] \in Writer
           /\ Local("bts", link["bts"], writer["bts"], session)
           /\ Local("ms", link["ms"], writer["ms"], session)
  BY DEF IInv, End, Peer

LEMMA firstFrameKeepsChain ==
    ASSUME OneHandset, IInv, ChainInv, NEW e \in End, firstFrame(e) PROVE ChainInv'
<1> DEFINE x == link["bts"]
           v == [x EXCEPT !.fresh = FALSE]
           z == clearCounters(v)
<1>1. e = "bts" /\ x.state \in {"LinkReleased", "AwaitingRelease"} /\ x \in Endpoint
  BY Sides DEF firstFrame, Local
<1>2. link' = [link EXCEPT !["bts"] = z] /\ UNCHANGED writer
  BY <1>1 DEF firstFrame
<1>3. /\ v \in Endpoint /\ v.state = x.state /\ v.l1 = x.l1 /\ v.sent = x.sent /\ v.tx = x.tx
  BY <1>1 DEF Endpoint
<1> HIDE DEF v
<1>4. /\ z.state = x.state /\ z.l1 = x.l1 /\ z.sent = x.sent /\ z.tx = x.tx
      /\ z.VS = z.VA
  BY <1>3, ClearCountersFields
<1> HIDE DEF z
<1>5. ~Up(z) /\ ~Up(x) /\ Unused(z) = Unused(x) BY <1>1, <1>4 DEF Up, Unused, Multiframe
<1>6. Chain(z, link["ms"], writer["ms"])
  BY <1>4, <1>5 DEF ChainInv, Chain, Timed, NotYet, InStep, Alone
<1> QED BY <1>2, <1>6, LinkStep

LEMMA frameArrivesKeepsChain ==
    ASSUME OneHandset, IInv, ChainInv, NEW e \in End, frameArrives(e) PROVE ChainInv'
<1> DEFINE x == link["bts"]
           y == link["ms"]
           w == writer["ms"]
<1>1. /\ x \in Endpoint /\ y \in Endpoint /\ Chain(x, y, w)
      /\ x.state # "AwaitingEstablish" /\ UNCHANGED writer
  BY Sides DEF frameArrives, ChainInv, Local, OneHandset
<1>2. CASE e = "bts"
  <2> DEFINE f == Head(y.tx)
             p == [y EXCEPT !.tx = Tail(y.tx)]
             r == receiveFrame(x, f)
  <2>1. y.tx # <<>> /\ ~x.fresh /\ x.l1 # "closed"
    BY <1>2, Sides DEF frameArrives
  <2>2. PICK expired : link' = [link EXCEPT !["bts"] = checkT200(r, "bts", expired),
                                            !["ms"].tx = Tail(@)]
    BY <1>2, Sides DEF frameArrives
  <2>3. link' = [link EXCEPT !["bts"] = checkT200(r, "bts", expired), !["ms"] = p]
    BY <2>2, Sides DEF IInv
  <2>4. f \in Frame /\ p \in Endpoint /\ Chain(x, p, w) /\ FromHandset(x, p, w, f)
    <3>1. f \in Frame /\ p \in Endpoint BY <1>1, <2>1, HeadIsFrame DEF Sent
    <3> QED BY <1>1, <2>1, <3>1, HandsetFrameLeaves
  <2> HIDE DEF f, p
  <2>5. Chain(r, p, w) BY <1>1, <2>1, <2>4, BaseReceives
  <2>6. r \in Endpoint /\ r.state # "AwaitingEstablish"
    <3>1. Step(x, r) BY <1>1, <2>1, <2>4, Sides, receiveFrameStep DEF Local
    <3> QED BY <1>1, <3>1 DEF Step
  <2> HIDE DEF r
  <2>7. Chain(checkT200(r, "bts", expired), p, w) BY <2>5, <2>6, BaseExpires
  <2> QED BY <1>1, <2>3, <2>7, LinkStep
<1>3. CASE e = "ms"
  <2> DEFINE f == Head(x.tx)
             p == [x EXCEPT !.tx = Tail(x.tx)]
             r == receiveFrame(y, f)
  <2>1. x.tx # <<>> /\ ~y.fresh BY <1>3, Sides DEF frameArrives
  <2>2. PICK expired : link' = [link EXCEPT !["ms"] = checkT200(r, "ms", expired),
                                            !["bts"].tx = Tail(@)]
    BY <1>3, Sides DEF frameArrives
  <2>3. link' = [link EXCEPT !["ms"] = checkT200(r, "ms", expired), !["bts"] = p]
    BY <2>2, Sides DEF IInv
  <2>4. f \in Frame /\ p \in Endpoint /\ Chain(p, y, w) /\ FromBase(p, y, w, f)
    <3>1. f \in Frame /\ p \in Endpoint BY <1>1, <2>1, HeadIsFrame DEF Sent
    <3> QED BY <1>1, <2>1, <3>1, BaseFrameLeaves
  <2> HIDE DEF f, p
  <2>5. Chain(p, r, w) BY <1>1, <2>4, HandsetReceives
  <2>6. r \in Endpoint
    <3>1. Step(y, r) BY <1>1, <2>1, <2>4, Sides, receiveFrameStep DEF Local
    <3> QED BY <3>1 DEF Step
  <2> HIDE DEF r
  <2>7. Chain(p, checkT200(r, "ms", expired), w) BY <2>5, <2>6, HandsetExpires
  <2> QED BY <1>1, <2>3, <2>7, LinkStep
<1> QED BY <1>2, <1>3, Sides

LEMMA timerExpiresKeepsChain ==
    ASSUME OneHandset, IInv, ChainInv, NEW e \in End, timerExpires(e) PROVE ChainInv'
<1>1. UNCHANGED writer /\ Chain(link["bts"], link["ms"], writer["ms"])
  BY DEF timerExpires, ChainInv
<1>2. CASE e = "bts"
  <2>1. link["bts"].state # "AwaitingEstablish" BY Sides DEF Local, OneHandset
  <2>2. Chain(checkT200(link["bts"], "bts", TRUE), link["ms"], writer["ms"])
    BY <1>1, <2>1, Sides, BaseExpires
  <2> QED BY <1>1, <1>2, <2>2, LinkStep DEF timerExpires
<1>3. CASE e = "ms"
  <2>1. Chain(link["bts"], checkT200(link["ms"], "ms", TRUE), writer["ms"])
    BY <1>1, Sides, HandsetExpires
  <2> QED BY <1>1, <1>3, <2>1, LinkStep DEF timerExpires
<1> QED BY <1>2, <1>3, Sides

LEMMA loseFrameKeepsChain ==
    ASSUME IInv, ChainInv, NEW e \in End, loseFrame(e) PROVE ChainInv'
<1> DEFINE x == link["bts"]
           y == link["ms"]
           w == writer["ms"]
           p == [x EXCEPT !.tx = Tail(x.tx)]
           q == [y EXCEPT !.tx = Tail(y.tx)]
<1>1. UNCHANGED writer /\ Chain(x, y, w) /\ x \in Endpoint /\ y \in Endpoint
  BY Sides DEF loseFrame, ChainInv
<1>2. CASE e = "bts"
  <2>1. link' = [link EXCEPT !["bts"] = p] BY <1>2 DEF loseFrame, IInv
  <2>2. Chain(p, y, w) BY <1>1, <1>2, BaseFrameLeaves DEF loseFrame
  <2> HIDE DEF p
  <2> QED BY <1>1, <2>1, <2>2, LinkStep
<1>3. CASE e = "ms"
  <2>1. link' = [link EXCEPT !["ms"] = q] BY <1>3 DEF loseFrame, IInv
  <2>2. Chain(x, q, w) BY <1>1, <1>3, HandsetFrameLeaves DEF loseFrame
  <2> HIDE DEF q
  <2> QED BY <1>1, <2>1, <2>2, LinkStep
<1> QED BY <1>2, <1>3, Sides

LEMMA rivalSABMKeepsChain ==
    ASSUME OneHandset, IInv, ChainInv, rivalSABM PROVE ChainInv'
<1> DEFINE y == link["ms"]
<1>1. Access # NoInfo
  BY BoundsAssumption DEF OneHandset, rivalSABM, IInv
<1>2. PICK h \in Handsets : link' = [link EXCEPT !["ms"] = writeL1(y, SABM(y, h))]
  BY DEF rivalSABM
<1> DEFINE f == SABM(y, h)
           z == writeL1(y, f)
<1>3. f \in Frame /\ f.t = "SABM" /\ f.info = h BY Sides, SABMType DEF Identity, SABM, UFrame, MkFrame
<1>4. h # NoInfo BY InfoAssumption
<1> HIDE DEF f
<1>5. Said(y, z, f) BY <1>3, Sides, WriteL1Said
<1> HIDE DEF z
<1>6. /\ z.state = y.state /\ z.ind = y.ind /\ z.VR = y.VR
      /\ z.sent = y.sent /\ z.tx \in {y.tx, Append(y.tx, f)}
  BY <1>5 DEF Said, Sent
<1>7. Chain(link["bts"], z, writer["ms"])
  BY <1>1, <1>3, <1>4, <1>6, Sides, NamedSABM DEF ChainInv
<1>8. UNCHANGED writer /\ link' = [link EXCEPT !["ms"] = z] BY <1>2 DEF rivalSABM, z, f
<1> QED BY <1>7, <1>8, LinkStep

LEMMA BaseSegments ==
    ASSUME IInv, NEW x \in Endpoint, NEW w \in Writer, w.next <= w.last, w.count >= 1,
           Chain(x, link["ms"], writer["ms"]), sendSegments("bts", x, w)
    PROVE  ChainInv'
<1>1. segmentOf(w) \in Segment BY SegmentType
<1>2. CASE ~canPass(x)
  BY <1>2, BaseStep DEF sendSegments
<1>3. CASE canPass(x) /\ (x.discard \/ x.state \notin Multiframe)
  BY <1>3, BaseStep DEF sendSegments
<1>4. CASE canPass(x) /\ ~(x.discard \/ x.state \notin Multiframe)
  <2>1. Up(x) /\ x.VS = x.VA BY <1>4 DEF canPass, Up, Multiframe
  <2>2. Chain(sendIFrame(x, segmentOf(w)), link["ms"], writer["ms"])
    BY <1>1, <2>1, BaseSendsI
  <2> QED BY <1>4, <2>2, BaseStep DEF sendSegments
<1> QED BY <1>2, <1>3, <1>4

LEMMA HandsetSegments ==
    ASSUME IInv, NEW y \in Endpoint, NEW w \in Writer, w.next <= w.last, w.count >= 1,
           NEW u, Chain(link["bts"], y, u), y.ind # "none", sendSegments("ms", y, w)
    PROVE  ChainInv'
<1> DEFINE z == sendIFrame(y, segmentOf(w))
           d == [w EXCEPT !.pc = "data"]
           i == [w EXCEPT !.pc = "idle"]
           n == [w EXCEPT !.pc = IF w.next = w.last THEN "idle" ELSE "data", !.next = w.next + 1]
<1>1. segmentOf(w) \in Segment BY SegmentType
<1>2. d.pc = "data" /\ i.pc = "idle" /\ n.pc \in {"idle", "data"} BY DEF Writer
<1>3. CASE ~canPass(y)
  <2>1. link' = [link EXCEPT !["ms"] = y] /\ writer' = [writer EXCEPT !["ms"] = d]
    BY <1>3 DEF sendSegments
  <2> HIDE DEF d
  <2>2. Chain(link["bts"], y, d) BY <1>2, HandsetMoves
  <2> QED BY <2>1, <2>2, HandsetStep
<1>4. CASE canPass(y) /\ (y.discard \/ y.state \notin Multiframe)
  <2>1. link' = [link EXCEPT !["ms"] = y] /\ writer' = [writer EXCEPT !["ms"] = i]
    BY <1>4 DEF sendSegments
  <2> HIDE DEF i
  <2>2. Chain(link["bts"], y, i) BY <1>2, HandsetMoves
  <2> QED BY <2>1, <2>2, HandsetStep
<1>5. CASE canPass(y) /\ ~(y.discard \/ y.state \notin Multiframe)
  <2>1. link' = [link EXCEPT !["ms"] = z] /\ writer' = [writer EXCEPT !["ms"] = n]
    BY <1>5 DEF sendSegments
  <2> HIDE DEF n
  <2>2. Up(y) BY <1>5 DEF Up
  <2>3. z.ind = y.ind BY <1>1, IFrameSent
  <2>4. Chain(link["bts"], z, u) BY <1>1, <2>2, HandsetSendsI
  <2> HIDE DEF z
  <2>5. Chain(link["bts"], z, n) BY <1>2, <2>3, <2>4, HandsetMoves
  <2> QED BY <2>1, <2>5, HandsetStep
<1> QED BY <1>3, <1>4, <1>5

LEMMA SegmentsLeft ==
    ASSUME IInv, NEW e \in End, writer[e].pc = "data"
    PROVE  writer[e] \in Writer /\ writer[e].next <= writer[e].last /\ writer[e].count >= 1
  BY LocalFacts DEF Local

\* L3 of the handset has had an indication whenever its thread is at work on the link.
LEMMA HandsetIsTold ==
    ASSUME NEW x, NEW y, NEW w, Chain(x, y, w),
           \/ w.pc \in {"data", "relLock", "relWait", "relDone"}
           \/ w.pc = "idle" /\ y.state # "LinkReleased"
    PROVE  y.ind # "none"
  BY DEF Chain, Asks

LEMMA ackOrGiveUpKeepsChain ==
    ASSUME IInv, ChainInv, NEW e \in End, ackOrGiveUp(e) PROVE ChainInv'
<1>1. writer[e].pc = "data" /\ sendSegments(e, link[e], writer[e]) BY DEF ackOrGiveUp
<1>2. writer[e] \in Writer /\ writer[e].next <= writer[e].last /\ writer[e].count >= 1
  BY <1>1, SegmentsLeft
<1>3. CASE e = "bts"
  BY <1>1, <1>2, <1>3, Sides, BaseSegments DEF ChainInv
<1>4. CASE e = "ms"
  BY <1>1, <1>2, <1>4, Sides, HandsetIsTold, HandsetSegments DEF ChainInv
<1> QED BY <1>3, <1>4, Sides

LEMMA writeDataKeepsChain ==
    ASSUME OneHandset, IInv, ChainInv, NEW e \in End, writeData(e) PROVE ChainInv'
<1> DEFINE x == link[e]
           u == writer[e]
           r == abnormalRelease(x)
           q == [x EXCEPT !.discard = FALSE]
<1>1. /\ x \in Endpoint /\ u \in Writer /\ u.pc = "idle" /\ u.count + 1 \in 1 .. MaxReq
      /\ session \in 0 .. MaxOpen /\ Sapi = 0 /\ Chain(link["bts"], link["ms"], writer["ms"])
  BY LocalFacts, CallFacts DEF writeData, OneHandset, ChainInv
<1>2. CASE x.state = "LinkReleased"
  <2> DEFINE v == [u EXCEPT !.pc = "idle", !.count = u.count + 1, !.ses = session]
  <2>1. link' = [link EXCEPT ![e] = r] /\ writer' = [writer EXCEPT ![e] = v] /\ v.pc = "idle"
    BY <1>1, <1>2 DEF writeData, called, IInv, Writer
  <2> HIDE DEF v
  <2>2. Ended(x, r) /\ r.VS = r.VA BY <1>1, AbnormalEnds
  <2> HIDE DEF r
  <2>3. CASE e = "bts"
    <3>1. Chain(r, link["ms"], writer["ms"]) BY <1>1, <2>2, <2>3, BaseEnds
    <3> QED BY <2>1, <2>3, <3>1, BaseStep
  <2>4. CASE e = "ms"
    <3>1. Chain(link["bts"], r, v) BY <1>1, <2>1, <2>2, <2>4, HandsetEnds
    <3> QED BY <2>1, <2>4, <3>1, HandsetStep
  <2> QED BY <2>3, <2>4, Sides
<1>3. CASE x.state # "LinkReleased"
  <2>1. PICK n \in 1 .. MaxSegs :
          sendSegments(e, q, [u EXCEPT !.count = u.count + 1, !.ses = session,
                                       !.next = 1, !.last = n])
    BY <1>3 DEF writeData
  <2> DEFINE w == [u EXCEPT !.count = u.count + 1, !.ses = session, !.next = 1, !.last = n]
  <2>2. w \in Writer /\ w.next <= w.last /\ w.count >= 1
    <3>1. /\ u.count + 1 \in 0 .. MaxReq /\ "idle" \in WriterPC
          /\ 1 \in 1 .. MaxSegs + 1 /\ n \in 0 .. MaxSegs
      BY <1>1, BoundsAssumption DEF WriterPC
    <3>2. w \in Writer BY <1>1, <3>1, WriterType
    <3>3. w.next = 1 /\ w.last = n /\ w.count = u.count + 1 BY <1>1 DEF Writer
    <3>4. n >= 1 /\ u.count + 1 >= 1 BY <1>1
    <3> QED BY <3>2, <3>3, <3>4
  <2>3. sendSegments(e, q, w) BY <2>1
  <2> HIDE DEF w
  <2>4. q \in Endpoint /\ q.ind = x.ind /\ q.tx = x.tx /\ Steady(x, q) /\ Keeps(x, q)
    BY <1>1 DEF Endpoint, Steady, Keeps, Up, Unused
  <2> HIDE DEF q
  <2>5. CASE e = "bts"
    <3>1. Chain(q, link["ms"], writer["ms"]) BY <1>1, <2>4, <2>5, BaseSays
    <3> QED BY <2>2, <2>3, <2>4, <2>5, <3>1, BaseSegments
  <2>6. CASE e = "ms"
    <3>1. q.ind # "none" BY <1>1, <1>3, <2>4, <2>6, HandsetIsTold
    <3>2. Chain(link["bts"], q, writer["ms"]) BY <1>1, <2>4, <2>6, HandsetSays
    <3> QED BY <2>2, <2>3, <2>4, <2>6, <3>1, <3>2, HandsetSegments
  <2> QED BY <2>5, <2>6, Sides
<1> QED BY <1>2, <1>3

LEMMA establishKeepsChain ==
    ASSUME OneHandset, IInv, ChainInv, NEW e \in End,
           \/ writeEstablish(e) \/ setAwaitingEstablish(e) \/ sendUFrameSABM(e)
           \/ startT200(e) \/ readEstablish(e)
    PROVE  ChainInv'
<1> DEFINE x == link["bts"]
           y == link["ms"]
           w == writer["ms"]
<1>1. e = "ms"
  <2>1. writeEstablish(e) => e # "bts"
    BY CallFacts, RequestsAssumption DEF writeEstablish, OneHandset
  <2>2. \/ setAwaitingEstablish(e) \/ sendUFrameSABM(e) \/ startT200(e) \/ readEstablish(e)
        => writer[e].pc \in Establishing
    BY DEF setAwaitingEstablish, sendUFrameSABM, startT200, readEstablish, goto, Establishing
  <2>3. writer["bts"].pc \notin Establishing BY Sides DEF Local, OneHandset
  <2> QED BY <2>1, <2>2, <2>3, Sides
<1>2. /\ y \in Endpoint /\ w \in Writer /\ Chain(x, y, w)
      /\ link = [link EXCEPT !["ms"] = y]
      /\ {"estSet", "estSABM", "estTimer", "estRead", "idle"} \subseteq WriterPC
  BY Sides DEF ChainInv, IInv, WriterPC
<1>3. CASE writeEstablish(e)
  <2>1. request("ms", "ESTABLISH") /\ y.ind = "none" /\ UNCHANGED link
    BY <1>1, <1>3 DEF writeEstablish
  <2>2. w.pc = "idle" BY <2>1 DEF request
  <2>3. y.state = "LinkReleased" BY <1>2, <2>1, <2>2 DEF Chain, Asks
  <2>4. called("ms", "estSet") BY <1>1, <1>3, <2>3 DEF writeEstablish
  <2>5. PICK v \in Writer : v.pc = "estSet" /\ writer' = [writer EXCEPT !["ms"] = v]
    BY <1>2, <2>1, <2>4, Sides, CallMoves
  <2>6. Chain(x, y, v) BY <1>2, <2>1, <2>2, <2>5, HandsetCallsEstablish
  <2> QED BY <1>2, <2>1, <2>5, <2>6, HandsetStep
<1>4. CASE setAwaitingEstablish(e)
  <2> DEFINE c == clearCounters(y)
             z == [c EXCEPT !.state = "AwaitingEstablish"]
  <2>1. goto("ms", "estSet", "estSABM") /\ link' = [link EXCEPT !["ms"] = z]
    BY <1>1, <1>4 DEF setAwaitingEstablish
  <2>2. PICK v \in Writer : v.pc = "estSABM" /\ writer' = [writer EXCEPT !["ms"] = v]
    BY <1>2, <2>1, Sides, GotoMoves
  <2>3. w.pc = "estSet" BY <2>1 DEF goto
  <2>4. c \in Endpoint /\ c.ind = y.ind /\ c.tx = y.tx /\ c.sent = y.sent
    BY <1>2, ClearCountersFields
  <2> HIDE DEF c
  <2>5. /\ z.state = "AwaitingEstablish" /\ z.ind = y.ind /\ z.tx = y.tx /\ z.sent = y.sent
    BY <2>4 DEF Endpoint
  <2> HIDE DEF z
  <2>6. Chain(x, z, v) BY <1>2, <2>2, <2>3, <2>5, HandsetAwaitsEstablish
  <2> QED BY <2>1, <2>2, <2>6, HandsetStep
<1>5. CASE sendUFrameSABM(e)
  <2> DEFINE f == SABM(y, Access)
             b == [y EXCEPT !.sent = f]
             z == IF Preempted THEN writeL1(b, f) ELSE writeL1Ack(y, f)
             to == IF Preempted THEN "estTimer" ELSE "estRead"
  <2>1. goto("ms", "estSABM", to) /\ link' = [link EXCEPT !["ms"] = z]
    BY <1>1, <1>5 DEF sendUFrameSABM
  <2>2. PICK v \in Writer : v.pc = to /\ writer' = [writer EXCEPT !["ms"] = v]
    BY <1>2, <2>1, Sides, GotoMoves
  <2>3. w.pc = "estSABM" BY <2>1 DEF goto
  <2>4. f \in Frame /\ f.t = "SABM" /\ f.info = Access
    BY <1>2, InfoAssumption, SABMType DEF Identity, SABM, UFrame, MkFrame
  <2> HIDE DEF f
  <2>5. /\ z.state = y.state /\ z.ind = y.ind /\ z.VR = y.VR
        /\ z.sent = f /\ z.tx \in {y.tx, Append(y.tx, f)}
    BY <1>2 DEF writeL1Ack, writeL1, Endpoint
  <2> HIDE DEF z
  <2>6. Chain(x, z, v)
    <3>1. CASE Access # NoInfo
      BY <1>2, <2>2, <2>3, <2>4, <2>5, <3>1, NamedSABM
    <3>2. CASE Access = NoInfo
      <4>1. v.pc = "estRead" BY <2>2, <3>2 DEF OneHandset
      <4> QED BY <1>2, <2>3, <2>4, <2>5, <3>2, <4>1, LonelySABM
    <3> QED BY <3>1, <3>2
  <2> QED BY <2>1, <2>2, <2>6, HandsetStep
<1>6. CASE startT200(e)
  <2> DEFINE z == [y EXCEPT !.t200 = TRUE]
  <2>1. goto("ms", "estTimer", "estRead") /\ link' = [link EXCEPT !["ms"] = z]
    BY <1>1, <1>6 DEF startT200, IInv
  <2>2. PICK v \in Writer : v.pc = "estRead" /\ writer' = [writer EXCEPT !["ms"] = v]
    BY <1>2, <2>1, Sides, GotoMoves
  <2>3. w.pc = "estTimer" BY <2>1 DEF goto
  <2>4. /\ z.state = y.state /\ z.ind = y.ind /\ z.VR = y.VR /\ z.sent = y.sent /\ z.tx = y.tx
    BY <1>2 DEF Endpoint
  <2> HIDE DEF z
  <2>5. Access # NoInfo BY <1>2, <2>3 DEF Chain, Alone
  <2> DEFINE f == SABM(y, Access)
  <2>6. f \in Frame /\ f.t = "SABM" /\ f.info = Access
    BY <1>2, InfoAssumption, SABMType DEF Identity, SABM, UFrame, MkFrame
  <2> HIDE DEF f
  <2>7. Chain(x, z, v) BY <1>2, <2>2, <2>3, <2>4, <2>5, <2>6, NamedSABM
  <2> QED BY <2>1, <2>2, <2>7, HandsetStep
<1>7. CASE readEstablish(e)
  <2>1. y.ind # "none" /\ goto("ms", "estRead", "idle") /\ UNCHANGED link
    BY <1>1, <1>7 DEF readEstablish
  <2>2. PICK v \in Writer : v.pc = "idle" /\ writer' = [writer EXCEPT !["ms"] = v]
    BY <1>2, <2>1, Sides, GotoMoves
  <2>3. Chain(x, y, v) BY <1>2, <2>1, <2>2, HandsetMoves
  <2> QED BY <1>2, <2>1, <2>2, <2>3, HandsetStep
<1> QED BY <1>3, <1>4, <1>5, <1>6, <1>7

\* The thread of either side moves, and its endpoint stays as it is.
LEMMA ThreadMoves ==
    ASSUME IInv, ChainInv, NEW e \in End, UNCHANGED link, NEW v,
           writer' = [writer EXCEPT ![e] = v], v.pc \notin {"estSet", "estSABM", "estTimer"},
           e = "ms" => v.pc = writer["ms"].pc \/ link["ms"].ind # "none"
    PROVE  ChainInv'
<1>1. link' = [link EXCEPT ![e] = link[e]] BY DEF IInv
<1>2. CASE e = "bts"
  BY <1>1, <1>2, BaseStep DEF ChainInv
<1>3. CASE e = "ms"
  <2>1. Chain(link["bts"], link["ms"], v) BY <1>3, HandsetMoves DEF ChainInv
  <2> QED BY <1>1, <1>3, <2>1, HandsetStep
<1> QED BY <1>2, <1>3, Sides

LEMMA startReleaseKeepsChain ==
    ASSUME IInv, ChainInv, NEW e \in End, NEW v, v.pc = "relDone",
           link' = [link EXCEPT ![e] = startRelease(link[e])],
           writer' = [writer EXCEPT ![e] = v],
           e = "ms" => link["ms"].ind # "none"
    PROVE  ChainInv'
<1> DEFINE z == startRelease(link[e])
<1>1. link[e] \in Endpoint BY LocalFacts
<1>2. PICK f \in Frame : f.t = "DISC" /\ z.tx \in {link[e].tx, Append(link[e].tx, f)}
  BY <1>1, StartReleaseFields
<1>3. z.state = "AwaitingRelease" /\ z.ind = link[e].ind /\ z.VS = z.VA /\ z.sent.t = "DISC"
  BY <1>1, StartReleaseFields
<1> HIDE DEF z
<1>4. CASE e = "bts"
  <2>1. ~Up(z) /\ ~Unused(z) BY <1>3 DEF Up, Unused, Multiframe
  <2>2. MaySay(z, link["ms"], writer["ms"], f) BY <1>2 DEF MaySay
  <2>3. Chain(z, link["ms"], writer["ms"])
    BY <1>1, <1>2, <1>3, <1>4, <2>1, <2>2, BaseStops DEF ChainInv
  <2> QED BY <1>4, <2>3, BaseStep DEF z
<1>5. CASE e = "ms"
  <2>1. ~NotAsked(z, v) /\ z.state \notin Multiframe \union {"AwaitingEstablish"}
    BY <1>3 DEF NotAsked, Multiframe
  <2>2. Chain(link["bts"], z, v)
    BY <1>1, <1>2, <1>3, <1>5, <2>1, HandsetStops DEF ChainInv
  <2> QED BY <1>5, <2>2, HandsetStep DEF z
<1> QED BY <1>4, <1>5, Sides

LEMMA releaseKeepsChain ==
    ASSUME IInv, ChainInv, NEW e \in End,
           lockForRelease(e) \/ ackThenRelease(e) \/ releaseReturns(e)
    PROVE  ChainInv'
<1>1. {"relWait", "relDone", "idle"} \subseteq WriterPC BY DEF WriterPC
<1>2. writer[e].pc \in {"relLock", "relWait", "relDone"}
  BY DEF lockForRelease, ackThenRelease, releaseReturns, goto
<1>3. e = "ms" => link["ms"].ind # "none" BY <1>2, HandsetIsTold DEF ChainInv
<1>4. \/ \E from : goto(e, from, "relWait") /\ UNCHANGED link
      \/ \E from : goto(e, from, "idle") /\ UNCHANGED link
      \/ \E from : goto(e, from, "relDone") /\ link' = [link EXCEPT ![e] = startRelease(@)]
  BY DEF lockForRelease, ackThenRelease, releaseReturns
<1>5. ASSUME NEW from, NEW to \in {"relWait", "idle"}, goto(e, from, to), UNCHANGED link
      PROVE  ChainInv'
  <2>1. PICK v \in Writer : v.pc = to /\ writer' = [writer EXCEPT ![e] = v]
    BY <1>1, <1>5, GotoMoves
  <2> QED BY <1>3, <1>5, <2>1, ThreadMoves
<1>6. ASSUME NEW from, goto(e, from, "relDone"),
             link' = [link EXCEPT ![e] = startRelease(@)]
      PROVE  ChainInv'
  <2>1. PICK v \in Writer : v.pc = "relDone" /\ writer' = [writer EXCEPT ![e] = v]
    BY <1>1, <1>6, GotoMoves
  <2> QED BY <1>3, <1>6, <2>1, startReleaseKeepsChain
<1> QED BY <1>4, <1>5, <1>6

LEMMA writeReleaseKeepsChain ==
    ASSUME IInv, ChainInv, NEW e \in End, writeRelease(e) PROVE ChainInv'
<1> DEFINE pc == IF link[e].state = "LinkReleased" THEN "idle" ELSE "relLock"
<1>1. request(e, "RELEASE") /\ called(e, pc) /\ UNCHANGED link BY DEF writeRelease
<1>2. writer[e].pc = "idle" /\ pc \in WriterPC BY <1>1 DEF request, WriterPC
<1>3. PICK v \in Writer : v.pc = pc /\ writer' = [writer EXCEPT ![e] = v]
  BY <1>1, <1>2, CallMoves
<1>4. pc \in {"idle", "relLock"} /\ (pc = "relLock" => link[e].state # "LinkReleased")
  OBVIOUS
<1> HIDE DEF pc
<1>5. e = "ms" /\ pc = "relLock" => link["ms"].ind # "none"
  BY <1>2, <1>4, HandsetIsTold DEF ChainInv
<1> QED BY <1>1, <1>2, <1>3, <1>4, <1>5, ThreadMoves

\* UNIT_DATA, ERROR and HARDRELEASE return at once.
LEMMA otherPrimitivesKeepChain ==
    ASSUME OneHandset, IInv, ChainInv, NEW e \in End,
           writeUnitData(e) \/ writeError(e) \/ writeHardRelease(e)
    PROVE  ChainInv'
<1> DEFINE x == link[e]
<1>1. /\ x \in Endpoint /\ Sapi = 0 /\ "idle" \in WriterPC /\ NoInfo \in Identity
      /\ {"RELEASE", "HARDRELEASE"} \subseteq Primitives \ {"ESTABLISH"}
  BY LocalFacts DEF OneHandset, WriterPC, Primitives, Identity
<1>2. writer[e].pc = "idle" /\ \E op : request(e, op) /\ called(e, "idle")
  BY DEF writeUnitData, writeError, writeHardRelease, request
<1>3. PICK v \in Writer : v.pc = "idle" /\ writer' = [writer EXCEPT ![e] = v]
  BY <1>1, <1>2, CallMoves
<1>4. ASSUME NEW z, Ended(x, z), z.VS = z.VA, link' = [link EXCEPT ![e] = z] PROVE ChainInv'
  <2>1. CASE e = "bts"
    <3>1. Chain(z, link["ms"], writer["ms"]) BY <1>1, <1>4, <2>1, BaseEnds DEF ChainInv
    <3> QED BY <1>3, <1>4, <2>1, <3>1, BaseStep
  <2>2. CASE e = "ms"
    <3>1. Chain(link["bts"], z, v) BY <1>1, <1>3, <1>4, <2>2, HandsetEnds DEF ChainInv
    <3> QED BY <1>3, <1>4, <2>2, <3>1, HandsetStep
  <2> QED BY <2>1, <2>2, Sides
<1>5. CASE writeUnitData(e)
  <2> DEFINE z == sendUFrameUI(x)
  <2>1. link' = [link EXCEPT ![e] = z] BY <1>5 DEF writeUnitData
  <2>2. PICK f : Said(x, z, f) /\ f.t = "UI" BY <1>1, SendersSay
  <2> HIDE DEF z
  <2>3. CASE e = "bts"
    <3>1. MaySay(x, link["ms"], writer["ms"], f) BY <2>2 DEF MaySay
    <3>2. Chain(z, link["ms"], writer["ms"]) BY <1>1, <2>2, <2>3, <3>1, BaseSaid DEF ChainInv
    <3> QED BY <1>3, <2>1, <2>3, <3>2, BaseStep
  <2>4. CASE e = "ms"
    <3>1. ~CarriesAck(f) BY <2>2 DEF CarriesAck
    <3>2. Chain(link["bts"], z, writer["ms"])
      BY <1>1, <2>2, <2>4, <3>1, HandsetSaid DEF ChainInv
    <3>3. Chain(link["bts"], z, v) BY <1>2, <1>3, <2>4, <3>2, HandsetMoves
    <3> QED BY <1>3, <2>1, <2>4, <3>3, HandsetStep
  <2> QED BY <2>3, <2>4, Sides
<1>6. CASE writeError(e)
  <2>1. link' = [link EXCEPT ![e] = abnormalRelease(x)] BY <1>6 DEF writeError
  <2>2. Ended(x, abnormalRelease(x)) /\ abnormalRelease(x).VS = abnormalRelease(x).VA
    BY <1>1, AbnormalEnds
  <2> QED BY <1>4, <2>1, <2>2
<1>7. CASE writeHardRelease(e)
  <2> DEFINE z == clearState(x, "HARDRELEASE")
  <2>1. link' = [link EXCEPT ![e] = z] BY <1>7 DEF writeHardRelease
  <2>2. Ended(x, z) /\ z.VS = z.VA BY <1>1, ClearStateEnds
  <2> QED BY <1>4, <2>1, <2>2
<1> QED BY <1>5, <1>6, <1>7

\* A channel just opened.
LEMMA ChainStarts ==
    ASSUME NEW x, NEW y, NEW w, x.state = "LinkReleased", x.VS = x.VA, x.sent.t # "SABM",
           x.tx = <<>>, y.state = "LinkReleased", y.sent.t = "UI", y.tx = <<>>, w.pc = "idle"
    PROVE  Chain(x, y, w)
<1>1. ~Up(x) /\ ~Up(y) BY DEF Up, Multiframe
<1>2. \A T : Free(x.tx, T) /\ Free(y.tx, T) BY DEF Free
<1>3. AsksFirst(y.tx) /\ AskedByName(y.tx) BY DEF AsksFirst, AskedByName
<1>4. Timed(x) BY <1>1, <1>2 DEF Timed
<1>5. Asks(y, w) /\ NotYet(x, y) /\ InStep(x, y, w) /\ Named(y)
  BY <1>1, <1>2, <1>3 DEF Asks, NotYet, InStep, Named, CarriesAck
<1>6. Alone(x, y, w) BY <1>1, <1>2, <1>3 DEF Alone
<1> QED BY <1>4, <1>5, <1>6 DEF Chain

LEMMA NewEndpointFields ==
    ASSUME NEW c
    PROVE  LET y == newEndpoint(c) IN
           /\ y.state = "LinkReleased" /\ y.VS = y.VA /\ y.sent.t = "UI" /\ y.tx = <<>>
  BY DEF newEndpoint, UFrame, MkFrame

LEMMA openKeepsChain == ASSUME IInv, ChainInv, open PROVE ChainInv'
<1> DEFINE x == link["bts"]
           c == clearCounters(x)
           z == opened(x)
           y == newEndpoint(0)
           v == newWriter(writer["ms"].count, session')
<1>1. link'["bts"] = z /\ link'["ms"] = y /\ writer'["ms"] = v
  BY Sides DEF open, IInv
<1>2. c \in Endpoint /\ c.VS = 0 /\ c.VA = 0 /\ c.sent = x.sent BY Sides, ClearCountersFields
<1> HIDE DEF c
<1>3. z.state = "LinkReleased" /\ z.VS = z.VA /\ z.sent = x.sent /\ z.tx = <<>>
  BY <1>2 DEF opened, c, Endpoint
<1>4. x.sent.t # "SABM" BY DEF ChainInv, Chain, Timed
<1>5. v.pc = "idle" BY DEF newWriter
<1> HIDE DEF z, y, v
<1>6. y.state = "LinkReleased" /\ y.sent.t = "UI" /\ y.tx = <<>> BY NewEndpointFields DEF y
<1>7. Chain(z, y, v) BY <1>3, <1>4, <1>5, <1>6, ChainStarts
<1> QED BY <1>1, <1>7 DEF ChainInv

LEMMA InitStartsChain == ASSUME Init PROVE ChainInv
<1>1. link["bts"] = newEndpoint(1) /\ link["ms"] = newEndpoint(0) /\ writer["ms"].pc = "idle"
  BY DEF Init, End, newWriter
<1> QED BY <1>1, NewEndpointFields, ChainStarts DEF ChainInv

LEMMA NextKeepsChain ==
    ASSUME OneHandset, IInv, ChainInv, [Next]_vars PROVE ChainInv'
<1>1. CASE \E e \in End : serviceLoop(e)
  BY <1>1, firstFrameKeepsChain, frameArrivesKeepsChain, timerExpiresKeepsChain
     DEF serviceLoop
<1>2. CASE \E e \in End : threadSteps(e)
  BY <1>2, ackOrGiveUpKeepsChain, establishKeepsChain, releaseKeepsChain DEF threadSteps
<1>3. CASE \E e \in End : writeHighSide(e)
  BY <1>3, writeDataKeepsChain, establishKeepsChain, writeReleaseKeepsChain,
     otherPrimitivesKeepChain DEF writeHighSide
<1>4. CASE \E e \in End : loseFrame(e)
  BY <1>4, loseFrameKeepsChain
<1>5. CASE rivalSABM
  BY <1>5, rivalSABMKeepsChain
<1>6. CASE open
  BY <1>6, openKeepsChain
<1>7. CASE UNCHANGED vars
  BY <1>7 DEF vars, ChainInv
<1> QED BY <1>1, <1>2, <1>3, <1>4, <1>5, <1>6, <1>7 DEF Next

LEMMA ChainInvariance == ASSUME OneHandset PROVE Spec => [](IInv /\ ChainInv)
<1>1. Init => IInv /\ ChainInv BY InitEstablishes, InitStartsChain
<1>2. IInv /\ ChainInv /\ [Next]_vars => (IInv /\ ChainInv)'
  BY NextPreserves, NextKeepsChain
<1> QED BY <1>1, <1>2, PTL DEF Spec
-----------------------------------------------------------------------------
(***************************************************************************)
(* Where V(A) may go in one step: from V(A) to V(S), or with V(S) to zero. *)
(***************************************************************************)
Advances(x, z) == Up(z) => z.VA \in {x.VA, z.VS}

LEMMA EndedAdvances == ASSUME NEW x, NEW y, NEW z, Ended(y, z) PROVE Advances(x, z)
  BY DEF Ended, Advances, Up, Multiframe

LEMMA SentAdvances ==
    ASSUME NEW x, NEW y, NEW z, Advances(x, y), Sent(y, z) PROVE Advances(x, z)
  BY DEF Sent, Advances, Up

\* processAck, called with the N(R) of f in multiframe operation.
LEMMA AckAdvances ==
    ASSUME HandsetRenews, NEW x \in Endpoint, NEW y, NEW w, NEW f \in Frame,
           CarriesAck(f), FromHandset(x, y, w, f), Up(x)
    PROVE  LET v == leaveContention([x EXCEPT !.eip = FALSE])
           IN  /\ v \in Endpoint /\ Advances(x, processAck(v, f.nr))
               /\ processAck(v, f.nr) \in Endpoint
               /\ \A s : Sent(v, s) => Advances(x, processAck(s, f.nr))
<1> DEFINE v == leaveContention([x EXCEPT !.eip = FALSE])
<1>1. v \in Endpoint /\ Up(v) /\ v.VS = x.VS /\ v.VA = x.VA
  BY DEF leaveContention, Endpoint, LAPDState, Up, Multiframe
<1> HIDE DEF v
<1>2. f.nr \in {x.VA, x.VS} /\ f.nr \in SeqNum BY DEF FromHandset, Frame, CarriesAck
<1>3. ASSUME NEW s, Sent(v, s) PROVE Advances(x, processAck(s, f.nr))
  <2>1. s \in Endpoint /\ s.VS = x.VS BY <1>1, <1>3 DEF Sent
  <2>2. processAck(s, f.nr).VA = f.nr /\ processAck(s, f.nr).VS = s.VS
    BY <2>1 DEF processAck, Endpoint
  <2> QED BY <1>2, <2>1, <2>2 DEF Advances
<1>4. Sent(v, v) BY <1>1 DEF Sent
<1>5. processAck(v, f.nr) \in Endpoint
  <2>1. GoesOn(v, v) BY <1>1 DEF GoesOn, Up
  <2> QED BY <1>2, <2>1, AckGoesOn DEF GoesOn
<1> QED BY <1>1, <1>3, <1>4, <1>5 DEF v

LEMMA IFrameAdvances ==
    ASSUME HandsetRenews, NEW x \in Endpoint, NEW y, NEW w, NEW f \in Frame,
           f.t = "I", FromHandset(x, y, w, f)
    PROVE  Advances(x, receiveIFrame(x, f))
<1> DEFINE v == leaveContention([x EXCEPT !.eip = FALSE])
           a == processAck(v, f.nr)
           u == [a EXCEPT !.VR = Mod(a.VR + 1)]
           r == bufferIFrameData(u, f.info)
<1>1. f.pf \in BOOLEAN /\ f.info \in Segment /\ NoInfo \in Identity BY DEF Frame, Identity
<1>2. CASE ~Up(x)
  BY <1>2 DEF receiveIFrame, Up, Advances, Endpoint
<1>3. CASE Up(x)
  <2>1. a \in Endpoint /\ Advances(x, a) BY <1>3, AckAdvances DEF CarriesAck
  <2>2. receiveIFrame(x, f) \in {sendSFrameRR(r, f.pf), sendSFrameREJ(a, f.pf)}
    BY <1>3 DEF receiveIFrame, Up
  <2> HIDE DEF a, v
  <2>3. u \in Endpoint /\ Advances(x, u)
    <3>1. Mod(a.VR + 1) \in SeqNum BY <2>1, ModIsSeqNum DEF Endpoint
    <3> QED BY <2>1, <3>1 DEF Endpoint, Advances, Up
  <2> HIDE DEF u
  <2>4. r \in Endpoint /\ Advances(x, r) BY <1>1, <2>3, BufferFields DEF Advances, Up
  <2> HIDE DEF r
  <2> QED BY <1>1, <2>1, <2>2, <2>4, SenderSent, SentAdvances
<1> QED BY <1>2, <1>3

LEMMA SFrameAdvances ==
    ASSUME OneHandset, HandsetRenews, NEW x \in Endpoint, NEW y, NEW w, NEW f \in Frame,
           f.t \in {"RR", "REJ"}, FromHandset(x, y, w, f)
    PROVE  Advances(x, receiveSFrame(x, f))
<1> DEFINE e == [x EXCEPT !.eip = FALSE]
           v == leaveContention(e)
           a == processAck(v, f.nr)
           s == sendSFrameRR(v, TRUE)
<1>1. f.pf \in BOOLEAN /\ NoInfo \in Identity /\ Sapi = 0 BY DEF Frame, Identity, OneHandset
<1>2. CASE ~Up(x)
  <2>1. ~Up(e) BY <1>2 DEF Up, Endpoint
  <2>2. receiveSFrame(x, f) = e
    BY <2>1 DEF receiveSFrame, receiveSFrameRR, receiveSFrameREJ, Up
  <2> QED BY <2>1, <2>2 DEF Advances
<1>3. CASE Up(x)
  <2>1. /\ v \in Endpoint /\ a \in Endpoint /\ Advances(x, a)
        /\ \A q : Sent(v, q) => Advances(x, processAck(q, f.nr))
    BY <1>3, AckAdvances DEF CarriesAck
  <2>2. Up(e) BY <1>3 DEF Up, Endpoint
  <2>3. CASE f.t = "RR"
    <3>1. receiveSFrame(x, f) \in {a, processAck(s, f.nr)}
      BY <2>2, <2>3 DEF receiveSFrame, receiveSFrameRR, Up
    <3> HIDE DEF v, a, e
    <3>2. Sent(v, s) BY <1>1, <2>1, SenderSent
    <3> QED BY <2>1, <3>1, <3>2
  <2>4. CASE f.t = "REJ"
    <3>1. receiveSFrame(x, f) \in {a, sendSFrameRR(a, TRUE), abnormalRelease(a)}
      BY <1>1, <2>2, <2>4 DEF receiveSFrame, receiveSFrameREJ, Up
    <3> HIDE DEF a, v, e
    <3>2. Advances(x, sendSFrameRR(a, TRUE)) BY <1>1, <2>1, SenderSent, SentAdvances
    <3>3. Advances(x, abnormalRelease(a)) BY <1>1, <2>1, AbnormalEnds, EndedAdvances
    <3> QED BY <2>1, <3>1, <3>2, <3>3
  <2> QED BY <2>3, <2>4
<1> QED BY <1>2, <1>3

LEMMA UFrameAdvances ==
    ASSUME OneHandset, NEW x \in Endpoint, NEW f \in Frame,
           f.t \in {"SABM", "DISC", "UA", "DM", "UI"}
    PROVE  Advances(x, receiveFrame(x, f))
<1> DEFINE e == [x EXCEPT !.eip = FALSE]
           l == [x EXCEPT !.state = "LinkEstablished"]
           c == clearCounters(x)
<1>1. /\ f.pf \in BOOLEAN /\ f.info \in Identity /\ NoInfo \in Identity /\ Sapi = 0
      /\ "RELEASE" \in Primitives \ {"ESTABLISH"}
  BY DEF Frame, Identity, OneHandset, Primitives
<1>2. e \in Endpoint /\ l \in Endpoint /\ Advances(x, x) /\ Advances(x, e) /\ Advances(x, l)
  BY DEF Endpoint, LAPDState, Advances, Up
<1>3. /\ Ended(x, abnormalRelease(x)) /\ Advances(x, abnormalRelease(x))
      /\ Advances(x, clearState(x, "RELEASE"))
  BY <1>1, AbnormalEnds, ClearStateEnds, EndedAdvances
<1>4. \A y \in Endpoint : \A F \in BOOLEAN, i \in Identity :
         Advances(x, y) =>
            /\ sendUFrameUA(y, F, i) \in Endpoint /\ Advances(x, sendUFrameUA(y, F, i))
            /\ sendUFrameDM(y, F) \in Endpoint /\ Advances(x, sendUFrameDM(y, F))
  <2> TAKE y \in Endpoint
  <2> TAKE F \in BOOLEAN, i \in Identity
  <2>1. Sent(y, sendUFrameUA(y, F, i)) /\ Sent(y, sendUFrameDM(y, F)) BY SenderSent
  <2>2. sendUFrameUA(y, F, i) \in Endpoint /\ sendUFrameDM(y, F) \in Endpoint
    BY <2>1 DEF Sent
  <2> QED BY <2>1, <2>2, SentAdvances
<1>5. \A y \in Endpoint : Advances(x, clearState(y, "RELEASE"))
  BY <1>1, ClearStateEnds, EndedAdvances
<1>6. CASE f.t = "SABM"
  <2> DEFINE z == receiveUFrameSABM(x, f)
             k == sendUFrameUA(x, TRUE, NoInfo)
  <2>1. Advances(x, acceptSABM(x, f))
    <3> DEFINE d == indicate([c EXCEPT !.eip = TRUE], "ESTABLISH")
               r == deliver([d EXCEPT !.state = "ContentionResolution", !.check = f.info],
                            <<f.info>>)
               m == [d EXCEPT !.state = "LinkEstablished"]
    <3>1. c \in Endpoint /\ c.VS = 0 /\ c.VA = 0 BY ClearCountersFields
    <3>2. acceptSABM(x, f) \in {sendUFrameUA(r, TRUE, f.info), sendUFrameUA(m, TRUE, NoInfo)}
      BY DEF acceptSABM
    <3> HIDE DEF c
    <3>3. d \in Endpoint /\ d.VS = 0 /\ d.VA = 0
      BY <3>1 DEF indicate, Endpoint, Indication, Primitives
    <3> HIDE DEF d
    <3>4. r.VS = 0 /\ r.VA = 0 /\ m.VS = 0 /\ m.VA = 0 BY <3>3 DEF deliver, Endpoint
    <3> HIDE DEF r, m
    <3>5. ASSUME NEW q, q.VS = 0, q.VA = 0, NEW i
          PROVE  sendUFrameUA(q, TRUE, i).VS = 0 /\ sendUFrameUA(q, TRUE, i).VA = 0
      BY <3>5 DEF sendUFrameUA, writeL1
    <3>6. \A q \in {sendUFrameUA(r, TRUE, f.info), sendUFrameUA(m, TRUE, NoInfo)} :
             q.VS = 0 /\ q.VA = 0
      BY <3>4, <3>5
    <3>7. acceptSABM(x, f).VS = 0 /\ acceptSABM(x, f).VA = 0 BY <3>2, <3>6
    <3> QED BY <3>7 DEF Advances
  <2>2. Advances(x, clearCounters(k))
    <3>1. k \in Endpoint BY <1>1, <1>2, <1>4
    <3> HIDE DEF k
    <3>2. clearCounters(k).VS = 0 /\ clearCounters(k).VA = 0 BY <3>1, ClearCountersFields
    <3> QED BY <3>2 DEF Advances
  <2>3. z \in {x, acceptSABM(x, f), sendUFrameUA(l, TRUE, f.info), sendUFrameUA(x, TRUE, NoInfo),
               sendUFrameUA(x, TRUE, f.info), sendUFrameDM(x, TRUE), abnormalRelease(x),
               clearCounters(k)}
    BY <1>1 DEF receiveUFrameSABM, Endpoint, LAPDState
  <2>4. receiveFrame(x, f) = z BY <1>6 DEF receiveFrame
  <2> HIDE DEF z, k, l
  <2> QED BY <1>1, <1>2, <1>3, <1>4, <2>1, <2>2, <2>3, <2>4
<1>7. CASE f.t = "DISC"
  <2> DEFINE z == receiveUFrameDISC(x, f)
             m == sendUFrameDM(e, f.pf)
             a == sendUFrameUA(e, f.pf, NoInfo)
  <2>1. m \in Endpoint /\ a \in Endpoint /\ Advances(x, a) BY <1>1, <1>2, <1>4
  <2>2. z \in {clearState(e, "RELEASE"), clearState(m, "RELEASE"), clearState(a, "RELEASE"), a}
    BY DEF receiveUFrameDISC, Endpoint, LAPDState, Multiframe
  <2>3. receiveFrame(x, f) = z BY <1>7 DEF receiveFrame
  <2> HIDE DEF z, m, a
  <2> QED BY <1>2, <1>5, <2>1, <2>2, <2>3
<1>8. CASE f.t = "UA"
  <2> DEFINE z == indicate([c EXCEPT !.state = "LinkEstablished"], "ESTABLISH")
  <2>1. receiveFrame(x, f) \in {z, clearState(x, "RELEASE"), abnormalRelease(x)}
    BY <1>8 DEF receiveFrame, receiveUFrameUA
  <2>2. c \in Endpoint /\ c.VS = 0 /\ c.VA = 0 BY ClearCountersFields
  <2> HIDE DEF c
  <2>3. z.VS = 0 /\ z.VA = 0 BY <2>2 DEF indicate, Endpoint
  <2> HIDE DEF z
  <2> QED BY <1>3, <2>1, <2>3 DEF Advances
<1>9. CASE f.t \in {"DM", "UI"}
  BY <1>2, <1>3, <1>9 DEF receiveFrame, receiveUFrameDM
<1> QED BY <1>6, <1>7, <1>8, <1>9

\* What the other steps of the base station leave V(A) and V(S) at.
SameWindow(x, z) == z.VA = x.VA \/ z.VA = z.VS

LEMMA ThreadKeepsWindow ==
    ASSUME OneHandset, IInv,
           threadSteps("bts") \/ writeHighSide("bts")
    PROVE  SameWindow(link["bts"], link'["bts"])
<1> DEFINE x == link["bts"]
           w == writer["bts"]
           q == [x EXCEPT !.discard = FALSE]
<1>1. x \in Endpoint /\ link \in [End -> Endpoint] /\ "bts" \in End /\ w \in Writer
  BY Sides DEF IInv
<1>2. /\ Sapi = 0 /\ NoInfo \in Identity /\ w.pc \notin Establishing
      /\ {"RELEASE", "HARDRELEASE"} \subseteq Primitives \ {"ESTABLISH"}
  BY Sides DEF OneHandset, Identity, Primitives, Local
<1>3. ASSUME NEW z, SameWindow(x, z), link' = [link EXCEPT !["bts"] = z]
      PROVE  SameWindow(x, link'["bts"])
  BY <1>1, <1>3
<1>4. SameWindow(x, x) /\ SameWindow(x, q) /\ q \in Endpoint /\ q.VA = x.VA
  BY <1>1 DEF SameWindow, Endpoint
<1>5. /\ SameWindow(x, startRelease(x)) /\ SameWindow(x, abnormalRelease(x))
      /\ SameWindow(x, clearState(x, "HARDRELEASE"))
  BY <1>1, <1>2, StartReleaseFields, AbnormalEnds, ClearStateEnds DEF SameWindow
<1>6. SameWindow(x, sendUFrameUI(x))
  BY <1>1, <1>2, SenderSent DEF Sent, SameWindow
<1>7. ASSUME NEW y \in {x, q}, NEW v \in Writer, v.next <= v.last, v.count >= 1,
             sendSegments("bts", y, v)
      PROVE  SameWindow(x, link'["bts"])
  <2>1. segmentOf(v) \in Segment BY <1>7, SegmentType
  <2>2. y \in Endpoint /\ y.VA = x.VA BY <1>1, <1>4
  <2>3. sendIFrame(y, segmentOf(v)).VA = x.VA BY <2>1, <2>2, IFrameSent
  <2>4. SameWindow(x, y) /\ SameWindow(x, sendIFrame(y, segmentOf(v)))
    BY <2>2, <2>3 DEF SameWindow
  <2>5. \/ link' = [link EXCEPT !["bts"] = y]
        \/ link' = [link EXCEPT !["bts"] = sendIFrame(y, segmentOf(v))]
    BY <1>7 DEF sendSegments
  <2> QED BY <1>3, <2>4, <2>5
<1>8. CASE ackOrGiveUp("bts")
  <2>1. w.pc = "data" /\ sendSegments("bts", x, w) BY <1>8 DEF ackOrGiveUp
  <2>2. w.next <= w.last /\ w.count >= 1 BY <1>1, <2>1, SegmentsLeft
  <2> QED BY <1>1, <1>7, <2>1, <2>2
<1>9. CASE writeData("bts")
  <2>1. CASE x.state = "LinkReleased"
    BY <1>3, <1>5, <1>9, <2>1 DEF writeData
  <2>2. CASE x.state # "LinkReleased"
    <3>1. PICK n \in 1 .. MaxSegs :
            sendSegments("bts", q, [w EXCEPT !.count = w.count + 1, !.ses = session,
                                             !.next = 1, !.last = n])
      BY <1>9, <2>2 DEF writeData
    <3> DEFINE v == [w EXCEPT !.count = w.count + 1, !.ses = session, !.next = 1, !.last = n]
    <3>2. v \in Writer /\ v.next <= v.last /\ v.count >= 1
      <4>1. w.count + 1 \in 1 .. MaxReq /\ session \in 0 .. MaxOpen
        BY <1>1, <1>9, CallFacts DEF writeData
      <4>2. /\ w.count + 1 \in 0 .. MaxReq /\ "idle" \in WriterPC
            /\ 1 \in 1 .. MaxSegs + 1 /\ n \in 0 .. MaxSegs
        BY <4>1, BoundsAssumption DEF WriterPC
      <4>3. v \in Writer BY <1>1, <4>1, <4>2, WriterType
      <4>4. v.next = 1 /\ v.last = n /\ v.count = w.count + 1 BY <1>1 DEF Writer
      <4>5. n >= 1 /\ w.count + 1 >= 1 BY <4>1
      <4> QED BY <4>3, <4>4, <4>5
    <3>3. sendSegments("bts", q, v) BY <3>1
    <3> HIDE DEF v, q
    <3> QED BY <1>7, <3>2, <3>3
  <2> QED BY <2>1, <2>2
<1>10. CASE lockForRelease("bts") \/ ackThenRelease("bts") \/ releaseReturns("bts")
  BY <1>3, <1>4, <1>5, <1>10 DEF lockForRelease, ackThenRelease, releaseReturns
<1>11. CASE writeUnitData("bts") \/ writeError("bts") \/ writeHardRelease("bts")
  BY <1>3, <1>5, <1>6, <1>11 DEF writeUnitData, writeError, writeHardRelease
<1>12. CASE writeEstablish("bts") \/ writeRelease("bts")
  BY <1>4, <1>12 DEF writeEstablish, writeRelease
<1>13. ~(setAwaitingEstablish("bts") \/ sendUFrameSABM("bts") \/ startT200("bts")
         \/ readEstablish("bts"))
  BY <1>2 DEF setAwaitingEstablish, sendUFrameSABM, startT200, readEstablish, goto, Establishing
<1> QED BY <1>8, <1>9, <1>10, <1>11, <1>12, <1>13 DEF threadSteps, writeHighSide

LEMMA frameArrivesAdvances ==
    ASSUME OneHandset, HandsetRenews, IInv, ChainInv, frameArrives("bts")
    PROVE  Advances(link["bts"], link'["bts"])
<1> DEFINE x == link["bts"]
           y == link["ms"]
           w == writer["ms"]
           f == Head(y.tx)
           p == [y EXCEPT !.tx = Tail(y.tx)]
           r == receiveFrame(x, f)
<1>1. x \in Endpoint /\ y \in Endpoint /\ Chain(x, y, w) /\ y.tx # <<>> /\ Sapi = 0
  BY Sides DEF frameArrives, ChainInv, OneHandset
<1>2. PICK expired : link'["bts"] = checkT200(r, "bts", expired)
  BY Sides DEF frameArrives, IInv
<1>3. f \in Frame /\ FromHandset(x, p, w, f) BY <1>1, HeadIsFrame, HandsetFrameLeaves
<1> HIDE DEF f, p
<1>4. Advances(x, r)
  <2>1. CASE f.t = "I" BY <1>1, <1>3, <2>1, IFrameAdvances DEF receiveFrame
  <2>2. CASE f.t \in {"RR", "REJ"} BY <1>1, <1>3, <2>2, SFrameAdvances DEF receiveFrame
  <2>3. CASE f.t \in {"SABM", "DISC", "UA", "DM", "UI"} BY <1>1, <1>3, <2>3, UFrameAdvances
  <2> QED BY <1>3, <2>1, <2>2, <2>3 DEF Frame
<1>5. r \in Endpoint
  <2>1. Step(x, r) BY <1>1, <1>3, receiveFrameStep
  <2> QED BY <2>1 DEF Step
<1> HIDE DEF r
<1> DEFINE z == T200Expiration(r, "bts")
<1>6. CASE link'["bts"] = r BY <1>4, <1>6
<1>7. CASE link'["bts"] = z
  <2>1. \/ Ended(r, z)
        \/ z.state = r.state /\ z.VS = r.VS /\ z.VA = r.VA
        \/ r.state = "LinkReleased" /\ z = [r EXCEPT !.t200 = FALSE]
    BY <1>1, <1>5, Sides, T200Cases
  <2>2. z = [r EXCEPT !.t200 = FALSE] => z.state = r.state BY <1>5 DEF Endpoint
  <2> HIDE DEF z
  <2>3. Advances(x, z)
    BY <1>4, <2>1, <2>2, EndedAdvances DEF Advances, Up, Multiframe
  <2> QED BY <1>7, <2>3
<1> QED BY <1>2, <1>6, <1>7 DEF checkT200

LEMMA NextAdvances ==
    ASSUME OneHandset, HandsetRenews, IInv, ChainInv, [Next]_vars
    PROVE  link'["bts"].VA \in {link["bts"].VA, link'["bts"].VS}
<1> DEFINE x == link["bts"]
           z == link'["bts"]
<1>1. ~Up(z) => z.VS = z.VA
  <2>1. ChainInv' BY NextKeepsChain
  <2> QED BY <2>1 DEF ChainInv, Chain, Timed
<1>2. x \in Endpoint /\ link["ms"] \in Endpoint /\ link \in [End -> Endpoint] /\ Sapi = 0
  BY Sides DEF IInv, OneHandset
<1>3. CASE firstFrame("bts") \/ open
  <2> DEFINE v == [x EXCEPT !.fresh = FALSE]
  <2>1. v \in Endpoint BY <1>2 DEF Endpoint
  <2>2. clearCounters(v).VS = clearCounters(v).VA BY <2>1, ClearCountersFields
  <2>3. firstFrame("bts") => z = clearCounters(v) BY <1>2, Sides DEF firstFrame
  <2>4. opened(x).VS = opened(x).VA
    <3> DEFINE c == clearCounters(x)
    <3>1. c \in Endpoint /\ c.VS = 0 /\ c.VA = 0 BY <1>2, ClearCountersFields
    <3> HIDE DEF c
    <3> QED BY <3>1 DEF opened, c, Endpoint
  <2>5. open => z = opened(x) BY <1>2, Sides DEF open
  <2> QED BY <1>3, <2>2, <2>3, <2>4, <2>5
<1>4. CASE frameArrives("bts")
  BY <1>1, <1>4, frameArrivesAdvances DEF Advances
<1>5. CASE timerExpires("bts")
  <2> DEFINE t == T200Expiration(x, "bts")
  <2>1. z = t BY <1>2, <1>5, Sides DEF timerExpires, checkT200
  <2>2. \/ Ended(x, t)
        \/ t.VA = x.VA
        \/ t = [x EXCEPT !.t200 = FALSE]
    BY <1>2, Sides, T200Cases
  <2>3. t = [x EXCEPT !.t200 = FALSE] => t.VA = x.VA BY <1>2 DEF Endpoint
  <2>4. Ended(x, t) => ~Up(t) BY DEF Ended, Up, Multiframe
  <2> HIDE DEF t
  <2> QED BY <1>1, <2>1, <2>2, <2>3, <2>4
<1>6. CASE threadSteps("bts") \/ writeHighSide("bts")
  BY <1>6, ThreadKeepsWindow DEF SameWindow
<1>7. CASE loseFrame("bts") \/ frameArrives("ms")
  <2> DEFINE q == [x EXCEPT !.tx = Tail(x.tx)]
  <2>1. q.VA = x.VA BY <1>2 DEF Endpoint
  <2>2. loseFrame("bts") => z = q BY <1>2, Sides DEF loseFrame
  <2>3. frameArrives("ms") => z = q BY <1>2, Sides DEF frameArrives
  <2> QED BY <1>7, <2>1, <2>2, <2>3
<1>8. CASE firstFrame("ms") \/ timerExpires("ms") \/ loseFrame("ms") \/ rivalSABM
  <2>1. z = x
    BY <1>2, <1>8, Sides DEF firstFrame, timerExpires, loseFrame, rivalSABM
  <2> QED BY <2>1
<1>9. CASE threadSteps("ms") \/ writeHighSide("ms")
  <2>1. z = x
    BY <1>2, <1>9, Sides
       DEF threadSteps, writeHighSide, ackOrGiveUp, setAwaitingEstablish, sendUFrameSABM,
           startT200, readEstablish, lockForRelease, ackThenRelease, releaseReturns,
           writeUnitData, writeData, writeEstablish, writeRelease, writeError,
           writeHardRelease, sendSegments
  <2> QED BY <2>1
<1>10. CASE UNCHANGED vars
  BY <1>10 DEF vars
<1> QED BY <1>3, <1>4, <1>5, <1>6, <1>7, <1>8, <1>9, <1>10, Sides DEF Next, serviceLoop
-----------------------------------------------------------------------------
(***************************************************************************)
(* The theorems.                                                           *)
(***************************************************************************)
\* However frames are lost, late or repeated, the base station never has more than one
\* I-frame unacknowledged (waitForAck before sendIFrame, k = 1).
THEOREM OneOutstanding ==
    ASSUME OneHandset, HandsetRenews PROVE Spec => []WindowOfOne
<1>1. IInv /\ ChainInv => WindowOfOne
  <2> SUFFICES ASSUME ChainInv PROVE WindowOfOne OBVIOUS
  <2> QED BY DEF ChainInv, Chain, Timed, WindowOfOne
<1> QED BY <1>1, ChainInvariance, PTL

\* While an I-frame of the base station is unacknowledged T200 is running, so that the
\* frame is repeated or the link given up (writeL1Ack, processAck).
THEOREM UnackedIsTimed ==
    ASSUME OneHandset, HandsetRenews PROVE Spec => []PendingIsTimed
<1>1. IInv /\ ChainInv => PendingIsTimed
  BY DEF ChainInv, Chain, Timed, PendingIsTimed, Pending, Up
<1> QED BY <1>1, ChainInvariance, PTL

\* T200 of the base station runs in multiframe operation only for an unacknowledged
\* I-frame, and mSentFrame, which it would repeat, is that frame.
THEOREM T200RepeatsPending ==
    ASSUME OneHandset, HandsetRenews PROVE Spec => []TimerRepeatsPending
<1>1. IInv /\ ChainInv => TimerRepeatsPending
  BY DEF ChainInv, Chain, Timed, TimerRepeatsPending, Pending, Up
<1> QED BY <1>1, ChainInvariance, PTL

\* V(A) of the base station never goes back: a step leaves it, moves it to V(S), or
\* resets both (processAck, clearCounters).
THEOREM AcksGoForward ==
    ASSUME OneHandset, HandsetRenews PROVE Spec => AckNotTakenBack
<1>1. IInv /\ ChainInv /\ [Next]_vars
         => [link'["bts"].VA \in {link["bts"].VA, link'["bts"].VS}]_vars
  BY NextAdvances
<1> QED BY <1>1, ChainInvariance, PTL DEF Spec, AckNotTakenBack
=============================================================================
