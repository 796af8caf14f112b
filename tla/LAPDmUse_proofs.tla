--------------------------- MODULE LAPDmUse_proofs ---------------------------
(***************************************************************************)
(* Theorems about LAPDm: what a user of a channel gets from it.  Nothing   *)
(* written in one use of the channel is given to L3 in the next; while two *)
(* handsets contend for it only the first is answered; and what is given   *)
(* to L3 are whole messages of the other side, in order.                   *)
(*                                                                         *)
(* The first two are about what one endpoint x holds, whatever the frames  *)
(* it is given are, as long as they are of the same use s of the channel.  *)
(* The last one needs both sides and the radio link between them.          *)
(***************************************************************************)
EXTENDS LAPDmWindow_proofs

\* A frame that x may have on its way: an I-frame of this use; and a UA with an identity
\* only if the link is up, or gone with its L1, and in ContentionResolution only to the
\* handset that is being waited for.
Fits(f, x, s) ==
    /\ f.t = "I" => f.info.ses = s
    /\ Sapi = 0 /\ f.t = "UA" /\ f.info # NoInfo =>
          /\ ~Unused(x)
          /\ x.state = "ContentionResolution" => f.info = x.check

\* A unit given to L3 has segments of this use only.
UnitOf(u, s) == \A j \in DOMAIN u : u[j] \notin Handsets => u[j].ses = s

\* All that x holds: frames, the frame T200 would repeat, segments and units.
Holds(x, s) ==
    /\ \A k \in DOMAIN x.tx : Fits(x.tx[k], x, s)
    /\ x.sent.t # "UA" /\ (x.t200 /\ x.sent.t = "I" => x.sent.info.ses = s)
    /\ \A k \in DOMAIN x.recvBuffer : x.recvBuffer[k].ses = s
    /\ \A k \in DOMAIN x.rx : UnitOf(x.rx[k], s)

\* What the L3 thread w of an earlier use can still do to x: give up (discardIQueue),
\* or start T200 for its SABM.
Thread(x, w, s) ==
    /\ w.pc = "data" /\ w.ses # s => x.discard
    /\ w.pc = "estTimer" => x.sent.t # "I"

Use(x, w, s) == Holds(x, s) /\ Thread(x, w, s)
UseInv == \A e \in End : Use(link[e], writer[e], session)

\* x became z, and no more is held of another use.
Kept(x, z, s) ==
    /\ z \in Endpoint /\ (Holds(x, s) => Holds(z, s))
    /\ z.sent = x.sent /\ (x.discard => z.discard)
-----------------------------------------------------------------------------
(***************************************************************************)
(* Lemmas about the procedures.                                            *)
(***************************************************************************)
LEMMA KeptRefl == ASSUME NEW x \in Endpoint, NEW s PROVE Kept(x, x, s)
  BY DEF Kept

LEMMA KeptTrans ==
    ASSUME NEW x, NEW y, NEW z, NEW s, Kept(x, y, s), Kept(y, z, s) PROVE Kept(x, z, s)
  BY DEF Kept

\* Nothing is sent, nothing received, and nobody is let in.
Quiet(x, z) ==
    /\ z \in Endpoint /\ z.tx = x.tx /\ z.sent = x.sent /\ z.rx = x.rx
    /\ z.recvBuffer \in {x.recvBuffer, <<>>}
    /\ z.t200 => x.t200
    /\ x.discard => z.discard
    /\ Sapi = 0 /\ Unused(z) => Unused(x)
    /\ z.state = "ContentionResolution" => x.state = "ContentionResolution" /\ z.check = x.check

LEMMA QuietKeeps ==
    ASSUME NEW x \in Endpoint, NEW z, NEW s, Quiet(x, z) PROVE Kept(x, z, s)
<1> SUFFICES ASSUME Holds(x, s) PROVE Holds(z, s) BY DEF Kept, Quiet
<1>1. ASSUME NEW k \in DOMAIN z.tx PROVE Fits(z.tx[k], z, s)
  BY DEF Holds, Quiet, Fits
<1>2. \A k \in DOMAIN z.recvBuffer : z.recvBuffer[k].ses = s
  <2>1. CASE z.recvBuffer = x.recvBuffer BY <2>1 DEF Holds
  <2>2. CASE z.recvBuffer = <<>> BY <2>2
  <2> QED BY <2>1, <2>2 DEF Quiet
<1> QED BY <1>1, <1>2 DEF Holds, Quiet

LEMMA WriteKeeps ==
    ASSUME NEW x \in Endpoint, NEW f \in Frame, NEW s, Fits(f, x, s)
    PROVE  Kept(x, writeL1(x, f), s)
<1> DEFINE z == writeL1(x, f)
<1>1. /\ z \in Endpoint /\ z.sent = x.sent /\ z.discard = x.discard /\ z.state = x.state
      /\ z.l1 = x.l1 /\ z.check = x.check /\ z.t200 = x.t200
      /\ z.recvBuffer = x.recvBuffer /\ z.tx \in {x.tx, Append(x.tx, f)}
  BY WriteL1Said DEF Said, Sent
<1>2. z.rx = x.rx BY DEF writeL1, Endpoint
<1>3. x.tx \in Seq(Frame) BY EndpointTypes
<1> HIDE DEF z
<1> SUFFICES ASSUME Holds(x, s) PROVE Holds(z, s) BY <1>1 DEF Kept, z
<1>4. ASSUME NEW k \in DOMAIN z.tx PROVE Fits(z.tx[k], z, s)
  <2>1. (\E j \in DOMAIN x.tx : z.tx[k] = x.tx[j]) \/ z.tx[k] = f
    <3>1. CASE z.tx = x.tx BY <3>1, <1>4
    <3>2. CASE z.tx = Append(x.tx, f) BY <3>2, <1>3, <1>4, AppendFacts
    <3> QED BY <1>1, <3>1, <3>2
  <2>2. Fits(z.tx[k], x, s) BY <2>1 DEF Holds
  <2> QED BY <1>1, <2>2 DEF Fits, Unused
<1> QED BY <1>1, <1>2, <1>4 DEF Holds

LEMMA SendersKeep ==
    ASSUME NEW x \in Endpoint, NEW F \in BOOLEAN, NEW s
    PROVE  /\ Kept(x, sendSFrameRR(x, F), s) /\ Kept(x, sendSFrameREJ(x, F), s)
           /\ Kept(x, sendUFrameDM(x, F), s) /\ Kept(x, sendUFrameUI(x), s)
           /\ Kept(x, sendUFrameUA(x, F, NoInfo), s)
<1>1. NoInfo \in Identity BY DEF Identity
<1>2. x.VR \in SeqNum BY DEF Endpoint
<1> DEFINE rr == MkFrame("RR", RBit(x), F, 0, x.VR, NoInfo)
           rej == MkFrame("REJ", RBit(x), F, 0, x.VR, NoInfo)
           dm == UFrame("DM", RBit(x), F, NoInfo)
           ua == UFrame("UA", RBit(x), F, NoInfo)
           ui == UFrame("UI", CBit(x), TRUE, NoInfo)
<1>3. rr \in Frame /\ rej \in Frame
  BY <1>1, <1>2, Zeros, Bits DEF MkFrame, Frame
<1>4. dm \in Frame /\ ua \in Frame /\ ui \in Frame BY <1>1, Bits, UFrameType
<1>5. /\ Fits(rr, x, s) /\ Fits(rej, x, s) /\ Fits(dm, x, s) /\ Fits(ua, x, s)
      /\ Fits(ui, x, s)
  BY DEF Fits, UFrame, MkFrame
<1> QED BY <1>3, <1>4, <1>5, WriteKeeps
     DEF sendSFrameRR, sendSFrameREJ, sendUFrameDM, sendUFrameUA, sendUFrameUI

LEMMA EchoKeeps ==
    ASSUME NEW x \in Endpoint, NEW i \in Identity, NEW s,
           \/ x.state = "LinkEstablished"
           \/ x.state = "ContentionResolution" /\ x.check = i
    PROVE  Kept(x, sendUFrameUA(x, TRUE, i), s)
<1> DEFINE ua == UFrame("UA", RBit(x), TRUE, i)
<1>1. ua \in Frame BY Bits, UFrameType
<1>2. Fits(ua, x, s) BY DEF Fits, Unused, UFrame, MkFrame
<1> QED BY <1>1, <1>2, WriteKeeps DEF sendUFrameUA

LEMMA WriteAckHolds ==
    ASSUME NEW x \in Endpoint, NEW f \in Frame, NEW s, f.t # "UA", f.t = "I" => f.info.ses = s
    PROVE  LET z == writeL1Ack(x, f) IN
           /\ z \in Endpoint /\ (Holds(x, s) => Holds(z, s))
           /\ z.sent = f /\ z.discard = x.discard
<1> DEFINE w == [x EXCEPT !.sent = f]
           y == writeL1(w, f)
           z == [y EXCEPT !.t200 = TRUE]
<1>1. w \in Endpoint /\ w.sent = f /\ w.tx = x.tx /\ w.rx = x.rx /\ w.recvBuffer = x.recvBuffer
      /\ w.state = x.state /\ w.l1 = x.l1 /\ w.check = x.check /\ w.discard = x.discard
  BY DEF Endpoint
<1>2. Holds(x, s) => Holds(w, s) BY <1>1 DEF Holds, Fits, Unused
<1> HIDE DEF w
<1>3. Fits(f, w, s) BY DEF Fits
<1>4. Kept(w, y, s) /\ y.discard = w.discard
  <2>1. Kept(w, y, s) BY <1>1, <1>3, WriteKeeps
  <2>2. y.discard = w.discard BY <1>1, WriteL1Sent DEF Sent
  <2> QED BY <2>1, <2>2
<1> HIDE DEF y
<1>5. /\ z \in Endpoint /\ z.sent = f /\ z.tx = y.tx /\ z.rx = y.rx
      /\ z.recvBuffer = y.recvBuffer /\ z.state = y.state /\ z.l1 = y.l1
      /\ z.check = y.check /\ z.discard = y.discard
  BY <1>1, <1>4 DEF Kept, Endpoint
<1> HIDE DEF z
<1>6. Holds(x, s) => Holds(z, s)
  BY <1>1, <1>2, <1>4, <1>5 DEF Kept, Holds, Fits, Unused
<1>7. writeL1Ack(x, f) = z BY DEF writeL1Ack, z, y, w
<1> QED BY <1>1, <1>4, <1>5, <1>6, <1>7

LEMMA ClearCountersQuiet == ASSUME NEW x \in Endpoint PROVE Quiet(x, clearCounters(x))
<1>1. clearCounters(x) \in Endpoint BY ClearCountersType
<1>2. clearCounters(x) = [x EXCEPT !.t200 = FALSE, !.VS = 0, !.VA = 0, !.VR = 0, !.RC = 0,
                                   !.recvBuffer = <<>>, !.discard = TRUE]
  BY DEF clearCounters
<1> QED BY <1>1, <1>2 DEF Quiet, Unused, Endpoint

LEMMA ReleaseLinkQuiet ==
    ASSUME NEW x \in Endpoint, NEW p \in Primitives \ {"ESTABLISH"}
    PROVE  Quiet(x, releaseLink(x, p))
<1>1. releaseLink(x, p) \in Endpoint BY ReleaseLinkReleases DEF Released
<1> QED BY <1>1 DEF Quiet, Unused, releaseLink, indicate, writeL1Release, Endpoint

LEMMA ClearStateKeeps ==
    ASSUME NEW x \in Endpoint, NEW p \in Primitives \ {"ESTABLISH"}, NEW s
    PROVE  Kept(x, clearState(x, p), s)
<1>1. clearCounters(x) \in Endpoint BY ClearCountersType
<1> QED BY <1>1, ClearCountersQuiet, ReleaseLinkQuiet, QuietKeeps, KeptTrans DEF clearState

LEMMA AbnormalReleaseKeeps ==
    ASSUME NEW x \in Endpoint, NEW s PROVE Kept(x, abnormalRelease(x), s)
<1> DEFINE a == indicate(x, "ERROR")
           b == sendUFrameDM(a, TRUE)
           c == writeL1Error(b)
<1>1. a \in Endpoint /\ Quiet(x, a)
  BY DEF Quiet, Unused, indicate, Endpoint, Indication, Primitives
<1>2. Kept(x, a, s) BY <1>1, QuietKeeps
<1> HIDE DEF a
<1>3. Kept(a, b, s) BY <1>1, SendersKeep
<1>4. b \in Endpoint BY <1>3 DEF Kept
<1> HIDE DEF b
<1>5. c \in Endpoint /\ Quiet(b, c)
  BY <1>4 DEF Quiet, Unused, writeL1Error, Endpoint, L1State
<1>6. Kept(b, c, s) BY <1>4, <1>5, QuietKeeps
<1> HIDE DEF c
<1>7. Kept(c, clearState(c, "RELEASE"), s) BY <1>5, ClearStateKeeps DEF Primitives
<1>8. Kept(x, clearState(c, "RELEASE"), s)
  <2>1. Kept(x, b, s) BY <1>2, <1>3, KeptTrans
  <2>2. Kept(x, c, s) BY <2>1, <1>6, KeptTrans
  <2> QED BY <2>2, <1>7, KeptTrans
<1>9. abnormalRelease(x) = clearState(c, "RELEASE") BY DEF abnormalRelease, a, b, c
<1> QED BY <1>8, <1>9

LEMMA RetransmissionKeeps ==
    ASSUME NEW x \in Endpoint, NEW e \in End, NEW s, x.RC <= N200,
           x.sent.t # "UA", x.sent.t = "I" => x.sent.info.ses = s
    PROVE  Kept(x, retransmissionProcedure(x, e), s)
<1> DEFINE r == [x EXCEPT !.RC = x.RC + 1]
           f == resent(x, e)
           u == writeL1(r, f)
           z == [u EXCEPT !.t200 = TRUE]
<1>1. x.RC + 1 \in RetryCount BY N200Assumption DEF Endpoint, RetryCount
<1>2. r \in Endpoint /\ Quiet(x, r) BY <1>1 DEF Quiet, Unused, Endpoint
<1>3. f \in Frame BY ResentType
<1>4. f.t = x.sent.t /\ f.info = x.sent.info
  BY DEF resent, Endpoint, Frame
<1>5. Fits(f, r, s) BY <1>4 DEF Fits
<1>6. retransmissionProcedure(x, e) = z BY DEF retransmissionProcedure
<1>7. Kept(x, r, s) BY <1>2, QuietKeeps
<1> HIDE DEF r, f
<1>8. Kept(x, u, s) BY <1>2, <1>3, <1>5, <1>7, WriteKeeps, KeptTrans
<1> HIDE DEF u
<1>9. /\ z \in Endpoint /\ z.sent = u.sent /\ z.tx = u.tx /\ z.rx = u.rx
      /\ z.recvBuffer = u.recvBuffer /\ z.state = u.state /\ z.l1 = u.l1
      /\ z.check = u.check /\ z.discard = u.discard
  BY <1>8 DEF Kept, Endpoint
<1> HIDE DEF z
<1>10. Holds(u, s) => Holds(z, s) BY <1>8, <1>9 DEF Kept, Holds, Fits, Unused
<1> QED BY <1>6, <1>8, <1>9, <1>10 DEF Kept

LEMMA T200Keeps ==
    ASSUME NEW x \in Endpoint, NEW e \in End, NEW s, x.t200
    PROVE  Kept(x, T200Expiration(x, e), s)
<1> DEFINE y == [x EXCEPT !.t200 = FALSE]
<1>1. y \in Endpoint /\ Quiet(x, y) /\ y.RC = x.RC /\ y.sent = x.sent
  BY DEF Quiet, Unused, Endpoint
<1>2. Kept(x, y, s) BY <1>1, QuietKeeps
<1> HIDE DEF y
<1>3. Kept(x, releaseLink(y, "RELEASE"), s)
  BY <1>1, <1>2, ReleaseLinkQuiet, QuietKeeps, KeptTrans DEF Primitives
<1>4. Kept(x, abnormalRelease(y), s) BY <1>1, <1>2, AbnormalReleaseKeeps, KeptTrans
<1>5. ASSUME x.RC <= N200, Holds(x, s) PROVE Kept(x, retransmissionProcedure(y, e), s)
  <2>1. x.sent.t # "UA" /\ (x.sent.t = "I" => x.sent.info.ses = s) BY <1>5 DEF Holds
  <2> QED BY <1>1, <1>2, <1>5, <2>1, RetransmissionKeeps, KeptTrans
<1>6. ASSUME x.RC <= N200, ~Holds(x, s) PROVE Kept(x, retransmissionProcedure(y, e), s)
  <2> DEFINE z == retransmissionProcedure(y, e)
  <2>1. z \in Endpoint BY <1>1, <1>6, RetransmissionSends
  <2>2. z.sent = y.sent /\ z.discard = y.discard
    BY <1>1, <2>1 DEF retransmissionProcedure, writeL1, Endpoint
  <2> HIDE DEF z
  <2>3. Kept(x, z, s) BY <1>1, <1>2, <1>6, <2>1, <2>2 DEF Kept
  <2> QED BY <2>3 DEF z
<1>7. CASE x.state = "AwaitingRelease"
  <2>1. T200Expiration(x, e) = releaseLink(y, "RELEASE")
    BY <1>7 DEF T200Expiration, Multiframe, y
  <2> QED BY <1>3, <2>1
<1>8. CASE x.state \in Multiframe \union {"AwaitingEstablish"} /\ x.RC > N200
  <2>1. T200Expiration(x, e) = abnormalRelease(y)
    BY <1>8 DEF T200Expiration, Multiframe, y
  <2> QED BY <1>4, <2>1
<1>9. CASE x.state \in Multiframe \union {"AwaitingEstablish"} /\ ~(x.RC > N200)
  <2>1. T200Expiration(x, e) = retransmissionProcedure(y, e)
    BY <1>9 DEF T200Expiration, Multiframe, y
  <2>2. x.RC <= N200 BY <1>9, N200Assumption DEF Endpoint, RetryCount
  <2> QED BY <1>5, <1>6, <2>1, <2>2
<1>10. CASE x.state = "LinkReleased"
  <2>1. T200Expiration(x, e) = y BY <1>10 DEF T200Expiration, Multiframe, y
  <2> QED BY <1>2, <2>1
<1> QED BY <1>7, <1>8, <1>9, <1>10 DEF Endpoint, LAPDState, Multiframe

LEMMA CheckT200Keeps ==
    ASSUME NEW x \in Endpoint, NEW e \in End, NEW expired, NEW s
    PROVE  Kept(x, checkT200(x, e, expired), s)
  BY T200Keeps, KeptRefl DEF checkT200
-----------------------------------------------------------------------------
(***************************************************************************)
(* Lemmas about the receive handlers, given a frame that fits.             *)
(***************************************************************************)
LEMMA ContentionQuiet ==
    ASSUME NEW x \in Endpoint PROVE Quiet(x, leaveContention(x))
  BY DEF Quiet, Unused, leaveContention, Endpoint, LAPDState

LEMMA AckQuiet ==
    ASSUME NEW x \in Endpoint, NEW n \in SeqNum PROVE Quiet(x, processAck(x, n))
  BY Zeros DEF Quiet, Unused, processAck, Endpoint

LEMMA EipQuiet == ASSUME NEW x \in Endpoint PROVE Quiet(x, [x EXCEPT !.eip = FALSE])
  BY DEF Quiet, Unused, Endpoint

LEMMA DeliverKeeps ==
    ASSUME NEW x \in Endpoint, NEW u \in Seq(Segment \union Handsets), NEW s, UnitOf(u, s)
    PROVE  Kept(x, deliver(x, u), s)
<1> DEFINE z == deliver(x, u)
<1>1. x.rx \in Seq(Seq(Segment \union Handsets)) BY DEF Endpoint, DeliveredUnits
<1>2. Append(x.rx, u) \in DeliveredUnits BY <1>1 DEF DeliveredUnits
<1>3. /\ z \in Endpoint /\ z.rx = Append(x.rx, u) /\ z.tx = x.tx /\ z.sent = x.sent
      /\ z.recvBuffer = x.recvBuffer /\ z.state = x.state /\ z.l1 = x.l1
      /\ z.check = x.check /\ z.t200 = x.t200 /\ z.discard = x.discard
  BY <1>2 DEF deliver, Endpoint
<1> HIDE DEF z
<1>4. ASSUME NEW k \in DOMAIN z.rx
      PROVE  (\E j \in DOMAIN x.rx : z.rx[k] = x.rx[j]) \/ z.rx[k] = u
  <2>1. /\ Len(Append(x.rx, u)) = Len(x.rx) + 1
        /\ Append(x.rx, u) \in Seq(Seq(Segment \union Handsets))
        /\ \A j \in 1 .. Len(x.rx) : Append(x.rx, u)[j] = x.rx[j]
        /\ Append(x.rx, u)[Len(x.rx) + 1] = u
    BY <1>1, AppendProperties
  <2>2. DOMAIN x.rx = 1 .. Len(x.rx) /\ Len(x.rx) \in Nat BY <1>1
  <2>3. DOMAIN z.rx = 1 .. Len(x.rx) + 1 BY <1>3, <2>1
  <2>4. k \in 1 .. Len(x.rx) \/ k = Len(x.rx) + 1 BY <1>4, <2>2, <2>3
  <2> QED BY <1>3, <2>1, <2>2, <2>4
<1>5. Holds(x, s) => \A k \in DOMAIN z.rx : UnitOf(z.rx[k], s) BY <1>4 DEF Holds
<1>6. Holds(x, s) => Holds(z, s) BY <1>3, <1>5 DEF Holds, Fits, Unused
<1> QED BY <1>3, <1>6 DEF Kept, z

\* What is appended to a buffer of this use is of this use again.
LEMMA AppendOfUse ==
    ASSUME NEW q \in Seq(Segment), NEW g \in Segment, NEW s, g.ses = s,
           \A k \in DOMAIN q : q[k].ses = s
    PROVE  \A k \in DOMAIN Append(q, g) : Append(q, g)[k].ses = s
<1>1. /\ Append(q, g) \in Seq(Segment) /\ Len(Append(q, g)) = Len(q) + 1
      /\ \A k \in 1 .. Len(q) : Append(q, g)[k] = q[k]
      /\ Append(q, g)[Len(q) + 1] = g
  BY AppendProperties
<1>2. DOMAIN q = 1 .. Len(q) /\ Len(q) \in Nat /\ DOMAIN Append(q, g) = 1 .. Len(q) + 1
  BY <1>1
<1> QED BY <1>1, <1>2

LEMMA BufferKeeps ==
    ASSUME NEW x \in Endpoint, NEW g \in Segment, NEW s, g.ses = s
    PROVE  Kept(x, bufferIFrameData(x, g), s)
<1> DEFINE q == Append(x.recvBuffer, g)
           e == [x EXCEPT !.recvBuffer = <<>>]
           a == [x EXCEPT !.recvBuffer = q]
<1>1. x.recvBuffer \in Seq(Segment) BY DEF Endpoint, RecvBuffer
<1>2. q \in RecvBuffer /\ q \in Seq(Segment \union Handsets) BY <1>1 DEF RecvBuffer
<1>3. Holds(x, s) => \A k \in DOMAIN q : q[k].ses = s BY <1>1, AppendOfUse DEF Holds
<1> HIDE DEF q
<1>4. CASE g.more
  <2>1. /\ a \in Endpoint /\ a.rx = x.rx /\ a.tx = x.tx /\ a.sent = x.sent
        /\ a.recvBuffer = q /\ a.state = x.state /\ a.l1 = x.l1
        /\ a.check = x.check /\ a.t200 = x.t200 /\ a.discard = x.discard
    BY <1>2 DEF Endpoint
  <2>2. bufferIFrameData(x, g) = a BY <1>4 DEF bufferIFrameData, q
  <2> HIDE DEF a
  <2>3. Holds(x, s) => Holds(a, s) BY <1>3, <2>1 DEF Holds, Fits, Unused
  <2> QED BY <2>1, <2>2, <2>3 DEF Kept
<1>5. CASE ~g.more
  <2>1. e \in Endpoint /\ Quiet(x, e)
    BY EmptyChannels DEF Endpoint, Quiet, Unused
  <2>2. bufferIFrameData(x, g) = deliver(e, q) BY <1>5 DEF bufferIFrameData, q
  <2>3. Kept(x, e, s) BY <2>1, QuietKeeps
  <2> HIDE DEF e
  <2>4. ASSUME Holds(x, s) PROVE Kept(x, deliver(e, q), s)
    <3>1. UnitOf(q, s) BY <1>3, <2>4 DEF UnitOf
    <3> QED BY <1>2, <2>1, <2>3, <3>1, DeliverKeeps, KeptTrans
  <2>5. ASSUME ~Holds(x, s) PROVE Kept(x, deliver(e, q), s)
    <3> DEFINE z == deliver(e, q)
    <3>1. e.rx \in Seq(Seq(Segment \union Handsets)) BY <2>1 DEF Endpoint, DeliveredUnits
    <3>2. Append(e.rx, q) \in DeliveredUnits BY <1>2, <3>1 DEF DeliveredUnits
    <3>3. z \in Endpoint /\ z.sent = e.sent /\ z.discard = e.discard
      BY <2>1, <3>2 DEF deliver, Endpoint
    <3> HIDE DEF z
    <3>4. Kept(x, z, s) BY <2>3, <2>5, <3>3 DEF Kept
    <3> QED BY <3>4 DEF z
  <2> QED BY <2>2, <2>4, <2>5
<1> QED BY <1>4, <1>5

LEMMA receiveIFrameKeeps ==
    ASSUME NEW x \in Endpoint, NEW f \in Frame, NEW s, f.t = "I", f.info.ses = s
    PROVE  Kept(x, receiveIFrame(x, f), s)
<1> DEFINE w == [x EXCEPT !.eip = FALSE]
           v == leaveContention(w)
           y == processAck(v, f.nr)
           u == [y EXCEPT !.VR = Mod(y.VR + 1)]
           b == bufferIFrameData(u, f.info)
<1>1. f.nr \in SeqNum /\ f.pf \in BOOLEAN /\ f.info \in Segment BY DEF Frame
<1>2. w \in Endpoint /\ Kept(x, w, s) /\ w.state = x.state
  BY EipQuiet, QuietKeeps DEF Endpoint, Quiet
<1>3. v \in Endpoint /\ Kept(w, v, s) BY <1>2, ContentionQuiet, QuietKeeps DEF Quiet
<1>4. y \in Endpoint /\ Kept(v, y, s) BY <1>1, <1>3, AckQuiet, QuietKeeps DEF Quiet
<1>5. Kept(x, y, s) BY <1>2, <1>3, <1>4, KeptTrans
<1>6. receiveIFrame(x, f) \in {w, sendSFrameRR(b, f.pf), sendSFrameREJ(y, f.pf)}
  BY DEF receiveIFrame
<1> HIDE DEF w, v, y
<1>7. u \in Endpoint /\ Quiet(y, u)
  BY <1>4, ModIsSeqNum DEF Quiet, Unused, Endpoint
<1>8. Kept(x, u, s) BY <1>4, <1>5, <1>7, QuietKeeps, KeptTrans
<1> HIDE DEF u
<1>9. Kept(x, b, s) /\ b \in Endpoint
  <2>1. Kept(u, b, s) BY <1>1, <1>7, BufferKeeps
  <2> QED BY <1>8, <2>1, KeptTrans DEF Kept
<1> HIDE DEF b
<1>10. Kept(x, sendSFrameRR(b, f.pf), s) BY <1>1, <1>9, SendersKeep, KeptTrans
<1>11. Kept(x, sendSFrameREJ(y, f.pf), s) BY <1>1, <1>4, <1>5, SendersKeep, KeptTrans
<1> QED BY <1>2, <1>6, <1>10, <1>11

LEMMA receiveSFrameKeeps ==
    ASSUME NEW x \in Endpoint, NEW f \in Frame, NEW s
    PROVE  Kept(x, receiveSFrame(x, f), s)
<1> DEFINE w == [x EXCEPT !.eip = FALSE]
           v == leaveContention(w)
           r == sendSFrameRR(v, TRUE)
           y == processAck(v, f.nr)
<1>1. f.nr \in SeqNum BY DEF Frame
<1>2. w \in Endpoint /\ Kept(x, w, s) BY EipQuiet, QuietKeeps DEF Endpoint
<1>3. v \in Endpoint /\ Kept(x, v, s)
  BY <1>2, ContentionQuiet, QuietKeeps, KeptTrans DEF Quiet
<1>4. receiveSFrame(x, f) \in {w, processAck(r, f.nr), y, sendSFrameRR(y, TRUE), abnormalRelease(y)}
  <2>1. receiveSFrameRR(w, f) \in {w, processAck(r, f.nr), y} BY DEF receiveSFrameRR
  <2>2. receiveSFrameREJ(w, f) \in {w, y, sendSFrameRR(y, TRUE), abnormalRelease(y)}
    <3>1. f.pf \in BOOLEAN BY DEF Frame
    <3> QED BY <3>1 DEF receiveSFrameREJ
  <2> QED BY <2>1, <2>2 DEF receiveSFrame
<1> HIDE DEF w, v
<1>5. y \in Endpoint /\ Kept(x, y, s)
  BY <1>1, <1>3, AckQuiet, QuietKeeps, KeptTrans DEF Quiet
<1>6. r \in Endpoint /\ Kept(x, r, s) BY <1>3, SendersKeep, KeptTrans DEF Kept
<1> HIDE DEF y, r
<1>7. Kept(x, processAck(r, f.nr), s)
  BY <1>1, <1>6, AckQuiet, QuietKeeps, KeptTrans DEF Quiet
<1>8. Kept(x, sendSFrameRR(y, TRUE), s) BY <1>5, SendersKeep, KeptTrans
<1>9. Kept(x, abnormalRelease(y), s) BY <1>5, AbnormalReleaseKeeps, KeptTrans
<1> QED BY <1>2, <1>4, <1>5, <1>7, <1>8, <1>9

LEMMA acceptSABMKeeps ==
    ASSUME NEW x \in Endpoint, NEW f \in Frame, NEW s, f.info \in Identity, Unused(x)
    PROVE  Kept(x, acceptSABM(x, f), s)
<1> DEFINE c == clearCounters(x)
           y == indicate([c EXCEPT !.eip = TRUE], "ESTABLISH")
           l == [y EXCEPT !.state = "LinkEstablished"]
           r == [y EXCEPT !.state = "ContentionResolution", !.check = f.info]
           d == deliver(r, <<f.info>>)
<1>1. c \in Endpoint /\ Quiet(x, c) BY ClearCountersType, ClearCountersQuiet
<1>2. acceptSABM(x, f) = IF f.info # NoInfo THEN sendUFrameUA(d, TRUE, f.info)
                         ELSE sendUFrameUA(l, TRUE, NoInfo)
  BY DEF acceptSABM
<1>3. c.state = x.state /\ c.l1 = x.l1 BY ClearCountersFields
<1> HIDE DEF c
<1>4. y \in Endpoint /\ Quiet(x, y) /\ Unused(y)
  BY <1>1, <1>3 DEF Quiet, Unused, indicate, Endpoint, Indication, Primitives
<1>5. Kept(x, y, s) BY <1>4, QuietKeeps
<1> HIDE DEF y
<1>6. l \in Endpoint /\ Quiet(y, l) /\ l.state = "LinkEstablished"
  BY <1>4 DEF Quiet, Unused, Endpoint, LAPDState
<1>7. Kept(x, l, s) BY <1>4, <1>5, <1>6, QuietKeeps, KeptTrans
<1> HIDE DEF l
<1>8. Kept(x, sendUFrameUA(l, TRUE, NoInfo), s)
  BY <1>6, <1>7, SendersKeep, KeptTrans
<1>9. CASE f.info # NoInfo
  <2>1. f.info \in Handsets /\ <<f.info>> \in Seq(Segment \union Handsets)
    BY <1>9 DEF Identity
  <2>2. UnitOf(<<f.info>>, s) BY <2>1 DEF UnitOf
  <2>3. /\ r \in Endpoint /\ r.state = "ContentionResolution" /\ r.check = f.info
        /\ r.tx = y.tx /\ r.sent = y.sent /\ r.rx = y.rx /\ r.t200 = y.t200
        /\ r.recvBuffer = y.recvBuffer /\ r.discard = y.discard
    BY <1>4 DEF Endpoint, LAPDState
  <2> HIDE DEF r
  <2>4. Kept(y, r, s) BY <1>4, <2>3 DEF Kept, Holds, Fits, Unused
  <2>5. Kept(r, d, s) BY <2>1, <2>2, <2>3, DeliverKeeps
  <2>6. d.state = r.state /\ d.check = r.check BY <2>3 DEF deliver, Endpoint
  <2> HIDE DEF d
  <2>7. Kept(d, sendUFrameUA(d, TRUE, f.info), s)
    BY <2>3, <2>5, <2>6, EchoKeeps DEF Kept
  <2>8. Kept(x, d, s) BY <1>5, <2>4, <2>5, KeptTrans
  <2> QED BY <1>2, <1>9, <2>7, <2>8, KeptTrans
<1> QED BY <1>2, <1>8, <1>9

LEMMA receiveUFrameSABMKeeps ==
    ASSUME NEW x \in Endpoint, NEW f \in Frame, NEW s, f.info \in Identity, x.l1 # "closed"
    PROVE  Kept(x, receiveUFrameSABM(x, f), s)
<1> DEFINE l == [x EXCEPT !.state = "LinkEstablished"]
           u == sendUFrameUA(x, TRUE, NoInfo)
<1>1. f.pf \in BOOLEAN BY DEF Frame
<1>2. Kept(x, u, s) /\ Kept(x, sendUFrameDM(x, TRUE), s) BY SendersKeep
<1>3. Kept(x, x, s) /\ Kept(x, abnormalRelease(x), s) BY KeptRefl, AbnormalReleaseKeeps
<1>4. CASE ~f.pf
  <2>1. receiveUFrameSABM(x, f) = x BY <1>4 DEF receiveUFrameSABM
  <2> QED BY <1>3, <2>1
<1>5. CASE f.pf /\ x.state = "LinkReleased"
  <2>1. receiveUFrameSABM(x, f) = acceptSABM(x, f) BY <1>5 DEF receiveUFrameSABM
  <2> QED BY <1>5, <2>1, acceptSABMKeeps DEF Unused
<1>6. CASE f.pf /\ x.state = "ContentionResolution"
  <2>1. receiveUFrameSABM(x, f) \in {x, sendUFrameUA(l, TRUE, f.info)}
    BY <1>6 DEF receiveUFrameSABM
  <2>2. l \in Endpoint /\ Quiet(x, l) /\ l.state = "LinkEstablished"
    BY DEF Quiet, Unused, Endpoint, LAPDState
  <2>3. Kept(x, l, s) BY <2>2, QuietKeeps
  <2> HIDE DEF l
  <2>4. Kept(l, sendUFrameUA(l, TRUE, f.info), s) BY <2>2, EchoKeeps
  <2> QED BY <1>3, <2>1, <2>3, <2>4, KeptTrans
<1>7. CASE f.pf /\ x.state = "AwaitingEstablish"
  <2>1. receiveUFrameSABM(x, f) = u BY <1>7 DEF receiveUFrameSABM
  <2> QED BY <1>2, <2>1
<1>8. CASE f.pf /\ x.state = "AwaitingRelease"
  <2>1. receiveUFrameSABM(x, f) = sendUFrameDM(x, TRUE) BY <1>8 DEF receiveUFrameSABM
  <2> QED BY <1>2, <2>1
<1>9. CASE f.pf /\ x.state = "LinkEstablished"
  <2>1. receiveUFrameSABM(x, f) \in
            {sendUFrameUA(x, TRUE, f.info), abnormalRelease(x), clearCounters(u)}
    BY <1>9 DEF receiveUFrameSABM
  <2>2. Kept(x, sendUFrameUA(x, TRUE, f.info), s) BY <1>9, EchoKeeps
  <2>3. Kept(x, clearCounters(u), s)
    <3>1. u \in Endpoint BY <1>2 DEF Kept
    <3> HIDE DEF u
    <3>2. Kept(u, clearCounters(u), s) BY <3>1, ClearCountersQuiet, QuietKeeps
    <3> QED BY <1>2, <3>2, KeptTrans
  <2> QED BY <1>3, <2>1, <2>2, <2>3
<1> QED BY <1>1, <1>4, <1>5, <1>6, <1>7, <1>8, <1>9 DEF Endpoint, LAPDState

LEMMA receiveUFrameDISCKeeps ==
    ASSUME NEW x \in Endpoint, NEW f \in Frame, NEW s
    PROVE  Kept(x, receiveUFrameDISC(x, f), s)
<1> DEFINE y == [x EXCEPT !.eip = FALSE]
           m == sendUFrameDM(y, f.pf)
           a == sendUFrameUA(y, f.pf, NoInfo)
<1>1. f.pf \in BOOLEAN BY DEF Frame
<1>2. y \in Endpoint /\ Kept(x, y, s) BY EipQuiet, QuietKeeps DEF Endpoint
<1>3. receiveUFrameDISC(x, f) \in
          {clearState(y, "RELEASE"), clearState(m, "RELEASE"), clearState(a, "RELEASE"), a}
  BY DEF receiveUFrameDISC, Endpoint, LAPDState, Multiframe
<1> HIDE DEF y
<1>4. Kept(x, m, s) /\ Kept(x, a, s) BY <1>1, <1>2, SendersKeep, KeptTrans
<1>5. m \in Endpoint /\ a \in Endpoint BY <1>4 DEF Kept
<1> HIDE DEF m, a
<1>6. /\ Kept(y, clearState(y, "RELEASE"), s) /\ Kept(m, clearState(m, "RELEASE"), s)
      /\ Kept(a, clearState(a, "RELEASE"), s)
  BY <1>2, <1>5, ClearStateKeeps DEF Primitives
<1>7. /\ Kept(x, clearState(y, "RELEASE"), s) /\ Kept(x, clearState(m, "RELEASE"), s)
      /\ Kept(x, clearState(a, "RELEASE"), s)
  BY <1>2, <1>4, <1>6, KeptTrans
<1> QED BY <1>3, <1>4, <1>7

LEMMA receiveUFrameUAKeeps ==
    ASSUME NEW x \in Endpoint, NEW f \in Frame, NEW s
    PROVE  Kept(x, receiveUFrameUA(x, f), s)
<1> DEFINE c == clearCounters(x)
           l == indicate([c EXCEPT !.state = "LinkEstablished"], "ESTABLISH")
<1>1. c \in Endpoint /\ Kept(x, c, s)
  BY ClearCountersType, ClearCountersQuiet, QuietKeeps
<1>2. receiveUFrameUA(x, f) \in {l, clearState(x, "RELEASE"), abnormalRelease(x)}
  BY DEF receiveUFrameUA, Frame
<1> HIDE DEF c
<1>3. l \in Endpoint /\ Quiet(c, l)
  BY <1>1 DEF Quiet, Unused, indicate, Endpoint, Indication, Primitives, LAPDState
<1> HIDE DEF l
<1>4. Kept(x, l, s) BY <1>1, <1>3, QuietKeeps, KeptTrans
<1>5. Kept(x, clearState(x, "RELEASE"), s) /\ Kept(x, abnormalRelease(x), s)
  BY ClearStateKeeps, AbnormalReleaseKeeps DEF Primitives
<1> QED BY <1>2, <1>4, <1>5

LEMMA receiveFrameKeeps ==
    ASSUME NEW x \in Endpoint, NEW f \in Frame, NEW s, x.l1 # "closed",
           f.t = "I" => f.info.ses = s
    PROVE  Kept(x, receiveFrame(x, f), s)
<1>1. CASE f.t = "I"
  <2>1. receiveFrame(x, f) = receiveIFrame(x, f) BY <1>1 DEF receiveFrame
  <2> QED BY <1>1, <2>1, receiveIFrameKeeps
<1>2. CASE f.t \in {"RR", "REJ"}
  <2>1. receiveFrame(x, f) = receiveSFrame(x, f) BY <1>2 DEF receiveFrame
  <2> QED BY <2>1, receiveSFrameKeeps
<1>3. CASE f.t = "SABM"
  <2>1. receiveFrame(x, f) = receiveUFrameSABM(x, f) BY <1>3 DEF receiveFrame
  <2>2. f.info \in Identity BY <1>3 DEF Frame
  <2> QED BY <2>1, <2>2, receiveUFrameSABMKeeps
<1>4. CASE f.t = "DISC"
  <2>1. receiveFrame(x, f) = receiveUFrameDISC(x, f) BY <1>4 DEF receiveFrame
  <2> QED BY <2>1, receiveUFrameDISCKeeps
<1>5. CASE f.t = "UA"
  <2>1. receiveFrame(x, f) = receiveUFrameUA(x, f) BY <1>5 DEF receiveFrame
  <2> QED BY <2>1, receiveUFrameUAKeeps
<1>6. CASE f.t = "DM"
  <2>1. receiveFrame(x, f) \in {x, clearState(x, "RELEASE")}
    BY <1>6 DEF receiveFrame, receiveUFrameDM
  <2> QED BY <2>1, KeptRefl, ClearStateKeeps DEF Primitives
<1>7. CASE f.t = "UI"
  <2>1. receiveFrame(x, f) = x BY <1>7 DEF receiveFrame
  <2> QED BY <2>1, KeptRefl
<1> QED BY <1>1, <1>2, <1>3, <1>4, <1>5, <1>6, <1>7 DEF Frame
-----------------------------------------------------------------------------
(***************************************************************************)
(* The service loop and the surroundings.                                  *)
(***************************************************************************)
LEMMA UseKept ==
    ASSUME NEW x, NEW z, NEW w, NEW s, Use(x, w, s), Kept(x, z, s) PROVE Use(z, w, s)
  BY DEF Use, Kept, Thread

LEMMA UseFacts ==
    ASSUME IInv, UseInv, NEW e \in End
    PROVE  /\ link[e] \in Endpoint /\ writer[e] \in Writer
           /\ Use(link[e], writer[e], session)
  BY LocalFacts DEF UseInv

LEMMA UseOneSide ==
    ASSUME IInv, UseInv, NEW e \in End, NEW x, NEW w, Use(x, w, session),
           link' = [link EXCEPT ![e] = x], writer' = [writer EXCEPT ![e] = w],
           UNCHANGED session
    PROVE  UseInv'
  BY DEF IInv, UseInv

LEMMA UseOneEndpoint ==
    ASSUME IInv, UseInv, NEW e \in End, NEW x, Use(x, writer[e], session),
           link' = [link EXCEPT ![e] = x], UNCHANGED <<writer, session>>
    PROVE  UseInv'
<1>1. writer' = [writer EXCEPT ![e] = writer[e]] BY DEF IInv
<1> QED BY <1>1, UseOneSide

\* The first frame leaves x: it was of this use.
LEMMA TailKeeps ==
    ASSUME NEW x \in Endpoint, x.tx # <<>>, NEW s
    PROVE  /\ Kept(x, [x EXCEPT !.tx = Tail(x.tx)], s)
           /\ Head(x.tx) \in Frame
           /\ Holds(x, s) /\ Head(x.tx).t = "I" => Head(x.tx).info.ses = s
<1> DEFINE z == [x EXCEPT !.tx = Tail(x.tx)]
<1>1. x.tx \in Seq(Frame) BY EndpointTypes
<1>2. /\ Head(x.tx) \in Frame /\ Tail(x.tx) \in RadioLink
      /\ 1 \in DOMAIN x.tx /\ x.tx[1] = Head(x.tx)
      /\ \A k \in DOMAIN Tail(x.tx) : k + 1 \in DOMAIN x.tx /\ Tail(x.tx)[k] = x.tx[k + 1]
  BY <1>1, TailFacts DEF RadioLink
<1>3. /\ z \in Endpoint /\ z.tx = Tail(x.tx) /\ z.sent = x.sent /\ z.rx = x.rx
      /\ z.recvBuffer = x.recvBuffer /\ z.state = x.state /\ z.l1 = x.l1
      /\ z.check = x.check /\ z.t200 = x.t200 /\ z.discard = x.discard
  BY <1>2 DEF Endpoint
<1> HIDE DEF z
<1>4. Holds(x, s) => Holds(z, s) BY <1>2, <1>3 DEF Holds, Fits, Unused
<1>5. Holds(x, s) /\ Head(x.tx).t = "I" => Head(x.tx).info.ses = s
  BY <1>2 DEF Holds, Fits
<1> QED BY <1>2, <1>3, <1>4, <1>5 DEF Kept, z

LEMMA firstFrameKeepsUse ==
    ASSUME IInv, UseInv, NEW e \in End, firstFrame(e) PROVE UseInv'
<1> DEFINE x == link[e]
           v == [x EXCEPT !.fresh = FALSE]
           y == clearCounters(v)
<1>1. x \in Endpoint /\ Use(x, writer[e], session) BY UseFacts
<1>2. v \in Endpoint /\ Quiet(x, v) BY <1>1 DEF Quiet, Unused, Endpoint
<1>3. link' = [link EXCEPT ![e] = y] /\ UNCHANGED <<writer, session>>
  BY DEF firstFrame
<1>4. Kept(x, v, session) BY <1>1, <1>2, QuietKeeps
<1> HIDE DEF v
<1>5. Kept(v, y, session) BY <1>2, ClearCountersQuiet, QuietKeeps
<1> HIDE DEF y
<1>6. Use(y, writer[e], session) BY <1>1, <1>4, <1>5, KeptTrans, UseKept
<1> QED BY <1>3, <1>6, UseOneEndpoint

LEMMA frameArrivesKeepsUse ==
    ASSUME IInv, UseInv, NEW e \in End, frameArrives(e) PROVE UseInv'
<1> DEFINE p == Peer(e)
           f == Head(link[p].tx)
           q == [link[p] EXCEPT !.tx = Tail(link[p].tx)]
<1>1. PICK expired \in BOOLEAN :
        link' = [link EXCEPT ![e] = checkT200(receiveFrame(link[e], f), e, expired),
                             ![p].tx = Tail(@)]
  BY ToggleAssumption DEF frameArrives
<1> DEFINE r == receiveFrame(link[e], f)
           y == checkT200(r, e, expired)
<1>2. /\ p \in End /\ p # e /\ link \in [End -> Endpoint]
      /\ link[e] \in Endpoint /\ Use(link[e], writer[e], session)
      /\ link[p] \in Endpoint /\ Use(link[p], writer[p], session)
      /\ link[p].tx # <<>> /\ link[e].l1 # "closed"
  BY LocalFacts, UseFacts DEF frameArrives, IInv
<1>3. link'[e] = y /\ link'[p] = q /\ \A d \in End : d = e \/ d = p
  BY <1>1, <1>2 DEF Peer, End
<1> HIDE DEF p
<1>4. /\ Kept(link[p], q, session) /\ f \in Frame
      /\ f.t = "I" => f.info.ses = session
  BY <1>2, TailKeeps DEF Use
<1> HIDE DEF f, q
<1>5. Kept(link[e], r, session) BY <1>2, <1>4, receiveFrameKeeps
<1>6. r \in Endpoint BY <1>5 DEF Kept
<1> HIDE DEF r
<1>7. Kept(r, y, session) BY <1>6, CheckT200Keeps
<1> HIDE DEF y
<1>8. Use(y, writer[e], session) /\ Use(q, writer[p], session)
  BY <1>2, <1>4, <1>5, <1>7, KeptTrans, UseKept
<1> QED BY <1>3, <1>8 DEF frameArrives, UseInv

LEMMA timerExpiresKeepsUse ==
    ASSUME IInv, UseInv, NEW e \in End, timerExpires(e) PROVE UseInv'
<1> DEFINE y == checkT200(link[e], e, TRUE)
<1>1. link[e] \in Endpoint /\ Use(link[e], writer[e], session) BY UseFacts
<1>2. link' = [link EXCEPT ![e] = y] /\ UNCHANGED <<writer, session>> BY DEF timerExpires
<1>3. Kept(link[e], y, session) BY <1>1, CheckT200Keeps
<1> HIDE DEF y
<1> QED BY <1>1, <1>2, <1>3, UseKept, UseOneEndpoint

LEMMA loseFrameKeepsUse ==
    ASSUME IInv, UseInv, NEW e \in End, loseFrame(e) PROVE UseInv'
<1> DEFINE y == [link[e] EXCEPT !.tx = Tail(link[e].tx)]
<1>1. /\ link[e] \in Endpoint /\ Use(link[e], writer[e], session)
      /\ link' = [link EXCEPT ![e] = y] /\ UNCHANGED <<writer, session>>
  BY UseFacts DEF loseFrame
<1>2. Kept(link[e], y, session) BY <1>1, TailKeeps DEF loseFrame
<1> HIDE DEF y
<1> QED BY <1>1, <1>2, UseKept, UseOneEndpoint

LEMMA rivalSABMKeepsUse == ASSUME IInv, UseInv, rivalSABM PROVE UseInv'
<1> DEFINE x == link["ms"]
<1>1. "ms" \in End /\ x \in Endpoint /\ Use(x, writer["ms"], session)
  BY UseFacts DEF End
<1>2. PICK h \in Handsets : link' = [link EXCEPT !["ms"] = writeL1(x, SABM(x, h))]
  BY DEF rivalSABM
<1> DEFINE f == SABM(x, h)
           y == writeL1(x, f)
<1>3. f \in Frame BY <1>1, SABMType DEF Identity
<1>4. Fits(f, x, session) BY DEF Fits, SABM, UFrame, MkFrame
<1>5. link' = [link EXCEPT !["ms"] = y] BY <1>2
<1> HIDE DEF f
<1>6. Kept(x, y, session) BY <1>1, <1>3, <1>4, WriteKeeps
<1> HIDE DEF y
<1>7. Use(y, writer["ms"], session) BY <1>1, <1>6, UseKept
<1> HIDE DEF x
<1> QED BY <1>1, <1>5, <1>7, UseOneEndpoint DEF rivalSABM
-----------------------------------------------------------------------------
(***************************************************************************)
(* The L3 thread.                                                          *)
(***************************************************************************)
LEMMA SendSegmentsKeepsUse ==
    ASSUME IInv, UseInv, NEW e \in End, NEW x, NEW w \in Writer,
           Local(e, x, [w EXCEPT !.pc = "data"], session),
           Use(x, [w EXCEPT !.pc = "data"], session),
           sendSegments(e, x, w), UNCHANGED session
    PROVE  UseInv'
<1> DEFINE d == [w EXCEPT !.pc = "data"]
           i == [w EXCEPT !.pc = "idle"]
           n == [w EXCEPT !.pc = IF w.next = w.last THEN "idle" ELSE "data", !.next = w.next + 1]
           g == segmentOf(w)
           v == [x EXCEPT !.VS = Mod(x.VS + 1)]
           f == MkFrame("I", CBit(x), FALSE, x.VS, x.VR, g)
           y == sendIFrame(x, g)
<1>1. x \in Endpoint /\ w.next <= w.last /\ w.count >= 1 BY DEF Local, Writer
<1>2. /\ d.pc = "data" /\ d.ses = w.ses /\ i.pc = "idle"
      /\ n.pc \in {"idle", "data"} /\ n.ses = w.ses
  BY DEF Writer
<1>3. Holds(x, session) /\ (w.ses # session => x.discard) BY <1>2 DEF Use, Thread
<1>4. CASE ~canPass(x)
  BY <1>4, UseOneSide DEF sendSegments
<1>5. CASE canPass(x) /\ (x.discard \/ x.state \notin Multiframe)
  <2>1. Use(x, i, session) BY <1>2, <1>3 DEF Use, Thread
  <2>2. link' = [link EXCEPT ![e] = x] /\ writer' = [writer EXCEPT ![e] = i]
    BY <1>5 DEF sendSegments
  <2> QED BY <2>1, <2>2, UseOneSide
<1>6. CASE canPass(x) /\ ~(x.discard \/ x.state \notin Multiframe)
  <2>1. link' = [link EXCEPT ![e] = y] /\ writer' = [writer EXCEPT ![e] = n]
    BY <1>6 DEF sendSegments
  <2>2. g \in Segment /\ g.ses = session
    <3>1. g \in Segment BY <1>1, SegmentType
    <3>2. g.ses = w.ses BY DEF segmentOf
    <3> QED BY <1>3, <1>6, <3>1, <3>2
  <2> HIDE DEF g, n
  <2>3. x.VS \in SeqNum /\ x.VR \in SeqNum BY <1>1 DEF Endpoint
  <2>4. f \in Frame /\ f.t = "I" /\ f.info = g
    BY <1>1, <2>2, <2>3, Bits DEF MkFrame, Frame
  <2>5. v \in Endpoint /\ Quiet(x, v)
    BY <1>1, <2>3, ModIsSeqNum DEF Quiet, Unused, Endpoint
  <2>6. y = writeL1Ack(v, f) BY DEF sendIFrame
  <2> HIDE DEF v, f, y
  <2>7. Holds(v, session) BY <1>1, <1>3, <2>5, QuietKeeps DEF Kept
  <2>8. Holds(y, session) BY <2>2, <2>4, <2>5, <2>6, <2>7, WriteAckHolds
  <2>9. Use(y, n, session) BY <1>2, <1>3, <1>6, <2>8 DEF Use, Thread, n
  <2> QED BY <2>1, <2>9, UseOneSide
<1> QED BY <1>4, <1>5, <1>6

LEMMA ackOrGiveUpKeepsUse ==
    ASSUME IInv, UseInv, NEW e \in End, ackOrGiveUp(e) PROVE UseInv'
<1>1. /\ Local(e, link[e], writer[e], session) /\ writer[e] \in Writer
      /\ Use(link[e], writer[e], session)
  BY LocalFacts, UseFacts
<1>2. writer[e] = [writer[e] EXCEPT !.pc = "data"] BY <1>1 DEF ackOrGiveUp, Writer
<1> QED BY <1>1, <1>2, SendSegmentsKeepsUse DEF ackOrGiveUp

\* A call whose thread does not stay in sendMultiframeData.
LEMMA CallKeepsUse ==
    ASSUME IInv, UseInv, NEW e \in End, NEW op, request(e, op),
           NEW pc \in WriterPC \ {"data", "estTimer"}, called(e, pc),
           NEW y, Kept(link[e], y, session), link' = [link EXCEPT ![e] = y]
    PROVE  UseInv'
<1>1. PICK v \in Writer : v.pc = pc /\ v.ses = session /\ writer' = [writer EXCEPT ![e] = v]
  BY CallMoves
<1>2. Holds(y, session) BY UseFacts DEF Use, Kept
<1>3. Use(y, v, session) BY <1>1, <1>2 DEF Use, Thread
<1> QED BY <1>1, <1>3, UseOneSide DEF request

LEMMA writeDataKeepsUse ==
    ASSUME IInv, UseInv, NEW e \in End, writeData(e) PROVE UseInv'
<1>1. request(e, "DATA") BY DEF writeData
<1>2. /\ Local(e, link[e], writer[e], session) /\ link[e] \in Endpoint
      /\ writer[e] \in Writer /\ session \in Int /\ Use(link[e], writer[e], session)
  BY LocalFacts, UseFacts
<1>3. CASE link[e].state = "LinkReleased"
  <2>1. called(e, "idle") /\ link' = [link EXCEPT ![e] = abnormalRelease(link[e])]
    BY <1>3 DEF writeData
  <2>2. Kept(link[e], abnormalRelease(link[e]), session) BY <1>2, AbnormalReleaseKeeps
  <2>3. "idle" \in WriterPC \ {"data", "estTimer"} BY DEF WriterPC
  <2> QED BY <1>1, <2>1, <2>2, <2>3, CallKeepsUse
<1>4. CASE link[e].state # "LinkReleased"
  <2> DEFINE x == [link[e] EXCEPT !.discard = FALSE]
  <2>1. PICK n \in 1 .. MaxSegs :
          sendSegments(e, x, [writer[e] EXCEPT !.count = writer[e].count + 1, !.ses = session,
                                              !.next = 1, !.last = n])
    BY <1>4 DEF writeData
  <2> DEFINE w == [writer[e] EXCEPT !.count = writer[e].count + 1, !.ses = session,
                                    !.next = 1, !.last = n]
             v == [w EXCEPT !.pc = "data"]
  <2>2. n \in Int /\ n >= 1 /\ n \in 0 .. MaxSegs /\ 1 \in 1 .. MaxSegs + 1
    BY BoundsAssumption
  <2>3. w \in Writer /\ v \in Writer /\ v.pc = "data" /\ v.ses = session
    <3>1. /\ writer[e].count + 1 \in 0 .. MaxReq /\ session \in 0 .. MaxOpen
          /\ "data" \in WriterPC
      BY <1>1, CallFacts, BoundsAssumption DEF WriterPC
    <3>2. w \in Writer BY <1>2, <2>2, <3>1, WriterType
    <3> HIDE DEF w
    <3>3. v \in Writer /\ v.pc = "data" /\ v.ses = w.ses
      BY <3>1, <3>2 DEF Writer
    <3> QED BY <1>2, <3>2, <3>3 DEF w, Writer
  <2>4. v.next = 1 /\ v.last = n /\ v.count = writer[e].count + 1 BY <1>2 DEF Writer
  <2>5. /\ x \in Endpoint /\ x.state = link[e].state /\ x.C = link[e].C
        /\ x.fresh = link[e].fresh /\ x.t200 = link[e].t200
        /\ Sound(link[e]) => Sound(x)
        /\ x.tx = link[e].tx /\ x.sent = link[e].sent /\ x.rx = link[e].rx
        /\ x.recvBuffer = link[e].recvBuffer /\ x.l1 = link[e].l1 /\ x.check = link[e].check
    BY <1>2 DEF Endpoint, Sound, Clean, Reported
  <2> HIDE DEF x, v
  <2>6. Local(e, x, v, session)
    BY <1>1, <1>2, <1>4, <2>2, <2>3, <2>4, <2>5, CallFacts
       DEF Local, Releasing, Establishing
  <2>7. Holds(x, session) BY <1>2, <2>5 DEF Use, Holds, Fits, Unused
  <2>8. Use(x, v, session) BY <2>3, <2>7 DEF Use, Thread
  <2>9. sendSegments(e, x, w) BY <2>1
  <2> HIDE DEF w
  <2> QED BY <1>1, <2>3, <2>6, <2>8, <2>9, SendSegmentsKeepsUse DEF v, request
<1> QED BY <1>3, <1>4

LEMMA writeHighSideKeepsUse ==
    ASSUME IInv, UseInv, NEW e \in End, writeHighSide(e) PROVE UseInv'
<1> DEFINE x == link[e]
<1>1. /\ x \in Endpoint
      /\ {"idle", "estRead", "estSet", "relLock"} \subseteq WriterPC \ {"data", "estTimer"}
  BY LocalFacts DEF WriterPC
<1>2. Kept(x, x, session) /\ link = [link EXCEPT ![e] = x]
  BY <1>1, KeptRefl DEF IInv
<1>3. CASE writeUnitData(e)
  <2>1. Kept(x, sendUFrameUI(x), session) BY <1>1, SendersKeep
  <2> QED BY <1>1, <1>3, <2>1, CallKeepsUse DEF writeUnitData
<1>4. CASE writeData(e)
  BY <1>4, writeDataKeepsUse
<1>5. CASE writeEstablish(e)
  <2> DEFINE pc == IF x.state = "LinkEstablished" THEN "estRead" ELSE "estSet"
  <2>1. request(e, "ESTABLISH") /\ called(e, pc) /\ link' = link
    BY <1>5 DEF writeEstablish
  <2>2. pc \in WriterPC \ {"data", "estTimer"} BY <1>1
  <2> HIDE DEF pc
  <2> QED BY <1>2, <2>1, <2>2, CallKeepsUse
<1>6. CASE writeRelease(e)
  <2> DEFINE pc == IF x.state = "LinkReleased" THEN "idle" ELSE "relLock"
  <2>1. request(e, "RELEASE") /\ called(e, pc) /\ link' = link
    BY <1>6 DEF writeRelease
  <2>2. pc \in WriterPC \ {"data", "estTimer"} BY <1>1
  <2> HIDE DEF pc
  <2> QED BY <1>2, <2>1, <2>2, CallKeepsUse
<1>7. CASE writeError(e)
  <2>1. Kept(x, abnormalRelease(x), session) BY <1>1, AbnormalReleaseKeeps
  <2> QED BY <1>1, <1>7, <2>1, CallKeepsUse DEF writeError
<1>8. CASE writeHardRelease(e)
  <2>1. Kept(x, clearState(x, "HARDRELEASE"), session)
    BY <1>1, ClearStateKeeps DEF Primitives
  <2> QED BY <1>1, <1>8, <2>1, CallKeepsUse DEF writeHardRelease
<1> QED BY <1>3, <1>4, <1>5, <1>6, <1>7, <1>8 DEF writeHighSide

\* A thread that goes on, but not to sendMultiframeData.
LEMMA GotoKeepsUse ==
    ASSUME IInv, UseInv, NEW e \in End, NEW from, NEW to \in WriterPC \ {"data"},
           goto(e, from, to), NEW y, Holds(y, session),
           to = "estTimer" => y.sent.t # "I", link' = [link EXCEPT ![e] = y]
    PROVE  UseInv'
<1>1. PICK v \in Writer : /\ v.pc = to /\ v.ses = writer[e].ses
                         /\ writer' = [writer EXCEPT ![e] = v]
  BY GotoMoves
<1>2. Use(y, v, session) BY <1>1 DEF Use, Thread
<1> QED BY <1>1, <1>2, UseOneSide DEF goto

LEMMA establishKeepsUse ==
    ASSUME IInv, UseInv, NEW e \in End,
           setAwaitingEstablish(e) \/ sendUFrameSABM(e) \/ startT200(e) \/ readEstablish(e)
    PROVE  UseInv'
<1> DEFINE x == link[e]
           w == writer[e]
<1>1. x \in Endpoint /\ Holds(x, session) /\ (w.pc = "estTimer" => x.sent.t # "I")
  BY UseFacts DEF Use, Thread
<1>2. {"idle", "estSABM", "estTimer", "estRead"} \subseteq WriterPC \ {"data"}
  BY DEF WriterPC
<1>3. CASE setAwaitingEstablish(e)
  <2> DEFINE c == clearCounters(x)
             y == [c EXCEPT !.state = "AwaitingEstablish"]
  <2>1. link' = [link EXCEPT ![e] = y] /\ goto(e, "estSet", "estSABM")
    BY <1>3 DEF setAwaitingEstablish
  <2>2. c \in Endpoint /\ Holds(c, session)
    BY <1>1, ClearCountersType, ClearCountersQuiet, QuietKeeps DEF Kept
  <2> HIDE DEF c
  <2>3. Quiet(c, y) BY <2>2 DEF Quiet, Unused, Endpoint, LAPDState
  <2> HIDE DEF y
  <2>4. Holds(y, session) BY <2>2, <2>3, QuietKeeps DEF Kept
  <2> QED BY <1>2, <2>1, <2>4, GotoKeepsUse
<1>4. CASE sendUFrameSABM(e)
  <2> DEFINE f == SABM(x, IF e = "ms" THEN Access ELSE NoInfo)
             b == [x EXCEPT !.sent = f]
             y == writeL1(b, f)
  <2>1. f \in Frame /\ f.t = "SABM"
    BY <1>1, InfoAssumption, SABMType DEF Identity, SABM, UFrame, MkFrame
  <2>2. \/ goto(e, "estSABM", "estTimer") /\ link' = [link EXCEPT ![e] = y]
        \/ goto(e, "estSABM", "estRead") /\ link' = [link EXCEPT ![e] = writeL1Ack(x, f)]
    BY <1>4 DEF sendUFrameSABM
  <2> HIDE DEF f
  <2>3. /\ b \in Endpoint /\ b.sent = f /\ b.tx = x.tx /\ b.rx = x.rx
        /\ b.recvBuffer = x.recvBuffer /\ b.state = x.state /\ b.l1 = x.l1 /\ b.check = x.check
    BY <1>1, <2>1 DEF Endpoint
  <2> HIDE DEF b
  <2>4. Holds(b, session) BY <1>1, <2>1, <2>3 DEF Holds, Fits, Unused
  <2>5. Fits(f, b, session) BY <2>1 DEF Fits
  <2>6. Holds(y, session) /\ y.sent = f BY <2>1, <2>3, <2>4, <2>5, WriteKeeps DEF Kept
  <2> HIDE DEF y
  <2>7. Holds(writeL1Ack(x, f), session) BY <1>1, <2>1, WriteAckHolds
  <2>8. CASE goto(e, "estSABM", "estTimer") /\ link' = [link EXCEPT ![e] = y]
    BY <1>2, <2>1, <2>6, <2>8, GotoKeepsUse
  <2>9. CASE goto(e, "estSABM", "estRead") /\ link' = [link EXCEPT ![e] = writeL1Ack(x, f)]
    BY <1>2, <2>7, <2>9, GotoKeepsUse
  <2> QED BY <2>2, <2>8, <2>9
<1>5. CASE startT200(e)
  <2> DEFINE z == [x EXCEPT !.t200 = TRUE]
  <2>1. link' = [link EXCEPT ![e] = z] /\ goto(e, "estTimer", "estRead")
    BY <1>5 DEF startT200, IInv
  <2>2. w.pc = "estTimer" BY <2>1 DEF goto
  <2>3. /\ z.sent = x.sent /\ z.tx = x.tx /\ z.rx = x.rx /\ z.recvBuffer = x.recvBuffer
        /\ z.state = x.state /\ z.l1 = x.l1 /\ z.check = x.check
    BY <1>1 DEF Endpoint
  <2> HIDE DEF z
  <2>4. Holds(z, session) BY <1>1, <2>2, <2>3 DEF Holds, Fits, Unused
  <2> QED BY <1>2, <2>1, <2>4, GotoKeepsUse
<1>6. CASE readEstablish(e)
  <2>1. goto(e, "estRead", "idle") /\ UNCHANGED link BY <1>6 DEF readEstablish
  <2>2. link = [link EXCEPT ![e] = x] BY DEF IInv
  <2> QED BY <1>1, <1>2, <2>1, <2>2, GotoKeepsUse
<1> QED BY <1>3, <1>4, <1>5, <1>6

LEMMA StartReleaseHolds ==
    ASSUME NEW x \in Endpoint, NEW s, Holds(x, s) PROVE Holds(startRelease(x), s)
<1> DEFINE c == clearCounters(x)
           r == [c EXCEPT !.eip = FALSE, !.state = "AwaitingRelease"]
           f == UFrame("DISC", CBit(r), TRUE, NoInfo)
<1>1. c \in Endpoint /\ Holds(c, s)
  BY ClearCountersType, ClearCountersQuiet, QuietKeeps DEF Kept
<1>2. startRelease(x) = writeL1Ack(r, f) BY DEF startRelease, sendUFrameDISC
<1> HIDE DEF c
<1>3. r \in Endpoint /\ Quiet(c, r)
  BY <1>1 DEF Quiet, Unused, Endpoint, LAPDState
<1> HIDE DEF r
<1>4. f \in Frame /\ f.t = "DISC"
  BY <1>3, Bits, UFrameType DEF Identity, UFrame, MkFrame
<1> HIDE DEF f
<1>5. Holds(r, s) BY <1>1, <1>3, QuietKeeps DEF Kept
<1> QED BY <1>2, <1>3, <1>4, <1>5, WriteAckHolds

LEMMA releaseKeepsUse ==
    ASSUME IInv, UseInv, NEW e \in End,
           lockForRelease(e) \/ ackThenRelease(e) \/ releaseReturns(e)
    PROVE  UseInv'
<1> DEFINE x == link[e]
           y == startRelease(x)
<1>1. x \in Endpoint /\ Holds(x, session) /\ link = [link EXCEPT ![e] = x]
  BY UseFacts DEF Use, IInv
<1>2. {"idle", "relWait", "relDone"} \subseteq WriterPC \ {"data"} BY DEF WriterPC
<1>3. Holds(y, session) BY <1>1, StartReleaseHolds
<1>4. \/ UNCHANGED link /\ (goto(e, "relLock", "relWait") \/ goto(e, "relDone", "idle"))
      \/ /\ link' = [link EXCEPT ![e] = y]
         /\ goto(e, "relLock", "relDone") \/ goto(e, "relWait", "relDone")
  BY DEF lockForRelease, ackThenRelease, releaseReturns
<1> HIDE DEF y
<1> QED BY <1>1, <1>2, <1>3, <1>4, GotoKeepsUse
-----------------------------------------------------------------------------
(***************************************************************************)
(* The next use, and the theorems.                                         *)
(***************************************************************************)
LEMMA NewHolds ==
    ASSUME NEW c \in {0, 1}, NEW s PROVE Holds(newEndpoint(c), s)
  BY DEF Holds, newEndpoint, UFrame, MkFrame

LEMMA openKeepsUse == ASSUME IInv, UseInv, open PROVE UseInv'
<1> DEFINE b == opened(link["bts"])
           m == newEndpoint(0)
           v == newWriter(writer["ms"].count, session')
<1>1. /\ "bts" \in End /\ link["bts"] \in Endpoint
      /\ Use(link["bts"], writer["bts"], session)
  BY UseFacts DEF End
<1>2. /\ b.tx = <<>> /\ b.rx = <<>> /\ b.recvBuffer = <<>> /\ ~b.t200 /\ b.discard
      /\ b.sent = link["bts"].sent
  BY <1>1 DEF opened, clearCounters, Endpoint
<1>3. v.pc = "idle" BY DEF newWriter
<1>4. /\ link'["bts"] = b /\ link'["ms"] = m
      /\ writer'["bts"] = writer["bts"] /\ writer'["ms"] = v
  BY DEF open, IInv, End
<1>5. Holds(m, session') BY NewHolds
<1> HIDE DEF b, m, v
<1>6. Use(b, writer["bts"], session')
  BY <1>1, <1>2 DEF Use, Holds, Thread
<1>7. Use(m, v, session') BY <1>3, <1>5 DEF Use, Thread
<1> QED BY <1>4, <1>6, <1>7 DEF UseInv, End

LEMMA InitUse == ASSUME Init PROVE UseInv
<1> SUFFICES ASSUME NEW e \in End PROVE Use(link[e], writer[e], session)
  BY DEF UseInv
<1> DEFINE c == IF e = "bts" THEN 1 ELSE 0
<1>1. link[e] = newEndpoint(c) /\ writer[e] = newWriter(0, 0) BY DEF Init
<1>2. c \in {0, 1} OBVIOUS
<1>3. Holds(link[e], session) BY <1>1, <1>2, NewHolds
<1>4. writer[e].pc = "idle" BY <1>1 DEF newWriter
<1> QED BY <1>3, <1>4 DEF Use, Thread

LEMMA NextKeepsUse == ASSUME IInv, UseInv, [Next]_vars PROVE UseInv'
<1>1. CASE \E e \in End : serviceLoop(e)
  BY <1>1, firstFrameKeepsUse, frameArrivesKeepsUse, timerExpiresKeepsUse DEF serviceLoop
<1>2. CASE \E e \in End : threadSteps(e)
  BY <1>2, ackOrGiveUpKeepsUse, establishKeepsUse, releaseKeepsUse DEF threadSteps
<1>3. CASE \E e \in End : writeHighSide(e)
  BY <1>3, writeHighSideKeepsUse
<1>4. CASE \E e \in End : loseFrame(e)
  BY <1>4, loseFrameKeepsUse
<1>5. CASE rivalSABM
  BY <1>5, rivalSABMKeepsUse
<1>6. CASE open
  BY <1>6, openKeepsUse
<1>7. CASE UNCHANGED vars
  BY <1>7 DEF vars, UseInv
<1> QED BY <1>1, <1>2, <1>3, <1>4, <1>5, <1>6, <1>7 DEF Next

LEMMA UseInvariance == Spec => [](IInv /\ UseInv)
<1>1. Init => IInv /\ UseInv BY InitEstablishes, InitUse
<1>2. IInv /\ UseInv /\ [Next]_vars => (IInv /\ UseInv)' BY NextPreserves, NextKeepsUse
<1> QED BY <1>1, <1>2, PTL DEF Spec

\* Whatever is lost or late, and whatever a thread that was left in writeHighSide still
\* does, L3 is given nothing that was written in an earlier use of the channel: open
\* empties the buffers, discardIQueue stops the thread, and T200 repeats mSentFrame only
\* if it is of this use.
THEOREM NothingCrosses == Spec => []ThisSessionOnly
<1>1. IInv /\ UseInv => ThisSessionOnly
  BY DEF UseInv, Use, Holds, UnitOf, ThisSessionOnly
<1> QED BY <1>1, UseInvariance, PTL

\* In ContentionResolution every UA with an identity that SAP0 has on the air answers the
\* handset whose SABM was the first (receiveUFrameSABM, mContentionCheck).
THEOREM OnlyFirstAnswered == ASSUME Sapi = 0 PROVE Spec => []ContentionAnswersWinner
<1>1. IInv /\ UseInv => ContentionAnswersWinner
  BY DEF UseInv, Use, Holds, Fits, ContentionAnswersWinner, AnswersWinner, End
<1> QED BY <1>1, UseInvariance, PTL
-----------------------------------------------------------------------------
(***************************************************************************)
(* Whole messages, in order.  x sends, y receives.                         *)
(*                                                                         *)
(* Each I-frame on the way to y has one of three places: y accepted it     *)
(* last, y awaits it, or it comes one too early.  Along the radio link the *)
(* places only go forward.  An old N(R) can be taken for the               *)
(* acknowledgement of a frame that y has not accepted; then x goes on one  *)
(* frame too early.  It can not go on a second time: N(R) is then the old  *)
(* value or V(R) of y, and the new V(S) is neither.  With a modulus of at  *)
(* least 3 a frame that is too early is not taken for one accepted before, *)
(* so it is rejected, and what was missed is never overtaken.              *)
(***************************************************************************)
\* Multiframe operation, or nothing of it yet in this use of the channel.  An endpoint
\* that is neither will not be in it again before the channel is opened.
Live(x) == Up(x) \/ x.ind = "none"

\* An I-frame as the receiver y sees it: it was the last one accepted, it is the one
\* awaited, or it comes one too early.
Dup(f, y) == Mod(f.ns + 1) = y.VR
Awaited(f, y) == f.ns = y.VR
Early(f, y) == f.ns = Mod(y.VR + 1)

\* h comes next after g, in a message or as the first segment of a later one.
Follows(g, h) ==
    IF g.more THEN h.msg = g.msg /\ h.ses = g.ses /\ h.i = g.i + 1
    ELSE h.msg > g.msg /\ h.i = 1

\* g comes next after all that y has accepted.
Awaits(y, g) ==
    /\ g.i = Len(y.recvBuffer) + 1
    /\ y.recvBuffer # <<>> => g.msg = y.recvBuffer[1].msg /\ g.ses = y.recvBuffer[1].ses
    /\ \A k \in DOMAIN y.rx : Message(y.rx[k]) => y.rx[k][1].msg < g.msg

\* What the L3 thread w may send next: the segment it stands at, or the first one of a
\* message that is not written yet.
Active(x, w) == w.pc = "data" /\ Up(x) /\ ~x.discard
MayCome(x, w, h) == IF Active(x, w) THEN h = segmentOf(w) ELSE h.i = 1 /\ h.msg > w.count

Placed(f, y) ==
    /\ Dup(f, y) \/ Awaited(f, y) \/ Early(f, y)
    /\ Awaited(f, y) => Awaits(y, f.info)
\* f may be ahead of g on the radio link to y.
Ahead(f, g, y) ==
    /\ Early(f, y) => Early(g, y)
    /\ Awaited(f, y) => ~Dup(g, y)
    /\ Awaited(f, y) /\ Early(g, y) => Follows(f.info, g.info)

\* The I-frames on the way to y.
Data(q, y) ==
    /\ \A k \in DOMAIN q : q[k].t = "I" => Placed(q[k], y)
    /\ \A j, k \in DOMAIN q : j < k /\ q[j].t = "I" /\ q[k].t = "I" => Ahead(q[j], q[k], y)

\* What x may still send to y.  If y has not accepted all that x has sent, the last of it
\* is in mSentFrame.
Sends(x, w, y) ==
    /\ x.VS = y.VR =>
          /\ \A k \in DOMAIN x.tx : x.tx[k].t = "I" => Dup(x.tx[k], y)
          /\ \A h \in Segment : MayCome(x, w, h) => Awaits(y, h)
    /\ x.VS # y.VR =>
          /\ Up(x) /\ x.sent.t = "I" /\ Mod(x.sent.ns + 1) = x.VS
          /\ Placed(x.sent, y)
          /\ \A k \in DOMAIN x.tx : x.tx[k].t = "I" =>
                /\ Ahead(x.tx[k], x.sent, y)
                /\ x.tx[k].ns = x.sent.ns => x.tx[k].info = x.sent.info
          /\ \A h \in Segment : MayCome(x, w, h) => Follows(x.sent.info, h)

\* All N(R) that y has sent from its frame k on, or would repeat, are in S.
Quotes(y, k, S) ==
    /\ \A j \in DOMAIN y.tx : j >= k /\ CarriesAck(y.tx[j]) => y.tx[j].nr \in S
    /\ y.t200 /\ y.sent.t = "I" => y.sent.nr \in S

\* What x has taken for acknowledged, or will.  N(R) may be an old one (it is not renewed
\* in what is repeated) and pass for an acknowledgement of what y has not accepted.  That
\* lets x go on once, one frame too early, but not twice.
Acked(x, y) ==
    /\ x.VS = y.VR =>
          /\ x.VA = x.VS => \E n \in SeqNum : Quotes(y, 1, {n, x.VS})
          /\ \A k \in DOMAIN y.tx : CarriesAck(y.tx[k]) /\ y.tx[k].nr = x.VS =>
                \E n \in SeqNum : Quotes(y, k, {n, x.VS})
    /\ x.VS = Mod(y.VR + 1) =>
          /\ \E n \in SeqNum : Quotes(y, 1, {n, y.VR})
          /\ x.VA = x.VS => Quotes(y, 1, {x.VS, y.VR})
    /\ x.VS # y.VR /\ x.VS # Mod(y.VR + 1) =>
          /\ Quotes(y, 1, {Mod(y.VR + 1), y.VR})
          /\ x.VA \in {Mod(y.VR + 1), y.VR}

\* One direction of the link, from x with its thread w to y.
Half(x, w, y) ==
    Live(y) => /\ Data(x.tx, y)
               /\ Live(x) => Sends(x, w, y) /\ Acked(x, y)

\* What x was given and has buffered.
Received(x) ==
    /\ \A k \in DOMAIN x.rx : Message(x.rx[k]) => Whole(x.rx[k]) /\ x.rx[k] # <<>>
    /\ \A j, k \in DOMAIN x.rx :
          j < k /\ Message(x.rx[j]) /\ Message(x.rx[k]) => x.rx[j][1].msg < x.rx[k][1].msg
    /\ \A j \in DOMAIN x.recvBuffer :
          LET g == x.recvBuffer[j] IN
          /\ g.i = j /\ g.more
          /\ g.msg = x.recvBuffer[1].msg /\ g.ses = x.recvBuffer[1].ses
          /\ \A k \in DOMAIN x.rx : Message(x.rx[k]) => x.rx[k][1].msg < g.msg

\* An endpoint's own part.
Own(x) ==
    /\ Received(x)
    /\ x.ind = "none" => /\ ~Up(x) /\ x.VS = 0 /\ x.VA = 0 /\ x.VR = 0
                         /\ x.recvBuffer = <<>>
    /\ x.t200 /\ CarriesAck(x.sent) =>
          Up(x) /\ x.sent.t = "I" /\ Mod(x.sent.ns + 1) = x.VS
    /\ x.state = "AwaitingEstablish" /\ x.l1 # "closed" => x.ind = "none"

\* A thread that asks for the link will put its SABM in the place of no I-frame.
Asking(x, w) == w.pc \in {"estSet", "estSABM", "estTimer"} => ~CarriesAck(x.sent)

Both(x, w, y, v) == Own(x) /\ Half(x, w, y) /\ Half(y, v, x)
OrderInv ==
    \A e \in End : /\ Own(link[e]) /\ Half(link[e], writer[e], link[Peer(e)])
                   /\ Asking(link[e], writer[e])
-----------------------------------------------------------------------------
(***************************************************************************)
(* Lemmas about the places of I-frames and about the radio link.           *)
(***************************************************************************)
LEMMA OnePlace ==
    ASSUME NEW j \in SeqNum, NEW r \in SeqNum
    PROVE  /\ ~(Mod(j + 1) = r /\ j = r) /\ ~(Mod(j + 1) = r /\ j = Mod(r + 1))
           /\ ~(j = r /\ j = Mod(r + 1))
           /\ Mod(j + 1) = Mod(r + 1) => j = r
           /\ Mod(Mod(r + 1) + 1) \notin {r, Mod(r + 1)}
  BY SeqModAssumption DEF SeqNum, Mod

\* The places are three different ones, and accepting the awaited frame moves them.
LEMMA Places ==
    ASSUME NEW f \in Frame, NEW y \in Endpoint
    PROVE  /\ ~(Dup(f, y) /\ Awaited(f, y)) /\ ~(Dup(f, y) /\ Early(f, y))
           /\ ~(Awaited(f, y) /\ Early(f, y))
           /\ \A z \in Endpoint : z.VR = Mod(y.VR + 1) =>
                 /\ Dup(f, z) <=> Awaited(f, y)
                 /\ Awaited(f, z) <=> Early(f, y)
<1>1. f.ns \in SeqNum /\ y.VR \in SeqNum BY DEF Frame, Endpoint
<1>2. ASSUME NEW z \in Endpoint, z.VR = Mod(y.VR + 1)
      PROVE  /\ Dup(f, z) <=> Awaited(f, y)
             /\ Awaited(f, z) <=> Early(f, y)
  BY <1>1, <1>2, OnePlace DEF Dup, Awaited, Early
<1> QED BY <1>1, <1>2, OnePlace DEF Dup, Awaited, Early

\* Frame positions of the radio link: types.
LEMMA OnLink ==
    ASSUME NEW x \in Endpoint
    PROVE  /\ x.tx \in Seq(Frame) /\ Len(x.tx) \in Nat /\ DOMAIN x.tx = 1 .. Len(x.tx)
           /\ \A k \in DOMAIN x.tx : k \in Nat /\ k >= 1 /\ x.tx[k] \in Frame
           /\ x.sent \in Frame /\ x.VS \in SeqNum /\ x.VA \in SeqNum /\ x.VR \in SeqNum
           /\ Mod(x.VR + 1) \in SeqNum
<1>1. x.tx \in Seq(Frame) BY EndpointTypes
<1>2. x.VR \in SeqNum BY DEF Endpoint
<1> QED BY <1>1, <1>2, EndpointTypes, ModIsSeqNum

LEMMA DataAppend ==
    ASSUME NEW q \in Seq(Frame), NEW f \in Frame, NEW y, Data(q, y),
           f.t = "I" => /\ Placed(f, y)
                        /\ \A k \in DOMAIN q : q[k].t = "I" => Ahead(q[k], f, y)
    PROVE  Data(Append(q, f), y)
<1> DEFINE r == Append(q, f)
<1>1. Len(q) \in Nat OBVIOUS
<1>2. \A k \in DOMAIN r : /\ k \in Nat
                          /\ \/ k \in DOMAIN q /\ k < Len(q) + 1 /\ r[k] = q[k]
                             \/ k = Len(q) + 1 /\ r[k] = f
  BY AppendFacts
<1> HIDE DEF r
<1>3. ASSUME NEW k \in DOMAIN r, r[k].t = "I" PROVE Placed(r[k], y)
  BY <1>2, <1>3 DEF Data
<1>4. ASSUME NEW j \in DOMAIN r, NEW k \in DOMAIN r, j < k, r[j].t = "I", r[k].t = "I"
      PROVE  Ahead(r[j], r[k], y)
  <2>1. j \in DOMAIN q /\ r[j] = q[j] BY <1>1, <1>2, <1>4
  <2>2. CASE k \in DOMAIN q /\ r[k] = q[k] BY <1>4, <2>1, <2>2 DEF Data
  <2>3. CASE r[k] = f BY <1>4, <2>1, <2>3
  <2> QED BY <1>2, <2>2, <2>3
<1> QED BY <1>3, <1>4 DEF Data, r

LEMMA DataTail ==
    ASSUME NEW q \in Seq(Frame), q # <<>>, NEW y, Data(q, y) PROVE Data(Tail(q), y)
<1>1. \A k \in DOMAIN Tail(q) : /\ k \in Nat /\ k + 1 \in DOMAIN q
                                /\ Tail(q)[k] = q[k + 1]
  BY TailFacts
<1>2. ASSUME NEW j \in DOMAIN Tail(q), NEW k \in DOMAIN Tail(q), j < k PROVE j + 1 < k + 1
  BY <1>1, <1>2
<1> QED BY <1>1, <1>2 DEF Data

\* Two frames with the same number and segment have the same place.
LEMMA SamePlace ==
    ASSUME NEW f, NEW g, f.ns = g.ns, f.info = g.info, NEW y
    PROVE  /\ Placed(g, y) => Placed(f, y)
           /\ \A h : Ahead(h, g, y) => Ahead(h, f, y)
           /\ Dup(g, y) => Dup(f, y)
  BY DEF Placed, Ahead, Dup, Awaited, Early

\* To a frame of the same place, or to itself, a frame may be ahead.
LEMMA AheadOfItself ==
    ASSUME NEW f \in Frame, NEW y \in Endpoint PROVE Ahead(f, f, y)
  BY Places DEF Ahead
-----------------------------------------------------------------------------
(***************************************************************************)
(* A step of x, as the receiver and as the sender of I-frames.             *)
(***************************************************************************)
\* x has accepted nothing, and what it has said since quotes V(R), or is mSentFrame.
Quoted(x, n) == n = x.VR \/ (x.t200 /\ x.sent.t = "I" /\ n = x.sent.nr)
Answers(x, z) ==
    /\ z.VR = x.VR
    /\ z.tx = x.tx \/ \E f \in Frame : /\ z.tx = Append(x.tx, f)
                                       /\ CarriesAck(f) => Quoted(x, f.nr)
    /\ z.t200 /\ z.sent.t = "I" => Quoted(x, z.sent.nr)

\* What x quotes includes V(R), so a set with V(R) in it is not left.
LEMMA AnswersQuote ==
    ASSUME NEW x \in Endpoint, NEW z, Answers(x, z), NEW k \in Nat, NEW S, x.VR \in S,
           Quotes(x, k, S)
    PROVE  Quotes(z, k, S)
<1>1. \A n : Quoted(x, n) => n \in S BY DEF Quoted, Quotes
<1>2. ASSUME NEW j \in DOMAIN z.tx, j >= k, CarriesAck(z.tx[j]) PROVE z.tx[j].nr \in S
  <2>1. CASE z.tx = x.tx BY <1>2, <2>1 DEF Quotes
  <2>2. CASE z.tx # x.tx
    <3>1. PICK f \in Frame : /\ z.tx = Append(x.tx, f)
                             /\ CarriesAck(f) => Quoted(x, f.nr)
      BY <2>2 DEF Answers
    <3>2. (j \in DOMAIN x.tx /\ z.tx[j] = x.tx[j]) \/ z.tx[j] = f
      BY <1>2, <3>1, OnLink, AppendFacts
    <3> QED BY <1>1, <1>2, <3>1, <3>2 DEF Quotes
  <2> QED BY <2>1, <2>2
<1> QED BY <1>1, <1>2 DEF Quotes, Answers

LEMMA AnswersAcked ==
    ASSUME NEW x \in Endpoint, NEW y \in Endpoint, NEW z \in Endpoint, Answers(x, z),
           Acked(y, x)
    PROVE  Acked(y, z)
<1>1. z.VR = x.VR /\ x.VR \in SeqNum BY OnLink DEF Answers
<1>2. \A k \in Nat : \A S : x.VR \in S /\ Quotes(x, k, S) => Quotes(z, k, S)
  BY AnswersQuote
<1>3. ASSUME y.VS = x.VR, NEW k \in DOMAIN z.tx, CarriesAck(z.tx[k]), z.tx[k].nr = y.VS
      PROVE  \E n \in SeqNum : Quotes(z, k, {n, y.VS})
  <2>1. CASE k \in DOMAIN x.tx /\ z.tx[k] = x.tx[k]
    <3>1. PICK n \in SeqNum : Quotes(x, k, {n, y.VS}) BY <1>3, <2>1 DEF Acked
    <3>2. k \in Nat BY <2>1, OnLink
    <3> QED BY <1>2, <1>3, <3>1, <3>2
  <2>2. CASE ~(k \in DOMAIN x.tx /\ z.tx[k] = x.tx[k])
    <3>1. PICK f \in Frame : z.tx = Append(x.tx, f) BY <1>3, <2>2 DEF Answers
    <3>2. \A j \in DOMAIN z.tx : j \in Nat /\ (j >= k => j = k)
      <4>1. Len(x.tx) \in Nat /\ x.tx \in Seq(Frame) BY OnLink
      <4>2. \A j \in DOMAIN z.tx : /\ j \in Nat
                                   /\ \/ j \in DOMAIN x.tx /\ j < Len(x.tx) + 1 /\ z.tx[j] = x.tx[j]
                                      \/ j = Len(x.tx) + 1
        BY <3>1, <4>1, AppendFacts
      <4> QED BY <1>3, <2>2, <4>1, <4>2
    <3>3. z.sent \in Frame BY OnLink
    <3>4. CASE z.t200 /\ z.sent.t = "I"
      <4>1. z.sent.nr \in SeqNum BY <3>3 DEF Frame
      <4>2. Quotes(z, k, {z.sent.nr, y.VS}) BY <1>3, <3>2 DEF Quotes
      <4> QED BY <4>1, <4>2
    <3>5. CASE ~(z.t200 /\ z.sent.t = "I")
      <4>1. Quotes(z, k, {x.VR, y.VS}) BY <1>3, <3>2, <3>5 DEF Quotes
      <4> QED BY <1>1, <4>1
    <3> QED BY <3>4, <3>5
  <2> QED BY <2>1, <2>2
<1>4. ASSUME y.VS = z.VR, y.VA = y.VS PROVE \E n \in SeqNum : Quotes(z, 1, {n, y.VS})
  <2>1. PICK n \in SeqNum : Quotes(x, 1, {n, y.VS}) BY <1>1, <1>4 DEF Acked
  <2> QED BY <1>1, <1>2, <1>4, <2>1
<1>5. ASSUME y.VS = Mod(z.VR + 1)
      PROVE  /\ \E n \in SeqNum : Quotes(z, 1, {n, z.VR})
             /\ y.VA = y.VS => Quotes(z, 1, {y.VS, z.VR})
  <2>1. PICK n \in SeqNum : Quotes(x, 1, {n, x.VR}) BY <1>1, <1>5 DEF Acked
  <2>2. Quotes(z, 1, {n, z.VR}) BY <1>1, <1>2, <2>1
  <2>3. y.VA = y.VS => Quotes(x, 1, {y.VS, x.VR}) BY <1>1, <1>5 DEF Acked
  <2>4. y.VA = y.VS => Quotes(z, 1, {y.VS, z.VR}) BY <1>1, <1>2, <2>3
  <2> QED BY <2>2, <2>4
<1>6. ASSUME y.VS # z.VR, y.VS # Mod(z.VR + 1)
      PROVE  /\ Quotes(z, 1, {Mod(z.VR + 1), z.VR})
             /\ y.VA \in {Mod(z.VR + 1), z.VR}
  <2>1. Quotes(x, 1, {Mod(x.VR + 1), x.VR}) /\ y.VA \in {Mod(z.VR + 1), z.VR}
    BY <1>1, <1>6 DEF Acked
  <2> QED BY <1>1, <1>2, <2>1
<1> QED BY <1>1, <1>3, <1>4, <1>5, <1>6 DEF Acked

\* What z awaits is what x awaits.
SameWait(x, z) == z.VR = x.VR /\ \A g : Awaits(x, g) => Awaits(z, g)

LEMMA SameWaitIfSame ==
    ASSUME NEW x, NEW z, z.VR = x.VR, z.recvBuffer = x.recvBuffer, z.rx = x.rx
    PROVE  SameWait(x, z)
  BY DEF SameWait, Awaits

\* The half of the link towards x, if x accepts nothing.
LEMMA HalfTo ==
    ASSUME NEW x \in Endpoint, NEW y \in Endpoint, NEW v, NEW z \in Endpoint, Half(y, v, x),
           Answers(x, z), SameWait(x, z), Live(z) => Live(x)
    PROVE  Half(y, v, z)
<1> SUFFICES ASSUME Live(z)
             PROVE  Data(y.tx, z) /\ (Live(y) => Sends(y, v, z) /\ Acked(y, z))
  BY DEF Half
<1>1. Data(y.tx, x) /\ (Live(y) => Sends(y, v, x) /\ Acked(y, x)) BY DEF Half
<1>2. /\ \A f : Placed(f, x) => Placed(f, z)
      /\ \A f : Dup(f, x) => Dup(f, z)
      /\ \A f, g : Ahead(f, g, x) => Ahead(f, g, z)
  BY DEF SameWait, Placed, Ahead, Dup, Awaited, Early
<1>3. Data(y.tx, z) BY <1>1, <1>2 DEF Data
<1>4. z.VR = x.VR /\ \A g : Awaits(x, g) => Awaits(z, g) BY DEF SameWait
<1>5. Sends(y, v, x) => Sends(y, v, z) BY <1>2, <1>4 DEF Sends
<1>6. Acked(y, x) => Acked(y, z) BY AnswersAcked
<1> QED BY <1>1, <1>3, <1>5, <1>6

\* What x has sent since: nothing, no I-frame, or its last one again.
Repeats(x, z) ==
    \/ z.tx = x.tx
    \/ \E f \in Frame :
          /\ z.tx = Append(x.tx, f)
          /\ f.t = "I" => /\ x.t200 /\ x.sent.t = "I"
                          /\ f.ns = x.sent.ns /\ f.info = x.sent.info

\* The half of the link from x, if x sends no new I-frame.
LEMMA HalfFrom ==
    ASSUME NEW x \in Endpoint, NEW y \in Endpoint, NEW w, NEW z \in Endpoint, NEW v,
           Own(x), Half(x, w, y), Repeats(x, z), z.VS = x.VS, z.sent = x.sent \/ ~Up(x) \/ x.sent.t # "I",
           Live(z) => /\ Live(x) /\ (Up(x) => Up(z))
                      /\ \A h \in Segment : MayCome(z, v, h) => MayCome(x, w, h),
           Acked(x, y) => Acked(z, y)
    PROVE  Half(z, v, y)
<1> SUFFICES ASSUME Live(y)
             PROVE  Data(z.tx, y) /\ (Live(z) => Sends(z, v, y) /\ Acked(z, y))
  BY DEF Half
<1>1. Data(x.tx, y) /\ (Live(x) => Sends(x, w, y) /\ Acked(x, y)) BY DEF Half
<1>2. x.tx \in Seq(Frame) /\ x.sent \in Frame BY OnLink
<1>3. ASSUME NEW f \in Frame, z.tx = Append(x.tx, f), f.t = "I",
             x.t200, x.sent.t = "I", f.ns = x.sent.ns, f.info = x.sent.info
      PROVE  /\ Placed(f, y) /\ \A k \in DOMAIN x.tx : x.tx[k].t = "I" => Ahead(x.tx[k], f, y)
             /\ x.VS = y.VR => Dup(f, y)
             /\ x.VS # y.VR => Ahead(f, f, y)
             /\ Live(x)
  <2>1. Up(x) /\ Mod(x.sent.ns + 1) = x.VS /\ Live(x) BY <1>3 DEF Own, Live, CarriesAck
  <2>2. CASE x.VS = y.VR
    <3>1. Dup(f, y) BY <1>3, <2>1, <2>2 DEF Dup
    <3>2. ~Awaited(f, y) BY <3>1, Places
    <3>3. ASSUME NEW k \in DOMAIN x.tx, x.tx[k].t = "I" PROVE Ahead(x.tx[k], f, y)
      <4>1. Dup(x.tx[k], y) /\ x.tx[k] \in Frame BY <1>1, <2>1, <2>2, <3>3, OnLink DEF Sends
      <4> QED BY <4>1, Places DEF Ahead
    <3> QED BY <2>1, <2>2, <3>1, <3>2, <3>3 DEF Placed
  <2>3. CASE x.VS # y.VR
    <3>1. /\ Placed(x.sent, y)
          /\ \A k \in DOMAIN x.tx : x.tx[k].t = "I" => Ahead(x.tx[k], x.sent, y)
      BY <1>1, <2>1, <2>3 DEF Sends
    <3>2. Placed(f, y) /\ \A k \in DOMAIN x.tx : x.tx[k].t = "I" => Ahead(x.tx[k], f, y)
      BY <1>3, <3>1, SamePlace
    <3> QED BY <2>1, <2>3, <3>2, AheadOfItself
  <2> QED BY <2>2, <2>3
<1>4. CASE z.tx = x.tx
  <2>1. ASSUME Live(z) PROVE Sends(z, v, y)
    <3>1. Sends(x, w, y) /\ (x.VS # y.VR => z.sent = x.sent) BY <1>1, <2>1 DEF Sends
    <3> QED BY <1>4, <2>1, <3>1 DEF Sends
  <2> QED BY <1>1, <1>4, <2>1
<1>5. CASE z.tx # x.tx
  <2>1. PICK f \in Frame :
          /\ z.tx = Append(x.tx, f)
          /\ f.t = "I" => /\ x.t200 /\ x.sent.t = "I"
                          /\ f.ns = x.sent.ns /\ f.info = x.sent.info
    BY <1>5 DEF Repeats
  <2>2. Data(z.tx, y) BY <1>1, <1>2, <1>3, <2>1, DataAppend
  <2>3. \A k \in DOMAIN z.tx : (k \in DOMAIN x.tx /\ z.tx[k] = x.tx[k]) \/ z.tx[k] = f
    BY <1>2, <2>1, AppendFacts
  <2>4. ASSUME Live(z) PROVE Sends(z, v, y)
    <3>1. Sends(x, w, y) /\ (x.VS # y.VR => z.sent = x.sent) BY <1>1, <2>4 DEF Sends
    <3>2. ASSUME x.VS = y.VR, NEW k \in DOMAIN z.tx, z.tx[k].t = "I" PROVE Dup(z.tx[k], y)
      BY <1>3, <2>1, <2>3, <3>1, <3>2 DEF Sends
    <3>3. ASSUME x.VS # y.VR, NEW k \in DOMAIN z.tx, z.tx[k].t = "I"
          PROVE  /\ Ahead(z.tx[k], z.sent, y)
                 /\ z.tx[k].ns = z.sent.ns => z.tx[k].info = z.sent.info
      <4>1. CASE k \in DOMAIN x.tx /\ z.tx[k] = x.tx[k] BY <3>1, <3>3, <4>1 DEF Sends
      <4>2. CASE z.tx[k] = f
        <5>1. Ahead(f, f, y) /\ z.sent = x.sent /\ f.ns = z.sent.ns /\ f.info = z.sent.info
          BY <1>3, <2>1, <3>1, <3>3, <4>2
        <5>2. Ahead(f, z.sent, y) BY <5>1, SamePlace
        <5> QED BY <4>2, <5>1, <5>2
      <4> QED BY <2>3, <3>3, <4>1, <4>2
    <3> QED BY <2>4, <3>1, <3>2, <3>3 DEF Sends
  <2> QED BY <1>1, <2>2, <2>4
<1> QED BY <1>4, <1>5
-----------------------------------------------------------------------------
(***************************************************************************)
(* Steps that neither accept nor acknowledge anything.                     *)
(***************************************************************************)
Leads(x, z, w, y, v) == z \in Endpoint /\ (Both(x, w, y, v) => Both(z, w, y, v))

LEMMA LeadsRefl == ASSUME NEW x \in Endpoint, NEW w, NEW y, NEW v PROVE Leads(x, x, w, y, v)
  BY DEF Leads

LEMMA LeadsTrans ==
    ASSUME NEW x, NEW y, NEW z, NEW w, NEW p, NEW v, Leads(x, y, w, p, v), Leads(y, z, w, p, v)
    PROVE  Leads(x, z, w, p, v)
  BY DEF Leads

\* At most one frame was sent, which is no I-frame.
Tells(x, z) ==
    \/ z.tx = x.tx
    \/ \E f \in Frame : z.tx = Append(x.tx, f) /\ f.t # "I" /\ (CarriesAck(f) => f.nr = x.VR)

\* A state that waits for UA, before the first UA of this use.
StillWaits(x, z) ==
    z.state = "AwaitingEstablish" =>
        \/ z.l1 = "closed" \/ z.ind = "none"
        \/ x.state = "AwaitingEstablish" /\ x.l1 = z.l1 /\ x.ind = z.ind

\* The counters, the buffer and what was delivered stay.  Multiframe operation may begin,
\* but then no thread has anything to send.
Still(x, z) ==
    /\ z \in Endpoint
    /\ z.VS = x.VS /\ z.VA = x.VA /\ z.VR = x.VR
    /\ z.recvBuffer = x.recvBuffer /\ z.rx = x.rx
    /\ \/ z.sent = x.sent /\ (z.t200 => x.t200 /\ (Up(x) => Up(z)))
       \/ ~CarriesAck(z.sent) /\ (~Up(x) \/ x.sent.t # "I")
    /\ Tells(x, z) /\ StillWaits(x, z)
    /\ Live(z) => /\ Live(x) /\ (Up(x) => Up(z))
                  /\ (Up(z) /\ ~z.discard <=> Up(x) /\ ~x.discard)
    /\ z.ind = "none" => x.ind = "none" /\ (Up(z) => Up(x))

\* The end of it, until the channel is opened again.
Gone(x, z) ==
    /\ z \in Endpoint /\ ~Live(z)
    /\ z.recvBuffer \in {x.recvBuffer, <<>>} /\ z.rx = x.rx
    /\ ~(z.t200 /\ CarriesAck(z.sent))
    /\ Tells(x, z) /\ StillWaits(x, z)

LEMMA TellsRepeats ==
    ASSUME NEW x, NEW z, Tells(x, z)
    PROVE  /\ Repeats(x, z)
           /\ z.tx = x.tx \/ \E f \in Frame : /\ z.tx = Append(x.tx, f)
                                              /\ CarriesAck(f) => Quoted(x, f.nr)
  BY DEF Tells, Repeats, Quoted

LEMMA ReceivedSame ==
    ASSUME NEW x, NEW z, Received(x), z.rx = x.rx, z.recvBuffer \in {x.recvBuffer, <<>>}
    PROVE  Received(z)
<1>1. CASE z.recvBuffer = x.recvBuffer BY <1>1 DEF Received
<1>2. CASE z.recvBuffer = <<>> BY <1>2 DEF Received
<1> QED BY <1>1, <1>2

LEMMA StillLeads ==
    ASSUME NEW x \in Endpoint, NEW z, NEW w, NEW y \in Endpoint, NEW v, Still(x, z)
    PROVE  Leads(x, z, w, y, v)
<1>1. z \in Endpoint BY DEF Still
<1> SUFFICES ASSUME Own(x), Half(x, w, y), Half(y, v, x)
             PROVE  Own(z) /\ Half(z, w, y) /\ Half(y, v, z)
  BY <1>1 DEF Leads, Both
<1>2. Own(z)
  <2>1. Received(z) BY ReceivedSame DEF Still, Own
  <2> QED BY <2>1 DEF Own, Still, StillWaits
<1>3. Half(z, w, y)
  <2>1. Live(z) => \A h \in Segment : MayCome(z, w, h) => MayCome(x, w, h)
    BY DEF Still, MayCome, Active
  <2>2. Acked(x, y) => Acked(z, y) BY DEF Still, Acked
  <2> QED BY <1>1, <2>1, <2>2, TellsRepeats, HalfFrom DEF Still
<1>4. Half(y, v, z)
  <2>1. z.t200 /\ z.sent.t = "I" => Quoted(x, z.sent.nr) BY DEF Still, Quoted, CarriesAck
  <2>2. Answers(x, z) BY <2>1, TellsRepeats DEF Answers, Still
  <2> QED BY <1>1, <2>2, HalfTo, SameWaitIfSame DEF Still
<1> QED BY <1>2, <1>3, <1>4

LEMMA GoneIsLed ==
    ASSUME NEW x \in Endpoint, NEW z, NEW w, NEW y \in Endpoint, NEW v, Gone(x, z)
    PROVE  Leads(x, z, w, y, v)
<1> SUFFICES ASSUME Both(x, w, y, v) PROVE Both(z, w, y, v) BY DEF Leads, Gone
<1>1. z \in Endpoint /\ Own(x) /\ Half(x, w, y) BY DEF Gone, Both
<1>2. Own(z)
  <2>1. Received(z) BY <1>1, ReceivedSame DEF Gone, Own
  <2>2. z.ind # "none" BY DEF Gone, Live
  <2> QED BY <1>1, <2>1, <2>2 DEF Own, Gone, StillWaits
<1>3. ASSUME Live(y) PROVE Data(z.tx, y)
  <2>1. Data(x.tx, y) BY <1>1, <1>3 DEF Half
  <2>2. x.tx \in Seq(Frame) BY OnLink
  <2> QED BY <2>1, <2>2, DataAppend DEF Gone, Tells
<1> QED BY <1>2, <1>3 DEF Both, Half, Gone
-----------------------------------------------------------------------------
(***************************************************************************)
(* An acknowledgement, and the frame that is awaited.                      *)
(***************************************************************************)
\* f is the next frame from y.
IsNext(f, y) == y.tx # <<>> /\ f = Head(y.tx)

LEMMA NextFacts ==
    ASSUME NEW y \in Endpoint, NEW f, IsNext(f, y)
    PROVE  f \in Frame /\ 1 \in DOMAIN y.tx /\ y.tx[1] = f
  BY OnLink, TailFacts DEF IsNext

LEMMA AckLeads ==
    ASSUME NEW x \in Endpoint, NEW w, NEW y \in Endpoint, NEW v, NEW f, IsNext(f, y),
           CarriesAck(f), Up(x)
    PROVE  Leads(x, processAck(x, f.nr), w, y, v) /\ Up(processAck(x, f.nr))
<1> DEFINE n == f.nr
           z == processAck(x, n)
<1>1. f \in Frame /\ 1 \in DOMAIN y.tx /\ y.tx[1] = f /\ n \in SeqNum
  BY NextFacts DEF Frame
<1>2. /\ z \in Endpoint /\ z.VA = n /\ z.VS = x.VS /\ z.VR = x.VR
      /\ z.recvBuffer = x.recvBuffer /\ z.rx = x.rx /\ z.tx = x.tx /\ z.sent = x.sent
      /\ z.state = x.state /\ z.ind = x.ind /\ z.l1 = x.l1 /\ z.discard = x.discard
      /\ z.t200 => x.t200
  BY <1>1, Zeros DEF processAck, Endpoint
<1> HIDE DEF z
<1>3. Up(z) BY <1>2 DEF Up
<1> SUFFICES ASSUME Own(x), Half(x, w, y), Half(y, v, x)
             PROVE  Own(z) /\ Half(z, w, y) /\ Half(y, v, z)
  BY <1>2, <1>3 DEF Leads, Both, z
<1>4. Acked(x, y) => Acked(z, y)
  <2> SUFFICES ASSUME Acked(x, y) PROVE Acked(z, y) OBVIOUS
  <2>1. x.VS \in SeqNum /\ y.VR \in SeqNum BY OnLink
  <2>2. ASSUME z.VS = y.VR, n = x.VS PROVE \E m \in SeqNum : Quotes(y, 1, {m, z.VS})
    BY <1>1, <1>2, <2>2 DEF Acked
  <2>3. ASSUME NEW S, Quotes(y, 1, S) PROVE n \in S
    BY <1>1, <2>3 DEF Quotes
  <2>4. ASSUME x.VS = Mod(y.VR + 1), n = x.VS PROVE Quotes(y, 1, {x.VS, y.VR})
    <3>1. x.VS # y.VR BY <2>1, <2>4, NextNumber
    <3>2. PICK m \in SeqNum : Quotes(y, 1, {m, y.VR}) BY <2>4 DEF Acked
    <3>3. n \in {m, y.VR} BY <2>3, <3>2
    <3>4. n = m BY <2>4, <3>1, <3>3
    <3> QED BY <2>4, <3>2, <3>4
  <2>5. ASSUME x.VS # y.VR, x.VS # Mod(y.VR + 1) PROVE n \in {Mod(y.VR + 1), y.VR}
    <3>1. Quotes(y, 1, {Mod(y.VR + 1), y.VR}) BY <2>5 DEF Acked
    <3> QED BY <2>3, <3>1
  <2> HIDE DEF n
  <2> QED BY <1>2, <2>2, <2>4, <2>5 DEF Acked
<1> HIDE DEF n
<1>5. Own(z)
  <2>1. Received(z) BY <1>2, ReceivedSame DEF Own
  <2>2. x.ind # "none" BY DEF Own
  <2>3. z.state # "AwaitingEstablish" BY <1>3 DEF Up, Multiframe
  <2> QED BY <1>2, <1>3, <2>1, <2>2, <2>3 DEF Own
<1>6. Live(x) /\ Live(z) BY <1>3 DEF Live
<1>7. Half(z, w, y)
  <2>1. \A h \in Segment : MayCome(z, w, h) => MayCome(x, w, h)
    BY <1>2, <1>3 DEF MayCome, Active
  <2> QED BY <1>2, <1>3, <1>4, <1>6, <2>1, HalfFrom DEF Repeats
<1>8. Half(y, v, z)
  <2>1. Answers(x, z) BY <1>2 DEF Answers, Quoted
  <2> QED BY <1>2, <1>6, <2>1, HalfTo, SameWaitIfSame
<1> QED BY <1>5, <1>7, <1>8
\* What is put behind the buffer and passes to L3 if it is the last of its message.
LEMMA AppendToBuffer ==
    ASSUME NEW q \in Seq(Segment), NEW g \in Segment
    PROVE  /\ Append(q, g) \in Seq(Segment) /\ Append(q, g) # <<>>
           /\ Len(Append(q, g)) = Len(q) + 1 /\ Len(q) \in Nat
           /\ Append(q, g)[1] = IF q = <<>> THEN g ELSE q[1]
           /\ \A j \in DOMAIN Append(q, g) :
                 /\ j \in Nat
                 /\ \/ j \in DOMAIN q /\ j < Len(q) + 1 /\ Append(q, g)[j] = q[j]
                    \/ j = Len(q) + 1 /\ Append(q, g)[j] = g
<1>1. /\ Append(q, g) \in Seq(Segment) /\ Len(Append(q, g)) = Len(q) + 1
      /\ \A k \in 1 .. Len(q) : Append(q, g)[k] = q[k]
      /\ Append(q, g)[Len(q) + 1] = g
  BY AppendProperties
<1>2. DOMAIN q = 1 .. Len(q) /\ Len(q) \in Nat /\ DOMAIN Append(q, g) = 1 .. Len(q) + 1
  BY <1>1
<1>3. Append(q, g)[1] = IF q = <<>> THEN g ELSE q[1]
  <2>1. CASE q = <<>> BY <1>1, <2>1
  <2>2. CASE q # <<>>
    <3>1. 1 \in 1 .. Len(q) BY <1>2, <2>2, EmptySeq
    <3> QED BY <1>1, <2>2, <3>1
  <2> QED BY <2>1, <2>2
<1> QED BY <1>1, <1>2, <1>3, EmptySeq

LEMMA AppendToUnits ==
    ASSUME NEW r \in DeliveredUnits, NEW u \in Seq(Segment \union Handsets)
    PROVE  \A k \in DOMAIN Append(r, u) :
              /\ k \in Nat
              /\ \/ k \in DOMAIN r /\ k < Len(r) + 1 /\ Append(r, u)[k] = r[k]
                 \/ k = Len(r) + 1 /\ Append(r, u)[k] = u
<1>1. r \in Seq(Seq(Segment \union Handsets)) BY DEF DeliveredUnits
<1>2. /\ Append(r, u) \in Seq(Seq(Segment \union Handsets)) /\ Len(Append(r, u)) = Len(r) + 1
      /\ \A k \in 1 .. Len(r) : Append(r, u)[k] = r[k]
      /\ Append(r, u)[Len(r) + 1] = u
  BY <1>1, AppendProperties
<1>3. DOMAIN r = 1 .. Len(r) /\ Len(r) \in Nat /\ DOMAIN Append(r, u) = 1 .. Len(r) + 1
  BY <1>1, <1>2
<1> QED BY <1>2, <1>3

\* bufferIFrameData with the segment that is awaited.
LEMMA Buffers ==
    ASSUME NEW x \in Endpoint, NEW g \in Segment, Received(x), Awaits(x, g)
    PROVE  LET z == bufferIFrameData(x, g)
           IN  Received(z) /\ \A h \in Segment : Follows(g, h) => Awaits(z, h)
<1> DEFINE b == x.recvBuffer
           q == Append(b, g)
           z == bufferIFrameData(x, g)
<1>1. b \in Seq(Segment) /\ x.rx \in DeliveredUnits
  BY DEF Endpoint, RecvBuffer
<1>2. /\ q \in Seq(Segment) /\ q # <<>> /\ Len(q) = Len(b) + 1 /\ Len(b) \in Nat
      /\ q[1] = IF b = <<>> THEN g ELSE b[1]
      /\ \A j \in DOMAIN q : /\ j \in Nat
                             /\ \/ j \in DOMAIN b /\ j < Len(b) + 1 /\ q[j] = b[j]
                                \/ j = Len(b) + 1 /\ q[j] = g
  BY <1>1, AppendToBuffer
<1> HIDE DEF q
<1>3. /\ g.i = Len(b) + 1 /\ q[1].msg = g.msg /\ q[1].ses = g.ses
      /\ \A k \in DOMAIN x.rx : Message(x.rx[k]) => x.rx[k][1].msg < g.msg
  BY <1>2 DEF Awaits
<1>4. \A j \in DOMAIN b : /\ b[j].i = j /\ b[j].more
                          /\ b[j].msg = b[1].msg /\ b[j].ses = b[1].ses
                          /\ b # <<>>
  BY DEF Received
<1>5. \A j \in DOMAIN q : /\ q[j].i = j /\ q[j].msg = g.msg /\ q[j].ses = g.ses
                          /\ q[j].more <=> j < Len(q) \/ g.more
  BY <1>2, <1>3, <1>4
<1>6. g.more \in BOOLEAN /\ g.msg \in Nat /\ g.i \in Nat
  BY BoundsAssumption DEF Segment
<1>7. CASE g.more
  <2>1. z.recvBuffer = q /\ z.rx = x.rx
    <3>1. z = [x EXCEPT !.recvBuffer = q] BY <1>7 DEF bufferIFrameData, q
    <3> HIDE DEF z
    <3> QED BY <3>1 DEF Endpoint
  <2> HIDE DEF z, b
  <2>2. Received(z) BY <1>3, <1>5, <1>7, <2>1 DEF Received
  <2>3. ASSUME NEW h \in Segment, Follows(g, h) PROVE Awaits(z, h)
    BY <1>2, <1>3, <1>7, <2>1, <2>3 DEF Awaits, Follows
  <2> QED BY <2>2, <2>3 DEF z
<1>8. CASE ~g.more
  <2>1. z.recvBuffer = <<>> /\ z.rx = Append(x.rx, q)
    <3>1. z = [[x EXCEPT !.recvBuffer = <<>>] EXCEPT !.rx = Append(x.rx, q)]
      BY <1>8 DEF bufferIFrameData, deliver, Endpoint, q
    <3> HIDE DEF z
    <3> QED BY <3>1 DEF Endpoint
  <2> HIDE DEF z, b
  <2>2. \A k \in DOMAIN z.rx :
           /\ k \in Nat
           /\ \/ k \in DOMAIN x.rx /\ k < Len(x.rx) + 1 /\ z.rx[k] = x.rx[k]
              \/ k = Len(x.rx) + 1 /\ z.rx[k] = q
    <3>1. q \in Seq(Segment \union Handsets) BY <1>2
    <3> QED BY <1>1, <2>1, <3>1, AppendToUnits
  <2>3. Whole(q) BY <1>3, <1>5, <1>8 DEF Whole
  <2>4. ASSUME NEW k \in DOMAIN z.rx, Message(z.rx[k])
        PROVE  /\ Whole(z.rx[k]) /\ z.rx[k] # <<>> /\ z.rx[k][1].msg \in Int
               /\ z.rx[k][1].msg <= g.msg
    <3>1. CASE k \in DOMAIN x.rx /\ z.rx[k] = x.rx[k]
      <4>1. Whole(z.rx[k]) /\ z.rx[k] # <<>> /\ z.rx[k][1].msg < g.msg
        BY <1>3, <2>4, <3>1 DEF Received
      <4>2. z.rx[k] \in Seq(Segment \union Handsets) BY <1>1, <3>1 DEF DeliveredUnits
      <4>3. z.rx[k][1] \in Segment BY <2>4, <4>1, <4>2, EmptySeq DEF Message
      <4>4. z.rx[k][1].msg \in Int BY <4>3, BoundsAssumption DEF Segment
      <4> QED BY <1>6, <4>1, <4>4
    <3>2. CASE z.rx[k] = q BY <1>2, <1>3, <1>6, <2>3, <3>2
    <3> QED BY <2>2, <3>1, <3>2
  <2>5. ASSUME NEW j \in DOMAIN z.rx, NEW k \in DOMAIN z.rx, j < k,
               Message(z.rx[j]), Message(z.rx[k])
        PROVE  z.rx[j][1].msg < z.rx[k][1].msg
    <3>1. Len(x.rx) \in Nat BY <1>1 DEF DeliveredUnits
    <3>2. j \in DOMAIN x.rx /\ z.rx[j] = x.rx[j] BY <2>2, <2>5, <3>1
    <3>3. CASE k \in DOMAIN x.rx /\ z.rx[k] = x.rx[k] BY <2>5, <3>2, <3>3 DEF Received
    <3>4. CASE z.rx[k] = q BY <1>3, <2>5, <3>2, <3>4
    <3> QED BY <2>2, <3>3, <3>4
  <2>6. Received(z) BY <2>1, <2>4, <2>5 DEF Received
  <2>7. ASSUME NEW h \in Segment, Follows(g, h) PROVE Awaits(z, h)
    <3>1. h.i = 1 /\ h.msg > g.msg /\ h.msg \in Int
      BY <1>8, <2>7, BoundsAssumption DEF Follows, Segment
    <3>2. \A k \in DOMAIN z.rx : Message(z.rx[k]) => z.rx[k][1].msg < h.msg
      BY <1>6, <2>4, <3>1
    <3> QED BY <2>1, <3>1, <3>2 DEF Awaits
  <2> QED BY <2>6, <2>7 DEF z
<1> QED BY <1>7, <1>8

\* receiveIFrame with the frame that is awaited: V(R) goes on, and so do the places.
LEMMA AcceptLeads ==
    ASSUME NEW x \in Endpoint, NEW w, NEW y \in Endpoint, NEW v, NEW f, IsNext(f, y),
           f.t = "I", f.ns = x.VR, Up(x)
    PROVE  Leads(x, bufferIFrameData([x EXCEPT !.VR = Mod(x.VR + 1)], f.info), w, y, v)
<1> DEFINE u == [x EXCEPT !.VR = Mod(x.VR + 1)]
           z == bufferIFrameData(u, f.info)
<1>1. /\ f \in Frame /\ f.info \in Segment /\ 1 \in DOMAIN y.tx /\ y.tx[1] = f
      /\ x.VR \in SeqNum /\ Mod(x.VR + 1) \in SeqNum
  BY NextFacts, OnLink DEF Frame
<1>2. /\ u \in Endpoint /\ u.VR = Mod(x.VR + 1) /\ u.recvBuffer = x.recvBuffer
      /\ u.rx = x.rx /\ u.state = x.state /\ u.l1 = x.l1 /\ u.ind = x.ind
      /\ u.VS = x.VS /\ u.VA = x.VA /\ u.t200 = x.t200 /\ u.sent = x.sent
      /\ u.tx = x.tx /\ u.discard = x.discard
  BY <1>1 DEF Endpoint
<1> HIDE DEF u
<1>3. /\ z \in Endpoint /\ z.VR = Mod(x.VR + 1) /\ z.state = x.state /\ z.l1 = x.l1
      /\ z.ind = x.ind /\ z.VS = x.VS /\ z.VA = x.VA /\ z.t200 = x.t200
      /\ z.sent = x.sent /\ z.tx = x.tx
  BY <1>1, <1>2, BufferFields
<1>4. z.discard = x.discard
  <2>1. z.discard = u.discard BY <1>2 DEF bufferIFrameData, deliver, Endpoint
  <2> QED BY <1>2, <2>1
<1> SUFFICES ASSUME Own(x), Half(x, w, y), Half(y, v, x)
             PROVE  Own(z) /\ Half(z, w, y) /\ Half(y, v, z)
  BY <1>3 DEF Leads, Both, u
<1>5. Up(z) /\ Live(x) /\ Live(z) BY <1>3 DEF Up, Live
<1>6. Data(y.tx, x) /\ (Live(y) => Sends(y, v, x) /\ Acked(y, x)) BY <1>5 DEF Half
<1>7. Awaited(f, x) BY DEF Awaited
<1>8. Received(z) /\ \A h \in Segment : Follows(f.info, h) => Awaits(z, h)
  <2>1. Awaits(x, f.info) BY <1>1, <1>6, <1>7 DEF Data, Placed
  <2>2. Received(u) BY <1>2, ReceivedSame DEF Own
  <2>3. Awaits(u, f.info) BY <1>2, <2>1 DEF Awaits
  <2> QED BY <1>1, <1>2, <2>2, <2>3, Buffers
<1> HIDE DEF z
<1>9. Own(z)
  <2>1. x.ind # "none" /\ z.state # "AwaitingEstablish" BY <1>5 DEF Own, Up, Multiframe
  <2> QED BY <1>3, <1>5, <1>8, <2>1 DEF Own
<1>10. Half(z, w, y)
  <2>1. \A h \in Segment : MayCome(z, w, h) => MayCome(x, w, h)
    BY <1>4, <1>5 DEF MayCome, Active
  <2>2. Acked(x, y) => Acked(z, y) BY <1>3 DEF Acked
  <2> QED BY <1>3, <1>5, <2>1, <2>2, HalfFrom DEF Repeats
\* What was awaited has been accepted, and what came too early is awaited.
<1>11. \A g \in Frame : /\ Dup(g, z) <=> Awaited(g, x)
                        /\ Awaited(g, z) <=> Early(g, x)
                        /\ ~(Awaited(g, z) /\ Dup(g, z)) /\ ~(Awaited(g, z) /\ Early(g, z))
                        /\ ~(Dup(g, z) /\ Early(g, z)) /\ ~(Awaited(g, x) /\ Early(g, x))
                        /\ ~(Dup(g, x) /\ Awaited(g, x))
  BY <1>3, Places
<1>12. ASSUME NEW g \in Frame, g.t = "I", Placed(g, x), g = f \/ Ahead(f, g, x)
       PROVE  Placed(g, z) /\ ~Early(g, z)
  <2>1. Awaited(g, x) \/ (Early(g, x) /\ Follows(f.info, g.info))
    BY <1>7, <1>11, <1>12 DEF Placed, Ahead
  <2>2. g.info \in Segment BY <1>12 DEF Frame
  <2>3. Early(g, x) => Awaits(z, g.info) BY <1>8, <1>11, <2>1, <2>2
  <2> QED BY <1>11, <2>1, <2>3 DEF Placed
<1>13. \A k \in DOMAIN y.tx : y.tx[k].t = "I" =>
          y.tx[k] \in Frame /\ Placed(y.tx[k], z) /\ ~Early(y.tx[k], z)
  <2> SUFFICES ASSUME NEW k \in DOMAIN y.tx, y.tx[k].t = "I"
               PROVE  y.tx[k] \in Frame /\ Placed(y.tx[k], z) /\ ~Early(y.tx[k], z)
    OBVIOUS
  <2>1. k \in Nat /\ k >= 1 /\ y.tx[k] \in Frame BY OnLink
  <2>2. k = 1 \/ 1 < k BY <2>1
  <2>3. y.tx[k] = f \/ Ahead(f, y.tx[k], x) BY <1>1, <1>6, <2>2 DEF Data
  <2>4. Placed(y.tx[k], x) BY <1>6 DEF Data
  <2> QED BY <1>12, <2>1, <2>3, <2>4
<1>14. Data(y.tx, z)
  <2>1. ASSUME NEW j \in DOMAIN y.tx, NEW k \in DOMAIN y.tx, j < k,
               y.tx[j].t = "I", y.tx[k].t = "I"
        PROVE  Ahead(y.tx[j], y.tx[k], z)
    <3>1. Early(y.tx[j], x) => Early(y.tx[k], x) BY <1>6, <2>1 DEF Data, Ahead
    <3> QED BY <1>11, <1>13, <2>1, <3>1 DEF Ahead
  <2> QED BY <1>13, <2>1 DEF Data
<1>15. ASSUME Live(y) PROVE Sends(y, v, z) /\ Acked(y, z)
  <2>1. Sends(y, v, x) /\ Acked(y, x) BY <1>6, <1>15
  <2>2. y.VS # x.VR
    <3>1. ~Dup(f, x) BY <1>1, <1>7, <1>11
    <3> QED BY <1>1, <2>1, <3>1 DEF Sends
  <2>3. /\ Up(y) /\ y.sent.t = "I" /\ Mod(y.sent.ns + 1) = y.VS /\ Placed(y.sent, x)
        /\ \A k \in DOMAIN y.tx : y.tx[k].t = "I" =>
              /\ Ahead(y.tx[k], y.sent, x)
              /\ y.tx[k].ns = y.sent.ns => y.tx[k].info = y.sent.info
        /\ \A h \in Segment : MayCome(y, v, h) => Follows(y.sent.info, h)
    BY <2>1, <2>2 DEF Sends
  <2>4. y.sent \in Frame /\ y.sent.ns \in SeqNum BY OnLink DEF Frame
  <2>5. Ahead(f, y.sent, x) BY <1>1, <2>3
  <2>6. Placed(y.sent, z) /\ ~Early(y.sent, z) BY <1>12, <2>3, <2>4, <2>5
  <2>7. Awaited(y.sent, x) <=> y.VS = z.VR
    BY <1>1, <1>3, <2>3, <2>4, NextNumber DEF Awaited
  <2>8. CASE y.VS = z.VR
    <3>1. Awaited(y.sent, x) BY <2>7, <2>8
    <3>2. ASSUME NEW k \in DOMAIN y.tx, y.tx[k].t = "I" PROVE Dup(y.tx[k], z)
      <4>1. ~Early(y.tx[k], x) BY <1>11, <2>3, <2>4, <3>1, <3>2 DEF Ahead
      <4> QED BY <1>11, <1>13, <3>2, <4>1 DEF Placed
    <3>3. f.info = y.sent.info BY <1>1, <2>3, <3>1 DEF Awaited
    <3>4. \A h \in Segment : MayCome(y, v, h) => Awaits(z, h) BY <1>8, <2>3, <3>3
    <3>5. Sends(y, v, z) BY <2>8, <3>2, <3>4 DEF Sends
    <3>6. PICK n \in SeqNum : Quotes(x, 1, {n, x.VR}) BY <1>3, <2>1, <2>8 DEF Acked
    <3>7. y.VA = y.VS => Quotes(z, 1, {x.VR, y.VS})
      BY <1>3, <2>1, <2>8 DEF Acked, Quotes
    <3>8. ASSUME NEW k \in DOMAIN z.tx, CarriesAck(z.tx[k]), z.tx[k].nr = y.VS
          PROVE  Quotes(z, k, {x.VR, y.VS})
      <4>1. k >= 1 /\ k \in Nat BY <1>3, <3>8, OnLink
      <4>2. n = y.VS BY <1>3, <2>2, <3>6, <3>8, <4>1 DEF Quotes
      <4>3. \A j \in DOMAIN x.tx : j \in Nat /\ j >= 1 BY OnLink
      <4> QED BY <1>3, <3>6, <4>2, <4>3 DEF Quotes
    <3>9. y.VS # Mod(z.VR + 1) BY <1>1, <1>3, <2>8, NextNumber
    <3>10. Acked(y, z) BY <1>1, <2>8, <3>7, <3>8, <3>9 DEF Acked
    <3> QED BY <3>5, <3>10
  <2>9. CASE y.VS # z.VR
    <3>1. Early(y.sent, x) /\ Awaited(y.sent, z)
      <4>1. Early(y.sent, x) BY <1>7, <2>3, <2>5, <2>7, <2>9 DEF Placed, Ahead
      <4> QED BY <1>11, <2>4, <4>1
    <3>2. ASSUME NEW k \in DOMAIN y.tx, y.tx[k].t = "I" PROVE Ahead(y.tx[k], y.sent, z)
      BY <1>11, <1>13, <2>4, <2>6, <3>1, <3>2 DEF Ahead
    <3>3. Sends(y, v, z) BY <2>3, <2>6, <2>9, <3>2 DEF Sends
    <3>4. y.VS = Mod(z.VR + 1) BY <2>3, <3>1 DEF Awaited
    <3>5. y.VS \notin {x.VR, Mod(x.VR + 1)} BY <1>1, <1>3, <3>4, OnePlace
    <3>6. Quotes(x, 1, {Mod(x.VR + 1), x.VR}) /\ y.VA \in {Mod(x.VR + 1), x.VR}
      BY <2>1, <3>5 DEF Acked
    <3>7. Quotes(z, 1, {x.VR, z.VR}) BY <1>3, <3>6 DEF Quotes
    <3>8. Acked(y, z) BY <1>1, <1>3, <2>9, <3>4, <3>5, <3>6, <3>7 DEF Acked
    <3> QED BY <3>3, <3>8
  <2> QED BY <2>8, <2>9
<1> QED BY <1>9, <1>10, <1>14, <1>15 DEF Half

\* T200 repeats mSentFrame, with its N(R) or with the new one.
LEMMA RepeatLeads ==
    ASSUME NEW x \in Endpoint, NEW e \in End, NEW w, NEW y \in Endpoint, NEW v, x.t200,
           x.RC <= N200
    PROVE  Leads(x, retransmissionProcedure([x EXCEPT !.t200 = FALSE], e), w, y, v)
<1> DEFINE u == [x EXCEPT !.t200 = FALSE]
           z == retransmissionProcedure(u, e)
           f == resent(u, e)
           r == [u EXCEPT !.RC = u.RC + 1]
           q == writeL1(r, f)
<1>1. /\ u \in Endpoint /\ u.RC = x.RC /\ u.sent = x.sent /\ u.VR = x.VR /\ u.tx = x.tx
      /\ u.state = x.state /\ u.l1 = x.l1 /\ u.ind = x.ind /\ u.VS = x.VS /\ u.VA = x.VA
      /\ u.recvBuffer = x.recvBuffer /\ u.rx = x.rx /\ u.discard = x.discard
  BY DEF Endpoint
<1>2. f \in Frame /\ (f = x.sent \/ f = [x.sent EXCEPT !.nr = x.VR])
  BY <1>1, ResentType DEF resent
<1>3. f.t = x.sent.t /\ f.ns = x.sent.ns /\ f.info = x.sent.info /\ f.nr \in {x.sent.nr, x.VR}
  <2>1. x.sent \in Frame BY OnLink
  <2> HIDE DEF f
  <2> QED BY <1>2, <2>1 DEF Frame
<1> HIDE DEF u, f
<1>4. /\ r \in Endpoint /\ r.sent = x.sent /\ r.VR = x.VR /\ r.tx = x.tx
      /\ r.state = x.state /\ r.l1 = x.l1 /\ r.ind = x.ind /\ r.VS = x.VS /\ r.VA = x.VA
      /\ r.recvBuffer = x.recvBuffer /\ r.rx = x.rx /\ r.discard = x.discard
  <2>1. u.RC + 1 \in RetryCount BY <1>1, N200Assumption DEF RetryCount, Endpoint
  <2> QED BY <1>1, <2>1 DEF Endpoint
<1>5. z = [q EXCEPT !.t200 = TRUE] BY DEF retransmissionProcedure, f
<1> HIDE DEF r
<1>6. Said(r, q, f) /\ q.rx = r.rx
  <2>1. q.rx = r.rx BY <1>4 DEF writeL1, Endpoint
  <2> QED BY <1>2, <1>4, <2>1, WriteL1Said
<1> HIDE DEF z, q
<1>7. /\ z \in Endpoint /\ z.tx = q.tx /\ z.sent = q.sent /\ z.VR = q.VR
      /\ z.state = q.state /\ z.l1 = q.l1 /\ z.ind = q.ind /\ z.VS = q.VS /\ z.VA = q.VA
      /\ z.recvBuffer = q.recvBuffer /\ z.rx = q.rx /\ z.discard = q.discard
  BY <1>5, <1>6 DEF Said, Sent, Endpoint
<1>8. /\ z.tx \in {x.tx, Append(x.tx, f)} /\ z.sent = x.sent /\ z.VR = x.VR
      /\ z.state = x.state /\ z.l1 = x.l1 /\ z.ind = x.ind /\ z.VS = x.VS /\ z.VA = x.VA
      /\ z.recvBuffer = x.recvBuffer /\ z.rx = x.rx /\ z.discard = x.discard
  BY <1>4, <1>6, <1>7 DEF Said, Sent
<1> SUFFICES ASSUME Own(x), Half(x, w, y), Half(y, v, x)
             PROVE  Own(z) /\ Half(z, w, y) /\ Half(y, v, z)
  BY <1>7 DEF Leads, Both, z, u
<1>9. Up(z) = Up(x) /\ Live(z) = Live(x) BY <1>8 DEF Up, Live
<1>10. Own(z)
  <2>1. Received(z) BY <1>8, ReceivedSame DEF Own
  <2> QED BY <1>8, <1>9, <2>1 DEF Own
<1>11. Half(z, w, y)
  <2>1. \A h \in Segment : MayCome(z, w, h) => MayCome(x, w, h)
    BY <1>8, <1>9 DEF MayCome, Active
  <2>2. Acked(x, y) => Acked(z, y) BY <1>8 DEF Acked
  <2>3. Repeats(x, z) BY <1>2, <1>3, <1>8 DEF Repeats
  <2> QED BY <1>7, <1>8, <1>9, <2>1, <2>2, <2>3, HalfFrom
<1>12. Half(y, v, z)
  <2>1. CarriesAck(f) => x.t200 /\ x.sent.t = "I" BY <1>3 DEF Own, CarriesAck
  <2>2. Answers(x, z) BY <1>2, <1>3, <1>8, <2>1 DEF Answers, Quoted
  <2> QED BY <1>7, <1>8, <1>9, <2>2, HalfTo, SameWaitIfSame
<1> QED BY <1>10, <1>11, <1>12
-----------------------------------------------------------------------------
(***************************************************************************)
(* The procedures and handlers.                                            *)
(***************************************************************************)
\* What is sent, in what the buffers and the counters say.
Quietly(x, z, f) ==
    Said(x, z, f) /\ z.rx = x.rx /\ f.t # "I" /\ (CarriesAck(f) => f.nr = x.VR)

LEMMA SendersQuiet ==
    ASSUME NEW x \in Endpoint, NEW F \in BOOLEAN, NEW i \in Identity
    PROVE  /\ \E f : Quietly(x, sendSFrameRR(x, F), f)
           /\ \E f : Quietly(x, sendSFrameREJ(x, F), f)
           /\ \E f : Quietly(x, sendUFrameDM(x, F), f)
           /\ \E f : Quietly(x, sendUFrameUA(x, F, i), f)
           /\ \E f : Quietly(x, sendUFrameUI(x), f)
<1>1. \A f : writeL1(x, f).rx = x.rx BY DEF writeL1, Endpoint
<1>2. /\ sendSFrameRR(x, F).rx = x.rx /\ sendSFrameREJ(x, F).rx = x.rx
      /\ sendUFrameDM(x, F).rx = x.rx /\ sendUFrameUA(x, F, i).rx = x.rx
      /\ sendUFrameUI(x).rx = x.rx
  BY <1>1 DEF sendSFrameRR, sendSFrameREJ, sendUFrameDM, sendUFrameUA, sendUFrameUI
<1> QED BY <1>2, SendersSay DEF Quietly, CarriesAck

LEMMA QuietlyLeads ==
    ASSUME NEW x \in Endpoint, NEW z, NEW f, Quietly(x, z, f), NEW w, NEW y \in Endpoint, NEW v
    PROVE  Leads(x, z, w, y, v) /\ (Up(x) => Up(z))
<1>1. /\ z \in Endpoint /\ z.state = x.state /\ z.l1 = x.l1 /\ z.ind = x.ind
      /\ z.VS = x.VS /\ z.VA = x.VA /\ z.VR = x.VR /\ z.recvBuffer = x.recvBuffer
      /\ z.rx = x.rx /\ z.sent = x.sent /\ z.t200 = x.t200 /\ z.discard = x.discard
  BY DEF Quietly, Said, Sent
<1>2. Up(z) = Up(x) /\ Live(z) = Live(x) BY <1>1 DEF Up, Live
<1>3. Tells(x, z) BY DEF Quietly, Said, Tells
<1>4. Still(x, z) BY <1>1, <1>2, <1>3 DEF Still, StillWaits
<1> QED BY <1>2, <1>4, StillLeads

LEMMA SendersLead ==
    ASSUME NEW x \in Endpoint, NEW F \in BOOLEAN, NEW i \in Identity,
           NEW w, NEW y \in Endpoint, NEW v
    PROVE  /\ Leads(x, sendSFrameRR(x, F), w, y, v) /\ (Up(x) => Up(sendSFrameRR(x, F)))
           /\ Leads(x, sendSFrameREJ(x, F), w, y, v) /\ Leads(x, sendUFrameDM(x, F), w, y, v)
           /\ Leads(x, sendUFrameUA(x, F, i), w, y, v) /\ Leads(x, sendUFrameUI(x), w, y, v)
  BY SendersQuiet, QuietlyLeads

\* Only the state or the flags change, multiframe operation goes on or stays away.
LEMMA FlagsLead ==
    ASSUME NEW x \in Endpoint, NEW w, NEW y \in Endpoint, NEW v
    PROVE  /\ Leads(x, [x EXCEPT !.eip = FALSE], w, y, v)
           /\ Leads(x, [x EXCEPT !.fresh = FALSE], w, y, v)
           /\ Leads(x, leaveContention(x), w, y, v)
           /\ Up(x) => Leads(x, [x EXCEPT !.state = "LinkEstablished"], w, y, v)
<1> DEFINE a == [x EXCEPT !.eip = FALSE]
           b == [x EXCEPT !.fresh = FALSE]
           c == leaveContention(x)
           d == [x EXCEPT !.state = "LinkEstablished"]
<1>1. Still(x, a) BY DEF Still, StillWaits, Tells, Up, Live, Endpoint
<1>2. Still(x, b) BY DEF Still, StillWaits, Tells, Up, Live, Endpoint
<1>3. ASSUME Up(x) PROVE Still(x, d)
  BY <1>3 DEF Still, StillWaits, Tells, Up, Live, Endpoint, LAPDState, Multiframe
<1>4. c = x \/ (Up(x) /\ c = d) BY DEF leaveContention, Up, Multiframe
<1> HIDE DEF a, b, c, d
<1>5. Leads(x, a, w, y, v) /\ Leads(x, b, w, y, v) BY <1>1, <1>2, StillLeads
<1>6. Up(x) => Leads(x, d, w, y, v) BY <1>3, StillLeads
<1>7. Leads(x, c, w, y, v) BY <1>4, <1>6, LeadsRefl
<1> QED BY <1>5, <1>6, <1>7 DEF a, b, c, d

LEMMA ClearCountersRest ==
    ASSUME NEW x \in Endpoint
    PROVE  LET z == clearCounters(x) IN z.recvBuffer = <<>> /\ z.rx = x.rx /\ z.discard = TRUE
<1>1. clearCounters(x) = [x EXCEPT !.t200 = FALSE, !.VS = 0, !.VA = 0, !.VR = 0, !.RC = 0,
                                   !.recvBuffer = <<>>, !.discard = TRUE]
  BY DEF clearCounters
<1> QED BY <1>1 DEF Endpoint

LEMMA ReleaseLinkGone ==
    ASSUME NEW x \in Endpoint, NEW p \in Primitives \ {"ESTABLISH"}, ~x.t200
    PROVE  Gone(x, releaseLink(x, p))
<1> DEFINE z == releaseLink(x, p)
<1>1. z \in Endpoint BY ReleaseLinkReleases DEF Released
<1>2. /\ z.state = "LinkReleased" /\ z.ind = p /\ z.recvBuffer = x.recvBuffer
      /\ z.rx = x.rx /\ z.t200 = x.t200 /\ z.tx = x.tx
  BY DEF releaseLink, indicate, writeL1Release, Endpoint
<1> HIDE DEF z
<1>3. ~Live(z) BY <1>2 DEF Live, Up, Multiframe, Primitives
<1> QED BY <1>1, <1>2, <1>3 DEF Gone, Tells, StillWaits, z

LEMMA ClearStateGone ==
    ASSUME NEW x \in Endpoint, NEW p \in Primitives \ {"ESTABLISH"}
    PROVE  Gone(x, clearState(x, p)) /\ clearState(x, p).tx = x.tx
<1> DEFINE c == clearCounters(x)
           z == clearState(x, p)
<1>1. c \in Endpoint /\ ~c.t200 /\ c.recvBuffer = <<>> /\ c.rx = x.rx /\ c.tx = x.tx
  BY ClearCountersFields, ClearCountersRest
<1>2. z = releaseLink(c, p) BY DEF clearState
<1> HIDE DEF c, z
<1>3. Gone(c, z) /\ z.state = "LinkReleased" /\ z.tx = c.tx
  <2>1. z.state = "LinkReleased" /\ z.tx = c.tx
    BY <1>1, <1>2 DEF releaseLink, indicate, writeL1Release, Endpoint
  <2> QED BY <1>1, <1>2, <2>1, ReleaseLinkGone
<1> QED BY <1>1, <1>3 DEF Gone, Tells, StillWaits, z

LEMMA AbnormalGone == ASSUME NEW x \in Endpoint PROVE Gone(x, abnormalRelease(x))
<1> DEFINE a == indicate(x, "ERROR")
           d == sendUFrameDM(a, TRUE)
           c == writeL1Error(d)
           z == clearState(c, "RELEASE")
<1>1. /\ a \in Endpoint /\ a.tx = x.tx /\ a.rx = x.rx /\ a.VR = x.VR
  BY DEF indicate, Endpoint, Indication, Primitives
<1> HIDE DEF a
<1>2. PICK f : Quietly(a, d, f) BY <1>1, SendersQuiet DEF Identity
<1>3. d \in Endpoint BY <1>2 DEF Quietly, Said, Sent
<1> HIDE DEF d
<1>4. c \in Endpoint /\ c.tx = d.tx /\ c.rx = d.rx
  BY <1>3 DEF writeL1Error, Endpoint, L1State
<1> HIDE DEF c
<1>5. z.state = "LinkReleased" /\ z.recvBuffer = <<>>
  <2> DEFINE k == clearCounters(c)
  <2>1. k \in Endpoint /\ k.recvBuffer = <<>> BY <1>4, ClearCountersFields, ClearCountersRest
  <2>2. z = releaseLink(k, "RELEASE") BY DEF clearState
  <2> HIDE DEF k, z
  <2> QED BY <2>1, <2>2 DEF releaseLink, indicate, writeL1Release, Endpoint
<1>6. Gone(c, z) /\ z.tx = c.tx BY <1>4, ClearStateGone DEF Primitives
<1>7. abnormalRelease(x) = z BY DEF abnormalRelease, a, d, c
<1> HIDE DEF z
<1>8. Tells(x, z) BY <1>1, <1>2, <1>4, <1>6 DEF Quietly, Said, Tells
<1>9. z.rx = x.rx BY <1>1, <1>2, <1>4, <1>6 DEF Quietly, Gone
<1> QED BY <1>5, <1>6, <1>7, <1>8, <1>9 DEF Gone, StillWaits

LEMMA T200Leads ==
    ASSUME NEW x \in Endpoint, NEW e \in End, x.t200, NEW w, NEW y \in Endpoint, NEW v
    PROVE  Leads(x, T200Expiration(x, e), w, y, v)
<1> DEFINE u == [x EXCEPT !.t200 = FALSE]
<1>1. u \in Endpoint /\ ~u.t200 /\ Leads(x, u, w, y, v)
  <2>1. u \in Endpoint /\ ~u.t200 BY DEF Endpoint
  <2>2. Still(x, u) BY DEF Still, StillWaits, Tells, Up, Live, Endpoint
  <2> HIDE DEF u
  <2> QED BY <2>1, <2>2, StillLeads
<1>2. x.RC \in Nat /\ N200 \in Nat BY N200Assumption DEF Endpoint, RetryCount
<1>3. CASE x.state = "AwaitingRelease"
  <2>1. T200Expiration(x, e) = releaseLink(u, "RELEASE")
    BY <1>3 DEF T200Expiration, Multiframe, u
  <2> HIDE DEF u
  <2>2. Leads(u, releaseLink(u, "RELEASE"), w, y, v)
    BY <1>1, ReleaseLinkGone, GoneIsLed DEF Primitives
  <2> QED BY <1>1, <2>1, <2>2, LeadsTrans
<1>4. CASE x.state \in Multiframe \union {"AwaitingEstablish"} /\ x.RC > N200
  <2>1. T200Expiration(x, e) = abnormalRelease(u)
    BY <1>4 DEF T200Expiration, Multiframe, u
  <2> HIDE DEF u
  <2>2. Leads(u, abnormalRelease(u), w, y, v) BY <1>1, AbnormalGone, GoneIsLed
  <2> QED BY <1>1, <2>1, <2>2, LeadsTrans
<1>5. CASE x.state \in Multiframe \union {"AwaitingEstablish"} /\ ~(x.RC > N200)
  <2>1. T200Expiration(x, e) = retransmissionProcedure(u, e)
    BY <1>5 DEF T200Expiration, Multiframe, u
  <2>2. x.RC <= N200 BY <1>2, <1>5
  <2> QED BY <2>1, <2>2, RepeatLeads
<1>6. CASE x.state = "LinkReleased"
  <2>1. T200Expiration(x, e) = u BY <1>6 DEF T200Expiration, Multiframe, u
  <2> QED BY <1>1, <2>1
<1> QED BY <1>3, <1>4, <1>5, <1>6 DEF Endpoint, LAPDState, Multiframe

LEMMA CheckT200Leads ==
    ASSUME NEW x \in Endpoint, NEW e \in End, NEW expired, NEW w, NEW y \in Endpoint, NEW v
    PROVE  Leads(x, checkT200(x, e, expired), w, y, v)
  BY T200Leads, LeadsRefl DEF checkT200

\* Multiframe operation begins, for the first time since the channel was opened.
LEMMA BeginLeads ==
    ASSUME NEW x \in Endpoint, NEW z \in Endpoint, x.ind = "none", z.ind # "none", Up(z),
           z.VS = 0, z.VA = 0, z.VR = 0, z.recvBuffer = <<>>, z.rx = x.rx, z.sent = x.sent,
           z.tx = x.tx, ~z.t200, z.discard, NEW w, NEW y \in Endpoint, NEW v
    PROVE  Leads(x, z, w, y, v)
<1> SUFFICES ASSUME Both(x, w, y, v) PROVE Both(z, w, y, v) BY DEF Leads
<1>1. /\ ~Up(x) /\ x.VS = 0 /\ x.VA = 0 /\ x.VR = 0 /\ x.recvBuffer = <<>> BY DEF Both, Own
<1>2. Still(x, z) BY <1>1 DEF Still, StillWaits, Tells, Up, Live, Multiframe
<1> QED BY <1>2, StillLeads DEF Leads

\* The identity of the handset is given to L3: that is no message.
LEMMA IdentityLeads ==
    ASSUME NEW x \in Endpoint, NEW h \in Handsets, NEW w, NEW y \in Endpoint, NEW v
    PROVE  Leads(x, deliver(x, <<h>>), w, y, v)
<1> DEFINE u == <<h>>
           z == deliver(x, u)
<1>1. u \in Seq(Segment \union Handsets) /\ ~Message(u) /\ x.rx \in DeliveredUnits
  BY DEF Message, Endpoint
<1> HIDE DEF u
<1>2. Append(x.rx, u) \in DeliveredUnits BY <1>1 DEF DeliveredUnits
<1>3. /\ z \in Endpoint /\ z.rx = Append(x.rx, u) /\ z.tx = x.tx /\ z.sent = x.sent
      /\ z.recvBuffer = x.recvBuffer /\ z.state = x.state /\ z.l1 = x.l1 /\ z.ind = x.ind
      /\ z.VS = x.VS /\ z.VA = x.VA /\ z.VR = x.VR /\ z.t200 = x.t200 /\ z.discard = x.discard
  BY <1>2 DEF deliver, Endpoint
<1> HIDE DEF z
<1>4. \A k \in DOMAIN z.rx :
         /\ k \in Nat
         /\ Message(z.rx[k]) => k \in DOMAIN x.rx /\ z.rx[k] = x.rx[k]
  BY <1>1, <1>3, AppendToUnits
<1> SUFFICES ASSUME Own(x), Half(x, w, y), Half(y, v, x)
             PROVE  Own(z) /\ Half(z, w, y) /\ Half(y, v, z)
  BY <1>3 DEF Leads, Both, z, u
<1>5. Up(z) = Up(x) /\ Live(z) = Live(x) BY <1>3 DEF Up, Live
<1>6. Own(z)
  <2>1. Received(z) BY <1>3, <1>4 DEF Received, Own
  <2> QED BY <1>3, <1>5, <2>1 DEF Own
<1>7. Half(z, w, y)
  <2>1. \A g \in Segment : MayCome(z, w, g) => MayCome(x, w, g)
    BY <1>3, <1>5 DEF MayCome, Active
  <2>2. Acked(x, y) => Acked(z, y) BY <1>3 DEF Acked
  <2> QED BY <1>3, <1>5, <2>1, <2>2, HalfFrom DEF Repeats
<1>8. Half(y, v, z)
  <2>1. SameWait(x, z) BY <1>3, <1>4 DEF SameWait, Awaits
  <2>2. Answers(x, z) BY <1>3 DEF Answers, Quoted
  <2> QED BY <1>3, <1>5, <2>1, <2>2, HalfTo
<1> QED BY <1>6, <1>7, <1>8

LEMMA receiveIFrameLeads ==
    ASSUME NEW x \in Endpoint, NEW w, NEW y \in Endpoint, NEW v, NEW f, IsNext(f, y), f.t = "I"
    PROVE  Leads(x, receiveIFrame(x, f), w, y, v)
<1> DEFINE a == [x EXCEPT !.eip = FALSE]
           b == leaveContention(a)
           c == processAck(b, f.nr)
           d == bufferIFrameData([c EXCEPT !.VR = Mod(c.VR + 1)], f.info)
<1>1. f \in Frame /\ f.pf \in BOOLEAN /\ CarriesAck(f) BY NextFacts DEF Frame, CarriesAck
<1>2. a \in Endpoint /\ a.state = x.state /\ Leads(x, a, w, y, v) BY FlagsLead DEF Endpoint
<1>3. CASE x.state \notin Multiframe
  <2>1. receiveIFrame(x, f) = a BY <1>3 DEF receiveIFrame
  <2> QED BY <1>2, <2>1
<1>4. CASE x.state \in Multiframe
  <2>1. receiveIFrame(x, f) = IF f.ns = c.VR THEN sendSFrameRR(d, f.pf) ELSE sendSFrameREJ(c, f.pf)
    BY <1>4 DEF receiveIFrame
  <2> HIDE DEF a
  <2>2. Leads(a, b, w, y, v) /\ Up(b)
    BY <1>2, <1>4, FlagsLead DEF leaveContention, Up, Multiframe, Endpoint
  <2>3. b \in Endpoint /\ Leads(x, b, w, y, v) BY <1>2, <2>2, LeadsTrans DEF Leads
  <2> HIDE DEF b
  <2>4. Leads(b, c, w, y, v) /\ Up(c) BY <1>1, <2>2, <2>3, AckLeads
  <2>5. c \in Endpoint /\ Leads(x, c, w, y, v) BY <2>3, <2>4, LeadsTrans DEF Leads
  <2> HIDE DEF c
  <2>6. CASE f.ns = c.VR
    <3>1. Leads(c, d, w, y, v) BY <2>4, <2>5, <2>6, AcceptLeads
    <3>2. d \in Endpoint /\ Leads(x, d, w, y, v) BY <2>5, <3>1, LeadsTrans DEF Leads
    <3> HIDE DEF d
    <3>3. Leads(d, sendSFrameRR(d, f.pf), w, y, v) BY <1>1, <3>2, SendersLead DEF Identity
    <3> QED BY <2>1, <2>6, <3>2, <3>3, LeadsTrans
  <2>7. CASE f.ns # c.VR
    <3>1. Leads(c, sendSFrameREJ(c, f.pf), w, y, v) BY <1>1, <2>5, SendersLead DEF Identity
    <3> QED BY <2>1, <2>5, <2>7, <3>1, LeadsTrans
  <2> QED BY <2>6, <2>7
<1> QED BY <1>3, <1>4

LEMMA receiveSFrameLeads ==
    ASSUME NEW x \in Endpoint, NEW w, NEW y \in Endpoint, NEW v, NEW f, IsNext(f, y),
           f.t \in {"RR", "REJ"}
    PROVE  Leads(x, receiveSFrame(x, f), w, y, v)
<1> DEFINE a == [x EXCEPT !.eip = FALSE]
           b == leaveContention(a)
           r == sendSFrameRR(b, TRUE)
           p == processAck(r, f.nr)
           c == processAck(b, f.nr)
<1>1. f \in Frame /\ f.pf \in BOOLEAN /\ CarriesAck(f) BY NextFacts DEF Frame, CarriesAck
<1>2. a \in Endpoint /\ a.state = x.state /\ Leads(x, a, w, y, v) BY FlagsLead DEF Endpoint
<1>3. CASE x.state \notin Multiframe
  <2>1. receiveSFrame(x, f) = a
    BY <1>2, <1>3 DEF receiveSFrame, receiveSFrameRR, receiveSFrameREJ
  <2> QED BY <1>2, <2>1
<1>4. CASE x.state \in Multiframe
  <2>1. receiveSFrame(x, f) \in {p, c, sendSFrameRR(c, TRUE), abnormalRelease(c)}
    <3>1. receiveSFrameRR(a, f) \in {p, c} BY <1>2, <1>4 DEF receiveSFrameRR
    <3>2. receiveSFrameREJ(a, f) \in {c, sendSFrameRR(c, TRUE), abnormalRelease(c)}
      BY <1>1, <1>2, <1>4 DEF receiveSFrameREJ
    <3> QED BY <3>1, <3>2 DEF receiveSFrame
  <2> HIDE DEF a
  <2>2. Leads(a, b, w, y, v) /\ Up(b)
    BY <1>2, <1>4, FlagsLead DEF leaveContention, Up, Multiframe, Endpoint
  <2>3. b \in Endpoint /\ Leads(x, b, w, y, v) BY <1>2, <2>2, LeadsTrans DEF Leads
  <2> HIDE DEF b
  <2>4. Leads(b, r, w, y, v) /\ Up(r) BY <2>2, <2>3, SendersLead DEF Identity
  <2>5. r \in Endpoint /\ Leads(x, r, w, y, v) BY <2>3, <2>4, LeadsTrans DEF Leads
  <2> HIDE DEF r
  <2>6. Leads(r, p, w, y, v) /\ Leads(b, c, w, y, v) BY <1>1, <2>2, <2>3, <2>4, <2>5, AckLeads
  <2>7. Leads(x, p, w, y, v) BY <2>5, <2>6, LeadsTrans
  <2>8. c \in Endpoint /\ Leads(x, c, w, y, v) BY <2>3, <2>6, LeadsTrans DEF Leads
  <2> HIDE DEF c, p
  <2>9. Leads(c, sendSFrameRR(c, TRUE), w, y, v) BY <2>8, SendersLead DEF Identity
  <2>10. Leads(c, abnormalRelease(c), w, y, v) BY <2>8, AbnormalGone, GoneIsLed
  <2>11. Leads(x, sendSFrameRR(c, TRUE), w, y, v) BY <2>8, <2>9, LeadsTrans
  <2>12. Leads(x, abnormalRelease(c), w, y, v) BY <2>8, <2>10, LeadsTrans
  <2> QED BY <2>1, <2>7, <2>8, <2>11, <2>12
<1> QED BY <1>3, <1>4

\* The first SABM of this use is accepted.
LEMMA acceptSABMLeads ==
    ASSUME NEW x \in Endpoint, NEW f, f.info \in Identity, x.ind = "none",
           NEW w, NEW y \in Endpoint, NEW v
    PROVE  Leads(x, acceptSABM(x, f), w, y, v)
<1> DEFINE c == clearCounters(x)
           i == indicate([c EXCEPT !.eip = TRUE], "ESTABLISH")
           l == [i EXCEPT !.state = "LinkEstablished"]
           r == [i EXCEPT !.state = "ContentionResolution", !.check = f.info]
           d == deliver(r, <<f.info>>)
<1>1. /\ c \in Endpoint /\ c.VS = 0 /\ c.VA = 0 /\ c.VR = 0 /\ c.recvBuffer = <<>>
      /\ c.rx = x.rx /\ c.sent = x.sent /\ c.tx = x.tx /\ c.t200 = FALSE /\ c.discard = TRUE
  BY ClearCountersFields, ClearCountersRest
<1>2. acceptSABM(x, f) = IF f.info # NoInfo THEN sendUFrameUA(d, TRUE, f.info)
                         ELSE sendUFrameUA(l, TRUE, NoInfo)
  BY DEF acceptSABM
<1> HIDE DEF c
<1>3. /\ i \in Endpoint /\ i.VS = 0 /\ i.VA = 0 /\ i.VR = 0 /\ i.recvBuffer = <<>>
      /\ i.rx = x.rx /\ i.sent = x.sent /\ i.tx = x.tx /\ i.t200 = FALSE /\ i.discard = TRUE
      /\ i.ind = "ESTABLISH"
  BY <1>1 DEF indicate, Endpoint, Indication, Primitives
<1> HIDE DEF i
<1>4. CASE f.info # NoInfo
  <2>1. /\ r \in Endpoint /\ r.VS = 0 /\ r.VA = 0 /\ r.VR = 0 /\ r.recvBuffer = <<>>
        /\ r.rx = x.rx /\ r.sent = x.sent /\ r.tx = x.tx /\ r.t200 = FALSE /\ r.discard = TRUE
        /\ r.ind = "ESTABLISH" /\ r.state = "ContentionResolution"
    BY <1>3 DEF Endpoint, LAPDState
  <2> HIDE DEF r
  <2>2. Leads(x, r, w, y, v) BY <2>1, BeginLeads DEF Up, Multiframe
  <2>3. f.info \in Handsets BY <1>4 DEF Identity
  <2>4. Leads(r, d, w, y, v) BY <2>1, <2>3, IdentityLeads
  <2>5. d \in Endpoint /\ Leads(x, d, w, y, v) BY <2>2, <2>4, LeadsTrans DEF Leads
  <2> HIDE DEF d
  <2>6. Leads(d, sendUFrameUA(d, TRUE, f.info), w, y, v) BY <2>5, SendersLead
  <2> QED BY <1>2, <1>4, <2>5, <2>6, LeadsTrans
<1>5. CASE f.info = NoInfo
  <2>1. /\ l \in Endpoint /\ l.VS = 0 /\ l.VA = 0 /\ l.VR = 0 /\ l.recvBuffer = <<>>
        /\ l.rx = x.rx /\ l.sent = x.sent /\ l.tx = x.tx /\ l.t200 = FALSE /\ l.discard = TRUE
        /\ l.ind = "ESTABLISH" /\ l.state = "LinkEstablished"
    BY <1>3 DEF Endpoint, LAPDState
  <2> HIDE DEF l
  <2>2. Leads(x, l, w, y, v) BY <2>1, BeginLeads DEF Up, Multiframe
  <2>3. Leads(l, sendUFrameUA(l, TRUE, NoInfo), w, y, v) BY <2>1, SendersLead DEF Identity
  <2> QED BY <1>2, <1>5, <2>2, <2>3, LeadsTrans
<1> QED BY <1>4, <1>5

\* Whoever is released had an indication; a SABM that would reset the counters does not
\* come.
LEMMA receiveUFrameSABMLeads ==
    ASSUME Sapi = 0, NEW x \in Endpoint, NEW f \in Frame, f.info \in Identity,
           Reported(x), x.l1 # "closed",
           x.state = "LinkEstablished" /\ ~x.eip => f.info # NoInfo,
           NEW w, NEW y \in Endpoint, NEW v
    PROVE  Leads(x, receiveUFrameSABM(x, f), w, y, v)
<1> DEFINE l == [x EXCEPT !.state = "LinkEstablished"]
<1>1. f.pf \in BOOLEAN BY DEF Frame
<1>2. /\ Leads(x, x, w, y, v) /\ Leads(x, abnormalRelease(x), w, y, v)
      /\ Leads(x, sendUFrameDM(x, TRUE), w, y, v)
      /\ Leads(x, sendUFrameUA(x, TRUE, f.info), w, y, v)
      /\ Leads(x, sendUFrameUA(x, TRUE, NoInfo), w, y, v)
  BY LeadsRefl, AbnormalGone, GoneIsLed, SendersLead DEF Identity
<1>3. CASE ~f.pf
  <2>1. receiveUFrameSABM(x, f) = x BY <1>3 DEF receiveUFrameSABM
  <2> QED BY <1>2, <2>1
<1>4. CASE f.pf /\ x.state = "LinkReleased"
  <2>1. receiveUFrameSABM(x, f) = acceptSABM(x, f) BY <1>4 DEF receiveUFrameSABM
  <2>2. x.ind = "none" BY <1>4 DEF Reported
  <2> QED BY <2>1, <2>2, acceptSABMLeads
<1>5. CASE f.pf /\ x.state = "ContentionResolution"
  <2>1. receiveUFrameSABM(x, f) \in {x, sendUFrameUA(l, TRUE, f.info)}
    BY <1>5 DEF receiveUFrameSABM
  <2>2. l \in Endpoint /\ Leads(x, l, w, y, v)
    BY <1>5, FlagsLead DEF Up, Multiframe, Leads
  <2> HIDE DEF l
  <2>3. Leads(l, sendUFrameUA(l, TRUE, f.info), w, y, v) BY <2>2, SendersLead
  <2> QED BY <1>2, <2>1, <2>2, <2>3, LeadsTrans
<1>6. CASE f.pf /\ x.state \in {"AwaitingEstablish", "AwaitingRelease"}
  <2>1. receiveUFrameSABM(x, f) \in {sendUFrameUA(x, TRUE, NoInfo), sendUFrameDM(x, TRUE)}
    BY <1>6 DEF receiveUFrameSABM
  <2> QED BY <1>2, <2>1
<1>7. CASE f.pf /\ x.state = "LinkEstablished"
  <2>1. receiveUFrameSABM(x, f) \in {sendUFrameUA(x, TRUE, f.info), abnormalRelease(x)}
    BY <1>7 DEF receiveUFrameSABM
  <2> QED BY <1>2, <2>1
<1> QED BY <1>1, <1>3, <1>4, <1>5, <1>6, <1>7 DEF Endpoint, LAPDState

LEMMA receiveUFrameDISCLeads ==
    ASSUME NEW x \in Endpoint, NEW f \in Frame, NEW w, NEW y \in Endpoint, NEW v
    PROVE  Leads(x, receiveUFrameDISC(x, f), w, y, v)
<1> DEFINE a == [x EXCEPT !.eip = FALSE]
           m == sendUFrameDM(a, f.pf)
           u == sendUFrameUA(a, f.pf, NoInfo)
<1>1. f.pf \in BOOLEAN BY DEF Frame
<1>2. a \in Endpoint /\ Leads(x, a, w, y, v) BY FlagsLead DEF Leads
<1>3. receiveUFrameDISC(x, f) \in
          {clearState(a, "RELEASE"), clearState(m, "RELEASE"), clearState(u, "RELEASE"), u}
  BY DEF receiveUFrameDISC, Endpoint, LAPDState, Multiframe
<1> HIDE DEF a
<1>4. Leads(a, m, w, y, v) /\ Leads(a, u, w, y, v) BY <1>1, <1>2, SendersLead DEF Identity
<1>5. m \in Endpoint /\ Leads(x, m, w, y, v) BY <1>2, <1>4, LeadsTrans DEF Leads
<1>6. u \in Endpoint /\ Leads(x, u, w, y, v) BY <1>2, <1>4, LeadsTrans DEF Leads
<1> HIDE DEF m, u
<1>7. \A b \in Endpoint : Leads(b, clearState(b, "RELEASE"), w, y, v)
  BY ClearStateGone, GoneIsLed DEF Primitives
<1>8. Leads(x, clearState(a, "RELEASE"), w, y, v) BY <1>2, <1>7, LeadsTrans
<1>9. Leads(x, clearState(m, "RELEASE"), w, y, v) BY <1>5, <1>7, LeadsTrans
<1>10. Leads(x, clearState(u, "RELEASE"), w, y, v) BY <1>6, <1>7, LeadsTrans
<1> QED BY <1>3, <1>6, <1>8, <1>9, <1>10

LEMMA receiveUFrameUALeads ==
    ASSUME NEW x \in Endpoint, NEW f \in Frame, x.l1 # "closed",
           NEW w, NEW y \in Endpoint, NEW v
    PROVE  Leads(x, receiveUFrameUA(x, f), w, y, v)
<1> DEFINE c == clearCounters(x)
           l == indicate([c EXCEPT !.state = "LinkEstablished"], "ESTABLISH")
<1>1. CASE f.pf /\ x.state = "AwaitingEstablish"
  <2>1. receiveUFrameUA(x, f) = l BY <1>1 DEF receiveUFrameUA
  <2>2. /\ c \in Endpoint /\ c.VS = 0 /\ c.VA = 0 /\ c.VR = 0 /\ c.recvBuffer = <<>>
        /\ c.rx = x.rx /\ c.sent = x.sent /\ c.tx = x.tx /\ c.t200 = FALSE /\ c.discard = TRUE
    BY ClearCountersFields, ClearCountersRest
  <2> HIDE DEF c
  <2>3. /\ l \in Endpoint /\ l.VS = 0 /\ l.VA = 0 /\ l.VR = 0 /\ l.recvBuffer = <<>>
        /\ l.rx = x.rx /\ l.sent = x.sent /\ l.tx = x.tx /\ l.t200 = FALSE /\ l.discard = TRUE
        /\ l.ind = "ESTABLISH" /\ l.state = "LinkEstablished"
    BY <2>2 DEF indicate, Endpoint, Indication, Primitives, LAPDState
  <2> HIDE DEF l
  <2>4. ASSUME Own(x) PROVE Leads(x, l, w, y, v)
    <3>1. x.ind = "none" BY <1>1, <2>4 DEF Own
    <3> QED BY <2>3, <3>1, BeginLeads DEF Up, Multiframe
  <2>5. ASSUME ~Own(x) PROVE Leads(x, l, w, y, v) BY <2>3, <2>5 DEF Leads, Both
  <2> QED BY <2>1, <2>4, <2>5
<1>2. CASE ~(f.pf /\ x.state = "AwaitingEstablish")
  <2>1. receiveUFrameUA(x, f) \in {clearState(x, "RELEASE"), abnormalRelease(x)}
    BY <1>2 DEF receiveUFrameUA, Frame
  <2> QED BY <2>1, ClearStateGone, AbnormalGone, GoneIsLed DEF Primitives
<1> QED BY <1>1, <1>2

LEMMA receiveFrameLeads ==
    ASSUME Sapi = 0, NEW x \in Endpoint, NEW y \in Endpoint, NEW f, IsNext(f, y),
           Reported(x), x.l1 # "closed",
           f.t = "SABM" /\ x.state = "LinkEstablished" /\ ~x.eip => f.info # NoInfo,
           NEW w, NEW v
    PROVE  Leads(x, receiveFrame(x, f), w, y, v)
<1>1. f \in Frame BY NextFacts
<1>2. CASE f.t = "I"
  <2>1. receiveFrame(x, f) = receiveIFrame(x, f) BY <1>2 DEF receiveFrame
  <2> QED BY <1>2, <2>1, receiveIFrameLeads
<1>3. CASE f.t \in {"RR", "REJ"}
  <2>1. receiveFrame(x, f) = receiveSFrame(x, f) BY <1>3 DEF receiveFrame
  <2> QED BY <1>3, <2>1, receiveSFrameLeads
<1>4. CASE f.t = "SABM"
  <2>1. receiveFrame(x, f) = receiveUFrameSABM(x, f) BY <1>4 DEF receiveFrame
  <2>2. f.info \in Identity BY <1>1, <1>4 DEF Frame
  <2> QED BY <1>1, <1>4, <2>1, <2>2, receiveUFrameSABMLeads
<1>5. CASE f.t = "DISC"
  <2>1. receiveFrame(x, f) = receiveUFrameDISC(x, f) BY <1>5 DEF receiveFrame
  <2> QED BY <1>1, <2>1, receiveUFrameDISCLeads
<1>6. CASE f.t = "UA"
  <2>1. receiveFrame(x, f) = receiveUFrameUA(x, f) BY <1>6 DEF receiveFrame
  <2> QED BY <1>1, <2>1, receiveUFrameUALeads
<1>7. CASE f.t = "DM"
  <2>1. receiveFrame(x, f) \in {x, clearState(x, "RELEASE")}
    BY <1>7 DEF receiveFrame, receiveUFrameDM
  <2> QED BY <2>1, LeadsRefl, ClearStateGone, GoneIsLed DEF Primitives
<1>8. CASE f.t = "UI"
  <2>1. receiveFrame(x, f) = x BY <1>8 DEF receiveFrame
  <2> QED BY <2>1, LeadsRefl
<1> QED BY <1>1, <1>2, <1>3, <1>4, <1>5, <1>6, <1>7, <1>8 DEF Frame
-----------------------------------------------------------------------------
(***************************************************************************)
(* The L3 thread, and frames that leave the radio link.                    *)
(***************************************************************************)
LEMMA TailLeads ==
    ASSUME NEW x \in Endpoint, x.tx # <<>>, NEW w, NEW y \in Endpoint, NEW v
    PROVE  Leads(x, [x EXCEPT !.tx = Tail(x.tx)], w, y, v)
<1> DEFINE z == [x EXCEPT !.tx = Tail(x.tx)]
<1>1. /\ x.tx \in Seq(Frame) /\ Tail(x.tx) \in RadioLink /\ 1 \in DOMAIN x.tx
      /\ \A k \in DOMAIN Tail(x.tx) : /\ k \in Nat /\ k + 1 \in DOMAIN x.tx
                                      /\ Tail(x.tx)[k] = x.tx[k + 1]
  BY OnLink, TailFacts DEF RadioLink
<1>2. /\ z \in Endpoint /\ z.tx = Tail(x.tx) /\ z.sent = x.sent /\ z.rx = x.rx
      /\ z.recvBuffer = x.recvBuffer /\ z.state = x.state /\ z.l1 = x.l1 /\ z.ind = x.ind
      /\ z.VS = x.VS /\ z.VA = x.VA /\ z.VR = x.VR /\ z.t200 = x.t200 /\ z.discard = x.discard
  BY <1>1 DEF Endpoint
<1> HIDE DEF z
<1> SUFFICES ASSUME Own(x), Half(x, w, y), Half(y, v, x)
             PROVE  Own(z) /\ Half(z, w, y) /\ Half(y, v, z)
  BY <1>2 DEF Leads, Both, z
<1>3. Up(z) = Up(x) /\ Live(z) = Live(x) BY <1>2 DEF Up, Live
<1>4. Own(z)
  <2>1. Received(z) BY <1>2, ReceivedSame DEF Own
  <2> QED BY <1>2, <1>3, <2>1 DEF Own
<1>5. Half(z, w, y)
  <2> SUFFICES ASSUME Live(y) PROVE Data(z.tx, y) /\ (Live(z) => Sends(z, w, y) /\ Acked(z, y))
    BY DEF Half
  <2>1. Data(x.tx, y) /\ (Live(x) => Sends(x, w, y) /\ Acked(x, y)) BY DEF Half
  <2>2. Data(z.tx, y) BY <1>1, <1>2, <2>1, DataTail
  <2>3. \A k \in DOMAIN z.tx : \E j \in DOMAIN x.tx : z.tx[k] = x.tx[j] BY <1>1, <1>2
  <2>4. \A h : MayCome(z, w, h) = MayCome(x, w, h) BY <1>2, <1>3 DEF MayCome, Active
  <2>5. Sends(x, w, y) => Sends(z, w, y) BY <1>2, <1>3, <2>3, <2>4 DEF Sends
  <2>6. Acked(x, y) => Acked(z, y) BY <1>2 DEF Acked
  <2> QED BY <1>3, <2>1, <2>2, <2>5, <2>6
<1>6. Half(y, v, z)
  <2> SUFFICES ASSUME Live(z) PROVE Data(y.tx, z) /\ (Live(y) => Sends(y, v, z) /\ Acked(y, z))
    BY DEF Half
  <2>1. Data(y.tx, x) /\ (Live(y) => Sends(y, v, x) /\ Acked(y, x)) BY <1>3 DEF Half
  <2>2. /\ \A f : Dup(f, z) = Dup(f, x) /\ Placed(f, z) = Placed(f, x)
        /\ \A f, g : Ahead(f, g, z) = Ahead(f, g, x)
        /\ \A g : Awaits(z, g) = Awaits(x, g)
    BY <1>2 DEF Placed, Ahead, Dup, Awaited, Early, Awaits
  <2>3. Data(y.tx, z) BY <2>1, <2>2 DEF Data
  <2>4. Sends(y, v, x) => Sends(y, v, z) BY <1>2, <2>2 DEF Sends
  <2>5. \A k \in DOMAIN z.tx : \A S : Quotes(x, k + 1, S) => Quotes(z, k, S)
    <3> SUFFICES ASSUME NEW k \in DOMAIN z.tx, NEW S, Quotes(x, k + 1, S),
                        NEW j \in DOMAIN z.tx, j >= k, CarriesAck(z.tx[j])
                 PROVE  z.tx[j].nr \in S
      BY <1>2 DEF Quotes
    <3>1. /\ j \in Nat /\ k \in Nat /\ j + 1 \in DOMAIN x.tx /\ j + 1 >= k + 1
          /\ z.tx[j] = x.tx[j + 1]
      BY <1>1, <1>2
    <3> QED BY <3>1 DEF Quotes
  <2>6. \A S : Quotes(x, 1, S) => Quotes(z, 1, S)
    <3> SUFFICES ASSUME NEW S, Quotes(x, 1, S), NEW j \in DOMAIN z.tx, CarriesAck(z.tx[j])
                 PROVE  z.tx[j].nr \in S
      BY <1>2 DEF Quotes
    <3>1. j \in Nat /\ j + 1 \in DOMAIN x.tx /\ j + 1 >= 1 /\ z.tx[j] = x.tx[j + 1]
      BY <1>1, <1>2
    <3> QED BY <3>1 DEF Quotes
  <2>7. ASSUME Acked(y, x) PROVE Acked(y, z)
    <3>1. ASSUME y.VS = z.VR, NEW k \in DOMAIN z.tx, CarriesAck(z.tx[k]), z.tx[k].nr = y.VS
          PROVE  \E n \in SeqNum : Quotes(z, k, {n, y.VS})
      <4>1. k + 1 \in DOMAIN x.tx /\ z.tx[k] = x.tx[k + 1] BY <1>1, <1>2
      <4>2. PICK n \in SeqNum : Quotes(x, k + 1, {n, y.VS})
        BY <1>2, <2>7, <3>1, <4>1 DEF Acked
      <4> QED BY <2>5, <4>2
    <3>2. ASSUME y.VS = z.VR, y.VA = y.VS PROVE \E n \in SeqNum : Quotes(z, 1, {n, y.VS})
      BY <1>2, <2>6, <2>7, <3>2 DEF Acked
    <3>3. ASSUME y.VS = Mod(z.VR + 1)
          PROVE  /\ \E n \in SeqNum : Quotes(z, 1, {n, z.VR})
                 /\ y.VA = y.VS => Quotes(z, 1, {y.VS, z.VR})
      BY <1>2, <2>6, <2>7, <3>3 DEF Acked
    <3>4. ASSUME y.VS # z.VR, y.VS # Mod(z.VR + 1)
          PROVE  Quotes(z, 1, {Mod(z.VR + 1), z.VR}) /\ y.VA \in {Mod(z.VR + 1), z.VR}
      BY <1>2, <2>6, <2>7, <3>4 DEF Acked
    <3> QED BY <3>1, <3>2, <3>3, <3>4 DEF Acked
  <2> QED BY <2>1, <2>3, <2>4, <2>7
<1> QED BY <1>4, <1>5, <1>6

\* The thread goes on, and discardIQueue may change with it; it may send nothing that it
\* could not before.
LEMMA ThreadGoesOn ==
    ASSUME NEW x \in Endpoint, NEW b \in BOOLEAN, NEW w, NEW n, NEW y \in Endpoint, NEW v,
           Both(x, w, y, v),
           LET z == [x EXCEPT !.discard = b]
           IN  \A h \in Segment : MayCome(z, n, h) => MayCome(x, w, h)
    PROVE  Both([x EXCEPT !.discard = b], n, y, v)
<1> DEFINE z == [x EXCEPT !.discard = b]
<1>1. /\ z \in Endpoint /\ z.tx = x.tx /\ z.sent = x.sent /\ z.rx = x.rx
      /\ z.recvBuffer = x.recvBuffer /\ z.state = x.state /\ z.l1 = x.l1 /\ z.ind = x.ind
      /\ z.VS = x.VS /\ z.VA = x.VA /\ z.VR = x.VR /\ z.t200 = x.t200
  BY DEF Endpoint
<1>2. \A h \in Segment : MayCome(z, n, h) => MayCome(x, w, h) OBVIOUS
<1> HIDE DEF z
<1>3. Up(z) = Up(x) /\ Live(z) = Live(x) BY <1>1 DEF Up, Live
<1>4. Own(z)
  <2>1. Received(z) BY <1>1, ReceivedSame DEF Own, Both
  <2> QED BY <1>1, <1>3, <2>1 DEF Own, Both
<1>5. Half(z, n, y)
  <2>1. Acked(x, y) => Acked(z, y) BY <1>1 DEF Acked
  <2> QED BY <1>1, <1>2, <1>3, <2>1, HalfFrom DEF Both, Repeats
<1>6. Half(y, v, z)
  <2>1. Answers(x, z) BY <1>1 DEF Answers, Quoted
  <2> QED BY <1>1, <1>3, <2>1, HalfTo, SameWaitIfSame DEF Both
<1> QED BY <1>4, <1>5, <1>6 DEF Both, z

LEMMA WriteAckFields ==
    ASSUME NEW x \in Endpoint, NEW f \in Frame
    PROVE  LET z == writeL1Ack(x, f) IN
           /\ z \in Endpoint /\ z.sent = f /\ z.t200 = TRUE /\ z.tx \in {x.tx, Append(x.tx, f)}
           /\ z.state = x.state /\ z.l1 = x.l1 /\ z.ind = x.ind /\ z.discard = x.discard
           /\ z.VS = x.VS /\ z.VA = x.VA /\ z.VR = x.VR
           /\ z.recvBuffer = x.recvBuffer /\ z.rx = x.rx
<1> DEFINE a == [x EXCEPT !.sent = f]
           b == writeL1(a, f)
           z == [b EXCEPT !.t200 = TRUE]
<1>1. /\ a \in Endpoint /\ a.sent = f /\ a.tx = x.tx
      /\ a.state = x.state /\ a.l1 = x.l1 /\ a.ind = x.ind /\ a.discard = x.discard
      /\ a.VS = x.VS /\ a.VA = x.VA /\ a.VR = x.VR
      /\ a.recvBuffer = x.recvBuffer /\ a.rx = x.rx
  BY DEF Endpoint
<1>2. writeL1Ack(x, f) = z BY DEF writeL1Ack
<1> HIDE DEF a
<1>3. Said(a, b, f) /\ b.rx = a.rx
  <2>1. b.rx = a.rx BY <1>1 DEF writeL1, Endpoint
  <2> QED BY <1>1, <2>1, WriteL1Said
<1> HIDE DEF b
<1>4. /\ z \in Endpoint /\ z.sent = b.sent /\ z.t200 = TRUE /\ z.tx = b.tx
      /\ z.state = b.state /\ z.l1 = b.l1 /\ z.ind = b.ind /\ z.discard = b.discard
      /\ z.VS = b.VS /\ z.VA = b.VA /\ z.VR = b.VR
      /\ z.recvBuffer = b.recvBuffer /\ z.rx = b.rx
  BY <1>3 DEF Said, Sent, Endpoint
<1> HIDE DEF z
<1> QED BY <1>1, <1>2, <1>3, <1>4 DEF Said, Sent

\* A new I-frame f with the segment g.  If the peer has accepted all that x has sent, f is
\* awaited.  If it has not, then x took an old N(R) for an acknowledgement: mSentFrame is
\* awaited and f comes one too early, right behind it.
LEMMA NewFrame ==
    ASSUME NEW x \in Endpoint, NEW w, NEW y \in Endpoint, NEW f \in Frame, NEW n,
           NEW z \in Endpoint,
           Own(x), Half(x, w, y), Up(x), x.VS = x.VA, MayCome(x, w, f.info),
           f.t = "I", f.ns = x.VS, Up(z), z.VS = Mod(x.VS + 1), z.VA = x.VA, z.sent = f,
           z.tx \in {x.tx, Append(x.tx, f)},
           \A h \in Segment : MayCome(z, n, h) => Follows(f.info, h)
    PROVE  Half(z, n, y)
<1> SUFFICES ASSUME Live(y)
             PROVE  Data(z.tx, y) /\ Sends(z, n, y) /\ Acked(z, y)
  BY DEF Half
<1>1. Data(x.tx, y) /\ Sends(x, w, y) /\ Acked(x, y) BY DEF Half, Live
<1>2. /\ x.tx \in Seq(Frame) /\ \A k \in DOMAIN x.tx : x.tx[k] \in Frame
      /\ x.VS \in SeqNum /\ y.VR \in SeqNum /\ Mod(y.VR + 1) \in SeqNum
      /\ f.info \in Segment /\ x.sent \in Frame /\ x.sent.ns \in SeqNum
  BY OnLink DEF Frame
<1>3. \A g \in Frame : /\ ~(Awaited(g, y) /\ Dup(g, y)) /\ ~(Awaited(g, y) /\ Early(g, y))
                       /\ ~(Dup(g, y) /\ Early(g, y))
  BY Places
\* What is left to show: the new frame has its place behind the others.
<1>4. ASSUME Placed(f, y), z.VS # y.VR,
             \A k \in DOMAIN x.tx : x.tx[k].t = "I" => Ahead(x.tx[k], f, y) /\ x.tx[k].ns # f.ns
      PROVE  Data(z.tx, y) /\ Sends(z, n, y)
  <2>1. Data(z.tx, y) BY <1>1, <1>2, <1>4, DataAppend
  <2>2. \A k \in DOMAIN z.tx : (k \in DOMAIN x.tx /\ z.tx[k] = x.tx[k]) \/ z.tx[k] = f
    BY <1>2, AppendFacts
  <2>3. ASSUME NEW k \in DOMAIN z.tx, z.tx[k].t = "I"
        PROVE  /\ Ahead(z.tx[k], z.sent, y)
               /\ z.tx[k].ns = z.sent.ns => z.tx[k].info = z.sent.info
    BY <1>4, <2>2, <2>3, AheadOfItself
  <2> QED BY <1>4, <2>1, <2>3 DEF Sends
<1>5. CASE x.VS = y.VR
  <2>1. Awaited(f, y) /\ Awaits(y, f.info) BY <1>1, <1>2, <1>5 DEF Sends, Awaited
  <2>2. z.VS = Mod(y.VR + 1) /\ z.VS # y.VR /\ z.VA # z.VS BY <1>2, <1>5, NextNumber
  <2>3. ASSUME NEW k \in DOMAIN x.tx, x.tx[k].t = "I"
        PROVE  Ahead(x.tx[k], f, y) /\ x.tx[k].ns # f.ns
    <3>1. Dup(x.tx[k], y) BY <1>1, <1>5, <2>3 DEF Sends
    <3>2. ~Awaited(x.tx[k], y) /\ ~Early(x.tx[k], y) BY <1>2, <1>3, <3>1
    <3> QED BY <1>5, <3>2 DEF Ahead, Awaited
  <2>4. Data(z.tx, y) /\ Sends(z, n, y) BY <1>4, <2>1, <2>2, <2>3 DEF Placed
  <2>5. \E m \in SeqNum : Quotes(y, 1, {m, y.VR}) BY <1>1, <1>5 DEF Acked
  <2> QED BY <2>2, <2>4, <2>5 DEF Acked
<1>6. CASE x.VS # y.VR
  <2>1. /\ Placed(x.sent, y) /\ Mod(x.sent.ns + 1) = x.VS /\ Follows(x.sent.info, f.info)
        /\ \A k \in DOMAIN x.tx : x.tx[k].t = "I" =>
              /\ Ahead(x.tx[k], x.sent, y)
              /\ x.tx[k].ns = x.sent.ns => x.tx[k].info = x.sent.info
    BY <1>1, <1>2, <1>6 DEF Sends
  <2>2. x.VS = Mod(y.VR + 1) /\ Quotes(y, 1, {Mod(y.VR + 1), y.VR}) BY <1>1, <1>6 DEF Acked
  <2>3. Awaited(x.sent, y) BY <1>2, <2>1, <2>2, NextNumber DEF Awaited
  <2>4. Early(f, y) BY <2>2 DEF Early
  <2>5. z.VS # y.VR /\ z.VS # Mod(y.VR + 1) BY <1>2, <2>2, OnePlace
  <2>6. ASSUME NEW k \in DOMAIN x.tx, x.tx[k].t = "I"
        PROVE  Ahead(x.tx[k], f, y) /\ x.tx[k].ns # f.ns
    <3>1. ~Early(x.tx[k], y) BY <1>2, <1>3, <2>1, <2>3, <2>6 DEF Ahead
    <3>2. Awaited(x.tx[k], y) => Follows(x.tx[k].info, f.info)
      BY <2>1, <2>3, <2>6 DEF Awaited
    <3>3. ~Dup(f, y) BY <1>3, <2>4
    <3> QED BY <2>2, <2>4, <3>1, <3>2, <3>3 DEF Ahead, Early
  <2>7. Placed(f, y) BY <1>3, <2>4 DEF Placed
  <2>8. Data(z.tx, y) /\ Sends(z, n, y) BY <1>4, <2>5, <2>6, <2>7
  <2> QED BY <2>2, <2>5, <2>8 DEF Acked
<1> QED BY <1>5, <1>6

\* sendIFrame: the thread goes on to the next segment, or is done with the message.
LEMMA SendBoth ==
    ASSUME NEW x \in Endpoint, NEW w, segmentOf(w) \in Segment, w.last \in Int, w.next <= w.last,
           NEW n, n.count = w.count, n.ses = w.ses, n.last = w.last, n.next = w.next + 1,
           n.pc = IF w.next = w.last THEN "idle" ELSE "data",
           w.pc = "data", Up(x), ~x.discard, x.VS = x.VA,
           NEW y \in Endpoint, NEW v, Both(x, w, y, v)
    PROVE  Both(sendIFrame(x, segmentOf(w)), n, y, v)
<1> DEFINE g == segmentOf(w)
           u == [x EXCEPT !.VS = Mod(x.VS + 1)]
           f == MkFrame("I", CBit(x), FALSE, x.VS, x.VR, g)
           z == sendIFrame(x, g)
<1>1. /\ g.ses = w.ses /\ g.msg = w.count /\ g.i = w.next /\ (g.more <=> w.next < w.last)
      /\ w.next \in Int
  <2>1. g = [ses |-> w.ses, msg |-> w.count, i |-> w.next, more |-> w.next < w.last]
    BY DEF segmentOf
  <2>2. g \in Segment OBVIOUS
  <2> HIDE DEF g
  <2>3. /\ g.ses = w.ses /\ g.msg = w.count /\ g.i = w.next /\ g.more = (w.next < w.last)
    BY <2>1
  <2>4. g.i \in Int BY <2>2, BoundsAssumption DEF Segment
  <2> QED BY <2>3, <2>4
<1>2. x.VS \in SeqNum /\ x.VR \in SeqNum /\ Mod(x.VS + 1) \in SeqNum BY OnLink, ModIsSeqNum
<1>3. /\ f \in Frame /\ f.t = "I" /\ f.ns = x.VS /\ f.nr = x.VR /\ f.info = g
  BY <1>2, Bits DEF MkFrame, Frame
<1>4. /\ u \in Endpoint /\ u.VS = Mod(x.VS + 1) /\ u.VA = x.VA /\ u.VR = x.VR /\ u.tx = x.tx
      /\ u.state = x.state /\ u.l1 = x.l1 /\ u.ind = x.ind /\ u.discard = x.discard
      /\ u.recvBuffer = x.recvBuffer /\ u.rx = x.rx
  BY <1>2 DEF Endpoint
<1>5. z = writeL1Ack(u, f) BY DEF sendIFrame
<1>6. Active(x, w) BY DEF Active
<1>7. MayCome(x, w, g) BY <1>6 DEF MayCome
<1> HIDE DEF g, u, f, z
<1>8. /\ z \in Endpoint /\ z.sent = f /\ z.t200 = TRUE /\ z.tx \in {x.tx, Append(x.tx, f)}
      /\ z.state = x.state /\ z.l1 = x.l1 /\ z.ind = x.ind /\ z.discard = x.discard
      /\ z.VS = Mod(x.VS + 1) /\ z.VA = x.VA /\ z.VR = x.VR
      /\ z.recvBuffer = x.recvBuffer /\ z.rx = x.rx
  BY <1>3, <1>4, <1>5, WriteAckFields
<1>9. Up(z) /\ Live(x) /\ Live(z) BY <1>8 DEF Up, Live
<1>10. ASSUME NEW h \in Segment, MayCome(z, n, h) PROVE Follows(g, h)
  <2>1. CASE w.next = w.last
    <3>1. n.pc = "idle" BY <2>1
    <3>2. ~Active(z, n) BY <3>1 DEF Active
    <3>3. ~g.more BY <1>1, <2>1
    <3>4. h.i = 1 /\ h.msg > w.count BY <1>10, <3>2 DEF MayCome
    <3> QED BY <1>1, <3>3, <3>4 DEF Follows
  <2>2. CASE w.next # w.last
    <3>1. n.pc = "data" BY <2>2
    <3>2. Active(z, n) BY <1>8, <1>9, <3>1 DEF Active
    <3>3. h.msg = n.count /\ h.ses = n.ses /\ h.i = n.next
      BY <1>10, <3>2 DEF MayCome, segmentOf
    <3>4. g.more BY <1>1, <2>2
    <3> QED BY <1>1, <3>3, <3>4 DEF Follows
  <2> QED BY <2>1, <2>2
<1>11. Own(z)
  <2>1. Received(z) BY <1>8, ReceivedSame DEF Own, Both
  <2>2. x.ind # "none" /\ z.state # "AwaitingEstablish"
    BY <1>9 DEF Own, Both, Up, Multiframe
  <2> QED BY <1>3, <1>8, <1>9, <2>1, <2>2 DEF Own
<1>12. Half(z, n, y)
  BY <1>3, <1>7, <1>8, <1>9, <1>10, NewFrame DEF Both
<1>13. Half(y, v, z)
  <2>1. Answers(x, z) BY <1>3, <1>8 DEF Answers, Quoted
  <2> QED BY <1>8, <1>9, <2>1, HalfTo, SameWaitIfSame DEF Both
<1> QED BY <1>11, <1>12, <1>13 DEF Both, z, g
\* The counters are cleared outside multiframe operation (firstFrame, setAwaitingEstablish,
\* startRelease): all were zero before it, or it is over.
LEMMA ClearedLead ==
    ASSUME NEW x \in Endpoint, NEW z \in Endpoint, ~Up(z),
           z.VS = 0, z.VA = 0, z.VR = 0, z.recvBuffer = <<>>, z.rx = x.rx, z.ind = x.ind,
           Tells(x, z),
           (z.sent = x.sent /\ ~z.t200) \/ ~CarriesAck(z.sent),
           z.state = "AwaitingEstablish" => z.l1 = "closed" \/ z.ind = "none",
           NEW w, NEW y \in Endpoint, NEW v
    PROVE  Leads(x, z, w, y, v)
<1>1. CASE x.ind = "none"
  <2>1. ASSUME Own(x) PROVE Still(x, z)
    BY <1>1, <2>1 DEF Own, Still, StillWaits, Live
  <2>2. Both(x, w, y, v) => Leads(x, z, w, y, v) BY <2>1, StillLeads DEF Both
  <2> QED BY <2>2 DEF Leads
<1>2. CASE x.ind # "none"
  <2>1. Gone(x, z) BY <1>2 DEF Gone, Live, StillWaits
  <2> QED BY <2>1, GoneIsLed
<1> QED BY <1>1, <1>2

LEMMA firstFrameLeads ==
    ASSUME NEW x \in Endpoint, x.state \in {"LinkReleased", "AwaitingRelease"},
           NEW w, NEW y \in Endpoint, NEW v
    PROVE  LET z == clearCounters([x EXCEPT !.fresh = FALSE])
           IN  Leads(x, z, w, y, v) /\ z.sent = x.sent
<1> DEFINE a == [x EXCEPT !.fresh = FALSE]
           z == clearCounters(a)
<1>1. /\ a \in Endpoint /\ a.state = x.state /\ a.ind = x.ind /\ a.l1 = x.l1
      /\ a.rx = x.rx /\ a.tx = x.tx /\ a.sent = x.sent
  BY DEF Endpoint
<1> HIDE DEF a
<1>2. /\ z \in Endpoint /\ z.state = a.state /\ z.ind = a.ind
      /\ z.VS = 0 /\ z.VA = 0 /\ z.VR = 0 /\ z.t200 = FALSE
      /\ z.sent = a.sent /\ z.tx = a.tx /\ z.recvBuffer = <<>> /\ z.rx = a.rx
  BY <1>1, ClearCountersFields, ClearCountersRest
<1> HIDE DEF z
<1>3. ~Up(z) /\ Tells(x, z) /\ z.state # "AwaitingEstablish"
  BY <1>1, <1>2 DEF Up, Multiframe, Tells
<1>4. Leads(x, z, w, y, v) BY <1>1, <1>2, <1>3, ClearedLead
<1> QED BY <1>1, <1>2, <1>4 DEF z, a

LEMMA AwaitLeads ==
    ASSUME NEW x \in Endpoint, x.ind = "none" \/ x.l1 = "closed",
           NEW w, NEW y \in Endpoint, NEW v
    PROVE  LET z == [clearCounters(x) EXCEPT !.state = "AwaitingEstablish"]
           IN  Leads(x, z, w, y, v) /\ z.sent = x.sent
<1> DEFINE c == clearCounters(x)
           z == [c EXCEPT !.state = "AwaitingEstablish"]
<1>1. /\ c \in Endpoint /\ c.ind = x.ind /\ c.l1 = x.l1
      /\ c.VS = 0 /\ c.VA = 0 /\ c.VR = 0 /\ c.t200 = FALSE
      /\ c.sent = x.sent /\ c.tx = x.tx /\ c.recvBuffer = <<>> /\ c.rx = x.rx
  BY ClearCountersFields, ClearCountersRest
<1> HIDE DEF c
<1>2. /\ z \in Endpoint /\ z.ind = c.ind /\ z.l1 = c.l1 /\ z.state = "AwaitingEstablish"
      /\ z.VS = c.VS /\ z.VA = c.VA /\ z.VR = c.VR /\ z.t200 = c.t200
      /\ z.sent = c.sent /\ z.tx = c.tx /\ z.recvBuffer = c.recvBuffer /\ z.rx = c.rx
  BY <1>1 DEF Endpoint, LAPDState
<1> HIDE DEF z
<1>3. ~Up(z) /\ Tells(x, z) BY <1>1, <1>2 DEF Up, Multiframe, Tells
<1>4. Leads(x, z, w, y, v) BY <1>1, <1>2, <1>3, ClearedLead
<1> QED BY <1>1, <1>2, <1>4 DEF z, c

LEMMA startReleaseLeads ==
    ASSUME NEW x \in Endpoint, NEW w, NEW y \in Endpoint, NEW v
    PROVE  Leads(x, startRelease(x), w, y, v)
<1> DEFINE c == clearCounters(x)
           a == [c EXCEPT !.eip = FALSE, !.state = "AwaitingRelease"]
           f == UFrame("DISC", CBit(a), TRUE, NoInfo)
           z == startRelease(x)
<1>1. /\ c \in Endpoint /\ c.ind = x.ind /\ c.l1 = x.l1
      /\ c.VS = 0 /\ c.VA = 0 /\ c.VR = 0
      /\ c.tx = x.tx /\ c.recvBuffer = <<>> /\ c.rx = x.rx
  BY ClearCountersFields, ClearCountersRest
<1>2. z = writeL1Ack(a, f) BY DEF startRelease, sendUFrameDISC
<1> HIDE DEF c
<1>3. /\ a \in Endpoint /\ a.ind = c.ind /\ a.l1 = c.l1 /\ a.state = "AwaitingRelease"
      /\ a.VS = c.VS /\ a.VA = c.VA /\ a.VR = c.VR
      /\ a.tx = c.tx /\ a.recvBuffer = c.recvBuffer /\ a.rx = c.rx
  BY <1>1 DEF Endpoint, LAPDState
<1> HIDE DEF a
<1>4. f \in Frame /\ f.t = "DISC"
  <2>1. f \in Frame BY <1>3, Bits, UFrameType DEF Identity
  <2> QED BY <2>1 DEF UFrame, MkFrame
<1> HIDE DEF f, z
<1>5. /\ z \in Endpoint /\ z.sent = f /\ z.tx \in {a.tx, Append(a.tx, f)}
      /\ z.state = a.state /\ z.ind = a.ind
      /\ z.VS = a.VS /\ z.VA = a.VA /\ z.VR = a.VR
      /\ z.recvBuffer = a.recvBuffer /\ z.rx = a.rx
  BY <1>2, <1>3, <1>4, WriteAckFields
<1>6. ~Up(z) /\ Tells(x, z) /\ ~CarriesAck(z.sent) /\ z.state # "AwaitingEstablish"
  BY <1>1, <1>3, <1>4, <1>5 DEF Up, Multiframe, Tells, CarriesAck
<1>7. Leads(x, z, w, y, v) BY <1>1, <1>3, <1>5, <1>6, ClearedLead
<1> QED BY <1>7 DEF z

\* SABM, and T200 for it: mSentFrame was no I-frame.
LEMMA AskingLeads ==
    ASSUME NEW x \in Endpoint, ~CarriesAck(x.sent), NEW f \in Frame, f.t = "SABM",
           NEW w, NEW y \in Endpoint, NEW v
    PROVE  /\ Leads(x, [x EXCEPT !.t200 = TRUE], w, y, v)
           /\ Leads(x, writeL1Ack(x, f), w, y, v) /\ writeL1Ack(x, f).sent = f
           /\ Leads(x, writeL1([x EXCEPT !.sent = f], f), w, y, v)
           /\ writeL1([x EXCEPT !.sent = f], f).sent = f
<1> DEFINE a == [x EXCEPT !.t200 = TRUE]
           b == [x EXCEPT !.sent = f]
           c == writeL1(b, f)
           d == writeL1Ack(x, f)
<1>1. /\ a \in Endpoint /\ a.sent = x.sent /\ a.tx = x.tx
      /\ a.state = x.state /\ a.l1 = x.l1 /\ a.ind = x.ind /\ a.discard = x.discard
      /\ a.VS = x.VS /\ a.VA = x.VA /\ a.VR = x.VR
      /\ a.recvBuffer = x.recvBuffer /\ a.rx = x.rx
  BY DEF Endpoint
<1>2. /\ b \in Endpoint /\ b.sent = f /\ b.tx = x.tx
      /\ b.state = x.state /\ b.l1 = x.l1 /\ b.ind = x.ind /\ b.discard = x.discard
      /\ b.VS = x.VS /\ b.VA = x.VA /\ b.VR = x.VR
      /\ b.recvBuffer = x.recvBuffer /\ b.rx = x.rx
  BY DEF Endpoint
<1> HIDE DEF a, b
<1>3. /\ c \in Endpoint /\ c.sent = b.sent /\ c.tx \in {b.tx, Append(b.tx, f)}
      /\ c.state = b.state /\ c.l1 = b.l1 /\ c.ind = b.ind /\ c.discard = b.discard
      /\ c.VS = b.VS /\ c.VA = b.VA /\ c.VR = b.VR
      /\ c.recvBuffer = b.recvBuffer /\ c.rx = b.rx
  <2>1. Said(b, c, f) BY <1>2, WriteL1Said
  <2>2. c.rx = b.rx BY <1>2 DEF writeL1, Endpoint
  <2> QED BY <2>1, <2>2 DEF Said, Sent
<1>4. /\ d \in Endpoint /\ d.sent = f /\ d.tx \in {x.tx, Append(x.tx, f)}
      /\ d.state = x.state /\ d.l1 = x.l1 /\ d.ind = x.ind /\ d.discard = x.discard
      /\ d.VS = x.VS /\ d.VA = x.VA /\ d.VR = x.VR
      /\ d.recvBuffer = x.recvBuffer /\ d.rx = x.rx
  BY WriteAckFields
<1> HIDE DEF c, d
<1>5. ~CarriesAck(f) /\ f.t # "I" /\ x.sent.t # "I" BY DEF CarriesAck
<1>6. Still(x, a) BY <1>1, <1>5 DEF Still, Tells, StillWaits, Up, Live
<1>7. Still(x, c) BY <1>2, <1>3, <1>5 DEF Still, Tells, StillWaits, Up, Live
<1>8. Still(x, d) BY <1>4, <1>5 DEF Still, Tells, StillWaits, Up, Live
<1> QED BY <1>2, <1>3, <1>4, <1>6, <1>7, <1>8, StillLeads DEF a, b, c, d
-----------------------------------------------------------------------------
(***************************************************************************)
(* Every step keeps the order.                                             *)
(***************************************************************************)
LEMMA OrderSides ==
    ASSUME IInv, OrderInv, NEW e \in End
    PROVE  /\ Peer(e) \in End /\ Peer(e) # e /\ Peer(Peer(e)) = e
           /\ link[e] \in Endpoint /\ link[Peer(e)] \in Endpoint
           /\ writer[e] \in Writer /\ writer[Peer(e)] \in Writer
           /\ Both(link[e], writer[e], link[Peer(e)], writer[Peer(e)])
           /\ Both(link[Peer(e)], writer[Peer(e)], link[e], writer[e])
           /\ Asking(link[e], writer[e]) /\ Asking(link[Peer(e)], writer[Peer(e)])
<1>1. Peer(e) \in End /\ Peer(e) # e /\ Peer(Peer(e)) = e BY DEF Peer, End
<1>2. /\ link[e] \in Endpoint /\ link[Peer(e)] \in Endpoint
      /\ writer[e] \in Writer /\ writer[Peer(e)] \in Writer
  BY <1>1 DEF IInv
<1> QED BY <1>1, <1>2 DEF OrderInv, Both

LEMMA OrderTwoSides ==
    ASSUME NEW e \in End, NEW p, p = Peer(e), NEW x, NEW w, NEW y, NEW v,
           Both(x, w, y, v), Own(y), Asking(x, w), Asking(y, v),
           link'[e] = x, link'[p] = y, writer'[e] = w, writer'[p] = v
    PROVE  OrderInv'
<1>1. p \in End /\ Peer(p) = e /\ \A d \in End : d = e \/ d = p BY DEF Peer, End
<1>2. /\ Own(link'[e]) /\ Half(link'[e], writer'[e], link'[p]) /\ Asking(link'[e], writer'[e])
      /\ Own(link'[p]) /\ Half(link'[p], writer'[p], link'[e]) /\ Asking(link'[p], writer'[p])
  BY DEF Both
<1> QED BY <1>1, <1>2 DEF OrderInv

LEMMA OrderOneSide ==
    ASSUME IInv, OrderInv, NEW e \in End, NEW z, NEW n,
           Both(z, n, link[Peer(e)], writer[Peer(e)]), Asking(z, n),
           link' = [link EXCEPT ![e] = z], writer' = [writer EXCEPT ![e] = n]
    PROVE  OrderInv'
<1>1. /\ Peer(e) \in End /\ Peer(e) # e
      /\ Own(link[Peer(e)]) /\ Asking(link[Peer(e)], writer[Peer(e)])
  BY OrderSides DEF Both
<1>2. /\ link'[e] = z /\ link'[Peer(e)] = link[Peer(e)]
      /\ writer'[e] = n /\ writer'[Peer(e)] = writer[Peer(e)]
  BY <1>1 DEF IInv
<1> QED BY <1>1, <1>2, OrderTwoSides

\* The L3 thread stays.
LEMMA OrderOneEndpoint ==
    ASSUME IInv, OrderInv, NEW e \in End, NEW z,
           Leads(link[e], z, writer[e], link[Peer(e)], writer[Peer(e)]),
           z.sent = link[e].sent \/ ~CarriesAck(z.sent),
           link' = [link EXCEPT ![e] = z], UNCHANGED writer
    PROVE  OrderInv'
<1>1. Both(z, writer[e], link[Peer(e)], writer[Peer(e)]) /\ Asking(z, writer[e])
  BY OrderSides DEF Leads, Asking
<1>2. writer' = [writer EXCEPT ![e] = writer[e]] BY DEF IInv
<1> QED BY <1>1, <1>2, OrderOneSide

\* A thread with no segment to send goes on, to send none or those of a later message.
LEMMA LaterCalls ==
    ASSUME NEW x \in Endpoint, NEW w, w.pc # "data", NEW n, n.pc # "data",
           w.count \in Int, n.count \in Int, n.count >= w.count,
           NEW y \in Endpoint, NEW v, Both(x, w, y, v)
    PROVE  Both(x, n, y, v)
<1> DEFINE z == [x EXCEPT !.discard = x.discard]
<1>1. z = x /\ x.discard \in BOOLEAN BY DEF Endpoint
<1>2. ASSUME NEW h \in Segment, MayCome(x, n, h) PROVE MayCome(x, w, h)
  <2>1. h.i = 1 /\ h.msg > n.count /\ h.msg \in Int
    BY <1>2, BoundsAssumption DEF MayCome, Active, Segment
  <2> QED BY <2>1 DEF MayCome, Active
<1>3. \A h \in Segment : MayCome(z, n, h) => MayCome(x, w, h) BY <1>1, <1>2
<1>4. Both(z, n, y, v) BY <1>1, <1>3, ThreadGoesOn
<1> QED BY <1>1, <1>4

LEMMA OrderGoto ==
    ASSUME IInv, OrderInv, NEW e \in End, NEW from, from # "data",
           NEW to \in WriterPC \ {"data"}, goto(e, from, to), NEW z,
           Leads(link[e], z, writer[e], link[Peer(e)], writer[Peer(e)]),
           to \in {"estSet", "estSABM", "estTimer"} => ~CarriesAck(z.sent),
           link' = [link EXCEPT ![e] = z]
    PROVE  OrderInv'
<1> DEFINE w == writer[e]
           n == [w EXCEPT !.pc = to]
<1>1. /\ w \in Writer /\ link[Peer(e)] \in Endpoint
      /\ Both(link[e], w, link[Peer(e)], writer[Peer(e)])
  BY OrderSides
<1>2. writer' = [writer EXCEPT ![e] = n] /\ w.pc = from BY <1>1 DEF goto, IInv
<1>3. n.pc = to /\ n.count = w.count /\ w.count \in Int BY <1>1, BoundsAssumption DEF Writer
<1> HIDE DEF n
<1>4. z \in Endpoint /\ Both(z, w, link[Peer(e)], writer[Peer(e)]) BY <1>1 DEF Leads
<1>5. Both(z, n, link[Peer(e)], writer[Peer(e)])
  BY <1>1, <1>2, <1>3, <1>4, LaterCalls
<1>6. Asking(z, n) BY <1>3 DEF Asking
<1> QED BY <1>2, <1>5, <1>6, OrderOneSide

LEMMA OrderCall ==
    ASSUME IInv, OrderInv, NEW e \in End, NEW op, request(e, op),
           NEW pc \in WriterPC \ {"data"}, called(e, pc), NEW z,
           Leads(link[e], z, writer[e], link[Peer(e)], writer[Peer(e)]),
           pc \in {"estSet", "estSABM", "estTimer"} => ~CarriesAck(z.sent),
           link' = [link EXCEPT ![e] = z]
    PROVE  OrderInv'
<1> DEFINE w == writer[e]
           n == [w EXCEPT !.pc = pc, !.count = w.count + 1, !.ses = session]
<1>1. /\ w \in Writer /\ link[Peer(e)] \in Endpoint
      /\ Both(link[e], w, link[Peer(e)], writer[Peer(e)])
  BY OrderSides
<1>2. writer' = [writer EXCEPT ![e] = n] /\ w.pc = "idle"
  BY <1>1 DEF called, request, IInv, Writer
<1>3. n.pc = pc /\ n.count = w.count + 1 /\ w.count \in Int
  BY <1>1, BoundsAssumption DEF Writer
<1> HIDE DEF n
<1>4. z \in Endpoint /\ Both(z, w, link[Peer(e)], writer[Peer(e)]) BY <1>1 DEF Leads
<1>5. n.count \in Int /\ n.count >= w.count BY <1>3
<1>6. Both(z, n, link[Peer(e)], writer[Peer(e)])
  BY <1>1, <1>2, <1>3, <1>4, <1>5, LaterCalls
<1>7. Asking(z, n) BY <1>3 DEF Asking
<1> QED BY <1>2, <1>6, <1>7, OrderOneSide

LEMMA firstFrameKeepsOrder ==
    ASSUME IInv, OrderInv, NEW e \in End, firstFrame(e) PROVE OrderInv'
<1> DEFINE z == clearCounters([link[e] EXCEPT !.fresh = FALSE])
<1>1. /\ link[e] \in Endpoint /\ link[Peer(e)] \in Endpoint
      /\ Local(e, link[e], writer[e], session)
  BY OrderSides, LocalFacts
<1>2. link[e].state \in {"LinkReleased", "AwaitingRelease"} BY <1>1 DEF firstFrame, Local
<1>3. link' = [link EXCEPT ![e] = z] /\ UNCHANGED writer BY DEF firstFrame
<1>4. /\ Leads(link[e], z, writer[e], link[Peer(e)], writer[Peer(e)])
      /\ z.sent = link[e].sent
  BY <1>1, <1>2, firstFrameLeads
<1> HIDE DEF z
<1> QED BY <1>3, <1>4, OrderOneEndpoint

LEMMA timerExpiresKeepsOrder ==
    ASSUME IInv, OrderInv, NEW e \in End, timerExpires(e) PROVE OrderInv'
<1> DEFINE z == checkT200(link[e], e, TRUE)
<1>1. link[e] \in Endpoint /\ link[Peer(e)] \in Endpoint BY OrderSides
<1>2. link' = [link EXCEPT ![e] = z] /\ UNCHANGED writer BY DEF timerExpires
<1>3. Leads(link[e], z, writer[e], link[Peer(e)], writer[Peer(e)])
  BY <1>1, CheckT200Leads
<1>4. z.sent = link[e].sent BY <1>1, CheckT200Keeps DEF Kept
<1> HIDE DEF z
<1> QED BY <1>2, <1>3, <1>4, OrderOneEndpoint

LEMMA loseFrameKeepsOrder ==
    ASSUME IInv, OrderInv, NEW e \in End, loseFrame(e) PROVE OrderInv'
<1> DEFINE z == [link[e] EXCEPT !.tx = Tail(link[e].tx)]
<1>1. link[e] \in Endpoint /\ link[Peer(e)] \in Endpoint /\ link[e].tx # <<>>
  BY OrderSides DEF loseFrame
<1>2. link' = [link EXCEPT ![e] = z] /\ UNCHANGED writer BY <1>1 DEF loseFrame, IInv
<1>3. Leads(link[e], z, writer[e], link[Peer(e)], writer[Peer(e)])
  BY <1>1, TailLeads
<1>4. z.sent = link[e].sent BY <1>1 DEF Endpoint
<1> HIDE DEF z
<1> QED BY <1>2, <1>3, <1>4, OrderOneEndpoint

LEMMA rivalSABMKeepsOrder == ASSUME IInv, OrderInv, rivalSABM PROVE OrderInv'
<1> DEFINE x == link["ms"]
<1>1. /\ "ms" \in End /\ x \in Endpoint /\ link[Peer("ms")] \in Endpoint
      /\ link \in [End -> Endpoint]
  BY OrderSides DEF End, IInv
<1>2. PICK h \in Handsets : link' = [link EXCEPT !["ms"] = writeL1(x, SABM(x, h))]
  BY <1>1 DEF rivalSABM
<1>3. SABM(x, h) \in Frame /\ SABM(x, h).t = "SABM"
  <2>1. SABM(x, h) \in Frame BY <1>1, SABMType DEF Identity
  <2> QED BY <2>1 DEF SABM, UFrame, MkFrame
<1> DEFINE f == SABM(x, h)
           z == writeL1(x, f)
<1> HIDE DEF f
<1>4. Said(x, z, f) /\ z.rx = x.rx
  <2>1. z.rx = x.rx BY <1>1 DEF writeL1, Endpoint
  <2> QED BY <1>1, <1>3, <2>1, WriteL1Said DEF f
<1>5. Quietly(x, z, f) BY <1>3, <1>4 DEF Quietly, CarriesAck, f
<1>6. link' = [link EXCEPT !["ms"] = z] /\ UNCHANGED writer BY <1>2 DEF rivalSABM, f
<1>7. z.sent = x.sent BY <1>4 DEF Said
<1> HIDE DEF z
<1>8. Leads(x, z, writer["ms"], link[Peer("ms")], writer[Peer("ms")])
  BY <1>1, <1>5, QuietlyLeads
<1> QED BY <1>1, <1>6, <1>7, <1>8, OrderOneEndpoint

\* No SABM without an identity arrives after the establishment.
LEMMA NoLateSABM ==
    ASSUME OneHandset, IInv, ChainInv, NEW e \in End, NEW f, IsNext(f, link[Peer(e)]),
           f.t = "SABM", link[e].state = "LinkEstablished", ~link[e].eip
    PROVE  f.info # NoInfo
<1> DEFINE x == link["bts"]
           y == link["ms"]
           w == writer["ms"]
<1>1. x \in Endpoint /\ y \in Endpoint /\ Chain(x, y, w) BY Sides DEF ChainInv
<1>2. CASE e = "bts"
  <2>1. y.tx # <<>> /\ f = Head(y.tx) BY <1>2, Sides DEF IsNext
  <2>2. FromHandset(x, [y EXCEPT !.tx = Tail(y.tx)], w, f)
    BY <1>1, <2>1, HandsetFrameLeaves
  <2>3. Up(x) /\ ~x.eip BY <1>2 DEF Up, Multiframe
  <2> QED BY <2>2, <2>3 DEF FromHandset
<1>3. CASE e = "ms"
  <2>1. x.tx # <<>> /\ f = Head(x.tx) BY <1>3, Sides DEF IsNext
  <2>2. FromBase([x EXCEPT !.tx = Tail(x.tx)], y, w, f)
    BY <1>1, <2>1, BaseFrameLeaves
  <2> QED BY <2>2 DEF FromBase
<1> QED BY <1>2, <1>3, Sides

LEMMA frameArrivesKeepsOrder ==
    ASSUME OneHandset, IInv, ChainInv, OrderInv, NEW e \in End, frameArrives(e)
    PROVE  OrderInv'
<1> DEFINE p == Peer(e)
           x == link[e]
           y == link[p]
           w == writer[e]
           v == writer[p]
           f == Head(y.tx)
           q == [y EXCEPT !.tx = Tail(y.tx)]
<1>1. PICK expired \in BOOLEAN :
        link' = [link EXCEPT ![e] = checkT200(receiveFrame(x, f), e, expired),
                             ![p].tx = Tail(@)]
  BY ToggleAssumption DEF frameArrives
<1> DEFINE r == receiveFrame(x, f)
           z == checkT200(r, e, expired)
<1>2. /\ p \in End /\ p # e /\ Peer(p) = e /\ link \in [End -> Endpoint]
      /\ x \in Endpoint /\ y \in Endpoint /\ Both(x, w, y, v) /\ Both(y, v, x, w)
      /\ Asking(x, w) /\ Asking(y, v)
      /\ y.tx # <<>> /\ x.l1 # "closed" /\ Reported(x) /\ UNCHANGED writer
  <2>1. Reported(x) BY LocalFacts DEF Local, Sound
  <2>2. y.tx # <<>> /\ x.l1 # "closed" /\ UNCHANGED writer BY DEF frameArrives
  <2> QED BY <2>1, <2>2, OrderSides DEF IInv
<1>3. link'[e] = z /\ link'[p] = q BY <1>1, <1>2
<1>4. IsNext(f, y) /\ f \in Frame BY <1>2, NextFacts DEF IsNext
<1>5. f.t = "SABM" /\ x.state = "LinkEstablished" /\ ~x.eip => f.info # NoInfo
  BY <1>4, NoLateSABM
<1> HIDE DEF p
<1>6. /\ q \in Endpoint /\ q.sent = y.sent BY <1>2, HeadIsFrame DEF Sent, Endpoint
<1> HIDE DEF f, q
<1>7. Leads(x, r, w, y, v) /\ r \in Endpoint /\ r.sent = x.sent
  <2>1. Leads(x, r, w, y, v) BY <1>2, <1>4, <1>5, receiveFrameLeads DEF OneHandset
  <2> DEFINE s == IF f.t = "I" THEN f.info.ses ELSE 0
  <2>2. f.t = "I" => f.info.ses = s OBVIOUS
  <2> HIDE DEF s
  <2>3. Kept(x, r, s) BY <1>2, <1>4, <2>2, receiveFrameKeeps
  <2> QED BY <2>1, <2>3 DEF Kept
<1> HIDE DEF r
<1>8. Leads(r, z, w, y, v) /\ z.sent = r.sent
  <2>1. Kept(r, z, 0) BY <1>7, CheckT200Keeps
  <2> QED BY <1>2, <1>7, <2>1, CheckT200Leads DEF Kept
<1> HIDE DEF z
<1>9. z \in Endpoint /\ Both(z, w, y, v) BY <1>2, <1>7, <1>8 DEF Leads
<1>10. Leads(y, q, v, z, w) BY <1>2, <1>9, TailLeads DEF q
<1>11. Both(y, v, z, w) BY <1>2, <1>9 DEF Both
<1>12. Both(q, v, z, w) BY <1>10, <1>11 DEF Leads
<1>13. Both(z, w, q, v) /\ Own(q) BY <1>9, <1>12 DEF Both
<1>14. Asking(z, w) /\ Asking(q, v) BY <1>2, <1>6, <1>7, <1>8 DEF Asking
<1>15. link'[p] = q /\ writer'[e] = w /\ writer'[p] = v BY <1>2, <1>3
<1> QED BY <1>3, <1>13, <1>14, <1>15, OrderTwoSides DEF p

LEMMA SendSegmentsKeepsOrder ==
    ASSUME IInv, OrderInv, NEW e \in End, NEW x, NEW w \in Writer,
           x \in Endpoint, w.next <= w.last, w.count >= 1,
           Both(x, [w EXCEPT !.pc = "data"], link[Peer(e)], writer[Peer(e)]),
           sendSegments(e, x, w)
    PROVE  OrderInv'
<1> DEFINE d == [w EXCEPT !.pc = "data"]
           i == [w EXCEPT !.pc = "idle"]
           n == [w EXCEPT !.pc = IF w.next = w.last THEN "idle" ELSE "data", !.next = w.next + 1]
           g == segmentOf(w)
           y == link[Peer(e)]
           v == writer[Peer(e)]
<1>1. /\ d.pc = "data" /\ d.count = w.count /\ d.next = w.next /\ d.last = w.last
      /\ d.ses = w.ses /\ i.pc = "idle" /\ i.count = w.count
      /\ n.pc = (IF w.next = w.last THEN "idle" ELSE "data") /\ n.count = w.count
      /\ n.ses = w.ses /\ n.last = w.last /\ n.next = w.next + 1
      /\ w.last \in Int
  BY BoundsAssumption DEF Writer
<1>2. y \in Endpoint BY OrderSides
<1>3. segmentOf(d) = g /\ g \in Segment BY <1>1, SegmentType DEF segmentOf
<1> HIDE DEF d, i, n, g
<1>4. CASE ~canPass(x)
  <2>1. link' = [link EXCEPT ![e] = x] /\ writer' = [writer EXCEPT ![e] = d]
    BY <1>4 DEF sendSegments, d
  <2>2. Asking(x, d) BY <1>1 DEF Asking
  <2> QED BY <2>1, <2>2, OrderOneSide DEF d
<1>5. CASE canPass(x) /\ (x.discard \/ x.state \notin Multiframe)
  <2>1. link' = [link EXCEPT ![e] = x] /\ writer' = [writer EXCEPT ![e] = i]
    BY <1>5 DEF sendSegments, i
  <2> DEFINE z == [x EXCEPT !.discard = x.discard]
  <2>2. z = x /\ x.discard \in BOOLEAN BY DEF Endpoint
  <2>3. ~Active(x, d) /\ ~Active(x, i) BY <1>1, <1>5 DEF Active, Up
  <2>4. \A h \in Segment : MayCome(z, i, h) => MayCome(x, d, h)
    BY <1>1, <2>2, <2>3 DEF MayCome
  <2>5. Both(z, i, y, v) BY <1>2, <2>2, <2>4, ThreadGoesOn DEF d
  <2>6. Both(x, i, y, v) BY <2>2, <2>5
  <2>7. Asking(x, i) BY <1>1 DEF Asking
  <2> QED BY <2>1, <2>6, <2>7, OrderOneSide
<1>6. CASE canPass(x) /\ ~(x.discard \/ x.state \notin Multiframe)
  <2> DEFINE z == sendIFrame(x, g)
  <2>1. link' = [link EXCEPT ![e] = z] /\ writer' = [writer EXCEPT ![e] = n]
    BY <1>6 DEF sendSegments, n, g
  <2>2. Up(x) /\ ~x.discard /\ x.VS = x.VA BY <1>6 DEF canPass, Up, Multiframe
  <2>3. Both(x, d, y, v) BY DEF d
  <2>4. Both(z, n, y, v)
    <3>1. segmentOf(d) \in Segment /\ d.last \in Int /\ d.next <= d.last BY <1>1, <1>3
    <3>2. /\ n.count = d.count /\ n.ses = d.ses /\ n.last = d.last /\ n.next = d.next + 1
          /\ n.pc = IF d.next = d.last THEN "idle" ELSE "data"
      BY <1>1
    <3>3. Both(sendIFrame(x, segmentOf(d)), n, y, v)
      BY <1>1, <1>2, <2>2, <2>3, <3>1, <3>2, SendBoth
    <3> QED BY <1>3, <3>3
  <2> HIDE DEF z
  <2>5. Asking(z, n) BY <1>1 DEF Asking
  <2> QED BY <2>1, <2>4, <2>5, OrderOneSide
<1> QED BY <1>4, <1>5, <1>6

LEMMA ackOrGiveUpKeepsOrder ==
    ASSUME IInv, OrderInv, NEW e \in End, ackOrGiveUp(e) PROVE OrderInv'
<1>1. /\ Local(e, link[e], writer[e], session) /\ writer[e] \in Writer
      /\ link[e] \in Endpoint
      /\ Both(link[e], writer[e], link[Peer(e)], writer[Peer(e)])
  BY LocalFacts, OrderSides
<1>2. writer[e] = [writer[e] EXCEPT !.pc = "data"] BY <1>1 DEF ackOrGiveUp, Writer
<1>3. writer[e].next <= writer[e].last /\ writer[e].count >= 1
  BY <1>1 DEF ackOrGiveUp, Local
<1> QED BY <1>1, <1>2, <1>3, SendSegmentsKeepsOrder DEF ackOrGiveUp

LEMMA writeDataKeepsOrder ==
    ASSUME IInv, OrderInv, NEW e \in End, writeData(e) PROVE OrderInv'
<1> DEFINE y == link[Peer(e)]
           u == writer[Peer(e)]
<1>1. request(e, "DATA") BY DEF writeData
<1>2. /\ link[e] \in Endpoint /\ writer[e] \in Writer /\ y \in Endpoint
      /\ Both(link[e], writer[e], y, u) /\ session \in Int
  BY OrderSides, LocalFacts
<1>3. CASE link[e].state = "LinkReleased"
  <2> DEFINE z == abnormalRelease(link[e])
  <2>1. called(e, "idle") /\ link' = [link EXCEPT ![e] = z] BY <1>3 DEF writeData
  <2>2. Leads(link[e], z, writer[e], y, u) BY <1>2, AbnormalGone, GoneIsLed
  <2>3. "idle" \in WriterPC \ {"data"} BY DEF WriterPC
  <2> HIDE DEF z
  <2> QED BY <1>1, <2>1, <2>2, <2>3, OrderCall
<1>4. CASE link[e].state # "LinkReleased"
  <2> DEFINE x == [link[e] EXCEPT !.discard = FALSE]
  <2>1. PICK n \in 1 .. MaxSegs :
          sendSegments(e, x, [writer[e] EXCEPT !.count = writer[e].count + 1, !.ses = session,
                                              !.next = 1, !.last = n])
    BY <1>4 DEF writeData
  <2> DEFINE w == [writer[e] EXCEPT !.count = writer[e].count + 1, !.ses = session,
                                    !.next = 1, !.last = n]
             v == [w EXCEPT !.pc = "data"]
  <2>2. n \in Int /\ n >= 1 /\ n \in 0 .. MaxSegs /\ 1 \in 1 .. MaxSegs + 1
    BY BoundsAssumption
  <2>3. /\ writer[e].count + 1 \in 0 .. MaxReq /\ session \in 0 .. MaxOpen
        /\ writer[e].count \in Nat /\ writer[e].pc = "idle"
    BY <1>1, <1>2, CallFacts, BoundsAssumption DEF Writer
  <2>4. w \in Writer
    <3>1. "data" \in WriterPC BY DEF WriterPC
    <3> QED BY <1>2, <2>2, <2>3, <3>1, WriterType
  <2>5. w.next = 1 /\ w.last = n /\ w.count = writer[e].count + 1 BY <1>2 DEF Writer
  <2> HIDE DEF w
  <2>6. v.pc = "data" /\ v.next = 1 /\ v.count = writer[e].count + 1
    BY <2>4, <2>5 DEF Writer
  <2>7. x \in Endpoint BY <1>2 DEF Endpoint
  <2> HIDE DEF v
  <2>8. ASSUME NEW h \in Segment, MayCome(x, v, h) PROVE MayCome(link[e], writer[e], h)
    <3>1. ~Active(link[e], writer[e]) BY <2>3 DEF Active
    <3>2. h.msg \in Int BY BoundsAssumption DEF Segment
    <3>3. CASE Active(x, v)
      <4>1. h = segmentOf(v) BY <2>8, <3>3 DEF MayCome
      <4>2. h.i = 1 /\ h.msg = writer[e].count + 1 BY <2>6, <4>1 DEF segmentOf
      <4> QED BY <2>3, <3>1, <4>2 DEF MayCome
    <3>4. CASE ~Active(x, v)
      <4>1. h.i = 1 /\ h.msg > v.count BY <2>8, <3>4 DEF MayCome
      <4> QED BY <2>3, <2>6, <3>1, <3>2, <4>1 DEF MayCome
    <3> QED BY <3>3, <3>4
  <2>9. Both(x, v, y, u) BY <1>2, <2>8, ThreadGoesOn
  <2>10. sendSegments(e, x, w) BY <2>1 DEF w
  <2>11. w.next <= w.last /\ w.count >= 1 BY <2>2, <2>3, <2>5
  <2> HIDE DEF x
  <2> QED BY <2>4, <2>7, <2>9, <2>10, <2>11, SendSegmentsKeepsOrder DEF v
<1> QED BY <1>3, <1>4

LEMMA writeHighSideKeepsOrder ==
    ASSUME OneHandset, IInv, ChainInv, OrderInv, NEW e \in End, writeHighSide(e)
    PROVE  OrderInv'
<1> DEFINE x == link[e]
           y == link[Peer(e)]
           w == writer[e]
           v == writer[Peer(e)]
<1>1. /\ x \in Endpoint /\ y \in Endpoint /\ Leads(x, x, w, y, v)
      /\ link = [link EXCEPT ![e] = x]
      /\ {"idle", "estRead", "estSet", "relLock"} \subseteq WriterPC \ {"data"}
  BY OrderSides, LeadsRefl DEF WriterPC, IInv
<1>2. CASE writeUnitData(e)
  <2>1. Leads(x, sendUFrameUI(x), w, y, v) BY <1>1, SendersLead DEF Identity
  <2> QED BY <1>1, <1>2, <2>1, OrderCall DEF writeUnitData
<1>3. CASE writeData(e)
  BY <1>3, writeDataKeepsOrder
<1>4. CASE writeEstablish(e)
  <2> DEFINE pc == IF x.state = "LinkEstablished" THEN "estRead" ELSE "estSet"
  <2>1. request(e, "ESTABLISH") /\ called(e, pc) /\ link' = link /\ x.ind = "none"
    BY <1>4 DEF writeEstablish
  <2>2. e = "ms"
    <3>1. e # "bts" BY <2>1, CallFacts, RequestsAssumption DEF OneHandset
    <3> QED BY <3>1 DEF End
  <2>3. ~CarriesAck(x.sent)
    <3>1. Asks(x, w) BY <2>2, Sides DEF ChainInv, Chain
    <3>2. Waiting(x, w) BY <2>1 DEF Waiting, request
    <3> QED BY <3>1, <3>2 DEF Asks
  <2>4. pc \in WriterPC \ {"data"} BY <1>1
  <2> HIDE DEF pc
  <2> QED BY <1>1, <2>1, <2>3, <2>4, OrderCall
<1>5. CASE writeRelease(e)
  <2> DEFINE pc == IF x.state = "LinkReleased" THEN "idle" ELSE "relLock"
  <2>1. request(e, "RELEASE") /\ called(e, pc) /\ link' = link
    BY <1>5 DEF writeRelease
  <2>2. pc \in WriterPC \ {"data"} /\ pc \notin {"estSet", "estSABM", "estTimer"} BY <1>1
  <2> HIDE DEF pc
  <2> QED BY <1>1, <2>1, <2>2, OrderCall
<1>6. CASE writeError(e)
  <2>1. Leads(x, abnormalRelease(x), w, y, v) BY <1>1, AbnormalGone, GoneIsLed
  <2> QED BY <1>1, <1>6, <2>1, OrderCall DEF writeError
<1>7. CASE writeHardRelease(e)
  <2>1. Leads(x, clearState(x, "HARDRELEASE"), w, y, v)
    BY <1>1, ClearStateGone, GoneIsLed DEF Primitives
  <2> QED BY <1>1, <1>7, <2>1, OrderCall DEF writeHardRelease
<1> QED BY <1>2, <1>3, <1>4, <1>5, <1>6, <1>7 DEF writeHighSide

LEMMA establishKeepsOrder ==
    ASSUME OneHandset, IInv, ChainInv, OrderInv, NEW e \in End,
           setAwaitingEstablish(e) \/ sendUFrameSABM(e) \/ startT200(e) \/ readEstablish(e)
    PROVE  OrderInv'
<1> DEFINE x == link[e]
           y == link[Peer(e)]
           w == writer[e]
           v == writer[Peer(e)]
<1>1. e = "ms"
  <2>1. writer[e].pc \in Establishing
    BY DEF setAwaitingEstablish, sendUFrameSABM, startT200, readEstablish, goto, Establishing
  <2>2. writer["bts"].pc \notin Establishing BY Sides DEF Local, OneHandset
  <2> QED BY <2>1, <2>2 DEF End
<1>2. /\ x \in Endpoint /\ y \in Endpoint /\ Leads(x, x, w, y, v) /\ Asking(x, w)
      /\ link = [link EXCEPT ![e] = x]
      /\ {"estSABM", "estTimer", "estRead", "idle"} \subseteq WriterPC \ {"data"}
  BY OrderSides, LeadsRefl DEF WriterPC, IInv
<1>3. CASE setAwaitingEstablish(e)
  <2> DEFINE z == [clearCounters(x) EXCEPT !.state = "AwaitingEstablish"]
  <2>1. goto(e, "estSet", "estSABM") /\ link' = [link EXCEPT ![e] = z]
    BY <1>3 DEF setAwaitingEstablish
  <2>2. w.pc = "estSet" BY <2>1 DEF goto
  <2>3. ~CarriesAck(x.sent) BY <1>2, <2>2 DEF Asking
  <2>4. x.ind = "none" \/ x.l1 = "closed"
    <3>1. x.state = "LinkReleased" BY <1>1, <2>2, Sides DEF ChainInv, Chain, Asks
    <3>2. Reported(x) BY LocalFacts DEF Local, Sound
    <3> QED BY <3>1, <3>2 DEF Reported, OneHandset
  <2>5. Leads(x, z, w, y, v) /\ z.sent = x.sent BY <1>2, <2>4, AwaitLeads
  <2> HIDE DEF z
  <2> QED BY <1>2, <2>1, <2>3, <2>5, OrderGoto
<1>4. CASE sendUFrameSABM(e)
  <2> DEFINE f == SABM(x, Access)
             z == IF Preempted THEN writeL1([x EXCEPT !.sent = f], f) ELSE writeL1Ack(x, f)
             to == IF Preempted THEN "estTimer" ELSE "estRead"
  <2>1. goto(e, "estSABM", to) /\ link' = [link EXCEPT ![e] = z]
    BY <1>1, <1>2, <1>4 DEF sendUFrameSABM, IInv
  <2>2. w.pc = "estSABM" BY <2>1 DEF goto
  <2>3. f \in Frame /\ f.t = "SABM"
    BY <1>2, InfoAssumption, SABMType DEF Identity, SABM, UFrame, MkFrame
  <2> HIDE DEF f
  <2>4. ~CarriesAck(x.sent) BY <1>2, <2>2 DEF Asking
  <2>5. Leads(x, z, w, y, v) /\ z.sent = f BY <1>2, <2>3, <2>4, AskingLeads
  <2>6. ~CarriesAck(z.sent) BY <2>3, <2>5 DEF CarriesAck
  <2>7. to \in WriterPC \ {"data"} BY <1>2
  <2> HIDE DEF z, to
  <2> QED BY <2>1, <2>5, <2>6, <2>7, OrderGoto
<1>5. CASE startT200(e)
  <2> DEFINE z == [x EXCEPT !.t200 = TRUE]
  <2>1. goto(e, "estTimer", "estRead") /\ link' = [link EXCEPT ![e] = z]
    BY <1>5 DEF startT200, IInv
  <2>2. w.pc = "estTimer" BY <2>1 DEF goto
  <2>3. ~CarriesAck(x.sent) BY <1>2, <2>2 DEF Asking
  <2> DEFINE f == SABM(x, Access)
  <2>4. f \in Frame /\ f.t = "SABM"
    BY <1>2, InfoAssumption, SABMType DEF Identity, SABM, UFrame, MkFrame
  <2> HIDE DEF f
  <2>5. Leads(x, z, w, y, v) BY <1>2, <2>3, <2>4, AskingLeads
  <2> HIDE DEF z
  <2> QED BY <1>2, <2>1, <2>5, OrderGoto
<1>6. CASE readEstablish(e)
  <2>1. goto(e, "estRead", "idle") /\ UNCHANGED link BY <1>6 DEF readEstablish
  <2> QED BY <1>2, <2>1, OrderGoto
<1> QED BY <1>3, <1>4, <1>5, <1>6

LEMMA releaseKeepsOrder ==
    ASSUME IInv, OrderInv, NEW e \in End,
           lockForRelease(e) \/ ackThenRelease(e) \/ releaseReturns(e)
    PROVE  OrderInv'
<1> DEFINE x == link[e]
           y == link[Peer(e)]
           w == writer[e]
           v == writer[Peer(e)]
           z == startRelease(x)
<1>1. /\ x \in Endpoint /\ y \in Endpoint /\ Leads(x, x, w, y, v)
      /\ link = [link EXCEPT ![e] = x]
      /\ {"relWait", "relDone", "idle"} \subseteq WriterPC \ {"data"}
  BY OrderSides, LeadsRefl DEF WriterPC, IInv
<1>2. Leads(x, z, w, y, v) BY <1>1, startReleaseLeads
<1>3. ASSUME NEW from, NEW to,
             \/ from = "relLock" /\ to \in {"relWait", "relDone"}
             \/ from = "relWait" /\ to = "relDone"
             \/ from = "relDone" /\ to = "idle",
             goto(e, from, to),
             UNCHANGED link \/ link' = [link EXCEPT ![e] = startRelease(link[e])]
      PROVE  OrderInv'
  <2>1. from # "data" /\ to \in WriterPC \ {"data"} BY <1>1, <1>3
  <2>2. to \notin {"estSet", "estSABM", "estTimer"} BY <1>3
  <2>3. CASE UNCHANGED link BY <1>1, <1>3, <2>1, <2>2, <2>3, OrderGoto
  <2>4. CASE link' = [link EXCEPT ![e] = z]
    <3> HIDE DEF z
    <3> QED BY <1>2, <1>3, <2>1, <2>2, <2>4, OrderGoto
  <2> QED BY <1>3, <2>3, <2>4
<1> HIDE DEF z
<1>4. CASE lockForRelease(e) BY <1>3, <1>4 DEF lockForRelease
<1>5. CASE ackThenRelease(e) BY <1>3, <1>5 DEF ackThenRelease
<1>6. CASE releaseReturns(e) BY <1>3, <1>6 DEF releaseReturns
<1> QED BY <1>4, <1>5, <1>6

\* An endpoint of a channel that was opened, or opened again.
Opened(x) ==
    /\ x.state = "LinkReleased" /\ x.ind = "none" /\ x.tx = <<>> /\ x.rx = <<>>
    /\ x.recvBuffer = <<>> /\ ~x.t200 /\ x.VS = 0 /\ x.VA = 0 /\ x.VR = 0

LEMMA OpenedStarts ==
    ASSUME NEW x, NEW w, NEW y, Opened(x), Opened(y) PROVE Own(x) /\ Half(x, w, y)
<1>1. DOMAIN x.tx = {} /\ DOMAIN x.rx = {} /\ DOMAIN x.recvBuffer = {}
      /\ DOMAIN y.tx = {} /\ DOMAIN y.rx = {} /\ y.recvBuffer = <<>> /\ Len(y.recvBuffer) = 0
  BY DEF Opened
<1>2. ~Up(x) /\ ~Up(y) /\ 0 \in SeqNum BY Zeros DEF Opened, Up, Multiframe
<1>3. Own(x) BY <1>1, <1>2 DEF Own, Received, Opened
<1>4. Data(x.tx, y) BY <1>1 DEF Data
<1>5. Sends(x, w, y)
  <2>1. \A h \in Segment : MayCome(x, w, h) => Awaits(y, h)
    BY <1>1, <1>2 DEF MayCome, Active, Awaits
  <2> QED BY <1>1, <2>1 DEF Sends, Opened
<1>6. Acked(x, y)
  <2>1. Quotes(y, 1, {0, 0}) BY <1>1 DEF Quotes, Opened
  <2>2. x.VS = 0 /\ y.VR = 0 /\ Mod(0 + 1) # 0 BY <1>2, NextNumber DEF Opened
  <2> QED BY <1>1, <1>2, <2>1, <2>2 DEF Acked
<1> QED BY <1>3, <1>4, <1>5, <1>6 DEF Half

LEMMA openKeepsOrder ==
    ASSUME OneHandset, IInv, OrderInv, open PROVE OrderInv'
<1>1. /\ "bts" \in End /\ "ms" \in End /\ Peer("bts") = "ms" /\ "bts" # "ms"
      /\ link["bts"] \in Endpoint
      /\ link \in [End -> Endpoint] /\ writer \in [End -> Writer]
      /\ writer["bts"].pc \notin Establishing
  BY Sides DEF IInv, Local, OneHandset
<1> DEFINE c == clearCounters(link["bts"])
           x == opened(link["bts"])
           y == newEndpoint(0)
           u == newWriter(writer["ms"].count, session')
<1>2. /\ link' = [link EXCEPT !["bts"] = x, !["ms"] = y]
      /\ writer' = [writer EXCEPT !["ms"] = u]
  BY <1>1 DEF open
<1>3. /\ link'["bts"] = x /\ link'["ms"] = y
      /\ writer'["bts"] = writer["bts"] /\ writer'["ms"] = u
  BY <1>1, <1>2
<1>4. Opened(y) BY DEF newEndpoint, Opened
<1>5. Opened(x)
  <2>1. c \in Endpoint /\ c.VS = 0 /\ c.VA = 0 /\ c.VR = 0 /\ c.t200 = FALSE
        /\ c.recvBuffer = <<>>
    BY <1>1, ClearCountersFields, ClearCountersRest
  <2>2. x = [c EXCEPT !.state = "LinkReleased", !.l1 = "open", !.fresh = expectsFirst(link["bts"].C),
                      !.tx = <<>>, !.rx = <<>>, !.ind = "none"]
    BY DEF opened
  <2> HIDE DEF c, x
  <2> QED BY <2>1, <2>2 DEF Opened, Endpoint
<1>6. u.pc = "idle" BY DEF newWriter
<1>7. Asking(x, writer["bts"]) /\ Asking(y, u) BY <1>1, <1>6 DEF Asking, Establishing
<1> HIDE DEF x, y, u
<1>8. Both(x, writer["bts"], y, u) /\ Own(y) BY <1>4, <1>5, OpenedStarts DEF Both
<1> QED BY <1>1, <1>3, <1>7, <1>8, OrderTwoSides

LEMMA InitOrder == ASSUME Init PROVE OrderInv
<1>1. \A e \in End : Opened(link[e]) /\ writer[e].pc = "idle"
  BY DEF Init, newEndpoint, newWriter, Opened
<1>2. \A e \in End : Peer(e) \in End BY DEF Peer, End
<1>3. \A e \in End : Own(link[e]) /\ Half(link[e], writer[e], link[Peer(e)])
  BY <1>1, <1>2, OpenedStarts
<1> QED BY <1>1, <1>3 DEF OrderInv, Asking

LEMMA NextKeepsOrder ==
    ASSUME OneHandset, IInv, ChainInv, OrderInv, [Next]_vars PROVE OrderInv'
<1>1. ASSUME NEW e \in End, serviceLoop(e) \/ threadSteps(e) \/ writeHighSide(e) \/ loseFrame(e)
      PROVE  OrderInv'
  BY <1>1, firstFrameKeepsOrder, frameArrivesKeepsOrder, timerExpiresKeepsOrder,
     ackOrGiveUpKeepsOrder, establishKeepsOrder, releaseKeepsOrder, writeHighSideKeepsOrder,
     loseFrameKeepsOrder
     DEF serviceLoop, threadSteps
<1>2. CASE rivalSABM BY <1>2, rivalSABMKeepsOrder
<1>3. CASE open BY <1>3, openKeepsOrder
<1>4. CASE UNCHANGED vars BY <1>4 DEF vars, OrderInv
<1> QED BY <1>1, <1>2, <1>3, <1>4 DEF Next

\* Each side's L3 is given whole messages of the other, in the order they were written and
\* none twice, however frames are lost, late or repeated and whatever N(R) says of them
\* (sendMultiframeData, receiveIFrame, bufferIFrameData).
THEOREM WholeMessagesInOrder == ASSUME OneHandset PROVE Spec => []WholeInOrder
<1>1. Spec => [](IInv /\ ChainInv) BY ChainInvariance
<1>2. Init => OrderInv BY InitOrder
<1>3. IInv /\ ChainInv /\ OrderInv /\ [Next]_vars => OrderInv' BY NextKeepsOrder
<1>4. OrderInv => WholeInOrder
  <2>1. ASSUME OrderInv, NEW e \in End PROVE Received(link[e]) BY <2>1 DEF OrderInv, Own
  <2> QED BY <2>1 DEF WholeInOrder, Received
<1> QED BY <1>1, <1>2, <1>3, <1>4, PTL DEF Spec
=============================================================================
