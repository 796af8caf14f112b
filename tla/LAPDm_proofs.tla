---------------------------- MODULE LAPDm_proofs ----------------------------
(***************************************************************************)
(* Theorems about LAPDm, for every value of its constants: type            *)
(* correctness, TransientTimed, CleanWhileEstablishing, LinkStateReported. *)
(*                                                                         *)
(* Every handler is an operator on one endpoint, so most of the work is    *)
(* done once per handler: Step(x, y) says what any handler called on x     *)
(* may make of it, whoever calls it.                                       *)
(***************************************************************************)
EXTENDS LAPDm, TLAPS

\* CleanWhileEstablishing and LinkStateReported, of one endpoint.
Clean(x) == x.eip => x.VR = 0 /\ x.VA = 0 /\ x.recvBuffer = <<>>
Reported(x) ==
    /\ x.state \in Multiframe => x.ind = "ESTABLISH"
    /\ x.state = "LinkReleased" =>
          /\ x.ind # "ESTABLISH"
          /\ Sapi = 0 /\ x.ind # "none" => x.l1 = "closed"
Sound(x) == Clean(x) /\ Reported(x)

\* A handler enters neither waiting state, and stops no T200 in one it does not leave.
Step(x, y) ==
    /\ y \in Endpoint
    /\ y.C = x.C /\ y.fresh = x.fresh
    /\ y.state \in {"AwaitingEstablish", "AwaitingRelease"} =>
          y.state = x.state /\ (x.t200 => y.t200)
    /\ Sound(x) => Sound(y)

\* What releasing the link leaves behind.
Released(x, y) ==
    /\ y \in Endpoint
    /\ y.C = x.C /\ y.fresh = x.fresh
    /\ y.state = "LinkReleased" /\ ~y.eip /\ Reported(y)

\* Only tx may differ: something may have been sent.
Sent(x, y) ==
    /\ y \in Endpoint
    /\ y.C = x.C /\ y.fresh = x.fresh /\ y.state = x.state /\ y.t200 = x.t200
    /\ y.eip = x.eip /\ y.VS = x.VS /\ y.VA = x.VA /\ y.VR = x.VR /\ y.RC = x.RC
    /\ y.recvBuffer = x.recvBuffer /\ y.ind = x.ind /\ y.l1 = x.l1
    /\ y.check = x.check /\ y.discard = x.discard
\* Multiframe operation goes on, and L3 is told nothing.
GoesOn(x, y) ==
    /\ y \in Endpoint
    /\ y.C = x.C /\ y.fresh = x.fresh /\ y.ind = x.ind /\ y.eip = x.eip
    /\ y.state \in Multiframe
-----------------------------------------------------------------------------
(***************************************************************************)
(* Lemmas about the relations, the frames and the procedures.              *)
(***************************************************************************)
LEMMA StepRefl == ASSUME NEW x \in Endpoint PROVE Step(x, x)
  BY DEF Step

LEMMA StepTrans ==
    ASSUME NEW x, NEW y, NEW z, Step(x, y), Step(y, z) PROVE Step(x, z)
  BY DEF Step

LEMMA ReleasedIsStep == ASSUME NEW x, NEW y, Released(x, y) PROVE Step(x, y)
  BY DEF Released, Step, Sound, Clean

LEMMA SentIsStep == ASSUME NEW x, NEW y, Sent(x, y) PROVE Step(x, y)
  BY DEF Sent, Step, Sound, Clean, Reported

LEMMA Zeros == 0 \in SeqNum /\ 0 \in RetryCount /\ <<>> \in RecvBuffer
  BY SeqModAssumption, N200Assumption DEF SeqNum, RetryCount, RecvBuffer

LEMMA ModIsSeqNum == ASSUME NEW n \in SeqNum PROVE Mod(n + 1) \in SeqNum
  BY SeqModAssumption DEF SeqNum, Mod

LEMMA Bits == ASSUME NEW x \in Endpoint PROVE CBit(x) \in {0, 1} /\ RBit(x) \in {0, 1}
  BY DEF CBit, RBit, Endpoint

LEMMA UFrameType ==
    ASSUME NEW t \in {"SABM", "DISC", "UA", "DM", "UI"}, NEW c \in {0, 1},
           NEW p \in BOOLEAN, NEW i \in Identity
    PROVE  UFrame(t, c, p, i) \in Frame
  BY Zeros DEF UFrame, MkFrame, Frame

LEMMA WriteL1Sent ==
    ASSUME NEW x \in Endpoint, NEW f \in Frame PROVE Sent(x, writeL1(x, f))
<1>1. x.tx \in Seq(Frame) BY DEF Endpoint, RadioLink
<1>2. Append(x.tx, f) \in RadioLink BY <1>1 DEF RadioLink
<1> DEFINE y == [x EXCEPT !.tx = Append(x.tx, f)]
<1>3. y \in Endpoint BY <1>2 DEF Endpoint
<1>4. Sent(x, y) BY <1>3 DEF Sent, Endpoint
<1>5. Sent(x, x) BY DEF Sent
<1> QED BY <1>4, <1>5 DEF writeL1

\* The senders that start no timer.
LEMMA SenderSent ==
    ASSUME NEW x \in Endpoint, NEW F \in BOOLEAN, NEW i \in Identity
    PROVE  /\ Sent(x, sendSFrameRR(x, F)) /\ Sent(x, sendSFrameREJ(x, F))
           /\ Sent(x, sendUFrameDM(x, F)) /\ Sent(x, sendUFrameUA(x, F, i))
           /\ Sent(x, sendUFrameUI(x))
<1>1. NoInfo \in Identity BY DEF Identity
<1>2. x.VR \in SeqNum BY DEF Endpoint
<1>3. MkFrame("RR", RBit(x), F, 0, x.VR, NoInfo) \in Frame
  BY <1>1, <1>2, Zeros, Bits DEF MkFrame, Frame
<1>4. MkFrame("REJ", RBit(x), F, 0, x.VR, NoInfo) \in Frame
  BY <1>1, <1>2, Zeros, Bits DEF MkFrame, Frame
<1>5. /\ UFrame("DM", RBit(x), F, NoInfo) \in Frame
      /\ UFrame("UA", RBit(x), F, i) \in Frame
      /\ UFrame("UI", CBit(x), TRUE, NoInfo) \in Frame
  BY <1>1, Bits, UFrameType
<1> QED BY <1>3, <1>4, <1>5, WriteL1Sent
      DEF sendSFrameRR, sendSFrameREJ, sendUFrameDM, sendUFrameUA, sendUFrameUI

LEMMA UASent ==
    ASSUME NEW x \in Endpoint, NEW F \in BOOLEAN, NEW i \in Identity
    PROVE  sendUFrameUA(x, F, i) \in Endpoint /\ Sent(x, sendUFrameUA(x, F, i))
  BY SenderSent DEF Sent

LEMMA WriteL1AckSent ==
    ASSUME NEW x \in Endpoint, NEW f \in Frame
    PROVE  /\ writeL1Ack(x, f).t200
           /\ \E y \in Endpoint : Sent(x, y) /\ writeL1Ack(x, f) = [y EXCEPT !.t200 = TRUE]
           /\ writeL1Ack(x, f) \in Endpoint
<1> DEFINE w == [x EXCEPT !.sent = f]
           y == writeL1(w, f)
<1>1. w \in Endpoint /\ Sent(x, w) BY DEF Endpoint, Sent
<1>2. Sent(w, y) BY <1>1, WriteL1Sent
<1>3. y \in Endpoint /\ Sent(x, y) BY <1>1, <1>2 DEF Sent
<1>4. writeL1Ack(x, f) = [y EXCEPT !.t200 = TRUE] BY DEF writeL1Ack
<1>5. [y EXCEPT !.t200 = TRUE] \in Endpoint BY <1>3 DEF Endpoint
<1>6. [y EXCEPT !.t200 = TRUE].t200 BY <1>3 DEF Endpoint
<1> QED BY <1>3, <1>4, <1>5, <1>6

LEMMA ClearCountersType ==
    ASSUME NEW x \in Endpoint
    PROVE  LET y == clearCounters(x) IN
           /\ y \in Endpoint
           /\ y.C = x.C /\ y.fresh = x.fresh /\ y.state = x.state /\ y.eip = x.eip
           /\ y.ind = x.ind /\ y.l1 = x.l1 /\ ~y.t200 /\ y.discard
           /\ y.VR = 0 /\ y.VA = 0 /\ y.recvBuffer = <<>>
  BY Zeros DEF clearCounters, Endpoint

LEMMA ReleaseLinkReleases ==
    ASSUME NEW x \in Endpoint, NEW p \in Primitives \ {"ESTABLISH"}
    PROVE  Released(x, releaseLink(x, p))
<1>1. releaseLink(x, p) \in Endpoint
  BY DEF releaseLink, indicate, writeL1Release, Endpoint, LAPDState, L1State, Indication
<1> QED BY <1>1 DEF Released, Reported, Multiframe, releaseLink, indicate, writeL1Release,
                    Endpoint, Primitives

LEMMA ClearStateReleases ==
    ASSUME NEW x \in Endpoint, NEW p \in Primitives \ {"ESTABLISH"}
    PROVE  Released(x, clearState(x, p))
  BY ClearCountersType, ReleaseLinkReleases DEF clearState, Released

LEMMA AbnormalReleases == ASSUME NEW x \in Endpoint PROVE Released(x, abnormalRelease(x))
<1> DEFINE a == indicate(x, "ERROR")
           b == sendUFrameDM(a, TRUE)
           c == writeL1Error(b)
<1>1. a \in Endpoint /\ a.C = x.C /\ a.fresh = x.fresh
  BY DEF indicate, Endpoint, Indication, Primitives
<1>2. b \in Endpoint /\ b.C = a.C /\ b.fresh = a.fresh
  BY <1>1, SenderSent DEF Sent, Identity
<1>3. c \in Endpoint /\ c.C = b.C /\ c.fresh = b.fresh
  BY <1>2 DEF writeL1Error, Endpoint, L1State
<1>4. Released(c, clearState(c, "RELEASE")) BY <1>3, ClearStateReleases DEF Primitives
<1> QED BY <1>1, <1>2, <1>3, <1>4 DEF abnormalRelease, Released

LEMMA EipIsStep == ASSUME NEW x \in Endpoint PROVE Step(x, [x EXCEPT !.eip = FALSE])
  BY DEF Step, Sound, Clean, Reported, Endpoint
-----------------------------------------------------------------------------
(***************************************************************************)
(* T200.                                                                   *)
(***************************************************************************)
LEMMA ResentType ==
    ASSUME NEW x \in Endpoint, NEW e \in End PROVE resent(x, e) \in Frame
<1>1. x.sent \in Frame /\ x.VR \in SeqNum BY DEF Endpoint
<1> QED BY <1>1 DEF resent, Frame

LEMMA RetransmissionSends ==
    ASSUME NEW x \in Endpoint, NEW e \in End, x.RC <= N200
    PROVE  LET y == retransmissionProcedure(x, e) IN
           /\ y \in Endpoint /\ y.t200
           /\ y.C = x.C /\ y.fresh = x.fresh /\ y.state = x.state /\ y.eip = x.eip
           /\ y.VR = x.VR /\ y.VA = x.VA /\ y.recvBuffer = x.recvBuffer
           /\ y.ind = x.ind /\ y.l1 = x.l1
<1> DEFINE w == [x EXCEPT !.RC = x.RC + 1]
           v == writeL1(w, resent(x, e))
<1>1. x.RC + 1 \in RetryCount BY N200Assumption DEF RetryCount, Endpoint
<1>2. w \in Endpoint BY <1>1 DEF Endpoint
<1>3. Sent(w, v) BY <1>2, ResentType, WriteL1Sent
<1>4. retransmissionProcedure(x, e) = [v EXCEPT !.t200 = TRUE] BY DEF retransmissionProcedure
<1>5. /\ w.C = x.C /\ w.fresh = x.fresh /\ w.state = x.state /\ w.eip = x.eip
      /\ w.VR = x.VR /\ w.VA = x.VA /\ w.recvBuffer = x.recvBuffer
      /\ w.ind = x.ind /\ w.l1 = x.l1
  BY DEF Endpoint
<1> HIDE DEF w, v
<1> QED BY <1>3, <1>4, <1>5 DEF Sent, Endpoint

LEMMA T200Step ==
    ASSUME NEW x \in Endpoint, NEW e \in End
    PROVE  /\ Step(x, T200Expiration(x, e))
           /\ T200Expiration(x, e).state \in {x.state, "LinkReleased"}
<1> DEFINE y == [x EXCEPT !.t200 = FALSE]
<1>1. /\ y \in Endpoint /\ y.C = x.C /\ y.fresh = x.fresh /\ y.state = x.state
      /\ y.eip = x.eip /\ y.VR = x.VR /\ y.VA = x.VA /\ y.recvBuffer = x.recvBuffer
      /\ y.ind = x.ind /\ y.l1 = x.l1 /\ y.RC = x.RC
  BY DEF Endpoint
<1>2. x.RC \in Nat /\ N200 \in Nat BY N200Assumption DEF Endpoint, RetryCount
<1>3. CASE x.state = "AwaitingRelease"
  <2>1. T200Expiration(x, e) = releaseLink(y, "RELEASE") BY <1>3 DEF T200Expiration, Multiframe
  <2>2. Released(y, releaseLink(y, "RELEASE"))
    BY <1>1, ReleaseLinkReleases DEF Primitives
  <2> QED BY <1>1, <2>1, <2>2, ReleasedIsStep DEF Released
<1>4. CASE x.state \in Multiframe \union {"AwaitingEstablish"} /\ x.RC > N200
  <2>1. T200Expiration(x, e) = abnormalRelease(y) BY <1>4 DEF T200Expiration, Multiframe
  <2>2. Released(y, abnormalRelease(y)) BY <1>1, AbnormalReleases
  <2> QED BY <1>1, <2>1, <2>2, ReleasedIsStep DEF Released
<1>5. CASE x.state \in Multiframe \union {"AwaitingEstablish"} /\ ~(x.RC > N200)
  <2>1. T200Expiration(x, e) = retransmissionProcedure(y, e)
    BY <1>5 DEF T200Expiration, Multiframe
  <2>2. y.RC <= N200 BY <1>1, <1>2, <1>5
  <2> HIDE DEF y
  <2> QED BY <1>1, <2>1, <2>2, RetransmissionSends DEF Step, Sound, Clean, Reported
<1>6. CASE x.state = "LinkReleased"
  <2>1. T200Expiration(x, e) = y BY <1>6 DEF T200Expiration, Multiframe
  <2> HIDE DEF y
  <2> QED BY <1>1, <1>6, <2>1 DEF Step, Sound, Clean, Reported
<1> QED BY <1>3, <1>4, <1>5, <1>6 DEF Endpoint, LAPDState, Multiframe

LEMMA CheckT200Step ==
    ASSUME NEW x \in Endpoint, NEW e \in End, NEW expired \in BOOLEAN
    PROVE  /\ Step(x, checkT200(x, e, expired))
           /\ checkT200(x, e, expired).state \in {x.state, "LinkReleased"}
  BY T200Step, StepRefl DEF checkT200
-----------------------------------------------------------------------------
(***************************************************************************)
(* The receive handlers.                                                   *)
(***************************************************************************)
LEMMA GoesOnIsStep ==
    ASSUME NEW x, NEW y, x.state \in Multiframe, ~x.eip, GoesOn(x, y) PROVE Step(x, y)
  BY DEF GoesOn, Step, Sound, Clean, Reported, Multiframe

LEMMA SentGoesOn ==
    ASSUME NEW x, NEW y, NEW z, GoesOn(x, y), Sent(y, z) PROVE GoesOn(x, z)
  BY DEF GoesOn, Sent

LEMMA ContentionGoesOn ==
    ASSUME NEW x \in Endpoint, x.state \in Multiframe PROVE GoesOn(x, leaveContention(x))
  BY DEF GoesOn, leaveContention, Endpoint, Multiframe, LAPDState

LEMMA AckGoesOn ==
    ASSUME NEW x, NEW y, GoesOn(x, y), NEW n \in SeqNum PROVE GoesOn(x, processAck(y, n))
  BY Zeros DEF GoesOn, processAck, Endpoint

LEMMA DeliverGoesOn ==
    ASSUME NEW x, NEW y, GoesOn(x, y), NEW u \in Seq(Segment \union Handsets)
    PROVE  GoesOn(x, deliver(y, u))
<1>1. y \in Endpoint /\ y.rx \in Seq(Seq(Segment \union Handsets))
  BY DEF GoesOn, Endpoint, DeliveredUnits
<1>2. Append(y.rx, u) \in DeliveredUnits BY <1>1 DEF DeliveredUnits
<1> QED BY <1>1, <1>2 DEF GoesOn, deliver, Endpoint

LEMMA BufferGoesOn ==
    ASSUME NEW x, NEW y, GoesOn(x, y), NEW s \in Segment
    PROVE  GoesOn(x, bufferIFrameData(y, s))
<1>1. y \in Endpoint /\ y.recvBuffer \in Seq(Segment) BY DEF GoesOn, Endpoint, RecvBuffer
<1>2. Append(y.recvBuffer, s) \in RecvBuffer BY <1>1 DEF RecvBuffer
<1>3. Append(y.recvBuffer, s) \in Seq(Segment \union Handsets) BY <1>1
<1>4. CASE s.more
  <2>1. GoesOn(x, [y EXCEPT !.recvBuffer = Append(y.recvBuffer, s)])
    BY <1>1, <1>2 DEF GoesOn, Endpoint
  <2> QED BY <1>4, <2>1 DEF bufferIFrameData
<1>5. CASE ~s.more
  <2>1. GoesOn(x, [y EXCEPT !.recvBuffer = <<>>])
    BY <1>1, Zeros DEF GoesOn, Endpoint
  <2> QED BY <1>3, <1>5, <2>1, DeliverGoesOn DEF bufferIFrameData
<1> QED BY <1>4, <1>5

LEMMA receiveIFrameStep ==
    ASSUME NEW x \in Endpoint, NEW f \in Frame, f.t = "I"
    PROVE  Step(x, receiveIFrame(x, f))
<1> DEFINE w == [x EXCEPT !.eip = FALSE]
           v == leaveContention(w)
           y == processAck(v, f.nr)
           u == [y EXCEPT !.VR = Mod(y.VR + 1)]
<1>1. f.nr \in SeqNum /\ f.pf \in BOOLEAN /\ f.info \in Segment BY DEF Frame
<1>2. w \in Endpoint /\ Step(x, w) /\ w.state = x.state /\ ~w.eip
  BY EipIsStep DEF Endpoint
<1>3. CASE x.state \in Multiframe
  <2>1. GoesOn(w, v) BY <1>2, <1>3, ContentionGoesOn
  <2> HIDE DEF w, v
  <2>2. GoesOn(w, y) BY <2>1, <1>1, AckGoesOn
  <2>3. y \in Endpoint BY <2>2 DEF GoesOn
  <2> HIDE DEF y
  <2>4. GoesOn(w, u)
    <3>1. Mod(y.VR + 1) \in SeqNum BY <2>3, ModIsSeqNum DEF Endpoint
    <3> QED BY <2>2, <2>3, <3>1 DEF GoesOn, Endpoint
  <2> HIDE DEF u
  <2>5. GoesOn(w, bufferIFrameData(u, f.info)) BY <1>1, <2>4, BufferGoesOn
  <2>6. GoesOn(w, sendSFrameRR(bufferIFrameData(u, f.info), f.pf))
    BY <1>1, <2>5, SenderSent, SentGoesOn DEF GoesOn, Identity
  <2>7. GoesOn(w, sendSFrameREJ(y, f.pf))
    BY <1>1, <2>2, <2>3, SenderSent, SentGoesOn DEF Identity
  <2>8. GoesOn(w, receiveIFrame(x, f))
    BY <1>3, <2>6, <2>7 DEF receiveIFrame, w, v, y, u
  <2> QED BY <1>2, <1>3, <2>8, GoesOnIsStep, StepTrans
<1>4. CASE x.state \notin Multiframe
  BY <1>2, <1>4 DEF receiveIFrame
<1> QED BY <1>3, <1>4
LEMMA receiveSFrameStep ==
    ASSUME NEW x \in Endpoint, NEW f \in Frame PROVE Step(x, receiveSFrame(x, f))
<1> DEFINE w == [x EXCEPT !.eip = FALSE]
           v == leaveContention(w)
           y == processAck(v, f.nr)
           poll == f.cr # w.C /\ f.pf
           z == IF poll THEN sendSFrameRR(v, TRUE) ELSE v
<1>1. f.nr \in SeqNum /\ f.pf \in BOOLEAN BY DEF Frame
<1>2. w \in Endpoint /\ Step(x, w) /\ w.state = x.state /\ ~w.eip
  BY EipIsStep DEF Endpoint
<1> HIDE DEF w
<1>3. ASSUME w.state \in Multiframe PROVE Step(w, receiveSFrameRR(w, f))
  <2>1. GoesOn(w, v) BY <1>2, <1>3, ContentionGoesOn
  <2> HIDE DEF v
  <2>2. GoesOn(w, sendSFrameRR(v, TRUE))
    BY <2>1, SenderSent, SentGoesOn DEF GoesOn, Identity
  <2>3. GoesOn(w, z) BY <2>1, <2>2
  <2> HIDE DEF z
  <2>4. GoesOn(w, processAck(z, f.nr)) BY <1>1, <2>3, AckGoesOn
  <2>5. receiveSFrameRR(w, f) = processAck(z, f.nr) BY <1>3 DEF receiveSFrameRR, z, v
  <2> QED BY <1>2, <1>3, <2>4, <2>5, GoesOnIsStep
<1>4. ASSUME w.state \in Multiframe PROVE Step(w, receiveSFrameREJ(w, f))
  <2>1. GoesOn(w, v) BY <1>2, <1>4, ContentionGoesOn
  <2> HIDE DEF v
  <2>2. GoesOn(w, y) BY <1>1, <2>1, AckGoesOn
  <2>3. y \in Endpoint BY <2>2 DEF GoesOn
  <2> HIDE DEF y
  <2>4. GoesOn(w, sendSFrameRR(y, TRUE))
    BY <2>2, <2>3, SenderSent, SentGoesOn DEF Identity
  <2>5. Step(w, abnormalRelease(y))
    BY <1>2, <1>4, <2>2, <2>3, AbnormalReleases, ReleasedIsStep, GoesOnIsStep, StepTrans
  <2>6. receiveSFrameREJ(w, f) \in {y, sendSFrameRR(y, TRUE), abnormalRelease(y)}
    BY <1>1, <1>4 DEF receiveSFrameREJ, y, v
  <2> QED BY <1>2, <1>4, <2>2, <2>4, <2>5, <2>6, GoesOnIsStep
<1>5. ASSUME w.state \notin Multiframe
      PROVE  receiveSFrameRR(w, f) = w /\ receiveSFrameREJ(w, f) = w
  BY <1>5 DEF receiveSFrameRR, receiveSFrameREJ
<1>6. Step(w, receiveSFrameRR(w, f)) /\ Step(w, receiveSFrameREJ(w, f))
  BY <1>2, <1>3, <1>4, <1>5, StepRefl
<1> QED BY <1>2, <1>6, StepTrans DEF receiveSFrame, w

LEMMA AcceptSABMStep ==
    ASSUME NEW x \in Endpoint, NEW f \in Frame, f.info \in Identity
    PROVE  Step(x, acceptSABM(x, f))
<1> DEFINE c == clearCounters(x)
           d == [c EXCEPT !.eip = TRUE]
           y == indicate(d, "ESTABLISH")
           r == [y EXCEPT !.state = "ContentionResolution", !.check = f.info]
           l == [y EXCEPT !.state = "LinkEstablished"]
<1>1. /\ c \in Endpoint /\ c.C = x.C /\ c.fresh = x.fresh
      /\ c.VR = 0 /\ c.VA = 0 /\ c.recvBuffer = <<>>
  BY ClearCountersType
<1> HIDE DEF c
<1>2. /\ y \in Endpoint /\ y.C = x.C /\ y.fresh = x.fresh /\ y.ind = "ESTABLISH"
      /\ y.VR = 0 /\ y.VA = 0 /\ y.recvBuffer = <<>>
  BY <1>1 DEF indicate, Endpoint, Indication, Primitives
<1> HIDE DEF y
<1>3. Step(x, l)
  BY <1>2 DEF Step, Sound, Clean, Reported, Endpoint, LAPDState, Multiframe
<1>4. Step(x, sendUFrameUA(l, TRUE, NoInfo))
  <2>1. l \in Endpoint /\ NoInfo \in Identity BY <1>3 DEF Step, Identity
  <2> HIDE DEF l
  <2>2. Sent(l, sendUFrameUA(l, TRUE, NoInfo)) BY <2>1, UASent
  <2> QED BY <1>3, <2>2, SentIsStep, StepTrans
<1>5. CASE f.info # NoInfo
  <2>1. f.info \in Handsets /\ <<f.info>> \in Seq(Segment \union Handsets)
    BY <1>5 DEF Identity
  <2>2. GoesOn(r, r) BY <1>2 DEF GoesOn, Endpoint, LAPDState, Multiframe
  <2>3. GoesOn(r, deliver(r, <<f.info>>)) BY <2>1, <2>2, DeliverGoesOn
  <2>4. GoesOn(r, sendUFrameUA(deliver(r, <<f.info>>), TRUE, f.info))
    <3>1. deliver(r, <<f.info>>) \in Endpoint BY <2>3 DEF GoesOn
    <3> HIDE DEF r
    <3>2. Sent(deliver(r, <<f.info>>), sendUFrameUA(deliver(r, <<f.info>>), TRUE, f.info))
      BY <3>1, UASent
    <3> QED BY <2>3, <3>2, SentGoesOn
  <2>5. /\ r.C = x.C /\ r.fresh = x.fresh /\ r.ind = "ESTABLISH"
        /\ r.VR = 0 /\ r.VA = 0 /\ r.recvBuffer = <<>>
    BY <1>2 DEF Endpoint
  <2>6. LET q == deliver(r, <<f.info>>)
        IN  q \in Endpoint /\ q.VR = 0 /\ q.VA = 0 /\ q.recvBuffer = <<>>
    BY <2>3, <2>5, <2>2 DEF deliver, GoesOn, Endpoint
  <2>7. LET s == sendUFrameUA(deliver(r, <<f.info>>), TRUE, f.info)
        IN  s.VR = 0 /\ s.VA = 0 /\ s.recvBuffer = <<>>
    BY <2>6, SenderSent DEF Sent
  <2>8. acceptSABM(x, f) = sendUFrameUA(deliver(r, <<f.info>>), TRUE, f.info)
    BY <1>5 DEF acceptSABM, y, d, c
  <2> HIDE DEF r
  <2> QED BY <2>4, <2>5, <2>7, <2>8 DEF GoesOn, Step, Sound, Clean, Reported, Multiframe
<1>6. CASE f.info = NoInfo
  <2>1. acceptSABM(x, f) = sendUFrameUA(l, TRUE, NoInfo) BY <1>6 DEF acceptSABM, y, d, c
  <2> QED BY <1>4, <2>1
<1> QED BY <1>5, <1>6

LEMMA receiveUFrameSABMStep ==
    ASSUME NEW x \in Endpoint, NEW f \in Frame, f.info \in Identity
    PROVE  Step(x, receiveUFrameSABM(x, f))
<1> DEFINE l == [x EXCEPT !.state = "LinkEstablished"]
           u == sendUFrameUA(x, TRUE, NoInfo)
<1>1. NoInfo \in Identity /\ f.pf \in BOOLEAN BY DEF Identity, Frame
<1>2. /\ Step(x, x) /\ Step(x, acceptSABM(x, f)) /\ Step(x, abnormalRelease(x))
      /\ Step(x, sendUFrameDM(x, TRUE))
      /\ Step(x, sendUFrameUA(x, TRUE, f.info)) /\ Step(x, sendUFrameUA(x, TRUE, NoInfo))
  BY <1>1, StepRefl, AcceptSABMStep, AbnormalReleases, ReleasedIsStep, SenderSent, SentIsStep
<1>3. CASE ~f.pf
  <2>1. receiveUFrameSABM(x, f) = x BY <1>3 DEF receiveUFrameSABM
  <2> QED BY <1>2, <2>1
<1>4. CASE f.pf /\ x.state = "ContentionResolution"
  <2>1. Step(x, l) /\ l \in Endpoint
    BY <1>4 DEF Step, Sound, Clean, Reported, Endpoint, LAPDState, Multiframe
  <2> HIDE DEF l
  <2>2. Step(x, sendUFrameUA(l, TRUE, f.info))
    BY <2>1, UASent, SentIsStep, StepTrans
  <2>3. receiveUFrameSABM(x, f) \in {x, sendUFrameUA(l, TRUE, f.info)}
    BY <1>4 DEF receiveUFrameSABM, l
  <2> QED BY <1>2, <2>2, <2>3
<1>5. CASE f.pf /\ x.state = "LinkEstablished"
  <2>1. u \in Endpoint /\ Step(x, u) /\ u.state = "LinkEstablished"
    <3>1. Sent(x, u) BY <1>1, UASent
    <3> HIDE DEF u
    <3> QED BY <1>5, <3>1, SentIsStep DEF Sent
  <2> HIDE DEF u
  <2>2. Step(u, clearCounters(u))
    BY <2>1, ClearCountersType DEF Step, Sound, Clean, Reported
  <2>3. receiveUFrameSABM(x, f) \in
            {sendUFrameUA(x, TRUE, f.info), abnormalRelease(x), clearCounters(u)}
    BY <1>5 DEF receiveUFrameSABM, u
  <2>4. Step(x, clearCounters(u)) BY <2>1, <2>2, StepTrans
  <2> QED BY <1>2, <2>3, <2>4
<1>6. CASE f.pf /\ x.state \notin {"ContentionResolution", "LinkEstablished"}
  <2>1. receiveUFrameSABM(x, f) \in
            {acceptSABM(x, f), sendUFrameUA(x, TRUE, NoInfo), sendUFrameDM(x, TRUE)}
    BY <1>6 DEF receiveUFrameSABM, Endpoint, LAPDState
  <2> QED BY <1>2, <2>1
<1> QED BY <1>1, <1>3, <1>4, <1>5, <1>6

LEMMA receiveUFrameDISCStep ==
    ASSUME NEW x \in Endpoint, NEW f \in Frame PROVE Step(x, receiveUFrameDISC(x, f))
<1> DEFINE y == [x EXCEPT !.eip = FALSE]
           m == sendUFrameDM(y, f.pf)
           a == sendUFrameUA(y, f.pf, NoInfo)
<1>1. f.pf \in BOOLEAN /\ NoInfo \in Identity BY DEF Frame, Identity
<1>2. y \in Endpoint /\ Step(x, y) BY EipIsStep DEF Endpoint
<1> HIDE DEF y
<1>3. Sent(y, m) /\ Sent(y, a) /\ m \in Endpoint /\ a \in Endpoint
  <2>1. Sent(y, m) BY <1>1, <1>2, SenderSent
  <2>2. Sent(y, a) BY <1>1, <1>2, UASent
  <2> QED BY <2>1, <2>2 DEF Sent
<1> HIDE DEF m, a
<1>6. Step(x, m) /\ Step(x, a) BY <1>2, <1>3, SentIsStep, StepTrans
<1>4. /\ Step(x, clearState(y, "RELEASE")) /\ Step(x, clearState(m, "RELEASE"))
      /\ Step(x, clearState(a, "RELEASE"))
  BY <1>2, <1>3, <1>6, ClearStateReleases, ReleasedIsStep, StepTrans DEF Primitives
<1>5. receiveUFrameDISC(x, f) \in
          {clearState(y, "RELEASE"), clearState(m, "RELEASE"), clearState(a, "RELEASE"), a}
  BY DEF receiveUFrameDISC, y, m, a, Endpoint, LAPDState, Multiframe
<1> QED BY <1>4, <1>5, <1>6

LEMMA receiveUFrameUAStep ==
    ASSUME NEW x \in Endpoint, NEW f \in Frame PROVE Step(x, receiveUFrameUA(x, f))
<1> DEFINE c == clearCounters(x)
           l == [c EXCEPT !.state = "LinkEstablished"]
<1>1. /\ c \in Endpoint /\ c.C = x.C /\ c.fresh = x.fresh /\ c.eip = x.eip
      /\ c.VR = 0 /\ c.VA = 0 /\ c.recvBuffer = <<>>
  BY ClearCountersType
<1> HIDE DEF c
<1>2. Step(x, indicate(l, "ESTABLISH"))
  BY <1>1 DEF indicate, Step, Sound, Clean, Reported, Endpoint, Indication, Primitives,
              LAPDState, Multiframe
<1>3. Step(x, clearState(x, "RELEASE")) /\ Step(x, abnormalRelease(x))
  BY ClearStateReleases, AbnormalReleases, ReleasedIsStep DEF Primitives
<1>4. receiveUFrameUA(x, f) \in
          {indicate(l, "ESTABLISH"), clearState(x, "RELEASE"), abnormalRelease(x)}
  BY DEF receiveUFrameUA, l, c, Frame
<1> QED BY <1>2, <1>3, <1>4

LEMMA receiveFrameStep ==
    ASSUME NEW x \in Endpoint, NEW f \in Frame PROVE Step(x, receiveFrame(x, f))
<1>1. CASE f.t = "I"
  <2>1. receiveFrame(x, f) = receiveIFrame(x, f) BY <1>1 DEF receiveFrame
  <2> QED BY <1>1, <2>1, receiveIFrameStep
<1>2. CASE f.t \in {"RR", "REJ"}
  <2>1. receiveFrame(x, f) = receiveSFrame(x, f) BY <1>2 DEF receiveFrame
  <2> QED BY <2>1, receiveSFrameStep
<1>3. CASE f.t = "SABM"
  <2>1. receiveFrame(x, f) = receiveUFrameSABM(x, f) BY <1>3 DEF receiveFrame
  <2>2. f.info \in Identity BY <1>3 DEF Frame
  <2> QED BY <2>1, <2>2, receiveUFrameSABMStep
<1>4. CASE f.t = "DISC"
  <2>1. receiveFrame(x, f) = receiveUFrameDISC(x, f) BY <1>4 DEF receiveFrame
  <2> QED BY <2>1, receiveUFrameDISCStep
<1>5. CASE f.t = "UA"
  <2>1. receiveFrame(x, f) = receiveUFrameUA(x, f) BY <1>5 DEF receiveFrame
  <2> QED BY <2>1, receiveUFrameUAStep
<1>6. CASE f.t = "DM"
  <2>1. receiveFrame(x, f) \in {x, clearState(x, "RELEASE")}
    BY <1>6 DEF receiveFrame, receiveUFrameDM
  <2>2. Step(x, clearState(x, "RELEASE"))
    BY ClearStateReleases, ReleasedIsStep DEF Primitives
  <2> QED BY <2>1, <2>2, StepRefl
<1>7. CASE f.t = "UI"
  <2>1. receiveFrame(x, f) = x BY <1>7 DEF receiveFrame
  <2> QED BY <2>1, StepRefl
<1> QED BY <1>1, <1>2, <1>3, <1>4, <1>5, <1>6, <1>7 DEF Frame-----------------------------------------------------------------------------
(***************************************************************************)
(* The inductive invariant, said of one side e: its endpoint x, its L3     *)
(* thread w and the number s of the channel's use.  TransientTimed alone   *)
(* is not inductive: the announcement of the first frame (fresh) stops     *)
(* T200, so it must be known where it can still come; and RELEASE must not *)
(* be called in a waiting state, so a waiting state must be known to have  *)
(* its own thread.                                                         *)
(***************************************************************************)
Releasing == {"relLock", "relWait", "relDone"}
Establishing == {"estSet", "estSABM", "estTimer", "estRead"}

Local(e, x, w, s) ==
    /\ x \in Endpoint /\ w \in Writer /\ Sound(x)
    /\ x.C = IF e = "bts" THEN 1 ELSE 0
    /\ w.ses <= s
    /\ w.pc = "data" => w.next <= w.last /\ w.count >= 1
    /\ x.state = "AwaitingRelease" => w.pc = "relDone" /\ (w.ses = s => x.t200)
    /\ x.state = "AwaitingEstablish" => x.t200 \/ w.pc \in {"estSABM", "estTimer"}
    /\ x.fresh => /\ e = "bts" /\ Sapi = 0
                  /\ \/ x.state = "LinkReleased"
                     \/ x.state = "AwaitingRelease" /\ w.ses # s
                  /\ w.pc \in Releasing => w.ses # s
    /\ e = "bts" /\ Sapi = 0 =>
          x.state # "AwaitingEstablish" /\ w.pc \notin Establishing

IInv ==
    /\ link \in [End -> Endpoint] /\ writer \in [End -> Writer]
    /\ session \in 0 .. MaxOpen /\ rivals \in 0 .. MaxRival
    /\ \A e \in End : Local(e, link[e], writer[e], session)

LEMMA LocalStep ==
    ASSUME NEW e \in End, NEW x, NEW y, NEW w, NEW s \in Int,
           Local(e, x, w, s), Step(x, y), ~x.fresh \/ y.state \in {x.state, "LinkReleased"}
    PROVE  Local(e, y, w, s)
  BY DEF Local, Step

LEMMA LocalReleased ==
    ASSUME NEW e \in End, NEW x, NEW y, NEW w, NEW s \in Int,
           Local(e, x, w, s), Released(x, y)
    PROVE  Local(e, y, w, s)
  BY DEF Local, Released, Sound, Clean

LEMMA LocalSent ==
    ASSUME NEW e \in End, NEW x, NEW y, NEW w, NEW s \in Int, Local(e, x, w, s), Sent(x, y)
    PROVE  Local(e, y, w, s)
  BY DEF Local, Sent, Sound, Clean, Reported

\* A step of one side that leaves the other alone.
LEMMA OneSide ==
    ASSUME IInv, NEW e \in End, NEW x, NEW w, Local(e, x, w, session),
           link' = [link EXCEPT ![e] = x], writer' = [writer EXCEPT ![e] = w],
           UNCHANGED <<session, rivals>>
    PROVE  IInv'
<1>1. x \in Endpoint /\ w \in Writer BY DEF Local
<1>2. link' \in [End -> Endpoint] /\ writer' \in [End -> Writer] BY <1>1 DEF IInv
<1>3. ASSUME NEW d \in End PROVE Local(d, link'[d], writer'[d], session)
  BY <1>1 DEF IInv
<1> QED BY <1>2, <1>3 DEF IInv

\* The same, when the thread does not move.
LEMMA OneEndpoint ==
    ASSUME IInv, NEW e \in End, NEW x, Local(e, x, writer[e], session),
           link' = [link EXCEPT ![e] = x], UNCHANGED <<writer, session, rivals>>
    PROVE  IInv'
<1>1. writer' = [writer EXCEPT ![e] = writer[e]] BY DEF IInv
<1> QED BY <1>1, OneSide

LEMMA LocalFacts ==
    ASSUME IInv, NEW e \in End
    PROVE  /\ Local(e, link[e], writer[e], session) /\ link[e] \in Endpoint
           /\ writer[e] \in Writer /\ session \in Int /\ Peer(e) \in End /\ Peer(e) # e
  BY BoundsAssumption DEF IInv, Peer, End
-----------------------------------------------------------------------------
(***************************************************************************)
(* The service loop and the surroundings preserve it.                      *)
(***************************************************************************)
LEMMA firstFramePreserves == ASSUME IInv, NEW e \in End, firstFrame(e) PROVE IInv'
<1> DEFINE x == link[e]
           v == [x EXCEPT !.fresh = FALSE]
           y == clearCounters(v)
<1>1. Local(e, x, writer[e], session) /\ x \in Endpoint /\ x.fresh
  BY LocalFacts DEF firstFrame
<1>2. /\ v \in Endpoint /\ v.C = x.C /\ ~v.fresh /\ v.state = x.state /\ v.eip = x.eip
      /\ v.ind = x.ind /\ v.l1 = x.l1
  BY <1>1 DEF Endpoint
<1> HIDE DEF v
<1>3. Local(e, y, writer[e], session)
  BY <1>1, <1>2, ClearCountersType DEF Local, Sound, Clean, Reported
<1>4. link' = [link EXCEPT ![e] = y] BY DEF firstFrame, y, v, x
<1> QED BY <1>3, <1>4, OneEndpoint DEF firstFrame

LEMMA HeadIsFrame ==
    ASSUME NEW x \in Endpoint, x.tx # <<>>
    PROVE  Head(x.tx) \in Frame /\ Sent(x, [x EXCEPT !.tx = Tail(x.tx)])
<1>1. x.tx \in Seq(Frame) BY DEF Endpoint, RadioLink
<1>2. Head(x.tx) \in Frame /\ Tail(x.tx) \in RadioLink BY <1>1 DEF RadioLink
<1> QED BY <1>2 DEF Sent, Endpoint

LEMMA frameArrivesPreserves == ASSUME IInv, NEW e \in End, frameArrives(e) PROVE IInv'
<1> DEFINE p == Peer(e)
           f == Head(link[p].tx)
           q == [link[p] EXCEPT !.tx = Tail(link[p].tx)]
<1>1. PICK expired \in BOOLEAN :
        link' = [link EXCEPT ![e] = checkT200(receiveFrame(link[e], f), e, expired),
                             ![p].tx = Tail(@)]
  BY ToggleAssumption DEF frameArrives
<1> DEFINE r == receiveFrame(link[e], f)
           y == checkT200(r, e, expired)
<1>2. /\ Local(e, link[e], writer[e], session) /\ link[e] \in Endpoint /\ ~link[e].fresh
      /\ Local(p, link[p], writer[p], session) /\ link[p] \in Endpoint
      /\ p \in End /\ p # e /\ session \in Int
  BY LocalFacts DEF frameArrives
<1>3. f \in Frame /\ Sent(link[p], q) BY <1>2, HeadIsFrame DEF frameArrives
<1>4. link \in [End -> Endpoint] BY DEF IInv
<1>5. link'[e] = y /\ link'[p] = q /\ \A d \in End : d = e \/ d = p
  BY <1>1, <1>2, <1>4 DEF Peer, End
<1> HIDE DEF f, q, p
<1>6. Step(link[e], r) /\ r \in Endpoint BY <1>2, <1>3, receiveFrameStep DEF Step
<1> HIDE DEF r
<1>7. Step(link[e], y) BY <1>6, CheckT200Step, StepTrans
<1> HIDE DEF y
<1>8. Local(e, y, writer[e], session) BY <1>2, <1>7, LocalStep
<1>9. Local(p, q, writer[p], session) BY <1>2, <1>3, LocalSent
<1>10. link' \in [End -> Endpoint]
  <2>1. y \in Endpoint /\ q \in Endpoint BY <1>8, <1>9 DEF Local
  <2>2. link' = [d \in End |-> link'[d]] BY <1>1, <1>4
  <2> QED BY <1>5, <2>1, <2>2
<1>11. UNCHANGED <<writer, session, rivals>> BY DEF frameArrives
<1> QED BY <1>5, <1>8, <1>9, <1>10, <1>11 DEF IInv

LEMMA timerExpiresPreserves == ASSUME IInv, NEW e \in End, timerExpires(e) PROVE IInv'
<1> DEFINE y == checkT200(link[e], e, TRUE)
<1>1. Local(e, link[e], writer[e], session) /\ link[e] \in Endpoint /\ session \in Int
  BY LocalFacts
<1>2. Step(link[e], y) /\ y.state \in {link[e].state, "LinkReleased"}
  BY <1>1, CheckT200Step
<1>3. link' = [link EXCEPT ![e] = y] /\ UNCHANGED <<writer, session, rivals>>
  BY DEF timerExpires
<1> HIDE DEF y
<1>4. Local(e, y, writer[e], session) BY <1>1, <1>2, LocalStep
<1> QED BY <1>3, <1>4, OneEndpoint

LEMMA loseFramePreserves == ASSUME IInv, NEW e \in End, loseFrame(e) PROVE IInv'
<1> DEFINE y == [link[e] EXCEPT !.tx = Tail(link[e].tx)]
<1>1. Local(e, link[e], writer[e], session) /\ link[e] \in Endpoint /\ session \in Int
  BY LocalFacts
<1>2. Sent(link[e], y) BY <1>1, HeadIsFrame DEF loseFrame
<1>3. link' = [link EXCEPT ![e] = y] BY DEF loseFrame
<1> HIDE DEF y
<1>4. Local(e, y, writer[e], session) BY <1>1, <1>2, LocalSent
<1> QED BY <1>3, <1>4, OneEndpoint DEF loseFrame

LEMMA rivalSABMPreserves == ASSUME IInv, rivalSABM PROVE IInv'
<1> DEFINE x == link["ms"]
<1>1. /\ "ms" \in End /\ x \in Endpoint /\ session \in Int
      /\ Local("ms", x, writer["ms"], session)
  BY LocalFacts DEF End
<1>2. PICK h \in Handsets : link' = [link EXCEPT !["ms"] = writeL1(x, SABM(x, h))]
  BY DEF rivalSABM
<1>3. SABM(x, h) \in Frame BY <1>1, Bits, UFrameType DEF SABM, Identity
<1>4. Local("ms", writeL1(x, SABM(x, h)), writer["ms"], session)
  BY <1>1, <1>3, WriteL1Sent, LocalSent
<1> DEFINE y == writeL1(x, SABM(x, h))
<1>5. y \in Endpoint BY <1>4 DEF Local
<1>6. link' = [link EXCEPT !["ms"] = y] BY <1>2
<1> HIDE DEF y
<1>7. link' \in [End -> Endpoint] /\ link'["ms"] = y /\ link'["bts"] = link["bts"]
  BY <1>5, <1>6 DEF IInv, End
<1>8. UNCHANGED <<writer, session>> /\ rivals' \in 0 .. MaxRival
  BY BoundsAssumption DEF rivalSABM, IInv
<1> QED BY <1>4, <1>7, <1>8 DEF IInv, End, y-----------------------------------------------------------------------------
(***************************************************************************)
(* The L3 thread preserves it: sendMultiframeData and DATA.                *)
(***************************************************************************)
LEMMA WriterType ==
    ASSUME NEW w \in Writer, NEW pc \in WriterPC, NEW c \in 0 .. MaxReq, NEW s \in 0 .. MaxOpen,
           NEW n \in 1 .. MaxSegs + 1, NEW l \in 0 .. MaxSegs
    PROVE  /\ [w EXCEPT !.pc = pc] \in Writer
           /\ [w EXCEPT !.pc = pc, !.next = n] \in Writer
           /\ [w EXCEPT !.pc = pc, !.count = c, !.ses = s] \in Writer
           /\ [w EXCEPT !.count = c, !.ses = s, !.next = n, !.last = l] \in Writer
<1> DEFINE A == 0 .. MaxReq
           B == 0 .. MaxOpen
           D == 1 .. MaxSegs + 1
           E == 0 .. MaxSegs
<1>1. Writer = [pc : WriterPC, count : A, ses : B, next : D, last : E] BY DEF Writer
<1>2. c \in A /\ s \in B /\ n \in D /\ l \in E OBVIOUS
<1> HIDE DEF A, B, D, E
<1> QED BY <1>1, <1>2

LEMMA SegmentType ==
    ASSUME NEW w \in Writer, w.next <= w.last, w.count >= 1 PROVE segmentOf(w) \in Segment
<1>1. w.count \in 1 .. MaxReq /\ w.next \in 1 .. MaxSegs /\ w.ses \in 0 .. MaxOpen
  BY BoundsAssumption DEF Writer
<1>2. (w.next < w.last) \in BOOLEAN OBVIOUS
<1> QED BY <1>1, <1>2 DEF segmentOf, Segment

LEMMA IFrameSent ==
    ASSUME NEW x \in Endpoint, NEW g \in Segment
    PROVE  LET y == sendIFrame(x, g) IN
           /\ y \in Endpoint
           /\ y.C = x.C /\ y.fresh = x.fresh /\ y.state = x.state /\ y.eip = x.eip
           /\ y.VR = x.VR /\ y.VA = x.VA /\ y.recvBuffer = x.recvBuffer
           /\ y.ind = x.ind /\ y.l1 = x.l1
<1> DEFINE v == [x EXCEPT !.VS = Mod(x.VS + 1)]
           f == MkFrame("I", CBit(x), FALSE, x.VS, x.VR, g)
<1>1. x.VS \in SeqNum /\ x.VR \in SeqNum BY DEF Endpoint
<1>2. f \in Frame BY <1>1, Bits DEF MkFrame, Frame
<1>3. Mod(x.VS + 1) \in SeqNum BY <1>1, ModIsSeqNum
<1>4. /\ v \in Endpoint
      /\ v.C = x.C /\ v.fresh = x.fresh /\ v.state = x.state /\ v.eip = x.eip
      /\ v.VR = x.VR /\ v.VA = x.VA /\ v.recvBuffer = x.recvBuffer
      /\ v.ind = x.ind /\ v.l1 = x.l1
  BY <1>3 DEF Endpoint
<1>5. sendIFrame(x, g) = writeL1Ack(v, f) BY DEF sendIFrame
<1> HIDE DEF v, f
<1>6. PICK y \in Endpoint : Sent(v, y) /\ writeL1Ack(v, f) = [y EXCEPT !.t200 = TRUE]
  BY <1>2, <1>4, WriteL1AckSent
<1>7. LET z == [y EXCEPT !.t200 = TRUE] IN
      /\ z.C = y.C /\ z.fresh = y.fresh /\ z.state = y.state /\ z.eip = y.eip
      /\ z.VR = y.VR /\ z.VA = y.VA /\ z.recvBuffer = y.recvBuffer
      /\ z.ind = y.ind /\ z.l1 = y.l1
  BY DEF Endpoint
<1>8. writeL1Ack(v, f) \in Endpoint BY <1>2, <1>4, WriteL1AckSent
<1> QED BY <1>4, <1>5, <1>6, <1>7, <1>8 DEF Sent

LEMMA SendSegmentsPreserves ==
    ASSUME IInv, NEW e \in End, NEW x, NEW w \in Writer,
           Local(e, x, [w EXCEPT !.pc = "data"], session),
           sendSegments(e, x, w), UNCHANGED <<session, rivals>>
    PROVE  IInv'
<1> DEFINE d == [w EXCEPT !.pc = "data"]
           i == [w EXCEPT !.pc = "idle"]
           n == [w EXCEPT !.pc = IF w.next = w.last THEN "idle" ELSE "data", !.next = w.next + 1]
           y == sendIFrame(x, segmentOf(w))
<1>1. /\ w.next <= w.last /\ w.count >= 1 /\ x \in Endpoint /\ session \in Int
      /\ w.next \in Int /\ w.last \in Int /\ w.last <= MaxSegs /\ w.next >= 1
      /\ MaxSegs \in Int
  BY BoundsAssumption, LocalFacts DEF Local, Writer
<1>2. i \in Writer /\ n \in Writer
  <2>1. w.next + 1 \in 1 .. MaxSegs + 1 BY <1>1
  <2>2. /\ "idle" \in WriterPC
        /\ (IF w.next = w.last THEN "idle" ELSE "data") \in WriterPC
    BY DEF WriterPC
  <2>3. 0 \in 0 .. MaxReq /\ 0 \in 0 .. MaxOpen /\ 0 \in 0 .. MaxSegs
    BY BoundsAssumption
  <2> QED BY <2>1, <2>2, <2>3, WriterType
<1>3. CASE ~canPass(x)
  BY <1>3, OneSide DEF sendSegments
<1>4. CASE canPass(x) /\ (x.discard \/ x.state \notin Multiframe)
  <2>1. Local(e, x, i, session)
    BY <1>2 DEF Local, Writer, Releasing, Establishing
  <2>2. link' = [link EXCEPT ![e] = x] /\ writer' = [writer EXCEPT ![e] = i]
    BY <1>4 DEF sendSegments
  <2> QED BY <2>1, <2>2, OneSide
<1>5. CASE canPass(x) /\ ~(x.discard \/ x.state \notin Multiframe)
  <2>1. link' = [link EXCEPT ![e] = y] /\ writer' = [writer EXCEPT ![e] = n]
    BY <1>5 DEF sendSegments
  <2>2. segmentOf(w) \in Segment BY <1>1, SegmentType
  <2>3. x.state \in {"LinkEstablished", "ContentionResolution"} BY <1>5 DEF Multiframe
  <2>4. /\ y \in Endpoint
        /\ y.C = x.C /\ y.fresh = x.fresh /\ y.state = x.state /\ y.eip = x.eip
        /\ y.VR = x.VR /\ y.VA = x.VA /\ y.recvBuffer = x.recvBuffer
        /\ y.ind = x.ind /\ y.l1 = x.l1
    BY <1>1, <2>2, IFrameSent
  <2>5. /\ n.ses = w.ses /\ n.last = w.last /\ n.count = w.count /\ n.next = w.next + 1
        /\ n.pc = (IF w.next = w.last THEN "idle" ELSE "data")
        /\ d.ses = w.ses
    BY DEF Writer
  <2> HIDE DEF y, n
  <2>6. Sound(y) BY <2>4 DEF Local, Sound, Clean, Reported
  <2>7. Local(e, y, n, session)
    BY <1>1, <1>2, <2>3, <2>4, <2>5, <2>6 DEF Local, Releasing, Establishing
  <2> QED BY <2>1, <2>7, OneSide
<1> QED BY <1>3, <1>4, <1>5

LEMMA ackOrGiveUpPreserves == ASSUME IInv, NEW e \in End, ackOrGiveUp(e) PROVE IInv'
<1>1. Local(e, link[e], writer[e], session) /\ writer[e] \in Writer BY LocalFacts
<1>2. writer[e] = [writer[e] EXCEPT !.pc = "data"] BY <1>1 DEF ackOrGiveUp, Writer
<1> QED BY <1>1, <1>2, SendSegmentsPreserves DEF ackOrGiveUp

\* What a call finds: a thread that is idle, so no side in AwaitingRelease.
LEMMA CallFacts ==
    ASSUME IInv, NEW e \in End, NEW op, request(e, op)
    PROVE  /\ writer[e].pc = "idle" /\ writer[e].count + 1 \in 1 .. MaxReq
           /\ link[e].state # "AwaitingRelease"
           /\ link[e].fresh => link[e].state = "LinkReleased"
           /\ session \in 0 .. MaxOpen /\ op \in Requests[e]
  BY LocalFacts, BoundsAssumption DEF request, Local, Writer, IInv

LEMMA writeDataPreserves == ASSUME IInv, NEW e \in End, writeData(e) PROVE IInv'
<1>1. request(e, "DATA") BY DEF writeData
<1>2. /\ Local(e, link[e], writer[e], session) /\ link[e] \in Endpoint
      /\ writer[e] \in Writer /\ session \in Int
  BY LocalFacts
<1>3. CASE link[e].state = "LinkReleased"
  <2> DEFINE v == [writer[e] EXCEPT !.pc = "idle", !.count = writer[e].count + 1, !.ses = session]
             y == abnormalRelease(link[e])
  <2>1. link' = [link EXCEPT ![e] = y] /\ writer' = [writer EXCEPT ![e] = v]
    BY <1>3 DEF writeData, called, IInv
  <2>2. v \in Writer /\ v.pc = "idle" /\ v.ses = session
    <3>1. /\ writer[e].count + 1 \in 0 .. MaxReq /\ session \in 0 .. MaxOpen
          /\ 1 \in 1 .. MaxSegs + 1 /\ 0 \in 0 .. MaxSegs /\ "idle" \in WriterPC
      BY <1>1, CallFacts, BoundsAssumption DEF WriterPC
    <3>2. v \in Writer BY <1>2, <3>1, WriterType
    <3> QED BY <1>2, <3>2 DEF Writer
  <2>3. Local(e, y, writer[e], session) /\ Released(link[e], y)
    BY <1>2, AbnormalReleases, LocalReleased
  <2> HIDE DEF y, v
  <2>4. Local(e, y, v, session)
    BY <1>2, <2>2, <2>3 DEF Local, Released, Releasing, Establishing
  <2> QED BY <1>1, <2>1, <2>4, OneSide DEF request
<1>4. CASE link[e].state # "LinkReleased"
  <2> DEFINE x == [link[e] EXCEPT !.discard = FALSE]
  <2>1. PICK n \in 1 .. MaxSegs :
          sendSegments(e, x, [writer[e] EXCEPT !.count = writer[e].count + 1, !.ses = session,
                                              !.next = 1, !.last = n])
    BY <1>4 DEF writeData
  <2> DEFINE w == [writer[e] EXCEPT !.count = writer[e].count + 1, !.ses = session,
                                    !.next = 1, !.last = n]
             v == [w EXCEPT !.pc = "data"]
  <2>2. n \in Int /\ n >= 1 /\ n \in 0 .. MaxSegs /\ 1 \in 1 .. MaxSegs + 1
    BY BoundsAssumption
  <2>3. w \in Writer /\ v \in Writer /\ v.pc = "data" /\ v.ses = session
    <3>1. /\ writer[e].count + 1 \in 0 .. MaxReq /\ session \in 0 .. MaxOpen
          /\ "data" \in WriterPC
      BY <1>1, CallFacts, BoundsAssumption DEF WriterPC
    <3>2. w \in Writer BY <1>2, <2>2, <3>1, WriterType
    <3> HIDE DEF w
    <3>3. v \in Writer /\ v.pc = "data" /\ v.ses = w.ses
      BY <3>1, <3>2 DEF Writer
    <3> QED BY <1>2, <3>2, <3>3 DEF w, Writer
  <2>4. v.next = 1 /\ v.last = n /\ v.count = writer[e].count + 1 BY <1>2 DEF Writer
  <2>5. /\ x \in Endpoint /\ x.state = link[e].state /\ x.C = link[e].C
        /\ x.fresh = link[e].fresh /\ x.t200 = link[e].t200
        /\ Sound(link[e]) => Sound(x)
    BY <1>2 DEF Endpoint, Sound, Clean, Reported
  <2> HIDE DEF x, v
  <2>6. Local(e, x, v, session)
    BY <1>1, <1>2, <1>4, <2>2, <2>3, <2>4, <2>5, CallFacts
       DEF Local, Releasing, Establishing
  <2>7. sendSegments(e, x, w) BY <2>1
  <2> HIDE DEF w
  <2> QED BY <1>1, <2>3, <2>6, <2>7, SendSegmentsPreserves DEF v, request
<1> QED BY <1>3, <1>4-----------------------------------------------------------------------------
(***************************************************************************)
(* The L3 thread: the other primitives.                                    *)
(***************************************************************************)
LEMMA CallMoves ==
    ASSUME IInv, NEW e \in End, NEW op, request(e, op), NEW pc \in WriterPC, called(e, pc)
    PROVE  \E v \in Writer : v.pc = pc /\ v.ses = session /\ writer' = [writer EXCEPT ![e] = v]
<1> DEFINE v == [writer[e] EXCEPT !.pc = pc, !.count = writer[e].count + 1, !.ses = session]
<1>1. writer[e] \in Writer BY LocalFacts
<1>2. /\ writer[e].count + 1 \in 0 .. MaxReq /\ session \in 0 .. MaxOpen
      /\ 1 \in 1 .. MaxSegs + 1 /\ 0 \in 0 .. MaxSegs
  BY CallFacts, BoundsAssumption
<1>3. v \in Writer BY <1>1, <1>2, WriterType
<1>4. writer' = [writer EXCEPT ![e] = v] BY DEF called, IInv
<1>5. v.pc = pc /\ v.ses = session BY <1>1 DEF Writer
<1> QED BY <1>3, <1>4, <1>5

LEMMA CallPreserves ==
    ASSUME IInv, NEW e \in End, NEW op, request(e, op), NEW pc \in WriterPC, called(e, pc),
           NEW y, Step(link[e], y), y.state \in {link[e].state, "LinkReleased"},
           link' = [link EXCEPT ![e] = y],
           pc \in Establishing => ~(e = "bts" /\ Sapi = 0),
           pc \in Releasing => y.state # "LinkReleased",
           pc # "data"
    PROVE  IInv'
<1>1. PICK v \in Writer : v.pc = pc /\ v.ses = session /\ writer' = [writer EXCEPT ![e] = v]
  BY CallMoves
<1>2. Local(e, link[e], writer[e], session) /\ session \in Int BY LocalFacts
<1>3. Local(e, y, writer[e], session) BY <1>2, LocalStep
<1>4. writer[e].pc = "idle" BY CallFacts
<1>5. Local(e, y, v, session) BY <1>1, <1>2, <1>3, <1>4 DEF Local
<1> QED BY <1>1, <1>5, OneSide DEF request

LEMMA writeHighSidePreserves == ASSUME IInv, NEW e \in End, writeHighSide(e) PROVE IInv'
<1> DEFINE x == link[e]
<1>1. x \in Endpoint /\ "idle" \in WriterPC /\ "idle" \notin Establishing \union Releasing
  BY LocalFacts DEF WriterPC, Establishing, Releasing
<1>2. Step(x, x) /\ link = [link EXCEPT ![e] = x]
  BY <1>1, StepRefl DEF IInv
<1>3. CASE writeUnitData(e)
  <2>1. Sent(x, sendUFrameUI(x)) BY <1>1, SenderSent DEF Identity
  <2>2. Step(x, sendUFrameUI(x)) /\ sendUFrameUI(x).state = x.state
    BY <2>1, SentIsStep DEF Sent
  <2> QED BY <1>1, <1>3, <2>2, CallPreserves DEF writeUnitData
<1>4. CASE writeData(e)
  BY <1>4, writeDataPreserves
<1>5. CASE writeEstablish(e)
  <2> DEFINE pc == IF x.state = "LinkEstablished" THEN "estRead" ELSE "estSet"
  <2>1. request(e, "ESTABLISH") /\ called(e, pc) /\ link' = link
    BY <1>5 DEF writeEstablish
  <2>2. pc \in WriterPC /\ pc \notin Releasing /\ pc # "data" BY DEF WriterPC, Releasing
  <2>3. ~(e = "bts" /\ Sapi = 0) BY <2>1, CallFacts, RequestsAssumption
  <2> HIDE DEF pc
  <2> QED BY <1>2, <2>1, <2>2, <2>3, CallPreserves
<1>6. CASE writeRelease(e)
  <2> DEFINE pc == IF x.state = "LinkReleased" THEN "idle" ELSE "relLock"
  <2>1. request(e, "RELEASE") /\ called(e, pc) /\ link' = link
    BY <1>6 DEF writeRelease
  <2>2. /\ pc \in WriterPC /\ pc \notin Establishing /\ pc # "data"
        /\ pc \in Releasing => x.state # "LinkReleased"
    BY DEF WriterPC, Establishing, Releasing
  <2> HIDE DEF pc
  <2> QED BY <1>2, <2>1, <2>2, CallPreserves
<1>7. CASE writeError(e)
  <2>1. Released(x, abnormalRelease(x)) BY <1>1, AbnormalReleases
  <2>2. Step(x, abnormalRelease(x)) /\ abnormalRelease(x).state = "LinkReleased"
    BY <2>1, ReleasedIsStep DEF Released
  <2> QED BY <1>1, <1>7, <2>2, CallPreserves DEF writeError
<1>8. CASE writeHardRelease(e)
  <2>1. Released(x, clearState(x, "HARDRELEASE"))
    BY <1>1, ClearStateReleases DEF Primitives
  <2>2. /\ Step(x, clearState(x, "HARDRELEASE"))
        /\ clearState(x, "HARDRELEASE").state = "LinkReleased"
    BY <2>1, ReleasedIsStep DEF Released
  <2> QED BY <1>1, <1>8, <2>2, CallPreserves DEF writeHardRelease
<1> QED BY <1>3, <1>4, <1>5, <1>6, <1>7, <1>8 DEF writeHighSide

LEMMA GotoMoves ==
    ASSUME IInv, NEW e \in End, NEW from, NEW to \in WriterPC, goto(e, from, to)
    PROVE  /\ writer[e].pc = from
           /\ \E v \in Writer : /\ v.pc = to /\ v.ses = writer[e].ses
                               /\ writer' = [writer EXCEPT ![e] = v]
           /\ UNCHANGED <<session, rivals>>
<1> DEFINE v == [writer[e] EXCEPT !.pc = to]
<1>1. v \in Writer /\ v.pc = to /\ v.ses = writer[e].ses BY LocalFacts DEF Writer
<1>2. writer' = [writer EXCEPT ![e] = v] BY DEF goto, IInv
<1> QED BY <1>1, <1>2 DEF goto

LEMMA GotoPreserves ==
    ASSUME IInv, NEW e \in End, NEW from, NEW to \in WriterPC, goto(e, from, to), to # "data",
           NEW y, link' = [link EXCEPT ![e] = y],
           \A v \in Writer : v.pc = to /\ v.ses = writer[e].ses => Local(e, y, v, session)
    PROVE  IInv'
<1>1. PICK v \in Writer : /\ v.pc = to /\ v.ses = writer[e].ses
                         /\ writer' = [writer EXCEPT ![e] = v]
  BY GotoMoves
<1>2. Local(e, y, v, session) BY <1>1
<1> QED BY <1>1, <1>2, OneSide DEF goto

LEMMA SABMType == ASSUME NEW x \in Endpoint, NEW i \in Identity PROVE SABM(x, i) \in Frame
  BY Bits, UFrameType DEF SABM

LEMMA establishPreserves ==
    ASSUME IInv, NEW e \in End,
           setAwaitingEstablish(e) \/ sendUFrameSABM(e) \/ startT200(e) \/ readEstablish(e)
    PROVE  IInv'
<1> DEFINE x == link[e]
           w == writer[e]
<1>1. Local(e, x, w, session) /\ x \in Endpoint BY LocalFacts
<1>2. {"idle", "estSet", "estSABM", "estTimer", "estRead"} \subseteq WriterPC BY DEF WriterPC
<1>3. CASE setAwaitingEstablish(e)
  <2> DEFINE c == clearCounters(x)
             y == [c EXCEPT !.state = "AwaitingEstablish"]
  <2>1. link' = [link EXCEPT ![e] = y] /\ goto(e, "estSet", "estSABM")
    BY <1>3 DEF setAwaitingEstablish
  <2>2. /\ c \in Endpoint /\ c.C = x.C /\ c.fresh = x.fresh
        /\ c.VR = 0 /\ c.VA = 0 /\ c.recvBuffer = <<>>
    BY <1>1, ClearCountersType
  <2> HIDE DEF c
  <2>3. /\ y \in Endpoint /\ y.C = x.C /\ y.fresh = x.fresh
        /\ y.state = "AwaitingEstablish" /\ Sound(y)
    BY <2>2 DEF Endpoint, LAPDState, Sound, Clean, Reported, Multiframe
  <2> HIDE DEF y
  <2>4. w.pc = "estSet" BY <2>1 DEF goto
  <2>5. ASSUME NEW v \in Writer, v.pc = "estSABM", v.ses = w.ses
        PROVE  Local(e, y, v, session)
    BY <1>1, <2>3, <2>4, <2>5 DEF Local, Establishing, Releasing
  <2> QED BY <1>2, <2>1, <2>5, GotoPreserves
<1>4. CASE sendUFrameSABM(e)
  <2> DEFINE f == SABM(x, IF e = "ms" THEN Access ELSE NoInfo)
             b == [x EXCEPT !.sent = f]
  <2>1. f \in Frame BY <1>1, InfoAssumption, SABMType DEF Identity
  <2>2. b \in Endpoint /\ Sent(x, b) BY <1>1, <2>1 DEF Endpoint, Sent
  <2>3. CASE Preempted
    <3>1. goto(e, "estSABM", "estTimer") /\ link' = [link EXCEPT ![e] = writeL1(b, f)]
      BY <1>4, <2>3 DEF sendUFrameSABM
    <3> HIDE DEF f, b
    <3>2. Sent(b, writeL1(b, f)) BY <2>1, <2>2, WriteL1Sent
    <3>3. session \in Int BY LocalFacts
    <3>4. Local(e, writeL1(b, f), w, session) BY <1>1, <2>2, <3>2, <3>3, LocalSent
    <3>5. w.pc = "estSABM" BY <3>1 DEF goto
    <3>6. ASSUME NEW v \in Writer, v.pc = "estTimer", v.ses = w.ses
          PROVE  Local(e, writeL1(b, f), v, session)
      BY <3>4, <3>5, <3>6 DEF Local, Establishing, Releasing
    <3> QED BY <1>2, <3>1, <3>6, GotoPreserves
  <2>4. CASE ~Preempted
    <3>1. goto(e, "estSABM", "estRead") /\ link' = [link EXCEPT ![e] = writeL1Ack(x, f)]
      BY <1>4, <2>4 DEF sendUFrameSABM
    <3> HIDE DEF f, b
    <3>2. PICK y \in Endpoint : Sent(x, y) /\ writeL1Ack(x, f) = [y EXCEPT !.t200 = TRUE]
      BY <1>1, <2>1, WriteL1AckSent
    <3>3. session \in Int BY LocalFacts
    <3>4. Local(e, y, w, session) BY <1>1, <3>2, <3>3, LocalSent
    <3>5. w.pc = "estSABM" BY <3>1 DEF goto
    <3> DEFINE z == [y EXCEPT !.t200 = TRUE]
    <3>6. /\ z \in Endpoint /\ z.t200 /\ z.state = y.state /\ z.C = y.C
          /\ z.fresh = y.fresh /\ (Sound(y) => Sound(z))
      BY DEF Endpoint, Sound, Clean, Reported
    <3> HIDE DEF z
    <3>7. ASSUME NEW v \in Writer, v.pc = "estRead", v.ses = w.ses
          PROVE  Local(e, z, v, session)
      BY <3>4, <3>5, <3>6, <3>7 DEF Local, Establishing, Releasing
    <3>8. link' = [link EXCEPT ![e] = z] BY <3>1, <3>2 DEF z
    <3> QED BY <1>2, <3>1, <3>7, <3>8, GotoPreserves
  <2> QED BY <2>3, <2>4
<1>5. CASE startT200(e)
  <2> DEFINE z == [x EXCEPT !.t200 = TRUE]
  <2>1. link' = [link EXCEPT ![e] = z] /\ goto(e, "estTimer", "estRead")
    BY <1>5 DEF startT200, IInv
  <2>2. /\ z \in Endpoint /\ z.t200 /\ z.state = x.state /\ z.C = x.C
        /\ z.fresh = x.fresh /\ (Sound(x) => Sound(z))
    BY <1>1 DEF Endpoint, Sound, Clean, Reported
  <2> HIDE DEF z
  <2>3. w.pc = "estTimer" BY <2>1 DEF goto
  <2>4. ASSUME NEW v \in Writer, v.pc = "estRead", v.ses = w.ses
        PROVE  Local(e, z, v, session)
    BY <1>1, <2>2, <2>3, <2>4 DEF Local, Establishing, Releasing
  <2> QED BY <1>2, <2>1, <2>4, GotoPreserves
<1>6. CASE readEstablish(e)
  <2>1. goto(e, "estRead", "idle") /\ UNCHANGED link BY <1>6 DEF readEstablish
  <2>2. w.pc = "estRead" BY <2>1 DEF goto
  <2>3. ASSUME NEW v \in Writer, v.pc = "idle", v.ses = w.ses PROVE Local(e, x, v, session)
    BY <1>1, <2>2, <2>3 DEF Local, Establishing, Releasing
  <2>4. link = [link EXCEPT ![e] = x] BY DEF IInv
  <2>5. "idle" \in WriterPC BY DEF WriterPC
  <2> QED BY <2>1, <2>3, <2>4, <2>5, GotoPreserves
<1> QED BY <1>3, <1>4, <1>5, <1>6

LEMMA StartReleaseSends ==
    ASSUME NEW x \in Endpoint
    PROVE  LET y == startRelease(x) IN
           /\ y \in Endpoint /\ y.C = x.C /\ y.fresh = x.fresh
           /\ y.state = "AwaitingRelease" /\ y.t200 /\ Sound(y)
<1> DEFINE c == clearCounters(x)
           r == [c EXCEPT !.eip = FALSE, !.state = "AwaitingRelease"]
           f == UFrame("DISC", CBit(r), TRUE, NoInfo)
<1>1. c \in Endpoint /\ c.C = x.C /\ c.fresh = x.fresh BY ClearCountersType
<1> HIDE DEF c
<1>2. /\ r \in Endpoint /\ r.C = x.C /\ r.fresh = x.fresh
      /\ r.state = "AwaitingRelease" /\ ~r.eip
  BY <1>1 DEF Endpoint, LAPDState
<1>3. startRelease(x) = writeL1Ack(r, f) BY DEF startRelease, sendUFrameDISC, r, c
<1> HIDE DEF r
<1>4. f \in Frame BY <1>2, Bits, UFrameType DEF Identity
<1> HIDE DEF f
<1>5. PICK y \in Endpoint : Sent(r, y) /\ writeL1Ack(r, f) = [y EXCEPT !.t200 = TRUE]
  BY <1>2, <1>4, WriteL1AckSent
<1> DEFINE z == [y EXCEPT !.t200 = TRUE]
<1>6. /\ z \in Endpoint /\ z.t200 /\ z.state = y.state /\ z.C = y.C
      /\ z.fresh = y.fresh /\ z.eip = y.eip
  BY DEF Endpoint
<1> HIDE DEF z
<1> QED BY <1>2, <1>3, <1>5, <1>6 DEF Sent, Sound, Clean, Reported, Multiframe, z

LEMMA releasePreserves ==
    ASSUME IInv, NEW e \in End,
           lockForRelease(e) \/ ackThenRelease(e) \/ releaseReturns(e)
    PROVE  IInv'
<1> DEFINE x == link[e]
           w == writer[e]
           y == startRelease(x)
<1>1. Local(e, x, w, session) /\ x \in Endpoint BY LocalFacts
<1>2. {"idle", "relWait", "relDone"} \subseteq WriterPC BY DEF WriterPC
<1>3. link = [link EXCEPT ![e] = x] BY DEF IInv
<1>4. CASE UNCHANGED link /\ goto(e, "relLock", "relWait")
  <2>1. w.pc = "relLock" BY <1>4 DEF goto
  <2>2. ASSUME NEW v \in Writer, v.pc = "relWait", v.ses = w.ses PROVE Local(e, x, v, session)
    BY <1>1, <2>1, <2>2 DEF Local, Establishing, Releasing
  <2> QED BY <1>2, <1>3, <1>4, <2>2, GotoPreserves
<1>5. CASE releaseReturns(e)
  <2>1. w.pc = "relDone" /\ canPass(x) BY <1>5 DEF releaseReturns, goto
  <2>2. x.state \notin {"AwaitingRelease", "AwaitingEstablish"}
    BY <2>1 DEF canPass, Multiframe
  <2>3. ASSUME NEW v \in Writer, v.pc = "idle", v.ses = w.ses PROVE Local(e, x, v, session)
    BY <1>1, <2>1, <2>2, <2>3 DEF Local, Establishing, Releasing
  <2> QED BY <1>2, <1>3, <1>5, <2>3, GotoPreserves DEF releaseReturns
<1>6. CASE /\ link' = [link EXCEPT ![e] = y]
           /\ goto(e, "relLock", "relDone") \/ goto(e, "relWait", "relDone")
  <2>1. /\ y \in Endpoint /\ y.C = x.C /\ y.fresh = x.fresh
        /\ y.state = "AwaitingRelease" /\ y.t200 /\ Sound(y)
    BY <1>1, StartReleaseSends
  <2> HIDE DEF y
  <2>2. w.pc \in Releasing BY <1>6 DEF goto, Releasing
  <2>3. ASSUME NEW v \in Writer, v.pc = "relDone", v.ses = w.ses PROVE Local(e, y, v, session)
    BY <1>1, <2>1, <2>2, <2>3 DEF Local, Establishing, Releasing
  <2> QED BY <1>2, <1>6, <2>3, GotoPreserves
<1> QED BY <1>4, <1>5, <1>6 DEF lockForRelease, ackThenRelease
-----------------------------------------------------------------------------
(***************************************************************************)
(* The channel is opened.                                                  *)
(***************************************************************************)
LEMMA EmptyChannels == <<>> \in RadioLink /\ <<>> \in DeliveredUnits /\ <<>> \in RecvBuffer
  BY DEF RadioLink, DeliveredUnits, RecvBuffer

LEMMA NewEndpointType ==
    ASSUME NEW c \in {0, 1}
    PROVE  LET y == newEndpoint(c) IN
           /\ y \in Endpoint /\ y.C = c /\ y.state = "LinkReleased" /\ Sound(y)
           /\ y.fresh => c = 1 /\ Sapi = 0
<1>1. NoInfo \in Identity /\ UFrame("UI", c, TRUE, NoInfo) \in Frame
  BY UFrameType DEF Identity
<1>2. newEndpoint(c) \in Endpoint
  BY <1>1, Zeros, EmptyChannels
     DEF newEndpoint, Endpoint, LAPDState, L1State, Indication, expectsFirst
<1> QED BY <1>2 DEF newEndpoint, expectsFirst, Sound, Clean, Reported, Multiframe

LEMMA NewWriterType ==
    ASSUME NEW n \in 0 .. MaxReq, NEW s \in 0 .. MaxOpen PROVE newWriter(n, s) \in Writer
  BY BoundsAssumption DEF newWriter, Writer, WriterPC

LEMMA OpenedType ==
    ASSUME NEW x \in Endpoint
    PROVE  LET y == opened(x) IN
           /\ y \in Endpoint /\ y.C = x.C /\ y.state = "LinkReleased" /\ Sound(y)
           /\ y.fresh => x.C = 1 /\ Sapi = 0
<1> DEFINE c == clearCounters(x)
<1>1. c \in Endpoint /\ c.C = x.C /\ c.VR = 0 /\ c.VA = 0 /\ c.recvBuffer = <<>>
  BY ClearCountersType
<1>2. opened(x) = [c EXCEPT !.state = "LinkReleased", !.l1 = "open",
                            !.fresh = expectsFirst(x.C), !.tx = <<>>, !.rx = <<>>, !.ind = "none"]
  BY DEF opened
<1> HIDE DEF c
<1>3. expectsFirst(x.C) \in BOOLEAN BY DEF expectsFirst
<1> DEFINE y == [c EXCEPT !.state = "LinkReleased", !.l1 = "open",
                          !.fresh = expectsFirst(x.C), !.tx = <<>>, !.rx = <<>>, !.ind = "none"]
<1>4. y \in Endpoint
  BY <1>1, <1>3, EmptyChannels DEF Endpoint, LAPDState, L1State, Indication
<1>5. /\ y.C = x.C /\ y.state = "LinkReleased" /\ y.ind = "none"
      /\ y.VR = 0 /\ y.VA = 0 /\ y.recvBuffer = <<>> /\ y.fresh = expectsFirst(x.C)
  BY <1>1 DEF Endpoint
<1>6. opened(x) = y BY <1>2
<1> HIDE DEF y
<1> QED BY <1>4, <1>5, <1>6 DEF expectsFirst, Sound, Clean, Reported, Multiframe

LEMMA openPreserves == ASSUME IInv, open PROVE IInv'
<1> DEFINE b == opened(link["bts"])
           m == newEndpoint(0)
           v == newWriter(writer["ms"].count, session')
<1>1. /\ "bts" \in End /\ "ms" \in End
      /\ Local("bts", link["bts"], writer["bts"], session)
      /\ Local("ms", link["ms"], writer["ms"], session)
      /\ link["bts"] \in Endpoint /\ session \in Int /\ writer["bts"] \in Writer
  BY LocalFacts DEF End
<1>2. session' = session + 1 /\ session' \in 0 .. MaxOpen
  BY BoundsAssumption DEF open, IInv
<1>3. /\ b \in Endpoint /\ b.C = 1 /\ b.state = "LinkReleased" /\ Sound(b)
      /\ b.fresh => Sapi = 0
  BY <1>1, OpenedType DEF Local
<1>4. /\ m \in Endpoint /\ m.C = 0 /\ m.state = "LinkReleased" /\ Sound(m) /\ ~m.fresh
  BY NewEndpointType
<1>5. v \in Writer
  <2>1. writer["ms"].count \in 0 .. MaxReq BY <1>1 DEF Local, Writer
  <2> QED BY <1>2, <2>1, NewWriterType
<1>6. v.pc = "idle" /\ v.ses = session' BY DEF newWriter
<1>7. /\ link' = [link EXCEPT !["bts"] = b, !["ms"] = m]
      /\ writer' = [writer EXCEPT !["ms"] = v] /\ UNCHANGED rivals
  BY DEF open, IInv
<1> HIDE DEF b, m, v
<1>8. Local("bts", b, writer["bts"], session')
  BY <1>1, <1>2, <1>3 DEF Local, Writer
<1>9. Local("ms", m, v, session')
  BY <1>2, <1>4, <1>5, <1>6 DEF Local, Establishing, Releasing
<1>10. /\ link' \in [End -> Endpoint] /\ writer' \in [End -> Writer]
       /\ link'["bts"] = b /\ link'["ms"] = m
       /\ writer'["bts"] = writer["bts"] /\ writer'["ms"] = v
  BY <1>3, <1>4, <1>5, <1>7 DEF IInv, End
<1>11. rivals' \in 0 .. MaxRival BY <1>7 DEF IInv
<1> QED BY <1>2, <1>8, <1>9, <1>10, <1>11 DEF IInv, End

LEMMA InitEstablishes == ASSUME Init PROVE IInv
<1>1. 0 \in 0 .. MaxReq /\ 0 \in 0 .. MaxOpen /\ 0 \in 0 .. MaxRival BY BoundsAssumption
<1>2. ASSUME NEW e \in End
      PROVE  /\ link[e] \in Endpoint /\ writer[e] \in Writer
             /\ Local(e, link[e], writer[e], session)
  <2> DEFINE c == IF e = "bts" THEN 1 ELSE 0
             x == newEndpoint(c)
             w == newWriter(0, 0)
  <2>1. link[e] = x /\ writer[e] = w /\ session = 0 BY DEF Init
  <2>2. w \in Writer BY <1>1, NewWriterType
  <2>3. w.pc = "idle" /\ w.ses = 0 BY DEF newWriter
  <2>4. c \in {0, 1} OBVIOUS
  <2>5. /\ x \in Endpoint /\ x.C = c /\ x.state = "LinkReleased" /\ Sound(x)
        /\ x.fresh => c = 1 /\ Sapi = 0
    BY <2>4, NewEndpointType
  <2> HIDE DEF x, w
  <2> QED BY <2>1, <2>2, <2>3, <2>5 DEF Local, Establishing, Releasing
<1> QED BY <1>1, <1>2 DEF Init, IInv
-----------------------------------------------------------------------------
(***************************************************************************)
(* The theorems.                                                           *)
(***************************************************************************)
LEMMA NextPreserves == ASSUME IInv, [Next]_vars PROVE IInv'
<1>1. CASE \E e \in End : serviceLoop(e)
  BY <1>1, firstFramePreserves, frameArrivesPreserves, timerExpiresPreserves DEF serviceLoop
<1>2. CASE \E e \in End : threadSteps(e)
  BY <1>2, ackOrGiveUpPreserves, establishPreserves, releasePreserves DEF threadSteps
<1>3. CASE \E e \in End : writeHighSide(e)
  BY <1>3, writeHighSidePreserves
<1>4. CASE \E e \in End : loseFrame(e)
  BY <1>4, loseFramePreserves
<1>5. CASE rivalSABM
  BY <1>5, rivalSABMPreserves
<1>6. CASE open
  BY <1>6, openPreserves
<1>7. CASE UNCHANGED vars
  BY <1>7 DEF vars, IInv
<1> QED BY <1>1, <1>2, <1>3, <1>4, <1>5, <1>6, <1>7 DEF Next

LEMMA Invariance == Spec => []IInv
  BY InitEstablishes, NextPreserves, PTL DEF Spec

\* Both entities, both threads and the radio link stay within their types: in
\* particular V(S), V(A), V(R) stay below the modulus, RC passes N200 by no more than
\* one (T200Expiration), and what is written to L1 is a frame.
THEOREM TypeCorrect == Spec => []TypeOK
<1>1. IInv => TypeOK BY DEF IInv, TypeOK
<1> QED BY <1>1, Invariance, PTL

\* Whatever is lost and however the threads interleave, a side in AwaitingRelease or
\* AwaitingEstablish has T200 running or a thread about to start it, so that N200
\* expiries end the state (T200Expiration).
THEOREM WaitingIsTimed == Spec => []TransientTimed
<1>1. IInv => TransientTimed BY DEF IInv, Local, TransientTimed
<1> QED BY <1>1, Invariance, PTL

\* A SABM that is answered again without a reset (mEstablishmentInProgress) finds the
\* counters and the receive buffer as the first one left them.
THEOREM RepeatedSABMIsHarmless == Spec => []CleanWhileEstablishing
<1>1. IInv => CleanWhileEstablishing BY DEF IInv, Local, Sound, Clean, CleanWhileEstablishing
<1> QED BY <1>1, Invariance, PTL

\* In every release L3 is told and SAP0 closes its L1; in multiframe operation the last
\* thing L3 heard is ESTABLISH (releaseLink, receiveUFrameSABM, receiveUFrameUA).
THEOREM L3KnowsTheLink == Spec => []LinkStateReported
<1>1. IInv => LinkStateReported BY DEF IInv, Local, Sound, Reported, LinkStateReported
<1> QED BY <1>1, Invariance, PTL
=============================================================================
