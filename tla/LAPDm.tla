------------------------------- MODULE LAPDm -------------------------------
(***************************************************************************)
(* One LAPDm data link (class L2LAPDm, GSM/GSML2LAPDm.cpp) between the     *)
(* base station and a handset: two entities of the class, one with the     *)
(* command bit mC = 1 and one with mC = 0, joined by a radio link that     *)
(* loses frames.  Each entity has two threads: the service loop, which     *)
(* takes frames from L1 and watches T200, and the L3 thread that calls     *)
(* writeHighSide and blocks in waitForAck.  They share mLock, so a step    *)
(* here is one critical section of that lock, from where it is taken to    *)
(* where it is released or waited on.                                      *)
(*                                                                         *)
(* A handler is an operator from the endpoint record to the endpoint       *)
(* record; calls compose as in the code.  The record's tx is the radio     *)
(* link towards the peer, rx and ind what was written to mL3Out.           *)
(*                                                                         *)
(* An operator named Faulty_... is the definition that follows it with a   *)
(* mistake in it; no definition uses one.  They show that the properties   *)
(* notice such mistakes.                                                   *)
(***************************************************************************)
EXTENDS Integers, Sequences

CONSTANTS
    Sapi,        \* mSAPI of both entities
    N200,        \* retransmission limit; 23, 5 or 34 by channel type
    SeqMod,      \* modulus of the sequence numbers; 8 in the code
    Requests,    \* the primitives each side's L3 may write
    MaxReq,      \* bound: primitives written by each side's L3
    MaxSegs,     \* bound: I-frames needed by one L3 message
    MaxInFlight, \* bound: frames on the radio link; further ones are lost
    MaxOpen,     \* bound: how often the channel is opened again
    Handsets,    \* identities carried by the first SABM of a handset
    Access,      \* the identity the handset puts in its SABM, or NoInfo
    MaxRival,    \* bound: SABMs of other handsets on the same channel
    Refresh,     \* the sides that renew N(R) when they retransmit
    NoInfo,      \* an empty information field
    Hasty,       \* whether T200 may run out with frames still on the radio link
    Preempted    \* whether an L3 thread may be held up where it does not hold mLock

End == {"bts", "ms"}
Peer(e) == IF e = "bts" THEN "ms" ELSE "bts"

Primitives == {"UNIT_DATA", "DATA", "ESTABLISH", "RELEASE", "ERROR", "HARDRELEASE"}

ASSUME SapiAssumption     == Sapi \in {0, 3}
ASSUME N200Assumption     == N200 \in Nat
ASSUME SeqModAssumption   == SeqMod \in Nat /\ SeqMod >= 3
ASSUME BoundsAssumption   == /\ MaxReq \in Nat /\ MaxSegs \in Nat \ {0}
                             /\ MaxInFlight \in Nat /\ MaxOpen \in Nat
                             /\ MaxRival \in Nat
ASSUME RequestsAssumption == /\ Requests \in [End -> SUBSET Primitives]
                             \* assert(mSAPI!=0 || mC==0) in writeHighSide
                             /\ Sapi = 0 => "ESTABLISH" \notin Requests["bts"]
ASSUME ToggleAssumption   == Hasty \in BOOLEAN /\ Preempted \in BOOLEAN
ASSUME InfoAssumption     == /\ Access \in Handsets \union {NoInfo}
                             /\ NoInfo \notin Handsets
\* The code never renews N(R): only a handset's own LAPDm may.
ASSUME RefreshAssumption  == Refresh \subseteq {"ms"}

LAPDState == {"LinkReleased", "AwaitingEstablish", "AwaitingRelease",
              "LinkEstablished", "ContentionResolution"}
SeqNum == 0 .. SeqMod - 1
Multiframe == {"LinkEstablished", "ContentionResolution"}

(***************************************************************************)
(* Frames.  A segment is the payload of one I-frame: segment i of the      *)
(* msg-th message of that side's L3 in the ses-th use of the channel.      *)
(***************************************************************************)
Segment == [ses : 0 .. MaxOpen, msg : 1 .. MaxReq, i : 1 .. MaxSegs, more : BOOLEAN]
Identity == Handsets \union {NoInfo}
Frame ==
    [t : {"I"}, cr : {0, 1}, pf : BOOLEAN, ns : SeqNum, nr : SeqNum, info : Segment]
      \union
    [t : {"RR", "REJ", "SABM", "DISC", "UA", "DM", "UI"}, cr : {0, 1}, pf : BOOLEAN,
     ns : SeqNum, nr : SeqNum, info : Identity]

MkFrame(t, cr, pf, ns, nr, info) ==
    [t |-> t, cr |-> cr, pf |-> pf, ns |-> ns, nr |-> nr, info |-> info]
UFrame(t, cr, pf, info) == MkFrame(t, cr, pf, 0, 0, info)

L1State == {"open", "txClosed", "closed"}
RetryCount == 0 .. N200 + 1
RadioLink == Seq(Frame)
RecvBuffer == Seq(Segment)
DeliveredUnits == Seq(Seq(Segment \union Handsets))
Indication == Primitives \union {"none"}

Endpoint ==
    [C : {0, 1}, state : LAPDState, VS : SeqNum, VA : SeqNum, VR : SeqNum,
     RC : RetryCount, t200 : BOOLEAN, eip : BOOLEAN, discard : BOOLEAN,
     recvBuffer : RecvBuffer, sent : Frame, check : Identity, l1 : L1State,
     fresh : BOOLEAN, tx : RadioLink, rx : DeliveredUnits, ind : Indication]

VARIABLES
    link,     \* the L2LAPDm object of each side
    writer,   \* the L3 thread of each side, and where it is in writeHighSide
    session,  \* how many times the channel was opened again
    rivals    \* SABMs of other handsets so far

vars == <<link, writer, session, rivals>>

WriterPC == {"idle", "data", "estSet", "estSABM", "estTimer", "estRead", "relLock", "relWait", "relDone"}
Writer == [pc : WriterPC, count : 0 .. MaxReq, ses : 0 .. MaxOpen,
           next : 1 .. MaxSegs + 1, last : 0 .. MaxSegs]

TypeOK ==
    /\ link \in [End -> Endpoint]
    /\ writer \in [End -> Writer]
    /\ session \in 0 .. MaxOpen
    /\ rivals \in 0 .. MaxRival
-----------------------------------------------------------------------------
(***************************************************************************)
(* Writing to L1 and to L3.                                                *)
(***************************************************************************)
Mod(n) == n % SeqMod
CBit(x) == x.C
RBit(x) == 1 - x.C

writeL1(x, f) ==
    IF Len(x.tx) < MaxInFlight THEN [x EXCEPT !.tx = Append(@, f)] ELSE x

writeL1Ack(x, f) == [writeL1([x EXCEPT !.sent = f], f) EXCEPT !.t200 = TRUE]

\* The release primitives close L1: both directions, or on ERROR only the encoder.
writeL1Release(x) == [x EXCEPT !.l1 = "closed"]
writeL1Error(x) == [x EXCEPT !.l1 = IF @ = "open" THEN "txClosed" ELSE @]

indicate(x, prim) == [x EXCEPT !.ind = prim]
deliver(x, unit) == [x EXCEPT !.rx = Append(@, unit)]

sendSFrameRR(x, F)  == writeL1(x, MkFrame("RR", RBit(x), F, 0, x.VR, NoInfo))
sendSFrameREJ(x, F) == writeL1(x, MkFrame("REJ", RBit(x), F, 0, x.VR, NoInfo))
sendUFrameDM(x, F)  == writeL1(x, UFrame("DM", RBit(x), F, NoInfo))
sendUFrameUA(x, F, info) == writeL1(x, UFrame("UA", RBit(x), F, info))
sendUFrameUI(x) == writeL1(x, UFrame("UI", CBit(x), TRUE, NoInfo))
SABM(x, info) == UFrame("SABM", CBit(x), TRUE, info)
sendUFrameDISC(x) == writeL1Ack(x, UFrame("DISC", CBit(x), TRUE, NoInfo))
sendIFrame(x, seg) ==
    writeL1Ack([x EXCEPT !.VS = Mod(@ + 1)],
               MkFrame("I", CBit(x), FALSE, x.VS, x.VR, seg))
-----------------------------------------------------------------------------
(***************************************************************************)
(* The state machine's shared procedures.                                  *)
(***************************************************************************)
Faulty_clearCounters(x) ==
    [x EXCEPT !.t200 = FALSE, !.VS = 0, !.VA = 0, !.VR = 0, !.RC = 0, !.recvBuffer = <<>>]

clearCounters(x) ==
    [x EXCEPT !.t200 = FALSE, !.VS = 0, !.VA = 0, !.VR = 0, !.RC = 0,
              !.recvBuffer = <<>>, !.discard = TRUE]

Faulty_releaseLink(x, prim) ==
    indicate([x EXCEPT !.state = "LinkReleased", !.eip = FALSE], prim)

releaseLink(x, prim) ==
    LET y == [x EXCEPT !.state = "LinkReleased", !.eip = FALSE]
    IN  indicate(IF Sapi = 0 THEN writeL1Release(y) ELSE y, prim)

clearState(x, prim) == releaseLink(clearCounters(x), prim)

abnormalRelease(x) ==
    clearState(writeL1Error(sendUFrameDM(indicate(x, "ERROR"), TRUE)), "RELEASE")

Faulty_processAck_stops(x, NR) == [x EXCEPT !.VA = NR, !.RC = 0, !.t200 = FALSE]
Faulty_processAck_keeps(x, NR) == [x EXCEPT !.VA = NR, !.RC = IF NR = x.VS THEN 0 ELSE @]
Faulty_processAck_lags(x, NR) ==
    LET y == [x EXCEPT !.VA = Mod(NR + SeqMod - 1)]
    IN  IF NR = x.VS THEN [y EXCEPT !.RC = 0, !.t200 = FALSE] ELSE y

processAck(x, NR) ==
    LET y == [x EXCEPT !.VA = NR]
    IN  IF NR = x.VS THEN [y EXCEPT !.RC = 0, !.t200 = FALSE] ELSE y

bufferIFrameData(x, seg) ==
    IF seg.more
    THEN [x EXCEPT !.recvBuffer = Append(@, seg)]
    ELSE deliver([x EXCEPT !.recvBuffer = <<>>], Append(x.recvBuffer, seg))

\* mSentFrame again, as it was; a side in Refresh renews its N(R).
resent(x, e) ==
    IF e \in Refresh /\ x.sent.t = "I" THEN [x.sent EXCEPT !.nr = x.VR] ELSE x.sent
Faulty_retransmissionProcedure(x, e) == writeL1([x EXCEPT !.RC = @ + 1], resent(x, e))

retransmissionProcedure(x, e) ==
    [writeL1([x EXCEPT !.RC = @ + 1], resent(x, e)) EXCEPT !.t200 = TRUE]

Faulty_T200Expiration(x, e) ==
    LET y == [x EXCEPT !.t200 = FALSE]
    IN  CASE x.state = "AwaitingRelease" -> releaseLink(y, "RELEASE")
          [] x.state \in Multiframe \union {"AwaitingEstablish"} ->
                IF x.RC > N200 + 1 THEN abnormalRelease(y) ELSE retransmissionProcedure(y, e)
          [] OTHER -> y

T200Expiration(x, e) ==
    LET y == [x EXCEPT !.t200 = FALSE]
    IN  CASE x.state = "AwaitingRelease" -> releaseLink(y, "RELEASE")
          [] x.state \in Multiframe \union {"AwaitingEstablish"} ->
                IF x.RC > N200 THEN abnormalRelease(y) ELSE retransmissionProcedure(y, e)
          [] OTHER -> y

leaveContention(x) ==
    IF x.state = "ContentionResolution" THEN [x EXCEPT !.state = "LinkEstablished"] ELSE x
-----------------------------------------------------------------------------
(***************************************************************************)
(* The receive handlers, one per frame type.                               *)
(***************************************************************************)
acceptSABM(x, f) ==
    LET y == indicate([clearCounters(x) EXCEPT !.eip = TRUE], "ESTABLISH")
    IN  IF f.info # NoInfo
        THEN sendUFrameUA(deliver([y EXCEPT !.state = "ContentionResolution",
                                            !.check = f.info], <<f.info>>), TRUE, f.info)
        ELSE sendUFrameUA([y EXCEPT !.state = "LinkEstablished"], TRUE, NoInfo)

Faulty_receiveUFrameSABM(x, f) ==
    CASE ~f.pf -> x
      [] f.pf /\ x.state = "LinkReleased" -> acceptSABM(x, f)
      [] f.pf /\ x.state = "ContentionResolution" -> sendUFrameUA(x, TRUE, f.info)
      [] f.pf /\ x.state \notin {"LinkReleased", "ContentionResolution"} -> x

receiveUFrameSABM(x, f) ==
    CASE ~f.pf -> x
      [] f.pf /\ x.state = "LinkReleased" -> acceptSABM(x, f)
      [] f.pf /\ x.state = "ContentionResolution" ->
            IF f.info # x.check THEN x
            ELSE sendUFrameUA([x EXCEPT !.state = "LinkEstablished"], TRUE, f.info)
      [] f.pf /\ x.state = "AwaitingEstablish" -> sendUFrameUA(x, TRUE, NoInfo)
      [] f.pf /\ x.state = "AwaitingRelease" -> sendUFrameDM(x, TRUE)
      [] f.pf /\ x.state = "LinkEstablished" ->
            IF x.eip THEN sendUFrameUA(x, TRUE, f.info)
            ELSE IF f.info # NoInfo THEN abnormalRelease(x)
            ELSE clearCounters(sendUFrameUA(x, TRUE, NoInfo))

receiveUFrameDISC(x, f) ==
    LET y == [x EXCEPT !.eip = FALSE]
    IN  CASE x.state = "AwaitingEstablish" -> clearState(y, "RELEASE")
          [] x.state = "LinkReleased" -> clearState(sendUFrameDM(y, f.pf), "RELEASE")
          [] x.state \in Multiframe -> clearState(sendUFrameUA(y, f.pf, NoInfo), "RELEASE")
          [] x.state = "AwaitingRelease" -> sendUFrameUA(y, f.pf, NoInfo)

receiveUFrameUA(x, f) ==
    CASE f.pf /\ x.state = "AwaitingEstablish" ->
            indicate([clearCounters(x) EXCEPT !.state = "LinkEstablished"], "ESTABLISH")
      [] f.pf /\ x.state = "AwaitingRelease" -> clearState(x, "RELEASE")
      [] OTHER -> abnormalRelease(x)

receiveUFrameDM(x, f) ==
    IF x.state = "LinkReleased" \/ ~f.pf THEN x ELSE clearState(x, "RELEASE")

receiveSFrameRR(x, f) ==
    IF x.state \notin Multiframe THEN x
    ELSE LET y == leaveContention(x)
             poll == f.cr # x.C /\ f.pf
         IN  processAck(IF poll THEN sendSFrameRR(y, TRUE) ELSE y, f.nr)

receiveSFrameREJ(x, f) ==
    IF x.state \notin Multiframe THEN x
    ELSE LET y == processAck(leaveContention(x), f.nr)
         IN  CASE ~f.pf -> y
               [] f.pf /\ f.cr # x.C -> sendSFrameRR(y, TRUE)
               [] f.pf /\ f.cr = x.C -> abnormalRelease(y)

receiveSFrame(x, f) ==
    LET y == [x EXCEPT !.eip = FALSE]
    IN  IF f.t = "RR" THEN receiveSFrameRR(y, f) ELSE receiveSFrameREJ(y, f)

Faulty_receiveIFrame_repeats(x, f) ==
    LET y == processAck(leaveContention([x EXCEPT !.eip = FALSE]), f.nr)
    IN  IF x.state \notin Multiframe THEN [x EXCEPT !.eip = FALSE]
        ELSE sendSFrameRR(bufferIFrameData([y EXCEPT !.VR = Mod(f.ns + 1)], f.info), f.pf)
Faulty_receiveIFrame_keeps(x, f) ==
    LET y == processAck(leaveContention(x), f.nr)
    IN  IF x.state \notin Multiframe THEN x
        ELSE IF f.ns = y.VR
        THEN sendSFrameRR(bufferIFrameData([y EXCEPT !.VR = Mod(@ + 1)], f.info), f.pf)
        ELSE sendSFrameREJ(y, f.pf)

receiveIFrame(x, f) ==
    LET y == processAck(leaveContention([x EXCEPT !.eip = FALSE]), f.nr)
    IN  IF x.state \notin Multiframe THEN [x EXCEPT !.eip = FALSE]
        ELSE IF f.ns = y.VR
        THEN sendSFrameRR(bufferIFrameData([y EXCEPT !.VR = Mod(@ + 1)], f.info), f.pf)
        ELSE sendSFrameREJ(y, f.pf)

receiveFrame(x, f) ==
    CASE f.t = "I" -> receiveIFrame(x, f)
      [] f.t \in {"RR", "REJ"} -> receiveSFrame(x, f)
      [] f.t = "SABM" -> receiveUFrameSABM(x, f)
      [] f.t = "DISC" -> receiveUFrameDISC(x, f)
      [] f.t = "UA" -> receiveUFrameUA(x, f)
      [] f.t = "DM" -> receiveUFrameDM(x, f)
      [] f.t = "UI" -> x
-----------------------------------------------------------------------------
(***************************************************************************)
(* The service loop: one iteration, with a frame or with none, and then    *)
(* T200 if it has run out.  T200 may run out whenever it is active.  The   *)
(* first good frame since the base station's channel was opened comes      *)
(* behind an ESTABLISH primitive from its L1.                              *)
(***************************************************************************)
checkT200(x, e, expired) == IF expired /\ x.t200 THEN T200Expiration(x, e) ELSE x

firstFrame(e) ==
    /\ link[e].fresh /\ link[Peer(e)].tx # <<>> /\ link[e].l1 # "closed"
    /\ link' = [link EXCEPT ![e] = clearCounters([@ EXCEPT !.fresh = FALSE])]
    /\ UNCHANGED <<writer, session, rivals>>

frameArrives(e) ==
    /\ ~link[e].fresh /\ link[Peer(e)].tx # <<>> /\ link[e].l1 # "closed"
    /\ \E expired \in {FALSE, Hasty} :
          link' = [link EXCEPT
                     ![e] = checkT200(receiveFrame(@, Head(link[Peer(e)].tx)), e, expired),
                     ![Peer(e)].tx = Tail(@)]
    /\ UNCHANGED <<writer, session, rivals>>

timerExpires(e) ==
    /\ link[e].t200
    /\ Hasty \/ \A d \in End : link[d].tx = <<>>
    /\ link' = [link EXCEPT ![e] = checkT200(@, e, TRUE)]
    /\ UNCHANGED <<writer, session, rivals>>

serviceLoop(e) == firstFrame(e) \/ frameArrives(e) \/ timerExpires(e)

(***************************************************************************)
(* The L3 thread.  canPass is the exit condition of waitForAck; the thread *)
(* looks at it again at any time, because its wait is a timed one.         *)
(***************************************************************************)
Faulty_canPass(x) == x.state = "LinkReleased" \/ x.state \in Multiframe

canPass(x) == \/ x.state = "LinkReleased"
              \/ x.state \in Multiframe /\ x.VS = x.VA

segmentOf(w) == [ses |-> w.ses, msg |-> w.count, i |-> w.next, more |-> w.next < w.last]

\* What is left of sendMultiframeData from the point where it calls waitForAck.
sendSegments(e, x, w) ==
    IF ~canPass(x)
    THEN /\ link' = [link EXCEPT ![e] = x]
         /\ writer' = [writer EXCEPT ![e] = [w EXCEPT !.pc = "data"]]
    ELSE IF x.discard \/ x.state \notin Multiframe
    THEN /\ link' = [link EXCEPT ![e] = x]
         /\ writer' = [writer EXCEPT ![e] = [w EXCEPT !.pc = "idle"]]
    ELSE /\ link' = [link EXCEPT ![e] = sendIFrame(x, segmentOf(w))]
         /\ writer' = [writer EXCEPT ![e] =
              [w EXCEPT !.pc = IF w.next = w.last THEN "idle" ELSE "data", !.next = @ + 1]]

\* The counted request: each call of writeHighSide takes the next number.
request(e, op) ==
    /\ writer[e].pc = "idle" /\ writer[e].count < MaxReq /\ op \in Requests[e]
    /\ UNCHANGED <<session, rivals>>
called(e, pc) ==
    writer' = [writer EXCEPT ![e].pc = pc, ![e].count = @ + 1, ![e].ses = session]

writeUnitData(e) ==
    /\ request(e, "UNIT_DATA") /\ called(e, "idle")
    /\ link' = [link EXCEPT ![e] = sendUFrameUI(@)]

writeData(e) ==
    /\ request(e, "DATA")
    /\ IF link[e].state = "LinkReleased"
       THEN called(e, "idle") /\ link' = [link EXCEPT ![e] = abnormalRelease(@)]
       ELSE \E n \in 1 .. MaxSegs :
              sendSegments(e, [link[e] EXCEPT !.discard = FALSE],
                           [writer[e] EXCEPT !.count = @ + 1, !.ses = session,
                                             !.next = 1, !.last = n])

ackOrGiveUp(e) ==
    /\ writer[e].pc = "data" /\ canPass(link[e])
    /\ sendSegments(e, link[e], writer[e])
    /\ UNCHANGED <<session, rivals>>

\* ESTABLISH looks at mState without the lock, and sends SABM after giving it up.
\* L3 asks for the link once in a use of the channel, and then reads until it has
\* an indication (MTSMSController and the handset's RR do).
writeEstablish(e) ==
    /\ request(e, "ESTABLISH") /\ link[e].ind = "none"
    /\ called(e, IF link[e].state = "LinkEstablished" THEN "estRead" ELSE "estSet")
    /\ UNCHANGED link

goto(e, from, to) ==
    /\ writer[e].pc = from
    /\ writer' = [writer EXCEPT ![e].pc = to]
    /\ UNCHANGED <<session, rivals>>

setAwaitingEstablish(e) ==
    /\ goto(e, "estSet", "estSABM")
    /\ link' = [link EXCEPT ![e] = [clearCounters(@) EXCEPT !.state = "AwaitingEstablish"]]

sendUFrameSABM(e) ==
    LET f == SABM(link[e], IF e = "ms" THEN Access ELSE NoInfo)
    IN  IF Preempted
        THEN /\ goto(e, "estSABM", "estTimer")
             /\ link' = [link EXCEPT ![e] = writeL1([@ EXCEPT !.sent = f], f)]
        ELSE /\ goto(e, "estSABM", "estRead")
             /\ link' = [link EXCEPT ![e] = writeL1Ack(@, f)]

startT200(e) ==
    /\ goto(e, "estTimer", "estRead")
    /\ link' = [link EXCEPT ![e].t200 = TRUE]

readEstablish(e) ==
    /\ link[e].ind # "none"
    /\ goto(e, "estRead", "idle")
    /\ UNCHANGED link

\* RELEASE looks at mState without the lock, then waits for a pending ack.
writeRelease(e) ==
    /\ request(e, "RELEASE")
    /\ called(e, IF link[e].state = "LinkReleased" THEN "idle" ELSE "relLock")
    /\ UNCHANGED link

Faulty_startRelease(x) ==
    writeL1([clearCounters(x) EXCEPT !.eip = FALSE, !.state = "AwaitingRelease"],
            UFrame("DISC", CBit(x), TRUE, NoInfo))

startRelease(x) ==
    sendUFrameDISC([clearCounters(x) EXCEPT !.eip = FALSE, !.state = "AwaitingRelease"])

lockForRelease(e) ==
    IF link[e].state = "LinkEstablished" /\ ~canPass(link[e])
    THEN goto(e, "relLock", "relWait") /\ UNCHANGED link
    ELSE goto(e, "relLock", "relDone") /\ link' = [link EXCEPT ![e] = startRelease(@)]

ackThenRelease(e) ==
    /\ canPass(link[e]) /\ goto(e, "relWait", "relDone")
    /\ link' = [link EXCEPT ![e] = startRelease(@)]

releaseReturns(e) == canPass(link[e]) /\ goto(e, "relDone", "idle") /\ UNCHANGED link

writeError(e) ==
    /\ request(e, "ERROR") /\ called(e, "idle")
    /\ link' = [link EXCEPT ![e] = abnormalRelease(@)]

writeHardRelease(e) ==
    /\ request(e, "HARDRELEASE") /\ called(e, "idle")
    /\ link' = [link EXCEPT ![e] = clearState(@, "HARDRELEASE")]

threadSteps(e) ==
    \/ ackOrGiveUp(e) \/ setAwaitingEstablish(e) \/ sendUFrameSABM(e) \/ startT200(e)
    \/ readEstablish(e)
    \/ lockForRelease(e) \/ ackThenRelease(e) \/ releaseReturns(e)

writeHighSide(e) ==
    \/ writeUnitData(e) \/ writeData(e) \/ writeEstablish(e)
    \/ writeRelease(e) \/ writeError(e) \/ writeHardRelease(e)
-----------------------------------------------------------------------------
(***************************************************************************)
(* The surroundings: the radio link, other handsets, and the allocation of *)
(* the channel to its next user (open).                                    *)
(***************************************************************************)
loseFrame(e) ==
    /\ link[e].tx # <<>>
    /\ link' = [link EXCEPT ![e].tx = Tail(@)]
    /\ UNCHANGED <<writer, session, rivals>>

rivalSABM ==
    /\ rivals < MaxRival
    /\ rivals' = rivals + 1
    /\ \E h \in Handsets \ {Access} :
          link' = [link EXCEPT !["ms"] = writeL1(@, SABM(@, h))]
    /\ UNCHANGED <<writer, session>>

\* The base station's L1 announces the first frame; by the time SAP3 is used, SAP0 has
\* been, and the announcement is over.
expectsFirst(c) == c = 1 /\ Sapi = 0

\* open keeps mEstablishmentInProgress, mSentFrame and mContentionCheck.
opened(x) ==
    [clearCounters(x) EXCEPT !.state = "LinkReleased", !.l1 = "open", !.fresh = expectsFirst(x.C),
                             !.tx = <<>>, !.rx = <<>>, !.ind = "none"]

\* As the constructor and the first open leave it; nothing was sent yet.
newEndpoint(c) ==
    [C |-> c, state |-> "LinkReleased", VS |-> 0, VA |-> 0, VR |-> 0, RC |-> 0,
     t200 |-> FALSE, eip |-> FALSE, discard |-> TRUE, recvBuffer |-> <<>>,
     sent |-> UFrame("UI", c, TRUE, NoInfo), check |-> NoInfo, l1 |-> "open",
     fresh |-> expectsFirst(c), tx |-> <<>>, rx |-> <<>>, ind |-> "none"]

newWriter(n, s) == [pc |-> "idle", count |-> n, ses |-> s, next |-> 1, last |-> 0]

\* The next user brings a handset of its own; the base station's L3 thread stays.
open ==
    /\ session < MaxOpen
    /\ Preempted \/ writer["bts"].pc \notin {"relLock", "estSet", "estSABM"}
    /\ session' = session + 1
    /\ link' = [link EXCEPT !["bts"] = opened(@), !["ms"] = newEndpoint(0)]
    /\ writer' = [writer EXCEPT !["ms"] = newWriter(@.count, session')]
    /\ UNCHANGED rivals

Init ==
    /\ link = [e \in End |-> newEndpoint(IF e = "bts" THEN 1 ELSE 0)]
    /\ writer = [e \in End |-> newWriter(0, 0)]
    /\ session = 0
    /\ rivals = 0

Next ==
    \/ \E e \in End : serviceLoop(e) \/ threadSteps(e) \/ writeHighSide(e) \/ loseFrame(e)
    \/ rivalSABM
    \/ open

Spec == Init /\ [][Next]_vars

\* The threads are scheduled, T200 runs out, and a frame on the radio link does not stay
\* there: it arrives or is lost.  Nothing is assumed about which.
Fairness ==
    \A e \in End :
        /\ WF_vars(timerExpires(e))
        /\ WF_vars(threadSteps(e))
        /\ WF_vars(firstFrame(e) \/ frameArrives(e) \/ loseFrame(Peer(e)))

FairSpec == Spec /\ Fairness
-----------------------------------------------------------------------------
(***************************************************************************)
(* Properties.                                                             *)
(***************************************************************************)
Pending(x) == x.state \in Multiframe /\ x.VS # x.VA

\* A unit given to L3 is a message, unless it is the identity of a handset.
Message(u) == u[1] \notin Handsets

\* All segments of one message, and only those.
Whole(u) ==
    \A j \in DOMAIN u :
        /\ u[j].i = j /\ u[j].msg = u[1].msg /\ u[j].ses = u[1].ses
        /\ u[j].more <=> j < Len(u)

\* The L3 messages given to L3 (bufferIFrameData) are whole, none twice and in the
\* order they were written, whatever was lost, retransmitted or abandoned half sent.
WholeInOrder ==
    \A e \in End :
        LET rx == link[e].rx
        IN  /\ \A k \in DOMAIN rx : Message(rx[k]) => Whole(rx[k])
            /\ \A j, k \in DOMAIN rx :
                  j < k /\ Message(rx[j]) /\ Message(rx[k]) => rx[j][1].msg < rx[k][1].msg

\* Nothing written for one user of the channel reaches its next user: a thread still in
\* sendMultiframeData when the channel is opened again gives up (discardIQueue).
ThisSessionOnly ==
    \A e \in End : \A k \in DOMAIN link[e].rx :
        LET u == link[e].rx[k]
        IN  \A j \in DOMAIN u : u[j] \notin Handsets => u[j].ses = session

\* k = 1 (waitForAck before every sendIFrame): the base station never has more than one
\* I-frame unacknowledged, provided the handset renews N(R) in what it repeats.
WindowOfOne == link["bts"].VS \in {link["bts"].VA, Mod(link["bts"].VA + 1)}

\* While the base station waits for an acknowledgement T200 is running; nothing but
\* T200 would ever repeat the frame or end the wait (processAck, writeL1Ack).
PendingIsTimed == Pending(link["bts"]) => link["bts"].t200

\* In multiframe operation T200 runs only for an unacknowledged I-frame, and what its
\* expiry would repeat (mSentFrame) is that frame and no other.
TimerRepeatsPending ==
    LET x == link["bts"]
    IN  x.state \in Multiframe /\ x.t200 =>
            Pending(x) /\ x.sent.t = "I" /\ Mod(x.sent.ns + 1) = x.VS

\* A state that waits for the peer's UA is left even if the peer is gone: T200 is
\* running, or the thread that is about to start it is in writeHighSide.  (Not so if the
\* channel was opened again under the thread that releases it.)
TransientTimed ==
    \A e \in End :
        /\ link[e].state = "AwaitingRelease" /\ writer[e].ses = session => link[e].t200
        /\ link[e].state = "AwaitingEstablish" =>
              link[e].t200 \/ writer[e].pc \in {"estSABM", "estTimer"}

\* A repeated SABM may be answered without a reset (mEstablishmentInProgress), because
\* nothing has been received or acknowledged yet on that link.
CleanWhileEstablishing ==
    \A e \in End :
        link[e].eip => link[e].VR = 0 /\ link[e].VA = 0 /\ link[e].recvBuffer = <<>>

\* L3 and L1 know what became of the link (releaseLink): L3's last indication says
\* whether it is in multiframe operation, and SAP0 leaves no L1 open behind it.
LinkStateReported ==
    \A e \in End :
        /\ link[e].state \in Multiframe => link[e].ind = "ESTABLISH"
        /\ link[e].state = "LinkReleased" =>
              /\ link[e].ind # "ESTABLISH"
              /\ Sapi = 0 /\ link[e].ind # "none" => link[e].l1 = "closed"

\* Contention resolution (mContentionCheck): a UA on the radio link that carries an
\* identity carries that of the handset whose SABM was accepted first.
AnswersWinner(x) ==
    \A k \in DOMAIN x.tx :
        x.tx[k].t = "UA" /\ x.tx[k].info # NoInfo => x.tx[k].info = x.check

\* It does as long as the link is in ContentionResolution (receiveUFrameSABM).
ContentionAnswersWinner ==
    link["bts"].state = "ContentionResolution" => AnswersWinner(link["bts"])

\* "This guards against the remote possibility that two handsets are sending on the
\* same channel at the same time": no other handset is ever answered.
NoRivalAnswered == AnswersWinner(link["bts"])

\* V(A) is "NR+1 of last acked I-frame": the base station never takes an acknowledgement
\* back.  V(A) stays, reaches V(S), or is reset together with it (processAck).
AckNotTakenBack ==
    [][link'["bts"].VA \in {link["bts"].VA, link'["bts"].VS}]_vars

\* "Prepare the channel for a new transaction": no thread that was releasing the channel
\* for an earlier user goes on to release it for the next.
ReleasesItsOwnUse ==
    [][link["bts"].state # "AwaitingRelease" /\ link'["bts"].state = "AwaitingRelease"
         => writer["bts"].ses = session]_vars

\* Every call of writeHighSide returns, however many frames the radio loses: each wait
\* in it is ended by an acknowledgement or by the N200 limit.
WriterReturns == \A e \in End : writer[e].pc # "idle" ~> writer[e].pc = "idle"

\* "Block until any pending ack is received": so does every call of the base station.
OwnWriterReturns == writer["bts"].pc # "idle" ~> writer["bts"].pc = "idle"
=============================================================================
