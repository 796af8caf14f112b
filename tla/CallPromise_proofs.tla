------------------------- MODULE CallPromise_proofs -------------------------
(***************************************************************************)
(* That the controllers of Call keep the promise of CallPromise, step by   *)
(* step, and that no two of the Q.931 timers are ever on at once.          *)
(*                                                                         *)
(* Both rest on what may still be in the queue from the handset: a frame   *)
(* that it sent before it was told something, or before it hung up.  The   *)
(* invariant says in which order the frames of call setup come (Ordered),  *)
(* that none is left for which the call has gone too far (Ahead), what the *)
(* Q.931 state and the SIP state can be at each place of the controllers   *)
(* (At, Finished), which timer each Q.931 state allows (OneTimer), and     *)
(* what shows that a party has answered (Answers).                         *)
(***************************************************************************)
EXTENDS Call_proofs

SIPMessage == {"100", "180", "200", "486", "487", "INVITE", "CANCEL", "ACK", "BYE"}

\* The types that TypeOK of Call has and the queues; the timers are in OneTimer.
Types ==
    /\ instigator \in BOOLEAN /\ veryEarly \in BOOLEAN /\ stop \in BOOLEAN
    /\ gsm \in CallState /\ sip \in SIPState
    /\ saved \subseteq {"BYE", "CANCEL", "ERROR"}
    /\ ms \in MSState /\ link \in {"up", "lost", "failed", "closed"} /\ sw \in SwitchState
    /\ keys \in 0 .. MaxKeys /\ answered \subseteq {"handset", "switch"}
    /\ fifo \in Seq(SIPMessage)

(* The frames of call setup. *)

SetupFrames == {"CallConfirmed", "Alerting", "Connect", "ConnectAck"}
Enders == {"Disconnect", "Release", "ReleaseComplete", "Detach"}

\* b may come after a.
Follows(a, b) ==
    b \in SetupFrames =>
        /\ a \notin Enders \union {"Connect", "ConnectAck"}
        /\ a = "Alerting" => b = "Connect"
        /\ a = "CallConfirmed" => b # "CallConfirmed"

\* A handset in state s may yet send m of them, when all it has sent is in the queue.
ToCome(s, m) ==
    \/ m = "CallConfirmed" /\ s \in {"paged", "called"}
    \/ m = "Alerting" /\ s \in {"paged", "called", "confirmed"}
    \/ m = "Connect" /\ s \in {"paged", "called", "confirmed", "alerting"}
    \/ m = "ConnectAck" /\ s \in {"calling", "connected"}

Ordered ==
    /\ \A i, j \in 1 .. Len(up) : i < j => Follows(up[i], up[j])
    /\ \A i \in 1 .. Len(up) : \A m \in SetupFrames : ToCome(ms, m) => Follows(up[i], m)

\* The two kinds of calls.
Sides ==
    /\ instigator =>
          /\ ms \notin {"paged", "called", "confirmed", "alerting", "offered"}
          /\ \A m \in {"CallConfirmed", "Alerting", "Connect"} : ~Has(up, m)
    /\ ~instigator => ms \notin {"calling", "connected"} /\ ~Has(up, "ConnectAck")

\* Before the call is started the handset has sent nothing; its link may fail.
Silent == pc = "Start" => ms \in {"calling", "paged"} /\ \A i \in 1 .. Len(up) : up[i] = "ERROR"

\* In the Q.931 state g the frame m of call setup is still to come.
InTime(m, g) ==
    \/ m = "CallConfirmed" /\ g = "CallPresent"
    \/ m = "Alerting" /\ g \in {"CallPresent", "MTCConfirmed"}
    \/ m = "Connect" /\ g \in {"CallPresent", "MTCConfirmed", "CallReceived"}
    \/ m = "ConnectAck" /\ g = "ConnectIndication"
    \/ g = "Null"

Coming(m) == Has(up, m) \/ (ms \notin {"paged", "calling"} /\ ToCome(ms, m))

Ahead ==
    /\ \A m \in SetupFrames : Coming(m) => InTime(m, gsm)
    /\ gsm = "CallPresent" /\ (Has(up, "Alerting") \/ ms \in {"confirmed", "alerting"})
          => Has(up, "CallConfirmed")

(* Where the thread is, or goes on after its waits. *)

Waiting == {"Wait", "Wait487"}
place == IF pc \in Waiting THEN back[Len(back)] ELSE pc

MTCPart == {"Setup", "SetupSIP", "MTCAlert", "MTCAlertSIP", "MTCAck", "MTCAckSIP"}

\* The Q.931 states at each place p of the controllers.
Fits(p, g) ==
    /\ p = "Start" => g \in {"MOCInitiated", "AnsweredPaging"}
    /\ p \in {"Assign", "Mode"} => g \in {"MOCProceeding", "MTCConfirmed"}
    /\ p \in {"MOCRing", "MOCRingSIP", "MOCAnswer", "MOCAnswerGSM", "MOCAnswered"} =>
          g \in {"MOCProceeding", "CallReceived", "ReleaseRequest"}
    /\ p = "MOCConnect" => g \in {"ConnectIndication", "Active", "ReleaseRequest"}
    /\ p \in {"MTCAck", "MTCAckSIP"} => g \in {"Active", "ReleaseRequest"}
    /\ p \in Talking => g \in {"Active", "ReleaseRequest", "DisconnectIndication", "Null"}
    /\ p = "TalkSIP" => g # "Null"

At ==
    /\ Fits(place, gsm)
    /\ place \in MOCPart => instigator
    /\ place \in MTCPart => ~instigator
    /\ gsm \in {"MOCInitiated", "MOCProceeding", "ConnectIndication"} => instigator
    /\ gsm \in {"AnsweredPaging", "CallPresent", "MTCConfirmed"} => ~instigator
    /\ pc = "Start" => sip \in {"Null", "Proceeding"}
    /\ place = "Start" => pc = "Start"

\* Before the call is carried, the SIP side is finished only when the handset has hung up.
PreTalk == MOCPart \union MTCPart \union {"Assign", "Mode"}

Finished ==
    /\ place \in PreTalk /\ (SIPFinished \/ pc \in Waiting) => gsm = "ReleaseRequest"
    /\ pc = "Wait487" => SIPFinished

(* The timers. *)

\* In the Q.931 state g the timer t may be on.
Allowed(t, g) ==
    \/ t = "303" /\ g = "CallPresent"
    \/ t = "301" /\ (g = "MTCConfirmed" \/ (g = "CallReceived" /\ ~instigator))
    \/ t = "313" /\ g = "ConnectIndication"
    \/ t = "305" /\ g = "DisconnectIndication"
    \/ t = "308" /\ g \in {"ReleaseRequest", "Null"}

OneTimer == \A t \in Q931Timers : timers[t] # "off" => Allowed(t, gsm)

(* Who has answered. *)

Open == pc \notin Over /\ ~clearing

Answers ==
    /\ gsm = "Active" \/ Has(up, "Connect") \/ Has(up, "ConnectAck") => "handset" \in answered
    /\ sw = "up" => "switch" \in answered
    /\ Open /\ (Has(fifo, "200") \/ Has(fifo, "ACK") \/ sip = "Active" \/ pc = "MOCConnect") =>
          "switch" \in answered
    /\ Open /\ pc \in Talking => answered = {"handset", "switch"}

PInv ==
    Types /\ Ordered /\ Sides /\ Silent /\ Ahead /\ At /\ Finished /\ OneTimer /\ Answers
-----------------------------------------------------------------------------
(***************************************************************************)
(* The types.                                                              *)
(***************************************************************************)
SwitchSide ==
    /\ sip \in SIPState /\ saved \subseteq {"BYE", "CANCEL", "ERROR"}
    /\ sw \in SwitchState /\ fifo \in Seq(SIPMessage)
Rest ==
    /\ instigator \in BOOLEAN /\ veryEarly \in BOOLEAN /\ stop \in BOOLEAN
    /\ gsm \in CallState
    /\ ms \in MSState /\ link \in {"up", "lost", "failed", "closed"}
    /\ keys \in 0 .. MaxKeys /\ answered \subseteq {"handset", "switch"}

LEMMA TypeParts == (Types <=> SwitchSide /\ Rest) /\ (Types' <=> SwitchSide' /\ Rest')
  BY Zenon DEF Types, SwitchSide, Rest

LEMMA Hearing == ASSUME NEW m, sw \in SwitchState PROVE Heard(m) \in SwitchState
<1>1. Heard(m) \in {"up", "hungup", "over"} \/ Heard(m) = sw BY Zenon DEF Heard
<1> QED BY <1>1 DEF SwitchState

LEMMA ToldType == ASSUME NEW m, ms \in MSState PROVE Told(m) \in MSState
<1>1. Told(m) \in {"idle", "released", "toldRelease", "toldDisconnect", "called", "connected", "talking"} \/ Told(m) = ms
  BY Zenon DEF Told
<1> QED BY <1>1, SMT DEF MSState

LEMMA TellsType == ASSUME NEW m, ms \in MSState, tells(m) PROVE ms' \in MSState
  BY ToldType DEF tells

LEMMA Reading == ASSUME fifo \in Seq(SIPMessage), fifo # <<>> PROVE Tail(fifo) \in Seq(SIPMessage)
  BY HeadTailProperties

LEMMA AnswerType == ASSUME NEW m PROVE Answer(m) \in Seq(SIPMessage)
<1>1. Answer(m) = <<"200", "487">> \/ Answer(m) = <<"ACK">> \/ Answer(m) = <<"200">>
  BY Zenon DEF Answer
<1>2. "200" \in SIPMessage /\ "487" \in SIPMessage /\ "ACK" \in SIPMessage BY DEF SIPMessage
<1>3. <<"200", "487">> \in Seq(SIPMessage) /\ <<"ACK">> \in Seq(SIPMessage) /\ <<"200">> \in Seq(SIPMessage)
  <2> DEFINE S == SIPMessage
  <2>1. "200" \in S /\ "487" \in S /\ "ACK" \in S BY <1>2
  <2> HIDE DEF S
  <2>2. <<"200", "487">> \in Seq(S) /\ <<"ACK">> \in Seq(S) /\ <<"200">> \in Seq(S) BY <2>1
  <2> QED BY <2>2 DEF S
<1> QED BY <1>1, <1>3

LEMMA AsksType ==
    ASSUME SwitchSide, NEW m, asks(m) PROVE sw' \in SwitchState /\ fifo' \in Seq(SIPMessage)
<1>1. Answer(m) \in Seq(SIPMessage) /\ fifo \in Seq(SIPMessage) BY AnswerType DEF SwitchSide
<1>2. fifo \o Answer(m) \in Seq(SIPMessage) BY <1>1, ConcatProperties
<1>3. sw \in SwitchState /\ Heard(m) \in SwitchState BY Hearing DEF SwitchSide
<1> QED BY <1>1, <1>2, <1>3, Zenon DEF asks

LEMMA ClearsType ==
    ASSUME SwitchSide, NEW m \in {"BYE", "CANCEL", "ERROR"}, NEW next, clears(m, next) PROVE SwitchSide'
<1>1. sip' \in SIPState BY SMT DEF clears, SIPState
<1>2. saved' \subseteq {"BYE", "CANCEL", "ERROR"} BY SMT DEF clears, SwitchSide
<1>3. sw' \in SwitchState /\ fifo' \in Seq(SIPMessage) BY AsksType DEF clears
<1> QED BY <1>1, <1>2, <1>3, Zenon DEF SwitchSide

LEMMA ForceType == ASSUME SwitchSide, NEW next, forceSIPClearing(next) PROVE SwitchSide'
<1>1. CASE UNCHANGED <<sip, saved, sw, fifo>>
  <2>1. sip' = sip /\ saved' = saved /\ sw' = sw /\ fifo' = fifo BY <1>1
  <2> QED BY <2>1, Zenon DEF SwitchSide
<1>2. CASE clears(IF sip = "Active" THEN "BYE" ELSE cancelOrError, <<next>>)
  <2> DEFINE m == IF sip = "Active" THEN "BYE" ELSE cancelOrError
  <2>1. m \in {"BYE", "CANCEL", "ERROR"} BY DEF cancelOrError
  <2> HIDE DEF m
  <2>2. clears(m, <<next>>) BY <1>2 DEF m
  <2> QED BY <2>1, <2>2, ClearsType
<1> QED BY <1>1, <1>2, Zenon DEF forceSIPClearing

LEMMA SwitchSideSame == ASSUME SwitchSide, UNCHANGED <<sip, saved, sw, fifo>> PROVE SwitchSide'
<1>1. sip' = sip /\ saved' = saved /\ sw' = sw /\ fifo' = fifo OBVIOUS
<1> QED BY <1>1, Zenon DEF SwitchSide

\* A step that reads at most one message of the FIFO and sends one at most.
LEMMA ReadsType ==
    ASSUME SwitchSide, NEW m, fifo' = (IF fifo = <<>> THEN fifo ELSE Tail(fifo)) \/ fifo' = fifo,
           sends(m) \/ sw' = sw, saved' = saved \/ saved' = saved \union {"CANCEL"} \/ saved' = saved \union {"BYE"},
           sip' = sip \/ sip' \in SIPState
    PROVE  SwitchSide'
<1>1. fifo' \in Seq(SIPMessage) BY Reading DEF SwitchSide
<1>2. sw' \in SwitchState BY Hearing DEF SwitchSide, sends
<1>3. saved' \subseteq {"BYE", "CANCEL", "ERROR"}
  <2>1. saved \subseteq {"BYE", "CANCEL", "ERROR"} BY Zenon DEF SwitchSide
  <2>2. /\ saved \union {"CANCEL"} \subseteq {"BYE", "CANCEL", "ERROR"}
        /\ saved \union {"BYE"} \subseteq {"BYE", "CANCEL", "ERROR"}
    BY <2>1
  <2> QED BY <2>1, <2>2, Zenon
<1> QED BY <1>1, <1>2, <1>3, Zenon DEF SwitchSide

\* What a step of the thread does to the rest, and what it does to the handset.
RestStep ==
    /\ instigator' = instigator /\ veryEarly' = veryEarly /\ keys' = keys
    /\ stop' = stop \/ stop' = FALSE
    /\ gsm' = gsm \/ gsm' \in {"MOCProceeding", "CallPresent", "MTCConfirmed", "CallReceived",
                               "ConnectIndication", "Active", "ReleaseRequest", "DisconnectIndication", "Null"}
    /\ ms' = ms \/ \E m : tells(m)
    /\ link' = link \/ link' = "closed"
    /\ answered' = answered \/ answered' = answered \union {"switch"}

LEMMA RestStays == ASSUME Rest, RestStep PROVE Rest'
<1>1. gsm' \in CallState BY SMT DEF Rest, RestStep, CallState
<1>2. ms' \in MSState BY TellsType DEF Rest, RestStep
<1>3. link' \in {"up", "lost", "failed", "closed"} BY SMT DEF Rest, RestStep
<1>4. answered' \subseteq {"handset", "switch"}
  <2>1. answered \subseteq {"handset", "switch"} BY Zenon DEF Rest
  <2>2. answered \union {"switch"} \subseteq {"handset", "switch"} BY <2>1
  <2> QED BY <2>1, <2>2, Zenon DEF RestStep
<1>5. instigator' \in BOOLEAN /\ veryEarly' \in BOOLEAN /\ stop' \in BOOLEAN /\ keys' \in 0 .. MaxKeys
  BY Zenon DEF Rest, RestStep
<1> QED BY <1>1, <1>2, <1>3, <1>4, <1>5, Zenon DEF Rest

LEMMA ForceRest ==
    ASSUME forceGSMClearing
    PROVE  /\ gsm' = gsm \/ gsm' = "Null"
           /\ ms' = ms \/ \E m : tells(m)
           /\ link' = link \/ link' = "closed"
  BY Zenon DEF forceGSMClearing

LEMMA DispatchTypes ==
    ASSUME SwitchSide, NEW m, callManagementDispatchGSM(m)
    PROVE  /\ SwitchSide'
           /\ gsm' = gsm \/ gsm' \in {"MTCConfirmed", "CallReceived", "Active", "ReleaseRequest", "Null"}
           /\ ms' = ms \/ \E x : tells(x)
           /\ link' = link \/ link' = "closed"
<1>1. CASE callSetupMessage(m)
  <2>1. noSIP /\ gsm' \in {"MTCConfirmed", "CallReceived", "Active"} /\ UNCHANGED <<ms, link>>
    BY <1>1, Zenon DEF callSetupMessage, callConfirmed
  <2>2. SwitchSide' BY <2>1, SwitchSideSame DEF noSIP
  <2> QED BY <2>1, <2>2, Zenon
<1>2. CASE disconnectMessage(m)
  <2>1. /\ tells("Release") /\ link' = link /\ gsm' \in {"ReleaseRequest", "Null"}
        /\ \E x \in {"BYE", cancelOrError} : \E next : clears(x, next)
    BY <1>2, Zenon DEF disconnectMessage
  <2>2. cancelOrError \in {"BYE", "CANCEL", "ERROR"} BY DEF cancelOrError
  <2>3. PICK x \in {"BYE", cancelOrError} : \E next : clears(x, next) BY <2>1, Zenon
  <2>4. x \in {"BYE", "CANCEL", "ERROR"} BY <2>2, <2>3
  <2>5. SwitchSide' BY <2>3, <2>4, ClearsType
  <2> QED BY <2>1, <2>5, Zenon
<1>3. CASE releaseMessage(m)
  <2>1. /\ tells("ChannelRelease") /\ link' = link /\ gsm' = "Null"
        /\ saved' = saved /\ fifo' = fifo
        /\ (sip' = "Cleared" /\ sends("BYEOK")) \/ (sip' = sip /\ sw' = sw)
    BY <1>3, Zenon DEF releaseMessage
  <2>2. "Cleared" \in SIPState BY DEF SIPState
  <2>3. SwitchSide' BY <2>1, <2>2, ReadsType, Zenon
  <2> QED BY <2>1, <2>3, Zenon
<1>4. CASE releaseCompleteMessage(m)
  <2>1. tells("ChannelRelease") /\ link' = link /\ gsm' = "Null" /\ noSIP
    BY <1>4, Zenon DEF releaseCompleteMessage
  <2>2. SwitchSide' BY <2>1, SwitchSideSame DEF noSIP
  <2> QED BY <2>1, <2>2, Zenon
<1>5. CASE detachMessage(m)
  <2>1. /\ tells("ChannelRelease") /\ link' = "closed" /\ gsm' = gsm
        /\ forceSIPClearing(whenCleared(pc))
    BY <1>5, Zenon DEF detachMessage, entryVars
  <2>2. SwitchSide' BY <2>1, ForceType
  <2> QED BY <2>1, <2>2, Zenon
<1>6. CASE startDTMFMessage(m)
  <2>1. /\ fifo' = (IF fifo = <<>> THEN fifo ELSE Tail(fifo))
        /\ UNCHANGED <<gsm, sip, saved, sw, ms, link>>
    BY <1>6, Zenon DEF startDTMFMessage
  <2>2. SwitchSide' BY <2>1, ReadsType, Zenon
  <2> QED BY <2>1, <2>2, Zenon
<1>7. CASE otherMessage(m)
  <2>1. noSIP /\ UNCHANGED <<gsm, ms, link>> BY <1>7, Zenon DEF otherMessage
  <2>2. SwitchSide' BY <2>1, SwitchSideSame DEF noSIP
  <2> QED BY <2>1, <2>2, Zenon
<1> QED BY <1>1, <1>2, <1>3, <1>4, <1>5, <1>6, <1>7, Zenon DEF callManagementDispatchGSM

LEMMA GSMTypes == ASSUME Types, updateGSMSignalling PROVE Types'
<1>0. SwitchSide /\ Rest BY TypeParts
<1>1. UNCHANGED <<instigator, veryEarly, stop, keys, answered>> BY Zenon DEF updateGSMSignalling
<1>2. CASE noSIP /\ UNCHANGED <<gsm, ms, link>>
  <2>1. RestStep BY <1>1, <1>2, Zenon DEF RestStep
  <2> QED BY <1>0, <1>2, <2>1, SwitchSideSame, RestStays, TypeParts DEF noSIP
<1>3. CASE abortCall(whenCleared(pc))
  <2>1. RestStep BY <1>1, <1>3, ForceRest DEF RestStep, abortCall
  <2> QED BY <1>0, <1>3, <2>1, ForceType, RestStays, TypeParts DEF abortCall
<1>4. ASSUME NEW m, callManagementDispatchGSM(m) PROVE Types'
  <2>1. RestStep BY <1>0, <1>1, <1>4, DispatchTypes DEF RestStep
  <2> QED BY <1>0, <1>4, <2>1, DispatchTypes, RestStays, TypeParts
<1> QED BY <1>2, <1>3, <1>4, Zenon DEF updateGSMSignalling

LEMMA CheckTypes == ASSUME SwitchSide, NEW next, checksForCancel(next) PROVE SwitchSide'
<1>1. {"Canceled", "Fail", "Proceeding"} \subseteq SIPState BY DEF SIPState
<1>2. CASE saved' = saved \union {"CANCEL"} /\ sip' = "Canceled" /\ sends("CANCELOK")
  BY <1>1, <1>2, ReadsType DEF checksForCancel
<1>3. CASE saved' = saved /\ sw' = sw /\ (sip' = sip \/ sip' \in {"Fail", "Proceeding"})
  <2>1. sip' = sip \/ sip' \in SIPState BY <1>1, <1>3
  <2>2. fifo' = (IF fifo = <<>> THEN fifo ELSE Tail(fifo)) BY Zenon DEF checksForCancel
  <2> QED BY <1>3, <2>1, <2>2, ReadsType, Zenon
<1> QED BY <1>2, <1>3, Zenon DEF checksForCancel

LEMMA StarterTypes == ASSUME Types, Starter PROVE Types'
<1>0. SwitchSide /\ Rest BY TypeParts
<1>1. CASE MOCStarter
  <2>1. RestStep BY <1>1, Zenon DEF MOCStarter, RestStep
  <2>2. sip' = "Starting" /\ UNCHANGED <<saved, sw, fifo>> BY <1>1, Zenon DEF MOCStarter
  <2>3. "Starting" \in SIPState BY DEF SIPState
  <2> QED BY <1>0, <2>1, <2>2, <2>3, RestStays, TypeParts, Zenon DEF SwitchSide
<1>2. CASE MTCStarter \/ noTCH \/ setupRelease
  <2>1. RestStep BY <1>2, Zenon DEF MTCStarter, noTCH, setupRelease, RestStep
  <2>2. UNCHANGED <<sip, saved, sw, fifo>> BY <1>2, Zenon DEF MTCStarter, noTCH, setupRelease
  <2> QED BY <1>0, <2>1, <2>2, RestStays, SwitchSideSame, TypeParts
<1>3. CASE setupSIP
  <2>1. RestStep BY <1>3, Zenon DEF setupSIP, RestStep
  <2>2. \E next : checksForCancel(next) BY <1>3, Zenon DEF setupSIP
  <2> QED BY <1>0, <2>1, <2>2, RestStays, CheckTypes, TypeParts
<1> QED BY <1>1, <1>2, <1>3, Zenon DEF Starter

LEMMA AssignmentTypes == ASSUME Types, Assignment PROVE Types'
<1>0. SwitchSide /\ Rest BY TypeParts
<1>1. CASE assigned \/ assignedNobody \/ modeAcknowledged \/ modeTimeout
  <2>1. RestStep
    BY <1>1, Zenon DEF assigned, assignedNobody, modeAcknowledged, modeTimeout, RestStep
  <2>2. UNCHANGED <<sip, saved, sw, fifo>>
    BY <1>1, Zenon DEF assigned, assignedNobody, modeAcknowledged, modeTimeout
  <2> QED BY <1>0, <2>1, <2>2, RestStays, SwitchSideSame, TypeParts
<1>2. CASE assignmentFailed
  <2>1. RestStep /\ forceSIPClearing("Stray") BY <1>2, Zenon DEF assignmentFailed, RestStep
  <2> QED BY <1>0, <2>1, RestStays, ForceType, TypeParts
<1> QED BY <1>1, <1>2, Zenon DEF Assignment

LEMMA WaitForOKType ==
    ASSUME sip \in SIPState
    PROVE  MOCWaitForOK \in SIPState /\ MOCWaitForOK \in {"Proceeding", "Timeout", "Ringing", "Active", "Busy", "Fail"}
<1>1. MOCWaitForOK \in {"Proceeding", "Timeout", "Ringing", "Active", "Busy", "Fail"}
  BY Zenon DEF MOCWaitForOK
<1> QED BY <1>1 DEF SIPState

LEMMA ControllerTypes == ASSUME Types, MOCController \/ MTCController PROVE Types'
<1>0. SwitchSide /\ Rest /\ sip \in SIPState BY TypeParts DEF SwitchSide
<1>1. CASE MOCController
  <2>1. RestStep
    BY <1>1, Zenon DEF MOCController, mocRing, mocAnswer, mocAnswered, mocConnected, RestStep
  <2>2. /\ saved' = saved /\ sw' = sw /\ (sip' = sip \/ sip' = MOCWaitForOK)
        /\ fifo' = (IF fifo = <<>> THEN fifo ELSE Tail(fifo)) \/ fifo' = fifo
    BY <1>1, Zenon DEF MOCController, mocRing, mocAnswer, mocAnswered, mocConnected, readsFifo
  <2>3. sip' = sip \/ sip' \in SIPState BY <1>0, <2>2, WaitForOKType, Zenon
  <2>4. SwitchSide' BY <1>0, <2>2, <2>3, ReadsType, Zenon
  <2> QED BY <1>0, <2>1, <2>4, RestStays, TypeParts
<1>2. CASE mtcAlert
  <2>0. UNCHANGED <<instigator, veryEarly, gsm, timers, stop, up, ms, link, keys>>
    BY <1>2, Zenon DEF mtcAlert
  <2>1. answered' = answered \/ answered' = answered \union {"switch"}
    BY <1>2, Zenon DEF mtcAlert
  <2>2. RestStep BY <2>0, <2>1, Zenon DEF RestStep
  <2>3. \/ sip' = "Connecting" /\ sends("OK") /\ saved' = saved /\ fifo' = fifo
        \/ sip' = sip /\ saved' = saved /\ sw' = sw /\ fifo' = fifo
        \/ checksForCancel("MTCAlert")
    BY <1>2, Zenon DEF mtcAlert
  <2>4. "Connecting" \in SIPState BY DEF SIPState
  <2>5. SwitchSide' BY <1>0, <2>3, <2>4, ReadsType, CheckTypes, Zenon
  <2> QED BY <1>0, <2>2, <2>5, RestStays, TypeParts
<1>3. CASE mtcAck
  <2>0. UNCHANGED <<instigator, veryEarly, gsm, timers, stop, up, link, keys>>
    BY <1>3, Zenon DEF mtcAck
  <2>1. /\ answered' = answered \/ answered' = answered \union {"switch"}
        /\ ms' = ms \/ \E m : tells(m)
    BY <1>3, Zenon DEF mtcAck
  <2>2. RestStep BY <2>0, <2>1, Zenon DEF RestStep
  <2>3. /\ sip' = sip \/ sip' \in {"Connecting", "Active", "Canceled", "Fail"}
        /\ \E m : sends(m) \/ sw' = sw
        /\ saved' = saved \/ saved' = saved \union {"CANCEL"}
        /\ fifo' = (IF fifo = <<>> THEN fifo ELSE Tail(fifo))
    BY <1>3, Zenon DEF mtcAck, readsFifo
  <2>4. {"Connecting", "Active", "Canceled", "Fail"} \subseteq SIPState BY DEF SIPState
  <2>5. sip' = sip \/ sip' \in SIPState BY <2>3, <2>4
  <2>6. SwitchSide' BY <1>0, <2>3, <2>5, ReadsType, Zenon
  <2> QED BY <1>0, <2>2, <2>6, RestStays, TypeParts
<1> QED BY <1>1, <1>2, <1>3, Zenon DEF MTCController

LEMMA LoopTypes == ASSUME Types, callManagementLoop PROVE Types'
<1>0. SwitchSide /\ Rest BY TypeParts
<1>1. CASE radioFailure
  <2>1. RestStep /\ forceSIPClearing("Removed") BY <1>1, Zenon DEF radioFailure, RestStep
  <2> QED BY <1>0, <2>1, RestStays, ForceType, TypeParts
<1>2. CASE updateSIPSignalling
  <2>1. RestStep BY <1>2, Zenon DEF updateSIPSignalling, disconnects, RestStep
  <2>2. /\ sip' = sip \/ sip' \in {"MTDClearing", "Cleared"}
        /\ sends("BYEOK") \/ sw' = sw
        /\ saved' = savedBYE
        /\ (fifo # <<>> /\ fifo' = Tail(fifo)) \/ fifo' = fifo
    BY <1>2, Zenon DEF updateSIPSignalling, checksBYE
  <2>3. saved' = saved \/ saved' = saved \union {"BYE"} BY <2>2 DEF savedBYE
  <2>4. "MTDClearing" \in SIPState /\ "Cleared" \in SIPState BY DEF SIPState
  <2>5. sip' = sip \/ sip' \in SIPState BY <2>2, <2>4
  <2>6. fifo' = (IF fifo = <<>> THEN fifo ELSE Tail(fifo)) \/ fifo' = fifo BY <2>2, Zenon
  <2>7. SwitchSide' BY <1>0, <2>2, <2>3, <2>5, <2>6, ReadsType, Zenon
  <2> QED BY <1>0, <2>1, <2>7, RestStays, TypeParts
<1>3. CASE terminationRequested
  <2>1. /\ UNCHANGED <<instigator, veryEarly, keys, answered>> /\ stop' = FALSE
        /\ abortCall("Removed") \/ UNCHANGED <<gsm, sip, saved, fifo, sw, ms, link>>
    BY <1>3, Zenon DEF terminationRequested
  <2>2. CASE abortCall("Removed")
    <3>1. RestStep BY <2>1, <2>2, ForceRest DEF RestStep, abortCall
    <3> QED BY <1>0, <2>2, <3>1, ForceType, RestStays, TypeParts DEF abortCall
  <2>3. CASE UNCHANGED <<gsm, sip, saved, fifo, sw, ms, link>>
    <3>1. RestStep BY <2>1, <2>3, Zenon DEF RestStep
    <3> QED BY <1>0, <2>3, <3>1, SwitchSideSame, RestStays, TypeParts
  <2> QED BY <2>1, <2>2, <2>3
<1> QED BY <1>1, <1>2, <1>3, Zenon DEF callManagementLoop

LEMMA AbortTypes == ASSUME Types, abortAndRemoveCall PROVE Types'
<1>0. SwitchSide /\ Rest BY TypeParts
<1>1. UNCHANGED <<instigator, veryEarly, stop, keys, answered>> /\ abortCall("Removed")
  BY Zenon DEF abortAndRemoveCall
<1>2. RestStep BY <1>1, ForceRest DEF RestStep, abortCall
<1> QED BY <1>0, <1>1, <1>2, ForceType, RestStays, TypeParts DEF abortCall

LEMMA WaitTypes == ASSUME Types, SIPWaits PROVE Types'
<1>0. SwitchSide /\ Rest BY TypeParts
<1>1. RestStep BY Zenon DEF SIPWaits, modWaits, modResends, MODWaitFor487, RestStep
<1>2. CASE modWaits \/ MODWaitFor487
  <2>1. /\ sip' = sip \/ sip' \in {"Cleared", "Canceled"}
        /\ UNCHANGED <<saved, sw>>
        /\ fifo' = (IF fifo = <<>> THEN fifo ELSE Tail(fifo))
    BY <1>2, Zenon DEF modWaits, MODWaitFor487
  <2>2. {"Cleared", "Canceled"} \subseteq SIPState BY DEF SIPState
  <2>3. sip' = sip \/ sip' \in SIPState BY <2>1, <2>2
  <2>4. SwitchSide' BY <1>0, <2>1, <2>3, ReadsType, Zenon
  <2> QED BY <1>0, <1>1, <2>4, RestStays, TypeParts
<1>3. CASE modResends
  <2>1. (\E m : asks(m)) /\ sip' = sip /\ saved' = saved BY <1>3, Zenon DEF modResends
  <2>2. sw' \in SwitchState /\ fifo' \in Seq(SIPMessage) BY <1>0, <2>1, AsksType
  <2>3. SwitchSide' BY <1>0, <2>1, <2>2, Zenon DEF SwitchSide
  <2> QED BY <1>0, <1>1, <2>3, RestStays, TypeParts
<1> QED BY <1>2, <1>3, Zenon DEF SIPWaits

LEMMA HandsetTypes ==
    ASSUME Types, handsetSends \/ handsetPressesKey \/ handsetAnswersRR PROVE Types'
<1>0. SwitchSide /\ Rest BY TypeParts
<1>1. UNCHANGED <<instigator, veryEarly, stop, gsm, sip, saved, fifo, sw, link>>
  BY Zenon DEF handsetSends, handsetPressesKey, handsetAnswersRR
<1>2. SwitchSide' BY <1>0, <1>1, SwitchSideSame
<1>3. ms' \in MSState /\ answered' \subseteq {"handset", "switch"} /\ keys' \in 0 .. MaxKeys
  <2>0. /\ ms \in MSState /\ answered \subseteq {"handset", "switch"} /\ keys \in 0 .. MaxKeys
    BY <1>0, Zenon DEF Rest
  <2>1. CASE handsetSends
    <3>1. PICK t \in MSSends : ms' = t[3]
      BY <2>1 DEF handsetSends
    <3>2. t[3] \in MSState BY SMT DEF MSSends, InCall, MSState
    <3>3. answered' = answered \/ answered' = answered \union {"handset"} BY <2>1, Zenon DEF handsetSends
    <3>4. answered \union {"handset"} \subseteq {"handset", "switch"} BY <2>0
    <3>5. keys' = keys BY <2>1, Zenon DEF handsetSends
    <3> QED BY <2>0, <3>1, <3>2, <3>3, <3>4, <3>5, Zenon
  <2>2. CASE handsetPressesKey
    <3>1. keys < MaxKeys /\ keys' = keys + 1 /\ UNCHANGED <<ms, answered>>
      BY <2>2, Zenon DEF handsetPressesKey
    <3>2. keys' \in 0 .. MaxKeys BY <2>0, <3>1, BoundsAssumption, SMT
    <3> QED BY <2>0, <3>1, <3>2, Zenon
  <2>3. CASE handsetAnswersRR
    <3>1. UNCHANGED <<ms, answered, keys>> BY <2>3, Zenon DEF handsetAnswersRR
    <3> QED BY <2>0, <3>1, Zenon
  <2> QED BY <2>1, <2>2, <2>3
<1>4. Rest' BY <1>0, <1>1, <1>3, Zenon DEF Rest
<1> QED BY <1>2, <1>4, TypeParts

LEMMA SwitchTypes == ASSUME Types, switchSends \/ switchRepeats PROVE Types'
<1>0. SwitchSide /\ Rest BY TypeParts
<1>1. UNCHANGED <<instigator, veryEarly, stop, gsm, sip, saved, ms, link, keys>>
  BY Zenon DEF switchSends, switchRepeats
<1>2. sw' \in SwitchState /\ fifo' \in Seq(SIPMessage) /\ answered' \subseteq {"handset", "switch"}
  <2>0. sw \in SwitchState /\ fifo \in Seq(SIPMessage) /\ answered \subseteq {"handset", "switch"}
    BY <1>0, Zenon DEF Rest, SwitchSide
  <2>1. CASE switchSends
    <3>1. PICK t \in SwitchSends : fifo' = Append(fifo, t[2]) /\ sw' = t[3]
      BY <2>1 DEF switchSends
    <3>2. t[2] \in SIPMessage /\ t[3] \in SwitchState BY SMT DEF SwitchSends, SIPMessage, SwitchState
    <3>3. answered' = answered \/ answered' = answered \union {"switch"} BY <2>1, Zenon DEF switchSends
    <3>4. answered \union {"switch"} \subseteq {"handset", "switch"} BY <2>0
    <3>5. fifo' \in Seq(SIPMessage) BY <2>0, <3>1, <3>2, AppendProperties
    <3> QED BY <2>0, <3>1, <3>2, <3>3, <3>4, <3>5, Zenon
  <2>2. CASE switchRepeats
    <3>1. \E m \in {"BYE", "CANCEL"} : fifo' = Append(fifo, m)
      BY <2>2, SMT DEF switchRepeats
    <3>2. {"BYE", "CANCEL"} \subseteq SIPMessage BY DEF SIPMessage
    <3>3. PICK m \in SIPMessage : fifo' = Append(fifo, m) BY <3>1, <3>2
    <3>4. fifo' \in Seq(SIPMessage) BY <2>0, <3>3, AppendProperties
    <3>5. UNCHANGED <<sw, answered>> BY <2>2, Zenon DEF switchRepeats
    <3> QED BY <2>0, <3>4, <3>5, Zenon
  <2> QED BY <2>1, <2>2
<1>3. SwitchSide' BY <1>0, <1>1, <1>2, Zenon DEF SwitchSide
<1>4. Rest' BY <1>0, <1>1, <1>2, Zenon DEF Rest
<1> QED BY <1>3, <1>4, TypeParts

LEMMA OtherTypes ==
    ASSUME Types,
           \/ linkLost \/ expireT3109 \/ dataLinkError \/ handsetDropsLink \/ terminate \/ clearDeadEntries
           \/ UNCHANGED vars \/ \E t \in Q931Timers : timerExpires(t)
    PROVE  Types'
<1>0. SwitchSide /\ Rest BY TypeParts
<1>1. /\ UNCHANGED <<instigator, veryEarly, gsm, sip, saved, fifo, sw, keys, answered>>
      /\ stop' = stop \/ stop' = TRUE
      /\ ms' = ms \/ ms' = "idle"
      /\ link' = link \/ link' \in {"lost", "failed", "closed"}
  BY Zenon DEF linkLost, expireT3109, dataLinkError, handsetDropsLink, terminate, clearDeadEntries, vars, timerExpires
<1>2. "idle" \in MSState BY DEF MSState
<1>3. link' \in {"up", "lost", "failed", "closed"} BY <1>0, <1>1, SMT DEF Rest
<1>4. Rest' BY <1>0, <1>1, <1>2, <1>3, Zenon DEF Rest
<1>5. SwitchSide' BY <1>0, <1>1, SwitchSideSame
<1> QED BY <1>4, <1>5, TypeParts

LEMMA TypesStay == ASSUME Types, [Next]_vars PROVE Types'
  BY GSMTypes, AbortTypes, StarterTypes, AssignmentTypes, ControllerTypes, LoopTypes, WaitTypes, HandsetTypes,
     SwitchTypes, OtherTypes, Zenon DEF Next, Thread, External
-----------------------------------------------------------------------------
(***************************************************************************)
(* The handset's side: the queue from the handset, its state, the Q.931    *)
(* state and the timers.                                                   *)
(***************************************************************************)
HandsetSide == up \in Seq(UpMessage) /\ Ordered /\ Sides /\ Ahead /\ OneTimer

Takes == up # <<>> /\ up' = Tail(up)

\* What the handset may be told that ends its part of the setup.
Hears ==
    \/ ms' = ms \/ ms' \in {"idle", "released", "toldRelease", "toldDisconnect"}
    \/ ms = "offered" /\ ms' = "talking"

\* What a step of the thread may do to the handset's side.
CalmMove ==
    /\ gsm' = gsm /\ timers' = timers
    /\ Hears
    /\ up' = up \/ (Takes /\ (gsm = "CallPresent" => Head(up) # "CallConfirmed"))
ClearMove ==
    /\ gsm' = "Null" /\ (resetTimers \/ setTimerAlone("308"))
    /\ Hears /\ (up' = up \/ Takes)
DisconnectMove ==
    /\ Takes /\ Head(up) = "Disconnect"
    /\ gsm' = "ReleaseRequest" /\ setTimerAlone("308") /\ Hears
SetupMove ==
    /\ Takes /\ gsm # "Null"
    /\ \/ Head(up) = "CallConfirmed" /\ callConfirmed
       \/ Head(up) = "Alerting" /\ gsm' = "CallReceived" /\ setTimer("301")
       \/ Head(up) \in {"Connect", "ConnectAck"} /\ gsm' = "Active" /\ resetTimers
    /\ ms' = ms
StartMove ==
    /\ up' = up /\ \A i \in 1 .. Len(up) : up[i] = "ERROR"
    /\ \/ instigator /\ gsm' = "MOCProceeding" /\ timers' = timers /\ gsm = "MOCInitiated" /\ ms' = ms
       \/ ~instigator /\ gsm' = "CallPresent" /\ setTimer("303") /\ gsm = "AnsweredPaging"
             /\ ms = "paged" /\ ms' \in {"paged", "called"}
RingMove ==
    /\ instigator /\ gsm \in {"MOCProceeding", "CallReceived"} /\ up' = up
    /\ \/ gsm' = "CallReceived" /\ timers' = timers /\ ms' = ms
       \/ gsm' = "ConnectIndication" /\ setTimer("313") /\ (ms' = ms \/ (ms = "calling" /\ ms' = "connected"))
HangUpMove ==
    gsm = "Active" /\ gsm' = "DisconnectIndication" /\ setTimer("305") /\ Hears /\ up' = up

Move ==
    /\ instigator' = instigator
    /\ CalmMove \/ ClearMove \/ DisconnectMove \/ SetupMove \/ StartMove \/ RingMove \/ HangUpMove

LEMMA TakenHas == ASSUME up \in Seq(UpMessage), up' = up \/ Takes, NEW m, Has(up', m) PROVE Has(up, m)
<1>1. CASE up' = up BY <1>1, Zenon DEF Has
<1>2. CASE Takes
  <2>1. Has(Tail(up), m) BY <1>2 DEF Takes
  <2> QED BY <2>1, <1>2, TailHas DEF Takes
<1> QED BY <1>1, <1>2

\* What is still to come can only get less.
LEMMA QueueKeeps ==
    ASSUME up \in Seq(UpMessage), Ordered, up' = up \/ Takes,
           \A m \in SetupFrames : ToCome(ms', m) => ToCome(ms, m)
    PROVE  Ordered'
<1>1. CASE up' = up
  <2>1. \A i, j \in 1 .. Len(up') : i < j => Follows(up'[i], up'[j]) BY <1>1, Zenon DEF Ordered
  <2>2. \A i \in 1 .. Len(up') : \A m \in SetupFrames : ToCome(ms', m) => Follows(up'[i], m)
    BY <1>1, Zenon DEF Ordered
  <2> QED BY <2>1, <2>2, Zenon DEF Ordered
<1>2. CASE Takes
  <2>1. /\ Len(up) \in Nat /\ Len(up') = Len(up) - 1
        /\ \A i \in 1 .. Len(up') : i + 1 \in 1 .. Len(up) /\ up'[i] = up[i + 1]
    BY <1>2, HeadTailProperties DEF Takes
  <2>2. ASSUME NEW i \in 1 .. Len(up'), NEW j \in 1 .. Len(up'), i < j PROVE Follows(up'[i], up'[j])
    <3>1. i + 1 \in 1 .. Len(up) /\ j + 1 \in 1 .. Len(up) /\ i + 1 < j + 1 BY <2>1, <2>2
    <3>2. Follows(up[i + 1], up[j + 1]) BY <3>1, Zenon DEF Ordered
    <3> QED BY <2>1, <3>2
  <2>3. ASSUME NEW i \in 1 .. Len(up'), NEW m \in SetupFrames, ToCome(ms', m) PROVE Follows(up'[i], m)
    <3>1. Follows(up[i + 1], m) BY <2>1, <2>3, Zenon DEF Ordered
    <3> QED BY <2>1, <3>1
  <2> QED BY <2>2, <2>3, Zenon DEF Ordered
<1> QED BY <1>1, <1>2

\* The first frame, and what comes after it.
LEMMA FirstFrame ==
    ASSUME HandsetSide, Takes
    PROVE  /\ Has(up, Head(up))
           /\ \A m \in SetupFrames : Has(Tail(up), m) \/ ToCome(ms, m) => Follows(Head(up), m)
<1>1. /\ Len(up) \in Nat /\ Len(up) >= 1 /\ Head(up) = up[1] /\ Tail(up) \in Seq(UpMessage)
      /\ Len(Tail(up)) = Len(up) - 1
      /\ \A i \in 1 .. Len(Tail(up)) : i + 1 \in 1 .. Len(up) /\ Tail(up)[i] = up[i + 1]
  BY HeadTailProperties DEF HandsetSide, Takes
<1>2. 1 \in 1 .. Len(up) /\ up[1] = Head(up) BY <1>1
<1>3. Has(up, Head(up)) BY <1>2, Zenon DEF Has
<1>4. ASSUME NEW m \in SetupFrames, Has(Tail(up), m) PROVE Follows(Head(up), m)
  <2>1. PICK i \in 1 .. Len(Tail(up)) : Tail(up)[i] = m BY <1>4, Zenon DEF Has
  <2>2. i + 1 \in 1 .. Len(up) /\ up[i + 1] = m /\ 1 < i + 1 BY <1>1, <2>1
  <2>3. Follows(up[1], up[i + 1]) BY <1>2, <2>2, Zenon DEF HandsetSide, Ordered
  <2> QED BY <1>2, <2>2, <2>3
<1>5. ASSUME NEW m \in SetupFrames, ToCome(ms, m) PROVE Follows(Head(up), m)
  <2>1. Follows(up[1], m) BY <1>2, <1>5, Zenon DEF HandsetSide, Ordered
  <2> QED BY <1>2, <2>1
<1> QED BY <1>3, <1>4, <1>5

LEMMA HearsLess ==
    ASSUME Hears
    PROVE  /\ \A m \in SetupFrames : ToCome(ms', m) => ToCome(ms, m)
           /\ \A m : ms' \notin {"paged", "calling"} /\ ToCome(ms', m) => ms \notin {"paged", "calling"} /\ ToCome(ms, m)
           /\ ms' \in {"confirmed", "alerting", "paged", "called", "offered", "calling", "connected"} => ms' = ms
  BY SMT DEF Hears, ToCome

\* What comes after a step was already coming.
LEMMA ComesLess ==
    ASSUME up \in Seq(UpMessage), up' = up \/ Takes, Hears, NEW m, Coming(m)' PROVE Coming(m)
<1>1. CASE Has(up, m)'
  <2>1. Has(up', m) BY <1>1 DEF Has
  <2> QED BY <2>1, TakenHas DEF Coming
<1>2. CASE ms' \notin {"paged", "calling"} /\ ToCome(ms, m)'
  <2>1. ToCome(ms', m) BY <1>2 DEF ToCome
  <2> QED BY <1>2, <2>1, HearsLess, Zenon DEF Coming
<1> QED BY <1>1, <1>2, Zenon DEF Coming

LEMMA UpType == ASSUME up \in Seq(UpMessage), up' = up \/ Takes PROVE up' \in Seq(UpMessage)
  BY TailHas DEF Takes

LEMMA MovesQueue ==
    ASSUME HandsetSide, Move
    PROVE  /\ up' = up \/ Takes
           /\ \A m \in SetupFrames : ToCome(ms', m) => ToCome(ms, m)
           /\ Hears \/ (~instigator /\ ms = "paged" /\ ms' = "called")
                    \/ (instigator /\ ms = "calling" /\ ms' = "connected")
<1>1. CASE CalmMove \/ ClearMove \/ DisconnectMove \/ HangUpMove
  <2>1. Hears /\ (up' = up \/ Takes)
    BY <1>1, Zenon DEF CalmMove, ClearMove, DisconnectMove, HangUpMove
  <2> QED BY <2>1, HearsLess
<1>2. CASE SetupMove
  <2>1. ms' = ms /\ Takes BY <1>2, Zenon DEF SetupMove
  <2>2. Hears BY <2>1 DEF Hears
  <2> QED BY <2>1, <2>2, HearsLess
<1>3. CASE StartMove
  <2>1. up' = up /\ (ms' = ms \/ (~instigator /\ ms = "paged" /\ ms' \in {"paged", "called"}))
    BY <1>3, Zenon DEF StartMove
  <2> QED BY <2>1, SMT DEF ToCome, Hears
<1>4. CASE RingMove
  <2>1. instigator /\ up' = up /\ (ms' = ms \/ (ms = "calling" /\ ms' = "connected"))
    BY <1>4, Zenon DEF RingMove
  <2> QED BY <2>1, SMT DEF ToCome, Hears
<1> QED BY <1>1, <1>2, <1>3, <1>4, Zenon DEF Move

LEMMA OrderedMoves == ASSUME HandsetSide, Move PROVE up' \in Seq(UpMessage) /\ Ordered'
<1>1. up \in Seq(UpMessage) /\ Ordered BY Zenon DEF HandsetSide
<1> QED BY <1>1, MovesQueue, QueueKeeps, UpType

LEMMA SidesMove == ASSUME HandsetSide, Move PROVE Sides'
<1>0. up \in Seq(UpMessage) /\ Sides /\ instigator' = instigator BY Zenon DEF HandsetSide, Move
<1>1. \A m : Has(up', m) => Has(up, m) BY <1>0, MovesQueue, TakenHas
<1>2. \/ ms' \notin {"paged", "called", "confirmed", "alerting", "offered", "calling", "connected"} \/ ms' = ms
      \/ (~instigator /\ ms' = "called") \/ (instigator /\ ms' = "connected")
  BY MovesQueue, HearsLess, SMT
<1>3. instigator => ms' \notin {"paged", "called", "confirmed", "alerting", "offered"}
  BY <1>0, <1>2, SMT DEF Sides
<1>4. ~instigator => ms' \notin {"calling", "connected"}
  BY <1>0, <1>2, SMT DEF Sides
<1>5. instigator => \A m \in {"CallConfirmed", "Alerting", "Connect"} : ~Has(up', m)
  BY <1>0, <1>1, Zenon DEF Sides
<1>6. ~instigator => ~Has(up', "ConnectAck")
  BY <1>0, <1>1, Zenon DEF Sides
<1>7. \A m : Has(up, m)' <=> Has(up', m) BY DEF Has
<1> QED BY <1>0, <1>3, <1>4, <1>5, <1>6, <1>7, Zenon DEF Sides

\* What Sides says of the frames to come.
LEMMA SidesCome ==
    ASSUME Sides, NEW m, Coming(m)
    PROVE  /\ instigator => m \notin {"CallConfirmed", "Alerting", "Connect"}
           /\ ~instigator => m # "ConnectAck"
  BY SMT DEF Sides, Coming, ToCome

\* The frames for which the call has gone too far.
LEMMA AheadMoves == ASSUME HandsetSide, Move PROVE Ahead'
<1>0. up \in Seq(UpMessage) /\ Sides /\ Ahead /\ instigator' = instigator BY Zenon DEF HandsetSide, Move
<1>1. \A m \in SetupFrames : Coming(m) => InTime(m, gsm) BY <1>0, Zenon DEF Ahead
<1>2. ASSUME gsm' = "Null" PROVE Ahead'
  BY <1>2, SMT DEF Ahead, InTime
<1>h. \A m : Has(up, m)' <=> Has(up', m) BY DEF Has
<1>3. CASE CalmMove
  <2>1. gsm' = gsm /\ Hears /\ (up' = up \/ Takes) BY <1>3, Zenon DEF CalmMove
  <2>2. ASSUME NEW m \in SetupFrames, Coming(m)' PROVE InTime(m, gsm)'
    <3>1. Coming(m) BY <1>0, <2>1, <2>2, ComesLess
    <3>2. InTime(m, gsm) BY <1>1, <3>1, <2>2
    <3> QED BY <2>1, <3>2, SMT DEF InTime
  <2>3. ASSUME gsm' = "CallPresent", Has(up, "Alerting")' \/ ms' \in {"confirmed", "alerting"}
        PROVE  Has(up, "CallConfirmed")'
    <3>1. Has(up, "Alerting")' => Has(up, "Alerting") BY <1>0, <2>1, <1>h, TakenHas
    <3>2. ms' \in {"confirmed", "alerting"} => ms' = ms BY <2>1, HearsLess
    <3>3. Has(up, "CallConfirmed") BY <1>0, <2>1, <2>3, <3>1, <3>2, Zenon DEF Ahead
    <3>4. CASE up' = up BY <3>3, <3>4, <1>h, Zenon
    <3>5. CASE Takes /\ Head(up) # "CallConfirmed"
      <4>1. /\ Len(up) \in Nat /\ Head(up) = up[1] /\ Len(up') = Len(up) - 1
            /\ \A i \in 1 .. Len(up') : up'[i] = up[i + 1]
        BY <1>0, <3>5, HeadTailProperties DEF Takes
      <4>2. PICK i \in 1 .. Len(up) : up[i] = "CallConfirmed" BY <3>3, Zenon DEF Has
      <4>3. i # 1 BY <4>1, <4>2, <3>5
      <4>4. i - 1 \in 1 .. Len(up') /\ (i - 1) + 1 = i BY <4>1, <4>2, <4>3
      <4>5. up'[i - 1] = "CallConfirmed" BY <4>1, <4>2, <4>4
      <4>6. Has(up', "CallConfirmed") BY <4>4, <4>5, Zenon DEF Has
      <4> QED BY <4>6, <1>h, Zenon
    <3> QED BY <1>3, <2>1, <2>3, <3>4, <3>5, Zenon DEF CalmMove
  <2> QED BY <2>2, <2>3, Zenon DEF Ahead
<1>4. CASE ClearMove BY <1>2, <1>4 DEF ClearMove
<1>5. CASE DisconnectMove
  <2>1. Takes /\ Head(up) = "Disconnect" /\ gsm' = "ReleaseRequest" /\ Hears
    BY <1>5, Zenon DEF DisconnectMove
  <2>2. ASSUME NEW m \in SetupFrames, Coming(m)' PROVE FALSE
    <3>1. Has(Tail(up), m) \/ ToCome(ms, m)
      <4>1. CASE Has(up, m)' BY <4>1, <2>1, <1>h DEF Takes
      <4>2. CASE ToCome(ms, m)'
        <5>1. ToCome(ms', m) BY <4>2 DEF ToCome
        <5> QED BY <5>1, <2>1, HearsLess
      <4> QED BY <2>2, <4>1, <4>2, Zenon DEF Coming
    <3>2. Follows(Head(up), m) BY <2>1, <3>1, FirstFrame
    <3> QED BY <2>1, <3>2, SMT DEF Follows, Enders
  <2>3. gsm' # "CallPresent" BY <2>1
  <2> QED BY <2>2, <2>3, Zenon DEF Ahead
<1>6. CASE SetupMove
  <2>1. /\ Takes /\ gsm # "Null" /\ ms' = ms
        /\ \/ Head(up) = "CallConfirmed" /\ gsm' = "MTCConfirmed"
           \/ Head(up) = "Alerting" /\ gsm' = "CallReceived"
           \/ Head(up) \in {"Connect", "ConnectAck"} /\ gsm' = "Active"
    BY <1>6, Zenon DEF SetupMove, callConfirmed
  <2>2. ASSUME NEW m \in SetupFrames, Coming(m)' PROVE InTime(m, gsm)'
    <3>1. Has(Tail(up), m) \/ ToCome(ms, m)
      <4>1. CASE Has(up, m)' BY <4>1, <2>1, <1>h DEF Takes
      <4>2. CASE ToCome(ms, m)' BY <4>2, <2>1 DEF ToCome
      <4> QED BY <2>2, <4>1, <4>2, Zenon DEF Coming
    <3>2. Follows(Head(up), m) BY <2>1, <3>1, FirstFrame
    <3>3. Hears BY <2>1 DEF Hears
    <3>4. Coming(m) BY <1>0, <2>1, <2>2, <3>3, ComesLess
    <3>5. Has(up, Head(up)) BY <2>1, FirstFrame
    <3>6. Coming(Head(up)) BY <3>5 DEF Coming
    <3>7. /\ instigator => m \notin {"CallConfirmed", "Alerting", "Connect"}
          /\ ~instigator => m # "ConnectAck"
      BY <1>0, <3>4, SidesCome
    <3>8. /\ instigator => Head(up) \notin {"CallConfirmed", "Alerting", "Connect"}
          /\ ~instigator => Head(up) # "ConnectAck"
      BY <1>0, <3>6, SidesCome
    <3>9. /\ Head(up) \notin {"Connect", "ConnectAck"}
          /\ Head(up) = "Alerting" => m = "Connect"
          /\ Head(up) = "CallConfirmed" => m # "CallConfirmed"
      BY <3>2, SMT DEF Follows
    <3>10. m \in {"CallConfirmed", "Alerting", "Connect", "ConnectAck"} BY DEF SetupFrames
    <3>11. \/ Head(up) = "CallConfirmed" /\ gsm' = "MTCConfirmed" /\ m \in {"Alerting", "Connect"}
           \/ Head(up) = "Alerting" /\ gsm' = "CallReceived" /\ m = "Connect"
      BY <2>1, <3>7, <3>8, <3>9, <3>10, SMT
    <3> QED BY <3>11, SMT DEF InTime
  <2>3. gsm' # "CallPresent" BY <2>1, SMT
  <2> QED BY <2>2, <2>3, Zenon DEF Ahead
<1>7. CASE StartMove
  <2>1. up' = up /\ \A i \in 1 .. Len(up) : up[i] = "ERROR" BY <1>7, Zenon DEF StartMove
  <2>2. \A m \in SetupFrames : ~Has(up, m)
    BY <2>1, SMT DEF Has, SetupFrames
  <2>3. \A m \in SetupFrames : ~Has(up, m)' BY <2>1, <2>2, <1>h, Zenon
  <2>4. ~Has(up, "Alerting")' BY <2>3 DEF SetupFrames
  <2>5. CASE instigator /\ gsm' = "MOCProceeding" /\ gsm = "MOCInitiated" /\ ms' = ms
    <3>1. ASSUME NEW m \in SetupFrames, Coming(m)' PROVE FALSE
      <4>1. ms \notin {"paged", "calling"} /\ ToCome(ms, m) BY <2>3, <2>5, <3>1, SMT DEF Coming, ToCome
      <4>2. Coming(m) BY <4>1, Zenon DEF Coming
      <4>3. InTime(m, gsm) BY <1>1, <3>1, <4>2
      <4> QED BY <2>5, <4>3, SMT DEF InTime
    <3>2. gsm' # "CallPresent" BY <2>5
    <3> QED BY <3>1, <3>2, Zenon DEF Ahead
  <2>6. CASE ~instigator /\ gsm' = "CallPresent" /\ ms' \in {"paged", "called"}
    <3>1. ASSUME NEW m \in SetupFrames, Coming(m)' PROVE InTime(m, gsm)'
      <4>1. ms' = "called" /\ ToCome(ms, m)' BY <2>3, <2>6, <3>1, SMT DEF Coming
      <4>2. m \in {"CallConfirmed", "Alerting", "Connect"} BY <4>1, SMT DEF ToCome
      <4> QED BY <2>6, <4>2, SMT DEF InTime
    <3>2. ms' \notin {"confirmed", "alerting"} BY <2>6, SMT
    <3> QED BY <2>4, <3>1, <3>2, Zenon DEF Ahead
  <2> QED BY <1>7, <2>5, <2>6, Zenon DEF StartMove
<1>8. CASE RingMove
  <2>1. /\ instigator /\ gsm \in {"MOCProceeding", "CallReceived"} /\ up' = up
        /\ (gsm' = "CallReceived" /\ ms' = ms) \/ gsm' = "ConnectIndication"
    BY <1>8, Zenon DEF RingMove
  <2>2. instigator' /\ Sides' BY <1>0, <2>1, SidesMove
  <2>3. ASSUME NEW m \in SetupFrames, Coming(m)' PROVE gsm' = "ConnectIndication" /\ m = "ConnectAck"
    <3>1. m \notin {"CallConfirmed", "Alerting", "Connect"}
      BY <2>2, <2>3, SMT DEF Sides, Coming, ToCome
    <3>2. m = "ConnectAck" BY <3>1 DEF SetupFrames
    <3>3. CASE gsm' = "CallReceived" /\ ms' = ms
      <4>1. Hears BY <3>3 DEF Hears
      <4>2. Coming(m) BY <1>0, <2>1, <2>3, <4>1, ComesLess
      <4>3. InTime(m, gsm) BY <1>1, <2>3, <4>2
      <4> QED BY <2>1, <3>2, <4>3, SMT DEF InTime
    <3> QED BY <2>1, <3>2, <3>3, Zenon
  <2>4. gsm' # "CallPresent" BY <2>1, SMT
  <2>5. ASSUME NEW m \in SetupFrames, Coming(m)' PROVE InTime(m, gsm)' BY <2>3, <2>5, SMT DEF InTime
  <2> QED BY <2>4, <2>5, Zenon DEF Ahead
<1>9. CASE HangUpMove
  <2>1. gsm = "Active" /\ gsm' = "DisconnectIndication" /\ Hears /\ up' = up
    BY <1>9, Zenon DEF HangUpMove
  <2>2. ASSUME NEW m \in SetupFrames, Coming(m)' PROVE FALSE
    <3>1. Coming(m) BY <1>0, <2>1, <2>2, ComesLess
    <3>2. InTime(m, gsm) BY <1>1, <2>2, <3>1
    <3> QED BY <2>1, <3>2, SMT DEF InTime
  <2>3. gsm' # "CallPresent" BY <2>1
  <2> QED BY <2>2, <2>3, Zenon DEF Ahead
<1> QED BY <1>3, <1>4, <1>5, <1>6, <1>7, <1>8, <1>9, Zenon DEF Move

LEMMA ResetOff ==
    ASSUME resetTimers PROVE \A t \in Q931Timers : timers'[t] = "off"
  BY DEF resetTimers

LEMMA AloneOff ==
    ASSUME NEW u, setTimerAlone(u) PROVE \A t \in Q931Timers : timers'[t] # "off" => t = u
  BY DEF setTimerAlone

LEMMA SetOff ==
    ASSUME NEW u, setTimer(u), timers \in [Q931Timers -> {"off", "running", "expired"}]
    PROVE  \A t \in Q931Timers : timers'[t] # "off" => t = u \/ timers[t] # "off"
  BY DEF setTimer

\* Each Q.931 state has its timers, also after a move: the one left on is one of the new state.
LEMMA TimersMove ==
    ASSUME HandsetSide, Timed, Move,
           gsm = "CallPresent" /\ Takes => Head(up) # "Alerting"
    PROVE  OneTimer'
<1>0. /\ OneTimer /\ instigator' = instigator /\ timers \in [Q931Timers -> {"off", "running", "expired"}]
      /\ \A m \in SetupFrames : Coming(m) => InTime(m, gsm)
  BY Zenon DEF HandsetSide, Move, Timed, Ahead
<1>a. \A t \in Q931Timers : Allowed(t, gsm)' <=> Allowed(t, gsm') BY <1>0, SMT DEF Allowed
<1>s. SUFFICES ASSUME NEW t \in Q931Timers, timers'[t] # "off" PROVE Allowed(t, gsm')
  BY <1>a, Zenon DEF OneTimer
<1>1. timers[t] # "off" => Allowed(t, gsm) BY <1>0, Zenon DEF OneTimer
<1>2. CASE timers' = timers /\ gsm' = gsm BY <1>s, <1>1, <1>2
<1>3. CASE timers' = timers /\ gsm \in {"MOCInitiated", "MOCProceeding"} BY <1>s, <1>1, <1>3, SMT DEF Allowed
<1>4. CASE timers' = timers /\ gsm = "CallReceived" /\ instigator BY <1>s, <1>1, <1>4, SMT DEF Allowed
<1>5. CASE resetTimers BY <1>s, <1>5, ResetOff
<1>6. CASE setTimerAlone("308") /\ gsm' \in {"Null", "ReleaseRequest"}
  <2>1. t = "308" BY <1>s, <1>6, AloneOff
  <2> QED BY <2>1, <1>6, SMT DEF Allowed
<1>7. CASE SetupMove
  <2>1. Coming(Head(up)) BY <1>7, FirstFrame, Zenon DEF SetupMove, Coming
  <2>2. Head(up) \in SetupFrames => InTime(Head(up), gsm) BY <1>0, <2>1
  <2>3. CASE Head(up) = "CallConfirmed" /\ callConfirmed
    <3>1. gsm = "CallPresent" \/ gsm = "Null" BY <2>2, <2>3, SMT DEF SetupFrames, InTime
    <3>2. gsm' = "MTCConfirmed" /\ (t = "301" \/ (t # "303" /\ timers[t] # "off"))
      BY <1>0, <1>s, <2>3, SMT DEF callConfirmed, Q931Timers
    <3>3. gsm # "Null" BY <1>7, Zenon DEF SetupMove
    <3> QED BY <1>1, <3>1, <3>2, <3>3, SMT DEF Allowed
  <2>4. CASE Head(up) = "Alerting" /\ gsm' = "CallReceived" /\ setTimer("301")
    <3>1. gsm \in {"CallPresent", "MTCConfirmed"} \/ gsm = "Null"
      BY <2>2, <2>4, SMT DEF SetupFrames, InTime
    <3>2. gsm = "MTCConfirmed" BY <1>7, <2>4, <3>1, SMT DEF SetupMove
    <3>3. t = "301" \/ timers[t] # "off" BY <1>0, <1>s, <2>4, SetOff
    <3>4. ~instigator
      <4>1. Sides BY Zenon DEF HandsetSide
      <4> QED BY <2>1, <2>4, <4>1, SidesCome
    <3> QED BY <1>1, <2>4, <3>2, <3>3, <3>4, SMT DEF Allowed
  <2> QED BY <1>5, <1>7, <2>3, <2>4, Zenon DEF SetupMove
<1>8. CASE StartMove
  <2>1. CASE gsm' = "CallPresent" /\ setTimer("303") /\ gsm = "AnsweredPaging"
    <3>1. t = "303" \/ timers[t] # "off" BY <1>0, <1>s, <2>1, SetOff
    <3> QED BY <1>1, <2>1, <3>1, SMT DEF Allowed
  <2> QED BY <1>3, <1>8, <2>1, Zenon DEF StartMove
<1>9. CASE RingMove
  <2>1. CASE gsm' = "ConnectIndication" /\ setTimer("313")
    <3>1. t = "313" \/ timers[t] # "off" BY <1>0, <1>s, <2>1, SetOff
    <3>2. instigator /\ gsm \in {"MOCProceeding", "CallReceived"} BY <1>9, Zenon DEF RingMove
    <3> QED BY <1>1, <2>1, <3>1, <3>2, SMT DEF Allowed
  <2> QED BY <1>3, <1>4, <1>9, <2>1, SMT DEF RingMove
<1>10. CASE HangUpMove
  <2>1. gsm' = "DisconnectIndication" /\ setTimer("305") /\ gsm = "Active" BY <1>10, Zenon DEF HangUpMove
  <2>2. t = "305" \/ timers[t] # "off" BY <1>0, <1>s, <2>1, SetOff
  <2> QED BY <1>1, <2>1, <2>2, SMT DEF Allowed
<1>11. CASE CalmMove BY <1>2, <1>11, Zenon DEF CalmMove
<1>12. CASE ClearMove BY <1>5, <1>6, <1>12, SMT DEF ClearMove
<1>13. CASE DisconnectMove BY <1>6, <1>13, SMT DEF DisconnectMove
<1> QED BY <1>7, <1>8, <1>9, <1>10, <1>11, <1>12, <1>13, Zenon DEF Move

\* Alerting is not the first frame while the call has not been confirmed.
LEMMA NotAlertingYet ==
    ASSUME HandsetSide, gsm = "CallPresent", Takes PROVE Head(up) # "Alerting"
<1> SUFFICES ASSUME Head(up) = "Alerting" PROVE FALSE OBVIOUS
<1>1. Has(up, "Alerting") BY FirstFrame
<1>2. Has(up, "CallConfirmed") BY <1>1, Zenon DEF HandsetSide, Ahead
<1>3. PICK i \in 1 .. Len(up) : up[i] = "CallConfirmed" BY <1>2, Zenon DEF Has
<1>4. up \in Seq(UpMessage) /\ Len(up) \in Nat /\ Head(up) = up[1] BY HeadTailProperties DEF HandsetSide, Takes
<1>5. 1 < i /\ 1 \in 1 .. Len(up) BY <1>3, <1>4
<1>6. Follows(up[1], up[i]) BY <1>3, <1>5, Zenon DEF HandsetSide, Ordered
<1> QED BY <1>3, <1>4, <1>6, SMT DEF Follows, SetupFrames

LEMMA HandsetSideMoves == ASSUME HandsetSide, Timed, Move PROVE HandsetSide'
<1>1. OneTimer' BY NotAlertingYet, TimersMove
<1> QED BY <1>1, OrderedMoves, SidesMove, AheadMoves, Zenon DEF HandsetSide

\* The handset, or the radio link, adds the frame x.
Adds(x) ==
    /\ x \in UpMessage /\ up' = Append(up, x)
    /\ gsm' = gsm /\ timers' = timers /\ instigator' = instigator
    /\ ~instigator => x # "ConnectAck"
    /\ instigator => x \notin {"CallConfirmed", "Alerting", "Connect"}
    /\ x \in SetupFrames => ms \notin {"paged", "calling"} /\ ToCome(ms, x)
    /\ x = "Alerting" => ms = "confirmed"
    /\ ms' = ms \/ x = "CallConfirmed" \/ ms' # "confirmed"
    /\ ms' = ms \/ x = "Alerting" \/ ms' # "alerting"
    /\ instigator => ms' \notin {"paged", "called", "confirmed", "alerting", "offered"}
    /\ ~instigator => ms' \notin {"calling", "connected"}
    /\ \A m \in SetupFrames : ToCome(ms', m) =>
          ToCome(ms, m) /\ Follows(x, m) /\ (ms' \notin {"paged", "calling"} => ms \notin {"paged", "calling"})

LEMMA Adding == ASSUME HandsetSide, NEW x, Adds(x) PROVE HandsetSide'
<1>0. /\ up \in Seq(UpMessage) /\ Ordered /\ Sides /\ Ahead /\ OneTimer /\ instigator' = instigator
      /\ x \in UpMessage /\ up' = Append(up, x) /\ gsm' = gsm /\ timers' = timers
  BY Zenon DEF HandsetSide, Adds
<1>1. /\ up' \in Seq(UpMessage) /\ Len(up') = Len(up) + 1 /\ Len(up) \in Nat
      /\ \A i \in 1 .. Len(up) : up'[i] = up[i]
      /\ up'[Len(up) + 1] = x
  BY <1>0, AppendProperties
<1>2. \A m : Has(up', m) => Has(up, m) \/ x = m BY <1>0, AppendHas
<1>h. \A m : Has(up, m)' <=> Has(up', m) BY DEF Has
<1>3. Ordered'
  <2>1. ASSUME NEW i \in 1 .. Len(up'), NEW j \in 1 .. Len(up'), i < j PROVE Follows(up'[i], up'[j])
    <3>1. i \in 1 .. Len(up) /\ up'[i] = up[i] BY <1>1, <2>1
    <3>2. CASE j \in 1 .. Len(up)
      <4>1. up'[j] = up[j] BY <1>1, <3>2
      <4>2. Follows(up[i], up[j]) BY <1>0, <2>1, <3>1, <3>2, Zenon DEF Ordered
      <4> QED BY <3>1, <4>1, <4>2
    <3>3. CASE j = Len(up) + 1
      <4>1. up'[j] = x BY <1>1, <3>3
      <4>2. CASE x \in SetupFrames
        <5>1. ToCome(ms, x) BY <4>2, Zenon DEF Adds
        <5>2. Follows(up[i], x) BY <1>0, <3>1, <4>2, <5>1, Zenon DEF Ordered
        <5> QED BY <3>1, <4>1, <5>2
      <4>3. CASE x \notin SetupFrames BY <4>1, <4>3 DEF Follows
      <4> QED BY <4>2, <4>3
    <3> QED BY <1>1, <3>2, <3>3
  <2>2. ASSUME NEW i \in 1 .. Len(up'), NEW m \in SetupFrames, ToCome(ms', m) PROVE Follows(up'[i], m)
    <3>1. ToCome(ms, m) /\ Follows(x, m) BY <2>2, Zenon DEF Adds
    <3>2. CASE i \in 1 .. Len(up)
      <4>1. up'[i] = up[i] BY <1>1, <3>2
      <4>2. Follows(up[i], m) BY <1>0, <3>1, <3>2, Zenon DEF Ordered
      <4> QED BY <4>1, <4>2
    <3>3. CASE i = Len(up) + 1 BY <1>1, <3>1, <3>3
    <3> QED BY <1>1, <3>2, <3>3
  <2> QED BY <2>1, <2>2, Zenon DEF Ordered
<1>4. Sides'
  <2>1. instigator => \A m \in {"CallConfirmed", "Alerting", "Connect"} : ~Has(up', m)
    <3> SUFFICES ASSUME instigator, NEW m \in {"CallConfirmed", "Alerting", "Connect"} PROVE ~Has(up', m)
      OBVIOUS
    <3>1. ~Has(up, m) BY <1>0, Zenon DEF Sides
    <3>2. x # m BY Zenon DEF Adds
    <3> QED BY <1>2, <3>1, <3>2
  <2>2. ~instigator => ~Has(up', "ConnectAck") BY <1>0, <1>2, Zenon DEF Sides, Adds
  <2>3. /\ instigator => ms' \notin {"paged", "called", "confirmed", "alerting", "offered"}
        /\ ~instigator => ms' \notin {"calling", "connected"}
    BY Zenon DEF Adds
  <2> QED BY <1>0, <1>h, <2>1, <2>2, <2>3, Zenon DEF Sides
<1>5. Ahead'
  <2>1. ASSUME NEW m \in SetupFrames, Coming(m)' PROVE InTime(m, gsm)'
    <3>1. Coming(m)
      <4>1. CASE Has(up, m)'
        <5>1. Has(up, m) \/ x = m BY <1>2, <1>h, <4>1
        <5>2. x = m => ms \notin {"paged", "calling"} /\ ToCome(ms, m) BY <2>1, Zenon DEF Adds
        <5> QED BY <5>1, <5>2, Zenon DEF Coming
      <4>2. CASE ms' \notin {"paged", "calling"} /\ ToCome(ms, m)'
        <5>1. ToCome(ms', m) BY <4>2 DEF ToCome
        <5>2. ms \notin {"paged", "calling"} /\ ToCome(ms, m) BY <2>1, <4>2, <5>1, Zenon DEF Adds
        <5> QED BY <5>2, Zenon DEF Coming
      <4> QED BY <2>1, <4>1, <4>2, Zenon DEF Coming
    <3>2. InTime(m, gsm) BY <1>0, <2>1, <3>1, Zenon DEF Ahead
    <3> QED BY <1>0, <3>2, SMT DEF InTime
  <2>2. ASSUME gsm' = "CallPresent", Has(up, "Alerting")' \/ ms' \in {"confirmed", "alerting"}
        PROVE  Has(up, "CallConfirmed")'
    <3>1. Has(up, "CallConfirmed") \/ x = "CallConfirmed"
      <4>1. CASE Has(up, "Alerting") \/ ms \in {"confirmed", "alerting"}
        BY <1>0, <2>2, <4>1, Zenon DEF Ahead
      <4>2. CASE x = "Alerting"
        <5>1. ms = "confirmed" BY <4>2, Zenon DEF Adds
        <5> QED BY <4>1, <5>1
      <4>3. Has(up, "Alerting")' => Has(up, "Alerting") \/ x = "Alerting" BY <1>2, <1>h
      <4>4. ms' \in {"confirmed", "alerting"} => ms' = ms \/ x \in {"CallConfirmed", "Alerting"}
        BY SMT DEF Adds
      <4> QED BY <2>2, <4>1, <4>2, <4>3, <4>4, SMT
    <3>2. CASE Has(up, "CallConfirmed")
      <4>1. PICK i \in 1 .. Len(up) : up[i] = "CallConfirmed" BY <3>2, Zenon DEF Has
      <4>2. i \in 1 .. Len(up') /\ up'[i] = "CallConfirmed" BY <1>1, <4>1
      <4>3. Has(up', "CallConfirmed") BY <4>2, Zenon DEF Has
      <4> QED BY <1>h, <4>3
    <3>3. CASE x = "CallConfirmed"
      <4>1. Len(up) + 1 \in 1 .. Len(up') /\ up'[Len(up) + 1] = "CallConfirmed" BY <1>1, <3>3
      <4>2. Has(up', "CallConfirmed") BY <4>1, Zenon DEF Has
      <4> QED BY <1>h, <4>2
    <3> QED BY <3>1, <3>2, <3>3
  <2> QED BY <2>1, <2>2, Zenon DEF Ahead
<1>6. OneTimer'
  <2>1. \A t \in Q931Timers : Allowed(t, gsm)' <=> Allowed(t, gsm) BY <1>0, SMT DEF Allowed
  <2> QED BY <1>0, <2>1, Zenon DEF OneTimer
<1> QED BY <1>1, <1>3, <1>4, <1>5, <1>6, Zenon DEF HandsetSide

LEMMA HandsetAdds ==
    ASSUME HandsetSide, handsetSends \/ handsetPressesKey \/ handsetAnswersRR \/ dataLinkError
    PROVE  \E x : Adds(x)
<1>0. /\ UNCHANGED <<gsm, timers, instigator>> /\ Sides
  BY Zenon DEF handsetSends, handsetPressesKey, handsetAnswersRR, dataLinkError, HandsetSide
<1>s. /\ instigator => ms \notin {"paged", "called", "confirmed", "alerting", "offered"}
      /\ ~instigator => ms \notin {"calling", "connected"}
  BY <1>0, Zenon DEF Sides
<1>1. CASE handsetSends
  <2>1. PICK t \in MSSends : ms = t[1] /\ up' = Append(up, t[2]) /\ ms' = t[3]
    BY <1>1 DEF handsetSends
  <2>2. \/ ms = "called" /\ t[2] = "CallConfirmed" /\ ms' = "confirmed"
        \/ ms = "confirmed" /\ t[2] = "Alerting" /\ ms' = "alerting"
        \/ ms = "alerting" /\ t[2] = "Connect" /\ ms' = "offered"
        \/ ms = "connected" /\ t[2] = "ConnectAck" /\ ms' = "talking"
        \/ t[2] \in Enders /\ ms' \in {"released", "releasing", "disconnecting", "idle"}
    BY <2>1, SMT DEF MSSends, InCall, Enders
  <2>3. t[2] \in UpMessage BY <2>2, SMT DEF UpMessage, Enders
  <2>4. CASE t[2] \in Enders /\ ms' \in {"released", "releasing", "disconnecting", "idle"}
    <3>1. \A m \in SetupFrames : ~ToCome(ms', m) BY <2>4, SMT DEF ToCome
    <3>2. t[2] \notin SetupFrames BY <2>4, SMT DEF Enders, SetupFrames
    <3>3. t[2] \notin {"CallConfirmed", "Alerting", "Connect", "ConnectAck"} BY <2>4, SMT DEF Enders
    <3>4. ms' \notin {"paged", "called", "confirmed", "alerting", "offered", "calling", "connected"} BY <2>4, SMT
    <3>5. Adds(t[2]) BY <1>0, <2>1, <2>3, <3>1, <3>2, <3>3, <3>4, SMT DEF Adds
    <3> QED BY <3>5
  <2>5. CASE ms = "called" /\ t[2] = "CallConfirmed" /\ ms' = "confirmed"
    BY <1>0, <1>s, <2>1, <2>3, <2>5, SMT DEF Adds, ToCome, SetupFrames, Follows, Enders
  <2>6. CASE ms = "confirmed" /\ t[2] = "Alerting" /\ ms' = "alerting"
    BY <1>0, <1>s, <2>1, <2>3, <2>6, SMT DEF Adds, ToCome, SetupFrames, Follows, Enders
  <2>7. CASE ms = "alerting" /\ t[2] = "Connect" /\ ms' = "offered"
    BY <1>0, <1>s, <2>1, <2>3, <2>7, SMT DEF Adds, ToCome, SetupFrames, Follows, Enders
  <2>8. CASE ms = "connected" /\ t[2] = "ConnectAck" /\ ms' = "talking"
    BY <1>0, <1>s, <2>1, <2>3, <2>8, SMT DEF Adds, ToCome, SetupFrames, Follows, Enders
  <2> QED BY <2>2, <2>4, <2>5, <2>6, <2>7, <2>8
<1>2. CASE handsetPressesKey \/ handsetAnswersRR \/ dataLinkError
  <2>1. ms' = ms /\ \E m \in {"StartDTMF", "ERROR", "ModeAck", "ModeNak"} : up' = Append(up, m)
    BY <1>2, SMT DEF handsetPressesKey, handsetAnswersRR, dataLinkError
  <2>2. PICK m \in {"StartDTMF", "ERROR", "ModeAck", "ModeNak"} : up' = Append(up, m) BY <2>1
  <2>3. m \in UpMessage /\ m \notin SetupFrames /\ \A b : Follows(m, b)
    BY SMT DEF UpMessage, SetupFrames, Follows, Enders
  <2>4. m \notin {"CallConfirmed", "Alerting", "Connect", "ConnectAck"} OBVIOUS
  <2>5. Adds(m) BY <1>0, <1>s, <2>1, <2>2, <2>3, <2>4, SMT DEF Adds
  <2> QED BY <2>5
<1> QED BY <1>1, <1>2

LEMMA Expiring ==
    ASSUME HandsetSide, Timed, NEW u \in Q931Timers, timerExpires(u) PROVE HandsetSide'
<1>1. /\ timers' = [timers EXCEPT ![u] = "expired"] /\ timers[u] = "running"
      /\ UNCHANGED <<gsm, instigator, up, ms>>
  BY Zenon DEF timerExpires
<1>2. \A t \in Q931Timers : timers'[t] # "off" => timers[t] # "off"
  BY <1>1, SMT DEF Timed
<1>3. \A t \in Q931Timers : Allowed(t, gsm)' <=> Allowed(t, gsm) BY <1>1, SMT DEF Allowed
<1>4. OneTimer' BY <1>2, <1>3, Zenon DEF HandsetSide, OneTimer
<1>5. up' = up /\ ms' = ms /\ gsm' = gsm /\ instigator' = instigator BY <1>1
<1>7. \A m \in SetupFrames : ToCome(ms', m) => ToCome(ms, m) BY <1>5, Zenon
<1>8. Ordered' BY <1>5, <1>7, QueueKeeps, Zenon DEF HandsetSide
<1>9. Sides' BY <1>5, Zenon DEF HandsetSide, Sides, Has
<1>10. Ahead' BY <1>5, Zenon DEF HandsetSide, Ahead, Coming, Has, InTime, ToCome
<1> QED BY <1>4, <1>5, <1>8, <1>9, <1>10, Zenon DEF HandsetSide
-----------------------------------------------------------------------------
(***************************************************************************)
(* Where the thread goes.                                                  *)
(***************************************************************************)
LEMMA NotWaiting == (pc \notin Waiting => place = pc) /\ (pc' \notin Waiting => place' = pc')
  BY Zenon DEF place

LEMMA Gone == ASSUME NEW p, p \notin Waiting, goto(p) PROVE pc' = p /\ place' = p
  BY NotWaiting DEF goto

LEMMA ClearsTo ==
    ASSUME NEW d, NEW m, clears(m, <<d>>)
    PROVE  pc' = "Wait" /\ place' = d /\ sip' \in {"MODClearing", "MODCanceling"}
<1>1. pc' = "Wait" /\ back' = <<d>> /\ sip' \in {"MODClearing", "MODCanceling"} BY DEF clears
<1>2. back'[Len(back')] = d BY <1>1
<1> QED BY <1>1, <1>2 DEF place, Waiting

LEMMA ClearsTo2 ==
    ASSUME NEW d \in PC, NEW m, clears(m, <<"Wait487">> \o <<d>>)
    PROVE  pc' = "Wait" /\ place' = d /\ sip' \in {"MODClearing", "MODCanceling"}
<1>1. pc' = "Wait" /\ back' = <<"Wait487">> \o <<d>> /\ sip' \in {"MODClearing", "MODCanceling"} BY DEF clears
<1>2. "Wait487" \in PC BY DEF PC
<1>3. Len(back') = 2 /\ back'[2] = d BY <1>1, <1>2, Pair
<1> QED BY <1>1, <1>3 DEF place, Waiting

LEMMA ForceTo ==
    ASSUME NEW d, d \notin Waiting, forceSIPClearing(d)
    PROVE  /\ place' = d
           /\ \/ pc' = d /\ sip' = sip /\ SIPFinished /\ UNCHANGED <<saved, sw, fifo>>
              \/ pc' = "Wait" /\ sip' \in {"MODClearing", "MODCanceling"}
<1>1. CASE SIPFinished /\ goto(d) /\ UNCHANGED <<sip, saved, sw, fifo>> BY <1>1, Gone
<1>2. CASE ~SIPFinished /\ clears(IF sip = "Active" THEN "BYE" ELSE cancelOrError, <<d>>)
  BY <1>2, ClearsTo
<1> QED BY <1>1, <1>2 DEF forceSIPClearing

LEMMA WaitsTo == ASSUME Waits, modWaits \/ MODWaitFor487 PROVE place' = place
<1>0. back \in Seq(PC) BY Zenon DEF Waits
<1>1. pc \in Waiting /\ pc' = Head(back) /\ back' = Tail(back)
  BY Zenon DEF modWaits, MODWaitFor487, Waiting
<1>2. CASE Len(back) = 1 /\ Destination(back[1])
  <2>1. pc' = back[1] /\ place = back[1] BY <1>0, <1>1, <1>2 DEF place
  <2>2. pc' \notin Waiting BY <1>2, <2>1 DEF Destination, Waiting
  <2> QED BY <2>1, <2>2, NotWaiting
<1>3. CASE Len(back) = 2 /\ back[1] = "Wait487"
  <2>1. pc' = "Wait487" /\ place = back[2] BY <1>0, <1>1, <1>3 DEF place
  <2>2. Len(back') = 1 /\ back'[1] = back[2] BY <1>0, <1>1, <1>3
  <2> QED BY <2>1, <2>2 DEF place, Waiting
<1> QED BY <1>1, <1>2, <1>3, Zenon DEF Waits, Waiting

LEMMA AfterIs ==
    /\ after("Setup") = "SetupSIP" /\ after("MOCRing") = "MOCRingSIP" /\ after("MOCAnswerGSM") = "MOCAnswered"
    /\ after("MOCConnect") = "MOCConnect" /\ after("MTCAlert") = "MTCAlertSIP" /\ after("MTCAck") = "MTCAckSIP"
    /\ after("Talk") = "TalkSIP"
<1>1. after("Setup") = "SetupSIP" BY Zenon DEF after
<1>2. after("MOCRing") = "MOCRingSIP" BY Zenon DEF after
<1>3. after("MOCAnswerGSM") = "MOCAnswered" BY Zenon DEF after
<1>4. after("MOCConnect") = "MOCConnect" BY Zenon DEF after
<1>5. after("MTCAlert") = "MTCAlertSIP" BY Zenon DEF after
<1>6. after("MTCAck") = "MTCAckSIP" BY Zenon DEF after
<1>7. after("Talk") = "TalkSIP" BY Zenon DEF after
<1> QED BY <1>1, <1>2, <1>3, <1>4, <1>5, <1>6, <1>7

LEMMA ClearedIs ==
    /\ whenCleared("Setup") = "SetupRelease" /\ whenCleared("Talk") = "TalkSIPCleared"
    /\ \A p \in Looping \ {"Setup", "Talk"} : whenCleared(p) = "Abort"
<1>1. whenCleared("Setup") = "SetupRelease" BY Zenon DEF whenCleared
<1>2. whenCleared("Talk") = "TalkSIPCleared" BY Zenon DEF whenCleared
<1>3. \A p \in Looping \ {"Setup", "Talk"} : whenCleared(p) = "Abort" BY Zenon DEF whenCleared
<1> QED BY <1>1, <1>2, <1>3

\* Where the thread is in updateGSMSignalling, and where it goes.
LEMMA RoundIs ==
    ASSUME pc \in Looping
    PROVE  /\ place = pc
           /\ after(pc) \notin Waiting /\ whenCleared(pc) \notin Waiting
           /\ \/ pc = "Setup" /\ after(pc) = "SetupSIP" /\ whenCleared(pc) = "SetupRelease"
              \/ pc = "MOCRing" /\ after(pc) = "MOCRingSIP" /\ whenCleared(pc) = "Abort"
              \/ pc = "MOCAnswerGSM" /\ after(pc) = "MOCAnswered" /\ whenCleared(pc) = "Abort"
              \/ pc = "MOCConnect" /\ after(pc) = "MOCConnect" /\ whenCleared(pc) = "Abort"
              \/ pc = "MTCAlert" /\ after(pc) = "MTCAlertSIP" /\ whenCleared(pc) = "Abort"
              \/ pc = "MTCAck" /\ after(pc) = "MTCAckSIP" /\ whenCleared(pc) = "Abort"
              \/ pc = "Talk" /\ after(pc) = "TalkSIP" /\ whenCleared(pc) = "TalkSIPCleared"
<1>1. pc \notin Waiting BY SMT DEF Looping, Waiting
<1>2. \/ pc = "Setup" /\ after(pc) = "SetupSIP" /\ whenCleared(pc) = "SetupRelease"
      \/ pc = "MOCRing" /\ after(pc) = "MOCRingSIP" /\ whenCleared(pc) = "Abort"
      \/ pc = "MOCAnswerGSM" /\ after(pc) = "MOCAnswered" /\ whenCleared(pc) = "Abort"
      \/ pc = "MOCConnect" /\ after(pc) = "MOCConnect" /\ whenCleared(pc) = "Abort"
      \/ pc = "MTCAlert" /\ after(pc) = "MTCAlertSIP" /\ whenCleared(pc) = "Abort"
      \/ pc = "MTCAck" /\ after(pc) = "MTCAckSIP" /\ whenCleared(pc) = "Abort"
      \/ pc = "Talk" /\ after(pc) = "TalkSIP" /\ whenCleared(pc) = "TalkSIPCleared"
  BY AfterIs, ClearedIs, SMT DEF Looping
<1>3. after(pc) \notin Waiting /\ whenCleared(pc) \notin Waiting BY <1>2, SMT DEF Waiting
<1> QED BY <1>1, <1>2, <1>3, NotWaiting

(* What one step of the thread does: Continues, with the states as they are; SetsUp, with a    *)
(* frame of call setup; Leaves, for an end of the controllers; HungUp, with the wait for the   *)
(* answer to a BYE.                                                                            *)

Continues(p) == pc' = p /\ place' = p /\ gsm' = gsm /\ sip' = sip
SetsUp(p) == pc' = p /\ place' = p /\ sip' = sip /\ SetupMove
Leaves(p) ==
    /\ place' = p /\ pc' \in {p, "Wait"} /\ gsm' \in {gsm, "Null"}
    /\ pc' = "Wait" \/ gsm' = "Null" \/ (gsm' = gsm /\ sip' = sip)
HungUp(p) == pc' = "Wait" /\ place' = p /\ gsm' = "ReleaseRequest"

\* Nobody answers the call, and the switch's answer is not taken for it.
FifoLess == fifo' = fifo \/ (fifo # <<>> /\ fifo' = Tail(fifo))
NobodyAnswers ==
    /\ answered' = answered
    /\ sw' = "up" => sw = "up"
    /\ pc' = "Wait" \/ FifoLess
    /\ sip' = "Active" => sip = "Active"

LEMMA HeardUp == ASSUME NEW m, m # "OK", Heard(m) = "up" PROVE sw = "up"
<1>1. Heard(m) \in {"hungup", "over"} \/ Heard(m) = sw BY Zenon DEF Heard
<1> QED BY <1>1

LEMMA SendsUp == ASSUME NEW m, m # "OK", sends(m) \/ asks(m), sw' = "up" PROVE sw = "up"
  BY HeardUp DEF sends, asks

LEMMA ClearsUp ==
    ASSUME NEW m \in {"BYE", "CANCEL", "ERROR"}, NEW next, clears(m, next), sw' = "up" PROVE sw = "up"
  BY SendsUp DEF clears

LEMMA CancelOrErrorIs == cancelOrError \in {"BYE", "CANCEL", "ERROR"}
  BY DEF cancelOrError

LEMMA ForceUp == ASSUME NEW next, forceSIPClearing(next), sw' = "up" PROVE sw = "up"
<1>1. CASE UNCHANGED <<sip, saved, sw, fifo>> BY <1>1
<1>2. CASE clears(IF sip = "Active" THEN "BYE" ELSE cancelOrError, <<next>>)
  <2> DEFINE m == IF sip = "Active" THEN "BYE" ELSE cancelOrError
  <2>1. m \in {"BYE", "CANCEL", "ERROR"} BY CancelOrErrorIs
  <2> HIDE DEF m
  <2>2. clears(m, <<next>>) BY <1>2 DEF m
  <2> QED BY <2>1, <2>2, ClearsUp
<1> QED BY <1>1, <1>2, Zenon DEF forceSIPClearing

LEMMA ForceNobody ==
    ASSUME NEW d, d \notin Waiting, forceSIPClearing(d), answered' = answered PROVE NobodyAnswers
<1>1. sw' = "up" => sw = "up" BY ForceUp
<1>2. \/ sip' = sip /\ UNCHANGED <<saved, sw, fifo>>
      \/ pc' = "Wait" /\ sip' \in {"MODClearing", "MODCanceling"}
  BY ForceTo
<1> QED BY <1>1, <1>2, SMT DEF NobodyAnswers, FifoLess

LEMMA SameSIPNobody == ASSUME noSIP, answered' = answered PROVE NobodyAnswers
  BY SMT DEF noSIP, NobodyAnswers, FifoLess

\* The handset is told of the end, or that the call is connected.
LEMMA TellsHears ==
    ASSUME NEW m \in {"ChannelRelease", "ReleaseComplete", "Release", "Disconnect", "ConnectAck"}, tells(m)
    PROVE  Hears
<1>1. Told(m) \in {"idle", "released", "toldRelease", "toldDisconnect"} \/ Told(m) = ms
      \/ (ms = "offered" /\ Told(m) = "talking")
  BY Zenon DEF Told
<1>2. ms' = ms \/ ms' = Told(m) BY DEF tells
<1> QED BY <1>1, <1>2 DEF Hears

LEMMA ForceGSMMove ==
    ASSUME forceGSMClearing, up' = up PROVE CalmMove \/ ClearMove
<1>1. CASE UNCHANGED <<gsm, timers, ms, link>> BY <1>1, SMT DEF CalmMove, Hears
<1>2. CASE gsm' = "Null" /\ resetTimers /\ tells("ChannelRelease")
  <2>1. Hears BY <1>2, TellsHears
  <2> QED BY <1>2, <2>1, Zenon DEF ClearMove
<1> QED BY <1>1, <1>2, Zenon DEF forceGSMClearing

LEMMA ForceGSMIs == ASSUME forceGSMClearing PROVE gsm' = "Null"
  BY DEF forceGSMClearing

\* A step of updateGSMSignalling.
LEMMA GSMSteps ==
    ASSUME HandsetSide, ByeSaved, Waits, updateGSMSignalling
    PROVE  /\ Move /\ NobodyAnswers
           /\ \/ Continues(after(pc)) /\ gsm # "Null" /\ (pc = "MOCConnect" => gsm # "Active")
              \/ SetsUp(after(pc))
              \/ Leaves(whenCleared(pc))
              \/ HungUp(after(pc))
<1>0. /\ pc \in Looping /\ instigator' = instigator /\ answered' = answered
      /\ pc = "MOCConnect" => gsm # "Active"
  BY Zenon DEF updateGSMSignalling
<1>a. after(pc) \notin Waiting /\ whenCleared(pc) \notin Waiting BY <1>0, RoundIs
<1>b. whenCleared(pc) \in PC
  <2>1. pc \in MOCPart => instigator BY Zenon DEF Waits
  <2> QED BY <1>0, <2>1, Ways DEF Destination
<1>1. CASE gsm = "Null" /\ goto(whenCleared(pc)) /\ noSIP /\ UNCHANGED <<gsm, timers, up, ms, link>>
  <2>1. pc' = whenCleared(pc) /\ place' = whenCleared(pc) BY <1>1, <1>a, Gone
  <2>2. Hears BY <1>1 DEF Hears
  <2>3. Move BY <1>0, <1>1, <2>2, Zenon DEF Move, CalmMove
  <2>4. NobodyAnswers BY <1>0, <1>1, SameSIPNobody
  <2>5. Leaves(whenCleared(pc)) BY <1>1, <2>1, SMT DEF Leaves, noSIP
  <2> QED BY <2>3, <2>4, <2>5
<1>2. CASE abortCall(whenCleared(pc)) /\ UNCHANGED up
  <2>1. forceGSMClearing /\ forceSIPClearing(whenCleared(pc)) BY <1>2 DEF abortCall
  <2>2. Move BY <1>0, <1>2, <2>1, ForceGSMMove DEF Move
  <2>3. NobodyAnswers BY <1>0, <1>a, <2>1, ForceNobody
  <2>4. Leaves(whenCleared(pc)) BY <1>a, <2>1, ForceGSMIs, ForceTo DEF Leaves
  <2> QED BY <2>2, <2>3, <2>4
<1>3. CASE gsm # "Null" /\ goto(after(pc)) /\ noSIP /\ UNCHANGED <<gsm, timers, up, ms, link>>
  <2>1. pc' = after(pc) /\ place' = after(pc) BY <1>3, <1>a, Gone
  <2>2. Hears BY <1>3 DEF Hears
  <2>3. Move BY <1>0, <1>3, <2>2, Zenon DEF Move, CalmMove
  <2>4. NobodyAnswers BY <1>0, <1>3, SameSIPNobody
  <2>5. Continues(after(pc)) BY <1>3, <2>1, SMT DEF Continues, noSIP
  <2> QED BY <1>0, <1>3, <2>3, <2>4, <2>5
<1>4. ASSUME gsm # "Null", up # <<>>, up' = Tail(up), callManagementDispatchGSM(Head(up))
      PROVE  /\ Move /\ NobodyAnswers
             /\ \/ Continues(after(pc)) /\ gsm # "Null" /\ (pc = "MOCConnect" => gsm # "Active")
                \/ SetsUp(after(pc)) \/ Leaves(whenCleared(pc)) \/ HungUp(after(pc))
  <2>0. Takes BY <1>4 DEF Takes
  <2>1. CASE callSetupMessage(Head(up))
    <3>1. /\ \/ Head(up) = "CallConfirmed" /\ callConfirmed
             \/ Head(up) = "Alerting" /\ gsm' = "CallReceived" /\ setTimer("301")
             \/ Head(up) \in {"Connect", "ConnectAck"} /\ gsm' = "Active" /\ resetTimers
          /\ goto(after(pc)) /\ noSIP /\ ms' = ms
      BY <2>1, Zenon DEF callSetupMessage
    <3>2. SetupMove BY <1>4, <2>0, <3>1, Zenon DEF SetupMove
    <3>3. SetsUp(after(pc)) BY <1>a, <3>1, <3>2, Gone DEF SetsUp, noSIP
    <3>4. NobodyAnswers BY <1>0, <3>1, SameSIPNobody
    <3> QED BY <1>0, <3>2, <3>3, <3>4, Zenon DEF Move
  <2>2. CASE disconnectMessage(Head(up))
    <3>1. Head(up) = "Disconnect" /\ setTimerAlone("308") /\ tells("Release")
      BY <2>2, Zenon DEF disconnectMessage
    <3>2. Hears BY <3>1, TellsHears
    <3>3. CASE gsm' = "ReleaseRequest" /\ clears("BYE", <<after(pc)>>)
      <4>1. HungUp(after(pc)) BY <3>3, ClearsTo DEF HungUp
      <4>2. Move BY <1>0, <2>0, <3>1, <3>2, <3>3, Zenon DEF Move, DisconnectMove
      <4>3. NobodyAnswers BY <1>0, <3>3, ClearsTo, ClearsUp DEF NobodyAnswers
      <4> QED BY <4>1, <4>2, <4>3
    <3>4. CASE gsm' = "Null" /\ clears(cancelOrError, (IF instigator THEN <<"Wait487">> ELSE <<>>)
                                                       \o <<whenCleared(pc)>>)
      <4>1. pc' = "Wait" /\ place' = whenCleared(pc) /\ sip' \in {"MODClearing", "MODCanceling"}
        <5>1. CASE instigator
          <6>1. clears(cancelOrError, <<"Wait487">> \o <<whenCleared(pc)>>) BY <3>4, <5>1
          <6> QED BY <1>b, <6>1, ClearsTo2
        <5>2. CASE ~instigator
          <6>1. <<>> \o <<whenCleared(pc)>> = <<whenCleared(pc)>> OBVIOUS
          <6>2. clears(cancelOrError, <<whenCleared(pc)>>) BY <3>4, <5>2, <6>1
          <6> QED BY <6>2, ClearsTo
        <5> QED BY <5>1, <5>2
      <4>2. Leaves(whenCleared(pc)) BY <3>4, <4>1 DEF Leaves
      <4>3. Move BY <1>0, <2>0, <3>1, <3>2, <3>4, Zenon DEF Move, ClearMove
      <4>4. sw' = "up" => sw = "up" BY <3>4, CancelOrErrorIs, ClearsUp
      <4>5. NobodyAnswers BY <1>0, <4>1, <4>4, SMT DEF NobodyAnswers
      <4> QED BY <4>2, <4>3, <4>5
    <3> QED BY <2>2, <3>3, <3>4, Zenon DEF disconnectMessage
  <2>3. CASE releaseMessage(Head(up))
    <3>1. Head(up) = "Release" BY <2>3 DEF releaseMessage
    <3>2. "BYE" \in saved BY <1>4, <3>1, TailHas DEF ByeSaved
    <3>3. /\ gsm' = "Null" /\ resetTimers /\ tells("ChannelRelease") /\ fifo' = fifo
          /\ sip' = "Cleared" /\ sends("BYEOK") /\ goto(whenCleared(pc))
      BY <2>3, <3>2, Zenon DEF releaseMessage
    <3>4. Hears BY <3>3, TellsHears
    <3>5. Move BY <1>0, <2>0, <3>3, <3>4, Zenon DEF Move, ClearMove
    <3>6. Leaves(whenCleared(pc)) BY <1>a, <3>3, Gone DEF Leaves
    <3>7. NobodyAnswers BY <1>0, <3>3, SendsUp DEF NobodyAnswers, FifoLess
    <3> QED BY <3>5, <3>6, <3>7
  <2>4. CASE releaseCompleteMessage(Head(up))
    <3>1. gsm' = "Null" /\ resetTimers /\ tells("ChannelRelease") /\ goto(whenCleared(pc)) /\ noSIP
      BY <2>4, Zenon DEF releaseCompleteMessage
    <3>2. Hears BY <3>1, TellsHears
    <3>3. Move BY <1>0, <2>0, <3>1, <3>2, Zenon DEF Move, ClearMove
    <3>4. Leaves(whenCleared(pc)) BY <1>a, <3>1, Gone DEF Leaves
    <3>5. NobodyAnswers BY <1>0, <3>1, SameSIPNobody
    <3> QED BY <3>3, <3>4, <3>5
  <2>5. CASE detachMessage(Head(up))
    <3>1. /\ Head(up) = "Detach" /\ tells("ChannelRelease") /\ forceSIPClearing(whenCleared(pc))
          /\ gsm' = gsm /\ timers' = timers
      BY <2>5, Zenon DEF detachMessage, entryVars
    <3>2. Hears BY <3>1, TellsHears
    <3>3. Head(up) # "CallConfirmed" BY <3>1
    <3>4. Move BY <1>0, <2>0, <3>1, <3>2, <3>3, Zenon DEF Move, CalmMove
    <3>5. Leaves(whenCleared(pc)) BY <1>a, <3>1, ForceTo DEF Leaves
    <3>6. NobodyAnswers BY <1>0, <1>a, <3>1, ForceNobody
    <3> QED BY <3>4, <3>5, <3>6
  <2>6. CASE startDTMFMessage(Head(up))
    <3>1. /\ Head(up) = "StartDTMF" /\ fifo' = (IF fifo = <<>> THEN fifo ELSE Tail(fifo))
          /\ goto(after(pc)) /\ gsm' = gsm /\ timers' = timers /\ sip' = sip /\ sw' = sw /\ ms' = ms
      BY <2>6, Zenon DEF startDTMFMessage
    <3>2. Hears BY <3>1 DEF Hears
    <3>3. Head(up) # "CallConfirmed" BY <3>1
    <3>4. Move BY <1>0, <2>0, <3>1, <3>2, <3>3, Zenon DEF Move, CalmMove
    <3>5. Continues(after(pc)) BY <1>a, <3>1, Gone DEF Continues
    <3>6. FifoLess BY <3>1, SMT DEF FifoLess
    <3>7. NobodyAnswers BY <1>0, <3>1, <3>6, SMT DEF NobodyAnswers
    <3> QED BY <1>0, <1>4, <3>4, <3>5, <3>7
  <2>7. CASE otherMessage(Head(up))
    <3>1. /\ Head(up) \in {"ERROR", "ModeAck", "ModeNak"}
          /\ goto(whenCleared(pc)) \/ goto(after(pc))
          /\ noSIP /\ gsm' = gsm /\ timers' = timers /\ ms' = ms
      BY <2>7, Zenon DEF otherMessage
    <3>2. Hears BY <3>1 DEF Hears
    <3>3. Head(up) # "CallConfirmed" BY <3>1
    <3>4. Move BY <1>0, <2>0, <3>1, <3>2, <3>3, Zenon DEF Move, CalmMove
    <3>s. sip' = sip BY <3>1 DEF noSIP
    <3>5. goto(whenCleared(pc)) => Leaves(whenCleared(pc))
      BY <1>a, <3>1, <3>s, Gone DEF Leaves
    <3>6. goto(after(pc)) => Continues(after(pc))
      BY <1>a, <3>1, <3>s, Gone DEF Continues
    <3>7. NobodyAnswers BY <1>0, <3>1, SameSIPNobody
    <3> QED BY <1>0, <1>4, <3>1, <3>4, <3>5, <3>6, <3>7
  <2> QED BY <1>4, <2>1, <2>2, <2>3, <2>4, <2>5, <2>6, <2>7, Zenon DEF callManagementDispatchGSM
<1> QED BY <1>1, <1>2, <1>3, <1>4, Zenon DEF updateGSMSignalling

LEMMA SetupIs ==
    ASSUME HandsetSide, SetupMove
    PROVE  \/ ~instigator /\ gsm = "CallPresent" /\ gsm' = "MTCConfirmed"
           \/ ~instigator /\ gsm = "MTCConfirmed" /\ gsm' = "CallReceived"
           \/ /\ ~instigator /\ gsm \in {"CallPresent", "MTCConfirmed", "CallReceived"} /\ gsm' = "Active"
              /\ Has(up, "Connect")
           \/ instigator /\ gsm = "ConnectIndication" /\ gsm' = "Active" /\ Has(up, "ConnectAck")
<1>1. /\ Takes /\ gsm # "Null"
      /\ \/ Head(up) = "CallConfirmed" /\ gsm' = "MTCConfirmed"
         \/ Head(up) = "Alerting" /\ gsm' = "CallReceived"
         \/ Head(up) \in {"Connect", "ConnectAck"} /\ gsm' = "Active"
  BY Zenon DEF SetupMove, callConfirmed
<1>2. Has(up, Head(up)) BY <1>1, FirstFrame
<1>3. Coming(Head(up)) BY <1>2 DEF Coming
<1>4. Head(up) \in SetupFrames BY <1>1, SMT DEF SetupFrames
<1>5. InTime(Head(up), gsm) BY <1>3, <1>4, Zenon DEF HandsetSide, Ahead
<1>6. /\ instigator => Head(up) \notin {"CallConfirmed", "Alerting", "Connect"}
      /\ ~instigator => Head(up) # "ConnectAck"
  BY <1>3, SidesCome DEF HandsetSide
<1>7. Head(up) = "Alerting" => gsm # "CallPresent" BY <1>1, NotAlertingYet
<1> QED BY <1>1, <1>2, <1>5, <1>6, <1>7, SMT DEF InTime

ControlSide == At /\ Finished /\ Silent

\* How a step may change the phase of the call and who has answered it.
PhaseMove ==
    /\ pc \in Over => pc' \in Over
    /\ clearing => clearing' \/ pc' \in Over
    /\ pc \in Talking => pc' \in Talking \/ clearing' \/ pc' \in Over
    /\ pc' \in Talking /\ ~clearing' => pc \in Talking \/ answered = {"handset", "switch"}
    /\ \/ answered' = answered
       \/ /\ answered' = answered \union {"handset"} \/ answered' = answered \union {"switch"}
          /\ clearing' = clearing
          /\ pc' \in Over <=> pc \in Over
          /\ pc' \in Talking <=> pc \in Talking

LEMMA NotAtStart == ASSUME pc' # "Start" PROVE Silent'
  BY Zenon DEF Silent

LEMMA GSMControl ==
    ASSUME HandsetSide, ControlSide, ByeSaved, Waits, updateGSMSignalling
    PROVE  At' /\ Finished' /\ Silent' /\ PhaseMove
<1>0. /\ pc \in Looping /\ At /\ Finished /\ instigator' = instigator /\ answered' = answered
  BY Zenon DEF updateGSMSignalling, ControlSide
<1>1. /\ place = pc
      /\ \/ pc = "Setup" /\ after(pc) = "SetupSIP" /\ whenCleared(pc) = "SetupRelease"
         \/ pc = "MOCRing" /\ after(pc) = "MOCRingSIP" /\ whenCleared(pc) = "Abort"
         \/ pc = "MOCAnswerGSM" /\ after(pc) = "MOCAnswered" /\ whenCleared(pc) = "Abort"
         \/ pc = "MOCConnect" /\ after(pc) = "MOCConnect" /\ whenCleared(pc) = "Abort"
         \/ pc = "MTCAlert" /\ after(pc) = "MTCAlertSIP" /\ whenCleared(pc) = "Abort"
         \/ pc = "MTCAck" /\ after(pc) = "MTCAckSIP" /\ whenCleared(pc) = "Abort"
         \/ pc = "Talk" /\ after(pc) = "TalkSIP" /\ whenCleared(pc) = "TalkSIPCleared"
  BY <1>0, RoundIs
<1>2. CASE Continues(after(pc)) /\ gsm # "Null" /\ (pc = "MOCConnect" => gsm # "Active")
  <2>1. At' BY <1>0, <1>1, <1>2, SMT DEF At, Fits, Continues, MOCPart, MTCPart, Talking
  <2>2. Finished' BY <1>0, <1>1, <1>2, SMT DEF Finished, SIPFinished, Continues, PreTalk, MOCPart, MTCPart, Waiting
  <2>3. PhaseMove
    BY <1>0, <1>1, <1>2, SMT DEF PhaseMove, clearing, clearingGSM, SIPFinished, Continues, Over, Talking
  <2>4. pc' # "Start" BY <1>1, <1>2, SMT DEF Continues
  <2> QED BY <2>1, <2>2, <2>3, <2>4, NotAtStart
<1>3. CASE SetsUp(after(pc))
  <2>0. \/ ~instigator /\ gsm = "CallPresent" /\ gsm' = "MTCConfirmed"
        \/ ~instigator /\ gsm = "MTCConfirmed" /\ gsm' = "CallReceived"
        \/ ~instigator /\ gsm \in {"CallPresent", "MTCConfirmed", "CallReceived"} /\ gsm' = "Active"
        \/ instigator /\ gsm = "ConnectIndication" /\ gsm' = "Active"
    BY <1>3, SetupIs DEF SetsUp
  <2>1. At' BY <1>0, <1>1, <1>3, <2>0, SMT DEF At, Fits, SetsUp, MOCPart, MTCPart, Talking
  <2>5. ~SIPFinished /\ pc \in PreTalk
    BY <1>0, <1>1, <2>0, SMT DEF Finished, PreTalk, MOCPart, MTCPart, At, Fits, Talking
  <2>6. ~SIPFinished' BY <1>3, <2>5, SMT DEF SetsUp, SIPFinished
  <2>7. pc' \notin Waiting BY <1>1, <1>3, SMT DEF SetsUp, Waiting
  <2>2. Finished' BY <2>6, <2>7, Zenon DEF Finished, Waiting
  <2>8. pc' \notin Talking /\ pc \notin Talking /\ pc \notin Over
    BY <1>1, <1>3, <2>5, SMT DEF SetsUp, Talking, PreTalk, MOCPart, MTCPart, Over
  <2>9. ~clearing
    BY <1>1, <2>0, <2>5, SMT DEF clearing, clearingGSM
  <2>3. PhaseMove BY <1>0, <2>8, <2>9, Zenon DEF PhaseMove
  <2>4. pc' # "Start" BY <1>1, <1>3, SMT DEF SetsUp
  <2> QED BY <2>1, <2>2, <2>3, <2>4, NotAtStart
<1>4. CASE Leaves(whenCleared(pc))
  <2>1. At' BY <1>0, <1>1, <1>4, SMT DEF At, Fits, Leaves, MOCPart, MTCPart, Talking
  <2>2. Finished' BY <1>1, <1>4, SMT DEF Finished, Leaves, PreTalk, MOCPart, MTCPart, Waiting
  <2>3. PhaseMove
    BY <1>0, <1>1, <1>4, SMT DEF PhaseMove, clearing, clearingGSM, SIPFinished, Leaves, Over, Talking
  <2>4. pc' # "Start" BY <1>1, <1>4, SMT DEF Leaves
  <2> QED BY <2>1, <2>2, <2>3, <2>4, NotAtStart
<1>5. CASE HungUp(after(pc))
  <2>1. At' BY <1>0, <1>1, <1>5, SMT DEF At, Fits, HungUp, MOCPart, MTCPart, Talking
  <2>2. Finished' BY <1>5, SMT DEF Finished, HungUp
  <2>3. PhaseMove
    BY <1>0, <1>1, <1>5, SMT DEF PhaseMove, clearing, HungUp, Over, Talking
  <2>4. pc' # "Start" BY <1>5, SMT DEF HungUp
  <2> QED BY <2>1, <2>2, <2>3, <2>4, NotAtStart
<1> QED BY <1>2, <1>3, <1>4, <1>5, GSMSteps

\* What a step adds to the evidence that the switch has answered.
AnswerMove ==
    /\ answered \subseteq answered'
    /\ sw' = "up" => sw = "up" \/ "switch" \in answered'
    /\ Open' => FifoLess
    /\ Open' /\ sip' = "Active" => sip = "Active" \/ Has(fifo, "200") \/ Has(fifo, "ACK")
    /\ Open' /\ pc' = "MOCConnect" => pc = "MOCConnect" \/ sip = "Active"

LEMMA NobodyMoves ==
    ASSUME NobodyAnswers, pc' = "MOCConnect" => pc = "MOCConnect" \/ sip = "Active" PROVE AnswerMove
<1>1. pc' = "Wait" => ~Open' BY SMT DEF Open, clearing
<1>2. answered \subseteq answered' BY DEF NobodyAnswers
<1> QED BY <1>1, <1>2, Zenon DEF NobodyAnswers, AnswerMove

StepKept == Move /\ At' /\ Finished' /\ Silent' /\ PhaseMove /\ AnswerMove

LEMMA GSMKept ==
    ASSUME HandsetSide, ControlSide, ByeSaved, Waits, updateGSMSignalling PROVE StepKept
<1>1. Move /\ NobodyAnswers BY GSMSteps
<1>2. pc' = "MOCConnect" => pc = "MOCConnect"
  <2>1. pc \in Looping BY Zenon DEF updateGSMSignalling
  <2>2. pc' \in {after(pc), whenCleared(pc), "Wait"}
    BY GSMSteps, SMT DEF Continues, SetsUp, Leaves, HungUp
  <2> QED BY <2>1, <2>2, RoundIs, SMT
<1>3. AnswerMove BY <1>1, <1>2, NobodyMoves
<1> QED BY <1>1, <1>3, GSMControl, Zenon DEF StepKept

(* Steps that end the part of the controllers, or wait for the end. *)

Aside == {"SetupRelease", "Abort"} \union Over

LEMMA AsideControl ==
    ASSUME At, place' \in Aside, pc' \notin {"Start", "Wait487"}, gsm' \in {gsm, "Null"}, instigator' = instigator
    PROVE  At' /\ Finished' /\ Silent'
<1>1. /\ place' \notin {"Start", "Assign", "Mode"}
      /\ place' \notin MOCPart /\ place' \notin MTCPart /\ place' \notin Talking
  BY SMT DEF Aside, Over, MOCPart, MTCPart, Talking
<1>a. Fits(place', gsm') BY <1>1, SMT DEF Fits, MOCPart, MTCPart, Talking
<1>b. /\ gsm' \in {"MOCInitiated", "MOCProceeding", "ConnectIndication"} => instigator'
      /\ gsm' \in {"AnsweredPaging", "CallPresent", "MTCConfirmed"} => ~instigator'
  BY SMT DEF At
<1>2. At' BY <1>1, <1>a, <1>b, Zenon DEF At
<1>3. Finished' BY <1>1, SMT DEF Finished, PreTalk
<1> QED BY <1>2, <1>3, NotAtStart

LEMMA EndPhase ==
    ASSUME answered' = answered, pc' \in Over \union {"Wait", "Wait487", "Abort"}, pc \notin Over PROVE PhaseMove
<1>1. pc' \in Over \/ clearing' BY SMT DEF clearing
<1>2. pc' \notin Talking \/ clearing' BY SMT DEF clearing, Over, Talking
<1> QED BY <1>1, <1>2, Zenon DEF PhaseMove

\* The thread leaves for d, with the SIP side cleared by force.
LEMMA ForceKept ==
    ASSUME At, pc \notin Over, NEW d \in Over, forceSIPClearing(d), answered' = answered,
           gsm' \in {gsm, "Null"}, instigator' = instigator
    PROVE  At' /\ Finished' /\ Silent' /\ PhaseMove /\ AnswerMove
<1>1. d \notin Waiting BY SMT DEF Over, Waiting
<1>2. place' = d /\ pc' \in {d, "Wait"} BY <1>1, ForceTo
<1>3. place' \in Aside /\ pc' \notin {"Start", "Wait487", "MOCConnect"} BY <1>2, SMT DEF Aside, Over
<1>4. pc' \in Over \union {"Wait", "Wait487", "Abort"} BY <1>2
<1>5. NobodyAnswers BY <1>1, ForceNobody
<1> QED BY <1>3, <1>4, <1>5, AsideControl, EndPhase, NobodyMoves

LEMMA AbortKept == ASSUME HandsetSide, ControlSide, abortAndRemoveCall PROVE StepKept
<1>1. /\ forceGSMClearing /\ forceSIPClearing("Removed") /\ pc = "Abort"
      /\ UNCHANGED <<instigator, up, answered>>
  BY Zenon DEF abortAndRemoveCall, abortCall
<1>2. pc \notin Over /\ "Removed" \in Over /\ At BY <1>1, SMT DEF Over, ControlSide
<1>3. gsm' \in {gsm, "Null"} BY <1>1, ForceGSMIs
<1>4. Move BY <1>1, ForceGSMMove, Zenon DEF Move
<1> QED BY <1>1, <1>2, <1>3, <1>4, ForceKept, Zenon DEF StepKept

\* The thread leaves for d at once.
LEMMA LeaveKept ==
    ASSUME At, pc \notin Over, NEW d \in Over \union {"Abort"}, goto(d), answered' = answered,
           gsm' \in {gsm, "Null"}, instigator' = instigator
    PROVE  At' /\ Finished' /\ Silent' /\ PhaseMove /\ pc' = d
<1>1. d \notin Waiting BY SMT DEF Over, Waiting
<1>2. place' = d /\ pc' = d BY <1>1, Gone
<1>3. place' \in Aside /\ pc' \notin {"Start", "Wait487"} BY <1>2, SMT DEF Aside, Over
<1> QED BY <1>2, <1>3, AsideControl, EndPhase, Zenon

LEMMA CalmMoves ==
    ASSUME UNCHANGED <<gsm, timers, up, instigator>>,
           ms' = ms \/ \E m \in {"ChannelRelease", "Release", "Disconnect", "ConnectAck"} : tells(m)
    PROVE  Move
<1>1. Hears BY TellsHears, SMT DEF Hears
<1>2. gsm' = gsm /\ timers' = timers /\ up' = up /\ instigator' = instigator OBVIOUS
<1> QED BY <1>1, <1>2, Zenon DEF Move, CalmMove

\* The SIP half of a round before the call is answered.
LEMMA ChecksTo ==
    ASSUME NEW p, p \notin Waiting, checksForCancel(p), answered' = answered
    PROVE  /\ NobodyAnswers
           /\ \/ pc' = "Abort" /\ place' = "Abort"
              \/ pc' = p /\ place' = p /\ sip' = (IF gsm = "CallReceived" THEN "Proceeding" ELSE sip)
<1>1. /\ fifo' = (IF fifo = <<>> THEN fifo ELSE Tail(fifo))
      /\ \/ sip' = "Canceled" /\ sends("CANCELOK") /\ goto("Abort")
         \/ sip' = "Fail" /\ sw' = sw /\ goto("Abort")
         \/ sip' = (IF gsm = "CallReceived" THEN "Proceeding" ELSE sip) /\ sw' = sw /\ goto(p)
  BY Zenon DEF checksForCancel
<1>2. FifoLess BY <1>1, SMT DEF FifoLess
<1>3. sw' = "up" => sw = "up" BY <1>1, SendsUp
<1>4. sip' = "Active" => sip = "Active" BY <1>1, SMT
<1>5. NobodyAnswers BY <1>2, <1>3, <1>4, Zenon DEF NobodyAnswers
<1>6. "Abort" \notin Waiting BY DEF Waiting
<1> QED BY <1>1, <1>5, <1>6, Gone

\* Between two places before the call is carried, with the SIP side unfinished.
LEMMA SetupPhase ==
    ASSUME answered' = answered, pc \notin Over, pc \notin Talking, pc' \notin Talking,
           clearing => clearing'
    PROVE  PhaseMove
  BY Zenon DEF PhaseMove

LEMMA StarterKept == ASSUME HandsetSide, ControlSide, Starter PROVE StepKept
<1>0. At /\ Finished /\ Silent BY Zenon DEF ControlSide
<1>1. CASE MOCStarter
  <2>1. /\ pc = "Start" /\ instigator /\ gsm' = "MOCProceeding" /\ sip' = "Starting"
        /\ UNCHANGED <<instigator, timers, saved, fifo, up, ms, sw, answered>>
        /\ goto(IF veryEarly THEN "Mode" ELSE "Assign")
    BY <1>1, Zenon DEF MOCStarter
  <2>2. pc' \in {"Mode", "Assign"} /\ place' = pc'
    <3>1. pc' \in {"Mode", "Assign"} BY <2>1, Zenon DEF goto
    <3> QED BY <3>1, NotWaiting, SMT DEF Waiting
  <2>3. place = "Start" BY <2>1, NotWaiting DEF Waiting
  <2>4. gsm = "MOCInitiated" /\ sip \in {"Null", "Proceeding"} BY <1>0, <2>1, <2>3, SMT DEF At, Fits
  <2>5. \A i \in 1 .. Len(up) : up[i] = "ERROR" BY <1>0, <2>1, Zenon DEF Silent
  <2>6. Move BY <2>1, <2>4, <2>5, Zenon DEF Move, StartMove
  <2>7. At' BY <2>1, <2>2, SMT DEF At, Fits, MOCPart, MTCPart, Talking
  <2>8. Finished' BY <2>1, <2>2, SMT DEF Finished, SIPFinished, Waiting
  <2>9. PhaseMove
    BY <2>1, <2>2, <2>4, SetupPhase, SMT DEF clearing, clearingGSM, SIPFinished, Over, Talking
  <2>10. AnswerMove BY <2>1, <2>2, NobodyMoves, SMT DEF NobodyAnswers, FifoLess
  <2>11. pc' # "Start" BY <2>2, SMT
  <2> QED BY <2>6, <2>7, <2>8, <2>9, <2>10, <2>11, NotAtStart, Zenon DEF StepKept
<1>2. CASE MTCStarter
  <2>1. /\ pc = "Start" /\ ~instigator /\ gsm' = "CallPresent" /\ setTimer("303") /\ tells("Setup")
        /\ UNCHANGED <<instigator, sip, saved, fifo, up, sw, answered>>
        /\ goto("Setup")
    BY <1>2, Zenon DEF MTCStarter
  <2>2. pc' = "Setup" /\ place' = "Setup" BY <2>1, Gone DEF Waiting
  <2>3. place = "Start" BY <2>1, NotWaiting DEF Waiting
  <2>4. gsm = "AnsweredPaging" /\ sip \in {"Null", "Proceeding"} BY <1>0, <2>1, <2>3, SMT DEF At, Fits
  <2>5. (\A i \in 1 .. Len(up) : up[i] = "ERROR") /\ ms \in {"calling", "paged"} BY <1>0, <2>1, Zenon DEF Silent
  <2>6. ms = "paged" BY <2>1, <2>5, SMT DEF HandsetSide, Sides
  <2>a. Told("Setup") = "called" BY Zenon DEF Told
  <2>b. ms' \in {"paged", "called"} BY <2>1, <2>6, <2>a DEF tells
  <2>c. up' = up /\ instigator' = instigator BY <2>1
  <2>d. StartMove BY <2>1, <2>4, <2>5, <2>6, <2>b, <2>c, Zenon DEF StartMove
  <2>e. Move BY <2>c, <2>d, Zenon DEF Move
  <2>7. At' BY <2>1, <2>2, SMT DEF At, Fits, MOCPart, MTCPart, Talking
  <2>8. Finished' BY <2>1, <2>2, <2>4, SMT DEF Finished, SIPFinished, Waiting
  <2>9. PhaseMove
    BY <2>1, <2>2, <2>4, SetupPhase, SMT DEF clearing, clearingGSM, SIPFinished, Over, Talking
  <2>10. AnswerMove BY <2>1, <2>2, NobodyMoves, SMT DEF NobodyAnswers, FifoLess
  <2>11. pc' # "Start" BY <2>2, SMT
  <2> QED BY <2>e, <2>7, <2>8, <2>9, <2>10, <2>11, NotAtStart, Zenon DEF StepKept
<1>3. CASE noTCH \/ setupRelease
  <2>1. /\ goto("Stray") /\ pc \in {"Start", "SetupRelease"}
        /\ UNCHANGED <<instigator, gsm, timers, sip, saved, fifo, up, sw, answered>>
        /\ ms' = ms \/ tells("ChannelRelease")
    BY <1>3, Zenon DEF noTCH, setupRelease
  <2>2. pc \notin Over /\ "Stray" \in Over BY <2>1, SMT DEF Over
  <2>3. At' /\ Finished' /\ Silent' /\ PhaseMove /\ pc' = "Stray" BY <1>0, <2>1, <2>2, LeaveKept
  <2>4. Move BY <2>1, CalmMoves
  <2>5. AnswerMove BY <2>1, <2>3, NobodyMoves, SMT DEF NobodyAnswers, FifoLess
  <2> QED BY <2>3, <2>4, <2>5, Zenon DEF StepKept
<1>4. CASE setupSIP
  <2> DEFINE next == IF gsm # "MTCConfirmed" THEN "Setup" ELSE IF veryEarly THEN "Mode" ELSE "Assign"
  <2>1. /\ pc = "SetupSIP" /\ checksForCancel(next)
        /\ UNCHANGED <<instigator, gsm, timers, up, ms, answered>>
    BY <1>4, Zenon DEF setupSIP
  <2>2. next \in {"Setup", "Mode", "Assign"} /\ (next \in {"Mode", "Assign"} => gsm = "MTCConfirmed")
    OBVIOUS
  <2> HIDE DEF next
  <2>3. next \notin Waiting BY <2>2, SMT DEF Waiting
  <2>4. \/ /\ pc' = "Abort" /\ place' = "Abort" /\ NobodyAnswers
        \/ /\ pc' = next /\ place' = next /\ NobodyAnswers
           /\ sip' = sip \/ sip' = "Proceeding"
    BY <2>1, <2>3, ChecksTo
  <2>5. Move BY <2>1, CalmMoves
  <2>6. pc' \notin {"Start", "Wait487", "MOCConnect"} BY <2>2, <2>4, SMT
  <2>7. AnswerMove BY <2>4, <2>6, NobodyMoves
  <2>8. place = "SetupSIP" BY <2>1, NotWaiting, SMT DEF Waiting
  <2>9. CASE pc' = "Abort" /\ place' = "Abort"
    <3>1. pc \notin Over /\ "Abort" \in Aside BY <2>1, SMT DEF Over, Aside
    <3>2. At' /\ Finished' /\ Silent' /\ PhaseMove
      BY <1>0, <2>1, <2>6, <2>9, <3>1, AsideControl, EndPhase
    <3> QED BY <2>5, <2>7, <3>2, Zenon DEF StepKept
  <2>10. CASE pc' = next /\ place' = next /\ (sip' = sip \/ sip' = "Proceeding")
    <3>1. At' BY <1>0, <2>1, <2>2, <2>8, <2>10, SMT DEF At, Fits, MOCPart, MTCPart, Talking
    <3>2. SIPFinished => gsm = "ReleaseRequest" BY <1>0, <2>8, SMT DEF Finished, PreTalk, MTCPart
    <3>3. Finished' BY <2>1, <2>2, <2>10, <3>2, SMT DEF Finished, SIPFinished, Waiting
    <3>4. clearing => clearing'
      BY <2>1, <2>2, <2>10, <3>2, SMT DEF clearing, clearingGSM, SIPFinished
    <3>5. pc \notin Over /\ pc \notin Talking /\ pc' \notin Talking BY <2>1, <2>2, <2>10, SMT DEF Over, Talking
    <3>6. PhaseMove BY <2>1, <3>4, <3>5, SetupPhase
    <3> QED BY <2>5, <2>6, <2>7, <3>1, <3>3, <3>6, NotAtStart, Zenon DEF StepKept
  <2> QED BY <2>4, <2>9, <2>10
<1> QED BY <1>1, <1>2, <1>3, <1>4, Zenon DEF Starter

LEMMA SameNobody == ASSUME UNCHANGED <<sip, fifo, sw, answered>> PROVE NobodyAnswers
  BY SMT DEF NobodyAnswers, FifoLess

\* From the assignment to the controller of the kind of call.
LEMMA AssignedControl ==
    ASSUME ControlSide, pc \in {"Assign", "Mode"}, goto(controller), UNCHANGED <<instigator, gsm, sip, answered>>
    PROVE  At' /\ Finished' /\ Silent' /\ PhaseMove /\ pc' # "MOCConnect"
<1>0. At /\ Finished BY Zenon DEF ControlSide
<1>1. place = pc BY NotWaiting, SMT DEF Waiting
<1>2. gsm \in {"MOCProceeding", "MTCConfirmed"} BY <1>0, <1>1, SMT DEF At, Fits
<1>3. pc' = controller BY DEF goto
<1>4. /\ instigator => pc' = "MOCRing" /\ gsm = "MOCProceeding"
      /\ ~instigator => pc' = "MTCAlert" /\ gsm = "MTCConfirmed"
  BY <1>0, <1>2, <1>3, SMT DEF At, controller
<1>5. place' = pc' BY <1>4, NotWaiting, SMT DEF Waiting
<1>6. At' BY <1>4, <1>5, SMT DEF At, Fits, MOCPart, MTCPart, Talking
<1>7. ~SIPFinished BY <1>0, <1>1, <1>2, SMT DEF Finished, PreTalk
<1>8. Finished' BY <1>4, <1>7, SMT DEF Finished, SIPFinished, Waiting
<1>9. PhaseMove
  BY <1>4, <1>7, SetupPhase, SMT DEF clearing, clearingGSM, SIPFinished, Over, Talking
<1>10. pc' # "Start" /\ pc' # "MOCConnect" BY <1>4, SMT
<1> QED BY <1>6, <1>8, <1>9, <1>10, NotAtStart

LEMMA AssignmentKept == ASSUME HandsetSide, ControlSide, Assignment PROVE StepKept
<1>0. At /\ Finished /\ Silent BY Zenon DEF ControlSide
<1>a. pc \in {"Assign", "Mode"} /\ instigator' = instigator /\ answered' = answered /\ gsm' = gsm /\ timers' = timers
  BY Zenon DEF Assignment, assigned, assignedNobody, assignmentFailed, modeAcknowledged, modeTimeout
<1>b. pc \notin Over /\ "Stray" \in Over /\ "Dropped" \in Over BY <1>a, SMT DEF Over
<1>c. gsm \in {"MOCProceeding", "MTCConfirmed"}
  <2>1. place = pc BY <1>a, NotWaiting, SMT DEF Waiting
  <2> QED BY <1>0, <1>a, <2>1, SMT DEF At, Fits
<1>1. CASE assigned
  <2>1. goto(controller) /\ UNCHANGED <<instigator, gsm, timers, sip, fifo, up, ms, sw, answered>>
    BY <1>1, Zenon DEF assigned
  <2>2. At' /\ Finished' /\ Silent' /\ PhaseMove /\ pc' # "MOCConnect" BY <1>a, <2>1, AssignedControl
  <2>3. Move BY <2>1, CalmMoves
  <2> QED BY <2>1, <2>2, <2>3, SameNobody, NobodyMoves, Zenon DEF StepKept
<1>2. CASE assignedNobody \/ modeTimeout
  <2>1. /\ goto("Stray") /\ UNCHANGED <<instigator, gsm, timers, sip, fifo, up, sw, answered>>
        /\ ms' = ms \/ tells("ChannelRelease")
    BY <1>2, Zenon DEF assignedNobody, modeTimeout
  <2>2. At' /\ Finished' /\ Silent' /\ PhaseMove /\ pc' = "Stray" BY <1>0, <1>b, <2>1, LeaveKept
  <2>3. Move BY <2>1, CalmMoves
  <2>4. AnswerMove BY <2>1, <2>2, SameNobody, NobodyMoves
  <2> QED BY <2>2, <2>3, <2>4, Zenon DEF StepKept
<1>3. CASE assignmentFailed
  <2>1. Takes /\ tells("ChannelRelease") /\ forceSIPClearing("Stray") BY <1>3, Zenon DEF assignmentFailed, Takes
  <2>2. Hears BY <2>1, TellsHears
  <2>3. Move BY <1>a, <1>c, <2>1, <2>2, SMT DEF Move, CalmMove
  <2> QED BY <1>0, <1>a, <1>b, <2>1, <2>3, ForceKept, Zenon DEF StepKept
<1>4. CASE modeAcknowledged
  <2>1. /\ Takes /\ (ms' = ms \/ tells("ChannelRelease")) /\ UNCHANGED <<sip, fifo, sw, answered>>
        /\ goto(controller) \/ goto("Abort") \/ goto("Stray") \/ goto("Dropped")
    BY <1>4, Zenon DEF modeAcknowledged, Takes
  <2>2. Hears BY <2>1, TellsHears DEF Hears
  <2>3. Move BY <1>a, <1>c, <2>1, <2>2, SMT DEF Move, CalmMove
  <2>4. CASE goto(controller)
    <3>1. UNCHANGED <<instigator, gsm, sip, answered>> BY <1>a, <2>1
    <3>2. At' /\ Finished' /\ Silent' /\ PhaseMove /\ pc' # "MOCConnect" BY <1>a, <2>4, <3>1, AssignedControl
    <3> QED BY <2>1, <2>3, <3>2, SameNobody, NobodyMoves, Zenon DEF StepKept
  <2>5. ASSUME NEW d \in Over \union {"Abort"}, goto(d), d # "MOCConnect" PROVE StepKept
    <3>1. At' /\ Finished' /\ Silent' /\ PhaseMove /\ pc' = d BY <1>0, <1>a, <1>b, <2>5, LeaveKept
    <3>2. AnswerMove BY <2>1, <2>5, <3>1, SameNobody, NobodyMoves
    <3> QED BY <2>3, <3>1, <3>2, Zenon DEF StepKept
  <2> QED BY <1>b, <2>1, <2>4, <2>5
<1> QED BY <1>1, <1>2, <1>3, <1>4, Zenon DEF Assignment

LEMMA WaitForOKIs ==
    ASSUME Types, sip' = MOCWaitForOK, readsFifo
    PROVE  /\ sip' \in {"Proceeding", "Timeout", "Ringing", "Active", "Busy", "Fail"}
           /\ sip' = "Active" => Has(fifo, "200")
           /\ FifoLess
<1>1. sip' \in {"Proceeding", "Timeout", "Ringing", "Active", "Busy", "Fail"} BY WaitForOKType DEF Types
<1>2. sip' = "Active" => fifo # <<>> /\ Head(fifo) = "200" BY Zenon DEF MOCWaitForOK
<1>3. fifo \in Seq(SIPMessage) BY Zenon DEF Types
<1>4. sip' = "Active" => Has(fifo, "200") BY <1>2, <1>3, TailHas
<1>5. FifoLess BY SMT DEF readsFifo, FifoLess
<1> QED BY <1>1, <1>4, <1>5

LEMMA RingKept == ASSUME Types, HandsetSide, ControlSide, mocRing PROVE StepKept
<1>0. /\ At /\ Finished /\ pc = "MOCRingSIP"
      /\ UNCHANGED <<instigator, timers, up, ms, sw, answered>>
  BY Zenon DEF ControlSide, mocRing
<1>1. place = pc BY <1>0, NotWaiting, SMT DEF Waiting
<1>2. instigator /\ gsm \in {"MOCProceeding", "CallReceived", "ReleaseRequest"}
  BY <1>0, <1>1, SMT DEF At, Fits, MOCPart
<1>3. CASE clearingGSM /\ goto("Abort") /\ UNCHANGED <<gsm, sip, fifo>>
  <2>1. pc \notin Over BY <1>0, SMT DEF Over
  <2>2. At' /\ Finished' /\ Silent' /\ PhaseMove /\ pc' = "Abort" BY <1>0, <1>3, <2>1, LeaveKept
  <2>3. Move BY <1>0, <1>3, CalmMoves
  <2>4. AnswerMove BY <1>0, <1>3, <2>2, SameNobody, NobodyMoves
  <2> QED BY <2>2, <2>3, <2>4, Zenon DEF StepKept
<1>4. CASE ~clearingGSM /\ ~(goto("Abort") /\ UNCHANGED <<gsm, sip, fifo>> /\ clearingGSM)
  <2>1. /\ sip' = MOCWaitForOK /\ readsFifo
        /\ gsm' = (IF sip' \in {"Ringing", "Active"} THEN "CallReceived" ELSE gsm)
        /\ goto("Abort") \/ goto("MOCAnswer") \/ goto("MOCAnswered") \/ goto("MOCRing")
    BY <1>4, Zenon DEF mocRing
  <2>2. pc' \in {"Abort", "MOCAnswer", "MOCAnswered", "MOCRing"} BY <2>1, SMT DEF goto
  <2>3. place' = pc' BY <2>2, NotWaiting, SMT DEF Waiting
  <2>4. gsm \in {"MOCProceeding", "CallReceived"} BY <1>2, <1>4, SMT DEF clearingGSM
  <2>5. /\ sip' \in {"Proceeding", "Timeout", "Ringing", "Active", "Busy", "Fail"}
        /\ sip' = "Active" => Has(fifo, "200")
        /\ FifoLess
    BY <2>1, WaitForOKIs
  <2>6. gsm' \in {gsm, "CallReceived"} BY <2>1
  <2>7. Move
    <3>1. CASE gsm' = "CallReceived"
      <4>1. RingMove BY <1>0, <1>2, <2>4, <3>1, SMT DEF RingMove
      <4> QED BY <1>0, <4>1, Zenon DEF Move
    <3>2. CASE gsm' = gsm BY <1>0, <3>2, CalmMoves
    <3> QED BY <2>6, <3>1, <3>2
  <2>8. At' BY <1>0, <1>2, <2>2, <2>3, <2>4, <2>6, SMT DEF At, Fits, MOCPart, MTCPart, Talking
  <2>9. Finished' BY <2>2, <2>5, SMT DEF Finished, SIPFinished, Waiting
  <2>10. ~SIPFinished BY <1>0, <1>1, <2>4, SMT DEF Finished, PreTalk, MOCPart
  <2>11. PhaseMove
    BY <1>0, <2>2, <2>4, <2>10, SetupPhase, SMT DEF clearing, clearingGSM, Over, Talking
  <2>12. AnswerMove BY <1>0, <2>2, <2>5, SMT DEF AnswerMove
  <2>13. pc' # "Start" BY <2>2, SMT
  <2> QED BY <2>7, <2>8, <2>9, <2>11, <2>12, <2>13, NotAtStart, Zenon DEF StepKept
<1> QED BY <1>3, <1>4, Zenon DEF mocRing

LEMMA MOCKept ==
    ASSUME Types, HandsetSide, ControlSide, Answers, MOCController PROVE StepKept
<1>0. At /\ Finished BY Zenon DEF ControlSide
<1>1. CASE mocRing BY <1>1, RingKept
<1>2. CASE mocAnswer
  <2>1. /\ pc = "MOCAnswer" /\ sip' = MOCWaitForOK /\ readsFifo /\ goto("MOCAnswerGSM")
        /\ UNCHANGED <<instigator, gsm, timers, up, ms, sw, answered>>
    BY <1>2, Zenon DEF mocAnswer
  <2>2. pc' = "MOCAnswerGSM" /\ place' = "MOCAnswerGSM" BY <2>1, Gone, SMT DEF Waiting
  <2>3. place = "MOCAnswer" BY <2>1, NotWaiting, SMT DEF Waiting
  <2>4. instigator /\ gsm \in {"MOCProceeding", "CallReceived", "ReleaseRequest"}
    BY <1>0, <2>3, SMT DEF At, Fits, MOCPart
  <2>5. /\ sip' \in {"Proceeding", "Timeout", "Ringing", "Active", "Busy", "Fail"}
        /\ sip' = "Active" => Has(fifo, "200")
        /\ FifoLess
    BY <2>1, WaitForOKIs
  <2>6. Move BY <2>1, CalmMoves
  <2>7. At' BY <2>1, <2>2, <2>4, SMT DEF At, Fits, MOCPart, MTCPart, Talking
  <2>8. Finished' BY <2>2, <2>5, SMT DEF Finished, SIPFinished, Waiting
  <2>9. SIPFinished => gsm = "ReleaseRequest" BY <1>0, <2>3, SMT DEF Finished, PreTalk, MOCPart
  <2>10. PhaseMove
    BY <2>1, <2>2, <2>9, SetupPhase, SMT DEF clearing, clearingGSM, Over, Talking
  <2>11. AnswerMove BY <2>1, <2>2, <2>5, SMT DEF AnswerMove
  <2>12. pc' # "Start" BY <2>2, SMT
  <2> QED BY <2>6, <2>7, <2>8, <2>10, <2>11, <2>12, NotAtStart, Zenon DEF StepKept
<1>3. CASE mocAnswered
  <2>1. /\ pc = "MOCAnswered"
        /\ UNCHANGED <<instigator, sip, fifo, up, sw, answered>>
        /\ \/ ~clearingGSM /\ sip = "Active" /\ gsm' = "ConnectIndication" /\ setTimer("313")
                 /\ tells("Connect") /\ goto("MOCConnect")
           \/ (goto("Abort") \/ goto("MOCAnswer")) /\ UNCHANGED <<gsm, timers, ms>>
    BY <1>3, Zenon DEF mocAnswered
  <2>2. place = "MOCAnswered" BY <2>1, NotWaiting, SMT DEF Waiting
  <2>3. instigator /\ gsm \in {"MOCProceeding", "CallReceived", "ReleaseRequest"}
    BY <1>0, <2>2, SMT DEF At, Fits, MOCPart
  <2>4. SIPFinished => gsm = "ReleaseRequest" BY <1>0, <2>2, SMT DEF Finished, PreTalk, MOCPart
  <2>5. NobodyAnswers BY <2>1, SameNobody
  <2>6. CASE ~clearingGSM /\ sip = "Active" /\ gsm' = "ConnectIndication" /\ setTimer("313")
                 /\ tells("Connect") /\ goto("MOCConnect")
    <3>1. pc' = "MOCConnect" /\ place' = "MOCConnect" BY <2>6, Gone, SMT DEF Waiting
    <3>2. gsm \in {"MOCProceeding", "CallReceived"} BY <2>3, <2>6, SMT DEF clearingGSM
    <3>3. Told("Connect") = (IF ms = "calling" THEN "connected" ELSE ms) BY Zenon DEF Told
    <3>4. ms' = ms \/ (ms = "calling" /\ ms' = "connected") BY <2>6, <3>3, SMT DEF tells
    <3>5. up' = up /\ instigator' = instigator BY <2>1
    <3>6. RingMove BY <2>3, <2>6, <3>2, <3>4, <3>5, Zenon DEF RingMove
    <3>7. Move BY <3>5, <3>6, Zenon DEF Move
    <3>8. At' BY <2>1, <2>3, <2>6, <3>1, SMT DEF At, Fits, MOCPart, MTCPart, Talking
    <3>9. Finished' BY <2>1, <2>6, <3>1, SMT DEF Finished, SIPFinished, Waiting
    <3>10. PhaseMove
      BY <2>1, <2>4, <3>1, <3>2, SetupPhase, SMT DEF clearing, clearingGSM, Over, Talking
    <3>11. AnswerMove BY <2>5, <2>6, NobodyMoves
    <3>12. pc' # "Start" BY <3>1
    <3> QED BY <3>7, <3>8, <3>9, <3>10, <3>11, <3>12, NotAtStart, Zenon DEF StepKept
  <2>7. CASE (goto("Abort") \/ goto("MOCAnswer")) /\ UNCHANGED <<gsm, timers, ms>>
    <3>1. Move BY <2>1, <2>7, CalmMoves
    <3>2. pc' \in {"Abort", "MOCAnswer"} BY <2>7, SMT DEF goto
    <3>3. place' = pc' BY <3>2, NotWaiting, SMT DEF Waiting
    <3>4. AnswerMove BY <2>5, <3>2, NobodyMoves
    <3>5. At' BY <2>1, <2>3, <2>7, <3>2, <3>3, SMT DEF At, Fits, MOCPart, MTCPart, Talking
    <3>6. Finished' BY <2>1, <2>4, <2>7, <3>2, SMT DEF Finished, SIPFinished, Waiting
    <3>7. PhaseMove
      BY <2>1, <2>4, <2>7, <3>2, SetupPhase, SMT DEF clearing, clearingGSM, SIPFinished, Over, Talking
    <3>8. pc' # "Start" BY <3>2, SMT
    <3> QED BY <3>1, <3>4, <3>5, <3>6, <3>7, <3>8, NotAtStart, Zenon DEF StepKept
  <2> QED BY <2>1, <2>6, <2>7
<1>4. CASE mocConnected
  <2>1. /\ pc = "MOCConnect" /\ gsm = "Active" /\ goto("Talk")
        /\ UNCHANGED <<instigator, gsm, timers, sip, fifo, up, ms, sw, answered>>
    BY <1>4, Zenon DEF mocConnected
  <2>2. pc' = "Talk" /\ place' = "Talk" BY <2>1, Gone, SMT DEF Waiting
  <2>3. place = "MOCConnect" BY <2>1, NotWaiting, SMT DEF Waiting
  <2>4. ~SIPFinished BY <1>0, <2>1, <2>3, SMT DEF Finished, PreTalk, MOCPart
  <2>5. Open BY <2>1, <2>4, SMT DEF Open, clearing, clearingGSM, Over
  <2>6. "handset" \in answered /\ "switch" \in answered BY <2>1, <2>5, Zenon DEF Answers
  <2>7. answered = {"handset", "switch"}
    <3>1. answered \subseteq {"handset", "switch"} BY Zenon DEF Types
    <3> QED BY <2>6, <3>1
  <2>8. Move BY <2>1, CalmMoves
  <2>9. At' BY <1>0, <2>1, <2>2, SMT DEF At, Fits, MOCPart, MTCPart, Talking
  <2>10. Finished' BY <2>1, <2>2, <2>4, SMT DEF Finished, SIPFinished, Waiting
  <2>11. PhaseMove BY <2>1, <2>5, <2>7, SMT DEF PhaseMove, Open, Talking
  <2>12. AnswerMove BY <2>1, <2>2, SameNobody, NobodyMoves
  <2>13. pc' # "Start" BY <2>2
  <2> QED BY <2>8, <2>9, <2>10, <2>11, <2>12, <2>13, NotAtStart, Zenon DEF StepKept
<1> QED BY <1>1, <1>2, <1>3, <1>4, Zenon DEF MOCController

LEMMA ChecksUp == ASSUME NEW p, checksForCancel(p), sw' = "up" PROVE sw = "up"
<1>1. sends("CANCELOK") \/ sw' = sw BY Zenon DEF checksForCancel
<1> QED BY <1>1, SendsUp

\* The switch takes the OK for the answer only when it rings, and has then been answered.
LEMMA OKUp ==
    ASSUME sends("OK"), sw' = "up" PROVE sw = "up" \/ sw = "ringing"
<1>1. Heard("OK") = "up" => sw = "up" \/ sw = "ringing"
  <2>1. \/ sw = "ringing" \/ (Heard("OK") = "hungup") \/ Heard("OK") = sw BY Zenon DEF Heard
  <2> QED BY <2>1
<1> QED BY <1>1 DEF sends

LEMMA AlertKept == ASSUME HandsetSide, ControlSide, mtcAlert PROVE StepKept
<1>0. /\ At /\ Finished /\ pc = "MTCAlertSIP"
      /\ UNCHANGED <<instigator, gsm, timers, up, ms>>
      /\ answered' = (IF sw = "ringing" /\ sw' = "up" THEN answered \union {"switch"} ELSE answered)
  BY Zenon DEF ControlSide, mtcAlert
<1>1. place = "MTCAlertSIP" BY <1>0, NotWaiting, SMT DEF Waiting
<1>2. /\ SIPFinished => gsm = "ReleaseRequest"
      /\ ~instigator
  BY <1>0, <1>1, SMT DEF At, Finished, PreTalk, MTCPart
<1>3. Move BY <1>0, CalmMoves
<1>4. CASE gsm = "Active" /\ sip' = "Connecting" /\ sends("OK") /\ goto("MTCAck") /\ UNCHANGED fifo
  <2>1. pc' = "MTCAck" /\ place' = "MTCAck" BY <1>4, Gone, SMT DEF Waiting
  <2>2. At' BY <1>0, <1>2, <1>4, <2>1, SMT DEF At, Fits, MOCPart, MTCPart, Talking
  <2>3. Finished' BY <1>4, <2>1, SMT DEF Finished, SIPFinished, Waiting
  <2>4. ~clearing /\ ~clearing'
    BY <1>0, <1>2, <1>4, <2>1, SMT DEF clearing, clearingGSM, SIPFinished
  <2>5. pc \notin Over /\ pc' \notin Over /\ pc \notin Talking /\ pc' \notin Talking
    BY <1>0, <2>1, SMT DEF Over, Talking
  <2>6. answered' = answered \/ answered' = answered \union {"switch"} BY <1>0
  <2>12. clearing' = clearing BY <2>4, Zenon DEF clearing
  <2>7. PhaseMove BY <2>4, <2>5, <2>6, <2>12, Zenon DEF PhaseMove
  <2>8. sw' = "up" => sw = "up" \/ "switch" \in answered' BY <1>0, <1>4, OKUp
  <2>9. answered \subseteq answered' BY <2>6
  <2>10. AnswerMove BY <1>4, <2>1, <2>8, <2>9, SMT DEF AnswerMove, FifoLess
  <2>11. pc' # "Start" BY <2>1
  <2> QED BY <1>3, <2>2, <2>3, <2>7, <2>10, <2>11, NotAtStart, Zenon DEF StepKept
<1>5. CASE goto("Abort") /\ UNCHANGED <<sip, sw, fifo>>
  <2>1. pc \notin Over /\ answered' = answered /\ gsm' \in {gsm, "Null"} /\ instigator' = instigator
    BY <1>0, <1>5, SMT DEF Over
  <2>2. At' /\ Finished' /\ Silent' /\ PhaseMove /\ pc' = "Abort" BY <1>0, <1>5, <2>1, LeaveKept
  <2>3. AnswerMove BY <1>5, <2>1, <2>2, SameNobody, NobodyMoves
  <2> QED BY <1>3, <2>2, <2>3, Zenon DEF StepKept
<1>6. CASE checksForCancel("MTCAlert")
  <2>1. answered' = answered BY <1>0, <1>6, ChecksUp
  <2>2. "MTCAlert" \notin Waiting BY DEF Waiting
  <2>3. /\ NobodyAnswers
        /\ \/ pc' = "Abort" /\ place' = "Abort"
           \/ pc' = "MTCAlert" /\ place' = "MTCAlert" /\ (sip' = sip \/ sip' = "Proceeding")
    BY <1>6, <2>1, <2>2, ChecksTo
  <2>4. pc' \notin {"Start", "Wait487", "MOCConnect"} BY <2>3, SMT
  <2>5. AnswerMove BY <2>3, <2>4, NobodyMoves
  <2>6. CASE pc' = "Abort" /\ place' = "Abort"
    <3>1. pc \notin Over /\ "Abort" \in Aside BY <1>0, SMT DEF Over, Aside
    <3>2. At' /\ Finished' /\ Silent' /\ PhaseMove
      BY <1>0, <2>1, <2>4, <2>6, <3>1, AsideControl, EndPhase
    <3> QED BY <1>3, <2>5, <3>2, Zenon DEF StepKept
  <2>7. CASE pc' = "MTCAlert" /\ place' = "MTCAlert" /\ (sip' = sip \/ sip' = "Proceeding")
    <3>1. At' BY <1>0, <1>2, <2>7, SMT DEF At, Fits, MOCPart, MTCPart, Talking
    <3>2. Finished' BY <1>0, <1>2, <2>7, SMT DEF Finished, SIPFinished, Waiting
    <3>3. PhaseMove
      BY <1>0, <1>2, <2>1, <2>7, SetupPhase, SMT DEF clearing, clearingGSM, SIPFinished, Over, Talking
    <3> QED BY <1>3, <2>4, <2>5, <3>1, <3>2, <3>3, NotAtStart, Zenon DEF StepKept
  <2> QED BY <2>3, <2>6, <2>7
<1>7. \/ gsm = "Active" /\ sip' = "Connecting" /\ sends("OK") /\ goto("MTCAck") /\ UNCHANGED fifo
      \/ goto("Abort") /\ UNCHANGED <<sip, sw, fifo>>
      \/ checksForCancel("MTCAlert")
  BY Zenon DEF mtcAlert
<1> QED BY <1>4, <1>5, <1>6, <1>7

LEMMA AckKept == ASSUME Types, HandsetSide, ControlSide, Answers, mtcAck PROVE StepKept
<1>0. /\ At /\ Finished /\ pc = "MTCAckSIP" /\ readsFifo
      /\ UNCHANGED <<instigator, gsm, timers, up>>
      /\ answered' = (IF sw = "ringing" /\ sw' = "up" THEN answered \union {"switch"} ELSE answered)
  BY Zenon DEF ControlSide, mtcAck
<1>1. place = "MTCAckSIP" BY <1>0, NotWaiting, SMT DEF Waiting
<1>2. /\ ~instigator /\ gsm \in {"Active", "ReleaseRequest"}
      /\ SIPFinished => gsm = "ReleaseRequest"
  BY <1>0, <1>1, SMT DEF At, Fits, Finished, PreTalk, MTCPart
<1>3. FifoLess BY <1>0, SMT DEF readsFifo, FifoLess
<1>4. pc \notin Over /\ pc \notin Talking BY <1>0, SMT DEF Over, Talking
<1>5. CASE sip' = "Connecting" /\ sends("OK") /\ goto("MTCAck") /\ ms' = ms
  <2>1. pc' = "MTCAck" /\ place' = "MTCAck" BY <1>5, Gone, SMT DEF Waiting
  <2>2. At' BY <1>0, <1>2, <2>1, SMT DEF At, Fits, MOCPart, MTCPart, Talking
  <2>3. Finished' BY <1>5, <2>1, SMT DEF Finished, SIPFinished, Waiting
  <2>4. clearing' = clearing
    <3>1. CASE gsm = "Active"
      <4>1. ~clearing /\ ~clearing'
        BY <1>0, <1>2, <1>5, <2>1, <3>1, SMT DEF clearing, clearingGSM, SIPFinished
      <4> QED BY <4>1, Zenon DEF clearing
    <3>2. CASE gsm = "ReleaseRequest"
      <4>1. clearing /\ clearing' BY <1>0, <3>2, SMT DEF clearing, clearingGSM
      <4> QED BY <4>1, Zenon DEF clearing
    <3> QED BY <1>2, <3>1, <3>2
  <2>5. pc' \notin Over /\ pc' \notin Talking BY <2>1, SMT DEF Over, Talking
  <2>6. answered' = answered \/ answered' = answered \union {"switch"} BY <1>0
  <2>7. PhaseMove BY <1>4, <2>4, <2>5, <2>6, Zenon DEF PhaseMove
  <2>8. sw' = "up" => sw = "up" \/ "switch" \in answered' BY <1>0, <1>5, OKUp
  <2>9. answered \subseteq answered' BY <2>6
  <2>10. AnswerMove BY <1>3, <1>5, <2>1, <2>8, <2>9, SMT DEF AnswerMove
  <2>11. pc' # "Start" BY <2>1
  <2>12. Move BY <1>0, <1>5, CalmMoves
  <2> QED BY <2>2, <2>3, <2>7, <2>10, <2>11, <2>12, NotAtStart, Zenon DEF StepKept
<1>6. CASE goto("MTCAck") /\ UNCHANGED <<sip, sw, ms>>
  <2>1. pc' = "MTCAck" /\ place' = "MTCAck" BY <1>6, Gone, SMT DEF Waiting
  <2>2. At' BY <1>0, <1>2, <2>1, SMT DEF At, Fits, MOCPart, MTCPart, Talking
  <2>3. Finished' BY <1>0, <1>2, <1>6, <2>1, SMT DEF Finished, SIPFinished, Waiting
  <2>4. clearing => clearing' BY <1>0, <1>2, <1>6, <2>1, SMT DEF clearing, clearingGSM, SIPFinished
  <2>5. pc' \notin Talking BY <2>1, SMT DEF Talking
  <2>6. answered' = answered BY <1>0, <1>6
  <2>7. PhaseMove BY <1>4, <2>4, <2>5, <2>6, SetupPhase
  <2>8. AnswerMove BY <1>3, <1>6, <2>1, <2>6, NobodyMoves, SMT DEF NobodyAnswers
  <2>9. pc' # "Start" BY <2>1
  <2>10. Move BY <1>0, <1>6, CalmMoves
  <2> QED BY <2>2, <2>3, <2>7, <2>8, <2>9, <2>10, NotAtStart, Zenon DEF StepKept
<1>7. CASE fifo # <<>> /\ Head(fifo) = "ACK" /\ sip' = "Active" /\ tells("ConnectAck") /\ goto("Talk") /\ sw' = sw
  <2>1. pc' = "Talk" /\ place' = "Talk" BY <1>7, Gone, SMT DEF Waiting
  <2>2. At' BY <1>0, <1>2, <2>1, SMT DEF At, Fits, MOCPart, MTCPart, Talking
  <2>3. Finished' BY <1>7, <2>1, SMT DEF Finished, SIPFinished, Waiting
  <2>4. answered' = answered BY <1>0, <1>7
  <2>5. fifo \in Seq(SIPMessage) BY Zenon DEF Types
  <2>6. Has(fifo, "ACK") BY <1>7, <2>5, TailHas
  <2>7. ASSUME gsm = "Active" PROVE PhaseMove
    <3>1. Open BY <1>0, <1>2, <1>4, <2>7, SMT DEF Open, clearing, clearingGSM
    <3>2. "handset" \in answered /\ "switch" \in answered BY <2>6, <2>7, <3>1, Zenon DEF Answers
    <3>3. answered \subseteq {"handset", "switch"} BY Zenon DEF Types
    <3>4. answered = {"handset", "switch"} BY <3>2, <3>3
    <3> QED BY <1>4, <2>4, <3>1, <3>4, Zenon DEF PhaseMove, Open
  <2>8. ASSUME gsm = "ReleaseRequest" PROVE PhaseMove
    <3>1. clearing' BY <1>0, <2>8, SMT DEF clearing, clearingGSM
    <3> QED BY <1>4, <2>4, <3>1, Zenon DEF PhaseMove
  <2>9. PhaseMove BY <1>2, <2>7, <2>8
  <2>10. AnswerMove BY <1>3, <1>7, <2>1, <2>4, <2>6, SMT DEF AnswerMove
  <2>11. pc' # "Start" BY <2>1
  <2>12. Move BY <1>0, <1>7, CalmMoves
  <2> QED BY <2>2, <2>3, <2>9, <2>10, <2>11, <2>12, NotAtStart, Zenon DEF StepKept
<1>8. CASE sip' \in {"Canceled", "Fail"} /\ (sends("CANCELOK") \/ sw' = sw) /\ goto("Abort") /\ ms' = ms
  <2>1. sw' = "up" => sw = "up" BY <1>8, SendsUp
  <2>2. answered' = answered BY <1>0, <2>1
  <2>3. At' /\ Finished' /\ Silent' /\ PhaseMove /\ pc' = "Abort" BY <1>0, <1>4, <1>8, <2>2, LeaveKept
  <2>4. NobodyAnswers BY <1>3, <1>8, <2>1, <2>2, SMT DEF NobodyAnswers
  <2>5. AnswerMove BY <2>3, <2>4, NobodyMoves
  <2>6. Move BY <1>0, <1>8, CalmMoves
  <2> QED BY <2>3, <2>5, <2>6, Zenon DEF StepKept
<1>9. \/ sip' = "Connecting" /\ sends("OK") /\ goto("MTCAck") /\ ms' = ms
      \/ goto("MTCAck") /\ UNCHANGED <<sip, sw, ms>>
      \/ fifo # <<>> /\ Head(fifo) = "ACK" /\ sip' = "Active" /\ tells("ConnectAck") /\ goto("Talk") /\ sw' = sw
      \/ sip' \in {"Canceled", "Fail"} /\ (sends("CANCELOK") \/ sw' = sw) /\ goto("Abort") /\ ms' = ms
  BY Zenon DEF mtcAck
<1> QED BY <1>5, <1>6, <1>7, <1>8, <1>9

LEMMA LoopKept == ASSUME HandsetSide, ControlSide, callManagementLoop PROVE StepKept
<1>0. At /\ Finished BY Zenon DEF ControlSide
<1>1. CASE radioFailure
  <2>1. pc = "Talk" /\ forceSIPClearing("Removed") /\ UNCHANGED <<instigator, gsm, timers, up, ms, answered>>
    BY <1>1, Zenon DEF radioFailure
  <2>2. pc \notin Over /\ "Removed" \in Over BY <2>1, SMT DEF Over
  <2>3. Move BY <2>1, CalmMoves
  <2>4. gsm' \in {gsm, "Null"} BY <2>1
  <2>5. At' /\ Finished' /\ Silent' /\ PhaseMove /\ AnswerMove BY <1>0, <2>1, <2>2, <2>4, ForceKept
  <2> QED BY <2>3, <2>5, Zenon DEF StepKept
<1>2. CASE updateSIPSignalling
  <2>1. /\ pc \in {"TalkSIP", "TalkSIPCleared"}
        /\ (checksBYE /\ fifo' = Tail(fifo)) \/ fifo' = fifo
        /\ UNCHANGED <<instigator, up, answered>>
        /\ \/ ~GSMClearedOrClearing /\ disconnects /\ sip' = "MTDClearing" /\ sw' = sw
           \/ sip' = "Cleared" /\ sends("BYEOK") /\ UNCHANGED <<gsm, timers, ms>>
           \/ UNCHANGED <<gsm, timers, ms, sip, sw>>
        /\ goto(IF pc = "TalkSIPCleared" /\ sip' \in {"Cleared", "Canceled"} THEN "Removed" ELSE "TalkStop")
    BY <1>2, Zenon DEF updateSIPSignalling
  <2>2. /\ place = pc /\ place' = pc' /\ pc' \in {"Removed", "TalkStop"}
        /\ pc \in Talking /\ pc \notin Over
    <3>1. pc \notin Waiting /\ pc \in Talking /\ pc \notin Over BY <2>1, SMT DEF Waiting, Talking, Over
    <3>2. pc' \in {"Removed", "TalkStop"} BY <2>1, SMT DEF goto
    <3>3. pc' \notin Waiting BY <3>2, SMT DEF Waiting
    <3> QED BY <3>1, <3>2, <3>3, NotWaiting
  <2>3. gsm \in {"Active", "ReleaseRequest", "DisconnectIndication", "Null"} /\ (pc = "TalkSIP" => gsm # "Null")
    BY <1>0, <2>2, SMT DEF At, Fits
  <2>4. FifoLess BY <2>1, SMT DEF FifoLess, checksBYE
  <2>5. (sip' = "Active" => sip = "Active") /\ (sw' = "up" => sw = "up") BY <2>1, SendsUp, SMT
  <2>6. NobodyAnswers BY <2>1, <2>4, <2>5, Zenon DEF NobodyAnswers
  <2>7. AnswerMove BY <2>2, <2>6, NobodyMoves
  <2>8. \/ gsm' = gsm /\ timers' = timers /\ ms' = ms
        \/ /\ gsm = "Active" /\ gsm' = "DisconnectIndication" /\ setTimer("305") /\ tells("Disconnect")
           /\ pc = "TalkSIP" /\ sip' = "MTDClearing"
    <3>1. CASE ~GSMClearedOrClearing /\ disconnects /\ sip' = "MTDClearing"
      <4>1. pc = "TalkSIP" /\ gsm \notin {"ReleaseRequest", "DisconnectIndication"}
        BY <2>1, <3>1, SMT DEF GSMClearedOrClearing, clearingGSM
      <4> QED BY <2>3, <3>1, <4>1, SMT DEF disconnects
    <3> QED BY <2>1, <3>1
  <2>9. Move
    <3>1. CASE gsm' = gsm /\ timers' = timers /\ ms' = ms BY <2>1, <3>1, CalmMoves
    <3>2. CASE gsm = "Active" /\ gsm' = "DisconnectIndication" /\ setTimer("305") /\ tells("Disconnect")
      <4>1. Hears BY <3>2, TellsHears
      <4>2. up' = up /\ instigator' = instigator BY <2>1
      <4> QED BY <3>2, <4>1, <4>2, Zenon DEF Move, HangUpMove
    <3> QED BY <2>8, <3>1, <3>2
  <2>10. At'
    <3>1. /\ pc' \notin MOCPart /\ pc' \notin MTCPart
          /\ pc' \notin {"Start", "Assign", "Mode", "MOCConnect", "MTCAck", "MTCAckSIP", "TalkSIP"}
      BY <2>2, SMT DEF MOCPart, MTCPart
    <3>2. gsm' \in {"Active", "ReleaseRequest", "DisconnectIndication", "Null"} BY <2>3, <2>8, SMT
    <3>3. Fits(place', gsm') BY <2>2, <3>1, <3>2, SMT DEF Fits, MOCPart, MTCPart
    <3>4. gsm' \notin {"MOCInitiated", "MOCProceeding", "ConnectIndication", "AnsweredPaging", "CallPresent", "MTCConfirmed"}
      BY <3>2, SMT
    <3> QED BY <2>2, <3>1, <3>3, <3>4, Zenon DEF At
  <2>11. Finished' BY <2>2, SMT DEF Finished, PreTalk, MOCPart, MTCPart
  <2>12. clearing => clearing'
    <3>1. CASE gsm' = gsm
      <4>1. SIPFinished => SIPFinished'
        BY <2>1, <3>1, SMT DEF SIPFinished, disconnects, GSMClearedOrClearing, clearingGSM
      <4>2. clearing => clearingGSM \/ gsm = "Null" \/ SIPFinished
        BY <2>1, SMT DEF clearing
      <4>3. clearingGSM => clearingGSM' BY <3>1 DEF clearingGSM
      <4> QED BY <3>1, <4>1, <4>2, <4>3, SMT DEF clearing
    <3>2. CASE gsm' = "DisconnectIndication" BY <3>2, SMT DEF clearing, clearingGSM
    <3> QED BY <2>8, <3>1, <3>2
  <2>13. pc' \in Talking \/ pc' \in Over BY <2>2, SMT DEF Talking, Over
  <2>14. PhaseMove BY <2>1, <2>2, <2>12, <2>13, Zenon DEF PhaseMove
  <2>15. Silent' BY <2>2, NotAtStart
  <2> QED BY <2>7, <2>9, <2>10, <2>11, <2>14, <2>15, Zenon DEF StepKept
<1>3. CASE terminationRequested
  <2>1. /\ pc = "TalkStop" /\ UNCHANGED <<instigator, up, answered>>
        /\ abortCall("Removed") \/ (goto("Talk") /\ UNCHANGED <<gsm, timers, sip, fifo, sw, ms>>)
    BY <1>3, Zenon DEF terminationRequested
  <2>2. pc \in Talking /\ pc \notin Over /\ pc \notin Waiting /\ "Removed" \in Over
    BY <2>1, SMT DEF Talking, Over, Waiting
  <2>3. CASE abortCall("Removed")
    <3>1. forceGSMClearing /\ forceSIPClearing("Removed") BY <2>3 DEF abortCall
    <3>2. gsm' \in {gsm, "Null"} BY <3>1, ForceGSMIs
    <3>3. Move BY <2>1, <3>1, ForceGSMMove, Zenon DEF Move
    <3>4. At' /\ Finished' /\ Silent' /\ PhaseMove /\ AnswerMove BY <1>0, <2>1, <2>2, <3>1, <3>2, ForceKept
    <3> QED BY <3>3, <3>4, Zenon DEF StepKept
  <2>4. CASE goto("Talk") /\ UNCHANGED <<gsm, timers, sip, fifo, sw, ms>>
    <3>1. pc' = "Talk" /\ place' = "Talk" BY <2>4, Gone, SMT DEF Waiting
    <3>2. place = "TalkStop" BY <2>1, <2>2, NotWaiting
    <3>3. gsm \in {"Active", "ReleaseRequest", "DisconnectIndication", "Null"}
      BY <1>0, <2>2, <3>2, SMT DEF At, Fits, Talking
    <3>4. At' BY <1>0, <2>1, <2>4, <3>1, <3>3, SMT DEF At, Fits, MOCPart, MTCPart, Talking
    <3>5. Finished' BY <3>1, SMT DEF Finished, PreTalk, MOCPart, MTCPart
    <3>6. Move BY <2>1, <2>4, CalmMoves
    <3>7. clearing => clearing' BY <2>1, <2>4, SMT DEF clearing, clearingGSM, SIPFinished
    <3>8. pc' \in Talking BY <3>1 DEF Talking
    <3>9. PhaseMove BY <2>1, <2>2, <3>7, <3>8, Zenon DEF PhaseMove
    <3>10. AnswerMove BY <2>1, <2>4, <3>1, SameNobody, NobodyMoves
    <3>11. Silent' BY <3>1, NotAtStart
    <3> QED BY <3>4, <3>5, <3>6, <3>9, <3>10, <3>11, Zenon DEF StepKept
  <2> QED BY <2>1, <2>3, <2>4
<1> QED BY <1>1, <1>2, <1>3, Zenon DEF callManagementLoop

LEMMA WaitsKept == ASSUME ControlSide, Waits, SIPWaits PROVE StepKept
<1>0. At /\ Finished BY Zenon DEF ControlSide
<1>1. /\ pc \in Waiting /\ UNCHANGED <<instigator, gsm, timers, up, ms, answered>>
  BY Zenon DEF SIPWaits, modWaits, modResends, MODWaitFor487, Waiting
<1>2. Move BY <1>1, CalmMoves
<1>3. place' = place
  <2>1. CASE modResends
    <3>1. pc' = pc /\ back' = back BY <2>1, Zenon DEF modResends
    <3> QED BY <3>1, Zenon DEF place
  <2> QED BY <2>1, WaitsTo, Zenon DEF SIPWaits
<1>4. /\ clearing' /\ (sw' = "up" => sw = "up")
      /\ pc' = "Wait487" => SIPFinished'
  <2>1. CASE modWaits
    <3>1. sip' \in {"Cleared", "Canceled"} /\ sw' = sw BY <2>1, Zenon DEF modWaits
    <3> QED BY <3>1, SMT DEF clearing, SIPFinished
  <2>2. CASE modResends
    <3>1. pc = "Wait" /\ pc' = pc /\ \E m \in {"BYE", "CANCEL", "ERROR"} : asks(m)
      BY <2>2, Zenon DEF modResends
    <3>2. sw' = "up" => sw = "up" BY <3>1, SendsUp
    <3> QED BY <3>1, <3>2, SMT DEF clearing
  <2>3. CASE MODWaitFor487
    <3>1. pc = "Wait487" /\ sip' = sip /\ sw' = sw BY <2>3, Zenon DEF MODWaitFor487
    <3> QED BY <1>0, <3>1, SMT DEF Finished, clearing, SIPFinished
  <2> QED BY <2>1, <2>2, <2>3, Zenon DEF SIPWaits
<1>5. place # "Start" /\ pc' # "Start"
  <2>1. place # "Start" BY <1>0, <1>1, SMT DEF At, Waiting
  <2>2. pc' = "Start" => place' = "Start" BY NotWaiting, SMT DEF Waiting
  <2> QED BY <1>3, <2>1, <2>2
<1>6. At'
  <2>1. gsm' = gsm /\ instigator' = instigator BY <1>1
  <2> QED BY <1>0, <1>3, <1>5, <2>1, Zenon DEF At
<1>7. Finished'
  <2>1. place \in PreTalk => gsm = "ReleaseRequest" BY <1>0, <1>1, Zenon DEF Finished
  <2>2. place' \in PreTalk => gsm' = "ReleaseRequest" BY <1>1, <1>3, <2>1
  <2> QED BY <1>4, <2>2, Zenon DEF Finished
<1>8. pc \notin Over /\ pc \notin Talking BY <1>1, SMT DEF Waiting, Over, Talking
<1>9. PhaseMove BY <1>1, <1>4, <1>8, Zenon DEF PhaseMove
<1>10. answered \subseteq answered' BY <1>1
<1>11. AnswerMove BY <1>4, <1>10, Zenon DEF AnswerMove, Open
<1>12. Silent' BY <1>5, NotAtStart
<1> QED BY <1>2, <1>6, <1>7, <1>9, <1>11, <1>12, Zenon DEF StepKept

LEMMA ThreadKept == ASSUME Types, HandsetSide, ControlSide, Answers, ByeSaved, Waits, Thread PROVE StepKept
<1>1. MTCController => StepKept BY AlertKept, AckKept, Zenon DEF MTCController
<1> QED
  BY <1>1, GSMKept, AbortKept, StarterKept, AssignmentKept, MOCKept, LoopKept, WaitsKept, Zenon DEF Thread
-----------------------------------------------------------------------------
(***************************************************************************)
(* Who has answered, and the steps that are not the thread's.              *)
(***************************************************************************)
LEMMA OpenBefore == ASSUME PhaseMove, Open' PROVE Open
  BY Zenon DEF PhaseMove, Open

LEMMA AnsweredGrows == ASSUME PhaseMove PROVE answered \subseteq answered'
<1>1. answered' = answered \/ answered' = answered \union {"handset"} \/ answered' = answered \union {"switch"}
  BY Zenon DEF PhaseMove
<1> QED BY <1>1

\* A call that is carried stays answered by both.
LEMMA TalkAnswered ==
    ASSUME Types, Types', Answers, PhaseMove, Open', pc' \in Talking
    PROVE  answered' = {"handset", "switch"}
<1>1. Open BY OpenBefore
<1>2. pc \in Talking \/ answered = {"handset", "switch"} BY Zenon DEF PhaseMove, Open
<1>3. answered = {"handset", "switch"} BY <1>1, <1>2, Zenon DEF Answers
<1>4. answered' \subseteq {"handset", "switch"} BY Zenon DEF Types
<1> QED BY <1>3, <1>4, AnsweredGrows

LEMMA FifoLessHas == ASSUME Types, FifoLess, NEW m, Has(fifo', m) PROVE Has(fifo, m)
<1>1. fifo \in Seq(SIPMessage) BY Zenon DEF Types
<1>2. CASE fifo' = fifo BY <1>2, Zenon
<1>3. CASE fifo # <<>> /\ fifo' = Tail(fifo)
  <2>1. Has(Tail(fifo), m) BY <1>3, Zenon
  <2> QED BY <1>1, <1>3, <2>1, TailHas
<1> QED BY <1>2, <1>3 DEF FifoLess

LEMMA ActiveBefore ==
    ASSUME HandsetSide, Move, gsm' = "Active"
    PROVE  gsm = "Active" \/ Has(up, "Connect") \/ Has(up, "ConnectAck")
<1>1. CASE SetupMove BY <1>1, SetupIs
<1>2. CASE CalmMove BY <1>2, Zenon DEF CalmMove
<1>3. CASE ClearMove \/ DisconnectMove \/ StartMove \/ RingMove \/ HangUpMove
  <2>1. gsm' \in {"Null", "ReleaseRequest", "MOCProceeding", "CallPresent", "CallReceived",
                  "ConnectIndication", "DisconnectIndication"}
    BY <1>3, Zenon DEF ClearMove, DisconnectMove, StartMove, RingMove, HangUpMove
  <2> QED BY <2>1
<1> QED BY <1>1, <1>2, <1>3, Zenon DEF Move

LEMMA AnswersKept ==
    ASSUME Types, Types', HandsetSide, Answers, Move, PhaseMove, AnswerMove PROVE Answers'
<1>0. up \in Seq(UpMessage) BY Zenon DEF HandsetSide
<1>u. \A m : (Has(up, m)' <=> Has(up', m)) /\ (Has(fifo, m)' <=> Has(fifo', m)) BY DEF Has
<1>1. \A m : Has(up', m) => Has(up, m) BY <1>0, MovesQueue, TakenHas
<1>2. answered \subseteq answered' BY AnsweredGrows
<1>3. ASSUME gsm' = "Active" \/ Has(up, "Connect")' \/ Has(up, "ConnectAck")'
      PROVE  "handset" \in answered'
  <2>1. gsm = "Active" \/ Has(up, "Connect") \/ Has(up, "ConnectAck")
    BY <1>1, <1>3, <1>u, ActiveBefore
  <2>2. "handset" \in answered BY <2>1, Zenon DEF Answers
  <2> QED BY <1>2, <2>2
<1>4. ASSUME sw' = "up" PROVE "switch" \in answered'
  <2>1. sw = "up" \/ "switch" \in answered' BY <1>4, Zenon DEF AnswerMove
  <2>2. sw = "up" => "switch" \in answered BY Zenon DEF Answers
  <2> QED BY <1>2, <2>1, <2>2
<1>5. ASSUME Open', Has(fifo, "200")' \/ Has(fifo, "ACK")' \/ sip' = "Active" \/ pc' = "MOCConnect"
      PROVE  "switch" \in answered'
  <2>1. Open /\ FifoLess BY <1>5, OpenBefore, Zenon DEF AnswerMove
  <2>2. \A m : Has(fifo', m) => Has(fifo, m) BY <2>1, FifoLessHas
  <2>3. sip' = "Active" => sip = "Active" \/ Has(fifo, "200") \/ Has(fifo, "ACK")
    BY <1>5, Zenon DEF AnswerMove
  <2>4. pc' = "MOCConnect" => pc = "MOCConnect" \/ sip = "Active" BY <1>5, Zenon DEF AnswerMove
  <2>5. Has(fifo, "200") \/ Has(fifo, "ACK") \/ sip = "Active" \/ pc = "MOCConnect"
    BY <1>5, <1>u, <2>2, <2>3, <2>4, Zenon
  <2>6. "switch" \in answered BY <2>1, <2>5, Zenon DEF Answers
  <2> QED BY <1>2, <2>6
<1>6. Open' /\ pc' \in Talking => answered' = {"handset", "switch"} BY TalkAnswered
<1> QED BY <1>3, <1>4, <1>5, <1>6, Zenon DEF Answers

\* The parts of the invariant that are not types, after a step, and what the step did to the phase.
Kept == HandsetSide' /\ At' /\ Finished' /\ Silent' /\ PhaseMove /\ Answers'

LEMMA StepIsKept ==
    ASSUME Types, Types', HandsetSide, Timed, Answers, StepKept PROVE Kept
<1>1. Move /\ At' /\ Finished' /\ Silent' /\ PhaseMove /\ AnswerMove BY Zenon DEF StepKept
<1>2. HandsetSide' BY <1>1, HandsetSideMoves
<1>3. Answers' BY <1>1, AnswersKept
<1> QED BY <1>1, <1>2, <1>3, Zenon DEF Kept

\* The thread and the states stand still while somebody may answer.
LEMMA StandsStill ==
    ASSUME ControlSide, UNCHANGED <<pc, back, gsm, sip, instigator>>,
           \/ answered' = answered
           \/ answered' = answered \union {"handset"} \/ answered' = answered \union {"switch"}
    PROVE  At' /\ Finished' /\ PhaseMove
<1>1. pc' = pc /\ back' = back /\ gsm' = gsm /\ sip' = sip /\ instigator' = instigator OBVIOUS
<1>2. At /\ Finished BY Zenon DEF ControlSide
<1>3. place' = place BY <1>1, Zenon DEF place
<1>4. clearing' = clearing BY <1>1, Zenon DEF clearing, clearingGSM, SIPFinished
<1>5. At'
  <2>1. /\ Fits(place, gsm) /\ (place \in MOCPart => instigator) /\ (place \in MTCPart => ~instigator)
        /\ gsm \in {"MOCInitiated", "MOCProceeding", "ConnectIndication"} => instigator
        /\ gsm \in {"AnsweredPaging", "CallPresent", "MTCConfirmed"} => ~instigator
        /\ pc = "Start" => sip \in {"Null", "Proceeding"}
        /\ place = "Start" => pc = "Start"
    BY <1>2, Zenon DEF At
  <2>2. /\ Fits(place', gsm') /\ (place' \in MOCPart => instigator') /\ (place' \in MTCPart => ~instigator')
        /\ gsm' \in {"MOCInitiated", "MOCProceeding", "ConnectIndication"} => instigator'
        /\ gsm' \in {"AnsweredPaging", "CallPresent", "MTCConfirmed"} => ~instigator'
    BY <1>1, <1>3, <2>1
  <2>3. /\ pc' = "Start" => sip' \in {"Null", "Proceeding"}
        /\ place' = "Start" => pc' = "Start"
    BY <1>1, <1>3, <2>1
  <2> QED BY <2>2, <2>3, Zenon DEF At
<1>6. Finished'
  <2>1. /\ place \in PreTalk /\ (SIPFinished \/ pc \in Waiting) => gsm = "ReleaseRequest"
        /\ pc = "Wait487" => SIPFinished
    BY <1>2, Zenon DEF Finished
  <2>2. SIPFinished' <=> SIPFinished BY <1>1 DEF SIPFinished
  <2> QED BY <1>1, <1>3, <2>1, <2>2, Zenon DEF Finished
<1>7. PhaseMove BY <1>1, <1>4, Zenon DEF PhaseMove
<1> QED BY <1>5, <1>6, <1>7

\* The handset, or the radio link, adds a frame.
LEMMA AddingKept ==
    ASSUME Types, Types', HandsetSide, ControlSide, Answers,
           handsetSends \/ handsetPressesKey \/ handsetAnswersRR \/ dataLinkError
    PROVE  Kept
<1>0. /\ UNCHANGED <<pc, back, gsm, sip, instigator>> /\ fifo' = fifo /\ sw' = sw
      /\ up \in Seq(UpMessage)
  BY Zenon DEF handsetSends, handsetPressesKey, handsetAnswersRR, dataLinkError, HandsetSide
<1>1. answered' = answered \/ answered' = answered \union {"handset"}
  BY Zenon DEF handsetSends, handsetPressesKey, handsetAnswersRR, dataLinkError
<1>2. At' /\ Finished' /\ PhaseMove BY <1>0, <1>1, StandsStill
<1>3. HandsetSide' BY HandsetAdds, Adding
<1>4. Silent'
  <2> SUFFICES ASSUME pc' = "Start"
               PROVE  ms' \in {"calling", "paged"} /\ \A i \in 1 .. Len(up') : up'[i] = "ERROR"
    BY Zenon DEF Silent
  <2>1. pc = "Start" BY <1>0
  <2>2. ms \in {"calling", "paged"} /\ \A i \in 1 .. Len(up) : up[i] = "ERROR"
    BY <2>1, Zenon DEF ControlSide, Silent
  <2>3. dataLinkError BY <2>1, <2>2, SMT DEF handsetSends, handsetPressesKey, handsetAnswersRR
  <2>4. ms' = ms /\ up' = Append(up, "ERROR") BY <2>3, Zenon DEF dataLinkError
  <2>5. "ERROR" \in UpMessage BY DEF UpMessage
  <2>6. /\ Len(up') = Len(up) + 1 /\ Len(up) \in Nat
        /\ \A i \in 1 .. Len(up) : up'[i] = up[i]
        /\ up'[Len(up) + 1] = "ERROR"
    BY <1>0, <2>4, <2>5, AppendProperties
  <2> QED BY <2>2, <2>4, <2>6
<1>5. Answers'
  <2>0. \A m : (Has(up, m)' <=> Has(up', m)) /\ (Has(fifo, m)' <=> Has(fifo', m)) BY DEF Has
  <2>1. answered \subseteq answered' BY <1>1
  <2>2. ASSUME Has(up', "Connect") \/ Has(up', "ConnectAck") PROVE "handset" \in answered'
    <3>1. CASE handsetSends
      <4>1. PICK t \in MSSends :
               /\ up' = Append(up, t[2])
               /\ answered' = IF t[2] \in {"Connect", "ConnectAck"} THEN answered \union {"handset"} ELSE answered
        BY <3>1 DEF handsetSends
      <4>2. t[2] \in UpMessage BY SMT DEF MSSends, InCall, UpMessage
      <4>3. \A m : Has(up', m) => Has(up, m) \/ t[2] = m BY <1>0, <4>1, <4>2, AppendHas
      <4>4. CASE t[2] \in {"Connect", "ConnectAck"}
        <5>1. answered' = answered \union {"handset"} BY <4>1, <4>4
        <5> QED BY <5>1
      <4>5. CASE t[2] \notin {"Connect", "ConnectAck"}
        <5>1. Has(up, "Connect") \/ Has(up, "ConnectAck") BY <2>2, <4>3, <4>5
        <5>2. "handset" \in answered BY <5>1, Zenon DEF Answers
        <5> QED BY <2>1, <5>2
      <4> QED BY <4>4, <4>5
    <3>2. CASE handsetPressesKey \/ handsetAnswersRR \/ dataLinkError
      <4>1. \E x \in {"StartDTMF", "ERROR", "ModeAck", "ModeNak"} : up' = Append(up, x)
        BY <3>2, SMT DEF handsetPressesKey, handsetAnswersRR, dataLinkError
      <4>2. PICK x \in {"StartDTMF", "ERROR", "ModeAck", "ModeNak"} : up' = Append(up, x) BY <4>1
      <4>3. x \in UpMessage /\ x \notin {"Connect", "ConnectAck"} BY SMT DEF UpMessage
      <4>4. \A m : Has(up', m) => Has(up, m) \/ x = m BY <1>0, <4>2, <4>3, AppendHas
      <4>5. Has(up, "Connect") \/ Has(up, "ConnectAck") BY <2>2, <4>3, <4>4
      <4>6. "handset" \in answered BY <4>5, Zenon DEF Answers
      <4> QED BY <2>1, <4>6
    <3> QED BY <3>1, <3>2
  <2>3. gsm' = "Active" => "handset" \in answered'
    <3>1. gsm = "Active" => "handset" \in answered BY Zenon DEF Answers
    <3> QED BY <1>0, <2>1, <3>1
  <2>4. sw' = "up" => "switch" \in answered'
    <3>1. sw = "up" => "switch" \in answered BY Zenon DEF Answers
    <3> QED BY <1>0, <2>1, <3>1
  <2>5. ASSUME Open', Has(fifo, "200")' \/ Has(fifo, "ACK")' \/ sip' = "Active" \/ pc' = "MOCConnect"
        PROVE  "switch" \in answered'
    <3>1. Open BY <1>2, <2>5, OpenBefore
    <3>2. Has(fifo, "200") \/ Has(fifo, "ACK") \/ sip = "Active" \/ pc = "MOCConnect"
      <4>1. fifo' = fifo /\ sip' = sip /\ pc' = pc BY <1>0
      <4> QED BY <2>0, <2>5, <4>1, Zenon
    <3>3. "switch" \in answered BY <3>1, <3>2, Zenon DEF Answers
    <3> QED BY <2>1, <3>3
  <2>6. Open' /\ pc' \in Talking => answered' = {"handset", "switch"} BY <1>2, TalkAnswered
  <2> QED BY <2>0, <2>2, <2>3, <2>4, <2>5, <2>6, Zenon DEF Answers
<1> QED BY <1>2, <1>3, <1>4, <1>5, Zenon DEF Kept

\* Whatever else happens outside leaves the queue from the handset alone.
LEMMA OutsideKept ==
    ASSUME Types, Types', HandsetSide, Timed, ControlSide, Answers,
           \/ linkLost \/ expireT3109 \/ handsetDropsLink \/ switchSends \/ switchRepeats
           \/ terminate \/ UNCHANGED vars \/ \E t \in Q931Timers : timerExpires(t)
    PROVE  Kept
<1>0. UNCHANGED <<pc, back, gsm, sip, instigator>> /\ up' = up
  BY Zenon DEF linkLost, expireT3109, handsetDropsLink, switchSends, switchRepeats, terminate, timerExpires, vars
<1>1. ms' = ms \/ (ms' = "idle" /\ pc # "Start")
  BY Zenon DEF linkLost, expireT3109, handsetDropsLink, switchSends, switchRepeats, terminate, timerExpires, vars
<1>2. \/ answered' = answered /\ sw' = sw /\ fifo' = fifo
      \/ switchSends \/ switchRepeats
  BY Zenon DEF linkLost, expireT3109, handsetDropsLink, terminate, timerExpires, vars
<1>3. answered' = answered \/ answered' = answered \union {"switch"}
  BY <1>2, Zenon DEF switchSends, switchRepeats
<1>4. At' /\ Finished' /\ PhaseMove BY <1>0, <1>3, StandsStill
<1>5. Silent'
  <2>1. pc = "Start" => ms \in {"calling", "paged"} /\ \A i \in 1 .. Len(up) : up[i] = "ERROR"
    BY Zenon DEF ControlSide, Silent
  <2>2. pc' = "Start" => ms' \in {"calling", "paged"} /\ \A i \in 1 .. Len(up') : up'[i] = "ERROR"
    BY <1>0, <1>1, <2>1
  <2> QED BY <2>2, Zenon DEF Silent
<1>6. HandsetSide'
  <2>1. CASE \E t \in Q931Timers : timerExpires(t) BY <2>1, Expiring
  <2>2. CASE timers' = timers
    <3>1. Hears BY <1>1, SMT DEF Hears
    <3>2. gsm' = gsm /\ instigator' = instigator BY <1>0
    <3>3. Move BY <1>0, <2>2, <3>1, <3>2, Zenon DEF Move, CalmMove
    <3> QED BY <3>3, HandsetSideMoves
  <2>3. timers' = timers \/ \E t \in Q931Timers : timerExpires(t)
    BY Zenon DEF linkLost, expireT3109, handsetDropsLink, switchSends, switchRepeats, terminate, vars
  <2> QED BY <2>1, <2>2, <2>3
<1>7. Answers'
  <2>0. \A m : (Has(up, m)' <=> Has(up', m)) /\ (Has(fifo, m)' <=> Has(fifo', m)) BY DEF Has
  <2>1. answered \subseteq answered' BY <1>3
  <2>2. ASSUME gsm' = "Active" \/ Has(up, "Connect")' \/ Has(up, "ConnectAck")'
        PROVE  "handset" \in answered'
    <3>1. gsm = "Active" \/ Has(up, "Connect") \/ Has(up, "ConnectAck")
      <4>1. gsm' = gsm /\ up' = up BY <1>0
      <4> QED BY <2>0, <2>2, <4>1, Zenon
    <3>2. "handset" \in answered BY <3>1, Zenon DEF Answers
    <3> QED BY <2>1, <3>2
  <2>3. /\ sw' = "up" => sw = "up" \/ "switch" \in answered'
        /\ Has(fifo', "200") => Has(fifo, "200") \/ "switch" \in answered'
        /\ Has(fifo', "ACK") => Has(fifo, "ACK") \/ "switch" \in answered'
    <3>1. CASE answered' = answered /\ sw' = sw /\ fifo' = fifo BY <3>1, Zenon
    <3>2. fifo \in Seq(SIPMessage) BY Zenon DEF Types
    <3>3. CASE switchSends
      <4>1. PICK t \in SwitchSends :
               /\ sw = t[1] /\ fifo' = Append(fifo, t[2]) /\ sw' = t[3]
               /\ answered' = IF t[2] = "200" THEN answered \union {"switch"} ELSE answered
        BY <3>3 DEF switchSends
      <4>2. /\ t[2] \in SIPMessage
            /\ t[3] = "up" => t[1] = "up" \/ t[2] = "200"
            /\ t[2] = "ACK" => t[1] = "up"
        BY SMT DEF SwitchSends, SIPMessage
      <4>3. \A m : Has(fifo', m) => Has(fifo, m) \/ t[2] = m BY <3>2, <4>1, <4>2, AppendHas
      <4>4. t[2] = "200" => "switch" \in answered'
        <5>1. t[2] = "200" => answered' = answered \union {"switch"} BY <4>1
        <5> QED BY <5>1
      <4>5. sw = "up" => "switch" \in answered BY Zenon DEF Answers
      <4> QED BY <2>1, <4>1, <4>2, <4>3, <4>4, <4>5
    <3>4. CASE switchRepeats
      <4>1. /\ answered' = answered /\ sw' = sw
            /\ fifo' = Append(fifo, IF sw = "hungup" THEN "BYE" ELSE "CANCEL")
        BY <3>4, Zenon DEF switchRepeats
      <4>2. \E x \in {"BYE", "CANCEL"} : fifo' = Append(fifo, x) BY <4>1, SMT
      <4>3. PICK x \in {"BYE", "CANCEL"} : fifo' = Append(fifo, x) BY <4>2
      <4>4. x \in SIPMessage /\ x \notin {"200", "ACK"} BY SMT DEF SIPMessage
      <4>5. \A m : Has(fifo', m) => Has(fifo, m) \/ x = m BY <3>2, <4>3, <4>4, AppendHas
      <4> QED BY <4>1, <4>4, <4>5
    <3> QED BY <1>2, <3>1, <3>3, <3>4
  <2>4. sw' = "up" => "switch" \in answered'
    <3>1. sw = "up" => "switch" \in answered BY Zenon DEF Answers
    <3> QED BY <2>1, <2>3, <3>1
  <2>5. ASSUME Open', Has(fifo, "200")' \/ Has(fifo, "ACK")' \/ sip' = "Active" \/ pc' = "MOCConnect"
        PROVE  "switch" \in answered'
    <3>1. Open BY <1>4, <2>5, OpenBefore
    <3>2. sip' = sip /\ pc' = pc BY <1>0
    <3>3. \/ Has(fifo, "200") \/ Has(fifo, "ACK") \/ sip = "Active" \/ pc = "MOCConnect"
          \/ "switch" \in answered'
      BY <2>0, <2>3, <2>5, <3>2, Zenon
    <3>4. CASE Has(fifo, "200") \/ Has(fifo, "ACK") \/ sip = "Active" \/ pc = "MOCConnect"
      <4>1. "switch" \in answered BY <3>1, <3>4, Zenon DEF Answers
      <4> QED BY <2>1, <4>1
    <3> QED BY <3>3, <3>4
  <2>6. Open' /\ pc' \in Talking => answered' = {"handset", "switch"} BY <1>4, TalkAnswered
  <2> QED BY <2>2, <2>4, <2>5, <2>6, Zenon DEF Answers
<1> QED BY <1>4, <1>5, <1>6, <1>7, Zenon DEF Kept

LEMMA ClearingKept ==
    ASSUME ControlSide, clearDeadEntries PROVE StepKept
<1>1. /\ pc = "Stray" /\ goto("Dropped")
      /\ UNCHANGED <<instigator, gsm, timers, sip, fifo, up, ms, sw, answered>>
  BY Zenon DEF clearDeadEntries
<1>2. pc' = "Dropped" /\ place' = "Dropped" BY <1>1, Gone, SMT DEF Waiting
<1>3. place' \in Aside /\ pc' \notin {"Start", "Wait487", "MOCConnect"} BY <1>2, SMT DEF Aside, Over
<1>4. At /\ gsm' \in {gsm, "Null"} BY <1>1, SMT DEF ControlSide
<1>5. At' /\ Finished' /\ Silent' BY <1>1, <1>3, <1>4, AsideControl
<1>6. pc' \in Over /\ pc' \notin Talking /\ answered' = answered BY <1>1, <1>2, SMT DEF Over, Talking
<1>7. PhaseMove BY <1>6, Zenon DEF PhaseMove
<1>8. AnswerMove BY <1>1, <1>3, SameNobody, NobodyMoves
<1>9. Move BY <1>1, CalmMoves
<1> QED BY <1>5, <1>7, <1>8, <1>9, Zenon DEF StepKept

LEMMA NextKept ==
    ASSUME Types, Types', HandsetSide, Timed, ControlSide, Answers, ByeSaved, Waits, [Next]_vars
    PROVE  Kept
<1>1. CASE Thread BY <1>1, ThreadKept, StepIsKept
<1>2. CASE clearDeadEntries BY <1>2, ClearingKept, StepIsKept
<1>3. CASE handsetSends \/ handsetPressesKey \/ handsetAnswersRR \/ dataLinkError BY <1>3, AddingKept
<1>4. CASE \/ linkLost \/ expireT3109 \/ handsetDropsLink \/ switchSends \/ switchRepeats
           \/ terminate \/ UNCHANGED vars \/ \E t \in Q931Timers : timerExpires(t)
  BY <1>4, OutsideKept
<1> QED BY <1>1, <1>2, <1>3, <1>4, Zenon DEF Next, External
-----------------------------------------------------------------------------
(***************************************************************************)
(* The theorems.                                                           *)
(***************************************************************************)
LEMMA PInvParts ==
    /\ IInv /\ PInv <=> IInv /\ Types /\ HandsetSide /\ ControlSide /\ Answers
    /\ (IInv /\ PInv)' <=> (IInv /\ Types /\ HandsetSide /\ ControlSide /\ Answers)'
  BY Zenon DEF IInv, PInv, HandsetSide, ControlSide, ByeSaved

LEMMA PInitially == Init => PInv
<1> SUFFICES ASSUME Init PROVE PInv OBVIOUS
<1>1. /\ instigator \in BOOLEAN /\ veryEarly \in BOOLEAN /\ stop = FALSE
      /\ pc = "Start" /\ up = <<>> /\ fifo = <<>> /\ saved = {} /\ answered = {} /\ keys = 0
      /\ link = "up" /\ sw = "ringing" /\ timers = [t \in Q931Timers |-> "off"]
      /\ \/ instigator /\ ms = "calling" /\ gsm = "MOCInitiated" /\ sip = "Null"
         \/ ~instigator /\ ms = "paged" /\ gsm = "AnsweredPaging" /\ sip = "Proceeding"
  BY Zenon DEF Init
<1>2. Len(up) = 0 /\ Len(fifo) = 0 /\ fifo \in Seq(SIPMessage) BY <1>1
<1>3. \A m : ~Has(up, m) /\ ~Has(fifo, m) BY <1>2 DEF Has
<1>4. place = "Start" BY <1>1, NotWaiting, SMT DEF Waiting
<1>5. Types
  <2>1. gsm \in CallState /\ sip \in SIPState /\ ms \in MSState /\ sw \in SwitchState
    BY <1>1, SMT DEF CallState, SIPState, MSState, SwitchState
  <2>2. keys \in 0 .. MaxKeys BY <1>1, BoundsAssumption, SMT
  <2>3. stop \in BOOLEAN /\ saved \subseteq {"BYE", "CANCEL", "ERROR"} /\ answered \subseteq {"handset", "switch"}
        /\ link \in {"up", "lost", "failed", "closed"}
    BY <1>1
  <2> QED BY <1>1, <1>2, <2>1, <2>2, <2>3, Zenon DEF Types
<1>6. Ordered BY <1>2, SMT DEF Ordered
<1>7. Sides BY <1>1, <1>3, SMT DEF Sides
<1>8. Silent BY <1>1, <1>2, SMT DEF Silent
<1>9. Ahead
  <2>1. \A m : ~Coming(m) BY <1>1, <1>3, SMT DEF Coming
  <2>2. gsm # "CallPresent" BY <1>1
  <2> QED BY <2>1, <2>2, Zenon DEF Ahead
<1>10. At BY <1>1, <1>4, SMT DEF At, Fits, MOCPart, MTCPart, Talking
<1>11. Finished BY <1>1, <1>4, SMT DEF Finished, PreTalk, MOCPart, MTCPart
<1>12. OneTimer BY <1>1, SMT DEF OneTimer
<1>13. Answers
  <2>1. gsm # "Active" /\ sw # "up" /\ sip # "Active" /\ pc # "MOCConnect" BY <1>1
  <2>2. pc \notin Talking BY <1>1, SMT DEF Talking
  <2> QED BY <1>3, <2>1, <2>2, Zenon DEF Answers
<1> QED BY <1>5, <1>6, <1>7, <1>8, <1>9, <1>10, <1>11, <1>12, <1>13, Zenon DEF PInv

LEMMA Steps ==
    ASSUME IInv, PInv, [Next]_vars PROVE PInv' /\ PhaseMove
<1>1. Types /\ HandsetSide /\ ControlSide /\ Answers BY PInvParts
<1>2. Waits /\ ByeSaved /\ Timed BY Zenon DEF IInv
<1>3. Types' BY <1>1, TypesStay
<1>4. Kept BY <1>1, <1>2, <1>3, NextKept
<1>5. Types' /\ HandsetSide' /\ ControlSide' /\ Answers' /\ PhaseMove
  BY <1>3, <1>4, Zenon DEF Kept, ControlSide
<1>6. IInv' BY Inductive
<1> QED BY <1>5, <1>6, PInvParts

LEMMA AlwaysPInv == Spec => [](IInv /\ PInv)
<1>1. IInv /\ PInv /\ [Next]_vars => (IInv /\ PInv)' BY Steps, Inductive
<1> QED BY <1>1, Initially, PInitially, PTL DEF Spec

\* Every variable has a value of its type, and no two of the Q.931 timers are ever on at once,
\* whatever crosses: setTimer of one never leaves that of the state before running.
THEOREM TypeCorrect == Spec => []TypeOK
<1>1. IInv /\ PInv => TypeOK
  <2> SUFFICES ASSUME IInv, PInv PROVE TypeOK OBVIOUS
  <2>1. pc \in PC /\ back \in Seq(PC) BY Zenon DEF IInv, Waits
  <2>2. timers \in [Q931Timers -> {"off", "running", "expired"}] BY Zenon DEF IInv, Timed
  <2>3. \A t, u \in Q931Timers : timers[t] # "off" /\ timers[u] # "off" => t = u
    <3>1. ASSUME NEW t \in Q931Timers, NEW u \in Q931Timers, Allowed(t, gsm), Allowed(u, gsm) PROVE t = u
      BY <3>1, SMT DEF Allowed
    <3> QED BY <3>1, Zenon DEF PInv, OneTimer
  <2> QED BY <2>1, <2>2, <2>3, Zenon DEF PInv, Types, TypeOK
<1> QED BY <1>1, AlwaysPInv, PTL

LEMMA PhaseIs ==
    /\ pc \in Over => phaseOf = "over"
    /\ pc \notin Over /\ clearing => phaseOf = "clearing"
    /\ pc \notin Over /\ ~clearing /\ pc \in Talking => phaseOf = "carried"
    /\ pc \notin Over /\ ~clearing /\ pc \notin Talking => phaseOf = "setup"
<1>1. pc \in Over => pc \notin Talking BY SMT DEF Over, Talking
<1> QED BY <1>1, Zenon DEF phaseOf

LEMMA PhaseIsNext ==
    /\ pc' \in Over => phaseOf' = "over"
    /\ pc' \notin Over /\ clearing' => phaseOf' = "clearing"
    /\ pc' \notin Over /\ ~clearing' /\ pc' \in Talking => phaseOf' = "carried"
    /\ pc' \notin Over /\ ~clearing' /\ pc' \notin Talking => phaseOf' = "setup"
<1>1. pc' \in Over => pc' \notin Talking BY SMT DEF Over, Talking
<1> QED BY <1>1, Zenon DEF phaseOf

\* Each step of the call is a step of the promise, or leaves the phase and the answers alone.
LEMMA PromiseStep == ASSUME PhaseMove PROVE [P!Next]_(P!promiseVars)
<1>1. CASE answered' = answered
  <2>1. CASE phaseOf' = phaseOf BY <1>1, <2>1 DEF P!promiseVars
  <2>2. CASE phaseOf' # phaseOf /\ pc' \in Over
    <3>1. phaseOf' = "over" BY <2>2, PhaseIsNext
    <3>2. P!End BY <1>1, <2>2, <3>1, Zenon DEF P!End
    <3> QED BY <3>2, Zenon DEF P!Next
  <2>3. CASE phaseOf' # phaseOf /\ pc' \notin Over /\ clearing'
    <3>1. phaseOf' = "clearing" BY <2>3, PhaseIsNext
    <3>2. pc \notin Over BY <2>3, Zenon DEF PhaseMove
    <3>3. phaseOf \in {"setup", "carried"} BY <2>3, <3>1, <3>2, PhaseIs, SMT
    <3>4. P!Clear BY <1>1, <3>1, <3>3, Zenon DEF P!Clear
    <3> QED BY <3>4, Zenon DEF P!Next
  <2>4. CASE phaseOf' # phaseOf /\ pc' \notin Over /\ ~clearing'
    <3>1. pc \notin Over /\ ~clearing BY <2>4, Zenon DEF PhaseMove
    <3>2. pc' \in Talking
      <4>1. pc \in Talking => pc' \in Talking BY <2>4, Zenon DEF PhaseMove
      <4> QED BY <2>4, <3>1, <4>1, PhaseIs, PhaseIsNext, SMT
    <3>3. phaseOf' = "carried" BY <2>4, <3>2, PhaseIsNext
    <3>4. pc \notin Talking /\ phaseOf = "setup" BY <2>4, <3>1, <3>3, PhaseIs, SMT
    <3>5. answered = {"handset", "switch"} BY <2>4, <3>2, <3>4, Zenon DEF PhaseMove
    <3>6. P!Carry BY <1>1, <3>3, <3>4, <3>5, Zenon DEF P!Carry
    <3> QED BY <3>6, Zenon DEF P!Next
  <2> QED BY <2>1, <2>2, <2>3, <2>4
<1>2. CASE /\ answered' = answered \union {"handset"} \/ answered' = answered \union {"switch"}
           /\ clearing' = clearing
           /\ pc' \in Over <=> pc \in Over
           /\ pc' \in Talking <=> pc \in Talking
  <2>1. phaseOf' = phaseOf
    <3>1. CASE pc \in Over BY <1>2, <3>1, PhaseIs, PhaseIsNext, Zenon
    <3>2. CASE pc \notin Over /\ clearing BY <1>2, <3>2, PhaseIs, PhaseIsNext, Zenon
    <3>3. CASE pc \notin Over /\ ~clearing /\ pc \in Talking BY <1>2, <3>3, PhaseIs, PhaseIsNext, Zenon
    <3>4. CASE pc \notin Over /\ ~clearing /\ pc \notin Talking BY <1>2, <3>4, PhaseIs, PhaseIsNext, Zenon
    <3> QED BY <3>1, <3>2, <3>3, <3>4
  <2>2. \E p \in {"handset", "switch"} : answered' = answered \union {p} BY <1>2
  <2>3. P!Answer BY <2>1, <2>2, Zenon DEF P!Answer
  <2> QED BY <2>3, Zenon DEF P!Next
<1> QED BY <1>1, <1>2, Zenon DEF PhaseMove

\* The controllers implement CallPromise, but for the fairness that makes a call end: no
\* message that comes late, in the wrong order or twice takes a call back a phase, and
\* callManagementLoop is entered, with neither side clearing, only when handset and switch
\* have both answered.
THEOREM PromiseInOrder == Spec => P!Init /\ [][P!Next]_(P!promiseVars)
<1>1. Init => P!Init
  <2> SUFFICES ASSUME Init PROVE P!Init OBVIOUS
  <2>1. pc = "Start" /\ answered = {} /\ gsm \in {"MOCInitiated", "AnsweredPaging"} /\ sip \in {"Null", "Proceeding"}
    BY Zenon DEF Init
  <2>2. ~clearing /\ pc \notin Over /\ pc \notin Talking
    BY <2>1, SMT DEF clearing, clearingGSM, SIPFinished, Over, Talking
  <2>3. phaseOf = "setup" BY <2>2, PhaseIs
  <2> QED BY <2>1, <2>3, Zenon DEF P!Init
<1>2. IInv /\ PInv /\ [Next]_vars => [P!Next]_(P!promiseVars) BY Steps, PromiseStep
<1> QED BY <1>1, <1>2, AlwaysPInv, PTL DEF Spec
=============================================================================
