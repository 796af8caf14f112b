-------------------------------- MODULE Call --------------------------------
(***************************************************************************)
(* One call, from MOCStarter or MTCStarter to the removal of its           *)
(* transaction: the Q.931 side and the SIP side of the TransactionEntry,   *)
(* and the one thread that works on it at a time (the thread of the first  *)
(* channel, then that of the traffic channel).  External are the handset,  *)
(* the SIP switch and the radio link between the handset and the channel.  *)
(*                                                                         *)
(* The thread reads two queues, the L3 frames from the handset and the SIP *)
(* FIFO of the call, which other threads fill, and a step of it ends where *)
(* it may block on one of them.  Frames to the handset take effect when    *)
(* they are sent, and what the handset had sent before is still in the     *)
(* queue: that is how messages cross.  SIP is over UDP: a request or       *)
(* response to the switch may be lost, and so may the answer to it.        *)
(*                                                                         *)
(* A call that the dispatcher drops, leaves, or removes has no thread any  *)
(* more: pc is then in Over.                                               *)
(*                                                                         *)
(* An operator named Faulty_... is the definition that follows it with a   *)
(* mistake in it; no definition uses one.                                  *)
(***************************************************************************)
EXTENDS Naturals, Sequences

CONSTANTS
    MaxFifo,   \* bound: SIP messages waiting when the switch sends one more
    MaxUp,     \* bound: L3 frames waiting when the handset sends one more
    MaxKeys    \* bound: keys pressed (DTMF) in a call

ASSUME BoundsAssumption == MaxFifo \in Nat /\ MaxUp \in Nat /\ MaxKeys \in Nat

VARIABLES
    instigator,  \* SIPEngine::instigator(): the handset makes the call
    veryEarly,   \* the first channel is a TCH (very early assignment)
    pc, back,    \* where the thread is, and where it goes on after a wait in the SIP engine
    gsm,         \* TransactionEntry::mGSMState
    timers,      \* TransactionEntry::mTimers
    sip,         \* SIPEngine::mState
    saved,       \* which of mBYE, mCANCEL and mERROR are set
    fifo,        \* the call's FIFO in SIPMessageMap
    stop,        \* TransactionEntry::mTerminationRequested
    up,          \* what recv() of the thread's channel will return
    ms, link,    \* the handset and its link
    keys,        \* keys pressed
    sw,          \* the switch
    answered     \* which parties have answered the call

entryVars == <<gsm, timers>>
sipVars == <<sip, saved, back>>
vars == <<instigator, veryEarly, pc, back, gsm, timers, sip, saved, fifo, stop,
          up, ms, link, keys, sw, answered>>

Q931Timers == {"301", "303", "305", "308", "313"}
CallState == {"Null", "MOCInitiated", "AnsweredPaging", "MOCProceeding", "CallPresent",
              "MTCConfirmed", "CallReceived", "ConnectIndication", "Active",
              "ReleaseRequest", "DisconnectIndication"}
SIPState == {"Null", "Starting", "Proceeding", "Ringing", "Busy", "Connecting", "Active",
             "MODClearing", "MODCanceling", "MTDClearing", "MTDCanceling", "Cleared",
             "Canceled", "Timeout", "Fail"}

Over == {"Removed", "Dropped", "Stray", "Crash"}
Controller == {"Start", "Setup", "SetupSIP", "SetupRelease", "Assign", "Mode", "MOCRing",
               "MOCRingSIP", "MOCAnswer", "MOCAnswerGSM", "MOCAnswered", "MOCConnect",
               "MTCAlert", "MTCAlertSIP", "MTCAck", "MTCAckSIP", "Abort"}
Talking == {"Talk", "TalkSIP", "TalkSIPCleared", "TalkStop"}
PC == Controller \union Talking \union {"Wait", "Wait487"} \union Over

goto(p) == pc' = p /\ UNCHANGED back

(***************************************************************************)
(* The Q.931 timers.                                                       *)
(***************************************************************************)
resetTimers == timers' = [t \in Q931Timers |-> "off"]
setTimer(t) == timers' = [timers EXCEPT ![t] = "running"]
setTimerAlone(t) == timers' = [x \in Q931Timers |-> IF x = t THEN "running" ELSE "off"]
Faulty_anyTimerExpired == \E t \in Q931Timers \ {"308"} : timers[t] = "expired"

anyTimerExpired == \E t \in Q931Timers : timers[t] = "expired"

clearingGSM == gsm \in {"ReleaseRequest", "DisconnectIndication"}
SIPFinished == sip \in {"Cleared", "Canceled"}
dead == gsm = "Null" \/ sip = "Proceeding"    \* after 180 s in that state

(***************************************************************************)
(* The handset, as it takes a message from the network.                    *)
(***************************************************************************)
Told(msg) ==
    CASE msg = "ChannelRelease"                         -> "idle"
      [] msg = "ReleaseComplete"                        -> "released"
      [] msg = "Release"                                -> "toldRelease"
      [] msg = "Disconnect" /\ ms \notin {"releasing", "released"} -> "toldDisconnect"
      [] msg = "Setup"                                  -> "called"
      [] msg = "Connect" /\ ms = "calling"              -> "connected"
      [] msg = "ConnectAck" /\ ms = "offered"           -> "talking"
      [] OTHER                                          -> ms

tells(msg) == ms' = IF link = "up" /\ ms # "idle" THEN Told(msg) ELSE ms

(***************************************************************************)
(* The switch, as it takes a message from the BTS.  OK is the 200 that     *)
(* answers an INVITE, BYEOK and CANCELOK answer the request of that name.  *)
(***************************************************************************)
Heard(msg) ==
    CASE msg = "OK" /\ sw = "ringing"                       -> "up"
      [] msg = "OK" /\ sw = "cancelled"                     -> "hungup"
      [] msg = "BYE" /\ sw \in {"up", "hungup"}             -> "over"
      [] msg \in {"CANCEL", "ERROR"} /\ sw = "ringing"      -> "over"
      [] msg = "ERROR" /\ sw = "cancelled"                  -> "over"
      [] msg = "BYEOK" /\ sw = "hungup"                     -> "over"
      [] msg = "CANCELOK" /\ sw = "cancelled"               -> "over"
      [] OTHER                                              -> sw

Answer(msg) ==
    CASE msg = "CANCEL" /\ sw = "ringing" -> <<"200", "487">>
      [] msg = "ERROR"                    -> <<"ACK">>
      [] OTHER                            -> <<"200">>

\* A message that needs no answer (or gets one when the switch likes), and one that does.
sends(msg) == sw' \in {sw, Heard(msg)}
asks(msg) ==
    \/ UNCHANGED <<sw, fifo>>
    \/ sw' = Heard(msg) /\ fifo' \in {fifo, fifo \o Answer(msg)}

(***************************************************************************)
(* Clearing.  The MODSend... methods set the state of the engine, save the *)
(* message, and MODWaitFor... waits for an answer.  The waiting thread     *)
(* goes on at the head of next.                                            *)
(***************************************************************************)
clears(msg, next) ==
    /\ sip' = IF msg = "BYE" THEN "MODClearing" ELSE "MODCanceling"
    /\ saved' = saved \union {msg}
    /\ asks(msg)
    /\ pc' = "Wait" /\ back' = next

cancelOrError == IF instigator THEN "CANCEL" ELSE "ERROR"

forceSIPClearing(next) ==
    \/ SIPFinished /\ goto(next) /\ UNCHANGED <<sip, saved, sw, fifo>>
    \/ ~SIPFinished /\ clears(IF sip = "Active" THEN "BYE" ELSE cancelOrError, <<next>>)

forceGSMClearing ==
    \/ gsm = "Null" /\ UNCHANGED <<gsm, timers, ms, link>>
    \/ /\ gsm # "Null"
       /\ gsm' = "Null" /\ resetTimers
       /\ tells("ChannelRelease") /\ link' = "closed"

abortCall(next) == forceGSMClearing /\ forceSIPClearing(next)

abortAndRemoveCall ==
    /\ pc = "Abort"
    /\ abortCall("Removed")
    /\ UNCHANGED <<instigator, veryEarly, stop, up, keys, answered>>

\* MODWaitForBYEOK, MODWaitForCANCELOK and MODWaitForERRORACK: whatever comes is taken for
\* the answer, and when nothing comes Timer F runs out.
modWaits ==
    /\ pc = "Wait"
    /\ fifo' = IF fifo = <<>> THEN fifo ELSE Tail(fifo)
    /\ sip' = IF sip = "MODClearing" THEN "Cleared" ELSE "Canceled"
    /\ pc' = Head(back) /\ back' = Tail(back)
    /\ UNCHANGED <<instigator, veryEarly, gsm, timers, saved, stop, up, ms, link, keys, sw, answered>>

\* Timer E: the request is sent again.
modResends ==
    /\ pc = "Wait" /\ fifo = <<>>
    /\ asks(CASE sip = "MODClearing" -> "BYE" [] instigator -> "CANCEL" [] OTHER -> "ERROR")
    /\ UNCHANGED <<instigator, veryEarly, pc, back, gsm, timers, sip, saved, stop,
                   up, ms, link, keys, answered>>

MODWaitFor487 ==
    /\ pc = "Wait487"
    /\ fifo' = IF fifo = <<>> THEN fifo ELSE Tail(fifo)
    /\ pc' = Head(back) /\ back' = Tail(back)
    /\ UNCHANGED <<instigator, veryEarly, gsm, timers, sip, saved, stop, up, ms, link, keys, sw, answered>>

(***************************************************************************)
(* updateGSMSignalling.  after(p) is where the loop at p goes on, and       *)
(* whenCleared(p) where it goes when the function returns true.                *)
(***************************************************************************)
after(p) ==
    CASE p = "Setup"        -> "SetupSIP"
      [] p = "MOCRing"      -> "MOCRingSIP"
      [] p = "MOCAnswerGSM" -> "MOCAnswered"
      [] p = "MOCConnect"   -> "MOCConnect"
      [] p = "MTCAlert"     -> "MTCAlertSIP"
      [] p = "MTCAck"       -> "MTCAckSIP"
      [] p = "Talk"         -> "TalkSIP"
whenCleared(p) ==
    CASE p = "Setup" -> "SetupRelease" [] p = "Talk" -> "TalkSIPCleared" [] OTHER -> "Abort"

noSIP == UNCHANGED <<sip, saved, sw, fifo>>

Faulty_callConfirmed == gsm' = "MTCConfirmed" /\ timers' = [timers EXCEPT !["301"] = "running"]

callConfirmed ==
    gsm' = "MTCConfirmed" /\ timers' = [timers EXCEPT !["303"] = "off", !["301"] = "running"]

\* callManagementDispatchGSM, by the message.
callSetupMessage(m) ==
    /\ m \in {"CallConfirmed", "Alerting", "Connect", "ConnectAck"}
    /\ CASE m = "CallConfirmed" -> callConfirmed
         [] m = "Alerting"      -> gsm' = "CallReceived" /\ setTimer("301")
         [] OTHER               -> gsm' = "Active" /\ resetTimers
    /\ goto(after(pc)) /\ noSIP /\ UNCHANGED <<ms, link>>

disconnectMessage(m) ==
    /\ m = "Disconnect"
    /\ setTimerAlone("308")
    /\ tells("Release") /\ UNCHANGED link
    /\ IF sip = "Active"
       THEN gsm' = "ReleaseRequest" /\ clears("BYE", <<after(pc)>>)
       \* NullState is set after the waits; nobody reads the state in between.
       ELSE gsm' = "Null" /\ clears(cancelOrError, (IF instigator THEN <<"Wait487">> ELSE <<>>)
                                                    \o <<whenCleared(pc)>>)

\* MTDSendBYEOK asserts that a BYE is saved.
releaseMessage(m) ==
    /\ m = "Release"
    /\ gsm' = "Null" /\ resetTimers
    /\ tells("ChannelRelease") /\ UNCHANGED <<link, saved, fifo>>
    /\ IF "BYE" \in saved
       THEN sip' = "Cleared" /\ sends("BYEOK") /\ goto(whenCleared(pc))
       ELSE UNCHANGED <<sip, sw>> /\ goto("Crash")

releaseCompleteMessage(m) ==
    /\ m = "ReleaseComplete"
    /\ gsm' = "Null" /\ resetTimers
    /\ tells("ChannelRelease") /\ UNCHANGED link
    /\ goto(whenCleared(pc)) /\ noSIP

\* IMSIDetachController ends with ChannelRelease and HARDRELEASE.
detachMessage(m) ==
    /\ m = "Detach"
    /\ tells("ChannelRelease") /\ link' = "closed"
    /\ forceSIPClearing(whenCleared(pc)) /\ UNCHANGED entryVars

\* sendINFOAndWaitForOK takes the next message of the FIFO for the answer to its INFO.
startDTMFMessage(m) ==
    /\ m = "StartDTMF"
    /\ fifo' = IF fifo = <<>> THEN fifo ELSE Tail(fifo)
    /\ goto(after(pc)) /\ UNCHANGED <<gsm, timers, sip, saved, sw, ms, link>>

\* A primitive ERROR, and the messages that are ignored or rejected.
otherMessage(m) ==
    /\ m \in {"ERROR", "ModeAck", "ModeNak"}
    /\ goto(IF m = "ERROR" THEN whenCleared(pc) ELSE after(pc))
    /\ noSIP /\ UNCHANGED <<gsm, timers, ms, link>>

callManagementDispatchGSM(m) ==
    \/ callSetupMessage(m) \/ disconnectMessage(m) \/ releaseMessage(m)
    \/ releaseCompleteMessage(m) \/ detachMessage(m) \/ startDTMFMessage(m) \/ otherMessage(m)

Looping == {"Setup", "MOCRing", "MOCAnswerGSM", "MOCConnect", "MTCAlert", "MTCAck", "Talk"}

updateGSMSignalling ==
    /\ pc \in Looping
    /\ pc = "Talk" => link # "failed"
    /\ pc = "MOCConnect" => gsm # "Active"
    /\ \/ /\ gsm = "Null"
          /\ goto(whenCleared(pc)) /\ noSIP /\ UNCHANGED <<gsm, timers, up, ms, link>>
       \/ /\ gsm # "Null" /\ anyTimerExpired
          /\ abortCall(whenCleared(pc)) /\ UNCHANGED up
       \/ /\ gsm # "Null" /\ ~anyTimerExpired /\ up = <<>>
          /\ goto(after(pc)) /\ noSIP /\ UNCHANGED <<gsm, timers, up, ms, link>>
       \/ /\ gsm # "Null" /\ ~anyTimerExpired /\ up # <<>>
          /\ up' = Tail(up) /\ callManagementDispatchGSM(Head(up))
    /\ UNCHANGED <<instigator, veryEarly, stop, keys, answered>>

(***************************************************************************)
(* The start of a call, and the change to the traffic channel.             *)
(***************************************************************************)

\* MOCStarter from the Setup message: INVITE, then Call Proceeding.
MOCStarter ==
    /\ pc = "Start" /\ instigator
    /\ gsm' = "MOCProceeding" /\ sip' = "Starting"
    /\ goto(IF veryEarly THEN "Mode" ELSE "Assign")
    /\ UNCHANGED <<instigator, veryEarly, timers, saved, fifo, stop, up, ms, link, keys, sw, answered>>

MTCStarter ==
    /\ pc = "Start" /\ ~instigator
    /\ gsm' = "CallPresent" /\ setTimer("303") /\ tells("Setup")
    /\ goto("Setup")
    /\ UNCHANGED <<instigator, veryEarly, sip, saved, fifo, stop, up, link, keys, sw, answered>>

\* allocateTCH finds no channel.
noTCH ==
    /\ pc = "Start" /\ ~instigator /\ ~veryEarly
    /\ tells("ChannelRelease") /\ goto("Stray")
    /\ UNCHANGED <<instigator, veryEarly, gsm, timers, sip, saved, fifo, stop, up, link, keys, sw, answered>>

MTCCheckForCancel ==
    IF fifo = <<>> \/ Head(fifo) = "INVITE" THEN sip
    ELSE IF Head(fifo) = "CANCEL" THEN "MTDCanceling" ELSE "Fail"

\* The SIP half of a round before the call is answered; next is where an undisturbed
\* round goes on.  MTDSendCANCELOK is sent at once.
checksForCancel(next) ==
    /\ fifo' = IF fifo = <<>> THEN fifo ELSE Tail(fifo)
    /\ CASE MTCCheckForCancel = "MTDCanceling" ->
              /\ saved' = saved \union {"CANCEL"} /\ sip' = "Canceled"
              /\ sends("CANCELOK") /\ goto("Abort")
         [] MTCCheckForCancel = "Fail" -> sip' = "Fail" /\ UNCHANGED <<saved, sw>> /\ goto("Abort")
         [] OTHER -> goto(next) /\ UNCHANGED <<saved, sw>>
                     /\ sip' = IF gsm = "CallReceived" THEN "Proceeding" ELSE sip

\* MTCStarter, after updateGSMSignalling.  MTCSendTrying, which begins a round, sets the
\* state that the engine has already.
setupSIP ==
    /\ pc = "SetupSIP"
    /\ checksForCancel(IF gsm # "MTCConfirmed" THEN "Setup" ELSE IF veryEarly THEN "Mode" ELSE "Assign")
    /\ UNCHANGED <<instigator, veryEarly, gsm, timers, stop, up, ms, link, keys, answered>>

\* "Release from GSM side": the transaction stays in the table.
setupRelease ==
    /\ pc = "SetupRelease"
    /\ link' = "closed" /\ goto("Stray")
    /\ UNCHANGED <<instigator, veryEarly, gsm, timers, sip, saved, fifo, stop, up, ms, keys, sw, answered>>

controller == IF instigator THEN "MOCRing" ELSE "MTCAlert"

\* assignTCHF: nothing arrives on the old channel, and AssignmentCompleteHandler takes the
\* transaction up on the new one.
assigned ==
    /\ pc = "Assign" /\ up = <<>> /\ link = "up" /\ ms # "idle"
    /\ goto(controller)
    /\ UNCHANGED <<instigator, veryEarly, gsm, timers, sip, saved, fifo, stop, up, ms, link, keys, sw, answered>>

\* Nothing arrives there and the handset does not appear on the new channel either.
assignedNobody ==
    /\ pc = "Assign" /\ up = <<>> /\ (link # "up" \/ ms = "idle")
    /\ link' = "closed" /\ goto("Stray")
    /\ UNCHANGED <<instigator, veryEarly, gsm, timers, sip, saved, fifo, stop, up, ms, keys, sw, answered>>

\* Any frame on the old channel is a failure.  The transaction stays in the table.
assignmentFailed ==
    /\ pc = "Assign" /\ up # <<>>
    /\ up' = Tail(up) /\ tells("ChannelRelease")
    /\ forceSIPClearing("Stray")
    /\ UNCHANGED <<instigator, veryEarly, gsm, timers, stop, link, keys, answered>>

\* Very early assignment: the answer to ChannelModeModify.  An UnexpectedMessage carries the
\* ID of the transaction, which the dispatcher removes; the other exceptions do not.
modeAcknowledged ==
    /\ pc = "Mode" /\ up # <<>>
    /\ up' = Tail(up)
    /\ goto(CASE Head(up) = "ModeAck" -> controller
              [] Head(up) = "ModeNak" -> "Abort"
              [] Head(up) = "ERROR"   -> "Stray"
              [] OTHER                -> "Dropped")
    /\ IF Head(up) \in {"ModeAck", "ModeNak"} THEN UNCHANGED ms ELSE tells("ChannelRelease")
    /\ UNCHANGED <<instigator, veryEarly, gsm, timers, sip, saved, fifo, stop, link, keys, sw, answered>>

modeTimeout ==
    /\ pc = "Mode" /\ up = <<>>
    /\ tells("ChannelRelease") /\ goto("Stray")
    /\ UNCHANGED <<instigator, veryEarly, gsm, timers, sip, saved, fifo, stop, up, link, keys, sw, answered>>

(***************************************************************************)
(* MOCController.                                                          *)
(***************************************************************************)
MOCWaitForOK ==
    IF fifo = <<>> THEN IF sip = "Proceeding" THEN sip ELSE "Timeout"
    ELSE CASE Head(fifo) = "100" -> "Proceeding"
           [] Head(fifo) = "180" -> "Ringing"
           [] Head(fifo) = "200" -> "Active"
           [] Head(fifo) = "486" -> "Busy"
           [] OTHER              -> "Fail"

readsFifo == fifo' = IF fifo = <<>> THEN fifo ELSE Tail(fifo)

\* While the state is not CallReceived.
mocRing ==
    /\ pc = "MOCRingSIP"
    /\ \/ clearingGSM /\ goto("Abort") /\ UNCHANGED <<gsm, sip, fifo>>
       \/ /\ ~clearingGSM
          /\ sip' = MOCWaitForOK /\ readsFifo
          /\ gsm' = IF sip' \in {"Ringing", "Active"} THEN "CallReceived" ELSE gsm
          /\ goto(CASE sip' \in {"Busy", "Fail"} -> "Abort"
                    [] sip' = "Ringing"          -> "MOCAnswer"
                    [] sip' = "Active"           -> "MOCAnswered"
                    [] OTHER                     -> "MOCRing")
    /\ UNCHANGED <<instigator, veryEarly, timers, saved, stop, up, ms, link, keys, sw, answered>>

\* While the SIP state is not Active.
mocAnswer ==
    /\ pc = "MOCAnswer"
    /\ sip' = MOCWaitForOK /\ readsFifo
    /\ goto("MOCAnswerGSM")
    /\ UNCHANGED <<instigator, veryEarly, gsm, timers, saved, stop, up, ms, link, keys, sw, answered>>

mocAnswered ==
    /\ pc = "MOCAnswered"
    /\ IF ~clearingGSM /\ sip = "Active"
       THEN gsm' = "ConnectIndication" /\ setTimer("313") /\ tells("Connect") /\ goto("MOCConnect")
       ELSE /\ goto(IF clearingGSM \/ sip \in {"Busy", "Fail"} THEN "Abort" ELSE "MOCAnswer")
            /\ UNCHANGED <<gsm, timers, ms>>
    /\ UNCHANGED <<instigator, veryEarly, sip, saved, fifo, stop, up, link, keys, sw, answered>>

\* The handset has acknowledged: the third loop ends.
Faulty_mocConnected ==
    /\ pc = "MOCConnect"
    /\ goto("Talk")
    /\ UNCHANGED <<instigator, veryEarly, gsm, timers, sip, saved, fifo, stop, up, ms, link, keys, sw, answered>>

mocConnected ==
    /\ pc = "MOCConnect" /\ gsm = "Active"
    /\ goto("Talk")
    /\ UNCHANGED <<instigator, veryEarly, gsm, timers, sip, saved, fifo, stop, up, ms, link, keys, sw, answered>>

(***************************************************************************)
(* MTCController.                                                          *)
(***************************************************************************)

\* MTCSendOK, once the handset has connected, or the rest of a round.
mtcAlert ==
    /\ pc = "MTCAlertSIP"
    /\ CASE gsm = "Active" -> sip' = "Connecting" /\ sends("OK") /\ goto("MTCAck") /\ UNCHANGED <<saved, fifo>>
         [] gsm \notin {"Active", "CallReceived"} /\ SIPFinished -> goto("Abort") /\ UNCHANGED <<sip, saved, sw, fifo>>
         [] OTHER -> checksForCancel("MTCAlert")
    /\ answered' = IF sw = "ringing" /\ sw' = "up" THEN answered \union {"switch"} ELSE answered
    /\ UNCHANGED <<instigator, veryEarly, gsm, timers, stop, up, ms, link, keys>>

\* MTCWaitForACK, and OK again after its timeout.
mtcAck ==
    /\ pc = "MTCAckSIP"
    /\ readsFifo
    /\ CASE fifo = <<>> -> sip' = "Connecting" /\ sends("OK") /\ goto("MTCAck") /\ UNCHANGED <<saved, ms>>
         [] fifo # <<>> /\ Head(fifo) = "INVITE" -> goto("MTCAck") /\ UNCHANGED <<sip, saved, sw, ms>>
         [] fifo # <<>> /\ Head(fifo) = "ACK" ->
              sip' = "Active" /\ tells("ConnectAck") /\ goto("Talk") /\ UNCHANGED <<saved, sw>>
         [] fifo # <<>> /\ Head(fifo) = "CANCEL" ->
              /\ saved' = saved \union {"CANCEL"} /\ sip' = "Canceled"
              /\ sends("CANCELOK") /\ goto("Abort") /\ UNCHANGED ms
         [] OTHER -> sip' = "Fail" /\ goto("Abort") /\ UNCHANGED <<saved, sw, ms>>
    /\ answered' = IF sw = "ringing" /\ sw' = "up" THEN answered \union {"switch"} ELSE answered
    /\ UNCHANGED <<instigator, veryEarly, gsm, timers, stop, up, link, keys>>

(***************************************************************************)
(* callManagementLoop: the rounds of pollInCall.                           *)
(***************************************************************************)
Faulty_radioFailure ==
    /\ pc = "Talk" /\ link = "failed"
    /\ goto("Removed")
    /\ UNCHANGED <<instigator, veryEarly, gsm, timers, sip, saved, fifo, sw, stop, up, ms, link, keys, answered>>

radioFailure ==
    /\ pc = "Talk" /\ link = "failed"
    /\ forceSIPClearing("Removed")
    /\ UNCHANGED <<instigator, veryEarly, gsm, timers, stop, up, ms, link, keys, answered>>

\* MTDCheckBYE looks at the FIFO only while the engine is Active.
checksBYE == sip = "Active" /\ fifo # <<>>
\* With the comparison of the method turned round, a BYE is taken for a repeated ACK.
Faulty_MTDClearing == sip = "MTDClearing" \/ (checksBYE /\ Head(fifo) = "ACK")

MTDClearing == sip = "MTDClearing" \/ (checksBYE /\ Head(fifo) = "BYE")
GSMClearedOrClearing == pc = "TalkSIPCleared" \/ clearingGSM

Faulty_savedBYE == saved

savedBYE == IF checksBYE /\ MTDClearing THEN saved \union {"BYE"} ELSE saved

Faulty_disconnects == gsm' = "DisconnectIndication" /\ UNCHANGED timers /\ tells("Disconnect")

disconnects == gsm' = "DisconnectIndication" /\ setTimer("305") /\ tells("Disconnect")

updateSIPSignalling ==
    /\ pc \in {"TalkSIP", "TalkSIPCleared"}
    /\ IF checksBYE THEN fifo' = Tail(fifo) ELSE UNCHANGED fifo
    /\ saved' = savedBYE
    /\ CASE MTDClearing /\ ~GSMClearedOrClearing ->
              disconnects /\ sip' = "MTDClearing" /\ UNCHANGED sw
         [] MTDClearing /\ GSMClearedOrClearing ->
              sip' = "Cleared" /\ sends("BYEOK") /\ UNCHANGED <<gsm, timers, ms>>
         [] OTHER -> UNCHANGED <<gsm, timers, ms, sip, sw>>
    /\ goto(IF pc = "TalkSIPCleared" /\ sip' \in {"Cleared", "Canceled"} THEN "Removed" ELSE "TalkStop")
    /\ UNCHANGED <<instigator, veryEarly, stop, up, link, keys, answered>>

terminationRequested ==
    /\ pc = "TalkStop"
    /\ stop' = FALSE
    /\ IF stop THEN abortCall("Removed")
       ELSE goto("Talk") /\ UNCHANGED <<gsm, timers, sip, saved, fifo, sw, ms, link>>
    /\ UNCHANGED <<instigator, veryEarly, up, keys, answered>>

terminate ==
    /\ pc \in Talking /\ ~stop
    /\ stop' = TRUE
    /\ UNCHANGED <<instigator, veryEarly, pc, back, gsm, timers, sip, saved, fifo, up, ms, link, keys, sw, answered>>

clearDeadEntries ==
    /\ pc = "Stray" /\ dead
    /\ goto("Dropped")
    /\ UNCHANGED <<instigator, veryEarly, gsm, timers, sip, saved, fifo, stop, up, ms, link, keys, sw, answered>>

(***************************************************************************)
(* External: the handset.  MSSends are the messages it sends of its own    *)
(* accord or in answer, with the state before and after.                   *)
(***************************************************************************)
MSState == {"paged", "calling", "called", "confirmed", "alerting", "offered", "connected", "talking",
            "disconnecting", "toldDisconnect", "releasing", "toldRelease", "released", "idle"}
InCall == {"calling", "confirmed", "alerting", "offered", "talking"}

MSSends ==
    {<<"called", "CallConfirmed", "confirmed">>, <<"called", "ReleaseComplete", "released">>,
     <<"confirmed", "Alerting", "alerting">>, <<"alerting", "Connect", "offered">>,
     <<"connected", "ConnectAck", "talking">>, <<"toldDisconnect", "Release", "releasing">>,
     <<"toldRelease", "ReleaseComplete", "released">>}
    \union {<<s, "Disconnect", "disconnecting">> : s \in InCall}
    \union {<<s, "Detach", "idle">> : s \in InCall}

handsetSends ==
    /\ link = "up" /\ Len(up) < MaxUp /\ pc \notin Over \union {"Start"}
    /\ \E t \in MSSends :
          /\ ms = t[1] /\ up' = Append(up, t[2]) /\ ms' = t[3]
          /\ answered' = IF t[2] \in {"Connect", "ConnectAck"} THEN answered \union {"handset"} ELSE answered
    /\ UNCHANGED <<instigator, veryEarly, pc, back, gsm, timers, sip, saved, fifo, stop, link, keys, sw>>

handsetPressesKey ==
    /\ link = "up" /\ Len(up) < MaxUp /\ ms = "talking" /\ keys < MaxKeys
    /\ up' = Append(up, "StartDTMF") /\ keys' = keys + 1
    /\ UNCHANGED <<instigator, veryEarly, pc, back, gsm, timers, sip, saved, fifo, stop, ms, link, sw, answered>>

\* Its answer to AssignmentCommand when it cannot comply, or to ChannelModeModify.
handsetAnswersRR ==
    /\ link = "up" /\ Len(up) < MaxUp /\ ms # "idle" /\ pc \in {"Assign", "Mode"}
    /\ \E m \in IF pc = "Assign" THEN {"ERROR"} ELSE {"ModeAck", "ModeNak"} : up' = Append(up, m)
    /\ UNCHANGED <<instigator, veryEarly, pc, back, gsm, timers, sip, saved, fifo, stop, ms, link, keys, sw, answered>>

(***************************************************************************)
(* External: the radio link.  T3109 of the uplink runs out when it is      *)
(* lost, and the data link reports ERROR when a frame it sends is not      *)
(* acknowledged.  A handset that closes the data link takes the call's     *)
(* channel down with it: T3109 is then off.                                *)
(***************************************************************************)
linkLost ==
    /\ link = "up" /\ pc \notin Over
    /\ link' = "lost"
    /\ UNCHANGED <<instigator, veryEarly, pc, back, gsm, timers, sip, saved, fifo, stop, up, ms, keys, sw, answered>>

expireT3109 ==
    /\ link = "lost"
    /\ link' = "failed"
    /\ UNCHANGED <<instigator, veryEarly, pc, back, gsm, timers, sip, saved, fifo, stop, up, ms, keys, sw, answered>>

dataLinkError ==
    /\ link = "lost" /\ Len(up) < MaxUp
    /\ up' = Append(up, "ERROR")
    /\ UNCHANGED <<instigator, veryEarly, pc, back, gsm, timers, sip, saved, fifo, stop, ms, link, keys, sw, answered>>

handsetDropsLink ==
    /\ link = "up" /\ pc \notin Over \union {"Start"} /\ ms # "idle"
    /\ link' = "closed" /\ ms' = "idle"
    /\ UNCHANGED <<instigator, veryEarly, pc, back, gsm, timers, sip, saved, fifo, stop, up, keys, sw, answered>>

timerExpires(t) ==
    /\ timers[t] = "running" /\ pc \notin Over
    /\ timers' = [timers EXCEPT ![t] = "expired"]
    /\ UNCHANGED <<instigator, veryEarly, pc, back, gsm, sip, saved, fifo, stop, up, ms, link, keys, sw, answered>>

(***************************************************************************)
(* External: the switch.                                                   *)
(***************************************************************************)
SwitchState == {"idle", "ringing", "cancelled", "up", "hungup", "over"}

SwitchSends ==
    {<<"up", "BYE", "hungup">>} \union
    (IF instigator
     THEN {<<"ringing", "100", "ringing">>, <<"ringing", "180", "ringing">>, <<"ringing", "200", "up">>,
           <<"up", "200", "up">>, <<"ringing", "486", "over">>}
     ELSE {<<"ringing", "INVITE", "ringing">>, <<"ringing", "CANCEL", "cancelled">>, <<"up", "ACK", "up">>})

switchSends ==
    /\ Len(fifo) < MaxFifo /\ pc \notin Over \union {"Start"}
    /\ \E t \in SwitchSends :
          /\ sw = t[1] /\ fifo' = Append(fifo, t[2]) /\ sw' = t[3]
          /\ answered' = IF t[2] = "200" THEN answered \union {"switch"} ELSE answered
    /\ UNCHANGED <<instigator, veryEarly, pc, back, gsm, timers, sip, saved, stop, up, ms, link, keys>>

\* Timer E of the switch, until its request is answered.
switchRepeats ==
    /\ sw \in {"cancelled", "hungup"} /\ Len(fifo) < MaxFifo /\ pc \notin Over
    /\ fifo' = Append(fifo, IF sw = "hungup" THEN "BYE" ELSE "CANCEL")
    /\ UNCHANGED <<instigator, veryEarly, pc, back, gsm, timers, sip, saved, stop, up, ms, link, keys, sw, answered>>

-----------------------------------------------------------------------------
Init ==
    /\ instigator \in BOOLEAN /\ veryEarly \in BOOLEAN
    /\ pc = "Start" /\ back = <<>>
    /\ gsm = IF instigator THEN "MOCInitiated" ELSE "AnsweredPaging"
    /\ timers = [t \in Q931Timers |-> "off"]
    /\ sip = IF instigator THEN "Null" ELSE "Proceeding"
    /\ saved = {} /\ fifo = <<>> /\ stop = FALSE
    /\ up = <<>> /\ ms = (IF instigator THEN "calling" ELSE "paged") /\ link = "up" /\ keys = 0
    /\ sw = "ringing" /\ answered = {}

Starter == MOCStarter \/ MTCStarter \/ noTCH \/ setupSIP \/ setupRelease
Assignment == assigned \/ assignedNobody \/ assignmentFailed \/ modeAcknowledged \/ modeTimeout
MOCController == mocRing \/ mocAnswer \/ mocAnswered \/ mocConnected
MTCController == mtcAlert \/ mtcAck
callManagementLoop == radioFailure \/ updateSIPSignalling \/ terminationRequested
SIPWaits == modWaits \/ modResends \/ MODWaitFor487
Thread == \/ updateGSMSignalling \/ abortAndRemoveCall \/ Starter \/ Assignment
          \/ MOCController \/ MTCController \/ callManagementLoop \/ SIPWaits

External == \/ handsetSends \/ handsetPressesKey \/ handsetAnswersRR \/ linkLost \/ expireT3109
            \/ dataLinkError \/ handsetDropsLink \/ switchSends \/ switchRepeats
            \/ \E t \in Q931Timers : timerExpires(t)

Next == Thread \/ External \/ terminate \/ clearDeadEntries

Spec == Init /\ [][Next]_vars

\* The thread runs, the clock goes on, and the switch repeats a request until it is answered.
\* Nothing is asked of the handset, and the switch need not answer.
FairSpec ==
    /\ Spec /\ WF_vars(Thread) /\ WF_vars(expireT3109) /\ WF_vars(switchRepeats)
    /\ \A t \in Q931Timers : WF_vars(timerExpires(t))

-----------------------------------------------------------------------------
(***************************************************************************)
(* Properties.                                                             *)
(***************************************************************************)

\* Every variable has a value of its type, and no two of the T3xx timers are on at once: one
\* left running by the step before would abort the call in the middle of the next.
TypeOK ==
    /\ instigator \in BOOLEAN /\ veryEarly \in BOOLEAN /\ stop \in BOOLEAN
    /\ pc \in PC /\ back \in Seq(PC)
    /\ gsm \in CallState /\ sip \in SIPState
    /\ timers \in [Q931Timers -> {"off", "running", "expired"}]
    /\ \A t, u \in Q931Timers : timers[t] # "off" /\ timers[u] # "off" => t = u
    /\ saved \subseteq {"BYE", "CANCEL", "ERROR"}
    /\ ms \in MSState /\ link \in {"up", "lost", "failed", "closed"} /\ sw \in SwitchState
    /\ keys \in 0 .. MaxKeys /\ answered \subseteq {"handset", "switch"}

\* A controller removes the transaction only when the SIP side is finished: the switch was
\* told, or told us, and the answer was waited for.  The controllers have some twenty ways
\* out, and abortAndRemoveCall is not on all of them.
RemovedIsFinished == pc = "Removed" => SIPFinished

\* MTDSendBYEOK never finds mBYE unset: a handset that sends Release was told to disconnect
\* because of a BYE.
NeverAborts == pc # "Crash"

\* While the thread waits for the handset to confirm, to connect, to acknowledge or to go
\* through with clearing, a timer bounds the wait; only a call of the handset that rings at
\* the other end has none.
WaitingIsTimed ==
    /\ pc \in Looping
    /\ gsm \in {"CallPresent", "MTCConfirmed", "ConnectIndication", "ReleaseRequest", "DisconnectIndication"}
         \/ (gsm = "CallReceived" /\ ~instigator)
    => \E t \in Q931Timers : timers[t] # "off"

\* The phase of the call, for CallPromise.
clearing == pc \in {"Wait", "Wait487", "Abort"} \/ clearingGSM \/ gsm = "Null" \/ SIPFinished
phaseOf ==
    CASE pc \in Over -> "over"
      [] pc \notin Over /\ clearing -> "clearing"
      [] pc \in Talking /\ ~clearing -> "carried"
      [] OTHER -> "setup"

P == INSTANCE CallPromise WITH Parties <- {"handset", "switch"}, phase <- phaseOf, answered <- answered

\* The controllers implement CallPromise: no message that comes late, in the wrong order or
\* twice takes a call back a phase, a call is carried only when both parties answered, and
\* one that is being cleared ends.
PromiseKept == P!Spec

\* A hang-up of the handset ends the call, and so does the loss of its link while the call
\* is carried, whatever handset and switch do next.
HandsetEnds == (ms = "disconnecting" \/ (pc = "Talk" /\ link = "lost")) ~> pc \in Over

\* When the caller cancels, or the other end hangs up or refuses, the call ends, whatever
\* the handset does next.
SwitchEnds == (pc # "Start" /\ sw \in {"cancelled", "hungup", "over"}) ~> pc \in Over

\* callManagementDispatchGSM returns true only if "the call has been cleared and the channel
\* released", and the controllers then remove the transaction: the handset was told to
\* leave the channel, or has lost or left it.
ReleasedWhenRemoved == pc = "Removed" => ms = "idle" \/ link # "up"
=============================================================================
