----------------------------- MODULE Call_proofs -----------------------------
(***************************************************************************)
(* Theorems about Call, for every length of the queues and number of keys: *)
(* a transaction is removed only when its SIP side is finished, the        *)
(* program never meets its failed assertion, and every wait for the        *)
(* handset is timed.                                                       *)
(*                                                                         *)
(* The inductive invariant has three parts, each kept by a section below:  *)
(* where a thread goes on after a wait (Waits, with RemovedIsFinished),    *)
(* that a Release has a BYE behind it (ByeSaved), and the timers (Timed).  *)
(* The first needs the second: without a saved BYE the thread would stop.  *)
(***************************************************************************)
EXTENDS Call, SequenceTheorems, TLAPS

UpMessage == {"CallConfirmed", "Alerting", "Connect", "ConnectAck", "Disconnect", "Release",
              "ReleaseComplete", "Detach", "StartDTMF", "ERROR", "ModeAck", "ModeNak"}
MOCPart == {"MOCRing", "MOCRingSIP", "MOCAnswer", "MOCAnswerGSM", "MOCAnswered", "MOCConnect"}

\* Where a thread may go on after it waited in the SIP engine.
Destination(p) ==
    /\ p \in PC \ {"Wait", "Wait487", "Crash"}
    /\ p \in MOCPart => instigator

\* The thread never meets the failed assertion, and waits only where it goes on to work: after
\* the wait for the 487 nothing is removed at once.
Waits ==
    /\ pc \in PC \ {"Crash"} /\ back \in Seq(PC)
    /\ pc \in MOCPart => instigator
    /\ pc = "Wait" =>
          \/ Len(back) = 1 /\ Destination(back[1])
          \/ /\ Len(back) = 2 /\ back[1] = "Wait487"
             /\ Destination(back[2]) /\ back[2] # "Removed"
    /\ pc = "Wait487" => Len(back) = 1 /\ Destination(back[1]) /\ back[1] # "Removed"

Has(s, m) == \E i \in 1 .. Len(s) : s[i] = m

\* A handset sends Release when it was told to disconnect, for which a BYE was saved.
ByeSaved ==
    /\ up \in Seq(UpMessage)
    /\ sip = "MTDClearing" => "BYE" \in saved
    /\ ms = "toldDisconnect" => "BYE" \in saved
    /\ Has(up, "Release") => "BYE" \in saved

\* WaitingIsTimed, wherever the thread is.
AwaitsHandset ==
    \/ gsm \in {"CallPresent", "MTCConfirmed", "ConnectIndication", "ReleaseRequest",
                "DisconnectIndication"}
    \/ gsm = "CallReceived" /\ ~instigator
On == \E t \in Q931Timers : timers[t] # "off"
Timed ==
    /\ timers \in [Q931Timers -> {"off", "running", "expired"}]
    /\ instigator \in BOOLEAN
    /\ AwaitsHandset => On

IInv == Waits /\ RemovedIsFinished /\ ByeSaved /\ Timed
-----------------------------------------------------------------------------
LEMMA HeadIsFirst == ASSUME NEW S, NEW s \in Seq(S), s # <<>> PROVE Head(s) = s[1] /\ Len(s) >= 1
  BY HeadTailProperties

LEMMA Pair ==
    ASSUME NEW S, NEW a \in S, NEW b \in S
    PROVE  /\ <<a>> \o <<b>> \in Seq(S) /\ Len(<<a>> \o <<b>>) = 2
           /\ (<<a>> \o <<b>>)[1] = a /\ (<<a>> \o <<b>>)[2] = b
<1>1. <<a>> \in Seq(S) /\ <<b>> \in Seq(S) /\ Len(<<a>>) = 1 /\ Len(<<b>>) = 1
      /\ <<a>>[1] = a /\ <<b>>[1] = b
  OBVIOUS
<1>2. 1 \in 1 .. 2 /\ 2 \in 1 .. 2 /\ 1 + 1 = 2 /\ 2 - 1 = 1 /\ 1 <= 1 /\ ~(2 <= 1) OBVIOUS
<1> QED BY <1>1, <1>2, ConcatProperties

LEMMA TailHas ==
    ASSUME NEW S, NEW s \in Seq(S), s # <<>>, NEW m
    PROVE  /\ Tail(s) \in Seq(S) /\ Head(s) \in S
           /\ Has(Tail(s), m) => Has(s, m)
           /\ Head(s) = m => Has(s, m)
<1>1. /\ Len(s) \in Nat /\ Len(s) >= 1 /\ Head(s) = s[1] /\ Head(s) \in S
      /\ Tail(s) \in Seq(S) /\ Len(Tail(s)) = Len(s) - 1
      /\ \A i \in 1 .. Len(Tail(s)) : Tail(s)[i] = s[i + 1]
  BY HeadTailProperties
<1>2. ASSUME Has(Tail(s), m) PROVE Has(s, m)
  <2>1. PICK i \in 1 .. Len(Tail(s)) : Tail(s)[i] = m BY <1>2 DEF Has
  <2>2. i + 1 \in 1 .. Len(s) /\ s[i + 1] = m BY <1>1, <2>1
  <2> QED BY <2>2 DEF Has
<1>3. ASSUME Head(s) = m PROVE Has(s, m)
  <2>1. 1 \in 1 .. Len(s) /\ s[1] = m BY <1>1, <1>3
  <2> QED BY <2>1 DEF Has
<1> QED BY <1>1, <1>2, <1>3

LEMMA AppendHas ==
    ASSUME NEW S, NEW s \in Seq(S), NEW x \in S, NEW m
    PROVE  /\ Append(s, x) \in Seq(S)
           /\ Has(Append(s, x), m) => Has(s, m) \/ x = m
<1>1. /\ Append(s, x) \in Seq(S) /\ Len(Append(s, x)) = Len(s) + 1 /\ Len(s) \in Nat
      /\ \A i \in 1 .. Len(s) : Append(s, x)[i] = s[i]
      /\ Append(s, x)[Len(s) + 1] = x
  BY AppendProperties
<1>2. ASSUME Has(Append(s, x), m), x # m PROVE Has(s, m)
  <2>1. PICK i \in 1 .. Len(s) + 1 : Append(s, x)[i] = m BY <1>1, <1>2 DEF Has
  <2>2. i # Len(s) + 1 BY <1>1, <1>2, <2>1
  <2>3. i \in 1 .. Len(s) /\ s[i] = m BY <1>1, <2>1, <2>2
  <2> QED BY <2>3 DEF Has
<1> QED BY <1>1, <1>2
-----------------------------------------------------------------------------
(***************************************************************************)
(* The waits, and what the SIP side is when a transaction is removed.      *)
(***************************************************************************)
Flow == Waits /\ RemovedIsFinished

\* A step that goes on without a wait.
GoesOn ==
    /\ back' = back /\ instigator' = instigator
    /\ pc' \in PC \ {"Wait", "Wait487", "Crash"}
    /\ pc' \in MOCPart => instigator
    /\ pc' = "Removed" => sip' \in {"Cleared", "Canceled"}

LEMMA GoingOn == ASSUME Flow, GoesOn PROVE Flow'
  BY Zenon DEF Flow, GoesOn, Waits, RemovedIsFinished, SIPFinished

LEMMA Clearing1 ==
    ASSUME Flow, NEW d, Destination(d), NEW msg, clears(msg, <<d>>), instigator' = instigator
    PROVE  Flow'
<1>1. pc' = "Wait" /\ back' = <<d>> BY DEF clears
<1>2. d \in PC /\ (d \in MOCPart => instigator) /\ d \notin {"Wait", "Wait487", "Crash"}
  BY DEF Destination
<1>3. Len(back') = 1 /\ back'[1] = d /\ back' \in Seq(PC) BY <1>1, <1>2
<1>4. Destination(back[1])' BY <1>2, <1>3, Zenon DEF Destination
<1>5. pc' \in PC \ {"Crash"} /\ pc' \notin MOCPart BY <1>1 DEF PC, Controller, MOCPart
<1> QED BY <1>1, <1>3, <1>4, <1>5, Zenon DEF Flow, Waits, RemovedIsFinished

LEMMA Clearing2 ==
    ASSUME Flow, NEW d, Destination(d), d # "Removed", NEW msg, clears(msg, <<"Wait487">> \o <<d>>),
           instigator' = instigator
    PROVE  Flow'
<1>1. pc' = "Wait" /\ back' = <<"Wait487">> \o <<d>> BY DEF clears
<1>2. d \in PC /\ "Wait487" \in PC BY DEF Destination, PC
<1>3. Len(back') = 2 /\ back'[1] = "Wait487" /\ back'[2] = d /\ back' \in Seq(PC)
  BY <1>1, <1>2, Pair
<1>4. Destination(back[2])' BY <1>3, Zenon DEF Destination
<1>5. pc' \in PC \ {"Crash"} /\ pc' \notin MOCPart BY <1>1 DEF PC, Controller, MOCPart
<1> QED BY <1>1, <1>3, <1>4, <1>5, Zenon DEF Flow, Waits, RemovedIsFinished

LEMMA Forcing ==
    ASSUME Flow, NEW d, Destination(d), forceSIPClearing(d), instigator' = instigator
    PROVE  Flow'
<1>1. CASE SIPFinished /\ goto(d) /\ UNCHANGED <<sip, saved, sw, fifo>>
  <2>1. GoesOn BY <1>1, Zenon DEF GoesOn, goto, SIPFinished, Destination
  <2> QED BY <2>1, GoingOn
<1>2. CASE ~SIPFinished /\ clears(IF sip = "Active" THEN "BYE" ELSE cancelOrError, <<d>>)
  BY <1>2, Clearing1
<1> QED BY <1>1, <1>2 DEF forceSIPClearing

LEMMA Ways ==
    ASSUME NEW p \in Looping, p \in MOCPart => instigator
    PROVE  /\ Destination(after(p)) /\ after(p) # "Removed"
           /\ Destination(whenCleared(p)) /\ whenCleared(p) # "Removed"
<1>1. /\ p = "Setup" => after(p) = "SetupSIP"
      /\ p = "MOCRing" => after(p) = "MOCRingSIP"
      /\ p = "MOCAnswerGSM" => after(p) = "MOCAnswered"
      /\ p = "MOCConnect" => after(p) = "MOCConnect"
      /\ p = "MTCAlert" => after(p) = "MTCAlertSIP"
      /\ p = "MTCAck" => after(p) = "MTCAckSIP"
      /\ p = "Talk" => after(p) = "TalkSIP"
  BY Zenon DEF after
<1>2. whenCleared(p) \in {"SetupRelease", "TalkSIPCleared", "Abort"} BY Zenon DEF whenCleared
<1>3. after(p) \in {"SetupSIP", "MOCRingSIP", "MOCAnswered", "MOCConnect", "MTCAlertSIP", "MTCAckSIP", "TalkSIP"}
  BY <1>1 DEF Looping
<1>4. after(p) \in {"MOCRingSIP", "MOCAnswered", "MOCConnect"} => p \in MOCPart
  BY <1>1, SMT DEF Looping, MOCPart
<1>5. Destination(whenCleared(p)) /\ whenCleared(p) # "Removed"
  BY <1>2, SMT DEF Destination, PC, Controller, Talking, Over, MOCPart
<1>6. after(p) \in PC \ {"Wait", "Wait487", "Crash"} /\ after(p) # "Removed"
  BY <1>3, SMT DEF PC, Controller, Talking, Over
<1>7. after(p) \in MOCPart => after(p) \in {"MOCRingSIP", "MOCAnswered", "MOCConnect"}
  BY <1>3, SMT DEF MOCPart
<1> QED BY <1>4, <1>5, <1>6, <1>7, Zenon DEF Destination

LEMMA GoingTo ==
    ASSUME Flow, NEW d, Destination(d), d # "Removed", goto(d), instigator' = instigator
    PROVE  Flow'
<1>1. GoesOn BY Zenon DEF GoesOn, goto, Destination
<1> QED BY <1>1, GoingOn

LEMMA GSMFlow == ASSUME Flow, ByeSaved, updateGSMSignalling PROVE Flow'
<1>0. /\ pc \in Looping /\ instigator' = instigator
      /\ pc \in MOCPart => instigator
  BY Zenon DEF updateGSMSignalling, Flow, Waits
<1>1. /\ Destination(after(pc)) /\ after(pc) # "Removed"
      /\ Destination(whenCleared(pc)) /\ whenCleared(pc) # "Removed"
  BY <1>0, Ways
<1>2. CASE goto(after(pc)) \/ goto(whenCleared(pc)) BY <1>0, <1>1, <1>2, GoingTo
<1>3. CASE forceSIPClearing(whenCleared(pc)) BY <1>0, <1>1, <1>3, Forcing
<1>4. ASSUME NEW m, disconnectMessage(m) PROVE Flow'
  <2>1. CASE clears("BYE", <<after(pc)>>) BY <2>1, <1>0, <1>1, Clearing1
  <2>2. CASE instigator /\ clears(cancelOrError, <<"Wait487">> \o <<whenCleared(pc)>>)
    BY <2>2, <1>0, <1>1, Clearing2
  <2>3. CASE ~instigator /\ clears(cancelOrError, <<>> \o <<whenCleared(pc)>>)
    <3>1. <<>> \o <<whenCleared(pc)>> = <<whenCleared(pc)>> OBVIOUS
    <3>2. clears(cancelOrError, <<whenCleared(pc)>>) BY <2>3, <3>1
    <3> QED BY <3>2, <1>0, <1>1, Clearing1
  <2> QED BY <1>4, <2>1, <2>2, <2>3, Zenon DEF disconnectMessage
<1>5. ASSUME up # <<>>, releaseMessage(Head(up)) PROVE Flow'
  <2>1. Head(up) = "Release" BY <1>5 DEF releaseMessage
  <2>2. "BYE" \in saved BY <1>5, <2>1, TailHas DEF ByeSaved
  <2>3. goto(whenCleared(pc)) BY <1>5, <2>2 DEF releaseMessage
  <2> QED BY <2>3, <1>2
<1>6. ASSUME up # <<>>, callManagementDispatchGSM(Head(up)) PROVE Flow'
  <2>1. \/ goto(after(pc)) \/ goto(whenCleared(pc)) \/ forceSIPClearing(whenCleared(pc))
        \/ disconnectMessage(Head(up)) \/ releaseMessage(Head(up))
    BY <1>6, Zenon DEF callManagementDispatchGSM, callSetupMessage, releaseCompleteMessage, detachMessage,
          startDTMFMessage, otherMessage
  <2> QED BY <2>1, <1>2, <1>3, <1>4, <1>5, <1>6
<1> QED BY <1>2, <1>3, <1>6 DEF updateGSMSignalling, abortCall

LEMMA Controller1 == ASSUME Flow, Starter PROVE Flow'
<1>1. CASE MOCStarter \/ MTCStarter \/ noTCH \/ setupRelease
  <2>1. GoesOn
    BY <1>1, Zenon DEF MOCStarter, MTCStarter, noTCH, setupRelease, GoesOn, goto, PC, Controller, Over, MOCPart
  <2> QED BY <2>1, GoingOn
<1>2. CASE setupSIP
  <2>1. GoesOn
    BY <1>2, Zenon DEF setupSIP, checksForCancel, GoesOn, goto, PC, Controller, MOCPart
  <2> QED BY <2>1, GoingOn
<1> QED BY <1>1, <1>2 DEF Starter

LEMMA Controller2 == ASSUME Flow, Assignment PROVE Flow'
<1>0. controller \in {"MOCRing", "MTCAlert"} /\ (controller = "MOCRing" => instigator)
  BY Zenon DEF controller
<1>1. CASE assigned
  <2>1. GoesOn BY <1>0, <1>1, Zenon DEF assigned, GoesOn, goto, PC, Controller, MOCPart
  <2> QED BY <2>1, GoingOn
<1>2. CASE assignedNobody \/ modeTimeout
  <2>1. GoesOn BY <1>2, Zenon DEF assignedNobody, modeTimeout, GoesOn, goto, PC, Over, MOCPart
  <2> QED BY <2>1, GoingOn
<1>3. CASE assignmentFailed
  <2>1. Destination("Stray") BY Zenon DEF Destination, PC, Over, MOCPart
  <2>2. forceSIPClearing("Stray") /\ instigator' = instigator BY <1>3, Zenon DEF assignmentFailed
  <2> QED BY <2>1, <2>2, Forcing
<1>4. CASE modeAcknowledged
  <2>1. /\ back' = back /\ instigator' = instigator
        /\ pc' = controller \/ pc' \in {"Abort", "Stray", "Dropped"}
    BY <1>4, Zenon DEF modeAcknowledged, goto
  <2>2. GoesOn BY <1>0, <2>1, Zenon DEF GoesOn, PC, Controller, Over, MOCPart
  <2> QED BY <2>2, GoingOn
<1> QED BY <1>1, <1>2, <1>3, <1>4, Zenon DEF Assignment

LEMMA Controller3 == ASSUME Flow, MOCController PROVE Flow'
<1>1. CASE mocRing
  <2>1. /\ back' = back /\ instigator' = instigator /\ pc \in MOCPart
        /\ pc' \in {"Abort", "MOCRing", "MOCAnswer", "MOCAnswered"}
    BY <1>1, Zenon DEF mocRing, goto, MOCPart
  <2>2. GoesOn BY <2>1, Zenon DEF GoesOn, PC, Controller, MOCPart, Flow, Waits
  <2> QED BY <2>2, GoingOn
<1>2. CASE mocAnswer \/ mocAnswered \/ mocConnected
  <2>1. /\ back' = back /\ instigator' = instigator /\ pc \in MOCPart
        /\ pc' \in {"Abort", "MOCAnswer", "MOCAnswerGSM", "MOCConnect", "Talk"}
    BY <1>2, Zenon DEF mocAnswer, mocAnswered, mocConnected, goto, MOCPart
  <2>2. GoesOn BY <2>1, Zenon DEF GoesOn, PC, Controller, Talking, MOCPart, Flow, Waits
  <2> QED BY <2>2, GoingOn
<1> QED BY <1>1, <1>2, Zenon DEF MOCController

LEMMA Controller4 == ASSUME Flow, MTCController PROVE Flow'
<1>1. CASE mtcAlert
  <2>1. /\ back' = back /\ instigator' = instigator
        /\ pc' \in {"Abort", "MTCAlert", "MTCAck"}
    BY <1>1, Zenon DEF mtcAlert, checksForCancel, goto
  <2>2. GoesOn BY <2>1, Zenon DEF GoesOn, PC, Controller, MOCPart
  <2> QED BY <2>2, GoingOn
<1>2. CASE mtcAck
  <2>1. /\ back' = back /\ instigator' = instigator
        /\ pc' \in {"Abort", "MTCAck", "Talk"}
    BY <1>2, Zenon DEF mtcAck, goto
  <2>2. GoesOn BY <2>1, Zenon DEF GoesOn, PC, Controller, Talking, MOCPart
  <2> QED BY <2>2, GoingOn
<1> QED BY <1>1, <1>2, Zenon DEF MTCController

LEMMA LoopFlow == ASSUME Flow, callManagementLoop PROVE Flow'
<1>0. Destination("Removed") BY Zenon DEF Destination, PC, Over, MOCPart
<1>1. CASE radioFailure
  <2>1. forceSIPClearing("Removed") /\ instigator' = instigator BY <1>1, Zenon DEF radioFailure
  <2> QED BY <1>0, <2>1, Forcing
<1>2. CASE updateSIPSignalling
  <2>1. /\ back' = back /\ instigator' = instigator
        /\ pc' \in {"Removed", "TalkStop"} /\ (pc' = "Removed" => sip' \in {"Cleared", "Canceled"})
    BY <1>2, Zenon DEF updateSIPSignalling, goto
  <2>2. GoesOn BY <2>1, Zenon DEF GoesOn, PC, Talking, Over, MOCPart
  <2> QED BY <2>2, GoingOn
<1>3. CASE terminationRequested
  <2>1. instigator' = instigator /\ (goto("Talk") \/ forceSIPClearing("Removed"))
    BY <1>3, Zenon DEF terminationRequested, abortCall
  <2>2. Destination("Talk") BY Zenon DEF Destination, PC, Talking, MOCPart
  <2> QED BY <1>0, <2>1, <2>2, Forcing, GoingTo
<1> QED BY <1>1, <1>2, <1>3, Zenon DEF callManagementLoop

LEMMA AbortFlow == ASSUME Flow, abortAndRemoveCall PROVE Flow'
<1>1. Destination("Removed") BY Zenon DEF Destination, PC, Over, MOCPart
<1>2. forceSIPClearing("Removed") /\ instigator' = instigator
  BY Zenon DEF abortAndRemoveCall, abortCall
<1> QED BY <1>1, <1>2, Forcing

LEMMA WaitFlow == ASSUME Flow, SIPWaits PROVE Flow'
<1>0. back \in Seq(PC) /\ instigator' = instigator
  BY Zenon DEF Flow, Waits, SIPWaits, modWaits, modResends, MODWaitFor487
<1>1. CASE modWaits
  <2>1. pc = "Wait" /\ pc' = Head(back) /\ back' = Tail(back) /\ sip' \in {"Cleared", "Canceled"}
    BY <1>1, Zenon DEF modWaits
  <2>2. CASE Len(back) = 1 /\ Destination(back[1])
    <3>1. Head(back) = back[1] /\ Tail(back) \in Seq(PC) BY <1>0, <2>2
    <3>2. pc' \in PC \ {"Wait", "Wait487", "Crash"} /\ (pc' \in MOCPart => instigator) /\ back' \in Seq(PC)
      BY <2>1, <2>2, <3>1, Zenon DEF Destination
    <3> QED BY <1>0, <2>1, <3>2, Zenon DEF Flow, Waits, RemovedIsFinished, SIPFinished
  <2>3. CASE Len(back) = 2 /\ back[1] = "Wait487" /\ Destination(back[2]) /\ back[2] # "Removed"
    <3>1. /\ Head(back) = "Wait487" /\ Tail(back) \in Seq(PC) /\ Len(Tail(back)) = 1
          /\ Tail(back)[1] = back[2]
      BY <1>0, <2>3
    <3>2. Destination(back[1])' BY <1>0, <2>1, <2>3, <3>1, Zenon DEF Destination
    <3>3. back'[1] # "Removed" /\ Len(back') = 1 BY <2>1, <2>3, <3>1
    <3>4. pc' = "Wait487" /\ pc' \in PC \ {"Crash"} /\ pc' \notin MOCPart BY <2>1, <3>1 DEF PC, MOCPart
    <3> QED BY <2>1, <3>1, <3>2, <3>3, <3>4, Zenon DEF Flow, Waits, RemovedIsFinished
  <2> QED BY <2>1, <2>2, <2>3, Zenon DEF Flow, Waits
<1>2. CASE modResends
  <2>1. UNCHANGED <<pc, back, sip, instigator>> BY <1>2, Zenon DEF modResends
  <2> QED BY <2>1, Zenon DEF Flow, Waits, RemovedIsFinished, SIPFinished, Destination
<1>3. CASE MODWaitFor487
  <2>1. pc = "Wait487" /\ pc' = Head(back) /\ back' = Tail(back) BY <1>3, Zenon DEF MODWaitFor487
  <2>2. Len(back) = 1 /\ Destination(back[1]) /\ back[1] # "Removed" BY <2>1, Zenon DEF Flow, Waits
  <2>3. Head(back) = back[1] /\ Tail(back) \in Seq(PC) BY <1>0, <2>2, HeadTailProperties
  <2>4. /\ pc' \in PC \ {"Wait", "Wait487", "Crash"} /\ pc' # "Removed"
        /\ (pc' \in MOCPart => instigator) /\ back' \in Seq(PC)
    BY <2>1, <2>2, <2>3, Zenon DEF Destination
  <2> QED BY <1>0, <2>1, <2>4, Zenon DEF Flow, Waits, RemovedIsFinished
<1> QED BY <1>1, <1>2, <1>3, Zenon DEF SIPWaits

LEMMA OtherFlow ==
    ASSUME Flow, External \/ terminate \/ clearDeadEntries \/ UNCHANGED vars
    PROVE  Flow'
<1>1. CASE clearDeadEntries
  <2>1. GoesOn BY <1>1, Zenon DEF clearDeadEntries, GoesOn, goto, PC, Over, MOCPart
  <2> QED BY <2>1, GoingOn
<1>2. CASE External \/ terminate \/ UNCHANGED vars
  <2>1. UNCHANGED <<pc, back, sip, instigator>>
    BY <1>2, Zenon DEF External, handsetSends, handsetPressesKey, handsetAnswersRR, linkLost, expireT3109,
          dataLinkError, handsetDropsLink, switchSends, switchRepeats, timerExpires, terminate, vars
  <2> QED BY <2>1, Zenon DEF Flow, Waits, RemovedIsFinished, SIPFinished, Destination
<1> QED BY <1>1, <1>2

LEMMA FlowStays == ASSUME Flow, ByeSaved, [Next]_vars PROVE Flow'
  BY GSMFlow, AbortFlow, Controller1, Controller2, Controller3, Controller4, LoopFlow, WaitFlow, OtherFlow
     DEF Next, Thread
-----------------------------------------------------------------------------
(***************************************************************************)
(* The BYE behind a Release.                                               *)
(***************************************************************************)

\* A step that takes no message from the handset's side, or the first one, and tells the
\* handset to disconnect only when a BYE is saved.
KeepsBye ==
    /\ up' = up \/ (up # <<>> /\ up' = Tail(up))
    /\ "BYE" \in saved => "BYE" \in saved'
    /\ sip' = "MTDClearing" => sip = "MTDClearing" \/ "BYE" \in saved'
    /\ ms' = "toldDisconnect" => ms = "toldDisconnect" \/ "BYE" \in saved'

LEMMA KeepingBye == ASSUME ByeSaved, KeepsBye PROVE ByeSaved'
<1>1. up' \in Seq(UpMessage) /\ (Has(up', "Release") => Has(up, "Release"))
  BY TailHas DEF KeepsBye, ByeSaved
<1>2. Has(up, "Release")' => Has(up, "Release") BY <1>1 DEF Has
<1> QED BY <1>1, <1>2, Zenon DEF KeepsBye, ByeSaved

LEMMA Telling ==
    ASSUME NEW m, m # "Disconnect", tells(m), ms' = "toldDisconnect" PROVE ms = "toldDisconnect"
<1>1. Told(m) \in {"idle", "released", "toldRelease", "called", "connected", "talking"} \/ Told(m) = ms
  BY Zenon DEF Told
<1> QED BY <1>1 DEF tells

LEMMA GSMClearingTells ==
    ASSUME forceGSMClearing, ms' = "toldDisconnect" PROVE ms = "toldDisconnect"
  BY Telling DEF forceGSMClearing

\* What clearing the SIP side does to the saved messages and to the state of the engine.
SavesMore == ("BYE" \in saved => "BYE" \in saved') /\ (sip' = "MTDClearing" => sip = "MTDClearing")

LEMMA ClearsSaves == ASSUME NEW msg, NEW next, clears(msg, next) PROVE SavesMore
  BY DEF clears, SavesMore

LEMMA ForceSaves == ASSUME NEW next, forceSIPClearing(next) PROVE SavesMore
<1>1. CASE SIPFinished /\ goto(next) /\ UNCHANGED <<sip, saved, sw, fifo>> BY <1>1 DEF SavesMore
<1>2. CASE ~SIPFinished /\ clears(IF sip = "Active" THEN "BYE" ELSE cancelOrError, <<next>>)
  BY <1>2, ClearsSaves
<1> QED BY <1>1, <1>2 DEF forceSIPClearing

LEMMA CheckSaves == ASSUME NEW next, checksForCancel(next) PROVE SavesMore
<1>1. \/ saved' = saved \union {"CANCEL"} /\ sip' = "Canceled"
      \/ saved' = saved /\ (sip' \in {"Fail", "Proceeding"} \/ sip' = sip)
  BY Zenon DEF checksForCancel
<1> QED BY <1>1 DEF SavesMore

LEMMA GSMKeepsBye == ASSUME ByeSaved, updateGSMSignalling PROVE KeepsBye
<1>1. CASE SavesMore /\ UNCHANGED <<up, ms>> BY <1>1 DEF SavesMore, KeepsBye
<1>2. CASE SavesMore /\ up # <<>> /\ up' = Tail(up) /\ (ms' = "toldDisconnect" => ms = "toldDisconnect")
  BY <1>2 DEF SavesMore, KeepsBye
<1>3. CASE abortCall(whenCleared(pc)) /\ UNCHANGED up
  <2>1. SavesMore BY <1>3, ForceSaves DEF abortCall
  <2>2. ms' = "toldDisconnect" => ms = "toldDisconnect" BY <1>3, GSMClearingTells DEF abortCall
  <2> QED BY <1>3, <2>1, <2>2, Zenon DEF SavesMore, KeepsBye
<1>4. CASE noSIP /\ UNCHANGED <<up, ms>>
  <2>1. SavesMore BY <1>4 DEF noSIP, SavesMore
  <2> QED BY <1>1, <1>4, <2>1
<1>5. ASSUME NEW m, callManagementDispatchGSM(m), up # <<>>, up' = Tail(up) PROVE KeepsBye
  <2>1. CASE callSetupMessage(m) \/ otherMessage(m)
    <3>1. noSIP /\ UNCHANGED ms BY <2>1, Zenon DEF callSetupMessage, otherMessage
    <3>2. SavesMore BY <3>1 DEF noSIP, SavesMore
    <3> QED BY <1>2, <1>5, <3>1, <3>2
  <2>2. CASE disconnectMessage(m)
    <3>1. tells("Release") BY <2>2 DEF disconnectMessage
    <3>2. \E msg, next : clears(msg, next) BY <2>2, Zenon DEF disconnectMessage
    <3>3. SavesMore BY <3>2, ClearsSaves
    <3> QED BY <1>2, <1>5, <3>1, <3>3, Telling
  <2>3. CASE releaseMessage(m)
    <3>1. tells("ChannelRelease") /\ saved' = saved /\ (sip' = "Cleared" \/ sip' = sip)
      BY <2>3, Zenon DEF releaseMessage
    <3>2. SavesMore BY <3>1 DEF SavesMore
    <3> QED BY <1>2, <1>5, <3>1, <3>2, Telling
  <2>4. CASE releaseCompleteMessage(m)
    <3>1. tells("ChannelRelease") /\ noSIP BY <2>4, Zenon DEF releaseCompleteMessage
    <3>2. SavesMore BY <3>1 DEF noSIP, SavesMore
    <3> QED BY <1>2, <1>5, <3>1, <3>2, Telling
  <2>5. CASE detachMessage(m)
    <3>1. tells("ChannelRelease") /\ SavesMore BY <2>5, ForceSaves DEF detachMessage
    <3> QED BY <1>2, <1>5, <3>1, Telling
  <2>6. CASE startDTMFMessage(m)
    <3>1. UNCHANGED <<sip, saved, ms>> BY <2>6, Zenon DEF startDTMFMessage
    <3>2. SavesMore BY <3>1 DEF SavesMore
    <3> QED BY <1>2, <1>5, <3>1, <3>2
  <2> QED BY <1>5, <2>1, <2>2, <2>3, <2>4, <2>5, <2>6, Zenon DEF callManagementDispatchGSM
<1>6. \/ noSIP /\ UNCHANGED <<up, ms>>
      \/ abortCall(whenCleared(pc)) /\ UNCHANGED up
      \/ up # <<>> /\ up' = Tail(up) /\ callManagementDispatchGSM(Head(up))
  BY Zenon DEF updateGSMSignalling
<1> QED BY <1>3, <1>4, <1>5, <1>6

LEMMA ThreadKeepsBye == ASSUME ByeSaved, Thread PROVE KeepsBye
<1>1. CASE updateGSMSignalling BY <1>1, GSMKeepsBye
<1>2. CASE abortAndRemoveCall
  <2>1. SavesMore BY <1>2, ForceSaves DEF abortAndRemoveCall, abortCall
  <2>2. ms' = "toldDisconnect" => ms = "toldDisconnect"
    BY <1>2, GSMClearingTells DEF abortAndRemoveCall, abortCall
  <2>3. up' = up BY <1>2, Zenon DEF abortAndRemoveCall
  <2> QED BY <2>1, <2>2, <2>3, Zenon DEF SavesMore, KeepsBye
<1>3. CASE Starter
  <2>1. CASE MOCStarter \/ setupRelease
    BY <2>1, SMT DEF MOCStarter, setupRelease, KeepsBye
  <2>2. CASE MTCStarter
    BY <2>2, Telling, SMT DEF MTCStarter, KeepsBye
  <2>3. CASE noTCH
    BY <2>3, Telling, SMT DEF noTCH, KeepsBye
  <2>4. CASE setupSIP
    <3>1. SavesMore /\ UNCHANGED <<up, ms>> BY <2>4, CheckSaves, Zenon DEF setupSIP
    <3> QED BY <3>1, Zenon DEF SavesMore, KeepsBye
  <2> QED BY <1>3, <2>1, <2>2, <2>3, <2>4, Zenon DEF Starter
<1>4. CASE Assignment
  <2>1. CASE assigned \/ assignedNobody
    BY <2>1, SMT DEF assigned, assignedNobody, KeepsBye
  <2>2. CASE assignmentFailed
    <3>1. SavesMore /\ tells("ChannelRelease") /\ up # <<>> /\ up' = Tail(up)
      BY <2>2, ForceSaves, Zenon DEF assignmentFailed
    <3>2. ms' = "toldDisconnect" => ms = "toldDisconnect" BY <3>1, Telling
    <3> QED BY <3>1, <3>2, Zenon DEF SavesMore, KeepsBye
  <2>3. CASE modeAcknowledged
    <3>1. /\ UNCHANGED <<sip, saved>> /\ up # <<>> /\ up' = Tail(up)
          /\ ms' = ms \/ tells("ChannelRelease")
      BY <2>3, Zenon DEF modeAcknowledged
    <3>2. ms' = "toldDisconnect" => ms = "toldDisconnect" BY <3>1, Telling
    <3> QED BY <3>1, <3>2, Zenon DEF KeepsBye
  <2>4. CASE modeTimeout
    BY <2>4, Telling, SMT DEF modeTimeout, KeepsBye
  <2> QED BY <1>4, <2>1, <2>2, <2>3, <2>4, Zenon DEF Assignment
<1>5. CASE MOCController
  <2>1. MOCWaitForOK # "MTDClearing" \/ MOCWaitForOK = sip BY Zenon DEF MOCWaitForOK
  <2>2. /\ UNCHANGED <<up, saved>> /\ (sip' = sip \/ sip' = MOCWaitForOK)
        /\ ms' = ms \/ tells("Connect")
    BY <1>5, Zenon DEF MOCController, mocRing, mocAnswer, mocAnswered, mocConnected
  <2>3. ms' = "toldDisconnect" => ms = "toldDisconnect" BY <2>2, Telling
  <2> QED BY <2>1, <2>2, <2>3, Zenon DEF KeepsBye
<1>6. CASE MTCController
  <2>1. CASE mtcAlert
    <3>1. UNCHANGED <<up, ms>> BY <2>1, Zenon DEF mtcAlert
    <3>2. (sip' = "Connecting" /\ saved' = saved) \/ UNCHANGED <<sip, saved>> \/ checksForCancel("MTCAlert")
      BY <2>1, Zenon DEF mtcAlert
    <3>3. SavesMore BY <3>2, CheckSaves, SMT DEF SavesMore
    <3> QED BY <3>1, <3>3, Zenon DEF SavesMore, KeepsBye
  <2>2. CASE mtcAck
    <3>1. /\ up' = up /\ (saved' = saved \/ saved' = saved \union {"CANCEL"})
          /\ sip' = sip \/ sip' \in {"Connecting", "Active", "Canceled", "Fail"}
          /\ ms' = ms \/ tells("ConnectAck")
      BY <2>2, Zenon DEF mtcAck
    <3>2. ms' = "toldDisconnect" => ms = "toldDisconnect" BY <3>1, Telling
    <3> QED BY <3>1, <3>2, SMT DEF KeepsBye
  <2> QED BY <1>6, <2>1, <2>2, Zenon DEF MTCController
<1>7. CASE callManagementLoop
  <2>1. CASE radioFailure
    <3>1. SavesMore /\ UNCHANGED <<up, ms>> BY <2>1, ForceSaves, Zenon DEF radioFailure
    <3> QED BY <3>1, Zenon DEF SavesMore, KeepsBye
  <2>2. CASE updateSIPSignalling
    <3>1. saved' = savedBYE /\ up' = up BY <2>2, Zenon DEF updateSIPSignalling
    <3>2. MTDClearing => "BYE" \in savedBYE BY SMT DEF MTDClearing, savedBYE, ByeSaved
    <3>3. "BYE" \in saved => "BYE" \in savedBYE BY DEF savedBYE
    <3>4. MTDClearing \/ UNCHANGED <<sip, ms>> BY <2>2, Zenon DEF updateSIPSignalling
    <3> QED BY <3>1, <3>2, <3>3, <3>4, SMT DEF KeepsBye
  <2>3. CASE terminationRequested
    <3>1. UNCHANGED <<sip, saved, ms>> \/ abortCall("Removed") BY <2>3, Zenon DEF terminationRequested
    <3>2. SavesMore BY <3>1, ForceSaves, SMT DEF SavesMore, abortCall
    <3>3. ms' = "toldDisconnect" => ms = "toldDisconnect"
      BY <3>1, GSMClearingTells, SMT DEF abortCall
    <3>4. up' = up BY <2>3, Zenon DEF terminationRequested
    <3> QED BY <3>2, <3>3, <3>4, Zenon DEF SavesMore, KeepsBye
  <2> QED BY <1>7, <2>1, <2>2, <2>3, Zenon DEF callManagementLoop
<1>8. CASE SIPWaits
  <2>1. UNCHANGED <<up, saved, ms>> /\ (sip' = sip \/ sip' \in {"Cleared", "Canceled"})
    BY <1>8, Zenon DEF SIPWaits, modWaits, modResends, MODWaitFor487
  <2> QED BY <2>1, SMT DEF KeepsBye
<1> QED BY <1>1, <1>2, <1>3, <1>4, <1>5, <1>6, <1>7, <1>8, Zenon DEF Thread

LEMMA ByeSavedStays == ASSUME ByeSaved, [Next]_vars PROVE ByeSaved'
<1>1. CASE Thread BY <1>1, ThreadKeepsBye, KeepingBye
<1>2. CASE handsetSends
  <2>1. PICK t \in MSSends : ms = t[1] /\ up' = Append(up, t[2]) /\ ms' = t[3]
    BY <1>2 DEF handsetSends
  <2>2. /\ t[2] \in UpMessage /\ t[3] # "toldDisconnect"
        /\ t[2] = "Release" => t[1] = "toldDisconnect"
    BY SMT DEF MSSends, UpMessage, InCall
  <2>3. /\ up' \in Seq(UpMessage)
        /\ Has(up', "Release") => Has(up, "Release") \/ t[2] = "Release"
    BY <2>1, <2>2, AppendHas DEF ByeSaved
  <2>4. Has(up, "Release")' => "BYE" \in saved BY <2>1, <2>2, <2>3 DEF Has, ByeSaved
  <2>5. UNCHANGED <<sip, saved>> BY <1>2, Zenon DEF handsetSends
  <2> QED BY <2>1, <2>2, <2>3, <2>4, <2>5 DEF ByeSaved
<1>3. CASE handsetPressesKey \/ handsetAnswersRR \/ dataLinkError
  <2>1. /\ \E m \in UpMessage \ {"Release"} : up' = Append(up, m)
        /\ UNCHANGED <<sip, saved, ms>>
    BY <1>3, SMT DEF handsetPressesKey, handsetAnswersRR, dataLinkError, UpMessage
  <2>2. PICK m \in UpMessage \ {"Release"} : up' = Append(up, m) BY <2>1
  <2>3. up' \in Seq(UpMessage) /\ (Has(up', "Release") => Has(up, "Release"))
    BY <2>2, AppendHas DEF ByeSaved
  <2>4. Has(up, "Release")' => Has(up, "Release") BY <2>3 DEF Has
  <2> QED BY <2>1, <2>3, <2>4, Zenon DEF ByeSaved
<1>4. CASE \/ linkLost \/ expireT3109 \/ handsetDropsLink \/ switchSends \/ switchRepeats
           \/ terminate \/ clearDeadEntries \/ UNCHANGED vars
           \/ \E t \in Q931Timers : timerExpires(t)
  <2>1. UNCHANGED <<sip, saved, up>> /\ (ms' = ms \/ ms' = "idle")
    BY <1>4, Zenon DEF linkLost, expireT3109, handsetDropsLink, switchSends, switchRepeats, terminate,
          clearDeadEntries, vars, timerExpires
  <2>2. KeepsBye BY <2>1, SMT DEF KeepsBye
  <2> QED BY <2>2, KeepingBye
<1> QED BY <1>1, <1>2, <1>3, <1>4, Zenon DEF Next, External
-----------------------------------------------------------------------------
(***************************************************************************)
(* The timers.                                                             *)
(***************************************************************************)
LEMMA Setting ==
    ASSUME NEW t \in Q931Timers, timers \in [Q931Timers -> {"off", "running", "expired"}],
           setTimer(t) \/ setTimerAlone(t)
    PROVE  timers' \in [Q931Timers -> {"off", "running", "expired"}] /\ On'
<1>1. timers' \in [Q931Timers -> {"off", "running", "expired"}] /\ timers'[t] = "running"
  BY DEF setTimer, setTimerAlone
<1> QED BY <1>1 DEF On

LEMMA KeepingTimed == ASSUME Timed, UNCHANGED <<gsm, timers, instigator>> PROVE Timed'
  BY Zenon DEF Timed, AwaitsHandset, On

LEMMA NullIsTimed ==
    ASSUME Timed, gsm' \notin {"CallPresent", "MTCConfirmed", "ConnectIndication", "ReleaseRequest",
                               "DisconnectIndication", "CallReceived"},
           UNCHANGED instigator, resetTimers \/ UNCHANGED timers \/ (\E t \in Q931Timers : setTimer(t) \/ setTimerAlone(t))
    PROVE  Timed'
<1>1. timers' \in [Q931Timers -> {"off", "running", "expired"}]
  BY Setting, SMT DEF Timed, resetTimers
<1> QED BY <1>1, Zenon DEF Timed, AwaitsHandset

LEMMA SetIsTimed ==
    ASSUME Timed, NEW t \in Q931Timers, setTimer(t) \/ setTimerAlone(t), UNCHANGED instigator
    PROVE  Timed'
<1>1. timers' \in [Q931Timers -> {"off", "running", "expired"}] /\ On' BY Setting DEF Timed
<1> QED BY <1>1, Zenon DEF Timed

LEMMA ForceGSMTimed == ASSUME Timed, forceGSMClearing, UNCHANGED instigator PROVE Timed'
<1>1. CASE gsm' = "Null" /\ resetTimers BY <1>1, NullIsTimed, SMT
<1>2. CASE UNCHANGED <<gsm, timers>> BY <1>2, KeepingTimed
<1> QED BY <1>1, <1>2, Zenon DEF forceGSMClearing

LEMMA GSMTimed == ASSUME Timed, updateGSMSignalling PROVE Timed'
<1>0. UNCHANGED instigator BY Zenon DEF updateGSMSignalling
<1>1. ASSUME NEW m, callManagementDispatchGSM(m) PROVE Timed'
  <2>1. CASE callSetupMessage(m)
    <3>1. \/ callConfirmed
          \/ gsm' = "CallReceived" /\ setTimer("301")
          \/ gsm' = "Active" /\ resetTimers
      BY <2>1, Zenon DEF callSetupMessage
    <3>2. CASE callConfirmed
      <4>1. "301" \in Q931Timers BY DEF Q931Timers
      <4>2. timers' = [timers EXCEPT !["303"] = "off", !["301"] = "running"] BY <3>2 DEF callConfirmed
      <4>3. timers' \in [Q931Timers -> {"off", "running", "expired"}] /\ timers'["301"] = "running"
        BY <4>1, <4>2 DEF Timed
      <4>4. On' BY <4>1, <4>3 DEF On
      <4> QED BY <1>0, <4>3, <4>4, Zenon DEF Timed
    <3>3. CASE setTimer("301") BY <3>3, <1>0, SetIsTimed DEF Q931Timers
    <3>4. CASE gsm' = "Active" /\ resetTimers BY <3>4, <1>0, NullIsTimed, SMT
    <3> QED BY <3>1, <3>2, <3>3, <3>4
  <2>2. CASE disconnectMessage(m)
    <3>1. setTimerAlone("308") BY <2>2, Zenon DEF disconnectMessage
    <3> QED BY <3>1, <1>0, SetIsTimed DEF Q931Timers
  <2>3. CASE releaseMessage(m) \/ releaseCompleteMessage(m)
    <3>1. gsm' = "Null" /\ resetTimers BY <2>3, Zenon DEF releaseMessage, releaseCompleteMessage
    <3> QED BY <3>1, <1>0, NullIsTimed, SMT
  <2>4. CASE detachMessage(m) \/ startDTMFMessage(m) \/ otherMessage(m)
    <3>1. UNCHANGED <<gsm, timers>>
      BY <2>4, Zenon DEF detachMessage, startDTMFMessage, otherMessage, entryVars
    <3> QED BY <3>1, <1>0, KeepingTimed
  <2> QED BY <1>1, <2>1, <2>2, <2>3, <2>4, Zenon DEF callManagementDispatchGSM
<1>2. \/ UNCHANGED <<gsm, timers>> \/ forceGSMClearing
      \/ \E m : callManagementDispatchGSM(m)
  BY Zenon DEF updateGSMSignalling, abortCall
<1> QED BY <1>0, <1>1, <1>2, ForceGSMTimed, KeepingTimed

LEMMA ThreadTimed == ASSUME Flow, Timed, Thread PROVE Timed'
<1>1. CASE updateGSMSignalling BY <1>1, GSMTimed
<1>2. CASE abortAndRemoveCall
  <2>1. forceGSMClearing /\ UNCHANGED instigator BY <1>2, Zenon DEF abortAndRemoveCall, abortCall
  <2> QED BY <2>1, ForceGSMTimed
<1>3. CASE MOCStarter
  <2>1. gsm' = "MOCProceeding" /\ UNCHANGED <<timers, instigator>> BY <1>3, Zenon DEF MOCStarter
  <2> QED BY <2>1, NullIsTimed, SMT
<1>4. CASE MTCStarter
  <2>1. setTimer("303") /\ UNCHANGED instigator BY <1>4, Zenon DEF MTCStarter
  <2> QED BY <2>1, SetIsTimed DEF Q931Timers
<1>5. CASE \/ noTCH \/ setupSIP \/ setupRelease \/ Assignment \/ mocAnswer \/ mocConnected
           \/ MTCController \/ radioFailure \/ SIPWaits
  <2>1. UNCHANGED <<gsm, timers, instigator>>
    BY <1>5, Zenon DEF noTCH, setupSIP, setupRelease, Assignment, assigned, assignedNobody, assignmentFailed,
          modeAcknowledged, modeTimeout, mocAnswer, mocConnected, MTCController, mtcAlert, mtcAck,
          radioFailure, SIPWaits, modWaits, modResends, MODWaitFor487
  <2> QED BY <2>1, KeepingTimed
<1>6. CASE mocRing
  <2>1. pc = "MOCRingSIP" /\ (gsm' = "CallReceived" \/ gsm' = gsm) /\ UNCHANGED <<timers, instigator>>
    BY <1>6, Zenon DEF mocRing
  <2>2. instigator BY <2>1, Zenon DEF Flow, Waits, MOCPart
  <2>3. AwaitsHandset' => AwaitsHandset BY <2>1, <2>2, SMT DEF AwaitsHandset
  <2> QED BY <2>1, <2>3, Zenon DEF Timed, On
<1>7. CASE mocAnswered
  <2>1. UNCHANGED instigator /\ (setTimer("313") \/ UNCHANGED <<gsm, timers>>)
    BY <1>7, Zenon DEF mocAnswered
  <2> QED BY <2>1, SetIsTimed, KeepingTimed DEF Q931Timers
<1>8. CASE updateSIPSignalling
  <2>1. UNCHANGED instigator /\ (setTimer("305") \/ UNCHANGED <<gsm, timers>>)
    BY <1>8, Zenon DEF updateSIPSignalling, disconnects
  <2> QED BY <2>1, SetIsTimed, KeepingTimed DEF Q931Timers
<1>9. CASE terminationRequested
  <2>1. UNCHANGED instigator /\ (forceGSMClearing \/ UNCHANGED <<gsm, timers>>)
    BY <1>9, Zenon DEF terminationRequested, abortCall
  <2> QED BY <2>1, ForceGSMTimed, KeepingTimed
<1> QED BY <1>1, <1>2, <1>3, <1>4, <1>5, <1>6, <1>7, <1>8, <1>9, Zenon
       DEF Thread, Starter, MOCController, callManagementLoop

LEMMA TimedStays == ASSUME Flow, Timed, [Next]_vars PROVE Timed'
<1>1. CASE Thread BY <1>1, ThreadTimed
<1>2. ASSUME NEW u \in Q931Timers, timerExpires(u) PROVE Timed'
  <2>1. timers' = [timers EXCEPT ![u] = "expired"] /\ UNCHANGED <<gsm, instigator>>
    BY <1>2, Zenon DEF timerExpires
  <2>2. timers' \in [Q931Timers -> {"off", "running", "expired"}] /\ timers'[u] = "expired"
    BY <2>1 DEF Timed
  <2>3. On' BY <2>2 DEF On
  <2> QED BY <2>1, <2>2, <2>3, Zenon DEF Timed
<1>3. CASE \/ handsetSends \/ handsetPressesKey \/ handsetAnswersRR \/ linkLost \/ expireT3109
           \/ dataLinkError \/ handsetDropsLink \/ switchSends \/ switchRepeats
           \/ terminate \/ clearDeadEntries \/ UNCHANGED vars
  <2>1. UNCHANGED <<gsm, timers, instigator>>
    BY <1>3, Zenon DEF handsetSends, handsetPressesKey, handsetAnswersRR, linkLost, expireT3109,
          dataLinkError, handsetDropsLink, switchSends, switchRepeats, terminate, clearDeadEntries, vars
  <2> QED BY <2>1, KeepingTimed
<1> QED BY <1>1, <1>2, <1>3, Zenon DEF Next, External
-----------------------------------------------------------------------------
LEMMA Initially == Init => IInv
<1> SUFFICES ASSUME Init PROVE IInv OBVIOUS
<1>1. pc = "Start" /\ back = <<>> /\ up = <<>> /\ saved = {} /\ ms \in {"calling", "paged"}
      /\ sip \in {"Null", "Proceeding"} /\ gsm \in {"MOCInitiated", "AnsweredPaging"}
      /\ timers = [t \in Q931Timers |-> "off"] /\ instigator \in BOOLEAN
  BY Zenon DEF Init
<1>2. Waits BY <1>1, SMT DEF Waits, PC, Controller, Talking, Over, MOCPart
<1>3. RemovedIsFinished BY <1>1, SMT DEF RemovedIsFinished
<1>4. ByeSaved BY <1>1, SMT DEF ByeSaved, Has
<1>5. Timed BY <1>1, SMT DEF Timed, AwaitsHandset
<1> QED BY <1>2, <1>3, <1>4, <1>5 DEF IInv

LEMMA Inductive == IInv /\ [Next]_vars => IInv'
<1> SUFFICES ASSUME IInv, [Next]_vars PROVE IInv' OBVIOUS
<1>1. Flow /\ ByeSaved /\ Timed BY Zenon DEF IInv, Flow
<1>2. Flow' BY <1>1, FlowStays
<1>3. ByeSaved' BY <1>1, ByeSavedStays
<1>4. Timed' BY <1>1, TimedStays
<1> QED BY <1>2, <1>3, <1>4, Zenon DEF IInv, Flow

LEMMA AlwaysIInv == Spec => []IInv
  BY Initially, Inductive, PTL DEF Spec

\* However the controllers are left, and whatever crosses, a transaction is removed only when
\* the SIP side is cleared or cancelled: every exit of the call controllers waits for it.
THEOREM RemovedOnlyWhenFinished == Spec => []RemovedIsFinished
<1>1. IInv => RemovedIsFinished BY DEF IInv
<1> QED BY <1>1, AlwaysIInv, PTL

\* MTDSendBYEOK never meets its failed assertion, however many messages wait in the queues:
\* a Release comes only from a handset that was told to disconnect, and a BYE is then saved.
THEOREM NoFailedAssertion == Spec => []NeverAborts
<1>1. IInv => NeverAborts BY Zenon DEF IInv, Waits, NeverAborts
<1> QED BY <1>1, AlwaysIInv, PTL

\* Wherever a controller waits for the handset, one of the Q.931 timers is on.
THEOREM EveryWaitIsTimed == Spec => []WaitingIsTimed
<1>1. IInv => WaitingIsTimed BY Zenon DEF IInv, Timed, AwaitsHandset, On, WaitingIsTimed
<1> QED BY <1>1, AlwaysIInv, PTL
=============================================================================
