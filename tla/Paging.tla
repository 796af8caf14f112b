------------------------------- MODULE Paging -------------------------------
(***************************************************************************)
(* Mobile terminated transactions from the SIP message that starts one to  *)
(* the channel thread that serves it: SIPInterface::checkInvite in the SIP *)
(* thread, the Pager and its thread, PagingResponseHandler in the threads  *)
(* of the dedicated channels, and what they share: the TransactionTable    *)
(* and the map of SIP message FIFOs (mSIPMap).                             *)
(*                                                                         *)
(* A step is one critical section of the lock it takes.  innerRemove drops *)
(* the FIFO before it erases the entry, so its two effects may be taken as *)
(* one.  What a thread does through a TransactionEntry that has been       *)
(* deleted under it is undefined; here it does nothing, and ServedStays    *)
(* says whether it can happen.                                             *)
(*                                                                         *)
(* An operator named Faulty_... is the definition that follows it with a   *)
(* mistake in it; no definition uses one.                                  *)
(***************************************************************************)
EXTENDS Integers, Sequences, SequencesExt

CONSTANTS
    Calls,      \* SIP call IDs of the INVITE and MESSAGE requests
    Mobiles,    \* the subscribers
    MobileOf,   \* the subscriber each request is for
    Services,   \* "call" (INVITE) or "sms" (MESSAGE), of each request
    Channels,   \* the dedicated channels, each with a dispatcher thread
    None,       \* no channel
    NoEntry,    \* no transaction under an ID
    MaxTrans,   \* bound: transactions ever created
    MaxInvites, \* bound: INVITE and MESSAGE requests that arrive
    MaxReplies, \* bound: paging responses
    Repeats     \* whether a request arrives again while its transaction lives

ASSUME BoundsAssumption   == MaxTrans \in Nat /\ MaxInvites \in Nat /\ MaxReplies \in Nat
ASSUME MobileOfAssumption == MobileOf \in [Calls -> Mobiles]
ASSUME ServicesAssumption == Services \in [Calls -> {"call", "sms"}]
ASSUME NoneAssumption     == None \notin Channels
ASSUME RepeatsAssumption  == Repeats \in BOOLEAN

ID == 1 .. MaxTrans
NoID == 0          \* "ID==0 is a non-valid special case"

\* A TransactionEntry; old stands for a state older than 180 s, SIP still Proceeding.
Entry == [call : Calls, state : {"Null", "Paging", "AnsweredPaging", "Served"},
          t3113 : {"off", "running", "expired"}, channel : Channels \union {None},
          old : BOOLEAN]

\* TransactionTable has no entry that stands for "not found".
ASSUME NoEntryAssumption == NoEntry \notin Entry

VARIABLES
    table,    \* TransactionTable::mTable
    nextID,   \* mIDCounter
    fifo,     \* the call IDs with a FIFO in mSIPMap
    paging,   \* Pager::mPageIDs
    sip,      \* the SIP thread, in checkInvite
    dcch,     \* the thread of each channel, in PagingResponseHandler and after
    invites, replies

vars == <<table, nextID, fifo, paging, sip, dcch, invites, replies>>

SipPC == {"idle", "findChannel", "readFifo", "add", "find", "setPaging", "list"}
DcchPC == {"idle", "removeID", "answeredPaging", "attach", "start", "serve"}

\* The iterator of a thread in clearDeadEntries, and whether it saw a dead entry there.
SweepAt == 1 .. MaxTrans + 1

TypeOK ==
    /\ table \in [ID -> Entry \union {NoEntry}]
    /\ nextID \in 1 .. MaxTrans + 1
    /\ fifo \subseteq Calls
    /\ paging \in Seq([mobile : Mobiles, id : ID])
    /\ \A j, k \in DOMAIN paging : paging[j].mobile = paging[k].mobile => j = k
    /\ sip \in [pc : SipPC, call : Calls \union {None}, id : ID \union {NoID},
                at : SweepAt, dying : BOOLEAN, found : BOOLEAN]
    /\ dcch \in [Channels -> [pc : DcchPC, mobile : Mobiles \union {None},
                              id : ID \union {NoID}, at : SweepAt, dying : BOOLEAN]]
    /\ invites \in 0 .. MaxInvites /\ replies \in 0 .. MaxReplies
-----------------------------------------------------------------------------
(***************************************************************************)
(* The transaction table.                                                  *)
(***************************************************************************)
Known(id) == id # NoID /\ table[id] # NoEntry
Live == {id \in ID : table[id] # NoEntry}
mobileOf(id) == MobileOf[table[id].call]

dead(id) ==
    \/ table[id].old
    \/ table[id].state = "Paging" /\ table[id].t3113 = "expired"

\* The whole of a transaction: its entry and the FIFO of its SIP call.
Faulty_innerRemove(id) ==
    /\ table' = IF Known(id) THEN [table EXCEPT ![id] = NoEntry] ELSE table
    /\ fifo' = fifo

innerRemove(id) ==
    /\ table' = IF Known(id) THEN [table EXCEPT ![id] = NoEntry] ELSE table
    /\ fifo' = IF Known(id) THEN fifo \ {table[id].call} ELSE fifo

removePaging(id) ==
    IF Known(id) /\ table[id].state = "Paging" THEN innerRemove(id) ELSE UNCHANGED <<table, fifo>>

\* GSMState(...) also starts the age of the state again.
GSMState(id, state) ==
    IF Known(id) THEN [table EXCEPT ![id].state = state, ![id].old = FALSE] ELSE table

lowest(S) == CHOOSE id \in S : \A other \in S : id <= other

pagedBy(m) == {id \in Live : table[id].state = "Paging" /\ mobileOf(id) = m}

\* The map is ordered by ID, and the first match is taken.
Faulty_answeredPaging(id) == [table EXCEPT ![id].t3113 = "off"]

answeredPaging(id) == [GSMState(id, "AnsweredPaging") EXCEPT ![id].t3113 = "off"]

(***************************************************************************)
(* clearDeadEntries, which find, answeredPaging and findChannel call       *)
(* without mLock.  A thread looks at one entry after the other and sees    *)
(* that one is dead in one step, and removes it in a later one.  The       *)
(* search that follows may so find an entry that has died since.           *)
(***************************************************************************)
looksAt(t) ==
    IF Known(t.at) /\ dead(t.at) THEN [t EXCEPT !.dying = TRUE] ELSE [t EXCEPT !.at = @ + 1]

swept(t) == t.at \notin ID

clearDeadEntries ==
    \/ /\ sip.pc \in {"findChannel", "find"} /\ ~swept(sip) /\ ~sip.dying
       /\ sip' = looksAt(sip)
       /\ UNCHANGED <<table, nextID, fifo, paging, dcch, invites, replies>>
    \/ /\ sip.dying
       /\ innerRemove(sip.at)
       /\ sip' = [sip EXCEPT !.at = @ + 1, !.dying = FALSE]
       /\ UNCHANGED <<nextID, paging, dcch, invites, replies>>

dcchClearDeadEntries(c) ==
    \/ /\ dcch[c].pc = "answeredPaging" /\ ~swept(dcch[c]) /\ ~dcch[c].dying
       /\ dcch' = [dcch EXCEPT ![c] = looksAt(@)]
       /\ UNCHANGED <<table, nextID, fifo, paging, sip, invites, replies>>
    \/ /\ dcch[c].dying
       /\ innerRemove(dcch[c].at)
       /\ dcch' = [dcch EXCEPT ![c].at = @ + 1, ![c].dying = FALSE]
       /\ UNCHANGED <<nextID, paging, sip, invites, replies>>
-----------------------------------------------------------------------------
(***************************************************************************)
(* The SIP thread.  The channels here are SDCCHs, and checkInvite sets the *)
(* channel that findChannel found back to NULL unless it is a FACCH: found *)
(* tells that there was one, and no action looks at it.                    *)
(***************************************************************************)
sipGoes(from, to) == sip.pc = from /\ sip' = [sip EXCEPT !.pc = to]

requestArrives(c) ==
    /\ sip.pc = "idle" /\ invites < MaxInvites
    /\ Repeats \/ c \notin fifo
    /\ sip' = [pc |-> "findChannel", call |-> c, id |-> NoID, at |-> 1, dying |-> FALSE,
               found |-> FALSE]
    /\ invites' = invites + 1
    /\ UNCHANGED <<table, nextID, fifo, paging, dcch, replies>>

findChannel ==
    /\ sip.pc = "findChannel" /\ swept(sip)
    /\ LET m == MobileOf[sip.call]
       IN  sip' = [sip EXCEPT !.pc = "readFifo", !.at = 1,
                              !.found = \E id \in Live : /\ mobileOf(id) = m
                                                         /\ table[id].channel # None]
    /\ UNCHANGED <<table, nextID, fifo, paging, dcch, invites, replies>>

repeated ==
    /\ sip.call \in fifo /\ sipGoes("readFifo", "find")
    /\ UNCHANGED <<table, nextID, fifo, paging, dcch, invites, replies>>

congestion ==
    /\ sip.call \notin fifo /\ sipGoes("readFifo", "idle")
    /\ UNCHANGED <<table, nextID, fifo, paging, dcch, invites, replies>>

addCall ==
    /\ sip.pc = "readFifo" /\ sip.call \notin fifo /\ nextID \in ID
    /\ fifo' = fifo \union {sip.call}
    /\ nextID' = nextID + 1
    /\ sip' = [sip EXCEPT !.pc = "add", !.id = nextID]
    /\ UNCHANGED <<table, paging, dcch, invites, replies>>

add ==
    /\ sipGoes("add", "setPaging")
    /\ table' = [table EXCEPT ![sip.id] =
                    [call |-> sip.call, state |-> "Null", t3113 |-> "off", channel |-> None,
                     old |-> FALSE]]
    /\ UNCHANGED <<nextID, fifo, paging, dcch, invites, replies>>

\* By subscriber and call ID.  With a FIFO and no transaction, the FIFO goes.
find ==
    /\ sip.pc = "find" /\ swept(sip)
    /\ LET found == {id \in Live : table[id].call = sip.call}
       IN  \/ /\ found = {}
              /\ sip' = [sip EXCEPT !.pc = "idle", !.at = 1]
              /\ fifo' = fifo \ {sip.call}
           \/ /\ found # {}
              /\ sip' = [sip EXCEPT !.pc = "setPaging", !.at = 1, !.id = lowest(found)]
              /\ UNCHANGED fifo
    /\ UNCHANGED <<table, nextID, paging, dcch, invites, replies>>

\* Pager::addID: first the transaction, then the list, under the pager's lock.
setPaging ==
    /\ sipGoes("setPaging", "list")
    /\ table' = IF Known(sip.id)
                THEN [GSMState(sip.id, "Paging") EXCEPT ![sip.id].t3113 = "running"]
                ELSE table
    /\ UNCHANGED <<nextID, fifo, paging, dcch, invites, replies>>

\* One entry for each mobile; it keeps the ID it was made with.
Faulty_renewed(m, id) ==
    IF \E k \in DOMAIN paging : paging[k].id = id
    THEN paging
    ELSE Append(paging, [mobile |-> m, id |-> id])

renewed(m, id) ==
    IF \E k \in DOMAIN paging : paging[k].mobile = m
    THEN paging
    ELSE Append(paging, [mobile |-> m, id |-> id])

addID ==
    /\ sipGoes("list", "idle")
    /\ paging' = renewed(MobileOf[sip.call], sip.id)
    /\ UNCHANGED <<table, nextID, fifo, dcch, invites, replies>>

checkInvite ==
    \/ clearDeadEntries \/ findChannel \/ repeated \/ congestion \/ addCall \/ add
    \/ find \/ setPaging \/ addID
-----------------------------------------------------------------------------
(***************************************************************************)
(* The pager's thread drops the entries whose life is over.  addID starts  *)
(* T3113 before it adds or renews the entry, with the same limit, so the   *)
(* T3113 of every transaction the entry was renewed for is over by then.   *)
(***************************************************************************)
Renewed(id) == ~(sip.pc = "list" /\ sip.id = id)
expired(p) == \A id \in pagedBy(p.mobile) : Renewed(id) => table[id].t3113 # "running"

Faulty_pageAll ==
    /\ \E k \in DOMAIN paging :
          /\ expired(paging[k])
          /\ paging' = RemoveAt(paging, k)
    /\ UNCHANGED <<table, nextID, fifo, sip, dcch, invites, replies>>

pageAll ==
    /\ \E k \in DOMAIN paging :
          /\ expired(paging[k])
          /\ removePaging(paging[k].id)
          /\ paging' = RemoveAt(paging, k)
    /\ UNCHANGED <<nextID, sip, dcch, invites, replies>>

(***************************************************************************)
(* The channel threads.  A mobile answers on any channel while it is being *)
(* paged, and may do so again when it is not heard.                        *)
(***************************************************************************)
dcchGoes(c, from, to) == dcch[c].pc = from /\ dcch' = [dcch EXCEPT ![c].pc = to]

pagingResponse(c) ==
    /\ dcch[c].pc = "idle" /\ replies < MaxReplies
    /\ \E k \in DOMAIN paging :
          dcch' = [dcch EXCEPT ![c] = [pc |-> "removeID", mobile |-> paging[k].mobile,
                                       id |-> NoID, at |-> 1, dying |-> FALSE]]
    /\ replies' = replies + 1
    /\ UNCHANGED <<table, nextID, fifo, paging, sip, invites>>

Faulty_removeID(m) == IF paging = <<>> THEN paging ELSE Tail(paging)

removeID(m) ==
    LET of == {k \in DOMAIN paging : paging[k].mobile = m}
    IN  IF of = {} THEN paging ELSE RemoveAt(paging, lowest(of))

responseRemovesID(c) ==
    /\ dcchGoes(c, "removeID", "answeredPaging")
    /\ paging' = removeID(dcch[c].mobile)
    /\ UNCHANGED <<table, nextID, fifo, sip, invites, replies>>

responseFinds(c) ==
    /\ dcch[c].pc = "answeredPaging" /\ swept(dcch[c])
    /\ LET found == pagedBy(dcch[c].mobile)
       IN  \/ /\ found = {}
              /\ dcch' = [dcch EXCEPT ![c].pc = "idle", ![c].at = 1]
              /\ UNCHANGED table
           \/ /\ found # {}
              /\ dcch' = [dcch EXCEPT ![c].pc = "attach", ![c].at = 1, ![c].id = lowest(found)]
              /\ table' = answeredPaging(lowest(found))
    /\ UNCHANGED <<nextID, fifo, paging, sip, invites, replies>>

attachChannel(c) ==
    /\ dcchGoes(c, "attach", "start")
    /\ table' = IF Known(dcch[c].id) THEN [table EXCEPT ![dcch[c].id].channel = c] ELSE table
    /\ UNCHANGED <<nextID, fifo, paging, sip, invites, replies>>

\* MTCStarter returns without a word to the table when there is no TCH.
noTCH(c) ==
    /\ dcchGoes(c, "start", "idle")
    /\ Known(dcch[c].id) => Services[table[dcch[c].id].call] = "call"
    /\ UNCHANGED <<table, nextID, fifo, paging, sip, invites, replies>>

\* CallPresent in MTCStarter, SMSDelivering in MTSMSController.
starts(c) ==
    /\ dcchGoes(c, "start", "serve")
    /\ table' = GSMState(dcch[c].id, "Served")
    /\ UNCHANGED <<nextID, fifo, paging, sip, invites, replies>>

\* The controllers end with remove, or with an exception that carries no ID.
finishes(c) ==
    /\ dcchGoes(c, "serve", "idle")
    /\ innerRemove(dcch[c].id) \/ UNCHANGED <<table, fifo>>
    /\ UNCHANGED <<nextID, paging, sip, invites, replies>>

PagingResponseHandler(c) ==
    \/ responseRemovesID(c) \/ dcchClearDeadEntries(c) \/ responseFinds(c)
    \/ attachChannel(c) \/ noTCH(c) \/ starts(c) \/ finishes(c)
-----------------------------------------------------------------------------
(***************************************************************************)
(* Time.                                                                   *)
(***************************************************************************)
Serving(c) == dcch[c].pc \in {"attach", "start", "serve"}
InHand(id) == \/ \E c \in Channels : Serving(c) /\ dcch[c].id = id
              \/ sip.pc \in {"setPaging", "list"} /\ sip.id = id

expireT3113(id) ==
    /\ id \in Live /\ table[id].t3113 = "running"
    /\ table' = [table EXCEPT ![id].t3113 = "expired"]
    /\ UNCHANGED <<nextID, fifo, paging, sip, dcch, invites, replies>>

\* The Q.931 timers and the reads of a thread that serves an entry are all shorter than
\* 180 s, so only an entry that was left behind gets that old.
grow180s(id) ==
    /\ id \in Live /\ ~InHand(id) /\ ~table[id].old
    /\ table' = [table EXCEPT ![id].old = TRUE]
    /\ UNCHANGED <<nextID, fifo, paging, sip, dcch, invites, replies>>

Init ==
    /\ table = [id \in ID |-> NoEntry]
    /\ nextID = 1
    /\ fifo = {}
    /\ paging = <<>>
    /\ sip = [pc |-> "idle", call |-> None, id |-> NoID, at |-> 1, dying |-> FALSE,
              found |-> FALSE]
    /\ dcch = [c \in Channels |-> [pc |-> "idle", mobile |-> None, id |-> NoID, at |-> 1,
                                   dying |-> FALSE]]
    /\ invites = 0 /\ replies = 0

Next ==
    \/ \E c \in Calls : requestArrives(c)
    \/ checkInvite
    \/ pageAll
    \/ \E c \in Channels : pagingResponse(c) \/ PagingResponseHandler(c)
    \/ \E id \in ID : expireT3113(id) \/ grow180s(id)

Spec == Init /\ [][Next]_vars

\* The threads are scheduled, and time goes on.
Fairness ==
    /\ WF_vars(\E id \in ID : expireT3113(id))
    /\ WF_vars(checkInvite)
    /\ WF_vars(pageAll)
    /\ \A c \in Channels : WF_vars(PagingResponseHandler(c))

FairSpec == Spec /\ Fairness
-----------------------------------------------------------------------------
(***************************************************************************)
(* Properties.                                                             *)
(***************************************************************************)
\* A transaction has one server: two channels on which the same mobile answers, or two
\* pages answered at once, never take the same entry (answeredPaging).
OneServer ==
    \A c, d \in Channels : c # d /\ Serving(c) /\ Serving(d) => dcch[c].id # dcch[d].id

\* The SIP map and the table agree (innerRemove, addCall): every transaction can be
\* reached by the SIP messages of its call, it is the only one of that call, and a FIFO
\* outlives its transaction only until the SIP thread next looks.
FifoIffTransaction ==
    /\ \A id \in Live : table[id].call \in fifo
    /\ \A i, j \in Live : table[i].call = table[j].call => i = j
    /\ \A c \in fifo : \/ \E id \in Live : table[id].call = c
                       \/ sip.pc = "add" /\ sip.call = c

\* The mobile of a transaction whose T3113 runs is being paged, is about to be, or has
\* been heard (addID, removeID): none waits for a page that is not sent.
WaitingIsPaged ==
    \A id \in Live :
        table[id].state = "Paging" /\ table[id].t3113 = "running" =>
            \/ \E k \in DOMAIN paging : paging[k].mobile = mobileOf(id)
            \/ sip.pc = "list" /\ sip.id = id
            \/ \E c \in Channels :
                  dcch[c].pc = "answeredPaging" /\ dcch[c].mobile = mobileOf(id)

\* A page has an end (pageAll, removePaging, PagingResponseHandler): a transaction that
\* is paged under its own ID is answered or removed, with no help from a later search of
\* the table.
ListedEnds ==
    \A id \in ID :
        (/\ Known(id) /\ table[id].state = "Paging"
         /\ \E k \in DOMAIN paging : paging[k].id = id)
            ~> ~(Known(id) /\ table[id].state = "Paging")

\* "The caller should hold mLock": nobody removes the entry that a channel thread works on.
ServedStays == \A c \in Channels : Serving(c) => Known(dcch[c].id)

\* "And if no channel is established yet, page again" (checkInvite): a repeated request
\* pages for no transaction that has a channel, if findChannel found one of its mobile.
RepagesWithoutChannel ==
    [][setPaging /\ sip.found /\ Known(sip.id) => table[sip.id].channel = None]_vars
=============================================================================
