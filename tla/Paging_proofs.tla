---------------------------- MODULE Paging_proofs ----------------------------
(***************************************************************************)
(* Theorems about Paging, for any number of requests, mobiles, channels    *)
(* and IDs: the table and the map of FIFOs agree; and, each under the      *)
(* condition that the runs show it to need, a transaction has one server   *)
(* and none waits for a page that is not sent.                             *)
(*                                                                         *)
(* The inductive invariant is built up in four parts, each kept by a       *)
(* section below: the types (TypeInv), what the table and the map have to  *)
(* do with each other (Reach), who serves an entry (One) and who waits     *)
(* (WaitingIsPaged).                                                       *)
(***************************************************************************)
EXTENDS Paging, SequenceTheorems, WellFoundedInduction, TLAPS

\* A thread that is at work has what it works on.
Placed ==
    /\ sip.pc # "idle" => sip.call \in Calls
    /\ sip.pc \in {"add", "setPaging", "list"} => sip.id \in ID
    /\ sip.dying => sip.at \in ID
    /\ \A c \in Channels :
          /\ dcch[c].pc # "idle" => dcch[c].mobile \in Mobiles
          /\ Serving(c) => dcch[c].id \in ID
          /\ dcch[c].dying => dcch[c].at \in ID

TypeInv == TypeOK /\ Placed

\* IDs are not used again, the SIP thread makes an entry of an ID that has none, for a call
\* that has none, and goes on with an entry of the call it is at.
Reach ==
    /\ FifoIffTransaction
    /\ \A id \in Live : id < nextID
    /\ sip.pc = "add" =>
          /\ sip.call \in fifo /\ sip.id < nextID /\ sip.id \notin Live
          /\ \A id \in Live : table[id].call # sip.call
    /\ sip.pc \in {"setPaging", "list"} /\ sip.id \in Live => table[sip.id].call = sip.call

\* An entry that is served is never paged (again), the one that the SIP thread is about to
\* page has no server, and a request that does not repeat another finds no FIFO.
One ==
    /\ OneServer
    /\ \A c \in Channels : Serving(c) =>
          /\ dcch[c].id < nextID
          /\ dcch[c].id \in Live => table[dcch[c].id].state # "Paging"
          /\ sip.pc \in {"add", "setPaging"} => dcch[c].id # sip.id
    /\ sip.pc \in {"findChannel", "readFifo"} => sip.call \notin fifo
    /\ sip.pc # "find"
    /\ sip.pc = "setPaging" /\ sip.id \in Live => table[sip.id].state = "Null"

\* Each request is for a mobile of its own.
OwnMobiles == \A c, d \in Calls : MobileOf[c] = MobileOf[d] => c = d
-----------------------------------------------------------------------------
(***************************************************************************)
(* The operators of the model.                                             *)
(***************************************************************************)
LEMMA LeastNatural ==
    ASSUME NEW S \in SUBSET Nat, S # {} PROVE \E m \in S : \A n \in S : m <= n
<1> DEFINE R == OpToRel(<, Nat)
<1>1. PICK m \in S : \A n \in S : <<n, m>> \notin R
  <2>1. IsWellFoundedOn(R, Nat) BY NatLessThanWellFounded
  <2> HIDE DEF R
  <2> QED BY <2>1, WFMin, Zenon
<1>2. ASSUME NEW n \in S PROVE m <= n
  <2>1. n \in Nat /\ m \in Nat OBVIOUS
  <2>2. SUFFICES ASSUME n < m PROVE FALSE BY <2>1
  <2>3. <<n, m>> \in Nat \X Nat /\ <<n, m>>[1] = n /\ <<n, m>>[2] = m BY <2>1
  <2>4. <<n, m>> \in R BY <2>2, <2>3, Zenon DEF OpToRel
  <2> QED BY <2>4, <1>1
<1> QED BY <1>2

LEMMA LowestIsOne == ASSUME NEW S \in SUBSET Nat, S # {} PROVE lowest(S) \in S
  BY LeastNatural DEF lowest

\* What RemoveAt leaves of a list.
LEMMA RemoveAtProperties ==
    ASSUME NEW S, NEW s \in Seq(S), NEW k \in DOMAIN s
    PROVE  /\ RemoveAt(s, k) \in Seq(S)
           /\ Len(RemoveAt(s, k)) = Len(s) - 1
           /\ \A j \in 1 .. Len(s) - 1 :
                 RemoveAt(s, k)[j] = IF j < k THEN s[j] ELSE s[j + 1]
<1> DEFINE a == SubSeq(s, 1, k - 1)
           b == SubSeq(s, k + 1, Len(s))
<1>1. k \in 1 .. Len(s) /\ Len(s) \in Nat /\ \A i \in 1 .. Len(s) : s[i] \in S OBVIOUS
<1>2. /\ a \in Seq(S) /\ Len(a) = k - 1
      /\ \A i \in 1 .. k - 1 : a[i] = s[i]
  <2>1. \A i \in 1 .. k - 1 : s[i] \in S BY <1>1
  <2>2. /\ SubSeq(s, 1, k - 1) \in Seq(S)
        /\ Len(SubSeq(s, 1, k - 1)) = IF 1 <= k - 1 THEN (k - 1) - 1 + 1 ELSE 0
        /\ \A i \in 1 .. (k - 1) - 1 + 1 : SubSeq(s, 1, k - 1)[i] = s[1 + i - 1]
    BY <1>1, <2>1, SubSeqProperties
  <2> QED BY <1>1, <2>2
<1>3. /\ b \in Seq(S) /\ Len(b) = Len(s) - k
      /\ \A i \in 1 .. Len(s) - k : b[i] = s[k + i]
  <2>1. \A i \in k + 1 .. Len(s) : s[i] \in S BY <1>1
  <2>2. /\ SubSeq(s, k + 1, Len(s)) \in Seq(S)
        /\ Len(SubSeq(s, k + 1, Len(s))) =
              IF k + 1 <= Len(s) THEN Len(s) - (k + 1) + 1 ELSE 0
        /\ \A i \in 1 .. Len(s) - (k + 1) + 1 : SubSeq(s, k + 1, Len(s))[i] = s[(k + 1) + i - 1]
    BY <1>1, <2>1, SubSeqProperties
  <2> QED BY <1>1, <2>2
<1> HIDE DEF a, b
<1>4. /\ a \o b \in Seq(S) /\ Len(a \o b) = Len(a) + Len(b)
      /\ \A i \in 1 .. Len(a) + Len(b) :
            (a \o b)[i] = IF i <= Len(a) THEN a[i] ELSE b[i - Len(a)]
  BY <1>2, <1>3, ConcatProperties
<1>5. RemoveAt(s, k) = a \o b BY DEF RemoveAt, a, b
<1>6. Len(a) + Len(b) = Len(s) - 1 BY <1>1, <1>2, <1>3
<1>7. ASSUME NEW j \in 1 .. Len(s) - 1
      PROVE  (a \o b)[j] = IF j < k THEN s[j] ELSE s[j + 1]
  <2>1. CASE j < k
    <3>1. j \in 1 .. k - 1 /\ j <= Len(a) BY <1>1, <1>2, <2>1
    <3> QED BY <1>2, <1>4, <1>6, <2>1, <3>1
  <2>2. CASE ~ (j < k)
    <3>1. j - (k - 1) \in 1 .. Len(s) - k /\ ~ (j <= Len(a)) BY <1>1, <1>2, <2>2
    <3>2. b[j - (k - 1)] = s[k + (j - (k - 1))] BY <1>3, <3>1
    <3>3. k + (j - (k - 1)) = j + 1 BY <1>1
    <3>4. (a \o b)[j] = b[j - (k - 1)] BY <1>2, <1>4, <1>6, <3>1
    <3> QED BY <2>2, <3>2, <3>3, <3>4
  <2> QED BY <2>1, <2>2
<1> QED BY <1>4, <1>5, <1>6, <1>7

LEMMA LiveEntry ==
    ASSUME TypeOK
    PROVE  /\ Live \subseteq ID /\ Live \subseteq Nat
           /\ \A id \in Live : table[id] \in Entry
           /\ \A id \in ID : Known(id) <=> id \in Live
           /\ \A id : id \in Live <=> id \in ID /\ table[id] # NoEntry
  BY BoundsAssumption, NoEntryAssumption DEF TypeOK, Live, Known, ID, NoID

-----------------------------------------------------------------------------
(***************************************************************************)
(* What a step does to the table: it rewrites an entry, erases one or      *)
(* leaves it alone; only add makes one.                                    *)
(***************************************************************************)
Table == [ID -> Entry \union {NoEntry}]
State == {"Null", "Paging", "AnsweredPaging", "Served"}

Rewritten(t, id) ==
    /\ t \in Table
    /\ \A i \in ID \ {id} : t[i] = table[i]
    /\ t[id] # NoEntry <=> table[id] # NoEntry
    /\ table[id] # NoEntry => t[id].call = table[id].call

\* An entry of the table with one or two of its fields set.
LEMMA EntrySet ==
    ASSUME NEW e \in Entry, NEW st \in State, NEW t \in {"off", "running", "expired"},
           NEW c \in Channels \union {None}, NEW o \in BOOLEAN
    PROVE  /\ [e EXCEPT !.state = st, !.old = o] \in Entry
           /\ [e EXCEPT !.t3113 = t] \in Entry
           /\ [e EXCEPT !.channel = c] \in Entry
           /\ [e EXCEPT !.old = o] \in Entry
  BY DEF Entry, State

LEMMA GSMStateSets ==
    ASSUME TypeOK, NEW id \in ID, NEW st \in State
    PROVE  /\ Rewritten(GSMState(id, st), id)
           /\ id \in Live => /\ GSMState(id, st)[id].state = st
                             /\ GSMState(id, st)[id].t3113 = table[id].t3113
                             /\ GSMState(id, st)[id] \in Entry
<1>1. table \in Table /\ (Known(id) <=> table[id] # NoEntry) /\ (id \in Live <=> table[id] # NoEntry)
  BY LiveEntry DEF TypeOK, Table
<1>2. CASE table[id] # NoEntry
  <2> DEFINE e == [table[id] EXCEPT !.state = st, !.old = FALSE]
  <2>1. table[id] \in Entry BY <1>1, <1>2 DEF Table
  <2>2. /\ e \in Entry /\ e.call = table[id].call /\ e.state = st /\ e.t3113 = table[id].t3113
    BY <2>1 DEF Entry, State
  <2>3. GSMState(id, st) = [table EXCEPT ![id] = e] BY <1>1, <1>2, <2>1 DEF GSMState, Table, Entry
  <2> HIDE DEF e
  <2>4. e # NoEntry BY <2>2, NoEntryAssumption
  <2> QED BY <1>1, <1>2, <2>2, <2>3, <2>4 DEF Rewritten, Table
<1>3. CASE table[id] = NoEntry
  <2>1. GSMState(id, st) = table BY <1>1, <1>3 DEF GSMState
  <2> QED BY <1>1, <1>3, <2>1 DEF Rewritten
<1> QED BY <1>2, <1>3

LEMMA T3113Set ==
    ASSUME NEW e \in Entry, NEW t \in {"off", "running", "expired"}
    PROVE  LET u == [e EXCEPT !.t3113 = t]
           IN  /\ u \in Entry /\ u # NoEntry
               /\ u.call = e.call /\ u.state = e.state /\ u.t3113 = t
  BY NoEntryAssumption DEF Entry

\* What a step changes, sorted: the entries that are rewritten with no new page in them,
\* the one that is erased with its FIFO, and a thread that goes on with what it had.
Same == UNCHANGED <<table, fifo>>

Taken(id) == table[id].state = "Paging" \/ \E c \in Channels : Serving(c) /\ dcch[c].id = id

Harmless(id) ==
    /\ Rewritten(table', id) /\ fifo' = fifo
    /\ id \in Live =>
          /\ \/ table'[id].state = table[id].state
             \/ table'[id].state # "Paging" /\ Taken(id)
          /\ table'[id].t3113 = "running" => table[id].t3113 = "running"

Erases(id) ==
    /\ table' \in Table /\ \A i \in ID \ {id} : table'[i] = table[i]
    /\ id \in Live /\ table'[id] = NoEntry /\ fifo' = fifo \ {table[id].call}

Quiet == Same \/ \E id \in ID : Harmless(id) \/ Erases(id)

SipGoesOn ==
    /\ nextID' = nextID
    /\ sip'.pc = "add" <=> sip.pc = "add"
    /\ sip'.pc = "setPaging" => sip.pc = "setPaging"
    /\ sip'.pc = "list" => sip.pc = "list"
    /\ sip'.pc \in {"add", "setPaging", "list"} => sip'.call = sip.call /\ sip'.id = sip.id
    /\ sip'.pc \in {"findChannel", "readFifo"} =>
          \/ Repeats \/ sip'.call \notin fifo
          \/ sip.pc \in {"findChannel", "readFifo"} /\ sip'.call = sip.call
    /\ sip'.pc = "find" => sip.pc = "find" \/ (sip.pc = "readFifo" /\ sip.call \in fifo)

ServersGoOn ==
    \A c \in Channels : Serving(c)' => Serving(c) /\ dcch'[c].id = dcch[c].id

ListenersGoOn ==
    \A c \in Channels : dcch[c].pc = "answeredPaging" =>
        dcch'[c].pc = "answeredPaging" /\ dcch'[c].mobile = dcch[c].mobile

LEMMA InnerRemove == ASSUME TypeOK, NEW id \in ID, innerRemove(id) PROVE Erases(id) \/ Same
<1>1. table \in Table /\ (Known(id) <=> id \in Live) BY LiveEntry DEF TypeOK, Table
<1>2. CASE id \in Live
  <2>1. table' = [table EXCEPT ![id] = NoEntry] /\ fifo' = fifo \ {table[id].call}
    BY <1>1, <1>2 DEF innerRemove
  <2> QED BY <1>1, <1>2, <2>1 DEF Erases, Table
<1>3. CASE id \notin Live BY <1>1, <1>3 DEF innerRemove, Same
<1> QED BY <1>2, <1>3

LEMMA GSMStateHarmless ==
    ASSUME TypeOK, NEW id \in ID, NEW st \in State, st # "Paging",
           table' = GSMState(id, st), fifo' = fifo, Taken(id)
    PROVE  Harmless(id)
  BY GSMStateSets DEF Harmless

\* One lemma for each action that changes the table.
LEMMA SweepTable == ASSUME TypeInv, clearDeadEntries PROVE Quiet
<1>1. CASE UNCHANGED <<table, fifo>> BY <1>1 DEF Quiet, Same
<1>2. CASE sip.dying /\ innerRemove(sip.at)
  <2>1. sip.at \in ID BY <1>2 DEF TypeInv, Placed
  <2> QED BY <1>2, <2>1, InnerRemove DEF TypeInv, Quiet
<1> QED BY <1>1, <1>2 DEF clearDeadEntries

LEMMA DcchSweepTable ==
    ASSUME TypeInv, NEW c \in Channels, dcchClearDeadEntries(c) PROVE Quiet
<1>1. CASE UNCHANGED <<table, fifo>> BY <1>1 DEF Quiet, Same
<1>2. CASE dcch[c].dying /\ innerRemove(dcch[c].at)
  <2>1. dcch[c].at \in ID BY <1>2 DEF TypeInv, Placed
  <2> QED BY <1>2, <2>1, InnerRemove DEF TypeInv, Quiet
<1> QED BY <1>1, <1>2 DEF dcchClearDeadEntries

LEMMA PagingIDs ==
    ASSUME TypeOK, NEW k \in DOMAIN paging
    PROVE  /\ paging[k] \in [mobile : Mobiles, id : ID]
           /\ paging[k].id \in ID /\ paging[k].mobile \in Mobiles
<1> DEFINE S == [mobile : Mobiles, id : ID]
<1>1. paging \in Seq(S) BY DEF TypeOK
<1> HIDE DEF S
<1>2. paging[k] \in S BY <1>1
<1> QED BY <1>2 DEF S

LEMMA PageAllTable == ASSUME TypeInv, pageAll PROVE Quiet
<1>1. PICK k \in DOMAIN paging : removePaging(paging[k].id) BY DEF pageAll
<1>2. CASE UNCHANGED <<table, fifo>> BY <1>2 DEF Quiet, Same
<1>3. CASE innerRemove(paging[k].id)
  BY <1>3, PagingIDs, InnerRemove DEF TypeInv, Quiet
<1> QED BY <1>1, <1>2, <1>3 DEF removePaging

LEMMA PagedBy ==
    ASSUME TypeInv, NEW m
    PROVE  /\ pagedBy(m) \subseteq Live
           /\ \A id \in pagedBy(m) : table[id].state = "Paging" /\ mobileOf(id) = m
           /\ pagedBy(m) # {} => lowest(pagedBy(m)) \in pagedBy(m)
<1>1. pagedBy(m) \subseteq Live BY DEF pagedBy
<1>2. pagedBy(m) \in SUBSET Nat BY <1>1, LiveEntry DEF TypeInv
<1> QED BY <1>1, <1>2, LowestIsOne DEF pagedBy

LEMMA AnsweredTable ==
    ASSUME TypeInv, NEW id \in Live, table[id].state = "Paging"
    PROVE  /\ Rewritten(answeredPaging(id), id)
           /\ answeredPaging(id)[id].state = "AnsweredPaging"
           /\ answeredPaging(id)[id].t3113 = "off"
<1> DEFINE s == GSMState(id, "AnsweredPaging")
<1>1. id \in ID /\ TypeOK /\ table[id] # NoEntry BY LiveEntry DEF TypeInv
<1>2. /\ Rewritten(s, id) /\ s[id].state = "AnsweredPaging" /\ s[id] \in Entry
  BY <1>1, GSMStateSets DEF State
<1>3. answeredPaging(id) = [s EXCEPT ![id].t3113 = "off"] BY DEF answeredPaging
<1> HIDE DEF s
<1> DEFINE e == [s[id] EXCEPT !.t3113 = "off"]
<1>4. s \in Table /\ s[id].call = table[id].call BY <1>1, <1>2 DEF Rewritten
<1>5. answeredPaging(id) = [s EXCEPT ![id] = e] BY <1>1, <1>3, <1>4 DEF Table
<1>6. /\ e \in Entry /\ e # NoEntry /\ e.call = s[id].call /\ e.state = s[id].state
      /\ e.t3113 = "off"
  BY <1>2, T3113Set
<1> HIDE DEF e, answeredPaging
<1> QED BY <1>1, <1>2, <1>4, <1>5, <1>6 DEF Rewritten, Table

LEMMA FindsTable ==
    ASSUME TypeInv, NEW c \in Channels, responseFinds(c)
    PROVE  \/ /\ pagedBy(dcch[c].mobile) = {}
              /\ Same /\ dcch' = [dcch EXCEPT ![c].pc = "idle", ![c].at = 1]
           \/ \E id \in pagedBy(dcch[c].mobile) :
                 /\ Harmless(id) /\ table'[id].state = "AnsweredPaging"
                 /\ dcch' = [dcch EXCEPT ![c].pc = "attach", ![c].at = 1, ![c].id = id]
<1> DEFINE found == pagedBy(dcch[c].mobile)
           id == lowest(found)
<1>1. CASE found = {} BY <1>1 DEF responseFinds, Same
<1>2. CASE found # {}
  <2>1. /\ table' = answeredPaging(id) /\ fifo' = fifo
        /\ dcch' = [dcch EXCEPT ![c].pc = "attach", ![c].at = 1, ![c].id = id]
    BY <1>2 DEF responseFinds
  <2>2. id \in found /\ id \in Live /\ table[id].state = "Paging" BY <1>2, PagedBy
  <2> HIDE DEF found, id
  <2>3. Harmless(id) /\ table'[id].state = "AnsweredPaging"
    BY <2>1, <2>2, AnsweredTable DEF Harmless, Taken
  <2> QED BY <2>1, <2>2, <2>3 DEF found
<1> QED BY <1>1, <1>2

LEMMA AttachTable == ASSUME TypeInv, NEW c \in Channels, attachChannel(c) PROVE Quiet
<1> DEFINE id == dcch[c].id
           e == [table[id] EXCEPT !.channel = c]
<1>1. id \in ID /\ TypeOK /\ table \in Table
  BY DEF attachChannel, dcchGoes, TypeInv, TypeOK, Placed, Serving, Table
<1>2. CASE id \in Live
  <2>1. /\ table[id] \in Entry /\ e \in Entry /\ e.call = table[id].call
        /\ e.state = table[id].state /\ e.t3113 = table[id].t3113
    BY <1>1, <1>2, LiveEntry DEF Entry
  <2>2. table' = [table EXCEPT ![id] = e] /\ fifo' = fifo
    BY <1>1, <1>2, LiveEntry DEF attachChannel, Table
  <2> HIDE DEF e
  <2>3. e # NoEntry /\ table[id] # NoEntry BY <2>1, NoEntryAssumption
  <2>4. Harmless(id) BY <1>1, <2>1, <2>2, <2>3 DEF Harmless, Rewritten, Table
  <2> QED BY <1>1, <2>4 DEF Quiet
<1>3. CASE id \notin Live BY <1>1, <1>3, LiveEntry DEF attachChannel, Quiet, Same
<1> QED BY <1>2, <1>3

LEMMA StartsTable == ASSUME TypeInv, NEW c \in Channels, starts(c) PROVE Quiet
<1>1. dcch[c].id \in ID /\ TypeOK /\ Taken(dcch[c].id)
  BY DEF starts, dcchGoes, TypeInv, Placed, Serving, Taken
<1> QED BY <1>1, GSMStateHarmless DEF starts, Quiet, State

LEMMA FinishesTable == ASSUME TypeInv, NEW c \in Channels, finishes(c) PROVE Quiet
<1>1. dcch[c].id \in ID /\ TypeOK BY DEF finishes, dcchGoes, TypeInv, Placed, Serving
<1> QED BY <1>1, InnerRemove DEF finishes, Quiet, Same

LEMMA ExpireTable == ASSUME TypeInv, NEW id \in ID, expireT3113(id) PROVE Quiet
<1> DEFINE e == [table[id] EXCEPT !.t3113 = "expired"]
<1>1. /\ id \in Live /\ table[id] \in Entry /\ table \in Table
      /\ table' = [table EXCEPT ![id].t3113 = "expired"] /\ fifo' = fifo
  BY LiveEntry DEF expireT3113, TypeInv, TypeOK, Table
<1>2. /\ e \in Entry /\ e # NoEntry /\ e.call = table[id].call
      /\ e.state = table[id].state /\ e.t3113 = "expired"
  BY <1>1, T3113Set
<1>3. table' = [table EXCEPT ![id] = e] BY <1>1 DEF Table
<1> HIDE DEF e
<1>4. table[id] # NoEntry BY <1>1, NoEntryAssumption
<1>5. Harmless(id) BY <1>1, <1>2, <1>3, <1>4 DEF Harmless, Rewritten, Table
<1> QED BY <1>5 DEF Quiet

LEMMA GrowTable == ASSUME TypeInv, NEW id \in ID, grow180s(id) PROVE Quiet
<1> DEFINE e == [table[id] EXCEPT !.old = TRUE]
<1>1. /\ id \in Live /\ table[id] \in Entry /\ table \in Table
      /\ table' = [table EXCEPT ![id].old = TRUE] /\ fifo' = fifo
  BY LiveEntry DEF grow180s, TypeInv, TypeOK, Table
<1>2. /\ e \in Entry /\ e.call = table[id].call
      /\ e.state = table[id].state /\ e.t3113 = table[id].t3113
  BY <1>1 DEF Entry
<1>3. table' = [table EXCEPT ![id] = e] BY <1>1 DEF Table
<1> HIDE DEF e
<1>4. e # NoEntry /\ table[id] # NoEntry BY <1>1, <1>2, NoEntryAssumption
<1>5. Harmless(id) BY <1>1, <1>2, <1>3, <1>4 DEF Harmless, Rewritten, Table
<1> QED BY <1>5 DEF Quiet

-----------------------------------------------------------------------------
(***************************************************************************)
(* Types.                                                                  *)
(***************************************************************************)
Tables == table \in Table /\ nextID \in 1 .. MaxTrans + 1 /\ fifo \subseteq Calls

List ==
    /\ paging \in Seq([mobile : Mobiles, id : ID])
    /\ \A j, k \in DOMAIN paging : paging[j].mobile = paging[k].mobile => j = k

SipThread ==
    /\ sip \in [pc : SipPC, call : Calls \union {None}, id : ID \union {NoID},
                at : SweepAt, dying : BOOLEAN, found : BOOLEAN]
    /\ sip.pc # "idle" => sip.call \in Calls
    /\ sip.pc \in {"add", "setPaging", "list"} => sip.id \in ID
    /\ sip.dying => sip.at \in ID

Worker == [pc : DcchPC, mobile : Mobiles \union {None}, id : ID \union {NoID}, at : SweepAt,
           dying : BOOLEAN]
PlacedWorker(w) ==
    /\ w.pc # "idle" => w.mobile \in Mobiles
    /\ w.pc \in {"attach", "start", "serve"} => w.id \in ID
    /\ w.dying => w.at \in ID
Workers == dcch \in [Channels -> Worker] /\ \A c \in Channels : PlacedWorker(dcch[c])

Counters == invites \in 0 .. MaxInvites /\ replies \in 0 .. MaxReplies

LEMMA TypeParts == TypeInv <=> Tables /\ List /\ SipThread /\ Workers /\ Counters
  BY DEF TypeInv, TypeOK, Placed, Serving, Tables, Table, List, SipThread, Workers, Worker,
         PlacedWorker, Counters

LEMMA TypePartsNext == TypeInv' <=> Tables' /\ List' /\ SipThread' /\ Workers' /\ Counters'
  BY DEF TypeInv, TypeOK, Placed, Serving, Tables, Table, List, SipThread, Workers, Worker,
         PlacedWorker, Counters

LEMMA QuietTables == ASSUME Tables, Quiet, nextID' = nextID PROVE Tables'
<1>1. CASE Same BY <1>1 DEF Same, Tables, Table
<1>2. ASSUME NEW id \in ID, Harmless(id) PROVE Tables'
  BY <1>2 DEF Harmless, Rewritten, Tables, Table
<1>3. ASSUME NEW id \in ID, Erases(id) PROVE Tables' BY <1>3 DEF Erases, Tables, Table
<1> QED BY <1>1, <1>2, <1>3 DEF Quiet

\* The entry that each of the steps of the sweep looks at next is one of the table.
LEMMA SweepStaysIn ==
    ASSUME NEW at \in ID PROVE at + 1 \in SweepAt /\ at \in Int
  BY BoundsAssumption DEF ID, SweepAt

LEMMA FirstSweepAt == 1 \in SweepAt BY BoundsAssumption DEF SweepAt

LEMMA WorkerMoves ==
    ASSUME Workers, NEW c \in Channels, NEW w \in Worker, PlacedWorker(w),
           dcch' = [dcch EXCEPT ![c] = w]
    PROVE  Workers'
<1>1. dcch' \in [Channels -> Worker] BY DEF Workers
<1>2. \A d \in Channels : dcch'[d] = IF d = c THEN w ELSE dcch[d] BY DEF Workers
<1>3. Worker' = Worker /\ \A d \in Channels : PlacedWorker(dcch'[d])
  BY <1>2 DEF Workers, PlacedWorker, Worker
<1> QED BY <1>1, <1>3 DEF Workers, PlacedWorker

LEMMA WorkerIs ==
    ASSUME Workers, NEW c \in Channels
    PROVE  dcch[c] \in Worker /\ PlacedWorker(dcch[c])
  BY DEF Workers

\* Where a thread of a channel goes in one step with nothing but pc changed.
LEMMA DcchGoes ==
    ASSUME Workers, NEW c \in Channels, NEW from \in DcchPC, NEW to \in DcchPC,
           dcchGoes(c, from, to), from # "idle",
           to \in {"attach", "start", "serve"} => from \in {"attach", "start", "serve"}
    PROVE  Workers'
<1> DEFINE w == [dcch[c] EXCEPT !.pc = to]
<1>1. dcch[c] \in Worker /\ PlacedWorker(dcch[c]) /\ dcch[c].pc = from
  BY WorkerIs DEF dcchGoes
<1>2. w \in Worker /\ PlacedWorker(w) BY <1>1 DEF Worker, PlacedWorker
<1>3. dcch' = [dcch EXCEPT ![c] = w] BY DEF dcchGoes, Workers
<1> HIDE DEF w
<1> QED BY <1>2, <1>3, WorkerMoves

LEMMA SipGoes ==
    ASSUME SipThread, NEW from \in SipPC, NEW to \in SipPC, sipGoes(from, to), from # "idle",
           to \in {"add", "setPaging", "list"} => from \in {"add", "setPaging", "list"}
    PROVE  SipThread'
  BY DEF sipGoes, SipThread

LEMMA RemoveAtList ==
    ASSUME List, NEW k \in DOMAIN paging, paging' = RemoveAt(paging, k)
    PROVE  /\ List'
           /\ \A j \in DOMAIN paging :
                 j # k => \E i \in DOMAIN paging' : paging'[i] = paging[j]
<1> DEFINE S == [mobile : Mobiles, id : ID]
<1>1. paging \in Seq(S) BY DEF List
<1> HIDE DEF S
<1>2. /\ paging' \in Seq(S) /\ Len(paging') = Len(paging) - 1
      /\ \A j \in 1 .. Len(paging) - 1 :
            paging'[j] = IF j < k THEN paging[j] ELSE paging[j + 1]
  BY <1>1, RemoveAtProperties
<1>3. /\ Len(paging) \in Nat /\ k \in 1 .. Len(paging)
      /\ DOMAIN paging = 1 .. Len(paging) /\ DOMAIN paging' = 1 .. Len(paging) - 1
  BY <1>1, <1>2
<1> DEFINE at(j) == IF j < k THEN j ELSE j + 1
<1>4. \A j \in DOMAIN paging' : at(j) \in DOMAIN paging /\ paging'[j] = paging[at(j)]
  BY <1>2, <1>3
<1>5. \A i, j \in DOMAIN paging' : at(i) = at(j) => i = j BY <1>3
<1>6. \A i, j \in DOMAIN paging' : paging'[i].mobile = paging'[j].mobile => i = j
  <2> HIDE DEF at
  <2> QED BY <1>4, <1>5 DEF List
<1>7. ASSUME NEW j \in DOMAIN paging, j # k
      PROVE  \E i \in DOMAIN paging' : paging'[i] = paging[j]
  <2>1. CASE j < k
    <3>1. j \in DOMAIN paging' BY <1>3, <2>1
    <3> QED BY <1>4, <2>1, <3>1
  <2>2. CASE ~ (j < k)
    <3>1. j - 1 \in DOMAIN paging' /\ at(j - 1) = j BY <1>3, <1>7, <2>2
    <3> QED BY <1>4, <3>1
  <2> QED BY <2>1, <2>2
<1> QED BY <1>2, <1>6, <1>7 DEF List, S

LEMMA AppendList ==
    ASSUME List, NEW p \in [mobile : Mobiles, id : ID], paging' = Append(paging, p),
           ~ \E k \in DOMAIN paging : paging[k].mobile = p.mobile
    PROVE  /\ List'
           /\ \A j \in DOMAIN paging : j \in DOMAIN paging' /\ paging'[j] = paging[j]
           /\ \E j \in DOMAIN paging' : paging'[j] = p
<1> DEFINE S == [mobile : Mobiles, id : ID]
<1>1. paging \in Seq(S) /\ p \in S BY DEF List
<1> HIDE DEF S
<1>2. /\ paging' \in Seq(S) /\ Len(paging') = Len(paging) + 1
      /\ \A i \in 1 .. Len(paging) : paging'[i] = paging[i]
      /\ paging'[Len(paging) + 1] = p
  BY <1>1, AppendProperties
<1>3. /\ Len(paging) \in Nat
      /\ DOMAIN paging = 1 .. Len(paging) /\ DOMAIN paging' = 1 .. Len(paging) + 1
  BY <1>1, <1>2
<1>4. \A j \in DOMAIN paging' : j \in DOMAIN paging \/ j = Len(paging) + 1 BY <1>3
<1>5. \A j \in DOMAIN paging : j \in DOMAIN paging' /\ paging'[j] = paging[j]
                               /\ paging[j].mobile # p.mobile
  BY <1>2, <1>3
<1>6. \A i, j \in DOMAIN paging' : paging'[i].mobile = paging'[j].mobile => i = j
  BY <1>2, <1>4, <1>5 DEF List
<1> QED BY <1>2, <1>3, <1>5, <1>6 DEF List, S

\* What addID and removeID make of the list.
LEMMA RenewedList ==
    ASSUME List, NEW m \in Mobiles, NEW id \in ID, paging' = renewed(m, id)
    PROVE  /\ List'
           /\ \A j \in DOMAIN paging : \E i \in DOMAIN paging' : paging'[i] = paging[j]
           /\ \E i \in DOMAIN paging' : paging'[i].mobile = m
<1> DEFINE p == [mobile |-> m, id |-> id]
<1>1. CASE \E k \in DOMAIN paging : paging[k].mobile = m
  <2>1. paging' = paging BY <1>1 DEF renewed
  <2> QED BY <1>1, <2>1 DEF List
<1>2. CASE ~ \E k \in DOMAIN paging : paging[k].mobile = m
  <2>1. paging' = Append(paging, p) /\ p.mobile = m /\ p \in [mobile : Mobiles, id : ID]
    BY <1>2 DEF renewed
  <2> HIDE DEF p
  <2> QED BY <1>2, <2>1, AppendList
<1> QED BY <1>1, <1>2

LEMMA RemoveIDList ==
    ASSUME List, NEW m, paging' = removeID(m)
    PROVE  /\ List'
           /\ \A j \in DOMAIN paging :
                 paging[j].mobile # m => \E i \in DOMAIN paging' : paging'[i] = paging[j]
<1> DEFINE of == {k \in DOMAIN paging : paging[k].mobile = m}
<1>1. CASE of = {}
  <2>1. paging' = paging BY <1>1 DEF removeID
  <2> QED BY <2>1 DEF List
<1>2. CASE of # {}
  <2>1. paging' = RemoveAt(paging, lowest(of)) BY <1>2 DEF removeID
  <2>2. DOMAIN paging \in SUBSET Nat BY DEF List
  <2>3. lowest(of) \in of BY <1>2, <2>2, LowestIsOne
  <2>4. lowest(of) \in DOMAIN paging /\ paging[lowest(of)].mobile = m BY <2>3
  <2> QED BY <2>1, <2>4, RemoveAtList
<1> QED BY <1>1, <1>2

\* A step that leaves a part alone keeps its types.
LEMMA SamePart ==
    /\ Tables /\ UNCHANGED <<table, nextID, fifo>> => Tables'
    /\ List /\ UNCHANGED paging => List'
    /\ SipThread /\ UNCHANGED sip => SipThread'
    /\ Workers /\ UNCHANGED dcch => Workers'
    /\ Counters /\ UNCHANGED <<invites, replies>> => Counters'
  BY DEF Tables, Table, List, SipThread, Workers, Worker, PlacedWorker, Counters

LEMMA SipLooksAt ==
    ASSUME SipThread, ~swept(sip), ~sip.dying, sip' = looksAt(sip), sip.pc \in {"findChannel", "find"}
    PROVE  SipThread' /\ sip'.pc = sip.pc /\ sip'.call = sip.call /\ sip'.id = sip.id
<1>1. sip.at \in ID /\ sip.at + 1 \in SweepAt /\ sip.at \in Int BY SweepStaysIn DEF swept
<1>2. sip' = [sip EXCEPT !.dying = TRUE] \/ sip' = [sip EXCEPT !.at = @ + 1] BY DEF looksAt
<1> QED BY <1>1, <1>2 DEF SipThread

LEMMA WorkerLooksAt ==
    ASSUME NEW w \in Worker, PlacedWorker(w), ~swept(w), ~w.dying
    PROVE  /\ looksAt(w) \in Worker /\ PlacedWorker(looksAt(w))
           /\ looksAt(w).pc = w.pc /\ looksAt(w).mobile = w.mobile /\ looksAt(w).id = w.id
<1>1. w.at \in ID /\ w.at + 1 \in SweepAt /\ w.at \in Int BY SweepStaysIn DEF swept
<1>2. looksAt(w) = [w EXCEPT !.dying = TRUE] \/ looksAt(w) = [w EXCEPT !.at = @ + 1]
  BY DEF looksAt
<1> QED BY <1>1, <1>2 DEF Worker, PlacedWorker

LEMMA SipSweeps ==
    ASSUME TypeInv, clearDeadEntries
    PROVE  /\ TypeInv' /\ Quiet /\ SipGoesOn /\ ServersGoOn /\ ListenersGoOn
           /\ paging' = paging /\ sip'.pc = sip.pc /\ sip'.id = sip.id
<1>1. Tables /\ List /\ SipThread /\ Workers /\ Counters BY TypeParts
<1>2. UNCHANGED <<nextID, paging, dcch, invites, replies>> BY DEF clearDeadEntries
<1>3. Quiet BY SweepTable
<1>4. SipThread' /\ sip'.pc = sip.pc /\ sip'.call = sip.call /\ sip'.id = sip.id
  <2>1. CASE ~sip.dying
    <3>1. ~swept(sip) /\ sip' = looksAt(sip) /\ sip.pc \in {"findChannel", "find"}
      BY <2>1 DEF clearDeadEntries
    <3> QED BY <1>1, <2>1, <3>1, SipLooksAt
  <2>2. CASE sip.dying
    <3>1. sip' = [sip EXCEPT !.at = @ + 1, !.dying = FALSE] BY <2>2 DEF clearDeadEntries
    <3>2. sip.at + 1 \in SweepAt /\ sip.at \in Int BY <1>1, <2>2, SweepStaysIn DEF SipThread
    <3> QED BY <1>1, <3>1, <3>2 DEF SipThread
  <2> QED BY <2>1, <2>2
<1>5. Tables' /\ List' /\ Workers' /\ Counters' BY <1>1, <1>2, <1>3, QuietTables, SamePart
<1>6. SipGoesOn
  <2>1. nextID' = nextID BY <1>2
  <2> QED BY <1>4, <2>1, Zenon DEF SipGoesOn
<1>7. ServersGoOn /\ ListenersGoOn BY <1>2 DEF ServersGoOn, ListenersGoOn, Serving
<1> QED BY <1>2, <1>3, <1>4, <1>5, <1>6, <1>7, TypePartsNext

LEMMA RequestArrives ==
    ASSUME TypeInv, NEW c \in Calls, requestArrives(c)
    PROVE  TypeInv' /\ Quiet /\ SipGoesOn /\ ServersGoOn /\ ListenersGoOn
<1>1. Tables /\ List /\ SipThread /\ Workers /\ Counters BY TypeParts
<1>2. /\ UNCHANGED <<table, fifo>> /\ nextID' = nextID /\ paging' = paging /\ dcch' = dcch
      /\ sip.pc = "idle" /\ (Repeats \/ c \notin fifo)
      /\ sip' = [pc |-> "findChannel", call |-> c, id |-> NoID, at |-> 1, dying |-> FALSE,
                 found |-> FALSE]
      /\ invites < MaxInvites /\ invites' = invites + 1 /\ replies' = replies
  BY DEF requestArrives
<1>3. SipThread' BY <1>2, FirstSweepAt DEF SipThread, SipPC
<1>4. Counters' BY <1>1, <1>2, BoundsAssumption DEF Counters
<1>5. Tables' /\ List' /\ Workers' BY <1>1, <1>2, SamePart
<1>6. SipGoesOn
  <2>1. sip'.pc = "findChannel" /\ sip'.call = c BY <1>2
  <2> QED BY <1>2, <2>1, RepeatsAssumption DEF SipGoesOn
<1>7. Quiet /\ ServersGoOn /\ ListenersGoOn
  BY <1>2 DEF Quiet, Same, ServersGoOn, ListenersGoOn, Serving
<1> QED BY <1>3, <1>4, <1>5, <1>6, <1>7, TypePartsNext

LEMMA FindChannel ==
    ASSUME TypeInv, findChannel
    PROVE  TypeInv' /\ Quiet /\ SipGoesOn /\ ServersGoOn /\ ListenersGoOn
<1>1. Tables /\ List /\ SipThread /\ Workers /\ Counters BY TypeParts
<1>2. PICK b \in BOOLEAN :
      /\ UNCHANGED <<table, fifo>> /\ nextID' = nextID /\ paging' = paging /\ dcch' = dcch
      /\ sip.pc = "findChannel" /\ sip' = [sip EXCEPT !.pc = "readFifo", !.at = 1, !.found = b]
      /\ invites' = invites /\ replies' = replies /\ swept(sip)
  BY DEF findChannel
<1>3. ~sip.dying BY <1>1, <1>2 DEF SipThread, swept
<1>4. SipThread' /\ sip'.pc = "readFifo" /\ sip'.call = sip.call
  BY <1>1, <1>2, <1>3, FirstSweepAt DEF SipThread, SipPC
<1>5. Tables' /\ List' /\ Workers' /\ Counters' BY <1>1, <1>2, SamePart
<1>6. SipGoesOn BY <1>2, <1>4 DEF SipGoesOn
<1>7. Quiet /\ ServersGoOn /\ ListenersGoOn
  BY <1>2 DEF Quiet, Same, ServersGoOn, ListenersGoOn, Serving
<1> QED BY <1>4, <1>5, <1>6, <1>7, TypePartsNext

LEMMA RepeatedOrCongestion ==
    ASSUME TypeInv, repeated \/ congestion
    PROVE  TypeInv' /\ Quiet /\ SipGoesOn /\ ServersGoOn /\ ListenersGoOn
<1>1. Tables /\ List /\ SipThread /\ Workers /\ Counters BY TypeParts
<1>2. PICK to \in {"find", "idle"} :
      /\ UNCHANGED <<table, fifo>> /\ nextID' = nextID /\ paging' = paging /\ dcch' = dcch
      /\ sipGoes("readFifo", to) /\ (to = "find" => sip.call \in fifo)
      /\ invites' = invites /\ replies' = replies
  BY DEF repeated, congestion
<1>3. sip.pc = "readFifo" /\ sip'.pc = to BY <1>1, <1>2 DEF sipGoes, SipThread
<1>4. SipThread' BY <1>1, <1>2, SipGoes DEF SipPC
<1>5. Tables' /\ List' /\ Workers' /\ Counters' BY <1>1, <1>2, SamePart
<1>6. SipGoesOn BY <1>2, <1>3 DEF SipGoesOn
<1>7. Quiet /\ ServersGoOn /\ ListenersGoOn
  BY <1>2 DEF Quiet, Same, ServersGoOn, ListenersGoOn, Serving
<1> QED BY <1>4, <1>5, <1>6, <1>7, TypePartsNext

LEMMA AddID ==
    ASSUME TypeInv, addID
    PROVE  TypeInv' /\ Quiet /\ SipGoesOn /\ ServersGoOn /\ ListenersGoOn
<1>1. Tables /\ List /\ SipThread /\ Workers /\ Counters BY TypeParts
<1>2. /\ UNCHANGED <<table, fifo>> /\ nextID' = nextID /\ dcch' = dcch
      /\ sipGoes("list", "idle") /\ paging' = renewed(MobileOf[sip.call], sip.id)
      /\ invites' = invites /\ replies' = replies
  BY DEF addID
<1>3. sip.pc = "list" /\ sip'.pc = "idle" /\ sip.call \in Calls /\ sip.id \in ID
  BY <1>1, <1>2 DEF sipGoes, SipThread
<1>4. SipThread' BY <1>1, <1>2, SipGoes DEF SipPC
<1>5. Tables' /\ List' /\ Workers' /\ Counters'
  <2>1. MobileOf[sip.call] \in Mobiles BY <1>3, MobileOfAssumption
  <2>2. List' BY <1>1, <1>2, <1>3, <2>1, RenewedList
  <2> QED BY <1>1, <1>2, <2>2, SamePart
<1>6. SipGoesOn BY <1>2, <1>3 DEF SipGoesOn
<1>7. Quiet /\ ServersGoOn /\ ListenersGoOn
  BY <1>2 DEF Quiet, Same, ServersGoOn, ListenersGoOn, Serving
<1> QED BY <1>4, <1>5, <1>6, <1>7, TypePartsNext

LEMMA AddCall ==
    ASSUME TypeInv, addCall
    PROVE  /\ TypeInv' /\ table' = table /\ dcch' = dcch /\ paging' = paging
           /\ sip.pc = "readFifo" /\ sip.call \in Calls /\ sip.call \notin fifo
           /\ fifo' = fifo \union {sip.call}
           /\ nextID \in ID /\ nextID' = nextID + 1
           /\ sip'.pc = "add" /\ sip'.call = sip.call /\ sip'.id = nextID
<1>1. Tables /\ List /\ SipThread /\ Workers /\ Counters BY TypeParts
<1>2. /\ table' = table /\ dcch' = dcch /\ paging' = paging
      /\ invites' = invites /\ replies' = replies
      /\ sip.pc = "readFifo" /\ sip.call \notin fifo /\ fifo' = fifo \union {sip.call}
      /\ nextID \in ID /\ nextID' = nextID + 1
      /\ sip' = [sip EXCEPT !.pc = "add", !.id = nextID]
  BY DEF addCall
<1>3. SipThread' /\ sip'.pc = "add" /\ sip'.call = sip.call /\ sip'.id = nextID
      /\ sip.call \in Calls
  BY <1>1, <1>2 DEF SipThread, SipPC
<1>4. Tables' BY <1>1, <1>2, <1>3, BoundsAssumption DEF Tables, Table, ID
<1>5. List' /\ Workers' /\ Counters' BY <1>1, <1>2, SamePart
<1> QED BY <1>2, <1>3, <1>4, <1>5, TypePartsNext

LEMMA Add ==
    ASSUME TypeInv, add
    PROVE  /\ TypeInv' /\ dcch' = dcch /\ paging' = paging /\ fifo' = fifo /\ nextID' = nextID
           /\ sip.pc = "add" /\ sip'.pc = "setPaging"
           /\ sip'.call = sip.call /\ sip'.id = sip.id /\ sip.id \in ID
           /\ \A i \in ID \ {sip.id} : table'[i] = table[i]
           /\ table'[sip.id] # NoEntry /\ table'[sip.id].call = sip.call
           /\ table'[sip.id].state = "Null"
<1> DEFINE e == [call |-> sip.call, state |-> "Null", t3113 |-> "off", channel |-> None,
                 old |-> FALSE]
<1>1. Tables /\ List /\ SipThread /\ Workers /\ Counters BY TypeParts
<1>2. /\ dcch' = dcch /\ paging' = paging /\ fifo' = fifo /\ nextID' = nextID
      /\ invites' = invites /\ replies' = replies
      /\ sipGoes("add", "setPaging") /\ table' = [table EXCEPT ![sip.id] = e]
  BY DEF add
<1>3. /\ sip.pc = "add" /\ sip'.pc = "setPaging" /\ sip'.call = sip.call /\ sip'.id = sip.id
      /\ sip.id \in ID /\ sip.call \in Calls
  BY <1>1, <1>2 DEF sipGoes, SipThread
<1>4. SipThread' BY <1>1, <1>2, SipGoes DEF SipPC
<1>5. e \in Entry /\ e.call = sip.call /\ e.state = "Null" BY <1>3 DEF Entry
<1> HIDE DEF e
<1>6. e # NoEntry BY <1>5, NoEntryAssumption
<1>7. Tables' BY <1>1, <1>2, <1>3, <1>5 DEF Tables, Table
<1>8. List' /\ Workers' /\ Counters' BY <1>1, <1>2, SamePart
<1>9. table'[sip.id] = e /\ \A i \in ID \ {sip.id} : table'[i] = table[i]
  BY <1>1, <1>2, <1>3 DEF Tables, Table
<1> QED BY <1>2, <1>3, <1>4, <1>5, <1>6, <1>7, <1>8, <1>9, TypePartsNext

LEMMA Find ==
    ASSUME TypeInv, find
    PROVE  /\ TypeInv' /\ table' = table /\ dcch' = dcch /\ paging' = paging
           /\ nextID' = nextID /\ sip.pc = "find"
           /\ \/ /\ \A id \in Live : table[id].call # sip.call
                 /\ fifo' = fifo \ {sip.call} /\ sip'.pc = "idle"
              \/ /\ fifo' = fifo /\ sip'.pc = "setPaging" /\ sip'.call = sip.call
                 /\ sip'.id \in Live /\ table[sip'.id].call = sip.call
<1> DEFINE found == {id \in Live : table[id].call = sip.call}
<1>1. Tables /\ List /\ SipThread /\ Workers /\ Counters BY TypeParts
<1>2. /\ table' = table /\ dcch' = dcch /\ paging' = paging /\ nextID' = nextID
      /\ invites' = invites /\ replies' = replies /\ sip.pc = "find" /\ swept(sip)
  BY DEF find
<1>3. ~sip.dying /\ sip.call \in Calls BY <1>1, <1>2 DEF SipThread, swept
<1>4. List' /\ Workers' /\ Counters' BY <1>1, <1>2, SamePart
<1>5. CASE found = {}
  <2>1. sip' = [sip EXCEPT !.pc = "idle", !.at = 1] /\ fifo' = fifo \ {sip.call}
    BY <1>5 DEF find
  <2>2. SipThread' /\ sip'.pc = "idle"
    BY <1>1, <1>3, <2>1, FirstSweepAt DEF SipThread, SipPC
  <2>3. Tables' BY <1>1, <1>2, <2>1 DEF Tables, Table
  <2>4. \A id \in Live : table[id].call # sip.call BY <1>5
  <2> QED BY <1>2, <1>4, <2>1, <2>2, <2>3, <2>4, TypePartsNext
<1>6. CASE found # {}
  <2>1. sip' = [sip EXCEPT !.pc = "setPaging", !.at = 1, !.id = lowest(found)] /\ fifo' = fifo
    BY <1>6 DEF find
  <2>2. found \in SUBSET Nat BY LiveEntry DEF TypeInv
  <2>3. lowest(found) \in found BY <1>6, <2>2, LowestIsOne
  <2>4. lowest(found) \in Live /\ lowest(found) \in ID /\ table[lowest(found)].call = sip.call
    BY <2>3, LiveEntry DEF TypeInv
  <2> HIDE DEF found
  <2>5. SipThread' /\ sip'.pc = "setPaging" /\ sip'.id = lowest(found) /\ sip'.call = sip.call
    BY <1>1, <1>3, <2>1, <2>4, FirstSweepAt DEF SipThread, SipPC
  <2>6. Tables' BY <1>1, <1>2, <2>1, SamePart
  <2> QED BY <1>2, <1>4, <2>1, <2>4, <2>5, <2>6, TypePartsNext
<1> QED BY <1>5, <1>6

LEMMA SetPaging ==
    ASSUME TypeInv, setPaging
    PROVE  /\ TypeInv' /\ dcch' = dcch /\ paging' = paging /\ fifo' = fifo /\ nextID' = nextID
           /\ sip.pc = "setPaging" /\ sip'.pc = "list"
           /\ sip'.call = sip.call /\ sip'.id = sip.id /\ sip.id \in ID
           /\ Rewritten(table', sip.id)
<1>1. Tables /\ List /\ SipThread /\ Workers /\ Counters BY TypeParts
<1>2. /\ dcch' = dcch /\ paging' = paging /\ fifo' = fifo /\ nextID' = nextID
      /\ invites' = invites /\ replies' = replies /\ sipGoes("setPaging", "list")
  BY DEF setPaging
<1>3. /\ sip.pc = "setPaging" /\ sip'.pc = "list" /\ sip'.call = sip.call /\ sip'.id = sip.id
      /\ sip.id \in ID
  BY <1>1, <1>2 DEF sipGoes, SipThread
<1>4. SipThread' BY <1>1, <1>2, SipGoes DEF SipPC
<1>5. Rewritten(table', sip.id)
  <2> DEFINE s == GSMState(sip.id, "Paging")
             e == [s[sip.id] EXCEPT !.t3113 = "running"]
  <2>1. TypeOK /\ table \in Table BY DEF TypeInv, TypeOK, Table
  <2>2. CASE sip.id \in Live
    <3>1. Known(sip.id) BY <1>3, <2>1, <2>2, LiveEntry
    <3>2. table' = [s EXCEPT ![sip.id].t3113 = "running"] BY <3>1 DEF setPaging
    <3>3. Rewritten(s, sip.id) /\ s[sip.id] \in Entry BY <1>3, <2>1, <2>2, GSMStateSets DEF State
    <3> HIDE DEF s
    <3>4. e \in Entry /\ e # NoEntry /\ e.call = s[sip.id].call BY <3>3, T3113Set
    <3>5. table' = [s EXCEPT ![sip.id] = e] BY <3>2, <3>3 DEF Rewritten, Table
    <3> HIDE DEF e
    <3>6. table[sip.id] # NoEntry BY <2>1, <2>2, LiveEntry
    <3> QED BY <1>3, <3>3, <3>4, <3>5, <3>6 DEF Rewritten, Table
  <2>3. CASE sip.id \notin Live
    <3>1. ~Known(sip.id) BY <1>3, <2>1, <2>3, LiveEntry
    <3>2. table' = table BY <3>1 DEF setPaging
    <3> QED BY <2>1, <3>2 DEF Rewritten
  <2> QED BY <2>2, <2>3
<1>6. Tables' BY <1>1, <1>2, <1>5 DEF Rewritten, Tables, Table
<1>7. List' /\ Workers' /\ Counters' BY <1>1, <1>2, SamePart
<1> QED BY <1>2, <1>3, <1>4, <1>5, <1>6, <1>7, TypePartsNext

\* The pager's thread and time leave the threads alone.
LEMMA ThreadsAlone ==
    ASSUME UNCHANGED <<nextID, sip, dcch>>
    PROVE  SipGoesOn /\ ServersGoOn /\ ListenersGoOn
<1>1. nextID' = nextID /\ sip' = sip /\ dcch' = dcch OBVIOUS
<1>2. SipGoesOn BY <1>1 DEF SipGoesOn
<1> QED BY <1>1, <1>2 DEF ServersGoOn, ListenersGoOn, Serving

LEMMA PageAll ==
    ASSUME TypeInv, pageAll
    PROVE  TypeInv' /\ Quiet /\ SipGoesOn /\ ServersGoOn /\ ListenersGoOn
<1>1. Tables /\ List /\ SipThread /\ Workers /\ Counters BY TypeParts
<1>2. UNCHANGED <<nextID, sip, dcch>> /\ UNCHANGED <<invites, replies>> BY DEF pageAll
<1>3. Quiet BY PageAllTable
<1>4. PICK k \in DOMAIN paging : paging' = RemoveAt(paging, k) BY DEF pageAll
<1>5. List' BY <1>1, <1>4, RemoveAtList
<1>6. Tables' /\ SipThread' /\ Workers' /\ Counters' BY <1>1, <1>2, <1>3, QuietTables, SamePart
<1> QED BY <1>2, <1>3, <1>5, <1>6, ThreadsAlone, TypePartsNext

LEMMA Time ==
    ASSUME TypeInv, NEW id \in ID, expireT3113(id) \/ grow180s(id)
    PROVE  TypeInv' /\ Quiet /\ SipGoesOn /\ ServersGoOn /\ ListenersGoOn
<1>1. Tables /\ List /\ SipThread /\ Workers /\ Counters BY TypeParts
<1>2. UNCHANGED <<nextID, sip, dcch>> /\ UNCHANGED <<paging, invites, replies>>
  BY DEF expireT3113, grow180s
<1>3. Quiet BY ExpireTable, GrowTable
<1>4. Tables' /\ List' /\ SipThread' /\ Workers' /\ Counters'
  BY <1>1, <1>2, <1>3, QuietTables, SamePart
<1> QED BY <1>2, <1>3, <1>4, ThreadsAlone, TypePartsNext

\* A thread of a channel leaves the SIP thread alone.
LEMMA SipAlone == ASSUME UNCHANGED <<nextID, sip>> PROVE SipGoesOn
<1>1. nextID' = nextID /\ sip' = sip OBVIOUS
<1> QED BY <1>1 DEF SipGoesOn

\* One thread moves on, and serves nothing that it did not serve before.
LEMMA OneGoesOn ==
    ASSUME Workers, NEW c \in Channels, NEW w, dcch' = [dcch EXCEPT ![c] = w],
           w.pc \in {"attach", "start", "serve"} =>
              dcch[c].pc \in {"attach", "start", "serve"} /\ w.id = dcch[c].id
    PROVE  ServersGoOn
  BY DEF Workers, ServersGoOn, Serving

LEMMA OneListensOn ==
    ASSUME Workers, NEW c \in Channels, NEW w, dcch' = [dcch EXCEPT ![c] = w],
           dcch[c].pc = "answeredPaging" => w.pc = "answeredPaging" /\ w.mobile = dcch[c].mobile
    PROVE  ListenersGoOn
  BY DEF Workers, ListenersGoOn

LEMMA PagingResponse ==
    ASSUME TypeInv, NEW c \in Channels, pagingResponse(c)
    PROVE  TypeInv' /\ Quiet /\ SipGoesOn /\ ServersGoOn /\ ListenersGoOn
<1>1. Tables /\ List /\ SipThread /\ Workers /\ Counters BY TypeParts
<1>2. /\ UNCHANGED <<table, fifo>> /\ UNCHANGED <<nextID, sip>> /\ paging' = paging
      /\ invites' = invites /\ replies < MaxReplies /\ replies' = replies + 1
      /\ dcch[c].pc = "idle"
  BY DEF pagingResponse
<1>3. PICK k \in DOMAIN paging :
          dcch' = [dcch EXCEPT ![c] = [pc |-> "removeID", mobile |-> paging[k].mobile,
                                       id |-> NoID, at |-> 1, dying |-> FALSE]]
  BY DEF pagingResponse
<1> DEFINE w == [pc |-> "removeID", mobile |-> paging[k].mobile, id |-> NoID, at |-> 1,
                 dying |-> FALSE]
<1>4. paging[k].mobile \in Mobiles BY PagingIDs DEF TypeInv
<1>5. w \in Worker /\ PlacedWorker(w) /\ w.pc = "removeID"
  BY <1>4, FirstSweepAt DEF Worker, PlacedWorker, DcchPC
<1>6. dcch' = [dcch EXCEPT ![c] = w] BY <1>3
<1> HIDE DEF w
<1>7. Workers' BY <1>1, <1>5, <1>6, WorkerMoves
<1>8. Tables' /\ List' /\ SipThread' BY <1>1, <1>2, SamePart
<1>9. Counters' BY <1>1, <1>2, BoundsAssumption DEF Counters
<1>10. ServersGoOn BY <1>1, <1>5, <1>6, OneGoesOn
<1>11. ListenersGoOn BY <1>1, <1>2, <1>6, OneListensOn
<1> QED BY <1>2, <1>7, <1>8, <1>9, <1>10, <1>11, SipAlone, TypePartsNext DEF Quiet, Same

\* The steps of a channel's thread that only move it on, and what they do to the table.
LEMMA DcchMovesOn ==
    ASSUME TypeInv, NEW c \in Channels,
           NEW from \in DcchPC \ {"idle", "answeredPaging"}, NEW to \in DcchPC,
           dcchGoes(c, from, to), Quiet,
           to \in {"attach", "start", "serve"} => from \in {"attach", "start", "serve"},
           UNCHANGED <<nextID, sip>>, List', UNCHANGED <<invites, replies>>
    PROVE  TypeInv' /\ SipGoesOn /\ ServersGoOn /\ ListenersGoOn
<1> DEFINE w == [dcch[c] EXCEPT !.pc = to]
<1>1. Tables /\ List /\ SipThread /\ Workers /\ Counters BY TypeParts
<1>2. dcch[c].pc = from /\ w.pc = to /\ w.id = dcch[c].id
  <2>1. dcch[c] \in Worker BY <1>1, WorkerIs
  <2> QED BY <2>1 DEF dcchGoes, Worker
<1>3. dcch' = [dcch EXCEPT ![c] = w] BY <1>1 DEF dcchGoes, Workers
<1> HIDE DEF w
<1>4. Workers' BY <1>1, DcchGoes
<1>5. ServersGoOn BY <1>1, <1>2, <1>3, OneGoesOn
<1>6. ListenersGoOn BY <1>1, <1>2, <1>3, OneListensOn
<1>7. Tables' /\ SipThread' /\ Counters' BY <1>1, QuietTables, SamePart
<1> QED BY <1>4, <1>5, <1>6, <1>7, SipAlone, TypePartsNext

LEMMA ResponseRemovesID ==
    ASSUME TypeInv, NEW c \in Channels, responseRemovesID(c)
    PROVE  TypeInv' /\ Quiet /\ SipGoesOn /\ ServersGoOn /\ ListenersGoOn
<1>1. /\ Quiet /\ dcchGoes(c, "removeID", "answeredPaging")
      /\ UNCHANGED <<nextID, sip>> /\ UNCHANGED <<invites, replies>>
      /\ paging' = removeID(dcch[c].mobile)
  BY DEF responseRemovesID, Quiet, Same
<1>2. List' BY <1>1, TypeParts, RemoveIDList
<1> QED BY <1>1, <1>2, DcchMovesOn DEF DcchPC

LEMMA ServerMovesOn ==
    ASSUME TypeInv, NEW c \in Channels,
           attachChannel(c) \/ noTCH(c) \/ starts(c) \/ finishes(c)
    PROVE  TypeInv' /\ Quiet /\ SipGoesOn /\ ServersGoOn /\ ListenersGoOn
<1>1. Quiet BY AttachTable, StartsTable, FinishesTable DEF noTCH, Quiet, Same
<1>2. /\ UNCHANGED <<nextID, sip>> /\ UNCHANGED <<invites, replies>> /\ UNCHANGED paging
      /\ \/ dcchGoes(c, "attach", "start") \/ dcchGoes(c, "start", "idle")
         \/ dcchGoes(c, "start", "serve") \/ dcchGoes(c, "serve", "idle")
  BY DEF attachChannel, noTCH, starts, finishes
<1>3. List' BY <1>2, TypeParts, SamePart
<1>4. CASE dcchGoes(c, "attach", "start") BY <1>1, <1>2, <1>3, <1>4, DcchMovesOn DEF DcchPC
<1>5. CASE dcchGoes(c, "start", "idle") BY <1>1, <1>2, <1>3, <1>5, DcchMovesOn DEF DcchPC
<1>6. CASE dcchGoes(c, "start", "serve") BY <1>1, <1>2, <1>3, <1>6, DcchMovesOn DEF DcchPC
<1>7. CASE dcchGoes(c, "serve", "idle") BY <1>1, <1>2, <1>3, <1>7, DcchMovesOn DEF DcchPC
<1> QED BY <1>1, <1>2, <1>4, <1>5, <1>6, <1>7

LEMMA DcchSweeps ==
    ASSUME TypeInv, NEW c \in Channels, dcchClearDeadEntries(c)
    PROVE  TypeInv' /\ Quiet /\ SipGoesOn /\ ServersGoOn /\ ListenersGoOn
<1>1. Tables /\ List /\ SipThread /\ Workers /\ Counters BY TypeParts
<1>2. UNCHANGED <<nextID, sip>> /\ UNCHANGED <<paging, invites, replies>>
  BY DEF dcchClearDeadEntries
<1>3. Quiet BY DcchSweepTable
<1>4. dcch[c] \in Worker /\ PlacedWorker(dcch[c]) BY <1>1, WorkerIs
<1>5. PICK w \in Worker :
          /\ dcch' = [dcch EXCEPT ![c] = w] /\ PlacedWorker(w)
          /\ w.pc = dcch[c].pc /\ w.mobile = dcch[c].mobile /\ w.id = dcch[c].id
  <2>1. CASE ~dcch[c].dying
    <3>1. ~swept(dcch[c]) /\ dcch' = [dcch EXCEPT ![c] = looksAt(dcch[c])]
      BY <1>1, <2>1 DEF dcchClearDeadEntries
    <3> QED BY <1>4, <2>1, <3>1, WorkerLooksAt
  <2>2. CASE dcch[c].dying
    <3> DEFINE w == [dcch[c] EXCEPT !.at = @ + 1, !.dying = FALSE]
    <3>1. dcch' = [dcch EXCEPT ![c] = w] BY <1>1, <2>2 DEF dcchClearDeadEntries, Workers
    <3>2. dcch[c].at + 1 \in SweepAt BY <1>4, <2>2, SweepStaysIn DEF PlacedWorker
    <3>3. /\ w \in Worker /\ PlacedWorker(w)
          /\ w.pc = dcch[c].pc /\ w.mobile = dcch[c].mobile /\ w.id = dcch[c].id
      BY <1>4, <3>2 DEF Worker, PlacedWorker
    <3> QED BY <3>1, <3>3
  <2> QED BY <2>1, <2>2
<1>6. Workers' BY <1>1, <1>5, WorkerMoves
<1>7. ServersGoOn BY <1>1, <1>5, OneGoesOn
<1>8. ListenersGoOn BY <1>1, <1>5, OneListensOn
<1>9. Tables' /\ List' /\ SipThread' /\ Counters' BY <1>1, <1>2, <1>3, QuietTables, SamePart
<1> QED BY <1>2, <1>3, <1>6, <1>7, <1>8, <1>9, SipAlone, TypePartsNext

LEMMA ResponseFinds ==
    ASSUME TypeInv, NEW c \in Channels, responseFinds(c)
    PROVE  TypeInv' /\ Quiet /\ SipGoesOn /\ paging' = paging
<1>1. Tables /\ List /\ SipThread /\ Workers /\ Counters BY TypeParts
<1>2. /\ UNCHANGED <<nextID, sip>> /\ paging' = paging /\ UNCHANGED <<invites, replies>>
      /\ dcch[c].pc = "answeredPaging" /\ swept(dcch[c])
  BY DEF responseFinds
<1>3. dcch[c] \in Worker /\ PlacedWorker(dcch[c]) BY <1>1, WorkerIs
<1>4. ~dcch[c].dying BY <1>2, <1>3 DEF PlacedWorker, swept
<1>5. CASE Same /\ dcch' = [dcch EXCEPT ![c].pc = "idle", ![c].at = 1]
  <2> DEFINE w == [dcch[c] EXCEPT !.pc = "idle", !.at = 1]
  <2>1. dcch' = [dcch EXCEPT ![c] = w] BY <1>1, <1>5 DEF Workers
  <2>2. w \in Worker /\ PlacedWorker(w)
    BY <1>3, <1>4, FirstSweepAt DEF Worker, PlacedWorker, DcchPC
  <2> HIDE DEF w
  <2>3. Workers' /\ Quiet BY <1>1, <1>5, <2>1, <2>2, WorkerMoves DEF Quiet
  <2> QED BY <1>1, <1>2, <2>3, QuietTables, SamePart, SipAlone, TypePartsNext
<1>6. ASSUME NEW id \in pagedBy(dcch[c].mobile), Harmless(id),
             dcch' = [dcch EXCEPT ![c].pc = "attach", ![c].at = 1, ![c].id = id]
      PROVE  TypeInv' /\ Quiet /\ SipGoesOn /\ paging' = paging
  <2> DEFINE w == [dcch[c] EXCEPT !.pc = "attach", !.at = 1, !.id = id]
  <2>1. dcch' = [dcch EXCEPT ![c] = w] BY <1>1, <1>6 DEF Workers
  <2>2. id \in ID BY PagedBy, LiveEntry DEF TypeInv
  <2>3. w \in Worker /\ PlacedWorker(w)
    BY <1>2, <1>3, <1>4, <2>2, FirstSweepAt DEF Worker, PlacedWorker, DcchPC
  <2> HIDE DEF w
  <2>4. Workers' /\ Quiet BY <1>1, <1>6, <2>1, <2>2, <2>3, WorkerMoves DEF Quiet
  <2> QED BY <1>1, <1>2, <2>4, QuietTables, SamePart, SipAlone, TypePartsNext
<1> QED BY <1>5, <1>6, FindsTable

\* Every step is one of these: the SIP thread makes, finds or pages a transaction, a channel
\* takes one, or the threads go on with what they have.
LEMMA Sorted ==
    ASSUME TypeInv, [Next]_vars
    PROVE  \/ addCall \/ add \/ find \/ setPaging
           \/ \E c \in Channels : responseFinds(c)
           \/ Quiet /\ SipGoesOn /\ ServersGoOn
<1> DEFINE Goal == \/ addCall \/ add \/ find \/ setPaging
                   \/ \E c \in Channels : responseFinds(c)
                   \/ Quiet /\ SipGoesOn /\ ServersGoOn
<1>1. CASE UNCHANGED vars
  <2>1. /\ UNCHANGED <<table, fifo>> /\ UNCHANGED <<nextID, sip, dcch>> BY <1>1 DEF vars
  <2> QED BY <2>1, ThreadsAlone DEF Quiet, Same
<1>2. ASSUME NEW c \in Calls, requestArrives(c) PROVE Goal BY <1>2, RequestArrives
<1>3. CASE checkInvite
  BY <1>3, SipSweeps, FindChannel, RepeatedOrCongestion, AddID DEF checkInvite
<1>4. CASE pageAll BY <1>4, PageAll
<1>5. ASSUME NEW c \in Channels, pagingResponse(c) \/ PagingResponseHandler(c) PROVE Goal
  BY <1>5, PagingResponse, ResponseRemovesID, DcchSweeps, ServerMovesOn
  DEF PagingResponseHandler
<1>6. ASSUME NEW id \in ID, expireT3113(id) \/ grow180s(id) PROVE Goal BY <1>6, Time
<1> QED BY <1>1, <1>2, <1>3, <1>4, <1>5, <1>6 DEF Next

LEMMA TypeInit == Init => TypeInv
<1> SUFFICES ASSUME Init PROVE TypeInv OBVIOUS
<1>1. Tables BY BoundsAssumption DEF Init, Tables, Table
<1>2. List
  <2>1. paging = <<>> BY DEF Init
  <2> QED BY <2>1 DEF List
<1>3. SipThread BY FirstSweepAt DEF Init, SipThread, SipPC
<1>4. Workers
  <2> DEFINE w == [pc |-> "idle", mobile |-> None, id |-> NoID, at |-> 1, dying |-> FALSE]
  <2>1. w \in Worker /\ PlacedWorker(w) BY FirstSweepAt DEF Worker, PlacedWorker, DcchPC
  <2>2. dcch = [c \in Channels |-> w] BY DEF Init
  <2> HIDE DEF w
  <2> QED BY <2>1, <2>2 DEF Workers
<1>5. Counters BY BoundsAssumption DEF Init, Counters
<1> QED BY <1>1, <1>2, <1>3, <1>4, <1>5, TypeParts

LEMMA TypeStep == TypeInv /\ [Next]_vars => TypeInv'
<1> SUFFICES ASSUME TypeInv, [Next]_vars PROVE TypeInv' OBVIOUS
<1>1. CASE UNCHANGED vars
  <2>1. Tables' /\ List' /\ SipThread' /\ Workers' /\ Counters'
    BY <1>1, TypeParts, SamePart DEF vars
  <2> QED BY <2>1, TypePartsNext
<1>2. ASSUME NEW c \in Calls, requestArrives(c) PROVE TypeInv' BY <1>2, RequestArrives
<1>3. CASE checkInvite
  BY <1>3, SipSweeps, FindChannel, RepeatedOrCongestion, AddCall, Add, Find, SetPaging, AddID
  DEF checkInvite
<1>4. CASE pageAll BY <1>4, PageAll
<1>5. ASSUME NEW c \in Channels, pagingResponse(c) \/ PagingResponseHandler(c) PROVE TypeInv'
  BY <1>5, PagingResponse, ResponseRemovesID, DcchSweeps, ResponseFinds, ServerMovesOn
  DEF PagingResponseHandler
<1>6. ASSUME NEW id \in ID, expireT3113(id) \/ grow180s(id) PROVE TypeInv' BY <1>6, Time
<1> QED BY <1>1, <1>2, <1>3, <1>4, <1>5, <1>6 DEF Next

\* The types of the table, the list and the threads (TransactionTable, Pager): an entry of
\* the pager's list and a thread at work always have an ID of the table, and the list has one
\* entry for each mobile at most.
THEOREM TypeCorrect == Spec => []TypeOK
<1>1. TypeInv => TypeOK BY DEF TypeInv
<1> QED BY <1>1, TypeInit, TypeStep, PTL DEF Spec
-----------------------------------------------------------------------------
(***************************************************************************)
(* The table and the map of FIFOs.                                         *)
(***************************************************************************)
LEMMA ReachInit == Init => Reach
<1> SUFFICES ASSUME Init PROVE Reach OBVIOUS
<1>1. Live = {} /\ fifo = {} /\ sip.pc = "idle" BY DEF Init, Live
<1> QED BY <1>1 DEF Reach, FifoIffTransaction

\* With the entries that are left still of their calls, and the FIFOs that are left those of
\* the entries that are left.
LEMMA QuietReach == ASSUME TypeInv, TypeInv', Reach, Quiet, SipGoesOn PROVE Reach'
<1>1. /\ Live' \subseteq Live /\ fifo' \subseteq fifo
      /\ \A id \in Live' : table'[id].call = table[id].call
      /\ \A id \in Live \ Live' : fifo' = fifo \ {table[id].call}
      /\ \/ fifo' = fifo /\ Live' = Live
         \/ \E id \in Live \ Live' : /\ Live' = Live \ {id}
                                     /\ fifo' = fifo \ {table[id].call}
  <2>1. Live = {id \in ID : table[id] # NoEntry} /\ Live' = {id \in ID : table'[id] # NoEntry}
    BY DEF Live
  <2>2. CASE Same BY <2>1, <2>2 DEF Same
  <2>3. ASSUME NEW i \in ID, Harmless(i)
        PROVE  Live' = Live /\ fifo' = fifo /\ \A id \in Live' : table'[id].call = table[id].call
    BY <2>1, <2>3 DEF Harmless, Rewritten
  <2>4. ASSUME NEW i \in ID, Erases(i)
        PROVE  /\ i \in Live \ Live' /\ Live' = Live \ {i} /\ fifo' = fifo \ {table[i].call}
               /\ \A id \in Live' : table'[id].call = table[id].call
    BY <2>1, <2>4 DEF Erases
  <2> QED BY <2>2, <2>3, <2>4 DEF Quiet, Same
<1>2. nextID' = nextID /\ (\A id \in Live' : id < nextID') BY <1>1 DEF Reach, SipGoesOn
<1>3. FifoIffTransaction'
  <2>1. \A i, j \in Live : table[i].call = table[j].call => i = j
    BY DEF Reach, FifoIffTransaction
  <2>2. \A id \in Live : table[id].call \in fifo BY DEF Reach, FifoIffTransaction
  <2>3. \A id \in Live' : table'[id].call \in fifo' BY <1>1, <2>1, <2>2
  <2>4. \A i, j \in Live' : table'[i].call = table'[j].call => i = j BY <1>1, <2>1
  <2>5. ASSUME NEW c \in fifo', ~ (sip'.pc = "add" /\ sip'.call = c)
        PROVE  \E id \in Live' : table'[id].call = c
    <3>1. c \in fifo /\ ~ (sip.pc = "add" /\ sip.call = c) BY <1>1, <2>5 DEF SipGoesOn
    <3>2. PICK id \in Live : table[id].call = c BY <3>1 DEF Reach, FifoIffTransaction
    <3>3. id \in Live' BY <1>1, <2>5, <3>2
    <3> QED BY <1>1, <3>2, <3>3
  <2> QED BY <2>3, <2>4, <2>5 DEF FifoIffTransaction
<1>4. ASSUME sip'.pc = "add"
      PROVE  /\ sip'.call \in fifo' /\ sip'.id < nextID' /\ sip'.id \notin Live'
             /\ \A id \in Live' : table'[id].call # sip'.call
  <2>1. sip.pc = "add" /\ sip'.call = sip.call /\ sip'.id = sip.id BY <1>4 DEF SipGoesOn
  <2>2. /\ sip.call \in fifo /\ sip.id < nextID /\ sip.id \notin Live
        /\ \A id \in Live : table[id].call # sip.call
    BY <2>1 DEF Reach
  <2> QED BY <1>1, <1>2, <2>1, <2>2
<1>5. ASSUME sip'.pc \in {"setPaging", "list"}, sip'.id \in Live'
      PROVE  table'[sip'.id].call = sip'.call
  <2>1. sip.pc \in {"setPaging", "list"} /\ sip'.call = sip.call /\ sip'.id = sip.id
    BY <1>5 DEF SipGoesOn
  <2>2. sip.id \in Live /\ table[sip.id].call = sip.call BY <1>1, <1>5, <2>1 DEF Reach
  <2> QED BY <1>1, <1>5, <2>1, <2>2
<1> QED BY <1>2, <1>3, <1>4, <1>5 DEF Reach

LEMMA AddCallReach == ASSUME TypeInv, Reach, addCall PROVE Reach'
<1>1. /\ table' = table /\ sip.call \notin fifo /\ fifo' = fifo \union {sip.call}
      /\ nextID \in ID /\ nextID' = nextID + 1
      /\ sip'.pc = "add" /\ sip'.call = sip.call /\ sip'.id = nextID
  BY AddCall
<1>2. Live' = Live /\ Live \subseteq ID BY <1>1 DEF Live
<1>3. \A i \in ID : i \in Int BY DEF ID
<1>4. \A id \in Live : id < nextID /\ id < nextID + 1 /\ id # nextID
  BY <1>1, <1>2, <1>3 DEF Reach
<1>5. FifoIffTransaction' BY <1>1, <1>2 DEF Reach, FifoIffTransaction
<1>6. \A id \in Live' : table'[id].call # sip'.call
  BY <1>1, <1>2 DEF Reach, FifoIffTransaction
<1>7. sip'.call \in fifo' /\ sip'.id < nextID' /\ sip'.id \notin Live'
  BY <1>1, <1>2, <1>3, <1>4
<1> QED BY <1>1, <1>2, <1>4, <1>5, <1>6, <1>7 DEF Reach

LEMMA AddReach == ASSUME TypeInv, Reach, add PROVE Reach'
<1>1. /\ fifo' = fifo /\ nextID' = nextID /\ sip.pc = "add" /\ sip'.pc = "setPaging"
      /\ sip'.call = sip.call /\ sip'.id = sip.id /\ sip.id \in ID
      /\ \A i \in ID \ {sip.id} : table'[i] = table[i]
      /\ table'[sip.id] # NoEntry /\ table'[sip.id].call = sip.call
  BY Add
<1>2. Live' = Live \union {sip.id} BY <1>1 DEF Live
<1>3. \A id \in Live \ {sip.id} : table'[id] = table[id] BY <1>1 DEF Live
<1>4. /\ sip.call \in fifo /\ sip.id < nextID /\ sip.id \notin Live
      /\ \A id \in Live : table[id].call # sip.call
  BY <1>1 DEF Reach
<1>5. \A id \in Live' : \/ id \in Live /\ id # sip.id /\ table'[id] = table[id]
                        \/ id = sip.id
  BY <1>2, <1>3, <1>4
<1>6. \A id \in Live' : table'[id].call \in fifo'
  BY <1>1, <1>4, <1>5 DEF Reach, FifoIffTransaction
<1>7. \A i, j \in Live' : table'[i].call = table'[j].call => i = j
  BY <1>1, <1>4, <1>5 DEF Reach, FifoIffTransaction
<1>8. \A c \in fifo' : \E id \in Live' : table'[id].call = c
  <2>1. SUFFICES ASSUME NEW c \in fifo, c # sip.call PROVE \E id \in Live' : table'[id].call = c
    BY <1>1, <1>2
  <2>2. PICK id \in Live : table[id].call = c BY <2>1 DEF Reach, FifoIffTransaction
  <2>3. id \in Live' /\ table'[id] = table[id] BY <1>2, <1>3, <1>4, <2>2
  <2> QED BY <2>2, <2>3
<1>9. \A id \in Live' : id < nextID' BY <1>1, <1>4, <1>5 DEF Reach
<1> QED BY <1>1, <1>6, <1>7, <1>8, <1>9 DEF Reach, FifoIffTransaction

LEMMA FindReach == ASSUME TypeInv, Reach, find PROVE Reach'
<1>1. /\ table' = table /\ nextID' = nextID /\ sip.pc = "find"
      /\ \/ /\ \A id \in Live : table[id].call # sip.call
            /\ fifo' = fifo \ {sip.call} /\ sip'.pc = "idle"
         \/ /\ fifo' = fifo /\ sip'.pc = "setPaging" /\ sip'.call = sip.call
            /\ sip'.id \in Live /\ table[sip'.id].call = sip.call
  BY Find
<1>2. Live' = Live BY <1>1 DEF Live
<1>3. FifoIffTransaction' BY <1>1, <1>2 DEF Reach, FifoIffTransaction
<1>4. sip'.pc # "add" BY <1>1
<1>5. sip'.pc \in {"setPaging", "list"} => table'[sip'.id].call = sip'.call BY <1>1
<1> QED BY <1>1, <1>2, <1>3, <1>4, <1>5 DEF Reach

LEMMA SetPagingReach == ASSUME TypeInv, Reach, setPaging PROVE Reach'
<1>1. /\ fifo' = fifo /\ nextID' = nextID /\ sip.pc = "setPaging" /\ sip'.pc = "list"
      /\ sip'.call = sip.call /\ sip'.id = sip.id /\ sip.id \in ID
      /\ Rewritten(table', sip.id)
  BY SetPaging
<1>2. Live' = Live /\ \A id \in Live : table'[id].call = table[id].call
  BY <1>1 DEF Live, Rewritten
<1>3. FifoIffTransaction' BY <1>1, <1>2 DEF Reach, FifoIffTransaction
<1>4. sip'.id \in Live' => table'[sip'.id].call = sip'.call BY <1>1, <1>2 DEF Reach
<1> QED BY <1>1, <1>2, <1>3, <1>4 DEF Reach

LEMMA ReachStep == TypeInv /\ TypeInv' /\ Reach /\ [Next]_vars => Reach'
<1> SUFFICES ASSUME TypeInv, TypeInv', Reach, [Next]_vars PROVE Reach' OBVIOUS
<1>1. ASSUME NEW c \in Channels, responseFinds(c) PROVE Reach'
  <2>1. Quiet /\ SipGoesOn BY <1>1, ResponseFinds
  <2> QED BY <2>1, QuietReach
<1> QED BY <1>1, Sorted, QuietReach, AddCallReach, AddReach, FindReach, SetPagingReach

\* The SIP map and the transaction table agree, whether or not requests are repeated and
\* whichever mobiles they are for (addCall, innerRemove, find).
THEOREM FifosMatch == Spec => []FifoIffTransaction
<1>1. Reach => FifoIffTransaction BY DEF Reach
<1> QED BY <1>1, TypeInit, TypeStep, ReachInit, ReachStep, PTL DEF Spec
-----------------------------------------------------------------------------
(***************************************************************************)
(* Who serves an entry, when no request arrives again while its            *)
(* transaction lives.                                                      *)
(***************************************************************************)
LEMMA OneInit == Init => One
<1> SUFFICES ASSUME Init PROVE One OBVIOUS
<1>1. sip.pc = "idle" /\ \A c \in Channels : ~Serving(c) BY DEF Init, Serving
<1> QED BY <1>1 DEF One, OneServer

\* What Quiet says of the states of the entries.
LEMMA QuietStates ==
    ASSUME TypeInv, Quiet
    PROVE  /\ Live' \subseteq Live /\ fifo' \subseteq fifo
           /\ \A id \in Live' : \/ table'[id].state = table[id].state
                                \/ table'[id].state # "Paging" /\ Taken(id)
<1>1. Live = {id \in ID : table[id] # NoEntry} /\ Live' = {id \in ID : table'[id] # NoEntry}
  BY DEF Live
<1>2. CASE Same BY <1>1, <1>2 DEF Same
<1>3. ASSUME NEW i \in ID, Harmless(i)
      PROVE  /\ Live' = Live /\ fifo' = fifo
             /\ \A id \in Live' : \/ table'[id].state = table[id].state
                                  \/ table'[id].state # "Paging" /\ Taken(id)
  BY <1>1, <1>3 DEF Harmless, Rewritten
<1>4. ASSUME NEW i \in ID, Erases(i)
      PROVE  /\ Live' \subseteq Live /\ fifo' \subseteq fifo
             /\ \A id \in Live' : table'[id].state = table[id].state
  BY <1>1, <1>4 DEF Erases
<1> QED BY <1>2, <1>3, <1>4 DEF Quiet

\* The part of One about a request and the entry that it is about to page.
LEMMA QuietRequest ==
    ASSUME ~Repeats, TypeInv, One, Quiet, SipGoesOn
    PROVE  /\ sip'.pc \in {"findChannel", "readFifo"} => sip'.call \notin fifo'
           /\ sip'.pc # "find"
           /\ sip'.pc = "setPaging" /\ sip'.id \in Live' => table'[sip'.id].state = "Null"
<1>1. ASSUME sip'.pc \in {"findChannel", "readFifo"} PROVE sip'.call \notin fifo'
  BY <1>1, QuietStates DEF SipGoesOn, One
<1>2. sip'.pc # "find" BY DEF SipGoesOn, One
<1>3. ASSUME sip'.pc = "setPaging", sip'.id \in Live' PROVE table'[sip'.id].state = "Null"
  <2>1. sip.pc = "setPaging" /\ sip'.id = sip.id BY <1>3 DEF SipGoesOn
  <2>2. sip.id \in Live /\ table[sip.id].state = "Null" BY <1>3, <2>1, QuietStates DEF One
  <2>3. ~Taken(sip.id) BY <2>1, <2>2 DEF One, Taken
  <2> QED BY <1>3, <2>1, <2>2, <2>3, QuietStates
<1> QED BY <1>1, <1>2, <1>3

LEMMA QuietOne ==
    ASSUME ~Repeats, TypeInv, One, Quiet, SipGoesOn, ServersGoOn PROVE One'
<1>1. ASSUME NEW c \in Channels, Serving(c)'
      PROVE  /\ Serving(c) /\ dcch'[c].id = dcch[c].id
             /\ dcch'[c].id < nextID'
             /\ dcch'[c].id \in Live' => table'[dcch'[c].id].state # "Paging"
             /\ sip'.pc \in {"add", "setPaging"} => dcch'[c].id # sip'.id
  <2>1. Serving(c) /\ dcch'[c].id = dcch[c].id /\ nextID' = nextID
    BY <1>1 DEF ServersGoOn, SipGoesOn
  <2>2. dcch'[c].id \in Live' => table'[dcch'[c].id].state # "Paging"
    BY <2>1, QuietStates DEF One
  <2>3. sip'.pc \in {"add", "setPaging"} => sip.pc \in {"add", "setPaging"} /\ sip'.id = sip.id
    BY DEF SipGoesOn
  <2> QED BY <2>1, <2>2, <2>3 DEF One
<1>2. OneServer' BY <1>1 DEF One, OneServer
<1> QED BY <1>1, <1>2, QuietRequest DEF One

\* An entry that is paged has no server, so the channel that takes it is its only one.
LEMMA FindsOne ==
    ASSUME ~Repeats, TypeInv, Reach, One, NEW c \in Channels, responseFinds(c)
    PROVE  One'
<1>1. Quiet /\ SipGoesOn /\ UNCHANGED <<nextID, sip>>
  BY ResponseFinds DEF responseFinds
<1>2. CASE Same /\ dcch' = [dcch EXCEPT ![c].pc = "idle", ![c].at = 1]
  <2>1. ServersGoOn BY <1>2, TypeParts DEF Workers, Worker, ServersGoOn, Serving
  <2> QED BY <1>1, <2>1, QuietOne
<1>3. ASSUME NEW id \in pagedBy(dcch[c].mobile), Harmless(id),
             table'[id].state = "AnsweredPaging",
             dcch' = [dcch EXCEPT ![c].pc = "attach", ![c].at = 1, ![c].id = id]
      PROVE  One'
  <2>1. id \in Live /\ table[id].state = "Paging" BY PagedBy
  <2>2. Serving(c)' /\ dcch'[c].id = id
    BY <1>3, TypeParts DEF Workers, Worker, Serving
  <2>3. \A d \in Channels \ {c} : dcch'[d] = dcch[d]
    BY <1>3, TypeParts DEF Workers
  <2>4. ASSUME NEW d \in Channels, d # c, Serving(d)'
        PROVE  /\ dcch'[d].id # id /\ Serving(d) /\ dcch'[d].id = dcch[d].id
               /\ dcch'[d].id < nextID'
               /\ dcch'[d].id \in Live' => table'[dcch'[d].id].state # "Paging"
               /\ sip'.pc \in {"add", "setPaging"} => dcch'[d].id # sip'.id
    <3>1. Serving(d) /\ dcch'[d].id = dcch[d].id BY <2>3, <2>4 DEF Serving
    <3>2. dcch[d].id # id BY <2>1, <3>1 DEF One
    <3> QED BY <1>1, <3>1, <3>2, QuietStates DEF One
  <2>5. /\ dcch'[c].id < nextID'
        /\ table'[dcch'[c].id].state # "Paging"
        /\ sip'.pc \in {"add", "setPaging"} => dcch'[c].id # sip'.id
    <3>1. id < nextID BY <2>1 DEF Reach
    <3>2. sip.pc = "add" => id # sip.id BY <2>1 DEF Reach
    <3>3. sip.pc = "setPaging" => id # sip.id BY <2>1 DEF One
    <3>4. nextID' = nextID /\ sip' = sip BY <1>1
    <3> QED BY <1>3, <2>2, <3>1, <3>2, <3>3, <3>4
  <2>6. OneServer' BY <2>2, <2>4 DEF One, OneServer
  <2> QED BY <1>1, <2>4, <2>5, <2>6, QuietRequest DEF One
<1> QED BY <1>2, <1>3, FindsTable

LEMMA AddCallOne == ASSUME ~Repeats, TypeInv, One, addCall PROVE One'
<1>1. /\ table' = table /\ dcch' = dcch /\ nextID \in ID /\ nextID' = nextID + 1
      /\ sip'.pc = "add" /\ sip'.id = nextID
  BY AddCall
<1>2. Live' = Live BY <1>1 DEF Live
<1>3. ASSUME NEW c \in Channels, Serving(c)'
      PROVE  /\ Serving(c) /\ dcch'[c].id < nextID' /\ dcch'[c].id # sip'.id
             /\ dcch'[c].id \in Live' => table'[dcch'[c].id].state # "Paging"
  <2>1. Serving(c) BY <1>1, <1>3 DEF Serving
  <2>2. dcch[c].id \in Int /\ nextID \in Int
    BY <1>1, <2>1, BoundsAssumption DEF TypeInv, Placed, ID
  <2>3. dcch[c].id < nextID BY <2>1 DEF One
  <2> QED BY <1>1, <1>2, <2>1, <2>2, <2>3 DEF One
<1>4. OneServer' BY <1>1, <1>3 DEF One, OneServer
<1> QED BY <1>1, <1>3, <1>4 DEF One

LEMMA AddOne == ASSUME ~Repeats, TypeInv, Reach, One, add PROVE One'
<1>1. /\ dcch' = dcch /\ nextID' = nextID /\ sip.pc = "add" /\ sip'.pc = "setPaging"
      /\ sip'.id = sip.id /\ sip.id \in ID
      /\ \A i \in ID \ {sip.id} : table'[i] = table[i]
      /\ table'[sip.id] # NoEntry /\ table'[sip.id].state = "Null"
  BY Add
<1>2. \A id \in Live' \ {sip.id} : id \in Live /\ table'[id] = table[id] BY <1>1 DEF Live
<1>3. ASSUME NEW c \in Channels, Serving(c)'
      PROVE  /\ Serving(c) /\ dcch'[c].id < nextID' /\ dcch'[c].id # sip'.id
             /\ dcch'[c].id \in Live' => table'[dcch'[c].id].state # "Paging"
  <2>1. Serving(c) BY <1>1, <1>3 DEF Serving
  <2> QED BY <1>1, <1>2, <2>1 DEF One
<1>4. OneServer' BY <1>1, <1>3 DEF One, OneServer
<1> QED BY <1>1, <1>3, <1>4 DEF One

LEMMA SetPagingOne == ASSUME ~Repeats, TypeInv, One, setPaging PROVE One'
<1>1. /\ dcch' = dcch /\ nextID' = nextID /\ sip.pc = "setPaging" /\ sip'.pc = "list"
      /\ sip.id \in ID /\ Rewritten(table', sip.id)
  BY SetPaging
<1>2. Live' = Live /\ \A id \in Live' \ {sip.id} : table'[id] = table[id]
  BY <1>1 DEF Live, Rewritten
<1>3. ASSUME NEW c \in Channels, Serving(c)'
      PROVE  /\ Serving(c) /\ dcch'[c].id < nextID'
             /\ dcch'[c].id \in Live' => table'[dcch'[c].id].state # "Paging"
  <2>1. Serving(c) /\ dcch[c].id # sip.id BY <1>1, <1>3 DEF Serving, One
  <2> QED BY <1>1, <1>2, <2>1 DEF One
<1>4. OneServer' BY <1>1, <1>3 DEF One, OneServer
<1> QED BY <1>1, <1>3, <1>4 DEF One

LEMMA OneStep == ASSUME ~Repeats PROVE TypeInv /\ Reach /\ One /\ [Next]_vars => One'
<1> SUFFICES ASSUME TypeInv, Reach, One, [Next]_vars PROVE One' OBVIOUS
<1>1. ~find BY DEF find, One
<1> QED BY <1>1, Sorted, QuietOne, FindsOne, AddCallOne, AddOne, SetPagingOne

\* Two channels never take the same transaction (answeredPaging), when no request arrives
\* again while its transaction lives: a repeated one is paged while a channel serves it.
THEOREM ServedOnce == ASSUME ~Repeats PROVE Spec => []OneServer
<1>1. One => OneServer BY DEF One
<1> QED BY <1>1, TypeInit, TypeStep, ReachInit, ReachStep, OneInit, OneStep, PTL DEF Spec

-----------------------------------------------------------------------------
(***************************************************************************)
(* Who waits, when each request is for a mobile of its own.                *)
(***************************************************************************)
Waits(id) == id \in Live /\ table[id].state = "Paging" /\ table[id].t3113 = "running"
Listed(m) == \E k \in DOMAIN paging : paging[k].mobile = m
Heard(m) ==
    \E c \in Channels : dcch[c].pc = "answeredPaging" /\ dcch[c].mobile = m

LEMMA WaitingParts ==
    WaitingIsPaged <=>
        \A id \in ID : Waits(id) =>
            Listed(mobileOf(id)) \/ (sip.pc = "list" /\ sip.id = id) \/ Heard(mobileOf(id))
<1>1. Live \subseteq ID BY DEF Live
<1> QED BY <1>1 DEF WaitingIsPaged, Waits, Listed, Heard

LEMMA WaitingPartsNext ==
    WaitingIsPaged' <=>
        \A id \in ID : Waits(id)' =>
            \/ Listed(mobileOf(id))'
            \/ sip'.pc = "list" /\ sip'.id = id
            \/ Heard(mobileOf(id))'
<1>1. Live' \subseteq ID BY DEF Live
<1> QED BY <1>1 DEF WaitingIsPaged, Waits, Listed, Heard

LEMMA WaitingInit == Init => WaitingIsPaged
<1> SUFFICES ASSUME Init PROVE WaitingIsPaged OBVIOUS
<1>1. Live = {} BY DEF Init, Live
<1> QED BY <1>1 DEF WaitingIsPaged

\* Which entries wait after a step that pages none.
LEMMA QuietWaits ==
    ASSUME TypeInv, Quiet, NEW id \in ID, Waits(id)'
    PROVE  Waits(id) /\ mobileOf(id)' = mobileOf(id)
<1>1. Live = {i \in ID : table[i] # NoEntry} /\ Live' = {i \in ID : table'[i] # NoEntry}
  BY DEF Live
<1>2. CASE Same
  BY <1>1, <1>2 DEF Same, Waits, mobileOf
<1>3. ASSUME NEW i \in ID, Harmless(i) PROVE Waits(id) /\ mobileOf(id)' = mobileOf(id)
  BY <1>1, <1>3 DEF Harmless, Rewritten, Waits, mobileOf
<1>4. ASSUME NEW i \in ID, Erases(i) PROVE Waits(id) /\ mobileOf(id)' = mobileOf(id)
  BY <1>1, <1>4 DEF Erases, Waits, mobileOf
<1> QED BY <1>2, <1>3, <1>4 DEF Quiet

\* A step that takes nobody off the list, nor off what the SIP thread and the channels hold.
LEMMA QuietWaiting ==
    ASSUME TypeInv, WaitingIsPaged, Quiet, ListenersGoOn, paging' = paging,
           sip.pc = "list" => sip'.pc = "list" /\ sip'.id = sip.id
    PROVE  WaitingIsPaged'
<1> SUFFICES ASSUME NEW id \in ID, Waits(id)'
             PROVE  \/ Listed(mobileOf(id))'
                    \/ sip'.pc = "list" /\ sip'.id = id
                    \/ Heard(mobileOf(id))'
  BY WaitingPartsNext
<1>1. PICK m : Waits(id) /\ mobileOf(id) = m /\ mobileOf(id)' = m BY QuietWaits
<1>2. Listed(m) \/ (sip.pc = "list" /\ sip.id = id) \/ Heard(m) BY <1>1, WaitingParts
<1>3. Listed(m) => Listed(mobileOf(id))' BY <1>1 DEF Listed
<1>4. Heard(m) => Heard(mobileOf(id))' BY <1>1 DEF Heard, ListenersGoOn
<1> QED BY <1>2, <1>3, <1>4

\* addID lists the mobile of the entry that the SIP thread has paged.
LEMMA AddIDWaiting == ASSUME TypeInv, Reach, WaitingIsPaged, addID PROVE WaitingIsPaged'
<1>1. List /\ SipThread BY TypeParts
<1>2. Quiet /\ ListenersGoOn BY AddID
<1>3. /\ sip.pc = "list" /\ sip.call \in Calls /\ sip.id \in ID
      /\ paging' = renewed(MobileOf[sip.call], sip.id)
  BY <1>1 DEF addID, sipGoes, SipThread
<1>4. MobileOf[sip.call] \in Mobiles BY <1>3, MobileOfAssumption
<1>5. /\ \A j \in DOMAIN paging : \E i \in DOMAIN paging' : paging'[i] = paging[j]
      /\ \E i \in DOMAIN paging' : paging'[i].mobile = MobileOf[sip.call]
  BY <1>1, <1>3, <1>4, RenewedList
<1> SUFFICES ASSUME NEW id \in ID, Waits(id)'
             PROVE  Listed(mobileOf(id))' \/ Heard(mobileOf(id))'
  BY WaitingPartsNext
<1>6. PICK m : Waits(id) /\ mobileOf(id) = m /\ mobileOf(id)' = m BY <1>2, QuietWaits
<1>7. CASE Listed(m) BY <1>5, <1>6, <1>7 DEF Listed
<1>8. CASE sip.id = id
  <2>1. m = MobileOf[sip.call] BY <1>3, <1>6, <1>8 DEF Reach, Waits, mobileOf
  <2> QED BY <1>5, <1>6, <2>1 DEF Listed
<1>9. CASE Heard(m) BY <1>2, <1>6, <1>9 DEF Heard, ListenersGoOn
<1> QED BY <1>6, <1>7, <1>8, <1>9, WaitingParts

\* The pager drops an entry of its list only when no T3113 of its mobile runs but that of the
\* transaction for which addID is about to renew it.
LEMMA PageAllWaiting == ASSUME TypeInv, WaitingIsPaged, pageAll PROVE WaitingIsPaged'
<1>1. List BY TypeParts
<1>2. Quiet /\ ListenersGoOn BY PageAll
<1>3. PICK k \in DOMAIN paging : expired(paging[k]) /\ paging' = RemoveAt(paging, k)
  BY DEF pageAll
<1>4. \A j \in DOMAIN paging : j # k => \E i \in DOMAIN paging' : paging'[i] = paging[j]
  BY <1>1, <1>3, RemoveAtList
<1>5. sip' = sip BY DEF pageAll
<1> SUFFICES ASSUME NEW id \in ID, Waits(id)'
             PROVE  \/ Listed(mobileOf(id))'
                    \/ sip'.pc = "list" /\ sip'.id = id
                    \/ Heard(mobileOf(id))'
  BY WaitingPartsNext
<1>6. PICK m : Waits(id) /\ mobileOf(id) = m /\ mobileOf(id)' = m BY <1>2, QuietWaits
<1>7. CASE paging[k].mobile = m
  <2>1. id \in pagedBy(paging[k].mobile) /\ table[id].t3113 = "running"
    BY <1>6, <1>7 DEF Waits, pagedBy
  <2>2. sip.pc = "list" /\ sip.id = id BY <1>3, <2>1 DEF expired, Renewed
  <2> QED BY <1>5, <2>2
<1>8. CASE Listed(m) /\ paging[k].mobile # m
  <2>1. PICK j \in DOMAIN paging : paging[j].mobile = m BY <1>8 DEF Listed
  <2>2. PICK i \in DOMAIN paging' : paging'[i] = paging[j] BY <1>4, <1>8, <2>1
  <2>3. paging'[i].mobile = m BY <2>1, <2>2
  <2> QED BY <1>6, <2>3 DEF Listed
<1>9. Heard(m) => Heard(mobileOf(id))' BY <1>2, <1>6 DEF Heard, ListenersGoOn
<1> QED BY <1>5, <1>6, <1>7, <1>8, <1>9, WaitingParts

\* The mobile that removeID takes off the list has been heard.
LEMMA RemovesIDWaiting ==
    ASSUME TypeInv, WaitingIsPaged, NEW c \in Channels, responseRemovesID(c)
    PROVE  WaitingIsPaged'
<1>1. List /\ Workers BY TypeParts
<1>2. Quiet /\ ListenersGoOn BY ResponseRemovesID
<1>3. sip' = sip /\ paging' = removeID(dcch[c].mobile) BY DEF responseRemovesID
<1>4. \A j \in DOMAIN paging :
          paging[j].mobile # dcch[c].mobile => \E i \in DOMAIN paging' : paging'[i] = paging[j]
  BY <1>1, <1>3, RemoveIDList
<1>5. dcch'[c].pc = "answeredPaging" /\ dcch'[c].mobile = dcch[c].mobile
  BY <1>1 DEF responseRemovesID, dcchGoes, Workers, Worker
<1> SUFFICES ASSUME NEW id \in ID, Waits(id)'
             PROVE  \/ Listed(mobileOf(id))'
                    \/ sip'.pc = "list" /\ sip'.id = id
                    \/ Heard(mobileOf(id))'
  BY WaitingPartsNext
<1>6. PICK m : Waits(id) /\ mobileOf(id) = m /\ mobileOf(id)' = m BY <1>2, QuietWaits
<1>7. CASE dcch[c].mobile = m BY <1>5, <1>6, <1>7 DEF Heard
<1>8. CASE Listed(m) /\ dcch[c].mobile # m
  <2>1. PICK j \in DOMAIN paging : paging[j].mobile = m BY <1>8 DEF Listed
  <2>2. PICK i \in DOMAIN paging' : paging'[i] = paging[j] BY <1>4, <1>8, <2>1
  <2>3. paging'[i].mobile = m BY <2>1, <2>2
  <2> QED BY <1>6, <2>3 DEF Listed
<1>9. Heard(m) => Heard(mobileOf(id))' BY <1>2, <1>6 DEF Heard, ListenersGoOn
<1> QED BY <1>3, <1>6, <1>7, <1>8, <1>9, WaitingParts

\* Whoever was heard is answered, and no other entry waits for that mobile.
LEMMA FindsWaiting ==
    ASSUME OwnMobiles, TypeInv, Reach, WaitingIsPaged, NEW c \in Channels, responseFinds(c)
    PROVE  WaitingIsPaged'
<1>1. Workers BY TypeParts
<1>2. Quiet /\ paging' = paging /\ sip' = sip BY ResponseFinds DEF responseFinds
<1>3. \A d \in Channels \ {c} : dcch'[d] = dcch[d]
  BY <1>1, FindsTable DEF Workers
<1> SUFFICES ASSUME NEW id \in ID, Waits(id)'
             PROVE  \/ Listed(mobileOf(id))'
                    \/ sip'.pc = "list" /\ sip'.id = id
                    \/ Heard(mobileOf(id))'
  BY WaitingPartsNext
<1>4. PICK m : Waits(id) /\ mobileOf(id) = m /\ mobileOf(id)' = m BY <1>2, QuietWaits
<1>5. m # dcch[c].mobile
  <2>1. SUFFICES ASSUME m = dcch[c].mobile PROVE FALSE OBVIOUS
  <2>2. id \in pagedBy(dcch[c].mobile) BY <1>4, <2>1 DEF Waits, pagedBy
  <2>3. PICK i \in pagedBy(dcch[c].mobile) : table'[i].state = "AnsweredPaging"
    BY <2>2, FindsTable
  <2>4. i \in Live /\ id \in Live /\ mobileOf(i) = mobileOf(id)
    BY <1>4, <2>1, <2>3, PagedBy DEF Waits
  <2>5. table[i].call \in Calls /\ table[id].call \in Calls
    BY <2>4, LiveEntry DEF TypeInv, Entry
  <2>6. i = id BY <2>4, <2>5 DEF OwnMobiles, mobileOf, Reach, FifoIffTransaction
  <2> QED BY <2>3, <2>6 DEF Waits
<1>6. Listed(m) => Listed(mobileOf(id))' BY <1>2, <1>4 DEF Listed
<1>7. Heard(m) => Heard(mobileOf(id))'
  <2>1. SUFFICES ASSUME Heard(m) PROVE Heard(mobileOf(id))' OBVIOUS
  <2>2. PICK d \in Channels : dcch[d].pc = "answeredPaging" /\ dcch[d].mobile = m
    BY <2>1 DEF Heard
  <2>3. dcch'[d] = dcch[d] BY <1>3, <1>5, <2>2
  <2> QED BY <1>4, <2>2, <2>3 DEF Heard
<1> QED BY <1>2, <1>4, <1>6, <1>7, WaitingParts

\* The steps of the SIP thread that make, find and page a transaction.
LEMMA MakesWaiting ==
    ASSUME TypeInv, WaitingIsPaged, addCall \/ add \/ find PROVE WaitingIsPaged'
<1>1. /\ paging' = paging /\ dcch' = dcch /\ sip.pc # "list"
      /\ \A id \in ID : Waits(id)' => Waits(id) /\ table'[id] = table[id]
  <2>1. CASE addCall
    <3>1. table' = table /\ Live' = Live BY <2>1, AddCall DEF Live
    <3> QED BY <2>1, <3>1, AddCall DEF Waits
  <2>2. CASE find
    <3>1. table' = table /\ Live' = Live BY <2>2, Find DEF Live
    <3> QED BY <2>2, <3>1, Find DEF Waits
  <2>3. CASE add
    <3>1. \A id \in ID \ {sip.id} : table'[id] = table[id] BY <2>3, Add
    <3>2. ~Waits(sip.id)' BY <2>3, Add DEF Waits
    <3>3. \A id \in ID \ {sip.id} : id \in Live' => id \in Live BY <3>1 DEF Live
    <3> QED BY <2>3, <3>1, <3>2, <3>3, Add DEF Waits
  <2> QED BY <2>1, <2>2, <2>3
<1> SUFFICES ASSUME NEW id \in ID, Waits(id)'
             PROVE  Listed(mobileOf(id))' \/ Heard(mobileOf(id))'
  BY WaitingPartsNext
<1>2. PICK m : mobileOf(id) = m OBVIOUS
<1>3. Waits(id) /\ mobileOf(id)' = m BY <1>1, <1>2 DEF mobileOf
<1>4. Listed(m) \/ Heard(m) BY <1>1, <1>2, <1>3, WaitingParts
<1>5. Listed(m) => Listed(mobileOf(id))' BY <1>1, <1>3 DEF Listed
<1>6. Heard(m) => Heard(mobileOf(id))' BY <1>1, <1>3 DEF Heard
<1> QED BY <1>4, <1>5, <1>6

LEMMA SetPagingWaiting == ASSUME TypeInv, WaitingIsPaged, setPaging PROVE WaitingIsPaged'
<1>1. /\ paging' = paging /\ dcch' = dcch /\ sip.pc = "setPaging" /\ sip'.pc = "list"
      /\ sip'.id = sip.id /\ sip.id \in ID /\ Rewritten(table', sip.id)
  BY SetPaging
<1> SUFFICES ASSUME NEW id \in ID, Waits(id)', id # sip.id
             PROVE  Listed(mobileOf(id))' \/ Heard(mobileOf(id))'
  BY <1>1, WaitingPartsNext
<1>2. table'[id] = table[id] BY <1>1 DEF Rewritten
<1>3. PICK m : mobileOf(id) = m OBVIOUS
<1>4. Waits(id) /\ mobileOf(id)' = m BY <1>2, <1>3 DEF Waits, Live, mobileOf
<1>5. Listed(m) \/ Heard(m) BY <1>1, <1>3, <1>4, WaitingParts
<1>6. Listed(m) => Listed(mobileOf(id))' BY <1>1, <1>4 DEF Listed
<1>7. Heard(m) => Heard(mobileOf(id))' BY <1>1, <1>4 DEF Heard
<1> QED BY <1>5, <1>6, <1>7

LEMMA SipWaiting ==
    ASSUME TypeInv, WaitingIsPaged,
           clearDeadEntries \/ findChannel \/ repeated \/ congestion
    PROVE  WaitingIsPaged'
<1>1. Quiet /\ ListenersGoOn BY SipSweeps, FindChannel, RepeatedOrCongestion
<1>2. /\ paging' = paging
      /\ sip.pc = "list" => sip'.pc = "list" /\ sip'.id = sip.id
  BY SipSweeps DEF findChannel, repeated, congestion, sipGoes
<1> QED BY <1>1, <1>2, QuietWaiting

LEMMA WaitingStep ==
    ASSUME OwnMobiles PROVE TypeInv /\ Reach /\ WaitingIsPaged /\ [Next]_vars => WaitingIsPaged'
<1> SUFFICES ASSUME TypeInv, Reach, WaitingIsPaged, [Next]_vars PROVE WaitingIsPaged' OBVIOUS
<1>1. CASE UNCHANGED vars
  <2>1. /\ UNCHANGED <<table, fifo>> /\ UNCHANGED <<nextID, sip, dcch>>
        /\ paging' = paging /\ sip' = sip
    BY <1>1 DEF vars
  <2>2. Quiet /\ ListenersGoOn BY <2>1, ThreadsAlone DEF Quiet, Same
  <2> QED BY <2>1, <2>2, QuietWaiting
<1>2. ASSUME NEW c \in Calls, requestArrives(c) PROVE WaitingIsPaged'
  <2>1. paging' = paging /\ sip.pc = "idle" BY <1>2 DEF requestArrives
  <2> QED BY <1>2, <2>1, RequestArrives, QuietWaiting
<1>3. CASE checkInvite BY <1>3, SipWaiting, MakesWaiting, SetPagingWaiting, AddIDWaiting
                       DEF checkInvite
<1>4. CASE pageAll BY <1>4, PageAllWaiting
<1>5. ASSUME NEW c \in Channels, pagingResponse(c) \/ PagingResponseHandler(c)
      PROVE  WaitingIsPaged'
  <2>1. CASE pagingResponse(c)
    <3>1. paging' = paging /\ sip' = sip BY <2>1 DEF pagingResponse
    <3> QED BY <2>1, <3>1, PagingResponse, QuietWaiting
  <2>2. CASE dcchClearDeadEntries(c)
    <3>1. paging' = paging /\ sip' = sip BY <2>2 DEF dcchClearDeadEntries
    <3> QED BY <2>2, <3>1, DcchSweeps, QuietWaiting
  <2>3. CASE attachChannel(c) \/ noTCH(c) \/ starts(c) \/ finishes(c)
    <3>1. paging' = paging /\ sip' = sip BY <2>3 DEF attachChannel, noTCH, starts, finishes
    <3> QED BY <2>3, <3>1, ServerMovesOn, QuietWaiting
  <2> QED BY <1>5, <2>1, <2>2, <2>3, RemovesIDWaiting, FindsWaiting DEF PagingResponseHandler
<1>6. ASSUME NEW id \in ID, expireT3113(id) \/ grow180s(id) PROVE WaitingIsPaged'
  <2>1. paging' = paging /\ sip' = sip BY <1>6 DEF expireT3113, grow180s
  <2> QED BY <1>6, <2>1, Time, QuietWaiting
<1> QED BY <1>1, <1>2, <1>3, <1>4, <1>5, <1>6 DEF Next

\* No transaction waits, with T3113 running, for a page that is not sent (addID, removeID,
\* answeredPaging, pageAll), when each request is for a mobile of its own: of two for one
\* mobile the page answers one, and takes the other off the list.
THEOREM WaitersArePaged == ASSUME OwnMobiles PROVE Spec => []WaitingIsPaged
  BY TypeInit, TypeStep, ReachInit, ReachStep, WaitingInit, WaitingStep, PTL DEF Spec

=============================================================================
