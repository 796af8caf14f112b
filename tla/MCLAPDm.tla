------------------------------ MODULE MCLAPDm ------------------------------
EXTENDS LAPDm

\* SAP0: the handset's L3 asks for the link; either side sends data; the base station's
\* L3 gives the link up in any of its ways, the handset's in an orderly way.
LinkRequests == [e \in End |->
    IF e = "ms" THEN {"ESTABLISH", "DATA", "RELEASE"}
    ELSE {"DATA", "UNIT_DATA", "RELEASE", "ERROR", "HARDRELEASE"}]
\* SAP0 as it is used: the handset asks for the link, the base station releases it.
AccessRequests == [e \in End |->
    IF e = "ms" THEN {"ESTABLISH", "DATA"} ELSE {"DATA", "RELEASE"}]
\* SAP3: the base station's L3 asks for the link (mobile terminated SMS).
SmsRequests == [e \in End |->
    IF e = "ms" THEN {"DATA"}
    ELSE {"ESTABLISH", "DATA", "RELEASE", "ERROR", "HARDRELEASE"}]

HandsetRefreshes == {"ms"}
=============================================================================
