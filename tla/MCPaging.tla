------------------------------ MODULE MCPaging ------------------------------
EXTENDS Paging

CONSTANTS c1, c2, m1, m2

\* Each request for a mobile of its own; one is a call and one a short message.
OwnMobile == (c1 :> m1) @@ (c2 :> m2)
OwnService == (c1 :> "call") @@ (c2 :> "sms")
\* Two requests for one mobile.
SharedMobile == (c1 :> m1) @@ (c2 :> m1)
=============================================================================
