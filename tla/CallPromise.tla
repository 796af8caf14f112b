---------------------------- MODULE CallPromise ----------------------------
(***************************************************************************)
(* What the call controllers of CallControl.cpp promise about one call:    *)
(* it is set up, carried and cleared, in that order and never back; it is  *)
(* carried only when both parties have answered; and once clearing has     *)
(* begun the call ends.                                                    *)
(***************************************************************************)
CONSTANTS Parties

VARIABLES phase, answered

promiseVars == <<phase, answered>>

Init == phase = "setup" /\ answered = {}

\* A party answers.  What the other one has done, or the phase, does not matter.
Answer == \E p \in Parties : answered' = answered \union {p} /\ UNCHANGED phase

Carry == phase = "setup" /\ answered = Parties /\ phase' = "carried" /\ UNCHANGED answered

Clear == phase \in {"setup", "carried"} /\ phase' = "clearing" /\ UNCHANGED answered

End == phase # "over" /\ phase' = "over" /\ UNCHANGED answered

Next == Answer \/ Carry \/ Clear \/ End

\* Nobody has to end a call, but a call that is being cleared ends.
Spec == Init /\ [][Next]_promiseVars /\ WF_promiseVars(phase = "clearing" /\ End)
=============================================================================
