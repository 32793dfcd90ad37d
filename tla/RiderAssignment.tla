--------------------------- MODULE RiderAssignment ---------------------------
(***************************************************************************)
(* What the search for a rider promises, whatever offers, jobs and retries *)
(* it takes: an order that waits gets one rider, who carries nothing else, *)
(* and keeps that rider to the end; or it stays unserved.                  *)
(***************************************************************************)
CONSTANTS Orders, Riders, NoRider

VARIABLES phase, holder

Carries(r) == \E o \in Orders : phase[o] = "carried" /\ holder[o] = r

Init ==
    /\ phase = [o \in Orders |-> "waiting"]
    /\ holder = [o \in Orders |-> NoRider]

Assign(o, r) ==
    /\ phase[o] = "waiting"
    /\ ~Carries(r)
    /\ phase' = [phase EXCEPT ![o] = "carried"]
    /\ holder' = [holder EXCEPT ![o] = r]

GiveUp(o) ==
    /\ phase[o] = "waiting"
    /\ phase' = [phase EXCEPT ![o] = "unserved"]
    /\ UNCHANGED holder

Close(o, outcome) ==
    /\ phase[o] = "carried"
    /\ phase' = [phase EXCEPT ![o] = outcome]
    /\ UNCHANGED holder

Next ==
    \E o \in Orders :
        \/ \E r \in Riders : Assign(o, r)
        \/ GiveUp(o)
        \/ \E outcome \in {"delivered", "failed"} : Close(o, outcome)

Spec == Init /\ [][Next]_<<phase, holder>>

=============================================================================
