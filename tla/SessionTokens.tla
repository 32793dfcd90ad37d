---------------------------- MODULE SessionTokens ----------------------------
(***************************************************************************)
(* What a session promises its user: a refresh token is accepted once and  *)
(* replaced by a new one, and a session that has ended stays ended.  A     *)
(* session whose row was overwritten with an older copy promises nothing.  *)
(***************************************************************************)
EXTENDS Naturals

CONSTANT Sessions

VARIABLES
    state,     \* "none", "live", "ended" or "overwritten"
    current,   \* the token of a session
    spent      \* the tokens that were accepted

vars == <<state, current, spent>>

Init ==
    /\ state = [s \in Sessions |-> "none"]
    /\ current = [s \in Sessions |-> 0]
    /\ spent = {}

Start(s) ==
    /\ state[s] = "none"
    /\ state' = [state EXCEPT ![s] = "live"]
    /\ current' = [current EXCEPT ![s] = 1]
    /\ UNCHANGED spent

Rotate(s) ==
    /\ state[s] = "live"
    /\ <<s, current[s]>> \notin spent
    /\ spent' = spent \cup {<<s, current[s]>>}
    /\ current' = [current EXCEPT ![s] = current'[s]]
    /\ current'[s] \in Nat /\ <<s, current'[s]>> \notin spent'
    /\ UNCHANGED state

End(ended) ==
    /\ \A s \in ended : state[s] = "live"
    /\ state' = [s \in Sessions |-> IF s \in ended THEN "ended" ELSE state[s]]
    /\ UNCHANGED <<current, spent>>

Overwrite(s) ==
    /\ state' = [state EXCEPT ![s] = "overwritten"]
    /\ current' = [current EXCEPT ![s] = 0]
    /\ spent' = {st \in spent : st[1] # s}

Next ==
    \/ \E s \in Sessions : Start(s) \/ Rotate(s) \/ Overwrite(s)
    \/ \E ended \in SUBSET Sessions : End(ended)

Spec == Init /\ [][Next]_vars

=============================================================================
