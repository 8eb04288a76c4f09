----------------------------- MODULE RunPromise -----------------------------
(***************************************************************************)
(* What a client may rely on about a run, whatever happens behind the API: *)
(* an accepted run is pending until it ends, once, in one terminal state   *)
(* with the result of that state; after a cancellation was accepted the    *)
(* only end is "cancelled"; deleting takes the run away.                   *)
(***************************************************************************)
EXTENDS RunStates

CONSTANT RunIds

VARIABLES phase, result

promiseVars == <<phase, result>>

Init ==
    /\ phase = [r \in RunIds |-> "absent"]
    /\ result = [r \in RunIds |-> NoPayload]

Accept(r) ==
    /\ phase[r] = "absent"
    /\ phase' = [phase EXCEPT ![r] = "pending"]
    /\ UNCHANGED result

AskToCancel(r) ==
    /\ phase[r] = "pending"
    /\ phase' = [phase EXCEPT ![r] = "cancelling"]
    /\ UNCHANGED result

End(r, state, payload) ==
    /\ phase[r] = "pending" \/ (phase[r] = "cancelling" /\ state = "cancelled")
    /\ phase' = [phase EXCEPT ![r] = state]
    /\ result' = [result EXCEPT ![r] = payload]

Forget(gone) ==
    /\ phase' = [r \in RunIds |-> IF r \in gone THEN "absent" ELSE phase[r]]
    /\ result' = [r \in RunIds |-> IF r \in gone THEN NoPayload ELSE result[r]]

Next ==
    \/ \E r \in RunIds :
        \/ Accept(r)
        \/ AskToCancel(r)
        \/ \E state \in TerminalStates : \E payload \in Payloads(state) :
              End(r, state, payload)
    \/ \E gone \in SUBSET RunIds : Forget(gone)

Spec == Init /\ [][Next]_promiseVars
=============================================================================
