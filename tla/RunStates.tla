----------------------------- MODULE RunStates -----------------------------
(***************************************************************************)
(* The public states of a run, the transitions an update may ask for and   *)
(* the result each state carries (ports.py).                               *)
(***************************************************************************)
CONSTANT Answers     \* validated public answers

TerminalStates == {"completed", "failed", "cancelled", "expired"}
OwnedStates == {"running", "waiting_for_tool"}
States == {"queued"} \cup OwnedStates \cup TerminalStates

\* _STATE_TRANSITIONS: what StateUpdate accepts.
NextStates(state) ==
    CASE state = "queued" -> {"failed", "expired"}
      [] state = "running" -> TerminalStates \cup {"waiting_for_tool"}
      [] state = "waiting_for_tool" -> TerminalStates \cup {"running"}
      [] OTHER -> {}

NoPayload == "no_payload"
Failures == {"run_failure", "expired_failure"}

\* _validate_terminal_payload: the public result each state carries.
Payloads(state) ==
    CASE state = "completed" -> Answers
      [] state = "failed" -> {"run_failure"}
      [] state = "expired" -> {"expired_failure"}
      [] OTHER -> {NoPayload}

ASSUME AnswersAssumption == Answers \cap (Failures \cup {NoPayload}) = {}
=============================================================================
