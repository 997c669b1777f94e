------------------------- MODULE BrokerPublication -------------------------
(***************************************************************************)
(* What publish_verification_results promises, whatever requests it takes: *)
(* the branch, the tags and the results are recorded by the broker, the    *)
(* results after everything else, and success is reported only when all    *)
(* of it was recorded.                                                     *)
(***************************************************************************)
CONSTANT Results

VARIABLES before,     \* what has to be recorded before the results
          recorded, reply
vars == <<before, recorded, reply>>

Init == recorded = {} /\ reply = "none"

Allowed == before \cup (IF before \subseteq recorded THEN {Results} ELSE {})

Record ==
  /\ reply = "none"
  /\ \E item \in Allowed : recorded' = recorded \cup {item}
  /\ UNCHANGED <<before, reply>>

\* The last request may still have an effect, also when it fails.
Reply(answer) ==
  /\ reply = "none"
  /\ recorded' \in {recorded} \cup {recorded \cup {item} : item \in Allowed}
  /\ answer = "ok" => before \cup {Results} \subseteq recorded'
  /\ reply' = answer
  /\ UNCHANGED before

Next == Record \/ \E answer \in {"ok", "error"} : Reply(answer)

Spec == Init /\ [][Next]_vars
=============================================================================
