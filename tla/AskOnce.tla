------------------------------- MODULE AskOnce -------------------------------
(***************************************************************************)
(* What the chat screen relies on when it asks the text service: a request *)
(* that was made is answered exactly once, with an answer or with nil, and *)
(* never before it was made.  AskQuestionViewModel clears isLoading in the *)
(* completion handler and nowhere else.                                    *)
(***************************************************************************)
CONSTANT Requests
VARIABLE outcome     \* request -> "none", "asked", "answer" or "nil"

Init == outcome = [r \in Requests |-> "none"]

Ask(r) ==
  /\ outcome[r] = "none"
  /\ outcome' = [outcome EXCEPT ![r] = "asked"]

(* A request with nothing to send is refused on the spot.                  *)
Refuse(r) ==
  /\ outcome[r] = "none"
  /\ outcome' = [outcome EXCEPT ![r] = "nil"]

Complete(r) ==
  /\ outcome[r] = "asked"
  /\ \E o \in {"answer", "nil"} : outcome' = [outcome EXCEPT ![r] = o]

Next == \E r \in Requests : Ask(r) \/ Refuse(r) \/ Complete(r)

Spec == Init /\ [][Next]_outcome /\ \A r \in Requests : WF_outcome(Complete(r))
=============================================================================
