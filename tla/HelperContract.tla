--------------------------- MODULE HelperContract ---------------------------
(***************************************************************************)
(* What a hardware helper process promises to whoever started it (and what  *)
(* HardwareManager assumes of it): it serves one request at a time, reports *)
(* readiness before it touches the card, derives a key only once it has     *)
(* been told to continue with that very request, answers no request twice,  *)
(* and is gone for good after any failure.                                  *)
(***************************************************************************)
CONSTANTS Requests, NoOne

VARIABLES
  phase,    \* what the helper is doing
  request,  \* what it is serving
  given     \* the requests whose file key it has handed over

contractVars == <<phase, request, given>>

Init == phase = "idle" /\ request = NoOne /\ given = {}

Ask(r) ==
  /\ phase = "idle" /\ r \notin given
  /\ phase' = "preparing" /\ request' = r
  /\ UNCHANGED given

Ready ==
  /\ phase = "preparing" /\ phase' = "armed"
  /\ UNCHANGED <<request, given>>

Continue ==
  /\ phase = "armed" /\ phase' = "deriving"
  /\ UNCHANGED <<request, given>>

\* A one-shot helper is gone after its answer.
Answer ==
  /\ phase = "deriving" /\ phase' \in {"idle", "gone"}
  /\ given' = given \cup {request}
  /\ request' = NoOne

End == phase # "gone" /\ phase' = "gone" /\ request' = NoOne /\ UNCHANGED given

Next == (\E r \in Requests : Ask(r)) \/ Ready \/ Continue \/ Answer \/ End

Spec == Init /\ [][Next]_contractVars
=============================================================================
