------------------------------ MODULE TouchGate ------------------------------
(***************************************************************************)
(* What internal/signing promises its clients, without saying how: one     *)
(* YubiKey, one operation at a time; every request is told one outcome;    *)
(* a request may be told that it timed out or was canceled while its       *)
(* operation still occupies the device, but nobody else is let in until    *)
(* that operation is over; success is told only of an operation that       *)
(* succeeded.  Coordinator implements this specification.                  *)
(***************************************************************************)
EXTENDS FiniteSets

CONSTANTS Requests, NoOne

VARIABLES
  holder,  \* the request whose operation occupies the device
  op,      \* the operation of each request
  told     \* the outcome each request was told

gateVars == <<holder, op, told>>

GateInit ==
  /\ holder = NoOne
  /\ op   = [r \in Requests |-> "waiting"]
  /\ told = [r \in Requests |-> NoOne]

Admit(r) ==
  /\ holder = NoOne /\ op[r] = "waiting" /\ told[r] = NoOne
  /\ holder' = r
  /\ op' = [op EXCEPT ![r] = "running"]
  /\ UNCHANGED told

Complete(r) ==
  /\ op[r] = "running"
  /\ \E o \in {"ok", "failed"} : op' = [op EXCEPT ![r] = o]
  /\ UNCHANGED <<holder, told>>

Vacate(r) ==
  /\ holder = r /\ op[r] # "running"
  /\ holder' = NoOne
  /\ UNCHANGED <<op, told>>

MayTell(r, outcome) ==
  CASE outcome = "success" -> op[r] = "ok"
    [] outcome = "failure" -> op[r] = "failed"
    [] OTHER -> outcome \in {"timeout", "canceled"}

Tell(r, outcome) ==
  /\ told[r] = NoOne
  /\ MayTell(r, outcome)
  /\ told' = [told EXCEPT ![r] = outcome]
  /\ UNCHANGED <<holder, op>>

GateNext ==
  \E r \in Requests :
    \/ Admit(r) \/ Complete(r) \/ Vacate(r)
    \/ \E outcome \in {"success", "failure", "timeout", "canceled"} : Tell(r, outcome)

GateSpec == GateInit /\ [][GateNext]_gateVars
=============================================================================
