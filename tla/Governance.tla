----------------------------- MODULE Governance -----------------------------
(***************************************************************************)
(* What the harness promises about every action the model proposes: the    *)
(* policy allows it, refuses it or makes it wait for the user; a waiting   *)
(* action needs the user's consent and a grant that uses this consent up;  *)
(* consent can be withdrawn or lapse until then; and the tool of an action *)
(* is started at most once, never for a refused one.                       *)
(***************************************************************************)
CONSTANT Rows      \* proposals, by session and step

VARIABLE permit    \* how far each proposal has come

Permits ==
  {"none", "allowed", "waiting", "approved", "granted", "refused", "started"}

Init == permit = [r \in Rows |-> "none"]

Move(r, from, to) ==
  /\ permit[r] \in from
  /\ permit' = [permit EXCEPT ![r] = to]

Propose(r) == \E to \in {"allowed", "waiting", "refused"} : Move(r, {"none"}, to)
Consent(r) == Move(r, {"waiting"}, "approved")
Withdraw(r) == Move(r, {"waiting", "approved"}, "refused")
Grant(r) == Move(r, {"approved"}, "granted")
StartTool(r) == Move(r, {"allowed", "granted"}, "started")

Next ==
  \E r \in Rows :
    Propose(r) \/ Consent(r) \/ Withdraw(r) \/ Grant(r) \/ StartTool(r)

Spec == Init /\ [][Next]_permit
=============================================================================
