-------------------------- MODULE ApprovalLifecycle --------------------------
(***************************************************************************)
(* What the approval flow promises about one row of pending_approvals: it  *)
(* is requested once, decided once, and its action runs at most once and   *)
(* only after an approval.  An expiry is not final: a decision already on  *)
(* its way when the row expires still wins (resolve_approval overwrites    *)
(* whatever status it finds).                                              *)
(***************************************************************************)
CONSTANT Requests

VARIABLES
    status,    \* of each row; "none" before create_approval
    executed   \* rows whose action was applied to the ledger

vars == <<status, executed>>

Decisions == {"APPROVED", "REJECTED"}

Init ==
    /\ status = [r \in Requests |-> "none"]
    /\ executed = {}

Request(r) ==
    /\ status[r] = "none"
    /\ status' = [status EXCEPT ![r] = "PENDING"]
    /\ UNCHANGED executed

\* Several rows may expire in one statement.
Expire(R) ==
    /\ R \subseteq {r \in Requests : status[r] = "PENDING"}
    /\ status' = [r \in Requests |-> IF r \in R THEN "EXPIRED" ELSE status[r]]
    /\ UNCHANGED executed

Decide(r, d) ==
    /\ status[r] \in {"PENDING", "EXPIRED"}
    /\ status' = [status EXCEPT ![r] = d]
    /\ UNCHANGED executed

Execute(r) ==
    /\ status[r] = "APPROVED"
    /\ r \notin executed
    /\ executed' = executed \cup {r}
    /\ UNCHANGED status

Next ==
    \/ \E r \in Requests : Request(r) \/ Execute(r)
    \/ \E r \in Requests, d \in Decisions : Decide(r, d)
    \/ \E R \in SUBSET Requests : Expire(R)

Spec == Init /\ [][Next]_vars
==============================================================================
