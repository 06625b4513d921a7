------------------------------ MODULE Statuses ------------------------------
(***************************************************************************)
(* The two status machines of the harness, as the tables that the store    *)
(* consults before every UPDATE: models.py for sessions, storage.py for    *)
(* approvals. "NONE" stands for a row that does not exist yet.             *)
(***************************************************************************)

SessionStatus ==
  {"CREATED", "RUNNING", "SUCCEEDED", "PAUSED_APPROVAL",
   "PAUSED_LIMIT_REACHED", "PAUSED_PROTOCOL_ERROR",
   "PAUSED_WORKSPACE_DRIFT", "PAUSED_INTERNAL_ERROR",
   "NEEDS_USER_DECISION", "CHANGES_KEPT", "ROLLED_BACK"}

\* The pauses that the engine and the resume service enter from RUNNING.
Pauses ==
  {"PAUSED_APPROVAL", "PAUSED_LIMIT_REACHED", "PAUSED_PROTOCOL_ERROR",
   "PAUSED_WORKSPACE_DRIFT", "PAUSED_INTERNAL_ERROR"}

\* Sessions that occupy their project: create_session refuses another one.
ActiveStatuses == {"CREATED", "RUNNING", "NEEDS_USER_DECISION"} \cup Pauses

ALLOWED_TRANSITIONS ==
  {<<"CREATED", "RUNNING">>,
   <<"RUNNING", "SUCCEEDED">>,
   <<"RUNNING", "NEEDS_USER_DECISION">>,
   <<"PAUSED_APPROVAL", "RUNNING">>,
   <<"PAUSED_LIMIT_REACHED", "RUNNING">>,
   <<"NEEDS_USER_DECISION", "CHANGES_KEPT">>,
   <<"NEEDS_USER_DECISION", "ROLLED_BACK">>}
  \cup ({"RUNNING"} \X Pauses)

\* What `cah sessions resume` takes on; any other status is returned as it is.
Resumable == {"CREATED", "RUNNING", "PAUSED_APPROVAL"}

ApprovalStatus ==
  {"PROPOSED", "PENDING", "APPROVED", "CONSUMED",
   "DENIED", "EXPIRED", "INVALIDATED"}

ApprovalTransitions ==
  {<<"PROPOSED", "PENDING">>}
  \cup ({"PENDING"} \X {"APPROVED", "DENIED", "EXPIRED", "INVALIDATED"})
  \cup ({"APPROVED"} \X {"CONSUMED", "EXPIRED", "INVALIDATED"})
=============================================================================
