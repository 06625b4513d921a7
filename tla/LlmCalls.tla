------------------------------ MODULE LlmCalls ------------------------------
(***************************************************************************)
(* One call of the model, seen from below: the HTTP requests that          *)
(* OpenAICompatibleClient.next_action makes for it, what each answer of    *)
(* the provider becomes in the client and in the engine, and the scripted  *)
(* client that stands in for it. Harness takes the outcome of a call as a  *)
(* free choice (AskLlm); this module says where each outcome comes from.   *)
(*                                                                         *)
(* One session, run by one process at a time, with kills and resumes, and  *)
(* the user who sets and clears the credential.                            *)
(*                                                                         *)
(* Operators named Bug_X are wrong versions of X, which no specification   *)
(* uses: with X replaced by Bug_X, a run must find its property violated.  *)
(***************************************************************************)
EXTENDS Naturals, Statuses

CONSTANTS
  MaxAttempts,   \* range(3) in next_action
  MaxCalls,      \* max_llm_calls
  MaxFaults      \* kills, and answers the client lets escape (a bound)

ASSUME AttemptsAssumption == MaxAttempts \in Nat \ {0}
ASSUME BoundsAssumption == MaxCalls \in Nat \ {0} /\ MaxFaults \in Nat

Clients == {"http", "scripted"}

\* What a request can end in. "network": any other httpx.HTTPError, such as a
\* read error. "malformed": KeyError, TypeError or ValueError, from json() to
\* parse_action. "empty": an empty list where the first item is taken, which
\* raises IndexError.
Replies ==
  {"5xx", "4xx", "timeout", "connect", "network", "malformed", "empty", "action"}

Transient == {"5xx", "timeout", "connect"}

VARIABLES
  status,    \* sessions.status
  calls,     \* the persisted counter of calls
  pc,        \* "down": no process runs the session
  client,    \* the client of the engine that was built last
  key,       \* is a credential stored in the keyring?
  attempt,   \* the loop variable of next_action
  perr,      \* protocol_errors of HarnessEngine.run
  sent,      \* history: requests sent since a call was last charged
  last,      \* history: what the previous request of the call ended in
  bad,       \* history: answers in a row, within one run, that are no action
  faults     \* used up from MaxFaults

store == <<status, calls>>
engine == <<pc, client, attempt, perr>>
history == <<sent, last, bad>>
vars == <<store, engine, key, history, faults>>

Fault == faults < MaxFaults /\ faults' = faults + 1

Init ==
  /\ status = "NONE"
  /\ calls = 0
  /\ pc = "down"
  /\ client = "scripted"
  /\ key \in BOOLEAN
  /\ attempt = 0
  /\ perr = 0
  /\ sent = 0
  /\ last = "none"
  /\ bad = 0
  /\ faults = 0

-----------------------------------------------------------------------------
(* Building the engine                                                      *)

\* The user keeps the credential (CredentialService).
SetKey ==
  /\ key' = TRUE
  /\ UNCHANGED <<store, engine, history, faults>>

ClearKey ==
  /\ key' = FALSE
  /\ UNCHANGED <<store, engine, history, faults>>

\* EngineFactory.create with the client c, and the start of HarnessEngine.run.
\* get_for_client raises credential_not_configured when there is no key.
Build(c) ==
  /\ c = "http" => key
  /\ client' = c
  /\ status' = "RUNNING"
  /\ pc' = "loop"
  /\ perr' = 0
  /\ bad' = 0

\* cah run, with or without --mock-script.
Run ==
  /\ status = "NONE"
  /\ \E c \in Clients : Build(c)
  /\ UNCHANGED <<calls, key, attempt, sent, last, faults>>

\* cah sessions resume has no option for a script: it builds the HTTP client.
Resume ==
  /\ pc = "down"
  /\ status \in Resumable
  /\ Build("http")
  /\ UNCHANGED <<calls, key, attempt, sent, last, faults>>

-----------------------------------------------------------------------------
(* HarnessEngine.run around the call                                        *)

\* _pause, or any other status in which run() returns.
Leave(target) == status' = target /\ pc' = "down"

\* The budget is spent, or the call is charged before it is made.
Loop ==
  /\ pc = "loop"
  /\ \/ /\ calls >= MaxCalls
        /\ Leave("PAUSED_LIMIT_REACHED")
        /\ UNCHANGED <<calls, attempt, sent, last>>
     \/ /\ calls < MaxCalls
        /\ calls' = calls + 1
        /\ pc' = IF client = "http" THEN "post" ELSE "script"
        /\ attempt' = 0
        /\ sent' = 0
        /\ last' = "none"
        /\ UNCHANGED status
  /\ UNCHANGED <<client, key, perr, bad, faults>>

\* A valid action clears the count of protocol errors. Then the loop goes on,
\* or the session pauses for an approval, or it ends.
\* The count of protocol errors is never cleared.
Bug_AfterAction(n) == n
AfterAction(n) == 0

Proceed ==
  /\ perr' = AfterAction(perr)
  /\ bad' = 0
  /\ \/ pc' = "loop" /\ UNCHANGED status
     \/ \E target \in {"PAUSED_APPROVAL", "SUCCEEDED", "NEEDS_USER_DECISION"} :
          Leave(target)

\* except LLMError.
LlmError ==
  /\ Leave("PAUSED_INTERNAL_ERROR")
  /\ UNCHANGED perr

\* except (ValidationError, ValueError, TypeError): one correction is allowed.
ProtocolError ==
  /\ perr' = perr + 1
  /\ IF perr + 1 >= 2
     THEN Leave("PAUSED_PROTOCOL_ERROR")
     ELSE pc' = "loop" /\ UNCHANGED status

-----------------------------------------------------------------------------
(* The clients                                                              *)

\* self.http.post: the request is on its way.
Post ==
  /\ pc = "post"
  /\ sent' = sent + 1
  /\ pc' = "wait"
  /\ UNCHANGED <<store, client, key, attempt, perr, last, bad,
                 faults>>

\* A transient fault is retried while an attempt is left.
\* A refused request is repeated as well.
Bug_Retried(r) == r \in Transient \cup {"4xx"} /\ attempt < MaxAttempts - 1
Retried(r) == r \in Transient /\ attempt < MaxAttempts - 1

\* What the answer r becomes. The request has a timeout, so one always comes.
Reply(r) ==
  /\ pc = "wait"
  /\ last' = r
  /\ \/ /\ Retried(r)
        /\ attempt' = attempt + 1
        /\ pc' = "post"
        /\ UNCHANGED <<status, perr, bad, faults>>
     \/ /\ ~Retried(r)
        /\ r \in Transient \cup {"4xx", "network"}
        /\ LlmError
        /\ UNCHANGED <<attempt, bad, faults>>
     \/ /\ r = "malformed"
        /\ LlmError
        /\ bad' = bad + 1
        /\ UNCHANGED <<attempt, faults>>
     \/ /\ r = "empty"      \* nobody catches IndexError
        /\ pc' = "down"
        /\ bad' = bad + 1
        /\ Fault
        /\ UNCHANGED <<status, attempt, perr>>
     \/ /\ r = "action"
        /\ Proceed
        /\ UNCHANGED <<attempt, faults>>
  /\ UNCHANGED <<calls, client, key, sent>>

\* ScriptedMockLLM.next_action: the script is exhausted, its next item is not
\* an action, or it is one.
Script ==
  /\ pc = "script"
  /\ \/ LlmError /\ UNCHANGED bad
     \/ ProtocolError /\ bad' = bad + 1
     \/ Proceed
  /\ UNCHANGED <<calls, client, key, attempt, sent, last,
                 faults>>

\* The process dies: only the store is left.
Kill ==
  /\ pc # "down"
  /\ pc' = "down"
  /\ Fault
  /\ UNCHANGED <<store, client, key, attempt, perr, history>>

Step == Loop \/ Post \/ Script \/ \E r \in Replies : Reply(r)

Next == Run \/ Resume \/ Step \/ Kill \/ SetKey \/ ClearKey

Spec == Init /\ [][Next]_vars

-----------------------------------------------------------------------------
(* Properties                                                               *)

TypeOK ==
  /\ status \in SessionStatus \cup {"NONE"}
  /\ calls \in 0..MaxCalls
  /\ pc \in {"down", "loop", "post", "wait", "script"}
  /\ client \in Clients
  /\ key \in BOOLEAN
  /\ attempt \in 0..(MaxAttempts - 1)
  /\ perr \in 0..2
  /\ sent \in Nat
  /\ last \in Replies \cup {"none"}
  /\ bad \in Nat
  /\ faults \in 0..MaxFaults

\* One charged call never becomes more than MaxAttempts requests, also when
\* the process dies between the charge and the answer and another one resumes
\* (the call is saved before it is made). A request is repeated only after a
\* fault that may pass, never after a refusal, a malformed answer or an action,
\* whose effect would come twice; and a call is given up for such a fault only
\* when every attempt is used (the bounded retry of next_action).
RetriesTransient ==
  [][/\ sent' > sent => sent < MaxAttempts /\ last \in Transient \cup {"none"}
     /\ status # status' /\ status' = "PAUSED_INTERNAL_ERROR" /\ last' \in Transient
          => sent = MaxAttempts]_vars

\* The count of protocol errors is the number of non-actions in a row: one is
\* corrected, the second in a row pauses the session, and an action between
\* two of them starts the count again (protocol_errors of run).
SecondErrorPauses ==
  /\ TypeOK
  /\ pc # "down" => bad < 2
  /\ status = "PAUSED_PROTOCOL_ERROR" => bad = 2
=============================================================================
