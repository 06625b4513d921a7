------------------------------- MODULE Memory -------------------------------
(***************************************************************************)
(* The structured memory of a project: entries that the model proposes,    *)
(* that the user approves, rejects or deletes from other processes, and    *)
(* that each prompt of a session searches.                                 *)
(*                                                                         *)
(* A change of an entry is one transaction. A search is not: it lists the  *)
(* ids of the active entries with one statement and then reads the entries *)
(* one by one, while other processes go on changing them.                  *)
(*                                                                         *)
(* Operators named Bug_X are wrong versions of X, which no specification   *)
(* uses: with X replaced by Bug_X, a run must find its property violated.  *)
(***************************************************************************)
EXTENDS Naturals, FiniteSets, SequencesExt

CONSTANTS
  Projects,
  Words,       \* what content and tags can match, and keywords ask for
  Recorded,    \* the ids in the table actions
  Passed,      \* the [id, validator] of the rows of validations that passed
  MaxReturned, \* min(limit, 5)
  MaxEntries   \* a bound

ValidationIds == {v.id : v \in Passed} \cup {v.validator : v \in Passed}

NoEvidence == "none"

\* Ids of actions and of validation rows are drawn at random, and None is none. The
\* id of a validator is configured: it is assumed to be that of no action.
ASSUME ConstantsAssumption ==
  /\ Recorded \cap ValidationIds = {}
  /\ NoEvidence \notin Recorded \cup ValidationIds
  /\ {MaxReturned, MaxEntries} \subseteq Nat \ {0}

\* The rows; nothing reads their evidence back.
Entries ==
  [project : Projects, words : SUBSET Words,
   status : {"CANDIDATE", "ACTIVE", "REJECTED", "DELETED"}]

VARIABLES
  entries,   \* memory_entries, by rowid
  search,    \* the last search of a prompt
  outcome,   \* how the last propose_verified_fix ended
  approved   \* history: the entries that the user has approved

memory == <<entries, search, outcome, approved>>

NoSearch == [pc |-> "idle", project |-> "none", keywords |-> {}, ids |-> <<>>,
             values |-> <<>>, result |-> {}]

Active(p) == {i \in DOMAIN entries :
                entries[i].project = p /\ entries[i].status = "ACTIVE"}

MemoryInit ==
  /\ entries = <<>>
  /\ search = NoSearch
  /\ outcome = "none"
  /\ approved = {}

\* create_memory. The foreign key refuses evidence that is no recorded action.
Storable(evidence) == evidence \in Recorded \cup {NoEvidence}

Create(p, words, status) ==
  /\ Len(entries) < MaxEntries
  /\ entries' = Append(entries, [project |-> p, words |-> words, status |-> status])

\* propose_from_action: the model proposes, and the entry belongs to the
\* project of its session.
\* An entry with evidence needs no approval.
Bug_Proposed(evidence) == IF evidence = NoEvidence THEN "CANDIDATE" ELSE "ACTIVE"
Proposed(evidence) == "CANDIDATE"

Propose(p, words, evidence) ==
  /\ Storable(evidence)
  /\ Create(p, words, Proposed(evidence))
  /\ UNCHANGED <<search, outcome, approved>>

\* action_has_successful_validation.
HasSuccessfulValidation(evidence) == evidence \in ValidationIds

\* propose_verified_fix: what the caller names as evidence is looked up among
\* the validations, and is then stored as an action.
VerifiedFix(p, words, evidence) ==
  /\ outcome' = IF ~ HasSuccessfulValidation(evidence)
                  THEN "missing_validation_evidence"
                ELSE IF Storable(evidence) THEN "active"
                ELSE "write_failed"
  /\ IF outcome' = "active" THEN Create(p, words, "ACTIVE")
                             ELSE UNCHANGED entries
  /\ UNCHANGED <<search, approved>>

\* transition_memory.
Transition(i, allowed, target) ==
  /\ entries[i].status \in allowed
  /\ entries' = [entries EXCEPT ![i].status = target]
  /\ UNCHANGED <<search, outcome>>

\* cah memory approve, reject, delete; no entry ever has the status APPROVED,
\* which all three allow as well.
Approve(i) == Transition(i, {"CANDIDATE"}, "ACTIVE") /\ approved' = approved \cup {i}
Reject(i) == Transition(i, {"CANDIDATE"}, "REJECTED") /\ UNCHANGED approved
Delete(i) ==
  /\ Transition(i, {"CANDIDATE", "ACTIVE", "REJECTED"}, "DELETED")
  /\ UNCHANGED approved

\* ORDER BY rowid DESC.
NewestFirst(rows) ==
  {ids \in [1..Cardinality(rows) -> rows] :
     \A j, k \in DOMAIN ids : j < k => ids[j] > ids[k]}

\* search_active_memory: one statement lists the ids.
SearchIds(p, keywords) ==
  /\ search.pc # "reading"
  /\ \E ids \in NewestFirst(Active(p)) :
       search' = [NoSearch EXCEPT !.pc = "reading", !.project = p,
                                  !.keywords = keywords, !.ids = ids]
  /\ UNCHANGED <<entries, outcome, approved>>

\* get_memory of the next id.
SearchRead ==
  /\ search.pc = "reading" /\ Len(search.values) < Len(search.ids)
  /\ search' = [search EXCEPT !.values = Append(@, entries[search.ids[Len(@) + 1]])]
  /\ UNCHANGED <<entries, outcome, approved>>

\* No keywords match everything. The result holds positions in ids; a limit
\* keeps the first.
Matches(entry) == search.keywords = {} \/ search.keywords \cap entry.words # {}
Matching(positions) == {k \in positions : Matches(search.values[k])}
Bounded(positions) ==
  {k \in positions : Cardinality({j \in positions : j <= k}) <= MaxReturned}

\* The limit comes before the keywords.
Bug_Found(positions) == Matching(Bounded(positions))
Found(positions) == Bounded(Matching(positions))

SearchReturn ==
  /\ search.pc = "reading" /\ Len(search.values) = Len(search.ids)
  /\ search' = [search EXCEPT !.pc = "returned", !.result = Found(DOMAIN search.ids)]
  /\ UNCHANGED <<entries, outcome, approved>>

MemoryNext ==
  \/ \E p \in Projects, words \in SUBSET Words :
       \/ \E evidence \in Recorded \cup {NoEvidence} : Propose(p, words, evidence)
       \/ \E evidence \in Recorded \cup ValidationIds : VerifiedFix(p, words, evidence)
       \/ SearchIds(p, words)
  \/ \E i \in DOMAIN entries : Approve(i) \/ Reject(i) \/ Delete(i)
  \/ SearchRead
  \/ SearchReturn

MemorySpec == MemoryInit /\ [][MemoryNext]_memory

-----------------------------------------------------------------------------
Returned == {search.ids[k] : k \in search.result}

MemoryTypeOK ==
  /\ entries \in Seq(Entries)
  /\ search.pc \in {"idle", "reading", "returned"}
  /\ ToSet(search.values) \subseteq Entries
  /\ outcome \in {"none", "missing_validation_evidence", "active", "write_failed"}
  /\ approved \subseteq DOMAIN entries

\* Whatever other processes do to the entries between the statements of a
\* search, the model is told at most MaxReturned of them, all of its project,
\* and none that the user has not approved; and an entry that was rejected or
\* deleted is never active again. What a validation is to make active never
\* gets there: evidence that is found among the validations is none that can be
\* stored (propose_verified_fix, create_memory, transition_memory).
OnlyApproved ==
  /\ [](/\ MemoryTypeOK
        /\ Returned \subseteq approved
        /\ \A i \in Returned : entries[i].project = search.project
        /\ Cardinality(search.result) <= MaxReturned)
  /\ [][\A i \in DOMAIN entries :
          entries[i].status \in {"REJECTED", "DELETED"} =>
            entries'[i].status \in {entries[i].status, "DELETED"}]_memory

\* A search misses no entry: one that matches and has been active from its
\* first statement to its end is returned, unless MaxReturned newer ones are,
\* and those that a concurrent deletion lets in do not count as older.
NewestMatching ==
  search.pc = "returned" =>
    \A i \in ToSet(search.ids) \ Returned :
      Matches(entries[i]) =>
        Cardinality(search.result) = MaxReturned /\ \A j \in Returned : j > i
=============================================================================
