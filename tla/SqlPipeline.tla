----------------------------- MODULE SqlPipeline -----------------------------
(***************************************************************************)
(* From what recall found to rows: the nodes of the agent graph that       *)
(* choose the tables (merge_retrieved_info, filter_table ∥ filter_metric), *)
(* write the statement (generate_sql), check it (security_validate_sql,    *)
(* validate_sql, evaluate_sql_cost), run it (execute_sql) and, when a      *)
(* check fails, have it corrected (correct_sql) and checked again.         *)
(*                                                                         *)
(* CheckpointedGraph models the order of the nodes with its faults; here   *)
(* what counts is the data: which tables, which statement, and what the    *)
(* audit log says of it, also when the budget of the request ends or the   *)
(* run is cancelled.  The log is that of the nodes: the entries the        *)
(* service adds when it ends a request (_audit_terminal) are not in it.    *)
(***************************************************************************)
EXTENDS CandidateRanking, SqlChecks

CONSTANTS
    Findings,       \* what recall may find, see CandidateRanking
    TableAnswers, MetricAnswers,   \* answers of the reranking model
    Statements,     \* what the model may write, see SqlChecks
    Plans,          \* what EXPLAIN may say
    Configs,        \* [rank, rerank, tolerant: BOOLEAN, grants]
    MaxRetries,     \* max_retries of the state
    MaxNamed        \* max_candidate_tables, max_candidate_metrics

ASSUME Retries == MaxRetries \in Nat

\* What is recalled are ids of columns and names of metrics, with a similarity
\* that safe_similarity_score keeps between 0 and 1.
ASSUME FoundNames ==
    \A f \in Findings :
      /\ f.columns \cup f.values \subseteq Columns /\ f.metrics \subseteq Metrics
      /\ IsFiniteSet(f.keywords)
      /\ \A x \in Tables \cup Metrics : f.vectors[x] \in 0 .. 100

\* A model that answers names candidates in two lists, CandidateRerankResult.
ASSUME AnswersNamed ==
    \A a \in (TableAnswers \cup MetricAnswers) \ {NoAnswer} :
      /\ {"ordered", "picked"} \subseteq DOMAIN a
      /\ a.ordered \in Seq(ToSet(a.ordered)) /\ a.picked \in Seq(ToSet(a.picked))

\* The LIMIT of a statement is missing, no literal, or a number.
ASSUME LimitKinds ==
    \A s \in Statements :
      /\ {"pure", "select", "limit"} \subseteq DOMAIN s
      /\ s.limit \in Nat \cup {NoLimit, NotLiteral}

VARIABLES
    phase,          \* the node about to run, or "done", "raised", "cancelled"
    config,
    found,          \* retrieved_columns, _values, _metrics, vector scores
    tables, metrics,    \* table_infos, metric_infos
    sql, normalized,    \* sql, normalized_sql
    refs,           \* sql_referenced_tables
    permission,     \* permission_decision
    cost,           \* sql_cost
    error,          \* error_code
    retries,        \* retry_count
    rows,           \* result_row_count
    calls,          \* what the warehouse was asked, in order
    audit           \* query audit log

vars == <<phase, config, found, tables, metrics, sql, normalized, refs, permission,
          cost, error, retries, rows, calls, audit>>
selection == <<config, found, tables, metrics>>
statement == <<sql, normalized, refs, permission, cost>>
outside == <<calls, audit>>

NoFinding == [keywords |-> {}, columns |-> {}, values |-> {}, metrics |-> {}, vectors |-> <<>>]
NoSql == [select |-> FALSE]
NoCost == [accepted |-> FALSE, reasons |-> {}]
NoError == "none"

Init ==
    /\ phase = "recall"
    /\ config \in Configs
    /\ found = NoFinding /\ tables = {} /\ metrics = {}
    /\ sql = NoSql /\ normalized = NoSql /\ refs = {} /\ permission = "none"
    /\ cost = NoCost /\ error = NoError /\ retries = 0 /\ rows = 0
    /\ calls = <<>> /\ audit = <<>>

(***************************************************************************)
(* Errors.                                                                 *)
(***************************************************************************)
RetryableCodes == {"SQL_SECURITY_FAILED", "SQL_VALIDATION_FAILED", "SQL_COST_TOO_HIGH"}

\* classify_database_error: by the MySQL error number, else the default.
DatabaseErrors(default) ==
    {"SQL_VALIDATION_FAILED", "PERMISSION_DENIED", "DB_CONNECTION_FAILED", default}

\* The routers after a check: go on, correct the statement, or give up.
RouteOnceMore(code, success) ==
    IF code = NoError THEN success
    ELSE IF code \in RetryableCodes /\ retries =< MaxRetries THEN "correct"
    ELSE "failed"
Route(code, success) ==
    IF code = NoError THEN success
    ELSE IF code \in RetryableCodes /\ retries < MaxRetries THEN "correct"
    ELSE "failed"

(***************************************************************************)
(* Choosing tables and metrics.                                            *)
(***************************************************************************)
Recall ==
    /\ phase = "recall"
    /\ found' \in Findings
    /\ phase' = "merge"
    /\ UNCHANGED <<config, tables, metrics, statement, error, retries, rows, outside>>

Merge ==
    /\ phase = "merge"
    /\ tables' = MergedTables(found)
    /\ metrics' = found.metrics
    /\ phase' = "filter"
    /\ UNCHANGED <<config, found, statement, error, retries, rows, outside>>

Keep(names) == {t \in tables : t.name \in names}

\* Both filters read the merged candidates: they run in the same superstep.
FilterRanked ==
    /\ phase = "filter" /\ config.rank
    /\ \E forTables \in IF config.rerank THEN TableAnswers ELSE {NoAnswer},
          forMetrics \in IF config.rerank THEN MetricAnswers ELSE {NoAnswer} :
         /\ tables' = Keep(ToSet(SelectedTables(tables, found, forTables)))
         /\ metrics' = metrics \cap ToSet(SelectedMetrics(found, tables, forMetrics))
    /\ phase' = "generate"
    /\ UNCHANGED <<config, found, statement, error, retries, rows, outside>>

\* Without ranking, the model names the candidates itself; when one of the two
\* answers fails, so does the run.
FilterNamed ==
    /\ phase = "filter" /\ ~config.rank
    /\ \E forTables \in TableAnswers \ {NoAnswer}, forMetrics \in MetricAnswers \ {NoAnswer} :
         /\ \E names \in Named({t.name : t \in tables}, MaxNamed, forTables) :
               tables' = Keep(names)
         /\ metrics' \in Named(metrics, MaxNamed, forMetrics)
    /\ phase' = "generate"
    /\ UNCHANGED <<config, found, statement, error, retries, rows, outside>>

FilterFails ==
    /\ phase = "filter" /\ ~config.rank
    /\ phase' = "raised"
    /\ UNCHANGED <<selection, statement, error, retries, rows, outside>>

(***************************************************************************)
(* Writing the statement.  invoke_sql_gateway asks again until an answer   *)
(* holds exactly one statement that parses, llm_output_parse_retries times.*)
(***************************************************************************)
Generate ==
    /\ phase = "generate"
    /\ sql' \in {s \in Statements : s.pure}
    /\ error' = NoError
    /\ phase' = "security"
    /\ UNCHANGED <<selection, normalized, refs, permission, cost, retries, rows, outside>>

Correct ==
    /\ phase = "correct"
    /\ sql' \in {s \in Statements : s.pure}
    /\ normalized' = NoSql /\ refs' = {} /\ cost' = NoCost
    /\ retries' = retries + 1
    /\ error' = NoError
    /\ phase' = "security"
    /\ UNCHANGED <<selection, permission, rows, outside>>

ModelFails ==
    /\ phase \in {"generate", "correct"}
    /\ phase' = "raised"
    /\ UNCHANGED <<selection, statement, error, retries, rows, outside>>

(***************************************************************************)
(* Checking it.                                                            *)
(***************************************************************************)

\* build_sql_access_policy: the selected tables by name, columns by name.
Policy == {[name |-> t.name, columns |-> NamesOf(t.columns)] : t \in tables}

Passes(limited) == Valid(limited, Policy) /\ MayRead(config.grants, limited, Policy)

DecisionKept(passed, before) == IF passed /\ before # "DENY" THEN "ALLOW" ELSE "DENY"
Decision(passed, before) == IF passed THEN "ALLOW" ELSE "DENY"

Security ==
    /\ phase = "security"
    /\ LET limited == WithLimit(sql, MaxRows)
           passed  == Limitable(sql) /\ Passes(limited)
       IN  /\ normalized' = IF passed THEN limited ELSE normalized
           /\ refs' = IF passed THEN ReferencedTables(limited) ELSE refs
           /\ permission' = Decision(passed, permission)
           /\ error' = IF passed THEN NoError ELSE "SQL_SECURITY_FAILED"
           /\ phase' = Route(error', "validate")
    /\ UNCHANGED <<selection, sql, cost, retries, rows, outside>>

\* The statement the later nodes work on.
SentAsWritten == sql
Sent == IF normalized # NoSql THEN normalized ELSE sql

Validate ==
    /\ phase = "validate"
    /\ calls' = Append(calls, [op |-> "validate", sql |-> Sent])
    /\ error' \in {NoError, "SQL_VALIDATION_FAILED"}
    /\ phase' = Route(error', "cost")
    /\ UNCHANGED <<selection, statement, retries, rows, audit>>

\* What a plan that was read does to the run: [cost, error].
Assessed(plan) ==
    LET reasons == Rejections(plan)
        unread  == reasons = {"COST_ASSESSMENT_FAILED"}
    IN  [cost  |-> [accepted |-> reasons = {}, reasons |-> reasons],
         error |-> IF reasons = {} \/ (unread /\ config.tolerant) THEN NoError
                   ELSE IF unread THEN "SQL_COST_ASSESSMENT_FAILED"
                   ELSE "SQL_COST_TOO_HIGH"]

\* An EXPLAIN that failed with this code.
Unassessed(code) ==
    IF code = "SQL_COST_ASSESSMENT_FAILED" /\ config.tolerant
    THEN [cost |-> NoCost, error |-> NoError]
    ELSE [cost  |-> [accepted |-> FALSE,
                     reasons |-> {IF code = "EXPLAIN_TIMEOUT" THEN code
                                  ELSE "COST_ASSESSMENT_FAILED"}],
          error |-> code]

EvaluateCost ==
    /\ phase = "cost"
    /\ \E outcome \in {Assessed(plan) : plan \in Plans}
                 \cup {Unassessed(code) : code \in {"EXPLAIN_TIMEOUT"}
                           \cup DatabaseErrors("SQL_COST_ASSESSMENT_FAILED")} :
         /\ cost' = outcome.cost
         /\ error' = outcome.error
         /\ calls' = Append(calls, [op |-> "explain", sql |-> Sent, cost |-> outcome.cost])
    /\ phase' = Route(error', "execute")
    /\ UNCHANGED <<selection, sql, normalized, refs, permission, retries, rows, audit>>

(***************************************************************************)
(* Running it.  The repository reads one row more than it may return.      *)
(***************************************************************************)
Returned(available) == IF available > MaxRows THEN MaxRows ELSE available

Record(code) ==
    audit' = Append(audit, [sql |-> Sent, refs |-> refs, cost |-> cost,
                            permission |-> permission, error |-> code])

Execute ==
    /\ phase = "execute"
    /\ calls' = Append(calls, [op |-> "run", sql |-> Sent])
    /\ \/ /\ \E available \in 0 .. Sent.limit : rows' = Returned(available)
          /\ error' = NoError
       \/ /\ error' \in {"QUERY_EXECUTION_TIMEOUT"} \cup DatabaseErrors("SQL_EXECUTION_FAILED")
          /\ UNCHANGED rows
    /\ Record(error')
    /\ phase' = Route(error', "done")
    /\ UNCHANGED <<selection, statement, retries>>

\* CancelledError while the statement runs goes up without an entry.  (A run
\* that is cancelled anywhere else just takes no more steps.)
RunCancelled ==
    /\ phase = "execute"
    /\ calls' = Append(calls, [op |-> "run", sql |-> Sent])
    /\ phase' = "cancelled"
    /\ UNCHANGED <<selection, statement, error, retries, rows, audit>>

(***************************************************************************)
(* Giving up.                                                              *)
(***************************************************************************)
Terminal == {"done", "raised", "cancelled"}

\* The node failed: an entry unless a statement has had one, and an exception.
Failed ==
    /\ phase = "failed"
    /\ IF audit = <<>> THEN Record(error) ELSE UNCHANGED audit
    /\ phase' = "raised"
    /\ UNCHANGED <<selection, statement, error, retries, rows, calls>>

\* The budget of the request is spent: the guard of the next node raises.  Spent
\* between the guard of execute_sql and its effective_timeout, it is an error of
\* the statement, which gets its entry and never runs; then the next guard raises.
BudgetEnds ==
    /\ phase \notin Terminal
    /\ \/ UNCHANGED <<error, audit>>
       \/ /\ phase = "execute"
          /\ error' = "SQL_EXECUTION_FAILED"
          /\ Record(error')
    /\ phase' = "raised"
    /\ UNCHANGED <<selection, statement, retries, rows, calls>>

Ended == phase \in Terminal /\ UNCHANGED vars

Next ==
    \/ Recall \/ Merge \/ FilterRanked \/ FilterNamed \/ FilterFails
    \/ Generate \/ Correct \/ ModelFails
    \/ Security \/ Validate \/ EvaluateCost \/ Execute \/ RunCancelled
    \/ Failed \/ BudgetEnds \/ Ended

Spec == Init /\ [][Next]_vars

(***************************************************************************)
(* Properties.                                                             *)
(***************************************************************************)

\* The state of the agent keeps its types; the retry counter keeps its bound.
TypeOK ==
    /\ phase \in {"recall", "merge", "filter", "generate", "correct", "security",
                  "validate", "cost", "execute", "failed"} \cup Terminal
    /\ \A t \in tables : t.name \in Tables /\ t.columns \subseteq Columns
    /\ \A t, u \in tables : t.name = u.name => t = u
    /\ metrics \subseteq Metrics
    /\ permission \in {"none", "ALLOW", "DENY"}
    /\ retries \in 0 .. MaxRetries
    /\ Len(audit) =< retries + 1
    /\ rows \in 0 .. MaxRows

Filtered == phase \notin {"recall", "merge", "filter", "raised"}
Top == RankedTables(MergedTables(found), found)

\* Whatever names the reranking model answers (unknown, repeated, too many,
\* none), the selection stays within the deterministic choice and the limit,
\* and is never empty when there was a candidate (docs/architecture/
\* hybrid-candidate-ranking.md: "Unknown names, duplicates, and excessive
\* selections are removed by code").
SelectionBounded ==
    Filtered /\ config.rank =>
      /\ tables \subseteq MergedTables(found)
      /\ {t.name : t \in tables} \subseteq ToSet(GreedyCover(Top, Required(found)).names)
      /\ Cardinality(tables) =< MaxTables
      /\ MergedTables(found) # {} => tables # {}
      /\ metrics \subseteq ToSet(Names(RankedMetrics(found, MergedTables(found))))
      /\ Cardinality(metrics) =< MaxMetrics
      /\ found.metrics # {} => metrics # {}

\* Without the model the best table is in, every other one covers something no
\* better one does, and as long as there is room everything that one of the best
\* candidates covers is covered ("greedy requirement coverage", same document).
SelectionCovers ==
    Filtered /\ config.rank /\ ~config.rerank =>
      LET chosen  == {i \in DOMAIN Top : \E t \in tables : t.name = Top[i].name}
          by(S)   == UNION {Top[i].covered : i \in S}
      IN  /\ Top # <<>> => 1 \in chosen
          /\ \A i \in chosen \ {1} : ~(Top[i].covered \subseteq by({j \in chosen : j < i}))
          /\ Cardinality(tables) < MaxTables => by(chosen) = by(DOMAIN Top)

RunCalls == {i \in DOMAIN calls : calls[i].op = "run"}

\* The warehouse only ever runs a statement it has just validated and explained,
\* in the very form that passed the checks: only selected tables and columns, a
\* row limit, the caller's permissions, an accepted cost (or an EXPLAIN that
\* failed where the configuration tolerates it), however often it was corrected.
RunsWhatWasChecked ==
    \A i \in RunCalls :
      LET ran == calls[i].sql
      IN  /\ i > 2
          /\ calls[i - 2] = [op |-> "validate", sql |-> ran]
          /\ calls[i - 1].op = "explain" /\ calls[i - 1].sql = ran
          /\ \/ calls[i - 1].cost.accepted
             \/ config.tolerant /\ calls[i - 1].cost.reasons \subseteq {"COST_ASSESSMENT_FAILED"}
          /\ ran.limit \in 0 .. MaxRows
          /\ Passes(ran)

\* The audit log tells of the statements that ran, one entry each, in order, and
\* an entry tells of its statement: its tables, its cost, that it was allowed.
\* Only a statement that was cancelled while it ran has no entry, and only a run
\* that gave up has one entry more than statements, the last, with its error.
AuditTruthful ==
    LET ran         == Cardinality(RunCalls)
        place(i)    == Cardinality({j \in RunCalls : j =< i})
        explains(s) == {calls[i].cost : i \in {j \in DOMAIN calls :
                           calls[j].op = "explain" /\ calls[j].sql = s}}
    IN  /\ CASE phase = "cancelled" -> Len(audit) = ran - 1
             [] phase = "raised" -> \/ Len(audit) = ran
                                    \/ Len(audit) = ran + 1 /\ audit[ran + 1].error # NoError
             [] OTHER -> Len(audit) = ran
        /\ \A i \in RunCalls : place(i) =< Len(audit) =>
             LET entry == audit[place(i)]
                 done  == calls[i].sql
             IN  /\ entry.sql = done
                 /\ entry.refs = ReferencedTables(done)
                 /\ entry.cost \in explains(done)
                 /\ entry.permission = "ALLOW"
=============================================================================
