------------------------- MODULE CheckpointedGraph -------------------------
(***************************************************************************)
(* The agent graph of app/agent/graph.py run under its checkpoint guard    *)
(* (app/agent/checkpoint.py), for one execution_id: every node, the        *)
(* routing after the validators, the correction loop, the Redis record the *)
(* guard reads and writes around every node, and what QueryService.query   *)
(* writes at the end. A worker may crash at any point; a later request     *)
(* with the same execution_id starts another attempt, one at a time.       *)
(*                                                                         *)
(* LangGraph runs the nodes of one superstep as tasks of one event loop:   *)
(* each reads the state as it was when the superstep began, they           *)
(* interleave at their awaits, and their updates are applied together when *)
(* all are done. The guard awaits Redis up to five times around a node's   *)
(* body, so every one of these is a step of its own here.                  *)
(*                                                                         *)
(* A SQL text is a version number, 0 being "". Of the other state keys the *)
(* model keeps which nodes' updates are present.                           *)
(***************************************************************************)
EXTENDS Integers, FiniteSets

CONSTANTS
  MaxRetries,          \* agent.max_sql_retries, the state's max_retries
  MaxAttempts,         \* bound: requests made with this execution_id
  MaxSql,              \* bound: SQL texts the LLM is asked for
  Faults               \* bound: the disturbances each attempt may meet

ASSUME MaxRetriesAssumption == MaxRetries \in Nat
ASSUME BoundsAssumption == MaxAttempts \in Nat /\ MaxSql \in Nat
ASSUME FaultsAssumption ==
  Faults \in [1..MaxAttempts -> SUBSET {"crash", "raise", "timeout",
                                        "disconnect", "close", "expire"}]

Recalls == {"recall_column", "recall_value", "recall_metric"}
Filters == {"filter_table", "filter_metric"}
DataNodes == Recalls \cup Filters \cup
             {"extract_keywords", "merge_retrieved_info",
              "add_extra_context", "plan_query"}
SqlNodes == {"generate_sql", "security_validate_sql", "database_validate_sql",
             "evaluate_sql_cost", "correct_sql", "execute_sql",
             "summarize_result", "interpret_result"}
Nodes == DataNodes \cup SqlNodes

VARIABLES
  run,        \* the attempt: none, its graph running, or how far it has ended
  outcome,    \* how the last attempt ended, as its client was told
  attempt,    \* attempts begun so far
  startedOn,  \* the record's status when the attempt began ("NONE": absent)
  st,         \* the graph state, between supersteps
  act,        \* the nodes of the current superstep, and where each one is
  cp,         \* the checkpoint record in Redis
  sqlCount,   \* the newest SQL text
  answered,   \* SQL version of the answer this attempt emitted, -1 for none
  passed,     \* history: the validators that let the newest SQL text through
  missing     \* history: validators that some SQL this attempt executed had
              \* not passed

vars == <<run, outcome, attempt, startedOn, st, act, cp, sqlCount, answered,
          passed, missing>>

(* "early": left before the graph; "abandoned": nobody reads on; "none" and *)
(* "crashed": nothing was told.                                             *)
Outcomes == {"none", "early", "done", "error", "timeout", "cancelled",
             "abandoned", "crashed"}
Errors == {"none", "retryable", "fatal"}
Statuses == {"RUNNING", "COMPLETED", "FAILED", "CANCELLED"}
Validators == {"security", "database", "cost"}

GraphState == [have: SUBSET DataNodes, sql: Nat, norm: Nat, err: Errors,
               retry: Nat, result: Nat, summary: Nat]
Snapshots == [have: SUBSET DataNodes, err: Errors, retry: Nat, summary: Nat]
Completions == Nodes \X Nat
NoRecord == [status |-> "NONE", completed |-> {},
             snap |-> [have |-> {}, err |-> "none", retry |-> 0,
                       summary |-> 0]]

(* Where the guard of a node is: about to test node_completed, about to     *)
(* load in _save, about to write RUNNING, in the body, about to load the    *)
(* completed nodes, about to write them; its task cancelled in the body or  *)
(* elsewhere; finished.                                                     *)
NodePCs == {"enter", "save", "mark", "body", "load", "commit",
            "cancelled", "gone", "done"}

TypeOK ==
  /\ run \in {"none", "running", "expiring", "drained", "unwinding", "ended"}
  /\ outcome \in Outcomes
  /\ attempt \in 0..MaxAttempts
  /\ startedOn \in Statuses \cup {"NONE"}
  /\ st \in GraphState
  /\ st.retry <= MaxRetries
  /\ DOMAIN act \subseteq Nodes
  /\ \A n \in DOMAIN act :
       act[n] \in [pc: NodePCs, seen: SUBSET Completions, out: GraphState,
                   rec: BOOLEAN]
  /\ cp = NoRecord \/ cp \in [status: Statuses, completed: SUBSET Completions,
                              snap: Snapshots]
  /\ sqlCount \in 0..MaxSql
  /\ answered \in {-1} \cup Nat
  /\ passed \subseteq Validators
  /\ missing \subseteq Validators

-----------------------------------------------------------------------------
(* create_initial_state *)
InitialState == [have |-> {}, sql |-> 0, norm |-> 0, err |-> "none",
                 retry |-> 0, result |-> 0, summary |-> 0]

(* sanitize_state_snapshot: sql, normalized_sql, result, validation_detail  *)
(* and retrieved_values (what recall_value writes) are left out. The values *)
(* that are kept are cut in length by _safe_json_value; the model knows     *)
(* only whether they are there.                                             *)
Snapshot(s) == [have |-> s.have \ {"recall_value"}, err |-> s.err,
                retry |-> s.retry, summary |-> s.summary]

(* resume_state over create_initial_state. *)
Restored(snap) ==
  [InitialState EXCEPT !.have = snap.have, !.err = snap.err,
                       !.retry = snap.retry, !.summary = snap.summary]

(* Mutant: the completion key forgets the try. *)
KeyWithoutRetry(n, s) == <<n, 0>>

(* _completion_key *)
CompletionKey(n, s) == <<n, s.retry>>

(* Mutant: only COMPLETED is protected. *)
ReplaceUnlessCompleted(old, new) == old = "COMPLETED" => new = "COMPLETED"

(* CHECKPOINT_SAVE_LUA: which status may replace which. *)
MayReplace(old, new) ==
  /\ old = "COMPLETED" => new = "COMPLETED"
  /\ old \in {"FAILED", "CANCELLED"} => new # "RUNNING"

(* The record after mark_completed, mark_failed or mark_cancelled: kept     *)
(* when the script refuses. Nothing but the status of a record that is not  *)
(* RUNNING is ever read, so the rest is dropped.                            *)
Marked(status) ==
  IF MayReplace(cp.status, status)
  THEN [NoRecord EXCEPT !.status = status] ELSE cp

(* normalized_sql or sql *)
CurrentSql(s) == IF s.norm # 0 THEN s.norm ELSE s.sql

(* Mutant: "<=" in the retry test. *)
RouteOneMore(s, success) ==
  IF s.err = "none" THEN success
  ELSE IF s.err = "retryable" /\ s.retry <= MaxRetries THEN "correct_sql"
  ELSE "failed"

(* _route_after_validation_error *)
RouteAfterValidation(s, success) ==
  IF s.err = "none" THEN success
  ELSE IF s.err = "retryable" /\ s.retry < MaxRetries THEN "correct_sql"
  ELSE "failed"

(* The edges of build_agent_graph: the next superstep, {} being END. *)
NextNodes(F, s) ==
  CASE F = {"extract_keywords"}      -> Recalls
    [] F = Recalls                   -> {"merge_retrieved_info"}
    [] F = {"merge_retrieved_info"}  -> Filters
    [] F = Filters                   -> {"add_extra_context"}
    [] F = {"add_extra_context"}     -> {"plan_query"}
    [] F = {"plan_query"}            -> {"generate_sql"}
    [] F = {"generate_sql"}          -> {"security_validate_sql"}
    [] F = {"correct_sql"}           -> {"security_validate_sql"}
    [] F = {"security_validate_sql"} ->
         {RouteAfterValidation(s, "database_validate_sql")}
    [] F = {"database_validate_sql"} ->
         {RouteAfterValidation(s, "evaluate_sql_cost")}
    [] F = {"evaluate_sql_cost"}     -> {RouteAfterValidation(s, "execute_sql")}
    [] F = {"execute_sql"}           ->
         {RouteAfterValidation(s, "summarize_result")}
    [] F = {"summarize_result"}      -> {"interpret_result"}
    [] F = {"interpret_result"}      -> {}

Fresh(F, s) ==
  [n \in F |-> [pc |-> "enter", seen |-> {}, out |-> s, rec |-> FALSE]]

(* No node is left, and no graph state. *)
NothingRuns == act' = Fresh({}, InitialState) /\ st' = InitialState

-----------------------------------------------------------------------------
(* The disturbance is among those the attempt may meet. *)
MayMeet(fault) == attempt # 0 /\ fault \in Faults[attempt]

Init ==
  /\ run = "none"
  /\ outcome = "none"
  /\ attempt = 0
  /\ startedOn = "NONE"
  /\ st = InitialState
  /\ act = Fresh({}, InitialState)
  /\ cp = NoRecord
  /\ sqlCount = 0
  /\ answered = -1
  /\ passed = {}
  /\ missing = {}

(* query() up to the admission. Without a RUNNING record it is a new        *)
(* execution: mark_started_emitted creates the record unless a terminal one *)
(* exists. Nobody else writes the record until the graph runs, so this and  *)
(* what follows up to the graph task are one step.                          *)
Begin ==
  /\ run \in {"none", "ended"}
  /\ attempt < MaxAttempts
  /\ attempt' = attempt + 1
  /\ startedOn' = cp.status
  /\ cp' = IF cp = NoRecord THEN [NoRecord EXCEPT !.status = "RUNNING"] ELSE cp
  /\ answered' = -1
  /\ passed' = {}
  /\ missing' = {}

(* query() gets to the graph task; resume_state loads the record. SQL texts *)
(* are numbered on from the only old one the new state still knows of.      *)
Start ==
  /\ Begin
  /\ st' = IF cp'.status = "RUNNING" THEN Restored(cp'.snap) ELSE InitialState
  /\ sqlCount' = st'.summary
  /\ act' = Fresh({"extract_keywords"}, st')
  /\ run' = "running"
  /\ outcome' = "none"

(* query() ends on the way there: the request id is a duplicate, admission  *)
(* is refused, the prompt is, the answer comes from the cache, the client   *)
(* goes or something raises outside the try. Whatever the client is told,   *)
(* an error or "done", the record stays as it is.                           *)
LeavesEarly ==
  /\ Begin
  /\ NothingRuns
  /\ sqlCount' = 0
  /\ run' = "ended"
  /\ outcome' = "early"

(* The nodes of the attempt take steps until its graph task is cancelled or *)
(* raises; "expiring" is the window of the total timeout.                   *)
GraphLives == run \in {"running", "expiring"}
At(n, pc) == GraphLives /\ n \in DOMAIN act /\ act[n].pc = pc

(* Tasks that are cancelled: one that is in a node's body runs the guard's  *)
(* handler, any other just ends.                                            *)
CancelledTasks(F) ==
  [n \in DOMAIN act |->
     IF n \notin F \/ act[n].pc = "done" THEN act[n]
     ELSE IF act[n].pc = "body" THEN [act[n] EXCEPT !.pc = "cancelled"]
     ELSE [act[n] EXCEPT !.pc = "gone"]]

(* A node raises: LangGraph cancels its siblings and the graph task ends.   *)
GraphRaises(n) ==
  /\ run' = "unwinding"
  /\ outcome' = IF run = "expiring" THEN "timeout" ELSE "error"
  /\ act' = [CancelledTasks(DOMAIN act \ {n}) EXCEPT ![n].pc = "gone"]

(* guarded: node_completed. A completed node returns an empty update. *)
Skip(n) ==
  /\ At(n, "enter")
  /\ cp.status = "RUNNING"
  /\ CompletionKey(n, st) \in cp.completed
  /\ act' = [act EXCEPT ![n].pc = "done"]
  /\ UNCHANGED <<run, outcome, attempt, startedOn, st, cp, sqlCount, answered,
                 passed, missing>>

NotCompleted(n) ==
  /\ At(n, "enter")
  /\ cp.status # "RUNNING" \/ CompletionKey(n, st) \notin cp.completed
  /\ act' = [act EXCEPT ![n].pc = "save"]
  /\ UNCHANGED <<run, outcome, attempt, startedOn, st, cp, sqlCount, answered,
                 passed, missing>>

(* guarded: require_budget finds the deadline passed, outside the try. *)
BudgetExhausted(n) ==
  /\ MayMeet("timeout")
  /\ At(n, "enter")
  /\ GraphRaises(n)
  /\ UNCHANGED <<attempt, startedOn, st, cp, sqlCount, answered, passed,
                 missing>>

(* mark_node_running, the load in _save: the completed nodes are copied. *)
SaveLoad(n) ==
  /\ At(n, "save")
  /\ act' = [act EXCEPT ![n].pc = "mark", ![n].seen = cp.completed]
  /\ UNCHANGED <<run, outcome, attempt, startedOn, st, cp, sqlCount, answered,
                 passed, missing>>

(* What a RUNNING save writes: the completed nodes the guard holds and the  *)
(* state it was given.                                                      *)
RunningRecord(seen, s) ==
  [status |-> "RUNNING", completed |-> seen, snap |-> Snapshot(s)]

(* mark_node_running, the script. A refusal is raised outside the try. *)
MarkRunning(n) ==
  /\ At(n, "mark")
  /\ IF MayReplace(cp.status, "RUNNING")
     THEN /\ cp' = RunningRecord(act[n].seen, st)
          /\ act' = [act EXCEPT ![n].pc = "body"]
          /\ UNCHANGED <<run, outcome>>
     ELSE GraphRaises(n) /\ UNCHANGED cp
  /\ UNCHANGED <<attempt, startedOn, st, sqlCount, answered, passed, missing>>

(* mark_node_completed, its load: the node's key is added unless the update *)
(* has a forbidden key.                                                     *)
CompletedLoad(n) ==
  /\ At(n, "load")
  /\ act' = [act EXCEPT
       ![n].pc = "commit",
       ![n].seen = cp.completed \cup
                     (IF act[n].rec THEN {CompletionKey(n, act[n].out)}
                      ELSE {})]
  /\ UNCHANGED <<run, outcome, attempt, startedOn, st, cp, sqlCount, answered,
                 passed, missing>>

(* Mutant: mark_node_completed is given state instead of merged_state. *)
CommitInputState(n) ==
  /\ At(n, "commit")
  /\ IF MayReplace(cp.status, "RUNNING")
     THEN /\ cp' = RunningRecord(act[n].seen, st)
          /\ act' = [act EXCEPT ![n].pc = "done"]
          /\ UNCHANGED <<run, outcome>>
     ELSE GraphRaises(n) /\ UNCHANGED cp
  /\ UNCHANGED <<attempt, startedOn, st, sqlCount, answered, passed, missing>>

(* mark_node_completed, the script: the snapshot is this node's input state *)
(* with its own update.                                                     *)
CommitCompleted(n) ==
  /\ At(n, "commit")
  /\ IF MayReplace(cp.status, "RUNNING")
     THEN /\ cp' = RunningRecord(act[n].seen, act[n].out)
          /\ act' = [act EXCEPT ![n].pc = "done"]
          /\ UNCHANGED <<run, outcome>>
     ELSE GraphRaises(n) /\ UNCHANGED cp
  /\ UNCHANGED <<attempt, startedOn, st, sqlCount, answered, passed, missing>>

-----------------------------------------------------------------------------
(* The bodies. The node returns an update that makes s of the state; rec    *)
(* says whether the update is free of the keys a checkpoint must not hold.  *)
Return(n, s, rec) ==
  /\ At(n, "body")
  /\ act' = [act EXCEPT ![n].pc = "load", ![n].out = s, ![n].rec = rec]
  /\ UNCHANGED <<run, outcome, attempt, startedOn, st, cp>>

DataBody(n) ==
  /\ n \in DataNodes
  /\ Return(n, [st EXCEPT !.have = @ \cup {n}], n # "recall_value")
  /\ UNCHANGED <<sqlCount, answered, passed, missing>>

GenerateBody ==
  /\ sqlCount < MaxSql
  /\ sqlCount' = sqlCount + 1
  /\ passed' = {}
  /\ Return("generate_sql", [st EXCEPT !.sql = sqlCount', !.err = "none"], FALSE)
  /\ UNCHANGED <<answered, missing>>

(* Mutant: the retry is not counted. *)
CorrectUncounted ==
  /\ sqlCount < MaxSql
  /\ sqlCount' = sqlCount + 1
  /\ passed' = {}
  /\ Return("correct_sql",
            [st EXCEPT !.sql = sqlCount', !.norm = 0, !.err = "none"], FALSE)
  /\ UNCHANGED <<answered, missing>>

CorrectBody ==
  /\ sqlCount < MaxSql
  /\ sqlCount' = sqlCount + 1
  /\ Return("correct_sql",
            [st EXCEPT !.sql = sqlCount', !.norm = 0, !.err = "none",
                       !.retry = @ + 1], FALSE)
  /\ passed' = {}
  /\ UNCHANGED <<answered, missing>>

(* A validator lets the SQL through (noted in the history when it is the    *)
(* newest text) or returns an error; whether the update may be recorded     *)
(* differs.                                                                 *)
Accept(n, v, s, rec) ==
  /\ Return(n, [s EXCEPT !.err = "none"], rec)
  /\ passed' = IF CurrentSql(s) = sqlCount THEN passed \cup {v} ELSE passed
  /\ UNCHANGED <<sqlCount, answered, missing>>

Reject(n, err, rec) ==
  /\ Return(n, [st EXCEPT !.err = err], rec)
  /\ UNCHANGED <<sqlCount, answered, passed, missing>>

SecurityBody ==
  \/ Accept("security_validate_sql", "security",
            [st EXCEPT !.norm = st.sql], FALSE)
  \/ \E err \in {"retryable", "fatal"} :
       Reject("security_validate_sql", err, TRUE)

(* Mutant: a success is returned without validation_detail. *)
DatabaseBodyRecorded ==
  \/ Accept("database_validate_sql", "database", st, TRUE)
  \/ Reject("database_validate_sql", "retryable", FALSE)

(* The update always holds validation_detail. *)
DatabaseBody ==
  \/ Accept("database_validate_sql", "database", st, FALSE)
  \/ Reject("database_validate_sql", "retryable", FALSE)

(* Let through (assessed, or not assessable while reject_on_cost_error is   *)
(* off), rejected (too high: retryable; EXPLAIN timed out or could not be   *)
(* assessed: fatal), or a database error, whose update holds                *)
(* validation_detail.                                                       *)
CostBody ==
  \/ Accept("evaluate_sql_cost", "cost", st, TRUE)
  \/ \E err \in {"retryable", "fatal"} : Reject("evaluate_sql_cost", err, TRUE)
  \/ \E err \in {"retryable", "fatal"} : Reject("evaluate_sql_cost", err, FALSE)

(* Mutant: a failed execution does not set the error. *)
ExecuteSwallowsError ==
  /\ \/ Return("execute_sql",
               [st EXCEPT !.result = CurrentSql(st), !.err = "none"], FALSE)
     \/ Return("execute_sql", st, TRUE)
  /\ missing' = missing \cup (IF CurrentSql(st) = sqlCount
                               THEN Validators \ passed ELSE Validators)
  /\ UNCHANGED <<sqlCount, answered, passed>>

ExecuteBody ==
  /\ \/ Return("execute_sql",
               [st EXCEPT !.result = CurrentSql(st), !.err = "none"], FALSE)
     \/ \E err \in {"retryable", "fatal"} :
          Return("execute_sql", [st EXCEPT !.err = err], TRUE)
  /\ missing' = missing \cup (IF CurrentSql(st) = sqlCount
                               THEN Validators \ passed ELSE Validators)
  /\ UNCHANGED <<sqlCount, answered, passed>>

SummarizeBody ==
  /\ Return("summarize_result", [st EXCEPT !.summary = st.result], TRUE)
  /\ UNCHANGED <<sqlCount, answered, passed, missing>>

(* Emits the result event with the final answer. *)
InterpretBody ==
  /\ Return("interpret_result", st, TRUE)
  /\ answered' = st.summary
  /\ UNCHANGED <<sqlCount, passed, missing>>

SqlBody == \/ GenerateBody \/ CorrectBody \/ SecurityBody \/ DatabaseBody
           \/ CostBody \/ ExecuteBody \/ SummarizeBody \/ InterpretBody

(* A body raises: mark_failed and the exception goes on. *)
BodyRaises(n) ==
  /\ MayMeet("raise")
  /\ At(n, "body")
  /\ cp' = Marked("FAILED")
  /\ GraphRaises(n)
  /\ UNCHANGED <<attempt, startedOn, st, sqlCount, answered, passed, missing>>

-----------------------------------------------------------------------------
(* All updates of the superstep are applied together. Parallel nodes write  *)
(* disjoint keys, of which the model keeps their presence.                  *)
Merged(F) ==
  IF \E n \in F : F = {n}
  THEN act[CHOOSE n \in F : TRUE].out
  ELSE [st EXCEPT !.have = UNION {act[n].out.have : n \in F}]

SuperstepEnds ==
  /\ GraphLives
  /\ \A n \in DOMAIN act : act[n].pc = "done"
  /\ LET s == Merged(DOMAIN act)
         next == NextNodes(DOMAIN act, s)
     IN /\ st' = s
        /\ \/ /\ next = {"failed"}     \* failed() raises, unguarded
              /\ run' = "unwinding"
              /\ outcome' = IF run = "expiring" THEN "timeout" ELSE "error"
              /\ UNCHANGED act
           \/ /\ next = {}
              /\ run' = IF run = "expiring" THEN "unwinding" ELSE "drained"
              /\ UNCHANGED <<act, outcome>>
           \/ /\ next \notin {{}, {"failed"}}
              /\ act' = Fresh(next, s)
              /\ UNCHANGED <<run, outcome>>
  /\ UNCHANGED <<attempt, startedOn, cp, sqlCount, answered, passed, missing>>

(* query(): _DONE was received. *)
QueryDone ==
  /\ run = "drained"
  /\ run' = "ended"
  /\ outcome' = "done"
  /\ cp' = Marked("COMPLETED")
  /\ NothingRuns
  /\ UNCHANGED <<attempt, startedOn, sqlCount, answered, passed, missing>>

(* query(): the total timeout. The error is sent and mark_failed written    *)
(* while the graph still runs; the finally clause cancels it.               *)
TotalTimeout ==
  /\ MayMeet("timeout")
  /\ run \in {"running", "drained"}
  /\ run' = "expiring"
  /\ outcome' = "timeout"
  /\ cp' = Marked("FAILED")
  /\ UNCHANGED <<attempt, startedOn, st, act, sqlCount, answered, passed,
                 missing>>

CancelExpired ==
  /\ run = "expiring"
  /\ run' = "unwinding"
  /\ act' = CancelledTasks(DOMAIN act)
  /\ UNCHANGED <<outcome, attempt, startedOn, st, cp, sqlCount, answered,
                 passed, missing>>

(* query(): the client went away and watch_disconnect sees it, or the       *)
(* request's task is cancelled: the graph is, and mark_cancelled follows.   *)
Disconnect ==
  /\ MayMeet("disconnect")
  /\ run \in {"running", "drained"}
  /\ run' = "unwinding"
  /\ outcome' = "cancelled"
  /\ act' = CancelledTasks(DOMAIN act)
  /\ UNCHANGED <<attempt, startedOn, st, cp, sqlCount, answered, passed,
                 missing>>

(* The generator is closed at one of its yields: GeneratorExit gets to none *)
(* of the handlers, and the finally clause only cancels the graph.          *)
StreamClosed ==
  /\ MayMeet("close")
  /\ run \in {"running", "drained"}
  /\ run' = "unwinding"
  /\ outcome' = "abandoned"
  /\ act' = CancelledTasks(DOMAIN act)
  /\ UNCHANGED <<attempt, startedOn, st, cp, sqlCount, answered, passed,
                 missing>>

(* The same where the handler of an exception yields the error or "done":   *)
(* it does not get to mark_failed.                                          *)
ReportCutShort ==
  /\ MayMeet("close")
  /\ run = "unwinding"
  /\ outcome = "error"
  /\ outcome' = "abandoned"
  /\ UNCHANGED <<run, attempt, startedOn, st, act, cp, sqlCount, answered,
                 passed, missing>>

(* guarded: the CancelledError handler of a node's body. *)
NodeCancelled(n) ==
  /\ n \in DOMAIN act
  /\ act[n].pc = "cancelled"
  /\ cp' = Marked("CANCELLED")
  /\ act' = [act EXCEPT ![n].pc = "gone"]
  /\ UNCHANGED <<run, outcome, attempt, startedOn, st, sqlCount, answered,
                 passed, missing>>

(* Mutant: query() leaves the record to the guards. *)
UnwoundSilently ==
  /\ run = "unwinding"
  /\ \A n \in DOMAIN act : act[n].pc # "cancelled"
  /\ run' = "ended"
  /\ NothingRuns
  /\ UNCHANGED <<outcome, attempt, startedOn, cp, sqlCount, answered, passed,
                 missing>>

(* query(): the graph task is over. An error it raised is recorded with     *)
(* mark_failed, a disconnect with mark_cancelled; a timeout was already,    *)
(* and for a generator that was closed nothing is.                          *)
Unwound ==
  /\ run = "unwinding"
  /\ \A n \in DOMAIN act : act[n].pc # "cancelled"
  /\ run' = "ended"
  /\ cp' = CASE outcome = "error"     -> Marked("FAILED")
             [] outcome = "cancelled" -> Marked("CANCELLED")
             [] OTHER                 -> cp
  /\ NothingRuns
  /\ UNCHANGED <<outcome, attempt, startedOn, sqlCount, answered, passed,
                 missing>>

(* The worker dies: everything but Redis is lost. *)
Crash ==
  /\ MayMeet("crash")
  /\ run \notin {"none", "ended"}
  /\ run' = "none"
  /\ outcome' = "crashed"
  /\ NothingRuns
  /\ sqlCount' = 0
  /\ passed' = {}
  /\ missing' = {}
  /\ answered' = -1
  /\ UNCHANGED <<attempt, startedOn, cp>>

(* checkpoint_ttl_seconds after the last write: longer than any attempt. *)
Expire ==
  /\ MayMeet("expire")
  /\ run \in {"none", "ended"}
  /\ cp # NoRecord
  /\ cp' = NoRecord
  /\ UNCHANGED <<run, outcome, attempt, startedOn, st, act, sqlCount, answered,
                 passed, missing>>

NodeStep(n) ==
  \/ Skip(n) \/ NotCompleted(n) \/ SaveLoad(n) \/ MarkRunning(n)
  \/ DataBody(n) \/ CompletedLoad(n) \/ CommitCompleted(n)
  \/ NodeCancelled(n)

GraphStep == SqlBody \/ SuperstepEnds \/ QueryDone \/ CancelExpired \/ Unwound

Disturbance == \/ \E n \in Nodes : BudgetExhausted(n) \/ BodyRaises(n)
               \/ TotalTimeout \/ Disconnect \/ StreamClosed \/ ReportCutShort
               \/ Crash \/ Expire

Next == \/ Start
        \/ LeavesEarly
        \/ \E n \in Nodes : NodeStep(n)
        \/ GraphStep
        \/ Disturbance

(* The event loop runs what is runnable and Redis answers; no attempt has   *)
(* to begin and no disturbance to happen.                                   *)
Progress == (\E n \in Nodes : NodeStep(n)) \/ GraphStep

Spec == Init /\ [][Next]_vars
FairSpec == Spec /\ WF_vars(Progress)

-----------------------------------------------------------------------------
Terminal == {"COMPLETED", "FAILED", "CANCELLED"}

(* Whatever crashes, resumes, is retried or cancelled, execute_sql is given *)
(* only SQL that database_validate_sql has accepted: that node's update is  *)
(* never recorded, so a resumed attempt always validates its new SQL.       *)
DatabaseValidated == "database" \notin missing

(* An attempt that is not a resume gives execute_sql only SQL that passed   *)
(* the security validation and the cost evaluation too, however often it    *)
(* was corrected: the completion keys of an earlier try never make the      *)
(* guard skip a validator of a later one.                                   *)
NewExecutionFullyChecked == startedOn # "RUNNING" => missing = {}

(* In such an attempt the answer is about the SQL the attempt ended up      *)
(* with, and that SQL was executed.                                         *)
AnswerOfNewExecution ==
  run = "drained" /\ startedOn # "RUNNING" =>
    answered = st.sql /\ st.result = st.sql

(* A node that has no sibling in its superstep and is recorded as completed *)
(* has its update in the snapshot of the same record: skipping it on resume *)
(* loses nothing, wherever the crash was.                                   *)
SequentialProgressKept ==
  cp.status = "RUNNING" =>
    \A n \in DataNodes \ (Recalls \cup Filters) :
      (\E r \in 0..MaxRetries : <<n, r>> \in cp.completed) => n \in cp.snap.have

(* A request that arrives when its execution is already over asks the LLM   *)
(* for no SQL, executes none and emits no answer.                           *)
FinishedExecutionDoesNothing ==
  [][(startedOn \in Terminal /\ attempt' = attempt) =>
       UNCHANGED <<sqlCount, missing, answered>>]_vars

(* As long as Redis answers and the worker lives: the record says COMPLETED *)
(* exactly when the client was told so by an attempt whose graph came to    *)
(* its end, and it is still RUNNING only after an attempt that never got to *)
(* the graph or whose stream was closed. Nothing a cancelled or late node   *)
(* writes makes the record of a failed, timed-out or cancelled one RUNNING  *)
(* again.                                                                   *)
OutcomeRecorded ==
  run = "ended" /\ cp # NoRecord /\ startedOn \notin Terminal =>
    /\ cp.status = "RUNNING" => outcome \in {"early", "abandoned"}
    /\ outcome = "done" <=> cp.status = "COMPLETED"

(* Every attempt ends (or its worker dies): the correction loop is bounded  *)
(* and no node waits for one that is gone.                                  *)
AttemptEnds == run \notin {"none", "ended"} ~> run \in {"none", "ended"}

(* What the documents say of recovery: a completed node is not run again,   *)
(* and its result is there for the nodes after it.                          *)
ResumeKeepsUpdates ==
  At("merge_retrieved_info", "body") =>
    \A n \in Recalls : <<n, st.retry>> \in cp.completed => n \in st.have

(* What the documents say of the flow: SQL reaches execute_sql through all  *)
(* three validators.                                                        *)
FullyChecked == missing = {}
=============================================================================
