----------------------- MODULE CheckpointedGraphProofs -----------------------
(***************************************************************************)
(* Proofs about CheckpointedGraph for every number of retries, attempts    *)
(* and SQL texts and every set of faults: its types, and the lemmas that   *)
(* say what each kind of step does to the tasks of a superstep and to the  *)
(* record. CheckpointedGraphSafety proves the safety properties from them. *)
(***************************************************************************)
EXTENDS CheckpointedGraph, TLAPS

(* Types with the bounds of the model.                                      *)
Texts == 0..MaxSql

Tries == 0..MaxRetries

States == [have: SUBSET DataNodes, sql: Texts, norm: Texts, err: Errors,
           retry: Tries, result: Texts, summary: Texts]

Snaps == [have: SUBSET DataNodes, err: Errors, retry: Tries, summary: Texts]

Keys == Nodes \X Tries

Tasks == [pc: NodePCs, seen: SUBSET Keys, out: States, rec: BOOLEAN]

Records == [status: Statuses \cup {"NONE"}, completed: SUBSET Keys,
  snap: Snaps]

Parallel == Recalls \cup Filters

(* The nodes of a superstep: one of the two parallel groups, or one node of *)
(* its own.                                                                 *)
Superstep(F) == F \in {Recalls, Filters} \/ \E n \in Nodes \ Parallel : F = {n}

(* No attempt is under way.                                                 *)
Over == run \in {"none", "ended"}

(* The inductive type invariant. A superstep is one of those of the graph,  *)
(* correct_sql is reached only while a retry is left, and of a record that  *)
(* is not RUNNING nothing but the status is kept.                           *)
TypeInv ==
  /\ run \in {"none", "running", "expiring", "drained", "unwinding", "ended"}
  /\ outcome \in Outcomes
  /\ attempt \in 0..MaxAttempts
  /\ startedOn \in Statuses \cup {"NONE"}
  /\ st \in States
  /\ act \in [DOMAIN act -> Tasks]
  /\ IF Over THEN DOMAIN act = {} ELSE Superstep(DOMAIN act)
  /\ "correct_sql" \in DOMAIN act => st.retry < MaxRetries
  /\ cp \in Records
  /\ cp.status # "RUNNING" => cp = [NoRecord EXCEPT !.status = cp.status]
  /\ sqlCount \in Texts
  /\ answered \in {-1} \cup Texts
  /\ passed \subseteq Validators
  /\ missing \subseteq Validators

(* The initial graph state and the absent record are of their types.        *)
LEMMA InitialTyped == InitialState \in States /\ NoRecord \in Records
BY MaxRetriesAssumption, BoundsAssumption
   DEF InitialState, States, NoRecord, Records, Snaps, Errors, Texts, Tries

(* Tasks that have not begun are of their type.                             *)
LEMMA FreshTyped ==
  ASSUME NEW F, NEW s \in States
  PROVE  Fresh(F, s) \in [F -> Tasks] /\ DOMAIN Fresh(F, s) = F
BY DEF Fresh, Tasks, NodePCs

(* A node outside the parallel groups is alone in its superstep.            *)
LEMMA AloneInStep ==
  ASSUME NEW F, Superstep(F), NEW n \in F, n \notin Parallel
  PROVE  F = {n} /\ n \in Nodes
BY DEF Superstep, Parallel

(* A superstep consists of nodes, and of one at least.                      *)
LEMMA NodesOfStep ==
  ASSUME NEW F, Superstep(F)
  PROVE  F \subseteq Nodes /\ F # {}
BY DEF Superstep, Parallel, Recalls, Filters, Nodes, DataNodes

(* mark_completed, mark_failed and mark_cancelled leave a record of the     *)
(* type that the invariant asks for.                                        *)
LEMMA MarkedTyped ==
  ASSUME cp \in Records, NEW status \in {"COMPLETED", "FAILED", "CANCELLED"},
         cp.status # "RUNNING" => cp = [NoRecord EXCEPT !.status = cp.status]
  PROVE  /\ Marked(status) \in Records
         /\ Marked(status).status # "RUNNING" =>
              Marked(status) = [NoRecord EXCEPT !.status = Marked(status).status]
BY InitialTyped DEF Marked, Records, Statuses, NoRecord

(* Cancelling tasks keeps their types.                                      *)
LEMMA CancelledTyped ==
  ASSUME act \in [DOMAIN act -> Tasks], NEW F
  PROVE  CancelledTasks(F) \in [DOMAIN act -> Tasks]
    /\ DOMAIN CancelledTasks(F) = DOMAIN act
<1>1. ASSUME NEW n \in DOMAIN act, NEW p \in {"cancelled", "gone"}
      PROVE  [act[n] EXCEPT !.pc = p] \in Tasks
  BY DEF Tasks, NodePCs
<1> QED
  BY <1>1 DEF CancelledTasks

(* The variables that most steps leave alone, or give a value of their      *)
(* type.                                                                    *)
Types ==
  /\ outcome' \in Outcomes
  /\ attempt' = attempt /\ startedOn' = startedOn
  /\ sqlCount' \in Texts /\ answered' \in {-1} \cup Texts
  /\ passed' \subseteq Validators /\ missing' \subseteq Validators

(* What the type invariant says of the record.                              *)
RecordTyped ==
  /\ cp \in Records
  /\ cp.status # "RUNNING" => cp = [NoRecord EXCEPT !.status = cp.status]

(* A step that stays in the superstep and keeps types keeps the invariant.  *)
LEMMA StepGoesOn ==
  ASSUME TypeInv, Types, RecordTyped', st' = st,
    act' \in [DOMAIN act -> Tasks],
         run \notin {"none", "ended"},
         run' \in {"running", "expiring", "drained", "unwinding"}
  PROVE  TypeInv'
BY DEF TypeInv, Types, RecordTyped, Over

(* A step that leaves nothing running keeps the invariant.                  *)
LEMMA StepStops ==
  ASSUME TypeInv, Types, RecordTyped', NothingRuns, run' \in {"none", "ended"}
  PROVE  TypeInv'
<1>1. act' \in [{} -> Tasks] /\ DOMAIN act' = {} /\ st' \in States
  BY InitialTyped, FreshTyped DEF NothingRuns
<1> QED
  BY <1>1 DEF TypeInv, Types, RecordTyped, Over

(* A node that takes a step belongs to the superstep and to a live graph.   *)
LEMMA NodeTyped ==
  ASSUME TypeInv, NEW n, At(n, "enter") \/ At(n, "save") \/ At(n, "mark")
    \/ At(n, "body")
                         \/ At(n, "load") \/ At(n, "commit")
  PROVE  n \in DOMAIN act /\ n \in Nodes /\ act[n] \in Tasks /\ ~Over
    /\ run \in {"running", "expiring"}
         /\ (n \notin Parallel => DOMAIN act = {n})
<1>1. n \in DOMAIN act /\ run \in {"running", "expiring"} /\ ~Over
  BY DEF At, GraphLives, Over
<1>2. n \in Nodes
  BY <1>1, NodesOfStep DEF TypeInv
<1>3. n \notin Parallel => DOMAIN act = {n}
  BY <1>1, AloneInStep DEF TypeInv
<1> QED
  BY <1>1, <1>2, <1>3 DEF TypeInv

(* Types when a node raises.                                                *)
LEMMA RaiseTyped ==
  ASSUME TypeInv, NEW n \in DOMAIN act, GraphRaises(n)
  PROVE  act' \in [DOMAIN act -> Tasks] /\ run' = "unwinding"
         /\ outcome' \in {"timeout", "error"}
<1>1. CancelledTasks(DOMAIN act \ {n}) \in [DOMAIN act -> Tasks]
  BY CancelledTyped DEF TypeInv
<1>2. ASSUME NEW t \in Tasks PROVE [t EXCEPT !.pc = "gone"] \in Tasks
  BY DEF Tasks, NodePCs
<1> QED
  BY <1>1, <1>2 DEF GraphRaises

(* Types when a body returns an update that is of the type of states.       *)
LEMMA ReturnTyped ==
  ASSUME TypeInv, NEW n, NEW s \in States, NEW rec \in BOOLEAN, Return(n, s,
    rec)
  PROVE  /\ act' \in [DOMAIN act -> Tasks]
         /\ UNCHANGED <<run, outcome, attempt, startedOn, st, cp>>
         /\ run \notin {"none", "ended"}
<1>1. n \in DOMAIN act /\ act[n] \in Tasks /\ ~Over
  BY NodeTyped DEF Return
<1>2. [act[n] EXCEPT !.pc = "load", !.out = s, !.rec = rec] \in Tasks
  BY <1>1 DEF Tasks, NodePCs
<1>3. act' = [act EXCEPT ![n] = [act[n] EXCEPT !.pc = "load", !.out = s,
        !.rec = rec]]
  BY <1>1 DEF Return, TypeInv
<1> QED
  BY <1>1, <1>2, <1>3 DEF Return, TypeInv, Over

-----------------------------------------------------------------------------
(* The bodies of the SQL nodes keep types: correct_sql counts a retry only  *)
(* where one is left.                                                       *)
LEMMA SqlBodyTyped ==
  ASSUME TypeInv, SqlBody
  PROVE  TypeInv'
<1> USE DEF TypeInv, Types, RecordTyped
<1>0. st \in States /\ st.retry \in Tries /\ CurrentSql(st) \in Texts
  BY DEF States, CurrentSql
<1>1. ASSUME NEW n, NEW s \in States, NEW rec \in BOOLEAN, Return(n, s, rec),
             sqlCount' \in Texts, answered' \in {-1} \cup Texts,
             passed' \subseteq Validators, missing' \subseteq Validators
      PROVE  TypeInv'
  BY <1>1, ReturnTyped, StepGoesOn
<1>2. ASSUME NEW err \in Errors PROVE [st EXCEPT !.err = err] \in States
  BY <1>0 DEF States
<1>3. "none" \in Errors /\ "fatal" \in Errors /\ "retryable" \in Errors
  BY DEF Errors
<1>4. ASSUME GenerateBody \/ CorrectBody PROVE TypeInv'
  <2>0. sqlCount \in Texts /\ 0 \in Texts
    BY BoundsAssumption DEF Texts
  <2>1. sqlCount' \in Texts
    <3>1. sqlCount < MaxSql /\ sqlCount' = sqlCount + 1
      BY <1>4 DEF GenerateBody, CorrectBody
    <3> HIDE DEF TypeInv, Types, RecordTyped
    <3> QED
      BY <2>0, <3>1, BoundsAssumption DEF Texts
  <2>2. CASE GenerateBody
    <3>1. [st EXCEPT !.sql = sqlCount', !.err = "none"] \in States
      BY <1>0, <1>3, <2>1 DEF States
    <3> QED
      BY <1>1, <2>1, <2>2, <3>1 DEF GenerateBody
  <2>3. CASE CorrectBody
    <3>1. st.retry + 1 \in Tries
      <4>1. "correct_sql" \in DOMAIN act
        BY <2>3 DEF CorrectBody, Return, At
      <4> QED
        BY <4>1, <1>0, MaxRetriesAssumption DEF Tries
    <3>2. [st EXCEPT !.sql = sqlCount', !.norm = 0, !.err = "none",
            !.retry = @ + 1] \in States
      <4> HIDE DEF TypeInv, Types, RecordTyped
      <4> QED
        BY <1>0, <1>3, <2>0, <2>1, <3>1 DEF States
    <3> QED
      BY <1>1, <2>1, <2>3, <3>2 DEF CorrectBody
  <2> QED
    BY <1>4, <2>2, <2>3
<1>5. ASSUME NEW n, NEW v \in Validators, NEW s \in States,
               NEW rec \in BOOLEAN, Accept(n, v, s, rec)
      PROVE  TypeInv'
  <2>1. [s EXCEPT !.err = "none"] \in States
    BY <1>3 DEF States
  <2> QED
    BY <1>1, <1>5, <2>1 DEF Accept
<1>6. ASSUME NEW n, NEW err \in Errors, NEW rec \in BOOLEAN, Reject(n, err,
               rec)
      PROVE  TypeInv'
  BY <1>1, <1>2, <1>6 DEF Reject
<1>7. CASE SecurityBody \/ DatabaseBody \/ CostBody
  <2>1. [st EXCEPT !.norm = st.sql] \in States
    BY <1>0 DEF States
  <2> QED
    BY <1>0, <1>3, <1>5, <1>6, <1>7, <2>1
       DEF SecurityBody, DatabaseBody, CostBody, Validators
<1>8. CASE ExecuteBody
  <2>1. [st EXCEPT !.result = CurrentSql(st), !.err = "none"] \in States
    BY <1>0, <1>3 DEF States
  <2> QED
    BY <1>1, <1>2, <1>3, <1>8, <2>1 DEF ExecuteBody
<1>9. CASE SummarizeBody
  <2>1. [st EXCEPT !.summary = st.result] \in States
    BY <1>0 DEF States
  <2> QED
    BY <1>1, <1>9, <2>1 DEF SummarizeBody
<1>10. CASE InterpretBody
  <2>1. st.summary \in Texts
    BY <1>0 DEF States
  <2> QED
    BY <1>0, <1>1, <1>10, <2>1 DEF InterpretBody
<1> QED
  BY <1>4, <1>7, <1>8, <1>9, <1>10 DEF SqlBody

(* The steps of the guard and the bodies of the data nodes keep types.      *)
LEMMA NodeStepTyped ==
  ASSUME TypeInv, NEW n \in Nodes, NodeStep(n)
  PROVE  TypeInv'
<1> USE DEF TypeInv, Types, RecordTyped
<1>1. ASSUME NEW p \in NodePCs, n \in DOMAIN act
      PROVE  [act EXCEPT ![n].pc = p] \in [DOMAIN act -> Tasks]
  <2>1. [act[n] EXCEPT !.pc = p] \in Tasks
    BY <1>1 DEF Tasks
  <2> QED
    BY <1>1, <2>1
<1>2. CASE Skip(n)
  BY <1>1, <1>2, NodeTyped, StepGoesOn, ZenonT(40) DEF Skip, NodePCs, Over
<1>3. CASE NotCompleted(n)
  BY <1>1, <1>3, NodeTyped, StepGoesOn, ZenonT(40) DEF NotCompleted, NodePCs, Over
<1>4. CASE SaveLoad(n)
  <2>1. n \in DOMAIN act /\ act[n] \in Tasks /\ ~Over
    BY <1>4, NodeTyped DEF SaveLoad
  <2>2. [act[n] EXCEPT !.pc = "mark", !.seen = cp.completed] \in Tasks
    BY <2>1 DEF Tasks, NodePCs, Records
  <2>3. act' = [act EXCEPT ![n] = [act[n] EXCEPT !.pc = "mark",
          !.seen = cp.completed]]
    BY <1>4, <2>1 DEF SaveLoad
  <2> QED
    BY <1>4, <2>1, <2>2, <2>3, StepGoesOn DEF SaveLoad, Over
<1>5. ASSUME NEW s \in States, NEW keys \in SUBSET Keys
      PROVE  RunningRecord(keys, s) \in Records
        /\ RunningRecord(keys, s).status = "RUNNING"
  BY <1>5 DEF RunningRecord, Records, Snapshot, Snaps, States, Statuses
<1>6. CASE MarkRunning(n)
  <2>1. n \in DOMAIN act /\ act[n] \in Tasks /\ ~Over
    BY <1>6, NodeTyped DEF MarkRunning
  <2>2. CASE MayReplace(cp.status, "RUNNING")
    <3>1. act' \in [DOMAIN act -> Tasks]
      BY <1>1, <1>6, <2>1, <2>2 DEF MarkRunning, NodePCs
    <3>2. RecordTyped'
      BY <1>5, <1>6, <2>1, <2>2 DEF MarkRunning, Tasks
    <3> QED
      BY <1>6, <2>1, <2>2, <3>1, <3>2, StepGoesOn DEF MarkRunning, Over
  <2>3. CASE ~MayReplace(cp.status, "RUNNING")
    BY <1>6, <2>1, <2>3, RaiseTyped, StepGoesOn
       DEF MarkRunning, Over, Outcomes
  <2> QED
    BY <2>2, <2>3
<1>7. CASE n \in DataNodes /\ DataBody(n)
  <2>1. [st EXCEPT !.have = @ \cup {n}] \in States
    BY <1>7 DEF States
  <2> QED
    BY <1>7, <2>1, ReturnTyped, StepGoesOn DEF DataBody, Over
<1>8. CASE CompletedLoad(n)
  <2>1. n \in DOMAIN act /\ act[n] \in Tasks /\ ~Over
    BY <1>8, NodeTyped DEF CompletedLoad
  <2> DEFINE keys == cp.completed \cup (IF act[n].rec THEN {CompletionKey(n,
        act[n].out)} ELSE {})
  <2>2. keys \in SUBSET Keys
    BY <2>1 DEF Records, CompletionKey, Keys, Tasks, States
  <2>3. [act[n] EXCEPT !.pc = "commit", !.seen = keys] \in Tasks
    BY <2>1, <2>2 DEF Tasks, NodePCs
  <2>4. act' = [act EXCEPT ![n] = [act[n] EXCEPT !.pc = "commit",
          !.seen = keys]]
    BY <1>8, <2>1 DEF CompletedLoad
  <2> HIDE DEF keys
  <2> QED
    BY <1>8, <2>1, <2>3, <2>4, StepGoesOn DEF CompletedLoad, Over
<1>9. CASE CommitCompleted(n)
  <2>1. n \in DOMAIN act /\ act[n] \in Tasks /\ ~Over
    BY <1>9, NodeTyped DEF CommitCompleted
  <2>2. CASE MayReplace(cp.status, "RUNNING")
    <3>1. act' \in [DOMAIN act -> Tasks]
      BY <1>1, <1>9, <2>1, <2>2 DEF CommitCompleted, NodePCs
    <3>2. RecordTyped'
      BY <1>5, <1>9, <2>1, <2>2 DEF CommitCompleted, Tasks
    <3> QED
      BY <1>9, <2>1, <2>2, <3>1, <3>2, StepGoesOn DEF CommitCompleted, Over
  <2>3. CASE ~MayReplace(cp.status, "RUNNING")
    BY <1>9, <2>1, <2>3, RaiseTyped, StepGoesOn
       DEF CommitCompleted, Over, Outcomes
  <2> QED
    BY <2>2, <2>3
<1>10. CASE NodeCancelled(n)
  <2>1. RecordTyped'
    BY <1>10, MarkedTyped DEF NodeCancelled
  <2>2. act' \in [DOMAIN act -> Tasks] /\ ~Over
    BY <1>1, <1>10 DEF NodeCancelled, NodePCs, Over
  <2> QED
    BY <1>10, <2>1, <2>2, StepGoesOn DEF NodeCancelled, Over
<1> QED
  BY <1>2, <1>3, <1>4, <1>6, <1>7, <1>8, <1>9, <1>10 DEF NodeStep, DataBody

-----------------------------------------------------------------------------
(* Where the edges lead: from data nodes, from a validator or from          *)
(* execute_sql, as its result is judged.                                    *)
DataRoute(F, next) ==
  /\ F \subseteq DataNodes
  /\ next \subseteq DataNodes \cup {"generate_sql"}
  /\ Superstep(next)

Validated == { <<"security_validate_sql", "database_validate_sql">>,
               <<"database_validate_sql", "evaluate_sql_cost">>,
               <<"evaluate_sql_cost", "execute_sql">>,
               <<"execute_sql", "summarize_result">> }

Judged(e, s, next) ==
  \/ s.err = "none" /\ next = {e[2]}
  \/ s.err = "retryable" /\ s.retry < MaxRetries /\ next = {"correct_sql"}
  \/ next = {"failed"}

(* The two parallel groups differ, and neither is a single node.            *)
LEMMA ParallelSteps ==
  /\ Recalls # Filters
  /\ \A n : Recalls # {n} /\ Filters # {n}
<1>1. Recalls # Filters
  <2>1. "recall_value" \in Recalls /\ "recall_value" \notin Filters
    BY DEF Recalls, Filters
  <2> QED
    BY <2>1
<1>2. ASSUME NEW n PROVE Recalls # {n} /\ Filters # {n}
  <2>1. "recall_value" \in Recalls /\ "recall_column" \in Recalls
    BY DEF Recalls
  <2>2. "filter_table" \in Filters /\ "filter_metric" \in Filters
    BY DEF Filters
  <2> QED
    BY <2>1, <2>2
<1> QED
  BY <1>1, <1>2

(* The edges of build_agent_graph, for every superstep and every state.     *)
LEMMA Routes ==
  ASSUME NEW F, Superstep(F), NEW s \in States
  PROVE  LET next == NextNodes(F, s) IN
         \/ DataRoute(F, next)
         \/ F \in {{"generate_sql"}, {"correct_sql"}}
              /\ next = {"security_validate_sql"}
         \/ \E e \in Validated : F = {e[1]} /\ Judged(e, s, next)
         \/ F = {"summarize_result"} /\ next = {"interpret_result"}
         \/ F = {"interpret_result"} /\ next = {}
<1> DEFINE next == NextNodes(F, s)
<1>1. CASE F = Recalls
  <2>1. next = {"merge_retrieved_info"}
    BY <1>1, ParallelSteps DEF NextNodes
  <2> QED
    BY <1>1, <2>1 DEF DataRoute, Superstep, Nodes, DataNodes, Parallel,
       Recalls, Filters
<1>2. CASE F = Filters
  <2>1. next = {"add_extra_context"}
    BY <1>2, ParallelSteps DEF NextNodes
  <2> QED
    BY <1>2, <2>1 DEF DataRoute, Superstep, Nodes, DataNodes, Parallel,
       Recalls, Filters
<1>3. ASSUME NEW n \in Nodes \ Parallel, F = {n}
      PROVE
         \/ DataRoute(F, next)
         \/ F \in {{"generate_sql"}, {"correct_sql"}}
              /\ next = {"security_validate_sql"}
         \/ \E e \in Validated : F = {e[1]} /\ Judged(e, s, next)
         \/ F = {"summarize_result"} /\ next = {"interpret_result"}
         \/ F = {"interpret_result"} /\ next = {}
  <2>1. F # Recalls /\ F # Filters
    BY <1>3, ParallelSteps
  <2>2. n \in {"extract_keywords", "merge_retrieved_info", "add_extra_context",
          "plan_query"} \cup SqlNodes
    BY <1>3 DEF Nodes, DataNodes, Parallel
  <2>3. CASE n \in {"extract_keywords", "merge_retrieved_info"}
    <3>1. next \in {Recalls, Filters}
      BY <1>3, <2>1, <2>3 DEF NextNodes
    <3> QED
      BY <1>3, <2>3, <3>1 DEF DataRoute, Superstep, DataNodes, Recalls, Filters
  <2>4. CASE n \in {"add_extra_context", "plan_query"}
    <3>1. next \in {{"plan_query"}, {"generate_sql"}}
      BY <1>3, <2>1, <2>4 DEF NextNodes
    <3> QED
      BY <1>3, <2>4, <3>1 DEF DataRoute, Superstep, Nodes, SqlNodes, DataNodes,
         Parallel, Recalls, Filters
  <2>5. CASE n \in {"generate_sql", "correct_sql", "summarize_result",
               "interpret_result"}
    BY <1>3, <2>1, <2>5 DEF NextNodes
  <2>6. CASE n \in {"security_validate_sql", "database_validate_sql",
               "evaluate_sql_cost", "execute_sql"}
    <3>1. \E e \in Validated : n = e[1]
            /\ next = {RouteAfterValidation(s, e[2])}
      BY <1>3, <2>1, <2>6 DEF NextNodes, Validated
    <3>2. ASSUME NEW e \in Validated, next = {RouteAfterValidation(s, e[2])}
          PROVE Judged(e, s, next)
      BY <3>2 DEF Judged, RouteAfterValidation
    <3> HIDE DEF next
    <3> QED
      BY <1>3, <3>1, <3>2
  <2> QED
    BY <2>2, <2>3, <2>4, <2>5, <2>6 DEF SqlNodes
<1> QED
  BY <1>1, <1>2, <1>3 DEF Superstep

(* What the updates of a superstep come to.                                 *)
LEMMA MergedOutputs ==
  ASSUME TypeInv, ~Over
  PROVE  LET s == Merged(DOMAIN act) IN
         /\ s \in States
         /\ \A n \in DOMAIN act : DOMAIN act = {n} => s = act[n].out
         /\ DOMAIN act \in {Recalls, Filters} =>
              s = [st EXCEPT
                     !.have = UNION {act[n].out.have : n \in DOMAIN act}]
<1>1. Superstep(DOMAIN act)
  BY DEF TypeInv
<1>2. ASSUME DOMAIN act \in {Recalls, Filters}
      PROVE  /\ ~ \E n \in DOMAIN act : DOMAIN act = {n}
             /\ [st EXCEPT
                  !.have = UNION {act[n].out.have : n \in DOMAIN act}] \in States
  <2>1. ~ \E n \in DOMAIN act : DOMAIN act = {n}
    BY <1>2, ParallelSteps
  <2>2. UNION {act[n].out.have : n \in DOMAIN act} \subseteq DataNodes
    BY DEF TypeInv, Tasks, States
  <2> QED
    BY <2>1, <2>2 DEF TypeInv, States
<1>3. ASSUME NEW n \in DOMAIN act, DOMAIN act = {n}
      PROVE  Merged(DOMAIN act) = act[n].out /\ act[n].out \in States
  <2>1. (CHOOSE m \in DOMAIN act : TRUE) = n
    BY <1>3
  <2> QED
    BY <1>3, <2>1 DEF Merged, TypeInv, Tasks
<1> QED
  BY <1>1, <1>2, <1>3 DEF Superstep, Merged

(* What the end of a superstep does.                                        *)
Ends(s, next) ==
  /\ run \in {"running", "expiring"}
  /\ s \in States /\ st' = s /\ s = Merged(DOMAIN act)
  /\ \A n \in DOMAIN act : act[n].pc = "done"
  /\ next = NextNodes(DOMAIN act, s)
  /\ \/ /\ next = {"failed"} /\ act' = act /\ run' = "unwinding"
        /\ outcome' = IF run = "expiring" THEN "timeout" ELSE "error"
     \/ /\ next = {} /\ act' = act /\ outcome' = outcome
        /\ run' = IF run = "expiring" THEN "unwinding" ELSE "drained"
     \/ /\ Superstep(next) /\ "failed" \notin next /\ act' = Fresh(next, s)
        /\ run' = run /\ outcome' = outcome
  /\ UNCHANGED <<attempt, startedOn, cp, sqlCount, answered, passed, missing>>

(* SuperstepEnds leads to a superstep of the graph, to END or to failed().  *)
LEMMA SuperstepResult ==
  ASSUME TypeInv, SuperstepEnds
  PROVE  Ends(Merged(DOMAIN act), NextNodes(DOMAIN act, Merged(DOMAIN act)))
<1> DEFINE s == Merged(DOMAIN act)
           next == NextNodes(DOMAIN act, s)
<1>1. run \in {"running", "expiring"} /\ ~Over
  BY DEF SuperstepEnds, GraphLives, Over
<1>2. s \in States
  BY <1>1, MergedOutputs
<1>3. Superstep(DOMAIN act)
  BY <1>1 DEF TypeInv
<1>4. next \notin {{}, {"failed"}} => Superstep(next) /\ "failed" \notin next
  <2>1. ASSUME NEW n \in SqlNodes PROVE Superstep({n}) /\ "failed" # n
    BY <2>1 DEF Superstep, SqlNodes, Nodes, DataNodes, Parallel, Recalls,
       Filters
  <2>2. ASSUME Superstep(next) PROVE "failed" \notin next
    BY <2>2, NodesOfStep DEF Nodes, DataNodes, SqlNodes, Recalls, Filters
  <2>3. \A e \in Validated : e[2] \in SqlNodes
    BY DEF Validated, SqlNodes
  <2>4. {"security_validate_sql", "correct_sql",
          "interpret_result"} \subseteq SqlNodes
    BY DEF SqlNodes
  <2> HIDE DEF next, s
  <2>5. \/ DataRoute(DOMAIN act, next)
        \/ next = {"security_validate_sql"} \/ next = {"interpret_result"}
        \/ next = {}
        \/ \E e \in Validated : Judged(e, s, next)
    BY <1>2, <1>3, Routes DEF next
  <2> QED
    BY <2>1, <2>2, <2>3, <2>4, <2>5 DEF DataRoute, Judged
<1> QED
  BY <1>1, <1>2, <1>4 DEF SuperstepEnds, Ends

(* The end of a superstep keeps types.                                      *)
LEMMA SuperstepTyped ==
  ASSUME TypeInv, SuperstepEnds
  PROVE  TypeInv'
<1> DEFINE s == Merged(DOMAIN act)
           next == NextNodes(DOMAIN act, s)
<1>1. Ends(s, next)
  BY SuperstepResult
<1>2. Superstep(DOMAIN act) /\ ~Over
  BY <1>1 DEF TypeInv, Ends, Over
<1>3. "correct_sql" \in next => s.retry < MaxRetries
  <2>1. ~DataRoute(DOMAIN act, next) \/ "correct_sql" \notin next
    BY DEF DataRoute, DataNodes, Recalls, Filters
  <2>2. s \in States
    BY <1>1 DEF Ends
  <2>3. \A e \in Validated : e[2] # "correct_sql"
    BY DEF Validated
  <2>4. \A e \in Validated : Judged(e, s, next) /\ "correct_sql" \in next =>
          s.retry < MaxRetries
    BY <2>3 DEF Judged
  <2> HIDE DEF next, s
  <2>5. next = NextNodes(DOMAIN act, s)
    BY <1>1 DEF Ends
  <2> QED
    BY <1>2, <2>1, <2>2, <2>4, <2>5, Routes
<1>4. "correct_sql" \in DOMAIN act => next = {"security_validate_sql"}
  <2>1. "correct_sql" \in DOMAIN act => DOMAIN act = {"correct_sql"}
    BY <1>2, AloneInStep DEF Parallel, Recalls, Filters
  <2> QED
    BY <2>1 DEF NextNodes, Recalls, Filters
<1> HIDE DEF next, s
<1>5. Fresh(next, s) \in [next -> Tasks] /\ DOMAIN Fresh(next, s) = next
  BY <1>1, FreshTyped DEF Ends
<1>6. act \in [DOMAIN act -> Tasks]
  BY DEF TypeInv
<1>7. /\ act' \in [DOMAIN act' -> Tasks] /\ Superstep(DOMAIN act')
      /\ "correct_sql" \in DOMAIN act' => st'.retry < MaxRetries
      /\ st' \in States
  BY <1>1, <1>2, <1>3, <1>4, <1>5, <1>6 DEF Ends
<1>8. /\ run' \in {"running", "expiring", "unwinding", "drained"}
      /\ outcome' \in Outcomes
  BY <1>1 DEF Ends, TypeInv, Outcomes
<1> QED
  BY <1>1, <1>7, <1>8 DEF Ends, TypeInv, Over

-----------------------------------------------------------------------------
(* query() begins an attempt with types kept, resumed or not.               *)
LEMMA StartTyped ==
  ASSUME TypeInv, Start
  PROVE  TypeInv'
<1>1. RecordTyped' /\ (cp'.status = "RUNNING" => cp' \in Records)
  BY InitialTyped
     DEF Start, Begin, TypeInv, RecordTyped, Records, Statuses, NoRecord
<1>2. ASSUME NEW snap \in Snaps PROVE Restored(snap) \in States
  BY InitialTyped, <1>2 DEF Restored, Snaps, States
<1>3. st' \in States
  BY <1>1, <1>2, InitialTyped DEF Start, RecordTyped, Records
<1>4. act' \in [{"extract_keywords"} -> Tasks]
        /\ DOMAIN act' = {"extract_keywords"}
  BY <1>3, FreshTyped DEF Start
<1>5. Superstep({"extract_keywords"})
  BY DEF Superstep, Nodes, DataNodes, SqlNodes, Parallel, Recalls, Filters
<1>6. sqlCount' \in Texts /\ attempt' \in 0..MaxAttempts
  BY <1>3, BoundsAssumption DEF Start, Begin, States, TypeInv
<1>7. startedOn' \in Statuses \cup {"NONE"}
  BY DEF Start, Begin, TypeInv, Records
<1> QED
  BY <1>1, <1>3, <1>4, <1>5, <1>6, <1>7
     DEF Start, Begin, TypeInv, RecordTyped, Over, Outcomes

(* So does a query() that ends before the graph.                            *)
LEMMA LeavesEarlyTyped ==
  ASSUME TypeInv, LeavesEarly
  PROVE  TypeInv'
<1>1. RecordTyped'
  BY InitialTyped
     DEF LeavesEarly, Begin, TypeInv, RecordTyped, Records, Statuses, NoRecord
<1>2. act' \in [{} -> Tasks] /\ DOMAIN act' = {} /\ st' \in States
  BY InitialTyped, FreshTyped DEF LeavesEarly, NothingRuns
<1>3. sqlCount' \in Texts /\ attempt' \in 0..MaxAttempts
  BY BoundsAssumption DEF LeavesEarly, Begin, Texts, TypeInv
<1>4. startedOn' \in Statuses \cup {"NONE"}
  BY DEF LeavesEarly, Begin, TypeInv, Records
<1> QED
  BY <1>1, <1>2, <1>3, <1>4
     DEF LeavesEarly, Begin, TypeInv, RecordTyped, Over, Outcomes

(* The steps of query(), a crash and an expiry keep types.                  *)
LEMMA ServiceTyped ==
  ASSUME TypeInv, QueryDone \/ CancelExpired \/ Unwound \/ TotalTimeout
    \/ Disconnect \/ StreamClosed \/ ReportCutShort
                  \/ Crash \/ Expire \/ UNCHANGED vars
  PROVE  TypeInv'
<1>1. RecordTyped /\ \A status \in {"COMPLETED", "FAILED", "CANCELLED"} :
        /\ Marked(status) \in Records
        /\ Marked(status).status # "RUNNING" =>
             Marked(status) = [NoRecord EXCEPT !.status = Marked(status).status]
  BY MarkedTyped DEF TypeInv, RecordTyped
<1>2. CASE QueryDone
  BY <1>1, <1>2, StepStops DEF QueryDone, TypeInv, Types, RecordTyped, Outcomes
<1>3. CASE CancelExpired
  <2>1. act' \in [DOMAIN act -> Tasks]
    BY <1>3, CancelledTyped DEF CancelExpired, TypeInv
  <2> QED
    BY <1>1, <1>3, <2>1, StepGoesOn
       DEF CancelExpired, TypeInv, Types, RecordTyped
<1>4. CASE Unwound
  BY <1>1, <1>4, StepStops DEF Unwound, TypeInv, Types, RecordTyped
<1>5. CASE TotalTimeout
  BY <1>1, <1>5, StepGoesOn
     DEF TotalTimeout, TypeInv, Types, RecordTyped, Outcomes
<1>6. CASE Disconnect \/ StreamClosed
  <2>1. act' \in [DOMAIN act -> Tasks]
    BY <1>6, CancelledTyped DEF Disconnect, StreamClosed, TypeInv
  <2> QED
    BY <1>1, <1>6, <2>1, StepGoesOn
       DEF Disconnect, StreamClosed, TypeInv, Types, RecordTyped, Outcomes
<1>7. CASE Crash
  <2>1. 0 \in Texts
    BY BoundsAssumption DEF Texts
  <2> QED
    BY <1>1, <1>7, <2>1, StepStops
       DEF Crash, TypeInv, Types, RecordTyped, Outcomes
<1>8. CASE Expire
  BY <1>8, InitialTyped DEF Expire, TypeInv, Over, NoRecord
<1>9. CASE UNCHANGED vars
  BY <1>9 DEF vars, TypeInv, Over
<1>10. CASE ReportCutShort
  BY <1>1, <1>10, StepGoesOn
     DEF ReportCutShort, TypeInv, Types, RecordTyped, Outcomes
<1> QED
  BY <1>2, <1>3, <1>4, <1>5, <1>6, <1>7, <1>8, <1>9, <1>10

(* A node that raises keeps types.                                          *)
LEMMA RaisingTyped ==
  ASSUME TypeInv, NEW n \in Nodes, BudgetExhausted(n) \/ BodyRaises(n)
  PROVE  TypeInv'
<1>1. n \in DOMAIN act /\ run \in {"running", "expiring"} /\ GraphRaises(n)
  BY NodeTyped DEF BudgetExhausted, BodyRaises
<1>2. RecordTyped'
  BY MarkedTyped DEF BudgetExhausted, BodyRaises, TypeInv, RecordTyped
<1> QED
  BY <1>1, <1>2, RaiseTyped, StepGoesOn
     DEF BudgetExhausted, BodyRaises, TypeInv, Types, Outcomes

(* TypeInv holds in every reachable state.                                  *)
LEMMA TypeInvariant == Spec => []TypeInv
<1>1. Init => TypeInv
  <2> SUFFICES ASSUME Init PROVE TypeInv
    OBVIOUS
  <2>1. act \in [{} -> Tasks] /\ DOMAIN act = {}
    BY InitialTyped, FreshTyped DEF Init
  <2> QED
    BY <2>1, InitialTyped, BoundsAssumption
       DEF Init, TypeInv, Over, NoRecord, Texts, Outcomes
<1>2. TypeInv /\ [Next]_vars => TypeInv'
  BY StartTyped, LeavesEarlyTyped, NodeStepTyped, SqlBodyTyped,
     SuperstepTyped, ServiceTyped, RaisingTyped
     DEF Next, GraphStep, Disturbance
<1> QED
  BY <1>1, <1>2, PTL DEF Spec

(* Type correctness: the graph state, the tasks of the superstep, the       *)
(* record in Redis and the histories are of their types, and the retries    *)
(* counted never exceed max_sql_retries.                                    *)
THEOREM TypeCorrect == Spec => []TypeOK
<1>1. TypeInv => TypeOK
  <2> SUFFICES ASSUME TypeInv PROVE TypeOK
    OBVIOUS
  <2>1. Texts \subseteq Nat /\ Tries \subseteq Nat
    BY MaxRetriesAssumption, BoundsAssumption DEF Texts, Tries
  <2>2. States \subseteq GraphState
    BY <2>1 DEF States, GraphState
  <2>3. Keys \subseteq Completions
    BY <2>1 DEF Keys, Completions
  <2>4. st \in GraphState /\ st.retry <= MaxRetries
    BY <2>2, MaxRetriesAssumption DEF TypeInv, States, Tries
  <2>5. DOMAIN act \subseteq Nodes
    BY NodesOfStep DEF TypeInv
  <2>6. \A n \in DOMAIN act :
          act[n] \in [pc: NodePCs, seen: SUBSET Completions, out: GraphState,
            rec: BOOLEAN]
    BY <2>2, <2>3 DEF TypeInv, Tasks
  <2>7. cp = NoRecord \/ cp \in [status: Statuses,
          completed: SUBSET Completions, snap: Snapshots]
    <3>1. CASE cp.status = "NONE"
      BY <3>1 DEF TypeInv, NoRecord
    <3>2. CASE cp.status # "NONE"
      BY <2>1, <2>3, <3>2 DEF TypeInv, Records, Snaps, Snapshots
    <3> QED BY <3>1, <3>2
  <2> QED
    BY <2>1, <2>4, <2>5, <2>6, <2>7 DEF TypeInv, TypeOK, Texts
<1> QED
  BY <1>1, TypeInvariant, PTL

-----------------------------------------------------------------------------
(* The tasks other than n stay as they are.                                 *)
Others(n) ==
  DOMAIN act' = DOMAIN act /\ \A m \in DOMAIN act : m # n => act'[m] = act[m]

(* The guard of a node goes one step further.                               *)
Guarded(n) ==
  /\ run \in {"running", "expiring"} /\ n \in DOMAIN act /\ n \in Nodes
  /\ Others(n) /\ act'[n].out = act[n].out /\ act'[n].rec = act[n].rec
  /\ UNCHANGED <<run, outcome, attempt, startedOn, st, sqlCount, answered,
                 passed, missing>>
  /\ \/ /\ act[n].pc = "enter" /\ act'[n].pc = "done"
        /\ act'[n].seen = act[n].seen /\ cp' = cp
        /\ cp.status = "RUNNING" /\ CompletionKey(n, st) \in cp.completed
     \/ /\ act[n].pc = "enter" /\ act'[n].pc = "save"
        /\ act'[n].seen = act[n].seen /\ cp' = cp
     \/ /\ act[n].pc = "save" /\ act'[n].pc = "mark"
        /\ act'[n].seen = cp.completed /\ cp' = cp
     \/ /\ act[n].pc = "mark" /\ act'[n].pc = "body"
        /\ act'[n].seen = act[n].seen
        /\ MayReplace(cp.status, "RUNNING")
             /\ cp' = RunningRecord(act[n].seen, st)
     \/ /\ act[n].pc = "load" /\ act'[n].pc = "commit"
        /\ act'[n].seen = cp.completed \cup
             (IF act[n].rec THEN {CompletionKey(n, act[n].out)} ELSE {})
        /\ cp' = cp
     \/ /\ act[n].pc = "commit" /\ act'[n].pc = "done"
        /\ act'[n].seen = act[n].seen
        /\ MayReplace(cp.status, "RUNNING")
        /\ cp' = RunningRecord(act[n].seen, act[n].out)

(* The body of a node returns the state s.                                  *)
Bodied(n, s, rec) ==
  /\ run \in {"running", "expiring"} /\ n \in DOMAIN act /\ n \in Nodes
  /\ act[n].pc = "body" /\ Others(n)
  /\ act'[n].pc = "load" /\ act'[n].seen = act[n].seen
  /\ act'[n].out = s /\ act'[n].rec = rec
  /\ UNCHANGED <<run, outcome, attempt, startedOn, st, cp>>

(* The graph task ends: a node raised or it was cancelled. Only a task in   *)
(* its body has a handler to run.                                           *)
Halts ==
  /\ run' = "unwinding"
  /\ DOMAIN act' = DOMAIN act
  /\ \A m \in DOMAIN act :
       /\ act'[m].seen = act[m].seen
       /\ act'[m].out = act[m].out
       /\ act'[m].rec = act[m].rec
       /\ \/ act'[m].pc \in {act[m].pc, "gone"}
          \/ act[m].pc = "body" /\ act'[m].pc = "cancelled"
  /\ \/ /\ run \in {"running", "expiring"}
        /\ outcome' = IF run = "expiring" THEN "timeout" ELSE "error"
        /\ \/ cp' = cp
           \/ cp' = Marked("FAILED")
                /\ \E m \in DOMAIN act : act[m].pc = "body"
     \/ run = "expiring" /\ outcome' = outcome /\ cp' = cp
     \/ /\ run \in {"running", "drained"} /\ cp' = cp
        /\ outcome' \in {"cancelled", "abandoned"}
  /\ UNCHANGED <<attempt, startedOn, st, sqlCount, answered, passed, missing>>

(* A step of one task leaves the others alone.                              *)
LEMMA Turned ==
  ASSUME TypeInv, NEW n \in DOMAIN act, NEW t, act' = [act EXCEPT ![n] = t]
  PROVE  Others(n) /\ act'[n] = t
BY DEF TypeInv, Others

(* What cancellation does to a task.                                        *)
LEMMA CancelledEffect ==
  ASSUME TypeInv, NEW F, NEW m \in DOMAIN act
  PROVE  LET t == CancelledTasks(F)[m] IN
         /\ t.seen = act[m].seen /\ t.out = act[m].out /\ t.rec = act[m].rec
         /\ \/ t.pc \in {act[m].pc, "gone"}
            \/ act[m].pc = "body" /\ t.pc = "cancelled"
BY DEF CancelledTasks, TypeInv, Tasks

(* A node that raises ends the graph task.                                  *)
LEMMA RaiseHalts ==
  ASSUME TypeInv, NEW n \in DOMAIN act, GraphRaises(n),
         run \in {"running", "expiring"},
         \/ cp' = cp
         \/ cp' = Marked("FAILED") /\ \E m \in DOMAIN act : act[m].pc = "body",
         UNCHANGED <<attempt, startedOn, st, sqlCount, answered, passed,
           missing>>
  PROVE  Halts
<1> DEFINE T == CancelledTasks(DOMAIN act \ {n})
<1>1. T \in [DOMAIN act -> Tasks] /\ DOMAIN T = DOMAIN act
  BY CancelledTyped DEF TypeInv
<1>2. \A m \in DOMAIN act :
         /\ T[m].seen = act[m].seen /\ T[m].out = act[m].out
              /\ T[m].rec = act[m].rec
         /\ \/ T[m].pc \in {act[m].pc, "gone"}
            \/ act[m].pc = "body" /\ T[m].pc = "cancelled"
  BY CancelledEffect
<1>3. act' = [T EXCEPT ![n] = [T[n] EXCEPT !.pc = "gone"]]
  BY <1>1 DEF GraphRaises
<1> HIDE DEF T
<1>4. DOMAIN act' = DOMAIN act /\ \A m \in DOMAIN act : m # n => act'[m] = T[m]
  BY <1>1, <1>3
<1>5. act'[n] = [T[n] EXCEPT !.pc = "gone"] /\ T[n] \in Tasks
  BY <1>1, <1>3
<1>6. act'[n].pc = "gone" /\ act'[n].seen = T[n].seen /\ act'[n].out = T[n].out
      /\ act'[n].rec = T[n].rec
  BY <1>5 DEF Tasks
<1>7. \A m \in DOMAIN act :
         /\ act'[m].seen = act[m].seen /\ act'[m].out = act[m].out
         /\ act'[m].rec = act[m].rec
         /\ \/ act'[m].pc \in {act[m].pc, "gone"}
            \/ act[m].pc = "body" /\ act'[m].pc = "cancelled"
  BY <1>2, <1>4, <1>6
<1> QED
  BY <1>4, <1>7 DEF Halts, GraphRaises

(* Each step of a guard goes further or, where the script refuses, raises.  *)
LEMMA GuardEffect ==
  ASSUME TypeInv, NEW n \in Nodes,
         Skip(n) \/ NotCompleted(n) \/ SaveLoad(n) \/ MarkRunning(n)
         \/ CompletedLoad(n) \/ CommitCompleted(n)
  PROVE  Guarded(n) \/ Halts
<1>1. n \in DOMAIN act /\ act[n] \in Tasks /\ run \in {"running", "expiring"}
  BY NodeTyped DEF Skip, NotCompleted, SaveLoad, MarkRunning, CompletedLoad,
     CommitCompleted
<1>2. ASSUME NEW p, act' = [act EXCEPT ![n].pc = p]
      PROVE  /\ Others(n) /\ act'[n].pc = p /\ act'[n].seen = act[n].seen
             /\ act'[n].out = act[n].out /\ act'[n].rec = act[n].rec
  <2>1. act' = [act EXCEPT ![n] = [act[n] EXCEPT !.pc = p]]
    BY <1>1, <1>2
  <2>2. Others(n) /\ act'[n] = [act[n] EXCEPT !.pc = p]
    BY <1>1, <2>1, Turned
  <2> QED
    BY <1>1, <2>2 DEF Tasks
<1>3. ASSUME NEW p, NEW k, act' = [act EXCEPT ![n].pc = p, ![n].seen = k]
      PROVE  /\ Others(n) /\ act'[n].pc = p /\ act'[n].seen = k
             /\ act'[n].out = act[n].out /\ act'[n].rec = act[n].rec
  <2>1. act' = [act EXCEPT ![n] = [act[n] EXCEPT !.pc = p, !.seen = k]]
    BY <1>1, <1>3
  <2>2. Others(n) /\ act'[n] = [act[n] EXCEPT !.pc = p, !.seen = k]
    BY <1>1, <2>1, Turned
  <2> QED
    BY <1>1, <2>2 DEF Tasks
<1>4. CASE Skip(n)
  BY <1>1, <1>2, <1>4 DEF Skip, At, Guarded
<1>5. CASE NotCompleted(n)
  BY <1>1, <1>2, <1>5 DEF NotCompleted, At, Guarded
<1>6. CASE SaveLoad(n)
  <2>1. act' = [act EXCEPT ![n].pc = "mark", ![n].seen = cp.completed]
    BY <1>6 DEF SaveLoad
  <2>2. /\ Others(n) /\ act'[n].pc = "mark" /\ act'[n].seen = cp.completed
        /\ act'[n].out = act[n].out /\ act'[n].rec = act[n].rec
    BY <1>3, <2>1
  <2> QED
    BY <1>1, <1>6, <2>2 DEF SaveLoad, At, Guarded
<1>7. CASE MarkRunning(n)
  <2>1. CASE MayReplace(cp.status, "RUNNING")
    BY <1>1, <1>2, <1>7, <2>1 DEF MarkRunning, At, Guarded
  <2>2. CASE ~MayReplace(cp.status, "RUNNING")
    BY <1>1, <1>7, <2>2, RaiseHalts DEF MarkRunning
  <2> QED BY <2>1, <2>2
<1>8. CASE CompletedLoad(n)
  <2> DEFINE k == cp.completed \cup
                  (IF act[n].rec THEN {CompletionKey(n, act[n].out)} ELSE {})
  <2>1. act' = [act EXCEPT ![n].pc = "commit", ![n].seen = k]
    BY <1>8 DEF CompletedLoad
  <2>2. /\ Others(n) /\ act'[n].pc = "commit" /\ act'[n].seen = k
        /\ act'[n].out = act[n].out /\ act'[n].rec = act[n].rec
    <3> HIDE DEF k
    <3> QED BY <1>3, <2>1
  <2> QED
    BY <1>1, <1>8, <2>2 DEF CompletedLoad, At, Guarded
<1>9. CASE CommitCompleted(n)
  <2>1. CASE MayReplace(cp.status, "RUNNING")
    BY <1>1, <1>2, <1>9, <2>1 DEF CommitCompleted, At, Guarded
  <2>2. CASE ~MayReplace(cp.status, "RUNNING")
    BY <1>1, <1>9, <2>2, RaiseHalts DEF CommitCompleted
  <2> QED BY <2>1, <2>2
<1> QED
  BY <1>4, <1>5, <1>6, <1>7, <1>8, <1>9

(* A body that returns.                                                     *)
LEMMA Returns ==
  ASSUME TypeInv, NEW n, NEW s, NEW rec, Return(n, s, rec)
  PROVE  Bodied(n, s, rec)
<1>1. n \in DOMAIN act /\ n \in Nodes /\ act[n] \in Tasks
      /\ run \in {"running", "expiring"} /\ act[n].pc = "body"
  BY NodeTyped DEF Return, At
<1>2. act' = [act EXCEPT ![n] = [act[n] EXCEPT !.pc = "load", !.out = s,
        !.rec = rec]]
  BY <1>1 DEF Return
<1>3. Others(n) /\ act'[n] = [act[n] EXCEPT !.pc = "load", !.out = s,
        !.rec = rec]
  BY <1>1, <1>2, Turned
<1> QED
  BY <1>1, <1>3 DEF Return, Bodied, Tasks

(* Time-outs, disconnects, a generator that is closed and nodes that raise  *)
(* end the graph task.                                                      *)
LEMMA DisturbanceHalts ==
  ASSUME TypeInv,
         \/ CancelExpired \/ Disconnect \/ StreamClosed
         \/ \E n \in Nodes : BudgetExhausted(n) \/ BodyRaises(n)
  PROVE  Halts
<1>1. ASSUME NEW n \in Nodes, BudgetExhausted(n) \/ BodyRaises(n) PROVE Halts
  <2>1. n \in DOMAIN act /\ run \in {"running", "expiring"}
    BY <1>1, NodeTyped DEF BudgetExhausted, BodyRaises
  <2> QED
    BY <1>1, <2>1, RaiseHalts DEF BudgetExhausted, BodyRaises, At
<1>2. CASE CancelExpired \/ Disconnect \/ StreamClosed
  <2>1. DOMAIN CancelledTasks(DOMAIN act) = DOMAIN act
    BY CancelledTyped DEF TypeInv
  <2> QED
    BY <1>2, <2>1, CancelledEffect
       DEF CancelExpired, Disconnect, StreamClosed, Halts
<1> QED
  BY <1>1, <1>2

(* Every step of the specification is of one of these kinds.                *)
LEMMA StepKinds ==
  ASSUME TypeInv, [Next]_vars
  PROVE  \/ Start \/ LeavesEarly
         \/ \E n \in Nodes : Guarded(n)
         \/ \E n \in Nodes : DataBody(n)
         \/ SqlBody
         \/ Halts
         \/ \E n \in Nodes : NodeCancelled(n)
         \/ Ends(Merged(DOMAIN act), NextNodes(DOMAIN act, Merged(DOMAIN act)))
         \/ QueryDone \/ TotalTimeout \/ Unwound \/ ReportCutShort
         \/ Crash \/ Expire \/ UNCHANGED vars
<1>1. CASE \E n \in Nodes : NodeStep(n)
  BY <1>1, GuardEffect DEF NodeStep
<1>2. CASE GraphStep
  BY <1>2, SuperstepResult, DisturbanceHalts DEF GraphStep
<1>3. CASE Disturbance
  BY <1>3, DisturbanceHalts DEF Disturbance
<1> QED
  BY <1>1, <1>2, <1>3 DEF Next

-----------------------------------------------------------------------------
(* A new SQL text, by generate_sql or correct_sql.                          *)
Written(n, s, rec) ==
  /\ n \in {"generate_sql", "correct_sql"} /\ ~rec
  /\ s.have = st.have /\ s.sql = sqlCount' /\ s.err = "none"
  /\ s.norm = (IF n = "correct_sql" THEN 0 ELSE st.norm)
  /\ s.retry = (IF n = "correct_sql" THEN st.retry + 1 ELSE st.retry)
  /\ sqlCount' = sqlCount + 1 /\ passed' = {}
       /\ UNCHANGED <<answered, missing>>

Checks == { <<"security_validate_sql", "security">>,
            <<"database_validate_sql", "database">>,
            <<"evaluate_sql_cost", "cost">> }

(* A validator's verdict.                                                   *)
Checked(n, s, rec) ==
  /\ s.have = st.have /\ s.sql = st.sql /\ s.retry = st.retry
  /\ s.result = st.result /\ s.summary = st.summary
  /\ n = "database_validate_sql" => ~rec
  /\ \/ /\ s.err = "none"
        /\ s.norm = (IF n = "security_validate_sql" THEN st.sql ELSE st.norm)
        /\ \E v \in Validators : <<n, v>> \in Checks
             /\ passed' = IF CurrentSql(s) = sqlCount
                          THEN passed \cup {v} ELSE passed
     \/ /\ s.err # "none" /\ s.norm = st.norm
        /\ passed' = passed
        /\ \E v \in Validators : <<n, v>> \in Checks
  /\ UNCHANGED <<sqlCount, answered, missing>>

(* The SQL was executed, or its execution failed.                           *)
Executed(n, s) ==
  /\ n = "execute_sql"
  /\ s.have = st.have /\ s.sql = st.sql /\ s.norm = st.norm
       /\ s.retry = st.retry
  /\ s.summary = st.summary
  /\ s.err = "none" => s.result = CurrentSql(st)
  /\ missing' = missing \cup (IF CurrentSql(st) = sqlCount
                               THEN Validators \ passed ELSE Validators)
  /\ UNCHANGED <<sqlCount, answered, passed>>

(* The result was summarised, or the answer emitted.                        *)
Told(n, s) ==
  /\ s.have = st.have /\ s.sql = st.sql /\ s.norm = st.norm
       /\ s.retry = st.retry
  /\ s.result = st.result
  /\ \/ n = "summarize_result" /\ s.summary = st.result /\ answered' = answered
     \/ n = "interpret_result" /\ s.summary = st.summary
          /\ answered' = st.summary
  /\ UNCHANGED <<sqlCount, passed, missing>>

(* What the body of a SQL node returned, and the histories it wrote.        *)
SqlReturn(n, s, rec) ==
  /\ Bodied(n, s, rec)
  /\ Written(n, s, rec) \/ Checked(n, s, rec) \/ Executed(n, s) \/ Told(n, s)

(* The body of a SQL node does one of these.                                *)
LEMMA SqlBodyKinds ==
  ASSUME TypeInv, SqlBody
  PROVE  \E n, s, rec : SqlReturn(n, s, rec)
<1>0. /\ st \in States
      /\ st.err \in Errors
  BY DEF TypeInv, States
<1>1. CASE GenerateBody
  <2> DEFINE s == [st EXCEPT !.sql = sqlCount', !.err = "none"]
  <2>1. Bodied("generate_sql", s, FALSE)
    BY <1>1, Returns DEF GenerateBody
  <2>2. Written("generate_sql", s, FALSE)
    BY <1>0, <1>1 DEF GenerateBody, Written, States
  <2> HIDE DEF s
  <2> QED
    BY <2>1, <2>2 DEF SqlReturn
<1>2. CASE CorrectBody
  <2> DEFINE s == [st EXCEPT !.sql = sqlCount', !.norm = 0, !.err = "none",
        !.retry = @ + 1]
  <2>1. Bodied("correct_sql", s, FALSE)
    BY <1>2, Returns DEF CorrectBody
  <2>2. Written("correct_sql", s, FALSE)
    BY <1>0, <1>2 DEF CorrectBody, Written, States
  <2> HIDE DEF s
  <2> QED
    BY <2>1, <2>2 DEF SqlReturn
<1>3. ASSUME NEW n, NEW v \in Validators, <<n, v>> \in Checks,
             NEW s0 \in {st, [st EXCEPT !.norm = st.sql]},
             IF n = "security_validate_sql"
               THEN s0 = [st EXCEPT !.norm = st.sql] ELSE s0 = st,
             NEW rec, n = "database_validate_sql" => ~rec,
             Accept(n, v, s0, rec)
      PROVE  \E m, s, r : SqlReturn(m, s, r)
  <2> DEFINE s == [s0 EXCEPT !.err = "none"]
  <2>1. Bodied(n, s, rec)
    BY <1>3, Returns DEF Accept
  <2>2. s0 \in States
    BY <1>0 DEF States
  <2>3. /\ s.have = st.have /\ s.sql = st.sql /\ s.retry = st.retry
        /\ s.result = st.result /\ s.summary = st.summary /\ s.err = "none"
        /\ s.norm = s0.norm /\ s0.sql = st.sql
        /\ s.norm = (IF n = "security_validate_sql" THEN st.sql ELSE st.norm)
    BY <1>0, <1>3, <2>2 DEF States
  <2> HIDE DEF s
  <2>4. Checked(n, s, rec)
    BY <1>3, <2>3 DEF Checked, Accept, CurrentSql
  <2> QED
    BY <2>1, <2>4 DEF SqlReturn
<1>4. ASSUME NEW n, NEW v \in Validators, <<n, v>> \in Checks, NEW err,
               err # "none",
             NEW rec, n = "database_validate_sql" => ~rec, Reject(n, err, rec)
      PROVE  \E m, s, r : SqlReturn(m, s, r)
  <2> DEFINE s == [st EXCEPT !.err = err]
  <2>1. Bodied(n, s, rec)
    BY <1>4, Returns DEF Reject
  <2>2. Checked(n, s, rec)
    BY <1>0, <1>4 DEF Checked, Reject, States
  <2> HIDE DEF s
  <2> QED
    BY <2>1, <2>2 DEF SqlReturn
<1>5. CASE SecurityBody
  <2>1. <<"security_validate_sql", "security">> \in Checks
          /\ "security" \in Validators
    BY DEF Checks, Validators
  <2> QED
    BY <1>3, <1>4, <1>5, <2>1 DEF SecurityBody
<1>6. CASE DatabaseBody
  <2>1. <<"database_validate_sql", "database">> \in Checks
          /\ "database" \in Validators
    BY DEF Checks, Validators
  <2> QED
    BY <1>3, <1>4, <1>6, <2>1 DEF DatabaseBody
<1>7. CASE CostBody
  <2>1. <<"evaluate_sql_cost", "cost">> \in Checks /\ "cost" \in Validators
    BY DEF Checks, Validators
  <2> QED
    <3>1. CASE Accept("evaluate_sql_cost", "cost", st, TRUE)
      <4> DEFINE s == [st EXCEPT !.err = "none"]
      <4>1. Bodied("evaluate_sql_cost", s, TRUE)
        BY <3>1, Returns DEF Accept
      <4>2. Checked("evaluate_sql_cost", s, TRUE)
        BY <1>0, <2>1, <3>1 DEF Checked, Accept, CurrentSql, States
      <4> HIDE DEF s
      <4> QED
        BY <4>1, <4>2 DEF SqlReturn
    <3>2. ASSUME NEW err \in {"retryable", "fatal"}, NEW rec,
                 Reject("evaluate_sql_cost", err, rec)
          PROVE  \E m, s, r : SqlReturn(m, s, r)
      BY <1>4, <2>1, <3>2
    <3> QED
      BY <1>7, <3>1, <3>2 DEF CostBody
<1>8. CASE ExecuteBody
  <2>1. CASE Return("execute_sql", [st EXCEPT !.result = CurrentSql(st),
               !.err = "none"], FALSE)
    <3> DEFINE s == [st EXCEPT !.result = CurrentSql(st), !.err = "none"]
    <3>1. Bodied("execute_sql", s, FALSE)
      BY <2>1, Returns
    <3>2. Executed("execute_sql", s)
      BY <1>0, <1>8 DEF Executed, ExecuteBody, States
    <3> HIDE DEF s
    <3> QED
      BY <3>1, <3>2 DEF SqlReturn
  <2>2. ASSUME NEW err \in {"retryable", "fatal"}, Return("execute_sql",
                 [st EXCEPT !.err = err], TRUE)
        PROVE  \E m, s, r : SqlReturn(m, s, r)
    <3> DEFINE s == [st EXCEPT !.err = err]
    <3>1. Bodied("execute_sql", s, TRUE)
      BY <2>2, Returns
    <3>2. Executed("execute_sql", s)
      BY <1>0, <1>8, <2>2 DEF Executed, ExecuteBody, States
    <3> HIDE DEF s
    <3> QED
      BY <3>1, <3>2 DEF SqlReturn
  <2> QED
    BY <1>8, <2>1, <2>2 DEF ExecuteBody
<1>9. CASE SummarizeBody
  <2> DEFINE s == [st EXCEPT !.summary = st.result]
  <2>1. Bodied("summarize_result", s, TRUE)
    BY <1>9, Returns DEF SummarizeBody
  <2>2. Told("summarize_result", s)
    BY <1>0, <1>9 DEF SummarizeBody, Told, States
  <2> HIDE DEF s
  <2> QED
    BY <2>1, <2>2 DEF SqlReturn
<1>10. CASE InterpretBody
  <2>1. Bodied("interpret_result", st, TRUE)
    BY <1>10, Returns DEF InterpretBody
  <2>2. Told("interpret_result", st)
    BY <1>10 DEF InterpretBody, Told
  <2> QED
    BY <2>1, <2>2 DEF SqlReturn
<1> QED
  BY <1>1, <1>2, <1>5, <1>6, <1>7, <1>8, <1>9, <1>10 DEF SqlBody

(* The SQL nodes write none of the data nodes' keys.                        *)
LEMMA SqlKeepsHave ==
  ASSUME NEW n, NEW s, NEW rec, SqlReturn(n, s, rec)
  PROVE  n \notin DataNodes /\ s.have = st.have
BY DEF SqlReturn, Written, Checked, Executed, Told, Checks, DataNodes, Recalls,
   Filters

(* A body that takes a step was running.                                    *)
LEMMA BodyRuns ==
  ASSUME SqlBody \/ \E n \in Nodes : DataBody(n)
  PROVE  \E n \in DOMAIN act : act[n].pc = "body"
BY DEF SqlBody, DataBody, GenerateBody, CorrectBody, SecurityBody,
   DatabaseBody,
       CostBody, ExecuteBody, SummarizeBody, InterpretBody, Accept, Reject,
         Return, At

(* How a superstep may end: with the graph, or with a next superstep that   *)
(* has the merged state; the SQL nodes follow one another one by one.       *)
EndOf(s, next) ==
  \/ run' = "unwinding"
  \/ /\ act' = Fresh(next, s) /\ run' = run
     /\ \/ /\ DOMAIN act \subseteq DataNodes
           /\ next \subseteq DataNodes \cup {"generate_sql"}
           /\ \/ s.norm = st.norm /\ s.retry = st.retry
              \/ \E m \in DOMAIN act : s = act[m].out
        \/ \E m \in DOMAIN act :
             /\ DOMAIN act = {m} /\ s = act[m].out
             /\ \/ m \in {"generate_sql", "correct_sql"}
                     /\ next = {"security_validate_sql"}
                \/ \E e \in Validated : /\ m = e[1]
                                        /\ \/ s.err = "none" /\ next = {e[2]}
                                           \/ next = {"correct_sql"}
                \/ m = "summarize_result" /\ next = {"interpret_result"}
  \/ /\ act' = act /\ run' = "drained"
     /\ DOMAIN act = {"interpret_result"} /\ s = act["interpret_result"].out

(* The end of a superstep is one of these.                                  *)
LEMMA EndKinds ==
  ASSUME TypeInv, NEW s, s = Merged(DOMAIN act), NEW next,
    next = NextNodes(DOMAIN act, s),
         Ends(s, next)
  PROVE  EndOf(s, next)
<1>1. Superstep(DOMAIN act) /\ ~Over /\ s \in States
  BY DEF TypeInv, Ends, Over
<1>2. /\ \A n \in DOMAIN act : DOMAIN act = {n} => s = act[n].out
      /\ DOMAIN act \in {Recalls, Filters} => s.norm = st.norm
           /\ s.retry = st.retry
  <2>1. LET t ==
          [st EXCEPT !.have = UNION {act[n].out.have : n \in DOMAIN act}] IN
        t.norm = st.norm /\ t.retry = st.retry
    BY DEF TypeInv, States
  <2> QED
    BY <1>1, <2>1, MergedOutputs
<1>3. \/ s.norm = st.norm /\ s.retry = st.retry
      \/ \E m \in DOMAIN act : s = act[m].out
  BY <1>1, <1>2 DEF Superstep
<1>4. \/ DataRoute(DOMAIN act, next)
      \/ \E m \in {"generate_sql", "correct_sql"} : DOMAIN act = {m}
           /\ next = {"security_validate_sql"}
      \/ \E e \in Validated : DOMAIN act = {e[1]} /\ Judged(e, s, next)
      \/ DOMAIN act = {"summarize_result"} /\ next = {"interpret_result"}
      \/ DOMAIN act = {"interpret_result"} /\ next = {}
  BY <1>1, Routes
<1>5. CASE DataRoute(DOMAIN act, next)
  <2>1. next # {} /\ "failed" \notin next
    BY <1>5, NodesOfStep DEF DataRoute, Nodes, DataNodes, SqlNodes, Recalls,
       Filters
  <2> QED
    BY <1>3, <1>5, <2>1 DEF DataRoute, Ends, EndOf
<1>6. ASSUME NEW m \in {"generate_sql", "correct_sql"}, DOMAIN act = {m},
               next = {"security_validate_sql"}
      PROVE  EndOf(s, next)
  BY <1>2, <1>6 DEF Ends, EndOf
<1>7. ASSUME NEW e \in Validated, DOMAIN act = {e[1]}, Judged(e, s, next)
      PROVE  EndOf(s, next)
  <2>1. next # {}
    BY <1>7 DEF Judged
  <2>2. CASE next = {"failed"}
    BY <2>2 DEF Ends, EndOf
  <2>3. CASE next # {"failed"}
    <3>1. /\ act' = Fresh(next, s) /\ run' = run
          /\ \/ s.err = "none" /\ next = {e[2]}
             \/ next = {"correct_sql"}
      BY <1>7, <2>1, <2>3 DEF Ends, Judged
    <3> QED
      BY <1>2, <1>7, <3>1 DEF EndOf
  <2> QED
    BY <2>2, <2>3
<1>8. CASE DOMAIN act = {"summarize_result"} /\ next = {"interpret_result"}
  BY <1>2, <1>8 DEF Ends, EndOf
<1>9. CASE DOMAIN act = {"interpret_result"} /\ next = {}
  BY <1>2, <1>9, NodesOfStep DEF Ends, EndOf
<1> QED
  BY <1>4, <1>5, <1>6, <1>7, <1>8, <1>9

-----------------------------------------------------------------------------
(* The status after a terminal write is the new one unless the script       *)
(* refused.                                                                 *)
LEMMA MarkedStatus ==
  ASSUME NEW status
  PROVE  Marked(status).status = IF MayReplace(cp.status,
    status) THEN status ELSE cp.status
BY DEF Marked, NoRecord

(* No task is left when nothing runs.                                       *)
LEMMA NothingLeft ==
  ASSUME NothingRuns
  PROVE  DOMAIN act' = {}
BY DEF NothingRuns, Fresh

(* Tasks that have not begun.                                               *)
LEMMA FreshEffect ==
  ASSUME NEW F, NEW s, act' = Fresh(F, s)
  PROVE  /\ DOMAIN act' = F
         /\ \A n \in DOMAIN act' : /\ act'[n].pc = "enter" /\ act'[n].seen = {}
                                  /\ act'[n].out = s /\ act'[n].rec = FALSE
BY DEF Fresh

(* An attempt begins with extract_keywords.                                 *)
LEMMA StartFresh ==
  ASSUME Start
  PROVE  /\ DOMAIN act' = {"extract_keywords"}
         /\ \A n \in DOMAIN act' : /\ act'[n].pc = "enter" /\ act'[n].seen = {}
                                  /\ act'[n].out = st' /\ act'[n].rec = FALSE
<1>1. act' = Fresh({"extract_keywords"}, st')
  BY DEF Start
<1> QED
  BY <1>1, FreshEffect

(* What an attempt found when it began stays; only a new attempt changes    *)
(* it.                                                                      *)
LEMMA OneStartPerAttempt ==
  ASSUME TypeInv, [Next]_vars
  PROVE  IF Start \/ LeavesEarly
         THEN attempt' # attempt ELSE startedOn' = startedOn
<1>1. CASE Start \/ LeavesEarly
  <2>1. attempt \in Int /\ attempt' = attempt + 1
    BY <1>1 DEF Start, LeavesEarly, Begin, TypeInv
  <2> QED
    BY <1>1, <2>1
<1> SUFFICES ASSUME ~Start, ~LeavesEarly PROVE startedOn' = startedOn
  BY <1>1
<1>2. CASE SqlBody
  BY <1>2 DEF SqlBody, GenerateBody, CorrectBody, SecurityBody, DatabaseBody,
     CostBody,
     ExecuteBody, SummarizeBody, InterpretBody, Accept, Reject, Return
<1>3. CASE \E n \in Nodes : Guarded(n) \/ DataBody(n) \/ NodeCancelled(n)
  BY <1>3 DEF Guarded, DataBody, Return, NodeCancelled
<1> QED
  BY <1>1, <1>2, <1>3, StepKinds
     DEF Halts, Ends, QueryDone, TotalTimeout, Unwound, ReportCutShort,
         Crash, Expire, vars
=============================================================================
