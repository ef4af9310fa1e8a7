------------------------- MODULE MetadataSyncProofs -------------------------
(***************************************************************************)
(* Proofs about MetadataSync for every set of columns, metrics and         *)
(* configurations, every warehouse and any number of jobs: what the        *)
(* builder commits to the metadata database hangs together at every        *)
(* moment, whatever fails; no store ever holds two items with one id; and  *)
(* after a sync that succeeded the stores hold what the file says.         *)
(***************************************************************************)
EXTENDS MetadataSync, FiniteSetTheorems, TLAPS

Commits == {Call("commit", "columns"), Call("commit", "metrics")}
Others == [op: Ops \ {"commit"}, on: Stores \cup SUBSET Columns]
Calls == Commits \cup Others

MetaRows == [tables: SUBSET {TableOf[c] : c \in Columns},
             columns: SUBSET Columns, metrics: SUBSET Metrics,
             refs: SUBSET (Columns \X Metrics)]

(* A job is a record whose plan is a sequence of calls; while it writes     *)
(* items, its next call is no commit.                                       *)
JobInv ==
  /\ DOMAIN job = {"plan", "todo", "cfg", "opts", "disturbed"}
  /\ job.plan \in Seq(Calls)
  /\ job.todo # {} => job.plan # <<>> /\ Head(job.plan).op # "commit"
  /\ job.plan # <<>> => job.cfg \in Configs

(* The metrics are only committed after the columns, or where those are     *)
(* there already.                                                           *)
TablesFirst ==
  \A k \in 1..Len(job.plan) : job.plan[k] = Call("commit", "metrics") =>
    \/ job.cfg.columns \subseteq meta.columns
    \/ \E n \in 1..(k - 1) : job.plan[n] = Call("commit", "columns")

BuildInv ==
  /\ config \in Configs
  /\ meta \in MetaRows
  /\ JobInv
  /\ TablesFirst

LEMMA NoJobInv ==
  ASSUME job = NoJob
  PROVE  JobInv /\ TablesFirst
<1>1. /\ DOMAIN job = {"plan", "todo", "cfg", "opts", "disturbed"}
      /\ job.plan = <<>> /\ job.todo = {}
  BY DEF NoJob
<1> QED
  BY <1>1 DEF JobInv, TablesFirst

LEMMA EnumerationTyped ==
  ASSUME NEW set \in SUBSET Columns
  PROVE  /\ Cardinality(set) \in Nat
         /\ \A k \in 1..Cardinality(set) : InSomeOrder(set)[k] \in set
<1>1. IsFiniteSet(set)
  BY ColumnsAssumption, FS_Subset
<1>2. Cardinality(set) \in Nat /\ ExistsBijection(1..Cardinality(set), set)
  BY <1>1, FS_CardinalityType
<1>3. PICK f \in Bijection(1..Cardinality(set), set) : TRUE
  BY <1>2 DEF ExistsBijection
<1>4. /\ f \in [1..Cardinality(set) -> set]
      /\ \A i, j \in DOMAIN f : i # j => f[i] # f[j]
  BY <1>3 DEF Bijection, Injection, Surjection, IsInjective
<1>5. InSomeOrder(set) \in [1..Cardinality(set) -> set]
  BY <1>4 DEF InSomeOrder
<1> QED
  BY <1>2, <1>5

LEMMA SyncPlanTyped ==
  ASSUME NEW cfg \in Configs, NEW opts
  PROVE  QdrantPlan(opts) \o EsPlan(cfg, opts) \in Seq(Others)
<1>1. ASSUME NEW s \in Stores PROVE Prepared(s, opts) \in Seq(Others)
  <2>1. Call("drop", s) \in Others /\ Call("create", s) \in Others
    BY DEF Others, Call, Ops
  <2> QED BY <2>1 DEF Prepared
<1>2. QdrantPlan(opts) \in Seq(Others)
  <2>1. <<Call("points", "columns"), Call("points", "metrics")>> \in Seq(Others)
    BY DEF Others, Call, Ops, Stores
  <2>2. Prepared("columns", opts) \in Seq(Others) /\ Prepared("metrics", opts) \in Seq(Others)
    BY <1>1 DEF Stores
  <2> QED BY <2>1, <2>2 DEF QdrantPlan
<1>3. EsPlan(cfg, opts) \in Seq(Others)
  <2> DEFINE V == Visible(cfg)
             reads == [k \in 1..Cardinality(V) |-> Call("read", {InSomeOrder(V)[k]})]
  <2>1. V \in SUBSET Columns
    BY ConfigsAssumption DEF ValidConfig, Visible
  <2>2. Cardinality(V) \in Nat
    BY <2>1, EnumerationTyped
  <2>3. ASSUME NEW k \in 1..Cardinality(V)
        PROVE  Call("read", {InSomeOrder(V)[k]}) \in Others
    <3>1. InSomeOrder(V)[k] \in Columns
      BY <2>1, EnumerationTyped
    <3> QED
      BY <3>1 DEF Others, Call, Ops
  <2>4. reads \in Seq(Others)
    <3>1. reads \in [1..Cardinality(V) -> Others]
      BY <2>3
    <3> HIDE DEF reads, V
    <3> QED BY <2>2, <3>1
  <2>5. Prepared("values", opts) \in Seq(Others)
    BY <1>1 DEF Stores
  <2> QED
    BY <2>4, <2>5 DEF EsPlan
<1> QED
  BY <1>2, <1>3

LEMMA TailTyped ==
  ASSUME NEW plan \in Seq(Calls), plan # <<>>
  PROVE  /\ Tail(plan) \in Seq(Calls)
         /\ Len(Tail(plan)) = Len(plan) - 1
         /\ \A k \in 1..Len(Tail(plan)) : Tail(plan)[k] = plan[k + 1]
OBVIOUS

(* The next call is done: the commit of the columns was not lost with it.   *)
LEMMA CallDone ==
  ASSUME JobInv, TablesFirst, job.plan # <<>>,
         DOMAIN job' = DOMAIN job, job'.plan = Tail(job.plan), job'.todo = {},
         job'.cfg = job.cfg, meta.columns \subseteq meta'.columns,
         job.plan[1] = Call("commit", "columns") => job.cfg.columns \subseteq meta'.columns
  PROVE  JobInv' /\ TablesFirst'
<1>1. /\ job'.plan \in Seq(Calls)
      /\ Len(job'.plan) = Len(job.plan) - 1 /\ Len(job.plan) \in Nat
      /\ \A k \in 1..Len(job'.plan) : job'.plan[k] = job.plan[k + 1]
  BY TailTyped DEF JobInv
<1>2. JobInv'
  BY <1>1 DEF JobInv
<1>3. ASSUME NEW k \in 1..Len(job'.plan), job'.plan[k] = Call("commit", "metrics"),
             ~(job'.cfg.columns \subseteq meta'.columns)
      PROVE  \E n \in 1..(k - 1) : job'.plan[n] = Call("commit", "columns")
  <2>1. k + 1 \in 1..Len(job.plan) /\ job.plan[k + 1] = Call("commit", "metrics")
    BY <1>1, <1>3
  <2>2. PICK n \in 1..k : job.plan[n] = Call("commit", "columns")
    BY <2>1, <1>3 DEF TablesFirst
  <2>3. n # 1
    BY <2>2, <1>3
  <2>4. n - 1 \in 1..(k - 1) /\ n - 1 \in 1..Len(job'.plan)
    BY <2>2, <2>3, <1>1, <1>3
  <2>5. job'.plan[n - 1] = job.plan[n]
    BY <2>4, <2>2, <1>1
  <2> QED
    BY <2>2, <2>4, <2>5
<1> QED
  BY <1>2, <1>3 DEF TablesFirst

(* A job goes on with the same plan. *)
LEMMA PlanKept ==
  ASSUME JobInv, TablesFirst, meta' = meta, DOMAIN job' = DOMAIN job,
         job'.plan = job.plan, job'.cfg = job.cfg,
         job'.todo # {} => job.plan # <<>> /\ Head(job.plan).op # "commit"
  PROVE  JobInv' /\ TablesFirst'
BY DEF JobInv, TablesFirst

(* A call without anything to write is done.                                *)
LEMMA CallSkipped ==
  ASSUME JobInv, TablesFirst, job.plan # <<>>, job.todo = {}, meta' = meta,
         Head(job.plan).op # "commit", job' = Next1
  PROVE  JobInv' /\ TablesFirst'
<1>1. /\ DOMAIN job' = DOMAIN job /\ job'.plan = Tail(job.plan) /\ job'.todo = {}
      /\ job'.cfg = job.cfg
  BY DEF Next1, JobInv
<1>2. job.plan[1] # Call("commit", "columns")
  BY DEF JobInv, Call
<1> QED
  BY <1>1, <1>2, CallDone

LEMMA BuildPlanTyped ==
  ASSUME NEW cfg \in Configs
  PROVE  LET plan == BuildPlan(cfg) IN
         /\ plan \in Seq(Calls) /\ plan[1] = Call("commit", "columns")
         /\ plan # <<>> /\ Len(plan) = 8
         /\ \A k \in 1..8 : plan[k] = Call("commit", "metrics") => k = 6
<1>1. cfg.synced \in SUBSET Columns
  BY ConfigsAssumption DEF ValidConfig
<1>2. Call("read", cfg.synced) \in Calls
  BY <1>1 DEF Calls, Others, Call, Ops
<1>3. /\ Call("commit", "columns") \in Calls /\ Call("commit", "metrics") \in Calls
  BY DEF Calls, Commits
<1>4. ASSUME NEW s \in Stores
      PROVE  Call("create", s) \in Calls /\ Call("points", s) \in Calls
  BY DEF Calls, Others, Call, Ops
<1>5. BuildPlan(cfg) \in Seq(Calls)
  <2>1. \A s \in {"columns", "metrics", "values"} :
          Call("create", s) \in Calls /\ Call("points", s) \in Calls
    BY <1>4 DEF Stores
  <2> QED
    BY <1>2, <1>3, <2>1 DEF BuildPlan
<1>6. /\ BuildPlan(cfg)[1] = Call("commit", "columns") /\ Len(BuildPlan(cfg)) = 8
      /\ BuildPlan(cfg) # <<>>
  BY DEF BuildPlan
<1>7. ASSUME NEW k \in 1..8, BuildPlan(cfg)[k] = Call("commit", "metrics") PROVE k = 6
  <2>1. k = 1 \/ k = 2 \/ k = 3 \/ k = 4 \/ k = 5 \/ k = 6 \/ k = 7 \/ k = 8
    OBVIOUS
  <2> QED
    BY <1>7, <2>1 DEF BuildPlan, Call
<1> QED
  BY <1>5, <1>6, <1>7

LEMMA BuildInvariant == Spec => []BuildInv
<1>1. Init => BuildInv
  <2> SUFFICES ASSUME Init PROVE BuildInv
    OBVIOUS
  <2>1. JobInv /\ TablesFirst
    BY NoJobInv DEF Init
  <2> QED
    BY <2>1 DEF Init, BuildInv, MetaRows
<1>2. BuildInv /\ [Next]_vars => BuildInv'
  <2> SUFFICES ASSUME BuildInv, [Next]_vars PROVE BuildInv'
    OBVIOUS
  <2>0. config \in Configs /\ meta \in MetaRows /\ JobInv /\ TablesFirst
    BY DEF BuildInv
  <2>1. ASSUME JobInv' /\ TablesFirst', config' \in Configs, meta' \in MetaRows
        PROVE  BuildInv'
    BY <2>1 DEF BuildInv
  <2>2. ASSUME job' = NoJob, config' = config, meta' = meta PROVE BuildInv'
    <3>1. JobInv' /\ TablesFirst'
      <4>1. /\ DOMAIN job' = {"plan", "todo", "cfg", "opts", "disturbed"}
            /\ job'.plan = <<>> /\ job'.todo = {}
        BY <2>2 DEF NoJob
      <4> QED
        BY <4>1 DEF JobInv, TablesFirst
    <3> QED BY <2>0, <2>1, <2>2, <3>1
  <2>3. ASSUME NEW opts \in SyncOptions, StartSync(opts) PROVE BuildInv'
    <3> DEFINE plan == QdrantPlan(opts) \o EsPlan(config, opts)
    <3>1. plan \in Seq(Others)
      BY <2>0, SyncPlanTyped
    <3>2. /\ DOMAIN job' = {"plan", "todo", "cfg", "opts", "disturbed"}
          /\ job'.plan = plan /\ job'.todo = {} /\ job'.cfg = config
          /\ config' = config /\ meta' = meta
      BY <2>3 DEF StartSync, NoJob
    <3> HIDE DEF plan
    <3>3. plan \in Seq(Calls)
      BY <3>1 DEF Calls
    <3>4. ASSUME NEW k \in 1..Len(plan) PROVE plan[k] # Call("commit", "metrics")
      <4>1. plan[k] \in Others
        BY <3>1
      <4>2. plan[k].op # "commit"
        BY <4>1 DEF Others
      <4> QED BY <4>2 DEF Call
    <3>5. JobInv' /\ TablesFirst'
      BY <2>0, <3>2, <3>3, <3>4 DEF JobInv, TablesFirst
    <3> QED BY <2>0, <2>1, <3>2, <3>5
  <2>4. CASE StartBuild
    <3> DEFINE plan == BuildPlan(config)
    <3>1. /\ DOMAIN job' = {"plan", "todo", "cfg", "opts", "disturbed"}
          /\ job'.plan = plan /\ job'.todo = {} /\ job'.cfg = config
          /\ config' = config /\ meta' = meta
      BY <2>4 DEF StartBuild, NoJob
    <3>2. plan \in Seq(Calls) /\ plan[1] = Call("commit", "columns")
          /\ plan # <<>> /\ Len(plan) = 8
          /\ \A k \in 1..8 : plan[k] = Call("commit", "metrics") => k = 6
      BY <2>0, BuildPlanTyped
    <3> HIDE DEF plan
    <3>3. JobInv'
      BY <2>0, <3>1, <3>2 DEF JobInv
    <3>4. TablesFirst'
      BY <3>1, <3>2 DEF TablesFirst
    <3> QED BY <2>0, <2>1, <3>1, <3>3, <3>4
  <2>5. CASE Drop \/ Create
    <3>1. /\ job.plan # <<>> /\ job.todo = {} /\ Head(job.plan).op # "commit"
          /\ job' = Next1 /\ meta' = meta /\ config' = config
      BY <2>5 DEF Drop, Create, Busy, Outside
    <3>2. /\ DOMAIN job' = DOMAIN job /\ job'.plan = Tail(job.plan) /\ job'.todo = {}
          /\ job'.cfg = job.cfg
      BY <2>0, <3>1 DEF Next1, JobInv
    <3>3. job.plan[1] # Call("commit", "columns")
      BY <2>0, <3>1 DEF JobInv, Call
    <3>4. JobInv' /\ TablesFirst'
      BY <2>0, <3>1, <3>2, <3>3, CallDone
    <3> QED BY <2>0, <2>1, <3>1, <3>4
  <2>6. CASE Points
    <3>1. /\ job.plan # <<>> /\ Head(job.plan).op # "commit"
          /\ meta' = meta /\ config' = config
      BY <2>6 DEF Points, Busy, Outside
    <3>2. /\ DOMAIN job' = DOMAIN job /\ job'.plan = job.plan /\ job'.cfg = job.cfg
      BY <2>0, <2>6 DEF Points, JobInv
    <3>3. JobInv' /\ TablesFirst'
      BY <2>0, <3>1, <3>2, PlanKept
    <3> QED BY <2>0, <2>1, <3>1, <3>3
  <2>7. CASE ReadValues
    <3>1. /\ job.plan # <<>> /\ job.todo = {} /\ Head(job.plan).op # "commit"
          /\ meta' = meta /\ config' = config
      BY <2>7 DEF ReadValues, Busy, Outside
    <3>2. job' = Next1 \/ \E docs : job' = [job EXCEPT !.todo = docs]
      BY <2>7 DEF ReadValues
    <3>3. CASE job' = Next1
      BY <2>0, <2>1, <3>1, <3>3, CallSkipped
    <3>4. ASSUME NEW docs, job' = [job EXCEPT !.todo = docs] PROVE BuildInv'
      <4>1. /\ DOMAIN job' = DOMAIN job /\ job'.plan = job.plan /\ job'.cfg = job.cfg
        BY <2>0, <3>4 DEF JobInv
      <4>2. JobInv' /\ TablesFirst'
        BY <2>0, <3>1, <4>1, PlanKept
      <4> QED BY <2>0, <2>1, <3>1, <4>2
    <3> QED BY <3>2, <3>3, <3>4
  <2>8. CASE WriteBatch
    <3>1. /\ job.plan # <<>> /\ Head(job.plan).op # "commit"
          /\ meta' = meta /\ config' = config
      BY <2>0, <2>8 DEF WriteBatch, Outside, JobInv
    <3>2. job' = [Next1 EXCEPT !.todo = {}] \/ \E docs : job' = [job EXCEPT !.todo = docs]
      BY <2>8 DEF WriteBatch
    <3>3. CASE job' = [Next1 EXCEPT !.todo = {}]
      <4>1. /\ DOMAIN job' = DOMAIN job /\ job'.plan = Tail(job.plan)
            /\ job'.todo = {} /\ job'.cfg = job.cfg
        BY <2>0, <3>3 DEF Next1, JobInv
      <4>2. job.plan[1] # Call("commit", "columns")
        BY <2>0, <3>1 DEF JobInv, Call
      <4>3. JobInv' /\ TablesFirst'
        BY <2>0, <3>1, <4>1, <4>2, CallDone
      <4> QED BY <2>0, <2>1, <3>1, <4>3
    <3>4. ASSUME NEW docs, job' = [job EXCEPT !.todo = docs] PROVE BuildInv'
      <4>1. /\ DOMAIN job' = DOMAIN job /\ job'.plan = job.plan /\ job'.cfg = job.cfg
        BY <2>0, <3>4 DEF JobInv
      <4>2. JobInv' /\ TablesFirst'
        BY <2>0, <3>1, <4>1, PlanKept
      <4> QED BY <2>0, <2>1, <3>1, <4>2
    <3> QED BY <3>2, <3>3, <3>4
  <2>9. CASE Commit
    <3>1. /\ job.plan # <<>> /\ job.todo = {} /\ Head(job.plan).op = "commit"
          /\ config' = config
      BY <2>9 DEF Commit, Busy, Outside
    <3>2. CASE Clashes(On, job.cfg)
      BY <2>2, <2>9, <3>1, <3>2 DEF Commit
    <3>3. CASE ~Clashes(On, job.cfg)
      <4>1. /\ job' = Next1
            /\ meta' = IF On = "columns" THEN MetaAfterTables(job.cfg)
                       ELSE MetaAfterMetrics(job.cfg)
        BY <2>9, <3>3 DEF Commit
      <4>2. ValidConfig(job.cfg)
        BY <2>0, <3>1, ConfigsAssumption DEF JobInv
      <4>3. /\ meta' \in MetaRows
            /\ meta.columns \subseteq meta'.columns
            /\ On = "columns" => job.cfg.columns \subseteq meta'.columns
        <5>1. CASE On = "columns"
          BY <2>0, <4>1, <4>2, <5>1 DEF MetaAfterTables, MetaRows, ValidConfig
        <5>2. CASE On # "columns"
          BY <2>0, <4>1, <4>2, <5>2 DEF MetaAfterMetrics, MetaRows, ValidConfig
        <5> QED BY <5>1, <5>2
      <4>4. /\ DOMAIN job' = DOMAIN job /\ job'.plan = Tail(job.plan) /\ job'.todo = {}
            /\ job'.cfg = job.cfg
        BY <2>0, <3>1, <4>1 DEF Next1, JobInv
      <4>5. job.plan[1] = Call("commit", "columns") => On = "columns"
        BY <2>0, <3>1 DEF JobInv, Call, On
      <4>6. JobInv' /\ TablesFirst'
        BY <2>0, <3>1, <4>3, <4>4, <4>5, CallDone
      <4> QED BY <2>0, <2>1, <3>1, <4>3, <4>6
    <3> QED BY <3>2, <3>3
  <2>10. CASE BulkErrors \/ Fail \/ Finish
    BY <2>2, <2>10 DEF BulkErrors, Fail, Finish, Outside
  <2>11. CASE Change
    <3>1. meta' = meta /\ config' \in Configs
      BY <2>0, <2>11 DEF Change
    <3>2. /\ DOMAIN job' = DOMAIN job /\ job'.plan = job.plan
          /\ job'.cfg = job.cfg /\ job'.todo = job.todo
      BY <2>0, <2>11 DEF Change, JobInv
    <3>3. JobInv' /\ TablesFirst'
      BY <2>0, <3>1, <3>2 DEF JobInv, TablesFirst
    <3> QED BY <2>0, <2>1, <3>1, <3>3
  <2>12. CASE UNCHANGED vars
    BY <2>0, <2>12 DEF vars, BuildInv, JobInv, TablesFirst
  <2> QED
    BY <2>3, <2>4, <2>5, <2>6, <2>7, <2>8, <2>9, <2>10, <2>11, <2>12 DEF Next
<1> QED
  BY <1>1, <1>2, PTL DEF Spec

(* The metadata database hangs together at every moment of every run, also  *)
(* after builds that failed between their two transactions or met the rows  *)
(* of an earlier one (MetaKnowledgeService.build).                          *)
THEOREM MetaHolds == Spec => []MetaConsistent
<1>1. Init => MetaConsistent
  BY DEF Init, MetaConsistent
<1>2. BuildInv /\ MetaConsistent /\ [Next]_vars => MetaConsistent'
  <2> SUFFICES ASSUME BuildInv, MetaConsistent, [Next]_vars PROVE MetaConsistent'
    OBVIOUS
  <2>0. meta \in MetaRows /\ JobInv /\ TablesFirst
    BY DEF BuildInv
  <2>1. ASSUME meta' = meta PROVE MetaConsistent'
    BY <2>1 DEF MetaConsistent
  <2>2. CASE Commit /\ meta' # meta
    <3>1. job.plan # <<>> /\ Head(job.plan).op = "commit"
      BY <2>2 DEF Commit, Busy
    <3>2. Head(job.plan) \in Commits
      <4>1. Head(job.plan) \in Calls
        BY <2>0, <3>1 DEF JobInv
      <4> QED
        BY <3>1, <4>1 DEF Calls, Others
    <3>3. meta' = IF On = "columns" THEN MetaAfterTables(job.cfg)
                  ELSE MetaAfterMetrics(job.cfg)
      BY <2>2 DEF Commit
    <3>4. ValidConfig(job.cfg)
      BY <2>0, <3>1, ConfigsAssumption DEF JobInv
    <3>5. CASE On = "columns"
      <4>1. /\ meta'.tables = meta.tables \cup {TableOf[c] : c \in job.cfg.columns}
            /\ meta'.columns = meta.columns \cup job.cfg.columns
            /\ meta'.metrics = meta.metrics /\ meta'.refs = meta.refs
        BY <2>0, <3>3, <3>5 DEF MetaAfterTables, MetaRows
      <4> QED
        BY <4>1 DEF MetaConsistent
    <3>6. CASE On # "columns"
      <4>1. Head(job.plan) = Call("commit", "metrics")
        BY <3>2, <3>6 DEF Commits, Call, On
      <4>2. Len(job.plan) \in Nat /\ 1 \in 1..Len(job.plan) /\ job.plan[1] = Call("commit", "metrics")
        BY <2>0, <3>1, <4>1 DEF JobInv
      <4>3. job.cfg.columns \subseteq meta.columns
        BY <2>0, <4>2 DEF TablesFirst
      <4>4. /\ meta'.metrics = meta.metrics \cup job.cfg.metrics
            /\ meta'.refs = meta.refs \cup {r \in Columns \X job.cfg.metrics :
                                              r[1] \in job.cfg.relevant[r[2]]}
            /\ meta'.tables = meta.tables /\ meta'.columns = meta.columns
        BY <2>0, <3>3, <3>6 DEF MetaAfterMetrics, MetaRows
      <4>5. \A ref \in meta'.refs : ref[1] \in meta'.columns /\ ref[2] \in meta'.metrics
        <5>1. ASSUME NEW ref \in Columns \X job.cfg.metrics,
                     ref[1] \in job.cfg.relevant[ref[2]]
              PROVE  ref[1] \in meta.columns /\ ref[2] \in job.cfg.metrics
          BY <3>4, <4>3, <5>1 DEF ValidConfig
        <5> QED
          BY <4>4, <5>1 DEF MetaConsistent
      <4>6. ASSUME NEW m \in meta'.metrics
            PROVE  \E c \in meta'.columns : <<c, m>> \in meta'.refs
        <5>1. CASE m \in meta.metrics
          BY <4>4, <5>1 DEF MetaConsistent
        <5>2. CASE m \in job.cfg.metrics
          <6>1. PICK c \in job.cfg.columns : c \in job.cfg.relevant[m]
            BY <3>4, <5>2 DEF ValidConfig
          <6>2. c \in Columns /\ c \in meta'.columns
            BY <3>4, <4>3, <4>4, <6>1 DEF ValidConfig
          <6>3. <<c, m>> \in Columns \X job.cfg.metrics
            BY <5>2, <6>2
          <6> QED
            BY <4>4, <6>1, <6>2, <6>3
        <5> QED
          BY <4>4, <5>1, <5>2
      <4> QED
        BY <4>4, <4>5, <4>6 DEF MetaConsistent
    <3> QED
      BY <3>5, <3>6
  <2>3. CASE Commit /\ meta' = meta
    BY <2>1, <2>3
  <2>4. CASE \E opts \in SyncOptions : StartSync(opts)
    BY <2>1, <2>4 DEF StartSync
  <2>5. CASE StartBuild \/ Drop \/ Create \/ Points \/ ReadValues
    BY <2>1, <2>5 DEF StartBuild, Drop, Create, Points, ReadValues
  <2>6. CASE WriteBatch \/ BulkErrors \/ Fail \/ Finish \/ Change
    BY <2>1, <2>6 DEF WriteBatch, BulkErrors, Fail, Finish, Change
  <2>7. CASE UNCHANGED vars
    BY <2>1, <2>7 DEF vars
  <2> QED
    BY <2>2, <2>3, <2>4, <2>5, <2>6, <2>7 DEF Next
<1> QED
  BY <1>1, <1>2, BuildInvariant, PTL DEF Spec

-----------------------------------------------------------------------------
(* What is left of a plan. *)

CallsOf(plan) == {plan[k] : k \in 1..Len(plan)}

(* The store that a call is about, and how far it goes there.               *)
About(call) == CASE call.op = "read" -> "values"
                 [] call.op = "commit" -> "meta"
                 [] OTHER -> call.on
Level(call) == CASE call.op = "drop" -> 1
                 [] call.op = "create" -> 2
                 [] OTHER -> 3

(* A store is dropped before it is created, and created before it is        *)
(* written.                                                                 *)
Ordered(plan) ==
  \A i, k \in 1..Len(plan) :
    i < k /\ About(plan[i]) = About(plan[k]) => Level(plan[i]) <= Level(plan[k])

LEMMA CallsOfConcat ==
  ASSUME NEW p \in Seq(Calls), NEW q \in Seq(Calls)
  PROVE  /\ p \o q \in Seq(Calls)
         /\ CallsOf(p \o q) = CallsOf(p) \cup CallsOf(q)
<1>1. /\ p \o q \in Seq(Calls) /\ Len(p \o q) = Len(p) + Len(q)
      /\ Len(p) \in Nat /\ Len(q) \in Nat
      /\ \A k \in 1..Len(p \o q) :
           (p \o q)[k] = IF k <= Len(p) THEN p[k] ELSE q[k - Len(p)]
  OBVIOUS
<1> DEFINE r == p \o q
<1> HIDE DEF r
<1>2. ASSUME NEW x \in CallsOf(r) PROVE x \in CallsOf(p) \cup CallsOf(q)
  <2>1. PICK k \in 1..Len(r) : x = r[k]
    BY DEF CallsOf
  <2>2. CASE k <= Len(p)
    BY <1>1, <2>1, <2>2 DEF CallsOf, r
  <2>3. CASE ~(k <= Len(p))
    <3>1. k - Len(p) \in 1..Len(q) /\ x = q[k - Len(p)]
      BY <1>1, <2>1, <2>3 DEF r
    <3> QED
      BY <3>1 DEF CallsOf
  <2> QED
    BY <2>2, <2>3
<1>3. ASSUME NEW x \in CallsOf(p) PROVE x \in CallsOf(r)
  BY <1>1 DEF CallsOf, r
<1>4. ASSUME NEW x \in CallsOf(q) PROVE x \in CallsOf(r)
  <2>1. PICK k \in 1..Len(q) : x = q[k]
    BY DEF CallsOf
  <2>2. /\ k + Len(p) \in 1..Len(r) /\ ~(k + Len(p) <= Len(p))
        /\ (k + Len(p)) - Len(p) = k
    BY <1>1, <2>1 DEF r
  <2>3. r[k + Len(p)] = x
    BY <1>1, <2>1, <2>2 DEF r
  <2> QED
    BY <2>2, <2>3 DEF CallsOf
<1> QED
  BY <1>1, <1>2, <1>3, <1>4 DEF r

LEMMA OrderedConcat ==
  ASSUME NEW p \in Seq(Calls), NEW q \in Seq(Calls), Ordered(p), Ordered(q),
         \A x \in CallsOf(p), y \in CallsOf(q) :
           About(x) = About(y) => Level(x) <= Level(y)
  PROVE  Ordered(p \o q)
<1>1. /\ Len(p \o q) = Len(p) + Len(q)
      /\ Len(p) \in Nat /\ Len(q) \in Nat
      /\ \A k \in 1..Len(p \o q) :
           (p \o q)[k] = IF k <= Len(p) THEN p[k] ELSE q[k - Len(p)]
  OBVIOUS
<1> DEFINE r == p \o q
<1> HIDE DEF r
<1>2. SUFFICES ASSUME NEW i \in 1..Len(r), NEW k \in 1..Len(r), i < k,
                      About(r[i]) = About(r[k])
               PROVE  Level(r[i]) <= Level(r[k])
  BY DEF Ordered, r
<1>3. CASE k <= Len(p)
  <2>1. i \in 1..Len(p) /\ k \in 1..Len(p) /\ r[i] = p[i] /\ r[k] = p[k]
    BY <1>1, <1>2, <1>3 DEF r
  <2> QED
    BY <1>2, <2>1 DEF Ordered
<1>4. CASE i > Len(p)
  <2>1. /\ i - Len(p) \in 1..Len(q) /\ k - Len(p) \in 1..Len(q)
        /\ i - Len(p) < k - Len(p)
        /\ r[i] = q[i - Len(p)] /\ r[k] = q[k - Len(p)]
    BY <1>1, <1>2, <1>4 DEF r
  <2> QED
    BY <1>2, <2>1 DEF Ordered
<1>5. CASE i <= Len(p) /\ k > Len(p)
  <2>1. /\ i \in 1..Len(p) /\ k - Len(p) \in 1..Len(q)
        /\ r[i] = p[i] /\ r[k] = q[k - Len(p)]
    BY <1>1, <1>2, <1>5 DEF r
  <2>2. r[i] \in CallsOf(p) /\ r[k] \in CallsOf(q)
    BY <2>1 DEF CallsOf
  <2> QED
    BY <1>2, <2>2
<1> QED
  BY <1>1, <1>3, <1>4, <1>5

(* The next call and the others.                                            *)
LEMMA NextCall ==
  ASSUME NEW plan \in Seq(Calls), plan # <<>>
  PROVE  /\ Tail(plan) \in Seq(Calls)
         /\ CallsOf(plan) = {Head(plan)} \cup CallsOf(Tail(plan))
         /\ Ordered(plan) =>
              /\ Ordered(Tail(plan))
              /\ \A x \in CallsOf(Tail(plan)) :
                   About(Head(plan)) = About(x) => Level(Head(plan)) <= Level(x)
<1> DEFINE rest == Tail(plan)
<1>1. /\ rest \in Seq(Calls)
      /\ Len(rest) = Len(plan) - 1
      /\ \A k \in 1..Len(rest) : rest[k] = plan[k + 1]
  BY TailTyped
<1>2. Len(plan) \in Nat \ {0} /\ Head(plan) = plan[1]
  OBVIOUS
<1> HIDE DEF rest
<1>3. ASSUME NEW x \in CallsOf(rest)
      PROVE  \E k \in 2..Len(plan) : x = plan[k]
  <2>1. PICK k \in 1..Len(rest) : x = rest[k]
    BY DEF CallsOf
  <2>2. k + 1 \in 2..Len(plan) /\ x = plan[k + 1]
    BY <1>1, <1>2, <2>1
  <2> QED
    BY <2>2
<1>4. ASSUME NEW x \in CallsOf(plan) PROVE x = Head(plan) \/ x \in CallsOf(rest)
  <2>1. PICK k \in 1..Len(plan) : x = plan[k]
    BY DEF CallsOf
  <2>2. CASE k = 1
    BY <1>2, <2>1, <2>2
  <2>3. CASE k # 1
    <3>1. k - 1 \in 1..Len(rest) /\ (k - 1) + 1 = k
      BY <1>1, <1>2, <2>1, <2>3
    <3>2. rest[k - 1] = x
      BY <1>1, <2>1, <3>1
    <3> QED
      BY <3>1, <3>2 DEF CallsOf
  <2> QED
    BY <2>2, <2>3
<1>5. Head(plan) \in CallsOf(plan) /\ CallsOf(rest) \subseteq CallsOf(plan)
  <2>1. 1 \in 1..Len(plan)
    BY <1>2
  <2>2. Head(plan) \in CallsOf(plan)
    BY <1>2, <2>1 DEF CallsOf
  <2>3. ASSUME NEW x \in CallsOf(rest) PROVE x \in CallsOf(plan)
    <3>1. PICK k \in 2..Len(plan) : x = plan[k]
      BY <1>3
    <3>2. k \in 1..Len(plan)
      BY <1>2, <3>1
    <3> QED
      BY <3>1, <3>2 DEF CallsOf
  <2> QED
    BY <2>2, <2>3
<1>6. ASSUME Ordered(plan) PROVE Ordered(rest)
  <2>1. ASSUME NEW i \in 1..Len(rest), NEW k \in 1..Len(rest), i < k
        PROVE  i + 1 \in 1..Len(plan) /\ k + 1 \in 1..Len(plan) /\ i + 1 < k + 1
    BY <1>1, <1>2, <2>1
  <2> QED
    BY <1>1, <1>6, <2>1 DEF Ordered
<1>7. ASSUME Ordered(plan), NEW x \in CallsOf(rest), About(Head(plan)) = About(x)
      PROVE  Level(Head(plan)) <= Level(x)
  <2>1. PICK k \in 2..Len(plan) : x = plan[k]
    BY <1>3
  <2>2. 1 \in 1..Len(plan) /\ k \in 1..Len(plan) /\ 1 < k
    BY <1>2, <2>1
  <2>3. About(plan[1]) = About(plan[k])
    BY <1>2, <1>7, <2>1
  <2>4. Level(plan[1]) <= Level(plan[k])
    BY <1>7, <2>2, <2>3 DEF Ordered
  <2> QED
    BY <1>2, <2>1, <2>4
<1> QED
  BY <1>1, <1>4, <1>5, <1>6, <1>7 DEF rest
-----------------------------------------------------------------------------
(* The plans. *)

LEMMA CallFacts ==
  ASSUME NEW s \in Stores
  PROVE  /\ Call("drop", s) \in Calls /\ Call("create", s) \in Calls
         /\ Call("points", s) \in Calls
         /\ About(Call("drop", s)) = s /\ Level(Call("drop", s)) = 1
         /\ About(Call("create", s)) = s /\ Level(Call("create", s)) = 2
         /\ About(Call("points", s)) = s /\ Level(Call("points", s)) = 3
BY DEF Call, Calls, Others, Ops, About, Level

LEMMA ReadFacts ==
  ASSUME NEW set \in SUBSET Columns
  PROVE  /\ Call("read", set) \in Calls
         /\ About(Call("read", set)) = "values" /\ Level(Call("read", set)) = 3
BY DEF Call, Calls, Others, Ops, About, Level

(* Whether a sync with these options drops the store.                       *)
Recreated(s, opts) ==
  (s = "values" /\ opts.index) \/ (s # "values" /\ opts.collections)

Preparing(s, opts) ==
  {Call("create", s)} \cup (IF Recreated(s, opts) THEN {Call("drop", s)} ELSE {})

LEMMA PairOfCalls ==
  ASSUME NEW x \in Calls, NEW y \in Calls
  PROVE  /\ <<x, y>> \in Seq(Calls) /\ CallsOf(<<x, y>>) = {x, y}
         /\ Ordered(<<x, y>>) <=> (About(x) = About(y) => Level(x) <= Level(y))
<1> DEFINE p == <<x, y>>
<1>1. p \in Seq(Calls) /\ Len(p) = 2 /\ p[1] = x /\ p[2] = y
  OBVIOUS
<1> HIDE DEF p
<1>2. 1..Len(p) = {1, 2} /\ 1 < 2 /\ ~(2 < 1) /\ ~(1 < 1) /\ ~(2 < 2)
  BY <1>1
<1> QED
  BY <1>1, <1>2 DEF CallsOf, Ordered, p

LEMMA OneCall ==
  ASSUME NEW x \in Calls
  PROVE  <<x>> \in Seq(Calls) /\ CallsOf(<<x>>) = {x} /\ Ordered(<<x>>)
<1> DEFINE p == <<x>>
<1>1. p \in Seq(Calls) /\ Len(p) = 1 /\ p[1] = x
  OBVIOUS
<1> HIDE DEF p
<1>2. 1..Len(p) = {1} /\ ~(1 < 1)
  BY <1>1
<1> QED
  BY <1>1, <1>2 DEF CallsOf, Ordered, p

LEMMA NoCalls == <<>> \in Seq(Calls) /\ CallsOf(<<>>) = {} /\ Ordered(<<>>)
BY DEF CallsOf, Ordered

LEMMA PreparedPlan ==
  ASSUME NEW s \in Stores, NEW opts
  PROVE  /\ Prepared(s, opts) \in Seq(Calls)
         /\ CallsOf(Prepared(s, opts)) = Preparing(s, opts)
         /\ Ordered(Prepared(s, opts))
<1>1. CASE Recreated(s, opts)
  <2>1. Prepared(s, opts) = <<Call("drop", s), Call("create", s)>>
    BY <1>1 DEF Recreated, Prepared
  <2>2. Preparing(s, opts) = {Call("drop", s), Call("create", s)}
    BY <1>1 DEF Preparing
  <2> QED
    BY <2>1, <2>2, CallFacts, PairOfCalls
<1>2. CASE ~Recreated(s, opts)
  <2>1. Prepared(s, opts) = <<Call("create", s)>>
    BY <1>2 DEF Recreated, Prepared
  <2>2. Preparing(s, opts) = {Call("create", s)}
    BY <1>2 DEF Preparing
  <2> QED
    BY <2>1, <2>2, CallFacts, OneCall
<1> QED
  BY <1>1, <1>2

LEMMA PreparingFacts ==
  ASSUME NEW s \in Stores, NEW opts, NEW x \in Preparing(s, opts)
  PROVE  About(x) = s /\ Level(x) <= 2
BY CallFacts DEF Preparing

QdrantCalls(opts) ==
  Preparing("columns", opts) \cup Preparing("metrics", opts)
    \cup {Call("points", "columns"), Call("points", "metrics")}

LEMMA QdrantPlanned ==
  ASSUME NEW opts
  PROVE  LET p == QdrantPlan(opts) IN
         /\ p \in Seq(Calls) /\ Ordered(p)
         /\ CallsOf(p) = IF "qdrant" \in opts.targets THEN QdrantCalls(opts) ELSE {}
<1>1. CASE "qdrant" \notin opts.targets
  BY <1>1, NoCalls DEF QdrantPlan
<1>2. CASE "qdrant" \in opts.targets
  <2> DEFINE a == Prepared("columns", opts)
             b == Prepared("metrics", opts)
             c == <<Call("points", "columns"), Call("points", "metrics")>>
  <2>1. "columns" \in Stores /\ "metrics" \in Stores
    BY DEF Stores
  <2>2. /\ a \in Seq(Calls) /\ CallsOf(a) = Preparing("columns", opts) /\ Ordered(a)
        /\ b \in Seq(Calls) /\ CallsOf(b) = Preparing("metrics", opts) /\ Ordered(b)
    BY <2>1, PreparedPlan
  <2>3. /\ c \in Seq(Calls) /\ Ordered(c)
        /\ CallsOf(c) = {Call("points", "columns"), Call("points", "metrics")}
    BY <2>1, CallFacts, PairOfCalls
  <2>4. QdrantPlan(opts) = (a \o b) \o c
    BY <1>2 DEF QdrantPlan
  <2> HIDE DEF a, b, c
  <2>5. \A x \in CallsOf(a), y \in CallsOf(b) : About(x) # About(y)
    BY <2>1, <2>2, PreparingFacts
  <2>6. /\ a \o b \in Seq(Calls) /\ Ordered(a \o b)
        /\ CallsOf(a \o b) = CallsOf(a) \cup CallsOf(b)
    BY <2>2, <2>5, CallsOfConcat, OrderedConcat
  <2>7. ASSUME NEW x \in CallsOf(a \o b), NEW y \in CallsOf(c)
        PROVE  Level(x) <= Level(y)
    <3>1. Level(y) = 3
      BY <2>1, <2>3, CallFacts
    <3>2. x \in Preparing("columns", opts) \/ x \in Preparing("metrics", opts)
      BY <2>2, <2>6
    <3>3. Level(x) \in {1, 2}
      BY <2>1, <3>2, CallFacts DEF Preparing
    <3> QED
      BY <3>1, <3>3
  <2> DEFINE ab == a \o b
  <2>8. /\ ab \in Seq(Calls) /\ Ordered(ab) /\ QdrantPlan(opts) = ab \o c
        /\ CallsOf(ab) = Preparing("columns", opts) \cup Preparing("metrics", opts)
        /\ \A x \in CallsOf(ab), y \in CallsOf(c) : Level(x) <= Level(y)
    BY <2>2, <2>4, <2>6, <2>7
  <2> HIDE DEF ab
  <2>9. ab \o c \in Seq(Calls) /\ CallsOf(ab \o c) = CallsOf(ab) \cup CallsOf(c)
    BY <2>3, <2>8, CallsOfConcat
  <2>10. Ordered(ab \o c)
    BY <2>3, <2>8, OrderedConcat
  <2>11. CallsOf(ab \o c) = QdrantCalls(opts)
    BY <2>3, <2>8, <2>9 DEF QdrantCalls
  <2> QED
    BY <1>2, <2>8, <2>9, <2>10, <2>11
<1> QED
  BY <1>1, <1>2

(* The columns are enumerated completely.                                   *)
LEMMA EnumerationComplete ==
  ASSUME NEW set \in SUBSET Columns, NEW c \in set
  PROVE  \E k \in 1..Cardinality(set) : InSomeOrder(set)[k] = c
<1> DEFINE n == Cardinality(set)
           f == InSomeOrder(set)
<1>1. IsFiniteSet(set)
  BY ColumnsAssumption, FS_Subset
<1>2. n \in Nat /\ ExistsBijection(1..n, set)
  BY <1>1, FS_CardinalityType
<1>3. \E g \in [1..n -> set] : \A i, j \in DOMAIN g : i # j => g[i] # g[j]
  <2>1. PICK g \in Bijection(1..n, set) : TRUE
    BY <1>2 DEF ExistsBijection
  <2>2. /\ g \in [1..n -> set]
        /\ \A i, j \in DOMAIN g : i # j => g[i] # g[j]
    BY <2>1 DEF Bijection, Injection, Surjection, IsInjective
  <2> QED
    BY <2>2
<1>4. f \in [1..n -> set] /\ \A i, j \in DOMAIN f : i # j => f[i] # f[j]
  BY <1>3 DEF InSomeOrder
<1> HIDE DEF f
<1>5. f \in Injection(1..n, set)
  BY <1>4 DEF Injection, IsInjective
<1>6. Cardinality(1..n) = n
  <2>1. Cardinality(1..n) = IF 1 > n THEN 0 ELSE n - 1 + 1
    BY <1>2, FS_Interval
  <2> QED
    BY <1>2, <2>1
<1>7. f \in Surjection(1..n, set)
  BY <1>1, <1>5, <1>6, FS_Injection
<1>8. \E k \in 1..n : f[k] = c
  BY <1>7 DEF Surjection
<1> QED
  BY <1>8 DEF f

ReadCalls(cfg) == {Call("read", {c}) : c \in Visible(cfg)}

LEMMA ReadsPlanned ==
  ASSUME NEW cfg \in Configs
  PROVE  LET reads == [k \in 1..Cardinality(Visible(cfg)) |->
                         Call("read", {InSomeOrder(Visible(cfg))[k]})] IN
         /\ reads \in Seq(Calls) /\ Ordered(reads)
         /\ CallsOf(reads) = ReadCalls(cfg)
<1> DEFINE V == Visible(cfg)
           n == Cardinality(V)
           reads == [k \in 1..n |-> Call("read", {InSomeOrder(V)[k]})]
<1>1. V \in SUBSET Columns
  BY ConfigsAssumption DEF ValidConfig, Visible
<1>2. n \in Nat /\ \A k \in 1..n : InSomeOrder(V)[k] \in V
  BY <1>1, EnumerationTyped
<1>3. \A c \in V : \E k \in 1..n : InSomeOrder(V)[k] = c
  BY <1>1, EnumerationComplete
<1> HIDE DEF n
<1>4. ASSUME NEW k \in 1..n
      PROVE  /\ reads[k] = Call("read", {InSomeOrder(V)[k]}) /\ reads[k] \in Calls
             /\ Level(reads[k]) = 3
  <2>1. reads[k] = Call("read", {InSomeOrder(V)[k]})
    OBVIOUS
  <2>2. {InSomeOrder(V)[k]} \in SUBSET Columns
    BY <1>1, <1>2
  <2> QED
    BY <2>1, <2>2, ReadFacts
<1>5. reads \in Seq(Calls) /\ Len(reads) = n
  <2>1. DOMAIN reads = 1..n /\ reads \in [1..n -> Calls]
    BY <1>4
  <2> HIDE DEF reads, V
  <2> QED
    BY <1>2, <2>1
<1> HIDE DEF reads
<1>6. Ordered(reads)
  <2>1. ASSUME NEW i \in 1..n, NEW k \in 1..n
        PROVE  Level(reads[i]) <= Level(reads[k])
    <3>1. Level(reads[i]) = 3 /\ Level(reads[k]) = 3
      BY <1>4
    <3> QED
      BY <3>1
  <2> QED
    BY <1>5, <2>1 DEF Ordered
<1>7. ASSUME NEW x \in CallsOf(reads) PROVE x \in ReadCalls(cfg)
  <2>1. PICK k \in 1..n : x = reads[k]
    BY <1>5 DEF CallsOf
  <2>2. InSomeOrder(V)[k] \in V /\ x = Call("read", {InSomeOrder(V)[k]})
    BY <1>2, <1>4, <2>1
  <2> QED
    BY <2>2 DEF ReadCalls
<1>8. ASSUME NEW c \in V PROVE Call("read", {c}) \in CallsOf(reads)
  BY <1>3, <1>4, <1>5 DEF CallsOf
<1> QED
  BY <1>5, <1>6, <1>7, <1>8 DEF ReadCalls, reads, n

EsCalls(cfg, opts) == Preparing("values", opts) \cup ReadCalls(cfg)

LEMMA EsPlanned ==
  ASSUME NEW cfg \in Configs, NEW opts
  PROVE  LET p == EsPlan(cfg, opts) IN
         /\ p \in Seq(Calls) /\ Ordered(p)
         /\ CallsOf(p) = IF "es" \in opts.targets THEN EsCalls(cfg, opts) ELSE {}
<1>1. CASE "es" \notin opts.targets
  BY <1>1, NoCalls DEF EsPlan
<1>2. CASE "es" \in opts.targets
  <2> DEFINE a == Prepared("values", opts)
             b == [k \in 1..Cardinality(Visible(cfg)) |->
                     Call("read", {InSomeOrder(Visible(cfg))[k]})]
  <2>1. "values" \in Stores
    BY DEF Stores
  <2>2. a \in Seq(Calls) /\ CallsOf(a) = Preparing("values", opts) /\ Ordered(a)
    BY <2>1, PreparedPlan
  <2>3. b \in Seq(Calls) /\ CallsOf(b) = ReadCalls(cfg) /\ Ordered(b)
    BY ReadsPlanned
  <2>4. EsPlan(cfg, opts) = a \o b
    BY <1>2 DEF EsPlan
  <2> HIDE DEF a, b
  <2>5. ASSUME NEW x \in CallsOf(a), NEW y \in CallsOf(b)
        PROVE  Level(x) <= Level(y)
    <3>1. Level(x) \in {1, 2}
      BY <2>1, <2>2, CallFacts DEF Preparing
    <3>2. Level(y) = 3
      <4>1. PICK c \in Visible(cfg) : y = Call("read", {c})
        BY <2>3 DEF ReadCalls
      <4>2. {c} \in SUBSET Columns
        BY ConfigsAssumption DEF Visible, ValidConfig
      <4> QED
        BY <4>1, <4>2, ReadFacts
    <3> QED
      BY <3>1, <3>2
  <2>6. a \o b \in Seq(Calls) /\ CallsOf(a \o b) = CallsOf(a) \cup CallsOf(b)
    BY <2>2, <2>3, CallsOfConcat
  <2>7. Ordered(a \o b)
    BY <2>2, <2>3, <2>5, OrderedConcat
  <2> QED
    BY <1>2, <2>2, <2>3, <2>4, <2>6, <2>7 DEF EsCalls
<1> QED
  BY <1>1, <1>2

(* A plan that a store can be written by: its create comes before.          *)
Creates(plan) ==
  \A x \in CallsOf(plan) :
    x.op # "commit" => About(x) \in Stores /\ Call("create", About(x)) \in CallsOf(plan)

LEMMA SyncPlanned ==
  ASSUME NEW cfg \in Configs, NEW opts
  PROVE  LET p == QdrantPlan(opts) \o EsPlan(cfg, opts) IN
         /\ p \in Seq(Calls) /\ Ordered(p) /\ Creates(p)
         /\ CallsOf(p) =
              (IF "qdrant" \in opts.targets THEN QdrantCalls(opts) ELSE {})
                \cup (IF "es" \in opts.targets THEN EsCalls(cfg, opts) ELSE {})
<1> DEFINE q == QdrantPlan(opts)
           e == EsPlan(cfg, opts)
           Q == IF "qdrant" \in opts.targets THEN QdrantCalls(opts) ELSE {}
           E == IF "es" \in opts.targets THEN EsCalls(cfg, opts) ELSE {}
<1>1. /\ q \in Seq(Calls) /\ Ordered(q) /\ CallsOf(q) = Q
      /\ e \in Seq(Calls) /\ Ordered(e) /\ CallsOf(e) = E
  BY QdrantPlanned, EsPlanned
<1> HIDE DEF q, e
<1>2. ASSUME NEW x \in Q
      PROVE  About(x) \in {"columns", "metrics"} /\ Call("create", About(x)) \in Q
  <2>1. /\ x \in Preparing("columns", opts) \/ x = Call("points", "columns")
             => About(x) = "columns"
        /\ x \in Preparing("metrics", opts) \/ x = Call("points", "metrics")
             => About(x) = "metrics"
    BY PreparingFacts, CallFacts DEF Stores
  <2>2. /\ "qdrant" \in opts.targets
        /\ \/ x \in Preparing("columns", opts) \/ x = Call("points", "columns")
           \/ x \in Preparing("metrics", opts) \/ x = Call("points", "metrics")
    BY DEF QdrantCalls
  <2>3. /\ Call("create", "columns") \in Q /\ Call("create", "metrics") \in Q
    BY <2>2 DEF QdrantCalls, Preparing
  <2> QED
    BY <2>1, <2>2, <2>3
<1>3. ASSUME NEW x \in E
      PROVE  About(x) = "values" /\ Call("create", "values") \in E
  <2>1. "es" \in opts.targets /\ x \in Preparing("values", opts) \cup ReadCalls(cfg)
    BY DEF EsCalls
  <2>2. ASSUME x \in Preparing("values", opts) PROVE About(x) = "values"
    BY <2>2, PreparingFacts DEF Stores
  <2>3. ASSUME x \in ReadCalls(cfg) PROVE About(x) = "values"
    <3>1. PICK c \in Visible(cfg) : x = Call("read", {c})
      BY <2>3 DEF ReadCalls
    <3>2. {c} \in SUBSET Columns
      BY ConfigsAssumption DEF Visible, ValidConfig
    <3> QED
      BY <3>1, <3>2, ReadFacts
  <2>4. Call("create", "values") \in E
    BY <2>1 DEF EsCalls, Preparing
  <2> QED
    BY <2>1, <2>2, <2>3, <2>4
<1> HIDE DEF Q, E
<1>4. \A x \in CallsOf(q), y \in CallsOf(e) : About(x) # About(y)
  BY <1>1, <1>2, <1>3
<1>5. q \o e \in Seq(Calls) /\ CallsOf(q \o e) = Q \cup E
  BY <1>1, CallsOfConcat
<1>6. Ordered(q \o e)
  BY <1>1, <1>4, OrderedConcat
<1>7. Creates(q \o e)
  BY <1>2, <1>3, <1>5 DEF Creates, Stores
<1> QED
  BY <1>5, <1>6, <1>7 DEF q, e, Q, E

LEMMA BuildPlanned ==
  ASSUME NEW cfg \in Configs
  PROVE  LET p == BuildPlan(cfg) IN
         p \in Seq(Calls) /\ Ordered(p) /\ Creates(p)
<1> DEFINE p == BuildPlan(cfg)
           about == <<"meta", "columns", "columns", "values", "values",
                      "meta", "metrics", "metrics">>
           level == <<3, 2, 3, 2, 3, 3, 2, 3>>
<1>1. p \in Seq(Calls) /\ Len(p) = 8
  BY BuildPlanTyped
<1>2. /\ p[1] = Call("commit", "columns") /\ p[2] = Call("create", "columns")
      /\ p[3] = Call("points", "columns") /\ p[4] = Call("create", "values")
      /\ p[5] = Call("read", cfg.synced) /\ p[6] = Call("commit", "metrics")
      /\ p[7] = Call("create", "metrics") /\ p[8] = Call("points", "metrics")
  BY DEF BuildPlan
<1> HIDE DEF p
<1>3. 1..8 = {1, 2, 3, 4, 5, 6, 7, 8}
  OBVIOUS
<1>4. /\ About(p[1]) = "meta" /\ Level(p[1]) = 3 /\ p[1].op = "commit"
      /\ About(p[6]) = "meta" /\ Level(p[6]) = 3 /\ p[6].op = "commit"
  BY <1>2 DEF About, Level, Call
<1>5. /\ About(p[2]) = "columns" /\ Level(p[2]) = 2
      /\ About(p[3]) = "columns" /\ Level(p[3]) = 3
      /\ About(p[4]) = "values" /\ Level(p[4]) = 2
      /\ About(p[7]) = "metrics" /\ Level(p[7]) = 2
      /\ About(p[8]) = "metrics" /\ Level(p[8]) = 3
  BY <1>2, CallFacts DEF Stores
<1>6. About(p[5]) = "values" /\ Level(p[5]) = 3
  BY <1>2, ReadFacts, ConfigsAssumption DEF ValidConfig
<1>7. Ordered(p)
  <2>1. ASSUME NEW i \in 1..8, NEW k \in 1..8, i < k, About(p[i]) = About(p[k])
        PROVE  Level(p[i]) <= Level(p[k])
    <3>1. CASE Level(p[k]) = 3
      <4>1. Level(p[i]) \in {2, 3}
        BY <1>3, <1>4, <1>5, <1>6
      <4> QED
        BY <3>1, <4>1
    <3>2. CASE k = 2 \/ k = 4 \/ k = 7
      BY <1>3, <1>4, <1>5, <1>6, <2>1, <3>2
    <3> QED
      BY <1>3, <1>4, <1>5, <1>6, <3>1, <3>2
  <2> QED
    BY <1>1, <2>1 DEF Ordered
<1>8. Creates(p)
  <2>1. \A s \in Stores : Call("create", s) \in CallsOf(p)
    BY <1>1, <1>2, <1>3 DEF CallsOf, Stores
  <2>2. \A x \in CallsOf(p) : x.op # "commit" => About(x) \in Stores
    BY <1>1, <1>3, <1>4, <1>5, <1>6 DEF CallsOf, Stores
  <2> QED
    BY <2>1, <2>2 DEF Creates
<1> QED
  BY <1>1, <1>7, <1>8 DEF p

-----------------------------------------------------------------------------
(* The types. *)

(* No two items with one id.                                                *)
Distinct(items) == \A x, y \in items : x.id = y.id => x = y

(* What is left of a plan is in order, and a store that it will write is    *)
(* there or will be created before.                                         *)
PlacesInv ==
  /\ Ordered(job.plan)
  /\ \A x \in CallsOf(job.plan) : x.op # "commit" => About(x) \in Stores
  /\ \A s \in Stores :
       \/ Call("create", s) \in CallsOf(job.plan)
       \/ \A x \in CallsOf(job.plan) :
            About(x) = s => store[s] # Missing /\ Level(x) = 3

(* Items are written by a call that has got them.                           *)
TodoInv ==
  /\ Distinct(job.todo) /\ None \notin job.todo
  /\ job.todo # {} => Head(job.plan).op # "commit" /\ Level(Head(job.plan)) = 3

LEMMA HeadFacts ==
  ASSUME JobInv, PlacesInv, job.plan # <<>>
  PROVE  /\ Head(job.plan) \in Calls /\ Head(job.plan) \in CallsOf(job.plan)
         /\ Head(job.plan) = Call(Head(job.plan).op, On)
         /\ Head(job.plan).op # "commit" => About(Head(job.plan)) \in Stores
<1>1. Head(job.plan) \in Calls
  BY DEF JobInv
<1>2. Head(job.plan) \in CallsOf(job.plan)
  BY NextCall DEF JobInv
<1>3. Head(job.plan) = Call(Head(job.plan).op, On)
  BY <1>1 DEF Calls, Commits, Others, Call, On
<1> QED
  BY <1>1, <1>2, <1>3 DEF PlacesInv

(* A call that writes finds its store, and does not drop it afterwards.     *)
LEMMA WrittenIsThere ==
  ASSUME JobInv, PlacesInv, job.plan # <<>>, Head(job.plan).op # "commit",
         Level(Head(job.plan)) = 3
  PROVE  /\ store[About(Head(job.plan))] # Missing
         /\ Call("drop", About(Head(job.plan))) \notin CallsOf(job.plan)
<1> DEFINE h == Head(job.plan)
           s == About(h)
<1>1. h \in CallsOf(job.plan) /\ s \in Stores
  BY HeadFacts
<1>2. /\ CallsOf(job.plan) = {h} \cup CallsOf(Tail(job.plan))
      /\ \A x \in CallsOf(Tail(job.plan)) : About(h) = About(x) => Level(h) <= Level(x)
  BY NextCall DEF JobInv, PlacesInv
<1> HIDE DEF h
<1>3. ASSUME NEW x \in CallsOf(job.plan), About(x) = s
      PROVE  ~(Level(x) < 3)
  <2>1. Level(x) \in {1, 2, 3}
    BY DEF Level
  <2>2. CASE x = h
    BY <2>2 DEF h
  <2>3. CASE x \in CallsOf(Tail(job.plan))
    <3>1. Level(h) = 3 /\ Level(h) <= Level(x)
      BY <1>2, <1>3, <2>3 DEF h
    <3> QED
      BY <2>1, <3>1
  <2> QED
    BY <1>2, <2>2, <2>3
<1>4. /\ About(Call("create", s)) = s /\ Level(Call("create", s)) < 3
      /\ About(Call("drop", s)) = s /\ Level(Call("drop", s)) < 3
  BY <1>1, CallFacts
<1> QED
  BY <1>1, <1>3, <1>4 DEF PlacesInv, h

(* The next call is done and has left its store as it does.                 *)
LEMMA PlacesDone ==
  ASSUME JobInv, PlacesInv, job.plan # <<>>, job'.plan = Tail(job.plan),
         \A s \in Stores :
           \/ Head(job.plan) = Call("drop", s)
           \/ Head(job.plan) # Call("create", s) /\ store[s] = Missing
           \/ store'[s] # Missing
  PROVE  PlacesInv'
<1> DEFINE h == Head(job.plan)
           rest == Tail(job.plan)
<1>1. /\ CallsOf(job.plan) = {h} \cup CallsOf(rest) /\ Ordered(rest)
      /\ rest \in Seq(Calls)
      /\ \A x \in CallsOf(rest) : About(h) = About(x) => Level(h) <= Level(x)
  BY NextCall DEF JobInv, PlacesInv
<1> HIDE DEF h, rest
<1>2. ASSUME NEW s \in Stores, Call("create", s) \notin CallsOf(rest),
             NEW x \in CallsOf(rest), About(x) = s
      PROVE  store'[s] # Missing /\ Level(x) = 3
  <2>1. CASE h = Call("create", s)
    <3>1. h # Call("drop", s) /\ store'[s] # Missing
      BY <2>1 DEF Call, h
    <3>2. 2 <= Level(x)
      BY <1>1, <1>2, <2>1, CallFacts
    <3>3. Level(x) # 2
      <4>1. x \in Calls
        BY <1>1, <1>2 DEF CallsOf
      <4>2. Level(x) = 2 => x.op = "create"
        BY DEF Level
      <4>3. x.op = "create" => x = Call("create", s)
        BY <1>2, <4>1 DEF Calls, Commits, Others, Call, About
      <4> QED
        BY <1>2, <4>2, <4>3
    <3> QED
      BY <3>1, <3>2, <3>3 DEF Level
  <2>2. CASE h # Call("create", s)
    <3>1. \A y \in CallsOf(job.plan) : About(y) = s => store[s] # Missing /\ Level(y) = 3
      BY <1>1, <1>2, <2>2 DEF PlacesInv
    <3>2. store[s] # Missing /\ Level(x) = 3
      BY <1>1, <1>2, <3>1
    <3>3. h # Call("drop", s)
      <4>1. h = Call("drop", s) => About(h) = s /\ Level(h) = 1
        BY CallFacts
      <4> QED
        BY <1>1, <3>1, <4>1
    <3> QED
      BY <3>2, <3>3 DEF h
  <2> QED
    BY <2>1, <2>2
<1> QED
  BY <1>1, <1>2 DEF PlacesInv, rest

(* The call goes on, and no store gets lost.                                *)
LEMMA PlacesKept ==
  ASSUME PlacesInv, job'.plan = job.plan,
         \A s \in Stores : store[s] # Missing => store'[s] # Missing
  PROVE  PlacesInv'
BY DEF PlacesInv

StoreInv ==
  /\ DOMAIN store = Stores
  /\ \A s \in Stores : store[s] # Missing => Distinct(store[s])

LEMMA PutFacts ==
  ASSUME NEW items, NEW batch, Distinct(items), Distinct(batch), None \notin batch,
         items # Missing
  PROVE  /\ Distinct(Put(items, batch)) /\ Put(items, batch) # Missing
         /\ batch \subseteq Put(items, batch)
         /\ Put(items, batch) \subseteq items \cup batch
<1>1. /\ batch \subseteq Put(items, batch)
      /\ Put(items, batch) \subseteq items \cup batch
  BY DEF Put
<1>2. Distinct(Put(items, batch))
  BY DEF Distinct, Put
<1>3. Put(items, batch) # Missing
  <2>1. CASE batch = {}
    BY <2>1 DEF Put
  <2>2. CASE batch # {}
    BY <1>1, <2>2 DEF Missing
  <2> QED
    BY <2>1, <2>2
<1> QED
  BY <1>1, <1>2, <1>3

LEMMA WrittenFacts ==
  ASSUME JobInv, PlacesInv, TodoInv, StoreInv, job.todo # {},
         NEW batch \in SUBSET job.todo, store' = Written(batch)
  PROVE  LET s == About(Head(job.plan)) IN
         /\ s \in Stores /\ store[s] # Missing
         /\ store'[s] = Put(store[s], batch) /\ store'[s] # Missing
         /\ \A t \in Stores : t # s => store'[t] = store[t]
         /\ StoreInv'
<1> DEFINE s == About(Head(job.plan))
<1>1. /\ job.plan # <<>> /\ Head(job.plan).op # "commit"
      /\ Level(Head(job.plan)) = 3
  BY DEF JobInv, TodoInv
<1>2. s \in Stores /\ store[s] # Missing
  BY <1>1, HeadFacts, WrittenIsThere
<1>3. store' = [store EXCEPT ![s] = Put(@, batch)]
  BY <1>1 DEF Written, About, On
<1> HIDE DEF s
<1>4. /\ DOMAIN store' = Stores /\ store'[s] = Put(store[s], batch)
      /\ \A t \in Stores : t # s => store'[t] = store[t]
  BY <1>2, <1>3 DEF StoreInv
<1>5. Distinct(batch) /\ None \notin batch /\ Distinct(store[s])
  BY <1>2 DEF TodoInv, Distinct, StoreInv
<1>6. Distinct(store'[s]) /\ store'[s] # Missing
  BY <1>2, <1>4, <1>5, PutFacts
<1>7. StoreInv'
  BY <1>4, <1>6 DEF StoreInv, Distinct
<1> QED
  BY <1>2, <1>4, <1>6, <1>7 DEF s

(* What a call has got to write.                                            *)
LEMMA ItemFacts ==
  ASSUME NEW i, NEW o, NEW w
  PROVE  Item(i, o, w).id = i /\ Item(i, o, w) # None
<1>1. DOMAIN Item(i, o, w) = {"id", "of", "says"} /\ DOMAIN None = {"none"}
  BY DEF Item, None
<1> QED
  BY <1>1 DEF Item

LEMMA PointsDistinct ==
  ASSUME NEW s, NEW cfg, NEW no
  PROVE  /\ Distinct(SyncPoints(s, cfg)) /\ None \notin SyncPoints(s, cfg)
         /\ Distinct(BuildPoints(s, cfg, no)) /\ None \notin BuildPoints(s, cfg, no)
<1> DEFINE names == IF s = "columns" THEN cfg.columns ELSE cfg.metrics
           sync(a) == Item(<<"sync", s, a>>, a, cfg.says[a])
           build(a, t) == Item(<<"build", no, a, t>>, a, cfg.says[a])
<1>1. SyncPoints(s, cfg) = {sync(a) : a \in names}
  BY DEF SyncPoints
<1>2. BuildPoints(s, cfg, no) = {build(a, t) : a \in names, t \in {"name", "description"}}
  BY DEF BuildPoints
<1>3. \A a : sync(a).id = <<"sync", s, a>> /\ sync(a) # None
  BY ItemFacts
<1>4. \A a, t : build(a, t).id = <<"build", no, a, t>> /\ build(a, t) # None
  BY ItemFacts
<1> HIDE DEF names, sync, build
<1>5. Distinct({sync(a) : a \in names})
  <2> SUFFICES ASSUME NEW a \in names, NEW b \in names, sync(a).id = sync(b).id
               PROVE  sync(a) = sync(b)
    BY DEF Distinct
  <2>1. a = b
    BY <1>3
  <2> QED
    BY <2>1
<1>6. Distinct({build(a, t) : a \in names, t \in {"name", "description"}})
  <2> SUFFICES ASSUME NEW a \in names, NEW b \in names,
                      NEW t \in {"name", "description"}, NEW u \in {"name", "description"},
                      build(a, t).id = build(b, u).id
               PROVE  build(a, t) = build(b, u)
    BY DEF Distinct
  <2>1. a = b /\ t = u
    BY <1>4
  <2> QED
    BY <2>1
<1>7. None \notin {sync(a) : a \in names}
  BY <1>3
<1>8. None \notin {build(a, t) : a \in names, t \in {"name", "description"}}
  BY <1>4
<1> QED
  BY <1>1, <1>2, <1>5, <1>6, <1>7, <1>8

LEMMA DocsDistinct ==
  ASSUME NEW cols
  PROVE  /\ \A c, raws : Distinct(SyncDocs(c, raws)) /\ None \notin SyncDocs(c, raws)
         /\ Distinct(UNION {BuildDocs(c, dw[c]) : c \in cols})
         /\ None \notin UNION {BuildDocs(c, dw[c]) : c \in cols}
<1> DEFINE sync(c, raw) == Item(<<"sync", c, Normal[raw]>>, c, Normal[raw])
           build(c, raw) == Item(<<"build", c, raw>>, c, raw)
<1>1. \A c, raws : SyncDocs(c, raws) =
                     {sync(c, raw) : raw \in {raw \in raws : Normal[raw] # NoValue}}
  BY DEF SyncDocs
<1>2. \A c, raws : BuildDocs(c, raws) = {build(c, raw) : raw \in raws}
  BY DEF BuildDocs
<1>3. \A c, raw : sync(c, raw).id = <<"sync", c, Normal[raw]>> /\ sync(c, raw) # None
  BY ItemFacts
<1>4. \A c, raw : build(c, raw).id = <<"build", c, raw>> /\ build(c, raw) # None
  BY ItemFacts
<1>5. ASSUME NEW c, NEW v, NEW w, sync(c, v).id = sync(c, w).id
      PROVE  sync(c, v) = sync(c, w)
  <2>1. <<"sync", c, Normal[v]>> = <<"sync", c, Normal[w]>>
    BY <1>5, ItemFacts
  <2> QED
    BY <2>1
<1> HIDE DEF sync, build
<1>6. ASSUME NEW c, NEW raws
      PROVE  Distinct(SyncDocs(c, raws)) /\ None \notin SyncDocs(c, raws)
  <2>1. \A x \in SyncDocs(c, raws) : \E v : x = sync(c, v)
    BY <1>1
  <2> QED
    BY <1>3, <1>5, <2>1 DEF Distinct
<1> DEFINE docs == UNION {BuildDocs(c, dw[c]) : c \in cols}
<1>7. ASSUME NEW x \in docs PROVE \E c, v : x = build(c, v)
  <2>1. PICK c \in cols : x \in BuildDocs(c, dw[c])
    OBVIOUS
  <2>2. PICK v \in dw[c] : x = build(c, v)
    BY <1>2, <2>1
  <2> QED
    BY <2>2
<1> HIDE DEF docs
<1>8. ASSUME NEW x \in docs, NEW y \in docs, x.id = y.id PROVE x = y
  <2>1. PICK c, v : x = build(c, v)
    BY <1>7
  <2>2. PICK d, w : y = build(d, w)
    BY <1>7
  <2>3. <<"build", c, v>> = <<"build", d, w>>
    BY <1>4, <1>8, <2>1, <2>2
  <2>4. c = d /\ v = w
    BY <2>3
  <2> QED
    BY <2>1, <2>2, <2>4
<1>9. None \notin docs
  BY <1>4, <1>7
<1> QED
  BY <1>6, <1>8, <1>9 DEF Distinct, docs

OptsInv ==
  /\ job.opts \in SyncOptions \cup BuildOptions \cup {None}
  /\ job.opts = None => job = NoJob

TypesInv == TypeOK /\ PlacesInv /\ TodoInv

LEMMA PlanPlaces ==
  ASSUME NEW plan, Ordered(plan), Creates(plan), job'.plan = plan
  PROVE  PlacesInv'
<1>1. ASSUME NEW s \in Stores, NEW x \in CallsOf(plan), About(x) = s
      PROVE  Call("create", s) \in CallsOf(plan)
  <2>1. x.op # "commit"
    BY <1>1 DEF About, Stores
  <2> QED
    BY <1>1, <2>1 DEF Creates
<1> QED
  BY <1>1 DEF PlacesInv, Creates

LEMMA NoJobFacts ==
  /\ NoJob.plan = <<>> /\ NoJob.todo = {} /\ NoJob.opts = None
  /\ DOMAIN NoJob = {"plan", "todo", "cfg", "opts", "disturbed"}
BY DEF NoJob

LEMMA OptionsFacts ==
  ASSUME NEW opts \in SyncOptions \cup BuildOptions PROVE opts # None
<1>1. "kind" \in DOMAIN opts
  BY DEF SyncOptions, BuildOptions
<1>2. DOMAIN None = {"none"}
  BY DEF None
<1> QED
  BY <1>1, <1>2

LEMMA LevelFacts ==
  ASSUME NEW call PROVE call.op \in {"read", "points", "commit"} => Level(call) = 3
BY DEF Level

LEMMA TypesStep ==
  ASSUME BuildInv, BuildInv', TypesInv, [Next]_vars
  PROVE  TypesInv'
<1>1. /\ JobInv /\ PlacesInv /\ TodoInv /\ StoreInv /\ OptsInv
      /\ dw \in [Columns -> SUBSET RawValues]
      /\ jobs \in 0..MaxJobs /\ changes \in 0..MaxChanges
  BY DEF BuildInv, TypesInv, TypeOK, StoreInv, Distinct, OptsInv
<1>2. /\ config' \in Configs /\ meta' \in MetaRows /\ job'.plan \in Seq(Calls)
  BY DEF BuildInv, JobInv
<1>3. ASSUME NEW plan \in Seq(Calls)
      PROVE  \A k \in DOMAIN plan : plan[k].op \in Ops
  <2>1. ASSUME NEW k \in DOMAIN plan PROVE plan[k].op \in Ops
    <3>1. plan[k] \in Calls
      OBVIOUS
    <3> QED
      BY <3>1 DEF Calls, Commits, Others, Call, Ops
  <2> QED
    BY <2>1
<1>4. \A k \in DOMAIN job'.plan : job'.plan[k].op \in Ops
  BY <1>2, <1>3
<1>5. ASSUME StoreInv', PlacesInv', TodoInv', OptsInv',
             dw' \in [Columns -> SUBSET RawValues],
             jobs' \in 0..MaxJobs, changes' \in 0..MaxChanges
      PROVE  TypesInv'
  <2>1. TypeOK'
    BY <1>2, <1>4, <1>5 DEF TypeOK, StoreInv, Distinct, OptsInv, MetaRows
  <2> QED
    BY <1>5, <2>1 DEF TypesInv
<1>6. job.plan # <<>> => job.opts \in SyncOptions \cup BuildOptions
  BY <1>1, NoJobFacts DEF OptsInv
<1>7. ASSUME job' = NoJob, StoreInv', UNCHANGED <<dw, jobs, changes>>
      PROVE  TypesInv'
  <2>1. job'.plan = <<>> /\ job'.todo = {} /\ job'.opts = None
    BY <1>7, NoJobFacts
  <2>2. PlacesInv'
    BY <2>1, NoCalls DEF PlacesInv
  <2>3. TodoInv' /\ OptsInv'
    BY <1>7, <2>1 DEF TodoInv, Distinct, OptsInv
  <2> QED
    BY <1>1, <1>5, <1>7, <2>2, <2>3
<1>8. ASSUME job.plan # <<>>, job'.opts = job.opts, StoreInv', PlacesInv', TodoInv',
             UNCHANGED <<dw, jobs, changes>>
      PROVE  TypesInv'
  <2>1. OptsInv'
    BY <1>6, <1>8, OptionsFacts DEF OptsInv
  <2> QED
    BY <1>1, <1>5, <1>8, <2>1
<1>9. store' = store => StoreInv'
  BY <1>1 DEF StoreInv
<1>10. job' = Next1 =>
         /\ job'.plan = Tail(job.plan) /\ job'.todo = job.todo
         /\ job'.opts = job.opts /\ job'.cfg = job.cfg
  BY <1>1 DEF JobInv, Next1
<1>11. \A set : job' = [job EXCEPT !.todo = set] =>
         /\ job'.plan = job.plan /\ job'.todo = set
         /\ job'.opts = job.opts /\ job'.cfg = job.cfg
  BY <1>1 DEF JobInv
<1>12. job.todo = {} /\ job'.todo = {} => TodoInv'
  BY DEF TodoInv, Distinct
<1>13. ASSUME NEW opts \in SyncOptions, StartSync(opts) PROVE TypesInv'
  <2> DEFINE plan == QdrantPlan(opts) \o EsPlan(config, opts)
  <2>1. Ordered(plan) /\ Creates(plan)
    BY SyncPlanned DEF BuildInv
  <2>2. /\ job'.plan = plan /\ job'.todo = {} /\ job'.opts = opts
        /\ jobs < MaxJobs /\ jobs' = jobs + 1
        /\ UNCHANGED <<dw, store, changes>>
    BY <1>13 DEF StartSync, NoJob
  <2> HIDE DEF plan
  <2>3. PlacesInv'
    BY <2>1, <2>2, PlanPlaces
  <2>4. TodoInv' /\ OptsInv'
    BY <2>2, OptionsFacts DEF TodoInv, Distinct, OptsInv
  <2>5. jobs' \in 0..MaxJobs
    BY <1>1, <2>2, BoundsAssumption
  <2> QED
    BY <1>1, <1>5, <1>9, <2>2, <2>3, <2>4, <2>5
<1>14. CASE StartBuild
  <2> DEFINE plan == BuildPlan(config)
             opts == [kind |-> "build", no |-> jobs + 1]
  <2>1. Ordered(plan) /\ Creates(plan)
    BY BuildPlanned DEF BuildInv
  <2>2. /\ job'.plan = plan /\ job'.todo = {} /\ job'.opts = opts
        /\ jobs < MaxJobs /\ jobs' = jobs + 1
        /\ UNCHANGED <<dw, store, changes>>
    BY <1>14 DEF StartBuild, NoJob
  <2> HIDE DEF plan
  <2>3. PlacesInv'
    BY <2>1, <2>2, PlanPlaces
  <2>4. jobs' \in 0..MaxJobs /\ jobs + 1 \in 1..MaxJobs
    BY <1>1, <2>2, BoundsAssumption
  <2>5. opts \in BuildOptions
    BY <2>4 DEF BuildOptions
  <2> HIDE DEF opts
  <2>6. TodoInv' /\ OptsInv'
    BY <2>2, <2>5, OptionsFacts DEF TodoInv, Distinct, OptsInv
  <2> QED
    BY <1>1, <1>5, <1>9, <2>2, <2>3, <2>4, <2>6
<1>15. CASE Drop
  <2>1. /\ job.plan # <<>> /\ job.todo = {} /\ Head(job.plan).op = "drop"
        /\ store' = [store EXCEPT ![On] = Missing] /\ job' = Next1
        /\ UNCHANGED <<dw, jobs, changes>>
    BY <1>15 DEF Drop, Busy, Outside
  <2>2. Head(job.plan) = Call("drop", On)
    BY <1>1, <2>1, HeadFacts
  <2>3. StoreInv'
    BY <1>1, <2>1 DEF StoreInv
  <2>4. ASSUME NEW s \in Stores
        PROVE  \/ Head(job.plan) = Call("drop", s)
               \/ Head(job.plan) # Call("create", s) /\ store[s] = Missing
               \/ store'[s] # Missing
    <3>1. CASE s = On
      BY <2>2, <3>1
    <3>2. CASE s # On
      <4>1. store'[s] = store[s]
        BY <1>1, <2>1, <3>2 DEF StoreInv
      <4>2. Head(job.plan) # Call("create", s)
        BY <2>1 DEF Call
      <4> QED
        BY <4>1, <4>2
    <3> QED
      BY <3>1, <3>2
  <2>5. PlacesInv'
    BY <1>1, <1>10, <2>1, <2>4, PlacesDone
  <2> QED
    BY <1>8, <1>10, <1>12, <2>1, <2>3, <2>5
<1>16. CASE Create
  <2>1. /\ job.plan # <<>> /\ job.todo = {} /\ Head(job.plan).op = "create"
        /\ store' = [store EXCEPT ![On] = IF @ = Missing THEN {} ELSE @]
        /\ job' = Next1
        /\ UNCHANGED <<dw, jobs, changes>>
    BY <1>16 DEF Create, Busy, Outside
  <2>2. Head(job.plan) = Call("create", On)
    BY <1>1, <2>1, HeadFacts
  <2>3. {} # Missing
    BY DEF Missing
  <2>4. StoreInv'
    BY <1>1, <2>1 DEF StoreInv, Distinct
  <2>5. ASSUME NEW s \in Stores
        PROVE  \/ Head(job.plan) # Call("create", s) /\ store[s] = Missing
               \/ store'[s] # Missing
    <3>1. CASE s = On
      <4>1. store'[s] = IF store[s] = Missing THEN {} ELSE store[s]
        BY <1>1, <2>1, <3>1 DEF StoreInv
      <4> QED
        BY <2>3, <4>1
    <3>2. CASE s # On
      <4>1. store'[s] = store[s]
        BY <1>1, <2>1, <3>2 DEF StoreInv
      <4>2. Head(job.plan) # Call("create", s)
        BY <2>2, <3>2 DEF Call
      <4> QED
        BY <4>1, <4>2
    <3> QED
      BY <3>1, <3>2
  <2>6. PlacesInv'
    BY <1>1, <1>10, <2>1, <2>5, PlacesDone
  <2> QED
    BY <1>8, <1>10, <1>12, <2>1, <2>4, <2>6
<1>17. ASSUME job.plan # <<>>, Head(job.plan).op \in {"points", "read"},
              NEW items, Distinct(items), None \notin items,
              job' = [job EXCEPT !.todo = items], store' = store,
              UNCHANGED <<dw, jobs, changes>>
       PROVE  TypesInv'
  <2>1. job'.plan = job.plan /\ job'.todo = items /\ job'.opts = job.opts
    BY <1>11, <1>17
  <2>2. PlacesInv'
    BY <1>1, <1>17, <2>1, PlacesKept
  <2>3. TodoInv'
    BY <1>17, <2>1, LevelFacts DEF TodoInv, Distinct
  <2> QED
    BY <1>8, <1>9, <1>17, <2>1, <2>2, <2>3
<1>18. CASE Points
  <2>1. /\ job.plan # <<>> /\ Head(job.plan).op = "points"
        /\ job' = [job EXCEPT !.todo =
                     IF job.opts.kind = "sync" THEN SyncPoints(On, job.cfg)
                     ELSE BuildPoints(On, job.cfg, job.opts.no)]
        /\ store' = store /\ UNCHANGED <<dw, jobs, changes>>
    BY <1>18 DEF Points, Busy, Outside
  <2> DEFINE items == IF job.opts.kind = "sync" THEN SyncPoints(On, job.cfg)
                      ELSE BuildPoints(On, job.cfg, job.opts.no)
  <2>2. Distinct(items) /\ None \notin items
    BY PointsDistinct
  <2>3. job' = [job EXCEPT !.todo = items]
    BY <2>1
  <2> HIDE DEF items
  <2> QED
    BY <1>17, <2>1, <2>2, <2>3
<1>19. CASE ReadValues
  <2>1. /\ job.plan # <<>> /\ job.todo = {} /\ Head(job.plan).op = "read"
        /\ store' = store /\ UNCHANGED <<dw, jobs, changes>>
    BY <1>19 DEF ReadValues, Busy, Outside
  <2>2. CASE job' = Next1
    <3>1. ASSUME NEW s \in Stores PROVE Head(job.plan) # Call("create", s)
      BY <2>1 DEF Call
    <3>2. PlacesInv'
      BY <1>1, <1>10, <2>1, <2>2, <3>1, PlacesDone
    <3> QED
      BY <1>8, <1>9, <1>10, <1>12, <2>1, <2>2, <3>2
  <2>3. \/ job' = Next1
        \/ \E items : /\ Distinct(items) /\ None \notin items
                      /\ job' = [job EXCEPT !.todo = items]
    <3>1. \/ job' = Next1
          \/ \E c, raws : job' = [job EXCEPT !.todo = SyncDocs(c, raws)]
          \/ job' = [job EXCEPT !.todo = UNION {BuildDocs(c, dw[c]) : c \in On}]
      BY <1>19 DEF ReadValues
    <3> QED
      BY <3>1, DocsDistinct
  <2> QED
    BY <1>17, <2>1, <2>2, <2>3
<1>20. CASE WriteBatch
  <2>1. PICK batch \in SUBSET job.todo :
          /\ job.todo # {} /\ store' = Written(batch)
          /\ job' = IF batch = job.todo THEN [Next1 EXCEPT !.todo = {}]
                    ELSE [job EXCEPT !.todo = @ \ batch]
          /\ UNCHANGED <<dw, jobs, changes>>
    BY <1>20 DEF WriteBatch, Outside
  <2> DEFINE s == About(Head(job.plan))
  <2>2. /\ StoreInv' /\ s \in Stores /\ store[s] # Missing /\ store'[s] # Missing
        /\ \A t \in Stores : t # s => store'[t] = store[t]
    BY <1>1, <2>1, WrittenFacts
  <2>3. job.plan # <<>> /\ Level(Head(job.plan)) = 3 /\ Head(job.plan).op # "commit"
    BY <1>1, <2>1 DEF JobInv, TodoInv
  <2> HIDE DEF s
  <2>4. CASE batch = job.todo
    <3>1. job'.plan = Tail(job.plan) /\ job'.todo = {} /\ job'.opts = job.opts
      BY <1>1, <2>1, <2>4 DEF JobInv, Next1
    <3>2. ASSUME NEW t \in Stores
          PROVE  Head(job.plan) # Call("create", t)
      BY <2>3, CallFacts
    <3>3. PlacesInv'
      BY <1>1, <2>2, <2>3, <3>1, <3>2, PlacesDone
    <3>4. TodoInv'
      BY <3>1 DEF TodoInv, Distinct
    <3> QED
      BY <1>8, <2>1, <2>2, <2>3, <3>1, <3>3, <3>4
  <2>5. CASE batch # job.todo
    <3>1. job'.plan = job.plan /\ job'.todo = job.todo \ batch /\ job'.opts = job.opts
      BY <1>1, <2>1, <2>5 DEF JobInv
    <3>2. PlacesInv'
      BY <1>1, <2>2, <3>1, PlacesKept
    <3>3. TodoInv'
      BY <1>1, <2>3, <3>1 DEF TodoInv, Distinct
    <3> QED
      BY <1>8, <2>1, <2>2, <2>3, <3>1, <3>2, <3>3
  <2> QED
    BY <2>4, <2>5
<1>21. CASE BulkErrors
  <2>1. PICK part \in SUBSET job.todo :
          /\ job.todo # {} /\ store' = Written(part) /\ job' = NoJob
          /\ UNCHANGED <<dw, jobs, changes>>
    BY <1>21 DEF BulkErrors, Outside
  <2>2. StoreInv'
    BY <1>1, <2>1, WrittenFacts
  <2> QED
    BY <1>7, <2>1, <2>2
<1>22. CASE Commit
  <2>1. /\ job.plan # <<>> /\ job.todo = {} /\ Head(job.plan).op = "commit"
        /\ job' = NoJob \/ job' = Next1
        /\ store' = store /\ UNCHANGED <<dw, jobs, changes>>
    BY <1>22 DEF Commit, Busy, Outside
  <2>2. CASE job' = NoJob
    BY <1>7, <1>9, <2>1, <2>2
  <2>3. CASE job' = Next1
    <3>1. ASSUME NEW s \in Stores PROVE Head(job.plan) # Call("create", s)
      BY <2>1 DEF Call
    <3>2. PlacesInv'
      BY <1>1, <1>10, <2>1, <2>3, <3>1, PlacesDone
    <3> QED
      BY <1>8, <1>9, <1>10, <1>12, <2>1, <2>3, <3>2
  <2> QED
    BY <2>1, <2>2, <2>3
<1>23. CASE Fail
  BY <1>7, <1>9, <1>23 DEF Fail, Outside
<1>24. CASE Finish
  BY <1>7, <1>9, <1>24 DEF Finish
<1>25. CASE Change
  <2>1. /\ changes < MaxChanges /\ changes' = changes + 1
        /\ jobs' = jobs /\ store' = store
        /\ job' = IF job = NoJob THEN job ELSE [job EXCEPT !.disturbed = TRUE]
    BY <1>25 DEF Change
  <2>2. dw' \in [Columns -> SUBSET RawValues]
    BY <1>1, <1>25 DEF Change
  <2>3. changes' \in 0..MaxChanges
    BY <1>1, <2>1, BoundsAssumption
  <2>4. job'.plan = job.plan /\ job'.todo = job.todo /\ job'.opts = job.opts
    BY <1>1, <2>1 DEF JobInv
  <2>5. PlacesInv' /\ TodoInv'
    BY <1>1, <2>1, <2>4, PlacesKept DEF TodoInv, Distinct
  <2>6. OptsInv'
    BY <1>1, <2>1, <2>4 DEF OptsInv
  <2> QED
    BY <1>1, <1>5, <1>9, <2>1, <2>2, <2>3, <2>5, <2>6
<1>26. CASE UNCHANGED vars
  BY <1>1, <1>5, <1>26 DEF vars, StoreInv, PlacesInv, TodoInv, OptsInv
<1> QED
  BY <1>13, <1>14, <1>15, <1>16, <1>18, <1>19, <1>20, <1>21, <1>22, <1>23, <1>24,
     <1>25, <1>26 DEF Next

LEMMA TypesInvariant == Spec => []TypesInv
<1>1. Init => TypesInv
  <2> SUFFICES ASSUME Init PROVE TypesInv
    OBVIOUS
  <2>1. job = NoJob /\ job.plan = <<>> /\ job.todo = {} /\ job.opts = None
    BY NoJobFacts DEF Init
  <2>2. PlacesInv /\ TodoInv
    BY <2>1, NoCalls DEF PlacesInv, TodoInv, Distinct
  <2>3. /\ config \in Configs /\ dw \in [Columns -> SUBSET RawValues]
        /\ DOMAIN store = Stores /\ \A s \in Stores : store[s] = Missing
        /\ meta \in MetaRows /\ jobs = 0 /\ changes = 0
    BY DEF Init, MetaRows
  <2>4. TypeOK
    BY <2>1, <2>3, BoundsAssumption DEF TypeOK, MetaRows
  <2> QED
    BY <2>2, <2>4 DEF TypesInv
<1>2. BuildInv /\ BuildInv' /\ TypesInv /\ [Next]_vars => TypesInv'
  BY TypesStep
<1> QED
  BY <1>1, <1>2, BuildInvariant, PTL DEF Spec

(* Every state of every run is well typed: no store ever holds two items    *)
(* with one id, whatever was written before a call failed, and every job    *)
(* was started with options (sync_qdrant, sync_es and build, with what they *)
(* write).                                                                  *)
THEOREM TypeCorrect == Spec => []TypeOK
<1>1. TypesInv => TypeOK
  BY DEF TypesInv
<1> QED
  BY <1>1, TypesInvariant, PTL

-----------------------------------------------------------------------------
(* What a sync has done. *)

(* A sync runs, and neither the file nor the warehouse has changed since it *)
(* began.                                                                   *)
Syncing == job.opts # None /\ job.opts.kind = "sync" /\ ~job.disturbed

(* The stores it is for, and the calls that fill them.                      *)
Targeted(opts) ==
  {s \in Stores : IF s = "values" THEN "es" \in opts.targets
                  ELSE "qdrant" \in opts.targets}

Filling(cfg, opts) ==
  (IF "qdrant" \in opts.targets
   THEN {Call("points", "columns"), Call("points", "metrics")} ELSE {})
  \cup (IF "es" \in opts.targets THEN ReadCalls(cfg) ELSE {})

SyncCalls(cfg, opts) ==
  (IF "qdrant" \in opts.targets THEN QdrantCalls(opts) ELSE {})
    \cup (IF "es" \in opts.targets THEN EsCalls(cfg, opts) ELSE {})

(* What a sync writes into a store, and what one of its calls may bring     *)
(* there, when the warehouse holds these rows.                              *)
Fitting(s, cfg, rows) ==
  IF s = "values" THEN UNION {SyncDocs(c, rows[c]) : c \in Visible(cfg)}
  ELSE SyncPoints(s, cfg)

FirstOf(raws) ==
  IF Cardinality(raws) <= MaxValues THEN {raws}
  ELSE {some \in SUBSET raws : Cardinality(some) = MaxValues}

Contents(call, cfg, rows) ==
  IF call.op = "points" THEN {SyncPoints(call.on, cfg)}
  ELSE UNION {{SyncDocs(c, raws) : raws \in FirstOf(rows[c])} : c \in call.on}

(* The calls of a job that have not begun to write, and what the one that   *)
(* has still is to write into a store.                                      *)
Left(j) == IF j.todo = {} THEN CallsOf(j.plan) ELSE CallsOf(Tail(j.plan))
Pending(j, s) == IF j.plan # <<>> /\ About(Head(j.plan)) = s THEN j.todo ELSE {}

(* What a call brought is in its store, or is being written, and will not   *)
(* be dropped.                                                              *)
Brought(call, j, stores, rows) ==
  LET s == About(call) IN
  /\ stores[s] # Missing /\ Call("drop", s) \notin CallsOf(j.plan)
  /\ \E X \in Contents(call, j.cfg, rows) : X \subseteq stores[s] \cup Pending(j, s)

OwnCalls(j) == CallsOf(j.plan) \subseteq SyncCalls(j.cfg, j.opts)

OwnItems(j, rows) ==
  j.plan # <<>> => j.todo \subseteq Fitting(About(Head(j.plan)), j.cfg, rows)

Filled(j, stores, rows) ==
  \A call \in Filling(j.cfg, j.opts) : call \in Left(j) \/ Brought(call, j, stores, rows)

Emptied(j, stores, rows) ==
  \A s \in Targeted(j.opts) :
    /\ stores[s] # Missing \/ Call("create", s) \in CallsOf(j.plan)
    /\ Recreated(s, j.opts) =>
         \/ Call("drop", s) \in CallsOf(j.plan)
         \/ stores[s] = Missing
         \/ stores[s] \subseteq Fitting(s, j.cfg, rows)

SoFar(j, stores, rows) ==
  OwnCalls(j) /\ OwnItems(j, rows) /\ Filled(j, stores, rows) /\ Emptied(j, stores, rows)

SyncInv == Syncing => SoFar(job, store, dw)

LEMMA FillingFacts ==
  ASSUME NEW cfg, NEW opts, NEW call \in Filling(cfg, opts)
  PROVE  /\ About(call) \in Stores /\ call.op \in {"points", "read"}
         /\ call.op = "points" => call.on = About(call) /\ call.on # "values"
         /\ call.op = "read" => \E c \in Visible(cfg) : call.on = {c}
         /\ call.op = "read" => About(call) = "values"
<1>1. CASE call \in {Call("points", "columns"), Call("points", "metrics")}
  BY <1>1 DEF Call, About, Stores
<1>2. CASE call \in ReadCalls(cfg)
  BY <1>2 DEF ReadCalls, Call, About, Stores
<1> QED
  BY <1>1, <1>2 DEF Filling

LEMMA SyncCallsFacts ==
  ASSUME NEW cfg, NEW opts, NEW call \in SyncCalls(cfg, opts)
  PROVE  /\ call.op \in {"drop", "create", "points", "read"}
         /\ call.op \in {"points", "read"} => call \in Filling(cfg, opts)
<1>1. ASSUME NEW s, call \in Preparing(s, opts) PROVE call.op \in {"drop", "create"}
  BY <1>1 DEF Preparing, Call
<1>2. ASSUME call \in Filling(cfg, opts) PROVE call.op \in {"points", "read"}
  BY <1>2, FillingFacts
<1>3. \/ \E s : call \in Preparing(s, opts)
      \/ call \in Filling(cfg, opts)
  BY DEF SyncCalls, QdrantCalls, EsCalls, Filling
<1> QED
  BY <1>1, <1>2, <1>3

LEMMA FittingFacts ==
  ASSUME NEW s, NEW cfg, NEW rows
  PROVE  Distinct(Fitting(s, cfg, rows)) /\ None \notin Fitting(s, cfg, rows)
<1> DEFINE sync(c, v) == Item(<<"sync", c, v>>, c, v)
           docs == UNION {SyncDocs(c, rows[c]) : c \in Visible(cfg)}
<1>1. \A c, v : sync(c, v).id = <<"sync", c, v>> /\ sync(c, v) # None
  BY ItemFacts
<1>2. \A c, raws : SyncDocs(c, raws) =
        {sync(c, Normal[raw]) : raw \in {raw \in raws : Normal[raw] # NoValue}}
  BY DEF SyncDocs
<1> HIDE DEF sync
<1>3. ASSUME NEW x \in docs PROVE \E c, v : x = sync(c, v)
  <2>1. PICK c \in Visible(cfg) : x \in SyncDocs(c, rows[c])
    OBVIOUS
  <2> QED
    BY <1>2, <2>1
<1> HIDE DEF docs
<1>4. ASSUME NEW x \in docs, NEW y \in docs, x.id = y.id PROVE x = y
  <2>1. PICK c, v : x = sync(c, v)
    BY <1>3
  <2>2. PICK d, w : y = sync(d, w)
    BY <1>3
  <2>3. <<"sync", c, v>> = <<"sync", d, w>>
    BY <1>1, <1>4, <2>1, <2>2
  <2>4. c = d /\ v = w
    BY <2>3
  <2> QED
    BY <2>1, <2>2, <2>4
<1>5. None \notin docs /\ Distinct(docs)
  BY <1>1, <1>3, <1>4 DEF Distinct
<1> QED
  BY <1>5, PointsDistinct DEF Fitting, docs

LEMMA ContentsFit ==
  ASSUME NEW cfg, NEW opts, NEW rows, NEW call \in Filling(cfg, opts),
         NEW X \in Contents(call, cfg, rows)
  PROVE  X \subseteq Fitting(About(call), cfg, rows)
<1>1. CASE call.op = "points"
  BY <1>1, FillingFacts DEF Contents, Fitting
<1>2. CASE call.op = "read"
  <2>1. PICK c \in Visible(cfg) : call.on = {c} /\ About(call) = "values"
    BY <1>2, FillingFacts
  <2>2. PICK raws \in FirstOf(rows[c]) : X = SyncDocs(c, raws)
    BY <1>2, <2>1 DEF Contents
  <2>3. raws \subseteq rows[c]
    BY <2>2 DEF FirstOf
  <2>4. X \subseteq SyncDocs(c, rows[c])
    BY <2>2, <2>3 DEF SyncDocs
  <2> QED
    BY <2>1, <2>4 DEF Fitting
<1> QED
  BY <1>1, <1>2, FillingFacts

(* An upsert replaces nothing that is to stay.                              *)
LEMMA PutKeeps ==
  ASSUME NEW F, Distinct(F), NEW items, NEW todo \in SUBSET F, NEW batch \in SUBSET todo,
         NEW X \in SUBSET F, X \subseteq items \cup todo
  PROVE  X \subseteq Put(items, batch) \cup (todo \ batch)
BY DEF Put, Distinct

(* The start of a sync. *)
LEMMA SyncStarts ==
  ASSUME NEW j, NEW stores, NEW rows, j.todo = {},
         CallsOf(j.plan) = SyncCalls(j.cfg, j.opts)
  PROVE  SoFar(j, stores, rows)
<1>1. Filling(j.cfg, j.opts) \subseteq SyncCalls(j.cfg, j.opts)
  BY DEF Filling, SyncCalls, QdrantCalls, EsCalls
<1>2. ASSUME NEW s \in Targeted(j.opts)
      PROVE  /\ Call("create", s) \in SyncCalls(j.cfg, j.opts)
             /\ Recreated(s, j.opts) => Call("drop", s) \in SyncCalls(j.cfg, j.opts)
  <2>1. Preparing(s, j.opts) \subseteq SyncCalls(j.cfg, j.opts)
    BY DEF Targeted, Stores, SyncCalls, QdrantCalls, EsCalls
  <2> QED
    BY <2>1 DEF Preparing
<1>3. OwnCalls(j) /\ OwnItems(j, rows)
  BY DEF OwnCalls, OwnItems
<1>4. Filled(j, stores, rows)
  BY <1>1 DEF Filled, Left
<1>5. Emptied(j, stores, rows)
  BY <1>2 DEF Emptied
<1> QED
  BY <1>3, <1>4, <1>5 DEF SoFar

(* A store has been dropped; the call that creates it is still to come.     *)
LEMMA SyncDrops ==
  ASSUME NEW j, NEW k, NEW stores, NEW stores2, NEW rows, SoFar(j, stores, rows),
         j.plan \in Seq(Calls), j.plan # <<>>, j.todo = {},
         k.plan = Tail(j.plan), k.todo = {}, k.cfg = j.cfg, k.opts = j.opts,
         NEW t \in Stores, Head(j.plan) = Call("drop", t),
         Call("create", t) \in CallsOf(j.plan),
         stores2[t] = Missing,
         \A s \in Stores : s # t => stores2[s] = stores[s]
  PROVE  SoFar(k, stores2, rows)
<1>1. CallsOf(j.plan) = {Call("drop", t)} \cup CallsOf(k.plan)
  BY NextCall
<1>2. \A s : Call("create", s) # Call("drop", t)
  BY DEF Call
<1>3. \A s : Call("drop", s) = Call("drop", t) => s = t
  BY DEF Call
<1>4. OwnCalls(k) /\ OwnItems(k, rows)
  BY <1>1 DEF OwnCalls, OwnItems, SoFar
<1>5. ASSUME NEW call \in Filling(k.cfg, k.opts), call \notin Left(k)
      PROVE  Brought(call, k, stores2, rows)
  <2>1. call # Call("drop", t) /\ About(call) \in Stores
    BY FillingFacts DEF Call
  <2>2. call \notin Left(j)
    BY <1>1, <1>5, <2>1 DEF Left
  <2>3. Brought(call, j, stores, rows)
    BY <2>2 DEF SoFar, Filled
  <2>4. About(call) # t
    BY <1>1, <2>3 DEF Brought
  <2>5. Pending(j, About(call)) = {}
    BY DEF Pending
  <2>6. stores2[About(call)] = stores[About(call)]
    BY <2>1, <2>4
  <2> QED
    BY <1>1, <2>3, <2>5, <2>6 DEF Brought
<1>6. ASSUME NEW s \in Targeted(k.opts)
      PROVE  /\ stores2[s] # Missing \/ Call("create", s) \in CallsOf(k.plan)
             /\ Recreated(s, k.opts) =>
                  \/ Call("drop", s) \in CallsOf(k.plan)
                  \/ stores2[s] = Missing
                  \/ stores2[s] \subseteq Fitting(s, k.cfg, rows)
  <2>1. CASE s = t
    BY <1>1, <1>2, <2>1
  <2>2. CASE s # t
    <3>1. stores2[s] = stores[s]
      BY <2>2 DEF Targeted
    <3>2. /\ stores[s] # Missing \/ Call("create", s) \in CallsOf(j.plan)
          /\ Recreated(s, j.opts) =>
               \/ Call("drop", s) \in CallsOf(j.plan)
               \/ stores[s] = Missing
               \/ stores[s] \subseteq Fitting(s, j.cfg, rows)
      BY DEF SoFar, Emptied
    <3> QED
      BY <1>1, <1>2, <1>3, <2>2, <3>1, <3>2
  <2> QED
    BY <2>1, <2>2
<1> QED
  BY <1>4, <1>5, <1>6 DEF SoFar, Filled, Emptied

(* A store is there, or has been created.                                   *)
LEMMA SyncCreates ==
  ASSUME NEW j, NEW k, NEW stores, NEW stores2, NEW rows, SoFar(j, stores, rows),
         j.plan \in Seq(Calls), j.plan # <<>>, j.todo = {},
         k.plan = Tail(j.plan), k.todo = {}, k.cfg = j.cfg, k.opts = j.opts,
         NEW t \in Stores, Head(j.plan) = Call("create", t),
         stores2[t] = IF stores[t] = Missing THEN {} ELSE stores[t],
         \A s \in Stores : s # t => stores2[s] = stores[s]
  PROVE  SoFar(k, stores2, rows)
<1>1. CallsOf(j.plan) = {Call("create", t)} \cup CallsOf(k.plan)
  BY NextCall
<1>2. \A s : Call("drop", s) # Call("create", t)
  BY DEF Call
<1>3. \A s : Call("create", s) = Call("create", t) => s = t
  BY DEF Call
<1>4. OwnCalls(k) /\ OwnItems(k, rows)
  BY <1>1 DEF OwnCalls, OwnItems, SoFar
<1>5. ASSUME NEW call \in Filling(k.cfg, k.opts), call \notin Left(k)
      PROVE  Brought(call, k, stores2, rows)
  <2>1. call # Call("create", t) /\ About(call) \in Stores
    BY FillingFacts DEF Call
  <2>2. call \notin Left(j)
    BY <1>1, <1>5, <2>1 DEF Left
  <2>3. Brought(call, j, stores, rows)
    BY <2>2 DEF SoFar, Filled
  <2>4. Pending(j, About(call)) = {}
    BY DEF Pending
  <2>5. stores2[About(call)] = stores[About(call)]
    BY <2>1, <2>3 DEF Brought
  <2> QED
    BY <1>1, <2>3, <2>4, <2>5 DEF Brought
<1>6. ASSUME NEW s \in Targeted(k.opts)
      PROVE  /\ stores2[s] # Missing \/ Call("create", s) \in CallsOf(k.plan)
             /\ Recreated(s, k.opts) =>
                  \/ Call("drop", s) \in CallsOf(k.plan)
                  \/ stores2[s] = Missing
                  \/ stores2[s] \subseteq Fitting(s, k.cfg, rows)
  <2>1. /\ stores[s] # Missing \/ Call("create", s) \in CallsOf(j.plan)
        /\ Recreated(s, j.opts) =>
             \/ Call("drop", s) \in CallsOf(j.plan)
             \/ stores[s] = Missing
             \/ stores[s] \subseteq Fitting(s, j.cfg, rows)
    BY DEF SoFar, Emptied
  <2>2. CASE s = t
    <3>1. stores2[s] # Missing
      BY <2>2 DEF Missing
    <3>2. stores2[s] = {} \/ (stores2[s] = stores[s] /\ stores[s] # Missing)
      BY <2>2
    <3> QED
      BY <1>1, <1>2, <2>1, <3>1, <3>2
  <2>3. CASE s # t
    <3>1. stores2[s] = stores[s]
      BY <2>3 DEF Targeted
    <3> QED
      BY <1>1, <1>2, <1>3, <2>1, <2>3, <3>1
  <2> QED
    BY <2>2, <2>3
<1> QED
  BY <1>4, <1>5, <1>6 DEF SoFar, Filled, Emptied

(* The next call has nothing to write: a column without a value.            *)
LEMMA SyncSkips ==
  ASSUME NEW j, NEW k, NEW stores, NEW rows, SoFar(j, stores, rows),
         j.plan \in Seq(Calls), j.plan # <<>>, j.todo = {},
         k.plan = Tail(j.plan), k.todo = {}, k.cfg = j.cfg, k.opts = j.opts,
         Head(j.plan).op = "read", {} \in Contents(Head(j.plan), j.cfg, rows),
         stores[About(Head(j.plan))] # Missing,
         Call("drop", About(Head(j.plan))) \notin CallsOf(j.plan)
  PROVE  SoFar(k, stores, rows)
<1> DEFINE h == Head(j.plan)
<1>1. CallsOf(j.plan) = {h} \cup CallsOf(k.plan)
  BY NextCall
<1>2. \A s : Call("drop", s) # h /\ Call("create", s) # h
  BY DEF Call
<1> HIDE DEF h
<1>3. OwnCalls(k) /\ OwnItems(k, rows)
  BY <1>1 DEF OwnCalls, OwnItems, SoFar
<1>4. ASSUME NEW call \in Filling(k.cfg, k.opts), call \notin Left(k)
      PROVE  Brought(call, k, stores, rows)
  <2>1. CASE call = h
    <3>1. /\ stores[About(call)] # Missing /\ Call("drop", About(call)) \notin CallsOf(k.plan)
          /\ {} \in Contents(call, k.cfg, rows)
      BY <1>1, <2>1 DEF h
    <3> QED
      BY <3>1 DEF Brought
  <2>2. CASE call # h
    <3>1. call \notin Left(j)
      BY <1>1, <1>4, <2>2 DEF Left
    <3>2. Brought(call, j, stores, rows)
      BY <3>1 DEF SoFar, Filled
    <3>3. Pending(j, About(call)) = {}
      BY DEF Pending
    <3> QED
      BY <1>1, <3>2, <3>3 DEF Brought
  <2> QED
    BY <2>1, <2>2
<1>5. Emptied(k, stores, rows)
  BY <1>1, <1>2 DEF SoFar, Emptied
<1> QED
  BY <1>3, <1>4, <1>5 DEF SoFar, Filled

(* The next call has got what it is to write.                               *)
LEMMA SyncBegins ==
  ASSUME NEW j, NEW k, NEW stores, NEW rows, SoFar(j, stores, rows),
         j.plan \in Seq(Calls), j.plan # <<>>, j.todo = {},
         k.plan = j.plan, k.cfg = j.cfg, k.opts = j.opts,
         Head(j.plan) \in Filling(j.cfg, j.opts),
         k.todo \in Contents(Head(j.plan), j.cfg, rows),
         stores[About(Head(j.plan))] # Missing,
         Call("drop", About(Head(j.plan))) \notin CallsOf(j.plan)
  PROVE  SoFar(k, stores, rows)
<1> DEFINE h == Head(j.plan)
<1>1. CallsOf(j.plan) = {h} \cup CallsOf(Tail(j.plan))
  BY NextCall
<1> HIDE DEF h
<1>2. OwnCalls(k)
  BY DEF OwnCalls, SoFar
<1>3. OwnItems(k, rows)
  BY ContentsFit DEF OwnItems
<1>4. ASSUME NEW call \in Filling(k.cfg, k.opts), call \notin Left(k)
      PROVE  Brought(call, k, stores, rows)
  <2>1. CASE call = h
    <3>1. Pending(k, About(call)) = k.todo
      BY <2>1 DEF Pending, h
    <3> QED
      BY <2>1, <3>1 DEF Brought, h
  <2>2. CASE call # h
    <3>1. call \notin Left(j)
      BY <1>1, <1>4, <2>2 DEF Left
    <3>2. Brought(call, j, stores, rows)
      BY <3>1 DEF SoFar, Filled
    <3>3. Pending(j, About(call)) = {}
      BY DEF Pending
    <3> QED
      BY <3>2, <3>3 DEF Brought
  <2> QED
    BY <2>1, <2>2
<1>5. Emptied(k, stores, rows)
  BY DEF SoFar, Emptied
<1> QED
  BY <1>2, <1>3, <1>4, <1>5 DEF SoFar, Filled

(* A batch has been written; the last one ends the call.                    *)
Wrote(j, k, batch, stores, stores2) ==
  LET t == About(Head(j.plan)) IN
  /\ j.plan \in Seq(Calls) /\ j.plan # <<>>
  /\ j.todo # {} /\ Head(j.plan).op \in {"points", "read"}
  /\ batch \subseteq j.todo /\ j.todo \ batch \subseteq k.todo /\ k.todo \subseteq j.todo
  /\ k.plan = IF k.todo = {} THEN Tail(j.plan) ELSE j.plan
  /\ k.cfg = j.cfg /\ k.opts = j.opts
  /\ t \in Stores /\ stores[t] # Missing
  /\ stores2[t] = Put(stores[t], batch) /\ stores2[t] # Missing
  /\ \A s \in Stores : s # t => stores2[s] = stores[s]

LEMMA SyncWrites ==
  ASSUME NEW j, NEW k, NEW batch, NEW stores, NEW stores2, NEW rows,
         SoFar(j, stores, rows), Wrote(j, k, batch, stores, stores2)
  PROVE  SoFar(k, stores2, rows)
<1> DEFINE t == About(Head(j.plan))
<1>0. /\ j.plan \in Seq(Calls) /\ j.plan # <<>>
      /\ j.todo # {} /\ Head(j.plan).op \in {"points", "read"}
      /\ batch \subseteq j.todo /\ j.todo \ batch \subseteq k.todo /\ k.todo \subseteq j.todo
      /\ k.plan = IF k.todo = {} THEN Tail(j.plan) ELSE j.plan
      /\ k.cfg = j.cfg /\ k.opts = j.opts
      /\ t \in Stores /\ stores[t] # Missing
      /\ stores2[t] = Put(stores[t], batch) /\ stores2[t] # Missing
      /\ \A s \in Stores : s # t => stores2[s] = stores[s]
  BY DEF Wrote
<1> USE <1>0
<1> DEFINE F == Fitting(t, j.cfg, rows)
<1>1. CallsOf(j.plan) = {Head(j.plan)} \cup CallsOf(Tail(j.plan))
  BY NextCall
<1>2. CallsOf(k.plan) \subseteq CallsOf(j.plan)
  BY <1>1
<1>3. \A s : /\ Call("drop", s) \in CallsOf(j.plan) => Call("drop", s) \in CallsOf(k.plan)
             /\ Call("create", s) \in CallsOf(j.plan) => Call("create", s) \in CallsOf(k.plan)
  <2>1. \A s : Call("drop", s) # Head(j.plan) /\ Call("create", s) # Head(j.plan)
    BY DEF Call
  <2> QED
    BY <1>1, <2>1
<1>4. j.todo \subseteq F
  BY DEF SoFar, OwnItems
<1>5. Distinct(F)
  BY FittingFacts
<1> HIDE DEF F
<1>6. OwnCalls(k)
  BY <1>2 DEF OwnCalls, SoFar
<1>7. OwnItems(k, rows)
  BY <1>4 DEF OwnItems, F
<1>8. Left(k) = Left(j)
  BY DEF Left
<1>9. j.todo \ batch \subseteq Pending(k, t)
  BY DEF Pending
<1>10. ASSUME NEW call \in Filling(k.cfg, k.opts), call \notin Left(k)
       PROVE  Brought(call, k, stores2, rows)
  <2> DEFINE s == About(call)
  <2>1. Brought(call, j, stores, rows) /\ s \in Stores
    BY <1>8, <1>10, FillingFacts DEF SoFar, Filled
  <2>2. PICK X \in Contents(call, j.cfg, rows) : X \subseteq stores[s] \cup Pending(j, s)
    BY <2>1 DEF Brought
  <2>3. X \subseteq Fitting(s, j.cfg, rows)
    BY ContentsFit
  <2>4. stores[s] # Missing /\ Call("drop", s) \notin CallsOf(k.plan)
    BY <1>2, <2>1 DEF Brought
  <2> HIDE DEF s
  <2>5. stores2[s] # Missing /\ X \subseteq stores2[s] \cup Pending(k, s)
    <3>1. CASE s = t
      <4>1. X \subseteq stores[t] \cup j.todo
        BY <2>2, <3>1 DEF Pending
      <4>2. X \subseteq Put(stores[t], batch) \cup (j.todo \ batch)
        BY <1>4, <1>5, <2>3, <3>1, <4>1, PutKeeps DEF F
      <4> QED
        BY <1>9, <3>1, <4>2
    <3>2. CASE s # t
      <4>1. Pending(j, s) = {}
        BY <3>2 DEF Pending
      <4>2. stores2[s] = stores[s]
        BY <2>1, <3>2 DEF s
      <4> QED
        BY <2>2, <2>4, <4>1, <4>2
    <3> QED
      BY <3>1, <3>2
  <2> QED
    BY <2>2, <2>4, <2>5 DEF Brought, s
<1>11. ASSUME NEW s \in Targeted(k.opts)
       PROVE  /\ stores2[s] # Missing \/ Call("create", s) \in CallsOf(k.plan)
              /\ Recreated(s, k.opts) =>
                   \/ Call("drop", s) \in CallsOf(k.plan)
                   \/ stores2[s] = Missing
                   \/ stores2[s] \subseteq Fitting(s, k.cfg, rows)
  <2>1. /\ stores[s] # Missing \/ Call("create", s) \in CallsOf(j.plan)
        /\ Recreated(s, j.opts) =>
             \/ Call("drop", s) \in CallsOf(j.plan)
             \/ stores[s] = Missing
             \/ stores[s] \subseteq Fitting(s, j.cfg, rows)
    BY DEF SoFar, Emptied
  <2>2. CASE s = t
    <3>1. stores[t] \subseteq F => stores2[t] \subseteq F
      BY <1>4 DEF Put
    <3> QED
      BY <1>3, <2>1, <2>2, <3>1 DEF F
  <2>3. CASE s # t
    <3>1. stores2[s] = stores[s]
      BY <2>3 DEF Targeted
    <3> QED
      BY <1>3, <2>1, <3>1
  <2> QED
    BY <2>2, <2>3
<1> QED
  BY <1>6, <1>7, <1>10, <1>11 DEF SoFar, Filled, Emptied

LEMMA FirstFacts ==
  ASSUME NEW c
  PROVE  FirstValues(c) = FirstOf(dw[c])
BY DEF FirstValues, FirstOf

(* A summary is only there while no job runs, and is right.                 *)
SettledInv ==
  /\ settled # None => job = NoJob
  /\ SyncInv
  /\ SyncedStores

LEMMA SettledStep ==
  ASSUME BuildInv, TypesInv, SettledInv, [Next]_vars
  PROVE  SettledInv'
<1>1. /\ JobInv /\ PlacesInv /\ TodoInv /\ StoreInv /\ OptsInv /\ SyncInv
  BY DEF BuildInv, TypesInv, TypeOK, StoreInv, Distinct, OptsInv, SettledInv
<1>2. ASSUME settled' = None, SyncInv' PROVE SettledInv'
  BY <1>2 DEF SettledInv, SyncedStores
<1>3. job # NoJob => settled = None
  BY DEF SettledInv
<1>4. job.plan # <<>> => job # NoJob
  BY NoJobFacts
<1>5. job.todo # {} => job.plan # <<>> /\ Head(job.plan).op # "commit" /\ Level(Head(job.plan)) = 3
  BY <1>1 DEF JobInv, TodoInv
<1>6. job' = NoJob => SyncInv'
  BY NoJobFacts DEF SyncInv, Syncing
<1>7. ASSUME job.plan # <<>>, settled' = settled, dw' = dw,
             job'.cfg = job.cfg, job'.opts = job.opts, job'.disturbed = job.disturbed,
             Syncing /\ SoFar(job, store, dw) => SoFar(job', store', dw)
      PROVE  SettledInv'
  <2>1. Syncing' => Syncing
    BY <1>7 DEF Syncing
  <2>2. SyncInv'
    BY <1>1, <1>7, <2>1 DEF SyncInv
  <2> QED
    BY <1>2, <1>3, <1>4, <1>7, <2>2
<1>8. job' = Next1 =>
        /\ job'.plan = Tail(job.plan) /\ job'.todo = job.todo
        /\ job'.opts = job.opts /\ job'.cfg = job.cfg /\ job'.disturbed = job.disturbed
  BY <1>1 DEF JobInv, Next1
<1>9. \A set : job' = [job EXCEPT !.todo = set] =>
        /\ job'.plan = job.plan /\ job'.todo = set
        /\ job'.opts = job.opts /\ job'.cfg = job.cfg /\ job'.disturbed = job.disturbed
  BY <1>1 DEF JobInv
<1>10. job.plan \in Seq(Calls)
  BY <1>1 DEF JobInv
<1>11. job.plan # <<>> =>
         /\ Head(job.plan) \in CallsOf(job.plan)
         /\ Head(job.plan) = Call(Head(job.plan).op, On)
  BY <1>1, HeadFacts
<1>12. job.plan # <<>> /\ SoFar(job, store, dw) =>
         Head(job.plan) \in SyncCalls(job.cfg, job.opts)
  BY <1>11 DEF SoFar, OwnCalls
<1>13. ASSUME job.plan # <<>>, Head(job.plan).op \in {"points", "read"}
       PROVE  /\ About(Head(job.plan)) \in Stores
              /\ store[About(Head(job.plan))] # Missing
              /\ Call("drop", About(Head(job.plan))) \notin CallsOf(job.plan)
  <2>1. Level(Head(job.plan)) = 3 /\ Head(job.plan).op # "commit"
    BY <1>13, LevelFacts
  <2> QED
    BY <1>1, <1>13, <2>1, HeadFacts, WrittenIsThere
<1>14. ASSUME NEW opts \in SyncOptions, StartSync(opts) PROVE SettledInv'
  <2>1. /\ job'.plan = QdrantPlan(opts) \o EsPlan(config, opts) /\ job'.todo = {}
        /\ job'.opts = opts /\ job'.cfg = config /\ settled' = None
    BY <1>14 DEF StartSync, NoJob
  <2>2. CallsOf(job'.plan) = SyncCalls(job'.cfg, job'.opts)
    BY <2>1, SyncPlanned DEF SyncCalls, BuildInv
  <2>3. SoFar(job', store', dw')
    BY <2>1, <2>2, SyncStarts
  <2> QED
    BY <1>2, <2>1, <2>3 DEF SyncInv
<1>15. CASE StartBuild
  <2>1. job'.opts = [kind |-> "build", no |-> jobs + 1] /\ settled' = None
    BY <1>15 DEF StartBuild, NoJob
  <2>2. job'.opts.kind = "build"
    BY <2>1
  <2>3. ~Syncing'
    BY <2>2 DEF Syncing
  <2> QED
    BY <1>2, <2>1, <2>3 DEF SyncInv
<1>16. CASE Drop
  <2>1. /\ job.plan # <<>> /\ job.todo = {} /\ Head(job.plan).op = "drop"
        /\ store' = [store EXCEPT ![On] = Missing] /\ job' = Next1
        /\ settled' = settled /\ dw' = dw
    BY <1>16 DEF Drop, Busy, Outside
  <2>2. Head(job.plan) = Call("drop", On)
    BY <1>11, <2>1
  <2>3. On \in Stores
    <3>1. About(Head(job.plan)) \in Stores
      BY <1>1, <2>1, HeadFacts
    <3> QED
      BY <2>1, <3>1 DEF About, On
  <2>4. Call("create", On) \in CallsOf(job.plan)
    <3>1. About(Call("drop", On)) = On /\ Level(Call("drop", On)) # 3
      BY <2>3, CallFacts
    <3> QED
      BY <1>1, <1>11, <2>1, <2>2, <2>3, <3>1 DEF PlacesInv
  <2>5. store'[On] = Missing /\ \A s \in Stores : s # On => store'[s] = store[s]
    BY <1>1, <2>1, <2>3 DEF StoreInv
  <2>6. SoFar(job, store, dw) => SoFar(job', store', dw)
    <3>1. /\ job.plan # <<>> /\ job.todo = {} /\ job'.todo = {}
          /\ job'.plan = Tail(job.plan) /\ job'.cfg = job.cfg /\ job'.opts = job.opts
      BY <1>8, <2>1
    <3>2. ASSUME SoFar(job, store, dw) PROVE SoFar(job', store', dw)
      BY <1>10, <2>2, <2>3, <2>4, <2>5, <3>1, <3>2, SyncDrops, SMTT(20)
    <3> QED
      BY <3>2
  <2> QED
    BY <1>7, <1>8, <2>1, <2>6
<1>17. CASE Create
  <2>1. /\ job.plan # <<>> /\ job.todo = {} /\ Head(job.plan).op = "create"
        /\ store' = [store EXCEPT ![On] = IF @ = Missing THEN {} ELSE @]
        /\ job' = Next1
        /\ settled' = settled /\ dw' = dw
    BY <1>17 DEF Create, Busy, Outside
  <2>2. Head(job.plan) = Call("create", On)
    BY <1>11, <2>1
  <2>3. On \in Stores
    <3>1. About(Head(job.plan)) \in Stores
      BY <1>1, <2>1, HeadFacts
    <3> QED
      BY <2>1, <3>1 DEF About, On
  <2>4. /\ store'[On] = IF store[On] = Missing THEN {} ELSE store[On]
        /\ \A s \in Stores : s # On => store'[s] = store[s]
    BY <1>1, <2>1, <2>3 DEF StoreInv
  <2>5. SoFar(job, store, dw) => SoFar(job', store', dw)
    <3>1. /\ job.plan # <<>> /\ job.todo = {} /\ job'.todo = {}
          /\ job'.plan = Tail(job.plan) /\ job'.cfg = job.cfg /\ job'.opts = job.opts
      BY <1>8, <2>1
    <3>2. ASSUME SoFar(job, store, dw) PROVE SoFar(job', store', dw)
      BY <1>10, <2>2, <2>3, <2>4, <3>1, <3>2, SyncCreates
    <3> QED
      BY <3>2
  <2> QED
    BY <1>7, <1>8, <2>1, <2>5
<1>18. CASE Points
  <2> DEFINE items == IF job.opts.kind = "sync" THEN SyncPoints(On, job.cfg)
                      ELSE BuildPoints(On, job.cfg, job.opts.no)
  <2>1. /\ job.plan # <<>> /\ job.todo = {} /\ Head(job.plan).op = "points"
        /\ job' = [job EXCEPT !.todo = items]
        /\ store' = store /\ settled' = settled /\ dw' = dw
    BY <1>18 DEF Points, Busy, Outside
  <2>2. Syncing => items \in Contents(Head(job.plan), job.cfg, dw)
    BY <2>1 DEF Syncing, Contents, On
  <2> HIDE DEF items
  <2>3. SoFar(job, store, dw) => Head(job.plan) \in Filling(job.cfg, job.opts)
    BY <1>12, <2>1, SyncCallsFacts
  <2>4. Syncing /\ SoFar(job, store, dw) => SoFar(job', store', dw)
    BY <1>9, <1>10, <1>13, <2>1, <2>2, <2>3, SyncBegins
  <2> QED
    BY <1>7, <1>9, <2>1, <2>4
<1>19. CASE ReadValues
  <2>1. /\ job.plan # <<>> /\ job.todo = {} /\ Head(job.plan).op = "read"
        /\ store' = store /\ settled' = settled /\ dw' = dw
    BY <1>19 DEF ReadValues, Busy, Outside
  <2>2. PICK docs :
          /\ job.opts.kind = "sync" => docs \in Contents(Head(job.plan), job.cfg, dw)
          /\ job' = IF docs = {} THEN Next1 ELSE [job EXCEPT !.todo = docs]
    <3>1. CASE job.opts.kind = "sync"
      <4>1. PICK c \in On : \E raws \in FirstValues(c) :
              job' = IF SyncDocs(c, raws) = {} THEN Next1
                     ELSE [job EXCEPT !.todo = SyncDocs(c, raws)]
        BY <1>19, <3>1 DEF ReadValues
      <4>2. PICK raws \in FirstOf(dw[c]) :
              job' = IF SyncDocs(c, raws) = {} THEN Next1
                     ELSE [job EXCEPT !.todo = SyncDocs(c, raws)]
        BY <4>1, FirstFacts
      <4>3. SyncDocs(c, raws) \in Contents(Head(job.plan), job.cfg, dw)
        BY <2>1, <4>1, <4>2 DEF Contents, On
      <4> QED
        BY <4>2, <4>3
    <3>2. CASE job.opts.kind # "sync"
      BY <1>19, <3>2 DEF ReadValues
    <3> QED
      BY <3>1, <3>2
  <2>3. SoFar(job, store, dw) => Head(job.plan) \in Filling(job.cfg, job.opts)
    BY <1>12, <2>1, SyncCallsFacts
  <2>4. CASE docs = {}
    <3>1. job' = Next1
      BY <2>2, <2>4
    <3>2. Syncing => {} \in Contents(Head(job.plan), job.cfg, dw)
      BY <2>2, <2>4 DEF Syncing
    <3>3. Syncing /\ SoFar(job, store, dw) => SoFar(job', store', dw)
      BY <1>8, <1>10, <1>13, <2>1, <3>1, <3>2, SyncSkips
    <3> QED
      BY <1>7, <1>8, <2>1, <3>1, <3>3
  <2>5. CASE docs # {}
    <3>1. job' = [job EXCEPT !.todo = docs]
      BY <2>2, <2>5
    <3>2. Syncing => docs \in Contents(Head(job.plan), job.cfg, dw)
      BY <2>2 DEF Syncing
    <3>3. Syncing /\ SoFar(job, store, dw) => SoFar(job', store', dw)
      BY <1>9, <1>10, <1>13, <2>1, <2>3, <3>1, <3>2, SyncBegins
    <3> QED
      BY <1>7, <1>9, <2>1, <3>1, <3>3
  <2> QED
    BY <2>4, <2>5
<1>20. CASE WriteBatch
  <2>1. PICK batch \in SUBSET job.todo :
          /\ job.todo # {} /\ store' = Written(batch)
          /\ job' = IF batch = job.todo THEN [Next1 EXCEPT !.todo = {}]
                    ELSE [job EXCEPT !.todo = @ \ batch]
          /\ settled' = settled /\ dw' = dw
    BY <1>20 DEF WriteBatch, Outside
  <2> DEFINE t == About(Head(job.plan))
  <2>2. /\ t \in Stores /\ store[t] # Missing
        /\ store'[t] = Put(store[t], batch) /\ store'[t] # Missing
        /\ \A s \in Stores : s # t => store'[s] = store[s]
    BY <1>1, <2>1, WrittenFacts
  <2>3. /\ job'.opts = job.opts /\ job'.cfg = job.cfg /\ job'.disturbed = job.disturbed
        /\ \/ job'.plan = Tail(job.plan) /\ job'.todo = {} /\ batch = job.todo
           \/ job'.plan = job.plan /\ job'.todo = job.todo \ batch /\ batch # job.todo
    <3>1. CASE batch = job.todo
      BY <1>1, <2>1, <3>1 DEF JobInv, Next1
    <3>2. CASE batch # job.todo
      BY <1>1, <2>1, <3>2 DEF JobInv
    <3> QED
      BY <3>1, <3>2
  <2>4. SoFar(job, store, dw) => Head(job.plan).op \in {"points", "read"}
    <3>1. Head(job.plan).op \notin {"drop", "create"}
      BY <1>5, <2>1 DEF Level
    <3> QED
      BY <1>5, <1>12, <2>1, <3>1, SyncCallsFacts
  <2> HIDE DEF t
  <2>5. SoFar(job, store, dw) => SoFar(job', store', dw)
    <3>1. job.plan # <<>> /\ job.todo # {}
      BY <1>5, <2>1
    <3>2. ASSUME SoFar(job, store, dw) PROVE SoFar(job', store', dw)
      <4>1. Head(job.plan).op \in {"points", "read"}
        BY <2>4, <3>2
      <4>2. /\ job.todo \ batch \subseteq job'.todo /\ job'.todo \subseteq job.todo
            /\ job'.plan = IF job'.todo = {} THEN Tail(job.plan) ELSE job.plan
        BY <2>3
      <4>3. Wrote(job, job', batch, store, store')
        BY <1>10, <2>2, <2>3, <3>1, <4>1, <4>2 DEF Wrote, t
      <4> QED
        BY <3>2, <4>3, SyncWrites
    <3> QED
      BY <3>2
  <2> QED
    BY <1>5, <1>7, <2>1, <2>3, <2>5
<1>21. CASE BulkErrors
  <2>1. job' = NoJob /\ settled' = settled /\ job.todo # {}
    BY <1>21 DEF BulkErrors, Outside
  <2> QED
    BY <1>2, <1>3, <1>4, <1>5, <1>6, <2>1
<1>22. CASE Commit
  <2>1. /\ job.plan # <<>> /\ Head(job.plan).op = "commit"
        /\ job' = NoJob \/ job' = Next1
        /\ settled' = settled /\ dw' = dw
    BY <1>22 DEF Commit, Busy, Outside
  <2>2. CASE job' = NoJob
    BY <1>2, <1>3, <1>4, <1>6, <2>1, <2>2
  <2>3. CASE job' = Next1
    <3>1. ~SoFar(job, store, dw)
      BY <1>12, <2>1, SyncCallsFacts
    <3> QED
      BY <1>7, <1>8, <2>1, <2>3, <3>1
  <2> QED
    BY <2>1, <2>2, <2>3
<1>23. CASE Fail
  BY <1>2, <1>3, <1>6, <1>23 DEF Fail, Outside
<1>24. CASE Finish
  <2>1. /\ job # NoJob /\ job.plan = <<>> /\ job' = NoJob /\ store' = store /\ dw' = dw
        /\ settled' = IF job.disturbed \/ job.opts.kind = "build" THEN None
                      ELSE [cfg |-> job.cfg, opts |-> job.opts]
    BY <1>24 DEF Finish
  <2>2. CASE settled' = None
    BY <1>2, <1>6, <2>1, <2>2
  <2>3. CASE settled' # None
    <3>1. /\ settled' = [cfg |-> job.cfg, opts |-> job.opts]
          /\ ~job.disturbed /\ job.opts.kind # "build"
      BY <2>1, <2>3
    <3>2. job.opts # None /\ job.opts.kind = "sync"
      BY <1>1, <2>1, <3>1 DEF OptsInv, SyncOptions, BuildOptions
    <3>3. SoFar(job, store, dw)
      BY <1>1, <3>1, <3>2 DEF SyncInv, Syncing
    <3>4. job.todo = {} /\ CallsOf(job.plan) = {}
      BY <1>5, <2>1, NoCalls
    <3>5. ASSUME NEW call \in Filling(job.cfg, job.opts)
          PROVE  /\ store[About(call)] # Missing
                 /\ \E X \in Contents(call, job.cfg, dw) : X \subseteq store[About(call)]
      <4>1. Brought(call, job, store, dw)
        BY <3>3, <3>4 DEF SoFar, Filled, Left
      <4>2. Pending(job, About(call)) = {}
        BY <3>4 DEF Pending
      <4> QED
        BY <4>1, <4>2 DEF Brought
    <3>6. ASSUME NEW s \in Targeted(job.opts)
          PROVE  /\ store[s] # Missing
                 /\ Recreated(s, job.opts) => store[s] \subseteq Fitting(s, job.cfg, dw)
      BY <3>3, <3>4 DEF SoFar, Emptied
    <3>7. ASSUME "qdrant" \in job.opts.targets, NEW s \in {"columns", "metrics"}
          PROVE  /\ SyncPoints(s, job.cfg) \subseteq store[s]
                 /\ job.opts.collections => store[s] = SyncPoints(s, job.cfg)
      <4>1. Call("points", s) \in Filling(job.cfg, job.opts)
        BY <3>7 DEF Filling
      <4>2. /\ About(Call("points", s)) = s
            /\ Contents(Call("points", s), job.cfg, dw) = {SyncPoints(s, job.cfg)}
        BY DEF About, Call, Contents
      <4>3. SyncPoints(s, job.cfg) \subseteq store[s]
        BY <3>5, <4>1, <4>2
      <4>4. s \in Targeted(job.opts) /\ s # "values"
        BY <3>7 DEF Targeted, Stores
      <4>5. job.opts.collections => store[s] \subseteq SyncPoints(s, job.cfg)
        BY <3>6, <4>4 DEF Recreated, Fitting
      <4> QED
        BY <4>3, <4>5
    <3>8. ASSUME "es" \in job.opts.targets, NEW c \in Visible(job.cfg)
          PROVE  \E raws \in FirstValues(c) : SyncDocs(c, raws) \subseteq store["values"]
      <4>1. Call("read", {c}) \in Filling(job.cfg, job.opts)
        BY <3>8 DEF Filling, ReadCalls
      <4>2. About(Call("read", {c})) = "values"
        BY DEF About, Call
      <4>3. PICK X \in Contents(Call("read", {c}), job.cfg, dw) : X \subseteq store["values"]
        BY <3>5, <4>1, <4>2
      <4>4. PICK raws \in FirstOf(dw[c]) : X = SyncDocs(c, raws)
        BY <4>3 DEF Contents, Call
      <4> QED
        BY <4>3, <4>4, FirstFacts
    <3>9. ASSUME "es" \in job.opts.targets, job.opts.index, NEW x \in store["values"]
          PROVE  \E c \in job.cfg.synced \ Sensitive : x \in SyncDocs(c, dw[c])
      <4>1. "values" \in Targeted(job.opts) /\ Recreated("values", job.opts)
        BY <3>9 DEF Targeted, Stores, Recreated
      <4>2. x \in Fitting("values", job.cfg, dw)
        BY <3>6, <3>9, <4>1
      <4> QED
        BY <4>2 DEF Fitting, Visible
    <3>10. settled'.cfg = job.cfg /\ settled'.opts = job.opts
      BY <3>1
    <3>11. ASSUME "qdrant" \in job.opts.targets, NEW s \in {"columns", "metrics"}
           PROVE  PointsMatch(s, settled.cfg, settled.opts.collections)'
      BY <2>1, <3>7, <3>10, <3>11 DEF PointsMatch
    <3>12. ASSUME "es" \in job.opts.targets
           PROVE  ValuesMatch(settled.cfg, settled.opts.index)'
      <4>1. ASSUME NEW c \in Visible(job.cfg)
            PROVE  \E raws \in FirstValues(c)' : SyncDocs(c, raws) \subseteq store'["values"]
        BY <2>1, <3>8, <3>12, <4>1 DEF FirstValues
      <4>2. job.opts.index =>
              \A x \in store'["values"] :
                \E c \in job.cfg.synced \ Sensitive : x \in SyncDocs(c, dw'[c])
        BY <2>1, <3>9, <3>12
      <4> QED
        BY <3>10, <4>1, <4>2 DEF ValuesMatch
    <3>13. SyncedStores'
      BY <3>10, <3>11, <3>12 DEF SyncedStores
    <3> QED
      BY <1>6, <2>1, <3>13 DEF SettledInv
  <2> QED
    BY <2>2, <2>3
<1>25. CASE Change
  <2>1. settled' = None
        /\ job' = IF job = NoJob THEN job ELSE [job EXCEPT !.disturbed = TRUE]
    BY <1>25 DEF Change
  <2>2. CASE job = NoJob
    BY <1>2, <1>6, <2>1, <2>2
  <2>3. CASE job # NoJob
    <3>1. job'.disturbed
      BY <1>1, <2>1, <2>3 DEF JobInv
    <3> QED
      BY <1>2, <2>1, <3>1 DEF SyncInv, Syncing
  <2> QED
    BY <2>2, <2>3
<1>26. CASE UNCHANGED vars
  <2>1. /\ job' = job /\ store' = store /\ dw' = dw /\ settled' = settled
    BY <1>26 DEF vars
  <2>2. SyncInv'
    BY <1>1, <2>1 DEF SyncInv, Syncing
  <2>3. SyncedStores'
    BY <2>1 DEF SettledInv, SyncedStores, PointsMatch, ValuesMatch, FirstValues
  <2> QED
    BY <2>1, <2>2, <2>3 DEF SettledInv
<1> QED
  BY <1>14, <1>15, <1>16, <1>17, <1>18, <1>19, <1>20, <1>21, <1>22, <1>23, <1>24,
     <1>25, <1>26 DEF Next

(* After a sync that succeeded the stores it was for hold what the file and *)
(* the warehouse say, and those it recreated nothing else, whatever failed  *)
(* before it and wherever, and whatever the older builder had written       *)
(* (MetadataSyncService.sync).                                              *)
THEOREM StoresMatch == Spec => []SyncedStores
<1>1. Init => SettledInv
  BY NoJobFacts DEF Init, SettledInv, SyncInv, Syncing, SyncedStores
<1>2. BuildInv /\ TypesInv /\ SettledInv /\ [Next]_vars => SettledInv'
  BY SettledStep
<1>3. SettledInv => SyncedStores
  BY DEF SettledInv
<1> QED
  BY <1>1, <1>2, <1>3, BuildInvariant, TypesInvariant, PTL DEF Spec
=============================================================================
