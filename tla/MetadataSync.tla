---------------------------- MODULE MetadataSync ----------------------------
(***************************************************************************)
(* How the metadata of the warehouse gets into the stores the agent        *)
(* searches: MetadataSyncService.sync (app/service/                        *)
(* metadata_sync_service.py), started by the scripts, and the older        *)
(* MetaKnowledgeService.build (app/service/meta_knowledge_service.py),     *)
(* which also fills the metadata database. No transaction spans the        *)
(* stores: a job is a list of calls, any of which may fail.                *)
(*                                                                         *)
(* A dry run builds the service without repositories, counts and returns;  *)
(* it has no step here.                                                    *)
(***************************************************************************)
EXTENDS Integers, FiniteSets, Sequences

CONSTANTS
  Columns,      \* column ids, table.column
  TableOf,      \* [Columns -> table names]
  Metrics,      \* metric names
  Sensitive,    \* the columns security.sensitive_fields names
  Configs,      \* what conf/meta_config.yaml may say, see ValidConfig
  RawValues,    \* values of the warehouse's columns
  Normal,       \* normalize_value: [RawValues -> strings or NoValue]
  NoValue,      \* None: NULL or a blank string
  MaxValues,    \* max_values_per_column
  BatchSize,    \* of an upsert and of a bulk request
  MaxJobs, MaxChanges \* bounds: jobs, and changes of file or warehouse

Stores == {"columns", "metrics", "values"}

(* MetaConfig.validate_references: unique names and known columns           *)
ValidConfig(cfg) ==
  /\ cfg.columns \in (SUBSET Columns) \ {{}}
  /\ cfg.synced \subseteq cfg.columns                  \* sync: true
  /\ cfg.metrics \in (SUBSET Metrics) \ {{}}
  /\ \A m \in cfg.metrics : cfg.relevant[m] \in (SUBSET cfg.columns) \ {{}}

ASSUME ColumnsAssumption == IsFiniteSet(Columns)
ASSUME ConfigsAssumption == \A cfg \in Configs : ValidConfig(cfg)
ASSUME BoundsAssumption ==
  /\ MaxValues \in Nat \ {0} /\ BatchSize \in Nat \ {0}
  /\ MaxJobs \in Nat /\ MaxChanges \in Nat

VARIABLES
  config,   \* the file
  dw,       \* the warehouse: the distinct values of each column
  store,    \* the two Qdrant collections and the Elasticsearch index
  meta,     \* the metadata database
  job,      \* the job that runs
  settled,  \* history: the last job, if it succeeded and nothing changed since
  jobs, changes

vars == <<config, dw, store, meta, job, settled, jobs, changes>>

None == [none |-> TRUE]
Missing == {None}                 \* no such collection or index

(* What a store holds under an id: "id" tells who wrote it, "of" what it is *)
(* about, "says" its payload.                                               *)
Item(id, of, says) == [id |-> id, of |-> of, says |-> says]

(* Mutant: insert instead of upsert.                                        *)
PutBeside(items, new) == items \cup new

Put(items, new) ==
  {x \in items : \A y \in new : y.id # x.id} \cup new

(* A job: the calls it has yet to make, the items it is writing, the file   *)
(* as it read it, its options, and whether the file or the warehouse have   *)
(* changed since it began.                                                  *)
Call(op, on) == [op |-> op, on |-> on]
Ops == {"drop", "create", "points", "read", "tables", "commit"}

NoJob == [plan |-> <<>>, todo |-> {}, cfg |-> None, opts |-> None,
          disturbed |-> FALSE]

Targets == {{"qdrant"}, {"es"}, {"qdrant", "es"}}
SyncOptions == [kind: {"sync"}, targets: Targets,
                collections: BOOLEAN, index: BOOLEAN]
BuildOptions == [kind: {"build"}, no: 1..MaxJobs]

TypeOK ==
  /\ config \in Configs
  /\ dw \in [Columns -> SUBSET RawValues]
  /\ DOMAIN store = Stores
  /\ \A s \in Stores : store[s] # Missing =>
       \A x, y \in store[s] : x.id = y.id => x = y
  /\ meta \in [tables: SUBSET {TableOf[c] : c \in Columns},
              columns: SUBSET Columns, metrics: SUBSET Metrics,
              refs: SUBSET (Columns \X Metrics)]
  /\ \A k \in DOMAIN job.plan : job.plan[k].op \in Ops
  /\ job.opts \in SyncOptions \cup BuildOptions \cup {None}
  /\ job.opts = None => job = NoJob
  /\ jobs \in 0..MaxJobs /\ changes \in 0..MaxChanges

Init ==
  /\ config \in Configs
  /\ dw \in [Columns -> {RawValues}]
  /\ store = [s \in Stores |-> Missing]
  /\ meta = [tables |-> {}, columns |-> {}, metrics |-> {}, refs |-> {}]
  /\ job = NoJob /\ settled = None
  /\ jobs = 0 /\ changes = 0

Busy(op) == job.plan # <<>> /\ Head(job.plan).op = op /\ job.todo = {}
On == Head(job.plan).on
Next1 == [job EXCEPT !.plan = Tail(@)]
Outside == UNCHANGED <<config, dw, settled, jobs, changes>>

-----------------------------------------------------------------------------
(* What is written                                                          *)

(* _build_column_payloads, _build_metric_payload and qdrant_point_id: the   *)
(* id is a hash of the kind and the name.                                   *)
SyncPoints(s, cfg) ==
  {Item(<<"sync", s, x>>, x, cfg.says[x]) :
     x \in IF s = "columns" THEN cfg.columns ELSE cfg.metrics}

(* _save_column_info_to_qdrant, _save_metric_info_to_qdrant: a uuid4 for    *)
(* the name, the description and each alias.                                *)
BuildPoints(s, cfg, no) ==
  {Item(<<"build", no, x, text>>, x, cfg.says[x]) :
     x \in IF s = "columns" THEN cfg.columns ELSE cfg.metrics,
     text \in {"name", "description"}}

(* _normalize_values and _build_value_infos: blanks and what normalizes to  *)
(* a value that was seen are left out.                                      *)
SyncDocs(c, raws) ==
  {Item(<<"sync", c, Normal[raw]>>, c, Normal[raw]) :
     raw \in {raw \in raws : Normal[raw] # NoValue}}

(* _save_value_info_to_es                                                   *)
BuildDocs(c, raws) == {Item(<<"build", c, raw>>, c, raw) : raw \in raws}

(* Mutant: a column is left out because of its sync flag only.              *)
VisibleIfSynced(cfg) == cfg.synced

(* The columns whose values sync_es reads: _is_sensitive_column             *)
Visible(cfg) == cfg.synced \ Sensitive

-----------------------------------------------------------------------------
(* The jobs                                                                 *)

InSomeOrder(set) == CHOOSE seq \in [1..Cardinality(set) -> set] :
                      \A i, j \in DOMAIN seq : i # j => seq[i] # seq[j]

(* Mutant: the index is only emptied when the collections are too.          *)
PreparedTogether(s, opts) ==
  IF opts.collections /\ opts.index
  THEN <<Call("drop", s), Call("create", s)>> ELSE <<Call("create", s)>>

(* recreate_collection and recreate_index, or ensure_collection and         *)
(* ensure_index                                                             *)
Prepared(s, opts) ==
  IF (s = "values" /\ opts.index) \/ (s # "values" /\ opts.collections)
  THEN <<Call("drop", s), Call("create", s)>> ELSE <<Call("create", s)>>

QdrantPlan(opts) ==
  IF "qdrant" \notin opts.targets THEN <<>>
  ELSE Prepared("columns", opts) \o Prepared("metrics", opts)
       \o <<Call("points", "columns"), Call("points", "metrics")>>

EsPlan(cfg, opts) ==
  IF "es" \notin opts.targets THEN <<>>
  ELSE Prepared("values", opts)
       \o [k \in 1..Cardinality(Visible(cfg)) |->
             Call("read", {InSomeOrder(Visible(cfg))[k]})]

(* run_sync: the file is loaded, then sync_qdrant and sync_es run.          *)
StartSync(opts) ==
  /\ job = NoJob /\ jobs < MaxJobs
  /\ job' = [NoJob EXCEPT !.plan = QdrantPlan(opts) \o EsPlan(config, opts),
                          !.cfg = config, !.opts = opts]
  /\ jobs' = jobs + 1 /\ settled' = None
  /\ UNCHANGED <<config, dw, store, meta, changes>>

(* Mutant: the metrics are saved before the tables.                         *)
BuildPlanMetricsFirst(cfg) ==
  << Call("commit", "metrics"), Call("create", "metrics"),
     Call("points", "metrics"), Call("commit", "columns"),
     Call("create", "columns"), Call("points", "columns"),
     Call("create", "values"), Call("read", cfg.synced) >>

(* MetaKnowledgeService.build                                               *)
BuildPlan(cfg) ==
  << Call("commit", "columns"), Call("create", "columns"),
     Call("points", "columns"), Call("create", "values"),
     Call("read", cfg.synced), Call("commit", "metrics"),
     Call("create", "metrics"), Call("points", "metrics") >>

StartBuild ==
  /\ job = NoJob /\ jobs < MaxJobs
  /\ job' = [NoJob EXCEPT !.plan = BuildPlan(config), !.cfg = config,
                          !.opts = [kind |-> "build", no |-> jobs + 1]]
  /\ jobs' = jobs + 1 /\ settled' = None
  /\ UNCHANGED <<config, dw, store, meta, changes>>

Drop ==
  /\ Busy("drop")
  /\ store' = [store EXCEPT ![On] = Missing]
  /\ job' = Next1
  /\ UNCHANGED meta /\ Outside

Create ==
  /\ Busy("create")
  /\ store' = [store EXCEPT ![On] = IF @ = Missing THEN {} ELSE @]
  /\ job' = Next1
  /\ UNCHANGED meta /\ Outside

(* The payloads have been embedded.                                         *)
Points ==
  /\ Busy("points")
  /\ job' = [job EXCEPT !.todo =
       IF job.opts.kind = "sync" THEN SyncPoints(On, job.cfg)
       ELSE BuildPoints(On, job.cfg, job.opts.no)]
  /\ UNCHANGED <<store, meta>> /\ Outside

(* get_column_values: SELECT DISTINCT ... LIMIT, of which sync keeps at     *)
(* most max_values_per_column                                               *)
FirstValues(c) ==
  IF Cardinality(dw[c]) <= MaxValues THEN {dw[c]}
  ELSE {raws \in SUBSET dw[c] : Cardinality(raws) = MaxValues}

(* The values of a column: it may well have none to write.                  *)
ReadValues ==
  /\ Busy("read")
  /\ \/ /\ job.opts.kind = "sync"
        /\ \E c \in On : \E raws \in FirstValues(c) :
             LET docs == SyncDocs(c, raws) IN
             job' = IF docs = {} THEN Next1 ELSE [job EXCEPT !.todo = docs]
     \/ /\ job.opts.kind = "build"
        /\ LET docs == UNION {BuildDocs(c, dw[c]) : c \in On} IN
           job' = IF docs = {} THEN Next1 ELSE [job EXCEPT !.todo = docs]
  /\ UNCHANGED <<store, meta>> /\ Outside

Written(batch) ==
  LET s == IF Head(job.plan).op = "read" THEN "values" ELSE On IN
  [store EXCEPT ![s] = Put(@, batch)]

(* upsert or bulk: one batch; the last one ends the call.                   *)
WriteBatch ==
  /\ job.todo # {}
  /\ \E batch \in SUBSET job.todo :
       /\ \/ Cardinality(batch) = BatchSize
          \/ batch = job.todo /\ Cardinality(batch) < BatchSize
       /\ store' = Written(batch)
       /\ job' = IF batch = job.todo
                 THEN [Next1 EXCEPT !.todo = {}]
                 ELSE [job EXCEPT !.todo = @ \ batch]
  /\ UNCHANGED meta /\ Outside

(* The bulk response has errors: a part of the batch was indexed.           *)
BulkErrors ==
  /\ job.todo # {} /\ Head(job.plan).op = "read"
  /\ \E part \in SUBSET job.todo :
       Cardinality(part) < BatchSize /\ store' = Written(part)
  /\ job' = NoJob
  /\ UNCHANGED meta /\ Outside

MetaAfterTables(cfg) ==
  [meta EXCEPT !.tables = @ \cup {TableOf[c] : c \in cfg.columns},
               !.columns = @ \cup cfg.columns]

MetaAfterMetrics(cfg) ==
  [meta EXCEPT !.metrics = @ \cup cfg.metrics,
               !.refs = @ \cup {r \in Columns \X cfg.metrics :
                                   r[1] \in cfg.relevant[r[2]]}]

(* Whether INSERT meets a primary key that is there already                 *)
Clashes(s, cfg) ==
  IF s = "columns"
  THEN {TableOf[c] : c \in cfg.columns} \cap meta.tables # {}
  ELSE cfg.metrics \cap meta.metrics # {}

(* _save_tables_to_meta_db, _save_metrics_to_meta_db: one transaction each  *)
Commit ==
  /\ Busy("commit")
  /\ IF Clashes(On, job.cfg) THEN job' = NoJob /\ UNCHANGED meta
     ELSE /\ job' = Next1
          /\ meta' = IF On = "columns" THEN MetaAfterTables(job.cfg)
                     ELSE MetaAfterMetrics(job.cfg)
  /\ UNCHANGED store /\ Outside

(* Any call raises (the warehouse, the embeddings, whose number and size    *)
(* are checked, or a store), or the process dies.                           *)
Fail ==
  /\ job # NoJob
  /\ job' = NoJob
  /\ UNCHANGED <<store, meta>> /\ Outside

(* The job returns its summary.                                             *)
Finish ==
  /\ job # NoJob /\ job.plan = <<>>
  /\ job' = NoJob
  /\ settled' = IF job.disturbed \/ job.opts.kind = "build" THEN None
                ELSE [cfg |-> job.cfg, opts |-> job.opts]
  /\ UNCHANGED <<config, dw, store, meta, jobs, changes>>

(* Somebody edits the file, or the warehouse is loaded.                     *)
Change ==
  /\ changes < MaxChanges
  /\ changes' = changes + 1
  /\ \/ config' \in Configs \ {config} /\ UNCHANGED dw
     \/ /\ \E c \in Columns, raws \in SUBSET RawValues :
             dw[c] # raws /\ dw' = [dw EXCEPT ![c] = raws]
        /\ UNCHANGED config
  /\ settled' = None
  /\ job' = IF job = NoJob THEN job ELSE [job EXCEPT !.disturbed = TRUE]
  /\ UNCHANGED <<store, meta, jobs>>

Next ==
  \/ \E opts \in SyncOptions : StartSync(opts)
  \/ StartBuild
  \/ Drop \/ Create \/ Points \/ ReadValues \/ WriteBatch \/ BulkErrors
  \/ Commit \/ Fail \/ Finish \/ Change

Spec == Init /\ [][Next]_vars

-----------------------------------------------------------------------------
(* After a sync that succeeded, whatever failed before it and wherever, the *)
(* stores it was for hold what the file says, each column and metric once   *)
(* among its own points, and the values of the warehouse; nothing was left  *)
(* of an earlier file in what it wrote. A store that it recreated holds     *)
(* nothing else, not even what the older service had put there.             *)
PointsMatch(s, cfg, recreated) ==
  /\ SyncPoints(s, cfg) \subseteq store[s]
  /\ recreated => store[s] = SyncPoints(s, cfg)

ValuesMatch(cfg, recreated) ==
  /\ \A c \in Visible(cfg) :
       \/ SyncDocs(c, dw[c]) \subseteq store["values"]
       \/ \E raws \in FirstValues(c) :
            SyncDocs(c, raws) \subseteq store["values"]
  /\ recreated => \A x \in store["values"] :
                    \E c \in cfg.synced \ Sensitive : x \in SyncDocs(c, dw[c])

SyncedStores ==
  settled # None =>
    /\ "qdrant" \in settled.opts.targets =>
         \A s \in {"columns", "metrics"} :
           PointsMatch(s, settled.cfg, settled.opts.collections)
    /\ "es" \in settled.opts.targets =>
         ValuesMatch(settled.cfg, settled.opts.index)

(* What the agent reads from the metadata database hangs together although  *)
(* a build may fail between its two transactions and meet the rows of an    *)
(* earlier one: a metric's columns are there with their tables, and every   *)
(* metric has one.                                                          *)
MetaConsistent ==
  /\ \A ref \in meta.refs : ref[1] \in meta.columns /\ ref[2] \in meta.metrics
  /\ \A m \in meta.metrics : \E c \in meta.columns : <<c, m>> \in meta.refs
  /\ \A c \in meta.columns : TableOf[c] \in meta.tables
=============================================================================
