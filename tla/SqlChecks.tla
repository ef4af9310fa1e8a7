------------------------------ MODULE SqlChecks ------------------------------
(***************************************************************************)
(* What a statement written by the model has to pass before it runs: the   *)
(* row limit and the allow lists (security/sql_security.py), the           *)
(* permissions of the caller (security/sql_access.py, authorization.py)    *)
(* and the estimate of its cost (security/sql_cost.py).                    *)
(*                                                                         *)
(* A statement is the record of what the checks look at:                   *)
(*   [pure     exactly one statement that parses,                          *)
(*    select   it is a SELECT (or a set operation of them),                *)
(*    banned, star   it uses a banned capability or function, a star,      *)
(*    refs     its table references, in the order they are found,          *)
(*    ctes, outputs  names of its CTEs and of its output columns,          *)
(*    columns  its column references [qualifier, name],                    *)
(*    limit    its LIMIT]                                                  *)
(* with flat scopes: an unqualified column sees every table of refs.       *)
(***************************************************************************)
EXTENDS Integers, Sequences, FiniteSets, SequencesExt

CONSTANTS
    MaxRows,            \* max_result_rows
    SystemSchemas, Database,
    AllowStar,          \* allow_select_star
    MaxEstimatedRows, MaxQueryCost, MaxJoinTables,
    MaxFactScans, MaxUnknownScanRows, AllowDimensionScan,
    RejectAnyScan, RejectFilesort, RejectTemporary,
    FactTables, DimensionTables   \* by role in the metadata or by name

\* load_app_config and enforce_select_limit refuse a limit of zero.
ASSUME RowLimit == MaxRows \in Nat \ {0}

None == "none"          \* no schema, no alias, no qualifier
NoLimit == -1
NotLiteral == -2        \* LIMIT with an expression or a string
Unknown == -1           \* a cost the plan does not give

(***************************************************************************)
(* enforce_select_limit.                                                   *)
(***************************************************************************)
Limitable(sql) == sql.pure /\ sql.select /\ sql.limit # NotLiteral

WithLimit(sql, n) ==
    IF sql.limit = NoLimit \/ sql.limit > n THEN [sql EXCEPT !.limit = n] ELSE sql

(***************************************************************************)
(* validate_readonly_sql against table_infos: tables = [name, columns],    *)
(* whose columns are names here.                                           *)
(***************************************************************************)
Physical(sql) == SelectSeq(sql.refs, LAMBDA ref : ref.table \notin sql.ctes)

\* _table_name: the name of a reference, with the schema it gives.
Qualified(ref) ==
    IF ref.schema = None THEN <<ref.table>> ELSE <<ref.schema, ref.table>>

\* The tables of a statement, with their schema.
ReferencedTables(sql) ==
    {[schema |-> ref.schema, table |-> ref.table] : ref \in ToSet(Physical(sql))}

AllowedColumns(tables, name) == UNION {t.columns : t \in {u \in tables : u.name = name}}

TableAllowed(ref, tables) ==
    /\ ref.schema \notin SystemSchemas /\ ref.table \notin SystemSchemas
    /\ \E t \in tables : t.name = ref.table

\* The reference a qualifier stands for: the last one of that name or alias.
Meant(sql, qualifier) ==
    LET refs == Physical(sql)
    IN  SelectSeq(refs, LAMBDA ref : qualifier \in {ref.table, ref.alias})

QualifiedAllowed(column, sql, tables) ==
    \/ column.qualifier \in sql.ctes
    \/ LET meant == Meant(sql, column.qualifier)
       IN  /\ meant # <<>>
           /\ column.name \in AllowedColumns(tables, Last(meant).table)

\* The tables an unqualified column may belong to.
Owners(column, sql, tables) ==
    {ref \in ReferencedTables(sql) : column.name \in AllowedColumns(tables, ref.table)}

ColumnAllowed(column, sql, tables) ==
    IF column.qualifier # None THEN QualifiedAllowed(column, sql, tables)
    ELSE \/ column.name \in sql.outputs
         \/ Cardinality(Owners(column, sql, tables)) = 1

ReferencedColumns(sql, tables) ==
    {Qualified(Last(Meant(sql, c.qualifier))) \o <<c.name>> :
        c \in {d \in sql.columns : d.qualifier \notin sql.ctes \cup {None}}}
    \cup UNION {{Qualified(ref) \o <<c.name>> : ref \in Owners(c, sql, tables)} :
                   c \in {d \in sql.columns : d.qualifier = None /\ d.name \notin sql.outputs}}

Valid(sql, tables) ==
    /\ sql.pure /\ sql.select /\ ~sql.banned
    /\ AllowStar \/ ~sql.star
    /\ \A ref \in ReferencedTables(sql) : TableAllowed(ref, tables)
    /\ \A column \in sql.columns : ColumnAllowed(column, sql, tables)

(***************************************************************************)
(* SQLAccessController.check with the engine's default: deny.  A grant is  *)
(* <<type, name>> of a resource that may be read, a name is a tuple; "*"   *)
(* stands for all.  A table is asked for as the statement names it: a      *)
(* grant on orders is none on dw.orders, nor the other way round.          *)
(***************************************************************************)
Authorized(grants, type, name) ==
    grants \cap {<<"*", <<"*">>>>, <<type, <<"*">>>>, <<type, name>>} # {}

MayRead(grants, sql, tables) ==
    /\ Authorized(grants, "database", <<Database>>)
    /\ \A ref \in ReferencedTables(sql) : Authorized(grants, "table", Qualified(ref))
    /\ \A c \in ReferencedColumns(sql, tables) : Authorized(grants, "column", c)

(***************************************************************************)
(* assess_explain_json.  A plan is [readable, cost, nodes, filesort,       *)
(* temporary]: cost is the query_cost of its query block, nodes its tables *)
(* in the order of the plan, each [name, rows, access, costs], costs =     *)
(* [known, query, prefix, read, eval] its cost_info.  Plans stay below the *)
(* 10 000 nodes and 64 levels _walk looks at.                              *)
(***************************************************************************)
Known(n) == IF n = Unknown THEN 0 ELSE n

FallbackCost(total, costs) ==
    IF costs.read # Unknown \/ costs.eval # Unknown
    THEN total + Known(costs.read) + Known(costs.eval)
    ELSE IF costs.query # Unknown THEN total + costs.query
    ELSE IF costs.prefix > total THEN costs.prefix ELSE total

\* normalize_explain_cost: the block's cost, or that of the first table with
\* costs (prefix, or read and eval), or a sum over all of them.
QueryCost(plan) ==
    LET costed == SelectSeq(plan.nodes, LAMBDA node : node.costs.known)
        outer  == Head(costed).costs
    IN  IF plan.cost # Unknown THEN plan.cost
        ELSE IF costed = <<>> THEN 0
        ELSE IF outer.prefix # Unknown THEN outer.prefix
        ELSE IF outer.read # Unknown \/ outer.eval # Unknown
             THEN Known(outer.read) + Known(outer.eval)
        ELSE FoldLeft(FallbackCost, 0, [i \in DOMAIN costed |-> costed[i].costs])

EstimatedRows(plan) == FoldLeft(LAMBDA sum, node : sum + node.rows, 0, plan.nodes)

Scanned(plan) == {node \in ToSet(plan.nodes) : node.access = "ALL"}
ScannedIn(plan, tables) == {node.name : node \in Scanned(plan)} \cap tables

Rejections(plan) ==
    LET unknown == {node \in Scanned(plan) : node.name \notin FactTables \cup DimensionTables}
        reason(code, condition) == IF condition THEN {code} ELSE {}
    IN  IF ~plan.readable THEN {"COST_ASSESSMENT_FAILED"}
        ELSE reason("UNKNOWN_TABLE_FULL_SCAN_EXCEEDED",
                    \E node \in unknown : node.rows > MaxUnknownScanRows)
        \cup reason("ESTIMATED_ROWS_EXCEEDED", EstimatedRows(plan) > MaxEstimatedRows)
        \cup reason("QUERY_COST_EXCEEDED", QueryCost(plan) > MaxQueryCost)
        \cup reason("TOO_MANY_JOIN_TABLES", Len(plan.nodes) > MaxJoinTables)
        \cup reason("FACT_TABLE_FULL_SCAN",
                    Cardinality(ScannedIn(plan, FactTables)) > MaxFactScans)
        \cup reason("FULL_TABLE_SCAN_REJECTED", RejectAnyScan /\ Scanned(plan) # {})
        \cup reason("DIMENSION_TABLE_FULL_SCAN",
                    ~AllowDimensionScan /\ ScannedIn(plan, DimensionTables) # {})
        \cup reason("FILESORT_REJECTED", RejectFilesort /\ plan.filesort)
        \cup reason("TEMPORARY_TABLE_REJECTED", RejectTemporary /\ plan.temporary)
=============================================================================
