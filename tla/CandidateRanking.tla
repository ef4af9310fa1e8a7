-------------------------- MODULE CandidateRanking --------------------------
(***************************************************************************)
(* Which tables and metrics the SQL may be written about: the merge of     *)
(* what the recall nodes found (agent/nodes/merge_retrieved_info.py), the  *)
(* deterministic scores and the greedy cover (agent/ranking), and the      *)
(* order an LLM may put on the result (filter_table.py, filter_metric.py). *)
(*                                                                         *)
(* Texts are sets of the terms they contain; a score is a whole number of  *)
(* hundredths, rounded down. A column has an id (table.column) and a name. *)
(* A table is the record [name, columns]; tables are also their ids.       *)
(***************************************************************************)
EXTENDS Integers, Sequences, FiniteSets, SequencesExt

CONSTANTS
    Tables, Columns, Metrics,   \* names of tables and metrics, ids of columns
    TableOf, NameOf,            \* table and name of every column
    KnownTables, KnownColumns,  \* those that have a row in the meta database
    KeyColumns,                 \* columns whose role is a key
    Dimensions,                 \* tables whose role is "dimension"
    Relevant,                   \* the relevant columns (ids) of every metric
    NameTerms, TextTerms,       \* terms in a name, terms in a description
    Aliases,                    \* aliases of a column or a metric
    FactTerms,                  \* FACT_TERMS of the feature extractor
    Before(_, _),               \* the order of two names
    TopTables, MaxTables,       \* deterministic_top_k, max_selected
    TopMetrics, MaxMetrics

\* load_app_config refuses any other configuration.
ASSUME SelectionLimits ==
    /\ MaxTables \in Nat \ {0} /\ TopTables \in Nat /\ MaxTables =< TopTables
    /\ MaxMetrics \in Nat \ {0} /\ TopMetrics \in Nat /\ MaxMetrics =< TopMetrics

\* What has a row in the meta database has a name.
ASSUME KnownNames == KnownTables \subseteq Tables /\ KnownColumns \subseteq Columns

\* There are finitely many names; different ones are ordered, one way.
ASSUME FiniteNames ==
    /\ IsFiniteSet(Tables) /\ IsFiniteSet(Columns) /\ IsFiniteSet(Metrics)
    /\ \A m \in Metrics : IsFiniteSet(Relevant[m])
ASSUME NamesOrdered ==
    \A names \in {Tables, Metrics} : \A x, y \in names :
      /\ x # y => Before(x, y) \/ Before(y, x)
      /\ Before(x, y) => ~Before(y, x)
      /\ \A z \in names : Before(x, y) /\ Before(y, z) => Before(x, z)

(***************************************************************************)
(* Merge.  found = [keywords, columns, values, metrics, vectors]: the      *)
(* terms of the question, the columns found by similarity, the columns     *)
(* found by one of their values, the metrics, the similarity of each name. *)
(***************************************************************************)

\* A metric's or a value's column missing from the recall is looked up; one
\* the meta database does not know is left out.
MergedColumns(found) ==
    found.columns \cup
      (KnownColumns \cap (found.values \cup UNION {Relevant[m] : m \in found.metrics}))

\* One table per merged column, with its key columns, unless it has no row.
MergedTables(found) ==
    LET columns == MergedColumns(found)
    IN  {[name |-> t,
          columns |-> {c \in columns \cup (KeyColumns \cap KnownColumns) : TableOf[c] = t}] :
           t \in KnownTables \cap {TableOf[c] : c \in columns}}

(***************************************************************************)
(* Scores.                                                                 *)
(***************************************************************************)
Hundredths(part, whole) == IF whole = 0 THEN 0 ELSE (100 * part) \div whole
Clamped(n, low, high) == IF n < low THEN low ELSE IF n > high THEN high ELSE n
Points(condition, n) == IF condition THEN n ELSE 0
NamesOf(columns) == {NameOf[c] : c \in columns}

Required(found) ==
    found.keywords \cup NamesOf(found.columns) \cup NamesOf(found.values)
      \cup found.metrics

\* A term is covered by a column of that name or alias, or that speaks of it.
CoveredBy(table, found) ==
    {term \in Required(found) : \E c \in table.columns :
        term \in {NameOf[c]} \cup Aliases[c] \cup TextTerms[c]}

TableLexical(table, terms) ==
    Max({Points(NameTerms[table.name] \cap terms # {}, 100),
         Points(TextTerms[table.name] \cap terms # {}, 70)}
        \cup {Points(NameTerms[c] \cap terms # {}, 80) : c \in table.columns}
        \cup {Points(TextTerms[c] \cap terms # {}, 50) : c \in table.columns})

\* Relevant columns of the metrics are ids, columns of a table are compared by
\* name: this is what the code intersects.
SupportsMetric(table, found) ==
    NamesOf(table.columns) \cap UNION {Relevant[m] : m \in found.metrics} # {}

\* The default weights: .15 .10 .20 .25 .10 .10 .10.
TableFeatures(table, found) ==
    LET coverage == Hundredths(Cardinality(CoveredBy(table, found)),
                               Cardinality(Required(found)))
        alias    == \E c \in table.columns : Aliases[c] \cap found.keywords # {}
        fact     == found.keywords \cap FactTerms # {}
        raw == 15 * TableLexical(table, found.keywords)
             + 10 * Points(alias, 100)
             + 20 * found.vectors[table.name]
             + 25 * coverage
             + 10 * Points(table.name \in {TableOf[c] : c \in found.values}, 100)
             + 10 * Points(SupportsMetric(table, found), 100)
             + 10 * (IF fact /\ table.name \in Dimensions THEN 70 ELSE 100)
    IN  [name |-> table.name, total |-> Clamped(raw, 0, 10000),
         coverage |-> coverage, vector |-> found.vectors[table.name],
         covered |-> CoveredBy(table, found)]

MetricFeatures(metric, found, tables) ==
    LET terms    == found.keywords \cup found.metrics
        relevant == Relevant[metric]
        matched  == NamesOf(found.columns) \cup NamesOf(found.values)
        offered  == UNION {NamesOf(t.columns) : t \in tables}
        share(S) == Hundredths(Cardinality(relevant \cap S), Cardinality(relevant))
        lexical  == IF NameTerms[metric] \cap terms # {} THEN 100
                    ELSE Points(TextTerms[metric] \cap terms # {}, 70)
        raw == 15 * lexical
             + 10 * Points(Aliases[metric] \cap terms # {}, 100)
             + 20 * found.vectors[metric]
             + 25 * share(matched)
             + 10 * share(offered)
             - Points(relevant # {} /\ share(offered) = 0, 2500)
    IN  [name |-> metric, total |-> Clamped(raw, 0, 10000),
         coverage |-> share(matched), vector |-> found.vectors[metric]]

Better(f, g) ==
    \/ f.total > g.total
    \/ f.total = g.total /\ f.coverage > g.coverage
    \/ f.total = g.total /\ f.coverage = g.coverage /\ f.vector > g.vector
    \/ /\ f.total = g.total /\ f.coverage = g.coverage /\ f.vector = g.vector
       /\ Before(f.name, g.name)

FirstOf(seq, n) == SubSeq(seq, 1, IF n < Len(seq) THEN n ELSE Len(seq))
Names(features) == [i \in DOMAIN features |-> features[i].name]

\* As many features come before one as are better.
Sorted(features) ==
    [i \in 1 .. Cardinality(features) |->
        CHOOSE f \in features : Cardinality({g \in features : Better(g, f)}) = i - 1]

RankedTables(tables, found) ==
    FirstOf(Sorted({TableFeatures(t, found) : t \in tables}), TopTables)

RankedMetrics(found, tables) ==
    FirstOf(Sorted({MetricFeatures(m, found, tables) : m \in found.metrics}), TopMetrics)

(***************************************************************************)
(* Selection.                                                              *)
(***************************************************************************)

\* greedy_cover: the best table, then every table that covers something new,
\* until there are enough of them or nothing is left to cover.
AddBeforeFull(chosen, feature) ==
    IF \/ chosen.names # <<>>
          /\ (Len(chosen.names) + 1 >= MaxTables \/ chosen.left = {})
       \/ chosen.names # <<>> /\ feature.covered \subseteq chosen.covered
    THEN chosen
    ELSE [names |-> Append(chosen.names, feature.name),
          covered |-> chosen.covered \cup feature.covered,
          left |-> chosen.left \ feature.covered]
AddIfUseful(chosen, feature) ==
    IF \/ chosen.names # <<>>
          /\ (Len(chosen.names) >= MaxTables \/ chosen.left = {})
       \/ chosen.names # <<>> /\ feature.covered \subseteq chosen.covered
    THEN chosen
    ELSE [names |-> Append(chosen.names, feature.name),
          covered |-> chosen.covered \cup feature.covered,
          left |-> chosen.left \ feature.covered]

GreedyCover(ranked, required) ==
    FoldLeft(AddIfUseful, [names |-> <<>>, covered |-> {}, left |-> required], ranked)

\* _validated_order: the allowed names, each once.
AddOnce(kept, name) == IF name \in ToSet(kept) THEN kept ELSE Append(kept, name)
OrderAsAnswered(names, allowed) == FoldLeft(AddOnce, <<>>, names)
ValidatedOrder(names, allowed) ==
    FoldLeft(LAMBDA kept, name : IF name \in allowed THEN AddOnce(kept, name) ELSE kept,
             <<>>, names)

\* The answer of the reranking model: [ordered, picked], or NoAnswer when it
\* fails, is late or cannot be read.
NoAnswer == [failed |-> TRUE]

\* constrained_table_selection and constrained_metric_selection (no caller
\* passes bridge tables).
Constrained(names, limit, answer) ==
    LET allowed == ToSet(names)
        ordered == ValidatedOrder(
                     IF answer.ordered = <<>> THEN answer.picked ELSE answer.ordered, allowed)
        picked  == ValidatedOrder(
                     IF answer.picked = <<>> THEN ordered ELSE answer.picked, allowed)
    IN  IF answer = NoAnswer \/ FirstOf(picked, limit) = <<>>
        THEN FirstOf(names, limit) ELSE FirstOf(picked, limit)

\* The filter nodes without ranking: the first candidates that the model named,
\* whatever the order of the candidates.  There is always room for one, since
\* the limit is tested after a candidate is kept.
Named(names, limit, answer) ==
    LET named == names \cap ToSet(answer.picked)
        room  == IF limit < 1 THEN 1 ELSE limit
    IN  kSubset(IF room < Cardinality(named) THEN room ELSE Cardinality(named), named)

SelectedTables(tables, found, answer) ==
    Constrained(GreedyCover(RankedTables(tables, found), Required(found)).names,
                MaxTables, answer)

SelectedMetrics(found, tables, answer) ==
    Constrained(Names(RankedMetrics(found, tables)), MaxMetrics, answer)
=============================================================================
