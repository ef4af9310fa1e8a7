---------------------------- MODULE MCSqlPipeline ----------------------------
EXTENDS SqlPipeline

MCTables == {"orders", "users", "shops", "old"}
MCColumns == {"orders.amount", "orders.uid", "users.uid", "users.city", "shops.city", "old.amount"}
MCMetrics == {"GMV", "AOV"}
MCTableOf == [c \in MCColumns |->
    CASE c \in {"orders.amount", "orders.uid"} -> "orders"
      [] c \in {"users.uid", "users.city"} -> "users"
      [] c = "shops.city" -> "shops"
      [] OTHER -> "old"]
MCNameOf == [c \in MCColumns |->
    CASE c \in {"orders.amount", "old.amount"} -> "amount"
      [] c \in {"orders.uid", "users.uid"} -> "uid"
      [] OTHER -> "city"]
MCRelevant == [m \in MCMetrics |-> {"orders.amount"}]
MCNameTerms == [x \in MCTables \cup MCColumns \cup MCMetrics |->
    CASE x \in MCColumns -> {MCNameOf[x]} [] x = "shops" -> {"shop"} [] OTHER -> {x}]
MCTextTerms == [x \in MCTables \cup MCColumns \cup MCMetrics |->
    CASE x = "orders" -> {"sales"} [] x = "shops.city" -> {"shop"} [] OTHER -> {}]
MCAliases == [x \in MCColumns \cup MCMetrics |->
    IF x = "orders.amount" THEN {"sales"} ELSE {}]

\* Alphabetical order of the names.
Place == [old |-> 1, orders |-> 2, shops |-> 3, users |-> 4, AOV |-> 5, GMV |-> 6]
MCBefore(x, y) == Place[x] < Place[y]

Vectors == [x \in MCTables \cup MCMetrics |->
    CASE x = "shops" -> 60 [] x = "GMV" -> 30 [] OTHER -> 10]
MCFindings ==
    {[keywords |-> k, columns |-> cs, values |-> vs, metrics |-> ms, vectors |-> Vectors] :
        k \in {{"sales"}, {"shop", "uid"}},
        cs \in SUBSET {"orders.amount", "users.city", "old.amount"},
        vs \in {{}, {"shops.city"}}, ms \in {{}, {"GMV"}, {"GMV", "AOV"}}}

MCTableAnswers == {NoAnswer, [ordered |-> <<>>, picked |-> <<>>],
    [ordered |-> <<"users", "ghost", "orders">>, picked |-> <<>>],
    [ordered |-> <<"orders">>, picked |-> <<"shops", "shops", "users", "orders">>]}
MCMetricAnswers == {NoAnswer, [ordered |-> <<>>, picked |-> <<"AOV", "AOV", "GMV">>]}

Ref(schema, table, alias) == [schema |-> schema, table |-> table, alias |-> alias]
Col(qualifier, name) == [qualifier |-> qualifier, name |-> name]
Plain == [pure |-> TRUE, select |-> TRUE, banned |-> FALSE, star |-> FALSE,
          refs |-> <<Ref(None, "orders", None)>>, ctes |-> {}, outputs |-> {},
          columns |-> {Col(None, "amount")}, limit |-> NoLimit]
MCStatements ==
    {Plain,
     [Plain EXCEPT !.refs = <<Ref("dw", "orders", "o"), Ref(None, "users", "u")>>,
                   !.columns = {Col("o", "uid"), Col("u", "city"), Col(None, "total")},
                   !.outputs = {"total"}, !.limit = 9],
     [Plain EXCEPT !.refs = <<Ref(None, "shops", None), Ref(None, "recent", None)>>,
                   !.ctes = {"recent"}, !.columns = {Col(None, "city"), Col("recent", "day")},
                   !.limit = 1],
     [Plain EXCEPT !.refs = <<Ref(None, "users", None), Ref(None, "orders", None)>>,
                   !.columns = {Col(None, "uid")}, !.limit = 1],
     [Plain EXCEPT !.limit = NotLiteral],
     [Plain EXCEPT !.select = FALSE]}

Costs(query, prefix, read) == [known |-> TRUE, query |-> query, prefix |-> prefix,
                               read |-> read, eval |-> Unknown]
NoCosts == [known |-> FALSE, query |-> Unknown, prefix |-> Unknown,
            read |-> Unknown, eval |-> Unknown]
Node(name, nrows, access, costs) ==
    [name |-> name, rows |-> nrows, access |-> access, costs |-> costs]
Plan(c, nodes) == [readable |-> TRUE, cost |-> c, nodes |-> nodes,
                   filesort |-> TRUE, temporary |-> FALSE]
MCPlans ==
    {Plan(5, <<Node("orders", 2, "ref", NoCosts)>>),
     Plan(Unknown, <<Node("o", 2, "ALL", NoCosts),
                     Node("users", 2, "ALL", Costs(Unknown, 3, 3))>>),
     Plan(Unknown, <<Node("orders", 1, "ref", Costs(4, Unknown, Unknown)),
                     Node("users", 1, "ref", Costs(Unknown, 4, 5))>>),
     Plan(20, <<Node("orders", 9, "ALL", NoCosts)>>),
     [Plan(0, <<>>) EXCEPT !.readable = FALSE]}

All == {<<"*", <<"*">>>>}
MCConfigs ==
    {[rank |-> TRUE, rerank |-> TRUE, tolerant |-> FALSE, grants |-> All],
     [rank |-> TRUE, rerank |-> FALSE, tolerant |-> TRUE,
      grants |-> {<<"database", <<"dw">>>>, <<"table", <<"dw", "orders">>>>,
                  <<"table", <<"orders">>>>, <<"table", <<"users">>>>,
                  <<"column", <<"dw", "orders", "uid">>>>, <<"column", <<"users", "city">>>>,
                  <<"column", <<"orders", "amount">>>>}],
     [rank |-> FALSE, rerank |-> FALSE, tolerant |-> FALSE,
      grants |-> {<<"database", <<"*">>>>, <<"table", <<"orders">>>>, <<"table", <<"users">>>>,
                  <<"column", <<"orders", "amount">>>>, <<"column", <<"orders", "uid">>>>,
                  <<"column", <<"users", "city">>>>}]}
=============================================================================
