---------------------------- MODULE MCQueryCache ----------------------------
(* A small instance of QueryCache: a question in one scope, a paraphrase of *)
(* it, a near question with another number, and the first question in       *)
(* another scope. c1 asks the first only, c2 any.                           *)
EXTENDS QueryCache, TLC

CONSTANTS c1, c2, ask, rephrased, other, foreign

MCScopeOf == [i \in Ids |-> IF i = foreign THEN "s2" ELSE "s1"]
MCMeaningOf == [i \in Ids |-> IF i = other THEN "top 5" ELSE "top 3"]
MCNear == Ids \X Ids
MCAsksOf == (c1 :> {ask}) @@ (c2 :> Ids)
=============================================================================
