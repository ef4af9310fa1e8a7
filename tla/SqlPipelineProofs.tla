-------------------------- MODULE SqlPipelineProofs --------------------------
(***************************************************************************)
(* Proofs about SqlPipeline, for any candidates, statements, plans, grants *)
(* and number of corrections: what the warehouse runs has passed every     *)
(* check in the very form in which it runs, and the audit log tells of it. *)
(***************************************************************************)
EXTENDS SqlPipeline, FiniteSetTheorems, SequenceTheorems, FunctionTheorems,
        WellFoundedInduction, TLAPS

TableInv ==
  /\ \A t \in tables : t.name \in Tables /\ t.columns \subseteq Columns
  /\ \A t, u \in tables : t.name = u.name => t = u
  /\ metrics \subseteq Metrics
  /\ found.columns \subseteq Columns /\ found.metrics \subseteq Metrics

(* Every try adds one entry to the audit log at most, at its end, and a     *)
(* correction begins a new try.                                             *)
TryInv ==
  /\ retries \in 0..MaxRetries
  /\ phase = "correct" => retries < MaxRetries
  /\ Len(audit) <= IF phase \in {"failed", "correct"} \cup Terminal
                   THEN retries + 1 ELSE retries

TypeInv ==
  /\ TypeOK
  /\ TableInv
  /\ TryInv

(* The calls that were made for this statement, its cost and its permission *)
(* are those of the state.                                                  *)
Tolerable(c) ==
  c.accepted \/ (config.tolerant /\ c.reasons \subseteq {"COST_ASSESSMENT_FAILED"})

Checked ==
  /\ normalized.select /\ normalized.limit \in 0..MaxRows
  /\ Passes(normalized)
  /\ refs = ReferencedTables(normalized)
  /\ permission = "ALLOW"

Validated(n) == n > 0 /\ calls[n] = [op |-> "validate", sql |-> normalized]

Explained ==
  /\ Len(calls) > 1 /\ Validated(Len(calls) - 1)
  /\ calls[Len(calls)] = [op |-> "explain", sql |-> normalized, cost |-> cost]
  /\ Tolerable(cost)

IsSequence(s) == s \in Seq({s[i] : i \in DOMAIN s})

CallInv ==
  /\ IsSequence(calls) /\ IsSequence(audit)
  /\ phase \in {"recall", "merge", "filter", "generate"}
       => calls = <<>> /\ audit = <<>>
  /\ phase = "security" => sql \in Statements
  /\ phase \in {"validate", "cost", "execute"} => Checked
  /\ phase = "cost" => Validated(Len(calls))
  /\ phase = "execute" => Explained

(* A run is led to the failed node by an error.                             *)
FailedInv == phase = "failed" => error # NoError

PipelineInv == TypeInv /\ CallInv /\ FailedInv /\ RunsWhatWasChecked /\ AuditTruthful

-----------------------------------------------------------------------------
LEMMA SequenceFacts ==
  ASSUME NEW s, IsSequence(s)
  PROVE  Len(s) \in Nat /\ DOMAIN s = 1..Len(s)
BY DEF IsSequence

LEMMA AppendFacts ==
  ASSUME NEW s, IsSequence(s), NEW x
  PROVE  /\ IsSequence(Append(s, x))
         /\ Len(s) \in Nat /\ DOMAIN s = 1..Len(s)
         /\ Len(Append(s, x)) = Len(s) + 1
         /\ DOMAIN Append(s, x) = 1..(Len(s) + 1)
         /\ \A i \in 1..Len(s) : Append(s, x)[i] = s[i]
         /\ Append(s, x)[Len(s) + 1] = x
<1> DEFINE S == {s[i] : i \in DOMAIN s}
           t == Append(s, x)
           T == {t[i] : i \in DOMAIN t}
<1>1. s \in Seq(S)
  BY DEF IsSequence
<1>2. s \in Seq(S \cup {x})
  BY <1>1, SeqMonotonic
<1>3. t \in Seq(S \cup {x}) /\ x \in S \cup {x}
  BY <1>2
<1> HIDE DEF S
<1>4. /\ Len(s) \in Nat /\ DOMAIN s = 1..Len(s)
      /\ Len(t) = Len(s) + 1 /\ DOMAIN t = 1..(Len(s) + 1)
      /\ \A i \in 1..Len(s) : t[i] = s[i]
      /\ t[Len(s) + 1] = x
  BY <1>2, <1>3
<1> HIDE DEF t
<1>5. t \in Seq(T)
  <2>1. t \in [1..Len(t) -> T] /\ Len(t) \in Nat
    BY <1>3, <1>4
  <2> HIDE DEF T
  <2> QED
    BY <2>1
<1> QED
  BY <1>4, <1>5 DEF IsSequence, t

LEMMA WithLimitFacts ==
  ASSUME NEW s \in Statements, Limitable(s)
  PROVE  /\ WithLimit(s, MaxRows).limit \in 0..MaxRows
         /\ WithLimit(s, MaxRows).select
<1>1. /\ {"select", "limit"} \subseteq DOMAIN s
      /\ s.limit \in Nat \cup {NoLimit} /\ s.select
  BY LimitKinds DEF Limitable
<1>2. CASE s.limit = NoLimit \/ s.limit > MaxRows
  BY <1>1, <1>2, RowLimit DEF WithLimit
<1>3. CASE ~(s.limit = NoLimit \/ s.limit > MaxRows)
  BY <1>1, <1>3, RowLimit DEF WithLimit
<1> QED
  BY <1>2, <1>3

LEMMA SentNormalized == ASSUME Checked PROVE Sent = normalized
<1>1. normalized # NoSql
  BY DEF Checked, NoSql
<1> QED
  BY <1>1 DEF Sent

LEMMA RouteFacts ==
  ASSUME NEW code, NEW success
  PROVE  /\ Route(code, success) \in {success, "correct", "failed"}
         /\ success \notin {"correct", "failed"} /\ Route(code, success) = success
              => code = NoError
         /\ Route(code, success) = "correct" /\ success # "correct"
              => retries < MaxRetries
         /\ Route(code, success) = "failed" /\ success # "failed" => code # NoError
BY DEF Route

-----------------------------------------------------------------------------
(* The tables and the counters. *)

LEMMA MergedTyped ==
  ASSUME TableInv
  PROVE  /\ \A t \in MergedTables(found) :
              t.name \in Tables /\ t.columns \subseteq Columns
         /\ \A t, u \in MergedTables(found) : t.name = u.name => t = u
<1>1. MergedColumns(found) \subseteq Columns
  BY KnownNames DEF TableInv, MergedColumns
<1> QED
  BY <1>1, KnownNames DEF MergedTables

LEMMA TableStep == ASSUME TypeInv, [Next]_vars PROVE TableInv'
<1>1. CASE Recall
  BY <1>1, FoundNames DEF Recall, TypeInv, TableInv
<1>2. CASE Merge
  BY <1>2, MergedTyped DEF Merge, TypeInv, TableInv
<1>3. CASE FilterRanked
  BY <1>3 DEF FilterRanked, Keep, TypeInv, TableInv
<1>4. CASE FilterNamed
  <2>1. \A names, limit, answer : \A set \in Named(names, limit, answer) :
          set \subseteq names
    BY DEF Named, kSubset
  <2>2. metrics' \subseteq metrics /\ tables' \subseteq tables /\ found' = found
    BY <1>4, <2>1 DEF FilterNamed, Keep
  <2> QED
    BY <2>2 DEF TypeInv, TableInv
<1>5. CASE UNCHANGED <<found, tables, metrics>>
  BY <1>5 DEF TypeInv, TableInv
<1> QED
  BY <1>1, <1>2, <1>3, <1>4, <1>5
  DEF Next, FilterFails, Generate, Correct, ModelFails, Security, Validate,
      EvaluateCost, Execute, RunCancelled, Failed, BudgetEnds, Ended, vars, selection

LEMMA TryStep == ASSUME TypeInv, CallInv, [Next]_vars PROVE TryInv'
<1> USE Retries DEF TypeInv, TryInv, Terminal
<1>1. Len(audit) \in Nat
  BY SequenceFacts DEF CallInv
<1>2. CASE Recall \/ Merge \/ FilterRanked \/ FilterNamed \/ Generate
  BY <1>1, <1>2 DEF Recall, Merge, FilterRanked, FilterNamed, Generate, outside
<1>3. CASE FilterFails \/ ModelFails
  BY <1>1, <1>3 DEF FilterFails, ModelFails, outside
<1>4. CASE Correct
  BY <1>1, <1>4 DEF Correct, outside
<1>5. CASE Security
  <2>1. phase' \in {"validate", "correct", "failed"} /\ UNCHANGED <<retries, audit>>
        /\ (phase' = "correct" => retries < MaxRetries) /\ phase = "security"
    BY <1>5, RouteFacts DEF Security, outside
  <2> QED
    BY <1>1, <2>1
<1>6. CASE Validate
  <2>1. phase' \in {"cost", "correct", "failed"} /\ UNCHANGED <<retries, audit>>
        /\ (phase' = "correct" => retries < MaxRetries) /\ phase = "validate"
    BY <1>6, RouteFacts DEF Validate
  <2> QED
    BY <1>1, <2>1
<1>7. CASE EvaluateCost
  <2>1. phase' \in {"execute", "correct", "failed"} /\ UNCHANGED <<retries, audit>>
        /\ (phase' = "correct" => retries < MaxRetries) /\ phase = "cost"
    BY <1>7, RouteFacts DEF EvaluateCost
  <2> QED
    BY <1>1, <2>1
<1>8. CASE Execute
  <2>1. phase' \in {"done", "correct", "failed"} /\ UNCHANGED retries
        /\ (phase' = "correct" => retries < MaxRetries) /\ phase = "execute"
    BY <1>8, RouteFacts DEF Execute
  <2>2. Len(audit') = Len(audit) + 1
    BY <1>8, AppendFacts DEF Execute, Record, CallInv
  <2> QED
    BY <1>1, <2>1, <2>2
<1>9. CASE RunCancelled
  BY <1>1, <1>9 DEF RunCancelled
<1>10. CASE Failed
  <2>1. phase = "failed" /\ phase' = "raised" /\ UNCHANGED retries
    BY <1>10 DEF Failed
  <2>2. CASE audit' = audit
    BY <1>1, <2>1, <2>2
  <2>3. CASE audit = <<>> /\ Record(error)
    <3>1. Len(audit') = Len(audit) + 1 /\ Len(audit) = 0
      BY <2>3, AppendFacts DEF Record, CallInv
    <3> QED
      BY <2>1, <3>1
  <2> QED
    BY <1>10, <2>2, <2>3 DEF Failed
<1>11. CASE BudgetEnds
  <2>1. phase \notin Terminal /\ phase' = "raised" /\ UNCHANGED retries
    BY <1>11 DEF BudgetEnds
  <2>2. CASE audit' = audit
    BY <1>1, <2>1, <2>2
  <2>3. CASE phase = "execute" /\ Record(error')
    <3>1. Len(audit') = Len(audit) + 1
      BY <2>3, AppendFacts DEF Record, CallInv
    <3> QED
      BY <1>1, <2>1, <2>3, <3>1
  <2> QED
    BY <1>11, <2>2, <2>3 DEF BudgetEnds
<1>12. CASE UNCHANGED vars
  BY <1>12 DEF vars
<1> QED
  BY <1>2, <1>3, <1>4, <1>5, <1>6, <1>7, <1>8, <1>9, <1>10, <1>11, <1>12
  DEF Next, Ended

LEMMA RowsStep == ASSUME TypeInv, CallInv, [Next]_vars PROVE rows' \in 0..MaxRows
<1>1. CASE Execute
  <2>1. Sent = normalized /\ normalized.limit \in 0..MaxRows
    BY <1>1, SentNormalized DEF Execute, CallInv, Checked
  <2>2. \A available \in 0..Sent.limit : Returned(available) \in 0..MaxRows
    BY <2>1, RowLimit DEF Returned
  <2> QED
    BY <1>1, <2>2 DEF Execute, TypeInv, TypeOK
<1>2. CASE UNCHANGED rows
  BY <1>2 DEF TypeInv, TypeOK
<1> QED
  BY <1>1, <1>2
  DEF Next, Recall, Merge, FilterRanked, FilterNamed, FilterFails, Generate,
      Correct, ModelFails, Security, Validate, EvaluateCost, RunCancelled, Failed,
      BudgetEnds, Ended, vars

LEMMA TypeStep == ASSUME TypeInv, CallInv, [Next]_vars PROVE TypeInv'
<1>1. TableInv' /\ TryInv' /\ rows' \in 0..MaxRows
  BY TableStep, TryStep, RowsStep
<1>2. phase' \in {"recall", "merge", "filter", "generate", "correct", "security",
                  "validate", "cost", "execute", "failed"} \cup Terminal
  BY RouteFacts
  DEF Next, Recall, Merge, FilterRanked, FilterNamed, FilterFails, Generate,
      Correct, ModelFails, Security, Validate, EvaluateCost, Execute, RunCancelled,
      Failed, BudgetEnds, Ended, Terminal, vars, TypeInv, TypeOK
<1>3. permission' \in {"none", "ALLOW", "DENY"}
  BY DEF Next, Recall, Merge, FilterRanked, FilterNamed, FilterFails, Generate,
      Correct, ModelFails, Security, Decision, Validate, EvaluateCost, Execute,
      RunCancelled, Failed, BudgetEnds, Ended, vars, statement, TypeInv, TypeOK
<1>4. (Len(audit) =< retries + 1)'
  <2>1. CASE phase' \in {"failed", "correct"} \cup Terminal
    BY <1>1, <2>1 DEF TryInv
  <2>2. CASE phase' \notin {"failed", "correct"} \cup Terminal
    <3>1. Len(audit') <= retries' /\ retries' \in 0..MaxRetries
      BY <1>1, <2>2 DEF TryInv
    <3>2. Len(audit') \in Nat
      <4>1. audit' = audit \/ \E x : audit' = Append(audit, x)
        BY DEF Next, Recall, Merge, FilterRanked, FilterNamed, FilterFails,
          Generate, Correct, ModelFails, Security, Validate, EvaluateCost, Execute,
          RunCancelled, Failed, BudgetEnds, Ended, vars, outside, Record
      <4> QED
        BY <4>1, AppendFacts, SequenceFacts DEF CallInv
    <3> QED
      BY <3>1, <3>2, Retries
  <2> QED
    BY <2>1, <2>2
<1> QED
  BY <1>1, <1>2, <1>3, <1>4 DEF TypeInv, TypeOK, TableInv, TryInv

-----------------------------------------------------------------------------
(* The statement and the calls. *)

(* What was checked stays so while the selection and the caller do.         *)
LEMMA CheckedKept ==
  ASSUME Checked, UNCHANGED <<config, tables, normalized, refs, permission>>
  PROVE  Checked'
BY DEF Checked, Passes, Policy

LEMMA SecurityChecks ==
  ASSUME CallInv, Security, phase' = "validate"
  PROVE  Checked'
<1> DEFINE limited == WithLimit(sql, MaxRows)
           passed  == Limitable(sql) /\ Passes(limited)
<1>1. passed
  <2>1. error' = NoError
    BY RouteFacts DEF Security
  <2> QED
    BY <2>1 DEF Security, NoError
<1>2. sql \in Statements
  BY DEF Security, CallInv
<1>3. limited.limit \in 0..MaxRows /\ limited.select
  BY <1>1, <1>2, WithLimitFacts
<1>4. /\ normalized' = limited /\ refs' = ReferencedTables(limited)
      /\ permission' = "ALLOW" /\ UNCHANGED <<config, tables>>
  BY <1>1 DEF Security, Decision, selection
<1>5. Passes(limited)
  BY <1>1
<1> HIDE DEF limited
<1>6. Passes(normalized)'
  BY <1>4, <1>5 DEF Passes, Policy
<1> QED
  BY <1>3, <1>4, <1>6 DEF Checked

(* An EXPLAIN lets the run go on only if the cost is accepted or its failure*)
(* tolerated.                                                               *)
LEMMA CostTolerable ==
  ASSUME EvaluateCost, phase' = "execute"
  PROVE  Tolerable(cost')
<1>1. error' = NoError
  BY RouteFacts DEF EvaluateCost
<1>2. PICK outcome \in {Assessed(plan) : plan \in Plans}
                 \cup {Unassessed(code) : code \in {"EXPLAIN_TIMEOUT"}
                           \cup DatabaseErrors("SQL_COST_ASSESSMENT_FAILED")} :
        cost' = outcome.cost /\ error' = outcome.error
  BY DEF EvaluateCost
<1>3. ASSUME NEW plan, outcome = Assessed(plan) PROVE Tolerable(cost')
  <2> DEFINE reasons == Rejections(plan)
  <2>1. /\ outcome.cost = [accepted |-> reasons = {}, reasons |-> reasons]
        /\ outcome.error = NoError =>
             reasons = {} \/ (reasons = {"COST_ASSESSMENT_FAILED"} /\ config.tolerant)
    BY <1>3 DEF Assessed, NoError
  <2> HIDE DEF reasons
  <2>2. reasons = {} \/ (reasons = {"COST_ASSESSMENT_FAILED"} /\ config.tolerant)
    BY <1>1, <1>2, <2>1
  <2>3. cost'.reasons = reasons /\ (reasons = {} => cost'.accepted)
    <3>1. cost' = [accepted |-> reasons = {}, reasons |-> reasons]
      BY <1>2, <2>1
    <3> QED
      BY <3>1, Zenon
  <2> QED
    BY <2>2, <2>3 DEF Tolerable
<1>4. ASSUME NEW code \in {"EXPLAIN_TIMEOUT"}
                   \cup DatabaseErrors("SQL_COST_ASSESSMENT_FAILED"),
             outcome = Unassessed(code)
      PROVE  Tolerable(cost')
  <2>1. code # NoError
    BY DEF DatabaseErrors, NoError
  <2>2. config.tolerant /\ outcome.cost = NoCost
    BY <1>1, <1>2, <1>4, <2>1 DEF Unassessed
  <2> QED
    BY <1>2, <2>2 DEF Tolerable, NoCost
<1> QED
  BY <1>2, <1>3, <1>4

LEMMA FailedStep == ASSUME FailedInv, [Next]_vars PROVE FailedInv'
<1>1. CASE Security \/ Validate \/ EvaluateCost \/ Execute
  BY <1>1, RouteFacts DEF Security, Validate, EvaluateCost, Execute, FailedInv
<1> QED
  BY <1>1
  DEF Next, Recall, Merge, FilterRanked, FilterNamed, FilterFails, Generate,
      Correct, ModelFails, RunCancelled, Failed, BudgetEnds, Ended, vars, FailedInv

LEMMA CallStep == ASSUME TypeInv, CallInv, [Next]_vars PROVE CallInv'
<1>1. CASE UNCHANGED <<calls, audit>> /\ phase' \in {"failed", "correct", "raised"}
  BY <1>1 DEF CallInv, IsSequence
<1>2. CASE Recall
  BY <1>2 DEF Recall, outside, CallInv, IsSequence
<1>3. CASE Merge
  BY <1>3 DEF Merge, outside, CallInv, IsSequence
<1>4. CASE FilterRanked \/ FilterNamed
  BY <1>4 DEF FilterRanked, FilterNamed, outside, CallInv, IsSequence
<1>5. CASE Generate
  BY <1>5 DEF Generate, outside, CallInv, IsSequence
<1>6. CASE Correct
  BY <1>6 DEF Correct, outside, CallInv, IsSequence
<1>7. CASE Security
  <2>1. phase' \in {"validate", "correct", "failed"} /\ UNCHANGED <<calls, audit>>
    BY <1>7, RouteFacts DEF Security, outside
  <2>2. CASE phase' = "validate"
    <3>1. Checked'
      BY <1>7, <2>2, SecurityChecks
    <3> QED
      BY <2>1, <2>2, <3>1 DEF CallInv, IsSequence
  <2> QED
    BY <1>1, <2>1, <2>2
<1>8. CASE Validate
  <2> DEFINE call == [op |-> "validate", sql |-> normalized]
  <2>1. /\ phase' \in {"cost", "correct", "failed"} /\ audit' = audit
        /\ UNCHANGED <<config, tables, normalized, refs, permission>>
    BY <1>8, RouteFacts DEF Validate, selection, statement
  <2>2. Checked /\ Sent = normalized
    BY <1>8, SentNormalized DEF Validate, CallInv
  <2>3. calls' = Append(calls, call)
    BY <1>8, <2>2 DEF Validate
  <2> HIDE DEF call
  <2>4. /\ IsSequence(calls') /\ Len(calls') = Len(calls) + 1 /\ Len(calls) \in Nat
        /\ calls'[Len(calls) + 1] = call
    BY <2>3, AppendFacts DEF CallInv
  <2>5. Checked'
    BY <2>1, <2>2, CheckedKept
  <2>6. Validated(Len(calls))'
    BY <2>1, <2>4 DEF Validated, call
  <2>7. IsSequence(audit')
    BY <2>1 DEF CallInv
  <2> QED
    BY <2>1, <2>4, <2>5, <2>6, <2>7 DEF CallInv
<1>9. CASE EvaluateCost
  <2> DEFINE call == [op |-> "explain", sql |-> normalized, cost |-> cost']
  <2>1. /\ phase' \in {"execute", "correct", "failed"} /\ audit' = audit
        /\ UNCHANGED <<config, tables, normalized, refs, permission>>
    BY <1>9, RouteFacts DEF EvaluateCost, selection
  <2>2. Checked /\ Sent = normalized /\ Validated(Len(calls))
    BY <1>9, SentNormalized DEF EvaluateCost, CallInv
  <2>3. calls' = Append(calls, call)
    BY <1>9, <2>2 DEF EvaluateCost
  <2> HIDE DEF call
  <2>4. /\ IsSequence(calls') /\ Len(calls') = Len(calls) + 1 /\ Len(calls) \in Nat
        /\ calls'[Len(calls) + 1] = call
        /\ \A i \in 1..Len(calls) : calls'[i] = calls[i]
    BY <2>3, AppendFacts DEF CallInv
  <2>5. Checked'
    BY <2>1, <2>2, CheckedKept
  <2>6. ASSUME phase' = "execute" PROVE Explained'
    <3>1. Tolerable(cost')
      BY <1>9, <2>6, CostTolerable
    <3>2. Tolerable(cost)'
      BY <2>1, <3>1 DEF Tolerable
    <3>3. Len(calls) > 0 /\ calls[Len(calls)] = [op |-> "validate", sql |-> normalized]
      BY <2>2 DEF Validated
    <3>4. calls'[Len(calls)] = calls[Len(calls)]
      BY <2>4, <3>3
    <3>5. Len(calls') - 1 = Len(calls) /\ Len(calls') > 1
      BY <2>4, <3>3
    <3>6. Validated(Len(calls) - 1)'
      BY <2>1, <3>3, <3>4, <3>5 DEF Validated
    <3> QED
      BY <2>1, <2>4, <3>2, <3>5, <3>6 DEF Explained, call
  <2>7. IsSequence(audit')
    BY <2>1 DEF CallInv
  <2> QED
    BY <2>1, <2>4, <2>5, <2>6, <2>7 DEF CallInv
<1>10. CASE Execute
  <2>1. phase' \in {"done", "correct", "failed"}
    BY <1>10, RouteFacts DEF Execute
  <2>2. IsSequence(calls') /\ IsSequence(audit')
    BY <1>10, AppendFacts DEF Execute, Record, CallInv
  <2> QED
    BY <2>1, <2>2 DEF CallInv
<1>11. CASE RunCancelled
  BY <1>11, AppendFacts DEF RunCancelled, CallInv
<1>12. CASE Failed \/ BudgetEnds
  <2>1. phase' = "raised" /\ calls' = calls
    BY <1>12 DEF Failed, BudgetEnds
  <2>2. audit' = audit \/ \E x : audit' = Append(audit, x)
    BY <1>12 DEF Failed, BudgetEnds, Record
  <2>3. IsSequence(audit')
    <3>1. CASE audit' = audit
      BY <3>1 DEF CallInv
    <3>2. ASSUME NEW x, audit' = Append(audit, x) PROVE IsSequence(audit')
      <4>1. IsSequence(audit)
        BY DEF CallInv
      <4>2. IsSequence(Append(audit, x))
        BY <4>1, AppendFacts
      <4> QED
        BY <3>2, <4>2
    <3> QED
      BY <2>2, <3>1, <3>2
  <2>4. IsSequence(calls')
    BY <2>1 DEF CallInv
  <2> QED
    BY <2>1, <2>3, <2>4 DEF CallInv
<1>13. CASE UNCHANGED vars
  BY <1>13, CheckedKept
  DEF vars, CallInv, IsSequence, Validated, Explained, Tolerable
<1> QED
  BY <1>1, <1>2, <1>3, <1>4, <1>5, <1>6, <1>7, <1>8, <1>9, <1>10, <1>11, <1>12, <1>13
  DEF Next, FilterFails, ModelFails, Ended, outside

-----------------------------------------------------------------------------
(* The two properties. *)

Place(i) == Cardinality({j \in RunCalls : j =< i})
Explains(s) ==
  {calls[i].cost : i \in {j \in DOMAIN calls : calls[j].op = "explain"
                                               /\ calls[j].sql = s}}

Entry(i) ==
  LET entry == audit[Place(i)]
      ran   == calls[i].sql
  IN  /\ entry.sql = ran
      /\ entry.refs = ReferencedTables(ran)
      /\ entry.cost \in Explains(ran)
      /\ entry.permission = "ALLOW"

Ran(i) ==
  LET ran == calls[i].sql
  IN  /\ i > 2
      /\ calls[i - 2] = [op |-> "validate", sql |-> ran]
      /\ calls[i - 1].op = "explain" /\ calls[i - 1].sql = ran
      /\ Tolerable(calls[i - 1].cost)
      /\ ran.limit \in 0..MaxRows
      /\ Passes(ran)

(* How many entries the log has.                                            *)
Lengths ==
  LET ran == Cardinality(RunCalls)
  IN  CASE phase = "cancelled" -> Len(audit) = ran - 1
        [] phase = "raised" -> \/ Len(audit) = ran
                               \/ Len(audit) = ran + 1 /\ audit[ran + 1].error # NoError
        [] OTHER -> Len(audit) = ran

LEMMA Entries ==
  AuditTruthful <=> /\ Lengths
                    /\ \A i \in RunCalls : Place(i) =< Len(audit) => Entry(i)
BY DEF AuditTruthful, Lengths, Entry, Place, Explains

LEMMA EntriesNext ==
  AuditTruthful' <=> /\ Lengths'
                     /\ \A i \in RunCalls' : Place(i)' =< Len(audit') => Entry(i)'
BY DEF AuditTruthful, Lengths, Entry, Place, Explains

LEMMA Runs == RunsWhatWasChecked <=> \A i \in RunCalls : Ran(i)
BY DEF RunsWhatWasChecked, Ran, Tolerable

(* Nothing is asked of the warehouse before there is a statement.           *)
LEMMA NoCallYet ==
  ASSUME calls = <<>>, audit = <<>>, phase # "cancelled"
  PROVE  RunsWhatWasChecked /\ AuditTruthful
<1>1. RunCalls = {} /\ Len(audit) = 0 /\ Cardinality({}) = 0
  BY FS_EmptySet DEF RunCalls
<1> QED
  BY <1>1, Runs, Entries DEF Lengths

(* A step that asks nothing and leaves selection and audit log alone.       *)
LEMMA NoCall ==
  ASSUME UNCHANGED <<config, tables, calls, audit>>,
         \/ phase \notin Terminal /\ phase' # "cancelled"
         \/ phase' = phase,
         RunsWhatWasChecked, AuditTruthful
  PROVE  RunsWhatWasChecked' /\ AuditTruthful'
<1>1. RunCalls' = RunCalls /\ \A s : Passes(s)' <=> Passes(s)
  BY DEF RunCalls, Passes, Policy
<1>2. \A i \in RunCalls : Ran(i)'
  BY <1>1, Runs DEF Ran, Tolerable
<1>3. RunsWhatWasChecked'
  BY <1>1, <1>2 DEF RunsWhatWasChecked, Ran, Tolerable
<1>4. Lengths'
  BY <1>1, Entries DEF Lengths, Terminal
<1>5. \A i \in RunCalls : Place(i)' = Place(i) /\ (Entry(i) => Entry(i)')
  BY <1>1 DEF Place, Entry, Explains
<1>6. AuditTruthful'
  BY <1>1, <1>4, <1>5, Entries, EntriesNext
<1> QED
  BY <1>3, <1>6

(* A step that only adds the last entry, of a run that gives up.            *)
LEMMA EntryAppended ==
  ASSUME CallInv, RunsWhatWasChecked, AuditTruthful,
         phase \notin Terminal, phase' = "raised",
         UNCHANGED <<config, tables, calls>>,
         NEW entry, audit' = Append(audit, entry), entry.error # NoError
  PROVE  RunsWhatWasChecked' /\ AuditTruthful'
<1>1. RunCalls' = RunCalls /\ \A s : Passes(s)' <=> Passes(s)
  BY DEF RunCalls, Passes, Policy
<1>2. \A i \in RunCalls : Ran(i)'
  BY <1>1, Runs DEF Ran, Tolerable
<1>3. RunsWhatWasChecked'
  BY <1>1, <1>2 DEF RunsWhatWasChecked, Ran, Tolerable
<1>4. /\ Len(audit) \in Nat /\ Len(audit') = Len(audit) + 1
      /\ \A k \in 1..Len(audit) : audit'[k] = audit[k]
      /\ audit'[Len(audit) + 1] = entry
  BY AppendFacts DEF CallInv
<1>5. Len(audit) = Cardinality(RunCalls)
  BY Entries DEF Lengths, Terminal
<1>6. Lengths'
  BY <1>1, <1>4, <1>5 DEF Lengths
<1>7. IsFiniteSet(RunCalls)
  <2>1. RunCalls \subseteq 1..Len(calls) /\ Len(calls) \in Nat
    BY SequenceFacts DEF RunCalls, CallInv
  <2> QED
    <3>1. IsFiniteSet(1..Len(calls))
      BY <2>1, FS_Interval
    <3> QED
      BY <2>1, <3>1, FS_Subset
<1>8. ASSUME NEW i \in RunCalls PROVE Entry(i)'
  <2> DEFINE upTo == {j \in RunCalls : j =< i}
  <2>1. Place(i)' = Place(i) /\ Place(i) = Cardinality(upTo)
    BY <1>1 DEF Place
  <2>2. i \in upTo /\ upTo \subseteq RunCalls
    <3>1. i \in Nat
      BY SequenceFacts DEF RunCalls, CallInv
    <3> QED
      BY <3>1
  <2> HIDE DEF upTo
  <2>3. Place(i) \in 1..Len(audit)
    <3>1. IsFiniteSet(upTo) /\ Cardinality(upTo) =< Cardinality(RunCalls)
      BY <1>7, <2>2, FS_Subset
    <3>2. Cardinality(upTo) \in Nat /\ Cardinality(upTo) # 0
      BY <2>2, <3>1, FS_CardinalityType, FS_EmptySet
    <3> QED
      BY <1>4, <1>5, <2>1, <3>1, <3>2
  <2>4. audit'[Place(i)'] = audit[Place(i)]
    BY <1>4, <2>1, <2>3
  <2>5. Entry(i)
    BY <1>4, <2>3, Entries
  <2> QED
    BY <2>4, <2>5 DEF Entry, Explains
<1>9. AuditTruthful'
  BY <1>1, <1>6, <1>8, EntriesNext
<1> QED
  BY <1>3, <1>9

(* A validation or an EXPLAIN comes after what ran before.                  *)
LEMMA CheckAppended ==
  ASSUME CallInv, RunsWhatWasChecked, AuditTruthful,
         phase \notin Terminal, phase' \notin Terminal,
         NEW call, call.op # "run", calls' = Append(calls, call),
         UNCHANGED <<config, tables, audit>>
  PROVE  RunsWhatWasChecked' /\ AuditTruthful'
<1> DEFINE n == Len(calls)
<1>1. /\ n \in Nat /\ DOMAIN calls = 1..n /\ DOMAIN calls' = 1..(n + 1)
      /\ \A i \in 1..n : calls'[i] = calls[i]
      /\ calls'[n + 1] = call
  BY AppendFacts DEF CallInv
<1> HIDE DEF n
<1>2. RunCalls' = RunCalls /\ RunCalls \subseteq 1..n
  BY <1>1 DEF RunCalls
<1>3. ASSUME NEW i \in RunCalls PROVE Ran(i)'
  <2>1. Ran(i) /\ i \in 1..n /\ i > 2
    BY <1>2, Runs DEF Ran
  <2>2. i - 1 \in 1..n /\ i - 2 \in 1..n
    BY <1>1, <2>1
  <2>3. /\ calls'[i] = calls[i] /\ calls'[i - 1] = calls[i - 1]
        /\ calls'[i - 2] = calls[i - 2]
    BY <1>1, <2>1, <2>2
  <2>4. Passes(calls[i].sql)' <=> Passes(calls[i].sql)
    BY <2>3 DEF Passes, Policy
  <2> QED
    BY <2>1, <2>3, <2>4 DEF Ran, Tolerable
<1>4. ASSUME NEW i \in RunCalls, Place(i)' =< Len(audit') PROVE Entry(i)'
  <2>2. Place(i)' = Place(i)
    BY <1>2 DEF Place
  <2>1. Entry(i) /\ i \in 1..n
    BY <1>2, <1>4, <2>2, Entries
  <2>3. calls'[i] = calls[i]
    BY <1>1, <2>1
  <2>4. Explains(calls[i].sql) \subseteq Explains(calls[i].sql)'
    BY <1>1, <2>3 DEF Explains
  <2> QED
    BY <2>1, <2>2, <2>3, <2>4 DEF Entry
<1>5. Lengths'
  BY <1>2, Entries DEF Lengths, Terminal
<1>6. RunsWhatWasChecked'
  BY <1>2, <1>3 DEF RunsWhatWasChecked, Ran, Tolerable
<1>7. AuditTruthful'
  BY <1>2, <1>4, <1>5, EntriesNext
<1> QED
  BY <1>6, <1>7

(* The run comes right after its validation and its EXPLAIN, and its entry, *)
(* if it was not cancelled, after the entries of what ran before.           *)
LEMMA RunAppended ==
  ASSUME CallInv, RunsWhatWasChecked, AuditTruthful, Execute \/ RunCancelled
  PROVE  RunsWhatWasChecked' /\ AuditTruthful'
<1>0. PICK n : n = Len(calls)
  OBVIOUS
<1> DEFINE call == [op |-> "run", sql |-> normalized]
           entry == [sql |-> normalized, refs |-> refs, cost |-> cost,
                     permission |-> permission, error |-> error']
<1>1. /\ Checked /\ Explained /\ Sent = normalized
      /\ UNCHANGED <<config, tables, normalized>> /\ phase = "execute"
  BY SentNormalized DEF Execute, RunCancelled, CallInv, selection, statement
<1>2. /\ calls' = Append(calls, call)
      /\ \/ audit' = Append(audit, entry) /\ phase' \in {"done", "correct", "failed"}
         \/ audit' = audit /\ phase' = "cancelled"
  BY <1>1, RouteFacts DEF Execute, RunCancelled, Record
<1> HIDE DEF call, entry
<1>3. /\ n \in Nat /\ DOMAIN calls = 1..n /\ DOMAIN calls' = 1..(n + 1)
      /\ \A i \in 1..n : calls'[i] = calls[i]
      /\ calls'[n + 1] = call
  BY <1>0, <1>2, AppendFacts DEF CallInv
<1>4. /\ Len(audit) \in Nat
      /\ \A k \in 1..Len(audit) : audit'[k] = audit[k]
      /\ \/ /\ Len(audit') = Len(audit) + 1 /\ audit'[Len(audit) + 1] = entry
            /\ phase' \in {"done", "correct", "failed"}
         \/ Len(audit') = Len(audit) /\ phase' = "cancelled"
  BY <1>2, SequenceFacts, AppendFacts DEF CallInv
<1>5. /\ n > 1 /\ calls[n - 1] = [op |-> "validate", sql |-> normalized]
      /\ calls[n] = [op |-> "explain", sql |-> normalized, cost |-> cost]
      /\ Tolerable(cost)
  BY <1>0, <1>1 DEF Explained, Validated
<1>6. RunCalls' = RunCalls \cup {n + 1} /\ RunCalls \subseteq 1..n
  BY <1>3 DEF RunCalls, call
<1>7. ASSUME NEW i \in RunCalls PROVE Ran(i)'
  <2>1. Ran(i) /\ i \in 1..n /\ i > 2
    BY <1>6, Runs DEF Ran
  <2>2. i - 1 \in 1..n /\ i - 2 \in 1..n
    BY <1>3, <2>1
  <2>3. /\ calls'[i] = calls[i] /\ calls'[i - 1] = calls[i - 1]
        /\ calls'[i - 2] = calls[i - 2]
    BY <1>3, <2>1, <2>2
  <2>4. Passes(calls[i].sql)' <=> Passes(calls[i].sql)
    BY <1>1, <2>3 DEF Passes, Policy
  <2> QED
    BY <1>1, <2>1, <2>3, <2>4 DEF Ran, Tolerable
<1>8. Ran(n + 1)'
  <2>1. /\ n \in 1..n /\ n - 1 \in 1..n /\ (n + 1) - 1 = n /\ (n + 1) - 2 = n - 1
        /\ n + 1 > 2
    BY <1>3, <1>5
  <2>2. /\ calls'[n] = [op |-> "explain", sql |-> normalized, cost |-> cost]
        /\ calls'[n - 1] = [op |-> "validate", sql |-> normalized]
        /\ calls'[n + 1].sql = normalized
    BY <1>3, <1>5, <2>1 DEF call
  <2>3. Passes(normalized)' /\ normalized' = normalized
    BY <1>1 DEF Checked, Passes, Policy
  <2>4. normalized.limit \in 0..MaxRows /\ Tolerable(cost)
    BY <1>1, <1>5 DEF Checked
  <2>5. Passes(calls[n + 1].sql)'
    BY <2>2, <2>3 DEF Passes, Policy
  <2>6. (Tolerable(calls[n].cost))'
    BY <1>1, <2>2, <2>4 DEF Tolerable
  <2> QED
    BY <2>1, <2>2, <2>4, <2>5, <2>6 DEF Ran
<1>9. /\ Len(audit) = Cardinality(RunCalls) /\ IsFiniteSet(RunCalls)
      /\ Cardinality(RunCalls') = Len(audit) + 1
  <2>1. IsFiniteSet(1..n)
    BY <1>3, FS_Interval
  <2>2. IsFiniteSet(RunCalls)
    BY <1>6, <2>1, FS_Subset
  <2>3. n + 1 \notin RunCalls
    BY <1>3, <1>6
  <2>4. Len(audit) = Cardinality(RunCalls)
    BY <1>1, Entries DEF Lengths
  <2> QED
    BY <1>6, <2>2, <2>3, <2>4, FS_AddElement
<1>10. ASSUME NEW i \in RunCalls PROVE Entry(i)'
  <2>1. i \in 1..n
    BY <1>6
  <2> DEFINE upTo == {j \in RunCalls : j =< i}
  <2>2. upTo = {j \in RunCalls' : j =< i}
    BY <1>3, <1>6, <2>1
  <2>3. Place(i)' = Place(i) /\ Place(i) = Cardinality(upTo)
    BY <2>2 DEF Place
  <2>4. i \in upTo /\ upTo \subseteq RunCalls
    BY <1>6, <2>1
  <2> HIDE DEF upTo
  <2>5. Place(i) \in 1..Len(audit)
    <3>1. /\ IsFiniteSet(upTo) /\ Cardinality(upTo) =< Cardinality(RunCalls)
      BY <1>9, <2>4, FS_Subset
    <3>2. Cardinality(upTo) \in Nat /\ Cardinality(upTo) # 0
      BY <2>4, <3>1, FS_CardinalityType, FS_EmptySet
    <3> QED
      BY <1>4, <1>9, <2>3, <3>1, <3>2
  <2>6. audit'[Place(i)'] = audit[Place(i)]
    BY <1>4, <2>3, <2>5
  <2>7. calls'[i] = calls[i]
    BY <1>3, <2>1
  <2>8. Explains(calls[i].sql) \subseteq Explains(calls[i].sql)'
    BY <1>3, <2>7 DEF Explains
  <2>9. Entry(i)
    BY <1>4, <2>5, Entries
  <2> QED
    BY <2>6, <2>7, <2>8, <2>9 DEF Entry
<1>11. ASSUME Place(n + 1)' =< Len(audit') PROVE Entry(n + 1)'
  <2>1. {j \in RunCalls' : j =< n + 1} = RunCalls'
    <3>1. \A j \in RunCalls' : j =< n + 1
      BY <1>3, <1>6
    <3> QED
      BY <3>1
  <2>2. Place(n + 1)' = Len(audit) + 1
    <3>1. Place(n + 1)' = Cardinality({j \in RunCalls' : j =< n + 1})
      BY DEF Place
    <3> QED
      BY <1>9, <2>1, <3>1
  <2>3. audit'[Place(n + 1)'] = entry
    BY <1>4, <1>11, <2>2
  <2>4. calls'[n + 1].sql = normalized
    BY <1>3 DEF call
  <2>5. /\ n \in DOMAIN calls'
        /\ calls'[n] = [op |-> "explain", sql |-> normalized, cost |-> cost]
    BY <1>3, <1>5
  <2>6. cost \in Explains(calls[n + 1].sql)'
    BY <2>4, <2>5 DEF Explains
  <2>7. refs = ReferencedTables(normalized) /\ permission = "ALLOW"
    BY <1>1 DEF Checked
  <2> QED
    BY <2>3, <2>4, <2>6, <2>7 DEF Entry, entry
<1>12. RunsWhatWasChecked'
  BY <1>6, <1>7, <1>8 DEF RunsWhatWasChecked, Ran, Tolerable
<1>13. AuditTruthful'
  <2>1. Lengths'
    BY <1>4, <1>9 DEF Lengths
  <2>2. \A i \in RunCalls' : Place(i)' =< Len(audit') => Entry(i)'
    BY <1>6, <1>10, <1>11
  <2> QED
    BY <2>1, <2>2, EntriesNext
<1> QED
  BY <1>12, <1>13

(* While tables are chosen nothing has run; after that no step changes what *)
(* the statement was checked against.                                       *)
LEMMA PropertiesStep ==
  ASSUME PipelineInv, [Next]_vars
  PROVE  RunsWhatWasChecked' /\ AuditTruthful'
<1> USE DEF PipelineInv
<1>1. CASE Merge \/ FilterRanked \/ FilterNamed
  <2>1. calls' = <<>> /\ audit' = <<>>
    BY <1>1 DEF Merge, FilterRanked, FilterNamed, outside, CallInv
  <2>2. RunCalls' = {} /\ Len(audit') = 0 /\ phase' # "cancelled"
    BY <1>1, <2>1 DEF RunCalls, Merge, FilterRanked, FilterNamed
  <2>3. Lengths'
    BY <2>2, FS_EmptySet DEF Lengths
  <2> QED
    BY <2>2, <2>3, EntriesNext DEF RunsWhatWasChecked
<1>2. CASE Validate
  <2>1. phase \notin Terminal /\ phase' \notin Terminal
    BY <1>2, RouteFacts DEF Validate, Terminal
  <2> QED
    BY <1>2, <2>1, CheckAppended DEF Validate, selection
<1>3. CASE EvaluateCost
  <2>1. phase \notin Terminal /\ phase' \notin Terminal
    BY <1>3, RouteFacts DEF EvaluateCost, Terminal
  <2> QED
    BY <1>3, <2>1, CheckAppended DEF EvaluateCost, selection
<1>4. CASE Execute \/ RunCancelled
  BY <1>4, RunAppended
<1>5. CASE /\ UNCHANGED <<config, tables, calls, audit>>
           /\ \/ phase \notin Terminal /\ phase' # "cancelled"
              \/ phase' = phase
  BY <1>5, NoCall
<1>6. CASE Recall \/ FilterFails \/ Generate \/ Correct \/ ModelFails
  BY <1>5, <1>6
  DEF Recall, FilterFails, Generate, Correct, ModelFails, selection, outside, Terminal
<1>7. CASE Security
  <2>1. phase = "security" /\ phase' \in {"validate", "correct", "failed"}
    BY <1>7, RouteFacts DEF Security
  <2> QED
    BY <1>5, <1>7, <2>1 DEF Security, selection, outside, Terminal
<1>8. CASE Failed \/ BudgetEnds
  <2>1. /\ phase \notin Terminal /\ phase' = "raised"
        /\ UNCHANGED <<config, tables, calls>>
    BY <1>8 DEF Failed, BudgetEnds, selection, Terminal
  <2>2. CASE audit' = audit
    BY <1>5, <2>1, <2>2
  <2>3. ASSUME NEW code, Record(code), code # NoError
        PROVE  RunsWhatWasChecked' /\ AuditTruthful'
    <3> DEFINE entry == [sql |-> Sent, refs |-> refs, cost |-> cost,
                         permission |-> permission, error |-> code]
    <3>1. audit' = Append(audit, entry) /\ entry.error # NoError
      BY <2>3 DEF Record
    <3> HIDE DEF entry
    <3> QED
      BY <2>1, <3>1, EntryAppended
  <2>4. \/ audit' = audit
        \/ \E code : Record(code) /\ code # NoError
    <3>1. CASE Failed
      BY <3>1 DEF Failed, FailedInv
    <3>2. CASE BudgetEnds
      BY <3>2 DEF BudgetEnds, NoError
    <3> QED
      BY <1>8, <3>1, <3>2
  <2> QED
    BY <2>2, <2>3, <2>4
<1>9. CASE Ended \/ UNCHANGED vars
  BY <1>5, <1>9 DEF Ended, vars
<1> QED
  BY <1>1, <1>2, <1>3, <1>4, <1>6, <1>7, <1>8, <1>9 DEF Next

-----------------------------------------------------------------------------
(* The specification. *)

LEMMA InitInv == Init => PipelineInv
<1> SUFFICES ASSUME Init PROVE PipelineInv
  OBVIOUS
<1>1. TypeInv
  BY Retries, RowLimit DEF Init, TypeInv, TypeOK, TableInv, TryInv, NoFinding
<1>2. CallInv
  BY DEF Init, CallInv, IsSequence
<1>3. RunsWhatWasChecked /\ AuditTruthful
  BY NoCallYet DEF Init
<1>4. FailedInv
  BY DEF Init, FailedInv
<1> QED
  BY <1>1, <1>2, <1>3, <1>4 DEF PipelineInv

(* A statement reaches validate_sql, evaluate_sql_cost and execute_sql only *)
(* after security_validate_sql passed it, and state, calls and audit log    *)
(* speak of the same statement at every node.                               *)
THEOREM PipelineInvariant == Spec => []PipelineInv
<1>1. PipelineInv /\ [Next]_vars => PipelineInv'
  BY TypeStep, CallStep, FailedStep, PropertiesStep DEF PipelineInv
<1> QED
  BY InitInv, <1>1, PTL DEF Spec

(* The state of the nodes keeps its types: every table kept has its name    *)
(* once, correct_sql stays within max_retries, the log gets one entry a try *)
(* at most, and execute_sql never returns more rows than the limit.         *)
THEOREM TypeCorrect == Spec => []TypeOK
BY PipelineInvariant, PTL DEF PipelineInv, TypeInv

(* Whatever the model writes and however often correct_sql runs, what the   *)
(* warehouse executes is the limited statement it validated and explained   *)
(* just before, within the selection and the grants, at a tolerable cost.   *)
THEOREM OnlyCheckedStatementsRun == Spec => []RunsWhatWasChecked
BY PipelineInvariant, PTL DEF PipelineInv

(* execute_sql writes one audit entry a run, in order, and the entry holds  *)
(* that statement, its tables, a cost EXPLAIN gave it, and ALLOW; a run     *)
(* without an entry is one that was cancelled, and an entry without a run   *)
(* is the last one, of a request that failed.                               *)
THEOREM AuditTells == Spec => []AuditTruthful
BY PipelineInvariant, PTL DEF PipelineInv

-----------------------------------------------------------------------------
(* The candidates in their order. *)

(* A strict total order of a finite set, as a set of pairs.                 *)
StrictOrder(F, B) ==
  /\ \A x, y \in F : x # y => <<x, y>> \in B \/ <<y, x>> \in B
  /\ \A x, y \in F : <<x, y>> \in B => <<y, x>> \notin B
  /\ \A x, y, z \in F : <<x, y>> \in B /\ <<y, z>> \in B => <<x, z>> \in B

Above(F, B, x) == {y \in F : <<y, x>> \in B}

(* As many are above one as come before it: every place is taken once.      *)
LEMMA Places ==
  ASSUME NEW F, IsFiniteSet(F), NEW B, StrictOrder(F, B)
  PROVE  /\ Cardinality(F) \in Nat
         /\ \A x \in F : Cardinality(Above(F, B, x)) \in 0..(Cardinality(F) - 1)
         /\ \A x, y \in F :
              Cardinality(Above(F, B, x)) = Cardinality(Above(F, B, y)) => x = y
         /\ \A i \in 0..(Cardinality(F) - 1) :
              \E x \in F : Cardinality(Above(F, B, x)) = i
<1> DEFINE n == Cardinality(F)
           place == [x \in F |-> Cardinality(Above(F, B, x))]
<1>1. n \in Nat
  BY FS_CardinalityType
<1>2. ASSUME NEW x \in F
      PROVE  /\ IsFiniteSet(Above(F, B, x)) /\ Cardinality(Above(F, B, x)) \in Nat
             /\ Cardinality(Above(F, B, x)) <= n /\ Above(F, B, x) # F
  <2>1. Above(F, B, x) \in SUBSET F /\ x \notin Above(F, B, x)
    BY DEF Above, StrictOrder
  <2> QED
    BY <2>1, FS_Subset, FS_CardinalityType
<1>3. ASSUME NEW x \in F PROVE Cardinality(Above(F, B, x)) \in 0..(n - 1)
  <2>1. Above(F, B, x) \in SUBSET F /\ Above(F, B, x) # F
    BY <1>2 DEF Above
  <2>2. Cardinality(Above(F, B, x)) # n
    BY <2>1, FS_Subset
  <2> HIDE DEF n
  <2> QED
    BY <1>1, <1>2, <2>2
<1>4. ASSUME NEW x \in F, NEW y \in F, <<x, y>> \in B
      PROVE  Cardinality(Above(F, B, x)) # Cardinality(Above(F, B, y))
  <2>1. Above(F, B, x) \in SUBSET Above(F, B, y)
    BY <1>4 DEF Above, StrictOrder
  <2>2. x \in Above(F, B, y) /\ x \notin Above(F, B, x)
    BY <1>4 DEF Above, StrictOrder
  <2>3. IsFiniteSet(Above(F, B, y))
    BY <1>2
  <2> QED
    BY <2>1, <2>2, <2>3, FS_Subset
<1>5. ASSUME NEW x \in F, NEW y \in F,
             Cardinality(Above(F, B, x)) = Cardinality(Above(F, B, y))
      PROVE  x = y
  BY <1>4, <1>5 DEF StrictOrder
<1>6. place \in Injection(F, 0..(n - 1))
  <2>1. place \in [F -> 0..(n - 1)]
    BY <1>3
  <2>2. \A x, y \in F : place[x] = place[y] => x = y
    BY <1>5
  <2> HIDE DEF place
  <2> QED
    BY <2>1, <2>2 DEF Injection, IsInjective
<1>7. IsFiniteSet(0..(n - 1)) /\ Cardinality(0..(n - 1)) = n
  <2>1. 0 \in Int /\ n - 1 \in Int
    BY <1>1
  <2>2. /\ IsFiniteSet(0..(n - 1))
        /\ Cardinality(0..(n - 1)) = IF 0 > n - 1 THEN 0 ELSE (n - 1) - 0 + 1
    BY <2>1, FS_Interval
  <2> HIDE DEF n
  <2> QED
    BY <1>1, <2>2
<1>8. place \in Surjection(F, 0..(n - 1))
  <2> HIDE DEF place
  <2> QED
    BY <1>6, <1>7, FS_Injection
<1>9. \A i \in 0..(n - 1) : \E x \in F : place[x] = i
  <2> HIDE DEF place
  <2> QED
    BY <1>8 DEF Surjection
<1> QED
  BY <1>1, <1>3, <1>5, <1>9

(* A feature is compared by three numbers and by a name.                    *)
Comparable(F, names) ==
  /\ \A f \in F : f.total \in Int /\ f.coverage \in Int /\ f.vector \in Int /\ f.name \in names
  /\ \A f, g \in F : f.name = g.name => f = g

(* Better as a set of pairs.                                                *)
BetterPairs(F) == {p \in F \X F : Better(p[1], p[2])}

(* Better is a strict order of features that have different names.          *)
LEMMA BetterOrders ==
  ASSUME NEW F, NEW names \in {Tables, Metrics}, Comparable(F, names)
  PROVE  StrictOrder(F, BetterPairs(F))
<1>1. \A x, y \in F : <<x, y>> \in BetterPairs(F) <=> Better(x, y)
  BY DEF BetterPairs
<1>2. \A x, y \in names :
        /\ x # y => Before(x, y) \/ Before(y, x)
        /\ Before(x, y) => ~Before(y, x)
        /\ \A z \in names : Before(x, y) /\ Before(y, z) => Before(x, z)
  BY NamesOrdered
<1>3. ASSUME NEW x \in F, NEW y \in F PROVE x # y => Better(x, y) \/ Better(y, x)
  <2>1. x # y => x.name # y.name
    BY DEF Comparable
  <2> QED
    BY <1>2, <2>1 DEF Comparable, Better
<1>4. ASSUME NEW x \in F, NEW y \in F PROVE Better(x, y) => ~Better(y, x)
  BY <1>2 DEF Comparable, Better
<1>5. ASSUME NEW x \in F, NEW y \in F, NEW z \in F
      PROVE  Better(x, y) /\ Better(y, z) => Better(x, z)
  BY <1>2 DEF Comparable, Better
<1> QED
  BY <1>1, <1>3, <1>4, <1>5 DEF StrictOrder

(* Sorted lists every feature of a finite set, each once.                   *)
LEMMA SortedFacts ==
  ASSUME NEW F, IsFiniteSet(F), NEW names \in {Tables, Metrics}, Comparable(F, names)
  PROVE  /\ Cardinality(F) \in Nat
         /\ Sorted(F) \in [1..Cardinality(F) -> F]
         /\ \A x \in F : \E i \in 1..Cardinality(F) : Sorted(F)[i] = x
         /\ \A i, j \in 1..Cardinality(F) : Sorted(F)[i] = Sorted(F)[j] => i = j
<1> DEFINE B == BetterPairs(F)
           n == Cardinality(F)
<1>1. StrictOrder(F, B)
  BY BetterOrders
<1>2. /\ n \in Nat
      /\ \A x \in F : Cardinality(Above(F, B, x)) \in 0..(n - 1)
      /\ \A x, y \in F :
           Cardinality(Above(F, B, x)) = Cardinality(Above(F, B, y)) => x = y
      /\ \A i \in 0..(n - 1) : \E x \in F : Cardinality(Above(F, B, x)) = i
  BY <1>1, Places
<1>3. \A x \in F : {g \in F : Better(g, x)} = Above(F, B, x)
  BY DEF Above, BetterPairs
<1>4. /\ \A i \in 1..n :
           Sorted(F)[i] = CHOOSE f \in F : Cardinality({g \in F : Better(g, f)}) = i - 1
      /\ DOMAIN Sorted(F) = 1..n /\ Sorted(F) = [i \in 1..n |-> Sorted(F)[i]]
  BY DEF Sorted
<1> HIDE DEF B, n
<1>5. ASSUME NEW i \in 1..n
      PROVE  Sorted(F)[i] \in F /\ Cardinality(Above(F, B, Sorted(F)[i])) = i - 1
  <2>1. i - 1 \in 0..(n - 1)
    BY <1>2
  <2>2. \E f \in F : Cardinality(Above(F, B, f)) = i - 1
    BY <1>2, <2>1
  <2>3. \E f \in F : Cardinality({g \in F : Better(g, f)}) = i - 1
    BY <1>3, <2>2
  <2>4. LET s == CHOOSE f \in F : Cardinality({g \in F : Better(g, f)}) = i - 1
        IN  s \in F /\ Cardinality({g \in F : Better(g, s)}) = i - 1
    BY <2>3
  <2>5. Sorted(F)[i] \in F /\ Cardinality({g \in F : Better(g, Sorted(F)[i])}) = i - 1
    BY <1>4, <2>4
  <2> QED
    BY <1>3, <2>5
<1>6. Sorted(F) \in [1..n -> F]
  BY <1>4, <1>5
<1>7. ASSUME NEW x \in F PROVE \E i \in 1..n : Sorted(F)[i] = x
  <2>1. Cardinality(Above(F, B, x)) \in 0..(n - 1)
    BY <1>2
  <2>2. PICK i \in 1..n : Cardinality(Above(F, B, x)) = i - 1
    <3>1. /\ Cardinality(Above(F, B, x)) + 1 \in 1..n
          /\ Cardinality(Above(F, B, x)) = (Cardinality(Above(F, B, x)) + 1) - 1
      BY <1>2, <2>1
    <3> QED
      BY <3>1
  <2> QED
    BY <1>2, <1>5, <2>2
<1>8. ASSUME NEW i \in 1..n, NEW j \in 1..n, Sorted(F)[i] = Sorted(F)[j] PROVE i = j
  <2>1. i - 1 = j - 1
    BY <1>5, <1>8
  <2> QED
    BY <1>2, <2>1
<1> QED
  BY <1>2, <1>6, <1>7, <1>8 DEF n

-----------------------------------------------------------------------------
(* Folds: the provers unfold one to a recursion over sets of numbers. *)

(* The provers cannot instantiate an induction theorem that takes a         *)
(* predicate; this one takes a set, and comes from the well-foundedness     *)
(* of the order of the naturals.                                            *)
LEMMA SmallestOf ==
  ASSUME NEW T \in SUBSET Nat, T # {}
  PROVE  \E x \in T : \A y \in T : x <= y
<1>1. \E x \in T : \A y \in T : <<y, x>> \notin OpToRel(<, Nat)
  BY NatLessThanWellFounded, WFMin
<1>2. \A x, y \in T : <<y, x>> \notin OpToRel(<, Nat) => x <= y
  BY DEF OpToRel
<1> QED
  BY <1>1, <1>2

(* A set with 0, and with n + 1 when with n, has every natural.            *)
LEMMA SetInduction ==
  ASSUME NEW S, 0 \in S, \A n \in Nat : n \in S => n + 1 \in S
  PROVE  \A n \in Nat : n \in S
<1> DEFINE T == {n \in Nat : n \notin S}
<1>1. SUFFICES ASSUME T # {} PROVE FALSE
  OBVIOUS
<1>2. PICK m \in T : \A y \in T : m <= y
  BY <1>1, SmallestOf
<1>3. m # 0
  OBVIOUS
<1>4. m - 1 \in Nat /\ m - 1 \notin T
  BY <1>2, <1>3
<1> QED
  BY <1>4


(* A set of numbers up to N has a largest one.                              *)
LEMMA MaxOf ==
  ASSUME NEW N \in Nat, NEW S \in SUBSET (0..N), S # {}
  PROVE  Max(S) \in S /\ \A y \in S : y <= Max(S)
<1> DEFINE T == {n \in Nat : N - n \in S}
<1>1. T \in SUBSET Nat /\ T # {}
  <2>1. PICK x \in S : TRUE
    OBVIOUS
  <2>2. N - x \in Nat /\ N - (N - x) = x
    OBVIOUS
  <2> QED
    BY <2>1, <2>2
<1> HIDE DEF T
<1>2. PICK n \in T : \A y \in T : n <= y
  BY <1>1, SmallestOf
<1>3. \A y \in S : N - n >= y
  <2>1. ASSUME NEW y \in S PROVE N - n >= y
    <3>1. PICK z \in Nat : z = N - y
      OBVIOUS
    <3>2. N - z = y /\ y \in Nat
      BY <3>1
    <3>3. z \in T
      BY <3>2 DEF T
    <3>4. n <= z /\ n \in Nat
      BY <1>2, <3>3 DEF T
    <3> QED
      BY <3>1, <3>2, <3>4
  <2> QED
    BY <2>1
<1>4. \E x \in S : \A y \in S : x >= y
  BY <1>2, <1>3 DEF T
<1>5. Max(S) \in S /\ \A y \in S : Max(S) >= y
  BY <1>4 DEF Max
<1> QED
  BY <1>5

(* The largest element of a set is the only one that bounds it.             *)
LEMMA MaxIs ==
  ASSUME NEW N \in Nat, NEW S \in SUBSET (0..N), NEW x \in S, \A y \in S : y <= x
  PROVE  Max(S) = x
<1> DEFINE m == Max(S)
<1>1. m \in S /\ \A y \in S : y <= m
  BY MaxOf
<1> HIDE DEF m
<1>2. m <= x /\ x <= m /\ x \in Int /\ m \in Int
  BY <1>1
<1>3. m = x
  BY <1>2
<1> QED
  BY <1>3 DEF m

(* A recursion over the sets of numbers up to N, the largest number last.   *)
IsSetFold(g, R, base, F, N) ==
  /\ g \in [SUBSET (1..N) -> R] /\ g[{}] = base
  /\ \A s \in SUBSET (1..N) : s # {} => g[s] = F[<<g[s \ {Max(s)}], Max(s)>>]

(* Such a recursion goes one number further,                                *)
LEMMA SetFoldStep ==
  ASSUME NEW R, NEW base \in R, NEW N \in Nat, NEW F \in [R \X (1..N) -> R],
         NEW k \in Nat, k + 1 <= N, NEW f, IsSetFold(f, R, base, F, k)
  PROVE  \E g : IsSetFold(g, R, base, F, k + 1)
<1> DEFINE g == [s \in SUBSET (1..(k + 1)) |->
                   IF k + 1 \in s THEN F[<<f[s \ {k + 1}], k + 1>>] ELSE f[s]]
<1>1. /\ f \in [SUBSET (1..k) -> R] /\ f[{}] = base
      /\ \A s \in SUBSET (1..k) : s # {} => f[s] = F[<<f[s \ {Max(s)}], Max(s)>>]
  BY DEF IsSetFold
<1>2. ASSUME NEW s \in SUBSET (1..(k + 1)), k + 1 \in s
      PROVE  /\ s \ {k + 1} \in SUBSET (1..k) /\ k + 1 \in 1..N
             /\ Max(s) = k + 1
             /\ g[s] = F[<<f[s \ {k + 1}], k + 1>>]
             /\ g[s \ {k + 1}] = f[s \ {k + 1}]
  <2>1. \A y \in s : y <= k + 1 /\ y \in 0..(k + 1)
    OBVIOUS
  <2>2. Max(s) = k + 1
    <3>1. k + 1 \in Nat /\ s \in SUBSET (0..(k + 1))
      BY <2>1
    <3> QED
      BY <1>2, <2>1, <3>1, MaxIs
  <2>3. s \ {k + 1} \in SUBSET (1..k) /\ k + 1 \in 1..N
    OBVIOUS
  <2>4. s \ {k + 1} \in SUBSET (1..(k + 1)) /\ k + 1 \notin s \ {k + 1}
    OBVIOUS
  <2>5. g[s] = F[<<f[s \ {k + 1}], k + 1>>]
    BY <1>2
  <2>6. g[s \ {k + 1}] = f[s \ {k + 1}]
    BY <2>4
  <2> QED
    BY <2>2, <2>3, <2>5, <2>6
<1>3. ASSUME NEW s \in SUBSET (1..(k + 1)), k + 1 \notin s
      PROVE  /\ s \in SUBSET (1..k) /\ g[s] = f[s]
             /\ s # {} => Max(s) \in s /\ Max(s) \in 1..k
                          /\ g[s \ {Max(s)}] = f[s \ {Max(s)}]
  <2>1. s \in SUBSET (1..k)
    <3>1. ASSUME NEW y \in s PROVE y \in 1..k
      <4>1. y \in 1..(k + 1) /\ y # k + 1
        BY <1>3
      <4> QED
        BY <4>1
    <3> QED
      BY <3>1
  <2>2. g[s] = f[s]
    BY <1>3
  <2>3. ASSUME s # {}
        PROVE  Max(s) \in s /\ Max(s) \in 1..k /\ g[s \ {Max(s)}] = f[s \ {Max(s)}]
    <3>1. s \in SUBSET (0..k)
      BY <2>1
    <3>2. Max(s) \in s
      BY <2>3, <3>1, MaxOf
    <3>3. s \ {Max(s)} \in SUBSET (1..(k + 1)) /\ k + 1 \notin s \ {Max(s)}
      BY <1>3
    <3>4. g[s \ {Max(s)}] = f[s \ {Max(s)}]
      BY <3>3
    <3> QED
      BY <2>1, <3>2, <3>4
  <2> QED
    BY <2>1, <2>2, <2>3
<1>4. g \in [SUBSET (1..(k + 1)) -> R]
  <2>1. ASSUME NEW s \in SUBSET (1..(k + 1)) PROVE g[s] \in R
    <3>1. CASE k + 1 \in s
      <4>1. f[s \ {k + 1}] \in R /\ k + 1 \in 1..N
        BY <1>1, <1>2, <3>1
      <4>2. F[<<f[s \ {k + 1}], k + 1>>] \in R
        BY <4>1
      <4> HIDE DEF g
      <4> QED
        BY <1>2, <3>1, <4>2
    <3>2. CASE k + 1 \notin s
      <4> HIDE DEF g
      <4> QED
        BY <1>1, <1>3, <3>2
    <3> QED
      BY <3>1, <3>2
  <2>2. g = [s \in SUBSET (1..(k + 1)) |-> g[s]]
    OBVIOUS
  <2> HIDE DEF g
  <2> QED
    BY <2>1, <2>2
<1> HIDE DEF g
<1>5. g[{}] = base
  <2>1. {} \in SUBSET (1..(k + 1)) /\ k + 1 \notin {}
    OBVIOUS
  <2> QED
    BY <1>1, <1>3, <2>1
<1>6. ASSUME NEW s \in SUBSET (1..(k + 1)), s # {}
      PROVE  g[s] = F[<<g[s \ {Max(s)}], Max(s)>>]
  <2>1. CASE k + 1 \in s
    <3>1. g[s] = F[<<f[s \ {k + 1}], k + 1>>] /\ Max(s) = k + 1 /\ g[s \ {k + 1}] = f[s \ {k + 1}]
      BY <1>2, <2>1
    <3> QED
      BY <3>1
  <2>2. CASE k + 1 \notin s
    <3>1. s \in SUBSET (1..k) /\ g[s] = f[s] /\ g[s \ {Max(s)}] = f[s \ {Max(s)}]
      BY <1>3, <1>6, <2>2
    <3>2. f[s] = F[<<f[s \ {Max(s)}], Max(s)>>]
      BY <1>1, <1>6, <3>1
    <3> QED
      BY <3>1, <3>2
  <2> QED
    BY <2>1, <2>2
<1>7. IsSetFold(g, R, base, F, k + 1)
  BY <1>4, <1>5, <1>6 DEF IsSetFold
<1> QED
  BY <1>7

(* so that it goes as far as it is defined.                                 *)
LEMMA SetFoldExists ==
  ASSUME NEW R, NEW base \in R, NEW N \in Nat, NEW F \in [R \X (1..N) -> R]
  PROVE  \E g : IsSetFold(g, R, base, F, N)
<1> DEFINE S == {k \in Nat : k <= N => \E g : IsSetFold(g, R, base, F, k)}
<1>1. 0 \in S
  <2> DEFINE g == [s \in SUBSET (1..0) |-> base]
  <2>1. g \in [SUBSET (1..0) -> R] /\ g[{}] = base
    OBVIOUS
  <2>2. \A s \in SUBSET (1..0) : s = {}
    OBVIOUS
  <2> HIDE DEF g
  <2>3. IsSetFold(g, R, base, F, 0)
    BY <2>1, <2>2 DEF IsSetFold
  <2> QED
    BY <2>3
<1>2. ASSUME NEW k \in Nat, k \in S PROVE k + 1 \in S
  <2>1. SUFFICES ASSUME k + 1 <= N PROVE \E g : IsSetFold(g, R, base, F, k + 1)
    OBVIOUS
  <2>2. PICK f : IsSetFold(f, R, base, F, k)
    BY <1>2, <2>1
  <2> QED
    BY <2>1, <2>2, SetFoldStep
<1> HIDE DEF S
<1>3. N \in S
  BY <1>1, <1>2, SetInduction
<1> QED
  BY <1>3 DEF S

-----------------------------------------------------------------------------
(* The order that the model puts on the names. *)

(* What ValidatedOrder does with one name.                                  *)
KeepAllowed(kept, name, allowed) == IF name \in allowed THEN AddOnce(kept, name) ELSE kept

(* A name that is kept or not leaves a sequence of allowed names.           *)
LEMMA KeepTyped ==
  ASSUME NEW allowed, NEW kept \in Seq(allowed), NEW name
  PROVE  KeepAllowed(kept, name, allowed) \in Seq(allowed)
BY DEF KeepAllowed, AddOnce

(* The order of the names goes through them one after the other.            *)
LEMMA OrderSteps ==
  ASSUME NEW T, NEW names \in Seq(T), NEW allowed
  PROVE  \E h : /\ h[0] = <<>>
                /\ \A n \in 1..Len(names) : h[n] = KeepAllowed(h[n - 1], names[n], allowed)
                /\ ValidatedOrder(names, allowed) = h[Len(names)]
<1> DEFINE N == Len(names)
           F == [p \in Seq(allowed) \X (1..N) |-> KeepAllowed(p[1], names[p[2]], allowed)]
           E(g) == [s \in SUBSET DOMAIN names |->
                      IF s = {} THEN <<>>
                      ELSE KeepAllowed(g[s \ {Max(s)}], names[Max(s)], allowed)]
           iter == CHOOSE g : g = E(g)
           h == [k \in 0..N |-> iter[1..k]]
<1>1. N \in Nat /\ <<>> \in Seq(allowed) /\ DOMAIN names = 1..N
  OBVIOUS
<1>2. F \in [Seq(allowed) \X (1..N) -> Seq(allowed)]
  BY KeepTyped
<1>3. \A t \in Seq(allowed), n \in 1..N : F[<<t, n>>] = KeepAllowed(t, names[n], allowed)
  OBVIOUS
<1>4. ValidatedOrder(names, allowed) = iter[DOMAIN names]
  BY DEF ValidatedOrder, FoldLeft, MapThenFoldSet, KeepAllowed
<1> HIDE DEF F, N
<1>5. PICK f : IsSetFold(f, Seq(allowed), <<>>, F, N)
  BY <1>1, <1>2, SetFoldExists
<1>6. f = E(f)
  <2>1. ASSUME NEW s \in SUBSET (1..N) PROVE f[s] = E(f)[s]
    <3>1. CASE s = {}
      BY <1>1, <1>5, <3>1 DEF IsSetFold
    <3>2. CASE s # {}
      <4>1. Max(s) \in 1..N /\ s \ {Max(s)} \in SUBSET (1..N)
        <5>1. s \in SUBSET (0..N)
          OBVIOUS
        <5>2. Max(s) \in s
          BY <1>1, <3>2, <5>1, MaxOf
        <5> QED
          BY <5>2
      <4>2. f[s] = F[<<f[s \ {Max(s)}], Max(s)>>] /\ f[s \ {Max(s)}] \in Seq(allowed)
        BY <1>5, <3>2, <4>1 DEF IsSetFold
      <4>3. f[s] = KeepAllowed(f[s \ {Max(s)}], names[Max(s)], allowed)
        BY <1>3, <4>1, <4>2
      <4> QED
        BY <1>1, <3>2, <4>3
    <3> QED
      BY <3>1, <3>2
  <2>2. f = [s \in SUBSET (1..N) |-> f[s]]
    BY <1>5 DEF IsSetFold
  <2>3. E(f) = [s \in SUBSET (1..N) |-> E(f)[s]]
    BY <1>1
  <2> HIDE DEF E
  <2> QED
    BY <2>1, <2>2, <2>3
<1>7. iter = E(iter)
  <2> HIDE DEF E
  <2> QED
    BY <1>6
<1> HIDE DEF iter
<1>8. \A s \in SUBSET (1..N) :
        iter[s] = IF s = {} THEN <<>>
                  ELSE KeepAllowed(iter[s \ {Max(s)}], names[Max(s)], allowed)
  BY <1>1, <1>7
<1>9. ASSUME NEW n \in 1..N PROVE h[n] = KeepAllowed(h[n - 1], names[n], allowed)
  <2>1. Max(1..n) = n
    <3>1. n \in Nat /\ 1..n \in SUBSET (0..n) /\ n \in 1..n /\ \A y \in 1..n : y <= n
      BY <1>1
    <3> QED
      BY <3>1, MaxIs
  <2>2. (1..n) \ {n} = 1..(n - 1) /\ 1..n # {} /\ 1..n \in SUBSET (1..N) /\ n - 1 \in 0..N /\ n \in 0..N
    BY <1>1
  <2>3. iter[1..n] = KeepAllowed(iter[(1..n) \ {n}], names[n], allowed)
    BY <1>8, <2>1, <2>2
  <2> QED
    BY <2>2, <2>3
<1>10. h[0] = <<>> /\ ValidatedOrder(names, allowed) = h[N]
  <2>1. 1..0 = {} /\ {} \in SUBSET (1..N) /\ 0 \in 0..N /\ N \in 0..N
    BY <1>1
  <2> QED
    BY <1>1, <1>4, <1>8, <2>1
<1> HIDE DEF h
<1> QED
  BY <1>9, <1>10 DEF N

(* What is kept are allowed names.                                          *)
LEMMA OrderTyped ==
  ASSUME NEW T, NEW names \in Seq(T), NEW allowed
  PROVE  ValidatedOrder(names, allowed) \in Seq(allowed)
<1>1. PICK h : /\ h[0] = <<>>
               /\ \A n \in 1..Len(names) : h[n] = KeepAllowed(h[n - 1], names[n], allowed)
               /\ ValidatedOrder(names, allowed) = h[Len(names)]
  BY OrderSteps
<1> DEFINE S == {n \in Nat : n <= Len(names) => h[n] \in Seq(allowed)}
<1>2. 0 \in S
  <2>1. <<>> \in Seq(allowed)
    OBVIOUS
  <2>2. h[0] \in Seq(allowed)
    BY <1>1, <2>1
  <2> QED
    BY <2>2
<1>3. ASSUME NEW n \in Nat, n \in S PROVE n + 1 \in S
  <2>1. SUFFICES ASSUME n + 1 <= Len(names) PROVE h[n + 1] \in Seq(allowed)
    OBVIOUS
  <2>2. n + 1 \in 1..Len(names) /\ (n + 1) - 1 = n /\ h[n] \in Seq(allowed)
    BY <1>3, <2>1
  <2>3. h[n + 1] = KeepAllowed(h[n], names[n + 1], allowed)
    BY <1>1, <2>2
  <2> QED
    BY <2>2, <2>3, KeepTyped
<1> HIDE DEF S
<1>4. \A n \in Nat : n \in S
  BY <1>2, <1>3, SetInduction
<1>5. Len(names) \in S /\ Len(names) \in Nat
  BY <1>4
<1> QED
  BY <1>1, <1>5 DEF S

(* The first ones of a sequence.                                            *)
LEMMA FirstOfFacts ==
  ASSUME NEW T, NEW seq \in Seq(T), NEW n \in Nat
  PROVE  /\ FirstOf(seq, n) \in Seq(T)
         /\ Len(FirstOf(seq, n)) = (IF n < Len(seq) THEN n ELSE Len(seq))
         /\ \A i \in 1..Len(FirstOf(seq, n)) : FirstOf(seq, n)[i] = seq[i]
         /\ n > 0 /\ seq # <<>> => FirstOf(seq, n) # <<>>
         /\ Len(seq) <= n => FirstOf(seq, n) = seq
<1> DEFINE m == IF n < Len(seq) THEN n ELSE Len(seq)
<1>1. m \in Nat /\ m <= Len(seq) /\ (n > 0 /\ Len(seq) > 0 => m > 0)
      /\ (Len(seq) <= n => m = Len(seq))
  OBVIOUS
<1>2. FirstOf(seq, n) = SubSeq(seq, 1, m)
  BY DEF FirstOf
<1> HIDE DEF m
<1>3. /\ SubSeq(seq, 1, m) \in Seq(T) /\ Len(SubSeq(seq, 1, m)) = m
      /\ \A i \in 1..m : SubSeq(seq, 1, m)[i] = seq[i]
  BY <1>1
<1>4. n > 0 /\ seq # <<>> => FirstOf(seq, n) # <<>>
  <2>1. seq # <<>> => Len(seq) > 0
    OBVIOUS
  <2>2. <<>> \in Seq(T) /\ Len(<<>>) = 0
    OBVIOUS
  <2> QED
    BY <1>1, <1>2, <1>3, <2>1, <2>2
<1>5. ASSUME Len(seq) <= n PROVE FirstOf(seq, n) = seq
  <2>1. m = Len(seq)
    BY <1>1, <1>5
  <2>2. /\ SubSeq(seq, 1, m) = [i \in 1..m |-> SubSeq(seq, 1, m)[i]]
        /\ seq = [i \in 1..m |-> seq[i]]
    BY <1>3, <2>1
  <2> QED
    BY <1>2, <1>3, <2>2
<1> QED
  BY <1>2, <1>3, <1>4, <1>5 DEF m

(* An answer names candidates in two sequences.                             *)
Answered(a) ==
  a # NoAnswer => a.ordered \in Seq(ToSet(a.ordered)) /\ a.picked \in Seq(ToSet(a.picked))

(* Whatever was answered, a selection has only offered names, at most limit *)
(* of them and at least one when there is one.                              *)
LEMMA ConstrainedFacts ==
  ASSUME NEW T, NEW names \in Seq(T), NEW limit \in Nat \ {0},
         NEW answer, Answered(answer)
  PROVE  /\ Constrained(names, limit, answer) \in Seq(ToSet(names))
         /\ Len(Constrained(names, limit, answer)) <= limit
         /\ names # <<>> => Constrained(names, limit, answer) # <<>>
         /\ answer = NoAnswer => Constrained(names, limit, answer) = FirstOf(names, limit)
<1> DEFINE allowed == ToSet(names)
           ordered == ValidatedOrder(
                     IF answer.ordered = <<>> THEN answer.picked ELSE answer.ordered, allowed)
           picked  == ValidatedOrder(
                     IF answer.picked = <<>> THEN ordered ELSE answer.picked, allowed)
<1>1. names \in Seq(allowed)
  BY DEF ToSet
<1>2. /\ FirstOf(names, limit) \in Seq(allowed)
      /\ Len(FirstOf(names, limit)) <= limit
      /\ names # <<>> => FirstOf(names, limit) # <<>>
  <2>1. limit \in Nat /\ limit > 0 /\ Len(names) \in Nat
    OBVIOUS
  <2> HIDE DEF allowed
  <2> QED
    BY <1>1, <2>1, FirstOfFacts
<1>3. Constrained(names, limit, answer)
        = IF answer = NoAnswer \/ FirstOf(picked, limit) = <<>>
          THEN FirstOf(names, limit) ELSE FirstOf(picked, limit)
  BY DEF Constrained
<1> HIDE DEF allowed, ordered, picked
<1>4. CASE answer = NoAnswer
  BY <1>2, <1>3, <1>4 DEF allowed
<1>5. CASE answer # NoAnswer
  <2>1. ordered \in Seq(allowed)
    <3>1. CASE answer.ordered = <<>>
      <4>1. ordered = ValidatedOrder(answer.picked, allowed)
        BY <3>1 DEF ordered
      <4> QED
        BY <1>5, <4>1, OrderTyped DEF Answered
    <3>2. CASE answer.ordered # <<>>
      <4>1. ordered = ValidatedOrder(answer.ordered, allowed)
        BY <3>2 DEF ordered
      <4> QED
        BY <1>5, <4>1, OrderTyped DEF Answered
    <3> QED
      BY <3>1, <3>2
  <2>2. picked \in Seq(allowed)
    <3>1. CASE answer.picked = <<>>
      <4>1. picked = ValidatedOrder(ordered, allowed)
        BY <3>1 DEF picked
      <4> QED
        BY <2>1, <4>1, OrderTyped
    <3>2. CASE answer.picked # <<>>
      <4>1. picked = ValidatedOrder(answer.picked, allowed)
        BY <3>2 DEF picked
      <4> QED
        BY <1>5, <4>1, OrderTyped DEF Answered
    <3> QED
      BY <3>1, <3>2
  <2>3. FirstOf(picked, limit) \in Seq(allowed) /\ Len(FirstOf(picked, limit)) <= limit
    <3>1. limit \in Nat /\ Len(picked) \in Nat
      BY <2>2
    <3> QED
      BY <2>2, <3>1, FirstOfFacts
  <2> QED
    BY <1>2, <1>3, <1>5, <2>3 DEF allowed
<1> QED
  BY <1>4, <1>5

-----------------------------------------------------------------------------
(* The greedy cover. *)

(* Candidates in order, which cover part of what is required.               *)
Offers(ranked, required) ==
  /\ ranked \in Seq({ranked[i] : i \in DOMAIN ranked})
  /\ \A i \in 1..Len(ranked) : ranked[i].covered \subseteq required

(* What the greedy cover may have chosen so far.                            *)
NamesIn(ranked) == {ranked[i].name : i \in 1..Len(ranked)}
ChoicesOf(ranked, required) ==
  [names : Seq(NamesIn(ranked)), covered : SUBSET required, left : SUBSET required]

(* Choosing one candidate or not makes a choice of a choice.                *)
LEMMA ChoiceTyped ==
  ASSUME NEW ranked, NEW required, Offers(ranked, required),
         NEW c \in ChoicesOf(ranked, required), NEW i \in 1..Len(ranked)
  PROVE  AddIfUseful(c, ranked[i]) \in ChoicesOf(ranked, required)
<1>1. ranked[i].name \in NamesIn(ranked) /\ ranked[i].covered \subseteq required
  BY DEF NamesIn, Offers
<1>2. Append(c.names, ranked[i].name) \in Seq(NamesIn(ranked))
  BY <1>1 DEF ChoicesOf
<1> QED
  BY <1>1, <1>2 DEF ChoicesOf, AddIfUseful

(* The greedy cover goes through the candidates one after the other.        *)
LEMMA GreedySteps ==
  ASSUME NEW ranked, NEW required, Offers(ranked, required)
  PROVE  \E h : /\ h[0] = [names |-> <<>>, covered |-> {}, left |-> required]
                /\ \A n \in 1..Len(ranked) : h[n] = AddIfUseful(h[n - 1], ranked[n])
                /\ GreedyCover(ranked, required) = h[Len(ranked)]
<1> DEFINE N == Len(ranked)
           R == ChoicesOf(ranked, required)
           base == [names |-> <<>>, covered |-> {}, left |-> required]
           F == [p \in R \X (1..N) |-> AddIfUseful(p[1], ranked[p[2]])]
           E(g) == [s \in SUBSET DOMAIN ranked |->
                      IF s = {} THEN base
                      ELSE AddIfUseful(g[s \ {Max(s)}], ranked[Max(s)])]
           iter == CHOOSE g : g = E(g)
           h == [k \in 0..N |-> iter[1..k]]
<1>1. N \in Nat /\ base \in R /\ DOMAIN ranked = 1..N
  <2>1. N \in Nat /\ DOMAIN ranked = 1..N
    BY DEF Offers
  <2>2. <<>> \in Seq(NamesIn(ranked))
    OBVIOUS
  <2> QED
    BY <2>1, <2>2 DEF ChoicesOf
<1>2. F \in [R \X (1..N) -> R]
  <2>1. ASSUME NEW p \in R \X (1..N) PROVE AddIfUseful(p[1], ranked[p[2]]) \in R
    BY ChoiceTyped
  <2> QED
    BY <2>1
<1>3. \A t \in R, n \in 1..N : F[<<t, n>>] = AddIfUseful(t, ranked[n])
  OBVIOUS
<1>4. GreedyCover(ranked, required) = iter[DOMAIN ranked]
  BY DEF GreedyCover, FoldLeft, MapThenFoldSet
<1> HIDE DEF F, N, R, base
<1>5. PICK f : IsSetFold(f, R, base, F, N)
  BY <1>1, <1>2, SetFoldExists
<1>6. f = E(f)
  <2>1. ASSUME NEW s \in SUBSET (1..N) PROVE f[s] = E(f)[s]
    <3>1. CASE s = {}
      BY <1>1, <1>5, <3>1 DEF IsSetFold
    <3>2. CASE s # {}
      <4>1. Max(s) \in 1..N /\ s \ {Max(s)} \in SUBSET (1..N)
        <5>1. s \in SUBSET (0..N)
          OBVIOUS
        <5>2. Max(s) \in s
          BY <1>1, <3>2, <5>1, MaxOf
        <5> QED
          BY <5>2
      <4>2. f[s] = F[<<f[s \ {Max(s)}], Max(s)>>] /\ f[s \ {Max(s)}] \in R
        BY <1>5, <3>2, <4>1 DEF IsSetFold
      <4>3. f[s] = AddIfUseful(f[s \ {Max(s)}], ranked[Max(s)])
        BY <1>3, <4>1, <4>2
      <4> QED
        BY <1>1, <3>2, <4>3
    <3> QED
      BY <3>1, <3>2
  <2>2. f = [s \in SUBSET (1..N) |-> f[s]]
    BY <1>5 DEF IsSetFold
  <2>3. E(f) = [s \in SUBSET (1..N) |-> E(f)[s]]
    BY <1>1
  <2> HIDE DEF E
  <2> QED
    BY <2>1, <2>2, <2>3
<1>7. iter = E(iter)
  <2> HIDE DEF E
  <2> QED
    BY <1>6
<1> HIDE DEF iter
<1>8. \A s \in SUBSET (1..N) :
        iter[s] = IF s = {} THEN base
                  ELSE AddIfUseful(iter[s \ {Max(s)}], ranked[Max(s)])
  BY <1>1, <1>7
<1>9. ASSUME NEW n \in 1..N PROVE h[n] = AddIfUseful(h[n - 1], ranked[n])
  <2>1. Max(1..n) = n
    <3>1. n \in Nat /\ 1..n \in SUBSET (0..n) /\ n \in 1..n /\ \A y \in 1..n : y <= n
      BY <1>1
    <3> QED
      BY <3>1, MaxIs
  <2>2. (1..n) \ {n} = 1..(n - 1) /\ 1..n # {} /\ 1..n \in SUBSET (1..N)
    BY <1>1
  <2>4. n - 1 \in 0..N /\ n \in 0..N
    BY <1>1
  <2>3. iter[1..n] = AddIfUseful(iter[(1..n) \ {n}], ranked[n])
    BY <1>8, <2>1, <2>2
  <2> QED
    BY <2>2, <2>3, <2>4
<1>10. h[0] = base /\ GreedyCover(ranked, required) = h[N]
  <2>1. 1..0 = {} /\ {} \in SUBSET (1..N) /\ 0 \in 0..N /\ N \in 0..N
    BY <1>1
  <2> QED
    BY <1>1, <1>4, <1>8, <2>1
<1> HIDE DEF h
<1> QED
  BY <1>9, <1>10 DEF N, base

(* The terms that some of the candidates cover.                             *)
CoverOf(ranked, S) == UNION {ranked[i].covered : i \in S}

(* Which candidates are in after the first k: the best one, each of the     *)
(* others for something that no better one covers, and, if there is room,   *)
(* enough to cover what any of the first k covers.                          *)
GreedyFor(c, P, k, ranked, required) ==
  /\ P \in SUBSET (1..k) /\ IsFiniteSet(P) /\ Cardinality(P) <= MaxTables
  /\ c.names \in Seq({ranked[i].name : i \in P}) /\ Len(c.names) = Cardinality(P)
  /\ \A i \in P : \E j \in 1..Len(c.names) : c.names[j] = ranked[i].name
  /\ c.covered = CoverOf(ranked, P) /\ c.left = required \ c.covered
  /\ k > 0 => 1 \in P
  /\ \A i \in P \ {1} :
       ~(ranked[i].covered \subseteq CoverOf(ranked, {j \in P : j < i}))
  /\ Cardinality(P) < MaxTables => \A i \in 1..k : ranked[i].covered \subseteq c.covered

(* One more candidate keeps it so.                                          *)
LEMMA GreedyStep ==
  ASSUME NEW ranked, NEW required, Offers(ranked, required),
         NEW k \in Nat, k + 1 <= Len(ranked), NEW c, NEW P, GreedyFor(c, P, k, ranked, required)
  PROVE  \E Q : GreedyFor(AddIfUseful(c, ranked[k + 1]), Q, k + 1, ranked, required)
<1> DEFINE f == ranked[k + 1]
           d == AddIfUseful(c, f)
<1>1. f.covered \subseteq required /\ MaxTables \in Nat \ {0}
      /\ Cardinality(P) \in Nat /\ P \in SUBSET (1..(k + 1)) /\ k + 1 \notin P
  <2>1. k + 1 \in 1..Len(ranked)
    BY DEF Offers
  <2>2. f.covered \subseteq required
    BY <2>1 DEF Offers
  <2>3. P \in SUBSET (1..k) /\ IsFiniteSet(P)
    BY DEF GreedyFor
  <2>4. Cardinality(P) \in Nat
    BY <2>3, FS_CardinalityType
  <2>5. P \in SUBSET (1..(k + 1)) /\ k + 1 \notin P
    BY <2>3
  <2> QED
    BY <2>2, <2>4, <2>5, SelectionLimits
<1>2. c.names = <<>> <=> P = {}
  <2>1. Cardinality(P) = 0 <=> P = {}
    BY FS_EmptySet DEF GreedyFor
  <2>2. c.names = <<>> <=> Len(c.names) = 0
    BY DEF GreedyFor
  <2> QED
    BY <2>1, <2>2 DEF GreedyFor
<1>3. k > 0 => c.names # <<>>
  BY <1>2 DEF GreedyFor
<1>4. CASE /\ c.names # <<>>
           /\ Len(c.names) >= MaxTables \/ c.left = {} \/ f.covered \subseteq c.covered
  <2>1. d = c
    BY <1>4 DEF AddIfUseful
  <2>2. k > 0 /\ 1 \in P
    <3>1. k # 0
      BY <1>2, <1>4 DEF GreedyFor
    <3> QED
      BY <3>1 DEF GreedyFor
  <2>3. Cardinality(P) < MaxTables => f.covered \subseteq c.covered
    BY <1>1, <1>4 DEF GreedyFor
  <2>4. Cardinality(P) < MaxTables =>
          \A i \in 1..(k + 1) : ranked[i].covered \subseteq c.covered
    <3>1. \A i \in 1..(k + 1) : i \in 1..k \/ i = k + 1
      OBVIOUS
    <3> QED
      BY <2>3, <3>1 DEF GreedyFor
  <2> HIDE DEF d, f
  <2>5. GreedyFor(c, P, k + 1, ranked, required)
    BY <1>1, <2>2, <2>4 DEF GreedyFor
  <2> QED
    BY <2>1, <2>5 DEF d, f
<1>5. CASE ~ /\ c.names # <<>>
             /\ Len(c.names) >= MaxTables \/ c.left = {} \/ f.covered \subseteq c.covered
  <2> DEFINE Q == P \cup {k + 1}
  <2>1. d = [names |-> Append(c.names, f.name), covered |-> c.covered \cup f.covered,
             left |-> c.left \ f.covered]
    BY <1>5 DEF AddIfUseful
  <2> HIDE DEF d, f
  <2>2. /\ IsFiniteSet(Q) /\ Cardinality(Q) = Cardinality(P) + 1 /\ Q \in SUBSET (1..(k + 1))
    <3>1. IsFiniteSet(P)
      BY DEF GreedyFor
    <3> QED
      BY <1>1, <3>1, FS_AddElement
  <2>3. Cardinality(P) < MaxTables
    <3>1. CASE c.names = <<>>
      <4>1. Cardinality(P) = 0
        BY <1>2, <3>1, FS_EmptySet
      <4> QED
        BY <1>1, <4>1
    <3>2. CASE c.names # <<>>
      BY <1>1, <1>5, <3>2 DEF GreedyFor
    <3> QED
      BY <3>1, <3>2
  <2>4. Cardinality(Q) <= MaxTables
    BY <1>1, <2>2, <2>3
  <2> DEFINE A == {ranked[i].name : i \in P}
             B == {ranked[i].name : i \in Q}
  <2>5. f.name \in B /\ A \subseteq B /\ c.names \in Seq(A)
    BY DEF GreedyFor, f
  <2>6. /\ Append(c.names, f.name) \in Seq(B)
        /\ Len(Append(c.names, f.name)) = Len(c.names) + 1
        /\ \A j \in 1..Len(c.names) : Append(c.names, f.name)[j] = c.names[j]
        /\ Append(c.names, f.name)[Len(c.names) + 1] = f.name
        /\ Len(c.names) \in Nat
    <3> HIDE DEF A, B
    <3>1. c.names \in Seq(B)
      BY <2>5
    <3> QED
      BY <2>5, <3>1
  <2>7. d.names \in Seq(B) /\ Len(d.names) = Cardinality(Q)
    <3>1. Len(c.names) = Cardinality(P)
      BY DEF GreedyFor
    <3> QED
      BY <2>1, <2>2, <2>6, <3>1
  <2>8. ASSUME NEW i \in Q PROVE \E j \in 1..Len(d.names) : d.names[j] = ranked[i].name
    <3>1. CASE i = k + 1
      <4>1. Len(c.names) + 1 \in 1..Len(d.names)
        BY <2>1, <2>6
      <4> QED
        BY <2>1, <2>6, <3>1, <4>1 DEF f
    <3>2. CASE i # k + 1
      <4>1. i \in P
        BY <3>2
      <4>2. PICK j \in 1..Len(c.names) : c.names[j] = ranked[i].name
        BY <4>1 DEF GreedyFor
      <4>3. j \in 1..Len(d.names) /\ d.names[j] = c.names[j]
        BY <2>1, <2>6
      <4> QED
        BY <4>2, <4>3
    <3> QED
      BY <3>1, <3>2
  <2>9. d.covered = CoverOf(ranked, Q) /\ d.left = required \ d.covered
    <3>1. c.covered = CoverOf(ranked, P) /\ c.left = required \ c.covered
      BY DEF GreedyFor
    <3>2. CoverOf(ranked, Q) = CoverOf(ranked, P) \cup f.covered
      BY DEF CoverOf, f
    <3> QED
      BY <2>1, <3>1, <3>2
  <2>10. 1 \in Q
    BY DEF GreedyFor
  <2>11. ASSUME NEW i \in Q \ {1}
         PROVE  ~(ranked[i].covered \subseteq CoverOf(ranked, {j \in Q : j < i}))
    <3>1. CASE i = k + 1
      <4>1. {j \in Q : j < i} = P
        <5>1. \A j \in P : j < k + 1
          BY DEF GreedyFor
        <5>2. ~(k + 1 < k + 1)
          OBVIOUS
        <5>3. \A j \in Q : j < i <=> j \in P
          BY <1>1, <3>1, <5>1, <5>2
        <5> QED
          BY <5>3
      <4>2. k # 0
        BY <3>1
      <4>3. ~(f.covered \subseteq c.covered)
        BY <1>3, <1>5, <4>2
      <4>4. c.covered = CoverOf(ranked, P)
        BY DEF GreedyFor
      <4> QED
        BY <3>1, <4>1, <4>3, <4>4 DEF f
    <3>2. CASE i # k + 1
      <4>1. i \in P \ {1} /\ i <= k /\ i \in Int
        BY <3>2 DEF GreedyFor
      <4>2. {j \in Q : j < i} = {j \in P : j < i}
        BY <4>1
      <4>3. ~(ranked[i].covered \subseteq CoverOf(ranked, {j \in P : j < i}))
        BY <4>1 DEF GreedyFor
      <4> QED
        BY <4>2, <4>3
    <3> QED
      BY <3>1, <3>2
  <2>12. \A i \in 1..(k + 1) : ranked[i].covered \subseteq d.covered
    <3>1. \A i \in 1..k : ranked[i].covered \subseteq c.covered
      BY <2>3 DEF GreedyFor
    <3>2. \A i \in 1..(k + 1) : i \in 1..k \/ i = k + 1
      OBVIOUS
    <3> QED
      BY <2>1, <3>1, <3>2 DEF f
  <2> HIDE DEF Q
  <2>13. GreedyFor(d, Q, k + 1, ranked, required)
    BY <2>2, <2>4, <2>7, <2>8, <2>9, <2>10, <2>11, <2>12 DEF GreedyFor
  <2> QED
    BY <2>13 DEF d, f
<1> QED
  BY <1>4, <1>5

(* What the greedy cover has chosen in the end.                             *)
LEMMA GreedyFacts ==
  ASSUME NEW ranked, NEW required, Offers(ranked, required)
  PROVE  \E P : GreedyFor(GreedyCover(ranked, required), P, Len(ranked), ranked, required)
<1>1. PICK h : /\ h[0] = [names |-> <<>>, covered |-> {}, left |-> required]
               /\ \A n \in 1..Len(ranked) : h[n] = AddIfUseful(h[n - 1], ranked[n])
               /\ GreedyCover(ranked, required) = h[Len(ranked)]
  BY GreedySteps
<1> DEFINE S == {k \in Nat : k <= Len(ranked) => \E P : GreedyFor(h[k], P, k, ranked, required)}
<1>2. 0 \in S
  <2>1. /\ IsFiniteSet({}) /\ Cardinality({}) = 0 /\ 0 <= MaxTables
        /\ <<>> \in Seq({ranked[i].name : i \in {}}) /\ Len(<<>>) = 0
        /\ CoverOf(ranked, {}) = {}
    BY FS_EmptySet, SelectionLimits DEF CoverOf
  <2>2. GreedyFor(h[0], {}, 0, ranked, required)
    BY <1>1, <2>1 DEF GreedyFor
  <2> QED
    BY <2>2
<1>3. ASSUME NEW k \in Nat, k \in S PROVE k + 1 \in S
  <2>1. SUFFICES ASSUME k + 1 <= Len(ranked)
                 PROVE  \E P : GreedyFor(h[k + 1], P, k + 1, ranked, required)
    OBVIOUS
  <2>2. Len(ranked) \in Nat
    BY DEF Offers
  <2>3. k <= Len(ranked) /\ k + 1 \in 1..Len(ranked) /\ (k + 1) - 1 = k
    BY <2>1, <2>2
  <2>4. PICK P : GreedyFor(h[k], P, k, ranked, required)
    BY <1>3, <2>3
  <2>5. h[k + 1] = AddIfUseful(h[k], ranked[k + 1])
    BY <1>1, <2>3
  <2>6. \E Q : GreedyFor(AddIfUseful(h[k], ranked[k + 1]), Q, k + 1, ranked, required)
    BY <2>1, <2>4, GreedyStep
  <2> QED
    BY <2>5, <2>6
<1> HIDE DEF S
<1>4. \A k \in Nat : k \in S
  BY <1>2, <1>3, SetInduction
<1>5. Len(ranked) \in Nat
  BY DEF Offers
<1> QED
  BY <1>1, <1>4, <1>5 DEF S

(* The values of a function on a finite set.                                *)
LEMMA ImageFinite ==
  ASSUME NEW S, IsFiniteSet(S), NEW g, g = [x \in S |-> g[x]]
  PROVE  LET T == {g[x] : x \in S}
         IN  IsFiniteSet(T) /\ Cardinality(T) <= Cardinality(S)
<1> DEFINE T == {g[x] : x \in S}
<1>1. g \in Surjection(S, T)
  BY DEF Surjection
<1> HIDE DEF T
<1>2. IsFiniteSet(T) /\ Cardinality(T) <= Cardinality(S)
  BY <1>1, FS_Surjection
<1> QED
  BY <1>2 DEF T

(* Finitely many columns have finitely many names.                          *)
LEMMA NamesFinite ==
  ASSUME NEW columns, IsFiniteSet(columns) PROVE IsFiniteSet(NamesOf(columns))
<1> DEFINE g == [c \in columns |-> NameOf[c]]
<1>1. g = [c \in columns |-> g[c]]
  OBVIOUS
<1>2. NamesOf(columns) = {g[c] : c \in columns}
  BY DEF NamesOf
<1> HIDE DEF g
<1> QED
  BY <1>1, <1>2, ImageFinite

(* What was recalled has names, finitely many, each with a similarity.      *)
Recalled ==
  /\ found.columns \subseteq Columns /\ found.values \subseteq Columns
  /\ found.metrics \subseteq Metrics /\ IsFiniteSet(found.keywords)
  /\ \A x \in Tables \cup Metrics : found.vectors[x] \in 0..100

(* What was recalled, and is merged, is finite.                             *)
LEMMA RecalledFinite ==
  ASSUME Recalled
  PROVE  /\ IsFiniteSet(Required(found)) /\ IsFiniteSet(found.metrics)
         /\ IsFiniteSet(MergedTables(found))
<1>1. IsFiniteSet(found.columns) /\ IsFiniteSet(found.values) /\ IsFiniteSet(found.metrics)
  BY FiniteNames, FS_Subset DEF Recalled
<1>2. IsFiniteSet(NamesOf(found.columns)) /\ IsFiniteSet(NamesOf(found.values))
  BY <1>1, NamesFinite
<1>3. IsFiniteSet(Required(found))
  <2>1. IsFiniteSet(found.keywords \cup NamesOf(found.columns))
    BY <1>2, FS_Union DEF Recalled
  <2>2. IsFiniteSet((found.keywords \cup NamesOf(found.columns)) \cup NamesOf(found.values))
    BY <1>2, <2>1, FS_Union
  <2>3. IsFiniteSet(((found.keywords \cup NamesOf(found.columns))
                       \cup NamesOf(found.values)) \cup found.metrics)
    BY <1>1, <2>2, FS_Union
  <2> QED
    BY <2>3 DEF Required
<1>4. IsFiniteSet(MergedTables(found))
  <2> DEFINE columns == MergedColumns(found)
             names == KnownTables \cap {TableOf[c] : c \in columns}
             g == [t \in names |-> [name |-> t,
                     columns |-> {c \in columns \cup (KeyColumns \cap KnownColumns) :
                                    TableOf[c] = t}]]
  <2>1. IsFiniteSet(names)
    BY KnownNames, FiniteNames, FS_Subset
  <2>2. MergedTables(found) = {g[t] : t \in names} /\ g = [t \in names |-> g[t]]
    BY DEF MergedTables
  <2> HIDE DEF names, g, columns
  <2> QED
    BY <2>1, <2>2, ImageFinite
<1> QED
  BY <1>1, <1>3, <1>4

(* A share is a number.                                                     *)
LEMMA HundredthsTyped ==
  ASSUME NEW part \in Nat, NEW whole \in Nat
  PROVE  Hundredths(part, whole) \in Int
<1>1. CASE whole = 0
  BY <1>1 DEF Hundredths
<1>2. CASE whole # 0
  <2>1. 100 * part \in Int /\ whole > 0
    BY <1>2
  <2>2. (100 * part) \div whole \in Int
    BY <2>1
  <2> QED
    BY <1>2, <2>2 DEF Hundredths
<1> QED
  BY <1>1, <1>2

(* The features of the merged tables can be compared.                       *)
LEMMA TablesComparable ==
  ASSUME Recalled
  PROVE  LET F == {TableFeatures(t, found) : t \in MergedTables(found)}
         IN  Comparable(F, Tables) /\ IsFiniteSet(F)
<1> DEFINE M == MergedTables(found)
           F == {TableFeatures(t, found) : t \in M}
           g == [t \in M |-> TableFeatures(t, found)]
<1>1. /\ \A t \in M : t.name \in Tables /\ t.columns \subseteq Columns
      /\ \A t, u \in M : t.name = u.name => t = u
  <2>1. MergedColumns(found) \subseteq Columns
    BY KnownNames DEF Recalled, MergedColumns
  <2> QED
    BY <2>1, KnownNames DEF MergedTables
<1>2. IsFiniteSet(F)
  <2>1. IsFiniteSet(M) /\ F = {g[t] : t \in M} /\ g = [t \in M |-> g[t]]
    BY RecalledFinite
  <2> HIDE DEF M, F, g
  <2> QED
    BY <2>1, ImageFinite
<1>3. ASSUME NEW t \in M
      PROVE  LET f == TableFeatures(t, found)
             IN  /\ f.total \in Int /\ f.coverage \in Int /\ f.vector \in Int
                 /\ f.name = t.name
  <2> HIDE DEF M
  <2> DEFINE coverage == Hundredths(Cardinality(CoveredBy(t, found)),
                                    Cardinality(Required(found)))
             lexical == TableLexical(t, found.keywords)
             alias    == \E c \in t.columns : Aliases[c] \cap found.keywords # {}
             fact     == found.keywords \cap FactTerms # {}
             byValue  == 10 * Points(t.name \in {TableOf[c] : c \in found.values}, 100)
             byMetric == 10 * Points(SupportsMetric(t, found), 100)
             byRole   == 10 * (IF fact /\ t.name \in Dimensions THEN 70 ELSE 100)
             raw == 15 * lexical + 10 * Points(alias, 100) + 20 * found.vectors[t.name]
                    + 25 * coverage + byValue + byMetric + byRole
  <2>1. coverage \in Int
    <3>1. CoveredBy(t, found) \in SUBSET Required(found)
      BY DEF CoveredBy
    <3>2. IsFiniteSet(Required(found)) /\ IsFiniteSet(CoveredBy(t, found))
      BY <3>1, RecalledFinite, FS_Subset
    <3> QED
      BY <3>2, FS_CardinalityType, HundredthsTyped
  <2>2. found.vectors[t.name] \in Int
    BY <1>1 DEF Recalled
  <2>3. lexical \in Int
    <3> DEFINE S == {Points(NameTerms[t.name] \cap found.keywords # {}, 100),
                     Points(TextTerms[t.name] \cap found.keywords # {}, 70)}
                 \cup {Points(NameTerms[c] \cap found.keywords # {}, 80) : c \in t.columns}
                 \cup {Points(TextTerms[c] \cap found.keywords # {}, 50) : c \in t.columns}
    <3>1. S \in SUBSET (0..100) /\ S # {}
      BY DEF Points
    <3>2. lexical = Max(S)
      BY DEF TableLexical
    <3> HIDE DEF S, lexical
    <3>3. Max(S) \in S
      BY <3>1, MaxOf
    <3>4. lexical \in S
      BY <3>2, <3>3
    <3> QED
      BY <3>1, <3>4
  <2>4. Points(alias, 100) \in Int /\ byValue \in Int /\ byMetric \in Int /\ byRole \in Int
    BY DEF Points
  <2>5. TableFeatures(t, found) =
          [name |-> t.name, total |-> Clamped(raw, 0, 10000), coverage |-> coverage,
           vector |-> found.vectors[t.name], covered |-> CoveredBy(t, found)]
    BY DEF TableFeatures
  <2> HIDE DEF coverage, lexical, alias, byValue, byMetric, byRole
  <2>6. raw \in Int
    BY <2>1, <2>2, <2>3, <2>4
  <2> HIDE DEF raw
  <2>7. Clamped(raw, 0, 10000) \in Int
    BY <2>6 DEF Clamped
  <2> QED
    BY <2>1, <2>2, <2>5, <2>7
<1>4. Comparable(F, Tables)
  <2> HIDE DEF M
  <2> QED
    BY <1>1, <1>3 DEF Comparable
<1> QED
  BY <1>2, <1>4

(* and so can those of the metrics that were found.                         *)
LEMMA MetricsComparable ==
  ASSUME Recalled, NEW offers
  PROVE  LET F == {MetricFeatures(m, found, offers) : m \in found.metrics}
         IN  /\ Comparable(F, Metrics) /\ IsFiniteSet(F)
             /\ \A m \in found.metrics : MetricFeatures(m, found, offers).name = m
<1> DEFINE M == found.metrics
           F == {MetricFeatures(m, found, offers) : m \in M}
           g == [m \in M |-> MetricFeatures(m, found, offers)]
<1>1. IsFiniteSet(F)
  <2>1. IsFiniteSet(M) /\ F = {g[m] : m \in M} /\ g = [m \in M |-> g[m]]
    BY RecalledFinite
  <2> HIDE DEF M, F, g
  <2> QED
    BY <2>1, ImageFinite
<1>2. ASSUME NEW m \in M
      PROVE  LET f == MetricFeatures(m, found, offers)
             IN  /\ f.total \in Int /\ f.coverage \in Int /\ f.vector \in Int
                 /\ f.name = m /\ m \in Metrics
  <2> DEFINE terms    == found.keywords \cup found.metrics
             relevant == Relevant[m]
             matched  == NamesOf(found.columns) \cup NamesOf(found.values)
             offered  == UNION {NamesOf(t.columns) : t \in offers}
             share(S) == Hundredths(Cardinality(relevant \cap S), Cardinality(relevant))
             lexical  == IF NameTerms[m] \cap terms # {} THEN 100
                         ELSE Points(TextTerms[m] \cap terms # {}, 70)
             alias    == Points(Aliases[m] \cap terms # {}, 100)
             missing  == Points(relevant # {} /\ share(offered) = 0, 2500)
             raw == 15 * lexical + 10 * alias + 20 * found.vectors[m]
                    + 25 * share(matched) + 10 * share(offered) - missing
  <2>1. m \in Metrics
    BY DEF Recalled
  <2>2. ASSUME NEW S PROVE share(S) \in Int
    <3>1. IsFiniteSet(relevant) /\ relevant \cap S \in SUBSET relevant
      BY <2>1, FiniteNames
    <3> HIDE DEF relevant
    <3>2. IsFiniteSet(relevant \cap S)
      BY <3>1, FS_Subset
    <3>3. Cardinality(relevant) \in Nat /\ Cardinality(relevant \cap S) \in Nat
      BY <3>1, <3>2, FS_CardinalityType
    <3> QED
      BY <3>3, HundredthsTyped
  <2>3. found.vectors[m] \in Int
    BY <2>1 DEF Recalled
  <2>4. lexical \in Int /\ alias \in Int /\ missing \in Int
    BY DEF Points
  <2>5. share(matched) \in Int /\ share(offered) \in Int
    BY <2>2
  <2>6. MetricFeatures(m, found, offers) =
          [name |-> m, total |-> Clamped(raw, 0, 10000), coverage |-> share(matched),
           vector |-> found.vectors[m]]
    BY DEF MetricFeatures
  <2> HIDE DEF share, lexical, alias, missing, matched, offered
  <2>7. raw \in Int
    BY <2>3, <2>4, <2>5
  <2> HIDE DEF raw
  <2>8. Clamped(raw, 0, 10000) \in Int
    BY <2>7 DEF Clamped
  <2> QED
    BY <2>1, <2>3, <2>5, <2>6, <2>8
<1>3. Comparable(F, Metrics)
  <2> HIDE DEF M
  <2> QED
    BY <1>2 DEF Comparable
<1> QED
  BY <1>1, <1>2, <1>3

-----------------------------------------------------------------------------
(* The selection. *)

(* The first of the sorted features are different features, some if there   *)
(* are any.                                                                 *)
LEMMA RankedFacts ==
  ASSUME NEW F, IsFiniteSet(F), NEW names \in {Tables, Metrics}, Comparable(F, names),
         NEW n \in Nat \ {0}
  PROVE  /\ FirstOf(Sorted(F), n) \in Seq(F)
         /\ F # {} => FirstOf(Sorted(F), n) # <<>>
         /\ \A i, j \in 1..Len(FirstOf(Sorted(F), n)) :
              FirstOf(Sorted(F), n)[i].name = FirstOf(Sorted(F), n)[j].name => i = j
<1> DEFINE s == Sorted(F)
           m == Cardinality(F)
           first == FirstOf(s, n)
<1>1. /\ m \in Nat /\ s \in [1..m -> F]
      /\ \A x \in F : \E i \in 1..m : s[i] = x
      /\ \A i, j \in 1..m : s[i] = s[j] => i = j
  BY SortedFacts
<1> HIDE DEF s, m
<1>2. s \in Seq(F) /\ Len(s) = m
  <2>1. s \in Seq(F)
    BY <1>1
  <2> QED
    BY <1>1, <2>1
<1>3. n \in Nat /\ n > 0
  OBVIOUS
<1>4. /\ first \in Seq(F) /\ Len(first) <= m
      /\ \A i \in 1..Len(first) : first[i] = s[i]
      /\ s # <<>> => first # <<>>
  <2>1. /\ first \in Seq(F)
        /\ Len(first) = (IF n < Len(s) THEN n ELSE Len(s))
        /\ \A i \in 1..Len(first) : first[i] = s[i]
        /\ n > 0 /\ s # <<>> => first # <<>>
    BY <1>2, <1>3, FirstOfFacts
  <2> QED
    BY <1>1, <1>2, <1>3, <2>1
<1>5. F # {} => s # <<>>
  <2>1. ASSUME NEW x \in F PROVE s # <<>>
    <3>1. PICK i \in 1..m : s[i] = x
      BY <1>1
    <3>2. Len(s) # 0
      BY <1>1, <1>2
    <3> QED
      BY <3>2
  <2> QED
    BY <2>1
<1> HIDE DEF first
<1>6. ASSUME NEW i \in 1..Len(first), NEW j \in 1..Len(first),
             first[i].name = first[j].name
      PROVE  i = j
  <2>1. Len(first) \in Nat
    BY <1>4
  <2>2. i \in 1..m /\ j \in 1..m
    BY <1>1, <1>4, <2>1
  <2>3. s[i] \in F /\ s[j] \in F /\ s[i].name = s[j].name
    BY <1>1, <1>4, <1>6, <2>2
  <2>4. s[i] = s[j]
    BY <2>3 DEF Comparable
  <2> QED
    BY <1>1, <2>2, <2>4
<1> QED
  BY <1>4, <1>5, <1>6 DEF first, s

(* The candidates that the tables are chosen from.                          *)
LEMMA TopFacts ==
  ASSUME Recalled
  PROVE  /\ Offers(Top, Required(found))
         /\ \A i, j \in 1..Len(Top) : Top[i].name = Top[j].name => i = j
         /\ \A i \in 1..Len(Top) : \E t \in MergedTables(found) : t.name = Top[i].name
         /\ MergedTables(found) # {} => Top # <<>>
<1> DEFINE M == MergedTables(found)
           F == {TableFeatures(t, found) : t \in M}
<1>1. Comparable(F, Tables) /\ IsFiniteSet(F)
  BY TablesComparable
<1>2. Top = FirstOf(Sorted(F), TopTables) /\ TopTables \in Nat \ {0}
  BY SelectionLimits DEF Top, RankedTables
<1>3. \A f \in F : /\ f.covered \subseteq Required(found)
                   /\ \E t \in M : t.name = f.name
  <2> HIDE DEF M
  <2>1. ASSUME NEW t \in M
        PROVE  /\ TableFeatures(t, found).covered = CoveredBy(t, found)
               /\ TableFeatures(t, found).name = t.name
    BY DEF TableFeatures
  <2>2. \A t \in M : CoveredBy(t, found) \subseteq Required(found)
    BY DEF CoveredBy
  <2> QED
    BY <2>1, <2>2
<1>4. M # {} => F # {}
  OBVIOUS
<1> HIDE DEF F, M
<1>5. /\ Top \in Seq(F)
      /\ F # {} => Top # <<>>
      /\ \A i, j \in 1..Len(Top) : Top[i].name = Top[j].name => i = j
  <2>1. Tables \in {Tables, Metrics}
    OBVIOUS
  <2> QED
    BY <1>1, <1>2, <2>1, RankedFacts
<1>6. \A i \in 1..Len(Top) : Top[i] \in F
  BY <1>5
<1>7. Offers(Top, Required(found))
  <2>1. Top \in Seq({Top[i] : i \in DOMAIN Top})
    BY <1>5
  <2> QED
    BY <1>3, <1>6, <2>1 DEF Offers
<1> QED
  BY <1>3, <1>4, <1>5, <1>6, <1>7 DEF M

(* The tables of different names that a sequence names are no more than the *)
(* sequence is long.                                                        *)
LEMMA FewTables ==
  ASSUME NEW M, \A t, u \in M : t.name = u.name => t = u, NEW T, NEW names \in Seq(T)
  PROVE  LET kept == {t \in M : t.name \in ToSet(names)}
         IN  IsFiniteSet(kept) /\ Cardinality(kept) <= Len(names)
<1> DEFINE kept == {t \in M : t.name \in ToSet(names)}
           N == 1..Len(names)
           g == [i \in N |-> CHOOSE t \in M : t.name = names[i]]
           all == {g[i] : i \in N}
<1>1. Len(names) \in Nat /\ DOMAIN names = N
  OBVIOUS
<1>2. IsFiniteSet(N) /\ Cardinality(N) = Len(names)
  <2>1. 1 \in Int /\ Len(names) \in Int
    BY <1>1
  <2>2. IsFiniteSet(1..Len(names))
        /\ Cardinality(1..Len(names)) = IF 1 > Len(names) THEN 0 ELSE Len(names) - 1 + 1
    BY <2>1, FS_Interval
  <2> QED
    BY <1>1, <2>2
<1>3. ASSUME NEW t \in kept PROVE t \in all
  <2>1. t \in M /\ t.name \in ToSet(names)
    OBVIOUS
  <2>2. PICK i \in N : names[i] = t.name
    BY <1>1, <2>1 DEF ToSet
  <2>3. g[i] = CHOOSE u \in M : u.name = names[i]
    OBVIOUS
  <2>4. (CHOOSE u \in M : u.name = names[i]) \in M
        /\ (CHOOSE u \in M : u.name = names[i]).name = names[i]
    BY <2>1, <2>2
  <2>5. g[i] = t
    BY <2>1, <2>2, <2>3, <2>4
  <2> QED
    BY <2>5
<1>4. g = [i \in N |-> g[i]]
  OBVIOUS
<1> HIDE DEF kept, g, N
<1>5. IsFiniteSet(all) /\ Cardinality(all) <= Cardinality(N)
  BY <1>2, <1>4, ImageFinite
<1>6. kept \in SUBSET all
  BY <1>3
<1> HIDE DEF all
<1>7. IsFiniteSet(kept) /\ Cardinality(kept) <= Cardinality(all)
  BY <1>5, <1>6, FS_Subset
<1>8. Cardinality(kept) \in Nat /\ Cardinality(all) \in Nat
  BY <1>5, <1>7, FS_CardinalityType
<1> QED
  BY <1>1, <1>2, <1>5, <1>7, <1>8 DEF kept

(* Where the names of different candidates are those of tables, there are   *)
(* as many tables as candidates.                                            *)
LEMMA EnoughTables ==
  ASSUME NEW kept, IsFiniteSet(kept), NEW top, NEW P,
         \A i \in P : \E t \in kept : t.name = top[i].name,
         \A i, j \in P : top[i].name = top[j].name => i = j
  PROVE  IsFiniteSet(P) /\ Cardinality(P) <= Cardinality(kept)
<1> DEFINE g == [t \in kept |-> CHOOSE i \in P : top[i].name = t.name]
           all == {g[t] : t \in kept}
<1>1. ASSUME NEW i \in P PROVE i \in all
  <2>1. PICK t \in kept : t.name = top[i].name
    OBVIOUS
  <2>2. g[t] = CHOOSE j \in P : top[j].name = t.name
    OBVIOUS
  <2>3. /\ (CHOOSE j \in P : top[j].name = t.name) \in P
        /\ top[CHOOSE j \in P : top[j].name = t.name].name = t.name
    BY <2>1
  <2>4. g[t] \in P /\ top[g[t]].name = t.name
    BY <2>2, <2>3
  <2>5. g[t] = i
    BY <2>1, <2>4
  <2> QED
    BY <2>5
<1>2. g = [t \in kept |-> g[t]]
  OBVIOUS
<1> HIDE DEF g
<1>3. IsFiniteSet(all) /\ Cardinality(all) <= Cardinality(kept)
  BY <1>2, ImageFinite
<1>4. P \in SUBSET all
  BY <1>1
<1> HIDE DEF all
<1>5. IsFiniteSet(P) /\ Cardinality(P) <= Cardinality(all)
  BY <1>3, <1>4, FS_Subset
<1>6. Cardinality(P) \in Nat /\ Cardinality(all) \in Nat /\ Cardinality(kept) \in Nat
  BY <1>3, <1>5, FS_CardinalityType
<1> QED
  BY <1>3, <1>5, <1>6

(* The tables that are kept when the model answers this.                    *)
KeptFor(answer) ==
  {t \in MergedTables(found) :
     t.name \in ToSet(SelectedTables(MergedTables(found), found, answer))}

(* What SelectionCovers says of the tables that are kept.                   *)
Covering(kept) ==
  LET chosen == {i \in DOMAIN Top : \E t \in kept : t.name = Top[i].name}
  IN  /\ Top # <<>> => 1 \in chosen
      /\ \A i \in chosen \ {1} :
           ~(Top[i].covered \subseteq CoverOf(Top, {j \in chosen : j < i}))
      /\ Cardinality(kept) < MaxTables => CoverOf(Top, chosen) = CoverOf(Top, DOMAIN Top)

(* Merged tables have different names.                                      *)
LEMMA MergedNames == \A t, u \in MergedTables(found) : t.name = u.name => t = u
BY DEF MergedTables

(* The selected tables, whatever the model answers,                         *)
LEMMA TablesSelected ==
  ASSUME Recalled, NEW answer, Answered(answer)
  PROVE  /\ {t.name : t \in KeptFor(answer)}
              \subseteq ToSet(GreedyCover(Top, Required(found)).names)
         /\ Cardinality(KeptFor(answer)) <= MaxTables
         /\ MergedTables(found) # {} => KeptFor(answer) # {}
<1> DEFINE M == MergedTables(found)
           c == GreedyCover(Top, Required(found))
           T == {Top[i].name : i \in 1..Len(Top)}
           sel == Constrained(c.names, MaxTables, answer)
           kept == KeptFor(answer)
<1>1. /\ Offers(Top, Required(found))
      /\ \A i \in 1..Len(Top) : \E t \in M : t.name = Top[i].name
      /\ M # {} => Top # <<>>
  BY TopFacts
<1>2. PICK P : GreedyFor(c, P, Len(Top), Top, Required(found))
  BY <1>1, GreedyFacts
<1>3. SelectedTables(M, found, answer) = sel
  BY DEF SelectedTables, Top
<1>4. kept = {t \in M : t.name \in ToSet(sel)}
  BY <1>3 DEF KeptFor
<1>5. \A t, u \in M : t.name = u.name => t = u
  BY MergedNames
<1> HIDE DEF c, sel, kept, M, T
<1>6. c.names \in Seq(T) /\ (Top # <<>> => c.names # <<>>)
  <2>1. c.names \in Seq({Top[i].name : i \in P}) /\ P \in SUBSET (1..Len(Top))
        /\ Len(c.names) = Cardinality(P) /\ IsFiniteSet(P)
        /\ (Len(Top) > 0 => 1 \in P)
    BY <1>2 DEF GreedyFor
  <2>2. {Top[i].name : i \in P} \subseteq T
    BY <2>1 DEF T
  <2>3. c.names \in Seq(T)
    <3> HIDE DEF T
    <3> DEFINE A == {Top[i].name : i \in P}
    <3>1. c.names \in Seq(A) /\ A \subseteq T
      BY <2>1, <2>2
    <3> HIDE DEF A
    <3> QED
      BY <3>1
  <2>4. Top # <<>> => Len(Top) > 0
    BY <1>1 DEF Offers
  <2>5. 1 \in P => Cardinality(P) # 0
    BY <2>1, FS_EmptySet
  <2>6. c.names = <<>> => Len(c.names) = 0
    OBVIOUS
  <2> QED
    BY <2>1, <2>3, <2>4, <2>5, <2>6
<1>7. /\ sel \in Seq(ToSet(c.names)) /\ Len(sel) <= MaxTables
      /\ c.names # <<>> => sel # <<>>
  <2>1. MaxTables \in Nat \ {0}
    BY SelectionLimits
  <2> QED
    BY <1>6, <2>1, ConstrainedFacts DEF sel
<1>8. ToSet(sel) \subseteq ToSet(c.names) /\ ToSet(c.names) \subseteq T
  BY <1>6, <1>7 DEF ToSet
<1>9. Cardinality(kept) <= MaxTables
  <2>1. IsFiniteSet(kept) /\ Cardinality(kept) <= Len(sel)
    BY <1>4, <1>5, <1>7, FewTables
  <2>2. Cardinality(kept) \in Nat /\ Len(sel) \in Nat /\ MaxTables \in Nat
    BY <1>7, <2>1, FS_CardinalityType, SelectionLimits
  <2> QED
    BY <1>7, <2>1, <2>2
<1>10. ASSUME M # {} PROVE kept # {}
  <2>1. sel # <<>>
    BY <1>1, <1>6, <1>7, <1>10
  <2>2. 1 \in DOMAIN sel
    BY <1>7, <2>1
  <2>3. sel[1] \in ToSet(sel)
    BY <2>2 DEF ToSet
  <2>4. sel[1] \in T
    BY <1>8, <2>3
  <2>5. PICK t \in M : t.name = sel[1]
    BY <1>1, <2>4 DEF T
  <2> QED
    BY <1>4, <2>3, <2>5
<1>11. {t.name : t \in kept} \subseteq ToSet(c.names)
  BY <1>4, <1>8
<1> QED
  BY <1>9, <1>10, <1>11 DEF c, kept, M

(* and, when it does not answer, they cover what they can.                  *)
LEMMA TablesCover == ASSUME Recalled PROVE Covering(KeptFor(NoAnswer))
<1> DEFINE M == MergedTables(found)
           c == GreedyCover(Top, Required(found))
           kept == KeptFor(NoAnswer)
           chosen == {i \in DOMAIN Top : \E t \in kept : t.name = Top[i].name}
<1>1. /\ Offers(Top, Required(found))
      /\ \A i, j \in 1..Len(Top) : Top[i].name = Top[j].name => i = j
      /\ \A i \in 1..Len(Top) : \E t \in M : t.name = Top[i].name
  BY TopFacts
<1>2. PICK P : GreedyFor(c, P, Len(Top), Top, Required(found))
  BY <1>1, GreedyFacts
<1>3. SelectedTables(M, found, NoAnswer) = Constrained(c.names, MaxTables, NoAnswer)
  BY DEF SelectedTables, Top
<1>4. \A t, u \in M : t.name = u.name => t = u
  BY MergedNames
<1>5. DOMAIN Top = 1..Len(Top) /\ Len(Top) \in Nat
  BY <1>1 DEF Offers
<1> HIDE DEF c, M
<1> DEFINE A == {Top[i].name : i \in P}
<1>6. /\ P \in SUBSET (1..Len(Top)) /\ IsFiniteSet(P) /\ Cardinality(P) <= MaxTables
      /\ c.names \in Seq(A) /\ Len(c.names) = Cardinality(P)
      /\ \A i \in P : \E j \in 1..Len(c.names) : c.names[j] = Top[i].name
      /\ c.covered = CoverOf(Top, P)
      /\ Len(Top) > 0 => 1 \in P
      /\ \A i \in P \ {1} : ~(Top[i].covered \subseteq CoverOf(Top, {j \in P : j < i}))
      /\ Cardinality(P) < MaxTables => \A i \in 1..Len(Top) : Top[i].covered \subseteq c.covered
  BY <1>2 DEF GreedyFor
<1>7. Constrained(c.names, MaxTables, NoAnswer) = c.names
  <2>1. MaxTables \in Nat \ {0} /\ MaxTables \in Nat /\ Answered(NoAnswer)
    BY SelectionLimits DEF Answered
  <2> HIDE DEF A
  <2>2. Constrained(c.names, MaxTables, NoAnswer) = FirstOf(c.names, MaxTables)
    BY <1>6, <2>1, ConstrainedFacts
  <2>3. FirstOf(c.names, MaxTables) = c.names
    <3>1. Len(c.names) <= MaxTables
      BY <1>6
    <3> QED
      BY <1>6, <2>1, <3>1, FirstOfFacts
  <2> QED
    BY <2>2, <2>3
<1>8. ToSet(c.names) = A
  <2>1. ToSet(c.names) \subseteq A
    <3> HIDE DEF A
    <3> QED
      BY <1>6 DEF ToSet
  <2>2. ASSUME NEW i \in P PROVE Top[i].name \in ToSet(c.names)
    <3>1. PICK j \in 1..Len(c.names) : c.names[j] = Top[i].name
      BY <1>6
    <3>2. j \in DOMAIN c.names
      BY <1>6
    <3> QED
      BY <3>1, <3>2 DEF ToSet
  <2> QED
    BY <2>1, <2>2
<1>9. kept = {t \in M : t.name \in A}
  BY <1>3, <1>7, <1>8 DEF KeptFor, M
<1>10. chosen = P
  <2>1. ASSUME NEW i \in P PROVE i \in chosen
    <3>1. i \in 1..Len(Top) /\ Top[i].name \in A
      BY <1>6
    <3>2. PICK t \in M : t.name = Top[i].name
      BY <1>1, <3>1
    <3> HIDE DEF A
    <3>3. t \in kept
      BY <1>9, <3>1, <3>2
    <3> QED
      BY <1>5, <3>1, <3>2, <3>3
  <2>2. ASSUME NEW i \in chosen PROVE i \in P
    <3>1. PICK t \in kept : t.name = Top[i].name
      OBVIOUS
    <3>2. i \in 1..Len(Top) /\ Top[i].name \in A
      BY <1>5, <1>9, <3>1
    <3>3. PICK j \in P : Top[j].name = Top[i].name
      BY <3>2
    <3> QED
      BY <1>1, <1>6, <3>2, <3>3
  <2> QED
    BY <2>1, <2>2
<1>11. IsFiniteSet(kept) /\ Cardinality(kept) \in Nat /\ Cardinality(P) <= Cardinality(kept)
  <2>1. IsFiniteSet(kept)
    <3>1. IsFiniteSet(M)
      BY RecalledFinite DEF M
    <3>2. kept \in SUBSET M
      BY <1>9
    <3> QED
      BY <3>1, <3>2, FS_Subset
  <2>2. \A i \in P : \E t \in kept : t.name = Top[i].name
    BY <1>10
  <2>3. \A i, j \in P : Top[i].name = Top[j].name => i = j
    BY <1>1, <1>6
  <2> HIDE DEF kept
  <2>4. Cardinality(P) <= Cardinality(kept)
    BY <2>1, <2>2, <2>3, EnoughTables
  <2> QED
    BY <2>1, <2>4, FS_CardinalityType
<1> HIDE DEF kept, chosen, A
<1>12. Top # <<>> => 1 \in chosen
  <2>1. Top # <<>> => Len(Top) > 0
    BY <1>1 DEF Offers
  <2> QED
    BY <1>6, <1>10, <2>1
<1>13. ASSUME Cardinality(kept) < MaxTables PROVE CoverOf(Top, chosen) = CoverOf(Top, DOMAIN Top)
  <2>1. Cardinality(P) < MaxTables
    <3>1. Cardinality(P) \in Nat /\ MaxTables \in Nat
      BY <1>6, FS_CardinalityType, SelectionLimits
    <3> QED
      BY <1>11, <1>13, <3>1
  <2>2. \A i \in 1..Len(Top) : Top[i].covered \subseteq CoverOf(Top, P)
    BY <1>6, <2>1
  <2>3. CoverOf(Top, DOMAIN Top) \subseteq CoverOf(Top, P)
    BY <1>5, <2>2 DEF CoverOf
  <2>4. CoverOf(Top, P) \subseteq CoverOf(Top, DOMAIN Top)
    BY <1>5, <1>6 DEF CoverOf
  <2> QED
    BY <1>10, <2>3, <2>4
<1>14. \A i \in chosen \ {1} : ~(Top[i].covered \subseteq CoverOf(Top, {j \in chosen : j < i}))
  BY <1>6, <1>10
<1> QED
  BY <1>12, <1>13, <1>14 DEF Covering, kept, chosen

(* The selected metrics.                                                    *)
LEMMA MetricsSelected ==
  ASSUME Recalled, NEW answer, Answered(answer)
  PROVE  LET offered == Names(RankedMetrics(found, MergedTables(found)))
             kept == found.metrics
                       \cap ToSet(SelectedMetrics(found, MergedTables(found), answer))
         IN  /\ kept \subseteq ToSet(offered)
             /\ Cardinality(kept) <= MaxMetrics
             /\ found.metrics # {} => kept # {}
<1> DEFINE M == MergedTables(found)
           F == {MetricFeatures(m, found, M) : m \in found.metrics}
           ranked == RankedMetrics(found, M)
           offered == Names(ranked)
           sel == Constrained(offered, MaxMetrics, answer)
           kept == found.metrics \cap ToSet(SelectedMetrics(found, M, answer))
<1>1. /\ Comparable(F, Metrics) /\ IsFiniteSet(F)
      /\ \A m \in found.metrics : MetricFeatures(m, found, M).name = m
  BY MetricsComparable
<1>2. ranked = FirstOf(Sorted(F), TopMetrics) /\ TopMetrics \in Nat \ {0}
      /\ MaxMetrics \in Nat \ {0}
  BY SelectionLimits DEF RankedMetrics
<1>3. kept = found.metrics \cap ToSet(sel)
  BY DEF SelectedMetrics
<1>4. (found.metrics # {} => F # {}) /\ \A f \in F : f.name \in found.metrics
  BY <1>1
<1> HIDE DEF F, M
<1>5. ranked \in Seq(F) /\ (F # {} => ranked # <<>>)
  <2>1. Metrics \in {Tables, Metrics}
    OBVIOUS
  <2> QED
    BY <1>1, <1>2, <2>1, RankedFacts
<1> HIDE DEF ranked
<1>6. offered \in Seq(found.metrics) /\ (ranked # <<>> => offered # <<>>)
  <2>1. Len(ranked) \in Nat /\ DOMAIN ranked = 1..Len(ranked)
        /\ \A i \in 1..Len(ranked) : ranked[i] \in F
    BY <1>5
  <2>2. offered = [i \in 1..Len(ranked) |-> ranked[i].name]
    BY <2>1 DEF Names
  <2>3. \A i \in 1..Len(ranked) : ranked[i].name \in found.metrics
    BY <1>4, <2>1
  <2>4. offered \in Seq(found.metrics) /\ Len(offered) = Len(ranked)
    BY <2>1, <2>2, <2>3
  <2>5. ranked # <<>> => Len(ranked) # 0
    BY <1>5
  <2>6. offered = <<>> => Len(offered) = 0
    OBVIOUS
  <2> QED
    BY <2>4, <2>5, <2>6
<1> HIDE DEF offered, sel
<1>7. /\ sel \in Seq(ToSet(offered)) /\ Len(sel) <= MaxMetrics
      /\ offered # <<>> => sel # <<>>
  BY <1>2, <1>6, ConstrainedFacts DEF sel
<1>8. ToSet(sel) \subseteq ToSet(offered) /\ ToSet(offered) \subseteq found.metrics
  BY <1>6, <1>7 DEF ToSet
<1>9. kept \subseteq ToSet(offered)
  BY <1>3, <1>8
<1>10. ASSUME found.metrics # {} PROVE kept # {}
  <2>1. sel # <<>>
    BY <1>4, <1>5, <1>6, <1>7, <1>10
  <2>2. 1 \in DOMAIN sel
    BY <1>7, <2>1
  <2>3. sel[1] \in ToSet(sel)
    BY <2>2 DEF ToSet
  <2> QED
    BY <1>3, <1>8, <2>3
<1>11. Cardinality(kept) <= MaxMetrics
  <2> DEFINE N == 1..Len(sel)
             g == [i \in N |-> sel[i]]
  <2>1. Len(sel) \in Nat /\ DOMAIN sel = N
    BY <1>7
  <2>2. IsFiniteSet(N) /\ Cardinality(N) = Len(sel)
    <3>1. 1 \in Int /\ Len(sel) \in Int
      BY <2>1
    <3>2. IsFiniteSet(1..Len(sel))
          /\ Cardinality(1..Len(sel)) = IF 1 > Len(sel) THEN 0 ELSE Len(sel) - 1 + 1
      BY <3>1, FS_Interval
    <3> QED
      BY <2>1, <3>2
  <2>3. kept \in SUBSET {g[i] : i \in N} /\ g = [i \in N |-> g[i]]
    <3>1. \A i \in N : g[i] = sel[i]
      OBVIOUS
    <3>2. ToSet(sel) = {g[i] : i \in N}
      BY <2>1, <3>1 DEF ToSet
    <3> QED
      BY <1>3, <3>2
  <2> HIDE DEF g, N, kept
  <2> DEFINE all == {g[i] : i \in N}
  <2>4. IsFiniteSet(all) /\ Cardinality(all) <= Cardinality(N)
    BY <2>2, <2>3, ImageFinite
  <2>5. kept \in SUBSET all
    BY <2>3
  <2> HIDE DEF all
  <2>6. IsFiniteSet(kept) /\ Cardinality(kept) <= Cardinality(all)
    BY <2>4, <2>5, FS_Subset
  <2>7. Cardinality(kept) \in Nat /\ Cardinality(all) \in Nat /\ MaxMetrics \in Nat
    BY <1>2, <2>4, <2>6, FS_CardinalityType
  <2> QED
    BY <1>7, <2>1, <2>2, <2>4, <2>6, <2>7
<1> QED
  BY <1>9, <1>10, <1>11 DEF kept, offered, ranked, M

-----------------------------------------------------------------------------
(* The filters read what was merged; nothing changes the selection after    *)
(* them.                                                                    *)
SelectionInv ==
  /\ phase \notin {"recall", "raised"} => Recalled
  /\ phase = "filter" => tables = MergedTables(found) /\ metrics = found.metrics
  /\ SelectionBounded /\ SelectionCovers

(* Filtering by rank selects what the lemmas above speak of.                *)
LEMMA RankedStep ==
  ASSUME SelectionInv, FilterRanked
  PROVE  SelectionInv'
<1>1. /\ phase = "filter" /\ phase' = "generate" /\ Recalled
      /\ UNCHANGED <<config, found>>
      /\ tables = MergedTables(found) /\ metrics = found.metrics
  BY DEF SelectionInv, FilterRanked
<1>2. PICK forTables \in IF config.rerank THEN TableAnswers ELSE {NoAnswer},
           forMetrics \in IF config.rerank THEN MetricAnswers ELSE {NoAnswer} :
         /\ tables' = Keep(ToSet(SelectedTables(tables, found, forTables)))
         /\ metrics' = metrics \cap ToSet(SelectedMetrics(found, tables, forMetrics))
  BY DEF FilterRanked
<1>3. Answered(forTables) /\ Answered(forMetrics)
  BY AnswersNamed DEF Answered
<1>4. tables' = KeptFor(forTables)
  BY <1>1, <1>2 DEF Keep, KeptFor
<1>5. metrics' = found.metrics
                   \cap ToSet(SelectedMetrics(found, MergedTables(found), forMetrics))
  BY <1>1, <1>2
<1>6. Recalled' /\ Top' = Top
  BY <1>1 DEF Recalled, Top
<1>7. SelectionBounded'
  <2>1. tables' \subseteq MergedTables(found)
    BY <1>4 DEF KeptFor
  <2>2. /\ {t.name : t \in tables'} \subseteq ToSet(GreedyCover(Top, Required(found)).names)
        /\ Cardinality(tables') <= MaxTables
        /\ MergedTables(found) # {} => tables' # {}
    BY <1>1, <1>3, <1>4, TablesSelected
  <2>3. /\ metrics' \subseteq ToSet(Names(RankedMetrics(found, MergedTables(found))))
        /\ Cardinality(metrics') <= MaxMetrics
        /\ found.metrics # {} => metrics' # {}
    BY <1>1, <1>3, <1>5, MetricsSelected
  <2> QED
    BY <1>1, <1>6, <2>1, <2>2, <2>3 DEF SelectionBounded
<1>8. SelectionCovers'
  <2>1. SUFFICES ASSUME ~config.rerank PROVE SelectionCovers'
    BY <1>1 DEF SelectionCovers
  <2>2. tables' = KeptFor(NoAnswer)
    BY <1>2, <1>4, <2>1
  <2>3. Covering(tables')
    BY <1>1, <2>2, TablesCover
  <2> QED
    BY <1>6, <2>3 DEF SelectionCovers, Covering, CoverOf
<1> QED
  BY <1>1, <1>6, <1>7, <1>8 DEF SelectionInv

(* Every step keeps the invariant of the selection,                         *)
LEMMA SelectionStep == SelectionInv /\ [Next]_vars => SelectionInv'
<1> SUFFICES ASSUME SelectionInv, [Next]_vars PROVE SelectionInv'
  OBVIOUS
<1>1. CASE Recall
  <2>1. found' \in Findings /\ phase' = "merge"
    BY <1>1 DEF Recall
  <2>2. Recalled'
    BY <2>1, FoundNames DEF Recalled
  <2> QED
    BY <2>1, <2>2 DEF SelectionInv, SelectionBounded, SelectionCovers, Filtered
<1>2. CASE Merge
  <2>1. /\ phase = "merge" /\ phase' = "filter" /\ found' = found
        /\ tables' = MergedTables(found) /\ metrics' = found.metrics
    BY <1>2 DEF Merge
  <2>2. Recalled'
    BY <2>1 DEF SelectionInv, Recalled
  <2> QED
    BY <2>1, <2>2 DEF SelectionInv, SelectionBounded, SelectionCovers, Filtered
<1>3. CASE FilterRanked
  BY <1>3, RankedStep
<1>4. CASE FilterNamed
  <2>1. phase = "filter" /\ phase' = "generate" /\ UNCHANGED <<config, found>> /\ ~config.rank
    BY <1>4 DEF FilterNamed
  <2>2. Recalled'
    BY <2>1 DEF SelectionInv, Recalled
  <2> QED
    BY <2>1, <2>2 DEF SelectionInv, SelectionBounded, SelectionCovers, Filtered
<1>5. CASE /\ UNCHANGED selection
           /\ phase' \notin {"recall", "raised"} => phase \notin {"recall", "raised"}
           /\ phase' = "filter" => phase = "filter"
           /\ Filtered' => Filtered
  <2>1. UNCHANGED <<config, found, tables, metrics>>
    BY <1>5 DEF selection
  <2>2. (Recalled => Recalled') /\ Top' = Top
    BY <2>1 DEF Recalled, Top
  <2>3. SelectionBounded'
    BY <1>5, <2>1, <2>2 DEF SelectionInv, SelectionBounded
  <2>4. SelectionCovers'
    <3>1. SUFFICES ASSUME Filtered', config.rank, ~config.rerank PROVE SelectionCovers'
      BY <2>1 DEF SelectionCovers
    <3>2. Covering(tables)
      BY <1>5, <3>1 DEF SelectionInv, SelectionCovers, Covering, CoverOf
    <3>3. Covering(tables)'
      BY <2>1, <2>2, <3>2 DEF Covering
    <3> QED
      BY <3>3 DEF SelectionCovers, Covering, CoverOf
  <2> QED
    BY <1>5, <2>1, <2>2, <2>3, <2>4 DEF SelectionInv
<1>6. CASE FilterFails \/ Generate \/ Correct \/ ModelFails
  BY <1>5, <1>6 DEF FilterFails, Generate, Correct, ModelFails, Filtered
<1>7. CASE Security \/ Validate \/ EvaluateCost \/ Execute
  <2>1. UNCHANGED selection /\ phase \in {"security", "validate", "cost", "execute"}
    BY <1>7 DEF Security, Validate, EvaluateCost, Execute
  <2>2. phase' \in {"validate", "cost", "execute", "done", "correct", "failed"}
    BY <1>7 DEF Security, Validate, EvaluateCost, Execute, Route
  <2> QED
    BY <1>5, <2>1, <2>2 DEF Filtered
<1>8. CASE RunCancelled \/ Failed \/ BudgetEnds
  BY <1>5, <1>8 DEF RunCancelled, Failed, BudgetEnds, Filtered
<1>9. CASE Ended \/ UNCHANGED vars
  BY <1>5, <1>9 DEF Ended, vars, selection, Filtered
<1> QED
  BY <1>1, <1>2, <1>3, <1>4, <1>6, <1>7, <1>8, <1>9 DEF Next

(* which holds before anything is recalled.                                 *)
LEMMA InitSelection == Init => SelectionInv
BY DEF Init, SelectionInv, SelectionBounded, SelectionCovers, Filtered

(* The filters choose among what was merged, and what they chose stays.     *)
THEOREM SelectionInvariant == Spec => []SelectionInv
BY InitSelection, SelectionStep, PTL DEF Spec

(* With ranking, whatever the reranking model answers, constrained_table_   *)
(* selection and constrained_metric_selection keep some of the              *)
(* deterministic choice, never more than the limit and never nothing when   *)
(* there was a candidate.                                                   *)
THEOREM SelectionIsBounded == Spec => []SelectionBounded
<1>1. SelectionInv => SelectionBounded
  BY DEF SelectionInv
<1> QED
  BY <1>1, SelectionInvariant, PTL

(* Without the model greedy_cover decides: the best table is in, each of    *)
(* the others covers something no better one does, and as long as there is  *)
(* room nothing that a candidate covers is missed.                          *)
THEOREM SelectionIsCovering == Spec => []SelectionCovers
<1>1. SelectionInv => SelectionCovers
  BY DEF SelectionInv
<1> QED
  BY <1>1, SelectionInvariant, PTL
=============================================================================
