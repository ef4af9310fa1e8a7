----------------------- MODULE CheckpointedGraphSafety -----------------------
(***************************************************************************)
(* The safety properties of CheckpointedGraph, for every number of         *)
(* retries, attempts and SQL texts and every set of faults: what a         *)
(* finished execution does, what its record says, what a resumed attempt   *)
(* still has, and which SQL reaches execute_sql and the answer. None is    *)
(* inductive; each section states the invariant that is, shows that every  *)
(* kind of step keeps it, and concludes.                                   *)
(***************************************************************************)
EXTENDS CheckpointedGraphProofs

(* The tasks of the attempt have not been cancelled.                        *)
Working == run \in {"running", "expiring", "drained"}

(* A request that comes when its execution is over gets no further than the *)
(* script that refuses to write RUNNING.                                    *)
FinishedInv ==
  startedOn \in Terminal =>
    /\ run # "drained"
    /\ DOMAIN act \subseteq {"extract_keywords"}
    /\ \A n \in DOMAIN act : act[n].pc \in {"enter", "save", "mark", "gone"}
    /\ sqlCount = 0 /\ missing = {} /\ answered = -1
    /\ ~Over => cp.status \in Terminal

(* Every kind of step keeps FinishedInv.                                    *)
LEMMA FinishedKept ==
  ASSUME TypeInv, FinishedInv, [Next]_vars
  PROVE  FinishedInv'
<1> USE DEF FinishedInv
<1>1. CASE Start
  <2> SUFFICES ASSUME startedOn' \in Terminal PROVE FinishedInv'
    OBVIOUS
  <2>1. cp.status \in Terminal /\ cp' = cp /\ cp.status # "RUNNING"
    BY <1>1 DEF Start, Begin, Terminal, NoRecord
  <2>2. st' = InitialState /\ act' = Fresh({"extract_keywords"}, InitialState)
    BY <1>1, <2>1 DEF Start, Terminal
  <2>3. /\ DOMAIN act' = {"extract_keywords"}
        /\ \A n \in DOMAIN act' : act'[n].pc = "enter"
    BY <2>2, FreshEffect
  <2>4. sqlCount' = 0
    BY <1>1, <2>2 DEF Start, InitialState
  <2> QED
    BY <1>1, <2>1, <2>3, <2>4 DEF Start, Begin
<1>11. CASE LeavesEarly
  BY <1>11, NothingLeft DEF LeavesEarly, Begin, Over
<1> SUFFICES ASSUME ~Start, ~LeavesEarly, startedOn \in Terminal
             PROVE  FinishedInv'
  <2>1. ~Start /\ ~LeavesEarly => startedOn' = startedOn
    BY OneStartPerAttempt
  <2> QED
    BY <1>1, <1>11, <2>1
<1>2. ~(SqlBody \/ \E n \in Nodes : DataBody(n))
        /\ ~(\E n \in DOMAIN act : act[n].pc = "body")
  BY BodyRuns
<1>3. ASSUME NEW n \in Nodes, Guarded(n) PROVE FinishedInv'
  <2>1. ~Over /\ cp.status \in Terminal /\ cp.status # "RUNNING"
          /\ ~MayReplace(cp.status, "RUNNING")
    BY <1>3 DEF Guarded, Over, Terminal, MayReplace
  <2>2. act'[n].pc \in {"save", "mark"} /\ cp' = cp
    BY <1>3, <2>1 DEF Guarded
  <2> QED
    BY <1>3, <2>1, <2>2 DEF Guarded, Others, Over
<1>4. CASE Halts
  BY <1>2, <1>4 DEF Halts, Over
<1>5. ASSUME NEW n \in Nodes, NodeCancelled(n) PROVE FALSE
  BY <1>5 DEF NodeCancelled
<1>6. CASE Ends(Merged(DOMAIN act), NextNodes(DOMAIN act, Merged(DOMAIN act)))
  <2>1. DOMAIN act # {}
    BY <1>6, NodesOfStep DEF Ends, TypeInv, Over
  <2> QED
    BY <1>6, <2>1 DEF Ends
<1>7. CASE TotalTimeout
  BY <1>7, MarkedStatus DEF TotalTimeout, Over, Terminal
<1>8. CASE Unwound \/ Crash
  BY <1>8, NothingLeft DEF Unwound, Crash, Over
<1>9. CASE Expire
  BY <1>9 DEF Expire, Over
<1>10. CASE ReportCutShort \/ UNCHANGED vars
  BY <1>10 DEF ReportCutShort, vars, Over
<1> QED
  BY <1>2, <1>3, <1>4, <1>5, <1>6, <1>7, <1>8, <1>9, <1>10, StepKinds
     DEF QueryDone

(* FinishedInv holds in every reachable state.                              *)
LEMMA FinishedAlways == Spec => []FinishedInv
<1>1. Init => FinishedInv
  BY DEF Init, FinishedInv, Terminal
<1> QED
  BY <1>1, FinishedKept, TypeInvariant, PTL DEF Spec

(* A request that arrives when its execution is already over asks the LLM   *)
(* for no SQL, executes none and emits no answer.                           *)
THEOREM FinishedDoesNothing == Spec => FinishedExecutionDoesNothing
<1>1. TypeInv /\ FinishedInv /\ FinishedInv' /\ [Next]_vars =>
        [(startedOn \in Terminal /\ attempt' = attempt) =>
           UNCHANGED <<sqlCount, missing, answered>>]_vars
  BY OneStartPerAttempt DEF FinishedInv
<1> QED
  BY <1>1, TypeInvariant, FinishedAlways, PTL
     DEF Spec, FinishedExecutionDoesNothing

-----------------------------------------------------------------------------
(* While an attempt is under way: how it ends is told once or nobody reads  *)
(* on, no task is cancelled before the graph is, a timed-out attempt has    *)
(* its terminal record at once, and only the owner of a drained graph can   *)
(* complete it.                                                             *)
OutcomeInv ==
  /\ run \in {"running", "drained"} => outcome = "none"
  /\ run = "expiring" => outcome = "timeout"
  /\ run = "unwinding" =>
       outcome \in {"error", "timeout", "cancelled", "abandoned"}
  /\ Working => \A n \in DOMAIN act : act[n].pc \notin {"cancelled", "gone"}
  /\ startedOn \notin Terminal =>
       /\ run \in {"running", "drained"} => cp.status = "RUNNING"
       /\ outcome = "timeout" /\ ~Over => cp.status \in {"FAILED", "CANCELLED"}
       /\ ~Over => cp.status \in {"RUNNING", "FAILED", "CANCELLED"}
  /\ OutcomeRecorded

(* Every kind of step keeps OutcomeInv.                                     *)
LEMMA OutcomeKept ==
  ASSUME TypeInv, OutcomeInv, [Next]_vars
  PROVE  OutcomeInv'
<1> USE DEF OutcomeInv, Working, Over, OutcomeRecorded
<1>1. CASE Start
  <2>1. DOMAIN act' = {"extract_keywords"}
          /\ \A n \in DOMAIN act' : act'[n].pc = "enter"
    BY <1>1, StartFresh
  <2>2. startedOn' \notin Terminal => cp'.status = "RUNNING"
    BY <1>1 DEF Start, Begin, NoRecord, Terminal, TypeInv, Records, Statuses
  <2> QED
    BY <1>1, <2>1, <2>2 DEF Start
<1>14. CASE LeavesEarly
  <2>1. startedOn' \notin Terminal => cp'.status = "RUNNING"
    BY <1>14
       DEF LeavesEarly, Begin, NoRecord, Terminal, TypeInv, Records, Statuses
  <2> QED
    BY <1>14, <2>1, NothingLeft DEF LeavesEarly
<1>2. ASSUME NEW n \in Nodes, Guarded(n) PROVE OutcomeInv'
  <2>1. \A m \in DOMAIN act' : act'[m].pc \notin {"cancelled", "gone"}
    BY <1>2 DEF Guarded, Others
  <2>2. cp'.status \in {cp.status, "RUNNING"} /\ (cp' # cp =>
          MayReplace(cp.status, "RUNNING"))
    BY <1>2 DEF Guarded, RunningRecord
  <2>3. /\ UNCHANGED <<run, outcome, startedOn>>
        /\ run \in {"running", "expiring"}
    BY <1>2 DEF Guarded
  <2> QED
    BY <2>1, <2>2, <2>3 DEF MayReplace
<1>3. ASSUME NEW n, NEW s, NEW rec, Bodied(n, s, rec) PROVE OutcomeInv'
  <2>1. \A m \in DOMAIN act' : act'[m].pc \notin {"cancelled", "gone"}
    BY <1>3 DEF Bodied, Others
  <2> QED
    BY <1>3, <2>1 DEF Bodied
<1>4. CASE SqlBody \/ \E n \in Nodes : DataBody(n)
  <2>1. \E n, s, rec : Return(n, s, rec)
    BY <1>4 DEF SqlBody, DataBody, GenerateBody, CorrectBody, SecurityBody,
       DatabaseBody,
       CostBody, ExecuteBody, SummarizeBody, InterpretBody, Accept, Reject
  <2> QED
    BY <1>3, <2>1, Returns
<1>5. CASE Halts
  <2>1. run' = "unwinding"
        /\ outcome' \in {"error", "timeout", "cancelled", "abandoned"}
        /\ run \in {"running", "expiring", "drained"}
        /\ startedOn' = startedOn
    BY <1>5 DEF Halts
  <2>2. cp'.status \in {cp.status, "FAILED"}
    BY <1>5, MarkedStatus DEF Halts
  <2>3. outcome' = "timeout" => outcome = "timeout"
    BY <1>5 DEF Halts
  <2> QED
    BY <2>1, <2>2, <2>3
<1>6. ASSUME NEW n \in Nodes, NodeCancelled(n) PROVE OutcomeInv'
  <2>1. run = "unwinding"
    BY <1>6 DEF NodeCancelled, TypeInv
  <2>2. cp'.status \in {cp.status, "CANCELLED"}
    BY <1>6, MarkedStatus DEF NodeCancelled
  <2> QED
    BY <1>6, <2>1, <2>2 DEF NodeCancelled
<1>7. CASE Ends(Merged(DOMAIN act), NextNodes(DOMAIN act, Merged(DOMAIN act)))
  <2>1. \A m \in DOMAIN act' : act'[m].pc \notin {"cancelled", "gone"}
    BY <1>7, FreshEffect DEF Ends
  <2> QED
    BY <1>7, <2>1 DEF Ends
<1>8. CASE QueryDone
  BY <1>8, MarkedStatus, NothingLeft DEF QueryDone, MayReplace, Terminal
<1>9. CASE TotalTimeout
  BY <1>9, MarkedStatus DEF TotalTimeout, MayReplace, Terminal
<1>10. CASE Unwound
  <2>1. startedOn \notin Terminal =>
          \/ cp'.status \in {"FAILED", "CANCELLED"}
          \/ cp'.status = "RUNNING" /\ outcome = "abandoned"
    BY <1>10, MarkedStatus DEF Unwound, MayReplace
  <2> QED
    BY <1>10, <2>1 DEF Unwound
<1>11. CASE Crash
  BY <1>11 DEF Crash
<1>12. CASE Expire
  BY <1>12 DEF Expire, TypeInv
<1>13. CASE ReportCutShort \/ UNCHANGED vars
  BY <1>13 DEF ReportCutShort, vars
<1> QED
  BY <1>1, <1>2, <1>4, <1>5, <1>6, <1>7, <1>8, <1>9, <1>10, <1>11, <1>12,
     <1>13, <1>14, StepKinds

(* OutcomeInv holds in every reachable state.                               *)
LEMMA OutcomeAlways == Spec => []OutcomeInv
<1>1. Init => OutcomeInv
  BY DEF Init, OutcomeInv, Working, Over, OutcomeRecorded
<1> QED
  BY <1>1, OutcomeKept, TypeInvariant, PTL DEF Spec

(* The record of an execution that has ended is COMPLETED exactly when the  *)
(* client was told so by an attempt whose graph came to its end; it is      *)
(* still RUNNING only after an attempt that never got to the graph or whose *)
(* stream was closed, whatever a cancelled or late node writes.             *)
THEOREM OutcomeIsRecorded == Spec => []OutcomeRecorded
BY OutcomeAlways, PTL DEF OutcomeInv

-----------------------------------------------------------------------------
(* The data nodes that are alone in their superstep, and the nodes of which *)
(* some try is recorded.                                                    *)
Sequential == DataNodes \ Parallel

RecordedIn(n, keys) == \E r \in Tries : <<n, r>> \in keys

(* What is recorded of such a node is in the snapshot of the same record.   *)
(* While the attempt lives it is in the graph state too, or in the update   *)
(* of the node just done; and what a guard has loaded and will write is in  *)
(* the state it will write with it.                                         *)
ProgressInv ==
  /\ \A n \in Sequential : RecordedIn(n, cp.completed) => n \in cp.snap.have
  /\ Working =>
     /\ \A n \in Sequential : RecordedIn(n, cp.completed) =>
          \/ n \in st.have
          \/ n \in DOMAIN act /\ act[n].pc = "done" /\ n \in act[n].out.have
     /\ \A m \in DOMAIN act :
          /\ st.have \subseteq act[m].out.have
          /\ m \in DataNodes /\ act[m].pc \in {"load", "commit"} =>
               m \in act[m].out.have
          /\ act[m].pc \in {"mark", "commit"} =>
               \A n \in Sequential : RecordedIn(n, act[m].seen) =>
                 n \in st.have \/ (act[m].pc = "commit" /\ n = m)

(* An empty set of keys records nothing, and a terminal write adds none.    *)
LEMMA NothingRecorded ==
  /\ \A n : ~RecordedIn(n, {})
  /\ \A status : Marked(status) = cp \/ Marked(status).completed = {}
BY DEF RecordedIn, Marked, NoRecord

(* A record that is not RUNNING has no keys.                                *)
LEMMA NoRunningNoKeys ==
  ASSUME TypeInv, cp.status # "RUNNING"
  PROVE  cp.completed = {}
BY DEF TypeInv, NoRecord

(* Such a node is alone in its superstep.                                   *)
LEMMA SequentialAlone ==
  ASSUME TypeInv, ~Over, NEW n \in Sequential, n \in DOMAIN act
  PROVE  DOMAIN act = {n}
BY AloneInStep DEF TypeInv, Sequential

(* A RUNNING save keeps the presence of such a node's update.               *)
LEMMA SnapshotHave ==
  ASSUME NEW n \in Sequential, NEW s, NEW keys
  PROVE  /\ RunningRecord(keys, s).completed = keys
         /\ n \in s.have => n \in RunningRecord(keys, s).snap.have
BY DEF RunningRecord, Snapshot, Sequential, Parallel, Recalls

(* The guard keeps ProgressInv: it commits the keys it loaded together with *)
(* a state that has their updates.                                          *)
LEMMA ProgressGuard ==
  ASSUME TypeInv, ProgressInv, NEW n \in Nodes, Guarded(n)
  PROVE  ProgressInv'
<1> USE DEF ProgressInv, Working
<1>1. /\ run \in {"running", "expiring"} /\ run' = run /\ ~Over /\ Working
      /\ st' = st /\ n \in DOMAIN act /\ Others(n)
      /\ act'[n].out = act[n].out /\ DOMAIN act' = DOMAIN act
  BY DEF Guarded, Over, Others
<1>2. \A k \in Sequential : k \in DOMAIN act => k = n /\ DOMAIN act = {n}
  BY <1>1, SequentialAlone
<1>3. \A m \in DOMAIN act' : st'.have \subseteq act'[m].out.have
  BY <1>1 DEF Others
<1>4. \A m \in DOMAIN act' :
        m \in DataNodes /\ act'[m].pc \in {"load", "commit"} =>
          m \in act'[m].out.have
  <2>1. act'[n].pc \in {"load", "commit"} => act[n].pc \in {"load", "commit"}
    BY DEF Guarded
  <2> QED
    BY <1>1, <2>1 DEF Others
<1>5. ASSUME cp' = cp, act[n].pc # "done",
             act'[n].pc \in {"mark", "commit"} =>
               act'[n].seen \subseteq cp.completed
                 \cup (IF act'[n].pc = "commit" THEN {<<n,
                   act[n].out.retry>>} ELSE {})
      PROVE  ProgressInv'
  <2>1. \A k \in Sequential : RecordedIn(k, cp.completed) => k \in st.have
    BY <1>1, <1>2, <1>5
  <2>2. act'[n].pc \in {"mark", "commit"} =>
          \A k \in Sequential : RecordedIn(k, act'[n].seen) =>
             k \in st.have \/ (act'[n].pc = "commit" /\ k = n)
    BY <1>5, <2>1 DEF RecordedIn
  <2>3. \A m \in DOMAIN act' : act'[m].pc \in {"mark", "commit"} =>
          \A k \in Sequential : RecordedIn(k, act'[m].seen) =>
             k \in st.have \/ (act'[m].pc = "commit" /\ k = m)
    BY <1>1, <2>2 DEF Others
  <2> QED
    BY <1>1, <1>3, <1>4, <1>5, <2>1, <2>3
<1>6. ASSUME NEW s, cp' = RunningRecord(act[n].seen, s),
               act'[n].pc \notin {"mark", "commit"},
             \A k \in Sequential : RecordedIn(k, act[n].seen) =>
               /\ k \in s.have
               /\ k \in st.have \/ (k = n /\ act'[n].pc = "done"
                    /\ k \in act[n].out.have)
      PROVE  ProgressInv'
  <2>1. \A k \in Sequential :
           RecordedIn(k, cp'.completed) => RecordedIn(k, act[n].seen)
             /\ k \in cp'.snap.have
    BY <1>6, SnapshotHave
  <2>2. \A m \in DOMAIN act' : act'[m].pc \in {"mark", "commit"} =>
          \A k \in Sequential : RecordedIn(k, act'[m].seen) =>
             k \in st.have \/ (act'[m].pc = "commit" /\ k = m)
    BY <1>1, <1>6 DEF Others
  <2> QED
    BY <1>1, <1>3, <1>4, <1>6, <2>1, <2>2
<1>7. CASE act[n].pc = "enter"
  BY <1>5, <1>7 DEF Guarded
<1>8. CASE act[n].pc \in {"save", "load"}
  BY <1>5, <1>8 DEF Guarded, CompletionKey
<1>9. CASE act[n].pc = "mark"
  BY <1>1, <1>6, <1>9 DEF Guarded
<1>10. CASE act[n].pc = "commit"
  <2>1. \A k \in Sequential : RecordedIn(k, act[n].seen) =>
               /\ k \in act[n].out.have
               /\ k \in st.have \/ (k = n /\ k \in act[n].out.have)
    BY <1>1, <1>10 DEF Sequential
  <2> QED
    BY <1>6, <1>10, <2>1 DEF Guarded
<1> QED
  BY <1>7, <1>8, <1>9, <1>10 DEF Guarded

(* A body keeps ProgressInv.                                                *)
LEMMA ProgressBody ==
  ASSUME TypeInv, ProgressInv, NEW n, NEW s, NEW rec, Bodied(n, s, rec),
         st.have \subseteq s.have, n \in DataNodes => n \in s.have
  PROVE  ProgressInv'
<1>1. /\ Working /\ run' = run /\ st' = st /\ cp' = cp
      /\ DOMAIN act' = DOMAIN act /\ Others(n) /\ n \in DOMAIN act
      /\ act'[n].pc = "load" /\ act'[n].out = s /\ act[n].pc = "body"
  BY DEF Bodied, Working, Others
<1>2. \A k \in Sequential : RecordedIn(k, cp.completed) =>
          \/ k \in st.have
          \/ k \in DOMAIN act' /\ act'[k].pc = "done" /\ k \in act'[k].out.have
  BY <1>1 DEF ProgressInv, Others
<1>3. \A m \in DOMAIN act' :
          /\ st.have \subseteq act'[m].out.have
          /\ m \in DataNodes /\ act'[m].pc \in {"load", "commit"} =>
               m \in act'[m].out.have
          /\ act'[m].pc \in {"mark", "commit"} =>
               \A k \in Sequential : RecordedIn(k, act'[m].seen) =>
                 k \in st.have \/ (act'[m].pc = "commit" /\ k = m)
  BY <1>1 DEF ProgressInv, Others
<1> QED
  BY <1>1, <1>2, <1>3 DEF ProgressInv

(* The end of a superstep keeps ProgressInv: the merged state has the       *)
(* updates of the tasks.                                                    *)
LEMMA ProgressEnds ==
  ASSUME TypeInv, ProgressInv,
         Ends(Merged(DOMAIN act), NextNodes(DOMAIN act, Merged(DOMAIN act)))
  PROVE  ProgressInv'
<1> DEFINE s == Merged(DOMAIN act)
           next == NextNodes(DOMAIN act, s)
<1>1. /\ Working /\ ~Over /\ cp' = cp /\ st' = s /\ s \in States
      /\ \A m \in DOMAIN act : act[m].pc = "done"
  BY DEF Ends, Working, Over
<1>2. Superstep(DOMAIN act)
  BY <1>1 DEF TypeInv
<1>3. /\ \A n \in DOMAIN act : DOMAIN act = {n} => s = act[n].out
      /\ DOMAIN act \in {Recalls, Filters} =>
           s.have = UNION {act[n].out.have : n \in DOMAIN act}
  <2>1. [st EXCEPT !.have = UNION {act[n].out.have : n \in DOMAIN act}].have
          = UNION {act[n].out.have : n \in DOMAIN act}
    BY DEF TypeInv, States
  <2> HIDE DEF s
  <2> QED
    BY <1>1, <2>1, MergedOutputs DEF s
<1>4. next = {} => DOMAIN act = {"interpret_result"}
  <2> HIDE DEF next, s
  <2>1. /\ ~Superstep({})
        /\ \A e \in Validated : ~Judged(e, s, {})
    BY NodesOfStep DEF Judged
  <2> QED
    BY <1>1, <1>2, <2>1, Routes DEF next, DataRoute
<1> HIDE DEF s, next
<1>5. st.have \subseteq s.have
  <2>1. ASSUME NEW n \in Nodes, DOMAIN act = {n} PROVE st.have \subseteq s.have
    BY <1>1, <1>3, <2>1 DEF ProgressInv
  <2>2. CASE DOMAIN act \in {Recalls, Filters}
    BY <1>1, <1>3, <2>2, NodesOfStep, <1>2 DEF ProgressInv
  <2> QED
    BY <1>2, <2>1, <2>2 DEF Superstep
<1>6. \A k \in Sequential : RecordedIn(k, cp.completed) => k \in s.have
  <2> SUFFICES ASSUME NEW k \in Sequential, RecordedIn(k, cp.completed),
                        k \notin st.have
               PROVE  k \in s.have
    BY <1>5
  <2>1. k \in DOMAIN act /\ k \in act[k].out.have
    BY <1>1 DEF ProgressInv
  <2> QED
    BY <1>1, <1>3, <2>1, SequentialAlone
<1>7. ASSUME act' = Fresh(next, s) PROVE ProgressInv'
  <2>1. \A m \in DOMAIN act' : act'[m].pc = "enter" /\ act'[m].out = s
    BY <1>7, FreshEffect
  <2> QED
    BY <1>1, <1>6, <2>1 DEF ProgressInv
<1>8. ASSUME next = {}, act' = act PROVE ProgressInv'
  <2>1. DOMAIN act = {"interpret_result"} /\ s = act["interpret_result"].out
    BY <1>3, <1>4, <1>8
  <2> QED
    BY <1>1, <1>6, <1>8, <2>1 DEF ProgressInv
<1>9. ASSUME run' = "unwinding" PROVE ProgressInv'
  BY <1>1, <1>9 DEF ProgressInv, Working
<1> QED
  BY <1>7, <1>8, <1>9 DEF Ends, s, next

(* Every kind of step keeps ProgressInv.                                    *)
LEMMA ProgressKept ==
  ASSUME TypeInv, OutcomeInv, ProgressInv, [Next]_vars
  PROVE  ProgressInv'
<1>1. ASSUME ~Working', cp' = cp \/ cp'.completed = {}
      PROVE  ProgressInv'
  BY <1>1, NothingRecorded DEF ProgressInv
<1>2. CASE Start
  <2>1. \A k \in Sequential : RecordedIn(k, cp'.completed) =>
          k \in cp'.snap.have
    BY <1>2, NothingRecorded DEF Start, Begin, NoRecord, ProgressInv
  <2>2. \A k \in Sequential : RecordedIn(k, cp'.completed) => k \in st'.have
    <3>1. CASE cp'.status = "RUNNING"
      BY <1>2, <2>1, <3>1 DEF Start, Restored, InitialState
    <3>2. CASE cp'.status # "RUNNING"
      <4>1. cp' = cp
        BY <1>2, <3>2 DEF Start, Begin, NoRecord
      <4> QED
        BY <3>2, <4>1, NoRunningNoKeys, NothingRecorded
    <3> QED BY <3>1, <3>2
  <2>3. \A m \in DOMAIN act' : act'[m].pc = "enter" /\ act'[m].out = st'
    BY <1>2, StartFresh
  <2> QED
    BY <2>1, <2>2, <2>3 DEF ProgressInv
<1>3. CASE SqlBody \/ \E n \in Nodes : DataBody(n)
  <2>1. CASE SqlBody
    <3>1. PICK n, s, rec : SqlReturn(n, s, rec)
      BY <2>1, SqlBodyKinds
    <3> QED
      BY <3>1, SqlKeepsHave, ProgressBody DEF SqlReturn
  <2>2. ASSUME NEW n \in Nodes, DataBody(n) PROVE ProgressInv'
    <3> DEFINE s == [st EXCEPT !.have = @ \cup {n}]
    <3>1. s.have = st.have \cup {n}
      BY DEF TypeInv, States
    <3>2. Bodied(n, s, n # "recall_value")
      BY <2>2, Returns DEF DataBody
    <3> HIDE DEF s
    <3> QED
      BY <3>1, <3>2, ProgressBody
  <2> QED
    BY <1>3, <2>1, <2>2
<1>4. CASE Halts
  BY <1>1, <1>4, NothingRecorded DEF Halts, Working
<1>5. ASSUME NEW n \in Nodes, NodeCancelled(n) PROVE ProgressInv'
  <2>1. ~Working
    BY <1>5 DEF NodeCancelled, OutcomeInv
  <2> QED
    BY <1>1, <1>5, <2>1, NothingRecorded DEF NodeCancelled, Working
<1>6. CASE QueryDone \/ Unwound
  BY <1>1, <1>6, NothingRecorded DEF QueryDone, Unwound, Working
<1>7. CASE TotalTimeout
  <2>1. cp' = cp \/ \A k : ~RecordedIn(k, cp'.completed)
    BY <1>7, NothingRecorded DEF TotalTimeout
  <2> QED
    BY <1>7, <2>1 DEF TotalTimeout, ProgressInv, Working
<1>8. CASE Crash \/ Expire
  <2>1. ~Working' /\ (cp' = cp \/ cp' = NoRecord)
    BY <1>8 DEF Crash, Expire, Working
  <2> QED
    BY <1>1, <2>1 DEF NoRecord
<1>9. CASE ReportCutShort \/ UNCHANGED vars
  BY <1>9 DEF ReportCutShort, vars, ProgressInv, Working
<1>10. CASE LeavesEarly
  BY <1>1, <1>10 DEF LeavesEarly, Begin, NoRecord, Working
<1> QED
  BY <1>2, <1>3, <1>4, <1>5, <1>6, <1>7, <1>8, <1>9, <1>10, StepKinds,
     ProgressGuard, ProgressEnds

(* ProgressInv holds in every reachable state.                              *)
LEMMA ProgressAlways == Spec => []ProgressInv
<1>1. Init => ProgressInv
  BY NothingRecorded DEF Init, ProgressInv, Working, NoRecord
<1> QED
  BY <1>1, ProgressKept, TypeInvariant, OutcomeAlways, PTL DEF Spec

(* A node without siblings that is recorded as completed has its update in  *)
(* the snapshot of the same record, wherever the crash was: skipping it on  *)
(* resume loses nothing.                                                    *)
THEOREM ProgressKeptOnResume == Spec => []SequentialProgressKept
<1>1. ProgressInv => SequentialProgressKept
  BY DEF ProgressInv, SequentialProgressKept, RecordedIn, Tries, Sequential,
     Parallel
<1> QED
  BY <1>1, ProgressAlways, PTL

-----------------------------------------------------------------------------
(* The nodes whose updates hold a key that no checkpoint may hold.          *)
Unrecorded == {"generate_sql", "correct_sql", "database_validate_sql"}

(* They are neither recorded nor about to be.                               *)
NeverRecorded ==
  \A n \in Unrecorded :
    /\ ~RecordedIn(n, cp.completed)
    /\ \A m \in DOMAIN act : ~RecordedIn(n, act[m].seen)
    /\ n \in DOMAIN act => ~act[n].rec

(* Every kind of step keeps NeverRecorded.                                  *)
LEMMA NeverRecordedKept ==
  ASSUME TypeInv, NeverRecorded, [Next]_vars
  PROVE  NeverRecorded'
<1> USE DEF NeverRecorded
<1>1. ASSUME cp' = cp \/ cp'.completed = {},
             DOMAIN act' = DOMAIN act,
             \A m \in DOMAIN act : act'[m].seen = act[m].seen
               /\ act'[m].rec = act[m].rec
      PROVE  NeverRecorded'
  BY <1>1, NothingRecorded
<1>2. ASSUME cp' = cp \/ cp'.completed = {},
             \A m \in DOMAIN act' : act'[m].seen = {} /\ act'[m].rec = FALSE
      PROVE  NeverRecorded'
  BY <1>2, NothingRecorded
<1>3. CASE Start
  BY <1>2, <1>3, StartFresh DEF Start, Begin, NoRecord
<1>4. ASSUME NEW n \in Nodes, Guarded(n) PROVE NeverRecorded'
  <2>1. \A k \in Unrecorded : ~RecordedIn(k, cp'.completed)
    BY <1>4 DEF Guarded, RunningRecord
  <2>2. \A k \in Unrecorded : ~RecordedIn(k, act'[n].seen)
    <3>1. CASE act[n].pc = "load"
      <4>1. \A k \in Unrecorded : act[n].rec => k # n
        BY <1>4 DEF Guarded
      <4> QED
        BY <1>4, <3>1, <4>1 DEF Guarded, RecordedIn, CompletionKey
    <3>2. CASE act[n].pc # "load"
      BY <1>4, <3>2 DEF Guarded
    <3> QED BY <3>1, <3>2
  <2> QED
    BY <1>4, <2>1, <2>2 DEF Guarded, Others
<1>5. ASSUME NEW n, NEW s, NEW rec, Bodied(n, s, rec), n \in Unrecorded => ~rec
      PROVE  NeverRecorded'
  BY <1>5 DEF Bodied, Others
<1>6. CASE SqlBody
  <2>1. PICK n, s, rec : SqlReturn(n, s, rec)
    BY <1>6, SqlBodyKinds
  <2>2. n \in Unrecorded => ~rec
    BY <2>1 DEF SqlReturn, Written, Checked, Executed, Told, Checks, Unrecorded
  <2> QED
    BY <1>5, <2>1, <2>2 DEF SqlReturn
<1>7. ASSUME NEW n \in Nodes, DataBody(n) PROVE NeverRecorded'
  <2>1. Bodied(n, [st EXCEPT !.have = @ \cup {n}], n # "recall_value")
    BY <1>7, Returns DEF DataBody
  <2>2. n \notin Unrecorded
    BY <1>7 DEF DataBody, DataNodes, Recalls, Filters, Unrecorded
  <2> QED
    BY <1>5, <2>1, <2>2
<1>8. CASE Halts
  BY <1>1, <1>8, NothingRecorded DEF Halts
<1>9. ASSUME NEW n \in Nodes, NodeCancelled(n) PROVE NeverRecorded'
  <2>1. act[n] \in Tasks
    BY <1>9 DEF NodeCancelled, TypeInv
  <2>2. Others(n) /\ act'[n] = [act[n] EXCEPT !.pc = "gone"]
    BY <1>9, Turned DEF NodeCancelled
  <2> QED
    BY <1>1, <1>9, <2>1, <2>2, NothingRecorded DEF NodeCancelled, Others, Tasks
<1>10. CASE Ends(Merged(DOMAIN act), NextNodes(DOMAIN act, Merged(DOMAIN act)))
  BY <1>1, <1>2, <1>10, FreshEffect DEF Ends
<1>11. CASE LeavesEarly \/ QueryDone \/ Unwound \/ Crash
  <2>1. cp' = cp \/ cp'.completed = {}
    BY <1>11, NothingRecorded
       DEF LeavesEarly, Begin, QueryDone, Unwound, Crash, NoRecord
  <2> QED
    BY <1>2, <1>11, <2>1, NothingLeft DEF LeavesEarly, QueryDone, Unwound, Crash
<1>12. CASE TotalTimeout \/ ReportCutShort \/ Expire \/ UNCHANGED vars
  <2>1. cp' = cp \/ cp'.completed = {}
    BY <1>12, NothingRecorded
       DEF TotalTimeout, ReportCutShort, Expire, vars, NoRecord
  <2> QED
    BY <1>1, <1>12, <2>1 DEF TotalTimeout, ReportCutShort, Expire, vars
<1> QED
  BY <1>3, <1>4, <1>6, <1>7, <1>8, <1>9, <1>10, <1>11, <1>12, StepKinds

-----------------------------------------------------------------------------
(* The place of a node after SQL was written.                               *)
Rank(n) == CASE n = "security_validate_sql" -> 1
             [] n = "database_validate_sql" -> 2
             [] n = "evaluate_sql_cost" -> 3
             [] n = "execute_sql" -> 4
             [] n = "summarize_result" -> 5
             [] n = "interpret_result" -> 6
             [] OTHER -> 0

(* The values of Rank.                                                      *)
LEMMA Ranks ==
  /\ \A n : Rank(n) \in 0..6
  /\ Rank("security_validate_sql") = 1 /\ Rank("database_validate_sql") = 2
  /\ Rank("evaluate_sql_cost") = 3 /\ Rank("execute_sql") = 4
  /\ Rank("summarize_result") = 5 /\ Rank("interpret_result") = 6
  /\ \A n \in DataNodes \cup {"generate_sql", "correct_sql"} : Rank(n) = 0
  /\ \A n : Rank(n) > 0 => n \in {"security_validate_sql",
       "database_validate_sql",
         "evaluate_sql_cost", "execute_sql", "summarize_result",
           "interpret_result"}
BY DEF Rank, DataNodes, Recalls, Filters

(* Where a node is once its body has returned.                              *)
Returned == {"load", "commit", "done"}

(* The state is about the newest SQL text.                                  *)
Newest(s) == s.sql = sqlCount /\ s.norm \in {0, sqlCount}

(* From the first validator on, the state and every update are about the    *)
(* newest SQL text; before it there is no normalised text; only correct_sql *)
(* counts a retry.                                                          *)
TextInv ==
  Working => \A m \in DOMAIN act :
    LET out == act[m].out IN
    /\ Rank(m) > 0 => Newest(st) /\ Newest(out)
    /\ m \in DataNodes \cup {"generate_sql"} => st.norm = 0
    /\ m \in DataNodes => out.norm = 0
    /\ m \in {"generate_sql", "correct_sql"} /\ act[m].pc \in Returned =>
         Newest(out)
    /\ out.retry = IF m = "correct_sql" /\ act[m].pc \in Returned
                   THEN st.retry + 1 ELSE st.retry

(* The guard never skips a node whose update is never recorded.             *)
LEMMA NotSkipped ==
  ASSUME TypeInv, NeverRecorded, NEW n \in Nodes, Guarded(n), n \in Unrecorded
  PROVE  ~(act[n].pc = "enter" /\ act'[n].pc = "done")
<1>1. st.retry \in Tries
  BY DEF TypeInv, States
<1> QED
  BY <1>1 DEF Guarded, CompletionKey, NeverRecorded, RecordedIn

(* A SQL node is alone in its superstep.                                    *)
LEMMA SequentialSql ==
  ASSUME TypeInv, ~Over, NEW n \in DOMAIN act, n \notin DataNodes
  PROVE  DOMAIN act = {n}
BY AloneInStep DEF TypeInv, DataNodes, Parallel

(* The guard keeps TextInv.                                                 *)
LEMMA TextGuard ==
  ASSUME TypeInv, NeverRecorded, TextInv, NEW n \in Nodes, Guarded(n)
  PROVE  TextInv'
<1>1. /\ Working /\ Working' /\ st' = st /\ sqlCount' = sqlCount
           /\ DOMAIN act' = DOMAIN act
      /\ \A m \in DOMAIN act : act'[m].out = act[m].out
  BY DEF Guarded, Others, Working
<1>2. \A m \in DOMAIN act : m \in {"generate_sql", "correct_sql"} =>
         (act'[m].pc \in Returned <=> act[m].pc \in Returned)
  BY NotSkipped DEF Guarded, Others, Returned, Unrecorded
<1> QED
  BY <1>1, <1>2 DEF TextInv, Newest

(* The body of a data node keeps TextInv.                                   *)
LEMMA TextData ==
  ASSUME TypeInv, TextInv, NEW n \in Nodes, DataBody(n)
  PROVE  TextInv'
<1> DEFINE s == [st EXCEPT !.have = @ \cup {n}]
<1>1. s.norm = st.norm /\ s.retry = st.retry
  BY DEF TypeInv, States
<1>2. Bodied(n, s, n # "recall_value") /\ n \in DataNodes
        /\ sqlCount' = sqlCount
  BY Returns DEF DataBody
<1> HIDE DEF s
<1>3. /\ Working /\ Working' /\ st' = st /\ DOMAIN act' = DOMAIN act
      /\ act'[n].out = s /\ act'[n].pc = "load" /\ n \in DOMAIN act
      /\ \A m \in DOMAIN act : m # n => act'[m] = act[m]
  BY <1>2 DEF Bodied, Others, Working
<1>4. n \notin {"generate_sql", "correct_sql"} /\ Rank(n) = 0
  BY <1>2, Ranks DEF DataNodes, Recalls, Filters
<1> QED
  BY <1>1, <1>2, <1>3, <1>4 DEF TextInv, Newest

(* The body of a SQL node keeps TextInv.                                    *)
LEMMA TextSql ==
  ASSUME TypeInv, TextInv, NEW n, NEW s, NEW rec, SqlReturn(n, s, rec)
  PROVE  TextInv'
<1>1. n \in DOMAIN act /\ n \notin DataNodes /\ ~Over /\ Working
  BY SqlKeepsHave DEF SqlReturn, Bodied, Over, Working
<1>2. DOMAIN act = {n}
  BY <1>1, SequentialSql
<1>3. /\ DOMAIN act' = {n} /\ st' = st /\ act'[n].out = s
           /\ act'[n].pc = "load"
      /\ act[n].pc = "body"
  BY <1>2 DEF SqlReturn, Bodied, Others
<1>4. CASE Written(n, s, rec)
  <2>1. Rank(n) = 0 /\ sqlCount' = s.sql
    BY <1>4, Ranks DEF Written
  <2>2. s.norm = 0
          /\ s.retry = (IF n = "correct_sql" THEN st.retry + 1 ELSE st.retry)
    BY <1>1, <1>4 DEF Written, TextInv
  <2>3. n = "generate_sql" => st.norm = 0
    BY <1>1 DEF TextInv
  <2> QED
    BY <1>1, <1>3, <2>1, <2>2, <2>3 DEF TextInv, Newest, Returned
<1>5. CASE Checked(n, s, rec) \/ Executed(n, s) \/ Told(n, s)
  <2>1. /\ Rank(n) > 0 /\ n \notin {"generate_sql", "correct_sql"}
        /\ sqlCount' = sqlCount /\ s.sql = st.sql /\ s.retry = st.retry
        /\ s.norm \in {st.sql, st.norm}
    BY <1>5, Ranks DEF Checked, Executed, Told, Checks
  <2>2. Newest(st)
    BY <1>1, <2>1 DEF TextInv
  <2> QED
    BY <1>1, <1>3, <2>1, <2>2 DEF TextInv, Newest
<1> QED
  BY <1>4, <1>5 DEF SqlReturn

(* The end of a superstep keeps TextInv.                                    *)
LEMMA TextEnds ==
  ASSUME TypeInv, TextInv,
         Ends(Merged(DOMAIN act), NextNodes(DOMAIN act, Merged(DOMAIN act)))
  PROVE  TextInv'
<1> DEFINE s == Merged(DOMAIN act)
           next == NextNodes(DOMAIN act, s)
<1>1. EndOf(s, next)
  BY EndKinds
<1>2. /\ Working /\ st' = s /\ sqlCount' = sqlCount
      /\ \A m \in DOMAIN act : act[m].pc = "done"
  BY DEF Ends, Working
<1> HIDE DEF s, next
<1>3. ASSUME act' = Fresh(next, s),
             \A m \in next : /\ Rank(m) > 0 => Newest(s)
                             /\ m \in DataNodes \cup {"generate_sql"} =>
                                  s.norm = 0
      PROVE  TextInv'
  <2>1. DOMAIN act' = next /\ \A m \in DOMAIN act' : act'[m].pc = "enter"
          /\ act'[m].out = s
    BY <1>3, FreshEffect
  <2> QED
    BY <1>2, <1>3, <2>1 DEF TextInv, Newest, Returned
<1>4. CASE run' = "unwinding"
  BY <1>4 DEF TextInv, Working
<1>5. ASSUME act' = Fresh(next, s), DOMAIN act \subseteq DataNodes,
             next \subseteq DataNodes \cup {"generate_sql"},
             \/ s.norm = st.norm /\ s.retry = st.retry
             \/ \E m \in DOMAIN act : s = act[m].out,
             DOMAIN act # {}
      PROVE  TextInv'
  <2>1. s.norm = 0
    BY <1>2, <1>5 DEF TextInv
  <2> QED
    BY <1>3, <1>5, <2>1, Ranks
<1>6. ASSUME NEW m \in DOMAIN act, s = act[m].out, act' = Fresh(next, s),
             \/ m \in {"generate_sql", "correct_sql"}
             \/ Rank(m) > 0,
             \A k \in next : k \notin DataNodes \cup {"generate_sql"}
      PROVE  TextInv'
  <2>1. Newest(s)
    BY <1>2, <1>6 DEF TextInv, Returned
  <2> QED
    BY <1>3, <1>6, <2>1
<1>7. ASSUME NEW m \in DOMAIN act, DOMAIN act = {m}, s = act[m].out,
               act' = Fresh(next, s),
             \/ m \in {"generate_sql", "correct_sql"}
                  /\ next = {"security_validate_sql"}
             \/ \E e \in Validated : /\ m = e[1]
                                     /\ \/ s.err = "none" /\ next = {e[2]}
                                        \/ next = {"correct_sql"}
             \/ m = "summarize_result" /\ next = {"interpret_result"}
      PROVE  TextInv'
  <2>1. \/ m \in {"generate_sql", "correct_sql"}
        \/ Rank(m) > 0
    BY <1>7, Ranks DEF Validated
  <2>2. \A k \in next : k \notin DataNodes \cup {"generate_sql"}
    BY <1>7 DEF Validated, DataNodes, Recalls, Filters
  <2> QED
    BY <1>6, <1>7, <2>1, <2>2
<1>8. ASSUME act' = act, DOMAIN act = {"interpret_result"},
               s = act["interpret_result"].out
      PROVE  TextInv'
  <2>1. Rank("interpret_result") > 0
          /\ "interpret_result" \notin DataNodes \cup {"generate_sql"}
    BY Ranks DEF DataNodes, Recalls, Filters
  <2> QED
    BY <1>2, <1>8, <2>1 DEF TextInv, Newest
<1>9. DOMAIN act # {}
  BY NodesOfStep DEF Ends, TypeInv, Over
<1> QED
  BY <1>1, <1>4, <1>5, <1>7, <1>8, <1>9 DEF EndOf

(* Every kind of step keeps TextInv.                                        *)
LEMMA TextKept ==
  ASSUME TypeInv, OutcomeInv, NeverRecorded, TextInv, [Next]_vars
  PROVE  TextInv'
<1>1. CASE Start
  <2>1. /\ DOMAIN act' = {"extract_keywords"}
        /\ \A m \in DOMAIN act' : act'[m].pc = "enter" /\ act'[m].out = st'
    BY <1>1, StartFresh
  <2>2. st'.norm = 0
    BY <1>1 DEF Start, Restored, InitialState
  <2>3. "extract_keywords" \notin {"generate_sql", "correct_sql"}
          /\ Rank("extract_keywords") = 0
    BY Ranks DEF DataNodes
  <2> QED
    BY <2>1, <2>2, <2>3 DEF TextInv
<1>2. CASE SqlBody
  BY <1>2, SqlBodyKinds, TextSql
<1>3. ASSUME NEW n \in Nodes, NodeCancelled(n) PROVE TextInv'
  BY <1>3 DEF NodeCancelled, OutcomeInv, TextInv, Working
<1>4. CASE LeavesEarly \/ Halts \/ QueryDone \/ Unwound \/ Crash
  BY <1>4 DEF LeavesEarly, Halts, QueryDone, Unwound, Crash, TextInv, Working
<1>5. CASE TotalTimeout \/ ReportCutShort \/ Expire \/ UNCHANGED vars
  BY <1>5
     DEF TotalTimeout, ReportCutShort, Expire, vars, TextInv, Working, Newest
<1> QED
  BY <1>1, <1>2, <1>3, <1>4, <1>5, StepKinds, TextGuard, TextData, TextEnds

-----------------------------------------------------------------------------
(* The attempt is not a resume.                                             *)
NewExecution == startedOn # "RUNNING"

(* Keys are of tries up to this one; those of this try are of nodes that it *)
(* is past, or of the node that is being recorded.                          *)
Behind(keys) ==
  \A k \in keys :
    /\ k[2] <= st.retry
    /\ Rank(k[1]) > 0 /\ k[2] = st.retry =>
         \E m \in DOMAIN act :
           \/ m = "correct_sql"
           \/ Rank(k[1]) < Rank(m)
           \/ k[1] = m /\ act[m].pc \in {"commit", "done"}

(* In a new execution, recorded keys, and those a guard holds, are behind   *)
(* the graph: the keys of a try are written by that try.                    *)
KeysInv ==
  NewExecution /\ Working =>
    Behind(cp.completed) /\ \A m \in DOMAIN act : Behind(act[m].seen)

(* Keys stay behind while the superstep goes on.                            *)
LEMMA BehindKept ==
  ASSUME st' = st, DOMAIN act' = DOMAIN act,
         \A m \in DOMAIN act : act[m].pc \in {"commit", "done"} =>
           act'[m].pc \in {"commit", "done"},
         NEW keys, Behind(keys)
  PROVE  Behind(keys)'
BY DEF Behind

(* The guard keeps KeysInv.                                                 *)
LEMMA KeysGuard ==
  ASSUME TypeInv, NeverRecorded, TextInv, KeysInv, NewExecution, Working,
    NEW n \in Nodes, Guarded(n)
  PROVE  KeysInv'
<1>1. /\ st' = st /\ DOMAIN act' = DOMAIN act /\ n \in DOMAIN act
           /\ startedOn' = startedOn
      /\ \A m \in DOMAIN act : m # n => act'[m] = act[m]
      /\ \A m \in DOMAIN act : act[m].pc \in {"commit", "done"} =>
           act'[m].pc \in {"commit", "done"}
  BY DEF Guarded, Others
<1>2. ASSUME NEW keys, Behind(keys) PROVE Behind(keys)'
  BY <1>1, <1>2, BehindKept
<1>3. Behind(cp.completed) /\ \A m \in DOMAIN act : Behind(act[m].seen)
  BY DEF KeysInv
<1>4. CASE act[n].pc # "load"
  <2>1. cp'.completed \in {cp.completed, act[n].seen}
          /\ act'[n].seen \in {act[n].seen, cp.completed}
    BY <1>4 DEF Guarded, RunningRecord
  <2>2. Behind(cp'.completed)
    BY <1>1, <1>3, <2>1
  <2>3. \A m \in DOMAIN act : Behind(act'[m].seen)
    BY <1>1, <1>3, <2>1
  <2>4. Behind(cp.completed)' /\ \A m \in DOMAIN act' : Behind(act[m].seen)'
    BY <1>1, <2>2, <2>3 DEF Behind
  <2> QED
    BY <2>4 DEF KeysInv
<1>5. CASE act[n].pc = "load"
  <2> DEFINE key == CompletionKey(n, act[n].out)
  <2>1. act[n].rec => n # "correct_sql"
    BY <1>1 DEF NeverRecorded, Unrecorded
  <2>2. act[n].rec => act[n].out.retry = st.retry
    BY <1>1, <2>1 DEF TextInv
  <2>3. /\ act'[n].seen = cp.completed \cup (IF act[n].rec THEN {key} ELSE {})
        /\ cp' = cp /\ act'[n].pc = "commit"
    BY <1>5 DEF Guarded
  <2>4. act[n].rec => key[1] = n /\ key[2] = st.retry
    BY <2>2 DEF CompletionKey
  <2>5. st.retry <= st.retry
    BY MaxRetriesAssumption DEF TypeInv, States, Tries
  <2> HIDE DEF key
  <2>6. \A k \in act'[n].seen :
          /\ k[2] <= st.retry
          /\ Rank(k[1]) > 0 /\ k[2] = st.retry =>
               \E m \in DOMAIN act :
                 \/ m = "correct_sql"
                 \/ Rank(k[1]) < Rank(m)
                 \/ k[1] = m /\ act'[m].pc \in {"commit", "done"}
    BY <1>1, <1>3, <2>3, <2>4, <2>5 DEF Behind
  <2>7. \A m \in DOMAIN act : m # n => Behind(act'[m].seen)
    BY <1>1, <1>3
  <2>8. \A m \in DOMAIN act' : Behind(act[m].seen)'
    BY <1>1, <2>6, <2>7 DEF Behind
  <2>9. Behind(cp.completed)'
    BY <1>2, <1>3, <2>3 DEF Behind
  <2> QED
    BY <2>8, <2>9 DEF KeysInv
<1> QED
  BY <1>4, <1>5

(* A body keeps KeysInv.                                                    *)
LEMMA KeysBody ==
  ASSUME TypeInv, KeysInv, NEW n, NEW s, NEW rec, Bodied(n, s, rec)
  PROVE  KeysInv'
<1>1. /\ st' = st /\ DOMAIN act' = DOMAIN act /\ startedOn' = startedOn
           /\ cp' = cp
      /\ Working /\ Working'
      /\ \A m \in DOMAIN act : /\ act'[m].seen = act[m].seen
                               /\ act[m].pc \in {"commit", "done"} =>
                                    act'[m].pc \in {"commit", "done"}
  BY DEF Bodied, Others, Working
<1> QED
  BY <1>1 DEF KeysInv, NewExecution, Behind

(* The end of a superstep keeps KeysInv: the graph goes forward, or to      *)
(* correct_sql, which begins a new try.                                     *)
LEMMA KeysEnds ==
  ASSUME TypeInv, TextInv, KeysInv, NewExecution,
         Ends(Merged(DOMAIN act), NextNodes(DOMAIN act, Merged(DOMAIN act)))
  PROVE  KeysInv'
<1> DEFINE s == Merged(DOMAIN act)
           next == NextNodes(DOMAIN act, s)
<1>1. EndOf(s, next)
  BY EndKinds
<1>2. /\ Working /\ st' = s /\ cp' = cp /\ startedOn' = startedOn
      /\ \A m \in DOMAIN act : act[m].pc = "done"
      /\ Behind(cp.completed) /\ \A m \in DOMAIN act : Behind(act[m].seen)
  BY DEF Ends, Working, KeysInv
<1> HIDE DEF s, next
<1>3. CASE run' = "unwinding"
  BY <1>3 DEF KeysInv, Working
<1>4. ASSUME act' = Fresh(next, s), \A k \in cp.completed :
                /\ k[2] <= s.retry
                /\ Rank(k[1]) > 0 /\ k[2] = s.retry =>
                     \E m \in next : m = "correct_sql" \/ Rank(k[1]) < Rank(m)
      PROVE  KeysInv'
  <2>1. DOMAIN act' = next /\ \A m \in DOMAIN act' : act'[m].seen = {}
    BY <1>4, FreshEffect
  <2> QED
    BY <1>2, <1>4, <2>1 DEF KeysInv, Behind
<1>5. ASSUME act' = Fresh(next, s), DOMAIN act \subseteq DataNodes,
             \/ s.norm = st.norm /\ s.retry = st.retry
             \/ \E m \in DOMAIN act : s = act[m].out
      PROVE  KeysInv'
  <2>1. s.retry = st.retry
    BY <1>2, <1>5 DEF TextInv, DataNodes, Recalls, Filters
  <2>2. \A m \in DOMAIN act : Rank(m) = 0 /\ m # "correct_sql"
    BY <1>5, Ranks DEF DataNodes, Recalls, Filters
  <2>3. \A k \in cp.completed : k[2] <= st.retry /\ ~(Rank(k[1]) > 0
          /\ k[2] = st.retry)
    BY <1>2, <2>2, Ranks DEF Behind
  <2> QED
    BY <1>4, <1>5, <2>1, <2>3
<1>6. ASSUME NEW m \in DOMAIN act, DOMAIN act = {m}, s = act[m].out,
               act' = Fresh(next, s),
             \/ m \in {"generate_sql", "correct_sql"}
                  /\ next = {"security_validate_sql"}
             \/ \E e \in Validated : /\ m = e[1]
                                     /\ \/ s.err = "none" /\ next = {e[2]}
                                        \/ next = {"correct_sql"}
             \/ m = "summarize_result" /\ next = {"interpret_result"}
      PROVE  KeysInv'
  <2>1. st.retry \in Nat /\ \A k \in cp.completed : k[2] \in Nat
    BY MaxRetriesAssumption DEF TypeInv, States, Tries, Records, Keys
  <2>2. CASE m = "correct_sql"
    <3>1. s.retry = st.retry + 1
      BY <1>2, <1>6, <2>2 DEF TextInv, Returned
    <3>2. \A k \in cp.completed : k[2] <= st.retry
      BY <1>2 DEF Behind
    <3> QED
      BY <1>4, <1>6, <2>1, <3>1, <3>2
  <2>3. CASE m # "correct_sql"
    <3>1. s.retry = st.retry
      BY <1>2, <1>6, <2>3 DEF TextInv
    <3>2. \A k \in cp.completed : /\ k[2] <= st.retry
                                  /\ Rank(k[1]) > 0 /\ k[2] = st.retry =>
                                       Rank(k[1]) <= Rank(m)
      BY <1>2, <1>6, <2>3, Ranks DEF Behind
    <3>3. \/ m = "generate_sql" /\ Rank(m) = 0
          \/ \E j \in next : j = "correct_sql" \/ Rank(m) < Rank(j)
      BY <1>6, <2>3, Ranks DEF Validated
    <3>4. ASSUME NEW k \in cp.completed, Rank(k[1]) > 0, k[2] = st.retry
          PROVE  \E j \in next : j = "correct_sql" \/ Rank(k[1]) < Rank(j)
      <4>1. Rank(k[1]) <= Rank(m) /\ Rank(k[1]) \in 0..6 /\ Rank(m) \in 0..6
        BY <3>2, <3>4, Ranks
      <4>2. \A j : Rank(j) \in 0..6
        BY Ranks
      <4> QED
        BY <3>3, <3>4, <4>1, <4>2
    <3> QED
      BY <1>4, <1>6, <3>1, <3>2, <3>4
  <2> QED
    BY <2>2, <2>3
<1>7. ASSUME act' = act, DOMAIN act = {"interpret_result"},
               s = act["interpret_result"].out
      PROVE  KeysInv'
  <2>1. s.retry = st.retry
    BY <1>2, <1>7 DEF TextInv
  <2> QED
    BY <1>2, <1>7, <2>1 DEF KeysInv, Behind
<1> QED
  BY <1>1, <1>3, <1>5, <1>6, <1>7 DEF EndOf

(* Every kind of step keeps KeysInv.                                        *)
LEMMA KeysKept ==
  ASSUME TypeInv, OutcomeInv, NeverRecorded, TextInv, KeysInv, [Next]_vars
  PROVE  KeysInv'
<1>0. \A keys : keys = {} => Behind(keys)
  BY DEF Behind
<1>1. CASE Start
  <2>1. \A m \in DOMAIN act' : act'[m].seen = {}
    BY <1>1, StartFresh
  <2>2. NewExecution' => cp'.completed = {}
    <3>1. ASSUME cp.status # "RUNNING" PROVE cp'.completed = {}
      BY <1>1, <3>1, NoRunningNoKeys DEF Start, Begin, NoRecord
    <3> QED
      BY <1>1, <3>1 DEF Start, Begin, NewExecution
  <2> QED
    BY <2>1, <2>2 DEF KeysInv, Behind
<1>2. ~Start /\ ~LeavesEarly => startedOn' = startedOn
  BY OneStartPerAttempt
<1>3. ASSUME NEW n \in Nodes, Guarded(n) PROVE KeysInv'
  BY <1>3, KeysGuard DEF Guarded, KeysInv, Working, NewExecution
<1>4. CASE SqlBody
  BY <1>4, SqlBodyKinds, KeysBody DEF SqlReturn
<1>5. ASSUME NEW n \in Nodes, DataBody(n) PROVE KeysInv'
  BY <1>5, Returns, KeysBody DEF DataBody
<1>6. ASSUME NEW n \in Nodes, NodeCancelled(n) PROVE KeysInv'
  BY <1>6 DEF NodeCancelled, OutcomeInv, KeysInv, Working
<1>7. CASE LeavesEarly \/ Halts \/ QueryDone \/ Unwound \/ Crash
  BY <1>7 DEF LeavesEarly, Halts, QueryDone, Unwound, Crash, KeysInv, Working
<1>8. CASE TotalTimeout
  <2>1. Behind(cp.completed) => Behind(cp'.completed)
    BY <1>0, <1>8, NothingRecorded DEF TotalTimeout
  <2>2. UNCHANGED <<st, act, startedOn>> /\ Working
    BY <1>8 DEF TotalTimeout, Working
  <2> QED
    BY <2>1, <2>2 DEF KeysInv, NewExecution, Behind
<1>9. CASE ReportCutShort \/ Expire \/ UNCHANGED vars
  BY <1>9
     DEF ReportCutShort, Expire, vars, KeysInv, NewExecution, Working, Behind
<1>10. CASE Ends(Merged(DOMAIN act), NextNodes(DOMAIN act, Merged(DOMAIN act)))
  BY <1>10, KeysEnds DEF KeysInv, NewExecution, Ends
<1> QED
  BY <1>1, <1>3, <1>4, <1>5, <1>6, <1>7, <1>8, <1>9, <1>10, StepKinds

-----------------------------------------------------------------------------
(* The validators that the executed SQL must have passed.                   *)
Demanded == IF NewExecution THEN Validators ELSE {"database"}

Place(v) == CASE v = "security" -> 1 [] v = "database" -> 2 [] v = "cost" -> 3

(* The validators that come before a node, and those up to it.              *)
Earlier(m) == {v \in Validators : Place(v) < Rank(m)}

Upto(m) == {v \in Validators : Place(v) <= Rank(m)}

(* A node is reached only when the newest text has passed the demanded      *)
(* validators before it, and leaves without error only with its own passed  *)
(* too.                                                                     *)
PassedInv ==
  /\ missing \cap Demanded = {}
  /\ Working => \A m \in DOMAIN act :
       /\ Demanded \cap Earlier(m) \subseteq passed
       /\ act[m].pc \in Returned /\ act[m].out.err = "none" =>
            Demanded \cap Upto(m) \subseteq passed

(* The values of Earlier and Upto.                                          *)
LEMMA Places ==
  /\ \A m : Rank(m) = 0 => Earlier(m) = {} /\ Upto(m) = {}
  /\ \A m : Rank(m) > 3 => Earlier(m) = Validators /\ Upto(m) = Validators
  /\ Earlier("security_validate_sql") = {}
  /\ Upto("security_validate_sql") = {"security"}
  /\ Earlier("database_validate_sql") = {"security"}
  /\ Upto("database_validate_sql") = {"security", "database"}
  /\ Earlier("evaluate_sql_cost") = {"security", "database"}
  /\ Upto("evaluate_sql_cost") = Validators
<1>1. Place("security") = 1 /\ Place("database") = 2 /\ Place("cost") = 3
  BY DEF Place
<1>2. \A m : Rank(m) \in Int
  BY Ranks
<1> QED
  BY <1>1, <1>2, Ranks DEF Earlier, Upto, Validators

(* In a new execution the guard skips no node after SQL was written.        *)
LEMMA RankedNotSkipped ==
  ASSUME TypeInv, KeysInv, NewExecution, NEW n \in Nodes, Guarded(n),
    Rank(n) > 0
  PROVE  ~(act[n].pc = "enter" /\ act'[n].pc = "done")
<1> SUFFICES ASSUME act[n].pc = "enter", act'[n].pc = "done" PROVE FALSE
  OBVIOUS
<1>1. <<n, st.retry>> \in cp.completed /\ Working /\ ~Over /\ n \in DOMAIN act
  BY DEF Guarded, CompletionKey, Working, Over
<1>2. n \notin DataNodes \cup {"correct_sql"} /\ Rank(n) \in 0..6
  BY Ranks
<1>3. DOMAIN act = {n}
  BY <1>1, <1>2, SequentialSql
<1>4. Behind(cp.completed)
  BY <1>1 DEF KeysInv
<1>5. \E m \in DOMAIN act : \/ m = "correct_sql" \/ Rank(n) < Rank(m)
                            \/ n = m /\ act[m].pc \in {"commit", "done"}
  BY <1>1, <1>4 DEF Behind
<1> QED
  BY <1>2, <1>3, <1>5

(* What is demanded depends on how the attempt began.                       *)
LEMMA DemandedSame ==
  ASSUME startedOn' = startedOn
  PROVE  Demanded' = Demanded /\ (NewExecution' <=> NewExecution)
BY DEF Demanded, NewExecution

(* The guard keeps PassedInv: a demanded validator is not skipped.          *)
LEMMA PassedGuard ==
  ASSUME TypeInv, NeverRecorded, KeysInv, PassedInv, NEW n \in Nodes,
    Guarded(n)
  PROVE  PassedInv'
<1>1. /\ DOMAIN act' = DOMAIN act /\ n \in DOMAIN act /\ Working
           /\ Demanded' = Demanded
      /\ passed' = passed /\ missing' = missing /\ act'[n].out = act[n].out
      /\ \A m \in DOMAIN act : m # n => act'[m] = act[m]
  BY DemandedSame DEF Guarded, Others, Working
<1>2. ASSUME act'[n].pc \in Returned, act[n].pc \notin Returned
      PROVE  Demanded \cap Upto(n) \subseteq passed
  <2>1. act[n].pc = "enter" /\ act'[n].pc = "done"
    BY <1>2 DEF Guarded, Returned
  <2>2. Demanded \cap Earlier(n) \subseteq passed
    BY <1>1 DEF PassedInv
  <2>3. CASE NewExecution
    <3>1. Rank(n) = 0
      BY <2>1, <2>3, RankedNotSkipped, Ranks
    <3> QED
      BY <3>1, Places
  <2>4. CASE ~NewExecution
    <3>1. n # "database_validate_sql" /\ Demanded = {"database"}
      BY <2>1, <2>4, NotSkipped DEF Unrecorded, Demanded
    <3>2. CASE Rank(n) = 0
      BY <3>2, Places
    <3>3. CASE Rank(n) > 3
      BY <2>2, <3>3, Places
    <3>4. CASE n = "security_validate_sql"
      BY <3>1, <3>4, Places
    <3>5. CASE n = "evaluate_sql_cost"
      BY <2>2, <3>1, <3>5, Places
    <3> QED
      BY <3>1, <3>2, <3>3, <3>4, <3>5, Ranks
  <2> QED
    BY <2>3, <2>4
<1> QED
  BY <1>1, <1>2 DEF PassedInv

(* The body of a data node keeps PassedInv.                                 *)
LEMMA PassedData ==
  ASSUME TypeInv, PassedInv, NEW n \in Nodes, DataBody(n)
  PROVE  PassedInv'
<1>1. /\ Bodied(n, [st EXCEPT !.have = @ \cup {n}], n # "recall_value")
      /\ n \in DataNodes
      /\ passed' = passed /\ missing' = missing
  BY Returns DEF DataBody
<1>2. /\ DOMAIN act' = DOMAIN act /\ Demanded' = Demanded /\ Working
      /\ \A m \in DOMAIN act : m # n => act'[m] = act[m]
  BY <1>1, DemandedSame DEF Bodied, Others, Working
<1>3. Upto(n) = {}
  BY <1>1, Ranks, Places
<1> QED
  BY <1>1, <1>2, <1>3 DEF PassedInv

(* The body of a SQL node keeps PassedInv.                                  *)
LEMMA PassedSql ==
  ASSUME TypeInv, TextInv, PassedInv, NEW n, NEW s, NEW rec, SqlReturn(n, s,
    rec)
  PROVE  PassedInv'
<1>1. n \in DOMAIN act /\ n \notin DataNodes /\ ~Over /\ Working
  BY SqlKeepsHave DEF SqlReturn, Bodied, Over, Working
<1>2. DOMAIN act = {n}
  BY <1>1, SequentialSql
<1>3. /\ DOMAIN act' = {n} /\ act'[n].out = s /\ act'[n].pc = "load"
           /\ Demanded' = Demanded
      /\ Demanded \cap Earlier(n) \subseteq passed
      /\ Demanded \subseteq Validators
  BY <1>1, <1>2, DemandedSame
     DEF SqlReturn, Bodied, Others, PassedInv, Demanded, Validators
<1>4. ASSUME missing' \cap Demanded = {},
             Demanded \cap Earlier(n) \subseteq passed',
             s.err = "none" => Demanded \cap Upto(n) \subseteq passed'
      PROVE  PassedInv'
  BY <1>3, <1>4 DEF PassedInv
<1>5. CASE Written(n, s, rec)
  <2>1. Earlier(n) = {} /\ Upto(n) = {}
    BY <1>5, Ranks, Places DEF Written
  <2> QED
    BY <1>4, <1>5, <2>1 DEF Written, PassedInv
<1>6. CASE Checked(n, s, rec)
  <2>1. Rank(n) > 0
    BY <1>6, Ranks DEF Checked, Checks
  <2>2. Newest(st)
    BY <1>1, <2>1 DEF TextInv
  <2>3. CurrentSql(s) = sqlCount \/ s.err # "none"
    BY <1>6, <2>2 DEF Checked, CurrentSql, Newest
  <2>4. ASSUME s.err = "none"
        PROVE  Demanded \cap Upto(n) \subseteq passed'
    <3>1. PICK v \in Validators : <<n, v>> \in Checks
            /\ passed' = passed \cup {v}
      BY <1>6, <2>3, <2>4 DEF Checked
    <3>2. Upto(n) = Earlier(n) \cup {v}
      BY <3>1, Places DEF Checks, Validators
    <3> QED
      BY <1>3, <3>1, <3>2
  <2>5. passed \subseteq passed'
    BY <1>6 DEF Checked
  <2> QED
    BY <1>3, <1>4, <1>6, <2>4, <2>5 DEF Checked, PassedInv
<1>7. CASE Executed(n, s)
  <2>1. Rank(n) > 3 /\ Rank(n) > 0
    BY <1>7, Ranks DEF Executed
  <2>2. Newest(st) /\ Earlier(n) = Validators /\ Upto(n) = Validators
    BY <1>1, <2>1, Places DEF TextInv
  <2>3. CurrentSql(st) = sqlCount
    BY <2>2 DEF CurrentSql, Newest
  <2>4. missing' = missing \cup (Validators \ passed) /\ passed' = passed
    BY <1>7, <2>3 DEF Executed
  <2> QED
    BY <1>3, <1>4, <2>2, <2>4 DEF PassedInv
<1>8. CASE Told(n, s)
  <2>1. Rank(n) > 3
    BY <1>8, Ranks DEF Told
  <2> QED
    BY <1>3, <1>4, <1>8, <2>1, Places DEF Told, PassedInv
<1> QED
  BY <1>5, <1>6, <1>7, <1>8 DEF SqlReturn

(* The end of a superstep keeps PassedInv.                                  *)
LEMMA PassedEnds ==
  ASSUME TypeInv, PassedInv,
         Ends(Merged(DOMAIN act), NextNodes(DOMAIN act, Merged(DOMAIN act)))
  PROVE  PassedInv'
<1> DEFINE s == Merged(DOMAIN act)
           next == NextNodes(DOMAIN act, s)
<1>1. EndOf(s, next)
  BY EndKinds
<1>2. /\ Working /\ passed' = passed /\ missing' = missing
           /\ Demanded' = Demanded
      /\ \A m \in DOMAIN act : act[m].pc = "done"
  BY DemandedSame DEF Ends, Working
<1> HIDE DEF s, next
<1>3. ASSUME act' = Fresh(next, s),
             \A m \in next : Demanded \cap Earlier(m) \subseteq passed
      PROVE  PassedInv'
  <2>1. DOMAIN act' = next /\ \A m \in DOMAIN act' : act'[m].pc = "enter"
    BY <1>3, FreshEffect
  <2> QED
    BY <1>2, <1>3, <2>1 DEF PassedInv, Returned
<1>4. CASE run' = "unwinding"
  BY <1>2, <1>4 DEF PassedInv, Working
<1>5. ASSUME act' = Fresh(next, s),
               next \subseteq DataNodes \cup {"generate_sql"}
      PROVE  PassedInv'
  <2>1. \A m \in next : Earlier(m) = {}
    BY <1>5, Ranks, Places
  <2> QED
    BY <1>3, <1>5, <2>1
<1>6. ASSUME NEW m \in DOMAIN act, DOMAIN act = {m}, s = act[m].out,
               act' = Fresh(next, s),
             \/ m \in {"generate_sql", "correct_sql"}
                  /\ next = {"security_validate_sql"}
             \/ \E e \in Validated : /\ m = e[1]
                                     /\ \/ s.err = "none" /\ next = {e[2]}
                                        \/ next = {"correct_sql"}
             \/ m = "summarize_result" /\ next = {"interpret_result"}
      PROVE  PassedInv'
  <2>1. \A k \in next : \/ Earlier(k) = {}
                        \/ s.err = "none" /\ Earlier(k) = Upto(m)
                        \/ Earlier(k) = Earlier(m)
    BY <1>6, Ranks, Places DEF Validated
  <2>2. s.err = "none" => Demanded \cap Upto(m) \subseteq passed
    BY <1>2, <1>6 DEF PassedInv, Returned
  <2>3. Demanded \cap Earlier(m) \subseteq passed
    BY <1>2 DEF PassedInv
  <2> QED
    BY <1>3, <1>6, <2>1, <2>2, <2>3
<1>7. ASSUME act' = act PROVE PassedInv'
  BY <1>2, <1>7 DEF PassedInv
<1> QED
  BY <1>1, <1>4, <1>5, <1>6, <1>7 DEF EndOf

(* Every kind of step keeps PassedInv.                                      *)
LEMMA PassedKept ==
  ASSUME TypeInv, OutcomeInv, NeverRecorded, TextInv, KeysInv, PassedInv,
    [Next]_vars
  PROVE  PassedInv'
<1>1. CASE Start
  <2>1. /\ DOMAIN act' = {"extract_keywords"}
        /\ \A m \in DOMAIN act' : act'[m].pc = "enter"
    BY <1>1, StartFresh
  <2>2. Earlier("extract_keywords") = {}
    BY Ranks, Places DEF DataNodes
  <2> QED
    BY <1>1, <2>1, <2>2 DEF Start, Begin, PassedInv, Returned
<1>2. CASE SqlBody
  BY <1>2, SqlBodyKinds, PassedSql
<1>3. ASSUME NEW n \in Nodes, NodeCancelled(n) PROVE PassedInv'
  BY <1>3, DemandedSame DEF NodeCancelled, OutcomeInv, PassedInv, Working
<1>4. CASE Halts \/ QueryDone \/ Unwound
  BY <1>4, DemandedSame DEF Halts, QueryDone, Unwound, PassedInv, Working
<1>5. CASE LeavesEarly \/ Crash
  BY <1>5 DEF LeavesEarly, Begin, Crash, PassedInv, Working
<1>6. CASE TotalTimeout \/ ReportCutShort \/ Expire \/ UNCHANGED vars
  BY <1>6, DemandedSame
     DEF TotalTimeout, ReportCutShort, Expire, vars, PassedInv, Working
<1> QED
  BY <1>1, <1>2, <1>3, <1>4, <1>5, <1>6, StepKinds, PassedGuard, PassedData,
     PassedEnds

-----------------------------------------------------------------------------
(* In a new execution, the result is of the SQL that was executed, the      *)
(* summary of that result and the answer of that summary.                   *)
AnswerInv ==
  NewExecution /\ Working => \A m \in DOMAIN act :
    LET out == act[m].out IN
    /\ m = "execute_sql" /\ act[m].pc \in Returned /\ out.err = "none" =>
         out.result = out.sql
    /\ m \in {"summarize_result", "interpret_result"} =>
         st.result = st.sql /\ out.result = out.sql /\ out.sql = st.sql
    /\ m = "summarize_result" /\ act[m].pc \in Returned =>
         out.summary = out.result
    /\ m = "interpret_result" => st.summary = st.result
         /\ out.summary = st.summary
    /\ m = "interpret_result" /\ act[m].pc \in Returned =>
         answered = st.summary
    /\ run = "drained" => m = "interpret_result" /\ act[m].pc = "done"

(* The guard keeps AnswerInv.                                               *)
LEMMA AnswerGuard ==
  ASSUME TypeInv, KeysInv, AnswerInv, NewExecution, NEW n \in Nodes, Guarded(n)
  PROVE  AnswerInv'
<1>1. /\ DOMAIN act' = DOMAIN act /\ n \in DOMAIN act /\ Working
      /\ st' = st /\ answered' = answered /\ run' = run /\ run # "drained"
      /\ act'[n].out = act[n].out
      /\ \A m \in DOMAIN act : m # n => act'[m] = act[m]
  BY DEF Guarded, Others, Working
<1>2. Rank(n) > 0 /\ act'[n].pc \in Returned => act[n].pc \in Returned
  BY RankedNotSkipped DEF Guarded, Returned
<1>3. Rank("execute_sql") > 0 /\ Rank("summarize_result") > 0
        /\ Rank("interpret_result") > 0
  BY Ranks
<1> QED
  BY <1>1, <1>2, <1>3 DEF AnswerInv

(* The body of a SQL node keeps AnswerInv.                                  *)
LEMMA AnswerBody ==
  ASSUME TypeInv, TextInv, AnswerInv, NewExecution, NEW n, NEW s, NEW rec,
    SqlReturn(n, s, rec)
  PROVE  AnswerInv'
<1>1. n \in DOMAIN act /\ n \notin DataNodes /\ ~Over /\ Working
        /\ run' # "drained"
  BY SqlKeepsHave DEF SqlReturn, Bodied, Over, Working
<1>2. DOMAIN act = {n}
  BY <1>1, SequentialSql
<1>3. DOMAIN act' = {n} /\ act'[n].out = s /\ act'[n].pc = "load" /\ st' = st
  BY <1>2 DEF SqlReturn, Bodied, Others
<1>4. CASE Written(n, s, rec) \/ Checked(n, s, rec)
  <2>1. n \notin {"execute_sql", "summarize_result", "interpret_result"}
    BY <1>4 DEF Written, Checked, Checks
  <2> QED
    BY <1>1, <1>3, <2>1 DEF AnswerInv
<1>5. CASE Executed(n, s)
  <2>1. Newest(st)
    BY <1>1, <1>5, Ranks DEF TextInv, Executed
  <2>2. s.err = "none" => s.result = s.sql
    BY <1>5, <2>1 DEF Executed, Newest, CurrentSql
  <2> QED
    BY <1>1, <1>3, <1>5, <2>2 DEF AnswerInv, Executed
<1>6. CASE Told(n, s)
  <2>1. n \in {"summarize_result", "interpret_result"} /\ st.result = st.sql
    BY <1>1, <1>6 DEF Told, AnswerInv
  <2> QED
    BY <1>1, <1>3, <1>6, <2>1 DEF AnswerInv, Told
<1> QED
  BY <1>4, <1>5, <1>6 DEF SqlReturn

(* The body of a data node keeps AnswerInv.                                 *)
LEMMA AnswerData ==
  ASSUME TypeInv, AnswerInv, NewExecution, NEW n \in Nodes, DataBody(n)
  PROVE  AnswerInv'
<1>1. /\ Bodied(n, [st EXCEPT !.have = @ \cup {n}], n # "recall_value")
      /\ n \in DataNodes /\ answered' = answered
  BY Returns DEF DataBody
<1>2. /\ DOMAIN act' = DOMAIN act /\ st' = st /\ Working /\ run' = run
      /\ \A m \in DOMAIN act : m # n => act'[m] = act[m]
      /\ run' # "drained"
  BY <1>1 DEF Bodied, Others, Working
<1>3. n \notin {"execute_sql", "summarize_result", "interpret_result"}
  BY <1>1 DEF DataNodes, Recalls, Filters
<1> QED
  BY <1>2, <1>1, <1>3 DEF AnswerInv

(* The end of a superstep keeps AnswerInv.                                  *)
LEMMA AnswerEnds ==
  ASSUME TypeInv, TextInv, AnswerInv, NewExecution,
         Ends(Merged(DOMAIN act), NextNodes(DOMAIN act, Merged(DOMAIN act)))
  PROVE  AnswerInv'
<1> DEFINE s == Merged(DOMAIN act)
           next == NextNodes(DOMAIN act, s)
<1>1. EndOf(s, next)
  BY EndKinds
<1>2. /\ Working /\ st' = s /\ answered' = answered /\ run # "drained"
      /\ \A m \in DOMAIN act : act[m].pc = "done"
  BY DEF Ends, Working
<1> HIDE DEF s, next
<1>3. ASSUME act' = Fresh(next, s), run' = run,
             "summarize_result" \in next => s.result = s.sql,
             "interpret_result" \in next => s.result = s.sql
               /\ s.summary = s.result
      PROVE  AnswerInv'
  <2>0. act' = Fresh(next, s)
    BY <1>3
  <2>1. DOMAIN act' = next /\ \A m \in DOMAIN act' : act'[m].pc = "enter"
          /\ act'[m].out = s
    BY <2>0, FreshEffect
  <2> QED
    BY <1>2, <1>3, <2>1 DEF AnswerInv, Returned
<1>4. CASE run' = "unwinding"
  BY <1>4 DEF AnswerInv, Working
<1>5. ASSUME act' = Fresh(next, s), run' = run,
               next \subseteq DataNodes \cup {"generate_sql"}
      PROVE  AnswerInv'
  BY <1>3, <1>5 DEF DataNodes, Recalls, Filters
<1>6. ASSUME NEW m \in DOMAIN act, DOMAIN act = {m}, s = act[m].out,
               act' = Fresh(next, s),
             run' = run,
             \/ m \in {"generate_sql", "correct_sql"}
                  /\ next = {"security_validate_sql"}
             \/ \E e \in Validated : /\ m = e[1]
                                     /\ \/ s.err = "none" /\ next = {e[2]}
                                        \/ next = {"correct_sql"}
             \/ m = "summarize_result" /\ next = {"interpret_result"}
      PROVE  AnswerInv'
  <2>1. "summarize_result" \in next => m = "execute_sql" /\ s.err = "none"
    BY <1>6 DEF Validated
  <2>2. "interpret_result" \in next => m = "summarize_result"
    BY <1>6 DEF Validated
  <2>3. "summarize_result" \in next => s.result = s.sql
    BY <1>2, <1>6, <2>1 DEF AnswerInv, Returned
  <2>4. "interpret_result" \in next => s.result = s.sql /\ s.summary = s.result
    BY <1>2, <1>6, <2>2 DEF AnswerInv, Returned
  <2> QED
    BY <1>3, <1>6, <2>3, <2>4
<1>7. ASSUME act' = act, run' = "drained",
             DOMAIN act = {"interpret_result"}, s = act["interpret_result"].out
      PROVE  AnswerInv'
  BY <1>2, <1>7 DEF AnswerInv, Returned
<1> QED
  BY <1>1, <1>4, <1>5, <1>6, <1>7 DEF EndOf

(* Every kind of step keeps AnswerInv.                                      *)
LEMMA AnswerKept ==
  ASSUME TypeInv, OutcomeInv, TextInv, KeysInv, AnswerInv, [Next]_vars
  PROVE  AnswerInv'
<1>1. CASE Start
  <2>1. /\ DOMAIN act' = {"extract_keywords"}
        /\ \A m \in DOMAIN act' : act'[m].pc = "enter"
    BY <1>1, StartFresh
  <2>2. run' # "drained"
    BY <1>1 DEF Start
  <2> QED
    BY <2>1, <2>2 DEF AnswerInv
<1>2. ~Start /\ ~LeavesEarly => (NewExecution' <=> NewExecution)
  BY OneStartPerAttempt DEF NewExecution
<1>6. CASE LeavesEarly \/ Halts \/ QueryDone \/ Unwound \/ Crash
  BY <1>6 DEF LeavesEarly, Halts, QueryDone, Unwound, Crash, AnswerInv, Working
<1>3. CASE ~NewExecution
  BY <1>1, <1>2, <1>3, <1>6 DEF AnswerInv
<1>4. CASE SqlBody
  BY <1>3, <1>4, SqlBodyKinds, AnswerBody
<1>5. ASSUME NEW n \in Nodes, NodeCancelled(n) PROVE AnswerInv'
  BY <1>5 DEF NodeCancelled, OutcomeInv, AnswerInv, Working
<1>7. CASE TotalTimeout \/ ReportCutShort \/ Expire \/ UNCHANGED vars
  BY <1>7
     DEF TotalTimeout, ReportCutShort, Expire, vars, AnswerInv, NewExecution,
         Working
<1> QED
  BY <1>1, <1>3, <1>4, <1>5, <1>6, <1>7, StepKinds, AnswerGuard, AnswerData,
     AnswerEnds

-----------------------------------------------------------------------------
(* The invariants of the SQL texts hold together.                           *)
SqlInv == NeverRecorded /\ TextInv /\ KeysInv /\ PassedInv /\ AnswerInv

(* They hold in every reachable state.                                      *)
LEMMA SqlAlways == Spec => []SqlInv
<1>1. Init => SqlInv
  BY NothingRecorded, FreshEffect
     DEF Init, SqlInv, NeverRecorded, TextInv, KeysInv, PassedInv, AnswerInv,
     Working, NoRecord, Fresh
<1>2. TypeInv /\ OutcomeInv /\ SqlInv /\ [Next]_vars => SqlInv'
  BY NeverRecordedKept, TextKept, KeysKept, PassedKept, AnswerKept DEF SqlInv
<1> QED
  BY <1>1, <1>2, TypeInvariant, OutcomeAlways, PTL DEF Spec

(* Whatever crashes, resumes, is retried or cancelled, execute_sql is given *)
(* only SQL that database_validate_sql has accepted.                        *)
THEOREM DatabaseAlwaysValidated == Spec => []DatabaseValidated
<1>1. SqlInv => DatabaseValidated
  BY DEF SqlInv, PassedInv, Demanded, Validators, DatabaseValidated
<1> QED
  BY <1>1, SqlAlways, PTL

(* An attempt that is not a resume gives execute_sql only SQL that passed   *)
(* all three validators, however often it was corrected.                    *)
THEOREM NewExecutionsAreChecked == Spec => []NewExecutionFullyChecked
<1>1. TypeInv /\ SqlInv => NewExecutionFullyChecked
  BY DEF TypeInv, SqlInv, PassedInv, Demanded, NewExecution,
     NewExecutionFullyChecked
<1> QED
  BY <1>1, SqlAlways, TypeInvariant, PTL

(* The answer of such an attempt is about the SQL that it ended up with,    *)
(* and that SQL was executed.                                               *)
THEOREM AnswersAreOfTheNewestSql == Spec => []AnswerOfNewExecution
<1>1. TypeInv /\ SqlInv => AnswerOfNewExecution
  <2> SUFFICES ASSUME TypeInv, SqlInv, run = "drained", startedOn # "RUNNING"
               PROVE  answered = st.sql /\ st.result = st.sql
    BY DEF AnswerOfNewExecution
  <2>1. PICK m \in DOMAIN act : TRUE
    BY NodesOfStep DEF TypeInv, Over
  <2>2. m = "interpret_result" /\ act[m].pc = "done"
    BY DEF SqlInv, AnswerInv, NewExecution, Working
  <2> QED
    BY <2>1, <2>2 DEF SqlInv, AnswerInv, NewExecution, Working, Returned
<1> QED
  BY <1>1, SqlAlways, TypeInvariant, PTL
=============================================================================
