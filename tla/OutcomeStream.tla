---------------------------- MODULE OutcomeStream ----------------------------
(***************************************************************************)
(* What query() promises to the client that reads its events, whatever     *)
(* happens between the agent graph and the loop of query(): events while   *)
(* the query works, then one outcome, then "done". The request that        *)
(* resumes an execution that has recorded its answer gets no answer.       *)
(*                                                                         *)
(* The LifecycleSSEQueue with its producer and its consumer (AnswerStream) *)
(* is shown to implement it.                                               *)
(***************************************************************************)
EXTENDS Sequences

CONSTANT FailsLate   \* whether query() may fail after its success was told

VARIABLES
  given,  \* whether an earlier attempt has recorded its answer
  told,   \* the kinds of the events the client was sent, in order
  over    \* whether query() has left its loop

Init == given \in BOOLEAN /\ told = <<>> /\ over = FALSE

Outcomes == {"final", "error"}
HasOutcome == \E k \in DOMAIN told : told[k] \in Outcomes

(* An event of the graph. Nothing that it says comes after its outcome.     *)
Say(kind) ==
  /\ ~over /\ ~HasOutcome
  /\ kind = "final" => ~given
  /\ told' = Append(told, kind)
  /\ UNCHANGED over

(* The graph is done: the client has its answer or its error.               *)
Finish ==
  /\ ~over /\ (HasOutcome \/ given)
  /\ told' = Append(told, "done")
  /\ over' = TRUE

(* query() itself reports a failure, at any time.                           *)
Fail ==
  /\ ~over
  /\ told' = told \o <<"error", "done">>
  /\ over' = TRUE

(* query() has told of success, and fails when it tidies up.                *)
FailLate ==
  /\ FailsLate /\ over
  /\ told # <<>> /\ told[Len(told)] = "done"
  /\ \A k \in DOMAIN told : told[k] # "error"
  /\ told' = told \o <<"error", "done">>
  /\ UNCHANGED over

(* The client has gone, or the graph was cancelled: nothing more is sent.   *)
Abandon == ~over /\ over' = TRUE /\ UNCHANGED told

Next ==
  /\ \/ \E kind \in {"stage", "delta"} \cup Outcomes : Say(kind)
     \/ Finish \/ Fail \/ FailLate \/ Abandon
  /\ UNCHANGED given

Spec == Init /\ [][Next]_<<given, told, over>>
=============================================================================
