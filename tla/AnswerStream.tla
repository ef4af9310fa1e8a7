---------------------------- MODULE AnswerStream ----------------------------
(***************************************************************************)
(* How an answer reaches the client: the LLM gateway (app/llm/gateway.py)  *)
(* calls and streams models with retries and a fallback; interpret_result  *)
(* batches the tokens and sends the final answer; _produce_graph_chunks    *)
(* moves what the graph writes into the bounded LifecycleSSEQueue; and     *)
(* QueryService.query reads that queue and writes to the client.           *)
(*                                                                         *)
(* LangGraph keeps what the nodes write, in order, in a buffer of its own, *)
(* and raises a node's exception after it; the nodes run on while the      *)
(* producer waits for room in the queue. A text is a sequence of tokens.   *)
(***************************************************************************)
EXTENDS Integers, Sequences, FiniteSets, SequencesExt

CONSTANTS
  QueueSize,     \* agent.sse_queue_maxsize
  MaxRetries,    \* llm.max_retries
  HasFallback,   \* whether llm.fallback_model is set
  Batch,         \* agent.token_batch_chars, in tokens
  StoreFails,    \* whether a call of Redis may raise once there is an answer
  MaxStages,     \* bound: stage events written before the answer
  MaxTokens      \* bound: tokens of one model's answer

ASSUME SizesAssumption ==
  /\ QueueSize \in Nat \ {0} /\ Batch \in Nat \ {0}
  /\ MaxRetries \in Nat /\ MaxStages \in Nat /\ MaxTokens \in Nat
  /\ HasFallback \in BOOLEAN /\ StoreFails \in BOOLEAN

VARIABLES
  recorded,  \* whether interpret_result is recorded as completed, for the try
             \* the graph gets to it with: an earlier attempt gave the answer
  graph,     \* what the agent graph is doing
  route,     \* the model the gateway uses
  attempt,   \* the attempt with that model
  stages,    \* stage events written
  chunks,    \* interpret_result's chunks: all tokens so far
  batch,     \* its token_buffer: those not yet written
  out,       \* what LangGraph has yet to yield
  prod,      \* the producer task
  flags,     \* _emitted_error and _emitted_final of the queue
  dropped,   \* whether an event was dropped
  queue,     \* the asyncio.Queue
  cancel,    \* graph_task.cancel() was called; stream.closed is set with it
  cons,      \* the loop of query()
  timedOut,  \* history: query() reported the total time-out
  sent       \* what was written to the client

llmVars == <<route, attempt, chunks, batch>>
graphVars == <<recorded, graph, stages, out, llmVars>>
queueVars == <<flags, dropped, queue>>
vars == <<graphVars, prod, queueVars, cancel, cons, timedOut, sent>>

Routes == {"primary", "fallback"}
Tokens == Routes \X (1..MaxTokens)

(* build_interpretation_fallback                                            *)
Template == << <<"template", 0>> >>

Item(kind, text) == [kind |-> kind, text |-> text]
Delta(text) == Item("delta", text)
Final(text) == Item("final", text)
Stage == Item("stage", <<>>)
Error == Item("error", <<>>)
Done == Item("done", <<>>)
EndOfGraph == Item("end", <<>>)              \* _DONE
Raised == Item("exception", <<>>)
RaisedAfterError == Item("reported", <<>>)   \* error_already_emitted
StoreError == Item("storeError", <<>>)       \* an exception of Redis
Cancelled == Item("cancelled", <<>>)

Exceptions == {"exception", "reported", "storeError"}

Events == {"stage", "delta", "final", "error"}

TypeOK ==
  /\ recorded \in BOOLEAN
  /\ graph \in {"invoke", "work", "stream", "ended"}
  /\ route \in Routes /\ attempt \in 0..MaxRetries
  /\ stages \in 0..MaxStages
  /\ \A k \in DOMAIN chunks : chunks[k] \in Tokens
  /\ Len(batch) < Batch
  /\ prod \in {"new", "next", "putting", "over", "unborn"}
  /\ flags \subseteq {"error", "final"}
  /\ dropped \in BOOLEAN
  /\ Len(queue) <= QueueSize
  /\ cancel \in BOOLEAN /\ timedOut \in BOOLEAN
  /\ cons \in {"reading", "completing", "closing", "joining", "ended"}
  /\ \A k \in DOMAIN sent : sent[k].kind \in Events \cup {"done"}

Init ==
  /\ recorded \in BOOLEAN
  /\ graph = "invoke" /\ route = "primary" /\ attempt = 0
  /\ stages = 0
  /\ chunks = <<>> /\ batch = <<>> /\ out = <<>>
  /\ prod = "new" /\ flags = {} /\ dropped = FALSE /\ queue = <<>>
  /\ cancel = FALSE
  /\ cons = "reading" /\ timedOut = FALSE /\ sent = <<>>

-----------------------------------------------------------------------------
(* The nodes and the gateway                                                *)

Running == prod \in {"next", "putting"} /\ ~cancel
Write(items) == out' = out \o items
NodesOnly ==
  UNCHANGED <<recorded, prod, queueVars, cancel, cons, timedOut, sent>>

(* _call_route: whether it tries once more                                  *)
TriesAgain(retryable) == retryable /\ attempt < MaxRetries

(* _call_with_governance, and the end of astream_text: whether the other    *)
(* model is tried                                                           *)
FallsBack(retryable) == retryable /\ HasFallback /\ route = "primary"

(* A node's ainvoke_text or ainvoke_structured gets its answer.             *)
CallSucceeds ==
  /\ Running /\ graph = "invoke"
  /\ graph' = "work"
  /\ route' = "primary" /\ attempt' = 0
  /\ UNCHANGED <<stages, chunks, batch, out>> /\ NodesOnly

(* It raises: again after a pause, with the other model, or not any more.   *)
CallFails(retryable) ==
  /\ Running /\ graph = "invoke"
  /\ \/ /\ TriesAgain(retryable)
        /\ attempt' = attempt + 1 /\ UNCHANGED <<route, graph, out>>
     \/ /\ ~TriesAgain(retryable) /\ FallsBack(retryable)
        /\ route' = "fallback" /\ attempt' = 0 /\ UNCHANGED <<graph, out>>
     \/ /\ ~TriesAgain(retryable) /\ ~FallsBack(retryable)
        /\ graph' = "ended" /\ Write(<<Raised>>)
        /\ UNCHANGED <<route, attempt>>
  /\ UNCHANGED <<stages, chunks, batch>> /\ NodesOnly

(* Any node says what it is doing.                                          *)
WriteStage ==
  /\ Running /\ graph = "work" /\ stages < MaxStages
  /\ stages' = stages + 1 /\ Write(<<Stage>>)
  /\ UNCHANGED <<graph, llmVars>> /\ NodesOnly

(* The failed node writes the error and raises; another node just raises.   *)
NodeFails ==
  /\ Running /\ graph = "work"
  /\ graph' = "ended"
  /\ Write(<<Error, RaisedAfterError>>) \/ Write(<<Raised>>)
  /\ UNCHANGED <<stages, llmVars>> /\ NodesOnly

(* The guard of interpret_result marks the node completed, when its answer  *)
(* has been written.                                                        *)
Endings == IF StoreFails THEN {EndOfGraph, StoreError} ELSE {EndOfGraph}

(* The guard of interpret_result skips it when it is recorded as completed: *)
(* the graph ends and says nothing. Else it begins; without rows it has its *)
(* answer.                                                                  *)
Interpret ==
  /\ Running /\ graph = "work"
  /\ \/ recorded /\ graph' = "ended" /\ Write(<<EndOfGraph>>)
     \/ ~recorded /\ graph' = "stream" /\ UNCHANGED out
     \/ /\ ~recorded /\ graph' = "ended"
        /\ \E end \in Endings : Write(<<Final(Template), end>>)
  /\ UNCHANGED <<stages, llmVars>> /\ NodesOnly

Tokenized(r) == Cardinality({k \in DOMAIN chunks : chunks[k][1] = r})

(* A token arrives; flush_token_buffer when there are enough of them.       *)
StreamToken ==
  LET n == Tokenized(route)
      token == <<route, n + 1>>
      buffer == Append(batch, token) IN
  /\ Running /\ graph = "stream" /\ n < MaxTokens
  /\ chunks' = Append(chunks, token)
  /\ IF Len(buffer) >= Batch THEN batch' = <<>> /\ Write(<<Delta(buffer)>>)
                             ELSE batch' = buffer /\ UNCHANGED out
  /\ UNCHANGED <<graph, stages, route, attempt>> /\ NodesOnly

(* Mutant: what is left in the buffer at the end is not written.            *)
RestUnwritten == <<>>

Rest == IF batch = <<>> THEN <<>> ELSE <<Delta(batch)>>

Answer == Final(IF chunks = <<>> THEN Template ELSE chunks)

(* Mutant: the answer is written before what is left in the buffer.         *)
AnswerFirst(end) == <<Answer>> \o Rest \o <<end>>

RestAndAnswer(end) == Rest \o <<Answer, end>>

(* The model ends its answer: the rest and the answer are written.          *)
StreamCompletes ==
  /\ Running /\ graph = "stream"
  /\ graph' = "ended" /\ batch' = <<>>
  /\ \E end \in Endings : Write(RestAndAnswer(end))
  /\ UNCHANGED <<stages, route, attempt, chunks>> /\ NodesOnly

(* The model fails before or between tokens: the gateway streams the other  *)
(* model's answer after what it has already yielded, or interpret_result    *)
(* falls back on the template.                                              *)
StreamFails(retryable) ==
  /\ Running /\ graph = "stream"
  /\ \/ /\ FallsBack(retryable)
        /\ route' = "fallback" /\ UNCHANGED <<graph, out, batch>>
     \/ /\ ~FallsBack(retryable)
        /\ graph' = "ended" /\ batch' = <<>>
        /\ \E end \in Endings : Write(<<Final(Template), end>>)
        /\ UNCHANGED route
  /\ UNCHANGED <<stages, attempt, chunks>> /\ NodesOnly

Nodes ==
  \/ CallSucceeds \/ WriteStage \/ NodeFails \/ Interpret
  \/ StreamToken \/ StreamCompletes
  \/ \E retryable \in BOOLEAN : CallFails(retryable) \/ StreamFails(retryable)

-----------------------------------------------------------------------------
(* The producer and the queue                                               *)

(* Mutant: one item more than there is room for.                            *)
FullLate == Len(queue) > QueueSize

Full == Len(queue) >= QueueSize

(* Mutant: the exception is left out when there is no room.                 *)
WithoutException(q, item) == IF Len(q) >= QueueSize THEN q ELSE Append(q, item)

(* Mutant: the newest item makes room.                                      *)
WithExceptionLast(q, item) ==
  Append(IF Len(q) >= QueueSize THEN Front(q) ELSE q, item)

(* put_exception: the oldest item makes room, so the put does not wait.     *)
WithException(q, item) ==
  Append(IF Len(q) >= QueueSize THEN Tail(q) ELSE q, item)

(* The task ends: agen.aclose() stops the nodes.                            *)
EndWith(item) ==
  /\ queue' = WithException(queue, item)
  /\ prod' = "over" /\ graph' = "ended" /\ out' = <<>>

Rested == UNCHANGED <<recorded, stages, llmVars, cancel, cons, timedOut, sent>>

ProducerStarts ==
  /\ prod = "new"
  /\ prod' = IF cancel THEN "unborn" ELSE "next"
  /\ graph' = IF cancel THEN "ended" ELSE graph
  /\ UNCHANGED <<out, queueVars>> /\ Rested

(* Mutant: only events called "final" count, and the answer is a "result".  *)
CriticalByName(item) == item.kind = "error"

(* CRITICAL_EVENTS, or an event with a final_answer                         *)
Critical(item) == item.kind \in {"error", "final"}

(* An error or a final answer that comes too late is not passed on: no      *)
(* execution of this graph writes two of them.                              *)
Suppressed(item) ==
  \/ item.kind = "error" /\ "error" \in flags
  \/ item.kind = "final" /\ flags # {}

(* put_graph_event and the put of _DONE, up to the await                    *)
Produce ==
  LET item == Head(out) IN
  /\ prod = "next" /\ ~cancel /\ out # <<>>
  /\ \/ /\ item.kind \in Exceptions
        /\ EndWith(item) /\ UNCHANGED <<flags, dropped>>
     \/ /\ item.kind \in Events
        /\ flags' = IF Suppressed(item) THEN flags
                    ELSE flags \cup ({item.kind} \cap {"error", "final"})
        /\ \/ /\ Suppressed(item) \/ (Full /\ ~Critical(item))
              /\ out' = Tail(out) /\ dropped' = (dropped \/ ~Suppressed(item))
              /\ UNCHANGED <<prod, queue>>
           \/ /\ ~Suppressed(item) /\ ~Full
              /\ out' = Tail(out) /\ queue' = Append(queue, item)
              /\ UNCHANGED <<prod, dropped>>
           \/ /\ ~Suppressed(item) /\ Full /\ Critical(item)
              /\ prod' = "putting" /\ UNCHANGED <<out, queue, dropped>>
        /\ UNCHANGED graph
     \/ /\ item = EndOfGraph
        /\ IF Full THEN prod' = "putting" /\ UNCHANGED <<queue, out>>
           ELSE /\ queue' = Append(queue, item)
                /\ prod' = "over" /\ out' = <<>>
        /\ UNCHANGED <<flags, dropped, graph>>
  /\ Rested

(* The put that waited finds room                                           *)
PutGoesOn ==
  LET item == Head(out) IN
  /\ prod = "putting" /\ ~cancel /\ ~Full
  /\ queue' = Append(queue, item)
  /\ out' = Tail(out)
  /\ prod' = IF item = EndOfGraph THEN "over" ELSE "next"
  /\ UNCHANGED <<graph, flags, dropped>> /\ Rested

(* or times out: SSE_BACKPRESSURE_TIMEOUT, or TimeoutError for _DONE.       *)
PutTimesOut ==
  /\ prod = "putting" /\ ~cancel
  /\ EndWith(Raised)
  /\ UNCHANGED <<flags, dropped>> /\ Rested

(* CancelledError in the producer                                           *)
ProducerCancelled ==
  /\ prod \in {"next", "putting"} /\ cancel
  /\ EndWith(Cancelled)
  /\ UNCHANGED <<flags, dropped>> /\ Rested

Producer == ProducerStarts \/ Produce \/ PutGoesOn \/ ProducerCancelled

(* begin_shutdown cancels the registered graph task.                        *)
Shutdown ==
  /\ prod \in {"new", "next", "putting"} /\ ~cancel
  /\ cancel' = TRUE
  /\ UNCHANGED <<graphVars, prod, queueVars, cons, timedOut, sent>>

-----------------------------------------------------------------------------
(* The loop of query()                                                      *)

Send(items) == sent' = sent \o items

(* Mutant: an error the graph has reported is reported again.               *)
ErrorAlways(item) == <<Error, Done>>

(* except Exception: error, unless it was emitted already, and done         *)
ErrorReport(item) ==
  IF item.kind = "reported" THEN <<Done>> ELSE <<Error, Done>>

(* After _DONE the checkpoint is marked completed; "done" is sent, and only *)
(* then is the request id completed (CompleteFails, Close).                 *)
Read ==
  LET item == Head(queue) IN
  /\ cons = "reading" /\ queue # <<>>
  /\ queue' = Tail(queue)
  /\ \/ /\ item.kind \in Events
        /\ Send(<<item>>) /\ UNCHANGED cons
     \/ /\ item = EndOfGraph
        /\ Send(<<Done>>) /\ cons' = "completing"
     \/ /\ item = EndOfGraph /\ StoreFails
        /\ Send(ErrorReport(StoreError)) /\ cons' = "closing"
     \/ /\ item.kind \in Exceptions
        /\ Send(ErrorReport(item)) /\ cons' = "closing"
  /\ UNCHANGED <<graphVars, prod, flags, dropped, cancel, timedOut>>

(* complete raises, within the try: this is reported, too.                  *)
CompleteFails ==
  /\ StoreFails /\ cons = "completing"
  /\ Send(ErrorReport(StoreError)) /\ cons' = "closing"
  /\ UNCHANGED <<graphVars, prod, queueVars, cancel, timedOut>>

(* The finally clause: stream.closed, graph_task.cancel(), await graph_task *)
Closing == cancel' = TRUE /\ cons' = "joining"

(* CancelledError, from the queue, is raised again with nothing sent.       *)
ReadCancelled ==
  /\ cons = "reading" /\ queue # <<>> /\ Head(queue) = Cancelled
  /\ queue' = Tail(queue) /\ Closing
  /\ UNCHANGED <<graphVars, prod, flags, dropped, timedOut, sent>>

TotalTimeout ==
  /\ cons = "reading"
  /\ Send(<<Error, Done>>) /\ cons' = "closing" /\ timedOut' = TRUE
  /\ UNCHANGED <<graphVars, prod, queueVars, cancel>>

(* The disconnect watcher is done, or the generator is closed.              *)
Disconnect ==
  /\ cons = "reading" /\ Closing
  /\ UNCHANGED <<graphVars, prod, queueVars, timedOut, sent>>

(* After an end the registry and the checkpoint are awaited first.          *)
Close ==
  /\ cons \in {"completing", "closing"} /\ Closing
  /\ UNCHANGED <<graphVars, prod, queueVars, timedOut, sent>>

Join ==
  /\ cons = "joining" /\ prod \in {"over", "unborn"}
  /\ cons' = "ended"
  /\ UNCHANGED <<graphVars, prod, queueVars, cancel, timedOut, sent>>

Consumer == Read \/ ReadCancelled \/ Close \/ Join

Ended == cons = "ended" /\ UNCHANGED vars

Next == Nodes \/ Producer \/ PutTimesOut \/ Shutdown
        \/ Consumer \/ TotalTimeout \/ Disconnect \/ CompleteFails \/ Ended

(* The nodes' own time-outs make each of their calls end; tasks that can    *)
(* run do; the client reads on. Neither the total time-out nor the one of   *)
(* a put has to fire.                                                       *)
Spec == /\ Init /\ [][Next]_vars
        /\ WF_vars(Nodes) /\ WF_vars(Producer) /\ WF_vars(Consumer)

-----------------------------------------------------------------------------
Sent(kind) == {k \in DOMAIN sent : sent[k].kind = kind}
Succeeded == Sent("done") # {} /\ Sent("error") = {}
Count(kind) == Cardinality(Sent(kind))

(* A client that is told the query has finished without an error has got    *)
(* exactly one final answer before, however full the queue was; and none    *)
(* if its request resumed an execution that had got past its answer, which  *)
(* is neither kept nor given again.                                         *)
SuccessHasAnswer == Succeeded => Count("final") = IF recorded THEN 0 ELSE 1

(* The text of a sequence of items: that of its deltas, one after the other. *)
TextOf(items) ==
  LET upTo[n \in 0..Len(items)] ==
        IF n = 0 THEN <<>>
        ELSE IF items[n].kind = "delta" THEN upTo[n - 1] \o items[n].text
        ELSE upTo[n - 1]
  IN  upTo[Len(items)]
Streamed == TextOf(sent)

(* The answer is what was streamed: when the query succeeds with a model's  *)
(* answer and no event was dropped, the deltas make it up, token by token,  *)
(* whichever models it came from. (put_exception may push out a delta that  *)
(* dropped_events does not count, but then the query has failed.)           *)
DeltasAreTheAnswer ==
  \A k \in Sent("final") :
    Succeeded /\ ~dropped /\ sent[k].text # Template
      => Streamed = sent[k].text

(* A query that failed says so: "done" is preceded by an answer or by an    *)
(* error although an exception may push an event out of the full queue. The *)
(* one that resumes past the answer says only "done".                       *)
(* It needs a queue of two: in a queue of one the exception of the failed   *)
(* node pushes out that node's own error event.                             *)
FailureReported ==
  Sent("done") # {} => recorded \/ Sent("final") # {} \/ Sent("error") # {}

(* A client is told of one error only, the node's or the service's, unless  *)
(* the total time-out came between the node's error event and its exception.*)
OneError == Count("error") <= 1 \/ (timedOut /\ Count("error") = 2)

(* A stream has one "done", and it is the last the client is told. This is  *)
(* what the tests of query() say; it is so unless Redis fails after it.     *)
DoneOnce == Count("done") <= 1

(* Without the help of the total time-out the loop comes to its end: the    *)
(* gateway's retries do, and a terminal item gets through the full queue,   *)
(* whatever the graph did. Only a graph task that was cancelled before it   *)
(* began leaves none.                                                       *)
StreamEnds == <>(cons = "ended" \/ prod = "unborn")

(* The queue keeps what query() promises: events, then one outcome and      *)
(* nothing of the graph after it, then "done"; once the loop was left only  *)
(* a failure of Redis is still reported, once. It needs a queue of two, as  *)
(* FailureReported does. The outcome is missing when it was given before.   *)
Kinds(items) == [k \in DOMAIN items |-> items[k].kind]
Promise == INSTANCE OutcomeStream
             WITH told <- Kinds(sent), over <- cons # "reading",
                  given <- recorded, FailsLate <- StoreFails
OutcomeSpec == Promise!Spec
=============================================================================
