------------------------- MODULE AnswerStreamProofs -------------------------
(***************************************************************************)
(* Proofs about AnswerStream, for every size of the queue, number of       *)
(* retries, batch and length of an answer: what the client is told of the  *)
(* outcome of its query, that the queue keeps the promise of OutcomeStream, *)
(* and that the answer is what was streamed.                               *)
(***************************************************************************)
EXTENDS AnswerStream, FiniteSetTheorems, SequenceTheorems, WellFoundedInduction,
        TLAPS

Ends == {"end", "cancelled"} \cup Exceptions
Words == (Routes \cup {"template"}) \X Nat
Items == [kind : Events \cup Ends \cup {"done"}, text : Seq(Words)]

(* TypeOK with the elements of the sequences.                               *)
TypeInv ==
  /\ TypeOK
  /\ chunks \in Seq(Tokens) /\ batch \in Seq(Tokens)
  /\ out \in Seq(Items) /\ queue \in Seq(Items) /\ sent \in Seq(Items)

(* Sequences of items: events without an outcome, events only, and how many *)
(* there are of a kind.                                                     *)
Plain(s) == \A k \in DOMAIN s : s[k].kind \in {"stage", "delta"}
Lacks(s, kind) == \A k \in DOMAIN s : s[k].kind # kind
Has(s, kind) == \E k \in DOMAIN s : s[k].kind = kind
Sole(s, kind) ==
  \A j, k \in DOMAIN s : s[j].kind = kind /\ s[k].kind = kind => j = k
Open(s) == \A k \in DOMAIN s : s[k].kind \in Events

(* What the graph has still to say when it has ended: events, and at the    *)
(* very end how it ended, after the error or the answer that goes with it.  *)
(* An execution that had got past its answer ends without one.              *)
Outcome(last, past) ==
  IF last \in {EndOfGraph, StoreError} THEN IF past THEN {} ELSE {"final"}
  ELSE IF last = RaisedAfterError THEN {"error"} ELSE {}

Farewell ==
  LET n == Len(out) IN
  /\ n > 0
  /\ out[n] \in {EndOfGraph, Raised, RaisedAfterError, StoreError}
  /\ \A k \in 1..(n - 1) :
       IF k = n - 1 /\ Outcome(out[n], recorded) # {}
       THEN out[k].kind \in Outcome(out[n], recorded)
       ELSE out[k].kind \in {"stage", "delta"}
  /\ prod = "putting" => out[1].kind \in {"error", "final", "end"}
  /\ flags = IF n = 1 \/ (n = 2 /\ prod = "putting")
             THEN Outcome(out[n], recorded) ELSE {}

(* The nodes write events until they end; then `out` holds a farewell until *)
(* the producer is over. flags has what was taken from it.                  *)
OutInv ==
  /\ prod = "new" => graph = "invoke" /\ out = <<>>
  /\ prod \in {"over", "unborn"} => out = <<>>
  /\ prod \in {"new", "next", "putting"} /\ graph # "ended" =>
       Plain(out) /\ flags = {} /\ prod # "putting"
  /\ graph = "stream" => ~recorded
  /\ prod \in {"next", "putting"} /\ graph = "ended" => Farewell

(* The error or the answer is with the client, or in the queue.             *)
Once(kind) ==
  \/ Lacks(queue, kind) /\ Sole(sent, kind) /\ Sent(kind) # {}
  \/ /\ Lacks(sent, kind) /\ Sole(queue, kind)
     /\ \E k \in DOMAIN queue : queue[k].kind = kind

AtMostOnce(kind) ==
  \/ Lacks(queue, kind) /\ Sole(sent, kind)
  \/ Lacks(sent, kind) /\ Sole(queue, kind)

(* What of the outcome has been passed on while its end has not.            *)
PassedOn ==
  IF prod \in {"next", "putting"} /\ graph = "ended" /\ Len(out) = 1
  THEN Outcome(out[1], recorded) ELSE {}

(* As long as the producer is not over, the queue holds events, and of the  *)
(* error and the answer those that were passed on, in the last place.       *)
OpenInv ==
  /\ Open(queue)
  /\ \A kind \in {"error", "final"} :
       IF kind \in PassedOn
       THEN /\ Once(kind)
            /\ Lacks(sent, kind) => queue # <<>> /\ queue[Len(queue)].kind = kind
       ELSE Lacks(sent, kind) /\ Lacks(queue, kind)

(* Once it is over, the last item of the queue says how the graph ended, and *)
(* what belongs to that is with the client or in the queue.                  *)
OverInv ==
  LET n == Len(queue) IN
  /\ n > 0
  /\ queue[n] \in {EndOfGraph, Raised, RaisedAfterError, StoreError, Cancelled}
  /\ \A k \in 1..(n - 1) : queue[k].kind \in Events
  /\ AtMostOnce("error")
  /\ queue[n] \in {Raised, StoreError} =>
       Lacks(sent, "error") /\ Lacks(queue, "error")
  /\ queue[n] = EndOfGraph =>
       /\ recorded \/ Once("final")
       /\ Lacks(sent, "error") /\ Lacks(queue, "error")
  /\ queue[n] = RaisedAfterError /\ QueueSize > 1 => Once("error")
  /\ recorded => Lacks(sent, "final") /\ Lacks(queue, "final")

(* This is so as long as query() reads the queue.                           *)
ReadingInv ==
  cons = "reading" =>
    /\ Lacks(sent, "done") /\ ~timedOut
    /\ IF prod = "over" THEN OverInv ELSE OpenInv

(* Afterwards the client has been told the outcome. It may still be told of *)
(* a failure of Redis, when it was told of success and of no error.         *)
ToldInv ==
  /\ cons # "reading" =>
       /\ OneError
       /\ QueueSize > 1 => SuccessHasAnswer /\ FailureReported
       /\ StoreFails \/ Sole(sent, "done")
  /\ cons = "completing" =>
       /\ Lacks(sent, "error")
       /\ sent # <<>> /\ sent[Len(sent)].kind = "done"

StreamInv == TypeInv /\ OutInv /\ ReadingInv /\ ToldInv

-----------------------------------------------------------------------------
(* Texts are sequences of words.                                            *)
LEMMA TextsTyped ==
  /\ <<>> \in Seq(Words) /\ Template \in Seq(Words)
  /\ \A t \in Seq(Tokens) : t \in Seq(Words)
<1>1. Tokens \subseteq Words
  BY SizesAssumption DEF Tokens, Words
<1>2. <<"template", 0>> \in Words
  BY DEF Words
<1> QED
  BY <1>1, <1>2 DEF Template

(* The items that are written are items.                                    *)
LEMMA ItemsTyped ==
  /\ Stage \in Items /\ Error \in Items /\ Done \in Items
  /\ EndOfGraph \in Items /\ Cancelled \in Items
  /\ Raised \in Items /\ RaisedAfterError \in Items /\ StoreError \in Items
  /\ \A t \in Seq(Words) : Delta(t) \in Items /\ Final(t) \in Items
<1>1. <<>> \in Seq(Words)
  BY TextsTyped
<1> QED
  BY <1>1 DEF Items, Events, Ends, Exceptions, Stage, Error, Done, EndOfGraph,
              Raised, RaisedAfterError, StoreError, Cancelled, Delta, Final, Item

(* What is written keeps `out` a sequence of items.                         *)
LEMMA WriteTyped ==
  ASSUME TypeInv, NEW items \in Seq(Items), Write(items)
  PROVE  out' \in Seq(Items)
BY DEF TypeInv, Write

(* So do the ways in which a graph can end.                                 *)
LEMMA EndingsTyped ==
  /\ <<Raised>> \in Seq(Items) /\ <<Stage>> \in Seq(Items)
  /\ <<EndOfGraph>> \in Seq(Items)
  /\ <<Error, RaisedAfterError>> \in Seq(Items)
  /\ \A end \in Endings : <<Final(Template), end>> \in Seq(Items)
<1>1. Final(Template) \in Items
  BY ItemsTyped, TextsTyped
<1>2. \A end \in Endings : end \in Items
  BY ItemsTyped DEF Endings
<1> QED
  BY <1>1, <1>2, ItemsTyped

(* put_exception never puts more into the queue than it holds.              *)
LEMMA ExceptionFits ==
  ASSUME NEW q \in Seq(Items), NEW item \in Items, Len(q) <= QueueSize
  PROVE  /\ WithException(q, item) \in Seq(Items)
         /\ Len(WithException(q, item)) <= QueueSize
<1>1. QueueSize \in Nat \ {0} /\ Len(q) \in Nat
  BY SizesAssumption
<1>2. CASE Len(q) >= QueueSize
  <2>1. q # <<>>
    BY <1>1, <1>2
  <2>2. Tail(q) \in Seq(Items) /\ Len(Tail(q)) = Len(q) - 1
    BY <2>1
  <2> QED
    BY <1>1, <1>2, <2>2 DEF WithException
<1>3. CASE ~(Len(q) >= QueueSize)
  BY <1>1, <1>3 DEF WithException
<1> QED
  BY <1>2, <1>3

(* TypeInv: the start.                                                      *)
LEMMA InitTyped == Init => TypeInv
<1> SUFFICES ASSUME Init PROVE TypeInv
  OBVIOUS
<1>1. TypeOK
  <2>1. Len(<<>>) = 0 /\ DOMAIN <<>> = {} /\ 0 < Batch /\ 0 <= QueueSize
    BY SizesAssumption
  <2>2. 0 \in 0..MaxRetries /\ 0 \in 0..MaxStages /\ {} \subseteq {"error", "final"}
    BY SizesAssumption
  <2> QED
    BY <2>1, <2>2 DEF Init, TypeOK, Routes
<1> QED
  BY <1>1 DEF Init, TypeInv

(* The next token of a model is one of its tokens.                          *)
LEMMA TokenTyped ==
  ASSUME TypeInv, NEW r \in Routes, Tokenized(r) < MaxTokens
  PROVE  <<r, Tokenized(r) + 1>> \in Tokens
<1>1. IsFiniteSet(DOMAIN chunks)
  <2>1. Len(chunks) \in Nat /\ DOMAIN chunks = 1..Len(chunks)
    BY DEF TypeInv
  <2> QED
    BY <2>1, FS_Interval
<1>2. Tokenized(r) \in Nat
  BY <1>1, FS_Subset, FS_CardinalityType DEF Tokenized
<1> QED
  BY <1>2, SizesAssumption DEF Tokens

(* TypeInv: steps of the nodes.                                             *)
LEMMA NodesTyped == ASSUME TypeInv, Nodes PROVE TypeInv'
<1> USE SizesAssumption
<1>1. ASSUME CallSucceeds PROVE TypeInv'
  BY <1>1 DEF CallSucceeds, NodesOnly, queueVars, TypeInv, TypeOK, Routes
<1>2. ASSUME NEW retryable \in BOOLEAN, CallFails(retryable) PROVE TypeInv'
  <2>1. out' \in Seq(Items)
    BY <1>2, EndingsTyped, WriteTyped DEF CallFails, TypeInv
  <2>2. route' \in Routes /\ attempt' \in 0..MaxRetries
    BY <1>2 DEF CallFails, TypeInv, TypeOK, Routes, TriesAgain
  <2>3. graph' \in {"invoke", "ended"}
    BY <1>2 DEF CallFails, TypeInv, TypeOK
  <2> QED
    BY <1>2, <2>1, <2>2, <2>3
    DEF CallFails, NodesOnly, queueVars, TypeInv, TypeOK
<1>3. ASSUME WriteStage PROVE TypeInv'
  <2>1. out' \in Seq(Items)
    BY <1>3, EndingsTyped, WriteTyped DEF WriteStage, TypeInv
  <2> QED
    BY <1>3, <2>1
    DEF WriteStage, NodesOnly, queueVars, llmVars, TypeInv, TypeOK
<1>4. ASSUME NodeFails PROVE TypeInv'
  <2>1. out' \in Seq(Items)
    BY <1>4, EndingsTyped, WriteTyped DEF NodeFails, TypeInv
  <2> QED
    BY <1>4, <2>1
    DEF NodeFails, NodesOnly, queueVars, llmVars, TypeInv, TypeOK
<1>5. ASSUME Interpret PROVE TypeInv'
  <2>1. out' \in Seq(Items)
    BY <1>5, EndingsTyped, WriteTyped DEF Interpret, TypeInv
  <2> QED
    BY <1>5, <2>1
    DEF Interpret, NodesOnly, queueVars, llmVars, TypeInv, TypeOK
<1>6. ASSUME StreamToken PROVE TypeInv'
  <2> DEFINE token == <<route, Tokenized(route) + 1>>
             buffer == Append(batch, token)
  <2>1. token \in Tokens
    BY <1>6, TokenTyped DEF StreamToken, TypeInv, TypeOK
  <2>2. buffer \in Seq(Tokens) /\ Append(chunks, token) \in Seq(Tokens)
    BY <2>1 DEF TypeInv
  <2>3. Delta(buffer) \in Items
    BY <2>2, TextsTyped, ItemsTyped
  <2>4. /\ chunks' = Append(chunks, token)
        /\ \/ Len(buffer) >= Batch /\ batch' = <<>> /\ Write(<<Delta(buffer)>>)
           \/ ~(Len(buffer) >= Batch) /\ batch' = buffer /\ UNCHANGED out
    BY <1>6 DEF StreamToken
  <2> HIDE DEF buffer, token
  <2>5. out' \in Seq(Items)
    <3>1. <<Delta(buffer)>> \in Seq(Items)
      BY <2>3
    <3> QED
      BY <2>4, <3>1, WriteTyped DEF TypeInv
  <2>6. batch' \in Seq(Tokens) /\ Len(batch') < Batch /\ chunks' \in Seq(Tokens)
    <3>1. Len(buffer) \in Nat
      BY <2>2
    <3>2. CASE batch' = <<>>
      BY <2>2, <2>4, <3>2
    <3>3. CASE ~(Len(buffer) >= Batch) /\ batch' = buffer
      BY <2>2, <2>4, <3>1, <3>3
    <3> QED
      BY <2>4, <3>2, <3>3
  <2>7. \A k \in DOMAIN chunks' : chunks'[k] \in Tokens
    BY <2>6
  <2> QED
    BY <1>6, <2>5, <2>6, <2>7
    DEF StreamToken, NodesOnly, queueVars, TypeInv, TypeOK
<1>7. ASSUME StreamCompletes PROVE TypeInv'
  <2>1. Rest \in Seq(Items)
    BY TextsTyped, ItemsTyped DEF Rest, TypeInv
  <2>2. Answer \in Items
    BY TextsTyped, ItemsTyped DEF Answer, TypeInv
  <2>3. out' \in Seq(Items)
    <3>0. PICK end \in Endings : Write(RestAndAnswer(end))
      BY <1>7 DEF StreamCompletes
    <3> DEFINE last == <<Answer, end>>
    <3>1. last \in Seq(Items)
      BY <2>2, ItemsTyped DEF Endings
    <3>2. Write(Rest \o last)
      BY <3>0 DEF RestAndAnswer
    <3> HIDE DEF last
    <3>3. Rest \o last \in Seq(Items)
      BY <2>1, <3>1
    <3> QED
      BY <3>2, <3>3, WriteTyped
  <2> QED
    BY <1>7, <2>3 DEF StreamCompletes, NodesOnly, queueVars, TypeInv, TypeOK
<1>8. ASSUME NEW retryable \in BOOLEAN, StreamFails(retryable) PROVE TypeInv'
  <2>1. out' \in Seq(Items)
    BY <1>8, EndingsTyped, WriteTyped DEF StreamFails, TypeInv
  <2>2. route' \in Routes /\ graph' \in {"stream", "ended"}
    BY <1>8 DEF StreamFails, TypeInv, TypeOK, Routes
  <2>3. batch' \in Seq(Tokens) /\ Len(batch') < Batch
    <3>1. batch' = batch \/ batch' = <<>>
      BY <1>8 DEF StreamFails
    <3>2. <<>> \in Seq(Tokens) /\ Len(<<>>) = 0
      OBVIOUS
    <3>3. 0 < Batch
      OBVIOUS
    <3>4. batch \in Seq(Tokens) /\ Len(batch) < Batch
      BY DEF TypeInv, TypeOK
    <3> QED
      BY <3>1, <3>2, <3>3, <3>4
  <2> QED
    BY <1>8, <2>1, <2>2, <2>3
    DEF StreamFails, NodesOnly, queueVars, TypeInv, TypeOK
<1> QED
  BY <1>1, <1>2, <1>3, <1>4, <1>5, <1>6, <1>7, <1>8 DEF Nodes

(* TypeInv: the end of the producer.                                        *)
LEMMA EndTyped ==
  ASSUME TypeInv, NEW item \in Items, EndWith(item), Rested, dropped' \in BOOLEAN,
         flags' \subseteq {"error", "final"}
  PROVE  TypeInv'
<1>1. queue' \in Seq(Items) /\ Len(queue') <= QueueSize
  BY ExceptionFits DEF EndWith, TypeInv, TypeOK
<1> QED
  BY <1>1 DEF EndWith, Rested, llmVars, TypeInv, TypeOK

(* TypeInv: a put with room in the queue.                                   *)
LEMMA PutFits ==
  ASSUME TypeInv, out # <<>>, ~Full
  PROVE  /\ Head(out) \in Items
         /\ Append(queue, Head(out)) \in Seq(Items)
         /\ Len(Append(queue, Head(out))) <= QueueSize
<1>1. Head(out) \in Items /\ queue \in Seq(Items)
  BY DEF TypeInv
<1>2. Len(queue) \in Nat /\ Len(queue) < QueueSize
  BY SizesAssumption DEF Full, TypeInv
<1> QED
  BY <1>1, <1>2, SizesAssumption

(* Waiting to put, the producer has something to put.                       *)
LEMMA PuttingSomething ==
  ASSUME TypeInv, OutInv, prod = "putting"
  PROVE  out # <<>>
<1>1. graph = "ended" /\ Farewell
  BY DEF OutInv, TypeInv, TypeOK
<1> QED
  BY <1>1 DEF Farewell

(* TypeInv: steps of the producer.                                          *)
LEMMA ProducerTyped ==
  ASSUME TypeInv, OutInv, Producer \/ PutTimesOut PROVE TypeInv'
<1> USE SizesAssumption
<1>1. ASSUME ProducerStarts PROVE TypeInv'
  BY <1>1 DEF ProducerStarts, Rested, queueVars, llmVars, TypeInv, TypeOK
<1>2. ASSUME Produce PROVE TypeInv'
  <2> DEFINE item == Head(out)
  <2>1. out # <<>> /\ item \in Items /\ Tail(out) \in Seq(Items) /\ Rested
    BY <1>2 DEF Produce, TypeInv
  <2>2. CASE EndWith(item) /\ UNCHANGED <<flags, dropped>>
    BY <2>1, <2>2, EndTyped DEF TypeInv, TypeOK
  <2>3. CASE ~(EndWith(item) /\ UNCHANGED <<flags, dropped>>)
    <3>1. flags' \subseteq {"error", "final"}
      BY <1>2, <2>3 DEF Produce, TypeInv, TypeOK
    <3>2. dropped' \in BOOLEAN
      BY <1>2, <2>3 DEF Produce, TypeInv, TypeOK
    <3>3. prod' \in {"next", "putting", "over"}
      BY <1>2, <2>3 DEF Produce
    <3>4. out' \in Seq(Items)
      <4>1. out' \in {out, Tail(out), <<>>}
        BY <1>2, <2>3 DEF Produce
      <4> QED
        <5>1. out \in Seq(Items) /\ <<>> \in Seq(Items)
          BY DEF TypeInv
        <5> QED
          BY <2>1, <4>1, <5>1
    <3>5. queue' = queue \/ (~Full /\ queue' = Append(queue, item))
      BY <1>2, <2>3 DEF Produce
    <3>6. queue' \in Seq(Items) /\ Len(queue') <= QueueSize
      BY <2>1, <3>5, PutFits DEF TypeInv, TypeOK
    <3>7. graph' = graph
      BY <1>2, <2>3 DEF Produce
    <3> QED
      BY <2>1, <3>1, <3>2, <3>3, <3>4, <3>6, <3>7
      DEF Rested, llmVars, TypeInv, TypeOK
  <2> QED
    BY <2>2, <2>3
<1>3. ASSUME PutGoesOn PROVE TypeInv'
  <2>1. out # <<>>
    BY <1>3, PuttingSomething DEF PutGoesOn
  <2>2. queue' \in Seq(Items) /\ Len(queue') <= QueueSize
    BY <1>3, <2>1, PutFits DEF PutGoesOn
  <2>3. out' \in Seq(Items)
    BY <1>3, <2>1 DEF PutGoesOn, TypeInv
  <2> QED
    BY <1>3, <2>2, <2>3 DEF PutGoesOn, Rested, llmVars, TypeInv, TypeOK
<1>4. ASSUME ProducerCancelled PROVE TypeInv'
  BY <1>4, EndTyped, ItemsTyped DEF ProducerCancelled, TypeInv, TypeOK
<1>5. ASSUME PutTimesOut PROVE TypeInv'
  BY <1>5, EndTyped, ItemsTyped DEF PutTimesOut, TypeInv, TypeOK
<1> QED
  BY <1>1, <1>2, <1>3, <1>4, <1>5 DEF Producer

(* TypeInv: what is sent to the client.                                     *)
LEMMA SendTyped ==
  ASSUME TypeInv, NEW items \in Seq(Items), Send(items),
         \A k \in DOMAIN items : items[k].kind \in Events \cup {"done"}
  PROVE  /\ sent' \in Seq(Items)
         /\ \A k \in DOMAIN sent' : sent'[k].kind \in Events \cup {"done"}
BY DEF Send, TypeInv, TypeOK

(* The reports of query() are items.                                        *)
LEMMA ReportsTyped ==
  /\ <<Done>> \in Seq(Items) /\ <<Error, Done>> \in Seq(Items)
  /\ Done.kind = "done" /\ Error.kind = "error"
BY ItemsTyped DEF Done, Error, Item

(* A failure of Redis is reported as an error.                              *)
LEMMA StoreErrorReport == ErrorReport(StoreError) = <<Error, Done>>
BY DEF ErrorReport, StoreError, Item

(* TypeInv: steps of the consumer and of the others.                        *)
LEMMA OthersTyped ==
  ASSUME TypeInv,
         \/ Consumer \/ TotalTimeout \/ Disconnect \/ CompleteFails
         \/ Shutdown \/ UNCHANGED vars
  PROVE  TypeInv'
<1>1. ASSUME Read PROVE TypeInv'
  <2> DEFINE item == Head(queue)
  <2>1. /\ queue # <<>> /\ item \in Items /\ Tail(queue) \in Seq(Items)
        /\ queue' = Tail(queue) /\ Len(Tail(queue)) = Len(queue) - 1
    BY <1>1 DEF Read, TypeInv
  <2>2. \E items \in {<<item>>, <<Done>>, <<Error, Done>>} :
          /\ Send(items)
          /\ \A k \in DOMAIN items : items[k].kind \in Events \cup {"done"}
    <3>1. CASE item.kind \in Events /\ Send(<<item>>)
      BY <3>1
    <3>2. CASE Send(<<Done>>)
      BY <3>2, ReportsTyped
    <3>3. CASE Send(<<Error, Done>>)
      BY <3>3, ReportsTyped DEF Events
    <3> QED
      BY <1>1, <3>1, <3>2, <3>3 DEF Read, ErrorReport
  <2>3. /\ sent' \in Seq(Items)
        /\ \A k \in DOMAIN sent' : sent'[k].kind \in Events \cup {"done"}
    <3>1. PICK items \in {<<item>>, <<Done>>, <<Error, Done>>} :
            /\ Send(items)
            /\ \A k \in DOMAIN items : items[k].kind \in Events \cup {"done"}
      BY <2>2
    <3>2. items \in Seq(Items)
      BY <2>1, <3>1, ReportsTyped
    <3> QED
      BY <3>1, <3>2, SendTyped
  <2>4. cons' \in {"reading", "completing", "closing"}
    BY <1>1 DEF Read
  <2>5. Len(queue') <= QueueSize
    BY <2>1, SizesAssumption DEF TypeInv, TypeOK
  <2>6. queue' \in Seq(Items)
    BY <2>1
  <2> HIDE DEF item
  <2> QED
    BY <1>1, <2>3, <2>4, <2>5, <2>6 DEF Read, graphVars, llmVars, TypeInv, TypeOK
<1>2. ASSUME ReadCancelled PROVE TypeInv'
  <2>1. queue' \in Seq(Items) /\ Len(queue') <= QueueSize
    BY <1>2, SizesAssumption DEF ReadCancelled, TypeInv, TypeOK
  <2> QED
    BY <1>2, <2>1
    DEF ReadCancelled, Closing, graphVars, llmVars, TypeInv, TypeOK
<1>3. ASSUME TotalTimeout \/ CompleteFails PROVE TypeInv'
  <2>1. /\ sent' \in Seq(Items)
        /\ \A k \in DOMAIN sent' : sent'[k].kind \in Events \cup {"done"}
    <3>1. Send(<<Error, Done>>)
      BY <1>3, StoreErrorReport DEF TotalTimeout, CompleteFails
    <3>2. \A k \in DOMAIN <<Error, Done>> :
            <<Error, Done>>[k].kind \in Events \cup {"done"}
      BY ReportsTyped DEF Events
    <3> QED
      BY <3>1, <3>2, ReportsTyped, SendTyped
  <2> QED
    BY <1>3, <2>1
    DEF TotalTimeout, CompleteFails, graphVars, llmVars, queueVars, TypeInv, TypeOK
<1>4. ASSUME Disconnect \/ Close \/ Join \/ Shutdown \/ UNCHANGED vars PROVE TypeInv'
  <2>1. CASE Disconnect \/ Close
    BY <2>1 DEF Disconnect, Close, Closing, graphVars, llmVars, queueVars, TypeInv, TypeOK
  <2>2. CASE Join \/ Shutdown
    BY <2>2 DEF Join, Shutdown, Closing, graphVars, llmVars, queueVars, TypeInv, TypeOK
  <2>3. CASE UNCHANGED vars
    BY <2>3 DEF graphVars, llmVars, queueVars, vars, TypeInv, TypeOK
  <2> QED
    BY <1>4, <2>1, <2>2, <2>3
<1> QED
  BY <1>1, <1>2, <1>3, <1>4 DEF Consumer

-----------------------------------------------------------------------------
(* Facts about Tail, for the items of a queue.                              *)
LEMMA TailFacts ==
  ASSUME NEW s \in Seq(Items), s # <<>>
  PROVE  /\ Len(s) \in Nat /\ Len(s) > 0
         /\ DOMAIN s = 1..Len(s)
         /\ Head(s) = s[1]
         /\ Tail(s) \in Seq(Items) /\ Len(Tail(s)) = Len(s) - 1
         /\ DOMAIN Tail(s) = 1..(Len(s) - 1)
         /\ \A k \in 1..(Len(s) - 1) : Tail(s)[k] = s[k + 1]
OBVIOUS

(* Facts about concatenation, likewise.                                     *)
LEMMA ConcatFacts ==
  ASSUME NEW s \in Seq(Items), NEW w \in Seq(Items)
  PROVE  /\ s \o w \in Seq(Items) /\ Len(s) \in Nat /\ Len(w) \in Nat
         /\ Len(s \o w) = Len(s) + Len(w)
         /\ DOMAIN (s \o w) = 1..(Len(s) + Len(w)) /\ DOMAIN s = 1..Len(s)
         /\ \A k \in 1..Len(s) : (s \o w)[k] = s[k]
         /\ \A k \in 1..Len(w) : (s \o w)[Len(s) + k] = w[k]
OBVIOUS

(* Facts about Append, likewise.                                            *)
LEMMA AppendFacts ==
  ASSUME NEW s \in Seq(Items), NEW item \in Items
  PROVE  /\ Append(s, item) \in Seq(Items) /\ Len(s) \in Nat
         /\ Len(Append(s, item)) = Len(s) + 1
         /\ DOMAIN Append(s, item) = 1..(Len(s) + 1) /\ DOMAIN s = 1..Len(s)
         /\ \A k \in 1..Len(s) : Append(s, item)[k] = s[k]
         /\ Append(s, item)[Len(s) + 1] = item
OBVIOUS

(* The kinds of the items, and which outcome goes with which end.           *)
LEMMA KindOf ==
  /\ Stage.kind = "stage" /\ Error.kind = "error" /\ Done.kind = "done"
  /\ EndOfGraph.kind = "end" /\ Cancelled.kind = "cancelled"
  /\ Raised.kind = "exception" /\ RaisedAfterError.kind = "reported"
  /\ StoreError.kind = "storeError"
  /\ \A t : Delta(t).kind = "delta" /\ Final(t).kind = "final"
  /\ Outcome(RaisedAfterError, recorded) = {"error"} /\ Outcome(Raised, recorded) = {}
  /\ \A last \in {EndOfGraph, StoreError} :
       Outcome(last, recorded) = IF recorded THEN {} ELSE {"final"}
BY DEF Stage, Error, Done, EndOfGraph, Cancelled, Raised, RaisedAfterError,
       StoreError, Delta, Final, Item, Outcome

(* A graph that ends leaves, after events, its end with what belongs to it. *)
LEMMA FarewellAfterPlain ==
  ASSUME NEW s \in Seq(Items), Plain(s),
         NEW w \in Seq(Items), recorded' = recorded,
         \/ w = <<Raised>>
         \/ w = <<Error, RaisedAfterError>>
         \/ w = <<EndOfGraph>> /\ recorded
         \/ ~recorded /\ \E t : \E end \in Endings : w = <<Final(t), end>>,
         out' = s \o w, flags' = {}, prod' = "next"
  PROVE  Farewell'
<1> DEFINE o == s \o w
           n == Len(s) + Len(w)
<1>1. /\ Len(s) \in Nat /\ Len(o) = n
      /\ \A k \in 1..Len(s) : o[k] = s[k] /\ s[k].kind \in {"stage", "delta"}
      /\ \A k \in 1..Len(w) : o[Len(s) + k] = w[k]
  BY ConcatFacts DEF Plain
<1>2. CASE w = <<Raised>> \/ (w = <<EndOfGraph>> /\ recorded)
  <2>1. Len(w) = 1 /\ w[1] \in {Raised, EndOfGraph} /\ Outcome(w[1], recorded) = {}
    BY <1>2, KindOf
  <2>2. n = Len(s) + 1 /\ o[n] = w[1]
    BY <1>1, <2>1
  <2>3. \A k \in 1..(n - 1) : o[k].kind \in {"stage", "delta"}
    BY <1>1, <2>2
  <2>4. Outcome(o[n], recorded) = {}
    BY <2>1, <2>2
  <2> QED
    BY <1>1, <2>1, <2>2, <2>3, <2>4 DEF Farewell
<1>3. ASSUME NEW x, NEW e, w = <<x, e>>,
             e \in {EndOfGraph, RaisedAfterError, StoreError},
             x.kind \in Outcome(e, recorded)
      PROVE  Farewell'
  <2>1. Len(w) = 2 /\ w[1] = x /\ w[2] = e
    BY <1>3
  <2>2. n = Len(s) + 2 /\ o[n] = e /\ o[n - 1] = x
    BY <1>1, <2>1
  <2>3. \A k \in 1..(n - 1) : k # n - 1 => o[k].kind \in {"stage", "delta"}
    BY <1>1, <2>2
  <2>4. Outcome(e, recorded) # {}
    BY <1>3
  <2>5. n > 1 /\ prod' # "putting" /\ ~(n = 1 \/ (n = 2 /\ prod' = "putting"))
    BY <1>1, <2>2
  <2> QED
    BY <1>1, <1>3, <2>2, <2>3, <2>4, <2>5 DEF Farewell
<1>4. Endings \subseteq {EndOfGraph, StoreError}
  BY DEF Endings
<1> QED
  BY <1>2, <1>3, <1>4, KindOf

(* OutInv: steps of the nodes.                                              *)
LEMMA NodesOutInv == ASSUME TypeInv, OutInv, Nodes PROVE OutInv'
<1>1. /\ prod = "next" /\ prod' = prod /\ flags' = flags
      /\ recorded' = recorded
      /\ graph # "ended" => Plain(out) /\ flags = {}
  <2>1. Running /\ graph # "ended"
    BY DEF Nodes, CallSucceeds, WriteStage, NodeFails, Interpret, StreamToken,
           StreamCompletes, CallFails, StreamFails
  <2>2. NodesOnly
    BY DEF Nodes, CallSucceeds, WriteStage, NodeFails, Interpret, StreamToken,
           StreamCompletes, CallFails, StreamFails
  <2> QED
    BY <2>1, <2>2 DEF OutInv, Running, NodesOnly, queueVars
<1>2. ASSUME graph' = "ended", Farewell' PROVE OutInv'
  BY <1>1, <1>2 DEF OutInv
<1>3. ASSUME graph # "ended", graph' # "ended", graph' = "stream" => ~recorded,
             NEW w \in Seq(Items), Plain(w), Write(w) \/ UNCHANGED out
      PROVE  OutInv'
  <2>1. out \in Seq(Items)
    BY DEF TypeInv
  <2>2. CASE Write(w)
    <3>1. Plain(out')
      BY <1>1, <1>3, <2>1, <2>2, ConcatFacts DEF Write, Plain
    <3> QED
      BY <1>1, <1>3, <3>1 DEF OutInv
  <2>3. CASE UNCHANGED out
    BY <1>1, <1>3, <2>3 DEF OutInv, Plain
  <2> QED
    BY <1>3, <2>2, <2>3
<1>4. ASSUME graph # "ended", graph' = "ended",
             NEW w \in Seq(Items), Write(w),
             \/ w = <<Raised>>
             \/ w = <<Error, RaisedAfterError>>
             \/ w = <<EndOfGraph>> /\ recorded
             \/ ~recorded /\ \E t : \E end \in Endings : w = <<Final(t), end>>
      PROVE  OutInv'
  BY <1>1, <1>2, <1>4, FarewellAfterPlain DEF Write, TypeInv
<1>5. <<>> \in Seq(Items) /\ Plain(<<>>)
  BY DEF Plain
<1>6. ASSUME CallSucceeds PROVE OutInv'
  BY <1>3, <1>5, <1>6 DEF CallSucceeds
<1>7. ASSUME NEW retryable \in BOOLEAN, CallFails(retryable) PROVE OutInv'
  BY <1>3, <1>4, <1>5, <1>7, EndingsTyped DEF CallFails
<1>8. ASSUME WriteStage PROVE OutInv'
  <2>1. Plain(<<Stage>>)
    BY KindOf DEF Plain
  <2> QED
    BY <1>3, <1>8, <2>1, EndingsTyped DEF WriteStage
<1>9. ASSUME NodeFails PROVE OutInv'
  BY <1>4, <1>9, EndingsTyped DEF NodeFails
<1>10. ASSUME Interpret PROVE OutInv'
  BY <1>3, <1>4, <1>5, <1>10, EndingsTyped DEF Interpret
<1>11. ASSUME StreamToken PROVE OutInv'
  <2>1. PICK buffer \in Seq(Tokens) : Write(<<Delta(buffer)>>) \/ UNCHANGED out
    <3> DEFINE token == <<route, Tokenized(route) + 1>>
               buffer == Append(batch, token)
    <3>1. token \in Tokens
      BY <1>11, TokenTyped DEF StreamToken, TypeInv, TypeOK
    <3>2. buffer \in Seq(Tokens)
      BY <3>1 DEF TypeInv
    <3>3. Write(<<Delta(buffer)>>) \/ UNCHANGED out
      BY <1>11 DEF StreamToken
    <3> QED
      BY <3>2, <3>3
  <2>2. <<Delta(buffer)>> \in Seq(Items) /\ Plain(<<Delta(buffer)>>)
    BY TextsTyped, ItemsTyped, KindOf DEF Plain
  <2> QED
    BY <1>3, <1>11, <2>1, <2>2 DEF StreamToken, OutInv
<1>12. ASSUME StreamCompletes PROVE OutInv'
  <2>0. PICK end \in Endings : Write(RestAndAnswer(end))
    BY <1>12 DEF StreamCompletes
  <2> DEFINE t == IF chunks = <<>> THEN Template ELSE chunks
             last == <<Final(t), end>>
  <2>1. Rest \in Seq(Items) /\ Plain(Rest)
    <3>1. <<Delta(batch)>> \in Seq(Items) /\ Plain(<<Delta(batch)>>)
      BY TextsTyped, ItemsTyped, KindOf DEF Plain, TypeInv
    <3> QED
      BY <1>5, <3>1 DEF Rest
  <2>2. last \in Seq(Items)
    <3>1. t \in Seq(Words)
      BY TextsTyped DEF TypeInv
    <3>2. Final(t) \in Items
      BY <3>1, ItemsTyped
    <3> QED
      BY <3>2, ItemsTyped DEF Endings
  <2>3. graph # "ended" /\ graph' = "ended" /\ Write(Rest \o last)
    BY <1>12, <2>0 DEF StreamCompletes, RestAndAnswer, Answer
  <2>4. \E x : \E e \in Endings : last = <<Final(x), e>>
    OBVIOUS
  <2> HIDE DEF last
  <2>5. out \o Rest \in Seq(Items) /\ Plain(out \o Rest)
    <3>1. out \in Seq(Items) /\ Plain(out)
      BY <1>1, <2>3 DEF TypeInv
    <3> HIDE DEF Rest
    <3> QED
      BY <2>1, <3>1, ConcatFacts DEF Plain
  <2>6. out' = (out \o Rest) \o last
    <3>1. out \in Seq(Items)
      BY DEF TypeInv
    <3>2. out' = out \o (Rest \o last)
      BY <2>3 DEF Write
    <3>3. Rest \in Seq(Items)
      BY <2>1
    <3> HIDE DEF Rest
    <3>4. out \o (Rest \o last) = (out \o Rest) \o last
      BY <2>2, <3>1, <3>3, ConcatAssociative, SMTT(30)
    <3> QED
      BY <3>2, <3>4
  <2>7. flags' = {} /\ prod' = "next" /\ recorded' = recorded /\ ~recorded
    BY <1>1, <1>12, <2>3 DEF StreamCompletes, OutInv
  <2>8. Farewell'
    BY <2>2, <2>4, <2>5, <2>6, <2>7, FarewellAfterPlain
  <2> QED
    BY <1>2, <2>3, <2>8
<1>13. ASSUME NEW retryable \in BOOLEAN, StreamFails(retryable) PROVE OutInv'
  BY <1>3, <1>4, <1>5, <1>13, EndingsTyped DEF StreamFails, OutInv
<1> QED
  BY <1>6, <1>7, <1>8, <1>9, <1>10, <1>11, <1>12, <1>13 DEF Nodes

(* What the first item of a farewell tells of its length.                   *)
LEMMA FarewellHead ==
  ASSUME TypeInv, Farewell
  PROVE  /\ out # <<>> /\ Len(out) \in Nat /\ Head(out) = out[1]
         /\ Head(out).kind \in Ends => Len(out) = 1
         /\ Head(out).kind \in {"error", "final"} =>
              Len(out) = 2 /\ Outcome(out[2], recorded) = {Head(out).kind}
         /\ Head(out).kind \in {"stage", "delta"} =>
              Len(out) > 1 /\ (Len(out) = 2 => Outcome(out[2], recorded) = {})
<1> DEFINE n == Len(out)
<1>1. out # <<>> /\ n \in Nat /\ Head(out) = out[1] /\ n > 0
  BY TailFacts DEF Farewell, TypeInv
<1>2. /\ out[n] \in {EndOfGraph, Raised, RaisedAfterError, StoreError}
      /\ out[n].kind \in Ends /\ Outcome(out[n], recorded) \in {{}, {"final"}, {"error"}}
  BY KindOf DEF Farewell, Ends, Exceptions
<1>3. \A k \in 1..(n - 1) :
        \/ /\ k = n - 1 /\ Outcome(out[n], recorded) # {}
           /\ out[k].kind \in Outcome(out[n], recorded)
        \/ /\ ~(k = n - 1 /\ Outcome(out[n], recorded) # {})
           /\ out[k].kind \in {"stage", "delta"}
  BY DEF Farewell
<1>4. CASE n = 1
  BY <1>1, <1>2, <1>4 DEF Ends, Exceptions
<1>5. CASE n > 1
  <2>1. \/ /\ 1 = n - 1 /\ Outcome(out[n], recorded) # {}
           /\ out[1].kind \in Outcome(out[n], recorded)
        \/ /\ ~(1 = n - 1 /\ Outcome(out[n], recorded) # {})
           /\ out[1].kind \in {"stage", "delta"}
    <3>1. 1 \in 1..(n - 1)
      BY <1>1, <1>5
    <3> QED
      BY <1>3, <3>1
  <2>2. CASE /\ n = 2 /\ Outcome(out[n], recorded) # {}
             /\ out[1].kind \in Outcome(out[n], recorded)
    <3>1. out[1].kind \in {"error", "final"} /\ Outcome(out[2], recorded) = {out[1].kind}
      BY <1>2, <2>2
    <3> QED
      BY <1>1, <2>2, <3>1 DEF Ends, Exceptions
  <2>3. CASE /\ ~(n = 2 /\ Outcome(out[n], recorded) # {})
             /\ out[1].kind \in {"stage", "delta"}
    BY <1>1, <1>2, <1>5, <2>3 DEF Ends, Exceptions
  <2> QED
    BY <1>1, <2>1, <2>2, <2>3
<1>6. n = 1 \/ n > 1
  <2>1. n \in Nat /\ n > 0
    BY <1>1
  <2> HIDE DEF n
  <2> QED
    BY <2>1
<1> QED
  BY <1>1, <1>4, <1>5, <1>6

(* A farewell without its first event is one.                               *)
LEMMA FarewellTail ==
  ASSUME TypeInv, Farewell, Head(out).kind \in Events,
         out' = Tail(out), prod' = "next", recorded' = recorded,
         flags' = IF Len(out) = 2 THEN Outcome(out[2], recorded) ELSE {}
  PROVE  Farewell'
<1> DEFINE n == Len(out)
<1>1. n \in Nat /\ n > 1
  BY FarewellHead DEF Events, TypeInv
<1>2. /\ Len(out') = n - 1 /\ out'[n - 1] = out[n]
      /\ \A k \in 1..(n - 1) : out'[k] = out[k + 1]
  BY <1>1, TailFacts DEF TypeInv
<1>3. out'[n - 1] \in {EndOfGraph, Raised, RaisedAfterError, StoreError}
  BY <1>2 DEF Farewell
<1>4. ASSUME NEW k \in 1..((n - 1) - 1)
      PROVE  IF k = (n - 1) - 1 /\ Outcome(out'[n - 1], recorded) # {}
             THEN out'[k].kind \in Outcome(out'[n - 1], recorded)
             ELSE out'[k].kind \in {"stage", "delta"}
  <2>1. k + 1 \in 1..(n - 1) /\ (k + 1 = n - 1 <=> k = (n - 1) - 1)
    BY <1>1
  <2>2. IF k + 1 = n - 1 /\ Outcome(out[n], recorded) # {}
        THEN out[k + 1].kind \in Outcome(out[n], recorded)
        ELSE out[k + 1].kind \in {"stage", "delta"}
    BY <2>1 DEF Farewell
  <2>3. out'[k] = out[k + 1] /\ out'[n - 1] = out[n]
    BY <1>1, <1>2
  <2> QED
    BY <2>1, <2>2, <2>3
<1>5. flags' = IF n - 1 = 1 \/ (n - 1 = 2 /\ prod' = "putting")
               THEN Outcome(out'[n - 1], recorded) ELSE {}
  <2>1. n = 2 => out'[n - 1] = out[2]
    BY <1>2
  <2> QED
    BY <1>1, <2>1
<1>6. /\ Len(out') > 0 /\ prod' # "putting"
      /\ out'[Len(out')] \in {EndOfGraph, Raised, RaisedAfterError, StoreError}
  BY <1>1, <1>2, <1>3
<1>7. \A k \in 1..(Len(out') - 1) :
        IF k = Len(out') - 1 /\ Outcome(out'[Len(out')], recorded') # {}
        THEN out'[k].kind \in Outcome(out'[Len(out')], recorded')
        ELSE out'[k].kind \in {"stage", "delta"}
  BY <1>2, <1>4
<1>8. flags' = IF Len(out') = 1 \/ (Len(out') = 2 /\ prod' = "putting")
               THEN Outcome(out'[Len(out')], recorded') ELSE {}
  BY <1>2, <1>5
<1> QED
  BY <1>6, <1>7, <1>8 DEF Farewell

(* OutInv: steps of the producer.                                           *)
LEMMA ProducerOutInv ==
  ASSUME TypeInv, OutInv, Producer \/ PutTimesOut PROVE OutInv'
<1>0. recorded' = recorded
  BY DEF Producer, PutTimesOut, ProducerStarts, Produce, PutGoesOn,
         ProducerCancelled, Rested
<1>1. ASSUME ProducerStarts PROVE OutInv'
  BY <1>0, <1>1 DEF ProducerStarts, queueVars, OutInv, Plain
<1>2. ASSUME NEW item, EndWith(item) PROVE OutInv'
  BY <1>2 DEF EndWith, OutInv
<1>3. ASSUME Produce, ~EndWith(Head(out)) PROVE OutInv'
  <2> DEFINE item == Head(out)
  <2>1. prod = "next" /\ out # <<>> /\ out \in Seq(Items) /\ graph' = graph
    BY <1>3 DEF Produce, TypeInv
  <2>2. CASE graph # "ended"
    <3>1. Plain(out) /\ flags = {}
      BY <2>1, <2>2 DEF OutInv
    <3>2. item.kind \in {"stage", "delta"} /\ Plain(Tail(out))
      BY <2>1, <3>1, TailFacts DEF Plain
    <3>3. item # EndOfGraph /\ ~Critical(item) /\ ~Suppressed(item)
      BY <3>2, KindOf DEF Critical, Suppressed
    <3>4. flags' = {} /\ prod' = "next" /\ out' = Tail(out)
      BY <1>3, <2>1, <3>1, <3>2, <3>3 DEF Produce
    <3> QED
      BY <1>0, <2>1, <2>2, <3>2, <3>4 DEF OutInv, Plain
  <2>3. CASE graph = "ended" /\ item.kind \in Events
    <3>1. Farewell
      BY <2>1, <2>3 DEF OutInv
    <3>2. /\ Len(out) \in Nat /\ Len(out) > 1
          /\ Len(out) = 2 => Outcome(out[2], recorded) = {item.kind} \cap {"error", "final"}
          /\ item.kind \in {"error", "final"} => Len(out) = 2
      <4>1. CASE item.kind \in {"error", "final"}
        <5>1. {item.kind} \cap {"error", "final"} = {item.kind}
          BY <4>1
        <5>2. Len(out) = 2 /\ Outcome(out[2], recorded) = {item.kind}
          BY <3>1, <4>1, FarewellHead
        <5> QED
          BY <5>1, <5>2
      <4>2. CASE item.kind \in {"stage", "delta"}
        <5>1. {item.kind} \cap {"error", "final"} = {}
          BY <4>2
        <5>2. Len(out) \in Nat /\ Len(out) > 1
              /\ (Len(out) = 2 => Outcome(out[2], recorded) = {})
          BY <3>1, <4>2, FarewellHead
        <5> QED
          BY <4>2, <5>1, <5>2
      <4> QED
        BY <2>3, <4>1, <4>2 DEF Events
    <3>3. flags = {} /\ ~Suppressed(item)
      BY <2>1, <3>1, <3>2 DEF Farewell, Suppressed
    <3>4. flags' = {item.kind} \cap {"error", "final"}
      BY <1>3, <2>3, <3>3, KindOf DEF Produce, Events, Exceptions
    <3>5. flags' = IF Len(out) = 2 THEN Outcome(out[2], recorded) ELSE {}
      BY <3>2, <3>4
    <3>6. CASE prod' = "next" /\ out' = Tail(out)
      BY <1>0, <2>1, <2>3, <3>1, <3>5, <3>6, FarewellTail DEF OutInv
    <3>7. CASE prod' = "putting" /\ out' = out /\ Critical(item)
      <4>1. Head(out) = out[1] /\ Len(out) = 2
        BY <2>1, <3>2, <3>7, TailFacts DEF Critical
      <4>2. Farewell'
        BY <1>0, <3>1, <3>5, <3>7, <4>1 DEF Farewell, Critical
      <4> QED
        BY <2>1, <2>3, <3>7, <4>2 DEF OutInv
    <3> QED
      BY <1>3, <2>1, <2>3, <3>3, <3>6, <3>7, KindOf DEF Produce, Events, Exceptions
  <2>4. CASE graph = "ended" /\ item.kind \notin Events
    <3>1. Farewell
      BY <2>1, <2>4 DEF OutInv
    <3>2. item = EndOfGraph
      BY <1>3, <2>4 DEF Produce
    <3>3. Len(out) = 1 /\ Head(out) = out[1]
      BY <3>1, <3>2, FarewellHead, KindOf DEF Ends, Exceptions
    <3>4. flags' = flags
      BY <1>3, <2>4, <3>2 DEF Produce
    <3>5. CASE prod' = "putting" /\ out' = out
      BY <1>0, <2>1, <2>4, <3>1, <3>2, <3>3, <3>4, <3>5, KindOf DEF OutInv, Farewell
    <3>6. CASE prod' = "over" /\ out' = <<>>
      BY <2>1, <2>4, <3>6 DEF OutInv
    <3> QED
      BY <1>3, <2>1, <2>4, <3>2, <3>5, <3>6 DEF Produce
  <2> QED
    BY <2>2, <2>3, <2>4
<1>4. ASSUME PutGoesOn PROVE OutInv'
  <2> DEFINE item == Head(out)
  <2>1. Farewell /\ graph = "ended" /\ graph' = graph /\ flags' = flags
    BY <1>4 DEF PutGoesOn, OutInv, TypeInv, TypeOK
  <2>2. prod = "putting" /\ out' = Tail(out) /\ Head(out) = out[1] /\ out # <<>>
    BY <1>4, <2>1, FarewellHead DEF PutGoesOn
  <2>3. item.kind \in {"error", "final", "end"}
    BY <2>1, <2>2 DEF Farewell
  <2>4. CASE item = EndOfGraph
    <3>1. Len(out) = 1
      BY <2>1, <2>4, FarewellHead, KindOf DEF Ends, Exceptions
    <3>2. out' = <<>>
      BY <2>2, <3>1, TailFacts, EmptySeq DEF TypeInv
    <3> QED
      BY <1>4, <2>4, <3>2 DEF PutGoesOn, OutInv
  <2>5. CASE item # EndOfGraph
    <3>1. item.kind # "end"
      <4>1. item.kind = "end" => Len(out) = 1
        BY <2>1, FarewellHead DEF Ends, Exceptions
      <4>2. Len(out) = 1 => out[1] \in {EndOfGraph, Raised, RaisedAfterError, StoreError}
        BY <2>1 DEF Farewell
      <4> QED
        BY <2>2, <2>5, <4>1, <4>2, KindOf
    <3>2. Len(out) = 2
      BY <2>1, <2>3, <3>1, FarewellHead
    <3>3. flags' = Outcome(out[2], recorded)
      BY <2>1, <2>2, <3>2 DEF Farewell
    <3>4. prod' = "next"
      BY <1>4, <2>5 DEF PutGoesOn
    <3>5. item.kind \in Events
      BY <2>3, <3>1 DEF Events
    <3>6. Farewell'
      BY <1>0, <2>1, <2>2, <3>2, <3>3, <3>4, <3>5, FarewellTail
    <3> QED
      BY <2>1, <3>4, <3>6 DEF OutInv
  <2> QED
    BY <2>4, <2>5
<1> QED
  BY <1>1, <1>2, <1>3, <1>4
  DEF Producer, PutTimesOut, ProducerCancelled

(* OutInv: nobody else touches what it is about.                            *)
LEMMA OthersOutInv ==
  ASSUME OutInv,
         \/ Consumer \/ TotalTimeout \/ Disconnect \/ CompleteFails
         \/ Shutdown \/ UNCHANGED vars
  PROVE  OutInv'
<1>1. UNCHANGED <<recorded, graph, out, prod, flags>>
  BY DEF Consumer, Read, ReadCancelled, Close, Join, TotalTimeout, Disconnect,
         CompleteFails, Shutdown, vars, graphVars, queueVars
<1> QED
  BY <1>1 DEF OutInv, Plain, Farewell

-----------------------------------------------------------------------------
(* What Append does to the number of items of a kind.                       *)
LEMMA AppendKinds ==
  ASSUME NEW s \in Seq(Items), NEW item \in Items, NEW kind
  PROVE  /\ Lacks(Append(s, item), kind) <=> Lacks(s, kind) /\ item.kind # kind
         /\ Sole(s, kind) /\ item.kind # kind => Sole(Append(s, item), kind)
         /\ Lacks(s, kind) => Sole(Append(s, item), kind)
         /\ Has(s, kind) => Has(Append(s, item), kind)
         /\ item.kind = kind => Has(Append(s, item), kind)
<1> DEFINE t == Append(s, item)
<1>1. /\ DOMAIN t = 1..(Len(s) + 1) /\ DOMAIN s = 1..Len(s) /\ Len(s) \in Nat
      /\ \A k \in 1..Len(s) : t[k] = s[k]
      /\ t[Len(s) + 1] = item
  BY AppendFacts
<1> HIDE DEF t
<1>2. \A k \in DOMAIN t : k \in DOMAIN s \/ k = Len(s) + 1
  BY <1>1
<1>3. \A k \in DOMAIN s : k \in DOMAIN t
  BY <1>1
<1>4. Len(s) + 1 \in DOMAIN t
  BY <1>1
<1>5. Lacks(t, kind) <=> Lacks(s, kind) /\ item.kind # kind
  BY <1>1, <1>2, <1>3, <1>4 DEF Lacks
<1>6. Sole(s, kind) /\ item.kind # kind => Sole(t, kind)
  BY <1>1, <1>2 DEF Sole
<1>7. Lacks(s, kind) => Sole(t, kind)
  BY <1>1, <1>2 DEF Sole, Lacks
<1>8. Has(s, kind) => Has(t, kind)
  BY <1>1, <1>3 DEF Has
<1>9. item.kind = kind => Has(t, kind)
  BY <1>1, <1>4 DEF Has
<1> QED
  BY <1>5, <1>6, <1>7, <1>8, <1>9 DEF t

(* What Tail does to it.                                                    *)
LEMMA TailKinds ==
  ASSUME NEW s \in Seq(Items), s # <<>>, NEW kind
  PROVE  /\ Lacks(s, kind) => Lacks(Tail(s), kind) /\ Head(s).kind # kind
         /\ Sole(s, kind) => Sole(Tail(s), kind)
         /\ Sole(s, kind) /\ Head(s).kind = kind => Lacks(Tail(s), kind)
         /\ Has(s, kind) /\ Head(s).kind # kind => Has(Tail(s), kind)
<1> DEFINE t == Tail(s)
           n == Len(s)
<1>1. /\ n \in Nat /\ n > 0 /\ DOMAIN s = 1..n /\ Head(s) = s[1]
      /\ DOMAIN t = 1..(n - 1)
      /\ \A k \in 1..(n - 1) : t[k] = s[k + 1]
  BY TailFacts
<1> HIDE DEF t, n
<1>2. \A k \in DOMAIN t : k + 1 \in DOMAIN s /\ t[k] = s[k + 1] /\ k + 1 # 1
  BY <1>1
<1>3. 1 \in DOMAIN s
  BY <1>1
<1>4. Lacks(s, kind) => Lacks(t, kind) /\ Head(s).kind # kind
  BY <1>1, <1>2, <1>3 DEF Lacks
<1>5. Sole(s, kind) => Sole(t, kind)
  <2> SUFFICES ASSUME Sole(s, kind), NEW j \in DOMAIN t, NEW k \in DOMAIN t,
                      t[j].kind = kind, t[k].kind = kind
               PROVE  j = k
    BY DEF Sole
  <2>1. j + 1 = k + 1
    BY <1>2 DEF Sole
  <2> QED
    BY <1>1, <2>1
<1>6. Sole(s, kind) /\ Head(s).kind = kind => Lacks(t, kind)
  BY <1>1, <1>2, <1>3 DEF Sole, Lacks
<1>7. Has(s, kind) /\ Head(s).kind # kind => Has(t, kind)
  <2> SUFFICES ASSUME Head(s).kind # kind, NEW k \in DOMAIN s, s[k].kind = kind
               PROVE  Has(t, kind)
    BY DEF Has
  <2>1. k # 1
    BY <1>1
  <2>2. k - 1 \in 1..(n - 1) /\ (k - 1) + 1 = k
    BY <1>1, <2>1
  <2> QED
    BY <1>1, <2>2 DEF Has
<1> QED
  BY <1>4, <1>5, <1>6, <1>7 DEF t

(* Items of a kind that are at most one count for one at most.              *)
LEMMA CountOfSole ==
  ASSUME TypeInv, NEW kind, Sole(sent, kind)
  PROVE  /\ Count(kind) \in Nat /\ Count(kind) <= 1
         /\ Has(sent, kind) => Count(kind) = 1
<1>1. CASE Sent(kind) = {}
  <2>1. Cardinality({}) = 0
    BY FS_EmptySet
  <2>2. ~Has(sent, kind)
    BY <1>1 DEF Sent, Has
  <2> QED
    BY <1>1, <2>1, <2>2 DEF Count
<1>2. CASE Sent(kind) # {}
  <2>1. PICK k \in Sent(kind) : TRUE
    BY <1>2
  <2>2. Sent(kind) = {k}
    BY <2>1 DEF Sent, Sole
  <2>3. Cardinality({k}) = 1
    BY FS_Singleton
  <2> QED
    BY <2>2, <2>3 DEF Count
<1> QED
  BY <1>1, <1>2

(* While the query reads, the client has no two errors and is not told that *)
(* it is done.                                                              *)
LEMMA WhileReading ==
  ASSUME TypeInv, ReadingInv, cons = "reading"
  PROVE  Sole(sent, "error") /\ Lacks(sent, "done")
<1>1. CASE prod = "over"
  <2>1. AtMostOnce("error")
    BY <1>1 DEF ReadingInv, OverInv
  <2> QED
    BY <2>1 DEF ReadingInv, AtMostOnce, Sole, Lacks
<1>2. CASE prod # "over"
  <2>1. Once("error") \/ Lacks(sent, "error")
    BY <1>2 DEF ReadingInv, OpenInv
  <2> QED
    BY <2>1 DEF ReadingInv, Once, Sole, Lacks
<1> QED
  BY <1>1, <1>2

(* Nothing that leaves the client and the loop alone changes what is told.  *)
LEMMA ToldUnchanged ==
  ASSUME ToldInv, UNCHANGED <<recorded, cons, sent, timedOut>>
  PROVE  ToldInv'
BY DEF ToldInv, OneError, SuccessHasAnswer, FailureReported, Succeeded, Count, Sent,
       Sole, Lacks

(* ReadingInv: steps of the nodes, which pass nothing on.                   *)
LEMMA NodesReadingInv ==
  ASSUME TypeInv, OutInv, OutInv', TypeInv', ReadingInv, Nodes
  PROVE  ReadingInv'
<1>1. NodesOnly /\ graph # "ended" /\ Running
  BY DEF Nodes, CallSucceeds, WriteStage, NodeFails, Interpret, StreamToken,
         StreamCompletes, CallFails, StreamFails
<1>2. flags = {} /\ flags' = {} /\ PassedOn = {}
  BY <1>1 DEF OutInv, NodesOnly, queueVars, PassedOn, Running
<1>3. PassedOn' = {}
  BY <1>2 DEF OutInv, Farewell, PassedOn
<1>4. prod # "over" /\ prod' # "over"
  BY <1>1 DEF Running, NodesOnly
<1>5. UNCHANGED <<recorded, prod, queue, cons, timedOut, sent>>
  BY <1>1 DEF NodesOnly, queueVars
<1> QED
  BY <1>2, <1>3, <1>4, <1>5 DEF ReadingInv, OpenInv, Lacks, Open

(* An execution that had got past its answer passes none on.                *)
LEMMA NoAnswerPassedOn == recorded => "final" \notin PassedOn
BY DEF PassedOn, Outcome

(* How the graph ends goes into the queue, the oldest item gives way.       *)
LEMMA EndReading ==
  ASSUME TypeInv, OpenInv, recorded' = recorded,
         NEW item \in {Raised, RaisedAfterError, StoreError, Cancelled},
         queue' = WithException(queue, item), sent' = sent,
         item \in {Raised, StoreError} => "error" \notin PassedOn,
         item = RaisedAfterError => "error" \in PassedOn
  PROVE  OverInv'
<1> DEFINE q == IF Len(queue) >= QueueSize THEN Tail(queue) ELSE queue
<1>1. queue \in Seq(Items) /\ sent \in Seq(Items) /\ item \in Items
      /\ Len(queue) \in Nat /\ QueueSize \in Nat \ {0}
  BY ItemsTyped, SizesAssumption DEF TypeInv
<1>2. Len(queue) >= QueueSize => queue # <<>>
  BY <1>1
<1>3. q \in Seq(Items)
  BY <1>1, <1>2, TailFacts
<1>4. \A kind : (Lacks(queue, kind) => Lacks(q, kind))
                /\ (Sole(queue, kind) => Sole(q, kind))
  BY <1>1, <1>2, TailKinds
<1>5. Open(q)
  <2>1. Open(queue)
    BY DEF OpenInv
  <2>2. ASSUME queue # <<>> PROVE Open(Tail(queue))
    BY <1>1, <2>1, <2>2, TailFacts DEF Open
  <2> QED
    BY <1>2, <2>1, <2>2
<1>6. QueueSize > 1 /\ queue # <<>> /\ queue[Len(queue)].kind = "error"
        => Has(q, "error")
  <2> SUFFICES ASSUME QueueSize > 1, queue # <<>>, queue[Len(queue)].kind = "error"
               PROVE  Has(q, "error")
    OBVIOUS
  <2>1. Len(queue) > 0 /\ DOMAIN queue = 1..Len(queue)
    BY <1>1, TailFacts
  <2>2. CASE Len(queue) >= QueueSize
    <3>1. /\ Len(queue) - 1 \in 1..(Len(queue) - 1)
          /\ (Len(queue) - 1) + 1 = Len(queue)
      BY <1>1, <2>2
    <3>2. /\ DOMAIN Tail(queue) = 1..(Len(queue) - 1)
          /\ Tail(queue)[Len(queue) - 1] = queue[Len(queue)]
      BY <1>1, <3>1, TailFacts
    <3> QED
      BY <2>2, <3>1, <3>2 DEF Has
  <2>3. CASE ~(Len(queue) >= QueueSize)
    BY <1>1, <2>1, <2>3 DEF Has
  <2> QED
    BY <2>2, <2>3
<1>7. queue' = Append(q, item)
  BY DEF WithException
<1> HIDE DEF q
<1>8. item.kind \in {"cancelled"} \cup Exceptions
  BY KindOf DEF Exceptions
<1>9. /\ Len(queue') = Len(q) + 1 /\ Len(q) \in Nat
      /\ queue'[Len(q) + 1] = item
      /\ \A k \in 1..Len(q) : queue'[k].kind \in Events
  BY <1>1, <1>3, <1>5, <1>7, AppendFacts DEF Open
<1>10. \A kind \in {"error", "final"} :
         /\ Lacks(queue, kind) => Lacks(queue', kind)
         /\ Sole(queue, kind) => Sole(queue', kind)
         /\ Has(q, kind) => Has(queue', kind)
  BY <1>1, <1>3, <1>4, <1>7, <1>8, AppendKinds DEF Exceptions
<1>11. AtMostOnce("error")'
  <2>1. CASE "error" \in PassedOn
    <3>1. Once("error")
      BY <2>1 DEF OpenInv
    <3> QED
      BY <1>10, <3>1 DEF Once, AtMostOnce, Lacks, Sole
  <2>2. CASE "error" \notin PassedOn
    <3>1. Lacks(sent, "error") /\ Lacks(queue, "error")
      BY <2>2 DEF OpenInv
    <3> QED
      BY <1>10, <3>1 DEF AtMostOnce, Lacks, Sole
  <2> QED
    BY <2>1, <2>2
<1>12. item \in {Raised, StoreError} =>
         Lacks(sent', "error") /\ Lacks(queue', "error")
  BY <1>10 DEF OpenInv
<1>13. item = RaisedAfterError /\ QueueSize > 1 => Once("error")'
  <2> SUFFICES ASSUME item = RaisedAfterError, QueueSize > 1 PROVE Once("error")'
    OBVIOUS
  <2>1. /\ Once("error")
        /\ Lacks(sent, "error") =>
             queue # <<>> /\ queue[Len(queue)].kind = "error"
    BY DEF OpenInv
  <2>2. CASE Lacks(queue, "error") /\ Sole(sent, "error") /\ Sent("error") # {}
    <3>1. Lacks(queue', "error")
      BY <1>10, <2>2
    <3> QED
      BY <2>2, <3>1 DEF Once, Sent, Sole
  <2>3. CASE Lacks(sent, "error") /\ Sole(queue, "error")
    <3>1. Sole(queue', "error") /\ Has(queue', "error")
      BY <1>6, <1>10, <2>1, <2>3
    <3> QED
      BY <2>3, <3>1 DEF Once, Has, Lacks
  <2> QED
    BY <2>1, <2>2, <2>3 DEF Once
<1>14. queue'[Len(queue')] = item /\ Len(queue') > 0
       /\ \A k \in 1..(Len(queue') - 1) : queue'[k].kind \in Events
  BY <1>9
<1>15. item # EndOfGraph
  BY KindOf
<1>16. recorded => Lacks(sent', "final") /\ Lacks(queue', "final")
  BY <1>10, NoAnswerPassedOn DEF OpenInv
<1> QED
  BY <1>11, <1>12, <1>13, <1>14, <1>15, <1>16 DEF OverInv

(* An event goes into the queue. *)
LEMMA PutReading ==
  ASSUME TypeInv, OpenInv, NEW item \in Items, item.kind \in Events,
         queue' = Append(queue, item), sent' = sent,
         PassedOn = {}, PassedOn' = {item.kind} \cap {"error", "final"}
  PROVE  OpenInv'
<1>1. queue \in Seq(Items) /\ Open(queue)
  BY DEF TypeInv, OpenInv
<1>2. /\ DOMAIN queue' = 1..(Len(queue) + 1) /\ DOMAIN queue = 1..Len(queue)
      /\ Len(queue) \in Nat /\ Len(queue') = Len(queue) + 1
      /\ \A k \in 1..Len(queue) : queue'[k] = queue[k]
      /\ queue'[Len(queue) + 1] = item
  BY <1>1, AppendFacts
<1>3. Open(queue')
  BY <1>1, <1>2 DEF Open
<1>4. ASSUME NEW kind \in {"error", "final"}
      PROVE  IF kind \in PassedOn'
             THEN /\ Once(kind)'
                  /\ Lacks(sent', kind) =>
                       queue' # <<>> /\ queue'[Len(queue')].kind = kind
             ELSE Lacks(sent', kind) /\ Lacks(queue', kind)
  <2>1. Lacks(sent', kind) /\ Lacks(queue, kind)
    BY DEF OpenInv
  <2>2. CASE item.kind # kind
    BY <1>1, <2>1, <2>2, AppendKinds
  <2>3. CASE item.kind = kind
    <3>1. Sole(queue', kind) /\ Has(queue', kind)
      BY <1>1, <2>1, <2>3, AppendKinds
    <3>2. Once(kind)'
      BY <2>1, <3>1 DEF Once, Has, Lacks
    <3>3. queue' # <<>> /\ queue'[Len(queue')].kind = kind
      BY <1>2, <2>3
    <3> QED
      BY <2>3, <3>2, <3>3
  <2> QED
    BY <2>2, <2>3
<1> QED
  BY <1>3, <1>4 DEF OpenInv

(* The end of the graph goes into the queue after everything else. *)
LEMMA EndOfGraphReading ==
  ASSUME TypeInv, OpenInv, queue' = Append(queue, EndOfGraph), sent' = sent,
         recorded' = recorded, PassedOn = IF recorded THEN {} ELSE {"final"}
  PROVE  OverInv'
<1>1. queue \in Seq(Items) /\ Open(queue) /\ EndOfGraph \in Items
      /\ EndOfGraph.kind \notin {"error", "final"}
  BY ItemsTyped, KindOf DEF TypeInv, OpenInv
<1>2. /\ DOMAIN queue = 1..Len(queue)
      /\ Len(queue) \in Nat /\ Len(queue') = Len(queue) + 1
      /\ \A k \in 1..Len(queue) : queue'[k] = queue[k]
      /\ queue'[Len(queue) + 1] = EndOfGraph
  BY <1>1, AppendFacts
<1>3. /\ Len(queue') > 0 /\ queue'[Len(queue')] = EndOfGraph
      /\ \A k \in 1..(Len(queue') - 1) : queue'[k].kind \in Events
  BY <1>1, <1>2 DEF Open
<1>4. Lacks(sent', "error") /\ Lacks(queue', "error")
  BY <1>1, AppendKinds DEF OpenInv
<1>5. ~recorded => Once("final")'
  <2> SUFFICES ASSUME ~recorded PROVE Once("final")'
    OBVIOUS
  <2>1. Once("final")
    BY DEF OpenInv
  <2>2. CASE Lacks(queue, "final") /\ Sole(sent, "final") /\ Sent("final") # {}
    <3>1. Lacks(queue', "final")
      BY <1>1, <2>2, AppendKinds
    <3> QED
      BY <2>2, <3>1 DEF Once, Sent, Sole
  <2>3. CASE Lacks(sent, "final") /\ Sole(queue, "final") /\ Has(queue, "final")
    <3>1. Sole(queue', "final") /\ Has(queue', "final")
      BY <1>1, <2>3, AppendKinds
    <3> QED
      BY <2>3, <3>1 DEF Once, Has, Lacks
  <2> QED
    BY <2>1, <2>2, <2>3 DEF Once, Has
<1>6. EndOfGraph \notin {Raised, RaisedAfterError, StoreError}
  BY KindOf
<1>7. recorded => Lacks(sent', "final") /\ Lacks(queue', "final")
  BY <1>1, AppendKinds DEF OpenInv
<1> QED
  BY <1>3, <1>4, <1>5, <1>6, <1>7 DEF OverInv, AtMostOnce, Lacks, Sole

(* A step that passes nothing on leaves what a reader may rely on.          *)
LEMMA NothingPutReading ==
  ASSUME OpenInv, UNCHANGED <<queue, sent>>, PassedOn' = PassedOn
  PROVE  OpenInv'
BY DEF OpenInv, Open, Once, Sent, Lacks, Sole

(* ReadingInv: put_graph_event and the put of _DONE.                        *)
LEMMA ProduceReading ==
  ASSUME TypeInv, OutInv, OutInv', OpenInv, Produce
  PROVE  IF prod' = "over" THEN OverInv' ELSE OpenInv'
<1> DEFINE item == Head(out)
<1>1. /\ prod = "next" /\ out # <<>> /\ item \in Items /\ sent' = sent
      /\ recorded' = recorded
      /\ graph = "ended" => Farewell
  BY DEF Produce, TypeInv, OutInv, Rested
<1>2. CASE item.kind \in Exceptions /\ EndWith(item)
  <2>1. graph = "ended" /\ Farewell
    <3>1. graph # "ended" => Plain(out) /\ Head(out) = out[1] /\ 1 \in DOMAIN out
      BY <1>1, TailFacts DEF OutInv, TypeInv
    <3>2. graph = "ended"
      BY <1>2, <3>1 DEF Plain, Exceptions
    <3> QED
      BY <1>1, <3>2
  <2>2. Len(out) = 1 /\ item = out[1]
    BY <1>2, <2>1, FarewellHead DEF Ends, Exceptions
  <2>3. item \in {Raised, RaisedAfterError, StoreError}
    BY <1>2, <2>1, <2>2, KindOf DEF Farewell, Exceptions
  <2>4. PassedOn = Outcome(item, recorded)
    BY <1>1, <2>1, <2>2 DEF PassedOn
  <2>5. /\ item \in {Raised, StoreError} => "error" \notin PassedOn
        /\ item = RaisedAfterError => "error" \in PassedOn
    BY <2>3, <2>4, KindOf
  <2>6. queue' = WithException(queue, item) /\ prod' = "over"
    BY <1>2 DEF EndWith
  <2> HIDE DEF item
  <2>7. OverInv'
    BY <1>1, <2>3, <2>5, <2>6, EndReading
  <2> QED
    BY <2>6, <2>7
<1>3. CASE item.kind \in Events
  <2>1. graph' = graph /\ prod' \in {"next", "putting"}
    BY <1>1, <1>3, KindOf DEF Produce, Events, Exceptions
  <2>2. CASE prod' = "putting"
    <3>1. UNCHANGED <<out, queue>>
      BY <1>1, <1>3, <2>2, KindOf DEF Produce, Events, Exceptions
    <3>2. PassedOn' = PassedOn
      BY <1>1, <2>1, <2>2, <3>1 DEF PassedOn
    <3> QED
      BY <1>1, <2>2, <3>1, <3>2, NothingPutReading
  <2>3. CASE prod' = "next"
    <3>1. /\ flags = {} /\ PassedOn = {}
          /\ flags' = {item.kind} \cap {"error", "final"}
          /\ ~Suppressed(item) /\ out' = Tail(out)
          /\ item.kind \in {"error", "final"} =>
               graph = "ended" /\ Len(out') = 1
      <4>1. CASE graph # "ended"
        <5>1. Plain(out) /\ flags = {} /\ Head(out) = out[1] /\ 1 \in DOMAIN out
          BY <1>1, <4>1, TailFacts DEF OutInv, TypeInv
        <5>2. item.kind \in {"stage", "delta"} /\ PassedOn = {}
          BY <4>1, <5>1 DEF Plain, PassedOn
        <5>3. ~Suppressed(item) /\ {item.kind} \cap {"error", "final"} = {}
          BY <5>2 DEF Suppressed
        <5> QED
          BY <1>1, <1>3, <2>3, <5>1, <5>2, <5>3, KindOf DEF Produce, Events, Exceptions
      <4>2. CASE graph = "ended"
        <5>1. Len(out) \in Nat /\ Len(out) > 1
          BY <1>1, <1>3, <4>2, FarewellHead DEF Events
        <5>2. flags = {} /\ PassedOn = {}
          BY <1>1, <4>2, <5>1 DEF Farewell, PassedOn
        <5>3. ~Suppressed(item)
          BY <5>2 DEF Suppressed
        <5>4. out' = Tail(out) /\ flags' = {item.kind} \cap {"error", "final"}
          BY <1>1, <1>3, <2>3, <5>2, <5>3, KindOf DEF Produce, Events, Exceptions
        <5>5. item.kind \in {"error", "final"} => Len(out') = 1
          <6>1. item.kind \in {"error", "final"} => Len(out) = 2
            BY <1>1, <4>2, FarewellHead
          <6>2. Len(out') = Len(out) - 1
            BY <1>1, <5>4, TailFacts DEF TypeInv
          <6> QED
            BY <6>1, <6>2
        <5> QED
          BY <4>2, <5>2, <5>3, <5>4, <5>5
      <4> QED
        BY <4>1, <4>2
    <3>2. PassedOn' = {item.kind} \cap {"error", "final"}
      <4>1. CASE graph' = "ended" /\ Len(out') = 1
        <5>1. Farewell'
          BY <2>3, <4>1 DEF OutInv
        <5>2. flags' = Outcome(out'[1], recorded)
          BY <1>1, <4>1, <5>1 DEF Farewell
        <5> QED
          BY <1>1, <2>3, <3>1, <4>1, <5>2 DEF PassedOn
      <4>2. CASE ~(graph' = "ended" /\ Len(out') = 1)
        <5>1. PassedOn' = {}
          BY <4>2 DEF PassedOn
        <5>2. item.kind \notin {"error", "final"}
          BY <2>1, <3>1, <4>2
        <5> QED
          BY <5>1, <5>2
      <4> QED
        BY <4>1, <4>2
    <3>3. queue' = queue \/ queue' = Append(queue, item)
      BY <1>1, <1>3, <2>3, KindOf DEF Produce, Events, Exceptions
    <3>4. CASE queue' = Append(queue, item)
      <4>1. OpenInv'
        BY <1>1, <1>3, <3>1, <3>2, <3>4, PutReading
      <4> QED
        BY <2>3, <4>1
    <3>5. CASE queue' = queue /\ queue' # Append(queue, item)
      <4>1. ~Critical(item)
        BY <1>1, <1>3, <2>3, <3>1, <3>5, KindOf DEF Produce, Events, Exceptions
      <4>2. PassedOn' = PassedOn
        BY <3>1, <3>2, <4>1 DEF Critical
      <4> QED
        BY <1>1, <2>3, <3>5, <4>2, NothingPutReading
    <3> QED
      BY <3>3, <3>4, <3>5
  <2> QED
    BY <2>1, <2>2, <2>3
<1>4. CASE item = EndOfGraph
  <2>1. graph = "ended" /\ Farewell
    <3>1. graph # "ended" => Plain(out) /\ Head(out) = out[1] /\ 1 \in DOMAIN out
      BY <1>1, TailFacts DEF OutInv, TypeInv
    <3>2. graph = "ended"
      BY <1>4, <3>1, KindOf DEF Plain
    <3> QED
      BY <1>1, <3>2
  <2>2. Len(out) = 1 /\ item = out[1]
    BY <1>4, <2>1, FarewellHead, KindOf DEF Ends, Exceptions
  <2>3. PassedOn = IF recorded THEN {} ELSE {"final"}
    BY <1>1, <1>4, <2>1, <2>2, KindOf DEF PassedOn
  <2>4. CASE prod' = "over" /\ queue' = Append(queue, item)
    <3>1. OverInv'
      BY <1>1, <1>4, <2>3, <2>4, EndOfGraphReading
    <3> QED
      BY <2>4, <3>1
  <2>5. CASE prod' = "putting" /\ UNCHANGED <<queue, out, graph>>
    <3>1. PassedOn' = PassedOn
      BY <1>1, <2>5 DEF PassedOn
    <3> QED
      BY <1>1, <2>5, <3>1, NothingPutReading
  <2> QED
    BY <1>4, <2>4, <2>5, KindOf DEF Produce, Events, Exceptions
<1> QED
  BY <1>2, <1>3, <1>4 DEF Produce

(* ReadingInv: steps of the producer.                                       *)
LEMMA ProducerReadingInv ==
  ASSUME TypeInv, OutInv, OutInv', ReadingInv, Producer \/ PutTimesOut
  PROVE  ReadingInv'
<1> SUFFICES ASSUME cons' = "reading"
             PROVE  /\ Lacks(sent, "done")' /\ ~timedOut'
                    /\ IF prod' = "over" THEN OverInv' ELSE OpenInv'
  BY DEF ReadingInv
<1>1. Rested /\ prod # "over"
  BY DEF Producer, PutTimesOut, ProducerStarts, Produce, PutGoesOn,
         ProducerCancelled
<1>2. /\ UNCHANGED <<recorded, sent, timedOut, cons>> /\ OpenInv
      /\ Lacks(sent, "done")' /\ ~timedOut'
  BY <1>1 DEF Rested, ReadingInv, Lacks
<1>3. ASSUME ProducerStarts PROVE prod' # "over" /\ OpenInv'
  <2>1. PassedOn = {} /\ PassedOn' = {} /\ UNCHANGED queue /\ prod' # "over"
    BY <1>3 DEF ProducerStarts, OutInv, PassedOn, queueVars
  <2> QED
    BY <1>2, <2>1, NothingPutReading
<1>4. ASSUME Produce PROVE IF prod' = "over" THEN OverInv' ELSE OpenInv'
  BY <1>2, <1>4, ProduceReading
<1>5. ASSUME PutGoesOn PROVE IF prod' = "over" THEN OverInv' ELSE OpenInv'
  <2> DEFINE item == Head(out)
  <2>1. /\ prod = "putting" /\ graph = "ended" /\ graph' = graph /\ Farewell
        /\ flags' = flags /\ out' = Tail(out) /\ queue' = Append(queue, item)
        /\ prod' = IF item = EndOfGraph THEN "over" ELSE "next"
    BY <1>5 DEF PutGoesOn, OutInv, TypeInv, TypeOK
  <2>2. /\ out # <<>> /\ item = out[1] /\ item \in Items
        /\ item.kind \in {"error", "final", "end"}
        /\ item.kind \in {"error", "final"} => Len(out) = 2
    BY <2>1, FarewellHead DEF Farewell, TypeInv
  <2>3. item.kind = "end" => item = EndOfGraph /\ Len(out) = 1
    BY <2>1, <2>2, FarewellHead, KindOf DEF Ends, Exceptions, Farewell
  <2>4. CASE item = EndOfGraph
    <3>1. PassedOn = IF recorded THEN {} ELSE {"final"}
      BY <2>1, <2>2, <2>3, <2>4, KindOf DEF PassedOn
    <3>2. OverInv'
      BY <1>2, <2>1, <2>4, <3>1, EndOfGraphReading
    <3> QED
      BY <2>1, <2>4, <3>2
  <2>5. CASE item # EndOfGraph
    <3>1. item.kind \in {"error", "final"} /\ Len(out) = 2 /\ Len(out') = 1
      BY <2>1, <2>2, <2>3, <2>5, TailFacts DEF TypeInv
    <3>2. PassedOn = {}
      BY <3>1 DEF PassedOn
    <3>3. Farewell' /\ prod' = "next"
      BY <2>1, <2>5 DEF OutInv
    <3>4. flags = Outcome(out[2], recorded) /\ Outcome(out[2], recorded) = {item.kind}
      BY <2>1, <2>2, <3>1, FarewellHead DEF Farewell
    <3>5. PassedOn' = flags'
      BY <1>2, <2>1, <3>1, <3>3 DEF Farewell, PassedOn
    <3>6. PassedOn' = {item.kind} \cap {"error", "final"}
      BY <2>1, <3>1, <3>4, <3>5
    <3>7. OpenInv'
      BY <1>2, <2>1, <2>2, <3>1, <3>2, <3>6, PutReading DEF Events
    <3> QED
      BY <3>3, <3>7
  <2> QED
    BY <2>4, <2>5
<1>6. ASSUME ProducerCancelled PROVE prod' = "over" /\ OverInv'
  BY <1>2, <1>6, EndReading, KindOf DEF ProducerCancelled, EndWith
<1>7. ASSUME PutTimesOut PROVE prod' = "over" /\ OverInv'
  <2>1. prod = "putting" /\ graph = "ended" /\ Farewell
    BY <1>7 DEF PutTimesOut, OutInv, TypeInv, TypeOK
  <2>2. Len(out) = 1 => out[1] = EndOfGraph
    <3>1. out[1].kind \in {"error", "final", "end"}
      BY <2>1 DEF Farewell
    <3> QED
      BY <2>1, <3>1, KindOf DEF Farewell
  <2>3. "error" \notin PassedOn
    BY <2>2, KindOf DEF PassedOn
  <2> QED
    BY <1>2, <1>7, <2>3, EndReading, KindOf DEF PutTimesOut, EndWith
<1> QED
  BY <1>2, <1>3, <1>4, <1>5, <1>6, <1>7 DEF Producer

-----------------------------------------------------------------------------
(* An event goes from the queue to the client, what there is of a kind      *)
(* stays.                                                                   *)
LEMMA MoveKinds ==
  ASSUME TypeInv, queue # <<>>, NEW kind,
         queue' = Tail(queue), sent' = Append(sent, Head(queue))
  PROVE  /\ Lacks(sent, kind) /\ Lacks(queue, kind)
              => Lacks(sent', kind) /\ Lacks(queue', kind)
         /\ AtMostOnce(kind) => AtMostOnce(kind)'
         /\ Once(kind) => Once(kind)'
         /\ Lacks(sent', kind) => Lacks(sent, kind) /\ Head(queue).kind # kind
<1> DEFINE item == Head(queue)
<1>1. queue \in Seq(Items) /\ sent \in Seq(Items) /\ item \in Items
  BY DEF TypeInv
<1>2. /\ Lacks(queue, kind) => Lacks(queue', kind) /\ item.kind # kind
      /\ Sole(queue, kind) => Sole(queue', kind)
      /\ Sole(queue, kind) /\ item.kind = kind => Lacks(queue', kind)
      /\ Has(queue, kind) /\ item.kind # kind => Has(queue', kind)
  BY <1>1, TailKinds
<1>3. /\ Lacks(sent', kind) <=> Lacks(sent, kind) /\ item.kind # kind
      /\ Sole(sent, kind) /\ item.kind # kind => Sole(sent', kind)
      /\ Lacks(sent, kind) => Sole(sent', kind)
      /\ Has(sent, kind) => Has(sent', kind)
      /\ item.kind = kind => Has(sent', kind)
  BY <1>1, AppendKinds
<1> HIDE DEF item
<1>4. /\ AtMostOnce(kind) <=> \/ Lacks(queue, kind) /\ Sole(sent, kind)
                              \/ Lacks(sent, kind) /\ Sole(queue, kind)
      /\ AtMostOnce(kind)' <=> \/ Lacks(queue', kind) /\ Sole(sent', kind)
                               \/ Lacks(sent', kind) /\ Sole(queue', kind)
  BY DEF AtMostOnce, Lacks, Sole
<1>5. /\ Once(kind) <=> AtMostOnce(kind) /\ (Has(sent, kind) \/ Has(queue, kind))
      /\ Once(kind)' <=>
           AtMostOnce(kind)' /\ (Has(sent', kind) \/ Has(queue', kind))
  <2>1. ASSUME NEW s, NEW q
        PROVE  (\/ Lacks(q, kind) /\ Sole(s, kind) /\ Has(s, kind)
                \/ Lacks(s, kind) /\ Sole(q, kind) /\ Has(q, kind))
               <=> /\ \/ Lacks(q, kind) /\ Sole(s, kind)
                      \/ Lacks(s, kind) /\ Sole(q, kind)
                   /\ Has(s, kind) \/ Has(q, kind)
    BY DEF Has, Lacks, Sole
  <2>2. Once(kind) <=> \/ Lacks(queue, kind) /\ Sole(sent, kind) /\ Has(sent, kind)
                       \/ Lacks(sent, kind) /\ Sole(queue, kind) /\ Has(queue, kind)
    BY DEF Once, Has, Sent
  <2>3. Once(kind)' <=>
          \/ Lacks(queue', kind) /\ Sole(sent', kind) /\ Has(sent', kind)
          \/ Lacks(sent', kind) /\ Sole(queue', kind) /\ Has(queue', kind)
    BY DEF Once, Has, Sent, Lacks, Sole
  <2> QED
    BY <1>4, <2>1, <2>2, <2>3
<1>6. AtMostOnce(kind) => AtMostOnce(kind)'
  BY <1>2, <1>3, <1>4
<1>7. Once(kind) => Once(kind)'
  BY <1>2, <1>3, <1>5, <1>6
<1> QED
  BY <1>2, <1>3, <1>6, <1>7 DEF item

(* ReadingInv: query() passes an event on to the client.                    *)
LEMMA ReadEventReading ==
  ASSUME TypeInv, ReadingInv, cons = "reading", queue # <<>>,
         Head(queue).kind \in Events, Send(<<Head(queue)>>),
         queue' = Tail(queue),
         UNCHANGED <<recorded, prod, graph, out, cons, timedOut>>
  PROVE  ReadingInv'
<1> DEFINE item == Head(queue)
           n == Len(queue)
<1>1. queue \in Seq(Items) /\ sent \in Seq(Items) /\ item \in Items
  BY DEF TypeInv
<1>2. sent' = Append(sent, item)
  BY <1>1, AppendIsConcat DEF Send
<1>3. /\ n \in Nat /\ n > 0 /\ item = queue[1] /\ DOMAIN queue = 1..n
      /\ queue' \in Seq(Items) /\ Len(queue') = n - 1 /\ DOMAIN queue' = 1..(n - 1)
      /\ \A k \in 1..(n - 1) : queue'[k] = queue[k + 1]
  BY <1>1, TailFacts
<1>4. Lacks(sent', "done")
  <2>1. Lacks(sent, "done") /\ item.kind # "done"
    BY DEF ReadingInv, Events
  <2> QED
    BY <1>1, <1>2, <2>1, AppendKinds
<1>5. \A kind :
        /\ Lacks(sent, kind) /\ Lacks(queue, kind)
             => Lacks(sent', kind) /\ Lacks(queue', kind)
        /\ AtMostOnce(kind) => AtMostOnce(kind)'
        /\ Once(kind) => Once(kind)'
        /\ Lacks(sent', kind) => Lacks(sent, kind) /\ item.kind # kind
  BY <1>2, MoveKinds
<1>6. CASE prod = "over"
  <2>1. /\ queue[n] \in {EndOfGraph, Raised, RaisedAfterError, StoreError, Cancelled}
        /\ \A k \in 1..(n - 1) : queue[k].kind \in Events
        /\ AtMostOnce("error")
        /\ queue[n] \in {Raised, StoreError} =>
             Lacks(sent, "error") /\ Lacks(queue, "error")
        /\ queue[n] = EndOfGraph =>
             /\ recorded \/ Once("final")
             /\ Lacks(sent, "error") /\ Lacks(queue, "error")
        /\ queue[n] = RaisedAfterError /\ QueueSize > 1 => Once("error")
        /\ recorded => Lacks(sent, "final") /\ Lacks(queue, "final")
    BY <1>6 DEF ReadingInv, OverInv
  <2>2. n # 1
    <3>1. queue[n].kind \notin Events
      BY <2>1, KindOf DEF Events
    <3> QED
      BY <1>3, <3>1
  <2>3. n - 1 > 0 /\ queue'[n - 1] = queue[n]
    BY <1>3, <2>2
  <2>4. \A k \in 1..((n - 1) - 1) : queue'[k].kind \in Events
    <3> TAKE k \in 1..((n - 1) - 1)
    <3>1. k + 1 \in 1..(n - 1) /\ k \in 1..(n - 1)
      BY <1>3
    <3> QED
      BY <1>3, <2>1, <3>1
  <2>5. OverInv'
    BY <1>3, <1>5, <2>1, <2>3, <2>4 DEF OverInv
  <2> QED
    BY <1>4, <1>6, <2>5 DEF ReadingInv, Lacks
<1>7. CASE prod # "over"
  <2>1. OpenInv /\ PassedOn' = PassedOn
    BY <1>7 DEF ReadingInv, PassedOn
  <2>2. Open(queue')
    BY <1>3, <2>1 DEF OpenInv, Open
  <2>3. ASSUME NEW kind \in {"error", "final"}
        PROVE  IF kind \in PassedOn'
               THEN /\ Once(kind)'
                    /\ Lacks(sent', kind) =>
                         queue' # <<>> /\ queue'[Len(queue')].kind = kind
               ELSE Lacks(sent', kind) /\ Lacks(queue', kind)
    <3>1. CASE kind \in PassedOn
      <4>1. /\ Once(kind)
            /\ Lacks(sent, kind) => queue # <<>> /\ queue[n].kind = kind
        BY <2>1, <3>1 DEF OpenInv
      <4>2. ASSUME Lacks(sent', kind)
            PROVE  queue' # <<>> /\ queue'[Len(queue')].kind = kind
        <5>1. queue[n].kind = kind /\ item.kind # kind
          BY <1>5, <4>1, <4>2
        <5>2. n # 1
          BY <1>3, <5>1
        <5>3. queue'[n - 1] = queue[n] /\ n - 1 > 0
          BY <1>3, <5>2
        <5>4. Len(queue') = n - 1 /\ queue' # <<>>
          <6>1. Len(queue') = n - 1 /\ n - 1 > 0
            BY <1>3, <5>3
          <6>2. Len(<<>>) = 0
            OBVIOUS
          <6>3. queue' = <<>> => n - 1 = 0
            BY <6>1, <6>2
          <6> HIDE DEF n
          <6> QED
            BY <6>1, <6>3
        <5> QED
          BY <5>1, <5>3, <5>4
      <4> QED
        BY <1>5, <2>1, <3>1, <4>1, <4>2
    <3>2. CASE kind \notin PassedOn
      <4>1. Lacks(sent, kind) /\ Lacks(queue, kind)
        BY <2>1, <3>2 DEF OpenInv
      <4> QED
        BY <1>5, <2>1, <3>2, <4>1
    <3> QED
      BY <3>1, <3>2
  <2>4. OpenInv'
    BY <2>2, <2>3 DEF OpenInv
  <2> QED
    BY <1>4, <1>7, <2>4 DEF ReadingInv, Lacks
<1> QED
  BY <1>6, <1>7

(* What the last reports of query() add to what was sent.                   *)
LEMMA ReportedOutcome ==
  ASSUME TypeInv, TypeInv', NEW w \in {<<Done>>, <<Error, Done>>}, Send(w),
         w = <<Done>> => Sole(sent, "error"),
         w = <<Error, Done>> => Lacks(sent, "error")
  PROVE  /\ Sole(sent', "error")
         /\ w = <<Error, Done>> => Has(sent', "error")
         /\ \A kind : Has(sent, kind) => Has(sent', kind)
         /\ Sole(sent, "final") => Sole(sent', "final")
         /\ Lacks(sent, "done") => Sole(sent', "done")
         /\ w = <<Done>> /\ Lacks(sent, "error") => Lacks(sent', "error")
         /\ w = <<Done>> /\ Lacks(sent, "final") => Lacks(sent', "final")
         /\ sent' # <<>> /\ sent'[Len(sent')] = Done
<1>1. sent \in Seq(Items) /\ Error \in Items /\ Done \in Items
      /\ Error.kind = "error" /\ Done.kind = "done"
  BY ItemsTyped, KindOf DEF TypeInv
<1>2. CASE w = <<Done>>
  <2>1. sent' = Append(sent, Done)
    BY <1>1, <1>2, AppendIsConcat DEF Send
  <2>2. sent' # <<>> /\ sent'[Len(sent')] = Done
    BY <1>1, <2>1
  <2>3. w # <<Error, Done>>
    BY <1>2
  <2> QED
    BY <1>1, <1>2, <2>1, <2>2, <2>3, AppendKinds
<1>3. CASE w = <<Error, Done>>
  <2>1. sent' = Append(Append(sent, Error), Done)
    BY <1>1, <1>3 DEF Send
  <2>2. Append(sent, Error) \in Seq(Items)
    BY <1>1
  <2> DEFINE s == Append(sent, Error)
  <2>3. /\ Sole(s, "error") /\ Has(s, "error")
        /\ \A kind : Has(sent, kind) => Has(s, kind)
        /\ Sole(sent, "final") => Sole(s, "final")
        /\ Lacks(sent, "done") => Lacks(s, "done")
    BY <1>1, <1>3, AppendKinds
  <2> HIDE DEF s
  <2>4. sent' = Append(s, Done) /\ s \in Seq(Items)
    BY <2>1, <2>2 DEF s
  <2>5. sent' # <<>> /\ sent'[Len(sent')] = Done
    BY <1>1, <2>4
  <2>6. w # <<Done>>
    BY <1>3
  <2> QED
    BY <1>1, <2>3, <2>4, <2>5, <2>6, AppendKinds
<1> QED
  BY <1>2, <1>3

(* A query that is told of an error, or of an answer with nothing else, is  *)
(* told its outcome; and one that had got past its answer is told nothing.  *)
LEMMA Told ==
  ASSUME TypeInv', Sole(sent', "error"),
         QueueSize > 1 =>
           \/ Has(sent', "error")
           \/ ~recorded' /\ Sole(sent', "final") /\ Has(sent', "final")
           \/ recorded' /\ Lacks(sent', "final"),
         StoreFails \/ Sole(sent', "done"),
         cons' = "completing" =>
           /\ Lacks(sent', "error")
           /\ sent' # <<>> /\ sent'[Len(sent')].kind = "done"
  PROVE  ToldInv'
<1>1. /\ Count("error")' \in Nat /\ Count("error")' <= 1
      /\ Sole(sent', "final") /\ Has(sent', "final") => Count("final")' = 1
  <2>1. ASSUME NEW s \in Seq(Items), NEW kind, Sole(s, kind)
        PROVE  /\ Cardinality({k \in DOMAIN s : s[k].kind = kind}) \in Nat
               /\ Cardinality({k \in DOMAIN s : s[k].kind = kind}) <= 1
               /\ Has(s, kind) =>
                    Cardinality({k \in DOMAIN s : s[k].kind = kind}) = 1
    <3> DEFINE S == {k \in DOMAIN s : s[k].kind = kind}
    <3>1. CASE S = {}
      <4>1. Cardinality(S) = 0 /\ ~Has(s, kind)
        BY <3>1, FS_EmptySet DEF Has
      <4> HIDE DEF S
      <4>2. Cardinality(S) \in Nat /\ Cardinality(S) <= 1
        BY <4>1
      <4> QED
        BY <4>1, <4>2 DEF S
    <3>2. CASE S # {}
      <4>1. PICK k \in S : S = {k}
        BY <2>1, <3>2 DEF Sole
      <4>2. Cardinality({k}) = 1
        BY FS_Singleton
      <4>3. Cardinality(S) = 1
        BY <4>1, <4>2
      <4> QED
        BY <4>3
    <3> QED
      BY <3>1, <3>2
  <2>2. sent' \in Seq(Items)
    BY DEF TypeInv
  <2> QED
    BY <2>1, <2>2 DEF Count, Sent
<1>2. OneError'
  BY <1>1 DEF OneError
<1>3. ASSUME Has(sent', "error") PROVE SuccessHasAnswer' /\ FailureReported'
  <2>1. Sent("error")' # {}
    BY <1>3 DEF Has, Sent
  <2> QED
    BY <2>1 DEF SuccessHasAnswer, FailureReported, Succeeded
<1>4. ASSUME ~recorded', Sole(sent', "final"), Has(sent', "final")
      PROVE  SuccessHasAnswer' /\ FailureReported'
  <2>1. Sent("final")' # {}
    BY <1>4 DEF Has, Sent
  <2> QED
    BY <1>1, <1>4, <2>1 DEF SuccessHasAnswer, FailureReported
<1>5. ASSUME recorded', Lacks(sent', "final")
      PROVE  SuccessHasAnswer' /\ FailureReported'
  <2>1. Sent("final")' = {}
    BY <1>5 DEF Lacks, Sent
  <2>2. Count("final")' = 0
    BY <2>1, FS_EmptySet DEF Count
  <2> QED
    BY <1>5, <2>2 DEF SuccessHasAnswer, FailureReported
<1> QED
  BY <1>2, <1>3, <1>4, <1>5 DEF ToldInv, Sole, Lacks

(* ToldInv: query() reads how the graph ended.                              *)
LEMMA ReadTold ==
  ASSUME TypeInv, TypeInv', ReadingInv, cons = "reading", queue # <<>>,
         recorded' = recorded,
         NEW w \in {<<Done>>, <<Error, Done>>}, Send(w),
         \/ Head(queue) = EndOfGraph /\ w = <<Done>>
         \/ /\ Head(queue) = EndOfGraph
            /\ w = <<Error, Done>> /\ cons' = "closing"
         \/ /\ Head(queue).kind \in Exceptions
            /\ w = ErrorReport(Head(queue)) /\ cons' = "closing"
  PROVE  ToldInv'
<1> DEFINE n == Len(queue)
<1>1. /\ queue \in Seq(Items) /\ n \in Nat /\ n > 0 /\ Head(queue) = queue[1]
      /\ DOMAIN queue = 1..n
  BY TailFacts DEF TypeInv
<1>2. queue[1].kind \notin Events
  BY <1>1, KindOf DEF Events, Exceptions
<1>3. prod = "over" /\ OverInv
  <2>1. ~Open(queue)
    BY <1>1, <1>2 DEF Open
  <2> QED
    BY <2>1 DEF ReadingInv, OpenInv
<1>4. n = 1
  <2>1. n > 1 => 1 \in 1..(n - 1)
    BY <1>1
  <2>2. ~(n > 1)
    BY <1>2, <1>3, <2>1 DEF OverInv
  <2> HIDE DEF n
  <2> QED
    BY <1>1, <2>2
<1>5. \A kind \in Events : Lacks(queue, kind) /\ ~Has(queue, kind)
  BY <1>1, <1>2, <1>4 DEF Lacks, Has
<1>6. \A kind \in Events : Once(kind) => Sole(sent, kind) /\ Has(sent, kind)
  BY <1>5 DEF Once, Has, Sent
<1>7. Sole(sent, "error") /\ Lacks(sent, "done")
  BY WhileReading
<1>8. CASE Head(queue) = EndOfGraph /\ w = <<Done>>
  <2>1. /\ Lacks(sent, "error")
        /\ \/ ~recorded /\ Sole(sent, "final") /\ Has(sent, "final")
           \/ recorded /\ Lacks(sent, "final")
    BY <1>1, <1>3, <1>4, <1>6, <1>8, KindOf DEF OverInv, Events
  <2>2. /\ Sole(sent', "error") /\ Sole(sent', "done") /\ Lacks(sent', "error")
        /\ \/ ~recorded' /\ Sole(sent', "final") /\ Has(sent', "final")
           \/ recorded' /\ Lacks(sent', "final")
        /\ sent' # <<>> /\ sent'[Len(sent')].kind = "done"
    <3>1. w # <<Error, Done>>
      BY <1>8
    <3> QED
      BY <1>7, <1>8, <2>1, <3>1, ReportedOutcome, KindOf
  <2> QED
    BY <2>2, Told
<1>9. CASE w = <<Error, Done>> /\ cons' = "closing"
  <2>1. Lacks(sent, "error")
    <3>1. Head(queue) \in {EndOfGraph, Raised, StoreError}
      <4>1. <<Error, Done>> # <<Done>>
        OBVIOUS
      <4>2. Head(queue).kind # "reported"
        BY <1>9, <4>1, KindOf DEF ErrorReport
      <4> QED
        BY <1>1, <1>3, <1>4, <1>9, <4>2, KindOf DEF OverInv, Exceptions
    <3> QED
      BY <1>1, <1>3, <1>4, <3>1 DEF OverInv
  <2>2. Sole(sent', "error") /\ Has(sent', "error") /\ Sole(sent', "done")
    BY <1>7, <1>9, <2>1, ReportedOutcome
  <2> QED
    BY <1>9, <2>2, Told
<1>10. CASE Head(queue).kind = "reported" /\ w = <<Done>> /\ cons' = "closing"
  <2>1. Head(queue) = RaisedAfterError
    BY <1>1, <1>3, <1>4, <1>10, KindOf DEF OverInv
  <2>2. QueueSize > 1 => Has(sent, "error")
    BY <1>1, <1>3, <1>4, <1>6, <2>1 DEF OverInv, Events
  <2>3. w # <<Error, Done>>
    BY <1>10
  <2>4. /\ Sole(sent', "error") /\ (QueueSize > 1 => Has(sent', "error"))
        /\ Sole(sent', "done")
    BY <1>7, <1>10, <2>2, <2>3, ReportedOutcome
  <2> QED
    BY <1>10, <2>4, Told
<1>11. ErrorReport(Head(queue)) =
         IF Head(queue).kind = "reported" THEN <<Done>> ELSE <<Error, Done>>
  BY DEF ErrorReport
<1> QED
  BY <1>8, <1>9, <1>10, <1>11

(* ToldInv: what follows "done" fails and is reported.                      *)
LEMMA CompleteFailsTold ==
  ASSUME TypeInv, TypeInv', ToldInv, CompleteFails
  PROVE  ToldInv'
<1> DEFINE w == <<Error, Done>>
<1>1. /\ cons = "completing" /\ cons' = "closing" /\ StoreFails
      /\ Send(w) /\ Lacks(sent, "error")
  BY StoreErrorReport DEF CompleteFails, ToldInv
<1>2. w # <<Done>>
  OBVIOUS
<1>3. Sole(sent', "error") /\ Has(sent', "error")
  BY <1>1, <1>2, ReportedOutcome
<1> QED
  BY <1>1, <1>3, Told

(* A query that ends with nothing sent has no more errors than before.      *)
LEMMA LeftUntold ==
  ASSUME TypeInv, ReadingInv, cons = "reading", cons' # "completing",
         UNCHANGED <<recorded, sent, timedOut>>
  PROVE  ToldInv'
<1>1. Sole(sent, "error") /\ Lacks(sent, "done")
  BY WhileReading
<1>2. OneError
  BY <1>1, CountOfSole DEF OneError
<1>3. Sent("done") = {}
  BY <1>1 DEF Lacks, Sent
<1> QED
  BY <1>2, <1>3
  DEF ToldInv, OneError, SuccessHasAnswer, FailureReported, Succeeded, Count, Sent,
      Sole, Lacks

(* ToldInv: query() reports the total time-out.                             *)
LEMMA TimeoutTold ==
  ASSUME TypeInv, TypeInv', ReadingInv, TotalTimeout
  PROVE  ToldInv'
<1>1. sent \in Seq(Items) /\ Sole(sent, "error") /\ Lacks(sent, "done")
  BY WhileReading DEF TotalTimeout, TypeInv
<1>2. sent' = sent \o <<Error, Done>> /\ timedOut'
  BY DEF TotalTimeout, Send
<1>3. /\ Len(sent) \in Nat /\ DOMAIN sent = 1..Len(sent)
      /\ DOMAIN sent' = 1..(Len(sent) + 2)
      /\ \A k \in 1..Len(sent) : sent'[k] = sent[k]
      /\ sent'[Len(sent) + 1] = Error /\ sent'[Len(sent) + 2] = Done
  BY <1>1, <1>2
<1>4. \A k \in DOMAIN sent' :
        k \in DOMAIN sent \/ k = Len(sent) + 1 \/ k = Len(sent) + 2
  BY <1>3
<1>5. Sent("error")' = Sent("error") \cup {Len(sent) + 1}
  BY <1>3, <1>4, KindOf DEF Sent
<1>6. Len(sent) + 1 \notin Sent("error")
  BY <1>3 DEF Sent
<1>7. Count("error") \in Nat /\ Count("error") <= 1
  BY <1>1, CountOfSole
<1>8. IsFiniteSet(Sent("error"))
  <2>1. IsFiniteSet(1..Len(sent))
    BY <1>3, FS_Interval
  <2>2. Sent("error") \subseteq 1..Len(sent)
    BY <1>3 DEF Sent
  <2> QED
    BY <2>1, <2>2, FS_Subset
<1>9. Count("error")' = Count("error") + 1
  <2>1. Cardinality(Sent("error") \cup {Len(sent) + 1})
          = Cardinality(Sent("error")) + 1
    BY <1>6, <1>8, FS_AddElement
  <2> QED
    BY <1>5, <2>1 DEF Count
<1>10. OneError'
  BY <1>2, <1>7, <1>9 DEF OneError
<1>11. Sent("error")' # {}
  BY <1>5
<1>12. Sole(sent', "done")
  <2>1. \A k \in DOMAIN sent' : sent'[k].kind = "done" => k = Len(sent) + 2
    BY <1>1, <1>3, <1>4, KindOf DEF Lacks
  <2> QED
    BY <2>1 DEF Sole
<1>13. cons' = "closing"
  BY DEF TotalTimeout
<1> QED
  BY <1>10, <1>11, <1>12, <1>13
  DEF ToldInv, SuccessHasAnswer, FailureReported, Succeeded, Sole

(* ReadingInv and ToldInv: steps of the consumer and of the others.         *)
LEMMA ConsumerReports ==
  ASSUME TypeInv, TypeInv', ReadingInv, ToldInv,
         \/ Consumer \/ TotalTimeout \/ Disconnect \/ CompleteFails
         \/ Shutdown \/ UNCHANGED vars
  PROVE  ReadingInv' /\ ToldInv'
<1>1. ASSUME Read PROVE ReadingInv' /\ ToldInv'
  <2> DEFINE item == Head(queue)
  <2>1. /\ cons = "reading" /\ queue # <<>> /\ queue' = Tail(queue)
        /\ UNCHANGED <<recorded, prod, graph, out, timedOut>>
    BY <1>1 DEF Read, graphVars
  <2>2. CASE item.kind \in Events /\ Send(<<item>>) /\ UNCHANGED cons
    <3>1. ReadingInv'
      BY <2>1, <2>2, ReadEventReading
    <3>2. cons' = "reading"
      BY <2>1, <2>2
    <3> QED
      BY <3>1, <3>2 DEF ToldInv
  <2>3. CASE \/ item = EndOfGraph /\ Send(<<Done>>) /\ cons' = "completing"
             \/ /\ item = EndOfGraph
                /\ Send(<<Error, Done>>) /\ cons' = "closing"
             \/ /\ item.kind \in Exceptions
                /\ Send(ErrorReport(item)) /\ cons' = "closing"
    <3>1. ErrorReport(item) \in {<<Done>>, <<Error, Done>>}
      BY DEF ErrorReport
    <3>2. ToldInv'
      BY <2>1, <2>3, <3>1, ReadTold
    <3> QED
      BY <2>3, <3>2 DEF ReadingInv
  <2> QED
    BY <1>1, <2>2, <2>3, StoreErrorReport DEF Read
<1>2. ASSUME ReadCancelled \/ Disconnect PROVE ReadingInv' /\ ToldInv'
  <2>1. /\ cons = "reading" /\ cons' = "joining"
        /\ UNCHANGED <<recorded, sent, timedOut>>
    BY <1>2 DEF ReadCancelled, Disconnect, Closing, graphVars
  <2>2. ToldInv'
    BY <2>1, LeftUntold
  <2> QED
    BY <2>1, <2>2 DEF ReadingInv
<1>3. ASSUME TotalTimeout PROVE ReadingInv' /\ ToldInv'
  <2>1. ToldInv'
    BY <1>3, TimeoutTold
  <2> QED
    BY <1>3, <2>1 DEF TotalTimeout, ReadingInv
<1>4. ASSUME Close \/ Join PROVE ReadingInv' /\ ToldInv'
  <2>1. /\ cons # "reading" /\ cons' \in {"joining", "ended"}
        /\ UNCHANGED <<recorded, sent, timedOut>>
    BY <1>4 DEF Close, Join, Closing, graphVars
  <2> QED
    BY <2>1
    DEF ReadingInv, ToldInv, OneError, SuccessHasAnswer, FailureReported,
        Succeeded, Count, Sent, Sole
<1>5. ASSUME Shutdown \/ UNCHANGED vars PROVE ReadingInv' /\ ToldInv'
  <2>1. UNCHANGED <<recorded, graph, out, prod, queue, cons, sent, timedOut>>
    BY <1>5 DEF Shutdown, vars, graphVars, queueVars
  <2>2. ToldInv'
    BY <2>1, ToldUnchanged
  <2>3. (ReadingInv)'
    BY <2>1
    DEF ReadingInv, OverInv, OpenInv, Once, AtMostOnce, PassedOn, Sent, Open,
        Lacks, Sole
  <2> QED
    BY <2>2, <2>3
<1>6. ASSUME CompleteFails PROVE ReadingInv' /\ ToldInv'
  <2>1. ToldInv'
    BY <1>6, CompleteFailsTold
  <2> QED
    BY <1>6, <2>1 DEF CompleteFails, ReadingInv
<1> QED
  BY <1>1, <1>2, <1>3, <1>4, <1>5, <1>6 DEF Consumer

(* The invariant holds at the start.                                        *)
LEMMA InitStream == Init => StreamInv
<1> SUFFICES ASSUME Init PROVE StreamInv
  OBVIOUS
<1>1. TypeInv
  BY InitTyped
<1>2. OutInv
  BY DEF Init, OutInv, Plain
<1>3. OpenInv
  BY DEF Init, OpenInv, Open, Lacks, PassedOn
<1>4. ReadingInv
  BY <1>3 DEF Init, ReadingInv, Lacks
<1>5. ToldInv
  BY DEF Init, ToldInv
<1> QED
  BY <1>1, <1>2, <1>4, <1>5 DEF StreamInv

(* Every step keeps it.                                                     *)
LEMMA NextStream == StreamInv /\ [Next]_vars => StreamInv'
<1> SUFFICES ASSUME TypeInv, OutInv, ReadingInv, ToldInv, [Next]_vars
             PROVE  StreamInv'
  BY DEF StreamInv
<1>1. ASSUME Nodes PROVE StreamInv'
  <2>1. TypeInv' /\ OutInv'
    BY <1>1, NodesTyped, NodesOutInv
  <2>2. ReadingInv'
    BY <1>1, <2>1, NodesReadingInv
  <2>3. UNCHANGED <<recorded, cons, sent, timedOut>>
    BY <1>1
    DEF Nodes, CallSucceeds, WriteStage, NodeFails, Interpret, StreamToken,
        StreamCompletes, CallFails, StreamFails, NodesOnly
  <2> QED
    BY <2>1, <2>2, <2>3, ToldUnchanged DEF StreamInv
<1>2. ASSUME Producer \/ PutTimesOut PROVE StreamInv'
  <2>1. TypeInv' /\ OutInv'
    BY <1>2, ProducerTyped, ProducerOutInv
  <2>2. ReadingInv'
    BY <1>2, <2>1, ProducerReadingInv
  <2>3. UNCHANGED <<recorded, cons, sent, timedOut>>
    BY <1>2
    DEF Producer, PutTimesOut, ProducerStarts, Produce, PutGoesOn,
        ProducerCancelled, Rested
  <2> QED
    BY <2>1, <2>2, <2>3, ToldUnchanged DEF StreamInv
<1>3. ASSUME \/ Consumer \/ TotalTimeout \/ Disconnect \/ CompleteFails
             \/ Shutdown \/ UNCHANGED vars
      PROVE  StreamInv'
  <2>1. TypeInv' /\ OutInv'
    BY <1>3, OthersTyped, OthersOutInv
  <2> QED
    BY <1>3, <2>1, ConsumerReports DEF StreamInv
<1> QED
  BY <1>1, <1>2, <1>3 DEF Next, Ended

(* The inductive invariant: where the outcome of the graph is on its way    *)
(* from the nodes to the client.                                            *)
THEOREM StreamInvariant == Spec => []StreamInv
BY InitStream, NextStream, PTL DEF Spec

(* The variables keep their types, and the bounded queue its bound.         *)
THEOREM TypeCorrect == Spec => []TypeOK
<1>1. StreamInv => TypeOK
  BY DEF StreamInv, TypeInv
<1> QED
  BY <1>1, StreamInvariant, PTL

(* A client is told of one error, or of a second one by the total time-out, *)
(* whatever the sizes: put_graph_event lets one error through, and the loop *)
(* of query() does not report what the graph reported.                      *)
THEOREM ErrorsToldOnce == Spec => []OneError
<1>1. StreamInv => OneError
  <2> SUFFICES ASSUME TypeInv, ReadingInv, ToldInv PROVE OneError
    BY DEF StreamInv
  <2>1. CASE cons = "reading"
    <3>1. Sole(sent, "error")
      BY <2>1, WhileReading
    <3> QED
      BY <3>1, CountOfSole DEF OneError
  <2>2. CASE cons # "reading"
    BY <2>2 DEF ToldInv
  <2> QED
    BY <2>1, <2>2
<1> QED
  BY <1>1, StreamInvariant, PTL

(* The invariant implies what a finished client was told.                   *)
LEMMA ToldWhenDone ==
  StreamInv /\ QueueSize > 1 => SuccessHasAnswer /\ FailureReported
<1> SUFFICES ASSUME TypeInv, ReadingInv, ToldInv, QueueSize > 1
             PROVE  SuccessHasAnswer /\ FailureReported
  BY DEF StreamInv
<1>1. CASE cons = "reading"
  <2>1. Sent("done") = {}
    BY <1>1 DEF ReadingInv, Lacks, Sent
  <2> QED
    BY <2>1 DEF SuccessHasAnswer, FailureReported, Succeeded
<1>2. CASE cons # "reading"
  BY <1>2 DEF ToldInv
<1> QED
  BY <1>1, <1>2

(* With a queue of two places or more, a query that succeeds has sent its   *)
(* answer, once, whatever was dropped or pushed out of the queue; and none  *)
(* if it resumed past interpret_result, which is then skipped.              *)
THEOREM AnswerBeforeSuccess ==
  ASSUME QueueSize > 1
  PROVE  Spec => []SuccessHasAnswer
<1>1. StreamInv => SuccessHasAnswer
  BY ToldWhenDone
<1> QED
  BY <1>1, StreamInvariant, PTL

(* With such a queue, a query that ends has sent an answer or an error: the *)
(* exception of the failed node pushes out an event, never the error event. *)
(* Only one that resumed past its answer has nothing else to tell.          *)
THEOREM OutcomeTold ==
  ASSUME QueueSize > 1
  PROVE  Spec => []FailureReported
<1>1. StreamInv => FailureReported
  BY ToldWhenDone
<1> QED
  BY <1>1, StreamInvariant, PTL

(* A stream has one "done" as long as Redis does not fail after it.         *)
THEOREM DoneToldOnce ==
  ASSUME ~StoreFails
  PROVE  Spec => []DoneOnce
<1>1. StreamInv => DoneOnce
  <2> SUFFICES ASSUME TypeInv, ReadingInv, ToldInv PROVE DoneOnce
    BY DEF StreamInv
  <2>1. Sole(sent, "done")
    BY DEF ReadingInv, ToldInv, Lacks, Sole
  <2> QED
    BY <2>1, CountOfSole DEF DoneOnce
<1> QED
  BY <1>1, StreamInvariant, PTL

-----------------------------------------------------------------------------
(* The queue implements OutcomeStream. That needs the order of the queue:   *)
(* no event comes after the error or the answer, in it or behind what was   *)
(* sent of it.                                                              *)
Ordered(s) ==
  \A j, k \in DOMAIN s :
    j < k /\ s[j].kind \in {"error", "final"} => s[k].kind \notin Events

Eventless(s) == \A k \in DOMAIN s : s[k].kind \notin Events

OrderInv ==
  cons = "reading" =>
    /\ Ordered(queue)
    /\ Has(sent, "error") \/ Has(sent, "final") => Eventless(queue)

(* What Append does to the order: an event may come after no outcome.       *)
LEMMA AppendOrder ==
  ASSUME NEW s \in Seq(Items), NEW item \in Items
  PROVE  /\ Ordered(s) /\ item.kind \notin Events => Ordered(Append(s, item))
         /\ Lacks(s, "error") /\ Lacks(s, "final") => Ordered(Append(s, item))
         /\ Eventless(s) /\ item.kind \notin Events => Eventless(Append(s, item))
<1> DEFINE t == Append(s, item)
<1>1. /\ DOMAIN t = 1..(Len(s) + 1) /\ DOMAIN s = 1..Len(s) /\ Len(s) \in Nat
      /\ \A k \in 1..Len(s) : t[k] = s[k]
      /\ t[Len(s) + 1] = item
  BY AppendFacts
<1> HIDE DEF t
<1>2. \A k \in DOMAIN t : (k \in DOMAIN s /\ t[k] = s[k])
                          \/ (k = Len(s) + 1 /\ t[k] = item)
  BY <1>1
<1>3. \A j, k \in DOMAIN t : j < k => j \in DOMAIN s /\ t[j] = s[j]
  BY <1>1
<1>4. Ordered(s) /\ item.kind \notin Events => Ordered(t)
  BY <1>2, <1>3 DEF Ordered
<1>5. Lacks(s, "error") /\ Lacks(s, "final") => Ordered(t)
  BY <1>3 DEF Ordered, Lacks
<1>6. Eventless(s) /\ item.kind \notin Events => Eventless(t)
  BY <1>2 DEF Eventless
<1> QED
  BY <1>4, <1>5, <1>6 DEF t

(* What Tail does to it: nothing of the graph follows its outcome.          *)
LEMMA TailOrder ==
  ASSUME NEW s \in Seq(Items), s # <<>>
  PROVE  /\ Ordered(s) => Ordered(Tail(s))
         /\ Eventless(s) => Eventless(Tail(s))
         /\ Ordered(s) /\ Head(s).kind \in {"error", "final"} => Eventless(Tail(s))
<1> DEFINE t == Tail(s)
           n == Len(s)
<1>1. /\ n \in Nat /\ n > 0 /\ DOMAIN s = 1..n /\ Head(s) = s[1]
      /\ DOMAIN t = 1..(n - 1)
      /\ \A k \in 1..(n - 1) : t[k] = s[k + 1]
  BY TailFacts
<1> HIDE DEF t, n
<1>2. \A k \in DOMAIN t : k + 1 \in DOMAIN s /\ t[k] = s[k + 1]
  BY <1>1
<1>3. \A j, k \in DOMAIN t : j < k => j + 1 < k + 1
  BY <1>1
<1>4. 1 \in DOMAIN s /\ \A k \in DOMAIN t : 1 < k + 1
  BY <1>1
<1>5. Ordered(s) => Ordered(t)
  BY <1>2, <1>3 DEF Ordered
<1>6. Eventless(s) => Eventless(t)
  BY <1>2 DEF Eventless
<1>7. Ordered(s) /\ Head(s).kind \in {"error", "final"} => Eventless(t)
  BY <1>1, <1>2, <1>4 DEF Ordered, Eventless
<1> QED
  BY <1>5, <1>6, <1>7 DEF t

(* put_exception keeps the order, whatever it pushes out.                   *)
LEMMA ExceptionOrder ==
  ASSUME TypeInv, NEW item \in Items, item.kind \notin Events
  PROVE  /\ Ordered(queue) => Ordered(WithException(queue, item))
         /\ Eventless(queue) => Eventless(WithException(queue, item))
<1>1. queue \in Seq(Items) /\ (Len(queue) >= QueueSize => queue # <<>>)
  BY SizesAssumption DEF TypeInv
<1>2. CASE Len(queue) >= QueueSize
  <2>1. Tail(queue) \in Seq(Items)
    BY <1>1, <1>2, TailFacts
  <2> QED
    BY <1>1, <1>2, <2>1, TailOrder, AppendOrder DEF WithException
<1>3. CASE ~(Len(queue) >= QueueSize)
  BY <1>1, <1>3, AppendOrder DEF WithException
<1> QED
  BY <1>2, <1>3

(* While the producer passes an event on, there is no outcome before it.    *)
LEMMA NoOutcomeBefore ==
  ASSUME TypeInv, OutInv, OpenInv, prod \in {"next", "putting"}, out # <<>>,
         Head(out).kind \in Events
  PROVE  /\ Lacks(queue, "error") /\ Lacks(queue, "final")
         /\ Lacks(sent, "error") /\ Lacks(sent, "final")
<1>1. PassedOn = {}
  <2>1. CASE graph = "ended"
    <3> DEFINE n == Len(out)
    <3>1. n \in Nat /\ n > 1
      BY <2>1, FarewellHead DEF OutInv, Events
    <3> HIDE DEF n
    <3>2. n # 1
      BY <3>1
    <3> USE DEF n
    <3> QED
      BY <3>2 DEF PassedOn
  <2>2. CASE graph # "ended"
    BY <2>2 DEF PassedOn
  <2> QED
    BY <2>1, <2>2
<1> QED
  BY <1>1 DEF OpenInv

(* OrderInv: steps of the producer.                                         *)
LEMMA ProducerOrder ==
  ASSUME StreamInv, OrderInv, Producer \/ PutTimesOut
  PROVE  OrderInv'
<1> SUFFICES ASSUME cons = "reading"
             PROVE  /\ Ordered(queue')
                    /\ Has(sent, "error") \/ Has(sent, "final")
                         => Eventless(queue')
  <2>1. UNCHANGED <<cons, sent>>
    BY DEF Producer, PutTimesOut, ProducerStarts, Produce, PutGoesOn,
           ProducerCancelled, Rested
  <2> QED
    BY <2>1 DEF OrderInv, Has
<1>1. TypeInv /\ OutInv /\ (prod # "over" => OpenInv) /\ queue \in Seq(Items)
  BY DEF StreamInv, ReadingInv, TypeInv
<1>2. /\ Ordered(queue)
      /\ Has(sent, "error") \/ Has(sent, "final") => Eventless(queue)
  BY DEF OrderInv
<1>3. ASSUME UNCHANGED queue
      PROVE  /\ Ordered(queue')
             /\ Has(sent, "error") \/ Has(sent, "final") => Eventless(queue')
  BY <1>2, <1>3
<1>4. ASSUME NEW item \in Items, item.kind \notin Events,
             queue' \in {Append(queue, item), WithException(queue, item)}
      PROVE  /\ Ordered(queue')
             /\ Has(sent, "error") \/ Has(sent, "final") => Eventless(queue')
  BY <1>1, <1>2, <1>4, AppendOrder, ExceptionOrder
<1>5. ASSUME out # <<>>, prod \in {"next", "putting"},
             Head(out).kind \in Events, queue' = Append(queue, Head(out))
      PROVE  /\ Ordered(queue')
             /\ Has(sent, "error") \/ Has(sent, "final") => Eventless(queue')
  <2>1. Head(out) \in Items
    BY <1>5 DEF StreamInv, TypeInv
  <2>2. /\ Lacks(queue, "error") /\ Lacks(queue, "final")
        /\ Lacks(sent, "error") /\ Lacks(sent, "final")
    BY <1>1, <1>5, NoOutcomeBefore
  <2> QED
    BY <1>1, <1>5, <2>1, <2>2, AppendOrder DEF Lacks, Has
<1>6. CASE ProducerStarts
  BY <1>3, <1>6 DEF ProducerStarts, queueVars
<1>7. CASE ProducerCancelled \/ PutTimesOut
  <2>1. Cancelled.kind \notin Events /\ Raised.kind \notin Events
    BY KindOf DEF Events
  <2>2. queue' \in {WithException(queue, Cancelled), WithException(queue, Raised)}
    BY <1>7 DEF ProducerCancelled, PutTimesOut, EndWith
  <2> QED
    BY <1>4, <2>1, <2>2, ItemsTyped
<1>8. CASE Produce \/ PutGoesOn
  <2> DEFINE item == Head(out)
  <2>1. prod \in {"next", "putting"} /\ out # <<>> /\ item \in Items
    <3>1. out # <<>>
      BY <1>1, <1>8, PuttingSomething DEF Produce, PutGoesOn
    <3> QED
      BY <1>1, <1>8, <3>1 DEF Produce, PutGoesOn, TypeInv
  <2>2. queue' \in {queue, Append(queue, item), WithException(queue, item)}
    BY <1>8 DEF Produce, PutGoesOn, EndWith
  <2>3. queue' = WithException(queue, item) =>
          item.kind \notin Events \/ queue' \in {queue, Append(queue, item)}
    BY <1>8, KindOf DEF Produce, PutGoesOn, EndWith, Exceptions, Events
  <2> HIDE DEF item
  <2>4. CASE item.kind \in Events
    BY <1>3, <1>5, <2>1, <2>2, <2>3, <2>4 DEF item
  <2>5. CASE item.kind \notin Events
    BY <1>3, <1>4, <2>1, <2>2, <2>5
  <2> QED
    BY <2>4, <2>5
<1> QED
  BY <1>6, <1>7, <1>8 DEF Producer

(* OrderInv: an event is read.                                              *)
LEMMA ReadOrder ==
  ASSUME TypeInv, OrderInv, cons = "reading", queue # <<>>,
         queue' = Tail(queue), sent' = Append(sent, Head(queue))
  PROVE  OrderInv'
<1> DEFINE item == Head(queue)
<1>1. queue \in Seq(Items) /\ sent \in Seq(Items) /\ item \in Items
  BY DEF TypeInv
<1>2. /\ Ordered(queue)
      /\ Has(sent, "error") \/ Has(sent, "final") => Eventless(queue)
  BY DEF OrderInv
<1>3. ASSUME NEW kind, Has(sent', kind) PROVE Has(sent, kind) \/ item.kind = kind
  BY <1>1, <1>3, AppendKinds DEF Has, Lacks
<1>4. Ordered(queue')
  BY <1>1, <1>2, TailOrder
<1>5. ASSUME Has(sent', "error") \/ Has(sent', "final") PROVE Eventless(queue')
  BY <1>1, <1>2, <1>3, <1>5, TailOrder
<1> QED
  BY <1>4, <1>5 DEF OrderInv

(* OrderInv: every step keeps it.                                           *)
LEMMA NextOrder == StreamInv /\ OrderInv /\ [Next]_vars => OrderInv'
<1> SUFFICES ASSUME StreamInv, OrderInv, [Next]_vars PROVE OrderInv'
  OBVIOUS
<1>1. ASSUME UNCHANGED <<queue, sent, cons>> PROVE OrderInv'
  BY <1>1 DEF OrderInv, Ordered, Eventless, Has
<1>2. ASSUME cons' # "reading" PROVE OrderInv'
  BY <1>2 DEF OrderInv
<1>3. CASE Nodes
  BY <1>1, <1>3
  DEF Nodes, CallSucceeds, WriteStage, NodeFails, Interpret, StreamToken,
      StreamCompletes, CallFails, StreamFails, NodesOnly, queueVars
<1>4. CASE Producer \/ PutTimesOut
  BY <1>4, ProducerOrder
<1>5. CASE Read
  <2> DEFINE item == Head(queue)
  <2>1. CASE item.kind \in Events /\ Send(<<item>>)
    <3>1. sent \in Seq(Items) /\ queue # <<>> /\ item \in Items
      BY <1>5 DEF StreamInv, TypeInv, Read
    <3>2. sent' = Append(sent, item)
      BY <2>1, <3>1, AppendIsConcat DEF Send
    <3> QED
      BY <1>5, <3>2, ReadOrder DEF Read, StreamInv
  <2>2. CASE cons' \in {"completing", "closing"}
    BY <1>2, <2>2
  <2> QED
    BY <1>5, <2>1, <2>2 DEF Read
<1>6. CASE \/ ReadCancelled \/ TotalTimeout \/ Disconnect \/ CompleteFails
           \/ Close \/ Join
  BY <1>2, <1>6
  DEF ReadCancelled, TotalTimeout, Disconnect, CompleteFails, Close, Join, Closing
<1>7. CASE Shutdown \/ Ended \/ UNCHANGED vars
  BY <1>1, <1>7 DEF Shutdown, Ended, vars, graphVars, queueVars
<1> QED
  BY <1>3, <1>4, <1>5, <1>6, <1>7 DEF Next, Consumer

(* What was sent and what was told of it.                                   *)
LEMMA KindsTold ==
  ASSUME NEW s \in Seq(Items)
  PROVE  /\ \A item \in Items :
              Kinds(Append(s, item)) = Append(Kinds(s), item.kind)
         /\ Kinds(s \o <<Error, Done>>) = Kinds(s) \o <<"error", "done">>
         /\ Len(Kinds(s)) = Len(s) /\ DOMAIN Kinds(s) = DOMAIN s
         /\ \A k \in DOMAIN s : Kinds(s)[k] = s[k].kind
<1>1. /\ Kinds(s) \in Seq({item.kind : item \in Items}) /\ Len(Kinds(s)) = Len(s)
      /\ DOMAIN Kinds(s) = DOMAIN s /\ \A k \in DOMAIN s : Kinds(s)[k] = s[k].kind
  BY DEF Kinds
<1>2. ASSUME NEW t \in Seq(Items), NEW item \in Items
      PROVE  Kinds(Append(t, item)) = Append(Kinds(t), item.kind)
  BY <1>2 DEF Kinds
<1>3. Kinds(s \o <<Error, Done>>) = Kinds(s) \o <<"error", "done">>
  BY <1>1, KindOf, ItemsTyped DEF Kinds
<1> QED
  BY <1>1, <1>2, <1>3

(* The promise knows the outcome that was sent.                             *)
LEMMA OutcomeKnown ==
  ASSUME TypeInv
  PROVE  Promise!HasOutcome <=> Has(sent, "error") \/ Has(sent, "final")
BY KindsTold DEF TypeInv, Promise!HasOutcome, Promise!Outcomes, Has

(* What query() reads when it is told that the graph is done.               *)
LEMMA OutcomeSent ==
  ASSUME StreamInv, QueueSize > 1, cons = "reading", queue # <<>>,
         Head(queue) \in {EndOfGraph, RaisedAfterError}
  PROVE  recorded \/ Has(sent, "error") \/ Has(sent, "final")
<1> DEFINE n == Len(queue)
<1>1. /\ queue \in Seq(Items) /\ n \in Nat /\ n > 0 /\ Head(queue) = queue[1]
      /\ DOMAIN queue = 1..n
  BY TailFacts DEF StreamInv, TypeInv
<1>2. queue[1].kind \notin Events
  BY <1>1, KindOf DEF Events
<1>3. prod = "over" /\ OverInv
  <2>1. ~Open(queue)
    BY <1>1, <1>2 DEF Open
  <2> QED
    BY <2>1 DEF StreamInv, ReadingInv, OpenInv
<1>4. n = 1
  <2>1. n > 1 => 1 \in 1..(n - 1)
    BY <1>1
  <2>2. ~(n > 1)
    BY <1>2, <1>3, <2>1 DEF OverInv
  <2> HIDE DEF n
  <2> QED
    BY <1>1, <2>2
<1>5. recorded \/ Once("error") \/ Once("final")
  BY <1>1, <1>3, <1>4 DEF OverInv
<1>6. \A kind \in Events : ~Has(queue, kind)
  BY <1>1, <1>2, <1>4 DEF Has
<1> QED
  BY <1>5, <1>6 DEF Once, Has, Sent, Events

(* A step of query(), seen as one of its promise.                           *)
LEMMA ReadKeepsPromise ==
  ASSUME StreamInv, OrderInv, QueueSize > 1, Read
  PROVE  Promise!Next
<1> DEFINE item == Head(queue)
<1>1. /\ cons = "reading" /\ queue # <<>> /\ sent \in Seq(Items) /\ TypeInv
      /\ queue \in Seq(Items) /\ item \in Items /\ item = queue[1]
      /\ 1 \in DOMAIN queue /\ recorded' = recorded
  BY TailFacts DEF Read, graphVars, StreamInv, TypeInv
<1>2. CASE item.kind \in Events /\ Send(<<item>>) /\ UNCHANGED cons
  <2>0. sent' = Append(sent, item)
    BY <1>1, <1>2, AppendIsConcat DEF Send
  <2> HIDE DEF item
  <2>1. Kinds(sent') = Append(Kinds(sent), item.kind)
    BY <1>1, <2>0, KindsTold
  <2>2. ~Promise!HasOutcome
    BY <1>1, <1>2, OutcomeKnown DEF OrderInv, Eventless, item
  <2>3. item.kind = "final" => ~recorded
    <3>1. Has(queue, item.kind)
      BY <1>1 DEF Has, item
    <3> QED
      BY <1>1, <3>1, NoAnswerPassedOn
      DEF StreamInv, ReadingInv, OverInv, OpenInv, Has, Lacks
  <2>4. Promise!Say(item.kind)
    BY <1>1, <1>2, <2>1, <2>2, <2>3 DEF Promise!Say
  <2> QED
    BY <1>1, <1>2, <2>4 DEF Promise!Next, Promise!Outcomes, Events
<1>3. CASE /\ item \in {EndOfGraph, RaisedAfterError} /\ Send(<<Done>>)
           /\ cons' # "reading"
  <2>1. Done \in Items /\ Done.kind = "done"
    BY ItemsTyped, KindOf
  <2>2. Kinds(sent') = Append(Kinds(sent), "done")
    <3>1. sent' = Append(sent, Done)
      BY <1>1, <1>3, <2>1, AppendIsConcat DEF Send
    <3> QED
      BY <1>1, <2>1, <3>1, KindsTold
  <2>3. Promise!HasOutcome \/ recorded
    BY <1>1, <1>3, OutcomeKnown, OutcomeSent
  <2> QED
    BY <1>1, <1>3, <2>2, <2>3 DEF Promise!Finish, Promise!Next
<1>4. CASE Send(<<Error, Done>>) /\ cons' # "reading"
  <2>1. Kinds(sent') = Kinds(sent) \o <<"error", "done">>
    BY <1>1, <1>4, KindsTold DEF Send
  <2> QED
    BY <1>1, <1>4, <2>1 DEF Promise!Fail, Promise!Next
<1>5. item.kind = "reported" => item = RaisedAfterError
  <2>1. item.kind = "reported" => ~Open(queue)
    BY <1>1 DEF Open, Events
  <2>2. item.kind = "reported" => OverInv
    BY <1>1, <2>1 DEF StreamInv, ReadingInv, OpenInv
  <2>3. 1 \notin 1..(Len(queue) - 1) => Len(queue) = 1
    <3> DEFINE n == Len(queue)
    <3>1. n \in Nat /\ n > 0
      BY <1>1, TailFacts
    <3> HIDE DEF n
    <3>2. 1 \notin 1..(n - 1) => n = 1
      BY <3>1
    <3> QED
      BY <3>2 DEF n
  <2> QED
    BY <1>1, <2>2, <2>3, KindOf DEF OverInv, Events
<1>6. ErrorReport(item) =
        IF item.kind = "reported" THEN <<Done>> ELSE <<Error, Done>>
  BY DEF ErrorReport
<1> QED
  BY <1>2, <1>3, <1>4, <1>5, <1>6, StoreErrorReport DEF Read

(* The queue, its producer and its consumer keep the promise of query(),    *)
(* with a queue of two places or more: every step of theirs is one of       *)
(* OutcomeStream, or is not seen by the client.                             *)
THEOREM KeepsPromise ==
  ASSUME QueueSize > 1
  PROVE  Spec => OutcomeSpec
<1>1. Init => Promise!Init
  BY DEF Init, Promise!Init, Kinds
<1>2. StreamInv /\ OrderInv /\ [Next]_vars
        => [Promise!Next]_<<recorded, Kinds(sent), cons # "reading">>
  <2> SUFFICES ASSUME StreamInv, OrderInv, [Next]_vars
               PROVE  \/ Promise!Next
                      \/ UNCHANGED <<recorded, Kinds(sent), cons # "reading">>
    OBVIOUS
  <2>0. recorded' = recorded
    BY DEF Next, Nodes, CallSucceeds, WriteStage, NodeFails, Interpret, StreamToken,
           StreamCompletes, CallFails, StreamFails, NodesOnly, Producer, PutTimesOut,
           ProducerStarts, Produce, PutGoesOn, ProducerCancelled, Rested, Shutdown,
           Consumer, Read, ReadCancelled, Close, Join, TotalTimeout, Disconnect,
           CompleteFails, Ended, vars, graphVars
  <2>1. ASSUME UNCHANGED sent, (cons' # "reading") = (cons # "reading")
        PROVE  UNCHANGED <<recorded, Kinds(sent), cons # "reading">>
    BY <2>0, <2>1 DEF Kinds
  <2>2. ASSUME UNCHANGED <<sent, cons>>
        PROVE  UNCHANGED <<recorded, Kinds(sent), cons # "reading">>
    BY <2>0, <2>2 DEF Kinds
  <2>3. sent \in Seq(Items)
    BY DEF StreamInv, TypeInv
  <2>4. CASE Nodes
    BY <2>2, <2>4
    DEF Nodes, CallSucceeds, WriteStage, NodeFails, Interpret, StreamToken,
        StreamCompletes, CallFails, StreamFails, NodesOnly
  <2>5. CASE Producer \/ PutTimesOut
    BY <2>2, <2>5
    DEF Producer, PutTimesOut, ProducerStarts, Produce, PutGoesOn,
        ProducerCancelled, Rested
  <2>6. CASE Read
    BY <2>6, ReadKeepsPromise
  <2>7. CASE ReadCancelled \/ Disconnect
    <3>1. cons = "reading" /\ cons' # "reading" /\ UNCHANGED sent
      BY <2>7 DEF ReadCancelled, Disconnect, Closing
    <3> QED
      BY <2>0, <3>1 DEF Promise!Abandon, Promise!Next, Kinds
  <2>8. CASE TotalTimeout
    <3>1. cons = "reading" /\ cons' # "reading" /\ Send(<<Error, Done>>)
      BY <2>8 DEF TotalTimeout
    <3>2. Kinds(sent') = Kinds(sent) \o <<"error", "done">>
      BY <2>3, <3>1, KindsTold DEF Send
    <3> QED
      BY <2>0, <3>1, <3>2 DEF Promise!Fail, Promise!Next
  <2>9. CASE CompleteFails
    <3>1. /\ cons = "completing" /\ cons' = "closing" /\ StoreFails
          /\ Send(<<Error, Done>>) /\ Lacks(sent, "error")
          /\ sent # <<>> /\ sent[Len(sent)].kind = "done"
      BY <2>9, StoreErrorReport DEF CompleteFails, StreamInv, ToldInv
    <3>2. Kinds(sent') = Kinds(sent) \o <<"error", "done">>
      BY <2>3, <3>1, KindsTold DEF Send
    <3>3. Kinds(sent) # <<>> /\ Len(sent) \in DOMAIN sent
      <4>1. DOMAIN sent = 1..Len(sent) /\ Len(sent) \in Nat /\ Len(sent) > 0
        BY <2>3, <3>1, TailFacts
      <4>2. DOMAIN Kinds(sent) # {}
        BY <2>3, <4>1, KindsTold
      <4> QED
        BY <4>1, <4>2
    <3>4. /\ Kinds(sent)[Len(Kinds(sent))] = "done"
          /\ \A k \in DOMAIN Kinds(sent) : Kinds(sent)[k] # "error"
      BY <2>3, <3>1, <3>3, KindsTold DEF Lacks
    <3> QED
      BY <2>0, <3>1, <3>2, <3>3, <3>4 DEF Promise!FailLate, Promise!Next
  <2>10. CASE Close \/ Join
    <3>1. cons # "reading" /\ cons' # "reading" /\ UNCHANGED sent
      BY <2>10 DEF Close, Join, Closing
    <3> QED
      BY <2>1, <3>1
  <2>11. CASE Shutdown \/ Ended \/ UNCHANGED vars
    BY <2>2, <2>11 DEF Shutdown, Ended, vars
  <2> QED
    BY <2>4, <2>5, <2>6, <2>7, <2>8, <2>9, <2>10, <2>11 DEF Next, Consumer
<1>3. Init => OrderInv
  BY DEF Init, OrderInv, Ordered, Eventless, Has
<1> QED
  BY <1>1, <1>2, <1>3, NextOrder, StreamInvariant, PTL
  DEF Spec, OutcomeSpec, Promise!Spec

-----------------------------------------------------------------------------
(* What follows is about the texts: that the deltas make up the answer.     *)
(* The provers cannot instantiate an induction theorem that takes a         *)
(* predicate; this one takes a set, and comes from the well-foundedness     *)
(* of the order of the naturals.                                            *)
LEMMA SmallestOf ==
  ASSUME NEW T \in SUBSET Nat, T # {}
  PROVE  \E x \in T : \A y \in T : x <= y
<1>1. \E x \in T : \A y \in T : <<y, x>> \notin OpToRel(<, Nat)
  BY NatLessThanWellFounded, WFMin
<1>2. \A x, y \in T : <<y, x>> \notin OpToRel(<, Nat) => x <= y
  BY DEF OpToRel
<1> QED
  BY <1>1, <1>2

(* A set with 0, and with n + 1 when with n, has every natural.            *)
LEMMA SetInduction ==
  ASSUME NEW S, 0 \in S, \A n \in Nat : n \in S => n + 1 \in S
  PROVE  \A n \in Nat : n \in S
<1> DEFINE T == {n \in Nat : n \notin S}
<1>1. SUFFICES ASSUME T # {} PROVE FALSE
  OBVIOUS
<1>2. PICK m \in T : \A y \in T : m <= y
  BY <1>1, SmallestOf
<1>3. m # 0
  OBVIOUS
<1>4. m - 1 \in Nat /\ m - 1 \notin T
  BY <1>2, <1>3
<1> QED
  BY <1>4

(* A recursion over 1..N: f[n] is made from f[n - 1] by F.                  *)
IsFold(f, R, base, F, N) ==
  /\ f \in [0..N -> R] /\ f[0] = base
  /\ \A n \in 1..N : f[n] = F[<<f[n - 1], n>>]

(* A recursion goes one step further,                                      *)
LEMMA FoldStep ==
  ASSUME NEW R, NEW base \in R, NEW N \in Nat, NEW F \in [R \X (1..N) -> R],
         NEW k \in Nat, k + 1 <= N, NEW f, IsFold(f, R, base, F, k)
  PROVE  \E g : IsFold(g, R, base, F, k + 1)
<1> DEFINE last == F[<<f[k], k + 1>>]
           g == [n \in 0..(k + 1) |-> IF n = k + 1 THEN last ELSE f[n]]
<1>1. f \in [0..k -> R] /\ f[0] = base /\ \A n \in 1..k : f[n] = F[<<f[n - 1], n>>]
  BY DEF IsFold
<1>2. last \in R
  <2>1. f[k] \in R /\ k + 1 \in 1..N
    BY <1>1
  <2> QED
    BY <2>1
<1>3. g[k + 1] = last /\ \A n \in 0..k : g[n] = f[n]
  OBVIOUS
<1>4. g \in [0..(k + 1) -> R]
  BY <1>1, <1>2
<1>5. g[k + 1] = F[<<g[k], k + 1>>] /\ g[0] = base
  <2>1. k \in 0..k /\ 0 \in 0..k
    OBVIOUS
  <2> QED
    BY <1>1, <1>3, <2>1
<1>6. ASSUME NEW n \in 1..k PROVE g[n] = F[<<g[n - 1], n>>]
  <2>1. n \in 0..k /\ n - 1 \in 0..k
    OBVIOUS
  <2>2. g[n] = f[n] /\ g[n - 1] = f[n - 1] /\ f[n] = F[<<f[n - 1], n>>]
    BY <1>1, <1>3, <2>1
  <2> QED
    BY <2>2
<1> HIDE DEF g
<1>7. ASSUME NEW n \in 1..(k + 1) PROVE g[n] = F[<<g[n - 1], n>>]
  <2>1. CASE n = k + 1
    <3>1. n - 1 = k
      BY <2>1
    <3> QED
      BY <1>5, <2>1, <3>1
  <2>2. CASE n # k + 1
    <3>1. n \in 1..k
      BY <2>2
    <3> QED
      BY <1>6, <3>1
  <2> QED
    BY <2>1, <2>2
<1>8. IsFold(g, R, base, F, k + 1)
  BY <1>4, <1>5, <1>7 DEF IsFold
<1> QED
  BY <1>8

(* so that it goes as far as it is defined.                                *)
LEMMA FoldExists ==
  ASSUME NEW R, NEW base \in R, NEW N \in Nat, NEW F \in [R \X (1..N) -> R]
  PROVE  \E f : IsFold(f, R, base, F, N)
<1> DEFINE S == {k \in Nat : k <= N => \E f : IsFold(f, R, base, F, k)}
<1>1. 0 \in S
  <2> DEFINE f == [n \in 0..0 |-> base]
  <2>1. f \in [0..0 -> R] /\ f[0] = base /\ \A n \in 1..0 : FALSE
    OBVIOUS
  <2> HIDE DEF f
  <2>2. IsFold(f, R, base, F, 0)
    BY <2>1 DEF IsFold
  <2> QED
    BY <2>2
<1>2. ASSUME NEW k \in Nat, k \in S PROVE k + 1 \in S
  <2>1. SUFFICES ASSUME k + 1 <= N PROVE \E f : IsFold(f, R, base, F, k + 1)
    OBVIOUS
  <2>2. PICK f : IsFold(f, R, base, F, k)
    BY <1>2, <2>1
  <2> QED
    BY <2>1, <2>2, FoldStep
<1> HIDE DEF S
<1>3. N \in S
  BY <1>1, <1>2, SetInduction
<1> QED
  BY <1>3 DEF S

(* Two functions that agree at 0, and after n - 1 only if after n.          *)
LEMMA SameFold ==
  ASSUME NEW N \in Nat, NEW f, NEW g, f[0] = g[0],
         \A n \in 1..N : f[n - 1] = g[n - 1] => f[n] = g[n]
  PROVE  \A n \in 0..N : f[n] = g[n]
<1> DEFINE S == {n \in Nat : n <= N => f[n] = g[n]}
<1>1. 0 \in S
  OBVIOUS
<1>2. ASSUME NEW n \in Nat, n \in S PROVE n + 1 \in S
  <2>1. SUFFICES ASSUME n + 1 <= N PROVE f[n + 1] = g[n + 1]
    OBVIOUS
  <2>2. n + 1 \in 1..N /\ (n + 1) - 1 = n /\ f[n] = g[n]
    BY <1>2, <2>1
  <2> QED
    BY <2>2
<1> HIDE DEF S
<1>3. \A n \in Nat : n \in S
  BY <1>1, <1>2, SetInduction
<1> QED
  BY <1>3 DEF S

(* The texts of the first n items, as TextOf computes them.                 *)
UpTo(items) ==
  CHOOSE upTo : upTo = [n \in 0..Len(items) |->
        IF n = 0 THEN <<>>
        ELSE IF items[n].kind = "delta" THEN upTo[n - 1] \o items[n].text
        ELSE upTo[n - 1]]

(* What one item adds to a text.                                            *)
Plus(text, item) == IF item.kind = "delta" THEN text \o item.text ELSE text

(* What one item adds makes a text of a text.                              *)
LEMMA PlusTyped ==
  ASSUME NEW item \in Items, NEW text \in Seq(Words)
  PROVE  Plus(text, item) \in Seq(Words)
BY DEF Items, Plus

(* TextOf is such a recursion.                                             *)
LEMMA UpToSteps ==
  ASSUME NEW items \in Seq(Items)
  PROVE  /\ TextOf(items) = UpTo(items)[Len(items)]
         /\ UpTo(items)[0] = <<>>
         /\ \A n \in 1..Len(items) :
              UpTo(items)[n] = Plus(UpTo(items)[n - 1], items[n])
<1> DEFINE N == Len(items)
           F == [p \in Seq(Words) \X (1..N) |-> Plus(p[1], items[p[2]])]
           E(g) == [n \in 0..Len(items) |->
                      IF n = 0 THEN <<>>
                      ELSE IF items[n].kind = "delta" THEN g[n - 1] \o items[n].text
                      ELSE g[n - 1]]
<1>1. N \in Nat /\ <<>> \in Seq(Words) /\ \A n \in 1..N : items[n] \in Items
  OBVIOUS
<1>2. F \in [Seq(Words) \X (1..N) -> Seq(Words)]
  <2>1. ASSUME NEW p \in Seq(Words) \X (1..N) PROVE Plus(p[1], items[p[2]]) \in Seq(Words)
    BY <1>1, PlusTyped
  <2> QED
    BY <2>1
<1>3. \A t \in Seq(Words), n \in 1..N : F[<<t, n>>] = Plus(t, items[n])
  OBVIOUS
<1> HIDE DEF F, N
<1>4. PICK f : IsFold(f, Seq(Words), <<>>, F, N)
  BY <1>1, <1>2, FoldExists
<1>5. f = E(f)
  <2>1. ASSUME NEW n \in 0..N PROVE f[n] = E(f)[n]
    <3>1. CASE n = 0
      BY <1>4, <3>1 DEF IsFold, N
    <3>2. CASE n # 0
      <4>1. n \in 1..N /\ n - 1 \in 0..N
        BY <1>1, <3>2
      <4>2. f[n] = Plus(f[n - 1], items[n])
        BY <1>3, <1>4, <4>1 DEF IsFold
      <4> QED
        BY <3>2, <4>1, <4>2 DEF Plus, N
    <3> QED
      BY <3>1, <3>2
  <2>2. f = [n \in 0..N |-> f[n]]
    BY <1>4 DEF IsFold
  <2>3. E(f) = [n \in 0..N |-> E(f)[n]]
    BY DEF N
  <2> HIDE DEF E
  <2> QED
    BY <2>1, <2>2, <2>3
<1>6. UpTo(items) = E(UpTo(items))
  BY <1>5 DEF UpTo
<1>7. ASSUME NEW g, g = E(g), NEW n \in 1..N
      PROVE  g[0] = <<>> /\ g[n] = Plus(g[n - 1], items[n])
  <2>1. \A m \in 0..N : g[m] = E(g)[m]
    BY <1>7
  <2>2. 0 \in 0..N /\ n \in 0..N /\ n # 0
    BY <1>1
  <2>3. E(g)[0] = <<>> /\ E(g)[n] = Plus(g[n - 1], items[n])
    BY <2>2 DEF Plus, N
  <2> QED
    BY <2>1, <2>2, <2>3
<1>8. UpTo(items)[0] = <<>>
  <2>1. \A g : g = E(g) => g[0] = E(g)[0]
    OBVIOUS
  <2>2. \A g : E(g)[0] = <<>>
    BY <1>1 DEF N
  <2> QED
    BY <1>6, <2>1, <2>2
<1>9. TextOf(items) = UpTo(items)[Len(items)]
  BY DEF TextOf, UpTo
<1> QED
  BY <1>6, <1>7, <1>8, <1>9 DEF N

(* The text of items is a text.                                             *)
LEMMA TextTyped ==
  ASSUME NEW items \in Seq(Items)
  PROVE  TextOf(items) \in Seq(Words)
<1> DEFINE N == Len(items)
           g == UpTo(items)
           S == {n \in Nat : n <= N => g[n] \in Seq(Words)}
<1>1. N \in Nat /\ \A n \in 1..N : items[n] \in Items
  OBVIOUS
<1>2. g[0] = <<>> /\ \A n \in 1..N : g[n] = Plus(g[n - 1], items[n])
  BY UpToSteps
<1> HIDE DEF N, g
<1>3. 0 \in S
  <2>1. g[0] \in Seq(Words)
    BY <1>2
  <2> QED
    BY <2>1
<1>4. ASSUME NEW n \in Nat, n \in S PROVE n + 1 \in S
  <2>1. SUFFICES ASSUME n + 1 <= N PROVE g[n + 1] \in Seq(Words)
    OBVIOUS
  <2>2. n + 1 \in 1..N /\ (n + 1) - 1 = n /\ g[n] \in Seq(Words)
    BY <1>1, <1>4, <2>1
  <2> QED
    BY <1>1, <1>2, <2>2, PlusTyped
<1> HIDE DEF S
<1>5. N \in S
  BY <1>1, <1>3, <1>4, SetInduction
<1>6. g[N] \in Seq(Words)
  BY <1>1, <1>5 DEF S
<1> QED
  BY <1>6, UpToSteps DEF N, g

(* Of no items it is empty.                                                *)
LEMMA TextOfNone == TextOf(<<>>) = <<>>
<1>1. <<>> \in Seq(Items) /\ Len(<<>>) = 0
  OBVIOUS
<1> QED
  BY <1>1, UpToSteps

(* One more item adds its share.                                            *)
LEMMA TextOfAppend ==
  ASSUME NEW items \in Seq(Items), NEW item \in Items
  PROVE  TextOf(Append(items, item)) = Plus(TextOf(items), item)
<1> DEFINE N == Len(items)
           more == Append(items, item)
           f == UpTo(more)
           g == UpTo(items)
<1>1. /\ N \in Nat /\ more \in Seq(Items) /\ Len(more) = N + 1
      /\ more[N + 1] = item /\ \A n \in 1..N : more[n] = items[n]
  OBVIOUS
<1> HIDE DEF N, more
<1>2. /\ TextOf(more) = f[N + 1] /\ f[0] = <<>>
      /\ \A n \in 1..(N + 1) : f[n] = Plus(f[n - 1], more[n])
  BY <1>1, UpToSteps
<1>3. /\ TextOf(items) = g[N] /\ g[0] = <<>>
      /\ \A n \in 1..N : g[n] = Plus(g[n - 1], items[n])
  BY UpToSteps DEF N
<1> HIDE DEF f, g
<1>4. \A n \in 0..N : f[n] = g[n]
  <2>1. \A n \in 1..N : f[n - 1] = g[n - 1] => f[n] = g[n]
    <3>1. \A n \in 1..N : n \in 1..(N + 1)
      BY <1>1
    <3> QED
      BY <1>1, <1>2, <1>3, <3>1
  <2>2. f[0] = g[0]
    BY <1>2, <1>3
  <2>3. N \in Nat
    BY <1>1
  <2> QED
    BY <2>1, <2>2, <2>3, SameFold
<1>5. f[N + 1] = Plus(f[N], item)
  <2>1. N + 1 \in 1..(N + 1) /\ (N + 1) - 1 = N
    BY <1>1
  <2> QED
    BY <1>1, <1>2, <2>1
<1>6. f[N] = g[N]
  BY <1>1, <1>4
<1> QED
  BY <1>2, <1>3, <1>5, <1>6 DEF more

(* Concatenation of texts is associative.                                  *)
LEMMA TextsAssociate ==
  ASSUME NEW a \in Seq(Words), NEW b \in Seq(Words), NEW c \in Seq(Words)
  PROVE  (a \o b) \o c = a \o (b \o c)
BY ConcatAssociative

(* The text of a concatenation is the concatenation of the texts.           *)
LEMMA TextOfConcat ==
  ASSUME NEW s \in Seq(Items), NEW t \in Seq(Items)
  PROVE  TextOf(s \o t) = TextOf(s) \o TextOf(t)
<1> DEFINE first(n) == SubSeq(t, 1, n)
           S == {n \in Nat : n <= Len(t) =>
                   TextOf(s \o first(n)) = TextOf(s) \o TextOf(first(n))}
<1>1. 0 \in S
  <2>1. first(0) = <<>>
    OBVIOUS
  <2>2. s \o <<>> = s /\ TextOf(s) \o <<>> = TextOf(s)
    BY TextTyped, ConcatEmptySeq
  <2>3. TextOf(s \o first(0)) = TextOf(s) \o TextOf(first(0))
    BY <2>1, <2>2, TextOfNone
  <2> QED
    BY <2>3
<1>2. ASSUME NEW n \in Nat, n \in S PROVE n + 1 \in S
  <2>1. SUFFICES ASSUME n + 1 <= Len(t)
                 PROVE  TextOf(s \o first(n + 1)) = TextOf(s) \o TextOf(first(n + 1))
    OBVIOUS
  <2>2. TextOf(s \o first(n)) = TextOf(s) \o TextOf(first(n))
    BY <1>2, <2>1
  <2>3. first(n) \in Seq(Items) /\ t[n + 1] \in Items
    BY <2>1
  <2>4. first(n + 1) = Append(first(n), t[n + 1])
    BY <2>1
  <2>5. s \o first(n + 1) = Append(s \o first(n), t[n + 1])
    BY <2>3, <2>4
  <2>6. s \o first(n) \in Seq(Items)
    BY <2>3
  <2> DEFINE a == TextOf(s)
             b == TextOf(first(n))
  <2>7. a \in Seq(Words) /\ b \in Seq(Words)
    BY <2>3, TextTyped
  <2>8. TextOf(s \o first(n + 1)) = Plus(a \o b, t[n + 1])
    BY <2>2, <2>3, <2>5, <2>6, TextOfAppend
  <2>9. TextOf(first(n + 1)) = Plus(b, t[n + 1])
    BY <2>3, <2>4, TextOfAppend
  <2>10. Plus(a \o b, t[n + 1]) = a \o Plus(b, t[n + 1])
    <3>1. t[n + 1].text \in Seq(Words)
      BY <2>3 DEF Items
    <3> HIDE DEF a, b
    <3>2. (a \o b) \o t[n + 1].text = a \o (b \o t[n + 1].text)
      BY <2>7, <3>1, TextsAssociate
    <3> QED
      BY <3>2 DEF Plus
  <2> QED
    BY <2>8, <2>9, <2>10
<1> HIDE DEF S
<1>3. Len(t) \in Nat /\ Len(t) \in S
  BY <1>1, <1>2, SetInduction
<1>4. first(Len(t)) = t
  BY SubSeqFull
<1> HIDE DEF first
<1>5. TextOf(s \o first(Len(t))) = TextOf(s) \o TextOf(first(Len(t)))
  BY <1>3 DEF S
<1> QED
  BY <1>4, <1>5

(* The text of one item.                                                   *)
LEMMA TextOfOne ==
  ASSUME NEW item \in Items
  PROVE  /\ TextOf(<<item>>) = IF item.kind = "delta" THEN item.text ELSE <<>>
         /\ item.text \in Seq(Words)
<1>1. <<>> \in Seq(Items) /\ Append(<<>>, item) = <<item>>
  OBVIOUS
<1>2. TextOf(<<item>>) = Plus(<<>>, item)
  BY <1>1, TextOfAppend, TextOfNone
<1>3. item.text \in Seq(Words)
  BY DEF Items
<1>4. <<>> \o item.text = item.text
  BY <1>3, ConcatEmptySeq
<1> QED
  BY <1>2, <1>3, <1>4 DEF Plus

(* The first item and the rest.                                             *)
LEMMA TextOfHead ==
  ASSUME NEW items \in Seq(Items), items # <<>>
  PROVE  TextOf(items) = TextOf(<<Head(items)>>) \o TextOf(Tail(items))
<1>1. /\ <<Head(items)>> \in Seq(Items) /\ Tail(items) \in Seq(Items)
      /\ items = <<Head(items)>> \o Tail(items)
  OBVIOUS
<1> QED
  BY <1>1, TextOfConcat

(* The texts on their way to the client: what it has, what is in the queue, *)
(* what LangGraph has yet to yield.                                         *)
Line == TextOf(sent) \o TextOf(queue) \o TextOf(out)

(* Nothing was dropped or pushed out of the queue.                          *)
Kept == ~dropped /\ (prod = "over" => queue[Len(queue)] = EndOfGraph)

(* The answers among the items are the template or the text.                *)
Fits(items, text) ==
  \A k \in DOMAIN items :
    items[k].kind = "final" => items[k].text \in {Template, text}
Fit(text) == Fits(sent, text) /\ Fits(queue, text) /\ Fits(out, text)

(* As long as nothing was dropped, the line and the buffer of               *)
(* interpret_result hold the tokens so far, and an answer on its way is what *)
(* the line holds. After a failure that was reported there is no answer.    *)
LineInv ==
  cons = "reading" =>
    /\ Kept =>
         /\ graph \in {"invoke", "work"} => Line = <<>> /\ chunks = <<>> /\ batch = <<>>
         /\ graph = "stream" => Line \o batch = chunks
         /\ Fit(Line)
    /\ prod = "over" /\ queue[Len(queue)] = RaisedAfterError =>
         Lacks(sent, "final") /\ Lacks(queue, "final")

AnswerInv == StreamInv /\ LineInv /\ DeltasAreTheAnswer

(* What Append does to the answers among items.                             *)
LEMMA FitsSteps ==
  ASSUME NEW s \in Seq(Items), NEW item \in Items, NEW text,
         item.kind = "final" => item.text \in {Template, text}
  PROVE  Fits(s, text) => Fits(Append(s, item), text)
<1> DEFINE t == Append(s, item)
<1>1. /\ DOMAIN t = 1..(Len(s) + 1) /\ DOMAIN s = 1..Len(s) /\ Len(s) \in Nat
      /\ \A k \in 1..Len(s) : t[k] = s[k]
      /\ t[Len(s) + 1] = item
  BY AppendFacts
<1> HIDE DEF t
<1>2. \A k \in DOMAIN t : (k \in DOMAIN s /\ t[k] = s[k]) \/ t[k] = item
  BY <1>1
<1>3. Fits(s, text) => Fits(t, text)
  BY <1>2 DEF Fits
<1> QED
  BY <1>3 DEF t

(* What Tail does to them.                                                 *)
LEMMA FitsTail ==
  ASSUME NEW s \in Seq(Items), s # <<>>, NEW text, Fits(s, text)
  PROVE  /\ Fits(Tail(s), text)
         /\ Head(s).kind = "final" => Head(s).text \in {Template, text}
<1> DEFINE t == Tail(s)
           n == Len(s)
<1>1. /\ n \in Nat /\ n > 0 /\ DOMAIN s = 1..n /\ Head(s) = s[1]
      /\ DOMAIN t = 1..(n - 1)
      /\ \A k \in 1..(n - 1) : t[k] = s[k + 1]
  BY TailFacts
<1> HIDE DEF t, n
<1>2. \A k \in DOMAIN t : k + 1 \in DOMAIN s /\ t[k] = s[k + 1]
  BY <1>1
<1>3. 1 \in DOMAIN s
  BY <1>1
<1>4. Fits(t, text)
  BY <1>2 DEF Fits
<1> QED
  BY <1>1, <1>3, <1>4 DEF Fits, t

(* What concatenation does to them.                                        *)
LEMMA FitsConcat ==
  ASSUME NEW s \in Seq(Items), NEW w \in Seq(Items), NEW text,
         Fits(s, text), Fits(w, text)
  PROVE  Fits(s \o w, text)
<1> DEFINE t == s \o w
<1>1. /\ Len(s) \in Nat /\ Len(w) \in Nat
      /\ DOMAIN t = 1..(Len(s) + Len(w)) /\ DOMAIN s = 1..Len(s)
      /\ \A k \in 1..Len(s) : t[k] = s[k]
      /\ \A k \in 1..Len(w) : t[Len(s) + k] = w[k]
      /\ DOMAIN w = 1..Len(w)
  BY ConcatFacts
<1> HIDE DEF t
<1>2. ASSUME NEW k \in DOMAIN t
      PROVE  \/ k \in DOMAIN s /\ t[k] = s[k]
             \/ k - Len(s) \in DOMAIN w /\ t[k] = w[k - Len(s)]
  <2>1. k \in 1..Len(s) \/ (k - Len(s) \in 1..Len(w) /\ k = Len(s) + (k - Len(s)))
    BY <1>1
  <2> QED
    BY <1>1, <2>1
<1>3. Fits(t, text)
  BY <1>2 DEF Fits
<1> QED
  BY <1>3 DEF t

(* Items without an answer fit any text.                                   *)
LEMMA LacksFits ==
  ASSUME NEW s, Lacks(s, "final"), NEW text
  PROVE  Fits(s, text)
BY DEF Lacks, Fits

(* The first item of one sequence moved to the end of another.              *)
LEMMA TextMoves ==
  ASSUME NEW s \in Seq(Items), NEW t \in Seq(Items), t # <<>>
  PROVE  TextOf(Append(s, Head(t))) \o TextOf(Tail(t)) = TextOf(s) \o TextOf(t)
<1> DEFINE one == <<Head(t)>>
<1>1. one \in Seq(Items) /\ Tail(t) \in Seq(Items)
  OBVIOUS
<1>2. Append(s, Head(t)) = s \o one
  <2>1. Head(t) \in Items
    OBVIOUS
  <2> QED
    BY <2>1, AppendIsConcat
<1> HIDE DEF one
<1>3. TextOf(s \o one) = TextOf(s) \o TextOf(one)
  BY <1>1, TextOfConcat
<1>4. TextOf(t) = TextOf(one) \o TextOf(Tail(t))
  BY TextOfHead DEF one
<1>5. /\ TextOf(s) \in Seq(Words) /\ TextOf(one) \in Seq(Words)
      /\ TextOf(Tail(t)) \in Seq(Words)
  BY <1>1, TextTyped
<1> DEFINE a == TextOf(s)
           b == TextOf(one)
           c == TextOf(Tail(t))
<1>6. (a \o b) \o c = a \o (b \o c)
  BY <1>5, TextsAssociate
<1>7. TextOf(Append(s, Head(t))) \o c = (a \o b) \o c
  BY <1>2, <1>3, Zenon
<1> QED
  BY <1>4, <1>6, <1>7, Zenon

(* Texts on their way are texts.                                            *)
LEMMA LineTyped ==
  ASSUME TypeInv
  PROVE  /\ TextOf(sent) \in Seq(Words) /\ TextOf(queue) \in Seq(Words)
         /\ TextOf(out) \in Seq(Words) /\ Line \in Seq(Words)
<1>1. /\ TextOf(sent) \in Seq(Words) /\ TextOf(queue) \in Seq(Words)
      /\ TextOf(out) \in Seq(Words)
  BY TextTyped DEF TypeInv
<1>2. \A a, b, c \in Seq(Words) : (a \o b) \o c \in Seq(Words)
  OBVIOUS
<1> QED
  BY <1>1, <1>2 DEF Line

(* An item that goes from the graph into the queue stays on its way.        *)
LEMMA PutMoves ==
  ASSUME TypeInv, out # <<>>, queue' = Append(queue, Head(out)),
         out' = Tail(out), sent' = sent
  PROVE  Line' = Line /\ \A text : Fit(text) => Fit(text)'
<1>1. queue \in Seq(Items) /\ out \in Seq(Items) /\ Head(out) \in Items
  BY DEF TypeInv
<1>2. Line' = Line
  <2> DEFINE a == TextOf(sent)
             b == TextOf(queue)
             c == TextOf(out)
             d == TextOf(Append(queue, Head(out)))
             e == TextOf(Tail(out))
  <2>1. d \o e = b \o c
    BY <1>1, TextMoves
  <2>2. a \in Seq(Words) /\ b \in Seq(Words) /\ c \in Seq(Words)
    BY LineTyped
  <2>3. d \in Seq(Words) /\ e \in Seq(Words)
    <3>1. Append(queue, Head(out)) \in Seq(Items) /\ Tail(out) \in Seq(Items)
      BY <1>1
    <3> QED
      BY <3>1, TextTyped
  <2>4. Line = (a \o b) \o c /\ Line' = (a \o d) \o e
    BY DEF Line
  <2> HIDE DEF a, b, c, d, e
  <2>5. (a \o b) \o c = a \o (b \o c) /\ (a \o d) \o e = a \o (d \o e)
    BY <2>2, <2>3, TextsAssociate
  <2> QED
    BY <2>1, <2>4, <2>5, Zenon
<1>3. ASSUME NEW text, Fit(text) PROVE Fit(text)'
  <2>1. /\ Fits(Tail(out), text)
        /\ Head(out).kind = "final" => Head(out).text \in {Template, text}
    BY <1>1, <1>3, FitsTail DEF Fit
  <2>2. Fits(Append(queue, Head(out)), text)
    BY <1>1, <1>3, <2>1, FitsSteps DEF Fit
  <2> QED
    BY <1>3, <2>1, <2>2 DEF Fit, Fits
<1> QED
  BY <1>2, <1>3

(* So does one that goes from the queue to the client.                      *)
LEMMA SendMoves ==
  ASSUME TypeInv, queue # <<>>, queue' = Tail(queue),
         sent' = Append(sent, Head(queue)), out' = out
  PROVE  Line' = Line /\ \A text : Fit(text) => Fit(text)'
<1>1. queue \in Seq(Items) /\ sent \in Seq(Items) /\ Head(queue) \in Items
  BY DEF TypeInv
<1>2. Line' = Line
  <2>1. TextOf(sent') \o TextOf(queue') = TextOf(sent) \o TextOf(queue)
    BY <1>1, TextMoves
  <2> QED
    BY <2>1 DEF Line
<1>3. ASSUME NEW text, Fit(text) PROVE Fit(text)'
  <2>1. /\ Fits(Tail(queue), text)
        /\ Head(queue).kind = "final" => Head(queue).text \in {Template, text}
    BY <1>1, <1>3, FitsTail DEF Fit
  <2>2. Fits(Append(sent, Head(queue)), text)
    BY <1>1, <1>3, <2>1, FitsSteps DEF Fit
  <2> QED
    BY <1>3, <2>1, <2>2 DEF Fit, Fits
<1> QED
  BY <1>2, <1>3

(* What the nodes write comes to the end of the line.                       *)
LEMMA WriteLine ==
  ASSUME TypeInv, NEW w \in Seq(Items), Write(w), UNCHANGED <<queue, sent>>
  PROVE  /\ Line' = Line \o TextOf(w)
         /\ \A text : Fit(text) /\ Fits(w, text) => Fit(text)'
<1>1. out \in Seq(Items) /\ out' = out \o w
  BY DEF TypeInv, Write
<1>2. Line' = Line \o TextOf(w)
  <2> DEFINE a == TextOf(sent) \o TextOf(queue)
             b == TextOf(out)
             c == TextOf(w)
  <2>1. a \in Seq(Words)
    <3>1. \A x, y \in Seq(Words) : x \o y \in Seq(Words)
      OBVIOUS
    <3> QED
      BY <3>1, LineTyped
  <2>2. b \in Seq(Words) /\ c \in Seq(Words)
    BY LineTyped, TextTyped
  <2>3. Line = a \o b /\ Line' = a \o TextOf(out')
    BY DEF Line
  <2>4. TextOf(out') = b \o c
    BY <1>1, TextOfConcat
  <2> HIDE DEF a, b, c
  <2>5. (a \o b) \o c = a \o (b \o c)
    BY <2>1, <2>2, TextsAssociate
  <2>6. Line' = Line \o c
    BY <2>3, <2>4, <2>5, Zenon
  <2> QED
    BY <2>6 DEF c
<1>3. ASSUME NEW text, Fit(text), Fits(w, text) PROVE Fit(text)'
  BY <1>1, <1>3, FitsConcat DEF Fit
<1> QED
  BY <1>2, <1>3

(* What the nodes write at most: texts of what they write, and its answers. *)
LEMMA WrittenTexts ==
  /\ TextOf(<<Raised>>) = <<>> /\ TextOf(<<Stage>>) = <<>>
  /\ TextOf(<<EndOfGraph>>) = <<>>
  /\ \A text :
       /\ Fits(<<Raised>>, text) /\ Fits(<<Stage>>, text)
       /\ Fits(<<EndOfGraph>>, text)
       /\ Fits(<<Error, RaisedAfterError>>, text)
  /\ \A t \in Seq(Words), end \in Endings :
       /\ <<Final(t), end>> \in Seq(Items) /\ TextOf(<<Final(t), end>>) = <<>>
       /\ Fits(<<Final(t), end>>, t) /\ (t = Template => \A text : Fits(<<Final(t), end>>, text))
  /\ \A t \in Seq(Words) :
       /\ <<Delta(t)>> \in Seq(Items) /\ TextOf(<<Delta(t)>>) = t
       /\ \A text : Fits(<<Delta(t)>>, text)
<1>1. /\ TextOf(<<Raised>>) = <<>> /\ TextOf(<<Stage>>) = <<>>
      /\ TextOf(<<EndOfGraph>>) = <<>>
  BY ItemsTyped, KindOf, TextOfOne
<1>2. ASSUME NEW text
      PROVE  /\ Fits(<<Raised>>, text) /\ Fits(<<Stage>>, text)
             /\ Fits(<<EndOfGraph>>, text)
             /\ Fits(<<Error, RaisedAfterError>>, text)
  BY KindOf DEF Fits
<1>3. ASSUME NEW t \in Seq(Words), NEW end \in Endings
      PROVE  /\ <<Final(t), end>> \in Seq(Items) /\ TextOf(<<Final(t), end>>) = <<>>
             /\ Fits(<<Final(t), end>>, t)
             /\ (t = Template => \A text : Fits(<<Final(t), end>>, text))
  <2>1. Final(t) \in Items /\ end \in Items /\ Final(t).kind = "final" /\ Final(t).text = t
    BY ItemsTyped, KindOf DEF Endings, Final, Item
  <2>2. end.kind \in {"end", "storeError"}
    BY KindOf DEF Endings
  <2>3. TextOf(<<Final(t), end>>) = <<>>
    <3> DEFINE one == <<Final(t)>>
    <3>1. one \in Seq(Items) /\ <<Final(t), end>> = Append(one, end)
      BY <2>1
    <3>2. TextOf(one) = <<>>
      BY <2>1, TextOfOne
    <3> HIDE DEF one
    <3>3. TextOf(Append(one, end)) = Plus(TextOf(one), end)
      BY <2>1, <3>1, TextOfAppend
    <3> QED
      BY <2>2, <3>1, <3>2, <3>3 DEF Plus
  <2>4. \A text : t \in {Template, text} => Fits(<<Final(t), end>>, text)
    BY <2>1, <2>2 DEF Fits
  <2> QED
    BY <2>1, <2>3, <2>4
<1>4. ASSUME NEW t \in Seq(Words)
      PROVE  /\ <<Delta(t)>> \in Seq(Items) /\ TextOf(<<Delta(t)>>) = t
             /\ \A text : Fits(<<Delta(t)>>, text)
  <2>1. Delta(t) \in Items /\ Delta(t).kind = "delta" /\ Delta(t).text = t
    BY ItemsTyped DEF Delta, Item
  <2> QED
    BY <2>1, TextOfOne DEF Fits
<1> QED
  BY <1>1, <1>2, <1>3, <1>4

(* LineInv: steps of the nodes.                                             *)
LEMMA NodesLine ==
  ASSUME StreamInv, LineInv, Nodes
  PROVE  LineInv'
<1>1. NodesOnly /\ Running /\ graph # "ended"
  BY DEF Nodes, CallSucceeds, WriteStage, NodeFails, Interpret, StreamToken,
         StreamCompletes, CallFails, StreamFails
<1>2. UNCHANGED <<prod, queue, sent, dropped, cons>> /\ prod # "over"
  BY <1>1 DEF NodesOnly, queueVars, Running
<1>3. SUFFICES ASSUME cons = "reading", ~dropped
               PROVE  /\ graph' \in {"invoke", "work"} =>
                           Line' = <<>> /\ chunks' = <<>> /\ batch' = <<>>
                      /\ graph' = "stream" => Line' \o batch' = chunks'
                      /\ Fit(Line)'
  BY <1>2 DEF LineInv, Kept
<1>4. TypeInv /\ Line \in Seq(Words)
  BY LineTyped DEF StreamInv
<1>5. /\ graph \in {"invoke", "work"} => Line = <<>> /\ chunks = <<>> /\ batch = <<>>
      /\ graph = "stream" => Line \o batch = chunks
  BY <1>2, <1>3 DEF LineInv, Kept
<1>6. \A text : Fit(text)
  <2>1. Lacks(sent, "final") /\ Lacks(queue, "final")
    <3>1. PassedOn = {} /\ OpenInv
      BY <1>1, <1>2, <1>3 DEF PassedOn, StreamInv, ReadingInv
    <3> QED
      BY <3>1 DEF OpenInv
  <2>2. Lacks(out, "final")
    <3>1. Plain(out)
      BY <1>1 DEF StreamInv, OutInv, Running
    <3> QED
      BY <3>1 DEF Plain, Lacks
  <2> QED
    BY <2>1, <2>2, LacksFits DEF Fit
<1>7. ASSUME NEW w \in Seq(Items), Write(w)
      PROVE  Line' = Line \o TextOf(w) /\ \A text : Fits(w, text) => Fit(text)'
  BY <1>2, <1>4, <1>6, <1>7, WriteLine
<1>8. ASSUME UNCHANGED out PROVE Line' = Line /\ \A text : Fit(text)'
  BY <1>2, <1>6, <1>8 DEF Line, Fit, Fits
<1>9. ASSUME NEW w \in {<<Raised>>, <<Stage>>, <<EndOfGraph>>}, Write(w)
      PROVE  Line' = Line /\ \A text : Fit(text)'
  <2>1. w \in Seq(Items) /\ TextOf(w) = <<>> /\ \A text : Fits(w, text)
    BY EndingsTyped, WrittenTexts
  <2>2. Line \o <<>> = Line
    BY <1>4, ConcatEmptySeq
  <2> QED
    BY <1>7, <1>9, <2>1, <2>2
<1>10. CASE CallSucceeds
  BY <1>5, <1>8, <1>10 DEF CallSucceeds
<1>11. ASSUME NEW retryable \in BOOLEAN, CallFails(retryable)
       PROVE  /\ graph' \in {"invoke", "work"} =>
                   Line' = <<>> /\ chunks' = <<>> /\ batch' = <<>>
              /\ graph' # "stream"
              /\ Fit(Line)'
  BY <1>5, <1>8, <1>9, <1>11 DEF CallFails
<1>12. CASE WriteStage
  BY <1>5, <1>9, <1>12 DEF WriteStage, llmVars
<1>13. CASE NodeFails
  <2>1. CASE Write(<<Raised>>)
    BY <1>9, <1>13, <2>1 DEF NodeFails
  <2>2. CASE Write(<<Error, RaisedAfterError>>)
    BY <1>7, <1>13, <2>2, EndingsTyped, WrittenTexts DEF NodeFails
  <2> QED
    BY <1>13, <2>1, <2>2 DEF NodeFails
<1>14. ASSUME NEW end \in Endings, Write(<<Final(Template), end>>)
       PROVE  Fit(Line)'
  BY <1>7, <1>14, TextsTyped, WrittenTexts
<1>15. CASE Interpret
  <2>1. CASE graph' = "stream" /\ UNCHANGED out
    <3>1. <<>> \o <<>> = <<>>
      OBVIOUS
    <3> QED
      BY <1>5, <1>8, <1>15, <2>1, <3>1 DEF Interpret, llmVars
  <2>2. CASE graph' = "ended" /\ \E end \in Endings : Write(<<Final(Template), end>>)
    BY <1>14, <2>2
  <2>3. CASE graph' = "ended" /\ Write(<<EndOfGraph>>)
    BY <1>9, <2>3
  <2> QED
    BY <1>15, <2>1, <2>2, <2>3 DEF Interpret
<1>16. CASE StreamToken
  <2> DEFINE token == <<route, Tokenized(route) + 1>>
             buffer == Append(batch, token)
  <2>1. /\ chunks' = Append(chunks, token) /\ graph = "stream" /\ graph' = "stream"
        /\ \/ batch' = <<>> /\ Write(<<Delta(buffer)>>)
           \/ batch' = buffer /\ UNCHANGED out
    BY <1>16 DEF StreamToken
  <2>2. /\ token \in Words /\ batch \in Seq(Words) /\ buffer \in Seq(Words)
    <3>1. token \in Tokens
      BY <1>4, <1>16, TokenTyped DEF StreamToken, TypeInv, TypeOK
    <3>2. batch \in Seq(Tokens) /\ buffer \in Seq(Tokens) /\ <<token>> \in Seq(Tokens)
      BY <1>4, <3>1 DEF TypeInv
    <3>3. <<token>> \in Seq(Words)
      BY <3>2, TextsTyped
    <3> HIDE DEF token
    <3> QED
      BY <3>2, <3>3, TextsTyped
  <2> HIDE DEF token
  <2>3. Line \o buffer = chunks'
    <3>1. Line \o buffer = Append(Line \o batch, token)
      BY <1>4, <2>2
    <3> QED
      BY <1>5, <2>1, <3>1
  <2> HIDE DEF buffer
  <2>4. CASE batch' = <<>> /\ Write(<<Delta(buffer)>>)
    <3>1. Line' = Line \o buffer /\ Fit(Line)'
      BY <1>7, <2>2, <2>4, WrittenTexts
    <3>2. (Line \o buffer) \o <<>> = Line \o buffer
      BY <1>4, <2>2
    <3> QED
      BY <2>1, <2>3, <2>4, <3>1, <3>2
  <2>5. CASE batch' = buffer /\ UNCHANGED out
    BY <1>8, <2>1, <2>3, <2>5
  <2> QED
    BY <2>1, <2>4, <2>5
<1>17. CASE StreamCompletes
  <2>0. PICK end \in Endings : Write(RestAndAnswer(end))
    BY <1>17 DEF StreamCompletes
  <2> DEFINE t == IF chunks = <<>> THEN Template ELSE chunks
             last == <<Final(t), end>>
  <2>1. /\ t \in Seq(Words) /\ batch \in Seq(Words) /\ graph = "stream"
        /\ graph' = "ended"
    BY <1>4, <1>17, TextsTyped DEF TypeInv, StreamCompletes
  <2>3. Write(Rest \o last)
    BY <2>0 DEF RestAndAnswer, Answer
  <2>7. t = chunks \/ t = Template
    OBVIOUS
  <2> HIDE DEF t
  <2>2. /\ last \in Seq(Items) /\ TextOf(last) = <<>> /\ Fits(last, t)
        /\ (t = Template => \A text : Fits(last, text))
    <3>1. t \in Seq(Words)
      BY <2>1
    <3>2. \A x \in Seq(Words), e \in Endings :
            /\ <<Final(x), e>> \in Seq(Items) /\ TextOf(<<Final(x), e>>) = <<>>
            /\ Fits(<<Final(x), e>>, x)
            /\ (x = Template => \A text : Fits(<<Final(x), e>>, text))
      BY WrittenTexts
    <3> QED
      BY <3>1, <3>2, Zenon
  <2>4. Rest \in Seq(Items) /\ TextOf(Rest) = batch /\ \A text : Fits(Rest, text)
    <3>1. CASE batch = <<>>
      BY <3>1, TextOfNone DEF Rest, Fits
    <3>2. CASE batch # <<>>
      BY <2>1, <3>2, WrittenTexts DEF Rest
    <3> QED
      BY <3>1, <3>2
  <2> HIDE DEF last, Rest
  <2>5. Rest \o last \in Seq(Items) /\ TextOf(Rest \o last) = batch \o <<>>
    <3>1. Rest \in Seq(Items) /\ last \in Seq(Items)
      BY <2>2, <2>4
    <3>2. Rest \o last \in Seq(Items)
      BY <3>1
    <3>3. TextOf(Rest \o last) = TextOf(Rest) \o TextOf(last)
      BY <3>1, TextOfConcat
    <3> QED
      BY <2>2, <2>4, <3>2, <3>3
  <2>6. Line' = chunks
    <3>1. batch \o <<>> = batch
      BY <2>1
    <3> QED
      BY <1>5, <1>7, <2>1, <2>3, <2>5, <3>1
  <2>8. Fits(Rest \o last, chunks)
    <3>1. Fits(last, chunks) /\ Fits(Rest, chunks)
      BY <2>2, <2>4, <2>7
    <3> QED
      BY <2>2, <2>4, <3>1, FitsConcat
  <2>9. \A text : Fits(Rest \o last, text) => Fit(text)'
    BY <1>7, <2>3, <2>5
  <2>10. Fit(chunks)'
    BY <1>17, <2>8, <2>9 DEF StreamCompletes
  <2> QED
    BY <1>17, <2>1, <2>6, <2>10 DEF Fit, StreamCompletes
<1>18. ASSUME NEW retryable \in BOOLEAN, StreamFails(retryable)
       PROVE  /\ graph' \notin {"invoke", "work"}
              /\ graph' = "stream" => Line' \o batch' = chunks'
              /\ Fit(Line)'
  <2>1. CASE UNCHANGED <<graph, out, batch>>
    BY <1>5, <1>8, <1>18, <2>1 DEF StreamFails
  <2>2. CASE graph' = "ended" /\ \E end \in Endings : Write(<<Final(Template), end>>)
    BY <1>14, <2>2
  <2> QED
    BY <1>18, <2>1, <2>2 DEF StreamFails
<1> QED
  BY <1>10, <1>11, <1>12, <1>13, <1>15, <1>16, <1>17, <1>18 DEF Nodes

(* LineInv: the producer ends with an exception, and nothing is promised    *)
(* any more but that there is no answer where an error was reported.        *)
LEMMA EndLine ==
  ASSUME StreamInv, NEW item \in {Raised, RaisedAfterError, StoreError, Cancelled},
         EndWith(item), UNCHANGED <<sent, cons>>,
         cons = "reading" /\ item = RaisedAfterError =>
           Lacks(sent, "final") /\ Lacks(queue, "final")
  PROVE  LineInv'
<1> DEFINE q == IF Len(queue) >= QueueSize THEN Tail(queue) ELSE queue
<1>1. queue \in Seq(Items) /\ item \in Items /\ (Len(queue) >= QueueSize => queue # <<>>)
  BY ItemsTyped, SizesAssumption DEF StreamInv, TypeInv
<1>2. q \in Seq(Items) /\ (Lacks(queue, "final") => Lacks(q, "final"))
  BY <1>1, TailFacts, TailKinds
<1>3. queue' = Append(q, item) /\ prod' = "over"
  BY DEF EndWith, WithException
<1> HIDE DEF q
<1>4. queue'[Len(queue')] = item
  BY <1>1, <1>2, <1>3, AppendFacts
<1>5. item # EndOfGraph /\ item.kind # "final"
  BY KindOf
<1>6. Lacks(queue, "final") => Lacks(queue', "final")
  BY <1>1, <1>2, <1>3, <1>5, AppendKinds
<1>7. ~Kept'
  BY <1>3, <1>4, <1>5 DEF Kept
<1> QED
  BY <1>4, <1>6, <1>7 DEF LineInv, Lacks

(* LineInv: a step on which nothing is written and nothing lost.            *)
LEMMA SameLine ==
  ASSUME LineInv, UNCHANGED <<chunks, batch, cons, graph>>,
         Kept' => Kept /\ Line' = Line /\ (\A text : Fit(text) => Fit(text)'),
         cons = "reading" /\ prod' = "over" /\ queue'[Len(queue')] = RaisedAfterError =>
           Lacks(sent', "final") /\ Lacks(queue', "final")
  PROVE  LineInv'
<1> SUFFICES ASSUME cons = "reading"
             PROVE  /\ Kept' =>
                         /\ graph \in {"invoke", "work"} =>
                              Line' = <<>> /\ chunks = <<>> /\ batch = <<>>
                         /\ graph = "stream" => Line' \o batch = chunks
                         /\ Fit(Line)'
                    /\ prod' = "over" /\ queue'[Len(queue')] = RaisedAfterError =>
                         Lacks(sent', "final") /\ Lacks(queue', "final")
  BY DEF LineInv
<1>1. ASSUME Kept'
      PROVE  /\ graph \in {"invoke", "work"} =>
                  Line' = <<>> /\ chunks = <<>> /\ batch = <<>>
             /\ graph = "stream" => Line' \o batch = chunks
             /\ Fit(Line)'
  <2>1. Kept /\ Line' = Line /\ \A text : Fit(text) => Fit(text)'
    BY <1>1
  <2>2. /\ graph \in {"invoke", "work"} => Line = <<>> /\ chunks = <<>> /\ batch = <<>>
        /\ graph = "stream" => Line \o batch = chunks
        /\ Fit(Line)
    BY <2>1 DEF LineInv
  <2>3. Fit(Line)'
    BY <2>1, <2>2
  <2> QED
    BY <2>1, <2>2, <2>3
<1> QED
  BY <1>1

(* The end of the graph, when the producer comes to it, is all that is left. *)
LEMMA EndIsLast ==
  ASSUME StreamInv, prod \in {"next", "putting"}, out # <<>>,
         Head(out).kind \in Ends
  PROVE  /\ graph = "ended" /\ Farewell /\ Len(out) = 1 /\ Head(out) = out[1]
         /\ Tail(out) = <<>>
<1>1. TypeInv /\ OutInv /\ out \in Seq(Items)
  BY DEF StreamInv, TypeInv
<1>2. graph = "ended"
  <2>1. Head(out) = out[1] /\ 1 \in DOMAIN out
    BY <1>1, TailFacts
  <2>2. ~Plain(out)
    BY <2>1 DEF Plain, Ends, Exceptions
  <2> QED
    BY <1>1, <2>2 DEF OutInv
<1>3. Farewell
  BY <1>1, <1>2 DEF OutInv
<1>4. Len(out) = 1 /\ Head(out) = out[1]
  BY <1>1, <1>3, FarewellHead
<1>5. Tail(out) = <<>>
  <2>1. Tail(out) \in Seq(Items) /\ Len(Tail(out)) = 0
    BY <1>1, <1>4, TailFacts
  <2> QED
    BY <2>1, EmptySeq
<1> QED
  BY <1>2, <1>3, <1>4, <1>5

(* LineInv: steps of the producer.                                          *)
LEMMA ProducerLine ==
  ASSUME StreamInv, LineInv, Producer \/ PutTimesOut
  PROVE  LineInv'
<1>1. TypeInv /\ OutInv /\ (cons = "reading" /\ prod # "over" => OpenInv)
  BY DEF StreamInv, ReadingInv
<1>2. UNCHANGED <<chunks, batch, cons, sent>> /\ prod # "over"
  BY DEF Producer, PutTimesOut, ProducerStarts, Produce, PutGoesOn,
         ProducerCancelled, Rested, llmVars
<1>3. CASE ProducerStarts
  <2>1. UNCHANGED <<queue, out, dropped>> /\ prod' # "over" /\ graph' \in {graph, "ended"}
    BY <1>3 DEF ProducerStarts, queueVars
  <2>2. Kept' = Kept /\ Line' = Line /\ \A text : Fit(text) <=> Fit(text)'
    BY <1>2, <2>1 DEF Kept, Line, Fit
  <2>3. CASE graph' = graph
    BY <1>2, <2>1, <2>2, <2>3, SameLine
  <2>4. CASE graph' = "ended"
    <3>1. Kept' /\ cons = "reading" => Fit(Line)'
      BY <1>2, <2>1, <2>2 DEF LineInv
    <3> QED
      BY <1>2, <2>1, <2>4, <3>1 DEF LineInv
  <2> QED
    BY <2>1, <2>3, <2>4
<1>4. CASE ProducerCancelled \/ PutTimesOut
  <2>1. EndWith(Cancelled) \/ EndWith(Raised)
    BY <1>4 DEF ProducerCancelled, PutTimesOut
  <2>2. Cancelled # RaisedAfterError /\ Raised # RaisedAfterError
    BY KindOf
  <2> QED
    BY <1>2, <2>1, <2>2, EndLine
<1>5. CASE Produce \/ PutGoesOn
  <2> DEFINE item == Head(out)
  <2>1. prod \in {"next", "putting"} /\ out # <<>>
    BY <1>1, <1>5, PuttingSomething DEF Produce, PutGoesOn
  <2>2. CASE item.kind \in Exceptions /\ EndWith(item)
    <3>1. graph = "ended" /\ Farewell /\ Len(out) = 1 /\ item = out[1]
      BY <2>1, <2>2, EndIsLast DEF Ends
    <3>2. item \in {Raised, RaisedAfterError, StoreError}
      BY <2>2, <3>1, KindOf DEF Farewell, Exceptions
    <3>3. PassedOn = Outcome(item, recorded)
      BY <2>1, <3>1 DEF PassedOn
    <3>4. item = RaisedAfterError => "final" \notin PassedOn
      BY <3>3, KindOf
    <3> HIDE DEF item
    <3>5. cons = "reading" /\ item = RaisedAfterError =>
            Lacks(sent, "final") /\ Lacks(queue, "final")
      BY <1>1, <1>2, <3>4 DEF OpenInv
    <3> QED
      BY <1>2, <2>2, <3>2, <3>5, EndLine
  <2>3. CASE UNCHANGED <<graph, queue, out, dropped>> /\ prod' # "over"
    <3>1. Kept' = Kept /\ Line' = Line /\ \A text : Fit(text) <=> Fit(text)'
      BY <1>2, <2>3 DEF Kept, Line, Fit
    <3> QED
      BY <1>2, <2>3, <3>1, SameLine
  <2>4. CASE dropped' /\ graph' = graph /\ prod' # "over"
    <3>1. ~Kept'
      BY <2>4 DEF Kept
    <3> QED
      BY <1>2, <2>4, <3>1, SameLine
  <2>5. CASE /\ Suppressed(item) /\ out' = Tail(out)
             /\ UNCHANGED <<graph, queue, dropped>> /\ prod' # "over"
    <3>1. item.kind # "delta" /\ item \in Items /\ out \in Seq(Items)
      BY <1>1, <2>1, <2>5 DEF Suppressed, TypeInv
    <3>2. TextOf(out) = TextOf(out')
      <4>1. TextOf(out) = TextOf(<<item>>) \o TextOf(Tail(out))
        BY <2>1, <3>1, TextOfHead
      <4>2. TextOf(<<item>>) = <<>>
        BY <3>1, TextOfOne
      <4>3. Tail(out) \in Seq(Items)
        BY <2>1, <3>1
      <4>4. TextOf(Tail(out)) \in Seq(Words)
        BY <4>3, TextTyped
      <4>5. <<>> \o TextOf(Tail(out)) = TextOf(Tail(out))
        BY <4>4, ConcatEmptySeq
      <4> QED
        BY <2>5, <4>1, <4>2, <4>5
    <3>3. Kept' = Kept /\ Line' = Line
      BY <1>2, <2>5, <3>2 DEF Kept, Line
    <3>4. ASSUME NEW text, Fit(text) PROVE Fit(text)'
      <4>1. Fits(Tail(out), text)
        BY <2>1, <3>1, <3>4, FitsTail DEF Fit
      <4> QED
        BY <1>2, <2>5, <3>4, <4>1 DEF Fit
    <3> QED
      BY <1>2, <2>5, <3>3, <3>4, SameLine
  <2>6. CASE /\ queue' = Append(queue, item) /\ out' = Tail(out)
             /\ UNCHANGED <<graph, dropped>>
             /\ prod' = "over" => item = EndOfGraph
    <3>1. Line' = Line /\ \A text : Fit(text) => Fit(text)'
      BY <1>1, <1>2, <2>1, <2>6, PutMoves
    <3>2. Kept' => Kept
      BY <1>2, <2>6 DEF Kept
    <3>3. prod' = "over" => queue'[Len(queue')] # RaisedAfterError
      <4>1. queue \in Seq(Items) /\ item \in Items
        BY <1>1, <2>1 DEF TypeInv
      <4>2. queue'[Len(queue')] = item
        BY <2>6, <4>1, AppendFacts
      <4> QED
        BY <2>6, <4>2, KindOf
    <3> QED
      BY <1>2, <2>6, <3>1, <3>2, <3>3, SameLine
  <2>7. CASE PutGoesOn
    BY <2>6, <2>7 DEF PutGoesOn
  <2>8. CASE Produce
    <3>1. CASE item.kind \in Events
      <4>1. item.kind \notin Exceptions /\ item # EndOfGraph
        BY <3>1, KindOf DEF Events, Exceptions
      <4>2. prod = "next" /\ graph' = graph /\ prod' # "over"
        BY <2>8, <4>1 DEF Produce
      <4>3. \/ UNCHANGED <<queue, out, dropped>>
            \/ dropped'
            \/ Suppressed(item) /\ out' = Tail(out) /\ UNCHANGED <<queue, dropped>>
            \/ queue' = Append(queue, item) /\ out' = Tail(out) /\ UNCHANGED dropped
        <5>1. dropped \in BOOLEAN
          BY <1>1 DEF TypeInv, TypeOK
        <5> QED
          BY <2>8, <4>1, <5>1 DEF Produce
      <4> QED
        BY <2>3, <2>4, <2>5, <2>6, <4>2, <4>3
    <3>2. CASE item.kind \in Exceptions /\ EndWith(item)
      BY <2>2, <3>2
    <3>3. CASE item = EndOfGraph
      <4>1. item.kind \notin Exceptions \cup Events /\ item.kind \in Ends
        BY <3>3, KindOf DEF Events, Exceptions, Ends
      <4>2. Tail(out) = <<>>
        BY <2>1, <4>1, EndIsLast
      <4>3. /\ UNCHANGED <<graph, dropped>>
            /\ \/ UNCHANGED <<queue, out>> /\ prod' = "putting"
               \/ queue' = Append(queue, item) /\ out' = <<>>
        BY <2>8, <4>1 DEF Produce
      <4> QED
        BY <2>3, <2>6, <3>3, <4>2, <4>3
    <3> QED
      BY <2>8, <3>1, <3>2, <3>3 DEF Produce
  <2> QED
    BY <1>5, <2>7, <2>8
<1> QED
  BY <1>3, <1>4, <1>5 DEF Producer

(* LineInv: an event is read.                                               *)
LEMMA ReadLine ==
  ASSUME StreamInv, LineInv, cons = "reading", queue # <<>>,
         Head(queue).kind \in Events, queue' = Tail(queue),
         sent' = Append(sent, Head(queue)),
         UNCHANGED <<graphVars, prod, dropped, cons>>
  PROVE  LineInv'
<1> DEFINE n == Len(queue)
<1>1. /\ TypeInv /\ queue \in Seq(Items) /\ n \in Nat /\ n > 0
      /\ Head(queue) = queue[1] /\ Head(queue) \in Items /\ sent \in Seq(Items)
      /\ Len(queue') = n - 1 /\ \A k \in 1..(n - 1) : queue'[k] = queue[k + 1]
  BY TailFacts DEF StreamInv, TypeInv
<1>2. prod = "over" => queue'[Len(queue')] = queue[n]
  <2> SUFFICES ASSUME prod = "over" PROVE queue'[Len(queue')] = queue[n]
    OBVIOUS
  <2>1. OverInv
    BY DEF StreamInv, ReadingInv
  <2>2. queue[n].kind \notin Events
    BY <2>1, KindOf DEF OverInv, Events
  <2> HIDE DEF n
  <2>3. n # 1
    BY <1>1, <2>2
  <2>4. n - 1 \in 1..(n - 1) /\ (n - 1) + 1 = n
    BY <1>1, <2>3
  <2> QED
    BY <1>1, <2>4
<1>3. Line' = Line /\ \A text : Fit(text) => Fit(text)'
  BY <1>1, SendMoves DEF graphVars
<1>4. Kept' => Kept
  BY <1>2 DEF Kept
<1>5. prod' = "over" /\ queue'[Len(queue')] = RaisedAfterError =>
        Lacks(sent', "final") /\ Lacks(queue', "final")
  <2> SUFFICES ASSUME prod = "over", queue[n] = RaisedAfterError
               PROVE  Lacks(sent', "final") /\ Lacks(queue', "final")
    BY <1>2
  <2>1. Lacks(sent, "final") /\ Lacks(queue, "final")
    BY DEF LineInv
  <2> QED
    BY <1>1, <2>1, TailKinds, AppendKinds
<1> QED
  BY <1>3, <1>4, <1>5, SameLine DEF graphVars, llmVars

(* What is sent makes a stream that keeps what DeltasAreTheAnswer says: it  *)
(* did not succeed, or has no answer, or an answer that the deltas make up. *)
LEMMA AnswerKept ==
  ASSUME \/ Lacks(sent', "done") \/ Has(sent', "error") \/ Lacks(sent', "final")
         \/ dropped' \/ Fits(sent', TextOf(sent'))
  PROVE  DeltasAreTheAnswer'
<1> SUFFICES ASSUME NEW k \in Sent("final")', Succeeded', ~dropped',
                    sent'[k].text # Template
             PROVE  Streamed' = sent'[k].text
  BY DEF DeltasAreTheAnswer
<1>1. k \in DOMAIN sent' /\ sent'[k].kind = "final"
  BY DEF Sent
<1>2. ~Lacks(sent', "done") /\ ~Has(sent', "error") /\ ~Lacks(sent', "final")
  BY <1>1 DEF Succeeded, Sent, Lacks, Has
<1>3. Fits(sent', TextOf(sent'))
  BY <1>2
<1> QED
  BY <1>1, <1>3 DEF Fits, Streamed

(* query() reads how the graph ended.                                       *)
LEMMA ReadAnswer ==
  ASSUME StreamInv, LineInv, cons = "reading", queue # <<>>, UNCHANGED dropped,
         NEW w \in {<<Done>>, <<Error, Done>>}, Send(w),
         \/ Head(queue) = EndOfGraph
         \/ Head(queue).kind \in Exceptions /\ w = ErrorReport(Head(queue))
  PROVE  DeltasAreTheAnswer'
<1> DEFINE n == Len(queue)
<1>1. /\ TypeInv /\ sent \in Seq(Items)
      /\ queue \in Seq(Items) /\ n \in Nat /\ n > 0 /\ Head(queue) = queue[1]
      /\ DOMAIN queue = 1..n
  BY TailFacts DEF StreamInv, TypeInv
<1>2. queue[1].kind \notin Events
  BY <1>1, KindOf DEF Events, Exceptions
<1>3. prod = "over" /\ OverInv
  <2>1. ~Open(queue)
    BY <1>1, <1>2 DEF Open
  <2> QED
    BY <2>1 DEF StreamInv, ReadingInv, OpenInv
<1>4. n = 1
  <2>1. n > 1 => 1 \in 1..(n - 1)
    BY <1>1
  <2>2. ~(n > 1)
    BY <1>2, <1>3, <2>1 DEF OverInv
  <2> HIDE DEF n
  <2> QED
    BY <1>1, <2>2
<1>5. CASE w = <<Error, Done>>
  <2>1. sent' = sent \o <<Error, Done>> /\ <<Error, Done>> \in Seq(Items)
    BY <1>5, ReportsTyped DEF Send
  <2>2. sent'[Len(sent) + 1] = Error /\ Len(sent) + 1 \in DOMAIN sent'
    BY <1>1, <2>1
  <2>3. Has(sent', "error")
    BY <2>2, KindOf DEF Has
  <2> QED
    BY <2>3, AnswerKept
<1>6. CASE w = <<Done>>
  <2>1. sent' = Append(sent, Done) /\ Done \in Items /\ Done.kind = "done"
    BY <1>1, <1>6, ItemsTyped, KindOf, AppendIsConcat DEF Send
  <2>2. CASE Head(queue) = EndOfGraph /\ ~dropped
    <3>1. Kept
      BY <1>1, <1>3, <1>4, <2>2 DEF Kept
    <3>2. Fits(sent, Line)
      BY <3>1 DEF LineInv, Fit
    <3>3. TextOf(queue) = <<>> /\ TextOf(out) = <<>>
      <4>1. queue = <<EndOfGraph>>
        BY <1>1, <1>4, <2>2
      <4>2. out = <<>>
        BY <1>3 DEF StreamInv, OutInv
      <4> QED
        BY <4>1, <4>2, ItemsTyped, KindOf, TextOfOne, TextOfNone
    <3>4. TextOf(sent) \in Seq(Words)
      BY <1>1, TextTyped
    <3>5. Line = TextOf(sent)
      BY <3>3, <3>4, ConcatEmptySeq DEF Line
    <3>6. TextOf(sent') = TextOf(sent)
      BY <1>1, <2>1, TextOfAppend DEF Plus
    <3>7. Fits(sent', TextOf(sent'))
      BY <1>1, <2>1, <3>2, <3>5, <3>6, FitsSteps
    <3> QED
      BY <3>7, AnswerKept
  <2>3. CASE dropped
    BY <2>3, AnswerKept
  <2>4. CASE Head(queue).kind \in Exceptions /\ w = ErrorReport(Head(queue))
    <3>1. Head(queue).kind = "reported"
      <4>1. <<Error, Done>> # <<Done>>
        OBVIOUS
      <4> QED
        BY <1>6, <2>4, <4>1 DEF ErrorReport
    <3>2. queue[n] = RaisedAfterError
      BY <1>1, <1>3, <1>4, <3>1, KindOf DEF OverInv
    <3>3. Lacks(sent, "final")
      BY <1>3, <3>2 DEF LineInv
    <3>4. Lacks(sent', "final")
      BY <1>1, <2>1, <3>3, AppendKinds
    <3> QED
      BY <3>4, AnswerKept
  <2>5. dropped \in BOOLEAN
    BY <1>1 DEF TypeInv, TypeOK
  <2> QED
    BY <2>2, <2>3, <2>4, <2>5
<1> QED
  BY <1>5, <1>6

(* A step that sends nothing.                                               *)
LEMMA NothingSaid ==
  ASSUME DeltasAreTheAnswer, UNCHANGED sent, dropped => dropped'
  PROVE  DeltasAreTheAnswer'
BY DEF DeltasAreTheAnswer, Streamed, Succeeded, Sent

(* The texts are on their way from the start,                               *)
LEMMA InitAnswer == Init => AnswerInv
<1> SUFFICES ASSUME Init PROVE LineInv /\ DeltasAreTheAnswer
  BY InitStream DEF AnswerInv
<1>1. TextOf(<<>>) = <<>> /\ <<>> \o <<>> = <<>>
  BY TextOfNone
<1>2. Line = <<>> /\ \A text : Fit(text)
  BY <1>1 DEF Init, Line, Fit, Fits
<1> QED
  BY <1>2 DEF Init, LineInv, DeltasAreTheAnswer, Sent

(* and every step keeps them so.                                            *)
LEMMA NextAnswer == AnswerInv /\ [Next]_vars => AnswerInv'
<1> SUFFICES ASSUME StreamInv, LineInv, DeltasAreTheAnswer, [Next]_vars
             PROVE  LineInv' /\ DeltasAreTheAnswer'
  BY NextStream DEF AnswerInv
<1>1. StreamInv'
  BY NextStream
<1>2. ASSUME cons' = "reading" PROVE DeltasAreTheAnswer'
  <2>1. Lacks(sent', "done")
    BY <1>1, <1>2 DEF StreamInv, ReadingInv
  <2> QED
    BY <2>1, AnswerKept
<1>3. ASSUME cons' # "reading" PROVE LineInv'
  BY <1>3 DEF LineInv
<1>4. dropped \in BOOLEAN /\ sent \in Seq(Items)
  BY DEF StreamInv, TypeInv, TypeOK
<1>5. CASE Nodes
  <2>1. UNCHANGED <<sent, dropped>>
    BY <1>5
    DEF Nodes, CallSucceeds, WriteStage, NodeFails, Interpret, StreamToken,
        StreamCompletes, CallFails, StreamFails, NodesOnly, queueVars
  <2> QED
    BY <1>5, <2>1, NodesLine, NothingSaid
<1>6. CASE Producer \/ PutTimesOut
  <2>1. UNCHANGED sent
    BY <1>6
    DEF Producer, PutTimesOut, ProducerStarts, Produce, PutGoesOn,
        ProducerCancelled, Rested
  <2>2. dropped => dropped'
    BY <1>6
    DEF Producer, PutTimesOut, ProducerStarts, Produce, PutGoesOn,
        ProducerCancelled, queueVars
  <2> QED
    BY <1>6, <2>1, <2>2, ProducerLine, NothingSaid
<1>7. CASE Read
  <2> DEFINE item == Head(queue)
  <2>1. /\ cons = "reading" /\ queue # <<>> /\ queue' = Tail(queue)
        /\ UNCHANGED <<graphVars, prod, dropped>>
    BY <1>7 DEF Read
  <2>2. CASE item.kind \in Events /\ Send(<<item>>) /\ UNCHANGED cons
    <3>1. item \in Items
      BY <2>1 DEF StreamInv, TypeInv
    <3>2. sent' = Append(sent, item)
      BY <1>4, <2>2, <3>1, AppendIsConcat DEF Send
    <3>3. LineInv'
      BY <2>1, <2>2, <3>2, ReadLine
    <3> QED
      BY <1>2, <2>1, <2>2, <3>3
  <2>3. CASE /\ item = EndOfGraph /\ cons' # "reading"
             /\ Send(<<Done>>) \/ Send(<<Error, Done>>)
    <3>1. DeltasAreTheAnswer'
      BY <2>1, <2>3, ReadAnswer
    <3> QED
      BY <1>3, <2>3, <3>1
  <2>4. CASE /\ item.kind \in Exceptions /\ cons' # "reading"
             /\ Send(ErrorReport(item))
    <3>1. ErrorReport(item) \in {<<Done>>, <<Error, Done>>}
      BY DEF ErrorReport
    <3>2. DeltasAreTheAnswer'
      BY <2>1, <2>4, <3>1, ReadAnswer
    <3> QED
      BY <1>3, <2>4, <3>2
  <2> QED
    BY <1>7, <2>2, <2>3, <2>4, StoreErrorReport DEF Read
<1>8. CASE TotalTimeout \/ CompleteFails
  <2>1. cons' # "reading" /\ Send(<<Error, Done>>)
    BY <1>8, StoreErrorReport DEF TotalTimeout, CompleteFails
  <2>2. sent' = sent \o <<Error, Done>> /\ <<Error, Done>> \in Seq(Items)
    BY <2>1, ReportsTyped DEF Send
  <2>3. sent'[Len(sent) + 1] = Error /\ Len(sent) + 1 \in DOMAIN sent'
    BY <1>4, <2>2
  <2>4. Has(sent', "error")
    BY <2>3, KindOf DEF Has
  <2> QED
    BY <1>3, <2>1, <2>4, AnswerKept
<1>9. CASE ReadCancelled \/ Disconnect \/ Close \/ Join
  <2>1. cons' # "reading" /\ UNCHANGED <<sent, dropped>>
    BY <1>9 DEF ReadCancelled, Disconnect, Close, Join, Closing, queueVars
  <2> QED
    BY <1>3, <2>1, NothingSaid
<1>10. CASE Shutdown \/ Ended \/ UNCHANGED vars
  <2>1. UNCHANGED <<graphVars, prod, queueVars, cons, sent>>
    BY <1>10 DEF Shutdown, Ended, vars
  <2>2. /\ UNCHANGED <<dropped, chunks, batch, graph>>
        /\ Kept' = Kept /\ Line' = Line /\ \A text : Fit(text) <=> Fit(text)'
    BY <2>1 DEF Kept, Line, Fit, graphVars, llmVars, queueVars
  <2>3. LineInv'
    BY <2>1, <2>2, SameLine DEF LineInv, queueVars
  <2> QED
    BY <2>1, <2>2, <2>3, NothingSaid
<1> QED
  BY <1>5, <1>6, <1>7, <1>8, <1>9, <1>10 DEF Next, Consumer

(* The answer of a query that succeeds is what was streamed, whichever      *)
(* models the tokens came from, if it is a model's answer and no event was  *)
(* dropped: for every size of the queue, batch and length of the answer.    *)
THEOREM AnswerIsWhatWasStreamed == Spec => []DeltasAreTheAnswer
<1>1. Spec => []AnswerInv
  BY InitAnswer, NextAnswer, PTL DEF Spec
<1>2. AnswerInv => DeltasAreTheAnswer
  BY DEF AnswerInv
<1> QED
  BY <1>1, <1>2, PTL
=============================================================================
