----------------------------- MODULE Task_proofs -----------------------------
(***************************************************************************)
(* The queues of a task, for any number of requests, any number of handles  *)
(* that wait for a response, and whatever fails.                            *)
(***************************************************************************)
EXTENDS Task, TLAPS

\* The requests whose answer is stored are the first ones.
Answered == current - processingRequestCount

\* The queue of requests holds those behind the current one, in order.
RequestInv ==
    /\ current <= sent
    /\ mpc # "closed" =>
         /\ Len(requestList) = sent - current
         /\ pendingRequestCount = Len(requestList)
         /\ \A i \in 1..Len(requestList) : requestList[i] = current + i
    /\ ~end => Len(requestList)
                 = requestSem + One(mpc = "post") + One(tpc = "take")
    /\ mpc \in {"closePost", "join", "closed"} => end

\* Where the thread is says whether it processes a request.
ThreadInv ==
    /\ tpc \in {"start", "acquire", "take", "release", "trigger"} =>
         processingRequestCount = 0
    /\ tpc \in {"call", "store"} => processingRequestCount = 1
    /\ tpc \in {"fatal", "fatalRelease", "lost", "drain", "exited"} =>
         end \/ processingRequestCount = 1 \/ current = 0
    /\ tpc = "fatal" => processingRequestCount = 1 \/ current = 0
    /\ tpc = "start" => current = 0 /\ exceptionList = <<>>
    /\ tpc = "store" => outcome[current] \in {"value", "exception"}
    /\ tpc = "exited" => responseList = <<>> /\ exceptionList = <<>>

\* The queue of responses holds those between the script and the thread.
ResponseInv ==
    /\ received <= Answered
    /\ pendingResponseCount = Answered - received
    /\ tpc # "exited" => Len(responseList) = pendingResponseCount
    /\ tpc \notin {"drain", "exited"} =>
         Len(responseList)
           = responseSem + One(tpc = "release") + One(mpc = "take")
    /\ \A i \in 1..Len(responseList) :
         \/ /\ responseList[i] = received + i
            /\ outcome[received + i] = "value"
         \/ /\ responseList[i] = Exception
            /\ outcome[received + i] = "exception"
    /\ last.kind \in {"value", "exception"} => received > 0

\* The exceptions of these, and then the error that ended the thread.
IsThrown(r) == r \in received + 1..Answered /\ outcome[r] = "exception"
IsFatal(r) == /\ tpc \in {"fatalRelease", "drain"} /\ end /\ r = current
              /\ processingRequestCount = 1 \/ current = 0

ExceptionInv ==
    /\ \A i, j \in 1..Len(exceptionList) :
         i < j => exceptionList[i] < exceptionList[j]
    /\ \A i \in 1..Len(exceptionList) :
         IsThrown(exceptionList[i]) \/ IsFatal(exceptionList[i])
    /\ \A r \in Requests : IsThrown(r) =>
         \/ tpc = "exited"
         \/ \E i \in 1..Len(exceptionList) : exceptionList[i] = r

CancelInv == mpc \notin {"cancel", "trigger"} => toCancel = {}

IInv ==
    /\ TypeOK /\ RequestInv /\ ThreadInv /\ ResponseInv /\ ExceptionInv
    /\ CancelInv /\ AnswersInOrder

-----------------------------------------------------------------------------
(* Queues.                                                                  *)

IsAppended(t, s, e, S) ==
    /\ t \in Seq(S) /\ Len(t) = Len(s) + 1 /\ t[Len(s) + 1] = e
    /\ \A i \in 1..Len(s) : t[i] = s[i]

LEMMA AppendFacts ==
    ASSUME NEW S, NEW s \in Seq(S), NEW e \in S
    PROVE  IsAppended(Append(s, e), s, e, S)
BY DEF IsAppended

IsTail(t, s, S) ==
    /\ t \in Seq(S) /\ Len(t) = Len(s) - 1 /\ Len(s) > 0
    /\ Head(s) = s[1] /\ s[1] \in S
    /\ \A i \in 1..Len(t) : t[i] = s[i + 1]

LEMMA TailFacts ==
    ASSUME NEW S, NEW s \in Seq(S), s # <<>>
    PROVE  IsTail(Tail(s), s, S)
BY DEF IsTail

-----------------------------------------------------------------------------
(* Requests are numbers.                                                    *)

LEMMA RequestsAreNumbers ==
    /\ MaxRequest \in Nat
    /\ \A r : r \in Requests <=> r \in Nat /\ 1 <= r /\ r <= MaxRequest
BY MaxRequestAssumption DEF Requests

-----------------------------------------------------------------------------
(* The task's thread.                                                       *)

LEMMA StartKeeps ==
    ASSUME IInv, Start PROVE IInv'
<1> USE RequestsAreNumbers DEF Thread, script, waits, shared, queues, requests,
responses, thread, Start
<1>1. TypeOK'
      BY DEF IInv, TypeOK, RequestInv, ThreadInv, ResponseInv, CancelInv,
         Exception, Answered
<1>2. RequestInv'
      BY DEF IInv, TypeOK, RequestInv, ThreadInv, One
<1>3. ThreadInv'
      BY DEF IInv, TypeOK, ThreadInv, ResponseInv, Answered
<1>4. ResponseInv'
      BY DEF IInv, TypeOK, RequestInv, ThreadInv, ResponseInv, Answered, One,
         Exception
<1>5. ExceptionInv'
      BY DEF IInv, TypeOK, RequestInv, ThreadInv, ResponseInv, ExceptionInv,
         Answered, IsThrown, IsFatal
<1>6. CancelInv'
      BY DEF IInv, TypeOK, CancelInv
<1>7. AnswersInOrder'
      BY DEF IInv, TypeOK, RequestInv, ThreadInv, ResponseInv, AnswersInOrder,
         Answered
<1> QED BY <1>1, <1>2, <1>3, <1>4, <1>5, <1>6, <1>7 DEF IInv

LEMMA AcquireRequestKeeps ==
    ASSUME IInv, AcquireRequest PROVE IInv'
<1> USE RequestsAreNumbers DEF Thread, script, waits, shared, queues, requests,
responses, thread, AcquireRequest
<1>1. TypeOK'
      BY DEF IInv, TypeOK, RequestInv, ThreadInv, ResponseInv, CancelInv,
         Exception, Answered
<1>2. RequestInv'
      BY DEF IInv, TypeOK, RequestInv, ThreadInv, One
<1>3. ThreadInv'
      BY DEF IInv, TypeOK, ThreadInv, ResponseInv, Answered
<1>4. ResponseInv'
      BY DEF IInv, TypeOK, RequestInv, ThreadInv, ResponseInv, Answered, One,
         Exception
<1>5. ExceptionInv'
      BY DEF IInv, TypeOK, RequestInv, ThreadInv, ResponseInv, ExceptionInv,
         Answered, IsThrown, IsFatal
<1>6. CancelInv'
      BY DEF IInv, TypeOK, CancelInv
<1>7. AnswersInOrder'
      BY DEF IInv, TypeOK, RequestInv, ThreadInv, ResponseInv, AnswersInOrder,
         Answered
<1> QED BY <1>1, <1>2, <1>3, <1>4, <1>5, <1>6, <1>7 DEF IInv

LEMMA TakeRequestKeeps ==
    ASSUME IInv, TakeRequest PROVE IInv'
<1> USE RequestsAreNumbers
<1>1. /\ tpc = "take" /\ tpc' = "call" /\ ~end
      /\ current' = Head(requestList) /\ requestList' = Tail(requestList)
      /\ pendingRequestCount' = pendingRequestCount - 1
      /\ processingRequestCount' = processingRequestCount + 1
      /\ UNCHANGED <<end, mutex, requestSem, responses, responseEvent,
                     outcome, script, waits>>
      BY DEF TakeRequest, Thread, CountTaken
<1>2. /\ requestList \in Seq(Requests) /\ requestList # <<>>
      /\ Len(requestList) = requestSem + One(mpc = "post") + 1
      /\ requestSem \in Nat /\ One(mpc = "post") \in Nat
      /\ mpc # "closed" /\ processingRequestCount = 0
      /\ current \in Nat /\ sent \in Nat /\ received \in Nat
      BY <1>1 DEF IInv, TypeOK, RequestInv, ThreadInv, One
<1>3. IsTail(requestList', requestList, Requests)
      BY <1>1, <1>2, TailFacts
<1>4. /\ current' = current + 1 /\ current' \in Requests
      /\ Len(requestList') = Len(requestList) - 1
      /\ Answered' = Answered
      BY <1>1, <1>2, <1>3 DEF IInv, RequestInv, IsTail, Answered
<1>5. TypeOK'
  <2>1. requestList' \in Seq(Requests) /\ pendingRequestCount' \in Nat
        BY <1>1, <1>2, <1>3 DEF IInv, RequestInv, IsTail
  <2>2. current' \in Requests \cup {0} /\ processingRequestCount' \in 0..1
        BY <1>1, <1>2, <1>4
  <2> QED BY <1>1, <2>1, <2>2 DEF IInv, TypeOK, script, waits, responses
<1>6. RequestInv'
  <2>1. \A i \in 1..Len(requestList') : requestList'[i] = current' + i
        BY <1>1, <1>2, <1>3, <1>4 DEF IInv, RequestInv, IsTail
  <2>2. Len(requestList')
          = requestSem' + One(mpc' = "post") + One(tpc' = "take")
        BY <1>1, <1>2, <1>4 DEF One, script
  <2> QED BY <1>1, <1>2, <1>4, <2>1, <2>2 DEF IInv, RequestInv, script
<1>7. ThreadInv'
      BY <1>1, <1>2 DEF ThreadInv
<1>8. ResponseInv'
      BY <1>1, <1>2, <1>4 DEF IInv, ResponseInv, One, script, responses
<1>9. ExceptionInv'
      BY <1>1, <1>2, <1>4
      DEF IInv, ExceptionInv, IsThrown, IsFatal, script, responses
<1>10. CancelInv' /\ AnswersInOrder'
      BY <1>1 DEF IInv, CancelInv, AnswersInOrder, script, waits
<1> QED BY <1>5, <1>6, <1>7, <1>8, <1>9, <1>10 DEF IInv

LEMMA SeeEndKeeps ==
    ASSUME IInv, SeeEnd PROVE IInv'
<1> USE RequestsAreNumbers DEF Thread, script, waits, shared, queues, requests,
responses, thread, SeeEnd
<1>1. TypeOK'
      BY DEF IInv, TypeOK, RequestInv, ThreadInv, ResponseInv, CancelInv,
         Exception, Answered
<1>2. RequestInv'
      BY DEF IInv, TypeOK, RequestInv, ThreadInv, One
<1>3. ThreadInv'
      BY DEF IInv, TypeOK, ThreadInv, ResponseInv, Answered
<1>4. ResponseInv'
      BY DEF IInv, TypeOK, RequestInv, ThreadInv, ResponseInv, Answered, One,
         Exception
<1>5. ExceptionInv'
      BY DEF IInv, TypeOK, RequestInv, ThreadInv, ResponseInv, ExceptionInv,
         Answered, IsThrown, IsFatal
<1>6. CancelInv'
      BY DEF IInv, TypeOK, CancelInv
<1>7. AnswersInOrder'
      BY DEF IInv, TypeOK, RequestInv, ThreadInv, ResponseInv, AnswersInOrder,
         Answered
<1> QED BY <1>1, <1>2, <1>3, <1>4, <1>5, <1>6, <1>7 DEF IInv

LEMMA CallTaskFuncKeeps ==
    ASSUME IInv, CallTaskFunc PROVE IInv'
<1> USE RequestsAreNumbers
<1>1. /\ tpc = "call" /\ UNCHANGED <<shared, current, script, waits>>
      /\ \/ /\ tpc' = "store"
            /\ \E o \in {"value", "exception"} :
                 outcome' = [outcome EXCEPT ![current] = o]
         \/ tpc' = "fatal" /\ UNCHANGED outcome
      BY DEF CallTaskFunc, Thread
<1>2. /\ processingRequestCount = 1 /\ Answered' = Answered
      /\ current \in Requests /\ received < current /\ received \in Nat
      /\ Len(responseList) = current - 1 - received
      BY <1>1 DEF IInv, TypeOK, ThreadInv, ResponseInv, Answered, shared,
         queues
<1>3. /\ \A r \in Requests : r # current => outcome'[r] = outcome[r]
      /\ tpc' = "store" => outcome'[current] \in {"value", "exception"}
      /\ outcome' \in [Requests -> {"none", "value", "exception"}]
      BY <1>1, <1>2 DEF IInv, TypeOK
<1>4. TypeOK'
      BY <1>1, <1>3 DEF IInv, TypeOK, shared, queues, requests, responses,
         script, waits
<1>5. RequestInv' /\ ThreadInv'
      BY <1>1, <1>2, <1>3 DEF IInv, RequestInv, ThreadInv, One, shared,
         queues, requests, responses, script
<1>6. ResponseInv'
  <2>1. \A i \in 1..Len(responseList) :
          received + i \in Requests /\ received + i # current
        BY <1>2
  <2> QED BY <1>1, <1>2, <1>3, <2>1 DEF IInv, ResponseInv, One, shared,
         queues, responses, script
<1>7. ExceptionInv'
  <2>1. \A r : IsThrown(r)' <=> IsThrown(r)
    <3> TAKE r
    <3>1. r \in received + 1..Answered => r \in Requests /\ r # current
          BY <1>2 DEF Answered
    <3> QED BY <1>1, <1>2, <1>3, <3>1 DEF IsThrown, script
  <2>2. \A r : IsFatal(r) => IsFatal(r)'
        BY <1>1 DEF IsFatal
  <2> QED BY <1>1, <2>1, <2>2 DEF IInv, ExceptionInv, shared, queues, responses
<1>8. CancelInv' /\ AnswersInOrder'
  <2>1. last.kind \in {"value", "exception"} =>
          received \in Requests /\ received # current
        BY <1>2 DEF IInv, ResponseInv
  <2> QED BY <1>1, <1>3, <2>1
          DEF IInv, CancelInv, AnswersInOrder, script, waits
<1> QED BY <1>4, <1>5, <1>6, <1>7, <1>8 DEF IInv

LEMMA StoreResponseKeeps ==
    ASSUME IInv, StoreResponse PROVE IInv'
<1> USE RequestsAreNumbers
<1> DEFINE value == outcome[current] = "value"
           e == IF value THEN current ELSE Exception
<1>1. /\ tpc = "store" /\ tpc' = "release"
      /\ responseList' = Append(responseList, e)
      /\ exceptionList' = IF value THEN exceptionList
                                   ELSE Append(exceptionList, current)
      /\ pendingResponseCount' = pendingResponseCount + 1
      /\ processingRequestCount' = processingRequestCount - 1
      /\ UNCHANGED <<end, mutex, requests, responseSem, responseEvent,
                     current, outcome, script, waits>>
      BY DEF StoreResponse, Thread, CountAnswered, PushException
<1>2. /\ processingRequestCount = 1 /\ current \in Requests
      /\ Answered = current - 1 /\ Answered' = current
      /\ received \in Nat /\ received < current
      /\ outcome[current] \in {"value", "exception"}
      /\ Len(responseList) = Answered - received
      /\ pendingResponseCount = Len(responseList)
      /\ Len(responseList) = responseSem + One(mpc = "take")
      /\ responseSem \in Nat /\ One(mpc = "take") \in Nat
      BY <1>1 DEF IInv, TypeOK, ThreadInv, ResponseInv, Answered, One
<1>3. /\ IsAppended(responseList', responseList, e, Requests \cup {Exception})
      /\ ~value => IsAppended(exceptionList', exceptionList, current,
                              Requests \cup {0})
      BY <1>1, <1>2, AppendFacts DEF IInv, TypeOK
<1>4. TypeOK'
  <2>1. /\ responseList' \in Seq(Requests \cup {Exception})
        /\ exceptionList' \in Seq(Requests \cup {0})
        BY <1>1, <1>3 DEF IInv, TypeOK, IsAppended
  <2>2. pendingResponseCount' \in Nat /\ processingRequestCount' \in 0..1
    <3>1. pendingResponseCount \in Nat
          BY DEF IInv, TypeOK
    <3> QED BY <1>1, <1>2, <3>1
  <2> HIDE DEF e, value
  <2> QED BY <1>1, <2>1, <2>2 DEF IInv, TypeOK, requests, script, waits
<1>5. RequestInv' /\ ThreadInv'
      BY <1>1, <1>2
      DEF IInv, RequestInv, ThreadInv, One, requests, script
<1>6. ResponseInv'
  <2>1. Len(responseList') = Answered' - received'
        BY <1>1, <1>2, <1>3 DEF IsAppended, script
  <2>2. \A i \in 1..Len(responseList') :
          \/ responseList'[i] = received + i /\ outcome[received + i] = "value"
          \/ /\ responseList'[i] = Exception
             /\ outcome[received + i] = "exception"
    <3> TAKE i \in 1..Len(responseList')
    <3>1. CASE i = Len(responseList')
      <4>1. responseList'[i] = e /\ received + i = current
            BY <1>1, <1>2, <1>3, <2>1, <3>1 DEF IsAppended, script
      <4> QED BY <1>2, <4>1
    <3>2. CASE i # Len(responseList')
      <4>1. i \in 1..Len(responseList) /\ responseList'[i] = responseList[i]
            BY <1>2, <1>3, <3>2 DEF IsAppended
      <4> QED BY <4>1 DEF IInv, ResponseInv
    <3> QED BY <3>1, <3>2
  <2>3. Len(responseList') = Len(responseList) + 1
        BY <1>3 DEF IsAppended
  <2>4. Len(responseList')
          = responseSem' + One(tpc' = "release") + One(mpc' = "take")
        BY <1>1, <1>2, <2>3 DEF One, script
  <2>5. received' = received /\ outcome' = outcome /\ last' = last
        BY <1>1 DEF script
  <2>6. received' <= Answered' /\ pendingResponseCount' = Len(responseList')
        BY <1>1, <1>2, <2>3, <2>5
  <2> HIDE DEF e, value
  <2> QED BY <1>1, <1>2, <2>1, <2>2, <2>4, <2>5, <2>6
          DEF IInv, ResponseInv
<1>7. ExceptionInv'
  <2>1. \A i \in 1..Len(exceptionList) : IsThrown(exceptionList[i])
        BY <1>1 DEF IInv, ExceptionInv, IsFatal
  <2>2. \A r : r \in received + 1..current
               <=> r \in received + 1..Answered \/ r = current
        BY <1>2
  <2>3. CASE value
    <3>1. UNCHANGED exceptionList
          BY <1>1, <2>3
    <3>2. \A r : IsThrown(r)' <=> IsThrown(r)
      <4>1. outcome' = outcome /\ received' = received /\ Answered' = current
            BY <1>1, <1>2 DEF script
      <4>2. outcome[current] # "exception"
            BY <2>3
      <4> QED BY <2>2, <4>1, <4>2 DEF IsThrown
    <3> QED BY <1>1, <3>1, <3>2, <2>1 DEF IInv, ExceptionInv
  <2>4. CASE ~value
    <3>1. IsAppended(exceptionList', exceptionList, current, Requests \cup {0})
          BY <1>3, <2>4
    <3>2. \A r : IsThrown(r)' <=> IsThrown(r) \/ r = current
      <4>1. outcome' = outcome /\ received' = received /\ Answered' = current
            BY <1>1, <1>2 DEF script
      <4>2. outcome[current] = "exception"
            BY <1>2, <2>4
      <4> QED BY <2>2, <4>1, <4>2 DEF IsThrown
    <3>3. \A r : IsThrown(r) => r < current
          BY <1>2 DEF IsThrown
    <3>4. Len(exceptionList) \in Nat
          BY DEF IInv, TypeOK
    <3>5. \A i \in 1..Len(exceptionList') :
            \/ /\ i \in 1..Len(exceptionList)
               /\ exceptionList'[i] = exceptionList[i]
            \/ i = Len(exceptionList) + 1 /\ exceptionList'[i] = current
          BY <3>1, <3>4 DEF IsAppended
    <3>6. \A i, j \in 1..Len(exceptionList') :
            i < j => exceptionList'[i] < exceptionList'[j]
          BY <2>1, <3>3, <3>4, <3>5 DEF IInv, ExceptionInv
    <3>7. (\A i \in 1..Len(exceptionList) : IsThrown(exceptionList[i]))'
          BY <2>1, <3>2, <3>5
    <3>8. \A r \in Requests : IsThrown(r)' =>
            \E i \in 1..Len(exceptionList') : exceptionList'[i] = r
      <4> TAKE r \in Requests
      <4> HAVE IsThrown(r)'
      <4>1. CASE r = current
            BY <3>1, <3>4, <4>1 DEF IsAppended
      <4>2. CASE IsThrown(r)
        <5>1. PICK i \in 1..Len(exceptionList) : exceptionList[i] = r
              BY <1>1, <4>2 DEF IInv, ExceptionInv
        <5> QED BY <3>1, <3>4, <5>1 DEF IsAppended
      <4> QED BY <3>2, <4>1, <4>2
    <3> HIDE DEF value
    <3> QED BY <3>6, <3>7, <3>8 DEF ExceptionInv
  <2> QED BY <2>3, <2>4
<1>8. CancelInv' /\ AnswersInOrder'
      BY <1>1 DEF IInv, CancelInv, AnswersInOrder, script, waits
<1> QED BY <1>4, <1>5, <1>6, <1>7, <1>8 DEF IInv

LEMMA ReleaseResponseKeeps ==
    ASSUME IInv, ReleaseResponse PROVE IInv'
<1> USE RequestsAreNumbers DEF Thread, script, waits, shared, queues, requests,
responses, thread, ReleaseResponse, ReleaseResponseSem
<1>1. TypeOK'
      BY DEF IInv, TypeOK, RequestInv, ThreadInv, ResponseInv, CancelInv,
         Exception, Answered
<1>2. RequestInv'
      BY DEF IInv, TypeOK, RequestInv, ThreadInv, One
<1>3. ThreadInv'
      BY DEF IInv, TypeOK, ThreadInv, ResponseInv, Answered
<1>4. ResponseInv'
      BY DEF IInv, TypeOK, RequestInv, ThreadInv, ResponseInv, Answered, One,
         Exception
<1>5. ExceptionInv'
      BY DEF IInv, TypeOK, RequestInv, ThreadInv, ResponseInv, ExceptionInv,
         Answered, IsThrown, IsFatal
<1>6. CancelInv'
      BY DEF IInv, TypeOK, CancelInv
<1>7. AnswersInOrder'
      BY DEF IInv, TypeOK, RequestInv, ThreadInv, ResponseInv, AnswersInOrder,
         Answered
<1> QED BY <1>1, <1>2, <1>3, <1>4, <1>5, <1>6, <1>7 DEF IInv

LEMMA TriggerResponseKeeps ==
    ASSUME IInv, TriggerResponse PROVE IInv'
<1> USE RequestsAreNumbers DEF Thread, script, waits, shared, queues, requests,
responses, thread, TriggerResponse, TriggerEvent
<1>1. TypeOK'
      BY DEF IInv, TypeOK, RequestInv, ThreadInv, ResponseInv, CancelInv,
         Exception, Answered
<1>2. RequestInv'
      BY DEF IInv, TypeOK, RequestInv, ThreadInv, One
<1>3. ThreadInv'
      BY DEF IInv, TypeOK, ThreadInv, ResponseInv, Answered
<1>4. ResponseInv'
      BY DEF IInv, TypeOK, RequestInv, ThreadInv, ResponseInv, Answered, One,
         Exception
<1>5. ExceptionInv'
      BY DEF IInv, TypeOK, RequestInv, ThreadInv, ResponseInv, ExceptionInv,
         Answered, IsThrown, IsFatal
<1>6. CancelInv'
      BY DEF IInv, TypeOK, CancelInv
<1>7. AnswersInOrder'
      BY DEF IInv, TypeOK, RequestInv, ThreadInv, ResponseInv, AnswersInOrder,
         Answered
<1> QED BY <1>1, <1>2, <1>3, <1>4, <1>5, <1>6, <1>7 DEF IInv

LEMMA FatalKeeps ==
    ASSUME IInv, Fatal PROVE IInv'
<1> USE RequestsAreNumbers
<1>1. /\ tpc = "fatal" /\ tpc' = "fatalRelease" /\ end' = TRUE
      /\ exceptionList' = Append(exceptionList, current)
      /\ UNCHANGED <<mutex, requests, processingRequestCount, responseSem,
                     responseList, pendingResponseCount, responseEvent,
                     current, outcome, script, waits>>
      BY DEF Fatal, Thread, PushException
<1>2. /\ processingRequestCount = 1 \/ current = 0
      /\ processingRequestCount \in 0..1 /\ current \in Nat
      /\ Answered' = Answered /\ Answered = current - processingRequestCount
      /\ received \in Nat /\ received <= Answered
      BY <1>1 DEF IInv, TypeOK, ThreadInv, ResponseInv, Answered
<1>3. IsAppended(exceptionList', exceptionList, current, Requests \cup {0})
      BY <1>1, AppendFacts DEF IInv, TypeOK
<1>4. TypeOK'
  <2>1. exceptionList' \in Seq(Requests \cup {0})
        BY <1>3 DEF IsAppended
  <2> QED BY <1>1, <2>1 DEF IInv, TypeOK, requests, script, waits
<1>5. RequestInv' /\ ThreadInv'
      BY <1>1, <1>2 DEF IInv, RequestInv, ThreadInv, requests, script
<1>6. ResponseInv'
      BY <1>1, <1>2 DEF IInv, ResponseInv, One, script
<1>7. ExceptionInv'
  <2>1. \A i \in 1..Len(exceptionList) :
          IsThrown(exceptionList[i]) /\ exceptionList[i] < current
    <3>1. \A i \in 1..Len(exceptionList) : IsThrown(exceptionList[i])
          BY <1>1 DEF IInv, ExceptionInv, IsFatal
    <3> QED BY <1>2, <3>1 DEF IsThrown
  <2>2. \A r : IsThrown(r)' <=> IsThrown(r)
        BY <1>1, <1>2 DEF IsThrown, script
  <2>3. IsFatal(current)'
        BY <1>1, <1>2 DEF IsFatal
  <2>4. Len(exceptionList) \in Nat
        BY DEF IInv, TypeOK
  <2>5. \A i \in 1..Len(exceptionList') :
          \/ i \in 1..Len(exceptionList) /\ exceptionList'[i] = exceptionList[i]
          \/ i = Len(exceptionList) + 1 /\ exceptionList'[i] = current
        BY <1>3, <2>4 DEF IsAppended
  <2>6. \A i, j \in 1..Len(exceptionList') :
          i < j => exceptionList'[i] < exceptionList'[j]
        BY <2>1, <2>4, <2>5 DEF IInv, ExceptionInv
  <2>7. (\A i \in 1..Len(exceptionList) :
           IsThrown(exceptionList[i]) \/ IsFatal(exceptionList[i]))'
        BY <1>1, <2>1, <2>2, <2>3, <2>5
  <2>8. \A r \in Requests : IsThrown(r) =>
          \E i \in 1..Len(exceptionList') : exceptionList'[i] = r
        BY <1>1, <1>3, <2>4 DEF IInv, ExceptionInv, IsAppended
  <2> QED BY <2>2, <2>6, <2>7, <2>8 DEF ExceptionInv
<1>8. CancelInv' /\ AnswersInOrder'
      BY <1>1 DEF IInv, CancelInv, AnswersInOrder, script, waits
<1> QED BY <1>4, <1>5, <1>6, <1>7, <1>8 DEF IInv

LEMMA FatalNotStoredKeeps ==
    ASSUME IInv, FatalNotStored PROVE IInv'
<1> USE RequestsAreNumbers DEF Thread, script, waits, shared, queues, requests,
responses, thread, FatalNotStored
<1>1. TypeOK'
      BY DEF IInv, TypeOK, RequestInv, ThreadInv, ResponseInv, CancelInv,
         Exception, Answered
<1>2. RequestInv'
      BY DEF IInv, TypeOK, RequestInv, ThreadInv, One
<1>3. ThreadInv'
      BY DEF IInv, TypeOK, ThreadInv, ResponseInv, Answered
<1>4. ResponseInv'
      BY DEF IInv, TypeOK, RequestInv, ThreadInv, ResponseInv, Answered, One,
         Exception
<1>5. ExceptionInv'
      BY DEF IInv, TypeOK, RequestInv, ThreadInv, ResponseInv, ExceptionInv,
         Answered, IsThrown, IsFatal
<1>6. CancelInv'
      BY DEF IInv, TypeOK, CancelInv
<1>7. AnswersInOrder'
      BY DEF IInv, TypeOK, RequestInv, ThreadInv, ResponseInv, AnswersInOrder,
         Answered
<1> QED BY <1>1, <1>2, <1>3, <1>4, <1>5, <1>6, <1>7 DEF IInv

LEMMA FatalLostKeeps ==
    ASSUME IInv, FatalLost PROVE IInv'
<1> USE RequestsAreNumbers DEF Thread, script, waits, shared, queues, requests,
responses, thread, FatalLost
<1>1. TypeOK'
      BY DEF IInv, TypeOK, RequestInv, ThreadInv, ResponseInv, CancelInv,
         Exception, Answered
<1>2. RequestInv'
      BY DEF IInv, TypeOK, RequestInv, ThreadInv, One
<1>3. ThreadInv'
      BY DEF IInv, TypeOK, ThreadInv, ResponseInv, Answered
<1>4. ResponseInv'
      BY DEF IInv, TypeOK, RequestInv, ThreadInv, ResponseInv, Answered, One,
         Exception
<1>5. ExceptionInv'
      BY DEF IInv, TypeOK, RequestInv, ThreadInv, ResponseInv, ExceptionInv,
         Answered, IsThrown, IsFatal
<1>6. CancelInv'
      BY DEF IInv, TypeOK, CancelInv
<1>7. AnswersInOrder'
      BY DEF IInv, TypeOK, RequestInv, ThreadInv, ResponseInv, AnswersInOrder,
         Answered
<1> QED BY <1>1, <1>2, <1>3, <1>4, <1>5, <1>6, <1>7 DEF IInv

LEMMA ReleaseFatalKeeps ==
    ASSUME IInv, ReleaseFatal PROVE IInv'
<1> USE RequestsAreNumbers DEF Thread, script, waits, shared, queues, requests,
responses, thread, ReleaseFatal, ReleaseResponseSem
<1>1. TypeOK'
      BY DEF IInv, TypeOK, RequestInv, ThreadInv, ResponseInv, CancelInv,
         Exception, Answered
<1>2. RequestInv'
      BY DEF IInv, TypeOK, RequestInv, ThreadInv, One
<1>3. ThreadInv'
      BY DEF IInv, TypeOK, ThreadInv, ResponseInv, Answered
<1>4. ResponseInv'
      BY DEF IInv, TypeOK, RequestInv, ThreadInv, ResponseInv, Answered, One,
         Exception
<1>5. ExceptionInv'
      BY DEF IInv, TypeOK, RequestInv, ThreadInv, ResponseInv, ExceptionInv,
         Answered, IsThrown, IsFatal
<1>6. CancelInv'
      BY DEF IInv, TypeOK, CancelInv
<1>7. AnswersInOrder'
      BY DEF IInv, TypeOK, RequestInv, ThreadInv, ResponseInv, AnswersInOrder,
         Answered
<1> QED BY <1>1, <1>2, <1>3, <1>4, <1>5, <1>6, <1>7 DEF IInv

LEMMA DrainKeeps ==
    ASSUME IInv, Drain PROVE IInv'
<1> USE RequestsAreNumbers DEF Thread, script, waits, shared, queues, requests,
responses, thread, Drain
<1>1. TypeOK'
  <2>1. /\ tpc' = "exited" /\ responseList' = <<>> /\ exceptionList' = <<>>
        /\ UNCHANGED <<end, mutex, requests, processingRequestCount,
                       responseSem, pendingResponseCount, responseEvent,
                       current, outcome, script, waits>>
        OBVIOUS
  <2> HIDE DEF Drain, Thread
  <2> QED BY <2>1 DEF IInv, TypeOK
<1>2. RequestInv'
      BY DEF IInv, TypeOK, RequestInv, ThreadInv, One
<1>3. ThreadInv'
      BY DEF IInv, TypeOK, ThreadInv, ResponseInv, Answered
<1>4. ResponseInv'
      BY DEF IInv, TypeOK, RequestInv, ThreadInv, ResponseInv, Answered, One,
         Exception
<1>5. ExceptionInv'
      BY DEF IInv, TypeOK, RequestInv, ThreadInv, ResponseInv, ExceptionInv,
         Answered, IsThrown, IsFatal
<1>6. CancelInv'
      BY DEF IInv, TypeOK, CancelInv
<1>7. AnswersInOrder'
      BY DEF IInv, TypeOK, RequestInv, ThreadInv, ResponseInv, AnswersInOrder,
         Answered
<1> QED BY <1>1, <1>2, <1>3, <1>4, <1>5, <1>6, <1>7 DEF IInv

-----------------------------------------------------------------------------
(* The calls of the script.                                                 *)

LEMMA RequestKeeps ==
    ASSUME IInv, Request PROVE IInv'
<1> USE RequestsAreNumbers
<1>1. /\ mpc = "run" /\ mpc' = "post"
      /\ sent' = sent + 1 /\ sent < MaxRequest
      /\ requestList' = Append(requestList, sent + 1)
      /\ pendingRequestCount' = pendingRequestCount + 1
      /\ UNCHANGED <<thread, end, mutex, requestSem, processingRequestCount,
                     responses, responseEvent, answers, waits>>
      BY DEF Request, Script
<1>2. /\ sent \in Nat /\ sent + 1 \in Requests
      /\ requestList \in Seq(Requests)
      /\ Len(requestList) = sent - current /\ current \in Nat
      /\ pendingRequestCount = Len(requestList) /\ current <= sent
      /\ requestSem \in Nat
  <2>1. sent \in 0..MaxRequest /\ current \in Nat
        BY DEF IInv, TypeOK
  <2>2. sent \in Nat /\ sent + 1 \in Requests
        BY <1>1, <2>1
  <2> QED BY <1>1, <2>1, <2>2 DEF IInv, TypeOK, RequestInv
<1>3. IsAppended(requestList', requestList, sent + 1, Requests)
      BY <1>1, <1>2, AppendFacts
<1>4. Len(requestList') = Len(requestList) + 1
      BY <1>3 DEF IsAppended
<1>5. TypeOK'
  <2>1. /\ requestList' \in Seq(Requests) /\ pendingRequestCount' \in Nat
        /\ sent' \in 0..MaxRequest
        BY <1>1, <1>2, <1>3 DEF IsAppended
  <2> QED BY <1>1, <2>1
          DEF IInv, TypeOK, thread, responses, answers, waits
<1>6. RequestInv'
  <2>1. \A i \in 1..Len(requestList') : requestList'[i] = current + i
    <3> TAKE i \in 1..Len(requestList')
    <3>1. CASE i \in 1..Len(requestList)
          BY <1>1, <1>3, <3>1 DEF IInv, RequestInv, IsAppended
    <3>2. CASE i = Len(requestList) + 1
          BY <1>2, <1>3, <3>2 DEF IsAppended
    <3> QED BY <1>2, <1>4, <3>1, <3>2
  <2>2. ~end => Len(requestList')
                  = requestSem' + One(mpc' = "post") + One(tpc' = "take")
        BY <1>1, <1>2, <1>4 DEF IInv, RequestInv, One, thread
  <2>3. UNCHANGED <<current, end>> /\ current <= sent'
        BY <1>1, <1>2 DEF thread
  <2> QED BY <1>1, <1>2, <1>4, <2>1, <2>2, <2>3 DEF RequestInv
<1>7. ThreadInv' /\ ResponseInv'
      BY <1>1 DEF IInv, ThreadInv, ResponseInv, Answered, One, thread,
         responses, answers
<1>8. ExceptionInv'
      BY <1>1 DEF IInv, ExceptionInv, IsThrown, IsFatal, Answered, thread,
         responses, answers
<1>9. CancelInv' /\ AnswersInOrder'
      BY <1>1 DEF IInv, CancelInv, AnswersInOrder, thread, answers, waits
<1> QED BY <1>5, <1>6, <1>7, <1>8, <1>9 DEF IInv

LEMMA PostRequestKeeps ==
    ASSUME IInv, PostRequest PROVE IInv'
<1> USE RequestsAreNumbers DEF Script, script, waits, shared, queues, requests,
responses, thread, answers, PostRequest
<1>1. TypeOK'
      BY DEF IInv, TypeOK, RequestInv, ThreadInv, ResponseInv, CancelInv,
         Exception, Answered
<1>2. RequestInv'
      BY DEF IInv, TypeOK, RequestInv, ThreadInv, One
<1>3. ThreadInv'
      BY DEF IInv, TypeOK, ThreadInv, ResponseInv, Answered
<1>4. ResponseInv'
      BY DEF IInv, TypeOK, RequestInv, ThreadInv, ResponseInv, Answered, One,
         Exception
<1>5. ExceptionInv'
      BY DEF IInv, TypeOK, RequestInv, ThreadInv, ResponseInv, ExceptionInv,
         Answered, IsThrown, IsFatal
<1>6. CancelInv'
      BY DEF IInv, TypeOK, CancelInv
<1>7. AnswersInOrder'
      BY DEF IInv, TypeOK, RequestInv, ThreadInv, ResponseInv, AnswersInOrder,
         Answered
<1> QED BY <1>1, <1>2, <1>3, <1>4, <1>5, <1>6, <1>7 DEF IInv

LEMMA ResponseThrowsKeeps ==
    ASSUME IInv, ResponseThrows PROVE IInv'
<1> USE RequestsAreNumbers
<1>1. /\ mpc = "run" /\ mpc' = "run"
      /\ last' \in [kind : {"fatal", "stop"}, of : Requests \cup {0}]
      /\ received' = received
      /\ \/ /\ responseList = <<>> /\ exceptionList # <<>>
            /\ exceptionList' = Tail(exceptionList)
         \/ UNCHANGED exceptionList
      /\ UNCHANGED <<thread, end, mutex, requests, processingRequestCount,
                     responseSem, responseList, pendingResponseCount,
                     responseEvent, sent, waits>>
  <2>1. exceptionList # <<>> => Head(exceptionList) \in Requests \cup {0}
        BY TailFacts DEF IInv, TypeOK, IsTail
  <2> QED BY <2>1 DEF ResponseThrows, Script, Answer, FatalIsStored
<1>2. Answered' = Answered
      BY <1>1 DEF Answered, thread
<1>3. \/ /\ responseList = <<>> /\ exceptionList # <<>>
         /\ IsTail(exceptionList', exceptionList, Requests \cup {0})
      \/ UNCHANGED exceptionList
  <2>1. exceptionList \in Seq(Requests \cup {0})
        BY DEF IInv, TypeOK
  <2>2. exceptionList # <<>> =>
          IsTail(Tail(exceptionList), exceptionList, Requests \cup {0})
        BY <2>1, TailFacts
  <2> QED BY <1>1, <2>2
<1>4. TypeOK'
  <2>1. exceptionList' \in Seq(Requests \cup {0})
        BY <1>3 DEF IInv, TypeOK, IsTail
  <2>2. last' \in [kind : {"none", "value", "exception", "fatal", "stop",
                           "undefined"},
                   of : Requests \cup {0}]
        BY <1>1
  <2> QED BY <1>1, <2>1, <2>2 DEF IInv, TypeOK, requests, thread, waits
<1>5. RequestInv'
      BY <1>1 DEF IInv, RequestInv, requests, thread
<1>6. ThreadInv'
      BY <1>1, <1>3 DEF IInv, ThreadInv, thread
<1>7. ResponseInv'
      BY <1>1, <1>2 DEF IInv, ResponseInv, One, thread
<1>8. ExceptionInv'
  <2>1. \A r : /\ IsThrown(r)' <=> IsThrown(r)
               /\ IsFatal(r)' <=> IsFatal(r)
        BY <1>1, <1>2 DEF IsThrown, IsFatal, thread
  <2>2. CASE UNCHANGED exceptionList
        BY <1>1, <2>1, <2>2 DEF IInv, ExceptionInv, thread
  <2>3. CASE /\ responseList = <<>> /\ exceptionList # <<>>
             /\ IsTail(exceptionList', exceptionList, Requests \cup {0})
    <3>1. tpc # "exited" /\ \A r : ~IsThrown(r)
          BY <2>3 DEF IInv, TypeOK, ThreadInv, ResponseInv, IsThrown, Answered
    <3>2. Len(exceptionList) \in Nat
          BY DEF IInv, TypeOK
    <3>3. \A i \in 1..Len(exceptionList') :
            /\ i \in 1..Len(exceptionList) /\ i + 1 \in 1..Len(exceptionList)
            /\ exceptionList'[i] = exceptionList[i + 1]
          BY <2>3, <3>2 DEF IsTail
    <3>4. \A i, j \in 1..Len(exceptionList') :
            i < j => exceptionList'[i] < exceptionList'[j]
          BY <3>3 DEF IInv, ExceptionInv
    <3>5. (\A i \in 1..Len(exceptionList) : IsFatal(exceptionList[i]))'
          BY <2>1, <3>1, <3>3 DEF IInv, ExceptionInv
    <3> QED BY <2>1, <3>1, <3>4, <3>5 DEF ExceptionInv
  <2> QED BY <1>3, <2>2, <2>3
<1>9. CancelInv' /\ AnswersInOrder'
      BY <1>1 DEF IInv, CancelInv, AnswersInOrder, thread, waits
<1> QED BY <1>4, <1>5, <1>6, <1>7, <1>8, <1>9 DEF IInv

LEMMA AcquireResponseKeeps ==
    ASSUME IInv, AcquireResponse PROVE IInv'
<1> USE RequestsAreNumbers DEF Script, script, waits, shared, queues, requests,
responses, thread, answers, AcquireResponse
<1>1. TypeOK'
      BY DEF IInv, TypeOK, RequestInv, ThreadInv, ResponseInv, CancelInv,
         Exception, Answered
<1>2. RequestInv'
      BY DEF IInv, TypeOK, RequestInv, ThreadInv, One
<1>3. ThreadInv'
      BY DEF IInv, TypeOK, ThreadInv, ResponseInv, Answered
<1>4. ResponseInv'
      BY DEF IInv, TypeOK, RequestInv, ThreadInv, ResponseInv, Answered, One,
         Exception
<1>5. ExceptionInv'
      BY DEF IInv, TypeOK, RequestInv, ThreadInv, ResponseInv, ExceptionInv,
         Answered, IsThrown, IsFatal
<1>6. CancelInv'
      BY DEF IInv, TypeOK, CancelInv
<1>7. AnswersInOrder'
      BY DEF IInv, TypeOK, RequestInv, ThreadInv, ResponseInv, AnswersInOrder,
         Answered
<1> QED BY <1>1, <1>2, <1>3, <1>4, <1>5, <1>6, <1>7 DEF IInv

LEMMA TakeNothingKeeps ==
    ASSUME IInv, TakeNothing PROVE IInv'
<1> USE RequestsAreNumbers DEF Script, script, waits, shared, queues, requests,
responses, thread, answers, TakeNothing, Answer
<1>1. TypeOK'
      BY DEF IInv, TypeOK, RequestInv, ThreadInv, ResponseInv, CancelInv,
         Exception, Answered
<1>2. RequestInv'
      BY DEF IInv, TypeOK, RequestInv, ThreadInv, One
<1>3. ThreadInv'
      BY DEF IInv, TypeOK, ThreadInv, ResponseInv, Answered
<1>4. ResponseInv'
      BY DEF IInv, TypeOK, RequestInv, ThreadInv, ResponseInv, Answered, One,
         Exception
<1>5. ExceptionInv'
      BY DEF IInv, TypeOK, RequestInv, ThreadInv, ResponseInv, ExceptionInv,
         Answered, IsThrown, IsFatal
<1>6. CancelInv'
      BY DEF IInv, TypeOK, CancelInv
<1>7. AnswersInOrder'
      BY DEF IInv, TypeOK, RequestInv, ThreadInv, ResponseInv, AnswersInOrder,
         Answered
<1> QED BY <1>1, <1>2, <1>3, <1>4, <1>5, <1>6, <1>7 DEF IInv

LEMMA NextResponse ==
    ASSUME IInv, ShiftResponse, received' = received + 1
    PROVE  /\ received + 1 \in Requests /\ received + 1 <= Answered
           /\ Answered' = Answered /\ tpc # "exited"
           /\ \/ /\ Head(responseList) = received + 1
                 /\ outcome[received + 1] = "value"
              \/ /\ Head(responseList) = Exception
                 /\ outcome[received + 1] = "exception"
           /\ RequestInv' /\ ResponseInv' /\ CancelInv'
           /\ responseList' \in Seq(Requests \cup {Exception})
           /\ pendingResponseCount' \in Nat /\ received' \in 0..MaxRequest
<1> USE RequestsAreNumbers
<1>1. /\ mpc = "take" /\ mpc' = "run"
      /\ responseList # <<>> /\ responseList' = Tail(responseList)
      /\ pendingResponseCount' = pendingResponseCount - 1
      /\ UNCHANGED <<thread, end, requests, processingRequestCount,
                     responseSem, responseEvent, sent, waits>>
      BY DEF ShiftResponse, Script
<1>2. IsTail(responseList', responseList, Requests \cup {Exception})
      BY <1>1, TailFacts DEF IInv, TypeOK
<1>3. /\ tpc # "exited" /\ Answered' = Answered
      /\ Answered = current - processingRequestCount
      /\ processingRequestCount \in 0..1 /\ current \in Nat
      /\ current <= MaxRequest
      /\ received \in Nat /\ Len(responseList) = Answered - received
      /\ pendingResponseCount = Len(responseList)
      /\ Len(responseList) \in Nat /\ Len(responseList) > 0
      /\ Len(responseList') = Len(responseList) - 1
  <2>1. tpc # "exited"
        BY <1>1 DEF IInv, ThreadInv
  <2>2. /\ Len(responseList) > 0 /\ Len(responseList') = Len(responseList) - 1
        /\ Len(responseList) \in Nat
        BY <1>2 DEF IsTail, IInv, TypeOK
  <2>3. Answered' = Answered
        BY <1>1 DEF Answered, thread
  <2>4. current <= MaxRequest
        BY DEF IInv, TypeOK
  <2> QED BY <2>1, <2>2, <2>3, <2>4 DEF IInv, TypeOK, ResponseInv, Answered
<1>4. received + 1 \in Requests /\ received + 1 <= Answered
      BY <1>3
<1>5. \/ Head(responseList) = received + 1 /\ outcome[received + 1] = "value"
      \/ /\ Head(responseList) = Exception
         /\ outcome[received + 1] = "exception"
      BY <1>2, <1>3 DEF IInv, ResponseInv, IsTail
<1>6. RequestInv' /\ CancelInv'
      BY <1>1 DEF IInv, RequestInv, CancelInv, One, requests, thread, waits
<1>7. ResponseInv'
  <2>1. \A i \in 1..Len(responseList') :
          \/ /\ responseList'[i] = received' + i
             /\ outcome[received' + i] = "value"
          \/ /\ responseList'[i] = Exception
             /\ outcome[received' + i] = "exception"
    <3> TAKE i \in 1..Len(responseList')
    <3>1. /\ i + 1 \in 1..Len(responseList)
          /\ responseList'[i] = responseList[i + 1]
          /\ received' + i = received + (i + 1)
          BY <1>2, <1>3 DEF IsTail
    <3> QED BY <3>1 DEF IInv, ResponseInv
  <2>2. tpc \notin {"drain", "exited"} =>
          Len(responseList')
            = responseSem' + One(tpc' = "release") + One(mpc' = "take")
        BY <1>1, <1>3 DEF IInv, TypeOK, ResponseInv, One, thread
  <2>3. /\ received' <= Answered' /\ received' > 0
        /\ Len(responseList') = Answered' - received'
        /\ pendingResponseCount' = Len(responseList')
        /\ outcome' = outcome /\ tpc' = tpc
        BY <1>1, <1>3, <1>4 DEF thread
  <2> QED BY <2>1, <2>2, <2>3 DEF ResponseInv
<1> QED BY <1>1, <1>2, <1>3, <1>4, <1>5, <1>6, <1>7 DEF IsTail

LEMMA TakeValueKeeps ==
    ASSUME IInv, TakeValue PROVE IInv'
<1> USE RequestsAreNumbers
<1>1. /\ ShiftResponse /\ Head(responseList) # Exception
      /\ last' = [kind |-> "value", of |-> Head(responseList)]
      /\ received' = received + 1
      /\ mutex' \in {"free", "script"}
      /\ UNCHANGED <<exceptionList, end, requests, processingRequestCount,
                     responseSem, responseEvent, sent, thread, waits>>
      /\ mpc' = "run"
      BY DEF TakeValue, ShiftResponse, Script, Answer
<1>2. /\ received + 1 \in Requests /\ received + 1 <= Answered
      /\ Answered' = Answered /\ tpc # "exited"
      /\ Head(responseList) = received + 1
      /\ outcome[received + 1] = "value"
      /\ RequestInv' /\ ResponseInv' /\ CancelInv'
      /\ responseList' \in Seq(Requests \cup {Exception})
      /\ pendingResponseCount' \in Nat /\ received' \in 0..MaxRequest
      BY <1>1, NextResponse
<1>3. TypeOK'
      BY <1>1, <1>2 DEF IInv, TypeOK, requests, thread, waits
<1>4. ThreadInv'
      BY <1>1, <1>2 DEF IInv, ThreadInv, thread
<1>5. ExceptionInv'
  <2>1. received \in Nat /\ \A r : IsThrown(r)' <=> IsThrown(r)
    <3>1. received \in Nat /\ Answered \in Int
          BY DEF IInv, TypeOK, Answered
    <3> QED BY <1>1, <1>2, <3>1 DEF IsThrown, thread
  <2>2. \A r : IsFatal(r)' <=> IsFatal(r)
        BY <1>1 DEF IsFatal, thread
  <2> QED BY <1>1, <2>1, <2>2 DEF IInv, ExceptionInv, thread
<1>6. AnswersInOrder'
      BY <1>1, <1>2 DEF AnswersInOrder, thread
<1> QED BY <1>2, <1>3, <1>4, <1>5, <1>6 DEF IInv

LEMMA TakeExceptionKeeps ==
    ASSUME IInv, TakeException PROVE IInv'
<1> USE RequestsAreNumbers
<1>1. /\ ShiftResponse /\ Head(responseList) = Exception
      /\ last' = [kind |-> "exception", of |-> Head(exceptionList)]
      /\ received' = received + 1
      /\ exceptionList' = Tail(exceptionList)
      /\ UNCHANGED <<mutex, end, requests, processingRequestCount,
                     responseSem, responseEvent, sent, thread, waits>>
      /\ mpc' = "run"
      BY DEF TakeException, ShiftResponse, Script, Answer
<1>2. /\ received + 1 \in Requests /\ received + 1 <= Answered
      /\ Answered' = Answered /\ tpc # "exited"
      /\ outcome[received + 1] = "exception"
      /\ RequestInv' /\ ResponseInv' /\ CancelInv'
      /\ responseList' \in Seq(Requests \cup {Exception})
      /\ pendingResponseCount' \in Nat /\ received' \in 0..MaxRequest
      BY <1>1, NextResponse DEF Exception
<1>3. /\ received \in Nat /\ Answered \in Int /\ current \in Nat
      /\ Answered = current - processingRequestCount
      /\ processingRequestCount \in 0..1
      /\ exceptionList \in Seq(Requests \cup {0})
      BY DEF IInv, TypeOK, Answered
\* The exception of that request is the first one of the list.
<1>4. /\ IsTail(exceptionList', exceptionList, Requests \cup {0})
      /\ Head(exceptionList) = received + 1
  <2>1. IsThrown(received + 1)
        BY <1>2, <1>3 DEF IsThrown
  <2>2. PICK i \in 1..Len(exceptionList) : exceptionList[i] = received + 1
        BY <1>2, <2>1 DEF IInv, ExceptionInv
  <2>3. IsTail(exceptionList', exceptionList, Requests \cup {0})
        BY <1>1, <1>3, <2>2, TailFacts
  <2>4. 1 \in 1..Len(exceptionList) /\ Head(exceptionList) = exceptionList[1]
        BY <1>3, <2>3 DEF IsTail
  <2>5. exceptionList[1] >= received + 1 /\ exceptionList[1] \in Nat
    <3>1. CASE IsThrown(exceptionList[1])
          BY <1>3, <3>1 DEF IsThrown
    <3>2. CASE IsFatal(exceptionList[1])
          BY <1>2, <1>3, <3>2 DEF IsFatal
    <3> QED BY <2>4, <3>1, <3>2 DEF IInv, ExceptionInv
  <2>6. i # 1 => exceptionList[1] < exceptionList[i]
        BY <2>2, <2>4 DEF IInv, ExceptionInv
  <2> QED BY <1>3, <2>2, <2>3, <2>4, <2>5, <2>6
<1>5. TypeOK'
  <2>1. exceptionList' \in Seq(Requests \cup {0})
        BY <1>4 DEF IsTail
  <2> QED BY <1>1, <1>2, <1>4, <2>1 DEF IInv, TypeOK, requests, thread, waits
<1>6. ThreadInv'
  <2>1. tpc # "start"
        BY <1>2, <1>3 DEF IInv, ThreadInv
  <2> QED BY <1>1, <1>2, <2>1 DEF IInv, ThreadInv, thread
<1>7. ExceptionInv'
  <2>1. \A r : IsThrown(r)' <=> IsThrown(r) /\ r # received + 1
        BY <1>1, <1>2, <1>3 DEF IsThrown, thread
  <2>2. \A r : IsFatal(r)' <=> IsFatal(r)
        BY <1>1 DEF IsFatal, thread
  <2>3. \A i \in 1..Len(exceptionList') :
          /\ i \in 1..Len(exceptionList) /\ i + 1 \in 1..Len(exceptionList)
          /\ exceptionList'[i] = exceptionList[i + 1]
          /\ exceptionList[i + 1] # received + 1
    <3>1. exceptionList[1] = received + 1 /\ 1 \in 1..Len(exceptionList)
          BY <1>3, <1>4 DEF IsTail
    <3>2. \A j \in 1..Len(exceptionList) :
            1 < j => exceptionList[j] # received + 1
          BY <1>3, <3>1 DEF IInv, ExceptionInv
    <3> QED BY <1>3, <1>4, <3>2 DEF IsTail
  <2>4. \A i, j \in 1..Len(exceptionList') :
          i < j => exceptionList'[i] < exceptionList'[j]
        BY <2>3 DEF IInv, ExceptionInv
  <2>5. (\A i \in 1..Len(exceptionList) :
           IsThrown(exceptionList[i]) \/ IsFatal(exceptionList[i]))'
        BY <2>1, <2>2, <2>3 DEF IInv, ExceptionInv
  <2>6. \A r \in Requests : IsThrown(r)' =>
          \E i \in 1..Len(exceptionList') : exceptionList'[i] = r
    <3> TAKE r \in Requests
    <3> HAVE IsThrown(r)'
    <3>1. PICK j \in 1..Len(exceptionList) : exceptionList[j] = r
          BY <1>2, <2>1 DEF IInv, ExceptionInv
    <3>2. j # 1 /\ r # received + 1
          BY <1>4, <2>1, <3>1 DEF IsTail
    <3>3. j - 1 \in 1..Len(exceptionList') /\ exceptionList'[j - 1] = r
          BY <1>3, <1>4, <3>1, <3>2 DEF IsTail
    <3> QED BY <3>3
  <2> QED BY <2>4, <2>5, <2>6 DEF ExceptionInv
<1>8. AnswersInOrder'
      BY <1>1, <1>2, <1>4 DEF AnswersInOrder, thread
<1> QED BY <1>2, <1>5, <1>6, <1>7, <1>8 DEF IInv

LEMMA SetEndKeeps ==
    ASSUME IInv, SetEnd PROVE IInv'
<1> USE RequestsAreNumbers DEF Script, script, waits, shared, queues, requests,
responses, thread, answers, SetEnd
<1>1. TypeOK'
      BY DEF IInv, TypeOK, RequestInv, ThreadInv, ResponseInv, CancelInv,
         Exception, Answered
<1>2. RequestInv'
      BY DEF IInv, TypeOK, RequestInv, ThreadInv, One
<1>3. ThreadInv'
      BY DEF IInv, TypeOK, ThreadInv, ResponseInv, Answered
<1>4. ResponseInv'
      BY DEF IInv, TypeOK, RequestInv, ThreadInv, ResponseInv, Answered, One,
         Exception
<1>5. ExceptionInv'
      BY DEF IInv, TypeOK, RequestInv, ThreadInv, ResponseInv, ExceptionInv,
         Answered, IsThrown, IsFatal
<1>6. CancelInv'
      BY DEF IInv, TypeOK, CancelInv
<1>7. AnswersInOrder'
      BY DEF IInv, TypeOK, RequestInv, ThreadInv, ResponseInv, AnswersInOrder,
         Answered
<1> QED BY <1>1, <1>2, <1>3, <1>4, <1>5, <1>6, <1>7 DEF IInv

LEMMA PostCloseKeeps ==
    ASSUME IInv, PostClose PROVE IInv'
<1> USE RequestsAreNumbers DEF Script, script, waits, shared, queues, requests,
responses, thread, answers, PostClose, PostEnd
<1>1. TypeOK'
      BY DEF IInv, TypeOK, RequestInv, ThreadInv, ResponseInv, CancelInv,
         Exception, Answered
<1>2. RequestInv'
      BY DEF IInv, TypeOK, RequestInv, ThreadInv, One
<1>3. ThreadInv'
      BY DEF IInv, TypeOK, ThreadInv, ResponseInv, Answered
<1>4. ResponseInv'
      BY DEF IInv, TypeOK, RequestInv, ThreadInv, ResponseInv, Answered, One,
         Exception
<1>5. ExceptionInv'
      BY DEF IInv, TypeOK, RequestInv, ThreadInv, ResponseInv, ExceptionInv,
         Answered, IsThrown, IsFatal
<1>6. CancelInv'
      BY DEF IInv, TypeOK, CancelInv
<1>7. AnswersInOrder'
      BY DEF IInv, TypeOK, RequestInv, ThreadInv, ResponseInv, AnswersInOrder,
         Answered
<1> QED BY <1>1, <1>2, <1>3, <1>4, <1>5, <1>6, <1>7 DEF IInv

LEMMA JoinKeeps ==
    ASSUME IInv, Join PROVE IInv'
<1> USE RequestsAreNumbers DEF Script, script, waits, shared, queues, requests,
responses, thread, answers, Join
<1>1. TypeOK'
      BY DEF IInv, TypeOK, RequestInv, ThreadInv, ResponseInv, CancelInv,
         Exception, Answered
<1>2. RequestInv'
      BY DEF IInv, TypeOK, RequestInv, ThreadInv, One
<1>3. ThreadInv'
      BY DEF IInv, TypeOK, ThreadInv, ResponseInv, Answered
<1>4. ResponseInv'
      BY DEF IInv, TypeOK, RequestInv, ThreadInv, ResponseInv, Answered, One,
         Exception
<1>5. ExceptionInv'
      BY DEF IInv, TypeOK, RequestInv, ThreadInv, ResponseInv, ExceptionInv,
         Answered, IsThrown, IsFatal
<1>6. CancelInv'
      BY DEF IInv, TypeOK, CancelInv
<1>7. AnswersInOrder'
      BY DEF IInv, TypeOK, RequestInv, ThreadInv, ResponseInv, AnswersInOrder,
         Answered
<1> QED BY <1>1, <1>2, <1>3, <1>4, <1>5, <1>6, <1>7 DEF IInv

-----------------------------------------------------------------------------
(* The calls that wait for an event, and the waits.                         *)

\* They leave the queues, the thread and the answers alone.
LEMMA WaitsKeep ==
    ASSUME IInv, TypeOK', CancelInv',
           UNCHANGED <<end, queues, thread, sent, answers>>,
           \/ mpc' = mpc
           \/ {mpc, mpc'} \cap {"post", "take", "closePost", "join", "closed"}
                = {}
    PROVE  IInv'
<1> USE DEF IInv, queues, requests, responses, thread, answers
<1>1. RequestInv'
      BY DEF RequestInv, One
<1>2. ThreadInv'
      BY DEF ThreadInv
<1>3. ResponseInv'
      BY DEF ResponseInv, Answered, One
<1>4. ExceptionInv'
      BY DEF ExceptionInv, IsThrown, IsFatal, Answered
<1>5. AnswersInOrder'
      BY DEF AnswersInOrder
<1> QED BY <1>1, <1>2, <1>3, <1>4, <1>5

LEMMA WaitStepKeeps ==
    ASSUME IInv, NEW h \in Handles, WaitStep(h) PROVE IInv'
<1>1. /\ UNCHANGED <<end, mutex, queues, thread, script, canceled, waiting,
                     toCancel>>
      /\ responseEvent' \in BOOLEAN
      /\ \E to \in {"count", "canceled", "wait", "reset", "clear", "done"} :
           wpc' = [wpc EXCEPT ![h] = to]
      BY DEF WaitStep, TestCount, TestCanceled, WaitEvent, ResetEvent,
         ClearSlot, Wait, IInv, TypeOK
<1>2. TypeOK' /\ CancelInv'
      BY <1>1 DEF IInv, TypeOK, CancelInv, queues, requests, responses,
         thread, script
<1> QED BY <1>1, <1>2, WaitsKeep DEF script, answers

LEMMA ResponseWaitsKeeps ==
    ASSUME IInv, ResponseWaits \/ Close \/ CallbackReturns PROVE IInv'
<1> USE DEF ResponseWaits, Close, CallbackReturns, Script, shared
<1>1. TypeOK' /\ CancelInv'
      BY DEF IInv, TypeOK, CancelInv, queues, requests, responses, thread,
         answers, waits
<1> QED BY <1>1, WaitsKeep

LEMMA CallEventsKeeps ==
    ASSUME IInv, NEW hs \in SUBSET Handles, CallEvents(hs) PROVE IInv'
<1> USE DEF CallEvents, Script, shared
<1>1. /\ wpc' \in [Handles -> {"idle", "count", "canceled", "wait", "reset",
                              "clear", "done"}]
      /\ canceled' \in [Handles -> BOOLEAN]
      /\ waiting' \subseteq Handles /\ toCancel' = {}
      BY DEF IInv, TypeOK, CancelInv
<1>2. TypeOK' /\ CancelInv'
      BY <1>1 DEF IInv, TypeOK, CancelInv, queues, requests, responses,
         thread, answers
<1> QED BY <1>2, WaitsKeep

LEMMA CancelKeeps ==
    ASSUME IInv, \/ BeginCancel \/ TriggerCancel \/ AllCanceled \/ Collect
                 \/ \E h \in Handles : Cancel(h) \/ EndWait(h)
    PROVE  IInv'
<1> USE DEF Script, shared
<1>1. /\ UNCHANGED <<end, mutex, queues, thread, sent, answers>>
      /\ responseEvent' \in BOOLEAN
      /\ mpc \in {"events", "cancel", "trigger", "collect", "end"}
      /\ mpc' \in {"run", "cancel", "trigger", "collect", "end"}
      BY DEF BeginCancel, TriggerCancel, AllCanceled, Collect, Cancel,
         EndWait, IInv, TypeOK
<1>2. /\ wpc' \in [Handles -> {"idle", "count", "canceled", "wait", "reset",
                              "clear", "done"}]
      /\ canceled' \in [Handles -> BOOLEAN]
      BY DEF BeginCancel, TriggerCancel, AllCanceled, Collect, Cancel,
         EndWait, IInv, TypeOK, waits
<1>3. waiting' \subseteq Handles /\ toCancel' \subseteq waiting' /\ CancelInv'
      BY DEF BeginCancel, TriggerCancel, AllCanceled, Collect, Cancel,
         EndWait, IInv, TypeOK, CancelInv, waits
<1>4. TypeOK'
      BY <1>1, <1>2, <1>3 DEF IInv, TypeOK, queues, requests, responses,
         thread, answers
<1> QED BY <1>1, <1>3, <1>4, WaitsKeep

-----------------------------------------------------------------------------
(* Theorems.                                                                *)

LEMMA InitiallyInv == Init => IInv
<1> SUFFICES ASSUME Init PROVE IInv
    OBVIOUS
<1> USE MaxRequestAssumption DEF Init
<1>1. TypeOK
  <2>1. /\ requestList \in Seq(Requests)
        /\ responseList \in Seq(Requests \cup {Exception})
        /\ exceptionList \in Seq(Requests \cup {0})
        OBVIOUS
  <2>2. end \in BOOLEAN /\ mutex \in {"free", "script"}
        OBVIOUS
  <2>3. responseEvent \in BOOLEAN
        OBVIOUS
  <2>4. /\ requestSem \in Nat /\ pendingRequestCount \in Nat
        /\ processingRequestCount \in 0..1 /\ responseSem \in Nat
        /\ pendingResponseCount \in Nat
        OBVIOUS
  <2>5. sent \in 0..MaxRequest /\ received \in 0..MaxRequest
        OBVIOUS
  <2>6. /\ outcome \in [Requests -> {"none", "value", "exception"}]
        /\ current \in Requests \cup {0}
        /\ last \in [kind : {"none", "value", "exception", "fatal", "stop",
                             "undefined"},
                     of : Requests \cup {0}]
        BY DEF NoAnswer
  <2>7. /\ wpc \in [Handles -> {"idle", "count", "canceled", "wait", "reset",
                                "clear", "done"}]
        /\ canceled \in [Handles -> BOOLEAN]
        /\ waiting \subseteq Handles /\ toCancel \subseteq waiting
        OBVIOUS
  <2> QED BY <2>1, <2>2, <2>3, <2>4, <2>5, <2>6, <2>7 DEF TypeOK
<1>2. RequestInv /\ ThreadInv
      BY DEF RequestInv, ThreadInv, One
<1>3. ResponseInv /\ ExceptionInv
      BY DEF ResponseInv, ExceptionInv, IsThrown, IsFatal, Answered, One,
         NoAnswer
<1>4. CancelInv /\ AnswersInOrder
      BY DEF CancelInv, AnswersInOrder, NoAnswer
<1> QED BY <1>1, <1>2, <1>3, <1>4 DEF IInv

LEMMA StepKeeps == IInv /\ [Next]_vars => IInv'
<1> SUFFICES ASSUME IInv, [Next]_vars PROVE IInv'
    OBVIOUS
<1>1. CASE ThreadStep
      BY <1>1, StartKeeps, AcquireRequestKeeps, TakeRequestKeeps, SeeEndKeeps,
         CallTaskFuncKeeps, StoreResponseKeeps, ReleaseResponseKeeps,
         TriggerResponseKeeps, FatalKeeps, FatalNotStoredKeeps, FatalLostKeeps,
         ReleaseFatalKeeps, DrainKeeps
      DEF ThreadStep
<1>2. CASE ScriptCalls
      BY <1>2, RequestKeeps, ResponseThrowsKeeps, ResponseWaitsKeeps,
         CallEventsKeeps
      DEF ScriptCalls
<1>3. CASE CallStep
      BY <1>3, PostRequestKeeps, AcquireResponseKeeps, TakeNothingKeeps,
         TakeValueKeeps, TakeExceptionKeeps, SetEndKeeps, PostCloseKeeps,
         JoinKeeps, CancelKeeps, ResponseWaitsKeeps
      DEF CallStep, WaitSignaled
<1>4. CASE OtherEvent
      BY <1>4, CancelKeeps DEF OtherEvent
<1>5. CASE \E h \in Handles : WaitStep(h)
      BY <1>5, WaitStepKeeps
<1>6. CASE UNCHANGED vars
      BY <1>6 DEF vars, shared, queues, requests, responses, thread, script,
         waits, IInv, TypeOK, RequestInv, ThreadInv, ResponseInv, ExceptionInv,
         IsThrown, IsFatal, Answered, CancelInv, AnswersInOrder, One
<1> QED BY <1>1, <1>2, <1>3, <1>4, <1>5, <1>6 DEF Next

\* The invariant of the task's queues.
THEOREM TaskInductive == Spec => []IInv
BY InitiallyInv, StepKeeps, PTL DEF Spec

\* Every variable of the task keeps its type.
THEOREM TaskTypes == Spec => []TypeOK
<1>1. IInv => TypeOK
      BY DEF IInv
<1> QED BY <1>1, TaskInductive, PTL

\* response() returns the answers in the order of request(), each with its own
\* exception, whatever the thread and the script do at the same time.
THEOREM AnswersComeInOrder == Spec => []AnswersInOrder
<1>1. IInv => AnswersInOrder
      BY DEF IInv
<1> QED BY <1>1, TaskInductive, PTL

\* The semaphores and the counters that the script reads agree with the queues.
THEOREM CountsAreTrue == Spec => []QueuesAreCounted
<1>1. IInv => QueuesAreCounted
      BY DEF IInv, QueuesAreCounted, RequestInv, ResponseInv
<1> QED BY <1>1, TaskInductive, PTL

\* When the counts of a task are 0, whatever failed, the script has an answer to
\* every request and the queues are empty, but for the error that ended it.
THEOREM IdleHasNoAnswer == Spec => []IdleIsDone
<1>1. IInv => IdleIsDone
  <2> SUFFICES ASSUME IInv, NothingCounted, mpc # "closed"
               PROVE  /\ received = sent
                      /\ requestList = <<>> /\ responseList = <<>>
                      /\ end \/ exceptionList = <<>>
      BY DEF IdleIsDone
  <2>1. /\ pendingRequestCount = 0 /\ processingRequestCount = 0
        /\ pendingResponseCount = 0
        BY DEF NothingCounted, IInv, TypeOK
  <2>2. received \in Nat /\ current \in Nat /\ sent \in Nat
        BY MaxRequestAssumption DEF IInv, TypeOK, Requests
  <2>3. current = sent /\ Answered = current
        BY <2>1, <2>2 DEF IInv, RequestInv, Answered
  <2>4. received = sent
        BY <2>1, <2>2, <2>3 DEF IInv, ResponseInv
  <2>5. requestList = <<>>
        BY <2>1 DEF IInv, TypeOK, RequestInv
  <2>6. responseList = <<>>
        BY <2>1 DEF IInv, TypeOK, ResponseInv, ThreadInv
  <2>7. ASSUME ~end PROVE exceptionList = <<>>
    <3>1. \A r : ~IsThrown(r) /\ ~IsFatal(r)
          BY <2>2, <2>3, <2>4, <2>7 DEF IsThrown, IsFatal
    <3> QED BY <3>1 DEF IInv, TypeOK, ExceptionInv
  <2> QED BY <2>4, <2>5, <2>6, <2>7
<1> QED BY <1>1, TaskInductive, PTL

-----------------------------------------------------------------------------
(* The waits for a response.                                                *)

\* While the call waits, a wait that is past its loop has found a response,
\* which the script, who is in the call, has not taken since.
WaitInv ==
    /\ \A h \in Handles \ waiting : wpc[h] = "idle"
    /\ mpc = "events" => \A h \in Handles :
         /\ ~canceled[h]
         /\ wpc[h] \in {"reset", "clear", "done"} => pendingResponseCount > 0

\* The thread only adds responses.
LEMMA ThreadKeepsWaits == IInv /\ WaitInv /\ ThreadStep => WaitInv'
<1> SUFFICES ASSUME IInv, WaitInv, ThreadStep PROVE WaitInv'
    OBVIOUS
<1>1. UNCHANGED <<script, waits>>
      BY DEF ThreadStep, Thread, Start, AcquireRequest, TakeRequest, SeeEnd,
         CallTaskFunc, StoreResponse, ReleaseResponse, TriggerResponse, Fatal,
         FatalNotStored, FatalLost, ReleaseFatal, Drain
<1>2. /\ pendingResponseCount \in Nat
      /\ pendingResponseCount' \in {pendingResponseCount,
                                    pendingResponseCount + 1}
      BY DEF ThreadStep, Start, AcquireRequest, TakeRequest, SeeEnd,
         CallTaskFunc, StoreResponse, ReleaseResponse, TriggerResponse, Fatal,
         FatalNotStored, FatalLost, ReleaseFatal, Drain, shared, queues, responses, IInv,
         TypeOK
<1> QED BY <1>1, <1>2 DEF script, waits, WaitInv

\* A wait leaves its loop for a response, as nothing cancels it.
LEMMA WaitsKeepWaits ==
    ASSUME IInv, WaitInv, NEW h \in Handles, WaitStep(h) PROVE WaitInv'
<1>1. UNCHANGED <<mpc, canceled, waiting, pendingResponseCount>>
      BY DEF WaitStep, TestCount, TestCanceled, WaitEvent, ResetEvent,
         ClearSlot, Wait, queues, responses, script
<1>2. h \in waiting
      BY DEF WaitStep, TestCount, TestCanceled, WaitEvent, ResetEvent,
         ClearSlot, Wait, WaitInv
<1>3. \A g \in Handles : g # h => wpc'[g] = wpc[g]
      BY DEF WaitStep, TestCount, TestCanceled, WaitEvent, ResetEvent,
         ClearSlot, Wait, IInv, TypeOK
<1>4. mpc = "events" /\ wpc'[h] \in {"reset", "clear", "done"} =>
        pendingResponseCount > 0
      BY DEF WaitStep, TestCount, TestCanceled, WaitEvent, ResetEvent,
         ClearSlot, Wait, WaitInv, IInv, TypeOK
<1> QED BY <1>1, <1>2, <1>3, <1>4 DEF WaitInv

\* A call starts with every handle of its own fresh and the others at rest.
LEMMA CallsKeepWaits ==
    ASSUME FreshHandles, IInv, WaitInv, ScriptCalls PROVE WaitInv'
<1>1. CASE \E hs \in SUBSET Handles : CallEvents(hs)
  <2> PICK hs \in SUBSET Handles : CallEvents(hs)
      BY <1>1
  <2>1. /\ waiting = {} /\ waiting' = hs /\ mpc' = "events"
        /\ wpc' = [h \in Handles |-> IF h \in hs THEN "count" ELSE wpc[h]]
        /\ canceled' = [h \in Handles |-> canceled[h] /\ ~FreshHandles]
        BY DEF CallEvents, Script
  <2>2. \A h \in Handles : ~canceled'[h]
        BY <2>1
  <2>3. \A h \in Handles : wpc[h] = "idle"
        BY <2>1 DEF WaitInv
  <2>4. \A h \in Handles :
          wpc'[h] = IF h \in hs THEN "count" ELSE "idle"
        BY <2>1, <2>3
  <2> QED BY <2>1, <2>2, <2>4 DEF WaitInv
<1>2. CASE Request \/ ResponseThrows \/ ResponseWaits \/ Close
  <2>1. mpc' # "events" /\ UNCHANGED waits
        BY <1>2 DEF Request, ResponseThrows, ResponseWaits, Close, Script
  <2> QED BY <2>1 DEF waits, WaitInv
<1> QED BY <1>1, <1>2 DEF ScriptCalls

\* Who is in a call of processEvents() takes no response.
LEMMA EndsKeepWaits ==
    ASSUME IInv, WaitInv, CallStep \/ OtherEvent PROVE WaitInv'
<1>1. mpc' # "events"
      BY DEF CallStep, OtherEvent, WaitSignaled, BeginCancel, Cancel, EndWait,
         PostRequest, AcquireResponse, TakeNothing, TakeValue, TakeException,
         ShiftResponse, SetEnd, PostClose, Join, TriggerCancel, AllCanceled,
         Collect, CallbackReturns, Script
<1>2. \A h \in Handles \ waiting' : wpc'[h] = "idle"
  <2>1. CASE \E h \in Handles : EndWait(h)
    <3> PICK h \in Handles : EndWait(h)
        BY <2>1
    <3>1. waiting' = waiting \ {h} /\ wpc' = [wpc EXCEPT ![h] = "idle"]
          BY DEF EndWait
    <3> QED BY <3>1 DEF WaitInv, IInv, TypeOK
  <2>2. CASE ~\E h \in Handles : EndWait(h)
    <3>1. UNCHANGED <<wpc, waiting>>
          BY <2>2 DEF CallStep, OtherEvent, WaitSignaled, BeginCancel, Cancel,
             PostRequest, AcquireResponse, TakeNothing, TakeValue,
             TakeException, ShiftResponse, SetEnd, PostClose, Join,
             TriggerCancel, AllCanceled, Collect, CallbackReturns, waits
    <3> QED BY <3>1 DEF WaitInv
  <2> QED BY <2>1, <2>2
<1> QED BY <1>1, <1>2 DEF WaitInv

\* A call of processEvents() that a handle of the task ends finds a response
\* (task.cpp, TaskStartWait), if the script uses a handle once: one that it
\* passes again remembers that it was canceled.
THEOREM WaitsEndForAResponse ==
    ASSUME FreshHandles PROVE Spec => []WakesForAResponse
<1>1. Init => WaitInv
      BY DEF Init, WaitInv
<1>2. IInv /\ WaitInv /\ [Next]_vars => WaitInv'
  <2> SUFFICES ASSUME IInv, WaitInv, [Next]_vars PROVE WaitInv'
      OBVIOUS
  <2>1. CASE UNCHANGED vars
        BY <2>1 DEF vars, shared, queues, responses, script, waits, WaitInv
  <2>2. CASE Next
        BY <2>2, ThreadKeepsWaits, WaitsKeepWaits, CallsKeepWaits,
           EndsKeepWaits DEF Next
  <2> QED BY <2>1, <2>2
<1>3. WaitInv => WakesForAResponse
      BY DEF WaitInv, WakesForAResponse
<1> QED BY <1>1, <1>2, <1>3, TaskInductive, PTL DEF Spec

=============================================================================
