------------------------------ MODULE Requests ------------------------------
(***************************************************************************)
(* Requests.send and Requests.asyncSend: the query urlDealWith writes into *)
(* the URL, the natives request and asyncRequest (Requests.cpp) and, as    *)
(* the environment, the HTTP client of libhv.                              *)
(*                                                                         *)
(* asyncRequest hands libhv a callback that captures two locals by         *)
(* reference, response and finished, and sleeps in a loop until finished   *)
(* is set.  The callback runs on the thread of libhv's event loop, which   *)
(* runs one callback at a time.  Its stores are taken in program order:    *)
(* nothing but the target's memory model orders them.                      *)
(*                                                                         *)
(* Every thread sends a HttpRequest of its own, more than once.            *)
(***************************************************************************)
EXTENDS Naturals

CONSTANTS
  Threads,    \* the Java threads
  Budget,     \* bound: how many requests each sends
  Nil         \* nullptr

ASSUME BudgetAssumption == Budget \in Nat \ {0}
ASSUME NilAssumption == Nil \notin Threads \X Nat

VARIABLES
  at,         \* where each thread is
  sent,       \* how many requests it has begun to send
  hasUrl,     \* the url of its HttpRequest is not null
  query,      \* its HttpRequest is a GET and has params
  copies,     \* how often its params were appended to that url
  frame,      \* its asyncRequest frame exists
  finished,   \* local of that frame
  response,   \* local of that frame
  inFlight,   \* libhv has its request and has not answered
  cb,         \* its callback: "none", or the statement it is at
  cbResp,     \* the argument of that callback
  answer,     \* what libhv answered to its last request
  result      \* what its last call gave to Java

loop == <<inFlight, cb, cbResp, answer>>
locals == <<frame, finished, response>>
req == <<hasUrl, query, copies>>
vars == <<at, sent, req, locals, loop, result>>

(* A response belongs to the request it answers.                           *)
Response(t) == <<t, sent[t]>>
Responses == (Threads \X (1..Budget)) \cup {Nil}

Init ==
  /\ at = [t \in Threads |-> "idle"]
  /\ sent = [t \in Threads |-> 0]
  /\ hasUrl \in [Threads -> BOOLEAN]
  /\ query \in [Threads -> BOOLEAN]
  /\ copies = [t \in Threads |-> 0]
  /\ frame = [t \in Threads |-> FALSE]
  /\ finished = [t \in Threads |-> FALSE]
  /\ response = [t \in Threads |-> Nil]
  /\ inFlight = [t \in Threads |-> FALSE]
  /\ cb = [t \in Threads |-> "none"]
  /\ cbResp = [t \in Threads |-> Nil]
  /\ answer = [t \in Threads |-> Nil]
  /\ result = [t \in Threads |-> Nil]

Goto(t, s) == at' = [at EXCEPT ![t] = s]

-----------------------------------------------------------------------------
(* The caller                                                              *)

(* Mutants stand before what they mutate and take part in no specification. *)
Send_AnyMethod(t, native) ==
  /\ at[t] = "idle" /\ sent[t] < Budget
  /\ sent' = [sent EXCEPT ![t] = @ + 1]
  /\ copies' = [copies EXCEPT ![t] = @ + 1]
  /\ hasUrl' = [hasUrl EXCEPT ![t] = TRUE]
  /\ Goto(t, native)
  /\ UNCHANGED <<query, locals, loop, result>>

(* send or asyncSend, then urlDealWith, which makes "null?k=v" of a null   *)
(* url.                                                                    *)
Send(t, native) ==
  /\ at[t] = "idle" /\ sent[t] < Budget
  /\ sent' = [sent EXCEPT ![t] = @ + 1]
  /\ copies' = [copies EXCEPT ![t] = IF query[t] THEN @ + 1 ELSE @]
  /\ hasUrl' = [hasUrl EXCEPT ![t] = @ \/ query[t]]
  /\ Goto(t, native)
  /\ UNCHANGED <<query, locals, loop, result>>

(* No url: NullPointerException, before libhv has seen anything.           *)
ThrowNull(t) ==
  /\ at[t] \in {"request", "asyncRequest"} /\ ~hasUrl[t]
  /\ result' = [result EXCEPT ![t] = Nil]
  /\ answer' = [answer EXCEPT ![t] = Nil]
  /\ Goto(t, "idle")
  /\ UNCHANGED <<sent, req, locals, inFlight, cb, cbResp>>

(* requests::request returns a response, or NULL when the client failed.   *)
Request(t, ok) ==
  /\ at[t] = "request" /\ hasUrl[t]
  /\ result' = [result EXCEPT ![t] = IF ok THEN Response(t) ELSE Nil]
  /\ answer' = [answer EXCEPT ![t] = IF ok THEN Response(t) ELSE Nil]
  /\ Goto(t, "idle")
  /\ UNCHANGED <<sent, req, locals, inFlight, cb, cbResp>>

(* The locals, then requests::async.                                       *)
Submit(t) ==
  /\ at[t] = "asyncRequest" /\ hasUrl[t]
  /\ frame' = [frame EXCEPT ![t] = TRUE]
  /\ finished' = [finished EXCEPT ![t] = FALSE]
  /\ response' = [response EXCEPT ![t] = Nil]
  /\ inFlight' = [inFlight EXCEPT ![t] = TRUE]
  /\ Goto(t, "poll")
  /\ UNCHANGED <<sent, req, cb, cbResp, answer, result>>

(* while (!finished) hv_sleep(1);                                          *)
Poll(t) ==
  /\ at[t] = "poll" /\ finished[t]
  /\ Goto(t, "return")
  /\ UNCHANGED <<sent, req, locals, loop, result>>

Return(t) ==
  /\ at[t] = "return"
  /\ result' = [result EXCEPT ![t] = response[t]]
  /\ frame' = [frame EXCEPT ![t] = FALSE]
  /\ Goto(t, "idle")
  /\ UNCHANGED <<sent, req, finished, response, loop>>

-----------------------------------------------------------------------------
(* libhv, and the callback on its loop                                     *)

(* One answer to each request: a response, or NULL on any failure.         *)
Answer(t, ok) ==
  /\ inFlight[t] /\ \A u \in Threads : cb[u] = "none"
  /\ inFlight' = [inFlight EXCEPT ![t] = FALSE]
  /\ answer' = [answer EXCEPT ![t] = IF ok THEN Response(t) ELSE Nil]
  /\ cbResp' = [cbResp EXCEPT ![t] = answer'[t]]
  /\ cb' = [cb EXCEPT ![t] = "first"]
  /\ UNCHANGED <<at, sent, req, locals, result>>

(* if (resp != nullptr) response = resp;                                   *)
StoreResponse(t) ==
  /\ response' = [response EXCEPT ![t] = IF cbResp[t] # Nil THEN cbResp[t] ELSE @]
  /\ finished' = finished

StoreFinished_OnResponse(t) ==
  /\ finished' = [finished EXCEPT ![t] = cbResp[t] # Nil]
  /\ response' = response

(* finished = 1;                                                           *)
StoreFinished(t) ==
  /\ finished' = [finished EXCEPT ![t] = TRUE]
  /\ response' = response

Callback_Swapped(t) ==
  /\ \/ cb[t] = "first" /\ StoreFinished(t) /\ cb' = [cb EXCEPT ![t] = "second"]
     \/ cb[t] = "second" /\ StoreResponse(t) /\ cb' = [cb EXCEPT ![t] = "none"]
  /\ UNCHANGED <<at, sent, req, frame, inFlight, cbResp, answer, result>>

(* The two statements of the lambda.                                       *)
Callback(t) ==
  /\ \/ cb[t] = "first" /\ StoreResponse(t) /\ cb' = [cb EXCEPT ![t] = "second"]
     \/ cb[t] = "second" /\ StoreFinished(t) /\ cb' = [cb EXCEPT ![t] = "none"]
  /\ UNCHANGED <<at, sent, req, frame, inFlight, cbResp, answer, result>>

-----------------------------------------------------------------------------
Caller(t) ==
  \/ ThrowNull(t) \/ Submit(t) \/ Poll(t) \/ Return(t)
  \/ \E ok \in BOOLEAN : Request(t, ok)

Loop(t) == Callback(t) \/ \E ok \in BOOLEAN : Answer(t, ok)

Next ==
  \E t \in Threads :
    \/ \E native \in {"request", "asyncRequest"} : Send(t, native)
    \/ Caller(t) \/ Loop(t)

Spec == Init /\ [][Next]_vars

(* Java threads run, and libhv answers every request it accepted: its      *)
(* client has a timeout of its own and calls back with NULL then.          *)
FairSpec ==
  /\ Spec
  /\ \A t \in Threads : WF_vars(Caller(t)) /\ WF_vars(Loop(t))

-----------------------------------------------------------------------------
(* Types of the locals, the callback and the results; and the params are   *)
(* in the url of a GET request once for each time it was sent.            *)
TypeOK ==
  /\ at \in [Threads -> {"idle", "request", "asyncRequest", "poll", "return"}]
  /\ sent \in [Threads -> 0..Budget] 
  /\ copies = [t \in Threads |-> IF query[t] THEN sent[t] ELSE 0]
  /\ query \in [Threads -> BOOLEAN]
  /\ hasUrl \in [Threads -> BOOLEAN]
  /\ frame \in [Threads -> BOOLEAN] /\ finished \in [Threads -> BOOLEAN]
  /\ response \in [Threads -> Responses] /\ cbResp \in [Threads -> Responses]
  /\ inFlight \in [Threads -> BOOLEAN]
  /\ cb \in [Threads -> {"none", "first", "second"}]
  /\ answer \in [Threads -> Responses] /\ result \in [Threads -> Responses]

(* The callback writes to locals of a call that has not returned yet.      *)
NoDanglingLocals == \A t \in Threads : cb[t] # "none" => frame[t]

(* A call gives Java the answer libhv gave to this very request: not the   *)
(* answer to another thread's or an earlier request, and not none.         *)
OwnAnswer == \A t \in Threads : at[t] = "idle" => result[t] = answer[t]

(* A call returns, whether the request succeeded or failed.                *)
Returns == \A t \in Threads : at[t] # "idle" ~> at[t] = "idle"
=============================================================================
