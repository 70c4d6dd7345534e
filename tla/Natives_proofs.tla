-------------------------- MODULE Natives_proofs --------------------------
(***************************************************************************)
(* Proofs about the natives that hand memory of their own to others:       *)
(* Requests, for any number of threads and requests, and Digests, for any  *)
(* number of threads and blocks, over variables of its own.                *)
(*                                                                         *)
(* What the polling thread may rely on is what the callback has left it at *)
(* each of its statements: the invariant follows one request of a thread   *)
(* through libhv, the callback's two stores and the polling loop.          *)
(***************************************************************************)
EXTENDS Requests, TLAPS

(* The request is with libhv or the callback is at a statement: the caller *)
(* polls, with finished unset, so its frame lives.                         *)
Pending(t) ==
  inFlight[t] \/ cb[t] # "none" => at[t] = "poll" /\ ~finished[t] /\ frame[t]

(* What the callback has stored so far.                                    *)
Stored(t) ==
  /\ inFlight[t] => cb[t] = "none" /\ response[t] = Nil
  /\ cb[t] # "none" => cbResp[t] = answer[t]
  /\ cb[t] = "first" => response[t] = Nil
  /\ cb[t] = "second" => response[t] = answer[t]

(* Once finished is seen, response is the answer.                          *)
Seen(t) ==
  /\ at[t] = "poll" => frame[t] /\ (finished[t] => response[t] = answer[t])
  /\ at[t] = "return" => response[t] = answer[t]
  /\ at[t] = "idle" => result[t] = answer[t]
  /\ at[t] # "idle" => sent[t] \in 1..Budget

Follows(t) == Pending(t) /\ Stored(t) /\ Seen(t)

IInv == TypeOK /\ \A t \in Threads : Follows(t)

(* Every step changes the entries of one thread only.                      *)
LEMMA OthersFollow ==
  ASSUME IInv, NEW t \in Threads, NEW u \in Threads \ {t},
         at'[u] = at[u], sent'[u] = sent[u], frame'[u] = frame[u],
         finished'[u] = finished[u], response'[u] = response[u],
         inFlight'[u] = inFlight[u], cb'[u] = cb[u], cbResp'[u] = cbResp[u],
         answer'[u] = answer[u], result'[u] = result[u]
  PROVE  Follows(u)'
BY DEF IInv, Follows, Pending, Stored, Seen

LEMMA CallerStep ==
  ASSUME IInv, NEW t \in Threads,
         \/ \E native \in {"request", "asyncRequest"} : Send(t, native)
         \/ ThrowNull(t) \/ (\E ok \in BOOLEAN : Request(t, ok))
         \/ Submit(t) \/ Poll(t) \/ Return(t)
  PROVE  IInv'
<1> USE BudgetAssumption DEF req, locals, loop, Goto
<1>1. CASE \E native \in {"request", "asyncRequest"} : Send(t, native)
  <2>1. TypeOK'
    BY <1>1 DEF IInv, TypeOK, Send, Responses
  <2>2. Follows(t)'
    BY <1>1 DEF IInv, TypeOK, Send, Follows, Pending, Stored, Seen
  <2>3. ASSUME NEW u \in Threads \ {t} PROVE Follows(u)'
    BY <1>1, OthersFollow DEF IInv, TypeOK, Send
  <2> QED BY <2>1, <2>2, <2>3 DEF IInv
<1>2. CASE ThrowNull(t) \/ \E ok \in BOOLEAN : Request(t, ok)
  <2>1. sent[t] \in 1..Budget
    BY <1>2 DEF IInv, Follows, Seen, ThrowNull, Request
  <2>2. TypeOK'
    BY <1>2, <2>1 DEF IInv, TypeOK, ThrowNull, Request, Response, Responses
  <2>3. Follows(t)'
    BY <1>2 DEF IInv, TypeOK, ThrowNull, Request, Response, Follows, Pending, Stored, Seen
  <2>4. ASSUME NEW u \in Threads \ {t} PROVE Follows(u)'
    BY <1>2, OthersFollow DEF IInv, TypeOK, ThrowNull, Request
  <2> QED BY <2>2, <2>3, <2>4 DEF IInv
<1>3. CASE Submit(t)
  <2>1. TypeOK'
    BY <1>3 DEF IInv, TypeOK, Submit, Responses
  <2>2. Follows(t)'
    BY <1>3 DEF IInv, TypeOK, Submit, Follows, Pending, Stored, Seen
  <2>3. ASSUME NEW u \in Threads \ {t} PROVE Follows(u)'
    BY <1>3, OthersFollow DEF IInv, TypeOK, Submit
  <2> QED BY <2>1, <2>2, <2>3 DEF IInv
<1>4. CASE Poll(t) \/ Return(t)
  <2>1. TypeOK'
    <3>1. CASE Poll(t)
      BY <3>1 DEF IInv, TypeOK, Poll
    <3>2. CASE Return(t)
      BY <3>2 DEF IInv, TypeOK, Return
    <3> QED BY <1>4, <3>1, <3>2
  <2>2. Follows(t)'
    BY <1>4 DEF IInv, TypeOK, Poll, Return, Follows, Pending, Stored, Seen
  <2>3. ASSUME NEW u \in Threads \ {t} PROVE Follows(u)'
    BY <1>4, OthersFollow DEF IInv, TypeOK, Poll, Return
  <2> QED BY <2>1, <2>2, <2>3 DEF IInv
<1> QED BY <1>1, <1>2, <1>3, <1>4

LEMMA LoopStep ==
  ASSUME IInv, NEW t \in Threads, Loop(t)
  PROVE  IInv'
<1> USE BudgetAssumption DEF req, locals, loop
<1>1. CASE \E ok \in BOOLEAN : Answer(t, ok)
  <2>1. sent[t] \in 1..Budget
    BY <1>1 DEF IInv, Follows, Pending, Seen, Answer
  <2>2. TypeOK'
    BY <1>1, <2>1 DEF IInv, TypeOK, Answer, Response, Responses
  <2>3. Follows(t)'
    BY <1>1 DEF IInv, TypeOK, Answer, Response, Follows, Pending, Stored, Seen
  <2>4. ASSUME NEW u \in Threads \ {t} PROVE Follows(u)'
    <3>1. /\ at'[u] = at[u] /\ sent'[u] = sent[u] /\ frame'[u] = frame[u]
          /\ finished'[u] = finished[u] /\ response'[u] = response[u]
          /\ result'[u] = result[u]
      BY <1>1 DEF Answer
    <3>2. /\ inFlight'[u] = inFlight[u] /\ cb'[u] = cb[u]
          /\ cbResp'[u] = cbResp[u] /\ answer'[u] = answer[u]
      BY <1>1 DEF IInv, TypeOK, Answer
    <3> QED BY <3>1, <3>2, OthersFollow
  <2> QED BY <2>2, <2>3, <2>4 DEF IInv
<1>2. CASE Callback(t)
  <2>1. TypeOK'
    <3>1. response' \in [Threads -> Responses] /\ finished' \in [Threads -> BOOLEAN]
      <4>1. CASE StoreResponse(t)
        BY <4>1 DEF IInv, TypeOK, StoreResponse
      <4>2. CASE StoreFinished(t)
        BY <4>2 DEF IInv, TypeOK, StoreFinished
      <4> QED BY <1>2, <4>1, <4>2 DEF Callback
    <3>2. cb' \in [Threads -> {"none", "first", "second"}]
      BY <1>2 DEF IInv, TypeOK, Callback
    <3> QED BY <1>2, <3>1, <3>2 DEF IInv, TypeOK, Callback
  <2>2. Follows(t)'
    BY <1>2 DEF IInv, TypeOK, Callback, StoreResponse, StoreFinished,
                Follows, Pending, Stored, Seen
  <2>3. ASSUME NEW u \in Threads \ {t} PROVE Follows(u)'
    BY <1>2, OthersFollow DEF IInv, TypeOK, Callback, StoreResponse, StoreFinished
  <2> QED BY <2>1, <2>2, <2>3 DEF IInv
<1> QED BY <1>1, <1>2 DEF Loop

THEOREM Invariance == Spec => []IInv
<1>1. Init => IInv
  BY BudgetAssumption DEF Init, IInv, TypeOK, Responses, Follows, Pending, Stored, Seen
<1>2. IInv /\ [Next]_vars => IInv'
  <2> SUFFICES ASSUME IInv, [Next]_vars PROVE IInv'
    OBVIOUS
  <2>1. CASE UNCHANGED vars
    BY <2>1 DEF IInv, TypeOK, Responses, Follows, Pending, Stored, Seen,
                vars, req, locals, loop
  <2>2. CASE Next
    BY <2>2, CallerStep, LoopStep DEF Next, Caller
  <2> QED BY <2>1, <2>2
<1> QED BY <1>1, <1>2, PTL DEF Spec

(* Types, and the parameters are in the url of a request object as often   *)
(* as it was sent.                                                         *)
THEOREM TypeCorrect == Spec => []TypeOK
<1>1. IInv => TypeOK
  BY DEF IInv
<1> QED BY <1>1, Invariance, PTL

(* The lambda of asyncRequest captures response and finished by reference: *)
(* the frame they are in outlives both its statements.                     *)
THEOREM LocalsLive == Spec => []NoDanglingLocals
<1>1. IInv => NoDanglingLocals
  BY DEF IInv, Follows, Pending, NoDanglingLocals
<1> QED BY <1>1, Invariance, PTL

(* Whatever the other threads send, a call returns libhv's answer to the   *)
(* request it made.                                                        *)
THEOREM AnswersMatch == Spec => []OwnAnswer
<1>1. IInv => OwnAnswer
  BY DEF IInv, Follows, Seen, OwnAnswer
<1> QED BY <1>1, Invariance, PTL

-----------------------------------------------------------------------------
(* Digests.                                                                *)
CONSTANTS Texts, Blocks, Noise, None

VARIABLES place, call, buffer, user, content, string

Heap == INSTANCE Digests WITH at <- place, result <- string

(* A native but sha has its block, and the right bytes in it, until it has *)
(* made its string of them; every native that is running has a block.      *)
Keeps(t) ==
  /\ place[t] # "idle" => buffer[t] \in Blocks /\ call[t] # None
  /\ place[t] = "temporary" => call[t][1] = "sha" /\ user[buffer[t]] = t
  /\ place[t] = "free" => call[t][1] # "sha" /\ user[buffer[t]] = t /\ Heap!Right(t)
  /\ place[t] = "string" /\ call[t][1] # "sha" =>
       user[buffer[t]] = t /\ content[buffer[t]] = Heap!Digest(call[t])
  /\ Heap!Returned(t) /\ call[t][1] # "sha" => Heap!Right(t)

HeapInv == Heap!TypeOK /\ \A t \in Threads : Keeps(t)

(* A call that is over or has a block of its own is not disturbed when     *)
(* another thread's step changes only a block that is free or its own.     *)
LEMMA Undisturbed ==
  ASSUME NEW t \in Threads, NEW u \in Threads \ {t}, NEW b, Heap!NoneApart, HeapInv,
         place'[u] = place[u], call'[u] = call[u], buffer'[u] = buffer[u],
         string'[u] = string[u],
         user[b] \in {None, t},
         \A c \in Blocks \ {b} : user'[c] = user[c] /\ content'[c] = content[c]
  PROVE  Keeps(u)'
<1>1. user[buffer[u]] = u => buffer[u] # b
  BY DEF Heap!NoneApart
<1> QED BY <1>1 DEF HeapInv, Keeps, Heap!Returned, Heap!Right, Heap!Digest

LEMMA StepHeapInv ==
  ASSUME Heap!NoneApart, HeapInv, NEW t \in Threads, NEW b \in Blocks,
         \/ \E native \in Heap!Natives, text \in Texts : Heap!Compute(t, native, text, b)
         \/ b = buffer[t] /\ (Heap!EndTemporary(t) \/ Heap!NewString(t) \/ Heap!Release(t))
  PROVE  HeapInv'
<1>1. CASE \E native \in Heap!Natives, text \in Texts : Heap!Compute(t, native, text, b)
  <2>1. Heap!TypeOK'
    BY <1>1 DEF HeapInv, Heap!TypeOK, Heap!Compute, Heap!Goto
  <2>2. Keeps(t)'
    <3>1. PICK native \in Heap!Natives, text \in Texts : Heap!Compute(t, native, text, b)
      BY <1>1
    <3>2. /\ call'[t] = <<native, text>>
          /\ buffer'[t] = b
          /\ user'[b] = t
          /\ content'[b] = Heap!Digest(<<native, text>>)
          /\ place'[t] = IF native = "sha" THEN "temporary" ELSE "string"
      BY <3>1 DEF HeapInv, Heap!TypeOK, Heap!Compute, Heap!Goto
    <3>3. call'[t] # None /\ call'[t][1] = native
      BY <3>2 DEF Heap!NoneApart
    <3> QED BY <3>2, <3>3 DEF Keeps, Heap!Returned
  <2>3. ASSUME NEW u \in Threads \ {t} PROVE Keeps(u)'
    BY <1>1, Undisturbed DEF HeapInv, Heap!TypeOK, Heap!Compute, Heap!Goto
  <2> QED BY <2>1, <2>2, <2>3 DEF HeapInv
<1>2. CASE b = buffer[t] /\ (Heap!EndTemporary(t) \/ Heap!Release(t))
  <2>1. Heap!TypeOK'
    BY <1>2 DEF HeapInv, Heap!TypeOK, Heap!EndTemporary, Heap!Release, Heap!FreeBlock, Heap!Goto
  <2>2. Keeps(t)'
    BY <1>2
      DEF HeapInv, Keeps, Heap!TypeOK, Heap!EndTemporary, Heap!Release, Heap!FreeBlock,
          Heap!Goto, Heap!Returned, Heap!Right, Heap!Digest
  <2>3. user[b] = t
    BY <1>2 DEF HeapInv, Keeps, Heap!EndTemporary, Heap!Release
  <2>4. ASSUME NEW u \in Threads \ {t} PROVE Keeps(u)'
    BY <1>2, <2>3, Undisturbed
      DEF HeapInv, Heap!TypeOK, Heap!EndTemporary, Heap!Release, Heap!FreeBlock, Heap!Goto
  <2> QED BY <2>1, <2>2, <2>4 DEF HeapInv
<1>3. CASE Heap!NewString(t)
  <2>1. Heap!TypeOK'
    BY <1>3 DEF HeapInv, Heap!TypeOK, Heap!NewString, Heap!Goto
  <2>2. ASSUME NEW u \in Threads PROVE Keeps(u)'
    BY <1>3
      DEF HeapInv, Keeps, Heap!TypeOK, Heap!NewString, Heap!Goto, Heap!Returned, Heap!Right,
          Heap!Digest
  <2> QED BY <2>1, <2>2 DEF HeapInv
<1> QED BY <1>1, <1>2, <1>3

THEOREM HeapInvariance == ASSUME Heap!NoneApart PROVE Heap!Spec => []HeapInv
<1>1. Heap!Init => HeapInv
  BY DEF Heap!NoneApart, Heap!Init, HeapInv, Heap!TypeOK, Keeps, Heap!Returned
<1>2. HeapInv /\ [Heap!Next]_(Heap!vars) => HeapInv'
  <2> SUFFICES ASSUME HeapInv, [Heap!Next]_(Heap!vars) PROVE HeapInv'
    OBVIOUS
  <2>1. CASE UNCHANGED Heap!vars
    BY <2>1 DEF HeapInv, Heap!TypeOK, Keeps, Heap!Returned, Heap!Right, Heap!Digest, Heap!vars
  <2>2. CASE Heap!Next
    <3>1. PICK t \in Threads :
            \/ \E native \in Heap!Natives, text \in Texts, b \in Blocks :
                 Heap!Compute(t, native, text, b)
            \/ Heap!EndTemporary(t) \/ Heap!NewString(t) \/ Heap!Release(t)
      BY <2>2 DEF Heap!Next
    <3>2. Heap!EndTemporary(t) \/ Heap!NewString(t) \/ Heap!Release(t) => buffer[t] \in Blocks
      BY DEF HeapInv, Keeps, Heap!EndTemporary, Heap!NewString, Heap!Release
    <3> QED BY <3>1, <3>2, StepHeapInv
  <2> QED BY <2>1, <2>2
<1> QED BY <1>1, <1>2, PTL DEF Heap!Spec

(* MD5 and Base64 give every thread the digest of the text it passed, with *)
(* any number of threads, also while Sha reads blocks it has lost.         *)
THEOREM DigestsRight == ASSUME Heap!NoneApart PROVE Heap!Spec => []Heap!OwnDigestButSha
<1>1. HeapInv => Heap!OwnDigestButSha
  BY DEF HeapInv, Keeps, Heap!OwnDigestButSha
<1> QED BY <1>1, HeapInvariance, PTL
=============================================================================
