------------------------------ MODULE Digests ------------------------------
(***************************************************************************)
(* The natives of Sha and MD5, and base64_encode.  Each makes its result   *)
(* in a block of the native heap and then a Java string of that block:     *)
(* Base64 of a block it mallocs and frees, MD5 of a std::string that lives *)
(* until it returns, Sha of c_str() of a temporary std::string, whose life *)
(* ends with the statement that takes the pointer.  (A digest has 32 or    *)
(* more digits, so no std::string keeps it inside.)                        *)
(*                                                                         *)
(* Reading a freed block is undefined: it reads as what was there, as what *)
(* the allocator wrote into it, or as what its next user did.              *)
(***************************************************************************)
EXTENDS Naturals

CONSTANTS
  Threads,    \* threads that call the natives
  Texts,      \* the strings they pass
  Blocks,     \* blocks of the native heap
  Noise,      \* what the allocator writes into a block it takes back
  None        \* no thread, no block, no string

Natives == {"sha", "getMD5", "base64_encode"}

(* What the proofs assume of the constants.                                *)
NoneApart ==
  None \notin Threads \cup Blocks \cup (Natives \X Texts)

VARIABLES
  at,         \* where each thread is
  call,       \* the native it calls and the text it passed
  buffer,     \* the pointer its native keeps
  user,       \* the call each block was handed out to
  content,    \* the bytes in each block
  result      \* the string its last call returned

vars == <<at, call, buffer, user, content, result>>

Goto(t, s) == at' = [at EXCEPT ![t] = s]

(* What a call has to return: a function of the native and the text.       *)
Digest(c) == <<"digest", c>>

Init ==
  /\ at = [t \in Threads |-> "idle"]
  /\ call = [t \in Threads |-> None]
  /\ buffer = [t \in Threads |-> None]
  /\ user = [b \in Blocks |-> None]
  /\ content = [b \in Blocks |-> Noise]
  /\ result = [t \in Threads |-> None]

(* A native computes its result into a block.                              *)
Compute(t, native, text, b) ==
  /\ at[t] = "idle" /\ user[b] = None
  /\ call' = [call EXCEPT ![t] = <<native, text>>]
  /\ user' = [user EXCEPT ![b] = t]
  /\ content' = [content EXCEPT ![b] = Digest(<<native, text>>)]
  /\ buffer' = [buffer EXCEPT ![t] = b]
  /\ Goto(t, IF native = "sha" THEN "temporary" ELSE "string")
  /\ UNCHANGED result

(* The block goes back to the allocator, which may write into it.          *)
FreeBlock(b) ==
  /\ user' = [user EXCEPT ![b] = None]
  /\ \/ content' = [content EXCEPT ![b] = Noise]
     \/ content' = content

(* sha: the temporary ends, buffer keeps pointing to its characters.       *)
EndTemporary(t) ==
  /\ at[t] = "temporary"
  /\ FreeBlock(buffer[t])
  /\ Goto(t, "string")
  /\ UNCHANGED <<call, buffer, result>>

(* NewStringUTF(buffer).                                                   *)
NewString(t) ==
  /\ at[t] = "string"
  /\ result' = [result EXCEPT ![t] = content[buffer[t]]]
  /\ Goto(t, IF call[t][1] = "sha" THEN "idle" ELSE "free")
  /\ UNCHANGED <<call, buffer, user, content>>

(* free(encoded), or the destructor of resultStr.                          *)
Release(t) ==
  /\ at[t] = "free"
  /\ FreeBlock(buffer[t])
  /\ Goto(t, "idle")
  /\ UNCHANGED <<call, buffer, result>>

Next ==
  \E t \in Threads :
    \/ \E native \in Natives, text \in Texts, b \in Blocks : Compute(t, native, text, b)
    \/ EndTemporary(t) \/ NewString(t) \/ Release(t)

Spec == Init /\ [][Next]_vars

-----------------------------------------------------------------------------
(* Types, and a native that will give its block back has it until then.    *)
TypeOK ==
  /\ at \in [Threads -> {"idle", "temporary", "string", "free"}]
  /\ call \in [Threads -> (Natives \X Texts) \cup {None}]
  /\ buffer \in [Threads -> Blocks \cup {None}]
  /\ user \in [Blocks -> Threads \cup {None}]
  /\ DOMAIN content = Blocks /\ DOMAIN result = Threads

Right(t) == result[t] = Digest(call[t])

Returned(t) == at[t] = "idle" /\ call[t] # None

(* Any two threads get the digests of what they passed, also at once:      *)
(* sha1_string("string") equals its SHA-1 (SslTest.java:17).               *)
OwnDigest == \A t \in Threads : Returned(t) => Right(t)

(* MD5 and Base64 do, whatever calls of Sha do to the heap meanwhile.      *)
OwnDigestButSha ==
  \A t \in Threads : Returned(t) /\ call[t][1] # "sha" => Right(t)
=============================================================================
