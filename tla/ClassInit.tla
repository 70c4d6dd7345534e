----------------------------- MODULE ClassInit -----------------------------
(***************************************************************************)
(* How the native library gets loaded: the static initialisers of Info and *)
(* of every class with native methods, first used by several threads.      *)
(*                                                                         *)
(* The Java virtual machine initialises a class once, in the thread that   *)
(* uses it first; other threads wait, the same thread goes on, and a class *)
(* whose initialiser threw stays unusable.  Every initialiser of the       *)
(* library also takes a monitor, not always that of its own class: JsonMut *)
(* takes Json's, MD5 takes Requests', Sha takes Base64's.  So a thread may *)
(* hold the right to initialise one class and the monitor of another while *)
(* it waits for Info.                                                      *)
(***************************************************************************)
EXTENDS Naturals, Sequences

CONSTANTS
  Threads,      \* Java threads
  Uses,         \* bound: how many first or later uses each makes
  LoadMayFail,  \* System.loadLibrary may throw
  None          \* no thread, no class

Natives == {"Json", "JsonMut", "Logger", "Requests", "Base64", "MD5", "Sha"}
Classes == Natives \cup {"Ssl", "Info"}

ASSUME NoneAssumption == None \notin Threads \cup Classes
ASSUME LoadAssumption == LoadMayFail \in BOOLEAN /\ Uses \in Nat

(* The class whose monitor the initialiser of c takes.                     *)
MonitorOf(c) ==
  CASE c = "JsonMut" -> "Json" [] c = "MD5" -> "Requests" [] c = "Sha" -> "Base64"
    [] OTHER -> c

(* Mutants stand before what they mutate and take part in no specification. *)
Touches_Logger(c) ==
  CASE c = "Info" -> <<"Logger">> [] c = "Ssl" -> <<"MD5", "Base64", "Sha">>
    [] OTHER -> <<"Info">>

(* The classes it uses while it has the monitor, in order.                 *)
Touches(c) ==
  CASE c = "Info" -> << >> [] c = "Ssl" -> <<"MD5", "Base64", "Sha">>
    [] OTHER -> <<"Info">>

VARIABLES
  state,    \* of each class: "fresh", "running", "done" or "failed"
  by,       \* the thread that runs its initialiser
  owner,    \* the thread in its monitor
  isInit,   \* Info.isInit
  loads,    \* how often System.loadLibrary succeeded
  stack,    \* the initialisers each thread is in: <<class, position>>
  goal,     \* the class each thread is using
  outcome,  \* how its last use ended
  left      \* uses each thread may still begin

vars == <<state, by, owner, isInit, loads, stack, goal, outcome, left>>

Init ==
  /\ state = [c \in Classes |-> "fresh"]
  /\ by = [c \in Classes |-> None]
  /\ owner = [c \in Classes |-> None]
  /\ isInit = FALSE
  /\ loads = 0
  /\ stack = [t \in Threads |-> << >>]
  /\ goal = [t \in Threads |-> None]
  /\ outcome = [t \in Threads |-> "none"]
  /\ left = [t \in Threads |-> Uses]

-----------------------------------------------------------------------------
Top(t) == stack[t][Len(stack[t])]
Class(t) == Top(t)[1]
At(t) == Top(t)[2]
Pop(t) == SubSeq(stack[t], 1, Len(stack[t]) - 1)
Advance(t) ==
  stack' = [stack EXCEPT ![t][Len(stack[t])] = <<Class(t), At(t) + 1>>]

(* The class the thread must have initialised to go on.                    *)
Wants(t, c) ==
  IF stack[t] = << >> THEN c = goal[t]
  ELSE At(t) \in 1..Len(Touches(Class(t))) /\ c = Touches(Class(t))[At(t)]

(* A static member of c is used, which may be Info.init() itself.          *)
Use(t, c) ==
  /\ goal[t] = None /\ left[t] > 0
  /\ goal' = [goal EXCEPT ![t] = c]
  /\ left' = [left EXCEPT ![t] = @ - 1]
  /\ UNCHANGED <<state, by, owner, isInit, loads, stack, outcome>>

Initialise(t, c) ==
  /\ Wants(t, c) /\ state[c] = "fresh"
  /\ state' = [state EXCEPT ![c] = "running"]
  /\ by' = [by EXCEPT ![c] = t]
  /\ stack' = [stack EXCEPT ![t] = Append(@, <<c, 0>>)]
  /\ UNCHANGED <<owner, isInit, loads, goal, outcome, left>>

(* The class is there, or this very thread is initialising it.             *)
Proceed(t, c) ==
  /\ Wants(t, c) /\ (state[c] = "done" \/ by[c] = t)
  /\ \/ /\ stack[t] = << >>
        /\ goal' = [goal EXCEPT ![t] = None]
        /\ outcome' = [outcome EXCEPT ![t] = "native call"]
        /\ stack' = stack
     \/ stack[t] # << >> /\ Advance(t) /\ UNCHANGED <<goal, outcome>>
  /\ UNCHANGED <<state, by, owner, isInit, loads, left>>

Lock(t) ==
  /\ stack[t] # << >> /\ At(t) = 0
  /\ owner[MonitorOf(Class(t))] = None
  /\ owner' = [owner EXCEPT ![MonitorOf(Class(t))] = t]
  /\ Advance(t)
  /\ UNCHANGED <<state, by, isInit, loads, goal, outcome, left>>

End_KeepsMonitor(t, s) ==
  /\ state' = [state EXCEPT ![Class(t)] = s]
  /\ by' = [by EXCEPT ![Class(t)] = None]
  /\ owner' = IF s = "failed" THEN owner
              ELSE [owner EXCEPT ![MonitorOf(Class(t))] = None]
  /\ stack' = [stack EXCEPT ![t] = Pop(t)]

(* An initialiser ends: the virtual machine records how.                   *)
End(t, s) ==
  /\ state' = [state EXCEPT ![Class(t)] = s]
  /\ by' = [by EXCEPT ![Class(t)] = None]
  /\ owner' = [owner EXCEPT ![MonitorOf(Class(t))] = None]
  /\ stack' = [stack EXCEPT ![t] = Pop(t)]

Throw_Swallowed(t) ==
  /\ End(t, "done")
  /\ UNCHANGED <<isInit, loads, goal, outcome, left>>

(* The initialiser throws out of its synchronized block.                   *)
Throw(t) ==
  /\ End(t, "failed")
  /\ UNCHANGED <<isInit, loads, goal, outcome, left>>

(* The class used before cannot be initialised: an error is thrown here.   *)
Unusable(t, c) ==
  /\ Wants(t, c) /\ state[c] = "failed"
  /\ \/ /\ stack[t] = << >>
        /\ goal' = [goal EXCEPT ![t] = None]
        /\ outcome' = [outcome EXCEPT ![t] = "error"]
        /\ UNCHANGED <<state, by, owner, isInit, loads, stack, left>>
     \/ stack[t] # << >> /\ Throw(t)

(* Info: isInit = false, then init().                                      *)
InitInfo(t) ==
  /\ stack[t] # << >> /\ Class(t) = "Info" /\ At(t) = Len(Touches("Info")) + 1
  /\ \/ LoadMayFail /\ Throw(t)
     \/ /\ loads' = loads + 1
        /\ isInit' = TRUE
        /\ End(t, "done")
        /\ UNCHANGED <<goal, outcome, left>>

Finish_Always(t) ==
  /\ stack[t] # << >> /\ Class(t) # "Info" /\ At(t) = Len(Touches(Class(t))) + 1
  /\ loads' = IF Class(t) # "Ssl" THEN loads + 1 ELSE loads
  /\ isInit' = TRUE
  /\ End(t, "done")
  /\ UNCHANGED <<goal, outcome, left>>

(* if (!Info.isInit) Info.init();  Ssl has only its three objects to make. *)
Finish(t) ==
  /\ stack[t] # << >> /\ Class(t) # "Info" /\ At(t) = Len(Touches(Class(t))) + 1
  /\ loads' = IF Class(t) = "Ssl" \/ isInit THEN loads ELSE loads + 1
  /\ isInit' = (isInit \/ Class(t) # "Ssl")
  /\ End(t, "done")
  /\ UNCHANGED <<goal, outcome, left>>

Step(t) ==
  \/ \E c \in Classes : Initialise(t, c) \/ Proceed(t, c) \/ Unusable(t, c)
  \/ Lock(t) \/ InitInfo(t) \/ Finish(t)

Next == \E t \in Threads : Step(t) \/ \E c \in Classes : Use(t, c)

Spec == Init /\ [][Next]_vars

FairSpec == Spec /\ \A t \in Threads : WF_vars(Step(t))

-----------------------------------------------------------------------------
InFrame(t, c) == \E i \in DOMAIN stack[t] : stack[t][i][1] = c

(* Types, and the bookkeeping of the initialisers: a class is running      *)
(* exactly while a thread is in its initialiser, and a monitor belongs to  *)
(* a thread exactly while it is inside a synchronized block on it.         *)
TypeOK ==
  /\ state \in [Classes -> {"fresh", "running", "done", "failed"}]
  /\ isInit \in BOOLEAN /\ loads \in Nat
  /\ \A c \in Classes, t \in Threads :
       /\ by[c] = t <=> InFrame(t, c)
       /\ owner[c] = t <=>
            \E i \in DOMAIN stack[t] : MonitorOf(stack[t][i][1]) = c /\ stack[t][i][2] > 0

(* However many classes are first used at once, the library is loaded once.*)
LoadedOnce == loads <= 1

(* No class with natives can be used before the library is there, also     *)
(* when loading it failed: its users get an error instead.                 *)
NativesLinked ==
  /\ \A c \in Natives : state[c] = "done" => loads > 0 /\ isInit
  /\ \A t \in Threads : outcome[t] = "native call" => loads > 0

(* Nobody waits for ever: the order in which the initialisers take classes *)
(* and monitors has no cycle, so every use ends, by a call or an error.    *)
UseEnds == \A t \in Threads : goal[t] # None ~> goal[t] = None
=============================================================================
