----------------------------- MODULE HandlePool -----------------------------
(***************************************************************************)
(* What a process may rely on when it works with handles: a pool of at     *)
(* most Capacity handles, each of which stands for one object from the     *)
(* moment it is handed out until it is closed.                             *)
(***************************************************************************)
EXTENDS Integers, Sequences, FiniteSets

CONSTANTS
  Objects,    \* kernel objects
  Handles,    \* the values that a caller can pass for a handle
  Issuable,   \* the handles that may be handed out
  Capacity,   \* how many of them at one time
  Denotes,    \* value -> the handle it is taken for
  Own         \* value -> the objects it may stand for without being open

VARIABLES
  pool,       \* handle -> object, for the handles that are open
  reply       \* what the last call asked and what it was answered

Open == DOMAIN pool

\* The objects that a value passed for a handle can stand for.
Meaning(h) ==
  IF h \in DOMAIN Own THEN Own[h] ELSE {pool[x] : x \in Open \cap {Denotes[h]}}

Answer(call, arg, result, out) ==
  [call |-> call, arg |-> arg, result |-> result, out |-> out]

Init == pool = [h \in {} |-> h] /\ reply = Answer("None", <<>>, "Success", <<>>)

\* A new handle for an object, or none if the pool is exhausted.
Add(obj, call, arg) ==
  \/ \E h \in Issuable :
       /\ reply' = Answer(call, arg, "Success", <<h>>)
       /\ Cardinality(Open) < Capacity /\ h \notin Open
       /\ pool' = [x \in Open \cup {h} |-> IF x = h THEN obj ELSE pool[x]]
  \/ /\ reply' = Answer(call, arg, "OutOfHandles", <<>>)
     /\ Cardinality(Open) = Capacity
     /\ UNCHANGED pool

Create(obj) == Add(obj, "Create", <<obj>>)

\* Two handles for two objects.  If there is room for one handle only, it is
\* taken although the call fails.
CreatePair(first, second) ==
  LET ask(result, out) == Answer("CreatePair", <<first, second>>, result, out) IN
    \/ \E h, k \in Issuable :
         /\ reply' = ask("Success", <<h, k>>)
         /\ Cardinality(Open) < Capacity - 1 /\ h \notin Open /\ k \notin Open \cup {h}
         /\ pool' = [x \in Open \cup {h, k} |->
                       IF x = k THEN second ELSE IF x = h THEN first ELSE pool[x]]
    \/ /\ reply' = ask("OutOfHandles", <<>>)
       /\ Cardinality(Open) = Capacity - 1
       /\ \E h \in Issuable \ Open :
            pool' = [x \in Open \cup {h} |-> IF x = h THEN first ELSE pool[x]]
    \/ /\ reply' = ask("OutOfHandles", <<>>)
       /\ Cardinality(Open) = Capacity
       /\ UNCHANGED pool

\* A second handle for what h stands for.
Duplicate(h) ==
  \/ \E obj \in Meaning(h) : Add(obj, "Duplicate", <<h>>)
  \/ /\ Meaning(h) = {}
     /\ reply' = Answer("Duplicate", <<h>>, "InvalidHandle", <<>>)
     /\ UNCHANGED pool

\* Closing a handle leaves all others as they are.
Close(h) ==
  \/ /\ reply' = Answer("Close", <<h>>, "Success", <<>>)
     /\ Denotes[h] \in Open
     /\ pool' = [x \in Open \ {Denotes[h]} |-> pool[x]]
  \/ /\ reply' = Answer("Close", <<h>>, "InvalidHandle", <<>>)
     /\ Denotes[h] \notin Open
     /\ UNCHANGED pool

\* The object that a handle stands for.
Lookup(h) ==
  /\ UNCHANGED pool
  /\ \/ \E obj \in Meaning(h) : reply' = Answer("Lookup", <<h>>, "Success", <<obj>>)
     \/ Meaning(h) = {} /\ reply' = Answer("Lookup", <<h>>, "InvalidHandle", <<>>)

Next ==
  \/ \E obj \in Objects : reply'.call = "Create" /\ Create(obj)
  \/ \E first, second \in Objects :
       reply'.arg = <<first, second>> /\ CreatePair(first, second)
  \/ \E h \in Handles :
       reply'.arg = <<h>> /\ (Duplicate(h) \/ Close(h) \/ Lookup(h))

Spec == Init /\ [][Next]_<<pool, reply>>
=============================================================================
