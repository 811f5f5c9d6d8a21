---------------------------- MODULE HandleTable ----------------------------
(***************************************************************************)
(* core/hle/kernel/handle_table.cpp and the supervisor calls that work on  *)
(* it: the table through which a process names kernel objects.             *)
(*                                                                         *)
(* A handle is a 32-bit word with two fields, a slot (17 bits) and a       *)
(* generation (15 bits); here it is the record of the two.  The slots that *)
(* are free form a list that is threaded through the array of generations. *)
(*                                                                         *)
(* The operators are on a table, so that a module with several processes   *)
(* can use them for each.                                                  *)
(***************************************************************************)
EXTENDS Integers, Sequences, FiniteSets

CONSTANTS
  Objects,       \* kernel objects
  NullObject,    \* the null pointer
  Threads,       \* those that can be the current thread
  Process,       \* the process whose table it is
  MAX_COUNT,     \* the number of slots
  SlotLimit,     \* 2^16: what a u16 holds of the slot of a handle
  GenLimit       \* 2^15: the generations that a handle holds

ASSUME HandleAssumption ==
  /\ NullObject \notin Objects
  /\ Threads \subseteq Objects /\ Process \in Objects
  /\ MAX_COUNT \in Nat \ {0}
  /\ SlotLimit \in Nat /\ MAX_COUNT < SlotLimit
  /\ GenLimit \in Nat /\ GenLimit > 1

VARIABLES
  table,    \* the table
  reply,    \* what the last call asked and what it was answered
  recent    \* history: the handles last created, at most GenLimit - 1

vars == <<table, reply, recent>>

Slots == 0..MAX_COUNT - 1

Handle(slot, generation) == [slot |-> slot, generation |-> generation]

\* The words that a program can pass for a handle.
Handles == [slot : 0..2 * SlotLimit - 1, generation : 0..GenLimit - 1]

\* Those that Create makes.
Issuable == [slot : Slots, generation : 1..GenLimit - 1]

\* enum KernelHandle: the words that name the caller.
CurrentThread == Handle(2 * SlotLimit - 1, 0)
CurrentProcess == Handle(2 * SlotLimit - 1, 1)

-----------------------------------------------------------------------------
\* The table.

\* GetSlot: the shift leaves 17 bits, of which a u16 keeps 16.
GetSlot(h) == IF h.slot >= SlotLimit THEN h.slot - SlotLimit ELSE h.slot

\* The condition that Create tests.
IsFull(t) == t.next_free_slot >= MAX_COUNT

\* Mutant: the counter starts again before the last generation.
NextGenerationEarly(generation) ==
  IF generation + 2 >= GenLimit THEN 1 ELSE generation + 1

\* The counter of generations, which never is 0.
NextGeneration(generation) ==
  IF generation + 1 >= GenLimit THEN 1 ELSE generation + 1

\* The handle that Create makes in a table that is not full.
NewHandle(t) == Handle(t.next_free_slot, t.next_generation)

\* Mutant: the slots are taken one after the other.
AfterCreateKeeps(t, obj) ==
  [objects |-> [t.objects EXCEPT ![t.next_free_slot] = obj],
   generations |-> [t.generations EXCEPT ![t.next_free_slot] = t.next_generation],
   next_free_slot |-> t.next_free_slot + 1,
   next_generation |-> NextGeneration(t.next_generation)]

\* HandleTable::Create in a table that is not full.
AfterCreate(t, obj) ==
  [objects |-> [t.objects EXCEPT ![t.next_free_slot] = obj],
   generations |-> [t.generations EXCEPT ![t.next_free_slot] = t.next_generation],
   next_free_slot |-> t.generations[t.next_free_slot],
   next_generation |-> NextGeneration(t.next_generation)]

\* Mutant: the generation is not compared.
IsValidAnyGeneration(t, h) ==
  GetSlot(h) < MAX_COUNT /\ t.objects[GetSlot(h)] # NullObject

\* HandleTable::IsValid.
IsValid(t, h) ==
  /\ GetSlot(h) < MAX_COUNT
  /\ t.objects[GetSlot(h)] # NullObject
  /\ t.generations[GetSlot(h)] = h.generation

\* HandleTable::Close of a valid handle.
AfterClose(t, h) ==
  [objects |-> [t.objects EXCEPT ![GetSlot(h)] = NullObject],
   generations |-> [t.generations EXCEPT ![GetSlot(h)] = t.next_free_slot],
   next_free_slot |-> GetSlot(h),
   next_generation |-> t.next_generation]

\* HandleTable::GetGeneric; which thread is the current one is up to the
\* scheduler.  The set is empty for a null pointer.
GetGeneric(t, h) ==
  CASE h = CurrentThread -> Threads
    [] h = CurrentProcess -> {Process}
    [] OTHER -> IF IsValid(t, h) THEN {t.objects[GetSlot(h)]} ELSE {}

-----------------------------------------------------------------------------
\* Supervisor calls.

Answer(call, arg, result, out) ==
  [call |-> call, arg |-> arg, result |-> result, out |-> out]

\* recent after h has been created.
Remember(seq, h) ==
  Append(IF Len(seq) = GenLimit - 1 THEN Tail(seq) ELSE seq, h)

\* HandleTable::Create on behalf of a call.
Create(obj, call, arg) ==
  \/ /\ ~IsFull(table)
     /\ table' = AfterCreate(table, obj)
     /\ reply' = Answer(call, arg, "Success", <<NewHandle(table)>>)
     /\ recent' = Remember(recent, NewHandle(table))
  \/ /\ IsFull(table)
     /\ reply' = Answer(call, arg, "OutOfHandles", <<>>)
     /\ UNCHANGED <<table, recent>>

\* The calls that make an object: CreateMutex, CreateEvent and so on.
CreateObject(obj) == Create(obj, "Create", <<obj>>)

\* CreatePort and CreateSession: two objects, and the handle of the first
\* remains if there is none for the second.
CreatePair(first, second) ==
  LET t == AfterCreate(table, first)
      ask(result, out) == Answer("CreatePair", <<first, second>>, result, out)
  IN \/ /\ ~IsFull(table) /\ ~IsFull(t)
        /\ table' = AfterCreate(t, second)
        /\ reply' = ask("Success", <<NewHandle(table), NewHandle(t)>>)
        /\ recent' = Remember(Remember(recent, NewHandle(table)), NewHandle(t))
     \/ /\ ~IsFull(table) /\ IsFull(t)
        /\ table' = t
        /\ reply' = ask("OutOfHandles", <<>>)
        /\ recent' = Remember(recent, NewHandle(table))
     \/ /\ IsFull(table)
        /\ reply' = ask("OutOfHandles", <<>>)
        /\ UNCHANGED <<table, recent>>

\* DuplicateHandle.
Duplicate(h) ==
  \/ \E obj \in GetGeneric(table, h) : Create(obj, "Duplicate", <<h>>)
  \/ /\ GetGeneric(table, h) = {}
     /\ reply' = Answer("Duplicate", <<h>>, "InvalidHandle", <<>>)
     /\ UNCHANGED <<table, recent>>

\* CloseHandle.
Close(h) ==
  \/ /\ IsValid(table, h)
     /\ table' = AfterClose(table, h)
     /\ reply' = Answer("Close", <<h>>, "Success", <<>>)
     /\ UNCHANGED recent
  \/ /\ ~IsValid(table, h)
     /\ reply' = Answer("Close", <<h>>, "InvalidHandle", <<>>)
     /\ UNCHANGED <<table, recent>>

\* Any other call: it looks its handle up.
Lookup(h) ==
  /\ \/ \E obj \in GetGeneric(table, h) :
          reply' = Answer("Lookup", <<h>>, "Success", <<obj>>)
     \/ /\ GetGeneric(table, h) = {}
        /\ reply' = Answer("Lookup", <<h>>, "InvalidHandle", <<>>)
  /\ UNCHANGED <<table, recent>>

\* The constructor, which clears the table.
Init ==
  /\ table = [objects |-> [i \in Slots |-> NullObject],
              generations |-> [i \in Slots |-> i + 1],
              next_free_slot |-> 0, next_generation |-> 1]
  /\ reply = Answer("None", <<>>, "Success", <<>>)
  /\ recent = <<>>

Next ==
  \/ \E obj \in Objects : CreateObject(obj)
  \/ \E first, second \in Objects : CreatePair(first, second)
  \/ \E h \in Handles : Duplicate(h) \/ Close(h) \/ Lookup(h)

Spec == Init /\ [][Next]_vars

-----------------------------------------------------------------------------
\* Properties.

Free(t) == {i \in Slots : t.objects[i] = NullObject}

\* Every variable has its type; a slot in use has a generation that is not 0.
TypeOK ==
  /\ table.objects \in [Slots -> Objects \cup {NullObject}]
  /\ table.generations \in [Slots -> 0..MAX_COUNT \cup 1..GenLimit - 1]
  /\ table.next_free_slot \in 0..MAX_COUNT
  /\ table.next_generation \in 1..GenLimit - 1
  /\ \A i \in Slots \ Free(table) : table.generations[i] \in 1..GenLimit - 1
  /\ recent \in Seq(Issuable) /\ Len(recent) < GenLimit

\* f is the free list of table t: it begins at next_free_slot, each slot leads
\* to the next one, the last one to the end, and no free slot is missing.
IsFreeList(t, f) ==
  LET at(i) == IF i \in DOMAIN f THEN f[i] ELSE MAX_COUNT IN
    /\ \A i, j \in DOMAIN f : f[i] = f[j] => i = j
    /\ \A s \in Free(t) : \E i \in DOMAIN f : f[i] = s
    /\ t.next_free_slot = at(1)
    /\ \A i \in DOMAIN f : t.generations[f[i]] = at(i + 1)

\* The free list holds exactly the free slots, whatever the order in which
\* handles were closed: Create fails only if every slot is in use, and it
\* never overwrites an object (Create and Close).
FreeListExact ==
  \E f \in [1..Cardinality(Free(table)) -> Free(table)] : IsFreeList(table, f)

\* A handle that was closed is not handed out again before every generation
\* has been used: "To prevent accidental use of a freed Handle whose slot has
\* already been reused" (the counter in Create).
NoEarlyReuse ==
  \A i, j \in DOMAIN recent : recent[i] = recent[j] => i = j

\* The word without the bit that GetSlot drops.
Canonical(h) == Handle(GetSlot(h), h.generation)

ValidHandles(t) == {h \in Issuable : IsValid(t, h)}

\* The pool that a table stands for.
PoolOf(t) == [h \in ValidHandles(t) |-> t.objects[h.slot]]

pool == PoolOf(table)

Pool == INSTANCE HandlePool
          WITH Capacity <- MAX_COUNT,
               Denotes <- [h \in Handles |-> Canonical(h)],
               Own <- [h \in {CurrentThread, CurrentProcess} |->
                         IF h = CurrentThread THEN Threads ELSE {Process}]

\* The table is a pool of MAX_COUNT handles: each call answers what it would
\* answer on the pool, and a handle means its object until it is closed.
ImplementsHandlePool == Pool!Spec
=============================================================================
