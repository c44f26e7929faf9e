------------------------------ MODULE ManagerLock ------------------------------
(***************************************************************************)
(* The lock of the script manager and the VM threads of several host       *)
(* threads (HSL/ScriptManager.cpp, HSL/VMThread.cpp, HSL/API/Context.cpp,  *)
(* HSL/API/Thread.cpp).                                                    *)
(*                                                                         *)
(* A host thread executes scripts on a VM thread of its own.  Operations   *)
(* on the tables of the manager take the lock; the code between two        *)
(* operations does not hold it.  But an operation that calls a native      *)
(* function, a property getter or an import handler does so while it holds *)
(* the lock, and that code may use every operation again.  So a host       *)
(* thread is a stack of activations, and the lock counts how often its     *)
(* owner has taken it.  The tables are left out.                           *)
(***************************************************************************)
EXTENDS Naturals, Sequences, SequencesExt

CONSTANTS
  Threads,      \* the host's threads
  Slots,        \* indices of VM threads (MAX_VM_THREADS of them)
  NULL,
  MaxParents,   \* bound: classes above the class where a lookup starts
  MaxNesting,   \* bound: operations begun in each other by one thread
  Library,      \* HSL_LIBRARY is defined
  Refusals,     \* the host's lock function may give up
  Usage         \* what goes wrong in scripts and hosts, see below

\* "range":      Array.Reverse of a range outside of the array.
\* "no object":  has on a value without properties, super of a class without a parent,
\*               in code that a native function or an import runs.
\* "import":     an import that is not found, in such code, in the library.
\* "new thread": hsl_thread_new outside of hsl_context_lock and hsl_context_unlock.
Usages == {"range", "no object", "import", "new thread"}

ASSUME ConstantsAssumption ==
  /\ Slots \subseteq Nat /\ NULL \notin Threads /\ NULL \notin Slots
  /\ MaxParents \in Nat /\ MaxNesting \in Nat \ {0}
  /\ Library \in BOOLEAN /\ Refusals \in BOOLEAN /\ Usage \subseteq Usages

VARIABLES
  owner,    \* the thread that holds the lock, or NULL
  count,    \* how often it holds it
  acts,     \* the operations each thread is in, the innermost last
  scanned,  \* the VM thread that NewThread has found free
  slot,     \* the VM thread a host thread has got
  Active    \* VMThread::Active

vars == <<owner, count, acts, scanned, slot, Active>>
threads == <<scanned, slot, Active>>

ScriptOps == {"Section", "LookUp", "GetProperty", "CallValue", "CallForObject",
              "InvokeForInstance", "InstantiateClass", "Import", "ImportModule", "Sort"}
Ops == ScriptOps \cup {"Context", "Unpaired"}

\* "in": has the lock; "code": code of somebody else runs under the lock; "after":
\* that code is finished; "twice": the lock is released a second time.
Activation == [op : Ops, at : {"lock", "in", "code", "after", "twice"}, parents : 0 .. MaxParents]

-----------------------------------------------------------------------------
(* The mutex: recursive, and only its owner can release it. *)

Take(t) ==
  /\ owner \in {NULL, t}
  /\ owner' = t
  /\ count' = count + 1

Unlock(t) ==
  IF owner = t
    THEN /\ count' = count - 1
         /\ owner' = IF count = 1 THEN NULL ELSE t
    ELSE UNCHANGED <<owner, count>>

-----------------------------------------------------------------------------
(* Steps of an activation. *)

Top(t) == Last(acts[t])
At(t, point) == acts[t] # <<>> /\ Top(t).at = point
In(t, op) == At(t, "in") /\ Top(t).op = op
After(t, op) == At(t, "after") /\ Top(t).op = op

Move(t, point) == acts' = [acts EXCEPT ![t] = Front(@) \o <<[Top(t) EXCEPT !.at = point]>>]
Pop(t) == acts' = [acts EXCEPT ![t] = Front(@)]
Push(t, op, point, n) ==
  acts' = [acts EXCEPT ![t] = Append(@, [op |-> op, at |-> point, parents |-> n])]

\* The usual end of an operation.
Return(t) == Unlock(t) /\ Pop(t)
ReturnTwice(t) == Unlock(t) /\ Move(t, "twice")

\* The operation releases the lock and goes on as another one, which takes it again.
GoOn(t, op, n) ==
  /\ Unlock(t)
  /\ acts' = [acts EXCEPT ![t] = Front(@) \o <<[op |-> op, at |-> "lock", parents |-> n]>>]

RunCode(t) == Move(t, "code") /\ UNCHANGED <<owner, count>>

-----------------------------------------------------------------------------
(* The lock. *)

\* Lock() returns true.
Acquire(t) == At(t, "lock") /\ Take(t) /\ Move(t, "in") /\ UNCHANGED threads

\* Lock() returns false.  Lookups, calls and imports release it all the same: it is
\* not theirs, so nothing happens.
Refuse(t) ==
  /\ Refusals /\ At(t, "lock") /\ owner \notin {NULL, t}
  /\ Return(t)
  /\ UNCHANGED threads

-----------------------------------------------------------------------------
(* What the operations do with the lock. *)

\* Globals, constants, enumerations, arrays, maps and strings: no other code runs.
Section(t) ==
  /\ In(t, "Section")
  /\ \E releases \in IF "range" \in Usage THEN BOOLEAN ELSE {TRUE} :
       IF releases THEN Unlock(t) ELSE UNCHANGED <<owner, count>>
  /\ Pop(t)

\* The class's tables, then the getter, then the parent.
LookUp(t) ==
  \/ In(t, "LookUp") /\ RunCode(t)
  \/ /\ In(t, "LookUp") \/ After(t, "LookUp")
     /\ \/ Return(t)
        \/ Top(t).parents > 0 /\ GoOn(t, "LookUp", Top(t).parents - 1)

\* The instance's own fields, then the lookup in its class, still under the lock.
GetProperty(t) ==
  \/ /\ In(t, "GetProperty")
     /\ \E n \in 0 .. MaxParents :
          acts' = [acts EXCEPT ![t] = Front(@) \o <<[Top(t) EXCEPT !.at = "after"],
                                        [op |-> "LookUp", at |-> "lock", parents |-> n]>>]
     /\ UNCHANGED <<owner, count>>
  \/ (In(t, "GetProperty") \/ After(t, "GetProperty")) /\ Return(t)

\* A script function only gets its frame here; a native function is called.
CallValue(t) ==
  In(t, "CallValue") /\ (RunCode(t) \/ Return(t))

CallForObject(t) ==
  In(t, "CallForObject") /\ (RunCode(t) \/ GoOn(t, "CallValue", 0))

\* Mutant: a method that does not exist releases the lock twice.
InvokeForInstanceTwice(t) ==
  In(t, "InvokeForInstance") /\ (ReturnTwice(t) \/ GoOn(t, "CallForObject", 0))

InvokeForInstance(t) ==
  In(t, "InvokeForInstance") /\ (Return(t) \/ GoOn(t, "CallForObject", 0))

\* Mutant: an instance that cannot be made keeps the lock.
InstantiateClassKeeps(t) ==
  \/ In(t, "InstantiateClass") /\ RunCode(t)
  \/ /\ In(t, "InstantiateClass") \/ After(t, "InstantiateClass")
     /\ (Pop(t) /\ UNCHANGED <<owner, count>>) \/ Return(t) \/ GoOn(t, "CallForObject", 0)

\* The class's NewFn, then the initializer.
InstantiateClass(t) ==
  \/ In(t, "InstantiateClass") /\ RunCode(t)
  \/ /\ In(t, "InstantiateClass") \/ After(t, "InstantiateClass")
     /\ Return(t) \/ GoOn(t, "CallForObject", 0)

\* A class that exists, or else the script of that name; in the library an error.
Import(t) ==
  /\ In(t, "Import")
  /\ \/ RunCode(t)
     \/ Return(t)
     \/ IF Library
          THEN ("import" \in Usage \/ Len(acts[t]) = 1) /\ ReturnTwice(t)
          ELSE GoOn(t, "ImportModule", 0)

\* The script is loaded and executed under the lock.
ImportModule(t) ==
  In(t, "ImportModule") /\ (RunCode(t) \/ Return(t))

\* Array.Sort calls the comparison function under the lock.
Sort(t) ==
  In(t, "Sort") /\ (RunCode(t) \/ Return(t))

\* hsl_context_lock, the host's code, hsl_context_unlock.
Context(t) ==
  In(t, "Context") /\ RunCode(t)

\* The lock is released by operations that never took it, or a second time.
UnlockAgain(t) == At(t, "twice") /\ Return(t)

Operation(t) ==
  /\ \/ Section(t) \/ LookUp(t) \/ GetProperty(t) \/ CallValue(t) \/ CallForObject(t)
     \/ InvokeForInstance(t) \/ InstantiateClass(t) \/ Import(t) \/ ImportModule(t)
     \/ Sort(t) \/ Context(t) \/ UnlockAgain(t)
  /\ UNCHANGED threads

-----------------------------------------------------------------------------
(* Code that uses the operations: a script between two instructions, a native *)
(* function, a handler, the host.                                             *)

RunsCode(t) == (acts[t] = <<>> \/ At(t, "code")) /\ scanned[t] = NULL

\* No script runs on the thread, only the host's own code.
HostCode(t) == RunsCode(t) /\ \A i \in 1 .. Len(acts[t]) : acts[t][i].op = "Context"

Begin(t) ==
  /\ RunsCode(t) /\ Len(acts[t]) < MaxNesting
  /\ \/ \E op \in ScriptOps, n \in 0 .. MaxParents :
          slot[t] # NULL /\ (op # "LookUp" => n = 0) /\ Push(t, op, "lock", n)
     \/ Library /\ Push(t, "Context", "lock", 0)
     \/ /\ slot[t] # NULL
        /\ "no object" \in Usage \/ acts[t] = <<>>
        /\ Push(t, "Unpaired", "twice", 0)
  /\ UNCHANGED <<owner, count, threads>>

\* The native function, handler or script returns, and the operation that called it,
\* unless it has something left to do.
CodeEnds(t, depth) ==
  /\ At(t, "code") /\ RunsCode(t) /\ Len(acts[t]) = depth
  /\ IF Top(t).op \in {"LookUp", "InstantiateClass"}
       THEN Move(t, "after") /\ UNCHANGED <<owner, count>>
       ELSE Return(t)
  /\ UNCHANGED threads

\* Mutant: the caller need not have locked the context.
NewThreadUnlocked(t) ==
  /\ HostCode(t) /\ slot[t] = NULL
  /\ \E s \in Slots : /\ ~Active[s]
                      /\ \A r \in Slots : r < s => Active[r]
                      /\ scanned' = [scanned EXCEPT ![t] = s]
  /\ UNCHANGED <<owner, count, acts, slot, Active>>

\* NewThread takes no lock.  Between finding a VM thread and marking it the other
\* threads go on.
NewThread(t) ==
  /\ HostCode(t) /\ slot[t] = NULL
  /\ "new thread" \in Usage \/ acts[t] # <<>>
  /\ \E s \in Slots : /\ ~Active[s]
                      /\ \A r \in Slots : r < s => Active[r]
                      /\ scanned' = [scanned EXCEPT ![t] = s]
  /\ UNCHANGED <<owner, count, acts, slot, Active>>

InitThread(t) ==
  /\ scanned[t] # NULL
  /\ Active' = [Active EXCEPT ![scanned[t]] = TRUE]
  /\ slot' = [slot EXCEPT ![t] = scanned[t]]
  /\ scanned' = [scanned EXCEPT ![t] = NULL]
  /\ UNCHANGED <<owner, count, acts>>

DisposeThread(t) ==
  /\ HostCode(t) /\ slot[t] # NULL
  /\ Active' = [Active EXCEPT ![slot[t]] = FALSE]
  /\ slot' = [slot EXCEPT ![t] = NULL]
  /\ UNCHANGED <<owner, count, acts, scanned>>

-----------------------------------------------------------------------------
Init ==
  /\ owner = NULL /\ count = 0
  /\ acts = [t \in Threads |-> <<>>]
  /\ scanned = [t \in Threads |-> NULL] /\ slot = [t \in Threads |-> NULL]
  /\ Active = [s \in Slots |-> FALSE]

Step(t) ==
  \/ Acquire(t) \/ Refuse(t) \/ Operation(t) \/ Begin(t)
  \/ (\E depth \in 1 .. MaxNesting + 1 : CodeEnds(t, depth))
  \/ NewThread(t) \/ InitThread(t) \/ DisposeThread(t)

Next == \E t \in Threads : Step(t)

Spec == Init /\ [][Next]_vars

\* The mutex is fair, operations go on, and native functions, handlers, imported
\* scripts and the host between hsl_context_lock and hsl_context_unlock come to an end.
Fairness ==
  \A t \in Threads :
    /\ SF_vars(Acquire(t))
    /\ WF_vars(Operation(t))
    /\ WF_vars(InitThread(t))
    /\ \A depth \in 1 .. MaxNesting + 1 : SF_vars(CodeEnds(t, depth))

FairSpec == Spec /\ Fairness

-----------------------------------------------------------------------------
(* Properties. *)

Held(a) == a.at \in {"in", "code", "after"}
Inside(t) == \E i \in 1 .. Len(acts[t]) : Held(acts[t][i])

\* Two threads are never both between a Lock() that returned true and its Unlock(),
\* whatever operations are nested in each other.
Exclusive == \A t, u \in Threads : Inside(t) /\ Inside(u) => t = u

\* A thread that waits for the lock gets it or is refused: every path of every
\* operation releases what it has taken.
NobodyWaitsForever == \A t \in Threads : At(t, "lock") ~> ~At(t, "lock")

\* No VM thread serves two host threads.
OwnThread ==
  \A t, u \in Threads : slot[t] # NULL /\ slot[t] = slot[u] => t = u

=============================================================================
