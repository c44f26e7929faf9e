--------------------------- MODULE ManagerLockProofs ---------------------------
(***************************************************************************)
(* The lock excludes, and no two host threads get the same VM thread: for  *)
(* any number of threads, of VM threads and of operations nested in each   *)
(* other, provided no operation releases what it did not take and hosts    *)
(* make VM threads with the context locked.                                *)
(***************************************************************************)
EXTENDS ManagerLock, SequenceTheorems, TLAPS

Paired == Usage \cap {"no object", "import", "range"} = {}

-----------------------------------------------------------------------------
(* The stack of one thread.  Everything below the innermost activation holds  *)
(* the lock once; the innermost one does when it is past Lock().              *)

StackOK(s) ==
  /\ s \in Seq(Activation)
  /\ \A i \in 1 .. Len(s) - 1 : Held(s[i])
  /\ s # <<>> /\ Last(s).at = "twice" => Len(s) = 1

HeldIn(s) == IF s = <<>> THEN 0 ELSE IF Held(Last(s)) THEN Len(s) ELSE Len(s) - 1

LEMMA PrefixLen ==
  ASSUME NEW S, NEW s \in Seq(S), NEW n \in Nat, n <= Len(s)
  PROVE  Len(SubSeq(s, 1, n)) = n
<1> DEFINE m == Len(SubSeq(s, 1, n))
<1>1. \A i \in 1 .. n : s[i] \in S
  BY LenProperties
<1>2. Len(SubSeq(s, 1, n)) = IF 1 <= n THEN n - 1 + 1 ELSE 0
  BY <1>1, SubSeqProperties
<1>3. m = IF 1 <= n THEN n - 1 + 1 ELSE 0
  BY <1>2, Zenon
<1> HIDE DEF m
<1>4. m = n
  BY <1>3
<1> QED BY <1>4, Zenon DEF m

LEMMA FrontLast ==
  ASSUME NEW s \in Seq(Activation), s # <<>>
  PROVE  /\ Front(s) \in Seq(Activation) /\ Len(Front(s)) = Len(s) - 1
         /\ \A i \in 1 .. Len(s) - 1 : Front(s)[i] = s[i]
         /\ Len(s) \in Nat \ {0} /\ Last(s) = s[Len(s)] /\ Last(s) \in Activation
<1>1. Len(s) \in Nat \ {0} /\ Len(s) - 1 \in Nat /\ Len(s) - 1 <= Len(s)
  BY EmptySeq
<1>2. Len(SubSeq(s, 1, Len(s) - 1)) = Len(s) - 1
  BY <1>1, PrefixLen, Zenon
<1>3. Len(Front(s)) = Len(s) - 1
  BY <1>2, Zenon DEF Front
<1>4. Front(s) \in Seq(Activation) /\ \A i \in 1 .. Len(s) - 1 : Front(s)[i] = s[i]
  BY DEF Front
<1>5. Last(s) = s[Len(s)] /\ Last(s) \in Activation
  BY <1>1 DEF Last
<1> QED BY <1>1, <1>3, <1>4, <1>5

LEMMA LastOf ==
  ASSUME NEW s \in Seq(Activation), s # <<>>, NEW r \in Seq(Activation), NEW a,
         Len(r) = Len(s), r[Len(s)] = a
  PROVE  r # <<>> /\ Last(r) = a
<1>1. Len(r) \in Nat \ {0}
  BY EmptySeq
<1> QED BY <1>1 DEF Last

\* The innermost activation changes.
LEMMA ReplaceTop ==
  ASSUME NEW s, StackOK(s), s # <<>>, NEW a \in Activation, a.at = "twice" => Len(s) = 1
  PROVE  /\ StackOK(Front(s) \o <<a>>)
         /\ HeldIn(Front(s) \o <<a>>) = IF Held(a) THEN Len(s) ELSE Len(s) - 1
<1> DEFINE r == Front(s) \o <<a>>
<1>1. s \in Seq(Activation)
  BY DEF StackOK
<1>2. /\ Front(s) \in Seq(Activation) /\ Len(Front(s)) = Len(s) - 1
      /\ \A i \in 1 .. Len(s) - 1 : Front(s)[i] = s[i]
      /\ Len(s) \in Nat \ {0}
  BY <1>1, FrontLast
<1>3. /\ r \in Seq(Activation) /\ Len(r) = Len(s) /\ r[Len(s)] = a
      /\ \A i \in 1 .. Len(s) - 1 : r[i] = s[i]
  BY <1>2
<1>4. r # <<>> /\ Last(r) = a
  BY <1>1, <1>3, LastOf
<1> HIDE DEF r
<1>5. StackOK(r)
  BY <1>2, <1>3, <1>4 DEF StackOK
<1>6. HeldIn(r) = IF Held(a) THEN Len(s) ELSE Len(s) - 1
  BY <1>3, <1>4 DEF HeldIn
<1> QED BY <1>5, <1>6 DEF r

\* The innermost activation ends.
LEMMA PopTop ==
  ASSUME NEW s, StackOK(s), s # <<>>
  PROVE  StackOK(Front(s)) /\ HeldIn(Front(s)) = Len(s) - 1
<1>1. s \in Seq(Activation)
  BY DEF StackOK
<1>2. /\ Front(s) \in Seq(Activation) /\ Len(Front(s)) = Len(s) - 1
      /\ \A i \in 1 .. Len(s) - 1 : Front(s)[i] = s[i]
      /\ Len(s) \in Nat \ {0}
  BY <1>1, FrontLast
<1>3. CASE Len(s) = 1
  <2>1. Front(s) = <<>>
    BY <1>2, <1>3, EmptySeq
  <2> QED BY <1>2, <1>3, <2>1 DEF StackOK, HeldIn
<1>4. CASE Len(s) # 1
  <2>1. Front(s) # <<>>
    BY <1>2, <1>4, EmptySeq
  <2>2. Last(Front(s)) = s[Len(s) - 1] /\ Held(s[Len(s) - 1])
    BY <1>2, <1>4 DEF Last, StackOK
  <2>3. \A i \in 1 .. Len(Front(s)) - 1 : Held(Front(s)[i])
    BY <1>2, <1>4 DEF StackOK
  <2> QED BY <1>2, <2>1, <2>2, <2>3 DEF StackOK, HeldIn, Held
<1> QED BY <1>3, <1>4

\* An operation begins.
LEMMA PushTop ==
  ASSUME NEW s, StackOK(s), s = <<>> \/ Held(Last(s)),
         NEW a \in Activation, ~ Held(a), a.at = "twice" => s = <<>>
  PROVE  StackOK(Append(s, a)) /\ HeldIn(Append(s, a)) = HeldIn(s)
<1> DEFINE r == Append(s, a)
<1>1. /\ s \in Seq(Activation) /\ r \in Seq(Activation)
      /\ Len(s) \in Nat /\ Len(r) = Len(s) + 1 /\ r[Len(s) + 1] = a
      /\ \A i \in 1 .. Len(s) : r[i] = s[i]
  BY DEF StackOK
<1>2. r # <<>> /\ Last(r) = a
  BY <1>1, EmptySeq DEF Last
<1>3. s = <<>> <=> Len(s) = 0
  BY <1>1, EmptySeq
<1>4. \A i \in 1 .. Len(s) : Held(s[i])
  BY <1>1, <1>3 DEF StackOK, Last
<1> HIDE DEF r
<1>5. StackOK(r)
  BY <1>1, <1>2, <1>3, <1>4 DEF StackOK
<1>6. HeldIn(r) = HeldIn(s)
  BY <1>1, <1>2, <1>3 DEF HeldIn
<1> QED BY <1>5, <1>6 DEF r

\* GetProperty goes on in a lookup.
LEMMA NestTop ==
  ASSUME NEW s, StackOK(s), s # <<>>, Held(Last(s)),
         NEW a \in Activation, Held(a), NEW b \in Activation, b.at = "lock"
  PROVE  /\ StackOK(Front(s) \o <<a, b>>)
         /\ HeldIn(Front(s) \o <<a, b>>) = HeldIn(s)
<1>1. s \in Seq(Activation)
  BY DEF StackOK
<1> DEFINE r == Front(s) \o <<a>>
<1>2. StackOK(r) /\ HeldIn(r) = Len(s)
  BY ReplaceTop DEF Held
<1>3. /\ Front(s) \in Seq(Activation) /\ Len(Front(s)) = Len(s) - 1 /\ Len(s) \in Nat \ {0}
  BY <1>1, FrontLast
<1>4. r \in Seq(Activation) /\ Len(r) = Len(s) /\ r[Len(s)] = a
  BY <1>3
<1>5. r # <<>> /\ Last(r) = a
  BY <1>1, <1>4, LastOf
<1>6. Front(s) \o <<a, b>> = Append(r, b)
  BY <1>3
<1> HIDE DEF r
<1>7. StackOK(Append(r, b)) /\ HeldIn(Append(r, b)) = HeldIn(r)
  BY <1>2, <1>5, PushTop DEF Held
<1>8. HeldIn(s) = Len(s)
  BY DEF HeldIn
<1> QED BY <1>2, <1>6, <1>7, <1>8

-----------------------------------------------------------------------------
(* The owner holds the lock as often as its activations do, nobody else does. *)

LockInv ==
  /\ owner \in Threads \cup {NULL} /\ count \in Nat
  /\ acts \in [Threads -> Seq(Activation)]
  /\ owner = NULL => count = 0
  /\ \A t \in Threads :
       /\ StackOK(acts[t])
       /\ HeldIn(acts[t]) = IF owner = t THEN count ELSE 0
       /\ owner = t => count > 0

LEMMA InsideHolds ==
  ASSUME LockInv, NEW t \in Threads
  PROVE  Inside(t) => owner = t
<1> SUFFICES ASSUME Inside(t) PROVE HeldIn(acts[t]) # 0
  BY DEF LockInv
<1>1. acts[t] \in Seq(Activation) /\ acts[t] # <<>> /\ Len(acts[t]) \in Nat \ {0}
  BY EmptySeq DEF LockInv, Inside
<1>2. Last(acts[t]) = acts[t][Len(acts[t])]
  BY <1>1 DEF Last
<1>3. PICK i \in 1 .. Len(acts[t]) : Held(acts[t][i])
  BY DEF Inside
<1>4. CASE i = Len(acts[t])
  BY <1>1, <1>2, <1>3, <1>4 DEF HeldIn
<1>5. CASE i < Len(acts[t])
  <2>1. HeldIn(acts[t]) >= Len(acts[t]) - 1
    BY <1>1 DEF HeldIn
  <2> QED BY <1>1, <1>5, <2>1
<1> QED BY <1>1, <1>4, <1>5

LEMMA LockInvExclusive == LockInv => Exclusive
<1> SUFFICES ASSUME LockInv, NEW t \in Threads, NEW u \in Threads, Inside(t), Inside(u)
             PROVE  t = u
  BY DEF Exclusive
<1> QED BY InsideHolds

\* What a step of thread t may do to the lock, given what it does to t's stack.
LEMMA Effect ==
  ASSUME LockInv, NEW t \in Threads, NEW s, StackOK(s),
         acts' = [acts EXCEPT ![t] = s],
         \/ UNCHANGED <<owner, count>> /\ HeldIn(s) = HeldIn(acts[t])
         \/ Take(t) /\ HeldIn(s) = HeldIn(acts[t]) + 1
         \/ /\ Unlock(t)
            /\ HeldIn(s) = IF HeldIn(acts[t]) = 0 THEN 0 ELSE HeldIn(acts[t]) - 1
  PROVE  LockInv'
<1> USE ConstantsAssumption
<1>1. s \in Seq(Activation)
  BY DEF StackOK
<1>2. acts' \in [Threads -> Seq(Activation)]
  BY <1>1 DEF LockInv
<1>3. acts'[t] = s /\ \A u \in Threads : u # t => acts'[u] = acts[u]
  BY DEF LockInv
<1>4. HeldIn(acts[t]) = IF owner = t THEN count ELSE 0
  BY DEF LockInv
<1>5. CASE UNCHANGED <<owner, count>> /\ HeldIn(s) = HeldIn(acts[t])
  BY <1>2, <1>3, <1>4, <1>5 DEF LockInv
<1>6. CASE Take(t) /\ HeldIn(s) = HeldIn(acts[t]) + 1
  <2>1. owner' = t /\ count' = count + 1 /\ count' \in Nat /\ count' > 0
    BY <1>6 DEF Take, LockInv
  <2>2. HeldIn(s) = count'
    BY <1>4, <1>6, <2>1 DEF Take, LockInv
  <2>3. \A u \in Threads : u # t => HeldIn(acts[u]) = 0
    BY <1>6 DEF Take, LockInv
  <2> QED BY <1>2, <1>3, <2>1, <2>2, <2>3 DEF LockInv
<1>7. CASE /\ Unlock(t)
           /\ HeldIn(s) = IF HeldIn(acts[t]) = 0 THEN 0 ELSE HeldIn(acts[t]) - 1
  <2>1. CASE owner = t
    <3>1. /\ count' = count - 1 /\ count' \in Nat /\ owner' = IF count = 1 THEN NULL ELSE t
          /\ count > 0 /\ count \in Nat /\ t # NULL
      BY <1>7, <2>1 DEF Unlock, LockInv
    <3>2. HeldIn(s) = count' /\ (owner' = NULL => count' = 0) /\ (owner' = t => count' > 0)
      BY <1>4, <1>7, <2>1, <3>1
    <3>3. \A u \in Threads : u # t => HeldIn(acts[u]) = 0 /\ owner' # u
      BY <2>1, <3>1 DEF LockInv
    <3>4. owner' # t => HeldIn(s) = 0
      BY <3>1, <3>2
    <3> QED BY <1>2, <1>3, <3>1, <3>2, <3>3, <3>4 DEF LockInv
  <2>2. CASE owner # t
    BY <1>2, <1>3, <1>4, <1>7, <2>2 DEF Unlock, LockInv
  <2> QED BY <2>1, <2>2
<1> QED BY <1>5, <1>6, <1>7

-----------------------------------------------------------------------------
(* The steps. *)

\* The steps of an activation keep the invariant.
LEMMA Steps ==
  ASSUME LockInv, NEW t \in Threads, acts[t] # <<>>
  PROVE  /\ Top(t) \in Activation /\ Top(t) = Last(acts[t])
         /\ Held(Top(t)) /\ Return(t) => LockInv'
         /\ ~ Held(Top(t)) /\ Len(acts[t]) = 1 /\ Return(t) => LockInv'
         /\ Held(Top(t)) /\ RunCode(t) => LockInv'
         /\ \A op \in Ops, n \in 0 .. MaxParents : Held(Top(t)) /\ GoOn(t, op, n) => LockInv'
         /\ Held(Top(t)) /\ Len(acts[t]) = 1 /\ ReturnTwice(t) => LockInv'
         /\ Held(Top(t)) /\ Move(t, "after") /\ UNCHANGED <<owner, count>> => LockInv'
         /\ At(t, "lock") /\ Take(t) /\ Move(t, "in") => LockInv'
<1> DEFINE s == acts[t]
<1>1. StackOK(s) /\ s \in Seq(Activation)
  BY DEF LockInv
<1>2. Len(s) \in Nat \ {0} /\ Top(t) \in Activation /\ Top(t) = Last(s)
  BY <1>1, FrontLast DEF Top
<1>3. HeldIn(s) = IF Held(Top(t)) THEN Len(s) ELSE Len(s) - 1
  BY <1>2 DEF HeldIn
<1>4. StackOK(Front(s)) /\ HeldIn(Front(s)) = Len(s) - 1
  BY <1>1, PopTop
<1>5. ASSUME NEW a \in Activation, a.at = "twice" => Len(s) = 1
      PROVE  /\ StackOK(Front(s) \o <<a>>)
             /\ HeldIn(Front(s) \o <<a>>) = IF Held(a) THEN Len(s) ELSE Len(s) - 1
  BY <1>1, <1>5, ReplaceTop
<1>6. \A p \in {"in", "code", "after", "twice"} : [Top(t) EXCEPT !.at = p] \in Activation
  BY <1>2 DEF Activation
<1>7. Held(Top(t)) /\ Return(t) => LockInv'
  <2> SUFFICES ASSUME Held(Top(t)), Return(t) PROVE LockInv'
    OBVIOUS
  <2>1. acts' = [acts EXCEPT ![t] = Front(s)] /\ Unlock(t)
    BY DEF Return, Pop
  <2>2. HeldIn(Front(s)) = IF HeldIn(s) = 0 THEN 0 ELSE HeldIn(s) - 1
    BY <1>2, <1>3, <1>4
  <2> QED BY <1>4, <2>1, <2>2, Effect
<1>8. ~ Held(Top(t)) /\ Len(s) = 1 /\ Return(t) => LockInv'
  <2> SUFFICES ASSUME ~ Held(Top(t)), Len(s) = 1, Return(t) PROVE LockInv'
    OBVIOUS
  <2>1. acts' = [acts EXCEPT ![t] = Front(s)] /\ Unlock(t)
    BY DEF Return, Pop
  <2>2. HeldIn(Front(s)) = IF HeldIn(s) = 0 THEN 0 ELSE HeldIn(s) - 1
    BY <1>2, <1>3, <1>4
  <2> QED BY <1>4, <2>1, <2>2, Effect
<1>9. Held(Top(t)) /\ RunCode(t) => LockInv'
  <2> DEFINE a == [Top(t) EXCEPT !.at = "code"]
  <2>1. a \in Activation /\ a.at = "code" /\ Held(a)
    BY <1>2 DEF Activation, Held
  <2>2. RunCode(t) => acts' = [acts EXCEPT ![t] = Front(s) \o <<a>>] /\ UNCHANGED <<owner, count>>
    BY DEF RunCode, Move
  <2> HIDE DEF a
  <2> QED BY <1>3, <1>5, <2>1, <2>2, Effect
<1>10. ASSUME NEW op \in Ops, NEW n \in 0 .. MaxParents, Held(Top(t)), GoOn(t, op, n)
       PROVE  LockInv'
  <2> DEFINE a == [op |-> op, at |-> "lock", parents |-> n]
  <2>1. a \in Activation /\ a.at = "lock" /\ ~ Held(a)
    BY DEF Activation, Held
  <2>2. acts' = [acts EXCEPT ![t] = Front(s) \o <<a>>] /\ Unlock(t)
    BY <1>10 DEF GoOn
  <2> HIDE DEF a
  <2> QED BY <1>2, <1>3, <1>5, <1>10, <2>1, <2>2, Effect
<1>11. ASSUME Held(Top(t)), Len(s) = 1, ReturnTwice(t)
       PROVE  LockInv'
  <2> DEFINE a == [Top(t) EXCEPT !.at = "twice"]
  <2>1. a \in Activation /\ a.at = "twice" /\ ~ Held(a)
    BY <1>2 DEF Activation, Held
  <2>2. acts' = [acts EXCEPT ![t] = Front(s) \o <<a>>] /\ Unlock(t)
    BY <1>11 DEF ReturnTwice, Move
  <2> HIDE DEF a
  <2> QED BY <1>2, <1>3, <1>5, <1>11, <2>1, <2>2, Effect
<1>12. ASSUME Held(Top(t)), Move(t, "after"), UNCHANGED <<owner, count>>
       PROVE  LockInv'
  <2> DEFINE a == [Top(t) EXCEPT !.at = "after"]
  <2>1. a \in Activation /\ a.at = "after" /\ Held(a)
    BY <1>2 DEF Activation, Held
  <2>2. acts' = [acts EXCEPT ![t] = Front(s) \o <<a>>]
    BY <1>12 DEF Move
  <2> HIDE DEF a
  <2> QED BY <1>3, <1>5, <1>12, <2>1, <2>2, Effect
<1>13. ASSUME At(t, "lock"), Take(t), Move(t, "in")
       PROVE  LockInv'
  <2> DEFINE a == [Top(t) EXCEPT !.at = "in"]
  <2>1. a \in Activation /\ a.at = "in" /\ Held(a) /\ ~ Held(Top(t))
    BY <1>2, <1>13 DEF Activation, Held, At
  <2>2. acts' = [acts EXCEPT ![t] = Front(s) \o <<a>>]
    BY <1>13 DEF Move
  <2> HIDE DEF a
  <2>3. StackOK(Front(s) \o <<a>>) /\ HeldIn(Front(s) \o <<a>>) = HeldIn(s) + 1
    BY <1>2, <1>3, <1>5, <2>1
  <2> QED BY <1>13, <2>2, <2>3, Effect
<1> QED BY <1>2, <1>7, <1>8, <1>9, <1>10, <1>11, <1>12, <1>13

LEMMA PropertyStep ==
  ASSUME LockInv, NEW t \in Threads, GetProperty(t)
  PROVE  LockInv'
<1>1. acts[t] # <<>> /\ Held(Top(t))
  BY DEF GetProperty, In, After, At, Held
<1>2. CASE Return(t)
  BY <1>1, <1>2, Steps
<1>3. CASE ~ Return(t)
  <2>1. PICK n \in 0 .. MaxParents :
          acts' = [acts EXCEPT ![t] = Front(@) \o <<[Top(t) EXCEPT !.at = "after"],
                                        [op |-> "LookUp", at |-> "lock", parents |-> n]>>]
    BY <1>3 DEF GetProperty
  <2> DEFINE a == [Top(t) EXCEPT !.at = "after"]
             b == [op |-> "LookUp", at |-> "lock", parents |-> n]
  <2>2. Top(t) \in Activation /\ Top(t) = Last(acts[t])
    BY <1>1, Steps
  <2>3. a \in Activation /\ Held(a) /\ b \in Activation /\ b.at = "lock"
    BY <2>2 DEF Activation, Held, Ops, ScriptOps
  <2>4. acts' = [acts EXCEPT ![t] = Front(acts[t]) \o <<a, b>>]
    BY <2>1
  <2> HIDE DEF a, b
  <2>5. StackOK(acts[t])
    BY DEF LockInv
  <2>6. /\ StackOK(Front(acts[t]) \o <<a, b>>)
        /\ HeldIn(Front(acts[t]) \o <<a, b>>) = HeldIn(acts[t])
    BY <1>1, <2>2, <2>3, <2>5, NestTop
  <2>7. UNCHANGED <<owner, count>>
    BY <1>3 DEF GetProperty
  <2> QED BY <2>4, <2>6, <2>7, Effect
<1> QED BY <1>2, <1>3

LEMMA BeginStep ==
  ASSUME Paired, LockInv, NEW t \in Threads, Begin(t)
  PROVE  LockInv'
<1>1. PICK op \in Ops, point \in {"lock", "twice"}, n \in 0 .. MaxParents :
        Push(t, op, point, n) /\ (point = "twice" => acts[t] = <<>>)
  <2>1. 0 \in 0 .. MaxParents
    BY ConstantsAssumption
  <2> QED BY <2>1 DEF Begin, Paired, Ops
<1> DEFINE a == [op |-> op, at |-> point, parents |-> n]
<1>2. a \in Activation /\ ~ Held(a) /\ (a.at = "twice" => acts[t] = <<>>)
  BY <1>1 DEF Activation, Held
<1>3. acts' = [acts EXCEPT ![t] = Append(acts[t], a)]
  BY <1>1 DEF Push
<1> HIDE DEF a
<1>4. StackOK(acts[t]) /\ (acts[t] = <<>> \/ Held(Last(acts[t])))
  BY DEF LockInv, Begin, RunsCode, At, Top, Held
<1>5. StackOK(Append(acts[t], a)) /\ HeldIn(Append(acts[t], a)) = HeldIn(acts[t])
  BY <1>2, <1>4, PushTop
<1> QED BY <1>3, <1>5, Effect DEF Begin

LEMMA OperationStep ==
  ASSUME Paired, LockInv, NEW t \in Threads, Operation(t)
  PROVE  LockInv'
<1> USE Steps
<1>1. CASE Section(t)
  <2>1. Return(t) /\ acts[t] # <<>> /\ Held(Top(t))
    BY <1>1 DEF Section, Paired, Return, In, At, Held
  <2> QED BY <2>1
<1>2. CASE LookUp(t)
  <2>1. acts[t] # <<>> /\ Held(Top(t))
    BY <1>2 DEF LookUp, In, After, At, Held
  <2>2. CASE Return(t) \/ RunCode(t)
    BY <2>1, <2>2
  <2>3. CASE Top(t).parents > 0 /\ GoOn(t, "LookUp", Top(t).parents - 1)
    <3>1. Top(t).parents - 1 \in 0 .. MaxParents /\ "LookUp" \in Ops
      BY <2>1, <2>3, ConstantsAssumption DEF Activation, Ops, ScriptOps
    <3> QED BY <2>1, <2>3, <3>1
  <2> QED BY <1>2, <2>2, <2>3 DEF LookUp
<1>3. CASE GetProperty(t)
  BY <1>3, PropertyStep
<1> DEFINE Plain == Held(Top(t)) /\ (Return(t) \/ RunCode(t) \/ \E op \in Ops : GoOn(t, op, 0))
<1>4. ASSUME acts[t] # <<>>, Plain PROVE LockInv'
  <2>1. 0 \in 0 .. MaxParents
    BY ConstantsAssumption
  <2> QED BY <1>4, <2>1
<1>5. CASE CallValue(t)
  BY <1>4, <1>5 DEF CallValue, In, At, Held
<1>6. CASE CallForObject(t)
  BY <1>4, <1>6 DEF CallForObject, In, At, Held, Ops, ScriptOps
<1>7. CASE InvokeForInstance(t)
  BY <1>4, <1>7 DEF InvokeForInstance, In, At, Held, Ops, ScriptOps
<1>8. CASE InstantiateClass(t)
  BY <1>4, <1>8 DEF InstantiateClass, In, After, At, Held, Ops, ScriptOps
<1>9. CASE Import(t)
  <2>1. acts[t] # <<>> /\ Held(Top(t))
    BY <1>9 DEF Import, In, At, Held
  <2>2. CASE Len(acts[t]) = 1 /\ ReturnTwice(t)
    BY <2>1, <2>2
  <2>3. CASE ~ (Len(acts[t]) = 1 /\ ReturnTwice(t))
    BY <1>4, <1>9, <2>1, <2>3 DEF Import, Paired, Ops, ScriptOps
  <2> QED BY <2>2, <2>3
<1>10. CASE ImportModule(t)
  BY <1>4, <1>10 DEF ImportModule, In, At, Held
<1>11. CASE Sort(t)
  BY <1>4, <1>11 DEF Sort, In, At, Held
<1>12. CASE Context(t)
  BY <1>4, <1>12 DEF Context, In, At, Held
<1>13. CASE UnlockAgain(t)
  <2>1. acts[t] # <<>> /\ Top(t).at = "twice" /\ Return(t) /\ ~ Held(Top(t))
    BY <1>13 DEF UnlockAgain, At, Held
  <2>2. Len(acts[t]) = 1
    BY <2>1 DEF LockInv, StackOK, Top
  <2> QED BY <2>1, <2>2
<1> QED BY <1>1, <1>2, <1>3, <1>5, <1>6, <1>7, <1>8, <1>9, <1>10, <1>11, <1>12, <1>13
        DEF Operation

LEMMA LockStep ==
  ASSUME Paired, LockInv, [Next]_vars
  PROVE  LockInv'
<1>1. CASE UNCHANGED vars
  BY <1>1 DEF vars, LockInv
<1>2. ASSUME NEW t \in Threads, Step(t) PROVE LockInv'
  <2>1. CASE Acquire(t)
    BY <2>1, Steps DEF Acquire, At
  <2>2. CASE Refuse(t)
    <3>1. acts[t] # <<>> /\ ~ Held(Top(t)) /\ owner # t /\ Return(t)
      BY <2>2 DEF Refuse, At, Held
    <3>2. Len(acts[t]) = 1
      <4>1. Len(acts[t]) \in Nat /\ HeldIn(acts[t]) = 0
        BY <3>1 DEF LockInv
      <4>2. Len(acts[t]) - 1 = 0
        BY <3>1, <4>1 DEF HeldIn, Top
      <4> QED BY <4>1, <4>2
    <3> QED BY <3>1, <3>2, Steps
  <2>3. CASE Operation(t)
    BY <2>3, OperationStep
  <2>4. CASE Begin(t)
    BY <2>4, BeginStep
  <2>5. ASSUME NEW depth \in 1 .. MaxNesting + 1, CodeEnds(t, depth) PROVE LockInv'
    BY <2>5, Steps DEF CodeEnds, At, Held
  <2>6. CASE NewThread(t) \/ InitThread(t) \/ DisposeThread(t)
    BY <2>6 DEF NewThread, InitThread, DisposeThread, LockInv
  <2> QED BY <1>2, <2>1, <2>2, <2>3, <2>4, <2>5, <2>6 DEF Step
<1> QED BY <1>1, <1>2 DEF Next

LEMMA LockInit == Init => LockInv
<1> SUFFICES ASSUME Init PROVE LockInv
  OBVIOUS
<1>1. StackOK(<<>>) /\ HeldIn(<<>>) = 0
  BY DEF StackOK, HeldIn
<1> QED BY <1>1, ConstantsAssumption DEF Init, LockInv

\* The lock excludes, whatever operations are nested in each other.
THEOREM LockExcludes ==
  ASSUME Paired PROVE Spec => []Exclusive
<1>1. Init => LockInv
  BY LockInit
<1>2. LockInv /\ [Next]_vars => LockInv'
  BY LockStep
<1>3. LockInv => Exclusive
  BY LockInvExclusive
<1> QED BY <1>1, <1>2, <1>3, PTL DEF Spec

-----------------------------------------------------------------------------
(* VM threads.  The host holds the lock between NewThread's finding a VM      *)
(* thread and marking it, so nobody else finds the same one.                  *)

SlotInv ==
  /\ scanned \in [Threads -> Slots \cup {NULL}] /\ slot \in [Threads -> Slots \cup {NULL}]
  /\ Active \in [Slots -> BOOLEAN]
  /\ \A t \in Threads : slot[t] # NULL => Active[slot[t]]
  /\ \A t \in Threads :
       scanned[t] # NULL => slot[t] = NULL /\ ~ Active[scanned[t]] /\ At(t, "code")
  /\ OwnThread

LEMMA CodeInside ==
  ASSUME LockInv, NEW t \in Threads, At(t, "code")
  PROVE  Inside(t)
<1>1. acts[t] \in Seq(Activation) /\ acts[t] # <<>>
  BY DEF LockInv, At
<1>2. Len(acts[t]) \in 1 .. Len(acts[t]) /\ Last(acts[t]) = acts[t][Len(acts[t])]
  BY <1>1, EmptySeq DEF Last
<1> QED BY <1>2 DEF Inside, Held, At, Top

\* The steps of activations.
LEMMA ActivationSteps ==
  ASSUME LockInv, SlotInv, NEW t \in Threads, UNCHANGED threads,
         scanned[t] = NULL \/ ~ At(t, "code"),
         \A u \in Threads : u # t => acts'[u] = acts[u]
  PROVE  SlotInv'
<1>1. \A u \in Threads : scanned[u] # NULL => u # t /\ (At(u, "code"))'
  BY DEF SlotInv, At, Top
<1>2. OwnThread'
  BY DEF SlotInv, OwnThread, threads
<1> QED BY <1>1, <1>2 DEF SlotInv, threads

LEMMA SlotStep ==
  ASSUME "new thread" \notin Usage, LockInv, SlotInv, [Next]_vars
  PROVE  SlotInv'
<1> USE ConstantsAssumption
<1>1. CASE UNCHANGED vars
  BY <1>1 DEF vars, SlotInv, OwnThread, At, Top
<1>2. ASSUME NEW t \in Threads, Step(t) PROVE SlotInv'
  <2>0. acts \in [Threads -> Seq(Activation)]
    BY DEF LockInv
  <2>1. CASE Acquire(t) \/ Refuse(t)
    <3>1. UNCHANGED threads /\ ~ At(t, "code")
      BY <2>1 DEF Acquire, Refuse, At
    <3>2. \A u \in Threads : u # t => acts'[u] = acts[u]
      BY <2>0, <2>1 DEF Acquire, Refuse, Move, Return, Pop
    <3> QED BY <3>1, <3>2, ActivationSteps
  <2>2. CASE Operation(t)
    <3>1. UNCHANGED threads
      BY <2>2 DEF Operation
    <3>2. ~ At(t, "code")
      BY <2>2 DEF Operation, Section, LookUp, GetProperty, CallValue, CallForObject,
           InvokeForInstance, InstantiateClass, Import, ImportModule, Sort, Context,
           UnlockAgain, In, After, At
    <3>3. \A u \in Threads : u # t => acts'[u] = acts[u]
      BY <2>0, <2>2 DEF Operation, Section, LookUp, GetProperty, CallValue, CallForObject,
           InvokeForInstance, InstantiateClass, Import, ImportModule, Sort, Context,
           UnlockAgain, Return, ReturnTwice, RunCode, GoOn, Move, Pop
    <3> QED BY <3>1, <3>2, <3>3, ActivationSteps
  <2>3. CASE Begin(t)
    <3>1. scanned[t] = NULL /\ UNCHANGED threads
      BY <2>3 DEF Begin, RunsCode
    <3>2. \A u \in Threads : u # t => acts'[u] = acts[u]
      BY <2>0, <2>3 DEF Begin, Push
    <3> QED BY <3>1, <3>2, ActivationSteps
  <2>4. ASSUME NEW depth \in 1 .. MaxNesting + 1, CodeEnds(t, depth) PROVE SlotInv'
    <3>1. scanned[t] = NULL /\ UNCHANGED threads
      BY <2>4 DEF CodeEnds, RunsCode
    <3>2. \A u \in Threads : u # t => acts'[u] = acts[u]
      BY <2>0, <2>4 DEF CodeEnds, Move, Return, Pop
    <3> QED BY <3>1, <3>2, ActivationSteps
  <2>5. CASE NewThread(t)
    <3>1. At(t, "code") /\ slot[t] = NULL
      BY <2>5 DEF NewThread, HostCode, RunsCode
    <3>2. PICK s \in Slots : ~ Active[s] /\ scanned' = [scanned EXCEPT ![t] = s]
      BY <2>5 DEF NewThread
    <3>3. UNCHANGED <<acts, slot, Active>>
      BY <2>5 DEF NewThread
    <3> QED BY <3>1, <3>2, <3>3 DEF SlotInv, OwnThread, At, Top
  <2>6. CASE InitThread(t)
    <3> DEFINE s == scanned[t]
    <3>1. s \in Slots /\ ~ Active[s] /\ slot[t] = NULL /\ At(t, "code")
      BY <2>6 DEF InitThread, SlotInv
    <3>2. /\ Active' = [Active EXCEPT ![s] = TRUE] /\ slot' = [slot EXCEPT ![t] = s]
          /\ scanned' = [scanned EXCEPT ![t] = NULL] /\ UNCHANGED acts
      BY <2>6 DEF InitThread
    <3>3. \A u \in Threads : scanned[u] # NULL => u = t
      BY <3>1, CodeInside, LockInvExclusive DEF SlotInv, Exclusive
    <3>4. \A u \in Threads : slot[u] # s
      BY <3>1 DEF SlotInv
    <3>5. OwnThread'
      BY <3>1, <3>2, <3>4 DEF SlotInv, OwnThread
    <3> QED BY <3>1, <3>2, <3>3, <3>4, <3>5 DEF SlotInv
  <2>7. CASE DisposeThread(t)
    <3> DEFINE s == slot[t]
    <3>1. s \in Slots /\ Active' = [Active EXCEPT ![s] = FALSE]
          /\ slot' = [slot EXCEPT ![t] = NULL] /\ UNCHANGED <<acts, scanned>>
      BY <2>7 DEF DisposeThread, SlotInv
    <3>2. \A u \in Threads : u # t => slot[u] # s
      BY <3>1 DEF SlotInv, OwnThread
    <3>3. \A u \in Threads : (At(u, "code"))' <=> At(u, "code")
      BY <3>1 DEF At, Top
    <3>4. OwnThread'
      BY <3>1 DEF SlotInv, OwnThread
    <3>5. \A u \in Threads : scanned[u] # NULL => u # t
      BY <2>7 DEF DisposeThread, HostCode, RunsCode
    <3> QED BY <3>1, <3>2, <3>3, <3>4, <3>5 DEF SlotInv
  <2> QED BY <1>2, <2>1, <2>2, <2>3, <2>4, <2>5, <2>6, <2>7 DEF Step
<1> QED BY <1>1, <1>2 DEF Next

LEMMA SlotInit == Init => SlotInv
BY ConstantsAssumption DEF Init, SlotInv, OwnThread

\* When hosts make VM threads with the context locked, each gets its own.
THEOREM OneThreadEach ==
  ASSUME Paired, "new thread" \notin Usage PROVE Spec => []OwnThread
<1>1. Init => LockInv /\ SlotInv
  BY LockInit, SlotInit
<1>2. LockInv /\ SlotInv /\ [Next]_vars => (LockInv /\ SlotInv)'
  BY LockStep, SlotStep
<1>3. SlotInv => OwnThread
  BY DEF SlotInv
<1> QED BY <1>1, <1>2, <1>3, PTL DEF Spec

=============================================================================
