----------------------------- MODULE StatusProofs -----------------------------
(* Theorems about Status: its types, with the agreement of code and is_ok that *)
(* update() and ok() rely on, and that the first failure is the one reported.  *)
EXTENDS Status, SequenceTheorems, TLAPS

\* A status whose two answers agree, and a call that holds one.
Sound(s) == s \in StatusType /\ (s.is_ok <=> s.code = 0)
SoundCall(c) ==
  /\ c \in CallType
  /\ c.status.is_ok <=> c.status.code = 0
  /\ c.result /\ c.status.is_ok => c.value \in Values

LEMMA TypeOKIsSoundCalls ==
  TypeOK <=> /\ failures \in Seq([code : Nat, message : Messages])
             /\ stack \in Seq(CallType)
             /\ Top > 0
             /\ \A k \in 1 .. Top : SoundCall(stack[k])
<1>1. ASSUME stack \in Seq(CallType), NEW k \in 1 .. Top
      PROVE  stack[k] \in CallType
  BY <1>1 DEF Top
<1> QED BY <1>1 DEF TypeOK, SoundCall

------------------------------------------------------------------------------
(* The operators on statuses *)

\* The code of an error is 0 exactly if it is none.
LEMMA CodeOfError ==
  ASSUME NEW e \in Errors
  PROVE  Code(e) \in Nat /\ (Code(e) = 0 <=> ~IsError(e))
<1> DEFINE m == FieldSize * e.module_error
           i == FieldSize * FieldSize * e.module_id
<1>1. e \in [base_error : Nat, module_error : Nat, module_id : Nat]
  BY ErrorsAssumption
<1>2. FieldSize \in Nat
  BY ErrorsAssumption
<1>3. m \in Nat /\ i \in Nat
  BY <1>1, <1>2
<1>4. ~IsError(e) => m = 0 /\ i = 0
  BY <1>2, ErrorsAssumption
<1>5. Code(e) = e.base_error + m + i
  BY DEF Code
<1> HIDE DEF m, i
<1>6. Code(e) \in Nat /\ (Code(e) = 0 <=> e.base_error = 0 /\ m = 0 /\ i = 0)
  BY <1>1, <1>3, <1>5
<1> QED BY <1>1, <1>4, <1>6 DEF IsError, eOk

LEMMA TextType == ASSUME NEW e \in Errors PROVE Text(e) \in Nat
BY ErrorsAssumption DEF Text, eUnknown

\* Statuses made of an error are sound, and ok unless the error is one.
LEMMA StatusOfError ==
  ASSUME NEW e \in Errors
  PROVE  Sound(StatusOf(e)) /\ (StatusOf(e).is_ok <=> ~IsError(e))
<1>1. <<Text(e)>> \in Messages
  BY TextType DEF Messages
<1>2. StatusOf(e) \in StatusType
  BY <1>1, CodeOfError DEF StatusOf, StatusType, IsError
<1>3. StatusOf(e).is_ok = ~IsError(e) /\ StatusOf(e).code = Code(e)
  BY Zenon DEF StatusOf
<1> QED BY <1>2, <1>3, CodeOfError DEF Sound

LEMMA StatusWithDetails ==
  ASSUME NEW e \in Errors, NEW msg \in Details
  PROVE  /\ Sound(StatusWith(e, msg))
         /\ StatusWith(e, msg).is_ok <=> ~IsError(e)
<1>1. <<Text(e), msg>> \in Messages
  BY TextType DEF Messages
<1>2. StatusWith(e, msg) =
        [code |-> Code(e), is_ok |-> ~IsError(e), message |-> <<Text(e), msg>>]
  BY DEF StatusWith, StatusOf
<1>3. StatusWith(e, msg) \in StatusType
  BY <1>1, <1>2, CodeOfError DEF StatusType, IsError
<1>4. StatusWith(e, msg).code = Code(e)
  BY <1>2
<1>5. StatusWith(e, msg).is_ok = StatusOf(e).is_ok
  BY DEF StatusWith, StatusOf
<1> QED BY <1>3, <1>4, <1>5, CodeOfError, StatusOfError DEF Sound

LEMMA FailureType ==
  ASSUME NEW s \in StatusType PROVE Failure(s) \in [code : Nat, message : Messages]
BY DEF Failure, StatusType

\* The statuses that calls begin with, and the one of ReturnWrapped, are ok.
LEMMA OkStatuses ==
  /\ Sound(StatusOk) /\ StatusOk.is_ok
  /\ Sound(DefaultStatus) /\ DefaultStatus.is_ok
<1>1. Sound(StatusOk) /\ StatusOk.is_ok
  BY StatusOfError, ErrorsAssumption DEF StatusOk, NoError, GenericError, IsError
<1>2. DefaultStatus \in StatusType
  BY DEF DefaultStatus, StatusType, Messages
<1>3. DefaultStatus.is_ok /\ DefaultStatus.code = 0
  BY DEF DefaultStatus
<1> QED BY <1>1, <1>2, <1>3 DEF Sound

\* StatusOr<T>() is not ok.
LEMMA UnsetStatus ==
  Sound(StatusOf(UnknownError)) /\ ~StatusOf(UnknownError).is_ok
BY StatusOfError, ErrorsAssumption
   DEF UnknownError, GenericError, IsError, eUnknown, eOk

\* A call that absorbs a status has it afterwards if it was ok, and is unchanged if not.
LEMMA AbsorbKeepsFailure ==
  ASSUME NEW c, SoundCall(c), NEW t, Sound(t)
  PROVE  /\ SoundCall(Absorb(c, t))
         /\ Absorb(c, t).from = c.from
         /\ c.status.is_ok => Absorb(c, t).status = t
         /\ ~c.status.is_ok => Absorb(c, t).status = c.status
<1>1. CASE c.status.is_ok
  <2>1. c.status.code = 0
    BY <1>1 DEF SoundCall
  <2>2. Absorb(c, t) = [c EXCEPT !.status = t]
    BY <1>1, <2>1 DEF Absorb, SetStatus, Update
  <2> DEFINE d == [c EXCEPT !.status = t]
  <2>3. d \in CallType
    BY DEF SoundCall, CallType, Sound
  <2>4. d.status = t /\ d.result = c.result /\ d.value = c.value /\ d.from = c.from
    BY DEF SoundCall, CallType
  <2> HIDE DEF d
  <2>5. t.is_ok <=> t.code = 0
    BY DEF Sound
  <2>6. c.result => c.value \in Values
    BY <1>1 DEF SoundCall
  <2>7. SoundCall(d)
    BY <2>3, <2>4, <2>5, <2>6 DEF SoundCall
  <2>8. Absorb(c, t) = d
    BY <2>2 DEF d
  <2> QED BY <1>1, <2>4, <2>7, <2>8
<1>2. CASE ~c.status.is_ok
  <2>1. c.status.code # 0
    BY <1>2 DEF SoundCall
  <2>2. Absorb(c, t) = c
    <3>1. CASE c.result
      BY <1>2, <3>1 DEF Absorb, SetStatus
    <3>2. CASE ~c.result
      <4>1. Absorb(c, t) = [c EXCEPT !.status = c.status]
        BY <2>1, <3>2 DEF Absorb, Update
      <4>2. [c EXCEPT !.status = c.status] = c
        BY DEF SoundCall, CallType
      <4> QED BY <4>1, <4>2
    <3> QED BY <3>1, <3>2
  <2> QED BY <1>2, <2>2
<1> QED BY <1>1, <1>2

------------------------------------------------------------------------------
(* The invariant: of the failures since a call began, those since the call     *)
(* inside it began are that one's; of the others the first is what it has.     *)

Until(k) == IF k = Top THEN Len(failures) ELSE stack[k + 1].from
HasFirst(f, s, a, b) == IF a = b THEN s.is_ok ELSE ~s.is_ok /\ Failure(s) = f[a + 1]

Nested == /\ stack[1].from = 0
          /\ \A k \in 1 .. Top : stack[k].from <= Until(k) /\ Until(k) <= Len(failures)
Reports == \A k \in 1 .. Top : HasFirst(failures, stack[k].status, stack[k].from, Until(k))
Inv == TypeOK /\ Nested /\ Reports

LEMMA InvImpliesFirst == Inv => FirstFailureIsReported
<1> SUFFICES ASSUME Inv, Top = 1 PROVE HasFirst(failures, stack[1].status, 0, Len(failures))
  BY DEF Inv, TypeOK, HasFirst, FirstFailureIsReported
<1> QED BY DEF Inv, Nested, Reports, Until

\* Calls that begin are sound; the ordinary ones are ok.
LEMMA StartsAreSound ==
  ASSUME NEW n \in Nat, NEW c \in Starts(n)
  PROVE  SoundCall(c) /\ c.status.is_ok /\ c.from = n
<1>1. ASSUME NEW r \in BOOLEAN, NEW s, Sound(s), s.is_ok, NEW v \in Values \cup {NoValue},
             r => v \in Values
      PROVE  /\ SoundCall(Call(r, s, v, n)) /\ Call(r, s, v, n).status.is_ok
             /\ Call(r, s, v, n).from = n
  BY <1>1 DEF SoundCall, CallType, Sound, Call
<1> QED BY <1>1, OkStatuses DEF Starts

LEMMA UnsetIsSound ==
  ASSUME NEW n \in Nat
  PROVE  /\ SoundCall(Unset(n)) /\ Unset(n).status = StatusOf(UnknownError)
         /\ Unset(n).from = n
BY UnsetStatus DEF SoundCall, CallType, Sound, Unset, Call

FailuresType == Seq([code : Nat, message : Messages])
\* f is g with more failures, or g itself.
Extends(f, g) == Len(g) <= Len(f) /\ \A i \in 1 .. Len(g) : f[i] = g[i]

\* Every step leaves the calls below the n-th as they are and makes the n-th the
\* innermost: a new one (n = Top + 1), the one that acts (Top), or its caller (Top - 1).
LEMMA InnermostChanges ==
  ASSUME Inv, NEW n \in 1 .. Top + 1, NEW d, SoundCall(d),
         stack' \in Seq(CallType), Len(stack') = n,
         \A k \in 1 .. n - 1 : stack'[k] = stack[k],
         stack'[n] = d,
         d.from = (IF n = Top + 1 THEN Len(failures) ELSE stack[n].from),
         failures' \in FailuresType, Extends(failures', failures),
         HasFirst(failures', d.status, d.from, Len(failures'))
  PROVE  Inv'
<1> USE DEF Inv
<1>1. Top \in Nat /\ Top > 0 /\ Top = Len(stack) /\ Top' = n
  BY TypeOKIsSoundCalls DEF Top
<1>2. /\ \A k \in 1 .. Top : stack[k] \in CallType /\ SoundCall(stack[k])
                           /\ stack[k].from \in Nat
      /\ Len(failures) \in Nat /\ Len(failures') \in Nat
      /\ d.from \in Nat
  BY TypeOKIsSoundCalls DEF SoundCall, CallType, FailuresType
<1>3. TypeOK'
  <2>1. \A k \in 1 .. n : SoundCall(stack'[k])
    BY <1>1, <1>2
  <2> QED BY <1>1, <2>1 DEF TypeOK, SoundCall, FailuresType, Top
<1>4. \A k \in 1 .. n - 1 : Until(k)' = Until(k)
  <2> SUFFICES ASSUME NEW k \in 1 .. n - 1 PROVE Until(k)' = Until(k)
    OBVIOUS
  <2>1. Until(k)' = stack'[k + 1].from
    BY <1>1 DEF Until
  <2>2. CASE k + 1 = n
    BY <1>1, <2>1, <2>2 DEF Until
  <2>3. CASE k + 1 # n
    BY <1>1, <2>1, <2>3 DEF Until
  <2> QED BY <2>2, <2>3
<1>5. Until(n)' = Len(failures')
  BY <1>1 DEF Until
<1>6. Nested'
  <2>1. stack'[1].from = 0
    BY <1>1 DEF Nested
  <2>2. \A k \in 1 .. n - 1 : /\ stack'[k].from <= Until(k)'
                             /\ Until(k)' <= Len(failures')
    <3>1. TAKE k \in 1 .. n - 1
    <3>2. Until(k) \in Nat
      BY <1>1, <1>2 DEF Until
    <3>3. stack[k].from <= Until(k) /\ Until(k) <= Len(failures)
      BY <1>1 DEF Nested
    <3> QED BY <1>1, <1>2, <1>4, <3>2, <3>3 DEF Extends
  <2>3. d.from <= Len(failures)
    <3>1. CASE n = Top + 1
      BY <1>2, <3>1
    <3>2. CASE n \in 1 .. Top
      <4>1. Until(n) \in Nat
        BY <1>1, <1>2, <3>2 DEF Until
      <4>2. d.from <= Until(n) /\ Until(n) <= Len(failures)
        BY <1>1, <3>2 DEF Nested
      <4> QED BY <1>2, <4>1, <4>2
    <3> QED BY <1>1, <3>1, <3>2
  <2> QED BY <1>1, <1>2, <1>5, <2>1, <2>2, <2>3 DEF Nested, Extends
<1>7. Reports'
  <2>1. ASSUME NEW k \in 1 .. n - 1
        PROVE  HasFirst(failures', stack'[k].status, stack'[k].from, Until(k)')
    <3>1. HasFirst(failures, stack[k].status, stack[k].from, Until(k))
      BY <1>1 DEF Reports
    <3>2. stack[k].from <= Until(k) /\ Until(k) <= Len(failures)
      BY <1>1 DEF Nested
    <3>3. Until(k) \in Nat /\ stack[k].from \in Nat
      BY <1>1, <1>2 DEF Until
    <3>4. stack[k].from # Until(k) =>
            failures'[stack[k].from + 1] = failures[stack[k].from + 1]
      BY <1>2, <3>2, <3>3 DEF Extends
    <3> QED BY <1>4, <3>1, <3>4 DEF HasFirst
  <2> QED BY <1>1, <1>5, <2>1 DEF Reports
<1> QED BY <1>3, <1>6, <1>7
------------------------------------------------------------------------------
(* The steps *)

LEMMA InitInv == Init => Inv
<1> SUFFICES ASSUME Init PROVE Inv
  OBVIOUS
\* The outermost call, with the failures there are before its first step.
<1>1. ASSUME NEW c, SoundCall(c), c.from = 0, stack = <<c>>, failures \in FailuresType,
             HasFirst(failures, c.status, 0, Len(failures))
      PROVE  Inv
  <2>1. Top = 1 /\ Until(1) = Len(failures)
    BY <1>1 DEF Top, Until
  <2>2. TypeOK
    BY <1>1, <2>1 DEF TypeOK, SoundCall, FailuresType
  <2>3. Nested
    BY <1>1, <2>1 DEF Nested, FailuresType
  <2>4. Reports
    BY <1>1, <2>1 DEF Reports
  <2> QED BY <2>2, <2>3, <2>4 DEF Inv
<1>2. CASE failures = <<>> /\ \E c \in Starts(0) : stack = <<c>>
  <2>1. PICK c \in Starts(0) : stack = <<c>>
    BY <1>2
  <2>2. SoundCall(c) /\ c.status.is_ok /\ c.from = 0
    BY StartsAreSound
  <2>3. failures \in FailuresType /\ HasFirst(failures, c.status, 0, Len(failures))
    BY <1>2, <2>2 DEF FailuresType, HasFirst
  <2> QED BY <1>1, <2>1, <2>2, <2>3
<1>3. CASE failures = <<Failure(StatusOf(UnknownError))>> /\ stack = <<Unset(0)>>
  <2>1. PICK c : c = Unset(0)
    OBVIOUS
  <2>2. PICK s : s = StatusOf(UnknownError)
    OBVIOUS
  <2>3. SoundCall(c) /\ c.status = s /\ c.from = 0
    BY <2>1, <2>2, UnsetIsSound
  <2>4. Sound(s) /\ ~s.is_ok /\ Failure(s) \in [code : Nat, message : Messages]
    BY <2>2, UnsetStatus, FailureType DEF Sound
  <2>5. failures = <<Failure(s)>> /\ stack = <<c>>
    BY <1>3, <2>1, <2>2
  <2>6. failures \in FailuresType /\ HasFirst(failures, c.status, 0, Len(failures))
    BY <2>3, <2>4, <2>5 DEF FailuresType, HasFirst
  <2> QED BY <1>1, <2>3, <2>5, <2>6
<1> QED BY <1>2, <1>3 DEF Init

\* What the steps have in common.
LEMMA InvFacts ==
  ASSUME Inv
  PROVE  /\ Top \in Nat /\ Top > 0 /\ Top = Len(stack)
         /\ stack \in Seq(CallType) /\ failures \in FailuresType
         /\ Len(failures) \in Nat
         /\ \A k \in 1 .. Top : SoundCall(stack[k])
         /\ Extends(failures, failures)
         /\ HasFirst(failures, Inner.status, Inner.from, Len(failures))
<1>1. /\ failures \in FailuresType /\ stack \in Seq(CallType)
      /\ Top > 0 /\ \A k \in 1 .. Top : SoundCall(stack[k])
  BY TypeOKIsSoundCalls DEF Inv, FailuresType
<1>2. Top \in Nat /\ Top = Len(stack) /\ Len(failures) \in Nat
  BY <1>1 DEF Top, FailuresType
<1>3. HasFirst(failures, Inner.status, Inner.from, Len(failures))
  BY <1>1, <1>2 DEF Inv, Reports, Until, Inner
<1> QED BY <1>1, <1>2, <1>3 DEF Extends

\* A new failure comes after those there were.
LEMMA FailuresGrow ==
  ASSUME failures \in FailuresType, NEW f \in [code : Nat, message : Messages]
  PROVE  /\ Append(failures, f) \in FailuresType
         /\ Extends(Append(failures, f), failures)
         /\ Len(Append(failures, f)) = Len(failures) + 1
         /\ Append(failures, f)[Len(failures) + 1] = f
BY DEF FailuresType, Extends

\* A call begins.
LEMMA CallBegins ==
  ASSUME Inv, NEW c, SoundCall(c), c.from = Len(failures), stack' = Append(stack, c),
         failures' \in FailuresType, Extends(failures', failures),
         HasFirst(failures', c.status, Len(failures), Len(failures'))
  PROVE  Inv'
<1>1. c \in CallType
  BY DEF SoundCall
<1>2. /\ stack' \in Seq(CallType) /\ Len(stack') = Top + 1
      /\ \A k \in 1 .. Top : stack'[k] = stack[k]
      /\ stack'[Top + 1] = c
  BY <1>1, InvFacts
<1>3. Top + 1 \in 1 .. Top + 1 /\ Top + 1 - 1 = Top
  BY InvFacts
<1> QED BY <1>2, <1>3, InnermostChanges

LEMMA EnterKeepsInv == Inv /\ Enter => Inv'
<1> SUFFICES ASSUME Inv, Enter PROVE Inv'
  OBVIOUS
<1>1. PICK c \in Starts(Len(failures)) : stack' = Append(stack, c)
  BY DEF Enter
<1>2. failures' = failures
  BY DEF Enter
<1>3. SoundCall(c) /\ c.status.is_ok /\ c.from = Len(failures)
  BY InvFacts, StartsAreSound
<1>4. HasFirst(failures', c.status, Len(failures), Len(failures'))
  BY <1>2, <1>3 DEF HasFirst
<1> QED BY <1>1, <1>2, <1>3, <1>4, InvFacts, CallBegins

LEMMA EnterUnsetKeepsInv == Inv /\ EnterUnset => Inv'
<1> SUFFICES ASSUME Inv, EnterUnset PROVE Inv'
  OBVIOUS
<1>1. PICK c : c = Unset(Len(failures))
  OBVIOUS
<1>2. PICK s : s = StatusOf(UnknownError)
  OBVIOUS
<1>3. stack' = Append(stack, c) /\ failures' = Append(failures, Failure(s))
  BY <1>1, <1>2 DEF EnterUnset
<1>4. SoundCall(c) /\ c.status = s /\ c.from = Len(failures)
  BY <1>1, <1>2, InvFacts, UnsetIsSound
<1>5. Sound(s) /\ ~s.is_ok /\ Failure(s) \in [code : Nat, message : Messages]
  BY <1>2, UnsetStatus, FailureType DEF Sound
<1>6. /\ failures' \in FailuresType /\ Extends(failures', failures)
      /\ Len(failures') = Len(failures) + 1
      /\ failures'[Len(failures) + 1] = Failure(s)
  BY <1>3, <1>5, InvFacts, FailuresGrow
<1>7. HasFirst(failures', c.status, Len(failures), Len(failures'))
  BY <1>4, <1>5, <1>6, InvFacts DEF HasFirst
<1> QED BY <1>3, <1>4, <1>6, <1>7, CallBegins

\* A call that absorbs a status, and reported what failed since it began, does so still:
\* the status is that of a step, or of a call that began where its own steps left off.
LEMMA AbsorbedIsReported ==
  ASSUME NEW c, SoundCall(c), NEW t, Sound(t), NEW f, NEW b \in Nat, NEW m \in Nat,
         c.from <= m, m <= b,
         HasFirst(f, c.status, c.from, m), HasFirst(f, t, m, b)
  PROVE  HasFirst(f, Absorb(c, t).status, c.from, b)
<1>1. c.from \in Nat
  BY DEF SoundCall, CallType
<1>2. CASE c.status.is_ok
  <2>1. c.from = m /\ Absorb(c, t).status = t
    BY <1>2, AbsorbKeepsFailure DEF HasFirst
  <2> QED BY <2>1
<1>3. CASE ~c.status.is_ok
  <2>1. Absorb(c, t).status = c.status
    BY <1>3, AbsorbKeepsFailure
  <2>2. c.from # m /\ c.from # b
    BY <1>1, <1>3 DEF HasFirst
  <2> QED BY <1>3, <2>1, <2>2 DEF HasFirst
<1> QED BY <1>2, <1>3

\* The acting call changes to d.
LEMMA ActingChanges ==
  ASSUME Inv, NEW d, SoundCall(d), stack' = [stack EXCEPT ![Top] = d],
         d.from = Inner.from,
         failures' \in FailuresType, Extends(failures', failures),
         HasFirst(failures', d.status, d.from, Len(failures'))
  PROVE  Inv'
<1>1. d \in CallType
  BY DEF SoundCall
<1>2. /\ stack' \in Seq(CallType) /\ Len(stack') = Top
      /\ \A k \in 1 .. Top - 1 : stack'[k] = stack[k]
      /\ stack'[Top] = d
  BY <1>1, InvFacts
<1>3. Top \in 1 .. Top + 1 /\ Top # Top + 1
  BY InvFacts
<1>4. d.from = (IF Top = Top + 1 THEN Len(failures) ELSE stack[Top].from)
  BY <1>3 DEF Inner
<1> QED BY <1>2, <1>3, <1>4, InnermostChanges

LEMMA StepKeepsInv ==
  ASSUME Inv, NEW e \in Errors, NEW msg \in Details, Step(e, msg)
  PROVE  Inv'
<1> DEFINE s == StatusWith(e, msg)
<1>1. Sound(s) /\ (s.is_ok <=> ~IsError(e)) /\ Failure(s) \in [code : Nat, message : Messages]
  BY StatusWithDetails, FailureType DEF Sound
<1>2. /\ stack' = [stack EXCEPT ![Top] = Absorb(Inner, s)]
      /\ IF IsError(e) THEN failures' = Append(failures, Failure(s))
                       ELSE failures' = failures
  BY DEF Step
<1> HIDE DEF s
<1>3. SoundCall(Inner) /\ Inner.from \in Nat /\ Inner.from <= Len(failures)
  BY InvFacts DEF Inner, SoundCall, CallType, Inv, Nested, Until
<1>4. SoundCall(Absorb(Inner, s)) /\ Absorb(Inner, s).from = Inner.from
  BY <1>1, <1>3, AbsorbKeepsFailure
<1>5. /\ failures' \in FailuresType /\ Extends(failures', failures)
      /\ HasFirst(failures', Inner.status, Inner.from, Len(failures))
      /\ HasFirst(failures', s, Len(failures), Len(failures'))
      /\ Len(failures') \in Nat /\ Len(failures) <= Len(failures')
  <2>1. CASE IsError(e)
    <3>1. /\ failures' \in FailuresType /\ Extends(failures', failures)
          /\ Len(failures') = Len(failures) + 1
          /\ failures'[Len(failures) + 1] = Failure(s)
      BY <1>1, <1>2, <2>1, InvFacts, FailuresGrow
    <3>2. HasFirst(failures', s, Len(failures), Len(failures'))
      BY <1>1, <2>1, <3>1, InvFacts DEF HasFirst
    <3>3. HasFirst(failures', Inner.status, Inner.from, Len(failures))
      BY <1>3, <3>1, InvFacts DEF HasFirst, Extends
    <3> QED BY <3>1, <3>2, <3>3, InvFacts
  <2>2. CASE ~IsError(e)
    BY <1>1, <1>2, <2>2, InvFacts DEF HasFirst
  <2> QED BY <2>1, <2>2
<1>6. HasFirst(failures', Absorb(Inner, s).status, Inner.from, Len(failures'))
  BY <1>1, <1>3, <1>5, InvFacts, AbsorbedIsReported
<1>7. ASSUME NEW d, d = Absorb(Inner, s) PROVE Inv'
  BY <1>2, <1>4, <1>5, <1>6, <1>7, ActingChanges
<1> QED BY <1>7

LEMMA ComputeKeepsInv ==
  ASSUME Inv, NEW v \in Values, Compute(v)
  PROVE  Inv'
<1>1. SoundCall(Inner) /\ Inner \in CallType
  BY InvFacts DEF Inner, SoundCall
<1>2. [Inner EXCEPT !.value = v] \in CallType
  BY <1>1 DEF CallType
<1> DEFINE d == SetValue(Inner, v)
<1>3. SoundCall(d) /\ d.from = Inner.from /\ d.status = Inner.status
  BY <1>1, <1>2 DEF SetValue, SoundCall, CallType
<1>4. stack' = [stack EXCEPT ![Top] = d] /\ failures' = failures
  BY DEF Compute
<1> HIDE DEF d
<1> QED BY <1>3, <1>4, InvFacts, ActingChanges

\* A call hands its caller a status that reports what failed since the call began.
LEMMA ReturnWithKeepsInv ==
  ASSUME Inv, NEW s, Sound(s), ReturnWith(s),
         HasFirst(failures, s, Inner.from, Len(failures))
  PROVE  Inv'
<1> DEFINE c == stack[Top - 1]
           d == Absorb(c, s)
<1>1. Top > 1 /\ failures' = failures
  BY DEF ReturnWith
<1>2. Top - 1 \in 1 .. Top /\ Top - 1 \in 1 .. Top + 1 /\ Top - 1 # Top + 1
  BY <1>1, InvFacts
<1>3. SoundCall(c) /\ c.from \in Nat
  BY <1>2, InvFacts DEF SoundCall, CallType
<1>4. SoundCall(d) /\ d.from = c.from /\ d \in CallType
  BY <1>3, AbsorbKeepsFailure DEF SoundCall
<1> DEFINE below == SubSeq(stack, 1, Top - 1)
<1>5. /\ below \in Seq(CallType) /\ Len(below) = Top - 1
      /\ \A k \in 1 .. Top - 1 : below[k] = stack[k]
  BY <1>2, InvFacts
<1>6. stack' = [below EXCEPT ![Top - 1] = d]
  <2>1. below[Top - 1] = c
    BY <1>1, <1>5, InvFacts
  <2>2. stack' = [below EXCEPT ![Top - 1] = Absorb(below[Top - 1], s)]
    BY DEF ReturnWith
  <2> QED BY <2>1, <2>2
<1> HIDE DEF d, below
<1>7. /\ stack' \in Seq(CallType) /\ Len(stack') = Top - 1
      /\ \A k \in 1 .. Top - 1 - 1 : stack'[k] = stack[k]
      /\ stack'[Top - 1] = d
  BY <1>2, <1>4, <1>5, <1>6, InvFacts
<1>8. /\ Inner.from \in Nat /\ Inner.from <= Len(failures) /\ c.from <= Inner.from
      /\ HasFirst(failures, c.status, c.from, Inner.from)
  <2>1. Until(Top - 1) = Inner.from /\ Until(Top) = Len(failures)
    BY <1>2, InvFacts DEF Until, Inner
  <2>2. Inner.from \in Nat
    BY <1>1, InvFacts DEF Inner, SoundCall, CallType
  <2>3. Top \in 1 .. Top
    BY InvFacts
  <2> QED BY <1>2, <2>1, <2>2, <2>3 DEF Inv, Nested, Reports, Inner
<1>9. HasFirst(failures, d.status, d.from, Len(failures))
  BY <1>3, <1>4, <1>8, InvFacts, AbsorbedIsReported DEF d
<1> QED BY <1>1, <1>2, <1>4, <1>7, <1>9, InvFacts, InnermostChanges

LEMMA ReturnKeepsInv == Inv /\ Return => Inv'
<1> SUFFICES ASSUME Inv, Return PROVE Inv'
  OBVIOUS
<1>1. SoundCall(Inner)
  BY InvFacts DEF Inner
<1>2. Sound(Inner.status)
  BY <1>1 DEF SoundCall, CallType, Sound
<1> QED BY <1>2, InvFacts, ReturnWithKeepsInv DEF Return

LEMMA ReturnWrappedKeepsInv == Inv /\ ReturnWrapped => Inv'
<1> SUFFICES ASSUME Inv, ReturnWrapped PROVE Inv'
  OBVIOUS
<1>1. SoundCall(Inner)
  BY InvFacts DEF Inner
<1>2. Sound(Inner.status)
  BY <1>1 DEF SoundCall, CallType, Sound
<1> DEFINE s == Wrapped(Inner.status)
<1>3. Sound(s) /\ HasFirst(failures, s, Inner.from, Len(failures))
  <2>1. CASE Inner.status.is_ok
    BY <2>1, OkStatuses, InvFacts DEF Wrapped, HasFirst
  <2>2. CASE ~Inner.status.is_ok
    BY <1>2, <2>2, InvFacts DEF Wrapped
  <2> QED BY <2>1, <2>2
<1>4. ReturnWith(s)
  BY DEF ReturnWrapped
<1> HIDE DEF s
<1> QED BY <1>3, <1>4, ReturnWithKeepsInv

LEMMA NextKeepsInv == Inv /\ [Next]_vars => Inv'
<1> SUFFICES ASSUME Inv, [Next]_vars PROVE Inv'
  OBVIOUS
<1>1. CASE Enter
  BY <1>1, EnterKeepsInv
<1>2. CASE EnterUnset
  BY <1>2, EnterUnsetKeepsInv
<1>3. CASE Return
  BY <1>3, ReturnKeepsInv
<1>4. CASE ReturnWrapped
  BY <1>4, ReturnWrappedKeepsInv
<1>5. ASSUME NEW e \in Errors, NEW msg \in Details, Step(e, msg) PROVE Inv'
  BY <1>5, StepKeepsInv
<1>6. ASSUME NEW v \in Values, Compute(v) PROVE Inv'
  BY <1>6, ComputeKeepsInv
<1>7. CASE UNCHANGED vars
  BY <1>7 DEF vars, Inv, TypeOK, Nested, Reports, Until, HasFirst, Top
<1> QED BY <1>1, <1>2, <1>3, <1>4, <1>5, <1>6, <1>7 DEF Next

\* Statuses are statuses, their two answers agree, and a StatusOr that is ok has a value.
THEOREM TypeCorrect == Spec => []TypeOK
<1>1. Inv => TypeOK
  BY DEF Inv
<1> QED BY <1>1, InitInv, NextKeepsInv, PTL DEF Spec

\* The outermost call ends with the first failure of the whole computation, or ok if
\* there was none.
THEOREM FirstFailureCorrect == Spec => []FirstFailureIsReported
BY InvImpliesFirst, InitInv, NextKeepsInv, PTL DEF Spec

------------------------------------------------------------------------------
(* The refinement: what Outcome sees of a stack. *)

Outcomes == {Fine} \cup [code : Nat, message : Messages]
OutcomesOf(st) == [k \in 1 .. Len(st) |-> OutcomeOf(st[k].status)]

LEMMA SeenIs == Seen = OutcomesOf(stack) /\ Seen' = OutcomesOf(stack')
BY DEF Seen, OutcomesOf, Top

LEMMA FineIsNoFailure == ASSUME NEW s PROVE Failure(s) # Fine
<1>1. "code" \in DOMAIN Failure(s) /\ DOMAIN Fine = {"fine"}
  BY DEF Failure, Fine
<1> QED BY <1>1

LEMMA OutcomeType ==
  ASSUME NEW s \in StatusType
  PROVE  OutcomeOf(s) \in Outcomes /\ (OutcomeOf(s) = Fine <=> s.is_ok)
BY FailureType, FineIsNoFailure DEF OutcomeOf, Outcomes

LEMMA OutcomesType ==
  ASSUME NEW st \in Seq(CallType)
  PROVE  /\ OutcomesOf(st) \in Seq(Outcomes) /\ Len(OutcomesOf(st)) = Len(st)
         /\ \A k \in 1 .. Len(st) : OutcomesOf(st)[k] = OutcomeOf(st[k].status)
<1>1. ASSUME NEW k \in 1 .. Len(st) PROVE OutcomeOf(st[k].status) \in Outcomes
  <2>1. st[k] \in CallType
    OBVIOUS
  <2>2. st[k].status \in StatusType
    BY <2>1 DEF CallType
  <2> QED BY <2>2, OutcomeType
<1>2. Len(st) \in Nat
  OBVIOUS
<1> QED BY <1>1, <1>2 DEF OutcomesOf

\* A sequence of the outcomes of the calls is what Outcome sees.
LEMMA SeenOutcomes ==
  ASSUME NEW st \in Seq(CallType), NEW os \in Seq(Outcomes), Len(os) = Len(st),
         \A k \in 1 .. Len(st) : os[k] = OutcomeOf(st[k].status)
  PROVE  OutcomesOf(st) = os
<1>1. /\ OutcomesOf(st) \in Seq(Outcomes) /\ Len(OutcomesOf(st)) = Len(st)
      /\ \A k \in 1 .. Len(st) : OutcomesOf(st)[k] = OutcomeOf(st[k].status)
  BY OutcomesType
<1> QED BY <1>1, SeqEqual

\* A call that absorbs a status hears of its outcome.
LEMMA AbsorbHears ==
  ASSUME NEW c, SoundCall(c), NEW t, Sound(t)
  PROVE  OutcomeOf(Absorb(c, t).status) =
           IF OutcomeOf(c.status) = Fine THEN OutcomeOf(t) ELSE OutcomeOf(c.status)
<1>1. c.status \in StatusType
  BY DEF SoundCall, CallType
<1> QED BY <1>1, AbsorbKeepsFailure, OutcomeType

\* A call begins, with an outcome that calls may begin with.
LEMMA BeginMaps ==
  ASSUME Inv, NEW c \in CallType, stack' = Append(stack, c),
         OutcomeOf(c.status) \in Reported \cup {Fine}
  PROVE  O!Begin
<1> DEFINE o == OutcomeOf(c.status)
           os == Append(OutcomesOf(stack), o)
<1>1. o \in Outcomes
  BY OutcomeType DEF CallType
<1> HIDE DEF o
<1>2. OutcomesOf(stack) \in Seq(Outcomes) /\ Len(OutcomesOf(stack)) = Len(stack)
      /\ \A k \in 1 .. Len(stack) : OutcomesOf(stack)[k] = OutcomeOf(stack[k].status)
  BY InvFacts, OutcomesType
<1>3. stack' \in Seq(CallType) /\ os \in Seq(Outcomes) /\ Len(os) = Len(stack')
  BY <1>1, <1>2, InvFacts
<1>4. ASSUME NEW k \in 1 .. Len(stack') PROVE os[k] = OutcomeOf(stack'[k].status)
  <2>1. CASE k = Len(stack) + 1
    BY <1>2, <2>1, InvFacts DEF o
  <2>2. CASE k \in 1 .. Len(stack)
    BY <1>1, <1>2, <2>2, InvFacts
  <2>3. Len(stack') = Len(stack) + 1 /\ Len(stack) \in Nat
    BY InvFacts
  <2>4. k = Len(stack) + 1 \/ k \in 1 .. Len(stack)
    BY <2>3
  <2> QED BY <2>1, <2>2, <2>4
<1>5. OutcomesOf(stack') = os
  BY <1>3, <1>4, SeenOutcomes
<1>6. \E x \in Reported \cup {Fine} : Seen' = Append(Seen, x)
  BY <1>5, SeenIs DEF o
<1> QED BY <1>6 DEF O!Begin

\* The innermost call absorbs the status of a step.
LEMMA ReportMaps ==
  ASSUME Inv, NEW t, Sound(t), stack' = [stack EXCEPT ![Top] = Absorb(Inner, t)]
  PROVE  OutcomesOf(stack') = [OutcomesOf(stack) EXCEPT ![Top] =
           IF OutcomesOf(stack)[Top] = Fine THEN OutcomeOf(t) ELSE OutcomesOf(stack)[Top]]
<1> DEFINE d == Absorb(Inner, t)
           o == IF OutcomesOf(stack)[Top] = Fine THEN OutcomeOf(t) ELSE OutcomesOf(stack)[Top]
           os == [OutcomesOf(stack) EXCEPT ![Top] = o]
<1>1. OutcomesOf(stack) \in Seq(Outcomes) /\ Len(OutcomesOf(stack)) = Len(stack)
      /\ \A k \in 1 .. Len(stack) : OutcomesOf(stack)[k] = OutcomeOf(stack[k].status)
  BY InvFacts, OutcomesType
<1>2. SoundCall(Inner) /\ Top \in 1 .. Len(stack)
  BY InvFacts DEF Inner
<1>3. d \in CallType
  BY <1>2, AbsorbKeepsFailure DEF SoundCall
<1>4. OutcomeOf(d.status) = o
  BY <1>1, <1>2, AbsorbHears DEF Inner
<1>5. o \in Outcomes
  BY <1>3, <1>4, OutcomeType DEF CallType
<1> HIDE DEF d, o
<1>6. stack' \in Seq(CallType) /\ os \in Seq(Outcomes) /\ Len(os) = Len(stack')
  <2>1. stack' = [stack EXCEPT ![Top] = d]
    BY DEF d
  <2> QED BY <1>1, <1>2, <1>3, <1>5, <2>1, InvFacts
<1>7. ASSUME NEW k \in 1 .. Len(stack') PROVE os[k] = OutcomeOf(stack'[k].status)
  <2>1. stack' = [stack EXCEPT ![Top] = d] /\ k \in 1 .. Len(stack)
    BY <1>1, <1>6, InvFacts DEF d
  <2> QED BY <1>1, <1>2, <1>4, <2>1, InvFacts
<1>8. OutcomesOf(stack') = os
  BY <1>6, <1>7, SeenOutcomes
<1> QED BY <1>8 DEF o, os

\* A call hands its caller the outcome it has.
LEMMA ReturnMaps ==
  ASSUME Inv, NEW s, Sound(s), OutcomeOf(s) = OutcomeOf(Inner.status), ReturnWith(s)
  PROVE  O!Return
<1> DEFINE n == Top - 1
           c == stack[n]
           d == Absorb(c, s)
           below == SubSeq(stack, 1, n)
           seen == SubSeq(Seen, 1, n)
           o == IF Seen[n] = Fine THEN Seen[Top] ELSE Seen[n]
           os == [seen EXCEPT ![n] = o]
<1>1. Seen \in Seq(Outcomes) /\ Len(Seen) = Top
      /\ \A k \in 1 .. Top : Seen[k] = OutcomeOf(stack[k].status)
  BY InvFacts, OutcomesType, SeenIs
<1>2. Top > 1 /\ Top \in Nat /\ n \in 1 .. Top /\ n \in 1 .. n /\ Top \in 1 .. Top
  BY InvFacts DEF ReturnWith
<1>3. SoundCall(c) /\ SoundCall(d) /\ d \in CallType
  BY <1>2, InvFacts, AbsorbKeepsFailure DEF SoundCall
<1>4. OutcomeOf(d.status) = o
  BY <1>1, <1>2, <1>3, AbsorbHears DEF Inner
<1>5. o \in Outcomes
  BY <1>3, <1>4, OutcomeType DEF CallType
<1>6. /\ below \in Seq(CallType) /\ Len(below) = n
      /\ \A k \in 1 .. n : below[k] = stack[k]
  BY <1>2, InvFacts
<1>7. /\ seen \in Seq(Outcomes) /\ Len(seen) = n
      /\ \A k \in 1 .. n : seen[k] = Seen[k]
  BY <1>1, <1>2
<1>8. stack' = [below EXCEPT ![n] = d]
  BY <1>2, <1>6 DEF ReturnWith
<1>9. \A k \in 1 .. n : k \in 1 .. Top
  BY <1>2
<1> HIDE DEF d, o, below, seen, n
<1>10. stack' \in Seq(CallType) /\ os \in Seq(Outcomes) /\ Len(os) = n /\ Len(stack') = n
  <2>1. stack' \in Seq(CallType) /\ Len(stack') = n
    BY <1>2, <1>3, <1>6, <1>8
  <2>2. os \in Seq(Outcomes) /\ Len(os) = n
    BY <1>2, <1>5, <1>7 DEF os
  <2> QED BY <2>1, <2>2
<1>11. ASSUME NEW k \in 1 .. n PROVE os[k] = OutcomeOf(stack'[k].status)
  <2>1. Seen[k] = OutcomeOf(stack[k].status)
    BY <1>1, <1>9
  <2> QED BY <1>2, <1>4, <1>6, <1>7, <1>8, <2>1
<1>12. Seen' = os
  BY <1>10, <1>11, SeenOutcomes, SeenIs
<1>13. seen[n] = Seen[n]
  BY <1>2, <1>7
<1>14. Seen' = [SubSeq(Seen, 1, Top - 1) EXCEPT ![Top - 1] =
                  IF Seen[Top - 1] = Fine THEN Seen[Top] ELSE Seen[Top - 1]]
  BY <1>12 DEF os, seen, o, n
<1>15. Len(Seen) > 1 /\ Len(Seen) = Top
  BY <1>1, <1>2
<1>16. /\ Len(Seen) > 1
       /\ Seen' = [SubSeq(Seen, 1, Len(Seen) - 1) EXCEPT ![Len(Seen) - 1] =
                     IF Seen[Len(Seen) - 1] = Fine THEN Seen[Len(Seen)]
                                                   ELSE Seen[Len(Seen) - 1]]
  BY <1>14, <1>15
<1> QED BY <1>16 DEF O!Return, O!Top, O!Hears

LEMMA InitMaps == Init => O!Init
<1> SUFFICES ASSUME Init PROVE O!Init
  OBVIOUS
<1>1. ASSUME NEW c, stack = <<c>>, OutcomeOf(c.status) \in Reported \cup {Fine}
      PROVE  O!Init
  <2>1. Seen = <<OutcomeOf(c.status)>>
    BY <1>1 DEF Seen, Top
  <2> QED BY <1>1, <2>1 DEF O!Init
<1>2. CASE failures = <<>> /\ \E c \in Starts(0) : stack = <<c>>
  <2>1. PICK c \in Starts(0) : stack = <<c>>
    BY <1>2
  <2>2. c.status.is_ok
    BY StartsAreSound
  <2> QED BY <1>1, <2>1, <2>2 DEF OutcomeOf
<1>3. CASE stack = <<Unset(0)>>
  <2>1. OutcomeOf(Unset(0).status) \in Reported
    BY UnsetStatus DEF Unset, Call, OutcomeOf, Reported
  <2> QED BY <1>1, <1>3, <2>1
<1> QED BY <1>2, <1>3 DEF Init

\* Every step is one of Outcome's, or changes nothing that Outcome sees.
LEMMA NextMaps == Inv /\ [Next]_vars => [O!Next]_(O!vars)
<1> SUFFICES ASSUME Inv, [Next]_vars PROVE O!Begin \/ O!Report \/ O!Return \/ Seen' = Seen
  BY DEF O!Next, O!vars
<1>1. CASE Enter
  <2>1. PICK c \in Starts(Len(failures)) : stack' = Append(stack, c)
    BY <1>1 DEF Enter
  <2>2. c \in CallType /\ c.status.is_ok
    BY InvFacts, StartsAreSound DEF SoundCall
  <2> QED BY <2>1, <2>2, BeginMaps DEF OutcomeOf
<1>2. CASE EnterUnset
  <2>1. PICK c : c = Unset(Len(failures))
    OBVIOUS
  <2>2. stack' = Append(stack, c)
    BY <1>2, <2>1 DEF EnterUnset
  <2>3. c \in CallType /\ c.status = StatusOf(UnknownError)
    BY <2>1, InvFacts, UnsetIsSound DEF SoundCall
  <2>4. OutcomeOf(c.status) \in Reported
    BY <2>3, UnsetStatus DEF OutcomeOf, Reported
  <2> QED BY <2>2, <2>3, <2>4, BeginMaps
<1>3. CASE Return
  <2>1. Sound(Inner.status)
    BY InvFacts DEF Inner, SoundCall, CallType, Sound
  <2> QED BY <1>3, <2>1, ReturnMaps DEF Return
<1>4. CASE ReturnWrapped
  <2>1. Sound(Inner.status)
    BY InvFacts DEF Inner, SoundCall, CallType, Sound
  <2>2. Sound(Wrapped(Inner.status))
    BY <2>1, OkStatuses DEF Wrapped
  <2>3. OutcomeOf(Wrapped(Inner.status)) = OutcomeOf(Inner.status)
    BY OkStatuses DEF Wrapped, OutcomeOf
  <2> QED BY <1>4, <2>2, <2>3, ReturnMaps DEF ReturnWrapped
<1>5. ASSUME NEW e \in Errors, NEW msg \in Details, Step(e, msg)
      PROVE  O!Report \/ Seen' = Seen
  <2>1. PICK t : t = StatusWith(e, msg)
    OBVIOUS
  <2>2. Sound(t) /\ (t.is_ok <=> ~IsError(e))
    BY <2>1, StatusWithDetails
  <2>3. stack' = [stack EXCEPT ![Top] = Absorb(Inner, t)]
    BY <1>5, <2>1 DEF Step
  <2>4. Seen' = [Seen EXCEPT ![Top] =
                   IF Seen[Top] = Fine THEN OutcomeOf(t) ELSE Seen[Top]]
    BY <2>2, <2>3, ReportMaps, SeenIs
  <2>5. Seen \in Seq(Outcomes) /\ Len(Seen) = Top
    BY InvFacts, OutcomesType, SeenIs
  <2>6. CASE IsError(e)
    <3>1. OutcomeOf(t) \in Reported
      BY <2>1, <2>2, <2>6 DEF OutcomeOf, Reported
    <3> QED BY <2>4, <2>5, <3>1 DEF O!Report, O!Hears, O!Top
  <2>7. CASE ~IsError(e)
    <3>1. OutcomeOf(t) = Fine
      BY <2>2, <2>7 DEF OutcomeOf
    <3>2. Seen' = [Seen EXCEPT ![Top] = Seen[Top]]
      BY <2>4, <3>1
    <3> QED BY <2>5, <3>2
  <2> QED BY <2>6, <2>7
<1>6. ASSUME NEW v \in Values, Compute(v) PROVE Seen' = Seen
  <2>1. Inner \in CallType /\ Top \in 1 .. Len(stack)
    BY InvFacts DEF Inner, SoundCall
  <2>2. SetValue(Inner, v).status = Inner.status /\ SetValue(Inner, v) \in CallType
    BY <2>1 DEF SetValue, CallType
  <2>3. stack' = [stack EXCEPT ![Top] = SetValue(Inner, v)]
    BY <1>6 DEF Compute
  <2>4. /\ Len(stack') = Len(stack)
        /\ \A k \in 1 .. Len(stack) : stack'[k].status = stack[k].status
    BY <2>1, <2>2, <2>3, InvFacts DEF Inner
  <2> QED BY <2>4 DEF Seen, Top
<1>7. CASE UNCHANGED vars
  BY <1>7 DEF vars, Seen, Top
<1> QED BY <1>1, <1>2, <1>3, <1>4, <1>5, <1>6, <1>7 DEF Next

\* Status and StatusOr implement Outcome: nothing a call does to its Status or StatusOr,
\* in whatever order, amounts to anything else than beginning, hearing of a failure or
\* handing over the first one.
THEOREM Refinement == Spec => ImplementsOutcome
BY InitInv, NextKeepsInv, InitMaps, NextMaps, PTL DEF Spec, ImplementsOutcome, O!Spec
===============================================================================
