---------------------------- MODULE EnvironProofs ----------------------------
(***************************************************************************)
(* The environment's maps, for any number of threads, keys and values and  *)
(* for any programs, orderly or not: what the mutex and the order of the   *)
(* calls are enough for, what an answer may be, and the refinement of      *)
(* EnvMap.                                                                  *)
(***************************************************************************)
EXTENDS Environ, FiniteSetTheorems, WellFoundedInduction, SequenceTheorems, TLAPS

\* A set of natural numbers has a least one: the intervals from zero to its members are
\* finite sets, and strict inclusion of finite sets is well-founded.
LEMMA LeastNumber ==
  ASSUME NEW T, T \subseteq Nat, T # {}
  PROVE  \E x \in T : \A y \in T : x <= y
<1> DEFINE U == {0..n : n \in T}
<1>1. PICK R : R = StrictSubsetOrdering(Nat)
  OBVIOUS
<1>2. PICK F : F = FiniteSubsetsOf(Nat)
  OBVIOUS
<1>3. IsWellFoundedOn(R, F)
  BY <1>1, <1>2, FS_StrictSubsetOrderingWellFounded
<1>4. U \subseteq F
  <2>1. ASSUME NEW n \in T PROVE 0..n \in F
    <3>1. IsFiniteSet(0..n)
      BY FS_Interval
    <3> QED BY <3>1, <1>2 DEF FiniteSubsetsOf
  <2> QED BY <2>1
<1>5. U # {}
  OBVIOUS
<1>6. PICK V : V = U
  OBVIOUS
<1>7. \E v \in V : \A w \in V : ~ (<<w, v>> \in R)
  BY <1>3, <1>4, <1>5, <1>6, WFMin
<1>8. PICK x \in T : \A y \in T : ~ (<<0..y, 0..x>> \in R)
  BY <1>6, <1>7
<1>9. ASSUME NEW y \in T, y < x PROVE FALSE
  <2>1. 0..y \subseteq 0..x /\ 0..y # 0..x
    <3>1. x \in 0..x /\ x \notin 0..y
      BY <1>9
    <3> QED BY <3>1, <1>9
  <2>2. <<0..y, 0..x>> \in R
    BY <2>1, <1>1 DEF StrictSubsetOrdering
  <2> QED BY <2>2, <1>8
<1>10. \A y \in T : x <= y
  BY <1>9
<1> QED BY <1>10

\* A set of numbers up to n has a greatest one.
LEMMA GreatestNumber ==
  ASSUME NEW n \in Nat, NEW S, S \subseteq 1 .. n, S # {}
  PROVE  \E x \in S : \A y \in S : y <= x
<1> DEFINE T == {n - i : i \in S}
<1>1. T \subseteq Nat /\ T # {}
  <2>1. \A i \in S : n - i \in Nat
    OBVIOUS
  <2> QED BY <2>1
<1>2. PICK m \in T : \A y \in T : m <= y
  <2> HIDE DEF T
  <2> QED BY <1>1, LeastNumber
<1>3. PICK x \in S : m = n - x
  BY <1>2
<1>4. ASSUME NEW y \in S PROVE y <= x
  <2>1. n - x <= n - y
    BY <1>2, <1>3
  <2> QED BY <2>1
<1> QED BY <1>4

Places == {"idle", "find", "at", "reading", "system", "copy", "store", "erase", "erasing",
           "clearing", "fill"}
MaybeVals == Vals \cup {NoValue}

\* TypeOK: what a thread's control is made of, and the data.
ControlOK ==
  /\ rounds \in Programs /\ round \in 0 .. Len(rounds)
  /\ prog \in [Threads -> Seq(Calls)]
  /\ pc \in [Threads -> Places]
  /\ left \in [Threads -> Seq(Keys \X Vals)]
DataOK ==
  /\ process \in [Keys -> MaybeVals] /\ user \in [Keys -> MaybeVals]
  /\ system \in [Keys -> MaybeVals]
  /\ made \subseteq {"user", "system"}
  /\ stale \in [Threads -> BOOLEAN]
  /\ answer \in [Threads -> MaybeVals] /\ seen \in [Threads -> SUBSET Vals]
  /\ last \in [Keys -> MaybeVals]
  /\ fault \in {"none", "race", "out_of_range", "dangling"}
TypeOK == ControlOK /\ DataOK

\* A thread in the middle of a call: the call fits the place, and has made the user's map.
FitsPlace(op, place) ==
  /\ place \in {"find", "at", "reading", "system"} => op \in {"get", "enabled"}
  /\ place = "copy" => op = "enabled"
  /\ place = "store" => op = "set"
  /\ place \in {"erase", "erasing"} => op = "unset"
  /\ place \in {"clearing", "fill"} => op = "init"
PlacesFit ==
  \A t \in Threads :
    /\ pc[t] # "idle" => prog[t] # <<>> /\ FitsPlace(Call(t).op, pc[t]) /\ "user" \in made
    /\ left[t] # <<>> <=> pc[t] = "fill"

\* A thread that changes the process's environment is alone.
PutenvAlone ==
  \A t \in Threads : \A j \in DOMAIN prog[t] :
    prog[t][j].op = "putenv" => \A s \in Threads \ {t} : prog[s] = <<>>

\* What is left of a quiet round is quiet.
QuietNow ==
  \/ \A s, t \in Threads : prog[s] # <<>> /\ prog[t] # <<>> => s = t
  \/ \A t \in Threads : \A j \in DOMAIN prog[t] : prog[t][j].op \in {"get", "enabled"}
  \/ \A t \in Threads : \A j \in DOMAIN prog[t] : prog[t][j].op = "set"
StaysQuiet == Orderly => QuietNow

\* In an orderly program what get() has seen of the user's map stays so.
LooksStayTrue ==
  Orderly =>
    /\ fault = "none"
    /\ \A t \in Threads :
         /\ pc[t] \in {"find", "at", "reading", "copy"} => user[Key(t)] # NoValue
         /\ pc[t] = "system" => user[Key(t)] = NoValue
         /\ pc[t] = "copy" => ~stale[t]

SystemAnswer(k) == IF system[k] # NoValue THEN system[k] ELSE Empty

\* What a call may answer is recorded from its first look at the user's map on.
SeenFits(t) ==
  /\ Getting(t) => Overlay(user, Key(t)) \in seen[t]
  /\ pc[t] = "system" => SystemAnswer(Key(t)) \in seen[t]
  /\ ~Getting(t) /\ answer[t] # NoValue /\ (Orderly \/ answer[t] # Empty)
       => answer[t] \in seen[t]
SeenIsComplete == \A t \in Threads : SeenFits(t)

\* In an orderly program the last answer for a key is what the next one will be.
LastIsNext ==
  Orderly =>
    \A k \in Keys : last[k] # NoValue =>
      /\ last[k] = Overlay(user, k) /\ "user" \in made
      /\ user[k] = NoValue => "system" \in made

-----------------------------------------------------------------------------
(* Sequences and types.                                                    *)

LEMMA TailFacts ==
  ASSUME NEW S, NEW s \in Seq(S), s # <<>>
  PROVE  /\ Tail(s) \in Seq(S) /\ Len(s) >= 1 /\ Len(Tail(s)) = Len(s) - 1
         /\ Tail(s) = <<>> <=> Len(s) = 1
         /\ \A i \in 1 .. Len(s) - 1 : Tail(s)[i] = s[i + 1]
<1>1. Len(s) \in Nat \ {0}
  BY EmptySeq
<1>2. Tail(s) \in Seq(S) /\ Len(Tail(s)) = Len(s) - 1
  BY HeadTailProperties
<1>3. \A i \in 1 .. Len(s) - 1 : Tail(s)[i] = s[i + 1]
  BY HeadTailProperties
<1>4. Tail(s) = <<>> <=> Len(Tail(s)) = 0
  BY <1>1, <1>2, EmptySeq
<1> QED BY <1>1, <1>2, <1>3, <1>4

\* The next call of a thread, and its arguments.
LEMMA CallFacts ==
  ASSUME TypeOK, NEW t \in Threads, prog[t] # <<>>
  PROVE  /\ Call(t) \in Calls /\ Tail(prog[t]) \in Seq(Calls)
         /\ Call(t).op \in {"get", "enabled", "unset", "set", "putenv", "init"}
         /\ Call(t).op # "init" => Key(t) \in Keys
         /\ Call(t).op \in {"set", "putenv"} => Call(t).v \in Vals
         /\ Call(t).op = "init" => Call(t).list \in Seq(Keys \X Vals)
<1>1. prog[t] \in Seq(Calls)
  BY DEF TypeOK, ControlOK, DataOK
<1>2. Call(t) \in Calls /\ Tail(prog[t]) \in Seq(Calls)
  BY <1>1 DEF Call
<1>3. PICK c : c = Call(t)
  OBVIOUS
<1>4. \/ c \in [op : {"get", "enabled", "unset"}, k : Keys]
      \/ c \in [op : {"set", "putenv"}, k : Keys, v : Vals]
      \/ c \in [op : {"init"}, list : Lists]
  BY <1>2, <1>3 DEF Calls
<1>5. Lists \subseteq Seq(Keys \X Vals)
  BY ConstantsAssumption
<1>6. CASE c \in [op : {"get", "enabled", "unset"}, k : Keys]
  BY <1>2, <1>3, <1>6 DEF Key
<1>7. CASE c \in [op : {"set", "putenv"}, k : Keys, v : Vals]
  BY <1>2, <1>3, <1>7 DEF Key
<1>8. CASE c \in [op : {"init"}, list : Lists]
  BY <1>2, <1>3, <1>5, <1>8 DEF Key
<1> QED BY <1>4, <1>6, <1>7, <1>8

\* A thread in the middle of a call.
LEMMA PlaceFacts ==
  ASSUME TypeOK, PlacesFit, NEW t \in Threads, pc[t] # "idle"
  PROVE  /\ prog[t] # <<>> /\ FitsPlace(Call(t).op, pc[t]) /\ "user" \in made
         /\ pc[t] \notin {"clearing", "fill"} => Key(t) \in Keys
<1>1. prog[t] # <<>> /\ FitsPlace(Call(t).op, pc[t]) /\ "user" \in made
  BY DEF PlacesFit
<1>2. pc[t] \in Places
  BY DEF TypeOK, ControlOK, DataOK
<1>3. pc[t] \notin {"clearing", "fill"} => Call(t).op # "init"
  BY <1>1, <1>2 DEF Places, FitsPlace
<1> QED BY <1>1, <1>3, CallFacts

LEMMA OverlayType ==
  ASSUME TypeOK, NEW u \in [Keys -> MaybeVals], NEW k \in Keys
  PROVE  Overlay(u, k) \in Vals /\ SystemAnswer(k) \in Vals
<1>1. Empty \in Vals
  BY ConstantsAssumption
<1> QED BY <1>1 DEF Overlay, SystemAnswer, TypeOK, DataOK, MaybeVals

\* The variables that every change of the user's map sets.
LEMMA ChangeType ==
  ASSUME TypeOK, PlacesFit, NEW u \in [Keys -> MaybeVals], NEW touched, Change(u, touched)
  PROVE  /\ user' \in [Keys -> MaybeVals] /\ last' \in [Keys -> MaybeVals]
         /\ stale' \in [Threads -> BOOLEAN] /\ seen' \in [Threads -> SUBSET Vals]
<1>1. user' \in [Keys -> MaybeVals] /\ last' \in [Keys -> MaybeVals]
  BY DEF Change, TypeOK, DataOK, MaybeVals
<1>2. stale' \in [Threads -> BOOLEAN]
  <2>1. \A t \in Threads : (stale[t] \/ (pc[t] = "copy" /\ Key(t) \in touched)) \in BOOLEAN
    OBVIOUS
  <2> QED BY <2>1, Zenon DEF Change
<1>3. ASSUME NEW t \in Threads, Getting(t)
      PROVE  seen[t] \cup {Overlay(u, Key(t))} \in SUBSET Vals
  <2>1. Key(t) \in Keys
    BY <1>3, PlaceFacts DEF Getting
  <2> QED BY <2>1, OverlayType DEF TypeOK, ControlOK, DataOK
<1>4. seen' \in [Threads -> SUBSET Vals]
  BY <1>3 DEF Change, TypeOK, DataOK
<1> QED BY <1>1, <1>2, <1>4

-----------------------------------------------------------------------------
(* How a step moves the thread that takes it, and the control invariants.   *)

Moves(t, place, l) ==
  /\ prog[t] # <<>> /\ pc' = [pc EXCEPT ![t] = place] /\ place \in Places
  /\ \/ prog' = prog
     \/ place = "idle" /\ prog' = [prog EXCEPT ![t] = Tail(@)]
  /\ left' = [left EXCEPT ![t] = l] /\ l \in Seq(Keys \X Vals)
  /\ l # <<>> <=> place = "fill"
  /\ place # "idle" => FitsPlace(Call(t).op, place) /\ "user" \in made'
  /\ made \subseteq made' /\ rounds' = rounds /\ round' = round
Halts == /\ fault' \in {"race", "out_of_range", "dangling"}
         /\ UNCHANGED <<process, user, system, made, threadVars, pc, stale, historyVars>>

LEMMA MovesControl ==
  ASSUME TypeOK, PlacesFit, NEW t \in Threads, NEW place, NEW l, Moves(t, place, l)
  PROVE  ControlOK' /\ PlacesFit'
<1>1. prog' \in [Threads -> Seq(Calls)]
  <2>1. Tail(prog[t]) \in Seq(Calls)
    BY CallFacts DEF Moves
  <2> QED BY <2>1 DEF Moves, TypeOK, ControlOK
<1>2. ControlOK'
  BY <1>1 DEF Moves, TypeOK, ControlOK
<1>3. ASSUME NEW d \in Threads
      PROVE  /\ pc'[d] # "idle" =>
                  prog'[d] # <<>> /\ FitsPlace(Head(prog'[d]).op, pc'[d]) /\ "user" \in made'
             /\ left'[d] # <<>> <=> pc'[d] = "fill"
  <2>1. CASE d = t
    <3>1. pc'[d] = place /\ left'[d] = l
      BY <2>1 DEF Moves, TypeOK, ControlOK
    <3>2. place # "idle" => prog'[d] = prog[d]
      BY DEF Moves
    <3> QED BY <2>1, <3>1, <3>2 DEF Moves, Call
  <2>2. CASE d # t
    <3>1. pc'[d] = pc[d] /\ left'[d] = left[d] /\ prog'[d] = prog[d]
      BY <2>2 DEF Moves, TypeOK, ControlOK
    <3> QED BY <3>1 DEF PlacesFit, Moves, Call
  <2> QED BY <2>1, <2>2
<1>4. PlacesFit'
  BY <1>3 DEF PlacesFit, Call
<1> QED BY <1>2, <1>4

\* What is left of a program after a step was left of it before.
Shrinks == \A d \in Threads : /\ prog'[d] # <<>> => prog[d] # <<>>
                                 /\ \A j \in DOMAIN prog'[d] :
                                      \E i \in DOMAIN prog[d] : prog'[d][j] = prog[d][i]
LEMMA MovesShrink ==
  ASSUME TypeOK, NEW t \in Threads, NEW place, NEW l, Moves(t, place, l)
  PROVE  Shrinks
<1> SUFFICES ASSUME NEW d \in Threads
             PROVE  /\ prog'[d] # <<>> => prog[d] # <<>>
                    /\ \A j \in DOMAIN prog'[d] :
                         \E i \in DOMAIN prog[d] : prog'[d][j] = prog[d][i]
  BY DEF Shrinks
<1>1. CASE prog'[d] = prog[d]
  BY <1>1
<1>2. CASE prog'[d] = Tail(prog[d]) /\ prog[d] # <<>>
  <2>1. PICK p \in Seq(Calls) : p = prog[d] /\ p # <<>>
    BY <1>2 DEF TypeOK, ControlOK
  <2>2. \A j \in DOMAIN Tail(p) : j + 1 \in DOMAIN p /\ Tail(p)[j] = p[j + 1]
    BY <2>1
  <2> QED BY <1>2, <2>1, <2>2
<1>3. prog'[d] = prog[d] \/ (prog'[d] = Tail(prog[d]) /\ prog[d] # <<>>)
  BY DEF Moves, TypeOK, ControlOK
<1> QED BY <1>1, <1>2, <1>3

\* Being orderly is a matter of the program, not of how far it is.
LEMMA OrderlyStays ==
  ASSUME rounds' = rounds
  PROVE  Orderly' <=> Orderly
  BY DEF Orderly, QuietRound

LEMMA MovesQuiet ==
  ASSUME TypeOK, NEW t \in Threads, NEW place, NEW l, Moves(t, place, l), PutenvAlone, StaysQuiet
  PROVE  PutenvAlone' /\ StaysQuiet'
<1>1. Shrinks
  BY MovesShrink
<1>2. PutenvAlone'
  BY <1>1 DEF PutenvAlone, Shrinks
<1>3. QuietNow => QuietNow'
  BY <1>1 DEF QuietNow, Shrinks
<1>4. Orderly' <=> Orderly
  BY OrderlyStays DEF Moves
<1> QED BY <1>2, <1>3, <1>4 DEF StaysQuiet

\* A step that has nothing to do with the list of init().
Stays(t, place) ==
  /\ prog[t] # <<>> /\ pc[t] # "fill" /\ place \in Places \ {"fill"}
  /\ pc' = [pc EXCEPT ![t] = place] /\ left' = left
  /\ \/ prog' = prog
     \/ place = "idle" /\ prog' = [prog EXCEPT ![t] = Tail(@)]
  /\ place # "idle" => FitsPlace(Call(t).op, place) /\ "user" \in made'
  /\ made \subseteq made' /\ rounds' = rounds /\ round' = round

LEMMA StaysMoves ==
  ASSUME TypeOK, PlacesFit, NEW t \in Threads, NEW place, Stays(t, place)
  PROVE  Moves(t, place, <<>>)
<1>1. left[t] = <<>>
  BY DEF PlacesFit, Stays
<1>2. left' = [left EXCEPT ![t] = <<>>]
  BY <1>1 DEF TypeOK, ControlOK, Stays
<1>3. <<>> \in Seq(Keys \X Vals)
  OBVIOUS
<1> QED BY <1>2, <1>3 DEF Moves, Stays

LEMMA GettingMoves ==
  ASSUME TypeOK, PlacesFit, NEW t \in Threads
  PROVE  /\ GetUser(t) => Stays(t, "system") \/ Stays(t, "find")
         /\ Find(t) => Stays(t, "idle") \/ Stays(t, "at")
         /\ BeginAt(t) => Stays(t, "reading")
         /\ EndAt(t) => Stays(t, "idle") \/ Stays(t, "copy") \/ Halts
         /\ Copy(t) => Stays(t, "idle") \/ Halts
         /\ GetSystem(t) => Stays(t, "idle")
<1> USE DEF Stays, Goto, Places, FitsPlace, Runs
<1>1. pc[t] # "idle" => FitsPlace(Call(t).op, pc[t]) /\ "user" \in made
  BY DEF PlacesFit
<1>2. ASSUME GetUser(t) PROVE Stays(t, "system") \/ Stays(t, "find")
  BY <1>2 DEF GetUser, Calling
<1>3. ASSUME Find(t) PROVE Stays(t, "idle") \/ Stays(t, "at")
  <2>1. CASE user[Key(t)] = NoValue
    BY <1>3, <2>1 DEF Find, In, Answer, Return
  <2>2. CASE user[Key(t)] # NoValue
    BY <1>1, <1>3, <2>2 DEF Find, In
  <2> QED BY <2>1, <2>2
<1>4. ASSUME BeginAt(t) PROVE Stays(t, "reading")
  BY <1>1, <1>4 DEF BeginAt, In
<1>5. ASSUME EndAt(t) PROVE Stays(t, "idle") \/ Stays(t, "copy") \/ Halts
  <2>1. CASE Fail("out_of_range")
    BY <2>1 DEF Fail, Halts
  <2>2. CASE Answer(t, user[Key(t)]) /\ UNCHANGED <<made, stale>>
    BY <1>5, <2>2 DEF EndAt, In, Answer, Return
  <2>3. CASE Call(t).op = "enabled" /\ Goto(t, "copy")
             /\ UNCHANGED <<process, user, system, made, rounds, round, left, historyVars, fault>>
    BY <1>1, <1>5, <2>3 DEF EndAt, In
  <2> QED BY <1>5, <2>1, <2>2, <2>3 DEF EndAt
<1>6. ASSUME Copy(t) PROVE Stays(t, "idle") \/ Halts
  <2>1. CASE Fail("dangling")
    BY <2>1 DEF Fail, Halts
  <2>2. CASE Answer(t, user[Key(t)]) /\ UNCHANGED <<made, stale>>
    BY <1>6, <2>2 DEF Copy, In, Answer, Return
  <2> QED BY <1>6, <2>1, <2>2 DEF Copy
<1>7. ASSUME GetSystem(t) PROVE Stays(t, "idle")
  BY <1>7 DEF GetSystem, In, Answer, Return
<1> QED BY <1>2, <1>3, <1>4, <1>5, <1>6, <1>7

LEMMA ChangingMoves ==
  ASSUME TypeOK, PlacesFit, NEW t \in Threads
  PROVE  /\ SetFind(t) => Stays(t, "store")
         /\ Store(t) => Stays(t, "idle")
         /\ UnsetFind(t) => Stays(t, "idle") \/ Stays(t, "erase")
         /\ BeginErase(t) => Stays(t, "erasing")
         /\ EndErase(t) => Stays(t, "idle")
         /\ BeginClear(t) => Stays(t, "clearing")
         /\ Putenv(t) => Stays(t, "idle")
         /\ Race(t) => Halts
<1> USE DEF Stays, Goto, Places, FitsPlace, Runs
<1>1. pc[t] # "idle" => FitsPlace(Call(t).op, pc[t]) /\ "user" \in made
  BY DEF PlacesFit
<1>2. ASSUME SetFind(t) PROVE Stays(t, "store")
  BY <1>2 DEF SetFind, Calling
<1>3. ASSUME Store(t) PROVE Stays(t, "idle")
  BY <1>3 DEF Store, In, Change, Return
<1>4. ASSUME UnsetFind(t) PROVE Stays(t, "idle") \/ Stays(t, "erase")
  <2>1. CASE user[Key(t)] = NoValue
    BY <1>4, <2>1 DEF UnsetFind, Calling, Return
  <2>2. CASE user[Key(t)] # NoValue
    BY <1>4, <2>2 DEF UnsetFind, Calling
  <2> QED BY <2>1, <2>2
<1>5. ASSUME BeginErase(t) PROVE Stays(t, "erasing")
  BY <1>1, <1>5 DEF BeginErase, In
<1>6. ASSUME EndErase(t) PROVE Stays(t, "idle")
  BY <1>6 DEF EndErase, In, Change, Return
<1>7. ASSUME BeginClear(t) PROVE Stays(t, "clearing")
  BY <1>7 DEF BeginClear, Calling
<1>8. ASSUME Putenv(t) PROVE Stays(t, "idle")
  BY <1>8 DEF Putenv, Calling, Return
<1>9. ASSUME Race(t) PROVE Halts
  BY <1>9 DEF Race, Fail, Halts
<1> QED BY <1>2, <1>3, <1>4, <1>5, <1>6, <1>7, <1>8, <1>9

\* The steps of init() after the first.
LEMMA FillingMoves ==
  ASSUME TypeOK, PlacesFit, NEW t \in Threads
  PROVE  /\ EndClear(t) => \E place \in {"idle", "fill"} : Moves(t, place, Call(t).list)
         /\ Fill(t) => \E place \in {"idle", "fill"} : Moves(t, place, Tail(left[t]))
<1> USE DEF Moves, Goto, Return, Places, FitsPlace, Runs
<1>1. pc[t] # "idle" => FitsPlace(Call(t).op, pc[t]) /\ "user" \in made
  BY DEF PlacesFit
<1>2. ASSUME EndClear(t) PROVE \E place \in {"idle", "fill"} : Moves(t, place, Call(t).list)
  <2>1. prog[t] # <<>> /\ pc[t] = "clearing"
    BY <1>2 DEF EndClear, In
  <2>2. Call(t).op = "init" /\ Call(t).list \in Seq(Keys \X Vals)
    BY <1>1, <2>1, CallFacts
  <2>3. left' = [left EXCEPT ![t] = Call(t).list] /\ UNCHANGED <<made, rounds, round>>
    BY <1>2 DEF EndClear, Change
  <2>4. CASE Call(t).list = <<>>
    <3>1. Moves(t, "idle", Call(t).list)
      BY <1>2, <2>1, <2>2, <2>3, <2>4 DEF EndClear
    <3> QED BY <3>1
  <2>5. CASE Call(t).list # <<>>
    <3>1. Moves(t, "fill", Call(t).list)
      BY <1>1, <1>2, <2>1, <2>2, <2>3, <2>5 DEF EndClear
    <3> QED BY <3>1
  <2> QED BY <2>4, <2>5
<1>3. ASSUME Fill(t) PROVE \E place \in {"idle", "fill"} : Moves(t, place, Tail(left[t]))
  <2>1. prog[t] # <<>> /\ pc[t] = "fill"
    BY <1>3 DEF Fill, In
  <2>2. PICK l \in Seq(Keys \X Vals) : l = left[t] /\ l # <<>>
    BY <2>1 DEF PlacesFit, TypeOK, ControlOK
  <2>3. Tail(l) \in Seq(Keys \X Vals) /\ (Tail(l) = <<>> <=> Len(l) = 1)
    BY <2>2, TailFacts
  <2>4. left' = [left EXCEPT ![t] = Tail(l)] /\ UNCHANGED <<made, rounds, round>>
    BY <1>3, <2>2 DEF Fill, Change
  <2>5. CASE Len(left[t]) = 1
    <3>1. Moves(t, "idle", Tail(l))
      BY <1>3, <2>1, <2>2, <2>3, <2>4, <2>5 DEF Fill
    <3> QED BY <2>2, <3>1
  <2>6. CASE Len(left[t]) # 1
    <3>1. Moves(t, "fill", Tail(l))
      BY <1>1, <1>3, <2>1, <2>2, <2>3, <2>4, <2>6 DEF Fill
    <3> QED BY <2>2, <3>1
  <2> QED BY <2>5, <2>6
<1> QED BY <1>2, <1>3

\* Every step of a thread moves it or ends the program.
LEMMA StepMoves ==
  ASSUME TypeOK, PlacesFit, NEW t \in Threads, Step(t)
  PROVE  Halts \/ \E place, l : Moves(t, place, l)
<1>1. (\E place : Stays(t, place)) => \E place, l : Moves(t, place, l)
  BY StaysMoves
<1> QED BY <1>1, GettingMoves, ChangingMoves, FillingMoves DEF Step

LEMMA GettingData ==
  ASSUME TypeOK, PlacesFit, NEW t \in Threads,
         GetUser(t) \/ Find(t) \/ BeginAt(t) \/ EndAt(t) \/ Copy(t) \/ GetSystem(t)
  PROVE  DataOK'
<1> USE DEF TypeOK, DataOK, Runs
<1>1. Empty \in Vals
  BY ConstantsAssumption
<1>2. ASSUME NEW v \in MaybeVals, Answer(t, v), stale' = stale, made' \subseteq {"user", "system"}
      PROVE  DataOK'
  BY <1>2 DEF Answer
<1>3. ASSUME NEW kind \in {"race", "out_of_range", "dangling"}, Fail(kind) PROVE DataOK'
  BY <1>3 DEF Fail, historyVars
<1>4. pc[t] # "idle" /\ pc[t] \notin {"clearing", "fill"} => Key(t) \in Keys
  BY PlaceFacts
<1>5. pc[t] # "idle" /\ pc[t] \notin {"clearing", "fill"} => user[Key(t)] \in MaybeVals
  BY <1>4
<1>6. CASE GetUser(t)
  <2>1. Key(t) \in Keys
    BY <1>6, CallFacts DEF GetUser, Calling
  <2>2. Overlay(user, Key(t)) \in Vals
    BY <2>1, OverlayType
  <2> QED BY <1>6, <2>2 DEF GetUser
<1>7. CASE Find(t)
  <2>1. CASE Answer(t, Empty)
    BY <1>1, <1>2, <1>7, <2>1 DEF Find, MaybeVals
  <2>2. CASE UNCHANGED <<process, user, system, rounds, round, left, historyVars, fault>>
    BY <1>7, <2>2 DEF Find, historyVars
  <2> QED BY <1>7, <2>1, <2>2 DEF Find
<1>8. CASE BeginAt(t)
  BY <1>8 DEF BeginAt, historyVars
<1>9. CASE EndAt(t)
  <2>1. pc[t] = "reading"
    BY <1>9 DEF EndAt, In
  <2>2. CASE Answer(t, user[Key(t)]) /\ UNCHANGED <<made, stale>>
    BY <1>2, <1>5, <2>1, <2>2
  <2>3. CASE /\ stale' = [stale EXCEPT ![t] = FALSE]
             /\ UNCHANGED <<process, user, system, made, rounds, round, left, historyVars, fault>>
    BY <2>3 DEF historyVars
  <2> QED BY <1>3, <1>9, <2>2, <2>3 DEF EndAt
<1>10. CASE Copy(t)
  <2>1. pc[t] = "copy"
    BY <1>10 DEF Copy, In
  <2>2. CASE Answer(t, user[Key(t)]) /\ UNCHANGED <<made, stale>>
    BY <1>2, <1>5, <2>1, <2>2
  <2> QED BY <1>3, <1>10, <2>2 DEF Copy
<1>11. CASE GetSystem(t)
  <2>1. pc[t] = "system" /\ made' = made \cup {"system"} /\ stale' = stale
    BY <1>11 DEF GetSystem, In
  <2>2. SystemAnswer(Key(t)) \in MaybeVals
    BY <1>4, <2>1, OverlayType, user \in [Keys -> MaybeVals] DEF MaybeVals
  <2>3. Answer(t, SystemAnswer(Key(t)))
    BY <1>11 DEF GetSystem, SystemAnswer
  <2> QED BY <1>2, <2>1, <2>2, <2>3
<1> QED BY <1>6, <1>7, <1>8, <1>9, <1>10, <1>11

LEMMA ChangingData ==
  ASSUME TypeOK, PlacesFit, NEW t \in Threads,
         \/ SetFind(t) \/ Store(t) \/ UnsetFind(t) \/ BeginErase(t) \/ EndErase(t)
         \/ BeginClear(t) \/ EndClear(t) \/ Fill(t) \/ Putenv(t) \/ Race(t)
  PROVE  DataOK'
<1> USE DEF Runs
<1>1. ASSUME NEW u \in [Keys -> MaybeVals], NEW touched, Change(u, touched) PROVE DataOK'
  <2>1. UNCHANGED <<process, system, made, answer, fault>>
    BY <1>1 DEF Change
  <2> QED BY <1>1, <2>1, ChangeType DEF TypeOK, DataOK
<1>2. /\ SetFind(t) \/ UnsetFind(t) \/ BeginErase(t) \/ BeginClear(t)
           => DataOK'
  BY DEF SetFind, UnsetFind, BeginErase, BeginClear, historyVars, TypeOK, DataOK
<1>3. CASE Store(t)
  <2>1. Call(t).v \in Vals
    BY <1>3, PlaceFacts, CallFacts DEF Store, In, FitsPlace
  <2>2. [user EXCEPT ![Key(t)] = Call(t).v] \in [Keys -> MaybeVals]
    BY <2>1 DEF MaybeVals, TypeOK, DataOK
  <2> QED BY <1>1, <1>3, <2>2 DEF Store
<1>4. CASE EndErase(t)
  <2>1. [user EXCEPT ![Key(t)] = NoValue] \in [Keys -> MaybeVals]
    BY DEF MaybeVals, TypeOK, DataOK
  <2> QED BY <1>1, <1>4, <2>1 DEF EndErase
<1>5. CASE EndClear(t)
  <2>1. [k \in Keys |-> NoValue] \in [Keys -> MaybeVals]
    BY DEF MaybeVals
  <2> QED BY <1>1, <1>5, <2>1 DEF EndClear
<1>6. CASE Fill(t)
  <2>1. left[t] \in Seq(Keys \X Vals) /\ left[t] # <<>>
    BY <1>6 DEF Fill, In, PlacesFit, TypeOK, ControlOK
  <2>2. PICK e : e = Head(left[t]) /\ e \in Keys \X Vals
    BY <2>1, HeadTailProperties
  <2>3. [user EXCEPT ![e[1]] = e[2]] \in [Keys -> MaybeVals]
    BY <2>2 DEF MaybeVals, TypeOK, DataOK
  <2>4. Change([user EXCEPT ![e[1]] = e[2]], {e[1]})
    BY <1>6, <2>2 DEF Fill
  <2> QED BY <1>1, <2>3, <2>4
<1>7. CASE Putenv(t)
  <2>1. Call(t).v \in Vals
    BY <1>7, CallFacts DEF Putenv, Calling
  <2>2. process' \in [Keys -> MaybeVals]
    BY <1>7, <2>1 DEF Putenv, MaybeVals, TypeOK, DataOK
  <2> QED BY <1>7, <2>2 DEF Putenv, historyVars, TypeOK, DataOK
<1>8. CASE Race(t)
  BY <1>8 DEF Race, Fail, historyVars, TypeOK, DataOK
<1> QED BY <1>2, <1>3, <1>4, <1>5, <1>6, <1>7, <1>8

\* The part of the invariant that every program keeps, orderly or not.
ControlInv == TypeOK /\ PlacesFit /\ PutenvAlone /\ StaysQuiet

LEMMA ControlInit == Init => ControlInv
<1> SUFFICES ASSUME Init PROVE ControlInv
  OBVIOUS
<1>1. process \in [Keys -> MaybeVals]
  BY ConstantsAssumption DEF Init, MaybeVals
<1>2. rounds \in Seq([Threads -> Seq(Calls)])
  BY ConstantsAssumption DEF Init
<1>3. TypeOK
  BY <1>1, <1>2 DEF Init, TypeOK, ControlOK, DataOK, Places, MaybeVals
<1>4. PlacesFit
  BY DEF Init, PlacesFit
<1>5. PutenvAlone /\ StaysQuiet
  BY DEF Init, PutenvAlone, StaysQuiet, QuietNow
<1> QED BY <1>3, <1>4, <1>5 DEF ControlInv

LEMMA ControlThread ==
  ASSUME ControlInv, NEW t \in Threads, Step(t)
  PROVE  ControlInv'
<1>1. TypeOK /\ PlacesFit /\ PutenvAlone /\ StaysQuiet
  BY DEF ControlInv
<1>2. DataOK'
  BY <1>1, GettingData, ChangingData DEF Step
<1>3. CASE Halts
  <2>1. /\ UNCHANGED <<rounds, round, prog, pc, left, made>>
    BY <1>3 DEF Halts, threadVars
  <2>2. ControlOK' /\ PlacesFit' /\ PutenvAlone'
    BY <1>1, <2>1 DEF TypeOK, ControlOK, PlacesFit, Call, PutenvAlone
  <2>3. StaysQuiet'
    BY <1>1, <2>1, OrderlyStays DEF StaysQuiet, QuietNow
  <2> QED BY <1>2, <2>2, <2>3 DEF ControlInv, TypeOK
<1>4. CASE \E place, l : Moves(t, place, l)
  <2>1. PICK place, l : Moves(t, place, l)
    BY <1>4
  <2> QED BY <1>1, <1>2, <2>1, MovesControl, MovesQuiet DEF ControlInv, TypeOK
<1> QED BY <1>1, <1>3, <1>4, StepMoves

LEMMA ControlNextRound ==
  ASSUME ControlInv, NextRound
  PROVE  ControlInv'
<1>1. TypeOK /\ PlacesFit /\ PutenvAlone /\ StaysQuiet
  BY DEF ControlInv
<1>2. /\ round < Len(rounds) /\ round' = round + 1 /\ prog' = rounds[round + 1]
      /\ UNCHANGED <<process, user, system, made, rounds, pc, left, stale>>
      /\ UNCHANGED <<answer, seen, last, fault>>
      /\ \A t \in Threads : prog[t] = <<>>
  BY DEF NextRound, Joined, historyVars
<1>3. PICK p \in Seq([Threads -> Seq(Calls)]) : p = rounds
  BY <1>1, ConstantsAssumption DEF TypeOK, ControlOK
<1>4. round + 1 \in DOMAIN p /\ p[round + 1] \in [Threads -> Seq(Calls)]
  BY <1>1, <1>2, <1>3 DEF TypeOK, ControlOK
<1>5. TypeOK'
  BY <1>1, <1>2, <1>3, <1>4 DEF TypeOK, ControlOK, DataOK
<1>6. \A t \in Threads : pc[t] = "idle"
  BY <1>1, <1>2 DEF PlacesFit
<1>7. PlacesFit'
  BY <1>1, <1>2, <1>6 DEF PlacesFit
<1>8. rounds \in Programs
  BY <1>1 DEF TypeOK, ControlOK
<1>9. PutenvAlone'
  <2>1. \A t \in Threads : \A j \in DOMAIN rounds[round + 1][t] :
          rounds[round + 1][t][j].op = "putenv" =>
            \A s \in Threads \ {t} : rounds[round + 1][s] = <<>>
    BY <1>3, <1>4, <1>8, ConstantsAssumption
  <2> QED BY <1>2, <2>1 DEF PutenvAlone
<1>10. StaysQuiet'
  <2>1. SUFFICES ASSUME Orderly' PROVE QuietNow'
    BY DEF StaysQuiet
  <2>2. QuietRound(rounds[round + 1])
    <3>1. Orderly
      BY <1>2, <2>1, OrderlyStays
    <3> QED BY <1>3, <1>4, <3>1 DEF Orderly
  <2>3. PICK r : r = rounds[round + 1] /\ r = prog'
    BY <1>2
  <2>4. CASE \A s, t \in Threads : r[s] # <<>> /\ r[t] # <<>> => s = t
    BY <2>3, <2>4 DEF QuietNow
  <2>5. ASSUME NEW ops, UNION {OpsOf(r[t]) : t \in Threads} \subseteq ops
        PROVE  \A t \in Threads : \A j \in DOMAIN prog'[t] : prog'[t][j].op \in ops
    BY <2>3, <2>5 DEF OpsOf
  <2>6. CASE UNION {OpsOf(r[t]) : t \in Threads} \subseteq {"get", "enabled"}
    BY <2>5, <2>6 DEF QuietNow
  <2>7. CASE UNION {OpsOf(r[t]) : t \in Threads} \subseteq {"set"}
    <3>1. \A t \in Threads : \A j \in DOMAIN prog'[t] : prog'[t][j].op \in {"set"}
      BY <2>5, <2>7
    <3> QED BY <3>1 DEF QuietNow
  <2> QED BY <2>2, <2>3, <2>4, <2>6, <2>7 DEF QuietRound
<1> QED BY <1>5, <1>7, <1>9, <1>10 DEF ControlInv

LEMMA ControlSame ==
  ASSUME ControlInv, UNCHANGED vars
  PROVE  ControlInv'
<1>1. /\ UNCHANGED <<process, user, system, made, rounds, round, prog, left, pc, stale>>
      /\ UNCHANGED <<answer, seen, last, fault>>
  BY DEF vars, threadVars, historyVars
<1>2. TypeOK' /\ PlacesFit' /\ PutenvAlone'
  BY <1>1 DEF ControlInv, TypeOK, ControlOK, DataOK, PlacesFit, Call, PutenvAlone
<1>3. StaysQuiet'
  BY <1>1, OrderlyStays DEF ControlInv, StaysQuiet, QuietNow
<1> QED BY <1>2, <1>3 DEF ControlInv

LEMMA ControlStep ==
  ASSUME ControlInv, [Next \/ Halted]_vars
  PROVE  ControlInv'
BY ControlThread, ControlNextRound, ControlSame DEF Next, Halted

-----------------------------------------------------------------------------
(* Orderly programs: nobody changes what another thread looks at.           *)

Gets(t) == GetUser(t) \/ Find(t) \/ BeginAt(t) \/ EndAt(t) \/ Copy(t) \/ GetSystem(t)
Looks(t) == SetFind(t) \/ UnsetFind(t) \/ BeginErase(t) \/ BeginClear(t)
Changes(t) == Store(t) \/ EndErase(t) \/ EndClear(t) \/ Fill(t)

LEMMA StepSplits ==
  ASSUME ControlInv, NEW t \in Threads, Step(t)
  PROVE  /\ prog[t] # <<>>
         /\ Gets(t) \/ Looks(t) \/ Changes(t) \/ Putenv(t) \/ Race(t)
         /\ Gets(t) => Call(t).op \in {"get", "enabled"}
         /\ Looks(t) \/ Changes(t) => Call(t).op \in {"set", "unset", "init"}
         /\ Putenv(t) => Call(t).op = "putenv"
<1>1. prog[t] # <<>>
  BY DEF Step, GetUser, Find, BeginAt, EndAt, Copy, GetSystem, SetFind, UnsetFind, BeginErase,
         BeginClear, Store, EndErase, EndClear, Fill, Putenv, Race, In, Calling, Runs
<1>2. pc[t] # "idle" => FitsPlace(Call(t).op, pc[t])
  BY DEF ControlInv, PlacesFit
<1>3. Gets(t) => Call(t).op \in {"get", "enabled"}
  BY <1>2 DEF Gets, GetUser, Find, BeginAt, EndAt, Copy, GetSystem, In, Calling, FitsPlace
<1>4. Looks(t) => Call(t).op \in {"set", "unset", "init"}
  BY <1>2 DEF Looks, SetFind, UnsetFind, BeginErase, BeginClear, In, Calling, FitsPlace
<1>5. Changes(t) => Call(t).op \in {"set", "unset", "init"}
  BY <1>2 DEF Changes, Store, EndErase, EndClear, Fill, In, FitsPlace
<1>6. Putenv(t) => Call(t).op = "putenv"
  BY DEF Putenv, Calling
<1>7. Gets(t) \/ Looks(t) \/ Changes(t) \/ Putenv(t) \/ Race(t)
  BY DEF Step, Gets, Looks, Changes
<1> QED BY <1>1, <1>3, <1>4, <1>5, <1>6, <1>7

\* Two threads in the middle of a quiet round make calls of one kind.
LEMMA TogetherTheyAgree ==
  ASSUME ControlInv, Orderly, NEW s \in Threads, NEW t \in Threads, s # t,
         prog[s] # <<>>, prog[t] # <<>>
  PROVE  \/ Call(s).op \in {"get", "enabled"} /\ Call(t).op \in {"get", "enabled"}
         \/ Call(s).op = "set" /\ Call(t).op = "set"
<1>1. \A d \in Threads : prog[d] # <<>> => 1 \in DOMAIN prog[d] /\ Call(d) = prog[d][1]
  <2>1. ASSUME NEW d \in Threads, prog[d] # <<>>
        PROVE  1 \in DOMAIN prog[d] /\ Call(d) = prog[d][1]
    <3>1. prog[d] \in Seq(Calls)
      BY DEF ControlInv, TypeOK, ControlOK
    <3> QED BY <2>1, <3>1, EmptySeq DEF Call
  <2> QED BY <2>1
<1>2. QuietNow
  BY DEF ControlInv, StaysQuiet
<1> QED BY <1>1, <1>2 DEF QuietNow

LEMMA NoRace ==
  ASSUME ControlInv, Orderly, NEW t \in Threads, prog[t] # <<>>
  PROVE  ~Races(t)
<1>1. SUFFICES ASSUME NEW d \in Threads \ {t},
                      \/ pc[d] \in {"erasing", "clearing"}
                      \/ pc[d] = "reading" /\ WritesNext(t)
               PROVE  FALSE
  BY DEF Races
<1>2. prog[d] # <<>> /\ FitsPlace(Call(d).op, pc[d])
  BY <1>1 DEF ControlInv, PlacesFit
<1>3. pc[t] # "idle" => FitsPlace(Call(t).op, pc[t])
  BY DEF ControlInv, PlacesFit
<1>4. \/ Call(d).op \in {"get", "enabled"} /\ Call(t).op \in {"get", "enabled"}
      \/ Call(d).op = "set" /\ Call(t).op = "set"
  BY <1>1, <1>2, TogetherTheyAgree
<1>5. pc[d] = "reading" /\ WritesNext(t)
  BY <1>1, <1>2, <1>4 DEF FitsPlace
<1> QED BY <1>2, <1>3, <1>4, <1>5 DEF FitsPlace, WritesNext

\* What a step of get() leaves alone.
LEMMA GetsFrame ==
  ASSUME ControlInv, NEW t \in Threads, Gets(t)
  PROVE  /\ UNCHANGED <<process, user, system, rounds, round, left>>
         /\ made \subseteq made'
         /\ \A d \in Threads \ {t} : /\ stale'[d] = stale[d] /\ seen'[d] = seen[d]
                                     /\ answer'[d] = answer[d] /\ pc'[d] = pc[d]
                                     /\ prog'[d] = prog[d]
<1> USE DEF ControlInv, TypeOK, ControlOK, DataOK, historyVars, threadVars, Goto, Return, Answer
<1>1. CASE GetUser(t)
  BY <1>1 DEF GetUser
<1>2. CASE Find(t)
  BY <1>2 DEF Find
<1>3. CASE BeginAt(t)
  BY <1>3 DEF BeginAt
<1>4. CASE EndAt(t)
  BY <1>4 DEF EndAt, Fail
<1>5. CASE Copy(t)
  BY <1>5 DEF Copy, Fail
<1>6. CASE GetSystem(t)
  BY <1>6 DEF GetSystem
<1> QED BY <1>1, <1>2, <1>3, <1>4, <1>5, <1>6 DEF Gets

\* In an orderly program get() ends with the answer it would have given at once.
Ends(t) == /\ Answer(t, Overlay(user, Key(t))) /\ pc[t] # "idle" /\ "user" \in made
           /\ user[Key(t)] = NoValue => "system" \in made'
GoesOn(t) == /\ pc'[t] # "idle" /\ prog' = prog
             /\ UNCHANGED <<answer, last, fault>>
LEMMA OrderlyGets ==
  ASSUME ControlInv, LooksStayTrue, Orderly, NEW t \in Threads, Gets(t)
  PROVE  /\ fault' = "none"
         /\ Ends(t) \/ GoesOn(t)
         /\ pc'[t] \in {"find", "at", "reading", "copy"} => user[Key(t)] # NoValue
         /\ pc'[t] = "system" => user[Key(t)] = NoValue
         /\ pc'[t] = "copy" => ~stale'[t]
<1> USE DEF LooksStayTrue
<1>1. pc \in [Threads -> Places] /\ prog \in [Threads -> Seq(Calls)]
      /\ stale \in [Threads -> BOOLEAN]
  BY DEF ControlInv, TypeOK, ControlOK, DataOK
<1>2. pc[t] # "idle" => "user" \in made
  BY DEF ControlInv, PlacesFit
<1>3. ASSUME NEW v, Answer(t, v) PROVE pc'[t] = "idle"
  BY <1>1, <1>3 DEF Answer, Return
<1>4. CASE GetUser(t)
  BY <1>1, <1>4 DEF GetUser, Goto, GoesOn
<1>5. CASE Find(t)
  BY <1>1, <1>5 DEF Find, In, Goto, GoesOn, historyVars
<1>6. CASE BeginAt(t)
  BY <1>1, <1>6 DEF BeginAt, In, Goto, GoesOn, historyVars
<1>7. CASE EndAt(t)
  <2>1. pc[t] = "reading" /\ user[Key(t)] # NoValue
    BY <1>7 DEF EndAt, In
  <2>2. CASE Answer(t, user[Key(t)])
    <3>1. Overlay(user, Key(t)) = user[Key(t)]
      BY <2>1 DEF Overlay
    <3>2. fault' = fault
      BY <2>2 DEF Answer
    <3> QED BY <1>2, <1>3, <2>1, <2>2, <3>1, <3>2 DEF Ends
  <2>3. CASE /\ Goto(t, "copy") /\ stale' = [stale EXCEPT ![t] = FALSE]
             /\ UNCHANGED <<process, user, system, made, rounds, round, left, historyVars, fault>>
    BY <1>1, <2>1, <2>3 DEF Goto, GoesOn, historyVars
  <2> QED BY <1>7, <2>1, <2>2, <2>3 DEF EndAt
<1>8. CASE Copy(t)
  <2>1. pc[t] = "copy" /\ user[Key(t)] # NoValue /\ ~stale[t]
    BY <1>8 DEF Copy, In
  <2>2. Answer(t, user[Key(t)])
    BY <1>8, <2>1 DEF Copy
  <2>3. Overlay(user, Key(t)) = user[Key(t)]
    BY <2>1 DEF Overlay
  <2>4. fault' = fault
    BY <2>2 DEF Answer
  <2> QED BY <1>2, <1>3, <2>1, <2>2, <2>3, <2>4 DEF Ends
<1>9. CASE GetSystem(t)
  <2>1. pc[t] = "system" /\ user[Key(t)] = NoValue /\ "system" \in made'
    BY <1>9 DEF GetSystem, In
  <2>2. Answer(t, SystemAnswer(Key(t)))
    BY <1>9 DEF GetSystem, SystemAnswer
  <2>3. Overlay(user, Key(t)) = SystemAnswer(Key(t))
    BY <2>1 DEF Overlay, SystemAnswer
  <2>4. fault' = fault
    BY <2>2 DEF Answer
  <2> QED BY <1>2, <1>3, <2>1, <2>2, <2>3, <2>4 DEF Ends
<1> QED BY <1>4, <1>5, <1>6, <1>7, <1>8, <1>9 DEF Gets

\* What the other steps leave alone.
LEMMA LooksFrame ==
  ASSUME ControlInv, NEW t \in Threads, Looks(t)
  PROVE  /\ UNCHANGED <<process, user, system, rounds, round, left>>
         /\ UNCHANGED <<stale, answer, seen, last, fault>>
         /\ made' = made \cup {"user"} \/ made' = made
         /\ pc'[t] \in {"idle", "store", "erase", "erasing", "clearing"}
         /\ pc[t] \in {"idle", "erase"}
         /\ \A d \in Threads \ {t} : pc'[d] = pc[d] /\ prog'[d] = prog[d]
<1> USE DEF ControlInv, TypeOK, ControlOK, historyVars, Goto, Return
<1>1. CASE SetFind(t)
  BY <1>1 DEF SetFind, Calling
<1>2. CASE UnsetFind(t)
  <2>1. CASE Return(t)
    BY <1>2, <2>1 DEF UnsetFind, Calling
  <2>2. CASE Goto(t, "erase")
    BY <1>2, <2>2 DEF UnsetFind, Calling
  <2> QED BY <1>2, <2>1, <2>2 DEF UnsetFind
<1>3. CASE BeginErase(t)
  BY <1>3 DEF BeginErase, In
<1>4. CASE BeginClear(t)
  BY <1>4 DEF BeginClear, Calling
<1> QED BY <1>1, <1>2, <1>3, <1>4 DEF Looks

LEMMA ChangesFrame ==
  ASSUME ControlInv, NEW t \in Threads, Changes(t)
  PROVE  /\ \E u \in [Keys -> MaybeVals] : \E touched : Change(u, touched)
         /\ pc'[t] \in {"idle", "fill"} /\ pc[t] \in {"store", "erasing", "clearing", "fill"}
         /\ \A d \in Threads \ {t} : pc'[d] = pc[d] /\ prog'[d] = prog[d] /\ left'[d] = left[d]
<1>1. user' \in [Keys -> MaybeVals]
  BY ControlThread DEF Changes, Step, ControlInv, TypeOK, DataOK
<1>2. ASSUME NEW u, NEW touched, Change(u, touched)
      PROVE  \E w \in [Keys -> MaybeVals] : \E x : Change(w, x)
  <2>1. u = user'
    BY <1>2 DEF Change
  <2> QED BY <1>1, <1>2, <2>1
<1>3. \E u \in [Keys -> MaybeVals] : \E touched : Change(u, touched)
  BY <1>2 DEF Changes, Store, EndErase, EndClear, Fill
<1> USE DEF ControlInv, TypeOK, ControlOK, Goto, Return, In
<1>4. CASE Store(t)
  BY <1>3, <1>4 DEF Store
<1>5. CASE EndErase(t)
  BY <1>3, <1>5 DEF EndErase
<1>6. CASE EndClear(t)
  BY <1>3, <1>6 DEF EndClear
<1>7. CASE Fill(t)
  BY <1>3, <1>7 DEF Fill
<1> QED BY <1>4, <1>5, <1>6, <1>7 DEF Changes

LEMMA PutenvFrame ==
  ASSUME ControlInv, NEW t \in Threads, Putenv(t)
  PROVE  /\ UNCHANGED <<made, rounds, round, left, stale, answer, seen, last, fault>>
         /\ "user" \in made => user' = user
         /\ "system" \in made => system' = system
         /\ \A d \in Threads : pc'[d] = "idle" /\ pc[d] = "idle"
<1>1. \A d \in Threads \ {t} : pc[d] = "idle"
  <2>1. prog[t] \in Seq(Calls) /\ prog[t] # <<>> /\ Call(t).op = "putenv"
    BY DEF ControlInv, TypeOK, ControlOK, Putenv, Calling, Runs
  <2>2. 1 \in DOMAIN prog[t] /\ Call(t) = prog[t][1]
    BY <2>1, EmptySeq DEF Call
  <2>3. \A d \in Threads \ {t} : prog[d] = <<>>
    BY <2>1, <2>2 DEF ControlInv, PutenvAlone
  <2> QED BY <2>3 DEF ControlInv, PlacesFit
<1>2. pc[t] = "idle" /\ pc' = [pc EXCEPT ![t] = "idle"]
  BY DEF Putenv, Calling, Return
<1>3. pc \in [Threads -> Places]
  BY DEF ControlInv, TypeOK, ControlOK
<1> QED BY <1>1, <1>2, <1>3 DEF Putenv, historyVars

LEMMA RoundFrame ==
  ASSUME ControlInv, NextRound
  PROVE  /\ UNCHANGED <<process, user, system, made, rounds, left, pc>>
         /\ UNCHANGED <<stale, answer, seen, last, fault>>
         /\ \A d \in Threads : pc[d] = "idle" /\ prog[d] = <<>> /\ left[d] = <<>>
<1>1. \A d \in Threads : prog[d] = <<>>
  BY DEF NextRound, Joined
<1>2. \A d \in Threads : pc[d] = "idle"
  BY <1>1 DEF ControlInv, PlacesFit
<1>3. \A d \in Threads : left[d] = <<>>
  BY <1>2 DEF ControlInv, PlacesFit
<1> QED BY <1>1, <1>2, <1>3 DEF NextRound, historyVars

\* A thread that get()s does so beside others that do, while the map does not change.
LEMMA OthersIdle ==
  ASSUME ControlInv, Orderly, NEW t \in Threads, prog[t] # <<>>,
         Call(t).op \notin {"get", "enabled"}, NEW d \in Threads \ {t}
  PROVE  /\ pc[d] \in {"idle", "store"} /\ ~Getting(d)
         /\ Call(t).op # "set" => pc[d] = "idle" /\ prog[d] = <<>>
<1>1. pc[d] # "idle" => prog[d] # <<>> /\ FitsPlace(Call(d).op, pc[d])
  BY DEF ControlInv, PlacesFit
<1>2. prog[d] # <<>> => Call(d).op = "set" /\ Call(t).op = "set"
  BY TogetherTheyAgree
<1>3. pc[d] \in Places
  BY DEF ControlInv, TypeOK, ControlOK
<1> QED BY <1>1, <1>2, <1>3 DEF FitsPlace, Places, Getting

LEMMA LooksThread ==
  ASSUME ControlInv, LooksStayTrue, NEW t \in Threads, Step(t)
  PROVE  LooksStayTrue'
<1>1. rounds' = rounds
  BY StepMoves DEF ControlInv, Moves, Halts, threadVars
<1>2. SUFFICES ASSUME Orderly PROVE LooksStayTrue'
  BY <1>1, OrderlyStays DEF LooksStayTrue
<1>3. prog[t] # <<>> /\ ~Race(t)
  BY <1>2, StepSplits, NoRace DEF Race
<1>4. CASE Gets(t)
  <2>1. ASSUME NEW d \in Threads \ {t}
        PROVE  /\ pc'[d] = pc[d] /\ Key(d)' = Key(d) /\ stale'[d] = stale[d] /\ user' = user
    BY <1>4, GetsFrame DEF Key, Call
  <2>2. user' = user /\ fault' = "none"
    BY <1>2, <1>4, GetsFrame, OrderlyGets
  <2>3. pc'[t] # "idle" => Key(t)' = Key(t)
    <3>1. Ends(t) => pc'[t] = "idle"
      BY DEF Ends, Answer, Return, ControlInv, TypeOK, ControlOK
    <3>2. GoesOn(t) => Key(t)' = Key(t)
      BY DEF GoesOn, Key, Call
    <3> QED BY <1>2, <1>4, <3>1, <3>2, OrderlyGets
  <2>4. /\ pc'[t] \in {"find", "at", "reading", "copy"} => user[Key(t)] # NoValue
        /\ pc'[t] = "system" => user[Key(t)] = NoValue
        /\ pc'[t] = "copy" => ~stale'[t]
    BY <1>2, <1>4, OrderlyGets
  <2>5. ASSUME NEW d \in Threads
        PROVE  /\ pc'[d] \in {"find", "at", "reading", "copy"} => user'[Key(d)'] # NoValue
               /\ pc'[d] = "system" => user'[Key(d)'] = NoValue
               /\ pc'[d] = "copy" => ~stale'[d]
    <3>1. CASE d = t
      BY <2>2, <2>3, <2>4, <3>1
    <3>2. CASE d # t
      BY <1>2, <2>1, <3>2 DEF LooksStayTrue
    <3> QED BY <3>1, <3>2
  <2> QED BY <2>2, <2>5 DEF LooksStayTrue
<1>5. CASE ~Gets(t)
  <2>1. Call(t).op \notin {"get", "enabled"}
    BY <1>3, <1>5, StepSplits
  <2>2. \A d \in Threads \ {t} : pc[d] \in {"idle", "store"}
    BY <1>2, <1>3, <2>1, OthersIdle
  <2>3. \A d \in Threads \ {t} : pc'[d] = pc[d]
    BY <1>3, <1>5, StepSplits, LooksFrame, ChangesFrame, PutenvFrame
  <2>4. pc'[t] \in {"idle", "store", "erase", "erasing", "clearing", "fill"}
    BY <1>3, <1>5, StepSplits, LooksFrame, ChangesFrame, PutenvFrame
  <2>5. fault' = fault
    <3>1. Changes(t) => fault' = fault
      BY ChangesFrame DEF Change
    <3> QED BY <1>3, <1>5, <3>1, StepSplits, LooksFrame, PutenvFrame
  <2> QED BY <1>2, <2>2, <2>3, <2>4, <2>5 DEF LooksStayTrue
<1> QED BY <1>4, <1>5

-----------------------------------------------------------------------------
(* What get() has seen, and what it will answer next.                       *)

LEMMA SeenGets ==
  ASSUME ControlInv, LooksStayTrue, SeenIsComplete, NEW t \in Threads, Gets(t)
  PROVE  SeenIsComplete'
<1> USE DEF ControlInv, TypeOK, ControlOK, DataOK
<1>1. /\ UNCHANGED <<user, system, rounds>>
      /\ \A d \in Threads \ {t} : /\ seen'[d] = seen[d] /\ answer'[d] = answer[d]
                                  /\ pc'[d] = pc[d] /\ prog'[d] = prog[d]
  BY GetsFrame
<1>2. Orderly' <=> Orderly
  BY <1>1, OrderlyStays
<1>3. \A d \in Threads \ {t} : (Getting(d)' <=> Getting(d)) /\ Key(d)' = Key(d)
  BY <1>1 DEF Getting, Key, Call
<1>4. \A k : Overlay(user, k)' = Overlay(user, k) /\ SystemAnswer(k)' = SystemAnswer(k)
  BY <1>1 DEF Overlay, SystemAnswer
<1>14. ASSUME NEW d \in Threads \ {t} PROVE SeenFits(d)'
  <2>1. /\ Overlay(user, Key(d))' = Overlay(user, Key(d))
        /\ SystemAnswer(Key(d))' = SystemAnswer(Key(d))
    BY <1>1, <1>3 DEF Overlay, SystemAnswer
  <2> QED BY <1>1, <1>2, <1>3, <2>1 DEF SeenIsComplete, SeenFits
<1> SUFFICES SeenFits(t)'
  BY <1>14 DEF SeenIsComplete
<1>5. ASSUME NEW v, Answer(t, v), v \in seen[t] \/ (v = Empty /\ ~Orderly) PROVE SeenFits(t)'
  <2>1. ~Getting(t)' /\ answer'[t] = v /\ seen'[t] = seen[t] /\ pc'[t] = "idle"
    BY <1>5 DEF Answer, Return, Getting
  <2> QED BY <1>2, <1>5, <2>1 DEF SeenFits
<1>6. ASSUME Getting(t), Getting(t)', pc'[t] # "system", prog' = prog, seen' = seen
      PROVE  SeenFits(t)'
  <2>1. Key(t)' = Key(t)
    BY <1>6 DEF Key, Call
  <2>2. Overlay(user, Key(t))' = Overlay(user, Key(t))
    BY <1>1, <2>1 DEF Overlay
  <2>3. Overlay(user, Key(t)) \in seen[t]
    BY <1>6 DEF SeenIsComplete, SeenFits
  <2> QED BY <1>6, <2>2, <2>3 DEF SeenFits
<1>7. Getting(t) => Overlay(user, Key(t)) \in seen[t]
  BY DEF SeenIsComplete, SeenFits
<1>8. CASE GetUser(t)
  <2>1. /\ seen'[t] = {Overlay(user, Key(t))} /\ prog' = prog
        /\ pc'[t] = IF user[Key(t)] = NoValue THEN "system" ELSE "find"
    BY <1>8 DEF GetUser, Goto
  <2>2. Key(t)' = Key(t) /\ Getting(t)'
    BY <2>1 DEF Key, Call, Getting
  <2>3. /\ Overlay(user, Key(t))' = Overlay(user, Key(t))
        /\ SystemAnswer(Key(t))' = SystemAnswer(Key(t))
    BY <1>1, <2>2 DEF Overlay, SystemAnswer
  <2>4. user[Key(t)] = NoValue => SystemAnswer(Key(t)) = Overlay(user, Key(t))
    BY DEF Overlay, SystemAnswer
  <2> QED BY <2>1, <2>2, <2>3, <2>4 DEF SeenFits
<1>9. CASE Find(t)
  <2>1. CASE user[Key(t)] = NoValue
    <3>1. ~Orderly
      BY <1>9, <2>1 DEF Find, In, LooksStayTrue
    <3> QED BY <1>5, <1>9, <2>1, <3>1 DEF Find
  <2>2. CASE user[Key(t)] # NoValue
    BY <1>6, <1>9, <2>2 DEF Find, In, Goto, Getting, historyVars
  <2> QED BY <2>1, <2>2
<1>10. CASE BeginAt(t)
  BY <1>6, <1>10 DEF BeginAt, In, Goto, Getting, historyVars
<1>11. CASE EndAt(t)
  <2>1. pc[t] = "reading" /\ Getting(t)
    BY <1>11 DEF EndAt, In, Getting
  <2>2. CASE user[Key(t)] # NoValue /\ Answer(t, user[Key(t)])
    <3>1. Overlay(user, Key(t)) = user[Key(t)]
      BY <2>2 DEF Overlay
    <3> QED BY <1>5, <1>7, <2>1, <2>2, <3>1
  <2>3. CASE Goto(t, "copy") /\ UNCHANGED historyVars
    BY <1>6, <2>1, <2>3 DEF Goto, Getting, historyVars
  <2>4. CASE Fail("out_of_range")
    BY <1>6, <2>1, <2>4 DEF Fail, threadVars, historyVars, Getting
  <2> QED BY <1>11, <2>2, <2>3, <2>4 DEF EndAt, historyVars
<1>12. CASE Copy(t)
  <2>1. pc[t] = "copy" /\ Getting(t)
    BY <1>12 DEF Copy, In, Getting
  <2>2. CASE user[Key(t)] # NoValue /\ Answer(t, user[Key(t)])
    <3>1. Overlay(user, Key(t)) = user[Key(t)]
      BY <2>2 DEF Overlay
    <3> QED BY <1>5, <1>7, <2>1, <2>2, <3>1
  <2>3. CASE Fail("dangling")
    BY <1>6, <2>1, <2>3 DEF Fail, threadVars, historyVars, Getting
  <2> QED BY <1>12, <2>2, <2>3 DEF Copy
<1>13. CASE GetSystem(t)
  <2>1. pc[t] = "system" /\ Answer(t, SystemAnswer(Key(t)))
    BY <1>13 DEF GetSystem, In, SystemAnswer
  <2>2. SystemAnswer(Key(t)) \in seen[t]
    BY <2>1 DEF SeenIsComplete, SeenFits
  <2> QED BY <1>5, <2>1, <2>2
<1> QED BY <1>8, <1>9, <1>10, <1>11, <1>12, <1>13 DEF Gets

LEMMA SeenChanges ==
  ASSUME ControlInv, SeenIsComplete, NEW t \in Threads, Changes(t)
  PROVE  SeenIsComplete'
<1>1. PICK u \in [Keys -> MaybeVals] : \E touched : Change(u, touched)
  BY ChangesFrame
<1>2. /\ pc'[t] \in {"idle", "fill"} /\ pc[t] \in {"store", "erasing", "clearing", "fill"}
      /\ \A d \in Threads \ {t} : pc'[d] = pc[d] /\ prog'[d] = prog[d]
  BY ChangesFrame
<1>3. /\ user' = u /\ UNCHANGED <<system, rounds, answer>>
      /\ \A d \in Threads :
           seen'[d] = IF Getting(d) THEN seen[d] \cup {Overlay(u, Key(d))} ELSE seen[d]
  BY <1>1 DEF Change
<1>4. Orderly' <=> Orderly
  BY <1>3, OrderlyStays
<1>5. SUFFICES ASSUME NEW d \in Threads PROVE SeenFits(d)'
  BY DEF SeenIsComplete
<1>6. SeenFits(d)
  BY DEF SeenIsComplete
<1>7. CASE d = t
  <2>1. ~Getting(d)' /\ ~Getting(d) /\ pc'[d] # "system"
    BY <1>2, <1>7 DEF Getting
  <2> QED BY <1>3, <1>4, <1>6, <2>1 DEF SeenFits
<1>8. CASE d # t
  <2>1. (Getting(d)' <=> Getting(d)) /\ Key(d)' = Key(d) /\ pc'[d] = pc[d]
    BY <1>2, <1>8 DEF Getting, Key, Call
  <2>2. pc[d] = "system" => Getting(d)
    BY DEF Getting
  <2>3. /\ Overlay(user, Key(d))' = Overlay(u, Key(d))
        /\ SystemAnswer(Key(d))' = SystemAnswer(Key(d))
    BY <1>3, <2>1 DEF Overlay, SystemAnswer
  <2>4. CASE Getting(d)
    BY <1>3, <1>4, <1>6, <2>1, <2>3, <2>4 DEF SeenFits
  <2>5. CASE ~Getting(d)
    BY <1>3, <1>4, <1>6, <2>1, <2>2, <2>5 DEF SeenFits
  <2> QED BY <2>4, <2>5
<1> QED BY <1>7, <1>8

LEMMA SeenStep ==
  ASSUME ControlInv, LooksStayTrue, SeenIsComplete, [Next \/ Halted]_vars
  PROVE  SeenIsComplete'
<1>1. ASSUME UNCHANGED <<user, system, rounds, answer, seen>>,
             \A d \in Threads : \/ pc'[d] = pc[d] /\ (Key(d)' = Key(d) \/ ~Getting(d))
                                \/ ~Getting(d) /\ ~Getting(d)'
      PROVE  SeenIsComplete'
  <2>1. Orderly' <=> Orderly
    BY <1>1, OrderlyStays
  <2>2. SUFFICES ASSUME NEW d \in Threads PROVE SeenFits(d)'
    BY DEF SeenIsComplete
  <2>3. SeenFits(d)
    BY DEF SeenIsComplete
  <2>4. CASE ~Getting(d) /\ ~Getting(d)'
    BY <1>1, <2>1, <2>3, <2>4 DEF SeenFits, Getting
  <2>5. CASE pc'[d] = pc[d] /\ Key(d)' = Key(d)
    <3>1. /\ Overlay(user, Key(d))' = Overlay(user, Key(d))
          /\ SystemAnswer(Key(d))' = SystemAnswer(Key(d)) /\ (Getting(d)' <=> Getting(d))
      BY <1>1, <2>5 DEF Overlay, SystemAnswer, Getting
    <3> QED BY <1>1, <2>1, <2>3, <2>5, <3>1 DEF SeenFits
  <2> QED BY <1>1, <2>4, <2>5 DEF Getting
<1>2. ASSUME NEW t \in Threads, Looks(t) PROVE SeenIsComplete'
  <2>1. ~Getting(t) /\ ~Getting(t)'
    BY <1>2, LooksFrame DEF Getting
  <2>2. \A d \in Threads \ {t} : pc'[d] = pc[d] /\ Key(d)' = Key(d)
    BY <1>2, LooksFrame DEF Key, Call
  <2>3. UNCHANGED <<user, system, rounds, answer, seen>>
    BY <1>2, LooksFrame
  <2> QED BY <1>1, <2>1, <2>2, <2>3
<1>3. ASSUME NEW t \in Threads, Putenv(t) PROVE SeenIsComplete'
  <2>1. /\ UNCHANGED <<rounds, answer, seen>>
        /\ \A d \in Threads : ~Getting(d) /\ ~Getting(d)' /\ pc'[d] # "system"
    BY <1>3, PutenvFrame DEF Getting
  <2>2. Orderly' <=> Orderly
    BY <2>1, OrderlyStays
  <2> QED BY <2>1, <2>2 DEF SeenIsComplete, SeenFits
<1>4. ASSUME NEW t \in Threads, Race(t) PROVE SeenIsComplete'
  <2>1. UNCHANGED <<user, system, rounds, answer, seen, pc, prog>>
    BY <1>4 DEF Race, Fail, threadVars, historyVars
  <2> QED BY <1>1, <2>1 DEF Key, Call
<1>5. ASSUME NextRound PROVE SeenIsComplete'
  <2>1. /\ UNCHANGED <<user, system, rounds, answer, seen, pc>>
        /\ \A d \in Threads : ~Getting(d)
    BY <1>5, RoundFrame DEF Getting
  <2> QED BY <1>1, <2>1
<1>6. ASSUME UNCHANGED vars PROVE SeenIsComplete'
  <2>1. UNCHANGED <<user, system, rounds, answer, seen, pc, prog>>
    BY <1>6 DEF vars, threadVars, historyVars
  <2> QED BY <1>1, <2>1 DEF Key, Call
<1>7. ASSUME NEW t \in Threads, Step(t) PROVE SeenIsComplete'
  BY <1>2, <1>3, <1>4, <1>7, StepSplits, SeenGets, SeenChanges
<1> QED BY <1>5, <1>6, <1>7 DEF Next, Halted

LEMMA LastStep ==
  ASSUME ControlInv, LooksStayTrue, LastIsNext, [Next \/ Halted]_vars
  PROVE  LastIsNext'
<1> USE DEF ControlInv, TypeOK, DataOK
<1>1. rounds' = rounds
  <2>1. \A t \in Threads : Step(t) => rounds' = rounds
    BY StepMoves DEF Moves, Halts, threadVars
  <2> QED BY <2>1, RoundFrame DEF Next, Halted, vars, threadVars
<1>2. SUFFICES ASSUME Orderly, NEW k \in Keys, last'[k] # NoValue
               PROVE  /\ last'[k] = Overlay(user, k)' /\ "user" \in made'
                      /\ user'[k] = NoValue => "system" \in made'
  BY <1>1, OrderlyStays DEF LastIsNext
<1>3. last[k] # NoValue => /\ last[k] = Overlay(user, k) /\ "user" \in made
                           /\ user[k] = NoValue => "system" \in made
  BY <1>2 DEF LastIsNext
<1> DEFINE Good == /\ last'[k] = Overlay(user, k)' /\ "user" \in made'
                   /\ user'[k] = NoValue => "system" \in made'
<1>4. ASSUME UNCHANGED <<user, system, last>>, made \subseteq made' PROVE Good
  BY <1>2, <1>3, <1>4 DEF Overlay
<1>5. ASSUME NEW t \in Threads, Gets(t) PROVE Good
  <2>1. UNCHANGED <<user, system>> /\ made \subseteq made'
    BY <1>5, GetsFrame
  <2>2. CASE GoesOn(t)
    BY <1>4, <2>1, <2>2 DEF GoesOn
  <2>3. CASE Ends(t)
    <3>1. last' = [last EXCEPT ![Key(t)] = Overlay(user, Key(t))]
      BY <2>3 DEF Ends, Answer
    <3>2. CASE k = Key(t)
      BY <1>2, <2>1, <2>3, <3>1, <3>2 DEF Ends, Overlay
    <3>3. CASE k # Key(t)
      BY <1>2, <1>3, <2>1, <3>1, <3>3 DEF Overlay
    <3> QED BY <3>2, <3>3
  <2> QED BY <1>2, <1>5, <2>2, <2>3, OrderlyGets
<1>6. ASSUME NEW t \in Threads, Looks(t) PROVE Good
  <2>1. UNCHANGED <<user, system, last>> /\ made \subseteq made'
    BY <1>6, LooksFrame
  <2> QED BY <1>4, <2>1
<1>7. ASSUME NEW t \in Threads, Changes(t) PROVE Good
  <2>1. PICK u \in [Keys -> MaybeVals] : \E touched : Change(u, touched)
    BY <1>7, ChangesFrame
  <2>2. /\ user' = u /\ UNCHANGED <<system, made>>
        /\ last'[k] = IF u[k] = user[k] THEN last[k] ELSE NoValue
    BY <2>1 DEF Change
  <2> QED BY <1>2, <1>3, <2>2 DEF Overlay
<1>8. ASSUME NEW t \in Threads, Putenv(t) PROVE Good
  <2>1. /\ UNCHANGED <<made, last>> /\ ("user" \in made => user' = user)
        /\ "system" \in made => system' = system
    BY <1>8, PutenvFrame
  <2>2. user' = user
    BY <1>2, <1>3, <2>1
  <2>3. user[k] = NoValue => system' = system
    BY <1>2, <1>3, <2>1
  <2> QED BY <1>2, <1>3, <2>1, <2>2, <2>3 DEF Overlay
<1>9. ASSUME NEW t \in Threads, Race(t) PROVE Good
  BY <1>4, <1>9 DEF Race, Fail, historyVars
<1>10. ASSUME NextRound PROVE Good
  BY <1>4, <1>10, RoundFrame
<1>11. ASSUME UNCHANGED vars PROVE Good
  BY <1>4, <1>11 DEF vars, historyVars
<1>12. ASSUME NEW t \in Threads, Step(t) PROVE Good
  BY <1>5, <1>6, <1>7, <1>8, <1>9, <1>12, StepSplits
<1> QED BY <1>10, <1>11, <1>12 DEF Next, Halted

-----------------------------------------------------------------------------
(* The invariant and the properties it implies.                            *)

EnvInv == ControlInv /\ LooksStayTrue /\ SeenIsComplete /\ LastIsNext

LEMMA EnvInit == Init => EnvInv
<1> SUFFICES ASSUME Init PROVE EnvInv
  OBVIOUS
<1>1. LooksStayTrue /\ SeenIsComplete /\ LastIsNext
  BY DEF Init, LooksStayTrue, SeenIsComplete, SeenFits, LastIsNext, Getting
<1> QED BY <1>1, ControlInit DEF EnvInv

LEMMA LooksStep ==
  ASSUME ControlInv, LooksStayTrue, [Next \/ Halted]_vars
  PROVE  LooksStayTrue'
<1>1. ASSUME NextRound PROVE LooksStayTrue'
  <2>1. /\ UNCHANGED <<rounds, fault, pc>> /\ \A d \in Threads : pc[d] = "idle"
    BY <1>1, RoundFrame
  <2> QED BY <2>1, OrderlyStays DEF LooksStayTrue
<1>2. ASSUME UNCHANGED vars PROVE LooksStayTrue'
  <2>1. UNCHANGED <<user, rounds, pc, prog, stale, fault>>
    BY <1>2 DEF vars, threadVars
  <2> QED BY <2>1, OrderlyStays DEF LooksStayTrue, Key, Call
<1> QED BY <1>1, <1>2, LooksThread DEF Next, Halted

LEMMA EnvStep == EnvInv /\ [Next \/ Halted]_vars => EnvInv'
  BY ControlStep, LooksStep, SeenStep, LastStep DEF EnvInv

\* The inductive invariant: control, what get() has looked at, and the histories.
THEOREM EnvInvariant == Spec => []EnvInv
<1>1. Init => EnvInv
  BY EnvInit
<1>2. EnvInv /\ [Next \/ Halted]_vars => EnvInv'
  BY EnvStep
<1> QED BY <1>1, <1>2, PTL DEF Spec

\* In an orderly program (each round has one caller, or only get()s, or only set()s) there
\* is no data race on either map, at() does not throw and no text is copied from a view
\* that dangles, although get(), unset() and init() leave the mutex before they use the map.
THEOREM OrderlyIsSafeHolds == Spec => []OrderlyIsSafe
<1>1. EnvInv => OrderlyIsSafe
  BY DEF EnvInv, LooksStayTrue, OrderlyIsSafe
<1> QED BY <1>1, EnvInvariant, PTL

\* In any program that changes the process's environment by one thread at a time, get()
\* answers with a value that the key had during the call, the user's before the system's;
\* an empty answer for a key that has a value needs a disorderly program.
THEOREM AnswersAreCurrentHolds == Spec => []AnswersAreCurrent
<1>1. EnvInv => AnswersAreCurrent
  BY DEF EnvInv, SeenIsComplete, SeenFits, AnswersAreCurrent, Answered, Getting
<1> QED BY <1>1, EnvInvariant, PTL

LEMMA StableStep ==
  ASSUME EnvInv, Next \/ Halted, NEW t \in Threads, Orderly, Getting(t), pc'[t] = "idle",
         last[Key(t)] # NoValue
  PROVE  answer'[t] = last[Key(t)]
<1> USE DEF EnvInv, ControlInv, TypeOK, ControlOK, DataOK
<1>1. pc[t] # "idle" /\ pc[t] \notin {"clearing", "fill"}
  BY DEF Getting
<1>2. Key(t) \in Keys
  BY <1>1, PlaceFacts
<1>3. last[Key(t)] = Overlay(user, Key(t))
  BY <1>2 DEF LastIsNext
<1>4. ASSUME NEW d \in Threads, Step(d) PROVE answer'[t] = last[Key(t)]
  <2>1. CASE d = t
    <3>1. FitsPlace(Call(t).op, pc[t])
      BY <1>1, PlaceFacts
    <3>2. Call(t).op \in {"get", "enabled"}
      BY <3>1 DEF Getting, FitsPlace
    <3>3. ~Race(t)
      BY <1>4, <2>1, StepSplits, NoRace DEF Race
    <3>4. Gets(t)
      BY <1>4, <2>1, <3>2, <3>3, StepSplits
    <3>5. Ends(t)
      BY <3>4, OrderlyGets DEF GoesOn
    <3> QED BY <1>3, <3>5 DEF Ends, Answer
  <2>2. CASE d # t
    <3>1. pc'[t] = pc[t]
      BY <1>4, <2>2, StepMoves DEF Moves, Halts
    <3> QED BY <1>1, <3>1
  <2> QED BY <2>1, <2>2
<1>5. ~NextRound
  BY <1>1, RoundFrame
<1>6. ~Halted
  BY <1>1 DEF Halted, vars
<1> QED BY <1>4, <1>5, <1>6 DEF Next

\* In an orderly program a key that is not changed has one answer for ever, whatever
\* putenv() does to the process's environment after the first.
THEOREM AnswersAreStableHolds == Spec => AnswersAreStable
<1>1. EnvInv /\ [Next \/ Halted]_vars =>
        [\A t \in Threads :
           Orderly /\ Getting(t) /\ pc'[t] = "idle" /\ last[Key(t)] # NoValue
             => answer'[t] = last[Key(t)]]_vars
  BY StableStep
<1> QED BY <1>1, EnvInvariant, PTL DEF Spec, AnswersAreStable

-----------------------------------------------------------------------------
(* The last of the pairs for a key.                                         *)

LEMMA MaxIs ==
  ASSUME NEW S, S \subseteq Nat, NEW x \in S, \A y \in S : y <= x
  PROVE  Max(S) = x
<1>1. \A y \in S : x >= y
  OBVIOUS
<1>2. PICK m : m = Max(S)
  OBVIOUS
<1>3. m \in S /\ \A y \in S : m >= y
  BY <1>1, <1>2 DEF Max
<1>4. m >= x /\ x >= m /\ m \in Nat /\ x \in Nat
  BY <1>1, <1>3
<1> QED BY <1>2, <1>4

\* Storing the first pair and then the others is storing them all.
LEMMA ApplyFirst ==
  ASSUME NEW map \in [Keys -> MaybeVals], NEW l \in Seq(Keys \X Vals), l # <<>>
  PROVE  Apply([map EXCEPT ![Head(l)[1]] = Head(l)[2]], Tail(l)) = Apply(map, l)
<1>1. /\ Tail(l) \in Seq(Keys \X Vals) /\ Len(l) \in Nat \ {0} /\ Len(Tail(l)) = Len(l) - 1
      /\ \A i \in 1 .. Len(l) - 1 : Tail(l)[i] = l[i + 1]
  BY TailFacts, EmptySeq
<1>2. DOMAIN l = 1 .. Len(l) /\ DOMAIN Tail(l) = 1 .. Len(l) - 1 /\ Head(l) = l[1]
  BY <1>1
<1>3. PICK f : f = [map EXCEPT ![Head(l)[1]] = Head(l)[2]]
  OBVIOUS
<1>4. \A k \in Keys : f[k] = IF k = l[1][1] THEN l[1][2] ELSE map[k]
  BY <1>2, <1>3
<1>5. DOMAIN f = Keys /\ DOMAIN map = Keys
  BY <1>3
<1> DEFINE P(k) == {i \in DOMAIN l : l[i][1] = k}
           Q(k) == {i \in DOMAIN Tail(l) : Tail(l)[i][1] = k}
<1>6. ASSUME NEW k \in Keys
      PROVE  (IF Q(k) = {} THEN f[k] ELSE Tail(l)[Max(Q(k))][2])
               = (IF P(k) = {} THEN map[k] ELSE l[Max(P(k))][2])
  <2>1. \A i \in 1 .. Len(l) : i # 1 => i - 1 \in 1 .. Len(l) - 1 /\ Tail(l)[i - 1] = l[i]
    BY <1>1
  <2>2. \A i \in P(k) : i # 1 => i - 1 \in Q(k)
    BY <1>2, <2>1
  <2>3. \A i \in Q(k) : i + 1 \in P(k)
    BY <1>1, <1>2
  <2>4. CASE Q(k) = {}
    <3>1. \A i \in P(k) : i = 1
      BY <2>2, <2>4
    <3>2. CASE k = l[1][1]
      <4>1. 1 \in P(k)
        BY <1>1, <1>2, <3>2
      <4>2. P(k) \subseteq Nat /\ \A i \in P(k) : i <= 1
        BY <3>1
      <4>3. Max(P(k)) = 1
        <5> HIDE DEF P
        <5> QED BY <4>1, <4>2, MaxIs
      <4>4. f[k] = l[1][2] /\ P(k) # {}
        BY <1>4, <3>2, <4>1
      <4> HIDE DEF P, Q
      <4> QED BY <2>4, <4>3, <4>4
    <3>3. CASE k # l[1][1]
      <4>1. P(k) = {}
        BY <3>1, <3>3
      <4> HIDE DEF P, Q
      <4> QED BY <1>4, <2>4, <3>3, <4>1
    <3> QED BY <3>2, <3>3
  <2>5. CASE Q(k) # {}
    <3>1. Q(k) \subseteq 1 .. Len(l) - 1 /\ Q(k) \subseteq Nat /\ Len(l) - 1 \in Nat
      BY <1>1, <1>2
    <3>2. PICK q \in Q(k) : \A y \in Q(k) : y <= q
      <4> HIDE DEF Q
      <4> QED BY <2>5, <3>1, GreatestNumber
    <3>3. Max(Q(k)) = q
      <4> HIDE DEF Q
      <4> QED BY <3>1, <3>2, MaxIs
    <3>4. q + 1 \in P(k) /\ P(k) \subseteq Nat
      BY <1>1, <1>2, <2>3, <3>2
    <3>5. ASSUME NEW i \in P(k) PROVE i <= q + 1
      <4>1. i \in Nat /\ q \in Nat
        BY <3>1, <3>4
      <4>2. i # 1 => i - 1 <= q
        BY <2>2, <3>2, <3>5
      <4> HIDE DEF P, Q
      <4> QED BY <4>1, <4>2
    <3>6. Max(P(k)) = q + 1
      <4> HIDE DEF P, Q
      <4> QED BY <3>4, <3>5, MaxIs
    <3>7. Tail(l)[q] = l[q + 1]
      BY <1>1, <3>1, <3>2
    <3> HIDE DEF P, Q
    <3> QED BY <2>5, <3>3, <3>4, <3>6, <3>7
  <2> QED BY <2>4, <2>5
<1>7. Apply(f, Tail(l)) = [k \in Keys |-> IF Q(k) = {} THEN f[k] ELSE Tail(l)[Max(Q(k))][2]]
  BY <1>5 DEF Apply
<1>8. Apply(map, l) = [k \in Keys |-> IF P(k) = {} THEN map[k] ELSE l[Max(P(k))][2]]
  BY <1>5 DEF Apply
<1> QED BY <1>3, <1>6, <1>7, <1>8

LEMMA ApplyNothing ==
  ASSUME NEW map \in [Keys -> MaybeVals]
  PROVE  Apply(map, <<>>) = map
  BY DEF Apply

-----------------------------------------------------------------------------
(* An orderly program does what EnvMap does.                                *)

\* What init() has yet to store is a part of the settings already.
LEMMA SettingsAre ==
  ASSUME ControlInv
  PROVE  /\ (\A d \in Threads : left[d] = <<>>) => Settings = user
         /\ \A t \in Threads : left[t] # <<>> /\ (\A d \in Threads \ {t} : left[d] = <<>>)
              => Settings = Apply(user, left[t])
<1>1. (\A d \in Threads : left[d] = <<>>) => Settings = user
  BY DEF Settings
<1>2. ASSUME NEW t \in Threads, left[t] # <<>>, \A d \in Threads \ {t} : left[d] = <<>>
      PROVE  Settings = Apply(user, left[t])
  <2>1. (CHOOSE d \in Threads : left[d] # <<>>) = t
    BY <1>2
  <2> QED BY <1>2, <2>1 DEF Settings
<1> QED BY <1>1, <1>2

\* While a thread makes an orderly call, no other one is in the middle of init().
LEMMA NobodyElseFills ==
  ASSUME ControlInv, Orderly, NEW t \in Threads, prog[t] # <<>>
  PROVE  /\ \A d \in Threads \ {t} : left[d] = <<>>
         /\ pc[t] # "fill" => left[t] = <<>>
<1>1. ASSUME NEW d \in Threads \ {t}, left[d] # <<>> PROVE FALSE
  <2>1. prog[d] # <<>> /\ Call(d).op = "init"
    BY <1>1 DEF ControlInv, PlacesFit, FitsPlace
  <2> QED BY <2>1, TogetherTheyAgree
<1> QED BY <1>1 DEF ControlInv, PlacesFit

LEMMA NothingLeft ==
  ASSUME ControlInv, \A d \in Threads : left[d] = <<>>
  PROVE  /\ Settings = user /\ \A d \in Threads : CallsLeft[d] = prog[d]
         /\ CallsLeft = prog
<1>1. \A d \in Threads : CallsLeft[d] = prog[d]
  BY DEF CallsLeft
<1>2. CallsLeft = prog
  BY DEF CallsLeft, ControlInv, TypeOK, ControlOK
<1> QED BY <1>1, <1>2, SettingsAre

LEMMA NothingLeftNext ==
  ASSUME ControlInv', \A d \in Threads : left'[d] = <<>>
  PROVE  Settings' = user' /\ CallsLeft' = prog'
<1>1. Settings' = user'
  BY DEF Settings
<1>2. prog' \in [Threads -> Seq(Calls)]
  BY DEF ControlInv, TypeOK, ControlOK
<1> QED BY <1>1, <1>2 DEF CallsLeft

MapStep == EM!Next \/ UNCHANGED EM!vars

\* A step that changes nothing that EnvMap shows, but may make a map.
LEMMA SilentStep ==
  ASSUME UNCHANGED <<process, system, answer>>, made \subseteq made',
         Settings' = Settings, CallsLeft' = CallsLeft
  PROVE  MapStep
  BY DEF MapStep, EM!Next, EM!Copy

LEMMA MapGets ==
  ASSUME ControlInv, LooksStayTrue, Orderly, NEW t \in Threads, Gets(t)
  PROVE  MapStep
<1>1. prog[t] # <<>> /\ Call(t).op \in {"get", "enabled"}
  BY StepSplits DEF Step, Gets
<1>2. pc[t] # "fill"
  BY <1>1 DEF ControlInv, PlacesFit, FitsPlace
<1>3. \A d \in Threads : left[d] = <<>>
  BY <1>1, <1>2, NobodyElseFills
<1>4. UNCHANGED <<process, user, system, left>> /\ made \subseteq made'
  BY GetsFrame
<1>5. Step(t)
  BY DEF Gets, Step
<1>6. ControlInv'
  BY <1>5, ControlThread
<1>7. \A d \in Threads : left'[d] = <<>>
  BY <1>3, <1>4
<1>8. Settings = user /\ CallsLeft = prog
  BY <1>3, NothingLeft
<1>9. Settings' = user' /\ CallsLeft' = prog'
  BY <1>6, <1>7, NothingLeftNext
<1>10. CASE GoesOn(t)
  BY <1>4, <1>8, <1>9, <1>10, SilentStep DEF GoesOn
<1>11. CASE Ends(t)
  <2>1. answer' = [answer EXCEPT ![t] = Overlay(user, Key(t))]
        /\ prog' = [prog EXCEPT ![t] = Tail(@)]
    BY <1>11 DEF Ends, Answer, Return
  <2>2. EM!Key(t) = Key(t)
    BY <1>8 DEF EM!Key, Key, Call
  <2>3. EM!Makes(t, "get") \/ EM!Makes(t, "enabled")
    BY <1>1, <1>8, <1>9, <2>1 DEF EM!Makes, Call
  <2>4. EM!Get(t)
    BY <1>4, <1>8, <1>9, <2>1, <2>2, <2>3 DEF EM!Get, Overlay
  <2> QED BY <1>4, <2>4 DEF MapStep, EM!Next
<1> QED BY <1>10, <1>11, OrderlyGets

LEMMA MapLooks ==
  ASSUME ControlInv, Orderly, NEW t \in Threads, Looks(t)
  PROVE  MapStep
<1>1. Step(t)
  BY DEF Looks, Step
<1>2. /\ UNCHANGED <<process, user, system, left, answer>> /\ made \subseteq made'
      /\ pc[t] \in {"idle", "erase"}
  BY LooksFrame
<1>3. prog[t] # <<>> /\ ControlInv'
  BY <1>1, StepSplits, ControlThread
<1>4. \A d \in Threads : left[d] = <<>> /\ left'[d] = <<>>
  BY <1>2, <1>3, NobodyElseFills
<1>5. Settings = user /\ CallsLeft = prog /\ Settings' = user' /\ CallsLeft' = prog'
  BY <1>3, <1>4, NothingLeft, NothingLeftNext
<1>6. CASE prog' = prog
  BY <1>2, <1>5, <1>6, SilentStep
<1>7. CASE UnsetFind(t) /\ user[Key(t)] = NoValue
  <2>1. /\ Call(t).op = "unset" /\ prog' = [prog EXCEPT ![t] = Tail(@)]
        /\ made' = made \cup {"user"}
    BY <1>7 DEF UnsetFind, Calling, Return
  <2>2. EM!Makes(t, "unset")
    BY <1>3, <1>5, <2>1 DEF EM!Makes, Call
  <2>3. [user EXCEPT ![EM!Key(t)] = NoValue] = user
    BY <1>5, <1>7 DEF EM!Key, Key, Call, ControlInv, TypeOK, DataOK
  <2>4. EM!Change([Settings EXCEPT ![EM!Key(t)] = NoValue])
    BY <1>2, <1>5, <2>1, <2>3 DEF EM!Change
  <2> QED BY <1>2, <2>2, <2>4 DEF MapStep, EM!Next, EM!Unset
<1> QED BY <1>6, <1>7 DEF Looks, SetFind, UnsetFind, BeginErase, BeginClear, Goto

\* The calls that the program has left when a call ends that does not fill.
LEMMA MapStores ==
  ASSUME ControlInv, Orderly, NEW t \in Threads, Store(t) \/ EndErase(t)
  PROVE  MapStep
<1>1. Step(t) /\ Changes(t)
  BY DEF Changes, Step
<1>2. pc[t] \in {"store", "erasing"}
  BY DEF Store, EndErase, In
<1>3. prog[t] # <<>> /\ ControlInv'
  BY <1>1, StepSplits, ControlThread
<1>4. left' = left /\ prog' = [prog EXCEPT ![t] = Tail(@)]
  BY DEF Store, EndErase, Return
<1>5. \A d \in Threads : left[d] = <<>> /\ left'[d] = <<>>
  BY <1>2, <1>3, <1>4, NobodyElseFills
<1>6. Settings = user /\ CallsLeft = prog /\ Settings' = user' /\ CallsLeft' = prog'
  BY <1>3, <1>5, NothingLeft, NothingLeftNext
<1>7. FitsPlace(Call(t).op, pc[t]) /\ "user" \in made
  BY <1>2 DEF ControlInv, PlacesFit
<1>8. \A op : Call(t).op = op => EM!Makes(t, op)
  BY <1>3, <1>4, <1>6 DEF EM!Makes, Call
<1>9. EM!Key(t) = Key(t) /\ Call(t) = Head(CallsLeft[t])
  BY <1>6 DEF EM!Key, Key, Call
<1>10. ASSUME NEW u, NEW touched, Change(u, touched) PROVE EM!Change(u) /\ made' = made
  BY <1>6, <1>7, <1>10 DEF Change, EM!Change
<1>11. CASE Store(t)
  <2>1. EM!Makes(t, "set")
    BY <1>2, <1>7, <1>8, <1>11 DEF Store, In, FitsPlace
  <2>2. EM!Set(t) /\ made' = made
    BY <1>6, <1>9, <1>10, <1>11, <2>1 DEF Store, EM!Set
  <2> QED BY <2>2 DEF MapStep, EM!Next
<1>12. CASE EndErase(t)
  <2>1. EM!Makes(t, "unset")
    BY <1>2, <1>7, <1>8, <1>12 DEF EndErase, In, FitsPlace
  <2>2. EM!Unset(t) /\ made' = made
    BY <1>6, <1>9, <1>10, <1>12, <2>1 DEF EndErase, EM!Unset
  <2> QED BY <2>2 DEF MapStep, EM!Next
<1> QED BY <1>11, <1>12

LEMMA SameApply == \A map, list : EM!Apply(map, list) = Apply(map, list)
  BY DEF EM!Apply, Apply, EM!Max, Max

LEMMA MapClears ==
  ASSUME ControlInv, Orderly, NEW t \in Threads, EndClear(t)
  PROVE  MapStep
<1> USE DEF ControlInv, TypeOK, ControlOK
<1>1. Step(t) /\ Changes(t)
  BY DEF Changes, Step
<1>2. pc[t] = "clearing"
  BY DEF EndClear, In
<1>3. prog[t] # <<>> /\ ControlInv'
  BY <1>1, StepSplits, ControlThread
<1>4. \A d \in Threads : left[d] = <<>>
  BY <1>2, <1>3, NobodyElseFills
<1>5. Settings = user /\ CallsLeft = prog
  BY <1>4, NothingLeft
<1>6. Call(t).op = "init" /\ "user" \in made
  BY <1>2 DEF PlacesFit, FitsPlace
<1>7. PICK l \in Seq(Keys \X Vals) : l = Call(t).list
  BY <1>3, <1>6, CallFacts
<1>8. left' = [left EXCEPT ![t] = l]
  BY <1>7 DEF EndClear
<1>9. PICK none \in [Keys -> MaybeVals] : none = [k \in Keys |-> NoValue]
  <2>1. [k \in Keys |-> NoValue] \in [Keys -> MaybeVals]
    BY DEF MaybeVals
  <2> QED BY <2>1
<1>10. user' = none /\ UNCHANGED <<process, system, made, answer>>
  BY <1>9 DEF EndClear, Change
<1>11. Settings' = Apply(none, l) /\ CallsLeft' = [prog EXCEPT ![t] = Tail(@)]
  <2>1. CASE l = <<>>
    <3>1. \A d \in Threads : left'[d] = <<>>
      BY <1>4, <1>8, <2>1
    <3>2. Settings' = user' /\ CallsLeft' = prog'
      BY <1>3, <3>1, NothingLeftNext
    <3>3. prog' = [prog EXCEPT ![t] = Tail(@)]
      BY <1>7, <2>1 DEF EndClear, Return
    <3>4. Apply(none, l) = none
      BY <1>9, <2>1, ApplyNothing
    <3> QED BY <1>10, <3>2, <3>3, <3>4
  <2>2. CASE l # <<>>
    <3>1. prog' = prog
      BY <1>7, <2>2 DEF EndClear, Goto
    <3>2. left'[t] = l /\ \A d \in Threads \ {t} : left'[d] = <<>>
      BY <1>4, <1>8
    <3>3. CallsLeft' = [d \in Threads |-> IF d = t THEN Tail(prog[d]) ELSE prog[d]]
      BY <2>2, <3>1, <3>2 DEF CallsLeft
    <3>4. CallsLeft' = [prog EXCEPT ![t] = Tail(@)]
      BY <3>3
    <3>5. (CHOOSE d \in Threads : left'[d] # <<>>) = t
      BY <2>2, <3>2
    <3>6. Settings' = Apply(user', left'[t])
      BY <2>2, <3>2, <3>5 DEF Settings
    <3> QED BY <1>10, <3>2, <3>4, <3>6
  <2> QED BY <2>1, <2>2
<1>12. EM!Makes(t, "init") /\ Head(CallsLeft[t]).list = l
  BY <1>3, <1>5, <1>6, <1>7, <1>11 DEF EM!Makes, Call
<1>13. Settings' = EM!Apply([k \in Keys |-> NoValue], Head(CallsLeft[t]).list)
  BY <1>9, <1>11, <1>12, SameApply
<1>14. EM!Replace(t)
  BY <1>6, <1>10, <1>12, <1>13 DEF EM!Replace, EM!Change
<1> QED BY <1>10, <1>14 DEF MapStep, EM!Next

LEMMA MapFills ==
  ASSUME ControlInv, Orderly, NEW t \in Threads, Fill(t)
  PROVE  MapStep
<1> USE DEF ControlInv, TypeOK, ControlOK, DataOK
<1>1. Step(t) /\ Changes(t)
  BY DEF Changes, Step
<1>2. prog[t] # <<>> /\ ControlInv' /\ pc[t] = "fill"
  BY <1>1, StepSplits, ControlThread DEF Fill, In
<1>3. PICK l \in Seq(Keys \X Vals) : l = left[t] /\ l # <<>>
  BY <1>2 DEF PlacesFit
<1>4. \A d \in Threads \ {t} : left[d] = <<>>
  BY <1>2, NobodyElseFills
<1>5. left' = [left EXCEPT ![t] = Tail(l)]
  BY <1>3 DEF Fill
<1>6. left'[t] = Tail(l) /\ \A d \in Threads \ {t} : left'[d] = <<>>
  BY <1>4, <1>5
<1>7. Tail(l) = <<>> <=> Len(l) = 1
  BY <1>3, TailFacts
<1>8. Settings = Apply(user, l)
  BY <1>3, <1>4, SettingsAre
<1>9. PICK u : u = [user EXCEPT ![Head(l)[1]] = Head(l)[2]]
  OBVIOUS
<1>10. user' = u /\ UNCHANGED <<process, system, made, answer>>
  BY <1>3, <1>9 DEF Fill, Change
<1>11. Apply(u, Tail(l)) = Apply(user, l)
  BY <1>3, <1>9, ApplyFirst
<1>12. user' \in [Keys -> MaybeVals]
  BY <1>2
<1>13. CallsLeft = [d \in Threads |-> IF d = t THEN Tail(prog[d]) ELSE prog[d]]
  BY <1>3, <1>4 DEF CallsLeft
<1>14. CASE Len(l) = 1
  <2>1. \A d \in Threads : left'[d] = <<>>
    BY <1>6, <1>7, <1>14
  <2>2. Settings' = user' /\ CallsLeft' = prog'
    BY <1>2, <2>1, NothingLeftNext
  <2>3. prog' = [prog EXCEPT ![t] = Tail(@)]
    BY <1>3, <1>14 DEF Fill, Return
  <2>4. CallsLeft' = CallsLeft
    BY <1>13, <2>2, <2>3
  <2>5. Apply(u, Tail(l)) = u
    BY <1>7, <1>10, <1>12, <1>14, ApplyNothing
  <2> QED BY <1>8, <1>10, <1>11, <2>2, <2>4, <2>5, SilentStep
<1>15. CASE Len(l) # 1
  <2>1. prog' = prog
    BY <1>3, <1>15 DEF Fill, Goto
  <2>2. (CHOOSE d \in Threads : left'[d] # <<>>) = t
    BY <1>6, <1>7, <1>15
  <2>3. Settings' = Apply(user', left'[t])
    BY <1>6, <1>7, <1>15, <2>2 DEF Settings
  <2>4. CallsLeft' = [d \in Threads |-> IF d = t THEN Tail(prog[d]) ELSE prog[d]]
    BY <1>6, <1>7, <1>15, <2>1 DEF CallsLeft
  <2> QED BY <1>6, <1>8, <1>10, <1>11, <1>13, <2>3, <2>4, SilentStep
<1> QED BY <1>14, <1>15

LEMMA MapPutenv ==
  ASSUME ControlInv, Orderly, NEW t \in Threads, Putenv(t)
  PROVE  MapStep
<1>1. Step(t)
  BY DEF Step
<1>2. UNCHANGED <<left, made, answer>> /\ \A d \in Threads : pc[d] = "idle"
  BY PutenvFrame
<1>3. prog[t] # <<>> /\ Call(t).op = "putenv" /\ ControlInv'
  BY <1>1, StepSplits, ControlThread
<1>4. \A d \in Threads : left[d] = <<>> /\ left'[d] = <<>>
  BY <1>2 DEF ControlInv, PlacesFit
<1>5. Settings = user /\ CallsLeft = prog /\ Settings' = user' /\ CallsLeft' = prog'
  BY <1>3, <1>4, NothingLeft, NothingLeftNext
<1>6. prog' = [prog EXCEPT ![t] = Tail(@)]
  BY DEF Putenv, Return
<1>7. EM!Makes(t, "putenv") /\ EM!Key(t) = Key(t) /\ Head(CallsLeft[t]) = Call(t)
  BY <1>3, <1>5, <1>6 DEF EM!Makes, EM!Key, Key, Call
<1>8. /\ process' = [process EXCEPT ![Key(t)] = Call(t).v]
      /\ user' = IF "user" \in made THEN user ELSE process'
      /\ system' = IF "system" \in made THEN system ELSE process'
  BY DEF Putenv
<1>9. EM!Putenv(t)
  BY <1>2, <1>5, <1>7, <1>8 DEF EM!Putenv
<1> QED BY <1>2, <1>9 DEF MapStep, EM!Next

LEMMA MapNextRound ==
  ASSUME ControlInv, NextRound
  PROVE  MapStep
<1>1. /\ UNCHANGED <<process, user, system, made, left, answer>>
      /\ \A d \in Threads : prog[d] = <<>> /\ left[d] = <<>> /\ left'[d] = <<>>
  BY RoundFrame
<1>2. ControlInv'
  BY ControlNextRound
<1>3. Settings = user /\ CallsLeft = prog /\ Settings' = user'
  BY <1>1, <1>2, NothingLeft, NothingLeftNext
<1>4. EM!NewCalls
  BY <1>1, <1>3 DEF EM!NewCalls
<1> QED BY <1>1, <1>4 DEF MapStep, EM!Next

LEMMA MapSame ==
  ASSUME UNCHANGED vars
  PROVE  MapStep
<1>1. UNCHANGED <<process, user, system, made, left, prog, answer>>
  BY DEF vars, threadVars, historyVars
<1>2. Settings' = Settings /\ CallsLeft' = CallsLeft
  BY <1>1 DEF Settings, CallsLeft
<1> QED BY <1>1, <1>2, SilentStep

\* The calls of an orderly program take effect in one step each: every step of a thread is
\* one of EnvMap or changes nothing of what EnvMap shows.
THEOREM ImplementsEnvMapHolds == Spec => ImplementsEnvMap
<1>1. ASSUME EnvInv, Next \/ Halted, Orderly PROVE MapStep
  <2>1. ControlInv /\ LooksStayTrue
    BY <1>1 DEF EnvInv
  <2>2. ASSUME NEW t \in Threads, Step(t) PROVE MapStep
    <3>1. ~Race(t)
      BY <1>1, <2>1, <2>2, StepSplits, NoRace DEF Race
    <3> QED BY <1>1, <2>1, <2>2, <3>1, MapGets, MapLooks, MapStores, MapClears, MapFills,
               MapPutenv DEF Step, Gets, Looks
  <2> QED BY <1>1, <2>1, <2>2, MapNextRound, MapSame DEF Next, Halted
<1>2. EnvInv /\ [Next \/ Halted]_vars =>
        [Orderly => (EM!Next \/ UNCHANGED EM!vars)]_vars
  BY <1>1 DEF MapStep
<1> QED BY <1>2, EnvInvariant, PTL DEF Spec, ImplementsEnvMap
===============================================================================
