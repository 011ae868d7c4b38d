-------------------------------- MODULE Environ --------------------------------
(***************************************************************************)
(* Env and Environ (Environ.cc, Capi/environ.cc): two maps copied from    *)
(* the process's environment on their first use, of which only the user's *)
(* changes.  Its mutex guards exists() and _set() but not the accesses    *)
(* that follow exists() in get() and unset(), nor clear() in init().      *)
(*                                                                         *)
(* Threads run rounds of calls: a round begins when all have finished the *)
(* one before, as when a program joins its threads.  An access under the  *)
(* mutex is one step; one without it has a begin and an end, and is a data *)
(* race if another thread's access falls between and one of them writes.  *)
(***************************************************************************)
EXTENDS Naturals, Sequences, KeyValues

CONSTANTS Threads, Keys,
          Vals, Empty,       \* the values, the empty string among them
          NoValue,           \* a key that is not in a map
          Environs,          \* environments a process may start with
          Lists,             \* lists of pairs that init() may be called with
          Programs           \* the rounds of calls the threads make

Calls == [op : {"get", "enabled", "unset"}, k : Keys]
           \cup [op : {"set", "putenv"}, k : Keys, v : Vals]
           \cup [op : {"init"}, list : Lists]

ASSUME ConstantsAssumption ==
         /\ Empty \in Vals /\ NoValue \notin Vals
         /\ Environs \subseteq [Keys -> Vals \cup {NoValue}]
         /\ Lists \subseteq Seq(Keys \X Vals)
         /\ Programs \subseteq Seq([Threads -> Seq(Calls)])
         \* The process's environment is changed by a thread that runs alone: the C
         \* library lets nobody read it meanwhile.
         /\ \A p \in Programs : \A i \in DOMAIN p : \A t \in Threads : \A j \in DOMAIN p[i][t] :
              p[i][t][j].op = "putenv" => \A s \in Threads \ {t} : p[i][s] = <<>>

VARIABLES
  process,                   \* the process's environment
  user, system, made,        \* the static maps, and which of them are made by now
  rounds, round, prog,       \* all rounds, the current one, each thread's calls left
  pc, left,                  \* each thread's place; what is left of init()'s list
  stale,                     \* whether the text a thread looks at was changed
  answer, seen,              \* history: what get() returned, and all it could have
  last,                      \* history: last answer since a key was changed
  fault

threadVars == <<rounds, round, prog, left>>
historyVars == <<answer, seen, last>>
vars == <<process, user, system, made, threadVars, pc, stale, historyVars, fault>>

Init ==
  /\ process \in Environs
  /\ user = process /\ system = process /\ made = {}
  /\ rounds \in Programs /\ round = 0
  /\ prog = [t \in Threads |-> <<>>]
  /\ pc = [t \in Threads |-> "idle"]
  /\ left = [t \in Threads |-> <<>>]
  /\ stale = [t \in Threads |-> FALSE]
  /\ answer = [t \in Threads |-> NoValue]
  /\ seen = [t \in Threads |-> {}]
  /\ last = [k \in Keys |-> NoValue]
  /\ fault = "none"
-----------------------------------------------------------------------------
(* Control flow of a thread.                                                *)

Call(t) == Head(prog[t])
Key(t) == Call(t).k
Goto(t, place) == pc' = [pc EXCEPT ![t] = place] /\ prog' = prog
Return(t) == pc' = [pc EXCEPT ![t] = "idle"] /\ prog' = [prog EXCEPT ![t] = Tail(@)]

\* Every call but init() begins with exists(); get() repeats it.
ReadsNext(t) == \/ pc[t] = "idle" /\ Call(t).op \in {"get", "enabled", "set", "unset"}
                \/ pc[t] \in {"find", "at"}
WritesNext(t) == \/ pc[t] = "idle" /\ Call(t).op = "init"
                 \/ pc[t] \in {"store", "erase", "fill"}

\* Whether the next access of t falls into one that another thread makes unlocked.
Races(t) ==
  \E d \in Threads \ {t} : \/ pc[d] \in {"erasing", "clearing"} /\ (ReadsNext(t) \/ WritesNext(t))
                           \/ pc[d] = "reading" /\ WritesNext(t)

Runs(t) == fault = "none" /\ prog[t] # <<>>
In(t, place) == Runs(t) /\ pc[t] = place /\ ~Races(t)
Calling(t, ops) == Runs(t) /\ pc[t] = "idle" /\ Call(t).op \in ops /\ ~Races(t)

Fail(kind) ==
  /\ fault' = kind
  /\ UNCHANGED <<process, user, system, made, threadVars, pc, stale, historyVars>>

\* Undefined behaviour: what follows is not explored.
Race(t) == Runs(t) /\ Races(t) /\ Fail("race")
-----------------------------------------------------------------------------
(* Changes of the user's map, and answers.                                  *)

Getting(t) == pc[t] \in {"find", "at", "reading", "system", "copy"}

\* The value of key k for a program that has the user's map u.  A map that is not
\* made yet stands for the environment that it will be copied from.
Overlay(u, k) == IF u[k] # NoValue THEN u[k]
                 ELSE IF system[k] # NoValue THEN system[k] ELSE Empty

\* The user's map becomes u, which stores or drops the texts of some keys.
Change(u, touched) ==
  /\ user' = u
  /\ stale' = [t \in Threads |-> stale[t] \/ (pc[t] = "copy" /\ Key(t) \in touched)]
  /\ seen' = [t \in Threads |->
                IF Getting(t) THEN seen[t] \cup {Overlay(u, Key(t))} ELSE seen[t]]
  /\ last' = [k \in Keys |-> IF u[k] = user[k] THEN last[k] ELSE NoValue]
  /\ UNCHANGED <<process, system, made, rounds, round, answer, fault>>

Answer(t, v) ==
  /\ answer' = [answer EXCEPT ![t] = v]
  /\ last' = [last EXCEPT ![Key(t)] = v]
  /\ Return(t)
  /\ UNCHANGED <<process, user, system, rounds, round, left, seen, fault>>
-----------------------------------------------------------------------------
(* Env::get(), and au_env_is_enabled(), which copies the text it gets.      *)

\* Mutant: the system's map is preferred.
GetSystemFirst(t) ==
  /\ Calling(t, {"get", "enabled"})
  /\ made' = made \cup {"user"}
  /\ seen' = [seen EXCEPT ![t] = {Overlay(user, Key(t))}]
  /\ Goto(t, IF user[Key(t)] = NoValue \/ system[Key(t)] # NoValue THEN "system" ELSE "find")
  /\ UNCHANGED <<process, user, system, rounds, round, left, stale, answer, last, fault>>

\* getUserEnv().exists(): the first use makes the user's map.
GetUser(t) ==
  /\ Calling(t, {"get", "enabled"})
  /\ made' = made \cup {"user"}
  /\ seen' = [seen EXCEPT ![t] = {Overlay(user, Key(t))}]
  /\ Goto(t, IF user[Key(t)] = NoValue THEN "system" ELSE "find")
  /\ UNCHANGED <<process, user, system, rounds, round, left, stale, answer, last, fault>>

\* Environ::get() of the user's map looks again, and has its own empty string for a
\* key that went away.
Find(t) ==
  /\ In(t, "find")
  /\ IF user[Key(t)] = NoValue THEN Answer(t, Empty)
     ELSE /\ Goto(t, "at")
          /\ UNCHANGED <<process, user, system, rounds, round, left, historyVars, fault>>
  /\ UNCHANGED <<made, stale>>

\* at() is not under the mutex.
BeginAt(t) ==
  /\ In(t, "at")
  /\ Goto(t, "reading")
  /\ UNCHANGED <<process, user, system, made, rounds, round, left, stale, historyVars, fault>>

\* at() throws if the key is gone.
EndAt(t) ==
  /\ In(t, "reading")
  /\ \/ user[Key(t)] = NoValue /\ Fail("out_of_range")
     \/ /\ user[Key(t)] # NoValue /\ Call(t).op = "get"
        /\ Answer(t, user[Key(t)])
        /\ UNCHANGED <<made, stale>>
     \/ /\ user[Key(t)] # NoValue /\ Call(t).op = "enabled"
        /\ Goto(t, "copy")
        /\ stale' = [stale EXCEPT ![t] = FALSE]
        /\ UNCHANGED <<process, user, system, made, rounds, round, left, historyVars, fault>>

\* The copy is made from the view that get() returned.  If the text has changed
\* since, its storage may have been used again or freed.
Copy(t) ==
  /\ In(t, "copy")
  /\ \/ user[Key(t)] # NoValue /\ Answer(t, user[Key(t)]) /\ UNCHANGED <<made, stale>>
     \/ stale[t] /\ Fail("dangling")

\* Mutant: the system's map is read anew each time.
GetSystemAnew(t) ==
  /\ In(t, "system")
  /\ Answer(t, IF process[Key(t)] = NoValue THEN Empty ELSE process[Key(t)])
  /\ UNCHANGED <<made, stale>>

\* getSystemEnv().get(): the first use makes the map, which nothing changes then, so
\* that its steps need not be told apart.
GetSystem(t) ==
  /\ In(t, "system")
  /\ made' = made \cup {"system"}
  /\ Answer(t, IF system[Key(t)] = NoValue THEN Empty ELSE system[Key(t)])
  /\ stale' = stale
-----------------------------------------------------------------------------
(* Env::set(), Env::unset() and Env::init().                                *)

\* exists(), whose result is not used.
SetFind(t) ==
  /\ Calling(t, {"set"})
  /\ made' = made \cup {"user"}
  /\ Goto(t, "store")
  /\ UNCHANGED <<process, user, system, rounds, round, left, stale, historyVars, fault>>

\* Mutant: without the mutex, two threads that store are in a race.
StoreUnlocked(t) ==
  /\ In(t, "store")
  /\ IF \E d \in Threads \ {t} : pc[d] = "store" THEN Fail("race")
     ELSE /\ Change([user EXCEPT ![Key(t)] = Call(t).v], {Key(t)})
          /\ Return(t) /\ left' = left

\* _set(), under the mutex.
Store(t) ==
  /\ In(t, "store")
  /\ Change([user EXCEPT ![Key(t)] = Call(t).v], {Key(t)})
  /\ Return(t) /\ left' = left

UnsetFind(t) ==
  /\ Calling(t, {"unset"})
  /\ made' = made \cup {"user"}
  /\ IF user[Key(t)] = NoValue THEN Return(t) ELSE Goto(t, "erase")
  /\ UNCHANGED <<process, user, system, rounds, round, left, stale, historyVars, fault>>

\* erase() is not under the mutex.
BeginErase(t) ==
  /\ In(t, "erase")
  /\ Goto(t, "erasing")
  /\ UNCHANGED <<process, user, system, made, rounds, round, left, stale, historyVars, fault>>

EndErase(t) ==
  /\ In(t, "erasing")
  /\ Change([user EXCEPT ![Key(t)] = NoValue], {Key(t)})
  /\ Return(t) /\ left' = left

\* clear() is not under the mutex either.
BeginClear(t) ==
  /\ Calling(t, {"init"})
  /\ made' = made \cup {"user"}
  /\ Goto(t, "clearing")
  /\ UNCHANGED <<process, user, system, rounds, round, left, stale, historyVars, fault>>

\* Mutant: the old values are kept.
EndClearKept(t) ==
  /\ In(t, "clearing")
  /\ Change(user, Keys)
  /\ left' = [left EXCEPT ![t] = Call(t).list]
  /\ IF Call(t).list = <<>> THEN Return(t) ELSE Goto(t, "fill")

EndClear(t) ==
  /\ In(t, "clearing")
  /\ Change([k \in Keys |-> NoValue], Keys)
  /\ left' = [left EXCEPT ![t] = Call(t).list]
  /\ IF Call(t).list = <<>> THEN Return(t) ELSE Goto(t, "fill")

\* _set() of the next pair.
Fill(t) ==
  LET e == Head(left[t]) IN
  /\ In(t, "fill")
  /\ Change([user EXCEPT ![e[1]] = e[2]], {e[1]})
  /\ left' = [left EXCEPT ![t] = Tail(@)]
  /\ IF Len(left[t]) = 1 THEN Return(t) ELSE Goto(t, "fill")
-----------------------------------------------------------------------------
\* The program changes the process's environment by other means.
Putenv(t) ==
  /\ Calling(t, {"putenv"})
  /\ process' = [process EXCEPT ![Key(t)] = Call(t).v]
  /\ user' = IF "user" \in made THEN user ELSE process'
  /\ system' = IF "system" \in made THEN system ELSE process'
  /\ Return(t)
  /\ UNCHANGED <<made, rounds, round, left, stale, historyVars, fault>>

Joined == fault = "none" /\ \A t \in Threads : prog[t] = <<>>
NextRound ==
  /\ Joined /\ round < Len(rounds)
  /\ round' = round + 1
  /\ prog' = rounds[round + 1]
  /\ UNCHANGED <<process, user, system, made, rounds, pc, left, stale, historyVars, fault>>

Step(t) == \/ GetUser(t) \/ Find(t) \/ BeginAt(t) \/ EndAt(t) \/ Copy(t) \/ GetSystem(t)
           \/ SetFind(t) \/ Store(t) \/ UnsetFind(t) \/ BeginErase(t) \/ EndErase(t)
           \/ BeginClear(t) \/ EndClear(t) \/ Fill(t) \/ Putenv(t) \/ Race(t)
Next == (\E t \in Threads : Step(t)) \/ NextRound

Halted == (fault # "none" \/ (Joined /\ round = Len(rounds))) /\ UNCHANGED vars
Spec == Init /\ [][Next \/ Halted]_vars
-----------------------------------------------------------------------------
\* A program is orderly if in each round only one thread calls, or all only get, or
\* all only set.
OpsOf(calls) == {calls[i].op : i \in DOMAIN calls}
QuietRound(r) ==
  LET ops == UNION {OpsOf(r[t]) : t \in Threads}
  IN  \/ \A s, t \in Threads : r[s] # <<>> /\ r[t] # <<>> => s = t
      \/ ops \subseteq {"get", "enabled"}
      \/ ops \subseteq {"set"}
Orderly == \A i \in DOMAIN rounds : QuietRound(rounds[i])

\* The mutex suffices for an orderly program: no data race, no exception, no dangling
\* text, although get(), unset() and init() leave it before they use the map.
OrderlyIsSafe == Orderly => fault = "none"

Answered(t) == pc[t] = "idle" /\ answer[t] # NoValue

\* Any answer but the empty one is a value that the key had during the call, the
\* user's before the system's, in any program; in an orderly one the empty one, too.
AnswersAreCurrent ==
  \A t \in Threads : Answered(t) /\ (Orderly \/ answer[t] # Empty) => answer[t] \in seen[t]

\* A key that the program does not change has one answer for ever, whatever becomes
\* of the process's environment.
AnswersAreStable ==
  [][\A t \in Threads :
       Orderly /\ Getting(t) /\ pc'[t] = "idle" /\ last[Key(t)] # NoValue
         => answer'[t] = last[Key(t)]]_vars

\* The calls of an orderly program take effect in one step each, as in EnvMap:
\* get()'s two looks into the user's map answer as one, and init(), whose steps
\* others could see, replaces the map as a whole.
Settings ==
  IF \E t \in Threads : left[t] # <<>>
  THEN LET t == CHOOSE d \in Threads : left[d] # <<>>
       IN  Apply(user, left[t])
  ELSE user
CallsLeft == [t \in Threads |-> IF left[t] # <<>> THEN Tail(prog[t]) ELSE prog[t]]
EM == INSTANCE EnvMap WITH settings <- Settings, calls <- CallsLeft
ImplementsEnvMap == [][Orderly => (EM!Next \/ UNCHANGED EM!vars)]_vars
===============================================================================
