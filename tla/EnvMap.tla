-------------------------------- MODULE EnvMap --------------------------------
(***************************************************************************)
(* What Env promises (Environ.hh), if each call took effect in one step:  *)
(* settings of the program's own, which start as a copy of the process's  *)
(* environment, are set, unset or replaced as a whole, and are preferred  *)
(* to a second copy that nothing changes.  Each copy is made on first use. *)
(***************************************************************************)
EXTENDS Sequences, KeyValues

CONSTANTS Threads, Keys, Empty, NoValue

VARIABLES process,           \* the process's environment
          settings, system,  \* the program's own values, and the second copy
          made,              \* which of the two are copied by now
          calls,             \* the calls each thread has yet to make
          answer             \* each thread's last answer
vars == <<process, settings, system, made, calls, answer>>

Makes(t, op) == /\ calls[t] # <<>> /\ Head(calls[t]).op = op
                /\ calls' = [calls EXCEPT ![t] = Tail(@)]
Key(t) == Head(calls[t]).k

Get(t) ==
  /\ Makes(t, "get") \/ Makes(t, "enabled")
  /\ answer' = [answer EXCEPT ![t] =
                  IF settings[Key(t)] # NoValue THEN settings[Key(t)]
                  ELSE IF system[Key(t)] # NoValue THEN system[Key(t)] ELSE Empty]
  /\ UNCHANGED <<process, settings, system>>

Change(map) == /\ settings' = map /\ "user" \in made'
               /\ UNCHANGED <<process, system, answer>>
Set(t) == Makes(t, "set") /\ Change([settings EXCEPT ![Key(t)] = Head(calls[t]).v])
Unset(t) == Makes(t, "unset") /\ Change([settings EXCEPT ![Key(t)] = NoValue])
Replace(t) ==
  Makes(t, "init") /\ Change(Apply([k \in Keys |-> NoValue], Head(calls[t]).list))

\* A setenv() by other means is seen by a copy that is yet to be made only.
Putenv(t) ==
  /\ Makes(t, "putenv")
  /\ process' = [process EXCEPT ![Key(t)] = Head(calls[t]).v]
  /\ settings' = IF "user" \in made THEN settings ELSE process'
  /\ system' = IF "system" \in made THEN system ELSE process'
  /\ answer' = answer

NewCalls == /\ \A t \in Threads : calls[t] = <<>>
            /\ UNCHANGED <<process, settings, system, answer>>
Copy == UNCHANGED <<process, settings, system, calls, answer>>

Next == /\ made \subseteq made'
        /\ \/ \E t \in Threads : Get(t) \/ Set(t) \/ Unset(t) \/ Replace(t) \/ Putenv(t)
           \/ NewCalls
           \/ Copy
===============================================================================
