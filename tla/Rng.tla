--------------------------------- MODULE Rng ---------------------------------
(***************************************************************************)
(* randomize() of the two random devices: SystemRng (SystemRng.cc), which  *)
(* reads /dev/urandom through a descriptor that all threads share, and     *)
(* HardwareRng (HardwareRng.cc), which executes RDRAND.  Either may fail   *)
(* at any point.  A byte of the caller's buffer is as it was, random, or   *)
(* zero; one byte more stands for what lies behind the buffer.             *)
(***************************************************************************)
EXTENDS Integers

CONSTANTS Threads,
          Requests,    \* what threads ask: a device, a length, an alignment
          SizeMax,     \* the greatest size_t
          MaxReads     \* 10
ASSUME RequestsAssumption ==
  Requests \subseteq [device : {"system", "hardware"}, length : Nat, aligned : BOOLEAN]
ASSUME BoundsAssumption ==
  /\ SizeMax \in Nat /\ MaxReads \in Nat
  /\ \A r \in Requests : r.length < SizeMax

VARIABLES fd,      \* m_fd: whether it holds a descriptor
          pc,      \* how far a thread has got
          req,     \* what it asked for
          out,     \* out of SystemRng, bytes_written of HardwareRng: the result
          reads,   \* i: the reads so far
          buf      \* the bytes of its buffer
vars == <<fd, pc, req, out, reads, buf>>

Nothing == [device |-> "system", length |-> 0, aligned |-> TRUE]
Fresh(n) == [b \in 0 .. n |-> "old"]
Init ==
  /\ fd = "none"
  /\ pc = [t \in Threads |-> "idle"]
  /\ req = [t \in Threads |-> Nothing]
  /\ out = [t \in Threads |-> 0]
  /\ reads = [t \in Threads |-> 0]
  /\ buf = [t \in Threads |-> Fresh(0)]

Length(t) == req[t].length
At(t, place) == pc[t] = place
Goto(t, place) == pc' = [pc EXCEPT ![t] = place]
Write(t, bytes, value) ==
  buf' = [buf EXCEPT ![t] = [b \in DOMAIN @ |-> IF b \in bytes THEN value ELSE @[b]]]

Randomize(t, r) ==
  /\ At(t, "idle")
  /\ req' = [req EXCEPT ![t] = r]
  /\ buf' = [buf EXCEPT ![t] = Fresh(r.length)]
  /\ Goto(t, IF r.device = "system" THEN "check" ELSE "stride")
  /\ UNCHANGED <<fd, out, reads>>

\* The caller looks at the result and drops the buffer.
Finish(t) ==
  /\ At(t, "returned")
  /\ req' = [req EXCEPT ![t] = Nothing]
  /\ buf' = [buf EXCEPT ![t] = Fresh(0)]
  /\ out' = [out EXCEPT ![t] = 0]
  /\ reads' = [reads EXCEPT ![t] = 0]
  /\ Goto(t, "idle")
  /\ UNCHANGED fd

(***************************************************************************)
(* SystemRng.  The static m_fd is read and written without a lock: two     *)
(* threads may both open the device, and the one that fails overwrites the *)
(* descriptor of the other.                                                *)
(***************************************************************************)
CheckFd(t) ==
  /\ At(t, "check")
  /\ Goto(t, IF fd = "none" THEN "open" ELSE "read")
  /\ UNCHANGED <<fd, req, out, reads, buf>>

Open(t) ==
  /\ At(t, "open")
  /\ fd' \in {"open", "none"}
  /\ Goto(t, "opened")
  /\ UNCHANGED <<req, out, reads, buf>>

\* Mutant: an attempt that fails is made again.
CheckAgain(t) ==
  /\ At(t, "opened")
  /\ Goto(t, IF fd = "none" THEN "check" ELSE "read")
  /\ UNCHANGED <<fd, req, out, reads, buf>>
CheckOpened(t) ==
  /\ At(t, "opened")
  /\ Goto(t, IF fd = "none" THEN "returned" ELSE "read")
  /\ UNCHANGED <<fd, req, out, reads, buf>>

\* Mutant: one read more.
OneReadMore(t) == reads[t] <= MaxReads /\ out[t] < Length(t)
MoreReads(t) == reads[t] < MaxReads /\ out[t] < Length(t)

\* A size_t, which no length exceeds, wraps below zero only.
Wrapped(n) == IF n < 0 THEN SizeMax ELSE n

\* read() returns -1 for an error, 0, or fewer bytes than it was asked for; whatever it
\* returns is added to a size_t.
Read(t) ==
  /\ At(t, "read") /\ MoreReads(t)
  /\ \E n \in -1 .. Length(t) - out[t] :
       /\ fd = "none" => n = -1
       /\ Write(t, out[t] .. out[t] + n - 1, "random")
       /\ out' = [out EXCEPT ![t] = Wrapped(@ + n)]
  /\ reads' = [reads EXCEPT ![t] = @ + 1]
  /\ UNCHANGED <<fd, pc, req>>

EndReads(t) ==
  /\ At(t, "read") /\ ~MoreReads(t)
  /\ Goto(t, "returned")
  /\ UNCHANGED <<fd, req, out, reads, buf>>

(***************************************************************************)
(* HardwareRng: two bytes at a time if the buffer is aligned, else one.    *)
(* RDRAND that fails leaves zero, which is stored all the same.            *)
(***************************************************************************)
Stride(t) == IF req[t].aligned THEN 2 ELSE 1
\* Mutant: until the length is reached or passed.
MoreBeyond(t) == out[t] < Length(t)
MoreStrides(t) == out[t] + Stride(t) <= Length(t)

\* read_rdrand() to n bytes from byte b on.
Rdrand(t, b, n, next) ==
  \/ /\ Write(t, b .. b + n - 1, "random")
     /\ out' = [out EXCEPT ![t] = @ + n]
     /\ Goto(t, next)
  \/ /\ Write(t, b .. b + n - 1, "zero")
     /\ UNCHANGED out
     /\ Goto(t, "returned")

ReadStride(t) ==
  /\ At(t, "stride") /\ MoreStrides(t)
  /\ Rdrand(t, out[t], Stride(t), "stride")
  /\ UNCHANGED <<fd, req, reads>>

EndStrides(t) ==
  /\ At(t, "stride") /\ ~MoreStrides(t)
  /\ Goto(t, IF Length(t) % 2 # 0 THEN "tail" ELSE "returned")
  /\ UNCHANGED <<fd, req, out, reads, buf>>

\* Mutant: the start of the buffer in either case.
TailFirst(t) == 0
\* The last byte of an odd length is where the aligned loop got to.  The other loop, which
\* has written all bytes, advanced another pointer: this one still points to the start.
Tail(t) == IF req[t].aligned THEN out[t] ELSE 0
ReadTail(t) ==
  /\ At(t, "tail")
  /\ Rdrand(t, Tail(t), 1, "returned")
  /\ UNCHANGED <<fd, req, reads>>

Step(t) == \/ CheckFd(t) \/ Open(t) \/ CheckOpened(t) \/ Read(t) \/ EndReads(t)
           \/ ReadStride(t) \/ EndStrides(t) \/ ReadTail(t)
Next == \E t \in Threads : Step(t) \/ Finish(t) \/ \E r \in Requests : Randomize(t, r)
Spec == Init /\ [][Next]_vars

\* A thread inside randomize() keeps running; read() and RDRAND do not block.
FairSpec == Spec /\ \A t \in Threads : WF_vars(Step(t))

(***************************************************************************)
(* Properties.                                                             *)
(***************************************************************************)
\* Each thread's buffer has the requested length, and its result is a size_t.
TypeOK ==
  /\ fd \in {"none", "open"}
  /\ pc \in [Threads -> {"idle", "check", "open", "opened", "read", "stride", "tail",
                        "returned"}]
  /\ req \in [Threads -> Requests \cup {Nothing}]
  /\ out \in [Threads -> 0 .. SizeMax]
  /\ reads \in [Threads -> 0 .. MaxReads]
  /\ DOMAIN buf = Threads
  /\ \A t \in Threads : buf[t] \in [0 .. Length(t) -> {"old", "random", "zero"}]

\* Nothing behind the buffer is written, however short the reads, wherever the device
\* fails, and whatever a failed read() does to the count (SystemRng.cc:79).
StaysInBuffer == \A t \in Threads : buf[t][Length(t)] = "old"

\* A result that is a number of bytes of the buffer is a number of random bytes: the
\* caller who compares it with the size, as Rng.hh:96-100 asks for, is not deceived.
CountedAreRandom ==
  \A t \in Threads :
    At(t, "returned") /\ out[t] <= Length(t) =>
      \A b \in 0 .. out[t] - 1 : buf[t][b] = "random"

\* randomize() returns even if its device fails again and again.
CallsReturn == \A t \in Threads : pc[t] # "idle" ~> pc[t] = "returned"
===============================================================================
