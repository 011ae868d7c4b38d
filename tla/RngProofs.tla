------------------------------ MODULE RngProofs ------------------------------
(***************************************************************************)
(* The random devices write no byte behind a buffer, for any number of     *)
(* threads, lengths and reads; and they count random bytes only, unless    *)
(* RDRAND is to fill an odd number of bytes at an odd address.             *)
(***************************************************************************)
EXTENDS Rng, TLAPS

Fit(r) == r.aligned \/ r.length % 2 = 0

\* What holds of one thread.
Counted(t) == out[t] <= Length(t) => \A b \in 0 .. out[t] - 1 : buf[t][b] = "random"
Contained(t) ==
  /\ buf[t][Length(t)] = "old"
  /\ pc[t] = "idle" => out[t] = 0 /\ reads[t] = 0
  /\ pc[t] \in {"stride", "tail"} => /\ out[t] <= Length(t)
                                     /\ req[t].aligned => out[t] % 2 = 0
  /\ pc[t] = "tail" => Length(t) % 2 = 1
IInv == TypeOK /\ \A t \in Threads : Contained(t)
FInv == \A t \in Threads : Fit(req[t]) /\ Counted(t)

LEMMA RequestType ==
  ASSUME NEW r \in Requests \cup {Nothing}
  PROVE  /\ r.device \in {"system", "hardware"}
         /\ r.length \in Nat /\ r.length <= SizeMax
<1>1. CASE r \in Requests
  BY <1>1, RequestsAssumption, BoundsAssumption
<1>2. CASE r = Nothing
  BY <1>2, BoundsAssumption DEF Nothing
<1> QED
  BY <1>1, <1>2

LEMMA LengthBound ==
  ASSUME TypeOK, NEW t \in Threads, Length(t) > 0
  PROVE  Length(t) < SizeMax
<1>1. req[t] \in Requests \/ req[t] = Nothing
  BY DEF TypeOK
<1>2. req[t] # Nothing
  BY DEF Length, Nothing
<1> QED
  BY <1>1, <1>2, BoundsAssumption DEF Length

LEMMA InitHolds == Init => IInv
BY BoundsAssumption
DEF Init, IInv, TypeOK, Contained, Length, Nothing, Fresh

\* A write leaves a buffer's type, and every byte outside of the written ones.
LEMMA Written ==
  ASSUME TypeOK, NEW t \in Threads, NEW u \in Threads, NEW bytes,
         NEW value \in {"old", "random", "zero"}, Write(t, bytes, value)
  PROVE  /\ DOMAIN buf' = Threads
         /\ buf'[u] \in [0 .. Length(u) -> {"old", "random", "zero"}]
         /\ \A b \in 0 .. Length(u) :
              buf'[u][b] = IF u = t /\ b \in bytes THEN value ELSE buf[u][b]
<1>1. /\ buf[u] \in [0 .. Length(u) -> {"old", "random", "zero"}]
      /\ DOMAIN buf = Threads
  BY DEF TypeOK
<1>2. DOMAIN buf' = Threads
  BY <1>1 DEF Write
<1>3. CASE u = t
  <2>1. buf'[u] = [b \in DOMAIN buf[u] |-> IF b \in bytes THEN value ELSE buf[u][b]]
    BY <1>1, <1>3 DEF Write
  <2> QED
    BY <2>1, <1>1, <1>2, <1>3
<1>4. CASE u # t
  BY <1>1, <1>2, <1>4 DEF Write
<1> QED
  BY <1>3, <1>4

LEMMA StepHolds == IInv /\ [Next]_vars => IInv'
<1> SUFFICES ASSUME IInv, [Next]_vars PROVE IInv'
  OBVIOUS
<1>t. /\ TypeOK /\ \A t \in Threads : Contained(t)
      /\ MaxReads \in Nat /\ SizeMax \in Nat
      /\ \A t \in Threads : /\ Length(t) \in Nat /\ Length(t) <= SizeMax
                            /\ req[t].device \in {"system", "hardware"}
  BY RequestType, BoundsAssumption DEF IInv, TypeOK, Length
<1>1. ASSUME NEW t \in Threads, NEW r \in Requests, Randomize(t, r) PROVE IInv'
  <2>1. r.length \in Nat
    BY RequestType
  <2>2. TypeOK'
    BY <1>t, <1>1, <2>1 DEF Randomize, TypeOK, Length, Fresh, Goto
  <2>3. ASSUME NEW u \in Threads PROVE Contained(u)'
    BY <1>t, <1>1, <2>1 DEF Randomize, TypeOK, Contained, At, Length, Fresh, Goto
  <2> QED
    BY <2>2, <2>3 DEF IInv
<1>2. ASSUME NEW t \in Threads, Finish(t) PROVE IInv'
  <2>1. TypeOK'
    BY <1>t, <1>2 DEF Finish, TypeOK, Length, Fresh, Goto, Nothing
  <2>2. ASSUME NEW u \in Threads PROVE Contained(u)'
    BY <1>t, <1>2 DEF Finish, TypeOK, Contained, Length, Fresh, Goto, Nothing
  <2> QED
    BY <2>1, <2>2 DEF IInv
<1>3. ASSUME NEW t \in Threads, CheckFd(t) \/ CheckOpened(t) PROVE IInv'
  <2>1. TypeOK'
    <3>1. CASE CheckFd(t)
      BY <1>t, <3>1 DEF CheckFd, TypeOK, Length, Goto
    <3>2. CASE CheckOpened(t)
      BY <1>t, <3>2 DEF CheckOpened, TypeOK, Length, Goto
    <3> QED
      BY <1>3, <3>1, <3>2
  <2>2. ASSUME NEW u \in Threads PROVE Contained(u)'
    BY <1>t, <1>3 DEF CheckFd, CheckOpened, TypeOK, Contained, Length, At, Goto
  <2> QED
    BY <2>1, <2>2 DEF IInv
<1>4. ASSUME NEW t \in Threads, Open(t) PROVE IInv'
  <2>1. TypeOK'
    BY <1>t, <1>4 DEF Open, TypeOK, Length, Goto
  <2>2. ASSUME NEW u \in Threads PROVE Contained(u)'
    BY <1>t, <1>4 DEF Open, TypeOK, Contained, Length, Goto
  <2> QED
    BY <2>1, <2>2 DEF IInv
<1>5. ASSUME NEW t \in Threads, Read(t) PROVE IInv'
  <2> DEFINE bytes(n) == out[t] .. out[t] + n - 1
  <2>1. PICK n \in -1 .. Length(t) - out[t] :
          /\ Write(t, bytes(n), "random")
          /\ out' = [out EXCEPT ![t] = Wrapped(@ + n)]
    BY <1>5 DEF Read
  <2>2. /\ out[t] \in Nat /\ out[t] < Length(t) /\ reads[t] < MaxReads
        /\ out[t] + n <= Length(t) /\ pc[t] = "read"
    BY <1>t, <1>5, <2>1 DEF Read, MoreReads, At, TypeOK
  <2>3. Wrapped(out[t] + n) \in 0 .. SizeMax
    BY <1>t, <2>1, <2>2 DEF Wrapped
  <2>4. ASSUME NEW u \in Threads
        PROVE  /\ DOMAIN buf' = Threads
               /\ buf'[u] \in [0 .. Length(u) -> {"old", "random", "zero"}]
               /\ buf'[u][Length(u)] = buf[u][Length(u)]
    <3>1. Length(u) \in Nat /\ (u = t => Length(u) \notin bytes(n))
      BY <1>t, <2>1, <2>2
    <3> HIDE DEF bytes
    <3>2. /\ DOMAIN buf' = Threads
          /\ buf'[u] \in [0 .. Length(u) -> {"old", "random", "zero"}]
          /\ \A b \in 0 .. Length(u) :
               buf'[u][b] = IF u = t /\ b \in bytes(n) THEN "random" ELSE buf[u][b]
      BY <1>t, <2>1, Written
    <3> QED
      BY <3>1, <3>2
  <2>5. TypeOK'
    BY <1>t, <1>5, <2>1, <2>2, <2>3, <2>4 DEF Read, TypeOK, Length, Write
  <2>6. ASSUME NEW u \in Threads PROVE Contained(u)'
    BY <1>t, <1>5, <2>1, <2>2, <2>4 DEF Read, TypeOK, Contained, Length
  <2> QED
    BY <2>5, <2>6 DEF IInv
<1>6. ASSUME NEW t \in Threads, EndReads(t) PROVE IInv'
  BY <1>t, <1>6 DEF EndReads, IInv, TypeOK, Contained, Length, At, Goto
<1>7. ASSUME NEW t \in Threads, ReadStride(t) PROVE IInv'
  <2> DEFINE n == Stride(t)
             bytes == out[t] .. out[t] + n - 1
  <2>1. /\ n \in {1, 2} /\ out[t] \in Nat /\ out[t] + n <= Length(t)
        /\ req[t].aligned => n = 2 /\ (out[t] + n) % 2 = 0
        /\ pc[t] = "stride"
    BY <1>t, <1>7 DEF ReadStride, MoreStrides, Stride, At, TypeOK, Contained
  <2>2. PICK value \in {"random", "zero"} :
          /\ Write(t, bytes, value)
          /\ \/ out' = [out EXCEPT ![t] = @ + n] /\ pc' = [pc EXCEPT ![t] = "stride"]
             \/ out' = out /\ pc' = [pc EXCEPT ![t] = "returned"]
    BY <1>7 DEF ReadStride, Rdrand, Goto
  <2> HIDE DEF n
  <2>3. ASSUME NEW u \in Threads
        PROVE  /\ DOMAIN buf' = Threads
               /\ buf'[u] \in [0 .. Length(u) -> {"old", "random", "zero"}]
               /\ buf'[u][Length(u)] = buf[u][Length(u)]
    <3>1. Length(u) \in Nat /\ (u = t => Length(u) \notin bytes)
      BY <1>t, <2>1, <2>2
    <3> HIDE DEF bytes
    <3>2. /\ DOMAIN buf' = Threads
          /\ buf'[u] \in [0 .. Length(u) -> {"old", "random", "zero"}]
          /\ \A b \in 0 .. Length(u) :
               buf'[u][b] = IF u = t /\ b \in bytes THEN value ELSE buf[u][b]
      BY <1>t, <2>2, Written
    <3> QED
      BY <3>1, <3>2
  <2>4. TypeOK'
    <3>1. out' \in [Threads -> 0 .. SizeMax]
      <4>1. out[t] + n \in 0 .. SizeMax
        BY <1>t, <2>1
      <4> QED
        BY <4>1, <1>t, <2>2 DEF TypeOK
    <3>2. pc' \in [Threads -> {"idle", "check", "open", "opened", "read", "stride", "tail",
                            "returned"}]
      BY <1>t, <2>2 DEF TypeOK
    <3>3. fd' = fd /\ req' = req /\ reads' = reads
      BY <1>7 DEF ReadStride
    <3> QED
      BY <3>1, <3>2, <3>3, <1>t, <2>3 DEF TypeOK, Length
  <2>5. ASSUME NEW u \in Threads PROVE Contained(u)'
    BY <1>t, <1>7, <2>1, <2>2, <2>3 DEF ReadStride, TypeOK, Contained, Length
  <2> QED
    BY <2>4, <2>5 DEF IInv
<1>8. ASSUME NEW t \in Threads, EndStrides(t) PROVE IInv'
  <2>1. TypeOK'
    BY <1>t, <1>8 DEF EndStrides, TypeOK, Length, Goto
  <2>2. ASSUME NEW u \in Threads PROVE Contained(u)'
    BY <1>t, <1>8 DEF EndStrides, TypeOK, Contained, Length, At, Goto
  <2> QED
    BY <2>1, <2>2 DEF IInv
<1>9. ASSUME NEW t \in Threads, ReadTail(t) PROVE IInv'
  <2> DEFINE b0 == Tail(t)
             bytes == b0 .. b0 + 1 - 1
  <2>1. /\ b0 \in Nat /\ b0 < Length(t) /\ out[t] \in Nat /\ out[t] <= Length(t)
        /\ pc[t] = "tail"
    <3>1. /\ out[t] \in Nat /\ out[t] <= Length(t) /\ pc[t] = "tail"
          /\ Length(t) % 2 = 1 /\ (req[t].aligned => out[t] % 2 = 0)
      BY <1>t, <1>9 DEF ReadTail, At, TypeOK, Contained
    <3>2. Length(t) > 0 /\ (req[t].aligned => out[t] < Length(t))
      BY <1>t, <3>1
    <3> QED
      BY <3>1, <3>2 DEF Tail
  <2>2. PICK value \in {"random", "zero"} :
          /\ Write(t, bytes, value)
          /\ \/ out' = [out EXCEPT ![t] = @ + 1] \/ out' = out
          /\ pc' = [pc EXCEPT ![t] = "returned"]
    BY <1>9 DEF ReadTail, Rdrand, Goto
  <2> HIDE DEF b0
  <2>3. ASSUME NEW u \in Threads
        PROVE  /\ DOMAIN buf' = Threads
               /\ buf'[u] \in [0 .. Length(u) -> {"old", "random", "zero"}]
               /\ buf'[u][Length(u)] = buf[u][Length(u)]
    <3>1. Length(u) \in Nat /\ (u = t => Length(u) \notin bytes)
      BY <1>t, <2>1, <2>2
    <3> HIDE DEF bytes
    <3>2. /\ DOMAIN buf' = Threads
          /\ buf'[u] \in [0 .. Length(u) -> {"old", "random", "zero"}]
          /\ \A b \in 0 .. Length(u) :
               buf'[u][b] = IF u = t /\ b \in bytes THEN value ELSE buf[u][b]
      BY <1>t, <2>2, Written
    <3> QED
      BY <3>1, <3>2
  <2>4. Length(t) + 1 <= SizeMax
    BY <1>t, <2>1, LengthBound
  <2>5. TypeOK'
    BY <1>t, <1>9, <2>1, <2>2, <2>3, <2>4 DEF ReadTail, TypeOK, Length, Write
  <2>6. ASSUME NEW u \in Threads PROVE Contained(u)'
    BY <1>t, <1>9, <2>1, <2>2, <2>3 DEF ReadTail, TypeOK, Contained, Length
  <2> QED
    BY <2>5, <2>6 DEF IInv
<1>10. CASE UNCHANGED vars
  BY <1>t, <1>10 DEF vars, IInv, TypeOK, Contained, Length
<1> QED
  BY <1>1, <1>2, <1>3, <1>4, <1>5, <1>6, <1>7, <1>8, <1>9, <1>10 DEF Next, Step

LEMMA Invariance == Spec => []IInv
BY InitHolds, StepHolds, PTL DEF Spec

\* The type invariant of both devices' randomize() (SystemRng.cc, HardwareRng.cc).
THEOREM TypeCorrect == Spec => []TypeOK
<1>1. IInv => TypeOK
  BY DEF IInv
<1> QED
  BY <1>1, Invariance, PTL

\* No byte behind the buffer is written (SystemRng.cc:76-83, HardwareRng.cc:86-119), for
\* any length, alignment, number of threads and failure of the device.
THEOREM BuffersAreKept == Spec => []StaysInBuffer
<1>1. IInv => StaysInBuffer
  BY DEF IInv, Contained, StaysInBuffer
<1> QED
  BY <1>1, Invariance, PTL

LEMMA FitInit == Init => FInv
<1> SUFFICES ASSUME Init PROVE FInv
  OBVIOUS
<1>1. Fit(Nothing)
  <2>1. Nothing.aligned
    BY Zenon DEF Nothing
  <2> QED
    BY <2>1, Zenon DEF Fit
<1>2. ASSUME NEW t \in Threads PROVE Fit(req[t]) /\ Counted(t)
  <2>1. req[t] = Nothing /\ out[t] = 0
    BY DEF Init
  <2>2. 0 .. out[t] - 1 = {}
    BY <2>1
  <2>3. Counted(t)
    BY <2>2 DEF Counted
  <2> QED
    BY <1>1, <2>1, <2>3
<1> QED
  BY <1>2 DEF FInv

\* No step changes a byte that is counted.
LEMMA FitStep ==
  ASSUME \A r \in Requests : Fit(r), IInv, FInv, [Next]_vars
  PROVE  FInv'
<1>t. /\ TypeOK /\ \A t \in Threads : Contained(t) /\ Fit(req[t]) /\ Counted(t)
      /\ \A t \in Threads : Length(t) \in Nat /\ out[t] \in Nat
  BY RequestType DEF IInv, FInv, TypeOK, Length
<1>w. ASSUME NEW t \in Threads, NEW n \in Int, NEW value \in {"random", "zero"},
             Write(t, out[t] .. out[t] + n - 1, value), req' = req,
             out' \in [Threads -> Nat],
             \A u \in Threads : u # t => out'[u] = out[u],
             out'[t] <= Length(t) =>
               out[t] <= Length(t) /\ (out'[t] <= out[t] \/ (out'[t] = out[t] + n /\ value = "random"))
      PROVE  FInv'
  <2> DEFINE bytes == out[t] .. out[t] + n - 1
  <2> SUFFICES ASSUME NEW u \in Threads PROVE Fit(req[u])' /\ Counted(u)'
    BY DEF FInv
  <2>1. Fit(req[u])'
    BY <1>t, <1>w
  <2>2. Length(u)' = Length(u) /\ Length(u) \in Nat
    BY <1>t, <1>w DEF Length
  <2>3. ASSUME out'[u] <= Length(u), NEW b \in 0 .. out'[u] - 1
        PROVE  buf'[u][b] = "random"
    <3>1. b \in 0 .. Length(u) /\ out'[u] \in Nat /\ out[u] \in Nat
      BY <1>t, <1>w, <2>2, <2>3
    <3>2. u = t /\ b >= out[t] => b \in bytes /\ value = "random"
      BY <1>t, <1>w, <2>2, <2>3, <3>1
    <3>3. u = t /\ b \in bytes => b >= out[t]
      BY <1>t, <3>1
    <3>4. ~(u = t /\ b >= out[t]) => buf[u][b] = "random"
      BY <1>t, <1>w, <2>2, <2>3, <3>1 DEF Counted
    <3> HIDE DEF bytes
    <3>5. buf'[u][b] = IF u = t /\ b \in bytes THEN value ELSE buf[u][b]
      BY <1>t, <1>w, <3>1, Written DEF bytes
    <3> QED
      BY <3>2, <3>3, <3>4, <3>5
  <2> QED
    BY <2>1, <2>2, <2>3 DEF Counted
<1>1. ASSUME NEW t \in Threads, NEW r \in Requests, Randomize(t, r) PROVE FInv'
  BY <1>t, <1>1 DEF Randomize, FInv, Counted, Contained, At, Length, TypeOK
<1>2. ASSUME NEW t \in Threads, Finish(t) PROVE FInv'
  BY <1>t, <1>2 DEF Finish, FInv, Fit, Counted, Nothing, Length, TypeOK
<1>3. ASSUME NEW t \in Threads,
             \/ CheckFd(t) \/ Open(t) \/ CheckOpened(t) \/ EndReads(t) \/ EndStrides(t)
      PROVE  FInv'
  BY <1>t, <1>3 DEF CheckFd, Open, CheckOpened, EndReads, EndStrides, FInv, Counted, Length
<1>4. ASSUME NEW t \in Threads, Read(t) PROVE FInv'
  <2>1. PICK n \in -1 .. Length(t) - out[t] :
          /\ Write(t, out[t] .. out[t] + n - 1, "random")
          /\ out' = [out EXCEPT ![t] = Wrapped(@ + n)]
    BY <1>4 DEF Read
  <2>2. out[t] < Length(t) /\ req' = req
    BY <1>4 DEF Read, MoreReads
  <2>3. /\ Wrapped(out[t] + n) \in Nat
        /\ Wrapped(out[t] + n) <= Length(t) =>
             Wrapped(out[t] + n) = out[t] + n \/ Wrapped(out[t] + n) <= out[t]
    <3>1. Length(t) < SizeMax /\ SizeMax \in Nat
      BY <1>t, <2>2, LengthBound, BoundsAssumption
    <3> QED
      BY <3>1, <1>t, <2>1, <2>2 DEF Wrapped
  <2> QED
    BY <1>t, <1>w, <2>1, <2>2, <2>3 DEF TypeOK
<1>5. ASSUME NEW t \in Threads, NEW n \in Nat, NEW next, Rdrand(t, out[t], n, next),
             out[t] <= Length(t), req' = req
      PROVE  FInv'
  <2>1. PICK value \in {"random", "zero"} :
          /\ Write(t, out[t] .. out[t] + n - 1, value)
          /\ \/ out' = [out EXCEPT ![t] = @ + n] /\ value = "random"
             \/ out' = out
    BY <1>5 DEF Rdrand
  <2>2. /\ out' \in [Threads -> Nat]
        /\ \A u \in Threads : u # t => out'[u] = out[u]
        /\ out'[t] <= out[t] \/ (out'[t] = out[t] + n /\ value = "random")
    <3>1. CASE out' = [out EXCEPT ![t] = @ + n] /\ value = "random"
      <4>1. out[t] + n \in Nat
        BY <1>t, <1>5
      <4>2. out \in [Threads -> Nat]
        BY <1>t, BoundsAssumption DEF TypeOK
      <4> QED
        BY <3>1, <4>1, <4>2
    <3>2. CASE out' = out
      BY <3>2, <1>t DEF TypeOK
    <3> QED
      BY <3>1, <3>2, <2>1
  <2>3. n \in Int
    OBVIOUS
  <2>4. out'[t] <= Length(t) =>
          out[t] <= Length(t) /\ (out'[t] <= out[t] \/ (out'[t] = out[t] + n /\ value = "random"))
    BY <1>5, <2>2
  <2>5. Write(t, out[t] .. out[t] + n - 1, value)
    BY <2>1
  <2> QED
    BY <1>w, <1>5, <2>2, <2>3, <2>4, <2>5
<1>6. ASSUME NEW t \in Threads, ReadStride(t) PROVE FInv'
  <2>1. Stride(t) \in Nat /\ out[t] <= Length(t) /\ req' = req
    BY <1>t, <1>6 DEF ReadStride, Stride, At, Contained
  <2> QED
    BY <1>5, <1>6, <2>1 DEF ReadStride
<1>7. ASSUME NEW t \in Threads, ReadTail(t) PROVE FInv'
  <2>1. out[t] <= Length(t) /\ Length(t) % 2 = 1 /\ req' = req
    BY <1>t, <1>7 DEF ReadTail, At, Contained
  <2>2. Tail(t) = out[t]
    BY <1>t, <2>1 DEF Tail, Fit, Length
  <2> QED
    BY <1>5, <1>7, <2>1, <2>2 DEF ReadTail
<1>8. CASE UNCHANGED vars
  BY <1>t, <1>8 DEF vars, FInv, Counted, Length
<1> QED
  BY <1>1, <1>2, <1>3, <1>4, <1>6, <1>7, <1>8 DEF Next, Step

\* The result of randomize() never counts a byte that is not random (Rng.hh:96-100), for
\* any number of threads and reads and any failure, if no caller asks the hardware for an
\* odd number of bytes at an odd address.
THEOREM CountsAreTrue ==
  ASSUME \A r \in Requests : Fit(r)
  PROVE  Spec => []CountedAreRandom
<1>1. IInv /\ FInv /\ [Next]_vars => FInv'
  BY FitStep
<1>2. FInv => CountedAreRandom
  BY DEF FInv, Counted, CountedAreRandom
<1> QED
  BY <1>1, <1>2, FitInit, Invariance, PTL DEF Spec
===============================================================================
