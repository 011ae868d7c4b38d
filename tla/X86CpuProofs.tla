----------------------------- MODULE X86CpuProofs -----------------------------
(***************************************************************************)
(* The constructor of X86Cpu restores the caller's affinity and describes  *)
(* the processor asked about, and the C functions answer what is true of it, *)
(* on every machine and for every question.                                *)
(***************************************************************************)
EXTENDS X86Cpu, FiniteSetTheorems, WellFoundedInduction, TLAPS

\* A set of natural numbers has a least one: the intervals from zero to its members are
\* finite sets, and strict inclusion of finite sets is well-founded.
LEMMA LeastNumber ==
  ASSUME NEW T, T \subseteq Nat, T # {}
  PROVE  \E x \in T : \A y \in T : x <= y
<1> DEFINE U == {0..n : n \in T}
<1>1. PICK R : R = StrictSubsetOrdering(Nat)
  OBVIOUS
<1>2. PICK F : F = FiniteSubsetsOf(Nat)
  OBVIOUS
<1>3. IsWellFoundedOn(R, F)
  BY <1>1, <1>2, FS_StrictSubsetOrderingWellFounded
<1>4. U \subseteq F
  <2>1. ASSUME NEW n \in T PROVE 0..n \in F
    <3>1. IsFiniteSet(0..n)
      BY FS_Interval
    <3> QED BY <3>1, <1>2 DEF FiniteSubsetsOf
  <2> QED BY <2>1
<1>5. U # {}
  OBVIOUS
<1>6. PICK V : V = U
  OBVIOUS
<1>7. \E v \in V : \A w \in V : ~ (<<w, v>> \in R)
  BY <1>3, <1>4, <1>5, <1>6, WFMin
<1>8. PICK x \in T : \A y \in T : ~ (<<0..y, 0..x>> \in R)
  BY <1>6, <1>7
<1>9. ASSUME NEW y \in T, y < x PROVE FALSE
  <2>1. 0..y \subseteq 0..x /\ 0..y # 0..x
    <3>1. x \in 0..x /\ x \notin 0..y
      BY <1>9
    <3> QED BY <3>1, <1>9
  <2>2. <<0..y, 0..x>> \in R
    BY <2>1, <1>1 DEF StrictSubsetOrdering
  <2> QED BY <2>2, <1>8
<1>10. \A y \in T : x <= y
  BY <1>9
<1> QED BY <1>10

\* Where the caller's mask is at each step of an undisturbed call.  The constructor
\* moves the thread only if it was asked for a processor by its number.
KeepsMask ==
  /\ step \in {"save", "move"} => num # Current
  /\ machine.fits /\ ~disturbed =>
       /\ step \in {"idle", "save", "built", "answered"} => mask = before
       /\ step = "move" => mask = before /\ saved = before
       /\ step \in {"version", "vendor", "flags"} =>
            IF num = Current THEN mask = before ELSE saved = before
       /\ step = "restore" => saved = before
IInv == TypeOK /\ KeepsMask

LEMMA NumberType == \A c \in Calls : c.num \in Nat
BY CallsAssumption

LEMMA UarchType ==
  ASSUME NEW f \in Nat, NEW m \in Nat, NEW s \in Nat, NEW u \in 0 .. 6
  PROVE  SetUarch(f, m, s, u) \in 0 .. 6
BY DEF SetUarch, EFamily, EUarch, ZenModels, Picasso, Pinnacleridge, Zen2Models,
       Zen3Models, Warhol, Zen4Models, MakeModel

LEMMA VersionType ==
  ASSUME NEW v \in [baseFamily : Nat, extFamily : Nat, baseModel : Nat,
                    extModel : Nat, stepping : Nat]
  PROVE  GetFamily(v) \in Nat /\ GetModel(v) \in Nat /\ v.stepping \in Nat
BY DEF GetFamily, GetModel, MakeModel, EFamily

LEMMA SettledType ==
  ASSUME TypeOK, NEW set
  PROVE  Settled(set) \in (SUBSET machine.allowed) \ {{}}
BY DEF TypeOK, Settled

LEMMA ConcurrencyType == TypeOK => HardwareConcurrency \in Nat
BY MachinesAssumption, FS_CardinalityType DEF TypeOK, HardwareConcurrency

LEMMA SettledBefore == TypeOK => Settled(before) = before
BY DEF TypeOK, Settled

LEMMA HereType ==
  ASSUME TypeOK, NEW p \in Here
  PROVE  /\ p.vendor \in {"Amd", "Intel", "Other"}
         /\ p.version \in [baseFamily : Nat, extFamily : Nat, baseModel : Nat,
                           extModel : Nat, stepping : Nat]
BY MachinesAssumption DEF TypeOK, Here

LEMMA InitHolds == Init => IInv
<1> SUFFICES ASSUME Init PROVE IInv
  OBVIOUS
<1>1. cpu \in CpuRecord
  BY DEF Init, NoCpu, CpuRecord, EFamily, EUarch
<1>2. machine.allowed \subseteq machine.online
  BY MachinesAssumption DEF Init
<1>3. row \in 1 .. Len(CPUID_MAP) + 1
  BY DEF Init, CPUID_MAP
<1> QED
  BY <1>1, <1>2, <1>3 DEF Init, IInv, TypeOK, KeepsMask

LEMMA StepHolds == IInv /\ [Next]_vars => IInv'
<1> SUFFICES ASSUME IInv, [Next]_vars PROVE IInv'
  OBVIOUS
<1> USE DEF IInv
<1>t. /\ TypeOK /\ KeepsMask
      /\ machine.allowed \subseteq machine.online
      /\ Current \in Nat
      /\ Len(CPUID_MAP) \in Nat /\ DOMAIN CPUID_MAP = 1 .. Len(CPUID_MAP)
  BY MachinesAssumption, CurrentAssumption DEF TypeOK, CPUID_MAP
<1>1. ASSUME NEW c \in Calls, Refuse(c) PROVE IInv'
  BY <1>t, <1>1 DEF Refuse, TypeOK, KeepsMask, HardwareConcurrency
<1>2. ASSUME NEW c \in Calls, Begin(c) PROVE IInv'
  <2>1. NoCpu \in CpuRecord
    BY DEF NoCpu, CpuRecord, EFamily, EUarch
  <2>2. num' \in 0 .. HardwareConcurrency \cup {Current}
    <3>1. c.num \in Nat /\ HardwareConcurrency \in Nat
      BY NumberType, ConcurrencyType, <1>t
    <3> QED
      BY <3>1, <1>2 DEF Begin, Fallback
  <2>3. TypeOK'
    BY <2>1, <2>2, <1>t, <1>2 DEF Begin, TypeOK, HardwareConcurrency
  <2>4. KeepsMask'
    BY <1>t, <1>2 DEF Begin, KeepsMask
  <2> QED
    BY <2>3, <2>4
<1>3. CASE Save
  BY <1>t, <1>3 DEF Save, TypeOK, KeepsMask, HardwareConcurrency
<1>4. CASE Move
  <2>1. mask' \in (SUBSET machine.allowed) \ {{}}
    BY <1>4, SettledType DEF Move
  <2>2. TypeOK'
    BY <2>1, <1>t, <1>4 DEF Move, TypeOK, HardwareConcurrency
  <2>3. KeepsMask'
    BY <1>t, <1>4 DEF Move, KeepsMask
  <2> QED
    BY <2>2, <2>3
<1>5. CASE ReadVersion
  <2>1. cpu' \in CpuRecord
    <3>1. PICK p \in Here : cpu' = [cpu EXCEPT !.family = GetFamily(p.version),
                                               !.model = GetModel(p.version),
                                               !.stepping = p.version.stepping]
      BY <1>5 DEF ReadVersion
    <3>2. /\ GetFamily(p.version) \in Nat /\ GetModel(p.version) \in Nat
          /\ p.version.stepping \in Nat
      BY <1>t, HereType, VersionType
    <3>3. cpu \in CpuRecord
      BY <1>t DEF TypeOK
    <3> QED
      BY <3>1, <3>2, <3>3 DEF CpuRecord
  <2>2. TypeOK'
    BY <2>1, <1>t, <1>5 DEF ReadVersion, TypeOK, HardwareConcurrency
  <2>3. KeepsMask'
    BY <1>t, <1>5 DEF ReadVersion, KeepsMask
  <2> QED
    BY <2>2, <2>3
<1>6. CASE ReadVendor
  <2>1. cpu' \in CpuRecord
    <3>1. PICK p \in Here :
            cpu' = [cpu EXCEPT !.mfg = p.vendor,
                               !.uarch = SetUarch(cpu.family, cpu.model, cpu.stepping, @)]
      BY <1>6 DEF ReadVendor
    <3>2. cpu \in CpuRecord
      BY <1>t DEF TypeOK
    <3>3. /\ p.vendor \in {"none", "Amd", "Intel", "Other"}
          /\ SetUarch(cpu.family, cpu.model, cpu.stepping, cpu.uarch) \in 0 .. 6
      BY <1>t, <3>2, HereType, UarchType DEF CpuRecord
    <3> QED
      BY <3>1, <3>2, <3>3 DEF CpuRecord
  <2>2. TypeOK'
    BY <2>1, <1>t, <1>6 DEF ReadVendor, TypeOK, HardwareConcurrency
  <2>3. KeepsMask'
    BY <1>t, <1>6 DEF ReadVendor, KeepsMask
  <2> QED
    BY <2>2, <2>3
<1>7. CASE UpdateFlags
  <2>1. \A a : HasFlag(CPUID_MAP[row], a) \subseteq CPUID_MAP[row].flags
    BY DEF HasFlag
  <2>2. row \in DOMAIN CPUID_MAP /\ CPUID_MAP[row].flags \subseteq KnownFlags
    BY <1>7 DEF UpdateFlags, KnownFlags
  <2>3. cpu' \in CpuRecord
    <3>1. PICK a : cpu' = [cpu EXCEPT !.avail = @ \cup HasFlag(CPUID_MAP[row], a),
                                      !.known = @ \cup CPUID_MAP[row].flags]
      BY <1>7 DEF UpdateFlags
    <3>2. cpu \in CpuRecord
      BY <1>t DEF TypeOK
    <3>3. /\ cpu.avail \cup HasFlag(CPUID_MAP[row], a) \in SUBSET KnownFlags
          /\ cpu.known \cup CPUID_MAP[row].flags \in SUBSET KnownFlags
      BY <2>1, <2>2, <3>2 DEF CpuRecord
    <3> QED
      BY <3>1, <3>2, <3>3 DEF CpuRecord
  <2>4. row' \in 1 .. Len(CPUID_MAP) + 1
    BY <2>2, <1>t, <1>7 DEF UpdateFlags
  <2>5. TypeOK'
    BY <2>3, <2>4, <1>t, <1>7 DEF UpdateFlags, TypeOK, HardwareConcurrency
  <2>6. KeepsMask'
    BY <1>t, <1>7 DEF UpdateFlags, KeepsMask
  <2> QED
    BY <2>5, <2>6
<1>8. CASE Updated
  BY <1>t, <1>8 DEF Updated, TypeOK, KeepsMask, HardwareConcurrency
<1>9. CASE Restore
  <2>1. mask' \in (SUBSET machine.allowed) \ {{}}
    BY <1>9, SettledType DEF Restore
  <2>2. machine.fits /\ ~disturbed => mask' = before
    BY <1>t, <1>9, SettledBefore DEF Restore, KeepsMask
  <2>3. TypeOK'
    BY <2>1, <1>t, <1>9 DEF Restore, TypeOK, HardwareConcurrency
  <2>4. KeepsMask'
    BY <2>2, <1>t, <1>9 DEF Restore, KeepsMask
  <2> QED
    BY <2>3, <2>4
<1>10. CASE Reply
  BY <1>t, <1>10 DEF Reply, TypeOK, KeepsMask, HardwareConcurrency
<1>11. CASE Return
  <2>1. NoCpu \in CpuRecord
    BY DEF NoCpu, CpuRecord, EFamily, EUarch
  <2>2. TypeOK'
    BY <2>1, <1>t, <1>11 DEF Return, TypeOK, HardwareConcurrency
  <2>3. KeepsMask'
    BY <1>t, <1>11 DEF Return, KeepsMask
  <2> QED
    BY <2>2, <2>3
<1>12. CASE PinnedByOther
  BY <1>t, <1>12 DEF PinnedByOther, TypeOK, KeepsMask, HardwareConcurrency
<1>13. CASE UNCHANGED vars
  BY <1>t, <1>13 DEF vars, TypeOK, KeepsMask, HardwareConcurrency
<1> QED
  BY <1>1, <1>2, <1>3, <1>4, <1>5, <1>6, <1>7, <1>8, <1>9, <1>10, <1>11, <1>12, <1>13
  DEF Next

LEMMA Invariance == Spec => []IInv
BY InitHolds, StepHolds, PTL DEF Spec

\* The type invariant of the constructor (X86Cpu.cc, X86RawData.cc).
THEOREM TypeCorrect == Spec => []TypeOK
<1>1. IInv => TypeOK
  BY DEF IInv
<1> QED
  BY <1>1, Invariance, PTL

\* Undisturbed, on a machine whose processors fit into a cpu_set_t, a question about any
\* processor leaves the caller's affinity as it was (X86Cpu.cc:64-95).
THEOREM AffinityIsRestored == Spec => []AffinityRestored
<1>1. IInv => AffinityRestored
  BY DEF IInv, KeepsMask, AffinityRestored
<1> QED
  BY <1>1, Invariance, PTL
-----------------------------------------------------------------------------
(* The table of requests: the rows tell their requests apart and have every *)
(* flag.                                                                   *)

\* The flags of the rows below n.
Rows(n) == UNION {CPUID_MAP[i].flags : i \in 1 .. n - 1}

\* No row takes another one's answer: the sums of their requests differ.
LEMMA RequestsDiffer ==
  /\ DOMAIN CPUID_MAP = 1 .. 10
  /\ \A i, j \in 1 .. 10 :
       Sum(CPUID_MAP[i].request) = Sum(CPUID_MAP[j].request) => i = j
<1>1. DOMAIN CPUID_MAP = 1 .. 10
  BY DEF CPUID_MAP
<1>2. /\ Sum(CPUID_MAP[1].request) = <<"basic", 1>>
      /\ Sum(CPUID_MAP[2].request) = <<"basic", 6>>
      /\ Sum(CPUID_MAP[3].request) = <<"basic", 7>>
      /\ Sum(CPUID_MAP[4].request) = <<"basic", 13>>
      /\ Sum(CPUID_MAP[5].request) = <<"extended", 1>>
      /\ Sum(CPUID_MAP[6].request) = <<"extended", 7>>
      /\ Sum(CPUID_MAP[7].request) = <<"extended", 10>>
      /\ Sum(CPUID_MAP[8].request) = <<"centaur", 1>>
      /\ Sum(CPUID_MAP[9].request) = <<"basic", 8>>
      /\ Sum(CPUID_MAP[10].request) = <<"basic", 0>>
  BY DEF Sum, CPUID_MAP, Leaf
<1>3. \A i \in 1 .. 10 : i \in {1, 2, 3, 4, 5, 6, 7, 8, 9, 10}
  OBVIOUS
<1>4. \A i, j \in 1 .. 10 :
        Sum(CPUID_MAP[i].request) = Sum(CPUID_MAP[j].request) => i = j
  BY <1>2, <1>3
<1> QED BY <1>1, <1>4

\* All rows together have all flags, and Min.
LEMMA FlagsAreAll ==
  Rows(1) = {} /\ Rows(11) = ECpuidFlag \cup {"Min"}
<1>1. \A i \in 1 .. 10 : i \in {1, 2, 3, 4, 5, 6, 7, 8, 9, 10}
  OBVIOUS
<1>2. /\ CPUID_MAP[1].flags = FeatureRows
      /\ CPUID_MAP[2].flags = {"arat"}
      /\ CPUID_MAP[3].flags = ExtendedFeatureRows
      /\ CPUID_MAP[4].flags = {"xsaveopt", "xsavec", "xgetbv1", "xsaves"}
      /\ CPUID_MAP[5].flags = AmdRows
      /\ CPUID_MAP[6].flags = {"invtsc"}
      /\ CPUID_MAP[7].flags = SvmRows
      /\ CPUID_MAP[8].flags = CentaurRows
      /\ CPUID_MAP[9].flags = {"avx512_bf16", "avxvnni"}
      /\ CPUID_MAP[10].flags = {"Min"}
  BY DEF CPUID_MAP
<1>3. Rows(11) = FeatureRows \cup {"arat"} \cup ExtendedFeatureRows
            \cup {"xsaveopt", "xsavec", "xgetbv1", "xsaves"} \cup AmdRows \cup {"invtsc"}
            \cup SvmRows \cup CentaurRows \cup {"avx512_bf16", "avxvnni"} \cup {"Min"}
  <2>1. Rows(11) = UNION {CPUID_MAP[i].flags : i \in 1 .. 10}
    BY DEF Rows
  <2> QED BY <1>1, <1>2, <2>1
<1>4. @ = ECpuidFlag \cup {"Min"}
  BY DEF FeatureRows, ExtendedFeatureRows, AmdRows, SvmRows, CentaurRows, ECpuidFlag
<1>5. Rows(1) = {}
  BY DEF Rows
<1> QED BY <1>3, <1>4, <1>5

LEMMA NamesOfFlags == "Min" \notin ECpuidFlag /\ "-1" \notin ECpuidFlag \cup {"Min"}
  BY DEF ECpuidFlag

LEMMA NextRow ==
  ASSUME NEW n \in 1 .. 10
  PROVE  Rows(n + 1) = Rows(n) \cup CPUID_MAP[n].flags
<1>1. \A i : i \in 1 .. (n + 1) - 1 <=> i \in 1 .. n - 1 \/ i = n
  OBVIOUS
<1> QED BY <1>1 DEF Rows

-----------------------------------------------------------------------------
(* One processor answers all requests.                                     *)

\* What an undisturbed X86Cpu of a processor p holds: at the start, when the version is
\* read, when the rows below n are updated, and at the end.
Versioned(p) == [NoCpu EXCEPT !.family = GetFamily(p.version), !.model = GetModel(p.version),
                              !.stepping = p.version.stepping]
Partial(p, n) ==
  [mfg |-> p.vendor, family |-> GetFamily(p.version), model |-> GetModel(p.version),
   stepping |-> p.version.stepping,
   uarch |-> SetUarch(GetFamily(p.version), GetModel(p.version), p.version.stepping,
                      EUarch.Unknown),
   avail |-> {f \in Rows(n) : f = "Min" \/ f \in p.has}, known |-> Rows(n)]

\* Nobody interferes, and one processor is asked about.
Quiet == machine.fits /\ ~disturbed /\ Cardinality(Asked) = 1
HoldsOf(p) ==
  /\ step = "vendor" => cpu = Versioned(p)
  /\ step = "flags" => /\ cpu = Partial(p, row)
                       /\ DOMAIN raw = {Sum(CPUID_MAP[i].request) : i \in 1 .. row - 1}
  /\ step \in {"restore", "built"} => cpu = Snapshot(p)
  /\ step = "answered" => TooShort(call) \/ (cpu = Snapshot(p) /\ answer = AnswerTo(call))
\* The thread is where the question takes it.
Turned ==
  /\ step # "idle" => call \in Calls
  /\ step \in {"save", "move", "version", "vendor", "flags", "restore"} =>
       num = Fallback(call.num)
  /\ step \in {"version", "vendor", "flags"} /\ machine.fits /\ ~disturbed => mask = Asked
  /\ step \in {"save", "move", "version"} => cpu = NoCpu
  /\ step # "flags" => row = 1 /\ raw = NoAnswers
Describes ==
  step # "idle" /\ Quiet => \A n \in Asked : HoldsOf(machine.cpu[n])
ReportInv == IInv /\ Turned /\ Describes

LEMMA SnapshotIs ==
  ASSUME NEW p
  PROVE  Partial(p, 11) = Snapshot(p)
<1>1. {f \in ECpuidFlag \cup {"Min"} : f = "Min" \/ f \in p.has}
        = (p.has \cap ECpuidFlag) \cup {"Min"}
  OBVIOUS
<1> QED BY <1>1, FlagsAreAll DEF Partial, Snapshot

\* A record is told from its fields.
LEMMA PartialIs ==
  ASSUME NEW p, NEW c \in CpuRecord, NEW n,
         c.mfg = p.vendor, c.family = GetFamily(p.version), c.model = GetModel(p.version),
         c.stepping = p.version.stepping,
         c.uarch = SetUarch(c.family, c.model, c.stepping, EUarch.Unknown),
         c.avail = {f \in Rows(n) : f = "Min" \/ f \in p.has}, c.known = Rows(n)
  PROVE  c = Partial(p, n)
BY DEF CpuRecord, Partial

\* A frame: what the call is about does not change.
Same == UNCHANGED <<machine, call, before, disturbed>>
LEMMA SameAsked ==
  ASSUME Same
  PROVE  Asked' = Asked /\ Quiet' = Quiet
BY DEF Same, Asked, Quiet, HardwareConcurrency

LEMMA TheOne ==
  ASSUME IInv, Cardinality(Asked) = 1
  PROVE  \E n \in machine.allowed : Asked = {n}
<1>1. IsFiniteSet(Asked) /\ Asked \subseteq machine.allowed
  <2>1. machine.allowed \subseteq machine.online /\ IsFiniteSet(machine.online)
    BY MachinesAssumption DEF IInv, TypeOK
  <2> QED BY <2>1, FS_Subset DEF IInv, TypeOK, Asked
<1> QED BY <1>1, FS_Singleton

LEMMA Alone ==
  ASSUME ReportInv, Quiet, step \in {"version", "vendor", "flags"}, NEW n \in Asked
  PROVE  Here = {machine.cpu[n]}
<1>1. mask = {n}
  BY TheOne DEF ReportInv, Turned, Quiet
<1> QED BY <1>1 DEF Here

LEMMA DescribesInit == Init => ReportInv
BY InitHolds DEF Init, ReportInv, Turned, Describes

\* The steps of a call that is under way.
LEMMA SameStep ==
  ASSUME ReportInv, Same, IInv', Turned', step # "idle",
         Quiet => \A n \in Asked : HoldsOf(machine.cpu[n])'
  PROVE  ReportInv'
<1>1. Describes'
  <2>1. SUFFICES ASSUME Quiet', NEW n \in Asked' PROVE HoldsOf(machine.cpu[n])'
    BY DEF Describes
  <2>2. Quiet /\ n \in Asked
    BY <2>1, SameAsked
  <2> QED BY <2>2
<1> QED BY <1>1 DEF ReportInv

LEMMA DescribesRefuse ==
  ASSUME ReportInv, NEW c \in Calls, Refuse(c) PROVE ReportInv'
<1>1. TooShort(c)
  BY DEF Refuse
<1>2. Turned'
  BY DEF Refuse, ReportInv, Turned
<1>3. Describes'
  BY <1>1 DEF Refuse, Describes, HoldsOf
<1> QED BY <1>2, <1>3, StepHolds DEF ReportInv, Next

LEMMA DescribesBegin ==
  ASSUME ReportInv, NEW c \in Calls, Begin(c) PROVE ReportInv'
<1>1. /\ step' \in {"version", "save"} /\ call' = c /\ num' = Fallback(c.num) /\ cpu' = NoCpu
      /\ before' = mask /\ mask' = mask /\ row' = row /\ raw' = raw /\ machine' = machine
      /\ step' = "version" => num' = Current
  BY DEF Begin
<1>2. step' = "version" => mask' = Asked'
  <2>1. HardwareConcurrency \in Nat /\ c.num \in Nat /\ Current \in Nat
        /\ Current > HardwareConcurrency /\ HardwareConcurrency' = HardwareConcurrency
    BY <1>1, NumberType, ConcurrencyType, CurrentAssumption
    DEF ReportInv, IInv, TypeOK, HardwareConcurrency
  <2> QED BY <1>1, <2>1 DEF Asked, Fallback
<1>3. Turned'
  <2>1. row = 1 /\ raw = NoAnswers
    BY DEF Begin, ReportInv, Turned
  <2>2. Fallback(c.num)' = Fallback(c.num)
    BY <1>1 DEF Fallback, HardwareConcurrency
  <2> QED BY <1>1, <1>2, <2>1 DEF Turned, Fallback, HardwareConcurrency
<1>4. Describes'
  BY <1>1 DEF Describes, HoldsOf
<1> QED BY <1>3, <1>4, StepHolds DEF ReportInv, Next

LEMMA DescribesSave ==
  ASSUME ReportInv, Save PROVE ReportInv'
<1>1. IInv'
  BY StepHolds DEF ReportInv, Next
<1>2. Same
  BY DEF Save, Same
<1>3. Turned'
  BY DEF Save, ReportInv, Turned, Fallback, HardwareConcurrency
<1> QED BY <1>1, <1>2, <1>3, SameStep DEF Save, HoldsOf

LEMMA DescribesMove ==
  ASSUME ReportInv, Move PROVE ReportInv'
<1>1. IInv'
  BY StepHolds DEF ReportInv, Next
<1>2. Same
  BY DEF Move, Same
<1>3. machine.fits /\ ~disturbed => mask' = Asked
  <2>1. SUFFICES ASSUME machine.fits, ~disturbed PROVE mask' = Asked
    OBVIOUS
  <2>2. mask = before /\ num # Current /\ num = Fallback(call.num)
    BY <2>1 DEF Move, ReportInv, IInv, KeepsMask, Turned
  <2>3. num = call.num /\ call.num <= HardwareConcurrency
    <3>1. HardwareConcurrency \in Nat /\ call.num \in Nat
      BY NumberType, ConcurrencyType DEF ReportInv, IInv, Turned, Move
    <3> QED BY <2>2, <3>1 DEF Fallback
  <2>4. mask' = IF num \in machine.allowed THEN {num} ELSE mask
    BY DEF Move, Settled
  <2> QED BY <2>2, <2>3, <2>4 DEF Asked
<1>4. Turned'
  BY <1>2, <1>3, SameAsked DEF Move, ReportInv, Turned, Fallback, HardwareConcurrency
<1> QED BY <1>1, <1>2, <1>4, SameStep DEF Move, HoldsOf

LEMMA DescribesReadVersion ==
  ASSUME ReportInv, ReadVersion PROVE ReportInv'
<1>1. IInv'
  BY StepHolds DEF ReportInv, Next
<1>2. Same
  BY DEF ReadVersion, Same
<1>3. Turned'
  BY <1>2, SameAsked DEF ReadVersion, ReportInv, Turned, Fallback, HardwareConcurrency
<1>4. Quiet => \A n \in Asked : HoldsOf(machine.cpu[n])'
  <2>1. SUFFICES ASSUME Quiet, NEW n \in Asked PROVE HoldsOf(machine.cpu[n])'
    OBVIOUS
  <2>2. Here = {machine.cpu[n]} /\ cpu = NoCpu /\ machine' = machine
    BY <2>1, Alone DEF ReadVersion, ReportInv, Turned
  <2>3. step' = "vendor" /\ cpu' = Versioned(machine.cpu[n])
    BY <2>2 DEF ReadVersion, Versioned
  <2> QED BY <2>2, <2>3 DEF HoldsOf
<1> QED BY <1>1, <1>2, <1>3, <1>4, SameStep DEF ReadVersion

LEMMA DescribesReadVendor ==
  ASSUME ReportInv, ReadVendor PROVE ReportInv'
<1>1. IInv'
  BY StepHolds DEF ReportInv, Next
<1>2. Same
  BY DEF ReadVendor, Same
<1>3. Turned'
  BY <1>2, SameAsked DEF ReadVendor, ReportInv, Turned, Fallback, HardwareConcurrency
<1>4. Quiet => \A n \in Asked : HoldsOf(machine.cpu[n])'
  <2>1. SUFFICES ASSUME Quiet, NEW n \in Asked PROVE HoldsOf(machine.cpu[n])'
    OBVIOUS
  <2> DEFINE p == machine.cpu[n]
  <2>2. Here = {p} /\ machine' = machine
    BY <2>1, Alone DEF ReadVendor
  <2>3. cpu = Versioned(p)
    BY <2>1 DEF ReadVendor, ReportInv, Describes, HoldsOf
  <2>4. step' = "flags" /\ row' = 1 /\ raw' = NoAnswers
    BY DEF ReadVendor, ReportInv, Turned
  <2>5. cpu' = [cpu EXCEPT !.mfg = p.vendor,
                           !.uarch = SetUarch(cpu.family, cpu.model, cpu.stepping, @)]
    BY <2>2 DEF ReadVendor
  <2>6. cpu' = Partial(p, 1)
    <3>1. cpu \in CpuRecord /\ cpu' \in CpuRecord
      BY <1>1 DEF ReportInv, IInv, TypeOK
    <3>2. /\ cpu.family = GetFamily(p.version) /\ cpu.model = GetModel(p.version)
          /\ cpu.stepping = p.version.stepping
      BY <2>3 DEF Versioned, NoCpu
    <3>3. cpu.uarch = EUarch.Unknown /\ cpu.avail = {} /\ cpu.known = {}
      BY <2>3 DEF Versioned, NoCpu
    <3>4. /\ cpu'.mfg = p.vendor /\ cpu'.family = cpu.family /\ cpu'.model = cpu.model
          /\ cpu'.stepping = cpu.stepping /\ cpu'.avail = cpu.avail /\ cpu'.known = cpu.known
          /\ cpu'.uarch = SetUarch(cpu.family, cpu.model, cpu.stepping, cpu.uarch)
      BY <2>5, <3>1 DEF CpuRecord
    <3>5. {f \in Rows(1) : f = "Min" \/ f \in p.has} = {} /\ Rows(1) = {}
      BY FlagsAreAll
    <3> QED BY <3>1, <3>2, <3>3, <3>4, <3>5, PartialIs
  <2>7. DOMAIN raw' = {Sum(CPUID_MAP[i].request) : i \in 1 .. 1 - 1}
    BY <2>4 DEF NoAnswers
  <2> QED BY <2>2, <2>4, <2>6, <2>7 DEF HoldsOf
<1> QED BY <1>1, <1>2, <1>3, <1>4, SameStep DEF ReadVendor

LEMMA DescribesUpdateFlags ==
  ASSUME ReportInv, UpdateFlags PROVE ReportInv'
<1>1. IInv'
  BY StepHolds DEF ReportInv, Next
<1>2. Same
  BY DEF UpdateFlags, Same
<1>3. Turned'
  BY <1>2, SameAsked DEF UpdateFlags, ReportInv, Turned, Fallback, HardwareConcurrency
<1>4. Quiet => \A n \in Asked : HoldsOf(machine.cpu[n])'
  <2>1. SUFFICES ASSUME Quiet, NEW n \in Asked PROVE HoldsOf(machine.cpu[n])'
    OBVIOUS
  <2> DEFINE p == machine.cpu[n]
             r == CPUID_MAP[row]
             s == Sum(r.request)
             a == Response(p, r.request)
  <2>2. Here = {p} /\ machine' = machine /\ step' = "flags" /\ row' = row + 1
    BY <2>1, Alone DEF UpdateFlags
  <2>3. /\ cpu = Partial(p, row)
        /\ DOMAIN raw = {Sum(CPUID_MAP[i].request) : i \in 1 .. row - 1}
    BY <2>1 DEF UpdateFlags, ReportInv, Describes, HoldsOf
  <2>4. row \in 1 .. 10
    BY RequestsDiffer DEF UpdateFlags
  <2>5. s \notin DOMAIN raw
    BY <2>3, <2>4, RequestsDiffer
  <2>6. /\ raw' = [x \in DOMAIN raw \cup {s} |-> IF x = s THEN a ELSE raw[x]]
        /\ cpu' = [cpu EXCEPT !.avail = @ \cup HasFlag(r, raw'[s]), !.known = @ \cup r.flags]
    BY <2>2, <2>5 DEF UpdateFlags, KeepAnswer
  <2>7. DOMAIN raw' = {Sum(CPUID_MAP[i].request) : i \in 1 .. row' - 1}
    <3>1. \A i : i \in 1 .. (row + 1) - 1 <=> i \in 1 .. row - 1 \/ i = row
      BY <2>4
    <3>2. DOMAIN raw' = DOMAIN raw \cup {s}
      BY <2>6
    <3> HIDE DEF s
    <3> QED BY <2>2, <2>3, <3>1, <3>2 DEF s
  <2>8. HasFlag(r, raw'[s]) = {f \in r.flags : f = "Min" \/ f \in p.has}
    <3>1. raw'[s] = a
      BY <2>6
    <3>2. \A f \in r.flags : f \in a <=> f \in p.has
      BY <2>4, RequestsDiffer DEF Response
    <3> QED BY <3>1, <3>2 DEF HasFlag
  <2>9. cpu' = Partial(p, row + 1)
    <3>1. cpu \in CpuRecord /\ cpu' \in CpuRecord
      BY <1>1 DEF ReportInv, IInv, TypeOK
    <3>2. /\ cpu.mfg = p.vendor
          /\ cpu.family = GetFamily(p.version) /\ cpu.model = GetModel(p.version)
          /\ cpu.stepping = p.version.stepping
          /\ cpu.uarch = SetUarch(cpu.family, cpu.model, cpu.stepping, EUarch.Unknown)
          /\ cpu.avail = {f \in Rows(row) : f = "Min" \/ f \in p.has} /\ cpu.known = Rows(row)
      BY <2>3 DEF Partial
    <3>3. /\ cpu'.mfg = cpu.mfg /\ cpu'.family = cpu.family /\ cpu'.model = cpu.model
          /\ cpu'.stepping = cpu.stepping /\ cpu'.uarch = cpu.uarch
          /\ cpu'.avail = cpu.avail \cup HasFlag(r, raw'[s])
          /\ cpu'.known = cpu.known \cup r.flags
      BY <2>6, <3>1 DEF CpuRecord
    <3>4. /\ cpu'.known = Rows(row + 1)
          /\ cpu'.avail = {f \in Rows(row + 1) : f = "Min" \/ f \in p.has}
      BY <2>4, <2>8, <3>2, <3>3, NextRow
    <3> HIDE DEF p
    <3> QED BY <3>1, <3>2, <3>3, <3>4, PartialIs
  <2> QED BY <2>2, <2>7, <2>9 DEF HoldsOf
<1> QED BY <1>1, <1>2, <1>3, <1>4, SameStep DEF UpdateFlags

LEMMA DescribesUpdated ==
  ASSUME ReportInv, Updated PROVE ReportInv'
<1>1. IInv'
  BY StepHolds DEF ReportInv, Next
<1>2. Same
  BY DEF Updated, Same
<1>3. Turned'
  BY <1>2, SameAsked DEF Updated, ReportInv, Turned, Fallback, HardwareConcurrency
<1>4. Quiet => \A n \in Asked : HoldsOf(machine.cpu[n])'
  <2>1. SUFFICES ASSUME Quiet, NEW n \in Asked PROVE HoldsOf(machine.cpu[n])'
    OBVIOUS
  <2> DEFINE p == machine.cpu[n]
  <2>2. cpu = Partial(p, row)
    BY <2>1 DEF Updated, ReportInv, Describes, HoldsOf
  <2>3. row = 11
    <3>1. row \in 1 .. Len(CPUID_MAP) + 1 /\ Len(CPUID_MAP) = 10
      BY DEF ReportInv, IInv, TypeOK, CPUID_MAP
    <3> QED BY <3>1, RequestsDiffer DEF Updated
  <2>4. cpu' = Snapshot(p) /\ machine' = machine /\ step' \in {"built", "restore"}
    BY <2>2, <2>3, SnapshotIs DEF Updated
  <2> QED BY <2>4 DEF HoldsOf
<1> QED BY <1>1, <1>2, <1>3, <1>4, SameStep DEF Updated

LEMMA DescribesRestore ==
  ASSUME ReportInv, Restore PROVE ReportInv'
<1>1. IInv'
  BY StepHolds DEF ReportInv, Next
<1>2. Same
  BY DEF Restore, Same
<1>3. Turned'
  BY <1>2, SameAsked DEF Restore, ReportInv, Turned, Fallback, HardwareConcurrency
<1>4. Quiet => \A n \in Asked : HoldsOf(machine.cpu[n])'
  BY DEF Restore, ReportInv, Describes, HoldsOf
<1> QED BY <1>1, <1>2, <1>3, <1>4, SameStep DEF Restore

LEMMA DescribesReply ==
  ASSUME ReportInv, Reply PROVE ReportInv'
<1>1. IInv'
  BY StepHolds DEF ReportInv, Next
<1>2. Same
  BY DEF Reply, Same
<1>3. Turned'
  BY <1>2, SameAsked DEF Reply, ReportInv, Turned, Fallback, HardwareConcurrency
<1>4. AnswerTo(call)' = AnswerTo(call)
  BY DEF Reply, AnswerTo, AnswerToList
<1>5. Quiet => \A n \in Asked : HoldsOf(machine.cpu[n])'
  BY <1>4 DEF Reply, ReportInv, Describes, HoldsOf
<1> QED BY <1>1, <1>2, <1>3, <1>5, SameStep DEF Reply

LEMMA DescribesPinned ==
  ASSUME ReportInv, PinnedByOther PROVE ReportInv'
<1>1. IInv'
  BY StepHolds DEF ReportInv, Next
<1>2. step # "idle" => disturbed'
  BY DEF PinnedByOther
<1>3. Turned'
  BY <1>2 DEF PinnedByOther, ReportInv, Turned, Fallback, HardwareConcurrency
<1>4. Describes'
  BY <1>2 DEF PinnedByOther, Describes, Quiet
<1> QED BY <1>1, <1>3, <1>4 DEF ReportInv

LEMMA DescribesReturn ==
  ASSUME ReportInv, Return PROVE ReportInv'
<1>1. IInv'
  BY StepHolds DEF ReportInv, Next
<1>2. Turned'
  BY DEF Return, ReportInv, Turned
<1>3. Describes'
  BY DEF Return, Describes
<1> QED BY <1>1, <1>2, <1>3 DEF ReportInv

LEMMA DescribesUnchanged ==
  ASSUME ReportInv, UNCHANGED vars PROVE ReportInv'
<1>1. IInv'
  BY StepHolds DEF ReportInv
<1>2. UNCHANGED <<machine, mask, step, call, num, saved, row, raw, cpu, answer, before,
                  disturbed>>
  BY DEF vars
<1>3. Same /\ AnswerTo(call)' = AnswerTo(call) /\ Turned'
  BY <1>2 DEF Same, AnswerTo, AnswerToList, ReportInv, Turned, Fallback,
              HardwareConcurrency, Asked
<1>4. Describes'
  BY <1>2, <1>3, SameAsked DEF ReportInv, Describes, HoldsOf
<1> QED BY <1>1, <1>3, <1>4 DEF ReportInv

LEMMA DescribesNext == ReportInv /\ [Next]_vars => ReportInv'
BY DescribesRefuse, DescribesBegin, DescribesSave, DescribesMove, DescribesReadVersion,
   DescribesReadVendor, DescribesUpdateFlags, DescribesUpdated, DescribesRestore,
   DescribesReply, DescribesReturn, DescribesPinned, DescribesUnchanged DEF Next

LEMMA DescribesAlways == Spec => []ReportInv
BY DescribesInit, DescribesNext, PTL DEF Spec

\* Undisturbed, every X86Cpu describes one processor, the one asked for, down to its last
\* flag, on every machine whose masks fit: X86RawData.cc's requests are all answered by it,
\* and operator< (CpuidUtils.hh:54) takes none of CPUID_MAP's requests for another.
THEOREM ReportsTheAskedHolds == Spec => []ReportsTheAskedCpu
<1>1. ReportInv => ReportsTheAskedCpu
  BY DEF ReportInv, Describes, Quiet, HoldsOf, ReportsTheAskedCpu
<1> QED BY <1>1, DescribesAlways, PTL
-----------------------------------------------------------------------------
(* The answers of the C functions.                                         *)

\* AnswerTo, function by function.
LEMMA AnswerIs ==
  ASSUME NEW c
  PROVE  /\ c.fn = "is_amd" => AnswerTo(c) = YesNo(cpu.mfg = "Amd")
         /\ c.fn = "get_vendor" =>
              AnswerTo(c) = <<cpu.mfg, cpu.family, cpu.model, cpu.stepping, cpu.uarch>>
         /\ c.fn = "uarch" => AnswerTo(c) = YesNo(IsUarch(cpu, c.uarch))
         /\ c.fn = "zen_family" => AnswerTo(c) = YesNo(IsZenFamily(cpu))
         /\ c.fn = "v2" => AnswerTo(c) = YesNo(IsX86_64v2(cpu))
         /\ c.fn = "v3" => AnswerTo(c) = YesNo(IsX86_64v3(cpu))
         /\ c.fn = "v4" => AnswerTo(c) = YesNo(IsX86_64v4(cpu))
         /\ c.fn = "all" => AnswerTo(c) = <<HasFlagsAll(cpu, c.list)>>
         /\ c.fn = "any" => AnswerTo(c) = <<HasFlagsAny(cpu, c.list)>>
         /\ c.fn = "each" => AnswerTo(c) = <<HasFlagsEach(cpu, c.list)>>
         /\ c.fn = "array" =>
              AnswerTo(c) = IF HasFlagsEach(cpu, c.list) = "throws" THEN <<"throws">>
                            ELSE [i \in DOMAIN c.list |-> Ask(cpu, c.list[i])]
BY DEF AnswerTo, AnswerToList

\* Of a list the first answer that stops the search, if there is one, counts.
LEMMA FirstIs ==
  ASSUME NEW stop, NEW otherwise, NEW x, NEW list \in Seq(STRING)
  PROVE  \/ /\ \A i \in DOMAIN list : Ask(x, list[i]) \notin {stop, "throws"}
            /\ FirstOf(x, list, stop, otherwise) = otherwise
         \/ \E i \in DOMAIN list : /\ Ask(x, list[i]) \in {stop, "throws"}
                                   /\ FirstOf(x, list, stop, otherwise) = Ask(x, list[i])
<1> DEFINE hits == {i \in DOMAIN list : Ask(x, list[i]) \in {stop, "throws"}}
           least == CHOOSE i \in hits : \A j \in hits : i <= j
<1>1. CASE hits = {}
  BY <1>1 DEF FirstOf
<1>2. CASE hits # {}
  <2>1. hits \in SUBSET Nat
    OBVIOUS
  <2>2. \E i \in hits : \A j \in hits : i <= j
    BY <1>2, <2>1, LeastNumber
  <2>3. least \in hits
    BY <2>2
  <2>4. FirstOf(x, list, stop, otherwise) = Ask(x, list[least])
    BY <1>2 DEF FirstOf
  <2> QED BY <2>3, <2>4
<1> QED BY <1>1, <1>2

\* What the processor says of one name.
LEMMA AskIs ==
  ASSUME NEW p, NEW name
  PROVE  Ask(Snapshot(p), name) =
           IF name \notin ECpuidFlag THEN "throws"
           ELSE IF name \in p.has THEN "yes" ELSE "no"
BY NamesOfFlags DEF Ask, FromString, Snapshot

\* TrueAnswers, function by function.
LEMMA TrueAnswersAre ==
  ASSUME NEW c, NEW p
  PROVE  /\ c.fn = "is_amd" => TrueAnswers(c, p) = {YesNo(p.vendor = "Amd")}
         /\ c.fn = "get_vendor" => TrueAnswers(c, p) =
              {<<p.vendor, GetFamily(p.version), GetModel(p.version), p.version.stepping,
                 p.arch>>}
         /\ c.fn = "uarch" => TrueAnswers(c, p) = {YesNo(c.uarch <= p.arch)}
         /\ c.fn = "zen_family" => TrueAnswers(c, p) = {YesNo(p.arch >= EUarch.Zen)}
         /\ c.fn \in {"all", "each"} => TrueAnswers(c, p) =
              {YesNo(Range(c.list) \subseteq p.has \cap ECpuidFlag)}
         /\ c.fn = "any" => TrueAnswers(c, p) =
              {YesNo(Range(c.list) \cap (p.has \cap ECpuidFlag) # {})}
         /\ c.fn = "array" => TrueAnswers(c, p) =
              {[i \in DOMAIN c.list |->
                 IF c.list[i] \in p.has \cap ECpuidFlag THEN "yes" ELSE "no"]}
BY DEF TrueAnswers

LEMMA LevelAnswersAre ==
  ASSUME NEW c, NEW p
  PROVE  /\ c.fn = "v2" => TrueAnswers(c, p) = LevelAnswers(TextV2, p.has \cap ECpuidFlag)
         /\ c.fn = "v3" => TrueAnswers(c, p) = LevelAnswers(TextV3, p.has \cap ECpuidFlag)
         /\ c.fn = "v4" => TrueAnswers(c, p) = LevelAnswers(TextV4, p.has \cap ECpuidFlag)
BY DEF TrueAnswers

LEMMA RangeIs ==
  ASSUME NEW list, NEW F
  PROVE  /\ Range(list) \subseteq F <=> \A i \in DOMAIN list : list[i] \in F
         /\ Range(list) \cap F # {} <=> \E i \in DOMAIN list : list[i] \in F
BY DEF Range

\* The answer is true of the processor p.
True(c, p) == \/ AnswerTo(c) \in TrueAnswers(c, p)
              \/ Unknown(c) /\ AnswerTo(c) = <<"throws">>

LEMMA ListIsTrue ==
  ASSUME NEW p, cpu = Snapshot(p), NEW c, "list" \in DOMAIN c, c.list \in Seq(STRING),
         c.fn \in {"all", "any", "each", "array"}
  PROVE  True(c, p)
<1> DEFINE asks == [i \in DOMAIN c.list |-> Ask(cpu, c.list[i])]
           F == p.has \cap ECpuidFlag
<1>1. \A i \in DOMAIN c.list :
        Ask(cpu, c.list[i]) = IF c.list[i] \notin ECpuidFlag THEN "throws"
                              ELSE IF c.list[i] \in p.has THEN "yes" ELSE "no"
  BY AskIs
<1>2. ASSUME NEW i \in DOMAIN c.list, Ask(cpu, c.list[i]) = "throws" PROVE Unknown(c)
  BY <1>1, <1>2, RangeIs DEF Unknown
<1>3. CASE c.fn = "all"
  <2>1. AnswerTo(c) = <<FirstOf(cpu, c.list, "no", "yes")>>
    BY <1>3, AnswerIs DEF HasFlagsAll
  <2>2. TrueAnswers(c, p) = {YesNo(\A i \in DOMAIN c.list : c.list[i] \in F)}
    BY <1>3, TrueAnswersAre, RangeIs
  <2>3. CASE /\ \A i \in DOMAIN c.list : Ask(cpu, c.list[i]) \notin {"no", "throws"}
             /\ FirstOf(cpu, c.list, "no", "yes") = "yes"
    BY <1>1, <2>1, <2>2, <2>3 DEF True, YesNo
  <2>4. ASSUME NEW i \in DOMAIN c.list, Ask(cpu, c.list[i]) \in {"no", "throws"},
               FirstOf(cpu, c.list, "no", "yes") = Ask(cpu, c.list[i])
        PROVE  True(c, p)
    BY <1>1, <1>2, <2>1, <2>2, <2>4 DEF True, YesNo
  <2> QED BY <2>3, <2>4, FirstIs
<1>4. CASE c.fn = "any"
  <2>1. AnswerTo(c) = <<FirstOf(cpu, c.list, "yes", "no")>>
    BY <1>4, AnswerIs DEF HasFlagsAny
  <2>2. TrueAnswers(c, p) = {YesNo(\E i \in DOMAIN c.list : c.list[i] \in F)}
    <3>1. Range(c.list) \cap F # {} <=> \E i \in DOMAIN c.list : c.list[i] \in F
      BY RangeIs
    <3> QED BY <1>4, <3>1, TrueAnswersAre DEF YesNo
  <2>3. CASE /\ \A i \in DOMAIN c.list : Ask(cpu, c.list[i]) \notin {"yes", "throws"}
             /\ FirstOf(cpu, c.list, "yes", "no") = "no"
    BY <1>1, <2>1, <2>2, <2>3 DEF True, YesNo
  <2>4. ASSUME NEW i \in DOMAIN c.list, Ask(cpu, c.list[i]) \in {"yes", "throws"},
               FirstOf(cpu, c.list, "yes", "no") = Ask(cpu, c.list[i])
        PROVE  True(c, p)
    BY <1>1, <1>2, <2>1, <2>2, <2>4 DEF True, YesNo
  <2> QED BY <2>3, <2>4, FirstIs
<1>5. HasFlagsEach(cpu, c.list) =
        IF \E i \in DOMAIN c.list : Ask(cpu, c.list[i]) = "throws" THEN "throws"
        ELSE IF \E i \in DOMAIN c.list : Ask(cpu, c.list[i]) = "no" THEN "no" ELSE "yes"
  BY DEF HasFlagsEach
<1>6. CASE c.fn = "each"
  <2>1. AnswerTo(c) = <<HasFlagsEach(cpu, c.list)>>
    BY <1>6, AnswerIs
  <2>2. TrueAnswers(c, p) = {YesNo(\A i \in DOMAIN c.list : c.list[i] \in F)}
    BY <1>6, TrueAnswersAre, RangeIs
  <2> QED BY <1>1, <1>2, <1>5, <2>1, <2>2 DEF True, YesNo
<1>7. CASE c.fn = "array"
  <2>1. AnswerTo(c) = IF HasFlagsEach(cpu, c.list) = "throws" THEN <<"throws">> ELSE asks
    BY <1>7, AnswerIs
  <2>2. TrueAnswers(c, p) =
          {[i \in DOMAIN c.list |-> IF c.list[i] \in F THEN "yes" ELSE "no"]}
    BY <1>7, TrueAnswersAre
  <2>3. CASE \E i \in DOMAIN c.list : Ask(cpu, c.list[i]) = "throws"
    BY <1>2, <1>5, <2>1, <2>3 DEF True
  <2>4. CASE \A i \in DOMAIN c.list : Ask(cpu, c.list[i]) # "throws"
    <3>1. asks = [i \in DOMAIN c.list |-> IF c.list[i] \in F THEN "yes" ELSE "no"]
      BY <1>1, <2>4
    <3>2. AnswerTo(c) = asks
      BY <1>5, <2>1, <2>4
    <3> QED BY <2>2, <3>1, <3>2 DEF True
  <2> QED BY <2>3, <2>4
<1> QED BY <1>3, <1>4, <1>6, <1>7

\* The levels name flags, those of the text.
LEMMA LevelsAre ==
  /\ V2 \cup V3 \cup V4 \subseteq ECpuidFlag
  /\ "Min" \notin V2 \cup V3 \cup V4
  /\ TextV2 \ NotLookedAt = V2
  /\ TextV3 \ NotLookedAt = V2 \cup V3
  /\ TextV4 \ NotLookedAt = V2 \cup V3 \cup V4
<1>1. V2 \cup V3 \cup V4 \subseteq ECpuidFlag /\ "Min" \notin V2 \cup V3 \cup V4
  BY DEF V2, V3, V4, ECpuidFlag
<1>2. TextV2 \ NotLookedAt = V2
  BY DEF TextV2, NotLookedAt, V2
<1>3. TextV3 \ NotLookedAt = V2 \cup V3
  <2>1. TextV3 = TextV2 \cup V3 /\ V3 \cap NotLookedAt = {}
    BY DEF TextV3, V3, NotLookedAt
  <2> QED BY <1>2, <2>1
<1>4. TextV4 \ NotLookedAt = V2 \cup V3 \cup V4
  <2>1. TextV4 = TextV3 \cup V4 /\ V4 \cap NotLookedAt = {}
    BY DEF TextV4, V4, NotLookedAt
  <2> QED BY <1>3, <2>1
<1> QED BY <1>1, <1>2, <1>3, <1>4

LEMMA OthersAreTrue ==
  ASSUME NEW p, cpu = Snapshot(p), Listed(p), NEW c,
         c.fn \in {"is_amd", "get_vendor", "zen_family", "v2", "v3", "v4", "uarch"},
         p.arch \in Nat
  PROVE  True(c, p)
<1>1. /\ cpu.mfg = p.vendor /\ cpu.family = GetFamily(p.version)
      /\ cpu.model = GetModel(p.version) /\ cpu.stepping = p.version.stepping
      /\ cpu.uarch = p.arch /\ cpu.avail = (p.has \cap ECpuidFlag) \cup {"Min"}
  BY DEF Snapshot, Listed
<1>2. CASE c.fn = "is_amd"
  BY <1>1, <1>2, AnswerIs, TrueAnswersAre DEF True
<1>3. CASE c.fn = "get_vendor"
  BY <1>1, <1>3, AnswerIs, TrueAnswersAre DEF True
<1>4. CASE c.fn = "uarch"
  BY <1>1, <1>4, AnswerIs, TrueAnswersAre DEF True, IsUarch
<1>5. CASE c.fn = "zen_family"
  BY <1>1, <1>5, AnswerIs, TrueAnswersAre DEF True, IsUarch, IsZenFamily, EUarch
<1>6. ASSUME NEW V, V \subseteq ECpuidFlag, "Min" \notin V
      PROVE  V \subseteq cpu.avail <=> V \subseteq p.has \cap ECpuidFlag
  BY <1>1, <1>6
<1>7. /\ IsX86_64v2(cpu) <=> V2 \subseteq p.has \cap ECpuidFlag
      /\ IsX86_64v3(cpu) <=> V2 \cup V3 \subseteq p.has \cap ECpuidFlag
      /\ IsX86_64v4(cpu) <=> V2 \cup V3 \cup V4 \subseteq p.has \cap ECpuidFlag
  BY <1>6, LevelsAre DEF IsX86_64v2, IsX86_64v3, IsX86_64v4
<1>8. CASE c.fn = "v2"
  <2>1. AnswerTo(c) = YesNo(V2 \subseteq p.has \cap ECpuidFlag)
    BY <1>7, <1>8, AnswerIs DEF YesNo
  <2> QED BY <1>8, <2>1, LevelsAre, LevelAnswersAre DEF True, LevelAnswers
<1>9. CASE c.fn = "v3"
  <2>1. AnswerTo(c) = YesNo(V2 \cup V3 \subseteq p.has \cap ECpuidFlag)
    BY <1>7, <1>9, AnswerIs DEF YesNo
  <2> QED BY <1>9, <2>1, LevelsAre, LevelAnswersAre DEF True, LevelAnswers
<1>10. CASE c.fn = "v4"
  <2>1. AnswerTo(c) = YesNo(V2 \cup V3 \cup V4 \subseteq p.has \cap ECpuidFlag)
    BY <1>7, <1>10, AnswerIs DEF YesNo
  <2> QED BY <1>10, <2>1, LevelsAre, LevelAnswersAre DEF True, LevelAnswers
<1> QED BY <1>2, <1>3, <1>4, <1>5, <1>8, <1>9, <1>10

\* A call answers what the flags, the vendor and the version of the processor asked about
\* say, for every question and every machine whose processors are of the
\* microarchitecture that the switch (X86RawData.hh:212-283) tells from their versions,
\* and throws only for a name that is no flag's.  The levels of x86-64 are those of the
\* flags that cpuid.h names, not of its tables.
THEOREM AnswersAreTrueHolds ==
  ASSUME \A m \in Machines : \A n \in m.online : Listed(m.cpu[n])
  PROVE  Spec => []AnswersAreTrue
<1>1. ReportInv => AnswersAreTrue
  <2>1. SUFFICES ASSUME ReportInv, step = "answered", ~TooShort(call), Quiet
                 PROVE  \E n \in Asked : True(call, machine.cpu[n])
    BY DEF AnswersAreTrue, Quiet, True, ReportInv, Describes, HoldsOf
  <2>2. PICK n \in machine.allowed : Asked = {n}
    BY <2>1, TheOne DEF ReportInv, Quiet
  <2> DEFINE p == machine.cpu[n]
  <2>3. machine \in Machines /\ n \in machine.online
    BY <2>1, MachinesAssumption DEF ReportInv, IInv, TypeOK
  <2>4. Listed(p)
    BY <2>3
  <2>5. p.arch \in Nat
    <3>1. p.version \in [baseFamily : Nat, extFamily : Nat, baseModel : Nat,
                         extModel : Nat, stepping : Nat]
      BY <2>3, MachinesAssumption
    <3>2. SetUarch(GetFamily(p.version), GetModel(p.version), p.version.stepping,
                   EUarch.Unknown) \in 0 .. 6
      BY <3>1, VersionType, UarchType DEF EUarch
    <3> QED BY <2>4, <3>2 DEF Listed
  <2>6. cpu = Snapshot(p)
    BY <2>1, <2>2 DEF ReportInv, Describes, HoldsOf
  <2>7. call \in Calls
    BY <2>1 DEF ReportInv, Turned
  <2>8. CASE call.fn \in {"all", "any", "each", "array"}
    <3>1. "list" \in DOMAIN call /\ call.list \in Seq(STRING)
      BY <2>7, <2>8, CallsAssumption
    <3>2. True(call, p)
      BY <2>6, <2>8, <3>1, ListIsTrue
    <3> QED BY <2>2, <3>2
  <2>9. CASE call.fn \in {"is_amd", "get_vendor", "zen_family", "v2", "v3", "v4", "uarch"}
    <3>1. True(call, p)
      BY <2>4, <2>5, <2>6, <2>9, OthersAreTrue
    <3> QED BY <2>2, <3>1
  <2> QED BY <2>7, <2>8, <2>9, CallsAssumption
<1> QED BY <1>1, DescribesAlways, PTL
===============================================================================
