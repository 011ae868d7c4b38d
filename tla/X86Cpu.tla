-------------------------------- MODULE X86Cpu --------------------------------
(***************************************************************************)
(* A thread that asks the C functions of cpuid.cc about a processor.  Each *)
(* of them builds an X86Cpu, whose constructor (X86Cpu.cc) moves the thread *)
(* to the processor, executes CPUID request after request, and moves the   *)
(* thread back.  The scheduler runs the thread on any processor of its     *)
(* affinity mask, and another thread may pin it (AffinityVector) at any    *)
(* time.  CPUID answers for the processor that it is executed on.          *)
(***************************************************************************)
EXTENDS CpuidTable, FiniteSets, Functions

CONSTANTS Machines,   \* the machines to consider
          Calls,      \* the questions of the program
          Current     \* AU_CURRENT_CPU_NUM, no processor's number

(* A machine: the processors that are online, those the process may use,   *)
(* whether a cpu_set_t has room for all, and what CPUID tells on each: the *)
(* vendor, the version word, the bits that are set.  "arch" is the         *)
(* microarchitecture that EUModel (X86RawData.hh) lists its version under. *)
ASSUME MachinesAssumption ==
  \A m \in Machines :
    /\ m.allowed # {} /\ m.allowed \subseteq m.online
    /\ m.online \subseteq Nat /\ IsFiniteSet(m.online) /\ Current \notin m.online
    /\ m.fits \in BOOLEAN
    /\ \A p \in m.online :
         /\ m.cpu[p].vendor \in {"Amd", "Intel", "Other"}
         /\ m.cpu[p].version \in [baseFamily : Nat, extFamily : Nat, baseModel : Nat,
                                  extModel : Nat, stepping : Nat]
ASSUME CallsAssumption ==
  Calls \subseteq
    [fn : {"is_amd", "get_vendor", "zen_family", "v2", "v3", "v4"}, num : Nat]
    \cup [fn : {"uarch"}, num : Nat, uarch : Nat]
    \cup [fn : {"array", "all", "any", "each"}, num : Nat, list : Seq(STRING)]
ASSUME CurrentAssumption ==
  Current \in Nat /\ \A m \in Machines : Current > Cardinality(m.online)

VARIABLES machine,
          mask,       \* the affinity mask of the thread
          step,       \* how far the call has got
          call,       \* what is asked, and of which processor
          num,        \* the processor that the constructor turns to
          saved,      \* currentMask
          row,        \* the next row of CPUID_MAP
          raw,        \* rawCpuid: the answers by the sum of the request
          cpu,        \* the X86Cpu
          answer,     \* of the last call
          before,     \* the mask when the call began
          disturbed   \* whether another thread has pinned this one meanwhile
vars == <<machine, mask, step, call, num, saved, row, raw, cpu, answer, before, disturbed>>

\* X86Cpu::Impl::Impl(): every member zero.
NoCpu == [mfg |-> "none", family |-> EFamily.Unknown, model |-> 0, stepping |-> 0,
          uarch |-> EUarch.Unknown, avail |-> {}, known |-> {}]
NoAnswers == [s \in {} |-> {}]

Init ==
  /\ machine \in Machines
  /\ mask \in (SUBSET machine.allowed) \ {{}}
  /\ step = "idle"
  /\ call = [fn |-> "none"]
  /\ num = Current
  /\ saved = {}
  /\ row = 1
  /\ raw = NoAnswers
  /\ cpu = NoCpu
  /\ answer = <<>>
  /\ before = mask
  /\ disturbed = FALSE

\* sched_setaffinity() fails, and changes nothing, when no processor would be left.
Settled(set) == IF set \cap machine.allowed = {} THEN mask ELSE set \cap machine.allowed

\* std::thread::hardware_concurrency()
HardwareConcurrency == Cardinality(machine.online)

(***************************************************************************)
(* The constructor.                                                        *)
(***************************************************************************)
\* au_cpuid_has_flag() gives up on a list of fewer than two names at once, and the
\* others on an empty one.
TooShort(c) == /\ c.fn \in {"array", "all", "any", "each"}
               /\ Len(c.list) < (IF c.fn = "array" THEN 2 ELSE 1)
Refuse(c) ==
  /\ step = "idle" /\ TooShort(c)
  /\ step' = "answered" /\ call' = c
  /\ answer' = IF c.fn = "array" THEN <<>> ELSE <<"no">>
  /\ before' = mask /\ disturbed' = FALSE
  /\ UNCHANGED <<machine, mask, num, saved, row, raw, cpu>>

\* Mutant: the number is taken as it is.
AsGiven(n) == n
Fallback(n) == IF n > HardwareConcurrency THEN Current ELSE n
Begin(c) ==
  /\ step = "idle" /\ ~TooShort(c)
  /\ call' = c
  /\ num' = Fallback(c.num)
  /\ step' = IF num' = Current THEN "version" ELSE "save"
  /\ cpu' = NoCpu
  /\ before' = mask /\ disturbed' = FALSE
  /\ UNCHANGED <<machine, mask, saved, row, raw, answer>>

\* sched_getaffinity() fails when the mask does not fit; nobody looks at its result,
\* and currentMask keeps whatever the stack holds.
Save ==
  /\ step = "save"
  /\ \/ machine.fits /\ saved' = mask
     \/ ~machine.fits /\ saved' \in SUBSET machine.online
  /\ step' = "move"
  /\ UNCHANGED <<machine, mask, call, num, row, raw, cpu, answer, before, disturbed>>

Move ==
  /\ step = "move"
  /\ mask' = Settled({num})
  /\ step' = "version"
  /\ UNCHANGED <<machine, call, num, saved, row, raw, cpu, answer, before, disturbed>>

\* What the processor p answers: its version, its vendor, and the bits of a request.
Here == {machine.cpu[p] : p \in mask}
Response(p, request) ==
  {f \in p.has : \E i \in DOMAIN CPUID_MAP : /\ CPUID_MAP[i].request = request
                                             /\ f \in CPUID_MAP[i].flags}

ReadVersion ==
  /\ step = "version"
  /\ \E p \in Here : cpu' = [cpu EXCEPT !.family = GetFamily(p.version),
                                        !.model = GetModel(p.version),
                                        !.stepping = p.version.stepping]
  /\ step' = "vendor"
  /\ UNCHANGED <<machine, mask, call, num, saved, row, raw, answer, before, disturbed>>

ReadVendor ==
  /\ step = "vendor"
  /\ \E p \in Here :
       cpu' = [cpu EXCEPT !.mfg = p.vendor,
                          !.uarch = SetUarch(cpu.family, cpu.model, cpu.stepping, @)]
  /\ step' = "flags"
  /\ UNCHANGED <<machine, mask, call, num, saved, row, raw, answer, before, disturbed>>

\* One row, or all rows of a request: CPUID is executed unless an answer is at hand.
KeepAnswer(s, a) == IF s \in DOMAIN raw THEN raw
                    ELSE [x \in DOMAIN raw \cup {s} |-> IF x = s THEN a ELSE raw[x]]
UpdateFlags ==
  /\ step = "flags" /\ row \in DOMAIN CPUID_MAP
  /\ LET r == CPUID_MAP[row]
         s == Sum(r.request)
     IN  \E p \in Here :
           /\ raw' = KeepAnswer(s, Response(p, r.request))
           /\ cpu' = [cpu EXCEPT !.avail = @ \cup HasFlag(r, raw'[s]),
                                 !.known = @ \cup r.flags]
  /\ row' = row + 1
  /\ UNCHANGED <<machine, mask, step, call, num, saved, answer, before, disturbed>>

\* Mutant: the thread is left where it is.
UpdatedOnly ==
  /\ step = "flags" /\ row \notin DOMAIN CPUID_MAP
  /\ step' = "built"
  /\ row' = 1 /\ raw' = NoAnswers
  /\ UNCHANGED <<machine, mask, call, num, saved, cpu, answer, before, disturbed>>
\* The cache view stays empty: updateCacheView() looks for a level beyond L5 first.
Updated ==
  /\ step = "flags" /\ row \notin DOMAIN CPUID_MAP
  /\ step' = IF num = Current THEN "built" ELSE "restore"
  /\ row' = 1 /\ raw' = NoAnswers
  /\ UNCHANGED <<machine, mask, call, num, saved, cpu, answer, before, disturbed>>

Restore ==
  /\ step = "restore"
  /\ mask' = Settled(saved)
  /\ step' = "built"
  /\ UNCHANGED <<machine, call, num, saved, row, raw, cpu, answer, before, disturbed>>

(***************************************************************************)
(* The answer, and the end of the X86Cpu.                                  *)
(***************************************************************************)
YesNo(b) == <<IF b THEN "yes" ELSE "no">>
AnswerToList(c) ==
  CASE c.fn = "all" -> <<HasFlagsAll(cpu, c.list)>>
    [] c.fn = "any" -> <<HasFlagsAny(cpu, c.list)>>
    [] c.fn = "each" -> <<HasFlagsEach(cpu, c.list)>>
    [] c.fn = "array" ->
         IF HasFlagsEach(cpu, c.list) = "throws" THEN <<"throws">>
         ELSE [i \in DOMAIN c.list |-> Ask(cpu, c.list[i])]

AnswerTo(c) ==
  CASE c.fn = "is_amd" -> YesNo(cpu.mfg = "Amd")
    [] c.fn = "get_vendor" -> <<cpu.mfg, cpu.family, cpu.model, cpu.stepping, cpu.uarch>>
    [] c.fn = "uarch" -> YesNo(IsUarch(cpu, c.uarch))
    [] c.fn = "zen_family" -> YesNo(IsZenFamily(cpu))
    [] c.fn = "v2" -> YesNo(IsX86_64v2(cpu))
    [] c.fn = "v3" -> YesNo(IsX86_64v3(cpu))
    [] c.fn = "v4" -> YesNo(IsX86_64v4(cpu))
    [] OTHER -> AnswerToList(c)

Reply ==
  /\ step = "built"
  /\ answer' = AnswerTo(call)
  /\ step' = "answered"
  /\ UNCHANGED <<machine, mask, call, num, saved, row, raw, cpu, before, disturbed>>

Return ==
  /\ step = "answered"
  /\ step' = "idle" /\ call' = [fn |-> "none"] /\ num' = Current /\ saved' = {}
  /\ cpu' = NoCpu /\ answer' = <<>> /\ before' = mask /\ disturbed' = FALSE
  /\ UNCHANGED <<machine, mask, row, raw>>

\* Another thread pins this one to a processor (AffinityVector::setAffinity).
PinnedByOther ==
  /\ ~disturbed
  /\ \E p \in machine.allowed : mask' = {p}
  /\ disturbed' = (step # "idle")
  /\ before' = IF step = "idle" THEN mask' ELSE before
  /\ UNCHANGED <<machine, step, call, num, saved, row, raw, cpu, answer>>

Next ==
  \/ \E c \in Calls : Refuse(c) \/ Begin(c)
  \/ Save \/ Move \/ ReadVersion \/ ReadVendor \/ UpdateFlags \/ Updated \/ Restore
  \/ Reply \/ Return
  \/ PinnedByOther
Spec == Init /\ [][Next]_vars

(***************************************************************************)
(* Properties.                                                             *)
(***************************************************************************)
KnownFlags == UNION {CPUID_MAP[i].flags : i \in DOMAIN CPUID_MAP}
CpuRecord == [mfg : {"none", "Amd", "Intel", "Other"}, family : Nat, model : Nat,
              stepping : Nat, uarch : 0 .. 6, avail : SUBSET KnownFlags,
              known : SUBSET KnownFlags]

\* The thread has a processor to run on at every time, and the constructor's
\* variables have their types.
TypeOK ==
  /\ machine \in Machines
  /\ mask \in (SUBSET machine.allowed) \ {{}}
  /\ step \in {"idle", "save", "move", "version", "vendor", "flags", "restore", "built",
               "answered"}
  /\ num \in 0 .. HardwareConcurrency \cup {Current}
  /\ saved \in SUBSET machine.online
  /\ row \in 1 .. Len(CPUID_MAP) + 1
  /\ cpu \in CpuRecord
  /\ before \in (SUBSET machine.allowed) \ {{}}
  /\ disturbed \in BOOLEAN

\* A question about a processor leaves the affinity of the caller's thread as it was,
\* whatever processor is asked about, one that does not exist included
\* (X86Cpu.cc:64-95; CpuidTest.cc checks one case): as long as the mask fits into a
\* cpu_set_t and no other thread sets it during the call.
AffinityRestored ==
  step \in {"built", "answered"} /\ machine.fits /\ ~disturbed => mask = before

\* The processors that the answer may be about: the one asked for, if the process may
\* use it and its number is within hardware_concurrency(), otherwise one of those
\* that the thread runs on.
Asked == IF call.num \in machine.allowed /\ call.num <= HardwareConcurrency
         THEN {call.num} ELSE before
Snapshot(p) ==
  LET family == GetFamily(p.version)
      model == GetModel(p.version)
  IN  [mfg |-> p.vendor, family |-> family, model |-> model,
       stepping |-> p.version.stepping,
       uarch |-> SetUarch(family, model, p.version.stepping, EUarch.Unknown),
       avail |-> (p.has \cap ECpuidFlag) \cup {"Min"}, known |-> ECpuidFlag \cup {"Min"}]

\* Every X86Cpu describes one processor, the one asked for, down to its last flag: the
\* many requests are all answered by the same processor, no request is taken for
\* another one (operator<, CpuidUtils.hh:54), and no flag lacks its row in CPUID_MAP.
ReportsTheAskedCpu ==
  step = "built" /\ machine.fits /\ ~disturbed /\ Cardinality(Asked) = 1 =>
    \A p \in Asked : cpu = Snapshot(machine.cpu[p])

\* The levels of x86-64 by the text "Output of this API will be same as ..."
\* (cpuid.h:255-259, :290-295, :325-330): yes if the processor has every flag that the
\* text names, no if it lacks one.  The text names sse, sse2 and sse4_1, which the code
\* does not look at (X86RawData.cc:286-288): of a processor that lacks nothing but those
\* the text says no and the code yes, and either answer is let pass.
NotLookedAt == {"sse", "sse2", "sse4_1"}
TextV2 == {"sse", "sse2", "cx16", "lahf_lm", "popcnt", "sse4_1", "sse4_2", "ssse3"}
TextV3 == TextV2 \cup {"avx", "avx2", "bmi1", "bmi2", "f16c", "fma", "abm", "movbe", "xsave"}
TextV4 == TextV3 \cup {"avx512f", "avx512bw", "avx512cd", "avx512dq", "avx512vl"}
LevelAnswers(named, flags) ==
  {YesNo(named \subseteq flags), YesNo(named \ NotLookedAt \subseteq flags)}

\* What the flags, the vendor and the version of the processor asked about say.
TrueAnswers(c, p) ==
  LET flags == p.has \cap ECpuidFlag
      asked == Range(c.list)
  IN  CASE c.fn = "is_amd" -> {YesNo(p.vendor = "Amd")}
        [] c.fn = "get_vendor" ->
             {<<p.vendor, GetFamily(p.version), GetModel(p.version), p.version.stepping,
                p.arch>>}
        [] c.fn = "uarch" -> {YesNo(c.uarch <= p.arch)}
        [] c.fn = "zen_family" -> {YesNo(p.arch >= EUarch.Zen)}
        [] c.fn = "v2" -> LevelAnswers(TextV2, flags)
        [] c.fn = "v3" -> LevelAnswers(TextV3, flags)
        [] c.fn = "v4" -> LevelAnswers(TextV4, flags)
        [] c.fn \in {"all", "each"} ->
             {YesNo(asked \subseteq flags)}
        [] c.fn = "any" -> {YesNo(asked \cap flags # {})}
        [] c.fn = "array" ->
             {[i \in DOMAIN c.list |-> IF c.list[i] \in flags THEN "yes" ELSE "no"]}
Unknown(c) == "list" \in DOMAIN c /\ ~(Range(c.list) \subseteq ECpuidFlag)

\* A processor whose version EUModel lists under the microarchitecture that the switch
\* tells from it.
Listed(p) ==
  p.arch = SetUarch(GetFamily(p.version), GetModel(p.version), p.version.stepping,
                    EUarch.Unknown)

\* A call answers what the flags, the vendor and the version of the processor asked about
\* say, under the request that each flag belongs to, and throws only if the program names
\* a flag that does not exist (CapiTest.cc:77-90).  This is not all that cpuid.h writes
\* about the levels: its tables say True of Bulldozer for x86-64-v3 (:302), and for v4 of
\* Skylake, Bulldozer and Zen1 to Zen3 (:336-340).  Bulldozer lacks avx2, and Bulldozer,
\* Zen1 to Zen3 and the client Skylakes lack avx512f: the text about the flags, the code
\* and, for the AMD processors, the test plan (CpuidUnitTestPlan.md:91, :102, :112-113)
\* say no, and this property says no with them.
AnswersAreTrue ==
  step = "answered" /\ ~TooShort(call) /\ machine.fits /\ ~disturbed
  /\ Cardinality(Asked) = 1 =>
    \/ \E p \in Asked : answer \in TrueAnswers(call, machine.cpu[p])
    \/ Unknown(call) /\ answer = <<"throws">>
===============================================================================
