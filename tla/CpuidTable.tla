------------------------------ MODULE CpuidTable ------------------------------
(***************************************************************************)
(* What X86Cpu makes of the answers to CPUID: X86RawData.cc, X86RawData.hh *)
(* and CpuidUtils.cc.  A request is a leaf and a subleaf.  Each flag is one *)
(* bit of the answer to one request, so an answer is the set of the flags  *)
(* whose bit is set, and the register and the mask of a row are left out.  *)
(* The version word, EAX of leaf 1, is a record of its fields.             *)
(***************************************************************************)
EXTENDS Integers, Sequences

\* The leaves start at 0, 0x80000000 and 0xC0000000: the three ranges.
Leaf(range, leaf, subleaf) == [range |-> range, leaf |-> leaf, ecx |-> subleaf]

\* Mutant: requests are told apart by the first register alone.
SumOfEax(r) == <<r.range, r.leaf>>
\* Requests are ordered, and so told apart, by the sum of their four registers.
Sum(r) == <<r.range, r.leaf + r.ecx>>

ECpuidFlag ==
  {"sse3", "pclmulqdq", "dtes64", "monitor", "dscpl", "vmx", "smx", "est", "tm2",
   "ssse3", "cid", "fma", "cx16", "xtpr", "pdcm", "pcid", "dca", "sse4_1", "sse4_2",
   "x2apic", "movbe", "popcnt", "tsc_deadline", "aes", "xsave", "osxsave", "avx",
   "f16c", "rdrand", "hypervisor", "fpu", "vme", "de", "pse", "tsc", "msr", "pae",
   "mce", "cx8", "apic", "sep", "mtrr", "pge", "mca", "cmov", "pat", "pse36", "pn",
   "clflush", "ds", "acpi", "mmx", "fxsr", "sse", "sse2", "ss", "ht", "tm", "ia64",
   "pbe", "arat", "fsgsbase", "tsc_adjust", "bmi1", "hle", "avx2", "smep", "bmi2",
   "erms", "invpcid", "rtm", "mpx", "avx512f", "avx512dq", "rdseed", "adx", "smap",
   "avx512ifma", "pcommit", "clflushopt", "clwb", "avx512pf", "avx512er", "avx512cd",
   "sha_ni", "avx512bw", "avx512vl", "avx512vbmi", "umip", "pku", "ospke",
   "avx512_vpopcntdq", "la57", "rdpid", "avx512_4vnniw", "avx512_4fmaps",
   "avx512_bf16", "avxvnni", "xsaveopt", "xsavec", "xgetbv1", "xsaves", "lahf_lm",
   "cmp_legacy", "svm", "extapic", "cr8legacy", "abm", "sse4a", "misalignsse",
   "_3dnowprefetch", "osvw", "ibs", "xop", "skinit", "wdt", "lwp", "fma4", "tce",
   "nodeid_msr", "tbm", "topoext", "perfctr_core", "perfctr_nb", "syscall", "nxxd",
   "mmxext", "fxsr_opt", "pdpe1gb", "rdtscp", "lmi64", "_3dnowext", "_3dnow",
   "invtsc", "npt", "lbrv", "svm_lock", "nrip_save", "tsc_scale", "vmcb_clean",
   "flushbyasid", "decodeassists", "pause_filter", "pfthreshold", "xstore",
   "xstore_en", "xcrypt", "xcrypt_en", "ace2", "ace2_en", "phe", "phe_en", "pmm",
   "pmm_en", "vaes", "vpclmulqdq", "avx512_vnni", "avx512_bitalg", "avx512vbmi2",
   "movdiri", "movdir64b", "avx512_vpintersect", "x2avic"}

\* The rows of CPUID_MAP, those of one request together.
FeatureRows ==
  {"sse3", "pclmulqdq", "dtes64", "monitor", "dscpl", "vmx", "smx", "est", "tm2",
   "ssse3", "cid", "fma", "cx16", "xtpr", "pdcm", "pcid", "dca", "sse4_1", "sse4_2",
   "x2apic", "movbe", "popcnt", "tsc_deadline", "aes", "xsave", "osxsave", "avx",
   "f16c", "rdrand", "hypervisor", "fpu", "vme", "de", "pse", "tsc", "msr", "pae",
   "mce", "cx8", "apic", "sep", "mtrr", "pge", "mca", "cmov", "pat", "pse36", "pn",
   "clflush", "ds", "acpi", "mmx", "fxsr", "sse", "sse2", "ss", "ht", "tm", "ia64",
   "pbe"}
ExtendedFeatureRows ==
  {"fsgsbase", "tsc_adjust", "bmi1", "hle", "avx2", "smep", "bmi2", "erms",
   "invpcid", "rtm", "mpx", "avx512f", "avx512dq", "rdseed", "adx", "smap",
   "avx512ifma", "pcommit", "clflushopt", "clwb", "avx512pf", "avx512er",
   "avx512cd", "sha_ni", "avx512bw", "avx512vl", "avx512vbmi", "umip", "pku",
   "ospke", "avx512vbmi2", "vaes", "vpclmulqdq", "avx512_vnni", "avx512_bitalg",
   "avx512_vpopcntdq", "la57", "rdpid", "movdiri", "movdir64b", "avx512_4vnniw",
   "avx512_4fmaps", "avx512_vpintersect"}
AmdRows ==
  {"lahf_lm", "cmp_legacy", "svm", "extapic", "cr8legacy", "abm", "sse4a",
   "misalignsse", "_3dnowprefetch", "osvw", "ibs", "xop", "skinit", "wdt", "lwp",
   "fma4", "tce", "nodeid_msr", "tbm", "topoext", "perfctr_core", "perfctr_nb",
   "syscall", "nxxd", "mmxext", "fxsr_opt", "pdpe1gb", "rdtscp", "lmi64",
   "_3dnowext", "_3dnow"}
SvmRows ==
  {"npt", "lbrv", "svm_lock", "nrip_save", "tsc_scale", "vmcb_clean",
   "flushbyasid", "decodeassists", "pause_filter", "pfthreshold", "x2avic"}
CentaurRows ==
  {"xstore", "xstore_en", "xcrypt", "xcrypt_en", "ace2", "ace2_en", "phe",
   "phe_en", "pmm", "pmm_en"}

\* The array has one element more than the initializer has rows: all zero, it asks
\* for leaf 0 and expects no bit for the flag Min.
CPUID_MAP ==
  << [request |-> Leaf("basic", 1, 0), flags |-> FeatureRows],
     [request |-> Leaf("basic", 6, 0), flags |-> {"arat"}],
     [request |-> Leaf("basic", 7, 0), flags |-> ExtendedFeatureRows],
     [request |-> Leaf("basic", 13, 0),
      flags |-> {"xsaveopt", "xsavec", "xgetbv1", "xsaves"}],
     [request |-> Leaf("extended", 1, 0), flags |-> AmdRows],
     [request |-> Leaf("extended", 7, 0), flags |-> {"invtsc"}],
     [request |-> Leaf("extended", 10, 0), flags |-> SvmRows],
     [request |-> Leaf("centaur", 1, 0), flags |-> CentaurRows],
     [request |-> Leaf("basic", 7, 1), flags |-> {"avx512_bf16", "avxvnni"}],
     [request |-> Leaf("basic", 0, 0), flags |-> {"Min"}] >>

\* The flags that a row's answer shows to be there.
HasFlag(row, answer) == {f \in row.flags : f = "Min" \/ f \in answer}

(***************************************************************************)
(* The family, the model and the microarchitecture.                        *)
(***************************************************************************)
EFamily == [Unknown |-> 0, Zen |-> 23, Zen3 |-> 25, Zen5 |-> 26, Max |-> 26]
EUarch == [Unknown |-> 0, Zen |-> 1, ZenPlus |-> 2, Zen2 |-> 3, Zen3 |-> 4,
           Zen4 |-> 5, Zen5 |-> 6]

GetFamily(v) ==
  LET family == v.extFamily + v.baseFamily
  IN  IF family < EFamily.Zen \/ family > EFamily.Max THEN EFamily.Unknown ELSE family
MakeModel(base, ext) == 16 * ext + base
GetModel(v) == MakeModel(v.baseModel, v.extModel)

\* EUModel: the models that the microarchitecture is told from.
ZenModels == {MakeModel(1, 0), MakeModel(1, 1)}
Picasso == MakeModel(8, 1)
Pinnacleridge == MakeModel(8, 0)
Zen2Models == {MakeModel(1, 3), MakeModel(7, 4), MakeModel(0, 6), MakeModel(1, 7),
               MakeModel(0, 9), MakeModel(0, 10)}
Zen3Models == {MakeModel(1, 0), MakeModel(8, 0), MakeModel(4, 4), MakeModel(0, 5)}
Warhol == MakeModel(1, 2)
Zen4Models == {MakeModel(1, 1), MakeModel(8, 1), MakeModel(1, 6), MakeModel(5, 7),
               MakeModel(8, 7)}

\* The microarchitecture stays as it was for a model that the switch does not list.
SetUarch(family, model, stepping, uarch) ==
  CASE family = EFamily.Zen /\ model \in ZenModels -> EUarch.Zen
    [] family = EFamily.Zen /\ model = Picasso ->
         IF stepping = 1 THEN EUarch.ZenPlus ELSE EUarch.Zen
    [] family = EFamily.Zen /\ model = Pinnacleridge -> EUarch.ZenPlus
    [] family = EFamily.Zen /\ model \in Zen2Models -> EUarch.Zen2
    [] family = EFamily.Zen3 /\ model \in Zen3Models -> EUarch.Zen3
    [] family = EFamily.Zen3 /\ model = Warhol ->
         IF stepping = 2 THEN EUarch.Zen4 ELSE EUarch.Zen3
    [] family = EFamily.Zen3 /\ model \in Zen4Models -> EUarch.Zen4
    [] family = EFamily.Zen5 -> EUarch.Zen5
    [] family \notin {EFamily.Zen, EFamily.Zen3, EFamily.Zen5} -> EUarch.Unknown
    [] OTHER -> uarch

(***************************************************************************)
(* Questions to an X86Cpu: its vendor information, the flags that its maps *)
(* know, and those of them that are available.  (Nothing makes the usable  *)
(* flags differ from the available ones.)                                  *)
(***************************************************************************)
IsUarch(cpu, uarch) == uarch <= cpu.uarch
IsZenFamily(cpu) == IsUarch(cpu, EUarch.Zen)

V2 == {"cx16", "lahf_lm", "popcnt", "sse4_2", "ssse3"}
V3 == {"avx", "avx2", "bmi1", "bmi2", "f16c", "fma", "abm", "movbe", "xsave"}
V4 == {"avx512f", "avx512bw", "avx512cd", "avx512dq", "avx512vl"}
IsX86_64v2(cpu) == V2 \subseteq cpu.avail
IsX86_64v3(cpu) == IsX86_64v2(cpu) /\ V3 \subseteq cpu.avail
IsX86_64v4(cpu) == IsX86_64v3(cpu) /\ V4 \subseteq cpu.avail

\* Names are looked up in the list of the flags, to which Min and Max do not belong.
FromString(name) == IF name \in ECpuidFlag THEN name ELSE "-1"

\* std::map::at() throws for a flag that has no row.  The three modes differ in how far
\* they look.
Ask(cpu, name) == LET flag == FromString(name)
                  IN  IF flag \notin cpu.known THEN "throws"
                      ELSE IF flag \in cpu.avail THEN "yes" ELSE "no"
FirstOf(cpu, list, stop, otherwise) ==
  LET hits == {i \in DOMAIN list : Ask(cpu, list[i]) \in {stop, "throws"}}
  IN  IF hits = {} THEN otherwise
      ELSE Ask(cpu, list[CHOOSE i \in hits : \A j \in hits : i <= j])
HasFlagsAll(cpu, list) == FirstOf(cpu, list, "no", "yes")
\* Mutant: the first flag that is missing decides.
AnyAsAll(cpu, list) == FirstOf(cpu, list, "no", "yes")
HasFlagsAny(cpu, list) == FirstOf(cpu, list, "yes", "no")
HasFlagsEach(cpu, list) ==
  LET answers == {Ask(cpu, list[i]) : i \in DOMAIN list}
  IN  IF "throws" \in answers THEN "throws" ELSE IF "no" \in answers THEN "no" ELSE "yes"
===============================================================================
