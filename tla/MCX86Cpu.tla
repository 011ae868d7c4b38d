------------------------------ MODULE MCX86Cpu ------------------------------
(* Machines whose processors differ, so that an answer tells its processor,  *)
(* and single processors of every version that the code lists.               *)
EXTENDS X86Cpu

Version(base, ext, baseModel, extModel, stepping) ==
  [baseFamily |-> base, extFamily |-> ext, baseModel |-> baseModel,
   extModel |-> extModel, stepping |-> stepping]
Zen17(baseModel, extModel, stepping) == Version(15, 8, baseModel, extModel, stepping)
Zen19(baseModel, extModel, stepping) == Version(15, 10, baseModel, extModel, stepping)
Cpu(vendor, version, arch, has) ==
  [vendor |-> vendor, version |-> version, arch |-> arch, has |-> has]

SseOnly == TextV2 \ {"sse4_2", "popcnt"}

\* Bulldozer and Zen2 have no AVX-512, KnightsLanding has a part of it; a hypervisor may
\* hide any flag of the levels from its guest.
Bulldozer == Cpu("Amd", Version(15, 6, 1, 0, 2), 0,
                 TextV2 \cup {"avx", "abm", "xsave", "xop", "npt"})
Rome == Cpu("Amd", Zen17(1, 3, 0), 3, TextV3 \cup {"svm", "x2avic"})
Genoa == Cpu("Amd", Zen19(1, 1, 1), 5,
             TextV4 \cup {"svm", "x2avic", "avx512_bf16"})
SkylakeServer == Cpu("Intel", Version(6, 0, 5, 5, 4), 0, TextV4)
SkylakeClient == Cpu("Intel", Version(6, 0, 14, 5, 3), 0, TextV3)
KnightsLanding == Cpu("Intel", Version(6, 0, 7, 5, 1), 0,
                      TextV3 \cup {"avx512f", "avx512cd"})
GuestWithout(f) == [SkylakeServer EXCEPT !.has = (@ \ {f}) \cup {"hypervisor"}]
Atom == Cpu("Intel", Version(6, 0, 12, 1, 2), 0, SseOnly)
Nehemiah == Cpu("Other", Version(6, 0, 9, 0, 8), 0, {"sse", "xstore"})

Machine(online, allowed, fits, cpus) ==
  [online |-> online, allowed |-> allowed, fits |-> fits, cpu |-> cpus]

\* Three processors, of which the process may use all or two; one that is taken
\* offline leaves a gap in the numbers; and more processors than a mask holds.
Mixed == <<Genoa, KnightsLanding, Rome>>
Numbered(cpus, online) == [n \in online |-> cpus[n + 1]]
Large == {Machine(0 .. 2, 0 .. 2, TRUE, Numbered(Mixed, 0 .. 2)),
          Machine(0 .. 2, {0, 2}, TRUE, Numbered(Mixed, 0 .. 2)),
          Machine({0, 3}, {0, 3}, TRUE, Numbered(<<Rome, Rome, Rome, Genoa>>, {0, 3})),
          Machine(0 .. 1, 0 .. 1, FALSE, Numbered(Mixed, 0 .. 1))}

\* The versions by the microarchitecture that EUModel lists them under.  Two model
\* numbers are listed under two, and the stepping decides.
Zen1 == {Zen17(1, 0, 2), Zen17(1, 1, 0), Zen17(8, 1, 0)}
ZenPlus == {Zen17(8, 1, 1), Zen17(8, 0, 2)}
Zen2 == {Zen17(1, 3, 0), Zen17(7, 4, 0), Zen17(0, 6, 1), Zen17(1, 7, 0), Zen17(0, 9, 2),
         Zen17(0, 10, 0)}
Zen3 == {Zen19(1, 0, 1), Zen19(8, 0, 2), Zen19(1, 2, 0), Zen19(4, 4, 1), Zen19(0, 5, 0)}
Zen4 == {Zen19(1, 1, 1), Zen19(8, 1, 1), Zen19(1, 2, 2), Zen19(1, 6, 2), Zen19(5, 7, 2),
         Zen19(8, 7, 0)}
Zen5 == {Version(15, 11, 0, 2, 1), Version(15, 11, 1, 0, 0), Version(15, 11, 4, 4, 0)}
Products == <<Zen1, ZenPlus, Zen2, Zen3, Zen4, Zen5>>
Alone(c) == Machine({0}, {0}, TRUE, [n \in {0} |-> c])
OfArch(v, arch) == Cpu("Amd", v, arch, IF arch < EUarch.Zen4 THEN TextV3 ELSE TextV4)
Small == {Alone(c) : c \in {Bulldozer, SkylakeServer, SkylakeClient, Atom, Nehemiah}}
         \cup {Alone(GuestWithout(f)) : f \in TextV4}
         \cup UNION {{Alone(OfArch(v, arch)) : v \in Products[arch]} : arch \in DOMAIN Products}
MCMachines == Large \cup Small

MCCurrent == 1000
Lists == {<<>>, <<"avx">>, <<"avx512_bf16", "svm">>, <<"avx512vl", "none", "sse">>,
          <<"Min">>, <<"xop", "avx512f">>, <<"xstore", "x2avic", "arat">>}
CallsAbout(n, functions, uarchs, lists) ==
  {[fn |-> f, num |-> n] : f \in functions}
  \cup {[fn |-> "uarch", num |-> n, uarch |-> u] : u \in uarchs}
  \cup {[fn |-> f, num |-> n, list |-> l] : f \in {"array", "all", "any", "each"}, l \in lists}

\* Every question about processor 0, and some about the others, about one that is not
\* there, about a number that is too large, and about the current processor.
MCCalls ==
  CallsAbout(0, {"is_amd", "get_vendor", "zen_family", "v2", "v3", "v4"}, 1 .. 6, Lists)
  \cup UNION {CallsAbout(n, {"v4"}, {4}, {}) : n \in {1, 2, 3, MCCurrent}}

\* EUModel lists all of them as the theorem about the answers assumes.
ASSUME ListedAssumption == \A m \in MCMachines : \A n \in m.online : Listed(m.cpu[n])
===============================================================================
