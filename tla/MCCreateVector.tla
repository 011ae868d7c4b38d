---------------------------- MODULE MCCreateVector ----------------------------
(* All small numbers of threads and processors; a caller has a thread to pin, *)
(* but perhaps no processor to pin it to.                                    *)
EXTENDS CreateVector

CONSTANTS MaxThreads, MaxProcessors

MCSizes == (1 .. MaxThreads) \X (0 .. MaxProcessors)
=============================================================================
