----------------------------- MODULE MCAuditChain -----------------------------
(* Two callers share the writer of run r1; r2 is another run, whose identity *)
(* damage may put into a line.  One payload passes validation, one does not. *)
(* Three events are the least with a first, an inner and a last line.        *)
EXTENDS AuditChain

CONSTANTS t1, t2, r1, r2, fit, unfit

MCThreads   == {t1, t2}
MCRuns      == {r1, r2}
MCPayloads  == {fit, unfit}
MCUnfit     == {unfit}
MCMaxEvents == 3
===============================================================================
