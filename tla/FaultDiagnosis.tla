--------------------------- MODULE FaultDiagnosis ---------------------------
(***************************************************************************)
(* How fault_analyze (src/server/mcp_server.py) reads the fault status of  *)
(* a Cortex-M: the registers and their addresses, the bits it knows by     *)
(* name and the sentences it derives from them.  A status register is the  *)
(* set of its bits that are set.                                           *)
(***************************************************************************)
EXTENDS Sequences

(***************************************************************************)
(* FAULT_REGS, in the order of the reads.  What MMFAR, DFSR and AFSR hold  *)
(* has no part in the diagnosis.                                           *)
(***************************************************************************)
FaultRegs == <<"CFSR", "HFSR", "DFSR", "MMFAR", "BFAR", "AFSR">>

\* The bits of CFSR that fault_analyze knows by name (ufsr_bits, bfsr_bits,
\* mmfsr_bits); LSPERR of BFSR is not among them.
Named == {"UNDEFINSTR", "INVSTATE", "INVPC", "NOCP", "STKOF", "UNALIGNED", "DIVBYZERO",
          "IBUSERR", "PRECISERR", "IMPRECISERR", "UNSTKERR", "STKERR", "BFARVALID",
          "IACCVIOL", "DACCVIOL", "MUNSTKERR", "MSTKERR", "MLSPERR", "MMARVALID"}

HardFaults == {"VECTTBL", "FORCED", "DEBUGEVT"}

\* The bits that a sentence of the diagnosis explains.
Diagnosed == {"INVSTATE", "PRECISERR", "IMPRECISERR", "STKERR", "MSTKERR",
              "DIVBYZERO", "UNDEFINSTR", "NOCP"}

\* Mutant: STKERR is explained and MSTKERR is not.
SentencesButOne(bits) == bits \cap (Diagnosed \ {"MSTKERR"})

\* The sentences that the bits found in CFSR give rise to.
Sentences(bits) == bits \cap Diagnosed

\* The report's conclusions from what each register was taken to hold.
Diagnosis(raw) ==
    [bits |-> (raw["CFSR"] \cap Named) \cup (raw["HFSR"] \cap HardFaults),
     sentences |-> Sentences(raw["CFSR"]),
     generic |-> Sentences(raw["CFSR"]) = {} /\ "FORCED" \in raw["HFSR"],
     bfar |-> IF "BFARVALID" \in raw["CFSR"] THEN raw["BFAR"] ELSE {}]

=============================================================================
