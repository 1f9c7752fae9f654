---------------------------- MODULE MCInspection ----------------------------
(* The instance of Inspection that TLC checks: one client calls any tool,  *)
(* the other runs raw commands.                                            *)
EXTENDS Inspection

CONSTANTS alice, bob

AnyAndRaw == [c \in {alice, bob} |-> IF c = alice THEN Tools ELSE {"gdb_raw"}]

Fault(c, h) == [cfsr |-> c, hfsr |-> h]

\* A bus fault whose address is known, one whose address is lost, with a
\* memory fault, and a hard fault without a cause of its own.
SomeFaults == {Fault({"PRECISERR", "BFARVALID"}, {}), Fault({"PRECISERR", "MSTKERR"}, {"FORCED"}),
               Fault({}, {"FORCED"})}
=============================================================================
