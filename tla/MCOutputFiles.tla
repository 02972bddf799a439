--------------------------- MODULE MCOutputFiles ----------------------------
(***************************************************************************)
(* Two imports that write a canonical document and a Verilog file each,    *)
(* and a compile that writes the same Verilog file; one may get the        *)
(* process id of a dead one.                                               *)
(***************************************************************************)
EXTENDS OutputFiles

CONSTANTS import1, import2, compile, canonical, verilog

MCProcesses == {import1, import2, compile}
MCPaths     == {canonical, verilog}

MCPlan == [p \in MCProcesses |->
             IF p = compile THEN <<verilog>> ELSE <<canonical, verilog>>]

Setting(f, ids) ==
  [force |-> [p \in MCProcesses |-> p \in f],
   pid   |-> [p \in MCProcesses |-> CASE p = import1 -> ids[1]
                                      [] p = import2 -> ids[2]
                                      [] OTHER -> ids[3]]]

\* Nobody was given --force; the processes race under different ids.
MCRace == {Setting({}, <<1, 2, 3>>)}

\* The same; a forced compile among them; and two imports one after the other
\* under one id, beside a forced compile.
MCSettings == MCRace \cup {Setting({compile}, <<1, 2, 3>>),
                          Setting({compile}, <<1, 1, 2>>)}

MCAllFaults == Calls
MCNoFaults  == {}
=============================================================================
