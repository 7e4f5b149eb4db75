--------------------------- MODULE MCMachineState ---------------------------
(***************************************************************************)
(* Instances of MachineState: each theme fixes a layout and small inputs.  *)
(***************************************************************************)
EXTENDS MachineState

Hart(csrs, values, imms, adds, modes, xs, fs) ==
  [layout |-> "hart", csrs |-> csrs, values |-> values, imms |-> imms, adds |-> adds,
   modes |-> modes, xs |-> xs, fs |-> fs]

mscratch == 832
cycle == 3072
fcsr == 3

MCThemes ==
  { Hart({mstatus, sstatus}, {{13, 14}, {3, 11, 12}, {0, 12}}, {{1}}, {}, {1, 3}, {0, 1}, {}),
    Hart({mcause, scause}, {{63}, {3, 1}}, {{0}}, {}, {0, 4}, {0, 1}, {}),
    Hart({satp, mscratch}, {{63}, {61, 1}}, {{0}}, {}, {1, 3}, {0, 31}, {}),
    Hart({mie, sie, cycle}, {{0, 1}, {3}}, {{0, 1, 3}}, {}, {0, 1, 3}, {0, 1}, {}),
    Hart({misa, mtvec}, {{1, 10, 8}}, {{0, 1}}, {}, {3}, {0, 1}, {31}),
    Hart({menvcfg, senvcfg}, {{0, 1, 5, 62}}, {}, {}, {1, 3}, {0, 1}, {}),
    Hart({medeleg, mepc}, {{0, 1, 10}}, {{3}}, {}, {1, 3}, {0, 1}, {}),
    Hart({fcsr}, {{31}, 0 .. 63}, {}, {{62}, {63}}, {}, {0, 1}, {}),
    [layout |-> "memory", addrs |-> {0, 3, 15, 16},
     values |-> {{0, 15, 40, 63}}],
    [layout |-> "regions", values |-> {{0, 7, 9, 63}}],
    [layout |-> "machine"] }
=============================================================================
