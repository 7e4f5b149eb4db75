-------------------------- MODULE ControlRegisters --------------------------
(***************************************************************************)
(* The control and status registers of the RISC-V hart                     *)
(* (src/risc_v/machine_state/src/csregisters.rs and xstatus.rs): who may   *)
(* access one, and what a write makes of a value.  Values are sets of      *)
(* bits (see MachineBackend); a register is its number.                    *)
(***************************************************************************)
EXTENDS Integers, FiniteSets

AllBits == 0 .. 63

\* The registers that this module treats apart; any other number is a plain one.
sstatus == 256
sie == 260
stvec == 261
senvcfg == 266
sepc == 321
scause == 322
sip == 324
satp == 384
mstatus == 768
misa == 769
medeleg == 770
mideleg == 771
mie == 772
mtvec == 773
menvcfg == 778
mepc == 833
mcause == 834
mip == 836
mseccfg == 1863
\* The registers there are, by what they are for.
UnprivilegedRegisters == (1 .. 3) \union (3072 .. 3103)
SupervisorRegisters == {256, 266, 384, 1448} \union (260 .. 262) \union (320 .. 324)
HypervisorRegisters ==
  {1536, 1541, 1546, 1610, 1664, 1704, 3602, 512, 640} \union (1538 .. 1540)
  \union (1542 .. 1543) \union (1603 .. 1605) \union (516 .. 517) \union (576 .. 580)
MachineRegisters ==
  {778, 1863} \union (3857 .. 3861) \union (768 .. 774) \union (832 .. 836) \union (842 .. 843)
ProtectionRegisters == {928 + 2 * i : i \in 0 .. 7} \union (944 .. 1007)
CounterRegisters == {2816, 800} \union (2818 .. 2847) \union (803 .. 831)
DebugRegisters == {1960} \union (1952 .. 1955) \union (1968 .. 1971)
CSRegister ==
  UNION {UnprivilegedRegisters, SupervisorRegisters, HypervisorRegisters, MachineRegisters,
         ProtectionRegisters, CounterRegisters, DebugRegisters}

(***************************************************************************)
(* Access.                                                                 *)
(***************************************************************************)
Unprivileged == 0
Supervisor == 1
Machine == 3

\* Two bits of the number of a register are the privilege it needs, two others
\* tell whether it is read-only.
privilege(csr) == (csr \div 256) % 4
is_read_only(csr) == (csr \div 1024) % 4 = 3

\* The modes of the hart and the privilege of each.
Modes == [User |-> 0, Supervisor |-> 1, Machine |-> 3, Debug |-> 4]
ModePrivilege(mode) == CASE mode = 0 -> Unprivileged
                         [] mode = 1 -> Supervisor
                         [] mode \in {3, 4} -> Machine

check_privilege(csr, mode) == ModePrivilege(mode) >= privilege(csr)
check_write(csr) == ~is_read_only(csr)

(***************************************************************************)
(* The fields of mstatus and sstatus, <<offset, width>>.                   *)
(***************************************************************************)
Field(offset, width) == offset .. (offset + width - 1)
SD == Field(63, 1)
MBE == Field(37, 1)
SBE == Field(36, 1)
SXL == Field(34, 2)
UXL == Field(32, 2)
TSR == Field(22, 1)
TW == Field(21, 1)
TVM == Field(20, 1)
MXR == Field(19, 1)
SUM == Field(18, 1)
MPRV == Field(17, 1)
XS == Field(15, 2)
FS == Field(13, 2)
MPP == Field(11, 2)
VS == Field(9, 2)
SPP == Field(8, 1)
MPIE == Field(7, 1)
UBE == Field(6, 1)
SPIE == Field(5, 1)
MIE == Field(3, 1)
SIE == Field(1, 1)

SSTATUS_FIELDS_MASK == UNION {SD, UXL, MXR, SUM, XS, FS, VS, SPP, UBE, SPIE, SIE}
MSTATUS_FIELDS_MASK ==
  SSTATUS_FIELDS_MASK \union UNION {MBE, SBE, SXL, TSR, TW, TVM, MPRV, MPP, MPIE, MIE}

SetField(value, field, bits) == (value \ field) \union (bits \cap field)

\* An extension whose state is dirty has both bits of its field set.
Dirty(value, field) == field \subseteq value

\* SD summarises the extensions; UXL is fixed to 64 bits.
Mut_apply_warl_sstatus(value) == SetField(value, UXL, {33})
apply_warl_sstatus(value) ==
  LET dirty == \E f \in {XS, FS, VS} : Dirty(value, f) IN
  SetField(SetField(value, SD, IF dirty THEN SD ELSE {}), UXL, {33})

\* In addition SXL is fixed to 64 bits, and the reserved MPP is read as User.
apply_warl_mstatus(value) ==
  LET v == SetField(apply_warl_sstatus(value), SXL, {35}) IN
  IF v \cap MPP = {12} THEN SetField(v, MPP, {}) ELSE v

sstatus_from_mstatus(value) == value \cap SSTATUS_FIELDS_MASK

(***************************************************************************)
(* What a write makes of a value: <<>> when nothing is written.            *)
(***************************************************************************)
\* Bits reserved for future use (WPRI).
wpri_fields(csr) ==
  CASE csr = mstatus -> {0, 2, 4} \union Field(23, 9) \union Field(38, 25)
    [] csr = menvcfg -> Field(1, 3) \union Field(8, 54)
    [] csr = mseccfg -> Field(3, 5) \union Field(10, 54)
    [] csr = sstatus -> {0, 7, 17} \union Field(2, 3) \union Field(11, 2)
                          \union Field(20, 12) \union Field(34, 29)
    [] csr = senvcfg -> Field(1, 3) \union Field(8, 56)
    [] OTHER -> {}
clear_wpri_fields(csr, value) == value \ wpri_fields(csr)

\* The causes of a trap (WLRL): interrupts have bit 63, and a small code.
Code(n) == {b \in 0 .. 3 : (n \div 2 ^ b) % 2 = 1}
Causes(interrupts, exceptions) ==
  {Code(n) \union {63} : n \in interrupts} \union {Code(n) : n \in exceptions}
legal_values(csr) ==
  CASE csr = mcause -> Causes({1, 3, 5, 7, 9, 11}, (0 .. 9) \union {11, 12, 13, 15})
    [] csr = scause -> Causes({1, 5, 9}, (0 .. 9) \union {12, 13, 15})
    [] OTHER -> {}
is_legal(csr, value) == legal_values(csr) # {} => value \in legal_values(csr)

\* Bits that a write may set (WARL).
WARL_MISA_VALUE == {63, 0, 2, 3, 5, 8, 12, 18, 20}
MachineInterrupts == {1, 3, 5, 7, 9, 11}
SupervisorInterrupts == {1, 5, 9}
warl_mask(csr) ==
  CASE csr = medeleg -> (0 .. 15) \ {10, 11, 14}
    [] csr = mideleg -> (0 .. 11) \ {0, 2, 4, 6, 8, 10}
    [] csr \in {mtvec, stvec} -> AllBits \ {1}
    [] csr \in {mip, mie} -> MachineInterrupts
    [] csr \in {sip, sie} -> SupervisorInterrupts
    [] csr \in {mepc, sepc} -> AllBits \ {0}
    [] OTHER -> AllBits

\* The modes of satp: Sv39, Sv48 and Sv57; bare clears the rest, others are not written.
satp_modes == {{63}, {63, 60}, {63, 61}}
transform_satp(value) ==
  LET satp_mode == value \cap (60 .. 63) IN
  IF satp_mode \in satp_modes THEN <<value>>
  ELSE IF satp_mode = {} THEN << {} >> ELSE <<>>

transform_warl_fields(csr, value) ==
  CASE csr = misa -> <<WARL_MISA_VALUE>>
    [] csr = satp -> transform_satp(value)
    [] csr = mstatus -> <<apply_warl_mstatus(value)>>
    [] csr = sstatus -> <<apply_warl_sstatus(value)>>
    [] OTHER -> <<value \cap warl_mask(csr)>>

make_value_writable(csr, value) ==
  LET v == transform_warl_fields(csr, clear_wpri_fields(csr, value)) IN
  IF v # <<>> /\ is_legal(csr, v[1]) THEN v ELSE <<>>
=============================================================================
