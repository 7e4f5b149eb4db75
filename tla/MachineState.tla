---------------------------- MODULE MachineState ----------------------------
(***************************************************************************)
(* The state of the RISC-V machine and the instructions that change it     *)
(* (src/risc_v/machine_state): the registers of the hart and the main      *)
(* memory live in the byte storage of a backend, at the places that the    *)
(* choreographer of MachineBackend gives to the layout of the state.       *)
(*                                                                         *)
(* A behaviour places one layout and then runs any sequence of operations  *)
(* of it.  The layout of a whole machine cannot be placed: its devices     *)
(* have no bytes, and the choreographer refuses such a location.           *)
(***************************************************************************)
EXTENDS MachineBackend, ControlRegisters

CONSTANTS
  Themes,     \* what a behaviour explores: a layout, and the inputs of its operations
  LEN8        \* the bytes of the main memory

\* The memories of the source are whole numbers of mebibytes.
ASSUME LEN8Assumption == LEN8 \in Nat \ {0} /\ LEN8 % 8 = 0

\* Inputs are register numbers, 64-bit values, addresses and modes that exist.
ASSUME ThemesAssumption ==
  \A t \in Themes :
    /\ t.layout \in {"hart", "memory", "regions", "machine"}
    /\ t.layout # "machine" /\ t.layout # "hart" => t.values \subseteq SUBSET AllBits
    /\ t.layout = "memory" => t.addrs \subseteq Nat
    /\ t.layout = "hart" =>
         /\ t.csrs \subseteq 0 .. 4095 /\ t.xs \subseteq 0 .. 31 /\ t.fs \subseteq 0 .. 31
         /\ UNION {t.values, t.imms, t.adds} \subseteq SUBSET AllBits
         /\ t.modes \subseteq {0, 1, 3, 4}

VARIABLES
  theme,      \* the theme of this behaviour
  places,     \* the locations of its layout, once it is placed
  storage,    \* the bits of the backing storage
  last        \* the last operation and what it returned

vars == <<theme, places, storage, last>>

(***************************************************************************)
(* Layouts.                                                                *)
(***************************************************************************)
XRegistersLayout(ch) == Array(ch, 8, 31)
FRegistersLayout(ch) == Array(ch, 8, 32)
CSRegistersLayout(ch) == Array(ch, 8, 4096)
ModeLayout(ch) == Atom(ch, 1)
HartStateLayout(ch) ==
  LET x == XRegistersLayout(ch)
      f == FRegistersLayout(x.ch)
      csr == CSRegistersLayout(f.ch)
  IN Tuple4(x, f, csr, ModeLayout(csr.ch))

\* Main memory is the same bytes seen as bytes, halfwords, words and doublewords.
Bytes8(ch) == Array(ch, 1, LEN8)
Halfwords(ch) == Array(ch, 2, LEN8 \div 2)
Words(ch) == Array(ch, 4, LEN8 \div 4)
Doublewords(ch) == Array(ch, 8, LEN8 \div 8)
WideViews(ch) ==
  LET h == aligned(ch, Words(Choreographer), Doublewords(Choreographer))
  IN overlapping(Words(h), Doublewords(h))
OtherViews(ch) ==
  LET h == aligned(ch, Halfwords(Choreographer), WideViews(Choreographer))
  IN overlapping(Halfwords(h), WideViews(h))
MainMemoryLayout(ch) ==
  LET h == aligned(ch, Bytes8(Choreographer), OtherViews(Choreographer))
  IN overlapping(Bytes8(h), OtherViews(h))

DevicesLayout(ch) == Array(ch, 1, 0)
BusLayout(ch) == LET d == DevicesLayout(ch) IN Tuple2(d, MainMemoryLayout(d.ch))
MachineStateLayout(ch) == LET h == HartStateLayout(ch) IN Tuple2(h, BusLayout(h.ch))

\* Memory behind an odd byte, and two arrays of different elements side by side.
PaddedMemoryLayout(ch) == LET odd == Atom(ch, 1) IN Tuple2(odd, MainMemoryLayout(odd.ch))
RegionsLayout(ch) ==
  LET a == Array(ch, 1, 3)
      b == Array(a.ch, 8, 2)
  IN Tuple3(a, b, Array(b.ch, 4, 3))

\* What the choreographer makes of the layout of a theme.
Placed(layout) ==
  place(CASE layout = "hart" -> HartStateLayout(Choreographer)
          [] layout = "memory" -> PaddedMemoryLayout(Choreographer)
          [] layout = "regions" -> RegionsLayout(Choreographer)
          [] layout = "machine" -> MachineStateLayout(Choreographer))
Location(n) == places[n]

(***************************************************************************)
(* Registers.  x0 is register 0: it reads as zero and ignores writes.      *)
(***************************************************************************)
XRead(s, reg) == IF reg = 0 THEN {} ELSE RegionRead(s, Location(1), 8, reg - 1)
XWrite(s, reg, value) == IF reg = 0 THEN s ELSE RegionWrite(s, Location(1), 8, reg - 1, value)
FRead(s, reg) == RegionRead(s, Location(2), 8, reg)
FWrite(s, reg, value) == RegionWrite(s, Location(2), 8, reg, value)

\* A cell is a region of one element.
CellRead(s, location, size) == RegionRead(s, location, size, 0)
CellWrite(s, location, size, value) == RegionWrite(s, location, size, 0, value)

ModeOf(s) == LET b == CellRead(s, Location(4), 1) IN
             (IF 0 \in b THEN 1 ELSE 0) + (IF 1 \in b THEN 2 ELSE 0) + (IF 2 \in b THEN 4 ELSE 0)

\* CSRs.  sstatus has no storage of its own: it is a restricted view of mstatus.
Cell(s, csr) == RegionRead(s, Location(3), 8, csr)

Mut_transform_write(s, csr, value) ==
  IF csr = sstatus THEN <<mstatus, sstatus_from_mstatus(value)>> ELSE <<csr, value>>
transform_write(s, csr, value) ==
  IF csr = sstatus
  THEN <<mstatus, sstatus_from_mstatus(value) \union (Cell(s, mstatus) \ SSTATUS_FIELDS_MASK)>>
  ELSE <<csr, value>>

\* mstatus_value is <<v>> when the caller knows mstatus.
transform_read(s, csr, mstatus_value) ==
  LET known == IF mstatus_value = <<>> THEN Cell(s, mstatus) ELSE mstatus_value[1] IN
  CASE csr = sstatus -> sstatus_from_mstatus(known)
    [] csr = mstatus -> known
    [] OTHER -> Cell(s, csr)

CSRRead(s, csr) == transform_read(s, csr, <<>>)

CSRWrite(s, csr, value) ==
  LET v == make_value_writable(csr, value) IN
  IF v = <<>> THEN s
  ELSE LET w == transform_write(s, csr, v[1]) IN RegionWrite(s, Location(3), 8, w[1], w[2])

\* What replace hands back: the storage afterwards and the value it returns.
replace(s, csr, value) ==
  LET v == make_value_writable(csr, value) IN
  IF v = <<>> THEN [storage |-> s, old |-> CSRRead(s, csr)]
  ELSE LET w == transform_write(s, csr, v[1])
           r == RegionReplace(s, Location(3), 8, w[1], w[2])
       IN [storage |-> r.storage, old |-> transform_read(r.storage, csr, <<r.old>>)]

set_bits(s, csr, bits) ==
  [old |-> CSRRead(s, csr), storage |-> CSRWrite(s, csr, CSRRead(s, csr) \union bits)]
clear_bits(s, csr, bits) ==
  [old |-> CSRRead(s, csr), storage |-> CSRWrite(s, csr, CSRRead(s, csr) \ bits)]

(***************************************************************************)
(* Instructions of the hart.                                               *)
(***************************************************************************)
\* The operation, the CSR it names, its destination and its outcome.
Op(name, csr, rd, outcome) == [name |-> name, csr |-> csr, rd |-> rd, outcome |-> outcome]
NoCSR == -1

Illegal(csr, rd) ==
  /\ last' = Op("csr", csr, rd, "IllegalInstruction")
  /\ UNCHANGED storage

\* csrrw and csrrwi: a read has no effect when the destination is x0.
csr_replace(csr, value, rd) ==
  IF ~check_privilege(csr, ModeOf(storage)) \/ ~check_write(csr) THEN Illegal(csr, rd)
  ELSE /\ last' = Op("replace", csr, rd, "ok")
       /\ storage' =
            IF rd = 0 THEN CSRWrite(storage, csr, value)
            ELSE LET r == replace(storage, csr, value) IN XWrite(r.storage, rd, r.old)

\* csrrs, csrrc and their immediate forms: no write when the operand is x0 or 0.
CsrBits(csr, bits, no_write, rd, clear) ==
  IF ~check_privilege(csr, ModeOf(storage)) \/ (~no_write /\ ~check_write(csr))
  THEN Illegal(csr, rd)
  ELSE LET r == IF no_write THEN [old |-> CSRRead(storage, csr), storage |-> storage]
                ELSE IF clear THEN clear_bits(storage, csr, bits)
                ELSE set_bits(storage, csr, bits)
       IN /\ last' = Op("bits", csr, rd, "ok")
          /\ storage' = XWrite(r.storage, rd, r.old)

csrrw(csr, rs1, rd) == csr_replace(csr, XRead(storage, rs1), rd)
csrrwi(csr, imm, rd) == csr_replace(csr, imm \cap (0 .. 4), rd)
csrrs(csr, rs1, rd) == CsrBits(csr, XRead(storage, rs1), rs1 = 0, rd, FALSE)
csrrsi(csr, imm, rd) == LET i == imm \cap (0 .. 4) IN CsrBits(csr, i, i = {}, rd, FALSE)
csrrc(csr, rs1, rd) == CsrBits(csr, XRead(storage, rs1), rs1 = 0, rd, TRUE)
csrrci(csr, imm, rd) == LET i == imm \cap (0 .. 4) IN CsrBits(csr, i, i = {}, rd, TRUE)

\* wrapping_add on 64 bits: bit n receives a carry that a lower pair of ones
\* generates and every pair in between propagates.
Carry(a, b, n) == \E g \in 0 .. n - 1 : g \in a \cap b /\ (g + 1 .. n - 1) \subseteq (a \union b)
wrapping_add(a, b) ==
  {n \in AllBits : (n \in a) # ((n \in b) # Carry(a, b, n))}

\* as i32 as u64: the lower 32 bits, with bit 31 repeated above them.
SignExtend32(a) == (a \cap (0 .. 31)) \union (IF 31 \in a THEN 32 .. 63 ELSE {})

run_addi(imm, rs1, rd) ==
  /\ storage' = XWrite(storage, rd, wrapping_add(XRead(storage, rs1), imm))
  /\ last' = Op("addi", NoCSR, rd, "ok")
run_addiw(imm, rs1, rd) ==
  /\ storage' = XWrite(storage, rd, SignExtend32(wrapping_add(XRead(storage, rs1), imm)))
  /\ last' = Op("addiw", NoCSR, rd, "ok")

\* The accessors of the registers and of the mode.
write_x(reg, value) ==
  /\ storage' = XWrite(storage, reg, value)
  /\ last' = Op("write_x", NoCSR, reg, "ok")
write_f(reg, value) ==
  /\ storage' = FWrite(storage, reg, value)
  /\ last' = Op("write_f", NoCSR, 32 + reg, "ok")
write_mode(mode) ==
  /\ storage' = CellWrite(storage, Location(4), 1, {b \in 0 .. 2 : (mode \div 2 ^ b) % 2 = 1})
  /\ last' = Op("write_mode", NoCSR, NoCSR, "ok")

HartStep ==
  /\ theme.layout = "hart" /\ last.outcome # "unplaced"
  /\ \/ \E csr \in theme.csrs \cap CSRegister, rd \in theme.xs :
          \/ \E rs1 \in theme.xs : csrrw(csr, rs1, rd) \/ csrrs(csr, rs1, rd) \/ csrrc(csr, rs1, rd)
          \/ \E imm \in theme.imms :
               csrrwi(csr, imm, rd) \/ csrrsi(csr, imm, rd) \/ csrrci(csr, imm, rd)
     \/ \E imm \in theme.adds, rs1, rd \in theme.xs : run_addi(imm, rs1, rd) \/ run_addiw(imm, rs1, rd)
     \/ \E reg \in theme.xs, value \in theme.values : write_x(reg, value)
     \/ \E reg \in theme.fs, value \in theme.values : write_f(reg, value)
     \/ \E m \in theme.modes : write_mode(m)

(***************************************************************************)
(* Main memory: location n + 1 holds the elements of 2^n bytes.  The index *)
(* is the address divided by the size: a misaligned address is rounded     *)
(* down.                                                                   *)
(***************************************************************************)
View(size) == Location(CASE size = 1 -> 2 [] size = 2 -> 3 [] size = 4 -> 4 [] size = 8 -> 5)

\* An element of a volatile region is read and written where it is stored; the
\* address is rounded down to a multiple of the size.
VolatileRead(size, addr) == RegionRead(storage, View(size), size, addr \div size)
VolatileWrite(size, addr, value) == RegionWrite(storage, View(size), size, addr \div size, value)

MemoryRead(size, addr) ==
  /\ last' = [name |-> "load", size |-> size, addr |-> addr,
              value |-> IF addr >= LEN8 THEN {} ELSE VolatileRead(size, addr),
              outcome |-> IF addr >= LEN8 THEN "OutOfBounds" ELSE "ok"]
  /\ UNCHANGED storage

MemoryWrite(size, addr, value) ==
  /\ last' = [name |-> "store", size |-> size, addr |-> addr, value |-> value,
              outcome |-> IF addr >= LEN8 THEN "OutOfBounds" ELSE "ok"]
  /\ storage' = IF addr >= LEN8 THEN storage
                ELSE VolatileWrite(size, addr, value)

MemoryStep ==
  /\ theme.layout = "memory" /\ last.outcome # "unplaced"
  /\ \E size \in {1, 2, 4, 8}, addr \in theme.addrs :
       \/ MemoryRead(size, addr)
       \/ \E value \in theme.values :
            MemoryWrite(size, addr, {b \in value : b < 8 * size})

(***************************************************************************)
(* The operations of a region on several elements.                         *)
(***************************************************************************)
ElemSize(n) == CASE n = 1 -> 1 [] n = 2 -> 8 [] n = 3 -> 4
RegionLen(n) == Location(n).size \div ElemSize(n)

\* write_some panics when the buffer does not fit; write_all is the whole region.
write_some(n, index, values) ==
  LET fits == index + Len(values) <= RegionLen(n) IN
  /\ last' = [name |-> "write_some", region |-> n, index |-> index, values |-> values,
              outcome |-> IF fits THEN "ok" ELSE "panic"]
  /\ storage' = IF fits THEN RegionWriteSome(storage, Location(n), ElemSize(n), index, values)
                ELSE storage

read_some(n, index, len) ==
  LET fits == index + len <= RegionLen(n) IN
  /\ last' = [name |-> "read_some", region |-> n, index |-> index,
              values |-> IF fits
                         THEN RegionReadSome(storage, Location(n), ElemSize(n), index, len)
                         ELSE <<>>,
              outcome |-> IF fits THEN "ok" ELSE "panic"]
  /\ UNCHANGED storage

RegionStep ==
  /\ theme.layout = "regions" /\ last.outcome \notin {"unplaced", "panic"}
  /\ \E n \in 1 .. 3, index \in 0 .. 2, len \in 1 .. 3 :
       \/ read_some(n, index, len)
       \/ \E value \in theme.values :
            write_some(n, index, [k \in 1 .. len |-> {b \in value : b < 8 * ElemSize(n)}])

(***************************************************************************)
(* A backend is allocated for the layout, filled with zeroes; a layout     *)
(* that cannot be placed panics.                                           *)
(***************************************************************************)
Place ==
  LET allocated(placed) ==
        /\ places' = placed.locations
        /\ last' = Op("place", NoCSR, NoCSR, IF placed.panicked THEN "panic" ELSE "ok")
  IN /\ last.outcome = "unplaced"
     /\ allocated(Placed(theme.layout))
     /\ UNCHANGED storage

Init ==
  /\ theme \in Themes
  /\ places = <<>>
  /\ storage = {}
  /\ last = Op("none", NoCSR, NoCSR, "unplaced")

Next == /\ \/ Place
           \/ (HartStep \/ MemoryStep \/ RegionStep) /\ UNCHANGED places
        /\ UNCHANGED theme

Spec == Init /\ [][Next]_vars

(***************************************************************************)
(* Properties.                                                             *)
(***************************************************************************)
OnHart == theme.layout = "hart" /\ places # <<>>

\* Whatever sequence of instructions wrote the registers (through mstatus,
\* through its view sstatus, whole or bit by bit), mstatus says that the state
\* is dirty exactly when one of its extensions is, its reserved fields are
\* clear, its MPP is a mode that exists and its widths are 64 bits once set;
\* sstatus never has a value of its own; and the other registers hold only
\* values that they may hold.
FieldsLegal ==
  OnHart =>
    LET v == Cell(storage, mstatus) IN
    /\ SD \subseteq v <=> \E f \in {XS, FS, VS} : f \subseteq v
    /\ v \subseteq MSTATUS_FIELDS_MASK
    /\ v \cap MPP # {12}
    /\ v \cap SXL \in {{}, {35}} /\ v \cap UXL \in {{}, {33}}
    /\ Cell(storage, sstatus) = {}
    /\ \A csr \in theme.csrs \ {mstatus, sstatus} :
         Cell(storage, csr) \in {{}} \union
            {make_value_writable(csr, Cell(storage, csr))[k] : k \in
               DOMAIN make_value_writable(csr, Cell(storage, csr))}

\* An instruction changes no register that needs more privilege than the mode
\* it runs in: through sstatus a supervisor reaches the fields of mstatus that
\* are its own and no other.
PrivilegeRespected ==
  [][OnHart /\ last'.name # "write_mode" =>
       /\ ModeOf(storage') = ModeOf(storage)
       /\ \A csr \in theme.csrs :
            privilege(csr) > ModePrivilege(ModeOf(storage)) =>
              LET mine == IF csr = mstatus /\ ModePrivilege(ModeOf(storage)) >= Supervisor
                          THEN SSTATUS_FIELDS_MASK ELSE {}
              IN Cell(storage', csr) \ mine = Cell(storage, csr) \ mine]_vars

\* What is stored at an address is what every narrower or wider load of the same
\* bytes finds, and a store, a region operation or an instruction changes no
\* byte and no register but the ones it names, wherever the layout put them.
Byte(s, addr) == RegionRead(s, View(1), 1, addr)
Bytes(s, size, addr) ==
  UNION {{8 * k + b : b \in Byte(s, addr - (addr % size) + k)} : k \in 0 .. size - 1}
StoredAt(addr) == {addr - (addr % last'.size) + k : k \in 0 .. last'.size - 1}
WritesAreLocal ==
  [][/\ theme.layout = "memory" /\ last'.name = "store" =>
          \A addr \in 0 .. LEN8 - 1 :
            Byte(storage', addr) =
              IF last'.outcome = "ok" /\ addr \in StoredAt(last'.addr)
              THEN LET k == addr % last'.size IN
                   {b - 8 * k : b \in last'.value \cap (8 * k .. 8 * k + 7)}
              ELSE Byte(storage, addr)
     /\ theme.layout = "memory" /\ last'.name = "load" /\ last'.outcome = "ok" =>
          last'.value = Bytes(storage, last'.size, last'.addr)
     /\ theme.layout = "regions" /\ last'.name = "write_some" /\ last'.outcome = "ok" =>
          \A n \in 1 .. 3, i \in 0 .. 2 : i < RegionLen(n) =>
            RegionRead(storage', Location(n), ElemSize(n), i) =
              IF n = last'.region /\ i - last'.index \in 0 .. Len(last'.values) - 1
              THEN last'.values[i - last'.index + 1]
              ELSE RegionRead(storage, Location(n), ElemSize(n), i)
     /\ OnHart /\ last'.name \notin {"place", "write_mode"} =>
          LET rd == IF last'.rd < 32 THEN Bits(Location(1), 8, last'.rd - 1)
                    ELSE Bits(Location(2), 8, last'.rd - 32)
              csr == Bits(Location(3), 8, IF last'.csr = sstatus THEN mstatus ELSE last'.csr)
          IN /\ XRead(storage', 0) = {}
             /\ \A b \in (storage \ storage') \union (storage' \ storage) :
                  b \in (IF last'.rd = 0 THEN {} ELSE rd) \union (IF last'.csr = NoCSR THEN {} ELSE csr)]_vars

=============================================================================
