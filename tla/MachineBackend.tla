--------------------------- MODULE MachineBackend ---------------------------
(***************************************************************************)
(* The state backend of the RISC-V machine (src/risc_v/machine_state):     *)
(* layouts are placed by a Choreographer, and regions of elements are read *)
(* and written at the places it found.                                     *)
(*                                                                         *)
(* A value is the set of the positions of its one bits, so that `&` is an  *)
(* intersection and `|` a union, at the full width of 64 bits.  The        *)
(* storage is the set of the positions of all its one bits: byte n holds   *)
(* the bits 8n .. 8n + 7 and an element is stored in little-endian order.  *)
(***************************************************************************)
EXTENDS Integers, Sequences

larger(a, b) == IF a >= b THEN a ELSE b

align_address(address, align) ==
  LET offset == address % align IN
  IF offset > 0 THEN address + align - offset ELSE address

\* The choreographer: the hook is the alignment that an enclosing overlap asks
\* of the next allocation (1 when there is none); panicked when it met a
\* location without bytes.
Choreographer == [first_unallocated_byte |-> 0, max_align |-> 1, hook |-> 1, panicked |-> FALSE]

\* The plausible slip of an allocator that forgets the padding it added.
Mut_alloc(ch, size, type_align) ==
  LET align == larger(type_align, ch.hook)
      offset == align_address(ch.first_unallocated_byte, align)
  IN [ch |-> [first_unallocated_byte |-> ch.first_unallocated_byte + size,
              max_align |-> larger(ch.max_align, align), hook |-> 1, panicked |-> FALSE],
      locations |-> <<[offset |-> offset, size |-> size, align |-> align]>>]

alloc(ch, size, type_align) ==
  LET align == larger(type_align, ch.hook)
      offset == align_address(ch.first_unallocated_byte, align)
  IN [ch |-> [first_unallocated_byte |-> offset + size,
              max_align |-> larger(ch.max_align, align),
              hook |-> 1,
              panicked |-> ch.panicked \/ size = 0],
      locations |-> <<[offset |-> offset, size |-> size, align |-> align]>>]

(***************************************************************************)
(* A layout is what its place_with does: from a choreographer, the one     *)
(* after it and the locations of the layout in the order in which they are *)
(* allocated.  An element, or an array of them, is one allocation.         *)
(***************************************************************************)
Array(ch, size, len) == alloc(ch, size * len, size)
Atom(ch, size) == Array(ch, size, 1)

\* place_with of a tuple: what its layouts made of the choreographer, each after
\* the one before.
Tuple2(a, b) == [ch |-> b.ch, locations |-> a.locations \o b.locations]
Tuple3(a, b, c) == Tuple2(Tuple2(a, b), c)
Tuple4(a, b, c, d) == Tuple2(Tuple3(a, b, c), d)

\* Two layouts that overlap start where the stricter of their first allocations
\* can: the alignment that a layout asks of its first allocation is the one it
\* gets from a choreographer that asks for nothing.
FirstAlign(alone) == alone.locations[1].align
aligned(ch, top_alone, bottom_alone) ==
  [ch EXCEPT !.hook = larger(ch.hook, larger(FirstAlign(top_alone), FirstAlign(bottom_alone)))]

\* What both make of that choreographer.
overlapping(top, bottom) ==
  [ch |-> [first_unallocated_byte |-> larger(top.ch.first_unallocated_byte,
                                             bottom.ch.first_unallocated_byte),
           max_align |-> larger(top.ch.max_align, bottom.ch.max_align),
           hook |-> 1,
           panicked |-> top.ch.panicked \/ bottom.ch.panicked],
   locations |-> top.locations \o bottom.locations]

\* place, of what a layout made of a new choreographer.
place(placed) ==
  [size |-> placed.ch.first_unallocated_byte, align |-> placed.ch.max_align,
   panicked |-> placed.ch.panicked \/ placed.ch.first_unallocated_byte = 0,
   locations |-> placed.locations]

\* The bits of the element at an index of a region of elements of some size.
Bits(location, size, index) ==
  LET base == 8 * (location.offset + index * size) IN base .. (base + 8 * size - 1)

\* read and write an element of a region; write replaces all its bits.
RegionRead(storage, location, size, index) ==
  LET base == 8 * (location.offset + index * size) IN
  {b - base : b \in storage \cap Bits(location, size, index)}

RegionWrite(storage, location, size, index, value) ==
  LET base == 8 * (location.offset + index * size) IN
  (storage \ Bits(location, size, index))
     \union {base + b : b \in {v \in value : v < 8 * size}}

\* replace: the element that was there, and the storage with the new one.
RegionReplace(storage, location, size, index, value) ==
  [old |-> RegionRead(storage, location, size, index),
   storage |-> RegionWrite(storage, location, size, index, value)]

\* read_some and write_some: consecutive elements, as a sequence.
RegionReadSome(storage, location, size, index, len) ==
  [k \in 1 .. len |-> RegionRead(storage, location, size, index + k - 1)]

RegionWriteSome(storage, location, size, index, values) ==
  LET base == location.offset + index * size IN
  (storage \ (8 * base .. 8 * (base + size * Len(values)) - 1))
     \union UNION {{8 * (base + (k - 1) * size) + b : b \in values[k]} : k \in DOMAIN values}
=============================================================================
