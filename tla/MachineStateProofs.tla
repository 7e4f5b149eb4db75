------------------------- MODULE MachineStateProofs -------------------------
(***************************************************************************)
(* What holds of the RISC-V state for every memory size, every register,   *)
(* every 64-bit value and every sequence of operations: the registers hold *)
(* legal values, an instruction changes no register above its privilege,   *)
(* and a write changes what it names and nothing else.                     *)
(*                                                                         *)
(* The choreographer comes first: where each layout is placed.  Reads and  *)
(* writes of regions are then described bit by bit, the registers of the   *)
(* hart are shown to be apart, and what a write lets through is shown to   *)
(* be what it would let through again.                                     *)
(***************************************************************************)
EXTENDS MachineState, TLAPS

-----------------------------------------------------------------------------
(* Where the choreographer puts the three layouts.                         *)

Loc(offset, size, align) == [offset |-> offset, size |-> size, align |-> align]
HartPlaces == <<Loc(0, 248, 8), Loc(248, 256, 8), Loc(504, 32768, 8), Loc(33272, 1, 1)>>
MemoryPlaces == <<Loc(0, 1, 1), Loc(8, LEN8, 8), Loc(8, LEN8, 8), Loc(8, LEN8, 8), Loc(8, LEN8, 8)>>
RegionsPlaces == <<Loc(0, 3, 1), Loc(8, 16, 8), Loc(24, 12, 4)>>

\* A choreographer that met no empty location, and what a layout makes of it.
Chor(first, max, hook) ==
  [first_unallocated_byte |-> first, max_align |-> max, hook |-> hook, panicked |-> FALSE]
Result(ch, locations) == [ch |-> ch, locations |-> locations]

LEMMA AllocResult ==
  ASSUME NEW first, NEW max, NEW hook, NEW size, NEW align, NEW a, NEW o, NEW f, NEW m,
         size # 0, a = larger(align, hook), o = align_address(first, a), f = o + size,
         m = larger(max, a)
  PROVE  alloc(Chor(first, max, hook), size, align) = Result(Chor(f, m, 1), <<Loc(o, size, a)>>)
<1>1. /\ Chor(first, max, hook).first_unallocated_byte = first
      /\ Chor(first, max, hook).max_align = max
      /\ Chor(first, max, hook).hook = hook
      /\ Chor(first, max, hook).panicked = FALSE
  BY DEF Chor
<1> QED BY <1>1 DEF alloc, Chor, Loc, Result

\* place, of a choreographer that allocated something and met no empty location.
LEMMA PlacedWell ==
  ASSUME NEW first \in Nat \ {0}, NEW max, NEW locations
  PROVE  LET p == place(Result(Chor(first, max, 1), locations))
         IN p.locations = locations /\ ~p.panicked
<1> DEFINE r == Result(Chor(first, max, 1), locations)
<1>1. r.locations = locations /\ r.ch = Chor(first, max, 1) BY DEF Result
<1>2. r.ch.first_unallocated_byte = first BY <1>1 DEF Chor
<1>3. r.ch.panicked = FALSE BY <1>1 DEF Chor
<1>4. (r.ch.panicked \/ r.ch.first_unallocated_byte = 0) = FALSE BY <1>2, <1>3
<1> HIDE DEF r
<1>5. place(r).locations = locations BY <1>1 DEF place
<1>6. place(r).panicked = FALSE BY <1>4 DEF place
<1> QED BY <1>5, <1>6 DEF r

LEMMA HartPlaced == Placed("hart").locations = HartPlaces /\ ~Placed("hart").panicked
<1>1. Choreographer = Chor(0, 1, 1) BY DEF Choreographer, Chor
<1>2. XRegistersLayout(Choreographer) = Result(Chor(248, 8, 1), <<Loc(0, 248, 8)>>)
  <2>1. 8 = larger(8, 1) /\ 0 = align_address(0, 8) /\ 8 = larger(1, 8) /\ 8 * 31 = 248 /\ 248 = 0 + 248
    BY DEF larger, align_address
  <2>2. alloc(Chor(0, 1, 1), 248, 8) = Result(Chor(248, 8, 1), <<Loc(0, 248, 8)>>)
    BY <2>1, AllocResult
  <2> QED BY <1>1, <2>1, <2>2 DEF XRegistersLayout, Array
<1>3. FRegistersLayout(Chor(248, 8, 1)) = Result(Chor(504, 8, 1), <<Loc(248, 256, 8)>>)
  <2>1. 8 = larger(8, 1) /\ 248 = align_address(248, 8) /\ 8 = larger(8, 8) /\ 8 * 32 = 256 /\ 504 = 248 + 256
    BY DEF larger, align_address
  <2>2. alloc(Chor(248, 8, 1), 256, 8) = Result(Chor(504, 8, 1), <<Loc(248, 256, 8)>>)
    BY <2>1, AllocResult
  <2> QED BY <2>1, <2>2 DEF FRegistersLayout, Array
<1>4. CSRegistersLayout(Chor(504, 8, 1)) = Result(Chor(33272, 8, 1), <<Loc(504, 32768, 8)>>)
  <2>1. 8 = larger(8, 1) /\ 504 = align_address(504, 8) /\ 8 = larger(8, 8) /\ 8 * 4096 = 32768
        /\ 33272 = 504 + 32768
    BY DEF larger, align_address
  <2>2. alloc(Chor(504, 8, 1), 32768, 8) = Result(Chor(33272, 8, 1), <<Loc(504, 32768, 8)>>)
    BY <2>1, AllocResult
  <2> QED BY <2>1, <2>2 DEF CSRegistersLayout, Array
<1>5. ModeLayout(Chor(33272, 8, 1)) = Result(Chor(33273, 8, 1), <<Loc(33272, 1, 1)>>)
  <2>1. 1 = larger(1, 1) /\ 33272 = align_address(33272, 1) /\ 8 = larger(8, 1) /\ 1 * 1 = 1
        /\ 33273 = 33272 + 1
    BY DEF larger, align_address
  <2>2. alloc(Chor(33272, 8, 1), 1, 1) = Result(Chor(33273, 8, 1), <<Loc(33272, 1, 1)>>)
    BY <2>1, AllocResult
  <2> QED BY <2>1, <2>2 DEF ModeLayout, Atom, Array
<1>6. HartStateLayout(Choreographer)
        = Tuple4(Result(Chor(248, 8, 1), <<Loc(0, 248, 8)>>),
                 Result(Chor(504, 8, 1), <<Loc(248, 256, 8)>>),
                 Result(Chor(33272, 8, 1), <<Loc(504, 32768, 8)>>),
                 Result(Chor(33273, 8, 1), <<Loc(33272, 1, 1)>>))
  BY <1>2, <1>3, <1>4, <1>5 DEF HartStateLayout, Result
<1>7. HartStateLayout(Choreographer) = Result(Chor(33273, 8, 1), HartPlaces)
  BY <1>6 DEF Tuple4, Tuple3, Tuple2, Result, HartPlaces
<1>8. Placed("hart") = place(HartStateLayout(Choreographer)) BY DEF Placed
<1> QED BY <1>7, <1>8, PlacedWell

LEMMA OverlapResult ==
  ASSUME NEW f1, NEW f2, NEW m1, NEW m2, NEW l1, NEW l2
  PROVE  overlapping(Result(Chor(f1, m1, 1), l1), Result(Chor(f2, m2, 1), l2))
           = Result(Chor(larger(f1, f2), larger(m1, m2), 1), l1 \o l2)
<1> DEFINE r1 == Result(Chor(f1, m1, 1), l1)
           r2 == Result(Chor(f2, m2, 1), l2)
<1>1. /\ r1.locations = l1 /\ r1.ch.first_unallocated_byte = f1
      /\ r1.ch.max_align = m1 /\ r1.ch.panicked = FALSE
  BY DEF Result, Chor
<1>2. /\ r2.locations = l2 /\ r2.ch.first_unallocated_byte = f2
      /\ r2.ch.max_align = m2 /\ r2.ch.panicked = FALSE
  BY DEF Result, Chor
<1>3. (r1.ch.panicked \/ r2.ch.panicked) = FALSE BY <1>1, <1>2
<1> HIDE DEF r1, r2
<1>4. overlapping(r1, r2) = Result(Chor(larger(f1, f2), larger(m1, m2), 1), l1 \o l2)
  BY <1>1, <1>2, <1>3 DEF overlapping, Result, Chor
<1> QED BY <1>4 DEF r1, r2

LEMMA MemoryPlaced == Placed("memory").locations = MemoryPlaces /\ ~Placed("memory").panicked
<1> USE LEN8Assumption
<1>1. /\ 1 * LEN8 = LEN8 /\ 2 * (LEN8 \div 2) = LEN8
      /\ 4 * (LEN8 \div 4) = LEN8 /\ 8 * (LEN8 \div 8) = LEN8
      /\ LEN8 # 0 /\ LEN8 \in Int
  <2>1. PICK k \in Int : LEN8 = 8 * k OBVIOUS
  <2> QED BY <2>1
<1>2. PICK n \in Int : n = LEN8 BY <1>1
<1> DEFINE R(first, max, locations) == Result(Chor(first, max, 1), locations)
<1>3. ASSUME NEW first \in {0, 1}, NEW max \in {1}, NEW hook \in {1, 2, 4, 8}, NEW align \in {1, 2, 4, 8},
             NEW o, NEW a, a = larger(align, hook), o = IF first = 0 THEN 0 ELSE a
      PROVE  alloc(Chor(first, max, hook), LEN8, align) = R(o + LEN8, a, <<Loc(o, LEN8, a)>>)
  <2>1. a \in {1, 2, 4, 8} /\ o = align_address(first, a) /\ a = larger(max, a)
    BY <1>3 DEF larger, align_address
  <2>2. o + LEN8 = o + LEN8 OBVIOUS
  <2>3. PICK f : f = o + LEN8 OBVIOUS
  <2> QED BY <2>1, <2>3, <1>1, <1>3, AllocResult
<1>4. Choreographer = Chor(0, 1, 1) BY DEF Choreographer, Chor
<1> HIDE DEF R
<1>5. ASSUME NEW first \in {0, 1}, NEW max \in {1}, NEW hook \in {1, 2, 4, 8}, NEW o, NEW a,
             o = IF first = 0 THEN 0 ELSE a
      PROVE  /\ a = larger(1, hook) => Bytes8(Chor(first, max, hook)) = R(o + LEN8, a, <<Loc(o, LEN8, a)>>)
             /\ a = larger(2, hook) => Halfwords(Chor(first, max, hook)) = R(o + LEN8, a, <<Loc(o, LEN8, a)>>)
             /\ a = larger(4, hook) => Words(Chor(first, max, hook)) = R(o + LEN8, a, <<Loc(o, LEN8, a)>>)
             /\ a = larger(8, hook) => Doublewords(Chor(first, max, hook)) = R(o + LEN8, a, <<Loc(o, LEN8, a)>>)
  BY <1>1, <1>3, <1>5 DEF Bytes8, Halfwords, Words, Doublewords, Array
<1>6. ASSUME NEW f, NEW m, NEW l, NEW s
      PROVE  FirstAlign(R(f, m, <<Loc(l, LEN8, s)>>)) = s
  BY DEF FirstAlign, R, Result, Loc
<1>8. ASSUME NEW first, NEW hook, NEW t, NEW b, NEW h,
             h = larger(hook, larger(FirstAlign(t), FirstAlign(b)))
      PROVE  aligned(Chor(first, 1, hook), t, b) = Chor(first, 1, h)
  <2>1. Chor(first, 1, hook).hook = hook BY DEF Chor
  <2>2. aligned(Chor(first, 1, hook), t, b) = [Chor(first, 1, hook) EXCEPT !.hook = h]
    BY <1>8, <2>1 DEF aligned
  <2>3. PICK p : p = FALSE OBVIOUS
  <2>4. [[first_unallocated_byte |-> first, max_align |-> 1, hook |-> hook, panicked |-> p] EXCEPT !.hook = h]
          = [first_unallocated_byte |-> first, max_align |-> 1, hook |-> h, panicked |-> p]
    OBVIOUS
  <2>5. [Chor(first, 1, hook) EXCEPT !.hook = h] = Chor(first, 1, h) BY <2>3, <2>4 DEF Chor
  <2> QED BY <2>2, <2>5
<1>9. ASSUME NEW first \in {0, 1}, NEW hook \in {1, 2, 4, 8}, NEW o, o = IF first = 0 THEN 0 ELSE 8
      PROVE  WideViews(Chor(first, 1, hook)) = R(o + LEN8, 8, <<Loc(o, LEN8, 8), Loc(o, LEN8, 8)>>)
  <2>1. Words(Choreographer) = R(LEN8, 4, <<Loc(0, LEN8, 4)>>)
    BY <1>1, <1>4, <1>5 DEF larger
  <2>2. Doublewords(Choreographer) = R(LEN8, 8, <<Loc(0, LEN8, 8)>>)
    BY <1>1, <1>4, <1>5 DEF larger
  <2>3. 8 = larger(hook, larger(4, 8)) BY DEF larger
  <2>4. aligned(Chor(first, 1, hook), Words(Choreographer), Doublewords(Choreographer)) = Chor(first, 1, 8)
    BY <2>1, <2>2, <2>3, <1>6, <1>8
  <2>5. Words(Chor(first, 1, 8)) = R(o + LEN8, 8, <<Loc(o, LEN8, 8)>>) BY <1>5, <1>9 DEF larger
  <2>6. Doublewords(Chor(first, 1, 8)) = R(o + LEN8, 8, <<Loc(o, LEN8, 8)>>) BY <1>5, <1>9 DEF larger
  <2>7. PICK f : f = o + LEN8 OBVIOUS
  <2>8. f = larger(f, f) /\ 8 = larger(8, 8) BY DEF larger
  <2>a. PICK q : q = <<Loc(o, LEN8, 8)>> OBVIOUS
  <2>b. PICK p : p = <<Loc(o, LEN8, 8), Loc(o, LEN8, 8)>> OBVIOUS
  <2>c. p = q \o q BY <2>a, <2>b
  <2>d. overlapping(R(f, 8, q), R(f, 8, q)) = R(f, 8, p) BY OverlapResult, <2>8, <2>c DEF R
  <2>9. overlapping(Words(Chor(first, 1, 8)), Doublewords(Chor(first, 1, 8)))
          = R(o + LEN8, 8, <<Loc(o, LEN8, 8), Loc(o, LEN8, 8)>>)
    BY <2>5, <2>6, <2>7, <2>a, <2>b, <2>d
  <2> QED BY <2>4, <2>9 DEF WideViews
<1>10. ASSUME NEW f, NEW m, NEW q, NEW s, q[1] = Loc(0, LEN8, s)
       PROVE  FirstAlign(R(f, m, q)) = s
  BY <1>10 DEF FirstAlign, R, Result, Loc
<1>11. ASSUME NEW first \in {0, 1}, NEW hook \in {1, 2, 4, 8}, NEW o, o = IF first = 0 THEN 0 ELSE 8
       PROVE  OtherViews(Chor(first, 1, hook))
                = R(o + LEN8, 8, <<Loc(o, LEN8, 8), Loc(o, LEN8, 8), Loc(o, LEN8, 8)>>)
  <2>1. Halfwords(Choreographer) = R(LEN8, 2, <<Loc(0, LEN8, 2)>>)
    BY <1>1, <1>4, <1>5 DEF larger
  <2>2. WideViews(Choreographer) = R(LEN8, 8, <<Loc(0, LEN8, 8), Loc(0, LEN8, 8)>>)
    BY <1>1, <1>4, <1>9
  <2>3. FirstAlign(Halfwords(Choreographer)) = 2 /\ FirstAlign(WideViews(Choreographer)) = 8
    BY <2>1, <2>2, <1>10
  <2>4. 8 = larger(hook, larger(2, 8)) BY DEF larger
  <2>5. aligned(Chor(first, 1, hook), Halfwords(Choreographer), WideViews(Choreographer)) = Chor(first, 1, 8)
    BY <2>3, <2>4, <1>8
  <2>6. Halfwords(Chor(first, 1, 8)) = R(o + LEN8, 8, <<Loc(o, LEN8, 8)>>) BY <1>5, <1>11 DEF larger
  <2>7. WideViews(Chor(first, 1, 8)) = R(o + LEN8, 8, <<Loc(o, LEN8, 8), Loc(o, LEN8, 8)>>) BY <1>9, <1>11
  <2>8. PICK f : f = o + LEN8 OBVIOUS
  <2>9. f = larger(f, f) /\ 8 = larger(8, 8) BY DEF larger
  <2>a. PICK q : q = <<Loc(o, LEN8, 8)>> OBVIOUS
  <2>b. PICK p : p = <<Loc(o, LEN8, 8), Loc(o, LEN8, 8)>> OBVIOUS
  <2>c. PICK r : r = <<Loc(o, LEN8, 8), Loc(o, LEN8, 8), Loc(o, LEN8, 8)>> OBVIOUS
  <2>d. r = q \o p BY <2>a, <2>b, <2>c
  <2>e. overlapping(R(f, 8, q), R(f, 8, p)) = R(f, 8, r) BY OverlapResult, <2>9, <2>d DEF R
  <2>f. OtherViews(Chor(first, 1, hook))
          = overlapping(Halfwords(Chor(first, 1, 8)), WideViews(Chor(first, 1, 8)))
    BY <2>5 DEF OtherViews
  <2> QED BY <2>6, <2>7, <2>8, <2>a, <2>b, <2>c, <2>e, <2>f
<1>12. ASSUME NEW first \in {0, 1}, NEW hook \in {1, 2, 4, 8}, NEW o, o = IF first = 0 THEN 0 ELSE 8
       PROVE  MainMemoryLayout(Chor(first, 1, hook))
                = R(o + LEN8, 8, <<Loc(o, LEN8, 8), Loc(o, LEN8, 8), Loc(o, LEN8, 8), Loc(o, LEN8, 8)>>)
  <2>1. Bytes8(Choreographer) = R(LEN8, 1, <<Loc(0, LEN8, 1)>>)
    BY <1>1, <1>4, <1>5 DEF larger
  <2>2. OtherViews(Choreographer) = R(LEN8, 8, <<Loc(0, LEN8, 8), Loc(0, LEN8, 8), Loc(0, LEN8, 8)>>)
    BY <1>1, <1>4, <1>11
  <2>3. FirstAlign(Bytes8(Choreographer)) = 1 /\ FirstAlign(OtherViews(Choreographer)) = 8
    BY <2>1, <2>2, <1>10
  <2>4. 8 = larger(hook, larger(1, 8)) BY DEF larger
  <2>5. aligned(Chor(first, 1, hook), Bytes8(Choreographer), OtherViews(Choreographer)) = Chor(first, 1, 8)
    BY <2>3, <2>4, <1>8
  <2>6. Bytes8(Chor(first, 1, 8)) = R(o + LEN8, 8, <<Loc(o, LEN8, 8)>>) BY <1>5, <1>12 DEF larger
  <2>7. OtherViews(Chor(first, 1, 8)) = R(o + LEN8, 8, <<Loc(o, LEN8, 8), Loc(o, LEN8, 8), Loc(o, LEN8, 8)>>)
    BY <1>11, <1>12
  <2>8. PICK f : f = o + LEN8 OBVIOUS
  <2>9. f = larger(f, f) /\ 8 = larger(8, 8) BY DEF larger
  <2>a. PICK q : q = <<Loc(o, LEN8, 8)>> OBVIOUS
  <2>b. PICK p : p = <<Loc(o, LEN8, 8), Loc(o, LEN8, 8), Loc(o, LEN8, 8)>> OBVIOUS
  <2>c. PICK r : r = <<Loc(o, LEN8, 8), Loc(o, LEN8, 8), Loc(o, LEN8, 8), Loc(o, LEN8, 8)>> OBVIOUS
  <2>d. r = q \o p BY <2>a, <2>b, <2>c
  <2>e. overlapping(R(f, 8, q), R(f, 8, p)) = R(f, 8, r) BY OverlapResult, <2>9, <2>d DEF R
  <2>f. MainMemoryLayout(Chor(first, 1, hook))
          = overlapping(Bytes8(Chor(first, 1, 8)), OtherViews(Chor(first, 1, 8)))
    BY <2>5 DEF MainMemoryLayout
  <2> QED BY <2>6, <2>7, <2>8, <2>a, <2>b, <2>c, <2>e, <2>f
<1>13. Atom(Choreographer, 1) = R(1, 1, <<Loc(0, 1, 1)>>)
  <2>1. 1 = larger(1, 1) /\ 0 = align_address(0, 1) /\ 1 = 0 + 1 /\ 1 * 1 = 1
    BY DEF larger, align_address
  <2> QED BY <2>1, <1>4, AllocResult DEF Atom, Array, R
<1>14. R(1, 1, <<Loc(0, 1, 1)>>).ch = Chor(1, 1, 1) BY DEF R, Result
<1>15. MainMemoryLayout(Chor(1, 1, 1))
         = R(8 + LEN8, 8, <<Loc(8, LEN8, 8), Loc(8, LEN8, 8), Loc(8, LEN8, 8), Loc(8, LEN8, 8)>>)
  BY <1>12
<1>16. PaddedMemoryLayout(Choreographer) = R(8 + LEN8, 8, MemoryPlaces)
  <2>1. PaddedMemoryLayout(Choreographer)
          = Tuple2(R(1, 1, <<Loc(0, 1, 1)>>),
                   R(8 + LEN8, 8, <<Loc(8, LEN8, 8), Loc(8, LEN8, 8), Loc(8, LEN8, 8), Loc(8, LEN8, 8)>>))
    BY <1>13, <1>14, <1>15 DEF PaddedMemoryLayout
  <2>2. MemoryPlaces
          = <<Loc(0, 1, 1)>> \o <<Loc(8, LEN8, 8), Loc(8, LEN8, 8), Loc(8, LEN8, 8), Loc(8, LEN8, 8)>>
    BY DEF MemoryPlaces
  <2> QED BY <2>1, <2>2 DEF Tuple2, R, Result
<1>17. Placed("memory") = place(PaddedMemoryLayout(Choreographer)) BY DEF Placed
<1>18. 8 + LEN8 \in Nat \ {0} OBVIOUS
<1> QED BY <1>16, <1>17, <1>18, PlacedWell DEF R

LEMMA RegionsPlaced == Placed("regions").locations = RegionsPlaces /\ ~Placed("regions").panicked
<1>1. Choreographer = Chor(0, 1, 1) BY DEF Choreographer, Chor
<1>2. Array(Choreographer, 1, 3) = Result(Chor(3, 1, 1), <<Loc(0, 3, 1)>>)
  <2>1. 1 = larger(1, 1) /\ 0 = align_address(0, 1) /\ 1 * 3 = 3 /\ 3 = 0 + 3
    BY DEF larger, align_address
  <2> QED BY <1>1, <2>1, AllocResult DEF Array
<1>3. Array(Chor(3, 1, 1), 8, 2) = Result(Chor(24, 8, 1), <<Loc(8, 16, 8)>>)
  <2>1. 8 = larger(8, 1) /\ 8 = align_address(3, 8) /\ 8 = larger(1, 8) /\ 8 * 2 = 16 /\ 24 = 8 + 16
    BY DEF larger, align_address
  <2>2. PICK o : o = 8 OBVIOUS
  <2>3. PICK f : f = 24 OBVIOUS
  <2>4. o = align_address(3, 8) /\ f = o + 16 /\ 16 # 0 BY <2>1, <2>2, <2>3
  <2>5. alloc(Chor(3, 1, 1), 16, 8) = Result(Chor(f, 8, 1), <<Loc(o, 16, 8)>>)
    BY <2>1, <2>4, AllocResult
  <2> QED BY <2>1, <2>2, <2>3, <2>5 DEF Array
<1>4. Array(Chor(24, 8, 1), 4, 3) = Result(Chor(36, 8, 1), <<Loc(24, 12, 4)>>)
  <2>1. 4 = larger(4, 1) /\ 24 = align_address(24, 4) /\ 8 = larger(8, 4) /\ 4 * 3 = 12 /\ 36 = 24 + 12
    BY DEF larger, align_address
  <2> QED BY <2>1, AllocResult DEF Array
<1>5. RegionsLayout(Choreographer)
        = Tuple3(Result(Chor(3, 1, 1), <<Loc(0, 3, 1)>>), Result(Chor(24, 8, 1), <<Loc(8, 16, 8)>>),
                 Result(Chor(36, 8, 1), <<Loc(24, 12, 4)>>))
  BY <1>2, <1>3, <1>4 DEF RegionsLayout, Result
<1>6. RegionsLayout(Choreographer) = Result(Chor(36, 8, 1), RegionsPlaces)
  BY <1>5 DEF Tuple3, Tuple2, Result, RegionsPlaces
<1>7. Placed("regions") = place(RegionsLayout(Choreographer)) BY DEF Placed
<1> QED BY <1>6, <1>7, PlacedWell

-----------------------------------------------------------------------------
(* Regions, bit by bit.                                                    *)

\* The first bit of an element, and the element as the bits at a place.
Base(l, size, i) == 8 * (l.offset + i * size)
ElemBits(size) == 0 .. (8 * size - 1)

\* What RegionRead and RegionWrite do, bit by bit.
LEMMA ReadMember ==
  ASSUME NEW s, NEW l, NEW size \in Nat, NEW i, Base(l, size, i) \in Int
  PROVE  \A x : x \in RegionRead(s, l, size, i)
                  <=> x \in ElemBits(size) /\ Base(l, size, i) + x \in s
<1>1. PICK b \in Int : b = Base(l, size, i) OBVIOUS
<1>2. PICK w \in Int : w = 8 * size OBVIOUS
<1>3. RegionRead(s, l, size, i) = {y - b : y \in s \cap (b .. (b + w - 1))}
  BY <1>1, <1>2 DEF RegionRead, Bits, Base
<1>4. \A x : x \in {y - b : y \in s \cap (b .. (b + w - 1))} <=> x \in 0 .. w - 1 /\ b + x \in s
  <2>1. ASSUME NEW x, x \in 0 .. w - 1, b + x \in s
        PROVE  x \in {y - b : y \in s \cap (b .. (b + w - 1))}
    <3>1. (b + x) - b = x /\ b + x \in s \cap (b .. (b + w - 1)) BY <2>1
    <3> QED BY <3>1
  <2>2. ASSUME NEW x, x \in {y - b : y \in s \cap (b .. (b + w - 1))}
        PROVE  x \in 0 .. w - 1 /\ b + x \in s
    <3>1. PICK y \in s \cap (b .. (b + w - 1)) : x = y - b BY <2>2
    <3>2. b + x = y BY <3>1
    <3> QED BY <3>1, <3>2
  <2> QED BY <2>1, <2>2
<1> QED BY <1>1, <1>2, <1>3, <1>4 DEF ElemBits

LEMMA WriteMember ==
  ASSUME NEW s, NEW l, NEW size \in Nat, NEW i, Base(l, size, i) \in Int,
         NEW v, v \subseteq ElemBits(size)
  PROVE  \A y : y \in RegionWrite(s, l, size, i, v)
                  <=> \/ y \in s /\ y \notin Bits(l, size, i)
                      \/ y \in Bits(l, size, i) /\ y - Base(l, size, i) \in v
<1>1. PICK b \in Int : b = Base(l, size, i) OBVIOUS
<1>2. PICK w \in Int : w = 8 * size OBVIOUS
<1>3. Bits(l, size, i) = b .. (b + w - 1) BY <1>1, <1>2 DEF Bits, Base
<1>4. RegionWrite(s, l, size, i, v)
        = (s \ (b .. (b + w - 1))) \union {b + x : x \in {u \in v : u < w}}
  BY <1>1, <1>2, <1>3 DEF RegionWrite, Base
<1>5. \A y : y \in {b + x : x \in {u \in v : u < w}} <=> y \in b .. (b + w - 1) /\ y - b \in v
  <2>1. ASSUME NEW y, y \in {b + x : x \in {u \in v : u < w}}
        PROVE  y \in b .. (b + w - 1) /\ y - b \in v
    <3>1. PICK x \in v : x < w /\ y = b + x BY <2>1
    <3>2. x \in 0 .. w - 1 BY <3>1, <1>2 DEF ElemBits
    <3>3. y - b = x BY <3>1, <3>2
    <3> QED BY <3>1, <3>2, <3>3
  <2>2. ASSUME NEW y, y \in b .. (b + w - 1), y - b \in v
        PROVE  y \in {b + x : x \in {u \in v : u < w}}
    <3>1. y - b < w /\ b + (y - b) = y BY <2>2
    <3>2. y - b \in {u \in v : u < w} BY <3>1, <2>2
    <3> QED BY <3>1, <3>2
  <2> QED BY <2>1, <2>2
<1> QED BY <1>1, <1>3, <1>4, <1>5

\* An element that was written is read back.
LEMMA ReadWritten ==
  ASSUME NEW s, NEW l, NEW size \in Nat, NEW i, Base(l, size, i) \in Int,
         NEW v, v \subseteq ElemBits(size)
  PROVE  RegionRead(RegionWrite(s, l, size, i, v), l, size, i) = v
<1>1. PICK b \in Int : b = Base(l, size, i) OBVIOUS
<1>2. PICK w \in Int : w = 8 * size OBVIOUS
<1>3. Bits(l, size, i) = b .. (b + w - 1) BY <1>1, <1>2 DEF Bits, Base
<1>4. PICK t : t = RegionWrite(s, l, size, i, v) OBVIOUS
<1>5. \A y : y \in t <=> \/ y \in s /\ y \notin b .. (b + w - 1)
                         \/ y \in b .. (b + w - 1) /\ y - b \in v
  BY <1>1, <1>3, <1>4, WriteMember
<1>6. \A x : x \in RegionRead(t, l, size, i) <=> x \in 0 .. w - 1 /\ b + x \in t
  BY <1>1, <1>2, ReadMember DEF ElemBits
<1>7. ASSUME NEW x, x \in v PROVE x \in RegionRead(t, l, size, i)
  <2>1. x \in 0 .. w - 1 BY <1>7, <1>2 DEF ElemBits
  <2>2. b + x \in b .. (b + w - 1) /\ (b + x) - b = x BY <2>1
  <2> QED BY <1>5, <1>6, <1>7, <2>1, <2>2
<1>8. ASSUME NEW x, x \in RegionRead(t, l, size, i) PROVE x \in v
  <2>1. x \in 0 .. w - 1 /\ b + x \in t BY <1>6, <1>8
  <2>2. b + x \in b .. (b + w - 1) /\ (b + x) - b = x BY <2>1
  <2> QED BY <1>5, <2>1, <2>2
<1> QED BY <1>4, <1>7, <1>8

\* Two states that agree on the bits of an element agree on the element.
LEMMA ReadSame ==
  ASSUME NEW s, NEW t, NEW l, NEW size \in Nat, NEW i, Base(l, size, i) \in Int,
         \A y \in Bits(l, size, i) : y \in s <=> y \in t
  PROVE  RegionRead(s, l, size, i) = RegionRead(t, l, size, i)
<1>1. PICK b \in Int : b = Base(l, size, i) OBVIOUS
<1>2. PICK w \in Int : w = 8 * size OBVIOUS
<1>3. Bits(l, size, i) = b .. (b + w - 1) BY <1>1, <1>2 DEF Bits, Base
<1>4. \A x : x \in RegionRead(s, l, size, i) <=> x \in 0 .. w - 1 /\ b + x \in s
  BY <1>1, <1>2, ReadMember DEF ElemBits
<1>5. \A x : x \in RegionRead(t, l, size, i) <=> x \in 0 .. w - 1 /\ b + x \in t
  BY <1>1, <1>2, ReadMember DEF ElemBits
<1>6. \A x \in 0 .. w - 1 : b + x \in s <=> b + x \in t BY <1>3
<1> QED BY <1>4, <1>5, <1>6

\* A write leaves the elements alone whose bits are apart from its own.
LEMMA ReadOther ==
  ASSUME NEW s, NEW l, NEW size \in Nat, NEW i, Base(l, size, i) \in Int,
         NEW v, v \subseteq ElemBits(size),
         NEW m, NEW z \in Nat, NEW j, Base(m, z, j) \in Int,
         Bits(m, z, j) \cap Bits(l, size, i) = {}
  PROVE  RegionRead(RegionWrite(s, l, size, i, v), m, z, j) = RegionRead(s, m, z, j)
<1>1. PICK t : t = RegionWrite(s, l, size, i, v) OBVIOUS
<1>2. \A y : y \in t <=> \/ y \in s /\ y \notin Bits(l, size, i)
                         \/ y \in Bits(l, size, i) /\ y - Base(l, size, i) \in v
  BY <1>1, WriteMember
<1>3. \A y \in Bits(m, z, j) : y \notin Bits(l, size, i) OBVIOUS
<1>4. \A y \in Bits(m, z, j) : y \in s <=> y \in t BY <1>2, <1>3
<1> QED BY <1>1, <1>4, ReadSame

-----------------------------------------------------------------------------
(* The registers of the hart.                                              *)

\* Where the registers of the hart are, in bits of the storage.
XBits(r) == (64 * (r - 1)) .. (64 * (r - 1) + 63)
FBits(r) == (1984 + 64 * r) .. (1984 + 64 * r + 63)
CBits(r) == (4032 + 64 * r) .. (4032 + 64 * r + 63)
ModeBase == 266176
ModeBits == ModeBase .. (ModeBase + 7)

LEMMA BitsFrom ==
  ASSUME NEW l, NEW i, NEW b \in Int, b = Base(l, 8, i)
  PROVE  Bits(l, 8, i) = b .. (b + 63)
  BY DEF Bits, Base

LEMMA XPlace ==
  ASSUME places = HartPlaces, NEW r \in Int
  PROVE  Base(Location(1), 8, r - 1) \in Int /\ Bits(Location(1), 8, r - 1) = XBits(r)
<1>1. Location(1).offset = 0 BY DEF HartPlaces, Location, Loc
<1>2. PICK b \in Int : b = 64 * (r - 1) OBVIOUS
<1>3. b = Base(Location(1), 8, r - 1) BY <1>1, <1>2, SMT DEF Base
<1> QED BY <1>2, <1>3, BitsFrom DEF XBits

LEMMA FPlace ==
  ASSUME places = HartPlaces, NEW r \in Int
  PROVE  Base(Location(2), 8, r) \in Int /\ Bits(Location(2), 8, r) = FBits(r)
<1>1. Location(2).offset = 248 BY DEF HartPlaces, Location, Loc
<1>2. PICK b \in Int : b = 1984 + 64 * r OBVIOUS
<1>3. b = Base(Location(2), 8, r) BY <1>1, <1>2, SMT DEF Base
<1> QED BY <1>2, <1>3, BitsFrom DEF FBits

LEMMA CPlace ==
  ASSUME places = HartPlaces, NEW r \in Int
  PROVE  Base(Location(3), 8, r) \in Int /\ Bits(Location(3), 8, r) = CBits(r)
<1>1. Location(3).offset = 504 BY SMT DEF HartPlaces, Location, Loc
<1>2. PICK b \in Int : b = 4032 + 64 * r OBVIOUS
<1>3. b = Base(Location(3), 8, r) BY <1>1, <1>2, SMT DEF Base
<1> QED BY <1>2, <1>3, BitsFrom DEF CBits

LEMMA ModePlace ==
  ASSUME places = HartPlaces
  PROVE  Base(Location(4), 1, 0) \in Int /\ Bits(Location(4), 1, 0) = ModeBits
<1>1. Location(4).offset = 33272 BY SMT DEF HartPlaces, Location, Loc
<1>2. Base(Location(4), 1, 0) = ModeBase /\ ModeBase \in Int BY <1>1, SMT DEF Base, ModeBase
<1>3. PICK b \in Int : b = Base(Location(4), 1, 0) BY <1>2
<1>4. Bits(Location(4), 1, 0) = b .. (b + 7) BY <1>3, SMT DEF Bits, Base
<1> QED BY <1>2, <1>3, <1>4 DEF ModeBits

\* A storage that differs from another only in some bits.
Within(s, t, bits) == \A y : y \notin bits => (y \in s <=> y \in t)

\* What each register holds depends on its own bits.
LEMMA HartFrame ==
  ASSUME places = HartPlaces, NEW s, NEW t, NEW bits, Within(s, t, bits)
  PROVE  /\ \A csr \in Int : CBits(csr) \cap bits = {} => Cell(s, csr) = Cell(t, csr)
         /\ ModeBits \cap bits = {} => ModeOf(s) = ModeOf(t)
<1>1. ASSUME NEW csr \in Int, CBits(csr) \cap bits = {} PROVE Cell(s, csr) = Cell(t, csr)
  <2>1. \A y \in Bits(Location(3), 8, csr) : y \in s <=> y \in t BY <1>1, CPlace DEF Within
  <2>2. Base(Location(3), 8, csr) \in Int BY CPlace
  <2> QED BY <2>1, <2>2, ReadSame DEF Cell
<1>2. ASSUME ModeBits \cap bits = {} PROVE ModeOf(s) = ModeOf(t)
  <2>1. \A y \in Bits(Location(4), 1, 0) : y \in s <=> y \in t BY <1>2, ModePlace DEF Within
  <2>2. Base(Location(4), 1, 0) \in Int BY ModePlace
  <2>3. RegionRead(s, Location(4), 1, 0) = RegionRead(t, Location(4), 1, 0) BY <2>1, <2>2, ReadSame
  <2> QED BY <2>3 DEF ModeOf, CellRead
<1> QED BY <1>1, <1>2

\* The numbers of control registers.
Numbers == 0 .. 4095

\* Registers are apart.
LEMMA ApartX ==
  ASSUME NEW r \in 1 .. 31, NEW c \in Numbers
  PROVE  CBits(c) \cap XBits(r) = {} /\ ModeBits \cap XBits(r) = {}
  BY SMT DEF Numbers, XBits, CBits, ModeBits, ModeBase

LEMMA ApartF ==
  ASSUME NEW r \in 0 .. 31, NEW c \in Numbers
  PROVE  CBits(c) \cap FBits(r) = {} /\ ModeBits \cap FBits(r) = {}
  BY SMT DEF Numbers, FBits, CBits, ModeBits, ModeBase

LEMMA ApartC ==
  ASSUME NEW c \in Numbers, NEW d \in Numbers, c # d
  PROVE  CBits(c) \cap CBits(d) = {}
  BY SMT DEF Numbers, CBits

LEMMA ApartMode ==
  ASSUME NEW c \in Numbers
  PROVE  ModeBits \cap CBits(c) = {} /\ CBits(c) \cap ModeBits = {}
  BY SMT DEF Numbers, CBits, ModeBits, ModeBase

\* A cell is a 64-bit value, and a write of it changes its bits only.
LEMMA CellFacts ==
  ASSUME places = HartPlaces, NEW s, NEW csr \in Numbers, NEW v, v \subseteq AllBits
  PROVE  /\ Cell(s, csr) \subseteq AllBits
         /\ Cell(RegionWrite(s, Location(3), 8, csr, v), csr) = v
         /\ Within(s, RegionWrite(s, Location(3), 8, csr, v), CBits(csr))
<1>0. csr \in Int BY DEF Numbers
<1>1. Base(Location(3), 8, csr) \in Int /\ Bits(Location(3), 8, csr) = CBits(csr) BY <1>0, CPlace
<1>2. ElemBits(8) = AllBits BY DEF ElemBits, AllBits
<1>3. v \subseteq ElemBits(8) BY <1>2
<1>4. Cell(s, csr) \subseteq AllBits BY <1>1, <1>2, ReadMember DEF Cell
<1>5. Cell(RegionWrite(s, Location(3), 8, csr, v), csr) = v BY <1>1, <1>3, ReadWritten DEF Cell
<1>6. Within(s, RegionWrite(s, Location(3), 8, csr, v), CBits(csr))
  <2>1. PICK t : t = RegionWrite(s, Location(3), 8, csr, v) OBVIOUS
  <2>2. \A y : y \in t <=> \/ y \in s /\ y \notin CBits(csr)
                           \/ y \in CBits(csr) /\ y - Base(Location(3), 8, csr) \in v
    BY <2>1, <1>1, <1>3, WriteMember
  <2> QED BY <2>1, <2>2 DEF Within
<1> QED BY <1>4, <1>5, <1>6

LEMMA XFacts ==
  ASSUME places = HartPlaces, NEW s, NEW r \in 0 .. 31, NEW v, v \subseteq AllBits
  PROVE  /\ XRead(s, r) \subseteq AllBits
         /\ Within(s, XWrite(s, r, v), IF r = 0 THEN {} ELSE XBits(r))
         /\ Within(s, FWrite(s, r, v), FBits(r))
<1>1. r \in Int OBVIOUS
<1>2. ElemBits(8) = AllBits BY DEF ElemBits, AllBits
<1>3. v \subseteq ElemBits(8) BY <1>2
<1>4. XRead(s, r) \subseteq AllBits
  <2>1. CASE r = 0 BY <2>1 DEF XRead
  <2>2. CASE r # 0
    <3>1. Base(Location(1), 8, r - 1) \in Int BY <1>1, XPlace
    <3> QED BY <2>2, <3>1, <1>2, ReadMember DEF XRead
  <2> QED BY <2>1, <2>2
<1>5. Within(s, XWrite(s, r, v), IF r = 0 THEN {} ELSE XBits(r))
  <2>1. CASE r = 0 BY <2>1 DEF XWrite, Within
  <2>2. CASE r # 0
    <3>1. Base(Location(1), 8, r - 1) \in Int /\ Bits(Location(1), 8, r - 1) = XBits(r) BY <1>1, XPlace
    <3>2. PICK t : t = RegionWrite(s, Location(1), 8, r - 1, v) OBVIOUS
    <3>3. \A y : y \in t <=> \/ y \in s /\ y \notin XBits(r)
                             \/ y \in XBits(r) /\ y - Base(Location(1), 8, r - 1) \in v
      BY <3>1, <3>2, <1>3, WriteMember
    <3>4. XWrite(s, r, v) = t BY <2>2, <3>2 DEF XWrite
    <3> QED BY <2>2, <3>3, <3>4 DEF Within
  <2> QED BY <2>1, <2>2
<1>6. Within(s, FWrite(s, r, v), FBits(r))
  <2>1. Base(Location(2), 8, r) \in Int /\ Bits(Location(2), 8, r) = FBits(r) BY <1>1, FPlace
  <2>2. PICK t : t = RegionWrite(s, Location(2), 8, r, v) OBVIOUS
  <2>3. \A y : y \in t <=> \/ y \in s /\ y \notin FBits(r)
                           \/ y \in FBits(r) /\ y - Base(Location(2), 8, r) \in v
    BY <2>1, <2>2, <1>3, WriteMember
  <2> QED BY <2>2, <2>3 DEF FWrite, Within
<1> QED BY <1>4, <1>5, <1>6

LEMMA ModeFacts ==
  ASSUME places = HartPlaces, NEW s, NEW mode \in {0, 1, 3, 4}, NEW t,
         t = CellWrite(s, Location(4), 1, {b \in 0 .. 2 : (mode \div 2 ^ b) % 2 = 1})
  PROVE  ModeOf(t) = mode /\ Within(s, t, ModeBits)
<1> DEFINE v == {b \in 0 .. 2 : (mode \div 2 ^ b) % 2 = 1}
<1>1. Base(Location(4), 1, 0) \in Int /\ Bits(Location(4), 1, 0) = ModeBits BY ModePlace
<1>3. v \subseteq ElemBits(1) BY DEF ElemBits
<1>4. 2 ^ 0 = 1 /\ 2 ^ 1 = 2 /\ 2 ^ 2 = 4 OBVIOUS
<1>5. /\ 0 \in v <=> mode % 2 = 1
      /\ 1 \in v <=> (mode \div 2) % 2 = 1
      /\ 2 \in v <=> (mode \div 4) % 2 = 1
  BY <1>4
<1> HIDE DEF v
<1>6. RegionRead(t, Location(4), 1, 0) = v BY <1>1, <1>3, ReadWritten DEF CellWrite, v
<1>7. Within(s, t, ModeBits) BY <1>1, <1>3, WriteMember DEF CellWrite, Within, v
<1>8. ModeOf(t) = mode BY <1>5, <1>6 DEF ModeOf, CellRead
<1> QED BY <1>7, <1>8

-----------------------------------------------------------------------------
(* What a write to a control register lets through.                        *)

\* The fields of mstatus, bit by bit.
LEMMA FieldBits ==
  /\ SD = {63} /\ SXL = {34, 35} /\ UXL = {32, 33} /\ MPP = {11, 12}
  /\ XS = {15, 16} /\ FS = {13, 14} /\ VS = {9, 10}
  BY DEF SD, SXL, UXL, MPP, XS, FS, VS, Field

InMask(b) == b \in {63, 32, 33, 19, 18, 15, 16, 13, 14, 9, 10, 8, 6, 5, 1}
LEMMA SupervisorMask == \A b : b \in SSTATUS_FIELDS_MASK <=> InMask(b)
<1>1. /\ MXR = {19} /\ SUM = {18} /\ SPP = {8} /\ UBE = {6} /\ SPIE = {5} /\ SIE = {1}
  BY DEF MXR, SUM, SPP, UBE, SPIE, SIE, Field
<1>2. \A b : b \in SSTATUS_FIELDS_MASK
               <=> \E f \in {SD, UXL, MXR, SUM, XS, FS, VS, SPP, UBE, SPIE, SIE} : b \in f
  BY DEF SSTATUS_FIELDS_MASK
<1>3. \A b : b \in SSTATUS_FIELDS_MASK
               <=> \/ b \in SD \/ b \in UXL \/ b \in MXR \/ b \in SUM \/ b \in XS \/ b \in FS
                   \/ b \in VS \/ b \in SPP \/ b \in UBE \/ b \in SPIE \/ b \in SIE
  BY <1>2
<1> QED BY <1>1, <1>3, FieldBits DEF InMask

LEMMA MachineMask ==
  \A b : b \in MSTATUS_FIELDS_MASK
           <=> InMask(b) \/ b \in {37, 36, 34, 35, 22, 21, 20, 17, 11, 12, 7, 3}
<1>1. /\ MBE = {37} /\ SBE = {36} /\ TSR = {22} /\ TW = {21} /\ TVM = {20}
      /\ MPRV = {17} /\ MPIE = {7} /\ MIE = {3}
  BY DEF MBE, SBE, TSR, TW, TVM, MPRV, MPIE, MIE, Field
<1>2. \A b : b \in MSTATUS_FIELDS_MASK
               <=> \/ b \in SSTATUS_FIELDS_MASK
                   \/ \E f \in {MBE, SBE, SXL, TSR, TW, TVM, MPRV, MPP, MPIE, MIE} : b \in f
  BY DEF MSTATUS_FIELDS_MASK
<1>3. \A b : b \in MSTATUS_FIELDS_MASK
               <=> \/ InMask(b)
                   \/ b \in MBE \/ b \in SBE \/ b \in SXL \/ b \in TSR \/ b \in TW \/ b \in TVM
                   \/ b \in MPRV \/ b \in MPP \/ b \in MPIE \/ b \in MIE
  BY <1>2, SupervisorMask
<1> QED BY <1>1, <1>3, FieldBits

\* Some extension is dirty.
AnyDirty(v) == (15 \in v /\ 16 \in v) \/ (13 \in v /\ 14 \in v) \/ (9 \in v /\ 10 \in v)
LEMMA DirtyBits == \A v : (\E f \in {XS, FS, VS} : f \subseteq v) <=> AnyDirty(v)
  BY FieldBits DEF AnyDirty

\* What mstatus may hold, as FieldsLegal says it, and bit by bit.
StatusLegal(v) ==
  /\ SD \subseteq v <=> \E f \in {XS, FS, VS} : f \subseteq v
  /\ v \subseteq MSTATUS_FIELDS_MASK
  /\ v \cap MPP # {12}
  /\ v \cap SXL \in {{}, {35}} /\ v \cap UXL \in {{}, {33}}

StatusBits(v) ==
  /\ 63 \in v <=> AnyDirty(v)
  /\ v \subseteq MSTATUS_FIELDS_MASK
  /\ ~(12 \in v /\ 11 \notin v)
  /\ 34 \notin v /\ 32 \notin v

LEMMA StatusLegalBits == \A v : StatusLegal(v) <=> StatusBits(v)
<1> TAKE v
<1>1. SD \subseteq v <=> 63 \in v BY FieldBits
<1>2. v \cap MPP = {12} <=> 12 \in v /\ 11 \notin v BY FieldBits
<1>3. v \cap SXL \in {{}, {35}} <=> 34 \notin v BY FieldBits
<1>4. v \cap UXL \in {{}, {33}} <=> 32 \notin v BY FieldBits
<1> QED BY <1>1, <1>2, <1>3, <1>4, DirtyBits DEF StatusLegal, StatusBits

\* What the WARL rules make of the bits of sstatus and of mstatus.
LEMMA WarlSstatus ==
  ASSUME NEW x
  PROVE  \A b : b \in apply_warl_sstatus(x)
                  <=> IF b = 63 THEN AnyDirty(x)
                      ELSE IF b = 33 THEN TRUE ELSE IF b = 32 THEN FALSE ELSE b \in x
<1>1. (\E f \in {XS, FS, VS} : Dirty(x, f)) <=> AnyDirty(x) BY DirtyBits DEF Dirty
<1>2. apply_warl_sstatus(x)
        = SetField(SetField(x, SD, IF AnyDirty(x) THEN SD ELSE {}), UXL, {33})
  BY <1>1 DEF apply_warl_sstatus
<1>3. PICK u : u = SetField(x, SD, IF AnyDirty(x) THEN SD ELSE {}) OBVIOUS
<1>4. \A b : b \in u <=> IF b = 63 THEN AnyDirty(x) ELSE b \in x BY <1>3, FieldBits DEF SetField
<1>5. \A b : b \in SetField(u, UXL, {33})
               <=> IF b = 33 THEN TRUE ELSE IF b = 32 THEN FALSE ELSE b \in u
  BY FieldBits DEF SetField
<1> QED BY <1>2, <1>3, <1>4, <1>5

LEMMA WarlMstatus ==
  ASSUME NEW x
  PROVE  \A b : b \in apply_warl_mstatus(x)
                  <=> IF b = 35 THEN TRUE ELSE IF b = 34 THEN FALSE
                      ELSE IF b = 12 THEN 12 \in x /\ 11 \in x
                      ELSE b \in apply_warl_sstatus(x)
<1>1. PICK u : u = apply_warl_sstatus(x) OBVIOUS
<1>2. PICK v : v = SetField(u, SXL, {35}) OBVIOUS
<1>3. \A b : b \in v <=> IF b = 35 THEN TRUE ELSE IF b = 34 THEN FALSE ELSE b \in u
  BY <1>2, FieldBits DEF SetField
<1>4. (11 \in u <=> 11 \in x) /\ (12 \in u <=> 12 \in x) BY <1>1, WarlSstatus
<1>5. v \cap MPP = {12} <=> 12 \in x /\ 11 \notin x BY <1>3, <1>4, FieldBits
<1>6. apply_warl_mstatus(x) = IF v \cap MPP = {12} THEN SetField(v, MPP, {}) ELSE v
  BY <1>1, <1>2 DEF apply_warl_mstatus
<1>7. \A b : b \in SetField(v, MPP, {}) <=> b \in v /\ b # 11 /\ b # 12 BY FieldBits DEF SetField
<1>8. CASE v \cap MPP = {12} BY <1>1, <1>3, <1>4, <1>5, <1>6, <1>7, <1>8
<1>9. CASE v \cap MPP # {12} BY <1>1, <1>3, <1>4, <1>5, <1>6, <1>9
<1> QED BY <1>8, <1>9

\* A value written to mstatus is legal.
LEMMA MstatusWritable ==
  ASSUME NEW x, x \subseteq AllBits
  PROVE  /\ StatusLegal(apply_warl_mstatus(x \ wpri_fields(mstatus)))
         /\ apply_warl_mstatus(x \ wpri_fields(mstatus)) \subseteq AllBits
<1>1. PICK y : y = x \ wpri_fields(mstatus) OBVIOUS
<1>2. wpri_fields(mstatus) = {0, 2, 4} \union (23 .. 31) \union (38 .. 62)
  <2>1. Field(23, 9) = 23 .. 31 /\ Field(38, 25) = 38 .. 62 BY DEF Field
  <2>2. wpri_fields(mstatus) = {0, 2, 4} \union Field(23, 9) \union Field(38, 25)
    BY DEF wpri_fields, mstatus, menvcfg, mseccfg, sstatus, senvcfg
  <2> QED BY <2>1, <2>2
<1>3. \A b \in y : InMask(b) \/ b \in {37, 36, 34, 35, 22, 21, 20, 17, 11, 12, 7, 3}
  BY <1>1, <1>2 DEF InMask, AllBits
<1>4. PICK u : u = apply_warl_sstatus(y) OBVIOUS
<1>5. PICK w : w = apply_warl_mstatus(y) OBVIOUS
<1>6. \A b : b \in u <=> IF b = 63 THEN AnyDirty(y)
                         ELSE IF b = 33 THEN TRUE ELSE IF b = 32 THEN FALSE ELSE b \in y
  BY <1>4, WarlSstatus
<1>7. \A b : b \in w <=> IF b = 35 THEN TRUE ELSE IF b = 34 THEN FALSE
                         ELSE IF b = 12 THEN 12 \in y /\ 11 \in y ELSE b \in u
  BY <1>4, <1>5, WarlMstatus
<1>8. AnyDirty(w) <=> AnyDirty(y) BY <1>6, <1>7 DEF AnyDirty
<1>9. 63 \in w <=> AnyDirty(y) BY <1>6, <1>7
<1>10. \A b \in w : InMask(b) \/ b \in {37, 36, 34, 35, 22, 21, 20, 17, 11, 12, 7, 3}
  <2> SUFFICES ASSUME NEW b \in w
               PROVE  InMask(b) \/ b \in {37, 36, 34, 35, 22, 21, 20, 17, 11, 12, 7, 3}
    OBVIOUS
  <2>1. b \in y \/ b \in {63, 33, 35, 12} BY <1>6, <1>7
  <2> QED BY <2>1, <1>3 DEF InMask
<1>11. w \subseteq MSTATUS_FIELDS_MASK BY <1>10, MachineMask
<1>12. StatusBits(w) BY <1>6, <1>7, <1>8, <1>9, <1>11 DEF StatusBits
<1>13. w \subseteq AllBits BY <1>10 DEF InMask, AllBits
<1> QED BY <1>1, <1>5, <1>12, <1>13, StatusLegalBits

\* A value written to sstatus leaves mstatus legal.
Merged(w, c) == sstatus_from_mstatus(w) \union (c \ SSTATUS_FIELDS_MASK)
LEMMA SstatusWritable ==
  ASSUME NEW x, NEW c, StatusLegal(c), c \subseteq AllBits
  PROVE  /\ StatusLegal(Merged(apply_warl_sstatus(x), c))
         /\ Merged(apply_warl_sstatus(x), c) \subseteq AllBits
         /\ Merged(apply_warl_sstatus(x), c) \ SSTATUS_FIELDS_MASK = c \ SSTATUS_FIELDS_MASK
<1>1. PICK u : u = apply_warl_sstatus(x) OBVIOUS
<1>2. PICK w : w = Merged(u, c) OBVIOUS
<1>3. \A b : b \in w <=> IF InMask(b) THEN b \in u ELSE b \in c
  BY <1>2, SupervisorMask DEF Merged, sstatus_from_mstatus
<1>4. \A b : b \in u <=> IF b = 63 THEN AnyDirty(x)
                         ELSE IF b = 33 THEN TRUE ELSE IF b = 32 THEN FALSE ELSE b \in x
  BY <1>1, WarlSstatus
<1>5. AnyDirty(u) <=> AnyDirty(x) BY <1>4 DEF AnyDirty
<1>6. AnyDirty(w) <=> AnyDirty(u) BY <1>3 DEF AnyDirty, InMask
<1>7. 63 \in w <=> 63 \in u BY <1>3 DEF InMask
<1>8. 63 \in u <=> AnyDirty(x) BY <1>4
<1>9. StatusBits(c) BY StatusLegalBits
<1>10. w \subseteq MSTATUS_FIELDS_MASK BY <1>3, <1>9, MachineMask DEF StatusBits
<1>11. ~(12 \in w /\ 11 \notin w) /\ 34 \notin w BY <1>3, <1>9 DEF StatusBits, InMask
<1>12. 32 \notin w BY <1>3, <1>4 DEF InMask
<1>13. StatusBits(w) BY <1>5, <1>6, <1>7, <1>8, <1>10, <1>11, <1>12 DEF StatusBits
<1>14. w \subseteq AllBits
  <2> SUFFICES ASSUME NEW b \in w PROVE b \in AllBits OBVIOUS
  <2>1. CASE InMask(b) BY <2>1 DEF InMask, AllBits
  <2>2. CASE ~InMask(b) BY <2>2, <1>3
  <2> QED BY <2>1, <2>2
<1>15. w \ SSTATUS_FIELDS_MASK = c \ SSTATUS_FIELDS_MASK BY <1>3, SupervisorMask
<1> QED BY <1>1, <1>2, <1>13, <1>14, <1>15, StatusLegalBits

\* What another register may hold, as FieldsLegal says it.
Writable(csr, v) ==
  v \in {{}} \union {make_value_writable(csr, v)[k] : k \in DOMAIN make_value_writable(csr, v)}

\* A value that a write lets through is one that it would let through again.
LEMMA WritableAgain ==
  ASSUME NEW csr, csr \notin {mstatus, sstatus}, NEW x, x \subseteq AllBits, NEW w,
         make_value_writable(csr, x) # <<>>, w = make_value_writable(csr, x)[1]
  PROVE  Writable(csr, w) /\ w \subseteq AllBits
<1>1. PICK v : v = transform_warl_fields(csr, clear_wpri_fields(csr, x)) OBVIOUS
<1>2. make_value_writable(csr, x) = v /\ v # <<>> /\ is_legal(csr, v[1])
  BY <1>1 DEF make_value_writable
<1>3. v[1] = w BY <1>2
<1>4. transform_warl_fields(csr, clear_wpri_fields(csr, w)) = <<w>> /\ w \subseteq AllBits
  <2>1. CASE csr = misa
    <3>1. \A z : transform_warl_fields(csr, z) = <<WARL_MISA_VALUE>>
      BY <2>1 DEF transform_warl_fields, misa, satp, mstatus, sstatus
    <3>2. w = WARL_MISA_VALUE BY <1>1, <1>3, <3>1
    <3> QED BY <3>1, <3>2 DEF WARL_MISA_VALUE, AllBits
  <2>2. CASE csr = satp
    <3>1. \A z : clear_wpri_fields(csr, z) = z
      BY <2>2 DEF clear_wpri_fields, wpri_fields, satp, mstatus, menvcfg, mseccfg, sstatus, senvcfg
    <3>2. \A z : transform_warl_fields(csr, z) = transform_satp(z)
      BY <2>2 DEF transform_warl_fields, satp, misa
    <3>3. v = transform_satp(x) BY <1>1, <3>1, <3>2
    <3>4. CASE x \cap (60 .. 63) \in satp_modes
      <4>1. v = <<x>> BY <3>3, <3>4 DEF transform_satp
      <4> QED BY <4>1, <1>3, <3>1, <3>2, <3>3
    <3>5. CASE x \cap (60 .. 63) \notin satp_modes
      <4>1. x \cap (60 .. 63) = {} /\ v = << {} >> BY <1>2, <3>3, <3>5 DEF transform_satp
      <4>2. w = {} BY <4>1, <1>3
      <4>3. {} \cap (60 .. 63) = {} OBVIOUS
      <4>4. {} \notin satp_modes BY DEF satp_modes
      <4>5. transform_satp({}) = << {} >> BY <4>3, <4>4 DEF transform_satp
      <4> QED BY <4>2, <4>5, <3>1, <3>2
    <3> QED BY <3>4, <3>5
  <2>3. CASE csr \notin {misa, satp}
    <3>1. \A z : transform_warl_fields(csr, z) = <<z \cap warl_mask(csr)>>
      BY <2>3 DEF transform_warl_fields
    <3>2. w = (x \ wpri_fields(csr)) \cap warl_mask(csr)
      BY <1>1, <1>3, <3>1 DEF clear_wpri_fields
    <3>3. (w \ wpri_fields(csr)) \cap warl_mask(csr) = w BY <3>2
    <3> QED BY <3>1, <3>2, <3>3 DEF clear_wpri_fields
  <2> QED BY <2>1, <2>2, <2>3
<1>5. make_value_writable(csr, w) = <<w>>
  <2>1. <<w>> # <<>> /\ <<w>>[1] = w OBVIOUS
  <2> QED BY <1>2, <1>3, <1>4, <2>1 DEF make_value_writable
<1>6. 1 \in DOMAIN <<w>> /\ <<w>>[1] = w OBVIOUS
<1> QED BY <1>4, <1>5, <1>6 DEF Writable

\* What a write makes of a value of mstatus or of sstatus: one value.
LEMMA StatusWritten ==
  ASSUME NEW x
  PROVE  /\ make_value_writable(mstatus, x) = <<apply_warl_mstatus(x \ wpri_fields(mstatus))>>
         /\ make_value_writable(sstatus, x) = <<apply_warl_sstatus(x \ wpri_fields(sstatus))>>
<1>1. legal_values(mstatus) = {} /\ legal_values(sstatus) = {}
  BY DEF legal_values, mstatus, sstatus, mcause, scause
<1>2. \A z : transform_warl_fields(mstatus, z) = <<apply_warl_mstatus(z)>>
  BY DEF transform_warl_fields, mstatus, sstatus, misa, satp
<1>3. \A z : transform_warl_fields(sstatus, z) = <<apply_warl_sstatus(z)>>
  BY DEF transform_warl_fields, mstatus, sstatus, misa, satp
<1>4. \A z : <<z>> # <<>> OBVIOUS
<1> QED BY <1>1, <1>2, <1>3, <1>4 DEF make_value_writable, clear_wpri_fields, is_legal

-----------------------------------------------------------------------------
(* Writes to control registers.                                            *)

\* What the registers of the hart hold, whatever instructions wrote them.
Registers(s) ==
  /\ StatusLegal(Cell(s, mstatus))
  /\ Cell(s, sstatus) = {}
  /\ \A csr \in Numbers \ {mstatus, sstatus} : Writable(csr, Cell(s, csr))
  /\ ModeOf(s) \in {0, 1, 3, 4}

\* sstatus is stored in mstatus.
Target(csr) == IF csr = sstatus THEN mstatus ELSE csr

\* The registers depend on the cells and on the mode.
LEMMA RegistersSame ==
  ASSUME NEW s, NEW t, Registers(s), ModeOf(t) = ModeOf(s),
         \A c \in Numbers : Cell(t, c) = Cell(s, c)
  PROVE  Registers(t)
<1>1. mstatus \in Numbers /\ sstatus \in Numbers BY DEF Numbers, mstatus, sstatus
<1>2. Cell(t, mstatus) = Cell(s, mstatus) /\ Cell(t, sstatus) = Cell(s, sstatus) BY <1>1
<1>3. ASSUME NEW csr \in Numbers \ {mstatus, sstatus} PROVE Writable(csr, Cell(t, csr))
  <2>1. Cell(t, csr) = Cell(s, csr) BY <1>3
  <2> QED BY <2>1, <1>3 DEF Registers
<1> QED BY <1>2, <1>3 DEF Registers

\* A write to a cell changes that cell and no other, and not the mode.
LEMMA CellWritten ==
  ASSUME places = HartPlaces, NEW s, NEW d \in Numbers, NEW v, v \subseteq AllBits, NEW t,
         t = RegionWrite(s, Location(3), 8, d, v)
  PROVE  /\ Cell(t, d) = v
         /\ \A c \in Numbers : c # d => Cell(t, c) = Cell(s, c)
         /\ ModeOf(t) = ModeOf(s)
         /\ Within(s, t, CBits(d))
<1>1. Cell(t, d) = v /\ Within(s, t, CBits(d)) BY CellFacts
<1>2. ASSUME NEW c \in Numbers, c # d PROVE Cell(t, c) = Cell(s, c)
  <2>1. CBits(c) \cap CBits(d) = {} BY <1>2, ApartC
  <2>2. c \in Int BY DEF Numbers
  <2> QED BY <1>1, <2>1, <2>2, HartFrame
<1>3. ModeOf(t) = ModeOf(s)
  <2>1. ModeBits \cap CBits(d) = {} BY ApartMode
  <2> QED BY <1>1, <2>1, HartFrame
<1> QED BY <1>1, <1>2, <1>3

LEMMA CSRWriteFacts ==
  ASSUME places = HartPlaces, NEW s, Registers(s), NEW csr \in Numbers,
         NEW x, x \subseteq AllBits, NEW t, t = CSRWrite(s, csr, x)
  PROVE  /\ Registers(t)
         /\ ModeOf(t) = ModeOf(s)
         /\ \A c \in Numbers : c # Target(csr) => Cell(t, c) = Cell(s, c)
         /\ csr = sstatus => Cell(t, mstatus) \ SSTATUS_FIELDS_MASK
                               = Cell(s, mstatus) \ SSTATUS_FIELDS_MASK
         /\ Within(s, t, CBits(Target(csr)))
<1>0. mstatus \in Numbers /\ sstatus \in Numbers /\ mstatus # sstatus BY DEF Numbers, mstatus, sstatus
<1>1. CASE csr = sstatus
  <2>1. PICK w : w = apply_warl_sstatus(x \ wpri_fields(sstatus)) OBVIOUS
  <2>2. make_value_writable(csr, x) = <<w>> BY <1>1, <2>1, StatusWritten
  <2>3. <<w>> # <<>> /\ <<w>>[1] = w OBVIOUS
  <2>4. PICK v : v = Merged(w, Cell(s, mstatus)) OBVIOUS
  <2>5. transform_write(s, csr, w) = <<mstatus, v>> BY <1>1, <2>4 DEF transform_write, Merged
  <2>6. <<mstatus, v>>[1] = mstatus /\ <<mstatus, v>>[2] = v OBVIOUS
  <2>7. t = RegionWrite(s, Location(3), 8, mstatus, v)
    BY <2>2, <2>3, <2>5, <2>6 DEF CSRWrite
  <2>8. Cell(s, mstatus) \subseteq AllBits
    <3>1. {} \subseteq AllBits OBVIOUS
    <3> QED BY <1>0, <3>1, CellFacts
  <2>9. /\ StatusLegal(v) /\ v \subseteq AllBits
        /\ v \ SSTATUS_FIELDS_MASK = Cell(s, mstatus) \ SSTATUS_FIELDS_MASK
    BY <2>1, <2>4, <2>8, SstatusWritable DEF Registers
  <2>10. /\ Cell(t, mstatus) = v
         /\ \A c \in Numbers : c # mstatus => Cell(t, c) = Cell(s, c)
         /\ ModeOf(t) = ModeOf(s)
         /\ Within(s, t, CBits(mstatus))
    BY <1>0, <2>7, <2>9, CellWritten
  <2>11. Registers(t)
    <3>1. Cell(t, sstatus) = {} BY <1>0, <2>10 DEF Registers
    <3>2. ASSUME NEW c \in Numbers \ {mstatus, sstatus} PROVE Writable(c, Cell(t, c))
      <4>1. Cell(t, c) = Cell(s, c) BY <3>2, <2>10
      <4> QED BY <3>2, <4>1 DEF Registers
    <3> QED BY <2>9, <2>10, <3>1, <3>2 DEF Registers
  <2> QED BY <1>1, <2>9, <2>10, <2>11 DEF Target
<1>2. CASE csr = mstatus
  <2>1. PICK v : v = apply_warl_mstatus(x \ wpri_fields(mstatus)) OBVIOUS
  <2>2. make_value_writable(csr, x) = <<v>> BY <1>2, <2>1, StatusWritten
  <2>3. <<v>> # <<>> /\ <<v>>[1] = v OBVIOUS
  <2>5. transform_write(s, csr, v) = <<mstatus, v>> BY <1>0, <1>2 DEF transform_write
  <2>6. <<mstatus, v>>[1] = mstatus /\ <<mstatus, v>>[2] = v OBVIOUS
  <2>7. t = RegionWrite(s, Location(3), 8, mstatus, v)
    BY <2>2, <2>3, <2>5, <2>6 DEF CSRWrite
  <2>9. StatusLegal(v) /\ v \subseteq AllBits BY <2>1, MstatusWritable
  <2>10. /\ Cell(t, mstatus) = v
         /\ \A c \in Numbers : c # mstatus => Cell(t, c) = Cell(s, c)
         /\ ModeOf(t) = ModeOf(s)
         /\ Within(s, t, CBits(mstatus))
    BY <1>0, <2>7, <2>9, CellWritten
  <2>11. Registers(t)
    <3>1. Cell(t, sstatus) = {} BY <1>0, <2>10 DEF Registers
    <3>2. ASSUME NEW c \in Numbers \ {mstatus, sstatus} PROVE Writable(c, Cell(t, c))
      <4>1. Cell(t, c) = Cell(s, c) BY <3>2, <2>10
      <4> QED BY <3>2, <4>1 DEF Registers
    <3> QED BY <2>9, <2>10, <3>1, <3>2 DEF Registers
  <2> QED BY <1>0, <1>2, <2>10, <2>11 DEF Target
<1>3. CASE csr \notin {mstatus, sstatus} /\ make_value_writable(csr, x) = <<>>
  <2>1. t = s BY <1>3 DEF CSRWrite
  <2> QED BY <2>1, <1>3 DEF Within
<1>4. CASE csr \notin {mstatus, sstatus} /\ make_value_writable(csr, x) # <<>>
  <2>1. PICK v : v = make_value_writable(csr, x)[1] OBVIOUS
  <2>2. Writable(csr, v) /\ v \subseteq AllBits BY <1>4, <2>1, WritableAgain
  <2>5. transform_write(s, csr, v) = <<csr, v>> BY <1>4 DEF transform_write
  <2>6. <<csr, v>>[1] = csr /\ <<csr, v>>[2] = v OBVIOUS
  <2>7. t = RegionWrite(s, Location(3), 8, csr, v)
    BY <1>4, <2>1, <2>5, <2>6 DEF CSRWrite
  <2>10. /\ Cell(t, csr) = v
         /\ \A c \in Numbers : c # csr => Cell(t, c) = Cell(s, c)
         /\ ModeOf(t) = ModeOf(s)
         /\ Within(s, t, CBits(csr))
    BY <2>2, <2>7, CellWritten
  <2>11. Registers(t)
    <3>1. Cell(t, sstatus) = {} /\ Cell(t, mstatus) = Cell(s, mstatus)
      BY <1>0, <1>4, <2>10 DEF Registers
    <3>2. ASSUME NEW c \in Numbers \ {mstatus, sstatus} PROVE Writable(c, Cell(t, c))
      <4>1. CASE c = csr BY <4>1, <2>2, <2>10
      <4>2. CASE c # csr
        <5>1. Cell(t, c) = Cell(s, c) BY <3>2, <4>2, <2>10
        <5> QED BY <3>2, <5>1 DEF Registers
      <4> QED BY <4>1, <4>2
    <3> QED BY <2>10, <3>1, <3>2 DEF Registers
  <2> QED BY <1>4, <2>10, <2>11 DEF Target
<1> QED BY <1>1, <1>2, <1>3, <1>4

\* Reads of control registers are 64-bit values, also the one that replace hands back.
LEMMA CSRReadBits ==
  ASSUME places = HartPlaces, NEW s, NEW csr \in Numbers
  PROVE  CSRRead(s, csr) \subseteq AllBits
<1>0. mstatus \in Numbers BY DEF Numbers, mstatus
<1>1. {} \subseteq AllBits OBVIOUS
<1>2. Cell(s, mstatus) \subseteq AllBits /\ Cell(s, csr) \subseteq AllBits BY <1>0, <1>1, CellFacts
<1>3. CSRRead(s, csr) \in {Cell(s, mstatus) \cap SSTATUS_FIELDS_MASK, Cell(s, mstatus), Cell(s, csr)}
  BY DEF CSRRead, transform_read, sstatus_from_mstatus
<1> QED BY <1>2, <1>3

LEMMA ReplaceFacts ==
  ASSUME places = HartPlaces, NEW s, NEW csr \in Numbers, NEW x
  PROVE  /\ replace(s, csr, x).storage = CSRWrite(s, csr, x)
         /\ replace(s, csr, x).old \subseteq AllBits
<1>0. mstatus \in Numbers BY DEF Numbers, mstatus
<1>1. {} \subseteq AllBits OBVIOUS
<1>2. PICK v : v = make_value_writable(csr, x) OBVIOUS
<1>3. CASE v = <<>>
  <2>1. replace(s, csr, x) = [storage |-> s, old |-> CSRRead(s, csr)] BY <1>2, <1>3 DEF replace
  <2>2. CSRWrite(s, csr, x) = s BY <1>2, <1>3 DEF CSRWrite
  <2> QED BY <2>1, <2>2, CSRReadBits
<1>4. CASE v # <<>>
  <2>1. PICK d, u : d = transform_write(s, csr, v[1])[1] /\ u = transform_write(s, csr, v[1])[2]
    OBVIOUS
  <2>2. d \in Numbers
    <3>1. CASE csr = sstatus BY <3>1, <2>1, <1>0 DEF transform_write
    <3>2. CASE csr # sstatus BY <3>2, <2>1 DEF transform_write
    <3> QED BY <3>1, <3>2
  <2>3. PICK t : t = RegionWrite(s, Location(3), 8, d, u) OBVIOUS
  <2>4. PICK o : o = RegionRead(s, Location(3), 8, d) OBVIOUS
  <2>5. RegionReplace(s, Location(3), 8, d, u) = [old |-> o, storage |-> t]
    BY <2>3, <2>4 DEF RegionReplace
  <2>6. replace(s, csr, x) = [storage |-> t, old |-> transform_read(t, csr, <<o>>)]
    BY <1>2, <1>4, <2>1, <2>5 DEF replace
  <2>7. CSRWrite(s, csr, x) = t BY <1>2, <1>4, <2>1, <2>3 DEF CSRWrite
  <2>8. o \subseteq AllBits BY <2>2, <2>4, <1>1, CellFacts DEF Cell
  <2>9. Cell(t, csr) \subseteq AllBits BY <1>1, CellFacts
  <2>10. <<o>> # <<>> /\ <<o>>[1] = o OBVIOUS
  <2>11. transform_read(t, csr, <<o>>) \in {o \cap SSTATUS_FIELDS_MASK, o, Cell(t, csr)}
    BY <2>10 DEF transform_read, sstatus_from_mstatus
  <2> QED BY <2>6, <2>7, <2>8, <2>9, <2>11
<1> QED BY <1>3, <1>4

-----------------------------------------------------------------------------
(* What the operations of the hart do.                                     *)

\* The bits that an operation names: those of a control register, and those of
\* its destination.
Touched(csr) == IF csr = NoCSR THEN {} ELSE CBits(Target(csr))
Destination(rd) == IF rd = 0 THEN {} ELSE IF rd < 32 THEN XBits(rd) ELSE FBits(rd - 32)

\* What an operation that is not write_mode may do to the storage.
Effect(s, t, csr, rd) ==
  /\ Registers(t)
  /\ ModeOf(t) = ModeOf(s)
  /\ Within(s, t, Touched(csr) \union Destination(rd))
  /\ \A c \in Numbers :
       \/ Cell(t, c) = Cell(s, c)
       \/ /\ csr \in Numbers /\ c = Target(csr) /\ check_privilege(csr, ModeOf(s))
          /\ csr = sstatus => Cell(t, mstatus) \ SSTATUS_FIELDS_MASK
                                = Cell(s, mstatus) \ SSTATUS_FIELDS_MASK

LEMMA NoEffect ==
  ASSUME NEW s, Registers(s), NEW csr, NEW rd
  PROVE  Effect(s, s, csr, rd)
  BY DEF Effect, Within

LEMMA XEffect ==
  ASSUME places = HartPlaces, NEW s, Registers(s), NEW r \in 0 .. 31, NEW v, v \subseteq AllBits
  PROVE  Effect(s, XWrite(s, r, v), NoCSR, r)
<1>1. PICK t : t = XWrite(s, r, v) OBVIOUS
<1>2. CASE r = 0
  <2>1. t = s BY <1>1, <1>2 DEF XWrite
  <2> QED BY <1>1, <2>1, NoEffect
<1>3. CASE r # 0
  <2>1. Within(s, t, XBits(r)) BY <1>1, <1>3, XFacts
  <2>2. r \in 1 .. 31 BY <1>3
  <2>3. ASSUME NEW c \in Numbers PROVE Cell(t, c) = Cell(s, c)
    <3>1. CBits(c) \cap XBits(r) = {} BY <2>2, ApartX
    <3>2. c \in Int BY DEF Numbers
    <3> QED BY <2>1, <3>1, <3>2, HartFrame
  <2>4. 0 \in Numbers BY DEF Numbers
  <2>5. ModeBits \cap XBits(r) = {} BY <2>2, <2>4, ApartX
  <2>6. ModeOf(t) = ModeOf(s) BY <2>1, <2>5, HartFrame
  <2>7. Registers(t) BY <2>3, <2>6, RegistersSame
  <2>8. Destination(r) = XBits(r) BY <2>2 DEF Destination
  <2>9. Within(s, t, Touched(NoCSR) \union Destination(r)) BY <2>1, <2>8 DEF Within
  <2> QED BY <1>1, <2>3, <2>6, <2>7, <2>9 DEF Effect
<1> QED BY <1>2, <1>3

LEMMA FEffect ==
  ASSUME places = HartPlaces, NEW s, Registers(s), NEW r \in 0 .. 31, NEW v, v \subseteq AllBits
  PROVE  Effect(s, FWrite(s, r, v), NoCSR, 32 + r)
<1>1. PICK t : t = FWrite(s, r, v) OBVIOUS
<1>2. Within(s, t, FBits(r)) BY <1>1, XFacts
<1>3. ASSUME NEW c \in Numbers PROVE Cell(t, c) = Cell(s, c)
  <2>1. CBits(c) \cap FBits(r) = {} BY ApartF
  <2>2. c \in Int BY DEF Numbers
  <2> QED BY <1>2, <2>1, <2>2, HartFrame
<1>4. 0 \in Numbers BY DEF Numbers
<1>5. ModeBits \cap FBits(r) = {} BY <1>4, ApartF
<1>6. ModeOf(t) = ModeOf(s) BY <1>2, <1>5, HartFrame
<1>7. Registers(t) BY <1>3, <1>6, RegistersSame
<1>8. Destination(32 + r) = FBits(r)
  <2>1. (32 + r) - 32 = r /\ 32 + r # 0 /\ ~(32 + r < 32) OBVIOUS
  <2> QED BY <2>1 DEF Destination
<1>9. Within(s, t, Touched(NoCSR) \union Destination(32 + r)) BY <1>2, <1>8 DEF Within
<1> QED BY <1>1, <1>3, <1>6, <1>7, <1>9 DEF Effect

LEMMA CSREffect ==
  ASSUME places = HartPlaces, NEW s, Registers(s), NEW csr \in Numbers,
         check_privilege(csr, ModeOf(s)), NEW x, x \subseteq AllBits
  PROVE  Effect(s, CSRWrite(s, csr, x), csr, 0)
<1>1. PICK t : t = CSRWrite(s, csr, x) OBVIOUS
<1>2. /\ Registers(t)
      /\ ModeOf(t) = ModeOf(s)
      /\ \A c \in Numbers : c # Target(csr) => Cell(t, c) = Cell(s, c)
      /\ csr = sstatus => Cell(t, mstatus) \ SSTATUS_FIELDS_MASK
                            = Cell(s, mstatus) \ SSTATUS_FIELDS_MASK
      /\ Within(s, t, CBits(Target(csr)))
  BY <1>1, CSRWriteFacts
<1>3. csr # NoCSR BY DEF Numbers, NoCSR
<1>4. Within(s, t, Touched(csr) \union Destination(0)) BY <1>2, <1>3 DEF Within, Touched, Destination
<1> QED BY <1>1, <1>2, <1>4 DEF Effect

LEMMA EffectChain ==
  ASSUME NEW s, NEW u, NEW t, NEW csr, NEW rd, Effect(s, u, csr, 0), Effect(u, t, NoCSR, rd)
  PROVE  Effect(s, t, csr, rd)
<1>1. NoCSR \notin Numbers BY DEF Numbers, NoCSR
<1>2. \A c \in Numbers : Cell(t, c) = Cell(u, c) BY <1>1 DEF Effect
<1>3. mstatus \in Numbers BY DEF Numbers, mstatus
<1>4. Within(s, t, Touched(csr) \union Destination(rd))
  <2>1. Touched(NoCSR) = {} /\ Destination(0) = {} BY DEF Touched, Destination
  <2> QED BY <2>1 DEF Effect, Within
<1>5. Cell(t, mstatus) = Cell(u, mstatus) BY <1>2, <1>3
<1>6. ASSUME NEW c \in Numbers
      PROVE  \/ Cell(t, c) = Cell(s, c)
             \/ /\ csr \in Numbers /\ c = Target(csr) /\ check_privilege(csr, ModeOf(s))
                /\ csr = sstatus => Cell(t, mstatus) \ SSTATUS_FIELDS_MASK
                                      = Cell(s, mstatus) \ SSTATUS_FIELDS_MASK
  BY <1>2, <1>5, <1>6 DEF Effect
<1> QED BY <1>4, <1>6 DEF Effect

\* What the instructions on control registers do.
LEMMA OpFields ==
  ASSUME NEW n, NEW c, NEW r, NEW o
  PROVE  Op(n, c, r, o).name = n /\ Op(n, c, r, o).csr = c /\ Op(n, c, r, o).rd = r
         /\ Op(n, c, r, o).outcome = o
  BY DEF Op

HartOutcome(csr, rd) ==
  /\ last'.csr = csr /\ last'.rd = rd
  /\ last'.name \notin {"write_mode", "place"} /\ last'.outcome # "unplaced"
  /\ Effect(storage, storage', csr, rd)

LEMMA ReplaceOutcome ==
  ASSUME places = HartPlaces, Registers(storage), NEW csr \in Numbers, NEW rd \in 0 .. 31,
         NEW value, value \subseteq AllBits, csr_replace(csr, value, rd)
  PROVE  HartOutcome(csr, rd)
<1>1. CASE ~check_privilege(csr, ModeOf(storage)) \/ ~check_write(csr)
  <2>1. last' = Op("csr", csr, rd, "IllegalInstruction") /\ storage' = storage
    BY <1>1 DEF csr_replace, Illegal
  <2> QED BY <2>1, NoEffect, OpFields DEF HartOutcome
<1>2. CASE ~(~check_privilege(csr, ModeOf(storage)) \/ ~check_write(csr))
  <2>1. /\ last' = Op("replace", csr, rd, "ok")
        /\ storage' = IF rd = 0 THEN CSRWrite(storage, csr, value)
                      ELSE XWrite(replace(storage, csr, value).storage, rd,
                                  replace(storage, csr, value).old)
    BY <1>2 DEF csr_replace
  <2>2. PICK u, o : u = CSRWrite(storage, csr, value) /\ o = replace(storage, csr, value).old
    OBVIOUS
  <2>3. replace(storage, csr, value).storage = u /\ o \subseteq AllBits BY <2>2, ReplaceFacts
  <2>4. Effect(storage, u, csr, 0) BY <1>2, <2>2, CSREffect
  <2>5. CASE rd = 0 BY <2>1, <2>2, <2>4, <2>5, OpFields DEF HartOutcome
  <2>6. CASE rd # 0
    <3>1. storage' = XWrite(u, rd, o) BY <2>1, <2>2, <2>3, <2>6
    <3>0. Registers(u) BY <2>4 DEF Effect
    <3>2. Effect(u, storage', NoCSR, rd) BY <2>3, <3>0, <3>1, XEffect
    <3>3. Effect(storage, storage', csr, rd) BY <2>4, <3>2, EffectChain
    <3> QED BY <2>1, <3>3, OpFields DEF HartOutcome
  <2> QED BY <2>5, <2>6
<1> QED BY <1>1, <1>2

LEMMA BitsOutcome ==
  ASSUME places = HartPlaces, Registers(storage), NEW csr \in Numbers, NEW rd \in 0 .. 31,
         NEW bits, bits \subseteq AllBits, NEW no_write, NEW clear,
         CsrBits(csr, bits, no_write, rd, clear)
  PROVE  HartOutcome(csr, rd)
<1>1. CASE ~check_privilege(csr, ModeOf(storage)) \/ (~no_write /\ ~check_write(csr))
  <2>1. last' = Op("csr", csr, rd, "IllegalInstruction") /\ storage' = storage
    BY <1>1 DEF CsrBits, Illegal
  <2> QED BY <2>1, NoEffect, OpFields DEF HartOutcome
<1>2. CASE ~(~check_privilege(csr, ModeOf(storage)) \/ (~no_write /\ ~check_write(csr)))
  <2>1. PICK r : r = IF no_write THEN [old |-> CSRRead(storage, csr), storage |-> storage]
                     ELSE IF clear THEN clear_bits(storage, csr, bits)
                     ELSE set_bits(storage, csr, bits)
    OBVIOUS
  <2>2. last' = Op("bits", csr, rd, "ok") /\ storage' = XWrite(r.storage, rd, r.old)
    BY <1>2, <2>1 DEF CsrBits
  <2>3. PICK o : o = CSRRead(storage, csr) OBVIOUS
  <2>4. o \subseteq AllBits BY <2>3, CSRReadBits
  <2>5. r.old = o /\ Effect(storage, r.storage, csr, 0)
    <3>1. CASE no_write
      <4>1. r.old = o /\ r.storage = storage BY <2>1, <2>3, <3>1
      <4> QED BY <4>1, NoEffect
    <3>2. CASE ~no_write /\ clear
      <4>1. r.old = o /\ r.storage = CSRWrite(storage, csr, o \ bits)
        BY <2>1, <2>3, <3>2 DEF clear_bits
      <4>2. o \ bits \subseteq AllBits BY <2>4
      <4> QED BY <1>2, <4>1, <4>2, CSREffect
    <3>3. CASE ~no_write /\ ~clear
      <4>1. r.old = o /\ r.storage = CSRWrite(storage, csr, o \union bits)
        BY <2>1, <2>3, <3>3 DEF set_bits
      <4>2. o \union bits \subseteq AllBits BY <2>4
      <4> QED BY <1>2, <4>1, <4>2, CSREffect
    <3> QED BY <3>1, <3>2, <3>3
  <2>6. PICK u : u = r.storage OBVIOUS
  <2>7. Registers(u) BY <2>5, <2>6 DEF Effect
  <2>8. Effect(u, XWrite(u, rd, o), NoCSR, rd) BY <2>4, <2>7, XEffect
  <2>9. storage' = XWrite(u, rd, o) BY <2>2, <2>5, <2>6
  <2>10. Effect(storage, storage', csr, rd) BY <2>5, <2>6, <2>8, <2>9, EffectChain
  <2> QED BY <2>2, <2>10, OpFields DEF HartOutcome
<1> QED BY <1>1, <1>2

\* Every operation of the hart: it writes the mode, or it has the effect that it names.
LEMMA HartStepOutcome ==
  ASSUME theme \in Themes, places = HartPlaces, Registers(storage), HartStep
  PROVE  \/ \E csr \in Numbers \union {NoCSR}, rd \in 0 .. 63 : HartOutcome(csr, rd)
         \/ last'.name = "write_mode" /\ last'.outcome # "unplaced" /\ Registers(storage')
<1>1. /\ theme.csrs \subseteq Numbers /\ theme.xs \subseteq 0 .. 31 /\ theme.fs \subseteq 0 .. 31
      /\ theme.modes \subseteq {0, 1, 3, 4}
      /\ \A v \in theme.values : v \subseteq AllBits
      /\ \A v \in theme.imms : v \subseteq AllBits
      /\ \A v \in theme.adds : v \subseteq AllBits
  <2>1. /\ theme.csrs \subseteq 0 .. 4095 /\ theme.xs \subseteq 0 .. 31 /\ theme.fs \subseteq 0 .. 31
        /\ UNION {theme.values, theme.imms, theme.adds} \subseteq SUBSET AllBits
        /\ theme.modes \subseteq {0, 1, 3, 4}
    BY ThemesAssumption DEF HartStep
  <2>2. \A v \in UNION {theme.values, theme.imms, theme.adds} : v \subseteq AllBits BY <2>1
  <2>3. \A v : (v \in theme.values \/ v \in theme.imms \/ v \in theme.adds)
                 => v \in UNION {theme.values, theme.imms, theme.adds}
    OBVIOUS
  <2> QED BY <2>1, <2>2, <2>3 DEF Numbers
<1>2. \A r \in 0 .. 31 : XRead(storage, r) \subseteq AllBits
  <2>1. {} \subseteq AllBits OBVIOUS
  <2> QED BY <2>1, XFacts
<1>3. \A v : v \subseteq AllBits => v \cap (0 .. 4) \subseteq AllBits OBVIOUS
<1>4. \A a, b : wrapping_add(a, b) \subseteq AllBits BY DEF wrapping_add
<1>5. \A a : SignExtend32(a) \subseteq AllBits BY DEF SignExtend32, AllBits
<1>6. 0 .. 31 \subseteq 0 .. 63 OBVIOUS
<1>7. ASSUME NEW csr \in theme.csrs, NEW rd \in theme.xs, NEW rs1 \in theme.xs,
             csrrw(csr, rs1, rd) \/ csrrs(csr, rs1, rd) \/ csrrc(csr, rs1, rd)
      PROVE  HartOutcome(csr, rd)
  <2>1. csr \in Numbers /\ rd \in 0 .. 31 /\ XRead(storage, rs1) \subseteq AllBits BY <1>1, <1>2
  <2>2. CASE csrrw(csr, rs1, rd) BY <2>1, <2>2, ReplaceOutcome DEF csrrw
  <2>3. CASE csrrs(csr, rs1, rd) BY <2>1, <2>3, BitsOutcome DEF csrrs
  <2>4. CASE csrrc(csr, rs1, rd) BY <2>1, <2>4, BitsOutcome DEF csrrc
  <2> QED BY <1>7, <2>2, <2>3, <2>4
<1>8. ASSUME NEW csr \in theme.csrs, NEW rd \in theme.xs, NEW imm \in theme.imms,
             csrrwi(csr, imm, rd) \/ csrrsi(csr, imm, rd) \/ csrrci(csr, imm, rd)
      PROVE  HartOutcome(csr, rd)
  <2>1. csr \in Numbers /\ rd \in 0 .. 31 /\ imm \cap (0 .. 4) \subseteq AllBits BY <1>1, <1>3
  <2>2. CASE csrrwi(csr, imm, rd) BY <2>1, <2>2, ReplaceOutcome DEF csrrwi
  <2>3. CASE csrrsi(csr, imm, rd) BY <2>1, <2>3, BitsOutcome DEF csrrsi
  <2>4. CASE csrrci(csr, imm, rd) BY <2>1, <2>4, BitsOutcome DEF csrrci
  <2> QED BY <1>8, <2>2, <2>3, <2>4
<1>9. ASSUME NEW imm \in theme.adds, NEW rs1 \in theme.xs, NEW rd \in theme.xs,
             run_addi(imm, rs1, rd) \/ run_addiw(imm, rs1, rd)
      PROVE  HartOutcome(NoCSR, rd)
  <2>1. rd \in 0 .. 31 BY <1>1
  <2>2. CASE run_addi(imm, rs1, rd)
    BY <2>1, <2>2, <1>4, XEffect, OpFields DEF run_addi, HartOutcome
  <2>3. CASE run_addiw(imm, rs1, rd)
    BY <2>1, <2>3, <1>5, XEffect, OpFields DEF run_addiw, HartOutcome
  <2> QED BY <1>9, <2>2, <2>3
<1>10. ASSUME NEW reg \in theme.xs, NEW value \in theme.values, write_x(reg, value)
       PROVE  HartOutcome(NoCSR, reg)
  BY <1>1, <1>10, XEffect, OpFields DEF write_x, HartOutcome
<1>11. ASSUME NEW reg \in theme.fs, NEW value \in theme.values, write_f(reg, value)
       PROVE  HartOutcome(NoCSR, 32 + reg) /\ 32 + reg \in 0 .. 63
  <2>1. reg \in 0 .. 31 /\ value \subseteq AllBits BY <1>1
  <2>2. 32 + reg \in 0 .. 63 BY <2>1
  <2>3. Effect(storage, FWrite(storage, reg, value), NoCSR, 32 + reg) BY <2>1, FEffect
  <2> QED BY <1>11, <2>2, <2>3, OpFields DEF write_f, HartOutcome
<1>12. ASSUME NEW m \in theme.modes, write_mode(m)
       PROVE  last'.name = "write_mode" /\ last'.outcome # "unplaced" /\ Registers(storage')
  <2>1. m \in {0, 1, 3, 4} BY <1>1
  <2>2. PICK t : t = storage' OBVIOUS
  <2>3. t = CellWrite(storage, Location(4), 1, {b \in 0 .. 2 : (m \div 2 ^ b) % 2 = 1})
    BY <1>12, <2>2 DEF write_mode
  <2>4. ModeOf(t) = m /\ Within(storage, t, ModeBits) BY <2>1, <2>3, ModeFacts
  <2>5. ASSUME NEW c \in Numbers PROVE Cell(t, c) = Cell(storage, c)
    <3>1. CBits(c) \cap ModeBits = {} BY ApartMode
    <3>2. c \in Int BY DEF Numbers
    <3> QED BY <2>4, <3>1, <3>2, HartFrame
  <2>6. Registers(t)
    <3>1. mstatus \in Numbers /\ sstatus \in Numbers BY DEF Numbers, mstatus, sstatus
    <3>2. Cell(t, mstatus) = Cell(storage, mstatus) /\ Cell(t, sstatus) = Cell(storage, sstatus)
      BY <2>5, <3>1
    <3>3. ASSUME NEW csr \in Numbers \ {mstatus, sstatus} PROVE Writable(csr, Cell(t, csr))
      <4>1. Cell(t, csr) = Cell(storage, csr) BY <2>5, <3>3
      <4> QED BY <4>1, <3>3 DEF Registers
    <3> QED BY <2>1, <2>4, <3>2, <3>3 DEF Registers
  <2> QED BY <1>12, <2>2, <2>6, OpFields DEF write_mode
<1>13. NoCSR \in Numbers \union {NoCSR} /\ Numbers \subseteq Numbers \union {NoCSR} OBVIOUS
<1>14. /\ \A csr \in theme.csrs : csr \in Numbers \union {NoCSR}
       /\ \A rd \in theme.xs : rd \in 0 .. 63
  BY <1>1, <1>6
<1>15. \/ \E csr \in theme.csrs, rd \in theme.xs : HartOutcome(csr, rd)
       \/ \E rd \in theme.xs : HartOutcome(NoCSR, rd)
       \/ \E reg \in theme.fs : HartOutcome(NoCSR, 32 + reg) /\ 32 + reg \in 0 .. 63
       \/ last'.name = "write_mode" /\ last'.outcome # "unplaced" /\ Registers(storage')
  BY <1>7, <1>8, <1>9, <1>10, <1>11, <1>12 DEF HartStep
<1> QED BY <1>13, <1>14, <1>15

-----------------------------------------------------------------------------
(* The invariant, and what it gives.                                       *)

\* The inductive invariant: before the layout is placed the storage is empty;
\* afterwards its locations are where the proofs above found them, and the
\* registers of a hart hold what they may hold.
MachineInvariant ==
  /\ theme \in Themes
  /\ \/ last.outcome = "unplaced" /\ places = <<>> /\ storage = {}
     \/ /\ last.outcome # "unplaced"
        /\ theme.layout = "hart" => places = HartPlaces /\ Registers(storage)
        /\ theme.layout = "memory" => places = MemoryPlaces
        /\ theme.layout = "regions" => places = RegionsPlaces

\* A storage of zeroes.
LEMMA ZeroRegisters == Registers({})
<1>1. \A csr \in Int : Cell({}, csr) = {} BY DEF Cell, RegionRead
<1>2. mstatus \in Int /\ sstatus \in Int /\ Numbers \subseteq Int
  BY DEF mstatus, sstatus, Numbers
<1>3. CellRead({}, Location(4), 1) = {} BY DEF CellRead, RegionRead
<1>4. ModeOf({}) = 0 BY <1>3 DEF ModeOf
<1>5. StatusBits({}) BY DEF StatusBits, AnyDirty
<1>6. StatusLegal({}) BY <1>5, StatusLegalBits
<1>7. \A csr : Writable(csr, {}) BY DEF Writable
<1> QED BY <1>1, <1>2, <1>4, <1>6, <1>7 DEF Registers

\* The registers are the same in the next state, when the places are.
LEMMA NextRegisters ==
  ASSUME places' = places
  PROVE  Registers(storage)' <=> Registers(storage')
<1>1. \A csr : Cell(storage, csr)' = Cell(storage', csr) BY DEF Cell, Location
<1>2. ModeOf(storage)' = ModeOf(storage') BY DEF ModeOf, CellRead, Location
<1> QED BY <1>1, <1>2 DEF Registers

LEMMA InvariantInit == Init => MachineInvariant
  BY OpFields DEF Init, MachineInvariant

LEMMA InvariantNext ==
  ASSUME MachineInvariant, [Next]_vars
  PROVE  MachineInvariant'
<1>1. CASE UNCHANGED vars
  <2>1. theme' = theme /\ places' = places /\ storage' = storage /\ last' = last BY <1>1 DEF vars
  <2>2. Registers(storage)' <=> Registers(storage) BY <2>1, NextRegisters
  <2> QED BY <2>1, <2>2 DEF MachineInvariant, MemoryPlaces, RegionsPlaces, HartPlaces
<1>2. CASE Place /\ theme' = theme
  <2>1. /\ last.outcome = "unplaced" /\ storage' = storage
        /\ places' = Placed(theme.layout).locations
        /\ last' = Op("place", NoCSR, NoCSR, IF Placed(theme.layout).panicked THEN "panic" ELSE "ok")
    BY <1>2 DEF Place
  <2>2. storage' = {} /\ theme' \in Themes BY <1>2, <2>1 DEF MachineInvariant
  <2>3. last'.outcome # "unplaced" BY <2>1, OpFields
  <2>4. ASSUME theme.layout = "hart" PROVE places' = HartPlaces /\ Registers(storage)'
    <3>1. places' = HartPlaces BY <2>1, <2>4, HartPlaced
    <3>2. Registers({})' BY ZeroRegisters, PTL
    <3>3. Registers(storage)' <=> Registers({})'
      BY <2>2 DEF Registers, Cell, ModeOf, CellRead, Location
    <3> QED BY <3>1, <3>2, <3>3
  <2>5. theme.layout = "memory" => places' = MemoryPlaces BY <2>1, MemoryPlaced
  <2>6. theme.layout = "regions" => places' = RegionsPlaces BY <2>1, RegionsPlaced
  <2> QED BY <1>2, <2>2, <2>3, <2>4, <2>5, <2>6
       DEF MachineInvariant, MemoryPlaces, RegionsPlaces, HartPlaces
<1>3. CASE HartStep /\ UNCHANGED <<places, theme>>
  <2>1. theme.layout = "hart" /\ places = HartPlaces /\ Registers(storage) /\ theme \in Themes
    BY <1>3 DEF HartStep, MachineInvariant
  <2>2. last'.outcome # "unplaced" /\ Registers(storage')
    BY <1>3, <2>1, HartStepOutcome DEF HartOutcome, Effect
  <2>3. Registers(storage)' BY <1>3, <2>2, NextRegisters
  <2> QED BY <1>3, <2>1, <2>2, <2>3 DEF MachineInvariant, HartPlaces
<1>4. CASE MemoryStep /\ UNCHANGED <<places, theme>>
  <2>1. last'.outcome # "unplaced"
    <3>1. ASSUME NEW size, NEW addr, MemoryRead(size, addr) PROVE last'.outcome # "unplaced"
      <4>1. last'.outcome = IF addr >= LEN8 THEN "OutOfBounds" ELSE "ok" BY <3>1 DEF MemoryRead
      <4> QED BY <4>1
    <3>2. ASSUME NEW size, NEW addr, NEW value, MemoryWrite(size, addr, value)
          PROVE  last'.outcome # "unplaced"
      <4>1. last'.outcome = IF addr >= LEN8 THEN "OutOfBounds" ELSE "ok" BY <3>2 DEF MemoryWrite
      <4> QED BY <4>1
    <3> QED BY <1>4, <3>1, <3>2 DEF MemoryStep
  <2>2. theme.layout = "memory" /\ places = MemoryPlaces /\ theme \in Themes
    BY <1>4 DEF MemoryStep, MachineInvariant
  <2> QED BY <1>4, <2>1, <2>2 DEF MachineInvariant, MemoryPlaces
<1>5. CASE RegionStep /\ UNCHANGED <<places, theme>>
  <2>1. last'.outcome # "unplaced"
    <3>1. ASSUME NEW n, NEW i, NEW len, read_some(n, i, len) PROVE last'.outcome # "unplaced"
      <4>1. last'.outcome = IF i + len <= RegionLen(n) THEN "ok" ELSE "panic" BY <3>1 DEF read_some
      <4> QED BY <4>1
    <3>2. ASSUME NEW n, NEW i, NEW values, write_some(n, i, values)
          PROVE  last'.outcome # "unplaced"
      <4>1. last'.outcome = IF i + Len(values) <= RegionLen(n) THEN "ok" ELSE "panic"
        BY <3>2 DEF write_some
      <4> QED BY <4>1
    <3> QED BY <1>5, <3>1, <3>2 DEF RegionStep
  <2>2. theme.layout = "regions" /\ places = RegionsPlaces /\ theme \in Themes
    BY <1>5 DEF RegionStep, MachineInvariant
  <2> QED BY <1>5, <2>1, <2>2 DEF MachineInvariant, RegionsPlaces
<1> QED BY <1>1, <1>2, <1>3, <1>4, <1>5 DEF Next

\* Every operation keeps the layout where it was placed and the registers legal:
\* the invariant is inductive.
THEOREM MachineInvariantHolds == Spec => []MachineInvariant
<1>1. Init => MachineInvariant BY InvariantInit
<1>2. MachineInvariant /\ [Next]_vars => MachineInvariant' BY InvariantNext
<1> QED BY <1>1, <1>2, PTL DEF Spec

\* Whatever instructions wrote the control registers, through mstatus or through
\* sstatus, whole or bit by bit, each holds a value that its fields allow
\* (CSRegisters::write, replace, set_bits and clear_bits).
THEOREM RegistersStayLegal == Spec => []FieldsLegal
<1>1. MachineInvariant => FieldsLegal
  <2> SUFFICES ASSUME MachineInvariant, OnHart PROVE FieldsLegal BY DEF FieldsLegal
  <2>1. Registers(storage) /\ theme.layout = "hart" /\ theme \in Themes
    BY DEF MachineInvariant, OnHart
  <2>2. theme.csrs \subseteq Numbers BY <2>1, ThemesAssumption DEF Numbers
  <2>3. \A csr \in theme.csrs \ {mstatus, sstatus} : Writable(csr, Cell(storage, csr))
    BY <2>1, <2>2 DEF Registers
  <2>4. StatusLegal(Cell(storage, mstatus)) /\ Cell(storage, sstatus) = {} BY <2>1 DEF Registers
  <2> QED BY <2>3, <2>4 DEF FieldsLegal, StatusLegal, Writable
<1> QED BY <1>1, MachineInvariantHolds, PTL

\* A step of a hart that is placed.
LEMMA HartStepOnly ==
  ASSUME MachineInvariant, OnHart, Next
  PROVE  HartStep /\ places = HartPlaces /\ Registers(storage) /\ theme \in Themes
<1>1. last.outcome # "unplaced" BY DEF MachineInvariant, OnHart
<1>2. ~Place BY <1>1 DEF Place
<1>3. ~MemoryStep /\ ~RegionStep BY DEF OnHart, MemoryStep, RegionStep
<1> QED BY <1>1, <1>2, <1>3 DEF Next, MachineInvariant, OnHart

\* A step of PrivilegeRespected.
PrivilegeStep ==
  OnHart /\ last'.name # "write_mode" =>
       /\ ModeOf(storage') = ModeOf(storage)
       /\ \A csr \in theme.csrs :
            privilege(csr) > ModePrivilege(ModeOf(storage)) =>
              LET mine == IF csr = mstatus /\ ModePrivilege(ModeOf(storage)) >= Supervisor
                          THEN SSTATUS_FIELDS_MASK ELSE {}
              IN Cell(storage', csr) \ mine = Cell(storage, csr) \ mine

LEMMA PrivilegeNext ==
  ASSUME MachineInvariant, Next
  PROVE  PrivilegeStep
<1> SUFFICES ASSUME OnHart, last'.name # "write_mode" PROVE PrivilegeStep BY DEF PrivilegeStep
<1>1. HartStep /\ places = HartPlaces /\ Registers(storage) /\ theme \in Themes BY HartStepOnly
<1>2. \E d \in Numbers \union {NoCSR}, rd \in 0 .. 63 : HartOutcome(d, rd) BY <1>1, HartStepOutcome
<1>3. PICK d, rd : HartOutcome(d, rd) BY <1>2
<1>4. Effect(storage, storage', d, rd) BY <1>3 DEF HartOutcome
<1>5. ModeOf(storage') = ModeOf(storage) BY <1>4 DEF Effect
<1>6. theme.csrs \subseteq Numbers
  <2>1. theme.layout = "hart" BY DEF OnHart
  <2> QED BY <1>1, <2>1, ThemesAssumption DEF Numbers
<1>7. PICK p : p = ModePrivilege(ModeOf(storage)) OBVIOUS
<1>8. p \in {0, 1, 3}
  <2>1. ModeOf(storage) \in {0, 1, 3, 4} BY <1>1 DEF Registers
  <2> QED BY <1>7, <2>1 DEF ModePrivilege, Unprivileged, Supervisor, Machine
<1>9. ASSUME NEW csr \in theme.csrs, privilege(csr) > p, NEW mine,
             mine = IF csr = mstatus /\ p >= Supervisor THEN SSTATUS_FIELDS_MASK ELSE {}
      PROVE  Cell(storage', csr) \ mine = Cell(storage, csr) \ mine
  <2>1. csr \in Numbers BY <1>6
  <2>2. CASE Cell(storage', csr) = Cell(storage, csr) BY <2>2
  <2>3. CASE Cell(storage', csr) # Cell(storage, csr)
    <3>1. /\ d \in Numbers /\ csr = Target(d) /\ check_privilege(d, ModeOf(storage))
          /\ d = sstatus => Cell(storage', mstatus) \ SSTATUS_FIELDS_MASK
                              = Cell(storage, mstatus) \ SSTATUS_FIELDS_MASK
      BY <1>4, <2>1, <2>3 DEF Effect
    <3>2. p >= privilege(d) BY <1>7, <3>1 DEF check_privilege
    <3>3. privilege(d) \in Int /\ privilege(csr) \in Int BY <2>1, <3>1 DEF privilege, Numbers
    <3>4. d = sstatus BY <1>8, <1>9, <3>1, <3>2, <3>3 DEF Target
    <3>5. csr = mstatus BY <3>1, <3>4 DEF Target
    <3>6. privilege(sstatus) = 1 BY DEF privilege, sstatus
    <3>7. p >= Supervisor BY <3>2, <3>4, <3>6 DEF Supervisor
    <3> QED BY <1>9, <3>1, <3>4, <3>5, <3>7
  <2> QED BY <2>2, <2>3
<1> QED BY <1>5, <1>7, <1>9 DEF PrivilegeStep

\* No instruction changes the mode, or a control register that needs more
\* privilege than the mode it runs in, but for the fields of sstatus in mstatus
\* (csr_replace and the bit instructions after check_privilege).
THEOREM PrivilegeIsRespected == Spec => PrivilegeRespected
<1>1. MachineInvariant /\ [Next]_vars => [PrivilegeStep]_vars BY PrivilegeNext
<1>2. [][PrivilegeStep]_vars => PrivilegeRespected BY PTL DEF PrivilegeStep, PrivilegeRespected
<1> QED BY <1>1, <1>2, MachineInvariantHolds, PTL DEF Spec

(***************************************************************************)
(* Writes are local.  The hart.                                            *)
(***************************************************************************)
\* The four parts of a step of WritesAreLocal: this one, StoreLocal, LoadWhole
\* and RegionsLocal.
HartLocal ==
  OnHart /\ last'.name \notin {"place", "write_mode"} =>
          LET rd == IF last'.rd < 32 THEN Bits(Location(1), 8, last'.rd - 1)
                    ELSE Bits(Location(2), 8, last'.rd - 32)
              csr == Bits(Location(3), 8, IF last'.csr = sstatus THEN mstatus ELSE last'.csr)
          IN /\ XRead(storage', 0) = {}
             /\ \A b \in (storage \ storage') \union (storage' \ storage) :
                  b \in (IF last'.rd = 0 THEN {} ELSE rd) \union (IF last'.csr = NoCSR THEN {} ELSE csr)

LEMMA HartLocalNext ==
  ASSUME MachineInvariant, Next
  PROVE  HartLocal
<1> SUFFICES ASSUME OnHart, last'.name \notin {"place", "write_mode"} PROVE HartLocal
  BY DEF HartLocal
<1>1. HartStep /\ places = HartPlaces /\ Registers(storage) /\ theme \in Themes BY HartStepOnly
<1>2. \E d \in Numbers \union {NoCSR}, r \in 0 .. 63 : HartOutcome(d, r) BY <1>1, HartStepOutcome
<1>3. PICK d, r : d \in Numbers \union {NoCSR} /\ r \in 0 .. 63 /\ HartOutcome(d, r) BY <1>2
<1>4. last'.csr = d /\ last'.rd = r /\ Effect(storage, storage', d, r) BY <1>3 DEF HartOutcome
<1>5. Within(storage, storage', Touched(d) \union Destination(r)) BY <1>4 DEF Effect
<1>6. PICK rd : rd = IF r < 32 THEN Bits(Location(1), 8, r - 1) ELSE Bits(Location(2), 8, r - 32)
  OBVIOUS
<1>7. PICK csr : csr = Bits(Location(3), 8, Target(d)) OBVIOUS
<1>8. Destination(r) = IF r = 0 THEN {} ELSE rd
  <2>1. r \in Int /\ r - 32 \in Int BY <1>3
  <2>2. Bits(Location(1), 8, r - 1) = XBits(r) BY <1>1, <2>1, XPlace
  <2>3. Bits(Location(2), 8, r - 32) = FBits(r - 32) BY <1>1, <2>1, FPlace
  <2> QED BY <1>6, <2>2, <2>3 DEF Destination
<1>9. Touched(d) = IF d = NoCSR THEN {} ELSE csr
  <2>1. CASE d = NoCSR BY <2>1 DEF Touched
  <2>2. CASE d # NoCSR
    <3>1. Target(d) \in Int BY <1>3, <2>2 DEF Target, Numbers, mstatus
    <3>2. csr = CBits(Target(d)) BY <1>1, <1>7, <3>1, CPlace
    <3> QED BY <2>2, <3>2 DEF Touched
  <2> QED BY <2>1, <2>2
<1>10. \A b \in (storage \ storage') \union (storage' \ storage) :
         b \in (IF r = 0 THEN {} ELSE rd) \union (IF d = NoCSR THEN {} ELSE csr)
  BY <1>5, <1>8, <1>9 DEF Within
<1>11. XRead(storage', 0) = {} BY DEF XRead
<1> QED BY <1>4, <1>6, <1>7, <1>10, <1>11 DEF HartLocal, Target

(***************************************************************************)
(* Main memory: an element of 2^n bytes at index i is the bytes from       *)
(* i * 2^n on, behind the odd byte and its padding.                        *)
(***************************************************************************)
LEMMA ViewPlace ==
  ASSUME places = MemoryPlaces, NEW size \in {1, 2, 4, 8}, NEW i \in Nat
  PROVE  /\ Base(View(size), size, i) = 64 + 8 * (i * size)
         /\ Base(View(size), size, i) \in Int
<1>1. View(size).offset = 8
  <2>1. /\ places[2].offset = 8 /\ places[3].offset = 8
        /\ places[4].offset = 8 /\ places[5].offset = 8
    BY DEF MemoryPlaces, Loc
  <2>2. View(size) \in {places[2], places[3], places[4], places[5]} BY DEF View, Location
  <2> QED BY <2>1, <2>2
<1>2. i * size \in Int OBVIOUS
<1> QED BY <1>1, <1>2 DEF Base

LEMMA ByteMember ==
  ASSUME places = MemoryPlaces, NEW s, NEW a \in Nat
  PROVE  \A x : x \in Byte(s, a) <=> x \in 0 .. 7 /\ 64 + 8 * a + x \in s
<1>1. Base(View(1), 1, a) = 64 + 8 * a /\ Base(View(1), 1, a) \in Int BY ViewPlace
<1>2. ElemBits(1) = 0 .. 7 BY DEF ElemBits
<1>3. \A x : x \in RegionRead(s, View(1), 1, a)
               <=> x \in ElemBits(1) /\ Base(View(1), 1, a) + x \in s
  BY <1>1, ReadMember
<1> QED BY <1>1, <1>2, <1>3 DEF Byte

\* Rounding an address down to a multiple of the size.
LEMMA RoundDown ==
  ASSUME NEW size \in {1, 2, 4, 8}, NEW addr \in Nat
  PROVE  /\ addr \div size \in Nat /\ addr % size \in 0 .. size - 1
         /\ addr - (addr % size) = (addr \div size) * size
         /\ (addr \div size) * size \in Nat
<1>1. CASE size = 1 BY <1>1
<1>2. CASE size = 2 BY <1>2
<1>3. CASE size = 4 BY <1>3
<1>4. CASE size = 8 BY <1>4
<1> QED BY <1>1, <1>2, <1>3, <1>4

StoreLocal ==
  theme.layout = "memory" /\ last'.name = "store" =>
          \A addr \in 0 .. LEN8 - 1 :
            Byte(storage', addr) =
              IF last'.outcome = "ok" /\ addr \in StoredAt(last'.addr)
              THEN LET k == addr % last'.size IN
                   {b - 8 * k : b \in last'.value \cap (8 * k .. 8 * k + 7)}
              ELSE Byte(storage, addr)

\* The addresses of an element, and its bytes after a write.
Span(first, size) == first .. (first + size - 1)
InByte(v, k, x) == x \in 0 .. 7 /\ 8 * k + x \in v
Starts(first, q, size) == first = q * size
Inside(o, a, size) == o = a % size
ByteAfter(s, t, first, size, v, a, o) ==
  /\ a \in Span(first, size) => \A x : x \in Byte(t, a) <=> InByte(v, o, x)
  /\ a \notin Span(first, size) => Byte(t, a) = Byte(s, a)
LEMMA BytesWritten ==
  ASSUME places = MemoryPlaces, NEW s, NEW size \in {1, 2, 4, 8}, NEW q \in Nat,
         NEW v, v \subseteq ElemBits(size), NEW t,
         t = RegionWrite(s, View(size), size, q, v),
         NEW first \in Nat, Starts(first, q, size), NEW a \in Nat, NEW o, Inside(o, a, size)
  PROVE  ByteAfter(s, t, first, size, v, a, o)
<1>2. first = q * size BY DEF Starts
<1>3. PICK base \in Int : base = 64 + 8 * first OBVIOUS
<1>4. Base(View(size), size, q) = base /\ Base(View(size), size, q) \in Int
  BY <1>2, <1>3, ViewPlace
<1>5. Bits(View(size), size, q) = base .. (base + 8 * size - 1) BY <1>4 DEF Bits, Base
<1>6. \A y : y \in t <=> \/ y \in s /\ y \notin base .. (base + 8 * size - 1)
                         \/ y \in base .. (base + 8 * size - 1) /\ y - base \in v
  BY <1>4, <1>5, WriteMember
<1>7. \A x : x \in Byte(t, a) <=> x \in 0 .. 7 /\ 64 + 8 * a + x \in t BY ByteMember
<1>8. \A x : x \in Byte(s, a) <=> x \in 0 .. 7 /\ 64 + 8 * a + x \in s BY ByteMember
<1>9. ASSUME a \in first .. (first + size - 1), NEW x \in 0 .. 7
      PROVE  64 + 8 * a + x \in t <=> 8 * (a % size) + x \in v
  <2>1. a % size = a - first
    <3>1. CASE size = 1 BY <1>2, <1>9, <3>1
    <3>2. CASE size = 2 BY <1>2, <1>9, <3>2
    <3>3. CASE size = 4 BY <1>2, <1>9, <3>3
    <3>4. CASE size = 8 BY <1>2, <1>9, <3>4
    <3> QED BY <3>1, <3>2, <3>3, <3>4
  <2>2. PICK y \in Int : y = 64 + 8 * a + x OBVIOUS
  <2>3. y \in base .. (base + 8 * size - 1) /\ y - base = 8 * (a - first) + x
    BY <1>3, <1>9, <2>2
  <2> QED BY <1>6, <2>1, <2>2, <2>3
<1>10. ASSUME a \notin first .. (first + size - 1), NEW x \in 0 .. 7
       PROVE  64 + 8 * a + x \in t <=> 64 + 8 * a + x \in s
  <2>1. PICK y \in Int : y = 64 + 8 * a + x OBVIOUS
  <2>2. y \notin base .. (base + 8 * size - 1) BY <1>3, <1>10, <2>1
  <2> QED BY <1>6, <2>1, <2>2
<1> QED BY <1>7, <1>8, <1>9, <1>10 DEF ByteAfter, Span, InByte, Inside

LEMMA StoreLocalNext ==
  ASSUME MachineInvariant, Next
  PROVE  StoreLocal
<1> SUFFICES ASSUME theme.layout = "memory", last'.name = "store", NEW a \in 0 .. LEN8 - 1
             PROVE  Byte(storage', a) =
                      IF last'.outcome = "ok" /\ a \in StoredAt(last'.addr)
                      THEN LET k == a % last'.size IN
                           {b - 8 * k : b \in last'.value \cap (8 * k .. 8 * k + 7)}
                      ELSE Byte(storage, a)
  BY DEF StoreLocal
<1>1. MemoryStep
  <2>1. ~Place BY OpFields DEF Place
  <2> QED BY <2>1 DEF Next, HartStep, RegionStep
<1>2. places = MemoryPlaces /\ theme \in Themes BY <1>1 DEF MemoryStep, MachineInvariant
<1>3. \E size \in {1, 2, 4, 8}, addr \in theme.addrs, value \in theme.values :
         MemoryWrite(size, addr, {b \in value : b < 8 * size})
  <2>1. \A size, addr : MemoryRead(size, addr) => last'.name = "load" BY DEF MemoryRead
  <2> QED BY <1>1, <2>1 DEF MemoryStep
<1>4. PICK size, addr, value : /\ size \in {1, 2, 4, 8} /\ addr \in theme.addrs
                               /\ value \in theme.values
                               /\ MemoryWrite(size, addr, {b \in value : b < 8 * size})
  BY <1>3
<1>5. addr \in Nat /\ value \subseteq AllBits BY <1>2, <1>4, ThemesAssumption
<1>6. PICK v : v = {b \in value : b < 8 * size} OBVIOUS
<1>7. v \subseteq ElemBits(size)
  <2> SUFFICES ASSUME NEW b \in v PROVE b \in ElemBits(size) OBVIOUS
  <2>1. b \in value /\ b < 8 * size BY <1>6
  <2>2. b \in 0 .. 63 BY <1>5, <2>1 DEF AllBits
  <2> QED BY <1>4, <2>1, <2>2 DEF ElemBits
<1>8. /\ last'.size = size /\ last'.addr = addr /\ last'.value = v
      /\ last'.outcome = IF addr >= LEN8 THEN "OutOfBounds" ELSE "ok"
      /\ storage' = IF addr >= LEN8 THEN storage ELSE VolatileWrite(size, addr, v)
  BY <1>4, <1>6 DEF MemoryWrite
<1>9. a \in Nat BY LEN8Assumption
<1>10. CASE addr >= LEN8 BY <1>8, <1>10
<1>11. CASE ~(addr >= LEN8)
  <2>1. last'.outcome = "ok" /\ storage' = RegionWrite(storage, View(size), size, addr \div size, v)
    BY <1>8, <1>11 DEF VolatileWrite
  <2>2. PICK first \in Nat : first = addr - (addr % size) BY <1>4, <1>5, RoundDown
  <2>3. PICK t : t = storage' OBVIOUS
  <2>8. PICK q \in Nat : q = addr \div size BY <1>4, <1>5, RoundDown
  <2>9. Starts(first, q, size) BY <1>4, <1>5, <2>2, <2>8, RoundDown DEF Starts
  <2>0. t = RegionWrite(storage, View(size), size, q, v) BY <2>1, <2>3, <2>8
  <2>10. PICK o \in Nat : Inside(o, a, size) BY <1>4, <1>9, RoundDown DEF Inside
  <2>4. /\ a \in Span(first, size) => \A x : x \in Byte(t, a) <=> InByte(v, o, x)
        /\ a \notin Span(first, size) => Byte(t, a) = Byte(storage, a)
    <3>1. size \in {1, 2, 4, 8} BY <1>4
    <3>2. places = MemoryPlaces BY <1>2
    <3>3. PICK s : s = storage OBVIOUS
    <3>4. t = RegionWrite(s, View(size), size, q, v) BY <2>0, <3>3
    <3>5. ByteAfter(s, t, first, size, v, a, o)
      BY <1>7, <1>9, <2>9, <2>10, <3>1, <3>2, <3>4, BytesWritten
    <3> QED BY <3>3, <3>5 DEF ByteAfter
  <2>5. a \in StoredAt(addr) <=> a \in Span(first, size)
    <3>1. StoredAt(addr) = {first + k : k \in 0 .. size - 1} BY <1>8, <2>2 DEF StoredAt
    <3>2. ASSUME a \in first .. (first + size - 1) PROVE a \in {first + k : k \in 0 .. size - 1}
      <4>1. a - first \in 0 .. size - 1 /\ first + (a - first) = a BY <1>4, <1>9, <3>2
      <4> QED BY <4>1
    <3>3. ASSUME a \in {first + k : k \in 0 .. size - 1} PROVE a \in first .. (first + size - 1)
      <4>1. PICK k \in 0 .. size - 1 : a = first + k BY <3>3
      <4> QED BY <1>4, <4>1
    <3> QED BY <3>1, <3>2, <3>3 DEF Span
  <2>6. CASE a \notin Span(first, size) BY <1>8, <2>3, <2>4, <2>5, <2>6
  <2>7. CASE a \in Span(first, size)
    <3>2. \A x : x \in {b - 8 * o : b \in v \cap (8 * o .. 8 * o + 7)}
                   <=> InByte(v, o, x)
      <4>1. ASSUME NEW x, x \in {b - 8 * o : b \in v \cap (8 * o .. 8 * o + 7)}
            PROVE  InByte(v, o, x)
        <5>1. PICK b \in v \cap (8 * o .. 8 * o + 7) : x = b - 8 * o BY <4>1
        <5>2. 8 * o + x = b BY <5>1
        <5> QED BY <5>1, <5>2 DEF InByte
      <4>2. ASSUME NEW x, InByte(v, o, x)
            PROVE  x \in {b - 8 * o : b \in v \cap (8 * o .. 8 * o + 7)}
        <5>1. 8 * o + x \in v \cap (8 * o .. 8 * o + 7) /\ (8 * o + x) - 8 * o = x BY <4>2 DEF InByte
        <5> QED BY <5>1
      <4> QED BY <4>1, <4>2
    <3>3. Byte(t, a) = {b - 8 * o : b \in v \cap (8 * o .. 8 * o + 7)}
      BY <2>4, <2>7, <3>2
    <3>4. a \in StoredAt(last'.addr) BY <1>8, <2>5, <2>7
    <3>5. a % last'.size = o /\ last'.value = v BY <1>8, <2>10 DEF Inside
    <3>6. Byte(storage', a) = {b - 8 * o : b \in last'.value \cap (8 * o .. 8 * o + 7)}
      BY <2>3, <3>3, <3>5
    <3> QED BY <2>1, <3>4, <3>5, <3>6
  <2> QED BY <2>6, <2>7
<1> QED BY <1>10, <1>11

LoadWhole ==
  theme.layout = "memory" /\ last'.name = "load" /\ last'.outcome = "ok" =>
          last'.value = Bytes(storage, last'.size, last'.addr)

LEMMA LoadWholeNext ==
  ASSUME MachineInvariant, Next
  PROVE  LoadWhole
<1> SUFFICES ASSUME theme.layout = "memory", last'.name = "load", last'.outcome = "ok"
             PROVE  last'.value = Bytes(storage, last'.size, last'.addr)
  BY DEF LoadWhole
<1>1. MemoryStep
  <2>1. ~Place BY OpFields DEF Place
  <2> QED BY <2>1 DEF Next, HartStep, RegionStep
<1>2. places = MemoryPlaces /\ theme \in Themes BY <1>1 DEF MemoryStep, MachineInvariant
<1>3. \E size \in {1, 2, 4, 8}, addr \in theme.addrs : MemoryRead(size, addr)
  <2>1. \A size, addr, v : MemoryWrite(size, addr, v) => last'.name = "store" BY DEF MemoryWrite
  <2> QED BY <1>1, <2>1 DEF MemoryStep
<1>4. PICK size, addr : size \in {1, 2, 4, 8} /\ addr \in theme.addrs /\ MemoryRead(size, addr)
  BY <1>3
<1>5. addr \in Nat BY <1>2, <1>4, ThemesAssumption
<1>6. /\ last'.size = size /\ last'.addr = addr
      /\ last'.value = IF addr >= LEN8 THEN {} ELSE VolatileRead(size, addr)
      /\ last'.outcome = IF addr >= LEN8 THEN "OutOfBounds" ELSE "ok"
  BY <1>4 DEF MemoryRead
<1>7. last'.value = RegionRead(storage, View(size), size, addr \div size)
  BY <1>6 DEF VolatileRead
<1>8. PICK q \in Nat : q = addr \div size BY <1>4, <1>5, RoundDown
<1>9. PICK first \in Nat : first = addr - (addr % size) BY <1>4, <1>5, RoundDown
<1>10. first = q * size BY <1>4, <1>5, <1>8, <1>9, RoundDown
<1>11. PICK base \in Int : base = 64 + 8 * first OBVIOUS
<1>12. Base(View(size), size, q) = base BY <1>2, <1>4, <1>10, <1>11, ViewPlace
<1>13. \A x : x \in last'.value <=> x \in 0 .. (8 * size - 1) /\ base + x \in storage
  BY <1>4, <1>7, <1>8, <1>12, ReadMember DEF ElemBits
<1>14. Bytes(storage, size, addr)
         = UNION {{8 * k + b : b \in Byte(storage, first + k)} : k \in 0 .. size - 1}
  BY <1>9 DEF Bytes
<1>15. ASSUME NEW x, x \in last'.value PROVE x \in Bytes(storage, size, addr)
  <2>1. x \in 0 .. (8 * size - 1) /\ base + x \in storage BY <1>13, <1>15
  <2>2. PICK k \in Int : k = x \div 8 BY <1>4, <2>1
  <2>3. PICK b \in Int : b = x % 8 BY <1>4, <2>1
  <2>4. x = 8 * k + b /\ b \in 0 .. 7 /\ k \in 0 .. size - 1 BY <1>4, <2>1, <2>2, <2>3
  <2>5. first + k \in Nat /\ 64 + 8 * (first + k) + b = base + x BY <1>4, <1>11, <2>4
  <2>6. b \in Byte(storage, first + k) BY <1>2, <2>1, <2>4, <2>5, ByteMember
  <2>7. x \in {8 * k + y : y \in Byte(storage, first + k)} BY <2>4, <2>6
  <2>8. {8 * k + y : y \in Byte(storage, first + k)}
          \in {{8 * j + y : y \in Byte(storage, first + j)} : j \in 0 .. size - 1}
    BY <2>4
  <2> QED BY <1>14, <2>7, <2>8
<1>16. ASSUME NEW x, x \in Bytes(storage, size, addr) PROVE x \in last'.value
  <2>1. PICK k \in 0 .. size - 1 : x \in {8 * k + b : b \in Byte(storage, first + k)}
    BY <1>14, <1>16
  <2>2. PICK b \in Byte(storage, first + k) : x = 8 * k + b BY <2>1
  <2>3. first + k \in Nat BY <1>4
  <2>4. b \in 0 .. 7 /\ 64 + 8 * (first + k) + b \in storage BY <1>2, <2>2, <2>3, ByteMember
  <2>5. 64 + 8 * (first + k) + b = base + x /\ x \in 0 .. (8 * size - 1)
    BY <1>4, <1>11, <2>2, <2>4
  <2> QED BY <1>13, <2>4, <2>5
<1> QED BY <1>6, <1>15, <1>16

(***************************************************************************)
(* The operations on several elements of a region.                         *)
(***************************************************************************)
\* Byte offset, element size and number of elements of the three regions.
RegionShape(n, off, size, len) ==
  \/ n = 1 /\ off = 0 /\ size = 1 /\ len = 3
  \/ n = 2 /\ off = 8 /\ size = 8 /\ len = 2
  \/ n = 3 /\ off = 24 /\ size = 4 /\ len = 3

LEMMA RegionPlace ==
  ASSUME places = RegionsPlaces, NEW n \in 1 .. 3
  PROVE  RegionShape(n, Location(n).offset, ElemSize(n), RegionLen(n))
<1>1. n = 1 \/ n = 2 \/ n = 3 OBVIOUS
<1>2. CASE n = 1
  <2>1. Location(n).offset = 0 /\ Location(n).size = 3 BY <1>2 DEF RegionsPlaces, Location, Loc
  <2>2. ElemSize(n) = 1 BY <1>2 DEF ElemSize
  <2> QED BY <1>2, <2>1, <2>2 DEF RegionShape, RegionLen
<1>3. CASE n = 2
  <2>1. Location(n).offset = 8 /\ Location(n).size = 16 BY <1>3 DEF RegionsPlaces, Location, Loc
  <2>2. ElemSize(n) = 8 BY <1>3 DEF ElemSize
  <2> QED BY <1>3, <2>1, <2>2 DEF RegionShape, RegionLen
<1>4. CASE n = 3
  <2>1. Location(n).offset = 24 /\ Location(n).size = 12 BY <1>4 DEF RegionsPlaces, Location, Loc
  <2>2. ElemSize(n) = 4 BY <1>4 DEF ElemSize
  <2> QED BY <1>4, <2>1, <2>2 DEF RegionShape, RegionLen
<1> QED BY <1>1, <1>2, <1>3, <1>4

\* The bits of the storage after a write of several elements, all the same.
SomeBits(s, t, off, size, index, len, v) ==
  \A i \in Int, z \in ElemBits(size) :
    8 * (off + i * size) + z \in t
      <=> IF i \in index .. (index + len - 1) THEN z \in v ELSE 8 * (off + i * size) + z \in s
OutsideSame(s, t, y) == y \in t <=> y \in s
Outside(y, off, size, index, len) == y < 8 * off \/ y >= 8 * (off + size * (index + len))

LEMMA SomeWritten ==
  ASSUME NEW s, NEW l, NEW off \in Nat, l.offset = off, NEW size \in {1, 4, 8},
         NEW index \in Nat, NEW len \in Nat, NEW v, v \subseteq ElemBits(size), NEW values,
         values = [k \in 1 .. len |-> v]
  PROVE  SomeBits(s, RegionWriteSome(s, l, size, index, values), off, size, index, len, v)
<1>1. Len(values) = len /\ DOMAIN values = 1 .. len OBVIOUS
<1>2. PICK base \in Nat : base = off + index * size OBVIOUS
<1>3. PICK t : t = RegionWriteSome(s, l, size, index, values) OBVIOUS
<1>4. t = (s \ (8 * base .. 8 * (base + size * len) - 1))
            \union UNION {{8 * (base + (k - 1) * size) + b : b \in values[k]} : k \in 1 .. len}
  BY <1>1, <1>2, <1>3 DEF RegionWriteSome
<1>5. \A k \in 1 .. len : values[k] = v OBVIOUS
<1>6. PICK added :
        added = UNION {{8 * (base + (k - 1) * size) + b : b \in values[k]} : k \in 1 .. len}
  OBVIOUS
<1>7. \A y : y \in added <=> \E k \in 1 .. len, b \in v : y = 8 * (base + (k - 1) * size) + b
  <2>1. ASSUME NEW y, y \in added
        PROVE  \E k \in 1 .. len, b \in v : y = 8 * (base + (k - 1) * size) + b
    <3>1. PICK k \in 1 .. len : y \in {8 * (base + (k - 1) * size) + b : b \in values[k]}
      BY <1>6, <2>1
    <3> QED BY <1>5, <3>1
  <2>2. ASSUME NEW k \in 1 .. len, NEW b \in v
        PROVE  8 * (base + (k - 1) * size) + b \in added
    <3>1. 8 * (base + (k - 1) * size) + b \in {8 * (base + (k - 1) * size) + c : c \in values[k]}
      BY <1>5
    <3> QED BY <1>6, <3>1
  <2> QED BY <2>1, <2>2
<1> SUFFICES ASSUME NEW i \in Int, NEW z \in ElemBits(size)
             PROVE  8 * (off + i * size) + z \in t
                      <=> IF i \in index .. (index + len - 1) THEN z \in v
                          ELSE 8 * (off + i * size) + z \in s
  BY <1>3 DEF SomeBits
<1>8. z \in 0 .. 8 * size - 1 BY DEF ElemBits
<1>9. PICK y \in Int : y = 8 * (off + i * size) + z BY <1>8
<1>10. y \in t <=> (y \in s /\ y \notin 8 * base .. 8 * (base + size * len) - 1) \/ y \in added
  BY <1>4, <1>6
<1>11. y \in 8 * base .. 8 * (base + size * len) - 1 <=> i \in index .. (index + len - 1)
  <2>1. CASE size = 1 BY <1>2, <1>8, <1>9, <2>1
  <2>2. CASE size = 4 BY <1>2, <1>8, <1>9, <2>2
  <2>3. CASE size = 8 BY <1>2, <1>8, <1>9, <2>3
  <2> QED BY <2>1, <2>2, <2>3
<1>12. y \in added <=> i \in index .. (index + len - 1) /\ z \in v
  <2>1. ASSUME y \in added PROVE i \in index .. (index + len - 1) /\ z \in v
    <3>1. \E k \in 1 .. len, b \in v : y = 8 * (base + (k - 1) * size) + b BY <1>7, <2>1
    <3>2. PICK k, b : k \in 1 .. len /\ b \in v /\ y = 8 * (base + (k - 1) * size) + b BY <3>1
    <3>3. b \in 0 .. 8 * size - 1 BY <3>2 DEF ElemBits
    <3>4. b = z /\ i = index + k - 1
      <4>1. CASE size = 1 BY <1>2, <1>8, <1>9, <3>2, <3>3, <4>1
      <4>2. CASE size = 4 BY <1>2, <1>8, <1>9, <3>2, <3>3, <4>2
      <4>3. CASE size = 8 BY <1>2, <1>8, <1>9, <3>2, <3>3, <4>3
      <4> QED BY <4>1, <4>2, <4>3
    <3> QED BY <3>2, <3>4
  <2>2. ASSUME i \in index .. (index + len - 1), z \in v PROVE y \in added
    <3>1. PICK k \in 1 .. len : k = i - index + 1 BY <2>2
    <3>2. y = 8 * (base + (k - 1) * size) + z
      <4>1. CASE size = 1 BY <1>2, <1>8, <1>9, <3>1, <4>1
      <4>2. CASE size = 4 BY <1>2, <1>8, <1>9, <3>1, <4>2
      <4>3. CASE size = 8 BY <1>2, <1>8, <1>9, <3>1, <4>3
      <4> QED BY <4>1, <4>2, <4>3
    <3> QED BY <1>7, <2>2, <3>1, <3>2
  <2> QED BY <2>1, <2>2
<1>13. y \in t <=> IF i \in index .. (index + len - 1) THEN z \in v ELSE y \in s
  BY <1>10, <1>11, <1>12
<1> QED BY <1>9, <1>13

\* It changes no bit outside its elements.
LEMMA SomeElsewhere ==
  ASSUME NEW s, NEW l, NEW off \in Nat, l.offset = off, NEW size \in {1, 4, 8},
         NEW index \in Nat, NEW len \in Nat, NEW v, v \subseteq ElemBits(size), NEW values,
         values = [k \in 1 .. len |-> v],
         NEW y \in Int, Outside(y, off, size, index, len)
  PROVE  OutsideSame(s, RegionWriteSome(s, l, size, index, values), y)
<1>1. Len(values) = len /\ DOMAIN values = 1 .. len OBVIOUS
<1>2. PICK base \in Nat : base = off + index * size OBVIOUS
<1>3. PICK t : t = RegionWriteSome(s, l, size, index, values) OBVIOUS
<1>4. t = (s \ (8 * base .. 8 * (base + size * len) - 1))
            \union UNION {{8 * (base + (k - 1) * size) + b : b \in values[k]} : k \in 1 .. len}
  BY <1>1, <1>2, <1>3 DEF RegionWriteSome
<1>5. \A k \in 1 .. len : values[k] = v OBVIOUS
<1>8. y < 8 * off \/ y >= 8 * (off + size * (index + len)) BY DEF Outside
<1>6. y \notin 8 * base .. 8 * (base + size * len) - 1
  <2>1. CASE size = 1 BY <1>2, <1>8, <2>1
  <2>2. CASE size = 4 BY <1>2, <1>8, <2>2
  <2>3. CASE size = 8 BY <1>2, <1>8, <2>3
  <2> QED BY <2>1, <2>2, <2>3
<1>7. y \notin UNION {{8 * (base + (k - 1) * size) + b : b \in values[k]} : k \in 1 .. len}
  <2> SUFFICES ASSUME NEW k \in 1 .. len,
                      y \in {8 * (base + (k - 1) * size) + b : b \in values[k]}
               PROVE  FALSE
    OBVIOUS
  <2>1. PICK b \in v : y = 8 * (base + (k - 1) * size) + b BY <1>5
  <2>2. b \in 0 .. 8 * size - 1 BY <2>1 DEF ElemBits
  <2>3. CASE size = 1 BY <1>2, <1>8, <2>1, <2>2, <2>3
  <2>4. CASE size = 4 BY <1>2, <1>8, <2>1, <2>2, <2>4
  <2>5. CASE size = 8 BY <1>2, <1>8, <2>1, <2>2, <2>5
  <2> QED BY <2>3, <2>4, <2>5
<1> QED BY <1>3, <1>4, <1>6, <1>7 DEF OutsideSame

RegionsLocal ==
  theme.layout = "regions" /\ last'.name = "write_some" /\ last'.outcome = "ok" =>
          \A n \in 1 .. 3, i \in 0 .. 2 : i < RegionLen(n) =>
            RegionRead(storage', Location(n), ElemSize(n), i) =
              IF n = last'.region /\ i - last'.index \in 0 .. Len(last'.values) - 1
              THEN last'.values[i - last'.index + 1]
              ELSE RegionRead(storage, Location(n), ElemSize(n), i)

\* An element that the write does not cover, or that is of another region.
ElementAfter(s, t, n, i, m, index, len, v) ==
  RegionRead(t, Location(n), ElemSize(n), i)
    = IF n = m /\ i \in index .. (index + len - 1) THEN v
      ELSE RegionRead(s, Location(n), ElemSize(n), i)

LEMMA ElementWritten ==
  ASSUME places = RegionsPlaces, NEW s, NEW t, NEW n \in 1 .. 3, NEW m \in 1 .. 3,
         NEW i \in Nat, i < RegionLen(n), NEW index \in Nat, NEW len \in Nat,
         index + len <= RegionLen(m), NEW v, v \subseteq ElemBits(ElemSize(m)), NEW values,
         values = [k \in 1 .. len |-> v],
         t = RegionWriteSome(s, Location(m), ElemSize(m), index, values)
  PROVE  ElementAfter(s, t, n, i, m, index, len, v)
<1>1. PICK off, size, length : /\ off = Location(n).offset /\ size = ElemSize(n)
                               /\ length = RegionLen(n)
  OBVIOUS
<1>2. PICK off0, size0, length0 : /\ off0 = Location(m).offset /\ size0 = ElemSize(m)
                                  /\ length0 = RegionLen(m)
  OBVIOUS
<1>3. RegionShape(n, off, size, length) BY <1>1, RegionPlace
<1>4. RegionShape(m, off0, size0, length0) BY <1>2, RegionPlace
<1>5. off \in Nat /\ size \in {1, 4, 8} /\ length \in Nat BY <1>3 DEF RegionShape
<1>6. off0 \in Nat /\ size0 \in {1, 4, 8} /\ length0 \in Nat BY <1>4 DEF RegionShape
<1>7. PICK base \in Int : base = 8 * (off + i * size) BY <1>5
<1>8. Base(Location(n), size, i) = base BY <1>1, <1>7 DEF Base
<1>9. \A z : z \in RegionRead(t, Location(n), size, i) <=> z \in ElemBits(size) /\ base + z \in t
  BY <1>5, <1>7, <1>8, ReadMember
<1>10. \A z : z \in RegionRead(s, Location(n), size, i) <=> z \in ElemBits(size) /\ base + z \in s
  BY <1>5, <1>7, <1>8, ReadMember
<1>11. CASE n = m
  <2>1. off0 = off /\ size0 = size BY <1>1, <1>2, <1>11
  <2>2. t = RegionWriteSome(s, Location(n), size, index, values) /\ v \subseteq ElemBits(size)
    BY <1>1, <1>11
  <2>7. Location(n).offset = off BY <1>1
  <2>8. SomeBits(s, RegionWriteSome(s, Location(n), size, index, values), off, size, index, len, v)
    BY <1>5, <2>2, <2>7, SomeWritten
  <2>3. SomeBits(s, t, off, size, index, len, v) BY <2>2, <2>8
  <2>4. \A z \in ElemBits(size) :
          base + z \in t <=> IF i \in index .. (index + len - 1) THEN z \in v ELSE base + z \in s
    BY <1>7, <2>3 DEF SomeBits
  <2>5. CASE i \in index .. (index + len - 1)
    <3>1. \A z : z \in RegionRead(t, Location(n), size, i) <=> z \in v
      BY <1>9, <2>2, <2>4, <2>5
    <3>2. RegionRead(t, Location(n), size, i) = v BY <3>1
    <3> QED BY <1>1, <1>11, <2>5, <3>2 DEF ElementAfter
  <2>6. CASE i \notin index .. (index + len - 1)
    <3>1. \A z : z \in RegionRead(t, Location(n), size, i)
                   <=> z \in RegionRead(s, Location(n), size, i)
      BY <1>9, <1>10, <2>4, <2>6
    <3>2. RegionRead(t, Location(n), size, i) = RegionRead(s, Location(n), size, i) BY <3>1
    <3> QED BY <1>1, <2>6, <3>2 DEF ElementAfter
  <2> QED BY <2>5, <2>6
<1>12. CASE n # m
  <2>1. ASSUME NEW z \in ElemBits(size) PROVE base + z \in t <=> base + z \in s
    <3>1. z \in 0 .. 8 * size - 1 BY <2>1 DEF ElemBits
    <3>2. PICK y \in Int : y = base + z BY <1>5, <3>1
    <3>3. Outside(y, off0, size0, index, len)
      <4>1. i < length /\ index + len <= length0 BY <1>1, <1>2
      <4>2. /\ n = 1 => 0 <= y /\ y < 24
            /\ n = 2 => 64 <= y /\ y < 192
            /\ n = 3 => 192 <= y /\ y < 288
        <5>1. CASE n = 1
          <6>1. off = 0 /\ size = 1 /\ length = 3 BY <1>3, <5>1 DEF RegionShape
          <6> QED BY <1>7, <3>1, <3>2, <4>1, <5>1, <6>1
        <5>2. CASE n = 2
          <6>1. off = 8 /\ size = 8 /\ length = 2 BY <1>3, <5>2 DEF RegionShape
          <6> QED BY <1>7, <3>1, <3>2, <4>1, <5>2, <6>1
        <5>3. CASE n = 3
          <6>1. off = 24 /\ size = 4 /\ length = 3 BY <1>3, <5>3 DEF RegionShape
          <6> QED BY <1>7, <3>1, <3>2, <4>1, <5>3, <6>1
        <5> QED BY <5>1, <5>2, <5>3
      <4>3. CASE m = 1
        <5>1. off0 = 0 /\ size0 = 1 /\ length0 = 3 BY <1>4, <4>3 DEF RegionShape
        <5> QED BY <1>12, <4>1, <4>2, <4>3, <5>1 DEF Outside
      <4>4. CASE m = 2
        <5>1. off0 = 8 /\ size0 = 8 /\ length0 = 2 BY <1>4, <4>4 DEF RegionShape
        <5> QED BY <1>12, <4>1, <4>2, <4>4, <5>1 DEF Outside
      <4>5. CASE m = 3
        <5>1. off0 = 24 /\ size0 = 4 /\ length0 = 3 BY <1>4, <4>5 DEF RegionShape
        <5> QED BY <1>12, <4>1, <4>2, <4>5, <5>1 DEF Outside
      <4> QED BY <4>3, <4>4, <4>5
    <3>4. v \subseteq ElemBits(size0) BY <1>2
    <3>5. OutsideSame(s, RegionWriteSome(s, Location(m), size0, index, values), y)
      <4>1. Location(m).offset = off0 BY <1>2
      <4> QED BY <1>6, <3>3, <3>4, <4>1, SomeElsewhere
    <3> QED BY <1>2, <3>2, <3>5 DEF OutsideSame
  <2>2. \A z : z \in RegionRead(t, Location(n), size, i)
                 <=> z \in RegionRead(s, Location(n), size, i)
    BY <1>9, <1>10, <2>1
  <2>3. RegionRead(t, Location(n), size, i) = RegionRead(s, Location(n), size, i) BY <2>2
  <2> QED BY <1>1, <1>12, <2>3 DEF ElementAfter
<1> QED BY <1>11, <1>12

LEMMA RegionsLocalNext ==
  ASSUME MachineInvariant, Next
  PROVE  RegionsLocal
<1> SUFFICES ASSUME theme.layout = "regions", last'.name = "write_some", last'.outcome = "ok",
                    NEW n \in 1 .. 3, NEW i \in 0 .. 2, i < RegionLen(n)
             PROVE  RegionRead(storage', Location(n), ElemSize(n), i) =
                      IF n = last'.region /\ i - last'.index \in 0 .. Len(last'.values) - 1
                      THEN last'.values[i - last'.index + 1]
                      ELSE RegionRead(storage, Location(n), ElemSize(n), i)
  BY DEF RegionsLocal
<1>1. RegionStep
  <2>1. ~Place BY OpFields DEF Place
  <2> QED BY <2>1 DEF Next, HartStep, MemoryStep
<1>2. places = RegionsPlaces /\ theme \in Themes BY <1>1 DEF RegionStep, MachineInvariant
<1>3. \E m \in 1 .. 3, index \in 0 .. 2, len \in 1 .. 3, value \in theme.values :
         write_some(m, index, [k \in 1 .. len |-> {b \in value : b < 8 * ElemSize(m)}])
  <2>1. \A m, index, len : read_some(m, index, len) => last'.name = "read_some" BY DEF read_some
  <2> QED BY <1>1, <2>1 DEF RegionStep
<1>4. PICK m, index, len, value :
         /\ m \in 1 .. 3 /\ index \in 0 .. 2 /\ len \in 1 .. 3 /\ value \in theme.values
         /\ write_some(m, index, [k \in 1 .. len |-> {b \in value : b < 8 * ElemSize(m)}])
  BY <1>3
<1>5. PICK v : v = {b \in value : b < 8 * ElemSize(m)} OBVIOUS
<1>6. PICK values : values = [k \in 1 .. len |-> v] OBVIOUS
<1>7. v \subseteq ElemBits(ElemSize(m))
  <2> SUFFICES ASSUME NEW b \in v PROVE b \in ElemBits(ElemSize(m)) OBVIOUS
  <2>1. value \subseteq AllBits BY <1>2, <1>4, ThemesAssumption
  <2>2. b \in 0 .. 63 /\ b < 8 * ElemSize(m) BY <1>5, <2>1 DEF AllBits
  <2>3. ElemSize(m) \in {1, 4, 8} BY <1>4 DEF ElemSize
  <2> QED BY <2>2, <2>3 DEF ElemBits
<1>8. write_some(m, index, values) BY <1>4, <1>5, <1>6
<1>9. Len(values) = len BY <1>4, <1>6
<1>10. /\ last'.region = m /\ last'.index = index /\ last'.values = values
       /\ last'.outcome = IF index + len <= RegionLen(m) THEN "ok" ELSE "panic"
       /\ storage' = IF index + len <= RegionLen(m)
                     THEN RegionWriteSome(storage, Location(m), ElemSize(m), index, values)
                     ELSE storage
  BY <1>8, <1>9 DEF write_some
<1>11. index + len <= RegionLen(m) BY <1>10
<1>12. PICK t : t = storage' OBVIOUS
<1>13. t = RegionWriteSome(storage, Location(m), ElemSize(m), index, values) BY <1>10, <1>11, <1>12
<1>14. i \in Nat /\ index \in Nat /\ len \in Nat /\ m \in 1 .. 3 BY <1>4
<1>15. ElementAfter(storage, t, n, i, m, index, len, v)
  BY <1>2, <1>6, <1>7, <1>11, <1>13, <1>14, ElementWritten
<1>16. i - index \in 0 .. len - 1 <=> i \in index .. (index + len - 1) BY <1>14
<1>17. ASSUME i \in index .. (index + len - 1) PROVE values[i - index + 1] = v
  <2>1. i - index + 1 \in 1 .. len BY <1>14, <1>17
  <2> QED BY <1>6, <2>1
<1> QED BY <1>9, <1>10, <1>12, <1>15, <1>16, <1>17 DEF ElementAfter

\* A store changes the bytes of its element and no other, a load of any width
\* finds the bytes that are stored, a write of several elements changes those
\* elements, and an instruction changes its destination and its control register.
THEOREM StoresAreLocal == Spec => WritesAreLocal
<1> DEFINE Local == StoreLocal /\ LoadWhole /\ RegionsLocal /\ HartLocal
<1>1. MachineInvariant /\ [Next]_vars => [Local]_vars
  BY StoreLocalNext, LoadWholeNext, RegionsLocalNext, HartLocalNext
<1>2. [][Local]_vars => WritesAreLocal
  BY PTL DEF StoreLocal, LoadWhole, RegionsLocal, HartLocal, WritesAreLocal
<1> QED BY <1>1, <1>2, MachineInvariantHolds, PTL DEF Spec
=============================================================================
