---------------------------- MODULE DurableStore ----------------------------
(***************************************************************************)
(* The durable storage a rollup kernel runs on: a tree of nodes, each with *)
(* an optional value of bytes, and the host functions that read and change *)
(* it.  The lower half translates the in-memory store of the kernel SDK    *)
(* (mock/src/state), the upper half the Runtime every kernel calls         *)
(* (host/src/runtime.rs), which checks paths and cuts values into chunks.  *)
(*                                                                         *)
(* A path is the sequence of its steps.  A store is a record with the set  *)
(* `nodes' of the paths that have a node (the root <<>> always has one) and*)
(* the function `vals' from the nodes with a value to that value.  A host  *)
(* function returns a record with its error code, "ok" when it succeeds,   *)
(* and the store it leaves.                                                *)
(***************************************************************************)
EXTENDS Integers, Sequences, SequencesExt, FiniteSets

CONSTANT MAX_FILE_CHUNK_SIZE    \* most bytes one host call reads or writes

ASSUME ChunkAssumption == MAX_FILE_CHUNK_SIZE \in Nat \ {0}

EmptyStore == [nodes |-> {<<>>}, vals |-> <<>>]

Below(p, q) == Len(p) <= Len(q) /\ SubSeq(q, 1, Len(p)) = p
Ancestors(p) == {SubSeq(p, 1, n) : n \in 0 .. Len(p) - 1}
Children(s, p) == {q \in s.nodes : Len(q) = Len(p) + 1 /\ Below(p, q)}
Parent(p) == SubSeq(p, 1, Len(p) - 1)

\* `s' restricted to the nodes of N.
OnNodes(s, N) == [nodes |-> N, vals |-> [q \in DOMAIN s.vals \cap N |-> s.vals[q]]]

has_entry(s, p) == p \in DOMAIN s.vals

-----------------------------------------------------------------------------
(* The in-memory store.                                                    *)

(***************************************************************************)
(* node_delete cuts the subtree at p off its parent, and then every        *)
(* ancestor that has become an empty node.  It returns at once when an     *)
(* ancestor of p is missing.                                               *)
(***************************************************************************)
node_delete(s, p) ==
  LET cut == {q \in s.nodes : ~Below(p, q)}
      IsEmpty(a) == /\ a \notin DOMAIN s.vals
                    /\ \A q \in cut : (Below(a, q) /\ q # a) => q \in Ancestors(p)
      chain == {a \in Ancestors(p) \ {<<>>} :
                  \A c \in Ancestors(p) : Below(a, c) => IsEmpty(c)}
  IN  IF Ancestors(p) \subseteq s.nodes THEN OnNodes(s, cut \ chain) ELSE s

\* node_insert puts the subtree found at `from' in place of the node at p.
node_insert(s, p, src, from) ==
  LET rest == OnNodes(s, {q \in s.nodes : ~Below(p, q)} \cup Ancestors(p))
      Moved(q) == p \o SubSeq(q, Len(from) + 1, Len(q))
      Origin(q) == from \o SubSeq(q, Len(p) + 1, Len(q))
      new == {Moved(q) : q \in {r \in src.nodes : Below(from, r)}}
      newVals == {q \in new : Origin(q) \in DOMAIN src.vals}
  IN  [nodes |-> rest.nodes \cup new,
       vals  |-> [q \in DOMAIN rest.vals \cup newVals |->
                    IF q \in newVals THEN src.vals[Origin(q)] ELSE rest.vals[q]]]

set_value(s, p, v) ==
  [nodes |-> s.nodes \cup Ancestors(p) \cup {p},
   vals  |-> [q \in DOMAIN s.vals \cup {p} |-> IF q = p THEN v ELSE s.vals[q]]]

\* The node stays, without its value: it may be left empty.
delete_value(s, p) ==
  [s EXCEPT !.vals = [q \in DOMAIN s.vals \ {p} |-> s.vals[q]]]

Ok(s) == [err |-> "ok", store |-> s]
Err(e, s) == [err |-> e, store |-> s]

\* The children of a node, its value counted as one ("@").
handle_store_list_size(s, p) ==
  Cardinality(Children(s, p)) + IF has_entry(s, p) THEN 1 ELSE 0

handle_store_has(s, p) ==
  LET value == has_entry(s, p)
      sub == p \in s.nodes /\ Children(s, p) # {}
  IN  CASE ~value /\ ~sub -> "none"
        []  value /\ ~sub -> "value"
        [] ~value /\  sub -> "subtree"
        []  value /\  sub -> "value_with_subtree"

Least(m, n) == IF m < n THEN m ELSE n

\* At most MAX_FILE_CHUNK_SIZE bytes of the value, from the offset on.
handle_store_read(s, p, offset, max_bytes) ==
  IF ~has_entry(s, p) THEN [err |-> "StoreNotAValue", bytes |-> <<>>]
  ELSE IF offset > Len(s.vals[p]) THEN [err |-> "StoreInvalidAccess", bytes |-> <<>>]
  ELSE LET n == Least(MAX_FILE_CHUNK_SIZE, Least(max_bytes, Len(s.vals[p]) - offset))
       IN  [err |-> "ok", bytes |-> SubSeq(s.vals[p], offset + 1, offset + n)]

(***************************************************************************)
(* A write inside the value replaces the bytes it covers; one that reaches *)
(* its end truncates the value at the offset and appends.                  *)
(***************************************************************************)
handle_store_write(s, p, offset, bytes) ==
  LET value == IF has_entry(s, p) THEN s.vals[p] ELSE <<>>
      end == offset + Len(bytes)
      inside == offset < Len(value) /\ end <= Len(value)
  IN  IF Len(bytes) > MAX_FILE_CHUNK_SIZE THEN Err("InputOutputTooLarge", s)
      ELSE IF offset > Len(value) THEN Err("StoreInvalidAccess", s)
      ELSE Ok(set_value(s, p,
                IF inside
                THEN SubSeq(value, 1, offset) \o bytes \o SubSeq(value, end + 1, Len(value))
                ELSE SubSeq(value, 1, offset) \o bytes))

handle_store_delete(s, p) == Ok(node_delete(s, p))

handle_store_delete_value(s, p) == Ok(delete_value(s, p))

handle_store_move(s, from, to) ==
  IF from \in s.nodes THEN Ok(node_insert(node_delete(s, from), to, s, from))
  ELSE Err("StoreNotANode", s)

handle_store_copy(s, from, to) ==
  IF from \in s.nodes THEN Ok(node_insert(s, to, s, from))
  ELSE Err("StoreNotANode", s)

handle_store_value_size(s, p) ==
  IF has_entry(s, p) THEN Len(s.vals[p]) ELSE -1

-----------------------------------------------------------------------------
(* The Runtime of the kernels.                                             *)

check_path_exists(s, p) == handle_store_has(s, p) # "none"
check_path_has_value(s, p) == handle_store_has(s, p) \in {"value", "value_with_subtree"}

store_has(s, p) == handle_store_has(s, p)
has_subtree(s, p) == store_has(s, p) \in {"subtree", "value_with_subtree"}

store_delete(s, p) ==
  IF check_path_exists(s, p) THEN handle_store_delete(s, p) ELSE Err("PathNotFound", s)

store_delete_value(s, p) == handle_store_delete_value(s, p)

store_move(s, from, to) ==
  IF check_path_exists(s, from) THEN handle_store_move(s, from, to)
  ELSE Err("PathNotFound", s)

store_copy(s, from, to) ==
  IF check_path_exists(s, from) THEN handle_store_copy(s, from, to)
  ELSE Err("PathNotFound", s)

store_read(s, p, offset, max_bytes) ==
  IF check_path_has_value(s, p)
  THEN handle_store_read(s, p, offset, Least(MAX_FILE_CHUNK_SIZE, max_bytes))
  ELSE [err |-> "PathNotFound", bytes |-> <<>>]

\* The number of host calls that cover n bytes, one at least.
ChunkCount(n) == IF n = 0 THEN 1 ELSE (n + MAX_FILE_CHUNK_SIZE - 1) \div MAX_FILE_CHUNK_SIZE

Chunk(src, i) ==
  SubSeq(src, (i - 1) * MAX_FILE_CHUNK_SIZE + 1, Least(i * MAX_FILE_CHUNK_SIZE, Len(src)))

\* A long value is written chunk by chunk; the first error stops the loop and
\* leaves the chunks written so far.
store_write(s, p, src, at_offset) ==
  LET Write(r, i) ==
        IF r.err # "ok" THEN r
        ELSE handle_store_write(r.store, p, at_offset + (i - 1) * MAX_FILE_CHUNK_SIZE,
                                Chunk(src, i))
  IN  FoldLeft(Write, Ok(s), [i \in 1 .. ChunkCount(Len(src)) |-> i])

\* What a crash after the first n chunks of a write leaves.
WriteInterrupted(s, p, src, n) ==
  store_write(s, p, SubSeq(src, 1, Least(n * MAX_FILE_CHUNK_SIZE, Len(src))), 0)

store_write_all(s, p, src) == store_write(store_delete_value(s, p).store, p, src, 0)

store_read_all(s, p) ==
  LET length == handle_store_value_size(s, p)
      Read(r, i) ==
        IF r.err # "ok" \/ Len(r.bytes) >= length THEN r
        ELSE LET c == handle_store_read(s, p, Len(r.bytes),
                        Least(MAX_FILE_CHUNK_SIZE, length - Len(r.bytes)))
             IN  [err |-> c.err, bytes |-> r.bytes \o c.bytes]
  IN  IF ~check_path_exists(s, p) THEN [err |-> "PathNotFound", bytes |-> <<>>]
      ELSE IF length = -1 THEN [err |-> "StoreNotAValue", bytes |-> <<>>]
      ELSE FoldLeft(Read, [err |-> "ok", bytes |-> <<>>],
                    [i \in 1 .. ChunkCount(length) |-> i])
=============================================================================
