--------------------------- MODULE KernelStorage ----------------------------
(***************************************************************************)
(* The transactional storage of the kernel SDK (kernel_sdk/storage):       *)
(* `layers' are the paths of the storage and of the transactions that are  *)
(* open on it, in the memory of the kernel, and `store' is the durable     *)
(* storage that holds what is under these paths and survives the kernel.   *)
(*                                                                         *)
(* An object is the subtree of one identifier in a layer and a field one   *)
(* value of it.  A kernel reaches an object through the top layer, by      *)
(* get, create_new or get_or_create, before each access.                   *)
(***************************************************************************)
EXTENDS DurableStore

CONSTANTS Ids,          \* the identifiers of objects
          Fields,       \* the values an object has
          Values,       \* the byte sequences written
          Absent,       \* what a field without a value is mapped to
          MaxDepth,     \* bound: the layers that exist at once
          MaxCrashes    \* bound: how often the kernel is aborted

ASSUME StorageAssumption ==
  /\ \A v \in Values : v \in Seq(0 .. 255)
  /\ MaxDepth \in Nat /\ MaxCrashes \in Nat

VARIABLES store, layers, crashes,
          call   \* the last operation called (no variable of the code)

vars == <<store, layers, crashes, call>>

\* "{prefix}.{n}" for a transaction, the prefix itself for the bottom layer.
LayerPath(n) == <<n>>
Object(layer, id) == Append(layer, id)
FieldOf(layer, id, f) == Append(Object(layer, id), f)

Top == layers[Len(layers)]
stack_depth == Len(layers) - 1

Init ==
  /\ store = EmptyStore
  /\ layers = << LayerPath(1) >>
  /\ crashes = 0
  /\ call = "init"

-----------------------------------------------------------------------------
(* Layers.                                                                 *)

\* A layer without content is copied as one: there is nothing at its path.
force_make_copy(s, layer, name) ==
  LET r == store_copy(s, layer, name)
  IN  IF r.err \in {"ok", "PathNotFound"} THEN Ok(r.store) ELSE r

\* Mutant of consume: an empty transaction is taken for an unchanged one.
Mut_consume(s, self, layer) ==
  IF store_has(s, layer) # "none" THEN store_move(s, layer, self) ELSE Ok(s)

consume(s, self, layer) ==
  IF store_has(s, layer) # "none" THEN store_move(s, layer, self)
  ELSE IF store_has(s, self) # "none" THEN store_delete(s, self)
  ELSE Ok(s)

\* Mutant of discard: the layer is only forgotten.
Mut_discard(s, layer) == Ok(s)

discard(s, layer) ==
  IF store_has(s, layer) # "none" THEN store_delete(s, layer) ELSE Ok(s)

get(layer, id) == has_subtree(store, Object(layer, id))

-----------------------------------------------------------------------------
(* Operations.                                                             *)

begin_transaction ==
  LET name == LayerPath(Len(layers) + 1)
      r == force_make_copy(store, Top, name)
  IN  /\ Len(layers) < MaxDepth
      /\ r.err = "ok"
      /\ store' = r.store
      /\ layers' = Append(layers, name)
      /\ UNCHANGED crashes
      /\ call' = "begin"

commit_transaction ==
  /\ Len(layers) > 1
  /\ store' = consume(store, layers[Len(layers) - 1], Top).store
  /\ layers' = Front(layers)
  /\ UNCHANGED crashes
  /\ call' = "commit"

rollback_transaction ==
  /\ Len(layers) > 1
  /\ store' = discard(store, Top).store
  /\ layers' = Front(layers)
  /\ UNCHANGED crashes
  /\ call' = "rollback"

\* create_new returns an object only where there is none yet.
create_new(id, f, v) ==
  /\ ~get(Top, id)
  /\ store' = store_write_all(store, FieldOf(Top, id, f), v).store
  /\ UNCHANGED <<layers, crashes>>
  /\ call' = "update"

get_or_create(id, f, v) ==
  /\ store' = store_write_all(store, FieldOf(Top, id, f), v).store
  /\ UNCHANGED <<layers, crashes>>
  /\ call' = "update"

\* A field of an object that `get' returned loses its value.
delete_field(id, f) ==
  /\ get(Top, id)
  /\ store' = store_delete_value(store, FieldOf(Top, id, f)).store
  /\ UNCHANGED <<layers, crashes>>
  /\ call' = "update"

\* The object of a missing path: an error, and nothing changes.
delete(id) ==
  /\ store' = store_delete(store, Object(Top, id)).store
  /\ UNCHANGED <<layers, crashes>>
  /\ call' = "update"

(***************************************************************************)
(* The kernel is aborted, between two calls or inside a write, which first *)
(* removes the old value and then writes the new one chunk by chunk: its   *)
(* memory is gone, the durable storage stays as the last host call left    *)
(* it.  The next run opens the storage again with `init'.                  *)
(***************************************************************************)
Abort ==
  /\ crashes < MaxCrashes
  /\ crashes' = crashes + 1
  /\ call' = "abort"
  /\ layers' = << LayerPath(1) >>
  /\ \/ UNCHANGED store
     \/ \E id \in Ids, f \in Fields :
          store' = store_delete_value(store, FieldOf(Top, id, f)).store
     \/ \E id \in Ids, f \in Fields, v \in Values :
          \E n \in 1 .. ChunkCount(Len(v)) - 1 :
            store' = WriteInterrupted(store_delete_value(store, FieldOf(Top, id, f)).store,
                                      FieldOf(Top, id, f), v, n).store

Next ==
  \/ begin_transaction
  \/ commit_transaction
  \/ rollback_transaction
  \/ \E id \in Ids, f \in Fields, v \in Values : create_new(id, f, v)
  \/ \E id \in Ids, f \in Fields, v \in Values : get_or_create(id, f, v)
  \/ \E id \in Ids, f \in Fields : delete_field(id, f)
  \/ \E id \in Ids : delete(id)
  \/ Abort

Spec == Init /\ [][Next]_vars

-----------------------------------------------------------------------------
(* Properties.                                                             *)

Content(s, layer, id, f) ==
  LET p == FieldOf(layer, id, f) IN IF has_entry(s, p) THEN s.vals[p] ELSE Absent

(***************************************************************************)
(* As long as the kernel is not aborted inside a transaction, nothing is   *)
(* left in the durable storage under the name of a transaction that is     *)
(* over: commit moved it, rollback deleted it.  This is what a transaction *)
(* opened on an empty storage depends on, since it copies nothing.         *)
(***************************************************************************)
NoLeftovers ==
  crashes = 0 => \A q \in store.nodes \ {<<>>} : q[1] \in 1 .. Len(layers)

(***************************************************************************)
(* The layers are the stack of storages the module documentation           *)
(* describes.  An abort loses at most the value that was being written to  *)
(* the bottom layer, which is cut short or gone; what it leaves behind of  *)
(* a transaction is seen only by one opened on an empty storage.           *)
(***************************************************************************)
PartialValues ==
  UNION {{SubSeq(v, 1, n * MAX_FILE_CHUNK_SIZE) : n \in 1 .. ChunkCount(Len(v)) - 1} : v \in Values}

Abstract == INSTANCE TransactionalStore WITH
  Keys <- Ids \X Fields,
  Partial <- PartialValues,
  aborted <- crashes > 0,
  stack <- [n \in 1 .. Len(layers) |->
             [k \in Ids \X Fields |-> Content(store, layers[n], k[1], k[2])]]

ImplementsTransactions == Abstract!Spec
=============================================================================
