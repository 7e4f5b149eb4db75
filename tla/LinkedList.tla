----------------------------- MODULE LinkedList -----------------------------
(***************************************************************************)
(* The doubly linked list of the durable storage that holds the delayed    *)
(* inbox of the Etherlink kernel (kernel/src/linked_list.rs).              *)
(*                                                                         *)
(* A list is a record: pointers is the cached front and back pointer, or   *)
(* NoPointers, as the handle holds it and save writes it under /meta;      *)
(* store maps the id of every element under the path of the list to its    *)
(* pointer and its data.  The pointers are copies: the one a handle caches *)
(* for the back and the one stored for the same id are written separately. *)
(***************************************************************************)
EXTENDS Sequences, Functions

CONSTANTS NoPointers,       \* pointers: None
          NoId              \* previous, next: None

Pointer(id, previous, next) == [id |-> id, previous |-> previous, next |-> next]

\* LinkedList::new on a path where no list was saved.
EmptyList == [pointers |-> NoPointers, store |-> <<>>]

is_empty(l) == l.pointers = NoPointers

\* Pointer::read: None when nothing is stored for the id, or no id is given.
Stored(l, id) == id \in DOMAIN l.store

ReadPointer(l, id) == l.store[id].pointer

\* Pointer::save keeps the data of the element.
SavePointer(store, p) ==
    [x \in DOMAIN store \cup {p.id} |->
        IF x = p.id
          THEN [pointer |-> p,
                data |-> IF x \in DOMAIN store THEN store[x].data ELSE NoId]
          ELSE store[x]]

\* Pointer::save followed by save_data.
SaveWithData(store, p, elt) ==
    [x \in DOMAIN store \cup {p.id} |->
        IF x = p.id THEN [pointer |-> p, data |-> elt] ELSE store[x]]

\* Pointer::remove_with_data
RemoveWithData(store, id) == Restrict(store, DOMAIN store \ {id})

\* LinkedList::push.  The penultimate element is the cached back pointer.
push(l, id, elt) ==
    IF Stored(l, id) THEN l
    ELSE IF is_empty(l)
    THEN LET back == Pointer(id, NoId, NoId)
         IN  [pointers |-> [front |-> back, back |-> back],
              store |-> SaveWithData(l.store, back, elt)]
    ELSE LET penultimate == [l.pointers.back EXCEPT !.next = id]
             back        == Pointer(id, penultimate.id, NoId)
         IN  [pointers |-> [l.pointers EXCEPT !.back = back],
              store |-> SaveWithData(SavePointer(l.store, penultimate), back, elt)]

find(l, id) == IF Stored(l, id) THEN l.store[id].data ELSE NoId

\* Does remove find an element under this id?  On a pointer that was saved
\* again after its element was removed, there is no data, and remove returns an
\* error before it changes anything.
Removable(l, id) == ~is_empty(l) /\ Stored(l, id) /\ l.store[id].data # NoId

\* LinkedList::remove on an element it finds: the list that is left.  The
\* neighbours are the ones the stored pointer names, if they are stored.
RemoveStored(l, id) ==
    LET p        == ReadPointer(l, id)
        store    == RemoveWithData(l.store, id)
        hasPrev  == Stored(l, p.previous)
        hasNext  == Stored(l, p.next)
        newFront == [ReadPointer(l, p.next) EXCEPT !.previous = NoId]
        newBack  == [ReadPointer(l, p.previous) EXCEPT !.next = NoId]
        newPrev  == [ReadPointer(l, p.previous) EXCEPT !.next = p.next]
        newNext  == [ReadPointer(l, p.next) EXCEPT !.previous = p.previous]
    IN  CASE ~hasPrev /\ ~hasNext ->
               [pointers |-> NoPointers, store |-> store]
          [] ~hasPrev /\ hasNext ->
               [pointers |-> [l.pointers EXCEPT !.front = newFront],
                store |-> SavePointer(store, newFront)]
          [] hasPrev /\ ~hasNext ->
               [pointers |-> [l.pointers EXCEPT !.back = newBack],
                store |-> SavePointer(store, newBack)]
          [] OTHER ->
               [pointers |-> l.pointers,
                store |-> SavePointer(SavePointer(store, newPrev), newNext)]

\* LinkedList::remove: the list afterwards; find(l, id) is what it returns
\* when Removable, None or an error otherwise.
remove(l, id) == IF Removable(l, id) THEN RemoveStored(l, id) ELSE l

first(l) == IF is_empty(l) THEN NoId ELSE find(l, l.pointers.front.id)

pop_first(l) == IF is_empty(l) THEN l ELSE remove(l, l.pointers.front.id)
=============================================================================
