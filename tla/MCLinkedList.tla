---------------------------- MODULE MCLinkedList ----------------------------
(***************************************************************************)
(* The linked list of the delayed inbox against the sequence of elements   *)
(* it stands for: any pushes and removals, every element its own id.       *)
(***************************************************************************)
EXTENDS LinkedList

CONSTANTS Ids

VARIABLES list,         \* the handle and its storage
          contents,     \* the ids pushed and not removed, in order
          pushed        \* the ids ever pushed: each id is pushed once

vars == <<list, contents, pushed>>

Init == list = EmptyList /\ contents = <<>> /\ pushed = {}

Push(id) ==
    /\ id \notin pushed
    /\ list' = push(list, id, id)
    /\ contents' = Append(contents, id)
    /\ pushed' = pushed \cup {id}

Remove(id) ==
    /\ id \in Range(contents)
    /\ list' = remove(list, id)
    /\ contents' = SelectSeq(contents, LAMBDA x : x # id)
    /\ UNCHANGED pushed

Next == \E id \in Ids : Push(id) \/ Remove(id)

Spec == Init /\ [][Next]_vars

\* is_empty ("Returns true if the list contains no elements.") and first
\* ("Returns the first element of the list or `None` if it is empty.") answer
\* what the sequence of pushed and not removed elements answers.
ListIsSequence ==
    /\ is_empty(list) <=> contents = <<>>
    /\ first(list) = IF contents = <<>> THEN NoId ELSE Head(contents)
=============================================================================
