------------------------ MODULE TransactionalStore --------------------------
(***************************************************************************)
(* What the transactional storage of the kernel SDK promises (module       *)
(* documentation of kernel_sdk/storage): a stack of whole storages.  The   *)
(* bottom one holds the original values; beginning a transaction pushes a  *)
(* copy of the top, every update changes the top only, a commit makes the  *)
(* top the new value of the storage below it, a rollback forgets it.       *)
(*                                                                         *)
(* An abort of the kernel closes all transactions.  It may leave one value *)
(* half written, or gone, where no transaction was open, and it costs a    *)
(* promise: a transaction opened later on an empty storage may find        *)
(* anything in it.                                                         *)
(***************************************************************************)
EXTENDS Integers, Sequences

CONSTANTS Keys,      \* what a storage maps to values
          Values,    \* the values written
          Partial,   \* what an aborted write may leave of them
          Absent     \* the value of a key that has none

VARIABLES stack, aborted, call   \* `call' is the last operation called

Storages == [Keys -> Values \cup Partial \cup {Absent}]
NoContent == [k \in Keys |-> Absent]

Init ==
  /\ stack = << NoContent >>
  /\ aborted = FALSE
  /\ call = "init"

Update(updated) ==
  /\ call' = "update"
  /\ stack' = [stack EXCEPT ![Len(stack)] = updated]
  /\ UNCHANGED aborted

Put(k, v) == Update([stack[Len(stack)] EXCEPT ![k] = v])

\* Several keys lose their value together: all fields of one object.
Remove(gone) ==
  Update([k \in Keys |-> IF k \in gone THEN Absent ELSE stack[Len(stack)][k]])

Begin ==
  /\ call' = "begin"
  /\ \/ stack' = Append(stack, stack[Len(stack)])
     \/ /\ aborted
        /\ stack[Len(stack)] = NoContent
        /\ \E found \in Storages : stack' = Append(stack, found)
  /\ UNCHANGED aborted

Commit ==
  /\ call' = "commit"
  /\ Len(stack) > 1
  /\ UNCHANGED aborted
  /\ stack' = Append(SubSeq(stack, 1, Len(stack) - 2), stack[Len(stack)])

Rollback ==
  /\ call' = "rollback"
  /\ Len(stack) > 1
  /\ stack' = SubSeq(stack, 1, Len(stack) - 1)
  /\ UNCHANGED aborted

Abort ==
  /\ call' = "abort"
  /\ aborted' = TRUE
  /\ \/ stack' = << stack[1] >>
     \/ /\ Len(stack) = 1
        /\ \E k \in Keys, v \in Partial \cup {Absent} :
             stack' = << [stack[1] EXCEPT ![k] = v] >>

Next ==
  \/ \E k \in Keys, v \in Values : Put(k, v)
  \/ \E gone \in SUBSET Keys : Remove(gone)
  \/ Begin
  \/ Commit
  \/ Rollback
  \/ Abort

Spec == Init /\ [][Next]_<<stack, aborted, call>>
=============================================================================
