-------------------------- MODULE MCKernelStorage ---------------------------
(* Instances of KernelStorage for TLC. *)
EXTENDS KernelStorage

\* One value of one chunk and a longer one that is cut into two.
MCValues == {<<1>>, <<0, 1, 1>>}
=============================================================================
