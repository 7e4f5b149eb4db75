------------------------ MODULE KernelStorageProofs --------------------------
(***************************************************************************)
(* Theorems about the transactional storage of the kernel SDK: nothing is  *)
(* left under the name of a transaction that is over, and the layers are   *)
(* the stack of storages that TransactionalStore promises.                 *)
(***************************************************************************)
EXTENDS KernelStorage, SumLemmas, SequenceTheorems

Bytes == Seq(0 .. 255)
Step == Nat \cup Ids \cup Fields
Path == Seq(Step)

-----------------------------------------------------------------------------
(* Paths.                                                                  *)

\* Two paths with the same steps are the same.
LEMMA SamePath ==
    ASSUME NEW p \in Path, NEW q \in Path,
           Len(p) = Len(q), \A i \in 1 .. Len(p) : p[i] = q[i]
    PROVE  p = q
BY SeqEqual DEF Path

\* The steps of a path.
LEMMA PathType ==
    ASSUME NEW p \in Path
    PROVE  Len(p) \in Nat /\ \A i \in 1 .. Len(p) : p[i] \in Step
BY DEF Path

\* A path is below another one when it starts with its steps.
LEMMA BelowSteps ==
    ASSUME NEW p \in Path, NEW q \in Path
    PROVE  Below(p, q) <=> Len(p) <= Len(q) /\ \A i \in 1 .. Len(p) : q[i] = p[i]
<1>0. Len(p) \in Nat /\ Len(q) \in Nat /\ \A i \in 1 .. Len(q) : q[i] \in Step
  BY PathType
<1> SUFFICES ASSUME Len(p) <= Len(q)
             PROVE  SubSeq(q, 1, Len(p)) = p <=> \A i \in 1 .. Len(p) : q[i] = p[i]
  BY DEF Below
<1>1. /\ SubSeq(q, 1, Len(p)) \in Path /\ Len(SubSeq(q, 1, Len(p))) = Len(p)
      /\ \A i \in 1 .. Len(p) : SubSeq(q, 1, Len(p))[i] = q[i]
  BY <1>0, SubSeqProperties DEF Path
<1> QED BY <1>1, SamePath

\* The ancestors of a path are the shorter paths it is below.
LEMMA AncestorSteps ==
    ASSUME NEW p \in Path
    PROVE  \A a : a \in Ancestors(p) <=> a \in Path /\ Len(a) < Len(p) /\ Below(a, p)
<1>0. Len(p) \in Nat /\ \A i \in 1 .. Len(p) : p[i] \in Step
  BY PathType
<1>1. ASSUME NEW n \in 0 .. Len(p) - 1
      PROVE SubSeq(p, 1, n) \in Path /\ Len(SubSeq(p, 1, n)) = n
  BY <1>0, SubSeqProperties DEF Path
<1>2. ASSUME NEW a \in Ancestors(p) PROVE a \in Path /\ Len(a) < Len(p) /\ Below(a, p)
  <2>1. PICK n \in 0 .. Len(p) - 1 : a = SubSeq(p, 1, n)
    BY DEF Ancestors
  <2> QED BY <1>0, <1>1, <2>1 DEF Below
<1>3. ASSUME NEW a \in Path, Len(a) < Len(p), Below(a, p) PROVE a \in Ancestors(p)
  <2>1. Len(a) \in 0 .. Len(p) - 1 /\ a = SubSeq(p, 1, Len(a))
    BY <1>0, <1>3 DEF Below, Path
  <2> QED BY <2>1 DEF Ancestors
<1> QED BY <1>2, <1>3

\* The prefix of length n of a path.
LEMMA Prefix ==
    ASSUME NEW p \in Path, NEW n \in 0 .. Len(p)
    PROVE  /\ SubSeq(p, 1, n) \in Path
           /\ Len(SubSeq(p, 1, n)) = n
           /\ \A i \in 1 .. n : SubSeq(p, 1, n)[i] = p[i]
           /\ Below(SubSeq(p, 1, n), p)
<1>0. Len(p) \in Nat /\ \A i \in 1 .. Len(p) : p[i] \in Step
  BY PathType
<1>1. /\ SubSeq(p, 1, n) \in Path /\ Len(SubSeq(p, 1, n)) = n
      /\ \A i \in 1 .. n : SubSeq(p, 1, n)[i] = p[i]
  BY <1>0, SubSeqProperties DEF Path
<1> QED BY <1>0, <1>1 DEF Below

\* The root and the path of a layer.
LEMMA LayerSteps ==
    ASSUME NEW n \in Nat
    PROVE  <<>> \in Path /\ Len(<<>>) = 0 /\ <<n>> \in Path /\ Len(<<n>>) = 1 /\ <<n>>[1] = n
BY DEF Path, Step

\* The path of a layer or of an object is short.
LEMMA ShortPath ==
    ASSUME NEW p \in Path, Len(p) = 1 \/ Len(p) = 2
    PROVE  Len(p) \in Nat /\ Len(p) <= 2 /\ Len(p) >= 1
<1>1. CASE Len(p) = 1
  BY <1>1
<1>2. CASE Len(p) = 2
  BY <1>2
<1> QED BY <1>1, <1>2

\* Only the root has no step.
LEMMA RootOnly == \A q \in Path : Len(q) = 0 => q = <<>>
<1> SUFFICES ASSUME NEW q \in Path, Len(q) = 0 PROVE q = <<>>
  OBVIOUS
<1>1. <<>> \in Path /\ Len(<<>>) = 0
  BY LayerSteps
<1>2. \A i \in 1 .. Len(q) : q[i] = <<>>[i]
  OBVIOUS
<1>3. Len(q) = Len(<<>>)
  BY <1>1
<1> QED BY <1>1, <1>2, <1>3, SamePath

\* The path of an object.
LEMMA ObjectSteps ==
    ASSUME NEW n \in Nat, NEW id \in Ids
    PROVE  LET p == Object(<<n>>, id)
           IN  p \in Path /\ Len(p) = 2 /\ p[1] = n /\ p[2] = id
<1> DEFINE l == <<n>>
<1>1. l \in Seq(Step) /\ Len(l) = 1 /\ l[1] = n /\ id \in Step
  BY LayerSteps DEF Path, Step
<1> HIDE DEF l
<1>2. LET p == Append(l, id) IN p \in Path /\ Len(p) = 2 /\ p[1] = n /\ p[2] = id
  BY <1>1 DEF Path
<1> QED BY <1>2 DEF Object, l

\* The path of a field.
LEMMA FieldSteps ==
    ASSUME NEW n \in Nat, NEW id \in Ids, NEW f \in Fields
    PROVE  LET p == FieldOf(<<n>>, id, f)
           IN  p \in Path /\ Len(p) = 3 /\ p[1] = n /\ p[2] = id /\ p[3] = f
<1>1. PICK p \in Path : p = Object(<<n>>, id) /\ Len(p) = 2 /\ p[1] = n /\ p[2] = id
  BY ObjectSteps
<1>2. f \in Step
  BY DEF Step
<1>3. Append(p, f) \in Path /\ Len(Append(p, f)) = 3
  <2>1. p \in Seq(Step)
    BY DEF Path
  <2>2. Append(p, f) \in Seq(Step)
    BY <1>2, <2>1
  <2>3. Len(Append(p, f)) = Len(p) + 1
    BY <1>2, <2>1
  <2>4. Len(Append(p, f)) = 3
    BY <1>1, <2>3, PathType
  <2> QED BY <2>2, <2>4 DEF Path
<1>4. Append(p, f)[1] = n /\ Append(p, f)[2] = id /\ Append(p, f)[3] = f
  BY <1>1, <1>2 DEF Path
<1> QED BY <1>1, <1>3, <1>4 DEF FieldOf

\* Paths of fields are equal only for equal steps.
LEMMA FieldEqual ==
    ASSUME NEW n \in Nat, NEW id \in Ids, NEW f \in Fields,
           NEW m \in Nat, NEW id2 \in Ids, NEW g \in Fields
    PROVE  FieldOf(<<n>>, id, f) = FieldOf(<<m>>, id2, g) <=> n = m /\ id = id2 /\ f = g
BY FieldSteps

-----------------------------------------------------------------------------
(* Stores.                                                                 *)

Stored == Values \cup PartialValues

\* What every host call keeps: the nodes are paths of at most three steps,
\* with each node all its ancestors are nodes, no node but the root is left
\* without a field below it, and fields only have values.
WellFormed(s) ==
    /\ s = [nodes |-> s.nodes, vals |-> s.vals]
    /\ s.nodes \subseteq {q \in Path : Len(q) <= 3}
    /\ <<>> \in s.nodes
    /\ \A q \in s.nodes : Ancestors(q) \subseteq s.nodes
    /\ \A q \in s.nodes \ {<<>>} : \E l \in s.nodes : Len(l) = 3 /\ Below(q, l)
    /\ s.vals = [q \in DOMAIN s.vals |-> s.vals[q]]
    /\ \A q \in DOMAIN s.vals : q \in s.nodes /\ Len(q) = 3 /\ s.vals[q] \in Stored

\* The store a kernel starts on.
LEMMA EmptyStoreWF == WellFormed(EmptyStore)
<1> DEFINE s == EmptyStore
<1>1. s.nodes = {<<>>} /\ s.vals = <<>> /\ s = [nodes |-> s.nodes, vals |-> s.vals]
  BY DEF EmptyStore
<1>2. DOMAIN <<>> = {} /\ <<>> = [q \in {} |-> <<>>[q]]
  OBVIOUS
<1>3. <<>> \in Path /\ Len(<<>>) = 0
  BY LayerSteps
<1>4. \A a : a \notin Ancestors(<<>>)
  BY <1>3, AncestorSteps, PathType
<1> HIDE DEF s
<1> QED BY <1>1, <1>2, <1>3, <1>4 DEF WellFormed, s

\* A layer or an object exists exactly when it has a node: the node has a
\* child, and no value.
LEMMA HasNode ==
    ASSUME NEW s, WellFormed(s), NEW p \in Path, Len(p) = 1 \/ Len(p) = 2
    PROVE  /\ store_has(s, p) = IF p \in s.nodes THEN "subtree" ELSE "none"
           /\ check_path_exists(s, p) <=> p \in s.nodes
           /\ has_subtree(s, p) <=> p \in s.nodes
<1>1. ~has_entry(s, p)
  BY DEF WellFormed, has_entry
<1>2. ASSUME p \in s.nodes PROVE Children(s, p) # {}
  <2>1. p # <<>>
    BY LayerSteps
  <2>2. PICK l \in s.nodes : Len(l) = 3 /\ Below(p, l)
    BY <1>2, <2>1 DEF WellFormed
  <2>3. l \in Path
    BY DEF WellFormed
  <2>a. Len(p) \in Nat /\ Len(p) <= 2
    BY PathType
  <2> DEFINE c == SubSeq(l, 1, Len(p) + 1)
  <2>4. Len(p) + 1 \in 0 .. Len(l)
    BY <2>2, <2>a
  <2>5. c \in Path /\ Len(c) = Len(p) + 1 /\ (\A i \in 1 .. Len(p) + 1 : c[i] = l[i]) /\ Below(c, l)
    BY <2>3, <2>4, Prefix
  <2>6. Below(p, c)
    <3>1. \A i \in 1 .. Len(p) : l[i] = p[i]
      BY <2>2, <2>3, BelowSteps
    <3> HIDE DEF c
    <3>2. \A i \in 1 .. Len(p) : c[i] = p[i]
      BY <2>5, <3>1
    <3> QED BY <2>5, <3>2, BelowSteps
  <2> HIDE DEF c
  <2>7. c \in s.nodes
    <3>1. CASE Len(c) = 3
      <4>1. \A i \in 1 .. Len(c) : c[i] = l[i]
        BY <2>5
      <4>2. c = l
        BY <2>2, <2>3, <2>5, <3>1, <4>1, SamePath
      <4> QED BY <4>2
    <3>2. CASE Len(c) # 3
      <4>1. Len(c) < Len(l)
        BY <2>2, <2>5, <2>a, <3>2
      <4>2. c \in Ancestors(l)
        BY <2>3, <2>5, <4>1, AncestorSteps
      <4> QED BY <4>2 DEF WellFormed
    <3> QED BY <3>1, <3>2
  <2> QED BY <2>5, <2>6, <2>7 DEF Children
<1>3. handle_store_has(s, p) = IF p \in s.nodes THEN "subtree" ELSE "none"
  BY <1>1, <1>2 DEF handle_store_has
<1> QED BY <1>3 DEF store_has, check_path_exists, has_subtree

\* Below is a partial order, linear on the paths above one.
LEMMA BelowOrder ==
    ASSUME NEW a \in Path, NEW b \in Path, NEW c \in Path
    PROVE  /\ Below(a, a)
           /\ Below(a, b) /\ Below(b, c) => Below(a, c)
           /\ Below(a, c) /\ Below(b, c) /\ Len(a) <= Len(b) => Below(a, b)
           /\ Below(a, b) /\ Len(a) = Len(b) => a = b
           /\ Below(a, b) => Len(a) <= Len(b)
<1>0. Len(a) \in Nat /\ Len(b) \in Nat /\ Len(c) \in Nat
  BY PathType
<1>1. Below(a, a)
  BY <1>0, BelowSteps
<1>2. Below(a, b) <=> Len(a) <= Len(b) /\ \A i \in 1 .. Len(a) : b[i] = a[i]
  BY BelowSteps
<1>3. Below(b, c) <=> Len(b) <= Len(c) /\ \A i \in 1 .. Len(b) : c[i] = b[i]
  BY BelowSteps
<1>4. Below(a, c) <=> Len(a) <= Len(c) /\ \A i \in 1 .. Len(a) : c[i] = a[i]
  BY BelowSteps
<1>5. Below(a, b) /\ Below(b, c) => Below(a, c)
  BY <1>0, <1>2, <1>3, <1>4
<1>6. Below(a, c) /\ Below(b, c) /\ Len(a) <= Len(b) => Below(a, b)
  BY <1>0, <1>2, <1>3, <1>4
<1>7. Below(a, b) /\ Len(a) = Len(b) => a = b
  BY <1>2, SamePath
<1> QED BY <1>1, <1>2, <1>5, <1>6, <1>7

\* The value of a path, if it has one.
Val(s, q) == IF q \in DOMAIN s.vals THEN s.vals[q] ELSE Absent

\* Cutting a layer or an object off leaves a well-formed store, in which only
\* the values below it are gone.
LEMMA NodeDelete ==
    ASSUME NEW s, WellFormed(s), NEW p \in s.nodes, Len(p) = 1 \/ Len(p) = 2
    PROVE  LET r == node_delete(s, p)
           IN  /\ WellFormed(r)
               /\ r.nodes \subseteq {q \in s.nodes : ~Below(p, q)}
               /\ \A q \in Path : Len(q) = 3 =>
                    Val(r, q) = IF Below(p, q) THEN Absent ELSE Val(s, q)
<1> DEFINE r == node_delete(s, p)
           A == Ancestors(p)
           cut == {q \in s.nodes : ~Below(p, q)}
           IsEmpty(a) == /\ a \notin DOMAIN s.vals
                         /\ \A q \in cut : (Below(a, q) /\ q # a) => q \in A
           chain == {a \in A \ {<<>>} : \A c \in A : Below(a, c) => IsEmpty(c)}
           N == cut \ chain
<1>1. /\ s.nodes \subseteq {q \in Path : Len(q) <= 3} /\ <<>> \in s.nodes
      /\ \A q \in s.nodes : Ancestors(q) \subseteq s.nodes
      /\ \A q \in s.nodes \ {<<>>} : \E l \in s.nodes : Len(l) = 3 /\ Below(q, l)
      /\ \A q \in DOMAIN s.vals : q \in s.nodes /\ Len(q) = 3 /\ s.vals[q] \in Stored
  BY DEF WellFormed
<1>2. p \in Path /\ Len(p) \in Nat /\ Len(p) <= 2 /\ Len(p) >= 1
  <2>1. p \in Path
    BY <1>1
  <2> QED BY <2>1, ShortPath
<1>3. \A a : a \in A <=> a \in Path /\ Len(a) < Len(p) /\ Below(a, p)
  BY <1>2, AncestorSteps
<1>4. r = [nodes |-> N, vals |-> [q \in DOMAIN s.vals \cap N |-> s.vals[q]]]
  BY <1>1 DEF node_delete, OnNodes
<1>5. \A q \in Path : Len(q) \in Nat
  BY PathType
<1>6. \A a \in chain : a \in Path /\ Len(a) < 2 /\ a # <<>>
  BY <1>2, <1>3, <1>5
<1>7. <<>> \in Path /\ Len(<<>>) = 0 /\ \A q \in Path : Len(q) = 0 => q = <<>>
  BY LayerSteps, RootOnly
<1>8. \A a \in chain, x \in cut : Below(a, x) /\ x # a => x \in A
  <2> SUFFICES ASSUME NEW a \in chain, NEW x \in cut, Below(a, x), x # a PROVE x \in A
    OBVIOUS
  <2>1. a \in A /\ Below(a, a)
    BY <1>6, BelowOrder
  <2>2. IsEmpty(a)
    BY <2>1
  <2> QED BY <2>2
<1> HIDE DEF A
<1>9. <<>> \in N
  <2>1. ~Below(p, <<>>)
    BY <1>2, <1>7, BelowOrder
  <2> QED BY <1>1, <2>1
<1>10. ASSUME NEW q \in N PROVE Ancestors(q) \subseteq N
  <2> SUFFICES ASSUME NEW a \in Ancestors(q), a \notin N PROVE FALSE
    OBVIOUS
  <2>1. q \in Path /\ a \in Path /\ a \in s.nodes /\ Len(a) < Len(q) /\ Below(a, q)
    BY <1>1, AncestorSteps
  <2>2. a # q /\ q # <<>>
    BY <1>5, <1>7, <2>1
  <2>3. ~Below(p, a)
    BY <1>2, <2>1, BelowOrder
  <2>4. a \in chain
    BY <2>1, <2>3
  <2>5. q \in A
    BY <1>8, <2>1, <2>2, <2>4
  <2>6. \A c \in A : Below(q, c) => IsEmpty(c)
    <3> SUFFICES ASSUME NEW c \in A, Below(q, c) PROVE IsEmpty(c)
      OBVIOUS
    <3>1. c \in Path
      BY <1>3
    <3>2. Below(a, c)
      BY <2>1, <3>1, BelowOrder
    <3> HIDE DEF IsEmpty
    <3> QED BY <2>4, <3>2
  <2>7. q \in chain
    <3> HIDE DEF IsEmpty
    <3> QED BY <2>2, <2>5, <2>6
  <2> QED BY <2>7
<1>11. ASSUME NEW q \in N \ {<<>>} PROVE \E l \in N : Len(l) = 3 /\ Below(q, l)
  <2>1. q \in Path /\ q \in s.nodes /\ ~Below(p, q) /\ q \notin chain
    BY <1>1
  <2>2. ASSUME NEW x \in cut, Below(q, x), x # <<>>,
               NEW l \in s.nodes, Len(l) = 3, Below(x, l), ~Below(p, l)
        PROVE  l \in N /\ Below(q, l)
    <3>1. l \in Path /\ x \in Path
      BY <1>1
    <3>2. l \notin chain
      BY <1>6, <2>2
    <3>3. Below(q, l)
      BY <2>1, <2>2, <3>1, BelowOrder
    <3> QED BY <2>2, <3>2, <3>3
  <2>3. PICK l \in s.nodes : Len(l) = 3 /\ Below(q, l)
    BY <1>1, <2>1
  <2>4. CASE ~Below(p, l)
    <3>1. Below(q, q)
      BY <2>1, BelowOrder
    <3> QED BY <2>1, <2>2, <2>3, <2>4, <3>1
  <2>5. CASE Below(p, l)
    <3>1. l \in Path
      BY <1>1
    <3>2. Len(q) < Len(p) /\ Below(q, p)
      BY <1>2, <1>5, <2>1, <2>3, <2>5, <3>1, BelowOrder
    <3>3. q \in A
      BY <1>3, <2>1, <3>2
    <3>4. PICK c \in A : Below(q, c) /\ ~IsEmpty(c)
      <4> HIDE DEF IsEmpty
      <4> QED BY <2>1, <3>3
    <3>5. c = q
      <4>1. c \in Path /\ Len(c) < Len(p)
        BY <1>3
      <4>2. Len(q) # 0
        BY <1>7, <2>1
      <4>a. Len(q) <= Len(c)
        BY <2>1, <3>4, <4>1, BelowOrder
      <4>b. Len(q) \in Nat /\ Len(c) \in Nat
        BY <1>5, <2>1, <4>1
      <4>3. Len(q) = 1 /\ Len(c) = 1
        BY <1>2, <3>2, <4>1, <4>2, <4>a, <4>b
      <4> QED BY <2>1, <3>4, <4>1, <4>3, BelowOrder
    <3>6. q \notin DOMAIN s.vals
      <4>1. Len(q) \in Nat
        BY <1>5, <2>1
      <4>2. Len(q) # 3
        BY <1>2, <2>1, <3>2, <4>1 DEF Path
      <4> QED BY <1>1, <4>2
    <3>7. PICK x \in cut : Below(q, x) /\ x # q /\ x \notin A
      BY <3>4, <3>5, <3>6
    <3>8. x \in s.nodes /\ x \in Path /\ ~Below(p, x)
      BY <1>1
    <3>9. x # <<>> /\ Len(p) <= Len(x)
      <4>1. Len(q) # 0
        BY <1>7, <2>1
      <4>2. Len(x) >= Len(q) /\ Len(x) # Len(q)
        BY <2>1, <3>7, <3>8, BelowOrder
      <4> QED BY <1>2, <1>5, <1>7, <2>1, <3>8, <4>1, <4>2
    <3>10. PICK k \in s.nodes : Len(k) = 3 /\ Below(x, k)
      BY <1>1, <3>8, <3>9
    <3>11. ~Below(p, k)
      <4>1. k \in Path
        BY <1>1
      <4> QED BY <1>2, <3>8, <3>9, <3>10, <4>1, BelowOrder
    <3> QED BY <2>2, <3>7, <3>9, <3>10, <3>11
  <2> QED BY <2>4, <2>5
<1>12. \A q \in DOMAIN s.vals : q \in N <=> ~Below(p, q)
  <2> SUFFICES ASSUME NEW q \in DOMAIN s.vals PROVE q \in N <=> ~Below(p, q)
    OBVIOUS
  <2>1. q \in s.nodes /\ Len(q) = 3
    BY <1>1
  <2>2. ~(Len(q) < 2)
    BY <2>1
  <2>3. q \notin chain
    BY <1>6, <2>2
  <2> HIDE DEF chain
  <2> QED BY <2>1, <2>3
<1>13. r.nodes = N /\ r.vals = [q \in DOMAIN s.vals \cap N |-> s.vals[q]]
  BY <1>4
<1>14. N \subseteq {q \in s.nodes : ~Below(p, q)}
  OBVIOUS
<1>15. r = [nodes |-> r.nodes, vals |-> r.vals]
  BY <1>4, <1>13
<1> HIDE DEF r, N
<1>16. DOMAIN r.vals = DOMAIN s.vals \cap N /\ \A q \in DOMAIN r.vals : r.vals[q] = s.vals[q]
  BY <1>13
<1>17. r.vals = [q \in DOMAIN r.vals |-> r.vals[q]]
  BY <1>13
<1>18. \A q \in DOMAIN r.vals : q \in r.nodes /\ Len(q) = 3 /\ r.vals[q] \in Stored
  BY <1>1, <1>13, <1>16
<1>19. r.nodes \subseteq {q \in Path : Len(q) <= 3}
  BY <1>1, <1>13, <1>14
<1>20. WellFormed(r)
  BY <1>9, <1>10, <1>11, <1>13, <1>15, <1>17, <1>18, <1>19 DEF WellFormed
<1>21. \A q \in Path : Len(q) = 3 => Val(r, q) = IF Below(p, q) THEN Absent ELSE Val(s, q)
  BY <1>12, <1>16 DEF Val
<1> QED BY <1>13, <1>14, <1>20, <1>21 DEF r

\* A path of one layer, seen in another one.
InLayer(k, q) == <<k>> \o SubSeq(q, 2, Len(q))

\* Only its first step changes.
LEMMA InLayerSteps ==
    ASSUME NEW q \in Path, Len(q) >= 1, NEW k \in Nat
    PROVE  LET p == InLayer(k, q)
           IN  /\ p \in Path /\ Len(p) = Len(q) /\ p[1] = k
               /\ \A i \in 2 .. Len(q) : p[i] = q[i]
<1>0. PICK N \in Nat : N = Len(q) /\ N >= 1 /\ \A i \in 1 .. N : q[i] \in Step
  BY PathType
<1> DEFINE t == SubSeq(q, 2, N)
           l == <<k>>
<1>1. l \in Seq(Step) /\ Len(l) = 1 /\ l[1] = k
  BY LayerSteps DEF Path
<1>2. t \in Seq(Step) /\ Len(t) = N - 1 /\ \A i \in 1 .. N - 1 : t[i] = q[i + 1]
  <2>1. \A i \in 2 .. N : q[i] \in Step
    BY <1>0
  <2>2. N \in Int /\ 2 \in Int
    OBVIOUS
  <2>3. /\ t \in Seq(Step)
        /\ Len(t) = IF 2 <= N THEN N - 2 + 1 ELSE 0
        /\ \A i \in 1 .. N - 2 + 1 : t[i] = q[2 + i - 1]
    BY <2>1, <2>2, SubSeqProperties
  <2> HIDE DEF t
  <2>4. Len(t) = N - 1
    <3>1. (IF 2 <= N THEN N - 2 + 1 ELSE 0) = N - 1
      BY <1>0
    <3> QED BY <2>3, <3>1
  <2>5. ASSUME NEW i \in 1 .. N - 1 PROVE t[i] = q[i + 1]
    <3>1. i \in 1 .. N - 2 + 1 /\ 2 + i - 1 = i + 1
      OBVIOUS
    <3> QED BY <2>3, <3>1
  <2> QED BY <2>3, <2>4, <2>5
<1> HIDE DEF t, l
<1>3. /\ l \o t \in Seq(Step)
      /\ Len(l \o t) = Len(l) + Len(t)
      /\ \A i \in 1 .. Len(l) + Len(t) : (l \o t)[i] = IF i <= Len(l) THEN l[i] ELSE t[i - Len(l)]
  <2>1. l \in Seq(Step) /\ t \in Seq(Step)
    BY <1>1, <1>2
  <2> QED BY <2>1, ConcatProperties
<1>4. Len(l) + Len(t) = N
  <2>1. 1 + (N - 1) = N
    OBVIOUS
  <2> QED BY <1>1, <1>2, <2>1, Zenon
<1>5. \A i \in 1 .. N : (l \o t)[i] = IF i <= 1 THEN l[i] ELSE t[i - 1]
  BY <1>1, <1>3, <1>4, Zenon
<1>6. (l \o t)[1] = k
  <2>1. 1 \in 1 .. N /\ 1 <= 1
    BY <1>0
  <2> QED BY <1>1, <1>5, <2>1, Zenon
<1>7. ASSUME NEW i \in 2 .. N PROVE (l \o t)[i] = q[i]
  <2>1. i - 1 \in 1 .. N - 1 /\ (i - 1) + 1 = i /\ i \in 1 .. N /\ ~(i <= 1)
    OBVIOUS
  <2>2. (l \o t)[i] = t[i - 1]
    BY <1>5, <2>1, Zenon
  <2>3. t[i - 1] = q[(i - 1) + 1]
    BY <1>2, <2>1, Zenon
  <2> QED BY <2>1, <2>2, <2>3, Zenon
<1>8. Len(l \o t) = N
  BY <1>3, <1>4, Zenon
<1>9. InLayer(k, q) = l \o t
  BY <1>0 DEF InLayer, l, t
<1> QED BY <1>0, <1>3, <1>6, <1>7, <1>8, <1>9, Zenon DEF Path

\* There and back again.
LEMMA InLayerBack ==
    ASSUME NEW q \in Path, Len(q) >= 1, NEW k \in Nat, NEW n \in Nat
    PROVE  /\ q[1] = n => InLayer(n, InLayer(k, q)) = q
           /\ InLayer(n, InLayer(k, q)) = InLayer(n, q)
<1> DEFINE p == InLayer(k, q)
           b == InLayer(n, p)
           c == InLayer(n, q)
<1>0. Len(q) \in Nat
  BY PathType
<1>1. p \in Path /\ Len(p) = Len(q) /\ \A i \in 2 .. Len(q) : p[i] = q[i]
  BY InLayerSteps
<1>2. c \in Path /\ Len(c) = Len(q) /\ c[1] = n /\ \A i \in 2 .. Len(q) : c[i] = q[i]
  BY InLayerSteps
<1> HIDE DEF p, c
<1>3. b \in Path /\ Len(b) = Len(p) /\ b[1] = n /\ \A i \in 2 .. Len(p) : b[i] = p[i]
  BY <1>1, InLayerSteps
<1> HIDE DEF b
<1>4. Len(b) = Len(c) /\ \A i \in 1 .. Len(b) : b[i] = c[i]
  BY <1>0, <1>1, <1>2, <1>3
<1>5. b = c
  BY <1>2, <1>3, <1>4, SamePath
<1>6. q[1] = n => \A i \in 1 .. Len(c) : c[i] = q[i]
  BY <1>0, <1>2
<1>7. q[1] = n => c = q
  BY <1>2, <1>6, SamePath
<1> QED BY <1>5, <1>7 DEF p, b, c

\* A path is below a layer when it has its first step.
LEMMA BelowLayer ==
    ASSUME NEW n \in Nat, NEW q \in Path
    PROVE  Below(<<n>>, q) <=> Len(q) >= 1 /\ q[1] = n
<1> DEFINE l == <<n>>
<1>1. l \in Path /\ Len(l) = 1 /\ l[1] = n
  BY LayerSteps
<1>2. Len(q) \in Nat
  BY PathType
<1> HIDE DEF l
<1>3. Below(l, q) <=> Len(l) <= Len(q) /\ \A i \in 1 .. Len(l) : q[i] = l[i]
  BY <1>1, BelowSteps
<1>4. Below(l, q) <=> Len(q) >= 1 /\ q[1] = n
  BY <1>1, <1>2, <1>3
<1> QED BY <1>4 DEF l

\* r is s with the layer n of src in place of the layer m.
Replaced(r, s, m, src, n) ==
    /\ WellFormed(r)
    /\ \A q \in r.nodes \ {<<>>} : q[1] = m \/ q \in s.nodes
    /\ \A q \in Path : Len(q) = 3 =>
         Val(r, q) = IF q[1] = m THEN Val(src, InLayer(n, q)) ELSE Val(s, q)

\* Putting the layer n of one store in place of the layer m of another one
\* leaves a well-formed store, in which the layer m has the values of n.
LEMMA NodeInsert ==
    ASSUME NEW s, WellFormed(s), NEW src, WellFormed(src),
           NEW m \in Nat, NEW n \in Nat, <<n>> \in src.nodes
    PROVE  Replaced(node_insert(s, <<m>>, src, <<n>>), s, m, src, n)
<1> DEFINE r == node_insert(s, <<m>>, src, <<n>>)
           from == {q \in src.nodes : Below(<<n>>, q)}
           new == {InLayer(m, q) : q \in from}
           newVals == {q \in new : InLayer(n, q) \in DOMAIN src.vals}
           N == {q \in s.nodes : ~Below(<<m>>, q)} \cup {<<>>}
           oldVals == DOMAIN s.vals \cap N
<1>1. /\ s.nodes \subseteq {q \in Path : Len(q) <= 3} /\ <<>> \in s.nodes
      /\ \A q \in s.nodes : Ancestors(q) \subseteq s.nodes
      /\ \A q \in s.nodes \ {<<>>} : \E l \in s.nodes : Len(l) = 3 /\ Below(q, l)
      /\ \A q \in DOMAIN s.vals : q \in s.nodes /\ Len(q) = 3 /\ s.vals[q] \in Stored
  BY DEF WellFormed
<1>2. /\ src.nodes \subseteq {q \in Path : Len(q) <= 3} /\ <<>> \in src.nodes
      /\ \A q \in src.nodes : Ancestors(q) \subseteq src.nodes
      /\ \A q \in src.nodes \ {<<>>} : \E l \in src.nodes : Len(l) = 3 /\ Below(q, l)
      /\ \A q \in DOMAIN src.vals : q \in src.nodes /\ Len(q) = 3 /\ src.vals[q] \in Stored
  BY DEF WellFormed
<1>3. \A q \in Path : Len(q) \in Nat
  BY PathType
<1>4. <<>> \in Path /\ Len(<<>>) = 0 /\ <<m>> \in Path /\ Len(<<m>>) = 1 /\ Len(<<n>>) = 1
  BY LayerSteps
<1>5. Ancestors(<<m>>) = {<<>>}
  <2>1. \A a : a \in Ancestors(<<m>>) <=> a \in Path /\ Len(a) < 1 /\ Below(a, <<m>>)
    BY <1>4, AncestorSteps, Zenon
  <2>2. Below(<<>>, <<m>>)
    <3>1. Len(<<>>) <= Len(<<m>>) /\ \A i \in 1 .. Len(<<>>) : <<m>>[i] = <<>>[i]
      OBVIOUS
    <3> QED BY <1>4, <3>1, BelowSteps, Zenon
  <2>3. \A a \in Path : Len(a) < 1 => a = <<>>
    BY <1>3, RootOnly
  <2>4. Len(<<>>) < 1
    OBVIOUS
  <2> QED BY <1>4, <2>1, <2>2, <2>3, <2>4, Zenon
<1>6. /\ r.nodes = N \cup new
      /\ r.vals = [q \in oldVals \cup newVals |->
                     IF q \in newVals THEN src.vals[InLayer(n, q)]
                     ELSE [x \in oldVals |-> s.vals[x]][q]]
      /\ r = [nodes |-> r.nodes, vals |-> r.vals]
  <2> DEFINE A == Ancestors(<<m>>)
             rest == OnNodes(s, {q \in s.nodes : ~Below(<<m>>, q)} \cup A)
             Moved(q) == <<m>> \o SubSeq(q, Len(<<n>>) + 1, Len(q))
             Origin(q) == <<n>> \o SubSeq(q, Len(<<m>>) + 1, Len(q))
             new0 == {Moved(q) : q \in {x \in src.nodes : Below(<<n>>, x)}}
             vals0 == {q \in new0 : Origin(q) \in DOMAIN src.vals}
  <2>1. r = [nodes |-> rest.nodes \cup new0,
             vals |-> [q \in DOMAIN rest.vals \cup vals0 |->
                         IF q \in vals0 THEN src.vals[Origin(q)] ELSE rest.vals[q]]]
    BY DEF node_insert
  <2>2. rest.nodes = N /\ rest.vals = [q \in oldVals |-> s.vals[q]] /\ DOMAIN rest.vals = oldVals
    BY <1>5 DEF OnNodes
  <2>3. \A q : Moved(q) = InLayer(m, q) /\ Origin(q) = InLayer(n, q)
    <3>1. Len(<<n>>) + 1 = 2 /\ Len(<<m>>) + 1 = 2
      BY <1>4
    <3> QED BY <3>1 DEF InLayer
  <2> HIDE DEF Moved, Origin, rest, oldVals, N, r
  <2>4. new0 = new /\ vals0 = newVals
    BY <2>3
  <2>5. r = [nodes |-> N \cup new,
             vals |-> [q \in oldVals \cup newVals |->
                     IF q \in newVals THEN src.vals[InLayer(n, q)]
                     ELSE [x \in oldVals |-> s.vals[x]][q]]]
    <3> HIDE DEF new0, vals0, new, newVals
    <3> QED BY <2>1, <2>2, <2>3, <2>4, Zenon
  <2> HIDE DEF new, newVals
  <2> QED BY <2>5
<1>7. \A q \in from : q \in Path /\ Len(q) >= 1 /\ Len(q) <= 3 /\ q[1] = n /\ q \in src.nodes
  BY <1>2, BelowLayer
<1>8. ASSUME NEW q \in Path, Len(q) >= 1
      PROVE  q \in new <=> q[1] = m /\ InLayer(n, q) \in src.nodes
  <2>1. ASSUME NEW x \in from, q = InLayer(m, x)
        PROVE  q[1] = m /\ InLayer(n, q) \in src.nodes
    <3>1. x \in Path /\ Len(x) >= 1 /\ x[1] = n /\ x \in src.nodes
      BY <1>7
    <3>2. q[1] = m
      BY <2>1, <3>1, InLayerSteps
    <3>3. InLayer(n, q) = x
      BY <2>1, <3>1, InLayerBack
    <3> QED BY <3>1, <3>2, <3>3
  <2>2. ASSUME q[1] = m, InLayer(n, q) \in src.nodes PROVE q \in new
    <3> DEFINE x == InLayer(n, q)
    <3>1. x \in Path /\ Len(x) = Len(q) /\ x[1] = n
      BY <1>8, InLayerSteps
    <3>2. InLayer(m, x) = q
      BY <1>8, <2>2, InLayerBack
    <3>3. Below(<<n>>, x)
      BY <1>8, <3>1, BelowLayer
    <3>4. x \in from
      BY <2>2, <3>3
    <3> HIDE DEF x, from
    <3> QED BY <3>2, <3>4
  <2> QED BY <2>1, <2>2
<1>9. \A q \in new : q \in Path /\ Len(q) >= 1 /\ Len(q) <= 3 /\ q[1] = m
  <2> SUFFICES ASSUME NEW x \in from
               PROVE  LET q == InLayer(m, x) IN q \in Path /\ Len(q) >= 1 /\ Len(q) <= 3 /\ q[1] = m
    OBVIOUS
  <2>1. x \in Path /\ Len(x) >= 1 /\ Len(x) <= 3
    BY <1>7
  <2> QED BY <2>1, InLayerSteps
<1>10. \A q \in Path : Below(<<m>>, q) <=> Len(q) >= 1 /\ q[1] = m
  BY BelowLayer
<1> HIDE DEF from, new, r
<1>11. <<>> \in N /\ N \subseteq s.nodes /\ N \subseteq {q \in Path : Len(q) <= 3}
  BY <1>1
<1>12. ASSUME NEW q \in N PROVE Ancestors(q) \subseteq N
  <2> SUFFICES ASSUME NEW a \in Ancestors(q) PROVE a \in N
    OBVIOUS
  <2>1. q \in Path /\ q \in s.nodes /\ (Below(<<m>>, q) => q = <<>>)
    BY <1>1
  <2>2. a \in Path /\ Len(a) < Len(q) /\ Below(a, q) /\ a \in s.nodes
    BY <1>1, <2>1, AncestorSteps
  <2>3. q # <<>>
    BY <1>3, <1>4, <2>1, <2>2
  <2>4. ~Below(<<m>>, a)
    BY <1>4, <2>1, <2>2, <2>3, BelowOrder
  <2> QED BY <2>2, <2>4
<1>13. ASSUME NEW q \in N \ {<<>>} PROVE \E l \in N : Len(l) = 3 /\ Below(q, l)
  <2>1. q \in Path /\ q \in s.nodes /\ ~Below(<<m>>, q) /\ q # <<>>
    BY <1>1
  <2>2. PICK l \in s.nodes : Len(l) = 3 /\ Below(q, l)
    BY <1>1, <2>1
  <2>3. l \in Path
    BY <1>1
  <2>4. Len(q) # 0
    BY <2>1, RootOnly
  <2>5. 1 <= Len(q)
    BY <1>3, <2>1, <2>4
  <2>6. ~Below(<<m>>, l)
    BY <1>4, <2>1, <2>2, <2>3, <2>5, BelowOrder
  <2> QED BY <2>2, <2>6
<1>14. ASSUME NEW q \in new PROVE Ancestors(q) \subseteq N \cup new
  <2> SUFFICES ASSUME NEW a \in Ancestors(q), a # <<>> PROVE a \in new
    BY <1>11
  <2>1. q \in Path /\ Len(q) >= 1 /\ q[1] = m
    BY <1>9
  <2>2. a \in Path /\ Len(a) < Len(q) /\ Below(a, q)
    BY <2>1, AncestorSteps
  <2>3. Len(a) >= 1
    BY <1>3, <2>2, RootOnly
  <2> DEFINE x == InLayer(n, q)
             b == InLayer(n, a)
  <2>4. x \in src.nodes /\ x \in Path /\ Len(x) = Len(q) /\ x[1] = n /\ \A i \in 2 .. Len(q) : x[i] = q[i]
    BY <1>8, <2>1, InLayerSteps
  <2>5. b \in Path /\ Len(b) = Len(a) /\ b[1] = n /\ \A i \in 2 .. Len(a) : b[i] = a[i]
    BY <2>2, <2>3, InLayerSteps
  <2>6. \A i \in 1 .. Len(a) : q[i] = a[i]
    BY <2>1, <2>2, BelowSteps
  <2>7. Len(a) \in Nat /\ Len(q) \in Nat
    BY <1>3, <2>1, <2>2
  <2> HIDE DEF x, b
  <2>8. \A i \in 1 .. Len(b) : x[i] = b[i]
    BY <2>2, <2>3, <2>4, <2>5, <2>6, <2>7
  <2>9. Below(b, x)
    BY <2>2, <2>4, <2>5, <2>7, <2>8, BelowSteps
  <2>10. b \in Ancestors(x)
    BY <2>2, <2>4, <2>5, <2>9, AncestorSteps
  <2>11. b \in src.nodes
    BY <1>2, <2>4, <2>10
  <2>12. a[1] = m
    BY <2>1, <2>3, <2>6, <2>7
  <2> QED BY <1>8, <2>2, <2>3, <2>11, <2>12 DEF b
<1>15. ASSUME NEW q \in new PROVE \E l \in new : Len(l) = 3 /\ Below(q, l)
  <2>1. q \in Path /\ Len(q) >= 1 /\ q[1] = m
    BY <1>9
  <2> DEFINE x == InLayer(n, q)
  <2>2. x \in src.nodes /\ x \in Path /\ Len(x) = Len(q) /\ x[1] = n /\ \A i \in 2 .. Len(q) : x[i] = q[i]
    BY <1>8, <2>1, InLayerSteps
  <2> HIDE DEF x
  <2>3. x # <<>>
    BY <1>4, <2>1, <2>2
  <2>4. PICK k \in src.nodes : Len(k) = 3 /\ Below(x, k)
    BY <1>2, <2>2, <2>3
  <2>5. k \in Path /\ Len(x) <= Len(k) /\ \A i \in 1 .. Len(x) : k[i] = x[i]
    BY <1>2, <2>2, <2>4, BelowSteps
  <2>6. Len(q) \in Nat
    BY <1>3, <2>1
  <2>7. k[1] = n
    BY <2>1, <2>2, <2>5, <2>6
  <2> DEFINE l == InLayer(m, k)
  <2>8. Len(k) >= 1
    BY <2>4
  <2>9. l \in Path /\ Len(l) = 3 /\ l[1] = m /\ \A i \in 2 .. 3 : l[i] = k[i]
    <3>1. l \in Path /\ Len(l) = Len(k) /\ l[1] = m /\ \A i \in 2 .. Len(k) : l[i] = k[i]
      BY <2>5, <2>8, InLayerSteps
    <3> QED BY <2>4, <3>1, Zenon
  <2>10. InLayer(n, l) = k
    BY <2>5, <2>7, <2>8, InLayerBack
  <2> HIDE DEF l
  <2>11. Len(l) >= 1
    BY <2>9
  <2>12. l \in new
    BY <1>8, <2>9, <2>10, <2>11
  <2>13. \A i \in 1 .. Len(q) : l[i] = q[i]
    BY <2>1, <2>2, <2>4, <2>5, <2>6, <2>9
  <2>14. Below(q, l)
    BY <2>1, <2>2, <2>4, <2>5, <2>9, <2>13, BelowSteps
  <2> QED BY <2>9, <2>12, <2>14
<1>16. \A q \in Path : Len(q) = 3 /\ q[1] = m =>
          (q \in newVals <=> InLayer(n, q) \in DOMAIN src.vals)
  <2> SUFFICES ASSUME NEW q \in Path, Len(q) = 3, q[1] = m
               PROVE  q \in newVals <=> InLayer(n, q) \in DOMAIN src.vals
    OBVIOUS
  <2>1. Len(q) >= 1
    OBVIOUS
  <2>2. InLayer(n, q) \in DOMAIN src.vals => q \in new
    BY <1>2, <1>8, <2>1
  <2> QED BY <2>2
<1>17. \A q \in newVals : q \in new /\ Len(q) = 3 /\ src.vals[InLayer(n, q)] \in Stored
  <2> SUFFICES ASSUME NEW q \in newVals
               PROVE  q \in new /\ Len(q) = 3 /\ src.vals[InLayer(n, q)] \in Stored
    OBVIOUS
  <2>1. q \in Path /\ Len(q) >= 1 /\ q \in new /\ InLayer(n, q) \in DOMAIN src.vals
    BY <1>9
  <2>2. Len(InLayer(n, q)) = Len(q)
    BY <2>1, InLayerSteps
  <2> QED BY <1>2, <2>1, <2>2
<1>18. \A q \in Path : Len(q) = 3 =>
         (q \in oldVals <=> q \in DOMAIN s.vals /\ q[1] # m)
  <2> SUFFICES ASSUME NEW q \in Path, Len(q) = 3
               PROVE  q \in oldVals <=> q \in DOMAIN s.vals /\ q[1] # m
    OBVIOUS
  <2>1. Len(q) >= 1 /\ q # <<>>
    <3>1. 3 # 0 /\ Len(q) >= 1
      OBVIOUS
    <3> QED BY <1>4, <3>1, Zenon
  <2>2. Below(<<m>>, q) <=> q[1] = m
    BY <1>10, <2>1
  <2> QED BY <1>1, <2>1, <2>2
<1> HIDE DEF N, newVals, oldVals
<1>19. DOMAIN r.vals = oldVals \cup newVals
       /\ \A q \in DOMAIN r.vals :
             r.vals[q] = IF q \in newVals THEN src.vals[InLayer(n, q)] ELSE s.vals[q]
  BY <1>6
<1>20. oldVals \subseteq DOMAIN s.vals \cap N
  BY DEF oldVals
<1>21. WellFormed(r)
  <2>1. r.nodes \subseteq {q \in Path : Len(q) <= 3}
    BY <1>6, <1>9, <1>11
  <2>2. <<>> \in r.nodes
    BY <1>6, <1>11
  <2>3. \A q \in r.nodes : Ancestors(q) \subseteq r.nodes
    BY <1>6, <1>12, <1>14
  <2>4. \A q \in r.nodes \ {<<>>} : \E l \in r.nodes : Len(l) = 3 /\ Below(q, l)
    BY <1>6, <1>13, <1>15
  <2>5. r.vals = [q \in DOMAIN r.vals |-> r.vals[q]]
    BY <1>6
  <2>6. \A q \in DOMAIN r.vals : q \in r.nodes /\ Len(q) = 3 /\ r.vals[q] \in Stored
    BY <1>1, <1>6, <1>17, <1>19, <1>20
  <2>7. r = [nodes |-> r.nodes, vals |-> r.vals]
    BY <1>6
  <2> QED BY <2>1, <2>2, <2>3, <2>4, <2>5, <2>6, <2>7 DEF WellFormed
<1>22. \A q \in r.nodes \ {<<>>} : q[1] = m \/ q \in s.nodes
  BY <1>6, <1>9, <1>11
<1>23. ASSUME NEW q \in Path, Len(q) = 3
       PROVE  Val(r, q) = IF q[1] = m THEN Val(src, InLayer(n, q)) ELSE Val(s, q)
  <2>1. CASE q[1] = m
    <3>1. q \notin oldVals /\ (q \in newVals <=> InLayer(n, q) \in DOMAIN src.vals)
      BY <1>16, <1>18, <1>23, <2>1
    <3> QED BY <1>19, <2>1, <3>1 DEF Val
  <2>2. CASE q[1] # m
    <3>1. q \notin newVals /\ (q \in oldVals <=> q \in DOMAIN s.vals)
      BY <1>9, <1>17, <1>18, <1>23, <2>2
    <3> QED BY <1>19, <2>2, <3>1 DEF Val
  <2> QED BY <2>1, <2>2
<1>24. Replaced(r, s, m, src, n)
  BY <1>21, <1>22, <1>23 DEF Replaced
<1> QED BY <1>24 DEF r

\* Giving a field a value.
LEMMA SetValue ==
    ASSUME NEW s, WellFormed(s), NEW p \in Path, Len(p) = 3, NEW v \in Stored
    PROVE  LET r == set_value(s, p, v)
           IN  /\ WellFormed(r)
               /\ \A q \in r.nodes \ {<<>>} : q[1] = p[1] \/ q \in s.nodes
               /\ \A q : Val(r, q) = IF q = p THEN v ELSE Val(s, q)
<1> DEFINE r == set_value(s, p, v)
<1>1. /\ s.nodes \subseteq {q \in Path : Len(q) <= 3} /\ <<>> \in s.nodes
      /\ \A q \in s.nodes : Ancestors(q) \subseteq s.nodes
      /\ \A q \in s.nodes \ {<<>>} : \E l \in s.nodes : Len(l) = 3 /\ Below(q, l)
      /\ \A q \in DOMAIN s.vals : q \in s.nodes /\ Len(q) = 3 /\ s.vals[q] \in Stored
  BY DEF WellFormed
<1>2. /\ r.nodes = s.nodes \cup Ancestors(p) \cup {p}
      /\ r.vals = [q \in DOMAIN s.vals \cup {p} |-> IF q = p THEN v ELSE s.vals[q]]
      /\ r = [nodes |-> r.nodes, vals |-> r.vals]
  BY DEF set_value
<1> HIDE DEF r
<1>3. \A a : a \in Ancestors(p) <=> a \in Path /\ Len(a) < Len(p) /\ Below(a, p)
  BY AncestorSteps
<1>4. \A a \in Ancestors(p) : a \in Path /\ Len(a) <= 3
  <2> SUFFICES ASSUME NEW a \in Ancestors(p) PROVE a \in Path /\ Len(a) <= 3
    OBVIOUS
  <2>1. a \in Path /\ Len(a) < 3
    BY <1>3
  <2>2. Len(a) \in Nat
    BY <2>1, PathType
  <2> QED BY <2>1, <2>2
<1>5. r.nodes \subseteq {q \in Path : Len(q) <= 3}
  <2>1. Len(p) <= 3
    OBVIOUS
  <2> QED BY <1>1, <1>2, <1>4, <2>1
<1>6. ASSUME NEW q \in r.nodes PROVE Ancestors(q) \subseteq r.nodes
  <2>1. CASE q \in s.nodes
    BY <1>1, <1>2, <2>1
  <2>2. CASE q = p
    BY <1>2, <2>2
  <2>3. CASE q \in Ancestors(p)
    <3> SUFFICES ASSUME NEW a \in Ancestors(q) PROVE a \in Ancestors(p)
      BY <1>2
    <3>1. q \in Path /\ Len(q) < Len(p) /\ Below(q, p)
      BY <1>3, <2>3
    <3>2. a \in Path /\ Len(a) < Len(q) /\ Below(a, q)
      BY <3>1, AncestorSteps
    <3>3. Below(a, p)
      BY <3>1, <3>2, BelowOrder
    <3>4. Len(a) < Len(p)
      BY <3>1, <3>2, PathType
    <3> QED BY <1>3, <3>2, <3>3, <3>4
  <2> QED BY <1>2, <2>1, <2>2, <2>3
<1>7. ASSUME NEW q \in r.nodes \ {<<>>} PROVE \E l \in r.nodes : Len(l) = 3 /\ Below(q, l)
  <2>1. CASE q \in s.nodes
    BY <1>1, <1>2, <2>1
  <2>2. CASE q \in Ancestors(p) \cup {p}
    <3>1. Below(q, p)
      BY <1>3, <2>2, BelowOrder
    <3> QED BY <1>2, <3>1
  <2> QED BY <1>2, <2>1, <2>2
<1>8. \A q \in DOMAIN r.vals : q \in r.nodes /\ Len(q) = 3 /\ r.vals[q] \in Stored
  BY <1>1, <1>2
<1>9. r.vals = [q \in DOMAIN r.vals |-> r.vals[q]]
  BY <1>2
<1>10. WellFormed(r)
  BY <1>1, <1>2, <1>5, <1>6, <1>7, <1>8, <1>9 DEF WellFormed
<1>11. ASSUME NEW q \in Ancestors(p), q # <<>> PROVE q[1] = p[1]
  <2>1. q \in Path /\ Len(q) < Len(p) /\ Below(q, p)
    BY <1>3
  <2>2. Len(q) \in Nat /\ Len(q) # 0
    BY <1>11, <2>1, PathType, RootOnly
  <2>3. \A i \in 1 .. Len(q) : p[i] = q[i]
    BY <2>1, BelowSteps
  <2>4. 1 \in 1 .. Len(q)
    BY <2>2
  <2> QED BY <2>3, <2>4
<1>12. \A q \in r.nodes \ {<<>>} : q[1] = p[1] \/ q \in s.nodes
  BY <1>2, <1>11
<1>13. \A q : Val(r, q) = IF q = p THEN v ELSE Val(s, q)
  BY <1>2 DEF Val
<1> QED BY <1>10, <1>12, <1>13 DEF r

\* Taking the value of a field away: its node stays.
LEMMA DeleteValue ==
    ASSUME NEW s, WellFormed(s), NEW p
    PROVE  LET r == delete_value(s, p)
           IN  /\ WellFormed(r)
               /\ r.nodes = s.nodes
               /\ p \notin DOMAIN r.vals
               /\ \A q : Val(r, q) = IF q = p THEN Absent ELSE Val(s, q)
<1> DEFINE r == delete_value(s, p)
           V == [q \in DOMAIN s.vals \ {p} |-> s.vals[q]]
<1>1. s = [nodes |-> s.nodes, vals |-> s.vals]
  BY DEF WellFormed
<1>2. r = [s EXCEPT !.vals = V]
  BY DEF delete_value
<1> HIDE DEF V, r
<1>3. r = [nodes |-> s.nodes, vals |-> V]
  BY <1>1, <1>2
<1>4. r.nodes = s.nodes /\ r.vals = V /\ r = [nodes |-> r.nodes, vals |-> r.vals]
  BY <1>3
<1>5. DOMAIN V = DOMAIN s.vals \ {p} /\ (\A q \in DOMAIN V : V[q] = s.vals[q])
      /\ V = [q \in DOMAIN V |-> V[q]]
  BY DEF V
<1>6. WellFormed(r)
  BY <1>4, <1>5 DEF WellFormed
<1>7. \A q : Val(r, q) = IF q = p THEN Absent ELSE Val(s, q)
  BY <1>4, <1>5 DEF Val
<1> QED BY <1>4, <1>5, <1>6, <1>7 DEF r

-----------------------------------------------------------------------------
(* A long value is written in chunks: the folds of store_write.            *)

M == MAX_FILE_CHUNK_SIZE

\* One host call of store_write, unless an earlier one has failed.
WriteChunk(p, src, r, i) ==
    IF r.err # "ok" THEN r
    ELSE handle_store_write(r.store, p, 0 + (i - 1) * M, Chunk(src, i))

\* g maps each set of chunk numbers to what writing them in order leaves.
WriteTable(s, p, src, seq, k, g) ==
    g = [u \in SUBSET (1 .. k) |->
           IF u = {} THEN Ok(s)
           ELSE WriteChunk(p, src, g[u \ {Max(u)}], seq[Max(u)])]

\* A set of chunk numbers has a greatest element.
LEMMA MaxChunk ==
    ASSUME NEW k \in Nat, NEW u \in SUBSET (1 .. k), u # {}
    PROVE  Max(u) \in u /\ \A y \in u : Max(u) >= y
<1> DEFINE T == {j \in 0 .. k : (\E x \in u : x <= j) => \E x \in u : x <= j /\ \A y \in u : y <= j => y <= x}
<1>1. 0 \in T
  OBVIOUS
<1>2. ASSUME NEW j \in 0 .. k - 1, j \in T PROVE j + 1 \in T
  <2> SUFFICES ASSUME NEW z \in u, z <= j + 1
               PROVE  \E x \in u : x <= j + 1 /\ \A y \in u : y <= j + 1 => y <= x
    OBVIOUS
  <2>1. CASE j + 1 \in u
    BY <2>1
  <2>2. CASE j + 1 \notin u
    <3>1. \A y \in u : y <= j + 1 => y <= j
      BY <2>2
    <3>2. PICK x \in u : x <= j /\ \A y \in u : y <= j => y <= x
      BY <1>2, <3>1
    <3> QED BY <3>1, <3>2
  <2> QED BY <2>1, <2>2
<1>3. k \in T
  <2> HIDE DEF T
  <2>1. \A n \in 0 .. k : n \in T
    BY <1>1, <1>2, UpTo
  <2> QED BY <2>1
<1>4. PICK x \in u : \A y \in u : y <= x
  <2>1. \A y \in u : y <= k
    OBVIOUS
  <2>2. \E x \in u : x <= k
    BY <2>1
  <2>3. \E x \in u : x <= k /\ \A y \in u : y <= k => y <= x
    BY <1>3, <2>2
  <2> QED BY <2>1, <2>3
<1>5. \E x1 \in u : \A y \in u : x1 >= y
  BY <1>4
<1> QED BY <1>5, Zenon DEF Max

\* The table exists for every number of chunks.
LEMMA WriteTableExists ==
    ASSUME NEW s, NEW p, NEW src, NEW seq, NEW K \in Nat
    PROVE  \E g : WriteTable(s, p, src, seq, K, g)
<1> DEFINE T == {k \in 0 .. K : \E g : WriteTable(s, p, src, seq, k, g)}
           W(r, i) == WriteChunk(p, src, r, i)
<1>1. 0 \in T
  <2>1. \A u \in SUBSET (1 .. 0) : u = {}
    OBVIOUS
  <2> DEFINE g == [u \in SUBSET (1 .. 0) |-> Ok(s)]
  <2>2. WriteTable(s, p, src, seq, 0, g)
    BY <2>1 DEF WriteTable
  <2> HIDE DEF g
  <2> QED BY <2>2
<1>2. ASSUME NEW k \in 0 .. K - 1, k \in T PROVE k + 1 \in T
  <2>1. PICK g : WriteTable(s, p, src, seq, k, g)
    BY <1>2
  <2>2. \A u \in SUBSET (1 .. k) : g[u] = IF u = {} THEN Ok(s) ELSE W(g[u \ {Max(u)}], seq[Max(u)])
    <3> HIDE DEF W
    <3> QED BY <2>1 DEF WriteTable, W
  <2> DEFINE h == [u \in SUBSET (1 .. k + 1) |->
                     IF k + 1 \in u THEN W(g[u \ {k + 1}], seq[k + 1]) ELSE g[u]]
  <2>3. ASSUME NEW u \in SUBSET (1 .. k + 1)
        PROVE  h[u] = IF u = {} THEN Ok(s) ELSE W(h[u \ {Max(u)}], seq[Max(u)])
    <3> HIDE DEF W
    <3>1. CASE k + 1 \in u
      <4>1. Max(u) = k + 1
        <5> DEFINE mx == Max(u)
        <5>1. mx \in u /\ \A y \in u : mx >= y
          BY <3>1, MaxChunk
        <5> HIDE DEF mx
        <5>2. mx \in 1 .. k + 1 /\ mx >= k + 1
          BY <3>1, <5>1
        <5>3. mx = k + 1
          BY <5>2
        <5> QED BY <5>3 DEF mx
      <4>2. h[u] = W(g[u \ {k + 1}], seq[k + 1])
        BY <3>1
      <4>3. h[u \ {k + 1}] = g[u \ {k + 1}]
        OBVIOUS
      <4> HIDE DEF h
      <4> QED BY <3>1, <4>1, <4>2, <4>3
    <3>2. CASE k + 1 \notin u
      <4>1. u \in SUBSET (1 .. k)
        BY <3>2
      <4>2. h[u] = g[u] /\ h[u \ {Max(u)}] = g[u \ {Max(u)}]
        BY <3>2
      <4> HIDE DEF h
      <4> QED BY <2>2, <4>1, <4>2
    <3> QED BY <3>1, <3>2
  <2>4. h = [u \in SUBSET (1 .. k + 1) |-> h[u]]
    OBVIOUS
  <2> HIDE DEF h
  <2>5. WriteTable(s, p, src, seq, k + 1, h)
    <3> HIDE DEF W
    <3>1. h = [u \in SUBSET (1 .. k + 1) |-> IF u = {} THEN Ok(s) ELSE W(h[u \ {Max(u)}], seq[Max(u)])]
      BY <2>3, <2>4
    <3> QED BY <3>1 DEF WriteTable, W
  <2> QED BY <2>5
<1>3. K \in T
  <2> HIDE DEF T
  <2>1. \A n \in 0 .. K : n \in T
    BY <1>1, <1>2, UpTo
  <2> QED BY <2>1
<1> QED BY <1>3

\* store_write is the last entry of its table, and every entry follows from
\* the one before.
Unfolding(s, p, src, K, w) ==
    /\ w[0] = Ok(s)
    /\ \A i \in 1 .. K : w[i] = WriteChunk(p, src, w[i - 1], i)
    /\ store_write(s, p, src, 0) = w[K]

LEMMA WriteUnfolds ==
    ASSUME NEW s, NEW p, NEW src, NEW K \in Nat, K = ChunkCount(Len(src))
    PROVE  \E w : Unfolding(s, p, src, K, w)
<1> DEFINE seq == [i \in 1 .. K |-> i]
           Eq(g) == WriteTable(s, p, src, seq, K, g)
           iter == CHOOSE g : Eq(g)
<1>1. store_write(s, p, src, 0) = iter[1 .. K]
  <2>1. DOMAIN seq = 1 .. K
    OBVIOUS
  <2> QED BY <2>1 DEF store_write, FoldLeft, MapThenFoldSet, WriteTable, WriteChunk, M
<1>2. Eq(iter)
  <2>1. \E g : Eq(g)
    BY WriteTableExists
  <2> HIDE DEF Eq
  <2> QED BY <2>1
<1>3. \A u \in SUBSET (1 .. K) : iter[u] = IF u = {} THEN Ok(s)
                                        ELSE WriteChunk(p, src, iter[u \ {Max(u)}], seq[Max(u)])
  <2> HIDE DEF iter
  <2> QED BY <1>2 DEF WriteTable
<1> HIDE DEF iter
<1> DEFINE w == [i \in 0 .. K |-> iter[1 .. i]]
<1>4. w[0] = Ok(s)
  <2>1. 1 .. 0 = {} /\ 0 \in 0 .. K
    OBVIOUS
  <2> QED BY <1>3, <2>1
<1>5. ASSUME NEW i \in 1 .. K PROVE w[i] = WriteChunk(p, src, w[i - 1], i)
  <2>1. 1 .. i \in SUBSET (1 .. K) /\ 1 .. i # {} /\ i \in Nat
    OBVIOUS
  <2>2. Max(1 .. i) \in 1 .. i /\ \A y \in 1 .. i : Max(1 .. i) >= y
    <3>1. 1 .. i \in SUBSET (1 .. i)
      OBVIOUS
    <3> QED BY <2>1, <3>1, MaxChunk
  <2>3. Max(1 .. i) = i
    BY <2>2
  <2>4. (1 .. i) \ {i} = 1 .. (i - 1)
    OBVIOUS
  <2>5. seq[i] = i
    OBVIOUS
  <2>6. w[i] = iter[1 .. i] /\ w[i - 1] = iter[1 .. (i - 1)]
    OBVIOUS
  <2>7. iter[1 .. i] = WriteChunk(p, src, iter[(1 .. i) \ {Max(1 .. i)}], seq[Max(1 .. i)])
    <3> HIDE DEF seq
    <3> QED BY <1>3, <2>1, Zenon
  <2> HIDE DEF w, seq
  <2> QED BY <2>3, <2>4, <2>5, <2>6, <2>7, Zenon
<1>6. w[K] = iter[1 .. K]
  OBVIOUS
<1> HIDE DEF w
<1>7. Unfolding(s, p, src, K, w)
  BY <1>1, <1>4, <1>5, <1>6 DEF Unfolding
<1> QED BY <1>7

\* A write at the end of a value appends.
LEMMA WriteAtEnd ==
    ASSUME NEW s, NEW p, NEW y \in Bytes, NEW bytes \in Bytes, Len(bytes) <= M,
           y = IF has_entry(s, p) THEN s.vals[p] ELSE <<>>
    PROVE  handle_store_write(s, p, Len(y), bytes) = Ok(set_value(s, p, y \o bytes))
<1>1. Len(y) \in Nat /\ Len(bytes) \in Nat /\ M \in Nat
  BY ChunkAssumption DEF Bytes, M
<1>2. SubSeq(y, 1, Len(y)) = y
  BY SubSeqFull DEF Bytes
<1> DEFINE k == Len(y)
           end == k + Len(bytes)
           inside == k < Len(y) /\ end <= Len(y)
<1>3. ~inside
  BY <1>1
<1>4. ~(Len(bytes) > MAX_FILE_CHUNK_SIZE) /\ ~(Len(y) > Len(y))
  BY <1>1 DEF M
<1>5. handle_store_write(s, p, Len(y), bytes) =
        IF Len(bytes) > MAX_FILE_CHUNK_SIZE THEN Err("InputOutputTooLarge", s)
        ELSE IF Len(y) > Len(y) THEN Err("StoreInvalidAccess", s)
        ELSE Ok(set_value(s, p,
                IF inside
                THEN SubSeq(y, 1, Len(y)) \o bytes \o SubSeq(y, end + 1, Len(y))
                ELSE SubSeq(y, 1, Len(y)) \o bytes))
  BY DEF handle_store_write
<1> HIDE DEF inside, end
<1> QED BY <1>2, <1>3, <1>4, <1>5, Zenon

\* Writing a field again replaces what was written.
LEMMA SetValueTwice ==
    ASSUME NEW s, NEW p, NEW a, NEW b
    PROVE  /\ set_value(set_value(s, p, a), p, b) = set_value(s, p, b)
           /\ has_entry(set_value(s, p, a), p)
           /\ set_value(s, p, a).vals[p] = a
<1> DEFINE x == set_value(s, p, a)
           D == DOMAIN s.vals \cup {p}
<1>1. x.nodes = s.nodes \cup Ancestors(p) \cup {p} /\ x.vals = [q \in D |-> IF q = p THEN a ELSE s.vals[q]]
  BY DEF set_value
<1> HIDE DEF x
<1>2. DOMAIN x.vals = D /\ p \in D
  BY <1>1
<1>3. x.nodes \cup Ancestors(p) \cup {p} = s.nodes \cup Ancestors(p) \cup {p}
  BY <1>1
<1>4. [q \in DOMAIN x.vals \cup {p} |-> IF q = p THEN b ELSE x.vals[q]]
        = [q \in D |-> IF q = p THEN b ELSE s.vals[q]]
  BY <1>1, <1>2
<1>5. set_value(x, p, b) = set_value(s, p, b)
  BY <1>3, <1>4 DEF set_value
<1>6. x.vals[p] = a
  BY <1>1
<1> QED BY <1>2, <1>5, <1>6 DEF x, has_entry

\* The chunks of n bytes: all but the last one are full.
LEMMA ChunkBounds ==
    ASSUME NEW n \in Nat
    PROVE  LET K == ChunkCount(n)
           IN  /\ K \in Nat /\ K >= 1 /\ K * M >= n
               /\ \A i \in 1 .. K - 1 : i * M \in Nat /\ i * M < n
<1> DEFINE K == ChunkCount(n)
<1>0. M \in Nat /\ M > 0
  BY ChunkAssumption DEF M
<1>1. CASE n = 0
  <2>1. K = 1
    BY <1>1 DEF ChunkCount
  <2> QED BY <1>0, <1>1, <2>1
<1>2. CASE n # 0
  <2>1. K = (n + M - 1) \div M
    BY <1>2 DEF ChunkCount, M
  <2> HIDE DEF K
  <2>2. K \in Nat /\ K * M >= n /\ (K - 1) * M < n
    BY <1>0, <1>2, <2>1
  <2>3. K >= 1
    BY <1>0, <1>2, <2>2
  <2>4. ASSUME NEW i \in 1 .. K - 1 PROVE i * M \in Nat /\ i * M < n
    <3>1. i * M <= (K - 1) * M
      BY <1>0, <2>2
    <3>2. i * M \in Nat /\ (K - 1) * M \in Int
      BY <1>0, <2>2
    <3> QED BY <2>2, <3>1, <3>2
  <2> QED BY <2>2, <2>3, <2>4 DEF K
<1> QED BY <1>1, <1>2

\* What the first i chunks of src are.
FirstChunks(src, i) == SubSeq(src, 1, Least(i * M, Len(src)))

\* The chunks, put together.
LEMMA ChunksConcat ==
    ASSUME NEW src \in Bytes, NEW i \in Nat, i + 1 <= ChunkCount(Len(src))
    PROVE  /\ FirstChunks(src, i) \in Bytes
           /\ Len(FirstChunks(src, i)) = i * M
           /\ Chunk(src, i + 1) \in Bytes /\ Len(Chunk(src, i + 1)) <= M
           /\ FirstChunks(src, i) \o Chunk(src, i + 1) = FirstChunks(src, i + 1)
<1>0. PICK n \in Nat : n = Len(src) /\ \A j \in 1 .. n : src[j] \in 0 .. 255
  <2>1. src \in Seq(0 .. 255)
    BY DEF Bytes
  <2>2. Len(src) \in Nat /\ \A j \in 1 .. Len(src) : src[j] \in 0 .. 255
    BY <2>1, LenProperties, ElementOfSeq
  <2> QED BY <2>2, Zenon
<1>1. M \in Nat /\ M > 0
  BY ChunkAssumption DEF M
<1>2. PICK a \in Nat : a = i * M /\ a <= n
  <2>1. CASE i = 0
    BY <1>1, <2>1
  <2>2. CASE i # 0
    <3> DEFINE K == ChunkCount(n)
    <3>1. K \in Nat /\ \A j \in 1 .. K - 1 : j * M \in Nat /\ j * M < n
      BY ChunkBounds
    <3>2. i + 1 <= K
      BY <1>0
    <3> HIDE DEF K
    <3>3. i \in 1 .. K - 1
      BY <2>2, <3>1, <3>2
    <3>4. i * M \in Nat /\ i * M < n
      BY <3>1, <3>3
    <3> QED BY <3>4
  <2> QED BY <2>1, <2>2
<1>3. PICK b \in Nat : b = Least((i + 1) * M, n) /\ a <= b /\ b <= n /\ b <= a + M
  <2>1. (i + 1) * M = a + M
    BY <1>1, <1>2
  <2> DEFINE b == Least(a + M, n)
  <2>2. b \in Nat /\ a <= b /\ b <= n /\ b <= a + M
    BY <1>1, <1>2 DEF Least
  <2>3. b = Least((i + 1) * M, n)
    BY <2>1
  <2> HIDE DEF b
  <2> QED BY <2>2, <2>3
<1>4. FirstChunks(src, i) = SubSeq(src, 1, a)
  <2>1. Least(a, n) = a
    BY <1>2 DEF Least
  <2> QED BY <1>0, <1>2, <2>1, Zenon DEF FirstChunks
<1>5. FirstChunks(src, i + 1) = SubSeq(src, 1, b)
  BY <1>0, <1>3, Zenon DEF FirstChunks
<1>6. Chunk(src, i + 1) = SubSeq(src, a + 1, b)
  <2>1. (i + 1) - 1 = i
    OBVIOUS
  <2>2. Chunk(src, i + 1) = SubSeq(src, ((i + 1) - 1) * M + 1, Least((i + 1) * M, Len(src)))
    BY DEF Chunk, M
  <2> QED BY <1>0, <1>2, <1>3, <2>1, <2>2, Zenon
<1>7. SubSeq(src, 1, a) \in Bytes /\ Len(SubSeq(src, 1, a)) = a
  <2>1. \A j \in 1 .. a : src[j] \in 0 .. 255
    BY <1>0, <1>2
  <2>2. /\ SubSeq(src, 1, a) \in Seq(0 .. 255)
        /\ Len(SubSeq(src, 1, a)) = IF 1 <= a THEN a - 1 + 1 ELSE 0
    BY <2>1, SubSeqProperties
  <2>3. (IF 1 <= a THEN a - 1 + 1 ELSE 0) = a
    OBVIOUS
  <2> DEFINE y == SubSeq(src, 1, a)
  <2>4. y \in Bytes
    BY <2>2, Zenon DEF Bytes
  <2>5. Len(y) = IF 1 <= a THEN a - 1 + 1 ELSE 0
    BY <2>2, Zenon
  <2> HIDE DEF y
  <2>6. Len(y) = a
    BY <2>3, <2>5
  <2> QED BY <2>4, <2>6 DEF y
<1>8. SubSeq(src, a + 1, b) \in Bytes /\ Len(SubSeq(src, a + 1, b)) <= M
  <2>1. \A j \in a + 1 .. b : src[j] \in 0 .. 255
    BY <1>0, <1>2, <1>3
  <2>2. /\ SubSeq(src, a + 1, b) \in Seq(0 .. 255)
        /\ Len(SubSeq(src, a + 1, b)) = IF a + 1 <= b THEN b - (a + 1) + 1 ELSE 0
    BY <2>1, SubSeqProperties
  <2>3. (IF a + 1 <= b THEN b - (a + 1) + 1 ELSE 0) <= M
    BY <1>1, <1>3
  <2>4. Len(SubSeq(src, a + 1, b)) <= M
    BY <2>2, <2>3, Zenon
  <2> QED BY <2>2, <2>4, Zenon DEF Bytes
<1>9. SubSeq(src, 1, a) \o SubSeq(src, a + 1, b) = SubSeq(src, 1, b)
  <2>1. 1 \in 1 .. n + 1 /\ a \in 1 - 1 .. n /\ b \in a .. n
    BY <1>2, <1>3
  <2>2. src \in Seq(0 .. 255)
    BY DEF Bytes
  <2>3. 1 \in 1 .. Len(src) + 1 /\ a \in 1 - 1 .. Len(src) /\ b \in a .. Len(src)
    BY <1>0, <2>1, Zenon
  <2> QED BY <2>2, <2>3, ConcatAdjacentSubSeq
<1> QED BY <1>2, <1>4, <1>5, <1>6, <1>7, <1>8, <1>9, Zenon

\* A chunked write at the start of a field without a value leaves the whole
\* value, whatever its length: no chunk is lost, repeated or misplaced.
LEMMA WriteIsWhole ==
    ASSUME NEW s, NEW p, ~has_entry(s, p), NEW src \in Bytes
    PROVE  store_write(s, p, src, 0) = Ok(set_value(s, p, src))
<1>0. PICK n \in Nat : n = Len(src)
  BY DEF Bytes
<1>1. PICK K \in Nat : K = ChunkCount(n) /\ K >= 1 /\ K * M >= n
  BY ChunkBounds
<1>2. PICK w : /\ w[0] = Ok(s)
               /\ \A i \in 1 .. K : w[i] = WriteChunk(p, src, w[i - 1], i)
               /\ store_write(s, p, src, 0) = w[K]
  <2>1. K = ChunkCount(Len(src))
    BY <1>0, <1>1, Zenon
  <2>2. PICK w : Unfolding(s, p, src, K, w)
    BY <2>1, WriteUnfolds
  <2> QED BY <2>2 DEF Unfolding
<1> DEFINE Before(i) == IF i = 0 THEN s ELSE set_value(s, p, FirstChunks(src, i))
           T == {i \in 0 .. K : w[i] = Ok(Before(i))}
<1>3. 0 \in T
  BY <1>2
<1>4. ASSUME NEW i \in 0 .. K - 1, i \in T PROVE i + 1 \in T
  <2>0. i \in Nat /\ i + 1 \in 1 .. K /\ (i + 1) - 1 = i /\ i + 1 <= K /\ i + 1 # 0
    OBVIOUS
  <2> DEFINE y == FirstChunks(src, i)
             c == Chunk(src, i + 1)
             x == Before(i)
  <2>1. /\ y \in Bytes /\ Len(y) = i * M
        /\ c \in Bytes /\ Len(c) <= M /\ y \o c = FirstChunks(src, i + 1)
    BY <1>0, <1>1, <2>0, ChunksConcat
  <2>2. w[i + 1] = WriteChunk(p, src, w[i], i + 1) /\ w[i] = Ok(x)
    BY <1>2, <1>4, <2>0
  <2>3. y = IF has_entry(x, p) THEN x.vals[p] ELSE <<>>
    <3>1. CASE i = 0
      <4>1. x = s
        BY <3>1
      <4>2. y = <<>>
        <5>1. Len(y) = 0
          <6>1. 0 * M = 0
            BY ChunkAssumption DEF M
          <6> QED BY <2>1, <3>1, <6>1
        <5> HIDE DEF y
        <5> QED BY <2>1, <5>1, EmptySeq DEF Bytes
      <4> QED BY <4>1, <4>2
    <3>2. CASE i # 0
      <4>1. x = set_value(s, p, y)
        BY <3>2
      <4> QED BY <4>1, SetValueTwice
    <3> QED BY <3>1, <3>2
  <2>4. set_value(x, p, y \o c) = Before(i + 1)
    <3>1. Before(i + 1) = set_value(s, p, y \o c)
      BY <2>0, <2>1
    <3>2. CASE i = 0
      BY <3>1, <3>2
    <3>3. CASE i # 0
      <4>1. x = set_value(s, p, y)
        BY <3>3
      <4> HIDE DEF x, y, c, Before
      <4> QED BY <3>1, <4>1, SetValueTwice
    <3> QED BY <3>2, <3>3
  <2> HIDE DEF x, y
  <2>5. handle_store_write(x, p, Len(y), c) = Ok(set_value(x, p, y \o c))
    <3> HIDE DEF c
    <3> QED BY <2>1, <2>3, WriteAtEnd
  <2>6. Ok(x).err = "ok" /\ Ok(x).store = x
    BY DEF Ok
  <2>7. WriteChunk(p, src, Ok(x), i + 1) = handle_store_write(x, p, 0 + ((i + 1) - 1) * M, c)
    BY <2>6 DEF WriteChunk
  <2>8. 0 + ((i + 1) - 1) * M = Len(y)
    <3>1. 0 + i * M = i * M
      BY ChunkAssumption DEF M
    <3> QED BY <2>0, <2>1, <3>1, Zenon
  <2>9. w[i + 1] = Ok(Before(i + 1))
    <3> HIDE DEF c, Before
    <3> QED BY <2>2, <2>4, <2>5, <2>7, <2>8, Zenon
  <2> HIDE DEF Before
  <2> QED BY <2>0, <2>9
<1>5. K \in T
  <2> HIDE DEF T
  <2>1. \A i \in 0 .. K : i \in T
    BY <1>3, <1>4, UpTo
  <2> QED BY <2>1
<1>6. FirstChunks(src, K) = src
  <2>1. Least(K * M, n) = n
    <3> DEFINE z == K * M
    <3>1. z \in Int /\ z >= n
      BY <1>1, ChunkAssumption DEF M
    <3> HIDE DEF z
    <3>2. Least(z, n) = n
      BY <3>1 DEF Least
    <3> QED BY <3>2 DEF z
  <2>2. SubSeq(src, 1, Len(src)) = src
    BY SubSeqFull DEF Bytes
  <2> QED BY <1>0, <2>1, <2>2, Zenon DEF FirstChunks
<1>7. K # 0
  BY <1>1
<1>8. w[K] = Ok(set_value(s, p, FirstChunks(src, K)))
  BY <1>5, <1>7
<1> QED BY <1>2, <1>6, <1>8, Zenon

-----------------------------------------------------------------------------
(* What a layer holds.                                                     *)

Keys == Ids \X Fields
Cell(n, k) == FieldOf(<<n>>, k[1], k[2])

\* The content of layer n, as the abstract specification sees it.
Layer(s, n) == [k \in Keys |-> Val(s, Cell(n, k))]
NoContent == [k \in Keys |-> Absent]

\* No node is outside the first d layers.
Within(s, d) == \A q \in s.nodes \ {<<>>} : q[1] \in 1 .. d

\* Where a field is, and what it is below.
LEMMA CellSteps ==
    ASSUME NEW n \in Nat, NEW k \in Keys
    PROVE  /\ Cell(n, k) \in Path /\ Len(Cell(n, k)) = 3 /\ Cell(n, k)[1] = n
           /\ \A m \in Nat : Below(<<m>>, Cell(n, k)) <=> m = n
           /\ \A m \in Nat : InLayer(m, Cell(n, k)) = Cell(m, k)
           /\ \A m \in Nat, j \in Keys : Cell(n, k) = Cell(m, j) <=> n = m /\ k = j
           /\ \A m \in Nat, id \in Ids :
                Below(Object(<<m>>, id), Cell(n, k)) <=> m = n /\ id = k[1]
<1>0. k[1] \in Ids /\ k[2] \in Fields /\ k = <<k[1], k[2]>>
  BY DEF Keys
<1>1. \A m \in Nat : /\ Cell(m, k) \in Path /\ Len(Cell(m, k)) = 3
                     /\ Cell(m, k)[1] = m /\ Cell(m, k)[2] = k[1] /\ Cell(m, k)[3] = k[2]
  BY <1>0, FieldSteps DEF Cell
<1> DEFINE p == Cell(n, k)
<1>2. p \in Path /\ Len(p) = 3 /\ p[1] = n /\ p[2] = k[1] /\ p[3] = k[2]
  BY <1>1
<1>3. ASSUME NEW m \in Nat, NEW j \in Keys
      PROVE  Cell(n, k) = Cell(m, j) <=> n = m /\ k = j
  <2>1. j[1] \in Ids /\ j[2] \in Fields /\ j = <<j[1], j[2]>>
    BY DEF Keys
  <2>2. Cell(n, k) = Cell(m, j) <=> n = m /\ k[1] = j[1] /\ k[2] = j[2]
    BY <1>0, <2>1, FieldEqual DEF Cell
  <2>3. k[1] = j[1] /\ k[2] = j[2] <=> k = j
    BY <1>0, <2>1
  <2> QED BY <2>2, <2>3
<1> HIDE DEF p
<1>4. ASSUME NEW m \in Nat PROVE Below(<<m>>, p) <=> m = n
  BY <1>2, BelowLayer
<1>5. ASSUME NEW m \in Nat PROVE InLayer(m, p) = Cell(m, k)
  <2> DEFINE q == InLayer(m, p)
             c == Cell(m, k)
  <2>1. /\ q \in Path /\ Len(q) = Len(p) /\ q[1] = m /\ \A i \in 2 .. Len(p) : q[i] = p[i]
    <3>1. Len(p) >= 1
      BY <1>2
    <3> QED BY <1>2, <3>1, InLayerSteps
  <2>2. /\ c \in Path /\ Len(c) = 3 /\ c[1] = m /\ c[2] = k[1] /\ c[3] = k[2]
    BY <1>1
  <2> HIDE DEF q, c
  <2>3. ASSUME NEW i \in 1 .. Len(q) PROVE q[i] = c[i]
    <3>1. i = 1 \/ i = 2 \/ i = 3
      BY <1>2, <2>1, <2>3
    <3> QED BY <1>2, <2>1, <2>2, <3>1
  <2>4. Len(q) = Len(c)
    BY <1>2, <2>1, <2>2
  <2>5. q = c
    BY <2>1, <2>2, <2>3, <2>4, SamePath
  <2> QED BY <2>5 DEF q, c
<1>6. ASSUME NEW m \in Nat, NEW id \in Ids
      PROVE  Below(Object(<<m>>, id), p) <=> m = n /\ id = k[1]
  <2> DEFINE b == Object(<<m>>, id)
  <2>1. b \in Path /\ Len(b) = 2 /\ b[1] = m /\ b[2] = id
    BY ObjectSteps
  <2> HIDE DEF b
  <2>2. Below(b, p) <=> Len(b) <= Len(p) /\ \A i \in 1 .. Len(b) : p[i] = b[i]
    BY <1>2, <2>1, BelowSteps
  <2>3. (\A i \in 1 .. 2 : p[i] = b[i]) <=> p[1] = b[1] /\ p[2] = b[2]
    OBVIOUS
  <2>4. Below(b, p) <=> p[1] = b[1] /\ p[2] = b[2]
    BY <1>2, <2>1, <2>2, <2>3
  <2>5. Below(b, p) <=> m = n /\ id = k[1]
    BY <1>2, <2>1, <2>4
  <2> QED BY <2>5 DEF b
<1>7. p = Cell(n, k)
  BY DEF p
<1> QED BY <1>2, <1>3, <1>4, <1>5, <1>6, <1>7

\* A layer whose path is no node holds nothing.
LEMMA NoNode ==
    ASSUME NEW s, WellFormed(s), NEW n \in Nat
    PROVE  /\ <<n>> \notin s.nodes => /\ \A q \in s.nodes \ {<<>>} : q[1] # n
                                     /\ Layer(s, n) = NoContent
           /\ (\A q \in s.nodes \ {<<>>} : q[1] # n) => Layer(s, n) = NoContent
<1>1. ASSUME NEW q \in s.nodes \ {<<>>}, q[1] = n PROVE <<n>> \in s.nodes
  <2>1. q \in Path /\ Len(q) <= 3 /\ Ancestors(q) \subseteq s.nodes
    BY DEF WellFormed
  <2>2. Len(q) \in Nat /\ Len(q) # 0
    BY <2>1, PathType, RootOnly
  <2>3. <<n>> \in Path /\ Len(<<n>>) = 1 /\ Below(<<n>>, q)
    <3>1. Len(q) >= 1
      BY <2>2
    <3> QED BY <1>1, <2>1, <3>1, LayerSteps, BelowLayer
  <2>4. CASE Len(q) = 1
    <3>1. <<n>> = q
      BY <2>1, <2>3, <2>4, BelowOrder
    <3> QED BY <3>1
  <2>5. CASE Len(q) # 1
    <3>1. Len(<<n>>) < Len(q)
      <4>1. PICK h \in Nat : h = Len(q)
        BY <2>2
      <4>2. 1 < h
        BY <2>2, <2>5, <4>1
      <4> QED BY <2>3, <4>1, <4>2, Zenon
    <3>2. <<n>> \in Ancestors(q)
      BY <2>1, <2>3, <3>1, AncestorSteps
    <3> QED BY <2>1, <3>2
  <2> QED BY <2>4, <2>5
<1>2. ASSUME \A q \in s.nodes \ {<<>>} : q[1] # n PROVE Layer(s, n) = NoContent
  <2>1. ASSUME NEW k \in Keys PROVE Val(s, Cell(n, k)) = Absent
    <3> DEFINE p == Cell(n, k)
    <3>1. p \in Path /\ Len(p) = 3 /\ p[1] = n
      BY CellSteps
    <3> HIDE DEF p
    <3>2. p # <<>>
      BY <3>1, LayerSteps
    <3>3. p \notin s.nodes
      BY <1>2, <3>1, <3>2
    <3>4. p \notin DOMAIN s.vals
      BY <3>3 DEF WellFormed
    <3>5. Val(s, p) = Absent
      BY <3>4 DEF Val
    <3> QED BY <3>5 DEF p
  <2> QED BY <2>1 DEF Layer, NoContent
<1> QED BY <1>1, <1>2

-----------------------------------------------------------------------------
(* What the operations do to the layers.                                   *)

\* Only field k of layer d has changed, to v.
Written(s, r, d, k, v) ==
    /\ WellFormed(r)
    /\ Within(s, d) => Within(r, d)
    /\ \A n \in Nat : Layer(r, n) = IF n = d THEN [Layer(s, d) EXCEPT ![k] = v] ELSE Layer(s, n)

LEMMA CellWritten ==
    ASSUME NEW s, WellFormed(s), NEW r, WellFormed(r), NEW d \in Nat, d >= 1,
           NEW k \in Keys, NEW v,
           \A q \in r.nodes \ {<<>>} : q[1] = d \/ q \in s.nodes,
           \A q : Val(r, q) = IF q = Cell(d, k) THEN v ELSE Val(s, q)
    PROVE  Written(s, r, d, k, v)
<1>1. Within(s, d) => Within(r, d)
  <2>1. d \in 1 .. d
    OBVIOUS
  <2> QED BY <2>1 DEF Within
<1>2. ASSUME NEW n \in Nat
      PROVE  Layer(r, n) = IF n = d THEN [Layer(s, d) EXCEPT ![k] = v] ELSE Layer(s, n)
  <2>1. \A j \in Keys : Val(r, Cell(n, j)) = IF n = d /\ j = k THEN v ELSE Val(s, Cell(n, j))
    <3>1. \A j \in Keys : Cell(n, j) = Cell(d, k) <=> n = d /\ j = k
      BY CellSteps
    <3> QED BY <3>1
  <2> QED BY <2>1 DEF Layer
<1> QED BY <1>1, <1>2 DEF Written

\* A field gets the value written.
LEMMA Put ==
    ASSUME NEW s, WellFormed(s), NEW d \in Nat, d >= 1, NEW id \in Ids, NEW f \in Fields,
           NEW v \in Values
    PROVE  Written(s, store_write_all(s, FieldOf(<<d>>, id, f), v).store, d, <<id, f>>, v)
<1> DEFINE k == <<id, f>>
           p == Cell(d, k)
           e == delete_value(s, p)
           r == set_value(e, p, v)
<1>1. k \in Keys /\ p = FieldOf(<<d>>, id, f)
  BY DEF Keys, Cell
<1>2. p \in Path /\ Len(p) = 3 /\ p[1] = d
  BY <1>1, CellSteps
<1> HIDE DEF k, p
<1>3. /\ WellFormed(e) /\ e.nodes = s.nodes /\ p \notin DOMAIN e.vals
      /\ \A q : Val(e, q) = IF q = p THEN Absent ELSE Val(s, q)
  BY DeleteValue
<1> HIDE DEF e
<1>4. v \in Stored /\ v \in Bytes
  BY StorageAssumption DEF Stored, Bytes
<1>5. /\ WellFormed(r)
      /\ \A q \in r.nodes \ {<<>>} : q[1] = p[1] \/ q \in e.nodes
      /\ \A q : Val(r, q) = IF q = p THEN v ELSE Val(e, q)
  BY <1>2, <1>3, <1>4, SetValue
<1>6. store_write_all(s, p, v).store = r
  <2>1. ~has_entry(e, p)
    BY <1>3 DEF has_entry
  <2>2. store_write(e, p, v, 0) = Ok(r)
    BY <1>4, <2>1, WriteIsWhole
  <2>3. store_write_all(s, p, v) = store_write(e, p, v, 0)
    BY DEF store_write_all, store_delete_value, handle_store_delete_value, Ok, e
  <2> HIDE DEF r
  <2> QED BY <2>2, <2>3 DEF Ok
<1> HIDE DEF r
<1>7. /\ \A q \in r.nodes \ {<<>>} : q[1] = d \/ q \in s.nodes
      /\ \A q : Val(r, q) = IF q = p THEN v ELSE Val(s, q)
  BY <1>2, <1>3, <1>5
<1>8. Written(s, r, d, k, v)
  BY <1>1, <1>5, <1>7, CellWritten DEF p
<1> QED BY <1>1, <1>6, <1>8 DEF k

\* A crash inside a write leaves one of the partial values.
LEMMA PutPart ==
    ASSUME NEW s, WellFormed(s), NEW d \in Nat, d >= 1, NEW id \in Ids, NEW f \in Fields,
           NEW v \in Values, NEW i \in 1 .. ChunkCount(Len(v)) - 1
    PROVE  \E w \in PartialValues :
             Written(s, WriteInterrupted(store_delete_value(s, FieldOf(<<d>>, id, f)).store,
                                         FieldOf(<<d>>, id, f), v, i).store,
                     d, <<id, f>>, w)
<1> DEFINE k == <<id, f>>
           p == Cell(d, k)
           e == delete_value(s, p)
           w == SubSeq(v, 1, i * M)
           r == set_value(e, p, w)
<1>1. k \in Keys /\ p = FieldOf(<<d>>, id, f)
  BY DEF Keys, Cell
<1>2. p \in Path /\ Len(p) = 3 /\ p[1] = d
  BY <1>1, CellSteps
<1> HIDE DEF k, p
<1>3. /\ WellFormed(e) /\ e.nodes = s.nodes /\ p \notin DOMAIN e.vals
      /\ \A q : Val(e, q) = IF q = p THEN Absent ELSE Val(s, q)
  BY DeleteValue
<1> HIDE DEF e
<1>4. w \in PartialValues /\ w \in Stored
  <2>1. w \in {SubSeq(v, 1, n * M) : n \in 1 .. ChunkCount(Len(v)) - 1}
    <3> HIDE DEF w
    <3> QED BY Zenon DEF w
  <2> HIDE DEF w
  <2> QED BY <2>1, Zenon DEF PartialValues, Stored, M
<1>5. w \in Bytes /\ w = SubSeq(v, 1, Least(i * M, Len(v)))
  <2>1. v \in Seq(0 .. 255)
    BY StorageAssumption
  <2>2. Len(v) \in Nat /\ \A j \in 1 .. Len(v) : v[j] \in 0 .. 255
    BY <2>1, LenProperties, ElementOfSeq
  <2>3. PICK n \in Nat : n = Len(v)
    BY <2>2
  <2>4. i \in 1 .. ChunkCount(n) - 1
    BY <2>3
  <2>5. PICK a \in Nat : a = i * M /\ a < n
    BY <2>4, ChunkBounds
  <2>6. Least(a, n) = a
    BY <2>5 DEF Least
  <2>7. \A j \in 1 .. a : v[j] \in 0 .. 255
    BY <2>2, <2>3, <2>5
  <2>8. SubSeq(v, 1, a) \in Seq(0 .. 255)
    BY <2>7, SubSeqProperties
  <2> QED BY <2>3, <2>5, <2>6, <2>8, Zenon DEF Bytes
<1> HIDE DEF w
<1>6. /\ WellFormed(r)
      /\ \A q \in r.nodes \ {<<>>} : q[1] = p[1] \/ q \in e.nodes
      /\ \A q : Val(r, q) = IF q = p THEN w ELSE Val(e, q)
  BY <1>2, <1>3, <1>4, SetValue
<1>7. WriteInterrupted(store_delete_value(s, p).store, p, v, i).store = r
  <2>1. ~has_entry(e, p)
    BY <1>3 DEF has_entry
  <2>2. store_write(e, p, w, 0) = Ok(r)
    BY <1>5, <2>1, WriteIsWhole
  <2>3. store_delete_value(s, p).store = e
    BY DEF store_delete_value, handle_store_delete_value, Ok, e
  <2>4. WriteInterrupted(e, p, v, i) = store_write(e, p, w, 0)
    BY <1>5, Zenon DEF WriteInterrupted, M
  <2> HIDE DEF r
  <2> QED BY <2>2, <2>3, <2>4 DEF Ok
<1> HIDE DEF r
<1>8. /\ \A q \in r.nodes \ {<<>>} : q[1] = d \/ q \in s.nodes
      /\ \A q : Val(r, q) = IF q = p THEN w ELSE Val(s, q)
  BY <1>2, <1>3, <1>6
<1>9. Written(s, r, d, k, w)
  BY <1>1, <1>6, <1>8, CellWritten DEF p
<1> QED BY <1>1, <1>4, <1>7, <1>9 DEF k

\* A field loses its value.
LEMMA Cleared ==
    ASSUME NEW s, WellFormed(s), NEW d \in Nat, d >= 1, NEW id \in Ids, NEW f \in Fields
    PROVE  Written(s, store_delete_value(s, FieldOf(<<d>>, id, f)).store, d, <<id, f>>, Absent)
<1> DEFINE k == <<id, f>>
           p == Cell(d, k)
           e == delete_value(s, p)
<1>1. k \in Keys /\ p = FieldOf(<<d>>, id, f)
  BY DEF Keys, Cell
<1> HIDE DEF k
<1>2. /\ WellFormed(e) /\ e.nodes = s.nodes
      /\ \A q : Val(e, q) = IF q = p THEN Absent ELSE Val(s, q)
  <2> HIDE DEF p
  <2> QED BY DeleteValue
<1>3. store_delete_value(s, p).store = e
  BY DEF store_delete_value, handle_store_delete_value, Ok
<1> HIDE DEF e
<1>4. Written(s, e, d, k, Absent)
  BY <1>1, <1>2, CellWritten
<1> QED BY <1>1, <1>3, <1>4 DEF k

\* All fields of one object lose their values.
LEMMA Removed ==
    ASSUME NEW s, WellFormed(s), NEW d \in Nat, d >= 1, NEW id \in Ids
    PROVE  LET r == store_delete(s, Object(<<d>>, id)).store
           IN  /\ WellFormed(r)
               /\ Within(s, d) => Within(r, d)
               /\ \A n \in Nat : n # d => Layer(r, n) = Layer(s, n)
               /\ Layer(r, d) = [k \in Keys |-> IF k \in {id} \X Fields THEN Absent
                                                ELSE Layer(s, d)[k]]
<1> DEFINE b == Object(<<d>>, id)
           r == store_delete(s, b).store
<1>1. b \in Path /\ Len(b) = 2 /\ b[1] = d /\ b[2] = id
  BY ObjectSteps
<1>2. \A n \in Nat, k \in Keys : Below(b, Cell(n, k)) <=> n = d /\ id = k[1]
  BY CellSteps
<1>3. \A n \in Nat, k \in Keys : Cell(n, k) \in Path /\ Len(Cell(n, k)) = 3
  BY CellSteps
<1> HIDE DEF b
<1>4. check_path_exists(s, b) <=> b \in s.nodes
  BY <1>1, HasNode
<1>5. /\ WellFormed(r)
      /\ r.nodes \subseteq s.nodes
      /\ \A q \in Path : Len(q) = 3 => Val(r, q) = IF Below(b, q) THEN Absent ELSE Val(s, q)
  <2>1. CASE b \in s.nodes
    <3> DEFINE t == node_delete(s, b)
    <3>1. r = t
      BY <1>4, <2>1 DEF store_delete, handle_store_delete, Ok
    <3>2. /\ WellFormed(t)
          /\ t.nodes \subseteq {q \in s.nodes : ~Below(b, q)}
          /\ \A q \in Path : Len(q) = 3 => Val(t, q) = IF Below(b, q) THEN Absent ELSE Val(s, q)
      BY <1>1, <2>1, NodeDelete
    <3> HIDE DEF t, r
    <3> QED BY <3>1, <3>2
  <2>2. CASE b \notin s.nodes
    <3>1. r = s
      BY <1>4, <2>2 DEF store_delete, Err
    <3>2. ASSUME NEW q \in Path, Len(q) = 3, Below(b, q) PROVE Val(s, q) = Absent
      <4>1. CASE q \in DOMAIN s.vals
        <5>1. q \in s.nodes /\ Ancestors(q) \subseteq s.nodes
          BY <4>1 DEF WellFormed
        <5>2. Len(b) < Len(q)
          BY <1>1, <3>2
        <5>3. b \in Ancestors(q)
          BY <1>1, <3>2, <5>2, AncestorSteps
        <5> QED BY <2>2, <5>1, <5>3
      <4>2. CASE q \notin DOMAIN s.vals
        BY <4>2 DEF Val
      <4> QED BY <4>1, <4>2
    <3> HIDE DEF r
    <3> QED BY <3>1, <3>2
  <2> QED BY <2>1, <2>2
<1> HIDE DEF r
<1>6. Within(s, d) => Within(r, d)
  BY <1>5 DEF Within
<1>7. \A n \in Nat, k \in Keys :
        Val(r, Cell(n, k)) = IF n = d /\ id = k[1] THEN Absent ELSE Val(s, Cell(n, k))
  BY <1>2, <1>3, <1>5
<1>8. \A n \in Nat : n # d => Layer(r, n) = Layer(s, n)
  BY <1>7 DEF Layer
<1>9. Layer(r, d) = [k \in Keys |-> IF k \in {id} \X Fields THEN Absent ELSE Layer(s, d)[k]]
  <2>1. \A k \in Keys : id = k[1] <=> k \in {id} \X Fields
    BY DEF Keys
  <2> QED BY <1>7, <2>1 DEF Layer
<1> QED BY <1>5, <1>6, <1>8, <1>9 DEF r, b

\* A copied layer has the content of the one below it, except that nothing is
\* copied from an empty one.
LEMMA Copied ==
    ASSUME NEW s, WellFormed(s), NEW d \in Nat, d >= 1
    PROVE  LET c == force_make_copy(s, <<d>>, <<d + 1>>)
               r == c.store
           IN  /\ c.err = "ok"
               /\ WellFormed(r)
               /\ Within(s, d) => Within(r, d + 1)
               /\ \A n \in Nat : n # d + 1 => Layer(r, n) = Layer(s, n)
               /\ \/ Layer(r, d + 1) = Layer(s, d)
                  \/ ~Within(s, d) /\ Layer(s, d) = NoContent
<1> DEFINE c == force_make_copy(s, <<d>>, <<d + 1>>)
           t == node_insert(s, <<d + 1>>, s, <<d>>)
<1>1. <<d>> \in Path /\ Len(<<d>>) = 1 /\ d + 1 \in Nat
  BY LayerSteps
<1>2. check_path_exists(s, <<d>>) <=> <<d>> \in s.nodes
  BY <1>1, HasNode
<1>3. CASE <<d>> \in s.nodes
  <2>1. c = Ok(t)
    BY <1>2, <1>3 DEF force_make_copy, store_copy, handle_store_copy, Ok
  <2>2. /\ WellFormed(t)
        /\ \A q \in t.nodes \ {<<>>} : q[1] = d + 1 \/ q \in s.nodes
        /\ \A q \in Path : Len(q) = 3 =>
             Val(t, q) = IF q[1] = d + 1 THEN Val(s, InLayer(d, q)) ELSE Val(s, q)
    <3>1. PICK m \in Nat : m = d + 1
      BY <1>1
    <3> DEFINE u == node_insert(s, <<m>>, s, <<d>>)
    <3>2. /\ WellFormed(u)
          /\ \A q \in u.nodes \ {<<>>} : q[1] = m \/ q \in s.nodes
          /\ \A q \in Path : Len(q) = 3 =>
               Val(u, q) = IF q[1] = m THEN Val(s, InLayer(d, q)) ELSE Val(s, q)
      <4>1. Replaced(u, s, m, s, d)
        BY <1>3, NodeInsert
      <4> HIDE DEF u
      <4> QED BY <4>1 DEF Replaced
    <3>3. u = t
      BY <3>1
    <3> HIDE DEF u, t
    <3> QED BY <3>1, <3>2, <3>3
  <2>3. c.err = "ok" /\ c.store = t
    <3> HIDE DEF c, t
    <3> QED BY <2>1 DEF Ok
  <2> HIDE DEF c, t
  <2>4. Within(s, d) => Within(t, d + 1)
    <3>1. d + 1 \in 1 .. d + 1 /\ 1 .. d \subseteq 1 .. d + 1
      OBVIOUS
    <3> QED BY <2>2, <3>1 DEF Within
  <2>5. \A n \in Nat, k \in Keys :
          Val(t, Cell(n, k)) = IF n = d + 1 THEN Val(s, Cell(d, k)) ELSE Val(s, Cell(n, k))
    <3>1. \A n \in Nat, k \in Keys :
            /\ Cell(n, k) \in Path /\ Len(Cell(n, k)) = 3 /\ Cell(n, k)[1] = n
            /\ InLayer(d, Cell(n, k)) = Cell(d, k)
      BY CellSteps
    <3> QED BY <2>2, <3>1
  <2>6. \A n \in Nat : Layer(t, n) = IF n = d + 1 THEN Layer(s, d) ELSE Layer(s, n)
    BY <2>5 DEF Layer
  <2>7. Layer(t, d + 1) = Layer(s, d)
    BY <1>1, <2>6
  <2> QED BY <2>2, <2>3, <2>4, <2>6, <2>7 DEF c
<1>4. CASE <<d>> \notin s.nodes
  <2>1. c = Ok(s)
    BY <1>2, <1>4 DEF force_make_copy, store_copy, Err, Ok
  <2>2. c.err = "ok" /\ c.store = s
    <3> HIDE DEF c
    <3> QED BY <2>1 DEF Ok
  <2> HIDE DEF c
  <2>3. Within(s, d) => Within(s, d + 1)
    <3>1. 1 .. d \subseteq 1 .. d + 1
      OBVIOUS
    <3> QED BY <3>1 DEF Within
  <2>4. Layer(s, d) = NoContent
    BY <1>4, NoNode
  <2>5. ASSUME Within(s, d) PROVE Layer(s, d + 1) = NoContent
    <3>1. d + 1 \notin 1 .. d
      OBVIOUS
    <3>2. \A q \in s.nodes \ {<<>>} : q[1] # d + 1
      BY <2>5, <3>1 DEF Within
    <3> DEFINE m == d + 1
    <3>3. m \in Nat
      OBVIOUS
    <3> HIDE DEF m
    <3>4. \A q \in s.nodes \ {<<>>} : q[1] # m
      BY <3>2 DEF m
    <3>5. Layer(s, m) = NoContent
      BY <3>3, <3>4, NoNode
    <3> QED BY <3>5 DEF m
  <2> QED BY <2>2, <2>3, <2>4, <2>5 DEF c
<1> QED BY <1>3, <1>4

\* In r, layer a has what layer b had in s, and b is gone.
Merged(s, r, a, b) ==
    /\ WellFormed(r)
    /\ \A q \in r.nodes \ {<<>>} : q[1] = a \/ (q \in s.nodes /\ q[1] # b)
    /\ \A n \in Nat : n # a /\ n # b => Layer(r, n) = Layer(s, n)
    /\ Layer(r, a) = Layer(s, b)

\* consume: layer a gets the content of layer b, which is gone, whether either
\* of them is empty or not.
LEMMA Consumed ==
    ASSUME NEW s, WellFormed(s), NEW a \in Nat, NEW b \in Nat, a # b
    PROVE  Merged(s, consume(s, <<a>>, <<b>>).store, a, b)
<1> DEFINE c == consume(s, <<a>>, <<b>>)
           r == c.store
<1>1. /\ <<a>> \in Path /\ Len(<<a>>) = 1 /\ <<b>> \in Path /\ Len(<<b>>) = 1
  BY LayerSteps
<1>2. /\ store_has(s, <<a>>) = IF <<a>> \in s.nodes THEN "subtree" ELSE "none"
      /\ store_has(s, <<b>>) = IF <<b>> \in s.nodes THEN "subtree" ELSE "none"
      /\ check_path_exists(s, <<a>>) <=> <<a>> \in s.nodes
      /\ check_path_exists(s, <<b>>) <=> <<b>> \in s.nodes
  BY <1>1, HasNode
<1>3. \A n \in Nat, k \in Keys : Cell(n, k) \in Path /\ Len(Cell(n, k)) = 3 /\ Cell(n, k)[1] = n
  BY CellSteps
<1>4. \A n \in Nat, k \in Keys :
        /\ Below(<<a>>, Cell(n, k)) <=> a = n
        /\ Below(<<b>>, Cell(n, k)) <=> b = n
        /\ InLayer(b, Cell(n, k)) = Cell(b, k)
  BY CellSteps
<1>5. CASE <<b>> \in s.nodes
  <2> DEFINE e == node_delete(s, <<b>>)
             t == node_insert(e, <<a>>, s, <<b>>)
  <2>1. c = Ok(t)
    BY <1>2, <1>5 DEF consume, store_move, handle_store_move
  <2>2. /\ WellFormed(e)
        /\ e.nodes \subseteq {q \in s.nodes : ~Below(<<b>>, q)}
        /\ \A q \in Path : Len(q) = 3 =>
             Val(e, q) = IF Below(<<b>>, q) THEN Absent ELSE Val(s, q)
    BY <1>1, <1>5, NodeDelete
  <2> HIDE DEF e
  <2>3. /\ WellFormed(t)
        /\ \A q \in t.nodes \ {<<>>} : q[1] = a \/ q \in e.nodes
        /\ \A q \in Path : Len(q) = 3 =>
             Val(t, q) = IF q[1] = a THEN Val(s, InLayer(b, q)) ELSE Val(e, q)
    <3>1. Replaced(t, e, a, s, b)
      BY <1>5, <2>2, NodeInsert
    <3> HIDE DEF t
    <3> QED BY <3>1 DEF Replaced
  <2> HIDE DEF t
  <2>4. r = t
    <3> HIDE DEF c
    <3> QED BY <2>1 DEF Ok
  <2> HIDE DEF r
  <2>5. ASSUME NEW q \in e.nodes \ {<<>>} PROVE q \in s.nodes /\ q[1] # b
    <3>1. q \in s.nodes /\ ~Below(<<b>>, q) /\ q \in Path
      BY <2>2 DEF WellFormed
    <3>2. Len(q) \in Nat /\ Len(q) # 0
      BY <3>1, PathType, RootOnly
    <3>3. Len(q) >= 1
      BY <3>2
    <3> QED BY <3>1, <3>3, BelowLayer
  <2>6. \A n \in Nat, k \in Keys :
          Val(t, Cell(n, k)) = IF n = a THEN Val(s, Cell(b, k)) ELSE Val(e, Cell(n, k))
    BY <1>3, <1>4, <2>3
  <2>7. \A n \in Nat, k \in Keys :
          Val(e, Cell(n, k)) = IF n = b THEN Absent ELSE Val(s, Cell(n, k))
    BY <1>3, <1>4, <2>2
  <2>8. \A n \in Nat : n # a /\ n # b => Layer(t, n) = Layer(s, n)
    BY <2>6, <2>7 DEF Layer
  <2>9. Layer(t, a) = Layer(s, b)
    BY <2>6 DEF Layer
  <2>10. \A q \in t.nodes \ {<<>>} : q[1] = a \/ (q \in s.nodes /\ q[1] # b)
    BY <2>3, <2>5
  <2>11. Merged(s, r, a, b)
    BY <2>3, <2>4, <2>8, <2>9, <2>10 DEF Merged
  <2> QED BY <2>11 DEF r
<1>6. CASE <<b>> \notin s.nodes /\ <<a>> \in s.nodes
  <2> DEFINE e == node_delete(s, <<a>>)
  <2>1. c = Ok(e)
    BY <1>2, <1>6 DEF consume, store_delete, handle_store_delete
  <2>2. /\ WellFormed(e)
        /\ e.nodes \subseteq {q \in s.nodes : ~Below(<<a>>, q)}
        /\ \A q \in Path : Len(q) = 3 =>
             Val(e, q) = IF Below(<<a>>, q) THEN Absent ELSE Val(s, q)
    BY <1>1, <1>6, NodeDelete
  <2> HIDE DEF e
  <2>3. r = e
    <3> HIDE DEF c
    <3> QED BY <2>1 DEF Ok
  <2> HIDE DEF r
  <2>4. Layer(s, b) = NoContent /\ \A q \in s.nodes \ {<<>>} : q[1] # b
    BY <1>6, NoNode
  <2>5. \A n \in Nat, k \in Keys :
          Val(e, Cell(n, k)) = IF n = a THEN Absent ELSE Val(s, Cell(n, k))
    BY <1>3, <1>4, <2>2
  <2>6. \A n \in Nat : n # a => Layer(e, n) = Layer(s, n)
    BY <2>5 DEF Layer
  <2>7. Layer(e, a) = NoContent
    BY <2>5 DEF Layer, NoContent
  <2>8. \A q \in e.nodes \ {<<>>} : q \in s.nodes /\ q[1] # b
    BY <2>2, <2>4
  <2>9. Merged(s, r, a, b)
    BY <2>2, <2>3, <2>4, <2>6, <2>7, <2>8 DEF Merged
  <2> QED BY <2>9 DEF r
<1>7. CASE <<b>> \notin s.nodes /\ <<a>> \notin s.nodes
  <2>1. c = Ok(s)
    BY <1>2, <1>7 DEF consume
  <2>2. r = s
    <3> HIDE DEF c
    <3> QED BY <2>1 DEF Ok
  <2> HIDE DEF r
  <2>3. Layer(s, b) = NoContent /\ \A q \in s.nodes \ {<<>>} : q[1] # b
    BY <1>7, NoNode
  <2>4. Layer(s, a) = NoContent
    BY <1>7, NoNode
  <2>5. Merged(s, r, a, b)
    BY <2>2, <2>3, <2>4 DEF Merged
  <2> QED BY <2>5 DEF r
<1> QED BY <1>5, <1>6, <1>7

\* discard: layer b is gone and the others stay.
LEMMA Discarded ==
    ASSUME NEW s, WellFormed(s), NEW b \in Nat
    PROVE  LET r == discard(s, <<b>>).store
           IN  /\ WellFormed(r)
               /\ \A q \in r.nodes \ {<<>>} : q \in s.nodes /\ q[1] # b
               /\ \A n \in Nat : n # b => Layer(r, n) = Layer(s, n)
<1> DEFINE c == discard(s, <<b>>)
           r == c.store
<1>1. <<b>> \in Path /\ Len(<<b>>) = 1
  BY LayerSteps
<1>2. /\ store_has(s, <<b>>) = IF <<b>> \in s.nodes THEN "subtree" ELSE "none"
      /\ check_path_exists(s, <<b>>) <=> <<b>> \in s.nodes
  BY <1>1, HasNode
<1>3. CASE <<b>> \in s.nodes
  <2> DEFINE e == node_delete(s, <<b>>)
  <2>1. c = Ok(e)
    BY <1>2, <1>3 DEF discard, store_delete, handle_store_delete
  <2>2. /\ WellFormed(e)
        /\ e.nodes \subseteq {q \in s.nodes : ~Below(<<b>>, q)}
        /\ \A q \in Path : Len(q) = 3 =>
             Val(e, q) = IF Below(<<b>>, q) THEN Absent ELSE Val(s, q)
    BY <1>1, <1>3, NodeDelete
  <2> HIDE DEF e
  <2>3. r = e
    <3> HIDE DEF c
    <3> QED BY <2>1 DEF Ok
  <2> HIDE DEF r
  <2>4. ASSUME NEW q \in e.nodes \ {<<>>} PROVE q \in s.nodes /\ q[1] # b
    <3>1. q \in s.nodes /\ ~Below(<<b>>, q) /\ q \in Path
      BY <2>2 DEF WellFormed
    <3>2. Len(q) \in Nat /\ Len(q) # 0
      BY <3>1, PathType, RootOnly
    <3>3. Len(q) >= 1
      BY <3>2
    <3> QED BY <3>1, <3>3, BelowLayer
  <2>5. \A n \in Nat, k \in Keys :
          Val(e, Cell(n, k)) = IF n = b THEN Absent ELSE Val(s, Cell(n, k))
    BY <2>2, CellSteps
  <2>6. \A n \in Nat : n # b => Layer(e, n) = Layer(s, n)
    BY <2>5 DEF Layer
  <2> QED BY <2>2, <2>3, <2>4, <2>6 DEF r
<1>4. CASE <<b>> \notin s.nodes
  <2>1. c = Ok(s)
    BY <1>2, <1>4 DEF discard
  <2>2. r = s
    <3> HIDE DEF c
    <3> QED BY <2>1 DEF Ok
  <2> HIDE DEF r
  <2>3. \A q \in s.nodes \ {<<>>} : q[1] # b
    BY <1>4, NoNode
  <2> QED BY <2>2, <2>3 DEF r
<1> QED BY <1>3, <1>4

-----------------------------------------------------------------------------
(* Stacks.                                                                 *)

\* A function on 1 .. d is a sequence.
LEMMA FunSeq ==
    ASSUME NEW d \in Nat, NEW F, F = [n \in 1 .. d |-> F[n]]
    PROVE  /\ Len(F) = d
           /\ \A e \in 0 .. d : SubSeq(F, 1, e) = [n \in 1 .. e |-> F[n]]
           /\ \A x : Append(F, x) = [n \in 1 .. d + 1 |-> IF n = d + 1 THEN x ELSE F[n]]
<1> DEFINE S == {F[n] : n \in 1 .. d}
<1>1. F \in Seq(S) /\ Len(F) = d
  <2>1. F \in [1 .. d -> S]
    BY Zenon
  <2> HIDE DEF S
  <2>2. F \in Seq(S)
    BY <2>1, SeqDef
  <2>3. DOMAIN F = 1 .. Len(F) /\ Len(F) \in Nat
    BY <2>2, LenProperties
  <2>4. DOMAIN F = 1 .. d
    BY <2>1
  <2> QED BY <2>2, <2>3, <2>4
<1> HIDE DEF S
<1>2. ASSUME NEW e \in 0 .. d PROVE SubSeq(F, 1, e) = [n \in 1 .. e |-> F[n]]
  <2>1. \A n \in 1 .. e : F[n] \in S
    BY <1>1
  <2>2. e \in Nat
    OBVIOUS
  <2>3. /\ SubSeq(F, 1, e) \in Seq(S) /\ Len(SubSeq(F, 1, e)) = e
        /\ \A i \in 1 .. e : SubSeq(F, 1, e)[i] = F[i]
    BY <1>1, <2>1, <2>2
  <2> DEFINE y == SubSeq(F, 1, e)
  <2>4. /\ y \in Seq(S) /\ Len(y) = e
        /\ \A i \in 1 .. e : y[i] = F[i]
    BY <2>3
  <2> HIDE DEF y
  <2>5. y = [n \in 1 .. e |-> F[n]]
    <3>1. y \in [1 .. e -> S]
      BY <2>4, LenProperties
    <3>2. y = [n \in 1 .. e |-> y[n]]
      BY <3>1
    <3> QED BY <2>4, <3>2, Zenon
  <2> QED BY <2>5 DEF y
<1>3. ASSUME NEW x PROVE Append(F, x) = [n \in 1 .. d + 1 |-> IF n = d + 1 THEN x ELSE F[n]]
  BY <1>1
<1> QED BY <1>1, <1>2, <1>3

\* The paths of the first d layers, and what they hold.
Lay(d) == [n \in 1 .. d |-> <<n>>]
StackOf(s, d) == [n \in 1 .. d |-> Layer(s, n)]

LEMMA LaySteps ==
    ASSUME NEW d \in Nat, d >= 1
    PROVE  /\ Len(Lay(d)) = d
           /\ \A n \in 1 .. d : Lay(d)[n] = <<n>>
           /\ Append(Lay(d), LayerPath(d + 1)) = Lay(d + 1)
           /\ Front(Lay(d)) = Lay(d - 1)
           /\ << LayerPath(1) >> = Lay(1)
<1> DEFINE F == Lay(d)
<1>1. F = [n \in 1 .. d |-> F[n]] /\ \A n \in 1 .. d : F[n] = <<n>>
  BY DEF Lay
<1> HIDE DEF F
<1>2. /\ Len(F) = d
      /\ \A e \in 0 .. d : SubSeq(F, 1, e) = [n \in 1 .. e |-> F[n]]
      /\ \A x : Append(F, x) = [n \in 1 .. d + 1 |-> IF n = d + 1 THEN x ELSE F[n]]
  BY <1>1, FunSeq
<1>3. Append(F, <<d + 1>>) = Lay(d + 1)
  <2>1. \A n \in 1 .. d + 1 : n \in 1 .. d \/ n = d + 1
    OBVIOUS
  <2>2. \A n \in 1 .. d + 1 : (IF n = d + 1 THEN <<d + 1>> ELSE F[n]) = <<n>>
    BY <1>1, <2>1
  <2>3. Append(F, <<d + 1>>) = [n \in 1 .. d + 1 |-> IF n = d + 1 THEN <<d + 1>> ELSE F[n]]
    BY <1>2, Zenon
  <2> QED BY <2>2, <2>3, Zenon DEF Lay
<1>4. Front(F) = Lay(d - 1)
  <2>1. d - 1 \in 0 .. d /\ \A n \in 1 .. d - 1 : n \in 1 .. d
    OBVIOUS
  <2>2. Front(F) = [n \in 1 .. d - 1 |-> F[n]]
    BY <1>2, <2>1 DEF Front
  <2> QED BY <1>1, <2>1, <2>2 DEF Lay
<1>5. << LayerPath(1) >> = Lay(1)
  <2>1. 1 .. 1 = {1}
    OBVIOUS
  <2> QED BY <2>1 DEF Lay, LayerPath
<1> QED BY <1>1, <1>2, <1>3, <1>4, <1>5 DEF F, LayerPath

\* How the stack changes when layers are written, dropped or added.
StackChanges(s, r, d) ==
    /\ Len(StackOf(s, d)) = d /\ StackOf(s, d)[d] = Layer(s, d)
    /\ \A n \in 1 .. d : StackOf(s, d)[n] = Layer(s, n)
    /\ (\A n \in 1 .. d - 1 : Layer(r, n) = Layer(s, n))
         => /\ StackOf(r, d) = [StackOf(s, d) EXCEPT ![d] = Layer(r, d)]
            /\ StackOf(r, d - 1) = SubSeq(StackOf(s, d), 1, d - 1)
    /\ (\A n \in 1 .. d : Layer(r, n) = Layer(s, n))
         => StackOf(r, d + 1) = Append(StackOf(s, d), Layer(r, d + 1))
    /\ StackOf(s, 1) = << Layer(s, 1) >>

LEMMA StackSteps ==
    ASSUME NEW s, NEW r, NEW d \in Nat, d >= 1
    PROVE  StackChanges(s, r, d)
<1> DEFINE F == StackOf(s, d)
<1>1. F = [n \in 1 .. d |-> F[n]] /\ \A n \in 1 .. d : F[n] = Layer(s, n)
  BY DEF StackOf
<1> HIDE DEF F
<1>2. /\ Len(F) = d
      /\ \A e \in 0 .. d : SubSeq(F, 1, e) = [n \in 1 .. e |-> F[n]]
      /\ \A x : Append(F, x) = [n \in 1 .. d + 1 |-> IF n = d + 1 THEN x ELSE F[n]]
  BY <1>1, FunSeq
<1>3. ASSUME \A n \in 1 .. d - 1 : Layer(r, n) = Layer(s, n)
      PROVE  /\ StackOf(r, d) = [F EXCEPT ![d] = Layer(r, d)]
             /\ StackOf(r, d - 1) = SubSeq(F, 1, d - 1)
  <2>1. \A n \in 1 .. d : n \in 1 .. d - 1 \/ n = d
    OBVIOUS
  <2>2. d - 1 \in 0 .. d /\ \A n \in 1 .. d - 1 : n \in 1 .. d
    OBVIOUS
  <2>3. [F EXCEPT ![d] = Layer(r, d)] = [n \in 1 .. d |-> IF n = d THEN Layer(r, d) ELSE F[n]]
    BY <1>1
  <2>4. \A n \in 1 .. d : (IF n = d THEN Layer(r, d) ELSE F[n]) = Layer(r, n)
    BY <1>1, <1>3, <2>1
  <2>5. StackOf(r, d) = [F EXCEPT ![d] = Layer(r, d)]
    BY <2>3, <2>4 DEF StackOf
  <2>6. SubSeq(F, 1, d - 1) = [n \in 1 .. d - 1 |-> F[n]]
    BY <1>2, <2>2
  <2>7. \A n \in 1 .. d - 1 : F[n] = Layer(r, n)
    BY <1>1, <1>3, <2>2
  <2>8. StackOf(r, d - 1) = SubSeq(F, 1, d - 1)
    BY <2>6, <2>7 DEF StackOf
  <2> QED BY <2>5, <2>8
<1>4. ASSUME \A n \in 1 .. d : Layer(r, n) = Layer(s, n)
      PROVE  StackOf(r, d + 1) = Append(F, Layer(r, d + 1))
  <2>1. \A n \in 1 .. d + 1 : n \in 1 .. d \/ n = d + 1
    OBVIOUS
  <2>2. \A n \in 1 .. d + 1 : (IF n = d + 1 THEN Layer(r, d + 1) ELSE F[n]) = Layer(r, n)
    BY <1>1, <1>4, <2>1
  <2>3. Append(F, Layer(r, d + 1))
          = [n \in 1 .. d + 1 |-> IF n = d + 1 THEN Layer(r, d + 1) ELSE F[n]]
    BY <1>2
  <2> QED BY <2>2, <2>3 DEF StackOf
<1>5. StackOf(s, 1) = << Layer(s, 1) >>
  <2>1. 1 .. 1 = {1}
    OBVIOUS
  <2> QED BY <2>1 DEF StackOf
<1>6. d \in 1 .. d
  OBVIOUS
<1> QED BY <1>1, <1>2, <1>3, <1>4, <1>5, <1>6 DEF F, StackChanges

-----------------------------------------------------------------------------
(* The inductive invariant.                                                *)

\* The layers are numbered from 1 on and, unless the kernel was aborted, the
\* store has no node outside of them.
IInv ==
    /\ WellFormed(store)
    /\ \E d \in Nat : d >= 1 /\ layers = Lay(d)
    /\ crashes \in Nat
    /\ NoLeftovers

\* The stack of the abstract specification.
Stack == [n \in 1 .. Len(layers) |->
             [k \in Ids \X Fields |-> Content(store, layers[n], k[1], k[2])]]

\* What a step from depth d to depth e leaves, on the state and on the stack.
Moved(s, d, r, e) ==
    /\ store = s /\ layers = Lay(d) /\ Len(layers) = d /\ Stack = StackOf(s, d)
    /\ store' = r /\ layers' = Lay(e) /\ Len(layers') = e /\ Stack' = StackOf(r, e)

LEMMA StackIs ==
    ASSUME NEW d \in Nat, d >= 1, layers = Lay(d)
    PROVE  Stack = StackOf(store, d) /\ Len(layers) = d
<1>1. Len(layers) = d /\ \A n \in 1 .. d : layers[n] = <<n>>
  BY LaySteps
<1>2. \A n \in 1 .. d, k \in Keys :
        Content(store, layers[n], k[1], k[2]) = Val(store, Cell(n, k))
  BY <1>1 DEF Content, Val, Cell, has_entry
<1>3. \A n \in 1 .. d : [k \in Keys |-> Content(store, layers[n], k[1], k[2])] = Layer(store, n)
  BY <1>2 DEF Layer
<1>4. Stack = [n \in 1 .. d |-> [k \in Keys |-> Content(store, layers[n], k[1], k[2])]]
  BY <1>1, Zenon DEF Stack, Keys
<1>5. Stack = StackOf(store, d)
  BY <1>3, <1>4, Zenon DEF StackOf
<1> QED BY <1>1, <1>5

LEMMA StackNext ==
    ASSUME NEW d \in Nat, d >= 1, layers' = Lay(d)
    PROVE  Stack' = StackOf(store', d) /\ Len(layers') = d
<1>1. Len(layers') = d /\ \A n \in 1 .. d : layers'[n] = <<n>>
  BY LaySteps
<1>0. PICK s : s = store'
  OBVIOUS
<1>2. \A n \in 1 .. d, k \in Keys :
        Content(s, layers'[n], k[1], k[2]) = Val(s, Cell(n, k))
  BY <1>1 DEF Content, Val, Cell, has_entry
<1>3. \A n \in 1 .. d : [k \in Keys |-> Content(s, layers'[n], k[1], k[2])] = Layer(s, n)
  BY <1>2 DEF Layer
<1>4. Stack' = [n \in 1 .. d |-> [k \in Keys |-> Content(s, layers'[n], k[1], k[2])]]
  BY <1>0, <1>1, Zenon DEF Stack, Keys
<1>5. Stack' = StackOf(s, d)
  BY <1>3, <1>4, Zenon DEF StackOf
<1> QED BY <1>0, <1>1, <1>5

\* A step that leaves a well-formed store and numbered layers keeps the
\* invariant.
LEMMA StepIInv ==
    ASSUME NEW s, NEW r, NEW d \in Nat, d >= 1, NEW e \in Nat, e >= 1,
           IInv, Moved(s, d, r, e), WellFormed(r), crashes' \in Nat,
           crashes' = 0 => crashes = 0 /\ (Within(s, d) => Within(r, e))
    PROVE  IInv'
<1>1. WellFormed(store)' /\ (\E m \in Nat : m >= 1 /\ layers = Lay(m))'
  BY DEF Moved
<1>2. NoLeftovers'
  <2>1. crashes = 0 => Within(s, d)
    BY DEF IInv, NoLeftovers, Within, Moved
  <2>2. crashes' = 0 => Within(r, e)
    BY <2>1
  <2> QED BY <2>2 DEF NoLeftovers, Within, Moved
<1> QED BY <1>1, <1>2 DEF IInv

-----------------------------------------------------------------------------
(* Every step keeps the invariant and is a step of the abstract stack.     *)

\* Field k of the top layer is written.
TopWritten(k, v) ==
    Stack' = [Stack EXCEPT ![Len(Stack)] = [Stack[Len(Stack)] EXCEPT ![k] = v]]

LEMMA WriteStep ==
    ASSUME NEW s, NEW r, NEW d \in Nat, d >= 1, NEW k \in Keys, NEW v,
           IInv, store = s, layers = Lay(d), store' = r, UNCHANGED <<layers, crashes>>,
           Written(s, r, d, k, v)
    PROVE  IInv' /\ TopWritten(k, v)
<1>1. Stack = StackOf(s, d) /\ Len(layers) = d /\ Stack' = StackOf(r, d) /\ Len(layers') = d
  BY StackIs, StackNext
<1>2. IInv'
  <2>1. Moved(s, d, r, d)
    BY <1>1 DEF Moved
  <2> QED BY <2>1, StepIInv DEF Written, IInv
<1>3. /\ Len(StackOf(s, d)) = d /\ StackOf(s, d)[d] = Layer(s, d)
      /\ (\A n \in 1 .. d - 1 : Layer(r, n) = Layer(s, n))
           => StackOf(r, d) = [StackOf(s, d) EXCEPT ![d] = Layer(r, d)]
  <2>1. StackChanges(s, r, d)
    BY StackSteps
  <2> QED BY <2>1, Zenon DEF StackChanges
<1>4. \A n \in 1 .. d - 1 : Layer(r, n) = Layer(s, n)
  <2>1. \A n \in 1 .. d - 1 : n \in Nat /\ n # d
    OBVIOUS
  <2> QED BY <2>1 DEF Written
<1>5. Layer(r, d) = [Layer(s, d) EXCEPT ![k] = v]
  BY DEF Written
<1>6. StackOf(r, d) = [StackOf(s, d) EXCEPT ![d] = [StackOf(s, d)[d] EXCEPT ![k] = v]]
  BY <1>3, <1>4, <1>5, Zenon
<1>7. TopWritten(k, v)
  BY <1>1, <1>3, <1>6, Zenon DEF TopWritten
<1> QED BY <1>2, <1>7

LEMMA StepPut ==
    ASSUME IInv, NEW id \in Ids, NEW f \in Fields, NEW v \in Values,
           create_new(id, f, v) \/ get_or_create(id, f, v)
    PROVE  IInv' /\ Abstract!Next
<1>1. PICK d \in Nat : d >= 1 /\ layers = Lay(d)
  BY DEF IInv
<1>2. Len(layers) = d /\ Top = <<d>>
  <2>1. d \in 1 .. d
    BY <1>1
  <2> QED BY <1>1, <2>1, LaySteps DEF Top
<1>3. PICK s : s = store
  OBVIOUS
<1>4. PICK r : r = store_write_all(s, FieldOf(<<d>>, id, f), v).store
  OBVIOUS
<1>5. store' = r /\ UNCHANGED <<layers, crashes>> /\ call' = "update"
  BY <1>2, <1>3, <1>4 DEF create_new, get_or_create
<1>6. WellFormed(s)
  BY <1>3 DEF IInv
<1>7. Written(s, r, d, <<id, f>>, v)
  BY <1>1, <1>4, <1>6, Put
<1>8. PICK k \in Keys : k = <<id, f>>
  BY DEF Keys
<1>9. Written(s, r, d, k, v)
  BY <1>7, <1>8
<1>10. IInv' /\ TopWritten(k, v)
  BY <1>1, <1>3, <1>5, <1>9, WriteStep
<1>11. Abstract!Put(k, v)
  <2>1. Abstract!Update([Stack[Len(Stack)] EXCEPT ![k] = v])
    BY <1>5, <1>10 DEF Abstract!Update, TopWritten, Stack
  <2> QED BY <2>1, Zenon DEF Abstract!Put, Stack
<1>12. Abstract!Next
  <2>1. k \in Ids \X Fields
    BY DEF Keys
  <2> QED BY <1>11, <2>1, Zenon DEF Abstract!Next
<1> QED BY <1>10, <1>12

\* The fields of `gone' are removed from the top layer.
TopRemoved(gone) ==
    Stack' = [Stack EXCEPT ![Len(Stack)] =
                [k \in Ids \X Fields |-> IF k \in gone THEN Absent ELSE Stack[Len(Stack)][k]]]

LEMMA RemoveIsNext ==
    ASSUME NEW gone \in SUBSET Keys, TopRemoved(gone), UNCHANGED crashes, call' = "update"
    PROVE  Abstract!Next
<1>1. Abstract!Update([k \in Ids \X Fields |->
                         IF k \in gone THEN Absent ELSE Stack[Len(Stack)][k]])
  BY DEF Abstract!Update, TopRemoved, Stack
<1>2. Abstract!Remove(gone)
  BY <1>1, Zenon DEF Abstract!Remove, Stack
<1>3. gone \in SUBSET (Ids \X Fields)
  BY DEF Keys
<1> QED BY <1>2, <1>3, Zenon DEF Abstract!Next

LEMMA StepClear ==
    ASSUME IInv, NEW id \in Ids, NEW f \in Fields, delete_field(id, f)
    PROVE  IInv' /\ Abstract!Next
<1>1. PICK d \in Nat : d >= 1 /\ layers = Lay(d)
  BY DEF IInv
<1>2. Len(layers) = d /\ Top = <<d>>
  <2>1. d \in 1 .. d
    BY <1>1
  <2> QED BY <1>1, <2>1, LaySteps DEF Top
<1>3. PICK s : s = store
  OBVIOUS
<1>4. PICK r : r = store_delete_value(s, FieldOf(<<d>>, id, f)).store
  OBVIOUS
<1>5. store' = r /\ UNCHANGED <<layers, crashes>> /\ call' = "update"
  BY <1>2, <1>3, <1>4 DEF delete_field
<1>6. WellFormed(s)
  BY <1>3 DEF IInv
<1>7. PICK k \in Keys : k = <<id, f>>
  BY DEF Keys
<1>8. Written(s, r, d, k, Absent)
  <2>1. Written(s, r, d, <<id, f>>, Absent)
    BY <1>1, <1>4, <1>6, Cleared
  <2> QED BY <1>7, <2>1
<1>9. IInv' /\ TopWritten(k, Absent)
  BY <1>1, <1>3, <1>5, <1>8, WriteStep
<1>10. TopRemoved({k})
  <2>1. Stack = StackOf(s, d)
    BY <1>1, <1>3, StackIs
  <2>2. Len(StackOf(s, d)) = d /\ StackOf(s, d)[d] = Layer(s, d)
    <3>1. StackChanges(s, s, d)
      BY <1>1, StackSteps
    <3> QED BY <3>1, Zenon DEF StackChanges
  <2>3. [Layer(s, d) EXCEPT ![k] = Absent]
          = [j \in Ids \X Fields |-> IF j \in {k} THEN Absent ELSE Layer(s, d)[j]]
    BY DEF Layer, Keys
  <2>4. Stack[Len(Stack)] = Layer(s, d)
    BY <2>1, <2>2, Zenon
  <2> QED BY <1>9, <2>3, <2>4, Zenon DEF TopWritten, TopRemoved
<1>11. Abstract!Next
  <2>1. {k} \in SUBSET Keys
    OBVIOUS
  <2> QED BY <1>5, <1>10, <2>1, RemoveIsNext
<1> QED BY <1>9, <1>11

LEMMA StepDelete ==
    ASSUME IInv, NEW id \in Ids, delete(id)
    PROVE  IInv' /\ Abstract!Next
<1>1. PICK d \in Nat : d >= 1 /\ layers = Lay(d)
  BY DEF IInv
<1>2. Len(layers) = d /\ Top = <<d>>
  <2>1. d \in 1 .. d
    BY <1>1
  <2> QED BY <1>1, <2>1, LaySteps DEF Top
<1>3. PICK s : s = store
  OBVIOUS
<1>4. PICK r : r = store_delete(s, Object(<<d>>, id)).store
  OBVIOUS
<1>5. store' = r /\ UNCHANGED <<layers, crashes>> /\ call' = "update"
  BY <1>2, <1>3, <1>4 DEF delete
<1>6. WellFormed(s)
  BY <1>3 DEF IInv
<1>7. PICK gone \in SUBSET Keys : gone = {id} \X Fields
  BY DEF Keys
<1>8. /\ WellFormed(r)
      /\ Within(s, d) => Within(r, d)
      /\ \A n \in Nat : n # d => Layer(r, n) = Layer(s, n)
      /\ Layer(r, d) = [k \in Keys |-> IF k \in {id} \X Fields THEN Absent ELSE Layer(s, d)[k]]
  BY <1>1, <1>4, <1>6, Removed
<1>9. /\ Stack = StackOf(s, d) /\ Len(layers) = d
      /\ Stack' = StackOf(r, d) /\ Len(layers') = d /\ layers' = Lay(d)
  BY <1>1, <1>3, <1>5, StackIs, StackNext
<1>10. IInv'
  <2>1. Moved(s, d, r, d)
    BY <1>1, <1>3, <1>5, <1>9 DEF Moved
  <2> QED BY <1>1, <1>5, <1>8, <2>1, StepIInv DEF IInv
<1>11. TopRemoved(gone)
  <2>1. /\ Len(StackOf(s, d)) = d /\ StackOf(s, d)[d] = Layer(s, d)
        /\ (\A n \in 1 .. d - 1 : Layer(r, n) = Layer(s, n))
             => StackOf(r, d) = [StackOf(s, d) EXCEPT ![d] = Layer(r, d)]
    <3>1. StackChanges(s, r, d)
      BY <1>1, StackSteps
    <3> QED BY <3>1, Zenon DEF StackChanges
  <2>2. \A n \in 1 .. d - 1 : Layer(r, n) = Layer(s, n)
    <3>1. \A n \in 1 .. d - 1 : n \in Nat /\ n # d
      OBVIOUS
    <3> QED BY <1>8, <3>1
  <2>3. Layer(r, d) = [k \in Ids \X Fields |-> IF k \in gone THEN Absent ELSE Layer(s, d)[k]]
    BY <1>7, <1>8, Zenon DEF Keys
  <2>4. Stack' = [Stack EXCEPT ![d] = Layer(r, d)]
    BY <1>9, <2>1, <2>2, Zenon
  <2>5. Len(Stack) = d /\ Stack[d] = Layer(s, d)
    BY <1>9, <2>1, Zenon
  <2> QED BY <2>3, <2>4, <2>5, Zenon DEF TopRemoved
<1>12. Abstract!Next
  BY <1>5, <1>11, RemoveIsNext
<1> QED BY <1>10, <1>12

\* A transaction starts with the content of the layer below it; one opened on
\* an empty layer after an abort starts with anything that was left.
LEMMA StepBegin ==
    ASSUME IInv, begin_transaction
    PROVE  IInv' /\ Abstract!Next
<1>1. PICK d \in Nat : d >= 1 /\ layers = Lay(d)
  BY DEF IInv
<1>2. Len(layers) = d /\ Top = <<d>>
  <2>1. d \in 1 .. d
    BY <1>1
  <2> QED BY <1>1, <2>1, LaySteps DEF Top
<1>3. PICK s : s = store
  OBVIOUS
<1>4. PICK c : c = force_make_copy(s, <<d>>, <<d + 1>>)
  OBVIOUS
<1>5. PICK r : r = c.store
  OBVIOUS
<1>6. PICK e \in Nat : e = d + 1 /\ e >= 1
  BY <1>1
<1>7. store' = r /\ layers' = Lay(e) /\ UNCHANGED crashes /\ call' = "begin"
  <2>1. Append(Lay(d), LayerPath(d + 1)) = Lay(d + 1)
    BY <1>1, LaySteps
  <2>2. /\ store' = force_make_copy(store, Top, LayerPath(Len(layers) + 1)).store
        /\ layers' = Append(layers, LayerPath(Len(layers) + 1))
        /\ UNCHANGED crashes /\ call' = "begin"
    BY Zenon DEF begin_transaction
  <2>3. LayerPath(d + 1) = <<d + 1>>
    BY DEF LayerPath
  <2>4. store' = r
    BY <1>2, <1>3, <1>4, <1>5, <2>2, <2>3, Zenon
  <2>5. layers' = Lay(e)
    BY <1>1, <1>2, <1>6, <2>1, <2>2, Zenon
  <2> QED BY <2>2, <2>4, <2>5
<1>8. WellFormed(s)
  BY <1>3 DEF IInv
<1>9. /\ WellFormed(r)
      /\ Within(s, d) => Within(r, d + 1)
      /\ \A n \in Nat : n # d + 1 => Layer(r, n) = Layer(s, n)
      /\ \/ Layer(r, d + 1) = Layer(s, d)
         \/ ~Within(s, d) /\ Layer(s, d) = NoContent
  BY <1>1, <1>4, <1>5, <1>8, Copied
<1>10. /\ Stack = StackOf(s, d) /\ Stack' = StackOf(r, e) /\ Len(layers') = e
  BY <1>1, <1>3, <1>6, <1>7, StackIs, StackNext
<1>11. IInv'
  <2>1. Moved(s, d, r, e)
    BY <1>1, <1>2, <1>3, <1>7, <1>10 DEF Moved
  <2>2. Within(s, d) => Within(r, e)
    BY <1>6, <1>9
  <2>3. crashes \in Nat
    BY DEF IInv
  <2> QED BY <1>1, <1>6, <1>7, <1>9, <2>1, <2>2, <2>3, StepIInv
<1>12. Stack' = Append(Stack, Layer(r, e)) /\ Len(Stack) = d /\ Stack[d] = Layer(s, d)
  <2>1. /\ Len(StackOf(s, d)) = d /\ StackOf(s, d)[d] = Layer(s, d)
        /\ (\A n \in 1 .. d : Layer(r, n) = Layer(s, n))
             => StackOf(r, d + 1) = Append(StackOf(s, d), Layer(r, d + 1))
    <3>1. StackChanges(s, r, d)
      BY <1>1, StackSteps
    <3> QED BY <3>1, Zenon DEF StackChanges
  <2>2. \A n \in 1 .. d : Layer(r, n) = Layer(s, n)
    <3>1. \A n \in 1 .. d : n \in Nat /\ n # d + 1
      OBVIOUS
    <3> QED BY <1>9, <3>1
  <2> QED BY <1>6, <1>10, <2>1, <2>2, Zenon
<1>13. (crashes' > 0) = (crashes > 0)
  BY <1>7
<1>14. Abstract!Begin
  <2>1. CASE Layer(r, d + 1) = Layer(s, d)
    <3>1. Stack' = Append(Stack, Stack[Len(Stack)])
      BY <1>6, <1>12, <2>1, Zenon
    <3> QED BY <1>7, <1>13, <3>1 DEF Abstract!Begin, Stack
  <2>2. CASE ~Within(s, d) /\ Layer(s, d) = NoContent
    <3>1. crashes > 0
      <4>1. crashes # 0
        BY <1>2, <1>3, <2>2 DEF IInv, NoLeftovers, Within
      <4>2. crashes \in Nat
        BY DEF IInv
      <4> QED BY <4>1, <4>2
    <3>2. Stack[Len(Stack)] = Abstract!NoContent
      <4>1. Stack[Len(Stack)] = NoContent
        BY <1>12, <2>2, Zenon
      <4>2. NoContent = Abstract!NoContent
        BY DEF NoContent, Abstract!NoContent, Keys
      <4> QED BY <4>1, <4>2, Zenon
    <3>3. PICK L : L = Layer(r, e)
      OBVIOUS
    <3>4. L \in Abstract!Storages
      <4>1. \A q : Val(r, q) \in Values \cup PartialValues \cup {Absent}
        BY <1>9 DEF WellFormed, Stored, Val
      <4>2. L = [k \in Ids \X Fields |-> Val(r, Cell(e, k))]
        BY <3>3 DEF Layer, Keys
      <4>3. L \in [Ids \X Fields -> Values \cup PartialValues \cup {Absent}]
        BY <4>1, <4>2
      <4> QED BY <4>3, Zenon DEF Abstract!Storages
    <3>5. Stack' = Append(Stack, L)
      BY <1>12, <3>3
    <3> QED BY <1>7, <1>13, <3>1, <3>2, <3>4, <3>5 DEF Abstract!Begin, Stack
  <2> QED BY <1>9, <2>1, <2>2
<1> QED BY <1>11, <1>14, Zenon DEF Abstract!Next

\* The layer below takes the content of the transaction.
LEMMA StepCommit ==
    ASSUME IInv, commit_transaction
    PROVE  IInv' /\ Abstract!Next
<1>1. PICK d \in Nat : d >= 1 /\ layers = Lay(d)
  BY DEF IInv
<1>2. Len(layers) = d /\ \A n \in 1 .. d : layers[n] = <<n>>
  BY <1>1, LaySteps
<1>3. d > 1
  BY <1>2 DEF commit_transaction
<1>4. PICK s : s = store
  OBVIOUS
<1>5. PICK e \in Nat : e = d - 1 /\ e >= 1 /\ e # d
  BY <1>3
<1>6. PICK r : r = consume(s, <<e>>, <<d>>).store
  OBVIOUS
<1>7. store' = r /\ layers' = Lay(e) /\ UNCHANGED crashes /\ call' = "commit"
  <2>1. Front(layers) = Lay(e)
    <3>1. Front(Lay(d)) = Lay(d - 1)
      BY <1>1, LaySteps
    <3> QED BY <1>1, <1>5, <3>1, Zenon
  <2>2. layers[Len(layers) - 1] = <<e>> /\ Top = <<d>>
    <3>1. d \in 1 .. d /\ e \in 1 .. d
      BY <1>3, <1>5
    <3>2. layers[d] = <<d>> /\ layers[e] = <<e>>
      BY <1>2, <3>1, Zenon
    <3> QED BY <1>2, <1>5, <3>2, Zenon DEF Top
  <2> QED BY <1>4, <1>6, <2>1, <2>2, Zenon DEF commit_transaction
<1>8. WellFormed(s)
  BY <1>4 DEF IInv
<1>9. /\ WellFormed(r)
      /\ \A q \in r.nodes \ {<<>>} : q[1] = e \/ (q \in s.nodes /\ q[1] # d)
      /\ \A n \in Nat : n # e /\ n # d => Layer(r, n) = Layer(s, n)
      /\ Layer(r, e) = Layer(s, d)
  <2>1. Merged(s, r, e, d)
    BY <1>5, <1>6, <1>8, Consumed
  <2> QED BY <2>1 DEF Merged
<1>10. Stack = StackOf(s, d) /\ Stack' = StackOf(r, e) /\ Len(layers') = e
  BY <1>1, <1>4, <1>5, <1>7, StackIs, StackNext
<1>11. IInv'
  <2>1. Moved(s, d, r, e)
    BY <1>1, <1>2, <1>4, <1>7, <1>10 DEF Moved
  <2>2. Within(s, d) => Within(r, e)
    <3>1. \A i \in 1 .. d : i # d => i \in 1 .. e
      BY <1>5
    <3>2. e \in 1 .. e
      BY <1>5
    <3> QED BY <1>9, <3>1, <3>2 DEF Within
  <2>3. crashes \in Nat
    BY DEF IInv
  <2> QED BY <1>1, <1>5, <1>7, <1>9, <2>1, <2>2, <2>3, StepIInv
<1>12. Stack' = Append(SubSeq(Stack, 1, Len(Stack) - 2), Stack[Len(Stack)]) /\ Len(Stack) > 1
  <2>1. PICK g \in Nat : g = d - 2 /\ g + 1 = e
    BY <1>3, <1>5
  <2>2. PICK F : F = StackOf(s, d)
    OBVIOUS
  <2>3. F = [n \in 1 .. d |-> F[n]] /\ \A n \in 1 .. d : F[n] = Layer(s, n)
    BY <2>2 DEF StackOf
  <2>4. Len(F) = d /\ \A i \in 0 .. d : SubSeq(F, 1, i) = [n \in 1 .. i |-> F[n]]
    BY <2>3, FunSeq
  <2>5. PICK G : G = [n \in 1 .. g |-> F[n]]
    OBVIOUS
  <2>6. SubSeq(F, 1, g) = G
    <3>1. g \in 0 .. d
      BY <2>1
    <3> QED BY <2>4, <2>5, <3>1
  <2>7. G = [n \in 1 .. g |-> G[n]]
    BY <2>5
  <2>8. Append(G, F[d]) = [n \in 1 .. g + 1 |-> IF n = g + 1 THEN F[d] ELSE G[n]]
    BY <2>7, FunSeq
  <2>9. ASSUME NEW n \in 1 .. e PROVE (IF n = e THEN F[d] ELSE G[n]) = Layer(r, n)
    <3>1. CASE n = e
      <4>1. F[d] = Layer(s, d)
        <5>1. d \in 1 .. d
          BY <1>1
        <5> QED BY <2>3, <5>1
      <4> QED BY <1>9, <3>1, <4>1
    <3>2. CASE n # e
      <4>1. n \in 1 .. g /\ n \in 1 .. d /\ n \in Nat /\ n # d
        BY <1>5, <2>1, <2>9, <3>2
      <4>2. G[n] = Layer(s, n)
        BY <2>3, <2>5, <4>1
      <4> QED BY <1>9, <3>2, <4>1, <4>2
    <3> QED BY <3>1, <3>2
  <2>10. Append(G, F[d]) = StackOf(r, e)
    <3>1. Append(G, F[d]) = [n \in 1 .. e |-> IF n = e THEN F[d] ELSE G[n]]
      BY <2>1, <2>8, Zenon
    <3> QED BY <2>9, <3>1, Zenon DEF StackOf
  <2>11. Stack' = Append(SubSeq(F, 1, Len(F) - 2), F[Len(F)]) /\ Len(F) > 1
    <3>1. Append(SubSeq(F, 1, Len(F) - 2), F[Len(F)]) = Append(G, F[d])
      BY <2>1, <2>4, <2>6, Zenon
    <3>2. Len(F) > 1
      BY <1>3, <2>4
    <3> QED BY <1>10, <2>10, <3>1, <3>2, Zenon
  <2>12. F = Stack
    BY <1>10, <2>2
  <2> QED BY <2>11, <2>12, Zenon
<1>13. (crashes' > 0) = (crashes > 0)
  BY <1>7
<1>14. Abstract!Commit
  BY <1>7, <1>12, <1>13 DEF Abstract!Commit, Stack
<1> QED BY <1>11, <1>14, Zenon DEF Abstract!Next

\* The layer of the transaction is gone and the others are as before.
LEMMA StepRollback ==
    ASSUME IInv, rollback_transaction
    PROVE  IInv' /\ Abstract!Next
<1>1. PICK d \in Nat : d >= 1 /\ layers = Lay(d)
  BY DEF IInv
<1>2. Len(layers) = d /\ \A n \in 1 .. d : layers[n] = <<n>>
  BY <1>1, LaySteps
<1>3. d > 1
  BY <1>2 DEF rollback_transaction
<1>4. PICK s : s = store
  OBVIOUS
<1>5. PICK e \in Nat : e = d - 1 /\ e >= 1 /\ e # d
  BY <1>3
<1>6. PICK r : r = discard(s, <<d>>).store
  OBVIOUS
<1>7. store' = r /\ layers' = Lay(e) /\ UNCHANGED crashes /\ call' = "rollback"
  <2>1. Front(layers) = Lay(e)
    <3>1. Front(Lay(d)) = Lay(d - 1)
      BY <1>1, LaySteps
    <3> QED BY <1>1, <1>5, <3>1, Zenon
  <2>2. Top = <<d>>
    <3>1. d \in 1 .. d
      BY <1>3
    <3> QED BY <1>2, <3>1, Zenon DEF Top
  <2> QED BY <1>4, <1>6, <2>1, <2>2, Zenon DEF rollback_transaction
<1>8. WellFormed(s)
  BY <1>4 DEF IInv
<1>9. /\ WellFormed(r)
      /\ \A q \in r.nodes \ {<<>>} : q \in s.nodes /\ q[1] # d
      /\ \A n \in Nat : n # d => Layer(r, n) = Layer(s, n)
  BY <1>6, <1>8, Discarded
<1>10. Stack = StackOf(s, d) /\ Stack' = StackOf(r, e) /\ Len(layers') = e
  BY <1>1, <1>4, <1>5, <1>7, StackIs, StackNext
<1>11. IInv'
  <2>1. Moved(s, d, r, e)
    BY <1>1, <1>2, <1>4, <1>7, <1>10 DEF Moved
  <2>2. Within(s, d) => Within(r, e)
    <3>1. \A i \in 1 .. d : i # d => i \in 1 .. e
      BY <1>5
    <3> QED BY <1>9, <3>1 DEF Within
  <2>3. crashes \in Nat
    BY DEF IInv
  <2> QED BY <1>1, <1>5, <1>7, <1>9, <2>1, <2>2, <2>3, StepIInv
<1>12. Stack' = SubSeq(Stack, 1, Len(Stack) - 1) /\ Len(Stack) > 1
  <2>1. /\ Len(StackOf(s, d)) = d
        /\ (\A n \in 1 .. d - 1 : Layer(r, n) = Layer(s, n))
             => StackOf(r, d - 1) = SubSeq(StackOf(s, d), 1, d - 1)
    <3>1. StackChanges(s, r, d)
      BY <1>1, StackSteps
    <3> QED BY <3>1, Zenon DEF StackChanges
  <2>2. \A n \in 1 .. d - 1 : Layer(r, n) = Layer(s, n)
    <3>1. \A n \in 1 .. d - 1 : n \in Nat /\ n # d
      OBVIOUS
    <3> QED BY <1>9, <3>1
  <2>3. Len(Stack) = d
    BY <1>10, <2>1, Zenon
  <2>4. Len(Stack) > 1
    BY <1>3, <2>3
  <2> QED BY <1>5, <1>10, <2>1, <2>2, <2>3, <2>4, Zenon
<1>13. (crashes' > 0) = (crashes > 0)
  BY <1>7
<1>14. Abstract!Rollback
  BY <1>7, <1>12, <1>13 DEF Abstract!Rollback, Stack
<1> QED BY <1>11, <1>14, Zenon DEF Abstract!Next

\* An abort forgets the transactions, and may leave part of a value, or none,
\* where the storage itself was being written.
LEMMA StepAbort ==
    ASSUME IInv, Abort
    PROVE  IInv' /\ Abstract!Next
<1>1. PICK d \in Nat : d >= 1 /\ layers = Lay(d)
  BY DEF IInv
<1>2. Len(layers) = d /\ Top = <<d>>
  <2>1. d \in 1 .. d
    BY <1>1
  <2> QED BY <1>1, <2>1, LaySteps DEF Top
<1>3. PICK s : s = store
  OBVIOUS
<1>4. WellFormed(s)
  BY <1>3 DEF IInv
<1>5. PICK one \in Nat : one = 1
  OBVIOUS
<1>6. layers' = Lay(one) /\ crashes' = crashes + 1 /\ call' = "abort"
  <2>1. << LayerPath(1) >> = Lay(1)
    BY <1>1, LaySteps
  <2> QED BY <1>5, <2>1, Zenon DEF Abort
<1>7. crashes \in Nat /\ crashes' \in Nat /\ crashes' > 0 /\ crashes' # 0
  BY <1>6 DEF IInv
<1>8. PICK r : r = store'
  OBVIOUS
<1>9. /\ WellFormed(r)
      /\ \/ Layer(r, 1) = Layer(s, 1)
         \/ d = 1 /\ \E k \in Keys, w \in PartialValues \cup {Absent} :
                       Layer(r, 1) = [Layer(s, 1) EXCEPT ![k] = w]
  <2>0. ASSUME NEW k \in Keys, NEW w \in PartialValues \cup {Absent},
               Written(s, r, d, k, w)
        PROVE  /\ WellFormed(r)
               /\ \/ Layer(r, 1) = Layer(s, 1)
                  \/ d = 1 /\ \E j \in Keys, u \in PartialValues \cup {Absent} :
                                Layer(r, 1) = [Layer(s, 1) EXCEPT ![j] = u]
    <3>1. /\ WellFormed(r)
          /\ \A m \in Nat : Layer(r, m) = IF m = d THEN [Layer(s, d) EXCEPT ![k] = w] ELSE Layer(s, m)
      BY <2>0 DEF Written
    <3>2. CASE d = 1
      <4>1. Layer(r, 1) = [Layer(s, 1) EXCEPT ![k] = w]
        BY <3>1, <3>2
      <4> QED BY <3>1, <3>2, <4>1
    <3>3. CASE d # 1
      BY <3>1, <3>3
    <3> QED BY <3>2, <3>3
  <2>1. CASE UNCHANGED store
    BY <1>3, <1>4, <1>8, <2>1
  <2>2. ASSUME NEW id \in Ids, NEW f \in Fields, NEW v \in Values,
               NEW n \in 1 .. ChunkCount(Len(v)) - 1,
               store' = WriteInterrupted(store_delete_value(store, FieldOf(Top, id, f)).store,
                                         FieldOf(Top, id, f), v, n).store
        PROVE  /\ WellFormed(r)
               /\ \/ Layer(r, 1) = Layer(s, 1)
                  \/ d = 1 /\ \E k \in Keys, w \in PartialValues \cup {Absent} :
                                Layer(r, 1) = [Layer(s, 1) EXCEPT ![k] = w]
    <3>1. r = WriteInterrupted(store_delete_value(s, FieldOf(<<d>>, id, f)).store,
                               FieldOf(<<d>>, id, f), v, n).store
      BY <1>2, <1>3, <1>8, <2>2, Zenon
    <3>2. \E w \in PartialValues : Written(s, r, d, <<id, f>>, w)
      BY <1>1, <1>4, <3>1, PutPart
    <3>3. PICK w \in PartialValues : Written(s, r, d, <<id, f>>, w)
      BY <3>2
    <3>4. PICK k \in Keys : k = <<id, f>>
      BY DEF Keys
    <3> QED BY <2>0, <3>3, <3>4
  <2>3. ASSUME NEW id \in Ids, NEW f \in Fields,
               store' = store_delete_value(store, FieldOf(Top, id, f)).store
        PROVE  /\ WellFormed(r)
               /\ \/ Layer(r, 1) = Layer(s, 1)
                  \/ d = 1 /\ \E k \in Keys, w \in PartialValues \cup {Absent} :
                                Layer(r, 1) = [Layer(s, 1) EXCEPT ![k] = w]
    <3>1. r = store_delete_value(s, FieldOf(<<d>>, id, f)).store
      BY <1>2, <1>3, <1>8, <2>3, Zenon
    <3>2. Written(s, r, d, <<id, f>>, Absent)
      BY <1>1, <1>4, <3>1, Cleared
    <3>3. PICK k \in Keys : k = <<id, f>>
      BY DEF Keys
    <3> QED BY <2>0, <3>2, <3>3
  <2> QED BY <2>1, <2>2, <2>3 DEF Abort
<1>10. Stack = StackOf(s, d) /\ Stack' = StackOf(r, one) /\ Len(layers') = one
  <2>1. one >= 1
    BY <1>5
  <2>2. Stack = StackOf(s, d)
    BY <1>1, <1>3, StackIs
  <2>3. Stack' = StackOf(r, one) /\ Len(layers') = one
    BY <1>6, <1>8, <2>1, StackNext
  <2> QED BY <2>2, <2>3
<1>11. IInv'
  <2>1. Moved(s, d, r, one)
    BY <1>1, <1>2, <1>3, <1>6, <1>8, <1>10 DEF Moved
  <2>2. one >= 1
    BY <1>5
  <2> QED BY <1>1, <1>7, <1>9, <2>1, <2>2, StepIInv
<1>12. Stack' = << Layer(r, 1) >> /\ Stack[1] = Layer(s, 1) /\ Len(Stack) = d
  <2>1. Len(StackOf(s, d)) = d /\ \A n \in 1 .. d : StackOf(s, d)[n] = Layer(s, n)
    <3>1. StackChanges(s, r, d)
      BY <1>1, StackSteps
    <3> QED BY <3>1, Zenon DEF StackChanges
  <2>2. StackOf(r, 1) = << Layer(r, 1) >>
    <3>1. StackChanges(r, r, d)
      BY <1>1, StackSteps
    <3> QED BY <3>1, Zenon DEF StackChanges
  <2>3. 1 \in 1 .. d
    BY <1>1
  <2> QED BY <1>5, <1>10, <2>1, <2>2, <2>3, Zenon
<1>13. Abstract!Abort
  <2>1. CASE Layer(r, 1) = Layer(s, 1)
    <3>1. Stack' = << Stack[1] >>
      BY <1>12, <2>1, Zenon
    <3> QED BY <1>6, <1>7, <3>1 DEF Abstract!Abort, Stack
  <2>2. ASSUME d = 1, NEW k \in Keys, NEW w \in PartialValues \cup {Absent},
               Layer(r, 1) = [Layer(s, 1) EXCEPT ![k] = w]
        PROVE  Abstract!Abort
    <3>1. Stack' = << [Stack[1] EXCEPT ![k] = w] >> /\ Len(Stack) = 1
      BY <1>12, <2>2, Zenon
    <3>2. k \in Ids \X Fields
      BY DEF Keys
    <3> QED BY <1>6, <1>7, <3>1, <3>2 DEF Abstract!Abort, Stack
  <2> QED BY <1>9, <2>1, <2>2
<1> QED BY <1>11, <1>13, Zenon DEF Abstract!Next

-----------------------------------------------------------------------------
(* The theorems.                                                           *)

LEMMA InitRefines == Init => IInv /\ Abstract!Init
<1> SUFFICES ASSUME Init PROVE IInv /\ Abstract!Init
  OBVIOUS
<1>1. PICK d \in Nat : d = 1 /\ d >= 1
  OBVIOUS
<1>2. layers = Lay(d)
  <2>1. << LayerPath(1) >> = Lay(1)
    BY <1>1, LaySteps
  <2> QED BY <1>1, <2>1, Zenon DEF Init
<1>3. WellFormed(store)
  BY EmptyStoreWF DEF Init
<1>4. NoLeftovers
  BY DEF NoLeftovers, Init, EmptyStore
<1>5. IInv
  BY <1>1, <1>2, <1>3, <1>4 DEF IInv, Init
<1>6. PICK s : s = store
  OBVIOUS
<1>7. Stack = << NoContent >>
  <2>1. Stack = StackOf(s, d)
    BY <1>1, <1>2, <1>6, StackIs
  <2>2. StackOf(s, 1) = << Layer(s, 1) >>
    <3>1. StackChanges(s, s, d)
      BY <1>1, StackSteps
    <3> QED BY <3>1, Zenon DEF StackChanges
  <2>3. Layer(s, 1) = NoContent
    <3>1. WellFormed(s) /\ \A q \in s.nodes \ {<<>>} : q[1] # d
      BY <1>3, <1>6 DEF Init, EmptyStore
    <3>2. Layer(s, d) = NoContent
      BY <3>1, NoNode
    <3> QED BY <1>1, <3>2
  <2> QED BY <1>1, <2>1, <2>2, <2>3, Zenon
<1>8. Abstract!Init
  <2>1. NoContent = Abstract!NoContent
    BY DEF NoContent, Abstract!NoContent, Keys
  <2>2. Stack = << Abstract!NoContent >>
    BY <1>7, <2>1, Zenon
  <2>3. (crashes > 0) = FALSE /\ call = "init"
    BY DEF Init
  <2> QED BY <2>2, <2>3 DEF Abstract!Init, Stack
<1> QED BY <1>5, <1>8

LEMMA NextRefines ==
    ASSUME IInv, [Next]_vars
    PROVE  IInv' /\ [Abstract!Next]_<<Stack, crashes > 0, call>>
<1>1. CASE UNCHANGED vars
  <2>1. IInv'
    BY <1>1 DEF IInv, NoLeftovers, vars
  <2>2. UNCHANGED <<Stack, crashes > 0, call>>
    BY <1>1 DEF Stack, vars
  <2> QED BY <2>1, <2>2
<1>2. CASE Next
  BY <1>2, StepBegin, StepCommit, StepRollback, StepPut, StepClear, StepDelete, StepAbort, Zenon
  DEF Next
<1> QED BY <1>1, <1>2

\* Nothing is ever left of a transaction that is over, unless the kernel was
\* aborted inside one, however many objects, fields and open transactions
\* there are and however long the values are.
THEOREM LeavesNothing == Spec => []NoLeftovers
<1>1. Init => IInv
  BY InitRefines
<1>2. IInv /\ [Next]_vars => IInv'
  BY NextRefines
<1>3. IInv => NoLeftovers
  BY DEF IInv
<1> QED BY <1>1, <1>2, <1>3, PTL DEF Spec

\* The durable storage, with its subtrees that are copied, moved and deleted
\* by path and its values written in chunks, implements the stack of storages
\* a kernel programs against.
THEOREM TransactionsImplemented == Spec => ImplementsTransactions
<1>1. Init => IInv /\ Abstract!Init
  BY InitRefines
<1>2. IInv /\ [Next]_vars => IInv'
  BY NextRefines
<1>3. IInv /\ [Next]_vars => [Abstract!Next]_<<Stack, crashes > 0, call>>
  BY NextRefines
<1>4. Spec => Abstract!Init /\ [][Abstract!Next]_<<Stack, crashes > 0, call>>
  BY <1>1, <1>2, <1>3, PTL DEF Spec
<1> QED BY <1>4, PTL DEF ImplementsTransactions, Abstract!Spec, Stack
=============================================================================
