------------------------ MODULE EtherlinkKernelProofs ------------------------
(***************************************************************************)
(* Theorems about the Etherlink kernel, over any number of levels, runs,   *)
(* reboots, failures and upgrades:                                         *)
(*                                                                         *)
(*   - the kernel that runs next reads the storage it finds, or can fall   *)
(*     back on the one that does;                                          *)
(*   - the blocks form a chain, and the receipts and the indexes are those *)
(*     of its transactions;                                                *)
(*   - the balances are what the receipts and the objects say;             *)
(*   - the withdrawals that were executed are those that were posted.      *)
(*                                                                         *)
(* A receipt is stored under the hash of its transaction, so all but the   *)
(* first rest on the fact that no transaction is executed twice.  For an   *)
(* Ethereum transaction that is the nonce of its caller (NoncesGrow); for  *)
(* a deposit there is no check in the kernel, and the invariant follows    *)
(* every deposit from the inbox to its receipt (Deposited).                *)
(***************************************************************************)
EXTENDS EtherlinkKernel, SumLemmas, SequenceTheorems

-----------------------------------------------------------------------------
(* The concatenation of the transactions of the blocks.                    *)

\* g is the table of the concatenations of the first sequences of ss.
Unfolds(ss, g) ==
    g = [i \in 1 .. Len(ss) |-> IF i = 1 THEN ss[i] ELSE g[i - 1] \o ss[i]]

\* The table exists.
LEMMA UnfoldExists ==
    ASSUME NEW S, NEW ss \in Seq(Seq(S))
    PROVE  \E g \in [1 .. Len(ss) -> Seq(S)] : Unfolds(ss, g)
<1> PICK n \in Nat : n = Len(ss)
  BY LenProperties
<1>0. \A i \in 1 .. n : ss[i] \in Seq(S)
  BY ElementOfSeq
<1> DEFINE Sol(k, g) ==
      \A i \in 1 .. k : g[i] = IF i = 1 THEN ss[i] ELSE g[i - 1] \o ss[i]
<1> DEFINE T == {k \in 0 .. n : \E g \in [1 .. k -> Seq(S)] : Sol(k, g)}
<1>1. 0 \in T
  <2> DEFINE e == [i \in 1 .. 0 |-> ss[i]]
  <2>1. e \in [1 .. 0 -> Seq(S)] /\ Sol(0, e)
    OBVIOUS
  <2> HIDE DEF e, Sol
  <2>2. \E g \in [1 .. 0 -> Seq(S)] : Sol(0, g)
    BY <2>1
  <2>3. 0 \in 0 .. n
    OBVIOUS
  <2> QED BY <2>2, <2>3
<1>2. ASSUME NEW k \in 0 .. n - 1, k \in T PROVE k + 1 \in T
  <2>1. PICK g \in [1 .. k -> Seq(S)] : Sol(k, g)
    BY <1>2
  <2> DEFINE h == [i \in 1 .. k + 1 |->
                     IF i <= k THEN g[i]
                     ELSE IF i = 1 THEN ss[i] ELSE g[i - 1] \o ss[i]]
  <2>2. k + 1 \in 1 .. n /\ ss[k + 1] \in Seq(S)
    BY <1>0
  <2>3. k + 1 # 1 => g[k] \o ss[k + 1] \in Seq(S)
    <3> SUFFICES ASSUME k + 1 # 1 PROVE g[k] \o ss[k + 1] \in Seq(S)
      OBVIOUS
    <3>1. g[k] \in Seq(S)
      OBVIOUS
    <3> QED BY <3>1, <2>2, ConcatProperties
  <2>4. h \in [1 .. k + 1 -> Seq(S)]
    BY <2>2, <2>3
  <2>5. Sol(k + 1, h)
    <3> SUFFICES ASSUME NEW i \in 1 .. k + 1
                 PROVE  h[i] = IF i = 1 THEN ss[i] ELSE h[i - 1] \o ss[i]
      OBVIOUS
    <3>1. i # 1 => i - 1 \in 1 .. k + 1 /\ i - 1 <= k
      OBVIOUS
    <3>2. i # 1 => h[i - 1] = g[i - 1]
      BY <3>1
    <3>3. CASE i <= k
      <4>1. i \in 1 .. k /\ h[i] = g[i]
        BY <3>3
      <4>2. g[i] = IF i = 1 THEN ss[i] ELSE g[i - 1] \o ss[i]
        BY <2>1, <4>1
      <4> HIDE DEF h
      <4> QED BY <3>2, <4>1, <4>2
    <3>4. CASE ~ (i <= k)
      <4>1. h[i] = IF i = 1 THEN ss[i] ELSE g[i - 1] \o ss[i]
        BY <3>4
      <4> HIDE DEF h
      <4> QED BY <3>2, <4>1
    <3> QED BY <3>3, <3>4
  <2> HIDE DEF h, Sol
  <2> QED BY <2>2, <2>4, <2>5
<1>3. n \in T
  <2> HIDE DEF T
  <2>1. \A k \in 0 .. n - 1 : k \in T => k + 1 \in T
    BY <1>2
  <2>2. \A k \in 0 .. n : k \in T
    BY <1>1, <2>1, UpTo
  <2> QED BY <2>2
<1>4. PICK g \in [1 .. n -> Seq(S)] : Sol(n, g)
  BY <1>3
<1>5. Unfolds(ss, g)
  BY <1>4 DEF Unfolds
<1> QED BY <1>5

\* There is only one, and FlattenSeq reads it.
LEMMA FlattenTable ==
    ASSUME NEW S, NEW ss \in Seq(Seq(S)), Len(ss) # 0, NEW g, Unfolds(ss, g)
    PROVE  FlattenSeq(ss) = g[Len(ss)]
<1> PICK n \in Nat : n = Len(ss)
  BY LenProperties
<1> DEFINE f == CHOOSE f : Unfolds(ss, f)
<1>1. FlattenSeq(ss) = f[n]
  BY DEF FlattenSeq, Unfolds
<1>2. Unfolds(ss, f)
  OBVIOUS
<1> HIDE DEF f
<1> DEFINE T == {k \in 0 .. n : \A j \in 1 .. k : f[j] = g[j]}
<1>3. 0 \in T
  OBVIOUS
<1>4. ASSUME NEW k \in 0 .. n - 1, k \in T PROVE k + 1 \in T
  <2>1. \A j \in 1 .. k : f[j] = g[j]
    BY <1>4
  <2>2. /\ f[k + 1] = IF k + 1 = 1 THEN ss[k + 1] ELSE f[k] \o ss[k + 1]
        /\ g[k + 1] = IF k + 1 = 1 THEN ss[k + 1] ELSE g[k] \o ss[k + 1]
    <3>1. k + 1 \in 1 .. n /\ (k + 1) - 1 = k
      OBVIOUS
    <3> QED BY <1>2, <3>1 DEF Unfolds
  <2>3. f[k + 1] = g[k + 1]
    <3>1. k + 1 # 1 => k \in 1 .. k
      OBVIOUS
    <3> QED BY <2>1, <2>2, <3>1
  <2> QED BY <2>1, <2>3
<1>5. n \in T
  <2> HIDE DEF T
  <2>1. \A k \in 0 .. n - 1 : k \in T => k + 1 \in T
    BY <1>4
  <2>2. \A k \in 0 .. n : k \in T
    BY <1>3, <2>1, UpTo
  <2> QED BY <2>2
<1> QED BY <1>1, <1>5

\* A block more.
LEMMA FlattenAppend ==
    ASSUME NEW S, NEW ss \in Seq(Seq(S)), NEW x \in Seq(S)
    PROVE  /\ FlattenSeq(ss) \in Seq(S)
           /\ FlattenSeq(Append(ss, x)) = FlattenSeq(ss) \o x
<1> PICK n \in Nat : n = Len(ss)
  BY LenProperties
<1> PICK tt \in Seq(Seq(S)) : tt = Append(ss, x)
  BY AppendProperties
<1>1. Len(tt) = n + 1 /\ tt[n + 1] = x /\ \A i \in 1 .. n : tt[i] = ss[i]
  BY AppendProperties
<1>2. PICK g \in [1 .. n + 1 -> Seq(S)] : Unfolds(tt, g)
  BY <1>1, UnfoldExists
<1>3. \A i \in 1 .. n + 1 : g[i] = IF i = 1 THEN tt[i] ELSE g[i - 1] \o tt[i]
  BY <1>1, <1>2 DEF Unfolds
<1>4. FlattenSeq(tt) = g[n + 1]
  <2>1. Len(tt) # 0
    BY <1>1
  <2> QED BY <1>1, <1>2, <2>1, FlattenTable
<1>5. CASE n = 0
  <2>1. ss = <<>>
    BY <1>5, EmptySeq
  <2>2. FlattenSeq(ss) = <<>>
    BY <2>1, <1>5 DEF FlattenSeq
  <2>3. g[n + 1] = x
    BY <1>1, <1>3, <1>5
  <2> QED BY <1>4, <2>2, <2>3, ConcatEmptySeq, EmptySeq
<1>6. CASE n # 0
  <2> DEFINE h == [i \in 1 .. n |-> g[i]]
  <2>1. Unfolds(ss, h)
    <3>1. \A i \in 1 .. n : h[i] = IF i = 1 THEN ss[i] ELSE h[i - 1] \o ss[i]
      <4> SUFFICES ASSUME NEW i \in 1 .. n
                   PROVE  h[i] = IF i = 1 THEN ss[i] ELSE h[i - 1] \o ss[i]
        OBVIOUS
      <4>1. i \in 1 .. n + 1 /\ tt[i] = ss[i] /\ (i # 1 => i - 1 \in 1 .. n)
        BY <1>1
      <4>2. h[i] = g[i] /\ (i # 1 => h[i - 1] = g[i - 1])
        BY <4>1
      <4> QED BY <1>3, <4>1, <4>2
    <3>2. h = [i \in 1 .. n |-> h[i]]
      OBVIOUS
    <3> HIDE DEF h
    <3> QED BY <3>1, <3>2 DEF Unfolds
  <2>2. FlattenSeq(ss) = g[n]
    <3>1. Len(ss) # 0 /\ h[n] = g[n]
      BY <1>6
    <3> HIDE DEF h
    <3>2. FlattenSeq(ss) = h[Len(ss)]
      BY <2>1, <3>1, FlattenTable
    <3> QED BY <3>1, <3>2
  <2>3. g[n + 1] = g[n] \o x /\ g[n] \in Seq(S)
    <3>1. n + 1 \in 1 .. n + 1 /\ n + 1 # 1 /\ (n + 1) - 1 = n /\ n \in 1 .. n + 1
      BY <1>6
    <3> QED BY <1>1, <1>3, <3>1
  <2> QED BY <1>4, <2>2, <2>3
<1> QED BY <1>5, <1>6

-----------------------------------------------------------------------------
(* What fetch does with the transactions and the blueprints of an inbox,   *)
(* one after the other.                                                    *)

\* One step of either loop of fetch_sequencer_blueprints, or of the loop of
\* fetch_delayed_txs.
FetchStep(loop, st, x) ==
    CASE loop = 0 -> save_transaction(st, x)
      [] loop = 1 -> store_sequencer_blueprint(st, x)
      [] loop = 2 -> find_and_remove_transaction(st, x)

\* The largest index of a set that has the last one.
LEMMA MaxIsLast ==
    ASSUME NEW k \in Nat, NEW s \in SUBSET (1 .. k), k \in s
    PROVE  Max(s) = k
<1> DEFINE P(x) == x \in s /\ \A y \in s : x >= y
<1>1. P(k)
  OBVIOUS
<1>2. Max(s) = CHOOSE x : P(x)
  BY DEF Max
<1>3. P(Max(s))
  <2> HIDE DEF P
  <2> QED BY <1>1, <1>2
<1>4. Max(s) \in 1 .. k /\ Max(s) >= k
  BY <1>3
<1> QED BY <1>4

\* The table over sets of indices that a fold is defined by.
Table(loop, base, xs, n, h) ==
    h = [s \in SUBSET (1 .. n) |->
           IF s = {} THEN base ELSE FetchStep(loop, h[s \ {Max(s)}], xs[Max(s)])]

\* The table exists.
LEMMA FoldExists ==
    ASSUME NEW loop \in {0, 1, 2}, NEW base, NEW xs, NEW n \in Nat
    PROVE  \E h : Table(loop, base, xs, n, h)
<1> DEFINE Sol(k, h) ==
      \A s \in SUBSET (1 .. k) :
         h[s] = IF s = {} THEN base ELSE FetchStep(loop, h[s \ {Max(s)}], xs[Max(s)])
<1> DEFINE T == {k \in 0 .. n : \E h : Sol(k, h)}
<1>1. 0 \in T
  <2> DEFINE e == [s \in {{}} |-> base]
  <2>1. Sol(0, e)
    <3>1. \A s \in SUBSET (1 .. 0) : s = {}
      OBVIOUS
    <3>2. e[{}] = base
      OBVIOUS
    <3> HIDE DEF e
    <3> QED BY <3>1, <3>2
  <2> HIDE DEF e, Sol
  <2>2. \E h : Sol(0, h)
    BY <2>1
  <2>3. 0 \in 0 .. n
    OBVIOUS
  <2> QED BY <2>2, <2>3
<1>2. ASSUME NEW k \in 0 .. n - 1, k \in T PROVE k + 1 \in T
  <2>1. PICK g : Sol(k, g)
    BY <1>2
  <2> DEFINE h == [s \in SUBSET (1 .. k + 1) |->
                     IF k + 1 \in s THEN FetchStep(loop, g[s \ {k + 1}], xs[k + 1])
                     ELSE g[s]]
  <2>2. \A s \in SUBSET (1 .. k + 1) : k + 1 \notin s => s \in SUBSET (1 .. k)
    OBVIOUS
  <2>3. ASSUME NEW s \in SUBSET (1 .. k + 1)
        PROVE  h[s] = IF s = {} THEN base
                      ELSE FetchStep(loop, h[s \ {Max(s)}], xs[Max(s)])
    <3>1. CASE k + 1 \in s
      <4>1. Max(s) = k + 1
        BY <3>1, MaxIsLast
      <4>2. h[s \ {k + 1}] = g[s \ {k + 1}]
        OBVIOUS
      <4>3. h[s] = FetchStep(loop, g[s \ {k + 1}], xs[k + 1]) /\ s # {}
        BY <3>1
      <4> HIDE DEF h
      <4> QED BY <4>1, <4>2, <4>3
    <3>2. CASE k + 1 \notin s
      <4>1. s \in SUBSET (1 .. k) /\ h[s] = g[s]
        BY <2>2, <3>2
      <4>2. k + 1 \notin s \ {Max(s)} /\ h[s \ {Max(s)}] = g[s \ {Max(s)}]
        BY <3>2
      <4> HIDE DEF h
      <4> QED BY <2>1, <4>1, <4>2
    <3> QED BY <3>1, <3>2
  <2> HIDE DEF h
  <2>4. Sol(k + 1, h)
    BY <2>3
  <2>5. k + 1 \in 0 .. n
    OBVIOUS
  <2> HIDE DEF Sol
  <2> QED BY <2>4, <2>5
<1>3. n \in T
  <2> HIDE DEF T
  <2>1. \A k \in 0 .. n - 1 : k \in T => k + 1 \in T
    BY <1>2
  <2>2. \A k \in 0 .. n : k \in T
    BY <1>1, <2>1, UpTo
  <2> QED BY <2>2
<1>4. PICK h : Sol(n, h)
  BY <1>3
<1> DEFINE f == [s \in SUBSET (1 .. n) |-> h[s]]
<1>5. ASSUME NEW s \in SUBSET (1 .. n)
      PROVE  f[s] = IF s = {} THEN base
                    ELSE FetchStep(loop, f[s \ {Max(s)}], xs[Max(s)])
  <2>1. f[s] = h[s] /\ f[s \ {Max(s)}] = h[s \ {Max(s)}]
    OBVIOUS
  <2> HIDE DEF f
  <2> QED BY <1>4, <2>1
<1>6. f = [s \in SUBSET (1 .. n) |-> f[s]]
  OBVIOUS
<1> HIDE DEF f
<1>7. Table(loop, base, xs, n, f)
  BY <1>5, <1>6 DEF Table
<1> QED BY <1>7

\* What the table says of the first k elements.
LoopStates(loop, base, xs, n, g) ==
    /\ g[0] = base
    /\ \A k \in 1 .. n : g[k] = FetchStep(loop, g[k - 1], xs[k])

LEMMA TablePrefixes ==
    ASSUME NEW loop \in {0, 1, 2}, NEW base, NEW xs, NEW n \in Nat, NEW h,
           Table(loop, base, xs, n, h)
    PROVE  \E g : LoopStates(loop, base, xs, n, g) /\ h[1 .. n] = g[n]
<1> DEFINE g == [k \in 0 .. n |-> h[1 .. k]]
<1>0. \A s \in SUBSET (1 .. n) :
        h[s] = IF s = {} THEN base ELSE FetchStep(loop, h[s \ {Max(s)}], xs[Max(s)])
  BY DEF Table
<1>1. g[0] = base
  <2>1. 1 .. 0 = {} /\ g[0] = h[1 .. 0]
    OBVIOUS
  <2>2. h[{}] = base
    BY <1>0
  <2> HIDE DEF g
  <2> QED BY <2>1, <2>2
<1>2. ASSUME NEW k \in 1 .. n PROVE g[k] = FetchStep(loop, g[k - 1], xs[k])
  <2>1. Max(1 .. k) = k
    BY MaxIsLast
  <2>2. (1 .. k) \ {k} = 1 .. k - 1 /\ 1 .. k # {} /\ 1 .. k \in SUBSET (1 .. n)
    <3>1. k \in 1 .. k /\ \A i \in 1 .. k : i \in 1 .. n
      OBVIOUS
    <3>2. \A i : i \in (1 .. k) \ {k} <=> i \in 1 .. k - 1
      OBVIOUS
    <3>3. (1 .. k) \ {k} = 1 .. k - 1
      BY <3>2
    <3> QED BY <3>1, <3>3
  <2>3. g[k] = h[1 .. k] /\ g[k - 1] = h[1 .. k - 1]
    <3>1. k \in 0 .. n /\ k - 1 \in 0 .. n
      OBVIOUS
    <3> QED BY <3>1
  <2> HIDE DEF g
  <2>4. h[1 .. k] = FetchStep(loop, h[(1 .. k) \ {Max(1 .. k)}], xs[Max(1 .. k)])
    BY <1>0, <2>2
  <2> QED BY <2>1, <2>2, <2>3, <2>4
<1>3. g[n] = h[1 .. n]
  OBVIOUS
<1> HIDE DEF g
<1> QED BY <1>1, <1>2, <1>3 DEF LoopStates

\* The loop that saves the transactions.
LEMMA SaveSteps ==
    ASSUME NEW st, NEW S, NEW xs \in Seq(S)
    PROVE  \E g : /\ LoopStates(0, st, xs, Len(xs), g)
                  /\ FoldLeft(save_transaction, st, xs) = g[Len(xs)]
<1> PICK n \in Nat : n = Len(xs) /\ DOMAIN xs = 1 .. n
  BY LenProperties
<1> DEFINE Eq(it) == it = [s \in SUBSET (1 .. n) |->
                             IF s = {} THEN st
                             ELSE save_transaction(it[s \ {Max(s)}], xs[Max(s)])]
<1> DEFINE iter == CHOOSE it : Eq(it)
<1>1. FoldLeft(save_transaction, st, xs) = iter[1 .. n]
  BY DEF FoldLeft, MapThenFoldSet
<1>2. \E it : Eq(it)
  <2>0. \E it : Table(0, st, xs, n, it)
    BY FoldExists
  <2>1. PICK it : Table(0, st, xs, n, it)
    BY <2>0
  <2>2. Eq(it)
    <3>1. \A x, y : FetchStep(0, x, y) = save_transaction(x, y)
      BY DEF FetchStep
    <3> QED BY <2>1, <3>1 DEF Table
  <2> QED BY <2>2
<1>3. Eq(iter)
  <2> HIDE DEF Eq
  <2> QED BY <1>2
<1>4. Table(0, st, xs, n, iter)
  <2> HIDE DEF iter
  <2>1. \A x, y : FetchStep(0, x, y) = save_transaction(x, y)
    BY DEF FetchStep
  <2> QED BY <1>3, <2>1 DEF Table
<1> HIDE DEF iter
<1>5. \E g : LoopStates(0, st, xs, n, g) /\ iter[1 .. n] = g[n]
  BY <1>4, TablePrefixes
<1> QED BY <1>1, <1>5

\* The loop that stores the blueprints.
LEMMA StoreSteps ==
    ASSUME NEW st, NEW S, NEW xs \in Seq(S)
    PROVE  \E g : /\ LoopStates(1, st, xs, Len(xs), g)
                  /\ FoldLeft(store_sequencer_blueprint, st, xs) = g[Len(xs)]
<1> PICK n \in Nat : n = Len(xs) /\ DOMAIN xs = 1 .. n
  BY LenProperties
<1> DEFINE Eq(it) == it = [s \in SUBSET (1 .. n) |->
                             IF s = {} THEN st
                             ELSE store_sequencer_blueprint(it[s \ {Max(s)}], xs[Max(s)])]
<1> DEFINE iter == CHOOSE it : Eq(it)
<1>1. FoldLeft(store_sequencer_blueprint, st, xs) = iter[1 .. n]
  BY DEF FoldLeft, MapThenFoldSet
<1>2. \E it : Eq(it)
  <2>0. \E it : Table(1, st, xs, n, it)
    BY FoldExists
  <2>1. PICK it : Table(1, st, xs, n, it)
    BY <2>0
  <2>2. Eq(it)
    <3>1. \A x, y : FetchStep(1, x, y) = store_sequencer_blueprint(x, y)
      BY DEF FetchStep
    <3> QED BY <2>1, <3>1 DEF Table
  <2> QED BY <2>2
<1>3. Eq(iter)
  <2> HIDE DEF Eq
  <2> QED BY <1>2
<1>4. Table(1, st, xs, n, iter)
  <2> HIDE DEF iter
  <2>1. \A x, y : FetchStep(1, x, y) = store_sequencer_blueprint(x, y)
    BY DEF FetchStep
  <2> QED BY <1>3, <2>1 DEF Table
<1> HIDE DEF iter
<1>5. \E g : LoopStates(1, st, xs, n, g) /\ iter[1 .. n] = g[n]
  BY <1>4, TablePrefixes
<1> QED BY <1>1, <1>5

\* The loop that takes transactions from the delayed inbox.
LEMMA DelayedSteps ==
    ASSUME NEW acc, NEW S, NEW xs \in Seq(S)
    PROVE  \E g : /\ LoopStates(2, acc, xs, Len(xs), g)
                  /\ FoldLeft(find_and_remove_transaction, acc, xs) = g[Len(xs)]
<1> PICK n \in Nat : n = Len(xs) /\ DOMAIN xs = 1 .. n
  BY LenProperties
<1> DEFINE Eq(it) == it = [s \in SUBSET (1 .. n) |->
                             IF s = {} THEN acc
                             ELSE find_and_remove_transaction(it[s \ {Max(s)}], xs[Max(s)])]
<1> DEFINE iter == CHOOSE it : Eq(it)
<1>0. \A x, y : FetchStep(2, x, y) = find_and_remove_transaction(x, y)
  BY DEF FetchStep
<1>1. FoldLeft(find_and_remove_transaction, acc, xs) = iter[1 .. n]
  BY DEF FoldLeft, MapThenFoldSet
<1>2. \E it : Eq(it)
  <2>0. \E it : Table(2, acc, xs, n, it)
    BY FoldExists
  <2>1. PICK it : Table(2, acc, xs, n, it)
    BY <2>0
  <2>2. Eq(it)
    BY <1>0, <2>1 DEF Table
  <2> QED BY <2>2
<1>3. Eq(iter)
  <2> HIDE DEF Eq
  <2> QED BY <1>2
<1>4. Table(2, acc, xs, n, iter)
  <2> HIDE DEF iter
  <2> QED BY <1>0, <1>3 DEF Table
<1> HIDE DEF iter
<1>5. \E g : LoopStates(2, acc, xs, n, g) /\ iter[1 .. n] = g[n]
  BY <1>4, TablePrefixes
<1> QED BY <1>1, <1>5

-----------------------------------------------------------------------------
(* The durable storage.                                                    *)

Keys == {"chain_id", "base_fee", "storage_version", "kernel_version", "boot",
         "sequencer", "upgrade", "timestamp", "stats", "last_blueprint", "blueprints",
         "delayed", "chunked", "deposit_nonce", "current", "blocks", "bip", "receipts",
         "objects", "accounts_index", "tx_index", "accounts"}

IsStorage(s) == s = [k \in Keys |-> s[k]]

\* t is a storage that agrees with s but for the keys in C.
Only(s, t, C) == IsStorage(t) /\ \A k \in Keys \ C : t[k] = s[k]

AccountsMap == [Addresses -> [balance : Int, nonce : Nat, code : BOOLEAN]]
Receipts == [index : Int, block_number : Int, cumulative_gas : Int, gas_used : Int,
             success : BOOLEAN]
Objects == [index : Int, block_number : Int, from : Addresses, to : Addresses,
            gas_used : Int, value : Int]
BlockSet == [number : Int, parent : {FirstParent} \cup BlockHashes, txs : Seq(Hashes),
             timestamp : Int, gas : Int]
InboxBlueprints == [transactions : Seq(Transactions), timestamp : Int]
Stats == (Nat \ {0}) \X Int

\* Blueprints made of the inbox are the first chunk of their number.
BlueprintsOK(bs) ==
    /\ DOMAIN bs \subseteq Int
    /\ \A k \in DOMAIN bs : \A i \in DOMAIN bs[k].chunks :
         bs[k].chunks[i].inbox => i = 0 /\ bs[k].chunks[i].chunk \in InboxBlueprints

\* What is written while the inbox is read and fetched.
BaseOK(s) ==
    /\ IsStorage(s)
    /\ s.deposit_nonce \in Nat /\ s.last_blueprint \in Int
    /\ s.timestamp \in Int \cup {None} /\ s.stats \in Stats \cup {None}
    /\ BlueprintsOK(s.blueprints)

\* What is written while blocks are computed.
StorageOK(s) ==
    /\ s.accounts \in AccountsMap /\ s.base_fee \in {None, BaseFee}
    /\ s.current \in Heads \cup {None} /\ s.blocks \in Seq(BlockSet)
    /\ s.bip \in Bips \cup {None}
    /\ s.tx_index \in Seq(Hashes) /\ s.accounts_index \in Seq(Addresses)
    /\ DOMAIN s.receipts \subseteq Hashes
    /\ s.receipts \in [DOMAIN s.receipts -> Receipts]
    /\ s.objects \in [DOMAIN s.receipts -> Objects]

-----------------------------------------------------------------------------
(* The chain of a storage s, with the block b in progress or None.         *)

ValidTxs(b) == IF b = None THEN <<>> ELSE b.valid_txs
Queue(b) == IF b = None THEN <<>> ELSE b.tx_queue

ParentOf(s, n) == IF n = 0 THEN FirstParent ELSE BlockHash(s.blocks[n])

Links(s, b) ==
    /\ \A i \in DOMAIN s.blocks :
         s.blocks[i].number = i - 1 /\ s.blocks[i].parent = ParentOf(s, i - 1)
    /\ s.current = IF Len(s.blocks) = 0 THEN None
                   ELSE [number |-> Len(s.blocks) - 1, hash |-> ParentOf(s, Len(s.blocks))]
    /\ b # None => /\ b.number = Len(s.blocks)
                   /\ b.parent_hash = ParentOf(s, Len(s.blocks))
                   /\ b.index = Len(b.valid_txs)

\* The transactions of a block have their receipts.
Recorded(s, number, txs, gas) ==
    /\ \A i \in DOMAIN txs :
         /\ txs[i] \in DOMAIN s.receipts
         /\ s.receipts[txs[i]].block_number = number
         /\ s.receipts[txs[i]].index = i - 1
         /\ s.objects[txs[i]].index = i - 1
    /\ gas = IF txs = <<>> THEN 0 ELSE s.receipts[Last(txs)].cumulative_gas

Executed(s) == FlattenSeq([i \in DOMAIN s.blocks |-> s.blocks[i].txs])

Indexed(s, b) ==
    /\ s.tx_index = Executed(s) \o ValidTxs(b)
    /\ DOMAIN s.receipts = Range(s.tx_index)
    /\ IsInjective(s.tx_index)
    /\ IsInjective(s.accounts_index)
    /\ \A h \in DOMAIN s.objects :
         {s.objects[h].from, s.objects[h].to} \subseteq Range(s.accounts_index)

Receipted(s, b) ==
    /\ \A i \in DOMAIN s.blocks :
         Recorded(s, s.blocks[i].number, s.blocks[i].txs, s.blocks[i].gas)
    /\ b # None => Recorded(s, b.number, b.valid_txs, b.cumulative_gas)

\* A transaction that was executed is not valid again.
NoncesGrow(s) ==
    \A h \in DOMAIN s.receipts \cap DOMAIN Tx :
        Tx[h].caller \in Addresses /\ s.accounts[Tx[h].caller].nonce > Tx[h].nonce

\* What a transaction with a receipt added to the balances.
Effect(s) == [h \in DOMAIN s.receipts |->
                IF IsDeposit(h) THEN s.objects[h].value
                ELSE - s.receipts[h].gas_used * s.base_fee
                     - (IF Tx[h].outcome = "withdraw" THEN s.objects[h].value ELSE 0)]

Balanced(s) ==
    /\ IsFiniteSet(DOMAIN s.receipts)
    /\ DOMAIN s.receipts # {} => s.base_fee = BaseFee
    /\ SumFunction([a \in Addresses |-> s.accounts[a].balance])
         = SumFunction(InitialBalance) + SumFunction(Effect(s))

-----------------------------------------------------------------------------
(* Deposits: each is waiting at most once, in the queue of the block b, in *)
(* the content c read from the inbox, in the delayed inbox or in a         *)
(* blueprint.                                                              *)

DepositsIn(q) == {q[j].tx_hash : j \in {i \in DOMAIN q : q[i].content = "Deposit"}}

Once(q) ==
    \A i, j \in DOMAIN q :
        q[i].content = "Deposit" /\ q[j].content = "Deposit" /\ q[i].tx_hash = q[j].tx_hash
            => i = j

IsQueue(q) == q \in Seq(Transactions) /\ Once(q)

\* The elements of the delayed inbox: an element of its list may have a pointer
\* and no data.
Kept(l) == {h \in DOMAIN l.store : l.store[h].data # NoId}

DelayedOK(l) == \A h \in Kept(l) : l.store[h].data \in Transactions /\ l.store[h].data.tx_hash = h

DelayedDeposits(l) == {h \in Kept(l) : l.store[h].data.content = "Deposit"}

FromInbox(s, k) ==
    /\ k \in DOMAIN s.blueprints
    /\ 0 \in DOMAIN s.blueprints[k].chunks /\ s.blueprints[k].chunks[0].inbox

LastBlock(s, b) == IF b = None THEN Len(s.blocks) - 1 ELSE Len(s.blocks)

AwaitedInbox(s, b) == {k \in DOMAIN s.blueprints : FromInbox(s, k) /\ k > LastBlock(s, b)}

TxsOf(s, k) == s.blueprints[k].chunks[0].chunk.transactions

\* The nonces below N were given to deposits; R is the set of hashes with a
\* receipt, Q the deposits of the queue, C of the content, D of the delayed
\* inbox, and F[k] of the blueprint k.
Tracked(N, R, Q, C, D, F) ==
    /\ \A n \in R \ DOMAIN Tx : n \in Nat /\ n < N
    /\ \A n \in Q \cup C \cup D : n \in Nat /\ n < N /\ n \notin R
    /\ Q \cap C = {} /\ Q \cap D = {} /\ C \cap D = {}
    /\ \A k \in DOMAIN F : \A n \in F[k] :
         n \in Nat /\ n < N /\ n \notin R /\ n \notin Q /\ n \notin C /\ n \notin D
    /\ \A k, l \in DOMAIN F : k # l => F[k] \cap F[l] = {}

InBlueprints(s, b) == [k \in AwaitedInbox(s, b) |-> DepositsIn(TxsOf(s, k))]

Deposited(s, b, c) ==
    /\ IsQueue(Queue(b)) /\ IsQueue(c) /\ DelayedOK(s.delayed)
    /\ \A k \in AwaitedInbox(s, b) : IsQueue(TxsOf(s, k))
    /\ Tracked(s.deposit_nonce, DOMAIN s.receipts, DepositsIn(Queue(b)), DepositsIn(c),
               DelayedDeposits(s.delayed), InBlueprints(s, b))

\* The chain and its accounts.
Chain(s, b) ==
    /\ StorageOK(s) /\ b \in Bips \cup {None}
    /\ Links(s, b) /\ Indexed(s, b) /\ Receipted(s, b)
    /\ NoncesGrow(s) /\ Balanced(s)

\* A storage between two steps.
Sound(s, b, c) == Chain(s, b) /\ Deposited(s, b, c)

-----------------------------------------------------------------------------
(* The run.                                                                *)

InboxOK(msgs) == \E S : msgs \in Seq(S) /\ \A m \in S : WellTyped(m)

\* The messages of every level are well typed.
MessagesOK == \A sent : \A msgs \in Inboxes(sent) : InboxOK(msgs)

ContentOK(c) ==
    /\ c = [upgrade |-> c.upgrade, transactions |-> c.transactions,
            blueprints |-> c.blueprints]
    /\ c.transactions \in Seq(Transactions)
    /\ \E S : c.blueprints \in Seq(S) /\ \A b \in S : b.number \in Int

InProduction == run.pc \in {"blueprints", "compute"}

RunOK ==
    /\ run.pc \in {"idle", "inbox", "produce", "blueprints", "compute"}
    /\ run.pc = "inbox" =>
         /\ run = [pc |-> run.pc, config |-> run.config, content |-> run.content,
                   empty |-> run.empty]
         /\ ContentOK(run.content)
         /\ run.empty => run.content = NoContent
    /\ InProduction =>
         run = [pc |-> run.pc, bip |-> run.bip, resumed |-> run.resumed,
                config |-> run.config, upgrade |-> run.upgrade, number |-> run.number,
                parent |-> run.parent, ticks |-> run.ticks,
                firstBlock |-> run.firstBlock, firstTx |-> run.firstTx]

RollupOK ==
    /\ rollup = [level |-> rollup.level, inbox |-> rollup.inbox, sent |-> rollup.sent,
                 reboots |-> rollup.reboots, ready |-> rollup.ready]
    /\ rollup.level \in Int
    /\ InboxOK(rollup.inbox)

\* The block a run r works on, with the storage s, and the transactions it read.
BipOf(r, s) == IF r.pc = "compute" THEN r.bip ELSE s.bip
ContentOf(r) == IF r.pc = "inbox" THEN r.content.transactions ELSE <<>>

\* The storage s of a run r, and the block it computes or looks for.
RunSound(r, s) ==
    r.pc # "idle" =>
        /\ Sound(s, BipOf(r, s), ContentOf(r)) /\ s.base_fee = BaseFee
        /\ r.pc \in {"blueprints", "compute"} => r.ticks \in Int /\ (s.bip # None => r.resumed)
        /\ r.pc = "blueprints" =>
             /\ s.bip = None
             /\ r.number = Len(s.blocks) /\ r.parent = ParentOf(s, Len(s.blocks))
        /\ r.pc = "compute" => r.bip \in Bips

\* The messages of the outbox o are those of the withdrawals among the
\* transactions R with a receipt.
Posted(o, R) ==
    /\ \A i, j \in DOMAIN o : o[i].tx = o[j].tx => i = j
    /\ {o[i].tx : i \in DOMAIN o} = {h \in R : ~IsDeposit(h) /\ Tx[h].outcome = "withdraw"}

IsSequence(o) == \E S : o \in Seq(S)

\* The messages, the content read from them and the blueprints are well formed.
BaseInv ==
    /\ RunOK /\ RollupOK
    /\ BaseOK(evm) /\ (run.pc # "idle" => BaseOK(tmp))

\* The storage is sound between runs, and its copy during a run.
IInv ==
    /\ Sound(evm, evm.bip, <<>>) /\ RunSound(run, tmp) /\ IsSequence(outbox)
    /\ ~failed => Posted(outbox, DOMAIN (IF run.pc = "idle" THEN evm ELSE tmp).receipts)

-----------------------------------------------------------------------------
(* Deposits in sequences of transactions.                                  *)

EthereumTransactions == {EthereumTransaction(h) : h \in DOMAIN Tx}

LEMMA DepositHashes ==
    ASSUME NEW q, NEW n
    PROVE  n \in DepositsIn(q)
             <=> \E j \in DOMAIN q : q[j].content = "Deposit" /\ q[j].tx_hash = n
BY DEF DepositsIn

LEMMA DepositsTail ==
    ASSUME NEW S, NEW q \in Seq(S), q # <<>>
    PROVE  /\ DepositsIn(Tail(q)) \subseteq DepositsIn(q)
           /\ Once(q) => Once(Tail(q))
           /\ Head(q).content = "Deposit" => Head(q).tx_hash \in DepositsIn(q)
           /\ Once(q) /\ Head(q).content = "Deposit" => Head(q).tx_hash \notin DepositsIn(Tail(q))
<1>1. PICK n \in Nat : n = Len(q)
  BY LenProperties
<1>2. n > 0 /\ DOMAIN q = 1 .. n /\ Head(q) = q[1]
  BY <1>1, EmptySeq, LenProperties, HeadTailProperties
<1>3. PICK r : r = Tail(q)
  OBVIOUS
<1>4. DOMAIN r = 1 .. n - 1 /\ \A i \in 1 .. n - 1 : r[i] = q[i + 1]
  BY <1>1, <1>2, <1>3
<1>5. \A i \in DOMAIN r : i \in Nat /\ i + 1 \in DOMAIN q /\ r[i] = q[i + 1] /\ i + 1 # 1
  BY <1>2, <1>4
<1>6. 1 \in DOMAIN q
  BY <1>2
<1>7. DepositsIn(r) \subseteq DepositsIn(q)
  BY <1>5, DepositHashes
<1>8. ASSUME Once(q) PROVE Once(r)
  <2> SUFFICES ASSUME NEW i \in DOMAIN r, NEW j \in DOMAIN r, r[i].content = "Deposit",
                      r[j].content = "Deposit", r[i].tx_hash = r[j].tx_hash
               PROVE  i = j
    BY DEF Once
  <2>1. i + 1 = j + 1
    BY <1>5, <1>8 DEF Once
  <2> QED BY <1>5, <2>1
<1>9. Head(q).content = "Deposit" => Head(q).tx_hash \in DepositsIn(q)
  BY <1>2, <1>6, DepositHashes
<1>10. ASSUME Once(q), Head(q).content = "Deposit", Head(q).tx_hash \in DepositsIn(r)
       PROVE  FALSE
  <2>1. PICK j \in DOMAIN r : r[j].content = "Deposit" /\ r[j].tx_hash = Head(q).tx_hash
    BY <1>10, DepositHashes
  <2> QED BY <1>2, <1>5, <1>6, <1>10, <2>1 DEF Once
<1> QED BY <1>3, <1>7, <1>8, <1>9, <1>10

LEMMA DepositsAppend ==
    ASSUME NEW S, NEW q \in Seq(S), NEW x
    PROVE  /\ x.content # "Deposit" => DepositsIn(q \o <<x>>) = DepositsIn(q)
           /\ x.content = "Deposit" => DepositsIn(q \o <<x>>) = DepositsIn(q) \cup {x.tx_hash}
           /\ Once(q) /\ (x.content = "Deposit" => x.tx_hash \notin DepositsIn(q))
                => Once(q \o <<x>>)
<1>1. PICK n \in Nat : n = Len(q)
  BY LenProperties
<1>2. PICK r : r = q \o <<x>>
  OBVIOUS
<1>3. DOMAIN q = 1 .. n /\ DOMAIN r = 1 .. n + 1 /\ r[n + 1] = x
      /\ \A i \in 1 .. n : r[i] = q[i]
  BY <1>1, <1>2
<1>4. \A i \in DOMAIN r : (i = n + 1 /\ r[i] = x) \/ (i \in DOMAIN q /\ r[i] = q[i])
  <2> SUFFICES ASSUME NEW i \in DOMAIN r
               PROVE  (i = n + 1 /\ r[i] = x) \/ (i \in DOMAIN q /\ r[i] = q[i])
    OBVIOUS
  <2>1. CASE i = n + 1
    BY <1>3, <2>1
  <2>2. CASE i # n + 1
    <3>1. i \in 1 .. n
      BY <1>3, <2>2
    <3> QED BY <1>3, <3>1
  <2> QED BY <2>1, <2>2
<1>5. n + 1 \in DOMAIN r /\ \A i \in DOMAIN q : i \in DOMAIN r /\ r[i] = q[i]
  BY <1>3
<1>50. \A m : m \in DepositsIn(r) <=> \E j \in DOMAIN r : r[j].content = "Deposit" /\ r[j].tx_hash = m
  BY DepositHashes
<1>51. \A m : m \in DepositsIn(q) <=> \E j \in DOMAIN q : q[j].content = "Deposit" /\ q[j].tx_hash = m
  BY DepositHashes
<1>6. ASSUME x.content # "Deposit" PROVE DepositsIn(r) = DepositsIn(q)
  <2>1. \A m : m \in DepositsIn(r) <=> m \in DepositsIn(q)
    BY <1>4, <1>5, <1>6, <1>50, <1>51
  <2> QED BY <2>1
<1>7. ASSUME x.content = "Deposit" PROVE DepositsIn(r) = DepositsIn(q) \cup {x.tx_hash}
  <2>1. \A m : m \in DepositsIn(r) <=> m \in DepositsIn(q) \/ m = x.tx_hash
    BY <1>3, <1>4, <1>5, <1>7, <1>50, <1>51
  <2> QED BY <2>1
<1>8. ASSUME Once(q), x.content = "Deposit" => x.tx_hash \notin DepositsIn(q) PROVE Once(r)
  <2> SUFFICES ASSUME NEW i \in DOMAIN r, NEW j \in DOMAIN r, r[i].content = "Deposit",
                      r[j].content = "Deposit", r[i].tx_hash = r[j].tx_hash
               PROVE  i = j
    BY DEF Once
  <2> QED BY <1>4, <1>8, <1>51 DEF Once
<1> QED BY <1>2, <1>6, <1>7, <1>8

LEMMA DepositsNone ==
    ASSUME NEW q \in Seq(EthereumTransactions)
    PROVE  DepositsIn(q) = {} /\ Once(q) /\ q \in Seq(Transactions)
<1>1. \A i \in DOMAIN q : q[i] \in EthereumTransactions
  BY ElementOfSeq, LenProperties
<1>2. \A x \in EthereumTransactions : x.content # "Deposit" /\ x \in Transactions
  BY DEF EthereumTransactions, EthereumTransaction, Transactions
<1>3. DepositsIn(q) = {}
  BY <1>1, <1>2, DepositHashes
<1>4. Once(q)
  BY <1>1, <1>2 DEF Once
<1>5. q \in Seq(Transactions)
  <2>1. EthereumTransactions \subseteq Transactions
    BY <1>2
  <2> QED BY <2>1
<1> QED BY <1>3, <1>4, <1>5

\* Transactions of the delayed inbox, then those of a sequencer.
LEMMA DepositsThen ==
    ASSUME NEW q \in Seq(Transactions), NEW r \in Seq(EthereumTransactions)
    PROVE  /\ DepositsIn(q \o r) = DepositsIn(q)
           /\ Once(q) => Once(q \o r)
           /\ q \o r \in Seq(Transactions)
<1>1. PICK n \in Nat, m \in Nat : n = Len(q) /\ m = Len(r)
  BY LenProperties
<1>2. PICK p : p = q \o r
  OBVIOUS
<1>3. /\ DOMAIN q = 1 .. n /\ DOMAIN p = 1 .. n + m
      /\ \A i \in 1 .. n : p[i] = q[i]
      /\ \A i \in n + 1 .. n + m : p[i] = r[i - n] /\ i - n \in DOMAIN r
  BY <1>1, <1>2
<1>4. \A i \in DOMAIN p : p[i].content = "Deposit" => i \in DOMAIN q /\ p[i] = q[i]
  <2> SUFFICES ASSUME NEW i \in DOMAIN p, p[i].content = "Deposit"
               PROVE  i \in DOMAIN q /\ p[i] = q[i]
    OBVIOUS
  <2>1. CASE i \in 1 .. n
    BY <1>3, <2>1
  <2>2. CASE i \in n + 1 .. n + m
    <3>1. p[i] \in EthereumTransactions
      BY <1>3, <2>2, ElementOfSeq
    <3>2. p[i].content = "Ethereum"
      BY <3>1 DEF EthereumTransactions, EthereumTransaction
    <3> QED BY <3>2
  <2>3. i \in 1 .. n \/ i \in n + 1 .. n + m
    BY <1>3
  <2> QED BY <2>1, <2>2, <2>3
<1>5. \A i \in DOMAIN q : i \in DOMAIN p /\ p[i] = q[i]
  BY <1>3
<1>50. \A m1 : m1 \in DepositsIn(p) <=> \E j \in DOMAIN p : p[j].content = "Deposit" /\ p[j].tx_hash = m1
  BY DepositHashes
<1>51. \A m1 : m1 \in DepositsIn(q) <=> \E j \in DOMAIN q : q[j].content = "Deposit" /\ q[j].tx_hash = m1
  BY DepositHashes
<1>6. DepositsIn(p) = DepositsIn(q)
  <2>1. \A m1 : m1 \in DepositsIn(p) <=> m1 \in DepositsIn(q)
    BY <1>4, <1>5, <1>50, <1>51
  <2> QED BY <2>1
<1>7. Once(q) => Once(p)
  BY <1>4 DEF Once
<1>8. r \in Seq(Transactions)
  BY DepositsNone
<1>9. p \in Seq(Transactions)
  BY <1>2, <1>8, ConcatProperties
<1> QED BY <1>2, <1>6, <1>7, <1>9

LEMMA NoDeposits == DepositsIn(<<>>) = {} /\ IsQueue(<<>>)
<1>1. PICK q : q = <<>>
  OBVIOUS
<1>2. q \in Seq(EthereumTransactions)
  BY <1>1, EmptySeq
<1>3. DepositsIn(q) = {} /\ Once(q) /\ q \in Seq(Transactions)
  BY <1>2, DepositsNone
<1> QED BY <1>1, <1>3 DEF IsQueue

\* The tx_hash of a deposit is its nonce.
LEMMA DepositNat ==
    ASSUME NEW x \in Transactions
    PROVE  /\ x.content = "Deposit" => x.tx_hash \in Nat /\ x.receiver \in Addresses /\ x.amount \in Int
           /\ x.content # "Deposit" => x.content = "Ethereum" /\ x.tx_hash \in DOMAIN Tx
           /\ x.tx_hash \in Hashes
BY DEF Transactions, EthereumTransaction, Hashes

-----------------------------------------------------------------------------
(* The delayed inbox.                                                      *)

\* The elements of m are elements of l.
DelayedLess(l, m) == \A h \in Kept(m) : h \in Kept(l) /\ m.store[h].data = l.store[h].data

LEMMA DelayedLessTrans ==
    ASSUME NEW l, NEW m, NEW n, DelayedLess(l, m), DelayedLess(m, n)
    PROVE  DelayedLess(l, n)
BY DEF DelayedLess

LEMMA DelayedLessOK ==
    ASSUME NEW l, NEW m, DelayedLess(l, m), DelayedOK(l)
    PROVE  DelayedOK(m) /\ DelayedDeposits(m) \subseteq DelayedDeposits(l)
BY DEF DelayedLess, DelayedOK, DelayedDeposits

\* As for two lists, for what they store.
LessData(a, b) ==
    \A h \in DOMAIN b : b[h].data # NoId => h \in DOMAIN a /\ b[h].data = a[h].data

LEMMA SavePointerData ==
    ASSUME NEW a, NEW p
    PROVE  LessData(a, SavePointer(a, p))
<1>1. PICK b : b = SavePointer(a, p)
  OBVIOUS
<1>2. DOMAIN b = DOMAIN a \cup {p.id}
  BY <1>1 DEF SavePointer
<1>3. \A h \in DOMAIN b : h # p.id => b[h] = a[h]
  BY <1>1 DEF SavePointer
<1>4. b[p.id].data = IF p.id \in DOMAIN a THEN a[p.id].data ELSE NoId
  BY <1>1 DEF SavePointer
<1>5. LessData(a, b)
  BY <1>2, <1>3, <1>4 DEF LessData
<1> QED BY <1>1, <1>5

LEMMA RemoveData ==
    ASSUME NEW l, NEW id
    PROVE  LessData(RemoveWithData(l.store, id), RemoveStored(l, id).store)
<1>1. PICK a : a = RemoveWithData(l.store, id)
  OBVIOUS
<1>2. PICK b : b = RemoveStored(l, id).store
  OBVIOUS
<1>3. \/ b = a \/ \E p : b = SavePointer(a, p)
      \/ \E p, q : b = SavePointer(SavePointer(a, p), q)
  BY <1>1, <1>2 DEF RemoveStored
<1>4. \A x, y, z : LessData(x, y) /\ LessData(y, z) => LessData(x, z)
  BY DEF LessData
<1>5. LessData(a, a)
  BY DEF LessData
<1>6. \A x, p : LessData(x, SavePointer(x, p))
  BY SavePointerData
<1>7. LessData(a, b)
  BY <1>3, <1>4, <1>5, <1>6
<1> QED BY <1>1, <1>2, <1>7

\* An element that is removed is not found again.
LEMMA RemovedOnce ==
    ASSUME NEW l, NEW id, Removable(l, id)
    PROVE  DelayedLess(l, remove(l, id)) /\ id \notin Kept(remove(l, id))
<1>1. PICK m : m = remove(l, id)
  OBVIOUS
<1>2. m = RemoveStored(l, id)
  BY <1>1 DEF remove
<1>3. PICK a : a = RemoveWithData(l.store, id)
  OBVIOUS
<1>4. LessData(a, m.store)
  BY <1>2, <1>3, RemoveData
<1>5. DOMAIN a = DOMAIN l.store \ {id} /\ \A h \in DOMAIN a : a[h] = l.store[h]
  BY <1>3 DEF RemoveWithData, Restrict
<1>6. DelayedLess(l, m) /\ id \notin Kept(m)
  BY <1>4, <1>5 DEF LessData, DelayedLess, Kept
<1> QED BY <1>1, <1>6

\* A transaction that is pushed is kept, unless its place is taken.
LEMMA PushKept ==
    ASSUME NEW l, DelayedOK(l), NEW x \in Transactions
    PROVE  LET m == push(l, x.tx_hash, x)
           IN  /\ DelayedOK(m)
               /\ \A h \in DelayedDeposits(m) :
                    h \in DelayedDeposits(l) \/ (x.content = "Deposit" /\ h = x.tx_hash)
<1>1. PICK m : m = push(l, x.tx_hash, x)
  OBVIOUS
<1>2. PICK id : id = x.tx_hash
  OBVIOUS
<1>3. \/ m = l
      \/ \E a, p : /\ m.store = SaveWithData(a, p, x) /\ p.id = id
                   /\ LessData(l.store, a)
  <2>1. CASE Stored(l, id)
    BY <1>1, <1>2, <2>1 DEF push
  <2>2. CASE ~Stored(l, id) /\ is_empty(l)
    <3>1. m.store = SaveWithData(l.store, Pointer(id, NoId, NoId), x)
      BY <1>1, <1>2, <2>2 DEF push
    <3>2. Pointer(id, NoId, NoId).id = id
      BY DEF Pointer
    <3>3. LessData(l.store, l.store)
      BY DEF LessData
    <3> QED BY <3>1, <3>2, <3>3
  <2>3. CASE ~Stored(l, id) /\ ~is_empty(l)
    <3>1. PICK pen : pen = [l.pointers.back EXCEPT !.next = id]
      OBVIOUS
    <3>2. PICK back : back = Pointer(id, pen.id, NoId)
      OBVIOUS
    <3>3. m.store = SaveWithData(SavePointer(l.store, pen), back, x)
      BY <1>1, <1>2, <2>3, <3>1, <3>2 DEF push
    <3>4. back.id = id
      BY <3>2 DEF Pointer
    <3>5. LessData(l.store, SavePointer(l.store, pen))
      BY SavePointerData
    <3> QED BY <3>3, <3>4, <3>5
  <2> QED BY <2>1, <2>2, <2>3
<1>4. CASE m = l
  BY <1>1, <1>4
<1>5. ASSUME NEW a, NEW p, m.store = SaveWithData(a, p, x), p.id = id, LessData(l.store, a)
      PROVE  \A h \in Kept(m) :
               \/ h = id /\ m.store[h].data = x
               \/ h \in Kept(l) /\ m.store[h].data = l.store[h].data
  <2> SUFFICES ASSUME NEW h \in Kept(m), h # id
               PROVE  h \in Kept(l) /\ m.store[h].data = l.store[h].data
    <3>1. id \in Kept(m) => m.store[id].data = x
      BY <1>5 DEF SaveWithData, Kept
    <3> QED BY <3>1
  <2>1. h \in DOMAIN a /\ m.store[h] = a[h] /\ m.store[h].data # NoId
    BY <1>5 DEF SaveWithData, Kept
  <2> QED BY <1>5, <2>1 DEF LessData, Kept
<1>6. CASE \A h \in Kept(m) :
               \/ h = id /\ m.store[h].data = x
               \/ h \in Kept(l) /\ m.store[h].data = l.store[h].data
  BY <1>1, <1>2, <1>6 DEF DelayedOK, DelayedDeposits
<1> QED BY <1>3, <1>4, <1>5, <1>6

\* What the loop of fetch_delayed_txs has found.
Fetching(l, acc) ==
    /\ acc = [found |-> acc.found, list |-> acc.list, txs |-> acc.txs]
    /\ acc.txs \in Seq(Transactions) /\ Once(acc.txs)
    /\ DelayedLess(l, acc.list)
    /\ DepositsIn(acc.txs) \subseteq DelayedDeposits(l)
    /\ \A n \in DepositsIn(acc.txs) : n \notin Kept(acc.list)

LEMMA FetchingStep ==
    ASSUME NEW l, DelayedOK(l), NEW acc, Fetching(l, acc), NEW h
    PROVE  Fetching(l, find_and_remove_transaction(acc, h))
<1>1. PICK r : r = find_and_remove_transaction(acc, h)
  OBVIOUS
<1>2. CASE ~acc.found \/ ~Removable(acc.list, h)
  <2>1. r = [acc EXCEPT !.found = FALSE]
    BY <1>1, <1>2 DEF find_and_remove_transaction
  <2>2. r.list = acc.list /\ r.txs = acc.txs /\ r = [found |-> r.found, list |-> r.list, txs |-> r.txs]
    BY <2>1 DEF Fetching
  <2>3. Fetching(l, r)
    BY <2>2 DEF Fetching
  <2> QED BY <1>1, <2>3
<1>3. CASE acc.found /\ Removable(acc.list, h)
  <2>1. PICK x : x = acc.list.store[h].data
    OBVIOUS
  <2>2. h \in Kept(acc.list) /\ find(acc.list, h) = x
    BY <1>3, <2>1 DEF Removable, Stored, Kept, find
  <2>3. h \in Kept(l) /\ l.store[h].data = x
    BY <2>1, <2>2 DEF Fetching, DelayedLess
  <2>4. x \in Transactions /\ x.tx_hash = h
    BY <2>3 DEF DelayedOK
  <2>5. PICK q : q = acc.txs
    OBVIOUS
  <2>6. q \in Seq(Transactions) /\ Once(q) /\ DepositsIn(q) \subseteq DelayedDeposits(l)
        /\ \A n \in DepositsIn(q) : n \notin Kept(acc.list)
    BY <2>5 DEF Fetching
  <2>7. Append(q, x) = q \o <<x>>
    BY <2>6
  <2>8. PICK q2 : q2 = q \o <<x>>
    OBVIOUS
  <2>9. r.found = TRUE /\ r.list = remove(acc.list, h) /\ r.txs = q2
        /\ r = [found |-> r.found, list |-> r.list, txs |-> r.txs]
    BY <1>1, <1>3, <2>2, <2>5, <2>7, <2>8 DEF find_and_remove_transaction
  <2>10. DelayedLess(acc.list, r.list) /\ h \notin Kept(r.list)
    BY <1>3, <2>9, RemovedOnce
  <2>11. DelayedLess(l, r.list)
    BY <2>10, DelayedLessTrans DEF Fetching
  <2>12. h \notin DepositsIn(q)
    BY <2>2, <2>6
  <2>13. /\ x.content # "Deposit" => DepositsIn(q2) = DepositsIn(q)
         /\ x.content = "Deposit" => DepositsIn(q2) = DepositsIn(q) \cup {h}
         /\ Once(q2)
    BY <2>4, <2>6, <2>8, <2>12, DepositsAppend
  <2>14. q2 \in Seq(Transactions)
    BY <2>4, <2>6, <2>7, <2>8, AppendProperties
  <2>15. x.content = "Deposit" => h \in DelayedDeposits(l)
    BY <2>3 DEF DelayedDeposits
  <2>16. DepositsIn(q2) \subseteq DelayedDeposits(l)
    BY <2>6, <2>13, <2>15
  <2>17. \A n \in DepositsIn(q2) : n \notin Kept(r.list)
    BY <2>6, <2>10, <2>13 DEF DelayedLess
  <2>18. Fetching(l, r)
    BY <2>9, <2>11, <2>13, <2>14, <2>16, <2>17 DEF Fetching
  <2> QED BY <1>1, <2>18
<1> QED BY <1>2, <1>3

\* The transactions taken from the delayed inbox are elements of it, each taken
\* once and not left in it.
LEMMA FetchDelayedOK ==
    ASSUME NEW l, DelayedOK(l), NEW S, NEW hashes \in Seq(S)
    PROVE  Fetching(l, FetchDelayed(l, hashes))
<1>1. PICK acc : acc = [found |-> TRUE, list |-> l, txs |-> <<>>]
  OBVIOUS
<1>2. PICK n \in Nat : n = Len(hashes)
  BY LenProperties
<1>3. \E g : LoopStates(2, acc, hashes, n, g) /\ FoldLeft(find_and_remove_transaction, acc, hashes) = g[n]
  BY <1>2, DelayedSteps
<1>4. PICK g : LoopStates(2, acc, hashes, n, g) /\ FoldLeft(find_and_remove_transaction, acc, hashes) = g[n]
  BY <1>3
<1> DEFINE T == {k \in 0 .. n : Fetching(l, g[k])}
<1>5. 0 \in T
  <2>1. acc.found = TRUE /\ acc.list = l /\ acc.txs = <<>>
        /\ acc = [found |-> acc.found, list |-> acc.list, txs |-> acc.txs]
    BY <1>1
  <2>2. PICK q : q = <<>>
    OBVIOUS
  <2>3. DepositsIn(q) = {} /\ q \in Seq(Transactions) /\ Once(q)
    BY <2>2, NoDeposits DEF IsQueue
  <2>4. DelayedLess(l, l)
    BY DEF DelayedLess
  <2>5. Fetching(l, acc)
    BY <2>1, <2>2, <2>3, <2>4 DEF Fetching
  <2> QED BY <1>4, <2>5 DEF LoopStates
<1>6. ASSUME NEW k \in 0 .. n - 1, k \in T PROVE k + 1 \in T
  <2>1. g[k + 1] = FetchStep(2, g[k], hashes[k + 1])
    <3>1. k + 1 \in 1 .. n /\ (k + 1) - 1 = k
      OBVIOUS
    <3> QED BY <1>4, <3>1 DEF LoopStates
  <2>2. g[k + 1] = find_and_remove_transaction(g[k], hashes[k + 1])
    BY <2>1 DEF FetchStep
  <2>3. Fetching(l, g[k + 1])
    BY <1>6, <2>2, FetchingStep
  <2>4. k + 1 \in 0 .. n
    OBVIOUS
  <2> QED BY <2>3, <2>4
<1>7. n \in T
  <2> HIDE DEF T
  <2>1. \A k \in 0 .. n - 1 : k \in T => k + 1 \in T
    BY <1>6
  <2>2. \A k \in 0 .. n : k \in T
    BY <1>5, <2>1, UpTo
  <2> QED BY <2>2
<1>8. FetchDelayed(l, hashes) = g[n]
  BY <1>1, <1>4 DEF FetchDelayed
<1> QED BY <1>7, <1>8

-----------------------------------------------------------------------------
(* What each operation leaves alone.                                       *)

LEMMA OnlyRefl ==
    ASSUME NEW s, IsStorage(s), NEW C
    PROVE  Only(s, s, C)
BY DEF Only

LEMMA OnlyTrans ==
    ASSUME NEW s, NEW t, NEW u, NEW C, NEW D, Only(s, t, C), Only(t, u, D)
    PROVE  Only(s, u, C \cup D)
<1>1. \A k \in Keys \ (C \cup D) : u[k] = s[k]
  BY DEF Only
<1> QED BY <1>1 DEF Only

\* Starting a run.
LEMMA StartFrame ==
    ASSUME NEW s, IsStorage(s)
    PROVE  /\ Only(s, retrieve_chain_id(s), {"chain_id"})
           /\ Only(s, retrieve_block_fees(s), {"base_fee"})
           /\ retrieve_block_fees(s).base_fee = IF s.base_fee = None THEN BaseFee ELSE s.base_fee
           /\ Only(s, set_kernel_version(s), {"kernel_version"})
           /\ Only(s, init_storage_versioning(s), {"storage_version"})
           /\ init_storage_versioning(s).storage_version
                = IF s.storage_version = None THEN StorageVersion[boot] ELSE s.storage_version
           /\ \A v : Only(s, [s EXCEPT !.storage_version = v], {"storage_version"})
           /\ \A v : [s EXCEPT !.storage_version = v].storage_version = v
           /\ \A v : Only(s, [s EXCEPT !.boot = v], {"boot"}) /\ [s EXCEPT !.boot = v].boot = v
           /\ \A v : Only(s, [s EXCEPT !.bip = v], {"bip"}) /\ [s EXCEPT !.bip = v].bip = v
<1>1. Only(s, retrieve_chain_id(s), {"chain_id"})
  BY DEF IsStorage, Only, Keys, retrieve_chain_id
<1>2. /\ Only(s, retrieve_block_fees(s), {"base_fee"})
      /\ retrieve_block_fees(s).base_fee = IF s.base_fee = None THEN BaseFee ELSE s.base_fee
  BY DEF IsStorage, Only, Keys, retrieve_block_fees
<1>3. Only(s, set_kernel_version(s), {"kernel_version"})
  BY DEF IsStorage, Only, Keys, set_kernel_version
<1>4. /\ Only(s, init_storage_versioning(s), {"storage_version"})
      /\ init_storage_versioning(s).storage_version
                = IF s.storage_version = None THEN StorageVersion[boot] ELSE s.storage_version
  BY DEF IsStorage, Only, Keys, init_storage_versioning
<1>5. ASSUME NEW v
      PROVE /\ Only(s, [s EXCEPT !.storage_version = v], {"storage_version"})
            /\ [s EXCEPT !.storage_version = v].storage_version = v
  BY DEF IsStorage, Only, Keys
<1>6. ASSUME NEW v
      PROVE Only(s, [s EXCEPT !.boot = v], {"boot"}) /\ [s EXCEPT !.boot = v].boot = v
  BY DEF IsStorage, Only, Keys
<1>7. ASSUME NEW v
      PROVE Only(s, [s EXCEPT !.bip = v], {"bip"}) /\ [s EXCEPT !.bip = v].bip = v
  BY DEF IsStorage, Only, Keys
<1> QED BY <1>1, <1>2, <1>3, <1>4, <1>5, <1>6, <1>7

\* The storage a run starts from.
StartedFees == retrieve_block_fees(set_kernel_version(Started))
StartKeys == {"chain_id", "base_fee", "kernel_version", "storage_version"}

LEMMA StartedFrame ==
    ASSUME IsStorage(evm)
    PROVE  /\ Only(evm, Started, {"chain_id", "storage_version"})
           /\ Started.storage_version
                = IF evm.storage_version = None THEN StorageVersion[boot]
                  ELSE evm.storage_version
           /\ Only(evm, StartedFees, StartKeys)
           /\ StartedFees.storage_version = Started.storage_version
           /\ StartedFees.base_fee = IF evm.base_fee = None THEN BaseFee ELSE evm.base_fee
<1> DEFINE a == retrieve_chain_id(evm)
           b == init_storage_versioning(a)
           c == set_kernel_version(b)
           d == retrieve_block_fees(c)
<1>1. Only(evm, a, {"chain_id"})
  BY StartFrame
<1>2. IsStorage(a) /\ a.storage_version = evm.storage_version /\ a.base_fee = evm.base_fee
  BY <1>1 DEF Only, Keys
<1>3. /\ Only(a, b, {"storage_version"})
      /\ b.storage_version = IF a.storage_version = None THEN StorageVersion[boot]
                             ELSE a.storage_version
  <2> HIDE DEF a
  <2> QED BY <1>2, StartFrame
<1>4. IsStorage(b) /\ b.base_fee = evm.base_fee
  BY <1>2, <1>3 DEF Only, Keys
<1>5. Only(b, c, {"kernel_version"})
  <2> HIDE DEF b
  <2> QED BY <1>4, StartFrame
<1>6. IsStorage(c) /\ c.base_fee = evm.base_fee /\ c.storage_version = b.storage_version
  BY <1>4, <1>5 DEF Only, Keys
<1>7. /\ Only(c, d, {"base_fee"})
      /\ d.base_fee = IF c.base_fee = None THEN BaseFee ELSE c.base_fee
  <2> HIDE DEF c
  <2> QED BY <1>6, StartFrame
<1>8. Started = b /\ StartedFees = d
  BY DEF Started, StartedFees
<1> HIDE DEF a, b, c, d
<1>9. Only(evm, b, {"chain_id"} \cup {"storage_version"})
  BY <1>1, <1>3, OnlyTrans
<1>10. Only(evm, d, (({"chain_id"} \cup {"storage_version"}) \cup {"kernel_version"}) \cup {"base_fee"})
  <2>1. Only(evm, c, ({"chain_id"} \cup {"storage_version"}) \cup {"kernel_version"})
    BY <1>5, <1>9, OnlyTrans
  <2> QED BY <2>1, <1>7, OnlyTrans
<1>11. d.storage_version = c.storage_version
  BY <1>7 DEF Only, Keys
<1>12. Only(evm, d, StartKeys) /\ Only(evm, b, {"chain_id", "storage_version"})
  <2>1. {"chain_id"} \cup {"storage_version"} = {"chain_id", "storage_version"}
    OBVIOUS
  <2>2. (({"chain_id"} \cup {"storage_version"}) \cup {"kernel_version"}) \cup {"base_fee"}
          = StartKeys
    BY DEF StartKeys
  <2> QED BY <1>9, <1>10, <2>1, <2>2
<1> QED BY <1>2, <1>3, <1>6, <1>7, <1>8, <1>11, <1>12

\* Reading the inbox.
InputKeys == {"deposit_nonce", "chunked", "sequencer", "timestamp", "stats"}

InputTypes == {"Unparsable", "SimpleTransaction", "NewChunkedTransaction", "TransactionChunk",
               "Upgrade", "NewSequencer", "Info", "Deposit", "SequencerBlueprint"}

LEMMA ParseTypes ==
    ASSUME NEW m, NEW config
    PROVE  parse(m, config).type \in InputTypes
<1>1. parse_external(m, config).type \in InputTypes
  BY DEF parse_external, parse_simple_transaction, parse_new_chunked_transaction,
         parse_transaction_chunk, parse_sequencer_blueprint_input, Unparsable, InputTypes
<1>2. parse_internal_transfer(m, config).type \in InputTypes
  BY DEF parse_internal_transfer, parse_deposit, parse_transaction_from_delayed_inbox,
         parse_kernel_upgrade, parse_sequencer_update, Unparsable, InputTypes
<1>3. parse_internal(m, config).type \in InputTypes
  BY <1>2 DEF parse_internal, Unparsable, InputTypes
<1> QED BY <1>1, <1>3 DEF parse

LEMMA ChunkFrame ==
    ASSUME NEW s, IsStorage(s), NEW m
    PROVE  /\ Only(s, create_chunked_transaction(s, m), {"chunked"})
           /\ Only(s, handle_transaction_chunk(s, m).st, {"chunked"})
           /\ \/ handle_transaction_chunk(s, m).txs = <<>>
              \/ /\ m.tx_hash \in DOMAIN Pieces
                 /\ handle_transaction_chunk(s, m).txs = <<EthereumTransaction(m.tx_hash)>>
<1>1. Only(s, create_chunked_transaction(s, m), {"chunked"})
  BY DEF IsStorage, Only, Keys, create_chunked_transaction
<1>2. \A h : Only(s, remove_chunked_transaction(s, h), {"chunked"})
  BY DEF IsStorage, Only, Keys, remove_chunked_transaction
<1>3. \A c, h : Only(s, [s EXCEPT !.chunked[h] = c], {"chunked"})
  BY DEF IsStorage, Only, Keys
<1>4. Only(s, store_transaction_chunk(s, m.tx_hash, m.i, m.data).st, {"chunked"})
  BY <1>2, <1>3 DEF store_transaction_chunk
<1>5. Only(s, s, {"chunked"})
  BY OnlyRefl
<1>6. Only(s, handle_transaction_chunk(s, m).st, {"chunked"})
  BY <1>2, <1>4, <1>5 DEF handle_transaction_chunk
<1>7. \/ handle_transaction_chunk(s, m).txs = <<>>
      \/ /\ m.tx_hash \in DOMAIN Pieces
         /\ handle_transaction_chunk(s, m).txs = <<EthereumTransaction(m.tx_hash)>>
  BY DEF handle_transaction_chunk, Encodes
<1> QED BY <1>1, <1>6, <1>7

\* What a well typed message is parsed into.
LEMMA ParseOK ==
    ASSUME NEW m, WellTyped(m), NEW config
    PROVE  LET in == parse(m, config)
           IN  /\ in.type = "SimpleTransaction" => in.tx \in EthereumTransactions
               /\ in.type = "Info" => in.timestamp \in Int
               /\ in.type = "Deposit" => in.amount \in Int /\ in.receiver \in Addresses
               /\ in.type = "SequencerBlueprint" => in.blueprint.number \in Nat
<1> DEFINE OK(in) ==
      /\ in.type = "SimpleTransaction" => in.tx \in EthereumTransactions
      /\ in.type = "Info" => in.timestamp \in Int
      /\ in.type = "Deposit" => in.amount \in Int /\ in.receiver \in Addresses
      /\ in.type = "SequencerBlueprint" => in.blueprint.number \in Nat
<1>1. ASSUME m.kind = "external" PROVE OK(parse_external(m, config))
  BY <1>1 DEF WellTyped, parse_external, parse_simple_transaction,
       parse_new_chunked_transaction, parse_transaction_chunk,
       parse_sequencer_blueprint_input, Unparsable, EthereumTransactions
<1>2. ASSUME m.kind # "external", m.msg = "Transfer"
      PROVE  OK(parse_internal_transfer(m, config))
  <2>1. m.payload = "deposit" => OK(parse_deposit(m))
    <3>1. m.payload = "deposit" => m.amount \in Nat /\ m.receiver \in Addresses \cup {None}
      BY <1>2 DEF WellTyped
    <3> QED BY <3>1, WeiAssumption DEF parse_deposit, Unparsable
  <2>2. m.payload = "delayed" => OK(parse_transaction_from_delayed_inbox(m, config.bridge))
    BY <1>2 DEF WellTyped, parse_transaction_from_delayed_inbox, Unparsable, EthereumTransactions
  <2>3. OK(parse_kernel_upgrade(m)) /\ OK(parse_sequencer_update(m)) /\ OK(Unparsable)
    BY DEF parse_kernel_upgrade, parse_sequencer_update, Unparsable
  <2> HIDE DEF OK
  <2> QED BY <2>1, <2>2, <2>3 DEF parse_internal_transfer
<1>3. ASSUME m.kind # "external" PROVE OK(parse_internal(m, config))
  <2>1. OK(Unparsable)
    BY DEF Unparsable
  <2>2. m.msg = "InfoPerLevel" => OK([type |-> "Info", timestamp |-> m.timestamp])
    BY <1>3 DEF WellTyped
  <2> HIDE DEF OK
  <2> QED BY <1>2, <1>3, <2>1, <2>2 DEF parse_internal
<1>4. OK(parse(m, config))
  <2> HIDE DEF OK
  <2> QED BY <1>1, <1>3 DEF parse
<1> QED BY <1>4

\* What one message changes: the transactions collected grow by at most one,
\* and a deposit takes the next nonce.
Collected(s, c, t, d) ==
    \/ t.deposit_nonce = s.deposit_nonce /\ d.transactions = c.transactions
    \/ /\ t.deposit_nonce = s.deposit_nonce
       /\ \E x \in EthereumTransactions : d.transactions = c.transactions \o <<x>>
    \/ /\ t.deposit_nonce = s.deposit_nonce + 1
       /\ \E a \in Int, r \in Addresses :
            d.transactions = c.transactions \o
              <<[tx_hash |-> s.deposit_nonce, content |-> "Deposit", amount |-> a,
                 receiver |-> r]>>

IsContent(c) == c = [upgrade |-> c.upgrade, transactions |-> c.transactions,
                     blueprints |-> c.blueprints]

LEMMA InputEffect ==
    ASSUME NEW s, BaseOK(s), NEW c, ContentOK(c), NEW m, WellTyped(m), NEW config
    PROVE  LET r == read_input(s, c, m, config)
           IN  /\ Only(s, r.st, InputKeys)
               /\ r.st.timestamp \in Int \cup {None} /\ r.st.stats \in Stats \cup {None}
               /\ IsContent(r.content)
               /\ Collected(s, c, r.st, r.content)
               /\ \/ r.content.blueprints = c.blueprints
                  \/ \E b : b.number \in Int /\ r.content.blueprints = Append(c.blueprints, b)
<1> DEFINE in == parse(m, config)
           r == read_input(s, c, m, config)
           Collect(t, txs) == [st |-> t, content |-> [c EXCEPT !.transactions = @ \o txs]]
           Goal(t, d) == /\ Only(s, t, InputKeys)
                         /\ t.timestamp \in Int \cup {None} /\ t.stats \in Stats \cup {None}
                         /\ IsContent(d)
                         /\ Collected(s, c, t, d)
                         /\ \/ d.blueprints = c.blueprints
                            \/ \E b : b.number \in Int /\ d.blueprints = Append(c.blueprints, b)
<1> HIDE DEF in, r
<1>0. /\ IsStorage(s) /\ IsContent(c) /\ c.transactions \in Seq(Transactions)
      /\ s.timestamp \in Int \cup {None} /\ s.stats \in Stats \cup {None}
      /\ s.deposit_nonce \in Nat
  BY DEF BaseOK, ContentOK, IsContent
<1>1. \A t, q : Collect(t, q).st = t /\ IsContent(Collect(t, q).content)
                /\ Collect(t, q).content.transactions = c.transactions \o q
                /\ Collect(t, q).content.blueprints = c.blueprints
  BY <1>0 DEF IsContent
<1>2. c.transactions \o <<>> = c.transactions
  BY <1>0
<1>3. \A C \in SUBSET InputKeys : \A t : Only(s, t, C) => Only(s, t, InputKeys)
  BY DEF Only
<1>4. Only(s, s, InputKeys)
  BY <1>0, OnlyRefl
<1>5. /\ in.type \in InputTypes
      /\ in.type = "SimpleTransaction" => in.tx \in EthereumTransactions
      /\ in.type = "Info" => in.timestamp \in Int
      /\ in.type = "Deposit" => in.amount \in Int /\ in.receiver \in Addresses
      /\ in.type = "SequencerBlueprint" => in.blueprint.number \in Nat
  BY ParseTypes, ParseOK DEF in
<1>6. CASE in.type \in {"Unparsable", "SimpleTransaction"}
  <2>1. r = IF in.type = "Unparsable" THEN Collect(s, <<>>) ELSE Collect(s, <<in.tx>>)
    BY <1>6 DEF read_input, in, r
  <2> HIDE DEF Collect
  <2>2. /\ r.st = s /\ IsContent(r.content) /\ r.content.blueprints = c.blueprints
        /\ \/ r.content.transactions = c.transactions
           \/ /\ in.tx \in EthereumTransactions
              /\ r.content.transactions = c.transactions \o <<in.tx>>
    <3>1. CASE in.type = "Unparsable"
      <4>1. r = Collect(s, <<>>)
        BY <2>1, <3>1
      <4> QED BY <1>1, <1>2, <4>1
    <3>2. CASE in.type = "SimpleTransaction"
      <4>1. r = Collect(s, <<in.tx>>)
        BY <2>1, <3>2
      <4> QED BY <1>1, <1>5, <3>2, <4>1
    <3> QED BY <1>6, <3>1, <3>2
  <2>3. Collected(s, c, r.st, r.content)
    BY <2>2 DEF Collected
  <2>4. Goal(r.st, r.content)
    BY <1>0, <1>4, <2>2, <2>3
  <2> QED BY <2>4 DEF r
<1>7. CASE in.type = "NewChunkedTransaction"
  <2>1. r = Collect(create_chunked_transaction(s, in), <<>>)
    BY <1>7 DEF read_input, in, r
  <2>2. PICK t : t = create_chunked_transaction(s, in)
    OBVIOUS
  <2>3. Only(s, t, {"chunked"})
    BY <1>0, <2>2, ChunkFrame
  <2>4. /\ Only(s, t, InputKeys) /\ t.timestamp = s.timestamp /\ t.stats = s.stats
        /\ t.deposit_nonce = s.deposit_nonce
    BY <2>3 DEF Only, Keys, InputKeys
  <2> HIDE DEF Collect
  <2>5. Goal(r.st, r.content)
    BY <1>0, <1>1, <1>2, <2>1, <2>2, <2>4 DEF Collected
  <2> QED BY <2>5 DEF r
<1>8. CASE in.type = "TransactionChunk"
  <2>1. r = Collect(handle_transaction_chunk(s, in).st, handle_transaction_chunk(s, in).txs)
    BY <1>8 DEF read_input, in, r
  <2>2. PICK t : t = handle_transaction_chunk(s, in).st
    OBVIOUS
  <2>3. Only(s, t, {"chunked"})
    BY <1>0, <2>2, ChunkFrame
  <2>4. /\ Only(s, t, InputKeys) /\ t.timestamp = s.timestamp /\ t.stats = s.stats
        /\ t.deposit_nonce = s.deposit_nonce
    BY <2>3 DEF Only, Keys, InputKeys
  <2>5. PICK q : q = handle_transaction_chunk(s, in).txs
    OBVIOUS
  <2>6. q = <<>> \/ \E x \in EthereumTransactions : q = <<x>>
    BY <1>0, <2>5, ChunkFrame, TxAssumption DEF EthereumTransactions
  <2> HIDE DEF Collect
  <2>61. r.st = t /\ r.content.transactions = c.transactions \o q
    BY <1>1, <2>1, <2>2, <2>5
  <2>7. Collected(s, c, r.st, r.content)
    BY <1>2, <2>4, <2>6, <2>61 DEF Collected
  <2>8. Goal(r.st, r.content)
    BY <1>0, <1>1, <2>1, <2>2, <2>4, <2>5, <2>7
  <2> QED BY <2>8 DEF r
<1>9. CASE in.type = "Upgrade"
  <2>1. r = [st |-> s, content |-> [c EXCEPT !.upgrade = in.upgrade]]
    BY <1>9 DEF read_input, in, r
  <2>2. /\ IsContent(r.content) /\ r.content.transactions = c.transactions
        /\ r.content.blueprints = c.blueprints /\ r.st = s
    BY <1>0, <2>1 DEF IsContent
  <2>3. Goal(r.st, r.content)
    BY <1>0, <1>4, <2>2 DEF Collected
  <2> QED BY <2>3 DEF r
<1>10. CASE in.type = "NewSequencer"
  <2>1. r = Collect([s EXCEPT !.sequencer = in.sequencer], <<>>)
    BY <1>10 DEF read_input, in, r
  <2>2. PICK t : t = [s EXCEPT !.sequencer = in.sequencer]
    OBVIOUS
  <2>3. Only(s, t, {"sequencer"})
    BY <1>0, <2>2 DEF IsStorage, Only, Keys
  <2>4. /\ Only(s, t, InputKeys) /\ t.timestamp = s.timestamp /\ t.stats = s.stats
        /\ t.deposit_nonce = s.deposit_nonce
    BY <2>3 DEF Only, Keys, InputKeys
  <2>41. r = Collect(t, <<>>)
    BY <2>1, <2>2
  <2> HIDE DEF Collect
  <2>5. Goal(r.st, r.content)
    BY <1>0, <1>1, <1>2, <2>41, <2>4 DEF Collected
  <2> QED BY <2>5 DEF r
<1>11. CASE in.type = "Info"
  <2>1. r = Collect(store_last_info_per_level_timestamp(s, in.timestamp), <<>>)
    BY <1>11 DEF read_input, in, r
  <2>2. PICK t : t = store_last_info_per_level_timestamp(s, in.timestamp)
    OBVIOUS
  <2> DEFINE u == [s EXCEPT !.timestamp = in.timestamp]
             old == IF u.timestamp = None THEN 0 ELSE u.timestamp
             stats == IF u.stats = None THEN <<0, 0>> ELSE u.stats
  <2>3. t = [u EXCEPT !.stats = <<stats[1] + 1, stats[2] + (in.timestamp - old)>>]
    BY <2>2 DEF store_last_info_per_level_timestamp, store_info_per_level_stats
  <2>4. Only(s, u, {"timestamp"}) /\ u.timestamp = in.timestamp
    BY <1>0 DEF IsStorage, Only, Keys
  <2>5. u.stats \in Stats \cup {None} /\ IsStorage(u)
    BY <1>0, <2>4 DEF Only, Keys
  <2>6. in.timestamp \in Int
    BY <1>5, <1>11
  <2>7. <<stats[1] + 1, stats[2] + (in.timestamp - old)>> \in Stats
    <3>1. old \in Int /\ stats[1] \in Nat /\ stats[2] \in Int
      <4>1. CASE u.stats = None
        BY <4>1, <2>4, <2>6
      <4>2. CASE u.stats # None
        <5>1. u.stats \in Stats
          BY <2>5, <4>2
        <5> QED BY <5>1, <2>4, <2>6, <4>2 DEF Stats
      <4> QED BY <4>1, <4>2
    <3> HIDE DEF old, stats, u
    <3> QED BY <3>1, <2>6 DEF Stats
  <2> HIDE DEF u
  <2>8. Only(u, t, {"stats"}) /\ t.stats \in Stats
    <3> HIDE DEF old, stats
    <3> QED BY <2>3, <2>5, <2>7 DEF IsStorage, Only, Keys
  <2>9. /\ Only(s, t, InputKeys) /\ t.timestamp \in Int
        /\ t.deposit_nonce = s.deposit_nonce
    <3>1. Only(s, t, {"timestamp"} \cup {"stats"})
      BY <2>4, <2>8, OnlyTrans
    <3>2. t.timestamp = u.timestamp
      BY <2>8 DEF Only, Keys
    <3> QED BY <3>1, <3>2, <2>4, <2>6 DEF Only, Keys, InputKeys
  <2> HIDE DEF Collect
  <2>10. Goal(r.st, r.content)
    BY <1>0, <1>1, <1>2, <2>1, <2>2, <2>8, <2>9 DEF Collected
  <2> QED BY <2>10 DEF r
<1>12. CASE in.type = "Deposit"
  <2>1. r = Collect(get_and_increment_deposit_nonce(s), <<handle_deposit(s, in)>>)
    BY <1>12 DEF read_input, in, r
  <2>2. PICK t : t = get_and_increment_deposit_nonce(s)
    OBVIOUS
  <2>3. Only(s, t, {"deposit_nonce"}) /\ t.deposit_nonce = s.deposit_nonce + 1
    BY <1>0, <2>2 DEF IsStorage, Only, Keys, get_and_increment_deposit_nonce
  <2>4. Only(s, t, InputKeys) /\ t.timestamp = s.timestamp /\ t.stats = s.stats
    BY <2>3 DEF Only, Keys, InputKeys
  <2>5. in.amount \in Int /\ in.receiver \in Addresses
    BY <1>5, <1>12
  <2>6. PICK q : q = handle_deposit(s, in)
    OBVIOUS
  <2>7. q = [tx_hash |-> s.deposit_nonce, content |-> "Deposit", amount |-> in.amount,
             receiver |-> in.receiver]
    BY <2>6 DEF handle_deposit
  <2> HIDE DEF Collect
  <2>8. r.st = t /\ r.content.transactions = c.transactions \o <<q>>
        /\ IsContent(r.content) /\ r.content.blueprints = c.blueprints
    BY <1>1, <2>1, <2>2, <2>6
  <2>9. Collected(s, c, r.st, r.content)
    BY <2>3, <2>5, <2>7, <2>8 DEF Collected
  <2>10. Goal(r.st, r.content)
    BY <1>0, <2>4, <2>8, <2>9
  <2> QED BY <2>10 DEF r
<1>13. CASE in.type = "SequencerBlueprint"
  <2>1. r = [st |-> s, content |-> [c EXCEPT !.blueprints = Append(@, in.blueprint)]]
    BY <1>13 DEF read_input, in, r
  <2>2. /\ IsContent(r.content) /\ r.content.transactions = c.transactions
        /\ r.content.blueprints = Append(c.blueprints, in.blueprint) /\ r.st = s
    BY <1>0, <2>1 DEF IsContent
  <2>3. in.blueprint.number \in Int
    BY <1>5, <1>13
  <2>4. Goal(r.st, r.content)
    BY <1>0, <1>4, <2>2, <2>3 DEF Collected
  <2> QED BY <2>4 DEF r
<1> QED BY <1>5, <1>6, <1>7, <1>8, <1>9, <1>10, <1>11, <1>12, <1>13 DEF InputTypes

\* Storing blueprints: those of the inbox are kept or replaced.
Fewer(s, t) ==
    /\ BlueprintsOK(s.blueprints) => BlueprintsOK(t.blueprints)
    /\ \A k \in DOMAIN t.blueprints :
         FromInbox(t, k) => FromInbox(s, k) /\ t.blueprints[k].chunks[0] = s.blueprints[k].chunks[0]

LEMMA FewerTrans ==
    ASSUME NEW s, NEW t, NEW u, Fewer(s, t), Fewer(t, u)
    PROVE  Fewer(s, u)
BY DEF Fewer, FromInbox

LEMMA FewerSame ==
    ASSUME NEW s, NEW t, t.blueprints = s.blueprints
    PROVE  Fewer(s, t)
BY DEF Fewer, FromInbox

LEMMA WithBlueprintFrame ==
    ASSUME NEW s, IsStorage(s), NEW n, NEW b
    PROVE  /\ Only(s, WithBlueprint(s, n, b), {"blueprints"})
           /\ WithBlueprint(s, n, b).blueprints
                = [k \in DOMAIN s.blueprints \cup {n} |-> IF k = n THEN b ELSE s.blueprints[k]]
BY DEF IsStorage, Only, Keys, WithBlueprint

LEMMA DropBlueprintFrame ==
    ASSUME NEW s, IsStorage(s), NEW n
    PROVE  /\ Only(s, DropBlueprint(s, n), {"blueprints"})
           /\ DropBlueprint(s, n).blueprints
                = [k \in DOMAIN s.blueprints \ {n} |-> s.blueprints[k]]
           /\ Fewer(s, DropBlueprint(s, n))
<1>1. /\ Only(s, DropBlueprint(s, n), {"blueprints"})
      /\ DropBlueprint(s, n).blueprints = [k \in DOMAIN s.blueprints \ {n} |-> s.blueprints[k]]
  BY DEF IsStorage, Only, Keys, DropBlueprint, Restrict
<1>2. PICK t : t = DropBlueprint(s, n)
  OBVIOUS
<1>3. DOMAIN t.blueprints \subseteq DOMAIN s.blueprints
      /\ \A k \in DOMAIN t.blueprints : t.blueprints[k] = s.blueprints[k]
  BY <1>1, <1>2
<1>4. Fewer(s, t)
  BY <1>3 DEF Fewer, FromInbox, BlueprintsOK
<1> QED BY <1>1, <1>2, <1>4

LEMMA SequencerBlueprintFrame ==
    ASSUME NEW s, IsStorage(s), NEW b, b.number \in Int
    PROVE  /\ Only(s, store_sequencer_blueprint(s, b), {"blueprints"})
           /\ Fewer(s, store_sequencer_blueprint(s, b))
<1> DEFINE old == IF b.number \in DOMAIN s.blueprints
                    THEN s.blueprints[b.number].chunks ELSE <<>>
           chunks == [i \in DOMAIN old \cup {b.chunk_index} |->
                         IF i = b.chunk_index THEN [inbox |-> FALSE, chunk |-> b.chunk]
                         ELSE old[i]]
           new == [nb_chunks |-> b.nb_chunks, chunks |-> chunks]
<1>0. PICK t : t = store_sequencer_blueprint(s, b)
  OBVIOUS
<1>1. t = WithBlueprint(s, b.number, new)
  BY <1>0 DEF store_sequencer_blueprint
<1>2. new.chunks = chunks
  OBVIOUS
<1> HIDE DEF new
<1>3. /\ Only(s, t, {"blueprints"})
      /\ t.blueprints = [k \in DOMAIN s.blueprints \cup {b.number} |->
                            IF k = b.number THEN new ELSE s.blueprints[k]]
  BY <1>1, WithBlueprintFrame
<1>4. \A i \in DOMAIN chunks : chunks[i].inbox =>
         /\ b.number \in DOMAIN s.blueprints /\ i \in DOMAIN s.blueprints[b.number].chunks
         /\ chunks[i] = s.blueprints[b.number].chunks[i]
  <2>1. DOMAIN old = {} \/ (b.number \in DOMAIN s.blueprints /\ old = s.blueprints[b.number].chunks)
    OBVIOUS
  <2> HIDE DEF old
  <2>2. ASSUME NEW i \in DOMAIN chunks, chunks[i].inbox
        PROVE  i \in DOMAIN old /\ chunks[i] = old[i]
    <3>1. i # b.chunk_index
      BY <2>2
    <3> QED BY <2>2, <3>1
  <2> HIDE DEF chunks
  <2> QED BY <2>1, <2>2
<1> HIDE DEF chunks
<1>5. \A k \in DOMAIN t.blueprints : \A i \in DOMAIN t.blueprints[k].chunks :
        t.blueprints[k].chunks[i].inbox =>
          /\ k \in DOMAIN s.blueprints /\ i \in DOMAIN s.blueprints[k].chunks
          /\ t.blueprints[k].chunks[i] = s.blueprints[k].chunks[i]
  <2> SUFFICES ASSUME NEW k \in DOMAIN t.blueprints, NEW i \in DOMAIN t.blueprints[k].chunks,
                      t.blueprints[k].chunks[i].inbox
               PROVE  /\ k \in DOMAIN s.blueprints /\ i \in DOMAIN s.blueprints[k].chunks
                      /\ t.blueprints[k].chunks[i] = s.blueprints[k].chunks[i]
    OBVIOUS
  <2>1. CASE k = b.number
    BY <1>2, <1>3, <1>4, <2>1
  <2>2. CASE k # b.number
    BY <1>3, <2>2
  <2> QED BY <2>1, <2>2
<1>6. DOMAIN t.blueprints = DOMAIN s.blueprints \cup {b.number}
  BY <1>3
<1>7. Fewer(s, t)
  BY <1>5, <1>6 DEF Fewer, FromInbox, BlueprintsOK
<1> QED BY <1>0, <1>3, <1>7

\* The blueprint of the inbox is stored after the last one.
LEMMA InboxBlueprintFrame ==
    ASSUME NEW s, IsStorage(s), s.last_blueprint \in Int, NEW p
    PROVE  LET t == store_inbox_blueprint(s, p)
               n == s.last_blueprint + 1
           IN  /\ Only(s, t, {"last_blueprint", "blueprints"})
               /\ t.last_blueprint = n
               /\ DOMAIN t.blueprints = DOMAIN s.blueprints \cup {n}
               /\ \A k \in DOMAIN s.blueprints : k # n => t.blueprints[k] = s.blueprints[k]
               /\ FromInbox(t, n) /\ t.blueprints[n].chunks[0].chunk = p
               /\ BlueprintsOK(s.blueprints) /\ p \in InboxBlueprints => BlueprintsOK(t.blueprints)
<1>0. PICK t : t = store_inbox_blueprint(s, p)
  OBVIOUS
<1>1. PICK n \in Int : n = s.last_blueprint + 1
  OBVIOUS
<1> DEFINE old == IF n \in DOMAIN s.blueprints THEN s.blueprints[n].chunks ELSE <<>>
           chunks == [i \in DOMAIN old \cup {0} |->
                         IF i = 0 THEN [inbox |-> TRUE, chunk |-> p] ELSE old[i]]
           new == [nb_chunks |-> 1, chunks |-> chunks]
           u == [s EXCEPT !.last_blueprint = n]
<1>2. t = WithBlueprint(u, n, new)
  BY <1>0, <1>1 DEF store_inbox_blueprint
<1>3. new.chunks = chunks
  OBVIOUS
<1>4. Only(s, u, {"last_blueprint"}) /\ u.last_blueprint = n
  BY DEF IsStorage, Only, Keys
<1>5. IsStorage(u) /\ u.blueprints = s.blueprints
  BY <1>4 DEF Only, Keys
<1> HIDE DEF u, new
<1>6. /\ Only(u, t, {"blueprints"})
      /\ t.blueprints = [k \in DOMAIN s.blueprints \cup {n} |->
                            IF k = n THEN new ELSE s.blueprints[k]]
  BY <1>2, <1>5, WithBlueprintFrame
<1>7. Only(s, t, {"last_blueprint"} \cup {"blueprints"}) /\ t.last_blueprint = n
  BY <1>4, <1>6, OnlyTrans DEF Only, Keys
<1>8. Only(s, t, {"last_blueprint", "blueprints"})
  <2>1. {"last_blueprint"} \cup {"blueprints"} = {"last_blueprint", "blueprints"}
    OBVIOUS
  <2> QED BY <1>7, <2>1
<1>9. 0 \in DOMAIN chunks /\ chunks[0] = [inbox |-> TRUE, chunk |-> p]
  OBVIOUS
<1>10. \A i \in DOMAIN chunks : i # 0 =>
         /\ n \in DOMAIN s.blueprints /\ i \in DOMAIN s.blueprints[n].chunks
         /\ chunks[i] = s.blueprints[n].chunks[i]
  <2>1. DOMAIN old = {} \/ (n \in DOMAIN s.blueprints /\ old = s.blueprints[n].chunks)
    OBVIOUS
  <2> HIDE DEF old
  <2>2. ASSUME NEW i \in DOMAIN chunks, i # 0
        PROVE  i \in DOMAIN old /\ chunks[i] = old[i]
    BY <2>2
  <2> HIDE DEF chunks
  <2> QED BY <2>1, <2>2
<1> HIDE DEF chunks
<1>11. /\ DOMAIN t.blueprints = DOMAIN s.blueprints \cup {n}
       /\ \A k \in DOMAIN s.blueprints : k # n => t.blueprints[k] = s.blueprints[k]
       /\ t.blueprints[n] = new
  BY <1>6
<1>12. FromInbox(t, n) /\ t.blueprints[n].chunks[0].chunk = p
  BY <1>3, <1>9, <1>11 DEF FromInbox
<1>13. ASSUME BlueprintsOK(s.blueprints), p \in InboxBlueprints PROVE BlueprintsOK(t.blueprints)
  <2>1. ASSUME NEW k \in DOMAIN t.blueprints, NEW i \in DOMAIN t.blueprints[k].chunks,
               t.blueprints[k].chunks[i].inbox
        PROVE  i = 0 /\ t.blueprints[k].chunks[i].chunk \in InboxBlueprints
    <3>1. CASE k # n
      BY <1>11, <1>13, <2>1, <3>1 DEF BlueprintsOK
    <3>2. CASE k = n /\ i = 0
      BY <1>3, <1>9, <1>11, <1>13, <3>2
    <3>3. CASE k = n /\ i # 0
      BY <1>3, <1>10, <1>11, <1>13, <2>1, <3>3 DEF BlueprintsOK
    <3> QED BY <3>1, <3>2, <3>3
  <2> QED BY <1>11, <1>13, <2>1 DEF BlueprintsOK
<1> QED BY <1>0, <1>1, <1>7, <1>8, <1>11, <1>12, <1>13

\* The deposits among q were saved in the delayed inbox.
Saves(s, t, q) ==
    DelayedOK(s.delayed) =>
        /\ DelayedOK(t.delayed)
        /\ \A h \in DelayedDeposits(t.delayed) : h \in DelayedDeposits(s.delayed) \/ h \in DepositsIn(q)

LEMMA SaveFrame ==
    ASSUME NEW s, IsStorage(s), NEW xs \in Seq(Transactions)
    PROVE  /\ Only(s, FoldLeft(save_transaction, s, xs), {"delayed"})
           /\ Saves(s, FoldLeft(save_transaction, s, xs), xs)
<1> PICK n \in Nat : n = Len(xs)
  BY LenProperties
<1>1. PICK g : /\ LoopStates(0, s, xs, n, g)
               /\ FoldLeft(save_transaction, s, xs) = g[n]
  BY SaveSteps
<1> DEFINE T == {k \in 0 .. n : Only(s, g[k], {"delayed"}) /\ Saves(s, g[k], xs)}
<1>2. 0 \in T
  BY <1>1, OnlyRefl DEF LoopStates, Saves
<1>3. ASSUME NEW k \in 0 .. n - 1, k \in T PROVE k + 1 \in T
  <2>1. PICK t : t = g[k]
    OBVIOUS
  <2>2. k + 1 \in 1 .. n /\ (k + 1) - 1 = k
    OBVIOUS
  <2>3. g[k + 1] = save_transaction(t, xs[k + 1])
    BY <1>1, <2>1, <2>2 DEF LoopStates, FetchStep
  <2>4. Only(s, t, {"delayed"}) /\ Saves(s, t, xs)
    BY <1>3, <2>1
  <2>5. Only(t, g[k + 1], {"delayed"})
    BY <2>3, <2>4 DEF IsStorage, Only, Keys, save_transaction
  <2>9. Saves(s, g[k + 1], xs)
    <3>1. PICK x \in Transactions : x = xs[k + 1]
      BY <2>2, ElementOfSeq
    <3>2. PICK l : l = t.delayed
      OBVIOUS
    <3>3. PICK m : m = g[k + 1].delayed
      OBVIOUS
    <3>4. m = push(l, x.tx_hash, x)
      BY <2>3, <2>4, <3>1, <3>2, <3>3 DEF IsStorage, Only, Keys, save_transaction
    <3>5. ASSUME DelayedOK(l)
          PROVE  /\ DelayedOK(m)
                 /\ \A h \in DelayedDeposits(m) :
                      h \in DelayedDeposits(l) \/ (x.content = "Deposit" /\ h = x.tx_hash)
      BY <3>4, <3>5, PushKept
    <3>6. k + 1 \in DOMAIN xs
      BY <2>2
    <3>7. x.content = "Deposit" => x.tx_hash \in DepositsIn(xs)
      BY <3>1, <3>6, DepositHashes
    <3> QED BY <2>4, <3>2, <3>3, <3>5, <3>7 DEF Saves
  <2>6. Only(s, g[k + 1], {"delayed"} \cup {"delayed"})
    BY <2>4, <2>5, OnlyTrans
  <2>7. {"delayed"} \cup {"delayed"} = {"delayed"}
    OBVIOUS
  <2>8. k + 1 \in 0 .. n
    OBVIOUS
  <2> QED BY <2>6, <2>7, <2>8, <2>9
<1>4. n \in T
  <2> HIDE DEF T
  <2>1. \A k \in 0 .. n - 1 : k \in T => k + 1 \in T
    BY <1>3
  <2>2. \A k \in 0 .. n : k \in T
    BY <1>2, <2>1, UpTo
  <2> QED BY <2>2
<1> QED BY <1>1, <1>4

LEMMA StoreFrame ==
    ASSUME NEW s, IsStorage(s), NEW S, NEW xs \in Seq(S), \A b \in S : b.number \in Int
    PROVE  /\ Only(s, FoldLeft(store_sequencer_blueprint, s, xs), {"blueprints"})
           /\ Fewer(s, FoldLeft(store_sequencer_blueprint, s, xs))
<1> PICK n \in Nat : n = Len(xs)
  BY LenProperties
<1>1. PICK g : /\ LoopStates(1, s, xs, n, g)
               /\ FoldLeft(store_sequencer_blueprint, s, xs) = g[n]
  BY StoreSteps
<1> DEFINE T == {k \in 0 .. n : Only(s, g[k], {"blueprints"}) /\ Fewer(s, g[k])}
<1>2. 0 \in T
  BY <1>1, OnlyRefl, FewerSame DEF LoopStates
<1>3. ASSUME NEW k \in 0 .. n - 1, k \in T PROVE k + 1 \in T
  <2>1. PICK t : t = g[k]
    OBVIOUS
  <2>2. k + 1 \in 1 .. n /\ (k + 1) - 1 = k
    OBVIOUS
  <2>3. PICK u : u = store_sequencer_blueprint(t, xs[k + 1])
    OBVIOUS
  <2>31. g[k + 1] = u
    BY <1>1, <2>1, <2>2, <2>3 DEF LoopStates, FetchStep
  <2>32. xs[k + 1].number \in Int
    BY <2>2, ElementOfSeq
  <2>4. Only(s, t, {"blueprints"}) /\ IsStorage(t) /\ Fewer(s, t)
    BY <1>3, <2>1 DEF Only
  <2>5. Only(t, u, {"blueprints"}) /\ Fewer(t, u)
    BY <2>3, <2>32, <2>4, SequencerBlueprintFrame
  <2>6. Only(s, u, {"blueprints"} \cup {"blueprints"}) /\ Fewer(s, u)
    BY <2>4, <2>5, OnlyTrans, FewerTrans
  <2>7. {"blueprints"} \cup {"blueprints"} = {"blueprints"}
    OBVIOUS
  <2>8. k + 1 \in 0 .. n
    OBVIOUS
  <2> QED BY <2>31, <2>6, <2>7, <2>8
<1>4. n \in T
  <2> HIDE DEF T
  <2>1. \A k \in 0 .. n - 1 : k \in T => k + 1 \in T
    BY <1>3
  <2>2. \A k \in 0 .. n : k \in T
    BY <1>2, <2>1, UpTo
  <2> QED BY <2>2
<1> QED BY <1>1, <1>4

FetchKeys == {"last_blueprint", "blueprints", "delayed", "upgrade"}

LEMMA UpgradeFrame ==
    ASSUME NEW s, IsStorage(s), NEW u
    PROVE  Only(s, store_kernel_upgrade(s, u), {"upgrade"})
BY DEF IsStorage, Only, Keys, store_kernel_upgrade

LEMMA FetchSequencerFrame ==
    ASSUME NEW s, IsStorage(s), NEW c, ContentOK(c)
    PROVE  /\ Only(s, fetch_sequencer_blueprints(s, c), {"blueprints", "delayed", "upgrade"})
           /\ Fewer(s, fetch_sequencer_blueprints(s, c))
           /\ Saves(s, fetch_sequencer_blueprints(s, c), c.transactions)
<1>1. PICK t : t = FoldLeft(save_transaction, s, c.transactions)
  OBVIOUS
<1>2. PICK u : u = FoldLeft(store_sequencer_blueprint, t, c.blueprints)
  OBVIOUS
<1>3. PICK v : v = store_kernel_upgrade(u, c.upgrade)
  OBVIOUS
<1>4. v = fetch_sequencer_blueprints(s, c)
  BY <1>1, <1>2, <1>3 DEF fetch_sequencer_blueprints
<1>5. PICK S : c.blueprints \in Seq(S) /\ \A b \in S : b.number \in Int
  BY DEF ContentOK
<1>6. Only(s, t, {"delayed"}) /\ Saves(s, t, c.transactions)
  BY <1>1, SaveFrame DEF ContentOK
<1>7. IsStorage(t) /\ t.blueprints = s.blueprints
  BY <1>6 DEF Only, Keys
<1>8. Only(t, u, {"blueprints"}) /\ Fewer(t, u)
  BY <1>2, <1>5, <1>7, StoreFrame
<1>9. IsStorage(u)
  BY <1>8 DEF Only
<1>10. Only(u, v, {"upgrade"})
  BY <1>3, <1>9, UpgradeFrame
<1>11. v.blueprints = u.blueprints
  BY <1>10 DEF Only, Keys
<1>12. Fewer(s, v)
  <2>1. Fewer(s, t) /\ Fewer(u, v)
    BY <1>7, <1>11, FewerSame
  <2>2. Fewer(s, u)
    BY <2>1, <1>8, FewerTrans
  <2> QED BY <2>1, <2>2, FewerTrans
<1>13. Only(s, v, ({"delayed"} \cup {"blueprints"}) \cup {"upgrade"})
  <2>1. Only(s, u, {"delayed"} \cup {"blueprints"})
    BY <1>6, <1>8, OnlyTrans
  <2> QED BY <2>1, <1>10, OnlyTrans
<1>14. ({"delayed"} \cup {"blueprints"}) \cup {"upgrade"} = {"blueprints", "delayed", "upgrade"}
  OBVIOUS
<1>15. v.delayed = t.delayed
  BY <1>8, <1>10 DEF Only, Keys
<1>16. Saves(s, v, c.transactions)
  BY <1>6, <1>15 DEF Saves
<1> QED BY <1>4, <1>12, <1>13, <1>14, <1>16

\* The blueprint of the inbox, and the storage after it was stored.
InboxBlueprint(s, c) == [transactions |-> c.transactions, timestamp |-> current_timestamp(s)]

LEMMA FetchInboxFrame ==
    ASSUME NEW s, BaseOK(s), NEW c, ContentOK(c)
    PROVE  LET t == fetch_inbox_blueprints(s, c)
               n == s.last_blueprint + 1
           IN  /\ Only(s, t, {"last_blueprint", "blueprints", "upgrade"})
               /\ t.last_blueprint = n /\ n \in Int
               /\ DOMAIN t.blueprints = DOMAIN s.blueprints \cup {n}
               /\ \A k \in DOMAIN s.blueprints : k # n => t.blueprints[k] = s.blueprints[k]
               /\ FromInbox(t, n) /\ TxsOf(t, n) = c.transactions
               /\ BlueprintsOK(t.blueprints)
<1>0. /\ IsStorage(s) /\ s.last_blueprint \in Int /\ BlueprintsOK(s.blueprints)
      /\ s.timestamp \in Int \cup {None} /\ s.stats \in Stats \cup {None}
      /\ c.transactions \in Seq(Transactions)
  BY DEF BaseOK, ContentOK
<1>1. current_timestamp(s) \in Int
  <2> DEFINE stats == IF s.stats = None THEN <<1, 0>> ELSE s.stats
  <2>1. stats[1] \in Nat \ {0} /\ stats[2] \in Int
    <3>1. CASE s.stats = None
      BY <3>1
    <3>2. CASE s.stats # None
      <4>1. s.stats \in Stats
        BY <1>0, <3>2
      <4> QED BY <3>2, <4>1 DEF Stats
    <3> QED BY <3>1, <3>2
  <2>2. current_timestamp(s) = (IF s.timestamp = None THEN 0 ELSE s.timestamp) + (stats[2] \div stats[1])
    BY DEF current_timestamp
  <2> HIDE DEF stats
  <2>3. stats[2] \div stats[1] \in Int
    BY <2>1
  <2> QED BY <1>0, <2>2, <2>3
<1>2. PICK p : p = InboxBlueprint(s, c)
  OBVIOUS
<1>3. p \in InboxBlueprints /\ p.transactions = c.transactions
  BY <1>0, <1>1, <1>2 DEF InboxBlueprint, InboxBlueprints
<1>4. PICK u : u = store_inbox_blueprint(s, p)
  OBVIOUS
<1>5. PICK t : t = store_kernel_upgrade(u, c.upgrade)
  OBVIOUS
<1>6. t = fetch_inbox_blueprints(s, c)
  BY <1>2, <1>4, <1>5 DEF fetch_inbox_blueprints, InboxBlueprint
<1>7. PICK n \in Int : n = s.last_blueprint + 1
  BY <1>0
<1>8. /\ Only(s, u, {"last_blueprint", "blueprints"})
      /\ u.last_blueprint = n
      /\ DOMAIN u.blueprints = DOMAIN s.blueprints \cup {n}
      /\ \A k \in DOMAIN s.blueprints : k # n => u.blueprints[k] = s.blueprints[k]
      /\ FromInbox(u, n) /\ u.blueprints[n].chunks[0].chunk = p
      /\ BlueprintsOK(u.blueprints)
  BY <1>0, <1>3, <1>4, <1>7, InboxBlueprintFrame
<1>9. IsStorage(u)
  BY <1>8 DEF Only
<1>10. Only(u, t, {"upgrade"})
  BY <1>5, <1>9, UpgradeFrame
<1>11. t.blueprints = u.blueprints /\ t.last_blueprint = u.last_blueprint
  BY <1>10 DEF Only, Keys
<1>12. Only(s, t, {"last_blueprint", "blueprints"} \cup {"upgrade"})
  BY <1>8, <1>10, OnlyTrans
<1>13. {"last_blueprint", "blueprints"} \cup {"upgrade"} = {"last_blueprint", "blueprints", "upgrade"}
  OBVIOUS
<1>14. FromInbox(t, n) /\ TxsOf(t, n) = c.transactions
  BY <1>3, <1>8, <1>11 DEF FromInbox, TxsOf
<1> QED BY <1>6, <1>7, <1>8, <1>11, <1>12, <1>13, <1>14

\* Reading the next blueprint.
LEMMA ReadFrame ==
    ASSUME NEW s, IsStorage(s), NEW config
    PROVE  /\ Only(s, read_next_blueprint(s, config).st, {"blueprints", "delayed"})
           /\ Fewer(s, read_next_blueprint(s, config).st)
           /\ DelayedOK(s.delayed) => DelayedLess(s.delayed, read_next_blueprint(s, config).st.delayed)
<1> DEFINE Shorter(t) == DelayedOK(s.delayed) => DelayedLess(s.delayed, t.delayed)
           Good(t) == Only(s, t, {"blueprints", "delayed"}) /\ Fewer(s, t) /\ Shorter(t)
<1>1. Good(s)
  BY OnlyRefl, FewerSame DEF DelayedLess
<1>2. \A b \in Range(SequencerBlueprints) : Good(fetch_delayed_txs(s, b).st)
  <2> SUFFICES ASSUME NEW b \in Range(SequencerBlueprints) PROVE Good(fetch_delayed_txs(s, b).st)
    OBVIOUS
  <2>1. PICK t : t = fetch_delayed_txs(s, b).st
    OBVIOUS
  <2>2. \E l : t = [s EXCEPT !.delayed = l]
    BY <2>1 DEF fetch_delayed_txs
  <2>3. Only(s, t, {"delayed"})
    BY <2>2 DEF IsStorage, Only, Keys
  <2>4. t.blueprints = s.blueprints
    BY <2>3 DEF Only, Keys
  <2>5. t.delayed = FetchDelayed(s.delayed, b.delayed_hashes).list
    BY <2>1 DEF fetch_delayed_txs, IsStorage, Keys
  <2>6. Shorter(t)
    <3>1. b.delayed_hashes \in Seq(Nat \cup DOMAIN Tx)
      BY BlueprintAssumption
    <3>2. DelayedOK(s.delayed) => Fetching(s.delayed, FetchDelayed(s.delayed, b.delayed_hashes))
      BY <3>1, FetchDelayedOK
    <3> QED BY <2>5, <3>2 DEF Fetching
  <2> QED BY <2>1, <2>3, <2>4, <2>6, FewerSame DEF Only
<1>3. \A t, n : Good(t) => Good(DropBlueprint(t, n))
  <2> SUFFICES ASSUME NEW t, NEW n, Good(t) PROVE Good(DropBlueprint(t, n))
    OBVIOUS
  <2>1. PICK u : u = DropBlueprint(t, n)
    OBVIOUS
  <2>11. IsStorage(t)
    BY DEF Only
  <2>2. Only(t, u, {"blueprints"}) /\ Fewer(t, u)
    BY <2>1, <2>11, DropBlueprintFrame
  <2>3. Only(s, u, {"blueprints", "delayed"} \cup {"blueprints"}) /\ Fewer(s, u)
    BY <2>2, OnlyTrans, FewerTrans
  <2>4. {"blueprints", "delayed"} \cup {"blueprints"} = {"blueprints", "delayed"}
    OBVIOUS
  <2>5. u.delayed = t.delayed
    BY <2>2 DEF Only, Keys
  <2> QED BY <2>1, <2>3, <2>4, <2>5
<1>4. ASSUME NEW n PROVE Good(read_all_chunks(s, n, config).st)
  <2> DEFINE b == s.blueprints[n]
             chunks == [i \in 1 .. b.nb_chunks |-> b.chunks[i - 1].chunk]
             read == IF Decoded(chunks) = {} THEN NoBlueprint(s)
                     ELSE fetch_delayed_txs(s, CHOOSE d \in Decoded(chunks) : TRUE)
  <2>1. Good(read.st)
    <3> HIDE DEF Good
    <3>1. NoBlueprint(s).st = s
      BY DEF NoBlueprint
    <3>2. PICK d : d = CHOOSE e \in Decoded(chunks) : TRUE
      OBVIOUS
    <3>3. read = NoBlueprint(s) \/ (read = fetch_delayed_txs(s, d) /\ d \in Range(SequencerBlueprints))
      BY <3>2 DEF Decoded
    <3> QED BY <1>1, <1>2, <3>1, <3>3
  <2>2. DOMAIN read = {"st", "blueprint", "vain", "error"}
    BY DEF NoBlueprint, fetch_delayed_txs
  <2>3. read_all_chunks(s, n, config).st \in {s, read.st, DropBlueprint(read.st, n)}
    <3>1. \A x : [NoBlueprint(s) EXCEPT !.blueprint = x].st = s
      BY DEF NoBlueprint
    <3>2. \A x : [NoBlueprint(s) EXCEPT !.error = x].st = s
      BY DEF NoBlueprint
    <3>3. NoBlueprint(s).st = s
      BY DEF NoBlueprint
    <3>4. [read EXCEPT !.st = DropBlueprint(@, n)].st = DropBlueprint(read.st, n)
      <4> HIDE DEF read
      <4> QED BY <2>2
    <3>5. \/ \E x : read_all_chunks(s, n, config) = [NoBlueprint(s) EXCEPT !.blueprint = x]
          \/ read_all_chunks(s, n, config) = [NoBlueprint(s) EXCEPT !.error = TRUE]
          \/ read_all_chunks(s, n, config) = NoBlueprint(s)
          \/ read_all_chunks(s, n, config) = read
          \/ read_all_chunks(s, n, config) = [read EXCEPT !.st = DropBlueprint(@, n)]
      BY DEF read_all_chunks
    <3> HIDE DEF read
    <3> QED BY <3>1, <3>2, <3>3, <3>4, <3>5
  <2> HIDE DEF read, Good
  <2> QED BY <1>1, <1>3, <2>1, <2>3
<1>5. Good(read_next_blueprint(s, config).st)
  <2>1. PICK n : n = read_next_blueprint_number(s)
    OBVIOUS
  <2>2. \/ read_next_blueprint(s, config) = NoBlueprint(s)
        \/ read_next_blueprint(s, config) = read_all_chunks(s, n, config)
    BY <2>1 DEF read_next_blueprint
  <2>3. NoBlueprint(s).st = s
    BY DEF NoBlueprint
  <2> HIDE DEF Good
  <2> QED BY <1>1, <1>4, <2>2, <2>3
<1> QED BY <1>5

\* The blueprint that was read: that of the inbox, or one of a sequencer, whose
\* deposits were taken from the delayed inbox.
LEMMA ReadBlueprintOK ==
    ASSUME NEW s, BaseOK(s), DelayedOK(s.delayed), NEW config,
           read_next_blueprint(s, config).blueprint # None
    PROVE  LET n == read_next_blueprint_number(s)
               p == read_next_blueprint(s, config).blueprint
               t == read_next_blueprint(s, config).st
           IN  \/ /\ FromInbox(s, n) /\ p = s.blueprints[n].chunks[0].chunk
                  /\ p \in InboxBlueprints
               \/ /\ p.timestamp \in Int /\ IsQueue(p.transactions)
                  /\ DepositsIn(p.transactions) \subseteq DelayedDeposits(s.delayed)
                  /\ \A h \in DepositsIn(p.transactions) : h \notin DelayedDeposits(t.delayed)
<1>1. PICK n : n = read_next_blueprint_number(s)
  OBVIOUS
<1>2. PICK p : p = read_next_blueprint(s, config).blueprint
  OBVIOUS
<1>3. NoBlueprint(s).blueprint = None
  BY DEF NoBlueprint
<1>4. read_next_blueprint(s, config) = read_all_chunks(s, n, config) /\ n \in DOMAIN s.blueprints
  BY <1>1, <1>3 DEF read_next_blueprint
<1> DEFINE b == s.blueprints[n]
           firstInbox == \E i \in 0 .. b.nb_chunks - 1 :
                           /\ i \in DOMAIN b.chunks /\ b.chunks[i].inbox
                           /\ \A j \in 0 .. i : j \in DOMAIN b.chunks
           inbox == CHOOSE i \in DOMAIN b.chunks : b.chunks[i].inbox
           chunks == [i \in 1 .. b.nb_chunks |-> b.chunks[i - 1].chunk]
           read == IF Decoded(chunks) = {} THEN NoBlueprint(s)
                   ELSE fetch_delayed_txs(s, CHOOSE d \in Decoded(chunks) : TRUE)
<1>5. CASE firstInbox
  <2>1. p = [NoBlueprint(s) EXCEPT !.blueprint = b.chunks[inbox].chunk].blueprint
    BY <1>2, <1>4, <1>5 DEF read_all_chunks
  <2>2. p = b.chunks[inbox].chunk
    BY <2>1 DEF NoBlueprint
  <2>3. inbox \in DOMAIN b.chunks /\ b.chunks[inbox].inbox
    BY <1>5
  <2> HIDE DEF inbox
  <2>4. inbox = 0 /\ b.chunks[inbox].chunk \in InboxBlueprints
    BY <1>4, <2>3 DEF BaseOK, BlueprintsOK
  <2>5. FromInbox(s, n) /\ p = s.blueprints[n].chunks[0].chunk /\ p \in InboxBlueprints
    BY <1>4, <2>2, <2>3, <2>4 DEF FromInbox
  <2> QED BY <1>1, <1>2, <2>5
<1>6. CASE ~firstInbox
  <2>1. read.blueprint # None /\ read_next_blueprint(s, config) = read
    <3>1. [NoBlueprint(s) EXCEPT !.error = TRUE].blueprint = None
      BY DEF NoBlueprint
    <3>2. [read EXCEPT !.st = DropBlueprint(@, n)].blueprint = read.blueprint
      BY DEF NoBlueprint, fetch_delayed_txs
    <3>3. \/ read_all_chunks(s, n, config) = [NoBlueprint(s) EXCEPT !.error = TRUE]
          \/ read_all_chunks(s, n, config) = NoBlueprint(s)
          \/ read_all_chunks(s, n, config) = read /\ read.blueprint # None
          \/ /\ read_all_chunks(s, n, config) = [read EXCEPT !.st = DropBlueprint(@, n)]
             /\ read.blueprint = None
      BY <1>6 DEF read_all_chunks
    <3> HIDE DEF read
    <3> QED BY <1>2, <1>3, <1>4, <3>1, <3>2, <3>3
  <2>2. PICK d \in Range(SequencerBlueprints) : read = fetch_delayed_txs(s, d)
    <3>1. Decoded(chunks) # {}
      BY <2>1, <1>3
    <3>2. PICK d : d = CHOOSE e \in Decoded(chunks) : TRUE
      OBVIOUS
    <3>3. d \in Decoded(chunks)
      BY <3>1, <3>2
    <3>4. d \in Range(SequencerBlueprints)
      BY <3>3 DEF Decoded
    <3>5. read = fetch_delayed_txs(s, d)
      BY <3>1, <3>2
    <3> QED BY <3>4, <3>5
  <2> HIDE DEF read
  <2>3. PICK acc : acc = FetchDelayed(s.delayed, d.delayed_hashes)
    OBVIOUS
  <2>4. Fetching(s.delayed, acc)
    <3>1. d.delayed_hashes \in Seq(Nat \cup DOMAIN Tx)
      BY <2>2, BlueprintAssumption
    <3> QED BY <2>3, <3>1, FetchDelayedOK
  <2>7. PICK q : q = acc.txs \o d.transactions
    OBVIOUS
  <2>50. PICK z : z = [transactions |-> q, timestamp |-> d.timestamp]
    OBVIOUS
  <2>5. read.blueprint = z /\ read.st = [s EXCEPT !.delayed = acc.list]
    <3>1. PICK f : f = fetch_delayed_txs(s, d)
      OBVIOUS
    <3>2. f.blueprint = (IF acc.found THEN z ELSE None) /\ f.st = [s EXCEPT !.delayed = acc.list]
      BY <2>3, <2>7, <2>50, <3>1 DEF fetch_delayed_txs
    <3>3. read = f
      BY <2>2, <3>1
    <3> QED BY <2>1, <3>2, <3>3
  <2>6. d.transactions \in Seq(EthereumTransactions) /\ d.timestamp \in Int
    BY <2>2, BlueprintAssumption DEF EthereumTransactions
  <2>8. p.transactions = q /\ p.timestamp = d.timestamp
    BY <1>2, <2>1, <2>5, <2>50
  <2>9. acc.txs \in Seq(Transactions) /\ Once(acc.txs)
    BY <2>4 DEF Fetching
  <2>10. IsQueue(q) /\ DepositsIn(q) = DepositsIn(acc.txs)
    BY <2>6, <2>7, <2>9, DepositsThen DEF IsQueue
  <2>11. read_next_blueprint(s, config).st.delayed = acc.list
    BY <2>1, <2>5 DEF BaseOK, IsStorage, Keys
  <2>12. /\ DepositsIn(q) \subseteq DelayedDeposits(s.delayed)
         /\ \A h \in DepositsIn(q) : h \notin DelayedDeposits(acc.list)
    BY <2>4, <2>10 DEF Fetching, DelayedDeposits
  <2>13. /\ p.timestamp \in Int /\ IsQueue(p.transactions)
         /\ DepositsIn(p.transactions) \subseteq DelayedDeposits(s.delayed)
         /\ \A h \in DepositsIn(p.transactions) : h \notin DelayedDeposits(acc.list)
    BY <2>6, <2>8, <2>10, <2>12
  <2> HIDE DEF firstInbox
  <2> QED BY <1>2, <2>11, <2>13
<1> QED BY <1>5, <1>6

\* Executing a transaction.
LEMMA IndexFrame ==
    ASSUME NEW s, IsStorage(s), NEW a
    PROVE  /\ Only(s, index_account(s, a), {"accounts_index"})
           /\ index_account(s, a).accounts_index
                = IF a \in Range(s.accounts_index) THEN s.accounts_index
                  ELSE Append(s.accounts_index, a)
BY DEF IsStorage, Only, Keys, index_account, push_value

LEMMA IndexNewFrame ==
    ASSUME NEW s, IsStorage(s), NEW a, NEW b
    PROVE  Only(s, index_new_accounts(s, a, b), {"accounts_index"})
<1>1. PICK t : t = index_account(s, a)
  OBVIOUS
<1>2. PICK u : u = index_account(t, b)
  OBVIOUS
<1>3. Only(s, t, {"accounts_index"}) /\ IsStorage(t)
  BY <1>1, IndexFrame DEF Only
<1>4. Only(t, u, {"accounts_index"})
  BY <1>2, <1>3, IndexFrame
<1>5. Only(s, u, {"accounts_index"} \cup {"accounts_index"})
  BY <1>3, <1>4, OnlyTrans
<1>6. {"accounts_index"} \cup {"accounts_index"} = {"accounts_index"}
  OBVIOUS
<1> QED BY <1>1, <1>2, <1>5, <1>6 DEF index_new_accounts

Credited(accounts, a, amount) == [accounts EXCEPT ![a].balance = @ + amount]

LEMMA CreditFrame ==
    ASSUME NEW s, IsStorage(s), NEW a, NEW amount
    PROVE  /\ Only(s, Credit(s, a, amount), {"accounts"})
           /\ Credit(s, a, amount).accounts = Credited(s.accounts, a, amount)
<1>1. PICK f : f = Credited(s.accounts, a, amount)
  OBVIOUS
<1>2. Credit(s, a, amount) = [s EXCEPT !.accounts = f]
  BY <1>1 DEF Credit, Credited
<1> QED BY <1>1, <1>2 DEF IsStorage, Only, Keys

\* The accounts after the gas was paid, and the value left.
Paid(s, tx) ==
    LET fee   == tx.gas_used * s.base_fee
        value == IF tx.outcome \in {"success", "withdraw"} THEN tx.value ELSE 0
    IN  [s.accounts EXCEPT ![tx.caller].nonce = @ + 1,
                           ![tx.caller].balance = @ - fee - value]

LEMMA RunFrame ==
    ASSUME NEW s, IsStorage(s), NEW tx
    PROVE  /\ Only(s, RunTransaction(s, tx), {"accounts"})
           /\ RunTransaction(s, tx).accounts
                = IF tx.outcome = "success" THEN Credited(Paid(s, tx), tx.to, tx.value)
                  ELSE Paid(s, tx)
<1> DEFINE fee   == tx.gas_used * s.base_fee
           value == IF tx.outcome \in {"success", "withdraw"} THEN tx.value ELSE 0
           paid  == [s EXCEPT !.accounts[tx.caller].nonce = @ + 1,
                              !.accounts[tx.caller].balance = @ - fee - value]
<1>1. RunTransaction(s, tx) = IF tx.outcome = "success" THEN Credit(paid, tx.to, value) ELSE paid
  BY DEF RunTransaction
<1>2. Only(s, paid, {"accounts"}) /\ paid.accounts = Paid(s, tx)
  <2>1. PICK f : f = Paid(s, tx)
    OBVIOUS
  <2>2. paid = [s EXCEPT !.accounts = f]
    <3>1. [s EXCEPT !.accounts[tx.caller].nonce = @ + 1].accounts
            = [s.accounts EXCEPT ![tx.caller].nonce = @ + 1]
      BY DEF IsStorage, Keys
    <3> HIDE DEF fee, value
    <3>2. f = [s.accounts EXCEPT ![tx.caller].nonce = @ + 1,
                                 ![tx.caller].balance = @ - fee - value]
      BY <2>1 DEF Paid, fee, value
    <3> QED BY <3>2 DEF IsStorage, Keys
  <2> HIDE DEF paid
  <2> QED BY <2>1, <2>2 DEF IsStorage, Only, Keys
<1>3. IsStorage(paid)
  BY <1>2 DEF Only
<1>4. tx.outcome = "success" => value = tx.value
  OBVIOUS
<1> HIDE DEF paid, value
<1>5. CASE tx.outcome = "success"
  <2>1. PICK t : t = Credit(paid, tx.to, value)
    OBVIOUS
  <2>2. Only(paid, t, {"accounts"}) /\ t.accounts = Credited(paid.accounts, tx.to, value)
    BY <1>3, <2>1, CreditFrame
  <2>3. Only(s, t, {"accounts"} \cup {"accounts"})
    BY <1>2, <2>2, OnlyTrans
  <2>4. {"accounts"} \cup {"accounts"} = {"accounts"}
    OBVIOUS
  <2> QED BY <1>1, <1>2, <1>4, <1>5, <2>1, <2>2, <2>3, <2>4
<1>6. CASE tx.outcome # "success"
  BY <1>1, <1>2, <1>6
<1> QED BY <1>5, <1>6

LEMMA AppliedRecord ==
    ASSUME NEW status, NEW s
    PROVE  /\ Applied(status, s).status = status /\ Applied(status, s).st = s
           /\ Applied(status, s).posted = <<>>
BY DEF Applied

LEMMA ApplyFrame ==
    ASSUME NEW s, IsStorage(s), NEW tx, NEW n
    PROVE  LET r == apply_transaction(s, tx, n)
           IN  /\ Only(s, r.st, {"accounts", "accounts_index"})
               /\ r.status # "Valid" => r.st = s /\ r.posted = <<>>
<1> DEFINE Good(r) == /\ Only(s, r.st, {"accounts", "accounts_index"})
                      /\ r.status # "Valid" => r.st = s /\ r.posted = <<>>
<1>0. {"accounts"} \cup {"accounts_index"} = {"accounts", "accounts_index"}
  OBVIOUS
<1>1. \A t, a, b : Only(s, t, {"accounts"})
         => Only(s, index_new_accounts(t, a, b), {"accounts", "accounts_index"})
  <2> SUFFICES ASSUME NEW t, NEW a, NEW b, Only(s, t, {"accounts"})
               PROVE  Only(s, index_new_accounts(t, a, b), {"accounts", "accounts_index"})
    OBVIOUS
  <2>1. IsStorage(t)
    BY DEF Only
  <2>2. Only(t, index_new_accounts(t, a, b), {"accounts_index"})
    BY <2>1, IndexNewFrame
  <2> QED BY <1>0, <2>2, OnlyTrans
<1>2. Good(apply_deposit(s, tx))
  <2>1. PICK t : t = Credit(s, tx.receiver, tx.amount)
    OBVIOUS
  <2>2. PICK u : u = index_new_accounts(t, ZeroAddress, tx.receiver)
    OBVIOUS
  <2>3. Only(s, u, {"accounts", "accounts_index"})
    BY <1>1, <2>1, <2>2, CreditFrame
  <2>4. apply_deposit(s, tx).st = u /\ apply_deposit(s, tx).status = "Valid"
    BY <2>1, <2>2 DEF apply_deposit, Applied
  <2> QED BY <2>3, <2>4
<1>3. ASSUME NEW h PROVE Good(ExecutionResult(s, h))
  <2>1. PICK t : t = RunTransaction(s, Tx[h])
    OBVIOUS
  <2>2. PICK u : u = index_new_accounts(t, Tx[h].caller, Tx[h].to)
    OBVIOUS
  <2>3. Only(s, u, {"accounts", "accounts_index"})
    BY <1>1, <2>1, <2>2, RunFrame
  <2>4. ExecutionResult(s, h).st = u /\ ExecutionResult(s, h).status = "Valid"
    BY <2>1, <2>2 DEF ExecutionResult, Applied
  <2> QED BY <2>3, <2>4
<1>4. \A status : Good(Applied(status, s))
  BY AppliedRecord, OnlyRefl
<1>5. \A h : Good(apply_ethereum_transaction(s, h, n))
  <2> HIDE DEF Good
  <2> QED BY <1>3, <1>4 DEF apply_ethereum_transaction
<1>6. Good(apply_transaction(s, tx, n))
  <2> HIDE DEF Good
  <2> QED BY <1>2, <1>5 DEF apply_transaction
<1> QED BY <1>6

\* The receipt and the object of a transaction.
Receipt(bip, r) ==
    [index |-> bip.index, block_number |-> bip.number,
     cumulative_gas |-> bip.cumulative_gas + r.gas, gas_used |-> r.gas, success |-> r.success]
Object(bip, r) ==
    [index |-> bip.index, block_number |-> bip.number, from |-> r.caller, to |-> r.to,
     gas_used |-> r.gas, value |-> r.value]
StoreTransaction(s, bip, tx, r) ==
    store_transaction_object(store_transaction_receipt(s, bip, tx, r), bip, tx, r)

\* A receipt and an object more.
Recording(s, t, h, receipt, object) ==
    /\ t.receipts = [k \in DOMAIN s.receipts \cup {h} |->
                       IF k # h THEN s.receipts[k] ELSE receipt]
    /\ t.objects = [k \in DOMAIN s.objects \cup {h} |-> IF k # h THEN s.objects[k] ELSE object]

LEMMA StoreTransactionFrame ==
    ASSUME NEW s, IsStorage(s), NEW bip, NEW tx, NEW r
    PROVE  LET t == StoreTransaction(s, bip, tx, r)
           IN  /\ Only(s, t, {"tx_index", "receipts", "objects"})
               /\ t.tx_index = Append(s.tx_index, tx.tx_hash)
               /\ Recording(s, t, tx.tx_hash, Receipt(bip, r), Object(bip, r))
<1>1. PICK u : u = store_transaction_receipt(s, bip, tx, r)
  OBVIOUS
<1>2. PICK t : t = store_transaction_object(u, bip, tx, r)
  OBVIOUS
<1>3. PICK f : f = [h \in DOMAIN s.receipts \cup {tx.tx_hash} |->
                       IF h # tx.tx_hash THEN s.receipts[h] ELSE Receipt(bip, r)]
  OBVIOUS
<1>4. u = [s EXCEPT !.tx_index = Append(@, tx.tx_hash), !.receipts = f]
  BY <1>1, <1>3 DEF store_transaction_receipt, push_value, Receipt, IsStorage, Keys
<1>5. /\ Only(s, u, {"tx_index", "receipts"}) /\ u.receipts = f
      /\ u.tx_index = Append(s.tx_index, tx.tx_hash)
  BY <1>4 DEF IsStorage, Only, Keys
<1>6. IsStorage(u) /\ u.objects = s.objects
  BY <1>5 DEF Only, Keys
<1>7. PICK g : g = [h \in DOMAIN s.objects \cup {tx.tx_hash} |->
                       IF h # tx.tx_hash THEN s.objects[h] ELSE Object(bip, r)]
  OBVIOUS
<1>8. t = [u EXCEPT !.objects = g]
  BY <1>2, <1>6, <1>7 DEF store_transaction_object, Object
<1>9. Only(u, t, {"objects"}) /\ t.objects = g
  BY <1>6, <1>8 DEF IsStorage, Only, Keys
<1>10. Only(s, t, {"tx_index", "receipts"} \cup {"objects"})
  BY <1>5, <1>9, OnlyTrans
<1>11. t.receipts = f /\ t.tx_index = Append(s.tx_index, tx.tx_hash)
  BY <1>5, <1>9 DEF Only, Keys
<1>12. {"tx_index", "receipts"} \cup {"objects"} = {"tx_index", "receipts", "objects"}
  OBVIOUS
<1>13. Recording(s, t, tx.tx_hash, Receipt(bip, r), Object(bip, r))
  BY <1>3, <1>7, <1>9, <1>11 DEF Recording
<1>14. t = StoreTransaction(s, bip, tx, r)
  BY <1>1, <1>2 DEF StoreTransaction
<1> QED BY <1>10, <1>11, <1>12, <1>13, <1>14

\* The end of a block.
Block(bip) == [number |-> bip.number, parent |-> bip.parent_hash, txs |-> bip.valid_txs,
               timestamp |-> bip.timestamp, gas |-> bip.cumulative_gas]

LEMMA FinalizeFrame ==
    ASSUME NEW s, IsStorage(s), NEW bip
    PROVE  LET t == finalize_and_store(s, bip)
           IN  /\ Only(s, t, {"blocks", "current"})
               /\ t.blocks = Append(s.blocks, Block(bip))
               /\ t.current = [number |-> bip.number, hash |-> BlockHash(Block(bip))]
BY DEF finalize_and_store, store_current_block, push_value, Block, IsStorage, Only, Keys

-----------------------------------------------------------------------------
(* The messages, the content and the blueprints stay well formed.          *)

LEMMA BaseKept ==
    ASSUME NEW s, BaseOK(s), NEW t, NEW C, Only(s, t, C),
           C \cap {"deposit_nonce", "last_blueprint", "timestamp", "stats"} = {}, Fewer(s, t)
    PROVE  BaseOK(t)
<1>1. /\ t.deposit_nonce = s.deposit_nonce /\ t.last_blueprint = s.last_blueprint
      /\ t.timestamp = s.timestamp /\ t.stats = s.stats /\ IsStorage(t)
  BY DEF Only, Keys
<1>2. BlueprintsOK(t.blueprints)
  BY DEF Fewer, BaseOK
<1> QED BY <1>1, <1>2 DEF BaseOK

LEMMA BaseUntouched ==
    ASSUME NEW s, BaseOK(s), NEW t, NEW C, Only(s, t, C),
           C \cap {"deposit_nonce", "last_blueprint", "timestamp", "stats", "blueprints"} = {}
    PROVE  BaseOK(t)
<1>1. t.blueprints = s.blueprints
  BY DEF Only, Keys
<1>2. Fewer(s, t)
  BY <1>1, FewerSame
<1> QED BY <1>2, BaseKept

LEMMA SeqBoth ==
    ASSUME NEW S, NEW T, NEW q \in Seq(S), NEW r \in Seq(T)
    PROVE  q \o r \in Seq(S \cup T)
<1>1. q \in Seq(S \cup T) /\ r \in Seq(S \cup T)
  OBVIOUS
<1> QED BY <1>1, ConcatProperties

LEMMA InboxTyped ==
    ASSUME NEW level \in Int, NEW msgs, InboxOK(msgs)
    PROVE  InboxOK(Inbox(level, msgs))
<1>1. PICK S : msgs \in Seq(S) /\ \A m \in S : WellTyped(m)
  BY DEF InboxOK
<1> DEFINE a == [kind |-> "internal", msg |-> "StartOfLevel"]
           b == [kind |-> "internal", msg |-> "InfoPerLevel", timestamp |-> level]
           c == [kind |-> "internal", msg |-> "EndOfLevel"]
<1>2. WellTyped(a) /\ WellTyped(b) /\ WellTyped(c)
  BY DEF WellTyped
<1>3. Inbox(level, msgs) = (<<a, b>> \o msgs) \o <<c>>
  BY DEF Inbox
<1> HIDE DEF a, b, c
<1>4. <<a, b>> \in Seq({a, b}) /\ <<c>> \in Seq({c})
  OBVIOUS
<1>5. Inbox(level, msgs) \in Seq(({a, b} \cup S) \cup {c})
  BY <1>1, <1>3, <1>4, SeqBoth
<1>6. \A m \in (({a, b} \cup S) \cup {c}) : WellTyped(m)
  BY <1>1, <1>2
<1> QED BY <1>5, <1>6 DEF InboxOK

LEMMA InboxHead ==
    ASSUME NEW q, InboxOK(q), q # <<>>
    PROVE  WellTyped(Head(q)) /\ InboxOK(Tail(q))
<1>1. PICK S : q \in Seq(S) /\ \A m \in S : WellTyped(m)
  BY DEF InboxOK
<1>2. Head(q) \in S /\ Tail(q) \in Seq(S)
  BY <1>1, HeadTailProperties
<1> QED BY <1>1, <1>2 DEF InboxOK

LEMMA InboxEmpty == InboxOK(<<>>)
<1>1. PICK q : q = <<>>
  OBVIOUS
<1>2. q \in Seq({})
  BY <1>1
<1>3. \A m \in {} : WellTyped(m)
  OBVIOUS
<1>4. InboxOK(q)
  BY <1>2, <1>3 DEF InboxOK
<1> QED BY <1>1, <1>4

LEMMA InitialBase ==
    ASSUME NEW q
    PROVE  /\ BaseOK(InitialStorage(q)) /\ InitialStorage(q).boot = None
           /\ InitialStorage(q).storage_version = None
<1>1. PICK s : s = InitialStorage(q)
  OBVIOUS
<1>2. IsStorage(s)
  BY <1>1 DEF InitialStorage, IsStorage, Keys
<1>3. /\ s.deposit_nonce = 0 /\ s.last_blueprint = -1 /\ s.timestamp = None /\ s.stats = None
      /\ s.blueprints = <<>> /\ s.boot = None /\ s.storage_version = None
  BY <1>1 DEF InitialStorage
<1>4. BlueprintsOK(s.blueprints)
  BY <1>3 DEF BlueprintsOK
<1> QED BY <1>1, <1>2, <1>3, <1>4 DEF BaseOK

LEMMA BaseInit == Init => BaseInv
<1> SUFFICES ASSUME Init PROVE BaseInv
  OBVIOUS
<1>1. PICK q \in InitialSequencers : evm = InitialStorage(q)
  BY DEF Init
<1>2. BaseOK(evm)
  BY <1>1, InitialBase
<1>3. run.pc = "idle"
  BY DEF Init, NoRun
<1>4. RunOK
  BY <1>3 DEF RunOK, InProduction
<1>5. RollupOK
  BY InboxEmpty DEF Init, RollupOK
<1> QED BY <1>2, <1>3, <1>4, <1>5 DEF BaseInv

LEMMA PromoteBase ==
    ASSUME NEW st, BaseOK(st), Promote(st)
    PROVE  BaseOK(evm') /\ run'.pc = "idle" /\ RunOK'
<1>1. PICK t : t = [st EXCEPT !.boot = None]
  OBVIOUS
<1>2. Only(st, t, {"boot"})
  BY <1>1, StartFrame DEF BaseOK
<1>3. BaseOK(t)
  BY <1>2, BaseUntouched
<1>4. evm' = t /\ run'.pc = "idle"
  BY <1>1 DEF Promote, NoRun
<1>5. BaseOK(evm')
  BY <1>3, <1>4
<1>6. RunOK'
  BY <1>4 DEF RunOK, InProduction
<1> QED BY <1>4, <1>5, <1>6

LEMMA FailBase ==
    ASSUME Fail
    PROVE  evm' = evm /\ run'.pc = "idle" /\ RunOK'
<1>1. evm' = evm /\ run'.pc = "idle"
  BY DEF Fail, NoRun
<1> QED BY <1>1 DEF RunOK, InProduction

LEMMA AfterRunBase ==
    ASSUME RollupOK, NEW b, AfterRun(b)
    PROVE  RollupOK'
<1> DEFINE left == IF rollup.level = MaxLevels THEN rollup.reboots ELSE rollup.reboots - 1
<1>1. rollup' = [rollup EXCEPT !.reboots = left, !.ready = b /\ left > 0]
  BY DEF AfterRun
<1> HIDE DEF left
<1>2. rollup' = [level |-> rollup.level, inbox |-> rollup.inbox, sent |-> rollup.sent,
                 reboots |-> left, ready |-> b /\ left > 0]
  BY <1>1 DEF RollupOK
<1>3. rollup'.level = rollup.level /\ rollup'.inbox = rollup.inbox
  BY <1>2
<1>4. rollup' = [level |-> rollup'.level, inbox |-> rollup'.inbox, sent |-> rollup'.sent,
                 reboots |-> rollup'.reboots, ready |-> rollup'.ready]
  BY <1>2
<1> QED BY <1>3, <1>4 DEF RollupOK

LEMMA BaseRunLevel ==
    ASSUME MessagesOK, BaseInv, run_level
    PROVE  BaseInv'
<1>1. evm' = evm /\ tmp' = tmp /\ run' = run /\ run.pc = "idle"
  BY DEF run_level
<1>2. PICK msgs \in Inboxes(rollup.sent) :
        rollup' = [level |-> rollup.level + 1, inbox |-> Inbox(rollup.level + 1, msgs),
                   sent |-> rollup.sent \cup Range(msgs), reboots |-> MaxReboots, ready |-> TRUE]
  BY DEF run_level
<1>3. PICK n \in Int : n = rollup.level + 1
  BY DEF BaseInv, RollupOK
<1>4. InboxOK(msgs)
  BY <1>2 DEF MessagesOK
<1>5. InboxOK(Inbox(n, msgs))
  BY <1>4, InboxTyped
<1>6. RollupOK'
  BY <1>2, <1>3, <1>5 DEF RollupOK
<1>7. RunOK'
  BY <1>1 DEF RunOK, InProduction, BaseInv
<1> QED BY <1>1, <1>6, <1>7 DEF BaseInv

LEMMA BaseMigrate ==
    ASSUME BaseInv, Migrate
    PROVE  BaseInv'
<1> DEFINE u == [Started EXCEPT !.storage_version = StorageVersion[boot]]
<1>0. IsStorage(evm) /\ BaseOK(evm) /\ RollupOK
  BY DEF BaseInv, BaseOK
<1>1. Only(evm, Started, {"chain_id", "storage_version"})
  BY <1>0, StartedFrame
<1>2. BaseOK(Started) /\ IsStorage(Started)
  BY <1>0, <1>1, BaseUntouched DEF BaseOK
<1>3. Only(Started, u, {"storage_version"})
  BY <1>2, StartFrame
<1> HIDE DEF u
<1>4. BaseOK(u) /\ IsStorage(u)
  BY <1>2, <1>3, BaseUntouched DEF BaseOK
<1>5. PICK v : v = set_kernel_version(u)
  OBVIOUS
<1>6. Only(u, v, {"kernel_version"})
  BY <1>4, <1>5, StartFrame
<1>7. BaseOK(v)
  BY <1>4, <1>6, BaseUntouched
<1>8. Promote(v) /\ AfterRun(TRUE)
  BY <1>5 DEF Migrate, u
<1>9. BaseOK(evm') /\ run'.pc = "idle" /\ RunOK'
  BY <1>7, <1>8, PromoteBase
<1>10. RollupOK'
  BY <1>0, <1>8, AfterRunBase
<1> QED BY <1>9, <1>10 DEF BaseInv

LEMMA BaseFallback ==
    ASSUME BaseInv, fallback_backup_kernel
    PROVE  BaseInv'
<1>1. evm' = evm /\ tmp' = tmp /\ run' = run /\ AfterRun(FALSE)
  BY DEF fallback_backup_kernel
<1>2. RollupOK'
  BY <1>1, AfterRunBase DEF BaseInv
<1>3. RunOK'
  BY <1>1 DEF RunOK, InProduction, BaseInv
<1> QED BY <1>1, <1>2, <1>3 DEF BaseInv

LEMMA NoContentOK == ContentOK(NoContent)
<1>1. PICK q : q = <<>>
  OBVIOUS
<1>2. q \in Seq({}) /\ q \in Seq(Transactions)
  BY <1>1
<1>3. PICK c : c = NoContent
  OBVIOUS
<1>4. c = [upgrade |-> None, transactions |-> q, blueprints |-> q]
  BY <1>1, <1>3 DEF NoContent
<1>5. \E S : q \in Seq(S) /\ \A b \in S : b.number \in Int
  BY <1>2
<1>6. /\ c = [upgrade |-> c.upgrade, transactions |-> c.transactions, blueprints |-> c.blueprints]
      /\ c.transactions = q /\ c.blueprints = q
  BY <1>4
<1> QED BY <1>2, <1>3, <1>5, <1>6 DEF ContentOK

LEMMA BaseLoop ==
    ASSUME BaseInv, kernel_loop
    PROVE  BaseInv'
<1>0. IsStorage(evm) /\ BaseOK(evm) /\ RollupOK
  BY DEF BaseInv, BaseOK
<1>1. PICK t : t = StartedFees
  OBVIOUS
<1>2. Only(evm, t, StartKeys)
  BY <1>0, <1>1, StartedFrame
<1>3. BaseOK(t)
  BY <1>0, <1>2, BaseUntouched DEF StartKeys
<1>4. /\ tmp' = t /\ evm' = evm /\ rollup' = rollup
      /\ run' = [pc |-> "inbox", config |-> fetch_configuration(t), content |-> NoContent,
                 empty |-> TRUE]
  BY <1>1 DEF kernel_loop, StartedFees
<1>5. RunOK'
  <2>1. /\ run'.pc = "inbox" /\ run'.content = NoContent
        /\ run' = [pc |-> run'.pc, config |-> run'.config, content |-> run'.content,
                   empty |-> run'.empty]
    BY <1>4
  <2> QED BY <2>1, NoContentOK DEF RunOK, InProduction
<1>6. RollupOK'
  BY <1>0, <1>4 DEF RollupOK
<1>7. BaseOK(tmp') /\ BaseOK(evm')
  BY <1>0, <1>3, <1>4
<1> QED BY <1>5, <1>6, <1>7 DEF BaseInv

BlueprintsGrow(c, d) ==
    \/ d.blueprints = c.blueprints
    \/ \E b : b.number \in Int /\ d.blueprints = Append(c.blueprints, b)

LEMMA InputContent ==
    ASSUME NEW s, s.deposit_nonce \in Nat, NEW c, ContentOK(c), NEW t, NEW d, IsContent(d),
           Collected(s, c, t, d), BlueprintsGrow(c, d)
    PROVE  ContentOK(d)
<1>1. c.transactions \in Seq(Transactions)
  BY DEF ContentOK
<1>2. d.transactions \in Seq(Transactions)
  <2>1. ASSUME NEW x \in Transactions, d.transactions = c.transactions \o <<x>>
        PROVE  d.transactions \in Seq(Transactions)
    <3>1. <<x>> \in Seq(Transactions)
      OBVIOUS
    <3> QED BY <1>1, <2>1, <3>1, ConcatProperties
  <2>2. EthereumTransactions \subseteq Transactions
    BY DEF EthereumTransactions, Transactions
  <2>3. ASSUME NEW a \in Int, NEW r \in Addresses
        PROVE  [tx_hash |-> s.deposit_nonce, content |-> "Deposit", amount |-> a,
                receiver |-> r] \in Transactions
    BY DEF Transactions
  <2> QED BY <1>1, <2>1, <2>2, <2>3 DEF Collected
<1>3. PICK S : c.blueprints \in Seq(S) /\ \A b \in S : b.number \in Int
  BY DEF ContentOK
<1>4. \E S2 : d.blueprints \in Seq(S2) /\ \A b \in S2 : b.number \in Int
  <2>1. CASE d.blueprints = c.blueprints
    BY <1>3, <2>1
  <2>2. CASE \E b : b.number \in Int /\ d.blueprints = Append(c.blueprints, b)
    <3>1. PICK b : b.number \in Int /\ d.blueprints = Append(c.blueprints, b)
      BY <2>2
    <3>2. PICK q : q = c.blueprints
      OBVIOUS
    <3>3. q \in Seq(S \cup {b})
      BY <1>3, <3>2
    <3>4. Append(q, b) \in Seq(S \cup {b})
      BY <3>3, AppendProperties
    <3>5. d.blueprints \in Seq(S \cup {b}) /\ \A x \in S \cup {b} : x.number \in Int
      BY <1>3, <3>1, <3>2, <3>4
    <3> QED BY <3>5
  <2> QED BY <2>1, <2>2 DEF BlueprintsGrow
<1> QED BY <1>2, <1>4 DEF ContentOK, IsContent

\* A step of ReadInput, on the storage and on the content.
InputStep ==
    LET r == read_input(tmp, run.content, Head(rollup.inbox), run.config)
    IN  /\ tmp' = r.st /\ run' = [run EXCEPT !.content = r.content, !.empty = FALSE]
        /\ Only(tmp, r.st, InputKeys)
        /\ BaseOK(r.st) /\ ContentOK(r.content)
        /\ Collected(tmp, run.content, r.st, r.content)
        /\ run' = [pc |-> "inbox", config |-> run.config, content |-> r.content, empty |-> FALSE]

LEMMA ReadInputStep ==
    ASSUME BaseInv, ReadInput
    PROVE  InputStep
<1>0. /\ BaseOK(tmp) /\ ContentOK(run.content) /\ run.pc = "inbox"
      /\ InboxOK(rollup.inbox) /\ rollup.inbox # <<>>
      /\ run = [pc |-> run.pc, config |-> run.config, content |-> run.content,
                empty |-> run.empty]
  BY DEF BaseInv, RunOK, RollupOK, ReadInput
<1>1. PICK r : r = read_input(tmp, run.content, Head(rollup.inbox), run.config)
  OBVIOUS
<1>2. WellTyped(Head(rollup.inbox))
  BY <1>0, InboxHead
<1>3. /\ Only(tmp, r.st, InputKeys)
      /\ r.st.timestamp \in Int \cup {None} /\ r.st.stats \in Stats \cup {None}
      /\ IsContent(r.content)
      /\ Collected(tmp, run.content, r.st, r.content)
      /\ BlueprintsGrow(run.content, r.content)
  BY <1>0, <1>1, <1>2, InputEffect DEF BlueprintsGrow
<1>4. tmp.deposit_nonce \in Nat
  BY <1>0 DEF BaseOK
<1>5. ContentOK(r.content)
  BY <1>0, <1>3, <1>4, InputContent
<1>6. r.st.last_blueprint = tmp.last_blueprint /\ r.st.blueprints = tmp.blueprints
      /\ IsStorage(r.st)
  BY <1>3 DEF Only, InputKeys, Keys
<1>7. r.st.deposit_nonce \in Nat
  BY <1>3, <1>4 DEF Collected
<1>8. BaseOK(r.st)
  BY <1>0, <1>3, <1>6, <1>7 DEF BaseOK
<1>9. tmp' = r.st /\ run' = [run EXCEPT !.content = r.content, !.empty = FALSE]
  BY <1>1 DEF ReadInput
<1>10. run' = [pc |-> "inbox", config |-> run.config, content |-> r.content, empty |-> FALSE]
  BY <1>0, <1>9
<1> QED BY <1>1, <1>3, <1>5, <1>8, <1>9, <1>10 DEF InputStep

LEMMA BaseReadInput ==
    ASSUME BaseInv, ReadInput
    PROVE  BaseInv'
<1>0. BaseOK(evm) /\ RollupOK
  BY DEF BaseInv
<1>1. InputStep
  BY ReadInputStep
<1>2. PICK r : r = read_input(tmp, run.content, Head(rollup.inbox), run.config)
  OBVIOUS
<1>3. /\ tmp' = r.st /\ BaseOK(r.st) /\ ContentOK(r.content)
      /\ run' = [pc |-> "inbox", config |-> run.config, content |-> r.content, empty |-> FALSE]
  BY <1>1, <1>2 DEF InputStep
<1>4. rollup' = [rollup EXCEPT !.inbox = Tail(@)] /\ evm' = evm /\ rollup.inbox # <<>>
  BY DEF ReadInput
<1>5. RunOK'
  <2>1. /\ run'.pc = "inbox" /\ run'.content = r.content /\ run'.empty = FALSE
        /\ run' = [pc |-> run'.pc, config |-> run'.config, content |-> run'.content,
                   empty |-> run'.empty]
    BY <1>3
  <2> QED BY <1>3, <2>1 DEF RunOK, InProduction
<1>6. RollupOK'
  <2>1. InboxOK(Tail(rollup.inbox))
    BY <1>0, <1>4, InboxHead DEF RollupOK
  <2>2. rollup' = [level |-> rollup.level, inbox |-> Tail(rollup.inbox), sent |-> rollup.sent,
                   reboots |-> rollup.reboots, ready |-> rollup.ready]
    BY <1>0, <1>4 DEF RollupOK
  <2>3. /\ rollup'.inbox = Tail(rollup.inbox) /\ rollup'.level = rollup.level
        /\ rollup' = [level |-> rollup'.level, inbox |-> rollup'.inbox, sent |-> rollup'.sent,
                      reboots |-> rollup'.reboots, ready |-> rollup'.ready]
    BY <2>2
  <2> QED BY <1>0, <2>1, <2>3 DEF RollupOK
<1>7. BaseOK(tmp') /\ BaseOK(evm')
  BY <1>0, <1>3, <1>4
<1> QED BY <1>5, <1>6, <1>7 DEF BaseInv

LEMMA BaseFetch ==
    ASSUME BaseInv, fetch
    PROVE  BaseInv'
<1>0. /\ BaseOK(evm) /\ RollupOK /\ BaseOK(tmp) /\ IsStorage(tmp) /\ ContentOK(run.content)
      /\ run.pc = "inbox"
  BY DEF BaseInv, RunOK, fetch, BaseOK
<1>1. /\ evm' = evm /\ rollup' = rollup /\ run' = [pc |-> "produce", config |-> run.config]
      /\ tmp' = IF run.empty THEN tmp
              ELSE IF run.config.sequencer = None
              THEN fetch_inbox_blueprints(tmp, run.content)
              ELSE fetch_sequencer_blueprints(tmp, run.content)
  BY DEF fetch
<1>2. BaseOK(fetch_sequencer_blueprints(tmp, run.content))
  <2>1. PICK t : t = fetch_sequencer_blueprints(tmp, run.content)
    OBVIOUS
  <2>2. Only(tmp, t, {"blueprints", "delayed", "upgrade"}) /\ Fewer(tmp, t)
    BY <1>0, <2>1, FetchSequencerFrame
  <2> QED BY <1>0, <2>1, <2>2, BaseKept
<1>3. BaseOK(fetch_inbox_blueprints(tmp, run.content))
  <2>1. PICK t : t = fetch_inbox_blueprints(tmp, run.content)
    OBVIOUS
  <2>2. /\ Only(tmp, t, {"last_blueprint", "blueprints", "upgrade"})
        /\ t.last_blueprint \in Int /\ BlueprintsOK(t.blueprints)
    BY <1>0, <2>1, FetchInboxFrame
  <2>3. /\ IsStorage(t) /\ t.deposit_nonce = tmp.deposit_nonce /\ t.timestamp = tmp.timestamp
        /\ t.stats = tmp.stats
    BY <2>2 DEF Only, Keys
  <2> QED BY <1>0, <2>1, <2>2, <2>3 DEF BaseOK
<1>4. BaseOK(tmp') /\ BaseOK(evm')
  BY <1>0, <1>1, <1>2, <1>3
<1>5. RunOK'
  BY <1>1 DEF RunOK, InProduction
<1>6. RollupOK'
  BY <1>0, <1>1 DEF RollupOK
<1> QED BY <1>4, <1>5, <1>6 DEF BaseInv

LEMMA BaseProduce ==
    ASSUME BaseInv, produce
    PROVE  BaseInv'
<1>0. BaseOK(evm) /\ RollupOK /\ BaseOK(tmp)
  BY DEF BaseInv, produce
<1>1. evm' = evm /\ rollup' = rollup /\ tmp' = tmp
  BY DEF produce
<1>2. run' = [pc |-> IF tmp.bip = None THEN "blueprints" ELSE "compute",
               bip |-> IF tmp.bip = None THEN None ELSE Decoded_bip(tmp.bip),
               resumed |-> tmp.bip # None,
               config |-> run.config, upgrade |-> tmp.upgrade,
               number |-> read_current_block_number(tmp) + 1,
               parent |-> IF tmp.current = None THEN FirstParent ELSE tmp.current.hash,
               ticks |-> 0, firstBlock |-> TRUE, firstTx |-> TRUE]
  BY DEF produce
<1>3. run'.pc \in {"blueprints", "compute"}
  BY <1>2
<1>4. run' = [pc |-> run'.pc, bip |-> run'.bip, resumed |-> run'.resumed,
              config |-> run'.config, upgrade |-> run'.upgrade, number |-> run'.number,
              parent |-> run'.parent, ticks |-> run'.ticks,
              firstBlock |-> run'.firstBlock, firstTx |-> run'.firstTx]
  BY <1>2
<1>5. RunOK'
  BY <1>3, <1>4 DEF RunOK, InProduction
<1>6. RollupOK'
  BY <1>0, <1>1 DEF RollupOK
<1> QED BY <1>0, <1>1, <1>5, <1>6 DEF BaseInv

ProductionRun(r) ==
    r = [pc |-> r.pc, bip |-> r.bip, resumed |-> r.resumed, config |-> r.config,
         upgrade |-> r.upgrade, number |-> r.number, parent |-> r.parent, ticks |-> r.ticks,
         firstBlock |-> r.firstBlock, firstTx |-> r.firstTx]

LEMMA ActivateFrame ==
    ASSUME NEW s, IsStorage(s), NEW u
    PROVE  Only(s, upgrade(s, u), {"boot", "upgrade"}) /\ upgrade(s, u).boot = u.kernel
BY DEF IsStorage, Only, Keys, upgrade

\* The outcomes of next_bip_from_blueprints, r being what was read.
NextBip(r) ==
    \/ /\ Fail /\ AfterRun(FALSE)
    \/ /\ Promote(r.st) /\ AfterRun(FALSE)
    \/ /\ run.upgrade # None
       /\ Promote(upgrade(r.st, run.upgrade)) /\ AfterRun(TRUE)
    \/ /\ r.blueprint # None
       /\ tmp' = r.st
       /\ run' = [run EXCEPT !.pc = "compute", !.firstTx = TRUE,
                    !.bip = from_blueprint(r.blueprint, run.number, run.parent, run.ticks)]
       /\ UNCHANGED <<evm, boot, backup, rollup, failed>>

LEMMA NextBipSteps ==
    ASSUME next_bip_from_blueprints
    PROVE  NextBip(read_next_blueprint(tmp, run.config)) /\ outbox' = outbox
BY DEF next_bip_from_blueprints, NextBip

LEMMA BaseNextBip ==
    ASSUME BaseInv, next_bip_from_blueprints
    PROVE  BaseInv'
<1>0. /\ BaseOK(evm) /\ RollupOK /\ BaseOK(tmp) /\ IsStorage(tmp) /\ run.pc = "blueprints"
      /\ ProductionRun(run)
  BY DEF BaseInv, RunOK, InProduction, ProductionRun, next_bip_from_blueprints, BaseOK
<1>1. PICK r : r = read_next_blueprint(tmp, run.config)
  OBVIOUS
<1>2. Only(tmp, r.st, {"blueprints", "delayed"}) /\ Fewer(tmp, r.st)
  BY <1>0, <1>1, ReadFrame
<1>3. BaseOK(r.st) /\ IsStorage(r.st)
  BY <1>0, <1>2, BaseKept DEF BaseOK
<1>4. NextBip(r)
  BY <1>1, NextBipSteps
<1>5. CASE Fail /\ AfterRun(FALSE)
  BY <1>0, <1>5, FailBase, AfterRunBase DEF BaseInv
<1>6. CASE Promote(r.st) /\ AfterRun(FALSE)
  BY <1>0, <1>3, <1>6, PromoteBase, AfterRunBase DEF BaseInv
<1>7. CASE Promote(upgrade(r.st, run.upgrade)) /\ AfterRun(TRUE)
  <2>1. PICK t : t = upgrade(r.st, run.upgrade)
    OBVIOUS
  <2>2. Only(r.st, t, {"boot", "upgrade"})
    BY <1>3, <2>1, ActivateFrame
  <2>3. BaseOK(t) /\ Promote(t)
    BY <1>3, <1>7, <2>1, <2>2, BaseUntouched
  <2> QED BY <1>0, <1>7, <2>3, PromoteBase, AfterRunBase DEF BaseInv
<1>8. CASE /\ tmp' = r.st /\ UNCHANGED <<evm, rollup>>
           /\ run' = [run EXCEPT !.pc = "compute", !.firstTx = TRUE,
                        !.bip = from_blueprint(r.blueprint, run.number, run.parent, run.ticks)]
  <2>1. run'.pc = "compute" /\ ProductionRun(run')
    BY <1>0, <1>8 DEF ProductionRun
  <2>2. RunOK'
    BY <2>1 DEF RunOK, InProduction, ProductionRun
  <2>3. RollupOK' /\ BaseOK(evm') /\ BaseOK(tmp')
    BY <1>0, <1>3, <1>8 DEF RollupOK
  <2> QED BY <2>2, <2>3 DEF BaseInv
<1> QED BY <1>4, <1>5, <1>6, <1>7, <1>8 DEF NextBip

\* The outcomes of compute: tx is the transaction, bip the block without it.
Compute(tx, bip, r) ==
    \/ /\ r.status = "Valid"
       /\ tmp' = StoreTransaction(r.st, bip, tx, r)
       /\ run' = [run EXCEPT !.bip = register_valid_transaction(bip, tx, r), !.firstTx = FALSE]
       /\ UNCHANGED <<evm, boot, backup, rollup, failed>>
    \/ /\ r.status = "Invalid"
       /\ run' = [run EXCEPT
            !.bip = [bip EXCEPT !.estimated_ticks = @ + ticks_of_invalid_transaction(tx)],
            !.firstTx = FALSE]
       /\ UNCHANGED <<evm, tmp, boot, backup, rollup, failed>>
    \/ /\ r.status = "OutOfTicks"
       /\ tmp' = r.st
       /\ run' = [run EXCEPT !.bip = bip, !.firstTx = FALSE]
       /\ UNCHANGED <<evm, boot, backup, rollup, failed>>
    \/ /\ r.status = "OutOfTicks"
       /\ Promote([r.st EXCEPT !.bip = run.bip])
       /\ AfterRun(TRUE)
    \/ /\ r.status = "Error"
       /\ Fail /\ AfterRun(FALSE)

QueueTail(bip) == [bip EXCEPT !.tx_queue = Tail(@)]
Applying(tx, bip) == apply_transaction(tmp, tx, estimate_remaining_ticks(bip.estimated_ticks, tx))

LEMMA ComputeSteps ==
    ASSUME compute
    PROVE  LET tx == Head(run.bip.tx_queue)
               bip == QueueTail(run.bip)
           IN  /\ Compute(tx, bip, Applying(tx, bip))
               /\ outbox' = outbox \o Applying(tx, bip).posted
               /\ run.bip.tx_queue # <<>>
BY DEF compute, Compute, QueueTail, Applying, StoreTransaction

LEMMA BaseCompute ==
    ASSUME BaseInv, compute
    PROVE  BaseInv'
<1>0. /\ BaseOK(evm) /\ RollupOK /\ BaseOK(tmp) /\ IsStorage(tmp) /\ run.pc = "compute"
      /\ ProductionRun(run)
  BY DEF BaseInv, RunOK, InProduction, ProductionRun, compute, BaseOK
<1>1. PICK tx : tx = Head(run.bip.tx_queue)
  OBVIOUS
<1>2. PICK bip : bip = QueueTail(run.bip)
  OBVIOUS
<1>3. PICK r : r = Applying(tx, bip)
  OBVIOUS
<1>4. Compute(tx, bip, r)
  BY <1>1, <1>2, <1>3, ComputeSteps
<1>5. Only(tmp, r.st, {"accounts", "accounts_index"})
  BY <1>0, <1>3, ApplyFrame DEF Applying
<1>6. BaseOK(r.st) /\ IsStorage(r.st)
  BY <1>0, <1>5, BaseUntouched DEF BaseOK
<1>7. ASSUME NEW b, run' = [run EXCEPT !.bip = b, !.firstTx = FALSE]
      PROVE  RunOK' /\ run'.pc = "compute"
  <2>1. run'.pc = "compute" /\ ProductionRun(run')
    BY <1>0, <1>7 DEF ProductionRun
  <2> QED BY <2>1 DEF RunOK, InProduction, ProductionRun
<1>8. ASSUME UNCHANGED <<evm, rollup>>
      PROVE  RollupOK' /\ BaseOK(evm')
  BY <1>0, <1>8 DEF RollupOK
<1>9. CASE /\ tmp' = StoreTransaction(r.st, bip, tx, r) /\ UNCHANGED <<evm, rollup>>
           /\ run' = [run EXCEPT !.bip = register_valid_transaction(bip, tx, r), !.firstTx = FALSE]
  <2>1. PICK t : t = StoreTransaction(r.st, bip, tx, r)
    OBVIOUS
  <2>2. Only(r.st, t, {"tx_index", "receipts", "objects"})
    BY <1>6, <2>1, StoreTransactionFrame
  <2>3. BaseOK(t)
    BY <1>6, <2>2, BaseUntouched
  <2> QED BY <1>7, <1>8, <1>9, <2>1, <2>3 DEF BaseInv
<1>10. CASE /\ UNCHANGED <<evm, tmp, rollup>>
            /\ run' = [run EXCEPT
                 !.bip = [bip EXCEPT !.estimated_ticks = @ + ticks_of_invalid_transaction(tx)],
                 !.firstTx = FALSE]
  BY <1>0, <1>7, <1>8, <1>10 DEF BaseInv
<1>11. CASE /\ tmp' = r.st /\ UNCHANGED <<evm, rollup>>
            /\ run' = [run EXCEPT !.bip = bip, !.firstTx = FALSE]
  BY <1>6, <1>7, <1>8, <1>11 DEF BaseInv
<1>12. CASE Promote([r.st EXCEPT !.bip = run.bip]) /\ AfterRun(TRUE)
  <2>1. PICK t : t = [r.st EXCEPT !.bip = run.bip]
    OBVIOUS
  <2>2. Only(r.st, t, {"bip"})
    BY <1>6, <2>1, StartFrame
  <2>3. BaseOK(t) /\ Promote(t)
    BY <1>6, <1>12, <2>1, <2>2, BaseUntouched
  <2> QED BY <1>0, <1>12, <2>3, PromoteBase, AfterRunBase DEF BaseInv
<1>13. CASE Fail /\ AfterRun(FALSE)
  BY <1>0, <1>13, FailBase, AfterRunBase DEF BaseInv
<1> QED BY <1>4, <1>9, <1>10, <1>11, <1>12, <1>13 DEF Compute

\* The storage after a block.
AfterBlock(s, bip) == drop_head_blueprint(finalize_and_store(s, bip))

LEMMA AfterBlockFrame ==
    ASSUME NEW s, IsStorage(s), NEW bip
    PROVE  LET t == AfterBlock(s, bip)
           IN  /\ Only(s, t, {"blocks", "current", "blueprints"})
               /\ t.blocks = Append(s.blocks, Block(bip))
               /\ t.current = [number |-> bip.number, hash |-> BlockHash(Block(bip))]
               /\ Fewer(s, t)
<1>1. PICK u : u = finalize_and_store(s, bip)
  OBVIOUS
<1>2. /\ Only(s, u, {"blocks", "current"})
      /\ u.blocks = Append(s.blocks, Block(bip))
      /\ u.current = [number |-> bip.number, hash |-> BlockHash(Block(bip))]
  BY <1>1, FinalizeFrame
<1>3. IsStorage(u) /\ u.blueprints = s.blueprints
  BY <1>2 DEF Only, Keys
<1>4. PICK n : n = read_current_block_number(u)
  OBVIOUS
<1>5. PICK t : t = DropBlueprint(u, n)
  OBVIOUS
<1>6. Only(u, t, {"blueprints"}) /\ Fewer(u, t)
  BY <1>3, <1>5, DropBlueprintFrame
<1>7. t.blocks = u.blocks /\ t.current = u.current
  BY <1>6 DEF Only, Keys
<1>8. Fewer(s, t)
  BY <1>3, <1>6, FewerSame, FewerTrans
<1>9. Only(s, t, {"blocks", "current"} \cup {"blueprints"})
  BY <1>2, <1>6, OnlyTrans
<1>10. {"blocks", "current"} \cup {"blueprints"} = {"blocks", "current", "blueprints"}
  OBVIOUS
<1>11. t = AfterBlock(s, bip)
  BY <1>1, <1>4, <1>5 DEF AfterBlock, drop_head_blueprint
<1> QED BY <1>2, <1>7, <1>8, <1>9, <1>10, <1>11

LEMMA BaseComputeBip ==
    ASSUME BaseInv, compute_bip
    PROVE  BaseInv'
<1>0. /\ BaseOK(evm) /\ RollupOK /\ BaseOK(tmp) /\ IsStorage(tmp) /\ run.pc = "compute"
      /\ ProductionRun(run)
  BY DEF BaseInv, RunOK, InProduction, ProductionRun, compute_bip, BaseOK
<1>1. PICK t : t = AfterBlock(tmp, run.bip)
  OBVIOUS
<1>2. /\ tmp' = IF run.resumed THEN [t EXCEPT !.bip = None] ELSE t
      /\ run' = [run EXCEPT !.pc = "blueprints", !.bip = None, !.resumed = FALSE,
                   !.firstBlock = FALSE, !.ticks = run.bip.estimated_ticks + FinalizeTicks,
                   !.number = t.current.number + 1, !.parent = t.current.hash]
      /\ UNCHANGED <<evm, rollup>>
  BY <1>1 DEF compute_bip, AfterBlock
<1>3. Only(tmp, t, {"blocks", "current", "blueprints"}) /\ Fewer(tmp, t)
  BY <1>0, <1>1, AfterBlockFrame
<1>4. BaseOK(t) /\ IsStorage(t)
  BY <1>0, <1>3, BaseKept DEF BaseOK
<1>5. PICK u : u = [t EXCEPT !.bip = None]
  OBVIOUS
<1>6. Only(t, u, {"bip"})
  BY <1>4, <1>5, StartFrame
<1>7. BaseOK(u)
  BY <1>4, <1>6, BaseUntouched
<1>8. BaseOK(tmp')
  BY <1>2, <1>4, <1>5, <1>7
<1>9. run'.pc = "blueprints" /\ ProductionRun(run')
  BY <1>0, <1>2 DEF ProductionRun
<1>10. RunOK'
  BY <1>9 DEF RunOK, InProduction, ProductionRun
<1>11. RollupOK' /\ BaseOK(evm')
  BY <1>0, <1>2 DEF RollupOK
<1> QED BY <1>8, <1>10, <1>11 DEF BaseInv

LEMMA BaseNext ==
    ASSUME MessagesOK, BaseInv, [Next]_vars
    PROVE  BaseInv'
<1>1. CASE Step
  BY <1>1, BaseRunLevel, BaseMigrate, BaseFallback, BaseLoop, BaseReadInput, BaseFetch,
     BaseProduce, BaseNextBip, BaseCompute, BaseComputeBip DEF Step
<1>2. CASE UNCHANGED vars
  <2>1. evm' = evm /\ tmp' = tmp /\ run' = run /\ rollup' = rollup
    BY <1>2 DEF vars
  <2>2. RunOK' /\ RollupOK'
    BY <2>1 DEF BaseInv, RunOK, InProduction, RollupOK
  <2> QED BY <2>1, <2>2 DEF BaseInv
<1> QED BY <1>1, <1>2 DEF Next, Finished

-----------------------------------------------------------------------------
(* The kernel and the format of the storage.                               *)

\* Every upgrade a run may activate is to a kernel that uses the format of the
\* storage of the kernel that runs, or the next one.
UpgradesStepwise ==
    run.pc = "blueprints" /\ run.upgrade # None =>
        /\ run.upgrade.kernel \in DOMAIN StorageVersion
        /\ StorageVersion[run.upgrade.kernel] \in {StorageVersion[boot], StorageVersion[boot] + 1}

KernelInv ==
    /\ boot \in DOMAIN StorageVersion /\ backup \in DOMAIN StorageVersion \cup {None}
    /\ evm.boot = None
    /\ KernelMatchesStorage
    /\ run.pc # "idle" => tmp.boot = None /\ tmp.storage_version = StorageVersion[boot]

LEMMA PromoteKernel ==
    ASSUME boot \in DOMAIN StorageVersion, NEW st, IsStorage(st), Promote(st),
           st.storage_version = StorageVersion[boot],
           \/ st.boot = None
           \/ /\ st.boot \in DOMAIN StorageVersion
              /\ StorageVersion[st.boot] \in {StorageVersion[boot], StorageVersion[boot] + 1}
    PROVE  KernelInv'
<1>1. PICK t : t = [st EXCEPT !.boot = None]
  OBVIOUS
<1>2. Only(st, t, {"boot"}) /\ t.boot = None
  BY <1>1, StartFrame
<1>3. t.storage_version = st.storage_version
  BY <1>2 DEF Only, Keys
<1>4. /\ evm' = t /\ run'.pc = "idle"
      /\ IF st.boot # None THEN boot' = st.boot /\ backup' = boot
                           ELSE boot' = boot /\ backup' = None
  BY <1>1 DEF Promote, NoRun
<1>5. evm'.boot = None /\ evm'.storage_version = StorageVersion[boot]
  BY <1>2, <1>3, <1>4
<1>6. CASE st.boot = None
  BY <1>4, <1>5, <1>6 DEF KernelInv, KernelMatchesStorage
<1>7. CASE st.boot # None
  <2>1. boot' = st.boot /\ backup' = boot /\ st.boot \in DOMAIN StorageVersion
    BY <1>4, <1>7
  <2>2. backup' # None /\ StorageVersion[backup'] = evm'.storage_version
    BY <1>5, <2>1, KernelAssumption
  <2>3. StorageVersion[boot'] \in {evm'.storage_version, evm'.storage_version + 1}
    BY <1>5, <1>7, <2>1
  <2> QED BY <1>4, <1>5, <2>1, <2>2, <2>3 DEF KernelInv, KernelMatchesStorage
<1> QED BY <1>6, <1>7

LEMMA KernelInit == Init => KernelInv
<1> SUFFICES ASSUME Init PROVE KernelInv
  OBVIOUS
<1>1. PICK q \in InitialSequencers : evm = InitialStorage(q)
  BY DEF Init
<1>2. evm.boot = None /\ evm.storage_version = None
  BY <1>1, InitialBase
<1>3. run.pc = "idle" /\ boot \in DOMAIN StorageVersion /\ backup = None
  BY KernelAssumption DEF Init, NoRun
<1> QED BY <1>2, <1>3 DEF KernelInv, KernelMatchesStorage

\* When a run starts, the storage is in the format of the kernel, or the
\* kernel that was kept reads it.
LEMMA KernelStarted ==
    ASSUME BaseInv, KernelInv
    PROVE  /\ ~MustMigrate => Started.storage_version = StorageVersion[boot]
           /\ MustMigrate => /\ backup # None
                             /\ StorageVersion[backup] = evm.storage_version
           /\ Started.boot = None /\ IsStorage(Started)
<1>1. IsStorage(evm)
  BY DEF BaseInv, BaseOK
<1>2. /\ Only(evm, Started, {"chain_id", "storage_version"})
      /\ Started.storage_version = IF evm.storage_version = None THEN StorageVersion[boot]
                                   ELSE evm.storage_version
  BY <1>1, StartedFrame
<1>3. Started.boot = None /\ IsStorage(Started)
  BY <1>2 DEF Only, Keys, KernelInv
<1>4. StorageVersion[boot] \in Nat
  BY KernelAssumption DEF KernelInv
<1> QED BY <1>2, <1>3, <1>4 DEF MustMigrate, KernelInv, KernelMatchesStorage

LEMMA KernelMigrate ==
    ASSUME BaseInv, KernelInv, Migrate
    PROVE  KernelInv'
<1> DEFINE u == [Started EXCEPT !.storage_version = StorageVersion[boot]]
<1>1. Started.boot = None /\ IsStorage(Started)
  BY KernelStarted
<1>2. Only(Started, u, {"storage_version"}) /\ u.storage_version = StorageVersion[boot]
  BY <1>1, StartFrame
<1>3. IsStorage(u) /\ u.boot = None
  BY <1>1, <1>2 DEF Only, Keys
<1>4. PICK v : v = set_kernel_version(u)
  OBVIOUS
<1>5. Promote(v)
  BY <1>4 DEF Migrate
<1> HIDE DEF u
<1>6. Only(u, v, {"kernel_version"})
  BY <1>3, <1>4, StartFrame
<1>7. IsStorage(v) /\ v.boot = None /\ v.storage_version = StorageVersion[boot]
  BY <1>2, <1>3, <1>6 DEF Only, Keys
<1> QED BY <1>5, <1>7, PromoteKernel DEF KernelInv

LEMMA KernelFallback ==
    ASSUME BaseInv, KernelInv, fallback_backup_kernel
    PROVE  KernelInv'
<1>1. /\ evm' = evm /\ boot' = backup /\ backup' = None /\ run' = run /\ run.pc = "idle"
      /\ MustMigrate
  BY DEF fallback_backup_kernel
<1>2. backup # None /\ StorageVersion[backup] = evm.storage_version
  BY <1>1, KernelStarted
<1>3. backup \in DOMAIN StorageVersion
  BY <1>2 DEF KernelInv
<1> QED BY <1>1, <1>2, <1>3 DEF KernelInv, KernelMatchesStorage

LEMMA KernelKept ==
    ASSUME KernelInv, run.pc # "idle", NEW t, tmp' = t, NEW C, Only(tmp, t, C),
           C \cap {"boot", "storage_version"} = {}, UNCHANGED <<evm, boot, backup>>
    PROVE  KernelInv'
<1>1. t.boot = tmp.boot /\ t.storage_version = tmp.storage_version
  BY DEF Only, Keys
<1>2. KernelMatchesStorage'
  BY DEF KernelInv, KernelMatchesStorage
<1> QED BY <1>1, <1>2 DEF KernelInv

LEMMA KernelFail ==
    ASSUME KernelInv, Fail
    PROVE  KernelInv'
<1>1. evm' = evm /\ boot' = boot /\ backup' = backup /\ run'.pc = "idle"
  BY DEF Fail, NoRun
<1> QED BY <1>1 DEF KernelInv, KernelMatchesStorage

LEMMA KernelIdle ==
    ASSUME KernelInv, UNCHANGED <<evm, tmp, boot, backup, run>>
    PROVE  KernelInv'
BY DEF KernelInv, KernelMatchesStorage

LEMMA KernelLoop ==
    ASSUME BaseInv, KernelInv, kernel_loop
    PROVE  KernelInv'
<1>1. PICK t : t = StartedFees
  OBVIOUS
<1>2. IsStorage(evm)
  BY DEF BaseInv, BaseOK
<1>3. Only(evm, t, StartKeys) /\ t.storage_version = Started.storage_version
  BY <1>1, <1>2, StartedFrame
<1>4. t.boot = None
  BY <1>3 DEF Only, Keys, StartKeys, KernelInv
<1>5. /\ tmp' = t /\ UNCHANGED <<evm, boot, backup>> /\ ~MustMigrate
  BY <1>1 DEF kernel_loop, StartedFees
<1>6. t.storage_version = StorageVersion[boot]
  BY <1>3, <1>5, KernelStarted
<1> QED BY <1>4, <1>5, <1>6 DEF KernelInv, KernelMatchesStorage

LEMMA KernelFetch ==
    ASSUME BaseInv, KernelInv, fetch
    PROVE  KernelInv'
<1>0. /\ BaseOK(tmp) /\ IsStorage(tmp) /\ ContentOK(run.content) /\ run.pc = "inbox"
  BY DEF BaseInv, RunOK, fetch, BaseOK
<1>1. /\ UNCHANGED <<evm, boot, backup>>
      /\ tmp' = IF run.empty THEN tmp
              ELSE IF run.config.sequencer = None
              THEN fetch_inbox_blueprints(tmp, run.content)
              ELSE fetch_sequencer_blueprints(tmp, run.content)
  BY DEF fetch
<1>2. PICK t : t = tmp'
  OBVIOUS
<1>3. Only(tmp, t, FetchKeys)
  <2>1. Only(tmp, fetch_sequencer_blueprints(tmp, run.content), {"blueprints", "delayed", "upgrade"})
    BY <1>0, FetchSequencerFrame
  <2>2. Only(tmp, fetch_inbox_blueprints(tmp, run.content), {"last_blueprint", "blueprints", "upgrade"})
    BY <1>0, FetchInboxFrame
  <2>3. Only(tmp, tmp, {})
    BY <1>0, OnlyRefl
  <2>4. \A C \in SUBSET FetchKeys : \A u : Only(tmp, u, C) => Only(tmp, u, FetchKeys)
    BY DEF Only
  <2>5. {} \subseteq FetchKeys /\ {"blueprints", "delayed", "upgrade"} \subseteq FetchKeys
        /\ {"last_blueprint", "blueprints", "upgrade"} \subseteq FetchKeys
    BY DEF FetchKeys
  <2> QED BY <1>1, <1>2, <2>1, <2>2, <2>3, <2>4, <2>5
<1> QED BY <1>0, <1>1, <1>2, <1>3, KernelKept DEF FetchKeys

LEMMA KernelNextBip ==
    ASSUME BaseInv, KernelInv, UpgradesStepwise, next_bip_from_blueprints
    PROVE  KernelInv'
<1>0. IsStorage(tmp) /\ run.pc = "blueprints"
  BY DEF BaseInv, next_bip_from_blueprints, BaseOK
<1>1. PICK r : r = read_next_blueprint(tmp, run.config)
  OBVIOUS
<1>2. Only(tmp, r.st, {"blueprints", "delayed"})
  BY <1>0, <1>1, ReadFrame
<1>3. IsStorage(r.st) /\ r.st.boot = None /\ r.st.storage_version = StorageVersion[boot]
  BY <1>0, <1>2 DEF Only, Keys, KernelInv
<1>4. NextBip(r)
  BY <1>1, NextBipSteps
<1>5. CASE Fail
  BY <1>5, KernelFail
<1>6. CASE Promote(r.st)
  BY <1>3, <1>6, PromoteKernel DEF KernelInv
<1>7. CASE run.upgrade # None /\ Promote(upgrade(r.st, run.upgrade))
  <2>1. PICK t : t = upgrade(r.st, run.upgrade)
    OBVIOUS
  <2>2. Only(r.st, t, {"boot", "upgrade"}) /\ t.boot = run.upgrade.kernel
    BY <1>3, <2>1, ActivateFrame
  <2>3. t.storage_version = StorageVersion[boot] /\ IsStorage(t)
    BY <1>3, <2>2 DEF Only, Keys
  <2>4. /\ t.boot \in DOMAIN StorageVersion
        /\ StorageVersion[t.boot] \in {StorageVersion[boot], StorageVersion[boot] + 1}
    BY <1>0, <1>7, <2>2 DEF UpgradesStepwise
  <2> QED BY <1>7, <2>1, <2>3, <2>4, PromoteKernel DEF KernelInv
<1>8. CASE tmp' = r.st /\ UNCHANGED <<evm, boot, backup>>
  BY <1>0, <1>2, <1>8, KernelKept
<1> QED BY <1>4, <1>5, <1>6, <1>7, <1>8 DEF NextBip

LEMMA KernelCompute ==
    ASSUME BaseInv, KernelInv, compute
    PROVE  KernelInv'
<1>0. IsStorage(tmp) /\ run.pc = "compute"
  BY DEF BaseInv, compute, BaseOK
<1>1. PICK tx : tx = Head(run.bip.tx_queue)
  OBVIOUS
<1>2. PICK bip : bip = QueueTail(run.bip)
  OBVIOUS
<1>3. PICK r : r = Applying(tx, bip)
  OBVIOUS
<1>4. Compute(tx, bip, r)
  BY <1>1, <1>2, <1>3, ComputeSteps
<1>5. Only(tmp, r.st, {"accounts", "accounts_index"})
  BY <1>0, <1>3, ApplyFrame DEF Applying
<1>6. IsStorage(r.st) /\ r.st.boot = None /\ r.st.storage_version = StorageVersion[boot]
  BY <1>0, <1>5 DEF Only, Keys, KernelInv
<1>7. CASE tmp' = StoreTransaction(r.st, bip, tx, r) /\ UNCHANGED <<evm, boot, backup>>
  <2>1. PICK t : t = StoreTransaction(r.st, bip, tx, r)
    OBVIOUS
  <2>2. Only(r.st, t, {"tx_index", "receipts", "objects"})
    BY <1>6, <2>1, StoreTransactionFrame
  <2>3. Only(tmp, t, {"accounts", "accounts_index"} \cup {"tx_index", "receipts", "objects"})
    BY <1>5, <2>2, OnlyTrans
  <2> QED BY <1>0, <1>7, <2>1, <2>3, KernelKept
<1>8. CASE UNCHANGED <<evm, tmp, boot, backup>>
  <2>1. Only(tmp, tmp, {})
    BY <1>0, OnlyRefl
  <2> QED BY <1>0, <1>8, <2>1, KernelKept
<1>9. CASE tmp' = r.st /\ UNCHANGED <<evm, boot, backup>>
  BY <1>0, <1>5, <1>9, KernelKept
<1>10. CASE Promote([r.st EXCEPT !.bip = run.bip])
  <2>1. PICK t : t = [r.st EXCEPT !.bip = run.bip]
    OBVIOUS
  <2>2. Only(r.st, t, {"bip"})
    BY <1>6, <2>1, StartFrame
  <2>3. IsStorage(t) /\ t.boot = None /\ t.storage_version = StorageVersion[boot]
    BY <1>6, <2>2 DEF Only, Keys
  <2> QED BY <1>10, <2>1, <2>3, PromoteKernel DEF KernelInv
<1>11. CASE Fail
  BY <1>11, KernelFail
<1> QED BY <1>4, <1>7, <1>8, <1>9, <1>10, <1>11 DEF Compute

LEMMA KernelComputeBip ==
    ASSUME BaseInv, KernelInv, compute_bip
    PROVE  KernelInv'
<1>0. IsStorage(tmp) /\ run.pc = "compute"
  BY DEF BaseInv, compute_bip, BaseOK
<1>1. PICK t : t = AfterBlock(tmp, run.bip)
  OBVIOUS
<1>2. /\ tmp' = IF run.resumed THEN [t EXCEPT !.bip = None] ELSE t
      /\ UNCHANGED <<evm, boot, backup>>
  BY <1>1 DEF compute_bip, AfterBlock
<1>3. Only(tmp, t, {"blocks", "current", "blueprints"}) /\ IsStorage(t)
  BY <1>0, <1>1, AfterBlockFrame DEF Only
<1>5. PICK u : u = [t EXCEPT !.bip = None]
  OBVIOUS
<1>6. Only(t, u, {"bip"})
  BY <1>3, <1>5, StartFrame
<1>7. Only(tmp, u, {"blocks", "current", "blueprints"} \cup {"bip"})
  BY <1>3, <1>6, OnlyTrans
<1>8. CASE run.resumed
  BY <1>0, <1>2, <1>5, <1>7, <1>8, KernelKept
<1>9. CASE ~run.resumed
  BY <1>0, <1>2, <1>3, <1>9, KernelKept
<1> QED BY <1>8, <1>9

LEMMA KernelNext ==
    ASSUME BaseInv, KernelInv, UpgradesStepwise, [Next]_vars
    PROVE  KernelInv'
<1>1. CASE run_level
  BY <1>1, KernelIdle DEF run_level
<1>2. CASE ReadInput
  <2>1. InputStep
    BY <1>2, ReadInputStep
  <2>2. PICK t : t = tmp'
    OBVIOUS
  <2>3. Only(tmp, t, InputKeys)
    BY <2>1, <2>2 DEF InputStep
  <2>4. run.pc # "idle" /\ UNCHANGED <<evm, boot, backup>>
    BY <1>2 DEF ReadInput
  <2> QED BY <2>2, <2>3, <2>4, KernelKept DEF InputKeys
<1>3. CASE produce
  <2>1. run.pc # "idle" /\ UNCHANGED <<evm, tmp, boot, backup>>
    BY <1>3 DEF produce
  <2>2. Only(tmp, tmp, {})
    BY <2>1, OnlyRefl DEF BaseInv, BaseOK
  <2> QED BY <2>1, <2>2, KernelKept
<1>4. CASE UNCHANGED vars
  BY <1>4, KernelIdle DEF vars
<1> QED BY <1>1, <1>2, <1>3, <1>4, KernelMigrate, KernelFallback, KernelLoop, KernelFetch,
        KernelNextBip, KernelCompute, KernelComputeBip DEF Next, Step, Finished

\* Whatever fails on the way, the kernel that runs next reads the storage it
\* finds, or can put the kernel back that does, as long as upgrades advance
\* the format of the storage by one version at most.
THEOREM KernelReadsStorage ==
    ASSUME MessagesOK
    PROVE  Spec /\ []UpgradesStepwise => []KernelMatchesStorage
<1>1. Init => BaseInv /\ KernelInv
  BY BaseInit, KernelInit
<1>2. BaseInv /\ KernelInv /\ UpgradesStepwise /\ [Next]_vars => (BaseInv /\ KernelInv)'
  BY BaseNext, KernelNext
<1>3. KernelInv => KernelMatchesStorage
  BY DEF KernelInv
<1> QED BY <1>1, <1>2, <1>3, PTL DEF Spec

-----------------------------------------------------------------------------
(* The chain: steps that leave it alone.                                   *)

ChainKeys == {"accounts", "base_fee", "current", "blocks", "tx_index", "accounts_index",
              "receipts", "objects"}

SameChain(s, t) ==
    /\ t.accounts = s.accounts /\ t.base_fee = s.base_fee /\ t.current = s.current
    /\ t.blocks = s.blocks /\ t.tx_index = s.tx_index /\ t.accounts_index = s.accounts_index
    /\ t.receipts = s.receipts /\ t.objects = s.objects

LEMMA OnlyChain ==
    ASSUME NEW s, NEW t, NEW C, Only(s, t, C), C \cap ChainKeys = {}
    PROVE  SameChain(s, t)
BY DEF Only, SameChain, ChainKeys, Keys

LEMMA ChainSame ==
    ASSUME NEW s, NEW t, NEW b, Chain(s, b), SameChain(s, t), t.bip \in Bips \cup {None}
    PROVE  Chain(t, b)
<1>1. StorageOK(t)
  BY DEF Chain, StorageOK, SameChain
<1>2. Links(t, b)
  BY DEF Chain, Links, ParentOf, SameChain
<1>3. Executed(t) = Executed(s)
  BY DEF Executed, SameChain
<1>4. Indexed(t, b)
  BY <1>3 DEF Chain, Indexed, SameChain
<1>5. \A number, txs, gas : Recorded(t, number, txs, gas) = Recorded(s, number, txs, gas)
  BY DEF Recorded, SameChain
<1>6. Receipted(t, b)
  BY <1>5 DEF Chain, Receipted, SameChain
<1>7. NoncesGrow(t)
  BY DEF Chain, NoncesGrow, SameChain
<1>8. Effect(t) = Effect(s)
  BY DEF Effect, SameChain
<1>9. Balanced(t)
  BY <1>8 DEF Chain, Balanced, SameChain
<1> QED BY <1>1, <1>2, <1>4, <1>6, <1>7, <1>9 DEF Chain

\* The fees are written once, before the first receipt.
LEMMA ChainFees ==
    ASSUME NEW s, NEW b, Chain(s, b), IsStorage(s)
    PROVE  Chain([s EXCEPT !.base_fee = BaseFee], b)
<1>1. PICK t : t = [s EXCEPT !.base_fee = BaseFee]
  OBVIOUS
<1>2. Only(s, t, {"base_fee"}) /\ t.base_fee = BaseFee
  BY <1>1 DEF IsStorage, Only, Keys
<1>3. /\ t.accounts = s.accounts /\ t.current = s.current /\ t.bip = s.bip
      /\ t.blocks = s.blocks /\ t.tx_index = s.tx_index /\ t.accounts_index = s.accounts_index
      /\ t.receipts = s.receipts /\ t.objects = s.objects
  BY <1>2 DEF Only, Keys
<1>4. StorageOK(t)
  BY <1>2, <1>3 DEF Chain, StorageOK
<1>5. Links(t, b)
  BY <1>3 DEF Chain, Links, ParentOf
<1>6. Executed(t) = Executed(s)
  BY <1>3 DEF Executed
<1>7. Indexed(t, b)
  BY <1>3, <1>6 DEF Chain, Indexed
<1>8. \A number, txs, gas : Recorded(t, number, txs, gas) = Recorded(s, number, txs, gas)
  BY <1>3 DEF Recorded
<1>9. Receipted(t, b)
  BY <1>3, <1>8 DEF Chain, Receipted
<1>10. NoncesGrow(t)
  BY <1>3 DEF Chain, NoncesGrow
<1>11. Effect(t) = Effect(s)
  <2>1. CASE DOMAIN s.receipts = {}
    BY <1>3, <2>1 DEF Effect
  <2>2. CASE DOMAIN s.receipts # {}
    <3>1. t.base_fee = s.base_fee
      BY <1>2, <2>2 DEF Chain, Balanced
    <3> QED BY <1>3, <3>1 DEF Effect
  <2> QED BY <2>1, <2>2
<1>12. Balanced(t)
  BY <1>2, <1>3, <1>11 DEF Chain, Balanced
<1> QED BY <1>1, <1>4, <1>5, <1>7, <1>9, <1>10, <1>12 DEF Chain

\* The block in progress, but for its queue, its ticks and its timestamp.
SameBlock(b, c) ==
    /\ c.number = b.number /\ c.parent_hash = b.parent_hash /\ c.index = b.index
    /\ c.valid_txs = b.valid_txs /\ c.cumulative_gas = b.cumulative_gas

LEMMA ChainBip ==
    ASSUME NEW s, NEW b \in Bips, NEW c \in Bips, Chain(s, b), SameBlock(b, c)
    PROVE  Chain(s, c)
<1>1. b # None /\ c # None
  BY NoneAssumption
<1>2. ValidTxs(c) = ValidTxs(b)
  BY <1>1 DEF ValidTxs, SameBlock
<1>3. Links(s, c)
  BY <1>1 DEF Chain, Links, SameBlock
<1>4. Indexed(s, c)
  BY <1>2 DEF Chain, Indexed
<1>5. Receipted(s, c)
  BY <1>1 DEF Chain, Receipted, SameBlock
<1> QED BY <1>3, <1>4, <1>5 DEF Chain

\* A new block.
LEMMA ChainNewBip ==
    ASSUME NEW s, Chain(s, None), NEW c \in Bips, c.number = Len(s.blocks),
           c.parent_hash = ParentOf(s, Len(s.blocks)), c.index = 0, c.valid_txs = <<>>,
           c.cumulative_gas = 0
    PROVE  Chain(s, c)
<1>1. c # None
  BY NoneAssumption
<1>2. ValidTxs(c) = ValidTxs(None)
  BY <1>1 DEF ValidTxs
<1>3. Links(s, c)
  <2>1. Len(c.valid_txs) = 0
    OBVIOUS
  <2> QED BY <2>1 DEF Chain, Links
<1>4. Indexed(s, c)
  BY <1>2 DEF Chain, Indexed
<1>5. Recorded(s, c.number, c.valid_txs, c.cumulative_gas)
  <2>1. DOMAIN c.valid_txs = {}
    OBVIOUS
  <2> QED BY <2>1 DEF Recorded
<1>6. Receipted(s, c)
  BY <1>5 DEF Chain, Receipted
<1> QED BY <1>3, <1>4, <1>6 DEF Chain

-----------------------------------------------------------------------------
(* Deposits: where they wait.                                              *)

\* Fewer deposits wait, in the same places.
LEMMA TrackedLess ==
    ASSUME NEW N, NEW R, NEW Q, NEW C, NEW D, NEW F, Tracked(N, R, Q, C, D, F),
           NEW Q2 \in SUBSET Q, NEW C2 \in SUBSET C, NEW D2 \in SUBSET D,
           NEW F2, DOMAIN F2 \subseteq DOMAIN F, \A k \in DOMAIN F2 : F2[k] \subseteq F[k]
    PROVE  Tracked(N, R, Q2, C2, D2, F2)
<1>1. \A k \in DOMAIN F2 : \A n \in F2[k] : k \in DOMAIN F /\ n \in F[k]
  OBVIOUS
<1>2. \A k, l \in DOMAIN F2 : k # l => F2[k] \cap F2[l] = {}
  BY <1>1 DEF Tracked
<1>3. Q2 \cap C2 = {} /\ Q2 \cap D2 = {} /\ C2 \cap D2 = {}
  BY DEF Tracked
<1> QED BY <1>1, <1>2, <1>3 DEF Tracked

\* A deposit is read from the inbox.
LEMMA TrackedNew ==
    ASSUME NEW N \in Nat, NEW R, NEW Q, NEW C, NEW D, NEW F, Tracked(N, R, Q, C, D, F)
    PROVE  N \notin C /\ Tracked(N + 1, R, Q, C \cup {N}, D, F)
<1>1. N \notin R
  BY TxAssumption DEF Tracked
<1>2. N \notin Q /\ N \notin C /\ N \notin D /\ \A k \in DOMAIN F : N \notin F[k]
  BY DEF Tracked
<1>3. Q \cap (C \cup {N}) = {} /\ (C \cup {N}) \cap D = {}
  BY <1>2 DEF Tracked
<1>4. \A n \in Nat : n < N => n < N + 1
  OBVIOUS
<1>5. N < N + 1
  OBVIOUS
<1> QED BY <1>1, <1>2, <1>3, <1>4, <1>5 DEF Tracked

\* The content becomes a blueprint.
LEMMA TrackedBlueprint ==
    ASSUME NEW N, NEW R, NEW Q, NEW C, NEW D, NEW F, Tracked(N, R, Q, C, D, F),
           NEW n, NEW F2, DOMAIN F2 \subseteq DOMAIN F \cup {n}, n \in DOMAIN F2 => F2[n] = C,
           \A k \in DOMAIN F2 : k # n => F2[k] = F[k]
    PROVE  Tracked(N, R, Q, {}, D, F2)
<1>1. \A k, l \in DOMAIN F2 : k # l => F2[k] \cap F2[l] = {}
  BY DEF Tracked
<1>2. \A k \in DOMAIN F2 : \A i \in F2[k] :
        i \in Nat /\ i < N /\ i \notin R /\ i \notin Q /\ i \notin D
  BY DEF Tracked
<1> QED BY <1>1, <1>2 DEF Tracked

\* The content is saved in the delayed inbox.
LEMMA TrackedSaved ==
    ASSUME NEW N, NEW R, NEW Q, NEW C, NEW D, NEW F, Tracked(N, R, Q, C, D, F),
           NEW D2, \A h \in D2 : h \in D \/ h \in C,
           NEW F2, DOMAIN F2 \subseteq DOMAIN F, \A k \in DOMAIN F2 : F2[k] \subseteq F[k]
    PROVE  Tracked(N, R, Q, {}, D2, F2)
<1>1. \A k \in DOMAIN F2 : \A n \in F2[k] : k \in DOMAIN F /\ n \in F[k]
  OBVIOUS
<1>2. \A k, l \in DOMAIN F2 : k # l => F2[k] \cap F2[l] = {}
  BY <1>1 DEF Tracked
<1>3. Q \cap D2 = {}
  BY DEF Tracked
<1>4. \A n \in D2 : n \in Nat /\ n < N /\ n \notin R
  BY DEF Tracked
<1> QED BY <1>1, <1>2, <1>3, <1>4 DEF Tracked

\* A blueprint becomes the queue of a block.
LEMMA TrackedBlock ==
    ASSUME NEW N, NEW R, NEW C, NEW D, NEW F, Tracked(N, R, {}, C, D, F),
           NEW n \in DOMAIN F, NEW D2 \in SUBSET D, NEW F2, DOMAIN F2 \subseteq DOMAIN F \ {n},
           \A k \in DOMAIN F2 : F2[k] \subseteq F[k]
    PROVE  Tracked(N, R, F[n], C, D2, F2)
<1>1. \A k \in DOMAIN F2 : \A i \in F2[k] : k \in DOMAIN F /\ i \in F[k] /\ i \notin F[n]
  BY DEF Tracked
<1>2. \A k, l \in DOMAIN F2 : k # l => F2[k] \cap F2[l] = {}
  BY <1>1 DEF Tracked
<1>3. F[n] \cap C = {} /\ F[n] \cap D2 = {} /\ C \cap D2 = {}
  BY DEF Tracked
<1> QED BY <1>1, <1>2, <1>3 DEF Tracked

\* So does what a blueprint takes from the delayed inbox.
LEMMA TrackedTaken ==
    ASSUME NEW N, NEW R, NEW C, NEW D, NEW F, Tracked(N, R, {}, C, D, F),
           NEW Q2 \in SUBSET D, NEW D2 \in SUBSET D, \A h \in Q2 : h \notin D2,
           NEW F2, DOMAIN F2 \subseteq DOMAIN F, \A k \in DOMAIN F2 : F2[k] \subseteq F[k]
    PROVE  Tracked(N, R, Q2, C, D2, F2)
<1>1. \A k \in DOMAIN F2 : \A i \in F2[k] : k \in DOMAIN F /\ i \in F[k]
  OBVIOUS
<1>2. \A k, l \in DOMAIN F2 : k # l => F2[k] \cap F2[l] = {}
  BY <1>1 DEF Tracked
<1>3. Q2 \cap C = {} /\ Q2 \cap D2 = {} /\ C \cap D2 = {}
  BY DEF Tracked
<1> QED BY <1>1, <1>2, <1>3 DEF Tracked

\* A transaction of the queue is executed.
LEMMA TrackedReceipt ==
    ASSUME NEW N, NEW R, NEW Q, NEW C, NEW D, NEW F, Tracked(N, R, Q, C, D, F),
           NEW Q2 \in SUBSET Q, NEW h, h \in DOMAIN Tx \/ (h \in Q /\ h \notin Q2)
    PROVE  Tracked(N, R \cup {h}, Q2, C, D, F)
<1>1. h \in DOMAIN Tx => h \notin Nat
  BY TxAssumption
<1>2. /\ \A n \in Q2 \cup C \cup D : n \in Nat /\ n < N /\ n \notin R \cup {h}
      /\ \A k \in DOMAIN F : \A n \in F[k] : n \notin R \cup {h} /\ n \notin Q2
  BY <1>1 DEF Tracked
<1>3. \A n \in (R \cup {h}) \ DOMAIN Tx : n \in Nat /\ n < N
  BY DEF Tracked
<1>4. Q2 \cap C = {} /\ Q2 \cap D = {}
  BY DEF Tracked
<1> QED BY <1>2, <1>3, <1>4 DEF Tracked

LEMMA LastBlockInt ==
    ASSUME NEW s, NEW b, Chain(s, b)
    PROVE  LastBlock(s, b) \in Int /\ Len(s.blocks) \in Nat
<1>1. Len(s.blocks) \in Nat
  BY LenProperties DEF Chain, StorageOK
<1> QED BY <1>1 DEF LastBlock

\* The blueprints that wait are fewer.
AwaitedLess(s, b, t, b2) ==
    /\ AwaitedInbox(t, b2) \subseteq AwaitedInbox(s, b)
    /\ \A k \in AwaitedInbox(t, b2) : TxsOf(t, k) = TxsOf(s, k)

LEMMA AwaitedFewer ==
    ASSUME NEW s, NEW t, Fewer(s, t), NEW b, NEW b2, LastBlock(t, b2) \in Int,
           LastBlock(s, b) \in Int, LastBlock(t, b2) >= LastBlock(s, b),
           DOMAIN t.blueprints \subseteq Int
    PROVE  AwaitedLess(s, b, t, b2)
<1>1. ASSUME NEW k \in AwaitedInbox(t, b2)
      PROVE  k \in AwaitedInbox(s, b) /\ TxsOf(t, k) = TxsOf(s, k)
  <2>1. k \in DOMAIN t.blueprints /\ FromInbox(t, k) /\ k > LastBlock(t, b2) /\ k \in Int
    BY <1>1 DEF AwaitedInbox
  <2>2. FromInbox(s, k) /\ t.blueprints[k].chunks[0] = s.blueprints[k].chunks[0]
    BY <2>1 DEF Fewer
  <2>3. k > LastBlock(s, b)
    BY <2>1
  <2>4. k \in DOMAIN s.blueprints
    BY <2>2 DEF FromInbox
  <2> QED BY <2>2, <2>3, <2>4 DEF AwaitedInbox, TxsOf
<1> QED BY <1>1 DEF AwaitedLess

LEMMA AwaitedSame ==
    ASSUME NEW s, NEW t, t.blueprints = s.blueprints, t.blocks = s.blocks, NEW b
    PROVE  AwaitedLess(s, b, t, b) /\ InBlueprints(t, b) = InBlueprints(s, b)
BY DEF AwaitedLess, AwaitedInbox, FromInbox, LastBlock, TxsOf, InBlueprints

LEMMA InFewer ==
    ASSUME NEW s, NEW b, NEW t, NEW b2, AwaitedLess(s, b, t, b2)
    PROVE  /\ DOMAIN InBlueprints(t, b2) \subseteq DOMAIN InBlueprints(s, b)
           /\ \A k \in DOMAIN InBlueprints(t, b2) : InBlueprints(t, b2)[k] = InBlueprints(s, b)[k]
           /\ DOMAIN InBlueprints(t, b2) = AwaitedInbox(t, b2)
           /\ DOMAIN InBlueprints(s, b) = AwaitedInbox(s, b)
BY DEF AwaitedLess, InBlueprints

\* A step that takes no deposit anywhere.
LEMMA DepositedLess ==
    ASSUME NEW s, NEW b, NEW c, Deposited(s, b, c), NEW t, NEW b2, NEW c2,
           DOMAIN t.receipts = DOMAIN s.receipts, t.deposit_nonce = s.deposit_nonce,
           AwaitedLess(s, b, t, b2), DelayedLess(s.delayed, t.delayed),
           IsQueue(Queue(b2)), DepositsIn(Queue(b2)) \subseteq DepositsIn(Queue(b)),
           IsQueue(c2), DepositsIn(c2) \subseteq DepositsIn(c)
    PROVE  Deposited(t, b2, c2)
<1>1. DelayedOK(t.delayed) /\ DelayedDeposits(t.delayed) \subseteq DelayedDeposits(s.delayed)
  BY DelayedLessOK DEF Deposited
<1>2. \A k \in AwaitedInbox(t, b2) : IsQueue(TxsOf(t, k))
  BY DEF Deposited, AwaitedLess
<1>3. PICK F, F2 : F = InBlueprints(s, b) /\ F2 = InBlueprints(t, b2)
  OBVIOUS
<1>4. DOMAIN F2 \subseteq DOMAIN F /\ \A k \in DOMAIN F2 : F2[k] \subseteq F[k]
  BY <1>3, InFewer
<1>5. PICK D, D2 : D = DelayedDeposits(s.delayed) /\ D2 = DelayedDeposits(t.delayed)
  OBVIOUS
<1>6. PICK Q, Q2 : Q = DepositsIn(Queue(b)) /\ Q2 = DepositsIn(Queue(b2))
  OBVIOUS
<1>7. PICK C, C2 : C = DepositsIn(c) /\ C2 = DepositsIn(c2)
  OBVIOUS
<1>8. Tracked(s.deposit_nonce, DOMAIN s.receipts, Q, C, D, F)
  BY <1>3, <1>5, <1>6, <1>7 DEF Deposited
<1>9. Tracked(s.deposit_nonce, DOMAIN s.receipts, Q2, C2, D2, F2)
  BY <1>1, <1>4, <1>5, <1>6, <1>7, <1>8, TrackedLess
<1> QED BY <1>1, <1>2, <1>3, <1>5, <1>6, <1>7, <1>9 DEF Deposited

\* One message of the inbox.
LEMMA DepositedInput ==
    ASSUME NEW s, NEW b, NEW c, Deposited(s, b, c.transactions), s.deposit_nonce \in Nat,
           NEW t, NEW d, Only(s, t, InputKeys), Collected(s, c, t, d)
    PROVE  Deposited(t, b, d.transactions)
<1>1. /\ t.blueprints = s.blueprints /\ t.blocks = s.blocks /\ t.delayed = s.delayed
      /\ t.receipts = s.receipts
  BY DEF Only, InputKeys, Keys
<1>2. AwaitedLess(s, b, t, b) /\ InBlueprints(t, b) = InBlueprints(s, b)
  BY <1>1, AwaitedSame
<1>3. PICK q : q = c.transactions
  OBVIOUS
<1>4. q \in Seq(Transactions) /\ Once(q) /\ IsQueue(Queue(b)) /\ DelayedOK(s.delayed)
      /\ \A k \in AwaitedInbox(t, b) : IsQueue(TxsOf(t, k))
  BY <1>2, <1>3 DEF Deposited, IsQueue, AwaitedLess
<1>5. PICK N, R, Q, D, F : /\ N = s.deposit_nonce /\ R = DOMAIN s.receipts
                           /\ Q = DepositsIn(Queue(b)) /\ D = DelayedDeposits(s.delayed)
                           /\ F = InBlueprints(s, b)
  OBVIOUS
<1>6. Tracked(N, R, Q, DepositsIn(q), D, F)
  BY <1>3, <1>5 DEF Deposited
<1>7. ASSUME NEW r, r = d.transactions, IsQueue(r), Tracked(t.deposit_nonce, R, Q, DepositsIn(r), D, F)
      PROVE  Deposited(t, b, d.transactions)
  BY <1>1, <1>2, <1>4, <1>5, <1>7 DEF Deposited
<1>8. CASE t.deposit_nonce = s.deposit_nonce /\ d.transactions = c.transactions
  BY <1>3, <1>4, <1>5, <1>6, <1>7, <1>8 DEF IsQueue
<1>9. ASSUME t.deposit_nonce = s.deposit_nonce, NEW x \in EthereumTransactions,
             d.transactions = c.transactions \o <<x>>
      PROVE  Deposited(t, b, d.transactions)
  <2>1. x.content = "Ethereum" /\ x \in Transactions
    BY DEF EthereumTransactions, EthereumTransaction, Transactions
  <2>2. PICK r : r = q \o <<x>>
    OBVIOUS
  <2>3. DepositsIn(r) = DepositsIn(q) /\ Once(r)
    BY <1>4, <2>1, <2>2, DepositsAppend
  <2>4. r \in Seq(Transactions)
    BY <1>4, <2>1, <2>2
  <2> QED BY <1>3, <1>5, <1>6, <1>7, <1>9, <2>2, <2>3, <2>4 DEF IsQueue
<1>10. ASSUME t.deposit_nonce = s.deposit_nonce + 1, NEW a \in Int, NEW p \in Addresses,
              d.transactions = c.transactions \o
                <<[tx_hash |-> s.deposit_nonce, content |-> "Deposit", amount |-> a,
                   receiver |-> p]>>
       PROVE  Deposited(t, b, d.transactions)
  <2>1. PICK x : x = [tx_hash |-> N, content |-> "Deposit", amount |-> a, receiver |-> p]
    OBVIOUS
  <2>2. x.content = "Deposit" /\ x.tx_hash = N /\ x \in Transactions
    BY <1>5, <2>1 DEF Transactions
  <2>3. PICK r : r = q \o <<x>>
    OBVIOUS
  <2>4. N \notin DepositsIn(q) /\ Tracked(N + 1, R, Q, DepositsIn(q) \cup {N}, D, F)
    BY <1>5, <1>6, TrackedNew
  <2>5. DepositsIn(r) = DepositsIn(q) \cup {N} /\ Once(r)
    BY <1>4, <2>2, <2>3, <2>4, DepositsAppend
  <2>6. r \in Seq(Transactions)
    BY <1>4, <2>2, <2>3
  <2>7. d.transactions = r /\ t.deposit_nonce = N + 1
    BY <1>3, <1>5, <1>10, <2>1, <2>3
  <2>8. IsQueue(r) /\ Tracked(t.deposit_nonce, R, Q, DepositsIn(r), D, F)
    BY <2>4, <2>5, <2>6, <2>7 DEF IsQueue
  <2> QED BY <1>7, <2>7, <2>8
<1> QED BY <1>8, <1>9, <1>10 DEF Collected

\* The content becomes a blueprint of the inbox.
LEMMA DepositedFetched ==
    ASSUME NEW s, BaseOK(s), NEW b, NEW c, ContentOK(c), Deposited(s, b, c.transactions)
    PROVE  Deposited(fetch_inbox_blueprints(s, c), b, <<>>)
<1>1. PICK t : t = fetch_inbox_blueprints(s, c)
  OBVIOUS
<1>2. PICK n : n = s.last_blueprint + 1
  OBVIOUS
<1>3. /\ Only(s, t, {"last_blueprint", "blueprints", "upgrade"})
      /\ DOMAIN t.blueprints = DOMAIN s.blueprints \cup {n}
      /\ \A k \in DOMAIN s.blueprints : k # n => t.blueprints[k] = s.blueprints[k]
      /\ TxsOf(t, n) = c.transactions
  BY <1>1, <1>2, FetchInboxFrame
<1>4. /\ t.blocks = s.blocks /\ t.delayed = s.delayed /\ t.receipts = s.receipts
      /\ t.deposit_nonce = s.deposit_nonce
  BY <1>3 DEF Only, Keys
<1>5. ASSUME NEW k \in AwaitedInbox(t, b), k # n
      PROVE  k \in AwaitedInbox(s, b) /\ TxsOf(t, k) = TxsOf(s, k)
  <2>1. k \in DOMAIN s.blueprints /\ t.blueprints[k] = s.blueprints[k]
    BY <1>3, <1>5 DEF AwaitedInbox
  <2>2. LastBlock(t, b) = LastBlock(s, b)
    BY <1>4 DEF LastBlock
  <2> QED BY <1>5, <2>1, <2>2 DEF AwaitedInbox, FromInbox, TxsOf
<1>6. PICK F, F2 : F = InBlueprints(s, b) /\ F2 = InBlueprints(t, b)
  OBVIOUS
<1>7. /\ DOMAIN F2 \subseteq DOMAIN F \cup {n}
      /\ n \in DOMAIN F2 => F2[n] = DepositsIn(c.transactions)
      /\ \A k \in DOMAIN F2 : k # n => F2[k] = F[k]
  BY <1>3, <1>5, <1>6 DEF InBlueprints
<1>8. PICK N, R, Q, C, D : /\ N = s.deposit_nonce /\ R = DOMAIN s.receipts
                           /\ Q = DepositsIn(Queue(b)) /\ D = DelayedDeposits(s.delayed)
                           /\ C = DepositsIn(c.transactions)
  OBVIOUS
<1>9. Tracked(N, R, Q, C, D, F)
  BY <1>6, <1>8 DEF Deposited
<1>10. Tracked(N, R, Q, {}, D, F2)
  BY <1>7, <1>8, <1>9, TrackedBlueprint
<1>11. \A k \in AwaitedInbox(t, b) : IsQueue(TxsOf(t, k))
  BY <1>3, <1>5 DEF Deposited
<1>12. Deposited(t, b, <<>>)
  BY <1>4, <1>6, <1>8, <1>10, <1>11, NoDeposits DEF Deposited
<1> QED BY <1>1, <1>12

\* The content is saved in the delayed inbox, and blueprints are stored.
LEMMA DepositedSaved ==
    ASSUME NEW s, BaseOK(s), NEW b, Chain(s, b), NEW c, ContentOK(c),
           Deposited(s, b, c.transactions)
    PROVE  Deposited(fetch_sequencer_blueprints(s, c), b, <<>>)
<1>1. PICK t : t = fetch_sequencer_blueprints(s, c)
  OBVIOUS
<1>2. IsStorage(s)
  BY DEF BaseOK
<1>3. /\ Only(s, t, {"blueprints", "delayed", "upgrade"}) /\ Fewer(s, t)
      /\ Saves(s, t, c.transactions)
  BY <1>1, <1>2, FetchSequencerFrame
<1>4. t.blocks = s.blocks /\ t.receipts = s.receipts /\ t.deposit_nonce = s.deposit_nonce
  BY <1>3 DEF Only, Keys
<1>5. AwaitedLess(s, b, t, b)
  <2>1. DOMAIN t.blueprints \subseteq Int
    BY <1>3 DEF BaseOK, Fewer, BlueprintsOK
  <2>2. LastBlock(s, b) \in Int /\ LastBlock(t, b) = LastBlock(s, b)
    BY <1>4, LastBlockInt DEF LastBlock
  <2>3. LastBlock(t, b) >= LastBlock(s, b)
    BY <2>2
  <2> QED BY <1>3, <2>1, <2>2, <2>3, AwaitedFewer
<1>6. PICK F, F2 : F = InBlueprints(s, b) /\ F2 = InBlueprints(t, b)
  OBVIOUS
<1>7. DOMAIN F2 \subseteq DOMAIN F /\ \A k \in DOMAIN F2 : F2[k] \subseteq F[k]
  BY <1>5, <1>6, InFewer
<1>8. PICK N, R, Q, C, D, D2 : /\ N = s.deposit_nonce /\ R = DOMAIN s.receipts
                               /\ Q = DepositsIn(Queue(b)) /\ D = DelayedDeposits(s.delayed)
                               /\ C = DepositsIn(c.transactions)
                               /\ D2 = DelayedDeposits(t.delayed)
  OBVIOUS
<1>9. Tracked(N, R, Q, C, D, F)
  BY <1>6, <1>8 DEF Deposited
<1>10. DelayedOK(t.delayed) /\ \A h \in D2 : h \in D \/ h \in C
  BY <1>3, <1>8 DEF Saves, Deposited
<1>11. Tracked(N, R, Q, {}, D2, F2)
  BY <1>7, <1>9, <1>10, TrackedSaved
<1>12. \A k \in AwaitedInbox(t, b) : IsQueue(TxsOf(t, k))
  BY <1>5 DEF Deposited, AwaitedLess
<1>13. Deposited(t, b, <<>>)
  BY <1>4, <1>6, <1>8, <1>10, <1>11, <1>12, NoDeposits DEF Deposited
<1> QED BY <1>1, <1>13

\* The number and the parent of the next block.
LEMMA NextNumber ==
    ASSUME NEW s, NEW b, Chain(s, b)
    PROVE  /\ read_current_block_number(s) = Len(s.blocks) - 1
           /\ (IF s.current = None THEN FirstParent ELSE s.current.hash) = ParentOf(s, Len(s.blocks))
<1>1. Len(s.blocks) \in Nat
  BY LastBlockInt
<1>2. s.current = IF Len(s.blocks) = 0 THEN None
                  ELSE [number |-> Len(s.blocks) - 1, hash |-> ParentOf(s, Len(s.blocks))]
  BY DEF Chain, Links
<1>3. s.current \in Heads \cup {None} /\ None \notin Heads
  BY NoneAssumption DEF Chain, StorageOK
<1>4. CASE Len(s.blocks) = 0
  BY <1>2, <1>4 DEF read_current_block_number, ParentOf
<1>5. CASE Len(s.blocks) # 0
  <2>1. s.current.number = Len(s.blocks) - 1 /\ s.current.hash = ParentOf(s, Len(s.blocks))
    BY <1>2, <1>5
  <2>2. s.current # None
    <3>1. s.blocks \in Seq(BlockSet) /\ Len(s.blocks) \in 1 .. Len(s.blocks)
      BY <1>1, <1>5 DEF Chain, StorageOK
    <3>2. s.blocks[Len(s.blocks)] \in BlockSet
      BY <3>1, ElementOfSeq
    <3>3. BlockHash(s.blocks[Len(s.blocks)]) \in BlockHashes
      BY <3>2 DEF BlockSet, BlockHash, BlockHashes
    <3>4. ParentOf(s, Len(s.blocks)) \in BlockHashes
      BY <1>5, <3>3 DEF ParentOf
    <3>5. s.current \in Heads
      BY <1>1, <1>2, <1>5, <3>4 DEF Heads
    <3> QED BY <1>3, <3>5
  <2> QED BY <2>1, <2>2 DEF read_current_block_number
<1> QED BY <1>4, <1>5

\* A blueprint becomes a block.
LEMMA DepositedBlock ==
    ASSUME NEW s, BaseOK(s), Chain(s, None), Deposited(s, None, <<>>), NEW config,
           read_next_blueprint(s, config).blueprint # None, NEW b2 \in Bips,
           b2.tx_queue = read_next_blueprint(s, config).blueprint.transactions
    PROVE  Deposited(read_next_blueprint(s, config).st, b2, <<>>)
<1>1. PICK t, p, n, m : /\ t = read_next_blueprint(s, config).st
                        /\ p = read_next_blueprint(s, config).blueprint
                        /\ n = read_next_blueprint_number(s) /\ m = Len(s.blocks)
  OBVIOUS
<1>2. m \in Nat /\ n = m
  BY <1>1, NextNumber, LastBlockInt DEF read_next_blueprint_number
<1>3. IsStorage(s) /\ DelayedOK(s.delayed)
  BY DEF BaseOK, Deposited
<1>4. /\ Only(s, t, {"blueprints", "delayed"}) /\ Fewer(s, t) /\ DelayedLess(s.delayed, t.delayed)
  BY <1>1, <1>3, ReadFrame
<1>5. t.blocks = s.blocks /\ t.receipts = s.receipts /\ t.deposit_nonce = s.deposit_nonce
  BY <1>4 DEF Only, Keys
<1>6. b2 # None /\ Queue(b2) = p.transactions
  BY <1>1, NoneAssumption DEF Queue
<1>7. LastBlock(s, None) = m - 1 /\ LastBlock(t, b2) = m
  BY <1>1, <1>5, <1>6 DEF LastBlock
<1>8. AwaitedLess(s, None, t, b2)
  <2>1. DOMAIN t.blueprints \subseteq Int
    BY <1>4 DEF BaseOK, Fewer, BlueprintsOK
  <2>2. LastBlock(t, b2) \in Int /\ LastBlock(s, None) \in Int /\ LastBlock(t, b2) >= LastBlock(s, None)
    BY <1>2, <1>7
  <2> QED BY <1>4, <2>1, <2>2, AwaitedFewer
<1>9. PICK F, F2 : F = InBlueprints(s, None) /\ F2 = InBlueprints(t, b2)
  OBVIOUS
<1>10. /\ DOMAIN F2 \subseteq DOMAIN F /\ \A k \in DOMAIN F2 : F2[k] \subseteq F[k]
       /\ DOMAIN F2 = AwaitedInbox(t, b2) /\ DOMAIN F = AwaitedInbox(s, None)
  BY <1>8, <1>9, InFewer
<1>11. PICK N, R, D, D2 : /\ N = s.deposit_nonce /\ R = DOMAIN s.receipts
                          /\ D = DelayedDeposits(s.delayed) /\ D2 = DelayedDeposits(t.delayed)
  OBVIOUS
<1>12. Tracked(N, R, {}, {}, D, F)
  BY <1>9, <1>11, NoDeposits DEF Deposited, Queue
<1>13. DelayedOK(t.delayed) /\ D2 \subseteq D
  BY <1>3, <1>4, <1>11, DelayedLessOK
<1>14. \A k \in AwaitedInbox(t, b2) : IsQueue(TxsOf(t, k))
  BY <1>8 DEF Deposited, AwaitedLess
<1>15. IsQueue(p.transactions) /\ Tracked(N, R, DepositsIn(p.transactions), {}, D2, F2)
  <2>1. CASE FromInbox(s, n) /\ p = s.blueprints[n].chunks[0].chunk
    <3>1. n \in DOMAIN s.blueprints /\ n > m - 1
      BY <1>2, <2>1 DEF FromInbox
    <3>2. n \in AwaitedInbox(s, None) /\ p.transactions = TxsOf(s, n)
      BY <1>7, <2>1, <3>1 DEF AwaitedInbox, TxsOf
    <3>3. n \notin AwaitedInbox(t, b2)
      BY <1>2, <1>7 DEF AwaitedInbox
    <3>4. F[n] = DepositsIn(p.transactions) /\ n \in DOMAIN F
      BY <1>9, <3>2 DEF InBlueprints
    <3>5. DOMAIN F2 \subseteq DOMAIN F \ {n}
      BY <1>10, <3>3
    <3>6. Tracked(N, R, F[n], {}, D2, F2)
      BY <1>10, <1>12, <1>13, <3>4, <3>5, TrackedBlock
    <3>7. IsQueue(p.transactions)
      BY <3>2 DEF Deposited
    <3> QED BY <3>4, <3>6, <3>7
  <2>2. CASE /\ IsQueue(p.transactions)
             /\ DepositsIn(p.transactions) \subseteq DelayedDeposits(s.delayed)
             /\ \A h \in DepositsIn(p.transactions) : h \notin DelayedDeposits(t.delayed)
    <3>1. PICK Q2 : Q2 = DepositsIn(p.transactions)
      OBVIOUS
    <3>2. Q2 \subseteq D /\ \A h \in Q2 : h \notin D2
      BY <1>11, <2>2, <3>1
    <3>3. Tracked(N, R, Q2, {}, D2, F2)
      BY <1>10, <1>12, <1>13, <3>2, TrackedTaken
    <3> QED BY <2>2, <3>1, <3>3
  <2>3. \/ FromInbox(s, n) /\ p = s.blueprints[n].chunks[0].chunk
        \/ /\ IsQueue(p.transactions)
           /\ DepositsIn(p.transactions) \subseteq DelayedDeposits(s.delayed)
           /\ \A h \in DepositsIn(p.transactions) : h \notin DelayedDeposits(t.delayed)
    BY <1>1, <1>3, ReadBlueprintOK
  <2> QED BY <2>1, <2>2, <2>3
<1>16. Deposited(t, b2, <<>>)
  BY <1>5, <1>6, <1>9, <1>11, <1>13, <1>14, <1>15, NoDeposits DEF Deposited
<1> QED BY <1>1, <1>16

\* The transactions of a blueprint that was read.
LEMMA ReadTyped ==
    ASSUME NEW s, BaseOK(s), DelayedOK(s.delayed), NEW config,
           read_next_blueprint(s, config).blueprint # None
    PROVE  /\ read_next_blueprint(s, config).blueprint.transactions \in Seq(Transactions)
           /\ read_next_blueprint(s, config).blueprint.timestamp \in Int
BY ReadBlueprintOK DEF InboxBlueprints, IsQueue

\* A transaction of the queue is executed.
LEMMA DepositedTx ==
    ASSUME NEW s, NEW b \in Bips, Deposited(s, b, <<>>), b.tx_queue # <<>>,
           NEW t, DOMAIN t.receipts = DOMAIN s.receipts \cup {Head(b.tx_queue).tx_hash},
           t.deposit_nonce = s.deposit_nonce, t.blueprints = s.blueprints,
           t.blocks = s.blocks, t.delayed = s.delayed,
           NEW b2 \in Bips, b2.tx_queue = Tail(b.tx_queue)
    PROVE  Deposited(t, b2, <<>>)
<1>1. b # None /\ b2 # None
  BY NoneAssumption
<1>2. PICK q, r, x, h : q = b.tx_queue /\ r = Tail(q) /\ x = Head(q) /\ h = x.tx_hash
  OBVIOUS
<1>3. Queue(b) = q /\ Queue(b2) = r
  BY <1>1, <1>2 DEF Queue
<1>4. q \in Seq(Transactions) /\ Once(q) /\ q # <<>>
  BY <1>2, <1>3 DEF Deposited, IsQueue
<1>5. x \in Transactions /\ r \in Seq(Transactions)
  BY <1>2, <1>4, HeadTailProperties
<1>6. /\ DepositsIn(r) \subseteq DepositsIn(q) /\ Once(r)
      /\ x.content = "Deposit" => h \in DepositsIn(q) /\ h \notin DepositsIn(r)
  BY <1>2, <1>4, DepositsTail
<1>7. x.content # "Deposit" => h \in DOMAIN Tx
  BY <1>2, <1>5, DepositNat
<1>8. AwaitedLess(s, b, t, b2) /\ InBlueprints(t, b2) = InBlueprints(s, b)
  BY <1>1 DEF AwaitedLess, AwaitedInbox, FromInbox, LastBlock, TxsOf, InBlueprints
<1>9. PICK N, R, Q, Q2, D, F : /\ N = s.deposit_nonce /\ R = DOMAIN s.receipts
                               /\ Q = DepositsIn(q) /\ Q2 = DepositsIn(r)
                               /\ D = DelayedDeposits(s.delayed) /\ F = InBlueprints(s, b)
  OBVIOUS
<1>10. Tracked(N, R, Q, {}, D, F)
  BY <1>3, <1>9, NoDeposits DEF Deposited
<1>11. Tracked(N, R \cup {h}, Q2, {}, D, F)
  BY <1>6, <1>7, <1>9, <1>10, TrackedReceipt
<1>12. \A k \in AwaitedInbox(t, b2) : IsQueue(TxsOf(t, k))
  BY <1>8 DEF Deposited, AwaitedLess
<1>13. DOMAIN t.receipts = R \cup {h}
  BY <1>2, <1>9
<1> QED BY <1>3, <1>5, <1>6, <1>8, <1>9, <1>11, <1>12, <1>13, NoDeposits DEF Deposited, IsQueue

-----------------------------------------------------------------------------
(* A transaction that is valid: the accounts and the indexes.              *)

Balances(accounts) == [a \in Addresses |-> accounts[a].balance]

\* The balance of one account changes.
LEMMA SumAt ==
    ASSUME NEW acc \in AccountsMap, NEW acc2 \in AccountsMap, NEW a \in Addresses, NEW v \in Int,
           acc2[a].balance = acc[a].balance + v,
           \A b \in Addresses : b # a => acc2[b].balance = acc[b].balance
    PROVE  /\ SumFunction(Balances(acc2)) = SumFunction(Balances(acc)) + v
           /\ SumFunction(Balances(acc)) \in Int
<1>1. PICK f, g : f = Balances(acc) /\ g = Balances(acc2)
  OBVIOUS
<1>2. /\ DOMAIN f = Addresses /\ DOMAIN g = Addresses
      /\ \A b \in Addresses : f[b] \in Int /\ g[b] \in Int
      /\ g[a] = f[a] + v /\ \A b \in Addresses : b # a => g[b] = f[b]
  <2>1. \A b \in Addresses : acc[b].balance \in Int /\ acc2[b].balance \in Int
    BY DEF AccountsMap
  <2>2. \A b \in Addresses : f[b] = acc[b].balance /\ g[b] = acc2[b].balance
    BY <1>1 DEF Balances
  <2>3. DOMAIN f = Addresses /\ DOMAIN g = Addresses
    BY <1>1 DEF Balances
  <2> QED BY <2>1, <2>2, <2>3
<1>3. IsFiniteSet(Addresses) /\ IsFiniteSet(Addresses \ {a})
  BY AccountAssumption, FS_RemoveElement
<1>4. /\ SumFunctionOnSet(f, Addresses) \in Int
      /\ SumFunctionOnSet(f, Addresses) = f[a] + SumFunctionOnSet(f, Addresses \ {a})
  BY <1>2, <1>3, SumRemove
<1>5. SumFunctionOnSet(g, Addresses) = g[a] + SumFunctionOnSet(g, Addresses \ {a})
  BY <1>2, <1>3, SumRemove
<1>6. SumFunctionOnSet(g, Addresses \ {a}) = SumFunctionOnSet(f, Addresses \ {a})
  <2>1. \A b \in Addresses \ {a} : f[b] \in Int /\ g[b] = f[b]
    BY <1>2
  <2> QED BY <1>3, <2>1, SumSame
<1>7. SumFunctionOnSet(f, Addresses \ {a}) \in Int
  <2>1. \A b \in Addresses \ {a} : f[b] \in Int
    BY <1>2
  <2> QED BY <1>3, <2>1, SumRemove
<1>8. SumFunction(f) = SumFunctionOnSet(f, Addresses) /\ SumFunction(g) = SumFunctionOnSet(g, Addresses)
  BY <1>2 DEF SumFunction
<1>9. PICK F, G, H, x : /\ F = SumFunction(f) /\ G = SumFunction(g) /\ x = f[a]
                        /\ H = SumFunctionOnSet(f, Addresses \ {a})
  OBVIOUS
<1>10. F = x + H /\ G = (x + v) + H /\ x \in Int /\ H \in Int /\ F \in Int
  BY <1>2, <1>4, <1>5, <1>6, <1>7, <1>8, <1>9
<1>11. G = F + v
  BY <1>10
<1> QED BY <1>1, <1>9, <1>10, <1>11

\* Something new is appended to an index.
LEMMA AppendIndex ==
    ASSUME NEW S, NEW q \in Seq(S), NEW x \in S, IsInjective(q), x \notin Range(q)
    PROVE  /\ Append(q, x) \in Seq(S) /\ IsInjective(Append(q, x))
           /\ Range(Append(q, x)) = Range(q) \cup {x}
<1>1. PICK n \in Nat : n = Len(q)
  BY LenProperties
<1>2. PICK r : r = Append(q, x)
  OBVIOUS
<1>3. r \in Seq(S) /\ DOMAIN q = 1 .. n /\ DOMAIN r = 1 .. n + 1 /\ r[n + 1] = x
      /\ \A i \in 1 .. n : r[i] = q[i]
  BY <1>1, <1>2, AppendProperties
<1>4. \A i \in DOMAIN r : (i = n + 1 /\ r[i] = x) \/ (i \in DOMAIN q /\ r[i] = q[i])
  <2> SUFFICES ASSUME NEW i \in DOMAIN r
               PROVE  (i = n + 1 /\ r[i] = x) \/ (i \in DOMAIN q /\ r[i] = q[i])
    OBVIOUS
  <2>1. CASE i = n + 1
    BY <1>3, <2>1
  <2>2. CASE i # n + 1
    <3>1. i \in 1 .. n
      BY <1>3, <2>2
    <3> QED BY <1>3, <3>1
  <2> QED BY <2>1, <2>2
<1>5. \A i \in DOMAIN q : i \in DOMAIN r /\ r[i] = q[i] /\ q[i] # x
  BY <1>3 DEF Range
<1>6. IsInjective(r)
  BY <1>4, <1>5 DEF IsInjective
<1>7. n + 1 \in DOMAIN r /\ r[n + 1] = x
  BY <1>3
<1>8. \A y : y \in Range(r) <=> y \in Range(q) \/ y = x
  BY <1>4, <1>5, <1>7 DEF Range
<1>9. Range(r) = Range(q) \cup {x}
  BY <1>8
<1> QED BY <1>2, <1>3, <1>6, <1>9

\* An index of accounts.
IndexOK(q) == q \in Seq(Addresses) /\ IsInjective(q)

LEMMA IndexOne ==
    ASSUME NEW s, IsStorage(s), IndexOK(s.accounts_index), NEW a \in Addresses
    PROVE  /\ IndexOK(index_account(s, a).accounts_index)
           /\ a \in Range(index_account(s, a).accounts_index)
           /\ Range(s.accounts_index) \subseteq Range(index_account(s, a).accounts_index)
<1>1. PICK q, r : q = s.accounts_index /\ r = index_account(s, a).accounts_index
  OBVIOUS
<1>2. r = IF a \in Range(q) THEN q ELSE Append(q, a)
  BY <1>1, IndexFrame
<1>3. CASE a \in Range(q)
  BY <1>1, <1>2, <1>3
<1>4. CASE a \notin Range(q)
  <2>1. r \in Seq(Addresses) /\ IsInjective(r) /\ Range(r) = Range(q) \cup {a}
    BY <1>1, <1>2, <1>4, AppendIndex DEF IndexOK
  <2> QED BY <1>1, <2>1 DEF IndexOK
<1> QED BY <1>3, <1>4

LEMMA IndexBoth ==
    ASSUME NEW s, IsStorage(s), IndexOK(s.accounts_index), NEW a \in Addresses, NEW b \in Addresses
    PROVE  LET t == index_new_accounts(s, a, b)
           IN  /\ IndexOK(t.accounts_index) /\ {a, b} \subseteq Range(t.accounts_index)
               /\ Range(s.accounts_index) \subseteq Range(t.accounts_index)
<1>1. PICK u, t : u = index_account(s, a) /\ t = index_new_accounts(s, a, b)
  OBVIOUS
<1>2. t = index_account(u, b)
  BY <1>1 DEF index_new_accounts
<1>3. Only(s, u, {"accounts_index"})
  BY <1>1, IndexFrame
<1>4. IsStorage(u)
  BY <1>3 DEF Only
<1>5. /\ IndexOK(u.accounts_index) /\ a \in Range(u.accounts_index)
      /\ Range(s.accounts_index) \subseteq Range(u.accounts_index)
  BY <1>1, IndexOne
<1>6. /\ IndexOK(t.accounts_index) /\ b \in Range(t.accounts_index)
      /\ Range(u.accounts_index) \subseteq Range(t.accounts_index)
  BY <1>2, <1>4, <1>5, IndexOne
<1> QED BY <1>1, <1>5, <1>6

LEMMA CreditedSum ==
    ASSUME NEW acc \in AccountsMap, NEW a \in Addresses, NEW v \in Int
    PROVE  /\ Credited(acc, a, v) \in AccountsMap
           /\ \A b \in Addresses : Credited(acc, a, v)[b].nonce = acc[b].nonce
           /\ SumFunction(Balances(Credited(acc, a, v))) = SumFunction(Balances(acc)) + v
<1>1. PICK acc2 : acc2 = Credited(acc, a, v)
  OBVIOUS
<1>2. acc2 = [acc EXCEPT ![a] = [acc[a] EXCEPT !.balance = acc[a].balance + v]]
  BY <1>1 DEF Credited, AccountsMap
<1>3. acc[a].balance + v \in Int
  BY DEF AccountsMap
<1>4. acc2 \in AccountsMap
  BY <1>2, <1>3 DEF AccountsMap
<1>5. /\ acc2[a].balance = acc[a].balance + v /\ acc2[a].nonce = acc[a].nonce
      /\ \A b \in Addresses : b # a => acc2[b] = acc[b]
  BY <1>2 DEF AccountsMap
<1>6. SumFunction(Balances(acc2)) = SumFunction(Balances(acc)) + v
  BY <1>4, <1>5, SumAt
<1> QED BY <1>1, <1>4, <1>5, <1>6

LEMMA PaidSum ==
    ASSUME NEW s, s.accounts \in AccountsMap, NEW tx, tx.caller \in Addresses,
           NEW fee \in Int, fee = tx.gas_used * s.base_fee, NEW value \in Int,
           value = IF tx.outcome \in {"success", "withdraw"} THEN tx.value ELSE 0
    PROVE  /\ Paid(s, tx) \in AccountsMap
           /\ \A b \in Addresses : Paid(s, tx)[b].nonce >= s.accounts[b].nonce
           /\ Paid(s, tx)[tx.caller].nonce > s.accounts[tx.caller].nonce
           /\ SumFunction(Balances(Paid(s, tx))) = SumFunction(Balances(s.accounts)) - fee - value
<1>1. PICK acc, acc2, a : acc = s.accounts /\ acc2 = Paid(s, tx) /\ a = tx.caller
  OBVIOUS
<1>2. acc2 = [acc EXCEPT ![a].nonce = @ + 1, ![a].balance = @ - fee - value]
  BY <1>1 DEF Paid
<1>3. /\ acc \in AccountsMap /\ a \in Addresses /\ acc[a].balance \in Int /\ acc[a].nonce \in Nat
      /\ acc[a] \in [balance : Int, nonce : Nat, code : BOOLEAN]
  BY <1>1 DEF AccountsMap
<1>4. PICK n, m : n = acc[a].nonce + 1 /\ m = acc[a].balance - fee - value
  OBVIOUS
<1>5. n \in Nat /\ m \in Int /\ n > acc[a].nonce /\ m = acc[a].balance + (- fee - value)
  BY <1>3, <1>4
<1>6. acc2 = [acc EXCEPT ![a] = [balance |-> m, nonce |-> n, code |-> acc[a].code]]
  <2>1. PICK r, q : r = acc[a] /\ q = [acc EXCEPT ![a].nonce = @ + 1]
    OBVIOUS
  <2>2. q = [acc EXCEPT ![a] = [r EXCEPT !.nonce = n]]
    BY <1>3, <1>4, <2>1 DEF AccountsMap
  <2>3. q[a] = [r EXCEPT !.nonce = n] /\ r = [balance |-> r.balance, nonce |-> r.nonce, code |-> r.code]
    BY <1>3, <2>1, <2>2 DEF AccountsMap
  <2>4. q[a] = [balance |-> r.balance, nonce |-> n, code |-> r.code]
    BY <2>3
  <2>5. acc2 = [q EXCEPT ![a].balance = @ - fee - value]
    BY <1>2, <2>1
  <2>6. acc2 = [q EXCEPT ![a] = [q[a] EXCEPT !.balance = m]]
    <3>1. q[a].balance - fee - value = m
      BY <1>4, <2>1, <2>4
    <3>2. acc2 = [q EXCEPT ![a] = [q[a] EXCEPT !.balance = q[a].balance - fee - value]]
      BY <2>5
    <3> QED BY <3>1, <3>2
  <2>7. [q[a] EXCEPT !.balance = m] = [balance |-> m, nonce |-> n, code |-> r.code]
    BY <2>4
  <2>8. acc2 = [q EXCEPT ![a] = [balance |-> m, nonce |-> n, code |-> r.code]]
    BY <2>6, <2>7
  <2> QED BY <1>3, <2>1, <2>2, <2>8 DEF AccountsMap
<1>7. /\ acc2[a].nonce = n /\ acc2[a].balance = m
      /\ \A b \in Addresses : b # a => acc2[b] = acc[b]
  BY <1>3, <1>6 DEF AccountsMap
<1>8. acc2 \in AccountsMap
  BY <1>3, <1>5, <1>6 DEF AccountsMap
<1>9. - fee - value \in Int
  OBVIOUS
<1>10. PICK v \in Int : v = - fee - value
  BY <1>9
<1>11. /\ SumFunction(Balances(acc2)) = SumFunction(Balances(acc)) + v
       /\ SumFunction(Balances(acc)) \in Int
  <2>1. acc2[a].balance = acc[a].balance + v
    BY <1>5, <1>7, <1>10
  <2>2. \A b \in Addresses : b # a => acc2[b].balance = acc[b].balance
    BY <1>7
  <2> QED BY <1>3, <1>8, <2>1, <2>2, SumAt
<1>12. SumFunction(Balances(acc2)) = SumFunction(Balances(acc)) - fee - value
  BY <1>10, <1>11
<1>13. \A b \in Addresses : acc2[b].nonce >= acc[b].nonce
  <2>1. \A b \in Addresses : acc[b].nonce \in Nat
    BY <1>3 DEF AccountsMap
  <2> QED BY <1>5, <1>7, <2>1
<1> QED BY <1>1, <1>5, <1>7, <1>8, <1>12, <1>13

\* A valid transaction, executed: v is what it adds to the balances.
AppliedOK(s, r, v) ==
    /\ Only(s, r.st, {"accounts", "accounts_index"}) /\ r.st.accounts \in AccountsMap
    /\ IndexOK(r.st.accounts_index) /\ {r.caller, r.to} \subseteq Range(r.st.accounts_index)
    /\ Range(s.accounts_index) \subseteq Range(r.st.accounts_index)
    /\ r.caller \in Addresses /\ r.to \in Addresses
    /\ r.gas \in Int /\ r.ticks \in Int /\ r.value \in Int /\ r.success \in BOOLEAN
    /\ \A a \in Addresses : r.st.accounts[a].nonce >= s.accounts[a].nonce
    /\ v \in Int
    /\ SumFunction(Balances(r.st.accounts)) = SumFunction(Balances(s.accounts)) + v

LEMMA DepositApplied ==
    ASSUME NEW s, IsStorage(s), s.accounts \in AccountsMap, IndexOK(s.accounts_index),
           NEW x \in Transactions, x.content = "Deposit"
    PROVE  /\ AppliedOK(s, apply_deposit(s, x), apply_deposit(s, x).value)
           /\ apply_deposit(s, x).posted = <<>>
<1>1. x.receiver \in Addresses /\ x.amount \in Int /\ ZeroAddress \in Addresses
  BY DepositNat, AccountAssumption
<1>2. PICK t, u, r : /\ t = Credit(s, x.receiver, x.amount)
                     /\ u = index_new_accounts(t, ZeroAddress, x.receiver)
                     /\ r = apply_deposit(s, x)
  OBVIOUS
<1>3. /\ r.st = u /\ r.posted = <<>> /\ r.caller = ZeroAddress /\ r.to = x.receiver
      /\ r.gas = DepositGas /\ r.ticks = TicksForDeposit /\ r.success = TRUE /\ r.value = x.amount
  BY <1>2 DEF apply_deposit, Applied
<1>4. Only(s, t, {"accounts"}) /\ t.accounts = Credited(s.accounts, x.receiver, x.amount)
  BY <1>2, CreditFrame
<1>5. IsStorage(t) /\ t.accounts_index = s.accounts_index
  BY <1>4 DEF Only, Keys
<1>6. Only(t, u, {"accounts_index"})
  BY <1>2, <1>5, IndexNewFrame
<1>7. Only(s, u, {"accounts", "accounts_index"})
  <2>1. Only(s, u, {"accounts"} \cup {"accounts_index"})
    BY <1>4, <1>6, OnlyTrans
  <2>2. {"accounts"} \cup {"accounts_index"} = {"accounts", "accounts_index"}
    OBVIOUS
  <2> QED BY <2>1, <2>2
<1>8. u.accounts = t.accounts
  BY <1>6 DEF Only, Keys
<1>9. /\ IndexOK(u.accounts_index) /\ {ZeroAddress, x.receiver} \subseteq Range(u.accounts_index)
      /\ Range(s.accounts_index) \subseteq Range(u.accounts_index)
  BY <1>1, <1>2, <1>5, IndexBoth
<1>10. /\ u.accounts \in AccountsMap
       /\ \A b \in Addresses : u.accounts[b].nonce = s.accounts[b].nonce
       /\ SumFunction(Balances(u.accounts)) = SumFunction(Balances(s.accounts)) + x.amount
  BY <1>1, <1>4, <1>8, CreditedSum
<1>11. \A b \in Addresses : s.accounts[b].nonce \in Nat
  BY DEF AccountsMap
<1>12. \A b \in Addresses : u.accounts[b].nonce >= s.accounts[b].nonce
  BY <1>10, <1>11
<1>13. r.gas \in Int /\ r.ticks \in Int
  BY <1>3, CostAssumption
<1>14. AppliedOK(s, r, r.value)
  BY <1>1, <1>3, <1>7, <1>9, <1>10, <1>12, <1>13 DEF AppliedOK
<1> QED BY <1>2, <1>3, <1>14

\* What an Ethereum transaction adds to the balances.
Spent(h, gas, value) ==
    - gas * BaseFee - (IF Tx[h].outcome = "withdraw" THEN value ELSE 0)

LEMMA EthereumApplied ==
    ASSUME NEW s, IsStorage(s), s.accounts \in AccountsMap, IndexOK(s.accounts_index),
           s.base_fee = BaseFee, NEW h \in DOMAIN Tx,
           is_valid_ethereum_transaction_common(s, Tx[h])
    PROVE  LET r == ExecutionResult(s, h)
           IN  /\ AppliedOK(s, r, Spent(h, r.gas, r.value)) /\ r.posted = WithdrawalsOf(h)
               /\ Tx[h].caller \in Addresses /\ s.accounts[Tx[h].caller].nonce = Tx[h].nonce
               /\ r.st.accounts[Tx[h].caller].nonce > Tx[h].nonce
<1>1. PICK tx, t, u, r : /\ tx = Tx[h] /\ t = RunTransaction(s, tx)
                         /\ u = index_new_accounts(t, tx.caller, tx.to)
                         /\ r = ExecutionResult(s, h)
  OBVIOUS
<1>2. /\ r.st = u /\ r.posted = WithdrawalsOf(h) /\ r.caller = tx.caller /\ r.to = tx.to
      /\ r.gas = tx.gas_used /\ r.ticks = tx.ticks /\ r.success = (tx.outcome # "revert")
      /\ r.value = tx.value
  BY <1>1 DEF ExecutionResult, Applied
<1>3. /\ tx.caller \in Addresses /\ tx.to \in Addresses /\ tx.gas_used \in Nat /\ tx.value \in Nat
      /\ tx.ticks \in Nat /\ tx.nonce \in Nat /\ BaseFee \in Nat
  BY <1>1, TxAssumption, CostAssumption DEF is_valid_ethereum_transaction_common
<1>4. s.accounts[tx.caller].nonce = tx.nonce
  BY <1>1 DEF is_valid_ethereum_transaction_common
<1>5. PICK fee \in Int : fee = tx.gas_used * s.base_fee
  BY <1>3
<1>6. PICK value \in Int : value = IF tx.outcome \in {"success", "withdraw"} THEN tx.value ELSE 0
  BY <1>3
<1>7. PICK p : p = Paid(s, tx)
  OBVIOUS
<1>8. /\ p \in AccountsMap
      /\ \A b \in Addresses : p[b].nonce >= s.accounts[b].nonce
      /\ p[tx.caller].nonce > s.accounts[tx.caller].nonce
      /\ SumFunction(Balances(p)) = SumFunction(Balances(s.accounts)) - fee - value
  BY <1>3, <1>5, <1>6, <1>7, PaidSum
<1>9. /\ Only(s, t, {"accounts"})
      /\ t.accounts = IF tx.outcome = "success" THEN Credited(p, tx.to, tx.value) ELSE p
  BY <1>1, <1>7, RunFrame
<1>10. IsStorage(t) /\ t.accounts_index = s.accounts_index
  BY <1>9 DEF Only, Keys
<1>11. Only(t, u, {"accounts_index"})
  BY <1>1, <1>10, IndexNewFrame
<1>12. Only(s, u, {"accounts", "accounts_index"})
  <2>1. Only(s, u, {"accounts"} \cup {"accounts_index"})
    BY <1>9, <1>11, OnlyTrans
  <2>2. {"accounts"} \cup {"accounts_index"} = {"accounts", "accounts_index"}
    OBVIOUS
  <2> QED BY <2>1, <2>2
<1>13. u.accounts = t.accounts
  BY <1>11 DEF Only, Keys
<1>14. /\ IndexOK(u.accounts_index) /\ {tx.caller, tx.to} \subseteq Range(u.accounts_index)
       /\ Range(s.accounts_index) \subseteq Range(u.accounts_index)
  BY <1>1, <1>3, <1>10, IndexBoth
<1>15. PICK v : v = Spent(h, r.gas, r.value)
  OBVIOUS
<1>16. v = - fee - (IF tx.outcome = "withdraw" THEN tx.value ELSE 0) /\ v \in Int
  <2>1. v = - (tx.gas_used * BaseFee) - (IF tx.outcome = "withdraw" THEN tx.value ELSE 0)
    BY <1>1, <1>2, <1>15 DEF Spent
  <2>2. fee = tx.gas_used * BaseFee
    BY <1>5
  <2> QED BY <1>3, <2>1, <2>2
<1>17. PICK total \in Int : total = SumFunction(Balances(s.accounts))
  <2>1. /\ ZeroAddress \in Addresses /\ s.accounts[ZeroAddress].balance \in Int
    BY AccountAssumption DEF AccountsMap
  <2>2. s.accounts[ZeroAddress].balance = s.accounts[ZeroAddress].balance + 0
    BY <2>1
  <2>3. SumFunction(Balances(s.accounts)) \in Int
    BY <2>1, <2>2, SumAt
  <2> QED BY <2>3
<1>18. /\ u.accounts \in AccountsMap
       /\ \A b \in Addresses : u.accounts[b].nonce = p[b].nonce
       /\ SumFunction(Balances(u.accounts)) = total + v
  <2>1. CASE tx.outcome = "success"
    <3>1. u.accounts = Credited(p, tx.to, tx.value) /\ tx.value \in Int /\ value = tx.value
      BY <1>3, <1>6, <1>9, <1>13, <2>1
    <3>2. /\ u.accounts \in AccountsMap
          /\ \A b \in Addresses : u.accounts[b].nonce = p[b].nonce
          /\ SumFunction(Balances(u.accounts)) = SumFunction(Balances(p)) + tx.value
      <4>1. PICK a \in Addresses, w \in Int : a = tx.to /\ w = tx.value
        BY <1>3, <3>1
      <4>2. u.accounts = Credited(p, a, w)
        BY <3>1, <4>1
      <4>3. /\ Credited(p, a, w) \in AccountsMap
            /\ \A b \in Addresses : Credited(p, a, w)[b].nonce = p[b].nonce
            /\ SumFunction(Balances(Credited(p, a, w))) = SumFunction(Balances(p)) + w
        BY <1>8, CreditedSum
      <4> QED BY <4>1, <4>2, <4>3
    <3>3. SumFunction(Balances(u.accounts)) = ((total - fee) - value) + value
      BY <1>8, <1>17, <3>1, <3>2
    <3>4. v = - fee - 0
      BY <1>16, <2>1
    <3>5. SumFunction(Balances(u.accounts)) = total + v
      BY <3>3, <3>4
    <3> QED BY <3>2, <3>5
  <2>2. CASE tx.outcome # "success"
    <3>1. u.accounts = p
      BY <1>9, <1>13, <2>2
    <3>2. v = - fee - value
      BY <1>6, <1>16, <2>2
    <3>3. total - fee - value = total + v
      BY <3>2
    <3> QED BY <1>8, <1>17, <3>1, <3>3
  <2> QED BY <2>1, <2>2
<1>19. /\ \A b \in Addresses : u.accounts[b].nonce >= s.accounts[b].nonce
       /\ u.accounts[tx.caller].nonce > tx.nonce
  BY <1>3, <1>4, <1>8, <1>18
<1>20. r.gas \in Int /\ r.ticks \in Int /\ r.value \in Int /\ r.success \in BOOLEAN
  BY <1>2, <1>3
<1>21. AppliedOK(s, r, v)
  BY <1>2, <1>3, <1>12, <1>14, <1>16, <1>17, <1>18, <1>19, <1>20 DEF AppliedOK
<1> QED BY <1>1, <1>2, <1>3, <1>4, <1>15, <1>19, <1>21

-----------------------------------------------------------------------------
(* A transaction that is valid: the chain.                                 *)

\* What a transaction adds to the balances.
Added(h, gas, value) == IF IsDeposit(h) THEN value ELSE Spent(h, gas, value)

\* A transaction that is valid has no receipt.
LEMMA ValidApplied ==
    ASSUME NEW s, IsStorage(s), NEW b, Chain(s, b), s.base_fee = BaseFee,
           NEW x \in Transactions, NEW n, apply_transaction(s, x, n).status = "Valid",
           x.content = "Deposit" => x.tx_hash \notin DOMAIN s.receipts
    PROVE  LET r == apply_transaction(s, x, n)
               h == x.tx_hash
           IN  /\ AppliedOK(s, r, Added(h, r.gas, r.value))
               /\ h \notin DOMAIN s.receipts
               /\ h \in DOMAIN Tx =>
                    Tx[h].caller \in Addresses /\ r.st.accounts[Tx[h].caller].nonce > Tx[h].nonce
               /\ r.posted = IF h \in DOMAIN Tx THEN WithdrawalsOf(h) ELSE <<>>
<1>1. PICK r, h : r = apply_transaction(s, x, n) /\ h = x.tx_hash
  OBVIOUS
<1>2. s.accounts \in AccountsMap /\ IndexOK(s.accounts_index)
  BY DEF Chain, StorageOK, Indexed, IndexOK
<1>3. CASE x.content = "Deposit"
  <2>1. r = apply_deposit(s, x) /\ h \in Nat /\ h \notin DOMAIN Tx
    BY <1>1, <1>3, DepositNat, TxAssumption DEF apply_transaction
  <2>2. AppliedOK(s, r, r.value) /\ r.posted = <<>>
    BY <1>2, <1>3, <2>1, DepositApplied
  <2>3. Added(h, r.gas, r.value) = r.value
    BY <2>1 DEF Added, IsDeposit
  <2> QED BY <1>1, <1>3, <2>1, <2>2, <2>3
<1>4. CASE x.content # "Deposit"
  <2>1. h \in DOMAIN Tx /\ r = apply_ethereum_transaction(s, h, n)
    BY <1>1, <1>4, DepositNat DEF apply_transaction
  <2>2. is_valid_ethereum_transaction_common(s, Tx[h]) /\ r = ExecutionResult(s, h)
    <3>1. \A status : Applied(status, s).status = status
      BY AppliedRecord
    <3>2. r.status = "Valid"
      BY <1>1
    <3>3. PICK r1, r2, r3, r4 : /\ r1 = Applied("Invalid", s) /\ r2 = Applied("OutOfTicks", s)
                                /\ r3 = Applied("Error", s) /\ r4 = ExecutionResult(s, h)
      OBVIOUS
    <3>4. r1.status # "Valid" /\ r2.status # "Valid" /\ r3.status # "Valid"
      BY <3>1, <3>3
    <3> QED BY <2>1, <3>2, <3>3, <3>4 DEF apply_ethereum_transaction
  <2>3. /\ AppliedOK(s, r, Spent(h, r.gas, r.value)) /\ r.posted = WithdrawalsOf(h)
        /\ Tx[h].caller \in Addresses /\ s.accounts[Tx[h].caller].nonce = Tx[h].nonce
        /\ r.st.accounts[Tx[h].caller].nonce > Tx[h].nonce
    BY <1>2, <2>1, <2>2, EthereumApplied
  <2>4. Added(h, r.gas, r.value) = Spent(h, r.gas, r.value)
    BY <2>1 DEF Added, IsDeposit
  <2>5. h \notin DOMAIN s.receipts
    <3>1. Tx[h].nonce \in Nat
      BY <2>1, TxAssumption
    <3> QED BY <2>1, <2>3, <3>1 DEF Chain, NoncesGrow
  <2> QED BY <1>1, <2>1, <2>3, <2>4, <2>5
<1> QED BY <1>3, <1>4

LEMMA RecordingKeeps ==
    ASSUME NEW s, NEW t, NEW h, NEW receipt, NEW object, Recording(s, t, h, receipt, object),
           DOMAIN s.objects = DOMAIN s.receipts, h \notin DOMAIN s.receipts
    PROVE  /\ DOMAIN t.receipts = DOMAIN s.receipts \cup {h} /\ DOMAIN t.objects = DOMAIN t.receipts
           /\ \A k \in DOMAIN s.receipts : t.receipts[k] = s.receipts[k] /\ t.objects[k] = s.objects[k]
           /\ t.receipts[h] = receipt /\ t.objects[h] = object
BY DEF Recording

\* The receipts of other blocks.
LEMMA RecordedKept ==
    ASSUME NEW s, NEW t,
           DOMAIN s.receipts \subseteq DOMAIN t.receipts,
           \A k \in DOMAIN s.receipts : t.receipts[k] = s.receipts[k] /\ t.objects[k] = s.objects[k],
           NEW number, NEW S, NEW txs \in Seq(S), NEW gas, Recorded(s, number, txs, gas)
    PROVE  Recorded(t, number, txs, gas)
<1>1. \A i \in DOMAIN txs :
         /\ txs[i] \in DOMAIN t.receipts
         /\ t.receipts[txs[i]].block_number = number
         /\ t.receipts[txs[i]].index = i - 1
         /\ t.objects[txs[i]].index = i - 1
  BY DEF Recorded
<1>2. txs # <<>> => Last(txs) \in DOMAIN s.receipts
  <2> SUFFICES ASSUME txs # <<>> PROVE Last(txs) \in DOMAIN s.receipts
    OBVIOUS
  <2>1. PICK n \in Nat : n = Len(txs) /\ DOMAIN txs = 1 .. n
    BY LenProperties
  <2>2. n # 0
    BY <2>1, EmptySeq
  <2>3. n \in DOMAIN txs
    BY <2>1, <2>2
  <2> QED BY <2>1, <2>3 DEF Recorded, Last
<1>3. gas = IF txs = <<>> THEN 0 ELSE t.receipts[Last(txs)].cumulative_gas
  BY <1>2 DEF Recorded
<1> QED BY <1>1, <1>3 DEF Recorded

\* The receipts of the block in progress.
LEMMA RecordedMore ==
    ASSUME NEW s, NEW t, NEW h, NEW receipt, NEW object, Recording(s, t, h, receipt, object),
           DOMAIN s.objects = DOMAIN s.receipts, h \notin DOMAIN s.receipts,
           NEW number, NEW S, NEW txs \in Seq(S), NEW gas, Recorded(s, number, txs, gas), h \in S,
           receipt.block_number = number, receipt.index = Len(txs), object.index = Len(txs)
    PROVE  Recorded(t, number, Append(txs, h), receipt.cumulative_gas)
<1>1. PICK n \in Nat : n = Len(txs) /\ DOMAIN txs = 1 .. n
  BY LenProperties
<1>2. PICK q : q = Append(txs, h)
  OBVIOUS
<1>3. /\ q \in Seq(S) /\ Len(q) = n + 1 /\ DOMAIN q = 1 .. n + 1 /\ q[n + 1] = h
      /\ \A i \in 1 .. n : q[i] = txs[i]
  BY <1>1, <1>2, AppendProperties
<1>4. /\ DOMAIN t.receipts = DOMAIN s.receipts \cup {h} /\ DOMAIN t.objects = DOMAIN t.receipts
      /\ \A k \in DOMAIN s.receipts : t.receipts[k] = s.receipts[k] /\ t.objects[k] = s.objects[k]
      /\ t.receipts[h] = receipt /\ t.objects[h] = object
  BY RecordingKeeps
<1>5. \A i \in DOMAIN q :
         /\ q[i] \in DOMAIN t.receipts
         /\ t.receipts[q[i]].block_number = number
         /\ t.receipts[q[i]].index = i - 1
         /\ t.objects[q[i]].index = i - 1
  <2> SUFFICES ASSUME NEW i \in DOMAIN q
               PROVE  /\ q[i] \in DOMAIN t.receipts
                      /\ t.receipts[q[i]].block_number = number
                      /\ t.receipts[q[i]].index = i - 1
                      /\ t.objects[q[i]].index = i - 1
    OBVIOUS
  <2>1. CASE i = n + 1
    <3>1. q[i] = h /\ i - 1 = n
      BY <1>3, <2>1
    <3> QED BY <1>1, <1>4, <3>1
  <2>2. CASE i # n + 1
    <3>1. i \in DOMAIN txs /\ q[i] = txs[i]
      BY <1>1, <1>3, <2>2
    <3>2. /\ txs[i] \in DOMAIN s.receipts /\ s.receipts[txs[i]].block_number = number
          /\ s.receipts[txs[i]].index = i - 1 /\ s.objects[txs[i]].index = i - 1
      BY <3>1 DEF Recorded
    <3> QED BY <1>4, <3>1, <3>2
  <2> QED BY <2>1, <2>2
<1>6. q # <<>> /\ Last(q) = h
  <2>1. Len(<<>>) = 0 /\ n + 1 # 0
    BY <1>1
  <2> QED BY <1>3, <2>1 DEF Last
<1>7. receipt.cumulative_gas = IF q = <<>> THEN 0 ELSE t.receipts[Last(q)].cumulative_gas
  BY <1>4, <1>6
<1> QED BY <1>2, <1>5, <1>7 DEF Recorded

LEMMA EffectInt ==
    ASSUME NEW s, StorageOK(s), s.base_fee = BaseFee
    PROVE  /\ DOMAIN Effect(s) = DOMAIN s.receipts
           /\ \A k \in DOMAIN s.receipts :
                /\ Effect(s)[k] = Added(k, s.receipts[k].gas_used, s.objects[k].value)
                /\ Effect(s)[k] \in Int
<1>1. DOMAIN Effect(s) = DOMAIN s.receipts
  BY DEF Effect
<1>2. ASSUME NEW k \in DOMAIN s.receipts
      PROVE  /\ Effect(s)[k] = Added(k, s.receipts[k].gas_used, s.objects[k].value)
             /\ Effect(s)[k] \in Int
  <2>1. s.receipts[k] \in Receipts /\ s.objects[k] \in Objects
    BY DEF StorageOK
  <2>2. PICK g \in Int, v \in Int : g = s.receipts[k].gas_used /\ v = s.objects[k].value
    BY <2>1 DEF Receipts, Objects
  <2>3. Effect(s)[k] = IF IsDeposit(k) THEN v
                       ELSE - g * BaseFee - (IF Tx[k].outcome = "withdraw" THEN v ELSE 0)
    BY <2>2 DEF Effect
  <2>4. PICK f \in Int : f = g * BaseFee
    BY CostAssumption
  <2>5. Effect(s)[k] = Added(k, g, v)
    BY <2>3 DEF Added, Spent
  <2>6. - f - (IF Tx[k].outcome = "withdraw" THEN v ELSE 0) \in Int
    OBVIOUS
  <2>7. Effect(s)[k] = IF IsDeposit(k) THEN v
                       ELSE - f - (IF Tx[k].outcome = "withdraw" THEN v ELSE 0)
    BY <2>3, <2>4
  <2> QED BY <2>2, <2>5, <2>6, <2>7
<1> QED BY <1>1, <1>2

\* The balances, after a receipt more.
LEMMA BalancedMore ==
    ASSUME NEW s, StorageOK(s), Balanced(s), s.base_fee = BaseFee,
           NEW t, StorageOK(t), t.base_fee = BaseFee,
           NEW h, NEW receipt, NEW object, Recording(s, t, h, receipt, object),
           h \notin DOMAIN s.receipts,
           SumFunction(Balances(t.accounts))
             = SumFunction(Balances(s.accounts)) + Added(h, receipt.gas_used, object.value)
    PROVE  Balanced(t)
<1>1. DOMAIN s.objects = DOMAIN s.receipts
  BY DEF StorageOK
<1>2. /\ DOMAIN t.receipts = DOMAIN s.receipts \cup {h}
      /\ \A k \in DOMAIN s.receipts : t.receipts[k] = s.receipts[k] /\ t.objects[k] = s.objects[k]
      /\ t.receipts[h] = receipt /\ t.objects[h] = object
  BY <1>1, RecordingKeeps
<1>3. PICK A, f, g, v : /\ A = DOMAIN s.receipts /\ f = Effect(s) /\ g = Effect(t)
                        /\ v = Added(h, receipt.gas_used, object.value)
  OBVIOUS
<1>4. /\ DOMAIN f = A
      /\ \A k \in A : f[k] = Added(k, s.receipts[k].gas_used, s.objects[k].value) /\ f[k] \in Int
  BY <1>3, EffectInt
<1>5. /\ DOMAIN g = A \cup {h}
      /\ \A k \in A \cup {h} :
           g[k] = Added(k, t.receipts[k].gas_used, t.objects[k].value) /\ g[k] \in Int
  BY <1>2, <1>3, EffectInt
<1>6. g[h] = v /\ v \in Int
  BY <1>2, <1>3, <1>5
<1>7. \A k \in A : f[k] \in Int /\ g[k] = f[k]
  BY <1>2, <1>3, <1>4, <1>5
<1>8. IsFiniteSet(A) /\ IsFiniteSet(A \cup {h})
  BY <1>3, FS_AddElement DEF Balanced
<1>9. SumFunctionOnSet(g, A \cup {h}) = g[h] + SumFunctionOnSet(g, A)
  BY <1>3, <1>5, <1>8, SumAdd
<1>10. SumFunctionOnSet(g, A) = SumFunctionOnSet(f, A)
  BY <1>7, <1>8, SumSame
<1>11. SumFunctionOnSet(f, A) \in Int
  <2>1. \A k \in A : f[k] \in Int
    BY <1>4
  <2> QED BY <1>8, <2>1, SumRemove
<1>12. SumFunction(f) = SumFunctionOnSet(f, A) /\ SumFunction(g) = SumFunctionOnSet(g, A \cup {h})
  BY <1>4, <1>5 DEF SumFunction
<1>13. SumFunction(InitialBalance) \in Int
  <2>1. IsFiniteSet(Addresses) /\ DOMAIN InitialBalance = Addresses
        /\ \A a \in Addresses : InitialBalance[a] \in Int
    BY AccountAssumption
  <2>2. SumFunctionOnSet(InitialBalance, Addresses) \in Int
    BY <2>1, SumRemove
  <2> QED BY <2>1, <2>2 DEF SumFunction
<1>14. PICK I \in Int, F \in Int : I = SumFunction(InitialBalance) /\ F = SumFunction(f)
  BY <1>11, <1>12, <1>13
<1>15. SumFunction(Balances(s.accounts)) = I + F
  BY <1>3, <1>14 DEF Balanced, Balances
<1>16. SumFunction(g) = v + F
  BY <1>6, <1>9, <1>10, <1>12, <1>14
<1>17. SumFunction(Balances(t.accounts)) = I + SumFunction(g)
  <2>1. SumFunction(Balances(t.accounts)) = (I + F) + v
    BY <1>3, <1>15
  <2>2. (I + F) + v = I + (v + F)
    BY <1>6
  <2> QED BY <1>16, <2>1, <2>2
<1>18. SumFunction([a \in Addresses |-> t.accounts[a].balance]) = SumFunction(InitialBalance) + SumFunction(Effect(t))
  BY <1>3, <1>14, <1>17 DEF Balances
<1> QED BY <1>2, <1>3, <1>8, <1>18 DEF Balanced

\* The block in progress, with a transaction more.
LEMMA RegisterFrame ==
    ASSUME NEW b \in Bips, b.tx_queue # <<>>, NEW x \in Transactions, NEW r,
           r.gas \in Int, r.ticks \in Int
    PROVE  LET c == register_valid_transaction(QueueTail(b), x, r)
           IN  /\ c \in Bips
               /\ c.number = b.number /\ c.parent_hash = b.parent_hash /\ c.index = b.index + 1
               /\ c.valid_txs = Append(b.valid_txs, x.tx_hash) /\ c.tx_queue = Tail(b.tx_queue)
               /\ c.cumulative_gas = b.cumulative_gas + r.gas
<1>1. PICK d, c, v, q, e : /\ d = QueueTail(b) /\ c = register_valid_transaction(d, x, r)
                           /\ v = Append(b.valid_txs, x.tx_hash) /\ q = Tail(b.tx_queue)
                           /\ e = ticks_of_valid_transaction(x, r.ticks) + RegisterTicks
  OBVIOUS
<1>2. x.tx_hash \in Hashes /\ (x.content # "Deposit" => x.tx_hash \in DOMAIN Tx)
  BY DepositNat
<1>3. v \in Seq(Hashes) /\ q \in Seq(Transactions)
  BY <1>1, <1>2, AppendProperties, HeadTailProperties DEF Bips
<1>4. /\ d = [b EXCEPT !.tx_queue = q] /\ d \in Bips
      /\ d.number = b.number /\ d.parent_hash = b.parent_hash /\ d.index = b.index
      /\ d.valid_txs = b.valid_txs /\ d.tx_queue = q /\ d.cumulative_gas = b.cumulative_gas
      /\ d.estimated_ticks = b.estimated_ticks
  BY <1>1, <1>3 DEF QueueTail, Bips
<1>5. ticks_of_valid_transaction(x, r.ticks) \in Int /\ RegisterTicks \in Int
  <2>1. x.content # "Deposit" => Tx[x.tx_hash].data_size \in Nat
    BY <1>2, TxAssumption
  <2>2. RegisterTicks \in Int /\ TicksForCrypto \in Int
    BY CostAssumption
  <2>3. CASE x.content = "Deposit"
    BY <2>2, <2>3 DEF ticks_of_valid_transaction
  <2>4. CASE x.content # "Deposit"
    <3>1. ticks_of_transaction_overhead(x) = 1 + Tx[x.tx_hash].data_size
      BY <2>4 DEF ticks_of_transaction_overhead
    <3>2. ticks_of_valid_transaction(x, r.ticks)
            = (r.ticks + TicksForCrypto) + (1 + Tx[x.tx_hash].data_size)
      BY <2>4, <3>1 DEF ticks_of_valid_transaction
    <3>3. 1 + Tx[x.tx_hash].data_size \in Int
      BY <2>1, <2>4
    <3> QED BY <2>2, <3>2, <3>3
  <2> QED BY <2>3, <2>4
<1>6. PICK g, i, m : /\ g = b.cumulative_gas + r.gas /\ i = b.index + 1
                     /\ m = (b.estimated_ticks + ticks_of_valid_transaction(x, r.ticks)) + RegisterTicks
  OBVIOUS
<1>7. g \in Int /\ i \in Int /\ m \in Int
  BY <1>5, <1>6 DEF Bips
<1>8. c = [d EXCEPT !.cumulative_gas = g, !.estimated_ticks = m, !.valid_txs = v, !.index = i]
  BY <1>1, <1>4, <1>6 DEF register_valid_transaction, Bips
<1>9. c \in Bips /\ c.number = d.number /\ c.parent_hash = d.parent_hash /\ c.index = i
      /\ c.valid_txs = v /\ c.tx_queue = d.tx_queue /\ c.cumulative_gas = g
  BY <1>3, <1>4, <1>7, <1>8 DEF Bips
<1> QED BY <1>1, <1>4, <1>6, <1>9

\* The storage and the block after a valid transaction, in terms of s and b.
StoredTx(s, b, t, c, h, r) ==
    /\ IsStorage(t)
    /\ t.base_fee = s.base_fee /\ t.current = s.current /\ t.blocks = s.blocks /\ t.bip = s.bip
    /\ t.accounts = r.st.accounts /\ t.accounts_index = r.st.accounts_index
    /\ t.tx_index = Append(s.tx_index, h)
    /\ Recording(s, t, h, Receipt(b, r), Object(b, r))
    /\ c \in Bips
    /\ c.number = b.number /\ c.parent_hash = b.parent_hash /\ c.index = b.index + 1
    /\ c.valid_txs = Append(b.valid_txs, h) /\ c.cumulative_gas = b.cumulative_gas + r.gas

LEMMA TxStored ==
    ASSUME NEW s, NEW b \in Bips, b.tx_queue # <<>>, NEW x \in Transactions, NEW r, NEW v,
           AppliedOK(s, r, v)
    PROVE  /\ StoredTx(s, b, StoreTransaction(r.st, QueueTail(b), x, r),
                       register_valid_transaction(QueueTail(b), x, r), x.tx_hash, r)
           /\ Only(s, StoreTransaction(r.st, QueueTail(b), x, r),
                   {"accounts", "accounts_index", "tx_index", "receipts", "objects"})
<1>1. PICK u, d, h, t, c : /\ u = r.st /\ d = QueueTail(b) /\ h = x.tx_hash
                           /\ t = StoreTransaction(u, d, x, r)
                           /\ c = register_valid_transaction(d, x, r)
  OBVIOUS
<1>2. Only(s, u, {"accounts", "accounts_index"}) /\ r.gas \in Int /\ r.ticks \in Int
  BY <1>1 DEF AppliedOK
<1>3. /\ IsStorage(u)
      /\ u.base_fee = s.base_fee /\ u.current = s.current /\ u.blocks = s.blocks
      /\ u.bip = s.bip /\ u.tx_index = s.tx_index /\ u.receipts = s.receipts
      /\ u.objects = s.objects
  BY <1>2 DEF Only, Keys
<1>4. /\ Only(u, t, {"tx_index", "receipts", "objects"})
      /\ t.tx_index = Append(u.tx_index, h)
      /\ Recording(u, t, h, Receipt(d, r), Object(d, r))
  BY <1>1, <1>3, StoreTransactionFrame
<1>5. /\ IsStorage(t)
      /\ t.base_fee = u.base_fee /\ t.current = u.current /\ t.blocks = u.blocks
      /\ t.bip = u.bip /\ t.accounts = u.accounts /\ t.accounts_index = u.accounts_index
  BY <1>4 DEF Only, Keys
<1>6. d.index = b.index /\ d.number = b.number /\ d.cumulative_gas = b.cumulative_gas
  BY <1>1 DEF QueueTail, Bips
<1>7. Receipt(d, r) = Receipt(b, r) /\ Object(d, r) = Object(b, r)
  BY <1>6 DEF Receipt, Object
<1>8. Recording(s, t, h, Receipt(b, r), Object(b, r))
  BY <1>3, <1>4, <1>7 DEF Recording
<1>9. /\ c \in Bips
      /\ c.number = b.number /\ c.parent_hash = b.parent_hash /\ c.index = b.index + 1
      /\ c.valid_txs = Append(b.valid_txs, h) /\ c.cumulative_gas = b.cumulative_gas + r.gas
  BY <1>1, <1>2, RegisterFrame
<1>10. StoredTx(s, b, t, c, h, r)
  BY <1>1, <1>3, <1>4, <1>5, <1>8, <1>9 DEF StoredTx
<1>11. Only(s, t, {"accounts", "accounts_index"} \cup {"tx_index", "receipts", "objects"})
  BY <1>2, <1>4, OnlyTrans
<1>12. {"accounts", "accounts_index"} \cup {"tx_index", "receipts", "objects"}
         = {"accounts", "accounts_index", "tx_index", "receipts", "objects"}
  OBVIOUS
<1> QED BY <1>1, <1>10, <1>11, <1>12

\* The executed transactions are a sequence.
LEMMA ExecutedSeq ==
    ASSUME NEW s, s.blocks \in Seq(BlockSet)
    PROVE  /\ [i \in DOMAIN s.blocks |-> s.blocks[i].txs] \in Seq(Seq(Hashes))
           /\ Executed(s) \in Seq(Hashes)
<1>1. PICK n \in Nat : n = Len(s.blocks) /\ DOMAIN s.blocks = 1 .. n
  BY LenProperties
<1>2. PICK ss : ss = [i \in DOMAIN s.blocks |-> s.blocks[i].txs]
  OBVIOUS
<1>3. \A i \in 1 .. n : s.blocks[i].txs \in Seq(Hashes)
  <2>1. \A i \in 1 .. n : s.blocks[i] \in BlockSet
    BY <1>1, ElementOfSeq
  <2> QED BY <2>1 DEF BlockSet
<1>4. ss = [i \in 1 .. n |-> s.blocks[i].txs]
  BY <1>1, <1>2
<1>5. ss \in Seq(Seq(Hashes))
  BY <1>3, <1>4, IsASeq
<1>6. <<>> \in Seq(Hashes)
  OBVIOUS
<1>7. FlattenSeq(ss) \in Seq(Hashes)
  BY <1>5, <1>6, FlattenAppend
<1> QED BY <1>2, <1>5, <1>7 DEF Executed

LEMMA TxTyped ==
    ASSUME NEW s, StorageOK(s), NEW b \in Bips, NEW t, NEW c, NEW h \in Hashes, NEW r, NEW v,
           AppliedOK(s, r, v), StoredTx(s, b, t, c, h, r), h \notin DOMAIN s.receipts
    PROVE  StorageOK(t)
<1>1. t.accounts \in AccountsMap /\ t.accounts_index \in Seq(Addresses)
  BY DEF AppliedOK, StoredTx, IndexOK
<1>2. t.tx_index \in Seq(Hashes)
  BY AppendProperties DEF StorageOK, StoredTx
<1>3. Receipt(b, r) \in Receipts /\ Object(b, r) \in Objects
  BY DEF Receipt, Object, Receipts, Objects, Bips, AppliedOK
<1>4. /\ DOMAIN t.receipts = DOMAIN s.receipts \cup {h} /\ DOMAIN t.objects = DOMAIN t.receipts
      /\ \A k \in DOMAIN s.receipts : t.receipts[k] = s.receipts[k] /\ t.objects[k] = s.objects[k]
      /\ t.receipts[h] = Receipt(b, r) /\ t.objects[h] = Object(b, r)
  BY RecordingKeeps DEF StorageOK, StoredTx
<1>5. \A k \in DOMAIN s.receipts : s.receipts[k] \in Receipts /\ s.objects[k] \in Objects
  BY DEF StorageOK
<1>6. \A k \in DOMAIN t.receipts : t.receipts[k] \in Receipts /\ t.objects[k] \in Objects
  BY <1>3, <1>4, <1>5
<1>7. t.receipts = [k \in DOMAIN t.receipts |-> t.receipts[k]]
      /\ t.objects = [k \in DOMAIN t.objects |-> t.objects[k]]
  BY DEF StoredTx, Recording
<1>8. t.receipts \in [DOMAIN t.receipts -> Receipts] /\ t.objects \in [DOMAIN t.receipts -> Objects]
  BY <1>4, <1>6, <1>7
<1>9. DOMAIN t.receipts \subseteq Hashes
  BY <1>4 DEF StorageOK
<1> QED BY <1>1, <1>2, <1>8, <1>9 DEF StorageOK, StoredTx

LEMMA TxIndexed ==
    ASSUME NEW s, NEW b \in Bips, Chain(s, b), NEW t, NEW c, NEW h \in Hashes, NEW r, NEW v,
           AppliedOK(s, r, v), StoredTx(s, b, t, c, h, r), h \notin DOMAIN s.receipts
    PROVE  Indexed(t, c)
<1>1. b # None /\ c # None
  BY NoneAssumption DEF StoredTx
<1>2. PICK e, w : e = Executed(s) /\ w = b.valid_txs
  OBVIOUS
<1>3. e \in Seq(Hashes) /\ w \in Seq(Hashes) /\ Executed(t) = e
  <2>1. Executed(t) = Executed(s)
    BY DEF Executed, StoredTx
  <2> QED BY <1>2, <2>1, ExecutedSeq DEF Chain, StorageOK, Bips
<1>4. s.tx_index = e \o w
  BY <1>1, <1>2 DEF Chain, Indexed, ValidTxs
<1>5. Append(e \o w, h) = e \o Append(w, h)
  BY <1>3
<1>6. t.tx_index = Executed(t) \o ValidTxs(c)
  BY <1>1, <1>2, <1>3, <1>4, <1>5 DEF StoredTx, ValidTxs
<1>7. /\ DOMAIN t.receipts = DOMAIN s.receipts \cup {h} /\ DOMAIN t.objects = DOMAIN t.receipts
      /\ \A k \in DOMAIN s.receipts : t.receipts[k] = s.receipts[k] /\ t.objects[k] = s.objects[k]
      /\ t.receipts[h] = Receipt(b, r) /\ t.objects[h] = Object(b, r)
  BY RecordingKeeps DEF Chain, StorageOK, StoredTx
<1>8. /\ IsInjective(t.tx_index) /\ Range(t.tx_index) = Range(s.tx_index) \cup {h}
  <2>1. /\ s.tx_index \in Seq(Hashes) /\ IsInjective(s.tx_index) /\ h \notin Range(s.tx_index)
    BY DEF Chain, StorageOK, Indexed
  <2> QED BY <2>1, AppendIndex DEF StoredTx
<1>9. DOMAIN t.receipts = Range(t.tx_index)
  BY <1>7, <1>8 DEF Chain, Indexed
<1>10. IsInjective(t.accounts_index)
  BY DEF AppliedOK, IndexOK, StoredTx
<1>11. \A k \in DOMAIN t.objects :
          {t.objects[k].from, t.objects[k].to} \subseteq Range(t.accounts_index)
  <2>1. Object(b, r).from = r.caller /\ Object(b, r).to = r.to
    BY DEF Object
  <2>2. /\ {r.caller, r.to} \subseteq Range(t.accounts_index)
        /\ Range(s.accounts_index) \subseteq Range(t.accounts_index)
    BY DEF AppliedOK, StoredTx
  <2>3. DOMAIN s.objects = DOMAIN s.receipts
    BY DEF Chain, StorageOK
  <2>4. \A k \in DOMAIN s.objects :
          {s.objects[k].from, s.objects[k].to} \subseteq Range(s.accounts_index)
    BY DEF Chain, Indexed
  <2> QED BY <1>7, <2>1, <2>2, <2>3, <2>4
<1> QED BY <1>6, <1>8, <1>9, <1>10, <1>11 DEF Indexed

LEMMA TxReceipted ==
    ASSUME NEW s, NEW b \in Bips, Chain(s, b), NEW t, NEW c, NEW h \in Hashes, NEW r, NEW v,
           AppliedOK(s, r, v), StoredTx(s, b, t, c, h, r), h \notin DOMAIN s.receipts
    PROVE  Receipted(t, c)
<1>1. b # None /\ c # None /\ b.valid_txs \in Seq(Hashes)
  BY NoneAssumption DEF StoredTx, Bips
<1>2. DOMAIN s.objects = DOMAIN s.receipts
  BY DEF Chain, StorageOK
<1>3. /\ DOMAIN t.receipts = DOMAIN s.receipts \cup {h}
      /\ \A k \in DOMAIN s.receipts : t.receipts[k] = s.receipts[k] /\ t.objects[k] = s.objects[k]
  BY <1>2, RecordingKeeps DEF StoredTx
<1>4. ASSUME NEW i \in DOMAIN s.blocks
      PROVE  Recorded(t, s.blocks[i].number, s.blocks[i].txs, s.blocks[i].gas)
  <2>1. s.blocks[i] \in BlockSet
    BY ElementOfSeq, LenProperties DEF Chain, StorageOK
  <2>2. PICK txs \in Seq(Hashes) : txs = s.blocks[i].txs
    BY <2>1 DEF BlockSet
  <2>3. Recorded(s, s.blocks[i].number, txs, s.blocks[i].gas)
    BY <2>2 DEF Chain, Receipted
  <2>4. DOMAIN s.receipts \subseteq DOMAIN t.receipts
    BY <1>3
  <2>5. Recorded(t, s.blocks[i].number, txs, s.blocks[i].gas)
    BY <1>3, <2>3, <2>4, RecordedKept
  <2> QED BY <2>2, <2>5
<1>5. Recorded(t, c.number, c.valid_txs, c.cumulative_gas)
  <2>1. Recorded(s, b.number, b.valid_txs, b.cumulative_gas) /\ b.index = Len(b.valid_txs)
    BY <1>1 DEF Chain, Receipted, Links
  <2>2. PICK receipt, object : receipt = Receipt(b, r) /\ object = Object(b, r)
    OBVIOUS
  <2>3. /\ receipt.block_number = b.number /\ receipt.index = Len(b.valid_txs)
        /\ object.index = Len(b.valid_txs) /\ receipt.cumulative_gas = b.cumulative_gas + r.gas
    BY <2>1, <2>2 DEF Receipt, Object
  <2>4. Recording(s, t, h, receipt, object)
    BY <2>2 DEF StoredTx
  <2>5. Recorded(t, b.number, Append(b.valid_txs, h), receipt.cumulative_gas)
    BY <1>1, <1>2, <2>1, <2>3, <2>4, RecordedMore
  <2> QED BY <2>3, <2>5 DEF StoredTx
<1> QED BY <1>4, <1>5 DEF Receipted, StoredTx

LEMMA ChainTx ==
    ASSUME NEW s, NEW b \in Bips, Chain(s, b), s.base_fee = BaseFee, NEW t, NEW c,
           NEW h \in Hashes, NEW r, AppliedOK(s, r, Added(h, r.gas, r.value)),
           StoredTx(s, b, t, c, h, r), h \notin DOMAIN s.receipts,
           h \in DOMAIN Tx =>
             Tx[h].caller \in Addresses /\ r.st.accounts[Tx[h].caller].nonce > Tx[h].nonce
    PROVE  Chain(t, c)
<1>1. StorageOK(s) /\ DOMAIN s.objects = DOMAIN s.receipts /\ b # None /\ c # None
  BY NoneAssumption DEF Chain, StorageOK, StoredTx
<1>2. StorageOK(t)
  BY <1>1, TxTyped
<1>3. Indexed(t, c)
  BY TxIndexed
<1>4. Receipted(t, c)
  BY TxReceipted
<1>5. Links(t, c)
  <2>1. b.valid_txs \in Seq(Hashes)
    BY DEF Bips
  <2>2. Len(Append(b.valid_txs, h)) = Len(b.valid_txs) + 1
    BY <2>1, AppendProperties
  <2> QED BY <1>1, <2>2 DEF Chain, Links, ParentOf, StoredTx
<1>6. /\ DOMAIN t.receipts = DOMAIN s.receipts \cup {h}
  BY <1>1, RecordingKeeps DEF StoredTx
<1>7. NoncesGrow(t)
  <2>1. \A a \in Addresses : t.accounts[a].nonce >= s.accounts[a].nonce
    BY DEF AppliedOK, StoredTx
  <2>2. \A a \in Addresses : t.accounts[a].nonce \in Nat /\ s.accounts[a].nonce \in Nat
    BY <1>1, <1>2 DEF StorageOK, AccountsMap
  <2>3. ASSUME NEW k \in DOMAIN t.receipts \cap DOMAIN Tx
        PROVE  Tx[k].caller \in Addresses /\ t.accounts[Tx[k].caller].nonce > Tx[k].nonce
    <3>1. CASE k = h
      BY <2>3, <3>1 DEF StoredTx
    <3>2. CASE k # h
      <4>1. Tx[k].caller \in Addresses /\ s.accounts[Tx[k].caller].nonce > Tx[k].nonce
        BY <1>6, <2>3, <3>2 DEF Chain, NoncesGrow
      <4>2. Tx[k].nonce \in Nat
        BY <2>3, TxAssumption
      <4>3. PICK a \in Addresses : a = Tx[k].caller
        BY <4>1
      <4> QED BY <2>1, <2>2, <4>1, <4>2, <4>3
    <3> QED BY <3>1, <3>2
  <2> QED BY <2>3 DEF NoncesGrow
<1>8. Balanced(t)
  <2>1. PICK receipt, object : receipt = Receipt(b, r) /\ object = Object(b, r)
    OBVIOUS
  <2>2. Recording(s, t, h, receipt, object) /\ t.base_fee = BaseFee /\ t.accounts = r.st.accounts
    BY <2>1 DEF StoredTx
  <2>3. receipt.gas_used = r.gas /\ object.value = r.value
    BY <2>1 DEF Receipt, Object
  <2>4. SumFunction(Balances(t.accounts))
          = SumFunction(Balances(s.accounts)) + Added(h, receipt.gas_used, object.value)
    BY <2>2, <2>3 DEF AppliedOK
  <2>5. Balanced(s)
    BY DEF Chain
  <2> QED BY <1>1, <1>2, <2>2, <2>4, <2>5, BalancedMore
<1> QED BY <1>2, <1>3, <1>4, <1>5, <1>7, <1>8 DEF Chain, StoredTx

-----------------------------------------------------------------------------
(* The end of a block.                                                     *)

\* t is the storage s with the block b.
BlockStored(s, b, t) ==
    /\ t.accounts = s.accounts /\ t.base_fee = s.base_fee /\ t.tx_index = s.tx_index
    /\ t.accounts_index = s.accounts_index /\ t.receipts = s.receipts /\ t.objects = s.objects
    /\ t.blocks = Append(s.blocks, Block(b))
    /\ t.current = [number |-> b.number, hash |-> BlockHash(Block(b))]
    /\ t.bip \in Bips \cup {None}

LEMMA BlockTyped ==
    ASSUME NEW b \in Bips
    PROVE  Block(b) \in BlockSet /\ BlockHash(Block(b)) \in BlockHashes
<1>1. PICK k : k = Block(b)
  OBVIOUS
<1>2. k \in BlockSet
  BY <1>1 DEF Block, BlockSet, Bips
<1>3. BlockHash(k) \in BlockHashes
  BY <1>2 DEF BlockHash, BlockHashes, BlockSet
<1> QED BY <1>1, <1>2, <1>3

LEMMA BlockLinks ==
    ASSUME NEW s, NEW b \in Bips, Chain(s, b), NEW t, BlockStored(s, b, t)
    PROVE  Links(t, None)
<1>1. s.blocks \in Seq(BlockSet) /\ b # None
  BY NoneAssumption DEF Chain, StorageOK
<1>2. PICK n \in Nat : n = Len(s.blocks) /\ DOMAIN s.blocks = 1 .. n
  BY <1>1, LenProperties
<1>3. PICK k \in BlockSet : k = Block(b)
  BY BlockTyped
<1>4. /\ Len(t.blocks) = n + 1 /\ DOMAIN t.blocks = 1 .. n + 1 /\ t.blocks[n + 1] = k
      /\ \A i \in 1 .. n : t.blocks[i] = s.blocks[i]
  BY <1>1, <1>2, <1>3, AppendProperties DEF BlockStored
<1>5. \A j \in 0 .. n : ParentOf(t, j) = ParentOf(s, j)
  <2> SUFFICES ASSUME NEW j \in 0 .. n PROVE ParentOf(t, j) = ParentOf(s, j)
    OBVIOUS
  <2>1. CASE j = 0
    BY <2>1 DEF ParentOf
  <2>2. CASE j # 0
    <3>1. j \in 1 .. n
      BY <2>2
    <3> QED BY <1>4, <3>1 DEF ParentOf
  <2> QED BY <2>1, <2>2
<1>6. b.number = n /\ b.parent_hash = ParentOf(s, n)
  BY <1>1, <1>2 DEF Chain, Links
<1>7. k.number = b.number /\ k.parent = b.parent_hash
  BY <1>3 DEF Block
<1>8. ASSUME NEW i \in DOMAIN t.blocks
      PROVE  t.blocks[i].number = i - 1 /\ t.blocks[i].parent = ParentOf(t, i - 1)
  <2>1. i \in 1 .. n + 1 /\ i - 1 \in 0 .. n
    BY <1>4
  <2>2. CASE i = n + 1
    <3>1. i - 1 = n /\ t.blocks[i] = k
      BY <1>4, <2>2
    <3>2. ParentOf(t, i - 1) = ParentOf(s, n)
      BY <1>5, <2>1, <3>1
    <3> QED BY <1>6, <1>7, <3>1, <3>2
  <2>3. CASE i # n + 1
    <3>1. i \in 1 .. n
      BY <2>1, <2>3
    <3>2. s.blocks[i].number = i - 1 /\ s.blocks[i].parent = ParentOf(s, i - 1)
      BY <1>2, <3>1 DEF Chain, Links
    <3>3. t.blocks[i] = s.blocks[i] /\ ParentOf(t, i - 1) = ParentOf(s, i - 1)
      BY <1>4, <1>5, <2>1, <3>1
    <3> QED BY <3>2, <3>3
  <2> QED BY <2>2, <2>3
<1>9. t.current = IF Len(t.blocks) = 0 THEN None
                  ELSE [number |-> Len(t.blocks) - 1, hash |-> ParentOf(t, Len(t.blocks))]
  <2>1. n + 1 # 0 /\ (n + 1) - 1 = n
    OBVIOUS
  <2>2. ParentOf(t, n + 1) = BlockHash(k)
    BY <1>4, <2>1 DEF ParentOf
  <2>3. t.current = [number |-> n, hash |-> BlockHash(k)]
    BY <1>3, <1>6 DEF BlockStored
  <2> QED BY <1>4, <2>1, <2>2, <2>3
<1> QED BY <1>8, <1>9 DEF Links

LEMMA BlockExecuted ==
    ASSUME NEW s, NEW b \in Bips, Chain(s, b), NEW t, BlockStored(s, b, t)
    PROVE  Executed(t) = Executed(s) \o b.valid_txs
<1>1. s.blocks \in Seq(BlockSet) /\ b.valid_txs \in Seq(Hashes)
  BY DEF Chain, StorageOK, Bips
<1>2. PICK n \in Nat : n = Len(s.blocks) /\ DOMAIN s.blocks = 1 .. n
  BY <1>1, LenProperties
<1>3. PICK k \in BlockSet : k = Block(b)
  BY BlockTyped
<1>4. /\ t.blocks \in Seq(BlockSet)
      /\ Len(t.blocks) = n + 1 /\ DOMAIN t.blocks = 1 .. n + 1 /\ t.blocks[n + 1] = k
      /\ \A i \in 1 .. n : t.blocks[i] = s.blocks[i]
  BY <1>1, <1>2, <1>3, AppendProperties DEF BlockStored
<1>5. k.txs = b.valid_txs
  BY <1>3 DEF Block
<1>6. PICK ss, tt, x : /\ ss = [i \in DOMAIN s.blocks |-> s.blocks[i].txs]
                       /\ tt = [i \in DOMAIN t.blocks |-> t.blocks[i].txs] /\ x = b.valid_txs
  OBVIOUS
<1>7. ss \in Seq(Seq(Hashes)) /\ tt \in Seq(Seq(Hashes)) /\ x \in Seq(Hashes)
  BY <1>1, <1>4, <1>6, ExecutedSeq
<1>8. DOMAIN ss = 1 .. n /\ \A i \in 1 .. n : ss[i] = s.blocks[i].txs
  BY <1>2, <1>6
<1>9. DOMAIN tt = 1 .. n + 1 /\ \A i \in 1 .. n + 1 : tt[i] = t.blocks[i].txs
  BY <1>4, <1>6
<1>10. Len(ss) = n /\ Len(tt) = n + 1
  BY <1>7, <1>8, <1>9, LenProperties
<1>11. PICK uu : uu = Append(ss, x)
  OBVIOUS
<1>12. /\ uu \in Seq(Seq(Hashes)) /\ Len(uu) = n + 1 /\ uu[n + 1] = x
       /\ \A i \in 1 .. n : uu[i] = ss[i]
  BY <1>7, <1>10, <1>11, AppendProperties
<1>13. \A i \in 1 .. n + 1 : tt[i] = uu[i]
  <2> SUFFICES ASSUME NEW i \in 1 .. n + 1 PROVE tt[i] = uu[i]
    OBVIOUS
  <2>1. CASE i = n + 1
    BY <1>4, <1>5, <1>6, <1>9, <1>12, <2>1
  <2>2. CASE i # n + 1
    <3>1. i \in 1 .. n
      BY <2>2
    <3> QED BY <1>4, <1>8, <1>9, <1>12, <3>1
  <2> QED BY <2>1, <2>2
<1>14. tt = uu
  <2>1. Len(tt) = Len(uu) /\ \A i \in 1 .. Len(tt) : tt[i] = uu[i]
    BY <1>10, <1>12, <1>13
  <2> QED BY <1>7, <1>12, <2>1, SeqEqual
<1>15. FlattenSeq(Append(ss, x)) = FlattenSeq(ss) \o x
  BY <1>7, FlattenAppend
<1> QED BY <1>6, <1>11, <1>14, <1>15 DEF Executed

LEMMA ChainBlock ==
    ASSUME NEW s, NEW b \in Bips, Chain(s, b), NEW t, BlockStored(s, b, t)
    PROVE  Chain(t, None)
<1>1. /\ s.blocks \in Seq(BlockSet) /\ b # None /\ b.valid_txs \in Seq(Hashes)
      /\ Executed(s) \in Seq(Hashes)
  BY NoneAssumption, ExecutedSeq DEF Chain, StorageOK, Bips
<1>2. PICK n \in Nat : n = Len(s.blocks) /\ DOMAIN s.blocks = 1 .. n
  BY <1>1, LenProperties
<1>3. PICK k \in BlockSet : k = Block(b) /\ BlockHash(k) \in BlockHashes
  BY BlockTyped
<1>4. /\ t.blocks \in Seq(BlockSet) /\ DOMAIN t.blocks = 1 .. n + 1 /\ t.blocks[n + 1] = k
      /\ \A i \in 1 .. n : t.blocks[i] = s.blocks[i]
  BY <1>1, <1>2, <1>3, AppendProperties DEF BlockStored
<1>5. StorageOK(t)
  <2>1. t.current \in Heads
    BY <1>3 DEF BlockStored, Heads, Bips
  <2> QED BY <1>4, <2>1 DEF Chain, StorageOK, BlockStored
<1>6. Links(t, None)
  BY BlockLinks
<1>7. Indexed(t, None)
  <2>1. s.tx_index = Executed(s) \o b.valid_txs
    BY <1>1 DEF Chain, Indexed, ValidTxs
  <2>2. PICK e : e = Executed(s) \o b.valid_txs
    OBVIOUS
  <2>3. e \in Seq(Hashes)
    BY <1>1, <2>2, ConcatProperties
  <2>4. e \o <<>> = e
    BY <2>3, ConcatEmptySeq
  <2>5. t.tx_index = Executed(t) \o ValidTxs(None)
    BY <2>1, <2>2, <2>4, BlockExecuted DEF ValidTxs, BlockStored
  <2> QED BY <2>5 DEF Chain, Indexed, BlockStored
<1>8. Receipted(t, None)
  <2>1. \A number, txs, gas : Recorded(t, number, txs, gas) = Recorded(s, number, txs, gas)
    BY DEF Recorded, BlockStored
  <2>2. ASSUME NEW i \in DOMAIN t.blocks
        PROVE  Recorded(t, t.blocks[i].number, t.blocks[i].txs, t.blocks[i].gas)
    <3>1. CASE i = n + 1
      <4>1. k.number = b.number /\ k.txs = b.valid_txs /\ k.gas = b.cumulative_gas
        BY <1>3 DEF Block
      <4>2. Recorded(s, b.number, b.valid_txs, b.cumulative_gas)
        BY <1>1 DEF Chain, Receipted
      <4> QED BY <1>4, <2>1, <3>1, <4>1, <4>2
    <3>2. CASE i # n + 1
      <4>1. i \in 1 .. n
        BY <1>4, <2>2, <3>2
      <4>2. Recorded(s, s.blocks[i].number, s.blocks[i].txs, s.blocks[i].gas)
        BY <1>2, <4>1 DEF Chain, Receipted
      <4> QED BY <1>4, <2>1, <4>1, <4>2
    <3> QED BY <3>1, <3>2
  <2> QED BY <2>2 DEF Receipted
<1>9. NoncesGrow(t)
  BY DEF Chain, NoncesGrow, BlockStored
<1>10. Effect(t) = Effect(s)
  BY DEF Effect, BlockStored
<1>11. Balanced(t)
  BY <1>10 DEF Chain, Balanced, BlockStored
<1> QED BY <1>5, <1>6, <1>7, <1>8, <1>9, <1>11 DEF Chain

\* Nothing of the queue is left.
LEMMA DepositedEnd ==
    ASSUME NEW s, BaseOK(s), NEW b \in Bips, Chain(s, b), Deposited(s, b, <<>>), b.tx_queue = <<>>,
           NEW t, BlockStored(s, b, t), Fewer(s, t), t.delayed = s.delayed,
           t.deposit_nonce = s.deposit_nonce
    PROVE  Deposited(t, None, <<>>)
<1>1. b # None /\ s.blocks \in Seq(BlockSet)
  BY NoneAssumption DEF Chain, StorageOK
<1>2. PICK n \in Nat : n = Len(s.blocks)
  BY <1>1, LenProperties
<1>3. Len(t.blocks) = n + 1
  BY <1>1, <1>2, BlockTyped, AppendProperties DEF BlockStored
<1>4. LastBlock(s, b) = n /\ LastBlock(t, None) = (n + 1) - 1
  BY <1>1, <1>2, <1>3 DEF LastBlock
<1>5. LastBlock(s, b) \in Int /\ LastBlock(t, None) \in Int /\ LastBlock(t, None) >= LastBlock(s, b)
  BY <1>4
<1>6. DOMAIN t.blueprints \subseteq Int
  BY DEF BaseOK, Fewer, BlueprintsOK
<1>7. AwaitedLess(s, b, t, None)
  BY <1>5, <1>6, AwaitedFewer
<1>8. DelayedLess(s.delayed, t.delayed)
  BY DEF DelayedLess
<1>9. Queue(None) = <<>>
  BY DEF Queue
<1>10. IsQueue(Queue(None)) /\ DepositsIn(Queue(None)) \subseteq DepositsIn(Queue(b))
  BY <1>9, NoDeposits
<1>11. IsQueue(<<>>) /\ DepositsIn(<<>>) \subseteq DepositsIn(<<>>)
  BY NoDeposits
<1>12. DOMAIN t.receipts = DOMAIN s.receipts
  BY DEF BlockStored
<1> QED BY <1>7, <1>8, <1>10, <1>11, <1>12, DepositedLess

-----------------------------------------------------------------------------
(* The storage stays sound: steps that leave the chain alone.              *)

LEMMA SoundSame ==
    ASSUME NEW s, NEW t, NEW b, NEW c, Sound(s, b, c), NEW C, Only(s, t, C),
           C \cap (ChainKeys \cup {"delayed", "deposit_nonce", "blueprints"}) = {},
           t.bip \in Bips \cup {None}
    PROVE  Sound(t, b, c)
<1>1. SameChain(s, t)
  BY OnlyChain
<1>2. Chain(t, b)
  BY <1>1, ChainSame DEF Sound
<1>3. /\ t.deposit_nonce = s.deposit_nonce /\ t.delayed = s.delayed
      /\ t.blueprints = s.blueprints
  BY DEF Only, Keys
<1>4. t.blocks = s.blocks /\ t.receipts = s.receipts
  BY <1>1 DEF SameChain
<1>5. AwaitedLess(s, b, t, b) /\ InBlueprints(t, b) = InBlueprints(s, b)
  BY <1>3, <1>4, AwaitedSame
<1>6. \A k \in AwaitedInbox(t, b) : IsQueue(TxsOf(t, k))
  BY <1>5 DEF Sound, Deposited, AwaitedLess
<1>7. Deposited(t, b, c)
  BY <1>3, <1>4, <1>5, <1>6 DEF Sound, Deposited
<1> QED BY <1>2, <1>7 DEF Sound

\* A run ends, and its storage is promoted.
LEMMA PromoteSound ==
    ASSUME NEW st, IsStorage(st), Sound(st, st.bip, <<>>), Promote(st), IsSequence(outbox'),
           ~failed => Posted(outbox', DOMAIN st.receipts)
    PROVE  IInv'
<1>1. PICK e : e = [st EXCEPT !.boot = None]
  OBVIOUS
<1>2. Only(st, e, {"boot"})
  BY <1>1, StartFrame
<1>3. e.bip = st.bip /\ e.receipts = st.receipts
  BY <1>2 DEF Only, Keys
<1>4. st.bip \in Bips \cup {None}
  BY DEF Sound, Chain, StorageOK
<1>5. Sound(e, e.bip, <<>>)
  BY <1>2, <1>3, <1>4, SoundSame DEF ChainKeys
<1>6. evm' = e /\ run'.pc = "idle" /\ failed' = failed
  BY <1>1 DEF Promote, NoRun
<1>7. Sound(evm', evm'.bip, <<>>)
  BY <1>5, <1>6
<1>8. RunSound(run', tmp')
  BY <1>6 DEF RunSound
<1>9. ~failed' => Posted(outbox', DOMAIN evm'.receipts)
  BY <1>3, <1>6
<1> QED BY <1>6, <1>7, <1>8, <1>9 DEF IInv

\* A run fails.
LEMMA FailSound ==
    ASSUME IInv, Fail, IsSequence(outbox')
    PROVE  IInv'
<1>1. evm' = evm /\ run'.pc = "idle" /\ failed' = TRUE
  BY DEF Fail, NoRun
<1>2. Sound(evm', evm'.bip, <<>>)
  BY <1>1 DEF IInv
<1>3. RunSound(run', tmp')
  BY <1>1 DEF RunSound
<1> QED BY <1>1, <1>2, <1>3 DEF IInv

\* A run goes on, with the storage t.
LEMMA RunsOn ==
    ASSUME IInv, evm' = evm, failed' = failed, NEW t, NEW r, tmp' = t, run' = r, r.pc # "idle",
           RunSound(r, t), IsSequence(outbox'), ~failed => Posted(outbox', DOMAIN t.receipts)
    PROVE  IInv'
<1>1. Sound(evm', evm'.bip, <<>>)
  BY DEF IInv
<1>2. RunSound(run', tmp')
  OBVIOUS
<1>3. ~failed' => Posted(outbox', DOMAIN tmp'.receipts)
  OBVIOUS
<1> QED BY <1>1, <1>2, <1>3 DEF IInv

\* Nothing happens to the storage.
LEMMA SoundUnchanged ==
    ASSUME IInv, evm' = evm, tmp' = tmp, run' = run, outbox' = outbox, failed' = failed
    PROVE  IInv'
BY DEF IInv

LEMMA SoundMigrate ==
    ASSUME BaseInv, IInv, Migrate
    PROVE  IInv'
<1> DEFINE u == [Started EXCEPT !.storage_version = StorageVersion[boot]]
<1>0. IsStorage(evm) /\ Sound(evm, evm.bip, <<>>) /\ evm.bip \in Bips \cup {None}
  BY DEF BaseInv, BaseOK, IInv, Sound, Chain, StorageOK
<1>1. Only(evm, Started, {"chain_id", "storage_version"})
  BY <1>0, StartedFrame
<1>2. IsStorage(Started)
  BY <1>1 DEF Only
<1>3. Only(Started, u, {"storage_version"})
  BY <1>2, StartFrame
<1> HIDE DEF u
<1>4. IsStorage(u)
  BY <1>3 DEF Only
<1>5. PICK v : v = set_kernel_version(u)
  OBVIOUS
<1>6. Only(u, v, {"kernel_version"})
  BY <1>4, <1>5, StartFrame
<1>7. PICK C : C = ({"chain_id", "storage_version"} \cup {"storage_version"}) \cup {"kernel_version"}
  OBVIOUS
<1>8. Only(evm, v, C)
  BY <1>1, <1>3, <1>6, <1>7, OnlyTrans
<1>9. C \cap (ChainKeys \cup {"delayed", "deposit_nonce", "blueprints"}) = {}
  BY <1>7 DEF ChainKeys
<1>10. v.bip = evm.bip /\ v.receipts = evm.receipts /\ IsStorage(v)
  BY <1>7, <1>8 DEF Only, Keys
<1>11. Sound(v, v.bip, <<>>)
  BY <1>0, <1>8, <1>9, <1>10, SoundSame
<1>12. Promote(v) /\ outbox' = outbox /\ run.pc = "idle"
  BY <1>5 DEF Migrate, u
<1>13. IsSequence(outbox') /\ (~failed => Posted(outbox', DOMAIN v.receipts))
  BY <1>10, <1>12 DEF IInv
<1> QED BY <1>10, <1>11, <1>12, <1>13, PromoteSound

LEMMA SoundLoop ==
    ASSUME BaseInv, IInv, kernel_loop
    PROVE  IInv'
<1>0. IsStorage(evm) /\ Sound(evm, evm.bip, <<>>) /\ StorageOK(evm) /\ run.pc = "idle"
  BY DEF BaseInv, BaseOK, IInv, Sound, Chain, kernel_loop
<1>1. PICK t : t = StartedFees
  OBVIOUS
<1>2. /\ Only(evm, t, StartKeys)
      /\ t.base_fee = IF evm.base_fee = None THEN BaseFee ELSE evm.base_fee
  BY <1>0, <1>1, StartedFrame
<1>3. PICK f : f = [evm EXCEPT !.base_fee = BaseFee]
  OBVIOUS
<1>4. Only(evm, f, {"base_fee"}) /\ f.base_fee = BaseFee
  BY <1>0, <1>3 DEF IsStorage, Only, Keys
<1>5. t.base_fee = BaseFee
  BY <1>0, <1>2 DEF StorageOK
<1>6. Only(f, t, {"chain_id", "kernel_version", "storage_version"})
  BY <1>2, <1>4, <1>5 DEF Only, StartKeys, Keys
<1>7. f.bip = evm.bip /\ t.bip = evm.bip /\ t.receipts = evm.receipts
  BY <1>2, <1>4 DEF Only, StartKeys, Keys
<1>8. evm.bip \in Bips \cup {None}
  BY <1>0 DEF StorageOK
<1>9. Chain(f, evm.bip)
  BY <1>0, <1>3, ChainFees DEF Sound
<1>10. Deposited(f, evm.bip, <<>>)
  <2>1. /\ f.deposit_nonce = evm.deposit_nonce /\ f.delayed = evm.delayed
        /\ f.blueprints = evm.blueprints /\ f.blocks = evm.blocks /\ f.receipts = evm.receipts
    BY <1>4 DEF Only, Keys
  <2>2. AwaitedLess(evm, evm.bip, f, evm.bip) /\ DelayedLess(evm.delayed, f.delayed)
    BY <2>1, AwaitedSame DEF DelayedLess
  <2>3. Deposited(evm, evm.bip, <<>>) /\ IsQueue(Queue(evm.bip))
    BY <1>0 DEF Sound, Deposited
  <2> QED BY <2>1, <2>2, <2>3, NoDeposits, DepositedLess
<1>11. Sound(t, t.bip, <<>>)
  <2>1. Sound(f, evm.bip, <<>>)
    BY <1>9, <1>10 DEF Sound
  <2>2. {"chain_id", "kernel_version", "storage_version"}
          \cap (ChainKeys \cup {"delayed", "deposit_nonce", "blueprints"}) = {}
    BY DEF ChainKeys
  <2> QED BY <1>6, <1>7, <1>8, <2>1, <2>2, SoundSame
<1>12. PICK r : r = [pc |-> "inbox", config |-> fetch_configuration(t), content |-> NoContent,
                     empty |-> TRUE]
  OBVIOUS
<1>13. /\ tmp' = t /\ run' = r /\ evm' = evm /\ outbox' = outbox /\ failed' = failed
  BY <1>1, <1>12 DEF kernel_loop, StartedFees
<1>14. r.pc = "inbox" /\ ContentOf(r) = <<>>
  BY <1>12 DEF ContentOf, NoContent
<1>15. BipOf(r, t) = t.bip
  BY <1>14 DEF BipOf
<1>16. RunSound(r, t)
  BY <1>5, <1>11, <1>14, <1>15 DEF RunSound
<1>17. IsSequence(outbox') /\ (~failed => Posted(outbox', DOMAIN t.receipts))
  BY <1>0, <1>7, <1>13 DEF IInv
<1> QED BY <1>13, <1>14, <1>16, <1>17, RunsOn

LEMMA SoundReadInput ==
    ASSUME BaseInv, IInv, ReadInput
    PROVE  IInv'
<1>0. run.pc = "inbox" /\ outbox' = outbox /\ evm' = evm /\ failed' = failed
  BY DEF ReadInput
<1>1. InputStep
  BY ReadInputStep
<1>2. PICK i, t, d : /\ i = read_input(tmp, run.content, Head(rollup.inbox), run.config)
                     /\ t = i.st /\ d = i.content
  OBVIOUS
<1>3. /\ tmp' = t /\ Only(tmp, t, InputKeys) /\ Collected(tmp, run.content, t, d)
      /\ run' = [pc |-> "inbox", config |-> run.config, content |-> d, empty |-> FALSE]
  BY <1>1, <1>2 DEF InputStep
<1>4. tmp.deposit_nonce \in Nat
  BY <1>0 DEF BaseInv, BaseOK
<1>5. BipOf(run, tmp) = tmp.bip /\ ContentOf(run) = run.content.transactions
  BY <1>0 DEF BipOf, ContentOf
<1>6. Sound(tmp, tmp.bip, run.content.transactions) /\ tmp.base_fee = BaseFee
  BY <1>0, <1>5 DEF IInv, RunSound
<1>7. /\ t.bip = tmp.bip /\ t.base_fee = tmp.base_fee /\ t.receipts = tmp.receipts
      /\ t.bip \in Bips \cup {None}
  BY <1>3, <1>6 DEF Only, InputKeys, Keys, Sound, Chain, StorageOK
<1>8. Chain(t, tmp.bip)
  <2>1. InputKeys \cap ChainKeys = {}
    BY DEF InputKeys, ChainKeys
  <2>2. SameChain(tmp, t)
    BY <1>3, <2>1, OnlyChain
  <2> QED BY <1>6, <1>7, <2>2, ChainSame DEF Sound
<1>9. Deposited(t, tmp.bip, d.transactions)
  BY <1>3, <1>4, <1>6, DepositedInput DEF Sound
<1>10. PICK r : r = [pc |-> "inbox", config |-> run.config, content |-> d, empty |-> FALSE]
  OBVIOUS
<1>11. r.pc = "inbox" /\ ContentOf(r) = d.transactions
  BY <1>10 DEF ContentOf
<1>12. BipOf(r, t) = tmp.bip
  BY <1>7, <1>11 DEF BipOf
<1>13. RunSound(r, t)
  BY <1>6, <1>7, <1>8, <1>9, <1>11, <1>12 DEF RunSound, Sound
<1>14. IsSequence(outbox') /\ (~failed => Posted(outbox', DOMAIN t.receipts))
  BY <1>0, <1>7 DEF IInv
<1> QED BY <1>0, <1>3, <1>10, <1>11, <1>13, <1>14, RunsOn

LEMMA SoundFetch ==
    ASSUME BaseInv, IInv, fetch
    PROVE  IInv'
<1>0. /\ run.pc = "inbox" /\ outbox' = outbox /\ evm' = evm /\ failed' = failed
      /\ BaseOK(tmp) /\ IsStorage(tmp) /\ ContentOK(run.content)
  BY DEF fetch, BaseInv, RunOK, BaseOK
<1>1. PICK t : t = IF run.empty THEN tmp
                   ELSE IF run.config.sequencer = None
                   THEN fetch_inbox_blueprints(tmp, run.content)
                   ELSE fetch_sequencer_blueprints(tmp, run.content)
  OBVIOUS
<1>2. PICK r : r = [pc |-> "produce", config |-> run.config]
  OBVIOUS
<1>3. tmp' = t /\ run' = r
  BY <1>1, <1>2 DEF fetch
<1>4. BipOf(run, tmp) = tmp.bip /\ ContentOf(run) = run.content.transactions
  BY <1>0 DEF BipOf, ContentOf
<1>5. Sound(tmp, tmp.bip, run.content.transactions) /\ tmp.base_fee = BaseFee
  BY <1>0, <1>4 DEF IInv, RunSound
<1>6. Only(tmp, t, FetchKeys)
  <2>1. Only(tmp, fetch_sequencer_blueprints(tmp, run.content), {"blueprints", "delayed", "upgrade"})
    BY <1>0, FetchSequencerFrame
  <2>2. Only(tmp, fetch_inbox_blueprints(tmp, run.content), {"last_blueprint", "blueprints", "upgrade"})
    BY <1>0, FetchInboxFrame
  <2>3. Only(tmp, tmp, FetchKeys)
    BY <1>0, OnlyRefl
  <2>4. PICK u, w : /\ u = fetch_sequencer_blueprints(tmp, run.content)
                    /\ w = fetch_inbox_blueprints(tmp, run.content)
    OBVIOUS
  <2>5. Only(tmp, u, FetchKeys) /\ Only(tmp, w, FetchKeys)
    BY <2>1, <2>2, <2>4 DEF Only, FetchKeys
  <2> QED BY <1>1, <2>3, <2>4, <2>5
<1>7. /\ t.bip = tmp.bip /\ t.base_fee = tmp.base_fee /\ t.receipts = tmp.receipts
      /\ t.bip \in Bips \cup {None}
  BY <1>5, <1>6 DEF Only, FetchKeys, Keys, Sound, Chain, StorageOK
<1>8. Chain(t, tmp.bip)
  <2>1. FetchKeys \cap ChainKeys = {}
    BY DEF FetchKeys, ChainKeys
  <2>2. SameChain(tmp, t)
    BY <1>6, <2>1, OnlyChain
  <2> QED BY <1>5, <1>7, <2>2, ChainSame DEF Sound
<1>9. Deposited(t, tmp.bip, <<>>)
  <2>1. Deposited(tmp, tmp.bip, run.content.transactions) /\ Chain(tmp, tmp.bip)
    BY <1>5 DEF Sound
  <2>2. CASE run.empty
    <3>1. run.content.transactions = <<>>
      BY <1>0, <2>2 DEF BaseInv, RunOK, NoContent
    <3> QED BY <1>1, <2>1, <2>2, <3>1
  <2>3. CASE ~run.empty /\ run.config.sequencer = None
    BY <1>0, <1>1, <2>1, <2>3, DepositedFetched
  <2>4. CASE ~run.empty /\ run.config.sequencer # None
    BY <1>0, <1>1, <2>1, <2>4, DepositedSaved
  <2> QED BY <2>2, <2>3, <2>4
<1>10. r.pc = "produce"
  BY <1>2
<1>11. BipOf(r, t) = tmp.bip /\ ContentOf(r) = <<>>
  BY <1>7, <1>10 DEF BipOf, ContentOf
<1>12. RunSound(r, t)
  BY <1>5, <1>7, <1>8, <1>9, <1>10, <1>11 DEF RunSound, Sound
<1>13. IsSequence(outbox') /\ (~failed => Posted(outbox', DOMAIN t.receipts))
  BY <1>0, <1>7 DEF IInv
<1> QED BY <1>0, <1>3, <1>10, <1>12, <1>13, RunsOn

-----------------------------------------------------------------------------
(* The storage stays sound: steps that produce blocks.                     *)

\* The block in progress has fewer transactions to execute.
LEMMA SoundQueue ==
    ASSUME NEW s, NEW b \in Bips, Sound(s, b, <<>>), NEW c \in Bips, SameBlock(b, c),
           IsQueue(c.tx_queue), DepositsIn(c.tx_queue) \subseteq DepositsIn(b.tx_queue)
    PROVE  Sound(s, c, <<>>)
<1>1. b # None /\ c # None
  BY NoneAssumption
<1>2. Chain(s, c)
  BY ChainBip DEF Sound
<1>3. Queue(b) = b.tx_queue /\ Queue(c) = c.tx_queue
  BY <1>1 DEF Queue
<1>4. AwaitedLess(s, b, s, c)
  BY <1>1 DEF AwaitedLess, AwaitedInbox, LastBlock
<1>5. DelayedLess(s.delayed, s.delayed)
  BY DEF DelayedLess
<1>6. IsQueue(<<>>) /\ DepositsIn(<<>>) \subseteq DepositsIn(<<>>)
  BY NoDeposits
<1>7. Deposited(s, c, <<>>)
  BY <1>3, <1>4, <1>5, <1>6, DepositedLess DEF Sound
<1> QED BY <1>2, <1>7 DEF Sound

LEMMA DecodedFrame ==
    ASSUME NEW b \in Bips
    PROVE  /\ Decoded_bip(b) \in Bips /\ SameBlock(b, Decoded_bip(b))
           /\ Decoded_bip(b).tx_queue = b.tx_queue
<1>1. PICK c : c = Decoded_bip(b)
  OBVIOUS
<1>2. c = [b EXCEPT !.estimated_ticks = 0]
  BY <1>1 DEF Decoded_bip
<1>3. c \in Bips
  BY <1>2 DEF Bips
<1>4. SameBlock(b, c) /\ c.tx_queue = b.tx_queue
  BY <1>2 DEF Bips, SameBlock
<1> QED BY <1>1, <1>3, <1>4

LEMMA SoundProduce ==
    ASSUME BaseInv, IInv, produce
    PROVE  IInv'
<1>0. /\ run.pc = "produce" /\ outbox' = outbox /\ evm' = evm /\ failed' = failed /\ tmp' = tmp
  BY DEF produce
<1>1. BipOf(run, tmp) = tmp.bip /\ ContentOf(run) = <<>>
  BY <1>0 DEF BipOf, ContentOf
<1>2. Sound(tmp, tmp.bip, <<>>) /\ tmp.base_fee = BaseFee
  BY <1>0, <1>1 DEF IInv, RunSound
<1>3. PICK s, b : s = tmp /\ b = tmp.bip
  OBVIOUS
<1>4. Chain(s, b) /\ b \in Bips \cup {None} /\ Len(s.blocks) \in Nat
  BY <1>2, <1>3, LastBlockInt DEF Sound, Chain
<1>5. PICK r : r = [pc |-> IF b = None THEN "blueprints" ELSE "compute",
                    bip |-> IF b = None THEN None ELSE Decoded_bip(b),
                    resumed |-> b # None,
                    config |-> run.config, upgrade |-> tmp.upgrade,
                    number |-> read_current_block_number(s) + 1,
                    parent |-> IF s.current = None THEN FirstParent ELSE s.current.hash,
                    ticks |-> 0, firstBlock |-> TRUE, firstTx |-> TRUE]
  OBVIOUS
<1>6. run' = r
  BY <1>3, <1>5 DEF produce
<1>7. /\ r.pc = (IF b = None THEN "blueprints" ELSE "compute") /\ r.resumed = (b # None)
      /\ r.bip = (IF b = None THEN None ELSE Decoded_bip(b))
      /\ r.number = read_current_block_number(s) + 1 /\ r.ticks = 0
      /\ r.parent = IF s.current = None THEN FirstParent ELSE s.current.hash
  BY <1>5
<1>8. r.number = Len(s.blocks) /\ r.parent = ParentOf(s, Len(s.blocks))
  BY <1>4, <1>7, NextNumber
<1>9. RunSound(r, s)
  <2>1. ContentOf(r) = <<>>
    BY <1>7 DEF ContentOf
  <2>2. CASE b = None
    <3>1. r.pc = "blueprints"
      BY <1>7, <2>2
    <3>2. BipOf(r, s) = b
      BY <1>3, <3>1 DEF BipOf
    <3> QED BY <1>2, <1>3, <1>7, <1>8, <2>1, <2>2, <3>1, <3>2 DEF RunSound
  <2>3. CASE b # None
    <3>1. r.pc = "compute" /\ r.bip = Decoded_bip(b) /\ b \in Bips /\ r.resumed
      BY <1>4, <1>7, <2>3
    <3>2. BipOf(r, s) = Decoded_bip(b)
      BY <3>1 DEF BipOf
    <3>3. PICK c \in Bips : c = Decoded_bip(b) /\ SameBlock(b, c) /\ c.tx_queue = b.tx_queue
      BY <3>1, DecodedFrame
    <3>4. IsQueue(b.tx_queue)
      BY <1>2, <1>3, <2>3 DEF Sound, Deposited, Queue
    <3>5. IsQueue(c.tx_queue) /\ DepositsIn(c.tx_queue) \subseteq DepositsIn(b.tx_queue)
      BY <3>3, <3>4
    <3>6. Sound(s, c, <<>>)
      BY <1>2, <1>3, <3>1, <3>3, <3>5, SoundQueue
    <3> QED BY <1>2, <1>3, <1>7, <2>1, <3>1, <3>2, <3>3, <3>6 DEF RunSound
  <2> QED BY <2>2, <2>3
<1>10. r.pc # "idle"
  BY <1>7
<1>11. IsSequence(outbox') /\ (~failed => Posted(outbox', DOMAIN s.receipts))
  BY <1>0, <1>3 DEF IInv
<1> QED BY <1>0, <1>3, <1>6, <1>9, <1>10, <1>11, RunsOn

\* The block b that a blueprint p becomes.
FreshBlock(b, p, n, parent) ==
    /\ b \in Bips /\ b.number = n /\ b.parent_hash = parent /\ b.index = 0
    /\ b.valid_txs = <<>> /\ b.cumulative_gas = 0 /\ b.tx_queue = p.transactions

LEMMA FromBlueprint ==
    ASSUME NEW p, p.transactions \in Seq(Transactions), p.timestamp \in Int, NEW n, n \in Int,
           NEW parent, parent \in {FirstParent} \cup BlockHashes, NEW ticks, ticks \in Int
    PROVE  FreshBlock(from_blueprint(p, n, parent, ticks), p, n, parent)
<1>1. PICK b, q : b = from_blueprint(p, n, parent, ticks) /\ q = <<>>
  OBVIOUS
<1>2. q \in Seq(Hashes)
  BY <1>1
<1>3. b = [number |-> n, tx_queue |-> p.transactions, valid_txs |-> q,
           cumulative_gas |-> 0, index |-> 0, parent_hash |-> parent,
           estimated_ticks |-> ticks, timestamp |-> p.timestamp]
  BY <1>1 DEF from_blueprint
<1>4. b \in Bips
  BY <1>2, <1>3 DEF Bips
<1>5. /\ b.number = n /\ b.parent_hash = parent /\ b.index = 0
      /\ b.valid_txs = q /\ b.cumulative_gas = 0 /\ b.tx_queue = p.transactions
  BY <1>3
<1>6. FreshBlock(b, p, n, parent)
  BY <1>1, <1>4, <1>5 DEF FreshBlock
<1> QED BY <1>1, <1>6

\* The hash of the current block.
LEMMA ParentTyped ==
    ASSUME NEW s, NEW b, Chain(s, b)
    PROVE  ParentOf(s, Len(s.blocks)) \in {FirstParent} \cup BlockHashes
<1>1. s.blocks \in Seq(BlockSet)
  BY DEF Chain, StorageOK
<1>2. PICK n \in Nat : n = Len(s.blocks)
  BY <1>1, LenProperties
<1>3. CASE n = 0
  BY <1>2, <1>3 DEF ParentOf
<1>4. CASE n # 0
  <2>1. n \in 1 .. Len(s.blocks)
    BY <1>2, <1>4
  <2>2. s.blocks[n] \in BlockSet
    BY <1>1, <2>1, ElementOfSeq
  <2>3. BlockHash(s.blocks[n]) \in BlockHashes
    BY <2>2 DEF BlockSet, BlockHash, BlockHashes
  <2> QED BY <1>2, <1>4, <2>3 DEF ParentOf
<1> QED BY <1>3, <1>4

LEMMA SoundNextBip ==
    ASSUME BaseInv, IInv, next_bip_from_blueprints
    PROVE  IInv'
<1>0. /\ BaseOK(tmp) /\ IsStorage(tmp) /\ run.pc = "blueprints" /\ ProductionRun(run)
  BY DEF BaseInv, RunOK, InProduction, ProductionRun, next_bip_from_blueprints, BaseOK
<1>1. BipOf(run, tmp) = tmp.bip /\ ContentOf(run) = <<>>
  BY <1>0 DEF BipOf, ContentOf
<1>2. /\ Sound(tmp, None, <<>>) /\ tmp.base_fee = BaseFee /\ tmp.bip = None /\ run.ticks \in Int
      /\ run.number = Len(tmp.blocks) /\ run.parent = ParentOf(tmp, Len(tmp.blocks))
  BY <1>0, <1>1 DEF IInv, RunSound
<1>3. PICK s, i, t, p : /\ s = tmp /\ i = read_next_blueprint(tmp, run.config)
                        /\ t = i.st /\ p = i.blueprint
  OBVIOUS
<1>4. NextBip(i) /\ outbox' = outbox
  BY <1>3, NextBipSteps
<1>5. DelayedOK(s.delayed) /\ Deposited(s, None, <<>>) /\ Chain(s, None) /\ BaseOK(s) /\ IsStorage(s)
  BY <1>0, <1>2, <1>3 DEF Sound, Deposited
<1>6. /\ Only(s, t, {"blueprints", "delayed"}) /\ Fewer(s, t) /\ DelayedLess(s.delayed, t.delayed)
  BY <1>3, <1>5, ReadFrame
<1>7. /\ IsStorage(t) /\ t.bip = None /\ t.receipts = s.receipts /\ t.blocks = s.blocks
      /\ t.base_fee = BaseFee /\ t.deposit_nonce = s.deposit_nonce
  BY <1>2, <1>3, <1>6 DEF Only, Keys
<1>8. SameChain(s, t)
  <2>1. {"blueprints", "delayed"} \cap ChainKeys = {}
    BY DEF ChainKeys
  <2> QED BY <1>6, <2>1, OnlyChain
<1>9. Chain(t, None)
  BY <1>5, <1>7, <1>8, ChainSame
<1>10. IsSequence(outbox') /\ (~failed => Posted(outbox', DOMAIN t.receipts))
  BY <1>0, <1>3, <1>4, <1>7 DEF IInv
<1>11. Sound(t, None, <<>>)
  <2>1. LastBlock(s, None) \in Int /\ LastBlock(t, None) = LastBlock(s, None)
    BY <1>5, <1>7, LastBlockInt DEF LastBlock
  <2>2. DOMAIN t.blueprints \subseteq Int
    BY <1>5, <1>6 DEF BaseOK, Fewer, BlueprintsOK
  <2>3. LastBlock(t, None) >= LastBlock(s, None)
    BY <2>1
  <2>4. AwaitedLess(s, None, t, None)
    BY <1>6, <2>1, <2>2, <2>3, AwaitedFewer
  <2>5. IsQueue(Queue(None)) /\ DepositsIn(Queue(None)) \subseteq DepositsIn(Queue(None))
    BY <1>5 DEF Deposited
  <2>6. IsQueue(<<>>) /\ DepositsIn(<<>>) \subseteq DepositsIn(<<>>)
    BY NoDeposits
  <2>7. Deposited(t, None, <<>>)
    BY <1>5, <1>6, <1>7, <2>4, <2>5, <2>6, DepositedLess
  <2> QED BY <1>9, <2>7 DEF Sound
<1>12. CASE Fail
  BY <1>10, <1>12, FailSound
<1>13. CASE Promote(i.st)
  BY <1>3, <1>7, <1>10, <1>11, <1>13, PromoteSound
<1>14. CASE Promote(upgrade(i.st, run.upgrade))
  <2>1. PICK v : v = upgrade(t, run.upgrade)
    OBVIOUS
  <2>2. Only(t, v, {"boot", "upgrade"})
    BY <1>7, <2>1, ActivateFrame
  <2>3. IsStorage(v) /\ v.bip = None /\ v.receipts = t.receipts
    BY <1>7, <2>2 DEF Only, Keys
  <2>4. {"boot", "upgrade"} \cap (ChainKeys \cup {"delayed", "deposit_nonce", "blueprints"}) = {}
    BY DEF ChainKeys
  <2>5. Sound(v, v.bip, <<>>)
    BY <1>11, <2>2, <2>3, <2>4, SoundSame
  <2> QED BY <1>3, <1>10, <1>14, <2>1, <2>3, <2>5, PromoteSound
<1>15. CASE /\ p # None /\ tmp' = t /\ UNCHANGED <<evm, failed>>
            /\ run' = [run EXCEPT !.pc = "compute", !.firstTx = TRUE,
                         !.bip = from_blueprint(p, run.number, run.parent, run.ticks)]
  <2>1. p.transactions \in Seq(Transactions) /\ p.timestamp \in Int
    BY <1>3, <1>5, <1>15, ReadTyped
  <2>2. Len(s.blocks) \in Nat /\ ParentOf(s, Len(s.blocks)) \in {FirstParent} \cup BlockHashes
    BY <1>5, LastBlockInt, ParentTyped
  <2>3. PICK n, q, k : n = run.number /\ q = run.parent /\ k = run.ticks
    OBVIOUS
  <2>3a. n \in Int /\ q \in {FirstParent} \cup BlockHashes /\ k \in Int
    BY <1>2, <1>3, <2>2, <2>3
  <2>4. PICK b : b = from_blueprint(p, n, q, k)
    OBVIOUS
  <2>5. /\ b \in Bips /\ b.number = n /\ b.parent_hash = q /\ b.index = 0
        /\ b.valid_txs = <<>> /\ b.cumulative_gas = 0 /\ b.tx_queue = p.transactions
    <3>1. FreshBlock(from_blueprint(p, n, q, k), p, n, q)
      BY <2>1, <2>3a, FromBlueprint
    <3> QED BY <2>4, <3>1 DEF FreshBlock
  <2>6. b.number = Len(t.blocks) /\ b.parent_hash = ParentOf(t, Len(t.blocks))
    BY <1>2, <1>3, <1>7, <2>3, <2>5 DEF ParentOf
  <2>7. Chain(t, b)
    BY <1>9, <2>5, <2>6, ChainNewBip
  <2>8. Deposited(t, b, <<>>)
    BY <1>3, <1>5, <1>15, <2>5, DepositedBlock
  <2>9. PICK r : r = [run EXCEPT !.pc = "compute", !.firstTx = TRUE, !.bip = b]
    OBVIOUS
  <2>10. r.pc = "compute" /\ r.bip = b /\ r.ticks = run.ticks
    BY <1>0, <2>9 DEF ProductionRun
  <2>11. BipOf(r, t) = b /\ ContentOf(r) = <<>>
    BY <2>10 DEF BipOf, ContentOf
  <2>12. RunSound(r, t)
    BY <1>2, <1>7, <2>5, <2>7, <2>8, <2>10, <2>11 DEF RunSound, Sound
  <2>13. run' = r
    BY <1>15, <2>3, <2>4, <2>9
  <2> QED BY <1>10, <1>15, <2>10, <2>12, <2>13, RunsOn
<1> QED BY <1>3, <1>4, <1>12, <1>13, <1>14, <1>15 DEF NextBip

\* The outbox after a transaction.
LEMMA PostedMore ==
    ASSUME NEW o, IsSequence(o), NEW h, NEW p,
           p = IF h \in DOMAIN Tx THEN WithdrawalsOf(h) ELSE <<>>
    PROVE  /\ IsSequence(o \o p)
           /\ \A R : Posted(o, R) /\ h \notin R => Posted(o \o p, R \cup {h})
<1>1. PICK S : o \in Seq(S)
  BY DEF IsSequence
<1>2. CASE h \in DOMAIN Tx /\ Tx[h].outcome = "withdraw"
  <2>1. PICK m : m = [tx |-> h, mutez |-> Withdrawn(Tx[h])]
    OBVIOUS
  <2>2. p = <<m>> /\ m.tx = h
    BY <1>2, <2>1 DEF WithdrawalsOf
  <2>3. o \in Seq(S \cup {m}) /\ m \in S \cup {m}
    BY <1>1
  <2>4. PICK n \in Nat : n = Len(o) /\ DOMAIN o = 1 .. n
    BY <1>1, LenProperties
  <2>5. PICK q : q = o \o p
    OBVIOUS
  <2>6. q = Append(o, m)
    BY <2>2, <2>3, <2>5
  <2>7. /\ q \in Seq(S \cup {m}) /\ DOMAIN q = 1 .. n + 1 /\ q[n + 1] = m
        /\ \A i \in 1 .. n : q[i] = o[i]
    BY <2>3, <2>4, <2>6, AppendProperties
  <2>8. \A i \in DOMAIN q : (i = n + 1 /\ q[i] = m) \/ (i \in DOMAIN o /\ q[i] = o[i])
    <3> SUFFICES ASSUME NEW i \in DOMAIN q
                 PROVE  (i = n + 1 /\ q[i] = m) \/ (i \in DOMAIN o /\ q[i] = o[i])
      OBVIOUS
    <3>1. CASE i = n + 1
      BY <2>7, <3>1
    <3>2. CASE i # n + 1
      <4>1. i \in 1 .. n
        BY <2>7, <3>2
      <4> QED BY <2>4, <2>7, <4>1
    <3> QED BY <3>1, <3>2
  <2>9. n + 1 \in DOMAIN q /\ \A i \in DOMAIN o : i \in DOMAIN q /\ q[i] = o[i]
    BY <2>4, <2>7
  <2>10. ASSUME NEW R, Posted(o, R), h \notin R
         PROVE  Posted(q, R \cup {h})
    <3>1. \A i \in DOMAIN o : o[i].tx \in R
      BY <2>10 DEF Posted
    <3>2. \A i, j \in DOMAIN q : q[i].tx = q[j].tx => i = j
      BY <2>2, <2>8, <2>10, <3>1 DEF Posted
    <3>3. \A x : x \in {q[i].tx : i \in DOMAIN q} <=> x \in {o[i].tx : i \in DOMAIN o} \/ x = h
      BY <2>2, <2>7, <2>8, <2>9
    <3>4. \A x : x \in {k \in R \cup {h} : ~IsDeposit(k) /\ Tx[k].outcome = "withdraw"}
                   <=> x \in {k \in R : ~IsDeposit(k) /\ Tx[k].outcome = "withdraw"} \/ x = h
      BY <1>2 DEF IsDeposit
    <3>5. {q[i].tx : i \in DOMAIN q} = {k \in R \cup {h} : ~IsDeposit(k) /\ Tx[k].outcome = "withdraw"}
      <4>1. {o[i].tx : i \in DOMAIN o} = {k \in R : ~IsDeposit(k) /\ Tx[k].outcome = "withdraw"}
        BY <2>10 DEF Posted
      <4> QED BY <3>3, <3>4, <4>1
    <3> QED BY <3>2, <3>5 DEF Posted
  <2> QED BY <2>5, <2>7, <2>10 DEF IsSequence
<1>3. CASE ~(h \in DOMAIN Tx /\ Tx[h].outcome = "withdraw")
  <2>1. p = <<>>
    BY <1>3 DEF WithdrawalsOf
  <2>2. o \o p = o
    BY <1>1, <2>1, ConcatEmptySeq
  <2>3. ASSUME NEW R, Posted(o, R), h \notin R
        PROVE  Posted(o, R \cup {h})
    <3>1. \A x : x \in {k \in R \cup {h} : ~IsDeposit(k) /\ Tx[k].outcome = "withdraw"}
                   <=> x \in {k \in R : ~IsDeposit(k) /\ Tx[k].outcome = "withdraw"}
      BY <1>3 DEF IsDeposit
    <3>2. {k \in R \cup {h} : ~IsDeposit(k) /\ Tx[k].outcome = "withdraw"}
            = {k \in R : ~IsDeposit(k) /\ Tx[k].outcome = "withdraw"}
      BY <3>1
    <3> QED BY <2>3, <3>2 DEF Posted
  <2> QED BY <2>2, <2>3
<1> QED BY <1>2, <1>3

\* The block without the transaction, and with other ticks.
LEMMA TailFrame ==
    ASSUME NEW b \in Bips, b.tx_queue # <<>>
    PROVE  /\ QueueTail(b) \in Bips /\ SameBlock(b, QueueTail(b))
           /\ QueueTail(b).tx_queue = Tail(b.tx_queue)
<1>1. PICK d, q : d = QueueTail(b) /\ q = Tail(b.tx_queue)
  OBVIOUS
<1>2. d = [b EXCEPT !.tx_queue = q]
  BY <1>1 DEF QueueTail, Bips
<1>3. q \in Seq(Transactions)
  BY <1>1, HeadTailProperties DEF Bips
<1>4. d \in Bips /\ SameBlock(b, d) /\ d.tx_queue = q
  BY <1>2, <1>3 DEF Bips, SameBlock
<1> QED BY <1>1, <1>4

LEMMA TicksFrame ==
    ASSUME NEW d \in Bips, NEW k, k \in Int
    PROVE  LET c == [d EXCEPT !.estimated_ticks = @ + k]
           IN  c \in Bips /\ SameBlock(d, c) /\ c.tx_queue = d.tx_queue
<1>1. PICK c, m : c = [d EXCEPT !.estimated_ticks = @ + k] /\ m = d.estimated_ticks + k
  OBVIOUS
<1>2. c = [d EXCEPT !.estimated_ticks = m] /\ m \in Int
  BY <1>1 DEF Bips
<1>3. c \in Bips /\ SameBlock(d, c) /\ c.tx_queue = d.tx_queue
  BY <1>2 DEF Bips, SameBlock
<1> QED BY <1>1, <1>3

LEMMA InvalidTicksInt ==
    ASSUME NEW x \in Transactions
    PROVE  ticks_of_invalid_transaction(x) \in Int
<1>1. InvalidTicks \in Int
  BY CostAssumption
<1>2. ticks_of_transaction_overhead(x) \in Int
  <2>1. CASE x.content = "Deposit"
    BY <2>1 DEF ticks_of_transaction_overhead
  <2>2. CASE x.content # "Deposit"
    <3>1. x.tx_hash \in DOMAIN Tx
      BY <2>2, DepositNat
    <3>2. Tx[x.tx_hash].data_size \in Nat
      BY <3>1, TxAssumption
    <3> QED BY <2>2, <3>2 DEF ticks_of_transaction_overhead
  <2> QED BY <2>1, <2>2
<1> QED BY <1>1, <1>2 DEF ticks_of_invalid_transaction

\* A valid transaction: the storage and the outbox.
LEMMA SoundValid ==
    ASSUME NEW s, BaseOK(s), NEW b \in Bips, Sound(s, b, <<>>), s.base_fee = BaseFee,
           b.tx_queue # <<>>, NEW x, x = Head(b.tx_queue), NEW n, NEW r,
           r = apply_transaction(s, x, n), r.status = "Valid",
           NEW t, t = StoreTransaction(r.st, QueueTail(b), x, r),
           NEW c, c = register_valid_transaction(QueueTail(b), x, r)
    PROVE  /\ c \in Bips /\ Sound(t, c, <<>>) /\ t.base_fee = BaseFee /\ t.bip = s.bip
           /\ x.tx_hash \notin DOMAIN s.receipts
           /\ DOMAIN t.receipts = DOMAIN s.receipts \cup {x.tx_hash}
           /\ r.posted = IF x.tx_hash \in DOMAIN Tx THEN WithdrawalsOf(x.tx_hash) ELSE <<>>
<1>0. IsStorage(s) /\ b # None /\ Chain(s, b) /\ Deposited(s, b, <<>>)
  BY NoneAssumption DEF BaseOK, Sound
<1>1. PICK q, h : q = b.tx_queue /\ h = x.tx_hash
  OBVIOUS
<1>2. q \in Seq(Transactions) /\ Once(q) /\ q # <<>> /\ Queue(b) = q
  BY <1>0, <1>1 DEF Deposited, IsQueue, Queue
<1>3. x \in Transactions /\ h \in Hashes
  <2>1. x \in Transactions
    BY <1>1, <1>2, HeadTailProperties
  <2> QED BY <1>1, <2>1, DepositNat
<1>4. x.content = "Deposit" => h \notin DOMAIN s.receipts
  <2>1. x.content = "Deposit" => h \in DepositsIn(q)
    BY <1>1, <1>2, DepositsTail
  <2>2. \A k \in DepositsIn(q) : k \notin DOMAIN s.receipts
    BY <1>0, <1>2 DEF Deposited, Tracked
  <2> QED BY <2>1, <2>2
<1>5. PICK v : v = Added(h, r.gas, r.value)
  OBVIOUS
<1>6. /\ AppliedOK(s, r, v)
      /\ h \notin DOMAIN s.receipts
      /\ h \in DOMAIN Tx =>
           Tx[h].caller \in Addresses /\ r.st.accounts[Tx[h].caller].nonce > Tx[h].nonce
      /\ r.posted = IF h \in DOMAIN Tx THEN WithdrawalsOf(h) ELSE <<>>
  BY <1>0, <1>1, <1>3, <1>4, <1>5, ValidApplied
<1>7. /\ StoredTx(s, b, t, c, h, r)
      /\ Only(s, t, {"accounts", "accounts_index", "tx_index", "receipts", "objects"})
  BY <1>1, <1>3, <1>6, TxStored
<1>8. Chain(t, c)
  BY <1>0, <1>3, <1>5, <1>6, <1>7, ChainTx
<1>9. c \in Bips /\ t.base_fee = BaseFee /\ t.bip = s.bip
  BY <1>7 DEF StoredTx
<1>10. DOMAIN t.receipts = DOMAIN s.receipts \cup {h}
  BY <1>7 DEF StoredTx, Recording
<1>11. c.tx_queue = Tail(b.tx_queue)
  BY <1>3, <1>6, RegisterFrame DEF AppliedOK
<1>12. /\ t.deposit_nonce = s.deposit_nonce /\ t.blueprints = s.blueprints
       /\ t.blocks = s.blocks /\ t.delayed = s.delayed
  BY <1>7 DEF Only, Keys
<1>13. Deposited(t, c, <<>>)
  BY <1>0, <1>1, <1>9, <1>10, <1>11, <1>12, DepositedTx
<1> QED BY <1>1, <1>6, <1>8, <1>9, <1>10, <1>13 DEF Sound

\* The run r after a transaction in the run k, with the block c.
LEMMA ComputesOn ==
    ASSUME NEW s, NEW t, NEW c, c \in Bips, Sound(t, c, <<>>), t.base_fee = BaseFee, t.bip = s.bip,
           NEW k, k.pc = "compute", RunSound(k, s),
           NEW r, r.pc = "compute", r.bip = c, r.ticks = k.ticks, r.resumed = k.resumed
    PROVE  RunSound(r, t)
<1>1. BipOf(r, t) = c /\ ContentOf(r) = <<>>
  BY DEF BipOf, ContentOf
<1>2. k.ticks \in Int /\ (s.bip # None => k.resumed)
  BY DEF RunSound
<1> QED BY <1>1, <1>2 DEF RunSound

LEMMA SoundCompute ==
    ASSUME BaseInv, IInv, compute
    PROVE  IInv'
<1>0. /\ BaseOK(tmp) /\ IsStorage(tmp) /\ run.pc = "compute" /\ ProductionRun(run)
  BY DEF BaseInv, RunOK, InProduction, ProductionRun, compute, BaseOK
<1>1. BipOf(run, tmp) = run.bip /\ ContentOf(run) = <<>>
  BY <1>0 DEF BipOf, ContentOf
<1>2. /\ Sound(tmp, run.bip, <<>>) /\ tmp.base_fee = BaseFee /\ run.bip \in Bips
      /\ RunSound(run, tmp)
  BY <1>0, <1>1 DEF IInv, RunSound
<1>3. PICK s, b, x, d, n, r, p : /\ s = tmp /\ b = run.bip /\ x = Head(b.tx_queue) /\ d = QueueTail(b)
                              /\ n = estimate_remaining_ticks(d.estimated_ticks, x)
                              /\ r = apply_transaction(s, x, n) /\ p = r.posted
  OBVIOUS
<1>4. r = Applying(x, d)
  BY <1>3 DEF Applying
<1>5. Compute(x, d, r) /\ outbox' = outbox \o p /\ b.tx_queue # <<>>
  BY <1>3, <1>4, ComputeSteps
<1>6. /\ BaseOK(s) /\ IsStorage(s) /\ b \in Bips /\ Sound(s, b, <<>>) /\ s.base_fee = BaseFee
      /\ RunSound(run, s)
  BY <1>0, <1>2, <1>3
<1>7. r.status # "Valid" => r.st = s /\ p = <<>>
  BY <1>3, <1>6, ApplyFrame
<1>8. IsSequence(outbox) /\ (~failed => Posted(outbox, DOMAIN s.receipts))
  BY <1>0, <1>3 DEF IInv
<1>9. r.status # "Valid" => outbox' = outbox
  <2>1. PICK S : outbox \in Seq(S)
    BY <1>8 DEF IsSequence
  <2>2. outbox \o <<>> = outbox
    BY <2>1, ConcatEmptySeq
  <2> QED BY <1>5, <1>7, <2>2
<1>10. /\ d \in Bips /\ SameBlock(b, d) /\ d.tx_queue = Tail(b.tx_queue)
  BY <1>3, <1>5, <1>6, TailFrame
<1>11. IsQueue(b.tx_queue)
  BY <1>6, NoneAssumption DEF Sound, Deposited, Queue
<1>12. x \in Transactions
  BY <1>3, <1>5, <1>11, HeadTailProperties DEF IsQueue
<1>13. Sound(s, d, <<>>)
  <2>1. IsQueue(d.tx_queue) /\ DepositsIn(d.tx_queue) \subseteq DepositsIn(b.tx_queue)
    BY <1>5, <1>10, <1>11, DepositsTail DEF IsQueue
  <2> QED BY <1>6, <1>10, <2>1, SoundQueue
<1>14. CASE /\ r.status = "Valid" /\ tmp' = StoreTransaction(r.st, d, x, r)
            /\ run' = [run EXCEPT !.bip = register_valid_transaction(d, x, r), !.firstTx = FALSE]
            /\ UNCHANGED <<evm, failed>>
  <2>1. PICK t, c, h : /\ t = StoreTransaction(r.st, d, x, r)
                       /\ c = register_valid_transaction(d, x, r) /\ h = x.tx_hash
    OBVIOUS
  <2>2. /\ c \in Bips /\ Sound(t, c, <<>>) /\ t.base_fee = BaseFee /\ t.bip = s.bip
        /\ h \notin DOMAIN s.receipts /\ DOMAIN t.receipts = DOMAIN s.receipts \cup {h}
        /\ p = IF h \in DOMAIN Tx THEN WithdrawalsOf(h) ELSE <<>>
    <3>1. /\ t = StoreTransaction(r.st, QueueTail(b), x, r)
          /\ c = register_valid_transaction(QueueTail(b), x, r) /\ r.status = "Valid"
      BY <1>3, <1>14, <2>1
    <3>2. x = Head(b.tx_queue) /\ r = apply_transaction(s, x, n) /\ b.tx_queue # <<>>
      BY <1>3, <1>5
    <3>3. /\ c \in Bips /\ Sound(t, c, <<>>) /\ t.base_fee = BaseFee /\ t.bip = s.bip
          /\ x.tx_hash \notin DOMAIN s.receipts
          /\ DOMAIN t.receipts = DOMAIN s.receipts \cup {x.tx_hash}
          /\ r.posted = IF x.tx_hash \in DOMAIN Tx THEN WithdrawalsOf(x.tx_hash) ELSE <<>>
      BY <1>6, <3>1, <3>2, SoundValid
    <3> QED BY <1>3, <2>1, <3>3
  <2>3. PICK k : k = [run EXCEPT !.bip = c, !.firstTx = FALSE]
    OBVIOUS
  <2>4. /\ k.pc = "compute" /\ k.bip = c /\ k.ticks = run.ticks /\ k.resumed = run.resumed
        /\ k.pc # "idle"
    BY <1>0, <2>3 DEF ProductionRun
  <2>7. RunSound(k, t)
    BY <1>0, <1>6, <2>2, <2>4, ComputesOn
  <2>5. IsSequence(outbox') /\ (~failed => Posted(outbox', DOMAIN t.receipts))
    <3>1. PICK o, R : o = outbox /\ R = DOMAIN s.receipts
      OBVIOUS
    <3>2. IsSequence(o \o p) /\ (Posted(o, R) => Posted(o \o p, R \cup {h}))
      BY <1>8, <2>2, <3>1, PostedMore
    <3> QED BY <1>5, <1>8, <2>2, <3>1, <3>2
  <2>6. tmp' = t /\ run' = k
    BY <1>14, <2>1, <2>3
  <2> QED BY <1>14, <2>4, <2>5, <2>6, <2>7, RunsOn
<1>15. ASSUME NEW c, c \in Bips, Sound(s, c, <<>>), tmp' = s, UNCHANGED <<evm, failed>>,
              run' = [run EXCEPT !.bip = c, !.firstTx = FALSE], r.status # "Valid"
       PROVE  IInv'
  <2>1. PICK k : k = [run EXCEPT !.bip = c, !.firstTx = FALSE]
    OBVIOUS
  <2>2. /\ k.pc = "compute" /\ k.bip = c /\ k.ticks = run.ticks /\ k.resumed = run.resumed
        /\ k.pc # "idle"
    BY <1>0, <2>1 DEF ProductionRun
  <2>4. RunSound(k, s)
    BY <1>0, <1>6, <1>15, <2>2, ComputesOn
  <2>3. IsSequence(outbox') /\ (~failed => Posted(outbox', DOMAIN s.receipts))
    BY <1>8, <1>9, <1>15
  <2> QED BY <1>15, <2>1, <2>2, <2>3, <2>4, RunsOn
<1>16. CASE /\ r.status = "Invalid" /\ UNCHANGED <<evm, tmp, failed>>
            /\ run' = [run EXCEPT
                 !.bip = [d EXCEPT !.estimated_ticks = @ + ticks_of_invalid_transaction(x)],
                 !.firstTx = FALSE]
  <2>1. PICK k \in Int : k = ticks_of_invalid_transaction(x)
    BY <1>12, InvalidTicksInt
  <2>2. PICK c : c = [d EXCEPT !.estimated_ticks = @ + k]
    OBVIOUS
  <2>3. c \in Bips /\ SameBlock(d, c) /\ c.tx_queue = d.tx_queue
    BY <1>10, <2>2, TicksFrame
  <2>4. IsQueue(c.tx_queue) /\ DepositsIn(c.tx_queue) \subseteq DepositsIn(d.tx_queue)
    BY <1>10, <1>13, <2>3, NoneAssumption DEF Sound, Deposited, Queue
  <2>5. Sound(s, c, <<>>)
    BY <1>10, <1>13, <2>3, <2>4, SoundQueue
  <2>6. tmp' = s /\ run' = [run EXCEPT !.bip = c, !.firstTx = FALSE]
    BY <1>3, <1>16, <2>1, <2>2
  <2> QED BY <1>15, <1>16, <2>3, <2>5, <2>6
<1>17. CASE /\ r.status = "OutOfTicks" /\ tmp' = r.st /\ UNCHANGED <<evm, failed>>
            /\ run' = [run EXCEPT !.bip = d, !.firstTx = FALSE]
  BY <1>7, <1>10, <1>13, <1>15, <1>17
<1>18. CASE r.status = "OutOfTicks" /\ Promote([r.st EXCEPT !.bip = run.bip])
  <2>1. PICK t : t = [s EXCEPT !.bip = b]
    OBVIOUS
  <2>2. Only(s, t, {"bip"})
    BY <1>6, <2>1, StartFrame
  <2>3. t.bip = b /\ t.receipts = s.receipts /\ IsStorage(t)
    BY <1>6, <2>1, <2>2 DEF Only, Keys, IsStorage
  <2>4. {"bip"} \cap (ChainKeys \cup {"delayed", "deposit_nonce", "blueprints"}) = {}
    BY DEF ChainKeys
  <2>5. Sound(t, t.bip, <<>>)
    BY <1>6, <2>2, <2>3, <2>4, SoundSame
  <2>6. Promote(t)
    BY <1>3, <1>7, <1>18, <2>1
  <2>7. IsSequence(outbox') /\ (~failed => Posted(outbox', DOMAIN t.receipts))
    BY <1>8, <1>9, <1>18, <2>3
  <2> QED BY <2>3, <2>5, <2>6, <2>7, PromoteSound
<1>19. CASE r.status = "Error" /\ Fail
  BY <1>8, <1>9, <1>19, FailSound
<1> QED BY <1>5, <1>14, <1>16, <1>17, <1>18, <1>19 DEF Compute

LEMMA SoundComputeBip ==
    ASSUME BaseInv, IInv, compute_bip
    PROVE  IInv'
<1>0. /\ BaseOK(tmp) /\ IsStorage(tmp) /\ run.pc = "compute" /\ ProductionRun(run)
      /\ run.bip.tx_queue = <<>>
  BY DEF BaseInv, RunOK, InProduction, ProductionRun, compute_bip, BaseOK
<1>1. BipOf(run, tmp) = run.bip /\ ContentOf(run) = <<>>
  BY <1>0 DEF BipOf, ContentOf
<1>2. /\ Sound(tmp, run.bip, <<>>) /\ tmp.base_fee = BaseFee /\ run.bip \in Bips
      /\ run.ticks \in Int /\ (tmp.bip # None => run.resumed)
  BY <1>0, <1>1 DEF IInv, RunSound
<1>3. PICK s, b, u : s = tmp /\ b = run.bip /\ u = AfterBlock(s, b)
  OBVIOUS
<1>4. PICK t : t = IF run.resumed THEN [u EXCEPT !.bip = None] ELSE u
  OBVIOUS
<1>5. PICK r : r = [run EXCEPT !.pc = "blueprints", !.bip = None, !.resumed = FALSE,
                   !.firstBlock = FALSE, !.ticks = b.estimated_ticks + FinalizeTicks,
                   !.number = u.current.number + 1, !.parent = u.current.hash]
  OBVIOUS
<1>6. tmp' = t /\ run' = r /\ UNCHANGED <<evm, failed, outbox>>
  BY <1>3, <1>4, <1>5 DEF compute_bip, AfterBlock
<1>7. BaseOK(s) /\ IsStorage(s) /\ b \in Bips /\ Chain(s, b) /\ Deposited(s, b, <<>>) /\ b.tx_queue = <<>>
  BY <1>0, <1>2, <1>3 DEF Sound
<1>8. /\ Only(s, u, {"blocks", "current", "blueprints"})
      /\ u.blocks = Append(s.blocks, Block(b))
      /\ u.current = [number |-> b.number, hash |-> BlockHash(Block(b))]
      /\ Fewer(s, u)
  BY <1>3, <1>7, AfterBlockFrame
<1>9. IsStorage(u) /\ u.bip = s.bip
  BY <1>8 DEF Only, Keys
<1>10. Only(u, t, {"bip"}) /\ t.bip = None
  <2>1. CASE run.resumed
    <3>1. t = [u EXCEPT !.bip = None]
      BY <1>4, <2>1
    <3>2. Only(u, t, {"bip"})
      BY <1>9, <3>1, StartFrame
    <3> QED BY <1>9, <3>1, <3>2 DEF IsStorage, Keys
  <2>2. CASE ~run.resumed
    <3>1. t = u /\ u.bip = None
      BY <1>2, <1>3, <1>4, <1>9, <2>2
    <3> QED BY <1>9, <3>1 DEF Only
  <2> QED BY <2>1, <2>2
<1>11. /\ t.accounts = s.accounts /\ t.base_fee = s.base_fee /\ t.tx_index = s.tx_index
       /\ t.accounts_index = s.accounts_index /\ t.receipts = s.receipts /\ t.objects = s.objects
       /\ t.delayed = s.delayed /\ t.deposit_nonce = s.deposit_nonce
       /\ t.blocks = u.blocks /\ t.current = u.current /\ t.blueprints = u.blueprints
  BY <1>8, <1>10 DEF Only, Keys
<1>12. BlockStored(s, b, t)
  BY <1>8, <1>10, <1>11 DEF BlockStored
<1>13. Fewer(s, t)
  BY <1>8, <1>11, FewerSame, FewerTrans
<1>14. Chain(t, None)
  BY <1>7, <1>12, ChainBlock
<1>15. Deposited(t, None, <<>>)
  BY <1>7, <1>11, <1>12, <1>13, DepositedEnd
<1>16. /\ r.pc = "blueprints" /\ r.ticks = b.estimated_ticks + FinalizeTicks /\ r.resumed = FALSE
       /\ r.number = u.current.number + 1 /\ r.parent = u.current.hash
  BY <1>0, <1>5 DEF ProductionRun
<1>17. r.ticks \in Int
  BY <1>7, <1>16, CostAssumption DEF Bips
<1>18. r.number = Len(t.blocks) /\ r.parent = ParentOf(t, Len(t.blocks))
  <2>1. t.current # None
    <3>1. b.number \in Int /\ BlockHash(Block(b)) \in BlockHashes
      BY <1>7, BlockTyped DEF Bips
    <3>2. t.current \in Heads
      BY <1>8, <1>11, <3>1 DEF Heads
    <3> QED BY <3>2, NoneAssumption
  <2>2. /\ read_current_block_number(t) + 1 = Len(t.blocks)
        /\ (IF t.current = None THEN FirstParent ELSE t.current.hash) = ParentOf(t, Len(t.blocks))
    BY <1>14, NextNumber
  <2> QED BY <1>11, <1>16, <2>1, <2>2 DEF read_current_block_number
<1>19. RunSound(r, t)
  <2>1. BipOf(r, t) = None /\ ContentOf(r) = <<>>
    BY <1>10, <1>16 DEF BipOf, ContentOf
  <2> QED BY <1>2, <1>3, <1>10, <1>11, <1>14, <1>15, <1>16, <1>17, <1>18, <2>1 DEF RunSound, Sound
<1>20. IsSequence(outbox') /\ (~failed => Posted(outbox', DOMAIN t.receipts))
  BY <1>0, <1>3, <1>6, <1>11 DEF IInv
<1>21. r.pc # "idle"
  BY <1>16
<1> QED BY <1>6, <1>19, <1>20, <1>21, RunsOn

-----------------------------------------------------------------------------
(* The storage before the first run is sound.                              *)

LEMMA InitialChain ==
    ASSUME NEW q, NEW s, s = InitialStorage(q)
    PROVE  Chain(s, None)
<1>1. PICK e : e = <<>>
  OBVIOUS
<1>2. /\ s.base_fee = None /\ s.current = None /\ s.blocks = e /\ s.bip = None
      /\ s.receipts = e /\ s.objects = e /\ s.accounts_index = e /\ s.tx_index = e
      /\ s.accounts = [a \in Addresses |->
                         [balance |-> InitialBalance[a], nonce |-> 0, code |-> FALSE]]
  BY <1>1 DEF InitialStorage
<1>3. /\ \A S : e \in Seq(S)
      /\ DOMAIN e = {} /\ Len(e) = 0 /\ Range(e) = {} /\ IsInjective(e)
  BY <1>1 DEF Range, IsInjective
<1>4. StorageOK(s)
  <2>1. s.accounts \in AccountsMap
    BY <1>2, AccountAssumption DEF AccountsMap
  <2>2. e \in [DOMAIN e -> Receipts] /\ e \in [DOMAIN e -> Objects]
    BY <1>1, <1>3
  <2> QED BY <1>2, <1>3, <2>1, <2>2 DEF StorageOK
<1>5. Links(s, None)
  BY <1>2, <1>3 DEF Links
<1>6. Indexed(s, None)
  <2>1. PICK f : f = [i \in DOMAIN e |-> e[i].txs]
    OBVIOUS
  <2>2. f = <<>>
    BY <1>3, <2>1
  <2>3. Len(f) = 0
    BY <2>2
  <2>4. FlattenSeq(f) = <<>>
    BY <2>2, <2>3 DEF FlattenSeq
  <2>5. Executed(s) = e
    BY <1>1, <1>2, <2>1, <2>4 DEF Executed
  <2>6. e \o e = e
    BY <1>1, <1>3, ConcatEmptySeq
  <2>7. s.tx_index = Executed(s) \o ValidTxs(None)
    BY <1>1, <1>2, <2>5, <2>6 DEF ValidTxs
  <2> QED BY <1>2, <1>3, <2>7 DEF Indexed
<1>7. Receipted(s, None)
  BY <1>2, <1>3 DEF Receipted
<1>8. NoncesGrow(s)
  BY <1>2, <1>3 DEF NoncesGrow
<1>9. Balanced(s)
  <2>1. [a \in Addresses |-> s.accounts[a].balance] = InitialBalance
    <3>1. \A a \in Addresses : s.accounts[a].balance = InitialBalance[a]
      BY <1>2
    <3> QED BY <3>1, AccountAssumption
  <2>2. DOMAIN Effect(s) = {}
    BY <1>2, <1>3 DEF Effect
  <2>3. SumFunction(Effect(s)) = 0
    BY <2>2, SumEmpty DEF SumFunction
  <2>4. SumFunction(InitialBalance) \in Int
    <3>1. DOMAIN InitialBalance = Addresses /\ \A a \in Addresses : InitialBalance[a] \in Int
      BY AccountAssumption
    <3> QED BY <3>1, AccountAssumption, SumRemove DEF SumFunction
  <2>5. IsFiniteSet(DOMAIN s.receipts) /\ DOMAIN s.receipts = {}
    BY <1>2, <1>3, FS_EmptySet
  <2> QED BY <2>1, <2>3, <2>4, <2>5 DEF Balanced
<1> QED BY <1>4, <1>5, <1>6, <1>7, <1>8, <1>9 DEF Chain

LEMMA InitialDeposits ==
    ASSUME NEW q, NEW s, s = InitialStorage(q)
    PROVE  Deposited(s, None, <<>>)
<1>1. PICK e : e = <<>>
  OBVIOUS
<1>2. DOMAIN e = {}
  BY <1>1
<1>3. s.receipts = e /\ s.deposit_nonce = 0 /\ s.blueprints = e /\ s.delayed.store = e
  BY <1>1 DEF InitialStorage, EmptyList
<1>4. IsQueue(Queue(None)) /\ DepositsIn(Queue(None)) = {} /\ IsQueue(e) /\ DepositsIn(e) = {}
  BY <1>1, NoDeposits DEF Queue
<1>5. Kept(s.delayed) = {}
  BY <1>2, <1>3 DEF Kept
<1>6. DelayedOK(s.delayed) /\ DelayedDeposits(s.delayed) = {}
  BY <1>5 DEF DelayedOK, DelayedDeposits
<1>7. AwaitedInbox(s, None) = {}
  BY <1>2, <1>3 DEF AwaitedInbox
<1>8. DOMAIN InBlueprints(s, None) = {}
  BY <1>7 DEF InBlueprints
<1>9. DOMAIN s.receipts = {}
  BY <1>2, <1>3
<1>10. Tracked(s.deposit_nonce, {}, {}, {}, {}, InBlueprints(s, None))
  BY <1>8 DEF Tracked
<1> QED BY <1>1, <1>4, <1>6, <1>7, <1>9, <1>10 DEF Deposited

LEMMA SoundInit == Init => IInv
<1> SUFFICES ASSUME Init PROVE IInv
  OBVIOUS
<1>1. PICK q \in InitialSequencers : evm = InitialStorage(q)
  BY DEF Init
<1>2. PICK s, o : s = evm /\ o = <<>>
  OBVIOUS
<1>3. Chain(s, None) /\ Deposited(s, None, <<>>)
  BY <1>1, <1>2, InitialChain, InitialDeposits
<1>4. s.bip = None /\ s.receipts = o
  BY <1>1, <1>2 DEF InitialStorage
<1>5. Sound(evm, evm.bip, <<>>)
  BY <1>2, <1>3, <1>4 DEF Sound
<1>6. run.pc = "idle" /\ outbox = o
  BY <1>2 DEF Init, NoRun
<1>7. RunSound(run, tmp)
  BY <1>6 DEF RunSound
<1>8. DOMAIN o = {} /\ o \in Seq({})
  BY <1>2
<1>9. Posted(o, DOMAIN o)
  <2>1. {o[i].tx : i \in DOMAIN o} = {h \in DOMAIN o : ~IsDeposit(h) /\ Tx[h].outcome = "withdraw"}
    BY <1>8
  <2> QED BY <1>8, <2>1 DEF Posted
<1>10. IsSequence(outbox)
  BY <1>6, <1>8 DEF IsSequence
<1>11. Posted(outbox, DOMAIN evm.receipts)
  BY <1>2, <1>4, <1>6, <1>9
<1> QED BY <1>5, <1>6, <1>7, <1>10, <1>11 DEF IInv

LEMMA SoundNext ==
    ASSUME BaseInv, IInv, [Next]_vars
    PROVE  IInv'
<1>1. CASE run_level
  BY <1>1, SoundUnchanged DEF run_level
<1>2. CASE fallback_backup_kernel
  BY <1>2, SoundUnchanged DEF fallback_backup_kernel
<1>3. CASE UNCHANGED vars
  BY <1>3, SoundUnchanged DEF vars
<1> QED BY <1>1, <1>2, <1>3, SoundMigrate, SoundLoop, SoundReadInput, SoundFetch, SoundProduce,
        SoundNextBip, SoundCompute, SoundComputeBip DEF Next, Step, Finished

-----------------------------------------------------------------------------
(* The properties.                                                         *)

LEMMA ChainFollows ==
    ASSUME IInv
    PROVE  ChainConsistent
<1>1. PICK s, b : s = evm /\ b = evm.bip
  OBVIOUS
<1>2. Chain(s, b)
  BY <1>1 DEF IInv, Sound
<1>3. ChainLinks
  <2>1. Links(s, b) /\ read_current_block_number(s) = Len(s.blocks) - 1
    BY <1>2, NextNumber DEF Chain
  <2> QED BY <1>1, <2>1 DEF ChainLinks, Links, ParentOf
<1>4. ReceiptsMatchBlocks
  BY <1>1, <1>2 DEF Chain, Indexed, Receipted, Recorded, Executed, ValidTxs, ReceiptsMatchBlocks
<1> QED BY <1>3, <1>4 DEF ChainConsistent

LEMMA BalancesFollow ==
    ASSUME IInv
    PROVE  BalancesMatchReceipts
<1>1. Balanced(evm)
  BY DEF IInv, Sound, Chain
<1> QED BY <1>1 DEF Balanced, Effect, BalancesMatchReceipts

LEMMA WithdrawalsFollow ==
    ASSUME IInv
    PROVE  WithdrawalsPosted
BY DEF IInv, Posted, WithdrawalsPosted, Idle

\* The blocks form a chain and have exactly their receipts: a transaction is
\* executed once, also when a run leaves its block in progress between any two
\* of its transactions and a later run takes the block up again, and whatever
\* failures, migrations and upgrades come between the two.
THEOREM ChainStaysConsistent ==
    ASSUME MessagesOK
    PROVE  Spec => []ChainConsistent
<1>1. Init => BaseInv /\ IInv
  BY BaseInit, SoundInit
<1>2. BaseInv /\ IInv /\ [Next]_vars => (BaseInv /\ IInv)'
  BY BaseNext, SoundNext
<1>3. IInv => ChainConsistent
  BY ChainFollows
<1> QED BY <1>1, <1>2, <1>3, PTL DEF Spec

\* The balances of the accounts are the initial ones, and what the receipts
\* and objects of the executed transactions say: deposits add their amount,
\* gas and withdrawals are taken, and transfers move value, once each.
THEOREM BalancesStayAccounted ==
    ASSUME MessagesOK
    PROVE  Spec => []BalancesMatchReceipts
<1>1. Init => BaseInv /\ IInv
  BY BaseInit, SoundInit
<1>2. BaseInv /\ IInv /\ [Next]_vars => (BaseInv /\ IInv)'
  BY BaseNext, SoundNext
<1>3. IInv => BalancesMatchReceipts
  BY BalancesFollow
<1> QED BY <1>1, <1>2, <1>3, PTL DEF Spec

\* As long as no run fails, every executed withdrawal was written to the
\* outbox once, although the outbox is not part of what a run promotes.
THEOREM WithdrawalsStayPosted ==
    ASSUME MessagesOK
    PROVE  Spec => []WithdrawalsPosted
<1>1. Init => BaseInv /\ IInv
  BY BaseInit, SoundInit
<1>2. BaseInv /\ IInv /\ [Next]_vars => (BaseInv /\ IInv)'
  BY BaseNext, SoundNext
<1>3. IInv => WithdrawalsPosted
  BY WithdrawalsFollow
<1> QED BY <1>1, <1>2, <1>3, PTL DEF Spec

\* A deposit with a receipt does not wait any more, and a deposit that waits
\* does so once: in the queue of the block in progress, in the delayed inbox or
\* in an inbox blueprint that is not executed yet.  So none is credited twice.
\* (That none is lost is not an invariant of the code: see DepositsAccounted.)
THEOREM DepositsWaitOnce ==
    ASSUME MessagesOK
    PROVE  Spec => []Deposited(evm, evm.bip, <<>>)
<1>1. Init => BaseInv /\ IInv
  BY BaseInit, SoundInit
<1>2. BaseInv /\ IInv /\ [Next]_vars => (BaseInv /\ IInv)'
  BY BaseNext, SoundNext
<1>3. IInv => Deposited(evm, evm.bip, <<>>)
  BY DEF IInv, Sound
<1> QED BY <1>1, <1>2, <1>3, PTL DEF Spec

=============================================================================
