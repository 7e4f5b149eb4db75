-------------------------- MODULE EvmHandlerProofs --------------------------
(***************************************************************************)
(* Proofs about EvmHandler: that value is conserved, that static calls are *)
(* pure and that failed transactions leave no trace, for any accounts, any *)
(* nesting of calls and any costs.                                         *)
(***************************************************************************)
EXTENDS EvmHandler, SumLemmas, SequenceTheorems

AccountSet == [balance : Nat, nonce : Nat, code : BOOLEAN, slot : Nat]
WorldSet == [Accounts -> AccountSet]
Limits == Nat \cup {NoLimit}
GasSet == {g \in [limit : Limits, used : Int] : g.limit = NoLimit \/ g.used <= g.limit}
LayerSet == [gas : GasSet, static : BOOLEAN, logs : Nat,
             deleted : SUBSET (Accounts \ {Withdraw}), withdrawn : Nat]

\* No contract is created at the address of a precompiled contract.
HashedAddresses ==
    \A a \in Accounts, n \in Nat : Fresh(a, n) \in Accounts \ DOMAIN precompile_set

-----------------------------------------------------------------------------
(* Balances.                                                               *)

LEMMA TotalType ==
    ASSUME NEW w \in WorldSet
    PROVE  Total(w) \in Int
<1> DEFINE f == [a \in Accounts |-> w[a].balance]
<1>1. \A a \in Accounts : f[a] \in Int
  BY DEF WorldSet, AccountSet
<1>2. DOMAIN f = Accounts
  OBVIOUS
<1> HIDE DEF f
<1>3. SumFunctionOnSet(f, Accounts) \in Int
  BY <1>1, AddressAssumption, SumRemove
<1> QED BY <1>2, <1>3, Zenon DEF Total, SumFunction, f

\* What the balances add up to when one of them changes.
LEMMA TotalChange ==
    ASSUME NEW w \in WorldSet, NEW x \in WorldSet, NEW b \in Accounts,
           \A a \in Accounts \ {b} : x[a].balance = w[a].balance
    PROVE  Total(x) = Total(w) + x[b].balance - w[b].balance
<1> DEFINE f == [a \in Accounts |-> w[a].balance]
           h == [a \in Accounts |-> x[a].balance]
           R == Accounts \ {b}
<1>1. \A a \in Accounts : f[a] \in Int /\ h[a] \in Int
  BY DEF WorldSet, AccountSet
<1>2. \A a \in R : f[a] \in Int /\ h[a] = f[a]
  BY <1>1
<1>3. DOMAIN f = Accounts /\ DOMAIN h = Accounts /\ f[b] = w[b].balance /\ h[b] = x[b].balance
  OBVIOUS
<1>4. Total(w) = SumFunctionOnSet(f, Accounts) /\ Total(x) = SumFunctionOnSet(h, Accounts)
  BY <1>3, Zenon DEF Total, SumFunction
<1>5. IsFiniteSet(R) /\ IsFiniteSet(Accounts)
  BY AddressAssumption, FS_Subset
<1>6. \A a \in R : f[a] \in Int
  BY <1>2
<1> HIDE DEF f, h, R
<1>7. SumFunctionOnSet(h, R) = SumFunctionOnSet(f, R)
  BY <1>2, <1>5, SumSame
<1>8. SumFunctionOnSet(f, R) \in Int
  BY <1>5, <1>6, SumRemove
<1>9. SumFunctionOnSet(f, Accounts) = f[b] + SumFunctionOnSet(f, R)
  BY <1>1, <1>5, SumRemove DEF R
<1>10. SumFunctionOnSet(h, Accounts) = h[b] + SumFunctionOnSet(h, R)
  BY <1>1, <1>5, SumRemove DEF R
<1> QED BY <1>1, <1>3, <1>4, <1>7, <1>8, <1>9, <1>10

\* Worlds with the same balances have the same total.
LEMMA TotalSame ==
    ASSUME NEW w \in WorldSet, NEW x \in WorldSet,
           \A a \in Accounts : x[a].balance = w[a].balance
    PROVE  Total(x) = Total(w)
<1> DEFINE f == [a \in Accounts |-> w[a].balance]
           h == [a \in Accounts |-> x[a].balance]
<1>1. \A a \in Accounts : f[a] \in Int /\ h[a] = f[a]
  BY DEF WorldSet, AccountSet
<1>2. h = f
  BY <1>1
<1> QED BY <1>2, Zenon DEF Total

LEMMA BalanceAdd ==
    ASSUME NEW w \in WorldSet, NEW b \in Accounts, NEW v \in Nat
    PROVE  LET x == balance_add(w, b, v)
           IN  /\ x \in WorldSet
               /\ Total(x) = Total(w) + v
               /\ x[b].balance = w[b].balance + v
               /\ \A a \in Accounts \ {b} : x[a] = w[a]
               /\ x[b].code = w[b].code /\ x[b].nonce = w[b].nonce
<1> DEFINE x == balance_add(w, b, v)
<1>1. /\ x \in WorldSet
      /\ x[b].balance = w[b].balance + v
      /\ \A a \in Accounts \ {b} : x[a] = w[a]
      /\ x[b].code = w[b].code /\ x[b].nonce = w[b].nonce
  BY DEF balance_add, WorldSet, AccountSet
<1> HIDE DEF x
<1>2. \A a \in Accounts \ {b} : x[a].balance = w[a].balance
  BY <1>1
<1>3. Total(x) = Total(w) + x[b].balance - w[b].balance
  BY <1>1, <1>2, TotalChange
<1>4. w[b].balance \in Nat /\ Total(w) \in Int
  BY TotalType DEF WorldSet, AccountSet
<1>5. Total(x) = Total(w) + v
  BY <1>1, <1>3, <1>4
<1> QED BY <1>1, <1>5 DEF x

LEMMA BalanceRemove ==
    ASSUME NEW w \in WorldSet, NEW b \in Accounts, NEW v \in Nat, can_remove(w, b, v)
    PROVE  LET x == balance_remove(w, b, v)
           IN  /\ x \in WorldSet
               /\ Total(x) = Total(w) - v
               /\ x[b].balance = w[b].balance - v
               /\ \A a \in Accounts \ {b} : x[a] = w[a]
               /\ x[b].code = w[b].code /\ x[b].nonce = w[b].nonce
<1> DEFINE x == balance_remove(w, b, v)
<1>0. w[b] \in AccountSet /\ w[b].balance \in Nat /\ w[b].balance >= v
  BY DEF WorldSet, AccountSet, can_remove
<1>1. /\ x \in WorldSet
      /\ x[b].balance = w[b].balance - v
      /\ \A a \in Accounts \ {b} : x[a] = w[a]
      /\ x[b].code = w[b].code /\ x[b].nonce = w[b].nonce
  <2>1. w[b].balance - v \in Nat
    BY <1>0
  <2> QED BY <1>0, <2>1 DEF balance_remove, WorldSet, AccountSet
<1> HIDE DEF x
<1>2. \A a \in Accounts \ {b} : x[a].balance = w[a].balance
  BY <1>1
<1>3. Total(x) = Total(w) + x[b].balance - w[b].balance
  BY <1>1, <1>2, TotalChange
<1>4. Total(w) \in Int
  BY TotalType
<1>5. Total(x) = Total(w) - v
  BY <1>0, <1>1, <1>3, <1>4
<1> QED BY <1>1, <1>5 DEF x

\* A transfer moves value, possibly to the account it came from.
LEMMA Transfer ==
    ASSUME NEW w \in WorldSet, NEW from \in Accounts, NEW to \in Accounts, NEW v \in Nat,
           transfer_possible(w, from, v)
    PROVE  LET x == execute_transfer(w, from, to, v)
           IN  /\ x \in WorldSet
               /\ Total(x) = Total(w)
               /\ v = 0 => x = w
               /\ \A a \in Accounts : a # from => x[a].balance >= w[a].balance
               /\ from # to => x[to].balance = w[to].balance + v
<1> DEFINE x == execute_transfer(w, from, to, v)
<1>0. \A a \in Accounts : w[a].balance \in Nat
  BY DEF WorldSet, AccountSet
<1>1. CASE v = 0
  <2>1. x = w
    BY <1>1 DEF execute_transfer
  <2> HIDE DEF x
  <2> QED BY <1>0, <1>1, <2>1 DEF x
<1>2. CASE v # 0
  <2> DEFINE y == balance_remove(w, from, v)
  <2>1. can_remove(w, from, v)
    BY <1>2 DEF transfer_possible
  <2>2. /\ y \in WorldSet
        /\ Total(y) = Total(w) - v
        /\ y[from].balance = w[from].balance - v
        /\ \A a \in Accounts \ {from} : y[a] = w[a]
    BY <2>1, BalanceRemove
  <2>3. x = balance_add(y, to, v)
    BY <1>2 DEF execute_transfer
  <2> HIDE DEF y
  <2>4. /\ balance_add(y, to, v) \in WorldSet
        /\ Total(balance_add(y, to, v)) = Total(y) + v
        /\ balance_add(y, to, v)[to].balance = y[to].balance + v
        /\ \A a \in Accounts \ {to} : balance_add(y, to, v)[a] = y[a]
    BY <2>2, BalanceAdd
  <2>5. /\ x \in WorldSet /\ Total(x) = Total(y) + v
        /\ x[to].balance = y[to].balance + v
        /\ \A a \in Accounts \ {to} : x[a] = y[a]
    BY <2>3, <2>4
  <2> HIDE DEF x
  <2>6. Total(x) = Total(w)
    BY <2>2, <2>5, TotalType
  <2>7. ASSUME NEW a \in Accounts, a # from PROVE x[a].balance >= w[a].balance
    <3>1. y[a] = w[a] /\ w[a].balance \in Nat
      BY <1>0, <2>2, <2>7
    <3>2. CASE a = to
      BY <2>5, <3>1, <3>2
    <3>3. CASE a # to
      BY <2>5, <3>1, <3>3
    <3> QED BY <3>2, <3>3
  <2>8. from # to => x[to].balance = w[to].balance + v
    BY <2>2, <2>5
  <2> QED BY <1>2, <2>5, <2>6, <2>7, <2>8 DEF x
<1> QED BY <1>1, <1>2

-----------------------------------------------------------------------------
(* Withdrawals of the layers.                                              *)

\* What the first m layers have withdrawn.
Amounts(d) == [k \in 1 .. Len(d) |-> d[k].withdrawn]
Out(d, m) == SumFunctionOnSet(Amounts(d), 1 .. m)

LEMMA OutStep ==
    ASSUME NEW d, NEW n \in Nat, Len(d) = n, \A k \in 1 .. n : d[k].withdrawn \in Nat
    PROVE  /\ Out(d, 0) = 0
           /\ \A m \in 0 .. n : Out(d, m) \in Nat
           /\ \A m \in 1 .. n : Out(d, m) = d[m].withdrawn + Out(d, m - 1)
<1> DEFINE f == Amounts(d)
<1>1. \A k \in 1 .. n : f[k] = d[k].withdrawn /\ f[k] \in Nat
  BY DEF Amounts
<1> HIDE DEF f
<1>2. Out(d, 0) = 0
  <2>1. 1 .. 0 = {}
    OBVIOUS
  <2>2. SumFunctionOnSet(f, {}) = 0
    BY SumEmpty
  <2> QED BY <2>1, <2>2, Zenon DEF Out, f
<1>3. ASSUME NEW m \in 0 .. n PROVE Out(d, m) \in Nat
  <2>1. IsFiniteSet(1 .. m)
    BY FS_Interval
  <2>2. \A k \in 1 .. m : f[k] \in Nat
    BY <1>1
  <2>3. SumFunctionOnSet(f, 1 .. m) \in Nat
    <3> DEFINE A == 1 .. m
    <3> HIDE DEF A
    <3>1. IsFiniteSet(A) /\ \A k \in A : f[k] \in Nat
      BY <2>1, <2>2 DEF A
    <3>2. SumFunctionOnSet(f, A) \in Nat
      BY <3>1, SumNat
    <3> QED BY <3>2 DEF A
  <2> QED BY <2>3, Zenon DEF Out, f
<1>4. ASSUME NEW m \in 1 .. n PROVE Out(d, m) = d[m].withdrawn + Out(d, m - 1)
  <2> DEFINE A == 1 .. m - 1
  <2>1. 1 .. m = A \cup {m} /\ m \notin A
    OBVIOUS
  <2>2. IsFiniteSet(A)
    BY FS_Interval
  <2>3. \A k \in A \cup {m} : f[k] \in Int
    BY <1>1
  <2> HIDE DEF A
  <2>4. SumFunctionOnSet(f, A \cup {m}) = f[m] + SumFunctionOnSet(f, A)
    BY <2>1, <2>2, <2>3, SumAdd
  <2>5. f[m] = d[m].withdrawn
    BY <1>1
  <2> QED BY <2>1, <2>4, <2>5, Zenon DEF Out, f, A
<1> QED BY <1>2, <1>3, <1>4

\* The sum of all layers is the one the invariant speaks of, and layers that
\* withdraw the same have the same sums.
SameAmounts(d, e, m) ==
    /\ m \in Nat /\ Len(d) \in Nat /\ Len(e) \in Nat /\ m <= Len(d) /\ m <= Len(e)
    /\ \A k \in 1 .. m : d[k].withdrawn \in Nat /\ e[k].withdrawn = d[k].withdrawn

LEMMA OutSame ==
    ASSUME NEW d, NEW e, NEW m, SameAmounts(d, e, m)
    PROVE  Out(e, m) = Out(d, m)
<1> DEFINE f == Amounts(d)
           h == Amounts(e)
           A == 1 .. m
<1>1. \A k \in A : f[k] \in Int /\ h[k] = f[k]
  BY DEF Amounts, SameAmounts
<1>2. IsFiniteSet(A)
  BY FS_Interval DEF SameAmounts
<1> HIDE DEF f, h, A
<1>3. SumFunctionOnSet(h, A) = SumFunctionOnSet(f, A)
  BY <1>1, <1>2, SumSame
<1> QED BY <1>3, Zenon DEF Out, f, h, A

\* Storages with the same contracts.
LEMMA SameSteps ==
    /\ \A v : SameContracts(v, v)
    /\ \A u, v, w : SameContracts(u, v) /\ SameContracts(v, w) => SameContracts(u, w)
<1>1. \A v : SameContracts(v, v)
  BY DEF SameContracts
<1>2. ASSUME NEW u, NEW v, NEW w, SameContracts(u, v), SameContracts(v, w)
      PROVE  SameContracts(u, w)
  BY <1>2 DEF SameContracts
<1> QED BY <1>1, <1>2

\* A transfer changes balances alone.
LEMMA TransferSame ==
    ASSUME NEW w \in WorldSet, NEW from \in Accounts, NEW to \in Accounts, NEW v
    PROVE  SameContracts(w, execute_transfer(w, from, to, v))
<1>1. CASE v = 0
  BY <1>1, SameSteps DEF execute_transfer
<1>2. CASE v # 0
  <2>1. PICK y : y = balance_remove(w, from, v)
    OBVIOUS
  <2>2. DOMAIN w = Accounts /\ \A a \in Accounts : DOMAIN w[a] = {"balance", "nonce", "code", "slot"}
    BY DEF WorldSet, AccountSet
  <2>3. /\ SameContracts(w, y) /\ DOMAIN y = Accounts
        /\ \A a \in Accounts : DOMAIN y[a] = {"balance", "nonce", "code", "slot"}
    BY <2>1, <2>2 DEF balance_remove, SameContracts
  <2>4. PICK x : x = balance_add(y, to, v)
    OBVIOUS
  <2>5. SameContracts(y, x)
    BY <2>3, <2>4 DEF balance_add, SameContracts
  <2>6. execute_transfer(w, from, to, v) = x
    BY <1>2, <2>1, <2>4 DEF execute_transfer
  <2> QED BY <2>3, <2>5, <2>6, SameSteps
<1> QED BY <1>1, <1>2

-----------------------------------------------------------------------------
(* The layers: the worlds ws and the records d, given what was burnt and   *)
(* paid out so far.                                                        *)

Quiet(y) == y.logs = 0 /\ y.deleted = {}
Clean(y) == Quiet(y) /\ y.withdrawn = 0

Shape(ws, d) ==
    /\ ws \in Seq(WorldSet) /\ d \in Seq(LayerSet)
    /\ Len(d) \in Nat /\ Len(ws) = Len(d) + 1

\* Every layer has the whole supply.
Conserved(ws, b) == \A k \in 1 .. Len(ws) : Total(ws[k]) + b = Total(InitialWorld)

\* Every layer holds what the layers below it and itself withdrew.
Held(ws, d, paid) ==
    \A m \in 0 .. Len(d) : paid + Out(d, m) <= ws[m + 1][Withdraw].balance

\* Above a static layer all layers are static and no contract has changed.
Pure(ws, d) ==
    \A k \in 1 .. Len(d) : d[k].static =>
      \A j \in k .. Len(d) : d[j].static /\ SameContracts(ws[k], ws[j + 1]) /\ Quiet(d[j])

LInv(ws, d, b, paid) ==
    /\ Shape(ws, d)
    /\ Conserved(ws, b)
    /\ Held(ws, d, paid)
    /\ Pure(ws, d)

LEMMA WithdrawAccount == Withdraw \in Accounts /\ Withdraw \in DOMAIN precompile_set
<1>1. Withdraw \in {a \in DOMAIN precompile_set : precompile_set[a] = "withdrawal"}
  BY CostAssumption
<1> QED BY <1>1, CostAssumption

\* What sequences are made of.
LEMMA SeqSteps ==
    ASSUME NEW S, NEW s \in Seq(S), NEW n \in Nat, Len(s) = n
    PROVE  /\ \A i \in 1 .. n : s[i] \in S
           /\ n >= 1 => Last(s) = s[n] /\ s[n] \in S
           /\ n >= 1 => /\ Front(s) \in Seq(S) /\ Len(Front(s)) = n - 1
                        /\ \A i \in 1 .. n - 1 : Front(s)[i] = s[i]
           /\ \A x \in S : /\ Append(s, x) \in Seq(S) /\ Len(Append(s, x)) = n + 1
                           /\ \A i \in 1 .. n : Append(s, x)[i] = s[i]
                           /\ Append(s, x)[n + 1] = x
           /\ \A x \in S : n >= 1 =>
                /\ [s EXCEPT ![n] = x] \in Seq(S) /\ Len([s EXCEPT ![n] = x]) = n
                /\ \A i \in 1 .. n : [s EXCEPT ![n] = x][i] = IF i = n THEN x ELSE s[i]
<1>1. \A i \in 1 .. n : s[i] \in S
  BY ElementOfSeq
<1>2. n >= 1 => Last(s) = s[n] /\ s[n] \in S
  BY <1>1 DEF Last
<1>3. ASSUME n >= 1
      PROVE  /\ Front(s) \in Seq(S) /\ Len(Front(s)) = n - 1
             /\ \A i \in 1 .. n - 1 : Front(s)[i] = s[i]
  <2>1. /\ SubSeq(s, 1, n - 1) \in Seq(S) /\ Len(SubSeq(s, 1, n - 1)) = n - 1
        /\ \A i \in 1 .. n - 1 : SubSeq(s, 1, n - 1)[i] = s[i]
    BY <1>1, <1>3
  <2> QED BY <2>1 DEF Front
<1>4. ASSUME NEW x \in S
      PROVE  /\ Append(s, x) \in Seq(S) /\ Len(Append(s, x)) = n + 1
             /\ \A i \in 1 .. n : Append(s, x)[i] = s[i]
             /\ Append(s, x)[n + 1] = x
  BY <1>1
<1>5. ASSUME NEW x \in S, n >= 1
      PROVE  /\ [s EXCEPT ![n] = x] \in Seq(S) /\ Len([s EXCEPT ![n] = x]) = n
             /\ \A i \in 1 .. n : [s EXCEPT ![n] = x][i] = IF i = n THEN x ELSE s[i]
  <2>1. n \in 1 .. Len(s)
    BY <1>5
  <2> QED BY <1>5, <2>1, ExceptSeq
<1> QED BY <1>1, <1>2, <1>3, <1>4, <1>5

-----------------------------------------------------------------------------
(* The steps layers take.                                                  *)

\* The top layer goes from world v and record x to w and y.
TopAllowed(v, x, w, y) ==
    /\ w \in WorldSet /\ y \in LayerSet
    /\ Total(w) = Total(v)
    /\ y.static = x.static /\ y.gas.limit = x.gas.limit
    /\ x.static => SameContracts(v, w) /\ (Quiet(x) => Quiet(y))
    /\ y.withdrawn + v[Withdraw].balance <= x.withdrawn + w[Withdraw].balance

\* vs and e are ws and d, except for the n-th layer.
TopReplaced(ws, d, n, w, y, vs, e) ==
    /\ Shape(vs, e) /\ Len(e) = n
    /\ \A i \in 1 .. n + 1 : vs[i] = IF i = n + 1 THEN w ELSE ws[i]
    /\ \A i \in 1 .. n : e[i] = IF i = n THEN y ELSE d[i]

\* Whatever the top layer does within these limits.
LEMMA TopStep ==
    ASSUME NEW ws, NEW d, NEW b, NEW paid, LInv(ws, d, b, paid), paid \in Int,
           NEW n \in Nat, Len(d) = n, n >= 1,
           NEW w, NEW y, TopAllowed(ws[n + 1], d[n], w, y),
           NEW vs, NEW e, TopReplaced(ws, d, n, w, y, vs, e)
    PROVE  LInv(vs, e, b, paid) /\ vs[1] = ws[1]
<1> USE DEF TopReplaced
<1>1. /\ ws \in Seq(WorldSet) /\ d \in Seq(LayerSet) /\ Len(ws) = n + 1 /\ Len(vs) = n + 1
  BY DEF LInv, Shape
<1>2. /\ \A i \in 1 .. n + 1 : ws[i] \in WorldSet
      /\ \A i \in 1 .. n : d[i] \in LayerSet
  BY <1>1, ElementOfSeq
<1>3. vs[1] = ws[1]
  BY <1>1
<1>4. Conserved(vs, b)
  BY <1>1 DEF Conserved, LInv, TopAllowed
<1>5. Held(vs, e, paid)
  <2>1. \A k \in 1 .. n : d[k].withdrawn \in Nat /\ e[k].withdrawn \in Nat
    BY <1>2 DEF LayerSet, TopAllowed
  <2>2. /\ \A m \in 0 .. n : Out(d, m) \in Nat
        /\ Out(d, n) = d[n].withdrawn + Out(d, n - 1)
    <3>1. n \in 1 .. n
      OBVIOUS
    <3> QED BY <2>1, <3>1, OutStep
  <2>3. Out(e, n) = e[n].withdrawn + Out(e, n - 1) /\ Out(e, n - 1) \in Nat
    <3>1. n \in 1 .. n /\ n - 1 \in 0 .. n
      OBVIOUS
    <3>2. /\ \A m \in 0 .. n : Out(e, m) \in Nat
          /\ \A m \in 1 .. n : Out(e, m) = e[m].withdrawn + Out(e, m - 1)
      BY <2>1, OutStep
    <3> QED BY <3>1, <3>2
  <2>4. ASSUME NEW m \in 0 .. n - 1 PROVE Out(e, m) = Out(d, m)
    <3>1. \A k \in 1 .. m : d[k].withdrawn \in Nat /\ e[k].withdrawn = d[k].withdrawn
      <4>1. \A k \in 1 .. m : k \in 1 .. n /\ k # n
        OBVIOUS
      <4>2. \A k \in 1 .. m : e[k] = d[k]
        BY <4>1
      <4> QED BY <2>1, <4>1, <4>2
    <3>2. m \in Nat /\ m <= n
      OBVIOUS
    <3>3. SameAmounts(d, e, m)
      BY <3>1, <3>2 DEF SameAmounts
    <3> QED BY <3>3, OutSame
  <2>5. \A m \in 0 .. n : paid + Out(d, m) <= ws[m + 1][Withdraw].balance
    BY DEF LInv, Held
  <2>6. \A i \in 1 .. n + 1 : ws[i][Withdraw].balance \in Nat /\ vs[i][Withdraw].balance \in Nat
    <3>1. \A i \in 1 .. n + 1 : vs[i] \in WorldSet
      BY <1>2 DEF TopAllowed
    <3> QED BY <1>2, <3>1, WithdrawAccount DEF WorldSet, AccountSet
  <2>7. ASSUME NEW m \in 0 .. n PROVE paid + Out(e, m) <= vs[m + 1][Withdraw].balance
    <3>1. CASE m < n
      <4>1. m \in 0 .. n - 1 /\ m + 1 \in 1 .. n + 1 /\ m + 1 # n + 1
        BY <3>1
      <4> QED BY <2>4, <2>5, <4>1
    <3>2. CASE m = n
      <4> DEFINE A == ws[n + 1][Withdraw].balance
                 B == vs[n + 1][Withdraw].balance
                 P == d[n].withdrawn
                 Q == e[n].withdrawn
                 R == Out(d, n - 1)
      <4>1. n \in 1 .. n /\ n + 1 \in 1 .. n + 1 /\ n - 1 \in 0 .. n - 1 /\ n - 1 \in 0 .. n
        OBVIOUS
      <4>2. A \in Nat /\ B \in Nat /\ P \in Nat /\ Q \in Nat /\ R \in Nat
        BY <2>1, <2>2, <2>6, <4>1
      <4>3. Q + A <= P + B
        BY <4>1 DEF TopAllowed
      <4>4. Out(d, n) = P + R /\ Out(e, n) = Q + R /\ paid + Out(d, n) <= A
        <5>1. Out(e, n - 1) = R
          BY <2>4, <4>1
        <5>2. n \in 0 .. n
          OBVIOUS
        <5> QED BY <2>2, <2>3, <2>5, <5>1, <5>2
      <4> HIDE DEF A, B, P, Q, R
      <4>5. paid + Out(e, n) <= B
        BY <4>2, <4>3, <4>4
      <4> QED BY <3>2, <4>5 DEF B
    <3> QED BY <3>1, <3>2
  <2> QED BY <2>7 DEF Held
<1>6. Pure(vs, e)
  <2>0. e[n] = y /\ vs[n + 1] = w /\ TopAllowed(ws[n + 1], d[n], w, y)
    OBVIOUS
  <2>1. \A k \in 1 .. n : e[k].static = d[k].static
    BY DEF TopAllowed
  <2>2. ASSUME NEW k \in 1 .. n, e[k].static, NEW j \in k .. n
        PROVE  e[j].static /\ SameContracts(vs[k], vs[j + 1]) /\ Quiet(e[j])
    <3>0. j \in 1 .. n /\ k # n + 1 /\ k \in 1 .. n + 1 /\ j + 1 \in 1 .. n + 1
      OBVIOUS
    <3>1. d[j].static /\ SameContracts(ws[k], ws[j + 1]) /\ Quiet(d[j])
      BY <2>1, <2>2 DEF LInv, Pure
    <3>2. vs[k] = ws[k]
      BY <3>0
    <3>3. CASE j = n
      BY <2>0, <3>1, <3>2, <3>3, SameSteps DEF TopAllowed
    <3>4. CASE j # n
      <4>1. vs[j + 1] = ws[j + 1] /\ e[j] = d[j]
        BY <3>0, <3>4
      <4> QED BY <3>1, <3>2, <4>1
    <3> QED BY <3>3, <3>4
  <2> QED BY <2>2 DEF Pure
<1> QED BY <1>3, <1>4, <1>5, <1>6 DEF LInv

\* A new layer on top: a copy of the storage, and a record with nothing in it
\* that is static above a static one.
LEMMA PushStep ==
    ASSUME NEW ws, NEW d, NEW b, NEW paid, LInv(ws, d, b, paid), paid \in Int,
           NEW n \in Nat, Len(d) = n,
           NEW y \in LayerSet, Clean(y), n >= 1 => (d[n].static => y.static)
    PROVE  LInv(Append(ws, ws[n + 1]), Append(d, y), b, paid)
<1> DEFINE vs == Append(ws, ws[n + 1])
           e == Append(d, y)
<1>1. ws \in Seq(WorldSet) /\ d \in Seq(LayerSet) /\ Len(ws) = n + 1
  BY DEF LInv, Shape
<1>2. /\ \A i \in 1 .. n + 1 : ws[i] \in WorldSet
      /\ \A i \in 1 .. n : d[i] \in LayerSet
  BY <1>1, ElementOfSeq
<1>3. /\ e \in Seq(LayerSet) /\ Len(e) = n + 1
      /\ \A i \in 1 .. n : e[i] = d[i]
      /\ e[n + 1] = y
  BY <1>1, SeqSteps
<1>4. /\ vs \in Seq(WorldSet) /\ Len(vs) = n + 2
      /\ \A i \in 1 .. n + 1 : vs[i] = ws[i]
      /\ vs[n + 2] = ws[n + 1]
  <2>1. PICK l \in Nat : l = n + 1
    OBVIOUS
  <2>2. ws[l] \in WorldSet /\ Len(ws) = l
    BY <1>1, <1>2, <2>1
  <2>3. /\ Append(ws, ws[l]) \in Seq(WorldSet) /\ Len(Append(ws, ws[l])) = l + 1
        /\ \A i \in 1 .. l : Append(ws, ws[l])[i] = ws[i]
        /\ Append(ws, ws[l])[l + 1] = ws[l]
    BY <1>1, <2>2, SeqSteps
  <2> QED BY <2>1, <2>3
<1> HIDE DEF vs, e
<1>5. Shape(vs, e)
  BY <1>3, <1>4 DEF Shape
<1>6. Conserved(vs, b)
  <2>1. \A k \in 1 .. n + 2 : k \in 1 .. n + 1 \/ k = n + 2
    OBVIOUS
  <2> QED BY <1>1, <1>4, <2>1 DEF Conserved, LInv
<1>7. Held(vs, e, paid)
  <2>1. \A k \in 1 .. n + 1 : e[k].withdrawn \in Nat
    <3>1. \A k \in 1 .. n + 1 : e[k] \in LayerSet
      BY <1>3, ElementOfSeq
    <3> QED BY <3>1 DEF LayerSet
  <2>2. \A k \in 1 .. n : d[k].withdrawn \in Nat
    BY <1>2 DEF LayerSet
  <2>3. PICK l \in Nat : l = n + 1
    OBVIOUS
  <2>4. /\ \A m \in 0 .. l : Out(e, m) \in Nat
        /\ \A m \in 1 .. l : Out(e, m) = e[m].withdrawn + Out(e, m - 1)
    BY <1>3, <2>1, <2>3, OutStep
  <2>5. ASSUME NEW m \in 0 .. n PROVE Out(e, m) = Out(d, m)
    <3>1. \A k \in 1 .. m : d[k].withdrawn \in Nat /\ e[k].withdrawn = d[k].withdrawn
      BY <1>3, <2>2
    <3>2. m \in Nat /\ m <= n /\ m <= n + 1
      OBVIOUS
    <3>3. SameAmounts(d, e, m)
      BY <1>3, <3>1, <3>2 DEF SameAmounts
    <3> QED BY <3>3, OutSame
  <2>6. \A m \in 0 .. n : paid + Out(d, m) <= ws[m + 1][Withdraw].balance
    BY DEF LInv, Held
  <2>7. ASSUME NEW m \in 0 .. n + 1 PROVE paid + Out(e, m) <= vs[m + 1][Withdraw].balance
    <3>1. CASE m <= n
      <4>1. m \in 0 .. n /\ m + 1 \in 1 .. n + 1
        BY <3>1
      <4> QED BY <1>4, <2>5, <2>6, <4>1
    <3>2. CASE m = n + 1
      <4>1. Out(e, m) = Out(d, n)
        <5>1. m \in 1 .. l /\ m - 1 = n /\ n \in 0 .. n /\ e[m] = y /\ n \in 0 .. l
          BY <1>3, <2>3, <3>2
        <5>2. y.withdrawn = 0
          BY DEF Clean
        <5>3. Out(e, m) = 0 + Out(e, n)
          BY <2>4, <5>1, <5>2
        <5>4. Out(e, n) \in Nat /\ Out(e, n) = Out(d, n)
          BY <2>4, <2>5, <5>1
        <5> QED BY <5>3, <5>4
      <4>2. vs[m + 1] = ws[n + 1]
        <5>1. m + 1 = n + 2
          BY <3>2
        <5> QED BY <1>4, <5>1
      <4>3. n \in 0 .. n
        OBVIOUS
      <4> QED BY <2>6, <4>1, <4>2, <4>3
    <3> QED BY <3>1, <3>2
  <2> QED BY <1>3, <2>7 DEF Held
<1>8. Pure(vs, e)
  <2>1. ASSUME NEW k \in 1 .. n + 1, e[k].static, NEW j \in k .. n + 1
        PROVE  e[j].static /\ SameContracts(vs[k], vs[j + 1]) /\ Quiet(e[j])
    <3>1. CASE j <= n
      <4>1. k \in 1 .. n /\ j \in k .. n /\ j + 1 \in 1 .. n + 1 /\ k \in 1 .. n + 1 /\ j \in 1 .. n
        BY <3>1
      <4>2. d[k].static
        BY <1>3, <2>1, <4>1
      <4>3. d[j].static /\ SameContracts(ws[k], ws[j + 1]) /\ Quiet(d[j])
        BY <4>1, <4>2 DEF LInv, Pure
      <4> QED BY <1>3, <1>4, <4>1, <4>3
    <3>2. CASE j = n + 1 /\ k = n + 1
      <4>1. n + 1 \in 1 .. n + 1 /\ j + 1 = n + 2
        BY <3>2
      <4> QED BY <1>3, <1>4, <2>1, <3>2, <4>1, SameSteps DEF Clean
    <3>3. CASE j = n + 1 /\ k # n + 1
      <4>1. k \in 1 .. n /\ n \in k .. n /\ n >= 1 /\ n + 1 \in 1 .. n + 1 /\ j + 1 = n + 2
            /\ k \in 1 .. n + 1
        BY <3>3
      <4>2. d[k].static
        BY <1>3, <2>1, <4>1
      <4>3. d[n].static /\ SameContracts(ws[k], ws[n + 1])
        BY <4>1, <4>2 DEF LInv, Pure
      <4>4. y.static
        BY <4>1, <4>3
      <4> QED BY <1>3, <1>4, <3>3, <4>1, <4>3, <4>4 DEF Clean
    <3> QED BY <3>1, <3>2, <3>3
  <2> QED BY <1>3, <2>1 DEF Pure
<1>9. LInv(vs, e, b, paid)
  BY <1>5, <1>6, <1>7, <1>8 DEF LInv
<1> QED BY <1>9 DEF vs, e

\* The top layer is dropped.
Popped(ws, d, vs, e, n, b, paid) ==
    /\ LInv(vs, e, b, paid)
    /\ vs[1] = ws[1] /\ Len(e) = n - 1
    /\ \A i \in 1 .. n - 1 : e[i] = d[i]

LEMMA PopStep ==
    ASSUME NEW ws, NEW d, NEW b, NEW paid, LInv(ws, d, b, paid), paid \in Int,
           NEW n \in Nat, Len(d) = n, n >= 1
    PROVE  Popped(ws, d, Front(ws), Front(d), n, b, paid)
<1> DEFINE vs == Front(ws)
           e == Front(d)
<1>1. ws \in Seq(WorldSet) /\ d \in Seq(LayerSet) /\ Len(ws) = n + 1
  BY DEF LInv, Shape
<1>2. \A i \in 1 .. n : d[i] \in LayerSet
  BY <1>1, ElementOfSeq
<1>3. e \in Seq(LayerSet) /\ Len(e) = n - 1 /\ \A i \in 1 .. n - 1 : e[i] = d[i]
  BY <1>1, SeqSteps
<1>4. vs \in Seq(WorldSet) /\ Len(vs) = n /\ \A i \in 1 .. n : vs[i] = ws[i]
  <2>1. PICK l \in Nat : l = n + 1 /\ l >= 1 /\ l - 1 = n
    OBVIOUS
  <2>2. Front(ws) \in Seq(WorldSet) /\ Len(Front(ws)) = l - 1
        /\ \A i \in 1 .. l - 1 : Front(ws)[i] = ws[i]
    BY <1>1, <2>1, SeqSteps
  <2> QED BY <2>1, <2>2
<1> HIDE DEF vs, e
<1>5. Shape(vs, e)
  BY <1>3, <1>4 DEF Shape
<1>6. Conserved(vs, b)
  BY <1>1, <1>4 DEF Conserved, LInv
<1>7. Held(vs, e, paid)
  <2>1. ASSUME NEW m \in 0 .. n - 1 PROVE Out(e, m) = Out(d, m)
    <3>1. \A k \in 1 .. m : d[k].withdrawn \in Nat /\ e[k].withdrawn = d[k].withdrawn
      BY <1>2, <1>3 DEF LayerSet
    <3>2. SameAmounts(d, e, m)
      BY <1>3, <3>1 DEF SameAmounts
    <3> QED BY <3>2, OutSame
  <2>2. \A m \in 0 .. n : paid + Out(d, m) <= ws[m + 1][Withdraw].balance
    BY DEF LInv, Held
  <2>3. ASSUME NEW m \in 0 .. n - 1 PROVE paid + Out(e, m) <= vs[m + 1][Withdraw].balance
    <3>1. m \in 0 .. n /\ m + 1 \in 1 .. n
      OBVIOUS
    <3> QED BY <1>4, <2>1, <2>2, <3>1
  <2> QED BY <1>3, <2>3 DEF Held
<1>8. Pure(vs, e)
  <2>1. ASSUME NEW k \in 1 .. n - 1, e[k].static, NEW j \in k .. n - 1
        PROVE  e[j].static /\ SameContracts(vs[k], vs[j + 1]) /\ Quiet(e[j])
    <3>1. j \in 1 .. n - 1 /\ k \in 1 .. n /\ j \in k .. n /\ j + 1 \in 1 .. n
      OBVIOUS
    <3>2. d[j].static /\ SameContracts(ws[k], ws[j + 1]) /\ Quiet(d[j])
      BY <1>3, <2>1, <3>1 DEF LInv, Pure
    <3> QED BY <1>3, <1>4, <3>1, <3>2
  <2> QED BY <1>3, <2>1 DEF Pure
<1>9. LInv(vs, e, b, paid)
  BY <1>5, <1>6, <1>7, <1>8 DEF LInv
<1>10. vs[1] = ws[1]
  BY <1>4
<1>11. Popped(ws, d, vs, e, n, b, paid)
  BY <1>3, <1>9, <1>10 DEF Popped
<1> QED BY <1>11 DEF vs, e

\* The record y of the layer below takes what the top layer x did.
Absorbs(z, x, y) ==
    /\ y \in LayerSet
    /\ y.static = z.static /\ y.gas.limit = z.gas.limit
    /\ y.logs = z.logs + x.logs
    /\ y.withdrawn = z.withdrawn + x.withdrawn
    /\ y.deleted = z.deleted \cup x.deleted

\* In vs and e, the layer below the n-th has its world and the record y.
TopMerged(ws, d, n, y, vs, e) ==
    /\ Shape(vs, e) /\ Len(e) = n - 1
    /\ \A i \in 1 .. n : vs[i] = IF i = n THEN ws[n + 1] ELSE ws[i]
    /\ \A i \in 1 .. n - 1 : e[i] = IF i = n - 1 THEN y ELSE d[i]

\* The top layer is merged into the one below it.
LEMMA MergeStep ==
    ASSUME NEW ws, NEW d, NEW b, NEW paid, LInv(ws, d, b, paid), paid \in Int,
           NEW n \in Nat, Len(d) = n, n >= 2,
           NEW y, Absorbs(d[n - 1], d[n], y),
           NEW vs, NEW e, TopMerged(ws, d, n, y, vs, e)
    PROVE  LInv(vs, e, b, paid) /\ vs[1] = ws[1]
<1> USE DEF TopMerged
<1>0. PICK l \in Nat : l = n - 1 /\ l >= 1 /\ l + 1 = n
  OBVIOUS
<1>1. ws \in Seq(WorldSet) /\ d \in Seq(LayerSet) /\ Len(ws) = n + 1 /\ Len(vs) = n /\ Len(e) = l
  BY <1>0 DEF LInv, Shape
<1>2. \A i \in 1 .. n : d[i] \in LayerSet
  BY <1>1, ElementOfSeq
<1>3. vs[1] = ws[1]
  BY <1>0
<1>4. Conserved(vs, b)
  <2>1. \A k \in 1 .. n + 1 : Total(ws[k]) + b = Total(InitialWorld)
    BY <1>1 DEF Conserved, LInv
  <2>2. \A k \in 1 .. n : Total(vs[k]) + b = Total(InitialWorld)
    BY <2>1
  <2> QED BY <1>1, <2>2 DEF Conserved
<1>5. e[l] = y /\ \A i \in 1 .. l - 1 : e[i] = d[i]
  BY <1>0
<1>6. Held(vs, e, paid)
  <2>1. /\ \A k \in 1 .. n : d[k].withdrawn \in Nat
        /\ \A k \in 1 .. l : e[k].withdrawn \in Nat
    <3>1. \A k \in 1 .. l : e[k] \in LayerSet
      BY <1>1, ElementOfSeq DEF Shape
    <3> QED BY <1>2, <3>1 DEF LayerSet
  <2>2. /\ \A m \in 0 .. n : Out(d, m) \in Nat
        /\ \A m \in 1 .. n : Out(d, m) = d[m].withdrawn + Out(d, m - 1)
    BY <2>1, OutStep
  <2>3. /\ \A m \in 0 .. l : Out(e, m) \in Nat
        /\ \A m \in 1 .. l : Out(e, m) = e[m].withdrawn + Out(e, m - 1)
    BY <1>1, <2>1, OutStep
  <2>4. ASSUME NEW m \in 0 .. l - 1 PROVE Out(e, m) = Out(d, m)
    <3>1. \A k \in 1 .. m : d[k].withdrawn \in Nat /\ e[k].withdrawn = d[k].withdrawn
      BY <1>0, <1>5, <2>1
    <3>2. SameAmounts(d, e, m)
      BY <1>0, <1>1, <3>1 DEF SameAmounts
    <3> QED BY <3>2, OutSame
  <2>5. \A m \in 0 .. n : paid + Out(d, m) <= ws[m + 1][Withdraw].balance
    BY DEF LInv, Held
  <2>6. Out(e, l) = Out(d, n)
    <3>1. l \in 1 .. l /\ l - 1 \in 0 .. l - 1 /\ l \in 1 .. n /\ n \in 1 .. n /\ n - 1 = l
          /\ l - 1 \in 0 .. l
      BY <1>0
    <3>2. PICK p \in Nat, q \in Nat : p = d[l].withdrawn /\ q = d[n].withdrawn
      BY <2>1, <3>1
    <3>3. e[l].withdrawn = p + q
      BY <1>0, <1>5, <3>2 DEF Absorbs
    <3>4. PICK r \in Nat : r = Out(d, l - 1)
      <4>1. l - 1 \in 0 .. n
        BY <1>0
      <4> QED BY <2>2, <4>1
    <3>5. Out(e, l - 1) = r
      BY <2>4, <3>1, <3>4
    <3>6. Out(e, l) = (p + q) + r
      BY <2>3, <3>1, <3>3, <3>5
    <3>7. Out(d, l) = p + r
      BY <2>2, <3>1, <3>2, <3>4
    <3>8. Out(d, n) = q + (p + r)
      BY <2>2, <3>1, <3>2, <3>7
    <3> QED BY <3>6, <3>8
  <2>7. ASSUME NEW m \in 0 .. l PROVE paid + Out(e, m) <= vs[m + 1][Withdraw].balance
    <3>1. CASE m = l
      <4>1. n \in 0 .. n /\ n \in 1 .. n /\ m + 1 = n
        BY <1>0, <3>1
      <4>2. vs[m + 1] = ws[n + 1]
        BY <4>1
      <4> QED BY <2>5, <2>6, <3>1, <4>1, <4>2
    <3>2. CASE m # l
      <4>1. m \in 0 .. l - 1 /\ m \in 0 .. n /\ m + 1 \in 1 .. n /\ m + 1 # n
        BY <1>0, <3>2
      <4> QED BY <2>4, <2>5, <4>1
    <3> QED BY <3>1, <3>2
  <2> QED BY <1>1, <2>7 DEF Held
<1>7. Pure(vs, e)
  <2>1. ASSUME NEW k \in 1 .. l, e[k].static, NEW j \in k .. l
        PROVE  e[j].static /\ SameContracts(vs[k], vs[j + 1]) /\ Quiet(e[j])
    <3>0. j \in 1 .. l /\ k \in 1 .. n /\ k # n /\ j \in k .. n /\ l \in k .. n /\ n \in k .. n
          /\ j + 1 \in 1 .. n /\ l \in 1 .. l
      BY <1>0
    <3>1. d[k].static
      <4>1. CASE k = l
        BY <1>0, <1>5, <2>1, <4>1 DEF Absorbs
      <4>2. CASE k # l
        <5>1. k \in 1 .. l - 1
          BY <4>2
        <5> QED BY <1>5, <2>1, <5>1
      <4> QED BY <4>1, <4>2
    <3>2. \A i \in k .. n : d[i].static /\ SameContracts(ws[k], ws[i + 1]) /\ Quiet(d[i])
      BY <3>0, <3>1 DEF LInv, Pure
    <3>3. vs[k] = ws[k]
      BY <3>0
    <3>4. CASE j = l
      <4>1. vs[j + 1] = ws[n + 1] /\ SameContracts(ws[k], ws[n + 1])
        BY <1>0, <3>0, <3>2, <3>4
      <4>2. d[l].static /\ Quiet(d[l]) /\ Quiet(d[n])
        BY <3>0, <3>2
      <4>3. y.static /\ Quiet(y)
        BY <1>0, <4>2 DEF Absorbs, Quiet
      <4> QED BY <1>5, <3>3, <3>4, <4>1, <4>3
    <3>5. CASE j # l
      <4>1. j \in 1 .. l - 1 /\ j + 1 # n
        BY <1>0, <3>0, <3>5
      <4>2. e[j] = d[j] /\ vs[j + 1] = ws[j + 1]
        BY <1>5, <3>0, <4>1
      <4> QED BY <3>0, <3>2, <3>3, <4>2
    <3> QED BY <3>4, <3>5
  <2> QED BY <1>1, <2>1 DEF Pure
<1> QED BY <1>3, <1>4, <1>6, <1>7 DEF LInv

-----------------------------------------------------------------------------
(* Gas.                                                                    *)

LEMMA GasSteps ==
    ASSUME NEW g \in GasSet
    PROVE  /\ drain(g) \in GasSet /\ drain(g).limit = g.limit
           /\ gas_remaining(g) \in Nat /\ gas_used(g) \in Int
           /\ \A c \in Nat : record_cost(g, c) \in GasSet /\ record_stipend(g, c) \in GasSet
           /\ \A c \in Nat : record_cost(g, c).limit = g.limit /\ record_stipend(g, c).limit = g.limit
<1>1. g.limit \in Limits /\ g.used \in Int /\ (g.limit = NoLimit \/ g.used <= g.limit)
      /\ g = [limit |-> g.limit, used |-> g.used]
  BY DEF GasSet
<1>2. g.limit # NoLimit => g.limit \in Nat
  BY <1>1 DEF Limits
<1>3. \A u \in Int : g.limit # NoLimit /\ u <= g.limit => [g EXCEPT !.used = u] \in GasSet
  BY <1>1 DEF GasSet
<1>4. drain(g) \in GasSet
  <2>1. CASE g.limit = NoLimit
    BY <2>1 DEF drain
  <2>2. CASE g.limit # NoLimit
    <3>1. [g EXCEPT !.used = g.limit] \in GasSet
      BY <1>2, <1>3, <2>2
    <3> QED BY <2>2, <3>1 DEF drain
  <2> QED BY <2>1, <2>2
<1>5. gas_remaining(g) \in Nat /\ gas_used(g) \in Int
  BY <1>1, <1>2 DEF gas_remaining, gas_used
<1>6. ASSUME NEW c \in Nat PROVE record_cost(g, c) \in GasSet
  <2>1. CASE g.limit = NoLimit
    BY <2>1 DEF record_cost
  <2>2. CASE g.limit # NoLimit
    <3>1. PICK u \in Int : u = (IF affordable(g, c) THEN g.used + c ELSE g.limit) /\ u <= g.limit
      BY <1>1, <1>2, <2>2 DEF affordable
    <3>2. record_cost(g, c) = [g EXCEPT !.used = u]
      BY <2>2, <3>1 DEF record_cost
    <3> QED BY <1>3, <2>2, <3>1, <3>2
  <2> QED BY <2>1, <2>2
<1>7. ASSUME NEW c \in Nat PROVE record_stipend(g, c) \in GasSet
  <2>1. CASE g.limit = NoLimit
    BY <2>1 DEF record_stipend
  <2>2. CASE g.limit # NoLimit
    <3>1. PICK u \in Int : u = g.used - c /\ u <= g.limit
      BY <1>1, <1>2, <2>2
    <3>2. record_stipend(g, c) = [g EXCEPT !.used = u]
      BY <2>2, <3>1 DEF record_stipend
    <3> QED BY <1>3, <2>2, <3>1, <3>2
  <2> QED BY <2>1, <2>2
<1>8. drain(g).limit = g.limit
  BY <1>1 DEF drain
<1>9. \A c \in Nat : record_cost(g, c).limit = g.limit /\ record_stipend(g, c).limit = g.limit
  BY <1>1 DEF record_cost, record_stipend
<1> QED BY <1>4, <1>5, <1>6, <1>7, <1>8, <1>9

LEMMA NewGas ==
    ASSUME NEW limit \in Limits
    PROVE  Gasometer(limit) \in GasSet
<1>1. limit = NoLimit \/ 0 <= limit
  BY DEF Limits
<1> QED BY <1>1 DEF Gasometer, GasSet

LEMMA NestedGas ==
    ASSUME NEW g \in GasSet, NEW t \in Limits
    PROVE  /\ nested_call_gas_limit(g, t) \in Limits
           /\ t # NoLimit => nested_call_gas_limit(g, t) \in Nat
<1>1. PICK r \in Nat : r = gas_remaining(g)
  BY GasSteps
<1>2. r - r \div Divisor \in Nat
  <2>1. PICK q \in Int : q = r \div Divisor
    BY CostAssumption
  <2>2. q <= r
    <3>1. Divisor \in Nat /\ Divisor > 0
      BY CostAssumption
    <3>2. q * Divisor <= r /\ q >= 0
      BY <2>1, <3>1
    <3>3. q <= q * Divisor
      BY <3>1, <3>2
    <3> QED BY <3>1, <3>2, <3>3
  <2> QED BY <2>1, <2>2
<1>3. t # NoLimit => t \in Nat
  BY DEF Limits
<1>4. PICK h \in Nat : h = r - r \div Divisor
  BY <1>2
<1>5. t # NoLimit => Lower(t, h) \in Nat
  BY <1>3 DEF Lower
<1>6. t # NoLimit => nested_call_gas_limit(g, t) = Lower(t, h)
  BY <1>1, <1>4 DEF nested_call_gas_limit
<1>7. t = NoLimit => nested_call_gas_limit(g, t) = NoLimit
  BY DEF nested_call_gas_limit
<1> QED BY <1>5, <1>6, <1>7 DEF Limits

-----------------------------------------------------------------------------
(* Entering a frame keeps the invariant of the layers.                     *)

Kept(ws, d, vs, e, b, paid) ==
    /\ LInv(vs, e, b, paid)
    /\ vs[1] = ws[1]
    /\ Len(e) = Len(d)
    /\ \A i \in 1 .. Len(d) : e[i].static = d[i].static /\ e[i].gas.limit = d[i].gas.limit

LEMMA TopUpdate ==
    ASSUME NEW ws, NEW d, NEW b, NEW paid, LInv(ws, d, b, paid), paid \in Int,
           NEW n \in Nat, Len(d) = n, n >= 1,
           NEW w, NEW y, TopAllowed(ws[n + 1], d[n], w, y)
    PROVE  /\ Kept(ws, d, WithTop(ws, w), [d EXCEPT ![n] = y], b, paid)
           /\ WithTop(ws, w)[n + 1] = w
<1>1. ws \in Seq(WorldSet) /\ d \in Seq(LayerSet) /\ Len(ws) = n + 1
  BY DEF LInv, Shape
<1>2. w \in WorldSet /\ y \in LayerSet
  BY DEF TopAllowed
<1> DEFINE vs == WithTop(ws, w)
           e == [d EXCEPT ![n] = y]
<1>3. /\ e \in Seq(LayerSet) /\ Len(e) = n
      /\ \A i \in 1 .. n : e[i] = IF i = n THEN y ELSE d[i]
  BY <1>1, <1>2, SeqSteps
<1>4. /\ vs \in Seq(WorldSet) /\ Len(vs) = n + 1
      /\ \A i \in 1 .. n + 1 : vs[i] = IF i = n + 1 THEN w ELSE ws[i]
  <2>1. PICK l \in Nat : l = n + 1 /\ l >= 1
    OBVIOUS
  <2>2. /\ [ws EXCEPT ![l] = w] \in Seq(WorldSet) /\ Len([ws EXCEPT ![l] = w]) = l
        /\ \A i \in 1 .. l : [ws EXCEPT ![l] = w][i] = IF i = l THEN w ELSE ws[i]
    BY <1>1, <1>2, <2>1, SeqSteps
  <2>3. vs = [ws EXCEPT ![l] = w]
    BY <1>1, <2>1 DEF WithTop
  <2> QED BY <2>1, <2>2, <2>3
<1> HIDE DEF vs, e
<1>5. Shape(vs, e)
  BY <1>3, <1>4 DEF Shape
<1>6. LInv(vs, e, b, paid) /\ vs[1] = ws[1]
  <2>1. TopReplaced(ws, d, n, w, y, vs, e)
    BY <1>3, <1>4, <1>5 DEF TopReplaced
  <2> QED BY <2>1, TopStep
<1>7. \A i \in 1 .. n : e[i].static = d[i].static /\ e[i].gas.limit = d[i].gas.limit
  BY <1>3 DEF TopAllowed
<1>8. vs[n + 1] = w
  BY <1>4
<1> QED BY <1>3, <1>6, <1>7, <1>8 DEF Kept, vs, e

\* Charging gas changes nothing else.
LEMMA GasUpdate ==
    ASSUME NEW ws, NEW d, NEW b, NEW paid, LInv(ws, d, b, paid), paid \in Int,
           NEW n \in Nat, Len(d) = n, n >= 1, NEW g \in GasSet, g.limit = d[n].gas.limit
    PROVE  Kept(ws, d, ws, WithGas(d, g), b, paid)
<1>1. /\ ws \in Seq(WorldSet) /\ d \in Seq(LayerSet) /\ Len(ws) = n + 1
      /\ ws[n + 1] \in WorldSet /\ d[n] \in LayerSet
  BY ElementOfSeq DEF LInv, Shape
<1> DEFINE w == ws[n + 1]
           y == [d[n] EXCEPT !.gas = g]
<1>2. /\ y \in LayerSet /\ y.static = d[n].static /\ y.withdrawn = d[n].withdrawn
      /\ y.logs = d[n].logs /\ y.deleted = d[n].deleted /\ d[n].withdrawn \in Nat
      /\ y.gas.limit = d[n].gas.limit
  BY <1>1 DEF LayerSet
<1>3. w[Withdraw].balance \in Nat
  BY <1>1, WithdrawAccount DEF WorldSet, AccountSet
<1>4. WithTop(ws, w) = ws
  BY <1>1 DEF WithTop
<1>5. [d EXCEPT ![n] = y] = WithGas(d, g)
  BY <1>1 DEF WithGas
<1> HIDE DEF w, y
<1>6. TopAllowed(ws[n + 1], d[n], w, y)
  BY <1>1, <1>2, <1>3, SameSteps DEF TopAllowed, Quiet, w
<1>7. Kept(ws, d, WithTop(ws, w), [d EXCEPT ![n] = y], b, paid)
  BY <1>6, TopUpdate
<1> QED BY <1>4, <1>5, <1>7

\* What a precompiled contract does to the record of its layer.
Precompiled(x, y, address, value) ==
    /\ y \in LayerSet
    /\ y.static = x.static /\ y.logs = x.logs /\ y.deleted = x.deleted
    /\ y.gas.limit = x.gas.limit
    /\ \/ y.withdrawn = x.withdrawn
       \/ /\ address = Withdraw /\ value \in Nat /\ value # 0
          /\ y.withdrawn = x.withdrawn + value

\* What running it returns.
PrecompileResult(f, ws, d, n, address, value) ==
    /\ f.worlds = ws /\ f.result # "running"
    /\ \E y : f.data = [d EXCEPT ![n] = y] /\ Precompiled(d[n], y, address, value)

LEMMA PrecompileEntry ==
    ASSUME NEW ws, NEW d \in Seq(LayerSet), NEW n \in Nat, Len(d) = n, n >= 1, NEW t,
           NEW address \in DOMAIN precompile_set, NEW value \in Limits, NEW ok \in BOOLEAN
    PROVE  PrecompileResult(precompile(address, ws, d, t, value, ok), ws, d, n, address, value)
<1> USE DEF PrecompileResult
<1> DEFINE e == precompile(address, ws, d, t, value, ok)
           Fine(f) == PrecompileResult(f, ws, d, n, address, value)
<1>1. d[n] \in LayerSet /\ Last(d) = d[n]
  <2>1. n \in 1 .. Len(d)
    OBVIOUS
  <2> QED BY <2>1, ElementOfSeq DEF Last
<1>2. d[n].gas \in GasSet
  BY <1>1 DEF LayerSet
<1>3. \A r, u : Entry(ws, d, r, u).worlds = ws /\ Entry(ws, d, r, u).data = d
                /\ Entry(ws, d, r, u).result = r
  BY DEF Entry
<1>4. ASSUME NEW g \in GasSet, g.limit = d[n].gas.limit, NEW r, r # "running", NEW u
      PROVE  Fine(Entry(ws, WithGas(d, g), r, u))
  <2> DEFINE y == [d[n] EXCEPT !.gas = g]
  <2>1. WithGas(d, g) = [d EXCEPT ![n] = y]
    BY DEF WithGas
  <2>2. Precompiled(d[n], y, address, value)
    BY <1>1, <1>4 DEF Precompiled, LayerSet
  <2> HIDE DEF y
  <2> QED BY <1>4, <2>1, <2>2 DEF Entry
<1>5. ASSUME NEW r, r # "running", NEW u PROVE Fine(Entry(ws, d, r, u))
  <2>1. d = [d EXCEPT ![n] = d[n]]
    BY ExceptSeq
  <2>2. Precompiled(d[n], d[n], address, value)
    BY <1>1 DEF Precompiled
  <2> QED BY <1>5, <2>1, <2>2 DEF Entry
<1>6. PICK c : c = record_cost(d[n].gas, PrecompileGas) /\ c \in GasSet /\ c.limit = d[n].gas.limit
  <2>1. PICK g \in GasSet : g = d[n].gas
    BY <1>2
  <2>2. PrecompileGas \in Nat
    BY CostAssumption
  <2>3. record_cost(g, PrecompileGas) \in GasSet /\ record_cost(g, PrecompileGas).limit = g.limit
    BY <2>2, GasSteps
  <2> QED BY <2>1, <2>3
<1>7. PICK z : z = drain(d[n].gas) /\ z \in GasSet /\ z.limit = d[n].gas.limit
  BY <1>2, GasSteps
<1>8. PICK r : r = (IF affordable(d[n].gas, PrecompileGas) THEN "succeed" ELSE "error") /\ r # "running"
  OBVIOUS
<1>9. Fine(hash_precompile(ws, d, t))
  <2> HIDE DEF Fine, PrecompileResult
  <2> QED BY <1>1, <1>4, <1>5, <1>6, <1>8 DEF hash_precompile
<1>10. Fine(ecrecover_precompile(ws, d, t, ok))
  <2>1. PICK f : f = hash_precompile(ws, d, t)
    OBVIOUS
  <2>2. f = [worlds |-> f.worlds, data |-> f.data, result |-> f.result, ticks |-> f.ticks]
    BY <2>1 DEF hash_precompile, Entry
  <2>3. Fine(f)
    BY <1>9, <2>1
  <2>4. Fine([f EXCEPT !.ticks = t])
    BY <2>2, <2>3
  <2>5. ecrecover_precompile(ws, d, t, ok) = f \/ ecrecover_precompile(ws, d, t, ok) = [f EXCEPT !.ticks = t]
    BY <2>1 DEF ecrecover_precompile
  <2> HIDE DEF Fine, PrecompileResult
  <2> QED BY <2>3, <2>4, <2>5
<1>11. Fine(modexp_precompile(ws, d, t, ok))
  <2> HIDE DEF Fine, PrecompileResult
  <2> QED BY <1>1, <1>4, <1>5, <1>6, <1>8 DEF modexp_precompile
<1>12. Fine(ecadd_precompile(ws, d, t, ok))
  <2> HIDE DEF Fine, PrecompileResult
  <2> QED BY <1>1, <1>4, <1>6, <1>7, <1>8 DEF ecadd_precompile, call_precompile_with_gas_draining
<1>13. ASSUME address = Withdraw PROVE Fine(withdrawal_precompile(ws, d, t, value, ok))
  <2>1. CASE fail_if_too_much(t) \/ value = NoLimit \/ value = 0 \/ ~ok
    <3> HIDE DEF Fine, PrecompileResult
    <3> QED BY <1>5, <2>1 DEF withdrawal_precompile
  <2>2. CASE ~(fail_if_too_much(t) \/ value = NoLimit \/ value = 0 \/ ~ok)
    <3> DEFINE y == [d[n] EXCEPT !.withdrawn = @ + value]
               c2 == [d EXCEPT ![Len(d)].withdrawn = @ + value]
    <3>1. value \in Nat /\ value # 0
      BY <2>2 DEF Limits
    <3>2. Precompiled(d[n], y, address, value)
      <4>1. PICK a \in Nat : a = d[n].withdrawn + value
        BY <1>1, <3>1 DEF LayerSet
      <4>2. y = [d[n] EXCEPT !.withdrawn = a]
        BY <4>1
      <4>3. /\ y \in LayerSet /\ y.withdrawn = a
            /\ y.static = d[n].static /\ y.logs = d[n].logs /\ y.deleted = d[n].deleted
            /\ y.gas.limit = d[n].gas.limit
        BY <1>1, <4>2 DEF LayerSet
      <4> HIDE DEF y
      <4> QED BY <1>13, <3>1, <4>1, <4>3 DEF Precompiled
    <3>3. c2 = [d EXCEPT ![n] = y]
      OBVIOUS
    <3>4. withdrawal_precompile(ws, d, t, value, ok) = Entry(ws, c2, "succeed", t + PrecompileTicks)
      BY <2>2 DEF withdrawal_precompile
    <3> HIDE DEF y, c2
    <3>5. Fine(Entry(ws, c2, "succeed", t + PrecompileTicks))
      BY <3>2, <3>3 DEF Entry
    <3> HIDE DEF Fine, PrecompileResult
    <3> QED BY <3>4, <3>5
  <2> QED BY <2>1, <2>2
<1>14. /\ precompile_set[address] = "withdrawal" => address = Withdraw
       /\ precompile_set[address] \in {"hash", "ecrecover", "modexp", "curve", "pairing", "withdrawal"}
  <2>1. precompile_set[address] = "withdrawal"
          => address \in {a \in DOMAIN precompile_set : precompile_set[a] = "withdrawal"}
    OBVIOUS
  <2> QED BY <2>1, CostAssumption
<1>15. Fine(e)
  <2> HIDE DEF Fine, PrecompileResult
  <2> QED BY <1>9, <1>10, <1>11, <1>12, <1>13, <1>14 DEF precompile, ecpairing_precompile
<1> HIDE DEF PrecompileResult
<1> QED BY <1>15, Zenon DEF e, Fine

\* The layers after an entry; a precompiled contract has run at once.
Entered(e, ws, d, b, paid, address) ==
    /\ Kept(ws, d, e.worlds, e.data, b, paid)
    /\ e.result = "running" => address \notin DOMAIN precompile_set

\* execute_call: a call that transfers value pays for it, a withdrawal is
\* recorded only with the transfer to the contract that withdraws, and no
\* contract changes.
LEMMA CallEntry ==
    ASSUME NEW ws, NEW d, NEW b, NEW paid, LInv(ws, d, b, paid), paid \in Int,
           NEW n \in Nat, Len(d) = n, n >= 1, NEW t,
           NEW caller \in Accounts, caller # Withdraw, NEW address \in Accounts,
           NEW value \in Limits, NEW ok \in BOOLEAN
    PROVE  Entered(execute_call(ws, d, t, caller, address, value, ok), ws, d, b, paid, address)
<1> USE DEF Entered
<1> DEFINE e == execute_call(ws, d, t, caller, address, value, ok)
<1>1. /\ ws \in Seq(WorldSet) /\ d \in Seq(LayerSet) /\ Len(ws) = n + 1
      /\ ws[n + 1] \in WorldSet /\ d[n] \in LayerSet
  BY ElementOfSeq DEF LInv, Shape
<1>2. Last(ws) = ws[n + 1]
  BY <1>1 DEF Last
<1>3. PICK v \in Nat : v = (IF value = NoLimit THEN 0 ELSE value)
  BY DEF Limits
<1>4. PICK x : x = ws[n + 1] /\ x \in WorldSet
  BY <1>1
<1>5. PICK w : w = execute_transfer(x, caller, address, v)
  OBVIOUS
<1>6. Kept(ws, d, ws, d, b, paid)
  BY DEF Kept
<1>7. CASE Len(ws) - 1 > StackLimit
  <2>1. e = Entry(ws, d, "fatal", t)
    BY <1>7 DEF execute_call
  <2>2. e.worlds = ws /\ e.data = d /\ e.result = "fatal"
    BY <2>1 DEF Entry
  <2> HIDE DEF e
  <2> QED BY <1>6, <2>2 DEF e
<1>8. CASE ~(Len(ws) - 1 > StackLimit) /\ ~transfer_possible(x, caller, v)
  <2>1. e = Entry(ws, d, "error", t)
    BY <1>2, <1>3, <1>4, <1>8 DEF execute_call
  <2>2. e.worlds = ws /\ e.data = d /\ e.result = "error"
    BY <2>1 DEF Entry
  <2> HIDE DEF e
  <2> QED BY <1>6, <2>2 DEF e
<1>9. ASSUME ~(Len(ws) - 1 > StackLimit), transfer_possible(x, caller, v)
      PROVE  /\ Kept(ws, d, e.worlds, e.data, b, paid)
             /\ e.result = "running" => address \notin DOMAIN precompile_set
  <2>1. /\ w \in WorldSet /\ Total(w) = Total(x)
        /\ SameContracts(x, w)
        /\ w[Withdraw].balance >= x[Withdraw].balance
        /\ address = Withdraw => w[Withdraw].balance = x[Withdraw].balance + v
    BY <1>3, <1>4, <1>5, <1>9, Transfer, TransferSame, WithdrawAccount
  <2>2. x[Withdraw].balance \in Nat /\ w[Withdraw].balance \in Nat
    BY <1>4, <2>1, WithdrawAccount DEF WorldSet, AccountSet
  <2>3. d[n].withdrawn \in Nat
    BY <1>1 DEF LayerSet
  <2>4. PICK ps : ps = WithTop(ws, w)
    OBVIOUS
  <2>5. CASE address \in DOMAIN precompile_set
    <3>1. e = precompile(address, ps, d, t, value, ok)
      BY <1>2, <1>3, <1>4, <1>5, <1>9, <2>4, <2>5 DEF execute_call
    <3>a. PrecompileResult(precompile(address, ps, d, t, value, ok), ps, d, n, address, value)
      BY <1>1, <2>5, PrecompileEntry
    <3>b. PrecompileResult(e, ps, d, n, address, value)
      BY <3>1, <3>a, Zenon
    <3> HIDE DEF e
    <3>2. /\ e.worlds = ps /\ e.result # "running"
          /\ \E y : e.data = [d EXCEPT ![n] = y] /\ Precompiled(d[n], y, address, value)
      BY <3>b DEF PrecompileResult
    <3>3. PICK y : e.data = [d EXCEPT ![n] = y] /\ Precompiled(d[n], y, address, value)
      BY <3>2
    <3>4. TopAllowed(x, d[n], w, y)
      <4>1. y.withdrawn + x[Withdraw].balance <= d[n].withdrawn + w[Withdraw].balance
        <5>1. CASE y.withdrawn = d[n].withdrawn
          BY <2>1, <2>2, <2>3, <5>1
        <5>2. CASE y.withdrawn # d[n].withdrawn
          <6>1. address = Withdraw /\ y.withdrawn = d[n].withdrawn + v
            BY <1>3, <3>3, <5>2, ValueAssumption DEF Precompiled
          <6> QED BY <2>1, <2>2, <2>3, <6>1
        <5> QED BY <5>1, <5>2
      <4>2. Quiet(d[n]) => Quiet(y)
        BY <3>3 DEF Precompiled, Quiet
      <4> QED BY <2>1, <3>3, <4>1, <4>2 DEF TopAllowed, Precompiled
    <3>5. Kept(ws, d, ps, [d EXCEPT ![n] = y], b, paid)
      BY <1>4, <2>4, <3>4, TopUpdate
    <3> QED BY <3>2, <3>3, <3>5
  <2>6. CASE address \notin DOMAIN precompile_set
    <3>1. PICK r : e = Entry(ps, d, r, t)
      BY <1>2, <1>3, <1>4, <1>5, <1>9, <2>4, <2>6 DEF execute_call
    <3>2. e.worlds = ps /\ e.data = d
      BY <3>1 DEF Entry
    <3> HIDE DEF e
    <3>3. TopAllowed(x, d[n], w, d[n])
      <4>1. d[n].withdrawn + x[Withdraw].balance <= d[n].withdrawn + w[Withdraw].balance
        BY <2>1, <2>2, <2>3
      <4> QED BY <1>1, <2>1, <4>1 DEF TopAllowed
    <3>4. d = [d EXCEPT ![n] = d[n]]
      BY <1>1, ExceptSeq
    <3>5. Kept(ws, d, ps, [d EXCEPT ![n] = d[n]], b, paid)
      BY <1>4, <2>4, <3>3, TopUpdate
    <3>6. Kept(ws, d, ps, d, b, paid)
      BY <3>4, <3>5, Zenon
    <3> QED BY <2>6, <3>2, <3>6
  <2> QED BY <2>5, <2>6
<1> QED BY <1>7, <1>8, <1>9

\* execute_create, of a frame that is not static.
LEMMA CreateEntry ==
    ASSUME NEW ws, NEW d, NEW b, NEW paid, LInv(ws, d, b, paid), paid \in Int,
           NEW n \in Nat, Len(d) = n, n >= 1, NEW t,
           NEW caller \in Accounts, caller # Withdraw, NEW address \in Accounts,
           NEW create2, NEW value \in Nat, NEW opcode,
           ~d[n].static, address \notin DOMAIN precompile_set
    PROVE  Entered(execute_create(ws, d, t, caller, address, create2, value, opcode),
                   ws, d, b, paid, address)
<1> USE DEF Entered
<1> DEFINE e == execute_create(ws, d, t, caller, address, create2, value, opcode)
<1>1. /\ ws \in Seq(WorldSet) /\ d \in Seq(LayerSet) /\ Len(ws) = n + 1
      /\ ws[n + 1] \in WorldSet /\ d[n] \in LayerSet
  BY ElementOfSeq DEF LInv, Shape
<1>2. PICK x : x = ws[n + 1] /\ x \in WorldSet /\ Last(ws) = x
  BY <1>1 DEF Last
<1>3. PICK w : w = execute_transfer(x, caller, address, value)
  OBVIOUS
<1>4. d[n].withdrawn \in Nat /\ x[Withdraw].balance \in Nat
  BY <1>1, <1>2, WithdrawAccount DEF LayerSet, WorldSet, AccountSet
<1>5. d = [d EXCEPT ![n] = d[n]]
  BY <1>1, ExceptSeq
<1>6. ASSUME NEW u \in WorldSet, Total(u) = Total(x), u[Withdraw].balance >= x[Withdraw].balance
      PROVE  Kept(ws, d, WithTop(ws, u), d, b, paid)
  <2>1. u[Withdraw].balance \in Nat
    BY WithdrawAccount DEF WorldSet, AccountSet
  <2>2. d[n].withdrawn + x[Withdraw].balance <= d[n].withdrawn + u[Withdraw].balance
    BY <1>4, <1>6, <2>1
  <2>3. TopAllowed(x, d[n], u, d[n])
    BY <1>1, <1>6, <2>2 DEF TopAllowed
  <2>4. Kept(ws, d, WithTop(ws, u), [d EXCEPT ![n] = d[n]], b, paid)
    BY <1>2, <2>3, TopUpdate
  <2> QED BY <1>5, <2>4, Zenon
<1>7. ASSUME NEW u \in WorldSet
      PROVE  /\ increment_nonce(u, caller) \in WorldSet
             /\ Total(increment_nonce(u, caller)) = Total(u)
             /\ increment_nonce(u, caller)[Withdraw].balance = u[Withdraw].balance
  <2> DEFINE z == increment_nonce(u, caller)
  <2>1. z \in WorldSet /\ \A a \in Accounts : z[a].balance = u[a].balance
    BY DEF increment_nonce, WorldSet, AccountSet
  <2> HIDE DEF z
  <2>2. Total(z) = Total(u)
    BY <2>1, TotalSame
  <2> QED BY <2>1, <2>2, WithdrawAccount DEF z
<1>8. Kept(ws, d, ws, d, b, paid)
  BY DEF Kept
<1>9. \A us, r : /\ Entry(us, d, r, t).worlds = us /\ Entry(us, d, r, t).data = d
  BY DEF Entry
<1>10. \/ e = Entry(WithTop(ws, increment_nonce(x, caller)), d, "succeed", t)
       \/ \E r : e = Entry(ws, d, r, t)
       \/ /\ transfer_possible(x, caller, value)
          /\ \/ e = Entry(WithTop(ws, increment_nonce(w, caller)), d, "running", t)
             \/ e = Entry(WithTop(ws, w), d, "running", t)
  BY <1>2, <1>3 DEF execute_create
<1> HIDE DEF e
<1>11. CASE e = Entry(WithTop(ws, increment_nonce(x, caller)), d, "succeed", t)
  <2>1. Kept(ws, d, WithTop(ws, increment_nonce(x, caller)), d, b, paid)
    <3>1. PICK u \in WorldSet : u = increment_nonce(x, caller)
      BY <1>2, <1>7
    <3>2. Total(u) = Total(x) /\ u[Withdraw].balance >= x[Withdraw].balance
      BY <1>2, <1>4, <1>7, <3>1
    <3> QED BY <1>6, <3>1, <3>2
  <2> QED BY <1>9, <1>11, <2>1 DEF e
<1>12. CASE \E r : e = Entry(ws, d, r, t)
  BY <1>8, <1>9, <1>12 DEF e
<1>13. ASSUME transfer_possible(x, caller, value),
              \/ e = Entry(WithTop(ws, increment_nonce(w, caller)), d, "running", t)
              \/ e = Entry(WithTop(ws, w), d, "running", t)
       PROVE  Kept(ws, d, e.worlds, e.data, b, paid)
  <2>1. /\ w \in WorldSet /\ Total(w) = Total(x)
        /\ w[Withdraw].balance >= x[Withdraw].balance
    BY <1>2, <1>3, <1>13, Transfer, WithdrawAccount
  <2>2. Kept(ws, d, WithTop(ws, w), d, b, paid)
    BY <1>6, <2>1
  <2>3. Kept(ws, d, WithTop(ws, increment_nonce(w, caller)), d, b, paid)
    <3>1. PICK u \in WorldSet : u = increment_nonce(w, caller)
      BY <1>7, <2>1
    <3>2. Total(u) = Total(x) /\ u[Withdraw].balance >= x[Withdraw].balance
      BY <1>7, <2>1, <3>1
    <3> QED BY <1>6, <3>1, <3>2
  <2> QED BY <1>9, <1>13, <2>2, <2>3
<1> QED BY <1>10, <1>11, <1>12, <1>13 DEF e

-----------------------------------------------------------------------------
(* The layers of an opcode, of a new frame and of a frame that ends.       *)

LEMMA KeptTwice ==
    ASSUME NEW ws, NEW d, NEW vs, NEW e, NEW us, NEW f, NEW b, NEW paid,
           Kept(ws, d, vs, e, b, paid), Kept(vs, e, us, f, b, paid)
    PROVE  Kept(ws, d, us, f, b, paid)
BY DEF Kept

LEMMA OpcodeLayers ==
    ASSUME NEW ws, NEW d, NEW b, NEW paid, LInv(ws, d, b, paid), paid \in Int,
           NEW n \in Nat, Len(d) = n, n >= 1,
           NEW w, NEW y, TopAllowed(ws[n + 1], d[n], w, y),
           NEW g \in GasSet, g.limit = d[n].gas.limit
    PROVE  Kept(ws, d, WithTop(ws, w), WithGas([d EXCEPT ![n] = y], g), b, paid)
<1>1. PICK vs, e : vs = WithTop(ws, w) /\ e = [d EXCEPT ![n] = y]
  OBVIOUS
<1>2. Kept(ws, d, WithTop(ws, w), [d EXCEPT ![n] = y], b, paid)
  BY TopUpdate
<1>3. Kept(ws, d, vs, e, b, paid)
  BY <1>1, <1>2, Zenon
<1>4. LInv(vs, e, b, paid) /\ Len(e) = n /\ g.limit = e[n].gas.limit
  BY <1>3 DEF Kept
<1>5. Kept(vs, e, vs, WithGas(e, g), b, paid)
  BY <1>4, GasUpdate
<1>6. Kept(ws, d, vs, WithGas(e, g), b, paid)
  BY <1>3, <1>5, KeptTwice
<1> QED BY <1>1, <1>6, Zenon

\* vs and e are ws and d with a layer on top, static if st.
Pushed(ws, d, vs, e, b, paid, st) ==
    /\ LInv(vs, e, b, paid)
    /\ vs[1] = ws[1]
    /\ Len(e) = Len(d) + 1
    /\ \A i \in 1 .. Len(d) : e[i].static = d[i].static /\ e[i].gas.limit = d[i].gas.limit
    /\ e[Len(d) + 1].static = st

LEMMA CallLayers ==
    ASSUME NEW ws, NEW d, NEW b, NEW paid, LInv(ws, d, b, paid), paid \in Int,
           NEW n \in Nat, Len(d) = n, n >= 1, NEW w, w = ws[n + 1],
           NEW g \in GasSet, g.limit = d[n].gas.limit, NEW given \in Limits, NEW static \in BOOLEAN
    PROVE  Pushed(ws, d, Append(ws, w), begin_transaction_data(WithGas(d, g), static, given),
                  b, paid, static \/ d[n].static)
<1>1. PICK e : e = WithGas(d, g)
  OBVIOUS
<1>2. Kept(ws, d, ws, WithGas(d, g), b, paid)
  BY GasUpdate
<1>3. Kept(ws, d, ws, e, b, paid)
  BY <1>1, <1>2, Zenon
<1>4. LInv(ws, e, b, paid) /\ Len(e) = n /\ e[n].static = d[n].static
  BY <1>3 DEF Kept
<1>5. /\ ws \in Seq(WorldSet) /\ e \in Seq(LayerSet) /\ d \in Seq(LayerSet) /\ Len(ws) = n + 1
      /\ w \in WorldSet /\ e[n] \in LayerSet /\ e # <<>> /\ Last(e) = e[n]
  <2>1. ws \in Seq(WorldSet) /\ e \in Seq(LayerSet) /\ Len(ws) = n + 1 /\ d \in Seq(LayerSet)
    BY <1>4 DEF LInv, Shape
  <2>2. w \in WorldSet /\ e[n] \in LayerSet /\ e # <<>> /\ Last(e) = e[n]
    BY <1>4, <2>1, ElementOfSeq DEF Last
  <2> QED BY <2>1, <2>2
<1>6. PICK st \in BOOLEAN : st = (static \/ d[n].static) /\ st = is_static(e, static)
  BY <1>4, <1>5 DEF is_static
<1>7. PICK y : y = LayerData(st, given)
  OBVIOUS
<1>8. y \in LayerSet /\ Clean(y) /\ y.static = st
  <2>1. Gasometer(given) \in GasSet
    BY NewGas
  <2> QED BY <1>7, <2>1 DEF LayerData, LayerSet, Clean, Quiet
<1>9. LInv(Append(ws, w), Append(e, y), b, paid)
  <2>1. n >= 1 => (e[n].static => y.static)
    BY <1>4, <1>6, <1>8
  <2>2. LInv(Append(ws, ws[n + 1]), Append(e, y), b, paid)
    BY <1>4, <1>8, <2>1, PushStep
  <2> QED BY <2>2
<1>10. begin_transaction_data(WithGas(d, g), static, given) = Append(e, y)
  BY <1>1, <1>6, <1>7 DEF begin_transaction_data
<1>11. /\ Len(Append(e, y)) = n + 1
       /\ \A i \in 1 .. n : Append(e, y)[i] = e[i]
       /\ Append(e, y)[n + 1] = y
  BY <1>4, <1>5, <1>8, SeqSteps
<1>12. Append(ws, w)[1] = ws[1]
  <2>1. PICK l \in Nat : l = n + 1 /\ 1 \in 1 .. l
    OBVIOUS
  <2>2. \A i \in 1 .. l : Append(ws, w)[i] = ws[i]
    BY <1>5, <2>1, SeqSteps
  <2> QED BY <2>1, <2>2
<1>13. PICK f, vs : f = Append(e, y) /\ vs = Append(ws, w)
  OBVIOUS
<1>14. Pushed(ws, d, vs, f, b, paid, st)
  BY <1>3, <1>8, <1>9, <1>11, <1>12, <1>13 DEF Pushed, Kept
<1> QED BY <1>6, <1>10, <1>13, <1>14

\* Between transactions there is one storage.
LEMMA IdleLayers ==
    ASSUME NEW w \in WorldSet, NEW b, NEW paid \in Int,
           Total(w) + b = Total(InitialWorld), paid <= w[Withdraw].balance
    PROVE  LInv(<<w>>, <<>>, b, paid)
<1>1. PICK ws, d : ws = <<w>> /\ d = <<>>
  OBVIOUS
<1>2. ws \in Seq(WorldSet) /\ Len(ws) = 1 /\ ws[1] = w /\ d \in Seq(LayerSet) /\ Len(d) = 0
  BY <1>1
<1>3. Out(d, 0) = 0
  <2>1. PICK n \in Nat : n = 0
    OBVIOUS
  <2>2. Len(d) = n /\ \A k \in 1 .. n : d[k].withdrawn \in Nat
    BY <1>2, <2>1
  <2> QED BY <2>2, OutStep
<1>4. Shape(ws, d)
  BY <1>2 DEF Shape
<1>5. Conserved(ws, b)
  BY <1>2 DEF Conserved
<1>6. Held(ws, d, paid)
  <2>1. \A m \in 0 .. Len(d) : m = 0
    BY <1>2
  <2> QED BY <1>2, <1>3, <2>1 DEF Held
<1>7. Pure(ws, d)
  <2>1. \A k \in 1 .. Len(d) : FALSE
    BY <1>2
  <2> QED BY <2>1 DEF Pure
<1> QED BY <1>1, <1>4, <1>5, <1>6, <1>7 DEF LInv

-----------------------------------------------------------------------------
(* The invariant of the handler.                                           *)

FrameSet == [kind : {"call", "create"}, self : Accounts, gasBefore : Int]

\* One frame for each layer.  The contract that withdraws runs no bytecode,
\* and no static frame creates a contract.
FInv(fs, d, r) ==
    /\ fs \in Seq(FrameSet)
    /\ Len(fs) \in Nat /\ Len(fs) = Len(d)
    /\ \A k \in 1 .. Len(fs) : fs[k].self = Withdraw => k = Len(fs) /\ r # "running"
    /\ \A k \in 1 .. Len(fs) : fs[k].kind = "create" => ~d[k].static

\* What a transaction x has done to the original storage: it was paid for.
PaidFor(w, x, limit) ==
    /\ x.caller \in Senders
    /\ x.limit \in Limits /\ x.limit = limit
    /\ x.before \in WorldSet
    /\ can_remove(x.before, x.caller, fee(x.limit))
    /\ w = balance_remove(x.before, x.caller, fee(x.limit))

TInv(ws, d, x) == Len(d) >= 1 => PaidFor(ws[1], x, d[1].gas.limit)

IInv ==
    /\ LInv(worlds, data, burnt, paidOut)
    /\ burnt \in Int /\ paidOut \in Nat
    /\ FInv(frames, data, result)
    /\ TInv(worlds, data, tx)

LEMMA FramesKept ==
    ASSUME NEW fs, NEW d, NEW e, NEW r, FInv(fs, d, "running"), Len(e) = Len(d),
           \A i \in 1 .. Len(d) : e[i].static = d[i].static
    PROVE  FInv(fs, e, r)
BY DEF FInv

LEMMA FramesPushed ==
    ASSUME NEW fs, NEW d, NEW e, NEW r, FInv(fs, d, "running"), NEW n \in Nat, Len(d) = n,
           Len(e) = n + 1, \A i \in 1 .. n : e[i].static = d[i].static,
           NEW z \in FrameSet, z.self = Withdraw => r # "running",
           z.kind = "create" => ~e[n + 1].static
    PROVE  FInv(Append(fs, z), e, r)
<1>1. fs \in Seq(FrameSet) /\ Len(fs) = n
  BY DEF FInv
<1>2. PICK gs : gs = Append(fs, z)
  OBVIOUS
<1>3. /\ gs \in Seq(FrameSet) /\ Len(gs) = n + 1 /\ gs[n + 1] = z
      /\ \A i \in 1 .. n : gs[i] = fs[i]
  BY <1>1, <1>2, SeqSteps
<1>4. ASSUME NEW k \in 1 .. n + 1
      PROVE  /\ gs[k].self = Withdraw => k = n + 1 /\ r # "running"
             /\ gs[k].kind = "create" => ~e[k].static
  <2>1. CASE k = n + 1
    BY <1>3, <2>1
  <2>2. CASE k # n + 1
    <3>1. k \in 1 .. n
      BY <2>2
    <3> QED BY <1>1, <1>3, <3>1 DEF FInv
  <2> QED BY <2>1, <2>2
<1>5. FInv(gs, e, r)
  BY <1>3, <1>4 DEF FInv
<1> QED BY <1>2, <1>5

LEMMA FramesPopped ==
    ASSUME NEW fs, NEW d, NEW e, NEW r, NEW q, FInv(fs, d, q), NEW n \in Nat, Len(d) = n, n >= 1,
           Len(e) = n - 1, \A i \in 1 .. n - 1 : e[i].static = d[i].static
    PROVE  FInv(Front(fs), e, r)
<1>1. fs \in Seq(FrameSet) /\ Len(fs) = n
  BY DEF FInv
<1>2. PICK gs : gs = Front(fs)
  OBVIOUS
<1>3. /\ gs \in Seq(FrameSet) /\ Len(gs) = n - 1
      /\ \A i \in 1 .. n - 1 : gs[i] = fs[i]
  BY <1>1, <1>2, SeqSteps
<1>4. ASSUME NEW k \in 1 .. n - 1
      PROVE  gs[k].self # Withdraw /\ (gs[k].kind = "create" => ~e[k].static)
  <2>1. k \in 1 .. n /\ k # n
    OBVIOUS
  <2> QED BY <1>1, <1>3, <2>1 DEF FInv
<1>5. FInv(gs, e, r)
  BY <1>3, <1>4 DEF FInv
<1> QED BY <1>2, <1>5

\* The state in a transaction, under names that do not change with a step.
Now(ws, d, fs, b, paid, x, n) ==
    /\ ws = worlds /\ d = data /\ fs = frames /\ b = burnt /\ paid = paidOut /\ x = tx
    /\ n \in Nat /\ Len(d) = n /\ Len(fs) = n /\ Len(ws) = n + 1 /\ n >= 1
    /\ LInv(ws, d, b, paid) /\ b \in Int /\ paid \in Nat /\ TInv(ws, d, x)
    /\ ws \in Seq(WorldSet) /\ d \in Seq(LayerSet) /\ fs \in Seq(FrameSet)
    /\ ws[n + 1] \in WorldSet /\ d[n] \in LayerSet /\ fs[n] \in FrameSet
    /\ World = ws[n + 1] /\ Last(data) = d[n] /\ Top = n

LEMMA InTransaction ==
    ASSUME IInv, ~Idle
    PROVE  \E ws, d, fs, b, paid, x, n : Now(ws, d, fs, b, paid, x, n)
<1>1. PICK ws, d, fs, b, paid, x, n : /\ ws = worlds /\ d = data /\ fs = frames /\ b = burnt
                                      /\ paid = paidOut /\ x = tx /\ n = Len(d)
  OBVIOUS
<1>2. /\ LInv(ws, d, b, paid) /\ b \in Int /\ paid \in Nat /\ TInv(ws, d, x) /\ FInv(fs, d, result)
  BY <1>1 DEF IInv
<1>3. /\ ws \in Seq(WorldSet) /\ d \in Seq(LayerSet) /\ fs \in Seq(FrameSet)
      /\ n \in Nat /\ Len(d) = n /\ Len(fs) = n /\ Len(ws) = n + 1
  BY <1>1, <1>2 DEF LInv, Shape, FInv
<1>4. n >= 1
  <2>1. fs # <<>>
    BY <1>1 DEF Idle
  <2> QED BY <1>3, <2>1, EmptySeq
<1>5. ws[n + 1] \in WorldSet /\ d[n] \in LayerSet /\ fs[n] \in FrameSet
  BY <1>3, <1>4, ElementOfSeq
<1>6. World = ws[n + 1] /\ Last(data) = d[n] /\ Top = n
  BY <1>1, <1>3 DEF World, Last, Top
<1>7. Now(ws, d, fs, b, paid, x, n)
  BY <1>1, <1>2, <1>3, <1>4, <1>5, <1>6 DEF Now
<1> QED BY <1>7

-----------------------------------------------------------------------------
(* Opcodes that stay in the frame.                                         *)

LEMMA Stays ==
    ASSUME NEW ws, NEW d, NEW fs, NEW b, NEW paid, NEW x, NEW n, Now(ws, d, fs, b, paid, x, n),
           FInv(fs, d, "running"), NEW vs, NEW e, Kept(ws, d, vs, e, b, paid),
           worlds' = vs, data' = e, frames' = fs, tx' = x, burnt' = b, paidOut' = paid
    PROVE  IInv'
<1>1. LInv(vs, e, b, paid) /\ b \in Int /\ paid \in Nat
  BY DEF Kept, Now
<1>2. PICK r : r = result'
  OBVIOUS
<1>3. FInv(fs, e, r)
  <2>1. Len(e) = Len(d) /\ \A i \in 1 .. Len(d) : e[i].static = d[i].static
    BY DEF Kept
  <2> QED BY <2>1, FramesKept
<1>4. TInv(vs, e, x)
  <2>1. Len(e) = n /\ n >= 1 /\ n \in Nat /\ TInv(ws, d, x) /\ Len(d) = n
    BY DEF Kept, Now
  <2>2. e[1].gas.limit = d[1].gas.limit /\ vs[1] = ws[1]
    BY <2>1 DEF Kept
  <2> QED BY <2>1, <2>2 DEF TInv
<1> QED BY <1>1, <1>2, <1>3, <1>4 DEF IInv

\* What an opcode is charged.
LEMMA Charging ==
    ASSUME NEW ws, NEW d, NEW fs, NEW b, NEW paid, NEW x, NEW n, Now(ws, d, fs, b, paid, x, n),
           NEW cost \in Nat, NEW allowed
    PROVE  /\ pre_validate(cost, allowed) \in GasSet
           /\ pre_validate(cost, allowed).limit = d[n].gas.limit
           /\ Gas = d[n].gas /\ Gas \in GasSet
<1>1. PICK g \in GasSet : g = d[n].gas /\ Gas = g
  BY DEF Now, LayerSet, Gas
<1>2. /\ drain(g) \in GasSet /\ drain(g).limit = g.limit
      /\ record_cost(g, cost) \in GasSet /\ record_cost(g, cost).limit = g.limit
  BY GasSteps
<1> QED BY <1>1, <1>2 DEF pre_validate

LEMMA OpcodeStep ==
    ASSUME IInv, NEW cost \in Nat, NEW allowed, NEW res, NEW w, NEW e, NEW y,
           NEW ws, NEW d, NEW fs, NEW b, NEW paid, NEW x, NEW n, Now(ws, d, fs, b, paid, x, n),
           Opcode(cost, allowed, res, w, e),
           e = [d EXCEPT ![n] = y],
           Charged(cost, allowed) => TopAllowed(ws[n + 1], d[n], w, y)
    PROVE  IInv'
<1>1. PICK g \in GasSet : g = pre_validate(cost, allowed) /\ g.limit = d[n].gas.limit
  BY Charging
<1>2. /\ result = "running"
      /\ worlds' = IF Charged(cost, allowed) THEN WithTop(worlds, w) ELSE worlds
      /\ data' = WithGas(IF Charged(cost, allowed) THEN e ELSE data, g)
      /\ frames' = frames /\ tx' = tx /\ burnt' = burnt /\ paidOut' = paidOut
  BY <1>1 DEF Opcode, Executing, history
<1>3. /\ ws = worlds /\ d = data /\ fs = frames /\ b = burnt /\ paid = paidOut /\ x = tx
      /\ n \in Nat /\ n >= 1 /\ Len(d) = n /\ LInv(ws, d, b, paid) /\ paid \in Int
  BY DEF Now
<1>4. FInv(fs, d, "running")
  BY <1>2, <1>3 DEF IInv
<1>5. PICK vs, f : vs = worlds' /\ f = data'
  OBVIOUS
<1>6. Kept(ws, d, vs, f, b, paid)
  <2>1. CASE Charged(cost, allowed)
    <3>1. vs = WithTop(ws, w) /\ f = WithGas([d EXCEPT ![n] = y], g)
      BY <1>2, <1>3, <1>5, <2>1
    <3>2. Kept(ws, d, WithTop(ws, w), WithGas([d EXCEPT ![n] = y], g), b, paid)
      BY <1>1, <1>3, <2>1, OpcodeLayers
    <3> QED BY <3>1, <3>2, Zenon
  <2>2. CASE ~Charged(cost, allowed)
    <3>1. vs = ws /\ f = WithGas(d, g)
      BY <1>2, <1>3, <1>5, <2>2
    <3>2. Kept(ws, d, ws, WithGas(d, g), b, paid)
      BY <1>1, <1>3, GasUpdate
    <3> QED BY <3>1, <3>2, Zenon
  <2> QED BY <2>1, <2>2
<1> QED BY <1>2, <1>3, <1>4, <1>5, <1>6, Stays

\* An opcode that only charges gas.
LEMMA ChargeStep ==
    ASSUME IInv, NEW cost \in Nat, NEW allowed, NEW res, ~Idle, Opcode(cost, allowed, res, World, data)
    PROVE  IInv'
<1>1. PICK ws, d, fs, b, paid, x, n : Now(ws, d, fs, b, paid, x, n)
  BY InTransaction
<1>2. PICK w, y : w = ws[n + 1] /\ y = d[n] /\ w = World
  BY <1>1 DEF Now
<1>3. d = [d EXCEPT ![n] = y] /\ d = data
  BY <1>1, <1>2, ExceptSeq DEF Now
<1>4. TopAllowed(ws[n + 1], d[n], w, y)
  <2>1. w \in WorldSet /\ y \in LayerSet /\ y.withdrawn \in Nat /\ w[Withdraw].balance \in Nat
    BY <1>1, <1>2, WithdrawAccount DEF Now, WorldSet, AccountSet, LayerSet
  <2> QED BY <1>2, <2>1, SameSteps DEF TopAllowed
<1>5. Opcode(cost, allowed, res, w, d)
  BY <1>2, <1>3
<1> QED BY <1>1, <1>3, <1>4, <1>5, OpcodeStep

LEMMA SStoreStep ==
    ASSUME IInv, NEW v \in Slots, SStore(v)
    PROVE  IInv'
<1>0. ~Idle
  BY DEF SStore, Opcode, Executing
<1>1. PICK ws, d, fs, b, paid, x, n : Now(ws, d, fs, b, paid, x, n)
  BY <1>0, InTransaction
<1>2. PICK w, y : w = set_storage(World, Self, v) /\ y = d[n]
  OBVIOUS
<1>3. d = [d EXCEPT ![n] = y] /\ d = data
  BY <1>1, <1>2, ExceptSeq DEF Now
<1>4. PICK u, self : u = ws[n + 1] /\ u = World /\ self = Self /\ self \in Accounts /\ v \in Nat
  <2>1. Self = fs[n].self /\ fs[n].self \in Accounts
    BY <1>1 DEF Now, Self, FrameSet
  <2> QED BY <1>1, <2>1, ValueAssumption DEF Now
<1>5. u \in WorldSet
  BY <1>1, <1>4 DEF Now
<1>6. w \in WorldSet /\ \A a \in Accounts : w[a].balance = u[a].balance
  BY <1>2, <1>4, <1>5 DEF set_storage, WorldSet, AccountSet
<1>7. ASSUME ~d[n].static PROVE TopAllowed(ws[n + 1], d[n], w, y)
  <2>1. y \in LayerSet /\ y.withdrawn \in Nat /\ w[Withdraw].balance \in Nat
        /\ u[Withdraw].balance = w[Withdraw].balance
    BY <1>1, <1>2, <1>6, WithdrawAccount DEF Now, WorldSet, AccountSet, LayerSet
  <2>2. Total(w) = Total(u)
    BY <1>5, <1>6, TotalSame
  <2> QED BY <1>2, <1>4, <1>6, <1>7, <2>1, <2>2 DEF TopAllowed
<1>8. PICK allowed : allowed = ~Last(data).static
  OBVIOUS
<1>9. Opcode(OpcodeCost, allowed, "running", w, d)
  BY <1>2, <1>3, <1>8 DEF SStore
<1>10. Charged(OpcodeCost, allowed) => TopAllowed(ws[n + 1], d[n], w, y)
  BY <1>1, <1>7, <1>8 DEF Charged, Now
<1>11. OpcodeCost \in Nat
  BY CostAssumption
<1> QED BY <1>1, <1>3, <1>9, <1>10, <1>11, OpcodeStep

LEMMA LogStep ==
    ASSUME IInv, Log
    PROVE  IInv'
<1>0. ~Idle
  BY DEF Log, Opcode, Executing
<1>1. PICK ws, d, fs, b, paid, x, n : Now(ws, d, fs, b, paid, x, n)
  BY <1>0, InTransaction
<1>2. PICK k \in Nat : k = d[n].logs + 1 /\ d[n] \in LayerSet /\ d[n].withdrawn \in Nat
  BY <1>1 DEF Now, LayerSet
<1>3. PICK w, y, e : /\ w = World /\ y = [d[n] EXCEPT !.logs = k]
                     /\ e = [data EXCEPT ![Len(data)].logs = @ + 1]
  OBVIOUS
<1>4. e = [d EXCEPT ![n] = y]
  <2>1. d = data /\ Len(data) = n
    BY <1>1 DEF Now
  <2> QED BY <1>2, <1>3, <2>1
<1>5. /\ y \in LayerSet /\ y.static = d[n].static /\ y.gas.limit = d[n].gas.limit
      /\ y.withdrawn = d[n].withdrawn
  BY <1>2, <1>3 DEF LayerSet
<1>6. ASSUME ~d[n].static PROVE TopAllowed(ws[n + 1], d[n], w, y)
  <2>1. w = ws[n + 1] /\ w \in WorldSet /\ w[Withdraw].balance \in Nat
    BY <1>1, <1>3, WithdrawAccount DEF Now, WorldSet, AccountSet
  <2> QED BY <1>2, <1>5, <1>6, <2>1 DEF TopAllowed
<1>7. PICK allowed : allowed = ~Last(data).static
  OBVIOUS
<1>8. Opcode(OpcodeCost, allowed, "running", w, e)
  BY <1>3, <1>7 DEF Log
<1>9. Charged(OpcodeCost, allowed) => TopAllowed(ws[n + 1], d[n], w, y)
  BY <1>1, <1>6, <1>7 DEF Charged, Now
<1>10. OpcodeCost \in Nat
  BY CostAssumption
<1> QED BY <1>1, <1>4, <1>8, <1>9, <1>10, OpcodeStep

\* The frame that runs is not that of the contract that withdraws.
LEMMA RunsBytecode ==
    ASSUME IInv, result = "running",
           NEW ws, NEW d, NEW fs, NEW b, NEW paid, NEW x, NEW n, Now(ws, d, fs, b, paid, x, n)
    PROVE  Self \in Accounts /\ Self # Withdraw /\ Self = fs[n].self /\ FInv(fs, d, "running")
<1>1. FInv(fs, d, "running") /\ Len(fs) = n /\ n \in Nat /\ n >= 1
  BY DEF IInv, Now
<1>2. Self = fs[n].self /\ fs[n].self \in Accounts
  BY DEF Now, Self, FrameSet
<1> QED BY <1>1, <1>2 DEF FInv

LEMMA SelfDestructStep ==
    ASSUME IInv, NEW target \in Targets, SelfDestruct(target)
    PROVE  IInv'
<1>0. ~Idle /\ result = "running"
  BY DEF SelfDestruct, Opcode, Executing
<1>1. PICK ws, d, fs, b, paid, x, n : Now(ws, d, fs, b, paid, x, n)
  BY <1>0, InTransaction
<1>2. PICK self : self = Self /\ self \in Accounts /\ self # Withdraw
  BY <1>0, <1>1, RunsBytecode
<1>3. PICK u \in WorldSet : u = World /\ u = ws[n + 1]
  BY <1>1 DEF Now
<1>4. PICK v \in Nat : v = World[Self].balance
  BY <1>2, <1>3 DEF WorldSet, AccountSet
<1>5. PICK w, y, e : /\ w = execute_transfer(World, Self, target, World[Self].balance)
                     /\ y = [d[n] EXCEPT !.deleted = d[n].deleted \cup {self}]
                     /\ e = [data EXCEPT ![Len(data)].deleted = @ \cup {Self}]
  OBVIOUS
<1>6. e = [d EXCEPT ![n] = y]
  <2>1. d = data /\ Len(data) = n
    BY <1>1 DEF Now
  <2> QED BY <1>2, <1>5, <2>1
<1>7. d[n] \in LayerSet
  BY <1>1 DEF Now
<1>8. /\ y \in LayerSet /\ y.static = d[n].static /\ y.gas.limit = d[n].gas.limit
      /\ y.withdrawn = d[n].withdrawn /\ y.withdrawn \in Nat
  BY <1>2, <1>5, <1>7 DEF LayerSet
<1>9. /\ w \in WorldSet /\ Total(w) = Total(u) /\ w[Withdraw].balance >= u[Withdraw].balance
  <2>1. transfer_possible(u, self, v) /\ target \in Accounts
    <3>1. u[self].balance = v
      BY <1>2, <1>3, <1>4
    <3>2. u[self].balance >= v
      BY <3>1
    <3>3. target \in Accounts
      BY AddressAssumption
    <3> QED BY <3>2, <3>3 DEF transfer_possible, can_remove
  <2>2. w = execute_transfer(u, self, target, v)
    BY <1>2, <1>3, <1>4, <1>5
  <2> QED BY <1>2, <2>1, <2>2, Transfer, WithdrawAccount
<1>10. ASSUME ~d[n].static PROVE TopAllowed(ws[n + 1], d[n], w, y)
  <2>1. w[Withdraw].balance \in Nat /\ u[Withdraw].balance \in Nat
    BY <1>9, WithdrawAccount DEF WorldSet, AccountSet
  <2>2. y.withdrawn + u[Withdraw].balance <= d[n].withdrawn + w[Withdraw].balance
    BY <1>8, <1>9, <2>1
  <2> QED BY <1>3, <1>8, <1>9, <1>10, <2>2 DEF TopAllowed
<1>11. PICK allowed : allowed = ~Last(data).static
  OBVIOUS
<1>12. Opcode(OpcodeCost, allowed, "suicided", w, e)
  BY <1>5, <1>11 DEF SelfDestruct
<1>13. Charged(OpcodeCost, allowed) => TopAllowed(ws[n + 1], d[n], w, y)
  BY <1>1, <1>10, <1>11 DEF Charged, Now
<1>14. OpcodeCost \in Nat
  BY CostAssumption
<1> QED BY <1>1, <1>6, <1>12, <1>13, <1>14, OpcodeStep

LEMMA StopStep ==
    ASSUME IInv, Stop \/ Revert \/ Invalid
    PROVE  IInv'
<1>1. ~Idle
  BY DEF Stop, Revert, Invalid, Opcode, Executing
<1>2. \E allowed, res : Opcode(0, allowed, res, World, data)
  BY DEF Stop, Revert, Invalid
<1>3. PICK zero \in Nat : zero = 0
  OBVIOUS
<1>4. PICK allowed, res : Opcode(zero, allowed, res, World, data)
  BY <1>2, <1>3
<1> QED BY <1>1, <1>4, ChargeStep

-----------------------------------------------------------------------------
(* Calls and creations.                                                    *)

\* A new frame on top of the ones that wait.
LEMMA EnterStep ==
    ASSUME IInv, result = "running",
           NEW ws, NEW d, NEW fs, NEW b, NEW paid, NEW x, NEW n, Now(ws, d, fs, b, paid, x, n),
           NEW vs, NEW e, NEW st, Pushed(ws, d, vs, e, b, paid, st),
           NEW f, NEW address, Entered(f, vs, e, b, paid, address),
           NEW kind \in {"call", "create"}, kind = "create" => ~st,
           NEW self \in Accounts, f.result = "running" => self # Withdraw,
           Enter(f, Waiting, kind, self), tx' = x, burnt' = b, paidOut' = paid
    PROVE  IInv'
<1>1. /\ ws = worlds /\ d = data /\ fs = frames /\ n \in Nat /\ n >= 1 /\ Len(d) = n /\ Len(fs) = n
      /\ fs \in Seq(FrameSet) /\ Top = n /\ fs[n] \in FrameSet
  BY DEF Now
<1>2. FInv(fs, d, "running")
  BY RunsBytecode
<1>3. PICK gs : gs = Waiting
  OBVIOUS
<1>4. FInv(gs, d, "running")
  <2>1. PICK g \in Int : g = gas_used(Gas)
    <3>1. PICK h \in GasSet : h = Gas
      BY Charging DEF Now, LayerSet, Gas
    <3> QED BY <3>1, GasSteps
  <2>2. PICK z : z = [fs[n] EXCEPT !.gasBefore = g]
    OBVIOUS
  <2>3. z \in FrameSet /\ z.self = fs[n].self /\ z.kind = fs[n].kind
    BY <1>1, <2>2 DEF FrameSet
  <2>4. gs = [fs EXCEPT ![n] = z]
    BY <1>1, <1>3, <2>1, <2>2 DEF Waiting
  <2>5. /\ gs \in Seq(FrameSet) /\ Len(gs) = n
        /\ \A i \in 1 .. n : gs[i] = IF i = n THEN z ELSE fs[i]
    BY <1>1, <2>3, <2>4, SeqSteps
  <2>6. \A i \in 1 .. n : gs[i].self = fs[i].self /\ gs[i].kind = fs[i].kind
    BY <2>3, <2>5
  <2> QED BY <1>1, <1>2, <2>5, <2>6 DEF FInv
<1>5. PICK z, r : /\ z = [kind |-> IF f.result = "running" THEN kind ELSE "call",
                          self |-> self, gasBefore |-> 0]
                  /\ r = f.result
  OBVIOUS
<1>6. z \in FrameSet /\ (z.self = Withdraw => r # "running") /\ (z.kind = "create" => ~st)
  BY <1>5 DEF FrameSet
<1>7. PICK us, h : us = f.worlds /\ h = f.data
  OBVIOUS
<1>8. Kept(vs, e, us, h, b, paid)
  BY <1>7 DEF Entered
<1>9. /\ LInv(us, h, b, paid) /\ us[1] = ws[1] /\ Len(h) = n + 1
      /\ \A i \in 1 .. n : h[i].static = d[i].static /\ h[i].gas.limit = d[i].gas.limit
      /\ h[n + 1].static = st
  BY <1>1, <1>8 DEF Kept, Pushed
<1>10. FInv(Append(gs, z), h, r)
  BY <1>1, <1>4, <1>6, <1>9, FramesPushed
<1>11. worlds' = us /\ data' = h /\ result' = r /\ frames' = Append(gs, z)
  BY <1>3, <1>5, <1>7 DEF Enter
<1>12. TInv(us, h, x)
  <2>1. TInv(ws, d, x)
    BY DEF Now
  <2> QED BY <1>1, <1>9, <2>1 DEF TInv
<1>13. b \in Int /\ paid \in Nat
  BY DEF Now
<1> QED BY <1>9, <1>10, <1>11, <1>12, <1>13 DEF IInv

LEMMA CallStep ==
    ASSUME IInv, ~Idle, NEW scheme \in {"call", "callcode", "delegate", "static"},
           NEW address \in Targets, NEW value \in TxValues, NEW target_gas \in TargetGas,
           NEW ok \in BOOLEAN, call(scheme, address, value, target_gas, ok)
    PROVE  IInv'
<1>1. PICK ws, d, fs, b, paid, x, n : Now(ws, d, fs, b, paid, x, n)
  BY InTransaction
<1>2. PICK m, to, asked : /\ m = value /\ to = address /\ asked = target_gas
                          /\ m \in Nat /\ to \in Accounts /\ asked \in Nat
  BY AddressAssumption, ValueAssumption
<1>3. PICK cost \in Nat : cost = OpcodeCost + IF value > 0 THEN TransferCost ELSE 0
  BY <1>2, CostAssumption
<1>4. PICK allowed \in BOOLEAN : allowed = (scheme # "call" \/ ~Last(data).static \/ value = 0)
  OBVIOUS
<1>5. CASE ~Charged(cost, allowed)
  <2>1. Opcode(cost, allowed, "error", World, data)
    BY <1>3, <1>4, <1>5 DEF call
  <2> QED BY <2>1, ChargeStep
<1>6. CASE Charged(cost, allowed)
  <2>1. PICK g \in GasSet : g = pre_validate(cost, allowed) /\ g.limit = d[n].gas.limit
    BY <1>1, Charging
  <2>2. PICK limit \in Nat : limit = nested_call_gas_limit(g, target_gas)
    <3>1. asked \in Limits /\ asked # NoLimit
      BY <1>2, ValueAssumption DEF Limits
    <3>2. nested_call_gas_limit(g, asked) \in Nat
      BY <3>1, NestedGas
    <3> QED BY <1>2, <3>2
  <2>3. PICK given \in Nat : given = IF value > 0 THEN limit + CallStipend ELSE limit
    BY <1>2, CostAssumption
  <2>4. PICK h \in GasSet : h = record_cost(g, limit) /\ h.limit = d[n].gas.limit
    BY <2>1, GasSteps
  <2>5. PICK self : self = IF scheme \in {"call", "static"} THEN address ELSE Self
    OBVIOUS
  <2>6. PICK passed : passed = IF scheme \in {"call", "callcode"} THEN value ELSE NoLimit
    OBVIOUS
  <2>7. PICK e : e = begin_transaction_data(WithGas(data, h), scheme = "static", given)
    OBVIOUS
  <2>8. PICK vs, me, t : vs = Append(worlds, World) /\ me = Self /\ t = ticks
    OBVIOUS
  <2>9. PICK f : f = execute_call(vs, e, t, me, to, passed, ok)
    OBVIOUS
  <2>10. Executing(FALSE) /\ Enter(f, Waiting, "call", self)
    <3>1. ~(~Charged(cost, allowed) /\ Opcode(cost, allowed, "error", World, data))
      BY <1>6
    <3> QED BY <1>2, <1>3, <1>4, <2>1, <2>2, <2>3, <2>4, <2>5, <2>6, <2>7, <2>8, <2>9, <3>1 DEF call
  <2>11. result = "running" /\ tx' = x /\ burnt' = b /\ paidOut' = paid
    BY <1>1, <2>10 DEF Executing, history, Now
  <2>12. me \in Accounts /\ me # Withdraw
    BY <1>1, <2>8, <2>11, RunsBytecode
  <2>13. PICK s \in BOOLEAN : s = (scheme = "static")
    OBVIOUS
  <2>14. PICK st : st = (s \/ d[n].static)
    OBVIOUS
  <2>15. Pushed(ws, d, vs, e, b, paid, st)
    <3>1. PICK w : w = World
      OBVIOUS
    <3>2. /\ LInv(ws, d, b, paid) /\ paid \in Int /\ n \in Nat /\ Len(d) = n /\ n >= 1
          /\ w = ws[n + 1] /\ d = data /\ ws = worlds
      BY <1>1, <3>1 DEF Now
    <3>3. given \in Limits
      BY DEF Limits
    <3>4. Pushed(ws, d, Append(ws, w), begin_transaction_data(WithGas(d, h), s, given),
                 b, paid, s \/ d[n].static)
      BY <2>4, <3>2, <3>3, CallLayers
    <3>5. vs = Append(ws, w) /\ e = begin_transaction_data(WithGas(d, h), s, given)
      BY <2>7, <2>8, <2>13, <3>1, <3>2
    <3> QED BY <2>14, <3>4, <3>5, Zenon
  <2>16. Entered(f, vs, e, b, paid, to)
    <3>1. PICK l \in Nat : l = n + 1 /\ l >= 1
      BY <1>1 DEF Now
    <3>2. LInv(vs, e, b, paid) /\ paid \in Int /\ Len(e) = l /\ e[l].static = st
      BY <1>1, <2>15, <3>1 DEF Pushed, Now
    <3>3. passed \in Limits
      BY <1>2, <2>6 DEF Limits
    <3>4. Entered(execute_call(vs, e, t, me, to, passed, ok), vs, e, b, paid, to)
      BY <1>2, <2>12, <3>1, <3>2, <3>3, CallEntry
    <3> QED BY <2>9, <3>4, Zenon
  <2>17. self \in Accounts /\ (f.result = "running" => self # Withdraw)
    <3>1. f.result = "running" => to # Withdraw
      BY <2>16, WithdrawAccount DEF Entered
    <3> QED BY <1>2, <2>5, <2>8, <2>12, <3>1
  <2>18. PICK kind \in {"call", "create"} : kind = "call"
    OBVIOUS
  <2>19. Enter(f, Waiting, kind, self) /\ kind # "create"
    BY <2>10, <2>18
  <2> QED BY <1>1, <2>11, <2>15, <2>16, <2>17, <2>19, EnterStep
<1> QED BY <1>5, <1>6

LEMMA CreateStep ==
    ASSUME IInv, HashedAddresses, ~Idle, NEW create2 \in BOOLEAN, NEW value \in TxValues,
           create(create2, value)
    PROVE  IInv'
<1>1. PICK ws, d, fs, b, paid, x, n : Now(ws, d, fs, b, paid, x, n)
  BY InTransaction
<1>2. PICK m, cost : m = value /\ m \in Nat /\ cost = OpcodeCost /\ cost \in Nat
  BY ValueAssumption, CostAssumption
<1>3. PICK allowed \in BOOLEAN : allowed = ~Last(data).static
  BY <1>1 DEF Now, LayerSet
<1>4. CASE ~Charged(cost, allowed)
  <2>1. Opcode(cost, allowed, "error", World, data)
    BY <1>2, <1>3, <1>4 DEF create
  <2> QED BY <1>2, <2>1, ChargeStep
<1>5. CASE Charged(cost, allowed)
  <2>1. PICK g \in GasSet : g = Gas /\ g.limit = d[n].gas.limit
    BY <1>1, <1>2, Charging
  <2>2. PICK h \in GasSet : h = record_cost(Gas, OpcodeCost) /\ h.limit = d[n].gas.limit
    <3>1. record_cost(g, cost) \in GasSet /\ record_cost(g, cost).limit = g.limit
      BY <1>2, <2>1, GasSteps
    <3> QED BY <1>2, <2>1, <3>1
  <2>3. PICK given \in Limits : given = nested_call_gas_limit(Gas, NoLimit)
    BY DEF nested_call_gas_limit, Limits
  <2>4. PICK to : to = IF create2 THEN Fixed ELSE Fresh(Self, World[Self].nonce)
    OBVIOUS
  <2>5. PICK e : e = begin_transaction_data(WithGas(data, h), FALSE, given)
    OBVIOUS
  <2>6. PICK vs, me, t : vs = Append(worlds, World) /\ me = Self /\ t = ticks
    OBVIOUS
  <2>7. PICK f : f = execute_create(vs, e, t, me, to, create2, m, TRUE)
    OBVIOUS
  <2>8. Executing(FALSE) /\ Enter(f, Waiting, "create", to)
    <3>1. ~(~Charged(cost, allowed) /\ Opcode(cost, allowed, "error", World, data))
      BY <1>5
    <3> QED BY <1>2, <1>3, <2>2, <2>3, <2>4, <2>5, <2>6, <2>7, <3>1 DEF create
  <2>9. result = "running" /\ tx' = x /\ burnt' = b /\ paidOut' = paid
    BY <1>1, <2>8 DEF Executing, history, Now
  <2>10. me \in Accounts /\ me # Withdraw
    BY <1>1, <2>6, <2>9, RunsBytecode
  <2>11. to \in Accounts /\ to \notin DOMAIN precompile_set
    <3>1. CASE create2
      BY <2>4, <3>1, AddressAssumption
    <3>2. CASE ~create2
      <4>1. PICK k \in Nat : k = World[Self].nonce
        <5>1. PICK w \in WorldSet : w = World
          BY <1>1 DEF Now
        <5>2. w[me].nonce \in Nat
          BY <2>10 DEF WorldSet, AccountSet
        <5> QED BY <2>6, <5>1, <5>2
      <4>2. Fresh(me, k) \in Accounts \ DOMAIN precompile_set
        BY <2>10 DEF HashedAddresses
      <4> QED BY <2>4, <2>6, <3>2, <4>1, <4>2
    <3> QED BY <3>1, <3>2
  <2>12. ~d[n].static
    BY <1>1, <1>3, <1>5 DEF Charged, Now
  <2>13. PICK st : st = (FALSE \/ d[n].static)
    OBVIOUS
  <2>14. Pushed(ws, d, vs, e, b, paid, st)
    <3>1. PICK w : w = World
      OBVIOUS
    <3>2. /\ LInv(ws, d, b, paid) /\ paid \in Int /\ n \in Nat /\ Len(d) = n /\ n >= 1
          /\ w = ws[n + 1] /\ d = data /\ ws = worlds
      BY <1>1, <3>1 DEF Now
    <3>3. PICK s \in BOOLEAN : s = FALSE
      OBVIOUS
    <3>4. Pushed(ws, d, Append(ws, w), begin_transaction_data(WithGas(d, h), s, given),
                 b, paid, s \/ d[n].static)
      BY <2>2, <3>2, CallLayers
    <3>5. vs = Append(ws, w) /\ e = begin_transaction_data(WithGas(d, h), s, given)
      BY <2>5, <2>6, <3>1, <3>2, <3>3
    <3>6. st = (s \/ d[n].static)
      BY <2>13, <3>3
    <3> QED BY <3>4, <3>5, <3>6, Zenon
  <2>15. Entered(f, vs, e, b, paid, to)
    <3>1. PICK l \in Nat : l = n + 1 /\ l >= 1
      BY <1>1 DEF Now
    <3>a. LInv(vs, e, b, paid) /\ paid \in Int /\ Len(e) = l /\ e[l].static = st
      BY <1>1, <2>14, <3>1 DEF Pushed, Now
    <3>b. ~st
      BY <2>12, <2>13
    <3>c. ~e[l].static
      BY <3>a, <3>b, Zenon
    <3>2. LInv(vs, e, b, paid) /\ paid \in Int /\ Len(e) = l /\ ~e[l].static
      BY <3>a, <3>c
    <3>3. PICK opcode : opcode = TRUE
      OBVIOUS
    <3>4. Entered(execute_create(vs, e, t, me, to, create2, m, opcode), vs, e, b, paid, to)
      BY <1>2, <2>10, <2>11, <3>1, <3>2, CreateEntry
    <3> QED BY <2>7, <3>3, <3>4, Zenon
  <2>16. to # Withdraw /\ ~st
    BY <2>11, <2>12, <2>13, WithdrawAccount
  <2>17. PICK kind \in {"call", "create"} : kind = "create"
    OBVIOUS
  <2>18. Enter(f, Waiting, kind, to)
    BY <2>8, <2>17
  <2> QED BY <1>1, <2>9, <2>11, <2>14, <2>15, <2>16, <2>18, EnterStep
<1> QED BY <1>4, <1>5

-----------------------------------------------------------------------------
(* A transaction begins.                                                   *)

LEMMA FeeType ==
    ASSUME NEW limit \in Limits
    PROVE  fee(limit) \in Nat
BY CostAssumption DEF fee, Limits

LEMMA PairAppend ==
    ASSUME NEW u \in WorldSet, NEW y
    PROVE  Append(<<u>>, u) = <<u, u>> /\ Append(<<>>, y) = <<y>>
<1>1. PICK s, t : s = Append(<<u>>, u) /\ t = <<u, u>>
  OBVIOUS
<1>2. s \in Seq(WorldSet) /\ Len(s) = 2 /\ s[1] = u /\ s[2] = u
  BY <1>1
<1>3. t \in Seq(WorldSet) /\ Len(t) = 2 /\ t[1] = u /\ t[2] = u
  BY <1>1
<1>4. \A i \in 1 .. 2 : s[i] = t[i]
  <2>1. \A i \in 1 .. 2 : i = 1 \/ i = 2
    OBVIOUS
  <2> QED BY <1>2, <1>3, <2>1
<1>5. s = t
  BY <1>2, <1>3, <1>4, SeqEqual
<1>6. Append(<<>>, y) = <<y>>
  OBVIOUS
<1> QED BY <1>1, <1>5, <1>6

\* The layers of a transaction that begins.
FirstLayers(vs, e, b, paid, limit) ==
    /\ LInv(vs, e, b, paid)
    /\ Len(e) = 1 /\ e[1].static = FALSE /\ e[1].gas.limit = limit

\* The fee is burnt, the storage copied and the intrinsic cost charged.
LEMMA OpenLayers ==
    ASSUME NEW w \in WorldSet, NEW b \in Int, NEW paid \in Nat, LInv(<<w>>, <<>>, b, paid),
           NEW caller \in Senders, NEW limit \in Limits, can_remove(w, caller, fee(limit)),
           NEW u, u = balance_remove(w, caller, fee(limit)),
           NEW y, y = LayerData(FALSE, limit),
           NEW g, g = record_cost(y.gas, BaseCost)
    PROVE  FirstLayers(<<u, u>>, WithGas(<<y>>, g), b + fee(limit), paid, limit)
<1>0. paid \in Int
  OBVIOUS
<1>1. PICK c \in Nat : c = fee(limit)
  BY FeeType
<1>2. caller \in Accounts /\ caller # Withdraw
  <2>1. caller \in Accounts \ DOMAIN precompile_set
    BY AddressAssumption
  <2> QED BY <2>1, WithdrawAccount
<1>3. /\ u \in WorldSet /\ Total(u) = Total(w) - c
      /\ \A a \in Accounts \ {caller} : u[a] = w[a]
  <2>1. can_remove(w, caller, c) /\ u = balance_remove(w, caller, c)
    BY <1>1
  <2> QED BY <1>2, <2>1, BalanceRemove
<1>4. u[Withdraw] = w[Withdraw]
  BY <1>2, <1>3, WithdrawAccount
<1>5. Total(w) + b = Total(InitialWorld) /\ paid <= w[Withdraw].balance
  <2>1. PICK ws, d : ws = <<w>> /\ d = <<>>
    OBVIOUS
  <2>2. LInv(ws, d, b, paid) /\ Len(ws) = 1 /\ ws[1] = w /\ Len(d) = 0
    BY <2>1
  <2>3. Total(ws[1]) + b = Total(InitialWorld)
    BY <2>2 DEF LInv, Conserved
  <2>4. Out(d, 0) = 0
    <3>1. PICK n \in Nat : n = 0
      OBVIOUS
    <3>2. Len(d) = n /\ \A k \in 1 .. n : d[k].withdrawn \in Nat
      BY <2>2, <3>1
    <3> QED BY <3>2, OutStep
  <2>5. paid + Out(d, 0) <= ws[0 + 1][Withdraw].balance
    BY <2>2 DEF LInv, Held
  <2> QED BY <2>2, <2>3, <2>4, <2>5
<1>6. PICK b2 \in Int : b2 = b + fee(limit)
  BY <1>1
<1>7. Total(u) + b2 = Total(InitialWorld)
  <2>1. PICK p \in Int : p = Total(w)
    BY TotalType
  <2>2. Total(u) = p - c /\ p + b = Total(InitialWorld) /\ b2 = b + c
    BY <1>1, <1>3, <1>5, <1>6, <2>1
  <2>3. (p - c) + (b + c) = p + b
    BY <2>1
  <2> QED BY <2>2, <2>3
<1>8. LInv(<<u>>, <<>>, b2, paid)
  BY <1>3, <1>4, <1>5, <1>7, IdleLayers
<1>9. Append(<<u>>, u) = <<u, u>> /\ Append(<<>>, y) = <<y>>
  BY <1>3, PairAppend
<1>10. PICK ws, d, zero : ws = <<u>> /\ d = <<>> /\ zero = 0
  OBVIOUS
<1>11. y \in LayerSet /\ Clean(y) /\ y.static = FALSE /\ y.gas \in GasSet /\ y.gas.limit = limit
  <2>1. Gasometer(limit) \in GasSet /\ Gasometer(limit).limit = limit
    BY NewGas DEF Gasometer
  <2> QED BY <2>1 DEF LayerData, LayerSet, Clean, Quiet
<1>12. LInv(<<u, u>>, <<y>>, b2, paid)
  <2>1. zero \in Nat /\ Len(d) = zero /\ ws[zero + 1] = u /\ ~(zero >= 1)
    BY <1>10
  <2>2. LInv(ws, d, b2, paid)
    BY <1>8, <1>10, Zenon
  <2>3. LInv(Append(ws, ws[zero + 1]), Append(d, y), b2, paid)
    BY <1>0, <1>11, <2>1, <2>2, PushStep
  <2>4. LInv(Append(ws, u), Append(d, y), b2, paid)
    BY <2>1, <2>3, Zenon
  <2> QED BY <1>9, <1>10, <2>4, Zenon
<1>13. PICK vs, e, one : vs = <<u, u>> /\ e = <<y>> /\ one = 1
  <2>1. \E vs : vs = <<u, u>>
    OBVIOUS
  <2> QED BY <2>1, Zenon
<1>14. /\ LInv(vs, e, b2, paid) /\ one \in Nat /\ Len(e) = one /\ one >= 1 /\ e[one] = y
  <2>1. LInv(vs, e, b2, paid)
    BY <1>12, <1>13, Zenon
  <2>2. e = <<y>> /\ one = 1
    BY <1>13, Zenon
  <2>3. one \in Nat /\ Len(e) = one /\ one >= 1 /\ e[one] = y
    BY <2>2
  <2> QED BY <2>1, <2>3
<1>15. g \in GasSet /\ g.limit = limit
  <2>1. PICK h \in GasSet : h = y.gas
    BY <1>11
  <2>2. PICK c2 \in Nat : c2 = BaseCost
    BY CostAssumption
  <2>3. record_cost(h, c2) \in GasSet /\ record_cost(h, c2).limit = h.limit
    BY GasSteps
  <2> QED BY <1>11, <2>1, <2>2, <2>3
<1>16. Kept(vs, e, vs, WithGas(e, g), b2, paid)
  BY <1>0, <1>11, <1>14, <1>15, GasUpdate
<1>17. PICK f : f = WithGas(e, g)
  OBVIOUS
<1>18. FirstLayers(vs, f, b2, paid, limit)
  <2>1. Kept(vs, e, vs, f, b2, paid)
    BY <1>16, <1>17, Zenon
  <2>2. e = <<y>>
    BY <1>13, Zenon
  <2>3. Len(e) = 1 /\ 1 \in 1 .. Len(e) /\ e[1] = y
    BY <2>2
  <2> QED BY <1>11, <2>1, <2>3 DEF Kept, FirstLayers
<1> QED BY <1>6, <1>13, <1>17, <1>18, Zenon

\* The first frame of a transaction.
LEMMA FirstStep ==
    ASSUME IInv, NEW caller \in Senders, NEW limit \in GasLimits, Opened(caller, limit),
           NEW w, w = World,
           NEW u, u = balance_remove(w, caller, fee(limit)),
           NEW y, y = LayerData(FALSE, limit),
           NEW g, g = record_cost(y.gas, BaseCost),
           NEW b, b = burnt + fee(limit), NEW paid, paid = paidOut,
           NEW f, NEW address \in Accounts,
           FirstLayers(<<u, u>>, WithGas(<<y>>, g), b, paid, limit) =>
             Entered(f, <<u, u>>, WithGas(<<y>>, g), b, paid, address),
           NEW kind \in {"call", "create"},
           Enter(f, <<>>, kind, address)
    PROVE  IInv'
<1>1. /\ Idle /\ can_remove(w, caller, fee(limit))
      /\ tx' = [caller |-> caller, limit |-> limit, before |-> w]
      /\ burnt' = b /\ paidOut' = paid
  BY DEF Opened, Start
<1>2. /\ worlds \in Seq(WorldSet) /\ Len(data) = 0 /\ Len(worlds) = 1 /\ data \in Seq(LayerSet)
      /\ LInv(worlds, data, burnt, paidOut) /\ burnt \in Int /\ paid \in Nat
  <2>1. Len(frames) = 0
    BY <1>1 DEF Idle
  <2> QED BY <2>1 DEF IInv, LInv, Shape, FInv
<1>3. w \in WorldSet /\ w = worlds[1]
  BY <1>2, ElementOfSeq DEF World
<1>4. worlds = <<w>> /\ data = <<>>
  BY <1>2, <1>3, EmptySeq
<1>5. PICK c \in Int : c = burnt
  BY <1>2
<1>6. PICK l : l = limit /\ l \in Limits
  BY ValueAssumption DEF Limits
<1>7. PICK q \in Nat : q = fee(limit)
  BY <1>6, FeeType
<1>8. LInv(<<w>>, <<>>, c, paid)
  BY <1>2, <1>4, <1>5, Zenon
<1>9. FirstLayers(<<u, u>>, WithGas(<<y>>, g), c + fee(l), paid, l)
  <2>1. /\ u = balance_remove(w, caller, fee(l)) /\ y = LayerData(FALSE, l)
        /\ can_remove(w, caller, fee(l))
    BY <1>1, <1>6
  <2> QED BY <1>2, <1>3, <1>6, <1>8, <2>1, OpenLayers
<1>10. PICK vs, e : vs = <<u, u>> /\ e = WithGas(<<y>>, g)
  OBVIOUS
<1>11. FirstLayers(vs, e, b, paid, l)
  <2>1. b = c + fee(l)
    BY <1>5, <1>6
  <2> QED BY <1>9, <1>10, <2>1, Zenon
<1>12. Entered(f, vs, e, b, paid, address)
  BY <1>6, <1>10, <1>11, Zenon
<1>15. Len(e) = 1 /\ e[1].static = FALSE /\ e[1].gas.limit = l
  BY <1>11 DEF FirstLayers
<1>16. vs[1] = u
  BY <1>10
<1>17. PICK us, h, r : us = f.worlds /\ h = f.data /\ r = f.result
  OBVIOUS
<1>18. /\ LInv(us, h, b, paid) /\ us[1] = u /\ Len(h) = 1
       /\ h[1].static = FALSE /\ h[1].gas.limit = l
       /\ r = "running" => address # Withdraw
  <2>1. Kept(vs, e, us, h, b, paid)
    BY <1>12, <1>17 DEF Entered
  <2>2. r = "running" => address # Withdraw
    BY <1>12, <1>17, WithdrawAccount DEF Entered
  <2>3. 1 \in 1 .. Len(e)
    BY <1>15
  <2> QED BY <1>15, <1>16, <2>1, <2>2, <2>3 DEF Kept
<1>19. PICK k : k = [kind |-> IF f.result = "running" THEN kind ELSE "call",
                     self |-> address, gasBefore |-> 0]
  OBVIOUS
<1>20. k \in FrameSet /\ k.self = address
  BY <1>19 DEF FrameSet
<1>21. PICK fs : fs = <<k>>
  OBVIOUS
<1>22. /\ worlds' = us /\ data' = h /\ result' = r /\ frames' = fs
  <2>1. Append(<<>>, k) = <<k>>
    OBVIOUS
  <2> QED BY <1>17, <1>19, <1>21, <2>1 DEF Enter
<1>23. FInv(fs, h, r)
  <2>1. fs \in Seq(FrameSet) /\ Len(fs) = 1 /\ fs[1] = k
    BY <1>20, <1>21
  <2>2. \A i \in 1 .. 1 : i = 1
    OBVIOUS
  <2> QED BY <1>18, <1>20, <2>1, <2>2 DEF FInv
<1>24. PICK x : x = [caller |-> caller, limit |-> limit, before |-> w]
  OBVIOUS
<1>25. PaidFor(u, x, l)
  BY <1>1, <1>3, <1>6, <1>24 DEF PaidFor
<1>26. TInv(us, h, x)
  BY <1>18, <1>25 DEF TInv
<1>27. b \in Int
  BY <1>2, <1>7
<1> QED BY <1>1, <1>2, <1>18, <1>22, <1>23, <1>24, <1>26, <1>27 DEF IInv

\* What begin_initial_transaction returns.
BeginsWith(r, vs, e) == r.worlds = vs /\ WithGas(r.data, r.gas) = e

LEMMA Beginning ==
    ASSUME NEW caller, NEW limit, NEW w, w = World,
           NEW u, u = balance_remove(w, caller, fee(limit)),
           NEW y, y = LayerData(FALSE, limit),
           NEW g, g = record_cost(y.gas, BaseCost),
           NEW vs, vs = <<u, u>>, NEW e, e = WithGas(<<y>>, g)
    PROVE  BeginsWith(begin_initial_transaction(caller, limit), vs, e)
<1>1. begin_transaction_data(<<>>, FALSE, limit) = <<y>>
  <2>1. is_static(<<>>, FALSE) = FALSE
    BY DEF is_static
  <2>2. Append(<<>>, y) = <<y>>
    OBVIOUS
  <2> QED BY <2>1, <2>2, Zenon DEF begin_transaction_data
<1>2. PICK d : d = <<y>>
  OBVIOUS
<1>3. d[1] = y
  BY <1>2
<1>4. begin_transaction_data(<<>>, FALSE, limit) = d
  BY <1>1, <1>2, Zenon
<1>6. begin_initial_transaction(caller, limit) =
        [worlds |-> vs, gas |-> g, paid |-> affordable(y.gas, BaseCost), data |-> d]
  BY <1>3, <1>4, Zenon DEF begin_initial_transaction
<1>7. PICK r : r = begin_initial_transaction(caller, limit)
  OBVIOUS
<1>8. r.worlds = vs /\ r.gas = g /\ r.data = d
  BY <1>6, <1>7
<1> QED BY <1>2, <1>7, <1>8, Zenon DEF BeginsWith

\* A transaction that cannot pay the intrinsic cost ends at once.
LEMMA RefusedEntry ==
    ASSUME NEW vs, NEW e, NEW b, NEW paid, NEW limit, FirstLayers(vs, e, b, paid, limit), NEW address
    PROVE  Entered(Entry(vs, e, "error", 0), vs, e, b, paid, address)
<1>1. PICK f : f = Entry(vs, e, "error", 0)
  OBVIOUS
<1>2. f.worlds = vs /\ f.data = e /\ f.result = "error"
  BY <1>1 DEF Entry
<1>3. Kept(vs, e, vs, e, b, paid)
  BY DEF Kept, FirstLayers
<1>4. Entered(f, vs, e, b, paid, address)
  BY <1>2, <1>3 DEF Entered
<1> QED BY <1>1, <1>4

LEMMA SenderAccount ==
    ASSUME NEW caller \in Senders
    PROVE  caller \in Accounts /\ caller # Withdraw
<1>1. caller \in Accounts \ DOMAIN precompile_set
  BY AddressAssumption
<1> QED BY <1>1, WithdrawAccount

LEMMA CallContractStep ==
    ASSUME IInv, NEW caller \in Senders, NEW limit \in GasLimits, NEW address \in Accounts,
           NEW value \in TxValues, NEW ok \in BOOLEAN,
           call_contract(caller, limit, address, value, ok)
    PROVE  IInv'
<1>1. PICK w : w = World
  OBVIOUS
<1>2. PICK u : u = balance_remove(w, caller, fee(limit))
  OBVIOUS
<1>3. PICK y : y = LayerData(FALSE, limit)
  OBVIOUS
<1>4. PICK g : g = record_cost(y.gas, BaseCost)
  OBVIOUS
<1>5. PICK b, paid : b = burnt + fee(limit) /\ paid = paidOut
  OBVIOUS
<1>6. PICK vs, e : vs = <<u, u>> /\ e = WithGas(<<y>>, g)
  OBVIOUS
<1>7. PICK p : p = begin_initial_transaction(caller, limit).paid
  OBVIOUS
<1>8. PICK t, me, m : t = 0 /\ me = caller /\ m = value /\ me \in Accounts /\ me # Withdraw /\ m \in Limits
  BY SenderAccount, ValueAssumption DEF Limits
<1>9. PICK f : f = IF p THEN execute_call(vs, e, t, me, address, m, ok) ELSE Entry(vs, e, "error", 0)
  OBVIOUS
<1>10. /\ begin_initial_transaction(caller, limit).worlds = vs
       /\ WithGas(begin_initial_transaction(caller, limit).data,
                  begin_initial_transaction(caller, limit).gas) = e
  <2>1. BeginsWith(begin_initial_transaction(caller, limit), vs, e)
    BY <1>1, <1>2, <1>3, <1>4, <1>6, Beginning
  <2> QED BY <2>1, Zenon DEF BeginsWith
<1>11. Opened(caller, limit) /\ Enter(f, <<>>, "call", address)
  BY <1>7, <1>8, <1>9, <1>10 DEF call_contract
<1>12. paid \in Int
  BY <1>5 DEF IInv
<1>13. ASSUME FirstLayers(vs, e, b, paid, limit)
       PROVE  Entered(f, vs, e, b, paid, address)
  <2>1. CASE p
    <3>1. PICK one \in Nat : one = 1 /\ one >= 1
      OBVIOUS
    <3>2. LInv(vs, e, b, paid) /\ Len(e) = one /\ e[one].static = FALSE
      BY <1>13, <3>1 DEF FirstLayers
    <3>3. Entered(execute_call(vs, e, t, me, address, m, ok), vs, e, b, paid, address)
      BY <1>8, <1>12, <3>1, <3>2, CallEntry
    <3> QED BY <1>9, <2>1, <3>3
  <2>2. CASE ~p
    <3>1. Entered(Entry(vs, e, "error", 0), vs, e, b, paid, address)
      BY <1>13, RefusedEntry
    <3> QED BY <1>9, <2>2, <3>1
  <2> QED BY <2>1, <2>2
<1>14. PICK kind \in {"call", "create"} : kind = "call"
  OBVIOUS
<1>15. FirstLayers(<<u, u>>, WithGas(<<y>>, g), b, paid, limit)
         => Entered(f, <<u, u>>, WithGas(<<y>>, g), b, paid, address)
  BY <1>6, <1>13, Zenon
<1>16. Enter(f, <<>>, kind, address)
  BY <1>11, <1>14
<1> QED BY <1>1, <1>2, <1>3, <1>4, <1>5, <1>11, <1>15, <1>16, FirstStep

LEMMA CreateContractStep ==
    ASSUME IInv, HashedAddresses, NEW caller \in Senders, NEW limit \in GasLimits,
           NEW value \in TxValues, create_contract(caller, limit, value)
    PROVE  IInv'
<1>1. PICK w : w = World
  OBVIOUS
<1>2. PICK u : u = balance_remove(w, caller, fee(limit))
  OBVIOUS
<1>3. PICK y : y = LayerData(FALSE, limit)
  OBVIOUS
<1>4. PICK g : g = record_cost(y.gas, BaseCost)
  OBVIOUS
<1>5. PICK b, paid : b = burnt + fee(limit) /\ paid = paidOut
  OBVIOUS
<1>6. PICK vs, e : vs = <<u, u>> /\ e = WithGas(<<y>>, g)
  OBVIOUS
<1>7. PICK p : p = begin_initial_transaction(caller, limit).paid
  OBVIOUS
<1>8. PICK t, me, m, no : t = 0 /\ me = caller /\ m = value /\ me \in Accounts /\ me # Withdraw
                          /\ m \in Nat /\ no = FALSE
  BY SenderAccount, ValueAssumption
<1>a. PICK address : address = Fresh(caller, World[caller].nonce)
  OBVIOUS
<1>b. Idle
  BY DEF create_contract, Opened, Start
<1>c. w \in WorldSet
  <2>1. worlds \in Seq(WorldSet) /\ Len(worlds) = 1
    <3>1. Len(frames) = 0
      BY <1>b DEF Idle
    <3> QED BY <3>1 DEF IInv, LInv, Shape, FInv
  <2> QED BY <1>1, <2>1, ElementOfSeq DEF World
<1>d. address \in Accounts /\ address \notin DOMAIN precompile_set
  <2>1. PICK k \in Nat : k = w[me].nonce
    BY <1>8, <1>c DEF WorldSet, AccountSet
  <2>2. Fresh(me, k) \in Accounts \ DOMAIN precompile_set
    BY <1>8 DEF HashedAddresses
  <2> QED BY <1>1, <1>8, <1>a, <2>1, <2>2
<1>9. PICK f : f = IF p THEN execute_create(vs, e, t, me, address, no, m, no)
                   ELSE Entry(vs, e, "error", 0)
  OBVIOUS
<1>10. /\ begin_initial_transaction(caller, limit).worlds = vs
       /\ WithGas(begin_initial_transaction(caller, limit).data,
                  begin_initial_transaction(caller, limit).gas) = e
  <2>1. BeginsWith(begin_initial_transaction(caller, limit), vs, e)
    BY <1>1, <1>2, <1>3, <1>4, <1>6, Beginning
  <2> QED BY <2>1, Zenon DEF BeginsWith
<1>11. Opened(caller, limit) /\ Enter(f, <<>>, "create", address)
  BY <1>7, <1>8, <1>9, <1>10, <1>a DEF create_contract
<1>12. paid \in Int
  BY <1>5 DEF IInv
<1>13. ASSUME FirstLayers(vs, e, b, paid, limit)
       PROVE  Entered(f, vs, e, b, paid, address)
  <2>1. CASE p
    <3>1. PICK one \in Nat : one = 1 /\ one >= 1
      OBVIOUS
    <3>2. LInv(vs, e, b, paid) /\ Len(e) = one /\ ~e[one].static
      BY <1>13, <3>1 DEF FirstLayers
    <3>3. Entered(execute_create(vs, e, t, me, address, no, m, no), vs, e, b, paid, address)
      BY <1>8, <1>12, <1>d, <3>1, <3>2, CreateEntry
    <3> QED BY <1>9, <2>1, <3>3
  <2>2. CASE ~p
    <3>1. Entered(Entry(vs, e, "error", 0), vs, e, b, paid, address)
      BY <1>13, RefusedEntry
    <3> QED BY <1>9, <2>2, <3>1
  <2> QED BY <2>1, <2>2
<1>14. PICK kind \in {"call", "create"} : kind = "create"
  OBVIOUS
<1>15. FirstLayers(<<u, u>>, WithGas(<<y>>, g), b, paid, limit)
         => Entered(f, <<u, u>>, WithGas(<<y>>, g), b, paid, address)
  BY <1>6, <1>13, Zenon
<1>16. Enter(f, <<>>, kind, address)
  BY <1>11, <1>14
<1> QED BY <1>1, <1>2, <1>3, <1>4, <1>5, <1>11, <1>15, <1>16, <1>d, FirstStep

-----------------------------------------------------------------------------
(* A frame ends.                                                           *)

\* What the top layer is when the frame is done with it.
EndsWell(e, w, x) ==
    /\ e.gas \in GasSet /\ e.gas.limit = x.gas.limit
    /\ e.world \in WorldSet /\ Total(e.world) = Total(w)
    /\ e.world[Withdraw].balance = w[Withdraw].balance
    /\ x.static => e.world = w

LEMMA EndedLayer ==
    ASSUME IInv, NEW code,
           NEW ws, NEW d, NEW fs, NEW b, NEW paid, NEW x, NEW n, Now(ws, d, fs, b, paid, x, n)
    PROVE  EndsWell(ended(code), ws[n + 1], d[n])
<1>1. PICK w, g : w = World /\ g = Gas /\ w = ws[n + 1] /\ g = d[n].gas /\ w \in WorldSet /\ g \in GasSet
  BY DEF Now, Gas, LayerSet
<1>2. \A r : EndsWell([world |-> w, gas |-> g, result |-> r], w, d[n])
  BY <1>1 DEF EndsWell
<1>3. CASE frames[Top].kind # "create"
  <2>1. ended(code) = [world |-> w, gas |-> g, result |-> result]
    BY <1>1, <1>3 DEF ended
  <2> QED BY <1>1, <1>2, <2>1
<1>4. CASE frames[Top].kind = "create"
  <2>1. ~d[n].static
    BY <1>4 DEF IInv, FInv, Now
  <2>2. PICK self : self = Self /\ self \in Accounts
    BY DEF Now, Self, FrameSet
  <2>3. PICK c \in Nat : c = DepositCost
    BY CostAssumption
  <2>4. PICK h, k : /\ h = drain(g) /\ h \in GasSet /\ h.limit = g.limit
                    /\ k = record_cost(g, c) /\ k \in GasSet /\ k.limit = g.limit
    BY <1>1, GasSteps
  <2>5. \A r : EndsWell([world |-> w, gas |-> h, result |-> r], w, d[n])
    BY <1>1, <2>4 DEF EndsWell
  <2>6. PICK u : u = increment_nonce(set_code(w, self), self)
    OBVIOUS
  <2>7. u \in WorldSet /\ \A a \in Accounts : u[a].balance = w[a].balance
    <3>1. PICK v : v = set_code(w, self)
      OBVIOUS
    <3>2. v \in WorldSet /\ \A a \in Accounts : v[a].balance = w[a].balance
      BY <1>1, <2>2, <3>1 DEF set_code, WorldSet, AccountSet
    <3>3. u = increment_nonce(v, self)
      BY <2>6, <3>1
    <3>4. u \in WorldSet /\ \A a \in Accounts : u[a].balance = v[a].balance
      BY <2>2, <3>2, <3>3 DEF increment_nonce, WorldSet, AccountSet
    <3> QED BY <3>2, <3>4
  <2>8. Total(u) = Total(w)
    BY <1>1, <2>7, TotalSame
  <2>9. \A r : EndsWell([world |-> u, gas |-> k, result |-> r], w, d[n])
    BY <1>1, <2>1, <2>4, <2>7, <2>8, WithdrawAccount DEF EndsWell
  <2>10. ended(code) = end_create(code)
    BY <1>4 DEF ended
  <2>11. \/ \E r : ended(code) = [world |-> w, gas |-> g, result |-> r]
         \/ \E r : ended(code) = [world |-> w, gas |-> h, result |-> r]
         \/ \E r : ended(code) = [world |-> u, gas |-> k, result |-> r]
    BY <1>1, <2>2, <2>3, <2>4, <2>6, <2>10 DEF end_create
  <2> QED BY <1>1, <1>2, <2>5, <2>9, <2>11
<1> QED BY <1>3, <1>4

\* A layer that ended: its record with the gas that is left.
LEMMA EndedKept ==
    ASSUME NEW ws, NEW d, NEW b, NEW paid, LInv(ws, d, b, paid), paid \in Int,
           NEW n \in Nat, Len(d) = n, n >= 1, NEW e, EndsWell(e, ws[n + 1], d[n])
    PROVE  Kept(ws, d, WithTop(ws, e.world), WithGas(d, e.gas), b, paid)
<1>1. PICK w, g : w = e.world /\ g = e.gas
  OBVIOUS
<1>2. d \in Seq(LayerSet) /\ d[n] \in LayerSet
  BY ElementOfSeq DEF LInv, Shape
<1>3. PICK y : y = d[n]
  OBVIOUS
<1>4. TopAllowed(ws[n + 1], d[n], w, y)
  <2>1. d[n].withdrawn \in Nat /\ w[Withdraw].balance \in Nat
    BY <1>1, <1>2, WithdrawAccount DEF EndsWell, LayerSet, WorldSet, AccountSet
  <2> QED BY <1>1, <1>2, <1>3, <2>1, SameSteps DEF EndsWell, TopAllowed
<1>5. g \in GasSet /\ g.limit = d[n].gas.limit
  BY <1>1 DEF EndsWell
<1>6. Kept(ws, d, WithTop(ws, w), WithGas([d EXCEPT ![n] = y], g), b, paid)
  BY <1>4, <1>5, OpcodeLayers
<1>7. d = [d EXCEPT ![n] = y]
  BY <1>2, <1>3, ExceptSeq
<1> QED BY <1>1, <1>6, <1>7, Zenon

\* vs and e are ws and d without the n-th layer.
Dropped(ws, d, vs, e, n, b, paid) ==
    /\ LInv(vs, e, b, paid)
    /\ vs[1] = ws[1]
    /\ Len(e) = n - 1
    /\ \A i \in 1 .. n - 1 : e[i].static = d[i].static /\ e[i].gas.limit = d[i].gas.limit

LEMMA CommitLayers ==
    ASSUME NEW ws, NEW d, NEW b, NEW paid, LInv(ws, d, b, paid), paid \in Int,
           NEW n \in Nat, Len(d) = n, n >= 2
    PROVE  Dropped(ws, d, commit_transaction(ws), commit_inter_data(d), n, b, paid)
<1>1. ws \in Seq(WorldSet) /\ d \in Seq(LayerSet) /\ Len(ws) = n + 1
  BY DEF LInv, Shape
<1>2. PICK l \in Nat : l = n - 1 /\ l >= 1 /\ n = l + 1
  OBVIOUS
<1>3. PICK r : r = Front(d)
  OBVIOUS
<1>4. /\ r \in Seq(LayerSet) /\ Len(r) = l /\ \A i \in 1 .. l : r[i] = d[i]
      /\ Last(d) = d[n] /\ d[n] \in LayerSet
  <2>1. n >= 1
    OBVIOUS
  <2>2. /\ Front(d) \in Seq(LayerSet) /\ Len(Front(d)) = n - 1
        /\ \A i \in 1 .. n - 1 : Front(d)[i] = d[i]
        /\ Last(d) = d[n] /\ d[n] \in LayerSet
    BY <1>1, <2>1, SeqSteps
  <2> QED BY <1>2, <1>3, <2>2
<1>5. r[l] = d[l] /\ d[l] \in LayerSet
  <2>1. l \in 1 .. l
    BY <1>2
  <2>2. r[l] = d[l] /\ r[l] \in LayerSet
    BY <1>4, <2>1, ElementOfSeq
  <2> QED BY <2>2
<1>6. PICK x, z : x = d[n] /\ z = d[l]
  OBVIOUS
<1>7. x \in LayerSet /\ z \in LayerSet
  BY <1>4, <1>5, <1>6
<1>8. PICK g : g = record_stipend(z.gas, gas_remaining(x.gas)) /\ g \in GasSet /\ g.limit = z.gas.limit
  <2>1. PICK h \in GasSet, k \in GasSet : h = z.gas /\ k = x.gas
    BY <1>7 DEF LayerSet
  <2>2. PICK c \in Nat : c = gas_remaining(k)
    BY GasSteps
  <2>3. record_stipend(h, c) \in GasSet /\ record_stipend(h, c).limit = h.limit
    BY GasSteps
  <2> QED BY <2>1, <2>2, <2>3
<1>9. PICK y : y = Merged(z, x)
  OBVIOUS
<1>10. Absorbs(d[n - 1], d[n], y)
  <2>1. /\ y \in LayerSet /\ y.static = z.static /\ y.gas = g /\ y.logs = z.logs + x.logs
        /\ y.withdrawn = z.withdrawn + x.withdrawn /\ y.deleted = z.deleted \cup x.deleted
    <3>a. PICK lg \in Nat, wd \in Nat : lg = z.logs + x.logs /\ wd = z.withdrawn + x.withdrawn
      BY <1>7 DEF LayerSet
    <3>b. z.deleted \subseteq Accounts \ {Withdraw} /\ x.deleted \subseteq Accounts \ {Withdraw}
      BY <1>7 DEF LayerSet
    <3>c. PICK dl : dl = z.deleted \cup x.deleted
      OBVIOUS
    <3>d. dl \in SUBSET (Accounts \ {Withdraw})
      BY <3>b, <3>c
    <3>1. lg = z.logs + x.logs /\ wd = z.withdrawn + x.withdrawn /\ dl = z.deleted \cup x.deleted
      BY <3>a, <3>c
    <3>2. y = [z EXCEPT !.logs = lg, !.withdrawn = wd, !.deleted = dl, !.gas = g]
      BY <1>7, <1>8, <1>9, <3>1 DEF Merged, LayerSet
    <3>3. /\ y \in LayerSet /\ y.static = z.static /\ y.gas = g /\ y.logs = lg
          /\ y.withdrawn = wd /\ y.deleted = dl
      BY <1>7, <1>8, <3>2, <3>d DEF LayerSet
    <3> QED BY <3>1, <3>3
  <2> QED BY <1>2, <1>6, <1>8, <2>1 DEF Absorbs
<1>11. PICK e, vs : e = commit_inter_data(d) /\ vs = commit_transaction(ws)
  OBVIOUS
<1>12. e = [r EXCEPT ![l] = y]
  <2>1. Last(d) = x /\ Len(r) = l /\ r[l] = z /\ l \in DOMAIN r
    BY <1>2, <1>4, <1>5, <1>6
  <2> QED BY <1>3, <1>9, <1>11, <2>1 DEF commit_inter_data
<1>13. /\ e \in Seq(LayerSet) /\ Len(e) = l
       /\ \A i \in 1 .. l : e[i] = IF i = l THEN y ELSE r[i]
  <2>1. y \in LayerSet
    BY <1>10 DEF Absorbs
  <2>2. /\ [r EXCEPT ![l] = y] \in Seq(LayerSet) /\ Len([r EXCEPT ![l] = y]) = l
        /\ \A i \in 1 .. l : [r EXCEPT ![l] = y][i] = IF i = l THEN y ELSE r[i]
    BY <1>2, <1>4, <2>1, SeqSteps
  <2> QED BY <1>12, <2>2
<1>14. /\ vs \in Seq(WorldSet) /\ Len(vs) = n
       /\ \A i \in 1 .. n : vs[i] = IF i = n THEN ws[n + 1] ELSE ws[i]
  <2>1. PICK w \in WorldSet : w = ws[n + 1] /\ Last(ws) = w
    BY <1>1, ElementOfSeq DEF Last
  <2>2. PICK q : q = SubSeq(ws, 1, Len(ws) - 2)
    OBVIOUS
  <2>3. Len(ws) - 2 = l
    BY <1>1, <1>2
  <2>4. q \in Seq(WorldSet) /\ Len(q) = l /\ \A i \in 1 .. l : q[i] = ws[i]
    <3>1. q = SubSeq(ws, 1, l)
      BY <2>2, <2>3
    <3>2. Len(ws) = l + 2
      BY <1>1, <1>2
    <3> QED BY <1>1, <3>1, <3>2
  <2>5. vs = Append(q, w)
    BY <1>11, <2>1, <2>2 DEF commit_transaction
  <2>6. /\ vs \in Seq(WorldSet) /\ Len(vs) = l + 1
        /\ \A i \in 1 .. l : vs[i] = q[i]
        /\ vs[l + 1] = w
    BY <2>4, <2>5, SeqSteps
  <2> QED BY <1>2, <2>1, <2>4, <2>6
<1>15. TopMerged(ws, d, n, y, vs, e)
  <2>1. Shape(vs, e)
    BY <1>2, <1>13, <1>14 DEF Shape
  <2>2. \A i \in 1 .. n - 1 : e[i] = IF i = n - 1 THEN y ELSE d[i]
    BY <1>2, <1>4, <1>13
  <2> QED BY <1>2, <1>13, <1>14, <2>1, <2>2 DEF TopMerged
<1>16. LInv(vs, e, b, paid) /\ vs[1] = ws[1]
  BY <1>10, <1>15, MergeStep
<1>17. ASSUME NEW i \in 1 .. n - 1
       PROVE  e[i].static = d[i].static /\ e[i].gas.limit = d[i].gas.limit
  <2>1. CASE i = n - 1
    BY <1>2, <1>10, <1>13, <2>1 DEF Absorbs
  <2>2. CASE i # n - 1
    BY <1>2, <1>4, <1>13, <2>2
  <2> QED BY <2>1, <2>2
<1>18. Dropped(ws, d, vs, e, n, b, paid)
  BY <1>2, <1>13, <1>16, <1>17 DEF Dropped
<1> QED BY <1>11, <1>18

LEMMA RollbackLayers ==
    ASSUME NEW ws, NEW d, NEW b, NEW paid, LInv(ws, d, b, paid), paid \in Int,
           NEW n \in Nat, Len(d) = n, n >= 2, NEW refund
    PROVE  Dropped(ws, d, rollback_transaction(ws), rollback_inter_data(d, refund), n, b, paid)
<1>1. PICK l \in Nat : l = n - 1 /\ l >= 1 /\ n >= 1 /\ l \in 1 .. n - 1
  OBVIOUS
<1>2. PICK vs, e : vs = Front(ws) /\ e = Front(d)
  OBVIOUS
<1>3. Popped(ws, d, Front(ws), Front(d), n, b, paid)
  BY <1>1, PopStep
<1>4. /\ LInv(vs, e, b, paid) /\ vs[1] = ws[1] /\ Len(e) = l /\ \A i \in 1 .. n - 1 : e[i] = d[i]
  <2>1. Popped(ws, d, vs, e, n, b, paid)
    BY <1>2, <1>3, Zenon
  <2> QED BY <1>1, <2>1 DEF Popped
<1>5. rollback_transaction(ws) = vs
  BY <1>2 DEF rollback_transaction
<1>6. CASE ~refund
  <2>1. rollback_inter_data(d, refund) = e
    BY <1>2, <1>6 DEF rollback_inter_data
  <2>2. Dropped(ws, d, vs, e, n, b, paid)
    BY <1>1, <1>4 DEF Dropped
  <2> QED BY <1>5, <2>1, <2>2
<1>7. CASE refund
  <2>1. d \in Seq(LayerSet) /\ e \in Seq(LayerSet) /\ e[l] \in LayerSet /\ d[n] \in LayerSet /\ Last(d) = d[n]
    <3>1. d \in Seq(LayerSet) /\ e \in Seq(LayerSet)
      BY <1>4 DEF LInv, Shape
    <3>2. n \in 1 .. Len(d) /\ l \in 1 .. Len(e)
      BY <1>1, <1>4
    <3> QED BY <3>1, <3>2, ElementOfSeq DEF Last
  <2>2. PICK h \in GasSet, k \in GasSet : h = e[l].gas /\ k = d[n].gas
    BY <2>1 DEF LayerSet
  <2>3. PICK c \in Nat : c = gas_remaining(k)
    BY GasSteps
  <2>4. PICK g \in GasSet : g = record_stipend(h, c) /\ g.limit = h.limit
    BY GasSteps
  <2>5. rollback_inter_data(d, refund) = WithGas(e, g)
    <3>1. PICK q : q = gas_remaining(Last(d).gas)
      OBVIOUS
    <3>2. q = c
      BY <2>1, <2>2, <2>3, <3>1
    <3>3. rollback_inter_data(d, refund) = [e EXCEPT ![Len(e)].gas = record_stipend(@, q)]
      BY <1>2, <1>7, <3>1 DEF rollback_inter_data
    <3>4. record_stipend(e[Len(e)].gas, q) = g
      BY <1>4, <2>2, <2>4, <3>2
    <3> QED BY <3>3, <3>4 DEF WithGas
  <2>6. Kept(vs, e, vs, WithGas(e, g), b, paid)
    BY <1>1, <1>4, <2>2, <2>4, GasUpdate
  <2>7. PICK f : f = WithGas(e, g)
    OBVIOUS
  <2>8. Kept(vs, e, vs, f, b, paid)
    BY <2>6, <2>7, Zenon
  <2>9. \A i \in 1 .. n - 1 : i \in 1 .. Len(e)
    BY <1>1, <1>4
  <2>10. Dropped(ws, d, vs, f, n, b, paid)
    BY <1>1, <1>4, <2>8, <2>9 DEF Dropped, Kept
  <2> QED BY <1>5, <2>5, <2>7, <2>10
<1> QED BY <1>6, <1>7

LEMMA EndInterStep ==
    ASSUME IInv, NEW code, end_inter_transaction(code)
    PROVE  IInv'
<1>1. Top > 1
  BY DEF end_inter_transaction
<1>2. ~Idle
  BY <1>1 DEF Idle, Top
<1>3. PICK ws, d, fs, b, paid, x, n : Now(ws, d, fs, b, paid, x, n)
  BY <1>2, InTransaction
<1>4. /\ n \in Nat /\ n >= 2 /\ n >= 1 /\ Len(d) = n /\ LInv(ws, d, b, paid) /\ paid \in Int
      /\ b \in Int /\ paid \in Nat /\ ws = worlds /\ d = data /\ fs = frames /\ TInv(ws, d, x)
      /\ ws \in Seq(WorldSet) /\ Len(ws) = n + 1
  BY <1>1, <1>3 DEF Now
<1>5. PICK e : e = ended(code)
  OBVIOUS
<1>6. EndsWell(e, ws[n + 1], d[n])
  BY <1>3, <1>5, EndedLayer
<1>7. PICK vs, g, q : vs = WithTop(ws, e.world) /\ g = WithGas(d, e.gas) /\ q = (e.result = "revert")
  OBVIOUS
<1>8. Kept(ws, d, vs, g, b, paid)
  <2>1. Kept(ws, d, WithTop(ws, e.world), WithGas(d, e.gas), b, paid)
    BY <1>4, <1>6, EndedKept
  <2> QED BY <1>7, <2>1, Zenon
<1>9. Kept(ws, d, ws, g, b, paid)
  <2>1. PICK h \in GasSet : h = e.gas /\ h.limit = d[n].gas.limit
    BY <1>6 DEF EndsWell
  <2>2. Kept(ws, d, ws, WithGas(d, h), b, paid)
    BY <1>4, <2>1, GasUpdate
  <2> QED BY <1>7, <2>1, <2>2
<1>10. /\ tx' = x /\ burnt' = b /\ paidOut' = paid /\ frames' = Front(fs)
       /\ data' = IF Succeeded(e.result) THEN commit_inter_data(g) ELSE rollback_inter_data(g, q)
       /\ worlds' = IF Succeeded(e.result) THEN commit_transaction(vs) ELSE rollback_transaction(ws)
  BY <1>3, <1>5, <1>7 DEF end_inter_transaction, history, Now
<1>11. PICK us, h, r : us = worlds' /\ h = data' /\ r = result'
  OBVIOUS
<1>12. Dropped(ws, d, us, h, n, b, paid)
  <2>1. CASE Succeeded(e.result)
    <3>1. LInv(vs, g, b, paid) /\ Len(g) = n
      BY <1>4, <1>8 DEF Kept
    <3>2. Dropped(vs, g, commit_transaction(vs), commit_inter_data(g), n, b, paid)
      BY <1>4, <3>1, CommitLayers
    <3>3. us = commit_transaction(vs) /\ h = commit_inter_data(g)
      BY <1>10, <1>11, <2>1
    <3>4. Dropped(vs, g, us, h, n, b, paid)
      BY <3>2, <3>3, Zenon
    <3>5. \A i \in 1 .. n - 1 : i \in 1 .. Len(d)
      BY <1>4
    <3> QED BY <1>8, <3>4, <3>5 DEF Dropped, Kept
  <2>2. CASE ~Succeeded(e.result)
    <3>1. LInv(ws, g, b, paid) /\ Len(g) = n
      BY <1>4, <1>9 DEF Kept
    <3>2. Dropped(ws, g, rollback_transaction(ws), rollback_inter_data(g, q), n, b, paid)
      BY <1>4, <3>1, RollbackLayers
    <3>3. us = rollback_transaction(ws) /\ h = rollback_inter_data(g, q)
      BY <1>10, <1>11, <2>2
    <3>4. Dropped(ws, g, us, h, n, b, paid)
      BY <3>2, <3>3, Zenon
    <3>5. \A i \in 1 .. n - 1 : i \in 1 .. Len(d)
      BY <1>4
    <3> QED BY <1>9, <3>4, <3>5 DEF Dropped, Kept
  <2> QED BY <2>1, <2>2
<1>13. FInv(Front(fs), h, r)
  <2>1. PICK p : p = result
    OBVIOUS
  <2>2. FInv(fs, d, p)
    BY <1>4, <2>1 DEF IInv
  <2>3. Len(h) = n - 1 /\ \A i \in 1 .. n - 1 : h[i].static = d[i].static
    BY <1>12 DEF Dropped
  <2> QED BY <1>4, <2>2, <2>3, FramesPopped
<1>14. TInv(us, h, x)
  <2>1. Len(h) = n - 1 /\ h[1].gas.limit = d[1].gas.limit /\ us[1] = ws[1]
    BY <1>4, <1>12 DEF Dropped
  <2> QED BY <1>4, <2>1 DEF TInv
<1>15. LInv(us, h, b, paid)
  BY <1>12 DEF Dropped
<1> QED BY <1>4, <1>10, <1>11, <1>13, <1>14, <1>15 DEF IInv

-----------------------------------------------------------------------------
(* The transaction ends.                                                   *)

\* A failed transaction leaves nothing but its fee and its nonce.
NoTrace ==
    (~Idle /\ Idle' /\ outcome'.status # "success") =>
       /\ outcome'.logs = 0 /\ outcome'.withdrawn = 0
       /\ \A a \in Accounts \ {tx.caller} : World'[a] = tx.before[a]
       /\ World'[tx.caller].balance >= tx.before[tx.caller].balance - fee(tx.limit)
       /\ World'[tx.caller].code = tx.before[tx.caller].code

\* The caller gets back at most what is left of the limit, and never pays more.
LEMMA Refunded ==
    ASSUME NEW g \in GasSet, NEW limit \in Limits, g.limit = limit, NEW res
    PROVE  fee(repaid(res, limit, gas_used(g))) \in Nat
<1>1. PICK p : p = repaid(res, limit, gas_used(g))
  OBVIOUS
<1>2. p \in Nat
  <2>1. CASE limit = NoLimit
    BY <1>1, <2>1 DEF repaid
  <2>2. CASE limit # NoLimit
    <3>1. limit \in Nat /\ g.used \in Int /\ g.used <= limit /\ gas_used(g) = g.used
      BY <2>2 DEF Limits, GasSet, gas_used
    <3>2. limit - g.used \in Nat
      BY <3>1
    <3> QED BY <1>1, <2>2, <3>1, <3>2 DEF repaid
  <2> QED BY <2>1, <2>2
<1>3. p \in Limits
  BY <1>2 DEF Limits
<1> QED BY <1>1, <1>3, FeeType

\* The nonce moves unless the handler failed.
LEMMA Bumped ==
    ASSUME NEW k \in WorldSet, NEW caller \in Accounts, NEW u,
           u = k \/ u = increment_nonce(k, caller)
    PROVE  /\ u \in WorldSet /\ Total(u) = Total(k)
           /\ \A a \in Accounts : u[a].balance = k[a].balance /\ u[a].code = k[a].code
           /\ \A a \in Accounts \ {caller} : u[a] = k[a]
<1>1. CASE u = k
  BY <1>1
<1>2. CASE u = increment_nonce(k, caller)
  <2>1. /\ u \in WorldSet
        /\ \A a \in Accounts : u[a].balance = k[a].balance /\ u[a].code = k[a].code
        /\ \A a \in Accounts \ {caller} : u[a] = k[a]
    BY <1>2 DEF increment_nonce, WorldSet, AccountSet
  <2>2. Total(u) = Total(k)
    BY <2>1, TotalSame
  <2> QED BY <2>1, <2>2
<1> QED BY <1>1, <1>2

\* The deleted contracts do not hold what was withdrawn.
LEMMA Deleted ==
    ASSUME NEW w \in WorldSet, NEW dead \in SUBSET (Accounts \ {Withdraw})
    PROVE  /\ delete_contracts(w, dead) \in WorldSet
           /\ delete_contracts(w, dead)[Withdraw] = w[Withdraw]
<1>1. EmptyAccount \in AccountSet
  BY DEF EmptyAccount, AccountSet
<1>2. delete_contracts(w, dead) \in WorldSet
  BY <1>1 DEF delete_contracts, WorldSet
<1> QED BY <1>2, WithdrawAccount DEF delete_contracts

LEMMA EndInitialStep ==
    ASSUME IInv, NEW code, end_initial_transaction(code)
    PROVE  IInv' /\ NoTrace
<1>1. Top = 1
  BY DEF end_initial_transaction
<1>2. ~Idle
  BY <1>1 DEF Idle, Top
<1>3. PICK ws, d, fs, b, paid, x, n : Now(ws, d, fs, b, paid, x, n)
  BY <1>2, InTransaction
<1>4. /\ n = 1 /\ Len(d) = n /\ LInv(ws, d, b, paid) /\ b \in Int /\ paid \in Nat
      /\ ws = worlds /\ d = data /\ x = tx /\ Last(data) = d[1] /\ d[1] \in LayerSet
      /\ ws \in Seq(WorldSet) /\ Len(ws) = 2 /\ ws[1] \in WorldSet /\ ws[2] \in WorldSet
  <2>1. n = 1
    BY <1>1, <1>3 DEF Now
  <2>2. ws \in Seq(WorldSet) /\ Len(ws) = 2
    BY <1>3, <2>1 DEF Now
  <2>3. 1 \in 1 .. Len(ws) /\ 2 \in 1 .. Len(ws)
    BY <2>2
  <2>4. ws[1] \in WorldSet /\ ws[2] \in WorldSet
    BY <2>2, <2>3, ElementOfSeq
  <2> QED BY <1>3, <2>1, <2>2, <2>4 DEF Now
<1>5. PaidFor(ws[1], x, d[1].gas.limit)
  BY <1>3, <1>4 DEF Now, TInv
<1>6. PICK caller \in Senders, limit \in Limits, before \in WorldSet :
        /\ caller = x.caller /\ limit = x.limit /\ before = x.before /\ limit = d[1].gas.limit
        /\ can_remove(before, caller, fee(limit))
        /\ ws[1] = balance_remove(before, caller, fee(limit))
  BY <1>5 DEF PaidFor
<1>7. caller \in Accounts /\ caller # Withdraw
  BY SenderAccount
<1>8. PICK e : e = ended(code)
  OBVIOUS
<1>9. EndsWell(e, ws[2], d[1])
  <2>1. EndsWell(ended(code), ws[n + 1], d[n])
    BY <1>3, EndedLayer
  <2> QED BY <1>4, <1>8, <2>1
<1>a. PICK res : res = e.result
  OBVIOUS
<1>10. PICK w \in WorldSet, g \in GasSet :
         /\ w = e.world /\ g = e.gas
         /\ g.limit = limit /\ Total(w) = Total(ws[2])
         /\ w[Withdraw].balance = ws[2][Withdraw].balance
  <2>1. PICK w \in WorldSet, g \in GasSet : w = e.world /\ g = e.gas
    BY <1>9 DEF EndsWell
  <2> QED BY <1>6, <1>9, <2>1 DEF EndsWell
<1>11. PICK refund \in Nat : refund = fee(repaid(e.result, tx.limit, gas_used(e.gas)))
  <2>1. fee(repaid(res, limit, gas_used(g))) \in Nat
    BY <1>10, Refunded
  <2> QED BY <1>4, <1>6, <1>10, <1>a, <2>1
<1>12. PICK out : out = d[1].withdrawn /\ out \in Nat
  BY <1>4 DEF LayerSet
<1>13. /\ \A k \in 1 .. 2 : Total(ws[k]) + b = Total(InitialWorld)
       /\ paid <= ws[1][Withdraw].balance
       /\ paid + out <= ws[2][Withdraw].balance
  <2>1. PICK one \in Nat : one = 1
    OBVIOUS
  <2>2. Len(d) = one /\ \A k \in 1 .. one : d[k].withdrawn \in Nat
    BY <1>4, <1>12, <2>1
  <2>3. Out(d, 0) = 0 /\ \A m \in 1 .. one : Out(d, m) = d[m].withdrawn + Out(d, m - 1)
    BY <2>2, OutStep
  <2>4. Out(d, 1) = out
    <3>1. Out(d, 1) = d[1].withdrawn + Out(d, 1 - 1) /\ 1 - 1 = 0
      BY <2>1, <2>3
    <3> QED BY <1>12, <2>3, <3>1
  <2>5. \A m \in 0 .. 1 : paid + Out(d, m) <= ws[m + 1][Withdraw].balance
    BY <1>4 DEF LInv, Held
  <2>6. paid + Out(d, 0) <= ws[0 + 1][Withdraw].balance /\ paid + Out(d, 1) <= ws[1 + 1][Withdraw].balance
    BY <2>5
  <2>7. \A k \in 1 .. 2 : Total(ws[k]) + b = Total(InitialWorld)
    BY <1>4 DEF LInv, Conserved
  <2> QED BY <1>4, <2>3, <2>4, <2>6, <2>7
<1>14. PICK kept : kept = settled(e.result, e.world, Last(data).deleted)
  OBVIOUS
<1>15. PICK bumped : bumped = IF HandlerError(e.result) THEN kept ELSE increment_nonce(kept, tx.caller)
  OBVIOUS
<1>16. PICK lost : lost = IF Succeeded(e.result) THEN Total(e.world) - Total(kept) ELSE 0
  OBVIOUS
<1>17. PICK o2 : o2 = IF Succeeded(e.result)
                      THEN [status |-> "success", logs |-> Last(data).logs,
                            withdrawn |-> Last(data).withdrawn]
                      ELSE rolled_back(e.result, data)
  OBVIOUS
<1>18. PICK z : z = balance_add(bumped, tx.caller, refund)
  OBVIOUS
<1>19. /\ worlds' = <<z>> /\ data' = <<>> /\ frames' = <<>> /\ outcome' = o2
       /\ burnt' = b + lost - refund /\ paidOut' = paid + o2.withdrawn
  BY <1>3, <1>8, <1>11, <1>14, <1>15, <1>16, <1>17, <1>18 DEF end_initial_transaction, Now
<1>20. /\ kept \in WorldSet /\ lost \in Int /\ o2.withdrawn \in Nat
       /\ Total(kept) + (b + lost) = Total(InitialWorld)
       /\ paid + o2.withdrawn <= kept[Withdraw].balance
       /\ o2.status # "success" => kept = ws[1] /\ o2.logs = 0 /\ o2.withdrawn = 0
  <2>1. CASE Succeeded(e.result)
    <3>1. PICK dead \in SUBSET (Accounts \ {Withdraw}) : dead = Last(data).deleted
      BY <1>4 DEF LayerSet
    <3>2. kept = delete_contracts(w, dead)
      BY <1>10, <1>14, <2>1, <3>1 DEF settled
    <3>3. kept \in WorldSet /\ kept[Withdraw] = w[Withdraw]
      BY <3>2, Deleted
    <3>4. PICK p \in Int, q \in Int : p = Total(w) /\ q = Total(kept)
      BY <3>3, TotalType
    <3>5. lost = p - q
      BY <1>10, <1>16, <2>1, <3>4
    <3>6. p + b = Total(InitialWorld)
      BY <1>10, <1>13, <3>4
    <3>7. q + (b + (p - q)) = p + b
      BY <1>4, <3>4
    <3>8. o2.withdrawn = out /\ o2.status = "success"
      BY <1>4, <1>12, <1>17, <2>1
    <3> QED BY <1>10, <1>12, <1>13, <3>3, <3>4, <3>5, <3>6, <3>7, <3>8
  <2>2. CASE ~Succeeded(e.result)
    <3>1. kept = ws[1] /\ lost = 0
      BY <1>4, <1>14, <1>16, <2>2 DEF settled
    <3>2. o2.withdrawn = 0 /\ o2.logs = 0
      BY <1>17, <2>2 DEF rolled_back
    <3>3. b + lost = b /\ paid + o2.withdrawn = paid
      BY <1>4, <3>1, <3>2
    <3>4. Total(ws[1]) + b = Total(InitialWorld)
      BY <1>13
    <3> QED BY <1>4, <1>13, <3>1, <3>2, <3>3, <3>4
  <2> QED BY <2>1, <2>2
<1>21. /\ bumped \in WorldSet /\ Total(bumped) = Total(kept)
       /\ \A a \in Accounts : bumped[a].balance = kept[a].balance /\ bumped[a].code = kept[a].code
       /\ \A a \in Accounts \ {caller} : bumped[a] = kept[a]
  <2>1. bumped = kept \/ bumped = increment_nonce(kept, caller)
    BY <1>4, <1>6, <1>15
  <2> QED BY <1>7, <1>20, <2>1, Bumped
<1>22. /\ z \in WorldSet /\ Total(z) = Total(bumped) + refund
       /\ z[caller].balance = bumped[caller].balance + refund
       /\ \A a \in Accounts \ {caller} : z[a] = bumped[a]
       /\ z[caller].code = bumped[caller].code
  <2>1. z = balance_add(bumped, caller, refund)
    BY <1>4, <1>6, <1>18
  <2> QED BY <1>7, <1>21, <2>1, BalanceAdd
<1>23. PICK b2, paid2 : b2 = b + lost - refund /\ paid2 = paid + o2.withdrawn
  OBVIOUS
<1>24. b2 \in Int /\ paid2 \in Nat /\ paid2 \in Int
  BY <1>4, <1>20, <1>23
<1>25. LInv(<<z>>, <<>>, b2, paid2)
  <2>1. Total(z) + b2 = Total(InitialWorld)
    <3>1. PICK p \in Int : p = Total(kept)
      BY <1>20, TotalType
    <3>2. Total(z) = p + refund /\ p + (b + lost) = Total(InitialWorld)
      BY <1>20, <1>21, <1>22, <3>1
    <3>3. (p + refund) + (b + lost - refund) = p + (b + lost)
      BY <1>4, <1>20
    <3> QED BY <1>23, <3>2, <3>3
  <2>2. paid2 <= z[Withdraw].balance
    BY <1>7, <1>20, <1>21, <1>22, <1>23, WithdrawAccount
  <2> QED BY <1>22, <1>24, <2>1, <2>2, IdleLayers
<1>26. IInv'
  <2>1. PICK r, x2, us, h : r = result' /\ x2 = tx' /\ us = <<z>> /\ h = <<>>
    OBVIOUS
  <2>2. Len(h) = 0 /\ h \in Seq(FrameSet)
    BY <2>1
  <2>3. FInv(h, h, r)
    <3>1. \A k \in 1 .. Len(h) : FALSE
      BY <2>2
    <3> QED BY <2>2, <3>1 DEF FInv
  <2>4. TInv(us, h, x2)
    BY <2>2 DEF TInv
  <2>5. LInv(us, h, b2, paid2)
    BY <1>25, <2>1, Zenon
  <2>6. worlds' = us /\ data' = h /\ frames' = h /\ burnt' = b2 /\ paidOut' = paid2
    BY <1>19, <1>23, <2>1
  <2> QED BY <1>24, <2>1, <2>3, <2>4, <2>5, <2>6 DEF IInv
<1>27. World' = z
  <2>1. PICK us : us = <<z>>
    OBVIOUS
  <2>2. us[Len(us)] = z
    BY <2>1
  <2>3. worlds' = us
    BY <1>19, <2>1
  <2> QED BY <2>2, <2>3 DEF World
<1>28. ASSUME outcome'.status # "success"
       PROVE  /\ outcome'.logs = 0 /\ outcome'.withdrawn = 0
              /\ \A a \in Accounts \ {caller} : z[a] = before[a]
              /\ z[caller].balance >= before[caller].balance - fee(limit)
              /\ z[caller].code = before[caller].code
  <2>1. kept = ws[1] /\ o2.logs = 0 /\ o2.withdrawn = 0
    BY <1>19, <1>20, <1>28
  <2>2. PICK c \in Nat : c = fee(limit)
    BY FeeType
  <2>3. PICK v : v = ws[1]
    OBVIOUS
  <2>4. /\ v \in WorldSet /\ v[caller].balance = before[caller].balance - c
        /\ \A a \in Accounts \ {caller} : v[a] = before[a]
        /\ v[caller].code = before[caller].code
    <3>1. can_remove(before, caller, c) /\ v = balance_remove(before, caller, c)
      BY <1>6, <2>2, <2>3
    <3> QED BY <1>7, <3>1, BalanceRemove
  <2>5. \A a \in Accounts \ {caller} : z[a] = v[a]
    BY <1>21, <1>22, <2>1, <2>3
  <2>6. z[caller].balance = v[caller].balance + refund /\ z[caller].code = v[caller].code
    BY <1>7, <1>21, <1>22, <2>1, <2>3
  <2>7. v[caller].balance \in Nat
    BY <1>7, <2>4 DEF WorldSet, AccountSet
  <2> QED BY <1>19, <2>1, <2>2, <2>4, <2>5, <2>6, <2>7
<1>29. NoTrace
  BY <1>4, <1>6, <1>27, <1>28 DEF NoTrace
<1> QED BY <1>26, <1>29

-----------------------------------------------------------------------------
(* The invariant holds of every state.                                     *)

LEMMA InitInvariant ==
    ASSUME Init
    PROVE  IInv
<1>1. PICK w \in WorldSet : w = InitialWorld
  BY AddressAssumption DEF WorldSet, AccountSet
<1>2. PICK zero \in Int : zero = 0
  OBVIOUS
<1>3. Total(w) + zero = Total(InitialWorld) /\ zero <= w[Withdraw].balance
  <2>1. Total(w) \in Int /\ w[Withdraw].balance \in Nat
    BY TotalType, WithdrawAccount DEF WorldSet, AccountSet
  <2> QED BY <1>1, <1>2, <2>1
<1>4. LInv(<<w>>, <<>>, zero, zero)
  BY <1>2, <1>3, IdleLayers
<1>5. PICK r, x, us, h : r = result /\ x = tx /\ us = <<w>> /\ h = <<>>
  OBVIOUS
<1>6. Len(h) = 0 /\ h \in Seq(FrameSet)
  BY <1>5
<1>7. FInv(h, h, r)
  <2>1. \A k \in 1 .. Len(h) : FALSE
    BY <1>6
  <2> QED BY <1>6, <2>1 DEF FInv
<1>8. TInv(us, h, x)
  BY <1>6 DEF TInv
<1>9. LInv(us, h, zero, zero)
  BY <1>4, <1>5, Zenon
<1>10. worlds = us /\ data = h /\ frames = h /\ burnt = zero /\ paidOut = zero
  BY <1>1, <1>2, <1>5 DEF Init
<1> QED BY <1>2, <1>5, <1>7, <1>8, <1>9, <1>10 DEF IInv

LEMMA SameInvariant ==
    ASSUME IInv, UNCHANGED <<worlds, data, frames, result, tx, burnt, paidOut>>
    PROVE  IInv'
BY DEF IInv

LEMMA NextInvariant ==
    ASSUME IInv, HashedAddresses, [Next]_vars
    PROVE  IInv'
<1>1. ASSUME NEW caller \in Senders, NEW limit \in GasLimits, Unpaid(caller, limit)
      PROVE  IInv'
  BY <1>1, SameInvariant DEF Unpaid, history
<1>2. ASSUME NEW caller \in Senders, NEW limit \in GasLimits, NEW a \in Accounts,
             NEW v \in TxValues, NEW ok \in BOOLEAN, call_contract(caller, limit, a, v, ok)
      PROVE  IInv'
  BY <1>2, CallContractStep
<1>3. ASSUME NEW caller \in Senders, NEW limit \in GasLimits, NEW v \in TxValues,
             create_contract(caller, limit, v)
      PROVE  IInv'
  BY <1>3, CreateContractStep
<1>4. ASSUME NEW v \in Slots, SStore(v) PROVE IInv'
  BY <1>4, SStoreStep
<1>5. ASSUME Log PROVE IInv'
  BY <1>5, LogStep
<1>6. ASSUME NEW a \in Targets, SelfDestruct(a) PROVE IInv'
  BY <1>6, SelfDestructStep
<1>7. ASSUME Stop \/ Revert \/ Invalid PROVE IInv'
  BY <1>7, StopStep
<1>8. ASSUME NEW s \in {"call", "callcode", "delegate", "static"}, NEW a \in Targets,
             NEW v \in TxValues, NEW g \in TargetGas, NEW ok \in BOOLEAN,
             ~Idle, call(s, a, v, g, ok)
      PROVE  IInv'
  BY <1>8, CallStep
<1>9. ASSUME NEW c2 \in BOOLEAN, NEW v \in TxValues, ~Idle, create(c2, v) PROVE IInv'
  BY <1>9, CreateStep
<1>10. ASSUME NEW code, end_inter_transaction(code) PROVE IInv'
  BY <1>10, EndInterStep
<1>11. ASSUME NEW code, end_initial_transaction(code) PROVE IInv'
  BY <1>11, EndInitialStep
<1>12. ASSUME UNCHANGED vars PROVE IInv'
  BY <1>12, SameInvariant DEF vars
<1>13. ASSUME Finished PROVE IInv'
  BY <1>12, <1>13 DEF Finished
<1> QED BY <1>1, <1>2, <1>3, <1>4, <1>5, <1>6, <1>7, <1>8, <1>9, <1>10, <1>11, <1>12, <1>13 DEF Next

\* A transaction ends only in end_initial_transaction.
LEMMA NextNoTrace ==
    ASSUME IInv, [Next]_vars
    PROVE  NoTrace
<1>1. ASSUME NEW code, end_initial_transaction(code) PROVE NoTrace
  BY <1>1, EndInitialStep
<1>2. ASSUME frames' = frames PROVE NoTrace
  BY <1>2 DEF NoTrace, Idle
<1>3. ASSUME Idle PROVE NoTrace
  BY <1>3 DEF NoTrace
<1>4. ASSUME NEW f, NEW kind, NEW self, Enter(f, Waiting, kind, self), ~Idle PROVE NoTrace
  <2>1. PICK ws, d, fs, b, paid, x, n : Now(ws, d, fs, b, paid, x, n)
    BY <1>4, InTransaction
  <2>2. PICK gs, z : gs = Waiting /\ frames' = Append(gs, z)
    BY <1>4 DEF Enter
  <2>3. Len(gs) = n /\ n \in Nat /\ \E T : gs \in Seq(T)
    <3>1. fs = frames /\ fs \in Seq(FrameSet) /\ Len(fs) = n /\ n \in Nat /\ n >= 1 /\ Top = n
      BY <2>1 DEF Now
    <3>2. PICK y : gs = [fs EXCEPT ![n] = y]
      BY <2>2, <3>1 DEF Waiting
    <3>3. PICK T : T = FrameSet \cup {y}
      OBVIOUS
    <3>4. fs \in Seq(T) /\ y \in T
      BY <3>1, <3>3, ElementOfSeq
    <3>5. [fs EXCEPT ![n] = y] \in Seq(T) /\ Len([fs EXCEPT ![n] = y]) = n
      BY <3>1, <3>4, SeqSteps
    <3> QED BY <3>1, <3>2, <3>5
  <2>4. Append(gs, z) # <<>>
    BY <2>3
  <2> QED BY <2>2, <2>4 DEF NoTrace, Idle
<1>5. ASSUME NEW cost, NEW allowed, NEW res, Opcode(cost, allowed, res, World, data) PROVE NoTrace
  BY <1>2, <1>5 DEF Opcode
<1>6. ASSUME NEW code, end_inter_transaction(code) PROVE NoTrace
  <2>1. Top > 1 /\ frames' = Front(frames)
    BY <1>6 DEF end_inter_transaction
  <2>2. ~Idle
    BY <2>1 DEF Idle, Top
  <2>3. PICK ws, d, fs, b, paid, x, n : Now(ws, d, fs, b, paid, x, n)
    BY <2>2, InTransaction
  <2>4. n \in Nat /\ n >= 2 /\ Len(fs) = n /\ fs \in Seq(FrameSet) /\ frames' = Front(fs)
    BY <2>1, <2>3 DEF Now
  <2>5. Len(Front(fs)) = n - 1
    BY <2>4, SeqSteps
  <2>6. Front(fs) # <<>>
    BY <2>4, <2>5
  <2> QED BY <2>4, <2>6 DEF NoTrace, Idle
<1>7. ASSUME NEW s, NEW a, NEW v, NEW g, NEW ok, ~Idle, call(s, a, v, g, ok) PROVE NoTrace
  BY <1>4, <1>5, <1>7 DEF call
<1>8. ASSUME NEW c2, NEW v, ~Idle, create(c2, v) PROVE NoTrace
  BY <1>4, <1>5, <1>8 DEF create
<1>9. ASSUME NEW v, SStore(v) PROVE NoTrace
  BY <1>2, <1>9 DEF SStore, Opcode
<1>10. ASSUME Log PROVE NoTrace
  BY <1>2, <1>10 DEF Log, Opcode
<1>11. ASSUME NEW a, SelfDestruct(a) PROVE NoTrace
  BY <1>2, <1>11 DEF SelfDestruct, Opcode
<1>12. ASSUME Stop \/ Revert \/ Invalid PROVE NoTrace
  BY <1>2, <1>12 DEF Stop, Revert, Invalid, Opcode
<1>13. ASSUME NEW caller, NEW limit, Unpaid(caller, limit) PROVE NoTrace
  BY <1>3, <1>13 DEF Unpaid, Start
<1>14. ASSUME NEW caller, NEW limit, NEW a, NEW v, NEW ok, call_contract(caller, limit, a, v, ok)
       PROVE  NoTrace
  BY <1>3, <1>14 DEF call_contract, Opened, Start
<1>15. ASSUME NEW caller, NEW limit, NEW v, create_contract(caller, limit, v) PROVE NoTrace
  BY <1>3, <1>15 DEF create_contract, Opened, Start
<1>16. ASSUME Finished \/ UNCHANGED vars PROVE NoTrace
  BY <1>2, <1>16 DEF Finished, vars
<1> QED BY <1>1, <1>6, <1>7, <1>8, <1>9, <1>10, <1>11, <1>12, <1>13, <1>14, <1>15, <1>16 DEF Next

LEMMA Conclusions ==
    ASSUME IInv
    PROVE  SupplyConserved /\ StaticIsPure
<1>1. PICK ws, d, b, paid : ws = worlds /\ d = data /\ b = burnt /\ paid = paidOut
  OBVIOUS
<1>2. LInv(ws, d, b, paid)
  BY <1>1 DEF IInv
<1>3. PICK n \in Nat : Len(d) = n /\ Len(ws) = n + 1
  BY <1>2 DEF LInv, Shape
<1>4. SupplyConserved
  <2>1. \A k \in 1 .. Len(worlds) : Total(worlds[k]) + burnt = Total(InitialWorld)
    BY <1>1, <1>2 DEF LInv, Conserved
  <2>2. paid + Out(d, n) <= ws[n + 1][Withdraw].balance
    <3>1. n \in 0 .. n
      OBVIOUS
    <3> QED BY <1>2, <1>3, <3>1 DEF LInv, Held
  <2>3. SumFunction([k \in 1 .. Len(data) |-> data[k].withdrawn]) = Out(d, n)
    <3>1. Amounts(d) = [k \in 1 .. Len(data) |-> data[k].withdrawn]
      BY <1>1, Zenon DEF Amounts
    <3>2. DOMAIN Amounts(d) = 1 .. n
      BY <1>3 DEF Amounts
    <3> QED BY <3>1, <3>2, Zenon DEF SumFunction, Out
  <2>4. World = ws[n + 1]
    BY <1>1, <1>3 DEF World
  <2> QED BY <1>1, <2>1, <2>2, <2>3, <2>4 DEF SupplyConserved, WithdrawalsBacked
<1>5. StaticIsPure
  BY <1>1, <1>2 DEF LInv, Pure, Quiet, StaticIsPure
<1> QED BY <1>4, <1>5

(***************************************************************************)
(* Value is conserved in every layer of storage, through any nesting of    *)
(* transfers, reverts, creations, self-destructions and refunds, and what  *)
(* was withdrawn to layer 1 is held by the withdrawal contract; for any    *)
(* accounts, costs, limits and depth.                                      *)
(***************************************************************************)
THEOREM SupplyIsConserved ==
    ASSUME HashedAddresses
    PROVE  Spec => []SupplyConserved
<1>1. Init => IInv
  BY InitInvariant
<1>2. IInv /\ [Next]_vars => IInv'
  BY NextInvariant
<1>3. IInv => SupplyConserved
  BY Conclusions
<1> QED BY <1>1, <1>2, <1>3, PTL DEF Spec

(***************************************************************************)
(* Whatever a static call calls, delegates to or fails to create, every    *)
(* layer above it has the storage, the code and the nonces it started      *)
(* from, and neither logs nor deletions; only the value of a CALLCODE      *)
(* moves there.                                                            *)
(***************************************************************************)
THEOREM StaticCallsArePure ==
    ASSUME HashedAddresses
    PROVE  Spec => []StaticIsPure
<1>1. Init => IInv
  BY InitInvariant
<1>2. IInv /\ [Next]_vars => IInv'
  BY NextInvariant
<1>3. IInv => StaticIsPure
  BY Conclusions
<1> QED BY <1>1, <1>2, <1>3, PTL DEF Spec

(***************************************************************************)
(* A transaction that ends in anything but a success changes its caller's  *)
(* nonce and takes at most its fee, and nothing else.                      *)
(***************************************************************************)
THEOREM FailuresLeaveNoTrace ==
    ASSUME HashedAddresses
    PROVE  Spec => FailureLeavesNoTrace
<1>1. Init => IInv
  BY InitInvariant
<1>2. IInv /\ [Next]_vars => IInv'
  BY NextInvariant
<1>3. IInv /\ [Next]_vars => [NoTrace]_vars
  BY NextNoTrace
<1> QED BY <1>1, <1>2, <1>3, PTL DEF Spec, FailureLeavesNoTrace, NoTrace
=============================================================================
