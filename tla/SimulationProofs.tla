-------------------------- MODULE SimulationProofs --------------------------
(***************************************************************************)
(* What holds of the simulation for every user, call, size of chunks, loss *)
(* and displacement of messages: it reads the request of the node or       *)
(* nothing, and its verdict on a transaction agrees with application.      *)
(***************************************************************************)
EXTENDS Simulation, SumLemmas, SequenceTheorems, TLAPS

\* Validation and application agree on every answer, for any users, calls,
\* deposits, sizes of chunks and bounds.  Both look at one state of the accounts;
\* that the nonces in it are numbers is all the comparison of the two needs.
Account(r) == DOMAIN r = {"nonce", "balance", "code"} /\ r.nonce \in Nat
Accounts(accs) == \A a \in DOMAIN accs : Account(accs[a])

LEMMA AccountThere == ASSUME NEW accs, Accounts(accs), NEW a
                      PROVE Account(AccountAt(accs, a))
BY DEF AccountAt, Accounts, Account, NoAccount

LEMMA AccountSet == ASSUME NEW accs, Accounts(accs), NEW a, NEW r, Account(r)
                    PROVE Accounts(With(accs, a, r))
BY DEF Accounts, With

LEMMA BalanceSet == ASSUME NEW r, Account(r), NEW n
                    PROVE Account([r EXCEPT !.balance = n])
BY DEF Account

LEMMA NonceSet == ASSUME NEW r, Account(r), NEW n \in Nat
                  PROVE Account([r EXCEPT !.nonce = n])
BY DEF Account

LEMMA CodeSet == ASSUME NEW r, Account(r)
                 PROVE Account([r EXCEPT !.code = TRUE, !.nonce = 1])
BY DEF Account

LEMMA CreditKeeps == ASSUME NEW accs, Accounts(accs), NEW a, NEW n
                     PROVE Accounts(Credit(accs, a, n))
BY AccountThere, AccountSet, BalanceSet DEF Credit

LEMMA DebitKeeps == ASSUME NEW accs, Accounts(accs), NEW a, NEW n
                    PROVE Accounts(Debit(accs, a, n))
BY AccountThere, AccountSet, BalanceSet DEF Debit

LEMMA BumpKeeps == ASSUME NEW accs, Accounts(accs), NEW a
                   PROVE Accounts(Bump(accs, a))
<1>1. Account(AccountAt(accs, a))
  BY AccountThere
<1>2. AccountAt(accs, a).nonce + 1 \in Nat
  BY <1>1 DEF Account
<1> QED
  BY <1>1, <1>2, AccountSet, NonceSet DEF Bump

LEMMA DeployKeeps == ASSUME NEW accs, Accounts(accs), NEW a
                     PROVE Accounts(Deploy(accs, a))
BY AccountThere, AccountSet, CodeSet DEF Deploy

LEMMA TransferKeeps == ASSUME NEW accs, Accounts(accs), NEW outcome, NEW from, NEW to, NEW value
                       PROVE Accounts(Transferred(accs, outcome, from, to, value))
BY CreditKeeps, DebitKeeps, DeployKeeps DEF Transferred

\* What is read is nothing, or one message with at most one transaction.
OneOrNone(result) == result = Err \/ \E x : result = Ok(x)

LEMMA OkIs == \A x : Is(Ok(x)) /\ Ok(x)[1] = x /\ Range(Ok(x)) = {x} /\ ~Is(Err) /\ Range(Err) = {}
BY DEF Ok, Err, Is, Range

LEMMA OneTransaction == ASSUME NEW b PROVE OneOrNone(from_bytes(b))
<1>1. \A raw : OneOrNone(rlp_decode_legacy_tx(raw))
  BY DEF rlp_decode_legacy_tx, legacy_signed, legacy_tx, OneOrNone
<1>2. \A raw : OneOrNone(rlp_decode_eip2930_tx(raw)) /\ OneOrNone(rlp_decode_eip1559_tx(raw))
  BY DEF rlp_decode_eip2930_tx, rlp_decode_eip1559_tx, typed_tx, OneOrNone
<1>3. OneOrNone(Err)
  BY DEF OneOrNone
<1> QED
  BY <1>1, <1>2, <1>3 DEF from_bytes

AMessage(m) == OneOrNone(m.transaction)
ReadOK(read) == read = Err \/ \E m : read = Ok(m) /\ AMessage(m)

LEMMA MessageRead == ASSUME NEW b PROVE ReadOK(Message_decode(b))
<1>1. \A e : ReadOK(EvaluationMessage(e))
  BY DEF EvaluationMessage, Message, ReadOK, AMessage, OneOrNone
<1>2. ASSUME NEW tx, OneOrNone(tx) PROVE ReadOK(ValidationMessage(tx))
  BY <1>2 DEF ValidationMessage, Message, ReadOK, AMessage
<1>3. ReadOK(ValidationMessage(from_bytes(Tail(b))))
  BY <1>2, OneTransaction
<1>4. ReadOK(Err)
  BY DEF ReadOK
<1> QED
  BY <1>1, <1>3, <1>4 DEF Message_decode

LEMMA InboxRead == ASSUME NEW inbox PROVE ReadOK(parse_inbox(inbox))
<1>1. ReadOK(Err)
  BY DEF ReadOK
<1>2. \A inputs : ReadOK(read_chunks(inputs))
  BY <1>1, MessageRead DEF read_chunks
<1> QED
  BY <1>1, <1>2, MessageRead DEF parse_inbox, parse_first

\* The two judges of one transaction in one state.
Agree(validation, application, data) ==
    IF Is(validation.caller)
      THEN /\ application.reason \in LeftToApplication \cup {"Valid"}
           /\ Is(application.caller) => validation.caller[1] = application.caller[1]
      ELSE Is(application.caller) => RunsOutOfTicks(data)

LEMMA JudgesAgree == ASSUME NEW accs, Accounts(accs), NEW tx
                     PROVE Agree(TxValidation_run(accs, tx),
                                 is_valid_ethereum_transaction_common(accs, tx), tx.data)
<1> DEFINE who == caller(tx)
           account == AccountAt(accs, who[1])
           foreign == Is(tx.chain_id) /\ tx.chain_id # <<ChainId>>
           application == is_valid_ethereum_transaction_common(accs, tx)
           validation == TxValidation_run(accs, tx)
<1>1. \A reason : ~Is(Rejects(reason).caller) /\ Rejects(reason).reason = reason
  BY OkIs DEF Rejects
<1>2. \A a : Is(Accepts(a).caller) /\ Accepts(a).caller[1] = a /\ Accepts(a).reason = "Valid"
  BY OkIs DEF Accepts
<1>3. CASE ~Is(who)
  <2>1. validation = Rejects("NotCorrectSignature")
    BY <1>3 DEF TxValidation_run, judge
  <2>2. application = Rejects("InvalidChainId") \/ application = Rejects("InvalidSignature")
    BY <1>3 DEF is_valid_ethereum_transaction_common, valid_caller
  <2> QED
    BY <2>1, <2>2, <1>1 DEF Agree
<1>4. CASE Is(who)
  <2>1. account.nonce \in Nat
    BY AccountThere DEF Account
  <2>2. validation = TxValidation_judge(accs, tx, who[1])
    BY <1>4 DEF TxValidation_run, judge
  <2>3. application = IF foreign THEN Rejects("InvalidChainId") ELSE valid_account(tx, account, who[1])
    BY <1>4 DEF is_valid_ethereum_transaction_common, valid_caller
  <2>4. CASE Is(validation.caller)
    <3>1. validation = Accepts(who[1]) /\ ~foreign /\ ~(tx.max_fee_per_gas < BaseFee)
      BY <2>2, <2>4, <1>1 DEF TxValidation_judge
    <3>2. \/ application = Accepts(who[1])
          \/ \E reason \in LeftToApplication : application = Rejects(reason)
      BY <2>3, <3>1 DEF valid_account, LeftToApplication
    <3> QED
      BY <2>4, <3>1, <3>2, <1>1, <1>2 DEF Agree
  <2>5. CASE ~Is(validation.caller) /\ Is(application.caller)
    <3>1. ~foreign
      BY <2>3, <2>5, <1>1
    <3>2. account.nonce = tx.nonce /\ ~(tx.max_fee_per_gas < BaseFee)
      BY <2>3, <2>5, <3>1, <1>1 DEF valid_account
    <3>3. ~(tx.nonce < account.nonce)
      BY <3>2, <2>1
    <3>4. RunsOutOfTicks(tx.data)
      BY <2>2, <2>5, <3>1, <3>2, <3>3, <1>2 DEF TxValidation_judge
    <3> QED
      BY <2>5, <3>4 DEF Agree
  <2> QED
    BY <2>4, <2>5 DEF Agree
<1> QED
  BY <1>3, <1>4

\* What the simulation stores says what validation said.
LEMMA ValidationStored ==
    ASSUME NEW outcome
    PROVE LET stored == store_tx_validation_outcome(outcome) IN
          /\ stored.status = <<TRUE>> <=> Is(outcome.caller)
          /\ Is(outcome.caller) => stored.result[1].caller = outcome.caller[1]
<1>1. <<TRUE>> # <<FALSE>>
  OBVIOUS
<1>2. CASE Is(outcome.caller)
  BY <1>2 DEF store_tx_validation_outcome, Stored, Ok
<1>3. CASE ~Is(outcome.caller)
  BY <1>1, <1>3 DEF store_tx_validation_outcome, Stored, Ok
<1> QED
  BY <1>2, <1>3

LEMMA AnswerIsFair == ASSUME Accounts(accounts), NEW read, ReadOK(read), Answered(read)
                      PROVE AnswerAgrees'
<1>1. answer'.read = read
  BY DEF Answered
<1>2. CASE read = Err
  BY <1>1, <1>2, OkIs DEF AnswerAgrees
<1>3. ASSUME NEW m, read = Ok(m), AMessage(m) PROVE AnswerAgrees'
  <2>1. Is(read) /\ read[1] = m /\ Range(answer'.read) = {m}
    BY <1>1, <1>3, OkIs
  <2>2. CASE m.transaction = Err
    BY <2>1, <2>2, OkIs DEF AnswerAgrees
  <2>3. ASSUME NEW tx, m.transaction = Ok(tx) PROVE AnswerAgrees'
    <3> DEFINE validation == TxValidation_run(accounts, tx)
               application == is_valid_ethereum_transaction_common(accounts, tx)
    <3>1. Is(m.transaction) /\ m.transaction[1] = tx /\ Range(m.transaction) = {tx}
      BY <2>3, OkIs
    <3>2. answer'.stored = store_tx_validation_outcome(validation) /\ answer'.applied = application
      BY <2>1, <3>1 DEF Answered, simulated
    <3>3. /\ answer'.stored.status = <<TRUE>> <=> Is(validation.caller)
          /\ Is(validation.caller) => answer'.stored.result[1].caller = validation.caller[1]
      BY <3>2, ValidationStored
    <3>4. Agree(validation, application, tx.data)
      BY JudgesAgree
    <3> QED
      BY <2>1, <3>1, <3>2, <3>3, <3>4 DEF Agree, AnswerAgrees
  <2> QED
    BY <1>3, <2>2, <2>3 DEF AMessage, OneOrNone
<1> QED
  BY <1>2, <1>3 DEF ReadOK

SInv == Accounts(accounts) /\ AnswerAgrees

LEMMA KernelKeeps == ASSUME Accounts(accounts), KernelStep
                     PROVE Accounts(accounts')
<1>1. CASE ApplyDeposit
  <2>1. PICK a, n : accounts' = Credit(accounts, a, n)
    BY <1>1 DEF ApplyDeposit, Execute, Register
  <2> QED
    BY <2>1, CreditKeeps
<1>2. CASE ApplyEthereum
  <2>1. PICK t, tx : Judged(t, tx, is_valid_ethereum_transaction_common(accounts, tx))
    BY <1>2 DEF ApplyEthereum
  <2>2. \/ accounts' = accounts
        \/ \E from, n, outcome, to, value :
             accounts' = Transferred(Debit(Bump(accounts, from), from, n), outcome, from, to, value)
    BY <2>1 DEF Judged, RunEthereum, Ran, Execute, Register, Refuse
  <2> QED
    BY <2>2, BumpKeeps, DebitKeeps, TransferKeeps
<1>3. CASE DelayDeposit \/ DelayTransaction
  BY <1>3 DEF DelayDeposit, DelayTransaction, Delay
<1>4. CASE ProduceBlueprint
  BY <1>4 DEF ProduceBlueprint
<1>5. CASE ReceiveChunk \/ ReadBlueprint
  BY <1>5 DEF ReceiveChunk, ReadBlueprint
<1>6. CASE Reboot \/ finalize_and_store
  BY <1>6 DEF Reboot, finalize_and_store
<1> QED
  BY <1>1, <1>2, <1>3, <1>4, <1>5, <1>6 DEF KernelStep

LEMMA KernelRests == ASSUME KernelStep PROVE answer' = answer
BY DEF KernelStep, DelayDeposit, DelayTransaction, Delay, ProduceBlueprint, ReceiveChunk, ReadBlueprint,
       ApplyDeposit, ApplyEthereum, Reboot, finalize_and_store, node

\* Every answer of the simulation agrees with what application says of the same
\* transaction in the same state of the accounts (AnswerAgrees, the first part of
\* ValidationAgrees: TxValidation::run against is_valid_ethereum_transaction_common).
THEOREM AnswersAgree == Spec => []AnswerAgrees
<1>1. Init => SInv
  <2> SUFFICES ASSUME Init PROVE SInv
    OBVIOUS
  <2>1. Accounts(accounts)
    BY GenesisAssumption DEF Init, Accounts, Account
  <2>2. answer.read = Err
    BY DEF Init, NoAnswer
  <2> QED
    BY <2>1, <2>2, OkIs DEF SInv, AnswerAgrees
<1>2. SInv /\ [Next]_vars => SInv'
  <2> SUFFICES ASSUME SInv, [Next]_vars PROVE SInv'
    OBVIOUS
  <2> USE DEF SInv
  <2>1. ASSUME accounts' = accounts PROVE Accounts(accounts')
    BY <2>1
  <2>2. ASSUME answer' = answer PROVE AnswerAgrees'
    BY <2>2 DEF AnswerAgrees
  <2>3. CASE AskValidation \/ AskEvaluation \/ LoseMessage \/ SwapMessages
    <3>1. accounts' = accounts /\ answer' = answer
      BY <2>3 DEF AskValidation, AskEvaluation, Ask, LoseMessage, SwapMessages, chain
    <3> QED
      BY <3>1, <2>1, <2>2
  <2>4. CASE start_simulation_mode
    <3>1. accounts' = accounts
      BY <2>4 DEF start_simulation_mode, chain
    <3>2. Answered(parse_inbox(request.inbox))
      BY <2>4 DEF start_simulation_mode
    <3> QED
      BY <3>1, <3>2, <2>1, AnswerIsFair, InboxRead
  <2>5. CASE TakeAnswer
    <3>1. accounts' = accounts /\ answer'.read = Err
      BY <2>5 DEF TakeAnswer, chain, NoAnswer
    <3> QED
      BY <3>1, <2>1, OkIs DEF AnswerAgrees
  <2>6. CASE KernelStep
    BY <2>6, <2>2, KernelKeeps, KernelRests
  <2>7. CASE UNCHANGED vars
    BY <2>7, <2>1, <2>2 DEF vars
  <2> QED
    BY <2>3, <2>4, <2>5, <2>6, <2>7 DEF Next
<1>3. SInv => AnswerAgrees
  BY DEF SInv
<1> QED
  BY <1>1, <1>2, <1>3, PTL DEF Spec

-----------------------------------------------------------------------------
(* What is cut into chunks is their concatenation.                         *)

Unfolds(ss, g) ==
    g = [i \in 1 .. Len(ss) |-> IF i = 1 THEN ss[i] ELSE g[i - 1] \o ss[i]]

\* FlattenSeq reads the only table of the concatenations.
LEMMA FlattenRead ==
    ASSUME NEW ss, NEW n \in Nat, Len(ss) = n, n # 0, NEW g, Unfolds(ss, g)
    PROVE  FlattenSeq(ss) = g[n]
<1> DEFINE f == CHOOSE f : Unfolds(ss, f)
<1>1. FlattenSeq(ss) = f[n]
  BY DEF FlattenSeq, Unfolds
<1>2. Unfolds(ss, f)
  OBVIOUS
<1> HIDE DEF f
<1> DEFINE T == {k \in 0 .. n : \A j \in 1 .. k : f[j] = g[j]}
<1>3. 0 \in T
  OBVIOUS
<1>4. ASSUME NEW k \in 0 .. n - 1, k \in T PROVE k + 1 \in T
  <2>1. \A j \in 1 .. k : f[j] = g[j]
    BY <1>4
  <2>2. /\ f[k + 1] = IF k + 1 = 1 THEN ss[k + 1] ELSE f[k] \o ss[k + 1]
        /\ g[k + 1] = IF k + 1 = 1 THEN ss[k + 1] ELSE g[k] \o ss[k + 1]
    <3>1. k + 1 \in 1 .. n /\ (k + 1) - 1 = k
      OBVIOUS
    <3> QED BY <1>2, <3>1 DEF Unfolds
  <2>3. f[k + 1] = g[k + 1]
    <3>1. k + 1 # 1 => k \in 1 .. k
      OBVIOUS
    <3> QED BY <2>1, <2>2, <3>1
  <2> QED BY <2>1, <2>3
<1>5. n \in T
  <2> HIDE DEF T
  <2>1. \A k \in 0 .. n - 1 : k \in T => k + 1 \in T
    BY <1>4
  <2>2. \A k \in 0 .. n : k \in T
    BY <1>3, <2>1, UpTo
  <2> QED BY <2>2
<1> QED BY <1>1, <1>5

\* The chunks of n bytes: all but the last one are full.
ChunkCount(n, size) == (n + size - 1) \div size

LEMMA ChunkBounds ==
    ASSUME NEW n \in Nat \ {0}, NEW size \in Nat \ {0}
    PROVE  LET K == ChunkCount(n, size)
           IN  /\ K \in Nat /\ K >= 1 /\ K * size >= n
               /\ \A i \in 1 .. K - 1 : i * size \in Nat /\ i * size < n
<1> DEFINE K == ChunkCount(n, size)
<1>1. K = (n + size - 1) \div size
  BY DEF ChunkCount
<1> HIDE DEF K
<1>2. K \in Nat /\ K * size >= n /\ (K - 1) * size < n
  BY <1>1
<1>3. K >= 1
  BY <1>2
<1>4. ASSUME NEW i \in 1 .. K - 1 PROVE i * size \in Nat /\ i * size < n
  <2>1. i * size <= (K - 1) * size
    BY <1>2
  <2>2. i * size \in Nat /\ (K - 1) * size \in Int
    BY <1>2
  <2> QED BY <1>2, <2>1, <2>2
<1> QED BY <1>2, <1>3, <1>4 DEF K

\* Where chunk i ends.
ChunkEnd(b, size, i) == IF i * size < Len(b) THEN i * size ELSE Len(b)

LEMMA SubSeqJoin ==
    ASSUME NEW S, NEW b \in Seq(S), NEW x \in 0 .. Len(b), NEW y \in x .. Len(b)
    PROVE  SubSeq(b, 1, x) \o SubSeq(b, x + 1, y) = SubSeq(b, 1, y)
<1>1. Len(b) \in Nat /\ \A j \in 1 .. Len(b) : b[j] \in S
  BY LenProperties, ElementOfSeq
<1>2. SubSeq(b, 1, x) \in Seq(S) /\ Len(SubSeq(b, 1, x)) = x /\ \A j \in 1 .. x : SubSeq(b, 1, x)[j] = b[j]
  <2>1. \A j \in 1 .. x : b[j] \in S
    BY <1>1
  <2> QED BY <1>1, <2>1, SubSeqProperties
<1>3. /\ SubSeq(b, x + 1, y) \in Seq(S) /\ Len(SubSeq(b, x + 1, y)) = y - x
      /\ \A j \in 1 .. (y - x) : SubSeq(b, x + 1, y)[j] = b[x + j]
  <2>1. \A j \in x + 1 .. y : b[j] \in S
    BY <1>1
  <2> QED BY <1>1, <2>1, SubSeqProperties
<1>4. SubSeq(b, 1, y) \in Seq(S) /\ Len(SubSeq(b, 1, y)) = y /\ \A j \in 1 .. y : SubSeq(b, 1, y)[j] = b[j]
  <2>1. \A j \in 1 .. y : b[j] \in S
    BY <1>1
  <2> QED BY <1>1, <2>1, SubSeqProperties
<1> DEFINE u == SubSeq(b, 1, x)
           v == SubSeq(b, x + 1, y)
           w == SubSeq(b, 1, y)
<1> HIDE DEF u, v, w
<1>5. u \o v \in Seq(S) /\ Len(u \o v) = y
      /\ \A j \in 1 .. y : (u \o v)[j] = IF j <= x THEN u[j] ELSE v[j - x]
  <2>1. u \in Seq(S) /\ v \in Seq(S) /\ Len(u) = x /\ Len(v) = y - x
    BY <1>2, <1>3 DEF u, v
  <2>2. /\ u \o v \in Seq(S) /\ Len(u \o v) = Len(u) + Len(v)
        /\ \A j \in 1 .. Len(u) + Len(v) : (u \o v)[j] = IF j <= Len(u) THEN u[j] ELSE v[j - Len(u)]
    BY <2>1, ConcatProperties
  <2>3. Len(u) + Len(v) = y
    BY <2>1, <1>1
  <2> QED BY <2>1, <2>2, <2>3
<1>6. \A j \in 1 .. y : (u \o v)[j] = w[j]
  <2> SUFFICES ASSUME NEW j \in 1 .. y PROVE (u \o v)[j] = w[j]
    OBVIOUS
  <2>1. CASE j <= x
    BY <2>1, <1>1, <1>2, <1>4, <1>5 DEF u, w
  <2>2. CASE ~(j <= x)
    <3>1. j - x \in 1 .. (y - x) /\ x + (j - x) = j
      BY <2>2, <1>1
    <3>2. v[j - x] = b[j]
      BY <3>1, <1>3 DEF v
    <3> QED BY <2>2, <3>2, <1>4, <1>5 DEF w
  <2> QED BY <2>1, <2>2
<1>7. w \in Seq(S) /\ Len(w) = y
  BY <1>4 DEF w
<1> QED BY <1>1, <1>5, <1>6, <1>7, SeqEqual DEF u, v, w

LEMMA ChunksJoin ==
    ASSUME NEW S, NEW b \in Seq(S), b # <<>>, NEW size \in Nat \ {0}
    PROVE  /\ Len(Chunks(b, size)) = ChunkCount(Len(b), size)
           /\ DOMAIN Chunks(b, size) = 1 .. ChunkCount(Len(b), size)
           /\ FlattenSeq(Chunks(b, size)) = b
<1> DEFINE K == ChunkCount(Len(b), size)
           ss == Chunks(b, size)
           E(i) == ChunkEnd(b, size, i)
           g == [i \in 1 .. K |-> SubSeq(b, 1, E(i))]
<1>0. PICK n \in Nat : n = Len(b) /\ n # 0
  BY LenProperties, EmptySeq
<1>1. /\ K \in Nat /\ K >= 1 /\ K * size >= n
      /\ \A i \in 1 .. K - 1 : i * size \in Nat /\ i * size < n
  BY <1>0, ChunkBounds
<1>2. ss = [i \in 1 .. K |-> SubSeq(b, (i - 1) * size + 1, E(i))]
  BY DEF Chunks, ChunkCount, ChunkEnd
<1> HIDE DEF ss, K
<1>3. Len(ss) = K /\ DOMAIN ss = 1 .. K
  BY <1>1, <1>2
<1>4. \A i \in 1 .. K : E(i) \in 0 .. n
  <2> SUFFICES ASSUME NEW i \in 1 .. K PROVE E(i) \in 0 .. n
    OBVIOUS
  <2>1. i * size \in Nat
    BY <1>1
  <2> QED BY <2>1, <1>0 DEF ChunkEnd
<1>5. ASSUME NEW i \in 1 .. K, i # 1
      PROVE  /\ i - 1 \in 1 .. K /\ E(i - 1) = (i - 1) * size
             /\ E(i) \in E(i - 1) .. n
  <2>1. i - 1 \in 1 .. K - 1 /\ i - 1 \in 1 .. K
    BY <1>1, <1>5
  <2>2. (i - 1) * size \in Nat /\ (i - 1) * size < n
    BY <1>1, <2>1
  <2>3. E(i - 1) = (i - 1) * size
    BY <2>2, <1>0 DEF ChunkEnd
  <2>4. i * size = (i - 1) * size + size
    BY <1>1
  <2>5. (i - 1) * size <= i * size /\ i * size \in Nat
    BY <2>2, <2>4
  <2>6. E(i) \in E(i - 1) .. n
    BY <2>2, <2>3, <2>5, <1>0 DEF ChunkEnd
  <2> QED BY <2>1, <2>3, <2>6
<1>6. Unfolds(ss, g)
  <2>1. ASSUME NEW i \in 1 .. K PROVE g[i] = IF i = 1 THEN ss[i] ELSE g[i - 1] \o ss[i]
    <3>1. g[i] = SubSeq(b, 1, E(i)) /\ ss[i] = SubSeq(b, (i - 1) * size + 1, E(i))
      BY <1>2
    <3>2. CASE i = 1
      <4>1. (i - 1) * size + 1 = 1
        BY <3>2
      <4> QED BY <3>1, <3>2, <4>1
    <3>3. CASE i # 1
      <4>1. i - 1 \in 1 .. K /\ E(i - 1) = (i - 1) * size /\ E(i) \in E(i - 1) .. n
        BY <1>5, <3>3
      <4>2. E(i - 1) \in 0 .. n
        BY <1>4, <4>1
      <4>3. g[i - 1] = SubSeq(b, 1, E(i - 1))
        BY <4>1
      <4> DEFINE x == E(i - 1)
                 y == E(i)
      <4>4. ss[i] = SubSeq(b, x + 1, y)
        BY <3>1, <4>1
      <4>5. x \in 0 .. Len(b) /\ y \in x .. Len(b)
        BY <4>1, <4>2, <1>0
      <4>6. g[i] = SubSeq(b, 1, y) /\ g[i - 1] = SubSeq(b, 1, x)
        BY <3>1, <4>3
      <4> HIDE DEF x, y, g
      <4>7. SubSeq(b, 1, x) \o SubSeq(b, x + 1, y) = SubSeq(b, 1, y)
        BY <4>5, SubSeqJoin
      <4> QED BY <3>3, <4>4, <4>6, <4>7
    <3> QED BY <3>2, <3>3
  <2>2. g = [i \in 1 .. K |-> g[i]]
    OBVIOUS
  <2> HIDE DEF g
  <2> QED BY <1>3, <2>1, <2>2 DEF Unfolds
<1>7. g[K] = b
  <2>1. K * size \in Nat
    BY <1>1
  <2>2. E(K) = Len(b)
    BY <1>0, <1>1, <2>1 DEF ChunkEnd
  <2>3. g[K] = SubSeq(b, 1, Len(b))
    BY <2>2, <1>1
  <2> QED BY <2>3, SubSeqFull
<1>8. FlattenSeq(ss) = g[K]
  <2> HIDE DEF g
  <2> QED BY <1>1, <1>3, <1>6, FlattenRead
<1> QED BY <1>3, <1>7, <1>8 DEF ss, K

-----------------------------------------------------------------------------
(* The number of a chunk, on two bytes.                                    *)

Numbered(n) == n <= 65535

BeTable(b, f) == f = [i \in 0 .. Len(b) |-> IF i = 0 THEN 0 ELSE f[i - 1] * 256 + b[i]]

LEMMA FromBeTwo == ASSUME NEW b, Len(b) = 2, b[1] \in Int, b[2] \in Int
                   PROVE  FromBe(b) = b[1] * 256 + b[2]
<1> DEFINE f == CHOOSE f : BeTable(b, f)
           g == [i \in 0 .. 2 |-> IF i = 0 THEN 0 ELSE IF i = 1 THEN b[1] ELSE b[1] * 256 + b[2]]
<1>1. FromBe(b) = f[2]
  BY DEF FromBe, BeTable
<1>2. BeTable(b, g)
  <2>1. \A i \in 0 .. 2 : g[i] = IF i = 0 THEN 0 ELSE g[i - 1] * 256 + b[i]
    <3>1. g[0] = 0 /\ g[1] = b[1] /\ g[2] = b[1] * 256 + b[2]
      OBVIOUS
    <3> HIDE DEF g
    <3>2. \A i \in 0 .. 2 : i = 0 \/ i = 1 \/ i = 2
      OBVIOUS
    <3> QED BY <3>1, <3>2
  <2>2. g = [i \in 0 .. 2 |-> g[i]]
    OBVIOUS
  <2> HIDE DEF g
  <2> QED BY <2>1, <2>2 DEF BeTable
<1>3. BeTable(b, f)
  <2> HIDE DEF g
  <2> QED BY <1>2
<1> HIDE DEF f, g
<1>4. f[0] = 0 /\ f[1] = f[0] * 256 + b[1] /\ f[2] = f[1] * 256 + b[2]
  BY <1>3 DEF BeTable
<1> QED BY <1>1, <1>4

LEMMA Powers == Pow256[0] = 1 /\ Pow256[1] = 256
BY DEF Pow256

LEMMA TwoBytes == ASSUME NEW n \in Nat, Numbered(n)
                  PROVE  /\ LeFixed(n, 2) = << n % 256, n \div 256 >>
                         /\ FromLe(LeFixed(n, 2)) = n
<1> DEFINE b == << n % 256, n \div 256 >>
<1>1. LeFixed(n, 2) = [i \in 1 .. 2 |-> (n \div Pow256[i - 1]) % 256]
  BY DEF LeFixed
<1>2. (n \div Pow256[0]) % 256 = n % 256 /\ (n \div Pow256[1]) % 256 = n \div 256
  BY Powers DEF Numbered
<1>3. LeFixed(n, 2) = b
  <2>1. LeFixed(n, 2)[1] = n % 256 /\ LeFixed(n, 2)[2] = n \div 256
    BY <1>1, <1>2
  <2> QED BY <1>1, <2>1
<1>4. Len(Reverse(b)) = 2 /\ Reverse(b)[1] = n \div 256 /\ Reverse(b)[2] = n % 256
  BY DEF Reverse
<1>5. FromBe(Reverse(b)) = (n \div 256) * 256 + (n % 256)
  <2>1. n \div 256 \in Int /\ n % 256 \in Int
    OBVIOUS
  <2> DEFINE r == Reverse(b)
  <2>2. Len(r) = 2 /\ r[1] = n \div 256 /\ r[2] = n % 256
    BY <1>4
  <2> HIDE DEF r
  <2>3. FromBe(r) = r[1] * 256 + r[2]
    <3>1. Len(r) = 2 /\ r[1] \in Int /\ r[2] \in Int
      BY <2>1, <2>2
    <3> QED BY <3>1, FromBeTwo
  <2> QED BY <2>2, <2>3 DEF r
<1> QED BY <1>3, <1>5 DEF FromLe

-----------------------------------------------------------------------------
(* Whatever messages of a request the kernel finds in its inbox, in        *)
(* whatever order and however often, it reads the payload or nothing.      *)

Byte == 0 .. 255
Bytes == Seq(Byte)
Cut(payload) == Chunks(payload, MaxChunkSize)

\* A payload whose chunks can be numbered.
Fits(payload) ==
    payload \in Bytes /\ payload # <<>> /\ Len(payload) <= 65535 * MaxChunkSize

LEMMA CutFits == ASSUME NEW payload, Fits(payload)
                 PROVE  \E c \in Nat :
                           /\ 1 <= c /\ Numbered(c)
                           /\ Len(Cut(payload)) = c /\ DOMAIN Cut(payload) = 1 .. c
                           /\ FlattenSeq(Cut(payload)) = payload
<1> DEFINE c == ChunkCount(Len(payload), MaxChunkSize)
<1>1. payload \in Seq(Byte) /\ payload # <<>> /\ MaxChunkSize \in Nat \ {0}
  BY RequestsAssumption DEF Fits, Bytes
<1>2. PICK n \in Nat : n = Len(payload) /\ n # 0
  BY <1>1, LenProperties, EmptySeq
<1>3. /\ c \in Nat /\ c >= 1
      /\ \A i \in 1 .. c - 1 : i * MaxChunkSize \in Nat /\ i * MaxChunkSize < n
  BY <1>1, <1>2, ChunkBounds
<1>4. Len(Cut(payload)) = c /\ DOMAIN Cut(payload) = 1 .. c /\ FlattenSeq(Cut(payload)) = payload
  BY <1>1, ChunksJoin DEF Cut
<1> HIDE DEF c
<1>5. c <= 65535
  <2> SUFFICES ASSUME ~(c <= 65535) PROVE FALSE
    OBVIOUS
  <2>1. 65535 \in 1 .. c - 1
    BY <1>3
  <2>2. 65535 * MaxChunkSize < n
    BY <1>3, <2>1
  <2>3. n <= 65535 * MaxChunkSize
    BY <1>2 DEF Fits
  <2>4. 65535 * MaxChunkSize \in Nat
    BY <1>1
  <2> QED BY <2>2, <2>3, <2>4
<1>6. c \in Nat /\ c >= 1
  BY <1>3
<1> QED BY <1>4, <1>5, <1>6 DEF Numbered

\* The chunks are byte strings.
LEMMA CutBytes == ASSUME NEW payload, Fits(payload), NEW i \in DOMAIN Cut(payload)
                  PROVE  Cut(payload)[i] \in Bytes
<1>1. payload \in Seq(Byte) /\ payload # <<>> /\ MaxChunkSize \in Nat \ {0}
  BY RequestsAssumption DEF Fits, Bytes
<1> DEFINE K == ChunkCount(Len(payload), MaxChunkSize)
<1>2. PICK n \in Nat : n = Len(payload) /\ n # 0 /\ \A j \in 1 .. n : payload[j] \in Byte
  BY <1>1, LenProperties, EmptySeq, ElementOfSeq
<1>3. K \in Nat /\ i \in 1 .. K
  BY <1>1, <1>2, ChunkBounds, ChunksJoin DEF Cut
<1> DEFINE x == (i - 1) * MaxChunkSize + 1
           y == ChunkEnd(payload, MaxChunkSize, i)
<1>4. Cut(payload)[i] = SubSeq(payload, x, y)
  <2>1. Cut(payload) = [j \in 1 .. K |-> SubSeq(payload, (j - 1) * MaxChunkSize + 1, ChunkEnd(payload, MaxChunkSize, j))]
    BY DEF Cut, Chunks, ChunkCount, ChunkEnd
  <2> QED BY <2>1, <1>3
<1> HIDE DEF K
<1>5. i * MaxChunkSize \in Nat /\ (i - 1) * MaxChunkSize \in Nat
  <2>1. i \in Nat /\ i - 1 \in Nat
    BY <1>3
  <2> QED BY <1>1, <2>1
<1>6. x \in Int /\ x >= 1 /\ y \in Int /\ y <= n
  BY <1>2, <1>5 DEF ChunkEnd
<1> HIDE DEF x, y
<1>7. \A j \in x .. y : payload[j] \in Byte
  <2> SUFFICES ASSUME NEW j \in x .. y PROVE payload[j] \in Byte
    OBVIOUS
  <2>1. j \in 1 .. n
    BY <1>6
  <2> QED BY <1>2, <2>1
<1>8. SubSeq(payload, x, y) \in Seq(Byte)
  BY <1>6, <1>7, SubSeqProperties
<1> QED BY <1>4, <1>8 DEF Bytes

After(u, w) == SubSeq(w, Len(u) + 1, Len(w))
SamePrefix(u, w) == \A j \in 1 .. Len(u) : w[j] = u[j]
JoinedLen(u, v, w) == Len(w) = Len(u) + Len(v)

LEMMA SuffixOf == ASSUME NEW S, NEW u \in Seq(S), NEW v \in Seq(S)
                  PROVE  /\ u \o v \in Seq(S) /\ JoinedLen(u, v, u \o v)
                         /\ SamePrefix(u, u \o v) /\ After(u, u \o v) = v
<1> DEFINE w == u \o v
<1>1. Len(u) \in Nat /\ Len(v) \in Nat
  BY LenProperties
<1>2. /\ w \in Seq(S) /\ Len(w) = Len(u) + Len(v)
      /\ \A j \in 1 .. Len(u) + Len(v) : w[j] = IF j <= Len(u) THEN u[j] ELSE v[j - Len(u)]
  BY ConcatProperties
<1> HIDE DEF w
<1> DEFINE m == Len(u) + 1
           n == Len(u) + Len(v)
           t == SubSeq(w, m, n)
<1>3. m \in Int /\ n \in Int /\ \A j \in m .. n : w[j] \in S
  <2>1. m \in Int /\ n \in Int /\ n = Len(w)
    BY <1>1, <1>2
  <2>2. \A j \in 1 .. Len(w) : w[j] \in S
    BY <1>2, ElementOfSeq
  <2> QED BY <2>1, <2>2, <1>1
<1>4. /\ t \in Seq(S) /\ Len(t) = IF m <= n THEN n - m + 1 ELSE 0
      /\ \A i \in 1 .. n - m + 1 : t[i] = w[m + i - 1]
  BY <1>3, SubSeqProperties
<1> HIDE DEF t
<1>5. Len(t) = Len(v)
  BY <1>1, <1>4
<1>6. \A i \in 1 .. Len(t) : t[i] = v[i]
  <2> SUFFICES ASSUME NEW i \in 1 .. Len(v) PROVE t[i] = v[i]
    BY <1>5
  <2>1. /\ i \in 1 .. n - m + 1 /\ m + i - 1 \in 1 .. Len(u) + Len(v)
        /\ ~(m + i - 1 <= Len(u)) /\ (m + i - 1) - Len(u) = i
    BY <1>1
  <2> QED BY <1>2, <1>4, <2>1
<1>7. t = v
  BY <1>4, <1>5, <1>6, SeqEqual
<1>8. \A j \in 1 .. Len(u) : w[j] = u[j]
  BY <1>1, <1>2
<1> QED BY <1>2, <1>7, <1>8 DEF t, w, After, SamePrefix, JoinedLen

LEMMA PairJoin == \A a, b, c, d : <<a, b>> \o <<c, d>> = <<a, b, c, d>>
<1> SUFFICES ASSUME NEW a, NEW b, NEW c, NEW d PROVE <<a, b>> \o <<c, d>> = <<a, b, c, d>>
  OBVIOUS
<1> DEFINE S == {a, b, c, d}
           u == <<a, b>>
           v == <<c, d>>
           t == u \o v
<1>1. u \in Seq(S) /\ v \in Seq(S) /\ Len(u) = 2 /\ Len(v) = 2
      /\ u[1] = a /\ u[2] = b /\ v[1] = c /\ v[2] = d
  OBVIOUS
<1> HIDE DEF u, v, S
<1>2. /\ t \in Seq(S) /\ Len(t) = Len(u) + Len(v)
      /\ \A i \in 1 .. Len(u) + Len(v) : t[i] = IF i <= Len(u) THEN u[i] ELSE v[i - Len(u)]
  BY <1>1, ConcatProperties
<1> HIDE DEF t
<1>3. t \in Seq(S) /\ Len(t) = 4 /\ t[1] = a /\ t[2] = b /\ t[3] = c /\ t[4] = d
  BY <1>1, <1>2
<1>4. t = <<a, b, c, d>>
  BY <1>3
<1> QED BY <1>4 DEF t, u, v

LEMMA PairInside == ASSUME NEW S, NEW b \in Seq(S), Len(b) >= 4
                    PROVE  SubSeq(b, 3, 4) = <<b[3], b[4]>>
<1>1. Len(b) \in Nat /\ \A j \in 1 .. Len(b) : b[j] \in S
  BY LenProperties, ElementOfSeq
<1>2. \A j \in 3 .. 4 : b[j] \in S
  BY <1>1
<1>3. /\ SubSeq(b, 3, 4) \in Seq(S) /\ Len(SubSeq(b, 3, 4)) = 2
      /\ \A j \in 1 .. 2 : SubSeq(b, 3, 4)[j] = b[3 + j - 1]
  BY <1>2, SubSeqProperties
<1> DEFINE t == SubSeq(b, 3, 4)
<1> HIDE DEF t
<1>4. t \in Seq(S) /\ Len(t) = 2 /\ t[1] = b[3] /\ t[2] = b[4]
  BY <1>3 DEF t
<1>5. t = <<b[3], b[4]>>
  BY <1>4
<1> QED BY <1>5 DEF t

LEMMA HeaderParsed == ASSUME NEW c \in Nat, Numbered(c)
                      PROVE  Input_parse(<<255, 2>> \o LeFixed(c, 2)) = Input("NewChunked", c, <<>>)
<1> DEFINE b == <<255, 2>> \o LeFixed(c, 2)
<1>1. LeFixed(c, 2) = <<c % 256, c \div 256>> /\ FromLe(LeFixed(c, 2)) = c
  BY TwoBytes
<1>2. b = <<255, 2, c % 256, c \div 256>>
  <2>1. PICK tag, kind, x, y : tag = 255 /\ kind = 2 /\ x = c % 256 /\ y = c \div 256
    OBVIOUS
  <2>2. <<tag, kind>> \o <<x, y>> = <<tag, kind, x, y>>
    BY PairJoin, Zenon
  <2> QED BY <1>1, <2>1, <2>2
<1> HIDE DEF b
<1>3. Len(b) = 4 /\ b[1] = 255 /\ b[2] = 2 /\ b[3] = c % 256 /\ b[4] = c \div 256
  BY <1>2
<1>4. Body(b) = LeFixed(c, 2)
  BY <1>1, <1>2, <1>3 DEF Body
<1>5. Input_parse(b) = Input("NewChunked", FromLe(Body(b)), <<>>)
  BY <1>3 DEF Input_parse, SIMULATION_TAG
<1> QED BY <1>1, <1>4, <1>5 DEF b

LEMMA ChunkParsed == ASSUME NEW i \in Nat, Numbered(i), NEW data \in Bytes
                     PROVE  Input_parse(<<255, 3>> \o LeFixed(i, 2) \o data) = Input("Chunk", i, data)
<1> DEFINE u == <<255, 3, i % 256, i \div 256>>
           b == u \o data
<1>1. LeFixed(i, 2) = <<i % 256, i \div 256>> /\ FromLe(LeFixed(i, 2)) = i
  BY TwoBytes
<1>2. <<255, 3>> \o LeFixed(i, 2) = u
  <2>1. PICK tag, kind, x, y : tag = 255 /\ kind = 3 /\ x = i % 256 /\ y = i \div 256
    OBVIOUS
  <2>2. <<tag, kind>> \o <<x, y>> = <<tag, kind, x, y>>
    BY PairJoin, Zenon
  <2> QED BY <1>1, <2>1, <2>2
<1>3. 255 \in Byte /\ 3 \in Byte /\ i % 256 \in Byte /\ i \div 256 \in Byte
  BY DEF Byte, Numbered
<1>4. u \in Seq(Byte) /\ Len(u) = 4 /\ u[1] = 255 /\ u[2] = 3 /\ u[3] = i % 256 /\ u[4] = i \div 256
  BY <1>3
<1>5. data \in Seq(Byte) /\ Len(data) \in Nat
  BY LenProperties DEF Bytes
<1> HIDE DEF u
<1>6. /\ b \in Seq(Byte) /\ Len(b) = Len(u) + Len(data)
      /\ \A j \in 1 .. Len(u) : b[j] = u[j]
      /\ SubSeq(b, Len(u) + 1, Len(b)) = data
  <2>1. b \in Seq(Byte) /\ JoinedLen(u, data, b) /\ SamePrefix(u, b) /\ After(u, b) = data
    BY <1>4, <1>5, SuffixOf
  <2> QED BY <2>1 DEF JoinedLen, SamePrefix, After
<1> HIDE DEF b
<1>7. Len(b) > 3 /\ b[1] = 255 /\ b[2] = 3 /\ b[3] = i % 256 /\ b[4] = i \div 256
  BY <1>4, <1>5, <1>6
<1>8. SubSeq(b, 5, Len(b)) = data
  BY <1>4, <1>6
<1>12. Len(b) >= 4
  BY <1>4, <1>5, <1>6
<1>9. SubSeq(b, 3, 4) = LeFixed(i, 2)
  <2>1. SubSeq(b, 3, 4) = <<b[3], b[4]>>
    BY <1>6, <1>7, <1>12, PairInside
  <2> QED BY <2>1, <1>1, <1>7
<1>10. Input_parse(b) = Input("Chunk", FromLe(SubSeq(b, 3, 4)), SubSeq(b, 5, Len(b)))
  BY <1>7 DEF Input_parse, SIMULATION_TAG
<1>11. Input_parse(b) = Input("Chunk", i, data)
  BY <1>1, <1>8, <1>9, <1>10
<1> QED BY <1>2, <1>11 DEF b

LEMMA SimpleParsed == ASSUME NEW data \in Bytes
                      PROVE  LET r == Input_parse(<<255, 1>> \o data)
                             IN  r = Unparsable \/ r = Input("Simple", 0, data)
<1> DEFINE u == <<255, 1>>
           b == u \o data
<1>1. u \in Seq(Byte) /\ Len(u) = 2 /\ u[1] = 255 /\ u[2] = 1
  <2>1. 255 \in Byte /\ 1 \in Byte
    BY DEF Byte
  <2> QED BY <2>1
<1>2. data \in Seq(Byte) /\ Len(data) \in Nat
  BY LenProperties DEF Bytes
<1> HIDE DEF u
<1>3. /\ b \in Seq(Byte) /\ Len(b) = Len(u) + Len(data)
      /\ \A j \in 1 .. Len(u) : b[j] = u[j]
      /\ SubSeq(b, Len(u) + 1, Len(b)) = data
  <2>1. b \in Seq(Byte) /\ JoinedLen(u, data, b) /\ SamePrefix(u, b) /\ After(u, b) = data
    BY <1>1, <1>2, SuffixOf
  <2> QED BY <2>1 DEF JoinedLen, SamePrefix, After
<1> HIDE DEF b
<1>4. b[1] = 255 /\ b[2] = 1 /\ Len(b) \in Nat
  BY <1>1, <1>2, <1>3
<1>5. SubSeq(b, 3, Len(b)) = data
  BY <1>1, <1>3
<1>6. Body(b) = data
  BY <1>5 DEF Body
<1>7. CASE Len(b) <= 3
  BY <1>7, <1>4 DEF Input_parse, b, u
<1>8. CASE ~(Len(b) <= 3)
  <2>1. Len(b) > 3
    BY <1>4, <1>8
  <2>2. Input_parse(b) = Input("Simple", 0, Body(b))
    BY <1>4, <2>1 DEF Input_parse, SIMULATION_TAG
  <2> QED BY <1>6, <2>2 DEF b, u
<1> QED BY <1>7, <1>8

\* What the messages of a payload of c chunks may be parsed as.
ChunkInput(chunks, i) == Input("Chunk", i - 1, chunks[i])
Parsable(chunks, c, r) ==
    \/ r = Unparsable
    \/ c = 1 /\ r = Input("Simple", 0, chunks[1])
    \/ c # 1 /\ r = Input("NewChunked", c, <<>>)
    \/ c # 1 /\ \E i \in 1 .. c : r = ChunkInput(chunks, i)

ChunkMessage(chunks, i) == <<255, 3>> \o LeFixed(i - 1, 2) \o chunks[i]
FirstMessage(c) == <<255, 2>> \o LeFixed(c, 2)

LEMMA ChunkMessagesAre ==
    ASSUME NEW c \in Nat, NEW chunks, Len(chunks) = c, DOMAIN chunks = 1 .. c,
           NEW m \in Range(ChunkMessages(chunks))
    PROVE  m = FirstMessage(c) \/ \E i \in 1 .. c : m = ChunkMessage(chunks, i)
<1> DEFINE u == << FirstMessage(c) >>
           v == [i \in 1 .. c |-> ChunkMessage(chunks, i)]
           S == {FirstMessage(c)} \cup {ChunkMessage(chunks, i) : i \in 1 .. c}
           w == u \o v
<1>1. ChunkMessages(chunks) = w
  BY DEF ChunkMessages, FirstMessage, ChunkMessage
<1>2. u \in Seq(S) /\ v \in Seq(S) /\ Len(u) = 1 /\ Len(v) = c
  <2>1. FirstMessage(c) \in S /\ \A i \in 1 .. c : ChunkMessage(chunks, i) \in S
    OBVIOUS
  <2> HIDE DEF S
  <2> QED BY <2>1
<1> HIDE DEF u, v
<1>3. w \in Seq(S)
  BY <1>2, ConcatProperties
<1>4. \A j \in DOMAIN w : w[j] \in S
  <2> HIDE DEF w, S
  <2> QED BY <1>3
<1>5. m \in S
  BY <1>1, <1>4 DEF Range
<1> QED BY <1>5

LEMMA MessageParses ==
    ASSUME NEW payload, Fits(payload), NEW c \in Nat, 1 <= c, Numbered(c),
           Len(Cut(payload)) = c, DOMAIN Cut(payload) = 1 .. c,
           NEW m \in Range(MessagesOf(payload))
    PROVE  Parsable(Cut(payload), c, Input_parse(m))
<1> DEFINE chunks == Cut(payload)
<1>1. \A i \in 1 .. c : chunks[i] \in Bytes
  BY CutBytes
<1>2. MessagesOf(payload) = SplitInMessages(chunks)
  BY DEF MessagesOf, Cut
<1> HIDE DEF chunks
<1>3. CASE c = 1
  <2>1. MessagesOf(payload) = << <<255, 1>> \o chunks[1] >>
    BY <1>2, <1>3 DEF SplitInMessages, chunks
  <2>2. m = <<255, 1>> \o chunks[1]
    <3> DEFINE x == <<255, 1>> \o chunks[1]
    <3>1. MessagesOf(payload) = <<x>>
      BY <2>1
    <3> HIDE DEF x
    <3>2. m = x
      BY <3>1 DEF Range
    <3> QED BY <3>2 DEF x
  <2>3. chunks[1] \in Bytes
    BY <1>1, <1>3
  <2>4. Input_parse(m) = Unparsable \/ Input_parse(m) = Input("Simple", 0, chunks[1])
    BY <2>2, <2>3, SimpleParsed
  <2> QED BY <1>3, <2>4 DEF Parsable, chunks
<1>4. CASE c # 1
  <2>1. MessagesOf(payload) = ChunkMessages(chunks)
    BY <1>2, <1>4 DEF SplitInMessages, chunks
  <2>2. m = FirstMessage(c) \/ \E i \in 1 .. c : m = ChunkMessage(chunks, i)
    <3>1. Len(chunks) = c /\ DOMAIN chunks = 1 .. c /\ m \in Range(ChunkMessages(chunks))
      BY <2>1 DEF chunks
    <3> QED BY <3>1, ChunkMessagesAre
  <2>3. CASE m = FirstMessage(c)
    <3>1. Input_parse(m) = Input("NewChunked", c, <<>>)
      BY <2>3, HeaderParsed DEF FirstMessage
    <3> QED BY <1>4, <3>1 DEF Parsable
  <2>4. ASSUME NEW i \in 1 .. c, m = ChunkMessage(chunks, i) PROVE Parsable(chunks, c, Input_parse(m))
    <3>1. i - 1 \in Nat /\ Numbered(i - 1)
      BY DEF Numbered
    <3>2. chunks[i] \in Bytes
      BY <1>1
    <3>3. PICK k \in Nat : k = i - 1 /\ Numbered(k)
      BY <3>1
    <3>4. m = <<255, 3>> \o LeFixed(k, 2) \o chunks[i]
      BY <2>4, <3>3 DEF ChunkMessage
    <3>5. Input_parse(m) = Input("Chunk", k, chunks[i])
      BY <3>2, <3>3, <3>4, ChunkParsed
    <3>6. Input_parse(m) = ChunkInput(chunks, i)
      BY <3>3, <3>5 DEF ChunkInput
    <3> QED BY <1>4, <3>6 DEF Parsable
  <2> QED BY <2>2, <2>3, <2>4 DEF chunks
<1> QED BY <1>3, <1>4

\* Whatever comes in, the payload is read or nothing is.
LEMMA ReadWhole ==
    ASSUME NEW payload, Fits(payload), NEW inbox \in Seq(Range(MessagesOf(payload)))
    PROVE  parse_inbox(inbox) = Err \/ parse_inbox(inbox) = Message_decode(payload)
<1> DEFINE chunks == Cut(payload)
<1>1. PICK c \in Nat : /\ 1 <= c /\ Numbered(c) /\ Len(chunks) = c /\ DOMAIN chunks = 1 .. c
                       /\ FlattenSeq(chunks) = payload
  BY CutFits
<1>2. \A m \in Range(MessagesOf(payload)) : Parsable(chunks, c, Input_parse(m))
  BY <1>1, MessageParses
<1>3. \A k \in Nat \ {0} : Parsable(chunks, c, read_input(inbox, k))
  <2> SUFFICES ASSUME NEW k \in Nat \ {0} PROVE Parsable(chunks, c, read_input(inbox, k))
    OBVIOUS
  <2>1. CASE k <= Len(inbox)
    <3>1. inbox[k] \in Range(MessagesOf(payload))
      BY <2>1, LenProperties, ElementOfSeq
    <3> HIDE DEF chunks
    <3> QED BY <2>1, <3>1, <1>2 DEF read_input
  <2>2. CASE ~(k <= Len(inbox))
    BY <2>2 DEF read_input, Parsable
  <2> QED BY <2>1, <2>2
<1>0. chunks = [i \in 1 .. c |-> chunks[i]]
  BY <1>1 DEF Cut, Chunks
<1> HIDE DEF chunks
<1> DEFINE first == read_input(inbox, 1)
<1>4. Parsable(chunks, c, first)
  BY <1>3
<1>5. parse_inbox(inbox) = parse_first(first, inbox)
  BY DEF parse_inbox
<1> HIDE DEF first
<1>6. CASE first = Unparsable
  BY <1>5, <1>6 DEF parse_first, Unparsable, Input
<1>7. CASE c = 1 /\ first = Input("Simple", 0, chunks[1])
  <2>1. parse_inbox(inbox) = Message_decode(chunks[1])
    BY <1>5, <1>7 DEF parse_first, Input
  <2>2. FlattenSeq(chunks) = chunks[1]
    <3> DEFINE g == [i \in 1 .. 1 |-> chunks[1]]
    <3>1. Unfolds(chunks, g) /\ g[1] = chunks[1]
      BY <1>1, <1>7 DEF Unfolds
    <3> HIDE DEF g
    <3>2. c \in Nat /\ Len(chunks) = c /\ c # 0 /\ Unfolds(chunks, g)
      BY <1>1, <1>7, <3>1
    <3>3. FlattenSeq(chunks) = g[c]
      BY <3>2, FlattenRead
    <3> QED BY <1>7, <3>1, <3>3
  <2> QED BY <1>1, <2>1, <2>2
<1>8. CASE c # 1 /\ \E i \in 1 .. c : first = ChunkInput(chunks, i)
  BY <1>5, <1>8 DEF parse_first, ChunkInput, Input
<1>9. CASE c # 1 /\ first = Input("NewChunked", c, <<>>)
  <2> DEFINE inputs == [n \in 1 .. c |-> read_input(inbox, n + 1)]
             datas == [n \in DOMAIN inputs |-> inputs[n].data]
             ordered == \A n \in DOMAIN inputs : inputs[n].tag = "Chunk" /\ inputs[n].n = n - 1
  <2>1. parse_inbox(inbox) = read_chunks(inputs)
    BY <1>5, <1>9 DEF parse_first, Input
  <2>2. read_chunks(inputs) = IF ordered THEN Message_decode(FlattenSeq(datas)) ELSE Err
    BY DEF read_chunks
  <2>3. ASSUME ordered PROVE datas = chunks
    <3>1. ASSUME NEW n \in 1 .. c PROVE inputs[n].data = chunks[n]
      <4> DEFINE r == inputs[n]
      <4>1. Parsable(chunks, c, r)
        <5>1. n + 1 \in Nat \ {0} /\ inputs[n] = read_input(inbox, n + 1)
          OBVIOUS
        <5> QED BY <5>1, <1>3
      <4>2. r.tag = "Chunk" /\ r.n = n - 1
        BY <2>3
      <4> HIDE DEF r
      <4>3. r # Unparsable /\ r # Input("NewChunked", c, <<>>)
        BY <4>2 DEF Unparsable, Input
      <4>4. PICK i \in 1 .. c : r = ChunkInput(chunks, i)
        BY <1>9, <4>1, <4>3 DEF Parsable
      <4>5. r.n = i - 1 /\ r.data = chunks[i]
        BY <4>4 DEF ChunkInput, Input
      <4>6. i = n
        BY <4>2, <4>5
      <4> QED BY <4>5, <4>6 DEF r
    <3>2. datas = [n \in 1 .. c |-> inputs[n].data]
      OBVIOUS
    <3> HIDE DEF inputs, datas
    <3> QED BY <3>1, <3>2, <1>0
  <2> HIDE DEF inputs, datas, ordered
  <2> QED BY <2>1, <2>2, <2>3, <1>1
<1> QED BY <1>4, <1>6, <1>7, <1>8, <1>9 DEF Parsable

-----------------------------------------------------------------------------
(* The items of an RLP list are those it was made of.                      *)

Numbers == Seq(Nat)
ReadTable(b, f) == f = [i \in 0 .. Len(b) |-> IF i = 0 THEN NothingRead ELSE ReadByte(f[i - 1], b[i])]
Between(items) == [items |-> items, cur |-> <<>>, need |-> 0, long |-> FALSE]
Reads(b, items) == \E f : ReadTable(b, f) /\ f[Len(b)] = Between(items)

LEMMA ReadAllRead ==
    ASSUME NEW b, NEW n \in Nat, Len(b) = n, NEW g, ReadTable(b, g)
    PROVE  ReadAll(b) = g[n]
<1> DEFINE f == CHOOSE f : ReadTable(b, f)
<1>1. ReadAll(b) = f[n]
  BY DEF ReadAll, ReadTable
<1>2. ReadTable(b, f)
  OBVIOUS
<1> HIDE DEF f
<1> DEFINE T == {k \in 0 .. n : f[k] = g[k]}
<1>3. 0 \in T
  <2>1. 0 \in 0 .. n
    OBVIOUS
  <2>2. f[0] = NothingRead /\ g[0] = NothingRead
    BY <1>2, <2>1 DEF ReadTable
  <2> QED BY <2>1, <2>2
<1>4. ASSUME NEW k \in 0 .. n - 1, k \in T PROVE k + 1 \in T
  <2>1. k + 1 \in 0 .. n /\ k + 1 # 0 /\ (k + 1) - 1 = k
    OBVIOUS
  <2>2. f[k + 1] = ReadByte(f[k], b[k + 1]) /\ g[k + 1] = ReadByte(g[k], b[k + 1])
    BY <1>2, <2>1 DEF ReadTable
  <2>3. f[k] = g[k]
    BY <1>4
  <2> QED BY <2>1, <2>2, <2>3
<1>5. n \in T
  <2> HIDE DEF T
  <2>1. \A k \in 0 .. n - 1 : k \in T => k + 1 \in T
    BY <1>4
  <2>2. \A k \in 0 .. n : k \in T
    BY <1>3, <2>1, UpTo
  <2> QED BY <2>2
<1> QED BY <1>1, <1>5

LEMMA ReadComplete == ASSUME NEW b \in Numbers, NEW items, Reads(b, items)
                      PROVE  ReadAll(b).items = items
<1>1. Len(b) \in Nat
  BY DEF Numbers
<1>2. PICK f : ReadTable(b, f) /\ f[Len(b)] = Between(items)
  BY DEF Reads
<1>3. ReadAll(b) = Between(items)
  BY <1>1, <1>2, ReadAllRead
<1> QED BY <1>3 DEF Between

LEMMA ReadsNothing == Reads(<<>>, <<>>)
<1> DEFINE f == [i \in 0 .. 0 |-> NothingRead]
<1>1. f[0] = NothingRead
  OBVIOUS
<1>2. ReadTable(<<>>, f)
  BY DEF ReadTable
<1> QED BY <1>1, <1>2 DEF Reads, Between, NothingRead

\* An item with a header of h bytes: its size is in the first or in the second.
Item(w, h) ==
    /\ w \in Numbers /\ Len(w) >= h
    /\ \/ h = 1 /\ HeaderSize(w[1]) # 2 /\ BodySize(w[1]) = Len(w) - 1
       \/ h = 2 /\ HeaderSize(w[1]) = 2 /\ w[2] = Len(w) - 2 /\ Len(w) > 2
\* What is read once k bytes of it are.
Within(items, w, h, k) ==
    [items |-> items, cur |-> SubSeq(w, 1, k), need |-> IF k < h THEN 0 ELSE Len(w) - k,
     long |-> IF h = 2 /\ k = 1 THEN TRUE ELSE FALSE]

LEMMA PrefixGrows == ASSUME NEW w \in Numbers, NEW k \in 1 .. Len(w)
                     PROVE  Append(SubSeq(w, 1, k - 1), w[k]) = SubSeq(w, 1, k)
<1> DEFINE u == Append(SubSeq(w, 1, k - 1), w[k])
           v == SubSeq(w, 1, k)
<1>1. Len(w) \in Nat /\ \A i \in 1 .. Len(w) : w[i] \in Nat
  BY DEF Numbers
<1> HIDE DEF Numbers
<1>2. SubSeq(w, 1, k - 1) \in Seq(Nat) /\ Len(SubSeq(w, 1, k - 1)) = k - 1
      /\ \A i \in 1 .. k - 1 : SubSeq(w, 1, k - 1)[i] = w[i]
  BY <1>1, SubSeqProperties DEF Numbers
<1>3. v \in Seq(Nat) /\ Len(v) = k /\ \A i \in 1 .. k : v[i] = w[i]
  BY <1>1, SubSeqProperties DEF Numbers
<1>4. u \in Seq(Nat) /\ Len(u) = k /\ u[k] = w[k] /\ \A i \in 1 .. k - 1 : u[i] = w[i]
  <2> DEFINE p == SubSeq(w, 1, k - 1)
  <2>1. p \in Seq(Nat) /\ Len(p) = k - 1 /\ \A i \in 1 .. k - 1 : p[i] = w[i]
    BY <1>2
  <2>2. w[k] \in Nat
    BY <1>1
  <2> HIDE DEF p
  <2> QED BY <2>1, <2>2, AppendProperties DEF u, p
<1> HIDE DEF u, v
<1>5. \A i \in 1 .. k : u[i] = v[i]
  BY <1>3, <1>4
<1>6. u = v
  BY <1>3, <1>4, <1>5, SeqEqual
<1> QED BY <1>6 DEF u, v

LEMMA ItemStarts == ASSUME NEW items, NEW w, NEW h, Item(w, h)
                    PROVE  Within(items, w, h, 0) = Between(items)
<1>1. w \in Seq(Nat) /\ (h = 1 \/ h = 2)
  BY DEF Item, Numbers
<1>2. SubSeq(w, 1, 0) = <<>>
  BY <1>1
<1>3. 0 < h /\ ~(h = 2 /\ 0 = 1)
  BY <1>1
<1>4. /\ (IF 0 < h THEN 0 ELSE Len(w) - 0) = 0
      /\ (IF h = 2 /\ 0 = 1 THEN TRUE ELSE FALSE) = FALSE
  BY <1>3
<1> QED BY <1>2, <1>4, Zenon DEF Within, Between

LEMMA ItemGrows == ASSUME NEW items, NEW w, NEW h, Item(w, h), NEW k \in 1 .. Len(w) - 1
                   PROVE  ReadByte(Within(items, w, h, k - 1), w[k]) = Within(items, w, h, k)
<1> DEFINE acc == Within(items, w, h, k - 1)
           cur == SubSeq(w, 1, k)
           n == Len(w)
<1>1. n \in Nat /\ k \in 1 .. n /\ h \in {1, 2} /\ n >= h /\ w \in Numbers
  BY DEF Item, Numbers
<1>2. Append(acc.cur, w[k]) = cur
  BY <1>1, PrefixGrows DEF Within
<1>3. /\ acc.items = items /\ acc.need = (IF k - 1 < h THEN 0 ELSE n - (k - 1))
      /\ acc.long = IF h = 2 /\ k - 1 = 1 THEN TRUE ELSE FALSE
  BY DEF Within
<1>0. /\ k <= n - 1
      /\ \/ h = 1 /\ HeaderSize(w[1]) # 2 /\ BodySize(w[1]) = n - 1
         \/ h = 2 /\ HeaderSize(w[1]) = 2 /\ w[2] = n - 2 /\ n > 2
  BY DEF Item
<1> HIDE DEF acc, n
<1>4. CASE k = 1 /\ h = 1
  <2>1. acc.need = 0 /\ ~acc.long /\ HeaderSize(w[k]) # 2 /\ BodySize(w[k]) = n - 1 /\ n - 1 # 0
    BY <1>0, <1>1, <1>3, <1>4
  <2>2. ReadByte(acc, w[k]) = [items |-> items, cur |-> cur, need |-> n - 1, long |-> FALSE]
    BY <1>2, <1>3, <2>1 DEF ReadByte
  <2> QED BY <1>4, <2>2 DEF Within, acc, n
<1>5. CASE k = 1 /\ h = 2
  <2>1. acc.need = 0 /\ ~acc.long /\ HeaderSize(w[k]) = 2
    BY <1>0, <1>1, <1>3, <1>5
  <2>2. ReadByte(acc, w[k]) = [items |-> items, cur |-> cur, need |-> 0, long |-> TRUE]
    BY <1>2, <1>3, <2>1 DEF ReadByte
  <2> QED BY <1>5, <2>2 DEF Within, acc, n
<1>6. CASE k = 2 /\ h = 2
  <2>1. acc.need = 0 /\ acc.long /\ w[k] = n - 2 /\ n - 2 # 0
    BY <1>0, <1>1, <1>3, <1>6
  <2>2. ReadByte(acc, w[k]) = [items |-> items, cur |-> cur, need |-> n - 2, long |-> FALSE]
    BY <1>2, <1>3, <2>1 DEF ReadByte
  <2> QED BY <1>6, <2>2 DEF Within, acc, n
<1>7. CASE k > h
  <2>1. acc.need = n - k + 1 /\ acc.need # 0 /\ ~acc.long /\ acc.need - 1 = n - k /\ n - k # 0
    BY <1>1, <1>3, <1>7 DEF n
  <2>2. ReadByte(acc, w[k]) = [items |-> items, cur |-> cur, need |-> n - k, long |-> FALSE]
    BY <1>2, <1>3, <2>1 DEF ReadByte
  <2>3. ~(k < h) /\ ~(h = 2 /\ k = 1)
    BY <1>1, <1>7
  <2> QED BY <2>2, <2>3 DEF Within, acc, n
<1> QED BY <1>1, <1>4, <1>5, <1>6, <1>7

LEMMA ItemEnds == ASSUME NEW items, NEW w, NEW h, Item(w, h)
                  PROVE  ReadByte(Within(items, w, h, Len(w) - 1), w[Len(w)]) = Between(Append(items, w))
<1> DEFINE n == Len(w)
           acc == Within(items, w, h, n - 1)
<1>1. n \in Nat /\ n \in 1 .. n /\ h \in {1, 2} /\ n >= h /\ w \in Numbers
  BY DEF Item, Numbers
<1>2. Append(acc.cur, w[n]) = w
  <2>1. Append(acc.cur, w[n]) = SubSeq(w, 1, n)
    BY <1>1, PrefixGrows DEF Within
  <2>2. SubSeq(w, 1, n) = w
    BY <1>1 DEF Numbers
  <2> QED BY <2>1, <2>2
<1>3. /\ acc.items = items /\ acc.need = (IF n - 1 < h THEN 0 ELSE n - (n - 1))
      /\ acc.long = IF h = 2 /\ n - 1 = 1 THEN TRUE ELSE FALSE
  BY DEF Within
<1>0. \/ h = 1 /\ HeaderSize(w[1]) # 2 /\ BodySize(w[1]) = n - 1
      \/ h = 2 /\ HeaderSize(w[1]) = 2 /\ w[2] = n - 2 /\ n > 2
  BY DEF Item
<1> HIDE DEF acc, n
<1>4. CASE n = 1
  <2>1. acc.need = 0 /\ ~acc.long /\ HeaderSize(w[n]) # 2 /\ BodySize(w[n]) = 0
    BY <1>0, <1>1, <1>3, <1>4
  <2>2. ReadByte(acc, w[n]) = Between(Append(items, w))
    BY <1>2, <1>3, <2>1 DEF ReadByte, Between
  <2> QED BY <2>2 DEF acc, n
<1>5. CASE n # 1
  <2>1. acc.need = 1 /\ ~acc.long
    BY <1>0, <1>1, <1>3, <1>5
  <2>2. ReadByte(acc, w[n]) = Between(Append(items, w))
    BY <1>2, <1>3, <2>1 DEF ReadByte, Between
  <2> QED BY <2>2 DEF acc, n
<1> QED BY <1>4, <1>5

LEMMA ReadsItem ==
    ASSUME NEW b \in Numbers, NEW items, Reads(b, items), NEW w, NEW h, Item(w, h)
    PROVE  b \o w \in Numbers /\ Reads(b \o w, Append(items, w))
<1> DEFINE n == Len(b)
           l == Len(w)
           c == b \o w
<1>1. PICK f : ReadTable(b, f) /\ f[n] = Between(items)
  BY DEF Reads
<1>2. n \in Nat /\ l \in Nat /\ l >= 1 /\ w \in Seq(Nat) /\ b \in Seq(Nat)
  BY DEF Item, Numbers
<1>3. /\ c \in Seq(Nat) /\ Len(c) = n + l
      /\ \A i \in 1 .. n : c[i] = b[i]
      /\ \A i \in 1 .. l : c[n + i] = w[i]
  BY <1>2
<1>4. /\ f[0] = NothingRead
      /\ \A i \in 1 .. n : f[i] = ReadByte(f[i - 1], b[i])
  <2>1. 0 \in 0 .. n /\ \A i \in 1 .. n : i \in 0 .. n /\ i # 0
    BY <1>2
  <2>2. f = [i \in 0 .. n |-> IF i = 0 THEN NothingRead ELSE ReadByte(f[i - 1], b[i])]
    BY <1>1 DEF ReadTable
  <2> HIDE DEF n
  <2> QED BY <2>1, <2>2
<1> DEFINE g == [i \in 0 .. n + l |->
                    IF i <= n THEN f[i]
                    ELSE IF i = n + l THEN Between(Append(items, w))
                    ELSE Within(items, w, h, i - n)]
<1>5. /\ \A i \in 0 .. n : g[i] = f[i]
      /\ g[n + l] = Between(Append(items, w))
      /\ \A k \in 1 .. l - 1 : g[n + k] = Within(items, w, h, k)
  <2>1. \A i \in 0 .. n : i \in 0 .. n + l /\ i <= n
    BY <1>2
  <2>2. n + l \in 0 .. n + l /\ ~(n + l <= n)
    BY <1>2
  <2>3. \A k \in 1 .. l - 1 : n + k \in 0 .. n + l /\ ~(n + k <= n) /\ n + k # n + l /\ (n + k) - n = k
    BY <1>2
  <2> HIDE DEF n, l
  <2> QED BY <2>1, <2>2, <2>3
<1>6. g = [i \in 0 .. n + l |-> g[i]]
  OBVIOUS
<1> HIDE DEF g, n, l, c
<1>7. g[n] = Within(items, w, h, 0)
  BY <1>1, <1>2, <1>5, ItemStarts
<1>8. ASSUME NEW i \in 0 .. n + l
      PROVE  g[i] = IF i = 0 THEN NothingRead ELSE ReadByte(g[i - 1], c[i])
  <2>1. CASE i = 0
    BY <2>1, <1>2, <1>4, <1>5
  <2>2. CASE i \in 1 .. n
    <3>1. i - 1 \in 0 .. n /\ i \in 0 .. n /\ i # 0
      BY <1>2, <2>2
    <3>2. g[i] = f[i] /\ g[i - 1] = f[i - 1] /\ c[i] = b[i]
      BY <3>1, <1>3, <1>5, <2>2
    <3> QED BY <3>1, <3>2, <1>4, <2>2
  <2>3. CASE i > n
    <3>1. PICK k \in 1 .. l : i = n + k /\ i # 0
      <4>1. i - n \in 1 .. l /\ i = n + (i - n) /\ i # 0
        BY <1>2, <2>3
      <4> QED BY <4>1
    <3>2. c[i] = w[k]
      BY <1>3, <3>1
    <3>3. g[i - 1] = Within(items, w, h, k - 1)
      <4>1. CASE k = 1
        <5>1. i - 1 = n /\ k - 1 = 0
          BY <1>2, <3>1, <4>1
        <5> QED BY <1>7, <5>1
      <4>2. CASE k # 1
        <5>1. k - 1 \in 1 .. l - 1 /\ i - 1 = n + (k - 1)
          BY <1>2, <3>1, <4>2
        <5> QED BY <1>5, <5>1
      <4> QED BY <4>1, <4>2
    <3>4. CASE k = l
      <4>1. ReadByte(Within(items, w, h, l - 1), w[l]) = Between(Append(items, w))
        BY ItemEnds DEF l
      <4> QED BY <1>5, <3>1, <3>2, <3>3, <3>4, <4>1
    <3>5. CASE k # l
      <4>1. k \in 1 .. l - 1
        BY <1>2, <3>5
      <4>2. ReadByte(Within(items, w, h, k - 1), w[k]) = Within(items, w, h, k)
        BY <4>1, ItemGrows DEF l
      <4> QED BY <1>5, <3>1, <3>2, <3>3, <4>1, <4>2
    <3> QED BY <3>4, <3>5
  <2> QED BY <2>1, <2>2, <2>3, <1>2
<1>9. ReadTable(c, g)
  BY <1>3, <1>6, <1>8 DEF ReadTable
<1> QED BY <1>3, <1>5, <1>9 DEF Reads, c, Numbers

\* A value behind its header: one item, which holds the value.
LEMMA ShortHeader == ASSUME NEW n \in Nat, n < 56
                     PROVE  LET x == 128 + n
                            IN  x \in Nat /\ HeaderSize(x) = 1 /\ BodySize(x) = n /\ x < 192
BY DEF HeaderSize, BodySize

LEMMA OneByte == ASSUME NEW x \in Nat, x < 128
                 PROVE  HeaderSize(x) = 0 /\ BodySize(x) = 0
BY DEF HeaderSize, BodySize

LEMMA LongHeader == HeaderSize(184) = 2
BY DEF HeaderSize

HoldsValue(w, v) == ~IsList(w) /\ w # <<>> /\ PayloadOf(w) = v /\ (IsEmpty(w) <=> v = <<>>)

LEMMA ValueIsItem == ASSUME NEW v \in Numbers
                     PROVE  \E h : Item(RlpValue(v), h) /\ HoldsValue(RlpValue(v), v)
<1> DEFINE n == Len(v)
<1>1. n \in Nat /\ v \in Seq(Nat) /\ \A i \in 1 .. n : v[i] \in Nat
  BY DEF Numbers
<1>2. CASE n = 1 /\ v[1] < 128
  <2>1. RlpValue(v) = v /\ v[1] \in Nat
    BY <1>1, <1>2 DEF RlpValue
  <2>2. HeaderSize(v[1]) = 0 /\ BodySize(v[1]) = 0
    BY <1>2, <2>1, OneByte
  <2>3. Item(v, 1)
    BY <1>1, <1>2, <2>2 DEF Item, Numbers
  <2>4. SubSeq(v, 1, n) = v /\ v # <<>> /\ ~(v[1] >= 192)
    <3>1. SubSeq(v, 1, n) = v
      BY <1>1
    <3>2. v # <<>>
      BY <1>2
    <3>3. ~(v[1] >= 192)
      BY <1>2, <2>1
    <3> QED BY <3>1, <3>2, <3>3
  <2>5. v # <<128>> /\ v # <<192>>
    BY <1>2
  <2>6. HoldsValue(v, v)
    BY <2>2, <2>4, <2>5 DEF HoldsValue, IsList, PayloadOf, IsEmpty
  <2> QED BY <2>1, <2>3, <2>6
<1>3. CASE ~(n = 1 /\ v[1] < 128) /\ n < 56
  <2>1. PICK x \in Nat : x = 128 + n /\ HeaderSize(x) = 1 /\ BodySize(x) = n /\ ~(x >= 192)
    BY <1>1, <1>3, ShortHeader
  <2> DEFINE u == <<x>>
             w == u \o v
  <2>2. RlpValue(v) = w
    BY <1>3, <2>1 DEF RlpValue, Header
  <2>3. u \in Seq(Nat) /\ Len(u) = 1 /\ u[1] = x
    OBVIOUS
  <2> HIDE DEF u
  <2>4. w \in Seq(Nat) /\ JoinedLen(u, v, w) /\ SamePrefix(u, w) /\ After(u, w) = v
    BY <1>1, <2>3, SuffixOf
  <2> HIDE DEF w
  <2>5. Len(w) = n + 1 /\ w[1] = x /\ SubSeq(w, 2, Len(w)) = v
    BY <1>1, <2>3, <2>4 DEF JoinedLen, SamePrefix, After
  <2>6. Item(w, 1)
    BY <1>1, <2>1, <2>4, <2>5 DEF Item, Numbers
  <2>7. w # <<>>
    BY <1>1, <2>5
  <2>8. IsEmpty(w) <=> v = <<>>
    <3>1. CASE n = 0
      <4>1. v = <<>> /\ w[1] = 128 /\ Len(w) = 1
        BY <1>1, <2>1, <2>5, <3>1
      <4>2. w = <<128>>
        BY <2>4, <4>1
      <4> QED BY <4>1, <4>2 DEF IsEmpty
    <3>2. CASE n # 0
      <4>1. v # <<>> /\ Len(w) # 1
        BY <1>1, <2>5, <3>2
      <4>2. Len(<<128>>) = 1 /\ Len(<<192>>) = 1
        OBVIOUS
      <4> QED BY <4>1, <4>2 DEF IsEmpty
    <3> QED BY <3>1, <3>2
  <2>9. HoldsValue(w, v)
    BY <2>1, <2>5, <2>7, <2>8 DEF HoldsValue, IsList, PayloadOf
  <2> QED BY <2>2, <2>6, <2>9
<1>4. CASE ~(n = 1 /\ v[1] < 128) /\ ~(n < 56)
  <2>1. PICK x \in Nat : x = 184 /\ HeaderSize(x) = 2 /\ ~(x >= 192)
    BY LongHeader
  <2> DEFINE u == <<x, n>>
             w == u \o v
  <2>2. RlpValue(v) = w
    <3>1. 128 + 56 = x
      BY <2>1
    <3> QED BY <1>4, <3>1 DEF RlpValue, Header
  <2>3. u \in Seq(Nat) /\ Len(u) = 2 /\ u[1] = x /\ u[2] = n
    BY <1>1
  <2> HIDE DEF u
  <2>4. w \in Seq(Nat) /\ JoinedLen(u, v, w) /\ SamePrefix(u, w) /\ After(u, w) = v
    BY <1>1, <2>3, SuffixOf
  <2> HIDE DEF w
  <2>5. Len(w) = n + 2 /\ w[1] = x /\ w[2] = n /\ SubSeq(w, 3, Len(w)) = v
    BY <1>1, <2>3, <2>4 DEF JoinedLen, SamePrefix, After
  <2>6. n >= 56
    BY <1>1, <1>4
  <2>7. Item(w, 2)
    BY <1>1, <2>1, <2>4, <2>5, <2>6 DEF Item, Numbers
  <2>8. w # <<>> /\ ~IsEmpty(w) /\ v # <<>>
    <3>1. v # <<>> /\ Len(w) # 1 /\ Len(w) # 0
      BY <1>1, <2>5, <2>6
    <3>2. Len(<<128>>) = 1 /\ Len(<<192>>) = 1 /\ Len(<<>>) = 0
      OBVIOUS
    <3> QED BY <3>1, <3>2 DEF IsEmpty
  <2>9. HoldsValue(w, v)
    BY <2>1, <2>5, <2>8 DEF HoldsValue, IsList, PayloadOf
  <2> QED BY <2>2, <2>7, <2>9
<1> QED BY <1>2, <1>3, <1>4

LEMMA ListHeader == ASSUME NEW n \in Nat, n < 56
                    PROVE  LET x == 192 + n
                           IN  x \in Nat /\ HeaderSize(x) = 1 /\ BodySize(x) = n /\ x >= 192
BY DEF HeaderSize, BodySize

LEMMA EndOfList == ASSUME NEW w, NEW h \in Nat, NEW m \in Nat, HeaderSize(w[1]) = h,
                          (h = 1 /\ BodySize(w[1]) = m) \/ (h = 2 /\ w[2] = m)
                   PROVE  ListEnd(w) = h + m
BY DEF ListEnd

LEMMA PayloadOfList == ASSUME NEW b \in Numbers
                       PROVE  LET raw == Header(192, Len(b)) \o b
                              IN  IsList(raw) /\ WholeList(raw) /\ ListPayload(raw) = b
<1> DEFINE n == Len(b)
<1>1. n \in Nat /\ b \in Seq(Nat)
  BY DEF Numbers
<1> DEFINE u == Header(192, n)
<1>2. /\ u \in Seq(Nat) /\ Len(u) >= 1 /\ u[1] >= 192 /\ HeaderSize(u[1]) = Len(u)
      /\ \/ Len(u) = 1 /\ BodySize(u[1]) = n
         \/ Len(u) = 2 /\ u[2] = n
  <2>1. CASE n < 56
    <3>1. PICK x \in Nat : x = 192 + n /\ HeaderSize(x) = 1 /\ BodySize(x) = n /\ x >= 192
      <4> HIDE DEF n
      <4> QED BY <1>1, <2>1, ListHeader
    <3>2. Header(192, n) = <<x>>
      BY <2>1, <3>1 DEF Header
    <3> DEFINE t == <<x>>
    <3>3. t \in Seq(Nat) /\ Len(t) = 1 /\ t[1] = x
      OBVIOUS
    <3>4. u = t
      BY <3>2
    <3> HIDE DEF t, u, n
    <3>5. u \in Seq(Nat) /\ Len(u) = 1 /\ u[1] = x
      BY <3>3, <3>4
    <3>6. HeaderSize(u[1]) = Len(u) /\ BodySize(u[1]) = n
      BY <3>1, <3>5
    <3>7. u[1] >= 192
      BY <3>1, <3>5
    <3> QED BY <3>5, <3>6, <3>7
  <2>2. CASE ~(n < 56)
    <3>1. PICK x \in Nat : x = 192 + 56 /\ HeaderSize(x) = 2 /\ x >= 192
      BY DEF HeaderSize
    <3>2. Header(192, n) = <<x, n>>
      BY <2>2, <3>1 DEF Header
    <3> DEFINE t == <<x, n>>
    <3>3. t \in Seq(Nat) /\ Len(t) = 2 /\ t[1] = x /\ t[2] = n
      BY <1>1
    <3>4. u = t
      BY <3>2
    <3> HIDE DEF t, u
    <3>5. u \in Seq(Nat) /\ Len(u) = 2 /\ u[1] = x /\ u[2] = n
      BY <3>3, <3>4
    <3>6. HeaderSize(u[1]) = Len(u)
      BY <3>1, <3>5
    <3>7. u[1] >= 192
      BY <3>1, <3>5
    <3> QED BY <3>5, <3>6, <3>7
  <2> QED BY <2>1, <2>2
<1> HIDE DEF u
<1> DEFINE w == u \o b
<1>3. w \in Seq(Nat) /\ JoinedLen(u, b, w) /\ SamePrefix(u, w) /\ After(u, w) = b
  BY <1>1, <1>2, SuffixOf
<1> HIDE DEF w
<1>4. Len(w) = Len(u) + n /\ w[1] = u[1] /\ SubSeq(w, Len(u) + 1, Len(w)) = b
  BY <1>1, <1>2, <1>3 DEF JoinedLen, SamePrefix, After
<1>5. w # <<>> /\ (Len(u) = 2 => w[2] = u[2])
  BY <1>1, <1>2, <1>3, <1>4 DEF SamePrefix
<1>6. HeaderSize(w[1]) = Len(u) /\ Len(u) \in Nat
  BY <1>2, <1>4
<1>7. (Len(u) = 1 /\ BodySize(w[1]) = n) \/ (Len(u) = 2 /\ w[2] = n)
  BY <1>2, <1>4, <1>5
<1>8. ListEnd(w) = Len(w)
  <2>1. ListEnd(w) = Len(u) + n
    BY <1>1, <1>6, <1>7, EndOfList
  <2> QED BY <1>4, <2>1
<1>9. Len(w) \in Nat /\ Len(w) >= Len(u)
  BY <1>1, <1>2, <1>4
<1>10. WholeList(w)
  BY <1>6, <1>8, <1>9 DEF WholeList
<1>11. IsList(w)
  BY <1>2, <1>4, <1>5 DEF IsList
<1>12. ListPayload(w) = b
  BY <1>4, <1>6, <1>8 DEF ListPayload
<1> QED BY <1>10, <1>11, <1>12 DEF u, w

Appended(s, e, t) == Len(t) = Len(s) + 1 /\ t[Len(s) + 1] = e /\ SamePrefix(s, t)

LEMMA AppendOne == ASSUME NEW S, NEW s \in Seq(S), NEW e \in S
                   PROVE  Append(s, e) \in Seq(S) /\ Appended(s, e, Append(s, e))
BY AppendProperties DEF Appended, SamePrefix

\* The raw items of a list of six values.
Six(v1, v2, v3, v4, v5, v6) ==
    <<RlpValue(v1), RlpValue(v2), RlpValue(v3), RlpValue(v4), RlpValue(v5), RlpValue(v6)>>

LEMMA ReadsValue ==
    ASSUME NEW b \in Numbers, NEW items, Reads(b, items), NEW v \in Numbers
    PROVE  b \o RlpValue(v) \in Numbers /\ Reads(b \o RlpValue(v), Append(items, RlpValue(v)))
BY ValueIsItem, ReadsItem

LEMMA SixRead ==
    ASSUME NEW v1 \in Numbers, NEW v2 \in Numbers, NEW v3 \in Numbers,
           NEW v4 \in Numbers, NEW v5 \in Numbers, NEW v6 \in Numbers
    PROVE  LET items == Six(v1, v2, v3, v4, v5, v6)
           IN  ListOf(RlpList(items), {6}) = Ok(items)
<1> DEFINE w1 == RlpValue(v1)
           w2 == RlpValue(v2)
           w3 == RlpValue(v3)
           w4 == RlpValue(v4)
           w5 == RlpValue(v5)
           w6 == RlpValue(v6)
           items == <<w1, w2, w3, w4, w5, w6>>
           b1 == <<>> \o w1
           b2 == b1 \o w2
           b3 == b2 \o w3
           b4 == b3 \o w4
           b5 == b4 \o w5
           b6 == b5 \o w6
           i1 == Append(<<>>, w1)
           i2 == Append(i1, w2)
           i3 == Append(i2, w3)
           i4 == Append(i3, w4)
           i5 == Append(i4, w5)
           i6 == Append(i5, w6)
<1>1. b1 \in Numbers /\ Reads(b1, i1)
  <2>1. <<>> \in Numbers
    BY DEF Numbers
  <2> QED BY <2>1, ReadsNothing, ReadsValue
<1>2. b2 \in Numbers /\ Reads(b2, i2)
  <2> HIDE DEF b1, i1
  <2> QED BY <1>1, ReadsValue
<1>3. b3 \in Numbers /\ Reads(b3, i3)
  <2> HIDE DEF b2, i2
  <2> QED BY <1>2, ReadsValue
<1>4. b4 \in Numbers /\ Reads(b4, i4)
  <2> HIDE DEF b3, i3
  <2> QED BY <1>3, ReadsValue
<1>5. b5 \in Numbers /\ Reads(b5, i5)
  <2> HIDE DEF b4, i4
  <2> QED BY <1>4, ReadsValue
<1>6. b6 \in Numbers /\ Reads(b6, i6)
  <2> HIDE DEF b5, i5
  <2> QED BY <1>5, ReadsValue
<1>7. w1 \in Numbers
  <2>1. \E h : Item(w1, h)
    BY ValueIsItem
  <2> QED BY <2>1 DEF Item
<1> HIDE DEF w1, w2, w3, w4, w5, w6
<1>8. i6 = items
  <2> DEFINE S == {w1, w2, w3, w4, w5, w6}
  <2>1. i1 \in Seq(S) /\ Len(i1) = 1 /\ i1[1] = w1
    OBVIOUS
  <2>2. i2 \in Seq(S) /\ Len(i2) = 2 /\ i2[1] = w1 /\ i2[2] = w2
    <3>1. w2 \in S
      OBVIOUS
    <3> HIDE DEF i1, S
    <3>2. i2 \in Seq(S) /\ Appended(i1, w2, i2)
      BY <2>1, <3>1, AppendOne
    <3> HIDE DEF i2
    <3> QED BY <2>1, <3>2 DEF Appended, SamePrefix
  <2>3. i3 \in Seq(S) /\ Len(i3) = 3 /\ i3[1] = w1 /\ i3[2] = w2 /\ i3[3] = w3
    <3>1. w3 \in S
      OBVIOUS
    <3> HIDE DEF i2, S
    <3>2. i3 \in Seq(S) /\ Appended(i2, w3, i3)
      BY <2>2, <3>1, AppendOne
    <3> HIDE DEF i3
    <3> QED BY <2>2, <3>2 DEF Appended, SamePrefix
  <2>4. i4 \in Seq(S) /\ Len(i4) = 4 /\ i4[1] = w1 /\ i4[2] = w2 /\ i4[3] = w3 /\ i4[4] = w4
    <3>1. w4 \in S
      OBVIOUS
    <3> HIDE DEF i3, S
    <3>2. i4 \in Seq(S) /\ Appended(i3, w4, i4)
      BY <2>3, <3>1, AppendOne
    <3> HIDE DEF i4
    <3> QED BY <2>3, <3>2 DEF Appended, SamePrefix
  <2>5. i5 \in Seq(S) /\ Len(i5) = 5 /\ i5[1] = w1 /\ i5[2] = w2 /\ i5[3] = w3 /\ i5[4] = w4 /\ i5[5] = w5
    <3>1. w5 \in S
      OBVIOUS
    <3> HIDE DEF i4, S
    <3>2. i5 \in Seq(S) /\ Appended(i4, w5, i5)
      BY <2>4, <3>1, AppendOne
    <3> HIDE DEF i5
    <3> QED BY <2>4, <3>2 DEF Appended, SamePrefix
  <2>6. i6 \in Seq(S) /\ Len(i6) = 6 /\ i6[1] = w1 /\ i6[2] = w2 /\ i6[3] = w3 /\ i6[4] = w4 /\ i6[5] = w5 /\ i6[6] = w6
    <3>1. w6 \in S
      OBVIOUS
    <3> HIDE DEF i5, S
    <3>2. i6 \in Seq(S) /\ Appended(i5, w6, i6)
      BY <2>5, <3>1, AppendOne
    <3> HIDE DEF i6
    <3> QED BY <2>5, <3>2 DEF Appended, SamePrefix
  <2> HIDE DEF i6
  <2> QED BY <2>6
<1>9. b1 = w1
  BY <1>7 DEF Numbers
<1>10. FlattenSeq(items) = b6
  <2> DEFINE g == <<b1, b2, b3, b4, b5, b6>>
  <2>1. /\ g[1] = items[1] /\ g[2] = g[1] \o items[2] /\ g[3] = g[2] \o items[3]
        /\ g[4] = g[3] \o items[4] /\ g[5] = g[4] \o items[5] /\ g[6] = g[5] \o items[6]
    <3> HIDE DEF b1
    <3> QED BY <1>9
  <2>2. Len(items) = 6 /\ g = [i \in 1 .. 6 |-> g[i]] /\ g[6] = b6
    OBVIOUS
  <2> HIDE DEF g, items
  <2>3. \A i \in 1 .. 6 : g[i] = IF i = 1 THEN items[i] ELSE g[i - 1] \o items[i]
    <3> SUFFICES ASSUME NEW i \in 1 .. 6
                 PROVE  g[i] = IF i = 1 THEN items[i] ELSE g[i - 1] \o items[i]
      OBVIOUS
    <3>1. i = 1 \/ (i = 2 /\ i - 1 = 1) \/ (i = 3 /\ i - 1 = 2) \/ (i = 4 /\ i - 1 = 3)
          \/ (i = 5 /\ i - 1 = 4) \/ (i = 6 /\ i - 1 = 5)
      OBVIOUS
    <3>2. i = 2 \/ i = 3 \/ i = 4 \/ i = 5 \/ i = 6 => i # 1
      OBVIOUS
    <3> QED BY <2>1, <3>1, <3>2
  <2>4. Unfolds(items, g)
    BY <2>2, <2>3 DEF Unfolds
  <2>5. 6 \in Nat /\ 6 # 0
    OBVIOUS
  <2>6. FlattenSeq(items) = g[6]
    BY <2>2, <2>4, <2>5, FlattenRead
  <2> QED BY <2>2, <2>6
<1> HIDE DEF b6, i6
<1>11. RlpList(items) = Header(192, Len(b6)) \o b6
  BY <1>10 DEF RlpList
<1>12. Len(items) = 6
  OBVIOUS
<1> HIDE DEF items
<1>13. IsList(RlpList(items)) /\ WholeList(RlpList(items)) /\ ListPayload(RlpList(items)) = b6
  BY <1>6, <1>11, PayloadOfList
<1>14. Items(RlpList(items)) = Ok(items)
  BY <1>6, <1>8, <1>13, ReadComplete DEF Items
<1>15. ListOf(RlpList(items), {6}) = Ok(items)
  BY <1>12, <1>14, OkIs DEF ListOf
<1> QED BY <1>15 DEF items, w1, w2, w3, w4, w5, w6, Six

-----------------------------------------------------------------------------
(* Quantities and their bytes.                                             *)

\* The number that the first k of at most four bytes are, the first one first.
Horner(b, k) ==
    IF k = 0 THEN 0
    ELSE IF k = 1 THEN b[1]
    ELSE IF k = 2 THEN b[1] * 256 + b[2]
    ELSE IF k = 3 THEN (b[1] * 256 + b[2]) * 256 + b[3]
    ELSE ((b[1] * 256 + b[2]) * 256 + b[3]) * 256 + b[4]

LEMMA FromBeShort == ASSUME NEW b, NEW w \in 1 .. 4, Len(b) = w, \A i \in 1 .. w : b[i] \in Nat
                     PROVE  FromBe(b) = Horner(b, w)
<1> DEFINE f == CHOOSE f : BeTable(b, f)
           g == [i \in 0 .. w |-> Horner(b, i)]
<1>1. FromBe(b) = f[w]
  BY DEF FromBe, BeTable
<1>2. BeTable(b, g)
  <2>1. \A i \in 0 .. w : g[i] = Horner(b, i)
    OBVIOUS
  <2>2. g = [i \in 0 .. w |-> g[i]]
    OBVIOUS
  <2> HIDE DEF g
  <2>3. ASSUME NEW i \in 0 .. w PROVE g[i] = IF i = 0 THEN 0 ELSE g[i - 1] * 256 + b[i]
    <3>1. CASE i = 0
      BY <2>1, <3>1 DEF Horner
    <3>2. CASE i # 0
      <4>1. i \in 0 .. w /\ i - 1 \in 0 .. w
        BY <3>2
      <4>2. g[i] = Horner(b, i) /\ g[i - 1] = Horner(b, i - 1)
        BY <2>1, <4>1
      <4>3. Horner(b, i) = Horner(b, i - 1) * 256 + b[i]
        <5>1. i = 1 \/ i = 2 \/ i = 3 \/ i = 4
          BY <3>2
        <5>2. b[i] \in Nat
          BY <3>2
        <5>3. CASE i = 1
          BY <5>2, <5>3 DEF Horner
        <5>4. CASE i = 2
          BY <5>4 DEF Horner
        <5>5. CASE i = 3
          BY <5>5 DEF Horner
        <5>6. CASE i = 4
          BY <5>6 DEF Horner
        <5> QED BY <5>1, <5>3, <5>4, <5>5, <5>6
      <4> QED BY <3>2, <4>2, <4>3
    <3> QED BY <3>1, <3>2
  <2> QED BY <2>2, <2>3 DEF BeTable
<1>3. BeTable(b, f)
  <2> HIDE DEF g
  <2> QED BY <1>2
<1> HIDE DEF f, g
<1>4. f[0] = 0 /\ \A i \in 1 .. w : f[i] = f[i - 1] * 256 + b[i]
  <2>1. 0 \in 0 .. w /\ \A i \in 1 .. w : i \in 0 .. w /\ i # 0
    OBVIOUS
  <2>2. f = [i \in 0 .. w |-> IF i = 0 THEN 0 ELSE f[i - 1] * 256 + b[i]]
    BY <1>3 DEF BeTable
  <2> QED BY <2>1, <2>2
<1>5. f[1] = b[1]
  BY <1>4
<1>6. 2 <= w => f[2] = b[1] * 256 + b[2]
  BY <1>4, <1>5
<1>7. 3 <= w => f[3] = (b[1] * 256 + b[2]) * 256 + b[3]
  BY <1>4, <1>6
<1>8. 4 <= w => f[4] = ((b[1] * 256 + b[2]) * 256 + b[3]) * 256 + b[4]
  BY <1>4, <1>7
<1>9. w = 1 \/ w = 2 \/ w = 3 \/ w = 4
  OBVIOUS
<1> QED BY <1>1, <1>5, <1>6, <1>7, <1>8, <1>9 DEF Horner

LEMMA FourPowers == /\ Pow256[0] = 1 /\ Pow256[1] = 256 /\ Pow256[2] = 65536 /\ Pow256[3] = 16777216
                    /\ \A i \in 0 .. 3 : Pow256[i] \in Nat \ {0}
<1>1. 256 ^ 0 = 1 /\ 256 ^ 1 = 256 /\ 256 ^ 2 = 65536 /\ 256 ^ 3 = 16777216
  OBVIOUS
<1> QED BY <1>1 DEF Pow256

\* A number of w bytes, at most three of which are not zero.
FitsIn(n, w) ==
    \/ w = 1 /\ n < 256
    \/ w = 2 /\ n < 65536
    \/ (w = 3 \/ w = 4) /\ n < 16777216

LEMMA LeBytes == ASSUME NEW n \in Nat, NEW w \in 0 .. 4
                 PROVE  LeFixed(n, w) \in Numbers /\ Len(LeFixed(n, w)) = w
<1> DEFINE b == LeFixed(n, w)
<1>1. b = [i \in 1 .. w |-> (n \div Pow256[i - 1]) % 256]
  BY DEF LeFixed
<1>2. \A i \in 1 .. w : (n \div Pow256[i - 1]) % 256 \in Nat
  <2> SUFFICES ASSUME NEW i \in 1 .. w PROVE (n \div Pow256[i - 1]) % 256 \in Nat
    OBVIOUS
  <2>1. i - 1 \in 0 .. 3
    OBVIOUS
  <2>2. PICK p \in Nat \ {0} : p = Pow256[i - 1]
    BY <2>1, FourPowers
  <2>3. n \div p \in Nat
    OBVIOUS
  <2> QED BY <2>2, <2>3
<1> HIDE DEF b
<1>3. b \in Seq(Nat) /\ Len(b) = w
  BY <1>1, <1>2
<1> QED BY <1>3 DEF b, Numbers

LEMMA LeRead == ASSUME NEW n \in Nat, NEW w \in 1 .. 4, FitsIn(n, w)
                PROVE  FromLe(LeFixed(n, w)) = n
<1> DEFINE b == LeFixed(n, w)
           r == Reverse(b)
           d0 == n % 256
           d1 == (n \div 256) % 256
           d2 == (n \div 65536) % 256
           d3 == (n \div 16777216) % 256
<1>1. b \in Numbers /\ Len(b) = w
  <2>1. w \in 0 .. 4
    OBVIOUS
  <2> QED BY <2>1, LeBytes
<1>2. b = [i \in 1 .. w |-> (n \div Pow256[i - 1]) % 256]
  BY DEF LeFixed
<1>3. /\ b[1] = d0 /\ (2 <= w => b[2] = d1) /\ (3 <= w => b[3] = d2) /\ (4 <= w => b[4] = d3)
  <2>1. b[1] = (n \div Pow256[0]) % 256
    BY <1>2
  <2>2. 2 <= w => b[2] = (n \div Pow256[1]) % 256
    BY <1>2
  <2>3. 3 <= w => b[3] = (n \div Pow256[2]) % 256
    BY <1>2
  <2>4. 4 <= w => b[4] = (n \div Pow256[3]) % 256
    BY <1>2
  <2>5. n \div 1 = n
    OBVIOUS
  <2> HIDE DEF b
  <2> QED BY <2>1, <2>2, <2>3, <2>4, <2>5, FourPowers
<1> HIDE DEF b
<1>4. Len(r) = w /\ \A i \in 1 .. w : r[i] = b[w - i + 1]
  BY <1>1 DEF Reverse, Numbers
<1> HIDE DEF r
<1>5. \A i \in 1 .. w : r[i] \in Nat
  <2>1. \A i \in 1 .. w : w - i + 1 \in 1 .. w
    OBVIOUS
  <2>2. \A i \in 1 .. w : b[i] \in Nat
    BY <1>1 DEF Numbers
  <2> QED BY <1>4, <2>1, <2>2
<1>6. FromBe(r) = Horner(r, w)
  BY <1>4, <1>5, FromBeShort
<1>7. d0 \in Nat /\ d1 \in Nat /\ d2 \in Nat
  OBVIOUS
<1>8. CASE w = 1
  <2>1. r[1] = d0 /\ d0 = n
    BY <1>3, <1>4, <1>8 DEF FitsIn
  <2> QED BY <1>6, <1>8, <2>1 DEF Horner, FromLe, r, b
<1>9. CASE w = 2
  <2>1. r[1] = d1 /\ r[2] = d0
    BY <1>3, <1>4, <1>9
  <2>2. d1 * 256 + d0 = n
    BY <1>9 DEF FitsIn
  <2> HIDE DEF d0, d1
  <2>3. Horner(r, w) = n
    BY <1>9, <2>1, <2>2 DEF Horner
  <2> QED BY <1>6, <2>3 DEF FromLe, r, b
<1>10. ASSUME w = 3 \/ w = 4 PROVE (d2 * 256 + d1) * 256 + d0 = n
  <2>1. n < 16777216
    BY <1>10 DEF FitsIn
  <2>2. PICK q \in Nat : q = n \div 256 /\ n = q * 256 + d0
    OBVIOUS
  <2>3. n \div 65536 = q \div 256 /\ q < 65536
    BY <2>1, <2>2
  <2>4. (q \div 256) * 256 + (q % 256) = q /\ (q \div 256) % 256 = q \div 256
    BY <2>3
  <2>5. d2 * 256 + d1 = q
    BY <2>2, <2>3, <2>4
  <2> HIDE DEF d0, d1, d2
  <2> QED BY <2>2, <2>5
<1>11. CASE w = 3
  <2>1. r[1] = d2 /\ r[2] = d1 /\ r[3] = d0
    BY <1>3, <1>4, <1>11
  <2>2. (d2 * 256 + d1) * 256 + d0 = n
    BY <1>10, <1>11
  <2> HIDE DEF d0, d1, d2
  <2>3. Horner(r, w) = n
    BY <1>11, <2>1, <2>2 DEF Horner
  <2> QED BY <1>6, <2>3 DEF FromLe, r, b
<1>12. CASE w = 4
  <2>1. r[1] = d3 /\ r[2] = d2 /\ r[3] = d1 /\ r[4] = d0
    BY <1>3, <1>4, <1>12
  <2>2. (d2 * 256 + d1) * 256 + d0 = n
    BY <1>10, <1>12
  <2>3. d3 = 0
    BY <1>12 DEF FitsIn
  <2> HIDE DEF d0, d1, d2, d3
  <2>4. Horner(r, w) = ((d3 * 256 + d2) * 256 + d1) * 256 + d0
    BY <1>12, <2>1 DEF Horner
  <2>5. d3 * 256 + d2 = d2
    BY <2>3, <1>7
  <2>6. Horner(r, w) = n
    BY <2>2, <2>4, <2>5
  <2> QED BY <1>6, <2>6 DEF FromLe, r, b
<1> QED BY <1>8, <1>9, <1>11, <1>12

LEMMA SmallSets ==
    ASSUME NEW i, NEW j, NEW k, i # j, i # k, j # k
    PROVE  Cardinality({i}) = 1 /\ Cardinality({i, j}) = 2 /\ Cardinality({i, j, k}) = 3
<1>1. IsFiniteSet({i}) /\ Cardinality({i}) = 1
  BY FS_Singleton
<1>2. {i, j} = {i} \cup {j} /\ IsFiniteSet({i, j}) /\ Cardinality({i, j}) = 2
  BY <1>1, FS_AddElement
<1>3. {i, j, k} = {i, j} \cup {k} /\ Cardinality({i, j, k}) = 3
  BY <1>2, FS_AddElement
<1> QED BY <1>1, <1>2, <1>3

\* How many bytes Z.to_bits writes.
Width(n) == IF n = 0 THEN 0 ELSE Words(n) * LongBytes

LEMMA WordsAre ==
    ASSUME NEW n \in Nat, n # 0
    PROVE  /\ Width(n) \in 1 .. 4
           /\ n <= LongMax => Width(n) = LongBytes /\ FitsIn(n, LongBytes)
           /\ n <= WordMax => FitsIn(n, Width(n))
<1> DEFINE W == {i \in 0 .. WordBytes - 1 : i % LongBytes = 0 /\ n >= Pow256[i]}
<1>0. Words(n) = Cardinality(W) /\ Width(n) = Words(n) * LongBytes
  BY DEF Words, Width
<1>1. \/ LongBytes = 1 /\ WordBytes = 2
      \/ LongBytes = 1 /\ WordBytes = 3
      \/ LongBytes = 2 /\ WordBytes = 3
  BY WidthAssumption
<1>3. Cardinality({0}) = 1 /\ Cardinality({0, 1}) = 2 /\ Cardinality({0, 2}) = 2 /\ Cardinality({0, 1, 2}) = 3
  <2>1. PICK i, j, k : i = 0 /\ j = 1 /\ k = 2 /\ i # j /\ i # k /\ j # k /\ k # j
    OBVIOUS
  <2>2. i # j /\ i # k /\ j # k /\ k # j
    BY <2>1
  <2>3. Cardinality({i}) = 1 /\ Cardinality({i, j}) = 2
    BY <2>2, SmallSets, Zenon
  <2>4. Cardinality({i, j, k}) = 3
    BY <2>2, SmallSets, Zenon
  <2>5. Cardinality({i, k}) = 2
    BY <2>2, SmallSets, Zenon
  <2> QED BY <2>1, <2>3, <2>4, <2>5
<1>4. 0 \in W /\ n >= 1
  BY <1>1, FourPowers
<1>5. CASE LongBytes = 1 /\ WordBytes = 2
  <2>1. \A i : i \in W <=> i = 0 \/ (i = 1 /\ n >= 256)
    <3>1. \A i : i \in 0 .. 1 <=> i = 0 \/ i = 1
      OBVIOUS
    <3>2. 0 % 1 = 0 /\ 1 % 1 = 0
      OBVIOUS
    <3> QED BY <1>4, <1>5, <3>1, <3>2, FourPowers
  <2>2. LongMax = 255 /\ WordMax = 65535
    BY <1>5, FourPowers DEF LongMax, WordMax
  <2>3. CASE n < 256
    <3>1. W = {0}
      BY <2>1, <2>3
    <3> HIDE DEF W
    <3>2. Width(n) = 1
      BY <1>0, <1>3, <1>5, <3>1
    <3> QED BY <1>5, <2>3, <3>2 DEF FitsIn
  <2>4. CASE ~(n < 256)
    <3>1. W = {0, 1}
      BY <2>1, <2>4
    <3> HIDE DEF W
    <3>2. Width(n) = 2
      BY <1>0, <1>3, <1>5, <3>1
    <3> QED BY <2>2, <2>4, <3>2 DEF FitsIn
  <2> QED BY <2>3, <2>4
<1>6. CASE LongBytes = 1 /\ WordBytes = 3
  <2>1. \A i : i \in W <=> i = 0 \/ (i = 1 /\ n >= 256) \/ (i = 2 /\ n >= 65536)
    <3>1. \A i : i \in 0 .. 2 <=> i = 0 \/ i = 1 \/ i = 2
      OBVIOUS
    <3>2. 0 % 1 = 0 /\ 1 % 1 = 0 /\ 2 % 1 = 0
      OBVIOUS
    <3> QED BY <1>4, <1>6, <3>1, <3>2, FourPowers
  <2>2. LongMax = 255 /\ WordMax = 16777215
    BY <1>6, FourPowers DEF LongMax, WordMax
  <2>3. CASE n < 256
    <3>1. W = {0}
      BY <2>1, <2>3
    <3> HIDE DEF W
    <3>2. Width(n) = 1
      BY <1>0, <1>3, <1>6, <3>1
    <3> QED BY <1>6, <2>3, <3>2 DEF FitsIn
  <2>4. CASE n >= 256 /\ n < 65536
    <3>1. W = {0, 1}
      BY <2>1, <2>4
    <3> HIDE DEF W
    <3>2. Width(n) = 2
      BY <1>0, <1>3, <1>6, <3>1
    <3> QED BY <2>2, <2>4, <3>2 DEF FitsIn
  <2>5. CASE n >= 65536
    <3>1. W = {0, 1, 2}
      BY <2>1, <2>5
    <3> HIDE DEF W
    <3>2. Width(n) = 3
      BY <1>0, <1>3, <1>6, <3>1
    <3> QED BY <2>2, <2>5, <3>2 DEF FitsIn
  <2> QED BY <2>3, <2>4, <2>5
<1>7. CASE LongBytes = 2 /\ WordBytes = 3
  <2>1. \A i : i \in W <=> i = 0 \/ (i = 2 /\ n >= 65536)
    <3>1. \A i : i \in 0 .. 2 <=> i = 0 \/ i = 1 \/ i = 2
      OBVIOUS
    <3>2. 0 % 2 = 0 /\ 1 % 2 # 0 /\ 2 % 2 = 0
      OBVIOUS
    <3> QED BY <1>4, <1>7, <3>1, <3>2, FourPowers
  <2>2. LongMax = 65535 /\ WordMax = 16777215
    BY <1>7, FourPowers DEF LongMax, WordMax
  <2>3. CASE n < 65536
    <3>1. W = {0}
      BY <2>1, <2>3
    <3> HIDE DEF W
    <3>2. Width(n) = 2
      BY <1>0, <1>3, <1>7, <3>1
    <3> QED BY <1>7, <2>3, <3>2 DEF FitsIn
  <2>4. CASE ~(n < 65536)
    <3>1. W = {0, 2}
      BY <2>1, <2>4
    <3> HIDE DEF W
    <3>2. Width(n) = 4
      BY <1>0, <1>3, <1>7, <3>1
    <3> QED BY <2>2, <2>4, <3>2 DEF FitsIn
  <2> QED BY <2>3, <2>4
<1> QED BY <1>1, <1>5, <1>6, <1>7

-----------------------------------------------------------------------------
(* The fields of a call.                                                   *)

LEMMA BytesOfQuantity == ASSUME NEW n \in Nat
                         PROVE  ToBits(n) \in Numbers /\ (ToBits(n) = <<>> <=> n = 0)
<1>1. ToBits(n) = LeFixed(n, Width(n))
  BY DEF ToBits, Width
<1>2. Width(n) \in 0 .. 4 /\ (Width(n) = 0 <=> n = 0)
  <2>1. CASE n = 0
    BY <2>1 DEF Width
  <2>2. CASE n # 0
    <3>1. Width(n) \in 1 .. 4
      BY <2>2, WordsAre
    <3> QED BY <2>2, <3>1
  <2> QED BY <2>1, <2>2
<1>3. ToBits(n) \in Numbers /\ Len(ToBits(n)) = Width(n)
  BY <1>1, <1>2, LeBytes
<1>4. ToBits(n) = <<>> <=> Len(ToBits(n)) = 0
  BY <1>3 DEF Numbers
<1> QED BY <1>2, <1>3, <1>4

LEMMA LongRead == ASSUME NEW n \in Nat, n \in 1 .. LongMax
                  PROVE  LeLong(ToBits(n)) = n
<1>1. n # 0 /\ n <= LongMax
  OBVIOUS
<1>2. Width(n) = LongBytes /\ FitsIn(n, LongBytes) /\ LongBytes \in 1 .. 4
  BY <1>1, WordsAre
<1>3. ToBits(n) = LeFixed(n, LongBytes)
  BY <1>2 DEF ToBits, Width
<1>4. Len(LeFixed(n, LongBytes)) = LongBytes
  <2>1. LongBytes \in 0 .. 4
    BY <1>2
  <2> QED BY <2>1, LeBytes
<1>5. FromLe(LeFixed(n, LongBytes)) = n
  BY <1>2, LeRead
<1> QED BY <1>3, <1>4, <1>5 DEF LeLong

LEMMA WordRead == ASSUME NEW n \in Nat, n # 0, n <= WordMax
                  PROVE  FromLe(ToBits(n)) = n
<1>1. Width(n) \in 1 .. 4 /\ FitsIn(n, Width(n))
  BY WordsAre
<1>2. ToBits(n) = LeFixed(n, Width(n))
  BY DEF ToBits, Width
<1> QED BY <1>1, <1>2, LeRead

\* What decoder.data() and the optional decoders find in a value.
LEMMA ValueRead ==
    ASSUME NEW v \in Numbers
    PROVE  /\ Data(RlpValue(v)) = Ok(v)
           /\ decode_option_bytes(RlpValue(v)) = Ok(IF v = <<>> THEN Err ELSE Ok(v))
           /\ v # <<>> /\ Len(v) = AddressBytes => decode_option_h160(RlpValue(v)) = Ok(Ok(v))
<1> DEFINE w == RlpValue(v)
<1>1. HoldsValue(w, v)
  BY ValueIsItem
<1> HIDE DEF w
<1>2. Data(w) = Ok(v) /\ (IsEmpty(w) <=> v = <<>>)
  BY <1>1 DEF HoldsValue, Data
<1>3. decode_option_bytes(w) = Ok(IF v = <<>> THEN Err ELSE Ok(v))
  BY <1>2, OkIs DEF decode_option_bytes, Optional, AsBytes
<1>4. v # <<>> /\ Len(v) = AddressBytes => decode_option_h160(w) = Ok(Ok(v))
  BY <1>2, OkIs DEF decode_option_h160, Optional, AsH160, Exactly
<1> QED BY <1>2, <1>3, <1>4 DEF w

LEMMA OptionIs == ASSUME NEW S, NEW o, Option(o, S)
                  PROVE  o = Err \/ \E x \in S : o = Ok(x)
<1>1. o \in Seq(S) /\ (Len(o) = 0 \/ Len(o) = 1)
  <2>1. o \in Seq(S) /\ Len(o) <= 1
    BY DEF Option
  <2>2. PICK k \in Nat : k = Len(o)
    BY <2>1
  <2>3. k <= 1
    BY <2>1, <2>2
  <2>4. k = 0 \/ k = 1
    BY <2>3
  <2> QED BY <2>1, <2>2, <2>4
<1>2. CASE Len(o) = 0
  BY <1>1, <1>2 DEF Err
<1>3. CASE Len(o) = 1
  <2>1. o[1] \in S /\ o = <<o[1]>>
    BY <1>1, <1>3
  <2> QED BY <2>1 DEF Ok
<1> QED BY <1>1, <1>2, <1>3

LEMMA EmptyRead == /\ EmptyData = RlpValue(<<>>) /\ <<>> \in Numbers
                   /\ Data(EmptyData) = Ok(<<>>)
                   /\ decode_option_bytes(EmptyData) = Ok(Err)
                   /\ decode_option_h160(EmptyData) = Ok(Err)
<1>1. EmptyData = RlpValue(<<>>) /\ <<>> \in Numbers
  BY DEF EmptyData, Numbers
<1>2. HoldsValue(EmptyData, <<>>)
  BY <1>1, ValueIsItem
<1>3. IsEmpty(EmptyData)
  BY <1>2 DEF HoldsValue
<1> QED BY <1>1, <1>3, ValueRead DEF decode_option_h160, decode_option_bytes

\* The bytes of a field: a value in any case.
QtyBytes(q) == IF Is(q) THEN ToBits(q[1]) ELSE <<>>
OptBytes(b) == IF Is(b) THEN b[1] ELSE <<>>

LEMMA QuantityField ==
    ASSUME NEW q, Option(q, Nat)
    PROVE  /\ OfQty(q) = RlpValue(QtyBytes(q)) /\ QtyBytes(q) \in Numbers
           /\ \E r : OptionalLong(OfQty(q)) = Ok(r) /\ (InRange(q) => r = q)
<1>1. CASE q = Err
  <2>1. OfQty(q) = EmptyData /\ QtyBytes(q) = <<>>
    BY <1>1, OkIs DEF OfQty, QtyBytes
  <2>2. OptionalLong(OfQty(q)) = Ok(Err)
    BY <2>1, EmptyRead, OkIs DEF OptionalLong
  <2> QED BY <1>1, <2>1, <2>2, EmptyRead
<1>2. ASSUME NEW n \in Nat, q = Ok(n)
      PROVE  /\ OfQty(q) = RlpValue(QtyBytes(q)) /\ QtyBytes(q) \in Numbers
             /\ \E r : OptionalLong(OfQty(q)) = Ok(r) /\ (InRange(q) => r = q)
  <2> DEFINE b == ToBits(n)
  <2>1. b \in Numbers /\ (b = <<>> <=> n = 0)
    BY BytesOfQuantity
  <2>2. OfQty(q) = RlpValue(b) /\ QtyBytes(q) = b
    BY <1>2, OkIs DEF OfQty, QtyBytes
  <2>3. InRange(q) => n \in 1 .. LongMax
    BY <1>2, OkIs DEF InRange
  <2>4. n \in 1 .. LongMax => LeLong(b) = n
    BY LongRead
  <2> HIDE DEF b
  <2>5. decode_option_bytes(OfQty(q)) = Ok(IF b = <<>> THEN Err ELSE Ok(b))
    BY <2>1, <2>2, ValueRead
  <2>6. CASE b = <<>>
    <3>1. OptionalLong(OfQty(q)) = Ok(Err)
      BY <2>5, <2>6, OkIs DEF OptionalLong
    <3>2. ~InRange(q)
      BY <2>1, <2>3, <2>6
    <3> QED BY <2>1, <2>2, <3>1, <3>2
  <2>7. CASE b # <<>>
    <3>1. OptionalLong(OfQty(q)) = Ok(Ok(LeLong(b)))
      BY <2>5, <2>7, OkIs DEF OptionalLong
    <3> QED BY <1>2, <2>1, <2>2, <2>3, <2>4, <3>1
  <2> QED BY <2>6, <2>7
<1> QED BY <1>1, <1>2, OptionIs

LEMMA ValueField ==
    ASSUME NEW q, Option(q, 0 .. WordMax)
    PROVE  /\ OfQty(q) = RlpValue(QtyBytes(q)) /\ QtyBytes(q) \in Numbers
           /\ \E r : OptionalWord(OfQty(q)) = Ok(r) /\ OrElse(r, 0) = OrElse(q, 0)
<1>1. CASE q = Err
  <2>1. OfQty(q) = EmptyData /\ QtyBytes(q) = <<>>
    BY <1>1, OkIs DEF OfQty, QtyBytes
  <2>2. OptionalWord(OfQty(q)) = Ok(Err)
    BY <2>1, EmptyRead, OkIs DEF OptionalWord
  <2> QED BY <1>1, <2>1, <2>2, EmptyRead
<1>2. ASSUME NEW n \in 0 .. WordMax, q = Ok(n)
      PROVE  /\ OfQty(q) = RlpValue(QtyBytes(q)) /\ QtyBytes(q) \in Numbers
             /\ \E r : OptionalWord(OfQty(q)) = Ok(r) /\ OrElse(r, 0) = OrElse(q, 0)
  <2> DEFINE b == ToBits(n)
  <2>0. n \in Nat /\ n <= WordMax
    OBVIOUS
  <2>1. b \in Numbers /\ (b = <<>> <=> n = 0)
    BY <2>0, BytesOfQuantity
  <2>2. OfQty(q) = RlpValue(b) /\ QtyBytes(q) = b /\ OrElse(q, 0) = n
    BY <1>2, OkIs DEF OfQty, QtyBytes, OrElse
  <2>3. n # 0 => FromLe(b) = n
    BY <2>0, WordRead
  <2> HIDE DEF b
  <2>4. decode_option_bytes(OfQty(q)) = Ok(IF b = <<>> THEN Err ELSE Ok(b))
    BY <2>1, <2>2, ValueRead
  <2>5. CASE b = <<>>
    <3>1. OptionalWord(OfQty(q)) = Ok(Err)
      BY <2>4, <2>5, OkIs DEF OptionalWord
    <3>2. OrElse(Err, 0) = 0
      BY OkIs DEF OrElse
    <3> QED BY <2>1, <2>2, <2>5, <3>1, <3>2
  <2>6. CASE b # <<>>
    <3>1. OptionalWord(OfQty(q)) = Ok(Ok(FromLe(b)))
      BY <2>4, <2>6, OkIs DEF OptionalWord
    <3>2. OrElse(Ok(n), 0) = n
      BY OkIs DEF OrElse
    <3> QED BY <2>1, <2>2, <2>3, <2>6, <3>1, <3>2
  <2> QED BY <2>5, <2>6
<1> QED BY <1>1, <1>2, OptionIs

LEMMA ByteNat == \A x \in Byte : x \in Nat
BY DEF Byte

Address == [1 .. AddressBytes -> Byte]

LEMMA AddressField ==
    ASSUME NEW a, Option(a, Address)
    PROVE  /\ OfBytes(a) = RlpValue(OptBytes(a)) /\ OptBytes(a) \in Numbers
           /\ decode_option_h160(OfBytes(a)) = Ok(a)
<1>1. CASE a = Err
  <2>1. OfBytes(a) = EmptyData /\ OptBytes(a) = <<>>
    BY <1>1, OkIs DEF OfBytes, OptBytes
  <2> QED BY <1>1, <2>1, EmptyRead
<1>2. ASSUME NEW v \in Address, a = Ok(v)
      PROVE  /\ OfBytes(a) = RlpValue(OptBytes(a)) /\ OptBytes(a) \in Numbers
             /\ decode_option_h160(OfBytes(a)) = Ok(a)
  <2>1. OfBytes(a) = RlpValue(v) /\ OptBytes(a) = v
    BY <1>2, OkIs DEF OfBytes, OptBytes
  <2>2. v \in Numbers /\ Len(v) = AddressBytes /\ v # <<>>
    <3>1. AddressBytes \in Nat \ {0} /\ \A i \in 1 .. AddressBytes : v[i] \in Nat
      BY WidthAssumption, ByteNat DEF Address
    <3>2. v = [i \in 1 .. AddressBytes |-> v[i]]
      BY DEF Address
    <3>3. v \in Seq(Nat) /\ Len(v) = AddressBytes
      BY <3>1, <3>2
    <3> QED BY <3>1, <3>3 DEF Numbers
  <2> QED BY <1>2, <2>1, <2>2, ValueRead
<1> QED BY <1>1, <1>2, OptionIs

LEMMA DataField ==
    ASSUME NEW d, Option(d, Bytes)
    PROVE  /\ OfBytes(d) = RlpValue(OptBytes(d)) /\ OptBytes(d) \in Numbers
           /\ AsBytes(OfBytes(d)) = Ok(OrElse(d, <<>>))
<1>1. CASE d = Err
  <2>1. OfBytes(d) = EmptyData /\ OptBytes(d) = <<>> /\ OrElse(d, <<>>) = <<>>
    BY <1>1, OkIs DEF OfBytes, OptBytes, OrElse
  <2> QED BY <2>1, EmptyRead DEF AsBytes
<1>2. ASSUME NEW v \in Bytes, d = Ok(v)
      PROVE  /\ OfBytes(d) = RlpValue(OptBytes(d)) /\ OptBytes(d) \in Numbers
             /\ AsBytes(OfBytes(d)) = Ok(OrElse(d, <<>>))
  <2>1. OfBytes(d) = RlpValue(v) /\ OptBytes(d) = v /\ OrElse(d, <<>>) = v
    BY <1>2, OkIs DEF OfBytes, OptBytes, OrElse
  <2>2. v \in Numbers
    BY ByteNat DEF Bytes, Numbers
  <2> QED BY <2>1, <2>2, ValueRead DEF AsBytes
<1> QED BY <1>1, <1>2, OptionIs

LEMMA CallRead == ASSUME NEW call \in Calls
                  PROVE  \E e : Evaluation_decode(CallBytes(call)) = Ok(e) /\ SameCall(e, call)
<1>1. /\ Option(call.from, Address) /\ Option(call.to, Address)
      /\ Option(call.gas, Nat) /\ Option(call.gas_price, Nat) /\ Option(call.value, 0 .. WordMax)
      /\ Option(call.data, Bytes)
  BY CallsAssumption, Zenon DEF Address, Byte, Bytes
<1> DEFINE v1 == OptBytes(call.from)
           v2 == OptBytes(call.to)
           v3 == QtyBytes(call.gas)
           v4 == QtyBytes(call.gas_price)
           v5 == QtyBytes(call.value)
           v6 == OptBytes(call.data)
           l == Six(v1, v2, v3, v4, v5, v6)
<1>2. OfBytes(call.from) = RlpValue(v1) /\ v1 \in Numbers /\ decode_option_h160(RlpValue(v1)) = Ok(call.from)
  BY <1>1, AddressField
<1>3. OfBytes(call.to) = RlpValue(v2) /\ v2 \in Numbers /\ decode_option_h160(RlpValue(v2)) = Ok(call.to)
  BY <1>1, AddressField
<1>4. PICK gas : OfQty(call.gas) = RlpValue(v3) /\ v3 \in Numbers /\ OptionalLong(RlpValue(v3)) = Ok(gas)
                 /\ (InRange(call.gas) => gas = call.gas)
  BY <1>1, QuantityField
<1>5. PICK price : OfQty(call.gas_price) = RlpValue(v4) /\ v4 \in Numbers /\ OptionalLong(RlpValue(v4)) = Ok(price)
                   /\ (InRange(call.gas_price) => price = call.gas_price)
  BY <1>1, QuantityField
<1>6. PICK value : OfQty(call.value) = RlpValue(v5) /\ v5 \in Numbers /\ OptionalWord(RlpValue(v5)) = Ok(value)
                   /\ OrElse(value, 0) = OrElse(call.value, 0)
  BY <1>1, ValueField
<1>7. /\ OfBytes(call.data) = RlpValue(v6) /\ v6 \in Numbers
      /\ AsBytes(RlpValue(v6)) = Ok(OrElse(call.data, <<>>))
  BY <1>1, DataField
<1> HIDE DEF v1, v2, v3, v4, v5, v6
<1>8. CallBytes(call) = RlpList(l)
  BY <1>2, <1>3, <1>4, <1>5, <1>6, <1>7 DEF CallBytes, Six
<1>9. ListOf(RlpList(l), {6}) = Ok(l)
  BY <1>2, <1>3, <1>4, <1>5, <1>6, <1>7, SixRead
<1>10. /\ l[1] = RlpValue(v1) /\ l[2] = RlpValue(v2) /\ l[3] = RlpValue(v3)
       /\ l[4] = RlpValue(v4) /\ l[5] = RlpValue(v5) /\ l[6] = RlpValue(v6)
  BY DEF Six
<1> HIDE DEF l
<1> DEFINE data == OrElse(call.data, <<>>)
           fields == [from |-> Ok(call.from), to |-> Ok(call.to), gas |-> Ok(gas),
                      gas_price |-> Ok(price), value |-> Ok(value), data |-> Ok(data)]
           e == [from |-> call.from, to |-> call.to, gas |-> gas,
                 gas_price |-> price, value |-> value, data |-> data]
<1> HIDE DEF data
<1>11. EvaluationFields(l) = fields
  BY <1>2, <1>3, <1>4, <1>5, <1>6, <1>7, <1>10 DEF EvaluationFields, data
<1>12. Struct(fields) = Ok(e)
  BY OkIs DEF Struct, FieldsOk
<1>13. Evaluation_decode(CallBytes(call)) = Ok(e)
  <2> HIDE DEF fields, e
  <2> QED BY <1>8, <1>9, <1>11, <1>12, OkIs DEF Evaluation_decode
<1>14. SameCall(e, call)
  BY <1>4, <1>5, <1>6 DEF SameCall, data
<1> HIDE DEF e
<1> QED BY <1>13, <1>14

\* What the node asks, and what becomes of its messages.
Sent(payload) ==
    \/ \E sub \in Submissions : payload = <<VALIDATION_TAG>> \o sub.raw
    \/ \E call \in Calls : payload = <<EVALUATION_TAG>> \o CallBytes(call)
RequestOK(r) ==
    \/ r = NoRequest
    \/ /\ r = [payload |-> r.payload, inbox |-> r.inbox]
       /\ Sent(r.payload) /\ Fits(r.payload)
       /\ r.inbox \in Seq(Range(MessagesOf(r.payload)))
ReadIs(payload, read) == read = Err \/ read = Message_decode(payload)
RInv ==
    /\ users = [submissions |-> Submissions, bridged |-> Bridged, calls |-> Calls]
    /\ RequestOK(request) /\ ReadIs(request.payload, answer.read)
    /\ request = NoRequest => answer.read = Err

LEMMA TaggedFits ==
    ASSUME NEW t \in Byte, NEW b \in Bytes, Len(b) < 65535 * MaxChunkSize
    PROVE  Fits(<<t>> \o b)
<1>1. MaxChunkSize \in Nat
  BY RequestsAssumption
<1>2. PICK n \in Nat : n = 65535 * MaxChunkSize
  BY <1>1
<1>3. <<t>> \in Bytes /\ Len(<<t>>) = 1
  BY DEF Bytes
<1>4. <<t>> \o b \in Bytes /\ Len(<<t>> \o b) = 1 + Len(b)
  BY <1>3, ConcatProperties DEF Bytes
<1>5. Len(b) \in Nat
  BY LenProperties DEF Bytes
<1>6. Len(<<t>> \o b) <= n /\ <<t>> \o b # <<>>
  BY <1>2, <1>4, <1>5
<1> QED BY <1>2, <1>4, <1>6 DEF Fits

LEMMA SentFits == ASSUME NEW payload, Sent(payload) PROVE Fits(payload)
<1>1. VALIDATION_TAG \in Byte /\ EVALUATION_TAG \in Byte
  BY DEF VALIDATION_TAG, EVALUATION_TAG, Byte
<1>2. ASSUME NEW sub \in Submissions PROVE sub.raw \in Bytes /\ Len(sub.raw) < 65535 * MaxChunkSize
  BY RequestsAssumption DEF Bytes, Byte
<1>3. ASSUME NEW call \in Calls
      PROVE CallBytes(call) \in Bytes /\ Len(CallBytes(call)) < 65535 * MaxChunkSize
  BY RequestsAssumption DEF Bytes, Byte
<1>4. CASE \E sub \in Submissions : payload = <<VALIDATION_TAG>> \o sub.raw
  <2>1. PICK sub \in Submissions : payload = <<VALIDATION_TAG>> \o sub.raw
    BY <1>4
  <2>2. Fits(<<VALIDATION_TAG>> \o sub.raw)
    BY <1>1, <1>2, TaggedFits
  <2> QED BY <2>1, <2>2
<1>5. CASE \E call \in Calls : payload = <<EVALUATION_TAG>> \o CallBytes(call)
  <2>1. PICK call \in Calls : payload = <<EVALUATION_TAG>> \o CallBytes(call)
    BY <1>5
  <2>2. Fits(<<EVALUATION_TAG>> \o CallBytes(call))
    BY <1>1, <1>3, TaggedFits
  <2> QED BY <2>1, <2>2
<1> QED BY <1>4, <1>5 DEF Sent

LEMMA SentTag ==
    ASSUME NEW t, NEW b \in Bytes
    PROVE  (<<t>> \o b)[1] = t /\ Tail(<<t>> \o b) = b /\ <<t>> \o b # <<>>
<1>1. b = [i \in 1 .. Len(b) |-> b[i]] /\ Len(b) \in Nat
  BY DEF Bytes
<1> DEFINE w == <<t>> \o b
<1>2. Len(w) = 1 + Len(b) /\ w[1] = t /\ \A i \in 1 .. Len(b) : w[i + 1] = b[i]
  BY <1>1 DEF Bytes
<1>3. w \in Seq({t} \cup Byte) /\ w # <<>>
  BY <1>2 DEF Bytes
<1> HIDE DEF w
<1>4. Tail(w) \in Seq({t} \cup Byte) /\ Len(Tail(w)) = Len(b) /\ \A i \in 1 .. Len(b) : Tail(w)[i] = b[i]
  BY <1>1, <1>2, <1>3, HeadTailProperties
<1>5. PICK u \in Seq({t} \cup Byte) : u = Tail(w)
  BY <1>4
<1>6. u = [i \in 1 .. Len(u) |-> u[i]]
  OBVIOUS
<1>7. Tail(w) = b
  BY <1>1, <1>4, <1>5, <1>6
<1> QED BY <1>2, <1>3, <1>7 DEF w

\* A message lost, two that change places: no other message appears.
LEMMA LostKeeps ==
    ASSUME NEW S, NEW s \in Seq(S), NEW i \in DOMAIN s
    PROVE  RemoveAt(s, i) \in Seq(S)
BY DEF RemoveAt

LEMMA SwapKeeps ==
    ASSUME NEW S, NEW s \in Seq(S), NEW i \in 1 .. Len(s) - 1
    PROVE  [s EXCEPT ![i] = s[i + 1], ![i + 1] = s[i]] \in Seq(S)
OBVIOUS

LEMMA DecodedOnce == ASSUME NEW payload, NEW m \in Range(Message_decode(payload))
                     PROVE  Message_decode(payload) = Ok(m)
BY MessageRead, OkIs DEF ReadOK

\* Only a validation reads as a transaction: the one of the bytes sent.
LEMMA ValidationDecoded ==
    ASSUME NEW payload, Sent(payload), NEW m, Message_decode(payload) = Ok(m),
           NEW tx \in Range(m.transaction)
    PROVE  /\ payload[1] = VALIDATION_TAG
           /\ \E sub \in Submissions : Tail(payload) = sub.raw /\ from_bytes(sub.raw) = <<tx>>
<1>1. CASE \E call \in Calls : payload = <<EVALUATION_TAG>> \o CallBytes(call)
  <2>1. PICK call \in Calls : payload = <<EVALUATION_TAG>> \o CallBytes(call)
    BY <1>1
  <2>2. CallBytes(call) \in Bytes
    BY RequestsAssumption DEF Bytes, Byte
  <2>3. payload # <<>> /\ payload[1] = EVALUATION_TAG
    BY <2>1, <2>2, SentTag
  <2>4. PICK e : Message_decode(payload) = EvaluationMessage(e)
    BY <2>3 DEF Message_decode, EVALUATION_TAG, VALIDATION_TAG
  <2>5. m.transaction = Err
    BY <2>4, OkIs DEF EvaluationMessage, Message, Ok, Err
  <2> QED BY <2>5, OkIs
<1>2. CASE \E sub \in Submissions : payload = <<VALIDATION_TAG>> \o sub.raw
  <2>1. PICK sub \in Submissions : payload = <<VALIDATION_TAG>> \o sub.raw
    BY <1>2
  <2>2. sub.raw \in Bytes
    BY RequestsAssumption DEF Bytes, Byte
  <2>3. payload # <<>> /\ payload[1] = VALIDATION_TAG /\ Tail(payload) = sub.raw
    BY <2>1, <2>2, SentTag
  <2> DEFINE decoded == from_bytes(sub.raw)
  <2>4. Message_decode(payload) = ValidationMessage(decoded)
    <3>1. payload[1] # EVALUATION_TAG
      BY <2>3 DEF EVALUATION_TAG, VALIDATION_TAG
    <3> DEFINE read == ValidationMessage(from_bytes(Tail(payload)))
    <3>2. Message_decode(payload) = read
      BY <2>3, <3>1, Zenon DEF Message_decode
    <3> QED BY <2>3, <3>2
  <2>5. OneOrNone(decoded)
    BY OneTransaction
  <2> HIDE DEF decoded
  <2>6. m.transaction = decoded
    BY <2>4 DEF ValidationMessage, Message, Ok, Err
  <2>7. decoded = <<tx>>
    BY <2>5, <2>6, OkIs DEF OneOrNone, Ok
  <2> QED BY <2>1, <2>3, <2>7 DEF decoded
<1> QED BY <1>1, <1>2 DEF Sent

\* Only an evaluation reads as a call: the one the node was asked for.
LEMMA EvaluationDecoded ==
    ASSUME NEW payload, Sent(payload), NEW m, Message_decode(payload) = Ok(m),
           NEW e \in Range(m.evaluation)
    PROVE  /\ payload[1] = EVALUATION_TAG
           /\ \E call \in Calls : Tail(payload) = CallBytes(call) /\ SameCall(e, call)
<1>1. CASE \E call \in Calls : payload = <<EVALUATION_TAG>> \o CallBytes(call)
  <2>1. PICK call \in Calls : payload = <<EVALUATION_TAG>> \o CallBytes(call)
    BY <1>1
  <2>2. CallBytes(call) \in Bytes
    BY RequestsAssumption DEF Bytes, Byte
  <2>3. payload # <<>> /\ payload[1] = EVALUATION_TAG /\ Tail(payload) = CallBytes(call)
    BY <2>1, <2>2, SentTag
  <2>4. PICK f : Evaluation_decode(CallBytes(call)) = Ok(f) /\ SameCall(f, call)
    BY CallRead
  <2>5. Message_decode(payload) = EvaluationMessage(Ok(f))
    <3>1. payload[1] # VALIDATION_TAG
      BY <2>3 DEF EVALUATION_TAG, VALIDATION_TAG
    <3> DEFINE read == EvaluationMessage(Evaluation_decode(Tail(payload)))
    <3>2. Message_decode(payload) = read
      BY <2>3, <3>1, Zenon DEF Message_decode
    <3> QED BY <2>3, <2>4, <3>2
  <2>6. m.evaluation = Ok(f)
    BY <2>5, OkIs DEF EvaluationMessage, Message, Ok
  <2>7. e = f
    BY <2>6, OkIs
  <2> QED BY <2>3, <2>4, <2>7
<1>2. CASE \E sub \in Submissions : payload = <<VALIDATION_TAG>> \o sub.raw
  <2>1. PICK sub \in Submissions : payload = <<VALIDATION_TAG>> \o sub.raw
    BY <1>2
  <2>2. sub.raw \in Bytes
    BY RequestsAssumption DEF Bytes, Byte
  <2>3. payload # <<>> /\ payload[1] = VALIDATION_TAG
    BY <2>1, <2>2, SentTag
  <2>4. PICK tx : Message_decode(payload) = ValidationMessage(tx)
    BY <2>3 DEF Message_decode, EVALUATION_TAG, VALIDATION_TAG
  <2>5. m.evaluation = Err
    BY <2>4, OkIs DEF ValidationMessage, Message, Ok, Err
  <2> QED BY <2>5, OkIs
<1> QED BY <1>1, <1>2 DEF Sent

LEMMA RequestRead == RInv => SimulatesTheRequest
<1> SUFFICES ASSUME RInv PROVE ReadsTheRequest /\ ValidatesTheRequest /\ EvaluatesTheRequest
  BY DEF SimulatesTheRequest
<1>1. CASE answer.read = Err
  BY <1>1, OkIs DEF ReadsTheRequest, ValidatesTheRequest, EvaluatesTheRequest
<1>2. CASE answer.read # Err
  <2>1. answer.read = Message_decode(request.payload) /\ Sent(request.payload)
    BY <1>2 DEF RInv, ReadIs, RequestOK
  <2>2. ReadsTheRequest
    BY <2>1, DecodedOnce DEF ReadsTheRequest
  <2>3. ASSUME NEW m \in Range(answer.read), NEW tx \in Range(m.transaction)
        PROVE  /\ request.payload[1] = VALIDATION_TAG
               /\ \E sub \in users.submissions :
                     Tail(request.payload) = sub.raw /\ from_bytes(sub.raw) = <<tx>>
    <3>1. Message_decode(request.payload) = Ok(m)
      BY <2>2 DEF ReadsTheRequest
    <3>2. users.submissions = Submissions
      BY DEF RInv
    <3> QED BY <2>1, <3>1, <3>2, ValidationDecoded
  <2>4. ASSUME NEW m \in Range(answer.read), NEW e \in Range(m.evaluation)
        PROVE  /\ request.payload[1] = EVALUATION_TAG
               /\ \E call \in users.calls :
                     Tail(request.payload) = CallBytes(call) /\ SameCall(e, call)
    <3>1. Message_decode(request.payload) = Ok(m)
      BY <2>2 DEF ReadsTheRequest
    <3>2. users.calls = Calls
      BY DEF RInv
    <3> QED BY <2>1, <3>1, <3>2, EvaluationDecoded
  <2> QED BY <2>2, <2>3, <2>4 DEF ValidatesTheRequest, EvaluatesTheRequest
<1> QED BY <1>1, <1>2

LEMMA MessagesAre == ASSUME NEW payload, Fits(payload)
                     PROVE  MessagesOf(payload) \in Seq(Range(MessagesOf(payload)))
<1> DEFINE chunks == Cut(payload)
<1>1. PICK c \in Nat : 1 <= c /\ Len(chunks) = c /\ DOMAIN chunks = 1 .. c
  BY CutFits
<1> HIDE DEF chunks
<1>2. MessagesOf(payload) = SplitInMessages(chunks)
  BY DEF MessagesOf, Cut, chunks
<1>3. \E S : SplitInMessages(chunks) \in Seq(S)
  <2>1. CASE c = 1
    <3> DEFINE x == <<255, 1>> \o chunks[1]
    <3>1. SplitInMessages(chunks) = <<x>>
      BY <1>1, <2>1 DEF SplitInMessages
    <3> HIDE DEF x
    <3>2. <<x>> \in Seq({x})
      OBVIOUS
    <3> QED BY <3>1, <3>2
  <2>2. CASE c # 1
    <3> DEFINE x == FirstMessage(c)
               v == [i \in 1 .. c |-> ChunkMessage(chunks, i)]
               S == {x} \cup {ChunkMessage(chunks, i) : i \in 1 .. c}
    <3>1. SplitInMessages(chunks) = <<x>> \o v
      BY <1>1, <2>2 DEF SplitInMessages, ChunkMessages, FirstMessage, ChunkMessage
    <3>2. x \in S /\ \A i \in 1 .. c : ChunkMessage(chunks, i) \in S
      OBVIOUS
    <3> HIDE DEF x, S
    <3>3. <<x>> \in Seq(S) /\ v \in Seq(S)
      BY <3>2
    <3> HIDE DEF v
    <3>4. <<x>> \o v \in Seq(S)
      BY <3>3, ConcatProperties
    <3> QED BY <3>1, <3>4
  <2> QED BY <2>1, <2>2
<1> DEFINE w == SplitInMessages(chunks)
<1>4. PICK S : w \in Seq(S)
  BY <1>3
<1> HIDE DEF w
<1>5. w \in Seq(Range(w))
  BY <1>4 DEF Range
<1> QED BY <1>2, <1>5 DEF w

LEMMA AskKeeps == ASSUME RInv, NEW payload, Sent(payload), Ask(payload)
                  PROVE  RInv'
<1> DEFINE inbox == MessagesOf(payload)
<1>1. request' = [payload |-> payload, inbox |-> inbox] /\ answer' = answer /\ users' = users
  BY DEF Ask, chain
<1>2. answer.read = Err
  BY DEF Ask, RInv
<1>3. Fits(payload)
  BY SentFits
<1>5. inbox \in Seq(Range(inbox))
  BY <1>3, MessagesAre
<1> HIDE DEF inbox
<1>6. RequestOK(request')
  BY <1>1, <1>3, <1>5 DEF RequestOK, inbox
<1> QED BY <1>1, <1>2, <1>6 DEF RInv, ReadIs

LEMMA FaultKeeps ==
    ASSUME RInv, LoseMessage \/ SwapMessages PROVE RInv'
<1>1. request # NoRequest /\ answer' = answer /\ users' = users
  BY DEF LoseMessage, SwapMessages, chain
<1> DEFINE inbox == request.inbox
           S == Range(MessagesOf(request.payload))
<1>2. /\ request = [payload |-> request.payload, inbox |-> inbox]
      /\ Sent(request.payload) /\ Fits(request.payload) /\ inbox \in Seq(S)
  BY <1>1 DEF RInv, RequestOK
<1> HIDE DEF S, inbox
<1>3. PICK new \in Seq(S) : request' = [payload |-> request.payload, inbox |-> new]
  <2>1. CASE LoseMessage
    <3>1. PICK i \in DOMAIN inbox : request' = [request EXCEPT !.inbox = RemoveAt(inbox, i)]
      BY <2>1 DEF LoseMessage, inbox
    <3>2. RemoveAt(inbox, i) \in Seq(S)
      BY <1>2, LostKeeps
    <3> QED BY <1>2, <3>1, <3>2
  <2>2. CASE SwapMessages
    <3>1. PICK i \in 1 .. Len(inbox) - 1 :
             request' = [request EXCEPT !.inbox[i] = inbox[i + 1], !.inbox[i + 1] = inbox[i]]
      BY <2>2 DEF SwapMessages, inbox
    <3> DEFINE new == [inbox EXCEPT ![i] = inbox[i + 1], ![i + 1] = inbox[i]]
    <3>2. new \in Seq(S)
      BY <1>2, SwapKeeps
    <3>3. request' = [request EXCEPT !.inbox = new]
      BY <1>2, <3>1 DEF inbox
    <3> HIDE DEF new
    <3> QED BY <1>2, <3>2, <3>3
  <2> QED BY <2>1, <2>2
<1>4. request'.payload = request.payload /\ request'.inbox = new
  BY <1>3
<1>5. RequestOK(request')
  BY <1>2, <1>3, <1>4 DEF RequestOK, S
<1>6. request' # NoRequest \/ answer.read = Err
  <2>1. request.payload # <<>>
    BY <1>2 DEF Fits
  <2> QED BY <1>4, <2>1 DEF NoRequest
<1> QED BY <1>1, <1>4, <1>5, <1>6 DEF RInv

LEMMA SimulationKeeps == ASSUME RInv, start_simulation_mode PROVE RInv'
<1>1. /\ request # NoRequest /\ request' = request /\ users' = users
      /\ answer'.read = parse_inbox(request.inbox)
  BY DEF start_simulation_mode, Answered, chain
<1>2. Fits(request.payload) /\ request.inbox \in Seq(Range(MessagesOf(request.payload)))
  BY <1>1 DEF RInv, RequestOK
<1>3. ReadIs(request.payload, answer'.read)
  BY <1>1, <1>2, ReadWhole DEF ReadIs
<1> QED BY <1>1, <1>3 DEF RInv

LEMMA KernelLeaves == ASSUME KernelStep PROVE users' = users /\ request' = request /\ answer' = answer
BY DEF KernelStep, DelayDeposit, DelayTransaction, Delay, ProduceBlueprint, ReceiveChunk, ReadBlueprint,
       ApplyDeposit, ApplyEthereum, Reboot, finalize_and_store, node

\* However the messages of a request are cut, lost or reordered, the kernel
\* reads the whole request or nothing: a transaction it validates is the one of
\* the bytes a user submitted, a call it evaluates has the fields of the call
\* asked for (SimulatesTheRequest: Input::parse, read_chunks, parse_inbox and
\* Evaluation::from_bytes of simulation.rs against split_in_messages and
\* rlp_encode of the node).
THEOREM RequestsAreSimulated == Spec => []SimulatesTheRequest
<1>1. Init => RInv
  <2> SUFFICES ASSUME Init PROVE RInv
    OBVIOUS
  <2>1. request = NoRequest /\ answer.read = Err
    BY DEF Init, NoAnswer
  <2> QED BY <2>1 DEF Init, RInv, RequestOK, ReadIs
<1>2. RInv /\ [Next]_vars => RInv'
  <2> SUFFICES ASSUME RInv, [Next]_vars PROVE RInv'
    OBVIOUS
  <2>1. CASE AskValidation
    <3>1. PICK sub \in Submissions : Ask(<<VALIDATION_TAG>> \o sub.raw)
      BY <2>1 DEF AskValidation, RInv
    <3>2. Sent(<<VALIDATION_TAG>> \o sub.raw)
      BY DEF Sent
    <3> QED BY <3>1, <3>2, AskKeeps
  <2>2. CASE AskEvaluation
    <3>1. PICK call \in Calls : Ask(<<EVALUATION_TAG>> \o CallBytes(call))
      BY <2>2 DEF AskEvaluation, RInv
    <3>2. Sent(<<EVALUATION_TAG>> \o CallBytes(call))
      BY DEF Sent
    <3> QED BY <3>1, <3>2, AskKeeps
  <2>3. CASE LoseMessage \/ SwapMessages
    BY <2>3, FaultKeeps
  <2>4. CASE start_simulation_mode
    BY <2>4, SimulationKeeps
  <2>5. CASE TakeAnswer
    <3>1. users' = users /\ request' = NoRequest /\ answer'.read = Err
      BY <2>5 DEF TakeAnswer, chain, NoAnswer
    <3> QED BY <3>1 DEF RInv, RequestOK, ReadIs
  <2>6. CASE KernelStep
    <3>1. users' = users /\ request' = request /\ answer' = answer
      BY <2>6, KernelLeaves
    <3> QED BY <3>1 DEF RInv
  <2>7. CASE UNCHANGED vars
    <3>1. users' = users /\ request' = request /\ answer' = answer
      BY <2>7 DEF vars
    <3> QED BY <3>1 DEF RInv
  <2> QED BY <2>1, <2>2, <2>3, <2>4, <2>5, <2>6, <2>7 DEF Next
<1>3. RInv => SimulatesTheRequest
  BY RequestRead
<1> QED BY <1>1, <1>2, <1>3, PTL DEF Spec
=============================================================================
