---------------------------- MODULE LedgerProofs ----------------------------
(***************************************************************************)
(* What the blocks of CometCore do to the ledger, for every list of        *)
(* transactions: the ledger stays canonical, a nullifier is consumed once, *)
(* and the overlay and the proposals execute where the core says they do.  *)
(***************************************************************************)
EXTENDS CometCoreProofs

Applied == INSTANCE FoldFacts WITH Op <- ApplyTransaction
Sized == INSTANCE FoldFacts WITH Op <- LAMBDA n, tx : n + tx.size
Chosen == INSTANCE FoldFacts WITH Op <- Consider

(***************************************************************************)
(* One transaction.                                                        *)
(***************************************************************************)
LEMMA TransactionFacts ==
  ASSUME NEW tx \in Transaction
  PROVE  /\ tx.id \in TransactionId /\ tx.op \in {"transfer", "mint"}
         /\ tx.asset \in Asset /\ tx.amount \in 1..MaxAmount
         /\ tx.inputs \in Seq(Nullifier) /\ tx.outputs \in Seq(Commitment)
         /\ tx.size \in Nat
BY TransactionAssumption

(* A list of distinct elements followed by others that are distinct too. *)
LEMMA ConcatInjective ==
  ASSUME NEW S, NEW s \in Seq(S), NEW t \in Seq(S), IsInjective(s), IsInjective(t),
         Range(s) \cap Range(t) = {}
  PROVE  IsInjective(s \o t)
<1> DEFINE u == s \o t
<1>1. /\ Len(s) \in Nat /\ Len(t) \in Nat /\ DOMAIN u = 1..(Len(s) + Len(t))
      /\ \A i \in 1..Len(s) : u[i] = s[i]
      /\ \A i \in DOMAIN u : i > Len(s) => u[i] = t[i - Len(s)] /\ i - Len(s) \in 1..Len(t)
      /\ DOMAIN s = 1..Len(s) /\ DOMAIN t = 1..Len(t)
  OBVIOUS
<1> HIDE DEF u
<1>2. \A i \in DOMAIN s, j \in DOMAIN t : s[i] # t[j]
  BY Zenon DEF Range
<1>3. ASSUME NEW i \in DOMAIN u, NEW j \in DOMAIN u, u[i] = u[j] PROVE i = j
  <2>1. CASE i <= Len(s) /\ j <= Len(s)
    BY <1>1, <1>3, <2>1 DEF IsInjective
  <2>2. CASE i > Len(s) /\ j > Len(s)
    <3>1. t[i - Len(s)] = t[j - Len(s)] /\ i - Len(s) \in DOMAIN t /\ j - Len(s) \in DOMAIN t
      BY <1>1, <1>3, <2>2
    <3>2. i - Len(s) = j - Len(s)
      BY <3>1 DEF IsInjective
    <3> QED
      BY <3>2, <1>1
  <2>3. CASE i <= Len(s) /\ j > Len(s)
    BY <1>1, <1>2, <1>3, <2>3
  <2>4. CASE i > Len(s) /\ j <= Len(s)
    BY <1>1, <1>2, <1>3, <2>4
  <2> QED
    BY <2>1, <2>2, <2>3, <2>4, <1>1
<1> QED
  BY <1>3 DEF IsInjective, u

(* An accepted transaction leaves a canonical ledger, in which its inputs, *)
(* unspent before, are spent (prepare_transition, commit_transition).      *)
LEMMA AcceptedKeepsCanonical ==
  ASSUME NEW s \in CanonicalLedger, NEW tx \in Transaction, Accepts(s, tx)
  PROVE  /\ CommitTransition(s, tx) \in CanonicalLedger
         /\ CommitTransition(s, tx).spent = s.spent \cup Range(tx.inputs)
         /\ Range(tx.inputs) \cap s.spent = {}
<1> DEFINE r == CommitTransition(s, tx)
<1>1. /\ s.commitments \in Seq(Commitment) /\ s.spent \subseteq Nullifier
      /\ s.issued \in [RegisteredAsset -> 0..MaxAmount] /\ s.accepted \subseteq TransactionId
      /\ IsInjective(s.commitments) /\ Len(s.commitments) <= TreeCapacity
  BY DEF CanonicalLedger, LedgerState
<1>2. /\ EnsureNewCommitments(s, tx) /\ tx.asset \in RegisteredAsset
      /\ tx.op = "transfer" => EnsureUniqueNullifiers(s, tx)
      /\ tx.op = "mint" => s.issued[tx.asset] + tx.amount <= MaxAmount
  BY Zenon DEF Accepts, PrepareTransition, ValidateTransfer, ValidateMint, EnsureRegisteredAsset
<1>3. /\ r.commitments = s.commitments \o tx.outputs
      /\ r.spent = IF tx.op = "transfer" THEN s.spent \cup Range(tx.inputs) ELSE s.spent
      /\ r.issued = IF tx.op = "mint" THEN [s.issued EXCEPT ![tx.asset] = @ + tx.amount] ELSE s.issued
      /\ r.accepted = s.accepted \cup {tx.id}
      /\ r = [commitments |-> r.commitments, spent |-> r.spent, issued |-> r.issued,
              accepted |-> r.accepted]
  BY Zenon DEF CommitTransition
<1> HIDE DEF r
<1>4. r.commitments \in Seq(Commitment) /\ IsInjective(r.commitments)
  BY <1>1, <1>2, <1>3, TransactionFacts, ConcatInjective DEF EnsureNewCommitments
<1>5. Len(r.commitments) <= TreeCapacity
  <2>1. Len(r.commitments) = Len(s.commitments) + Len(tx.outputs)
    BY <1>1, <1>3, TransactionFacts
  <2> QED
    BY <1>2, <2>1, Zenon DEF EnsureNewCommitments
<1>6. tx.op = "mint" => Range(tx.inputs) = {}
  <2>1. tx.op = "mint" => tx.inputs = <<>>
    BY MintAssumption
  <2>2. Range(<<>>) = {}
    BY DEF Range
  <2> QED
    BY <2>1, <2>2, Zenon
<1>7. r.spent = s.spent \cup Range(tx.inputs) /\ Range(tx.inputs) \cap s.spent = {}
  BY <1>2, <1>3, <1>6, TransactionFacts DEF EnsureUniqueNullifiers
<1>8. r.spent \subseteq Nullifier
  <2>1. Range(tx.inputs) \subseteq Nullifier
    BY TransactionFacts DEF Range
  <2> QED
    BY <1>1, <1>7, <2>1
<1>9. r.issued \in [RegisteredAsset -> 0..MaxAmount]
  BY <1>1, <1>2, <1>3, TransactionFacts, AmountAssumption
<1>10. r.accepted \subseteq TransactionId
  BY <1>1, <1>3, TransactionFacts
<1>11. r \in LedgerState
  BY <1>3, <1>4, <1>8, <1>9, <1>10, Zenon DEF LedgerState
<1> QED
  BY <1>4, <1>5, <1>7, <1>11 DEF CanonicalLedger, r

(***************************************************************************)
(* The transactions of a block.                                            *)
(***************************************************************************)
LEMMA ApplyNone == \A s : ApplyAll(s, <<>>) = [ok |-> TRUE, ledger |-> s]
<1> SUFFICES ASSUME NEW s PROVE ApplyAll(s, <<>>) = [ok |-> TRUE, ledger |-> s]
  OBVIOUS
<1> DEFINE base == [ok |-> TRUE, ledger |-> s]
<1>1. ApplyAll(s, <<>>) = Applied!Fold(base, <<>>)
  BY Zenon DEF ApplyAll, Applied!Fold, FoldList, Applied!FoldList
<1> HIDE DEF base
<1>2. Applied!Fold(base, <<>>) = base
  BY Applied!FoldEmpty
<1> QED
  BY <1>1, <1>2 DEF base

(* One more transaction is applied to what the others left. *)
LEMMA ApplyOneMore ==
  ASSUME NEW s, NEW txs \in Seq(Transaction), NEW tx \in Transaction
  PROVE  ApplyAll(s, Append(txs, tx)) = ApplyTransaction(ApplyAll(s, txs), tx)
<1>1. \A list : ApplyAll(s, list) = Applied!Fold([ok |-> TRUE, ledger |-> s], list)
  BY Zenon DEF ApplyAll, Applied!Fold, FoldList, Applied!FoldList
<1> QED
  BY <1>1, Applied!FoldAppend

(* The ledgers between the transactions of a list that applies: each       *)
(* transaction was accepted on the one before it.                          *)
LEMMA ApplyRun ==
  ASSUME NEW s, NEW txs \in Seq(Transaction), ApplyAll(s, txs).ok
  PROVE  \E run : /\ run[0] = s
                  /\ ApplyAll(s, txs).ledger = run[Len(txs)]
                  /\ \A n \in 1..Len(txs) : /\ Accepts(run[n - 1], txs[n])
                                            /\ run[n] = CommitTransition(run[n - 1], txs[n])
<1>1. ApplyAll(s, txs) = Applied!Fold([ok |-> TRUE, ledger |-> s], txs)
  BY Zenon DEF ApplyAll, Applied!Fold, FoldList, Applied!FoldList
<1>2. Len(txs) \in Nat
  OBVIOUS
<1>3. PICK f : /\ f[0] = [ok |-> TRUE, ledger |-> s]
               /\ \A n \in 1..Len(txs) : f[n] = ApplyTransaction(f[n - 1], txs[n])
               /\ ApplyAll(s, txs) = f[Len(txs)]
  BY <1>1, <1>2, Applied!FoldRun
<1>4. \A n \in 1..Len(txs) : f[n].ok =>
        /\ f[n - 1].ok /\ Accepts(f[n - 1].ledger, txs[n])
        /\ f[n].ledger = CommitTransition(f[n - 1].ledger, txs[n])
  <2> SUFFICES ASSUME NEW n \in 1..Len(txs), f[n].ok
               PROVE  /\ f[n - 1].ok /\ Accepts(f[n - 1].ledger, txs[n])
                      /\ f[n].ledger = CommitTransition(f[n - 1].ledger, txs[n])
    BY Zenon
  <2>1. f[n] = ApplyTransaction(f[n - 1], txs[n])
    BY <1>3
  <2> DEFINE before == f[n - 1]
  <2> HIDE DEF before
  <2>2. ApplyTransaction(before, txs[n]).ok
    BY <2>1 DEF before
  <2>3. before.ok /\ Accepts(before.ledger, txs[n])
    BY <2>2 DEF ApplyTransaction
  <2>4. ApplyTransaction(before, txs[n]).ledger = CommitTransition(before.ledger, txs[n])
    BY <2>3 DEF ApplyTransaction
  <2> QED
    BY <2>1, <2>3, <2>4 DEF before
<1> DEFINE S == {k \in Nat : k <= Len(txs) => f[Len(txs) - k].ok}
<1>5. 0 \in S
  BY <1>2, <1>3
<1>6. ASSUME NEW k \in Nat, k \in S PROVE k + 1 \in S
  <2> SUFFICES ASSUME k + 1 <= Len(txs) PROVE f[Len(txs) - (k + 1)].ok
    OBVIOUS
  <2>1. Len(txs) - k \in 1..Len(txs) /\ Len(txs) - (k + 1) = (Len(txs) - k) - 1
    BY <1>2
  <2>2. f[Len(txs) - k].ok
    BY <1>2, <1>6
  <2> QED
    BY <2>1, <2>2, <1>4
<1> HIDE DEF S
<1>7. \A k \in Nat : k \in S
  BY <1>5, <1>6, Applied!SetInduction
<1>8. \A n \in 1..Len(txs) : f[n].ok
  <2> SUFFICES ASSUME NEW n \in 1..Len(txs) PROVE f[n].ok
    OBVIOUS
  <2>1. Len(txs) - n \in Nat /\ Len(txs) - n <= Len(txs) /\ Len(txs) - (Len(txs) - n) = n
    BY <1>2
  <2> QED
    BY <2>1, <1>7 DEF S
<1> DEFINE run == [n \in 0..Len(txs) |-> f[n].ledger]
<1>9. run[0] = s /\ ApplyAll(s, txs).ledger = run[Len(txs)]
  BY <1>2, <1>3
<1>10. \A n \in 1..Len(txs) : /\ Accepts(run[n - 1], txs[n])
                              /\ run[n] = CommitTransition(run[n - 1], txs[n])
  <2> SUFFICES ASSUME NEW n \in 1..Len(txs)
               PROVE  /\ Accepts(run[n - 1], txs[n])
                      /\ run[n] = CommitTransition(run[n - 1], txs[n])
    BY Zenon
  <2>1. run[n] = f[n].ledger /\ run[n - 1] = f[n - 1].ledger
    BY <1>2
  <2> QED
    BY <2>1, <1>4, <1>8
<1> QED
  BY <1>9, <1>10, Zenon

(* A block that executes leaves a canonical ledger, in which everything it *)
(* consumed is spent; nothing of that was spent before, and no two of its  *)
(* transactions consume the same (execute_block).                          *)
LEMMA BlockLedger ==
  ASSUME NEW s \in CanonicalLedger, NEW txs \in Seq(Transaction), ApplyAll(s, txs).ok
  PROVE  LET r == ApplyAll(s, txs).ledger
         IN  /\ r \in CanonicalLedger
             /\ s.spent \subseteq r.spent
             /\ \A i \in DOMAIN txs : /\ Range(txs[i].inputs) \subseteq r.spent
                                      /\ Range(txs[i].inputs) \cap s.spent = {}
             /\ \A i, j \in DOMAIN txs :
                  i # j => Range(txs[i].inputs) \cap Range(txs[j].inputs) = {}
<1>1. PICK run : /\ run[0] = s
                 /\ ApplyAll(s, txs).ledger = run[Len(txs)]
                 /\ \A n \in 1..Len(txs) : /\ Accepts(run[n - 1], txs[n])
                                           /\ run[n] = CommitTransition(run[n - 1], txs[n])
  BY ApplyRun
<1>2. Len(txs) \in Nat /\ DOMAIN txs = 1..Len(txs) /\ \A i \in 1..Len(txs) : txs[i] \in Transaction
  OBVIOUS
<1> DEFINE In(i) == Range(txs[i].inputs)
           Good(n) == /\ run[n] \in CanonicalLedger
                      /\ s.spent \subseteq run[n].spent
                      /\ \A i \in 1..n : In(i) \subseteq run[n].spent /\ In(i) \cap s.spent = {}
                      /\ \A i, j \in 1..n : i # j => In(i) \cap In(j) = {}
           S == {n \in Nat : n <= Len(txs) => Good(n)}
<1> HIDE DEF Good
<1>3. 0 \in S
  BY <1>1 DEF Good
<1>4. ASSUME NEW n \in Nat, n \in S PROVE n + 1 \in S
  <2> SUFFICES ASSUME n + 1 <= Len(txs) PROVE Good(n + 1)
    OBVIOUS
  <2>1. Good(n)
    BY <1>2, <1>4
  <2> USE DEF Good
  <2>2. n + 1 \in 1..Len(txs) /\ (n + 1) - 1 = n /\ txs[n + 1] \in Transaction
    BY <1>2
  <2>3. Accepts(run[n], txs[n + 1]) /\ run[n + 1] = CommitTransition(run[n], txs[n + 1])
    BY <1>1, <2>2
  <2>4. /\ run[n + 1] \in CanonicalLedger
        /\ run[n + 1].spent = run[n].spent \cup In(n + 1)
        /\ In(n + 1) \cap run[n].spent = {}
    BY <2>1, <2>2, <2>3, AcceptedKeepsCanonical
  <2>5. \A i \in 1..(n + 1) : i \in 1..n \/ i = n + 1
    OBVIOUS
  <2> HIDE DEF In
  <2>6. s.spent \subseteq run[n + 1].spent
    BY <2>1, <2>4
  <2>7. \A i \in 1..(n + 1) : In(i) \subseteq run[n + 1].spent /\ In(i) \cap s.spent = {}
    BY <2>1, <2>4, <2>5
  <2>8. \A i, j \in 1..(n + 1) : i # j => In(i) \cap In(j) = {}
    BY <2>1, <2>4, <2>5
  <2> QED
    BY <2>4, <2>6, <2>7, <2>8
<1> HIDE DEF S
<1>5. \A n \in Nat : n \in S
  BY <1>3, <1>4, Applied!SetInduction
<1>6. Good(Len(txs))
  BY <1>2, <1>5 DEF S
<1> QED
  BY <1>1, <1>2, <1>6, Zenon DEF Good

(***************************************************************************)
(* The proposal: what Selected takes fits the limits and applies.          *)
(***************************************************************************)
LEMMA BytesFacts ==
  /\ Bytes(<<>>) = 0
  /\ \A txs \in Seq(Transaction), tx \in Transaction :
       Bytes(Append(txs, tx)) = Bytes(txs) + tx.size
<1>1. \A list : Bytes(list) = Sized!Fold(0, list)
  BY Zenon DEF Bytes, Sized!Fold, FoldList, Sized!FoldList
<1>2. Bytes(<<>>) = 0
  BY <1>1, Sized!FoldEmpty
<1>3. ASSUME NEW txs \in Seq(Transaction), NEW tx \in Transaction
      PROVE  Bytes(Append(txs, tx)) = Bytes(txs) + tx.size
  BY <1>1, Sized!FoldAppend
<1> QED
  BY <1>2, <1>3

(* A list of at most n elements is a sequence. *)
LEMMA ListsAreSequences ==
  ASSUME NEW S, NEW n \in Nat, NEW list \in ListsUpTo(S, n)
  PROVE  list \in Seq(S)
<1>1. PICK m \in 0..n : list \in [1..m -> S]
  BY DEF ListsUpTo
<1> QED
  BY <1>1

(* What prepare_proposal selects fits the record and byte limits and       *)
(* applies to the tip.                                                     *)
LEMMA SelectedApplies ==
  ASSUME NEW limit \in Nat, NEW txs \in Seq(Transaction)
  PROVE  LET chosen == Selected(limit, txs)
         IN  /\ Len(chosen) <= MaxRecords
             /\ Bytes(chosen) \in 0..limit
             /\ ApplyAll(tip.ledger, chosen).ok
<1> DEFINE base == [limit |-> limit, ledger |-> tip.ledger, txs |-> <<>>]
<1>1. Selected(limit, txs) = Chosen!Fold(base, txs).txs
  BY Zenon DEF Selected, Chosen!Fold, FoldList, Chosen!FoldList
<1>2. Len(txs) \in Nat /\ \A n \in 1..Len(txs) : txs[n] \in Transaction
  OBVIOUS
<1>3. /\ base.limit = limit /\ base.txs = <<>> /\ base.ledger = tip.ledger
  OBVIOUS
<1> HIDE DEF base
<1>4. PICK run : /\ run[0] = base
                 /\ \A n \in 1..Len(txs) : run[n] = Consider(run[n - 1], txs[n])
                 /\ Chosen!Fold(base, txs) = run[Len(txs)]
  BY <1>2, Chosen!FoldRun
<1> DEFINE Good(c) == /\ c.limit = limit /\ c.txs \in Seq(Transaction)
                      /\ Len(c.txs) <= MaxRecords /\ Bytes(c.txs) \in 0..limit
                      /\ ApplyAll(tip.ledger, c.txs) = [ok |-> TRUE, ledger |-> c.ledger]
           S == {n \in Nat : n <= Len(txs) => Good(run[n])}
<1>5. ASSUME NEW c, Good(c), NEW tx \in Transaction PROVE Good(Consider(c, tx))
  <2>1. CASE ~(/\ Len(c.txs) < MaxRecords /\ Bytes(c.txs) + tx.size <= c.limit
               /\ Accepts(c.ledger, tx))
    BY <1>5, <2>1, Zenon DEF Consider
  <2>2. CASE /\ Len(c.txs) < MaxRecords /\ Bytes(c.txs) + tx.size <= c.limit
             /\ Accepts(c.ledger, tx)
    <3> DEFINE d == Consider(c, tx)
    <3>1. /\ d.limit = limit /\ d.ledger = CommitTransition(c.ledger, tx)
          /\ d.txs = Append(c.txs, tx)
      BY <1>5, <2>2 DEF Consider
    <3> HIDE DEF d
    <3>2. d.txs \in Seq(Transaction) /\ Len(d.txs) <= MaxRecords
      BY <1>5, <2>2, <3>1, LimitAssumption
    <3>3. Bytes(d.txs) \in 0..limit
      <4>1. Bytes(d.txs) = Bytes(c.txs) + tx.size
        BY <1>5, <3>1, BytesFacts, Zenon
      <4> QED
        BY <1>5, <2>2, <4>1, TransactionFacts
    <3>4. ApplyAll(tip.ledger, d.txs) = ApplyTransaction([ok |-> TRUE, ledger |-> c.ledger], tx)
      BY <1>5, <3>1, ApplyOneMore, Zenon
    <3>5. ApplyTransaction([ok |-> TRUE, ledger |-> c.ledger], tx) = [ok |-> TRUE, ledger |-> d.ledger]
      BY <2>2, <3>1 DEF ApplyTransaction
    <3> QED
      BY <3>1, <3>2, <3>3, <3>4, <3>5 DEF d
  <2> QED
    BY <2>1, <2>2
<1>6. Good(base)
  <2>1. ApplyAll(tip.ledger, base.txs) = [ok |-> TRUE, ledger |-> base.ledger]
    BY <1>3, ApplyNone, Zenon
  <2>2. Bytes(base.txs) \in 0..limit
    BY <1>3, BytesFacts
  <2>3. base.txs \in Seq(Transaction) /\ Len(base.txs) <= MaxRecords
    BY <1>3, LimitAssumption
  <2> QED
    BY <1>3, <2>1, <2>2, <2>3
<1> HIDE DEF Good
<1>7. 0 \in S
  BY <1>4, <1>6
<1>8. ASSUME NEW n \in Nat, n \in S PROVE n + 1 \in S
  <2> SUFFICES ASSUME n + 1 <= Len(txs) PROVE Good(run[n + 1])
    OBVIOUS
  <2>1. Good(run[n]) /\ n + 1 \in 1..Len(txs) /\ (n + 1) - 1 = n
    BY <1>2, <1>8
  <2>2. run[n + 1] = Consider(run[n], txs[n + 1]) /\ txs[n + 1] \in Transaction
    BY <1>2, <1>4, <2>1
  <2> QED
    BY <2>1, <2>2, <1>5
<1> HIDE DEF S
<1>9. \A n \in Nat : n \in S
  BY <1>7, <1>8, Chosen!SetInduction
<1>10. Good(run[Len(txs)])
  BY <1>2, <1>9 DEF S
<1> QED
  BY <1>1, <1>4, <1>10 DEF Good

(***************************************************************************)
(* The ledgers of the network.                                             *)
(***************************************************************************)
LEMMA EmptyIsCanonical == EmptyLedger \in CanonicalLedger
<1>1. EmptyLedger \in LedgerState
  BY AmountAssumption DEF EmptyLedger, LedgerState
<1>2. EmptyLedger.commitments = <<>>
  BY DEF EmptyLedger
<1> QED
  BY <1>1, <1>2, CapacityAssumption DEF CanonicalLedger, IsInjective

(* A block executes only if its transactions apply, and to the ledger they *)
(* leave.                                                                  *)
LEMMA ExecutionApplies ==
  \A base, block : /\ Executes(base, block) => ApplyAll(base.ledger, block.txs).ok
                   /\ ExecuteBlock(base, block).ledger = ApplyAll(base.ledger, block.txs).ledger
BY DEF Executes, ExecuteBlock

(* Every state of the decided chain is canonical, by induction on the      *)
(* height.                                                                 *)
LEMMA NetworkCanonical ==
  ASSUME IInv, LedgersInv
  PROVE  \A n \in 1..Len(network) : network[n].ledger \in CanonicalLedger
<1>1. Len(chain) \in Nat /\ Len(network) = Len(chain) + 1
  BY Lengths DEF IInv
<1>2. /\ network[1] = GenesisTip
      /\ \A n \in 1..Len(chain) : /\ Executes(network[n], chain[n])
                                  /\ network[n + 1] = ExecuteBlock(network[n], chain[n])
      /\ \A n \in 1..Len(chain) : chain[n].txs \in Seq(Transaction)
  BY DEF IInv, NetworkHistory, LedgersInv
<1> DEFINE S == {n \in Nat : n <= Len(chain) => network[n + 1].ledger \in CanonicalLedger}
<1>3. 0 \in S
  BY <1>2, EmptyIsCanonical DEF GenesisTip
<1>4. ASSUME NEW n \in Nat, n \in S PROVE n + 1 \in S
  <2> SUFFICES ASSUME n + 1 <= Len(chain) PROVE network[n + 1 + 1].ledger \in CanonicalLedger
    OBVIOUS
  <2>1. n + 1 \in 1..Len(chain) /\ network[n + 1].ledger \in CanonicalLedger
    BY <1>1, <1>4
  <2>2. /\ ApplyAll(network[n + 1].ledger, chain[n + 1].txs).ok
        /\ network[n + 1 + 1].ledger = ApplyAll(network[n + 1].ledger, chain[n + 1].txs).ledger
        /\ chain[n + 1].txs \in Seq(Transaction)
    BY <1>2, <2>1, ExecutionApplies
  <2> QED
    BY <2>1, <2>2, BlockLedger
<1> HIDE DEF S
<1>5. \A n \in Nat : n \in S
  BY <1>3, <1>4, Applied!SetInduction
<1>6. ASSUME NEW n \in 1..Len(network) PROVE network[n].ledger \in CanonicalLedger
  <2>1. n - 1 \in Nat /\ n - 1 <= Len(chain) /\ (n - 1) + 1 = n
    BY <1>1
  <2> QED
    BY <2>1, <1>5, Zenon DEF S
<1> QED
  BY <1>6

(* What one block of the chain does to the ledgers around it. *)
LEMMA DecidedBlock ==
  ASSUME IInv, LedgersInv, NEW n \in 1..Len(chain)
  PROVE  /\ network[n].ledger.spent \subseteq network[n + 1].ledger.spent
         /\ \A i \in DOMAIN chain[n].txs :
              /\ Range(chain[n].txs[i].inputs) \subseteq network[n + 1].ledger.spent
              /\ Range(chain[n].txs[i].inputs) \cap network[n].ledger.spent = {}
         /\ \A i, j \in DOMAIN chain[n].txs :
              i # j => Range(chain[n].txs[i].inputs) \cap Range(chain[n].txs[j].inputs) = {}
<1> DEFINE s == network[n].ledger
           txs == chain[n].txs
<1>1. n \in 1..Len(network)
  BY Lengths DEF IInv
<1>2. s \in CanonicalLedger /\ txs \in Seq(Transaction)
  BY <1>1, NetworkCanonical DEF LedgersInv
<1>3. ApplyAll(s, txs).ok /\ network[n + 1].ledger = ApplyAll(s, txs).ledger
  <2>1. Executes(network[n], chain[n]) /\ network[n + 1] = ExecuteBlock(network[n], chain[n])
    BY DEF IInv, NetworkHistory
  <2> QED
    BY <2>1, ExecutionApplies
<1> HIDE DEF s, txs
<1> QED
  BY <1>2, <1>3, BlockLedger, Zenon DEF s, txs

(* What is spent stays spent up the chain. *)
LEMMA SpentGrows ==
  ASSUME IInv, LedgersInv, NEW n \in 1..Len(network), NEW m \in n..Len(network)
  PROVE  network[n].ledger.spent \subseteq network[m].ledger.spent
<1>1. Len(chain) \in Nat /\ Len(network) = Len(chain) + 1
  BY Lengths DEF IInv
<1> DEFINE S == {k \in Nat : n + k <= Len(network) =>
                               network[n].ledger.spent \subseteq network[n + k].ledger.spent}
<1>2. 0 \in S
  OBVIOUS
<1>3. ASSUME NEW k \in Nat, k \in S PROVE k + 1 \in S
  <2> SUFFICES ASSUME n + (k + 1) <= Len(network)
               PROVE  network[n].ledger.spent \subseteq network[n + (k + 1)].ledger.spent
    OBVIOUS
  <2>1. n + k \in 1..Len(chain) /\ n + (k + 1) = (n + k) + 1 /\ n + k <= Len(network)
    BY <1>1
  <2>2. network[n + k].ledger.spent \subseteq network[(n + k) + 1].ledger.spent
    BY <2>1, DecidedBlock
  <2>3. network[n].ledger.spent \subseteq network[n + k].ledger.spent
    BY <2>1, <1>3
  <2> QED
    BY <2>1, <2>2, <2>3
<1> HIDE DEF S
<1>4. \A k \in Nat : k \in S
  BY <1>2, <1>3, Applied!SetInduction
<1>5. m - n \in Nat /\ n + (m - n) = m /\ m <= Len(network)
  BY <1>1
<1> QED
  BY <1>4, <1>5 DEF S

(***************************************************************************)
(* LedgersInv is inductive with IInv.                                      *)
(***************************************************************************)

(* A step that leaves the overlay and the tip alone, or stops serving. *)
LEMMA OverlayUntouched ==
  ASSUME LedgersInv, UNCHANGED <<chain, network, proposal, mempool, acked>>,
         proc' = "serving" => proc = "serving" /\ tip' = tip
  PROVE  LedgersInv'
<1>1. OverlayExtendsTip'
  BY Zenon DEF LedgersInv, OverlayExtendsTip
<1>2. ProposalFits'
  BY Zenon DEF LedgersInv, ProposalFits
<1> QED
  BY <1>1, <1>2, Zenon DEF LedgersInv

(* A step that rebuilds the overlay on the tip it leaves. *)
LEMMA OverlayRebuilt ==
  ASSUME LedgersInv, UNCHANGED <<chain, network, proposal>>,
         NEW ledger \in CanonicalLedger, mempool' = FreshMempool(ledger),
         proc' = "serving" => tip'.ledger = ledger /\ acked' <= tip'.height
  PROVE  LedgersInv'
<1>1. mempool'.ledger = ledger /\ mempool'.txs = <<>>
  BY DEF FreshMempool
<1>2. OverlayExtendsTip'
  <2> SUFFICES ASSUME proc' = "serving"
               PROVE  ApplyAll(tip'.ledger, mempool'.txs) = [ok |-> TRUE, ledger |-> mempool'.ledger]
    BY Zenon DEF OverlayExtendsTip
  <2> QED
    BY <1>1, ApplyNone, Zenon
<1>3. ProposalFits'
  BY Zenon DEF LedgersInv, ProposalFits
<1>4. mempool'.txs \in Seq(Transaction) /\ mempool'.ledger \in CanonicalLedger
  BY <1>1
<1> QED
  BY <1>2, <1>3, <1>4, Zenon DEF LedgersInv

(* So are the tip and the result of an append in progress. *)
LEMMA TipCanonical ==
  ASSUME IInv, LedgersInv
  PROVE  /\ tip.ledger \in CanonicalLedger
         /\ append.phase # "idle" => /\ append.stored.result.ledger \in CanonicalLedger
                                     /\ append.stored.result.height = tip.height + 1
<1>1. /\ tip.height + 1 \in 1..Len(network)
      /\ tip.height < Len(chain) => tip.height + 2 \in 1..Len(network)
      /\ (tip.height + 2) - 1 = tip.height + 1
  BY Lengths
<1>2. tip = network[tip.height + 1]
  BY DEF IInv, TipInJournal
<1>3. append.phase # "idle" =>
        tip.height < Len(chain) /\ append.stored.result = network[tip.height + 2]
  BY DEF IInv, AppendInOrder, IsNextDecided
<1>4. \A n \in 1..Len(network) : network[n].height = n - 1
  BY DEF IInv, NetworkHistory
<1>5. tip.ledger \in CanonicalLedger
  BY <1>1, <1>2, NetworkCanonical
<1>6. append.phase # "idle" => /\ append.stored.result.ledger \in CanonicalLedger
                              /\ append.stored.result.height = tip.height + 1
  BY <1>1, <1>3, <1>4, NetworkCanonical
<1> QED
  BY <1>5, <1>6

(* The initial states satisfy LedgersInv. *)
LEMMA LedgersInit == Init => LedgersInv
<1> SUFFICES ASSUME Init PROVE LedgersInv
  OBVIOUS
<1>1. proc = "down" /\ proposal = None /\ chain = <<>> /\ mempool = FreshMempool(EmptyLedger)
  BY DEF Init, ExecutionInit
<1>2. mempool.ledger = EmptyLedger /\ mempool.txs = <<>>
  BY <1>1 DEF FreshMempool
<1>3. \A n \in 1..Len(chain) : chain[n].txs \in Seq(Transaction)
  BY <1>1
<1>4. mempool.txs \in Seq(Transaction) /\ mempool.ledger \in CanonicalLedger
  BY <1>2, EmptyIsCanonical
<1> QED
  BY <1>1, <1>3, <1>4 DEF LedgersInv, OverlayExtendsTip, ProposalFits

(* Opening the journal and starting the core keep LedgersInv. *)
LEMMA LedgersRecovery == IInv /\ LedgersInv /\ Recovery => LedgersInv'
<1> SUFFICES ASSUME IInv, LedgersInv, Recovery PROVE LedgersInv'
  OBVIOUS
<1>1. CASE StartCore
  <2>1. /\ UNCHANGED <<chain, network, proposal, acked, tip>> /\ mempool' = FreshMempool(tip.ledger)
        /\ tip.height = Len(frames)
    BY <1>1 DEF StartCore, OpenSucceeds, engineVars
  <2>2. acked <= tip.height
    BY <2>1 DEF IInv, TypeOK, AcknowledgedIsDurable, DurableCount
  <2> QED
    BY <2>1, <2>2, TipCanonical, OverlayRebuilt
<1>2. CASE OpenJournal \/ Replay \/ RefuseJournal \/ TruncationFails
  <2>1. proc' # "serving" /\ UNCHANGED <<chain, network, proposal, mempool, acked>>
    BY <1>2 DEF OpenJournal, Replay, RefuseJournal, TruncationFails, Open, ReplayFrame,
                OpenRefused, OpenTailFails, coreVars, engineVars
  <2> QED
    BY <2>1, OverlayUntouched
<1> QED
  BY <1>1, <1>2 DEF Recovery

(* The steps of a commit keep LedgersInv: the last one rebuilds the        *)
(* overlay.                                                                *)
LEMMA LedgersCommitSteps == IInv /\ LedgersInv /\ CommitSteps => LedgersInv'
<1> SUFFICES ASSUME IInv, LedgersInv, CommitSteps PROVE LedgersInv'
  OBVIOUS
<1>1. CASE CommitReturns
  <2> DEFINE result == append.stored.result
  <2>1. /\ append.phase # "idle" /\ tip' = result
        /\ UNCHANGED <<chain, network, proposal>>
        /\ mempool' = FreshMempool(result.ledger) /\ acked' = result.height
    BY <1>1 DEF CommitReturns, CommitSucceeds, PublishCommit
  <2>2. result.ledger \in CanonicalLedger /\ result.height = tip.height + 1 /\ tip.height \in Nat
    BY <2>1, TipCanonical, Lengths
  <2> HIDE DEF result
  <2>3. acked' <= tip'.height
    BY <2>1, <2>2
  <2> QED
    BY <2>1, <2>2, <2>3, OverlayRebuilt
<1>2. CASE CommitWrites \/ CommitSyncs \/ CommitErrs
  <2>1. UNCHANGED <<chain, network, proposal, mempool, acked, proc, tip>>
    BY <1>2 DEF CommitWrites, CommitSyncs, CommitErrs, AppendWrites, AppendSyncs, CommitFails,
                coreVars, engineVars
  <2> QED
    BY <2>1, OverlayUntouched
<1> QED
  BY <1>1, <1>2 DEF CommitSteps

(* Crashes, stops and restarts keep LedgersInv. *)
LEMMA LedgersFailures == IInv /\ LedgersInv /\ Failures => LedgersInv'
<1> SUFFICES ASSUME IInv, LedgersInv, Failures PROVE LedgersInv'
  OBVIOUS
<1>1. CASE EngineStops
  <2>1. UNCHANGED <<chain, network, proposal, mempool, acked, proc, tip>>
    BY <1>1 DEF EngineStops, coreVars, executionVars
  <2> QED
    BY <2>1, OverlayUntouched
<1>2. CASE Killed \/ PowerFails \/ Restart
  <2>1. /\ proc' = "down" /\ UNCHANGED <<chain, network, proposal>>
        /\ mempool' = FreshMempool(EmptyLedger)
    BY <1>2 DEF Killed, PowerFails, Restart, CoreLost, ProcessKilled, PowerLoss, ProcessEnds,
                executionVars
  <2> QED
    BY <2>1, EmptyIsCanonical, OverlayRebuilt
<1> QED
  BY <1>1, <1>2 DEF Failures

(* An admission extends the overlay by a transaction that applies to it. *)
LEMMA LedgersCheckTx ==
  ASSUME LedgersInv, NEW tx \in Transaction, CheckTx(tx)
  PROVE  LedgersInv'
<1>1. /\ UNCHANGED <<chain, network, proposal, acked, proc, tip>>
      /\ proc = "serving"
  BY DEF CheckTx, Connected, Idle, engineVars, executionVars
<1>2. CASE ~(lifecycle = "Running" /\ Admits(tx))
  <2>1. mempool' = mempool
    BY <1>2 DEF CheckTx
  <2> QED
    BY <1>1, <2>1, OverlayUntouched
<1>3. CASE lifecycle = "Running" /\ Admits(tx)
  <2>1. /\ mempool'.ledger = CommitTransition(mempool.ledger, tx)
        /\ mempool'.txs = Append(mempool.txs, tx)
    BY <1>3 DEF CheckTx
  <2>2. /\ mempool.ledger \in CanonicalLedger /\ mempool.txs \in Seq(Transaction)
        /\ Accepts(mempool.ledger, tx)
        /\ ApplyAll(tip.ledger, mempool.txs) = [ok |-> TRUE, ledger |-> mempool.ledger]
    BY <1>1, <1>3 DEF LedgersInv, OverlayExtendsTip, Admits
  <2>3. mempool'.ledger \in CanonicalLedger /\ mempool'.txs \in Seq(Transaction)
    BY <2>1, <2>2, AcceptedKeepsCanonical
  <2>4. ApplyAll(tip.ledger, mempool'.txs)
          = ApplyTransaction([ok |-> TRUE, ledger |-> mempool.ledger], tx)
    BY <2>1, <2>2, ApplyOneMore, Zenon
  <2>5. ApplyTransaction([ok |-> TRUE, ledger |-> mempool.ledger], tx)
          = [ok |-> TRUE, ledger |-> mempool'.ledger]
    BY <2>1, <2>2 DEF ApplyTransaction
  <2>6. OverlayExtendsTip'
    BY <1>1, <2>4, <2>5, Zenon DEF OverlayExtendsTip
  <2>7. ProposalFits'
    BY <1>1, Zenon DEF LedgersInv, ProposalFits
  <2> QED
    BY <1>1, <2>3, <2>6, <2>7, Zenon DEF LedgersInv
<1> QED
  BY <1>2, <1>3

(* A prepared proposal fits the limits and applies to the tip it was made  *)
(* for.                                                                    *)
LEMMA LedgersPrepare ==
  ASSUME IInv, LedgersInv, NEW limit \in EngineLimit, NEW txs \in ListsUpTo(Transaction, MaxReap),
         PrepareProposal(limit, txs)
  PROVE  LedgersInv'
<1>1. /\ UNCHANGED <<chain, network, mempool, acked, proc, tip>>
      /\ session = "ready" /\ seen = Len(chain)
  BY DEF PrepareProposal, executionVars
<1>2. CASE proposal' = proposal
  BY <1>1, <1>2, OverlayUntouched
<1>3. CASE proposal' # proposal
  <2> DEFINE byteLimit == SmallerOf(limit, MaxBlockBytes)
  <2>1. /\ proposal' = [height |-> tip.height + 1, txs |-> Selected(byteLimit, txs)]
        /\ EngineHeight(tip.height + 1) <= MaxEngineHeight /\ limit >= 0
    BY <1>3 DEF PrepareProposal
  <2>2. byteLimit \in Nat /\ byteLimit <= MaxBlockBytes
    BY <2>1, LimitAssumption, EngineAssumption DEF SmallerOf
  <2>3. txs \in Seq(Transaction)
    BY EngineAssumption, ListsAreSequences
  <2> HIDE DEF byteLimit
  <2> DEFINE chosen == Selected(byteLimit, txs)
  <2>4. Len(chosen) <= MaxRecords /\ Bytes(chosen) \in 0..byteLimit /\ ApplyAll(tip.ledger, chosen).ok
    BY <2>2, <2>3, SelectedApplies
  <2>5. Len(chain) = tip.height /\ tip = network[Len(network)]
    BY <1>1, Lengths, Zenon DEF IInv, CoreInStep, TipInJournal
  <2>6. proposal'.height = tip.height + 1 /\ proposal'.txs = chosen
    BY <2>1
  <2>7. Bytes(chosen) <= MaxBlockBytes
    BY <2>2, <2>4, LimitAssumption
  <2> HIDE DEF chosen
  <2>8. ProposalFits'
    BY <1>1, <2>1, <2>4, <2>5, <2>6, <2>7, Zenon DEF ProposalFits
  <2>9. OverlayExtendsTip'
    BY <1>1, Zenon DEF LedgersInv, OverlayExtendsTip
  <2> QED
    BY <1>1, <2>8, <2>9, Zenon DEF LedgersInv
<1> QED
  BY <1>2, <1>3

(* Every request of the engine keeps LedgersInv. *)
LEMMA LedgersRequests == IInv /\ LedgersInv /\ Requests => LedgersInv'
<1> SUFFICES ASSUME IInv, LedgersInv, Requests PROVE LedgersInv'
  OBVIOUS
<1>1. CASE Info \/ FinalizeBlock \/ \E genuine \in EngineGenuine : InitChain(genuine)
  <2>1. UNCHANGED <<chain, network, proposal, mempool, acked, proc, tip>>
    BY <1>1 DEF Info, FinalizeBlock, InitChain, coreVars, executionVars
  <2> QED
    BY <2>1, OverlayUntouched
<1>2. CASE CommitRequest
  <2>1. CASE UNCHANGED <<chain, network, proposal, mempool, acked, proc, tip>>
    BY <2>1, OverlayUntouched
  <2>2. CASE PublishCommit(tip) /\ UNCHANGED <<executionVars, journalVars>>
    <3>1. /\ UNCHANGED <<chain, network, proposal, tip>>
          /\ mempool' = FreshMempool(tip.ledger) /\ acked' = tip.height
      BY <2>2 DEF PublishCommit, executionVars
    <3>2. acked' <= tip'.height
      BY <3>1, Lengths
    <3> QED
      BY <3>1, <3>2, TipCanonical, OverlayRebuilt
  <2> QED
    BY <1>2, <2>1, <2>2 DEF CommitRequest, CommitBegins, coreVars, executionVars
<1>3. CASE \E tx \in Transaction : CheckTx(tx)
  BY <1>3, LedgersCheckTx
<1>4. CASE \E limit \in EngineLimit, txs \in ListsUpTo(Transaction, MaxReap) :
             PrepareProposal(limit, txs)
  BY <1>4, LedgersPrepare
<1> QED
  BY <1>1, <1>2, <1>3, <1>4 DEF Requests

(* A decision keeps LedgersInv: a decided block executes on the state      *)
(* before it.                                                              *)
LEMMA LedgersDecisions == IInv /\ LedgersInv /\ Decisions => LedgersInv'
<1> SUFFICES ASSUME IInv, LedgersInv, NEW txs \in ListsUpTo(Transaction, MaxRecords),
                    NEW hash \in BlockHash, Decide(txs, hash)
             PROVE  LedgersInv'
  BY DEF Decisions
<1>1. PICK block : block.txs = txs /\ chain' = Append(chain, block)
  BY DEF Decide
<1>2. UNCHANGED <<mempool, acked, proc, tip>> /\ proposal' = None
  BY DEF Decide, executionVars
<1>3. txs \in Seq(Transaction)
  BY LimitAssumption, ListsAreSequences
<1>4. IsSeq(chain) /\ Len(chain) \in Nat
  BY Lengths DEF IInv, NetworkHistory
<1>5. /\ Len(chain') = Len(chain) + 1 /\ chain'[Len(chain) + 1] = block
      /\ \A n \in 1..Len(chain) : chain'[n] = chain[n]
  BY <1>1, <1>4, AppendFacts
<1>6. \A n \in 1..Len(chain') : chain'[n].txs \in Seq(Transaction)
  <2> SUFFICES ASSUME NEW n \in 1..Len(chain') PROVE chain'[n].txs \in Seq(Transaction)
    OBVIOUS
  <2>1. n \in 1..Len(chain) \/ n = Len(chain) + 1
    BY <1>4, <1>5
  <2> QED
    BY <2>1, <1>1, <1>3, <1>5 DEF LedgersInv
<1>7. OverlayExtendsTip' /\ ProposalFits'
  BY <1>2, Zenon DEF LedgersInv, OverlayExtendsTip, ProposalFits
<1> QED
  BY <1>2, <1>6, <1>7, Zenon DEF LedgersInv

(***************************************************************************)
(* The theorems.                                                           *)
(***************************************************************************)

(* The blocks, the overlay and the proposal hold transactions that apply   *)
(* where the core keeps them (admit, prepare_proposal, commit).            *)
THEOREM LedgersInvariant == Spec => []LedgersInv
<1>1. Init => LedgersInv
  BY LedgersInit
<1>2. IInv /\ LedgersInv /\ [Next]_vars => LedgersInv'
  <2> SUFFICES ASSUME IInv, LedgersInv, [Next]_vars PROVE LedgersInv'
    OBVIOUS
  <2>1. CASE UNCHANGED vars
    <3>1. UNCHANGED <<chain, network, proposal, mempool, acked, proc, tip>>
      BY <2>1 DEF vars, coreVars, engineVars, executionVars
    <3> QED
      BY <3>1, OverlayUntouched
  <2> QED
    BY <2>1, LedgersRecovery, LedgersRequests, LedgersCommitSteps, LedgersFailures,
       LedgersDecisions DEF Next
<1> QED
  BY <1>1, <1>2, InductiveInvariant, PTL DEF Spec

(* The durable ledger and the overlay are canonical states, and the        *)
(* overlay is the durable one with the admitted transactions applied,      *)
(* after any number of blocks, crashes, replays and admissions             *)
(* (CommittedExecutionState, admit).                                       *)
THEOREM LedgersAreSound == Spec => []LedgersSound
<1>1. IInv /\ LedgersInv => LedgersSound
  <2> SUFFICES ASSUME IInv, LedgersInv PROVE LedgersSound
    OBVIOUS
  <2>1. tip.ledger \in CanonicalLedger
    BY TipCanonical
  <2> QED
    BY <2>1 DEF LedgersInv, LedgersSound, LedgersCanonical
<1> QED
  BY <1>1, InductiveInvariant, LedgersInvariant, PTL

(* A proposal that the node prepared for the height after its tip passes   *)
(* process_proposal, for every engine limit and whatever was offered.      *)
THEOREM ProposalsPass == Spec => []PreparedProposalAccepted
<1>1. IInv /\ LedgersInv => PreparedProposalAccepted
  <2> SUFFICES ASSUME IInv, LedgersInv, lifecycle = "Running", proposal # None,
                      proposal.height = tip.height + 1, NEW hash \in BlockHash
               PROVE  ProcessProposal([txs |-> proposal.txs,
                                       decision |-> [height  |-> EngineHeight(proposal.height),
                                                     hash    |-> hash,
                                                     genuine |-> TRUE]])
    BY Zenon DEF PreparedProposalAccepted
  <2> DEFINE block == [txs |-> proposal.txs,
                       decision |-> [height  |-> EngineHeight(proposal.height),
                                     hash    |-> hash,
                                     genuine |-> TRUE]]
  <2>1. /\ block.txs = proposal.txs /\ block.decision.genuine
        /\ block.decision.height = EngineHeight(tip.height + 1)
    OBVIOUS
  <2> HIDE DEF block
  <2>2. /\ proposal.height = Len(chain) + 1 /\ EngineHeight(tip.height + 1) <= MaxEngineHeight
        /\ Len(proposal.txs) <= MaxRecords /\ Bytes(proposal.txs) <= MaxBlockBytes
        /\ ApplyAll(network[Len(network)].ledger, proposal.txs).ok
    BY DEF LedgersInv, ProposalFits
  <2>3. Len(network) = tip.height + 1 /\ tip = network[tip.height + 1]
    BY <2>2, Lengths DEF IInv, TipInJournal
  <2>4. Executes(tip, block)
    BY <2>1, <2>2, <2>3, Zenon DEF Executes, ValidateFor
  <2> QED
    BY <2>4 DEF ProcessProposal, block
<1> QED
  BY <1>1, InductiveInvariant, LedgersInvariant, PTL

(* After any restart, what an acknowledged block spent is spent, and no    *)
(* two transactions of the journal consume one nullifier, for any blocks   *)
(* and any crashes (commit, open, ensure_unique_nullifiers).               *)
THEOREM SpentIsKept == Spec => []SpentStaysSpent
<1>1. IInv /\ LedgersInv => SpentStaysSpent
  <2> SUFFICES ASSUME IInv, LedgersInv PROVE SpentStaysSpent
    OBVIOUS
  <2>1. /\ Len(frames) \in Nat /\ Len(chain) \in Nat /\ tip.height \in Nat
        /\ Len(network) = Len(chain) + 1 /\ Len(frames) <= Len(chain) /\ tip.height <= Len(frames)
    BY Lengths
  <2>2. ASSUME proc = "serving", NEW n \in 1..acked, NEW i \in DOMAIN chain[n].txs
        PROVE  Range(chain[n].txs[i].inputs) \subseteq tip.ledger.spent
    <3>1. acked <= tip.height /\ acked \in Nat /\ tip = network[tip.height + 1]
      BY <2>2 DEF LedgersInv, IInv, TypeOK, TipInJournal
    <3>2. /\ n \in 1..Len(chain) /\ n + 1 \in 1..Len(network)
          /\ tip.height + 1 \in (n + 1)..Len(network)
      BY <2>1, <3>1
    <3>3. Range(chain[n].txs[i].inputs) \subseteq network[n + 1].ledger.spent
      BY <2>2, <3>2, DecidedBlock
    <3>4. network[n + 1].ledger.spent \subseteq tip.ledger.spent
      BY <3>1, <3>2, SpentGrows
    <3> QED
      BY <3>3, <3>4
  <2>3. \A n \in DOMAIN frames : n \in 1..Len(chain) /\ frames[n].block = chain[n]
    <3>1. DOMAIN frames = 1..Len(frames)
      BY DEF IInv, IsSeq
    <3> QED
      BY <2>1, <3>1 DEF IInv, JournalIsDecidedChain
  <2>4. ASSUME NEW n \in 1..Len(chain), NEW m \in 1..Len(chain), n < m,
               NEW i \in DOMAIN chain[n].txs, NEW j \in DOMAIN chain[m].txs
        PROVE  Range(chain[n].txs[i].inputs) \cap Range(chain[m].txs[j].inputs) = {}
    <3>1. n + 1 \in 1..Len(network) /\ m \in (n + 1)..Len(network)
      BY <2>1, <2>4
    <3>2. network[n + 1].ledger.spent \subseteq network[m].ledger.spent
      BY <3>1, SpentGrows
    <3>3. /\ Range(chain[n].txs[i].inputs) \subseteq network[n + 1].ledger.spent
          /\ Range(chain[m].txs[j].inputs) \cap network[m].ledger.spent = {}
      BY DecidedBlock
    <3> QED
      BY <3>2, <3>3
  <2>5. ASSUME NEW n \in 1..Len(chain), NEW i \in DOMAIN chain[n].txs,
               NEW j \in DOMAIN chain[n].txs, i # j
        PROVE  Range(chain[n].txs[i].inputs) \cap Range(chain[n].txs[j].inputs) = {}
    BY <2>5, DecidedBlock, Zenon
  <2>6. ASSUME NEW n \in 1..Len(chain), NEW m \in 1..Len(chain),
               NEW i \in DOMAIN chain[n].txs, NEW j \in DOMAIN chain[m].txs, <<n, i>> # <<m, j>>
        PROVE  Range(chain[n].txs[i].inputs) \cap Range(chain[m].txs[j].inputs) = {}
    <3>1. CASE n < m
      BY <3>1, <2>4, Zenon
    <3>2. CASE m < n
      <4>1. Range(chain[m].txs[j].inputs) \cap Range(chain[n].txs[i].inputs) = {}
        BY <3>2, <2>4, Zenon
      <4> QED
        BY <4>1
    <3>3. CASE n = m
      BY <3>3, <2>5, <2>6, Zenon
    <3> QED
      BY <3>1, <3>2, <3>3, <2>1
  <2>7. ASSUME NEW n \in DOMAIN frames, NEW m \in DOMAIN frames,
               NEW i \in DOMAIN frames[n].block.txs, NEW j \in DOMAIN frames[m].block.txs,
               <<n, i>> # <<m, j>>
        PROVE  Range(frames[n].block.txs[i].inputs) \cap Range(frames[m].block.txs[j].inputs) = {}
    <3>1. /\ n \in 1..Len(chain) /\ m \in 1..Len(chain)
          /\ frames[n].block = chain[n] /\ frames[m].block = chain[m]
      BY <2>3
    <3>2. i \in DOMAIN chain[n].txs /\ j \in DOMAIN chain[m].txs
      BY <3>1
    <3>3. Range(chain[n].txs[i].inputs) \cap Range(chain[m].txs[j].inputs) = {}
      BY <2>6, <2>7, <3>1, <3>2, Zenon
    <3> QED
      BY <3>1, <3>3
  <2> QED
    BY <2>2, <2>7, Zenon DEF SpentStaysSpent
<1> QED
  BY <1>1, InductiveInvariant, LedgersInvariant, PTL
=============================================================================
