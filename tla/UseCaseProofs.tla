---------------------------- MODULE UseCaseProofs ----------------------------
(***************************************************************************)
(* What the use cases rest on, whatever the data: pruning a graph by       *)
(* degree loses and adds no pair, and a message that is packed and read    *)
(* again is the same message but for the type of its timestamps.           *)
(***************************************************************************)
EXTENDS PathGraph, Messages, FiniteSetTheorems, FunctionTheorems, SequenceTheorems, TLAPS

(* The ends of a pair that qualifies have the degree that the prune merge asks for: each
   of its intermediaries is a successor of one end and a predecessor of the other. *)
LEMMA EndsHaveDegree ==
  ASSUME NEW E, IsFiniteSet(Nodes(E)), NEW a \in Nodes(E), NEW c \in Nodes(E),
         Cardinality(Mids(E, a, c)) >= MinPathCount
  PROVE  a \in HiOut(E) /\ c \in HiIn(E)
<1> DEFINE M == Mids(E, a, c)
           S == Succs(E, a)
           P == Preds(E, c)
<1>1. M \subseteq S /\ M \subseteq P
  BY DEF Mids, Succs, Preds
<1>2. S \subseteq Nodes(E) /\ P \subseteq Nodes(E)
  BY DEF Succs, Preds
<1>3. IsFiniteSet(S) /\ IsFiniteSet(P)
  BY <1>2, FS_Subset
<1>4. IsFiniteSet(M) /\ Cardinality(M) <= Cardinality(S) /\ Cardinality(M) <= Cardinality(P)
  BY <1>1, <1>3, FS_Subset
<1>5. Cardinality(M) \in Nat /\ Cardinality(S) \in Nat /\ Cardinality(P) \in Nat
  BY <1>3, <1>4, FS_CardinalityType
<1>6. Cardinality(S) >= MinDegree /\ Cardinality(P) >= MinDegree
  BY <1>4, <1>5, ThresholdAssumption
<1> QED
  BY <1>6 DEF HiOut, HiIn

(* Between two nodes of high degree the prune merge keeps every intermediary. *)
LEMMA KeepsMids ==
  ASSUME NEW E, NEW a \in HiOut(E), NEW c \in HiIn(E)
  PROVE  PrunedMids(E, a, c) = Mids(E, a, c)
BY DEF PrunedMids, Mids, Preds, Succs, HiOut, HiIn

(* It keeps none for a pair of which an end has low degree. *)
LEMMA PrunesOthers ==
  ASSUME NEW E, NEW a, NEW c, ~(a \in HiOut(E) /\ c \in HiIn(E))
  PROVE  PrunedMids(E, a, c) = {}
BY DEF PrunedMids

(* UC4DegreeFilter and UC4Prune change no answer: in every finite graph the pairs that
   reach MIN_PATH_COUNT intermediaries after pruning are the ones that reach it in the
   whole graph, as long as MIN_DEGREE is positive and does not exceed MIN_PATH_COUNT. *)
THEOREM PruneLossless ==
  ASSUME NEW E, IsFiniteSet(Nodes(E))
  PROVE  QualifyingPruned(E) = Qualifying(E)
<1>1. ASSUME NEW a \in Nodes(E), NEW c \in Nodes(E)
      PROVE  Cardinality(PrunedMids(E, a, c)) >= MinPathCount
               <=> Cardinality(Mids(E, a, c)) >= MinPathCount
  <2>1. CASE a \in HiOut(E) /\ c \in HiIn(E)
    BY <2>1, KeepsMids
  <2>2. CASE ~(a \in HiOut(E) /\ c \in HiIn(E))
    <3>1. Cardinality(PrunedMids(E, a, c)) = 0
      BY <2>2, PrunesOthers, FS_EmptySet
    <3>2. ~(0 >= MinPathCount)
      BY ThresholdAssumption
    <3>3. ~(Cardinality(Mids(E, a, c)) >= MinPathCount)
      BY <2>2, EndsHaveDegree
    <3> QED
      BY <3>1, <3>2, <3>3
  <2> QED
    BY <2>1, <2>2
<1> QED
  BY <1>1 DEF QualifyingPruned, Qualifying

-----------------------------------------------------------------------------
(* Messages: what the reader rebuilds of what the writer packed *)

Timestamps(V) == [as : {"datetime", "str"}, day : V]
TxnRecords(V) ==
  [ts : Timestamps(V), fb : V, fa : V, tb : V, ta : V,
   recv : V, rcur : V, paid : V, cur : V, fmt : V]
Txns(V) == Seq(TxnRecords(V))
Dicts(V, W) == UNION {[K -> W] : K \in SUBSET V}
FiniteDicts(V, W) == {d \in Dicts(V, W) : IsFiniteSet(DOMAIN d)}

(* The values of each class of messages, over fields from any set V. *)
Bodies(V) ==
  [TRANSACTIONS |-> Txns(V),
   ACCOUNTS |-> Seq([name : V, bank : V]),
   MAX_BY_BANK |-> Dicts(V, V \X V),
   BANK_NAMES |-> Dicts(V, V),
   MERGED_BANK_DATA |-> Seq(V \X V \X V \X V),
   SUM_BY_PAYMENT_FORMAT |-> Dicts(V, V \X V),
   AVG_BY_FORMAT |-> Dicts(V, V),
   MERGED_TRANSACTIONS |-> [txns : Txns(V), averages : FiniteDicts(V, V)],
   GRAPH |-> Dicts(V, (SUBSET V) \X (SUBSET V)),
   HIGH_DEGREE |-> [hiOut : SUBSET V, hiIn : SUBSET V],
   PATH_COUNTS |-> Dicts(V, Nat),
   COUNT |-> Nat]

(* What the reader of each class has: every field as it was packed, the timestamps as
   datetimes in Transactions and as texts in MergedTransactions. *)
Retyped(t, as) == [t EXCEPT !.ts = [as |-> as, day |-> t.ts.day]]
AsRead(type, body) ==
  CASE type = "TRANSACTIONS" -> MapSeq(LAMBDA t : Retyped(t, "datetime"), body)
    [] type = "MERGED_TRANSACTIONS" ->
         [body EXCEPT !.txns = MapSeq(LAMBDA t : Retyped(t, "str"), body.txns)]
    [] OTHER -> body

(* A dict that is packed as its rows and built again from them is the same dict. *)
LEMMA DictOfRows ==
  ASSUME NEW d, d = [k \in DOMAIN d |-> d[k]]
  PROVE  Dict(Rows(d)) = d
<1>1. {r[1] : r \in Rows(d)} = DOMAIN d
  <2>1. ASSUME NEW r \in Rows(d) PROVE r[1] \in DOMAIN d
    <3>1. PICK k \in DOMAIN d : r = <<k, d[k]>>
      BY DEF Rows
    <3> QED
      BY <3>1
  <2>2. ASSUME NEW k \in DOMAIN d PROVE k \in {r[1] : r \in Rows(d)}
    <3>1. <<k, d[k]>> \in Rows(d) /\ <<k, d[k]>>[1] = k
      BY DEF Rows
    <3> QED
      BY <3>1
  <2> QED
    BY <2>1, <2>2
<1>2. ASSUME NEW k \in DOMAIN d
      PROVE  (CHOOSE r \in Rows(d) : r[1] = k)[2] = d[k]
  <2>1. <<k, d[k]>> \in Rows(d)
    BY DEF Rows
  <2>2. \A r \in Rows(d) : r[1] = k => r = <<k, d[k]>>
    BY DEF Rows
  <2>3. <<k, d[k]>>[1] = k
    OBVIOUS
  <2>4. \E r \in Rows(d) : r[1] = k
    BY <2>1, <2>3
  <2> DEFINE c == CHOOSE r \in Rows(d) : r[1] = k
  <2>5. c \in Rows(d) /\ c[1] = k
    BY <2>4
  <2>6. c = <<k, d[k]>>
    BY <2>2, <2>5
  <2>7. <<k, d[k]>>[2] = d[k]
    OBVIOUS
  <2> QED
    BY <2>6, <2>7
<1>3. Dict(Rows(d)) = [k \in DOMAIN d |-> (CHOOSE r \in Rows(d) : r[1] = k)[2]]
  BY <1>1 DEF Dict
<1> QED
  BY <1>2, <1>3

(* A dict of pairs is packed with the pair's two parts in the row. *)
LEMMA DictOfTriples ==
  ASSUME NEW d, d = [k \in DOMAIN d |-> d[k]],
         \A k \in DOMAIN d : d[k] = <<d[k][1], d[k][2]>>
  PROVE  Dict({<<r[1], <<r[2], r[3]>>>> : r \in {<<k, d[k][1], d[k][2]>> : k \in DOMAIN d}}) = d
<1>1. {<<r[1], <<r[2], r[3]>>>> : r \in {<<k, d[k][1], d[k][2]>> : k \in DOMAIN d}} = Rows(d)
  <2> DEFINE T == {<<k, d[k][1], d[k][2]>> : k \in DOMAIN d}
             U == {<<r[1], <<r[2], r[3]>>>> : r \in T}
  <2>1. ASSUME NEW x \in U PROVE x \in Rows(d)
    <3>1. PICK k \in DOMAIN d : x = <<k, <<d[k][1], d[k][2]>>>>
      BY <2>1
    <3> QED
      BY <3>1 DEF Rows
  <2>2. ASSUME NEW x \in Rows(d) PROVE x \in U
    <3>1. PICK k \in DOMAIN d : x = <<k, d[k]>>
      BY <2>2 DEF Rows
    <3> DEFINE r == <<k, d[k][1], d[k][2]>>
    <3>2. r \in T /\ x = <<r[1], <<r[2], r[3]>>>>
      BY <3>1
    <3> QED
      BY <3>2
  <2> QED
    BY <2>1, <2>2
<1> QED
  BY <1>1, DictOfRows

(* Members of Dicts are functions with values in W. *)
LEMMA DictsAreFunctions ==
  ASSUME NEW V, NEW W, NEW d \in Dicts(V, W)
  PROVE  d = [k \in DOMAIN d |-> d[k]] /\ DOMAIN d \subseteq V /\ \A k \in DOMAIN d : d[k] \in W
<1>1. PICK K \in SUBSET V : d \in [K -> W]
  BY DEF Dicts
<1> QED
  BY <1>1

(* The Transaction built from the fields of a row has every field of the transaction, the timestamp as text. *)
LEMMA TransactionOfRow ==
  ASSUME NEW V, NEW t \in TxnRecords(V)
  PROVE  Transaction(TransactionRow(t)) = Retyped(t, "str")
<1>1. Str(t.ts) = [as |-> "str", day |-> t.ts.day]
  BY DEF Str, TxnRecords, Timestamps
<1> QED
  BY <1>1 DEF Transaction, TransactionRow, Retyped, TxnRecords

(* With fast_datetime it has a datetime. *)
LEMMA DatetimeOfRow ==
  ASSUME NEW V, NEW t \in TxnRecords(V)
  PROVE  [Transaction(TransactionRow(t)) EXCEPT !.ts = fast_datetime(@)] = Retyped(t, "datetime")
<1>1. fast_datetime([as |-> "str", day |-> t.ts.day]) = [as |-> "datetime", day |-> t.ts.day]
  BY DEF fast_datetime
<1> QED
  BY <1>1, TransactionOfRow DEF Retyped, TxnRecords

(* A list of transactions is a function on its indices. *)
LEMMA TxnsAreRecords ==
  ASSUME NEW V, NEW txns \in Txns(V)
  PROVE  DOMAIN txns = 1..Len(txns) /\ \A i \in 1..Len(txns) : txns[i] \in TxnRecords(V)
BY DEF Txns

(* So it is with a list of transactions. *)
LEMMA TransactionsOfRows ==
  ASSUME NEW V, NEW txns \in Txns(V)
  PROVE  /\ MapSeq(Transaction, MapSeq(TransactionRow, txns))
              = MapSeq(LAMBDA t : Retyped(t, "str"), txns)
         /\ TransactionsFromFields(TransactionsFields(txns))
              = MapSeq(LAMBDA t : Retyped(t, "datetime"), txns)
<1>1. DOMAIN txns = 1..Len(txns) /\ \A i \in 1..Len(txns) : txns[i] \in TxnRecords(V)
  BY TxnsAreRecords
<1>2. /\ MapSeq(Transaction, MapSeq(TransactionRow, txns))
           = [i \in 1..Len(txns) |-> Transaction(TransactionRow(txns[i]))]
      /\ TransactionsFromFields(TransactionsFields(txns))
           = [i \in 1..Len(txns) |->
                [Transaction(TransactionRow(txns[i])) EXCEPT !.ts = fast_datetime(@)]]
  BY <1>1 DEF MapSeq, TransactionsFromFields, TransactionsFields
<1>3. \A i \in 1..Len(txns) :
        /\ Transaction(TransactionRow(txns[i])) = Retyped(txns[i], "str")
        /\ [Transaction(TransactionRow(txns[i])) EXCEPT !.ts = fast_datetime(@)]
             = Retyped(txns[i], "datetime")
  BY <1>1, TransactionOfRow, DatetimeOfRow
<1> QED
  BY <1>1, <1>2, <1>3 DEF MapSeq

(* The elements of a finite set can be put in a sequence, and are what is in it. *)
LEMMA SetToSeqLists ==
  ASSUME NEW S, IsFiniteSet(S)
  PROVE  SetToSeq(S) \in Seq(S) /\ ToSet(SetToSeq(S)) = S
<1>1. Cardinality(S) \in Nat /\ ExistsBijection(1 .. Cardinality(S), S)
  BY FS_CardinalityType
<1>2. PICK f : f \in Bijection(1 .. Cardinality(S), S)
  BY <1>1 DEF ExistsBijection
<1>3. f \in [1 .. Cardinality(S) -> S] /\ f \in Injection(1 .. Cardinality(S), S)
  BY <1>2, Fun_BijectionProperties
<1>4. f \in [1 .. Cardinality(S) -> S] /\ IsInjective(f)
  BY <1>3 DEF Injection
<1> DEFINE g == SetToSeq(S)
<1>5. g \in [1 .. Cardinality(S) -> S] /\ IsInjective(g)
  BY <1>4 DEF SetToSeq
<1>6. g \in Injection(1 .. Cardinality(S), S)
  BY <1>5 DEF Injection
<1>7. IsFiniteSet(1 .. Cardinality(S)) /\ Cardinality(1 .. Cardinality(S)) = Cardinality(S)
  BY <1>1, FS_Interval
<1>8. g \in Surjection(1 .. Cardinality(S), S)
  BY <1>6, <1>7, FS_Injection
<1>9. S = {g[i] : i \in 1 .. Cardinality(S)}
  BY <1>5, <1>8 DEF Surjection
<1> QED
  BY <1>1, <1>5, <1>9, SeqDef DEF ToSet

(* The count in front of a list of merged transactions says where the averages begin. *)
LEMMA MergedTransactionsOfFields ==
  ASSUME NEW V, NEW m \in [txns : Txns(V), averages : FiniteDicts(V, V)]
  PROVE  MergedTransactionsFromFields(MergedTransactionsFields(m))
           = [m EXCEPT !.txns = MapSeq(LAMBDA t : Retyped(t, "str"), m.txns)]
<1> DEFINE n == Len(m.txns)
           rows == MapSeq(TransactionRow, m.txns)
           tail == SetToSeq(Rows(m.averages))
           f == <<n>> \o rows \o tail
<1>1. m.txns \in Txns(V) /\ m.averages \in FiniteDicts(V, V) /\ n \in Nat
  BY DEF Txns
<1>2. rows = [i \in 1..n |-> TransactionRow(m.txns[i])]
  BY <1>1 DEF MapSeq, Txns
<1>3. m.averages = [k \in DOMAIN m.averages |-> m.averages[k]] /\ IsFiniteSet(DOMAIN m.averages)
  BY <1>1, DictsAreFunctions DEF FiniteDicts
<1>4. IsFiniteSet(Rows(m.averages))
  <2> DEFINE D == DOMAIN m.averages
             g == [k \in D |-> <<k, m.averages[k]>>]
  <2>1. g \in Surjection(D, Rows(m.averages))
    BY DEF Surjection, Rows
  <2> QED
    BY <1>3, <2>1, FS_Surjection
<1>5. tail \in Seq(Rows(m.averages)) /\ ToSet(tail) = Rows(m.averages)
  BY <1>4, SetToSeqLists
<1> DEFINE U == {n} \cup {TransactionRow(m.txns[i]) : i \in 1..n} \cup Rows(m.averages)
<1>6. <<n>> \in Seq(U) /\ rows \in Seq(U) /\ Len(rows) = n /\ tail \in Seq(U) /\ Len(tail) \in Nat
  <2>1. tail \in [1..Len(tail) -> Rows(m.averages)] /\ Len(tail) \in Nat
    BY <1>5
  <2>2. tail \in [1..Len(tail) -> U]
    BY <2>1
  <2>3. rows \in [1..n -> U]
    BY <1>2
  <2> HIDE DEF U, rows, tail, n
  <2>4. tail \in Seq(U) /\ rows \in Seq(U) /\ Len(rows) = n
    BY <1>1, <2>1, <2>2, <2>3, SeqDef
  <2> QED
    BY <2>1, <2>4 DEF U
<1> HIDE DEF U
<1>7. /\ f \in Seq(U) /\ Len(f) = 1 + n + Len(tail) /\ f[1] = n
      /\ \A i \in 1..n : f[1 + i] = rows[i]
      /\ \A i \in 1..Len(tail) : f[1 + n + i] = tail[i]
  <2> HIDE DEF n, rows, tail
  <2>1. /\ <<n>> \o rows \in Seq(U) /\ Len(<<n>> \o rows) = 1 + n
        /\ (<<n>> \o rows)[1] = n /\ \A i \in 1..n : (<<n>> \o rows)[1 + i] = rows[i]
    BY <1>1, <1>6
  <2> DEFINE front == <<n>> \o rows
  <2> HIDE DEF front
  <2>2. /\ front \in Seq(U) /\ Len(front) = 1 + n
        /\ front[1] = n /\ \A i \in 1..n : front[1 + i] = rows[i]
    BY <2>1 DEF front
  <2>3. /\ front \o tail \in Seq(U) /\ Len(front \o tail) = 1 + n + Len(tail)
        /\ \A i \in 1..(1 + n) : (front \o tail)[i] = front[i]
        /\ \A i \in 1..Len(tail) : (front \o tail)[1 + n + i] = tail[i]
    BY <1>1, <1>6, <2>2
  <2> QED
    BY <1>1, <2>2, <2>3 DEF front
<1>8. SubSeq(f, 2, 1 + n) = rows
  <2> HIDE DEF f, n, rows, tail
  <2>1. SubSeq(f, 2, 1 + n) = [i \in 1..n |-> f[1 + i]]
    BY <1>1, <1>6, <1>7
  <2>2. rows = [i \in 1..n |-> rows[i]]
    BY <1>6
  <2> QED
    BY <1>7, <2>1, <2>2
<1>9. SubSeq(f, 2 + n, Len(f)) = tail
  <2> HIDE DEF f, n, rows, tail
  <2>1. SubSeq(f, 2 + n, Len(f)) = [i \in 1..Len(tail) |-> f[1 + n + i]]
    BY <1>1, <1>6, <1>7
  <2>2. tail = [i \in 1..Len(tail) |-> tail[i]]
    BY <1>6
  <2> QED
    BY <1>7, <2>1, <2>2
<1>10. MergedTransactionsFields(m) = f
  BY DEF MergedTransactionsFields
<1>11. MergedTransactionsFromFields(f)
         = [txns |-> MapSeq(Transaction, rows), averages |-> Dict(Rows(m.averages))]
  <2>1. MergedTransactionsFromFields(f)
          = [txns |-> MapSeq(Transaction, SubSeq(f, 2, 1 + f[1])),
             averages |-> Dict(ToSet(SubSeq(f, 2 + f[1], Len(f))))]
    BY DEF MergedTransactionsFromFields
  <2> HIDE DEF f, n, rows, tail
  <2> QED
    BY <1>5, <1>7, <1>8, <1>9, <2>1
<1> DEFINE texts == MapSeq(LAMBDA t : Retyped(t, "str"), m.txns)
<1>12. MapSeq(Transaction, rows) = texts /\ Dict(Rows(m.averages)) = m.averages
  BY <1>1, <1>3, TransactionsOfRows, DictOfRows
<1>13. [m EXCEPT !.txns = texts] = [txns |-> texts, averages |-> m.averages]
  <2> HIDE DEF texts
  <2> QED
    OBVIOUS
<1> HIDE DEF f, n, rows, tail, texts
<1> QED
  BY <1>10, <1>11, <1>12, <1>13 DEF texts

(* deserialize_message after serialize: whatever the class of a message and whatever it
   holds, the reader has the value that the writer had, except that the timestamps of a
   Transactions are datetimes and those of a MergedTransactions are texts, whatever they were. *)
THEOREM MessagesRoundTrip ==
  ASSUME NEW V, NEW type \in DOMAIN Bodies(V), NEW body \in Bodies(V)[type]
  PROVE  DeserializeMessage(Serialize(type, body)) = AsRead(type, body)
<1>1. type \in {"TRANSACTIONS", "ACCOUNTS", "MAX_BY_BANK", "BANK_NAMES", "MERGED_BANK_DATA",
                "SUM_BY_PAYMENT_FORMAT", "AVG_BY_FORMAT", "MERGED_TRANSACTIONS", "GRAPH",
                "HIGH_DEGREE", "PATH_COUNTS", "COUNT"}
  BY DEF Bodies
<1>2. CASE type = "TRANSACTIONS"
  <2>1. body \in Txns(V)
    BY <1>2 DEF Bodies
  <2>2. DeserializeMessage(Serialize(type, body))
          = TransactionsFromFields(TransactionsFields(body))
    BY <1>2 DEF DeserializeMessage, Serialize, Pack
  <2> QED
    BY <1>2, <2>1, <2>2, TransactionsOfRows DEF AsRead
<1>3. CASE type = "ACCOUNTS"
  <2>0. AsRead(type, body) = body
    BY <1>3 DEF AsRead
  <2>1. body \in Seq([name : V, bank : V])
    BY <1>3 DEF Bodies
  <2>2. DeserializeMessage(Serialize(type, body)) = AccountsFromFields(AccountsFields(body))
    BY <1>3 DEF DeserializeMessage, Serialize, Pack
  <2>3. AccountsFromFields(AccountsFields(body))
          = [i \in 1..Len(body) |-> [name |-> body[i].name, bank |-> body[i].bank]]
    BY <2>1 DEF AccountsFromFields, AccountsFields, MapSeq
  <2>4. \A i \in 1..Len(body) : [name |-> body[i].name, bank |-> body[i].bank] = body[i]
    <3> DEFINE R == [name : V, bank : V]
    <3>1. \A i \in 1..Len(body) : body[i] \in R
      <4>1. body \in Seq(R)
        BY <2>1
      <4> HIDE DEF R
      <4> QED
        BY <4>1
    <3> QED
      BY <3>1
  <2>5. body = [i \in 1..Len(body) |-> body[i]]
    BY <2>1
  <2> QED
    BY <2>0, <2>2, <2>3, <2>4, <2>5
<1>4. CASE type = "MAX_BY_BANK"
  <2>0. AsRead(type, body) = body
    BY <1>4 DEF AsRead
  <2>1. body \in Dicts(V, V \X V)
    BY <1>4 DEF Bodies
  <2>2. DeserializeMessage(Serialize(type, body)) = MaxByBankFromFields(MaxByBankFields(body))
    BY <1>4 DEF DeserializeMessage, Serialize, Pack
  <2>3. body = [k \in DOMAIN body |-> body[k]] /\ \A k \in DOMAIN body : body[k] \in V \X V
    BY <2>1, DictsAreFunctions
  <2> QED
    BY <2>0, <2>2, <2>3, DictOfTriples DEF MaxByBankFromFields, MaxByBankFields
<1>5. CASE type = "BANK_NAMES"
  <2>0. AsRead(type, body) = body
    BY <1>5 DEF AsRead
  <2>1. body \in Dicts(V, V)
    BY <1>5 DEF Bodies
  <2>2. DeserializeMessage(Serialize(type, body)) = BankNamesFromFields(BankNamesFields(body))
    BY <1>5 DEF DeserializeMessage, Serialize, Pack
  <2> QED
    BY <2>0, <2>1, <2>2, DictsAreFunctions, DictOfRows DEF BankNamesFromFields, BankNamesFields
<1>6. CASE type = "MERGED_BANK_DATA"
  <2>0. AsRead(type, body) = body
    BY <1>6 DEF AsRead
  <2>1. body \in Seq(V \X V \X V \X V)
    BY <1>6 DEF Bodies
  <2>2. DeserializeMessage(Serialize(type, body))
          = MergedBankDataFromFields(MergedBankDataFields(body))
    BY <1>6 DEF DeserializeMessage, Serialize, Pack
  <2>3. MergedBankDataFromFields(MergedBankDataFields(body))
          = [i \in 1..Len(body) |-> <<body[i][1], body[i][2], body[i][3], body[i][4]>>]
    BY <2>1 DEF MergedBankDataFromFields, MergedBankDataFields, MapSeq
  <2>4. \A i \in 1..Len(body) : <<body[i][1], body[i][2], body[i][3], body[i][4]>> = body[i]
    BY <2>1
  <2>5. body = [i \in 1..Len(body) |-> body[i]]
    BY <2>1
  <2> QED
    BY <2>0, <2>2, <2>3, <2>4, <2>5
<1>7. CASE type = "SUM_BY_PAYMENT_FORMAT"
  <2>0. AsRead(type, body) = body
    BY <1>7 DEF AsRead
  <2>1. body \in Dicts(V, V \X V)
    BY <1>7 DEF Bodies
  <2>2. DeserializeMessage(Serialize(type, body))
          = SumByPaymentFormatFromFields(SumByPaymentFormatFields(body))
    BY <1>7 DEF DeserializeMessage, Serialize, Pack
  <2>3. body = [k \in DOMAIN body |-> body[k]] /\ \A k \in DOMAIN body : body[k] \in V \X V
    BY <2>1, DictsAreFunctions
  <2> QED
    BY <2>0, <2>2, <2>3, DictOfTriples DEF SumByPaymentFormatFromFields, SumByPaymentFormatFields
<1>8. CASE type = "AVG_BY_FORMAT"
  <2>0. AsRead(type, body) = body
    BY <1>8 DEF AsRead
  <2>1. body \in Dicts(V, V)
    BY <1>8 DEF Bodies
  <2>2. DeserializeMessage(Serialize(type, body)) = AvgByFormatFromFields(AvgByFormatFields(body))
    BY <1>8 DEF DeserializeMessage, Serialize, Pack
  <2> QED
    BY <2>0, <2>1, <2>2, DictsAreFunctions, DictOfRows DEF AvgByFormatFromFields, AvgByFormatFields
<1>9. CASE type = "MERGED_TRANSACTIONS"
  <2>1. body \in [txns : Txns(V), averages : FiniteDicts(V, V)]
    BY <1>9 DEF Bodies
  <2>2. DeserializeMessage(Serialize(type, body))
          = MergedTransactionsFromFields(MergedTransactionsFields(body))
    BY <1>9 DEF DeserializeMessage, Serialize, Pack
  <2> QED
    BY <1>9, <2>1, <2>2, MergedTransactionsOfFields DEF AsRead
<1>10. CASE type = "GRAPH"
  <2>0. AsRead(type, body) = body
    BY <1>10 DEF AsRead
  <2>1. body \in Dicts(V, (SUBSET V) \X (SUBSET V))
    BY <1>10 DEF Bodies
  <2>2. DeserializeMessage(Serialize(type, body)) = GraphFromFields(GraphFields(body))
    BY <1>10 DEF DeserializeMessage, Serialize, Pack
  <2>3. /\ body = [k \in DOMAIN body |-> body[k]]
        /\ \A k \in DOMAIN body : body[k] \in (SUBSET V) \X (SUBSET V)
    BY <2>1, DictsAreFunctions
  <2>4. \A k \in DOMAIN body : body[k] = <<body[k][1], body[k][2]>>
    BY <2>3
  <2> QED
    BY <2>0, <2>2, <2>3, <2>4, DictOfTriples DEF GraphFromFields, GraphFields
<1>11. CASE type = "HIGH_DEGREE"
  <2>0. AsRead(type, body) = body
    BY <1>11 DEF AsRead
  <2>1. body \in [hiOut : SUBSET V, hiIn : SUBSET V]
    BY <1>11 DEF Bodies
  <2>2. DeserializeMessage(Serialize(type, body)) = HighDegreeFromFields(HighDegreeFields(body))
    BY <1>11 DEF DeserializeMessage, Serialize, Pack
  <2> QED
    BY <2>0, <2>1, <2>2 DEF HighDegreeFromFields, HighDegreeFields
<1>12. CASE type = "PATH_COUNTS"
  <2>0. AsRead(type, body) = body
    BY <1>12 DEF AsRead
  <2>1. body \in Dicts(V, Nat)
    BY <1>12 DEF Bodies
  <2>2. DeserializeMessage(Serialize(type, body)) = PathCountsFromFields(PathCountsFields(body))
    BY <1>12 DEF DeserializeMessage, Serialize, Pack
  <2> QED
    BY <2>0, <2>1, <2>2, DictsAreFunctions, DictOfRows DEF PathCountsFromFields, PathCountsFields
<1>13. CASE type = "COUNT"
  BY <1>13 DEF DeserializeMessage, Serialize, Pack, TransactionCountFromFields,
               TransactionCountFields, AsRead
<1> QED
  BY <1>1, <1>2, <1>3, <1>4, <1>5, <1>6, <1>7, <1>8, <1>9, <1>10, <1>11, <1>12, <1>13
==============================================================================
