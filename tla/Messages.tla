------------------------------ MODULE Messages ------------------------------
(***************************************************************************)
(* The wire format of the messages between the controllers.  A message is  *)
(* a header and the packed list that _fields returns; the reader rebuilds  *)
(* the value from that list in _from_fields.  A dict or a set is packed in *)
(* an order nobody relies on, so its rows are a set here; a list keeps its *)
(* order.  The header's client is left out (one client), and its producer  *)
(* and number too (Dedup and Merge model them).                            *)
(***************************************************************************)
EXTENDS Integers, Sequences, FiniteSets, Functions, SequencesExt

Rows(f) == {<<k, f[k]>> : k \in DOMAIN f}
Dict(rows) ==
  [k \in {r[1] : r \in rows} |-> (CHOOSE r \in rows : r[1] = k)[2]]

\* A timestamp is a datetime or its text, [as, day]: msgpack writes str() of a datetime and a
\* text as it is, so the type is lost on the wire; fast_datetime reads the text back.
Str(ts) == [ts EXCEPT !.as = "str"]
fast_datetime(text) == [text EXCEPT !.as = "datetime"]
\* A transaction is packed as its ten fields in the order of its class, received before paid.
TransactionRow(t) ==
  <<Str(t.ts), t.fb, t.fa, t.tb, t.ta, t.recv, t.rcur, t.paid, t.cur, t.fmt>>
Transaction(r) ==
  [ts |-> r[1], fb |-> r[2], fa |-> r[3], tb |-> r[4], ta |-> r[5],
   recv |-> r[6], rcur |-> r[7], paid |-> r[8], cur |-> r[9], fmt |-> r[10]]
MapSeq(Op(_), s) == [i \in DOMAIN s |-> Op(s[i])]

TransactionsFields(txns) == MapSeq(TransactionRow, txns)
TransactionsFromFields(f) ==
  MapSeq(LAMBDA r : [Transaction(r) EXCEPT !.ts = fast_datetime(@)], f)
AccountsFields(accs) == MapSeq(LAMBDA a : <<a.name, a.bank>>, accs)
AccountsFromFields(f) == MapSeq(LAMBDA r : [name |-> r[1], bank |-> r[2]], f)
MaxByBankFields(d) == {<<b, d[b][1], d[b][2]>> : b \in DOMAIN d}
MaxByBankFromFields(f) == Dict({<<r[1], <<r[2], r[3]>>>> : r \in f})
BankNamesFields(d) == Rows(d)
BankNamesFromFields(f) == Dict(f)
MergedBankDataFields(entries) == entries
MergedBankDataFromFields(f) == MapSeq(LAMBDA r : <<r[1], r[2], r[3], r[4]>>, f)
SumByPaymentFormatFields(d) == {<<k, d[k][1], d[k][2]>> : k \in DOMAIN d}
SumByPaymentFormatFromFields(f) == Dict({<<r[1], <<r[2], r[3]>>>> : r \in f})
AvgByFormatFields(d) == Rows(d)
AvgByFormatFromFields(f) == Dict(f)

\* The transactions and the averages share one list; the count says where the first end.
\* This reader calls no fast_datetime: the timestamps it hands on are texts.
MergedTransactionsFields(m) ==
  <<Len(m.txns)>> \o MapSeq(TransactionRow, m.txns) \o SetToSeq(Rows(m.averages))
MergedTransactionsFromFields(f) ==
  [txns |-> MapSeq(Transaction, SubSeq(f, 2, 1 + f[1])),
   averages |-> Dict(ToSet(SubSeq(f, 2 + f[1], Len(f))))]

GraphFields(nodes) == {<<n, nodes[n][1], nodes[n][2]>> : n \in DOMAIN nodes}
GraphFromFields(f) == Dict({<<r[1], <<r[2], r[3]>>>> : r \in f})
HighDegreeFields(h) == <<h.hiOut, h.hiIn>>
HighDegreeFromFields(f) == [hiOut |-> f[1], hiIn |-> f[2]]
PathCountsFields(counts) == Rows(counts)
PathCountsFromFields(f) == Dict(f)
TransactionCountFields(n) == <<n>>
TransactionCountFromFields(f) == f[1]

Pack(type, body) ==
  CASE type = "TRANSACTIONS" -> TransactionsFields(body)
    [] type = "ACCOUNTS" -> AccountsFields(body)
    [] type = "MAX_BY_BANK" -> MaxByBankFields(body)
    [] type = "BANK_NAMES" -> BankNamesFields(body)
    [] type = "MERGED_BANK_DATA" -> MergedBankDataFields(body)
    [] type = "SUM_BY_PAYMENT_FORMAT" -> SumByPaymentFormatFields(body)
    [] type = "AVG_BY_FORMAT" -> AvgByFormatFields(body)
    [] type = "MERGED_TRANSACTIONS" -> MergedTransactionsFields(body)
    [] type = "GRAPH" -> GraphFields(body)
    [] type = "HIGH_DEGREE" -> HighDegreeFields(body)
    [] type = "PATH_COUNTS" -> PathCountsFields(body)
    [] type = "COUNT" -> TransactionCountFields(body)
Serialize(type, body) == [type |-> type, fields |-> Pack(type, body)]
DeserializeMessage(m) ==
  CASE m.type = "TRANSACTIONS" -> TransactionsFromFields(m.fields)
    [] m.type = "ACCOUNTS" -> AccountsFromFields(m.fields)
    [] m.type = "MAX_BY_BANK" -> MaxByBankFromFields(m.fields)
    [] m.type = "BANK_NAMES" -> BankNamesFromFields(m.fields)
    [] m.type = "MERGED_BANK_DATA" -> MergedBankDataFromFields(m.fields)
    [] m.type = "SUM_BY_PAYMENT_FORMAT" -> SumByPaymentFormatFromFields(m.fields)
    [] m.type = "AVG_BY_FORMAT" -> AvgByFormatFromFields(m.fields)
    [] m.type = "MERGED_TRANSACTIONS" -> MergedTransactionsFromFields(m.fields)
    [] m.type = "GRAPH" -> GraphFromFields(m.fields)
    [] m.type = "HIGH_DEGREE" -> HighDegreeFromFields(m.fields)
    [] m.type = "PATH_COUNTS" -> PathCountsFromFields(m.fields)
    [] m.type = "COUNT" -> TransactionCountFromFields(m.fields)
==============================================================================
