------------------------------ MODULE Oracle ------------------------------
(***************************************************************************)
(* scripts/gen_input_output.py: the expected answers, computed from the    *)
(* client's files on one machine.  Each use case has two versions, over    *)
(* the whole table (gen_ucN_results) and over its chunks (_ucN_streaming). *)
(* A row is a line of the file; bank ids are read as integers.             *)
(***************************************************************************)
EXTENDS UseCases

Usd(rows) == SelectSeq(rows, LAMBDA r : r.cur = USD)
\* "YYYY/MM/DD hh:mm" is compared with a date as text: a time of the day itself is greater.
FromDay(r, d) == r.ts.day >= d
UpToDay(r, d) == r.ts.day < d
PeriodA(rows) == SelectSeq(rows, LAMBDA r : FromDay(r, 1) /\ UpToDay(r, 6))
PeriodB(rows) == SelectSeq(rows, LAMBDA r : FromDay(r, 6) /\ UpToDay(r, 16))
Joined(chunks) == FlattenSeq(chunks)

GenUC1(rows) ==
  MapSeq(LAMBDA r : <<r.fb.id, r.fa, r.tb.id, r.ta, r.paid>>,
         SelectSeq(Usd(rows), LAMBDA r : r.paid < 5000))
UC1Streaming(chunks) == FlattenSeq(MapSeq(GenUC1, chunks))

\* idxmax: the first row that attains the maximum of its bank.
IdxMax(rows, bank) ==
  LET of == {i \in DOMAIN rows : rows[i].fb.id = bank} IN
  Min({i \in of : \A j \in of : rows[j].paid <= rows[i].paid})
Banks(rows) == {rows[i].fb.id : i \in DOMAIN rows}
\* drop_duplicates: the first name of a bank.
NameOf(accounts, bank) ==
  accounts[Min({i \in DOMAIN accounts : accounts[i].bank.id = bank})].name
Named(best, accounts) ==
  {<<b, best[b][1], best[b][2], NameOf(accounts, b)>> :
     b \in (DOMAIN best) \cap {accounts[i].bank.id : i \in DOMAIN accounts}}
BestOf(rows) ==
  [b \in Banks(rows) |-> <<rows[IdxMax(rows, b)].fa, rows[IdxMax(rows, b)].paid>>]
GenUC2(rows, accounts) == Named(BestOf(Usd(rows)), accounts)
\* Mutant: a later chunk wins a tie.
BetterOfLast(best, cand) ==
  [b \in (DOMAIN best) \cup (DOMAIN cand) |->
     IF b \notin DOMAIN best \/ (b \in DOMAIN cand /\ cand[b][2] >= best[b][2])
     THEN cand[b] ELSE best[b]]
BetterOf(best, cand) ==
  [b \in (DOMAIN best) \cup (DOMAIN cand) |->
     IF b \notin DOMAIN best \/ (b \in DOMAIN cand /\ cand[b][2] > best[b][2])
     THEN cand[b] ELSE best[b]]
UC2Streaming(chunks, accounts) ==
  Named(Fold(LAMBDA best, c : BetterOf(best, BestOf(Usd(c))), Empty, chunks), accounts)

SumByFormat(rows) ==
  Fold(LAMBDA d, r : AddSum(d, r.fmt, <<r.paid, 1>>), Empty, PeriodA(Usd(rows)))
BelowAverage(rows, avg) ==
  MapSeq(LAMBDA r : <<r.fb.id, r.fa, r.fmt, r.paid>>,
         SelectSeq(PeriodB(Usd(rows)),
                   LAMBDA r : r.fmt \in DOMAIN avg /\ r.paid * 100 * avg[r.fmt][2] < avg[r.fmt][1]))
GenUC3(rows) == BelowAverage(rows, SumByFormat(rows))
UC3Pass1(chunks) ==
  Fold(LAMBDA d, s : Fold(LAMBDA e, f : AddSum(e, f, s[f]), d, SetToSeq(DOMAIN s)),
           Empty, MapSeq(SumByFormat, chunks))
UC3Pass2(chunks, avg) == FlattenSeq(MapSeq(LAMBDA c : BelowAverage(c, avg), chunks))

\* Pairs with enough intermediaries, and the accounts at their ends.
EdgesOf(rows) == {<<<<r.fb.id, r.fa>>, <<r.tb.id, r.ta>>>> : r \in ToSet(PeriodA(Usd(rows)))}
UC4PairsToAccounts(E) == UNION {{p[1], p[2]} : p \in Qualifying(E)}
GenUC4(rows) == UC4PairsToAccounts(EdgesOf(rows))
UC4Streaming(chunks) == UC4PairsToAccounts(UNION ToSet(MapSeq(EdgesOf, chunks)))

GenUC5(rows) ==
  Len(SelectSeq(rows, LAMBDA r :
    /\ FromDay(r, 1) /\ UpToDay(r, 6)
    /\ r.fmt = "Wire" \/ r.fmt = "ACH"
    /\ r.paid * RateOf(r.ts.day, r.cur) < 100 * RateUnit))
UC5Streaming(chunks) == Fold(LAMBDA n, c : n + GenUC5(c), 0, chunks)

\* The two versions give the same rows for the same file, however it is cut into chunks.
VersionsAgree(chunks, accounts) ==
  LET rows == Joined(chunks) IN
  /\ UC1Streaming(chunks) = GenUC1(rows)
  /\ UC2Streaming(chunks, accounts) = GenUC2(rows, accounts)
  /\ UC3Pass2(chunks, UC3Pass1(chunks)) = GenUC3(rows)
  /\ UC4Streaming(chunks) = GenUC4(rows)
  /\ UC5Streaming(chunks) = GenUC5(rows)
==============================================================================
