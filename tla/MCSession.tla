----------------------------- MODULE MCSession -----------------------------
(* Instances of Session for TLC. *)
EXTENDS Session, TLC

TwoAndOne == "trans" :> 2 @@ "accs" :> 1

\* UC1 reads the transactions only, UC2 both streams.
OneAndTwo == "uc1" :> {"trans"} @@ "uc2" :> {"trans", "accs"}

\* Two workers and files of three lines: the bound falls inside a line.
InsideLine == {<<0, 2, 6, 9, 11>>}

\* The bound falls on the first byte of the third line.
OnLineStart == {<<0, 2, 5, 7, 10>>}
=============================================================================
