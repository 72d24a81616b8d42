-------------------------- MODULE MCCommitProtocol --------------------------
(***************************************************************************)
(* Small logs for CommitProtocol.  Table "t" is healthy, "u" is the one    *)
(* whose destination write may fail.                                       *)
(***************************************************************************)
EXTENDS CommitProtocol

Rec(k, t) == [kind |-> k, tab |-> t]

Txn(tabs) == <<Rec("begin", "t")>>
             \o [i \in DOMAIN tabs |-> Rec("data", tabs[i])]
             \o <<Rec("end", "t")>>

\* A transaction over both tables, a logical message, a small transaction.
WalMixed == Txn(<<"t", "u">>) \o <<Rec("message", "t")>> \o Txn(<<"t">>)

\* A transaction large enough to be staged twice, then a small one.
WalLarge == Txn(<<"t", "u", "t">>) \o Txn(<<"t">>)

=============================================================================
