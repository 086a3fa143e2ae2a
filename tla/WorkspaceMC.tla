----------------------------- MODULE WorkspaceMC -----------------------------
(* Small instances of Workspace for TLC. *)
EXTENDS Workspace, TLC

CONSTANTS ann, bob, t1, t2, l1, l2, f1, none

TwoAccounts == {ann, bob}
TwoTasks == {t1, t2}
TwoLists == {l1, l2}
OneForm == {f1}
=============================================================================
