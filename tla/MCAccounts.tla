----------------------------- MODULE MCAccounts -----------------------------
(***************************************************************************)
(* Accounts for TLC: a small machine whose integers end at 16 where u64    *)
(* ends, and expires_in from each class the cast tells apart: served,      *)
(* past year 9999, past chrono's dates, past its durations, negative.      *)
(***************************************************************************)
EXTENDS Accounts

AskClasses == {1, 5, 6, 7, 8, 15}
=============================================================================
