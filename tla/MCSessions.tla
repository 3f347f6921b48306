------------------------------ MODULE MCSessions -------------------------------
(* Two spellings of one name and a second name; the passwords are symmetric. *)
EXTENDS Sessions, TLC

CONSTANTS pw1, pw2

MCKey == [u \in Names |-> IF u = "Ann" THEN "ann" ELSE u]
SamePasswords == Permutations(Passwords)
================================================================================
