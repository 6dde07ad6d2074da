---------------------------- MODULE MCCallLocks ----------------------------
(* Instances of CallLocks for TLC, with and without the functions that     *)
(* take the lock of a session before that of the token.                    *)
EXTENDS CallLocks

TokenLast == {"SetPIN", "SignInit"}
OtherFunctions == AllFunctions \ TokenLast
=============================================================================
