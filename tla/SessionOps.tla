----------------------------- MODULE SessionOps -----------------------------
(***************************************************************************)
(* The operations of one session (session.rs): a place for each type of    *)
(* operation, several of which can be in flight at once, and one           *)
(* login_status for all of them.  The calls of fns/signing.rs,             *)
(* fns/encryption.rs, fns/digest.rs and C_GetOperationState,               *)
(* C_SetOperationState and C_SessionCancel of fns/sessmgmt.rs work on      *)
(* these.  The write lock of the session makes each call one step.         *)
(*                                                                         *)
(* A key with CKA_ALWAYS_AUTHENTICATE makes its signature or decryption    *)
(* need a context specific login; what that login does to the token is     *)
(* modelled in Sessions.  Whether the mechanism accepts the data is left   *)
(* open: an update or a last step may fail, and finalizes the operation.   *)
(*                                                                         *)
(* AllowedUnlessNew and ActiveOrDone are the definitions after them with a *)
(* plausible mistake; nothing uses them.                                   *)
(***************************************************************************)
CONSTANTS
  OpTypes,         \* the types of operation the application uses
  None             \* no operation

AllTypes   == {"Search", "Encryption", "Decryption", "Digest", "Sign", "Verify"}
LoginTypes == {"Sign", "Decryption"}          \* set_operation with always_auth
Restorable == {"Digest", "Sign", "Verify"}    \* state_restore knows these

OpLogin == {"NotInitialized", "NotRequired", "Required", "LoginOk"}
Op == [login     : BOOLEAN,    \* its key needs a login for each operation
       inUse     : BOOLEAN,    \* it has been fed a part
       finalized : BOOLEAN,
       confirmed : BOOLEAN]    \* a context specific login was made for it

ASSUME SessionOpsAssumption ==
  /\ OpTypes \subseteq AllTypes
  /\ None \notin Op \cup OpTypes

VARIABLES
  ops,             \* SessionOperations
  loginStatus,     \* Session::login_status
  saved,           \* the last state C_GetOperationState returned
  latest           \* history: the type of the operation begun last

vars == <<ops, loginStatus, saved, latest>>

NewOp(login, inUse) ==
  [login |-> login, inUse |-> inUse, finalized |-> FALSE, confirmed |-> FALSE]

(* get_op, check_op: there is an operation, and it has not finished.       *)
ActiveOrDone(ty) == ops[ty] # None
Active(ty)       == ops[ty] # None /\ ~ops[ty].finalized

(* check_login_status lets operations go on in these two cases.            *)
AllowedUnlessNew == loginStatus # "NotInitialized"
Allowed          == loginStatus \in {"NotRequired", "LoginOk"}

Nothing == [ty \in OpTypes |-> None]
-----------------------------------------------------------------------------
Init ==
  /\ ops = Nothing
  /\ loginStatus = "NotInitialized"
  /\ saved = Nothing
  /\ latest = None

(* C_*Init: refused while an operation of the type is active.  A search    *)
(* has its results at once.                                                *)
Begin(ty, login) ==
  /\ ~Active(ty)
  /\ login => ty \in LoginTypes
  /\ ops' = [ops EXCEPT ![ty] = NewOp(login, ty = "Search")]
  /\ loginStatus' = IF login THEN "Required" ELSE "NotRequired"
  /\ latest' = ty
  /\ UNCHANGED saved

(* C_*Update.                                                              *)
Update(ty, ok) ==
  /\ ty # "Search"
  /\ Allowed
  /\ Active(ty)
  /\ ops' = [ops EXCEPT ![ty].inUse = TRUE, ![ty].finalized = ~ok]
  /\ UNCHANGED <<loginStatus, saved, latest>>

(* C_Sign, C_Digest and the like: only before any part was fed.  AES takes *)
(* C_Encrypt after parts as well, which to the operation is a Final, and   *)
(* may find too little room, which is an Update.                           *)
OneStep(ty) ==
  /\ ty # "Search"
  /\ Allowed
  /\ Active(ty)
  /\ ~ops[ty].inUse
  /\ ops' = [ops EXCEPT ![ty].inUse = TRUE, ![ty].finalized = TRUE]
  /\ UNCHANGED <<loginStatus, saved, latest>>

(* C_*Final.                                                               *)
Final(ty) ==
  /\ ty # "Search"
  /\ Allowed
  /\ Active(ty)
  /\ ops' = [ops EXCEPT ![ty].inUse = TRUE, ![ty].finalized = TRUE]
  /\ UNCHANGED <<loginStatus, saved, latest>>

(* C_SessionCancel with the flags of these types, C_*Init without a        *)
(* mechanism, C_FindObjectsFinal.  The login status stays.                 *)
Cancel(types) ==
  /\ ops' = [ty \in OpTypes |-> IF ty \in types THEN None ELSE ops[ty]]
  /\ UNCHANGED <<loginStatus, saved, latest>>

(* A context specific login that succeeds.                                 *)
ContextLogin ==
  /\ loginStatus = "Required"
  /\ loginStatus' = "LoginOk"
  /\ ops' = IF ops[latest] = None THEN ops ELSE [ops EXCEPT ![latest].confirmed = TRUE]
  /\ UNCHANGED <<saved, latest>>

(* C_GetOperationState saves those operations whose mechanism can: most    *)
(* digests, and signatures and verifications with an HMAC key, which never *)
(* needs a login.                                                          *)
Savable(ty) == ty \in Restorable /\ Active(ty) /\ ~ops[ty].login

SaveState(types) ==
  /\ types # {}
  /\ \A ty \in types : Savable(ty)
  /\ saved' = [ty \in OpTypes |-> IF ty \in types THEN ops[ty] ELSE None]
  /\ UNCHANGED <<ops, loginStatus, latest>>

(* C_SetOperationState.  A digest refuses the key that the other two need, *)
(* and is in place already when they find it missing.  What a restored     *)
(* operation replaces is not looked at.  A restored digest counts as used, *)
(* a restored HMAC does not.                                               *)
RestoreState(withKey) ==
  LET has(ty)  == ty \in OpTypes /\ saved[ty] # None
      takes(ty) == IF ty = "Digest" THEN has("Digest") /\ ~withKey
                   ELSE ty \in {"Sign", "Verify"} /\ has(ty) /\ withKey /\ ~has("Digest")
  IN
  /\ \E ty \in OpTypes : takes(ty)
  /\ ops' = [ty \in OpTypes |-> IF takes(ty) THEN NewOp(FALSE, ty = "Digest") ELSE ops[ty]]
  /\ UNCHANGED <<loginStatus, saved, latest>>

(* C_CloseSession and C_OpenSession; the application keeps the saved state.*)
NewSession ==
  /\ ops' = Nothing
  /\ loginStatus' = "NotInitialized"
  /\ latest' = None
  /\ UNCHANGED saved

Next ==
  \/ \E ty \in OpTypes, login \in BOOLEAN : Begin(ty, login)
  \/ \E ty \in OpTypes, ok \in BOOLEAN : Update(ty, ok)
  \/ \E ty \in OpTypes : OneStep(ty)
  \/ \E ty \in OpTypes : Final(ty)
  \/ \E types \in SUBSET OpTypes : Cancel(types)
  \/ ContextLogin
  \/ \E types \in SUBSET OpTypes : SaveState(types)
  \/ \E withKey \in BOOLEAN : RestoreState(withKey)
  \/ NewSession

Spec == Init /\ [][Next]_vars
-----------------------------------------------------------------------------
(* Types of all variables.  What was saved had not finished, and needed no *)
(* login: restoring it is not a way to use a key that does.                *)
SavedOp == {op \in Op : ~op.finalized /\ ~op.login}

TypeOK ==
  /\ ops \in [OpTypes -> Op \cup {None}]
  /\ loginStatus \in OpLogin
  /\ saved \in [OpTypes -> SavedOp \cup {None}]
  /\ latest \in OpTypes \cup {None}

(* The step feeds the operation of this type, or takes its result.         *)
Uses(ty) ==
  /\ Active(ty)
  /\ ops'[ty] # None
  /\ ops'[ty] # ops[ty]
  /\ \E f \in BOOLEAN : ops'[ty] = [ops[ty] EXCEPT !.inUse = TRUE, !.finalized = f]

(* An operation that needs a login of its own is not used before it, as    *)
(* long as it is the one begun last: neither other operations in flight,   *)
(* nor cancelled, saved and restored ones open a way around it.            *)
LatestNeedsItsLogin ==
  [][\A ty \in OpTypes :
       (Uses(ty) /\ ty = latest /\ ops[ty].login) => ops[ty].confirmed]_vars

(* A finished operation never becomes active again with what it was fed;   *)
(* only a new one, or a restored one, takes its place.                     *)
FinishedStaysFinished ==
  [][\A ty \in OpTypes :
       (ops[ty] # None /\ ops[ty].finalized /\ ops'[ty] # ops[ty]) =>
         \/ ops'[ty] = None
         \/ \E login \in BOOLEAN : ops'[ty] = NewOp(login, FALSE)
         \/ ty \in Restorable /\ saved[ty] # None /\ ops'[ty] = NewOp(FALSE, TRUE)]_vars
-----------------------------------------------------------------------------
(* The test of CKA_ALWAYS_AUTHENTICATE (tests/keys.rs): any use of the     *)
(* operation without its login fails.  But set_operation for another type  *)
(* overwrites the one login_status of the session.                         *)
EveryUseNeedsItsLogin ==
  [][\A ty \in OpTypes : (Uses(ty) /\ ops[ty].login) => ops[ty].confirmed]_vars
=============================================================================
