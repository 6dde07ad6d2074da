---------------------------- MODULE AuthRecords ----------------------------
(***************************************************************************)
(* The authentication record a token keeps for each PIN user (SO, USER) in *)
(* its storage (StorageAuthInfo of storage/aci.rs), and what checking a    *)
(* PIN against it does.  A record holds the storage master key, encrypted  *)
(* under a key derived from the PIN: with the right PIN it yields the key, *)
(* with any other PIN decryption fails.  The record is abstracted to that  *)
(* PIN, the key it wraps and the number of failed attempts since the last  *)
(* success.                                                                *)
(***************************************************************************)
EXTENDS Naturals

CONSTANTS
  Pins,            \* the PINs a caller can present
  Keys,            \* the storage master keys aci.reset can draw
  MaxAttempts      \* MAX_LOGIN_ATTEMPTS (10 in the code)

ASSUME MaxAttemptsAssumption == MaxAttempts \in Nat \ {0}

AuthRecord == [pin : Pins, key : Keys, attempts : 0..MaxAttempts]

(* key_to_user_data: a fresh record wraps the key and has no failures.     *)
NewRecord(pin, key) == [pin |-> pin, key |-> key, attempts |-> 0]

LockedLate(rec) == rec.attempts > MaxAttempts
Locked(rec) == rec.attempts >= MaxAttempts

(* aci.authenticate: a locked record is left as it is, the right PIN       *)
(* clears the failures, another PIN adds one.                              *)
AuthenticateUnlocking(rec, pin) ==
  [rec EXCEPT !.attempts = IF pin = rec.pin THEN 0
                           ELSE IF Locked(rec) THEN @ ELSE @ + 1]
Authenticate(rec, pin) ==
  [rec EXCEPT !.attempts = IF Locked(rec) THEN @
                           ELSE IF pin = rec.pin THEN 0
                           ELSE @ + 1]

(* auth_user reports success exactly when no failure is left on the record *)
(* it has just updated.                                                    *)
Accepts(rec, pin) == Authenticate(rec, pin).attempts = 0
=============================================================================
