------------------------------ MODULE NSSStore ------------------------------
(***************************************************************************)
(* A token kept in NSS databases (storage/nssdb/mod.rs, ci.rs): its one    *)
(* PIN, the objects whose sensitive attributes are encrypted and whose     *)
(* authenticated attributes are signed under keys derived from it, and the *)
(* process that keeps the PIN's key while a user is logged in.             *)
(*                                                                         *)
(* The key of a PIN is that PIN with the salt it was set with, and setting *)
(* a PIN draws a new salt.  Each thing encrypted or signed has a salt of   *)
(* its own too, and the keys derived from it are cached under that salt.   *)
(* Decrypting with another key than the right one mostly fails, since      *)
(* CKM_AES_CBC_PAD finds no padding; sometimes it gives other data.        *)
(*                                                                         *)
(* Handles of objects are in Objects, sessions in Sessions.  The database  *)
(* has no other writer here, and reads do not fail.                        *)
(*                                                                         *)
(* NeverEvicts, AcceptsAny, KeptOnFailure and DropsChecked are the         *)
(* definitions after them with a plausible mistake; nothing uses them.     *)
(***************************************************************************)
EXTENDS Naturals, FiniteSets

CONSTANTS
  Pins,
  Lucky,           \* wrong PINs whose keys decrypt to other data, not to an error
  Ids,             \* bound: objects in the database
  MaxSalt,         \* bound: PINs set
  CacheMax,        \* MAX_KEY_CACHE_SIZE
  None

EncKeys  == [pin : Pins, salt : 1..MaxSalt]
Password == <<None, "enc">>
Salts    == {Password} \cup (Ids \X {"enc", "sig"})
Kinds    == {"public", "private", "secret"}

Stored == [kind : Kinds, key : EncKeys,
           salt : 1..MaxSalt,       \* history: of the PIN set at the time
           mistaken : BOOLEAN]      \* history: stored after a wrong PIN passed
Outcome == [of : Ids, what : {"right", "other", "encrypted", "error"}]

ASSUME NSSStoreAssumption ==
  /\ Lucky \subseteq Pins
  /\ MaxSalt \in Nat \ {0}
  /\ CacheMax \in Nat
  /\ IsFiniteSet(Salts)
  /\ None \notin EncKeys \cup Stored \cup Outcome \cup Ids

VARIABLES
  password,        \* the entry "password": the PIN that is set, and its salt
  salts,           \* history: how many PINs were set
  objects,         \* nssPublic and nssPrivate
  logged,          \* Token::logged
  enckey,          \* KeysWithCaching::enckey
  cache,           \* KeysWithCaching::cache: which key each was derived from
  outcome,         \* history: what the last read of an object gave
  shown,           \* history: this process was given the PIN that is set
  mistaken,        \* history: it took another PIN for that one
  dropped          \* history: a check of a wrong PIN, or a new PIN, took the
                   \* key from the user who is logged in

process == <<logged, enckey, cache>>
history == <<shown, mistaken, dropped>>
vars    == <<password, salts, objects, process, outcome, history>>
-----------------------------------------------------------------------------
Empty == [s \in Salts |-> None]

(* set_cached_key: what the cache may be after a key was put in; pop_last  *)
(* makes room, and salts are random.                                       *)
NeverEvicts(c)  == {c}
Evicted(c) ==
  LET held == {s \in Salts : c[s] # None} IN
  IF Cardinality(held) > CacheMax THEN {[c EXCEPT ![s] = None] : s \in held} ELSE {c}

(* derive_key_internal: from the cache whoever put it there, or from key.  *)
Derived(c, s, key)  == IF c[s] # None THEN c[s] ELSE key
Deriving(c, s, key) == IF c[s] # None THEN {c} ELSE {[d EXCEPT ![s] = key] : d \in Evicted(c)}
Invalidated(c, s)   == [c EXCEPT ![s] = None]

(* decrypt_data of what was encrypted under right: the results, each with  *)
(* the cache it leaves.                                                    *)
Decrypting(c, s, key, right) ==
  LET used == Derived(c, s, key)
      what == IF used = right THEN "right" ELSE IF used.pin \in Lucky THEN "other" ELSE "error"
  IN  {[what |-> what, cache |-> IF what = "error" THEN Invalidated(d, s) ELSE d] :
         d \in Deriving(c, s, key)}

(* check_signature.                                                        *)
Verifying(c, s, key, right) ==
  LET what == IF Derived(c, s, key) = right THEN "right" ELSE "error"
  IN  {[what |-> what, cache |-> IF what = "error" THEN Invalidated(d, s) ELSE d] :
         d \in Deriving(c, s, key)}
-----------------------------------------------------------------------------
(* NSSStorage::auth_user for CKU_USER: the results, and the key and cache  *)
(* they leave.  A key that is the current one is not looked at further.    *)
AcceptsAny(what) == what # "error"
Accepts(what)    == what = "right"

KeptOnFailure(key) == key
OnFailure(key)     == None

DropsChecked(check_only, key) == IF check_only THEN None ELSE key
OnSuccess(check_only, key)    == IF check_only /\ enckey = None THEN None ELSE key

AuthUser(pin, check_only) ==
  LET key == [pin |-> pin, salt |-> password.salt] IN
  IF password = None THEN {[ok |-> FALSE, enckey |-> enckey, cache |-> cache]}
  ELSE IF enckey = key THEN {[ok |-> TRUE, enckey |-> enckey, cache |-> cache]}
  ELSE {[ok |-> Accepts(d.what), cache |-> d.cache,
         enckey |-> IF Accepts(d.what) THEN OnSuccess(check_only, key) ELSE OnFailure(key)] :
          d \in Decrypting(cache, Password, key, password)}

(* set_user_pin: the new entry is encrypted under its key, which the new   *)
(* cache keeps; then it is saved, or fails to be.  The objects remain as   *)
(* they are.                                                               *)
SetUserPin(pin, saved) ==
  LET key == [pin |-> pin, salt |-> salts + 1] IN
  /\ salts < MaxSalt
  /\ salts' = salts + 1
  /\ password' = IF saved THEN key ELSE password
  /\ enckey' = None
  /\ cache' = IF saved THEN [Empty EXCEPT ![Password] = key] ELSE Empty
  /\ mistaken' = FALSE

IsRight(pin)  == password # None /\ pin = password.pin
Takes(a, pin) == mistaken' = (mistaken \/ (a.ok /\ ~IsRight(pin)))
-----------------------------------------------------------------------------
Init ==
  /\ password = None
  /\ salts = 0
  /\ objects = [o \in Ids |-> None]
  /\ logged = "none"
  /\ enckey = None
  /\ cache = Empty
  /\ outcome = None
  /\ shown = FALSE
  /\ mistaken = FALSE
  /\ dropped = FALSE

(* C_Login as CKU_USER.                                                    *)
Login(pin) ==
  /\ logged = "none"
  /\ \E a \in AuthUser(pin, FALSE) :
       /\ enckey' = a.enckey
       /\ cache' = a.cache
       /\ logged' = IF a.ok THEN "USER" ELSE "none"
       /\ Takes(a, pin)
       /\ dropped' = FALSE
  /\ shown' = (shown \/ IsRight(pin))
  /\ outcome' = None
  /\ UNCHANGED <<password, salts, objects>>

(* C_Login as CKU_SO, which needs no PIN but that none is set.             *)
LoginSO ==
  /\ logged = "none" /\ password = None
  /\ logged' = "SO"
  /\ outcome' = None
  /\ UNCHANGED <<password, salts, objects, enckey, cache, history>>

(* C_Login as CKU_CONTEXT_SPECIFIC checks the PIN again.                   *)
LoginContext(pin) ==
  /\ logged = "USER"
  /\ \E a \in AuthUser(pin, TRUE) :
       /\ enckey' = a.enckey
       /\ cache' = a.cache
       /\ Takes(a, pin)
       /\ dropped' = (dropped \/ ~a.ok)
  /\ shown' = (shown \/ IsRight(pin))
  /\ outcome' = None
  /\ UNCHANGED <<password, salts, objects, logged>>

(* C_InitPIN.                                                              *)
InitPin(pin, saved) ==
  /\ logged = "SO"
  /\ SetUserPin(pin, saved)
  /\ shown' = (shown \/ saved)
  /\ outcome' = None
  /\ UNCHANGED <<objects, logged, dropped>>

(* C_SetPIN: whoever is not logged in is for the time of the call, and the *)
(* old PIN is checked once more.  It fails for the SO.                     *)
SetPin(old, pin, saved) ==
  /\ logged # "SO"
  /\ \E a \in AuthUser(old, logged = "USER") :
       IF a.ok
       THEN SetUserPin(pin, saved) /\ shown' = (shown \/ saved \/ IsRight(old))
       ELSE /\ enckey' = a.enckey
            /\ cache' = a.cache
            /\ shown' = (shown \/ IsRight(old))
            /\ UNCHANGED <<password, salts, mistaken>>
  /\ dropped' = (logged = "USER")
  /\ outcome' = None
  /\ UNCHANGED <<objects, logged>>

(* C_Logout: unset_key leaves the cache as it is.                          *)
Logout ==
  /\ logged # "none"
  /\ logged' = "none"
  /\ enckey' = None
  /\ outcome' = None
  /\ UNCHANGED <<password, salts, objects, cache, history>>

(* NSSStorage::store, of an object the next id is for.  What is not stored *)
(* because no key is there leaves no trace.                                *)
Store(o, kind) ==
  LET enc == IF kind = "public" THEN {cache} ELSE Deriving(cache, <<o, "enc">>, enckey) IN
  /\ logged # "none" /\ enckey # None
  /\ objects[o] = None
  /\ objects' = [objects EXCEPT ![o] = [kind |-> kind, key |-> enckey,
                                        salt |-> password.salt, mistaken |-> mistaken]]
  /\ \E c \in enc :
       cache' \in IF kind = "secret" THEN {c} ELSE Deriving(c, <<o, "sig">>, enckey)
  /\ outcome' = None
  /\ UNCHANGED <<password, salts, logged, enckey, history>>

(* NSSStorage::fetch.  Without a key what the table has is given as it is, *)
(* and nothing is verified.                                                *)
Fetch(o) ==
  LET obj  == objects[o]
      plain == IF obj.kind = "public" THEN {[what |-> "right", cache |-> cache]}
               ELSE Decrypting(cache, <<o, "enc">>, enckey, obj.key)
  IN
  /\ obj # None
  /\ obj.kind = "public" \/ logged # "none"
  /\ IF enckey = None
     THEN /\ outcome' = [of |-> o, what |-> IF obj.kind = "public" THEN "right" ELSE "encrypted"]
          /\ UNCHANGED cache
     ELSE \E p \in plain :
            \E v \in IF obj.kind = "secret" \/ p.what = "error" THEN {p}
                     ELSE Verifying(p.cache, <<o, "sig">>, enckey, obj.key) :
              /\ outcome' = [of |-> o, what |-> IF v.what = "error" THEN "error" ELSE p.what]
              /\ cache' = v.cache
  /\ UNCHANGED <<password, salts, objects, logged, enckey, history>>

(* C_InitToken asks for the login of the SO, so that only a token without  *)
(* a PIN is initialized again.                                             *)
InitToken ==
  /\ logged = "none" /\ password = None
  /\ objects' = [o \in Ids |-> None]
  /\ enckey' = None /\ cache' = Empty
  /\ shown' = FALSE /\ mistaken' = FALSE /\ dropped' = FALSE
  /\ outcome' = None
  /\ UNCHANGED <<password, salts, logged>>

(* C_Finalize or a crash, and C_Initialize.                                *)
Restart ==
  /\ logged' = "none" /\ enckey' = None /\ cache' = Empty
  /\ shown' = FALSE /\ mistaken' = FALSE /\ dropped' = FALSE
  /\ outcome' = None
  /\ UNCHANGED <<password, salts, objects>>

Next ==
  \/ \E pin \in Pins : Login(pin) \/ LoginContext(pin)
  \/ \E pin \in Pins, saved \in BOOLEAN :
       InitPin(pin, saved) \/ \E old \in Pins : SetPin(old, pin, saved)
  \/ \E o \in Ids : Fetch(o) \/ \E kind \in Kinds : Store(o, kind)
  \/ LoginSO \/ Logout \/ InitToken \/ Restart

Spec == Init /\ [][Next]_vars
-----------------------------------------------------------------------------
(* Types of all variables; there is a key under a login only, and no more  *)
(* than CacheMax + 1 are kept.                                             *)
TypeOK ==
  /\ password \in EncKeys \cup {None}
  /\ salts \in 0..MaxSalt
  /\ objects \in [Ids -> Stored \cup {None}]
  /\ logged \in {"none", "SO", "USER"}
  /\ enckey \in EncKeys \cup {None}
  /\ cache \in [Salts -> EncKeys \cup {None}]
  /\ outcome \in Outcome \cup {None}
  /\ history \in BOOLEAN \X BOOLEAN \X BOOLEAN
  /\ enckey # None => logged = "USER"
  /\ Cardinality({s \in Salts : cache[s] # None}) <= CacheMax + 1

(* Nobody is logged in as the user by a process that was never given the   *)
(* PIN that is set: the first wrong PIN is refused, even if its key        *)
(* decrypts the entry to something.                                        *)
FirstLoginNeedsThePin == logged = "USER" => shown

(* Unless a wrong PIN passed, what is stored is encrypted under the PIN    *)
(* set at the time, so that another process reads it: a wrong PIN that     *)
(* was only checked, or a PIN being changed, leaves no other key behind.   *)
StoredUnderThePin ==
  \A o \in Ids :
    objects[o] # None /\ ~objects[o].mistaken /\ objects[o].salt = password.salt
      => objects[o].key = password

(* What is encrypted under the PIN that is set is read right as long as    *)
(* there is a key, unless a wrong PIN passed: neither failed attempts, nor *)
(* keys derived for them, nor a full cache get in the way.                 *)
ReadsRight ==
  ~mistaken /\ outcome # None /\ outcome.what \in {"other", "error"}
    => objects[outcome.of].key # password

(* A user who is logged in keeps the key, through checks of the PIN and    *)
(* reads of any outcome: the values they read are decrypted.               *)
LoginKeepsItsKey ==
  logged = "USER" /\ ~dropped =>
    /\ enckey # None
    /\ outcome # None => outcome.what # "encrypted"
=============================================================================
