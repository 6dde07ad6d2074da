--------------------------- MODULE NSSStore_proofs ---------------------------
(***************************************************************************)
(* For any PINs, objects and size of the cache: an inductive invariant of  *)
(* NSSStore, and the properties its run checks.                            *)
(*                                                                         *)
(* The properties speak of a login, of what is stored and of what is read; *)
(* the key in use reaches all three through the cache.  So the invariant   *)
(* says what the cache holds: for the entry "password" the right key only  *)
(* if the process was given the PIN, and for anything else, until a wrong  *)
(* PIN passes, the right key only.                                         *)
(***************************************************************************)
EXTENDS NSSStore, FiniteSetTheorems, TLAPS

Held(c) == {s \in Salts : c[s] # None}

CacheOK(c) ==
  /\ c \in [Salts -> EncKeys \cup {None}]
  /\ Cardinality(Held(c)) <= CacheMax + 1

(* The entry s of cache d comes from key, and the others are those of c.   *)
From(d, c, s, key) ==
  /\ CacheOK(d)
  /\ d[s] \in {None, Derived(c, s, key)}
  /\ \A r \in Salts \ {s} : d[r] \in {None, c[r]}

IInv ==
  /\ TypeOK
  /\ password # None => password.salt <= salts
  /\ \A o \in Ids : objects[o] # None => objects[o].salt <= salts
  /\ logged = "USER" => shown /\ password # None
  /\ ~mistaken /\ enckey # None => enckey = password
  /\ password # None /\ cache[Password] = password => shown
  /\ ~mistaken => \A s \in Salts \ {Password} : cache[s] \in {None, password}
  /\ StoredUnderThePin
  /\ ReadsRight
  /\ LoginKeepsItsKey
-----------------------------------------------------------------------------
LEMMA SaltsOfObjects ==
  /\ Password \in Salts
  /\ \A o \in Ids : \A x \in {"enc", "sig"} : <<o, x>> \in Salts \ {Password}
  BY NSSStoreAssumption DEF Salts, Password

LEMMA HeldFinite ==
  ASSUME NEW c
  PROVE  IsFiniteSet(Held(c)) /\ Cardinality(Held(c)) \in Nat
<1>1. Held(c) \in SUBSET Salts
  BY DEF Held
<1>2. IsFiniteSet(Held(c))
  BY <1>1, NSSStoreAssumption, FS_Subset
<1>3. Cardinality(Held(c)) \in Nat
  BY <1>2, FS_CardinalityType
<1> QED
  BY <1>2, <1>3

LEMMA EmptyOK ==
  /\ CacheOK(Empty)
  /\ \A s \in Salts : Empty[s] = None
<1>1. Held(Empty) = {}
  BY DEF Held, Empty
<1> QED
  BY <1>1, FS_EmptySet, NSSStoreAssumption DEF CacheOK, Empty

LEMMA OneHeldOK ==
  ASSUME NEW s \in Salts, NEW key \in EncKeys
  PROVE  CacheOK([Empty EXCEPT ![s] = key])
<1>1. Held([Empty EXCEPT ![s] = key]) = {s}
  BY NSSStoreAssumption DEF Held, Empty
<1>2. Cardinality({s}) = 1
  BY FS_Singleton
<1>3. Cardinality({s}) <= CacheMax + 1
  BY <1>2, NSSStoreAssumption
<1>4. [Empty EXCEPT ![s] = key] \in [Salts -> EncKeys \cup {None}]
  BY DEF Empty
<1> QED
  BY <1>1, <1>3, <1>4 DEF CacheOK

(* set_cached_key makes room before it adds a key.                         *)
LEMMA EvictedRoom ==
  ASSUME NEW c, CacheOK(c), NEW d \in Evicted(c)
  PROVE  /\ d \in [Salts -> EncKeys \cup {None}]
         /\ \A r \in Salts : d[r] \in {None, c[r]}
         /\ Cardinality(Held(d)) <= CacheMax
<1>1. Held(c) = {s \in Salts : c[s] # None}
  BY DEF Held
<1>2. CASE Cardinality(Held(c)) > CacheMax
  <2>1. PICK s \in Held(c) : d = [c EXCEPT ![s] = None]
    BY <1>1, <1>2 DEF Evicted
  <2>2. Held(d) = Held(c) \ {s}
    BY <2>1 DEF Held, CacheOK
  <2>3. IsFiniteSet(Held(c)) /\ Cardinality(Held(c)) \in Nat
    BY HeldFinite
  <2>4. Cardinality(Held(d)) = Cardinality(Held(c)) - 1
    BY <2>1, <2>2, <2>3, FS_RemoveElement
  <2>5. Cardinality(Held(d)) <= CacheMax
    BY <2>3, <2>4, NSSStoreAssumption DEF CacheOK
  <2> QED
    BY <2>1, <2>5 DEF CacheOK
<1>3. CASE ~(Cardinality(Held(c)) > CacheMax)
  <2>1. d = c
    BY <1>1, <1>3 DEF Evicted
  <2>2. Cardinality(Held(c)) \in Nat
    BY HeldFinite
  <2>3. Cardinality(Held(d)) <= CacheMax
    BY <1>3, <2>1, <2>2, NSSStoreAssumption
  <2> QED
    BY <2>1, <2>3 DEF CacheOK
<1> QED
  BY <1>2, <1>3

LEMMA DerivingFrom ==
  ASSUME NEW c, CacheOK(c), NEW s \in Salts, NEW key \in EncKeys, NEW d \in Deriving(c, s, key)
  PROVE  From(d, c, s, key)
<1>1. CASE c[s] # None
  BY <1>1 DEF Deriving, From, Derived
<1>2. CASE c[s] = None
  <2>1. PICK e \in Evicted(c) : d = [e EXCEPT ![s] = key]
    BY <1>2 DEF Deriving
  <2>2. /\ e \in [Salts -> EncKeys \cup {None}]
        /\ \A r \in Salts : e[r] \in {None, c[r]}
        /\ Cardinality(Held(e)) <= CacheMax
    BY EvictedRoom
  <2>3. Held(d) = Held(e) \cup {s}
    BY <2>1, <2>2, NSSStoreAssumption DEF Held
  <2>4. Cardinality(Held(d)) <= CacheMax + 1
    <3>1. IsFiniteSet(Held(e)) /\ Cardinality(Held(e)) \in Nat
      BY HeldFinite
    <3>2. Cardinality(Held(e) \cup {s}) \in {Cardinality(Held(e)), Cardinality(Held(e)) + 1}
      BY <3>1, FS_AddElement
    <3>3. Cardinality(Held(d)) \in Nat
      BY HeldFinite
    <3> QED
      BY <2>2, <2>3, <3>1, <3>2, <3>3, NSSStoreAssumption
  <2> QED
    BY <1>2, <2>1, <2>2, <2>4 DEF From, Derived, CacheOK
<1> QED
  BY <1>1, <1>2

LEMMA InvalidatedOK ==
  ASSUME NEW d, CacheOK(d), NEW s \in Salts
  PROVE  CacheOK(Invalidated(d, s))
<1>1. Held(Invalidated(d, s)) = Held(d) \ {s}
  BY DEF Held, Invalidated, CacheOK
<1>2. IsFiniteSet(Held(d)) /\ Cardinality(Held(d)) \in Nat
  BY HeldFinite
<1>3. Cardinality(Held(Invalidated(d, s))) <= Cardinality(Held(d))
  BY <1>1, <1>2, FS_RemoveElement
<1>4. Cardinality(Held(Invalidated(d, s))) \in Nat
  BY HeldFinite
<1>5. Cardinality(Held(Invalidated(d, s))) <= CacheMax + 1
  BY <1>2, <1>3, <1>4, NSSStoreAssumption DEF CacheOK
<1> QED
  BY <1>5 DEF CacheOK, Invalidated

(* What decrypting, or checking a signature, gives and leaves behind.      *)
LEMMA ReadFrom ==
  ASSUME NEW c, CacheOK(c), NEW s \in Salts, NEW key \in EncKeys, NEW right,
         NEW r \in Decrypting(c, s, key, right) \cup Verifying(c, s, key, right)
  PROVE  /\ From(r.cache, c, s, key)
         /\ r.what \in {"right", "other", "error"}
         /\ r.what = "right" <=> Derived(c, s, key) = right
<1>1. PICK d \in Deriving(c, s, key) :
        /\ r.what \in {"right", "other", "error"}
        /\ r.what = "right" <=> Derived(c, s, key) = right
        /\ r.cache = IF r.what = "error" THEN Invalidated(d, s) ELSE d
  BY DEF Decrypting, Verifying
<1>2. From(d, c, s, key)
  BY DerivingFrom
<1>3. From(Invalidated(d, s), c, s, key)
  BY <1>2, InvalidatedOK DEF From, Invalidated, CacheOK
<1> QED
  BY <1>1, <1>2, <1>3
-----------------------------------------------------------------------------
LEMMA Types ==
  ASSUME IInv
  PROVE  /\ CacheOK(cache)
         /\ password \in EncKeys \cup {None}
         /\ enckey \in EncKeys \cup {None}
         /\ None \notin EncKeys
  BY NSSStoreAssumption DEF IInv, TypeOK, CacheOK, Held

(* A PIN that auth_user takes is right, unless the process took a wrong    *)
(* one before or the right one is still cached; and one that it does not   *)
(* take leaves no key of its own.                                          *)
LEMMA AuthUserLeaves ==
  ASSUME IInv, NEW pin \in Pins, NEW check_only \in BOOLEAN, NEW a \in AuthUser(pin, check_only)
  PROVE  /\ a.ok \in BOOLEAN
         /\ a.enckey \in EncKeys \cup {None}
         /\ CacheOK(a.cache)
         /\ password = None => ~a.ok /\ a.cache = cache
         /\ \A s \in Salts \ {Password} : a.cache[s] \in {None, cache[s]}
         /\ password # None /\ a.cache[Password] = password => shown \/ IsRight(pin)
         /\ a.ok => shown \/ IsRight(pin)
         /\ a.ok /\ ~check_only => a.enckey # None
         /\ a.ok /\ enckey # None => a.enckey # None
         /\ ~a.ok => a.enckey = None
         /\ ~mistaken /\ a.ok /\ IsRight(pin) => a.enckey \in {None, password}
<1> DEFINE key == [pin |-> pin, salt |-> password.salt]
<1>1. CASE password = None
  <2>1. enckey = None
    BY <1>1 DEF IInv, TypeOK
  <2>2. a = [ok |-> FALSE, enckey |-> enckey, cache |-> cache]
    BY <1>1 DEF AuthUser
  <2> QED
    BY <1>1, <2>1, <2>2, Types
<1>2. CASE password # None
  <2>1. /\ password \in EncKeys /\ key \in EncKeys
        /\ IsRight(pin) <=> key = password
    BY <1>2, Types DEF EncKeys, IsRight
  <2> HIDE DEF key
  <2>2. CASE enckey = key
    <3>1. a = [ok |-> TRUE, enckey |-> enckey, cache |-> cache]
      BY <1>2, <2>2 DEF AuthUser, key
    <3>2. shown
      BY <2>1, <2>2, Types DEF IInv, TypeOK
    <3> QED
      BY <1>2, <2>1, <2>2, <3>1, <3>2, Types DEF IInv
  <2>3. CASE enckey # key
    <3>1. PICK d \in Decrypting(cache, Password, key, password) :
            a = [ok |-> Accepts(d.what), cache |-> d.cache,
                 enckey |-> IF Accepts(d.what) THEN OnSuccess(check_only, key) ELSE OnFailure(key)]
      BY <1>2, <2>3 DEF AuthUser, key
    <3>2. /\ From(d.cache, cache, Password, key)
          /\ d.what = "right" <=> Derived(cache, Password, key) = password
      BY <2>1, Types, SaltsOfObjects, ReadFrom
    <3>3. Derived(cache, Password, key) = password => shown \/ IsRight(pin)
      BY <1>2, <2>1 DEF Derived, IInv
    <3>4. a.enckey \in {None, key} /\ (a.ok <=> d.what = "right")
      BY <3>1 DEF Accepts, OnSuccess, OnFailure
    <3>5. d.cache[Password] = password => shown \/ IsRight(pin)
      BY <1>2, <3>2, <3>3 DEF From
    <3> QED
      BY <1>2, <2>1, <3>1, <3>2, <3>3, <3>4, <3>5, Types
         DEF From, Accepts, OnSuccess, OnFailure
  <2> QED
    BY <2>2, <2>3
<1> QED
  BY <1>1, <1>2

(* A new PIN has a salt no object has, and no key is left.                 *)
LEMMA SetUserPinLeaves ==
  ASSUME IInv, NEW pin \in Pins, NEW saved \in BOOLEAN, SetUserPin(pin, saved),
         objects' = objects
  PROVE  /\ password' \in EncKeys \cup {None}
         /\ salts' \in 0..MaxSalt
         /\ password' # None => password'.salt <= salts'
         /\ \A o \in Ids : objects'[o] # None => objects'[o].salt <= salts'
         /\ enckey' = None
         /\ mistaken' = FALSE
         /\ CacheOK(cache')
         /\ \A s \in Salts \ {Password} : cache'[s] = None
         /\ cache'[Password] # None => saved
         /\ password # None => password' # None
         /\ StoredUnderThePin'
<1> DEFINE key == [pin |-> pin, salt |-> salts + 1]
<1>1. salts \in 0..MaxSalt /\ salts + 1 \in 1..MaxSalt
  BY NSSStoreAssumption DEF IInv, TypeOK, SetUserPin
<1>2. key \in EncKeys /\ key # None /\ key.salt = salts + 1
  BY <1>1, Types DEF EncKeys
<1> HIDE DEF key
<1>3. /\ salts' = salts + 1
      /\ password' = IF saved THEN key ELSE password
      /\ cache' = IF saved THEN [Empty EXCEPT ![Password] = key] ELSE Empty
      /\ enckey' = None
      /\ mistaken' = FALSE
  BY DEF SetUserPin, key
<1>4. /\ CacheOK(cache')
      /\ \A s \in Salts \ {Password} : cache'[s] = None
      /\ cache'[Password] # None => saved
  BY <1>2, <1>3, EmptyOK, OneHeldOK, SaltsOfObjects DEF Empty
<1>5. objects \in [Ids -> Stored \cup {None}]
  BY DEF IInv, TypeOK
<1>6. ASSUME NEW o \in Ids, objects[o] # None
      PROVE  objects[o].salt \in 1..MaxSalt /\ objects[o].salt <= salts
  BY <1>5, <1>6 DEF IInv, Stored
<1>7. password # None => password.salt \in 1..MaxSalt /\ password.salt <= salts
  BY Types DEF IInv, EncKeys
<1>8. \A o \in Ids : objects'[o] # None => objects'[o].salt <= salts'
  BY <1>1, <1>3, <1>6
<1>9. password' # None => password'.salt <= salts'
  BY <1>1, <1>2, <1>3, <1>7
<1>10. StoredUnderThePin'
  <2>1. CASE saved
    BY <2>1, <1>1, <1>2, <1>3, <1>6 DEF StoredUnderThePin
  <2>2. CASE ~saved
    BY <2>2, <1>3 DEF IInv, StoredUnderThePin
  <2> QED
    BY <2>1, <2>2
<1> QED
  BY <1>1, <1>2, <1>3, <1>4, <1>8, <1>9, <1>10, Types
-----------------------------------------------------------------------------
LEMMA InitIInv == Init => IInv
<1> SUFFICES ASSUME Init
             PROVE  IInv
  OBVIOUS
<1>1. CacheOK(cache) /\ \A s \in Salts : cache[s] = None
  BY EmptyOK DEF Init
<1>2. TypeOK
  <2>1. history \in BOOLEAN \X BOOLEAN \X BOOLEAN
    BY DEF Init, history
  <2>2. salts \in 0..MaxSalt
    BY NSSStoreAssumption DEF Init
  <2> QED
    BY <1>1, <2>1, <2>2 DEF Init, TypeOK, CacheOK, Held
<1> QED
  BY <1>1, <1>2, SaltsOfObjects
     DEF Init, IInv, StoredUnderThePin, ReadsRight, LoginKeepsItsKey

LEMMA LoginIInv ==
  ASSUME IInv, NEW pin \in Pins, Login(pin)
  PROVE  IInv'
<1>1. PICK a \in AuthUser(pin, FALSE) :
        /\ enckey' = a.enckey /\ cache' = a.cache
        /\ logged' = IF a.ok THEN "USER" ELSE "none"
        /\ Takes(a, pin) /\ dropped' = FALSE
  BY DEF Login
<1>2. /\ shown' = (shown \/ IsRight(pin)) /\ outcome' = None
      /\ password' = password /\ salts' = salts /\ objects' = objects
  BY DEF Login
<1>3. mistaken' = (mistaken \/ (a.ok /\ ~IsRight(pin)))
  BY <1>1 DEF Takes
<1>4. TypeOK'
  <2>1. history' \in BOOLEAN \X BOOLEAN \X BOOLEAN
    BY <1>1, <1>2, <1>3, AuthUserLeaves DEF IInv, TypeOK, history, IsRight
  <2>2. /\ enckey' \in EncKeys \cup {None} /\ CacheOK(cache')
        /\ enckey' # None => logged' = "USER"
        /\ logged' \in {"none", "SO", "USER"}
    BY <1>1, <1>2, AuthUserLeaves DEF IInv, TypeOK
  <2> QED
    BY <1>2, <2>1, <2>2 DEF IInv, TypeOK, CacheOK, Held
<1>5. /\ ~mistaken' /\ enckey' # None => enckey' = password
      /\ ~mistaken' => \A s \in Salts \ {Password} : cache'[s] \in {None, password}
      /\ password # None /\ cache'[Password] = password => shown'
  BY <1>1, <1>2, <1>3, AuthUserLeaves DEF IInv
<1>6. StoredUnderThePin' /\ ReadsRight' /\ LoginKeepsItsKey'
  BY <1>1, <1>2, AuthUserLeaves DEF IInv, StoredUnderThePin, ReadsRight, LoginKeepsItsKey
<1> QED
  BY <1>1, <1>2, <1>4, <1>5, <1>6, AuthUserLeaves DEF IInv

LEMMA LoginContextIInv ==
  ASSUME IInv, NEW pin \in Pins, LoginContext(pin)
  PROVE  IInv'
<1>1. PICK a \in AuthUser(pin, TRUE) :
        /\ enckey' = a.enckey /\ cache' = a.cache
        /\ Takes(a, pin) /\ dropped' = (dropped \/ ~a.ok)
  BY DEF LoginContext
<1>2. /\ shown' = (shown \/ IsRight(pin)) /\ outcome' = None
      /\ password' = password /\ salts' = salts /\ objects' = objects
      /\ logged = "USER" /\ logged' = logged
  BY DEF LoginContext
<1>3. mistaken' = (mistaken \/ (a.ok /\ ~IsRight(pin)))
  BY <1>1 DEF Takes
<1>4. TypeOK'
  <2>1. history' \in BOOLEAN \X BOOLEAN \X BOOLEAN
    BY <1>1, <1>2, <1>3, AuthUserLeaves DEF IInv, TypeOK, history, IsRight
  <2>2. /\ enckey' \in EncKeys \cup {None} /\ CacheOK(cache')
        /\ enckey' # None => logged' = "USER"
        /\ logged' \in {"none", "SO", "USER"}
    BY <1>1, <1>2, AuthUserLeaves DEF IInv, TypeOK
  <2> QED
    BY <1>2, <2>1, <2>2 DEF IInv, TypeOK, CacheOK, Held
<1>5. /\ ~mistaken' /\ enckey' # None => enckey' = password
      /\ ~mistaken' => \A s \in Salts \ {Password} : cache'[s] \in {None, password}
      /\ password # None /\ cache'[Password] = password => shown'
  BY <1>1, <1>2, <1>3, AuthUserLeaves DEF IInv
<1>6. StoredUnderThePin' /\ ReadsRight' /\ LoginKeepsItsKey'
  BY <1>1, <1>2, AuthUserLeaves DEF IInv, StoredUnderThePin, ReadsRight, LoginKeepsItsKey
<1> QED
  BY <1>1, <1>2, <1>4, <1>5, <1>6, AuthUserLeaves DEF IInv

LEMMA InitPinIInv ==
  ASSUME IInv, NEW pin \in Pins, NEW saved \in BOOLEAN, InitPin(pin, saved)
  PROVE  IInv'
<1>1. /\ SetUserPin(pin, saved) /\ objects' = objects /\ outcome' = None
      /\ shown' = (shown \/ saved) /\ dropped' = dropped
      /\ logged = "SO" /\ logged' = "SO"
  BY DEF InitPin
<1>2. TypeOK'
  BY <1>1, SetUserPinLeaves DEF IInv, TypeOK, CacheOK, Held, history
<1>3. ReadsRight' /\ LoginKeepsItsKey'
  BY <1>1 DEF ReadsRight, LoginKeepsItsKey
<1> QED
  BY <1>1, <1>2, <1>3, SetUserPinLeaves DEF IInv

LEMMA SetPinIInv ==
  ASSUME IInv, NEW old \in Pins, NEW pin \in Pins, NEW saved \in BOOLEAN, SetPin(old, pin, saved)
  PROVE  IInv'
<1>1. PICK a \in AuthUser(old, logged = "USER") :
        IF a.ok
        THEN SetUserPin(pin, saved) /\ shown' = (shown \/ saved \/ IsRight(old))
        ELSE /\ enckey' = a.enckey /\ cache' = a.cache
             /\ shown' = (shown \/ IsRight(old))
             /\ UNCHANGED <<password, salts, mistaken>>
  BY DEF SetPin
<1>2. /\ dropped' = (logged = "USER") /\ outcome' = None
      /\ objects' = objects /\ logged' = logged
  BY DEF SetPin
<1>3. (logged = "USER") \in BOOLEAN
  OBVIOUS
<1>4. CASE a.ok
  <2>1. SetUserPin(pin, saved) /\ shown' = (shown \/ saved \/ IsRight(old))
    BY <1>1, <1>4
  <2>2. TypeOK'
    BY <1>2, <2>1, SetUserPinLeaves DEF IInv, TypeOK, CacheOK, Held, history, IsRight
  <2>3. ReadsRight' /\ LoginKeepsItsKey'
    BY <1>2 DEF ReadsRight, LoginKeepsItsKey
  <2> QED
    BY <1>2, <2>1, <2>2, <2>3, SetUserPinLeaves DEF IInv
<1>5. CASE ~a.ok
  <2>1. /\ enckey' = a.enckey /\ cache' = a.cache /\ shown' = (shown \/ IsRight(old))
        /\ password' = password /\ salts' = salts /\ mistaken' = mistaken
    BY <1>1, <1>5
  <2> DEFINE check_only == logged = "USER"
  <2>2. check_only \in BOOLEAN /\ a \in AuthUser(old, check_only)
    OBVIOUS
  <2> HIDE DEF check_only
  <2>3. /\ enckey' = None /\ CacheOK(cache')
        /\ \A s \in Salts \ {Password} : cache'[s] \in {None, cache[s]}
        /\ password # None /\ cache'[Password] = password => shown'
    BY <1>5, <2>1, <2>2, AuthUserLeaves
  <2>4. TypeOK'
    BY <1>2, <2>1, <2>3 DEF IInv, TypeOK, CacheOK, Held, history, IsRight
  <2>5. StoredUnderThePin' /\ ReadsRight' /\ LoginKeepsItsKey'
    BY <1>2, <2>1 DEF IInv, StoredUnderThePin, ReadsRight, LoginKeepsItsKey
  <2> QED
    BY <1>2, <2>1, <2>3, <2>4, <2>5 DEF IInv
<1> QED
  BY <1>4, <1>5

LEMMA StoreIInv ==
  ASSUME IInv, NEW o \in Ids, NEW kind \in Kinds, Store(o, kind)
  PROVE  IInv'
<1> DEFINE stored == [kind |-> kind, key |-> enckey, salt |-> password.salt, mistaken |-> mistaken]
<1>1. /\ enckey \in EncKeys /\ password \in EncKeys /\ logged = "USER"
      /\ mistaken \in BOOLEAN
  BY Types DEF Store, IInv, TypeOK, history
<1>2. /\ objects' = [objects EXCEPT ![o] = stored] /\ outcome' = None
      /\ password' = password /\ salts' = salts /\ logged' = logged /\ enckey' = enckey
      /\ shown' = shown /\ mistaken' = mistaken /\ dropped' = dropped
  BY DEF Store, history
<1>3. PICK c \in IF kind = "public" THEN {cache} ELSE Deriving(cache, <<o, "enc">>, enckey) :
        cache' \in IF kind = "secret" THEN {c} ELSE Deriving(c, <<o, "sig">>, enckey)
  BY DEF Store
<1>4. /\ CacheOK(c) /\ c[Password] \in {None, cache[Password]}
      /\ \A s \in Salts \ {Password} : c[s] \in {None, cache[s], enckey}
  BY <1>1, <1>3, Types, SaltsOfObjects, DerivingFrom DEF From, Derived
<1>5. /\ CacheOK(cache') /\ cache'[Password] \in {None, cache[Password]}
      /\ \A s \in Salts \ {Password} : cache'[s] \in {None, cache[s], enckey}
  <2>1. CASE kind = "secret"
    BY <2>1, <1>3, <1>4
  <2>2. CASE kind # "secret"
    <3>1. From(cache', c, <<o, "sig">>, enckey)
      BY <2>2, <1>1, <1>3, <1>4, SaltsOfObjects, DerivingFrom
    <3> QED
      BY <3>1, <1>4, SaltsOfObjects DEF From, Derived
  <2> QED
    BY <2>1, <2>2
<1>6. stored \in Stored /\ stored # None
  <2>1. stored \in Stored
    BY <1>1 DEF Stored, EncKeys
  <2> HIDE DEF stored
  <2> QED
    BY <2>1, NSSStoreAssumption
<1> HIDE DEF stored
<1>7. stored.key = enckey /\ stored.salt = password.salt /\ stored.mistaken = mistaken
  BY DEF stored
<1>8. TypeOK'
  BY <1>2, <1>5, <1>6 DEF IInv, TypeOK, CacheOK, Held, history
<1>9. /\ ~mistaken => enckey = password
      /\ ~mistaken' => \A s \in Salts \ {Password} : cache'[s] \in {None, password}
      /\ password # None /\ cache'[Password] = password => shown
  BY <1>1, <1>2, <1>5, Types DEF IInv
<1>10. ASSUME NEW j \in Ids, objects'[j] # None
       PROVE  /\ objects'[j].salt <= salts
              /\ ~objects'[j].mistaken /\ objects'[j].salt = password.salt
                   => objects'[j].key = password
  <2>1. CASE j = o
    <3>1. objects'[j] = stored
      BY <2>1, <1>2 DEF IInv, TypeOK
    <3> QED
      BY <3>1, <1>1, <1>7, <1>9, Types DEF IInv
  <2>2. CASE j # o
    <3>1. objects'[j] = objects[j]
      BY <2>2, <1>2 DEF IInv, TypeOK
    <3> QED
      BY <3>1, <1>10 DEF IInv, StoredUnderThePin
  <2> QED
    BY <2>1, <2>2
<1>11. StoredUnderThePin' /\ ReadsRight' /\ LoginKeepsItsKey'
  BY <1>2, <1>10 DEF IInv, StoredUnderThePin, ReadsRight, LoginKeepsItsKey
<1> QED
  BY <1>2, <1>8, <1>9, <1>10, <1>11 DEF IInv

LEMMA FetchIInv ==
  ASSUME IInv, NEW o \in Ids, Fetch(o)
  PROVE  IInv'
<1> DEFINE obj == objects[o]
<1>1. /\ obj \in Stored /\ obj.key \in EncKeys
      /\ password' = password /\ salts' = salts /\ objects' = objects
      /\ logged' = logged /\ enckey' = enckey
      /\ shown' = shown /\ mistaken' = mistaken /\ dropped' = dropped
  BY DEF Fetch, history, IInv, TypeOK, Stored
<1>2. CASE enckey = None
  <2>1. /\ cache' = cache
        /\ outcome' = [of |-> o, what |-> IF obj.kind = "public" THEN "right" ELSE "encrypted"]
    BY <1>2 DEF Fetch
  <2>2. /\ outcome' \in Outcome /\ outcome'.what \in {"right", "encrypted"}
    BY <2>1 DEF Outcome
  <2>3. TypeOK'
    BY <1>1, <2>1, <2>2 DEF IInv, TypeOK, CacheOK, Held, history
  <2>4. StoredUnderThePin' /\ ReadsRight' /\ LoginKeepsItsKey'
    BY <1>1, <1>2, <2>2 DEF IInv, StoredUnderThePin, ReadsRight, LoginKeepsItsKey
  <2> QED
    BY <1>1, <2>1, <2>3, <2>4 DEF IInv
<1>3. CASE enckey # None
  <2>1. enckey \in EncKeys /\ logged = "USER"
    BY <1>3, Types DEF IInv, TypeOK
  <2>2. PICK p \in IF obj.kind = "public" THEN {[what |-> "right", cache |-> cache]}
                   ELSE Decrypting(cache, <<o, "enc">>, enckey, obj.key) :
          \E v \in IF obj.kind = "secret" \/ p.what = "error" THEN {p}
                   ELSE Verifying(p.cache, <<o, "sig">>, enckey, obj.key) :
            /\ outcome' = [of |-> o, what |-> IF v.what = "error" THEN "error" ELSE p.what]
            /\ cache' = v.cache
    BY <1>3 DEF Fetch
  <2>3. PICK v \in IF obj.kind = "secret" \/ p.what = "error" THEN {p}
                   ELSE Verifying(p.cache, <<o, "sig">>, enckey, obj.key) :
            /\ outcome' = [of |-> o, what |-> IF v.what = "error" THEN "error" ELSE p.what]
            /\ cache' = v.cache
    BY <2>2
  <2>4. /\ CacheOK(p.cache) /\ p.what \in {"right", "other", "error"}
        /\ p.cache[Password] \in {None, cache[Password]}
        /\ \A s \in Salts \ {Password} : p.cache[s] \in {None, cache[s], enckey}
        /\ ~mistaken /\ obj.key = password => p.what = "right"
    <3>1. CASE obj.kind = "public"
      BY <2>2, <3>1, Types
    <3>2. CASE obj.kind # "public"
      <4>1. /\ From(p.cache, cache, <<o, "enc">>, enckey)
            /\ p.what \in {"right", "other", "error"}
            /\ p.what = "right" <=> Derived(cache, <<o, "enc">>, enckey) = obj.key
        BY <2>1, <2>2, <3>2, Types, SaltsOfObjects, ReadFrom
      <4>2. ~mistaken => Derived(cache, <<o, "enc">>, enckey) = password
        BY <2>1, Types, SaltsOfObjects DEF Derived, IInv
      <4>3. Derived(cache, <<o, "enc">>, enckey) \in {enckey, cache[<<o, "enc">>]}
        BY DEF Derived
      <4>4. <<o, "enc">> \in Salts \ {Password} /\ Password \in Salts
        BY SaltsOfObjects
      <4> QED
        BY <4>1, <4>2, <4>3, <4>4 DEF From
    <3> QED
      BY <3>1, <3>2
  <2>5. /\ CacheOK(cache') /\ v.what \in {"right", "other", "error"}
        /\ cache'[Password] \in {None, cache[Password]}
        /\ \A s \in Salts \ {Password} : cache'[s] \in {None, cache[s], enckey}
        /\ ~mistaken /\ obj.key = password => v.what = "right"
    <3>1. CASE obj.kind = "secret" \/ p.what = "error"
      BY <2>3, <2>4, <3>1
    <3>2. CASE ~(obj.kind = "secret" \/ p.what = "error")
      <4>1. /\ From(v.cache, p.cache, <<o, "sig">>, enckey)
            /\ v.what \in {"right", "other", "error"}
            /\ v.what = "right" <=> Derived(p.cache, <<o, "sig">>, enckey) = obj.key
        BY <2>1, <2>3, <2>4, <3>2, SaltsOfObjects, ReadFrom
      <4>2. Derived(p.cache, <<o, "sig">>, enckey) \in {enckey, p.cache[<<o, "sig">>]}
        BY DEF Derived
      <4>3. <<o, "sig">> \in Salts \ {Password} /\ Password \in Salts
        BY SaltsOfObjects
      <4>4. ~mistaken => Derived(p.cache, <<o, "sig">>, enckey) = password
        <5>1. ~mistaken => enckey = password /\ cache[<<o, "sig">>] \in {None, password}
          BY <2>1, <4>3, Types DEF IInv
        <5>2. p.cache[<<o, "sig">>] \in {None, cache[<<o, "sig">>], enckey}
          BY <2>4, <4>3
        <5> QED
          BY <5>1, <5>2 DEF Derived
      <4> QED
        BY <2>3, <2>4, <4>1, <4>2, <4>3, <4>4 DEF From
    <3> QED
      BY <3>1, <3>2
  <2>6. /\ outcome' \in Outcome /\ outcome'.of = o /\ outcome'.what # "encrypted"
        /\ ~mistaken /\ obj.key = password => outcome'.what = "right"
    BY <2>3, <2>4, <2>5 DEF Outcome
  <2>7. TypeOK'
    BY <1>1, <2>5, <2>6 DEF IInv, TypeOK, CacheOK, Held, history
  <2>8. StoredUnderThePin' /\ ReadsRight' /\ LoginKeepsItsKey'
    BY <1>1, <1>3, <2>6 DEF IInv, StoredUnderThePin, ReadsRight, LoginKeepsItsKey
  <2>9. /\ ~mistaken => \A s \in Salts \ {Password} : cache'[s] \in {None, password}
        /\ password # None /\ cache'[Password] = password => shown
    BY <1>3, <2>5, Types DEF IInv
  <2> QED
    BY <1>1, <2>7, <2>8, <2>9 DEF IInv
<1> QED
  BY <1>2, <1>3

LEMMA OtherIInv ==
  ASSUME IInv, LoginSO \/ Logout \/ InitToken \/ Restart \/ UNCHANGED vars
  PROVE  IInv'
<1>1. CASE UNCHANGED vars
  BY <1>1 DEF vars, process, history, IInv, TypeOK, StoredUnderThePin, ReadsRight, LoginKeepsItsKey
<1>2. CASE LoginSO \/ Logout
  <2>1. /\ password' = password /\ salts' = salts /\ objects' = objects /\ outcome' = None
        /\ cache' = cache /\ enckey' \in {None, enckey} /\ logged' \in {"none", "SO"}
        /\ logged' = "none" => enckey' = None
        /\ shown' = shown /\ mistaken' = mistaken /\ dropped' = dropped
        /\ enckey' = None
    BY <1>2 DEF LoginSO, Logout, history, IInv, TypeOK
  <2>2. TypeOK'
    BY <2>1 DEF IInv, TypeOK, CacheOK, Held, history
  <2> QED
    BY <2>1, <2>2 DEF IInv, StoredUnderThePin, ReadsRight, LoginKeepsItsKey
<1>3. CASE InitToken \/ Restart
  <2>1. /\ password' = password /\ salts' = salts /\ outcome' = None
        /\ \A o \in Ids : objects'[o] \in {None, objects[o]}
        /\ objects' \in [Ids -> Stored \cup {None}]
        /\ logged' = "none" /\ enckey' = None /\ cache' = Empty
        /\ shown' = FALSE /\ mistaken' = FALSE /\ dropped' = FALSE
    BY <1>3 DEF InitToken, Restart, IInv, TypeOK
  <2>2. TypeOK'
    BY <2>1, EmptyOK DEF IInv, TypeOK, CacheOK, Held, history
  <2>3. \A s \in Salts : cache'[s] = None
    BY <2>1, EmptyOK
  <2>4. \A o \in Ids : objects'[o] # None => objects'[o] = objects[o]
    BY <2>1
  <2> QED
    BY <2>1, <2>2, <2>3, <2>4, SaltsOfObjects
       DEF IInv, StoredUnderThePin, ReadsRight, LoginKeepsItsKey
<1> QED
  BY <1>1, <1>2, <1>3

LEMMA NextIInv == IInv /\ [Next]_vars => IInv'
  BY LoginIInv, LoginContextIInv, InitPinIInv, SetPinIInv, FetchIInv, StoreIInv, OtherIInv
     DEF Next
-----------------------------------------------------------------------------
(* The inductive invariant: which keys are cached, and for what.           *)
THEOREM StoreInvariance == Spec => []IInv
<1> QED
  BY InitIInv, NextIInv, PTL DEF Spec

(* Every variable keeps its type, a key is kept under a login of the user  *)
(* only, and the cache of keys never holds more than one over its bound.   *)
THEOREM StoreTypeCorrect == Spec => []TypeOK
<1>1. IInv => TypeOK
  BY DEF IInv
<1> QED
  BY <1>1, StoreInvariance, PTL

(* Without the PIN being given to this process once, no call makes         *)
(* auth_user take another, whatever its key decrypts the entry to.         *)
THEOREM FirstLogin == Spec => []FirstLoginNeedsThePin
<1>1. IInv => FirstLoginNeedsThePin
  BY DEF IInv, FirstLoginNeedsThePin
<1> QED
  BY <1>1, StoreInvariance, PTL

(* What NSSStorage::store encrypts, it encrypts under the PIN that is set. *)
THEOREM StoredRight == Spec => []StoredUnderThePin
<1>1. IInv => StoredUnderThePin
  BY DEF IInv
<1> QED
  BY <1>1, StoreInvariance, PTL

(* What is encrypted under the PIN that is set NSSStorage::fetch reads.    *)
THEOREM FetchedRight == Spec => []ReadsRight
<1>1. IInv => ReadsRight
  BY DEF IInv
<1> QED
  BY <1>1, StoreInvariance, PTL

(* A user logged in keeps the key, except through a failed check of the    *)
(* PIN or a change of it.                                                  *)
THEOREM KeyKept == Spec => []LoginKeepsItsKey
<1>1. IInv => LoginKeepsItsKey
  BY DEF IInv
<1> QED
  BY <1>1, StoreInvariance, PTL
=============================================================================
