# Kryoptic in TLA+

Kryoptic is a PKCS#11 software token: a library a program loads, through which
it opens sessions on slots, logs in to tokens, and uses the objects and keys a
token keeps in a database. This directory holds a specification of the part of
it that has state and can be checked: TLA+ modules, the TLC configurations that
check them on small instances, and theorems proved with TLAPS. Source paths
below are relative to `src/src/`.

The state that matters is spread over several places that have to agree: a map
from session handles to slots (`lib.rs`), the sessions of each slot (`slot.rs`),
the login of each token (`token.rs`), the master key in memory
(`storage/aci.rs`), the flags reported to callers, and a database that outlives
the process (`storage/`). The code updates them one after the other, under
reader-writer locks, with errors possible in between. That is what the
specification is about.

## 1. The system

| Part | State it keeps | Operations | Interacts with |
|---|---|---|---|
| Global state (`lib.rs`, `fns/general.rs`) | `State`: slots, `sessionmap`, `next_handle`, behind the lock `STATE`; `CONFIG` | C_Initialize, C_Finalize; resolving handles and slots for every other call | owns the slots; every function enters here |
| Slot (`slot.rs`) | the token and each session, each behind a lock of its own | add, drop, visit sessions; change all their states | token, sessions |
| Session (`session.rs`, `fns/sessmgmt.rs`) | its reported state, nine places for operations, one `login_status` | C_OpenSession, C_CloseSession, C_CloseAllSessions, C_Login, C_Logout, C_SessionCancel, C_Get/SetOperationState | token (login), mechanisms (operations) |
| Token (`token.rs`, `fns/stmgmt.rs`) | `logged`, info flags, session objects, object handles | C_InitToken, C_InitPIN, C_SetPIN, login, logout, object functions | storage; called under its lock |
| Standard storage and ACI (`storage/format.rs`, `storage/aci.rs`) | the master key; authentication records wrap it under each PIN | reinit, auth_user, unauth_user, set_user_pin, encrypting attributes | raw storage |
| SQLite storage (`storage/sqlite.rs`) | tables of objects and meta data | one transaction per store/fetch | the database file, other processes |
| NSS storage (`storage/nssdb/`) | NSS databases, a cache of keys | the same interface, another format | NSS database files |
| Objects and handles (`token.rs`, `fns/objmgmt.rs`, `object/`) | handle to UID map, session objects | create, copy, destroy, find, attributes | storage, sessions, factories |
| Key management (`fns/keymgmt.rs`) | none of its own | generate, derive, wrap, unwrap | mechanisms, objects |
| Operations (`mechanism.rs`, `fns/signing.rs`, `fns/encryption.rs`, `fns/digest.rs`) | in_use, finalized | init, update, final, one-step, message functions | session, mechanisms |
| Mechanisms (`ossl/`, `native/`) | the context of the algorithm, buffers, counters of blocks and IVs | the same calls, for one algorithm | OpenSSL |
| FIPS (`fips/`) | an indicator per session | tables of approved mechanisms | operations, key management |
| Configuration, encodings, attributes, RNG | none, or data | parsing and conversion | everything |

What is hard in it:

* **Copies of one fact.** Which sessions exist is kept in `sessionmap` and in
  the slots; who is logged in, in the token and in the state of every session;
  whether a PIN is locked, in the database and in the token's flags; the master
  key, in memory and, wrapped, in one record per user.
* **Partial failure and the end of the process.** C_InitToken writes four times
  to storage, each in a transaction of its own, and changes memory in between.
  C_Login has code to take the login back when a session refuses the new state; no
  session ever does. C_GenerateKeyPair takes its first object back when the second
  cannot be stored, and that can fail as well.
* **Concurrency.** Calls of several threads take `STATE`, a session lock and a
  token lock; C_Login and C_Logout visit all sessions while they hold the token.
* **Long sequences.** Lockout after ten failures counts attempts made through
  four functions and over restarts; operations of several types are in flight
  in one session and share one login status; saved operations come back later.
  A key's promise that its value never left the token depends on every key that
  value came from or went to.
* **Handles and objects.** A handle is a number of this process; the object it
  names is in memory or in a database that other processes change. Objects end
  with sessions, with the login, at C_InitToken, or not at all.
* **Data in parts.** Applications cut their data where they like, give output
  buffers that may be too small, and ask for lengths in between; what does not
  fill a block or a tag has to wait for the next call.

What makes each part correct, in a sentence: the copies agree after every call;
a login never outlives its sessions, and never holds another key than the
database; what has been locked stays locked until somebody entitled to it
unlocks it; calls return; an operation is used only while it is active and as
its key demands; a handle names the object it was given to or nothing; private
objects stay behind a login, and read-only sessions read; what a key claims
about its past is so; an encryption depends on the data alone and not on how it
was cut; messages asked for alike get different IVs. Where the code keeps less than
this, the property says so and section 3 lists it.

## 2. The modules

| Module | What it specifies |
|---|---|
| `AuthRecords` | an authentication record and what checking a PIN does to it (`storage/aci.rs`) |
| `Sessions` | slots, sessions, logins, C_InitToken and PINs: one action per function, one call per step |
| `LoginContract` | what callers may rely on about sessions and logins; implemented by `Sessions` and, with calls that overlap, by `CallLocks` |
| `CallLocks` | two or more threads in the middle of calls, one lock per step |
| `SessionOps` | the operations of one session and its login status |
| `Objects` | the objects of a token, in memory and in the database, and the handles given to them |
| `KeyAttributes` | the attributes that protect a secret key, through every function that makes, changes or exports one |
| `NSSStore` | a token kept in NSS databases: its PIN, the key in memory, the cache of derived keys, the objects encrypted under them |
| `AesCipher` | one AES encryption or decryption fed in parts |
| `AesMessages` | one AES-GCM or AES-CCM message operation and its messages |
| `MCSessions`, `MCCallLocks`, `MCObjects`, `MCKeyAttributes`, `MCAesMessages` | instances for TLC; the last gives `AesMessages` the exclusive or of numbers |
| `Sessions_proofs` | the inductive invariant of `Sessions`, the safety properties that follow, the action property about unlocking PINs, and the refinement of `LoginContract` |
| `CallLocks_proofs` | the same for `CallLocks`: its inductive invariant and safety properties, the refinement of `LoginContract`, and what its liveness rests on |
| `SessionOps_proofs`, `Objects_proofs`, `KeyAttributes_proofs`, `NSSStore_proofs`, `AesCipher_proofs`, `AesMessages_proofs` | the inductive invariant of each of these modules and the properties that follow; `AesCipher_proofs` also that its steps are steps of `SessionOps` |

A session, a login, a token are in several modules, each with as much of them as
its own question needs: `Sessions` has them in full; `Objects` only knows
sessions that are open or closed and a login that is there or not; `NSSStore`
replaces the database and the key of `Sessions` by those of the other storage;
`CallLocks` justifies that a call is one step in all others: it and `Sessions`, which
takes that for granted, keep the same contract. `SessionOps` is about any operation of a session, `AesCipher` and `AesMessages` about what one
does with its data.

### Sessions

The variables are the fields of the code. `nextHandle`, `slots`, `sessionmap` are
`State`'s (`nextHandle = 0` is the state before C_Initialize, as in
`is_initialized`); `sessions[s]` and `token[s]` are `Slot`'s; `db[s]` is what is
on disk. A session is its reported state and its `login_status`; a token is
whether it counts as initialized, `logged`, the key in `aci`, and the two
locked flags. A database is whether its tables exist, whether the token info
with CKF_TOKEN_INITIALIZED is stored, and a record per user: the PIN that opens
it, the key it wraps, and the failed attempts. Encrypting the key under a PIN is
thereby modelled by what it does: the right PIN yields the key, any other fails.

Each action is the whole function. `Login` for instance checks for read-only
sessions, checks that nobody is logged in, stores the counted attempt, updates
the flags, sets the login and the key, changes all sessions, and if one refuses
takes the login back and makes all sessions public. A call that is refused
before it changes anything is a step that changes nothing and has no action of
its own; one that fails *after* a change (a wrong PIN, a lockout, a
C_CloseAllSessions whose token turns out uninitialized) is part of its action.

`InitToken` has a parameter `stage`: how far the call gets before a storage
error or the end of the process. Stages below `Complete` cover both: after an
error the process goes on with the memory the stage leaves; `Finalize`, which
leaves the database alone, is also the end of a process. `Initialize` takes the
set of slots it opens: all that are missing, or, when a slot cannot be opened,
some of those before it in the configuration.

`OpenedState` leaves out that `Session::new` itself refuses a read-only session under
the SO: `MayOpen`, the check of its caller, is what the properties rest on.

The deliberate abstractions: handles are bounded by `MaxHandle` (C_OpenSession
stops at the bound); PINs, keys and slots are model values; the storage encrypts
(the build can turn that off, in which case there is no master key); storing an
attempt, a PIN or the token info succeeds or, inside C_InitToken, ends the call;
one process uses a database at a time.

### CallLocks

Between two lock operations a call does only local work, so a step is one
`read()` or `write()` of a lock together with what the call does until the next
one. `pc` is the lock a thread waits for; `readers` and `writer` are who holds
each. The modes are those of `rlock`/`wlock`, `get_session(_mut)` and
`get_token(_mut)`; `Keeps` says which guards live to the end of the function.
Eight functions stand for all: they contain each sequence of locks the functions
of `fns/` use (C_SignInit stands for every function that takes its session and
then the token: C_FindObjectsInit, C_CreateObject, the C_*Init; C_Sign for those
that need only the session; C_InitToken for those that need only the token).
What the calls do to the login and the sessions is kept, to see that the locks
give the atomicity `Sessions` takes for granted.

### SessionOps

`ops` is `SessionOperations`, `loginStatus` is `login_status`. Begin, Update,
OneStep, Final, Cancel, SaveState, RestoreState are the calls; that an update or
a final may fail (data of the wrong length, say) is the choice `ok`. A variable
`latest` and a flag `confirmed` are history: they record which operation was
begun last and for which a context specific login was made.

### Objects

`tok` is what a `Token` knows of objects: `handles` and `next` are the map and
counter of `Handles`, `held` is `session_objects`, `db` the token objects in the
database. An object is what decides who reaches it and when it ends: CKA_TOKEN,
CKA_PRIVATE, CKA_DESTROYABLE and its session. The actions are the functions of
`fns/objmgmt.rs` and those of `fns/keymgmt.rs` by the objects they leave: `Make`
is C_CreateObject and the functions that make one key, `MakePair` is
C_GenerateKeyPair, and `DeriveMore` a C_DeriveKey with an additional key of
SP800-108. Both make two objects (`MakeBoth`) and take the first back when the second
cannot be stored (`TakenBack`); they differ in what a read-only session may ask
for. `stored`, `removed` and `answer` say whether the database did as it was told:
the handle is given before, and an error of a removal is ignored, so `answer` has
the database remove the first object, keep it, or not even give its attributes. `Find` gives handles to what the database has and no handle
names yet, in any order; so does the search for a duplicate in `CreateAgain`,
which is C_CreateObject of what the database has already: one match is
overwritten under its handle if the token is configured to, and the call fails
otherwise. What counts as a match is any choice. `OtherStores` and `OtherRemoves` are other processes on
the database; `Restart` is C_Finalize or a crash with C_Initialize, or
C_InitToken. `issued`, `reached` and `last` are history, for the properties.

### KeyAttributes

A key has the five attributes with a default, the two flags without one, and
CKA_TRUSTED; its value is a model value, and `made` says how each value came to
be: brought in or generated, derived, concatenated from others, or mixed with data.
What the application has seen is `clear`, what it has wrapped is `wrapped`;
`Follows(clear \cup wrapped)` is what it could compute from these: a key derived
with a one-way function tells nothing of its base, a concatenation tells all it was
made from, and so does a mixture with data (`Mix`: concatenation and exclusive or with
data, extraction of bits). A mixture for which the template asks less protection
than its base has is `exposing`; the token makes it, which it should not, and the
two properties do not count what is learned by undoing one. The checks of
templates are the flags of the attribute tables: `MayChangeTo` is
ChangeToTrue, ChangeToFalse and ChangeOnCopy; `Refused` is what
`ObjectAttr::is` makes of the flags a function refuses. A key whose flags were
set by a template and not by the token is not `vouched` for.

### NSSStore

The key of a PIN is the PIN and the salt it was set with. `Login`, `LoginContext`
and `SetPin` all go through `AuthUser`, the translation of
`NSSStorage::auth_user`, which sets the key first and takes it away again.
`Decrypting` and `Verifying` look in the cache, derive and insert, and drop an
entry after a failure, as `ci.rs` does. A PIN in `Lucky` is one whose wrong
decryption happens to look padded, so that it fails without an error.

### AesCipher and AesMessages

A byte is its position in the data (and, for messages, the number of the
message), so that the sequence given to OpenSSL shows what was lost, doubled or
moved. `EncryptUpdate`, `EncryptFinal`, `DecryptUpdate` and `DecryptFinal` are the
functions of `ossl/aes.rs` with a case for each kind of mechanism: what a call
refuses and in which order, what it counts, what goes to OpenSSL, what stays in
the buffer, how many bytes come out. `EncryptionLen` and `DecryptionLen` are the
length queries, which compute the same lengths in other ways. OpenSSL is
external: it gives back as many bytes as it is given, holds back the last block
of a padded decryption, and refuses a second CCM update. Whether a ciphertext is
genuine is a choice of `setup`. So is the counter of CTR: how many bits it has beside
whole octets (`left`), how many values the octets, and the value the IV starts it
with. `MaxBlocks` is `maxblocks` as `init_params` works it out, `iv & part` included,
which is right for no bit or one beside the octets and loses bits otherwise. A
CBC_PAD decryption whose last call has too little room for OpenSSL ends under
another error; `Starved` is that result.

In `AesMessages` an IV is a number with the fixed bits in its upper part; the
parameters of a message are its generator, how many values the generated bits
have, and the IV passed (`base`). `pIv` is where the application passes it and where
`msg_encrypt_new` leaves the IV it made (`Block`): the next message finds that there,
or what the application has written over it, one of `Bases`. `WithIv` is
`generate_iv`: the counter in place of the lower bits (`CKG_GENERATE_COUNTER`) or
by exclusive or with the base (`CKG_GENERATE_COUNTER_XOR`), with a limit that is worked
out only while the counter is 0. `ctx` is whether OpenSSL's context was set up, used
or neither. The exclusive or is a constant, `ExclusiveOr`, which is assumed to be
one-to-one for each base; `MCAesMessages` gives it its definition.

## 3. What TLC checks

| Run | Instance | Properties |
|---|---|---|
| `pins` | 1 slot, 2 sessions, 3 PINs (one the empty default), 2 keys, a PIN locks at 2 failures: 29 206 states | `TypeOK`, `LoginHoldsTheKey`, `LockedPinReported`, `LockoutHolds`, `ImplementsLoginContract` |
| `slots` | 2 slots, 3 sessions, 1 PIN, 2 keys: 438 139 states | `SessionMapConsistent`, `LoginNeedsSession`, `NoReadOnlySessionUnderSO`, `StatesFollowLogin` |
| `order` | 2 threads, 2 sessions, 3 calls each: 144 677 states | `NoDeadlock`, `NoReadOnlySessionUnderSO`, `SessionsAgreeWithToken`, `ImplementsLoginContract`, `CallsReturn` |
| `ops` | signature, decryption, digest, search: 61 289 states | `LatestNeedsItsLogin`, `FinishedStaysFinished` |
| `keys` | 3 keys, 3 values, 3 templates: 249 239 states | `NeverExtractableKept`, `AlwaysSensitiveKept`, `FlagsAgree` |
| `objects` | 2 sessions, 2 objects and a built-in one, 3 handles: 173 873 states | `TypeOK`, `HandlesKeepTheirObject`, `PrivateNeedsLogin`, `SessionObjectsEnd`, `FailedCallsChangeNothing`, `ReadOnlySessionsOnlyRead` |
| `nss` | 3 PINs (one lucky), 2 objects, 2 changes of PIN, a cache that holds 2 keys: 434 699 states | `TypeOK`, `FirstLoginNeedsThePin`, `StoredUnderThePin`, `ReadsRight`, `LoginKeepsItsKey` |
| `aes` | blocks and tags of 2 bytes, CCM messages of 3, CTR counters of octets with 1 or 4 values and 0, 1 or 2 bits more, from every start, 10 bytes of data in parts of up to 6, room of up to 13: 244 926 states | `TypeOK`, `StreamInOrder`, `EndPaysAll`, `AcceptedIsAuthentic`, `CounterDoesNotWrap`, `AskedRoomSuffices`, `TooSmallChangesNothing` |
| `messages` | 3 messages of up to 2 bytes, 4 IVs of which 2 or 4 are told apart by the generated bits: 660 046 states | `IVsDiffer`, `EachMessageItsOwn`, `TooSmallChangesNothing` |

The bounds are the smallest in which the cases occur.

* `pins`, `slots`. Two sessions make "the last session" and "another session"
  different, a third lets one close while a slot has two, or both slots have
  some. Two slots share the counter and the map. With two failures before a lock
  there is a state between "no failure" and "locked". Three PINs are the default
  one, a right one and a wrong one, and let a PIN be changed. Two keys are the
  old and the new one of a C_InitToken; keys and slots are only compared, so
  symmetry is sound.
* `order`. Two threads with three calls each open two sessions, log in, and meet;
  three functions in one thread are needed to have a session, a login and a
  conflicting call.
* `keys`. Three values are a base, another and what is made from them, or a chain;
  three keys are a key, its copy or unwrapped twin, and one derived from either.
  The templates are a key in the open, one that may be wrapped and one that may
  not. Only CKA_NEVER_EXTRACTABLE is claimed and only CKA_EXTRACTABLE and
  CKA_SENSITIVE are changed: the other attributes have rules of the same kind.
* `objects`. Two objects are a pair of keys, or an original and its copy; with
  three handles, one of them built in, a destroyed object's handle could be given
  to the next one, and a search finds the same object under a second one.
  Sessions are only compared.
* `nss`. Three PINs are the right one, a wrong one and a lucky one; two salts a
  PIN and its successor; two objects and the entry of the PIN have up to five
  salts for a cache that drops a key when it holds two.
* `aes`. With blocks and tags of two bytes every remainder occurs, with ten bytes
  and parts of six a part may hold less than a block, several, or everything; the
  counters, of up to sixteen values, bring the limit within reach, and two bits beside
  the octets are what `iv & part` gets wrong. The code uses the sizes only in
  sums, remainders and comparisons. With blocks of two a semiblock is one byte, so
  that PKCS7 never has a remainder of one: that case is left to the theorems.
* `messages`. The third message has no IV left when one bit is generated. Three
  messages leave room for one with other parameters between two that are asked for
  alike. With two bytes a message comes in one part or two. The repetition under
  `CKG_GENERATE_COUNTER_XOR` that the property excepts takes a fourth message; the
  theorem speaks of any number.

TLC's deadlock check is off in the runs of `CallLocks`, which stop when the calls
are used up, and in `keys`, where the keys are; the deadlock of the code is the
invariant `NoDeadlock`.

Every property has a mutant: a definition with a plausible mistake in it (those
listed in each module's head comment), under which the property fails in the
same run.

Some properties except a case, named in their comment, in which the code does
something else; section "Other disagreements" lists these.

**Fairness.** Only `CallLocks` states any: weak fairness of the next step of each
thread that is inside a call, which is what the scheduler of the operating
system gives. Nothing makes an application start a call. A reader is granted a
lock whenever no writer holds it. The Rust locks prefer waiting writers on some
platforms, and this is covered on the side of safety: `NoDeadlock` counts a
writer that waits as one that is in the way of readers. On the side of liveness,
`CallsReturn` holds because the calls are bounded: that an endless stream of
readers could starve a writer is outside the model.

### Where the code and what is said about it differ

Three runs check a statement made in the repository that the code does not keep;
TLC finds the behaviour.

* `reinit`, `EveryTokenOpens`. `Storage::reinit` commits empty tables
  (`db_reset`) before it stores the default SO record. A stop in between leaves
  a database with tables and without an SO record; `init_pin_flags` tolerates a
  missing USER record only, so C_Initialize fails on it from then on, and
  C_InitToken, which would repair it, cannot be reached.
* `deadlock`, `NoDeadlock`. C_Login and C_Logout hold the token and take the lock
  of every session; most other functions hold their session and take the token.
  Two such calls can wait for each other. In `order`, which leaves the latter
  functions out (`C_SetPIN` and what C_SignInit stands for), nobody waits for ever.
* `login`, `EveryUseNeedsItsLogin`. A test says that an operation with a key that
  demands a login for each use fails without it. The session has one
  `login_status` for all operations, and beginning a digest resets it while the
  signature is in flight. What does hold is `LatestNeedsItsLogin`.

### Other disagreements

Met while modelling, visible in the models, and not given a run of their own.

* Sessions and PINs: the comment on `next_handle` says that handles never repeat,
  C_Initialize after C_Finalize starts at 1; a session opened while the SO is
  logged in reports the USER's functions (`Session::new`); C_InitPIN clears the
  USER's failures but not the flag that reports them, until the next attempt; a
  wrong PIN to C_SetPIN can lock the logged in user's PIN without a logout; a
  failure to store an attempt is ignored.
* Operations: one restored into a session that has begun none cannot be used, as
  the login status still says that there is none; a saved state that holds a
  digest and an HMAC cannot be restored; operations and a LoginOk survive
  C_Logout; a context specific login checks the PIN of whoever is logged in by
  then.
* Objects: C_CopyObject in a read-only session makes a token object if the
  original is one and the template does not speak of CKA_TOKEN
  (`ReadOnlySessionsOnlyRead` excepts it); so does C_DeriveKey with SP800-108 for an
  additional key whose template says CKA_TOKEN, as `derive_key` looks at the template of
  the base key only (`fns/keymgmt.rs:535`, `native/sp800_108.rs:435-441`; excepted too).
  C_DestroyObject reports success when the database kept the object. When the second
  object of C_GenerateKeyPair or of such a derivation cannot be stored, the first stays
  if it may not be destroyed, and also if the database fails once more when it is taken
  back, as the result of that is ignored (`fns/keymgmt.rs:199`, `token.rs:759-767`;
  `FailedCallsChangeNothing` excepts both and says that no more than it stays).
  C_GetObjectSize answers for a private object without a login (`token.rs:863-873`); it is
  not among the calls modelled.
* Keys: `ObjectAttr::is` asks for all the flags it is given, so C_GenerateKey,
  C_UnwrapKey and C_DeriveKey, which pass two flags, take templates that claim
  CKA_NEVER_EXTRACTABLE or CKA_ALWAYS_SENSITIVE; the properties speak of flags
  the token set itself. A key concatenated with data, mixed with data by exclusive
  or, or extracted from another gets CKA_SENSITIVE and CKA_EXTRACTABLE from the template
  alone (`native/simplekdf.rs:246-300`), so that from a key which is never extractable and
  always sensitive one can be made that is read in the clear and gives it away.
  `Mix` makes such keys; `NeverExtractableKept` and `AlwaysSensitiveKept` hold of
  everything but what is learned by undoing one (`Closed`).
* NSS: `unset_key` keeps the cache that its comment says it clears; checking a
  wrong PIN takes the key from a user who stays logged in, who is then given
  attributes as the database has them; a wrong PIN that decrypts to something
  stays in the cache and is taken for the right one later, by a process that has
  once been given that (`mistaken`); `set_user_pin` leaves objects encrypted
  under the old PIN.
* AES: a C_Encrypt with CBC_PAD, CCM or PKCS7 that runs out of room in its last
  step has kept its data, and any CTR call that runs out of room has counted its
  blocks, so that the call made again does so twice; a CCM encryption fed more than announced after it was complete ends well
  and loses the rest; the length query for a part of a CCM ciphertext asks for
  less than the call does; that for C_DecryptFinal with CBC_PAD answers 0, while OpenSSL
  wants a block of room and the call ends for good with CKR_ENCRYPTED_DATA_INVALID
  (`ossl/aes.rs:2102-2107`, `ossl/src/cipher.rs:650` in the repository's root), which
  `AskedRoomSuffices` excepts (`Underasked`); a CCM decryption that was fed nothing ends well;
  PKCS7 decryption gives its buffer away before it says that there is too little
  room; CBC_PAD decryption fails if the first block is put together from parts. A CTR
  counter with two to seven bits beside whole octets may go on into the nonce: of those
  bits `maxblocks` takes the ones that are in their number (`iv & part`,
  `ossl/aes.rs:323-327`), although a comment there says that the limit is set so that the
  counter does not wrap. With a counter of four bits that starts at 15, eleven
  blocks are let through instead of none. `CounterDoesNotWrap` is about the
  other counters.
* Messages: a CCM message that came in parts leaves them in the buffer; a message
  for which there is no IV left, and a message encrypted in one call into too
  little room, stay open, the latter with its IV spent. IVs can repeat in two ways,
  which `IVsDiffer` excepts (`Alike`). The token writes the IV it made into the
  application's block (`ossl/aes.rs:1041-1047`), where `CKG_GENERATE_COUNTER_XOR` finds it as
  the base of the next: with one block used again the IVs are b, b^1, b^3, b, and
  the fourth message has that of the first. And the limit of the counter is worked out for
  the first message only (`ossl/aes.rs:491-497`): with more fixed bits later, the counter
  goes round within the bits that are left.

## 4. What is proved

For any sets of slots, sessions, threads, objects, keys and PINs, any lengths of
blocks, tags, data, parts and output buffers, and any bounds, from the
assumptions named in each module (the special values differ from the ordinary
ones, the bounds are natural numbers, a block is even):

| Module | Theorems |
|---|---|
| `Sessions_proofs` | `Spec => []TypeOK`, `[]SessionMapConsistent`, `[]LoginNeedsSession`, `[]NoReadOnlySessionUnderSO`, `[]StatesFollowLogin`, `[]LoginHoldsTheKey`, `[]LockedPinReported`, `LockoutHolds`, `ImplementsLoginContract` |
| `CallLocks_proofs` | `Spec => []TypeOK`, `[]NoReadOnlySessionUnderSO`, `[]SessionsAgreeWithToken`; `ImplementsLoginContract`; every step brings its call closer to its end (`CallsAdvance`); `[]NoDeadlock`, and some call can always take a step (`SomeCallAlwaysGoesOn`), if C_SetPIN and C_SignInit are not among the functions |
| `SessionOps_proofs` | `Spec => []TypeOK`, `LatestNeedsItsLogin`, `FinishedStaysFinished` |
| `Objects_proofs` | `Spec => []TypeOK`, `[]HandlesKeepTheirObject`, `[]PrivateNeedsLogin`, `[]SessionObjectsEnd`, `FailedCallsChangeNothing`, `ReadOnlySessionsOnlyRead` |
| `KeyAttributes_proofs` | `Spec => []TypeOK`, `[]FlagsAgree`, `[]NeverExtractableKept`, `[]AlwaysSensitiveKept` |
| `NSSStore_proofs` | `Spec => []TypeOK`, `[]FirstLoginNeedsThePin`, `[]StoredUnderThePin`, `[]ReadsRight`, `[]LoginKeepsItsKey` |
| `AesCipher_proofs` | `Spec => []TypeOK`, `[]StreamInOrder`, `[]EndPaysAll`, `[]AcceptedIsAuthentic`, `[]CounterDoesNotWrap`, `[]AskedRoomSuffices`, `TooSmallChangesNothing`; each step is one of `SessionOps` or a stutter (`CipherKeepsTheLifeCycle`) |
| `AesMessages_proofs` | `Spec => []TypeOK`, `[]IVsDiffer`, `[]EachMessageItsOwn`, `TooSmallChangesNothing` |

Hardly any of these is inductive alone. Each module has an invariant `IInv`,
shown to hold initially, to be kept by every action (one step per action, what
the helpers do being lemmas), and to imply the properties.

**Sessions.** `IInv` is `TypeOK`, `SessionMapConsistent`, and three facts per slot:

* `SessionsInv`: a login has a session, the sessions' states agree with it, and
  under the SO they are read-write. The three need each other: that C_CloseSession
  logs out in time needs the map to be consistent; that C_Login as SO is never
  refused by a session needs all of them public before, which is
  `StatesFollowLogin`.
* `TokenInv`: a login's record exists and its key is that of all records; and the
  records of a database agree among themselves even when nobody is logged in.
  The second half is what survives between logins, and why a half-finished
  C_InitToken does no harm: `db_reset` removes both records at once, before the
  key changes.
* `FlagsInv`: a locked record has its flag set.

`LockoutHolds` needs in addition `LockInv`: stored token info implies tables, and
a token that is not counted as initialized though its database has token info
is one whose records are fresh (only a C_InitToken that stopped late leaves
that). Otherwise C_InitToken, which checks no PIN for an uninitialized token,
could end a lock.

The refinement maps the contract's sessions to those of the map, a session's
right to write to the class of its state, and its logins to the tokens'. The
proof shows that `open` and `logged` change as one of the contract's steps allows:
C_CloseSession, C_CloseAllSessions and C_Finalize as `Close`, C_Login as `LogIn`,
C_Logout and a lockout as `LogOut`, C_OpenSession as `Open`, all others as
stutters. `ClassKept` (a change of state keeps a session's right to write) and
`EmptySlot` are the lemmas that carry it.

**CallLocks.** `ThreadOK` says of each point of a call what the thread holds there
and what it knows: past the first lock it holds `STATE`, in writing if it opens or
closes a session, so that such a thread is alone; a C_Login that has reached a
point of its scan knows that the read-only sessions are still before it.
`Agreement` says that a session agrees with the token or that a thread which holds
the token is about to change it. Freedom from deadlock follows from what is held
while waiting: without C_SetPIN and C_SignInit a thread that holds a session waits
for nothing, one that holds the token waits for sessions only, and one that
holds only `STATE` for these two; so there is always one that can go on.

The refinement of `LoginContract` maps sessions and the login as they are; `TakeToken`
is the one step of a call that the contract sees, `Spread` and the others are
stutters (a session never refuses the SO, so no login is taken back). That the step
may be taken depends on what the call found out before, under locks it may have
dropped: that its session is open, that no session is read-only. Both are in
`ThreadOK`, and `WriterAlone` keeps them true: who opens or closes a session has
`STATE` for itself.

Of `CallsReturn` all but the fairness is proved. `CallsAdvance`: a step leads to a
later stage of its call or takes a session off the loop, and changes the place of no
other call, so a call needs a bounded number of steps; the branch of
`change_session_states` that starts over for a session that refuses is never taken.
`LoopsNeverRunDry`: a loop is left when its sessions are used up, not later.
`SomeCallAlwaysGoesOn`: some call can take its next step, even where waiting writers
keep readers out. That such a step is taken in the end is `WF_vars(Step(t))` and
left to TLC.

**SessionOps.** As long as the operation begun last waits for its login,
`login_status` says so (`WaitingIsRequired`), whatever other operations finish, are
cancelled or restored; and what waits has not finished (`WaitingUnfinished`).

**Objects.** `TokOK` is what is known of handles in the middle of a call too: given
handles are below `next`, each names one object, session objects are under the
handle they have, and each has a session that is open and, if private, a login.
`IssuedOK` relates the handles there are to the history of those given: a
handle is forgotten but not given again. `MakeBoth`, which inserts twice and
then may destroy, is proved by composing the lemmas about `Inserted` and `Destroyed`,
and serves `MakePair` and `DeriveMore`. For `FailedCallsChangeNothing` the lemma
`MakeBothStep` says what is left of the two objects for each `answer` of the database.

**KeyAttributes.** `NeverExtractableKept` speaks of all that follows from what left
the token, through any number of derivations, and no single step can be checked
against that. The invariant bounds it by `loose`: what left is loose, `loose` is
closed under what follows, an extractable key's value is loose, and a key whose
flag the token vouches for has one that is not. A mixture that is not exposing is
closed both ways, as a concatenation is: if it is extractable so is its base, whose
value is loose then. An exposing one is closed in the direction of derivation only,
which is why the property excepts it.

`AlwaysSensitiveKept` excepts what follows from wrapped values, which one C_WrapKey
can let grow by whole chains of values, so its invariant asks for two sets
(`SensitiveInv`): `known`, closed under what follows, holds what the application has
seen or wrapped and the value of every key that would show it; `guarded` holds the
values that a key is vouched always sensitive for and, with each, those it was
made from. What is in both follows from the wrapped values.

**NSSStore.** The properties are about a login, about what is stored and about what
is read, and the key in use reaches all three through the cache. So the invariant
says what the cache holds: for the entry of the PIN the right key only if the
process was given the PIN; for everything else, until a wrong PIN passes, the
right key only.

**AesCipher.** The properties are about an operation that has ended, or about one
call; what carries them from call to call is `Parts`, which says mode by mode how
what OpenSSL was given, the tag and the buffer share the data. CBC has given
whole blocks and keeps less than one; CTR keeps nothing; a GCM decryption keeps
at most a tag; CCM gives all or nothing, and a decryption that has given its data
has its tag and was genuine; PKCS7 keeps everything until the end. While no failed
call has kept data, the three together are the bytes fed, in order, and what was
put out is what was given (`Paid`), less the block that OpenSSL holds back in a padded
decryption. One lemma for each mode and direction shows that an update keeps this
(`Fed`, `Unfed`); `DueAsIs` and `DueFlushed` that the last call pays the rest; and the
lemmas about `Cut`, `ThroughMoves` and `MovedContinues` that moving bytes from the
buffer and the part to OpenSSL keeps their order. `AskedRoomSuffices` compares two
computations of the same length, the query's and the call's, with lemmas about
quotients and remainders, so for all sizes of blocks; for CTR the number of blocks
counted bounds those given (`CounterOK`), each part being rounded up, and with at most
one bit beside whole octets `MaxBlocks` is what is left of the counter's values.

What a session sees of the operation is whether it was fed and has finished
(`SessionOp`). `CipherKeepsTheLifeCycle` maps C_EncryptInit to `Begin` of `SessionOps`
and every other call that changes this to its `Update` that succeeds or fails; so
`FinishedStaysFinished`, proved of `SessionOps`, is not a promise that the mechanism
could break. A length query that finalizes an operation never fed maps to a
failed update.

**AesMessages.** What a message is when it gets its tag was decided while it was
fed. While its context is ready, its IV is the last one generated and later than
those of all messages that have a tag, and what OpenSSL (GCM) or the buffer (CCM)
holds are the bytes fed so far (`ReadyFor`). Between messages nothing is known of
the buffer of CCM, and nothing needs to be. `Numbered` says that every IV is what its
base, its generator and its number make, with a number below its limit, and that the numbers
of two sealed messages differ. From that `AlikeDiffer` concludes that messages asked
for alike have different IVs: lower bits that count differently, or an exclusive or of
one base with two numbers. For the latter `XorAssumption` is used, the assumption about
the constant `ExclusiveOr`, which TLC evaluates for the exclusive or of the bits of numbers.

TLC has checked each `IInv`, and what the theorems state that no run checks
(`CallsAdvance`, `LoopsNeverRunDry`, `SomeCallAlwaysGoesOn`, `CipherKeepsTheLifeCycle`), on
the instances of the runs.

Only model-checked: `CallsReturn`, as liveness under fairness is out of the proof
system's reach (what it needs besides is proved, see CallLocks). `NoDeadlock` is proved for the functions of the run `order`; with
the others it does not hold (run `deadlock`). No module has a
RECURSIVE operator.

## 5. What is not modelled

* Operations: VerifySignature, the functions that do two operations at once, the
  encapsulation functions, and the message functions of signatures; they go
  through the states of `SessionOps` once more.
* AES: CTS (one part only), KEY_WRAP and KWP (nothing kept between calls), CMAC and
  MAC, CCM messages without data or over `MAX_CCM_BUF`. ECB is fed as CBC is, and
  CFB and OFB as CTR without a limit.
* The other mechanisms (`ossl/`, `native/`, `ec/`): hashes, RSA, EC, ML-KEM, ML-DSA,
  SLH-DSA, key derivations. Most hand their data to OpenSSL and keep in_use and
  finalized, which `SessionOps` has; what they compute is no matter for a model.
* Keys: changes of CKA_CLASS or CKA_KEY_TYPE, public and private keys, templates
  inside templates (CKA_UNWRAP_TEMPLATE, CKA_DERIVE_TEMPLATE), the attributes that
  only describe a key; what an SP800-108 derivation does to more than one additional
  key.
* Two processes on one database as far as PINs are concerned: attempts are read and
  stored in separate transactions, and a key in memory is not compared with the
  database again; `Sessions` has one process on a database.
* FIPS (`fips/`): tables of what is approved, and glue to a provider, in a build
  of its own. They decide what a session reports.
* ASN.1, attribute and column conversions, SQL, the configuration file, the tables
  of constants, the random number generator, and the crates around the library:
  bindings to OpenSSL, the TLS provider, the tools.

By lines most of the repository is in these last items: bindings, the code that
turns parameters of several dozen mechanisms into calls of OpenSSL, tables and
conversions. They keep no state between calls that two actors could meet in. The
models cover the other part, the state of the library behind its functions.
