------------------------------ MODULE Sessions ------------------------------
(***************************************************************************)
(* Slots, sessions and the login state of a kryoptic process, together     *)
(* with the part of the persistent token database that logging in depends  *)
(* on.  One action per PKCS#11 function of fns/general.rs, fns/sessmgmt.rs *)
(* and fns/stmgmt.rs that changes this state.                              *)
(*                                                                         *)
(* A call is one step here: it holds STATE, and from its first to its last *)
(* access it holds the lock of the one token it works on.  What the locks  *)
(* themselves can do to concurrent calls is the subject of CallLocks.      *)
(* The exception is C_InitToken, whose writes to storage are separate      *)
(* transactions: InitToken may stop after any of them (a storage error or  *)
(* the end of the process), and leaves what had been done by then.         *)
(*                                                                         *)
(* OpenedTokenWithoutFlags, PublicStateButSO, MayOpenAny, NoneLeft, MapOf  *)
(* and ReinitKeepingUser (and in AuthRecords LockedLate and                *)
(* AuthenticateUnlocking) are the definition that follows each of them     *)
(* with a plausible mistake in it.  No action uses them: they show that    *)
(* the properties below notice the mistake.                                *)
(***************************************************************************)
EXTENDS AuthRecords

CONSTANTS
  Slots,           \* the slots of the configuration
  MaxHandle,       \* bound: session handles issued between initializations
  DefaultPin,      \* the empty PIN default_so_pin stores
  NoSlot, NoKey,   \* no slot, no master key in memory
  Absent           \* no such session, no such record

Users   == {"SO", "USER"}
Nobody  == "NONE"          \* KRY_UNSPEC
Handles == 1..MaxHandle

RWStates == {"RW_PUBLIC", "RW_USER", "RW_SO"}
ROStates == {"RO_PUBLIC", "RO_USER"}
States   == RWStates \cup ROStates
OpLogin  == {"NotInitialized", "NotRequired", "Required", "LoginOk"}
Session  == [state : States, opLogin : OpLogin]

ASSUME SessionsAssumption ==
  /\ MaxHandle \in Nat \ {0}
  /\ DefaultPin \in Pins
  /\ NoSlot \notin Slots
  /\ NoKey \notin Keys
  /\ Absent \notin Session \cup AuthRecord \cup [slot : Slots, rw : BOOLEAN]

Token == [initialized : BOOLEAN,            \* CKF_TOKEN_INITIALIZED in info
          logged      : Users \cup {Nobody},
          key         : Keys \cup {NoKey},  \* aci.key
          lockedFlag  : [Users -> BOOLEAN]] \* CKF_{SO,USER}_PIN_LOCKED

Database == [tables : BOOLEAN,              \* is_initialized() of the store
             info   : BOOLEAN,              \* a stored CKF_TOKEN_INITIALIZED
             auth   : [Users -> AuthRecord \cup {Absent}]]

VARIABLES
  nextHandle,      \* State::next_handle; 0 when not initialized
  slots,           \* the keys of State::slots
  sessionmap,      \* State::sessionmap
  sessions,        \* Slot::sessions
  token,           \* Slot::token
  db               \* the database of each slot, which outlives the process

vars == <<nextHandle, slots, sessionmap, sessions, token, db>>
-----------------------------------------------------------------------------
(* Reading the state.                                                      *)

Recorded(d, u)   == d.auth[u] # Absent
OpenHandles(s)   == {h \in Handles : sessions[s][h] # Absent}
HasSessions(s)   == OpenHandles(s) # {}
HasROSessions(s) == \E h \in OpenHandles(s) : sessions[s][h].state \in ROStates

(* A handle the library resolves, on a slot whose token is initialized.    *)
ValidHandle(h)   == sessionmap[h] # NoSlot
TokenOf(h)       == token[sessionmap[h]]
Usable(h)        == ValidHandle(h) /\ TokenOf(h).initialized

LockedFlagOf(d, u) == Recorded(d, u) /\ Locked(d.auth[u])

(* Token::new opens the store.  A store without tables is a token still to *)
(* be initialized; one with tables must have an SO record (init_pin_flags).*)
Opens(d)       == ~d.tables \/ Recorded(d, "SO")
OpenedTokenWithoutFlags(d) ==
  [initialized |-> d.tables /\ d.info, logged |-> Nobody, key |-> NoKey,
   lockedFlag  |-> [u \in Users |-> FALSE]]
OpenedToken(d) == [initialized |-> d.tables /\ d.info,
                   logged      |-> Nobody,
                   key         |-> NoKey,
                   lockedFlag  |-> [u \in Users |-> d.tables /\ LockedFlagOf(d, u)]]

NoSessions == [h \in Handles |-> Absent]
BlankToken == OpenedToken([tables |-> FALSE, info |-> FALSE,
                           auth |-> [u \in Users |-> Absent]])
-----------------------------------------------------------------------------
(* The states of a session (session.rs).                                   *)

(* Session::new: the state of a session opened while u is logged in.  It   *)
(* also refuses a read-only one under the SO; that is left to MayOpen, the *)
(* check of its caller, which suffices.                                    *)
OpenedState(u, rw) ==
  CASE u = Nobody -> IF rw THEN "RW_PUBLIC" ELSE "RO_PUBLIC"
    [] OTHER      -> IF rw THEN "RW_USER"   ELSE "RO_USER"

(* change_session_state: where a login by u takes a session, or "ERROR".   *)
LoginState(st, u) ==
  CASE u = "USER" /\ st \in {"RW_PUBLIC", "RW_USER"} -> "RW_USER"
    [] u = "USER" /\ st \in ROStates                  -> "RO_USER"
    [] u = "SO" /\ st \in {"RW_PUBLIC", "RW_SO"}      -> "RW_SO"
    [] OTHER                                          -> "ERROR"

(* change_session_state(CK_UNAVAILABLE_INFORMATION): back to public.       *)
PublicStateButSO(st) ==
  CASE st = "RO_USER" -> "RO_PUBLIC" [] st = "RW_USER" -> "RW_PUBLIC" [] OTHER -> st
PublicState(st) == IF st \in ROStates THEN "RO_PUBLIC" ELSE "RW_PUBLIC"

(* invalidate_session_states                                               *)
Invalidated(ss) ==
  [h \in Handles |-> IF ss[h] = Absent THEN Absent
                     ELSE [ss[h] EXCEPT !.state = PublicState(@)]]

(* change_session_states: every session, or the first error.               *)
StatesChange(ss, u) ==
  \A h \in Handles : ss[h] # Absent => LoginState(ss[h].state, u) # "ERROR"
Changed(ss, u) ==
  [h \in Handles |-> IF ss[h] = Absent THEN Absent
                     ELSE [ss[h] EXCEPT !.state = LoginState(@, u)]]
-----------------------------------------------------------------------------
(* The token and its storage (token.rs, storage/format.rs).                *)

(* auth_user: the stored record after pin was checked against it, and the  *)
(* token with the flags that follow.  Without a record nothing is stored   *)
(* and the flags are cleared.                                              *)
StoreAttempt(d, u, pin) ==
  IF Recorded(d, u) THEN [d EXCEPT !.auth[u] = Authenticate(@, pin)] ELSE d
FlagAttempt(t, d, u, pin) ==
  [t EXCEPT !.lockedFlag[u] = LockedFlagOf(StoreAttempt(d, u, pin), u)]
PinAccepted(d, u, pin) == Recorded(d, u) /\ Accepts(d.auth[u], pin)

(* auth_user with check_only = FALSE: success also takes the master key    *)
(* out of the record and marks the user as logged in.                      *)
LoggedIn(t, d, u, pin) ==
  IF PinAccepted(d, u, pin)
  THEN [FlagAttempt(t, d, u, pin) EXCEPT !.logged = u, !.key = d.auth[u].key]
  ELSE FlagAttempt(t, d, u, pin)

(* Token::logout.  The key is dropped by unauth_user, which first looks    *)
(* for the record of the user.                                             *)
LoggedOut(t, d) ==
  IF t.logged = Nobody THEN t
  ELSE [t EXCEPT !.logged = Nobody,
                 !.key    = IF Recorded(d, t.logged) THEN NoKey ELSE @]

(* set_user_pin: the key in memory, wrapped by a new record.               *)
PinStored(d, u, pin, key) == [d EXCEPT !.auth[u] = NewRecord(pin, key)]
-----------------------------------------------------------------------------
Init ==
  /\ nextHandle = 0
  /\ slots = {}
  /\ sessionmap = [h \in Handles |-> NoSlot]
  /\ sessions = [s \in Slots |-> NoSessions]
  /\ token = [s \in Slots |-> BlankToken]
  /\ db = [s \in Slots |-> [tables |-> FALSE, info |-> FALSE,
                            auth |-> [u \in Users |-> Absent]]]

Initialized == nextHandle # 0

(* C_Initialize opens every configured slot that State does not have yet,  *)
(* in configuration order, and returns at the first one that fails to open *)
(* with the earlier ones in place.  A slot already there is opened again   *)
(* too, and the new Slot dropped.                                          *)
Initialize(added) ==
  LET openable == {s \in Slots : Opens(db[s])} IN
  /\ added \subseteq openable \ slots
  /\ openable = Slots => added = Slots \ slots
  /\ slots' = slots \cup added
  /\ token' = [s \in Slots |-> IF s \in added THEN OpenedToken(db[s]) ELSE token[s]]
  /\ nextHandle' = IF Initialized THEN nextHandle ELSE 1
  /\ UNCHANGED <<sessionmap, sessions, db>>

(* C_Finalize.  It leaves the database as it is, so the end of the process *)
(* is the same step.                                                       *)
Finalize ==
  /\ Initialized
  /\ nextHandle' = 0
  /\ slots' = {}
  /\ sessionmap' = [h \in Handles |-> NoSlot]
  /\ sessions' = [s \in Slots |-> NoSessions]
  /\ token' = [s \in Slots |-> BlankToken]
  /\ UNCHANGED db

(* No read-only session joins an SO login.                                 *)
MayOpenAny(s, rw) == token[s].initialized
MayOpen(s, rw)    == token[s].initialized /\ (token[s].logged = "SO" => rw)

OpenSession(s, rw) ==
  /\ s \in slots
  /\ MayOpen(s, rw)
  /\ nextHandle \in Handles
  /\ sessionmap' = [sessionmap EXCEPT ![nextHandle] = s]
  /\ sessions' = [sessions EXCEPT ![s][nextHandle] =
                    [state   |-> OpenedState(token[s].logged, rw),
                     opLogin |-> "NotInitialized"]]
  /\ nextHandle' = nextHandle + 1
  /\ UNCHANGED <<slots, token, db>>

(* The last session to go logs the token out.                              *)
NoneLeft(s, h) == OpenHandles(s) = {}
IsLast(s, h)   == OpenHandles(s) = {h}

CloseSession(h) ==
  /\ Usable(h)
  /\ LET s == sessionmap[h] IN
       /\ sessions' = [sessions EXCEPT ![s][h] = Absent]
       /\ token' = IF IsLast(s, h)
                   THEN [token EXCEPT ![s] = LoggedOut(@, db[s])]
                   ELSE token
  /\ sessionmap' = [sessionmap EXCEPT ![h] = NoSlot]
  /\ UNCHANGED <<nextHandle, slots, db>>

(* drop_all_sessions_slot: retain only the handles of other slots.         *)
MapOf(s)      == sessionmap
MapWithout(s) == [h \in Handles |-> IF sessionmap[h] = s THEN NoSlot ELSE sessionmap[h]]

(* The sessions go even when the token turns out not to be initialized.    *)
CloseAllSessions(s) ==
  /\ s \in slots
  /\ sessions' = [sessions EXCEPT ![s] = NoSessions]
  /\ sessionmap' = MapWithout(s)
  /\ token' = IF token[s].initialized
              THEN [token EXCEPT ![s] = LoggedOut(@, db[s])]
              ELSE token
  /\ UNCHANGED <<nextHandle, slots, db>>
-----------------------------------------------------------------------------
(* C_Login with CKU_SO or CKU_USER.  Should a session refuse the change of *)
(* state the login is taken back.                                          *)
Login(h, u, pin) ==
  LET s  == sessionmap[h]
      t  == LoggedIn(token[s], db[s], u, pin)
      d  == StoreAttempt(db[s], u, pin)
      ok == StatesChange(sessions[s], u)
  IN
  /\ Usable(h)
  /\ u = "SO" => ~HasROSessions(s)
  /\ token[s].logged = Nobody
  /\ db' = [db EXCEPT ![s] = d]
  /\ token' = [token EXCEPT ![s] = IF t.logged = u /\ ~ok THEN LoggedOut(t, d) ELSE t]
  /\ sessions' = IF t.logged # u THEN sessions
                 ELSE [sessions EXCEPT ![s] = IF ok THEN Changed(@, u)
                                              ELSE Invalidated(@)]
  /\ UNCHANGED <<nextHandle, slots, sessionmap>>

(* C_Login with CKU_CONTEXT_SPECIFIC: the PIN of whoever is logged in is   *)
(* checked again for the operation the session has started.  Locking that  *)
(* PIN logs the token out.                                                 *)
ContextLogin(h, pin) ==
  LET s == sessionmap[h]
      u == token[s].logged
      d == StoreAttempt(db[s], u, pin)
      t == FlagAttempt(token[s], db[s], u, pin)
  IN
  /\ Usable(h)
  /\ sessions[s][h].opLogin = "Required"
  /\ u # Nobody
  /\ db' = [db EXCEPT ![s] = d]
  /\ IF PinAccepted(db[s], u, pin)
     THEN /\ sessions' = [sessions EXCEPT ![s][h].opLogin = "LoginOk"]
          /\ token' = [token EXCEPT ![s] = t]
     ELSE IF LockedFlagOf(d, u)
     THEN /\ sessions' = [sessions EXCEPT ![s] = Invalidated(@)]
          /\ token' = [token EXCEPT ![s] = LoggedOut(t, d)]
     ELSE /\ token' = [token EXCEPT ![s] = t]
          /\ UNCHANGED sessions
  /\ UNCHANGED <<nextHandle, slots, sessionmap>>

Logout(h) ==
  /\ Usable(h)
  /\ TokenOf(h).logged # Nobody
  /\ LET s == sessionmap[h] IN
       /\ token' = [token EXCEPT ![s] = LoggedOut(@, db[s])]
       /\ sessions' = IF Recorded(db[s], token[s].logged)
                      THEN [sessions EXCEPT ![s] = Invalidated(@)]
                      ELSE sessions
  /\ UNCHANGED <<nextHandle, slots, sessionmap, db>>

(* set_operation, which every C_*Init ends with: the session remembers     *)
(* whether the operation just started needs a login of its own.            *)
BeginOperation(h, needsLogin) ==
  /\ Usable(h)
  /\ sessions' = [sessions EXCEPT ![sessionmap[h]][h].opLogin =
                    IF needsLogin THEN "Required" ELSE "NotRequired"]
  /\ UNCHANGED <<nextHandle, slots, sessionmap, token, db>>
-----------------------------------------------------------------------------
(* How far C_InitToken gets before an error or the end of the process: the *)
(* last of its steps that took effect.  The steps up to SOPinStored write  *)
(* storage or draw the key (reinit, set_pin); the rest updates the token.  *)
NotReset     == 0    \* authenticated, nothing else
TablesReset  == 1    \* db_reset committed
KeyDrawn     == 2    \* aci.reset
DefaultSO    == 3    \* default_so_pin
InfoStored   == 4    \* default_token_info
SOPinStored  == 5    \* set_pin(CKU_SO)
InfoFilled   == 6    \* store_token_info with the label, fill_token_info
Complete     == 7    \* unauth_user(CKU_SO)
Stages       == NotReset..Complete

ReinitKeepingUser(d, pin, key, stage) ==
  IF stage < TablesReset THEN d
  ELSE [tables |-> TRUE,
        info   |-> stage >= InfoStored,
        auth   |-> [SO   |-> IF stage >= SOPinStored THEN NewRecord(pin, key)
                             ELSE IF stage >= DefaultSO THEN NewRecord(DefaultPin, key)
                             ELSE Absent,
                    USER |-> d.auth.USER]]
ReinitDatabase(d, pin, key, stage) ==
  IF stage < TablesReset THEN d
  ELSE [tables |-> TRUE,
        info   |-> stage >= InfoStored,
        auth   |-> [SO   |-> IF stage >= SOPinStored THEN NewRecord(pin, key)
                             ELSE IF stage >= DefaultSO THEN NewRecord(DefaultPin, key)
                             ELSE Absent,
                    USER |-> Absent]]

ReinitToken(t, key, stage) ==
  [initialized |-> t.initialized \/ stage >= InfoFilled,
   logged      |-> Nobody,
   key         |-> IF stage = Complete THEN NoKey
                   ELSE IF stage >= KeyDrawn THEN key ELSE t.key,
   lockedFlag  |-> IF stage >= InfoFilled THEN [u \in Users |-> FALSE]
                   ELSE t.lockedFlag]

(* C_InitToken: refused while sessions exist; an initialized token first   *)
(* checks the SO PIN, an attempt that counts as any other.                 *)
InitToken(s, pin, key, stage) ==
  LET checked == token[s].initialized
      d == IF checked THEN StoreAttempt(db[s], "SO", pin) ELSE db[s]
      t == IF checked THEN FlagAttempt(token[s], db[s], "SO", pin) ELSE token[s]
      refused == checked /\ ~PinAccepted(db[s], "SO", pin)
  IN
  /\ s \in slots
  /\ ~HasSessions(s)
  /\ key # token[s].key
  /\ db' = [db EXCEPT ![s] = IF refused THEN d ELSE ReinitDatabase(d, pin, key, stage)]
  /\ token' = [token EXCEPT ![s] = IF refused THEN t ELSE ReinitToken(t, key, stage)]
  /\ UNCHANGED <<nextHandle, slots, sessionmap, sessions>>

(* C_InitPIN: the SO gives the USER a new PIN.                             *)
InitPIN(h, pin) ==
  /\ Usable(h)
  /\ TokenOf(h).logged = "SO"
  /\ TokenOf(h).key # NoKey
  /\ db' = [db EXCEPT ![sessionmap[h]] = PinStored(@, "USER", pin, TokenOf(h).key)]
  /\ UNCHANGED <<nextHandle, slots, sessionmap, sessions, token>>

(* C_SetPIN.  With nobody logged in it logs the USER in with the old PIN,  *)
(* checks that PIN once more, and logs out again when it is done; the      *)
(* sessions keep their states.  Otherwise it checks the old PIN of the     *)
(* user who is logged in.                                                  *)
SetPIN(h, old, new) ==
  LET s == sessionmap[h]
      u == IF token[s].logged = Nobody THEN "USER" ELSE token[s].logged
      d == StoreAttempt(db[s], u, old)
      t == IF token[s].logged = Nobody THEN LoggedIn(token[s], db[s], u, old)
           ELSE FlagAttempt(token[s], db[s], u, old)
      stored == PinAccepted(db[s], u, old) /\ t.key # NoKey
      e == IF stored THEN PinStored(d, u, new, t.key) ELSE d
  IN
  /\ Usable(h)
  /\ sessions[s][h].state \in RWStates
  /\ DefaultPin \notin {old, new}
  /\ db' = [db EXCEPT ![s] = e]
  /\ token' = [token EXCEPT ![s] =
                 IF token[s].logged = Nobody THEN LoggedOut(t, e) ELSE t]
  /\ UNCHANGED <<nextHandle, slots, sessionmap, sessions>>
-----------------------------------------------------------------------------
Next ==
  \/ \E added \in SUBSET Slots : Initialize(added)
  \/ Finalize
  \/ \E s \in Slots, rw \in BOOLEAN : OpenSession(s, rw)
  \/ \E h \in Handles : CloseSession(h)
  \/ \E s \in Slots : CloseAllSessions(s)
  \/ \E h \in Handles, u \in Users, pin \in Pins : Login(h, u, pin)
  \/ \E h \in Handles, pin \in Pins : ContextLogin(h, pin)
  \/ \E h \in Handles : Logout(h)
  \/ \E h \in Handles, needsLogin \in BOOLEAN : BeginOperation(h, needsLogin)
  \/ \E s \in Slots, pin \in Pins, key \in Keys, stage \in Stages :
       InitToken(s, pin, key, stage)
  \/ \E h \in Handles, pin \in Pins : InitPIN(h, pin)
  \/ \E h \in Handles, old, new \in Pins : SetPIN(h, old, new)

Spec == Init /\ [][Next]_vars
-----------------------------------------------------------------------------
(* Types of all variables.                                                 *)
TypeOK ==
  /\ nextHandle \in 0..(MaxHandle + 1)
  /\ slots \subseteq Slots
  /\ sessionmap \in [Handles -> Slots \cup {NoSlot}]
  /\ sessions \in [Slots -> [Handles -> Session \cup {Absent}]]
  /\ token \in [Slots -> Token]
  /\ db \in [Slots -> Database]

(* The map from handles to slots and the session tables of the slots are   *)
(* two structures that new_session, drop_session, drop_all_sessions_slot   *)
(* and finalize change one after the other: they hold the same sessions,   *)
(* on slots that exist, under handles already issued.                      *)
SessionMapConsistent ==
  \A h \in Handles, s \in Slots :
    /\ sessionmap[h] = s <=> sessions[s][h] # Absent
    /\ sessions[s][h] # Absent => s \in slots /\ h < nextHandle

(* A token is logged in only while the process has a session on it: every  *)
(* path that ends the last session (C_CloseSession, C_CloseAllSessions,    *)
(* C_Finalize), and C_SetPIN with its temporary login, logs the token out. *)
LoginNeedsSession ==
  \A s \in Slots : token[s].logged # Nobody => HasSessions(s)

(* While the SO is logged in no session of the slot is read-only: C_Login  *)
(* looks at the states of all sessions before, C_OpenSession at the login. *)
NoReadOnlySessionUnderSO ==
  \A s \in Slots : token[s].logged = "SO" => ~HasROSessions(s)

(* What a session reports follows the login of its token: public exactly   *)
(* while nobody is logged in, never the functions of the SO under a USER   *)
(* login (under an SO login Session::new lets a session report the USER's).*)
(* C_Login, C_Logout, the lockout in a context specific login and          *)
(* C_OpenSession keep the copies in step.                                  *)
StatesFollowLogin ==
  \A s \in Slots : \A h \in OpenHandles(s) :
    /\ sessions[s][h].state \in {"RW_PUBLIC", "RO_PUBLIC"} <=> token[s].logged = Nobody
    /\ sessions[s][h].state = "RW_SO" => token[s].logged = "SO"

(* A logged in user's record is stored, and the key in memory is the one   *)
(* every stored record of that token wraps: what one user writes under it  *)
(* the other can read after the next login, also after C_InitPIN, C_SetPIN *)
(* and a C_InitToken that failed half-way.                                 *)
LoginHoldsTheKey ==
  \A s \in Slots : token[s].logged # Nobody =>
    /\ Recorded(db[s], token[s].logged)
    /\ \A u \in Users : Recorded(db[s], u) => db[s].auth[u].key = token[s].key

(* A PIN that is locked in the database is reported as locked by the flags *)
(* of C_GetTokenInfo, which are kept in memory: after a failed login, after*)
(* a context specific login, and when a new process opens the token.       *)
LockedPinReported ==
  \A s \in slots, u \in Users :
    (db[s].tables /\ LockedFlagOf(db[s], u)) => token[s].lockedFlag[u]

(* What unlocks a PIN: for the SO nothing; for the USER the logged in SO,  *)
(* or a C_InitToken for which the SO PIN is not locked.  (A database       *)
(* without token info is one whose C_InitToken did not finish.)            *)
LockoutHolds ==
  [][\A s \in Slots, u \in Users :
       (LockedFlagOf(db[s], u) /\ db[s].info /\ ~LockedFlagOf(db'[s], u)) =>
         /\ u = "USER"
         /\ \/ token[s].logged = "SO"
            \/ ~Recorded(db'[s], u) /\ ~LockedFlagOf(db[s], "SO")]_vars
-----------------------------------------------------------------------------
(* The contract: its sessions are those of the map, its writability the    *)
(* class of the session's state, its logins those of the tokens.           *)
OpenSessions ==
  [h \in Handles |-> IF sessionmap[h] = NoSlot THEN Absent
                     ELSE [slot |-> sessionmap[h],
                           rw   |-> sessions[sessionmap[h]][h].state \in RWStates]]

Contract == INSTANCE LoginContract
              WITH open <- OpenSessions, logged <- [s \in Slots |-> token[s].logged]

(* Every call does to sessions and logins what the contract allows, though *)
(* the code changes them in several structures and takes a failed login    *)
(* back; C_SetPIN and C_InitToken never show a login or end one.           *)
ImplementsLoginContract == Contract!Spec
-----------------------------------------------------------------------------
(* C_InitToken can be run on any database, so any database can be opened:  *)
(* false of one whose C_InitToken stopped between db_reset and             *)
(* default_so_pin, for which Token::new, and with it C_Initialize, fails.  *)
EveryTokenOpens == \A s \in Slots : Opens(db[s])
=============================================================================
