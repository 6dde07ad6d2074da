-------------------------- MODULE Sessions_proofs --------------------------
(***************************************************************************)
(* Theorems about Sessions, for every set of slots, PINs and keys and      *)
(* every bound on the handles, in three parts: the inductive invariant and *)
(* the state properties that follow from it; that a locked PIN stays       *)
(* locked; and that Sessions implements LoginContract.                     *)
(***************************************************************************)
EXTENDS Sessions, TLAPS

(* Checking a PIN leaves a record a record: the count of failed attempts   *)
(* never passes the limit.                                                 *)
LEMMA AuthenticateType ==
  ASSUME NEW rec \in AuthRecord, NEW pin
  PROVE  Authenticate(rec, pin) \in AuthRecord
<1>1. CASE Locked(rec)
  BY <1>1 DEF Authenticate, AuthRecord
<1>2. CASE ~Locked(rec)
  <2>1. rec.attempts + 1 \in 0..MaxAttempts
    BY <1>2, MaxAttemptsAssumption DEF Locked, AuthRecord
  <2>2. 0 \in 0..MaxAttempts
    BY MaxAttemptsAssumption
  <2> QED
    BY <1>2, <2>1, <2>2 DEF Authenticate, AuthRecord
<1> QED
  BY <1>1, <1>2

LEMMA NewRecordType ==
  ASSUME NEW pin \in Pins, NEW key \in Keys
  PROVE  NewRecord(pin, key) \in AuthRecord
BY MaxAttemptsAssumption DEF NewRecord, AuthRecord

(* A record is there exactly when the entry is one.                        *)
LEMMA RecordedType ==
  ASSUME NEW d \in Database, NEW u \in Users
  PROVE  Recorded(d, u) <=> d.auth[u] \in AuthRecord
BY SessionsAssumption DEF Recorded, Database

LEMMA StoreAttemptType ==
  ASSUME NEW d \in Database, NEW u \in Users, NEW pin
  PROVE  StoreAttempt(d, u, pin) \in Database
<1>1. CASE Recorded(d, u)
  <2>1. Authenticate(d.auth[u], pin) \in AuthRecord
    BY <1>1, RecordedType, AuthenticateType
  <2> QED
    BY <1>1, <2>1 DEF StoreAttempt, Database
<1>2. CASE ~Recorded(d, u)
  BY <1>2 DEF StoreAttempt
<1> QED
  BY <1>1, <1>2

LEMMA FlagAttemptType ==
  ASSUME NEW t \in Token, NEW d, NEW u \in Users, NEW pin
  PROVE  FlagAttempt(t, d, u, pin) \in Token
BY DEF FlagAttempt, Token, LockedFlagOf, Locked, Recorded

LEMMA LoggedInType ==
  ASSUME NEW t \in Token, NEW d \in Database, NEW u \in Users, NEW pin
  PROVE  LoggedIn(t, d, u, pin) \in Token
<1>1. FlagAttempt(t, d, u, pin) \in Token
  BY FlagAttemptType
<1>2. PinAccepted(d, u, pin) => d.auth[u].key \in Keys
  BY RecordedType DEF PinAccepted, AuthRecord
<1> QED
  BY <1>1, <1>2 DEF LoggedIn, Token

LEMMA LoggedOutType ==
  ASSUME NEW t \in Token, NEW d
  PROVE  LoggedOut(t, d) \in Token
BY DEF LoggedOut, Token

LEMMA PinStoredType ==
  ASSUME NEW d \in Database, NEW u \in Users, NEW pin \in Pins, NEW key \in Keys
  PROVE  PinStored(d, u, pin, key) \in Database
BY NewRecordType DEF PinStored, Database

LEMMA OpenedTokenType ==
  ASSUME NEW d \in Database
  PROVE  OpenedToken(d) \in Token
BY DEF OpenedToken, Token, Database, LockedFlagOf, Locked, Recorded

LEMMA BlankTokenType == BlankToken \in Token
BY DEF BlankToken, OpenedToken, Token, LockedFlagOf, Locked, Recorded

LEMMA ReinitTypes ==
  ASSUME NEW d \in Database, NEW t \in Token,
         NEW pin \in Pins, NEW key \in Keys, NEW stage \in Stages
  PROVE  /\ ReinitDatabase(d, pin, key, stage) \in Database
         /\ ReinitToken(t, key, stage) \in Token
<1>1. NewRecord(pin, key) \in AuthRecord /\ NewRecord(DefaultPin, key) \in AuthRecord
  BY NewRecordType, SessionsAssumption
<1>2. ReinitDatabase(d, pin, key, stage) \in Database
  BY <1>1 DEF ReinitDatabase, Database, Users
<1>3. ReinitToken(t, key, stage) \in Token
  BY DEF ReinitToken, Token
<1> QED
  BY <1>2, <1>3

LEMMA StateTypes ==
  ASSUME NEW st \in States
  PROVE  /\ PublicState(st) \in States
         /\ \A u \in Users : LoginState(st, u) \in States \cup {"ERROR"}
BY DEF PublicState, LoginState, States, RWStates, ROStates, Users

(* A session in a table, and what the two changes of state make of it.     *)
LEMMA SessionChange ==
  ASSUME NEW ss \in [Handles -> Session \cup {Absent}], NEW u \in Users,
         NEW h \in Handles, ss[h] # Absent
  PROVE  /\ ss[h] \in Session
         /\ [ss[h] EXCEPT !.state = PublicState(@)] \in Session
         /\ LoginState(ss[h].state, u) # "ERROR" =>
              [ss[h] EXCEPT !.state = LoginState(@, u)] \in Session
<1>1. ss[h] \in Session
  OBVIOUS
<1>2. /\ PublicState(ss[h].state) \in States
      /\ LoginState(ss[h].state, u) \in States \cup {"ERROR"}
  BY <1>1, StateTypes DEF Session
<1> QED
  BY <1>1, <1>2 DEF Session

LEMMA SessionTables ==
  ASSUME NEW ss \in [Handles -> Session \cup {Absent}], NEW u \in Users
  PROVE  /\ Invalidated(ss) \in [Handles -> Session \cup {Absent}]
         /\ StatesChange(ss, u) => Changed(ss, u) \in [Handles -> Session \cup {Absent}]
BY SessionChange DEF Invalidated, Changed, StatesChange

(* The types of the token and the database after any attempt, for use in   *)
(* the steps below.                                                        *)
LEMMA SlotTypes ==
  ASSUME TypeOK, NEW s \in Slots
  PROVE  /\ token[s] \in Token
         /\ db[s] \in Database
         /\ sessions[s] \in [Handles -> Session \cup {Absent}]
BY DEF TypeOK

LEMMA HandleTypes ==
  ASSUME TypeOK, NEW h \in Handles, ValidHandle(h)
  PROVE  sessionmap[h] \in Slots
BY SessionsAssumption DEF TypeOK, ValidHandle

(* A session named by the map, once SessionMapConsistent is known.         *)
LEMMA MappedSession ==
  ASSUME TypeOK, SessionMapConsistent, NEW h \in Handles, ValidHandle(h)
  PROVE  /\ sessionmap[h] \in Slots
         /\ sessions[sessionmap[h]][h] # Absent
         /\ sessions[sessionmap[h]][h] \in Session
BY HandleTypes DEF TypeOK, SessionMapConsistent

LEMMA TypeInit == Init => TypeOK
<1> SUFFICES ASSUME Init PROVE TypeOK
  OBVIOUS
<1>1. nextHandle \in 0..(MaxHandle + 1)
  BY SessionsAssumption DEF Init
<1>2. \A s \in Slots : token[s] \in Token
  BY BlankTokenType DEF Init
<1>3. db \in [Slots -> Database]
  BY DEF Init, Database
<1> QED
  BY <1>1, <1>2, <1>3 DEF Init, TypeOK, NoSessions

LEMMA TypeStep ==
  ASSUME TypeOK, SessionMapConsistent, [Next]_vars
  PROVE  TypeOK'
<1>1. ASSUME NEW added \in SUBSET Slots, Initialize(added) PROVE TypeOK'
  <2>1. token' \in [Slots -> Token]
    BY <1>1, OpenedTokenType DEF Initialize, TypeOK
  <2>2. nextHandle' \in 0..(MaxHandle + 1)
    BY <1>1, SessionsAssumption DEF Initialize, TypeOK
  <2> QED
    BY <1>1, <2>1, <2>2 DEF Initialize, TypeOK
<1>2. CASE Finalize
  BY <1>2, BlankTokenType, SessionsAssumption DEF Finalize, TypeOK, NoSessions
<1>3. ASSUME NEW s \in Slots, NEW rw \in BOOLEAN, OpenSession(s, rw) PROVE TypeOK'
  <2>1. [state |-> OpenedState(token[s].logged, rw), opLogin |-> "NotInitialized"] \in Session
    BY DEF OpenedState, Session, States, RWStates, ROStates, OpLogin
  <2>2. nextHandle' \in 0..(MaxHandle + 1)
    BY <1>3, SessionsAssumption DEF OpenSession, TypeOK, Handles
  <2> QED
    BY <1>3, <2>1, <2>2 DEF OpenSession, TypeOK
<1>4. ASSUME NEW h \in Handles, CloseSession(h) PROVE TypeOK'
  <2>1. sessionmap[h] \in Slots
    BY <1>4, HandleTypes DEF CloseSession, Usable
  <2>2. LoggedOut(token[sessionmap[h]], db[sessionmap[h]]) \in Token
    BY <2>1, SlotTypes, LoggedOutType
  <2>3. token' \in [Slots -> Token]
    BY <1>4, <2>1, <2>2 DEF CloseSession, TypeOK
  <2>4. sessions' \in [Slots -> [Handles -> Session \cup {Absent}]]
    BY <1>4, <2>1 DEF CloseSession, TypeOK
  <2> QED
    BY <1>4, <2>3, <2>4 DEF CloseSession, TypeOK
<1>5. ASSUME NEW s \in Slots, CloseAllSessions(s) PROVE TypeOK'
  <2>1. LoggedOut(token[s], db[s]) \in Token
    BY SlotTypes, LoggedOutType
  <2>2. token' \in [Slots -> Token]
    BY <1>5, <2>1 DEF CloseAllSessions, TypeOK
  <2> QED
    BY <1>5, <2>2 DEF CloseAllSessions, TypeOK, MapWithout, NoSessions
<1>6. ASSUME NEW h \in Handles, NEW u \in Users, NEW pin \in Pins, Login(h, u, pin)
      PROVE  TypeOK'
  <2> DEFINE s == sessionmap[h]
             t == LoggedIn(token[s], db[s], u, pin)
             d == StoreAttempt(db[s], u, pin)
  <2>1. s \in Slots
    BY <1>6, HandleTypes DEF Login, Usable
  <2>2. t \in Token /\ d \in Database /\ LoggedOut(t, d) \in Token
    BY <2>1, SlotTypes, LoggedInType, StoreAttemptType, LoggedOutType
  <2>3. /\ Invalidated(sessions[s]) \in [Handles -> Session \cup {Absent}]
        /\ StatesChange(sessions[s], u) =>
             Changed(sessions[s], u) \in [Handles -> Session \cup {Absent}]
    BY <2>1, SlotTypes, SessionTables
  <2> HIDE DEF t, d
  <2>4. token' = [token EXCEPT ![s] = IF t.logged = u /\ ~StatesChange(sessions[s], u)
                                      THEN LoggedOut(t, d) ELSE t]
    BY <1>6 DEF Login, t, d
  <2>5. sessions' = IF t.logged # u THEN sessions
                    ELSE [sessions EXCEPT ![s] =
                            IF StatesChange(sessions[s], u) THEN Changed(sessions[s], u)
                            ELSE Invalidated(sessions[s])]
    BY <1>6 DEF Login, t
  <2>6. db' = [db EXCEPT ![s] = d]
    BY <1>6 DEF Login, d
  <2>7. UNCHANGED <<nextHandle, slots, sessionmap>>
    BY <1>6 DEF Login
  <2> QED
    BY <2>1, <2>2, <2>3, <2>4, <2>5, <2>6, <2>7 DEF TypeOK
<1>7. ASSUME NEW h \in Handles, NEW pin \in Pins, ContextLogin(h, pin) PROVE TypeOK'
  <2> DEFINE s == sessionmap[h]
             u == token[s].logged
             d == StoreAttempt(db[s], u, pin)
             t == FlagAttempt(token[s], db[s], u, pin)
             granted == [sessions[s][h] EXCEPT !.opLogin = "LoginOk"]
  <2>1. s \in Slots /\ sessions[s][h] \in Session
    BY <1>7, MappedSession DEF ContextLogin, Usable
  <2>2. u \in Users
    BY <1>7, <2>1, SlotTypes DEF ContextLogin, Token
  <2>3. t \in Token /\ d \in Database /\ LoggedOut(t, d) \in Token
    BY <2>1, <2>2, SlotTypes, FlagAttemptType, StoreAttemptType, LoggedOutType
  <2>4. Invalidated(sessions[s]) \in [Handles -> Session \cup {Absent}]
    BY <2>1, SlotTypes, SessionTables DEF Users
  <2>5. granted \in Session
    BY <2>1 DEF Session, OpLogin
  <2>6. /\ db' = [db EXCEPT ![s] = d]
        /\ token' = [token EXCEPT ![s] = t] \/ token' = [token EXCEPT ![s] = LoggedOut(t, d)]
        /\ UNCHANGED <<nextHandle, slots, sessionmap>>
    BY <1>7 DEF ContextLogin
  <2>7. \/ sessions' = sessions
        \/ sessions' = [sessions EXCEPT ![s] = Invalidated(sessions[s])]
        \/ sessions' = [sessions EXCEPT ![s] =
             [sessions[s] EXCEPT ![h] = granted]]
    BY <1>7 DEF ContextLogin
  <2> HIDE DEF u, d, t, granted
  <2>8. [sessions[s] EXCEPT ![h] = granted] \in [Handles -> Session \cup {Absent}]
    BY <2>1, <2>5, SlotTypes
  <2>9. sessions' \in [Slots -> [Handles -> Session \cup {Absent}]]
    BY <2>1, <2>4, <2>7, <2>8 DEF TypeOK
  <2>10. token' \in [Slots -> Token] /\ db' \in [Slots -> Database]
    BY <2>1, <2>3, <2>6 DEF TypeOK
  <2> QED
    BY <2>6, <2>9, <2>10 DEF TypeOK
<1>8. ASSUME NEW h \in Handles, Logout(h) PROVE TypeOK'
  <2> DEFINE s == sessionmap[h]
  <2>1. s \in Slots
    BY <1>8, HandleTypes DEF Logout, Usable
  <2>2. LoggedOut(token[s], db[s]) \in Token
    BY <2>1, SlotTypes, LoggedOutType
  <2>3. Invalidated(sessions[s]) \in [Handles -> Session \cup {Absent}]
    BY <2>1, SlotTypes, SessionTables DEF Users
  <2> QED
    BY <1>8, <2>1, <2>2, <2>3 DEF Logout, TypeOK
<1>9. ASSUME NEW h \in Handles, NEW needsLogin \in BOOLEAN, BeginOperation(h, needsLogin)
      PROVE  TypeOK'
  <2> DEFINE s == sessionmap[h]
             begun == [sessions[s][h] EXCEPT !.opLogin =
                         IF needsLogin THEN "Required" ELSE "NotRequired"]
  <2>1. s \in Slots /\ sessions[s][h] \in Session
    BY <1>9, MappedSession DEF BeginOperation, Usable
  <2>2. begun \in Session
    BY <2>1 DEF Session, OpLogin
  <2>3. sessions' = [sessions EXCEPT ![s] = [sessions[s] EXCEPT ![h] = begun]]
    BY <1>9 DEF BeginOperation
  <2>4. UNCHANGED <<nextHandle, slots, sessionmap, token, db>>
    BY <1>9 DEF BeginOperation
  <2> HIDE DEF begun
  <2>5. [sessions[s] EXCEPT ![h] = begun] \in [Handles -> Session \cup {Absent}]
    BY <2>1, <2>2, SlotTypes
  <2>6. sessions' \in [Slots -> [Handles -> Session \cup {Absent}]]
    BY <2>1, <2>3, <2>5 DEF TypeOK
  <2> QED
    BY <2>4, <2>6 DEF TypeOK
<1>10. ASSUME NEW s \in Slots, NEW pin \in Pins, NEW key \in Keys, NEW stage \in Stages,
              InitToken(s, pin, key, stage)
       PROVE  TypeOK'
  <2> DEFINE d == IF token[s].initialized THEN StoreAttempt(db[s], "SO", pin) ELSE db[s]
             t == IF token[s].initialized THEN FlagAttempt(token[s], db[s], "SO", pin)
                  ELSE token[s]
  <2>1. d \in Database /\ t \in Token
    BY SlotTypes, StoreAttemptType, FlagAttemptType DEF Users
  <2>2. /\ ReinitDatabase(d, pin, key, stage) \in Database
        /\ ReinitToken(t, key, stage) \in Token
    BY <2>1, ReinitTypes
  <2>3. /\ \/ db' = [db EXCEPT ![s] = d]
           \/ db' = [db EXCEPT ![s] = ReinitDatabase(d, pin, key, stage)]
        /\ \/ token' = [token EXCEPT ![s] = t]
           \/ token' = [token EXCEPT ![s] = ReinitToken(t, key, stage)]
        /\ UNCHANGED <<nextHandle, slots, sessionmap, sessions>>
    BY <1>10 DEF InitToken
  <2> HIDE DEF d, t
  <2> QED
    BY <2>1, <2>2, <2>3 DEF TypeOK
<1>11. ASSUME NEW h \in Handles, NEW pin \in Pins, InitPIN(h, pin) PROVE TypeOK'
  <2> DEFINE s == sessionmap[h]
  <2>1. s \in Slots
    BY <1>11, HandleTypes DEF InitPIN, Usable
  <2>2. token[s].key \in Keys
    BY <1>11, <2>1, SlotTypes DEF InitPIN, TokenOf, Token
  <2>3. PinStored(db[s], "USER", pin, token[s].key) \in Database
    BY <2>1, <2>2, SlotTypes, PinStoredType DEF Users
  <2> QED
    BY <1>11, <2>1, <2>3 DEF InitPIN, TokenOf, TypeOK
<1>12. ASSUME NEW h \in Handles, NEW old \in Pins, NEW new \in Pins, SetPIN(h, old, new)
       PROVE  TypeOK'
  <2> DEFINE s == sessionmap[h]
             u == IF token[s].logged = Nobody THEN "USER" ELSE token[s].logged
             d == StoreAttempt(db[s], u, old)
             t == IF token[s].logged = Nobody THEN LoggedIn(token[s], db[s], u, old)
                  ELSE FlagAttempt(token[s], db[s], u, old)
             e == IF PinAccepted(db[s], u, old) /\ t.key # NoKey
                  THEN PinStored(d, u, new, t.key) ELSE d
  <2>1. s \in Slots
    BY <1>12, HandleTypes DEF SetPIN, Usable
  <2>2. u \in Users
    BY <2>1, SlotTypes DEF Token, Users
  <2>3. d \in Database /\ t \in Token
    BY <2>1, <2>2, SlotTypes, StoreAttemptType, LoggedInType, FlagAttemptType
  <2>4. e \in Database
    BY <2>2, <2>3, PinStoredType DEF Token
  <2>5. LoggedOut(t, e) \in Token
    BY <2>3, LoggedOutType
  <2>6. /\ db' = [db EXCEPT ![s] = e]
        /\ token' = [token EXCEPT ![s] = t] \/ token' = [token EXCEPT ![s] = LoggedOut(t, e)]
        /\ UNCHANGED <<nextHandle, slots, sessionmap, sessions>>
    BY <1>12 DEF SetPIN
  <2> HIDE DEF u, d, t, e
  <2> QED
    BY <2>1, <2>3, <2>4, <2>5, <2>6 DEF TypeOK
<1>13. CASE UNCHANGED vars
  BY <1>13 DEF vars, TypeOK
<1> QED
  BY <1>1, <1>2, <1>3, <1>4, <1>5, <1>6, <1>7, <1>8, <1>9, <1>10, <1>11, <1>12, <1>13 DEF Next
-----------------------------------------------------------------------------
(* The inductive invariant.  Beside the types and SessionMapConsistent it  *)
(* says of each slot                                                       *)
(*   - what its sessions report, and that a login has a session;           *)
(*   - that a logged in token is initialized and holds the key, and that   *)
(*     the stored records share one key even while nobody is logged in     *)
(*     (or the next login could not decrypt what the other user wrote);    *)
(*   - that the flags in memory know every PIN locked in storage.          *)
(* None of the invariants of Sessions is inductive alone: that C_Logout    *)
(* resets the states needs the record of the logged in user to be stored,  *)
(* C_CloseAllSessions ends the login because a logged in token is          *)
(* initialized, C_InitToken relies on there being no login without a       *)
(* session, and C_Login on the states being public before it.              *)
SessionsInv(ss, u) ==
  /\ u # Nobody => \E h \in Handles : ss[h] # Absent
  /\ \A h \in Handles : ss[h] # Absent =>
       /\ ss[h].state \in {"RW_PUBLIC", "RO_PUBLIC"} <=> u = Nobody
       /\ ss[h].state = "RW_SO" => u = "SO"
       /\ u = "SO" => ss[h].state \in RWStates

OneKey(d, key) == \A u \in Users : Recorded(d, u) => d.auth[u].key = key

SharedKey(d) == \A u \in Users : Recorded(d, u) => OneKey(d, d.auth[u].key)

TokenInv(t, d) ==
  /\ t.logged # Nobody => t.initialized /\ Recorded(d, t.logged) /\ OneKey(d, t.key)
  /\ SharedKey(d)

FlagsInv(t, d) == \A u \in Users : (d.tables /\ LockedFlagOf(d, u)) => t.lockedFlag[u]

IInv ==
  /\ TypeOK
  /\ SessionMapConsistent
  /\ \A s \in Slots : SessionsInv(sessions[s], token[s].logged)
  /\ \A s \in Slots : TokenInv(token[s], db[s])
  /\ \A s \in slots : FlagsInv(token[s], db[s])
-----------------------------------------------------------------------------
(* What the helpers of Sessions do to the parts the invariant speaks of.   *)

LEMMA StoreAttemptEffect ==
  ASSUME NEW d \in Database, NEW u \in Users, NEW pin
  PROVE  LET e == StoreAttempt(d, u, pin) IN
         /\ e.tables = d.tables /\ e.info = d.info
         /\ \A v \in Users : /\ Recorded(e, v) <=> Recorded(d, v)
                             /\ Recorded(d, v) => e.auth[v].key = d.auth[v].key
                             /\ v # u => e.auth[v] = d.auth[v]
<1>1. CASE Recorded(d, u)
  <2>1. d.auth[u] \in AuthRecord
    BY <1>1, RecordedType
  <2>2. /\ Authenticate(d.auth[u], pin) \in AuthRecord
        /\ Authenticate(d.auth[u], pin).key = d.auth[u].key
    BY <2>1, AuthenticateType DEF Authenticate, AuthRecord
  <2> DEFINE rec == Authenticate(d.auth[u], pin)
  <2>3. StoreAttempt(d, u, pin) = [d EXCEPT !.auth = [d.auth EXCEPT ![u] = rec]]
    BY <1>1 DEF StoreAttempt
  <2>4. rec # Absent
    BY <2>2, SessionsAssumption
  <2> HIDE DEF rec
  <2> QED
    BY <1>1, <2>2, <2>3, <2>4 DEF Database, Recorded, rec
<1>2. CASE ~Recorded(d, u)
  BY <1>2 DEF StoreAttempt
<1> QED
  BY <1>1, <1>2

LEMMA FlagAttemptEffect ==
  ASSUME NEW t \in Token, NEW d, NEW u \in Users, NEW pin
  PROVE  LET f == FlagAttempt(t, d, u, pin) IN
         /\ f.initialized = t.initialized /\ f.logged = t.logged /\ f.key = t.key
         /\ f.lockedFlag[u] = LockedFlagOf(StoreAttempt(d, u, pin), u)
         /\ \A v \in Users : v # u => f.lockedFlag[v] = t.lockedFlag[v]
BY DEF FlagAttempt, Token

LEMMA LoggedInEffect ==
  ASSUME NEW t \in Token, NEW d \in Database, NEW u \in Users, NEW pin
  PROVE  LET i == LoggedIn(t, d, u, pin) IN
         /\ i.initialized = t.initialized
         /\ i.lockedFlag = FlagAttempt(t, d, u, pin).lockedFlag
         /\ PinAccepted(d, u, pin) => i.logged = u /\ i.key = d.auth[u].key
         /\ ~PinAccepted(d, u, pin) => i.logged = t.logged /\ i.key = t.key
<1>1. FlagAttempt(t, d, u, pin) \in Token
  BY FlagAttemptType
<1> QED
  BY <1>1, FlagAttemptEffect DEF LoggedIn, Token

LEMMA LoggedOutEffect ==
  ASSUME NEW t \in Token, NEW d
  PROVE  LET o == LoggedOut(t, d) IN
         /\ o.logged = Nobody
         /\ o.initialized = t.initialized /\ o.lockedFlag = t.lockedFlag
BY DEF LoggedOut, Token

LEMMA PinStoredEffect ==
  ASSUME NEW d \in Database, NEW u \in Users, NEW pin \in Pins, NEW key \in Keys
  PROVE  LET e == PinStored(d, u, pin, key) IN
         /\ e.tables = d.tables /\ e.info = d.info
         /\ Recorded(e, u) /\ e.auth[u].key = key /\ ~LockedFlagOf(e, u)
         /\ \A v \in Users : v # u => e.auth[v] = d.auth[v]
<1> DEFINE rec == NewRecord(pin, key)
<1>1. rec.key = key /\ rec # Absent
  BY NewRecordType, SessionsAssumption DEF NewRecord
<1>2. ~Locked(rec)
  BY MaxAttemptsAssumption DEF NewRecord, Locked
<1>3. PinStored(d, u, pin, key) = [d EXCEPT !.auth = [d.auth EXCEPT ![u] = rec]]
  BY DEF PinStored
<1> HIDE DEF rec
<1> QED
  BY <1>1, <1>2, <1>3 DEF Database, Recorded, LockedFlagOf
-----------------------------------------------------------------------------
(* The invariant of one slot under the helpers.                            *)

LEMMA AttemptInv ==
  ASSUME NEW t \in Token, NEW d \in Database, NEW u \in Users, NEW pin,
         TokenInv(t, d)
  PROVE  /\ TokenInv(FlagAttempt(t, d, u, pin), StoreAttempt(d, u, pin))
         /\ FlagsInv(t, d) => FlagsInv(FlagAttempt(t, d, u, pin), StoreAttempt(d, u, pin))
<1> DEFINE e == StoreAttempt(d, u, pin)
           f == FlagAttempt(t, d, u, pin)
<1>1. /\ \A key : OneKey(d, key) => OneKey(e, key)
      /\ SharedKey(e)
  BY StoreAttemptEffect DEF TokenInv, SharedKey, OneKey
<1>2. t.logged \in Users \cup {Nobody}
  BY DEF Token
<1>3. TokenInv(f, e)
  <2>1. f.initialized = t.initialized /\ f.logged = t.logged /\ f.key = t.key
    BY FlagAttemptEffect
  <2>2. \A v \in Users : Recorded(e, v) <=> Recorded(d, v)
    BY StoreAttemptEffect
  <2> QED
    BY <1>1, <1>2, <2>1, <2>2 DEF TokenInv
<1>4. ASSUME FlagsInv(t, d), NEW v \in Users, e.tables, LockedFlagOf(e, v)
      PROVE  f.lockedFlag[v]
  <2>1. CASE v = u
    BY <1>4, <2>1, FlagAttemptEffect
  <2>2. CASE v # u
    BY <1>4, <2>2, FlagAttemptEffect, StoreAttemptEffect DEF FlagsInv, LockedFlagOf, Recorded
  <2> QED
    BY <2>1, <2>2
<1> QED
  BY <1>3, <1>4 DEF FlagsInv

LEMMA LoggedInInv ==
  ASSUME NEW t \in Token, NEW d \in Database, NEW u \in Users, NEW pin,
         TokenInv(t, d), t.initialized, t.logged = Nobody
  PROVE  /\ TokenInv(LoggedIn(t, d, u, pin), StoreAttempt(d, u, pin))
         /\ FlagsInv(t, d) => FlagsInv(LoggedIn(t, d, u, pin), StoreAttempt(d, u, pin))
<1> DEFINE e == StoreAttempt(d, u, pin)
           i == LoggedIn(t, d, u, pin)
<1>1. /\ \A key : OneKey(d, key) => OneKey(e, key)
      /\ SharedKey(e)
  BY StoreAttemptEffect DEF TokenInv, SharedKey, OneKey
<1>2. i.initialized = t.initialized
  BY LoggedInEffect
<1>3. PinAccepted(d, u, pin) => i.logged = u
  BY LoggedInEffect
<1>4. PinAccepted(d, u, pin) => i.key = d.auth[u].key
  BY LoggedInEffect
<1>5. ~PinAccepted(d, u, pin) => i.logged = t.logged
  BY LoggedInEffect
<1>6. TokenInv(i, e)
  <2>1. SharedKey(e)
    BY <1>1
  <2>2. CASE PinAccepted(d, u, pin)
    <3>1. Recorded(d, u) /\ Recorded(e, u)
      BY <2>2, StoreAttemptEffect DEF PinAccepted
    <3>2. OneKey(d, d.auth[u].key)
      BY <3>1 DEF TokenInv, SharedKey
    <3> QED
      BY <1>1, <1>2, <1>3, <1>4, <2>1, <2>2, <3>1, <3>2 DEF TokenInv
  <2>3. CASE ~PinAccepted(d, u, pin)
    BY <1>5, <2>1, <2>3 DEF TokenInv
  <2> QED
    BY <2>2, <2>3
<1>7. FlagsInv(t, d) => FlagsInv(i, e)
  BY AttemptInv, LoggedInEffect DEF FlagsInv
<1> QED
  BY <1>6, <1>7

LEMMA LoggedOutInv ==
  ASSUME NEW t \in Token, NEW d, NEW e, TokenInv(t, d)
  PROVE  /\ TokenInv(LoggedOut(t, e), d)
         /\ FlagsInv(t, d) => FlagsInv(LoggedOut(t, e), d)
BY LoggedOutEffect DEF TokenInv, FlagsInv

(* A new PIN that wraps the key every record shares, or, with nobody       *)
(* logged in, the key of a record.                                         *)
LEMMA PinStoredInv ==
  ASSUME NEW t \in Token, NEW d \in Database, NEW u \in Users,
         NEW pin \in Pins, NEW key \in Keys, OneKey(d, key), TokenInv(t, d),
         t.logged # Nobody => t.key = key
  PROVE  /\ TokenInv(t, PinStored(d, u, pin, key))
         /\ FlagsInv(t, d) => FlagsInv(t, PinStored(d, u, pin, key))
<1> DEFINE e == PinStored(d, u, pin, key)
<1>1. OneKey(e, key) /\ SharedKey(e)
  BY PinStoredEffect DEF OneKey, SharedKey, Recorded
<1>2. \A v \in Users : Recorded(d, v) => Recorded(e, v)
  BY PinStoredEffect DEF Recorded
<1>3. t.logged \in Users \cup {Nobody}
  BY DEF Token
<1>4. TokenInv(t, e)
  BY <1>1, <1>2, <1>3 DEF TokenInv
<1>5. FlagsInv(t, d) => FlagsInv(t, e)
  BY PinStoredEffect DEF FlagsInv, LockedFlagOf, Recorded
<1> QED
  BY <1>4, <1>5

(* Wherever C_InitToken stops, it leaves nobody logged in and records that *)
(* all wrap the key it has drawn.                                          *)
LEMMA ReinitInv ==
  ASSUME NEW d \in Database, NEW t \in Token, TokenInv(t, d), t.logged = Nobody,
         NEW pin \in Pins, NEW key \in Keys, NEW stage \in Stages
  PROVE  LET r == ReinitToken(t, key, stage)
             e == ReinitDatabase(d, pin, key, stage)
         IN /\ TokenInv(r, e)
            /\ r.logged = Nobody
            /\ FlagsInv(t, d) => FlagsInv(r, e)
<1> DEFINE r == ReinitToken(t, key, stage)
           e == ReinitDatabase(d, pin, key, stage)
<1>1. r.logged = Nobody
  BY DEF ReinitToken
<1>2. CASE stage < TablesReset
  <2>1. e = d /\ r.lockedFlag = t.lockedFlag
    BY <1>2 DEF ReinitDatabase, ReinitToken, TablesReset, InfoFilled, Stages, NotReset, Complete
  <2> QED
    BY <1>1, <2>1 DEF TokenInv, FlagsInv
<1>3. CASE ~(stage < TablesReset)
  <2>1. \A p \in Pins : /\ NewRecord(p, key) # Absent
                        /\ NewRecord(p, key).key = key
                        /\ ~Locked(NewRecord(p, key))
    BY NewRecordType, SessionsAssumption, MaxAttemptsAssumption DEF NewRecord, Locked
  <2>2. e.auth["USER"] = Absent
    BY <1>3 DEF ReinitDatabase
  <2>3. \/ e.auth["SO"] = Absent
        \/ \E p \in Pins : e.auth["SO"] = NewRecord(p, key)
    BY <1>3, SessionsAssumption DEF ReinitDatabase
  <2>4. SharedKey(e) /\ \A u \in Users : ~LockedFlagOf(e, u)
    BY <2>1, <2>2, <2>3 DEF SharedKey, OneKey, Users, Recorded, LockedFlagOf
  <2> QED
    BY <1>1, <2>4 DEF TokenInv, FlagsInv
<1> QED
  BY <1>1, <1>2, <1>3

LEMMA InvalidatedInv ==
  ASSUME NEW ss \in [Handles -> Session \cup {Absent}]
  PROVE  SessionsInv(Invalidated(ss), Nobody)
<1>1. ASSUME NEW h \in Handles, Invalidated(ss)[h] # Absent
      PROVE  Invalidated(ss)[h].state \in {"RW_PUBLIC", "RO_PUBLIC"}
  <2>1. ss[h] # Absent /\ ss[h] \in Session
    BY <1>1 DEF Invalidated
  <2>2. Invalidated(ss)[h].state = PublicState(ss[h].state)
    BY <2>1 DEF Invalidated, Session
  <2> QED
    BY <2>2 DEF PublicState
<1> QED
  BY <1>1 DEF SessionsInv, Nobody

LEMMA ChangedInv ==
  ASSUME NEW ss \in [Handles -> Session \cup {Absent}], NEW u \in Users,
         SessionsInv(ss, Nobody), StatesChange(ss, u),
         NEW g \in Handles, ss[g] # Absent
  PROVE  SessionsInv(Changed(ss, u), u)
<1>1. ASSUME NEW h \in Handles, ss[h] # Absent
      PROVE  /\ Changed(ss, u)[h] # Absent
             /\ Changed(ss, u)[h].state = LoginState(ss[h].state, u)
             /\ ss[h].state \in {"RW_PUBLIC", "RO_PUBLIC"}
             /\ LoginState(ss[h].state, u) # "ERROR"
  <2>1. ss[h] \in Session
    BY <1>1
  <2>2. LoginState(ss[h].state, u) # "ERROR"
    BY <1>1 DEF StatesChange
  <2>3. Changed(ss, u)[h] = [ss[h] EXCEPT !.state = LoginState(ss[h].state, u)]
    BY <1>1 DEF Changed
  <2>4. Changed(ss, u)[h] \in Session
    <3>1. LoginState(ss[h].state, u) \in States
      BY <2>1, <2>2, StateTypes DEF Session
    <3> QED
      BY <2>1, <2>3, <3>1 DEF Session
  <2>5. Changed(ss, u)[h].state = LoginState(ss[h].state, u)
    BY <2>1, <2>3 DEF Session
  <2> QED
    BY <1>1, <2>2, <2>4, <2>5, SessionsAssumption DEF SessionsInv
<1>2. \A h \in Handles : Changed(ss, u)[h] # Absent => ss[h] # Absent
  BY DEF Changed
<1>3. CASE u = "USER"
  <2>1. \A st \in {"RW_PUBLIC", "RO_PUBLIC"} : LoginState(st, u) \in {"RW_USER", "RO_USER"}
    BY <1>3 DEF LoginState, ROStates
  <2> QED
    BY <1>1, <1>2, <1>3, <2>1 DEF SessionsInv, Nobody
<1>4. CASE u = "SO"
  <2>1. LoginState("RW_PUBLIC", u) = "RW_SO" /\ LoginState("RO_PUBLIC", u) = "ERROR"
    BY <1>4 DEF LoginState
  <2> QED
    BY <1>1, <1>2, <1>4, <2>1 DEF SessionsInv, Nobody, RWStates
<1> QED
  BY <1>3, <1>4 DEF Users
-----------------------------------------------------------------------------
LEMMA InvInit == Init => IInv
<1> SUFFICES ASSUME Init PROVE IInv
  OBVIOUS
<1>1. SessionMapConsistent
  BY SessionsAssumption DEF Init, SessionMapConsistent, NoSessions
<1>2. \A s \in Slots : token[s].logged = Nobody
  BY DEF Init, BlankToken, OpenedToken
<1>3. \A s \in Slots : SessionsInv(sessions[s], token[s].logged)
  BY <1>2 DEF Init, NoSessions, SessionsInv
<1>4. \A s \in Slots : TokenInv(token[s], db[s])
  <2>1. \A s \in Slots, u \in Users : ~Recorded(db[s], u)
    BY DEF Init, Recorded
  <2> QED
    BY <1>2, <2>1 DEF TokenInv, SharedKey
<1> QED
  BY TypeInit, <1>1, <1>3, <1>4 DEF IInv, Init
-----------------------------------------------------------------------------
(* The map of the handles.                                                 *)

(* A change of state keeps the sessions there are.                         *)
LEMMA SamePresence ==
  ASSUME NEW ss \in [Handles -> Session \cup {Absent}], NEW u \in Users, NEW h \in Handles
  PROVE  /\ Invalidated(ss)[h] # Absent <=> ss[h] # Absent
         /\ StatesChange(ss, u) => (Changed(ss, u)[h] # Absent <=> ss[h] # Absent)
<1>1. CASE ss[h] = Absent
  BY <1>1 DEF Invalidated, Changed
<1>2. CASE ss[h] # Absent
  <2>1. ss[h] \in Session
    BY <1>2
  <2>2. PublicState(ss[h].state) \in States
    BY <2>1, StateTypes DEF Session
  <2>3. Invalidated(ss)[h] = [ss[h] EXCEPT !.state = PublicState(ss[h].state)]
    BY <1>2 DEF Invalidated
  <2>4. Invalidated(ss)[h] \in Session
    BY <2>1, <2>2, <2>3 DEF Session
  <2>5. ASSUME StatesChange(ss, u) PROVE Changed(ss, u)[h] \in Session
    <3>1. LoginState(ss[h].state, u) \in States
      BY <1>2, <2>1, <2>5, StateTypes DEF Session, StatesChange
    <3>2. Changed(ss, u)[h] = [ss[h] EXCEPT !.state = LoginState(ss[h].state, u)]
      BY <1>2 DEF Changed
    <3> QED
      BY <2>1, <3>1, <3>2 DEF Session
  <2> QED
    BY <1>2, <2>4, <2>5, SessionsAssumption
<1> QED
  BY <1>1, <1>2

(* A step that replaces the table of one slot by one with the same         *)
(* sessions, and leaves the handles alone, keeps the map consistent.       *)
LEMMA SameSessions ==
  ASSUME TypeOK, SessionMapConsistent, NEW s \in Slots,
         NEW ss \in [Handles -> Session \cup {Absent}],
         \A h \in Handles : ss[h] # Absent <=> sessions[s][h] # Absent,
         sessions' = [sessions EXCEPT ![s] = ss],
         UNCHANGED <<nextHandle, slots, sessionmap>>
  PROVE  SessionMapConsistent'
BY DEF TypeOK, SessionMapConsistent

LEMMA SessionReplaced ==
  ASSUME TypeOK, SessionMapConsistent, NEW s \in Slots, NEW h \in Handles,
         sessions[s][h] # Absent, NEW new \in Session,
         sessions' = [sessions EXCEPT ![s] = [sessions[s] EXCEPT ![h] = new]],
         UNCHANGED <<nextHandle, slots, sessionmap>>
  PROVE  SessionMapConsistent'
<1> DEFINE ss == [sessions[s] EXCEPT ![h] = new]
<1>1. ss \in [Handles -> Session \cup {Absent}]
  BY SlotTypes
<1>2. \A g \in Handles : ss[g] # Absent <=> sessions[s][g] # Absent
  BY SlotTypes, SessionsAssumption
<1>3. sessions' = [sessions EXCEPT ![s] = ss]
  OBVIOUS
<1> HIDE DEF ss
<1> QED
  BY <1>1, <1>2, <1>3, SameSessions

LEMMA SessionsInvalidated ==
  ASSUME TypeOK, SessionMapConsistent, NEW s \in Slots,
         sessions' = [sessions EXCEPT ![s] = Invalidated(sessions[s])],
         UNCHANGED <<nextHandle, slots, sessionmap>>
  PROVE  SessionMapConsistent'
<1>1. Invalidated(sessions[s]) \in [Handles -> Session \cup {Absent}]
  BY SlotTypes, SessionTables DEF Users
<1>2. \A h \in Handles : Invalidated(sessions[s])[h] # Absent <=> sessions[s][h] # Absent
  BY SlotTypes, SamePresence DEF Users
<1> QED
  BY <1>1, <1>2, SameSessions

LEMMA MapStep ==
  ASSUME TypeOK, SessionMapConsistent, [Next]_vars
  PROVE  SessionMapConsistent'
<1>1. ASSUME NEW added \in SUBSET Slots, Initialize(added) PROVE SessionMapConsistent'
  BY <1>1 DEF Initialize, Initialized, TypeOK, Handles, SessionMapConsistent
<1>2. CASE Finalize
  BY <1>2, SessionsAssumption DEF Finalize, SessionMapConsistent, NoSessions
<1>3. ASSUME NEW s \in Slots, NEW rw \in BOOLEAN, OpenSession(s, rw)
      PROVE  SessionMapConsistent'
  <2> DEFINE new == [state   |-> OpenedState(token[s].logged, rw),
                     opLogin |-> "NotInitialized"]
  <2>1. new # Absent
    <3>1. new \in Session
      BY DEF OpenedState, Session, States, RWStates, ROStates, OpLogin
    <3> QED
      BY <3>1, SessionsAssumption
  <2>2. /\ s \in slots /\ slots' = slots
        /\ nextHandle \in Handles /\ nextHandle' = nextHandle + 1
        /\ sessionmap' = [sessionmap EXCEPT ![nextHandle] = s]
        /\ sessions' = [sessions EXCEPT ![s] = [sessions[s] EXCEPT ![nextHandle] = new]]
    BY <1>3 DEF OpenSession
  <2> HIDE DEF new
  <2>3. \A h \in Handles, z \in Slots :
          sessions'[z][h] = IF z = s /\ h = nextHandle THEN new ELSE sessions[z][h]
    BY <2>2 DEF TypeOK
  <2>4. \A h \in Handles : sessionmap'[h] = IF h = nextHandle THEN s ELSE sessionmap[h]
    BY <2>2 DEF TypeOK
  <2>5. \A z \in Slots : sessions[z][nextHandle] = Absent
    BY <2>2 DEF SessionMapConsistent, Handles
  <2> QED
    BY <2>1, <2>2, <2>3, <2>4, <2>5 DEF SessionMapConsistent, Handles
<1>4. ASSUME NEW h \in Handles, CloseSession(h) PROVE SessionMapConsistent'
  <2> DEFINE s == sessionmap[h]
  <2>1. s \in Slots
    BY <1>4, HandleTypes DEF CloseSession, Usable
  <2>2. /\ sessionmap' = [sessionmap EXCEPT ![h] = NoSlot]
        /\ sessions' = [sessions EXCEPT ![s] = [sessions[s] EXCEPT ![h] = Absent]]
        /\ UNCHANGED <<nextHandle, slots>>
    BY <1>4 DEF CloseSession
  <2> QED
    BY <2>1, <2>2, SessionsAssumption DEF TypeOK, SessionMapConsistent
<1>5. ASSUME NEW s \in Slots, CloseAllSessions(s) PROVE SessionMapConsistent'
  BY <1>5, SessionsAssumption DEF CloseAllSessions, MapWithout, NoSessions, TypeOK,
     SessionMapConsistent
<1>6. ASSUME NEW h \in Handles, NEW u \in Users, NEW pin \in Pins, Login(h, u, pin)
      PROVE  SessionMapConsistent'
  <2> DEFINE s == sessionmap[h]
  <2>1. s \in Slots
    BY <1>6, HandleTypes DEF Login, Usable
  <2>2. UNCHANGED <<nextHandle, slots, sessionmap>>
    BY <1>6 DEF Login
  <2>3. \/ sessions' = sessions
        \/ sessions' = [sessions EXCEPT ![s] = Invalidated(sessions[s])]
        \/ /\ StatesChange(sessions[s], u)
           /\ sessions' = [sessions EXCEPT ![s] = Changed(sessions[s], u)]
    BY <1>6 DEF Login
  <2>4. CASE sessions' = sessions
    BY <2>2, <2>4 DEF SessionMapConsistent
  <2>5. CASE sessions' = [sessions EXCEPT ![s] = Invalidated(sessions[s])]
    BY <2>1, <2>2, <2>5, SessionsInvalidated
  <2>6. CASE /\ StatesChange(sessions[s], u)
             /\ sessions' = [sessions EXCEPT ![s] = Changed(sessions[s], u)]
    <3>1. sessions[s] \in [Handles -> Session \cup {Absent}]
      BY <2>1, SlotTypes
    <3>2. PICK ss : ss = Changed(sessions[s], u)
      OBVIOUS
    <3>3. ss \in [Handles -> Session \cup {Absent}]
      BY <2>6, <3>1, <3>2, SessionTables
    <3>4. \A g \in Handles : ss[g] # Absent <=> sessions[s][g] # Absent
      BY <2>6, <3>1, <3>2, SamePresence
    <3> QED
      BY <2>1, <2>2, <2>6, <3>2, <3>3, <3>4, SameSessions
  <2> QED
    BY <2>3, <2>4, <2>5, <2>6
<1>7. ASSUME NEW h \in Handles, NEW pin \in Pins, ContextLogin(h, pin)
      PROVE  SessionMapConsistent'
  <2> DEFINE s == sessionmap[h]
             granted == [sessions[s][h] EXCEPT !.opLogin = "LoginOk"]
  <2>1. s \in Slots /\ sessions[s][h] \in Session /\ sessions[s][h] # Absent
    BY <1>7, MappedSession DEF ContextLogin, Usable
  <2>2. granted \in Session
    BY <2>1 DEF Session, OpLogin
  <2>3. UNCHANGED <<nextHandle, slots, sessionmap>>
    BY <1>7 DEF ContextLogin
  <2>4. \/ sessions' = sessions
        \/ sessions' = [sessions EXCEPT ![s] = Invalidated(sessions[s])]
        \/ sessions' = [sessions EXCEPT ![s] = [sessions[s] EXCEPT ![h] = granted]]
    BY <1>7 DEF ContextLogin
  <2>5. CASE sessions' = sessions
    BY <2>3, <2>5 DEF SessionMapConsistent
  <2>6. CASE sessions' = [sessions EXCEPT ![s] = Invalidated(sessions[s])]
    BY <2>1, <2>3, <2>6, SessionsInvalidated
  <2> HIDE DEF granted
  <2>7. CASE sessions' = [sessions EXCEPT ![s] = [sessions[s] EXCEPT ![h] = granted]]
    BY <2>1, <2>2, <2>3, <2>7, SessionReplaced
  <2> QED
    BY <2>4, <2>5, <2>6, <2>7
<1>8. ASSUME NEW h \in Handles, Logout(h) PROVE SessionMapConsistent'
  <2> DEFINE s == sessionmap[h]
  <2>1. s \in Slots
    BY <1>8, HandleTypes DEF Logout, Usable
  <2>2. /\ UNCHANGED <<nextHandle, slots, sessionmap>>
        /\ \/ sessions' = sessions
           \/ sessions' = [sessions EXCEPT ![s] = Invalidated(sessions[s])]
    BY <1>8 DEF Logout
  <2>3. CASE sessions' = sessions
    BY <2>2, <2>3 DEF SessionMapConsistent
  <2>4. CASE sessions' = [sessions EXCEPT ![s] = Invalidated(sessions[s])]
    BY <2>1, <2>2, <2>4, SessionsInvalidated
  <2> QED
    BY <2>2, <2>3, <2>4
<1>9. ASSUME NEW h \in Handles, NEW needsLogin \in BOOLEAN, BeginOperation(h, needsLogin)
      PROVE  SessionMapConsistent'
  <2> DEFINE s == sessionmap[h]
             begun == [sessions[s][h] EXCEPT !.opLogin =
                         IF needsLogin THEN "Required" ELSE "NotRequired"]
  <2>1. s \in Slots /\ sessions[s][h] \in Session /\ sessions[s][h] # Absent
    BY <1>9, MappedSession DEF BeginOperation, Usable
  <2>2. begun \in Session
    BY <2>1 DEF Session, OpLogin
  <2>3. /\ UNCHANGED <<nextHandle, slots, sessionmap>>
        /\ sessions' = [sessions EXCEPT ![s] = [sessions[s] EXCEPT ![h] = begun]]
    BY <1>9 DEF BeginOperation
  <2> HIDE DEF begun
  <2> QED
    BY <2>1, <2>2, <2>3, SessionReplaced
<1>10. ASSUME NEW s \in Slots, NEW pin \in Pins, NEW key \in Keys, NEW stage \in Stages,
              InitToken(s, pin, key, stage)
       PROVE  SessionMapConsistent'
  BY <1>10 DEF InitToken, SessionMapConsistent
<1>11. ASSUME NEW h \in Handles, NEW pin \in Pins, InitPIN(h, pin)
       PROVE  SessionMapConsistent'
  BY <1>11 DEF InitPIN, SessionMapConsistent
<1>12. ASSUME NEW h \in Handles, NEW old \in Pins, NEW new \in Pins, SetPIN(h, old, new)
       PROVE  SessionMapConsistent'
  BY <1>12 DEF SetPIN, SessionMapConsistent
<1>13. CASE UNCHANGED vars
  BY <1>13 DEF vars, SessionMapConsistent
<1> QED
  BY <1>1, <1>2, <1>3, <1>4, <1>5, <1>6, <1>7, <1>8, <1>9, <1>10, <1>11, <1>12, <1>13 DEF Next
-----------------------------------------------------------------------------
(* The rest of the invariant.                                              *)

(* A step that changes one slot only.                                      *)
LEMMA OneSlot ==
  ASSUME IInv, TypeOK', SessionMapConsistent', NEW s \in Slots, slots' = slots,
         NEW ss, NEW t, NEW d,
         sessions' = [sessions EXCEPT ![s] = ss],
         token' = [token EXCEPT ![s] = t],
         db' = [db EXCEPT ![s] = d],
         SessionsInv(ss, t.logged), TokenInv(t, d),
         FlagsInv(token[s], db[s]) => FlagsInv(t, d)
  PROVE  IInv'
<1>1. \A z \in Slots : /\ sessions'[z] = IF z = s THEN ss ELSE sessions[z]
                       /\ token'[z] = IF z = s THEN t ELSE token[z]
                       /\ db'[z] = IF z = s THEN d ELSE db[z]
  BY DEF IInv, TypeOK
<1>2. \A z \in Slots : SessionsInv(sessions'[z], token'[z].logged)
  BY <1>1 DEF IInv
<1>3. \A z \in Slots : TokenInv(token'[z], db'[z])
  BY <1>1 DEF IInv
<1>4. \A z \in slots' : FlagsInv(token'[z], db'[z])
  BY <1>1 DEF IInv, TypeOK
<1> QED
  BY <1>2, <1>3, <1>4 DEF IInv

(* Replacing a session by one with the same state.                         *)
LEMMA SameStateInv ==
  ASSUME NEW ss \in [Handles -> Session \cup {Absent}], NEW u, SessionsInv(ss, u),
         NEW h \in Handles, ss[h] # Absent,
         NEW new \in Session, new.state = ss[h].state
  PROVE  SessionsInv([ss EXCEPT ![h] = new], u)
<1>1. new # Absent
  BY SessionsAssumption
<1> QED
  BY <1>1 DEF SessionsInv

(* Opening and closing a session.                                          *)
LEMMA OpenedInv ==
  ASSUME NEW ss \in [Handles -> Session \cup {Absent}],
         NEW u \in Users \cup {Nobody}, SessionsInv(ss, u),
         NEW h \in Handles, NEW rw \in BOOLEAN, u = "SO" => rw,
         NEW new \in Session, new.state = OpenedState(u, rw)
  PROVE  SessionsInv([ss EXCEPT ![h] = new], u)
<1>1. /\ new.state \in {"RW_PUBLIC", "RO_PUBLIC"} <=> u = Nobody
      /\ new.state # "RW_SO"
      /\ u = "SO" => new.state \in RWStates
  BY DEF OpenedState, Users, Nobody, RWStates
<1>2. new # Absent
  BY SessionsAssumption
<1> QED
  BY <1>1, <1>2 DEF SessionsInv

LEMMA ClosedInv ==
  ASSUME NEW ss \in [Handles -> Session \cup {Absent}], NEW u, SessionsInv(ss, u),
         NEW h \in Handles, u # Nobody => \E g \in Handles : g # h /\ ss[g] # Absent
  PROVE  SessionsInv([ss EXCEPT ![h] = Absent], u)
BY DEF SessionsInv

LEMMA NoSessionsInv ==
  SessionsInv(NoSessions, Nobody)
BY DEF SessionsInv, NoSessions

LEMMA InvStep ==
  ASSUME IInv, [Next]_vars
  PROVE  IInv'
<1>a. TypeOK /\ SessionMapConsistent
  BY DEF IInv
<1>b. TypeOK' /\ SessionMapConsistent'
  BY <1>a, TypeStep, MapStep
<1>c. ASSUME NEW s \in Slots
      PROVE  /\ token[s] \in Token /\ db[s] \in Database
             /\ sessions[s] \in [Handles -> Session \cup {Absent}]
             /\ SessionsInv(sessions[s], token[s].logged)
             /\ TokenInv(token[s], db[s])
             /\ sessions = [sessions EXCEPT ![s] = sessions[s]]
             /\ token = [token EXCEPT ![s] = token[s]]
             /\ db = [db EXCEPT ![s] = db[s]]
  BY <1>a DEF IInv, TypeOK
<1>d. ASSUME NEW s \in Slots, NEW d PROVE LoggedOut(token[s], d).logged = Nobody
  BY <1>c, LoggedOutEffect
<1>e. ASSUME NEW s \in Slots, NEW u \in Users, NEW pin
      PROVE  FlagAttempt(token[s], db[s], u, pin).logged = token[s].logged
  <2>1. token[s] \in Token
    BY <1>c
  <2> QED
    BY <2>1, FlagAttemptEffect
<1>1. ASSUME NEW added \in SUBSET Slots, Initialize(added) PROVE IInv'
  <2>1. /\ added \cap slots = {} /\ slots' = slots \cup added
        /\ token' = [s \in Slots |-> IF s \in added THEN OpenedToken(db[s]) ELSE token[s]]
        /\ sessions' = sessions /\ db' = db
    BY <1>1 DEF Initialize
  <2>2. ASSUME NEW s \in added
        PROVE  /\ OpenedToken(db[s]).logged = Nobody
               /\ TokenInv(OpenedToken(db[s]), db[s])
               /\ FlagsInv(OpenedToken(db[s]), db[s])
    <3>1. OpenedToken(db[s]).logged = Nobody
      BY DEF OpenedToken
    <3>2. SharedKey(db[s])
      BY DEF IInv, TokenInv
    <3>3. FlagsInv(OpenedToken(db[s]), db[s])
      BY DEF FlagsInv, OpenedToken
    <3> QED
      BY <3>1, <3>2, <3>3 DEF TokenInv
  <2>3. ASSUME NEW s \in added PROVE \A h \in Handles : sessions[s][h] = Absent
    BY <1>a, <2>1 DEF SessionMapConsistent
  <2>4. \A s \in Slots : SessionsInv(sessions'[s], token'[s].logged)
    BY <1>c, <2>1, <2>2, <2>3 DEF SessionsInv
  <2>5. \A s \in Slots : TokenInv(token'[s], db'[s])
    BY <1>c, <2>1, <2>2
  <2>6. \A s \in slots' : FlagsInv(token'[s], db'[s])
    BY <1>a, <2>1, <2>2 DEF IInv, TypeOK
  <2> QED
    BY <1>b, <2>4, <2>5, <2>6 DEF IInv
<1>2. CASE Finalize
  <2>1. \A s \in Slots : token'[s].logged = Nobody /\ sessions'[s] = NoSessions
    BY <1>2 DEF Finalize, BlankToken, OpenedToken
  <2>2. \A s \in Slots : TokenInv(token'[s], db'[s])
    BY <1>2, <1>c, <2>1 DEF Finalize, TokenInv
  <2> QED
    BY <1>2, <1>b, <2>1, <2>2, NoSessionsInv DEF Finalize, IInv
<1>3. ASSUME NEW s \in Slots, NEW rw \in BOOLEAN, OpenSession(s, rw) PROVE IInv'
  <2> DEFINE new == [state   |-> OpenedState(token[s].logged, rw),
                     opLogin |-> "NotInitialized"]
             ss  == [sessions[s] EXCEPT ![nextHandle] = new]
  <2>1. new \in Session /\ new.state = OpenedState(token[s].logged, rw)
    BY DEF OpenedState, Session, States, RWStates, ROStates, OpLogin
  <2>2. /\ nextHandle \in Handles
        /\ token[s].logged = "SO" => rw
        /\ sessions' = [sessions EXCEPT ![s] = ss]
        /\ UNCHANGED <<slots, token, db>>
    BY <1>3 DEF OpenSession, MayOpen
  <2>3. token[s].logged \in Users \cup {Nobody}
    BY <1>c DEF Token
  <2> HIDE DEF new
  <2>4. SessionsInv(ss, token[s].logged)
    BY <1>c, <2>1, <2>2, <2>3, OpenedInv
  <2> HIDE DEF ss
  <2> QED
    BY <1>b, <1>c, <2>2, <2>4, OneSlot
<1>4. ASSUME NEW h \in Handles, CloseSession(h) PROVE IInv'
  <2> DEFINE s  == sessionmap[h]
             t  == LoggedOut(token[s], db[s])
             ss == [sessions[s] EXCEPT ![h] = Absent]
  <2>1. s \in Slots /\ sessions[s][h] # Absent
    BY <1>4, <1>a, MappedSession DEF CloseSession, Usable
  <2>2. /\ sessions' = [sessions EXCEPT ![s] = ss]
        /\ token' = IF IsLast(s, h) THEN [token EXCEPT ![s] = t] ELSE token
        /\ UNCHANGED <<slots, db>>
    BY <1>4 DEF CloseSession
  <2>3. TokenInv(t, db[s]) /\ (FlagsInv(token[s], db[s]) => FlagsInv(t, db[s]))
    BY <1>c, <2>1, LoggedOutInv
  <2>4. CASE IsLast(s, h)
    <3>1. SessionsInv(ss, Nobody)
      BY <1>c, <2>1, <2>4 DEF SessionsInv, IsLast, OpenHandles
    <3>2. t.logged = Nobody
      BY <1>d, <2>1
    <3> HIDE DEF ss, t
    <3> QED
      BY <1>b, <1>c, <2>1, <2>2, <2>3, <2>4, <3>1, <3>2, OneSlot
  <2>5. CASE ~IsLast(s, h)
    <3>1. \E g \in Handles : g # h /\ sessions[s][g] # Absent
      BY <2>1, <2>5 DEF IsLast, OpenHandles
    <3>2. SessionsInv(ss, token[s].logged)
      BY <1>c, <2>1, <3>1, ClosedInv
    <3> HIDE DEF ss
    <3> QED
      BY <1>b, <1>c, <2>1, <2>2, <2>5, <3>2, OneSlot
  <2> QED
    BY <2>4, <2>5
<1>5. ASSUME NEW s \in Slots, CloseAllSessions(s) PROVE IInv'
  <2> DEFINE t == IF token[s].initialized THEN LoggedOut(token[s], db[s]) ELSE token[s]
  <2>1. t.logged = Nobody
    BY <1>c, <1>d DEF TokenInv
  <2>2. TokenInv(t, db[s]) /\ (FlagsInv(token[s], db[s]) => FlagsInv(t, db[s]))
    BY <1>c, LoggedOutInv
  <2>3. /\ sessions' = [sessions EXCEPT ![s] = NoSessions]
        /\ token' = [token EXCEPT ![s] = t]
        /\ UNCHANGED <<slots, db>>
    BY <1>5, <1>c DEF CloseAllSessions
  <2> HIDE DEF t
  <2> QED
    BY <1>b, <1>c, <2>1, <2>2, <2>3, NoSessionsInv, OneSlot
<1>6. ASSUME NEW h \in Handles, NEW u \in Users, NEW pin \in Pins, Login(h, u, pin)
      PROVE  IInv'
  <2> DEFINE s == sessionmap[h]
             t == LoggedIn(token[s], db[s], u, pin)
             d == StoreAttempt(db[s], u, pin)
             ok == StatesChange(sessions[s], u)
  <2>1. s \in Slots /\ sessions[s][h] # Absent
    BY <1>6, <1>a, MappedSession DEF Login, Usable
  <2>2. token[s].logged = Nobody /\ token[s].initialized
    BY <1>6 DEF Login, Usable, TokenOf
  <2>3. t \in Token
    BY <1>c, <2>1, LoggedInType
  <2>4. TokenInv(t, d)
    BY <1>c, <2>1, <2>2, LoggedInInv
  <2>5. FlagsInv(token[s], db[s]) => FlagsInv(t, d)
    BY <1>c, <2>1, <2>2, LoggedInInv
  <2>6. t.logged = u \/ t.logged = Nobody
    <3>1. PinAccepted(db[s], u, pin) => t.logged = u
      BY <1>c, <2>1, LoggedInEffect
    <3>2. ~PinAccepted(db[s], u, pin) => t.logged = token[s].logged
      BY <1>c, <2>1, LoggedInEffect
    <3> QED
      BY <2>2, <3>1, <3>2
  <2>7. /\ LoggedOut(t, d).logged = Nobody
        /\ TokenInv(LoggedOut(t, d), d)
        /\ FlagsInv(t, d) => FlagsInv(LoggedOut(t, d), d)
    BY <2>3, <2>4, LoggedOutEffect, LoggedOutInv
  <2>8. SessionsInv(sessions[s], Nobody)
    BY <1>c, <2>1, <2>2
  <2>9. SessionsInv(Invalidated(sessions[s]), Nobody)
    BY <1>c, <2>1, InvalidatedInv
  <2>10. ok => SessionsInv(Changed(sessions[s], u), u)
    BY <1>c, <2>1, <2>8, ChangedInv
  <2>11. slots' = slots /\ db' = [db EXCEPT ![s] = d]
    BY <1>6 DEF Login
  <2>12. token' = [token EXCEPT ![s] = IF t.logged = u /\ ~ok THEN LoggedOut(t, d) ELSE t]
    BY <1>6 DEF Login
  <2>13. sessions' = IF t.logged # u THEN sessions
                     ELSE [sessions EXCEPT ![s] =
                             IF ok THEN Changed(sessions[s], u) ELSE Invalidated(sessions[s])]
    BY <1>6 DEF Login
  <2> HIDE DEF t, d, ok
  <2>14. CASE t.logged # u
    <3>1. /\ token' = [token EXCEPT ![s] = t]
          /\ sessions' = [sessions EXCEPT ![s] = sessions[s]]
      BY <1>c, <2>1, <2>12, <2>13, <2>14
    <3>2. SessionsInv(sessions[s], t.logged)
      BY <2>6, <2>8, <2>14
    <3> QED
      BY <1>b, <2>1, <2>4, <2>5, <2>11, <3>1, <3>2, OneSlot
  <2>15. CASE t.logged = u /\ ok
    <3>1. /\ token' = [token EXCEPT ![s] = t]
          /\ sessions' = [sessions EXCEPT ![s] = Changed(sessions[s], u)]
      BY <2>12, <2>13, <2>15
    <3>2. SessionsInv(Changed(sessions[s], u), t.logged)
      BY <2>10, <2>15
    <3> QED
      BY <1>b, <2>1, <2>4, <2>5, <2>11, <3>1, <3>2, OneSlot
  <2>16. CASE t.logged = u /\ ~ok
    <3>1. /\ token' = [token EXCEPT ![s] = LoggedOut(t, d)]
          /\ sessions' = [sessions EXCEPT ![s] = Invalidated(sessions[s])]
      BY <2>12, <2>13, <2>16
    <3>2. SessionsInv(Invalidated(sessions[s]), LoggedOut(t, d).logged)
      BY <2>7, <2>9
    <3>3. FlagsInv(token[s], db[s]) => FlagsInv(LoggedOut(t, d), d)
      BY <2>5, <2>7
    <3>4. TokenInv(LoggedOut(t, d), d)
      BY <2>7
    <3> QED
      BY <1>b, <2>1, <2>11, <3>1, <3>2, <3>3, <3>4, OneSlot
  <2> QED
    BY <2>14, <2>15, <2>16
<1>7. ASSUME NEW h \in Handles, NEW pin \in Pins, ContextLogin(h, pin) PROVE IInv'
  <2> DEFINE s == sessionmap[h]
             u == token[s].logged
             d == StoreAttempt(db[s], u, pin)
             t == FlagAttempt(token[s], db[s], u, pin)
             granted == [sessions[s][h] EXCEPT !.opLogin = "LoginOk"]
             ss == [sessions[s] EXCEPT ![h] = granted]
  <2>1. s \in Slots /\ sessions[s][h] \in Session /\ sessions[s][h] # Absent
    BY <1>7, <1>a, MappedSession DEF ContextLogin, Usable
  <2>2. u \in Users
    BY <1>7, <1>c, <2>1 DEF ContextLogin, Token
  <2>3. t \in Token
    BY <1>c, <2>1, <2>2, FlagAttemptType
  <2>4. /\ TokenInv(t, d)
        /\ FlagsInv(token[s], db[s]) => FlagsInv(t, d)
    BY <1>c, <2>1, <2>2, AttemptInv
  <2>5. t.logged = token[s].logged
    BY <1>e, <2>1, <2>2
  <2>6. /\ LoggedOut(t, d).logged = Nobody
        /\ TokenInv(LoggedOut(t, d), d)
        /\ FlagsInv(t, d) => FlagsInv(LoggedOut(t, d), d)
    BY <2>3, <2>4, LoggedOutEffect, LoggedOutInv
  <2>7. SessionsInv(sessions[s], t.logged)
    BY <1>c, <2>1, <2>5
  <2>8. SessionsInv(Invalidated(sessions[s]), LoggedOut(t, d).logged)
    BY <1>c, <2>1, <2>6, InvalidatedInv
  <2>9. SessionsInv(ss, t.logged)
    <3>1. granted \in Session /\ granted.state = sessions[s][h].state
      BY <2>1 DEF Session, OpLogin
    <3> HIDE DEF granted, t
    <3> QED
      BY <1>c, <2>1, <2>7, <3>1, SameStateInv
  <2>10. slots' = slots /\ db' = [db EXCEPT ![s] = d]
    BY <1>7 DEF ContextLogin
  <2>11. \/ /\ sessions' = [sessions EXCEPT ![s] = ss]
            /\ token' = [token EXCEPT ![s] = t]
         \/ /\ sessions' = [sessions EXCEPT ![s] = Invalidated(sessions[s])]
            /\ token' = [token EXCEPT ![s] = LoggedOut(t, d)]
         \/ /\ sessions' = sessions
            /\ token' = [token EXCEPT ![s] = t]
    BY <1>7 DEF ContextLogin
  <2> HIDE DEF t, d, ss
  <2>12. CASE /\ sessions' = [sessions EXCEPT ![s] = ss]
              /\ token' = [token EXCEPT ![s] = t]
    BY <1>b, <2>1, <2>4, <2>9, <2>10, <2>12, OneSlot
  <2>13. CASE /\ sessions' = [sessions EXCEPT ![s] = Invalidated(sessions[s])]
              /\ token' = [token EXCEPT ![s] = LoggedOut(t, d)]
    BY <1>b, <2>1, <2>4, <2>6, <2>8, <2>10, <2>13, OneSlot
  <2>14. CASE /\ sessions' = sessions
              /\ token' = [token EXCEPT ![s] = t]
    BY <1>b, <1>c, <2>1, <2>4, <2>7, <2>10, <2>14, OneSlot
  <2> QED
    BY <2>11, <2>12, <2>13, <2>14
<1>8. ASSUME NEW h \in Handles, Logout(h) PROVE IInv'
  <2> DEFINE s == sessionmap[h]
             t == LoggedOut(token[s], db[s])
  <2>1. s \in Slots
    BY <1>8, <1>a, HandleTypes DEF Logout, Usable
  <2>2. Recorded(db[s], token[s].logged)
    BY <1>8, <1>c, <2>1 DEF Logout, TokenOf, TokenInv
  <2>3. /\ slots' = slots /\ db' = db
        /\ token' = [token EXCEPT ![s] = t]
        /\ sessions' = [sessions EXCEPT ![s] = Invalidated(sessions[s])]
    BY <1>8, <2>2 DEF Logout
  <2>4. TokenInv(t, db[s]) /\ (FlagsInv(token[s], db[s]) => FlagsInv(t, db[s]))
    BY <1>c, <2>1, LoggedOutInv
  <2>5. SessionsInv(Invalidated(sessions[s]), t.logged)
    BY <1>c, <1>d, <2>1, InvalidatedInv
  <2> HIDE DEF t
  <2> QED
    BY <1>b, <1>c, <2>1, <2>3, <2>4, <2>5, OneSlot
<1>9. ASSUME NEW h \in Handles, NEW needsLogin \in BOOLEAN, BeginOperation(h, needsLogin)
      PROVE  IInv'
  <2> DEFINE s == sessionmap[h]
             begun == [sessions[s][h] EXCEPT !.opLogin =
                         IF needsLogin THEN "Required" ELSE "NotRequired"]
             ss == [sessions[s] EXCEPT ![h] = begun]
  <2>1. s \in Slots /\ sessions[s][h] \in Session /\ sessions[s][h] # Absent
    BY <1>9, <1>a, MappedSession DEF BeginOperation, Usable
  <2>2. begun \in Session /\ begun.state = sessions[s][h].state
    BY <2>1 DEF Session, OpLogin
  <2>3. /\ UNCHANGED <<slots, token, db>>
        /\ sessions' = [sessions EXCEPT ![s] = ss]
    BY <1>9 DEF BeginOperation
  <2> HIDE DEF begun
  <2>4. SessionsInv(ss, token[s].logged)
    BY <1>c, <2>1, <2>2, SameStateInv
  <2> HIDE DEF ss
  <2> QED
    BY <1>b, <1>c, <2>1, <2>3, <2>4, OneSlot
<1>10. ASSUME NEW s \in Slots, NEW pin \in Pins, NEW key \in Keys, NEW stage \in Stages,
              InitToken(s, pin, key, stage)
       PROVE  IInv'
  <2> DEFINE d == IF token[s].initialized THEN StoreAttempt(db[s], "SO", pin) ELSE db[s]
             t == IF token[s].initialized THEN FlagAttempt(token[s], db[s], "SO", pin)
                  ELSE token[s]
             r == ReinitToken(t, key, stage)
             e == ReinitDatabase(d, pin, key, stage)
  <2>1. token[s].logged = Nobody
    BY <1>10, <1>c DEF InitToken, HasSessions, OpenHandles, SessionsInv
  <2>2. d \in Database /\ t \in Token
    BY <1>c, StoreAttemptType, FlagAttemptType DEF Users
  <2>3. t.logged = Nobody
    BY <1>e, <2>1 DEF Users
  <2>4. TokenInv(t, d) /\ (FlagsInv(token[s], db[s]) => FlagsInv(t, d))
    BY <1>c, AttemptInv DEF Users
  <2>5. /\ slots' = slots /\ sessions' = [sessions EXCEPT ![s] = sessions[s]]
        /\ \/ db' = [db EXCEPT ![s] = d] /\ token' = [token EXCEPT ![s] = t]
           \/ db' = [db EXCEPT ![s] = e] /\ token' = [token EXCEPT ![s] = r]
    BY <1>10, <1>c DEF InitToken
  <2>6. SessionsInv(sessions[s], Nobody)
    BY <1>c, <2>1
  <2> HIDE DEF d, t
  <2>7. /\ TokenInv(r, e) /\ r.logged = Nobody
        /\ FlagsInv(t, d) => FlagsInv(r, e)
    BY <2>2, <2>3, <2>4, ReinitInv
  <2> HIDE DEF e, r
  <2>8. CASE db' = [db EXCEPT ![s] = d] /\ token' = [token EXCEPT ![s] = t]
    BY <1>b, <2>3, <2>4, <2>5, <2>6, <2>8, OneSlot
  <2>9. CASE db' = [db EXCEPT ![s] = e] /\ token' = [token EXCEPT ![s] = r]
    BY <1>b, <2>4, <2>5, <2>6, <2>7, <2>9, OneSlot
  <2> QED
    BY <2>5, <2>8, <2>9
<1>11. ASSUME NEW h \in Handles, NEW pin \in Pins, InitPIN(h, pin) PROVE IInv'
  <2> DEFINE s == sessionmap[h]
             d == PinStored(db[s], "USER", pin, token[s].key)
  <2>1. s \in Slots
    BY <1>11, <1>a, HandleTypes DEF InitPIN, Usable
  <2>2. token[s].key \in Keys
    BY <1>11, <1>c, <2>1 DEF InitPIN, TokenOf, Token
  <2>3. OneKey(db[s], token[s].key)
    BY <1>11, <1>c, <2>1 DEF InitPIN, TokenOf, TokenInv, Nobody
  <2>4. TokenInv(token[s], d) /\ (FlagsInv(token[s], db[s]) => FlagsInv(token[s], d))
    BY <1>c, <2>1, <2>2, <2>3, PinStoredInv DEF Users
  <2>5. /\ UNCHANGED <<slots, sessions, token>>
        /\ db' = [db EXCEPT ![s] = d]
    BY <1>11 DEF InitPIN, TokenOf
  <2> HIDE DEF d
  <2> QED
    BY <1>b, <1>c, <2>1, <2>4, <2>5, OneSlot
<1>12. ASSUME NEW h \in Handles, NEW old \in Pins, NEW new \in Pins, SetPIN(h, old, new)
       PROVE  IInv'
  <2> DEFINE s == sessionmap[h]
             u == IF token[s].logged = Nobody THEN "USER" ELSE token[s].logged
             d == StoreAttempt(db[s], u, old)
             t == IF token[s].logged = Nobody THEN LoggedIn(token[s], db[s], u, old)
                  ELSE FlagAttempt(token[s], db[s], u, old)
             e == IF PinAccepted(db[s], u, old) /\ t.key # NoKey
                  THEN PinStored(d, u, new, t.key) ELSE d
             r == IF token[s].logged = Nobody THEN LoggedOut(t, e) ELSE t
  <2>1. s \in Slots /\ token[s].initialized
    BY <1>12, <1>a, HandleTypes DEF SetPIN, Usable, TokenOf
  <2>2. u \in Users
    BY <1>c, <2>1 DEF Token, Users
  <2>3. d \in Database /\ t \in Token
    BY <1>c, <2>1, <2>2, StoreAttemptType, LoggedInType, FlagAttemptType
  <2>4. TokenInv(t, d) /\ (FlagsInv(token[s], db[s]) => FlagsInv(t, d))
    BY <1>c, <2>1, <2>2, LoggedInInv, AttemptInv
  <2>5. PinAccepted(db[s], u, old) => t.logged # Nobody
    <3>1. CASE token[s].logged = Nobody
      BY <1>c, <2>1, <2>2, <3>1, LoggedInEffect DEF Users, Nobody
    <3>2. CASE token[s].logged # Nobody
      BY <1>e, <2>1, <2>2, <3>2
    <3> QED
      BY <3>1, <3>2
  <2>6. TokenInv(t, e) /\ (FlagsInv(token[s], db[s]) => FlagsInv(t, e))
    <3> HIDE DEF u, d, t
    <3>1. CASE PinAccepted(db[s], u, old) /\ t.key # NoKey
      <4>1. t.key \in Keys /\ OneKey(d, t.key)
        BY <2>3, <2>4, <2>5, <3>1 DEF Token, TokenInv
      <4> QED
        BY <2>2, <2>3, <2>4, <3>1, <4>1, PinStoredInv
    <3>2. CASE ~(PinAccepted(db[s], u, old) /\ t.key # NoKey)
      BY <2>4, <3>2
    <3> QED
      BY <3>1, <3>2
  <2>7. TokenInv(r, e) /\ (FlagsInv(token[s], db[s]) => FlagsInv(r, e))
    <3> HIDE DEF u, d, t, e
    <3> QED
      BY <2>3, <2>6, LoggedOutInv
  <2>8. r.logged = token[s].logged
    <3>1. CASE token[s].logged = Nobody
      <4> HIDE DEF t, e
      <4> QED
        BY <2>3, <3>1, LoggedOutEffect
    <3>2. CASE token[s].logged # Nobody
      BY <1>e, <2>1, <2>2, <3>2
    <3> QED
      BY <3>1, <3>2
  <2>9. /\ UNCHANGED <<slots, sessions>>
        /\ db' = [db EXCEPT ![s] = e]
        /\ token' = [token EXCEPT ![s] = r]
    BY <1>12 DEF SetPIN
  <2> HIDE DEF e, r
  <2> QED
    BY <1>b, <1>c, <2>1, <2>7, <2>8, <2>9, OneSlot
<1>13. CASE UNCHANGED vars
  BY <1>13, <1>b DEF vars, IInv
<1> QED
  BY <1>1, <1>2, <1>3, <1>4, <1>5, <1>6, <1>7, <1>8, <1>9, <1>10, <1>11, <1>12, <1>13 DEF Next

(* The invariant that carries the proofs holds in every reachable state:   *)
(* it is inductive over all calls, with C_InitToken stopped anywhere.      *)
THEOREM Invariance == Spec => []IInv
BY InvInit, InvStep, PTL DEF Spec

(* Type correctness: every variable keeps its type; in particular the      *)
(* failed attempts of a record never pass the limit (aci.authenticate).    *)
THEOREM TypeCorrect == Spec => []TypeOK
<1>1. IInv => TypeOK
  BY DEF IInv
<1> QED
  BY <1>1, Invariance, PTL

(* The map of handles and the tables of the slots hold the same sessions.  *)
THEOREM MapConsistent == Spec => []SessionMapConsistent
<1>1. IInv => SessionMapConsistent
  BY DEF IInv
<1> QED
  BY <1>1, Invariance, PTL

(* No token stays logged in when its last session is gone: the login never *)
(* outlives the sessions, whichever call ends the last of them.            *)
THEOREM LoginEndsWithSessions == Spec => []LoginNeedsSession
<1>1. IInv => LoginNeedsSession
  BY DEF IInv, SessionsInv, LoginNeedsSession, HasSessions, OpenHandles
<1> QED
  BY <1>1, Invariance, PTL

(* The SO's login and a read-only session never meet on a slot.            *)
THEOREM SOSessionsWrite == Spec => []NoReadOnlySessionUnderSO
<1>1. IInv => NoReadOnlySessionUnderSO
  BY DEF IInv, SessionsInv, NoReadOnlySessionUnderSO, HasROSessions, OpenHandles,
     RWStates, ROStates
<1> QED
  BY <1>1, Invariance, PTL

(* The state every session reports is in step with its token's login.      *)
THEOREM StatesFollow == Spec => []StatesFollowLogin
<1>1. IInv => StatesFollowLogin
  BY DEF IInv, SessionsInv, StatesFollowLogin, OpenHandles
<1> QED
  BY <1>1, Invariance, PTL

(* Whoever is logged in holds the key that all records of the token wrap.  *)
THEOREM LoggedInKey == Spec => []LoginHoldsTheKey
<1>1. IInv => LoginHoldsTheKey
  BY DEF IInv, TokenInv, OneKey, LoginHoldsTheKey
<1> QED
  BY <1>1, Invariance, PTL

(* No PIN is locked without the flags of the token saying so.              *)
THEOREM LocksReported == Spec => []LockedPinReported
<1>1. IInv => LockedPinReported
  BY DEF IInv, FlagsInv, LockedPinReported
<1> QED
  BY <1>1, Invariance, PTL
-----------------------------------------------------------------------------
(***************************************************************************)
(* A locked PIN stays locked, for every set of slots, PINs and keys and    *)
(* every limit on the attempts.                                            *)
(*                                                                         *)
(* The hard case is C_InitToken on a token that is not initialized, which  *)
(* checks no PIN.  It may not be a way to clear a lock, so a database with *)
(* token info whose token in memory is not initialized (a C_InitToken that *)
(* stopped between default_token_info and fill_token_info) must not have a *)
(* locked record: FreshInv, with the invariant that info needs tables.     *)
(***************************************************************************)
FreshInv(t, d) == (d.info /\ ~t.initialized) => \A u \in Users : ~LockedFlagOf(d, u)

LockInv ==
  /\ \A s \in Slots : db[s].info => db[s].tables
  /\ \A s \in slots : FreshInv(token[s], db[s])
-----------------------------------------------------------------------------
(* The attempt that unlocks nothing, and what a right PIN says.            *)
LEMMA AttemptKeepsLock ==
  ASSUME NEW d \in Database, NEW u \in Users, NEW pin
  PROVE  /\ \A v \in Users : LockedFlagOf(d, v) => LockedFlagOf(StoreAttempt(d, u, pin), v)
         /\ PinAccepted(d, u, pin) => ~LockedFlagOf(d, u)
<1>1. ASSUME Recorded(d, u), Locked(d.auth[u])
      PROVE  /\ Authenticate(d.auth[u], pin).attempts = d.auth[u].attempts
             /\ d.auth[u].attempts # 0
  <2>1. d.auth[u] \in AuthRecord
    BY <1>1, RecordedType
  <2> QED
    BY <1>1, <2>1, MaxAttemptsAssumption DEF Authenticate, AuthRecord, Locked
<1>2. PinAccepted(d, u, pin) => ~LockedFlagOf(d, u)
  BY <1>1 DEF PinAccepted, Accepts, LockedFlagOf
<1>3. ASSUME NEW v \in Users, LockedFlagOf(d, v)
      PROVE  LockedFlagOf(StoreAttempt(d, u, pin), v)
  <2>1. Recorded(StoreAttempt(d, u, pin), v)
    BY <1>3, StoreAttemptEffect DEF LockedFlagOf
  <2>2. CASE v = u
    <3>1. StoreAttempt(d, u, pin).auth[u] = Authenticate(d.auth[u], pin)
      BY <1>3, <2>2 DEF StoreAttempt, LockedFlagOf, Database
    <3> QED
      BY <1>1, <1>3, <2>1, <2>2, <3>1 DEF LockedFlagOf, Locked
  <2>3. CASE v # u
    <3>1. StoreAttempt(d, u, pin).auth[v] = d.auth[v]
      BY <2>3, StoreAttemptEffect
    <3> QED
      BY <1>3, <2>1, <3>1 DEF LockedFlagOf
  <2> QED
    BY <2>2, <2>3
<1> QED
  BY <1>2, <1>3

(* What C_InitToken leaves from db_reset on.                               *)
LEMMA ReinitEffect ==
  ASSUME NEW d \in Database, NEW pin \in Pins, NEW key \in Keys, NEW stage \in Stages,
         stage >= TablesReset
  PROVE  LET e == ReinitDatabase(d, pin, key, stage) IN
         /\ e.tables
         /\ ~Recorded(e, "USER")
         /\ \A u \in Users : ~LockedFlagOf(e, u)
<1> DEFINE e == ReinitDatabase(d, pin, key, stage)
<1>1. ~(stage < TablesReset)
  BY DEF Stages, NotReset, Complete, TablesReset
<1>2. \A p \in Pins : ~Locked(NewRecord(p, key))
  BY MaxAttemptsAssumption DEF NewRecord, Locked
<1>3. e.tables /\ e.auth["USER"] = Absent
  BY <1>1 DEF ReinitDatabase
<1>4. e.auth["SO"] = Absent \/ \E p \in Pins : e.auth["SO"] = NewRecord(p, key)
  BY <1>1, SessionsAssumption DEF ReinitDatabase
<1> QED
  BY <1>2, <1>3, <1>4 DEF Users, Recorded, LockedFlagOf

LEMMA LockInit == Init => LockInv
BY DEF Init, LockInv
-----------------------------------------------------------------------------
(* Every change of a database is one of these four.                        *)
Attempt(s) == \E u \in Users, pin \in Pins :
  /\ token[s].initialized
  /\ db'[s] = StoreAttempt(db[s], u, pin)
  /\ token'[s].initialized

NewPin(s) == \E u \in Users, pin \in Pins, key \in Keys, d \in Database :
  /\ token[s].initialized
  /\ \/ d = db[s] /\ u = "USER" /\ token[s].logged = "SO"
     \/ \E old \in Pins : /\ PinAccepted(db[s], u, old)
                          /\ d = StoreAttempt(db[s], u, old)
  /\ db'[s] = PinStored(d, u, pin, key)
  /\ token'[s].initialized

Reinit(s) == \E pin \in Pins, key \in Keys, stage \in Stages, d \in Database :
  /\ s \in slots
  /\ stage >= TablesReset
  /\ token[s].initialized => PinAccepted(db[s], "SO", pin)
  /\ db'[s] = ReinitDatabase(d, pin, key, stage)

Same(s) ==
  /\ db'[s] = db[s]
  /\ s \in slots' => \/ token'[s] = OpenedToken(db[s])
                     \/ s \in slots /\ (token[s].initialized => token'[s].initialized)

(* A step at slot s leaves the database and the token of another alone.    *)
LEMMA OtherSlots ==
  ASSUME TypeOK, NEW s \in Slots, NEW z \in Slots, z # s, NEW t, NEW d,
         token' = [token EXCEPT ![s] = t], db' = [db EXCEPT ![s] = d], slots' = slots
  PROVE  Same(z)
BY DEF TypeOK, Same

LEMMA HereOrThere ==
  ASSUME TypeOK, NEW s \in Slots, NEW t, NEW d,
         token' = [token EXCEPT ![s] = t], db' = [db EXCEPT ![s] = d]
  PROVE  token'[s] = t /\ db'[s] = d
BY DEF TypeOK

LEMMA DatabaseSteps ==
  ASSUME IInv, [Next]_vars, NEW z \in Slots
  PROVE  Attempt(z) \/ NewPin(z) \/ Reinit(z) \/ Same(z)
<1>a. TypeOK /\ SessionMapConsistent
  BY DEF IInv
<1>b. ASSUME NEW s \in Slots
      PROVE  /\ token[s] \in Token /\ db[s] \in Database
             /\ token = [token EXCEPT ![s] = token[s]]
             /\ db = [db EXCEPT ![s] = db[s]]
  BY <1>a DEF TypeOK
<1>c. ASSUME NEW s \in Slots, NEW d
      PROVE  LoggedOut(token[s], d).initialized = token[s].initialized
  BY <1>b, LoggedOutEffect
<1>1. ASSUME NEW added \in SUBSET Slots, Initialize(added) PROVE Same(z)
  BY <1>1 DEF Initialize, Same
<1>2. CASE Finalize
  BY <1>2 DEF Finalize, Same
<1>3. ASSUME NEW s \in Slots, NEW rw \in BOOLEAN, OpenSession(s, rw) PROVE Same(z)
  BY <1>3 DEF OpenSession, Same
<1>4. ASSUME NEW h \in Handles, CloseSession(h) PROVE Same(z)
  <2> DEFINE s == sessionmap[h]
             t == LoggedOut(token[s], db[s])
  <2>1. s \in Slots
    BY <1>4, <1>a, HandleTypes DEF CloseSession, Usable
  <2>2. /\ token' = token \/ token' = [token EXCEPT ![s] = t]
        /\ UNCHANGED <<slots, db>>
    BY <1>4 DEF CloseSession
  <2>3. t.initialized = token[s].initialized
    BY <1>c, <2>1
  <2> HIDE DEF t
  <2> QED
    BY <1>a, <2>1, <2>2, <2>3 DEF Same, TypeOK
<1>5. ASSUME NEW s \in Slots, CloseAllSessions(s) PROVE Same(z)
  <2> DEFINE t == LoggedOut(token[s], db[s])
  <2>1. /\ token' = token \/ token' = [token EXCEPT ![s] = t]
        /\ UNCHANGED <<slots, db>>
    BY <1>5 DEF CloseAllSessions
  <2>2. t.initialized = token[s].initialized
    BY <1>c
  <2> HIDE DEF t
  <2> QED
    BY <1>a, <2>1, <2>2 DEF Same, TypeOK
<1>6. ASSUME NEW h \in Handles, NEW u \in Users, NEW pin \in Pins, Login(h, u, pin)
      PROVE  Attempt(z) \/ Same(z)
  <2> DEFINE s == sessionmap[h]
             t == LoggedIn(token[s], db[s], u, pin)
             d == StoreAttempt(db[s], u, pin)
             r == IF t.logged = u /\ ~StatesChange(sessions[s], u) THEN LoggedOut(t, d) ELSE t
  <2>1. s \in Slots /\ token[s].initialized
    BY <1>6, <1>a, HandleTypes DEF Login, Usable, TokenOf
  <2>2. t \in Token
    BY <1>b, <2>1, LoggedInType
  <2>3. t.initialized
    BY <1>b, <2>1, LoggedInEffect
  <2>4. r.initialized
    <3> HIDE DEF t, d
    <3> QED
      BY <2>2, <2>3, LoggedOutEffect
  <2>5. token' = [token EXCEPT ![s] = r] /\ db' = [db EXCEPT ![s] = d] /\ slots' = slots
    BY <1>6 DEF Login
  <2> HIDE DEF r
  <2>6. CASE z = s
    <3>1. d = StoreAttempt(db[s], u, pin)
      OBVIOUS
    <3> HIDE DEF d
    <3>2. token'[s] = r /\ db'[s] = d
      BY <1>a, <2>1, <2>5, HereOrThere
    <3> QED
      BY <2>1, <2>4, <2>6, <3>1, <3>2 DEF Attempt
  <2> HIDE DEF d
  <2>7. CASE z # s
    BY <1>a, <2>1, <2>5, <2>7, OtherSlots
  <2> QED
    BY <2>6, <2>7
<1>7. ASSUME NEW h \in Handles, NEW pin \in Pins, ContextLogin(h, pin)
      PROVE  Attempt(z) \/ Same(z)
  <2> DEFINE s == sessionmap[h]
             u == token[s].logged
             d == StoreAttempt(db[s], u, pin)
             t == FlagAttempt(token[s], db[s], u, pin)
  <2>1. s \in Slots /\ token[s].initialized
    BY <1>7, <1>a, HandleTypes DEF ContextLogin, Usable, TokenOf
  <2>2. u \in Users
    BY <1>7, <1>b, <2>1 DEF ContextLogin, Token
  <2>3. t \in Token
    BY <1>b, <2>1, <2>2, FlagAttemptType
  <2>4. t.initialized
    BY <1>b, <2>1, <2>2, FlagAttemptEffect
  <2>5. LoggedOut(t, d).initialized
    BY <2>3, <2>4, LoggedOutEffect
  <2>6. /\ token' = [token EXCEPT ![s] = t] \/ token' = [token EXCEPT ![s] = LoggedOut(t, d)]
        /\ db' = [db EXCEPT ![s] = d] /\ slots' = slots
    BY <1>7 DEF ContextLogin
  <2> HIDE DEF t
  <2>7. CASE z = s
    <3>1. token'[s] = t \/ token'[s] = LoggedOut(t, d)
      BY <1>a, <2>1, <2>6 DEF TypeOK
    <3>2. db'[s] = d
      BY <1>a, <2>1, <2>6 DEF TypeOK
    <3> QED
      BY <2>1, <2>2, <2>4, <2>5, <2>7, <3>1, <3>2 DEF Attempt
  <2> HIDE DEF d
  <2>8. CASE z # s
    BY <1>a, <2>1, <2>6, <2>8, OtherSlots
  <2> QED
    BY <2>7, <2>8
<1>8. ASSUME NEW h \in Handles, Logout(h) PROVE Same(z)
  <2> DEFINE s == sessionmap[h]
             t == LoggedOut(token[s], db[s])
  <2>1. s \in Slots
    BY <1>8, <1>a, HandleTypes DEF Logout, Usable
  <2>2. token' = [token EXCEPT ![s] = t] /\ UNCHANGED <<slots, db>>
    BY <1>8 DEF Logout
  <2>3. t.initialized = token[s].initialized
    BY <1>c, <2>1
  <2> HIDE DEF t
  <2> QED
    BY <1>a, <2>1, <2>2, <2>3 DEF Same, TypeOK
<1>9. ASSUME NEW h \in Handles, NEW needsLogin \in BOOLEAN, BeginOperation(h, needsLogin)
      PROVE  Same(z)
  BY <1>9 DEF BeginOperation, Same
<1>10. ASSUME NEW s \in Slots, NEW pin \in Pins, NEW key \in Keys, NEW stage \in Stages,
              InitToken(s, pin, key, stage)
       PROVE  Attempt(z) \/ Reinit(z) \/ Same(z)
  <2> DEFINE d == IF token[s].initialized THEN StoreAttempt(db[s], "SO", pin) ELSE db[s]
             t == IF token[s].initialized THEN FlagAttempt(token[s], db[s], "SO", pin)
                  ELSE token[s]
             refused == token[s].initialized /\ ~PinAccepted(db[s], "SO", pin)
             r == IF refused THEN t ELSE ReinitToken(t, key, stage)
             e == IF refused THEN d ELSE ReinitDatabase(d, pin, key, stage)
  <2>1. token' = [token EXCEPT ![s] = r] /\ db' = [db EXCEPT ![s] = e]
        /\ slots' = slots /\ s \in slots
    BY <1>10 DEF InitToken
  <2>2. d \in Database
    BY <1>b, StoreAttemptType DEF Users
  <2>3. token[s].initialized => t.initialized
    BY <1>b, FlagAttemptEffect DEF Users
  <2>4. token[s].initialized => r.initialized
    <3>1. token[s].initialized => ReinitToken(t, key, stage).initialized
      BY <2>3 DEF ReinitToken
    <3> QED
      BY <2>3, <3>1
  <2>5. CASE z # s
    <3> HIDE DEF r, e
    <3> QED
      BY <1>a, <2>1, <2>5, OtherSlots
  <2>6. CASE z = s /\ (refused \/ ~(stage >= TablesReset))
    <3>1. e = d
      BY <2>6 DEF ReinitDatabase, Stages, NotReset, Complete, TablesReset
    <3>2. token'[s] = r /\ db'[s] = d
      BY <1>a, <2>1, <3>1, HereOrThere
    <3>3. CASE token[s].initialized
      BY <2>4, <2>6, <3>2, <3>3 DEF Attempt, Users
    <3>4. CASE ~token[s].initialized
      BY <2>1, <2>6, <3>2, <3>4 DEF Same
    <3> QED
      BY <3>3, <3>4
  <2>7. CASE z = s /\ ~refused /\ stage >= TablesReset
    <3>1. db'[s] = ReinitDatabase(d, pin, key, stage)
      BY <1>a, <2>1, <2>7, HereOrThere
    <3> HIDE DEF d
    <3> QED
      BY <2>1, <2>2, <2>7, <3>1 DEF Reinit
  <2> QED
    BY <2>5, <2>6, <2>7
<1>11. ASSUME NEW h \in Handles, NEW pin \in Pins, InitPIN(h, pin)
       PROVE  NewPin(z) \/ Same(z)
  <2> DEFINE s == sessionmap[h]
             d == PinStored(db[s], "USER", pin, token[s].key)
  <2>1. s \in Slots /\ token[s].initialized /\ token[s].logged = "SO"
    BY <1>11, <1>a, HandleTypes DEF InitPIN, Usable, TokenOf
  <2>2. token[s].key \in Keys
    BY <1>11, <1>b, <2>1 DEF InitPIN, TokenOf, Token
  <2>3. token' = token /\ db' = [db EXCEPT ![s] = d] /\ slots' = slots
    BY <1>11 DEF InitPIN, TokenOf
  <2>4. CASE z = s
    <3>1. db'[s] = d
      BY <1>a, <2>1, <2>3 DEF TypeOK
    <3> QED
      BY <1>b, <2>1, <2>2, <2>3, <2>4, <3>1 DEF NewPin, Users
  <2>5. CASE z # s
    <3> HIDE DEF d
    <3> QED
      BY <1>a, <1>b, <2>1, <2>3, <2>5, OtherSlots
  <2> QED
    BY <2>4, <2>5
<1>12. ASSUME NEW h \in Handles, NEW old \in Pins, NEW new \in Pins, SetPIN(h, old, new)
       PROVE  Attempt(z) \/ NewPin(z) \/ Same(z)
  <2> DEFINE s == sessionmap[h]
             u == IF token[s].logged = Nobody THEN "USER" ELSE token[s].logged
             d == StoreAttempt(db[s], u, old)
             t == IF token[s].logged = Nobody THEN LoggedIn(token[s], db[s], u, old)
                  ELSE FlagAttempt(token[s], db[s], u, old)
             stored == PinAccepted(db[s], u, old) /\ t.key # NoKey
             e == IF stored THEN PinStored(d, u, new, t.key) ELSE d
             r == IF token[s].logged = Nobody THEN LoggedOut(t, e) ELSE t
  <2>1. s \in Slots /\ token[s].initialized
    BY <1>12, <1>a, HandleTypes DEF SetPIN, Usable, TokenOf
  <2>2. u \in Users
    BY <1>b, <2>1 DEF Token, Users
  <2>3. d \in Database /\ t \in Token
    BY <1>b, <2>1, <2>2, StoreAttemptType, LoggedInType, FlagAttemptType
  <2>4. t.initialized
    BY <1>b, <2>1, <2>2, LoggedInEffect, FlagAttemptEffect
  <2>5. r.initialized
    <3> HIDE DEF t, e
    <3> QED
      BY <2>3, <2>4, LoggedOutEffect
  <2>6. token' = [token EXCEPT ![s] = r] /\ db' = [db EXCEPT ![s] = e] /\ slots' = slots
    BY <1>12 DEF SetPIN
  <2>7. CASE z # s
    <3> HIDE DEF r, e
    <3> QED
      BY <1>a, <2>1, <2>6, <2>7, OtherSlots
  <2>8. token'[s].initialized /\ db'[s] = e
    <3> HIDE DEF r, e
    <3> QED
      BY <1>a, <2>1, <2>5, <2>6, HereOrThere
  <2>9. CASE z = s /\ stored
    <3>1. db'[s] = PinStored(d, u, new, t.key) /\ t.key \in Keys
      BY <2>3, <2>8, <2>9 DEF Token
    <3>2. PinAccepted(db[s], u, old) /\ d = StoreAttempt(db[s], u, old)
      BY <2>9
    <3> HIDE DEF u, d, t, e, stored
    <3> QED
      BY <2>1, <2>2, <2>3, <2>8, <2>9, <3>1, <3>2 DEF NewPin
  <2>10. CASE z = s /\ ~stored
    <3>1. db'[s] = StoreAttempt(db[s], u, old)
      BY <2>8, <2>10
    <3> HIDE DEF u, d, t, e, stored
    <3> QED
      BY <2>1, <2>2, <2>8, <2>10, <3>1 DEF Attempt
  <2> QED
    BY <2>7, <2>9, <2>10
<1>13. CASE UNCHANGED vars
  BY <1>13, <1>a DEF vars, Same, TypeOK
<1> QED
  BY <1>1, <1>2, <1>3, <1>4, <1>5, <1>6, <1>7, <1>8, <1>9, <1>10, <1>11, <1>12, <1>13 DEF Next
-----------------------------------------------------------------------------
LEMMA LockStep ==
  ASSUME IInv, LockInv, [Next]_vars
  PROVE  LockInv'
<1> SUFFICES ASSUME NEW s \in Slots
             PROVE  /\ db'[s].info => db'[s].tables
                    /\ s \in slots' => FreshInv(token'[s], db'[s])
  <2>1. slots' \subseteq Slots
    BY TypeStep DEF IInv, TypeOK
  <2> QED
    BY <2>1 DEF LockInv
<1>1. /\ db[s] \in Database
      /\ db[s].info => db[s].tables
      /\ s \in slots => FreshInv(token[s], db[s])
  BY DEF IInv, TypeOK, LockInv
<1>2. CASE Attempt(s)
  <2>1. PICK u \in Users, pin \in Pins : db'[s] = StoreAttempt(db[s], u, pin)
    BY <1>2 DEF Attempt
  <2>2. db'[s].info = db[s].info /\ db'[s].tables = db[s].tables
    BY <1>1, <2>1, StoreAttemptEffect
  <2> QED
    BY <1>1, <1>2, <2>2 DEF Attempt, FreshInv
<1>3. CASE NewPin(s)
  <2>1. PICK u \in Users, pin \in Pins, key \in Keys, d \in Database :
          /\ d = db[s] \/ \E old \in Pins : d = StoreAttempt(db[s], u, old)
          /\ db'[s] = PinStored(d, u, pin, key)
    BY <1>3 DEF NewPin
  <2>2. d.info = db[s].info /\ d.tables = db[s].tables
    BY <1>1, <2>1, StoreAttemptEffect
  <2>3. db'[s].info = d.info /\ db'[s].tables = d.tables
    BY <2>1, PinStoredEffect
  <2> QED
    BY <1>1, <1>3, <2>2, <2>3 DEF NewPin, FreshInv
<1>4. CASE Reinit(s)
  BY <1>4, ReinitEffect DEF Reinit, FreshInv
<1>5. CASE Same(s)
  <2>1. OpenedToken(db[s]).initialized <=> db[s].tables /\ db[s].info
    BY DEF OpenedToken
  <2> QED
    BY <1>1, <1>5, <2>1 DEF Same, FreshInv
<1> QED
  BY <1>2, <1>3, <1>4, <1>5, DatabaseSteps

(* The four kinds of change and what they unlock.                          *)
LEMMA UnlockStep ==
  ASSUME IInv, LockInv, [Next]_vars, NEW s \in Slots, NEW u \in Users,
         LockedFlagOf(db[s], u), db[s].info, ~LockedFlagOf(db'[s], u)
  PROVE  /\ u = "USER"
         /\ \/ token[s].logged = "SO"
            \/ ~Recorded(db'[s], u) /\ ~LockedFlagOf(db[s], "SO")
<1>1. db[s] \in Database
  BY DEF IInv, TypeOK
<1>2. CASE Attempt(s)
  BY <1>1, <1>2, AttemptKeepsLock DEF Attempt
<1>3. CASE NewPin(s)
  <2>1. PICK v \in Users, pin \in Pins, key \in Keys, d \in Database :
          /\ \/ d = db[s] /\ v = "USER" /\ token[s].logged = "SO"
             \/ \E old \in Pins : /\ PinAccepted(db[s], v, old)
                                  /\ d = StoreAttempt(db[s], v, old)
          /\ db'[s] = PinStored(d, v, pin, key)
    BY <1>3 DEF NewPin
  <2>2. CASE u = v
    BY <1>1, <2>1, <2>2, AttemptKeepsLock
  <2>3. CASE u # v
    <3>1. LockedFlagOf(d, u)
      BY <1>1, <2>1, AttemptKeepsLock
    <3>2. db'[s].auth[u] = d.auth[u]
      BY <2>1, <2>3, PinStoredEffect
    <3> QED
      BY <3>1, <3>2 DEF LockedFlagOf, Recorded
  <2> QED
    BY <2>2, <2>3
<1>4. CASE Reinit(s)
  <2>1. PICK pin \in Pins, key \in Keys, stage \in Stages, d \in Database :
          /\ s \in slots
          /\ stage >= TablesReset
          /\ token[s].initialized => PinAccepted(db[s], "SO", pin)
          /\ db'[s] = ReinitDatabase(d, pin, key, stage)
    BY <1>4 DEF Reinit
  <2>2. token[s].initialized
    BY <2>1 DEF LockInv, FreshInv
  <2>3. ~LockedFlagOf(db[s], "SO")
    BY <1>1, <2>1, <2>2, AttemptKeepsLock DEF Users
  <2>4. ~Recorded(db'[s], "USER")
    BY <2>1, ReinitEffect
  <2> QED
    BY <2>3, <2>4 DEF Users
<1>5. CASE Same(s)
  BY <1>5 DEF Same
<1> QED
  BY <1>2, <1>3, <1>4, <1>5, DatabaseSteps

(* A locked SO PIN is never unlocked, a locked USER PIN only by the SO or  *)
(* by the end of its record in a C_InitToken that an unlocked SO PIN       *)
(* allowed: whatever the calls in between, and wherever they stop.         *)
THEOREM LocksHold == Spec => LockoutHolds
<1>1. Init => LockInv
  BY LockInit
<1>2. IInv /\ LockInv /\ [Next]_vars => LockInv'
  BY LockStep
<1>3. IInv /\ LockInv /\ [Next]_vars =>
        [\A s \in Slots, u \in Users :
           (LockedFlagOf(db[s], u) /\ db[s].info /\ ~LockedFlagOf(db'[s], u)) =>
             /\ u = "USER"
             /\ \/ token[s].logged = "SO"
                \/ ~Recorded(db'[s], u) /\ ~LockedFlagOf(db[s], "SO")]_vars
  BY UnlockStep
<1> QED
  BY <1>1, <1>2, <1>3, Invariance, PTL DEF Spec, LockoutHolds
-----------------------------------------------------------------------------
(***************************************************************************)
(* Sessions implements LoginContract, for every set of slots, PINs and     *)
(* keys.  The contract sees which sessions are open, whether each can      *)
(* write, and who is logged in; most calls do not change that, and the     *)
(* rest map to one step of the contract each.                              *)
(***************************************************************************)
Logged == [s \in Slots |-> token[s].logged]
Shown  == <<OpenSessions, Logged>>

(* Writability is the class of a session's state, which no login changes.  *)
Writes(ss, h) == ss[h].state \in RWStates

LEMMA ClassKept ==
  ASSUME NEW ss \in [Handles -> Session \cup {Absent}], NEW u \in Users,
         NEW h \in Handles, ss[h] # Absent
  PROVE  /\ Writes(Invalidated(ss), h) <=> Writes(ss, h)
         /\ StatesChange(ss, u) => (Writes(Changed(ss, u), h) <=> Writes(ss, h))
<1>1. ss[h] \in Session /\ ss[h].state \in States
  BY DEF Session
<1>2. Invalidated(ss)[h].state = PublicState(ss[h].state)
  BY <1>1 DEF Invalidated, Session
<1>3. Changed(ss, u)[h].state = LoginState(ss[h].state, u)
  BY <1>1 DEF Changed, Session
<1>4. PublicState(ss[h].state) \in RWStates <=> ss[h].state \in RWStates
  BY <1>1 DEF PublicState, States, RWStates, ROStates
<1>5. LoginState(ss[h].state, u) # "ERROR" =>
        (LoginState(ss[h].state, u) \in RWStates <=> ss[h].state \in RWStates)
  BY <1>1 DEF LoginState, States, RWStates, ROStates, Users
<1> QED
  BY <1>2, <1>3, <1>4, <1>5 DEF Writes, StatesChange

(* What the contract sees of the sessions.                                 *)
LEMMA OpenType ==
  ASSUME IInv, NEW h \in Handles
  PROVE  /\ OpenSessions[h] = Absent <=> sessionmap[h] = NoSlot
         /\ \A s \in Slots : sessionmap[h] = s =>
              OpenSessions[h] = [slot |-> s, rw |-> Writes(sessions[s], h)]
<1>1. ASSUME NEW s \in Slots, sessionmap[h] = s
      PROVE  /\ OpenSessions[h] = [slot |-> s, rw |-> Writes(sessions[s], h)]
             /\ OpenSessions[h] # Absent
  <2>1. OpenSessions[h] = [slot |-> s, rw |-> Writes(sessions[s], h)]
    BY <1>1, SessionsAssumption DEF OpenSessions, Writes
  <2>2. Writes(sessions[s], h) \in BOOLEAN
    BY DEF Writes
  <2> QED
    BY <2>1, <2>2, SessionsAssumption
<1>2. sessionmap[h] = NoSlot => OpenSessions[h] = Absent
  BY DEF OpenSessions
<1>3. sessionmap[h] \in Slots \cup {NoSlot}
  BY DEF IInv, TypeOK
<1> QED
  BY <1>1, <1>2, <1>3, SessionsAssumption

LEMMA OnSlot ==
  ASSUME IInv, NEW s \in Slots
  PROVE  Contract!On(OpenSessions, s) = OpenHandles(s)
<1>1. ASSUME NEW h \in Handles
      PROVE  (OpenSessions[h] # Absent /\ OpenSessions[h].slot = s) <=> sessions[s][h] # Absent
  <2>1. sessionmap[h] \in Slots \cup {NoSlot}
    BY DEF IInv, TypeOK
  <2>2. sessionmap[h] = s <=> sessions[s][h] # Absent
    BY DEF IInv, SessionMapConsistent
  <2>3. CASE sessionmap[h] = NoSlot
    BY <2>2, <2>3, OpenType, SessionsAssumption
  <2>4. CASE sessionmap[h] \in Slots
    <3>1. OpenSessions[h] = [slot |-> sessionmap[h], rw |-> Writes(sessions[sessionmap[h]], h)]
      BY <2>4, OpenType
    <3>2. OpenSessions[h] # Absent
      BY <2>4, OpenType, SessionsAssumption
    <3> QED
      BY <2>2, <3>1, <3>2
  <2> QED
    BY <2>1, <2>3, <2>4
<1> QED
  BY <1>1 DEF Contract!On, OpenHandles

LEMMA EmptySlot ==
  ASSUME IInv, NEW s \in Slots, OpenHandles(s) = {}
  PROVE  token[s].logged = Nobody
BY DEF IInv, SessionsInv, OpenHandles

(* Both again, of the state after a step.                                  *)
ShownSlots ==
  \A s \in Slots : /\ Contract!On(OpenSessions, s) = OpenHandles(s)
                   /\ OpenHandles(s) = {} => token[s].logged = Nobody

LEMMA SlotsNow == IInv => ShownSlots
BY OnSlot, EmptySlot DEF ShownSlots

LEMMA SlotsThen == IInv' => ShownSlots'
BY SlotsNow, PTL

(* A step that keeps every session and its class shows the same sessions.  *)
LEMMA SameShown ==
  ASSUME IInv, sessionmap' = sessionmap,
         \A h \in Handles, s \in Slots :
           sessionmap[h] = s => (Writes(sessions'[s], h) <=> Writes(sessions[s], h))
  PROVE  OpenSessions' = OpenSessions
<1>1. ASSUME NEW h \in Handles, sessionmap[h] \in Slots
      PROVE  (sessions'[sessionmap[h]][h].state \in RWStates) =
             (sessions[sessionmap[h]][h].state \in RWStates)
  BY <1>1 DEF Writes
<1>2. \A h \in Handles : sessionmap[h] \in Slots \cup {NoSlot}
  BY DEF IInv, TypeOK
<1> QED
  BY <1>1, <1>2 DEF OpenSessions

(* In particular one that changes the states of one slot by a login.       *)
LEMMA StatesShown ==
  ASSUME IInv, NEW s \in Slots, NEW u \in Users, sessionmap' = sessionmap,
         \/ sessions' = sessions
         \/ sessions' = [sessions EXCEPT ![s] = Invalidated(sessions[s])]
         \/ /\ StatesChange(sessions[s], u)
            /\ sessions' = [sessions EXCEPT ![s] = Changed(sessions[s], u)]
  PROVE  OpenSessions' = OpenSessions
<1>1. TypeOK /\ SessionMapConsistent
  BY DEF IInv
<1> SUFFICES ASSUME NEW h \in Handles, NEW z \in Slots, sessionmap[h] = z
             PROVE  Writes(sessions'[z], h) <=> Writes(sessions[z], h)
  BY SameShown
<1>2. sessions[z][h] # Absent /\ sessions[z] \in [Handles -> Session \cup {Absent}]
  BY <1>1 DEF TypeOK, SessionMapConsistent
<1>3. \/ sessions'[z] = sessions[z]
      \/ sessions'[z] = Invalidated(sessions[z])
      \/ StatesChange(sessions[z], u) /\ sessions'[z] = Changed(sessions[z], u)
  BY <1>1 DEF TypeOK
<1>4. CASE sessions'[z] = sessions[z]
  BY <1>4
<1>5. CASE sessions'[z] = Invalidated(sessions[z])
  BY <1>2, <1>5, ClassKept DEF Writes
<1>6. CASE StatesChange(sessions[z], u) /\ sessions'[z] = Changed(sessions[z], u)
  BY <1>2, <1>6, ClassKept DEF Writes
<1> QED
  BY <1>3, <1>4, <1>5, <1>6
-----------------------------------------------------------------------------
(* The steps.                                                              *)

LEMMA ShownInit == Init => Contract!Init
BY DEF Init, Contract!Init, OpenSessions, BlankToken, OpenedToken

LEMMA ShownStep ==
  ASSUME IInv, IInv', [Next]_vars
  PROVE  [Contract!Next]_Shown
<1>a. TypeOK /\ SessionMapConsistent
  BY DEF IInv
<1>b. ASSUME sessions' = sessions, sessionmap' = sessionmap
      PROVE  OpenSessions' = OpenSessions
  BY <1>b DEF OpenSessions
(* A step that shows nothing new.                                          *)
<1>c. ASSUME OpenSessions' = OpenSessions, \A s \in Slots : token'[s].logged = token[s].logged
      PROVE  [Contract!Next]_Shown
  BY <1>c DEF Shown, Logged
<1>1. ASSUME NEW added \in SUBSET Slots, Initialize(added) PROVE [Contract!Next]_Shown
  <2>1. /\ added \cap slots = {}
        /\ token' = [s \in Slots |-> IF s \in added THEN OpenedToken(db[s]) ELSE token[s]]
        /\ sessions' = sessions /\ sessionmap' = sessionmap
    BY <1>1 DEF Initialize
  <2>2. ASSUME NEW s \in Slots, s \in added PROVE token'[s].logged = token[s].logged
    <3>1. OpenHandles(s) = {}
      BY <1>a, <2>1, <2>2 DEF SessionMapConsistent, OpenHandles
    <3> QED
      BY <2>1, <2>2, <3>1, EmptySlot DEF OpenedToken
  <2> QED
    BY <1>b, <1>c, <2>1, <2>2
<1>2. CASE Finalize
  <2>1. OpenSessions' = [h \in Handles |-> IF h \in Handles THEN Absent ELSE OpenSessions[h]]
    BY <1>2 DEF Finalize, OpenSessions
  <2>2. \A s \in Slots : Contract!On(OpenSessions', s) = {}
    BY <2>1 DEF Contract!On
  <2>3. Logged' = [s \in Slots |-> IF Contract!On(OpenSessions', s) = {}
                                   THEN Nobody ELSE Logged[s]]
    BY <1>2, <2>2 DEF Finalize, Logged, BlankToken, OpenedToken
  <2>4. Contract!Close(Handles)
    BY <2>1, <2>3 DEF Contract!Close, Logged
  <2> QED
    BY <2>4 DEF Contract!Next
<1>3. ASSUME NEW s \in Slots, NEW rw \in BOOLEAN, OpenSession(s, rw)
      PROVE  [Contract!Next]_Shown
  <2> DEFINE new == [state   |-> OpenedState(token[s].logged, rw),
                     opLogin |-> "NotInitialized"]
             shown == [slot |-> s, rw |-> rw]
  <2>1. /\ nextHandle \in Handles
        /\ token[s].logged = "SO" => rw
        /\ sessionmap' = [sessionmap EXCEPT ![nextHandle] = s]
        /\ sessions' = [sessions EXCEPT ![s] = [sessions[s] EXCEPT ![nextHandle] = new]]
        /\ token' = token
    BY <1>3 DEF OpenSession, MayOpen
  <2>2. new.state \in RWStates <=> rw
    BY DEF OpenedState, RWStates
  <2> HIDE DEF new
  <2>3. sessionmap[nextHandle] = NoSlot
    <3>1. \A z \in Slots : sessions[z][nextHandle] = Absent
      BY <1>a, <2>1 DEF SessionMapConsistent, Handles
    <3> QED
      BY <1>a, <2>1, <3>1 DEF TypeOK, SessionMapConsistent
  <2>4. OpenSessions[nextHandle] = Absent
    BY <2>1, <2>3, OpenType
  <2>5. OpenSessions' = [OpenSessions EXCEPT ![nextHandle] = shown]
    <3>1. ASSUME NEW h \in Handles, h # nextHandle
          PROVE  OpenSessions'[h] = OpenSessions[h]
      <4>1. sessionmap'[h] = sessionmap[h]
        BY <1>a, <2>1, <3>1 DEF TypeOK
      <4>2. \A z \in Slots : sessions'[z][h] = sessions[z][h]
        BY <1>a, <2>1, <3>1 DEF TypeOK
      <4>3. sessionmap[h] \in Slots \cup {NoSlot}
        BY <1>a DEF TypeOK
      <4> QED
        BY <4>1, <4>2, <4>3 DEF OpenSessions
    <3>2. OpenSessions'[nextHandle] = shown
      <4>1. sessionmap'[nextHandle] = s /\ sessions'[s][nextHandle] = new
        BY <1>a, <2>1 DEF TypeOK
      <4>2. s # NoSlot
        BY SessionsAssumption
      <4>3. (new.state \in RWStates) = rw
        BY <2>2
      <4> QED
        BY <2>1, <4>1, <4>2, <4>3 DEF OpenSessions
    <3> QED
      BY <3>1, <3>2 DEF OpenSessions
  <2>6. Logged' = Logged /\ Logged[s] = token[s].logged
    BY <2>1 DEF Logged
  <2>7. shown \in Contract!Sessions
    BY DEF Contract!Sessions
  <2>8. Contract!Open(nextHandle, shown)
    BY <2>1, <2>4, <2>5, <2>6 DEF Contract!Open, Logged
  <2> HIDE DEF shown
  <2> QED
    BY <2>1, <2>7, <2>8 DEF Contract!Next
<1>4. ASSUME NEW h \in Handles, CloseSession(h) PROVE [Contract!Next]_Shown
  <2> DEFINE s == sessionmap[h]
             t == LoggedOut(token[s], db[s])
  <2>1. s \in Slots /\ sessions[s][h] # Absent
    BY <1>4, <1>a, MappedSession DEF CloseSession, Usable
  <2>2. /\ sessionmap' = [sessionmap EXCEPT ![h] = NoSlot]
        /\ sessions' = [sessions EXCEPT ![s] = [sessions[s] EXCEPT ![h] = Absent]]
        /\ token' = IF IsLast(s, h) THEN [token EXCEPT ![s] = t] ELSE token
    BY <1>4 DEF CloseSession
  <2>3. t.logged = Nobody
    BY <1>a, <2>1, LoggedOutEffect DEF TypeOK
  <2>4. OpenSessions' = [g \in Handles |-> IF g \in {h} THEN Absent ELSE OpenSessions[g]]
    <3>1. ASSUME NEW g \in Handles, g # h
          PROVE  OpenSessions'[g] = OpenSessions[g]
      <4>1. sessionmap'[g] = sessionmap[g]
        BY <1>a, <2>2, <3>1 DEF TypeOK
      <4>2. \A z \in Slots : sessions'[z][g] = sessions[z][g]
        BY <1>a, <2>1, <2>2, <3>1 DEF TypeOK
      <4>3. sessionmap[g] \in Slots \cup {NoSlot}
        BY <1>a DEF TypeOK
      <4> QED
        BY <4>1, <4>2, <4>3 DEF OpenSessions
    <3>2. OpenSessions'[h] = Absent
      BY <1>a, <2>2 DEF OpenSessions, TypeOK
    <3> QED
      BY <3>1, <3>2 DEF OpenSessions
  <2>5. ASSUME NEW z \in Slots
        PROVE  token'[z].logged = IF Contract!On(OpenSessions', z) = {}
                                  THEN Nobody ELSE token[z].logged
    <3>1. Contract!On(OpenSessions', z) = OpenHandles(z)'
      BY SlotsThen DEF ShownSlots, Contract!On
    <3>2. OpenHandles(z)' = IF z = s THEN OpenHandles(s) \ {h} ELSE OpenHandles(z)
      BY <1>a, <2>1, <2>2 DEF OpenHandles, TypeOK
    <3>3. OpenHandles(z)' = {} => token'[z].logged = Nobody
      BY SlotsThen DEF ShownSlots
    <3>4. OpenHandles(z)' # {} => token'[z] = token[z]
      <4> HIDE DEF t
      <4> QED
        BY <1>a, <2>1, <2>2, <3>2 DEF IsLast, TypeOK
    <3> QED
      BY <3>1, <3>3, <3>4
  <2>6. Contract!Close({h})
    BY <2>4, <2>5 DEF Contract!Close
  <2> QED
    BY <2>6 DEF Contract!Next
<1>5. ASSUME NEW s \in Slots, CloseAllSessions(s) PROVE [Contract!Next]_Shown
  <2> DEFINE t == LoggedOut(token[s], db[s])
             gone == OpenHandles(s)
  <2>1. /\ sessionmap' = MapWithout(s)
        /\ sessions' = [sessions EXCEPT ![s] = NoSessions]
        /\ token' = [token EXCEPT ![s] = t] \/ token' = token
    BY <1>5 DEF CloseAllSessions
  <2>2. OpenSessions' = [g \in Handles |-> IF g \in gone THEN Absent ELSE OpenSessions[g]]
    <3>1. ASSUME NEW g \in Handles, g \notin gone
          PROVE  OpenSessions'[g] = OpenSessions[g]
      <4>1. sessionmap[g] # s
        BY <1>a, <3>1 DEF SessionMapConsistent, OpenHandles
      <4>2. sessionmap'[g] = sessionmap[g]
        BY <2>1, <4>1 DEF MapWithout
      <4>3. \A z \in Slots : z # s => sessions'[z][g] = sessions[z][g]
        BY <1>a, <2>1 DEF TypeOK
      <4>4. sessionmap[g] \in Slots \cup {NoSlot}
        BY <1>a DEF TypeOK
      <4> QED
        BY <4>1, <4>2, <4>3, <4>4 DEF OpenSessions
    <3>2. ASSUME NEW g \in Handles, g \in gone
          PROVE  OpenSessions'[g] = Absent
      <4>1. sessionmap[g] = s
        BY <1>a, <3>2 DEF SessionMapConsistent, OpenHandles
      <4>2. sessionmap'[g] = NoSlot
        BY <2>1, <4>1 DEF MapWithout
      <4> QED
        BY <4>2 DEF OpenSessions
    <3> QED
      BY <3>1, <3>2 DEF OpenSessions
  <2>3. ASSUME NEW z \in Slots
        PROVE  token'[z].logged = IF Contract!On(OpenSessions', z) = {}
                                  THEN Nobody ELSE token[z].logged
    <3>1. Contract!On(OpenSessions', z) = OpenHandles(z)'
      BY SlotsThen DEF ShownSlots, Contract!On
    <3>2. OpenHandles(z)' = {} => token'[z].logged = Nobody
      BY SlotsThen DEF ShownSlots
    <3>3. z = s => OpenHandles(z)' = {}
      BY <1>a, <2>1 DEF OpenHandles, TypeOK, NoSessions
    <3>4. z # s => token'[z] = token[z]
      <4> HIDE DEF t
      <4> QED
        BY <1>a, <2>1 DEF TypeOK
    <3> QED
      BY <3>1, <3>2, <3>3, <3>4
  <2>4. gone \in SUBSET Handles
    BY DEF OpenHandles
  <2> HIDE DEF gone
  <2>5. Contract!Close(gone)
    BY <2>2, <2>3 DEF Contract!Close
  <2>6. \E g \in SUBSET Handles : Contract!Close(g)
    BY <2>4, <2>5 DEF Contract!Close
  <2> QED
    BY <2>6 DEF Contract!Next
<1>6. ASSUME NEW h \in Handles, NEW u \in Users, NEW pin \in Pins, Login(h, u, pin)
      PROVE  [Contract!Next]_Shown
  <2> DEFINE s == sessionmap[h]
             t == LoggedIn(token[s], db[s], u, pin)
             d == StoreAttempt(db[s], u, pin)
             ok == StatesChange(sessions[s], u)
             r == IF t.logged = u /\ ~ok THEN LoggedOut(t, d) ELSE t
  <2>1. s \in Slots /\ sessions[s][h] # Absent
    BY <1>6, <1>a, MappedSession DEF Login, Usable
  <2>2. token[s].logged = Nobody /\ (u = "SO" => ~HasROSessions(s))
    BY <1>6 DEF Login
  <2>3. t \in Token
    BY <1>a, <2>1, LoggedInType DEF TypeOK
  <2>4. t.logged = u \/ t.logged = Nobody
    <3>1. token[s] \in Token /\ db[s] \in Database
      BY <1>a, <2>1 DEF TypeOK
    <3>2. PinAccepted(db[s], u, pin) => t.logged = u
      BY <3>1, LoggedInEffect
    <3>3. ~PinAccepted(db[s], u, pin) => t.logged = token[s].logged
      BY <3>1, LoggedInEffect
    <3> QED
      BY <2>2, <3>2, <3>3
  <2>5. r.logged = u \/ r.logged = Nobody
    <3> HIDE DEF t, d
    <3> QED
      BY <2>3, <2>4, LoggedOutEffect
  <2>6. sessionmap' = sessionmap /\ token' = [token EXCEPT ![s] = r]
    BY <1>6 DEF Login
  <2>7. \/ sessions' = sessions
        \/ sessions' = [sessions EXCEPT ![s] = Invalidated(sessions[s])]
        \/ ok /\ sessions' = [sessions EXCEPT ![s] = Changed(sessions[s], u)]
    BY <1>6 DEF Login
  <2>8. OpenSessions' = OpenSessions
    BY <2>1, <2>6, <2>7, StatesShown
  <2> HIDE DEF r
  <2>9. CASE r.logged = Nobody
    <3>1. \A z \in Slots : token'[z].logged = token[z].logged
      BY <1>a, <2>1, <2>2, <2>6, <2>9 DEF TypeOK
    <3> QED
      BY <1>c, <2>8, <3>1
  <2>10. CASE r.logged = u
    <3>1. Contract!On(OpenSessions, s) # {}
      BY <2>1, OnSlot DEF OpenHandles
    <3>2. u = "SO" => \A g \in Contract!On(OpenSessions, s) : OpenSessions[g].rw
      <4> SUFFICES ASSUME u = "SO", NEW g \in OpenHandles(s) PROVE OpenSessions[g].rw
        BY <2>1, OnSlot
      <4>1. g \in Handles /\ sessions[s][g] \in Session /\ sessionmap[g] = s
        BY <1>a, <2>1 DEF OpenHandles, TypeOK, SessionMapConsistent
      <4>2. sessions[s][g].state \in RWStates
        BY <2>2, <4>1 DEF HasROSessions, Session, States
      <4>3. OpenSessions[g] = [slot |-> s, rw |-> Writes(sessions[s], g)]
        BY <2>1, <4>1, OpenType
      <4>4. Writes(sessions[s], g) = TRUE
        BY <4>2 DEF Writes
      <4> QED
        BY <4>3, <4>4
    <3>3. Logged' = [Logged EXCEPT ![s] = u]
      BY <1>a, <2>1, <2>6, <2>10 DEF Logged, TypeOK
    <3>4. Logged[s] = Nobody
      BY <2>1, <2>2 DEF Logged
    <3>5. Contract!LogIn(s, u)
      BY <2>8, <3>1, <3>2, <3>3, <3>4 DEF Contract!LogIn, Logged
    <3> QED
      BY <2>1, <3>5 DEF Contract!Next
  <2> QED
    BY <2>5, <2>9, <2>10
<1>7. ASSUME NEW h \in Handles, NEW pin \in Pins, ContextLogin(h, pin)
      PROVE  [Contract!Next]_Shown
  <2> DEFINE s == sessionmap[h]
             u == token[s].logged
             d == StoreAttempt(db[s], u, pin)
             t == FlagAttempt(token[s], db[s], u, pin)
             granted == [sessions[s][h] EXCEPT !.opLogin = "LoginOk"]
  <2>1. s \in Slots /\ sessions[s][h] \in Session /\ sessions[s][h] # Absent
    BY <1>7, <1>a, MappedSession DEF ContextLogin, Usable
  <2>2. u \in Users /\ token[s] \in Token /\ db[s] \in Database
    BY <1>7, <1>a, <2>1 DEF ContextLogin, Token, TypeOK
  <2>3. t \in Token
    BY <2>2, FlagAttemptType
  <2>4. t.logged = u
    BY <2>2, FlagAttemptEffect
  <2>5. LoggedOut(t, d).logged = Nobody
    BY <2>3, LoggedOutEffect
  <2>6. sessionmap' = sessionmap
    BY <1>7 DEF ContextLogin
  <2>7. \/ /\ sessions' = [sessions EXCEPT ![s] = [sessions[s] EXCEPT ![h] = granted]]
           /\ token' = [token EXCEPT ![s] = t]
        \/ /\ sessions' = [sessions EXCEPT ![s] = Invalidated(sessions[s])]
           /\ token' = [token EXCEPT ![s] = LoggedOut(t, d)]
        \/ /\ sessions' = sessions
           /\ token' = [token EXCEPT ![s] = t]
    BY <1>7 DEF ContextLogin
  <2>8. granted.state = sessions[s][h].state
    BY <2>1 DEF Session
  <2> HIDE DEF t, d, granted
  <2>9. token' = [token EXCEPT ![s] = t] =>
          \A z \in Slots : token'[z].logged = token[z].logged
    BY <1>a, <2>1, <2>4 DEF TypeOK
  <2>10. CASE /\ sessions' = [sessions EXCEPT ![s] = [sessions[s] EXCEPT ![h] = granted]]
              /\ token' = [token EXCEPT ![s] = t]
    <3>1. ASSUME NEW g \in Handles, NEW z \in Slots
          PROVE  sessions'[z][g].state = sessions[z][g].state
      BY <1>a, <2>1, <2>8, <2>10 DEF TypeOK
    <3>2. OpenSessions' = OpenSessions
      BY <2>6, <3>1, SameShown DEF Writes
    <3> QED
      BY <1>c, <2>9, <2>10, <3>2
  <2>11. CASE sessions' = sessions /\ token' = [token EXCEPT ![s] = t]
    BY <1>b, <1>c, <2>6, <2>9, <2>11
  <2>12. CASE /\ sessions' = [sessions EXCEPT ![s] = Invalidated(sessions[s])]
              /\ token' = [token EXCEPT ![s] = LoggedOut(t, d)]
    <3>1. OpenSessions' = OpenSessions
      BY <2>1, <2>2, <2>6, <2>12, StatesShown
    <3>2. Logged' = [Logged EXCEPT ![s] = Nobody]
      BY <1>a, <2>1, <2>5, <2>12 DEF Logged, TypeOK
    <3>3. Contract!LogOut(s)
      BY <3>1, <3>2 DEF Contract!LogOut, Logged
    <3>4. \E z \in Slots : Contract!LogOut(z)
      BY <2>1, <3>3 DEF Contract!LogOut
    <3> QED
      BY <3>4 DEF Contract!Next
  <2> QED
    BY <2>7, <2>10, <2>11, <2>12
<1>8. ASSUME NEW h \in Handles, Logout(h) PROVE [Contract!Next]_Shown
  <2> DEFINE s == sessionmap[h]
             t == LoggedOut(token[s], db[s])
  <2>1. s \in Slots
    BY <1>8, <1>a, HandleTypes DEF Logout, Usable
  <2>2. t.logged = Nobody
    BY <1>a, <2>1, LoggedOutEffect DEF TypeOK
  <2>3. /\ sessionmap' = sessionmap
        /\ token' = [token EXCEPT ![s] = t]
        /\ \/ sessions' = sessions
           \/ sessions' = [sessions EXCEPT ![s] = Invalidated(sessions[s])]
    BY <1>8 DEF Logout
  <2>4. OpenSessions' = OpenSessions
    BY <2>1, <2>3, StatesShown DEF Users
  <2> HIDE DEF t
  <2>5. Logged' = [Logged EXCEPT ![s] = Nobody]
    BY <1>a, <2>1, <2>2, <2>3 DEF Logged, TypeOK
  <2>6. Contract!LogOut(s)
    BY <2>4, <2>5 DEF Contract!LogOut, Logged
  <2>7. \E z \in Slots : Contract!LogOut(z)
    BY <2>1, <2>6 DEF Contract!LogOut
  <2> QED
    BY <2>7 DEF Contract!Next
<1>9. ASSUME NEW h \in Handles, NEW needsLogin \in BOOLEAN, BeginOperation(h, needsLogin)
      PROVE  [Contract!Next]_Shown
  <2> DEFINE s == sessionmap[h]
             begun == [sessions[s][h] EXCEPT !.opLogin =
                         IF needsLogin THEN "Required" ELSE "NotRequired"]
  <2>1. s \in Slots /\ sessions[s][h] \in Session
    BY <1>9, <1>a, MappedSession DEF BeginOperation, Usable
  <2>2. begun.state = sessions[s][h].state
    BY <2>1 DEF Session
  <2>3. /\ sessionmap' = sessionmap /\ token' = token
        /\ sessions' = [sessions EXCEPT ![s] = [sessions[s] EXCEPT ![h] = begun]]
    BY <1>9 DEF BeginOperation
  <2> HIDE DEF begun
  <2>4. ASSUME NEW g \in Handles, NEW z \in Slots
        PROVE  sessions'[z][g].state = sessions[z][g].state
    BY <1>a, <2>1, <2>2, <2>3 DEF TypeOK
  <2>5. OpenSessions' = OpenSessions
    BY <2>3, <2>4, SameShown DEF Writes
  <2> QED
    BY <1>c, <2>3, <2>5
<1>10. ASSUME NEW s \in Slots, NEW pin \in Pins, NEW key \in Keys, NEW stage \in Stages,
              InitToken(s, pin, key, stage)
       PROVE  [Contract!Next]_Shown
  <2>1. OpenHandles(s) = {}
    BY <1>10 DEF InitToken, HasSessions
  <2>2. sessions' = sessions /\ sessionmap' = sessionmap
    BY <1>10 DEF InitToken
  <2>3. OpenHandles(s)' = {}
    BY <2>1, <2>2 DEF OpenHandles
  <2>4. token[s].logged = Nobody /\ token'[s].logged = Nobody
    BY <2>1, <2>3, SlotsNow, SlotsThen DEF ShownSlots
  <2>5. \A z \in Slots : z # s => token'[z] = token[z]
    BY <1>10, <1>a DEF InitToken, TypeOK
  <2> QED
    BY <1>b, <1>c, <2>2, <2>4, <2>5
<1>11. ASSUME NEW h \in Handles, NEW pin \in Pins, InitPIN(h, pin)
       PROVE  [Contract!Next]_Shown
  BY <1>11, <1>b, <1>c DEF InitPIN
<1>12. ASSUME NEW h \in Handles, NEW old \in Pins, NEW new \in Pins, SetPIN(h, old, new)
       PROVE  [Contract!Next]_Shown
  <2> DEFINE s == sessionmap[h]
             u == token[s].logged
             i == LoggedIn(token[s], db[s], "USER", old)
             f == FlagAttempt(token[s], db[s], u, old)
  <2>1. s \in Slots /\ token[s] \in Token /\ db[s] \in Database
    BY <1>12, <1>a, HandleTypes DEF SetPIN, Usable, TypeOK
  <2>2. u # Nobody => u \in Users /\ f.logged = u
    BY <2>1, FlagAttemptEffect DEF Token
  <2>3. \A e : LoggedOut(i, e).logged = Nobody
    <3>1. i \in Token
      BY <2>1, LoggedInType DEF Users
    <3> QED
      BY <3>1, LoggedOutEffect
  <2>4. \E r : /\ token' = [token EXCEPT ![s] = r]
               /\ IF u = Nobody THEN \E e : r = LoggedOut(i, e) ELSE r = f
    BY <1>12 DEF SetPIN
  <2> HIDE DEF i, f
  <2>5. \A z \in Slots : token'[z].logged = token[z].logged
    BY <1>a, <2>1, <2>2, <2>3, <2>4 DEF TypeOK
  <2>6. sessions' = sessions /\ sessionmap' = sessionmap
    BY <1>12 DEF SetPIN
  <2> QED
    BY <1>b, <1>c, <2>5, <2>6
<1>13. CASE UNCHANGED vars
  BY <1>13, <1>b, <1>c DEF vars
<1> QED
  BY <1>1, <1>2, <1>3, <1>4, <1>5, <1>6, <1>7, <1>8, <1>9, <1>10, <1>11, <1>12, <1>13 DEF Next

(* Whatever the library does, its sessions and logins behave as the        *)
(* contract says: the many structures and the two-step calls never show.   *)
THEOREM LoginContractImplemented == Spec => ImplementsLoginContract
<1>1. Init => Contract!Init
  BY ShownInit
<1>2. IInv /\ IInv' /\ [Next]_vars => [Contract!Next]_Shown
  BY ShownStep
<1> QED
  BY <1>1, <1>2, Invariance, PTL DEF Spec, ImplementsLoginContract, Contract!Spec, Shown, Logged
=============================================================================
