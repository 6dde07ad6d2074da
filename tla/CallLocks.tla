----------------------------- MODULE CallLocks -----------------------------
(***************************************************************************)
(* Concurrent PKCS#11 calls of one process on one slot, and the reader-    *)
(* writer locks they take: STATE (lib.rs), the TOKEN of the slot and one   *)
(* lock per session (slot.rs).  Every call takes STATE, most then take the *)
(* lock of their session, then that of the token, and the guards they hold *)
(* are dropped on return.  C_Login and C_Logout go the other way: with the *)
(* token held they visit the lock of every session to change its state.    *)
(*                                                                         *)
(* What a call does to the login and to the sessions is kept, to see that  *)
(* the locks give it the atomicity that Sessions assumes.  A failed PIN    *)
(* check changes nothing here and is left out.                             *)
(*                                                                         *)
(* StateShared, KeepsSession and KeepsNothing are the definitions after    *)
(* them with a plausible mistake; nothing uses them.                       *)
(***************************************************************************)
EXTENDS Naturals

CONSTANTS
  Threads,
  Handles,         \* the handles sessions can have, which are also their locks
  Functions,       \* the PKCS#11 functions the application calls
  MaxCalls,        \* bound: calls per thread
  None             \* no thread, no handle

AllFunctions == {"OpenSession", "CloseSession", "Login", "Logout",
                 "InitToken", "SetPIN", "SignInit", "Sign"}

ASSUME CallLocksAssumption ==
  /\ Functions \subseteq AllFunctions
  /\ MaxCalls \in Nat \ {0}
  /\ None \notin Threads \cup Handles
  /\ {"STATE", "TOKEN"} \cap Handles = {}

Locks  == {"STATE", "TOKEN"} \cup Handles
Users  == {"SO", "USER"}
Nobody == "NONE"

(* The arguments a function is called with.                                *)
Calls(fn) ==
  [fn     : {fn},
   handle : IF fn \in {"OpenSession", "InitToken"} THEN {None} ELSE Handles,
   user   : IF fn = "Login" THEN Users ELSE {Nobody},
   rw     : IF fn = "OpenSession" THEN BOOLEAN ELSE {TRUE}]
NoCall == [fn |-> "none", handle |-> None, user |-> Nobody, rw |-> TRUE]

VARIABLES
  pc,              \* what each thread is about to do: the lock it waits for
  call,            \* the call it is in
  todo,            \* the sessions its loop over Slot::sessions has not visited
  made,            \* the number of calls it has made
  readers, writer, \* who holds each lock
  open,            \* the sessions: "closed", "RO" or "RW"
  private,         \* whether each one's state is a logged in one
  logged           \* Token::logged

locks == <<readers, writer>>
data  == <<open, private, logged>>
vars  == <<pc, call, todo, made, locks, data>>

OpenHandles == {h \in Handles : open[h] # "closed"}
-----------------------------------------------------------------------------
(* The mode each function takes a lock in.                                 *)
StateShared(fn) == "R"
StateMode(fn)   == IF fn \in {"OpenSession", "CloseSession"} THEN "W" ELSE "R"
SessionMode(fn) == IF fn \in {"SignInit", "Sign"} THEN "W" ELSE "R"
TokenMode(fn)   == IF fn = "OpenSession" THEN "R" ELSE "W"

(* The guards that live until the call returns; the others are dropped     *)
(* before the next lock is taken.  C_Login and C_Logout read the slot from *)
(* the session and drop it ("avoid deadlock later").                       *)
KeepsSession(fn) == {"STATE", "SESSION", "TOKEN"}
KeepsNothing(fn) == {"STATE"}
Keeps(fn) == IF fn \in {"Login", "Logout"} THEN {"STATE", "TOKEN"}
             ELSE {"STATE", "SESSION", "TOKEN"}

Free(l, mode) == writer[l] = None /\ (mode = "W" => readers[l] = {})

(* std::sync::RwLock: a reader is let in while no writer holds the lock;   *)
(* whether it queues behind waiting writers depends on the platform.       *)
Take(t, l, mode, keep) ==
  /\ Free(l, mode)
  /\ readers' = IF keep /\ mode = "R" THEN [readers EXCEPT ![l] = @ \cup {t}] ELSE readers
  /\ writer'  = IF keep /\ mode = "W" THEN [writer EXCEPT ![l] = t] ELSE writer

Goto(t, label) == pc' = [pc EXCEPT ![t] = label]
-----------------------------------------------------------------------------
Init ==
  /\ pc = [t \in Threads |-> "idle"]
  /\ call = [t \in Threads |-> NoCall]
  /\ todo = [t \in Threads |-> {}]
  /\ made = [t \in Threads |-> 0]
  /\ readers = [l \in Locks |-> {}]
  /\ writer = [l \in Locks |-> None]
  /\ open = [h \in Handles |-> "closed"]
  /\ private = [h \in Handles |-> FALSE]
  /\ logged = Nobody

Start(t, c) ==
  /\ pc[t] = "idle"
  /\ made[t] < MaxCalls
  /\ made' = [made EXCEPT ![t] = @ + 1]
  /\ call' = [call EXCEPT ![t] = c]
  /\ Goto(t, "state")
  /\ UNCHANGED <<todo, locks, data>>

(* STATE.rlock or STATE.wlock; then the session map is consulted.          *)
TakeState(t) ==
  LET c == call[t] IN
  /\ pc[t] = "state"
  /\ Take(t, "STATE", StateMode(c.fn), TRUE)
  /\ Goto(t, IF c.handle # None /\ open[c.handle] = "closed" THEN "return"
             ELSE IF c.fn = "InitToken" /\ OpenHandles # {} THEN "return"
             ELSE IF c.fn \in {"OpenSession", "CloseSession", "InitToken"} THEN "token"
             ELSE "session")
  /\ UNCHANGED <<call, todo, made, data>>

(* get_session or get_session_mut.                                         *)
TakeSession(t) ==
  LET c == call[t] IN
  /\ pc[t] = "session"
  /\ Take(t, c.handle, SessionMode(c.fn), "SESSION" \in Keeps(c.fn))
  /\ Goto(t, IF c.fn = "Sign" \/ (c.fn = "SetPIN" /\ open[c.handle] = "RO") THEN "return"
             ELSE IF c.fn = "Login" /\ c.user = "SO" THEN "scan"
             ELSE "token")
  /\ todo' = [todo EXCEPT ![t] = IF c.user = "SO" THEN OpenHandles ELSE {}]
  /\ UNCHANGED <<call, made, data>>

(* has_ro_sessions, one session after the other.                           *)
Scan(t, h) ==
  /\ pc[t] = "scan"
  /\ h \in todo[t]
  /\ Take(t, h, "R", FALSE)
  /\ todo' = [todo EXCEPT ![t] = @ \ {h}]
  /\ Goto(t, IF open[h] = "RO" THEN "return"
             ELSE IF todo[t] = {h} THEN "token" ELSE "scan")
  /\ UNCHANGED <<call, made, data>>

(* The token is taken, and the function does its work on it.               *)
OpenEffect(c) ==
  IF (logged = "SO" /\ ~c.rw) \/ OpenHandles = Handles
  THEN UNCHANGED data
  ELSE LET h == CHOOSE x \in Handles : open[x] = "closed" IN
       /\ open' = [open EXCEPT ![h] = IF c.rw THEN "RW" ELSE "RO"]
       /\ private' = [private EXCEPT ![h] = logged # Nobody]
       /\ UNCHANGED logged

CloseEffect(c) ==
  /\ open' = [open EXCEPT ![c.handle] = "closed"]
  /\ private' = [private EXCEPT ![c.handle] = FALSE]
  /\ logged' = IF OpenHandles = {c.handle} THEN Nobody ELSE logged

TakeToken(t) ==
  LET c == call[t]
      login  == c.fn = "Login" /\ logged = Nobody
      logout == c.fn = "Logout" /\ logged # Nobody
  IN
  /\ pc[t] = "token"
  /\ Take(t, "TOKEN", TokenMode(c.fn), "TOKEN" \in Keeps(c.fn))
  /\ CASE c.fn = "OpenSession"  -> OpenEffect(c)
       [] c.fn = "CloseSession" -> CloseEffect(c)
       [] OTHER -> /\ logged' = IF login \/ logout THEN c.user ELSE logged
                   /\ UNCHANGED <<open, private>>
  /\ todo' = [todo EXCEPT ![t] = IF login \/ logout THEN OpenHandles ELSE {}]
  /\ Goto(t, IF login \/ logout THEN "spread" ELSE "return")
  /\ UNCHANGED <<call, made>>

(* change_session_states or invalidate_session_states, one session after   *)
(* the other.  A session that refuses an SO login has the login undone.    *)
Spread(t, h) ==
  LET refused == call[t].user = "SO" /\ logged = "SO" /\ open[h] = "RO" IN
  /\ pc[t] = "spread"
  /\ h \in todo[t]
  /\ Take(t, h, "W", FALSE)
  /\ logged' = IF refused THEN Nobody ELSE logged
  /\ private' = IF refused THEN private ELSE [private EXCEPT ![h] = logged # Nobody]
  /\ todo' = [todo EXCEPT ![t] = IF refused THEN OpenHandles ELSE @ \ {h}]
  /\ Goto(t, IF todo'[t] = {} THEN "return" ELSE "spread")
  /\ UNCHANGED <<call, made, open>>

(* The guards go out of scope.                                             *)
Return(t) ==
  /\ pc[t] = "return"
  /\ readers' = [l \in Locks |-> readers[l] \ {t}]
  /\ writer' = [l \in Locks |-> IF writer[l] = t THEN None ELSE writer[l]]
  /\ call' = [call EXCEPT ![t] = NoCall]
  /\ todo' = [todo EXCEPT ![t] = {}]
  /\ Goto(t, "idle")
  /\ UNCHANGED <<made, data>>

Step(t) ==
  \/ TakeState(t)
  \/ TakeSession(t)
  \/ \E h \in Handles : Scan(t, h)
  \/ TakeToken(t)
  \/ \E h \in Handles : Spread(t, h)
  \/ Return(t)

Next == \E t \in Threads :
          \/ \E fn \in Functions : \E c \in Calls(fn) : Start(t, c)
          \/ Step(t)

(* A thread inside a call is scheduled again and again.  Nothing makes an  *)
(* application call a function.                                            *)
Spec == Init /\ [][Next]_vars /\ \A t \in Threads : WF_vars(Step(t))
-----------------------------------------------------------------------------
Modes == {"R", "W"}

(* Types of all variables; and a lock has one writer or some readers.      *)
TypeOK ==
  /\ pc \in [Threads -> {"idle", "state", "session", "scan", "token", "spread", "return"}]
  /\ call \in [Threads -> {NoCall} \cup UNION {Calls(fn) : fn \in Functions}]
  /\ todo \in [Threads -> SUBSET Handles]
  /\ made \in [Threads -> 0..MaxCalls]
  /\ readers \in [Locks -> SUBSET Threads]
  /\ writer \in [Locks -> Threads \cup {None}]
  /\ \A l \in Locks : writer[l] # None => readers[l] = {}
  /\ open \in [Handles -> {"closed", "RO", "RW"}]
  /\ private \in [Handles -> BOOLEAN]
  /\ logged \in Users \cup {Nobody}

(* The locks thread t waits for, and in which mode.                        *)
Wants(t) ==
  CASE pc[t] = "state"   -> {<<"STATE", StateMode(call[t].fn)>>}
    [] pc[t] = "session" -> {<<call[t].handle, SessionMode(call[t].fn)>>}
    [] pc[t] = "scan"    -> todo[t] \X {"R"}
    [] pc[t] = "token"   -> {<<"TOKEN", TokenMode(call[t].fn)>>}
    [] pc[t] = "spread"  -> todo[t] \X {"W"}
    [] OTHER             -> {}

(* u keeps others from getting the lock: it holds it, or is a writer that  *)
(* waits for it and goes first.                                            *)
InTheWay(u, l, mode) ==
  \/ writer[l] = u
  \/ mode = "W" /\ u \in readers[l]
  \/ mode = "R" /\ <<l, "W">> \in Wants(u)

(* No calls wait for each other for ever: there is no set of threads each  *)
(* of which waits only for locks that others of the set keep from it.      *)
NoDeadlock ==
  ~ \E D \in (SUBSET Threads) \ {{}} :
      \A t \in D : /\ Wants(t) # {}
                   /\ \A w \in Wants(t) : \E u \in D : InTheWay(u, w[1], w[2])

(* The SO is never logged in together with a read-only session, although   *)
(* C_Login looks at the sessions before it has the token, and C_OpenSession*)
(* at the token before it adds the session.                                *)
NoReadOnlySessionUnderSO ==
  logged = "SO" => \A h \in OpenHandles : open[h] # "RO"

(* Whoever can read the token and the sessions finds them in agreement:    *)
(* while no call has the token for itself, each session's state is a       *)
(* logged in one exactly when somebody is logged in.                       *)
SessionsAgreeWithToken ==
  writer["TOKEN"] = None => \A h \in OpenHandles : private[h] <=> logged # Nobody

(* What the contract sees: its one slot, and no session where the handle   *)
(* is closed.                                                              *)
TheSlot   == "slot"
NoSession == [slot |-> "none", rw |-> FALSE]

OpenSessions ==
  [h \in Handles |-> IF open[h] = "closed" THEN NoSession
                     ELSE [slot |-> TheSlot, rw |-> open[h] = "RW"]]

Contract == INSTANCE LoginContract
              WITH Slots <- {TheSlot}, Absent <- NoSession,
                   open <- OpenSessions, logged <- [s \in {TheSlot} |-> logged]

(* Calls that overlap do to sessions and logins what LoginContract allows, *)
(* as calls made one after the other do: each has one step that does it,   *)
(* and what it found out under locks it has dropped since, that its        *)
(* session is open and none is read-only, still holds then.                *)
ImplementsLoginContract == Contract!Spec

(* Every call returns.                                                     *)
CallsReturn == \A t \in Threads : pc[t] # "idle" ~> pc[t] = "idle"
=============================================================================
