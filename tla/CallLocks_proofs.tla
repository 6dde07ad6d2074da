-------------------------- MODULE CallLocks_proofs --------------------------
(***************************************************************************)
(* For any number of threads, sessions and calls: the locks of CallLocks   *)
(* give login and sessions the atomicity Sessions assumes, and, without    *)
(* the functions that wait for the token with their session locked, no     *)
(* threads wait for each other for ever.                                   *)
(*                                                                         *)
(* Both rest on what each thread holds at each point of its call.  The     *)
(* first needs that a thread past "state" holds STATE, so that whoever     *)
(* opens or closes a session is alone; the second that who holds a session *)
(* waits for nothing, and who holds the token for sessions only.           *)
(*                                                                         *)
(* Then the refinement of LoginContract by calls that overlap; and, of     *)
(* CallsReturn, all but the fairness: what each step brings a call closer  *)
(* to, and that some call can always take one.                             *)
(***************************************************************************)
EXTENDS CallLocks, TLAPS

Past   == {"session", "scan", "token", "spread", "return"}
Labels == {"idle", "state"} \cup Past

InCall(t) == \E fn \in Functions : call[t] \in Calls(fn)

HoldsState(t) == IF StateMode(call[t].fn) = "W" THEN writer["STATE"] = t
                 ELSE t \in readers["STATE"]

ThreadOK(t) ==
  /\ pc[t] # "idle" => InCall(t)
  /\ pc[t] \in Past => HoldsState(t)
  /\ pc[t] = "session" => call[t].fn \in {"Login", "Logout", "SetPIN", "SignInit", "Sign"}
  /\ pc[t] \in {"session", "scan", "token"} /\ call[t].handle # None =>
       open[call[t].handle] # "closed"
  /\ pc[t] = "scan" => /\ call[t].fn = "Login"
                       /\ \A h \in Handles : open[h] = "RO" => h \in todo[t]
  /\ pc[t] = "token" /\ call[t].user = "SO" => \A h \in Handles : open[h] # "RO"
  /\ pc[t] = "spread" => call[t].fn \in {"Login", "Logout"} /\ writer["TOKEN"] = t

(* A session agrees with the token, or somebody is about to see to it.     *)
Agreement ==
  \A h \in OpenHandles :
    (private[h] <=> logged # Nobody) \/ \E t \in Threads : pc[t] = "spread" /\ h \in todo[t]

IInv ==
  /\ TypeOK
  /\ \A t \in Threads : ThreadOK(t)
  /\ NoReadOnlySessionUnderSO
  /\ Agreement

(* What a step of t does to the locks as the other threads see them.       *)
OthersLocks(t) ==
  /\ readers' \in [Locks -> SUBSET Threads]
  /\ writer' \in [Locks -> Threads \cup {None}]
  /\ \A l \in Locks : writer'[l] # None => readers'[l] = {}
  /\ \A l \in Locks, u \in Threads \ {t} :
       /\ u \in readers'[l] <=> u \in readers[l]
       /\ writer'[l] = u <=> writer[l] = u

(* And t keeps the locks it has.                                           *)
KeepsLocks(t) ==
  \A l \in Locks : /\ t \in readers[l] => t \in readers'[l]
                   /\ writer[l] = t => writer'[l] = t
-----------------------------------------------------------------------------
LEMMA LockNames ==
  "STATE" \in Locks /\ "TOKEN" \in Locks /\ "STATE" # "TOKEN" /\ Handles \subseteq Locks
  /\ "STATE" \notin Handles /\ "TOKEN" \notin Handles
  BY CallLocksAssumption DEF Locks

LEMMA CallFacts ==
  ASSUME NEW t \in Threads, InCall(t)
  PROVE  /\ call[t].fn \in Functions /\ call[t].fn \in AllFunctions
         /\ call[t].fn \in {"OpenSession", "InitToken"} => call[t].handle = None
         /\ call[t].fn \notin {"OpenSession", "InitToken"} => call[t].handle \in Handles
         /\ call[t].user \in Users \cup {Nobody}
         /\ call[t].user # Nobody <=> call[t].fn = "Login"
         /\ call[t].rw \in BOOLEAN
  BY CallLocksAssumption DEF InCall, Calls, Users, Nobody

LEMMA ModeFacts ==
  ASSUME NEW fn
  PROVE  StateMode(fn) \in Modes /\ SessionMode(fn) \in Modes /\ TokenMode(fn) \in Modes
  BY DEF StateMode, SessionMode, TokenMode, Modes

LEMMA TakeKept ==
  ASSUME TypeOK, NEW t \in Threads, NEW l \in Locks, NEW mode \in Modes, Take(t, l, mode, TRUE)
  PROVE  /\ OthersLocks(t) /\ KeepsLocks(t)
         /\ IF mode = "W" THEN writer'[l] = t ELSE t \in readers'[l]
         /\ writer[l] = None
         /\ \A m \in Locks \ {l} : writer'[m] = writer[m] /\ readers'[m] = readers[m]
         /\ mode = "R" => writer' = writer
<1>1. CASE mode = "W"
  BY <1>1, CallLocksAssumption DEF Take, Free, TypeOK, OthersLocks, KeepsLocks
<1>2. CASE mode = "R"
  BY <1>2, CallLocksAssumption DEF Take, Free, TypeOK, OthersLocks, KeepsLocks
<1> QED
  BY <1>1, <1>2 DEF Modes

LEMMA TakeDropped ==
  ASSUME TypeOK, NEW t \in Threads, NEW l, NEW mode, Take(t, l, mode, FALSE)
  PROVE  OthersLocks(t) /\ KeepsLocks(t) /\ readers' = readers /\ writer' = writer
  BY DEF Take, TypeOK, OthersLocks, KeepsLocks

(* Two threads past "state" at once are readers of STATE.                  *)
LEMMA WriterAlone ==
  ASSUME IInv, NEW t \in Threads, pc[t] \in Past, StateMode(call[t].fn) = "W"
  PROVE  \A u \in Threads \ {t} : pc[u] \notin Past
<1>1. writer["STATE"] = t /\ t # None
  BY CallLocksAssumption DEF IInv, ThreadOK, HoldsState
<1>2. readers["STATE"] = {}
  BY <1>1, LockNames DEF IInv, TypeOK
<1> QED
  BY <1>1, <1>2 DEF IInv, ThreadOK, HoldsState

(* What a step of t leaves as it was for another thread.                   *)
LEMMA OtherThreads ==
  ASSUME IInv, NEW t \in Threads, OthersLocks(t), NEW u \in Threads \ {t},
         pc'[u] = pc[u], call'[u] = call[u], todo'[u] = todo[u],
         open' = open \/ (pc[t] \in Past /\ StateMode(call[t].fn) = "W")
  PROVE  ThreadOK(u)'
<1>1. CASE open' = open
  BY <1>1, LockNames DEF IInv, ThreadOK, InCall, HoldsState, OthersLocks
<1>2. CASE pc[t] \in Past /\ StateMode(call[t].fn) = "W"
  <2>1. pc[u] \notin Past
    BY <1>2, WriterAlone
  <2> QED
    BY <2>1 DEF IInv, ThreadOK, InCall, Past
<1> QED
  BY <1>1, <1>2
-----------------------------------------------------------------------------
LEMMA InitIInv == Init => IInv
  BY CallLocksAssumption
     DEF Init, IInv, TypeOK, ThreadOK, NoReadOnlySessionUnderSO, Agreement, OpenHandles,
         NoCall, Users, Nobody, Past

LEMMA StartIInv ==
  ASSUME IInv, NEW t \in Threads, NEW fn \in Functions, NEW c \in Calls(fn), Start(t, c)
  PROVE  IInv'
<1>1. /\ pc' = [pc EXCEPT ![t] = "state"] /\ call' = [call EXCEPT ![t] = c]
      /\ made' = [made EXCEPT ![t] = @ + 1] /\ made[t] < MaxCalls /\ pc[t] = "idle"
      /\ UNCHANGED <<todo, readers, writer, open, private, logged>>
  BY DEF Start, Goto, locks, data
<1>2. TypeOK'
  <2>1. made' \in [Threads -> 0..MaxCalls]
    BY <1>1, CallLocksAssumption DEF IInv, TypeOK
  <2>2. call' \in [Threads -> {NoCall} \cup UNION {Calls(f) : f \in Functions}]
    BY <1>1 DEF IInv, TypeOK
  <2> QED
    BY <1>1, <2>1, <2>2 DEF IInv, TypeOK
<1>3. OthersLocks(t)
  BY <1>1 DEF IInv, TypeOK, OthersLocks
<1>4. \A u \in Threads \ {t} : ThreadOK(u)'
  <2>1. \A u \in Threads \ {t} : pc'[u] = pc[u] /\ call'[u] = call[u]
    BY <1>1 DEF IInv, TypeOK
  <2> QED
    BY <1>1, <1>3, <2>1, OtherThreads
<1>5. ThreadOK(t)'
  <2>1. pc'[t] = "state" /\ call'[t] = c
    BY <1>1 DEF IInv, TypeOK
  <2> QED
    BY <2>1 DEF ThreadOK, InCall, Past
<1>6. NoReadOnlySessionUnderSO' /\ Agreement'
  <2>1. \A u \in Threads : pc[u] = "spread" => pc'[u] = "spread"
    BY <1>1 DEF IInv, TypeOK
  <2> QED
    BY <1>1, <2>1 DEF IInv, NoReadOnlySessionUnderSO, Agreement, OpenHandles
<1> QED
  BY <1>2, <1>4, <1>5, <1>6 DEF IInv

LEMMA TakeStateIInv ==
  ASSUME IInv, NEW t \in Threads, TakeState(t)
  PROVE  IInv'
<1> DEFINE c == call[t]
<1>1. /\ pc[t] = "state" /\ Take(t, "STATE", StateMode(c.fn), TRUE)
      /\ UNCHANGED <<call, todo, made, open, private, logged>>
  BY DEF TakeState, data
<1>2. PICK label \in {"return", "token", "session"} :
        /\ pc' = [pc EXCEPT ![t] = label]
        /\ label = "session" => c.fn \notin {"OpenSession", "CloseSession", "InitToken"}
        /\ label = "token" => c.fn \in {"OpenSession", "CloseSession", "InitToken"}
        /\ label # "return" /\ c.handle # None => open[c.handle] # "closed"
  BY DEF TakeState, Goto
<1>3. /\ OthersLocks(t)
      /\ IF StateMode(c.fn) = "W" THEN writer'["STATE"] = t ELSE t \in readers'["STATE"]
  BY <1>1, TakeKept, LockNames, ModeFacts DEF IInv
<1>4. /\ pc'[t] = label /\ InCall(t) /\ InCall(t)'
      /\ \A u \in Threads \ {t} : pc'[u] = pc[u]
  BY <1>1, <1>2 DEF IInv, TypeOK, ThreadOK, InCall
<1>5. TypeOK'
  BY <1>1, <1>2, <1>3 DEF IInv, TypeOK, OthersLocks
<1>6. \A u \in Threads \ {t} : ThreadOK(u)'
  BY <1>1, <1>3, <1>4, OtherThreads
<1>7. ThreadOK(t)'
  BY <1>1, <1>2, <1>3, <1>4, CallFacts DEF ThreadOK, HoldsState, AllFunctions, Nobody
<1>8. NoReadOnlySessionUnderSO' /\ Agreement'
  BY <1>1, <1>4 DEF IInv, NoReadOnlySessionUnderSO, Agreement, OpenHandles
<1> QED
  BY <1>5, <1>6, <1>7, <1>8 DEF IInv

LEMMA TakeSessionIInv ==
  ASSUME IInv, NEW t \in Threads, TakeSession(t)
  PROVE  IInv'
<1> DEFINE c == call[t]
<1>1. /\ pc[t] = "session" /\ Take(t, c.handle, SessionMode(c.fn), "SESSION" \in Keeps(c.fn))
      /\ todo' = [todo EXCEPT ![t] = IF c.user = "SO" THEN OpenHandles ELSE {}]
      /\ UNCHANGED <<call, made, open, private, logged>>
  BY DEF TakeSession, data
<1>2. PICK label \in {"return", "scan", "token"} :
        /\ pc' = [pc EXCEPT ![t] = label]
        /\ label = "scan" => c.fn = "Login" /\ c.user = "SO"
        /\ label = "token" => ~(c.fn = "Login" /\ c.user = "SO")
  BY DEF TakeSession, Goto
<1>3. /\ InCall(t) /\ c.handle \in Handles /\ c.handle \in Locks
      /\ c.user = "SO" => c.fn = "Login"
  BY <1>1, CallFacts, LockNames DEF IInv, ThreadOK, Nobody
<1>4. OthersLocks(t) /\ KeepsLocks(t)
  <2>1. CASE "SESSION" \in Keeps(c.fn)
    BY <1>1, <1>3, <2>1, TakeKept, ModeFacts DEF IInv
  <2>2. CASE "SESSION" \notin Keeps(c.fn)
    <3>1. Take(t, c.handle, SessionMode(c.fn), FALSE)
      BY <1>1, <2>2 DEF Take
    <3> QED
      BY <3>1, TakeDropped DEF IInv
  <2> QED
    BY <2>1, <2>2
<1>5. /\ pc'[t] = label /\ InCall(t)'
      /\ todo'[t] = IF c.user = "SO" THEN OpenHandles ELSE {}
      /\ \A u \in Threads \ {t} : pc'[u] = pc[u] /\ todo'[u] = todo[u]
  BY <1>1, <1>2, <1>3 DEF IInv, TypeOK, InCall
<1>6. TypeOK'
  BY <1>1, <1>2, <1>4 DEF IInv, TypeOK, OthersLocks, OpenHandles
<1>7. \A u \in Threads \ {t} : ThreadOK(u)'
  BY <1>1, <1>4, <1>5, OtherThreads
<1>8. ThreadOK(t)'
  <2>1. HoldsState(t)'
    BY <1>1, <1>4, LockNames DEF IInv, ThreadOK, HoldsState, KeepsLocks, Past
  <2>2. c.user = "SO" => \A h \in Handles : open[h] = "RO" => h \in todo'[t]
    BY <1>5 DEF OpenHandles
  <2>3. open'[c.handle] # "closed"
    BY <1>1, <1>3, CallLocksAssumption DEF IInv, ThreadOK
  <2> QED
    BY <1>1, <1>2, <1>3, <1>5, <2>1, <2>2, <2>3 DEF ThreadOK
<1>9. NoReadOnlySessionUnderSO' /\ Agreement'
  BY <1>1, <1>5 DEF IInv, NoReadOnlySessionUnderSO, Agreement, OpenHandles
<1> QED
  BY <1>6, <1>7, <1>8, <1>9 DEF IInv

LEMMA ScanIInv ==
  ASSUME IInv, NEW t \in Threads, NEW h \in Handles, Scan(t, h)
  PROVE  IInv'
<1> DEFINE label == IF open[h] = "RO" THEN "return" ELSE IF todo[t] = {h} THEN "token" ELSE "scan"
<1>1. /\ pc[t] = "scan" /\ Take(t, h, "R", FALSE)
      /\ todo' = [todo EXCEPT ![t] = @ \ {h}]
      /\ pc' = [pc EXCEPT ![t] = label]
      /\ UNCHANGED <<call, made, open, private, logged>>
  BY DEF Scan, Goto, data
<1>2. label \in {"return", "token", "scan"}
  OBVIOUS
<1>3. OthersLocks(t) /\ KeepsLocks(t)
  BY <1>1, TakeDropped DEF IInv
<1>4. /\ pc'[t] = label /\ todo'[t] = todo[t] \ {h} /\ InCall(t) /\ InCall(t)'
      /\ \A u \in Threads \ {t} : pc'[u] = pc[u] /\ todo'[u] = todo[u]
  BY <1>1 DEF IInv, TypeOK, ThreadOK, InCall
<1>5. TypeOK'
  BY <1>1, <1>2, <1>3 DEF IInv, TypeOK, OthersLocks
<1>6. \A u \in Threads \ {t} : ThreadOK(u)'
  BY <1>1, <1>3, <1>4, OtherThreads
<1>7. ThreadOK(t)'
  <2>1. HoldsState(t)'
    BY <1>1, <1>3, LockNames DEF IInv, ThreadOK, HoldsState, KeepsLocks, Past
  <2>2. \A j \in Handles : open[j] = "RO" => j \in todo[t]
    BY <1>1 DEF IInv, ThreadOK
  <2>3. label = "scan" => \A j \in Handles : open[j] = "RO" => j \in todo'[t]
    BY <1>4, <2>2
  <2>4. label = "token" => \A j \in Handles : open[j] # "RO"
    BY <2>2
  <2>5. call[t].fn = "Login"
    BY <1>1 DEF IInv, ThreadOK
  <2>6. call[t].handle # None => open[call[t].handle] # "closed"
    BY <1>1 DEF IInv, ThreadOK
  <2> QED
    BY <1>1, <1>2, <1>4, <2>1, <2>3, <2>4, <2>5, <2>6 DEF ThreadOK
<1>8. NoReadOnlySessionUnderSO' /\ Agreement'
  BY <1>1, <1>4 DEF IInv, NoReadOnlySessionUnderSO, Agreement, OpenHandles
<1> QED
  BY <1>5, <1>6, <1>7, <1>8 DEF IInv

LEMMA TakeTokenIInv ==
  ASSUME IInv, NEW t \in Threads, TakeToken(t)
  PROVE  IInv'
<1> DEFINE c == call[t]
           login  == c.fn = "Login" /\ logged = Nobody
           logout == c.fn = "Logout" /\ logged # Nobody
           label  == IF login \/ logout THEN "spread" ELSE "return"
<1>1. /\ pc[t] = "token" /\ Take(t, "TOKEN", TokenMode(c.fn), "TOKEN" \in Keeps(c.fn))
      /\ todo' = [todo EXCEPT ![t] = IF login \/ logout THEN OpenHandles ELSE {}]
      /\ pc' = [pc EXCEPT ![t] = label]
      /\ UNCHANGED <<call, made>>
  BY DEF TakeToken, Goto
<1>2. InCall(t) /\ InCall(t)'
  BY <1>1 DEF IInv, ThreadOK, InCall
<1>3. /\ OthersLocks(t) /\ KeepsLocks(t) /\ writer["TOKEN"] = None
      /\ c.fn \in {"Login", "Logout"} => writer'["TOKEN"] = t
  <2>1. "TOKEN" \in Keeps(c.fn)
    BY DEF Keeps
  <2>2. Take(t, "TOKEN", TokenMode(c.fn), TRUE)
    BY <1>1, <2>1
  <2> QED
    BY <2>2, TakeKept, LockNames, ModeFacts DEF IInv, TokenMode
<1>4. /\ pc'[t] = label /\ todo'[t] = IF login \/ logout THEN OpenHandles ELSE {}
      /\ \A u \in Threads \ {t} : pc'[u] = pc[u] /\ todo'[u] = todo[u]
  BY <1>1 DEF IInv, TypeOK
<1>5. \A u \in Threads : pc[u] # "spread"
  BY <1>3, CallLocksAssumption DEF IInv, ThreadOK
<1>6. \A h \in OpenHandles : private[h] <=> logged # Nobody
  BY <1>5 DEF IInv, Agreement
<1>7. /\ open' \in [Handles -> {"closed", "RO", "RW"}]
      /\ private' \in [Handles -> BOOLEAN]
      /\ logged' \in Users \cup {Nobody}
      /\ open' = open \/ StateMode(c.fn) = "W"
      /\ logged' = "SO" => \A h \in Handles : open'[h] # "RO"
      /\ ~login /\ ~logout =>
           \A h \in Handles : open'[h] # "closed" => (private'[h] <=> logged' # Nobody)
      /\ login \/ logout => open' = open
  <2>1. CASE c.fn = "OpenSession"
    <3>1. OpenEffect(c)
      BY <2>1, <1>1 DEF TakeToken
    <3>2. CASE UNCHANGED data
      BY <2>1, <3>2, <1>6 DEF data, IInv, TypeOK, NoReadOnlySessionUnderSO, OpenHandles
    <3>3. CASE ~((logged = "SO" /\ ~c.rw) \/ OpenHandles = Handles)
      <4>1. PICK h \in Handles :
              /\ open[h] = "closed"
              /\ open' = [open EXCEPT ![h] = IF c.rw THEN "RW" ELSE "RO"]
              /\ private' = [private EXCEPT ![h] = logged # Nobody]
              /\ logged' = logged
        <5> DEFINE h == CHOOSE x \in Handles : open[x] = "closed"
        <5>1. \E x \in Handles : open[x] = "closed"
          BY <3>3 DEF OpenHandles
        <5>2. h \in Handles /\ open[h] = "closed"
          BY <5>1
        <5> QED
          BY <3>1, <3>3, <5>2 DEF OpenEffect
      <4>2. open' \in [Handles -> {"closed", "RO", "RW"}] /\ private' \in [Handles -> BOOLEAN]
        BY <4>1 DEF IInv, TypeOK
      <4>3. StateMode(c.fn) = "W" /\ ~login /\ ~logout
        BY <2>1 DEF StateMode
      <4>4. logged' = "SO" => \A j \in Handles : open'[j] # "RO"
        BY <3>3, <4>1 DEF IInv, TypeOK, NoReadOnlySessionUnderSO, OpenHandles
      <4>5. \A j \in Handles : open'[j] # "closed" => (private'[j] <=> logged' # Nobody)
        <5> SUFFICES ASSUME NEW j \in Handles, open'[j] # "closed"
                     PROVE  private'[j] <=> logged' # Nobody
          OBVIOUS
        <5>1. CASE j = h
          BY <5>1, <4>1 DEF IInv, TypeOK
        <5>2. CASE j # h
          BY <5>2, <4>1, <1>6 DEF IInv, TypeOK, OpenHandles
        <5> QED
          BY <5>1, <5>2
      <4> QED
        BY <4>1, <4>2, <4>3, <4>4, <4>5 DEF IInv, TypeOK
    <3> QED
      BY <3>1, <3>2, <3>3 DEF OpenEffect
  <2>2. CASE c.fn = "CloseSession"
    <3>1. CloseEffect(c)
      BY <2>2, <1>1 DEF TakeToken
    <3>2. c.handle \in Handles
      BY <2>2, <1>2, CallFacts
    <3>3. /\ open' = [open EXCEPT ![c.handle] = "closed"]
          /\ private' = [private EXCEPT ![c.handle] = FALSE]
          /\ logged' = IF OpenHandles = {c.handle} THEN Nobody ELSE logged
      BY <3>1 DEF CloseEffect
    <3>4. open' \in [Handles -> {"closed", "RO", "RW"}] /\ private' \in [Handles -> BOOLEAN]
      BY <3>2, <3>3 DEF IInv, TypeOK
    <3>5. logged' \in Users \cup {Nobody}
      BY <3>3 DEF IInv, TypeOK
    <3>6. StateMode(c.fn) = "W" /\ ~login /\ ~logout
      BY <2>2 DEF StateMode
    <3>7. \A j \in Handles : open'[j] # "closed" =>
             j # c.handle /\ open'[j] = open[j] /\ private'[j] = private[j] /\ logged' = logged
      BY <3>2, <3>3 DEF IInv, TypeOK, OpenHandles
    <3>8. \A j \in Handles : open'[j] # "closed" => (private'[j] <=> logged' # Nobody)
      BY <3>7, <1>6 DEF OpenHandles
    <3>9. logged' = "SO" => \A j \in Handles : open'[j] # "RO"
      BY <3>3, <3>7 DEF IInv, NoReadOnlySessionUnderSO, OpenHandles, Nobody
    <3> QED
      BY <3>4, <3>5, <3>6, <3>8, <3>9
  <2>3. CASE c.fn \notin {"OpenSession", "CloseSession"}
    <3>1. /\ logged' = IF login \/ logout THEN c.user ELSE logged
          /\ open' = open /\ private' = private
      BY <2>3, <1>1 DEF TakeToken
    <3>2. c.user \in Users \cup {Nobody}
      BY <1>2, CallFacts
    <3>3. c.user = "SO" => \A h \in Handles : open[h] # "RO"
      BY <1>1 DEF IInv, ThreadOK
    <3>4. logged' = "SO" => \A h \in Handles : open'[h] # "RO"
      BY <3>1, <3>3 DEF IInv, NoReadOnlySessionUnderSO, OpenHandles
    <3> QED
      BY <3>1, <3>2, <3>4, <1>6 DEF IInv, TypeOK, OpenHandles
  <2> QED
    BY <2>1, <2>2, <2>3
<1>8. label \in {"return", "spread"}
  OBVIOUS
<1>9. TypeOK'
  <2>1. pc' \in [Threads -> {"idle", "state", "session", "scan", "token", "spread", "return"}]
    BY <1>1, <1>8 DEF IInv, TypeOK
  <2>2. todo' \in [Threads -> SUBSET Handles]
    BY <1>1 DEF IInv, TypeOK, OpenHandles
  <2> QED
    BY <1>1, <1>3, <1>7, <2>1, <2>2 DEF IInv, TypeOK, OthersLocks
<1>10. \A u \in Threads \ {t} : ThreadOK(u)'
  <2>1. open' = open \/ (pc[t] \in Past /\ StateMode(c.fn) = "W")
    BY <1>1, <1>7 DEF Past
  <2> QED
    BY <1>1, <1>3, <1>4, <2>1, OtherThreads
<1>11. ThreadOK(t)'
  <2>1. HoldsState(t)'
    BY <1>1, <1>3, LockNames DEF IInv, ThreadOK, HoldsState, KeepsLocks, Past
  <2> QED
    BY <1>1, <1>2, <1>3, <1>4, <2>1 DEF ThreadOK
<1>12. NoReadOnlySessionUnderSO' /\ Agreement'
  <2>1. NoReadOnlySessionUnderSO'
    BY <1>7 DEF NoReadOnlySessionUnderSO, OpenHandles
  <2>2. CASE login \/ logout
    <3>1. OpenHandles' = OpenHandles /\ pc'[t] = "spread" /\ todo'[t] = OpenHandles
      BY <2>2, <1>4, <1>7 DEF OpenHandles
    <3> QED
      BY <2>1, <3>1 DEF Agreement
  <2>3. CASE ~(login \/ logout)
    BY <2>1, <2>3, <1>7 DEF Agreement, OpenHandles
  <2> QED
    BY <2>2, <2>3
<1> QED
  BY <1>9, <1>10, <1>11, <1>12 DEF IInv

LEMMA SpreadIInv ==
  ASSUME IInv, NEW t \in Threads, NEW h \in Handles, Spread(t, h)
  PROVE  IInv'
<1>1. ~(call[t].user = "SO" /\ logged = "SO" /\ open[h] = "RO")
  BY DEF IInv, NoReadOnlySessionUnderSO, OpenHandles
<1>2. PICK label \in {"return", "spread"} :
        /\ pc[t] = "spread" /\ h \in todo[t] /\ Take(t, h, "W", FALSE)
        /\ logged' = logged
        /\ private' = [private EXCEPT ![h] = logged # Nobody]
        /\ todo' = [todo EXCEPT ![t] = @ \ {h}]
        /\ pc' = [pc EXCEPT ![t] = label]
        /\ label = "return" => todo'[t] = {}
        /\ UNCHANGED <<call, made, open>>
  BY <1>1 DEF Spread, Goto
<1>3. OthersLocks(t) /\ KeepsLocks(t)
  BY <1>2, TakeDropped DEF IInv
<1>4. /\ pc'[t] = label /\ todo'[t] = todo[t] \ {h} /\ InCall(t) /\ InCall(t)'
      /\ \A u \in Threads \ {t} : pc'[u] = pc[u] /\ todo'[u] = todo[u]
  BY <1>2 DEF IInv, TypeOK, ThreadOK, InCall
<1>5. TypeOK'
  BY <1>2, <1>3 DEF IInv, TypeOK, OthersLocks
<1>6. \A u \in Threads \ {t} : ThreadOK(u)'
  BY <1>2, <1>3, <1>4, OtherThreads
<1>7. ThreadOK(t)'
  <2>1. HoldsState(t)'
    BY <1>2, <1>3, LockNames DEF IInv, ThreadOK, HoldsState, KeepsLocks, Past
  <2>2. call[t].fn \in {"Login", "Logout"} /\ writer'["TOKEN"] = t
    BY <1>2, <1>3, LockNames DEF IInv, ThreadOK, KeepsLocks
  <2> QED
    BY <1>2, <1>4, <2>1, <2>2 DEF ThreadOK
<1>8. NoReadOnlySessionUnderSO'
  BY <1>2 DEF IInv, NoReadOnlySessionUnderSO, OpenHandles
<1>9. Agreement'
  <2> SUFFICES ASSUME NEW j \in OpenHandles
               PROVE  \/ private'[j] <=> logged' # Nobody
                      \/ \E u \in Threads : pc'[u] = "spread" /\ j \in todo'[u]
    BY <1>2 DEF Agreement, OpenHandles
  <2>1. CASE j = h
    BY <2>1, <1>2 DEF IInv, TypeOK
  <2>2. CASE j # h
    <3>1. j \in Handles /\ private'[j] = private[j]
      BY <2>2, <1>2 DEF OpenHandles, IInv, TypeOK
    <3>2. CASE private[j] <=> logged # Nobody
      BY <3>1, <3>2, <1>2
    <3>3. CASE \E u \in Threads : pc[u] = "spread" /\ j \in todo[u]
      <4>1. PICK u \in Threads : pc[u] = "spread" /\ j \in todo[u]
        BY <3>3
      <4>2. j \in todo'[u]
        BY <2>2, <4>1, <1>4
      <4> QED
        BY <4>1, <4>2, <1>2, <1>4
    <3> QED
      BY <3>2, <3>3 DEF IInv, Agreement
  <2> QED
    BY <2>1, <2>2
<1> QED
  BY <1>5, <1>6, <1>7, <1>8, <1>9 DEF IInv

LEMMA ReturnIInv ==
  ASSUME IInv, NEW t \in Threads, Return(t)
  PROVE  IInv'
<1>1. /\ pc[t] = "return"
      /\ readers' = [l \in Locks |-> readers[l] \ {t}]
      /\ writer' = [l \in Locks |-> IF writer[l] = t THEN None ELSE writer[l]]
      /\ call' = [call EXCEPT ![t] = NoCall]
      /\ todo' = [todo EXCEPT ![t] = {}]
      /\ pc' = [pc EXCEPT ![t] = "idle"]
      /\ UNCHANGED <<made, open, private, logged>>
  BY DEF Return, Goto, data
<1>2. OthersLocks(t)
  BY <1>1, CallLocksAssumption DEF IInv, TypeOK, OthersLocks
<1>3. /\ pc'[t] = "idle"
      /\ \A u \in Threads \ {t} : pc'[u] = pc[u] /\ todo'[u] = todo[u] /\ call'[u] = call[u]
  BY <1>1 DEF IInv, TypeOK
<1>4. TypeOK'
  BY <1>1, <1>2 DEF IInv, TypeOK, OthersLocks
<1>5. \A u \in Threads \ {t} : ThreadOK(u)'
  BY <1>1, <1>2, <1>3, OtherThreads
<1>6. ThreadOK(t)'
  BY <1>3 DEF ThreadOK, Past
<1>7. NoReadOnlySessionUnderSO' /\ Agreement'
  <2>1. \A u \in Threads : pc[u] = "spread" => pc'[u] = "spread" /\ todo'[u] = todo[u]
    BY <1>1, <1>3
  <2> QED
    BY <1>1, <2>1 DEF IInv, NoReadOnlySessionUnderSO, Agreement, OpenHandles
<1> QED
  BY <1>4, <1>5, <1>6, <1>7 DEF IInv

LEMMA NextIInv == IInv /\ [Next]_vars => IInv'
<1> SUFFICES ASSUME IInv, [Next]_vars
             PROVE  IInv'
  OBVIOUS
<1>1. CASE UNCHANGED vars
  BY <1>1 DEF vars, locks, data, IInv, TypeOK, ThreadOK, InCall, HoldsState,
              NoReadOnlySessionUnderSO, Agreement, OpenHandles
<1> QED
  BY <1>1, StartIInv, TakeStateIInv, TakeSessionIInv, ScanIInv, TakeTokenIInv, SpreadIInv,
     ReturnIInv DEF Next, Step
-----------------------------------------------------------------------------
(* What a thread holds, if no function waits for the token with its        *)
(* session locked.                                                         *)
Holds(t, l) == t \in readers[l] \/ writer[l] = t

InOrder ==
  \A t \in Threads :
    /\ \A h \in Handles : Holds(t, h) => pc[t] = "return"
    /\ Holds(t, "TOKEN") => pc[t] \in {"spread", "return"}
    /\ Holds(t, "STATE") => pc[t] \in Past

LEMMA InOrderInit == Init => InOrder
<1> SUFFICES ASSUME Init, NEW t \in Threads, NEW l \in Locks
             PROVE  ~Holds(t, l)
  BY LockNames DEF InOrder
<1>1. readers[l] = {} /\ writer[l] = None
  BY DEF Init
<1> QED
  BY <1>1, CallLocksAssumption DEF Holds

(* A thread that takes nothing, or lets go, and comes no closer to the     *)
(* start of its call.                                                      *)
LEMMA InOrderOthers ==
  ASSUME InOrder, NEW t \in Threads, OthersLocks(t),
         \A u \in Threads \ {t} : pc'[u] = pc[u],
         /\ \A h \in Handles : Holds(t, h)' => pc'[t] = "return"
         /\ Holds(t, "TOKEN")' => pc'[t] \in {"spread", "return"}
         /\ Holds(t, "STATE")' => pc'[t] \in Past
  PROVE  InOrder'
  BY LockNames DEF InOrder, OthersLocks, Holds

LEMMA InOrderNext ==
  ASSUME {"SetPIN", "SignInit"} \cap Functions = {}
  PROVE  IInv /\ InOrder /\ [Next]_vars => InOrder'
<1> SUFFICES ASSUME IInv, InOrder, [Next]_vars
             PROVE  InOrder'
  OBVIOUS
<1>1. ASSUME NEW t \in Threads, NEW fn \in Functions, NEW c \in Calls(fn), Start(t, c)
      PROVE  InOrder'
  <2>1. /\ pc[t] = "idle" /\ readers' = readers /\ writer' = writer
        /\ \A u \in Threads \ {t} : pc'[u] = pc[u]
    BY <1>1 DEF Start, Goto, locks, IInv, TypeOK
  <2>2. OthersLocks(t)
    BY <2>1 DEF IInv, TypeOK, OthersLocks
  <2>3. \A l \in Locks : ~Holds(t, l)
    BY <2>1 DEF InOrder, Past, Locks
  <2> QED
    BY <2>1, <2>2, <2>3, InOrderOthers, LockNames DEF Holds
<1>2. ASSUME NEW t \in Threads, TakeState(t)
      PROVE  InOrder'
  <2>1. /\ pc[t] = "state" /\ pc'[t] \in {"return", "token", "session"}
        /\ \A u \in Threads \ {t} : pc'[u] = pc[u]
        /\ Take(t, "STATE", StateMode(call[t].fn), TRUE)
    BY <1>2 DEF TakeState, Goto, IInv, TypeOK
  <2>2. /\ OthersLocks(t)
        /\ \A m \in Locks \ {"STATE"} : writer'[m] = writer[m] /\ readers'[m] = readers[m]
    BY <2>1, TakeKept, LockNames, ModeFacts DEF IInv
  <2>3. \A m \in Locks \ {"STATE"} : ~Holds(t, m)'
    BY <2>1, <2>2 DEF InOrder, Holds, Locks
  <2> QED
    BY <2>1, <2>2, <2>3, InOrderOthers, LockNames DEF Past
<1>3. ASSUME NEW t \in Threads, TakeSession(t)
      PROVE  InOrder'
  <2> DEFINE fn == call[t].fn
  <2>1. /\ pc[t] = "session" /\ pc'[t] \in {"return", "scan", "token"}
        /\ fn = "Sign" => pc'[t] = "return"
        /\ \A u \in Threads \ {t} : pc'[u] = pc[u]
        /\ Take(t, call[t].handle, SessionMode(fn), "SESSION" \in Keeps(fn))
    BY <1>3 DEF TakeSession, Goto, IInv, TypeOK
  <2>2. InCall(t) /\ call[t].handle \in Handles /\ fn \in {"Login", "Logout", "Sign"}
    BY <2>1, CallFacts DEF IInv, ThreadOK
  <2>3. CASE fn = "Sign"
    <3>1. Take(t, call[t].handle, SessionMode(fn), TRUE)
      BY <2>1, <2>3 DEF Keeps
    <3>2. OthersLocks(t)
      BY <2>2, <3>1, TakeKept, LockNames, ModeFacts DEF IInv
    <3> QED
      BY <2>1, <2>3, <3>2, InOrderOthers DEF Past
  <2>4. CASE fn \in {"Login", "Logout"}
    <3>1. Take(t, call[t].handle, SessionMode(fn), FALSE)
      BY <2>1, <2>4 DEF Keeps, Take
    <3>2. OthersLocks(t) /\ readers' = readers /\ writer' = writer
      BY <3>1, TakeDropped DEF IInv
    <3> QED
      BY <2>1, <3>2, InOrderOthers DEF InOrder, Holds, Past
  <2> QED
    BY <2>2, <2>3, <2>4
<1>4. ASSUME NEW t \in Threads, NEW h \in Handles, Scan(t, h)
      PROVE  InOrder'
  <2>1. /\ pc[t] = "scan" /\ pc'[t] \in {"return", "token", "scan"}
        /\ \A u \in Threads \ {t} : pc'[u] = pc[u]
        /\ Take(t, h, "R", FALSE)
    BY <1>4 DEF Scan, Goto, IInv, TypeOK
  <2>2. OthersLocks(t) /\ readers' = readers /\ writer' = writer
    BY <2>1, TakeDropped DEF IInv
  <2> QED
    BY <2>1, <2>2, InOrderOthers DEF InOrder, Holds, Past
<1>5. ASSUME NEW t \in Threads, TakeToken(t)
      PROVE  InOrder'
  <2>1. /\ pc[t] = "token" /\ pc'[t] \in {"return", "spread"}
        /\ \A u \in Threads \ {t} : pc'[u] = pc[u]
        /\ Take(t, "TOKEN", TokenMode(call[t].fn), TRUE)
    BY <1>5 DEF TakeToken, Goto, Keeps, IInv, TypeOK
  <2>2. /\ OthersLocks(t)
        /\ \A m \in Locks \ {"TOKEN"} : writer'[m] = writer[m] /\ readers'[m] = readers[m]
    BY <2>1, TakeKept, LockNames, ModeFacts DEF IInv
  <2>3. \A h \in Handles : ~Holds(t, h)'
    BY <2>1, <2>2, LockNames DEF InOrder, Holds
  <2> QED
    BY <2>1, <2>2, <2>3, InOrderOthers DEF Past
<1>6. ASSUME NEW t \in Threads, NEW h \in Handles, Spread(t, h)
      PROVE  InOrder'
  <2>1. /\ pc[t] = "spread" /\ pc'[t] \in {"return", "spread"}
        /\ \A u \in Threads \ {t} : pc'[u] = pc[u]
        /\ Take(t, h, "W", FALSE)
    BY <1>6 DEF Spread, Goto, IInv, TypeOK
  <2>2. OthersLocks(t) /\ readers' = readers /\ writer' = writer
    BY <2>1, TakeDropped DEF IInv
  <2> QED
    BY <2>1, <2>2, InOrderOthers DEF InOrder, Holds, Past
<1>7. ASSUME NEW t \in Threads, Return(t)
      PROVE  InOrder'
  <2>1. /\ readers' = [l \in Locks |-> readers[l] \ {t}]
        /\ writer' = [l \in Locks |-> IF writer[l] = t THEN None ELSE writer[l]]
        /\ \A u \in Threads \ {t} : pc'[u] = pc[u]
    BY <1>7 DEF Return, Goto, IInv, TypeOK
  <2>2. OthersLocks(t)
    BY <2>1, CallLocksAssumption DEF IInv, TypeOK, OthersLocks
  <2>3. \A l \in Locks : ~Holds(t, l)'
    BY <2>1, CallLocksAssumption DEF Holds
  <2> QED
    BY <2>1, <2>2, <2>3, InOrderOthers, LockNames
<1>8. CASE UNCHANGED vars
  BY <1>8 DEF vars, locks, InOrder, Holds
<1> QED
  BY <1>1, <1>2, <1>3, <1>4, <1>5, <1>6, <1>7, <1>8 DEF Next, Step

(* Nobody in a circle of waiting threads can wait for a session, so nobody *)
(* in it holds the token, and nobody waits for that; and so for STATE.     *)
LEMMA InOrderNoDeadlock ==
  ASSUME IInv, InOrder
  PROVE  NoDeadlock
<1> SUFFICES ASSUME NEW D \in (SUBSET Threads) \ {{}},
                    \A t \in D : /\ Wants(t) # {}
                                 /\ \A w \in Wants(t) : \E u \in D : InTheWay(u, w[1], w[2])
             PROVE  FALSE
  BY DEF NoDeadlock
<1>1. \A t \in D : t \in Threads /\ pc[t] \in {"state", "session", "scan", "token", "spread"}
  BY DEF Wants, IInv, TypeOK
<1>2. ASSUME NEW t \in D, NEW l, NEW mode, <<l, mode>> \in Wants(t)
      PROVE  \E u \in D : InTheWay(u, l, mode)
  <2>1. \E u \in D : InTheWay(u, <<l, mode>>[1], <<l, mode>>[2])
    BY <1>2
  <2> QED
    BY <2>1
<1>3. \A u \in D, h \in Handles : ~Holds(u, h)
  BY <1>1 DEF InOrder
<1>4. \A t \in D, h \in Handles : <<h, "W">> \notin Wants(t)
  BY <1>2, <1>3 DEF InTheWay, Holds
<1>5. \A t \in D, h \in Handles : <<h, "R">> \notin Wants(t)
  <2> SUFFICES ASSUME NEW t \in D, NEW h \in Handles, <<h, "R">> \in Wants(t)
               PROVE  FALSE
    OBVIOUS
  <2>1. PICK u \in D : InTheWay(u, h, "R")
    BY <1>2
  <2>2. writer[h] # u /\ <<h, "W">> \notin Wants(u)
    BY <1>3, <1>4 DEF Holds
  <2> QED
    BY <2>1, <2>2 DEF InTheWay
<1>6. \A t \in D : pc[t] \notin {"session", "scan", "spread"}
  <2> SUFFICES ASSUME NEW t \in D, pc[t] \in {"session", "scan", "spread"}
               PROVE  FALSE
    OBVIOUS
  <2>1. CASE pc[t] = "session"
    <3>1. call[t].handle \in Handles
      BY <1>1, <2>1, CallFacts DEF IInv, ThreadOK
    <3>2. <<call[t].handle, SessionMode(call[t].fn)>> \in Wants(t)
      BY <2>1 DEF Wants
    <3> QED
      BY <3>1, <3>2, <1>4, <1>5, ModeFacts DEF Modes
  <2>2. CASE pc[t] = "scan"
    <3>1. PICK h \in todo[t] : <<h, "R">> \in Wants(t)
      BY <2>2 DEF Wants
    <3> QED
      BY <3>1, <1>1, <1>5 DEF IInv, TypeOK
  <2>3. CASE pc[t] = "spread"
    <3>1. PICK h \in todo[t] : <<h, "W">> \in Wants(t)
      BY <2>3 DEF Wants
    <3> QED
      BY <3>1, <1>1, <1>4 DEF IInv, TypeOK
  <2> QED
    BY <2>1, <2>2, <2>3
<1>7. \A u \in D : ~Holds(u, "TOKEN")
  BY <1>1, <1>6 DEF InOrder
<1>8. \A t \in D : pc[t] # "token"
  <2>1. \A t \in D : <<"TOKEN", "W">> \notin Wants(t)
    BY <1>2, <1>7 DEF InTheWay, Holds
  <2>2. \A t \in D : <<"TOKEN", "R">> \notin Wants(t)
    BY <1>2, <1>7, <2>1 DEF InTheWay, Holds
  <2>3. \A t \in D : pc[t] = "token" => <<"TOKEN", TokenMode(call[t].fn)>> \in Wants(t)
    BY DEF Wants
  <2> QED
    BY <2>1, <2>2, <2>3, ModeFacts DEF Modes
<1>9. \A u \in D : ~Holds(u, "STATE")
  BY <1>1, <1>6, <1>8 DEF InOrder, Past
<1>10. \A t \in D : pc[t] # "state"
  <2>1. \A t \in D : <<"STATE", "W">> \notin Wants(t)
    BY <1>2, <1>9 DEF InTheWay, Holds
  <2>2. \A t \in D : <<"STATE", "R">> \notin Wants(t)
    BY <1>2, <1>9, <2>1 DEF InTheWay, Holds
  <2>3. \A t \in D : pc[t] = "state" => <<"STATE", StateMode(call[t].fn)>> \in Wants(t)
    BY DEF Wants
  <2> QED
    BY <2>1, <2>2, <2>3, ModeFacts DEF Modes
<1>11. PICK t \in D : TRUE
  OBVIOUS
<1> QED
  BY <1>1, <1>6, <1>8, <1>10, <1>11
-----------------------------------------------------------------------------
(* The inductive invariant: what each thread holds and has seen at each    *)
(* point of its call.                                                      *)
THEOREM LocksInvariance == Spec => []IInv
<1> QED
  BY InitIInv, NextIInv, PTL DEF Spec

(* Every variable keeps its type, and no lock has a writer and a reader.   *)
THEOREM LocksTypeCorrect == Spec => []TypeOK
<1>1. IInv => TypeOK
  BY DEF IInv
<1> QED
  BY <1>1, LocksInvariance, PTL

(* Neither C_OpenSession nor C_Login, whatever else runs, brings an SO     *)
(* login and a read-only session together.                                 *)
THEOREM NoReadOnlyUnderSO == Spec => []NoReadOnlySessionUnderSO
<1>1. IInv => NoReadOnlySessionUnderSO
  BY DEF IInv
<1> QED
  BY <1>1, LocksInvariance, PTL

(* Whenever the token is not locked for writing, the sessions agree with   *)
(* the login it holds.                                                     *)
THEOREM TokenAndSessionsAgree == Spec => []SessionsAgreeWithToken
<1>1. ASSUME IInv
      PROVE  SessionsAgreeWithToken
  <2> SUFFICES ASSUME writer["TOKEN"] = None
               PROVE  \A h \in OpenHandles : private[h] <=> logged # Nobody
    BY DEF SessionsAgreeWithToken
  <2>1. \A t \in Threads : pc[t] # "spread"
    BY <1>1, CallLocksAssumption DEF IInv, ThreadOK
  <2> QED
    BY <1>1, <2>1 DEF IInv, Agreement
<1> QED
  BY <1>1, LocksInvariance, PTL

(* If the application calls none of the functions that wait for the token  *)
(* with their session locked, no calls wait for each other for ever.       *)
THEOREM DeadlockFree ==
  ASSUME {"SetPIN", "SignInit"} \cap Functions = {}
  PROVE  Spec => []NoDeadlock
<1>1. IInv /\ InOrder => NoDeadlock
  BY InOrderNoDeadlock
<1> QED
  BY <1>1, InitIInv, NextIInv, InOrderInit, InOrderNext, PTL DEF Spec
-----------------------------------------------------------------------------
(***************************************************************************)
(* CallLocks implements LoginContract.  A call changes what the contract   *)
(* sees in one step, TakeToken.  What the step relies on was found out     *)
(* before, under locks that C_Login and C_Logout have dropped: it is in    *)
(* ThreadOK, as the thread holds STATE and so nothing opens or closes.     *)
(***************************************************************************)
Logged      == [s \in {TheSlot} |-> logged]
Shown       == <<OpenSessions, Logged>>
OpenType    == [Handles -> {"closed", "RO", "RW"}]
ShownOf(o)  == [h \in Handles |-> IF o[h] = "closed" THEN NoSession
                                  ELSE [slot |-> TheSlot, rw |-> o[h] = "RW"]]

LEMMA ShownAre ==
  /\ OpenSessions = ShownOf(open) /\ OpenSessions' = ShownOf(open')
  /\ Logged[TheSlot] = logged /\ Logged'[TheSlot] = logged'
  BY DEF OpenSessions, ShownOf, Logged

LEMMA ShownSessions ==
  ASSUME NEW o \in OpenType
  PROVE  /\ \A h \in Handles : /\ ShownOf(o)[h] = NoSession <=> o[h] = "closed"
                               /\ o[h] # "closed" => /\ ShownOf(o)[h].slot = TheSlot
                                                     /\ ShownOf(o)[h].rw <=> o[h] = "RW"
         /\ Contract!On(ShownOf(o), TheSlot) = {h \in Handles : o[h] # "closed"}
<1>1. ASSUME NEW h \in Handles, o[h] # "closed"
      PROVE  /\ ShownOf(o)[h].slot = TheSlot /\ (ShownOf(o)[h].rw <=> o[h] = "RW")
             /\ ShownOf(o)[h] # NoSession
  <2>1. ShownOf(o)[h] = [slot |-> TheSlot, rw |-> o[h] = "RW"]
    BY <1>1 DEF ShownOf
  <2>2. ShownOf(o)[h].slot = TheSlot
    BY <2>1
  <2>3. ShownOf(o)[h].rw = (o[h] = "RW")
    BY <2>1
  <2>4. ShownOf(o)[h] # NoSession
    BY <2>2 DEF TheSlot, NoSession
  <2>5. ShownOf(o)[h].rw <=> o[h] = "RW"
    BY <2>3, Zenon
  <2> QED
    BY <2>2, <2>4, <2>5, Zenon
<1>2. \A h \in Handles : o[h] = "closed" => ShownOf(o)[h] = NoSession
  BY DEF ShownOf
<1> QED
  BY <1>1, <1>2 DEF Contract!On

LEMMA ShownInit == Init => Contract!Init
  BY DEF Init, Contract!Init, OpenSessions

LEMMA OpenShown ==
  ASSUME IInv, NEW c, c.rw \in BOOLEAN, OpenEffect(c)
  PROVE  [Contract!Next]_Shown
<1>1. CASE UNCHANGED data
  BY <1>1 DEF data, Shown, OpenSessions, Logged
<1>2. CASE ~((logged = "SO" /\ ~c.rw) \/ OpenHandles = Handles)
  <2>1. \E x \in Handles : open[x] = "closed"
    BY <1>2 DEF OpenHandles
  <2>2. PICK h \in Handles :
          /\ open[h] = "closed"
          /\ open' = [open EXCEPT ![h] = IF c.rw THEN "RW" ELSE "RO"]
          /\ logged' = logged
    BY <1>2, <2>1 DEF OpenEffect
  <2>3. open \in OpenType
    BY DEF IInv, TypeOK, OpenType
  <2>4. PICK new : new = [slot |-> TheSlot, rw |-> c.rw]
    OBVIOUS
  <2>5. new \in Contract!Sessions
    BY <2>4 DEF Contract!Sessions
  <2>6. OpenSessions[h] = NoSession
    BY <2>2, <2>3, ShownAre, ShownSessions
  <2>7. OpenSessions' = [OpenSessions EXCEPT ![h] = new]
    <3>1. \A g \in Handles : g # h => open'[g] = open[g]
      BY <2>2, <2>3 DEF OpenType
    <3>2. open'[h] # "closed" /\ (open'[h] = "RW") = c.rw
      BY <2>2, <2>3 DEF OpenType
    <3> QED
      BY <2>4, <3>1, <3>2 DEF OpenSessions
  <2>8. Logged' = Logged /\ (Logged[new.slot] = "SO" => new.rw)
    BY <1>2, <2>2, <2>4, ShownAre DEF Logged
  <2>9. Contract!Open(h, new)
    BY <2>6, <2>7, <2>8 DEF Contract!Open, Logged
  <2> QED
    BY <2>5, <2>9 DEF Contract!Next
<1> QED
  BY <1>1, <1>2 DEF OpenEffect

LEMMA CloseShown ==
  ASSUME IInv, NEW c, c.handle \in Handles, open[c.handle] # "closed", CloseEffect(c)
  PROVE  [Contract!Next]_Shown
<1>1. PICK h \in Handles : h = c.handle
  OBVIOUS
<1>2. /\ open' = [open EXCEPT ![h] = "closed"] /\ open[h] # "closed"
      /\ logged' = IF OpenHandles = {h} THEN Nobody ELSE logged
  BY <1>1 DEF CloseEffect
<1>3. open \in OpenType /\ open' \in OpenType
  BY <1>2 DEF IInv, TypeOK, OpenType
<1>4. OpenSessions' = [g \in Handles |-> IF g \in {h} THEN NoSession ELSE OpenSessions[g]]
  BY <1>2, <1>3 DEF OpenSessions, OpenType
<1>5. Contract!On(OpenSessions', TheSlot) = {} <=> OpenHandles = {h}
  <2>1. Contract!On(OpenSessions', TheSlot) = {g \in Handles : open'[g] # "closed"}
    BY <1>3, ShownAre, ShownSessions
  <2>2. \A g \in Handles : open'[g] # "closed" <=> g # h /\ open[g] # "closed"
    BY <1>2, <1>3 DEF OpenType
  <2> QED
    BY <1>2, <2>1, <2>2 DEF OpenHandles
<1>6. Logged' = [s \in {TheSlot} |->
                   IF Contract!On(OpenSessions', s) = {} THEN Nobody ELSE Logged[s]]
  BY <1>2, <1>5 DEF Logged
<1>7. Contract!Close({h})
  BY <1>4, <1>6 DEF Contract!Close, Logged
<1> QED
  BY <1>7 DEF Contract!Next

LEMMA TakeTokenShown ==
  ASSUME IInv, NEW t \in Threads, TakeToken(t)
  PROVE  [Contract!Next]_Shown
<1>1. PICK c : c = call[t]
  OBVIOUS
<1>2. /\ c.fn \in AllFunctions /\ c.rw \in BOOLEAN /\ c.user \in Users \cup {Nobody}
      /\ c.fn \notin {"OpenSession", "InitToken"} => c.handle \in Handles /\ open[c.handle] # "closed"
      /\ c.user # Nobody <=> c.fn = "Login"
      /\ c.user = "SO" => \A h \in Handles : open[h] # "RO"
  <2>1. pc[t] = "token" /\ InCall(t) /\ ThreadOK(t)
    BY DEF TakeToken, IInv, ThreadOK
  <2> QED
    BY <1>1, <2>1, CallFacts, CallLocksAssumption DEF ThreadOK
<1>3. CASE c.fn = "OpenSession"
  BY <1>1, <1>2, <1>3, OpenShown DEF TakeToken
<1>4. CASE c.fn = "CloseSession"
  BY <1>1, <1>2, <1>4, CloseShown DEF TakeToken
<1>5. CASE c.fn \notin {"OpenSession", "CloseSession"}
  <2>1. /\ open' = open
        /\ logged' = IF (c.fn = "Login" /\ logged = Nobody) \/ (c.fn = "Logout" /\ logged # Nobody)
                     THEN c.user ELSE logged
    BY <1>1, <1>5 DEF TakeToken
  <2>2. OpenSessions' = OpenSessions
    BY <2>1 DEF OpenSessions
  <2>3. CASE c.fn = "Login" /\ logged = Nobody
    <3>1. Logged' = [Logged EXCEPT ![TheSlot] = c.user] /\ Logged[TheSlot] = Nobody
      BY <2>1, <2>3 DEF Logged
    <3>2. open \in OpenType
      BY DEF IInv, TypeOK, OpenType
    <3>3. Contract!On(OpenSessions, TheSlot) # {}
      BY <1>2, <2>3, <3>2, ShownAre, ShownSessions
    <3>4. c.user = "SO" => \A h \in Contract!On(OpenSessions, TheSlot) : OpenSessions[h].rw
      <4> SUFFICES ASSUME c.user = "SO", NEW h \in Contract!On(OpenSessions, TheSlot)
                   PROVE  OpenSessions[h].rw
        OBVIOUS
      <4>1. h \in Handles /\ open[h] # "closed"
        BY <3>2, ShownAre, ShownSessions
      <4>2. open[h] = "RW"
        BY <1>2, <3>2, <4>1 DEF OpenType
      <4> QED
        BY <3>2, <4>1, <4>2, ShownAre, ShownSessions
    <3>5. Contract!LogIn(TheSlot, c.user)
      BY <2>2, <3>1, <3>3, <3>4 DEF Contract!LogIn, Logged
    <3>6. c.user \in Users
      BY <1>2, <2>3
    <3> QED
      BY <3>5, <3>6 DEF Contract!Next
  <2>4. CASE c.fn = "Logout" /\ logged # Nobody
    <3>1. c.user = Nobody
      BY <1>2, <2>4
    <3>2. Logged' = [Logged EXCEPT ![TheSlot] = Nobody]
      BY <2>1, <2>4, <3>1 DEF Logged
    <3>3. Contract!LogOut(TheSlot)
      BY <2>2, <3>2 DEF Contract!LogOut, Logged
    <3> QED
      BY <3>3 DEF Contract!Next
  <2>5. CASE logged' = logged
    BY <2>2, <2>5 DEF Shown, Logged
  <2> QED
    BY <2>1, <2>3, <2>4, <2>5
<1> QED
  BY <1>3, <1>4, <1>5

LEMMA ShownStep ==
  ASSUME IInv, [Next]_vars
  PROVE  [Contract!Next]_Shown
<1>1. ASSUME open' = open, logged' = logged PROVE UNCHANGED Shown
  BY <1>1 DEF Shown, OpenSessions, Logged
<1>2. ASSUME NEW t \in Threads, NEW fn \in Functions, NEW c \in Calls(fn), Start(t, c)
      PROVE  UNCHANGED Shown
  BY <1>1, <1>2 DEF Start, data
<1>3. ASSUME NEW t \in Threads, TakeState(t) \/ TakeSession(t) \/ Return(t)
      PROVE  UNCHANGED Shown
  BY <1>1, <1>3 DEF TakeState, TakeSession, Return, data
<1>4. ASSUME NEW t \in Threads, NEW h \in Handles, Scan(t, h)
      PROVE  UNCHANGED Shown
  BY <1>1, <1>4 DEF Scan, data
<1>5. ASSUME NEW t \in Threads, NEW h \in Handles, Spread(t, h)
      PROVE  UNCHANGED Shown
  <2>1. ~(call[t].user = "SO" /\ logged = "SO" /\ open[h] = "RO")
    BY DEF IInv, NoReadOnlySessionUnderSO, OpenHandles
  <2> QED
    BY <1>1, <1>5, <2>1 DEF Spread
<1>6. CASE UNCHANGED vars
  BY <1>1, <1>6 DEF vars, data
<1> QED
  BY <1>2, <1>3, <1>4, <1>5, <1>6, TakeTokenShown DEF Next, Step

(* Calls that overlap change sessions and logins as the contract allows    *)
(* (lib.rs, slot.rs, sessmgmt.rs), for any number of threads.              *)
THEOREM OverlappingCallsKeepTheContract == Spec => ImplementsLoginContract
<1>1. IInv /\ [Next]_vars => [Contract!Next]_Shown
  BY ShownStep
<1> QED
  BY <1>1, ShownInit, LocksInvariance, PTL
     DEF Spec, ImplementsLoginContract, Contract!Spec, Shown, Logged
-----------------------------------------------------------------------------
(***************************************************************************)
(* What CallsReturn needs besides fairness: a call that takes a step comes *)
(* closer to its end, one in a loop has a session left to visit, and some  *)
(* call can always go on.                                                  *)
(***************************************************************************)
Stage(label) ==
  CASE label = "state"   -> 6
    [] label = "session" -> 5
    [] label = "scan"    -> 4
    [] label = "token"   -> 3
    [] label = "spread"  -> 2
    [] label = "return"  -> 1
    [] OTHER             -> 0

Advances(t) ==
  \/ Stage(pc'[t]) < Stage(pc[t])
  \/ pc'[t] = pc[t] /\ todo'[t] \subseteq todo[t] /\ todo'[t] # todo[t]

Waits(u) == pc'[u] = pc[u] /\ todo'[u] = todo[u]

LoopsHaveWork == \A t \in Threads : pc[t] \in {"scan", "spread"} => todo[t] # {}

(* Nothing stands between t and its next step, whichever way the platform  *)
(* prefers writers.                                                        *)
GoesOn(t) ==
  \/ pc[t] = "return"
  \/ \E w \in Wants(t) : \A u \in Threads : ~InTheWay(u, w[1], w[2])

SomeCallGoesOn == (\E t \in Threads : pc[t] # "idle") => \E t \in Threads : GoesOn(t)

LEMMA LoopsInit == Init => LoopsHaveWork
  BY DEF Init, LoopsHaveWork

LEMMA LoopsStep == IInv /\ LoopsHaveWork /\ [Next]_vars => LoopsHaveWork'
<1> SUFFICES ASSUME IInv, LoopsHaveWork, [Next]_vars
             PROVE  LoopsHaveWork'
  OBVIOUS
<1>1. ASSUME NEW t \in Threads, \A u \in Threads \ {t} : Waits(u),
             pc'[t] \in {"scan", "spread"} => todo'[t] # {}
      PROVE  LoopsHaveWork'
  BY <1>1 DEF LoopsHaveWork, Waits
<1>2. ASSUME NEW t \in Threads, NEW fn \in Functions, NEW c \in Calls(fn), Start(t, c)
      PROVE  LoopsHaveWork'
  BY <1>1, <1>2 DEF Start, Goto, Waits, IInv, TypeOK
<1>3. ASSUME NEW t \in Threads, TakeState(t)
      PROVE  LoopsHaveWork'
  BY <1>1, <1>3 DEF TakeState, Goto, Waits, IInv, TypeOK
<1>4. ASSUME NEW t \in Threads, TakeSession(t)
      PROVE  LoopsHaveWork'
  <2>1. pc[t] = "session" /\ InCall(t) /\ ThreadOK(t)
    BY <1>4 DEF TakeSession, IInv, ThreadOK
  <2>2. call[t].handle \in OpenHandles
    BY <2>1, CallFacts, CallLocksAssumption DEF ThreadOK, OpenHandles
  <2>3. /\ pc'[t] \in {"return", "scan", "token"}
        /\ pc'[t] = "scan" => todo'[t] = OpenHandles
    BY <1>4 DEF TakeSession, Goto, IInv, TypeOK
  <2>4. \A u \in Threads \ {t} : Waits(u)
    BY <1>4 DEF TakeSession, Goto, Waits, IInv, TypeOK
  <2> QED
    BY <1>1, <2>2, <2>3, <2>4
<1>5. ASSUME NEW t \in Threads, NEW h \in Handles, Scan(t, h)
      PROVE  LoopsHaveWork'
  <2>1. /\ pc'[t] \in {"return", "token", "scan"}
        /\ pc'[t] = "scan" => todo[t] # {h}
        /\ h \in todo[t] /\ todo'[t] = todo[t] \ {h}
    BY <1>5 DEF Scan, Goto, IInv, TypeOK
  <2>2. \A u \in Threads \ {t} : Waits(u)
    BY <1>5 DEF Scan, Goto, Waits, IInv, TypeOK
  <2> QED
    BY <1>1, <2>1, <2>2
<1>6. ASSUME NEW t \in Threads, TakeToken(t)
      PROVE  LoopsHaveWork'
  <2>1. pc[t] = "token" /\ InCall(t) /\ ThreadOK(t)
    BY <1>6 DEF TakeToken, IInv, ThreadOK
  <2>2. /\ pc'[t] \in {"return", "spread"}
        /\ pc'[t] = "spread" => /\ call[t].fn \in {"Login", "Logout"}
                                /\ todo'[t] = OpenHandles
    BY <1>6 DEF TakeToken, Goto, IInv, TypeOK
  <2>3. call[t].fn \in {"Login", "Logout"} => call[t].handle \in OpenHandles
    BY <2>1, CallFacts, CallLocksAssumption DEF ThreadOK, OpenHandles
  <2>4. \A u \in Threads \ {t} : Waits(u)
    BY <1>6 DEF TakeToken, Goto, Waits, IInv, TypeOK
  <2> QED
    BY <1>1, <2>2, <2>3, <2>4
<1>7. ASSUME NEW t \in Threads, NEW h \in Handles, Spread(t, h)
      PROVE  LoopsHaveWork'
  <2>1. pc'[t] = IF todo'[t] = {} THEN "return" ELSE "spread"
    BY <1>7 DEF Spread, Goto, IInv, TypeOK
  <2>2. \A u \in Threads \ {t} : Waits(u)
    BY <1>7 DEF Spread, Goto, Waits, IInv, TypeOK
  <2> QED
    BY <1>1, <2>1, <2>2
<1>8. ASSUME NEW t \in Threads, Return(t)
      PROVE  LoopsHaveWork'
  BY <1>1, <1>8 DEF Return, Goto, Waits, IInv, TypeOK
<1>9. CASE UNCHANGED vars
  BY <1>9 DEF vars, LoopsHaveWork
<1> QED
  BY <1>2, <1>3, <1>4, <1>5, <1>6, <1>7, <1>8, <1>9 DEF Next, Step

(* A step goes on to a later stage or, in a loop, to the next session: the *)
(* loop that would start again, for a session that refuses an SO login,    *)
(* never finds one.                                                        *)
LEMMA StepAdvances ==
  ASSUME IInv, NEW t \in Threads, Step(t)
  PROVE  Advances(t) /\ \A u \in Threads \ {t} : Waits(u)
<1>1. CASE TakeState(t)
  <2>1. pc[t] = "state" /\ pc'[t] \in {"return", "token", "session"}
    BY <1>1 DEF TakeState, Goto, IInv, TypeOK
  <2> QED
    BY <1>1, <2>1 DEF TakeState, Goto, Waits, Advances, Stage, IInv, TypeOK
<1>2. CASE TakeSession(t)
  <2>1. pc[t] = "session" /\ pc'[t] \in {"return", "token", "scan"}
    BY <1>2 DEF TakeSession, Goto, IInv, TypeOK
  <2> QED
    BY <1>2, <2>1 DEF TakeSession, Goto, Waits, Advances, Stage, IInv, TypeOK
<1>3. ASSUME NEW h \in Handles, Scan(t, h)
      PROVE  Advances(t) /\ \A u \in Threads \ {t} : Waits(u)
  <2>1. /\ pc[t] = "scan" /\ pc'[t] \in {"return", "token", "scan"}
        /\ h \in todo[t] /\ todo'[t] = todo[t] \ {h}
    BY <1>3 DEF Scan, Goto, IInv, TypeOK
  <2>2. \A u \in Threads \ {t} : Waits(u)
    BY <1>3 DEF Scan, Goto, Waits, IInv, TypeOK
  <2> QED
    BY <2>1, <2>2 DEF Advances, Stage
<1>4. CASE TakeToken(t)
  <2>1. pc[t] = "token" /\ pc'[t] \in {"return", "spread"}
    BY <1>4 DEF TakeToken, Goto, IInv, TypeOK
  <2>2. \A u \in Threads \ {t} : Waits(u)
    BY <1>4 DEF TakeToken, Goto, Waits, IInv, TypeOK
  <2> QED
    BY <2>1, <2>2 DEF Advances, Stage
<1>5. ASSUME NEW h \in Handles, Spread(t, h)
      PROVE  Advances(t) /\ \A u \in Threads \ {t} : Waits(u)
  <2>1. ~(call[t].user = "SO" /\ logged = "SO" /\ open[h] = "RO")
    BY DEF IInv, NoReadOnlySessionUnderSO, OpenHandles
  <2>2. /\ pc[t] = "spread" /\ pc'[t] \in {"return", "spread"}
        /\ h \in todo[t] /\ todo'[t] = todo[t] \ {h}
    BY <1>5, <2>1 DEF Spread, Goto, IInv, TypeOK
  <2>3. \A u \in Threads \ {t} : Waits(u)
    BY <1>5 DEF Spread, Goto, Waits, IInv, TypeOK
  <2> QED
    BY <2>2, <2>3 DEF Advances, Stage
<1>6. CASE Return(t)
  <2>1. pc[t] = "return" /\ pc'[t] = "idle"
    BY <1>6 DEF Return, Goto, IInv, TypeOK
  <2> QED
    BY <1>6, <2>1 DEF Return, Goto, Waits, Advances, Stage, IInv, TypeOK
<1> QED
  BY <1>1, <1>2, <1>3, <1>4, <1>5, <1>6 DEF Step

LEMMA InOrderGoesOn ==
  ASSUME IInv, InOrder, LoopsHaveWork
  PROVE  SomeCallGoesOn
<1> SUFFICES ASSUME \E t \in Threads : pc[t] # "idle",
                    \A t \in Threads : pc[t] # "return"
             PROVE  \E t \in Threads : GoesOn(t)
  BY DEF SomeCallGoesOn, GoesOn
<1> DEFINE D == {t \in Threads : pc[t] # "idle"}
<1>1. D \in (SUBSET Threads) \ {{}}
  OBVIOUS
<1>2. \A t \in D : InCall(t) /\ pc[t] \in {"state", "session", "scan", "token", "spread"}
  BY DEF IInv, TypeOK, ThreadOK
<1>3. \A t \in D : Wants(t) # {}
  <2> SUFFICES ASSUME NEW t \in D
               PROVE  Wants(t) # {}
    OBVIOUS
  <2>1. CASE pc[t] \in {"state", "session", "token"}
    BY <2>1 DEF Wants
  <2>2. CASE pc[t] \in {"scan", "spread"}
    <3>1. PICK h \in todo[t] : TRUE
      BY <2>2 DEF LoopsHaveWork
    <3>2. <<h, "R">> \in Wants(t) \/ <<h, "W">> \in Wants(t)
      BY <2>2, <3>1 DEF Wants
    <3> QED
      BY <3>2
  <2> QED
    BY <1>2, <2>1, <2>2
<1>4. PICK t \in D : \E w \in Wants(t) : \A u \in D : ~InTheWay(u, w[1], w[2])
  BY <1>1, <1>3, InOrderNoDeadlock DEF NoDeadlock
<1>5. PICK w \in Wants(t) : \A u \in D : ~InTheWay(u, w[1], w[2])
  BY <1>4
<1>6. w[1] \in Locks
  <2>1. CASE pc[t] = "state" \/ pc[t] = "token"
    BY <1>5, <2>1, LockNames DEF Wants
  <2>2. CASE pc[t] = "session"
    <3>1. call[t].handle \in Handles
      BY <1>2, <2>2, CallFacts DEF IInv, ThreadOK
    <3> QED
      BY <1>5, <2>2, <3>1, LockNames DEF Wants
  <2>3. CASE pc[t] \in {"scan", "spread"}
    <3>1. w[1] \in todo[t]
      BY <1>5, <2>3 DEF Wants
    <3> QED
      BY <3>1, LockNames DEF IInv, TypeOK
  <2> QED
    BY <1>2, <2>1, <2>2, <2>3
<1>7. \A u \in Threads \ D : ~InTheWay(u, w[1], w[2])
  <2> SUFFICES ASSUME NEW u \in Threads \ D
               PROVE  ~InTheWay(u, w[1], w[2])
    OBVIOUS
  <2>1. pc[u] = "idle" /\ Wants(u) = {}
    BY DEF Wants
  <2>2. ~Holds(u, w[1])
    BY <1>6, <2>1 DEF InOrder, Past, Locks
  <2> QED
    BY <2>1, <2>2 DEF InTheWay, Holds
<1> QED
  BY <1>5, <1>7 DEF GoesOn
-----------------------------------------------------------------------------
(* Every step of a call brings it closer to its return and keeps the other *)
(* calls where they are, so a call takes a bounded number of steps.        *)
THEOREM CallsAdvance ==
  Spec => [][\A t \in Threads : Step(t) => Advances(t) /\ \A u \in Threads \ {t} : Waits(u)]_vars
<1>1. IInv /\ [Next]_vars =>
        [\A t \in Threads : Step(t) => Advances(t) /\ \A u \in Threads \ {t} : Waits(u)]_vars
  BY StepAdvances
<1> QED
  BY <1>1, LocksInvariance, PTL DEF Spec

(* A call in one of its loops over the sessions has one left to visit:     *)
(* has_ro_sessions and change_session_states leave none behind.            *)
THEOREM LoopsNeverRunDry == Spec => []LoopsHaveWork
<1> QED
  BY LocksInvariance, LoopsInit, LoopsStep, PTL DEF Spec

(* As long as some call has not returned, one of them finds the lock it    *)
(* waits for free: the locks hold up nobody for ever.                      *)
THEOREM SomeCallAlwaysGoesOn ==
  ASSUME {"SetPIN", "SignInit"} \cap Functions = {}
  PROVE  Spec => []SomeCallGoesOn
<1>1. IInv /\ InOrder /\ LoopsHaveWork => SomeCallGoesOn
  BY InOrderGoesOn
<1> QED
  BY <1>1, LocksInvariance, LoopsNeverRunDry, InOrderInit, InOrderNext, PTL DEF Spec
=============================================================================
