--------------------------- MODULE Objects_proofs ---------------------------
(***************************************************************************)
(* For any number of sessions, objects and handles: an inductive invariant *)
(* of Objects, and its four state properties.                              *)
(*                                                                         *)
(* TypeOK and HandlesKeepTheirObject are not inductive as they stand: that *)
(* the next handle is free, and that a new object has no handle yet, need  *)
(* to be known of every step of a call.  TokOK says it of the handles,     *)
(* session objects and database in between the steps too, as a pair of     *)
(* keys is made and undone.                                                *)
(***************************************************************************)
EXTENDS Objects, FiniteSetTheorems, TLAPS

(* What holds of an object kept in memory.                                 *)
HeldOK(o, open, log) ==
  /\ ~o.token
  /\ o.session \in open \cup {None}
  /\ o.session = None => ~o.private
  /\ o.private /\ o.login => log

TokOK(tk, obj, open, log) ==
  /\ tk \in Tok
  /\ \A h \in ObjHandles :
       /\ tk.handles[h] # None =>
            /\ h < tk.next
            /\ obj[tk.handles[h]] # None
            /\ \A g \in ObjHandles : tk.handles[g] = tk.handles[h] => g = h
       /\ tk.held[h] # None => /\ tk.held[h] = tk.handles[h]
                               /\ HeldOK(obj[tk.held[h]], open, log)
  /\ \A u \in tk.db : obj[u] # None /\ obj[u].token

(* Handles are given from next on; those before it are kept or forgotten.  *)
Grows(tk, tk2) ==
  /\ tk.next <= tk2.next
  /\ \A h \in ObjHandles : h < tk.next => tk2.handles[h] \in {None, tk.handles[h]}

IssuedOK(tk, iss) ==
  /\ iss \in HandleMap
  /\ \A h \in ObjHandles : /\ tk.handles[h] \in {None, iss[h]}
                           /\ iss[h] # None => h < tk.next

BasicTypes ==
  /\ sessions \in [SessionHandles -> {"closed", "RO", "RW"}]
  /\ logged \in BOOLEAN
  /\ object \in [Uids -> Object \cup {None}]
  /\ last \in {"other", "failed", "half", "RO"}

ReachedOK == \A u \in reached : u \in Uids /\ object[u] # None

(* One built in belongs to no session and no login.                        *)
BuiltinOK ==
  /\ object[Builtin] # None
  /\ ~object[Builtin].token /\ ~object[Builtin].private
  /\ object[Builtin].session = None

IInv ==
  /\ BasicTypes
  /\ BuiltinOK
  /\ TokOK(tok, object, Open, logged)
  /\ IssuedOK(tok, issued)
  /\ ReachedOK
  /\ PrivateNeedsLogin
-----------------------------------------------------------------------------
LEMMA NoneFacts ==
  /\ None \notin Uids /\ None \notin Object /\ None \notin SessionHandles
  /\ MaxHandle \in Nat \ {0} /\ MaxUid \in Nat \ {0}
  /\ Uids \subseteq Nat /\ ObjHandles \subseteq Nat
  BY ObjectsAssumption DEF Uids, ObjHandles

LEMMA TokFields ==
  ASSUME NEW tk \in Tok
  PROVE  /\ tk.handles \in [ObjHandles -> Uids \cup {None}]
         /\ tk.held \in [ObjHandles -> Uids \cup {None}]
         /\ tk.next \in 1..(MaxHandle + 1) /\ tk.next \in Nat
         /\ tk.db \subseteq Uids
  BY ObjectsAssumption DEF Tok, HandleMap

LEMMA InsertedFields ==
  ASSUME NEW tk \in Tok, NEW u \in Uids, NEW t, NEW stored,
         tk.next <= MaxHandle, NEW tk2, tk2 = Inserted(tk, u, t, stored)
  PROVE  /\ tk2 \in Tok
         /\ tk.next \in ObjHandles
         /\ tk2.next = tk.next + 1
         /\ tk2.handles = [tk.handles EXCEPT ![tk.next] = u]
         /\ t.token => tk2.held = tk.held /\ tk2.db \in {tk.db, tk.db \cup {u}}
         /\ ~t.token => tk2.held = [tk.held EXCEPT ![tk.next] = u] /\ tk2.db = tk.db
<1> DEFINE n    == tk.next
           with == WithHandle(tk, u)
<1>1. n \in ObjHandles /\ n + 1 \in 1..(MaxHandle + 1)
  BY TokFields, ObjectsAssumption DEF ObjHandles
<1>2. /\ with \in Tok /\ with.next = n + 1 /\ with.held = tk.held /\ with.db = tk.db
      /\ with.handles = [tk.handles EXCEPT ![n] = u]
  BY <1>1 DEF WithHandle, NextHandle, Tok, HandleMap
<1> HIDE DEF with
<1>3. CASE t.token
  <2>1. Inserted(tk, u, t, stored) = [with EXCEPT !.db = IF stored THEN @ \cup {u} ELSE @]
    BY <1>3 DEF Inserted, with
  <2> QED
    BY <1>1, <1>2, <1>3, <2>1 DEF Tok
<1>4. CASE ~t.token
  <2>1. Inserted(tk, u, t, stored) = [with EXCEPT !.held[n] = u]
    BY <1>4 DEF Inserted, with, NextHandle
  <2>2. [tk.held EXCEPT ![n] = u] \in HandleMap
    BY <1>1, TokFields DEF HandleMap
  <2> QED
    BY <1>1, <1>2, <1>4, <2>1, <2>2 DEF Tok
<1> QED
  BY <1>3, <1>4

(* insert_object of a new object keeps the three maps in step.             *)
LEMMA InsertedOK ==
  ASSUME NEW obj \in [Uids -> Object \cup {None}], NEW open, NEW log,
         NEW tk, TokOK(tk, obj, open, log), NEW u \in Uids, obj[u] = None,
         NEW t, NEW stored, tk.next <= MaxHandle,
         NEW o \in Object, o.token = t.token, ~o.token => HeldOK(o, open, log)
  PROVE  /\ TokOK(Inserted(tk, u, t, stored), [obj EXCEPT ![u] = o], open, log)
         /\ Grows(tk, Inserted(tk, u, t, stored))
<1> DEFINE tk2  == Inserted(tk, u, t, stored)
           obj2 == [obj EXCEPT ![u] = o]
           n    == tk.next
<1>1. tk \in Tok
  BY DEF TokOK
<1>2. /\ tk2 \in Tok /\ n \in ObjHandles /\ n \in Nat
      /\ tk2.next = n + 1
      /\ tk2.handles = [tk.handles EXCEPT ![n] = u]
      /\ t.token => tk2.held = tk.held /\ tk2.db \in {tk.db, tk.db \cup {u}}
      /\ ~t.token => tk2.held = [tk.held EXCEPT ![n] = u] /\ tk2.db = tk.db
  <2>1. tk.next \in Nat
    BY <1>1, TokFields
  <2>2. tk2 = Inserted(tk, u, t, stored)
    OBVIOUS
  <2> HIDE DEF tk2
  <2> QED
    BY <1>1, <2>1, <2>2, InsertedFields
<1> HIDE DEF tk2
<1>3. /\ tk.handles \in [ObjHandles -> Uids \cup {None}]
      /\ tk.held \in [ObjHandles -> Uids \cup {None}]
  BY <1>1, TokFields
<1>4. obj2[u] = o /\ o # None /\ \A w \in Uids \ {u} : obj2[w] = obj[w]
  BY NoneFacts
<1> HIDE DEF obj2
<1>5. \A h \in ObjHandles : tk.handles[h] # u
  BY NoneFacts DEF TokOK
<1>6. \A h \in ObjHandles \ {n} : tk2.handles[h] = tk.handles[h] /\ tk2.held[h] = tk.held[h]
  BY <1>2, <1>3
<1>7. tk.handles[n] = None /\ tk.held[n] = None
  <2>1. ~(n < n)
    BY <1>2
  <2> QED
    BY <1>2, <2>1 DEF TokOK
<1>8. /\ tk2.handles[n] = u
      /\ tk2.held[n] = IF t.token THEN None ELSE u
  BY <1>2, <1>3, <1>7
<1>9. ASSUME NEW h \in ObjHandles, tk2.handles[h] # None
      PROVE  /\ h < tk2.next
             /\ obj2[tk2.handles[h]] # None
             /\ \A g \in ObjHandles : tk2.handles[g] = tk2.handles[h] => g = h
  <2>1. CASE h = n
    BY <2>1, <1>2, <1>4, <1>5, <1>6, <1>8, NoneFacts
  <2>2. CASE h # n
    <3>1. /\ tk2.handles[h] = tk.handles[h] /\ tk.handles[h] # None
          /\ tk.handles[h] \in Uids \ {u} /\ h < n /\ obj[tk.handles[h]] # None
      BY <2>2, <1>3, <1>5, <1>6, <1>9 DEF TokOK
    <3>2. \A g \in ObjHandles : tk2.handles[g] = tk2.handles[h] => g = h
      BY <3>1, <1>6, <1>8 DEF TokOK
    <3>3. h < tk2.next
      BY <3>1, <1>2, NoneFacts
    <3> QED
      BY <3>1, <3>2, <3>3, <1>4
  <2> QED
    BY <2>1, <2>2
<1>10. ASSUME NEW h \in ObjHandles, tk2.held[h] # None
       PROVE  /\ tk2.held[h] = tk2.handles[h]
              /\ HeldOK(obj2[tk2.held[h]], open, log)
  <2>1. CASE h = n
    BY <2>1, <1>4, <1>8, <1>10
  <2>2. CASE h # n
    <3>1. tk.held[h] # None /\ tk.held[h] = tk.handles[h] /\ HeldOK(obj[tk.held[h]], open, log)
      BY <2>2, <1>6, <1>10 DEF TokOK
    <3>2. tk.held[h] \in Uids \ {u}
      BY <3>1, <1>3, <1>5
    <3> QED
      BY <2>2, <3>1, <3>2, <1>4, <1>6
  <2> QED
    BY <2>1, <2>2
<1>11. ASSUME NEW w \in tk2.db
       PROVE  obj2[w] # None /\ obj2[w].token
  <2>1. tk.db \subseteq Uids
    BY <1>1, TokFields
  <2>2. CASE w \in tk.db
    BY <2>1, <2>2, <1>4 DEF TokOK
  <2>3. CASE w \notin tk.db
    BY <2>3, <1>2, <1>4, <1>11
  <2> QED
    BY <2>2, <2>3
<1>12. TokOK(tk2, obj2, open, log)
  BY <1>2, <1>9, <1>10, <1>11 DEF TokOK
<1>13. Grows(tk, tk2)
  BY <1>2, <1>6, NoneFacts DEF Grows
<1> QED
  BY <1>12, <1>13 DEF tk2, obj2

LEMMA DroppedFields ==
  ASSUME NEW tk \in Tok, NEW hs
  PROVE  LET tk2 == Dropped(tk, hs) IN
         /\ tk2 \in Tok /\ tk2.next = tk.next /\ tk2.db = tk.db
         /\ \A h \in ObjHandles : /\ tk2.handles[h] = IF h \in hs THEN None ELSE tk.handles[h]
                                  /\ tk2.held[h] = IF h \in hs THEN None ELSE tk.held[h]
<1> DEFINE handles == [h \in ObjHandles |-> IF h \in hs THEN None ELSE tk.handles[h]]
           held    == [h \in ObjHandles |-> IF h \in hs THEN None ELSE tk.held[h]]
<1>1. handles \in HandleMap /\ held \in HandleMap
  BY TokFields DEF HandleMap
<1>2. Dropped(tk, hs) = [tk EXCEPT !.handles = handles, !.held = held]
  BY DEF Dropped
<1>3. \A h \in ObjHandles : /\ handles[h] = IF h \in hs THEN None ELSE tk.handles[h]
                            /\ held[h] = IF h \in hs THEN None ELSE tk.held[h]
  OBVIOUS
<1> HIDE DEF handles, held
<1> QED
  BY <1>1, <1>2, <1>3 DEF Tok

(* Objects that go, with the session or the login they depend on.          *)
LEMMA DroppedOK ==
  ASSUME NEW obj, NEW open, NEW log, NEW open2, NEW log2,
         NEW tk, TokOK(tk, obj, open, log), NEW hs,
         \A h \in ObjHandles \ hs : tk.held[h] # None => HeldOK(obj[tk.held[h]], open2, log2)
  PROVE  TokOK(Dropped(tk, hs), obj, open2, log2) /\ Grows(tk, Dropped(tk, hs))
<1> DEFINE tk2 == Dropped(tk, hs)
<1>1. tk \in Tok
  BY DEF TokOK
<1>2. /\ tk2 \in Tok /\ tk2.next = tk.next /\ tk2.db = tk.db
      /\ \A h \in ObjHandles : /\ tk2.handles[h] = IF h \in hs THEN None ELSE tk.handles[h]
                               /\ tk2.held[h] = IF h \in hs THEN None ELSE tk.held[h]
  BY <1>1, DroppedFields
<1> HIDE DEF tk2
<1>3. tk.next \in Nat
  BY <1>1, TokFields
<1>4. TokOK(tk2, obj, open2, log2)
  BY <1>2 DEF TokOK
<1>5. Grows(tk, tk2)
  BY <1>2, <1>3 DEF Grows
<1> QED
  BY <1>4, <1>5 DEF tk2

LEMMA DestroyedOK ==
  ASSUME NEW obj, NEW open, NEW log, NEW tk, TokOK(tk, obj, open, log), NEW j,
         NEW removed
  PROVE  TokOK(Destroyed(tk, j, removed), obj, open, log) /\ Grows(tk, Destroyed(tk, j, removed))
<1> DEFINE tk1 == Dropped(tk, {j})
           tk2 == Destroyed(tk, j, removed)
<1>1. TokOK(tk1, obj, open, log) /\ Grows(tk, tk1)
  <2>1. \A h \in ObjHandles \ {j} : tk.held[h] # None => HeldOK(obj[tk.held[h]], open, log)
    BY DEF TokOK
  <2> QED
    BY <2>1, DroppedOK, Zenon
<1>2. PICK db \in SUBSET tk1.db : tk2 = [tk1 EXCEPT !.db = db]
  <2>1. tk2 = [tk1 EXCEPT !.db = IF tk.held[j] = None /\ removed THEN @ \ {tk.handles[j]} ELSE @]
    BY DEF Destroyed
  <2>2. CASE tk.held[j] = None /\ removed
    BY <2>1, <2>2
  <2>3. CASE ~(tk.held[j] = None /\ removed)
    BY <2>1, <2>3
  <2> QED
    BY <2>2, <2>3
<1> HIDE DEF tk1, tk2
<1>3. /\ tk2 \in Tok /\ tk2.next = tk1.next /\ tk2.handles = tk1.handles
      /\ tk2.held = tk1.held /\ tk2.db \subseteq tk1.db
  BY <1>1, <1>2 DEF TokOK, Tok
<1> QED
  BY <1>1, <1>3 DEF TokOK, Grows, tk2

(* The step of the history that keeps what each handle was given to.       *)
LEMMA BecomesOK ==
  ASSUME IInv, NEW tk, Becomes(tk), Grows(tok, tk), TokOK(tk, object', Open', logged')
  PROVE  TokOK(tok', object', Open', logged') /\ IssuedOK(tok', issued')
<1>1. tok' = tk /\ issued' = [h \in ObjHandles |-> IF issued[h] # None THEN issued[h]
                                                   ELSE tk.handles[h]]
  BY DEF Becomes
<1>2. tk.handles \in [ObjHandles -> Uids \cup {None}] /\ tk.next \in Nat
      /\ issued \in [ObjHandles -> Uids \cup {None}] /\ tok.next \in Nat
  BY TokFields DEF TokOK, IInv, IssuedOK, HandleMap
<1>3. issued' \in HandleMap
  BY <1>1, <1>2 DEF HandleMap
<1>4. ASSUME NEW h \in ObjHandles
      PROVE  /\ tk.handles[h] \in {None, issued'[h]}
             /\ issued'[h] # None => h < tk.next
  <2>1. CASE issued[h] # None
    <3>1. issued'[h] = issued[h] /\ h < tok.next /\ h \in Nat
      BY <2>1, <1>1, NoneFacts DEF IInv, IssuedOK
    <3>2. tk.handles[h] \in {None, issued[h]}
      BY <3>1 DEF Grows, IInv, IssuedOK
    <3>3. h < tk.next
      BY <3>1, <1>2 DEF Grows
    <3> QED
      BY <3>1, <3>2, <3>3
  <2>2. CASE issued[h] = None
    BY <2>2, <1>1 DEF TokOK
  <2> QED
    BY <2>1, <2>2
<1> QED
  BY <1>1, <1>3, <1>4 DEF IssuedOK

(* What NewObject makes of a template.                                     *)
LEMMA NewObjectOK ==
  ASSUME BasicTypes, NEW s \in Open, NEW t,
         t.token \in BOOLEAN, t.private \in BOOLEAN, t.destroyable \in BOOLEAN
  PROVE  /\ NewObject(s, t) \in Object
         /\ NewObject(s, t).token = t.token
         /\ ~t.token => HeldOK(NewObject(s, t), Open, logged)
  BY NoneFacts DEF NewObject, Object, HeldOK, Open, BasicTypes

(* A handle names a session object, or one in the database.                *)
LEMMA NamedFacts ==
  ASSUME IInv, NEW h \in ObjHandles, Named(h) # None
  PROVE  /\ Named(h) \in Uids /\ Named(h) = tok.handles[h]
         /\ object[Named(h)] \in Object
<1>1. tok.handles \in [ObjHandles -> Uids \cup {None}] /\ tok.held \in [ObjHandles -> Uids \cup {None}]
  BY TokFields DEF IInv, TokOK
<1>2. Named(h) \in Uids /\ Named(h) = tok.handles[h]
  BY <1>1 DEF Named, IInv, TokOK
<1>3. object[tok.handles[h]] # None
  BY <1>2 DEF IInv, TokOK
<1> QED
  BY <1>2, <1>3 DEF IInv, BasicTypes

(* More sessions, or a login: nothing that was right becomes wrong.        *)
LEMMA MoreOpen ==
  ASSUME NEW obj, NEW open, NEW log, NEW open2, NEW log2, NEW tk,
         TokOK(tk, obj, open, log), open \subseteq open2, log => log2
  PROVE  TokOK(tk, obj, open2, log2)
  BY DEF TokOK, HeldOK

(* Objects made that no handle and no database has yet, or changed in what *)
(* TokOK does not speak of.                                                *)
LEMMA OthersMade ==
  ASSUME NEW obj, NEW obj2, NEW open, NEW log, NEW tk, TokOK(tk, obj, open, log),
         \A u \in Uids : obj[u] # None =>
           /\ obj2[u] # None /\ obj2[u].token = obj[u].token
           /\ obj2[u].session = obj[u].session /\ obj2[u].login = obj[u].login
           /\ obj[u].token \/ obj2[u].private = obj[u].private
  PROVE  TokOK(tk, obj2, open, log)
<1>1. /\ tk.handles \in [ObjHandles -> Uids \cup {None}] /\ tk.held \in [ObjHandles -> Uids \cup {None}]
      /\ tk.db \subseteq Uids
  BY TokFields DEF TokOK
<1>2. ASSUME NEW h \in ObjHandles, tk.handles[h] # None
      PROVE  obj2[tk.handles[h]] # None
  BY <1>1, <1>2 DEF TokOK
<1>3. ASSUME NEW h \in ObjHandles, tk.held[h] # None
      PROVE  HeldOK(obj2[tk.held[h]], open, log)
  <2>1. /\ tk.held[h] \in Uids /\ HeldOK(obj[tk.held[h]], open, log)
        /\ obj[tk.held[h]] # None
    BY <1>1, <1>3 DEF TokOK
  <2> QED
    BY <2>1 DEF HeldOK
<1>4. ASSUME NEW u \in tk.db
      PROVE  obj2[u] # None /\ obj2[u].token
  BY <1>1 DEF TokOK
<1> QED
  BY <1>2, <1>3, <1>4 DEF TokOK

LEMMA GrowsFurther ==
  ASSUME NEW tk, NEW tk2, NEW tk3, tk.next \in Nat, tk2.next \in Nat, tk3.next \in Nat,
         Grows(tk, tk2), Grows(tk2, tk3)
  PROVE  Grows(tk, tk3)
  BY NoneFacts DEF Grows

(* A call or a session's end leaves the handles issued as they were.       *)
LEMMA IssuedKept ==
  ASSUME NEW iss, NEW obj, NEW open, NEW log, NEW tk, TokOK(tk, obj, open, log),
         NEW tk0, IssuedOK(tk0, iss), Grows(tk0, tk), tk.next = tk0.next
  PROVE  IssuedOK(tk, iss)
<1>1. ASSUME NEW h \in ObjHandles
      PROVE  tk.handles[h] \in {None, iss[h]}
  BY DEF TokOK, Grows, IssuedOK
<1> QED
  BY <1>1 DEF IssuedOK

(* A call that fails, or only reads.                                       *)
LEMMA Undisturbed ==
  ASSUME IInv, UNCHANGED <<sessions, logged, tok, object, issued>>,
         last' \in {"other", "failed", "half", "RO"}, ReachedOK', PrivateNeedsLogin'
  PROVE  IInv'
  BY DEF IInv, BasicTypes, BuiltinOK, Open

LEMMA NoneReached ==
  ASSUME NEW what, what \in {"other", "failed", "half", "RO"}, Answer(what, {})
  PROVE  last' \in {"other", "failed", "half", "RO"} /\ ReachedOK' /\ PrivateNeedsLogin'
  BY DEF Answer, ReachedOK, PrivateNeedsLogin

LEMMA ReadOnlyType ==
  ASSUME NEW s
  PROVE  ReadOnly(s) \in {"other", "failed", "half", "RO"}
  BY DEF ReadOnly

(* What a handle gives access to is no private token object, without a     *)
(* login.                                                                  *)
LEMMA OneReached ==
  ASSUME IInv, NEW h \in ObjHandles, Gets(h), reached' = {Named(h)}, logged' = logged,
         object'[Named(h)] # None,
         object'[Named(h)].token = object[Named(h)].token,
         object'[Named(h)].private = object[Named(h)].private
  PROVE  ReachedOK' /\ PrivateNeedsLogin'
<1>1. Named(h) \in Uids /\ ~Hidden(object[Named(h)])
  BY NamedFacts DEF Gets
<1> QED
  BY <1>1 DEF ReachedOK, PrivateNeedsLogin, Hidden
-----------------------------------------------------------------------------
(* Token::new and Token::initialize.                                       *)
LEMMA StartedOK ==
  ASSUME NEW obj, obj[Builtin] # None, ~obj[Builtin].token, ~obj[Builtin].private,
         obj[Builtin].session = None, NEW open, NEW log,
         NEW db \in SUBSET Uids, \A u \in db : obj[u] # None /\ obj[u].token
  PROVE  /\ TokOK(Started(db), obj, open, log)
         /\ IssuedOK(Started(db), Started(db).handles)
<1> DEFINE tk == Started(db)
<1>1. 1 \in ObjHandles /\ Builtin \in Uids /\ 2 \in 1..(MaxHandle + 1)
  BY NoneFacts DEF Builtin, Uids, ObjHandles
<1>2. /\ tk.next = 2 /\ tk.db = db /\ tk.held = tk.handles
      /\ tk.handles = [NoHandle EXCEPT ![1] = Builtin]
  BY DEF Started
<1>3. tk.handles \in HandleMap
  BY <1>1, <1>2 DEF HandleMap, NoHandle
<1>4. tk \in Tok
  BY <1>1, <1>3 DEF Started, Tok
<1>5. \A h \in ObjHandles : tk.handles[h] = IF h = 1 THEN Builtin ELSE None
  BY <1>1, <1>2 DEF NoHandle
<1>6. Builtin # None
  BY <1>1, NoneFacts
<1> HIDE DEF tk
<1>7. HeldOK(obj[Builtin], open, log)
  BY DEF HeldOK
<1>8. TokOK(tk, obj, open, log)
  BY <1>2, <1>4, <1>5, <1>6, <1>7 DEF TokOK
<1>9. IssuedOK(tk, tk.handles)
  BY <1>2, <1>3, <1>5 DEF IssuedOK
<1> QED
  BY <1>8, <1>9 DEF tk

LEMMA InitIInv ==
  ASSUME Init
  PROVE  IInv
<1>1. /\ sessions \in [SessionHandles -> {"closed", "RO", "RW"}]
      /\ logged = FALSE /\ last = "other" /\ reached = {}
      /\ tok = Started({}) /\ issued = tok.handles
  BY DEF Init
<1>2. /\ object \in [Uids -> Object \cup {None}]
      /\ object[Builtin] \in Object /\ ~object[Builtin].token /\ ~object[Builtin].private
      /\ object[Builtin].session = None
  BY NoneFacts DEF Init, Builtin, Uids, Object
<1>3. BasicTypes /\ ReachedOK /\ PrivateNeedsLogin /\ BuiltinOK
  BY <1>1, <1>2, NoneFacts DEF BasicTypes, ReachedOK, PrivateNeedsLogin, BuiltinOK
<1>4. TokOK(tok, object, Open, logged) /\ IssuedOK(tok, issued)
  BY <1>1, <1>2, NoneFacts, StartedOK
<1> QED
  BY <1>3, <1>4 DEF IInv
-----------------------------------------------------------------------------
LEMMA OpenSessionIInv ==
  ASSUME IInv, NEW s \in SessionHandles, NEW mode \in {"RO", "RW"}, OpenSession(s, mode)
  PROVE  IInv'
<1>1. last' \in {"other", "failed", "half", "RO"} /\ ReachedOK' /\ PrivateNeedsLogin'
  BY NoneReached DEF OpenSession, Quietly
<1>2. BasicTypes' /\ BuiltinOK'
  BY <1>1 DEF IInv, BasicTypes, BuiltinOK, OpenSession
<1>3. Open \subseteq Open' /\ UNCHANGED <<tok, object, issued, logged>>
  BY DEF OpenSession, Open, IInv, BasicTypes
<1>4. TokOK(tok, object, Open', logged)
  BY <1>3, MoreOpen DEF IInv
<1> QED
  BY <1>1, <1>2, <1>3, <1>4 DEF IInv

LEMMA CloseSessionIInv ==
  ASSUME IInv, NEW s \in SessionHandles, CloseSession(s)
  PROVE  IInv'
<1> DEFINE logout == Open = {s} /\ logged
           hs     == SessionObjects(s) \cup IF logout THEN PrivateObjects ELSE {}
<1>1. last' \in {"other", "failed", "half", "RO"} /\ ReachedOK' /\ PrivateNeedsLogin'
  BY NoneReached DEF CloseSession, Quietly
<1>2. BasicTypes' /\ BuiltinOK'
  BY <1>1 DEF IInv, BasicTypes, BuiltinOK, CloseSession
<1>3. Open' = Open \ {s}
  BY DEF CloseSession, Open, IInv, BasicTypes
<1>4. ASSUME NEW h \in ObjHandles \ hs, tok.held[h] # None
      PROVE  HeldOK(object[tok.held[h]], Open', logged')
  <2>1. HeldOK(object[tok.held[h]], Open, logged)
    BY <1>4 DEF IInv, TokOK
  <2>2. object[tok.held[h]].session # s
    BY <1>4 DEF SessionObjects, OwnedBy
  <2>3. CASE logout
    <3>1. ~object[tok.held[h]].private
      BY <1>4, <2>1, <2>3 DEF PrivateObjects, HeldOK
    <3> QED
      BY <1>3, <2>1, <2>2, <3>1 DEF HeldOK
  <2>4. CASE ~logout
    <3>1. logged' = logged
      BY <2>4 DEF CloseSession, IInv, BasicTypes
    <3> QED
      BY <1>3, <2>1, <2>2, <3>1 DEF HeldOK
  <2> QED
    BY <2>3, <2>4
<1>5. tok' = Dropped(tok, hs) /\ UNCHANGED <<object, issued>>
  BY DEF CloseSession
<1> HIDE DEF hs
<1>6. TokOK(tok', object, Open', logged') /\ Grows(tok, tok')
  BY <1>4, <1>5, DroppedOK DEF IInv
<1>7. tok'.next = tok.next
  BY <1>5, DroppedFields DEF IInv, TokOK
<1>8. IssuedOK(tok', issued)
  BY <1>6, <1>7, IssuedKept DEF IInv
<1> QED
  BY <1>1, <1>2, <1>5, <1>6, <1>8 DEF IInv

LEMMA LoginIInv ==
  ASSUME IInv, Login
  PROVE  IInv'
<1>1. last' \in {"other", "failed", "half", "RO"} /\ ReachedOK' /\ PrivateNeedsLogin'
  BY NoneReached DEF Login, Quietly
<1>2. BasicTypes' /\ BuiltinOK'
  BY <1>1 DEF IInv, BasicTypes, BuiltinOK, Login
<1>3. Open' = Open /\ logged' /\ UNCHANGED <<tok, object, issued>>
  BY DEF Login, Open
<1>4. TokOK(tok, object, Open, logged')
  BY <1>3, MoreOpen DEF IInv
<1> QED
  BY <1>1, <1>2, <1>3, <1>4 DEF IInv

LEMMA LogoutIInv ==
  ASSUME IInv, Logout
  PROVE  IInv'
<1>1. last' \in {"other", "failed", "half", "RO"} /\ ReachedOK' /\ PrivateNeedsLogin'
  BY NoneReached DEF Logout, Quietly
<1>2. BasicTypes' /\ BuiltinOK'
  BY <1>1 DEF IInv, BasicTypes, BuiltinOK, Logout
<1>3. Open' = Open /\ ~logged' /\ tok' = Dropped(tok, PrivateObjects) /\ UNCHANGED <<object, issued>>
  BY DEF Logout, Open
<1>4. ASSUME NEW h \in ObjHandles \ PrivateObjects, tok.held[h] # None
      PROVE  HeldOK(object[tok.held[h]], Open, logged')
  BY <1>4 DEF IInv, TokOK, PrivateObjects, HeldOK
<1>5. TokOK(tok', object, Open, logged') /\ Grows(tok, tok')
  BY <1>3, <1>4, DroppedOK DEF IInv
<1>6. tok'.next = tok.next
  BY <1>3, DroppedFields DEF IInv, TokOK
<1>7. IssuedOK(tok', issued)
  BY <1>5, <1>6, IssuedKept DEF IInv
<1> QED
  BY <1>1, <1>2, <1>3, <1>5, <1>7 DEF IInv

(* What is true of the token's counter even past its bound.                *)
Counts == [handles : HandleMap, next : Nat, held : HandleMap, db : SUBSET Uids]

LEMMA InsertedNext ==
  ASSUME NEW tk \in Counts, NEW u \in Uids, NEW t, NEW stored
  PROVE  /\ Inserted(tk, u, t, stored) \in Counts
         /\ Inserted(tk, u, t, stored).next = tk.next + 1
<1> DEFINE with == WithHandle(tk, u)
<1>1. with \in Counts /\ with.next = tk.next + 1
  <2> DEFINE handles == [tk.handles EXCEPT ![tk.next] = u]
  <2>1. handles \in HandleMap
    BY DEF Counts, HandleMap
  <2>2. with = [tk EXCEPT !.handles = handles, !.next = tk.next + 1]
    BY DEF WithHandle, NextHandle
  <2> HIDE DEF handles, with
  <2>3. tk.next + 1 \in Nat
    BY DEF Counts
  <2> QED
    BY <2>1, <2>2, <2>3 DEF Counts
<1>2. [with.held EXCEPT ![tk.next] = u] \in HandleMap
  BY <1>1 DEF Counts, HandleMap
<1> HIDE DEF with
<1>3. CASE t.token
  <2>1. Inserted(tk, u, t, stored) = [with EXCEPT !.db = IF stored THEN @ \cup {u} ELSE @]
    BY <1>3 DEF Inserted, with
  <2> QED
    BY <1>1, <2>1 DEF Counts
<1>4. CASE ~t.token
  <2>1. Inserted(tk, u, t, stored) = [with EXCEPT !.held[tk.next] = u]
    BY <1>4 DEF Inserted, with, NextHandle
  <2> QED
    BY <1>1, <1>2, <2>1 DEF Counts
<1> QED
  BY <1>3, <1>4

LEMMA DestroyedNext ==
  ASSUME NEW tk \in Counts, NEW h, NEW removed
  PROVE  Destroyed(tk, h, removed).next = tk.next
<1> DEFINE hs == {h}
           handles == [g \in ObjHandles |-> IF g \in hs THEN None ELSE tk.handles[g]]
           held    == [g \in ObjHandles |-> IF g \in hs THEN None ELSE tk.held[g]]
           tk1     == [tk EXCEPT !.handles = handles, !.held = held]
<1>1. Dropped(tk, hs) = tk1
  BY DEF Dropped
<1> HIDE DEF handles, held
<1>2. tk1 \in [handles : {handles}, next : {tk.next}, held : {held}, db : {tk.db}]
  BY DEF Counts
<1>3. Destroyed(tk, h, removed) = [tk1 EXCEPT !.db = IF tk.held[h] = None /\ removed
                                                     THEN @ \ {tk.handles[h]} ELSE @]
  BY <1>1 DEF Destroyed
<1> QED
  BY <1>2, <1>3

LEMMA TokCounts ==
  /\ Tok \subseteq Counts
  /\ \A tk \in Counts : tk.next <= MaxHandle + 1 /\ tk.next >= 1 => tk \in Tok
  BY NoneFacts DEF Tok, Counts

(* The call handed a handle for the object it made.                        *)
LEMMA OneMade ==
  ASSUME IInv, NEW u \in Uids, object[u] = None, NEW t, NEW stored,
         Becomes(Inserted(tok, u, t, stored)),
         NEW o \in Object, o.token = t.token, ~o.token => HeldOK(o, Open, logged),
         object' = [object EXCEPT ![u] = o],
         sessions' = sessions, logged' = logged,
         last' \in {"other", "failed", "half", "RO"}, ReachedOK', PrivateNeedsLogin'
  PROVE  IInv'
<1> DEFINE tk == Inserted(tok, u, t, stored)
<1>1. tok \in Tok /\ tok \in Counts /\ object \in [Uids -> Object \cup {None}]
      /\ logged \in BOOLEAN /\ TokOK(tok, object, Open, logged)
  BY TokCounts DEF IInv, TokOK, BasicTypes
<1>2. tok.next <= MaxHandle
  <2>1. tok.next \in Nat /\ tk.next = tok.next + 1 /\ tk.next <= MaxHandle + 1
    BY <1>1, TokFields, InsertedNext DEF Becomes
  <2> QED
    BY <2>1, NoneFacts
<1>4. TokOK(tk, [object EXCEPT ![u] = o], Open, logged) /\ Grows(tok, tk)
  BY <1>1, <1>2, InsertedOK
<1>5. Open' = Open
  BY DEF Open
<1> HIDE DEF tk
<1>6. TokOK(tok', object', Open', logged') /\ IssuedOK(tok', issued')
  BY <1>4, <1>5, BecomesOK DEF tk
<1>7. BasicTypes'
  BY <1>1, <1>5 DEF IInv, BasicTypes
<1>8. BuiltinOK'
  BY <1>1, <1>5, NoneFacts DEF IInv, BuiltinOK, Builtin, Uids
<1> QED
  BY <1>6, <1>7, <1>8 DEF IInv

LEMMA MakeIInv ==
  ASSUME IInv, NEW s \in SessionHandles, NEW u \in Uids, NEW t \in Template,
         NEW stored, Make(s, u, t, stored)
  PROVE  IInv'
<1>1. s \in Open /\ object[u] = None /\ sessions' = sessions /\ logged' = logged
      /\ t.token \in BOOLEAN /\ t.private \in BOOLEAN /\ t.destroyable \in BOOLEAN
  BY DEF Make, Fresh, Template
<1>2. CASE Refuses(s, t.token) \/ (t.token /\ ~logged)
  <2>1. last' \in {"other", "failed", "half", "RO"} /\ ReachedOK' /\ PrivateNeedsLogin'
    BY <1>2, NoneReached DEF Make, Failing
  <2> QED
    BY <1>1, <1>2, <2>1, Undisturbed DEF Make
<1>3. CASE ~(Refuses(s, t.token) \/ (t.token /\ ~logged))
  <2>1. /\ Becomes(Inserted(tok, u, t, stored))
        /\ object' = [object EXCEPT ![u] = NewObject(s, t)]
        /\ Answer(IF t.token => stored THEN ReadOnly(s) ELSE "failed", {})
    BY <1>3 DEF Make
  <2>2. last' \in {"other", "failed", "half", "RO"} /\ ReachedOK' /\ PrivateNeedsLogin'
    BY <2>1, ReadOnlyType, NoneReached
  <2> DEFINE o == NewObject(s, t)
  <2>3. o \in Object /\ o.token = t.token /\ (~o.token => HeldOK(o, Open, logged))
    BY <1>1, NewObjectOK DEF IInv
  <2>4. object' = [object EXCEPT ![u] = o]
    BY <2>1
  <2> HIDE DEF o
  <2> QED
    BY <1>1, <2>1, <2>2, <2>3, <2>4, OneMade
<1> QED
  BY <1>2, <1>3

(* A call whose effect on the handles is known.                            *)
LEMMA CallOK ==
  ASSUME IInv, NEW tk, Becomes(tk), Grows(tok, tk), TokOK(tk, object', Open, logged),
         sessions' = sessions, logged' = logged,
         object' \in [Uids -> Object \cup {None}], object'[Builtin] = object[Builtin],
         last' \in {"other", "failed", "half", "RO"}, ReachedOK', PrivateNeedsLogin'
  PROVE  IInv'
<1>1. Open' = Open
  BY DEF Open
<1>2. TokOK(tok', object', Open', logged') /\ IssuedOK(tok', issued')
  BY <1>1, BecomesOK
<1>3. BasicTypes' /\ BuiltinOK'
  BY DEF IInv, BasicTypes, BuiltinOK
<1> QED
  BY <1>2, <1>3 DEF IInv

(* Two objects at once, the first of which may have to be taken back.      *)
LEMMA MakeBothIInv ==
  ASSUME IInv, NEW s \in SessionHandles, NEW u \in Uids, NEW v \in Uids,
         NEW t1 \in Template, NEW t2 \in Template, NEW stored, NEW answer,
         s \in Open, object[u] = None, object[v] = None, u # v,
         sessions' = sessions, logged' = logged,
         ~(t1.token /\ ~logged),
         MakeBoth(s, u, v, t1, t2, stored, answer)
  PROVE  IInv'
<1> DEFINE first  == Inserted(tok, u, t1, TRUE)
           refused == t2.token /\ ~logged
           second == IF refused THEN first ELSE Inserted(first, v, t2, stored)
           ok     == t2.token => logged /\ stored
           keeps  == ok \/ ~Undone(t1, answer)
           final  == IF keeps THEN second
                     ELSE Destroyed(second, NextHandle(tok), answer = "removed")
           what   == IF ~ok THEN IF t1.token /\ answer # "removed" THEN "half" ELSE "failed"
                     ELSE IF t2.token THEN "other" ELSE ReadOnly(s)
           o1     == NewObject(s, t1)
           o2     == NewObject(s, t2)
           obj1   == [object EXCEPT ![u] = o1]
           obj2   == [obj1 EXCEPT ![v] = o2]
<1>0. /\ t1.token \in BOOLEAN /\ t1.private \in BOOLEAN /\ t1.destroyable \in BOOLEAN
      /\ t2.token \in BOOLEAN /\ t2.private \in BOOLEAN /\ t2.destroyable \in BOOLEAN
  BY DEF Template
<1>1. Becomes(final) /\ object' = obj2 /\ Answer(what, {})
  BY DEF MakeBoth, TakenBack
<1>2. last' \in {"other", "failed", "half", "RO"} /\ ReachedOK' /\ PrivateNeedsLogin'
  BY <1>1, ReadOnlyType, NoneReached DEF what
<1>3. /\ o1 \in Object /\ o1.token = t1.token /\ (~o1.token => HeldOK(o1, Open, logged))
      /\ o2 \in Object /\ o2.token = t2.token /\ (~o2.token => HeldOK(o2, Open, logged))
  BY <1>0, NewObjectOK DEF IInv
<1> HIDE DEF o1, o2, ok, keeps, refused, what
<1>4. tok \in Tok /\ tok \in Counts /\ object \in [Uids -> Object \cup {None}]
      /\ TokOK(tok, object, Open, logged) /\ tok.next \in Nat
  BY TokCounts, TokFields DEF IInv, TokOK, BasicTypes
<1>5. /\ obj1 \in [Uids -> Object \cup {None}] /\ obj1[v] = None
      /\ obj2 \in [Uids -> Object \cup {None}]
      /\ obj2[Builtin] = object[Builtin]
  BY <1>0, <1>3, <1>4, NoneFacts DEF IInv, BuiltinOK, Builtin, Uids
<1>6. first \in Counts /\ first.next = tok.next + 1
  BY <1>4, InsertedNext
<1>7. second \in Counts /\ second.next >= first.next /\ (~refused => second.next = first.next + 1)
  <2>1. first.next \in Nat
    BY <1>6 DEF Counts
  <2> HIDE DEF first
  <2>2. CASE refused
    BY <1>6, <2>1, <2>2
  <2>3. CASE ~refused
    BY <1>6, <2>1, <2>3, InsertedNext
  <2> QED
    BY <2>2, <2>3
<1>8. final.next = second.next
  <2> HIDE DEF second
  <2>1. Destroyed(second, NextHandle(tok), answer = "removed").next = second.next
    BY <1>7, DestroyedNext
  <2> QED
    BY <2>1
<1>9. tok.next <= MaxHandle /\ (~refused => first.next <= MaxHandle)
  <2>1. final.next <= MaxHandle + 1 /\ first.next \in Nat /\ second.next \in Nat
    BY <1>1, <1>6, <1>7 DEF Becomes, Counts
  <2> HIDE DEF final, first, second
  <2> QED
    BY <1>4, <1>6, <1>7, <1>8, <2>1, NoneFacts
<1>10. TokOK(first, obj1, Open, logged) /\ Grows(tok, first)
  <2> HIDE DEF first
  <2>1. tok.next <= MaxHandle
    BY <1>9
  <2>2. first = Inserted(tok, u, t1, TRUE)
    BY DEF first
  <2> QED
    BY <1>0, <1>3, <1>4, <2>1, <2>2, InsertedOK
<1>11. TokOK(second, obj2, Open, logged) /\ Grows(tok, second)
  <2> HIDE DEF first, obj1
  <2>1. CASE refused
    <3>1. TokOK(first, obj2, Open, logged)
      <4>1. \A w \in Uids : obj1[w] # None => obj2[w] = obj1[w]
        BY <1>5
      <4> HIDE DEF obj2
      <4> QED
        BY <1>10, <4>1, OthersMade
    <3> QED
      BY <1>10, <2>1, <3>1
  <2>2. CASE ~refused
    <3>1. TokOK(second, obj2, Open, logged) /\ Grows(first, second)
      BY <1>3, <1>5, <1>9, <1>10, <2>2, InsertedOK
    <3>2. first.next \in Nat /\ second.next \in Nat
      BY <1>6, <1>7 DEF Counts
    <3> HIDE DEF second
    <3> QED
      BY <1>4, <1>10, <3>1, <3>2, GrowsFurther
  <2> QED
    BY <2>1, <2>2
<1>12. TokOK(final, obj2, Open, logged) /\ Grows(tok, final)
  <2> HIDE DEF second, obj2
  <2>1. CASE keeps
    BY <1>11, <2>1
  <2>2. CASE ~keeps
    <3>1. TokOK(final, obj2, Open, logged) /\ Grows(second, final)
      BY <1>11, <2>2, DestroyedOK
    <3>2. second.next \in Nat /\ final.next \in Nat
      BY <1>7, <1>8 DEF Counts
    <3> HIDE DEF final
    <3> QED
      BY <1>4, <1>11, <3>1, <3>2, GrowsFurther
  <2> QED
    BY <2>1, <2>2
<1> HIDE DEF final, obj2
<1> QED
  BY <1>0, <1>1, <1>2, <1>5, <1>12, CallOK

LEMMA MakePairIInv ==
  ASSUME IInv, NEW s \in SessionHandles, NEW u \in Uids, NEW v \in Uids,
         NEW t1 \in Template, NEW t2 \in Template, NEW stored, NEW answer,
         MakePair(s, u, v, t1, t2, stored, answer) \/ DeriveMore(s, u, v, t1, t2, stored, answer)
  PROVE  IInv'
<1>1. /\ s \in Open /\ object[u] = None /\ object[v] = None /\ u # v
      /\ sessions' = sessions /\ logged' = logged
  BY NoneFacts DEF MakePair, DeriveMore, Fresh
<1>2. \/ Failing /\ UNCHANGED <<tok, object, issued>>
      \/ ~(t1.token /\ ~logged) /\ MakeBoth(s, u, v, t1, t2, stored, answer)
  BY DEF MakePair, DeriveMore
<1>3. CASE Failing /\ UNCHANGED <<tok, object, issued>>
  <2>1. last' \in {"other", "failed", "half", "RO"} /\ ReachedOK' /\ PrivateNeedsLogin'
    BY <1>3, NoneReached DEF Failing
  <2> QED
    BY <1>1, <1>3, <2>1, Undisturbed
<1> QED
  BY <1>1, <1>2, <1>3, MakeBothIInv

LEMMA CopyIInv ==
  ASSUME IInv, NEW s \in SessionHandles, NEW h \in ObjHandles, NEW u \in Uids,
         NEW says \in {"same", "token", "session"}, NEW private, private \in BOOLEAN,
         NEW stored, Copy(s, h, u, says, private, stored)
  PROVE  IInv'
<1> DEFINE orig == object[Named(h)]
           t    == [orig EXCEPT !.token = IF says = "same" THEN @ ELSE says = "token",
                                !.private = private]
           what == IF t.token /\ ~stored THEN "failed"
                   ELSE IF says = "same" THEN "other" ELSE ReadOnly(s)
           o    == NewObject(s, t)
           refused == \/ Refuses(s, says = "token")
                      \/ Named(h) \in {None, Builtin}
                      \/ ~MayCopy(orig)
                      \/ t.token /\ ~logged
<1>1. s \in Open /\ object[u] = None /\ sessions' = sessions /\ logged' = logged
  BY DEF Copy, Fresh
<1>2. CASE refused
  <2>1. Failing /\ UNCHANGED <<tok, object, issued>>
    BY <1>2 DEF Copy
  <2>2. last' \in {"other", "failed", "half", "RO"} /\ ReachedOK' /\ PrivateNeedsLogin'
    BY <2>1, NoneReached DEF Failing
  <2> QED
    BY <1>1, <2>1, <2>2, Undisturbed
<1>3. CASE ~refused
  <2>1. /\ Becomes(Inserted(tok, u, t, stored))
        /\ object' = [object EXCEPT ![u] = o]
        /\ Answer(what, {Named(h)})
    BY <1>3 DEF Copy
  <2>2. Named(h) # None /\ MayCopy(orig)
    BY <1>3
  <2>3. Named(h) \in Uids /\ orig \in Object /\ Named(h) # u
    BY <1>1, <2>2, NamedFacts, NoneFacts
  <2>4. t.token \in BOOLEAN /\ t.private \in BOOLEAN /\ t.destroyable \in BOOLEAN
    <3> HIDE DEF orig
    <3> QED
      BY <2>3 DEF Object
  <2>5. o \in Object /\ o.token = t.token /\ (~o.token => HeldOK(o, Open, logged))
    <3> HIDE DEF t
    <3> QED
      BY <1>1, <2>4, NewObjectOK DEF IInv
  <2>6. last' \in {"other", "failed", "half", "RO"} /\ ReachedOK' /\ PrivateNeedsLogin'
    <3>1. what \in {"other", "failed", "half", "RO"}
      BY ReadOnlyType
    <3>2. reached' = {Named(h)} /\ object'[Named(h)] = orig /\ last' = what
      BY <2>1, <2>3 DEF Answer
    <3> HIDE DEF what
    <3> QED
      BY <1>1, <2>2, <2>3, <3>1, <3>2, NoneFacts DEF ReachedOK, PrivateNeedsLogin, MayCopy
  <2> HIDE DEF o, t
  <2> QED
    BY <1>1, <2>1, <2>5, <2>6, OneMade
<1> QED
  BY <1>2, <1>3

LEMMA DestroyIInv ==
  ASSUME IInv, NEW s \in SessionHandles, NEW h \in ObjHandles, NEW removed,
         Destroy(s, h, removed)
  PROVE  IInv'
<1> DEFINE tk   == Destroyed(tok, h, removed)
           does == LET o == object[Named(h)] IN
                   Gets(h) /\ ~(o.token /\ sessions[s] = "RO") /\ o.destroyable
<1>1. sessions' = sessions /\ logged' = logged /\ object' = object
  BY DEF Destroy
<1>2. CASE ~does
  <2>1. Failing /\ UNCHANGED <<tok, issued>>
    BY <1>2 DEF Destroy
  <2>2. last' \in {"other", "failed", "half", "RO"} /\ ReachedOK' /\ PrivateNeedsLogin'
    BY <2>1, NoneReached DEF Failing
  <2> QED
    BY <1>1, <2>1, <2>2, Undisturbed
<1>3. CASE does
  <2>1. Becomes(tk) /\ Answer(ReadOnly(s), {Named(h)}) /\ Gets(h)
    BY <1>3 DEF Destroy
  <2>2. last' \in {"other", "failed", "half", "RO"}
    BY <2>1, ReadOnlyType DEF Answer
  <2>3. ReachedOK' /\ PrivateNeedsLogin'
    <3>1. Gets(h) /\ reached' = {Named(h)}
      BY <2>1 DEF Answer
    <3>2. object[Named(h)] # None
      BY <3>1, NamedFacts, NoneFacts DEF Gets
    <3>3. /\ object'[Named(h)] # None
          /\ object'[Named(h)].token = object[Named(h)].token
          /\ object'[Named(h)].private = object[Named(h)].private
      BY <1>1, <3>2
    <3> QED
      BY <1>1, <3>1, <3>3, OneReached
  <2>4. TokOK(tk, object, Open, logged) /\ Grows(tok, tk)
    BY DestroyedOK DEF IInv
  <2>5. object \in [Uids -> Object \cup {None}]
    BY DEF IInv, BasicTypes
  <2> HIDE DEF tk
  <2> QED
    BY <1>1, <2>1, <2>2, <2>3, <2>4, <2>5, CallOK
<1> QED
  BY <1>2, <1>3

LEMMA UseIInv ==
  ASSUME IInv, NEW s \in SessionHandles, NEW h \in ObjHandles, Use(s, h)
  PROVE  IInv'
<1>1. UNCHANGED <<sessions, logged, tok, object, issued>>
  BY DEF Use
<1>2. CASE ~Gets(h)
  <2>1. last' \in {"other", "failed", "half", "RO"} /\ ReachedOK' /\ PrivateNeedsLogin'
    BY <1>2, NoneReached DEF Use, Failing
  <2> QED
    BY <1>1, <2>1, Undisturbed
<1>3. CASE Gets(h)
  <2>1. last' \in {"other", "failed", "half", "RO"} /\ reached' = {Named(h)}
    BY <1>3, ReadOnlyType DEF Use, Answer
  <2>2. object[Named(h)] # None
    BY <1>3, NamedFacts, NoneFacts DEF Gets
  <2>3. ReachedOK' /\ PrivateNeedsLogin'
    BY <1>1, <1>3, <2>1, <2>2, OneReached
  <2> QED
    BY <1>1, <2>1, <2>3, Undisturbed
<1> QED
  BY <1>2, <1>3

LEMMA SetAttributeIInv ==
  ASSUME IInv, NEW s \in SessionHandles, NEW h \in ObjHandles,
         NEW destroyable, destroyable \in BOOLEAN, NEW stored,
         SetAttribute(s, h, destroyable, stored)
  PROVE  IInv'
<1> DEFINE w    == Named(h)
           does == Gets(h) /\ (object[w].token => logged /\ sessions[s] = "RW" /\ stored)
<1>1. UNCHANGED <<sessions, logged, tok, issued>> /\ w # Builtin
  BY DEF SetAttribute
<1>2. CASE ~does
  <2>1. Failing /\ UNCHANGED object
    BY <1>2 DEF SetAttribute
  <2>2. last' \in {"other", "failed", "half", "RO"} /\ ReachedOK' /\ PrivateNeedsLogin'
    BY <2>1, NoneReached DEF Failing
  <2> QED
    BY <1>1, <2>1, <2>2, Undisturbed
<1>3. CASE does
  <2>1. /\ object' = [object EXCEPT ![w].destroyable = destroyable]
        /\ Answer(ReadOnly(s), {w}) /\ Gets(h)
    BY <1>3 DEF SetAttribute
  <2>2. w \in Uids /\ object[w] \in Object
    BY <2>1, NamedFacts DEF Gets
  <2>3. object \in [Uids -> Object \cup {None}]
    BY DEF IInv, BasicTypes
  <2> HIDE DEF w
  <2>4. /\ object' \in [Uids -> Object \cup {None}]
        /\ object'[w] \in Object /\ object'[w].token = object[w].token
        /\ object'[w].session = object[w].session /\ object'[w].private = object[w].private
        /\ object'[w].login = object[w].login
        /\ \A u \in Uids \ {w} : object'[u] = object[u]
    BY <2>1, <2>2, <2>3 DEF Object
  <2>5. last' \in {"other", "failed", "half", "RO"} /\ reached' = {w}
    BY <2>1, ReadOnlyType DEF Answer
  <2>6. ReachedOK' /\ PrivateNeedsLogin'
    BY <1>1, <2>1, <2>4, <2>5, NoneFacts, OneReached DEF w
  <2>7. TokOK(tok, object', Open, logged)
    <3>1. \A u \in Uids : object[u] # None =>
            /\ object'[u] # None /\ object'[u].token = object[u].token
            /\ object'[u].session = object[u].session /\ object'[u].private = object[u].private
            /\ object'[u].login = object[u].login
      BY <2>4, NoneFacts
    <3>2. TokOK(tok, object, Open, logged)
      BY DEF IInv
    <3> QED
      BY <3>1, <3>2, OthersMade
  <2>8. object'[Builtin] = object[Builtin]
    BY <1>1, <2>4, NoneFacts DEF Builtin, Uids, w
  <2> QED
    BY <1>1, <2>4, <2>5, <2>6, <2>7, <2>8 DEF IInv, BasicTypes, BuiltinOK, Open
<1> QED
  BY <1>2, <1>3

(* Handles for several objects that have none yet: the next handles, each  *)
(* to an object of its own.                                                *)
LEMMA HandedOK ==
  ASSUME IInv, NEW us \in SUBSET Uids,
         \A u \in us : object[u] # None /\ \A h \in ObjHandles : tok.handles[h] # u,
         NEW tk \in Handed(tok, us), tk.next <= MaxHandle + 1
  PROVE  TokOK(tk, object, Open, logged) /\ Grows(tok, tk)
<1> DEFINE n == tok.next
           c == Cardinality(us)
<1>1. /\ tok.handles \in [ObjHandles -> Uids \cup {None}] /\ tok \in Tok
      /\ n \in 1..(MaxHandle + 1) /\ n \in Nat
  BY TokFields DEF IInv, TokOK
<1>2. c \in Nat
  <2>1. IsFiniteSet(Uids)
    BY FS_Interval, NoneFacts DEF Uids
  <2> QED
    BY <2>1, FS_Subset, FS_CardinalityType
<1> HIDE DEF c
<1>3. PICK given \in Bijection(n..(n + c - 1), us) :
        tk = [tok EXCEPT !.handles = [h \in ObjHandles |-> IF h \in DOMAIN given THEN given[h]
                                                            ELSE tok.handles[h]],
                         !.next = @ + c]
  BY DEF Handed, c
<1> DEFINE D == n..(n + c - 1)
           handles == [h \in ObjHandles |-> IF h \in DOMAIN given THEN given[h] ELSE tok.handles[h]]
<1>4. given \in [D -> us] /\ \A a, b \in D : given[a] = given[b] => a = b
  BY DEF Bijection, Injection, IsInjective
<1>5. \A h \in ObjHandles : handles[h] = IF h \in D THEN given[h] ELSE tok.handles[h]
  BY <1>4
<1>6. handles \in HandleMap
  BY <1>1, <1>4 DEF HandleMap
<1> HIDE DEF handles
<1>7. tk = [tok EXCEPT !.handles = handles, !.next = n + c]
  BY <1>3 DEF handles
<1>8. /\ tk.handles = handles /\ tk.next = n + c /\ tk.held = tok.held /\ tk.db = tok.db
      /\ n + c \in 1..(MaxHandle + 1) /\ n + c \in Nat
  <2>1. tk.handles = handles /\ tk.next = n + c /\ tk.held = tok.held /\ tk.db = tok.db
    BY <1>1, <1>7 DEF Tok
  <2>2. n + c \in Nat /\ n + c >= n
    BY <1>1, <1>2
  <2> QED
    BY <1>1, <2>1, <2>2, NoneFacts
<1>9. tk \in Tok
  BY <1>1, <1>6, <1>7, <1>8 DEF Tok
<1>10. \A h \in ObjHandles : h < n => h \notin D
  BY <1>1, <1>2, NoneFacts
<1>11. \A h \in ObjHandles : tok.handles[h] # None => h < n
  BY DEF IInv, TokOK
<1>12. ASSUME NEW h \in ObjHandles, tk.handles[h] # None
       PROVE  /\ h < tk.next
              /\ object[tk.handles[h]] # None
              /\ \A g \in ObjHandles : tk.handles[g] = tk.handles[h] => g = h
  <2>1. CASE h \in D
    <3>1. tk.handles[h] = given[h] /\ given[h] \in us /\ h < n + c
      BY <1>1, <1>2, <1>4, <1>5, <1>8, <2>1
    <3>2. ASSUME NEW g \in ObjHandles, tk.handles[g] = tk.handles[h]
          PROVE  g = h
      <4>1. g \in D
        BY <1>5, <1>8, <3>1, <3>2
      <4> QED
        BY <1>4, <1>5, <1>8, <2>1, <3>1, <3>2, <4>1
    <3> QED
      BY <1>8, <3>1, <3>2
  <2>2. CASE h \notin D
    <3>1. tk.handles[h] = tok.handles[h] /\ tok.handles[h] # None
      BY <1>5, <1>8, <1>12, <2>2
    <3>2. h < n /\ object[tok.handles[h]] # None
      BY <3>1 DEF IInv, TokOK
    <3>3. ASSUME NEW g \in ObjHandles, tk.handles[g] = tk.handles[h]
          PROVE  g = h
      <4>1. g \notin D
        BY <1>4, <1>5, <1>8, <3>1, <3>3
      <4>2. tok.handles[g] = tok.handles[h]
        BY <1>5, <1>8, <3>1, <3>3, <4>1
      <4> QED
        BY <3>1, <4>2 DEF IInv, TokOK
    <3>4. h < n + c
      BY <1>1, <1>2, <3>2, NoneFacts
    <3> QED
      BY <1>8, <3>1, <3>2, <3>3, <3>4
  <2> QED
    BY <2>1, <2>2
<1>13. ASSUME NEW h \in ObjHandles, tk.held[h] # None
       PROVE  tk.held[h] = tk.handles[h] /\ HeldOK(object[tk.held[h]], Open, logged)
  <2>1. /\ tok.held[h] = tok.handles[h] /\ tok.handles[h] # None
        /\ HeldOK(object[tok.held[h]], Open, logged)
    BY <1>8, <1>13 DEF IInv, TokOK
  <2>2. h \notin D
    BY <1>10, <1>11, <2>1
  <2> QED
    BY <1>5, <1>8, <2>1, <2>2
<1>14. TokOK(tk, object, Open, logged)
  BY <1>8, <1>9, <1>12, <1>13 DEF IInv, TokOK
<1>15. Grows(tok, tk)
  BY <1>1, <1>2, <1>5, <1>8, <1>10 DEF Grows
<1> QED
  BY <1>14, <1>15

LEMMA FindIInv ==
  ASSUME IInv, NEW s \in SessionHandles, Find(s)
  PROVE  IInv'
<1>1. PICK tk \in Handed(tok, Handleless(Found)) : Becomes(tk)
  BY DEF Find
<1>2. /\ sessions' = sessions /\ logged' = logged /\ object' = object
      /\ Answer(ReadOnly(s), Found)
  BY DEF Find
<1>3. \A u \in Found : /\ u \in Uids /\ object[u] # None
                       /\ logged \/ ~object[u].private
  BY TokFields DEF Found, IInv, TokOK
<1>4. last' \in {"other", "failed", "half", "RO"} /\ ReachedOK' /\ PrivateNeedsLogin'
  BY <1>2, <1>3, ReadOnlyType DEF Answer, ReachedOK, PrivateNeedsLogin
<1>5. /\ Handleless(Found) \in SUBSET Uids
      /\ \A u \in Handleless(Found) :
           object[u] # None /\ \A h \in ObjHandles : tok.handles[h] # u
  BY <1>3 DEF Handleless
<1>6. tk.next <= MaxHandle + 1
  BY <1>1 DEF Becomes
<1>7. TokOK(tk, object, Open, logged) /\ Grows(tok, tk)
  BY <1>5, <1>6, HandedOK
<1>8. object \in [Uids -> Object \cup {None}]
  BY DEF IInv, BasicTypes
<1> QED
  BY <1>1, <1>2, <1>4, <1>7, <1>8, CallOK

LEMMA CreateAgainIInv ==
  ASSUME IInv, NEW s \in SessionHandles, NEW t \in Template, NEW us \in SUBSET tok.db,
         CreateAgain(s, t, us)
  PROVE  IInv'
<1>1. PICK tk \in Handed(tok, Handleless(us)) : Becomes(tk)
  BY DEF CreateAgain
<1>2. sessions' = sessions /\ logged' = logged /\ logged
  BY DEF CreateAgain
<1>3. \A u \in us : u \in Uids /\ object[u] # None /\ object[u].token
  BY TokFields DEF IInv, TokOK
<1>4. /\ Handleless(us) \in SUBSET Uids
      /\ \A u \in Handleless(us) :
           object[u] # None /\ \A h \in ObjHandles : tok.handles[h] # u
  BY <1>3 DEF Handleless
<1>5. tk.next <= MaxHandle + 1
  BY <1>1 DEF Becomes
<1>6. TokOK(tk, object, Open, logged) /\ Grows(tok, tk)
  BY <1>4, <1>5, HandedOK
<1>7. object \in [Uids -> Object \cup {None}] /\ object[Builtin] # None /\ ~object[Builtin].token
  BY DEF IInv, BasicTypes, BuiltinOK
<1>8. CASE UNCHANGED object /\ Failing
  <2>1. last' \in {"other", "failed", "half", "RO"} /\ ReachedOK' /\ PrivateNeedsLogin'
    BY <1>8, NoneReached DEF Failing
  <2> QED
    BY <1>1, <1>2, <1>6, <1>7, <1>8, <2>1, CallOK
<1>9. ASSUME NEW u \in us,
             object' = [object EXCEPT ![u].private = t.private, ![u].destroyable = t.destroyable],
             Answer("other", us)
      PROVE  IInv'
  <2>1. u \in Uids /\ object[u] \in Object /\ object[u].token
    BY <1>3, <1>7
  <2>2. t.private \in BOOLEAN /\ t.destroyable \in BOOLEAN
    BY DEF Template
  <2>3. /\ object' \in [Uids -> Object \cup {None}]
        /\ object'[u] \in Object /\ object'[u].token = object[u].token
        /\ object'[u].session = object[u].session /\ object'[u].login = object[u].login
        /\ \A w \in Uids \ {u} : object'[w] = object[w]
    BY <1>7, <1>9, <2>1, <2>2 DEF Object
  <2>4. object'[u] # None
    BY <2>3, NoneFacts
  <2>5. TokOK(tk, object', Open, logged)
    <3>1. \A w \in Uids : object[w] # None =>
            /\ object'[w] # None /\ object'[w].token = object[w].token
            /\ object'[w].session = object[w].session /\ object'[w].login = object[w].login
            /\ object[w].token \/ object'[w].private = object[w].private
      BY <2>1, <2>3, <2>4
    <3> QED
      BY <1>6, <3>1, OthersMade
  <2>6. \A w \in us : object'[w] # None
    BY <1>3, <2>3, <2>4
  <2>7. last' \in {"other", "failed", "half", "RO"} /\ ReachedOK' /\ PrivateNeedsLogin'
    BY <1>2, <1>3, <1>9, <2>6 DEF Answer, ReachedOK, PrivateNeedsLogin
  <2>8. object'[Builtin] = object[Builtin]
    BY <1>7, <2>1, <2>3, NoneFacts DEF Builtin, Uids
  <2> QED
    BY <1>1, <1>2, <1>6, <2>3, <2>5, <2>7, <2>8, CallOK
<1>10. \/ UNCHANGED object /\ Failing
       \/ \E u \in us :
            /\ object' = [object EXCEPT ![u].private = t.private, ![u].destroyable = t.destroyable]
            /\ Answer("other", us)
  BY DEF CreateAgain
<1> QED
  BY <1>8, <1>9, <1>10

LEMMA RestartIInv ==
  ASSUME IInv, NEW wipe, Restart(wipe)
  PROVE  IInv'
<1> DEFINE db == IF wipe THEN {} ELSE tok.db
<1>1. /\ tok' = Started(db) /\ issued' = tok'.handles /\ object' = object
      /\ sessions' = [s \in SessionHandles |-> "closed"] /\ logged' = FALSE
  BY DEF Restart
<1>2. last' \in {"other", "failed", "half", "RO"} /\ ReachedOK' /\ PrivateNeedsLogin'
  BY NoneReached DEF Restart, Quietly
<1>3. BasicTypes' /\ BuiltinOK'
  BY <1>1, <1>2 DEF IInv, BasicTypes, BuiltinOK
<1>4. db \in SUBSET Uids /\ \A u \in db : object[u] # None /\ object[u].token
  BY TokFields DEF IInv, TokOK
<1> HIDE DEF db
<1>5. /\ TokOK(Started(db), object, Open', logged')
      /\ IssuedOK(Started(db), Started(db).handles)
  BY <1>4, StartedOK DEF IInv, BuiltinOK
<1> QED
  BY <1>1, <1>2, <1>3, <1>5 DEF IInv

LEMMA OtherStoresIInv ==
  ASSUME IInv, NEW u \in Uids, NEW private, private \in BOOLEAN, OtherStores(u, private)
  PROVE  IInv'
<1> DEFINE o == [token |-> TRUE, private |-> private, destroyable |-> TRUE,
                 session |-> None, login |-> TRUE]
<1>1. /\ object[u] = None /\ object' = [object EXCEPT ![u] = o]
      /\ tok' = [tok EXCEPT !.db = @ \cup {u}]
      /\ UNCHANGED <<sessions, logged, issued>>
  BY DEF OtherStores, Fresh
<1>2. o \in Object /\ o.token /\ o # None
  <2>1. o \in Object
    BY DEF Object
  <2>2. o.token
    OBVIOUS
  <2> HIDE DEF o
  <2> QED
    BY <2>1, <2>2, NoneFacts
<1> HIDE DEF o
<1>3. last' \in {"other", "failed", "half", "RO"} /\ ReachedOK' /\ PrivateNeedsLogin'
  BY NoneReached DEF OtherStores, Quietly
<1>4. /\ object \in [Uids -> Object \cup {None}] /\ object' \in [Uids -> Object \cup {None}]
      /\ object'[u] = o /\ \A w \in Uids \ {u} : object'[w] = object[w]
  BY <1>1, <1>2 DEF IInv, BasicTypes
<1>5. BasicTypes' /\ BuiltinOK'
  BY <1>1, <1>3, <1>4, NoneFacts DEF IInv, BasicTypes, BuiltinOK, Builtin, Uids
<1>6. /\ tok' \in Tok /\ tok'.handles = tok.handles /\ tok'.held = tok.held
      /\ tok'.next = tok.next /\ tok'.db = tok.db \cup {u}
  BY <1>1 DEF IInv, TokOK, Tok
<1>7. TokOK(tok, object', Open, logged)
  <2>1. \A w \in Uids : object[w] # None => object'[w] = object[w]
    BY <1>1, <1>4
  <2>2. \A w \in Uids : object[w] # None =>
          /\ object'[w] # None /\ object'[w].token = object[w].token
          /\ object'[w].session = object[w].session /\ object'[w].private = object[w].private
          /\ object'[w].login = object[w].login
    BY <2>1
  <2>3. TokOK(tok, object, Open, logged)
    BY DEF IInv
  <2> QED
    BY <2>2, <2>3, OthersMade
<1>8. TokOK(tok', object', Open, logged)
  BY <1>2, <1>4, <1>6, <1>7 DEF TokOK
<1>9. IssuedOK(tok', issued)
  BY <1>6 DEF IInv, IssuedOK
<1>10. Open' = Open
  BY <1>1 DEF Open
<1> QED
  BY <1>1, <1>3, <1>5, <1>8, <1>9, <1>10 DEF IInv

LEMMA OtherRemovesIInv ==
  ASSUME IInv, NEW u \in Uids, OtherRemoves(u)
  PROVE  IInv'
<1>1. /\ tok' = [tok EXCEPT !.db = @ \ {u}]
      /\ UNCHANGED <<sessions, logged, object, issued>>
  BY DEF OtherRemoves
<1>2. last' \in {"other", "failed", "half", "RO"} /\ ReachedOK' /\ PrivateNeedsLogin'
  BY NoneReached DEF OtherRemoves, Quietly
<1>3. BasicTypes' /\ BuiltinOK' /\ Open' = Open
  BY <1>1, <1>2 DEF IInv, BasicTypes, BuiltinOK, Open
<1>4. /\ tok' \in Tok /\ tok'.handles = tok.handles /\ tok'.held = tok.held
      /\ tok'.next = tok.next /\ tok'.db = tok.db \ {u}
  BY <1>1 DEF IInv, TokOK, Tok
<1>5. TokOK(tok', object, Open, logged)
  BY <1>4 DEF IInv, TokOK
<1>6. IssuedOK(tok', issued)
  BY <1>4 DEF IInv, IssuedOK
<1> QED
  BY <1>1, <1>2, <1>3, <1>5, <1>6 DEF IInv
-----------------------------------------------------------------------------
LEMMA NextIInv ==
  ASSUME IInv, [Next]_vars
  PROVE  IInv'
<1>1. CASE \E s \in SessionHandles, mode \in {"RO", "RW"} : OpenSession(s, mode)
  BY <1>1, OpenSessionIInv, Zenon
<1>2. CASE \E s \in SessionHandles : CloseSession(s)
  BY <1>2, CloseSessionIInv, Zenon
<1>3. CASE \E s \in SessionHandles : Find(s)
  BY <1>3, FindIInv, Zenon
<1>4. CASE \E s \in SessionHandles, u \in Uids, t \in Template, stored \in BOOLEAN :
             Make(s, u, t, stored)
  BY <1>4, MakeIInv, Zenon
<1>5. CASE \E s \in SessionHandles, u, v \in Uids, t1, t2 \in Template, stored \in BOOLEAN,
              answer \in Answers :
             \/ MakePair(s, u, v, t1, t2, stored, answer)
             \/ DeriveMore(s, u, v, t1, t2, stored, answer)
  BY <1>5, MakePairIInv, Zenon
<1>6. CASE \E s \in SessionHandles, h \in ObjHandles, u \in Uids,
              says \in {"same", "token", "session"}, private, stored \in BOOLEAN :
             Copy(s, h, u, says, private, stored)
  BY <1>6, CopyIInv, Zenon
<1>7. CASE \E s \in SessionHandles, h \in ObjHandles, removed \in BOOLEAN : Destroy(s, h, removed)
  BY <1>7, DestroyIInv, Zenon
<1>8. CASE \E s \in SessionHandles, h \in ObjHandles : Use(s, h)
  BY <1>8, UseIInv, Zenon
<1>9. CASE \E s \in SessionHandles, h \in ObjHandles, destroyable, stored \in BOOLEAN :
             SetAttribute(s, h, destroyable, stored)
  BY <1>9, SetAttributeIInv, Zenon
<1>10. CASE Login
  BY <1>10, LoginIInv, Zenon
<1>11. CASE Logout
  BY <1>11, LogoutIInv, Zenon
<1>12. CASE \E wipe \in BOOLEAN : Restart(wipe)
  BY <1>12, RestartIInv, Zenon
<1>13. CASE \E u \in Uids, private \in BOOLEAN : OtherStores(u, private)
  BY <1>13, OtherStoresIInv, Zenon
<1>14. CASE \E u \in Uids : OtherRemoves(u)
  BY <1>14, OtherRemovesIInv, Zenon
<1>15. CASE UNCHANGED vars
  <2>1. Open' = Open
    BY <1>15 DEF vars, Open
  <2> QED
    BY <1>15, <2>1 DEF vars, IInv, BasicTypes, BuiltinOK, ReachedOK, PrivateNeedsLogin
<1>16. ASSUME NEW s \in SessionHandles, NEW h \in ObjHandles,
              \/ \E u \in Uids, says \in {"same", "token", "session"}, private, stored \in BOOLEAN :
                   Copy(s, h, u, says, private, stored)
              \/ \E removed \in BOOLEAN : Destroy(s, h, removed)
              \/ Use(s, h)
              \/ \E destroyable, stored \in BOOLEAN : SetAttribute(s, h, destroyable, stored)
       PROVE  IInv'
  BY <1>6, <1>7, <1>8, <1>9, <1>16, Zenon
<1>17. CASE \E s \in SessionHandles, t \in Template, us \in SUBSET tok.db : CreateAgain(s, t, us)
  BY <1>17, CreateAgainIInv, Zenon
<1>18. ASSUME NEW s \in SessionHandles,
              \/ \E mode \in {"RO", "RW"} : OpenSession(s, mode)
              \/ CloseSession(s)
              \/ Find(s)
              \/ \E u \in Uids, stored \in BOOLEAN :
                   /\ Fresh(u)
                   /\ \/ \E t \in Template : Make(s, u, t, stored)
                      \/ \E v \in Uids, t1, t2 \in Template, answer \in Answers :
                           \/ MakePair(s, u, v, t1, t2, stored, answer)
                           \/ DeriveMore(s, u, v, t1, t2, stored, answer)
              \/ \E t \in Template, us \in SUBSET tok.db : CreateAgain(s, t, us)
       PROVE  IInv'
  BY <1>1, <1>2, <1>3, <1>4, <1>5, <1>17, <1>18, Zenon
<1> QED
  BY <1>10, <1>11, <1>12, <1>13, <1>14, <1>15, <1>16, <1>18, Zenon DEF Next

(* The inductive invariant holds in every behaviour.                       *)
THEOREM ObjectsInvariance == Spec => []IInv
<1>1. Init => IInv
  BY InitIInv
<1>2. IInv /\ [Next]_vars => IInv'
  BY NextIInv
<1> QED
  BY <1>1, <1>2, PTL DEF Spec

(* Every variable keeps its type, the handles of this process name each    *)
(* object once, and every session object has its handle.                   *)
THEOREM ObjectsTypeCorrect == Spec => []TypeOK
<1>1. IInv => TypeOK
  <2> SUFFICES ASSUME IInv PROVE TypeOK
    OBVIOUS
  <2>1. sessions \in [SessionHandles -> {"closed", "RO", "RW"}] /\ logged \in BOOLEAN
        /\ object \in [Uids -> Object \cup {None}] /\ last \in {"other", "failed", "half", "RO"}
    BY DEF IInv, BasicTypes
  <2>2. reached \subseteq Uids /\ issued \in HandleMap /\ tok \in Tok
    BY DEF IInv, ReachedOK, IssuedOK, TokOK
  <2>3. \A h \in ObjHandles :
          /\ tok.held[h] # None => tok.held[h] = tok.handles[h] /\ ~object[tok.held[h]].token
          /\ tok.handles[h] # None => \A g \in ObjHandles : tok.handles[g] = tok.handles[h] => g = h
    BY DEF IInv, TokOK, HeldOK
  <2>4. \A u \in tok.db : object[u] # None /\ object[u].token
    BY DEF IInv, TokOK
  <2> QED
    BY <2>1, <2>2, <2>3, <2>4 DEF TypeOK
<1> QED
  BY <1>1, ObjectsInvariance, PTL

(* A handle names the object it was given to, or none.                     *)
THEOREM HandlesKeep == Spec => []HandlesKeepTheirObject
<1>1. IInv => HandlesKeepTheirObject
  BY NamedFacts DEF HandlesKeepTheirObject, IInv, IssuedOK
<1> QED
  BY <1>1, ObjectsInvariance, PTL

(* No private token object is reached without a login.                     *)
THEOREM PrivateKept == Spec => []PrivateNeedsLogin
<1>1. IInv => PrivateNeedsLogin
  BY DEF IInv
<1> QED
  BY <1>1, ObjectsInvariance, PTL

(* No session object outlives its session, nor a private one its login.    *)
THEOREM SessionObjectsGo == Spec => []SessionObjectsEnd
<1>1. IInv => SessionObjectsEnd
  BY DEF IInv, TokOK, HeldOK, SessionObjectsEnd
<1> QED
  BY <1>1, ObjectsInvariance, PTL
-----------------------------------------------------------------------------
(* The two action properties, of a step.                                   *)
OnlyReads == tok'.db = tok.db /\ \A u \in tok.db : object'[u] = object[u]

ChangesNothing ==
  /\ Present(tok) \subseteq Present(tok')
  /\ \A u \in Present(tok') \ Present(tok) : ~object'[u].destroyable

LeavesOne ==
  /\ Present(tok) \subseteq Present(tok')
  /\ \E u \in Uids : object'[u].token /\ Present(tok') \ Present(tok) \subseteq {u}

StepOK == /\ last' = "RO" => OnlyReads
          /\ last' = "failed" => ChangesNothing
          /\ last' = "half" => LeavesOne

LEMMA NothingChanged ==
  ASSUME tok'.db = tok.db, tok'.held = tok.held
  PROVE  ChangesNothing
  BY DEF ChangesNothing, Present

LEMMA RefusedReads ==
  ASSUME UNCHANGED <<tok, object>>
  PROVE  OnlyReads /\ ChangesNothing
  BY DEF OnlyReads, ChangesNothing, Present

LEMMA ReadOnlyMeans ==
  ASSUME NEW s, ReadOnly(s) = "RO"
  PROVE  sessions[s] = "RO"
  BY DEF ReadOnly

LEMMA NeverStored ==
  ASSUME NEW tk \in Counts, NEW u, NEW t, t.token, NEW stored, ~stored
  PROVE  Inserted(tk, u, t, stored).db = tk.db
<1>1. Inserted(tk, u, t, stored) = [WithHandle(tk, u) EXCEPT !.db = @]
  BY DEF Inserted
<1>2. WithHandle(tk, u) = [tk EXCEPT !.handles[tk.next] = u, !.next = @ + 1]
  BY DEF WithHandle, NextHandle
<1> QED
  BY <1>1, <1>2 DEF Counts

(* A new object gets the next handle, which no object had.                 *)
InsertedAs(tk, u, t, tk2) ==
  /\ tk2 \in Tok /\ tk.next \in ObjHandles /\ tk.held[tk.next] = None
  /\ tk2.next = tk.next + 1
  /\ tk2.handles = [tk.handles EXCEPT ![tk.next] = u]
  /\ t.token => tk2.held = tk.held /\ tk2.db \in {tk.db, tk.db \cup {u}}
  /\ ~t.token => tk2.held = [tk.held EXCEPT ![tk.next] = u] /\ tk2.db = tk.db

LEMMA MadeAs ==
  ASSUME NEW obj, NEW open, NEW log, NEW tk, TokOK(tk, obj, open, log),
         NEW u \in Uids, NEW t, NEW stored,
         NEW tk2, tk2 = Inserted(tk, u, t, stored), tk2.next <= MaxHandle + 1
  PROVE  InsertedAs(tk, u, t, tk2)
<1>1. tk \in Tok /\ tk \in Counts /\ tk.next \in Nat
  BY TokCounts, TokFields DEF TokOK
<1>2. tk.next <= MaxHandle
  BY <1>1, InsertedNext, NoneFacts
<1>3. /\ tk2 \in Tok /\ tk.next \in ObjHandles
      /\ tk2.next = tk.next + 1
      /\ tk2.handles = [tk.handles EXCEPT ![tk.next] = u]
      /\ t.token => tk2.held = tk.held /\ tk2.db \in {tk.db, tk.db \cup {u}}
      /\ ~t.token => tk2.held = [tk.held EXCEPT ![tk.next] = u] /\ tk2.db = tk.db
  BY <1>1, <1>2, InsertedFields
<1>4. tk.held[tk.next] = None
  BY <1>1, <1>3 DEF TokOK
<1> QED
  BY <1>3, <1>4 DEF InsertedAs

LEMMA MakeStep ==
  ASSUME IInv, NEW s \in SessionHandles, NEW u \in Uids, NEW t \in Template,
         NEW stored, Make(s, u, t, stored)
  PROVE  StepOK
<1> DEFINE tk == Inserted(tok, u, t, stored)
<1>1. CASE Refuses(s, t.token) \/ (t.token /\ ~logged)
  BY <1>1, RefusedReads DEF Make, Failing, Answer, StepOK
<1>2. CASE ~(Refuses(s, t.token) \/ (t.token /\ ~logged))
  <2>1. /\ Becomes(tk) /\ tok' = tk /\ tk.next <= MaxHandle + 1
        /\ object' = [object EXCEPT ![u] = NewObject(s, t)]
        /\ last' = IF t.token => stored THEN ReadOnly(s) ELSE "failed"
    BY <1>2 DEF Make, Answer, Becomes
  <2>2. InsertedAs(tok, u, t, tk)
    <3>1. tk = Inserted(tok, u, t, stored) /\ tk.next <= MaxHandle + 1
      BY <2>1
    <3> HIDE DEF tk
    <3> QED
      BY <3>1, MadeAs DEF IInv
  <2>3. object[u] = None /\ u \notin tok.db
    BY DEF Make, Fresh, IInv, TokOK
  <2> HIDE DEF tk
  <2>4. ASSUME last' = "RO"
        PROVE  OnlyReads
    <3>1. sessions[s] = "RO"
      BY <2>1, <2>4 DEF ReadOnly
    <3>2. ~t.token
      BY <1>2, <3>1 DEF Refuses
    <3>3. tk.db = tok.db
      BY <2>2, <3>2 DEF InsertedAs
    <3> QED
      BY <2>1, <2>3, <3>3 DEF OnlyReads
  <2>5. ASSUME last' = "failed"
        PROVE  ChangesNothing
    <3>1. t.token /\ ~stored
      BY <2>1, <2>5 DEF ReadOnly
    <3>2. tok \in Counts
      BY TokCounts DEF IInv, TokOK
    <3>3. tk.db = tok.db
      BY <3>1, <3>2, NeverStored DEF tk
    <3>4. tk.held = tok.held
      BY <2>2, <3>1 DEF InsertedAs
    <3> QED
      BY <2>1, <3>3, <3>4, NothingChanged
  <2>6. last' # "half"
    BY <2>1 DEF ReadOnly
  <2> QED
    BY <2>4, <2>5, <2>6 DEF StepOK
<1> QED
  BY <1>1, <1>2

LEMMA CopyStep ==
  ASSUME IInv, NEW s \in SessionHandles, NEW h \in ObjHandles, NEW u \in Uids,
         NEW says \in {"same", "token", "session"}, NEW private, private \in BOOLEAN,
         NEW stored, Copy(s, h, u, says, private, stored)
  PROVE  StepOK
<1> DEFINE orig == object[Named(h)]
           t    == [orig EXCEPT !.token = IF says = "same" THEN @ ELSE says = "token",
                                !.private = private]
           tk   == Inserted(tok, u, t, stored)
           refused == \/ Refuses(s, says = "token")
                      \/ Named(h) \in {None, Builtin}
                      \/ ~MayCopy(orig)
                      \/ t.token /\ ~logged
<1>1. CASE refused
  BY <1>1, RefusedReads DEF Copy, Failing, Answer, StepOK
<1>2. CASE ~refused
  <2>1. /\ tok' = tk /\ tk.next <= MaxHandle + 1
        /\ object' = [object EXCEPT ![u] = NewObject(s, t)]
        /\ last' = IF t.token /\ ~stored THEN "failed"
                   ELSE IF says = "same" THEN "other" ELSE ReadOnly(s)
    BY <1>2 DEF Copy, Answer, Becomes
  <2>2. orig \in Object
    BY <1>2, NamedFacts
  <2>3. says # "same" => t.token = (says = "token")
    <3> HIDE DEF orig
    <3> QED
      BY <2>2 DEF Object
  <2> HIDE DEF t
  <2>4. InsertedAs(tok, u, t, tk)
    <3>1. tk = Inserted(tok, u, t, stored) /\ tk.next <= MaxHandle + 1
      BY <2>1
    <3> HIDE DEF tk
    <3> QED
      BY <3>1, MadeAs DEF IInv
  <2>5. object[u] = None /\ u \notin tok.db
    BY DEF Copy, Fresh, IInv, TokOK
  <2> HIDE DEF tk
  <2>6. ASSUME last' = "RO"
        PROVE  OnlyReads
    <3>1. says # "same" /\ sessions[s] = "RO"
      BY <2>1, <2>6 DEF ReadOnly
    <3>2. ~t.token
      BY <1>2, <2>3, <3>1 DEF Refuses
    <3>3. tk.db = tok.db
      BY <2>4, <3>2 DEF InsertedAs
    <3> QED
      BY <2>1, <2>5, <3>3 DEF OnlyReads
  <2>7. ASSUME last' = "failed"
        PROVE  ChangesNothing
    <3>1. t.token /\ ~stored
      BY <2>1, <2>7 DEF ReadOnly
    <3>2. tok \in Counts
      BY TokCounts DEF IInv, TokOK
    <3>3. tk.db = tok.db
      BY <3>1, <3>2, NeverStored DEF tk
    <3>4. tk.held = tok.held
      BY <2>4, <3>1 DEF InsertedAs
    <3> QED
      BY <2>1, <3>3, <3>4, NothingChanged
  <2>8. last' # "half"
    BY <2>1 DEF ReadOnly
  <2> QED
    BY <2>6, <2>7, <2>8 DEF StepOK
<1> QED
  BY <1>1, <1>2

LEMMA DestroyStep ==
  ASSUME IInv, NEW s \in SessionHandles, NEW h \in ObjHandles, NEW removed,
         Destroy(s, h, removed)
  PROVE  StepOK
<1> DEFINE tk   == Destroyed(tok, h, removed)
           does == LET o == object[Named(h)] IN
                   Gets(h) /\ ~(o.token /\ sessions[s] = "RO") /\ o.destroyable
<1>1. object' = object
  BY DEF Destroy
<1>2. CASE ~does
  BY <1>1, <1>2, RefusedReads DEF Destroy, Failing, Answer, StepOK
<1>3. CASE does
  <2>1. tok' = tk /\ last' = ReadOnly(s) /\ Named(h) # None
        /\ ~(object[Named(h)].token /\ sessions[s] = "RO")
    BY <1>3 DEF Destroy, Becomes, Answer, Gets
  <2>2. ASSUME last' = "RO"
        PROVE  OnlyReads
    <3>1. ~object[Named(h)].token
      BY <2>1, <2>2, ReadOnlyMeans
    <3>2. tok.held[h] # None
      BY <2>1, <3>1 DEF Named, IInv, TokOK
    <3>3. tk = [Dropped(tok, {h}) EXCEPT !.db = @]
      BY <3>2 DEF Destroyed
    <3>4. Dropped(tok, {h}) \in Tok /\ Dropped(tok, {h}).db = tok.db
      BY DroppedFields DEF IInv, TokOK
    <3> HIDE DEF tk
    <3>5. tk.db = tok.db
      BY <3>3, <3>4 DEF Tok
    <3> QED
      BY <1>1, <2>1, <3>5 DEF OnlyReads
  <2>3. last' # "failed" /\ last' # "half"
    BY <2>1 DEF ReadOnly
  <2> QED
    BY <2>2, <2>3 DEF StepOK
<1> QED
  BY <1>2, <1>3

LEMMA SetAttributeStep ==
  ASSUME IInv, NEW s \in SessionHandles, NEW h \in ObjHandles, NEW destroyable, NEW stored,
         SetAttribute(s, h, destroyable, stored)
  PROVE  StepOK
<1> DEFINE w    == Named(h)
           does == Gets(h) /\ (object[w].token => logged /\ sessions[s] = "RW" /\ stored)
<1>1. tok' = tok
  BY DEF SetAttribute
<1>2. CASE ~does
  BY <1>1, <1>2, RefusedReads DEF SetAttribute, Failing, Answer, StepOK
<1>3. CASE does
  <2>1. /\ object' = [object EXCEPT ![w].destroyable = destroyable] /\ last' = ReadOnly(s)
        /\ (object[w].token => sessions[s] = "RW")
    BY <1>3 DEF SetAttribute, Answer
  <2>2. ASSUME last' = "RO"
        PROVE  OnlyReads
    <3>1. ~object[w].token
      BY <2>1, <2>2, ReadOnlyMeans
    <3>2. w \notin tok.db /\ tok.db \subseteq Uids
      BY <3>1, TokFields DEF IInv, TokOK
    <3> QED
      BY <1>1, <2>1, <3>2 DEF OnlyReads, IInv, BasicTypes
  <2>3. last' # "failed" /\ last' # "half"
    BY <2>1 DEF ReadOnly
  <2> QED
    BY <2>2, <2>3 DEF StepOK
<1> QED
  BY <1>2, <1>3

LEMMA FindStep ==
  ASSUME IInv, NEW s \in SessionHandles, Find(s)
  PROVE  StepOK
<1>1. PICK tk \in Handed(tok, Handleless(Found)) : tok' = tk
  BY DEF Find, Becomes
<1>2. object' = object /\ last' = ReadOnly(s)
  BY DEF Find, Answer
<1>3. PICK given, next : tk = [tok EXCEPT !.handles = given, !.next = next]
  BY DEF Handed
<1>4. tok'.db = tok.db
  BY <1>1, <1>3 DEF IInv, TokOK, Tok
<1> QED
  BY <1>2, <1>4 DEF OnlyReads, ReadOnly, StepOK

LEMMA CreateAgainStep ==
  ASSUME IInv, NEW s \in SessionHandles, NEW t \in Template, NEW us \in SUBSET tok.db,
         CreateAgain(s, t, us)
  PROVE  StepOK
<1>1. PICK tk \in Handed(tok, Handleless(us)) : tok' = tk
  BY DEF CreateAgain, Becomes
<1>2. PICK given, next : tk = [tok EXCEPT !.handles = given, !.next = next]
  BY DEF Handed
<1>3. tok'.db = tok.db /\ tok'.held = tok.held
  BY <1>1, <1>2 DEF IInv, TokOK, Tok
<1>4. last' \in {"other", "failed"}
  BY DEF CreateAgain, Answer, Failing
<1> QED
  BY <1>3, <1>4, NothingChanged DEF StepOK

LEMMA MakeBothStep ==
  ASSUME IInv, NEW s \in SessionHandles, NEW u \in Uids, NEW v \in Uids,
         NEW t1 \in Template, NEW t2 \in Template, NEW stored, NEW answer,
         object[u] = None, object[v] = None, u # v, ~Refuses(s, t1.token),
         MakeBoth(s, u, v, t1, t2, stored, answer)
  PROVE  StepOK
<1> DEFINE first  == Inserted(tok, u, t1, TRUE)
           refused == t2.token /\ ~logged
           second == IF refused THEN first ELSE Inserted(first, v, t2, stored)
           ok     == t2.token => logged /\ stored
           keeps  == ok \/ ~Undone(t1, answer)
           n      == NextHandle(tok)
           final  == IF keeps THEN second ELSE Destroyed(second, n, answer = "removed")
           half   == t1.token /\ answer # "removed"
           o1     == NewObject(s, t1)
           o2     == NewObject(s, t2)
<1>1. /\ tok' = final /\ final.next <= MaxHandle + 1
      /\ object' = [object EXCEPT ![u] = o1, ![v] = o2]
      /\ last' = IF ~ok THEN IF half THEN "half" ELSE "failed"
                 ELSE IF t2.token THEN "other" ELSE ReadOnly(s)
  BY DEF MakeBoth, TakenBack, Becomes, Answer
<1>2. /\ u \notin tok.db /\ v \notin tok.db /\ tok.db \subseteq Uids
      /\ o1.destroyable = t1.destroyable /\ o1.token = t1.token
      /\ object \in [Uids -> Object \cup {None}]
  BY NoneFacts, TokFields DEF NewObject, IInv, TokOK, BasicTypes
<1>3. tok \in Tok /\ tok \in Counts /\ tok.next \in Nat
  BY TokCounts, TokFields DEF IInv, TokOK
<1> HIDE DEF o1, o2, ok, keeps, refused
<1>4. first \in Counts /\ first.next = tok.next + 1 /\ first.next \in Nat
  BY <1>3, InsertedNext DEF Counts
<1>5. /\ second \in Counts /\ second.next >= first.next /\ second.next \in Nat
      /\ ~refused => second.next = first.next + 1
  <2> HIDE DEF first
  <2>1. ~refused => second \in Counts /\ second.next = first.next + 1
    BY <1>4, InsertedNext
  <2> HIDE DEF second
  <2>2. refused => second = first
    BY DEF second
  <2> QED
    BY <1>4, <2>1, <2>2
<1>6. final.next = second.next
  <2> HIDE DEF second, n
  <2>1. Destroyed(second, n, answer = "removed").next = second.next
    BY <1>5, DestroyedNext
  <2> QED
    BY <2>1
<1>7. first.next <= MaxHandle + 1 /\ second.next <= MaxHandle + 1
      /\ (~refused => first.next <= MaxHandle)
  <2> HIDE DEF first, second, final
  <2> QED
    BY <1>1, <1>4, <1>5, <1>6, NoneFacts
<1>8. InsertedAs(tok, u, t1, first)
  <2>1. first = Inserted(tok, u, t1, TRUE)
    OBVIOUS
  <2> HIDE DEF first
  <2> QED
    BY <1>7, <2>1, MadeAs DEF IInv
<1> HIDE DEF first
<1>9. first \in Tok /\ n \in ObjHandles /\ n = tok.next /\ tok.held[n] = None /\ first.handles[n] = u
  BY <1>3, <1>8, TokFields DEF InsertedAs, NextHandle
<1>10. ASSUME last' = "RO"
       PROVE  OnlyReads
  <2>1. ok /\ keeps /\ sessions[s] = "RO"
    BY <1>1, <1>10, ReadOnlyMeans DEF keeps
  <2>2. ~t1.token /\ ~t2.token /\ ~refused
    BY <1>1, <1>10, <2>1 DEF Refuses, refused
  <2>3. first.db = tok.db
    BY <1>8, <2>2 DEF InsertedAs
  <2>4. second.db = first.db
    <3>1. second = Inserted(first, v, t2, stored)
      BY <2>2
    <3> HIDE DEF second
    <3>2. second \in Tok /\ second.handles = [first.handles EXCEPT ![first.next] = v]
          /\ second.next = first.next + 1 /\ first.next \in ObjHandles
          /\ (t2.token => second.held = first.held /\ second.db \in {first.db, first.db \cup {v}})
          /\ (~t2.token => second.held = [first.held EXCEPT ![first.next] = v] /\ second.db = first.db)
      BY <1>7, <1>9, <2>2, <3>1, InsertedFields
    <3> QED
      BY <2>2, <3>2
  <2>5. tok'.db = tok.db
    BY <1>1, <2>1, <2>3, <2>4
  <2> QED
    BY <1>1, <1>2, <2>5 DEF OnlyReads
<1>11. ASSUME ~ok
       PROVE  IF half THEN LeavesOne ELSE ChangesNothing
  <2>1. t2.token /\ (~refused => ~stored)
    BY <1>11 DEF ok, refused
  <2>2. second.db = first.db /\ second.held = first.held /\ second.handles[n] = u
        /\ second \in Tok
    <3>1. CASE refused
      BY <1>9, <3>1
    <3>2. CASE ~refused
      <4>1. second = Inserted(first, v, t2, stored)
        BY <3>2
      <4>2. second.db = first.db
        BY <1>4, <2>1, <3>2, <4>1, NeverStored
      <4> HIDE DEF second
      <4>3. second \in Tok /\ second.handles = [first.handles EXCEPT ![first.next] = v]
            /\ second.next = first.next + 1 /\ first.next \in ObjHandles
            /\ (t2.token => second.held = first.held /\ second.db \in {first.db, first.db \cup {v}})
            /\ (~t2.token => second.held = [first.held EXCEPT ![first.next] = v] /\ second.db = first.db)
        BY <1>7, <1>9, <3>2, <4>1, InsertedFields
      <4>4. first.next # n /\ first.handles \in [ObjHandles -> Uids \cup {None}]
        BY <1>3, <1>4, <1>9, TokFields
      <4> QED
        BY <1>9, <2>1, <4>2, <4>3, <4>4
    <3> QED
      BY <3>1, <3>2
  <2> HIDE DEF second
  <2>3. CASE keeps
    <3>1. ~half => ~t1.destroyable
      BY <1>11, <2>3 DEF keeps, Undone
    <3>2. /\ tok.held \in [ObjHandles -> Uids \cup {None}]
          /\ tok'.db \in {tok.db, tok.db \cup {u}}
          /\ tok'.held \in {tok.held, [tok.held EXCEPT ![n] = u]}
      BY <1>1, <1>3, <1>8, <1>9, <2>2, <2>3, TokFields DEF InsertedAs
    <3>3. Present(tok) \subseteq Present(tok') /\ Present(tok') \subseteq Present(tok) \cup {u}
      <4>1. \A w \in Uids, h \in ObjHandles : tok.held[h] = w => tok'.held[h] = w
        BY <1>9, <3>2, NoneFacts
      <4>2. \A w \in Uids \ {u}, h \in ObjHandles : tok'.held[h] = w => tok.held[h] = w
        BY <1>9, <3>2
      <4>3. tok.db \subseteq tok'.db /\ tok'.db \subseteq tok.db \cup {u}
        BY <3>2
      <4> QED
        BY <4>1, <4>2, <4>3 DEF Present
    <3>4. object'[u] = o1
      BY <1>1, <1>2
    <3> QED
      BY <1>2, <3>1, <3>3, <3>4 DEF ChangesNothing, LeavesOne
  <2>4. CASE ~keeps
    <3> DEFINE tk == Dropped(second, {n})
    <3>1. /\ tk \in Tok /\ tk.db = second.db
          /\ \A h \in ObjHandles : tk.held[h] = IF h \in {n} THEN None ELSE second.held[h]
      BY <2>2, DroppedFields
    <3>2. tok' = [tk EXCEPT !.db = IF second.held[n] = None /\ answer = "removed" THEN @ \ {second.handles[n]} ELSE @]
      BY <1>1, <2>4 DEF Destroyed
    <3> HIDE DEF tk
    <3>3. tok'.held = tk.held
          /\ tok'.db = IF second.held[n] = None /\ answer = "removed" THEN second.db \ {u} ELSE second.db
      BY <2>2, <3>1, <3>2 DEF Tok
    <3>4. tok.held \in [ObjHandles -> Uids \cup {None}] /\ tk.held \in [ObjHandles -> Uids \cup {None}]
      BY <1>3, <3>1, TokFields
    <3>5. CASE t1.token
      <4>1. second.held = tok.held /\ second.db \in {tok.db, tok.db \cup {u}}
        BY <1>8, <2>2, <3>5 DEF InsertedAs
      <4>2. \A h \in ObjHandles : tk.held[h] = tok.held[h]
        BY <1>9, <3>1, <4>1
      <4>3. tok'.held = tok.held
        BY <3>3, <3>4, <4>2
      <4>4. CASE ~half
        <5>1. tok'.db = tok.db
          BY <1>2, <1>9, <3>3, <3>5, <4>1, <4>4
        <5> QED
          BY <4>3, <4>4, <5>1, NothingChanged
      <4>5. CASE half
        <5>1. tok.db \subseteq tok'.db /\ tok'.db \subseteq tok.db \cup {u}
          BY <3>3, <4>1, <4>5
        <5>2. object'[u] = o1
          BY <1>1, <1>2
        <5>3. Present(tok) \subseteq Present(tok') /\ Present(tok') \subseteq Present(tok) \cup {u}
          BY <4>3, <5>1 DEF Present
        <5>4. object'[u].token
          BY <1>2, <3>5, <5>2
        <5> QED
          BY <4>5, <5>3, <5>4 DEF LeavesOne
      <4> QED
        BY <4>4, <4>5
    <3>6. CASE ~t1.token
      <4>1. second.held = [tok.held EXCEPT ![n] = u] /\ second.db = tok.db
        BY <1>8, <1>9, <2>2, <3>6 DEF InsertedAs
      <4>2. tok'.db = tok.db
        BY <1>9, <3>3, <3>4, <4>1, NoneFacts
      <4>3. \A h \in ObjHandles : tk.held[h] = tok.held[h]
        BY <1>9, <3>1, <3>4, <4>1
      <4>4. tk.held = tok.held
        BY <3>4, <4>3
      <4>5. ~half
        BY <3>6
      <4> QED
        BY <3>3, <4>2, <4>4, <4>5, NothingChanged
    <3> QED
      BY <3>5, <3>6
  <2> QED
    BY <2>3, <2>4
<1>12. last' = "failed" => ~ok /\ ~half
  BY <1>1 DEF ReadOnly
<1>13. last' = "half" => ~ok /\ half
  BY <1>1 DEF ReadOnly
<1> QED
  BY <1>10, <1>11, <1>12, <1>13 DEF StepOK

LEMMA MakePairStep ==
  ASSUME IInv, NEW s \in SessionHandles, NEW u \in Uids, NEW v \in Uids,
         NEW t1 \in Template, NEW t2 \in Template, NEW stored, NEW answer,
         MakePair(s, u, v, t1, t2, stored, answer) \/ DeriveMore(s, u, v, t1, t2, stored, answer)
  PROVE  StepOK
<1>1. object[u] = None /\ object[v] = None /\ u # v
  BY NoneFacts DEF MakePair, DeriveMore, Fresh
<1>2. \/ last' = "failed" /\ UNCHANGED <<tok, object>>
      \/ ~Refuses(s, t1.token) /\ MakeBoth(s, u, v, t1, t2, stored, answer)
  BY DEF MakePair, DeriveMore, Failing, Answer, Refuses
<1> QED
  BY <1>1, <1>2, RefusedReads, MakeBothStep DEF StepOK

LEMMA QuietStep ==
  ASSUME last' = "other"
  PROVE  StepOK
  BY DEF StepOK

LEMMA NextStep ==
  ASSUME IInv, [Next]_vars
  PROVE  StepOK \/ UNCHANGED vars
<1>1. ASSUME NEW s \in SessionHandles, NEW h \in ObjHandles,
             \/ \E u \in Uids, says \in {"same", "token", "session"}, private, stored \in BOOLEAN :
                  Copy(s, h, u, says, private, stored)
             \/ \E removed \in BOOLEAN : Destroy(s, h, removed)
             \/ \E destroyable, stored \in BOOLEAN : SetAttribute(s, h, destroyable, stored)
      PROVE  StepOK
  BY <1>1, CopyStep, DestroyStep, SetAttributeStep, Zenon
<1>2. ASSUME NEW s \in SessionHandles,
             \/ Find(s)
             \/ \E u \in Uids, stored \in BOOLEAN :
                  /\ Fresh(u)
                  /\ \/ \E t \in Template : Make(s, u, t, stored)
                     \/ \E v \in Uids, t1, t2 \in Template, answer \in Answers :
                          \/ MakePair(s, u, v, t1, t2, stored, answer)
                          \/ DeriveMore(s, u, v, t1, t2, stored, answer)
             \/ \E t \in Template, us \in SUBSET tok.db : CreateAgain(s, t, us)
      PROVE  StepOK
  BY <1>2, FindStep, MakeStep, MakePairStep, CreateAgainStep, Zenon
<1>3. ASSUME NEW s \in SessionHandles, NEW h \in ObjHandles, Use(s, h)
      PROVE  StepOK
  BY <1>3, RefusedReads DEF Use, Answer, Failing, ReadOnly, StepOK
<1>4. ASSUME \/ \E s \in SessionHandles, mode \in {"RO", "RW"} : OpenSession(s, mode)
             \/ \E s \in SessionHandles : CloseSession(s)
             \/ Login
             \/ Logout
             \/ \E wipe \in BOOLEAN : Restart(wipe)
             \/ \E u \in Uids, private \in BOOLEAN : OtherStores(u, private)
             \/ \E u \in Uids : OtherRemoves(u)
      PROVE  StepOK
  BY <1>4, QuietStep, Zenon DEF OpenSession, CloseSession, Login, Logout, Restart, OtherStores, OtherRemoves,
     Quietly, Answer
<1>5. CASE UNCHANGED vars
  BY <1>5
<1> QED
  BY <1>1, <1>2, <1>3, <1>4, <1>5, Zenon DEF Next

(* A call that fails leaves no object and takes none away.  Of a call that *)
(* makes several objects, one that may not be destroyed can be left, or,   *)
(* when the database fails twice, one token object.                        *)
THEOREM FailedCalls == Spec => FailedCallsChangeNothing
<1>1. IInv /\ [Next]_vars =>
        [LET left == Present(tok') \ Present(tok) IN
         /\ last' \in {"failed", "half"} => Present(tok) \subseteq Present(tok')
         /\ last' = "failed" => \A u \in left : ~object'[u].destroyable
         /\ last' = "half" => \E u \in Uids : object'[u].token /\ left \subseteq {u}]_vars
  BY NextStep DEF StepOK, ChangesNothing, LeavesOne
<1> QED
  BY <1>1, ObjectsInvariance, PTL DEF Spec, FailedCallsChangeNothing

(* A read-only session changes nothing in the database, except by copying  *)
(* with a template that does not speak of CKA_TOKEN, and by deriving an    *)
(* additional key.                                                         *)
THEOREM ReadOnlyOnlyReads == Spec => ReadOnlySessionsOnlyRead
<1>1. IInv /\ [Next]_vars => [last' = "RO" =>
         /\ tok'.db = tok.db
         /\ \A u \in tok.db : object'[u] = object[u]]_vars
  BY NextStep DEF StepOK, OnlyReads
<1> QED
  BY <1>1, ObjectsInvariance, PTL DEF Spec, ReadOnlySessionsOnlyRead
=============================================================================
