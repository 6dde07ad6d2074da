------------------------------- MODULE Objects -------------------------------
(***************************************************************************)
(* The objects of one token and the handles the application knows them by  *)
(* (token.rs, fns/objmgmt.rs, fns/keymgmt.rs, storage/format.rs).  Session *)
(* objects are kept in memory and end with their session, private ones     *)
(* also with the login; token objects are in a database, which outlives    *)
(* the process and which other processes change.  A handle is given to an  *)
(* object when it is made or first found.                                  *)
(*                                                                         *)
(* Sessions and the login, modelled in full in Sessions, are only closed   *)
(* or open and yes or no here.  A template is what it says of CKA_TOKEN,   *)
(* CKA_PRIVATE and CKA_DESTROYABLE; KeyAttributes has the others.  The     *)
(* handles a search found are those given here: C_FindObjects passes them  *)
(* on later.                                                               *)
(*                                                                         *)
(* FirstFree, PrivateOf, RefusesNothing, UndoneNever, CopiesAny and        *)
(* AsIfNew are the definitions after them with a plausible mistake;        *)
(* nothing uses them.                                                      *)
(***************************************************************************)
EXTENDS Integers, FiniteSets, Functions

CONSTANTS
  SessionHandles,
  MaxUid,          \* bound: objects ever made, one of them built in
  MaxHandle,       \* bound: object handles between two starts
  None             \* no object, no session

Uids       == 1..MaxUid
ObjHandles == 1..MaxHandle
Builtin    == 1                \* one that token_internal_objects_init makes

Template == [token : BOOLEAN, private : BOOLEAN, destroyable : BOOLEAN]
Object   == [token : BOOLEAN, private : BOOLEAN, destroyable : BOOLEAN,
             session : SessionHandles \cup {None},
             login : BOOLEAN]  \* history: made under a login

ASSUME ObjectsAssumption ==
  /\ MaxUid \in Nat \ {0}
  /\ MaxHandle \in Nat \ {0}
  /\ None \notin SessionHandles \cup Nat \cup Object

VARIABLES
  sessions,        \* closed, RO or RW
  logged,          \* Token::logged
  tok,             \* the handles, the session objects and the database
  object,          \* each object, once it is made
  last,            \* history: the last call failed, or was half undone by a
                   \* database that failed twice, or was one of a read-only
                   \* session
  reached,         \* history: the objects it gave access to
  issued           \* history: what each handle was given to

vars == <<sessions, logged, tok, object, last, reached, issued>>

HandleMap == [ObjHandles -> Uids \cup {None}]
Tok == [handles : HandleMap,             \* Handles::map
        next    : 1..(MaxHandle + 1),    \* Handles::next
        held    : HandleMap,             \* session_objects
        db      : SUBSET Uids]           \* token objects

Open     == {s \in SessionHandles : sessions[s] # "closed"}
NoHandle == [h \in ObjHandles |-> None]
-----------------------------------------------------------------------------
(* What a handle names: a session object, or one in the database.          *)
Named(h) == IF tok.held[h] # None THEN tok.held[h]
            ELSE IF tok.handles[h] \in tok.db THEN tok.handles[h] ELSE None

(* get_object_by_handle, get_object_attrs.                                 *)
Hidden(o) == o.token /\ o.private /\ ~logged
Gets(h)   == Named(h) # None /\ ~Hidden(object[Named(h)])

(* fail_if_cka_token_true: in a read-only session a template may not say   *)
(* that it makes a token object.                                           *)
RefusesNothing(s, says) == FALSE
Refuses(s, says)        == sessions[s] = "RO" /\ says

(* Handles::next, Handles::insert.                                         *)
FirstFree(tk)  == CHOOSE h \in 1..tk.next :
                    /\ h = tk.next \/ tk.handles[h] = None
                    /\ \A g \in 1..(h - 1) : tk.handles[g] # None
NextHandle(tk) == tk.next

WithHandle(tk, u) == [tk EXCEPT !.handles[NextHandle(tk)] = u, !.next = @ + 1]

(* Handles for several objects, in the order the database gives them.      *)
Handed(tk, us) ==
  {[tk EXCEPT !.handles = [h \in ObjHandles |-> IF h \in DOMAIN given THEN given[h]
                                                ELSE tk.handles[h]],
              !.next = @ + Cardinality(us)] :
     given \in Bijection(tk.next..(tk.next + Cardinality(us) - 1), us)}

(* insert_object; what it refuses is left to its callers.  The handle of a *)
(* token object is given before the database stores it, or fails to.       *)
Inserted(tk, u, o, stored) ==
  IF ~o.token THEN [WithHandle(tk, u) EXCEPT !.held[NextHandle(tk)] = u]
  ELSE [WithHandle(tk, u) EXCEPT !.db = IF stored THEN @ \cup {u} ELSE @]

(* destroy_object; what the database answers is ignored.                   *)
Dropped(tk, hs) ==
  [tk EXCEPT !.handles = [h \in ObjHandles |-> IF h \in hs THEN None ELSE tk.handles[h]],
             !.held    = [h \in ObjHandles |-> IF h \in hs THEN None ELSE tk.held[h]]]
Destroyed(tk, h, removed) ==
  [Dropped(tk, {h}) EXCEPT !.db = IF tk.held[h] = None /\ removed THEN @ \ {tk.handles[h]} ELSE @]

(* clear_session_objects and clear_private_session_objects.                *)
OwnedBy(h, s) == tok.held[h] # None /\ object[tok.held[h]].session = s
PrivateOf(s)      == {h \in ObjHandles : OwnedBy(h, s) /\ object[tok.held[h]].private}
SessionObjects(s) == {h \in ObjHandles : OwnedBy(h, s)}
PrivateObjects ==
  {h \in ObjHandles : /\ tok.held[h] # None
                      /\ object[tok.held[h]].session # None
                      /\ object[tok.held[h]].private}

(* Objects are made in the order of their uids.                            *)
Fresh(u) == object[u] = None /\ \A w \in 1..(u - 1) : object[w] # None

NewObject(s, t) ==
  [token |-> t.token, private |-> t.private, destroyable |-> t.destroyable,
   session |-> IF t.token THEN None ELSE s, login |-> logged]

Becomes(tk) ==
  /\ tk.next <= MaxHandle + 1
  /\ tok' = tk
  /\ issued' = [h \in ObjHandles |-> IF issued[h] # None THEN issued[h] ELSE tk.handles[h]]

Answer(what, us) == last' = what /\ reached' = us
Failing          == Answer("failed", {})
Quietly          == Answer("other", {})
ReadOnly(s)      == IF sessions[s] = "RO" THEN "RO" ELSE "other"
-----------------------------------------------------------------------------
(* Token::new and Token::initialize make the objects built in.             *)
Started(db) == [handles |-> [NoHandle EXCEPT ![1] = Builtin], next |-> 2,
                held |-> [NoHandle EXCEPT ![1] = Builtin], db |-> db]

Init ==
  /\ sessions = [s \in SessionHandles |-> "closed"]
  /\ logged = FALSE
  /\ tok = Started({})
  /\ object = [u \in Uids |-> IF u # Builtin THEN None ELSE
       [token |-> FALSE, private |-> FALSE, destroyable |-> FALSE,
        session |-> None, login |-> FALSE]]
  /\ last = "other"
  /\ reached = {}
  /\ issued = tok.handles

OpenSession(s, mode) ==
  /\ sessions[s] = "closed"
  /\ sessions' = [sessions EXCEPT ![s] = mode]
  /\ Quietly
  /\ UNCHANGED <<logged, tok, object, issued>>

(* The objects of the session go; with the last session the login too.     *)
CloseSession(s) ==
  LET logout == Open = {s} /\ logged IN
  /\ s \in Open
  /\ sessions' = [sessions EXCEPT ![s] = "closed"]
  /\ logged' = (logged /\ ~logout)
  /\ tok' = Dropped(tok, SessionObjects(s) \cup IF logout THEN PrivateObjects ELSE {})
  /\ Quietly
  /\ UNCHANGED <<object, issued>>

Login ==
  /\ Open # {} /\ ~logged
  /\ logged' = TRUE
  /\ Quietly
  /\ UNCHANGED <<sessions, tok, object, issued>>

Logout ==
  /\ Open # {} /\ logged
  /\ logged' = FALSE
  /\ tok' = Dropped(tok, PrivateObjects)
  /\ Quietly
  /\ UNCHANGED <<sessions, object, issued>>

(* C_CreateObject, C_GenerateKey, C_UnwrapKey, C_DeriveKey of one key.  A  *)
(* token object needs a login, whatever makes it.                          *)
Make(s, u, t, stored) ==
  /\ s \in Open /\ Fresh(u)
  /\ IF Refuses(s, t.token) \/ (t.token /\ ~logged)
     THEN Failing /\ UNCHANGED <<tok, object, issued>>
     ELSE /\ Becomes(Inserted(tok, u, t, stored))
          /\ object' = [object EXCEPT ![u] = NewObject(s, t)]
          /\ Answer(IF t.token => stored THEN ReadOnly(s) ELSE "failed", {})
  /\ UNCHANGED <<sessions, logged>>

(* Functions that make two objects.  If the second cannot be inserted, the *)
(* first is destroyed again, if it may be; what comes of that is ignored.  *)
(* The database may not give what is asked of a token object, or keep it.  *)
Answers == {"removed", "kept", "unread"}

UndoneNever(o, answer) == FALSE
Undone(o, answer)      == o.destroyable /\ (o.token => answer # "unread")

TakenBack(tk, h, o, answer) ==
  IF Undone(o, answer) THEN Destroyed(tk, h, answer = "removed") ELSE tk

MakeBoth(s, u, v, t1, t2, stored, answer) ==
  LET first  == Inserted(tok, u, t1, TRUE)
      second == IF t2.token /\ ~logged THEN first ELSE Inserted(first, v, t2, stored)
      ok     == t2.token => logged /\ stored
  IN
  /\ Becomes(IF ok THEN second ELSE TakenBack(second, NextHandle(tok), t1, answer))
  /\ object' = [object EXCEPT ![u] = NewObject(s, t1), ![v] = NewObject(s, t2)]
  /\ Answer(IF ~ok THEN IF t1.token /\ answer # "removed" THEN "half" ELSE "failed"
            ELSE IF t2.token THEN "other" ELSE ReadOnly(s), {})

(* C_GenerateKeyPair.                                                      *)
MakePair(s, u, v, pub, priv, stored, answer) ==
  /\ s \in Open /\ Fresh(u) /\ v = u + 1 /\ v \in Uids /\ object[v] = None
  /\ IF Refuses(s, pub.token \/ priv.token) \/ (pub.token /\ ~logged)
     THEN Failing /\ UNCHANGED <<tok, object, issued>>
     ELSE MakeBoth(s, u, v, pub, priv, stored, answer)
  /\ UNCHANGED <<sessions, logged>>

(* C_DeriveKey with an additional key, which a template in the mechanism's *)
(* parameters describes.  Only the other template is looked at for         *)
(* CKA_TOKEN in a read-only session.                                       *)
DeriveMore(s, u, v, base, extra, stored, answer) ==
  /\ s \in Open /\ Fresh(u) /\ v = u + 1 /\ v \in Uids /\ object[v] = None
  /\ IF Refuses(s, base.token) \/ (base.token /\ ~logged)
     THEN Failing /\ UNCHANGED <<tok, object, issued>>
     ELSE MakeBoth(s, u, v, base, extra, stored, answer)
  /\ UNCHANGED <<sessions, logged>>

(* C_CopyObject.  The template says what becomes of CKA_TOKEN, or leaves   *)
(* it as in the original; only if it says CK_TRUE a read-only session      *)
(* refuses it.  Those built in cannot be copied.                           *)
CopiesAny(o)   == TRUE
MayCopy(o)     == logged \/ ~o.token \/ ~o.private

Copy(s, h, u, says, private, stored) ==
  LET o == object[Named(h)]
      t == [o EXCEPT !.token = IF says = "same" THEN @ ELSE says = "token", !.private = private]
  IN
  /\ s \in Open /\ Fresh(u)
  /\ IF \/ Refuses(s, says = "token")
        \/ Named(h) \in {None, Builtin}
        \/ ~MayCopy(o)
        \/ t.token /\ ~logged
     THEN Failing /\ UNCHANGED <<tok, object, issued>>
     ELSE /\ Becomes(Inserted(tok, u, t, stored))
          /\ object' = [object EXCEPT ![u] = NewObject(s, t)]
          /\ Answer(IF t.token /\ ~stored THEN "failed"
                     ELSE IF says = "same" THEN "other" ELSE ReadOnly(s), {Named(h)})
  /\ UNCHANGED <<sessions, logged>>

(* C_DestroyObject.                                                        *)
Destroy(s, h, removed) ==
  LET o == object[Named(h)] IN
  /\ s \in Open
  /\ IF Gets(h) /\ ~(o.token /\ sessions[s] = "RO") /\ o.destroyable
     THEN /\ Becomes(Destroyed(tok, h, removed))
          /\ Answer(ReadOnly(s), {Named(h)})
     ELSE UNCHANGED <<tok, issued>> /\ Failing
  /\ UNCHANGED <<sessions, logged, object>>

(* C_GetAttributeValue, and every function that is given a key's handle    *)
(* (not C_GetObjectSize, which checks nothing).                            *)
Use(s, h) ==
  /\ s \in Open
  /\ IF Gets(h) THEN Answer(ReadOnly(s), {Named(h)}) ELSE Failing
  /\ UNCHANGED <<sessions, logged, tok, object, issued>>

(* C_SetAttributeValue of CKA_DESTROYABLE.                                 *)
SetAttribute(s, h, destroyable, stored) ==
  LET o == object[Named(h)] IN
  /\ s \in Open /\ Named(h) # Builtin
  /\ IF Gets(h) /\ (o.token => logged /\ sessions[s] = "RW" /\ stored)
     THEN /\ object' = [object EXCEPT ![Named(h)].destroyable = destroyable]
          /\ Answer(ReadOnly(s), {Named(h)})
     ELSE UNCHANGED object /\ Failing
  /\ UNCHANGED <<sessions, logged, tok, issued>>

(* C_FindObjectsInit; every object matches.  What the database has and no  *)
(* handle was given to gets one.                                           *)
Found == {u \in tok.db : logged \/ ~object[u].private}
AsIfNew(us)    == us
Handleless(us) == {u \in us : \A h \in ObjHandles : tok.handles[h] # u}

Find(s) ==
  /\ s \in Open
  /\ \E tk \in Handed(tok, Handleless(Found)) : Becomes(tk)
  /\ Answer(ReadOnly(s), Found)
  /\ UNCHANGED <<sessions, logged, object>>

(* C_CreateObject of a token object the database has already.  The search  *)
(* for it gives handles; the new attributes replace those of the one found *)
(* if the token is configured so, or else the call fails, as it does when  *)
(* several are found or the database does not store them.                  *)
CreateAgain(s, t, us) ==
  /\ sessions[s] = "RW" /\ logged /\ t.token
  /\ us # {} /\ us \subseteq tok.db
  /\ \E tk \in Handed(tok, Handleless(us)) : Becomes(tk)
  /\ \/ /\ \E u \in us :
            /\ us = {u}
            /\ object' = [object EXCEPT ![u].private = t.private, ![u].destroyable = t.destroyable]
        /\ Answer("other", us)
     \/ UNCHANGED object /\ Failing
  /\ UNCHANGED <<sessions, logged>>

(* C_InitToken, which needs all sessions closed; C_Finalize or a crash,    *)
(* and C_Initialize.  Either forgets all handles.                          *)
Restart(wipe) ==
  /\ wipe => Open = {}
  /\ tok' = Started(IF wipe THEN {} ELSE tok.db)
  /\ sessions' = [s \in SessionHandles |-> "closed"]
  /\ logged' = FALSE
  /\ issued' = tok'.handles
  /\ Quietly
  /\ UNCHANGED object

(* Another process stores an object, or removes one.                       *)
OtherStores(u, private) ==
  /\ Fresh(u)
  /\ object' = [object EXCEPT ![u] = [token |-> TRUE, private |-> private, destroyable |-> TRUE,
                                      session |-> None, login |-> TRUE]]
  /\ tok' = [tok EXCEPT !.db = @ \cup {u}]
  /\ Quietly
  /\ UNCHANGED <<sessions, logged, issued>>

OtherRemoves(u) ==
  /\ u \in tok.db
  /\ tok' = [tok EXCEPT !.db = @ \ {u}]
  /\ Quietly
  /\ UNCHANGED <<sessions, logged, object, issued>>

Next ==
  \/ \E s \in SessionHandles :
       \/ \E mode \in {"RO", "RW"} : OpenSession(s, mode)
       \/ CloseSession(s)
       \/ Find(s)
       \/ \E u \in Uids, stored \in BOOLEAN :
            /\ Fresh(u)
            /\ \/ \E t \in Template : Make(s, u, t, stored)
               \/ \E v \in Uids, t1, t2 \in Template, answer \in Answers :
                    \/ MakePair(s, u, v, t1, t2, stored, answer)
                    \/ DeriveMore(s, u, v, t1, t2, stored, answer)
       \/ \E t \in Template, us \in SUBSET tok.db : CreateAgain(s, t, us)
       \/ \E h \in ObjHandles :
            \/ \E u \in Uids, says \in {"same", "token", "session"}, private, stored \in BOOLEAN :
                 Copy(s, h, u, says, private, stored)
            \/ \E removed \in BOOLEAN : Destroy(s, h, removed)
            \/ Use(s, h)
            \/ \E destroyable, stored \in BOOLEAN : SetAttribute(s, h, destroyable, stored)
  \/ Login
  \/ Logout
  \/ \E wipe \in BOOLEAN : Restart(wipe)
  \/ \E u \in Uids : (\E private \in BOOLEAN : OtherStores(u, private)) \/ OtherRemoves(u)

Spec == Init /\ [][Next]_vars
-----------------------------------------------------------------------------
(* Types of all variables.  Both ways around, the map of handles is a      *)
(* function, as BiHashMap demands; and every session object has its handle.*)
TypeOK ==
  /\ sessions \in [SessionHandles -> {"closed", "RO", "RW"}]
  /\ logged \in BOOLEAN
  /\ tok \in Tok
  /\ object \in [Uids -> Object \cup {None}]
  /\ last \in {"other", "failed", "half", "RO"}
  /\ reached \subseteq Uids
  /\ issued \in HandleMap
  /\ \A h \in ObjHandles :
       /\ tok.held[h] # None => tok.held[h] = tok.handles[h] /\ ~object[tok.held[h]].token
       /\ tok.handles[h] # None => \A g \in ObjHandles : tok.handles[g] = tok.handles[h] => g = h
  /\ \A u \in tok.db : object[u] # None /\ object[u].token

(* A handle never names another object than the one it was given to, until *)
(* the token is opened or initialized anew: not after that object was      *)
(* destroyed here or by another process, and not after a failed call.  The *)
(* application can keep what a search found as long as it likes.           *)
HandlesKeepTheirObject ==
  \A h \in ObjHandles : Named(h) # None => Named(h) = issued[h]

(* Private token objects are reached under a login only, whatever is done  *)
(* with their handle, and however it was come by; except by                *)
(* C_GetObjectSize, which is not among the calls modelled here and checks  *)
(* no login before it answers with a size.                                 *)
PrivateNeedsLogin ==
  \A u \in reached : object[u].token /\ object[u].private => logged

(* No session object outlives its session, and no private one the login it *)
(* was made under.                                                         *)
SessionObjectsEnd ==
  \A h \in ObjHandles : tok.held[h] # None =>
    LET o == object[tok.held[h]] IN
    /\ o.session \in Open \cup {None}
    /\ o.private /\ o.login => logged

(* A call that fails leaves no object, and takes none away.  Two cases are *)
(* excepted, both of a call that makes several objects and could not store *)
(* the last: an object that may not be destroyed stays; and where the      *)
(* database fails a second time, when the first object is taken back, that *)
(* one token object may be left, and no more than it.                      *)
Present(tk) == tk.db \cup {u \in Uids : \E h \in ObjHandles : tk.held[h] = u}

FailedCallsChangeNothing ==
  [][LET left == Present(tok') \ Present(tok) IN
     /\ last' \in {"failed", "half"} => Present(tok) \subseteq Present(tok')
     /\ last' = "failed" => \A u \in left : ~object'[u].destroyable
     /\ last' = "half" => \E u \in Uids : object'[u].token /\ left \subseteq {u}]_vars

(* A read-only session leaves the database as it is.  Two calls are        *)
(* excepted: copying a token object with a template that does not speak of *)
(* CKA_TOKEN, and deriving an additional key whose template says CKA_TOKEN.*)
ReadOnlySessionsOnlyRead ==
  [][last' = "RO" =>
       /\ tok'.db = tok.db
       /\ \A u \in tok.db : object'[u] = object[u]]_vars
=============================================================================
