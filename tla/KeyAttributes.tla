---------------------------- MODULE KeyAttributes ----------------------------
(***************************************************************************)
(* The attributes that protect a secret key through its life: made by      *)
(* C_CreateObject, C_GenerateKey, C_UnwrapKey or C_DeriveKey, copied by    *)
(* C_CopyObject, changed by C_SetAttributeValue, read, wrapped, destroyed  *)
(* (object/factory.rs, object/key.rs, fns/keymgmt.rs,                      *)
(* native/simplekdf.rs).  Which attribute a template may name is decided   *)
(* by the OAFlags of the attribute and by the flags that the function      *)
(* refuses.                                                                *)
(*                                                                         *)
(* A key holds a value, which copies and unwrapped keys share.  The        *)
(* history says how each value came to be, and which values left the       *)
(* token: read in the clear or imported, or wrapped.  Where a key is       *)
(* stored, and what it may be used for, is left out: every key can wrap,   *)
(* unwrap and derive.                                                      *)
(*                                                                         *)
(* MayChangeAny, ConcatLoosest, CopiedAsNew and ReadsSensitive are the     *)
(* definitions after them with a plausible mistake; nothing uses them.     *)
(***************************************************************************)
CONSTANTS
  Keys,            \* the keys, each for one that is made
  Values,          \* the secrets, one for each that is made or imported
  Templates,       \* the templates the application uses
  Claims,          \* the NeverSettable attributes its templates name
  Changed,         \* the attributes it changes with C_SetAttributeValue
  None,            \* not made yet
  Gone             \* destroyed

Attributes == {"SENSITIVE", "EXTRACTABLE", "WRAP_WITH_TRUSTED", "MODIFIABLE", "COPYABLE"}
AllClaims  == {"ALWAYS_SENSITIVE", "NEVER_EXTRACTABLE", "TRUSTED"}

(* CKA_ALWAYS_SENSITIVE and CKA_NEVER_EXTRACTABLE have no default value.   *)
Flag == {"yes", "no", "unset"}

(* How a value came to be.  The last two are mixtures with data, which     *)
(* give a key no less, and one less protected than the base.               *)
How == {"unused", "root", "derived", "concat", "mixed", "exposing"}
YesIf(b) == IF b THEN "yes" ELSE "no"

Key == [attr    : [Attributes -> BOOLEAN],
        value   : Values,
        always  : Flag,
        never   : Flag,
        trusted : BOOLEAN,
        vouched : BOOLEAN]     \* history: the token, not a template, set the flags

(* A template gives these a value, or leaves them their default; it claims *)
(* an attribute by naming it with CK_TRUE.                                 *)
ASSUME KeyAttributesAssumption ==
  /\ Templates \subseteq [Attributes -> BOOLEAN]
  /\ Claims \subseteq AllClaims
  /\ Changed \subseteq Attributes
  /\ {None, Gone} \cap Key = {}

VARIABLES
  keys,            \* the keys there are
  made,            \* history: how each value came to be, and from which others
  clear,           \* history: the values the application has seen
  wrapped,         \* history: the values it was given wrapped
  loose            \* history: the values that came from outside, or whose
                   \* key was once extractable, or that follow from such

vars    == <<keys, made, clear, wrapped, loose>>
history == <<made, clear, wrapped, loose>>
-----------------------------------------------------------------------------
(* ObjectAttr::is, which asks for all of the flags it is given.  What      *)
(* generate, unwrap and derive pass (SettableOnlyOnCreate and              *)
(* NeverSettable) therefore refuses none of the claims; what create passes *)
(* refuses each.                                                           *)
Refused(flags) == flags = {"NeverSettable"}

(* check_set_attributes: the values an attribute can be changed to.        *)
MayChangeAny(a) == BOOLEAN
MayChangeTo(a) ==
  CASE a \in {"SENSITIVE", "WRAP_WITH_TRUSTED"} -> {TRUE}     \* ChangeToTrue
    [] a \in {"EXTRACTABLE", "COPYABLE"}        -> {FALSE}    \* ChangeToFalse
    [] a = "MODIFIABLE"                         -> {}         \* ChangeOnCopy

Unused(v)   == made[v].how = "unused"
New         == {k \in Keys : keys[k] = None}
Existing    == {k \in Keys : keys[k] \notin {None, Gone}}
Put(k, key) == keys' = [keys EXCEPT ![k] = key]
MadeFrom(v, how, from) == made' = [made EXCEPT ![v] = [how |-> how, from |-> from]]

NewKey(t, v, always, never, trusted, vouched) ==
  [attr |-> t, value |-> v, always |-> always, never |-> never,
   trusted |-> trusted, vouched |-> vouched]
-----------------------------------------------------------------------------
Init ==
  /\ keys = [k \in Keys |-> None]
  /\ made = [v \in Values |-> [how |-> "unused", from |-> {}]]
  /\ clear = {}
  /\ wrapped = {}
  /\ loose = {}

(* C_CreateObject: the value is the application's.                         *)
Create(k, v, t, claims) ==
  /\ k \in New /\ Unused(v)
  /\ claims # {} => ~Refused({"NeverSettable"})
  /\ Put(k, NewKey(t, v, "no", "no", "TRUSTED" \in claims, TRUE))
  /\ MadeFrom(v, "root", {})
  /\ clear' = clear \cup {v}
  /\ loose' = loose \cup {v}
  /\ UNCHANGED wrapped

(* C_GenerateKey: default_key_attributes writes over what the template     *)
(* claims, except CKA_TRUSTED.                                             *)
Generate(k, v, t, claims) ==
  /\ k \in New /\ Unused(v)
  /\ claims # {} => ~Refused({"SettableOnlyOnCreate", "NeverSettable"})
  /\ Put(k, NewKey(t, v, YesIf(t["SENSITIVE"]), YesIf(~t["EXTRACTABLE"]),
                   "TRUSTED" \in claims, TRUE))
  /\ MadeFrom(v, "root", {})
  /\ loose' = IF t["EXTRACTABLE"] THEN loose \cup {v} ELSE loose
  /\ UNCHANGED <<clear, wrapped>>

(* C_UnwrapKey of something C_WrapKey gave, or of the application's own.   *)
(* Nothing sets the two flags: they are what the template claims, or unset.*)
UnwrappedFlag(name, claims) == IF name \in claims THEN "yes" ELSE "unset"

Unwrap(k, u, v, t, claims) ==
  /\ k \in New /\ u \in Existing
  /\ Unused(v) \/ v \in wrapped
  /\ claims # {} => ~Refused({"SettableOnlyOnCreate", "NeverSettable"})
  /\ Put(k, NewKey(t, v, UnwrappedFlag("ALWAYS_SENSITIVE", claims),
                   UnwrappedFlag("NEVER_EXTRACTABLE", claims), "TRUSTED" \in claims, FALSE))
  /\ IF Unused(v)
     THEN /\ MadeFrom(v, "root", {})
          /\ clear' = clear \cup {v}
          /\ loose' = loose \cup {v}
     ELSE UNCHANGED <<made, clear, loose>>
  /\ UNCHANGED wrapped

(* internal_key_derive: a flag of the new key can be true only if it is    *)
(* true of the base key.                                                   *)
DerivedKey(base, v, t, claims) ==
  NewKey(t, v, YesIf(base.always = "yes" /\ t["SENSITIVE"]),
         YesIf(base.never = "yes" /\ ~t["EXTRACTABLE"]), "TRUSTED" \in claims, base.vouched)

(* A key derivation whose result does not tell the base key.               *)
Derive(k, b, v, t, claims) ==
  /\ k \in New /\ b \in Existing /\ Unused(v)
  /\ claims # {} => ~Refused({"SettableOnlyOnCreate", "NeverSettable"})
  /\ Put(k, DerivedKey(keys[b], v, t, claims))
  /\ MadeFrom(v, "derived", {keys[b].value})
  /\ loose' = IF t["EXTRACTABLE"] \/ keys[b].value \in loose THEN loose \cup {v} ELSE loose
  /\ UNCHANGED <<clear, wrapped>>

(* CKM_CONCATENATE_BASE_AND_DATA, CKM_CONCATENATE_DATA_AND_BASE,           *)
(* CKM_XOR_BASE_AND_DATA, CKM_EXTRACT_KEY_FROM_KEY: the data is the        *)
(* application's, so that the new value tells the base.  The attributes    *)
(* are those of any derivation: the template may ask for less protection   *)
(* than the base has.                                                      *)
Exposes(t, base) ==
  \/ t["EXTRACTABLE"] /\ ~base["EXTRACTABLE"]
  \/ base["SENSITIVE"] /\ ~t["SENSITIVE"]

Mix(k, b, v, t, claims) ==
  /\ k \in New /\ b \in Existing /\ Unused(v)
  /\ claims # {} => ~Refused({"SettableOnlyOnCreate", "NeverSettable"})
  /\ Put(k, DerivedKey(keys[b], v, t, claims))
  /\ MadeFrom(v, IF Exposes(t, keys[b].attr) THEN "exposing" ELSE "mixed", {keys[b].value})
  /\ loose' = IF t["EXTRACTABLE"] \/ keys[b].value \in loose THEN loose \cup {v} ELSE loose
  /\ UNCHANGED <<clear, wrapped>>

(* CKM_CONCATENATE_BASE_AND_KEY has rules of its own for all four: the new *)
(* key is no less protected than either.                                   *)
ConcatLoosest(b, c, t) ==
  [t EXCEPT !["SENSITIVE"]   = b["SENSITIVE"] \/ c["SENSITIVE"] \/ t["SENSITIVE"],
            !["EXTRACTABLE"] = (b["EXTRACTABLE"] \/ c["EXTRACTABLE"]) /\ t["EXTRACTABLE"]]
ConcatAttributes(b, c, t) ==
  [t EXCEPT !["SENSITIVE"]   = b["SENSITIVE"] \/ c["SENSITIVE"] \/ t["SENSITIVE"],
            !["EXTRACTABLE"] = b["EXTRACTABLE"] /\ c["EXTRACTABLE"] /\ t["EXTRACTABLE"]]

Concatenate(k, b, c, v, t, claims) ==
  LET base  == keys[b]
      other == keys[c]
      attr  == ConcatAttributes(base.attr, other.attr, t)
      from  == {base.value, other.value}
  IN
  /\ k \in New /\ b \in Existing /\ c \in Existing /\ Unused(v)
  /\ claims # {} => ~Refused({"SettableOnlyOnCreate", "NeverSettable"})
  /\ Put(k, NewKey(attr, v,
                   YesIf(base.always # "no" /\ other.always # "no"),
                   YesIf(base.never = "yes" /\ other.never = "yes"),
                   "TRUSTED" \in claims, base.vouched /\ other.vouched))
  /\ MadeFrom(v, "concat", from)
  /\ loose' = IF attr["EXTRACTABLE"] \/ from \subseteq loose THEN loose \cup {v} ELSE loose
  /\ UNCHANGED <<clear, wrapped>>

(* C_CopyObject: default_copy does not look at NeverSettable, and of the   *)
(* others lets only CKA_MODIFIABLE change.  It works out the two flags     *)
(* again, one from the copy, the other from the original.                  *)
CopiedAsNew(origin, claims) == ~origin.attr["EXTRACTABLE"]
CopiedNever(origin, claims) ==
  /\ ~origin.attr["EXTRACTABLE"]
  /\ "NEVER_EXTRACTABLE" \in claims \/ origin.never # "no"
CopiedAlways(origin) == origin.attr["SENSITIVE"] /\ origin.always # "no"

Copy(k, o, modifiable, claims) ==
  LET origin == keys[o] IN
  /\ k \in New /\ o \in Existing
  /\ origin.attr["COPYABLE"]
  /\ Put(k, NewKey([origin.attr EXCEPT !["MODIFIABLE"] = modifiable], origin.value,
                   YesIf(CopiedAlways(origin)), YesIf(CopiedNever(origin, claims)),
                   origin.trusted \/ "TRUSTED" \in claims,
                   origin.vouched /\ "NEVER_EXTRACTABLE" \notin claims))
  /\ UNCHANGED history

(* C_SetAttributeValue.                                                    *)
SetAttribute(k, a, val) ==
  /\ k \in Existing
  /\ keys[k].attr["MODIFIABLE"]
  /\ val \in MayChangeTo(a)
  /\ keys' = [keys EXCEPT ![k].attr[a] = val]
  /\ UNCHANGED history

(* C_GetAttributeValue of CKA_VALUE.                                       *)
ReadsSensitive(attr) == attr["EXTRACTABLE"]
Readable(attr)       == ~attr["SENSITIVE"] /\ attr["EXTRACTABLE"]

Read(k) ==
  /\ k \in Existing
  /\ Readable(keys[k].attr)
  /\ clear' = clear \cup {keys[k].value}
  /\ UNCHANGED <<keys, made, wrapped, loose>>

(* C_WrapKey of k under w.                                                 *)
Wrap(k, w) ==
  /\ k \in Existing /\ w \in Existing
  /\ keys[k].attr["EXTRACTABLE"]
  /\ keys[k].attr["WRAP_WITH_TRUSTED"] => keys[w].trusted
  /\ wrapped' = wrapped \cup {keys[k].value}
  /\ UNCHANGED <<keys, made, clear, loose>>

(* C_DestroyObject, or the end of the session of a session key.            *)
Destroy(k) ==
  /\ k \in Existing
  /\ Put(k, Gone)
  /\ UNCHANGED history

Next ==
  \/ \E k \in Keys, v \in Values, t \in Templates, claims \in SUBSET Claims :
       \/ Create(k, v, t, claims)
       \/ Generate(k, v, t, claims)
       \/ \E u \in Keys : Unwrap(k, u, v, t, claims)
       \/ \E b \in Keys : Derive(k, b, v, t, claims) \/ Mix(k, b, v, t, claims)
       \/ \E b, c \in Keys : Concatenate(k, b, c, v, t, claims)
  \/ \E k, o \in Keys, t \in Templates, claims \in SUBSET Claims :
       Copy(k, o, t["MODIFIABLE"], claims)
  \/ \E k \in Keys, a \in Changed, val \in BOOLEAN : SetAttribute(k, a, val)
  \/ \E k \in Keys : Read(k)
  \/ \E k, w \in Keys : Wrap(k, w)
  \/ \E k \in Keys : Destroy(k)

Spec == Init /\ [][Next]_vars
-----------------------------------------------------------------------------
(* Types of all variables; what an existing key holds has an origin; and   *)
(* only an unwrapped key, or one a template spoke for, lacks a flag.       *)
TypeOK ==
  /\ keys \in [Keys -> Key \cup {None, Gone}]
  /\ made \in [Values -> [how : How, from : SUBSET Values]]
  /\ clear \subseteq Values
  /\ wrapped \subseteq Values
  /\ loose \subseteq Values
  /\ \A k \in Existing :
       /\ ~Unused(keys[k].value)
       /\ keys[k].vouched => "unset" \notin {keys[k].always, keys[k].never}

(* Whoever knows all that a value was made from knows it.  A concatenation *)
(* tells what it was made from, and so does a mixture with data.           *)
(*                                                                         *)
(* An exposing mixture tells its base as well.  It is not counted here:    *)
(* the application asked for a new key less protected than the base, and   *)
(* the token, which should refuse, made it.  What the two properties below *)
(* promise is therefore what cannot be worked out without undoing an       *)
(* exposing mixture; of a base that went into one they promise nothing     *)
(* about what that mixture gives away.                                     *)
Closed(known) ==
  \A v \in Values :
    made[v].how \notin {"unused", "root"} =>
      /\ made[v].from \subseteq known => v \in known
      /\ made[v].how \in {"concat", "mixed"} /\ v \in known => made[v].from \subseteq known

Follows(known) ==
  {v \in Values : \A more \in SUBSET Values : known \subseteq more /\ Closed(more) => v \in more}

(* CKA_NEVER_EXTRACTABLE, where the token set it, means it: the value was  *)
(* never brought in, read, wrapped, nor follows from values that were,     *)
(* through copies, changed attributes, derived keys, keys put together     *)
(* and keys mixed with data, an exposing mixture excepted (see Closed).    *)
NeverExtractableKept ==
  \A k \in Existing :
    keys[k].vouched /\ keys[k].never = "yes" => keys[k].value \notin Follows(clear \cup wrapped)

(* CKA_ALWAYS_SENSITIVE, where the token set it, means it: unless it was   *)
(* wrapped the value was never seen in the clear, nor follows from what    *)
(* was, an exposing mixture excepted (see Closed).                         *)
AlwaysSensitiveKept ==
  \A k \in Existing :
    keys[k].vouched /\ keys[k].always = "yes" /\ keys[k].value \notin Follows(wrapped)
      => keys[k].value \notin Follows(clear)

(* The flags agree with the attributes they speak of, where the token set  *)
(* them: no way of making, copying or changing a key leaves a key that     *)
(* says "always sensitive" but is not sensitive now.                       *)
FlagsAgree ==
  \A k \in Existing :
    keys[k].vouched =>
      /\ keys[k].always = "yes" => keys[k].attr["SENSITIVE"]
      /\ keys[k].never = "yes" => ~keys[k].attr["EXTRACTABLE"]
=============================================================================
