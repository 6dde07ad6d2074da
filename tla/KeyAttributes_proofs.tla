------------------------ MODULE KeyAttributes_proofs ------------------------
(***************************************************************************)
(* For any keys, values and templates: an inductive invariant of           *)
(* KeyAttributes, and the promises of CKA_NEVER_EXTRACTABLE and            *)
(* CKA_ALWAYS_SENSITIVE that follow.                                       *)
(*                                                                         *)
(* NeverExtractableKept speaks of everything that follows from what left   *)
(* the token, which no step can be checked against on its own.  The        *)
(* invariant therefore bounds it by loose: what left the token is loose,   *)
(* loose is closed under what follows, and a key whose flag the token      *)
(* vouches for has a value that is not.                                    *)
(***************************************************************************)
EXTENDS KeyAttributes, TLAPS

(* What holds of a key, given how values were made and which are loose.    *)
Good(key, m, l) ==
  /\ key \in Key
  /\ m[key.value].how # "unused"
  /\ key.vouched => key.always # "unset" /\ key.never # "unset"
  /\ key.attr["EXTRACTABLE"] => key.value \in l
  /\ key.vouched /\ key.never = "yes" => key.value \notin l
  /\ key.vouched /\ key.always = "yes" => key.attr["SENSITIVE"]

KeysGood == \A k \in Keys : keys[k] \notin {None, Gone} => Good(keys[k], made, loose)

ValuesOK ==
  /\ made \in [Values -> [how : How, from : SUBSET Values]]
  /\ \A v \in Values : \A w \in made[v].from : ~Unused(w)
  /\ loose \subseteq Values
  /\ \A v \in loose : ~Unused(v)
  /\ clear \subseteq loose
  /\ wrapped \subseteq loose
  /\ Closed(loose)

IInv ==
  /\ keys \in [Keys -> Key \cup {None, Gone}]
  /\ KeysGood
  /\ ValuesOK
-----------------------------------------------------------------------------
LEMMA InitIInv == Init => IInv
  BY KeyAttributesAssumption DEF Init, IInv, KeysGood, ValuesOK, Closed, Unused, How

(* A new key in a free place, when nothing else about keys changes.        *)
LEMMA PutGood ==
  ASSUME IInv, NEW k \in Keys, NEW key, Put(k, key), Good(key, made', loose'),
         \A old \in Key : Good(old, made, loose) => Good(old, made', loose')
  PROVE  /\ keys' \in [Keys -> Key \cup {None, Gone}]
         /\ KeysGood'
<1>1. key \in Key
  BY DEF Good
<1>2. keys' \in [Keys -> Key \cup {None, Gone}]
  BY <1>1 DEF IInv, Put
<1>3. ASSUME NEW j \in Keys, keys'[j] \notin {None, Gone}
      PROVE  Good(keys'[j], made', loose')
  <2>1. CASE j = k
    BY <2>1 DEF IInv, Put
  <2>2. CASE j # k
    <3>1. keys'[j] = keys[j] /\ keys[j] \in Key
      BY <2>2, <1>3 DEF IInv, Put
    <3> QED
      BY <3>1, <1>3 DEF IInv, KeysGood
  <2> QED
    BY <2>1, <2>2
<1> QED
  BY <1>2, <1>3 DEF KeysGood

(* A value that is made from used ones, loose or not as they are.          *)
LEMMA NewValue ==
  ASSUME IInv, NEW v \in Values, Unused(v), NEW how \in How \ {"unused"},
         NEW from \in SUBSET Values, MadeFrom(v, how, from),
         \A w \in from : ~Unused(w),
         loose' \in {loose, loose \cup {v}},
         how # "root" /\ from \subseteq loose => v \in loose',
         how \in {"concat", "mixed"} /\ v \in loose' => from \subseteq loose,
         clear' \subseteq loose', wrapped' \subseteq loose'
  PROVE  /\ ValuesOK'
         /\ \A old \in Key : Good(old, made, loose) => Good(old, made', loose')
         /\ made'[v].how # "unused"
<1>1. /\ made' \in [Values -> [how : How, from : SUBSET Values]]
      /\ made'[v] = [how |-> how, from |-> from]
      /\ \A w \in Values \ {v} : made'[w] = made[w]
  BY DEF IInv, ValuesOK, MadeFrom
<1>2. v \notin loose /\ \A w \in Values : v \notin made[w].from
  BY DEF IInv, ValuesOK, Unused
<1>3. \A w \in Values : \A x \in made'[w].from : made'[x].how # "unused"
  <2> SUFFICES ASSUME NEW w \in Values, NEW x \in made'[w].from
               PROVE  made'[x].how # "unused"
    OBVIOUS
  <2>1. x \in Values
    BY <1>1
  <2>2. x # v => made[x].how # "unused"
    BY <1>1 DEF IInv, ValuesOK, Unused
  <2> QED
    BY <2>1, <2>2, <1>1
<1>4. loose' \subseteq Values /\ \A w \in loose' : made'[w].how # "unused"
  BY <1>1 DEF IInv, ValuesOK, Unused
<1>5. ASSUME NEW w \in Values, made'[w].how \notin {"unused", "root"}
      PROVE  /\ made'[w].from \subseteq loose' => w \in loose'
             /\ made'[w].how \in {"concat", "mixed"} /\ w \in loose' => made'[w].from \subseteq loose'
  <2>1. CASE w = v
    <3>1. v \notin from
      BY DEF Unused
    <3>2. from \subseteq loose' => from \subseteq loose
      BY <3>1
    <3> QED
      BY <2>1, <3>2, <1>1, <1>5
  <2>2. CASE w # v
    <3>1. made'[w] = made[w] /\ v \notin made[w].from
      BY <2>2, <1>1, <1>2
    <3>2. /\ made[w].from \subseteq loose => w \in loose
          /\ made[w].how \in {"concat", "mixed"} /\ w \in loose => made[w].from \subseteq loose
      BY <3>1, <1>5 DEF IInv, ValuesOK, Closed
    <3>3. made[w].from \subseteq loose' => made[w].from \subseteq loose
      BY <3>1
    <3> QED
      BY <3>1, <3>2, <3>3, <2>2
  <2> QED
    BY <2>1, <2>2
<1>6. ValuesOK'
  BY <1>1, <1>3, <1>4, <1>5 DEF ValuesOK, Closed, Unused
<1>7. ASSUME NEW old \in Key, Good(old, made, loose)
      PROVE  Good(old, made', loose')
  <2>1. old.value \in Values /\ old.value # v
    BY <1>7 DEF Good, Unused, Key
  <2> QED
    BY <2>1, <1>1, <1>7 DEF Good
<1> QED
  BY <1>1, <1>6, <1>7

(* Nothing about the values changes but what the application knows.        *)
LEMMA SameValues ==
  ASSUME IInv, made' = made, loose' = loose, clear' \subseteq loose, wrapped' \subseteq loose
  PROVE  /\ ValuesOK'
         /\ \A old \in Key : Good(old, made, loose) => Good(old, made', loose')
  BY DEF IInv, ValuesOK, Closed, Unused

LEMMA SameKeys ==
  ASSUME IInv, keys' = keys, made' = made, loose' = loose
  PROVE  keys' \in [Keys -> Key \cup {None, Gone}] /\ KeysGood'
  BY DEF IInv, KeysGood

LEMMA YesIfFlag ==
  ASSUME NEW b \in BOOLEAN
  PROVE  YesIf(b) \in Flag /\ YesIf(b) # "unset" /\ (YesIf(b) = "yes" <=> b)
  BY DEF YesIf, Flag

LEMMA ExistingKey ==
  ASSUME IInv, NEW k \in Existing
  PROVE  k \in Keys /\ keys[k] \in Key /\ Good(keys[k], made, loose)
  BY DEF IInv, Existing, KeysGood, Good
-----------------------------------------------------------------------------
LEMMA CreateIInv ==
  ASSUME IInv, NEW k \in Keys, NEW v \in Values, NEW t \in Templates,
         NEW claims \in SUBSET Claims, Create(k, v, t, claims)
  PROVE  IInv'
<1> DEFINE key == NewKey(t, v, "no", "no", "TRUSTED" \in claims, TRUE)
<1>1. /\ key \in Key /\ key.attr = t /\ key.value = v /\ key.always = "no"
      /\ key.never = "no" /\ key.vouched
  BY KeyAttributesAssumption DEF NewKey, Key, Flag
<1>2. /\ ValuesOK' /\ made'[v].how # "unused"
      /\ \A old \in Key : Good(old, made, loose) => Good(old, made', loose')
  <2>1. clear' \subseteq loose' /\ wrapped' \subseteq loose'
    BY DEF Create, IInv, ValuesOK
  <2>2. MadeFrom(v, "root", {}) /\ Unused(v) /\ loose' = loose \cup {v}
    BY DEF Create
  <2>3. "root" \in How \ {"unused"} /\ {} \in SUBSET Values /\ \A w \in {} : ~Unused(w)
    BY DEF How
  <2> QED
    BY <2>1, <2>2, <2>3, NewValue
<1>3. Good(key, made', loose')
  BY <1>1, <1>2 DEF Good, Create
<1> QED
  BY <1>2, <1>3, PutGood DEF Create, IInv

LEMMA GenerateIInv ==
  ASSUME IInv, NEW k \in Keys, NEW v \in Values, NEW t \in Templates,
         NEW claims \in SUBSET Claims, Generate(k, v, t, claims)
  PROVE  IInv'
<1> DEFINE key == NewKey(t, v, YesIf(t["SENSITIVE"]), YesIf(~t["EXTRACTABLE"]),
                         "TRUSTED" \in claims, TRUE)
<1>1. t \in [Attributes -> BOOLEAN] /\ t["SENSITIVE"] \in BOOLEAN /\ t["EXTRACTABLE"] \in BOOLEAN
  BY KeyAttributesAssumption DEF Attributes
<1>2. /\ key \in Key /\ key.attr = t /\ key.value = v
      /\ key.always = YesIf(t["SENSITIVE"]) /\ key.never = YesIf(~t["EXTRACTABLE"])
  <2>1. YesIf(t["SENSITIVE"]) \in Flag /\ YesIf(~t["EXTRACTABLE"]) \in Flag
    BY <1>1, YesIfFlag
  <2> QED
    BY <1>1, <2>1 DEF NewKey, Key
<1>3. /\ ValuesOK' /\ made'[v].how # "unused"
      /\ \A old \in Key : Good(old, made, loose) => Good(old, made', loose')
  <2>1. clear' \subseteq loose' /\ wrapped' \subseteq loose'
    BY DEF Generate, IInv, ValuesOK
  <2> QED
    BY <2>1, NewValue DEF Generate, How
<1>4. v \notin loose
  BY DEF Generate, IInv, ValuesOK
<1>5. Good(key, made', loose')
  BY <1>1, <1>2, <1>3, <1>4, YesIfFlag DEF Good, Generate
<1> QED
  BY <1>3, <1>5, PutGood DEF Generate, IInv

LEMMA UnwrapIInv ==
  ASSUME IInv, NEW k \in Keys, NEW u \in Keys, NEW v \in Values, NEW t \in Templates,
         NEW claims \in SUBSET Claims, Unwrap(k, u, v, t, claims)
  PROVE  IInv'
<1> DEFINE key == NewKey(t, v, UnwrappedFlag("ALWAYS_SENSITIVE", claims),
                         UnwrappedFlag("NEVER_EXTRACTABLE", claims), "TRUSTED" \in claims, FALSE)
<1>1. key \in Key /\ key.attr = t /\ key.value = v /\ ~key.vouched
  <2>1. /\ UnwrappedFlag("ALWAYS_SENSITIVE", claims) \in Flag
        /\ UnwrappedFlag("NEVER_EXTRACTABLE", claims) \in Flag
    BY DEF UnwrappedFlag, Flag
  <2> QED
    BY <2>1, KeyAttributesAssumption DEF NewKey, Key
<1>2. /\ ValuesOK' /\ made'[v].how # "unused" /\ v \in loose'
      /\ \A old \in Key : Good(old, made, loose) => Good(old, made', loose')
  <2>1. CASE Unused(v)
    <3>1. /\ MadeFrom(v, "root", {}) /\ clear' = clear \cup {v}
          /\ loose' = loose \cup {v} /\ wrapped' = wrapped
      BY <2>1 DEF Unwrap
    <3>2. clear' \subseteq loose' /\ wrapped' \subseteq loose'
      BY <3>1 DEF IInv, ValuesOK
    <3> QED
      BY <2>1, <3>1, <3>2, NewValue DEF How
  <2>2. CASE ~Unused(v)
    <3>1. /\ made' = made /\ clear' = clear /\ loose' = loose /\ wrapped' = wrapped
          /\ v \in wrapped
      BY <2>2 DEF Unwrap
    <3> QED
      BY <2>2, <3>1, SameValues DEF IInv, ValuesOK, Unused
  <2> QED
    BY <2>1, <2>2
<1>3. Good(key, made', loose')
  BY <1>1, <1>2 DEF Good
<1> QED
  BY <1>2, <1>3, PutGood DEF Unwrap, IInv

(* What C_DeriveKey does whatever the mechanism, save how the value is made.*)
Derived(k, b, v, t, claims, how) ==
  /\ k \in New /\ b \in Existing /\ Unused(v)
  /\ Put(k, DerivedKey(keys[b], v, t, claims))
  /\ MadeFrom(v, how, {keys[b].value})
  /\ loose' = IF t["EXTRACTABLE"] \/ keys[b].value \in loose THEN loose \cup {v} ELSE loose
  /\ clear' = clear /\ wrapped' = wrapped

LEMMA DeriveOrMix ==
  ASSUME NEW k \in Keys, NEW b \in Keys, NEW v \in Values, NEW t \in Templates,
         NEW claims \in SUBSET Claims, Derive(k, b, v, t, claims) \/ Mix(k, b, v, t, claims)
  PROVE  \E how \in {"derived", "mixed", "exposing"} :
           /\ Derived(k, b, v, t, claims, how)
           /\ how = "mixed" => ~Exposes(t, keys[b].attr)
<1>1. CASE Derive(k, b, v, t, claims)
  BY <1>1 DEF Derive, Derived
<1>2. CASE Mix(k, b, v, t, claims) /\ Exposes(t, keys[b].attr)
  BY <1>2 DEF Mix, Derived
<1>3. CASE Mix(k, b, v, t, claims) /\ ~Exposes(t, keys[b].attr)
  BY <1>3 DEF Mix, Derived
<1> QED
  BY <1>1, <1>2, <1>3

LEMMA DerivedIInv ==
  ASSUME IInv, NEW k \in Keys, NEW b \in Keys, NEW v \in Values, NEW t \in Templates,
         NEW claims \in SUBSET Claims, NEW how \in {"derived", "mixed", "exposing"},
         Derived(k, b, v, t, claims, how),
         how = "mixed" => ~Exposes(t, keys[b].attr)
  PROVE  IInv'
<1> DEFINE base == keys[b]
           always == base.always = "yes" /\ t["SENSITIVE"]
           never == base.never = "yes" /\ ~t["EXTRACTABLE"]
           key == DerivedKey(base, v, t, claims)
<1>1. t \in [Attributes -> BOOLEAN] /\ t["SENSITIVE"] \in BOOLEAN /\ t["EXTRACTABLE"] \in BOOLEAN
  BY KeyAttributesAssumption DEF Attributes
<1>2. base \in Key /\ Good(base, made, loose)
  BY ExistingKey DEF Derived
<1>3. base.vouched \in BOOLEAN /\ base.value \in Values
  BY <1>2 DEF Key
<1>4. /\ key \in Key /\ key.attr = t /\ key.value = v /\ key.vouched = base.vouched
      /\ key.always = YesIf(always) /\ key.never = YesIf(never)
  <2>1. always \in BOOLEAN /\ never \in BOOLEAN
    BY <1>1
  <2>2. YesIf(always) \in Flag /\ YesIf(never) \in Flag
    BY <2>1, YesIfFlag
  <2> QED
    BY <1>1, <1>3, <2>2 DEF DerivedKey, NewKey, Key
<1>5. v \notin loose /\ made[base.value].how # "unused"
  BY <1>2 DEF Derived, IInv, ValuesOK, Good
<1>6. /\ ValuesOK' /\ made'[v].how # "unused"
      /\ \A old \in Key : Good(old, made, loose) => Good(old, made', loose')
  <2>1. clear' \subseteq loose' /\ wrapped' \subseteq loose'
    BY DEF Derived, IInv, ValuesOK
  <2>2. \A w \in {base.value} : ~Unused(w)
    BY <1>5 DEF Unused
  <2>3. QED
    <3>1. how \in How \ {"unused"} /\ how # "root" /\ how # "concat" /\ {base.value} \in SUBSET Values
      BY <1>3 DEF How
    <3>2. how = "mixed" /\ v \in loose' => base.value \in loose
      BY <1>1, <1>2, <1>5 DEF Derived, Exposes, Good
    <3>3. base.value \in loose => v \in loose'
      BY DEF Derived
    <3>4. /\ MadeFrom(v, how, {base.value}) /\ Unused(v)
          /\ loose' \in {loose, loose \cup {v}}
      BY DEF Derived
    <3> QED
      BY <2>1, <2>2, <3>1, <3>2, <3>3, <3>4, NewValue
<1>7. Good(key, made', loose')
  <2>1. /\ key.always # "unset" /\ key.never # "unset"
        /\ key.always = "yes" => t["SENSITIVE"]
        /\ key.never = "yes" => base.never = "yes" /\ ~t["EXTRACTABLE"]
    BY <1>1, <1>4, YesIfFlag
  <2>2. t["EXTRACTABLE"] => v \in loose'
    BY DEF Derived
  <2>3. base.vouched /\ key.never = "yes" => v \notin loose'
    BY <2>1, <1>2, <1>5 DEF Derived, Good
  <2> QED
    BY <2>1, <2>2, <2>3, <1>4, <1>6 DEF Good
<1> QED
  BY <1>6, <1>7, PutGood DEF Derived, IInv

LEMMA ConcatenateIInv ==
  ASSUME IInv, NEW k \in Keys, NEW b \in Keys, NEW c \in Keys, NEW v \in Values,
         NEW t \in Templates, NEW claims \in SUBSET Claims, Concatenate(k, b, c, v, t, claims)
  PROVE  IInv'
<1> DEFINE base   == keys[b]
           other  == keys[c]
           attr   == ConcatAttributes(base.attr, other.attr, t)
           from   == {base.value, other.value}
           always == base.always # "no" /\ other.always # "no"
           never  == base.never = "yes" /\ other.never = "yes"
           key    == NewKey(attr, v, YesIf(always), YesIf(never), "TRUSTED" \in claims,
                            base.vouched /\ other.vouched)
<1>1. /\ base \in Key /\ Good(base, made, loose)
      /\ other \in Key /\ Good(other, made, loose)
  BY ExistingKey DEF Concatenate
<1>2. /\ attr \in [Attributes -> BOOLEAN]
      /\ attr["EXTRACTABLE"] => base.attr["EXTRACTABLE"] /\ other.attr["EXTRACTABLE"]
      /\ base.attr["SENSITIVE"] => attr["SENSITIVE"]
  <2>1. /\ t \in [Attributes -> BOOLEAN] /\ base.attr \in [Attributes -> BOOLEAN]
        /\ other.attr \in [Attributes -> BOOLEAN]
    BY <1>1, KeyAttributesAssumption DEF Key
  <2> QED
    BY <2>1 DEF ConcatAttributes, Attributes
<1>3. /\ base.vouched \in BOOLEAN /\ other.vouched \in BOOLEAN
      /\ from \in SUBSET Values
      /\ base.always \in Flag /\ other.always \in Flag
  BY <1>1 DEF Key
<1>4. /\ key \in Key /\ key.attr = attr /\ key.value = v
      /\ key.vouched = (base.vouched /\ other.vouched)
      /\ key.always = YesIf(always) /\ key.never = YesIf(never)
  <2>1. always \in BOOLEAN /\ never \in BOOLEAN
    OBVIOUS
  <2>2. YesIf(always) \in Flag /\ YesIf(never) \in Flag
    BY <2>1, YesIfFlag
  <2>3. (base.vouched /\ other.vouched) \in BOOLEAN
    BY <1>3
  <2> QED
    BY <1>2, <2>2, <2>3 DEF NewKey, Key
<1>5. v \notin loose /\ \A w \in from : ~Unused(w)
  BY <1>1 DEF Concatenate, IInv, ValuesOK, Good, Unused
<1>6. /\ MadeFrom(v, "concat", from)
      /\ loose' = IF attr["EXTRACTABLE"] \/ from \subseteq loose THEN loose \cup {v} ELSE loose
      /\ clear' = clear /\ wrapped' = wrapped
  BY DEF Concatenate
<1>7. attr["EXTRACTABLE"] => from \subseteq loose
  BY <1>1, <1>2 DEF Good
<1>8. /\ ValuesOK' /\ made'[v].how # "unused"
      /\ \A old \in Key : Good(old, made, loose) => Good(old, made', loose')
  <2>1. clear' \subseteq loose' /\ wrapped' \subseteq loose'
    BY <1>6 DEF IInv, ValuesOK
  <2>2. /\ from \subseteq loose => v \in loose'
        /\ v \in loose' => from \subseteq loose
        /\ loose' \in {loose, loose \cup {v}}
    BY <1>5, <1>6, <1>7
  <2>3. Unused(v)
    BY DEF Concatenate
  <2> HIDE DEF from
  <2> QED
    BY <2>1, <2>2, <2>3, <1>3, <1>5, <1>6, NewValue DEF How
<1>9. Good(key, made', loose')
  <2>1. /\ key.always # "unset" /\ key.never # "unset"
        /\ key.always = "yes" <=> always
        /\ key.never = "yes" <=> never
    BY <1>4, YesIfFlag
  <2>2. attr["EXTRACTABLE"] => v \in loose'
    BY <1>6
  <2>3. key.vouched /\ key.never = "yes" => v \notin loose'
    <3> SUFFICES ASSUME key.vouched, key.never = "yes"
                 PROVE  v \notin loose'
      OBVIOUS
    <3>1. base.value \notin loose
      BY <1>1, <1>4, <2>1 DEF Good
    <3> QED
      BY <3>1, <1>5, <1>6, <1>7
  <2>4. key.vouched /\ key.always = "yes" => attr["SENSITIVE"]
    <3> SUFFICES ASSUME key.vouched, key.always = "yes"
                 PROVE  attr["SENSITIVE"]
      OBVIOUS
    <3>1. base.always = "yes"
      BY <1>1, <1>3, <1>4, <2>1 DEF Good, Flag
    <3> QED
      BY <3>1, <1>1, <1>2, <1>4 DEF Good
  <2> HIDE DEF key, attr
  <2> QED
    BY <2>1, <2>2, <2>3, <2>4, <1>4, <1>8 DEF Good
<1> QED
  BY <1>8, <1>9, PutGood DEF Concatenate, IInv

LEMMA CopyIInv ==
  ASSUME IInv, NEW k \in Keys, NEW o \in Keys, NEW modifiable \in BOOLEAN,
         NEW claims \in SUBSET Claims, Copy(k, o, modifiable, claims)
  PROVE  IInv'
<1> DEFINE origin  == keys[o]
           attr    == [origin.attr EXCEPT !["MODIFIABLE"] = modifiable]
           vouched == origin.vouched /\ "NEVER_EXTRACTABLE" \notin claims
           trusted == origin.trusted \/ "TRUSTED" \in claims
           key     == NewKey(attr, origin.value, YesIf(CopiedAlways(origin)),
                             YesIf(CopiedNever(origin, claims)), trusted, vouched)
<1>1. origin \in Key /\ Good(origin, made, loose)
  BY ExistingKey DEF Copy
<1>2. /\ origin.attr \in [Attributes -> BOOLEAN] /\ origin.value \in Values
      /\ origin.vouched \in BOOLEAN /\ origin.trusted \in BOOLEAN /\ origin.never \in Flag
  BY <1>1 DEF Key
<1>3. /\ attr \in [Attributes -> BOOLEAN]
      /\ attr["EXTRACTABLE"] = origin.attr["EXTRACTABLE"]
      /\ attr["SENSITIVE"] = origin.attr["SENSITIVE"]
  BY <1>2 DEF Attributes
<1>4. /\ CopiedAlways(origin) \in BOOLEAN /\ CopiedNever(origin, claims) \in BOOLEAN
      /\ CopiedAlways(origin) => origin.attr["SENSITIVE"]
  BY <1>2 DEF CopiedAlways, CopiedNever, Attributes
<1>5. /\ key \in Key /\ key.attr = attr /\ key.value = origin.value /\ key.vouched = vouched
      /\ key.always = YesIf(CopiedAlways(origin)) /\ key.never = YesIf(CopiedNever(origin, claims))
  <2>1. YesIf(CopiedAlways(origin)) \in Flag /\ YesIf(CopiedNever(origin, claims)) \in Flag
    BY <1>4, YesIfFlag
  <2>2. vouched \in BOOLEAN /\ trusted \in BOOLEAN
    BY <1>2
  <2> HIDE DEF attr, vouched, trusted
  <2> QED
    BY <1>2, <1>3, <2>1, <2>2 DEF NewKey, Key
<1>6. /\ ValuesOK'
      /\ \A old \in Key : Good(old, made, loose) => Good(old, made', loose')
  BY SameValues DEF Copy, history, IInv, ValuesOK
<1>7. made' = made /\ loose' = loose
  BY DEF Copy, history
<1>8. Good(key, made', loose')
  <2>1. /\ key.always # "unset" /\ key.never # "unset"
        /\ key.always = "yes" <=> CopiedAlways(origin)
        /\ key.never = "yes" <=> CopiedNever(origin, claims)
    BY <1>4, <1>5, YesIfFlag
  <2>2. vouched /\ CopiedNever(origin, claims) => origin.vouched /\ origin.never = "yes"
    BY <1>1, <1>2 DEF CopiedNever, Good, Flag
  <2> QED
    BY <2>1, <2>2, <1>1, <1>3, <1>4, <1>5, <1>7 DEF Good
<1> QED
  BY <1>6, <1>8, PutGood DEF Copy, IInv

LEMMA SetAttributeIInv ==
  ASSUME IInv, NEW k \in Keys, NEW a \in Changed, NEW val \in BOOLEAN, SetAttribute(k, a, val)
  PROVE  IInv'
<1> DEFINE old == keys[k]
           key == [old EXCEPT !.attr[a] = val]
<1>1. old \in Key /\ Good(old, made, loose) /\ a \in Attributes
  BY ExistingKey, KeyAttributesAssumption DEF SetAttribute
<1>2. Put(k, key)
  BY DEF SetAttribute, Put
<1>3. made' = made /\ loose' = loose /\ clear' = clear /\ wrapped' = wrapped
  BY DEF SetAttribute, history
<1>4. /\ key \in Key /\ key.value = old.value /\ key.vouched = old.vouched
      /\ key.always = old.always /\ key.never = old.never
      /\ key.attr = [old.attr EXCEPT ![a] = val]
  BY <1>1 DEF Key
<1>5. /\ key.attr["EXTRACTABLE"] => old.attr["EXTRACTABLE"]
      /\ old.attr["SENSITIVE"] => key.attr["SENSITIVE"]
  <2>1. /\ a = "SENSITIVE" => val = TRUE
        /\ a = "EXTRACTABLE" => val = FALSE
    BY DEF SetAttribute, MayChangeTo
  <2>2. old.attr \in [Attributes -> BOOLEAN]
    BY <1>1 DEF Key
  <2> QED
    BY <2>1, <2>2, <1>1, <1>4 DEF Attributes
<1>6. Good(key, made', loose')
  BY <1>1, <1>3, <1>4, <1>5 DEF Good
<1>7. /\ ValuesOK'
      /\ \A j \in Key : Good(j, made, loose) => Good(j, made', loose')
  BY <1>3, SameValues DEF IInv, ValuesOK
<1> HIDE DEF key
<1> QED
  BY <1>2, <1>6, <1>7, PutGood DEF IInv

LEMMA ReadIInv ==
  ASSUME IInv, NEW k \in Keys, Read(k)
  PROVE  IInv'
<1>1. Good(keys[k], made, loose)
  BY ExistingKey DEF Read
<1>2. clear' \subseteq loose /\ wrapped' \subseteq loose
  BY <1>1 DEF Read, Readable, Good, IInv, ValuesOK
<1> QED
  BY <1>2, SameValues, SameKeys DEF Read, IInv

LEMMA WrapIInv ==
  ASSUME IInv, NEW k \in Keys, NEW w \in Keys, Wrap(k, w)
  PROVE  IInv'
<1>1. Good(keys[k], made, loose)
  BY ExistingKey DEF Wrap
<1>2. clear' \subseteq loose /\ wrapped' \subseteq loose
  BY <1>1 DEF Wrap, Good, IInv, ValuesOK
<1> QED
  BY <1>2, SameValues, SameKeys DEF Wrap, IInv

LEMMA DestroyIInv ==
  ASSUME IInv, NEW k \in Keys, Destroy(k)
  PROVE  IInv'
<1>1. keys' = [keys EXCEPT ![k] = Gone] /\ made' = made /\ loose' = loose
      /\ clear' = clear /\ wrapped' = wrapped
  BY DEF Destroy, Put, history
<1>2. keys' \in [Keys -> Key \cup {None, Gone}] /\ KeysGood'
  BY <1>1 DEF IInv, KeysGood
<1> QED
  BY <1>1, <1>2, SameValues DEF IInv, ValuesOK

LEMMA NextIInv == IInv /\ [Next]_vars => IInv'
<1> SUFFICES ASSUME IInv, [Next]_vars
             PROVE  IInv'
  OBVIOUS
<1>1. ASSUME NEW k \in Keys, NEW v \in Values, NEW t \in Templates, NEW claims \in SUBSET Claims,
             \/ Create(k, v, t, claims)
             \/ Generate(k, v, t, claims)
             \/ \E u \in Keys : Unwrap(k, u, v, t, claims)
             \/ \E b \in Keys : Derive(k, b, v, t, claims) \/ Mix(k, b, v, t, claims)
             \/ \E b, c \in Keys : Concatenate(k, b, c, v, t, claims)
      PROVE  IInv'
  <2>1. ASSUME NEW b \in Keys, Derive(k, b, v, t, claims) \/ Mix(k, b, v, t, claims)
        PROVE  IInv'
    BY <2>1, DeriveOrMix, DerivedIInv
  <2> QED
    BY <1>1, <2>1, CreateIInv, GenerateIInv, UnwrapIInv, ConcatenateIInv
<1>2. ASSUME NEW k \in Keys, NEW o \in Keys, NEW t \in Templates, NEW claims \in SUBSET Claims,
             Copy(k, o, t["MODIFIABLE"], claims)
      PROVE  IInv'
  <2>1. t["MODIFIABLE"] \in BOOLEAN
    BY KeyAttributesAssumption DEF Attributes
  <2> QED
    BY <1>2, <2>1, CopyIInv
<1>3. ASSUME NEW k \in Keys, NEW a \in Changed, NEW val \in BOOLEAN, SetAttribute(k, a, val)
      PROVE  IInv'
  BY <1>3, SetAttributeIInv
<1>4. CASE UNCHANGED vars
  BY <1>4, SameKeys, SameValues DEF vars, IInv, ValuesOK
<1> QED
  BY <1>1, <1>2, <1>3, <1>4, ReadIInv, WrapIInv, DestroyIInv DEF Next
-----------------------------------------------------------------------------
(* The inductive invariant: what left the token is loose, loose is closed  *)
(* under what follows, and every key agrees with its flags.                *)
THEOREM KeyInvariance == Spec => []IInv
<1> QED
  BY InitIInv, NextIInv, PTL DEF Spec

(* Every variable keeps its type, and every key there is holds a value of  *)
(* known origin, whatever made, copied or changed it.                      *)
THEOREM KeysTypeCorrect == Spec => []TypeOK
<1>1. IInv => TypeOK
  BY DEF IInv, KeysGood, Good, ValuesOK, TypeOK, Existing, Unused, How
<1> QED
  BY <1>1, KeyInvariance, PTL

(* CKA_ALWAYS_SENSITIVE and CKA_NEVER_EXTRACTABLE as set by the key        *)
(* factories agree with CKA_SENSITIVE and CKA_EXTRACTABLE now.             *)
THEOREM KeyFlagsAgree == Spec => []FlagsAgree
<1>1. IInv => FlagsAgree
  BY DEF IInv, KeysGood, Good, FlagsAgree, Existing
<1> QED
  BY <1>1, KeyInvariance, PTL

(* A key the token calls never extractable has a value nobody outside has, *)
(* nor can work out from what C_GetAttributeValue and C_WrapKey gave.      *)
THEOREM NeverExtractableHolds == Spec => []NeverExtractableKept
<1>1. ASSUME IInv
      PROVE  NeverExtractableKept
  <2>1. Follows(clear \cup wrapped) \subseteq loose
    BY <1>1 DEF Follows, IInv, ValuesOK
  <2> QED
    BY <1>1, <2>1 DEF NeverExtractableKept, IInv, KeysGood, Good, Existing
<1> QED
  BY <1>1, KeyInvariance, PTL
-----------------------------------------------------------------------------
(***************************************************************************)
(* AlwaysSensitiveKept has an exception, for what follows from the wrapped *)
(* values, which grows by whole chains of values at one C_WrapKey.  The    *)
(* history has no variable for it, so the invariant asks for two sets:     *)
(* guarded, the values that a key was once vouched always sensitive for,   *)
(* made from guarded values only; and known, those the application could   *)
(* know, all it has seen and all that a key would show it among them.      *)
(* What is in both follows from the wrapped values.                        *)
(***************************************************************************)
KeyGuarded(key, guarded, known) ==
  /\ key.attr["SENSITIVE"] \/ key.value \in known
  /\ key.vouched /\ key.always = "yes" => key.value \in guarded

KeysGuarded(guarded, known) ==
  \A k \in Keys : keys[k] \notin {None, Gone} => KeyGuarded(keys[k], guarded, known)

ValuesGuarded(guarded, known) ==
  /\ \A v \in guarded \cup known : ~Unused(v)
  /\ \A v \in guarded : made[v].from \subseteq guarded
  /\ Closed(known)
  /\ clear \subseteq known /\ wrapped \subseteq known
  /\ guarded \cap known \subseteq Follows(wrapped)

SensitiveInv ==
  \E guarded, known \in SUBSET Values :
    KeysGuarded(guarded, known) /\ ValuesGuarded(guarded, known)

(* What follows from some values is known with them, and is least.         *)
LEMMA FollowsClosed ==
  ASSUME made \in [Values -> [how : How, from : SUBSET Values]],
         NEW known \in SUBSET Values
  PROVE  /\ known \subseteq Follows(known) /\ Follows(known) \subseteq Values
         /\ Closed(Follows(known))
         /\ \A more \in SUBSET Values : known \subseteq more /\ Closed(more) => Follows(known) \subseteq more
<1>1. known \subseteq Follows(known) /\ Follows(known) \subseteq Values
  BY DEF Follows
<1>2. \A more \in SUBSET Values : known \subseteq more /\ Closed(more) => Follows(known) \subseteq more
  BY DEF Follows
<1>3. ASSUME NEW v \in Values, made[v].how \notin {"unused", "root"}
      PROVE  /\ made[v].from \subseteq Follows(known) => v \in Follows(known)
             /\ made[v].how \in {"concat", "mixed"} /\ v \in Follows(known) =>
                  made[v].from \subseteq Follows(known)
  <2>1. ASSUME made[v].from \subseteq Follows(known)
        PROVE  v \in Follows(known)
    <3>1. ASSUME NEW more \in SUBSET Values, known \subseteq more, Closed(more)
          PROVE  v \in more
      <4>1. made[v].from \subseteq more
        BY <1>2, <2>1, <3>1
      <4> QED
        BY <1>3, <3>1, <4>1 DEF Closed
    <3> QED
      BY <3>1 DEF Follows
  <2>2. ASSUME made[v].how \in {"concat", "mixed"}, v \in Follows(known), NEW w \in made[v].from
        PROVE  w \in Follows(known)
    <3>1. ASSUME NEW more \in SUBSET Values, known \subseteq more, Closed(more)
          PROVE  w \in more
      <4>1. v \in more
        BY <1>2, <2>2, <3>1
      <4> QED
        BY <2>2, <3>1, <4>1 DEF Closed
    <3>2. w \in Values
      BY <2>2
    <3> QED
      BY <3>1, <3>2 DEF Follows
  <2> QED
    BY <2>1, <2>2
<1> QED
  BY <1>1, <1>2, <1>3 DEF Closed

(* A new key, when guarded and known can only have grown.                  *)
LEMMA PutGuarded ==
  ASSUME IInv, NEW guarded, NEW known, KeysGuarded(guarded, known),
         NEW k \in Keys, NEW key, Put(k, key),
         NEW guarded2, NEW known2, guarded \subseteq guarded2, known \subseteq known2,
         KeyGuarded(key, guarded2, known2)
  PROVE  KeysGuarded(guarded2, known2)'
<1> SUFFICES ASSUME NEW j \in Keys, keys'[j] \notin {None, Gone}
             PROVE  KeyGuarded(keys'[j], guarded2, known2)
  BY DEF KeysGuarded, KeyGuarded
<1>1. CASE j = k
  BY <1>1 DEF IInv, Put
<1>2. CASE j # k
  <2>1. keys'[j] = keys[j]
    BY <1>2 DEF IInv, Put
  <2> QED
    BY <2>1 DEF KeysGuarded, KeyGuarded
<1> QED
  BY <1>1, <1>2

(* A new value, made from used ones.                                       *)
LEMMA ValueGuarded ==
  ASSUME IInv, NEW guarded \in SUBSET Values, NEW known \in SUBSET Values,
         ValuesGuarded(guarded, known),
         NEW v \in Values, Unused(v), NEW how \in How \ {"unused"},
         NEW from \in SUBSET Values, MadeFrom(v, how, from), \A w \in from : ~Unused(w),
         NEW guarded2 \in SUBSET Values, NEW known2 \in SUBSET Values,
         guarded2 = guarded \/ guarded2 = guarded \cup {v},
         known2 = known \/ known2 = known \cup {v},
         v \in guarded2 => from \subseteq guarded,
         how # "root" /\ from \subseteq known => v \in known2,
         how \in {"concat", "mixed"} /\ v \in known2 => from \subseteq known,
         v \in guarded2 /\ v \in known2 => how # "root" /\ from \subseteq known,
         clear' \subseteq known2, wrapped' = wrapped
  PROVE  ValuesGuarded(guarded2, known2)'
<1>1. /\ made \in [Values -> [how : How, from : SUBSET Values]]
      /\ made' \in [Values -> [how : How, from : SUBSET Values]]
      /\ made'[v] = [how |-> how, from |-> from]
      /\ \A w \in Values \ {v} : made'[w] = made[w]
  BY DEF IInv, ValuesOK, MadeFrom
<1>2. /\ v \notin known /\ v \notin guarded /\ v \notin from
      /\ \A w \in Values : v \notin made[w].from
  BY DEF ValuesGuarded, IInv, ValuesOK
<1>3. \A w \in guarded2 \cup known2 : made'[w].how # "unused"
  BY <1>1, <1>2 DEF ValuesGuarded, Unused
<1>4. \A w \in guarded2 : made'[w].from \subseteq guarded2
  <2> SUFFICES ASSUME NEW w \in guarded2
               PROVE  made'[w].from \subseteq guarded2
    OBVIOUS
  <2>1. CASE w = v
    BY <2>1, <1>1
  <2>2. CASE w # v
    BY <2>2, <1>1 DEF ValuesGuarded
  <2> QED
    BY <2>1, <2>2
<1>5. ASSUME NEW w \in Values, made'[w].how \notin {"unused", "root"}
      PROVE  /\ made'[w].from \subseteq known2 => w \in known2
             /\ made'[w].how \in {"concat", "mixed"} /\ w \in known2 => made'[w].from \subseteq known2
  <2>1. CASE w = v
    <3>1. from \subseteq known2 => from \subseteq known
      BY <1>2
    <3> QED
      BY <2>1, <3>1, <1>1, <1>5
  <2>2. CASE w # v
    <3>1. made'[w] = made[w] /\ v \notin made[w].from
      BY <2>2, <1>1, <1>2
    <3>2. /\ made[w].from \subseteq known => w \in known
          /\ made[w].how \in {"concat", "mixed"} /\ w \in known => made[w].from \subseteq known
      BY <3>1, <1>5 DEF ValuesGuarded, Closed
    <3>3. made[w].from \subseteq known2 => made[w].from \subseteq known
      BY <3>1
    <3> QED
      BY <3>1, <3>2, <3>3, <2>2
  <2> QED
    BY <2>1, <2>2
<1>6. ASSUME NEW w \in guarded2 \cap known2
      PROVE  w \in Follows(wrapped)'
  <2> SUFFICES ASSUME NEW more \in SUBSET Values, wrapped \subseteq more, Closed(more)'
               PROVE  w \in more
    BY DEF Follows
  <2>1. \A x \in Values :
          made'[x].how \notin {"unused", "root"} =>
            /\ made'[x].from \subseteq more => x \in more
            /\ made'[x].how \in {"concat", "mixed"} /\ x \in more => made'[x].from \subseteq more
    BY DEF Closed
  <2>2. Closed(more)
    <3> SUFFICES ASSUME NEW x \in Values, made[x].how \notin {"unused", "root"}
                 PROVE  /\ made[x].from \subseteq more => x \in more
                        /\ made[x].how \in {"concat", "mixed"} /\ x \in more => made[x].from \subseteq more
      BY DEF Closed
    <3>1. x # v
      BY DEF Unused
    <3> QED
      BY <3>1, <2>1, <1>1
  <2>3. guarded \cap known \subseteq more
    BY <2>2 DEF ValuesGuarded, Follows
  <2>4. CASE w = v
    <3>1. how \notin {"unused", "root"} /\ from \subseteq guarded \cap known
      BY <2>4, <1>6 DEF How
    <3> QED
      BY <3>1, <2>1, <2>3, <2>4, <1>1
  <2>5. CASE w # v
    BY <2>3, <2>5, <1>6
  <2> QED
    BY <2>4, <2>5
<1>7. clear' \subseteq known2 /\ wrapped' \subseteq known2
  BY DEF ValuesGuarded
<1> QED
  BY <1>3, <1>4, <1>5, <1>6, <1>7 DEF ValuesGuarded, Unused, Closed

(* Nothing about the values changes, and nothing is wrapped.               *)
LEMMA SameGuarded ==
  ASSUME NEW guarded, NEW known, ValuesGuarded(guarded, known),
         made' = made, wrapped' = wrapped, clear' \subseteq known
  PROVE  ValuesGuarded(guarded, known)'
  BY DEF ValuesGuarded, Unused, Closed, Follows

(* When one more value is wrapped, known grows by what follows from it,    *)
(* together with what was known.                                           *)
Upward(more) ==
  \A v \in Values : made[v].how \notin {"unused", "root"} /\ made[v].from \subseteq more => v \in more
Above(base) ==
  {v \in Values : \A more \in SUBSET Values : base \subseteq more /\ Upward(more) => v \in more}

LEMMA AboveLeast ==
  ASSUME NEW base \in SUBSET Values
  PROVE  /\ base \subseteq Above(base) /\ Above(base) \subseteq Values
         /\ Upward(Above(base))
         /\ \A more \in SUBSET Values : base \subseteq more /\ Upward(more) => Above(base) \subseteq more
<1>1. base \subseteq Above(base) /\ Above(base) \subseteq Values
  BY DEF Above
<1>2. \A more \in SUBSET Values : base \subseteq more /\ Upward(more) => Above(base) \subseteq more
  BY DEF Above
<1>3. ASSUME NEW v \in Values, made[v].how \notin {"unused", "root"},
             made[v].from \subseteq Above(base)
      PROVE  v \in Above(base)
  <2>1. ASSUME NEW more \in SUBSET Values, base \subseteq more, Upward(more)
        PROVE  v \in more
    <3>1. made[v].from \subseteq more
      BY <1>2, <1>3, <2>1
    <3> QED
      BY <1>3, <2>1, <3>1 DEF Upward
  <2> QED
    BY <2>1 DEF Above
<1> QED
  BY <1>1, <1>2, <1>3 DEF Upward

(* What a value is concatenated from stays known with it: a value that is  *)
(* not in the base is there because all it was made from is.               *)
LEMMA AboveClosed ==
  ASSUME NEW base \in SUBSET Values,
         \A v \in base : made[v].how \in {"concat", "mixed"} => made[v].from \subseteq base
  PROVE  Closed(Above(base))
<1> DEFINE up == Above(base)
           more == {v \in up : v \in base \/ made[v].from \subseteq up}
<1>1. /\ base \subseteq up /\ up \subseteq Values /\ Upward(up)
      /\ \A m \in SUBSET Values : base \subseteq m /\ Upward(m) => up \subseteq m
  BY AboveLeast
<1> HIDE DEF up
<1>2. base \subseteq more /\ more \in SUBSET Values
  BY <1>1
<1>3. Upward(more)
  BY <1>1 DEF Upward
<1>4. up \subseteq more
  BY <1>1, <1>2, <1>3
<1>5. ASSUME NEW v \in Values, made[v].how \in {"concat", "mixed"}, v \in up
      PROVE  made[v].from \subseteq up
  BY <1>1, <1>4, <1>5
<1> QED
  BY <1>1, <1>5 DEF Closed, Upward, up

LEMMA WrappedGuarded ==
  ASSUME IInv, NEW guarded \in SUBSET Values, NEW known \in SUBSET Values,
         ValuesGuarded(guarded, known),
         made' = made, loose' = loose, clear' = clear,
         wrapped' \in SUBSET loose, wrapped \subseteq wrapped'
  PROVE  \E known2 \in SUBSET Values : known \subseteq known2 /\ ValuesGuarded(guarded, known2)'
<1>1. /\ made \in [Values -> [how : How, from : SUBSET Values]]
      /\ loose \in SUBSET Values /\ Closed(loose) /\ \A v \in loose : ~Unused(v)
      /\ wrapped' \in SUBSET Values
  BY DEF IInv, ValuesOK
<1>2. PICK follows \in SUBSET Values :
        /\ follows = Follows(wrapped')
        /\ wrapped' \subseteq follows /\ Closed(follows) /\ follows \subseteq loose
  <2>1. wrapped' \subseteq loose
    OBVIOUS
  <2>2. /\ wrapped' \subseteq Follows(wrapped') /\ Follows(wrapped') \subseteq Values
        /\ Closed(Follows(wrapped')) /\ Follows(wrapped') \subseteq loose
    BY <1>1, <2>1, FollowsClosed
  <2> QED
    BY <2>2
<1>3. Follows(wrapped) \subseteq follows
  BY <1>2 DEF Follows
<1>4. (Follows(wrapped))' = follows
  BY <1>2 DEF Follows, Closed
<1>5. PICK base \in SUBSET Values : base = follows \cup known
  OBVIOUS
<1>6. PICK known2 \in SUBSET Values :
        /\ base \subseteq known2 /\ Closed(known2)
        /\ \A m \in SUBSET Values : base \subseteq m /\ Upward(m) => known2 \subseteq m
  <2>1. \A v \in base : made[v].how \in {"concat", "mixed"} => made[v].from \subseteq base
    BY <1>2, <1>5 DEF ValuesGuarded, Closed
  <2>2. /\ base \subseteq Above(base) /\ Above(base) \subseteq Values /\ Closed(Above(base))
        /\ \A m \in SUBSET Values : base \subseteq m /\ Upward(m) => Above(base) \subseteq m
    BY <2>1, AboveLeast, AboveClosed
  <2> QED
    BY <2>2
<1>7. \A v \in known2 : ~Unused(v)
  <2> DEFINE used == {v \in Values : ~Unused(v)}
  <2>1. base \subseteq used
    BY <1>1, <1>2, <1>5 DEF ValuesGuarded
  <2>2. Upward(used)
    BY DEF Upward, Unused
  <2> QED
    BY <1>6, <2>1, <2>2
<1>8. guarded \cap known2 \subseteq follows
  <2> DEFINE fine == {v \in Values : v \in guarded => v \in follows}
  <2>1. base \subseteq fine
    BY <1>3, <1>5 DEF ValuesGuarded
  <2>2. ASSUME NEW v \in Values, made[v].how \notin {"unused", "root"}, made[v].from \subseteq fine
        PROVE  v \in fine
    <3>1. CASE v \in guarded
      <4>1. made[v].from \subseteq follows
        BY <2>2, <3>1 DEF ValuesGuarded
      <4> QED
        BY <1>2, <2>2, <4>1 DEF Closed
    <3> QED
      BY <3>1
  <2>3. Upward(fine)
    BY <2>2 DEF Upward
  <2> QED
    BY <1>6, <2>1, <2>3
<1>9. ValuesGuarded(guarded, known2)'
  <2>1. clear' \subseteq known2 /\ wrapped' \subseteq known2
    BY <1>2, <1>5, <1>6 DEF ValuesGuarded
  <2>2. /\ \A v \in guarded \cup known2 : ~Unused(v)
        /\ \A v \in guarded : made[v].from \subseteq guarded
    BY <1>7 DEF ValuesGuarded
  <2>3. (\A v \in guarded \cup known2 : ~Unused(v))' /\ Closed(known2)'
    BY <1>6, <2>2 DEF Unused, Closed
  <2> QED
    BY <1>4, <1>8, <2>1, <2>2, <2>3 DEF ValuesGuarded
<1> QED
  BY <1>5, <1>6, <1>9

(* A new value that is made from none.                                     *)
LEMMA RootGuarded ==
  ASSUME IInv, NEW guarded \in SUBSET Values, NEW known \in SUBSET Values,
         ValuesGuarded(guarded, known),
         NEW v \in Values, Unused(v), MadeFrom(v, "root", {}),
         NEW guarded2 \in SUBSET Values, NEW known2 \in SUBSET Values,
         guarded2 = guarded \/ guarded2 = guarded \cup {v},
         known2 = known \/ known2 = known \cup {v},
         v \notin guarded2 \/ v \notin known2,
         clear' \subseteq known2, wrapped' = wrapped
  PROVE  ValuesGuarded(guarded2, known2)'
<1>1. PICK from \in SUBSET Values : from = {}
  OBVIOUS
<1>2. PICK how \in How \ {"unused"} : how = "root"
  BY DEF How
<1>3. MadeFrom(v, how, from)
  BY <1>1, <1>2
<1>4. /\ \A w \in from : ~Unused(w)
      /\ v \in guarded2 => from \subseteq guarded
      /\ how # "root" /\ from \subseteq known => v \in known2
      /\ how \in {"concat", "mixed"} /\ v \in known2 => from \subseteq known
      /\ v \in guarded2 /\ v \in known2 => how # "root" /\ from \subseteq known
  BY <1>1, <1>2
<1> QED
  BY <1>3, <1>4, ValueGuarded
-----------------------------------------------------------------------------
LEMMA CreateGuarded ==
  ASSUME IInv, NEW guarded \in SUBSET Values, NEW known \in SUBSET Values,
         KeysGuarded(guarded, known), ValuesGuarded(guarded, known),
         NEW k \in Keys, NEW v \in Values, NEW t \in Templates,
         NEW claims \in SUBSET Claims, Create(k, v, t, claims)
  PROVE  SensitiveInv'
<1> DEFINE key == NewKey(t, v, "no", "no", "TRUSTED" \in claims, TRUE)
<1>1. PICK known2 \in SUBSET Values : known2 = known \cup {v}
  OBVIOUS
<1>2. KeyGuarded(key, guarded, known2)
  BY <1>1 DEF KeyGuarded, NewKey
<1>3. KeysGuarded(guarded, known2)'
  <2>1. Put(k, key)
    BY DEF Create
  <2> HIDE DEF key
  <2> QED
    BY <1>1, <1>2, <2>1, PutGuarded
<1>4. ValuesGuarded(guarded, known2)'
  <2>1. /\ Unused(v) /\ MadeFrom(v, "root", {}) /\ wrapped' = wrapped
        /\ clear' \subseteq known2 /\ v \notin guarded
    BY <1>1 DEF Create, ValuesGuarded
  <2> QED
    BY <1>1, <2>1, RootGuarded
<1> QED
  BY <1>3, <1>4 DEF SensitiveInv

LEMMA GenerateGuarded ==
  ASSUME IInv, NEW guarded \in SUBSET Values, NEW known \in SUBSET Values,
         KeysGuarded(guarded, known), ValuesGuarded(guarded, known),
         NEW k \in Keys, NEW v \in Values, NEW t \in Templates,
         NEW claims \in SUBSET Claims, Generate(k, v, t, claims)
  PROVE  SensitiveInv'
<1> DEFINE key == NewKey(t, v, YesIf(t["SENSITIVE"]), YesIf(~t["EXTRACTABLE"]),
                         "TRUSTED" \in claims, TRUE)
<1>1. t["SENSITIVE"] \in BOOLEAN
  BY KeyAttributesAssumption DEF Attributes
<1>2. PICK guarded2 \in SUBSET Values :
        guarded2 = IF t["SENSITIVE"] THEN guarded \cup {v} ELSE guarded
  OBVIOUS
<1>3. PICK known2 \in SUBSET Values :
        known2 = IF t["SENSITIVE"] THEN known ELSE known \cup {v}
  OBVIOUS
<1>4. KeyGuarded(key, guarded2, known2)
  BY <1>1, <1>2, <1>3, YesIfFlag DEF KeyGuarded, NewKey
<1>5. KeysGuarded(guarded2, known2)'
  <2>1. Put(k, key)
    BY DEF Generate
  <2> HIDE DEF key
  <2> QED
    BY <1>2, <1>3, <1>4, <2>1, PutGuarded
<1>6. ValuesGuarded(guarded2, known2)'
  <2>1. /\ Unused(v) /\ MadeFrom(v, "root", {}) /\ wrapped' = wrapped
        /\ clear' \subseteq known2 /\ v \notin guarded /\ v \notin known
    BY <1>3 DEF Generate, ValuesGuarded
  <2> QED
    BY <1>2, <1>3, <2>1, RootGuarded
<1> QED
  BY <1>5, <1>6 DEF SensitiveInv

LEMMA UnwrapGuarded ==
  ASSUME IInv, NEW guarded \in SUBSET Values, NEW known \in SUBSET Values,
         KeysGuarded(guarded, known), ValuesGuarded(guarded, known),
         NEW k \in Keys, NEW u \in Keys, NEW v \in Values, NEW t \in Templates,
         NEW claims \in SUBSET Claims, Unwrap(k, u, v, t, claims)
  PROVE  SensitiveInv'
<1> DEFINE key == NewKey(t, v, UnwrappedFlag("ALWAYS_SENSITIVE", claims),
                         UnwrappedFlag("NEVER_EXTRACTABLE", claims), "TRUSTED" \in claims, FALSE)
<1>1. PICK known2 \in SUBSET Values : known2 = known \cup {v}
  OBVIOUS
<1>2. KeyGuarded(key, guarded, known2)
  BY <1>1 DEF KeyGuarded, NewKey
<1>3. KeysGuarded(guarded, known2)'
  <2>1. Put(k, key)
    BY DEF Unwrap
  <2> HIDE DEF key
  <2> QED
    BY <1>1, <1>2, <2>1, PutGuarded
<1>4. ValuesGuarded(guarded, known2)'
  <2>1. CASE Unused(v)
    <3>1. /\ MadeFrom(v, "root", {}) /\ wrapped' = wrapped
          /\ clear' \subseteq known2 /\ v \notin guarded
      BY <1>1, <2>1 DEF Unwrap, ValuesGuarded
    <3> QED
      BY <1>1, <2>1, <3>1, RootGuarded
  <2>2. CASE ~Unused(v)
    <3>1. known2 = known /\ made' = made /\ wrapped' = wrapped /\ clear' \subseteq known
      BY <1>1, <2>2 DEF Unwrap, ValuesGuarded
    <3> QED
      BY <3>1, SameGuarded
  <2> QED
    BY <2>1, <2>2
<1> QED
  BY <1>3, <1>4 DEF SensitiveInv

LEMMA DerivedGuarded ==
  ASSUME IInv, NEW guarded \in SUBSET Values, NEW known \in SUBSET Values,
         KeysGuarded(guarded, known), ValuesGuarded(guarded, known),
         NEW k \in Keys, NEW b \in Keys, NEW v \in Values, NEW t \in Templates,
         NEW claims \in SUBSET Claims, NEW how \in {"derived", "mixed", "exposing"},
         Derived(k, b, v, t, claims, how),
         how = "mixed" => ~Exposes(t, keys[b].attr)
  PROVE  SensitiveInv'
<1>1. PICK base \in Key :
        base = keys[b] /\ Good(base, made, loose) /\ KeyGuarded(base, guarded, known)
  BY ExistingKey DEF Derived, Existing, KeysGuarded
<1> DEFINE always == base.always = "yes" /\ t["SENSITIVE"]
           key    == DerivedKey(base, v, t, claims)
<1>2. t["SENSITIVE"] \in BOOLEAN /\ base.value \in Values
  BY <1>1, KeyAttributesAssumption DEF Attributes, Key
<1>3. PICK guarded2 \in SUBSET Values :
        guarded2 = IF base.vouched /\ always THEN guarded \cup {v} ELSE guarded
  OBVIOUS
<1>4. PICK known2 \in SUBSET Values :
        known2 = IF base.value \in known \/ ~t["SENSITIVE"] THEN known \cup {v} ELSE known
  OBVIOUS
<1>5. KeyGuarded(key, guarded2, known2)
  <2>1. key.attr = t /\ key.value = v /\ key.vouched = base.vouched /\ key.always = YesIf(always)
    BY DEF DerivedKey, NewKey
  <2>2. key.always = "yes" => always
    BY <1>2, <2>1, YesIfFlag
  <2>3. key.attr["SENSITIVE"] \/ key.value \in known2
    BY <2>1, <1>2, <1>4
  <2>4. key.vouched /\ key.always = "yes" => key.value \in guarded2
    BY <2>1, <2>2, <1>3
  <2> QED
    BY <2>3, <2>4 DEF KeyGuarded
<1>6. KeysGuarded(guarded2, known2)'
  <2>1. Put(k, key)
    BY <1>1 DEF Derived
  <2> HIDE DEF key
  <2> QED
    BY <1>3, <1>4, <1>5, <2>1, PutGuarded
<1>7. ValuesGuarded(guarded2, known2)'
  <2>1. PICK from \in SUBSET Values : from = {base.value}
    BY <1>2
  <2>2. PICK way \in How \ {"unused"} : way = how /\ way # "root" /\ way # "concat"
    BY DEF How
  <2>3. Unused(v) /\ MadeFrom(v, way, from) /\ wrapped' = wrapped /\ \A w \in from : ~Unused(w)
    BY <1>1, <2>1, <2>2 DEF Derived, Good, Unused
  <2>4. /\ guarded2 = guarded \/ guarded2 = guarded \cup {v}
        /\ known2 = known \/ known2 = known \cup {v}
        /\ v \notin known /\ v \notin guarded /\ clear' \subseteq known2
    BY <1>3, <1>4 DEF Derived, ValuesGuarded
  <2>5. v \in guarded2 => from \subseteq guarded
    BY <1>1, <1>3, <2>1, <2>4 DEF KeyGuarded
  <2>6. /\ way # "root" /\ from \subseteq known => v \in known2
        /\ way \in {"concat", "mixed"} /\ v \in known2 => from \subseteq known
    <3>1. way = "mixed" /\ ~t["SENSITIVE"] => base.value \in known
      BY <1>1, <2>2 DEF Exposes, KeyGuarded
    <3> QED
      BY <3>1, <1>4, <2>1, <2>2, <2>4
  <2>7. v \in guarded2 /\ v \in known2 => way # "root" /\ from \subseteq known
    BY <1>3, <1>4, <2>1, <2>2, <2>4
  <2> QED
    BY <2>3, <2>4, <2>5, <2>6, <2>7, ValueGuarded
<1> QED
  BY <1>6, <1>7 DEF SensitiveInv

LEMMA ConcatenateGuarded ==
  ASSUME IInv, NEW guarded \in SUBSET Values, NEW known \in SUBSET Values,
         KeysGuarded(guarded, known), ValuesGuarded(guarded, known),
         NEW k \in Keys, NEW b \in Keys, NEW c \in Keys, NEW v \in Values,
         NEW t \in Templates, NEW claims \in SUBSET Claims, Concatenate(k, b, c, v, t, claims)
  PROVE  SensitiveInv'
<1>1. PICK base \in Key :
        base = keys[b] /\ Good(base, made, loose) /\ KeyGuarded(base, guarded, known)
  BY ExistingKey DEF Concatenate, Existing, KeysGuarded
<1>2. PICK other \in Key :
        other = keys[c] /\ Good(other, made, loose) /\ KeyGuarded(other, guarded, known)
  BY ExistingKey DEF Concatenate, Existing, KeysGuarded
<1> DEFINE attr   == ConcatAttributes(base.attr, other.attr, t)
           always == base.always # "no" /\ other.always # "no"
           never  == base.never = "yes" /\ other.never = "yes"
           both   == base.vouched /\ other.vouched
           key    == NewKey(attr, v, YesIf(always), YesIf(never), "TRUSTED" \in claims, both)
<1>3. ~attr["SENSITIVE"] => ~base.attr["SENSITIVE"] /\ ~other.attr["SENSITIVE"]
  <2>1. t \in [Attributes -> BOOLEAN]
    BY KeyAttributesAssumption
  <2> QED
    BY <2>1 DEF ConcatAttributes, Attributes
<1>4. PICK from \in SUBSET Values : from = {base.value, other.value}
  BY DEF Key
<1>5. PICK guarded2 \in SUBSET Values :
        guarded2 = IF both /\ always THEN guarded \cup {v} ELSE guarded
  OBVIOUS
<1>6. PICK known2 \in SUBSET Values :
        known2 = IF from \subseteq known THEN known \cup {v} ELSE known
  OBVIOUS
<1>7. KeyGuarded(key, guarded2, known2)
  <2>1. key.attr = attr /\ key.value = v /\ key.vouched = both /\ key.always = YesIf(always)
    BY DEF NewKey
  <2>2. key.always = "yes" => always
    BY <2>1, YesIfFlag
  <2>3. key.attr["SENSITIVE"] \/ key.value \in known2
    BY <2>1, <1>1, <1>2, <1>3, <1>4, <1>6 DEF KeyGuarded
  <2>4. key.vouched /\ key.always = "yes" => key.value \in guarded2
    BY <2>1, <2>2, <1>5
  <2> HIDE DEF key
  <2> QED
    BY <2>3, <2>4 DEF KeyGuarded
<1>8. KeysGuarded(guarded2, known2)'
  <2>1. Put(k, key)
    BY <1>1, <1>2 DEF Concatenate
  <2> HIDE DEF key
  <2> QED
    BY <1>5, <1>6, <1>7, <2>1, PutGuarded
<1>9. ValuesGuarded(guarded2, known2)'
  <2>1. PICK how \in How \ {"unused"} : how = "concat"
    BY DEF How
  <2>2. Unused(v) /\ MadeFrom(v, how, from) /\ wrapped' = wrapped /\ \A w \in from : ~Unused(w)
    BY <1>1, <1>2, <1>4, <2>1 DEF Concatenate, Good, Unused
  <2>3. /\ guarded2 = guarded \/ guarded2 = guarded \cup {v}
        /\ known2 = known \/ known2 = known \cup {v}
        /\ v \notin known /\ v \notin guarded /\ clear' \subseteq known2
    BY <1>5, <1>6 DEF Concatenate, ValuesGuarded
  <2>4. v \in guarded2 => from \subseteq guarded
    <3>1. both /\ always => base.always = "yes" /\ other.always = "yes"
      BY <1>1, <1>2 DEF Good, Key, Flag
    <3> QED
      BY <3>1, <1>1, <1>2, <1>4, <1>5, <2>3 DEF KeyGuarded
  <2>5. /\ how # "root" /\ from \subseteq known => v \in known2
        /\ how \in {"concat", "mixed"} /\ v \in known2 => from \subseteq known
        /\ v \in guarded2 /\ v \in known2 => how # "root" /\ from \subseteq known
    BY <1>6, <2>1, <2>3
  <2> QED
    BY <2>2, <2>3, <2>4, <2>5, ValueGuarded
<1> QED
  BY <1>8, <1>9 DEF SensitiveInv
-----------------------------------------------------------------------------
(* The steps that make no value: the two sets stay, or known grows.        *)
LEMMA CopyGuarded ==
  ASSUME IInv, NEW guarded \in SUBSET Values, NEW known \in SUBSET Values,
         KeysGuarded(guarded, known), ValuesGuarded(guarded, known),
         NEW k \in Keys, NEW o \in Keys, NEW m \in BOOLEAN,
         NEW claims \in SUBSET Claims, Copy(k, o, m, claims)
  PROVE  SensitiveInv'
<1>1. PICK origin \in Key :
        origin = keys[o] /\ Good(origin, made, loose) /\ KeyGuarded(origin, guarded, known)
  BY ExistingKey DEF Copy, Existing, KeysGuarded
<1> DEFINE attr == [origin.attr EXCEPT !["MODIFIABLE"] = m]
           key  == NewKey(attr, origin.value, YesIf(CopiedAlways(origin)),
                          YesIf(CopiedNever(origin, claims)), origin.trusted \/ "TRUSTED" \in claims,
                          origin.vouched /\ "NEVER_EXTRACTABLE" \notin claims)
<1>2. KeyGuarded(key, guarded, known)
  <2>1. attr["SENSITIVE"] = origin.attr["SENSITIVE"]
    BY DEF Key, Attributes
  <2>2. CopiedAlways(origin) \in BOOLEAN
    BY DEF CopiedAlways, Key, Attributes
  <2>3. /\ key.attr = attr /\ key.value = origin.value
        /\ key.vouched => origin.vouched
        /\ key.always = YesIf(CopiedAlways(origin))
    BY DEF NewKey
  <2>4. key.vouched /\ key.always = "yes" => origin.always = "yes"
    <3>1. key.always = "yes" => origin.always # "no"
      BY <2>2, <2>3, YesIfFlag DEF CopiedAlways
    <3> QED
      BY <3>1, <2>3, <1>1 DEF Good, Key, Flag
  <2> HIDE DEF key
  <2> QED
    BY <2>1, <2>3, <2>4, <1>1 DEF KeyGuarded
<1>3. KeysGuarded(guarded, known)'
  <2>1. Put(k, key)
    BY <1>1 DEF Copy
  <2> HIDE DEF key
  <2> QED
    BY <1>2, <2>1, PutGuarded
<1>4. ValuesGuarded(guarded, known)'
  BY SameGuarded DEF Copy, history, ValuesGuarded
<1> QED
  BY <1>3, <1>4 DEF SensitiveInv

LEMMA SetAttributeGuarded ==
  ASSUME IInv, NEW guarded \in SUBSET Values, NEW known \in SUBSET Values,
         KeysGuarded(guarded, known), ValuesGuarded(guarded, known),
         NEW k \in Keys, NEW a \in Changed, NEW val \in BOOLEAN, SetAttribute(k, a, val)
  PROVE  SensitiveInv'
<1>1. PICK old \in Key : old = keys[k] /\ KeyGuarded(old, guarded, known)
  BY ExistingKey DEF SetAttribute, Existing, KeysGuarded
<1> DEFINE key == [old EXCEPT !.attr[a] = val]
<1>2. KeyGuarded(key, guarded, known)
  <2>1. a \in Attributes /\ (a = "SENSITIVE" => val)
    BY KeyAttributesAssumption DEF SetAttribute, MayChangeTo, Attributes
  <2>2. /\ old.attr["SENSITIVE"] => key.attr["SENSITIVE"]
        /\ key.value = old.value /\ key.always = old.always /\ key.vouched = old.vouched
    BY <2>1 DEF Key, Attributes
  <2> HIDE DEF key
  <2> QED
    BY <2>2, <1>1 DEF KeyGuarded
<1>3. KeysGuarded(guarded, known)'
  <2>1. Put(k, key)
    BY <1>1 DEF SetAttribute, Put
  <2> HIDE DEF key
  <2> QED
    BY <1>2, <2>1, PutGuarded
<1>4. ValuesGuarded(guarded, known)'
  BY SameGuarded DEF SetAttribute, history, ValuesGuarded
<1> QED
  BY <1>3, <1>4 DEF SensitiveInv

LEMMA ReadGuarded ==
  ASSUME IInv, NEW guarded \in SUBSET Values, NEW known \in SUBSET Values,
         KeysGuarded(guarded, known), ValuesGuarded(guarded, known),
         NEW k \in Keys, Read(k)
  PROVE  SensitiveInv'
<1>1. KeyGuarded(keys[k], guarded, known) /\ ~keys[k].attr["SENSITIVE"]
  BY DEF Read, Readable, Existing, KeysGuarded
<1>2. ValuesGuarded(guarded, known)'
  <2>1. clear' \subseteq known
    BY <1>1 DEF Read, KeyGuarded, ValuesGuarded
  <2> QED
    BY <2>1, SameGuarded DEF Read
<1>3. KeysGuarded(guarded, known)'
  BY DEF Read, KeysGuarded, KeyGuarded
<1> QED
  BY <1>2, <1>3 DEF SensitiveInv

LEMMA WrapGuarded ==
  ASSUME IInv, NEW guarded \in SUBSET Values, NEW known \in SUBSET Values,
         KeysGuarded(guarded, known), ValuesGuarded(guarded, known),
         NEW k \in Keys, NEW w \in Keys, Wrap(k, w)
  PROVE  SensitiveInv'
<1>1. keys[k].value \in loose
  BY ExistingKey DEF Wrap, Good
<1>2. wrapped' \in SUBSET loose /\ wrapped \subseteq wrapped'
  BY <1>1 DEF Wrap, IInv, ValuesOK
<1>3. PICK known2 \in SUBSET Values : known \subseteq known2 /\ ValuesGuarded(guarded, known2)'
  BY <1>2, WrappedGuarded DEF Wrap
<1>4. KeysGuarded(guarded, known2)'
  BY <1>3 DEF Wrap, KeysGuarded, KeyGuarded
<1> QED
  BY <1>3, <1>4 DEF SensitiveInv

LEMMA DestroyGuarded ==
  ASSUME IInv, NEW guarded \in SUBSET Values, NEW known \in SUBSET Values,
         KeysGuarded(guarded, known), ValuesGuarded(guarded, known),
         NEW k \in Keys, Destroy(k)
  PROVE  SensitiveInv'
<1>1. KeysGuarded(guarded, known)'
  BY DEF Destroy, Put, KeysGuarded, KeyGuarded, IInv
<1>2. ValuesGuarded(guarded, known)'
  BY SameGuarded DEF Destroy, history, ValuesGuarded
<1> QED
  BY <1>1, <1>2 DEF SensitiveInv

LEMMA InitGuarded == Init => SensitiveInv
<1> SUFFICES ASSUME Init
             PROVE  SensitiveInv
  OBVIOUS
<1>1. PICK none \in SUBSET Values : none = {}
  OBVIOUS
<1>2. KeysGuarded(none, none)
  BY DEF Init, KeysGuarded
<1>3. ValuesGuarded(none, none)
  BY <1>1 DEF Init, ValuesGuarded, Closed
<1> QED
  BY <1>2, <1>3 DEF SensitiveInv

LEMMA NextGuarded == IInv /\ SensitiveInv /\ [Next]_vars => SensitiveInv'
<1> SUFFICES ASSUME IInv, NEW guarded \in SUBSET Values, NEW known \in SUBSET Values,
                    KeysGuarded(guarded, known), ValuesGuarded(guarded, known), [Next]_vars
             PROVE  SensitiveInv'
  BY DEF SensitiveInv
<1>1. ASSUME NEW k \in Keys, NEW v \in Values, NEW t \in Templates, NEW claims \in SUBSET Claims,
             \/ Create(k, v, t, claims)
             \/ Generate(k, v, t, claims)
             \/ \E u \in Keys : Unwrap(k, u, v, t, claims)
             \/ \E b \in Keys : Derive(k, b, v, t, claims) \/ Mix(k, b, v, t, claims)
             \/ \E b, c \in Keys : Concatenate(k, b, c, v, t, claims)
      PROVE  SensitiveInv'
  <2>1. ASSUME NEW b \in Keys, Derive(k, b, v, t, claims) \/ Mix(k, b, v, t, claims)
        PROVE  SensitiveInv'
    <3>1. PICK how \in {"derived", "mixed", "exposing"} :
            /\ Derived(k, b, v, t, claims, how)
            /\ how = "mixed" => ~Exposes(t, keys[b].attr)
      BY <2>1, DeriveOrMix
    <3> QED
      BY <3>1, DerivedGuarded
  <2> QED
    BY <1>1, <2>1, CreateGuarded, GenerateGuarded, UnwrapGuarded, ConcatenateGuarded
<1>2. ASSUME NEW k \in Keys, NEW o \in Keys, NEW t \in Templates, NEW claims \in SUBSET Claims,
             Copy(k, o, t["MODIFIABLE"], claims)
      PROVE  SensitiveInv'
  <2>1. t["MODIFIABLE"] \in BOOLEAN
    BY KeyAttributesAssumption DEF Attributes
  <2> QED
    BY <1>2, <2>1, CopyGuarded
<1>3. ASSUME NEW k \in Keys, NEW a \in Changed, NEW val \in BOOLEAN, SetAttribute(k, a, val)
      PROVE  SensitiveInv'
  BY <1>3, SetAttributeGuarded
<1>4. CASE UNCHANGED vars
  <2>1. KeysGuarded(guarded, known)'
    BY <1>4 DEF vars, KeysGuarded, KeyGuarded
  <2>2. ValuesGuarded(guarded, known)'
    BY <1>4, SameGuarded DEF vars, ValuesGuarded
  <2> QED
    BY <2>1, <2>2 DEF SensitiveInv
<1> QED
  BY <1>1, <1>2, <1>3, <1>4, ReadGuarded, WrapGuarded, DestroyGuarded DEF Next

(* A key the token calls always sensitive has a value that was not seen in *)
(* the clear, nor can be worked out from what was, unless it follows from  *)
(* values the token gave out wrapped.                                      *)
THEOREM AlwaysSensitiveHolds == Spec => []AlwaysSensitiveKept
<1>1. ASSUME IInv, NEW guarded \in SUBSET Values, NEW known \in SUBSET Values,
             KeysGuarded(guarded, known), ValuesGuarded(guarded, known)
      PROVE  AlwaysSensitiveKept
  <2>1. Follows(clear) \subseteq known
    BY <1>1 DEF Follows, ValuesGuarded
  <2> QED
    BY <1>1, <2>1 DEF AlwaysSensitiveKept, KeysGuarded, KeyGuarded, ValuesGuarded, Existing
<1>2. IInv /\ SensitiveInv => AlwaysSensitiveKept
  BY <1>1 DEF SensitiveInv
<1>3. Spec => []SensitiveInv
  BY InitGuarded, NextGuarded, KeyInvariance, PTL DEF Spec
<1> QED
  BY <1>2, <1>3, KeyInvariance, PTL
=============================================================================
