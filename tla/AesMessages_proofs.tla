------------------------- MODULE AesMessages_proofs -------------------------
(***************************************************************************)
(* For any lengths, number of messages and number of IVs: an inductive     *)
(* invariant of AesMessages, and that the IVs of messages asked for alike  *)
(* differ and each message is made of its own bytes.                       *)
(*                                                                         *)
(* What a message is when it gets its tag was decided while it was begun   *)
(* and fed, so the invariant speaks of the message under way: as long as   *)
(* its OpenSSL context is ready its IV, if generated, is made of a counter *)
(* later than those of the sealed messages, and what OpenSSL (GCM) or the buffer *)
(* (CCM) holds are the bytes fed so far.                                   *)
(***************************************************************************)
EXTENDS AesMessages, SequenceTheorems, TLAPS

(* An IV made by generate_iv; those of the sealed messages come before n.  *)
Made(i)   == i \in Iv /\ i.buf = Generated(i, i.number) /\ i.number < i.limit
Behind(n) == \A s \in sealed : s.iv # None => s.iv.number < n

(* A message that got its tag: its number, and of which bytes it is.       *)
SealOK(s) ==
  /\ s.msg \in 1..msg
  /\ setup.mode = "GCM" \/ s.clean => s.text = Units(s.msg, 1, s.len)
  /\ s.iv # None => Made(s.iv)

(* The message m under way, of which f bytes were fed: the context of the  *)
(* operation o is ready for its tag.                                       *)
ReadyFor(o, m, f, t, c) ==
  /\ o.inUse
  /\ setup.mode = "GCM" => t = Units(m, 1, f)
  /\ setup.mode = "CCM" => t = <<>> /\ (c => o.buffer = Units(m, 1, f))
  /\ o.iv # None => Made(o.iv) /\ o.iv.number < o.counter /\ Behind(o.iv.number)

LiveOK ==
  /\ op.inUse => msg > 0
  /\ op.ctx = "ready" => ReadyFor(op, msg, fed, text, clean)
  /\ Behind(op.counter)

(* No two messages were sealed with IVs of one counter.                    *)
Numbered ==
  \A s, t \in sealed :
    s.iv # None /\ t.iv # None /\ s.iv.number = t.iv.number => s = t

IInv ==
  /\ TypeOK
  /\ \A s \in sealed : SealOK(s)
  /\ Numbered
  /\ Live => LiveOK
-----------------------------------------------------------------------------
(* The generated bits are the low ones of an IV, and the counter below its *)
(* limit is told by them.                                                  *)
LEMMA LowBits ==
  ASSUME NEW b \in Ivs, NEW v \in Spans, NEW c \in Nat
  PROVE  b - (b % v) + (c % v) \in Ivs
<1>1. PICK n \in Nat : n = IvValues /\ b \in 0..(n - 1)
  BY AesMessagesAssumption DEF Ivs
<1>2. PICK k \in Nat \ {0} : k = v /\ n % k = 0
  BY <1>1, AesMessagesAssumption
<1>3. PICK p \in Nat, m \in Nat : p = b \div k /\ m = b % k /\ b = p * k + m
  BY <1>1, <1>2
<1>4. PICK q \in Nat : n = q * k
  BY <1>1, <1>2
<1>5. PICK e \in Nat : e = c % k /\ e < k
  BY <1>2
<1>6. p < q
  <2>1. p * k < q * k
    BY <1>1, <1>3, <1>4
  <2> QED
    BY <2>1, <1>2, <1>3, <1>4
<1>7. (p + 1) * k <= q * k
  BY <1>6, <1>2, <1>3, <1>4
<1>8. (p + 1) * k = p * k + k
  BY <1>2, <1>3
<1>9. PICK w \in Nat : w = p * k
  BY <1>2, <1>3
<1>10. w + k <= n
  BY <1>4, <1>7, <1>8, <1>9
<1>11. b = w + m
  BY <1>3, <1>9
<1>12. b - m + e \in 0..(n - 1)
  BY <1>1, <1>2, <1>3, <1>5, <1>9, <1>10, <1>11
<1> QED
  BY <1>1, <1>2, <1>3, <1>5, <1>12 DEF Ivs

LEMMA GeneratedType ==
  ASSUME NEW i \in Iv, NEW c \in Nat
  PROVE  Generated(i, c) \in Ivs
<1>1. /\ i.generator \in {"Counter", "Xor"} /\ i.values \in Spans /\ i.base \in Ivs
      /\ 0 \in Ivs
  BY AesMessagesAssumption DEF Iv, Ivs
<1>2. (c % i.values) \in Ivs
  <2>1. PICK v \in Spans, z \in Ivs : v = i.values /\ z = 0
    BY <1>1
  <2>2. z - (z % v) + (c % v) \in Ivs
    BY LowBits
  <2>3. (0 % v) = 0
    BY AesMessagesAssumption
  <2>4. PICK e \in Nat : e = c % v
    <3>1. v \in Nat \ {0}
      BY AesMessagesAssumption
    <3> QED
      BY <3>1
  <2>5. 0 - 0 + e \in Ivs
    BY <2>1, <2>2, <2>3, <2>4
  <2>6. e \in Ivs
    BY <2>5
  <2> QED
    BY <2>1, <2>4, <2>6
<1>3. CASE i.generator = "Counter"
  BY <1>1, <1>3, LowBits DEF Generated
<1>4. CASE i.generator = "Xor"
  <2>1. ExclusiveOr(i.base, c % i.values) \in Ivs
    BY <1>1, <1>2, XorAssumption DEF Ivs
  <2> QED
    BY <1>4, <2>1 DEF Generated
<1> QED
  BY <1>1, <1>3, <1>4

LEMMA AlikeDiffer ==
  ASSUME NEW i, NEW j, Made(i), Made(j), Alike(i, j), i.buf = j.buf
  PROVE  i.number = j.number
<1>1. /\ i \in Iv /\ j \in Iv /\ i.values = j.values /\ i.generator = j.generator
      /\ Generated(i, i.number) = Generated(j, j.number)
      /\ i.number < i.limit /\ j.number < j.limit
      /\ i.limit <= i.values /\ j.limit <= i.values
  BY DEF Made, Alike
<1>2. PICK v \in Spans, a \in Nat, c \in Nat, x \in Ivs, y \in Ivs :
        /\ v = i.values /\ a = i.number /\ c = j.number /\ x = i.base /\ y = j.base
  BY <1>1 DEF Iv
<1>3. v \in Nat \ {0} /\ a < v /\ c < v /\ v <= IvValues /\ IvValues \in Nat
  <2>1. i.limit \in Nat /\ j.limit \in Nat
    BY <1>1 DEF Iv
  <2>2. v \in Nat \ {0} /\ v <= IvValues /\ IvValues \in Nat
    BY AesMessagesAssumption
  <2> QED
    BY <1>1, <1>2, <2>1, <2>2
<1>4. a % v = a /\ c % v = c
  BY <1>3
<1>5. CASE i.generator = "Counter"
  <2>0. PICK m \in Nat, e \in Nat : m = x % v /\ e = y % v
    BY <1>3 DEF Ivs
  <2>1. PICK l \in Int, h \in Int : l = x - (x % v) /\ h = y - (y % v)
    BY <2>0 DEF Ivs
  <2>2. l = h
    BY <1>1, <1>2, <1>5, <2>1 DEF Alike
  <2>3. l + (a % v) = h + (c % v)
    BY <1>1, <1>2, <1>5, <2>1 DEF Generated
  <2> QED
    BY <1>2, <1>4, <2>1, <2>2, <2>3
<1>6. CASE i.generator = "Xor"
  <2>1. x = y
    BY <1>2, <1>6 DEF Alike
  <2>2. ExclusiveOr(x, a % v) = ExclusiveOr(y, c % v)
    BY <1>1, <1>2, <1>6 DEF Generated
  <2>3. a \in Ivs /\ c \in Ivs
    BY <1>2, <1>3 DEF Ivs
  <2>4. ExclusiveOr(x, a) = ExclusiveOr(x, c)
    BY <1>4, <2>1, <2>2
  <2>5. a = c
    BY <2>3, <2>4, XorAssumption DEF Ivs
  <2> QED
    BY <1>2, <2>5
<1> QED
  BY <1>1, <1>5, <1>6 DEF Iv

LEMMA IIDiffer == IInv => IVsDiffer
<1> SUFFICES ASSUME IInv, NEW s \in sealed, NEW t \in sealed,
                    Alike(s.iv, t.iv), s.iv.buf = t.iv.buf
             PROVE  s = t
  BY DEF IVsDiffer
<1>1. s.iv # None /\ t.iv # None
  BY DEF Alike
<1>2. Made(s.iv) /\ Made(t.iv)
  BY <1>1 DEF IInv, SealOK
<1> QED
  BY <1>1, <1>2, AlikeDiffer DEF IInv, Numbered
-----------------------------------------------------------------------------
(* The bytes of a message, cut into parts.                                 *)
LEMMA UnitsType ==
  ASSUME NEW m \in 1..MaxMessages, NEW f \in Nat, NEW n \in Nat, f + n <= MaxLen
  PROVE  Units(m, f + 1, n) \in Seq(Bytes) /\ Len(Units(m, f + 1, n)) = n
<1>1. \A i \in 1..n : <<m, (f + 1) + i - 1>> \in Bytes
  BY AesMessagesAssumption DEF Bytes
<1> QED
  BY <1>1 DEF Units

LEMMA UnitsOf ==
  ASSUME NEW m, NEW first \in Nat \ {0}, NEW n \in Nat
  PROVE  /\ Units(m, first, n) \in Seq({m} \X Nat) /\ Len(Units(m, first, n)) = n
         /\ \A i \in 1..n : Units(m, first, n)[i] = <<m, first + i - 1>>
<1>1. \A i \in 1..n : first + i - 1 \in Nat
  OBVIOUS
<1>2. \A i \in 1..n : <<m, first + i - 1>> \in {m} \X Nat
  BY <1>1
<1> QED
  BY <1>2 DEF Units

LEMMA UnitsFromOne ==
  ASSUME NEW m, NEW n \in Nat
  PROVE  /\ Units(m, 1, n) \in Seq({m} \X Nat) /\ Len(Units(m, 1, n)) = n
         /\ \A i \in 1..n : Units(m, 1, n)[i] = <<m, i>>
<1>1. PICK g \in Nat \ {0} : g = 1
  OBVIOUS
<1>2. /\ Units(m, g, n) \in Seq({m} \X Nat) /\ Len(Units(m, g, n)) = n
      /\ \A i \in 1..n : Units(m, g, n)[i] = <<m, g + i - 1>>
  BY UnitsOf
<1>3. \A i \in 1..n : g + i - 1 = i
  BY <1>1
<1> QED
  BY <1>1, <1>2, <1>3

LEMMA UnitsConcat ==
  ASSUME NEW m, NEW f \in Nat, NEW n \in Nat
  PROVE  Units(m, 1, f) \o Units(m, f + 1, n) = Units(m, 1, f + n)
<1>1. PICK S : S = {m} \X Nat
  OBVIOUS
<1>2. f + n \in Nat /\ f + 1 \in Nat \ {0} /\ 1 \in Nat \ {0}
  OBVIOUS
<1>3. PICK a \in Seq(S) : a = Units(m, 1, f) /\ Len(a) = f /\ \A i \in 1..f : a[i] = <<m, i>>
  BY <1>1, UnitsFromOne
<1>4. PICK b \in Seq(S) :
        b = Units(m, f + 1, n) /\ Len(b) = n /\ \A i \in 1..n : b[i] = <<m, (f + 1) + i - 1>>
  <2>1. PICK g \in Nat \ {0} : g = f + 1
    BY <1>2
  <2>2. /\ Units(m, g, n) \in Seq({m} \X Nat) /\ Len(Units(m, g, n)) = n
        /\ \A i \in 1..n : Units(m, g, n)[i] = <<m, g + i - 1>>
    BY UnitsOf
  <2> QED
    BY <1>1, <2>1, <2>2
<1>5. PICK whole \in Seq(S) :
        whole = Units(m, 1, f + n) /\ Len(whole) = f + n /\ \A i \in 1..f + n : whole[i] = <<m, i>>
  BY <1>1, <1>2, UnitsFromOne
<1>6. /\ a \o b \in Seq(S) /\ Len(a \o b) = Len(a) + Len(b)
      /\ \A i \in 1..Len(a) + Len(b) : (a \o b)[i] = IF i <= Len(a) THEN a[i] ELSE b[i - Len(a)]
  BY ConcatProperties
<1>7. ASSUME NEW i \in 1..f + n
      PROVE  (a \o b)[i] = whole[i]
  <2>1. CASE i <= f
    <3>1. i \in 1..f /\ i \in 1..Len(a) + Len(b) /\ i <= Len(a)
      BY <2>1, <1>3, <1>4
    <3>2. (a \o b)[i] = a[i]
      BY <3>1, <1>6
    <3> QED
      BY <3>1, <3>2, <1>3, <1>5
  <2>2. CASE i > f
    <3>1. i - f \in 1..n /\ i \in 1..Len(a) + Len(b) /\ ~(i <= Len(a))
      BY <2>2, <1>3, <1>4
    <3>2. (a \o b)[i] = b[i - f]
      BY <3>1, <1>3, <1>6
    <3>3. b[i - f] = <<m, (f + 1) + (i - f) - 1>> /\ (f + 1) + (i - f) - 1 = i
      BY <3>1, <1>4
    <3> QED
      BY <3>2, <3>3, <1>5
  <2>3. i <= f \/ i > f
    OBVIOUS
  <2> QED
    BY <2>1, <2>2, <2>3, Zenon
<1>8. a \o b = whole
  <2>1. Len(a \o b) = Len(whole) /\ \A i \in 1..Len(a \o b) : (a \o b)[i] = whole[i]
    BY <1>3, <1>4, <1>5, <1>6, <1>7
  <2> QED
    BY <2>1, <1>6, SeqEqual
<1> QED
  BY <1>3, <1>4, <1>5, <1>8

LEMMA NoUnits ==
  ASSUME NEW m, NEW k
  PROVE  Units(m, k, 0) = <<>>
  BY DEF Units
-----------------------------------------------------------------------------
(* What a part, and an end, can become of: an error, too little room, or   *)
(* bytes taken by a context that was ready for them.                       *)
Buffered(o, part) == [o EXCEPT !.buffer = o.buffer \o part]

LEMMA NextPartResult ==
  ASSUME NEW o \in Op, Len(o.buffer) <= MaxLen, setup \in Setup,
         NEW part \in Seq(Bytes), NEW room \in Nat,
         NEW r, r = NextPart(o, part, room)
  PROVE  \/ r = Error(o)
         \/ r = TooSmall(o)
         \/ /\ setup.mode = "GCM" /\ r = Ok(o, Len(part), part)
            /\ Len(part) = 0 \/ o.ctx = "ready"
         \/ /\ setup.mode = "CCM" /\ r = Ok(Buffered(o, part), Len(part), <<>>)
            /\ Buffered(o, part) \in Op /\ Len(Buffered(o, part).buffer) <= MaxLen
<1>1. setup.mode \in {"GCM", "CCM"}
  BY AesMessagesAssumption DEF Setup
<1>2. Len(part) \in Nat /\ Len(o.buffer) \in Nat /\ o.datalen \in 0..MaxLen /\ MaxLen \in Nat
  BY AesMessagesAssumption DEF Op
<1>3. CASE setup.mode = "CCM"
  <2>1. ASSUME Fits(o, Len(part))
        PROVE  Buffered(o, part) \in Op /\ Len(Buffered(o, part).buffer) <= MaxLen
    <3>1. o.buffer \o part \in Seq(Bytes) /\ Len(o.buffer \o part) <= MaxLen
      BY <1>2, <2>1 DEF Fits, Op
    <3> QED
      BY <3>1 DEF Op, Buffered
  <2> QED
    BY <1>3, <2>1 DEF NextPart, Buffered
<1>4. CASE setup.mode = "GCM"
  <2>1. o.ctx \in {"none", "ready", "spent"}
    BY DEF Op
  <2> QED
    BY <1>2, <1>4, <2>1 DEF NextPart
<1> QED
  BY <1>1, <1>3, <1>4

LEMMA GatheredType ==
  ASSUME NEW o \in Op, NEW part \in Seq(Bytes), Ends(o, Len(part)), setup \in Setup
  PROVE  /\ Gathered(o, part) \in Op /\ Len(Gathered(o, part).buffer) <= MaxLen
         /\ Len(part) < o.datalen => Gathered(o, part).buffer = o.buffer \o part
         /\ ~(Len(part) < o.datalen) => o.buffer = <<>>
<1>1. /\ Len(part) \in Nat /\ Len(o.buffer) \in Nat /\ o.datalen \in 0..MaxLen /\ MaxLen \in Nat
      /\ Len(o.buffer) + Len(part) = o.datalen
  BY AesMessagesAssumption DEF Op, Ends
<1>2. o.buffer \o part \in Seq(Bytes) /\ Len(o.buffer \o part) = o.datalen
  BY <1>1 DEF Op
<1>3. ~(Len(part) < o.datalen) => o.buffer = <<>>
  BY <1>1 DEF Op
<1>4. CASE Len(part) < o.datalen
  <2>1. Gathered(o, part) = [o EXCEPT !.buffer = o.buffer \o part]
    BY <1>4 DEF Gathered
  <2>2. [o EXCEPT !.buffer = o.buffer \o part] \in Op
    BY <1>2 DEF Op
  <2>3. [o EXCEPT !.buffer = o.buffer \o part].buffer = o.buffer \o part
    BY DEF Op
  <2> QED
    BY <2>1, <2>2, <2>3, <1>1, <1>2, <1>4
<1>5. CASE ~(Len(part) < o.datalen)
  <2>1. Gathered(o, part) = o
    BY <1>5 DEF Gathered
  <2> QED
    BY <2>1, <1>1, <1>3, <1>5
<1> QED
  BY <1>4, <1>5

LEMMA LastPartResult ==
  ASSUME NEW o \in Op, Len(o.buffer) <= MaxLen, setup \in Setup,
         NEW part \in Seq(Bytes), NEW room \in Nat, NEW genuine \in BOOLEAN,
         NEW r, r = LastPart(o, part, room, genuine), NEW c, c = Gathered(o, part)
  PROVE  \/ r = Error(o)
         \/ r = Error(c) /\ Ends(o, Len(part))
         \/ r = TooSmall(o)
         \/ /\ setup.mode = "GCM" /\ o.ctx = "ready"
            /\ r = Ok(Ended(o), Len(part), part)
         \/ /\ setup.mode = "CCM" /\ o.ctx = "ready" /\ Ends(o, Len(part))
            /\ r = Ok(Ended(c), Len(part), IF Len(part) < o.datalen THEN c.buffer ELSE part)
<1>1. setup.mode \in {"GCM", "CCM"}
  BY AesMessagesAssumption DEF Setup
<1>2. CASE setup.mode = "CCM"
  <2>1. r = IF ~Ends(o, Len(part)) THEN Error(o)
            ELSE IF room < o.datalen THEN TooSmall(o)
            ELSE IF o.ctx # "ready" \/ ~genuine THEN Error(c)
            ELSE Ok(Ended(c), Len(part), IF Len(part) < o.datalen THEN c.buffer ELSE part)
    BY <1>2 DEF LastPart, NoRoom
  <2> QED
    BY <1>2, <2>1
<1>3. CASE setup.mode = "GCM"
  <2>1. PICK g : g = NextPart(o, part, room)
    OBVIOUS
  <2>2. g = Error(o) \/ g = TooSmall(o) \/ g.rv = "OK"
    <3>1. \/ g = Error(o)
          \/ g = TooSmall(o)
          \/ g = Ok(o, Len(part), part)
          \/ g = Ok(Buffered(o, part), Len(part), <<>>)
      BY <2>1, NextPartResult
    <3> QED
      BY <3>1 DEF Ok
  <2>3. Error(o).rv # "OK" /\ TooSmall(o).rv # "OK"
    BY DEF Error, TooSmall
  <2>4. r = IF g.rv # "OK" THEN g
            ELSE IF o.ctx # "ready" \/ ~genuine THEN Error(o)
            ELSE Ok(Ended(o), Len(part), part)
    BY <1>3, <2>1 DEF LastPart
  <2> QED
    BY <1>3, <2>2, <2>3, <2>4
<1> QED
  BY <1>1, <1>2, <1>3
-----------------------------------------------------------------------------
LEMMA InitIInv == Init => IInv
  BY AesMessagesAssumption DEF Init, IInv, TypeOK, SealOK, Numbered, Live, Ivs

LEMMA MessageInitIInv == IInv /\ MessageInit => IInv'
<1> SUFFICES ASSUME IInv, MessageInit
             PROVE  IInv'
  OBVIOUS
<1>1. NewOp \in Op /\ Len(NewOp.buffer) <= MaxLen
  BY AesMessagesAssumption DEF NewOp, Op
<1>2. TypeOK'
  BY <1>1, AesMessagesAssumption DEF MessageInit, TypeOK, IInv
<1>3. LiveOK'
  BY DEF MessageInit, LiveOK, NewOp, Behind
<1> QED
  BY <1>2, <1>3 DEF MessageInit, IInv, Numbered

(* A step that fails, or ends the operation, and seals nothing.            *)
LEMMA DeadIInv ==
  ASSUME IInv, setup' = setup, msg' \in msg..MaxMessages, fed' \in 0..MaxLen,
         text' \in Seq(Bytes), clean' \in BOOLEAN, sealed' = sealed, pIv' \in Ivs,
         op' \in Op \cup {None}, op' # None => Len(op'.buffer) <= MaxLen /\ op'.finalized
  PROVE  IInv'
<1>1. TypeOK'
  BY DEF IInv, TypeOK
<1>2. \A s \in sealed' : SealOK(s)'
  BY DEF IInv, TypeOK, SealOK
<1>3. Numbered'
  BY DEF IInv, Numbered
<1>4. ~Live'
  BY DEF Live
<1> QED
  BY <1>1, <1>2, <1>3, <1>4 DEF IInv

LEMMA FatalType ==
  ASSUME NEW o \in Op, Len(o.buffer) <= MaxLen
  PROVE  Fatal(o) \in Op /\ Len(Fatal(o).buffer) <= MaxLen /\ Fatal(o).finalized
  BY DEF Fatal, Op
LEMMA LiveOp ==
  ASSUME IInv, Live
  PROVE  /\ op \in Op /\ Len(op.buffer) <= MaxLen /\ LiveOK /\ setup \in Setup
         /\ msg \in 0..MaxMessages /\ fed \in 0..MaxLen /\ text \in Seq(Bytes)
         /\ pIv \in Ivs
         /\ Busy => msg \in 1..MaxMessages
         /\ ~Busy => op.ctx # "ready"
  BY AesMessagesAssumption DEF IInv, TypeOK, Live, Busy, LiveOK, ReadyFor

(* A new message, of which nothing was fed yet.                            *)
BegunFrom(o, len, p, b) ==
  /\ b \in Op /\ b.buffer = o.buffer /\ b.inUse /\ b.finalized = o.finalized
  /\ IF Exhausted(Opened(o, len, p)) THEN b.ctx = o.ctx /\ b.counter = o.counter
     ELSE /\ b.ctx = "ready"
          /\ b.counter \in {o.counter, o.counter + 1}
          /\ b.iv # None => Made(b.iv) /\ b.iv.number = o.counter /\ b.counter = o.counter + 1

LEMMA OpenedResult ==
  ASSUME NEW o \in Op, NEW len \in 1..MaxLen, NEW p \in Asked
  PROVE  /\ Opened(o, len, p) \in Op /\ Opened(o, len, p).inUse
         /\ Opened(o, len, p).buffer = o.buffer /\ Opened(o, len, p).finalized = o.finalized
         /\ Opened(o, len, p).ctx = o.ctx /\ Opened(o, len, p).counter = o.counter
<1>1. PICK i \in Iv \cup {None} : i = Passed(p)
  BY DEF Passed, Asked, Params, Iv
<1>2. PICK a : a = [o EXCEPT !.datalen = len, !.iv = i]
  OBVIOUS
<1>3. /\ a \in Op /\ a.buffer = o.buffer /\ a.finalized = o.finalized
      /\ a.ctx = o.ctx /\ a.counter = o.counter
  <2>1. PICK d \in Op : d = [o EXCEPT !.datalen = len]
    <3>1. len \in 0..MaxLen
      BY AesMessagesAssumption
    <3>2. [o EXCEPT !.datalen = len] \in Op
      BY <3>1 DEF Op
    <3> QED
      BY <3>2
  <2>2. /\ d.buffer = o.buffer /\ d.finalized = o.finalized
        /\ d.ctx = o.ctx /\ d.counter = o.counter
    BY <2>1 DEF Op
  <2>3. a = [d EXCEPT !.iv = i]
    BY <1>2, <2>1
  <2> QED
    BY <2>1, <2>2, <2>3 DEF Op
<1>4. Opened(o, len, p) = [a EXCEPT !.inUse = TRUE]
  BY <1>1, <1>2 DEF Opened, ForMessage
<1> QED
  BY <1>3, <1>4 DEF Op

(* The same with the IV that generate_iv makes, if it is to make one.      *)
GivenIv(a, b) ==
  /\ b \in Op /\ b.buffer = a.buffer /\ b.finalized = a.finalized
  /\ b.inUse = a.inUse /\ b.ctx = "ready"
  /\ b.counter \in {a.counter, a.counter + 1}
  /\ b.iv # None => Made(b.iv) /\ b.iv.number = a.counter /\ b.counter = a.counter + 1

LEMMA WithIvResult ==
  ASSUME NEW a \in Op, ~Exhausted(a), NEW b, b = [WithIv(a) EXCEPT !.ctx = "ready"]
  PROVE  GivenIv(a, b)
<1>1. CASE a.iv = None
  <2>1. b = [a EXCEPT !.ctx = "ready"]
    BY <1>1 DEF WithIv
  <2> QED
    BY <1>1, <2>1 DEF Op, GivenIv
<1>2. CASE a.iv # None
  <2>1. a.iv \in Iv /\ a.counter \in Nat /\ a.counter + 1 \in Nat
    BY <1>2 DEF Op
  <2>2. PICK l \in Nat : l = Limit(a) /\ a.counter < l
    <3>1. Limit(a) \in Nat
      <4>1. a.iv.values \in Nat
        BY <2>1, AesMessagesAssumption DEF Iv
      <4> QED
        BY <4>1 DEF Limit, Op
    <3> QED
      BY <1>2, <2>1, <3>1 DEF Exhausted
  <2>3. PICK g \in Ivs : g = Generated(a.iv, a.counter)
    BY <2>1, GeneratedType
  <2>4. PICK i : i = [generator |-> a.iv.generator, values |-> a.iv.values, base |-> a.iv.base,
                      buf |-> g, number |-> a.counter, limit |-> l]
    OBVIOUS
  <2>5. i \in Iv
    BY <2>1, <2>4 DEF Iv
  <2>6. Generated(i, i.number) = g
    BY <2>3, <2>4 DEF Generated
  <2>7. Made(i) /\ i.number = a.counter
    BY <2>2, <2>4, <2>5, <2>6 DEF Made
  <2>8. PICK c : c = [a EXCEPT !.iv = i, !.maxcount = l, !.counter = a.counter + 1]
    OBVIOUS
  <2>9. /\ c \in Op /\ c.buffer = a.buffer /\ c.finalized = a.finalized /\ c.inUse = a.inUse
        /\ c.iv = i /\ c.counter = a.counter + 1
    BY <2>1, <2>5, <2>8 DEF Op
  <2>10. b = [c EXCEPT !.ctx = "ready"]
    BY <1>2, <2>2, <2>3, <2>4, <2>8 DEF WithIv
  <2>11. b \in Op /\ b.buffer = a.buffer /\ b.finalized = a.finalized /\ b.inUse = a.inUse
         /\ b.ctx = "ready" /\ b.iv = i /\ b.counter = a.counter + 1
    BY <2>9, <2>10 DEF Op
  <2>12. b.iv # None => Made(b.iv) /\ b.iv.number = a.counter /\ b.counter = a.counter + 1
    BY <2>7, <2>11
  <2> QED
    BY <2>11, <2>12 DEF GivenIv
<1> QED
  BY <1>1, <1>2

LEMMA BegunResult ==
  ASSUME NEW o \in Op, NEW len \in 1..MaxLen, NEW p \in Asked
  PROVE  BegunFrom(o, len, p, Begun(o, len, p))
<1>1. PICK a : a = Opened(o, len, p)
  OBVIOUS
<1>2. /\ a \in Op /\ a.inUse /\ a.buffer = o.buffer /\ a.finalized = o.finalized
      /\ a.ctx = o.ctx /\ a.counter = o.counter
  BY <1>1, OpenedResult
<1>3. CASE Exhausted(a)
  BY <1>1, <1>2, <1>3 DEF Begun, BegunFrom
<1>4. CASE ~Exhausted(a)
  <2>1. PICK b : b = [WithIv(a) EXCEPT !.ctx = "ready"]
    OBVIOUS
  <2>2. GivenIv(a, b)
    BY <1>2, <1>4, <2>1, WithIvResult
  <2>3. Begun(o, len, p) = b
    BY <1>1, <1>4, <2>1 DEF Begun
  <2> QED
    BY <1>1, <1>2, <1>4, <2>2, <2>3 DEF BegunFrom, GivenIv
<1> QED
  BY <1>3, <1>4

(* What is so of the message when it begins.                               *)
LEMMA BegunReady ==
  ASSUME IInv, Live, ~Busy, NEW b \in Op, b.inUse, b.buffer = op.buffer,
         b.iv # None => Made(b.iv) /\ b.iv.number = op.counter /\ b.counter = op.counter + 1,
         NEW m, NEW c \in BOOLEAN, c = (op.buffer = <<>>)
  PROVE  ReadyFor(b, m, 0, <<>>, c)
<1>1. op \in Op /\ LiveOK
  BY LiveOp
<1>2. op.counter \in Nat
  BY <1>1 DEF Op
<1>3. b.iv # None => b.iv.number < b.counter /\ Behind(b.iv.number)
  BY <1>1, <1>2 DEF LiveOK
<1> QED
  BY <1>3, NoUnits DEF ReadyFor

LEMMA BehindLater ==
  ASSUME IInv, NEW n \in Nat, Behind(n)
  PROVE  Behind(n + 1)
<1> SUFFICES ASSUME NEW s \in sealed, s.iv # None
             PROVE  s.iv.number < n + 1
  BY DEF Behind
<1>1. s.iv.number \in Nat
  BY DEF IInv, SealOK, Made, Iv
<1> QED
  BY <1>1 DEF Behind

LEMMA BegunIInv ==
  ASSUME IInv, Live, ~Busy, msg < MaxMessages, NEW len \in 1..MaxLen, NEW p \in Asked,
         setup' = setup, op' = Begun(op, len, p), pIv' = Block(Begun(op, len, p)),
         msg' = msg + 1, fed' = 0,
         text' = IF Exhausted(Opened(op, len, p)) THEN text ELSE <<>>,
         clean' = (op.buffer = <<>>), sealed' = sealed
  PROVE  IInv'
<1>1. /\ op \in Op /\ Len(op.buffer) <= MaxLen /\ LiveOK /\ setup \in Setup
      /\ msg \in 0..MaxMessages /\ text \in Seq(Bytes) /\ op.ctx # "ready" /\ pIv \in Ivs
      /\ msg + 1 \in 1..MaxMessages /\ msg + 1 \in Nat
  BY LiveOp, AesMessagesAssumption
<1>2. PICK x \in BOOLEAN : x = Exhausted(Opened(op, len, p))
  BY DEF Exhausted
<1>3. /\ op' \in Op /\ op'.buffer = op.buffer /\ op'.inUse
      /\ x => op'.ctx = op.ctx /\ op'.counter = op.counter
      /\ ~x => op'.ctx = "ready"
      /\ ~x => op'.counter \in {op.counter, op.counter + 1}
      /\ ~x /\ op'.iv # None =>
           Made(op'.iv) /\ op'.iv.number = op.counter /\ op'.counter = op.counter + 1
  <2>1. BegunFrom(op, len, p, op')
    BY <1>1, BegunResult
  <2> QED
    BY <1>2, <2>1 DEF BegunFrom
<1>4. TypeOK'
  <2>1. pIv' \in Ivs
    BY <1>1, <1>3 DEF Block, Op, Iv
  <2> QED
    BY <1>1, <1>2, <1>3, <2>1, AesMessagesAssumption DEF IInv, TypeOK
<1>5. \A s \in sealed' : SealOK(s)'
  BY <1>1 DEF IInv, SealOK
<1>6. Numbered'
  BY DEF IInv, Numbered
<1>7. ~x => ReadyFor(op, msg, fed, text, clean)'
  <2>1. ~x => ReadyFor(op', msg', 0, <<>>, clean')
    BY <1>3, BegunReady
  <2> QED
    BY <1>2, <2>1 DEF ReadyFor, Behind
<1>8. Behind(op.counter)'
  <2>1. op.counter \in Nat /\ op'.counter \in {op.counter, op.counter + 1}
    BY <1>1, <1>3 DEF Op
  <2>2. Behind(op.counter) /\ Behind(op.counter + 1)
    BY <1>1, <2>1, BehindLater DEF LiveOK
  <2>3. Behind(op'.counter)
    BY <2>1, <2>2
  <2> QED
    BY <2>3 DEF Behind
<1>9. LiveOK'
  BY <1>1, <1>2, <1>3, <1>7, <1>8 DEF LiveOK
<1> QED
  BY <1>4, <1>5, <1>6, <1>9 DEF IInv

(* A message got its tag, with an IV later than those before.              *)
LEMMA SealedIInv ==
  ASSUME IInv, setup' = setup, NEW m \in msg..MaxMessages, m > 0, msg' = m,
         NEW x, x.msg = m, sealed' = sealed \cup {x},
         setup.mode = "GCM" \/ x.clean => x.text = Units(m, 1, x.len),
         x.iv # None => Made(x.iv) /\ Behind(x.iv.number)
  PROVE  (\A s \in sealed' : SealOK(s)') /\ Numbered'
<1>1. msg \in Nat
  BY AesMessagesAssumption DEF IInv, TypeOK
<1>2. \A s \in sealed' : SealOK(s)'
  <2>1. SealOK(x)'
    BY <1>1 DEF SealOK
  <2>2. \A s \in sealed : SealOK(s)'
    BY <1>1 DEF IInv, SealOK
  <2> QED
    BY <2>1, <2>2
<1>3. Numbered'
  <2> SUFFICES ASSUME NEW s \in sealed', NEW t \in sealed', s.iv # None, t.iv # None,
                      s.iv.number = t.iv.number
               PROVE  s = t
    BY DEF Numbered
  <2>1. ASSUME NEW u \in sealed, u.iv # None, x.iv # None
        PROVE  u.iv.number # x.iv.number
    <3>1. x.iv.number \in Nat /\ u.iv.number < x.iv.number
      BY <2>1 DEF Made, Iv, Behind
    <3>2. u.iv.number \in Nat
      BY <2>1 DEF IInv, SealOK, Made, Iv
    <3> QED
      BY <3>1, <3>2
  <2> QED
    BY <2>1 DEF IInv, Numbered
<1> QED
  BY <1>2, <1>3

(* The end of a message, all of which is there or in part in the buffer.   *)
AtEnd(o, m, f, n, t, c) ==
  /\ o \in Op /\ Len(o.buffer) <= MaxLen
  /\ m \in msg..MaxMessages /\ m > 0
  /\ f \in Nat /\ n \in Nat /\ f + n <= MaxLen
  /\ t \in Seq(Bytes) /\ c \in BOOLEAN
  /\ o.ctx = "ready" => ReadyFor(o, m, f, t, c)
  /\ Behind(o.counter)

EndsWith(o, m, f, t, c, r) ==
  /\ setup' = setup /\ op' = r.op /\ msg' = m /\ clean' = c
  /\ fed' = f + r.fed /\ text' = t \o r.given
  /\ sealed' = IF r.rv = "OK" THEN sealed \cup {Seal(m, fed', text', o.iv, c)} ELSE sealed

LEMMA EndedIInv ==
  ASSUME IInv, NEW o, NEW m, NEW f, NEW n, NEW t, NEW c, AtEnd(o, m, f, n, t, c),
         NEW part, part = Units(m, f + 1, n), NEW room \in Nat, NEW genuine \in BOOLEAN,
         NEW r, r = LastPart(o, part, room, genuine), r.rv # "TooSmall",
         EndsWith(o, m, f, t, c, r), pIv' \in Ivs
  PROVE  IInv'
<1>0. /\ o \in Op /\ Len(o.buffer) <= MaxLen
      /\ m \in msg..MaxMessages /\ m > 0
      /\ f \in Nat /\ n \in Nat /\ f + n <= MaxLen
      /\ t \in Seq(Bytes) /\ c \in BOOLEAN
      /\ o.ctx = "ready" => ReadyFor(o, m, f, t, c)
      /\ Behind(o.counter)
      /\ setup' = setup /\ op' = r.op /\ msg' = m /\ clean' = c
      /\ fed' = f + r.fed /\ text' = t \o r.given
      /\ sealed' = IF r.rv = "OK" THEN sealed \cup {Seal(m, fed', text', o.iv, c)} ELSE sealed
  BY DEF AtEnd, EndsWith
<1>1. /\ setup \in Setup /\ msg \in 0..MaxMessages /\ m \in 1..MaxMessages
      /\ MaxLen \in Nat /\ setup.mode \in {"GCM", "CCM"}
  <2>1. setup \in Setup /\ msg \in 0..MaxMessages /\ MaxLen \in Nat /\ MaxMessages \in Nat
    BY <1>0, AesMessagesAssumption DEF IInv, TypeOK
  <2>2. setup.mode \in {"GCM", "CCM"}
    BY <1>0, <2>1, AesMessagesAssumption DEF Setup
  <2>3. m \in 1..MaxMessages
    BY <1>0, <2>1
  <2> QED
    BY <1>0, <2>1, <2>2, <2>3
<1>2. part \in Seq(Bytes) /\ Len(part) = n
  BY <1>0, <1>1, UnitsType
<1>3. PICK g : g = Gathered(o, part)
  OBVIOUS
<1>4. \/ r = Error(o)
      \/ r = Error(g) /\ Ends(o, Len(part))
      \/ r = TooSmall(o)
      \/ /\ setup.mode = "GCM" /\ o.ctx = "ready"
         /\ r = Ok(Ended(o), Len(part), part)
      \/ /\ setup.mode = "CCM" /\ o.ctx = "ready" /\ Ends(o, Len(part))
         /\ r = Ok(Ended(g), Len(part), IF Len(part) < o.datalen THEN g.buffer ELSE part)
  BY <1>0, <1>1, <1>2, <1>3, LastPartResult
<1>5. Ends(o, Len(part)) =>
        /\ g \in Op /\ Len(g.buffer) <= MaxLen
        /\ Len(part) < o.datalen => g.buffer = o.buffer \o part
        /\ ~(Len(part) < o.datalen) => o.buffer = <<>>
        /\ g.counter = o.counter /\ g.iv = o.iv
  BY <1>0, <1>1, <1>2, <1>3, GatheredType DEF Gathered, Op
<1>6. ASSUME NEW e \in Op, Len(e.buffer) <= MaxLen, r = Error(e)
      PROVE  IInv'
  <2>1. Fatal(e) \in Op /\ Len(Fatal(e).buffer) <= MaxLen /\ Fatal(e).finalized
    BY <1>0, <1>6, FatalType
  <2>2. op' = Fatal(e) /\ fed' = f /\ text' = t /\ sealed' = sealed
    BY <1>0, <1>6 DEF Error
  <2>3. f \in 0..MaxLen
    BY <1>0, <1>1
  <2> QED
    BY <1>0, <2>1, <2>2, <2>3, <1>1, DeadIInv
<1>7. ASSUME NEW e \in Op, Len(e.buffer) <= MaxLen, e.counter = o.counter, e.iv = o.iv,
             NEW given \in Seq(Bytes), r = Ok(Ended(e), Len(part), given), o.ctx = "ready",
             setup.mode = "GCM" \/ c => t \o given = Units(m, 1, f + n)
      PROVE  IInv'
  <2>1. /\ op' = Ended(e) /\ fed' = f + n /\ text' = t \o given
        /\ sealed' = sealed \cup {Seal(m, fed', text', o.iv, c)}
    <3>1. r.op = Ended(e) /\ r.fed = n /\ r.given = given /\ r.rv = "OK"
      BY <1>2, <1>7 DEF Ok
    <3> QED
      BY <1>0, <3>1
  <2>2. Ended(e) \in Op /\ Ended(e).buffer = e.buffer /\ Ended(e).counter = o.counter
        /\ ~Ended(e).inUse /\ Ended(e).ctx = "spent"
    BY <1>0, <1>7 DEF Ended, Op
  <2>3. PICK x : x = Seal(m, fed', text', o.iv, c)
    OBVIOUS
  <2>4. /\ x.msg = m /\ x.iv = o.iv /\ x.clean = c /\ x.len = f + n
        /\ x.text = t \o given
    BY <1>0, <2>1, <2>3 DEF Seal, Op
  <2>5. o.iv # None => Made(o.iv) /\ o.iv.number < o.counter /\ Behind(o.iv.number)
    BY <1>0, <1>7 DEF ReadyFor
  <2>6. (\A s \in sealed' : SealOK(s)') /\ Numbered'
    BY <1>0, <1>7, <2>1, <2>3, <2>4, <2>5, SealedIInv
  <2>7. TypeOK'
    <3>1. t \o given \in Seq(Bytes) /\ fed' \in 0..MaxLen
      BY <1>0, <1>1, <2>1
    <3>2. op' \in Op /\ Len(op'.buffer) <= MaxLen
      BY <1>0, <1>7, <2>1, <2>2
    <3>3. \A s \in sealed' : s.msg \in 1..m
      BY <1>0, <2>6 DEF SealOK
    <3>4. /\ clean' \in BOOLEAN /\ setup' \in Setup /\ msg' = m
      BY <1>0, <1>1
    <3>5. msg' \in 0..MaxMessages /\ (\A s \in sealed : s.msg \in 1..msg)'
      BY <1>0, <1>1, <3>3, <3>4
    <3>6. text' \in Seq(Bytes)
      BY <1>0, <2>1, <3>1
    <3>7. op' \in Op \cup {None} /\ (op # None => Len(op.buffer) <= MaxLen)'
      BY <1>0, <3>2
    <3> QED
      BY <1>0, <3>1, <3>4, <3>5, <3>6, <3>7 DEF TypeOK
  <2>8. ASSUME NEW s \in sealed', s.iv # None
        PROVE  s.iv.number < o.counter
    <3>1. o.counter \in Nat
      BY <1>0 DEF Op
    <3>2. CASE s = x
      BY <2>4, <2>5, <2>8, <3>2
    <3>3. CASE s \in sealed
      <4>1. s.iv.number \in Nat /\ (o.iv # None => o.iv.number \in Nat)
        BY <2>5, <2>8, <3>3 DEF IInv, SealOK, Made, Iv
      <4>2. o.iv # None => s.iv.number < o.iv.number
        BY <2>5, <2>8, <3>3 DEF Behind
      <4>3. o.iv = None => s.iv.number < o.counter
        BY <1>0, <2>8, <3>3 DEF Behind
      <4> QED
        BY <2>5, <3>1, <4>1, <4>2, <4>3
    <3> QED
      BY <1>0, <2>1, <2>3, <3>2, <3>3
  <2>9. LiveOK'
    BY <1>0, <2>1, <2>2, <2>8 DEF LiveOK, Behind
  <2> QED
    BY <1>0, <2>6, <2>7, <2>9 DEF IInv
<1>8. CASE setup.mode = "GCM" /\ o.ctx = "ready" /\ r = Ok(Ended(o), Len(part), part)
  <2>1. t \o part = Units(m, 1, f + n)
    BY <1>0, <1>8, UnitsConcat DEF ReadyFor
  <2> QED
    BY <1>0, <1>2, <1>7, <1>8, <2>1
<1>9. CASE /\ setup.mode = "CCM" /\ o.ctx = "ready" /\ Ends(o, Len(part))
           /\ r = Ok(Ended(g), Len(part), IF Len(part) < o.datalen THEN g.buffer ELSE part)
  <2>1. PICK given \in Seq(Bytes) : given = IF Len(part) < o.datalen THEN g.buffer ELSE part
    BY <1>0, <1>2, <1>5, <1>9 DEF Op
  <2>2. t \o given = given
    BY <1>0, <1>9, <2>1 DEF ReadyFor
  <2>3. ASSUME c
        PROVE  given = Units(m, 1, f + n)
    <3>1. o.buffer = Units(m, 1, f)
      BY <1>0, <1>9, <2>3 DEF ReadyFor
    <3>2. CASE Len(part) < o.datalen
      BY <1>0, <1>5, <1>9, <2>1, <3>1, <3>2, UnitsConcat
    <3>3. CASE ~(Len(part) < o.datalen)
      <4>1. f = 0
        <5>1. Len(Units(m, 1, f)) = f
          BY <1>0 DEF Units
        <5> QED
          BY <1>0, <1>5, <1>9, <3>1, <3>3, <5>1
      <4> QED
        BY <1>0, <2>1, <3>3, <4>1
    <3> QED
      BY <1>0, <3>2, <3>3
  <2> QED
    BY <1>0, <1>5, <1>7, <1>9, <2>1, <2>2, <2>3
<1>10. r # TooSmall(o)
  BY <1>0 DEF TooSmall
<1>11. r = Error(o) => IInv'
  BY <1>0, <1>6
<1>12. r = Error(g) /\ Ends(o, Len(part)) => IInv'
  BY <1>0, <1>5, <1>6
<1> QED
  BY <1>0, <1>4, <1>8, <1>9, <1>10, <1>11, <1>12
-----------------------------------------------------------------------------
LEMMA BeginIInv ==
  ASSUME IInv, NEW len \in 1..MaxLen, NEW p \in Asked, Begin(len, p)
  PROVE  IInv'
<1>1. setup' = setup /\ op' = Begun(op, len, p)
  BY DEF Begin, Returns
<1> QED
  BY <1>1, BegunIInv DEF Begin

LEMMA Next1IInv ==
  ASSUME IInv, NEW n \in 0..MaxLen, NEW room \in 0..MaxLen, Next1(n, room)
  PROVE  IInv'
<1>1. /\ Live /\ Busy /\ op \in Op /\ Len(op.buffer) <= MaxLen /\ LiveOK /\ setup \in Setup
      /\ msg \in 1..MaxMessages /\ fed \in 0..MaxLen /\ text \in Seq(Bytes)
      /\ n \in Nat /\ fed + n \in 0..MaxLen /\ room \in Nat /\ fed \in Nat
  BY LiveOp, AesMessagesAssumption DEF Next1, Busy
<1>2. PICK part \in Seq(Bytes) : part = Units(msg, fed + 1, n) /\ Len(part) = n
  BY <1>1, UnitsType
<1>a. Units(msg, 1, fed) \o Units(msg, fed + 1, n) = Units(msg, 1, fed + n)
  BY <1>1, UnitsConcat
<1>3. PICK r : r = NextPart(op, part, room)
  OBVIOUS
<1>4. /\ op' = r.op /\ fed' = fed + r.fed /\ text' = text \o r.given
      /\ setup' = setup /\ msg' = msg /\ clean' = clean /\ sealed' = sealed /\ pIv' = pIv
  BY <1>2, <1>3 DEF Next1, Returns, Part
<1>5. \/ r = Error(op)
      \/ r = TooSmall(op)
      \/ setup.mode = "GCM" /\ r = Ok(op, n, part)
      \/ /\ setup.mode = "CCM" /\ r = Ok(Buffered(op, part), n, <<>>)
         /\ Buffered(op, part) \in Op /\ Len(Buffered(op, part).buffer) <= MaxLen
  BY <1>1, <1>2, <1>3, NextPartResult
<1>6. clean \in BOOLEAN /\ msg \in Nat /\ msg \in msg..MaxMessages /\ pIv \in Ivs
  BY <1>1 DEF IInv, TypeOK
<1>7. CASE r = Error(op)
  <2>1. op' = Fatal(op) /\ fed' = fed /\ text' = text
    BY <1>1, <1>4, <1>7 DEF Error
  <2>2. Fatal(op) \in Op /\ Len(Fatal(op).buffer) <= MaxLen /\ Fatal(op).finalized
    BY <1>1, FatalType
  <2> QED
    BY <2>1, <2>2, <1>1, <1>4, <1>6, DeadIInv
<1>8. ASSUME NEW o \in Op, op' = o, Len(o.buffer) <= MaxLen, o.finalized = op.finalized,
             o.inUse, o.counter = op.counter, o.iv = op.iv, o.ctx = op.ctx,
             NEW f \in 0..MaxLen, fed' = f, NEW t \in Seq(Bytes), text' = t,
             ReadyFor(op, msg, fed, text, clean) => ReadyFor(o, msg, f, t, clean)
      PROVE  IInv'
  <2>1. TypeOK'
    BY <1>4, <1>8 DEF IInv, TypeOK
  <2>2. (\A s \in sealed : SealOK(s))' /\ Numbered'
    BY <1>4 DEF IInv, SealOK, Numbered
  <2>3. ReadyFor(o, msg, f, t, clean) => ReadyFor(op, msg, fed, text, clean)'
    BY <1>4, <1>8 DEF ReadyFor, Behind
  <2>4. LiveOK'
    BY <1>1, <1>4, <1>8, <2>3 DEF LiveOK, Behind
  <2> QED
    BY <2>1, <2>2, <2>4 DEF IInv
<1>9. op.inUse
  BY <1>1 DEF Busy
<1>10. CASE r = TooSmall(op)
  <2>1. op' = op /\ fed' = fed /\ text' = text
    BY <1>1, <1>4, <1>10 DEF TooSmall
  <2> QED
    BY <2>1, <1>1, <1>8, <1>9
<1>11. CASE setup.mode = "GCM" /\ r = Ok(op, n, part)
  <2>1. op' = op /\ fed' = fed + n /\ text' = text \o part
    BY <1>4, <1>11 DEF Ok
  <2>2. text \o part \in Seq(Bytes)
    BY <1>1
  <2>3. text = Units(msg, 1, fed) => text \o part = Units(msg, 1, fed + n)
    BY <1>2, <1>a
  <2>4. ReadyFor(op, msg, fed, text, clean) => ReadyFor(op, msg, fed + n, text \o part, clean)
    BY <1>11, <2>3 DEF ReadyFor
  <2> QED
    BY <2>1, <2>2, <2>4, <1>1, <1>8, <1>9
<1>12. CASE /\ setup.mode = "CCM" /\ r = Ok(Buffered(op, part), n, <<>>)
            /\ Buffered(op, part) \in Op /\ Len(Buffered(op, part).buffer) <= MaxLen
  <2>1. PICK o \in Op :
          /\ o = Buffered(op, part) /\ o.buffer = op.buffer \o part
          /\ o.finalized = op.finalized /\ o.inUse /\ o.counter = op.counter /\ o.iv = op.iv
          /\ o.ctx = op.ctx
    BY <1>1, <1>9, <1>12 DEF Buffered, Op
  <2>2. op' = o /\ fed' = fed + n /\ text' = text
    BY <1>1, <1>4, <1>12, <2>1 DEF Ok
  <2>3. op.buffer = Units(msg, 1, fed) => o.buffer = Units(msg, 1, fed + n)
    BY <1>2, <2>1, <1>a
  <2>4. ReadyFor(op, msg, fed, text, clean) => ReadyFor(o, msg, fed + n, text, clean)
    BY <1>12, <2>1, <2>3 DEF ReadyFor
  <2>5. Len(o.buffer) <= MaxLen
    BY <1>12, <2>1
  <2> QED
    BY <2>1, <2>2, <2>4, <2>5, <1>1, <1>8
<1> QED
  BY <1>5, <1>7, <1>10, <1>11, <1>12
LEMMA SameIInv ==
  ASSUME IInv, setup' = setup, op' = op, msg' = msg, fed' = fed, text' = text, clean' = clean,
         sealed' = sealed, pIv' = pIv
  PROVE  IInv'
<1>1. TypeOK'
  BY DEF IInv, TypeOK
<1>2. (\A s \in sealed : SealOK(s))' /\ Numbered'
  BY DEF IInv, SealOK, Numbered
<1>3. Live' => LiveOK'
  BY DEF IInv, Live, LiveOK, ReadyFor, Behind
<1> QED
  BY <1>1, <1>2, <1>3 DEF IInv

(* Only too little room is answered with TooSmall, and changes nothing.    *)
LEMMA LastTooSmall ==
  ASSUME NEW o \in Op, Len(o.buffer) <= MaxLen, setup \in Setup,
         NEW part \in Seq(Bytes), NEW room \in Nat, NEW genuine \in BOOLEAN,
         NEW r, r = LastPart(o, part, room, genuine), r.rv = "TooSmall"
  PROVE  r = TooSmall(o)
<1>1. PICK c : c = Gathered(o, part)
  OBVIOUS
<1>2. Error(o).rv # "TooSmall" /\ Error(c).rv # "TooSmall"
  BY DEF Error
<1>3. \A e, n, given : Ok(e, n, given).rv # "TooSmall"
  BY DEF Ok
<1> QED
  BY <1>1, <1>2, <1>3, LastPartResult

LEMMA EndIInv ==
  ASSUME IInv, NEW n \in 0..MaxLen, NEW room \in 0..MaxLen, NEW genuine \in BOOLEAN,
         End(n, room, genuine)
  PROVE  IInv'
<1>1. /\ Live /\ Busy /\ op \in Op /\ Len(op.buffer) <= MaxLen /\ LiveOK /\ setup \in Setup
      /\ msg \in 1..MaxMessages /\ text \in Seq(Bytes)
      /\ n \in Nat /\ fed + n <= MaxLen /\ room \in Nat /\ fed \in Nat
  BY LiveOp, AesMessagesAssumption DEF End, Busy
<1>2. PICK part \in Seq(Bytes) : part = Units(msg, fed + 1, n)
  BY <1>1, UnitsType
<1>3. PICK r : r = LastPart(op, part, room, genuine)
  OBVIOUS
<1>4. /\ op' = r.op /\ fed' = fed + r.fed /\ text' = text \o r.given
      /\ setup' = setup /\ msg' = msg /\ clean' = clean /\ pIv' = pIv /\ pIv \in Ivs
      /\ sealed' = IF r.rv = "OK" THEN sealed \cup {Seal(msg, fed', text', op.iv, clean)} ELSE sealed
  BY <1>1, <1>2, <1>3, LiveOp DEF End, Returns, Part
<1>5. CASE r.rv = "TooSmall"
  <2>1. r = TooSmall(op)
    BY <1>1, <1>3, <1>5, LastTooSmall
  <2>2. op' = op /\ fed' = fed /\ text' = text /\ sealed' = sealed
    BY <2>1, <1>1, <1>4 DEF TooSmall
  <2> QED
    BY <2>2, <1>4, SameIInv
<1>6. CASE r.rv # "TooSmall"
  <2>1. AtEnd(op, msg, fed, n, text, clean)
    <3>1. clean \in BOOLEAN /\ msg \in msg..MaxMessages /\ msg > 0
      BY <1>1 DEF IInv, TypeOK
    <3> QED
      BY <1>1, <3>1 DEF AtEnd, LiveOK
  <2>2. EndsWith(op, msg, fed, text, clean, r)
    BY <1>4 DEF EndsWith
  <2> QED
    BY <1>1, <1>2, <1>3, <1>4, <1>6, <2>1, <2>2, EndedIInv
<1> QED
  BY <1>5, <1>6

LEMMA OneStepIInv ==
  ASSUME IInv, NEW len \in 1..MaxLen, NEW p \in Asked, NEW n \in 0..MaxLen,
         NEW room \in 0..MaxLen, NEW genuine \in BOOLEAN, OneStep(len, p, n, room, genuine)
  PROVE  IInv'
<1>1. /\ Live /\ ~Busy /\ op \in Op /\ Len(op.buffer) <= MaxLen /\ LiveOK /\ setup \in Setup
      /\ msg \in 0..MaxMessages /\ msg + 1 \in msg..MaxMessages /\ msg + 1 > 0 /\ msg + 1 \in Nat
      /\ n \in Nat /\ 0 + n <= MaxLen /\ room \in Nat
  BY LiveOp, AesMessagesAssumption DEF OneStep
<1>2. PICK b \in Op : b = Begun(op, len, p) /\ BegunFrom(op, len, p, b)
  BY <1>1, BegunResult DEF BegunFrom
<1>3. PICK part \in Seq(Bytes) : part = Units(msg + 1, 0 + 1, n) /\ part = Units(msg + 1, 1, n)
  <2>1. msg + 1 \in 1..MaxMessages /\ 0 \in Nat
    BY <1>1
  <2>2. Units(msg + 1, 0 + 1, n) \in Seq(Bytes)
    BY <2>1, <1>1, UnitsType
  <2> QED
    BY <2>2
<1>4. PICK r : r = LastPart(b, part, room, genuine)
  OBVIOUS
<1>5. setup' = setup /\ msg' = msg + 1 /\ clean' = (op.buffer = <<>>) /\ pIv' = Block(b)
  BY <1>2 DEF OneStep, Returns
<1>6. CASE Exhausted(Opened(op, len, p))
  <2>1. op' = Begun(op, len, p) /\ fed' = 0 /\ text' = text /\ sealed' = sealed
    BY <1>6 DEF OneStep, Returns
  <2> QED
    BY <2>1, <1>1, <1>2, <1>5, <1>6, BegunIInv DEF OneStep
<1>7. CASE ~Exhausted(Opened(op, len, p))
  <2>1. /\ op' = r.op /\ fed' = r.fed /\ text' = r.given
        /\ sealed' = IF r.rv = "OK" THEN sealed \cup {Seal(msg', fed', text', b.iv, clean')} ELSE sealed
    BY <1>2, <1>3, <1>4, <1>7 DEF OneStep, Returns
  <2>2. Len(b.buffer) <= MaxLen
    BY <1>1, <1>2 DEF BegunFrom
  <2>3. CASE r.rv = "TooSmall"
    <3>1. r = TooSmall(b)
      BY <1>1, <1>4, <2>2, <2>3, LastTooSmall
    <3>2. op' = Begun(op, len, p) /\ fed' = 0 /\ text' = <<>> /\ sealed' = sealed
      BY <3>1, <2>1, <1>2 DEF TooSmall
    <3> QED
      BY <3>2, <1>1, <1>2, <1>5, <1>7, BegunIInv DEF OneStep
  <2>4. CASE r.rv # "TooSmall"
    <3>1. PICK m \in msg..MaxMessages : m = msg + 1 /\ m > 0
      BY <1>1
    <3>2. PICK c \in BOOLEAN : c = (op.buffer = <<>>)
      OBVIOUS
    <3>3. ReadyFor(b, m, 0, <<>>, c)
      BY <1>1, <1>2, <1>7, <3>2, BegunReady DEF BegunFrom
    <3>4. Behind(b.counter)
      <4>1. op.counter \in Nat /\ b.counter \in {op.counter, op.counter + 1}
        BY <1>1, <1>2 DEF BegunFrom, Op
      <4> QED
        BY <1>1, <4>1, BehindLater DEF LiveOK
    <3>5. r.fed \in Nat /\ r.given \in Seq(Bytes)
      <4>1. PICK g : g = Gathered(b, part)
        OBVIOUS
      <4>2. Ends(b, Len(part)) => g \in Op
        BY <1>1, <4>1, GatheredType
      <4>3. /\ \/ r = Error(b)
               \/ r = Error(g) /\ Ends(b, Len(part))
               \/ r = TooSmall(b)
               \/ r = Ok(Ended(b), Len(part), part)
               \/ /\ Ends(b, Len(part))
                  /\ r = Ok(Ended(g), Len(part), IF Len(part) < b.datalen THEN g.buffer ELSE part)
        BY <1>1, <1>4, <2>2, <4>1, LastPartResult
      <4>4. \A e, k, given : Ok(e, k, given).fed = k /\ Ok(e, k, given).given = given
        BY DEF Ok
      <4>5. Ends(b, Len(part)) => g.buffer \in Seq(Bytes)
        BY <4>2 DEF Op
      <4>6. Len(part) \in Nat /\ <<>> \in Seq(Bytes)
        OBVIOUS
      <4>7. CASE r = Error(b) \/ r = Error(g) \/ r = TooSmall(b)
        <5>1. PICK e : r = Error(e) \/ r = TooSmall(e)
          BY <4>7
        <5>2. r.fed = 0 /\ r.given = <<>>
          BY <5>1 DEF Error, TooSmall
        <5> QED
          BY <5>2, <4>6
      <4>8. CASE r = Ok(Ended(b), Len(part), part)
        BY <4>4, <4>6, <4>8
      <4>9. ASSUME Ends(b, Len(part)),
                    r = Ok(Ended(g), Len(part), IF Len(part) < b.datalen THEN g.buffer ELSE part)
             PROVE  r.fed \in Nat /\ r.given \in Seq(Bytes)
        <5>1. r.fed = Len(part) /\ r.given = IF Len(part) < b.datalen THEN g.buffer ELSE part
          BY <4>4, <4>9
        <5> QED
          BY <5>1, <4>5, <4>6, <4>9
      <4> QED
        BY <4>3, <4>7, <4>8, <4>9
    <3>6. fed' = 0 + r.fed /\ text' = <<>> \o r.given
      BY <2>1, <3>5
    <3>7. EndsWith(b, m, 0, <<>>, c, r)
      BY <2>1, <3>1, <3>2, <3>6, <1>5 DEF EndsWith
    <3>8. AtEnd(b, m, 0, n, <<>>, c)
      BY <1>1, <1>2, <2>2, <3>1, <3>2, <3>3, <3>4 DEF AtEnd
    <3>9. pIv' \in Ivs
      BY <1>2, <1>5, LiveOp, <1>1 DEF Block, Op, Iv
    <3> QED
      BY <1>1, <1>3, <1>4, <2>4, <3>1, <3>7, <3>8, <3>9, EndedIInv
  <2> QED
    BY <2>3, <2>4
<1> QED
  BY <1>6, <1>7

LEMMA MismatchIInv == IInv /\ Mismatch => IInv'
<1> SUFFICES ASSUME IInv, Mismatch
             PROVE  IInv'
  OBVIOUS
<1>1. Live /\ setup' = setup /\ op' = Fatal(op)
  BY DEF Mismatch, Returns, Busy
<1>2. Fatal(op) \in Op /\ Len(Fatal(op).buffer) <= MaxLen /\ Fatal(op).finalized
  BY <1>1, LiveOp, FatalType
<1> QED
  BY <1>1, <1>2, DeadIInv, AesMessagesAssumption DEF Mismatch, IInv, TypeOK

LEMMA FinalizeIInv == IInv /\ Finalize => IInv'
<1> SUFFICES ASSUME IInv, Finalize
             PROVE  IInv'
  OBVIOUS
<1>1. Live /\ setup' = setup /\ op' = Fatal(op)
  BY DEF Finalize, Returns
<1>2. Fatal(op) \in Op /\ Len(Fatal(op).buffer) <= MaxLen /\ Fatal(op).finalized
  BY <1>1, LiveOp, FatalType
<1> QED
  BY <1>1, <1>2, DeadIInv, AesMessagesAssumption DEF Finalize, IInv, TypeOK

LEMMA CancelIInv == IInv /\ Cancel => IInv'
  BY DeadIInv, AesMessagesAssumption DEF Cancel, Returns, IInv, TypeOK

LEMMA NextIInv == IInv /\ [Next]_vars => IInv'
<1> SUFFICES ASSUME IInv, [Next]_vars
             PROVE  IInv'
  OBVIOUS
<1>1. CASE UNCHANGED vars
  BY <1>1, SameIInv DEF vars
<1>2. CASE \E n, room \in 0..MaxLen, genuine \in BOOLEAN :
             /\ setup.enc => genuine
             /\ \/ End(n, room, genuine)
                \/ \E len \in 1..MaxLen, p \in Asked : OneStep(len, p, n, room, genuine)
  BY <1>2, EndIInv, OneStepIInv
<1> QED
  BY <1>1, <1>2, MessageInitIInv, MismatchIInv, FinalizeIInv, CancelIInv, BeginIInv, Next1IInv
     DEF Next
-----------------------------------------------------------------------------
(* The inductive invariant: the message under way is made of its own       *)
(* bytes, with a counter later than those of the messages before.          *)
THEOREM MessageInvariance == Spec => []IInv
  BY InitIInv, NextIInv, PTL DEF Spec

(* Every variable keeps its type, and the buffer of msg_encrypt_next never *)
(* holds more than the longest message.                                    *)
THEOREM MessagesTypeCorrect == Spec => []TypeOK
<1>1. IInv => TypeOK
  BY DEF IInv
<1> QED
  BY <1>1, MessageInvariance, PTL

(* generate_iv gives no two messages of an operation that were asked for   *)
(* alike the same IV, whatever the application asks between them.          *)
THEOREM IVsDifferAlways == Spec => []IVsDiffer
  BY IIDiffer, MessageInvariance, PTL

(* What is sealed as a GCM message, or as a CCM message that began with an *)
(* empty buffer, is the bytes of that message, all and in order.           *)
THEOREM MessagesAreTheirOwn == Spec => []EachMessageItsOwn
<1>1. IInv => EachMessageItsOwn
  BY DEF IInv, SealOK, EachMessageItsOwn
<1> QED
  BY <1>1, MessageInvariance, PTL
(* A part or an end that is answered with CKR_BUFFER_TOO_SMALL has changed *)
(* neither the operation nor what OpenSSL was given.                       *)
THEOREM MessagesTooSmallChangesNothing == Spec => TooSmallChangesNothing
<1>1. ASSUME IInv, [Next]_vars
      PROVE  [last'.rv = "TooSmall" /\ last'.call \in {"next", "end"} => UNCHANGED <<op, fed, text>>]_vars
  <2> SUFFICES ASSUME Next, last'.rv = "TooSmall", last'.call \in {"next", "end"}
               PROVE  UNCHANGED <<op, fed, text>>
    BY <1>1
  <2>1. ASSUME NEW n \in 0..MaxLen, NEW room \in 0..MaxLen, Next1(n, room)
        PROVE  UNCHANGED <<op, fed, text>>
    <3>1. /\ op \in Op /\ Len(op.buffer) <= MaxLen /\ setup \in Setup /\ msg \in 1..MaxMessages
          /\ text \in Seq(Bytes) /\ fed \in Nat /\ n \in Nat /\ fed + n <= MaxLen /\ room \in Nat
      BY <1>1, <2>1, LiveOp, AesMessagesAssumption DEF Next1, Busy
    <3>2. PICK part \in Seq(Bytes) : part = Units(msg, fed + 1, n)
      BY <3>1, UnitsType
    <3>3. PICK r : r = NextPart(op, part, room)
      OBVIOUS
    <3>4. last'.rv = r.rv /\ op' = r.op /\ fed' = fed + r.fed /\ text' = text \o r.given
      BY <2>1, <3>2, <3>3 DEF Next1, Returns, Part
    <3>5. \/ r = Error(op)
          \/ r = TooSmall(op)
          \/ r = Ok(op, Len(part), part)
          \/ r = Ok(Buffered(op, part), Len(part), <<>>)
      BY <3>1, <3>3, NextPartResult
    <3>6. r = TooSmall(op)
      BY <3>4, <3>5 DEF Error, Ok
    <3> QED
      BY <3>1, <3>4, <3>6 DEF TooSmall
  <2>2. ASSUME NEW n \in 0..MaxLen, NEW room \in 0..MaxLen, NEW genuine \in BOOLEAN,
               End(n, room, genuine)
        PROVE  UNCHANGED <<op, fed, text>>
    <3>1. /\ op \in Op /\ Len(op.buffer) <= MaxLen /\ setup \in Setup /\ msg \in 1..MaxMessages
          /\ text \in Seq(Bytes) /\ fed \in Nat /\ n \in Nat /\ fed + n <= MaxLen /\ room \in Nat
      BY <1>1, <2>2, LiveOp, AesMessagesAssumption DEF End, Busy
    <3>2. PICK part \in Seq(Bytes) : part = Units(msg, fed + 1, n)
      BY <3>1, UnitsType
    <3>3. PICK r : r = LastPart(op, part, room, genuine)
      OBVIOUS
    <3>4. last'.rv = r.rv /\ op' = r.op /\ fed' = fed + r.fed /\ text' = text \o r.given
      BY <2>2, <3>2, <3>3 DEF End, Returns, Part
    <3>5. r = TooSmall(op)
      BY <3>1, <3>3, <3>4, LastTooSmall
    <3> QED
      BY <3>1, <3>4, <3>5 DEF TooSmall
  <2>3. ~MessageInit /\ ~Mismatch /\ ~Finalize /\ ~Cancel
    BY DEF MessageInit, Mismatch, Finalize, Cancel, Returns
  <2>4. \A len \in 1..MaxLen, p \in Asked : ~Begin(len, p)
    BY DEF Begin, Returns
  <2>5. \A n, room \in 0..MaxLen, genuine \in BOOLEAN, len \in 1..MaxLen, p \in Asked :
          ~OneStep(len, p, n, room, genuine)
    BY DEF OneStep, Returns
  <2> QED
    BY <2>1, <2>2, <2>3, <2>4, <2>5 DEF Next
<1> QED
  BY <1>1, MessageInvariance, PTL DEF Spec, TooSmallChangesNothing
=============================================================================
