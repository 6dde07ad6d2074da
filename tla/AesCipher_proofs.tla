-------------------------- MODULE AesCipher_proofs --------------------------
(***************************************************************************)
(* For any lengths of blocks, tags, data and parts: an inductive invariant *)
(* of AesCipher, and that whatever the parts every byte is given to        *)
(* OpenSSL once and in order, what is due is put out, what is accepted is  *)
(* authentic, the counter does not wrap, and a length query is honoured.   *)
(*                                                                         *)
(* The invariant says of an operation, mode by mode, how OpenSSL's part,   *)
(* the tag and the buffer share the data: Parts.  It holds whether or not  *)
(* a call that failed has kept data; what was put out is told from what    *)
(* OpenSSL was given (Paid) only if none did.                              *)
(*                                                                         *)
(* At the end, the step simulation into SessionOps: what the calls do to   *)
(* an AES operation is what SessionOps lets them do to an operation.       *)
(***************************************************************************)
EXTENDS AesCipher, SequenceTheorems, TLAPS

Stream(o) == o.given \o o.tag \o o.buffer

Paid(o) == IF mode = "CBC_PAD" /\ ~enc THEN Unpadded(o) ELSE Len(o.given)

BufferOK(o) ==
  /\ mode = "CTR" => Len(o.buffer) = 0
  /\ mode = "CCM" => Len(o.buffer) < DataLen + TagLen
  /\ mode = "GCM" => Len(o.buffer) <= IF enc THEN 0 ELSE TagLen
  /\ mode \in {"CBC", "CBC_PAD"} => Len(o.buffer) < Block

CounterOK(o) ==
  mode = "CTR" /\ limited => Blocks(Len(o.given)) <= o.blockctr /\ o.blockctr <= maxblocks

(* What holds of an operation however it ended.                            *)
Shape(o) == o \in Op /\ BufferOK(o) /\ CounterOK(o)

(* What holds of one that has not.                                         *)
Parts(o) ==
  /\ enc \/ mode # "CCM" => o.tag = <<>>
  /\ mode = "PKCS7" => o.given = <<>>
  /\ mode \in {"CBC", "CBC_PAD"} => Len(o.given) % Block = 0
  /\ mode = "CCM" /\ o.given = <<>> => o.tag = <<>>
  /\ mode = "CCM" /\ o.given # <<>> =>
       Len(o.given) = DataLen /\ (~enc => setup.genuine /\ Len(o.tag) = TagLen)

LiveOK ==
  /\ Parts(op)
  /\ ~taken => Stream(op) = Positions(1, fed) /\ out = Paid(op)
  /\ ~enc => ~taken

IInv ==
  /\ setup \in Setup
  /\ Shape(op)
  /\ fed \in 0..MaxFed /\ out \in Nat /\ taken \in BOOLEAN
  /\ last \in [call : {"none", "update", "final", "one", "ask"},
               rv : {"OK", "TooSmall", "Starved", "Error"}, enough : BOOLEAN]
  /\ ~op.finalized => LiveOK
  /\ StreamInOrder
  /\ EndPaysAll
  /\ AcceptedIsAuthentic
  /\ AskedRoomSuffices
-----------------------------------------------------------------------------
Data == Seq(1..MaxFed)

LEMMA Constants ==
  /\ Block \in Nat \ {0} /\ TagLen \in Nat \ {0} /\ DataLen \in Nat \ {0}
  /\ MaxFed \in Nat /\ MaxPart \in Nat /\ MaxRoom \in Nat
  /\ Semi \in Nat \ {0} /\ Block = 2 * Semi
  BY AesAssumption DEF Semi

(* The counter of an IV, and how many blocks it leaves.                    *)
LEMMA CounterFields ==
  ASSUME NEW c \in Counters, c # Unlimited
  PROVE  /\ c.left \in 0..7 /\ c.octets \in Nat \ {0} /\ c.start \in Nat
         /\ c.start < Values(c)
         /\ MaxBlocks(c) > 0
<1>1. PICK l \in LeftBits, k \in OctetValues : c \in Starts(l, k)
  BY DEF Counters
<1>2. PICK x \in 0..((2 ^ l) * k - 1) : c = [left |-> l, octets |-> k, start |-> x]
  BY <1>1 DEF Starts
<1>3. c.left = l /\ c.octets = k /\ c.start = x /\ Values(c) = (2 ^ l) * k
  BY <1>2 DEF Values
<1>4. l \in 0..7 /\ k \in Nat \ {0}
  BY AesAssumption
<1>5. x \in Nat /\ x < (2 ^ l) * k
  <2>1. PICK p \in Int : p = 2 ^ l
    BY <1>4
  <2>2. PICK v \in Int : v = p * k
    BY <1>4
  <2>3. x \in 0..v - 1
    BY <2>1, <2>2
  <2> QED
    BY <2>1, <2>2, <2>3
<1> QED
  BY <1>3, <1>4, <1>5 DEF Counters

LEMMA AndType ==
  ASSUME NEW x \in Nat, NEW y \in Nat
  PROVE  And(x, y) \in Int
<1>1. \A z, w \in Nat : w > 0 => Bit(z, w) \in {0, 1}
  BY DEF Bit
<1> QED
  BY <1>1 DEF And

LEMMA CounterTypes ==
  ASSUME NEW c \in Counters
  PROVE  MaxBlocks(c) \in Nat
<1>1. CASE c = Unlimited
  BY <1>1 DEF MaxBlocks
<1>2. CASE c # Unlimited
  <2>1. PICK l \in 0..7, k \in Nat \ {0}, x \in Nat :
          l = c.left /\ k = c.octets /\ x = c.start
    BY <1>2, CounterFields
  <2>2. PICK v \in Int : v = Values(c)
    <3>1. PICK p \in Int : p = 2 ^ l
      OBVIOUS
    <3> QED
      BY <2>1, <3>1 DEF Values
  <2>3. PICK q \in Nat, m \in Nat : q = x \div k /\ m = x % k
    BY <2>1
  <2>4. PICK y \in Int : y = And(q, l)
    BY AndType
  <2>5. MaxBlocks(c) = v - 1 - m - y * k
    BY <1>2, <2>1, <2>2, <2>3, <2>4 DEF MaxBlocks
  <2>6. MaxBlocks(c) \in Int /\ MaxBlocks(c) > 0
    BY <1>2, <2>5, CounterFields
  <2> QED
    BY <2>6
<1> QED
  BY <1>1, <1>2

(* With whole octets, or one bit more, iv & part loses nothing.            *)
LEMMA NoBitLost ==
  ASSUME NEW c \in Counters, c # Unlimited, c.left <= 1
  PROVE  MaxBlocks(c) = Values(c) - 1 - c.start /\ Values(c) \in Nat
<1>1. PICK l \in {0, 1}, k \in Nat \ {0}, x \in Nat :
        l = c.left /\ k = c.octets /\ x = c.start /\ x < Values(c)
  BY CounterFields
<1>2. Values(c) = IF l = 0 THEN k ELSE 2 * k
  <2>1. 2 ^ 0 = 1 /\ 2 ^ 1 = 2
    OBVIOUS
  <2>2. 1 * k = k
    OBVIOUS
  <2>3. CASE l = 0
    BY <1>1, <2>1, <2>2, <2>3 DEF Values
  <2>4. CASE l = 1
    BY <1>1, <2>1, <2>4 DEF Values
  <2> QED
    BY <2>3, <2>4
<1>3. PICK q \in Nat, m \in Nat : q = x \div k /\ m = x % k /\ x = q * k + m
  <2>1. x \div k \in Nat /\ (x % k) \in Nat /\ x = (x \div k) * k + (x % k)
    OBVIOUS
  <2> QED
    BY <2>1
<1>4. q = And(q, l)
  <2>1. Bit(l, 1) = l /\ Bit(l, 2) = 0 /\ Bit(l, 4) = 0
    BY DEF Bit
  <2>2. Bit(q, 1) = q % 2 /\ Bit(q, 2) \in {0, 1} /\ Bit(q, 4) \in {0, 1}
    BY DEF Bit
  <2>3. And(q, l) = (q % 2) * l
    BY <2>1, <2>2 DEF And
  <2>4. CASE l = 0
    <3>1. x < k /\ q = 0
      <4>1. x < k
        BY <1>1, <1>2, <2>4
      <4>2. x \div k = 0
        BY <4>1
      <4> QED
        BY <1>3, <4>1, <4>2
    <3> QED
      BY <2>3, <2>4, <3>1
  <2>5. CASE l = 1
    <3>1. x < 2 * k
      BY <1>1, <1>2, <2>5
    <3>2. q % 2 = q
      BY <1>3, <3>1
    <3> QED
      BY <2>3, <2>5, <3>2
  <2> QED
    BY <2>4, <2>5
<1>5. PICK w \in Nat : w = q * k
  BY <1>3
<1>6. PICK v \in Nat : v = Values(c)
  BY <1>2
<1>7. MaxBlocks(c) = v - 1 - m - w
  BY <1>1, <1>3, <1>4, <1>5, <1>6 DEF MaxBlocks
<1>8. x = w + m
  BY <1>3, <1>5
<1>9. MaxBlocks(c) = v - 1 - x
  BY <1>3, <1>5, <1>6, <1>7, <1>8
<1> QED
  BY <1>1, <1>6, <1>9

LEMMA Modal ==
  ASSUME setup \in Setup
  PROVE  /\ mode \in AllModes /\ enc \in BOOLEAN /\ setup.genuine \in BOOLEAN
         /\ setup.pad \in 1..Block
         /\ maxblocks \in Nat /\ (limited => maxblocks > 0) /\ (~limited => maxblocks = 0)
<1>1. setup.counter = Unlimited \/ MaxBlocks(setup.counter) > 0
  BY DEF Setup, Counters
<1>2. MaxBlocks(setup.counter) \in Nat
  BY CounterTypes DEF Setup
<1>3. MaxBlocks(Unlimited) = 0
  BY DEF MaxBlocks
<1> QED
  BY <1>1, <1>2, <1>3, AesAssumption, Constants DEF Setup, mode, enc, maxblocks, limited

LEMMA BlockIs == Block \in Nat /\ Block > 0
  BY Constants

LEMMA Multiple ==
  ASSUME NEW q \in Nat
  PROVE  q * Block \in Nat /\ (q * Block) % Block = 0 /\ (q > 0 => q * Block >= Block)
<1>1. q * Block \in Nat /\ (q * Block) % Block = 0
  BY BlockIs
<1>2. q > 0 => q * Block >= Block
  BY BlockIs
<1> QED
  BY <1>1, <1>2

LEMMA Division ==
  ASSUME NEW a \in Nat
  PROVE  /\ a \div Block \in Nat /\ (a \div Block) * Block \in 0..a
         /\ a - (a \div Block) * Block < Block
         /\ a % Block = a - (a \div Block) * Block
<1>1. a \div Block \in Nat /\ (a \div Block) * Block \in 0..a /\ a - (a \div Block) * Block < Block
  BY BlockIs
<1>2. a % Block = a - (a \div Block) * Block
  BY BlockIs
<1> QED
  BY <1>1, <1>2

LEMMA LessThanBlock ==
  ASSUME NEW g \in Nat, NEW b \in Nat, g % Block = 0, b < Block
  PROVE  ((g + b) \div Block) * Block = g
<1>1. PICK q \in Nat : q = g \div Block
  BY Division
<1>2. g = q * Block
  BY <1>1, Division, BlockIs
<1>3. (g + b) \div Block = q
  BY <1>1, <1>2, BlockIs
<1> QED
  BY <1>2, <1>3

LEMMA SemiBlocks ==
  ASSUME NEW b \in Nat
  PROVE  b + Semi - (b % Semi) + Semi = (b \div Semi) * Semi + 2 * Semi
<1>1. PICK s \in Nat : s = Semi /\ s > 0
  BY Constants
<1>2. PICK q \in Nat : q = b \div s
  BY <1>1
<1>3. PICK r \in 0..s - 1 : r = b % s
  BY <1>1
<1>4. b = q * s + r
  BY <1>1, <1>2, <1>3
<1>5. PICK w \in Nat : w = q * s
  BY <1>1, <1>2
<1>6. b + s - r + s = w + 2 * s
  BY <1>1, <1>3, <1>4, <1>5
<1> QED
  BY <1>1, <1>2, <1>3, <1>5, <1>6

LEMMA SemiIs == Semi \in Nat /\ Semi > 0
  BY Constants

LEMMA SemiFloor ==
  ASSUME NEW n \in Nat
  PROVE  (n \div Semi) * Semi + 2 * Semi \in Nat
<1>1. PICK q \in Nat : q = n \div Semi
  BY SemiIs
<1> QED
  BY <1>1, SemiIs

LEMMA MultiplesAdd ==
  ASSUME NEW a \in Nat, NEW b \in Nat, a % Block = 0
  PROVE  /\ b % Block = 0 => (a + b) % Block = 0
         /\ a + (b \div Block) * Block = ((a + b) \div Block) * Block
         /\ (a + b) % Block = b % Block
<1> DEFINE q == a \div Block
           p == b \div Block
<1>1. q \in Nat /\ p \in Nat /\ a = q * Block
  BY Division, BlockIs
<1>2. PICK r \in 0..Block - 1 : r = b % Block
  BY BlockIs
<1>3. b = p * Block + r
  <2>1. p * Block \in 0..b /\ r = b - p * Block
    BY <1>2, Division
  <2> QED
    BY <2>1, BlockIs
<1> HIDE DEF q, p
<1>4. a + b = (q + p) * Block + r
  <2>1. PICK x \in Nat : x = q * Block
    BY <1>1, BlockIs
  <2>2. PICK y \in Nat : y = p * Block
    BY <1>1, BlockIs
  <2>3. (q + p) * Block = x + y
    BY <1>1, <2>1, <2>2, BlockIs
  <2> QED
    BY <1>1, <1>2, <1>3, <2>1, <2>2, <2>3
<1>5. (a + b) \div Block = q + p /\ (a + b) % Block = r
  BY <1>1, <1>2, <1>4, BlockIs
<1>6. ((a + b) \div Block) * Block = q * Block + p * Block
  BY <1>1, <1>5, BlockIs
<1> QED
  BY <1>1, <1>2, <1>3, <1>5, <1>6, BlockIs DEF p, q

(* w is what the whole blocks in a bytes make.                             *)
IsWhole(a, w) ==
  /\ w \in Nat /\ w \in 0..a /\ a - w < Block /\ w = a - (a % Block) /\ w % Block = 0
  /\ w > 0 => w >= Block

LEMMA WholeOfSome ==
  ASSUME NEW a \in Nat, NEW w, w = (a \div Block) * Block
  PROVE  IsWhole(a, w)
<1>1. PICK q \in Nat : q = a \div Block
  BY Division
<1>2. w \in 0..a /\ a - w < Block
  BY Division
<1>3. w % Block = 0 /\ (w > 0 => w >= Block)
  <2>1. (q * Block) % Block = 0 /\ (q * Block > 0 => q * Block >= Block)
    BY Multiple, BlockIs
  <2>2. w = q * Block
    BY <1>1
  <2> QED
    BY <2>1, <2>2
<1>4. PICK m \in Nat : m = a % Block
  BY BlockIs
<1>5. m = a - w
  BY <1>4, Division
<1>6. w = a - m
  BY <1>2, <1>5
<1>7. w = a - (a % Block)
  BY <1>4, <1>6, BlockIs
<1> QED
  BY <1>2, <1>3, <1>7 DEF IsWhole

LEMMA WholeBounds ==
  ASSUME NEW o \in Op, NEW n \in Nat
  PROVE  IsWhole(Len(o.buffer) + n, Whole(o, n))
<1>1. Len(o.buffer) + n \in Nat
  BY DEF Op
<1> QED
  BY <1>1, WholeOfSome DEF Whole

LEMMA BlocksType ==
  ASSUME NEW n \in Nat
  PROVE  Blocks(n) \in Nat
  BY Constants DEF Blocks

LEMMA BlocksAdd ==
  ASSUME NEW n \in Nat, NEW k \in Nat
  PROVE  Blocks(n) \in Nat /\ Blocks(0) = 0 /\ Blocks(n + k) <= Blocks(n) + Blocks(k)
  BY Constants DEF Blocks

LEMMA PositionsType ==
  ASSUME NEW f \in Nat, NEW n \in Nat, f + n <= MaxFed
  PROVE  Positions(f + 1, n) \in Data /\ Len(Positions(f + 1, n)) = n
<1>1. \A i \in 1..n : (f + 1) + i - 1 \in 1..MaxFed
  BY Constants
<1> QED
  BY <1>1 DEF Positions, Data

LEMMA PositionsConcat ==
  ASSUME NEW f \in Nat, NEW n \in Nat
  PROVE  Positions(1, f) \o Positions(f + 1, n) = Positions(1, f + n)
  BY DEF Positions

LEMMA PositionsSplit ==
  ASSUME NEW f \in Nat, NEW k \in 0..f, NEW s \in Data, NEW t \in Data,
         s \o t = Positions(1, f), Len(t) = k
  PROVE  s = Positions(1, f - k) /\ t = Positions(f - k + 1, k)
<1> DEFINE l == Len(s)
<1>1. l \in Nat /\ Len(s \o t) = l + k /\ Len(Positions(1, f)) = f
  BY DEF Positions, Data
<1>2. l = f - k
  BY <1>1
<1>3. \A i \in 1..l : s[i] = i
  <2>1. TAKE i \in 1..l
  <2>2. s[i] = (s \o t)[i]
    BY <1>1 DEF Data
  <2>3. Positions(1, f)[i] = i
    BY <1>1, <1>2 DEF Positions
  <2> QED
    BY <2>2, <2>3
<1>4. \A i \in 1..k : t[i] = f - k + i
  <2>1. TAKE i \in 1..k
  <2>2. t[i] = (s \o t)[l + i]
    BY <1>1 DEF Data
  <2>3. Positions(1, f)[l + i] = l + i
    BY <1>1, <1>2 DEF Positions
  <2> QED
    BY <2>2, <2>3, <1>2
<1>5. s = Positions(1, f - k)
  BY <1>2, <1>3 DEF Positions, Data
<1>6. t = Positions(f - k + 1, k)
  BY <1>4 DEF Positions, Data
<1> QED
  BY <1>5, <1>6

-----------------------------------------------------------------------------
(* What Through does: n bytes of those in the buffer and of d go to        *)
(* OpenSSL, the others stay.                                               *)
Moved(o, d, n, t) ==
  /\ t \in Op
  /\ Len(t.given) = Len(o.given) + n
  /\ Len(t.buffer) = (Len(o.buffer) + Len(d)) - n
  /\ t.tag = o.tag /\ t.finalized = o.finalized /\ t.inUse = o.inUse /\ t.blockctr = o.blockctr
  /\ t.given \o t.buffer = o.given \o (o.buffer \o d)
  /\ n = 0 => t.given = o.given /\ t.buffer = o.buffer \o d

LEMMA Cut ==
  ASSUME NEW s \in Data, NEW n \in 0..Len(s)
  PROVE  /\ SubSeq(s, 1, n) \in Data /\ SubSeq(s, n + 1, Len(s)) \in Data
         /\ Len(SubSeq(s, 1, n)) = n /\ Len(SubSeq(s, n + 1, Len(s))) = Len(s) - n
         /\ SubSeq(s, 1, n) \o SubSeq(s, n + 1, Len(s)) = s
<1>1. s \in Seq(1..MaxFed) /\ Len(s) \in Nat
  BY DEF Data
<1>5. \A i \in 1..Len(s) : s[i] \in 1..MaxFed
  BY <1>1, ElementOfSeq
<1>2. SubSeq(s, 1, n) \in Data /\ Len(SubSeq(s, 1, n)) = n
  <2>1. SubSeq(s, 1, n) \in Seq(1..MaxFed)
    <3>1. \A i \in 1..n : s[i] \in 1..MaxFed
      BY <1>1, <1>5
    <3> QED
      BY <3>1, SubSeqProperties, 1 \in Int, n \in Int, Zenon
  <2>2. Len(SubSeq(s, 1, n)) = IF 1 <= n THEN (n - 1) + 1 ELSE 0
    BY <1>1, SubSeqProperties
  <2> QED
    BY <2>1, <2>2, <1>1 DEF Data
<1>3. SubSeq(s, n + 1, Len(s)) \in Data /\ Len(SubSeq(s, n + 1, Len(s))) = Len(s) - n
  <2>1. SubSeq(s, n + 1, Len(s)) \in Seq(1..MaxFed)
    <3>1. \A i \in n + 1..Len(s) : s[i] \in 1..MaxFed
      BY <1>1, <1>5
    <3>2. n + 1 \in Int /\ Len(s) \in Int
      BY <1>1
    <3> QED
      BY <3>1, <3>2, SubSeqProperties, Zenon
  <2>2. Len(SubSeq(s, n + 1, Len(s))) = IF n + 1 <= Len(s) THEN (Len(s) - (n + 1)) + 1 ELSE 0
    BY <1>1, SubSeqProperties
  <2> QED
    BY <2>1, <2>2, <1>1 DEF Data
<1>4. SubSeq(s, 1, n) \o SubSeq(s, n + 1, Len(s)) = s
  <2>1. SubSeq(s, 1, n) \o SubSeq(s, n + 1, Len(s)) = SubSeq(s, 1, Len(s))
    <3>1. 1 \in 1..Len(s) + 1 /\ n \in 1 - 1..Len(s) /\ Len(s) \in n..Len(s)
      BY <1>1
    <3> QED
      BY <1>1, <3>1, ConcatAdjacentSubSeq, Zenon
  <2> QED
    BY <2>1, <1>1, SubSeqFull
<1> QED
  BY <1>2, <1>3, <1>4

LEMMA Joined ==
  ASSUME NEW s \in Data, NEW t \in Data
  PROVE  s \o t \in Data /\ Len(s \o t) = Len(s) + Len(t)
  BY DEF Data

LEMMA Regrouped ==
  ASSUME NEW s \in Data, NEW t \in Data, NEW u \in Data
  PROVE  (s \o t) \o u = s \o (t \o u)
  BY DEF Data

LEMMA OpFields ==
  ASSUME NEW o \in Op
  PROVE  /\ o.finalized \in BOOLEAN /\ o.inUse \in BOOLEAN /\ o.blockctr \in Nat
         /\ o.buffer \in Data /\ o.given \in Data /\ o.tag \in Data
         /\ Len(o.buffer) \in Nat /\ Len(o.given) \in Nat /\ Len(o.tag) \in Nat
  BY DEF Op, Data

LEMMA ThroughMoves ==
  ASSUME NEW o \in Op, NEW d \in Data, NEW n \in 0..Len(o.buffer) + Len(d)
  PROVE  Moved(o, d, n, Through(o, d, n))
<1> DEFINE all == o.buffer \o d
           t == Through(o, d, n)
           first == SubSeq(all, 1, n)
           rest == SubSeq(all, n + 1, Len(all))
<1>1. all \in Data /\ Len(all) = Len(o.buffer) + Len(d)
  BY OpFields, Joined
<1>2. first \in Data /\ rest \in Data /\ Len(first) = n /\ Len(rest) = Len(all) - n /\ first \o rest = all
  BY <1>1, Cut
<1>3. t = [o EXCEPT !.given = o.given \o first, !.buffer = rest]
  BY DEF Through
<1>9. PICK g \in Data : g = o.given
  BY OpFields
<1>4. o.given \o first \in Data /\ Len(o.given \o first) = Len(o.given) + n
  <2>1. g \o first \in Data /\ Len(g \o first) = Len(g) + Len(first)
    BY <1>2, Joined
  <2> QED
    BY <2>1, <1>2, <1>9
<1> HIDE DEF first, rest, t
<1>5. /\ t \in Op /\ t.given = o.given \o first /\ t.buffer = rest
      /\ t.tag = o.tag /\ t.finalized = o.finalized /\ t.inUse = o.inUse /\ t.blockctr = o.blockctr
  BY <1>2, <1>3, <1>4 DEF Op, Data
<1>6. t.given \o t.buffer = o.given \o all
  <2>1. (g \o first) \o rest = g \o (first \o rest)
    BY <1>2, Regrouped
  <2> QED
    BY <2>1, <1>2, <1>9, <1>5
<1>7. ASSUME n = 0 PROVE t.given = o.given /\ t.buffer = all
  <2>1. first = <<>>
    BY <1>2, <1>7, EmptySeq DEF Data
  <2>2. o.given \o <<>> = o.given
    BY OpFields DEF Data
  <2>3. rest = all
    BY <1>1, <1>7 DEF rest, Data
  <2> QED
    BY <1>5, <2>1, <2>2, <2>3
<1>8. Moved(o, d, n, t)
  BY <1>1, <1>2, <1>4, <1>5, <1>6, <1>7 DEF Moved
<1> QED
  BY <1>8 DEF t

Continues(o, d, t) == Stream(t) = Stream(o) \o d

LEMMA StreamParts ==
  ASSUME NEW o \in Op
  PROVE  /\ Stream(o) \in Data /\ Len(Stream(o)) = Len(o.given) + Len(o.tag) + Len(o.buffer)
         /\ o.tag = <<>> => Stream(o) = o.given \o o.buffer
<1>1. o.given \o o.tag \in Data /\ Len(o.given \o o.tag) = Len(o.given) + Len(o.tag)
  BY OpFields, Joined
<1>2. Stream(o) \in Data /\ Len(Stream(o)) = Len(o.given \o o.tag) + Len(o.buffer)
  BY <1>1, OpFields, Joined DEF Stream
<1>3. o.given \o <<>> = o.given
  BY OpFields DEF Data
<1> QED
  BY <1>1, <1>2, <1>3, OpFields DEF Stream

LEMMA MovedContinues ==
  ASSUME NEW o \in Op, NEW d \in Data, NEW n \in Nat, NEW t, Moved(o, d, n, t),
         o.tag = <<>> \/ n = 0
  PROVE  Continues(o, d, t)
<1>1. CASE o.tag = <<>>
  <2>1. Stream(o) = o.given \o o.buffer
    BY <1>1, StreamParts
  <2>2. Stream(t) = t.given \o t.buffer
    BY <1>1, StreamParts DEF Moved
  <2>3. (o.given \o o.buffer) \o d = o.given \o (o.buffer \o d)
    BY OpFields, Regrouped
  <2> QED
    BY <2>1, <2>2, <2>3 DEF Continues, Moved
<1>2. CASE n = 0
  <2>1. Stream(t) = (o.given \o o.tag) \o (o.buffer \o d)
    BY <1>2 DEF Moved, Stream
  <2>2. o.given \o o.tag \in Data
    BY OpFields, Joined
  <2>3. ((o.given \o o.tag) \o o.buffer) \o d = (o.given \o o.tag) \o (o.buffer \o d)
    BY <2>2, OpFields, Regrouped
  <2> QED
    BY <2>1, <2>3 DEF Continues, Stream
<1> QED
  BY <1>1, <1>2

-----------------------------------------------------------------------------
(* Two operations that hold the same data.                                 *)
Alike(o, b) == b \in Op /\ b.given = o.given /\ b.tag = o.tag /\ b.buffer = o.buffer

(* What a part that is taken leaves, and one that is not: the data was kept *)
(* only if it is all over.                                                 *)
Fed(o, d, r) ==
  /\ r.rv = "OK" /\ r.out \in Nat
  /\ Shape(r.op) /\ Parts(r.op) /\ ~r.op.finalized /\ r.op.inUse
  /\ Continues(o, d, r.op)
  /\ Paid(r.op) = Paid(o) + r.out

Unfed(o, r) ==
  /\ r.rv \in {"TooSmall", "Starved", "Error"} /\ r.out = 0
  /\ Shape(r.op)
  /\ Alike(o, r.op) \/ r.op.finalized

LEMMA AlikeSame ==
  ASSUME NEW o, NEW b, Alike(o, b)
  PROVE  /\ BufferOK(o) => BufferOK(b)
         /\ Parts(o) => Parts(b)
         /\ Stream(b) = Stream(o) /\ Paid(b) = Paid(o)
<1>1. BufferOK(o) => BufferOK(b)
  BY DEF Alike, BufferOK
<1>2. Parts(o) => Parts(b)
  BY DEF Alike, Parts
<1>3. Stream(b) = Stream(o) /\ Paid(b) = Paid(o)
  BY DEF Alike, Stream, Paid, Unpadded
<1> QED
  BY <1>1, <1>2, <1>3

LEMMA SetInUse ==
  ASSUME NEW o \in Op, NEW b, b = [o EXCEPT !.inUse = TRUE]
  PROVE  Alike(o, b) /\ b.inUse /\ b.finalized = o.finalized /\ b.blockctr = o.blockctr
  BY DEF Op, Alike

LEMMA SetFinalized ==
  ASSUME NEW o \in Op, NEW b, b = [o EXCEPT !.finalized = TRUE]
  PROVE  Alike(o, b) /\ b.inUse = o.inUse /\ b.finalized /\ b.blockctr = o.blockctr
  BY DEF Op, Alike

CountedFrom(o, n, b) ==
  /\ Alike(o, b) /\ b.inUse = o.inUse /\ b.finalized = o.finalized
  /\ b.blockctr = o.blockctr + IF maxblocks # 0 THEN Blocks(n) ELSE 0

LEMMA SetCounted ==
  ASSUME setup \in Setup, NEW o \in Op, NEW n \in Nat
  PROVE  CountedFrom(o, n, Counted(o, n))
<1>1. o.blockctr + (IF maxblocks # 0 THEN Blocks(n) ELSE 0) \in Nat
  <2>1. Blocks(n) \in Nat /\ o.blockctr \in Nat
    BY BlocksAdd, OpFields
  <2> QED
    BY <2>1
<1> QED
  BY <1>1 DEF Op, Alike, Counted, CountedFrom

LEMMA ShapeAlike ==
  ASSUME NEW o, NEW b, Shape(o), Alike(o, b), b.blockctr = o.blockctr
  PROVE  Shape(b)
<1>1. BufferOK(b) /\ b \in Op
  BY AlikeSame DEF Shape, Alike
<1>2. CounterOK(b)
  BY DEF Shape, CounterOK, Alike
<1> QED
  BY <1>1, <1>2 DEF Shape

LEMMA FatalUnfed ==
  ASSUME NEW o, Shape(o), NEW b, Alike(o, b), b.blockctr = o.blockctr
  PROVE  Unfed(o, Fatal(b))
<1>1. PICK f : f = [b EXCEPT !.finalized = TRUE]
  OBVIOUS
<1>2. Alike(b, f) /\ f.blockctr = b.blockctr
  BY <1>1, SetFinalized DEF Alike
<1>3. Alike(o, f) /\ Shape(f)
  BY <1>2, ShapeAlike DEF Alike
<1> QED
  BY <1>1, <1>3 DEF Unfed, Fatal, Refused

LEMMA TooSmallUnfed ==
  ASSUME NEW o, NEW b, Alike(o, b), Shape(b)
  PROVE  Unfed(o, TooSmall(b))
  BY DEF Unfed, TooSmall

LEMMA FedBy ==
  ASSUME NEW o, NEW b, Alike(o, b), o \in Op, b.inUse, ~b.finalized,
         NEW d \in Data, NEW k \in 0..Len(o.buffer) + Len(d), NEW t, t = Through(b, d, k),
         o.tag = <<>> \/ k = 0, BufferOK(t), CounterOK(t), Parts(t),
         NEW m \in Nat, Paid(t) = Paid(o) + m
  PROVE  Fed(o, d, Ok(t, m))
<1>1. b \in Op /\ k \in 0..Len(b.buffer) + Len(d)
  BY DEF Alike
<1>2. Moved(b, d, k, t)
  BY <1>1, ThroughMoves
<1>3. Len(o.buffer) \in Nat /\ Len(d) \in Nat
  BY OpFields DEF Data
<1>4. Continues(b, d, t)
  BY <1>1, <1>2, <1>3, MovedContinues DEF Alike
<1>5. Continues(o, d, t)
  BY <1>4, AlikeSame DEF Continues
<1>6. t \in Op /\ ~t.finalized /\ t.inUse
  BY <1>2 DEF Moved
<1> QED
  BY <1>5, <1>6 DEF Fed, Ok, Shape

LEMMA PaidMoves ==
  ASSUME setup \in Setup, NEW o \in Op, NEW t \in Op, NEW k \in Nat,
         Len(t.given) = Len(o.given) + k, ~(mode = "CBC_PAD" /\ ~enc)
  PROVE  Paid(t) = Paid(o) + k
  BY DEF Paid

(* What follows on Parts and on the buffer when k bytes go to OpenSSL, in  *)
(* the modes that have no tag to keep.                                     *)
LEMMA NoTag ==
  ASSUME setup \in Setup, NEW o \in Op, Parts(o), enc \/ mode # "CCM"
  PROVE  o.tag = <<>>
  BY DEF Parts

LEMMA UpdateOfPkcs7 ==
  ASSUME setup \in Setup, NEW o, Shape(o), Parts(o), ~o.finalized, NEW d \in Data, mode = "PKCS7",
         NEW b, b = [o EXCEPT !.inUse = TRUE]
  PROVE  Fed(o, d, Ok(Kept(b, d), 0))
<1>1. o \in Op /\ Alike(o, b) /\ b.inUse /\ ~b.finalized /\ b \in Op
  BY SetInUse DEF Shape, Alike
<1>2. PICK t : t = Through(b, d, 0)
  OBVIOUS
<1>3. 0 \in 0..Len(o.buffer) + Len(d) /\ Len(b.buffer) = Len(o.buffer)
  BY <1>1, OpFields DEF Alike, Data
<1>4. Moved(b, d, 0, t)
  BY <1>1, <1>2, <1>3, ThroughMoves
<1>5. t.given = <<>> /\ t.tag = <<>> /\ o.given = <<>>
  BY <1>1, <1>4 DEF Moved, Alike, Parts
<1>6. BufferOK(t) /\ CounterOK(t) /\ Parts(t)
  BY <1>5 DEF BufferOK, CounterOK, Parts
<1>7. Paid(t) = Paid(o) + 0 /\ 0 \in Nat
  BY <1>5, <1>1, OpFields DEF Paid
<1> QED
  BY <1>1, <1>2, <1>3, <1>5, <1>6, <1>7, FedBy DEF Kept

(* CTR gives OpenSSL the whole part.  The limit on blocks is kept.         *)
LEMMA UpdateOfCtr ==
  ASSUME setup \in Setup, NEW o, Shape(o), Parts(o), ~o.finalized, NEW d \in Data, mode = "CTR",
         NEW n \in Nat, n = Len(d), NEW b, b = [o EXCEPT !.inUse = TRUE], ~OverLimit(b, n),
         NEW c, c = Counted(b, n), NEW t, t = Through(c, d, n)
  PROVE  Unfed(o, TooSmall(c)) /\ Fed(o, d, Ok(t, n))
<1>1. o \in Op /\ Alike(o, b) /\ b.inUse /\ ~b.finalized /\ b \in Op /\ b.blockctr = o.blockctr
  BY SetInUse DEF Shape, Alike
<1>2. Len(o.buffer) = 0 /\ Len(o.given) \in Nat /\ o.blockctr \in Nat
  BY <1>1, OpFields DEF Data, Shape, BufferOK
<1>3. /\ Alike(b, c) /\ c.inUse /\ ~c.finalized
      /\ c.blockctr = o.blockctr + IF maxblocks # 0 THEN Blocks(n) ELSE 0
  <2>1. /\ Alike(b, c) /\ c.inUse = b.inUse /\ c.finalized = b.finalized
        /\ c.blockctr = b.blockctr + IF maxblocks # 0 THEN Blocks(n) ELSE 0
    <3>1. CountedFrom(b, n, c)
      BY <1>1, SetCounted
    <3> QED
      BY <3>1 DEF CountedFrom
  <2> QED
    BY <1>1, <2>1, Zenon
<1>4. Alike(o, c) /\ c \in Op
  BY <1>1, <1>3 DEF Alike
<1>5. Moved(c, d, n, t)
  BY <1>2, <1>4, ThroughMoves DEF Alike
<1>6. ASSUME limited
      PROVE  /\ c.blockctr <= maxblocks
             /\ Blocks(Len(o.given) + n) <= c.blockctr
             /\ Blocks(Len(o.given)) <= c.blockctr
  <2>1. maxblocks # 0 /\ maxblocks \in Nat
    BY <1>6, Modal
  <2>2. Blocks(n) \in Nat /\ Blocks(Len(o.given)) \in Nat /\ Blocks(Len(o.given) + n) \in Nat
    <3>1. Len(o.given) + n \in Nat
      BY <1>2
    <3> QED
      BY <1>2, <3>1, BlocksType
  <2>3. c.blockctr = o.blockctr + Blocks(n) /\ o.blockctr + Blocks(n) <= maxblocks
    BY <1>1, <1>2, <1>3, <2>1, <2>2 DEF OverLimit
  <2>4. Blocks(Len(o.given)) <= o.blockctr
    BY <1>6 DEF Shape, CounterOK
  <2>5. Blocks(Len(o.given) + n) <= Blocks(Len(o.given)) + Blocks(n)
    BY <1>2, BlocksAdd
  <2> QED
    BY <1>2, <2>1, <2>2, <2>3, <2>4, <2>5
<1>7. CounterOK(c) /\ CounterOK(t)
  BY <1>4, <1>5, <1>6 DEF CounterOK, Moved, Alike
<1>8. BufferOK(c) /\ BufferOK(t)
  BY <1>2, <1>4, <1>5 DEF BufferOK, Moved, Alike
<1>9. Parts(t) /\ o.tag = <<>>
  BY <1>4, <1>5, NoTag, <1>1 DEF Parts, Moved, Alike
<1>10. Paid(t) = Paid(o) + n
  <2>1. t \in Op /\ Len(t.given) = Len(o.given) + n /\ ~(mode = "CBC_PAD" /\ ~enc)
    BY <1>4, <1>5 DEF Moved, Alike
  <2> QED
    BY <2>1, <1>1, PaidMoves
<1>11. Unfed(o, TooSmall(c))
  BY <1>4, <1>7, <1>8, TooSmallUnfed DEF Shape
<1>12. n \in 0..Len(o.buffer) + Len(d)
  BY <1>2
<1>13. Fed(o, d, Ok(t, n))
  BY <1>1, <1>2, <1>3, <1>4, <1>7, <1>8, <1>9, <1>10, <1>12, FedBy
<1> QED
  BY <1>11, <1>13

(* The part d taken in an operation in use, k bytes given to OpenSSL.      *)
TakenBy(o, b, d, k, t) ==
  /\ o \in Op /\ Alike(o, b) /\ b.inUse /\ ~b.finalized /\ b.blockctr = o.blockctr
  /\ t \in Op /\ t.tag = o.tag
  /\ Len(t.given) = Len(o.given) + k
  /\ Len(t.buffer) = (Len(o.buffer) + Len(d)) - k
  /\ k = 0 => t.given = o.given

LEMMA PartTaken ==
  ASSUME NEW o, Shape(o), ~o.finalized, NEW d \in Data, NEW k \in 0..Len(o.buffer) + Len(d),
         NEW b, b = [o EXCEPT !.inUse = TRUE], NEW t, t = Through(b, d, k)
  PROVE  TakenBy(o, b, d, k, t)
<1>1. o \in Op /\ Alike(o, b) /\ b.inUse /\ ~b.finalized /\ b \in Op /\ b.blockctr = o.blockctr
  BY SetInUse DEF Shape, Alike
<1>2. k \in 0..Len(b.buffer) + Len(d)
  BY <1>1 DEF Alike
<1>3. Moved(b, d, k, t)
  BY <1>1, <1>2, ThroughMoves
<1> QED
  BY <1>1, <1>3 DEF TakenBy, Moved, Alike

LEMMA PartFed ==
  ASSUME setup \in Setup, NEW o, NEW b, NEW d \in Data, NEW k \in 0..Len(o.buffer) + Len(d), NEW t,
         TakenBy(o, b, d, k, t), t = Through(b, d, k), mode # "CTR", o.tag = <<>> \/ k = 0,
         BufferOK(t), Parts(t), NEW m \in Nat, Paid(t) = Paid(o) + m
  PROVE  Fed(o, d, Ok(t, m))
<1>1. CounterOK(t)
  BY DEF CounterOK
<1> QED
  BY <1>1, FedBy DEF TakenBy

LEMMA UpdateOfBlocks ==
  ASSUME setup \in Setup, NEW o, Shape(o), Parts(o), ~o.finalized, NEW d \in Data,
         mode = "CBC" \/ (mode = "CBC_PAD" /\ enc), NEW b, b = [o EXCEPT !.inUse = TRUE],
         NEW k, k = Whole(b, Len(d)), NEW t, t = Through(b, d, k)
  PROVE  Fed(o, d, Ok(t, k))
<1>1. o \in Op /\ b \in Op /\ b.buffer = o.buffer /\ Len(d) \in Nat
  BY SetInUse DEF Shape, Alike, Data
<1>2. /\ k \in 0..Len(o.buffer) + Len(d) /\ (Len(o.buffer) + Len(d)) - k < Block /\ k % Block = 0
      /\ k \in Nat
  <2>1. IsWhole(Len(b.buffer) + Len(d), k)
    BY <1>1, WholeBounds
  <2> QED
    BY <1>1, <2>1 DEF IsWhole
<1>3. TakenBy(o, b, d, k, t)
  BY <1>2, PartTaken
<1>4. BufferOK(t)
  BY <1>2, <1>3 DEF BufferOK, TakenBy
<1>5. Len(o.given) \in Nat /\ Len(o.given) % Block = 0 /\ o.tag = <<>>
  BY <1>1, NoTag, OpFields DEF Parts
<1>6. (Len(o.given) + k) % Block = 0
  BY <1>2, <1>5, MultiplesAdd
<1>7. Parts(t)
  BY <1>3, <1>5, <1>6 DEF Parts, TakenBy
<1>8. Paid(t) = Paid(o) + k
  BY <1>2, <1>3, PaidMoves DEF TakenBy
<1> QED
  BY <1>2, <1>3, <1>4, <1>5, <1>7, <1>8, PartFed

(* OpenSSL holds a block back.                                             *)
LEMMA UpdateOfPadded ==
  ASSUME setup \in Setup, NEW o, Shape(o), Parts(o), ~o.finalized, NEW d \in Data,
         mode = "CBC_PAD", ~enc, NEW b, b = [o EXCEPT !.inUse = TRUE],
         NEW k, k = Whole(b, Len(d)), NEW t, t = Through(b, d, k)
  PROVE  Fed(o, d, Ok(t, Released(b, t)))
<1>1. o \in Op /\ b \in Op /\ b.buffer = o.buffer /\ b.given = o.given /\ Len(d) \in Nat
  BY SetInUse DEF Shape, Alike, Data
<1>2. /\ k \in 0..Len(o.buffer) + Len(d) /\ (Len(o.buffer) + Len(d)) - k < Block /\ k % Block = 0
      /\ k \in Nat /\ (k > 0 => k >= Block)
  <2>1. IsWhole(Len(b.buffer) + Len(d), k)
    BY <1>1, WholeBounds
  <2> QED
    BY <1>1, <2>1 DEF IsWhole
<1>3. TakenBy(o, b, d, k, t)
  BY <1>2, PartTaken
<1>4. BufferOK(t)
  BY <1>2, <1>3 DEF BufferOK, TakenBy
<1>5. Len(o.given) \in Nat /\ Len(o.given) % Block = 0 /\ o.tag = <<>>
  BY <1>1, NoTag, OpFields DEF Parts
<1>6. (Len(o.given) + k) % Block = 0
  BY <1>2, <1>5, MultiplesAdd
<1>7. Parts(t)
  BY <1>3, <1>5, <1>6 DEF Parts, TakenBy
<1>8. Released(b, t) \in Nat /\ Unpadded(t) = Unpadded(o) + Released(b, t)
  <2>1. o.given = <<>> <=> Len(o.given) = 0
    BY <1>1, OpFields, EmptySeq DEF Data
  <2>2. t.given = <<>> <=> Len(t.given) = 0
    BY <1>3, OpFields, EmptySeq DEF Data, TakenBy
  <2>3. Len(t.given) = Len(o.given) + k
    BY <1>3 DEF TakenBy
  <2>4. Unpadded(o) = IF Len(o.given) = 0 THEN 0 ELSE Len(o.given) - Block
    BY <2>1 DEF Unpadded
  <2>5. Unpadded(t) = IF Len(o.given) + k = 0 THEN 0 ELSE (Len(o.given) + k) - Block
    BY <2>2, <2>3 DEF Unpadded
  <2>6. Released(b, t) = Unpadded(t) - Unpadded(o)
    BY <1>1 DEF Released, Unpadded
  <2>7. CASE Len(o.given) = 0 /\ k = 0
    BY <2>4, <2>5, <2>6, <2>7
  <2>8. CASE Len(o.given) = 0 /\ k > 0
    <3>1. Unpadded(o) = 0 /\ Unpadded(t) = k - Block
      BY <1>2, <2>4, <2>5, <2>8
    <3> QED
      BY <1>2, <2>6, <2>8, <3>1, BlockIs
  <2>9. CASE Len(o.given) > 0
    <3>1. Unpadded(o) = Len(o.given) - Block /\ Unpadded(t) = (Len(o.given) + k) - Block
      BY <1>2, <1>5, <2>4, <2>5, <2>9
    <3> QED
      BY <1>2, <1>5, <2>6, <3>1, BlockIs
  <2> QED
    BY <1>2, <1>5, <2>7, <2>8, <2>9
<1>9. Paid(t) = Paid(o) + Released(b, t)
  BY <1>8 DEF Paid
<1> QED
  BY <1>2, <1>3, <1>4, <1>5, <1>7, <1>8, <1>9, PartFed

LEMMA UpdateOfGcm ==
  ASSUME setup \in Setup, NEW o, Shape(o), Parts(o), ~o.finalized, NEW d \in Data, mode = "GCM",
         NEW b, b = [o EXCEPT !.inUse = TRUE],
         NEW k, k = IF enc THEN Len(d) ELSE BeforeTag(b, Len(d)), NEW t, t = Through(b, d, k)
  PROVE  Fed(o, d, Ok(t, k))
<1>1. o \in Op /\ b.buffer = o.buffer /\ Len(d) \in Nat /\ Len(o.buffer) \in Nat
  BY SetInUse, OpFields DEF Shape, Alike, Data
<1>2. TagLen \in Nat /\ (enc => Len(o.buffer) = 0)
  BY <1>1, Constants DEF Shape, BufferOK
<1>3. /\ k \in 0..Len(o.buffer) + Len(d) /\ k \in Nat
      /\ (Len(o.buffer) + Len(d)) - k <= IF enc THEN 0 ELSE TagLen
  <2>1. CASE enc
    BY <1>1, <1>2, <2>1
  <2>2. CASE ~enc
    BY <1>1, <1>2, <2>2 DEF BeforeTag
  <2> QED
    BY <2>1, <2>2
<1>4. TakenBy(o, b, d, k, t)
  BY <1>3, PartTaken
<1>5. BufferOK(t)
  BY <1>3, <1>4 DEF BufferOK, TakenBy
<1>6. o.tag = <<>> /\ Parts(t)
  BY <1>4, NoTag DEF Parts, TakenBy
<1>7. Paid(t) = Paid(o) + k
  BY <1>3, <1>4, PaidMoves DEF TakenBy
<1> QED
  BY <1>3, <1>4, <1>5, <1>6, <1>7, PartFed

LEMMA UpdateOfCcmKept ==
  ASSUME setup \in Setup, NEW o, Shape(o), Parts(o), ~o.finalized, NEW d \in Data, mode = "CCM",
         Len(o.buffer) + Len(d) < DataLen + TagLen, NEW b, b = [o EXCEPT !.inUse = TRUE]
  PROVE  Fed(o, d, Ok(Kept(b, d), 0))
<1>1. PICK t : t = Through(b, d, 0)
  OBVIOUS
<1>2. o \in Op /\ 0 \in 0..Len(o.buffer) + Len(d) /\ Len(o.buffer) \in Nat /\ Len(d) \in Nat
  BY OpFields DEF Shape, Data
<1>3. TakenBy(o, b, d, 0, t)
  BY <1>1, <1>2, PartTaken
<1>4. BufferOK(t)
  BY <1>2, <1>3 DEF BufferOK, TakenBy
<1>5. Parts(t)
  BY <1>3 DEF Parts, TakenBy
<1>6. Paid(t) = Paid(o) + 0
  BY <1>2, <1>3, PaidMoves DEF TakenBy
<1> QED
  BY <1>1, <1>2, <1>3, <1>4, <1>5, <1>6, PartFed DEF Kept

LEMMA UpdateOfCcmWhole ==
  ASSUME setup \in Setup, NEW o, Shape(o), Parts(o), ~o.finalized, NEW d \in Data, mode = "CCM",
         Len(o.buffer) + Len(d) = DataLen, o.given = <<>>, enc,
         NEW b, b = [o EXCEPT !.inUse = TRUE]
  PROVE  Fed(o, d, Ok(Through(b, d, DataLen), DataLen))
<1>1. PICK t : t = Through(b, d, DataLen)
  OBVIOUS
<1>2. /\ o \in Op /\ DataLen \in 0..Len(o.buffer) + Len(d) /\ Len(o.buffer) \in Nat /\ Len(d) \in Nat
      /\ DataLen \in Nat /\ TagLen \in Nat /\ TagLen > 0 /\ Len(o.given) = 0
  BY OpFields, Constants DEF Shape, Data
<1>3. TakenBy(o, b, d, DataLen, t)
  BY <1>1, <1>2, PartTaken
<1>4. BufferOK(t)
  BY <1>2, <1>3 DEF BufferOK, TakenBy
<1>5. o.tag = <<>>
  BY <1>2, NoTag
<1>6. Parts(t)
  BY <1>2, <1>3, <1>5 DEF Parts, TakenBy
<1>7. Paid(t) = Paid(o) + DataLen
  BY <1>2, <1>3, PaidMoves DEF TakenBy
<1> QED
  BY <1>1, <1>2, <1>3, <1>4, <1>5, <1>6, <1>7, PartFed

LEMMA TaggedSame ==
  ASSUME NEW t \in Op, t.tag = <<>>, NEW g, g = Tagged(t)
  PROVE  /\ g \in Op /\ g.given = t.given /\ g.tag = t.buffer /\ g.buffer = <<>>
         /\ g.finalized = t.finalized /\ g.inUse = t.inUse /\ g.blockctr = t.blockctr
         /\ Stream(g) = Stream(t)
<1>1. /\ g \in Op /\ g.given = t.given /\ g.tag = t.buffer /\ g.buffer = <<>>
      /\ g.finalized = t.finalized /\ g.inUse = t.inUse /\ g.blockctr = t.blockctr
  BY DEF Tagged, Op
<1>2. Stream(t) = t.given \o t.buffer
  BY StreamParts
<1>3. Stream(g) = (t.given \o t.buffer) \o <<>>
  BY <1>1 DEF Stream
<1>4. t.given \o t.buffer \in Data
  BY OpFields, Joined
<1>5. (t.given \o t.buffer) \o <<>> = t.given \o t.buffer
  BY <1>4 DEF Data
<1> QED
  BY <1>1, <1>2, <1>3, <1>5

LEMMA UpdateOfCcmTagged ==
  ASSUME setup \in Setup, NEW o, Shape(o), Parts(o), ~o.finalized, NEW d \in Data, mode = "CCM",
         Len(o.buffer) + Len(d) = DataLen + TagLen, o.given = <<>>, ~enc, setup.genuine,
         NEW b, b = [o EXCEPT !.inUse = TRUE]
  PROVE  Fed(o, d, Ok(Tagged(Through(b, d, DataLen)), DataLen))
<1>1. PICK t : t = Through(b, d, DataLen)
  OBVIOUS
<1>2. /\ o \in Op /\ DataLen \in 0..Len(o.buffer) + Len(d) /\ Len(o.buffer) \in Nat /\ Len(d) \in Nat
      /\ DataLen \in Nat /\ TagLen \in Nat /\ TagLen > 0 /\ Len(o.given) = 0
  BY OpFields, Constants DEF Shape, Data
<1>3. b \in Op /\ b.buffer = o.buffer /\ b.tag = <<>> /\ b.inUse /\ ~b.finalized /\ Stream(b) = Stream(o)
      /\ b.given = o.given
  BY <1>2, SetInUse, AlikeSame DEF Alike, Parts
<1>4. Moved(b, d, DataLen, t)
  BY <1>1, <1>2, <1>3, ThroughMoves
<1>5. Stream(t) = Stream(o) \o d
  <2>1. Continues(b, d, t)
    BY <1>2, <1>3, <1>4, MovedContinues
  <2>2. Stream(t) = Stream(b) \o d
    BY <2>1 DEF Continues
  <2> QED
    BY <1>3, <2>2
<1>6. /\ t \in Op /\ t.tag = <<>> /\ t.inUse /\ ~t.finalized /\ Len(t.given) = DataLen
      /\ Len(t.buffer) = TagLen
  BY <1>2, <1>3, <1>4 DEF Moved
<1>7. PICK g : g = Tagged(t)
  OBVIOUS
<1>8. /\ g \in Op /\ g.given = t.given /\ g.tag = t.buffer /\ g.buffer = <<>>
      /\ ~g.finalized /\ g.inUse /\ Stream(g) = Stream(t)
  BY <1>6, <1>7, TaggedSame
<1>9. BufferOK(g) /\ CounterOK(g) /\ Parts(g)
  <2>1. BufferOK(g) /\ CounterOK(g)
    BY <1>2, <1>8 DEF BufferOK, CounterOK
  <2>2. Parts(g)
    BY Constants, <1>2, <1>6, <1>8 DEF Parts
  <2> QED
    BY <2>1, <2>2
<1>10. Paid(g) = Paid(o) + DataLen
  BY <1>2, <1>6, <1>8 DEF Paid
<1>11. Fed(o, d, Ok(g, DataLen))
  BY <1>2, <1>5, <1>8, <1>9, <1>10 DEF Fed, Ok, Shape, Continues
<1> QED
  BY <1>1, <1>7, <1>11

LEMMA EncryptUpdateFeeds ==
  ASSUME setup \in Setup, enc, NEW o, Shape(o), Parts(o), ~o.finalized, NEW d \in Data, NEW room
  PROVE  Fed(o, d, EncryptUpdate(o, d, room)) \/ Unfed(o, EncryptUpdate(o, d, room))
<1>1. PICK b : b = [o EXCEPT !.inUse = TRUE]
  OBVIOUS
<1>2. PICK n \in Nat : n = Len(d)
  BY DEF Data
<1>3. /\ o \in Op /\ Alike(o, b) /\ b.blockctr = o.blockctr /\ b \in Op /\ b.buffer = o.buffer
      /\ b.given = o.given
  BY <1>1, SetInUse DEF Shape, Alike
<1>4. Unfed(o, Fatal(b)) /\ Unfed(o, TooSmall(b))
  BY <1>3, FatalUnfed, TooSmallUnfed, ShapeAlike
<1>5. CASE mode = "PKCS7"
  <2>1. EncryptUpdate(o, d, room) = Ok(Kept(b, d), 0)
    BY <1>1, <1>5 DEF EncryptUpdate
  <2> QED
    BY <1>1, <1>5, <2>1, UpdateOfPkcs7
<1>6. CASE mode = "CTR"
  <2>1. CASE OverLimit(b, n)
    <3>1. EncryptUpdate(o, d, room) = Fatal(b)
      BY <1>1, <1>2, <1>6, <2>1 DEF EncryptUpdate
    <3> QED
      BY <1>4, <3>1
  <2>2. CASE ~OverLimit(b, n)
    <3>1. PICK c, t : c = Counted(b, n) /\ t = Through(c, d, n)
      OBVIOUS
    <3>2. Unfed(o, TooSmall(c)) /\ Fed(o, d, Ok(t, n))
      BY <1>1, <1>2, <1>6, <2>2, <3>1, UpdateOfCtr
    <3>3. EncryptUpdate(o, d, room) = IF room < n THEN TooSmall(c) ELSE Ok(t, n)
      BY <1>1, <1>2, <1>6, <2>2, <3>1 DEF EncryptUpdate
    <3> QED
      BY <3>2, <3>3
  <2> QED
    BY <2>1, <2>2
<1>7. CASE mode = "CCM"
  <2>1. \/ EncryptUpdate(o, d, room) \in {Fatal(b), TooSmall(b)}
        \/ EncryptUpdate(o, d, room) = Ok(Kept(b, d), 0) /\ Len(o.buffer) + n < DataLen
        \/ /\ EncryptUpdate(o, d, room) = Ok(Through(b, d, DataLen), DataLen)
           /\ ~(Len(o.buffer) + n > DataLen) /\ ~(Len(o.buffer) + n < DataLen) /\ o.given = <<>>
    BY <1>1, <1>2, <1>3, <1>7 DEF EncryptUpdate
  <2>2. Len(o.buffer) + n \in Nat /\ DataLen \in Nat /\ TagLen \in Nat
    BY <1>3, OpFields, Constants
  <2>3. CASE Len(o.buffer) + n < DataLen
    BY <1>1, <1>2, <1>4, <1>7, <2>1, <2>2, <2>3, UpdateOfCcmKept
  <2>4. CASE Len(o.buffer) + n = DataLen
    BY <1>1, <1>2, <1>4, <1>7, <2>1, <2>2, <2>4, UpdateOfCcmWhole
  <2> QED
    BY <1>4, <2>1, <2>2, <2>3, <2>4
<1>8. CASE mode = "GCM"
  <2>1. EncryptUpdate(o, d, room) \in {TooSmall(b), Ok(Through(b, d, n), n)}
    BY <1>1, <1>2, <1>8 DEF EncryptUpdate
  <2>2. Fed(o, d, Ok(Through(b, d, n), n))
    BY <1>1, <1>2, <1>8, UpdateOfGcm
  <2> QED
    BY <1>4, <2>1, <2>2
<1>9. CASE mode \in {"CBC", "CBC_PAD"}
  <2>1. PICK k : k = Whole(b, n)
    OBVIOUS
  <2>2. EncryptUpdate(o, d, room) \in {TooSmall(b), Ok(Through(b, d, k), k)}
    BY <1>1, <1>2, <1>9, <2>1 DEF EncryptUpdate
  <2>3. Fed(o, d, Ok(Through(b, d, k), k))
    BY <1>1, <1>2, <1>9, <2>1, UpdateOfBlocks
  <2> QED
    BY <1>4, <2>2, <2>3
<1> QED
  BY <1>5, <1>6, <1>7, <1>8, <1>9, Modal DEF AllModes

LEMMA DecryptUpdateFeeds ==
  ASSUME setup \in Setup, ~enc, NEW o, Shape(o), Parts(o), ~o.finalized, NEW d \in Data, NEW room
  PROVE  Fed(o, d, DecryptUpdate(o, d, room)) \/ Unfed(o, DecryptUpdate(o, d, room))
<1>1. PICK b : b = [o EXCEPT !.inUse = TRUE]
  OBVIOUS
<1>2. PICK n \in Nat : n = Len(d)
  BY DEF Data
<1>3. /\ o \in Op /\ Alike(o, b) /\ b.blockctr = o.blockctr /\ b \in Op /\ b.buffer = o.buffer
      /\ b.given = o.given /\ Alike(o, o)
  BY <1>1, SetInUse DEF Shape, Alike
<1>4. Unfed(o, Fatal(b)) /\ Unfed(o, Fatal(o)) /\ Unfed(o, TooSmall(b))
  BY <1>3, FatalUnfed, TooSmallUnfed, ShapeAlike
<1>5. CASE mode = "PKCS7"
  <2>1. DecryptUpdate(o, d, room) = Ok(Kept(b, d), 0)
    BY <1>1, <1>5 DEF DecryptUpdate
  <2> QED
    BY <1>1, <1>5, <2>1, UpdateOfPkcs7
<1>6. CASE mode = "CTR"
  <2>1. CASE OverLimit(b, n)
    <3>1. DecryptUpdate(o, d, room) = Fatal(b)
      BY <1>1, <1>2, <1>6, <2>1 DEF DecryptUpdate
    <3> QED
      BY <1>4, <3>1
  <2>2. CASE ~OverLimit(b, n)
    <3>1. PICK c, t : c = Counted(b, n) /\ t = Through(c, d, n)
      OBVIOUS
    <3>2. Unfed(o, TooSmall(c)) /\ Fed(o, d, Ok(t, n))
      BY <1>1, <1>2, <1>6, <2>2, <3>1, UpdateOfCtr
    <3>3. DecryptUpdate(o, d, room) = IF room < n THEN TooSmall(c) ELSE Ok(t, n)
      BY <1>1, <1>2, <1>6, <2>2, <3>1 DEF DecryptUpdate
    <3> QED
      BY <3>2, <3>3
  <2> QED
    BY <2>1, <2>2
<1>7. CASE mode = "CCM"
  <2>1. PICK t : t = Through(b, d, DataLen)
    OBVIOUS
  <2>2. \/ DecryptUpdate(o, d, room) \in {Fatal(o), Fatal(b), TooSmall(b)}
        \/ /\ DecryptUpdate(o, d, room) = Ok(Kept(b, d), 0)
           /\ Len(o.buffer) + n < DataLen + TagLen
        \/ /\ DecryptUpdate(o, d, room) = Verified(t, DataLen)
           /\ ~(Len(o.buffer) + n > DataLen + TagLen) /\ ~(Len(o.buffer) + n < DataLen + TagLen)
           /\ o.given = <<>>
    BY <1>1, <1>2, <1>3, <1>7, <2>1 DEF DecryptUpdate
  <2>3. Len(o.buffer) + n \in Nat /\ DataLen \in Nat /\ TagLen \in Nat /\ DataLen + TagLen \in Nat
    BY <1>3, OpFields, Constants
  <2>4. CASE Len(o.buffer) + n < DataLen + TagLen
    BY <1>1, <1>2, <1>4, <1>7, <2>2, <2>3, <2>4, UpdateOfCcmKept
  <2>5. ASSUME DecryptUpdate(o, d, room) = Verified(t, DataLen), o.given = <<>>,
               Len(o.buffer) + n = DataLen + TagLen
        PROVE  Fed(o, d, DecryptUpdate(o, d, room)) \/ Unfed(o, DecryptUpdate(o, d, room))
    <3>1. CASE setup.genuine
      <4>1. Fed(o, d, Ok(Tagged(t), DataLen))
        BY <1>1, <1>2, <1>7, <2>1, <2>5, <3>1, UpdateOfCcmTagged
      <4> QED
        BY <2>5, <3>1, <4>1 DEF Verified
    <3>2. CASE ~setup.genuine
      <4>1. DecryptUpdate(o, d, room) = Fatal(t)
        BY <2>5, <3>2 DEF Verified
      <4>2. DataLen \in 0..Len(o.buffer) + Len(d) /\ DataLen > 0 /\ Len(o.buffer) \in Nat
        BY <1>2, <1>3, <2>3, <2>5, OpFields, Constants
      <4>3. TakenBy(o, b, d, DataLen, t)
        BY <1>1, <2>1, <4>2, PartTaken
      <4>4. PICK f : f = [t EXCEPT !.finalized = TRUE]
        OBVIOUS
      <4>5. f \in Op /\ f.finalized /\ f.buffer = t.buffer
        BY <4>3, <4>4, SetFinalized DEF TakenBy, Alike
      <4>6. Len(f.buffer) = TagLen
        BY <1>2, <2>3, <2>5, <4>2, <4>3, <4>5 DEF TakenBy
      <4>7. BufferOK(f) /\ CounterOK(f)
        BY <1>7, <2>3, <4>2, <4>6 DEF BufferOK, CounterOK
      <4>8. Unfed(o, Fatal(t))
        BY <4>4, <4>5, <4>7 DEF Unfed, Fatal, Refused, Shape
      <4> QED
        BY <4>1, <4>8
    <3> QED
      BY <3>1, <3>2
  <2> QED
    BY <1>4, <2>2, <2>3, <2>4, <2>5
<1>8. CASE mode = "GCM"
  <2>1. PICK k : k = BeforeTag(b, n)
    OBVIOUS
  <2>2. DecryptUpdate(o, d, room) \in {TooSmall(b), Ok(Through(b, d, k), k)}
    BY <1>1, <1>2, <1>8, <2>1 DEF DecryptUpdate
  <2>3. Fed(o, d, Ok(Through(b, d, k), k))
    BY <1>1, <1>2, <1>8, <2>1, UpdateOfGcm
  <2> QED
    BY <1>4, <2>2, <2>3
<1>9. CASE mode = "CBC"
  <2>1. PICK k : k = Whole(b, n)
    OBVIOUS
  <2>2. DecryptUpdate(o, d, room) \in {TooSmall(b), Ok(Through(b, d, k), k)}
    BY <1>1, <1>2, <1>9, <2>1 DEF DecryptUpdate
  <2>3. Fed(o, d, Ok(Through(b, d, k), k))
    BY <1>1, <1>2, <1>9, <2>1, UpdateOfBlocks
  <2> QED
    BY <1>4, <2>2, <2>3
<1>10. CASE mode = "CBC_PAD"
  <2>1. PICK k, t : k = Whole(b, n) /\ t = Through(b, d, k)
    OBVIOUS
  <2>2. DecryptUpdate(o, d, room) \in {TooSmall(b), Fatal(b), Ok(t, Released(b, t))}
    BY <1>1, <1>2, <1>10, <2>1 DEF DecryptUpdate
  <2>3. Fed(o, d, Ok(t, Released(b, t)))
    BY <1>1, <1>2, <1>10, <2>1, UpdateOfPadded
  <2> QED
    BY <1>4, <2>2, <2>3
<1> QED
  BY <1>5, <1>6, <1>7, <1>8, <1>9, <1>10, Modal DEF AllModes

LEMMA UpdateFeeds ==
  ASSUME setup \in Setup, NEW o, Shape(o), Parts(o), ~o.finalized, NEW d \in Data, NEW room
  PROVE  Fed(o, d, UpdateOf(o, d, room)) \/ Unfed(o, UpdateOf(o, d, room))
<1>1. CASE enc
  BY <1>1, EncryptUpdateFeeds DEF UpdateOf
<1>2. CASE ~enc
  BY <1>2, DecryptUpdateFeeds DEF UpdateOf
<1> QED
  BY <1>1, <1>2

-----------------------------------------------------------------------------
(* Owed, for what f bytes are due.                                         *)
OwedFor(f) ==
  CASE mode \in {"CTR", "CBC"} -> f
    [] mode = "GCM" -> IF enc THEN f + TagLen ELSE f - TagLen
    [] mode = "CCM" -> IF enc THEN DataLen + TagLen ELSE IF f = 0 THEN 0 ELSE DataLen
    [] mode = "CBC_PAD" -> IF enc THEN (f \div Block) * Block + Block ELSE f - setup.pad
    [] mode = "PKCS7" -> IF enc THEN (f \div Semi) * Semi + 2 * Semi ELSE f - Semi - setup.pad

LEMMA OwedIsFor == Owed = OwedFor(fed)
  BY DEF Owed, OwedFor

Fits(f) == ~(mode = "CCM" /\ enc /\ f > DataLen)

(* What a last step that succeeds leaves, and one that does not.           *)
Over(o, r) ==
  /\ r.rv = "OK" /\ r.out \in Nat
  /\ Shape(r.op) /\ r.op.finalized
  /\ Stream(r.op) = Stream(o)
  /\ Fits(Len(Stream(o))) => Paid(o) + r.out = OwedFor(Len(Stream(o))) /\ r.op.buffer = <<>>
  /\ ~enc /\ mode \in Aead /\ Len(Stream(o)) > 0 => setup.genuine /\ Len(r.op.tag) = TagLen

NotOver(o, r) ==
  /\ r.rv \in {"TooSmall", "Starved", "Error"} /\ r.out = 0
  /\ Shape(r.op)
  /\ Alike(o, r.op) \/ r.op.finalized
  /\ ~enc /\ o.inUse => r.op.finalized

LEMMA FlushedSame ==
  ASSUME NEW o \in Op, o.tag = <<>>, NEW t, t = Flushed(o)
  PROVE  /\ t \in Op /\ t.tag = <<>> /\ t.buffer = <<>> /\ t.finalized = o.finalized
         /\ t.inUse = o.inUse /\ t.blockctr = o.blockctr /\ Stream(t) = Stream(o)
<1>1. <<>> \in Data /\ Len(<<>>) = 0
  BY DEF Data
<1>2. PICK n \in Nat : n = Len(o.buffer) /\ n \in 0..Len(o.buffer) + Len(<<>>)
  BY <1>1, OpFields
<1>3. t = Through(o, <<>>, n)
  BY <1>2 DEF Flushed
<1>4. Moved(o, <<>>, n, t)
  BY <1>1, <1>2, <1>3, ThroughMoves
<1>5. Stream(t) = Stream(o) \o <<>>
  BY <1>1, <1>2, <1>4, MovedContinues DEF Continues
<1>6. Stream(o) \o <<>> = Stream(o)
  BY StreamParts DEF Data
<1>7. Len(t.buffer) = 0 /\ t.buffer \in Data
  BY <1>1, <1>2, <1>4, OpFields DEF Moved
<1>8. t.buffer = <<>>
  BY <1>7, EmptySeq DEF Data
<1> QED
  BY <1>4, <1>5, <1>6, <1>8 DEF Moved

(* Ending an operation as it is.                                           *)
LEMMA EndedAsIs ==
  ASSUME NEW o, NEW b, Shape(o), Alike(o, b), b.blockctr = o.blockctr, NEW f, f = [b EXCEPT !.finalized = TRUE]
  PROVE  /\ Alike(o, f) /\ f.finalized /\ Shape(f) /\ f.buffer = o.buffer /\ f.tag = o.tag
         /\ Stream(f) = Stream(o)
<1>1. Alike(b, f) /\ f.blockctr = b.blockctr /\ f.finalized
  BY SetFinalized DEF Alike
<1>2. Alike(o, f)
  BY <1>1 DEF Alike
<1>3. Shape(f) /\ Stream(f) = Stream(o)
  BY <1>1, <1>2, ShapeAlike, AlikeSame
<1> QED
  BY <1>1, <1>2, <1>3 DEF Alike

LEMMA DoneOver ==
  ASSUME NEW o, NEW b, Shape(o), Alike(o, b), b.blockctr = o.blockctr, NEW n \in Nat,
         Fits(Len(Stream(o))) => Paid(o) + n = OwedFor(Len(Stream(o))) /\ o.buffer = <<>>,
         ~enc /\ mode \in Aead /\ Len(Stream(o)) > 0 => setup.genuine /\ Len(o.tag) = TagLen
  PROVE  Over(o, Done(b, n))
<1>1. PICK f : f = [b EXCEPT !.finalized = TRUE]
  OBVIOUS
<1>2. f.finalized /\ Shape(f) /\ f.buffer = o.buffer /\ f.tag = o.tag /\ Stream(f) = Stream(o)
  BY <1>1, EndedAsIs
<1> QED
  BY <1>1, <1>2 DEF Over, Done, Ok

LEMMA DoneFlushed ==
  ASSUME setup \in Setup, NEW o, NEW b, Shape(o), Alike(o, b), b.blockctr = o.blockctr, NEW n \in Nat,
         o.tag = <<>>, mode \in {"CBC_PAD", "PKCS7"},
         Paid(o) + n = OwedFor(Len(Stream(o)))
  PROVE  Over(o, Done(Flushed(b), n))
<1>1. PICK t, f : t = Flushed(b) /\ f = [t EXCEPT !.finalized = TRUE]
  OBVIOUS
<1>2. b \in Op /\ b.tag = <<>> /\ Stream(b) = Stream(o)
  BY AlikeSame DEF Alike
<1>3. t \in Op /\ t.tag = <<>> /\ t.buffer = <<>> /\ Stream(t) = Stream(o)
  BY <1>1, <1>2, FlushedSame
<1>4. BufferOK(t) /\ CounterOK(t)
  BY <1>3, BlockIs DEF BufferOK, CounterOK
<1>5. Alike(t, t) /\ Shape(t)
  BY <1>3, <1>4 DEF Alike, Shape
<1>6. f.finalized /\ Shape(f) /\ f.buffer = <<>> /\ Stream(f) = Stream(o)
  BY <1>1, <1>3, <1>5, EndedAsIs
<1> QED
  BY <1>1, <1>6 DEF Over, Done, Ok, Aead

LEMMA FatalNotOver ==
  ASSUME NEW o, NEW b, Shape(o), Alike(o, b), b.blockctr = o.blockctr
  PROVE  NotOver(o, Fatal(b))
<1>1. PICK f : f = [b EXCEPT !.finalized = TRUE]
  OBVIOUS
<1>2. f.finalized /\ Shape(f)
  BY <1>1, EndedAsIs
<1> QED
  BY <1>1, <1>2 DEF NotOver, Fatal, Refused

LEMMA LeftNotOver ==
  ASSUME NEW o, Shape(o), ~(~enc /\ o.inUse)
  PROVE  NotOver(o, TooSmall(o)) /\ NotOver(o, Refused(o))
<1>1. TooSmall(o).op = o /\ TooSmall(o).rv = "TooSmall" /\ TooSmall(o).out = 0
  BY DEF TooSmall
<1>2. Refused(o).op = o /\ Refused(o).rv = "Error" /\ Refused(o).out = 0
  BY DEF Refused
<1> QED
  BY <1>1, <1>2 DEF NotOver, Alike, Shape

(* What the parts add up to.                                               *)
LEMMA Adds ==
  ASSUME NEW o, Shape(o)
  PROVE  /\ o \in Op /\ Len(o.given) \in Nat /\ Len(o.tag) \in Nat /\ Len(o.buffer) \in Nat
         /\ Len(Stream(o)) = Len(o.given) + Len(o.tag) + Len(o.buffer) /\ Len(Stream(o)) \in Nat
         /\ o.given = <<>> <=> Len(o.given) = 0
         /\ o.buffer = <<>> <=> Len(o.buffer) = 0
         /\ o.tag = <<>> => Len(o.tag) = 0
<1>1. o \in Op
  BY DEF Shape
<1>2. o.given = <<>> <=> Len(o.given) = 0
  BY <1>1, OpFields, EmptySeq DEF Data
<1>3. o.buffer = <<>> <=> Len(o.buffer) = 0
  BY <1>1, OpFields, EmptySeq DEF Data
<1>4. Len(Stream(o)) = Len(o.given) + Len(o.tag) + Len(o.buffer)
  BY <1>1, StreamParts
<1>5. Len(o.given) \in Nat /\ Len(o.tag) \in Nat /\ Len(o.buffer) \in Nat
  BY <1>1, OpFields
<1>6. Len(Stream(o)) \in Nat
  BY <1>1, StreamParts DEF Data
<1>7. o.tag = <<>> => Len(o.tag) = 0
  OBVIOUS
<1> QED
  BY <1>1, <1>2, <1>3, <1>4, <1>5, <1>6, <1>7

(* An operation that ends as it is, mode by mode: what is due.             *)
LEMMA DueAsIs ==
  ASSUME setup \in Setup, NEW o, Shape(o), Parts(o), NEW f, f = Len(Stream(o))
  PROVE  /\ enc /\ mode = "GCM" => Paid(o) + TagLen = OwedFor(f) /\ o.buffer = <<>>
         /\ enc /\ mode = "CCM" /\ o.given # <<>> =>
              (Fits(f) => Paid(o) + TagLen = OwedFor(f) /\ o.buffer = <<>>)
         /\ mode = "CTR" \/ (mode = "CBC" /\ Len(o.buffer) = 0) =>
              Paid(o) + 0 = OwedFor(f) /\ o.buffer = <<>>
         /\ ~enc /\ mode = "CCM" /\ Len(o.buffer) = 0 =>
              /\ Paid(o) + 0 = OwedFor(f) /\ o.buffer = <<>>
              /\ f > 0 => setup.genuine /\ Len(o.tag) = TagLen
         /\ ~enc /\ mode = "CBC_PAD" /\ Len(o.buffer) = 0 /\ o.given # <<>> =>
              Paid(o) + (Block - setup.pad) = OwedFor(f) /\ o.buffer = <<>>
<1>1. PICK g \in Nat, t \in Nat, b \in Nat : g = Len(o.given) /\ t = Len(o.tag) /\ b = Len(o.buffer)
  BY Adds
<1>2. f = g + t + b /\ (o.given = <<>> <=> g = 0) /\ (o.buffer = <<>> <=> b = 0) /\ (o.tag = <<>> => t = 0)
  BY <1>1, Adds
<1>3. TagLen \in Nat /\ DataLen \in Nat /\ DataLen > 0 /\ TagLen > 0
  BY Constants
<1>4. ASSUME enc, mode = "GCM" PROVE Paid(o) + TagLen = OwedFor(f) /\ o.buffer = <<>>
  <2>1. b = 0 /\ t = 0 /\ Paid(o) = g
    BY <1>1, <1>2, <1>4, NoTag DEF Paid, Shape, BufferOK
  <2> QED
    BY <1>2, <1>4, <2>1 DEF OwedFor
<1>5. ASSUME enc, mode = "CCM", o.given # <<>>, Fits(f)
      PROVE  Paid(o) + TagLen = OwedFor(f) /\ o.buffer = <<>>
  <2>1. g = DataLen /\ t = 0 /\ Paid(o) = g
    BY <1>1, <1>2, <1>5, NoTag DEF Paid, Parts
  <2>2. b = 0
    BY <1>2, <1>3, <1>5, <2>1 DEF Fits
  <2> QED
    BY <1>2, <1>5, <2>1, <2>2 DEF OwedFor
<1>6. ASSUME mode = "CTR" \/ (mode = "CBC" /\ Len(o.buffer) = 0)
      PROVE  Paid(o) + 0 = OwedFor(f) /\ o.buffer = <<>>
  <2>1. b = 0 /\ t = 0 /\ Paid(o) = g
    BY <1>1, <1>2, <1>6, NoTag DEF Paid, Shape, BufferOK
  <2> QED
    BY <1>2, <1>6, <2>1 DEF OwedFor
<1>7. ASSUME ~enc, mode = "CCM", Len(o.buffer) = 0
      PROVE  /\ Paid(o) + 0 = OwedFor(f) /\ o.buffer = <<>>
             /\ f > 0 => setup.genuine /\ Len(o.tag) = TagLen
  <2>1. b = 0 /\ Paid(o) = g
    BY <1>1, <1>7 DEF Paid
  <2>2. CASE g = 0
    <3>1. f = 0
      BY <1>2, <1>7, <2>1, <2>2 DEF Parts
    <3> QED
      BY <1>2, <1>7, <2>1, <2>2, <3>1 DEF OwedFor
  <2>3. CASE g # 0
    <3>1. g = DataLen /\ setup.genuine /\ Len(o.tag) = TagLen
      BY <1>1, <1>2, <1>7, <2>3 DEF Parts
    <3>2. f # 0
      BY <1>1, <1>2, <1>3, <2>1, <3>1
    <3> QED
      BY <1>2, <1>3, <1>7, <2>1, <3>1, <3>2 DEF OwedFor
  <2> QED
    BY <2>2, <2>3
<1>8. ASSUME ~enc, mode = "CBC_PAD", Len(o.buffer) = 0, o.given # <<>>
      PROVE  Paid(o) + (Block - setup.pad) = OwedFor(f) /\ o.buffer = <<>>
  <2>1. b = 0 /\ t = 0 /\ Paid(o) = g - Block
    BY <1>1, <1>2, <1>8, NoTag DEF Paid, Unpadded, Shape, Parts
  <2>2. setup.pad \in Nat /\ Block \in Nat
    BY Modal, BlockIs
  <2>3. OwedFor(f) = f - setup.pad
    BY <1>8 DEF OwedFor
  <2> QED
    BY <1>1, <1>2, <2>1, <2>2, <2>3
<1> QED
  BY <1>4, <1>5, <1>6, <1>7, <1>8

(* The last blocks, and the padding that fills a block.                    *)
LEMMA DueFlushed ==
  ASSUME setup \in Setup, NEW o, Shape(o), Parts(o), NEW f, f = Len(Stream(o)), NEW n, n = Len(o.buffer)
  PROVE  /\ enc /\ mode = "CBC_PAD" => Paid(o) + Block = OwedFor(f) /\ o.tag = <<>>
         /\ enc /\ mode = "PKCS7" =>
              /\ Paid(o) + (n + Semi - (n % Semi) + Semi) = OwedFor(f) /\ o.tag = <<>>
              /\ n + Semi - (n % Semi) + Semi \in Nat
         /\ ~enc /\ mode = "PKCS7" /\ n >= 3 * Semi =>
              /\ Paid(o) + (n - Semi - setup.pad) = OwedFor(f) /\ o.tag = <<>>
              /\ n - Semi - setup.pad \in Nat
<1>1. PICK g \in Nat, t \in Nat, b \in Nat : g = Len(o.given) /\ t = Len(o.tag) /\ b = n
  BY Adds
<1>2. f = g + t + b /\ (o.tag = <<>> => t = 0) /\ (o.given = <<>> => g = 0)
  BY <1>1, Adds
<1>3. PICK s \in Nat : s = Semi /\ s > 0 /\ Block = 2 * s
  BY Constants
<1>4. ASSUME enc, mode = "CBC_PAD" PROVE Paid(o) + Block = OwedFor(f) /\ o.tag = <<>>
  <2>1. t = 0 /\ Paid(o) = g /\ o.tag = <<>> /\ b < Block /\ g % Block = 0
    BY <1>1, <1>2, <1>4, NoTag DEF Paid, Shape, BufferOK, Parts
  <2>2. f = g + b
    BY <1>1, <1>2, <2>1
  <2>3. ((g + b) \div Block) * Block = g
    BY <1>1, <2>1, LessThanBlock
  <2>4. g = (f \div Block) * Block
    BY <2>2, <2>3
  <2>5. OwedFor(f) = (f \div Block) * Block + Block
    BY <1>4 DEF OwedFor
  <2> QED
    BY <2>1, <2>4, <2>5
<1>5. ASSUME mode = "PKCS7" PROVE o.tag = <<>> /\ Paid(o) = 0 /\ f = b
  <2>1. o.tag = <<>> /\ o.given = <<>>
    BY <1>5, NoTag DEF Parts, Shape
  <2>2. Paid(o) = g
    BY <1>1, <1>5 DEF Paid
  <2> QED
    BY <1>1, <1>2, <2>1, <2>2
<1>6. ASSUME enc, mode = "PKCS7"
      PROVE  /\ Paid(o) + (n + Semi - (n % Semi) + Semi) = OwedFor(f) /\ o.tag = <<>>
             /\ n + Semi - (n % Semi) + Semi \in Nat
  <2>1. b + Semi - (b % Semi) + Semi = (b \div Semi) * Semi + 2 * Semi
    BY SemiBlocks
  <2>2. OwedFor(f) = (b \div Semi) * Semi + 2 * Semi
    BY <1>5, <1>6 DEF OwedFor
  <2>3. (b \div Semi) * Semi + 2 * Semi \in Nat
    BY SemiFloor
  <2>4. PICK x \in Nat : x = n + Semi - (n % Semi) + Semi
    BY <1>1, <2>1, <2>3
  <2>5. OwedFor(f) = x
    BY <1>1, <2>1, <2>2, <2>4
  <2> QED
    BY <1>5, <1>6, <2>4, <2>5
<1>7. ASSUME ~enc, mode = "PKCS7", n >= 3 * Semi
      PROVE  /\ Paid(o) + (n - Semi - setup.pad) = OwedFor(f) /\ o.tag = <<>>
             /\ n - Semi - setup.pad \in Nat
  <2>1. PICK p \in 1..Block : p = setup.pad
    BY Modal
  <2>2. n - Semi - setup.pad = b - s - p
    BY <1>1, <1>3, <2>1
  <2>3. b - s - p \in Nat
    BY <1>1, <1>3, <1>7, <2>1
  <2>4. OwedFor(f) = b - s - p
    BY <1>3, <1>5, <1>7, <2>1 DEF OwedFor
  <2> QED
    BY <1>5, <1>7, <2>2, <2>3, <2>4
<1> QED
  BY <1>4, <1>6, <1>7

LEMMA EncryptFinalEnds ==
  ASSUME setup \in Setup, enc, NEW o, Shape(o), Parts(o), ~o.finalized, NEW room
  PROVE  Over(o, EncryptFinal(o, room)) \/ NotOver(o, EncryptFinal(o, room))
<1> DEFINE f == Len(Stream(o))
           n == Len(o.buffer)
           needed == n + Semi - (n % Semi) + Semi
<1>1. Alike(o, o) /\ o \in Op
  BY DEF Alike, Shape
<1>2. NotOver(o, Fatal(o)) /\ NotOver(o, TooSmall(o)) /\ NotOver(o, Refused(o))
  BY <1>1, FatalNotOver, LeftNotOver
<1>3. TagLen \in Nat /\ Block \in Nat /\ 0 \in Nat
  BY Constants
<1>4. CASE ~o.inUse
  BY <1>2, <1>4 DEF EncryptFinal
<1>5. CASE o.inUse /\ mode \in Aead
  <2>1. EncryptFinal(o, room) \in {TooSmall(o), Refused(o), Done(o, TagLen)}
    <3>1. CASE mode = "GCM"
      BY <1>5, <3>1 DEF EncryptFinal, Aead
    <3>2. CASE mode = "CCM"
      BY <1>5, <3>2 DEF EncryptFinal, Aead
    <3> QED
      BY <1>5, <3>1, <3>2 DEF Aead
  <2>2. ASSUME EncryptFinal(o, room) = Done(o, TagLen) PROVE Over(o, EncryptFinal(o, room))
    <3>1. mode = "CCM" => o.given # <<>>
      BY <1>5, <2>2 DEF EncryptFinal, Done, Ok, TooSmall, Refused
    <3>2. Fits(f) => Paid(o) + TagLen = OwedFor(f) /\ o.buffer = <<>>
      BY <1>5, <3>1, DueAsIs DEF Aead
    <3>3. Over(o, Done(o, TagLen))
      BY <1>1, <1>3, <3>2, DoneOver
    <3> QED
      BY <2>2, <3>3
  <2> QED
    BY <1>2, <2>1, <2>2
<1>6. CASE o.inUse /\ mode \in {"CTR", "CBC"}
  <2>1. EncryptFinal(o, room) = Fatal(o) \/ (EncryptFinal(o, room) = Done(o, 0) /\ (mode = "CBC" => ~(n > 0)))
    <3>1. CASE mode = "CTR"
      BY <1>6, <3>1 DEF EncryptFinal, Aead
    <3>2. CASE mode = "CBC"
      BY <1>6, <3>2 DEF EncryptFinal, Aead
    <3> QED
      BY <1>6, <3>1, <3>2
  <2>2. n \in Nat
    BY Adds
  <2>3. ASSUME mode = "CBC" => n = 0 PROVE Over(o, Done(o, 0))
    <3>1. Paid(o) + 0 = OwedFor(f) /\ o.buffer = <<>>
      BY <1>6, <2>3, DueAsIs
    <3> QED
      BY <1>1, <1>3, <1>6, <3>1, DoneOver DEF Aead
  <2> QED
    BY <1>2, <2>1, <2>2, <2>3
<1>7. CASE o.inUse /\ mode = "CBC_PAD"
  <2>1. EncryptFinal(o, room) \in {TooSmall(o), Done(Flushed(o), Block)}
    BY <1>7 DEF EncryptFinal, Aead
  <2>2. Paid(o) + Block = OwedFor(f) /\ o.tag = <<>>
    BY <1>7, DueFlushed
  <2>3. Over(o, Done(Flushed(o), Block))
    BY <1>1, <1>3, <1>7, <2>2, DoneFlushed
  <2> QED
    BY <1>2, <2>1, <2>3
<1>8. CASE o.inUse /\ mode = "PKCS7"
  <2>1. EncryptFinal(o, room) \in {Fatal(o), TooSmall(o), Done(Flushed(o), needed)}
    BY <1>8 DEF EncryptFinal, Aead
  <2>2. Paid(o) + needed = OwedFor(f) /\ o.tag = <<>> /\ needed \in Nat
    BY <1>8, DueFlushed
  <2> HIDE DEF needed
  <2>3. Over(o, Done(Flushed(o), needed))
    BY <1>1, <1>8, <2>2, DoneFlushed
  <2> QED
    BY <1>2, <2>1, <2>3
<1> QED
  BY <1>4, <1>5, <1>6, <1>7, <1>8, Modal, <1>1, OpFields DEF AllModes, Aead

LEMMA VerifiedEnds ==
  ASSUME setup \in Setup, ~enc, mode = "GCM", NEW o, Shape(o), Parts(o),
         Len(o.buffer) = TagLen, NEW b, b = [o EXCEPT !.finalized = TRUE]
  PROVE  Over(o, Verified(b, 0)) \/ NotOver(o, Verified(b, 0))
<1>1. Alike(o, b) /\ b.finalized /\ b \in Op /\ b.blockctr = o.blockctr /\ o \in Op
  BY SetFinalized DEF Alike, Shape
<1>2. CASE ~setup.genuine
  BY <1>1, <1>2, FatalNotOver DEF Verified
<1>3. CASE setup.genuine
  <2>1. PICK g : g = Tagged(b)
    OBVIOUS
  <2>2. b.tag = <<>> /\ o.tag = <<>>
    BY <1>1, NoTag DEF Alike
  <2>3. g \in Op /\ g.tag = o.buffer /\ g.buffer = <<>> /\ g.finalized /\ Stream(g) = Stream(o)
    <3>1. Stream(b) = Stream(o) /\ b.buffer = o.buffer
      BY <1>1, AlikeSame DEF Alike
    <3> QED
      BY <1>1, <2>1, <2>2, <3>1, TaggedSame
  <2>4. TagLen \in Nat /\ TagLen > 0
    BY Constants
  <2>5. BufferOK(g) /\ CounterOK(g)
    BY <2>3, <2>4 DEF BufferOK, CounterOK
  <2>6. Paid(o) + 0 = OwedFor(Len(Stream(o)))
    <3>1. PICK x \in Nat : x = Len(o.given)
      BY Adds
    <3>2. Len(Stream(o)) = x + 0 + TagLen
      BY <2>2, <3>1, Adds
    <3>3. Paid(o) = x
      BY <3>1 DEF Paid
    <3>4. OwedFor(Len(Stream(o))) = Len(Stream(o)) - TagLen
      BY DEF OwedFor
    <3> QED
      BY <2>4, <3>2, <3>3, <3>4
  <2>7. Verified(b, 0) = Ok(g, 0)
    BY <1>3, <2>1 DEF Verified
  <2> QED
    BY <1>3, <2>3, <2>5, <2>6, <2>7 DEF Over, Ok, Shape
<1> QED
  BY <1>2, <1>3

LEMMA DecryptFinalEnds ==
  ASSUME setup \in Setup, ~enc, NEW o, Shape(o), Parts(o), ~o.finalized, NEW room
  PROVE  Over(o, DecryptFinal(o, room)) \/ NotOver(o, DecryptFinal(o, room))
<1> DEFINE f == Len(Stream(o))
           n == Len(o.buffer)
           plain == n - Semi - setup.pad
<1>1. PICK b : b = [o EXCEPT !.finalized = TRUE]
  OBVIOUS
<1>2. /\ Alike(o, b) /\ b.finalized /\ b.inUse = o.inUse /\ b \in Op /\ b.blockctr = o.blockctr /\ o \in Op
      /\ b.buffer = o.buffer /\ b.given = o.given /\ o.inUse \in BOOLEAN
  BY <1>1, SetFinalized, OpFields DEF Alike, Shape
<1>3. NotOver(o, Fatal(b))
  BY <1>2, FatalNotOver
<1>4. 0 \in Nat /\ n \in Nat
  BY Adds
<1>5. CASE ~o.inUse
  BY <1>1, <1>2, <1>5, LeftNotOver DEF DecryptFinal
<1>6. CASE o.inUse /\ mode = "GCM"
  <2>1. DecryptFinal(o, room) = IF n # TagLen THEN Fatal(b) ELSE Verified(b, 0)
    BY <1>1, <1>2, <1>6 DEF DecryptFinal
  <2> QED
    BY <1>1, <1>3, <1>6, <2>1, VerifiedEnds
<1>7. CASE o.inUse /\ mode = "CTR"
  <2>1. DecryptFinal(o, room) \in {Fatal(b), Done(b, 0)}
    BY <1>1, <1>2, <1>7 DEF DecryptFinal
  <2>2. Paid(o) + 0 = OwedFor(f) /\ o.buffer = <<>>
    BY <1>7, DueAsIs
  <2>3. Over(o, Done(b, 0))
    BY <1>2, <1>4, <1>7, <2>2, DoneOver DEF Aead
  <2> QED
    BY <1>3, <2>1, <2>3
<1>8. CASE o.inUse /\ mode \in {"CBC", "CCM"}
  <2>1. DecryptFinal(o, room) = IF n # 0 THEN Fatal(b) ELSE Done(b, 0)
    <3>1. CASE mode = "CBC"
      BY <1>1, <1>2, <1>8, <3>1 DEF DecryptFinal
    <3>2. CASE mode = "CCM"
      BY <1>1, <1>2, <1>8, <3>2 DEF DecryptFinal
    <3> QED
      BY <1>8, <3>1, <3>2
  <2>2. ASSUME n = 0 PROVE Over(o, Done(b, 0))
    <3>1. Paid(o) + 0 = OwedFor(f) /\ o.buffer = <<>>
      BY <1>8, <2>2, DueAsIs
    <3>2. mode = "CCM" /\ f > 0 => setup.genuine /\ Len(o.tag) = TagLen
      BY <2>2, DueAsIs
    <3> QED
      BY <1>2, <1>4, <1>8, <3>1, <3>2, DoneOver DEF Aead
  <2> QED
    BY <1>3, <2>1, <2>2
<1>9. CASE o.inUse /\ mode = "CBC_PAD"
  <2>1. \/ DecryptFinal(o, room) \in {Fatal(b), Starved(b)}
        \/ DecryptFinal(o, room) = Done(b, Block - setup.pad) /\ n = 0 /\ o.given # <<>>
    BY <1>1, <1>2, <1>9 DEF DecryptFinal
  <2>2. ASSUME n = 0, o.given # <<>> PROVE Over(o, Done(b, Block - setup.pad))
    <3>1. Paid(o) + (Block - setup.pad) = OwedFor(f) /\ o.buffer = <<>>
      BY <1>9, <2>2, DueAsIs
    <3>2. Block - setup.pad \in Nat
      BY Modal, BlockIs
    <3> QED
      BY <1>2, <1>9, <3>1, <3>2, DoneOver DEF Aead
  <2>3. NotOver(o, Starved(b))
    BY <1>3 DEF Starved, Fatal, Refused, NotOver
  <2> QED
    BY <1>3, <2>1, <2>2, <2>3
<1>10. CASE o.inUse /\ mode = "PKCS7"
  <2>1. PICK e : e = [b EXCEPT !.buffer = <<>>]
    OBVIOUS
  <2>2. e \in Op /\ e.finalized /\ e.blockctr = o.blockctr /\ e.given = o.given /\ e.buffer = <<>>
    <3>1. <<>> \in Seq(1..MaxFed)
      OBVIOUS
    <3> QED
      BY <1>2, <2>1, <3>1 DEF Op
  <2>3. BufferOK(e) /\ CounterOK(e)
    BY <1>10 DEF BufferOK, CounterOK
  <2>4. NotOver(o, Fatal(e)) /\ NotOver(o, TooSmall(e))
    <3>1. PICK x : x = [e EXCEPT !.finalized = TRUE]
      OBVIOUS
    <3>2. x \in Op /\ x.finalized
      BY <2>2, <3>1 DEF Op
    <3>3. BufferOK(x) /\ CounterOK(x)
      BY <1>10 DEF BufferOK, CounterOK
    <3> QED
      BY <2>2, <2>3, <3>1, <3>2, <3>3 DEF NotOver, Fatal, Refused, TooSmall, Shape
  <2>5. \/ DecryptFinal(o, room) \in {Fatal(e), TooSmall(e)}
        \/ DecryptFinal(o, room) = Done(Flushed(b), plain) /\ ~(n < 3 * Semi)
    BY <1>1, <1>2, <1>10, <2>1 DEF DecryptFinal
  <2>6. ASSUME ~(n < 3 * Semi) PROVE Over(o, Done(Flushed(b), plain))
    <3>1. n >= 3 * Semi
      BY <1>4, <2>6, Constants
    <3>2. Paid(o) + plain = OwedFor(f) /\ o.tag = <<>> /\ plain \in Nat
      BY <1>10, <3>1, DueFlushed
    <3> HIDE DEF plain
    <3> QED
      BY <1>2, <1>10, <3>2, DoneFlushed
  <2> QED
    BY <2>4, <2>5, <2>6
<1> QED
  BY <1>2, <1>5, <1>6, <1>7, <1>8, <1>9, <1>10, Modal DEF AllModes

LEMMA FinalEnds ==
  ASSUME setup \in Setup, NEW o, Shape(o), Parts(o), ~o.finalized, NEW room
  PROVE  Over(o, FinalOf(o, room)) \/ NotOver(o, FinalOf(o, room))
<1>1. CASE enc
  BY <1>1, EncryptFinalEnds DEF FinalOf
<1>2. CASE ~enc
  BY <1>2, DecryptFinalEnds DEF FinalOf
<1> QED
  BY <1>1, <1>2

-----------------------------------------------------------------------------
(* A call that ends an operation with the part d, and a call that fails.   *)
Ended(o, d, r) ==
  /\ r.rv = "OK" /\ r.out \in Nat
  /\ Shape(r.op) /\ r.op.finalized
  /\ Continues(o, d, r.op)
  /\ Fits(Len(Stream(r.op))) => Paid(o) + r.out = OwedFor(Len(Stream(r.op))) /\ r.op.buffer = <<>>
  /\ ~enc /\ mode \in Aead /\ Len(Stream(r.op)) > 0 => setup.genuine /\ Len(r.op.tag) = TagLen

SameData(o, b) == b.given = o.given /\ b.buffer = o.buffer

Missed(o, r) ==
  /\ r.rv \in {"TooSmall", "Starved", "Error"} /\ r.out = 0
  /\ Shape(r.op)
  /\ ~r.op.finalized =>
       /\ Parts(r.op)
       /\ SameData(o, r.op) => Stream(r.op) = Stream(o) /\ Paid(r.op) = Paid(o)
       /\ ~enc => SameData(o, r.op)

LEMMA UnfedMissed ==
  ASSUME NEW o, Parts(o), NEW r, Unfed(o, r)
  PROVE  Missed(o, r)
<1>1. Alike(o, r.op) => Parts(r.op) /\ Stream(r.op) = Stream(o) /\ Paid(r.op) = Paid(o) /\ SameData(o, r.op)
  BY AlikeSame DEF Alike, SameData
<1> QED
  BY <1>1 DEF Unfed, Missed

LEMMA NotOverMissed ==
  ASSUME NEW o, Parts(o), NEW r, NotOver(o, r)
  PROVE  Missed(o, r)
<1>1. Alike(o, r.op) => Parts(r.op) /\ Stream(r.op) = Stream(o) /\ Paid(r.op) = Paid(o) /\ SameData(o, r.op)
  BY AlikeSame DEF Alike, SameData
<1> QED
  BY <1>1 DEF NotOver, Missed

LEMMA OverEnded ==
  ASSUME NEW o, Shape(o), NEW r, Over(o, r)
  PROVE  Ended(o, <<>>, r)
<1>1. Stream(o) \o <<>> = Stream(o)
  BY StreamParts DEF Data, Shape
<1> QED
  BY <1>1 DEF Over, Ended, Continues

LEMMA FinalDoes ==
  ASSUME setup \in Setup, NEW o, Shape(o), Parts(o), ~o.finalized, NEW room
  PROVE  Ended(o, <<>>, FinalOf(o, room)) \/ Missed(o, FinalOf(o, room))
  BY FinalEnds, OverEnded, NotOverMissed

LEMMA UpdateDoes ==
  ASSUME setup \in Setup, NEW o, Shape(o), Parts(o), ~o.finalized, NEW d \in Data, NEW room
  PROVE  Fed(o, d, UpdateOf(o, d, room)) \/ Missed(o, UpdateOf(o, d, room))
  BY UpdateFeeds, UnfedMissed

(* A part taken and a last step that fails.                                *)
LEMMA TakenThenMissed ==
  ASSUME setup \in Setup, NEW o, Shape(o), Parts(o), NEW d \in Data, NEW u, Fed(o, d, u),
         NEW r, NotOver(u.op, r)
  PROVE  Missed(o, r)
<1> DEFINE c == u.op
<1>1. Shape(c) /\ Parts(c) /\ c.inUse /\ Continues(o, d, c)
  BY DEF Fed
<1>2. r.rv \in {"TooSmall", "Starved", "Error"} /\ r.out = 0 /\ Shape(r.op)
  BY DEF NotOver
<1>3. ASSUME ~r.op.finalized
      PROVE  /\ Parts(r.op)
             /\ SameData(o, r.op) => Stream(r.op) = Stream(o) /\ Paid(r.op) = Paid(o)
             /\ enc
  <2>1. Alike(c, r.op) /\ enc
    BY <1>1, <1>3, Modal DEF NotOver
  <2>2. Parts(r.op)
    BY <1>1, <2>1, AlikeSame
  <2>3. enc \/ mode # "CCM"
    BY <2>1
  <2>4. o.tag = <<>> /\ r.op.tag = <<>>
    BY <2>2, <2>3 DEF Parts
  <2>5. SameData(o, r.op) => Stream(r.op) = Stream(o) /\ Paid(r.op) = Paid(o)
    BY <2>4 DEF SameData, Stream, Paid, Unpadded
  <2> QED
    BY <2>1, <2>2, <2>5
<1> QED
  BY <1>2, <1>3 DEF Missed

LEMMA TakenThenOver ==
  ASSUME setup \in Setup, NEW o, Shape(o), Parts(o), NEW d \in Data, NEW u, Fed(o, d, u),
         NEW f, Over(u.op, f), NEW r, r.op = f.op, r.rv = "OK", r.out = u.out + f.out
  PROVE  Ended(o, d, r)
<1> DEFINE c == u.op
<1>1. Stream(r.op) = Stream(c) /\ Stream(c) = Stream(o) \o d /\ Shape(r.op) /\ r.op.finalized
  BY DEF Fed, Over, Continues
<1>2. u.out \in Nat /\ f.out \in Nat /\ Paid(c) = Paid(o) + u.out
  BY DEF Fed, Over
<1>3. Paid(o) \in Int
  <2>1. Len(o.given) \in Nat
    BY Adds
  <2> QED
    BY <2>1, BlockIs DEF Paid, Unpadded
<1>4. Paid(o) + r.out = Paid(c) + f.out /\ r.out \in Nat
  BY <1>2, <1>3
<1>5. Fits(Len(Stream(r.op))) => Paid(c) + f.out = OwedFor(Len(Stream(r.op))) /\ r.op.buffer = <<>>
  BY <1>1 DEF Over
<1>6. ~enc /\ mode \in Aead /\ Len(Stream(r.op)) > 0 => setup.genuine /\ Len(r.op.tag) = TagLen
  BY <1>1 DEF Over
<1> HIDE DEF c
<1> QED
  BY <1>1, <1>4, <1>5, <1>6 DEF Ended, Continues

LEMMA OneStepDoes ==
  ASSUME setup \in Setup, NEW o, Shape(o), Parts(o), ~o.finalized, NEW d \in Data, NEW room
  PROVE  Ended(o, d, OneStepOf(o, d, room)) \/ Missed(o, OneStepOf(o, d, room))
<1>1. PICK u : u = UpdateOf(o, d, room)
  OBVIOUS
<1>2. PICK f : f = FinalOf(u.op, room - u.out)
  OBVIOUS
<1>3. OneStepOf(o, d, room) = IF u.rv # "OK" THEN u
                              ELSE IF f.rv = "OK" THEN [f EXCEPT !.out = u.out + f.out] ELSE f
  BY <1>1, <1>2 DEF OneStepOf
<1>4. CASE Unfed(o, u)
  <2>1. OneStepOf(o, d, room) = u
    BY <1>3, <1>4 DEF Unfed
  <2> QED
    BY <1>4, <2>1, UnfedMissed
<1>5. CASE Fed(o, d, u)
  <2>1. Over(u.op, f) \/ NotOver(u.op, f)
    BY <1>2, <1>5, FinalEnds DEF Fed
  <2>2. CASE NotOver(u.op, f)
    <3>1. OneStepOf(o, d, room) = f
      BY <1>3, <1>5, <2>2 DEF Fed, NotOver
    <3> QED
      BY <1>5, <2>2, <3>1, TakenThenMissed
  <2>3. CASE Over(u.op, f)
    <3>1. PICK r : r = [f EXCEPT !.out = u.out + f.out]
      OBVIOUS
    <3>2. OneStepOf(o, d, room) = r
      BY <1>3, <1>5, <2>3, <3>1 DEF Fed, Over
    <3>3. r.op = f.op /\ r.rv = "OK" /\ r.out = u.out + f.out
      BY <2>3, <3>1 DEF Over
    <3> QED
      BY <1>5, <2>3, <3>2, <3>3, TakenThenOver
  <2> QED
    BY <2>1, <2>2, <2>3
<1> QED
  BY <1>1, <1>4, <1>5, UpdateFeeds

-----------------------------------------------------------------------------
(* A length query, for what is in the buffer and n more bytes.             *)
LEMMA WholeAll ==
  ASSUME NEW o \in Op, NEW n \in Nat, NEW a \in Nat, a = Len(o.buffer) + n
  PROVE  Whole(o, n) \in 0..a /\ (a % Block = 0 => Whole(o, n) = a)
<1>1. PICK w \in Nat : w = Whole(o, n)
  BY WholeBounds DEF IsWhole
<1>2. w \in 0..a /\ w = a - (a % Block)
  BY <1>1, WholeBounds DEF IsWhole
<1>3. a % Block = 0 => w = a
  BY <1>2
<1> QED
  BY <1>1, <1>2, <1>3

(* An update with the room that any query of the call asks for is not      *)
(* refused for want of room, but for a part of a CCM ciphertext.           *)
LEMMA EncryptUpdateRoom ==
  ASSUME setup \in Setup, enc, NEW o, Shape(o), NEW d \in Data, NEW n \in Nat, n = Len(d),
         NEW room \in Nat, NEW fin \in BOOLEAN, Asked(o, n, fin) \in 0..room
  PROVE  EncryptUpdate(o, d, room).rv \notin {"TooSmall", "Starved"}
<1>1. PICK b : b = [o EXCEPT !.inUse = TRUE]
  OBVIOUS
<1>2. b.buffer = o.buffer /\ b \in Op /\ o \in Op
  BY <1>1, SetInUse DEF Alike, Shape
<1>3. PICK a \in Nat : a = Len(o.buffer) + n /\ a = Len(b.buffer) + n /\ a >= n
  BY <1>2, OpFields
<1>4. Whole(b, n) = Whole(o, n) /\ Whole(o, n) \in 0..a /\ (a % Block = 0 => Whole(o, n) = a)
  BY <1>2, <1>3, WholeAll DEF Whole
<1>5. TagLen \in Nat /\ DataLen \in Nat /\ Block \in Nat
  BY Constants
<1>6. EncryptionLen(o, n, fin) \in 0..room
  BY DEF Asked
<1>7. CASE mode = "PKCS7"
  BY <1>7 DEF EncryptUpdate, Ok
<1>8. CASE mode = "CTR"
  <2>1. EncryptionLen(o, n, fin) = n
    BY <1>8 DEF EncryptionLen
  <2>2. ~(room < n)
    BY <1>6, <2>1
  <2> QED
    BY <1>8, <2>2 DEF EncryptUpdate, Ok, Fatal, Refused
<1>9. CASE mode = "CCM"
  <2>1. CASE a > DataLen
    <3>1. EncryptUpdate(o, d, room) = Fatal(b)
      BY <1>1, <1>3, <1>9, <2>1 DEF EncryptUpdate
    <3> QED
      BY <3>1 DEF Fatal, Refused
  <2>2. CASE ~(a > DataLen)
    <3>1. EncryptionLen(o, n, fin) = IF fin THEN a + TagLen ELSE DataLen + TagLen
      BY <1>3, <1>9, <2>2 DEF EncryptionLen
    <3>2. CcmRoom(b, n) = IF a < DataLen THEN 0 ELSE DataLen + TagLen
      BY <1>3 DEF CcmRoom
    <3>3. ~(room < CcmRoom(b, n))
      BY <1>3, <1>5, <1>6, <2>2, <3>1, <3>2
    <3> QED
      BY <1>1, <1>9, <3>3 DEF EncryptUpdate, Ok, Fatal, Refused
  <2> QED
    BY <2>1, <2>2
<1>10. CASE mode = "GCM"
  <2>1. EncryptionLen(o, n, fin) = n + TagLen
    BY <1>10 DEF EncryptionLen
  <2>2. ~(room < GcmRoom(n))
    BY <1>5, <1>6, <2>1 DEF GcmRoom
  <2> QED
    BY <1>10, <2>2 DEF EncryptUpdate, Ok
<1>11. CASE mode \in {"CBC", "CBC_PAD"}
  <2>1. EncryptionLen(o, n, fin) \in 0..room => Whole(o, n) <= room
    <3>1. CASE mode = "CBC"
      BY <1>3, <1>4, <3>1 DEF EncryptionLen
    <3>2. CASE mode = "CBC_PAD"
      BY <1>3, <1>4, <1>5, <3>2 DEF EncryptionLen
    <3> QED
      BY <1>11, <3>1, <3>2
  <2>2. ~(room < Whole(b, n))
    BY <1>4, <1>6, <2>1
  <2> QED
    BY <1>1, <1>11, <2>2 DEF EncryptUpdate, Ok
<1> QED
  BY <1>7, <1>8, <1>9, <1>10, <1>11, Modal DEF AllModes

LEMMA DecryptUpdateRoom ==
  ASSUME setup \in Setup, ~enc, NEW o, Shape(o), NEW d \in Data, NEW n \in Nat, n = Len(d),
         NEW room \in Nat, NEW fin \in BOOLEAN, Asked(o, n, fin) \in 0..room, mode = "CCM" => fin
  PROVE  DecryptUpdate(o, d, room).rv \notin {"TooSmall", "Starved"}
<1>1. PICK b : b = [o EXCEPT !.inUse = TRUE]
  OBVIOUS
<1>2. b.buffer = o.buffer /\ b \in Op /\ o \in Op
  BY <1>1, SetInUse DEF Alike, Shape
<1>3. PICK a \in Nat : a = Len(o.buffer) + n /\ a = Len(b.buffer) + n /\ a >= n
  BY <1>2, OpFields
<1>4. Whole(b, n) = Whole(o, n) /\ Whole(o, n) \in 0..a /\ (a % Block = 0 => Whole(o, n) = a)
  BY <1>2, <1>3, WholeAll DEF Whole
<1>5. TagLen \in Nat /\ DataLen \in Nat /\ Block \in Nat
  BY Constants
<1>6. DecryptionLen(o, n, fin) \in 0..room
  BY DEF Asked
<1>7. CASE mode = "PKCS7"
  BY <1>7 DEF DecryptUpdate, Ok
<1>8. CASE mode = "CTR"
  <2>1. DecryptionLen(o, n, fin) = n
    BY <1>8 DEF DecryptionLen
  <2>2. ~(room < n)
    BY <1>6, <2>1
  <2> QED
    BY <1>8, <2>2 DEF DecryptUpdate, Ok, Fatal, Refused
<1>9. CASE mode = "CCM"
  <2>1. CASE a > DataLen + TagLen
    <3>1. DecryptUpdate(o, d, room) = Fatal(o)
      BY <1>1, <1>2, <1>3, <1>9, <2>1 DEF DecryptUpdate
    <3> QED
      BY <3>1 DEF Fatal, Refused
  <2>2. CASE ~(a > DataLen + TagLen)
    <3>1. DecryptionLen(o, n, fin) = DataLen + TagLen
      BY <1>3, <1>9, <2>2 DEF DecryptionLen
    <3>2. ~(room < DataLen)
      BY <1>5, <1>6, <3>1
    <3> QED
      BY <1>1, <1>9, <3>2 DEF DecryptUpdate, Ok, Fatal, Refused, Verified
  <2> QED
    BY <2>1, <2>2
<1>10. CASE mode = "GCM"
  <2>1. DecryptionLen(o, n, fin) = IF fin THEN IF a < TagLen THEN -1 ELSE a - TagLen
                                   ELSE IF a < TagLen THEN 0 ELSE a
    BY <1>3, <1>10 DEF DecryptionLen
  <2>2. BeforeTag(b, n) = IF a > TagLen THEN a - TagLen ELSE 0
    BY <1>2, <1>3, <1>5, OpFields DEF BeforeTag
  <2>3. ~(room < BeforeTag(b, n))
    BY <1>3, <1>5, <1>6, <2>1, <2>2
  <2> QED
    BY <1>1, <1>10, <2>3 DEF DecryptUpdate, Ok
<1>11. CASE mode \in {"CBC", "CBC_PAD"}
  <2>1. DecryptionLen(o, n, fin) \in 0..room => Whole(o, n) <= room
    <3>1. CASE mode = "CBC"
      BY <1>3, <1>4, <3>1 DEF DecryptionLen
    <3>2. CASE mode = "CBC_PAD"
      BY <1>3, <1>4, <1>5, <3>2 DEF DecryptionLen
    <3> QED
      BY <1>11, <3>1, <3>2
  <2>2. ~(room < Whole(b, n))
    BY <1>4, <1>6, <2>1
  <2>3. CASE mode = "CBC"
    BY <1>1, <2>2, <2>3 DEF DecryptUpdate, Ok
  <2>4. CASE mode = "CBC_PAD"
    BY <1>1, <2>2, <2>4 DEF DecryptUpdate, Ok, Fatal, Refused
  <2> QED
    BY <1>11, <2>3, <2>4
<1> QED
  BY <1>7, <1>8, <1>9, <1>10, <1>11, Modal DEF AllModes

(* A last step with room for the tag, the padding or the plain text.       *)
LEMMA EncryptFinalRoom ==
  ASSUME setup \in Setup, enc, NEW c, NEW n \in Nat, n = Len(c.buffer), NEW rm \in Int,
         mode \in Aead => rm >= TagLen, mode = "CBC_PAD" => rm >= Block,
         mode = "PKCS7" => n < Semi \/ rm >= (n \div Semi) * Semi + 2 * Semi
  PROVE  EncryptFinal(c, rm).rv \notin {"TooSmall", "Starved"}
<1>1. TagLen \in Nat /\ Block \in Nat /\ Semi \in Nat
  BY Constants
<1>2. CASE ~c.inUse
  BY <1>2 DEF EncryptFinal, Refused
<1>3. CASE c.inUse /\ mode \in Aead
  <2>1. ~(rm < TagLen)
    BY <1>1, <1>3
  <2>2. CASE mode = "GCM"
    BY <1>3, <2>1, <2>2 DEF EncryptFinal, Refused, Done, Ok, Aead
  <2>3. CASE mode = "CCM"
    BY <1>3, <2>1, <2>3 DEF EncryptFinal, Refused, Done, Ok, Aead
  <2> QED
    BY <1>3, <2>2, <2>3 DEF Aead
<1>4. CASE c.inUse /\ mode = "CTR"
  BY <1>4 DEF EncryptFinal, Fatal, Refused, Done, Ok, Aead
<1>5. CASE c.inUse /\ mode = "CBC"
  BY <1>5 DEF EncryptFinal, Fatal, Refused, Done, Ok, Aead
<1>6. CASE c.inUse /\ mode = "CBC_PAD"
  <2>1. ~(rm < Block)
    BY <1>1, <1>6
  <2> QED
    BY <1>6, <2>1 DEF EncryptFinal, Done, Ok, Aead
<1>7. CASE c.inUse /\ mode = "PKCS7"
  <2>1. PICK x : x = n + Semi - (n % Semi) + Semi
    OBVIOUS
  <2>2. EncryptFinal(c, rm) = IF n < Semi THEN Fatal(c)
                              ELSE IF rm < x THEN TooSmall(c) ELSE Done(Flushed(c), x)
    BY <1>7, <2>1 DEF EncryptFinal, Aead
  <2>3. x = (n \div Semi) * Semi + 2 * Semi
    BY <2>1, SemiBlocks
  <2>4. x \in Int
    BY <2>3, SemiFloor
  <2>5. n < Semi \/ ~(rm < x)
    BY <1>7, <2>3, <2>4
  <2> QED
    BY <2>2, <2>5 DEF Fatal, Refused, Done, Ok
<1> QED
  BY <1>2, <1>3, <1>4, <1>5, <1>6, <1>7, Modal DEF AllModes, Aead

LEMMA DecryptFinalRoom ==
  ASSUME setup \in Setup, ~enc, NEW c \in Op, NEW n \in Nat, n = Len(c.buffer), NEW rm \in Int,
         mode = "PKCS7" => (n < 3 * Semi \/ n % Semi # 0 \/ rm >= n - Semi),
         mode = "CBC_PAD" => (c.given = <<>> \/ rm >= Block)
  PROVE  DecryptFinal(c, rm).rv \notin {"TooSmall", "Starved"}
<1>1. PICK b : b = [c EXCEPT !.finalized = TRUE] /\ b.buffer = c.buffer /\ b.inUse = c.inUse
  BY SetFinalized DEF Alike
<1>2. CASE ~c.inUse
  BY <1>1, <1>2 DEF DecryptFinal, Refused
<1>3. CASE c.inUse /\ mode = "GCM"
  BY <1>1, <1>3 DEF DecryptFinal, Fatal, Refused, Verified, Ok
<1>4. CASE c.inUse /\ mode = "CTR"
  BY <1>1, <1>4 DEF DecryptFinal, Fatal, Refused, Done, Ok
<1>5. CASE c.inUse /\ mode = "CBC"
  BY <1>1, <1>5 DEF DecryptFinal, Fatal, Refused, Done, Ok
<1>6. CASE c.inUse /\ mode = "CCM"
  BY <1>1, <1>6 DEF DecryptFinal, Fatal, Refused, Done, Ok
<1>7. CASE c.inUse /\ mode = "CBC_PAD"
  <2>1. b.given = c.given /\ b.inUse
    BY <1>1, <1>7, SetFinalized DEF Alike
  <2>2. c.given = <<>> \/ ~(rm < Block)
    BY <1>7, BlockIs
  <2> QED
    BY <1>1, <1>7, <2>1, <2>2 DEF DecryptFinal, Fatal, Refused, Done, Ok
<1>8. CASE c.inUse /\ mode = "PKCS7"
  <2>1. PICK x, e : x = n - Semi - setup.pad /\ e = [b EXCEPT !.buffer = <<>>]
    OBVIOUS
  <2>2. DecryptFinal(c, rm) = IF n < 3 * Semi \/ n % Semi # 0 \/ ~setup.genuine THEN Fatal(e)
                              ELSE IF rm < x THEN TooSmall(e) ELSE Done(Flushed(b), x)
    BY <1>1, <1>8, <2>1 DEF DecryptFinal
  <2>3. PICK p \in Nat : p = setup.pad
    BY Modal
  <2>4. n < 3 * Semi \/ n % Semi # 0 \/ ~(rm < x)
    <3>1. x \in Int /\ x <= n - Semi
      BY <2>1, <2>3, SemiIs
    <3>2. rm >= n - Semi => ~(rm < x)
      BY <3>1, SemiIs
    <3> QED
      BY <1>8, <3>2
  <2> QED
    BY <2>2, <2>4 DEF Fatal, Refused, Done, Ok
<1> QED
  BY <1>2, <1>3, <1>4, <1>5, <1>6, <1>7, <1>8, Modal DEF AllModes

LEMMA FinalRoom ==
  ASSUME setup \in Setup, NEW o, Shape(o), NEW room \in Nat, Asked(o, 0, TRUE) \in 0..room,
         enc \/ mode # "CBC_PAD"
  PROVE  FinalOf(o, room).rv \notin {"TooSmall", "Starved"}
<1>1. PICK n \in Nat : n = Len(o.buffer)
  BY Adds
<1>2. n = Len(o.buffer) + 0
  BY <1>1
<1>3. TagLen \in Nat /\ Block \in Nat /\ Semi \in Nat /\ DataLen \in Nat
  BY Constants
<1>4. CASE enc
  <2>1. PICK e \in 0..room : e = EncryptionLen(o, 0, TRUE)
    BY <1>4 DEF Asked
  <2>2. ASSUME mode = "GCM" PROVE room >= TagLen
    BY <1>2, <1>3, <2>1, <2>2 DEF EncryptionLen
  <2>3. ASSUME mode = "CCM" PROVE room >= TagLen
    BY <1>1, <1>3, <1>2, <2>1, <2>3 DEF EncryptionLen
  <2>4. ASSUME mode = "CBC_PAD" PROVE room >= Block
    <3>1. PICK w \in Nat : w = Whole(o, 0)
      BY WholeBounds DEF IsWhole, Shape
    <3>2. e = w + Block
      BY <2>1, <2>4, <3>1 DEF EncryptionLen
    <3> QED
      BY <1>3, <3>1, <3>2
  <2>5. ASSUME mode = "PKCS7" PROVE n < Semi \/ room >= (n \div Semi) * Semi + 2 * Semi
    <3>1. e = IF n < Semi THEN -1 ELSE (n \div Semi) * Semi + 2 * Semi
      BY <1>1, <1>2, <2>1, <2>5 DEF EncryptionLen
    <3>2. PICK x \in Nat : x = (n \div Semi) * Semi + 2 * Semi
      BY SemiFloor
    <3>3. e = IF n < Semi THEN -1 ELSE x
      BY <3>1, <3>2, Zenon
    <3>4. n < Semi \/ room >= x
      BY <1>3, <3>3
    <3> QED
      BY <3>2, <3>4
  <2>6. EncryptFinal(o, room).rv \notin {"TooSmall", "Starved"}
    <3>1. room \in Int /\ (mode \in Aead => room >= TagLen)
      BY <2>2, <2>3 DEF Aead
    <3> QED
      BY <1>1, <1>4, <2>4, <2>5, <3>1, EncryptFinalRoom
  <2> QED
    BY <1>4, <2>6 DEF FinalOf
<1>5. CASE ~enc
  <2>1. PICK e \in 0..room : e = DecryptionLen(o, 0, TRUE)
    BY <1>5 DEF Asked
  <2>2. ASSUME mode = "PKCS7" PROVE n < 3 * Semi \/ n % Semi # 0 \/ room >= n - Semi
    <3>1. e = IF n < 3 * Semi \/ n % Semi # 0 THEN -1 ELSE n - Semi
      BY <1>1, <1>2, <2>1, <2>2 DEF DecryptionLen
    <3>2. e <= room /\ e >= 0
      OBVIOUS
    <3>3. CASE n < 3 * Semi \/ n % Semi # 0
      BY <3>3
    <3>4. CASE ~(n < 3 * Semi \/ n % Semi # 0)
      BY <3>1, <3>2, <3>4
    <3> QED
      BY <3>3, <3>4
  <2>3. DecryptFinal(o, room).rv \notin {"TooSmall", "Starved"}
    BY <1>1, <1>5, <2>2, DecryptFinalRoom DEF Shape
  <2> QED
    BY <1>5, <2>3 DEF FinalOf
<1> QED
  BY <1>4, <1>5

(* C_Encrypt: after the update, the room left is enough.                   *)
LEMMA KeptLength ==
  ASSUME NEW b \in Op, NEW d \in Data
  PROVE  Kept(b, d) \in Op /\ Len(Kept(b, d).buffer) = Len(b.buffer) + Len(d)
<1>1. Len(b.buffer) \in Nat /\ Len(d) \in Nat
  BY OpFields DEF Data
<1>2. Moved(b, d, 0, Through(b, d, 0))
  BY <1>1, ThroughMoves
<1> QED
  BY <1>1, <1>2 DEF Moved, Kept

LEMMA EncryptRoomLeft ==
  ASSUME setup \in Setup, enc, NEW o, Shape(o), NEW d \in Data, NEW n \in Nat, n = Len(d),
         NEW room \in Nat, Asked(o, n, TRUE) \in 0..room,
         NEW u, u = EncryptUpdate(o, d, room), u.rv = "OK", u.op \in Op, u.out \in Nat
  PROVE  EncryptFinal(u.op, room - u.out).rv \notin {"TooSmall", "Starved"}
<1>1. PICK b : b = [o EXCEPT !.inUse = TRUE]
  OBVIOUS
<1>2. b.buffer = o.buffer /\ b \in Op /\ o \in Op
  BY <1>1, SetInUse DEF Alike, Shape
<1>3. PICK a \in Nat : a = Len(o.buffer) + n /\ a = Len(b.buffer) + n /\ a >= n
  BY <1>2, OpFields
<1>4. TagLen \in Nat /\ DataLen \in Nat /\ Block \in Nat /\ Semi \in Nat
  BY Constants
<1>5. PICK e \in 0..room : e = EncryptionLen(o, n, TRUE)
  BY DEF Asked
<1>6. PICK rm \in Int : rm = room - u.out
  OBVIOUS
<1>7. PICK c \in Op, m \in Nat : c = u.op /\ m = Len(c.buffer)
  BY OpFields
<1>8. ASSUME mode = "GCM" PROVE rm >= TagLen
  <2>1. e = n + TagLen
    BY <1>5, <1>8 DEF EncryptionLen
  <2>2. u = TooSmall(b) \/ u = Ok(Through(b, d, n), n)
    BY <1>1, <1>8 DEF EncryptUpdate
  <2>3. u.out = n
    BY <2>2 DEF TooSmall, Ok
  <2> QED
    BY <1>4, <1>6, <2>1, <2>3
<1>9. ASSUME mode = "CCM" PROVE rm >= TagLen
  <2>1. CASE a > DataLen
    <3>1. u = Fatal(b)
      BY <1>1, <1>3, <1>9, <2>1 DEF EncryptUpdate
    <3> QED
      BY <3>1 DEF Fatal, Refused
  <2>2. CASE ~(a > DataLen)
    <3>1. e = a + TagLen
      BY <1>3, <1>5, <1>9, <2>2 DEF EncryptionLen
    <3>2. \/ u \in {Fatal(b), TooSmall(b)}
          \/ u = Ok(Kept(b, d), 0)
          \/ u = Ok(Through(b, d, DataLen), DataLen) /\ ~(a < DataLen)
      BY <1>1, <1>3, <1>9, <2>2 DEF EncryptUpdate
    <3>3. u.out = 0 \/ (u.out = DataLen /\ ~(a < DataLen))
      BY <3>2 DEF Fatal, Refused, TooSmall, Ok
    <3>4. u.out <= a
      BY <1>3, <1>4, <3>3
    <3> QED
      BY <1>3, <1>4, <1>6, <3>1, <3>4
  <2> QED
    BY <2>1, <2>2
<1>10. ASSUME mode = "CBC_PAD" PROVE rm >= Block
  <2>1. PICK w \in Nat : w = Whole(o, n) /\ w = Whole(b, n)
    BY <1>2, WholeBounds DEF IsWhole, Whole
  <2>2. e = w + Block
    BY <1>5, <1>10, <2>1 DEF EncryptionLen
  <2>3. u = TooSmall(b) \/ u = Ok(Through(b, d, w), w)
    BY <1>1, <1>10, <2>1 DEF EncryptUpdate
  <2>4. u.out = w
    BY <2>3 DEF TooSmall, Ok
  <2> QED
    BY <1>4, <1>6, <2>2, <2>4
<1>11. ASSUME mode = "PKCS7" PROVE m < Semi \/ rm >= (m \div Semi) * Semi + 2 * Semi
  <2>1. u = Ok(Kept(b, d), 0)
    BY <1>1, <1>11 DEF EncryptUpdate
  <2>2. u.out = 0 /\ u.op = Kept(b, d)
    BY <2>1 DEF Ok
  <2>3. m = a
    <3>1. Len(Kept(b, d).buffer) = Len(b.buffer) + Len(d)
      BY <1>2, KeptLength
    <3> QED
      BY <1>3, <1>7, <2>2, <3>1
  <2>4. e = IF a < Semi THEN -1 ELSE (a \div Semi) * Semi + 2 * Semi
    BY <1>3, <1>5, <1>11 DEF EncryptionLen
  <2>5. PICK x \in Nat : x = (a \div Semi) * Semi + 2 * Semi
    BY SemiFloor
  <2>6. e = IF a < Semi THEN -1 ELSE x
    BY <2>4, <2>5, Zenon
  <2>7. rm = room
    BY <1>6, <2>2
  <2>8. a < Semi \/ rm >= x
    BY <1>4, <2>6, <2>7
  <2> QED
    BY <2>3, <2>5, <2>8
<1>12. mode \in Aead => rm >= TagLen
  BY <1>8, <1>9 DEF Aead
<1>13. EncryptFinal(c, rm).rv \notin {"TooSmall", "Starved"}
  BY <1>7, <1>10, <1>11, <1>12, EncryptFinalRoom
<1> QED
  BY <1>6, <1>7, <1>13

LEMMA DecryptRoomLeft ==
  ASSUME setup \in Setup, ~enc, NEW o, Shape(o), NEW d \in Data, NEW n \in Nat, n = Len(d),
         NEW room \in Nat, Asked(o, n, TRUE) \in 0..room,
         NEW u, u = DecryptUpdate(o, d, room), u.op \in Op, u.out \in Nat, u.rv = "OK",
         mode = "CBC_PAD" => o.given = <<>> /\ o.buffer = <<>>
  PROVE  DecryptFinal(u.op, room - u.out).rv \notin {"TooSmall", "Starved"}
<1>1. PICK b : b = [o EXCEPT !.inUse = TRUE]
  OBVIOUS
<1>2. b.buffer = o.buffer /\ b \in Op /\ o \in Op
  BY <1>1, SetInUse DEF Alike, Shape
<1>3. PICK a \in Nat : a = Len(o.buffer) + n
  BY <1>2, OpFields
<1>4. Semi \in Nat
  BY Constants
<1>5. PICK e \in 0..room : e = DecryptionLen(o, n, TRUE)
  BY DEF Asked
<1>6. PICK rm \in Int : rm = room - u.out
  OBVIOUS
<1>7. PICK c \in Op, m \in Nat : c = u.op /\ m = Len(c.buffer)
  BY OpFields
<1>8. ASSUME mode = "PKCS7" PROVE m < 3 * Semi \/ m % Semi # 0 \/ rm >= m - Semi
  <2>1. u = Ok(Kept(b, d), 0)
    BY <1>1, <1>8 DEF DecryptUpdate
  <2>2. u.out = 0 /\ u.op = Kept(b, d)
    BY <2>1 DEF Ok
  <2>3. m = a
    <3>1. Len(Kept(b, d).buffer) = Len(b.buffer) + Len(d)
      BY <1>2, KeptLength
    <3> QED
      BY <1>2, <1>3, <1>7, <2>2, <3>1
  <2>4. e = IF a < 3 * Semi \/ a % Semi # 0 THEN -1 ELSE a - Semi
    BY <1>3, <1>5, <1>8 DEF DecryptionLen
  <2>5. rm = room
    BY <1>6, <2>2
  <2>6. CASE ~(a < 3 * Semi \/ a % Semi # 0)
    <3>1. e = a - Semi
      BY <2>4, <2>6, Zenon
    <3> QED
      BY <1>4, <2>3, <2>5, <3>1
  <2>7. CASE a < 3 * Semi \/ a % Semi # 0
    BY <2>3, <2>7
  <2> QED
    BY <2>6, <2>7
<1>9. ASSUME mode = "CBC_PAD" PROVE c.given = <<>> \/ rm >= Block
  <2>1. PICK w \in Nat : w = Whole(b, n) /\ w = Whole(o, n)
    BY <1>2, WholeBounds DEF IsWhole, Whole
  <2>2. PICK t : t = Through(b, d, w)
    OBVIOUS
  <2>3. u = Ok(t, Released(b, t))
    BY <1>1, <1>9, <2>1, <2>2 DEF DecryptUpdate, TooSmall, Fatal, Refused
  <2>4. c = t /\ u.out = Released(b, t)
    BY <1>7, <2>3 DEF Ok
  <2>5. b.given = <<>> /\ b.buffer = <<>> /\ Len(b.given) = 0 /\ Len(b.buffer) = 0
    BY <1>1, <1>2, <1>9, SetInUse DEF Alike
  <2>6. w <= e
    <3>1. e = IF a % Block = 0 THEN a ELSE -1
      BY <1>3, <1>5, <1>9 DEF DecryptionLen
    <3>2. w \in 0..a
      BY <1>2, <1>3, <2>1, WholeAll
    <3> QED
      BY <3>1, <3>2
  <2>7. Len(t.given) = w
    <3>1. Moved(b, d, w, t)
      <4>1. w \in 0..Len(b.buffer) + Len(d)
        BY <1>2, <1>3, <2>1, WholeAll
      <4> QED
        BY <1>2, <2>2, <4>1, ThroughMoves
    <3> QED
      BY <2>5, <3>1 DEF Moved
  <2>8. CASE c.given = <<>>
    BY <2>8
  <2>9. CASE c.given # <<>>
    <3>1. u.out = w - Block
      BY <2>4, <2>5, <2>7, <2>9, BlockIs DEF Released, Unpadded
    <3> QED
      BY <1>6, <2>1, <2>6, <3>1, BlockIs
  <2> QED
    BY <2>8, <2>9
<1>10. DecryptFinal(c, rm).rv \notin {"TooSmall", "Starved"}
  BY <1>7, <1>8, <1>9, DecryptFinalRoom
<1> QED
  BY <1>6, <1>7, <1>10

LEMMA UpdateRoom ==
  ASSUME setup \in Setup, NEW o, Shape(o), NEW d \in Data, NEW n \in Nat, n = Len(d),
         NEW room \in Nat, NEW fin \in BOOLEAN, Asked(o, n, fin) \in 0..room,
         ~(mode = "CCM" /\ ~enc /\ ~fin)
  PROVE  UpdateOf(o, d, room).rv \notin {"TooSmall", "Starved"}
<1>1. CASE enc
  BY <1>1, EncryptUpdateRoom DEF UpdateOf
<1>2. CASE ~enc
  BY <1>2, DecryptUpdateRoom DEF UpdateOf
<1> QED
  BY <1>1, <1>2

LEMMA OneStepRoom ==
  ASSUME setup \in Setup, NEW o, Shape(o), Parts(o), ~o.finalized, NEW d \in Data, NEW n \in Nat,
         n = Len(d), NEW room \in Nat, Asked(o, n, TRUE) \in 0..room,
         ~enc /\ mode = "CBC_PAD" => o.given = <<>> /\ o.buffer = <<>>
  PROVE  OneStepOf(o, d, room).rv \notin {"TooSmall", "Starved"}
<1>1. PICK u : u = UpdateOf(o, d, room)
  OBVIOUS
<1>2. PICK f : f = FinalOf(u.op, room - u.out)
  OBVIOUS
<1>3. OneStepOf(o, d, room) = IF u.rv # "OK" THEN u
                              ELSE IF f.rv = "OK" THEN [f EXCEPT !.out = u.out + f.out] ELSE f
  BY <1>1, <1>2 DEF OneStepOf
<1>4. u.rv \notin {"TooSmall", "Starved"}
  BY <1>1, UpdateRoom
<1>5. CASE u.rv # "OK"
  BY <1>3, <1>4, <1>5
<1>6. CASE u.rv = "OK"
  <2>1. Fed(o, d, u)
    BY <1>1, <1>6, UpdateFeeds DEF Unfed
  <2>2. u.op \in Op /\ u.out \in Nat /\ Shape(u.op) /\ Parts(u.op) /\ ~u.op.finalized
    BY <2>1 DEF Fed, Shape
  <2>3. f.rv \notin {"TooSmall", "Starved"}
    <3>1. CASE enc
      <4>1. EncryptFinal(u.op, room - u.out).rv \notin {"TooSmall", "Starved"}
        BY <1>1, <1>6, <2>2, <3>1, EncryptRoomLeft DEF UpdateOf
      <4> QED
        BY <1>2, <3>1, <4>1 DEF FinalOf
    <3>2. CASE ~enc
      <4>1. DecryptFinal(u.op, room - u.out).rv \notin {"TooSmall", "Starved"}
        BY <1>1, <1>6, <2>2, <3>2, DecryptRoomLeft DEF UpdateOf
      <4> QED
        BY <1>2, <3>2, <4>1 DEF FinalOf
    <3> QED
      BY <3>1, <3>2
  <2>4. CASE f.rv = "OK"
    <3>1. Over(u.op, f)
      BY <1>2, <2>2, <2>4, FinalEnds DEF NotOver
    <3>2. [f EXCEPT !.out = u.out + f.out].rv = "OK"
      BY <2>4, <3>1 DEF Over
    <3> QED
      BY <1>3, <1>6, <2>4, <3>2
  <2>5. CASE f.rv # "OK"
    BY <1>3, <1>6, <2>3, <2>5
  <2> QED
    BY <2>4, <2>5
<1> QED
  BY <1>5, <1>6

-----------------------------------------------------------------------------
(* A call that finds too little room, where it can be made again.          *)
LEMMA UpdateAgain ==
  ASSUME setup \in Setup, NEW o, NEW d, NEW room, mode \in {"CBC", "GCM", "CBC_PAD", "CCM"},
         NEW r, r = UpdateOf(o, d, room), r.rv = "TooSmall"
  PROVE  r.op = [o EXCEPT !.inUse = TRUE]
<1>1. PICK b : b = [o EXCEPT !.inUse = TRUE]
  OBVIOUS
<1>2. TooSmall(b).op = b
  BY DEF TooSmall
<1>3. \A x : Fatal(x).rv = "Error" /\ \A n : Ok(x, n).rv = "OK"
  BY DEF Fatal, Refused, Ok
<1>4. CASE enc
  <2>1. r = EncryptUpdate(o, d, room)
    BY <1>4 DEF UpdateOf
  <2>2. CASE mode = "CCM"
    <3>1. \/ r \in {Fatal(b), TooSmall(b)}
          \/ r = Ok(Kept(b, d), 0)
          \/ r = Ok(Through(b, d, DataLen), DataLen)
      BY <1>1, <2>1, <2>2 DEF EncryptUpdate
    <3> QED
      BY <1>1, <1>2, <1>3, <3>1
  <2>3. CASE mode = "GCM"
    <3>1. r = TooSmall(b) \/ r = Ok(Through(b, d, Len(d)), Len(d))
      BY <1>1, <2>1, <2>3 DEF EncryptUpdate
    <3> QED
      BY <1>1, <1>2, <1>3, <3>1
  <2>4. CASE mode \in {"CBC", "CBC_PAD"}
    <3>1. r = TooSmall(b) \/ r = Ok(Through(b, d, Whole(b, Len(d))), Whole(b, Len(d)))
      BY <1>1, <2>1, <2>4 DEF EncryptUpdate
    <3> QED
      BY <1>1, <1>2, <1>3, <3>1
  <2> QED
    BY <2>2, <2>3, <2>4
<1>5. CASE ~enc
  <2>1. r = DecryptUpdate(o, d, room)
    BY <1>5 DEF UpdateOf
  <2>2. CASE mode = "CCM"
    <3>1. \/ r \in {Fatal(o), Fatal(b), TooSmall(b)}
          \/ r = Ok(Kept(b, d), 0)
          \/ r = Verified(Through(b, d, DataLen), DataLen)
      BY <1>1, <2>1, <2>2 DEF DecryptUpdate
    <3>2. \A x, n : Verified(x, n).rv # "TooSmall"
      BY DEF Verified, Fatal, Refused, Ok
    <3> QED
      BY <1>1, <1>2, <1>3, <3>1, <3>2
  <2>3. CASE mode = "GCM"
    <3>1. r = TooSmall(b) \/ r = Ok(Through(b, d, BeforeTag(b, Len(d))), BeforeTag(b, Len(d)))
      BY <1>1, <2>1, <2>3 DEF DecryptUpdate
    <3> QED
      BY <1>1, <1>2, <1>3, <3>1
  <2>4. CASE mode = "CBC"
    <3>1. r = TooSmall(b) \/ r = Ok(Through(b, d, Whole(b, Len(d))), Whole(b, Len(d)))
      BY <1>1, <2>1, <2>4 DEF DecryptUpdate
    <3> QED
      BY <1>1, <1>2, <1>3, <3>1
  <2>5. CASE mode = "CBC_PAD"
    <3>1. PICK t : t = Through(b, d, Whole(b, Len(d)))
      OBVIOUS
    <3>2. r \in {TooSmall(b), Fatal(b), Ok(t, Released(b, t))}
      BY <1>1, <2>1, <2>5, <3>1 DEF DecryptUpdate
    <3> QED
      BY <1>1, <1>2, <1>3, <3>2
  <2> QED
    BY <2>2, <2>3, <2>4, <2>5
<1> QED
  BY <1>4, <1>5

LacksRoom(o, room, r) ==
  /\ r.op = [o EXCEPT !.inUse = TRUE]
  /\ enc /\ mode # "CBC" /\ room < (IF mode = "CBC_PAD" THEN Block ELSE TagLen)

LEMMA FinalAgain ==
  ASSUME setup \in Setup, NEW o \in Op, NEW room, mode \in {"CBC", "GCM", "CBC_PAD", "CCM"},
         NEW r, r = FinalOf(o, room), r.rv = "TooSmall"
  PROVE  LacksRoom(o, room, r)
<1>1. CASE ~enc
  <2>1. r = DecryptFinal(o, room)
    BY <1>1 DEF FinalOf
  <2>2. PICK n \in Nat : n = Len(o.buffer)
    BY OpFields
  <2>3. r.rv # "TooSmall"
    <3>1. CASE ~o.inUse
      BY <2>1, <3>1 DEF DecryptFinal, Refused
    <3>2. CASE o.inUse /\ mode = "GCM"
      BY <2>1, <3>2 DEF DecryptFinal, Fatal, Refused, Verified, Ok
    <3>3. CASE o.inUse /\ mode = "CBC"
      BY <2>1, <3>3 DEF DecryptFinal, Fatal, Refused, Done, Ok
    <3>4. CASE o.inUse /\ mode = "CCM"
      BY <2>1, <3>4 DEF DecryptFinal, Fatal, Refused, Done, Ok
    <3>5. CASE o.inUse /\ mode = "CBC_PAD"
      BY <2>1, <3>5 DEF DecryptFinal, Fatal, Starved, Refused, Done, Ok
    <3> QED
      BY <3>1, <3>2, <3>3, <3>4, <3>5, OpFields
  <2> QED
    BY <2>3
<1>2. CASE enc
  <2>1. r = EncryptFinal(o, room)
    BY <1>2 DEF FinalOf
  <2>2. o.inUse
    BY <2>1 DEF EncryptFinal, Refused
  <2>3. o = [o EXCEPT !.inUse = TRUE]
    BY <2>2 DEF Op
  <2>4. mode # "CBC"
    BY <2>1, <2>2 DEF EncryptFinal, Fatal, Refused, Done, Ok, Aead
  <2>5. CASE mode = "CBC_PAD"
    <3>1. r = IF room < Block THEN TooSmall(o) ELSE Done(Flushed(o), Block)
      BY <2>1, <2>2, <2>5 DEF EncryptFinal, Aead
    <3>2. r = TooSmall(o) /\ room < Block
      BY <3>1 DEF Done, Ok
    <3> QED
      BY <1>2, <2>3, <2>4, <2>5, <3>2 DEF TooSmall, LacksRoom
  <2>6. CASE mode = "GCM"
    <3>1. r = IF room < TagLen THEN TooSmall(o) ELSE Done(o, TagLen)
      BY <2>1, <2>2, <2>6 DEF EncryptFinal, Aead
    <3>2. r = TooSmall(o) /\ room < TagLen
      BY <3>1 DEF Done, Ok
    <3> QED
      BY <1>2, <2>3, <2>4, <2>6, <3>2 DEF TooSmall, LacksRoom
  <2>7. CASE mode = "CCM"
    <3>1. r = IF room < TagLen THEN TooSmall(o)
              ELSE IF o.given = <<>> THEN Refused(o) ELSE Done(o, TagLen)
      BY <2>1, <2>2, <2>7 DEF EncryptFinal, Aead
    <3>2. r = TooSmall(o) /\ room < TagLen
      BY <3>1 DEF Done, Ok, Refused
    <3> QED
      BY <1>2, <2>3, <2>4, <2>7, <3>2 DEF TooSmall, LacksRoom
  <2> QED
    BY <2>4, <2>5, <2>6, <2>7
<1> QED
  BY <1>1, <1>2

LEMMA OneStepAgain ==
  ASSUME setup \in Setup, NEW o, Shape(o), Parts(o), ~o.finalized, NEW d \in Data, NEW room \in Nat,
         mode \in {"CBC", "GCM"}, NEW r, r = OneStepOf(o, d, room), r.rv = "TooSmall"
  PROVE  r.op = [o EXCEPT !.inUse = TRUE]
<1>1. PICK u : u = UpdateOf(o, d, room)
  OBVIOUS
<1>2. PICK f : f = FinalOf(u.op, room - u.out)
  OBVIOUS
<1>3. r = IF u.rv # "OK" THEN u ELSE IF f.rv = "OK" THEN [f EXCEPT !.out = u.out + f.out] ELSE f
  BY <1>1, <1>2 DEF OneStepOf
<1>4. CASE u.rv # "OK"
  BY <1>1, <1>3, <1>4, UpdateAgain
<1>5. ASSUME u.rv = "OK" PROVE FALSE
  <2>1. Fed(o, d, u)
    BY <1>1, <1>5, UpdateFeeds DEF Unfed
  <2>2. u.op \in Op /\ u.out \in Nat /\ Shape(u.op) /\ Parts(u.op) /\ ~u.op.finalized
    BY <2>1 DEF Fed, Shape
  <2>3. CASE f.rv = "OK"
    <3>1. Over(u.op, f)
      BY <1>2, <2>2, <2>3, FinalEnds DEF NotOver
    <3>2. [f EXCEPT !.out = u.out + f.out].rv = "OK"
      BY <2>3, <3>1 DEF Over
    <3> QED
      BY <1>3, <1>5, <2>3, <3>2
  <2>4. CASE f.rv # "OK"
    <3>1. f.rv = "TooSmall"
      BY <1>3, <1>5, <2>4
    <3>2. PICK rm \in Int : rm = room - u.out
      BY <2>2
    <3>3. enc /\ mode = "GCM" /\ rm < TagLen
      <4>1. f = FinalOf(u.op, rm) /\ u.op \in Op
        BY <1>2, <2>2, <3>2
      <4>2. enc /\ mode # "CBC" /\ rm < (IF mode = "CBC_PAD" THEN Block ELSE TagLen)
        <5>1. LacksRoom(u.op, rm, f)
          BY <3>1, <4>1, FinalAgain
        <5> QED
          BY <5>1 DEF LacksRoom
      <4> QED
        BY <4>2
    <3>4. PICK n \in Nat : n = Len(d)
      BY DEF Data
    <3>5. PICK b : b = [o EXCEPT !.inUse = TRUE]
      OBVIOUS
    <3>6. u = IF room < n + TagLen THEN TooSmall(b) ELSE Ok(Through(b, d, n), n)
      BY <1>1, <3>3, <3>4, <3>5 DEF UpdateOf, EncryptUpdate, GcmRoom
    <3>7. u.out = n /\ ~(room < n + TagLen)
      BY <1>5, <3>6 DEF TooSmall, Ok
    <3> QED
      BY <3>2, <3>3, <3>7, Constants
  <2> QED
    BY <2>3, <2>4
<1> QED
  BY <1>4, <1>5

-----------------------------------------------------------------------------
(* The next state of an operation whose setup stays: o is the operation.   *)
LEMMA Primes ==
  ASSUME setup' = setup, NEW o, o = op'
  PROVE  /\ mode' = mode /\ enc' = enc
         /\ Shape(op)' <=> Shape(o)
         /\ Parts(op)' <=> Parts(o)
         /\ Stream(op)' = Stream(o) /\ Paid(op)' = Paid(o)
         /\ Owed' = OwedFor(fed')
<1>1. mode' = mode /\ enc' = enc /\ maxblocks' = maxblocks /\ limited' = limited
  BY DEF mode, enc, maxblocks, limited, MaxBlocks, Values, And, Bit, Unlimited
<1>2. BufferOK(op)' <=> BufferOK(o)
  BY <1>1 DEF BufferOK
<1>3. CounterOK(op)' <=> CounterOK(o)
  BY <1>1 DEF CounterOK, Blocks
<1>4. Shape(op)' <=> Shape(o)
  BY <1>2, <1>3 DEF Shape, Op
<1>5. Parts(op)' <=> Parts(o)
  BY <1>1 DEF Parts
<1>6. Stream(op)' = Stream(o) /\ Paid(op)' = Paid(o)
  BY <1>1 DEF Stream, Paid, Unpadded
<1>7. Owed' = OwedFor(fed')
  BY <1>1 DEF Owed, OwedFor, Semi
<1> QED
  BY <1>1, <1>4, <1>5, <1>6, <1>7

(* What a call does, whichever it is: d is the part that is fed.           *)
Does(o, d, call, r) ==
  \/ call = "update" /\ Fed(o, d, r)
  \/ call \in {"final", "one"} /\ Ended(o, d, r)
  \/ Missed(o, r)

(* Underasked, before the call.                                            *)
Excepted(call) ==
  ~enc /\ \/ mode = "CCM" /\ call = "update"
          \/ mode = "CBC_PAD" /\ (call = "final" \/ fed > 0)

LEMMA CallKeeps ==
  ASSUME IInv, ~op.finalized, NEW n \in Nat, fed + n <= MaxFed, NEW room \in Nat,
         NEW call \in {"update", "final", "one"}, NEW d, d = Positions(fed + 1, n),
         NEW r, Does(op, d, call, r), Returns(r, call, n, room),
         Asked(op, n, call # "update") \in 0..room /\ ~Excepted(call)
           => r.rv \notin {"TooSmall", "Starved"}
  PROVE  IInv'
<1>1. /\ setup \in Setup /\ Shape(op) /\ Parts(op) /\ fed \in Nat /\ out \in Nat
      /\ ~taken => Stream(op) = Positions(1, fed) /\ out = Paid(op)
      /\ ~enc => ~taken
  BY DEF IInv, LiveOK
<1>2. PICK o : o = op' /\ o = r.op
  BY DEF Returns
<1>3. /\ setup' = setup /\ out' = out + r.out /\ fed' = (IF r.rv = "OK" THEN fed + n ELSE fed)
      /\ taken' = (taken \/ (r.rv # "OK" /\ ~SameData(op, o)))
      /\ last'.call = call /\ last'.rv = r.rv
      /\ last'.enough = (Asked(op, n, call # "update") \in 0..room)
  <2>1. taken' = (taken \/ (r.rv # "OK" /\ <<o.given, o.buffer>> # <<op.given, op.buffer>>))
    BY <1>2 DEF Returns
  <2>2. <<o.given, o.buffer>> # <<op.given, op.buffer>> <=> ~SameData(op, o)
    BY DEF SameData
  <2> QED
    BY <2>1, <2>2 DEF Returns
<1>4. Shape(o) /\ r.out \in Nat /\ r.rv \in {"OK", "TooSmall", "Starved", "Error"}
  BY <1>2 DEF Does, Fed, Ended, Missed
<1>5. /\ setup' \in Setup /\ Shape(op)' /\ fed' \in 0..MaxFed /\ out' \in Nat /\ taken' \in BOOLEAN
  <2>1. setup' \in Setup'
    BY <1>1, <1>3 DEF Setup
  <2>2. fed' \in 0..MaxFed
    BY <1>1, <1>3 DEF IInv
  <2>3. out' \in Nat
    BY <1>1, <1>3, <1>4
  <2>4. taken \in BOOLEAN
    BY DEF IInv
  <2>5. taken' \in BOOLEAN
    BY <1>3, <2>4
  <2> QED
    BY <1>2, <1>3, <1>4, <2>1, <2>2, <2>3, <2>5, Primes DEF Setup
<1>6. last' \in [call : {"none", "update", "final", "one", "ask"},
                 rv : {"OK", "TooSmall", "Starved", "Error"}, enough : BOOLEAN]
  <2>1. last' = [call |-> call, rv |-> r.rv, enough |-> Asked(op, n, call # "update") \in 0..room]
    BY DEF Returns
  <2> QED
    BY <1>4, <2>1
<1>7. ASSUME ~taken, r.rv = "OK", Continues(op, d, o)
      PROVE  Stream(o) = Positions(1, fed') /\ Len(Stream(o)) = fed'
  <2>1. Stream(o) = Positions(1, fed + n)
    BY <1>1, <1>7, PositionsConcat DEF Continues
  <2>2. fed + n \in Nat /\ fed' = fed + n
    BY <1>1, <1>3, <1>7
  <2>3. Len(Positions(1, fed + n)) = fed + n
    BY <2>2 DEF Positions
  <2> QED
    BY <2>1, <2>2, <2>3
<1>8. CASE call = "update" /\ Fed(op, d, r)
  <2>1. ~op'.finalized /\ r.rv = "OK" /\ Parts(o) /\ Continues(op, d, o) /\ Paid(o) = Paid(op) + r.out
    BY <1>2, <1>8 DEF Fed
  <2>2. taken' = taken
    BY <1>1, <1>3, <2>1 DEF IInv
  <2>3. ~taken' => Stream(o) = Positions(1, fed') /\ out' = Paid(o)
    BY <1>1, <1>3, <1>7, <2>1, <2>2
  <2>4. LiveOK'
    BY <1>1, <1>2, <1>3, <2>1, <2>2, <2>3, Primes DEF LiveOK
  <2>5. StreamInOrder'
    BY <1>2, <2>3 DEF StreamInOrder, Stream
  <2>6. EndPaysAll' /\ AcceptedIsAuthentic' /\ AskedRoomSuffices'
    BY <1>3, <2>1 DEF EndPaysAll, AcceptedIsAuthentic, AskedRoomSuffices, Finished
  <2> QED
    BY <1>5, <1>6, <2>4, <2>5, <2>6 DEF IInv
<1>9. CASE call \in {"final", "one"} /\ Ended(op, d, r)
  <2>1. op'.finalized /\ r.rv = "OK" /\ Continues(op, d, o)
    BY <1>2, <1>9 DEF Ended
  <2>2. taken' = taken
    BY <1>1, <1>3, <2>1 DEF IInv
  <2>3. ~taken => Stream(o) = Positions(1, fed') /\ Len(Stream(o)) = fed'
    BY <1>7, <2>1
  <2>4. StreamInOrder'
    BY <1>2, <2>2, <2>3 DEF StreamInOrder, Stream
  <2>5. EndPaysAll'
    <3>1. ASSUME ~taken, ~(mode = "CCM" /\ enc /\ fed' > DataLen)
          PROVE  out' = OwedFor(fed') /\ o.buffer = <<>>
      <4>1. Fits(Len(Stream(o)))
        BY <2>3, <3>1 DEF Fits
      <4>2. Paid(op) + r.out = OwedFor(Len(Stream(o))) /\ o.buffer = <<>>
        BY <1>2, <1>9, <4>1 DEF Ended
      <4> QED
        BY <1>1, <1>3, <2>3, <3>1, <4>2
    <3>2. mode' = mode /\ enc' = enc /\ Owed' = OwedFor(fed')
      BY <1>2, <1>3, Primes
    <3> QED
      BY <1>2, <2>2, <3>1, <3>2 DEF EndPaysAll
  <2>6. AcceptedIsAuthentic'
    <3>1. ASSUME ~enc, mode \in Aead, fed' > 0
          PROVE  /\ setup.genuine
                 /\ o.given = Positions(1, fed' - TagLen)
                 /\ o.tag = Positions(fed' - TagLen + 1, TagLen)
      <4>1. Stream(o) = Positions(1, fed') /\ Len(Stream(o)) = fed' /\ fed' \in Nat
        BY <1>1, <1>5, <2>3, <3>1
      <4>2. setup.genuine /\ Len(o.tag) = TagLen
        BY <1>2, <1>9, <3>1, <4>1 DEF Ended
      <4>3. o.buffer = <<>>
        BY <1>2, <1>9, <3>1 DEF Ended, Fits
      <4>4. o \in Op /\ o.given \in Data /\ o.tag \in Data
        BY <1>4, OpFields DEF Shape
      <4>5. o.given \o o.tag \in Data
        BY <4>4, Joined
      <4>6. o.given \o o.tag = Positions(1, fed')
        <5>1. PICK x \in Data : x = o.given \o o.tag
          BY <4>5
        <5>2. x \o <<>> = x
          BY DEF Data
        <5>3. Stream(o) = x \o <<>>
          BY <4>3, <5>1 DEF Stream
        <5> QED
          BY <4>1, <5>1, <5>2, <5>3
      <4>7. TagLen \in 0..fed'
        <5>1. PICK g \in Nat : g = Len(o.given)
          BY <4>4, OpFields
        <5>2. fed' = g + TagLen + 0
          BY <1>4, <4>1, <4>2, <4>3, <5>1, Adds
        <5> QED
          BY <5>1, <5>2, Constants
      <4>8. PICK f \in Nat : f = fed'
        BY <4>1
      <4>9. o.given = Positions(1, f - TagLen) /\ o.tag = Positions(f - TagLen + 1, TagLen)
        <5>1. TagLen \in 0..f /\ o.given \o o.tag = Positions(1, f)
          BY <4>6, <4>7, <4>8
        <5>2. PICK k \in 0..f : k = TagLen /\ Len(o.tag) = k
          BY <4>2, <5>1
        <5>3. o.given = Positions(1, f - k) /\ o.tag = Positions(f - k + 1, k)
          BY <4>4, <5>1, <5>2, PositionsSplit
        <5> QED
          BY <5>2, <5>3
      <4> QED
        BY <4>2, <4>8, <4>9
    <3>2. mode' = mode /\ enc' = enc
      BY <1>2, <1>3, Primes
    <3> QED
      BY <1>2, <1>3, <3>1, <3>2 DEF AcceptedIsAuthentic
  <2>7. AskedRoomSuffices'
    BY <1>3, <2>1 DEF AskedRoomSuffices
  <2> QED
    BY <1>5, <1>6, <2>1, <2>4, <2>5, <2>6, <2>7 DEF IInv
<1>10. CASE Missed(op, r)
  <2>1. r.rv # "OK" /\ r.out = 0 /\ fed' = fed /\ out' = out /\ ~Finished'
    BY <1>1, <1>3, <1>10 DEF Missed, Finished
  <2>2. ~taken' => ~taken /\ SameData(op, o)
    BY <1>3, <2>1
  <2>3. ASSUME ~o.finalized
        PROVE  /\ Parts(o)
               /\ ~taken' => Stream(o) = Positions(1, fed') /\ out' = Paid(o)
               /\ ~enc => ~taken'
    <3>1. /\ Parts(o)
          /\ SameData(op, o) => Stream(o) = Stream(op) /\ Paid(o) = Paid(op)
          /\ ~enc => SameData(op, o)
      BY <1>2, <1>10, <2>3 DEF Missed
    <3>2. ~enc => ~taken'
      BY <1>1, <1>3, <3>1
    <3> QED
      BY <1>1, <2>1, <2>2, <3>1, <3>2
  <2>4. ~op'.finalized => LiveOK'
    BY <1>2, <1>3, <2>3, Primes DEF LiveOK
  <2>5. StreamInOrder'
    BY <1>2, <2>1, <2>3 DEF StreamInOrder, Stream
  <2>6. EndPaysAll' /\ AcceptedIsAuthentic'
    BY <2>1 DEF EndPaysAll, AcceptedIsAuthentic
  <2>7. AskedRoomSuffices'
    <3>1. mode' = mode /\ enc' = enc
      BY <1>2, <1>3, Primes
    <3> QED
      BY <1>3, <2>1, <3>1 DEF AskedRoomSuffices, Underasked, Excepted
  <2> QED
    BY <1>5, <1>6, <2>4, <2>5, <2>6, <2>7 DEF IInv
<1> QED
  BY <1>8, <1>9, <1>10 DEF Does

LEMMA NewOpKeeps ==
  /\ NewOp \in Op /\ ~NewOp.finalized /\ NewOp.given = <<>> /\ NewOp.tag = <<>> /\ NewOp.buffer = <<>>
  /\ NewOp.blockctr = 0
  BY DEF NewOp, Op

LEMMA InitKeeps == Init => IInv
<1> SUFFICES ASSUME Init PROVE IInv
  OBVIOUS
<1> USE DEF Init
<1>1. setup \in Setup /\ fed \in 0..MaxFed /\ out \in Nat /\ taken \in BOOLEAN
  <2>1. setup \in Setup
    BY DEF Setups
  <2>2. 0 \in 0..MaxFed /\ 0 \in Nat
    BY Constants
  <2>3. fed = 0 /\ out = 0 /\ taken = FALSE
    OBVIOUS
  <2> HIDE DEF Init
  <2>4. fed \in 0..MaxFed /\ out \in Nat
    BY <2>2, <2>3
  <2>5. taken \in BOOLEAN
    BY <2>3
  <2> QED
    BY <2>1, <2>4, <2>5
<1>2. BufferOK(op)
  BY <1>1, NewOpKeeps, Constants DEF BufferOK
<1>3. CounterOK(op)
  <2>1. limited => maxblocks \in Nat
    BY <1>1, Modal
  <2> QED
    BY <2>1, NewOpKeeps, BlocksAdd DEF CounterOK
<1>4. Parts(op)
  BY NewOpKeeps, BlockIs DEF Parts
<1>5. Stream(op) = Positions(1, 0)
  BY NewOpKeeps DEF Stream, Positions
<1>6. Paid(op) = 0
  BY NewOpKeeps DEF Paid, Unpadded
<1>7. LiveOK /\ StreamInOrder
  BY <1>4, <1>5, <1>6 DEF LiveOK, StreamInOrder, Stream
<1>8. EndPaysAll /\ AcceptedIsAuthentic /\ AskedRoomSuffices
  BY DEF EndPaysAll, AcceptedIsAuthentic, AskedRoomSuffices, Finished, NoCall
<1>9. last \in [call : {"none", "update", "final", "one", "ask"},
                rv : {"OK", "TooSmall", "Starved", "Error"}, enough : BOOLEAN]
  BY DEF NoCall
<1> QED
  <2>1. Shape(op)
    BY <1>2, <1>3, NewOpKeeps DEF Shape
  <2> QED
    BY <1>1, <1>7, <1>8, <1>9, <2>1 DEF IInv

LEMMA BeginKeeps ==
  ASSUME Begin
  PROVE  Init'
  BY DEF Begin, Init, NewOp, NoCall

(* The part a call is given.                                               *)
LEMMA PartGiven ==
  ASSUME IInv, NEW n \in Nat, fed + n <= MaxFed
  PROVE  Positions(fed + 1, n) \in Data /\ Len(Positions(fed + 1, n)) = n
  BY PositionsType DEF IInv

LEMMA LiveParts ==
  ASSUME IInv, ~op.finalized
  PROVE  setup \in Setup /\ Shape(op) /\ Parts(op) /\ op \in Op
  BY DEF IInv, LiveOK, Shape

LEMMA UpdateKeeps ==
  ASSUME IInv, NEW n \in Nat, NEW room \in Nat, Update(n, room)
  PROVE  IInv'
<1>1. PICK d, r : d = Positions(fed + 1, n) /\ r = UpdateOf(op, d, room)
  OBVIOUS
<1>2. ~op.finalized /\ fed + n <= MaxFed /\ Returns(r, "update", n, room)
  BY <1>1 DEF Update, Bounded
<1>3. d \in Data /\ Len(d) = n
  BY <1>1, <1>2, PartGiven
<1>4. Does(op, d, "update", r)
  BY <1>1, <1>2, <1>3, LiveParts, UpdateDoes DEF Does
<1>5. Asked(op, n, FALSE) \in 0..room /\ ~Excepted("update")
        => r.rv \notin {"TooSmall", "Starved"}
  BY <1>1, <1>2, <1>3, LiveParts, UpdateRoom DEF Excepted
<1>6. "update" \in {"update", "final", "one"} /\ ("update" # "update") = FALSE
  OBVIOUS
<1> QED
  BY <1>1, <1>2, <1>4, <1>5, <1>6, CallKeeps

LEMMA FinalKeeps ==
  ASSUME IInv, NEW room \in Nat, Final(room)
  PROVE  IInv'
<1>1. PICK r : r = FinalOf(op, room)
  OBVIOUS
<1>2. ~op.finalized /\ Returns(r, "final", 0, room)
  BY <1>1 DEF Final
<1>3. fed + 0 <= MaxFed /\ Positions(fed + 1, 0) = <<>>
  BY Constants DEF IInv, Positions
<1>4. Does(op, <<>>, "final", r)
  BY <1>1, <1>2, LiveParts, FinalDoes DEF Does
<1>5. Asked(op, 0, TRUE) \in 0..room /\ ~Excepted("final")
        => r.rv \notin {"TooSmall", "Starved"}
  BY <1>1, <1>2, LiveParts, FinalRoom DEF Excepted
<1>6. "final" \in {"update", "final", "one"} /\ ("final" # "update") = TRUE
  OBVIOUS
<1> QED
  BY <1>2, <1>3, <1>4, <1>5, <1>6, CallKeeps

LEMMA FreshHasNothing ==
  ASSUME IInv, ~op.finalized, ~enc, fed = 0
  PROVE  op.given = <<>> /\ op.buffer = <<>>
<1>1. Stream(op) = Positions(1, 0) /\ op \in Op
  BY LiveParts DEF IInv, LiveOK
<1>2. Len(Stream(op)) = 0
  BY <1>1 DEF Positions
<1>3. Len(op.given) = 0 /\ Len(op.buffer) = 0
  <2>1. PICK g \in Nat, t \in Nat, b \in Nat :
          g = Len(op.given) /\ t = Len(op.tag) /\ b = Len(op.buffer)
    BY <1>1, OpFields
  <2>2. g + t + b = 0
    BY <1>1, <1>2, <2>1, Adds, LiveParts
  <2>3. g = 0 /\ b = 0
    BY <2>2
  <2> QED
    BY <2>1, <2>3
<1> QED
  BY <1>1, <1>3, EmptySeq DEF Op

LEMMA OneStepKeeps ==
  ASSUME IInv, NEW n \in Nat, NEW room \in Nat, OneStep(n, room)
  PROVE  IInv'
<1>1. PICK d, r : d = Positions(fed + 1, n) /\ r = OneStepOf(op, d, room)
  OBVIOUS
<1>2. ~op.finalized /\ fed + n <= MaxFed /\ Returns(r, "one", n, room)
  BY <1>1 DEF OneStep, Bounded
<1>3. d \in Data /\ Len(d) = n
  BY <1>1, <1>2, PartGiven
<1>4. Does(op, d, "one", r)
  BY <1>1, <1>2, <1>3, LiveParts, OneStepDoes DEF Does
<1>5. ~enc /\ fed = 0 => op.given = <<>> /\ op.buffer = <<>>
  BY <1>2, FreshHasNothing
<1>6. Asked(op, n, TRUE) \in 0..room /\ ~Excepted("one")
        => r.rv \notin {"TooSmall", "Starved"}
  <2>1. fed # 0 => fed > 0
    BY DEF IInv
  <2>2. ~Excepted("one") /\ ~enc /\ mode = "CBC_PAD" => fed = 0
    BY <2>1 DEF Excepted
  <2>3. SUFFICES ASSUME Asked(op, n, TRUE) \in 0..room, ~Excepted("one")
                 PROVE  r.rv \notin {"TooSmall", "Starved"}
    OBVIOUS
  <2>4. ~enc /\ mode = "CBC_PAD" => op.given = <<>> /\ op.buffer = <<>>
    BY <1>5, <2>2, <2>3
  <2> QED
    BY <1>1, <1>2, <1>3, <2>3, <2>4, LiveParts, OneStepRoom
<1>7. "one" \in {"update", "final", "one"} /\ ("one" # "update") = TRUE
  OBVIOUS
<1> QED
  BY <1>1, <1>2, <1>4, <1>6, <1>7, CallKeeps

LEMMA AskKeeps ==
  ASSUME IInv, NEW n \in Nat, NEW fin \in BOOLEAN, Ask(n, fin)
  PROVE  IInv'
<1>1. PICK o : o = op' /\ o = [op EXCEPT !.finalized = (Asked(op, n, fin) = -1)]
  BY DEF Ask
<1>2. ~op.finalized /\ setup' = setup /\ fed' = fed /\ out' = out /\ taken' = taken
  BY DEF Ask
<1>3. setup \in Setup /\ Shape(op) /\ Parts(op) /\ op \in Op
  BY <1>2, LiveParts
<1>4. Alike(op, o) /\ o.blockctr = op.blockctr
  BY <1>1, <1>3 DEF Op, Alike
<1>5. Shape(o) /\ Parts(o) /\ Stream(o) = Stream(op) /\ Paid(o) = Paid(op)
  BY <1>3, <1>4, ShapeAlike, AlikeSame
<1>6. last'.call = "ask" /\ ~last'.enough /\ ~Finished'
  BY DEF Ask, Finished
<1>7. last' \in [call : {"none", "update", "final", "one", "ask"},
                 rv : {"OK", "TooSmall", "Starved", "Error"}, enough : BOOLEAN]
  BY DEF Ask
<1>8. LiveOK'
  BY <1>1, <1>2, <1>5, Primes DEF LiveOK, IInv
<1>9. StreamInOrder'
  <2>1. ~op'.finalized /\ ~taken' => Stream(o) = Positions(1, fed')
    BY <1>2, <1>5 DEF IInv, LiveOK
  <2> QED
    BY <1>1, <1>6, <2>1 DEF StreamInOrder, Stream
<1>10. EndPaysAll' /\ AcceptedIsAuthentic' /\ AskedRoomSuffices'
  BY <1>6 DEF EndPaysAll, AcceptedIsAuthentic, AskedRoomSuffices
<1>11. setup' \in Setup' /\ Shape(op)' /\ fed' \in 0..MaxFed /\ out' \in Nat /\ taken' \in BOOLEAN
  <2>1. setup' \in Setup'
    BY <1>2, <1>3 DEF Setup
  <2>2. Shape(op)'
    BY <1>1, <1>2, <1>5, Primes
  <2> QED
    BY <1>2, <2>1, <2>2 DEF IInv
<1> QED
  BY <1>7, <1>8, <1>9, <1>10, <1>11 DEF IInv

LEMMA NextKeeps ==
  ASSUME IInv, [Next]_vars, Init' => IInv'
  PROVE  IInv'
<1>1. CASE Begin
  BY <1>1, BeginKeeps
<1>2. ASSUME NEW n \in 0..MaxPart, NEW room \in 0..MaxRoom, Update(n, room) \/ OneStep(n, room)
      PROVE  IInv'
  BY <1>2, UpdateKeeps, OneStepKeeps
<1>3. ASSUME NEW room \in 0..MaxRoom, Final(room)
      PROVE  IInv'
  BY <1>3, FinalKeeps
<1>4. ASSUME NEW n \in 0..MaxPart, NEW fin \in BOOLEAN, Ask(n, fin)
      PROVE  IInv'
  BY <1>4, AskKeeps
<1>5. CASE UNCHANGED vars
  <2>1. Shape(op)' /\ (LiveOK' <=> LiveOK) /\ (StreamInOrder' <=> StreamInOrder)
    <3>1. setup' = setup /\ op' = op /\ fed' = fed /\ out' = out /\ taken' = taken
      BY <1>5 DEF vars
    <3>2. PICK o : o = op' /\ o = op
      BY <3>1
    <3>3. /\ mode' = mode /\ enc' = enc /\ (Shape(op)' <=> Shape(o)) /\ (Parts(op)' <=> Parts(o))
          /\ Stream(op)' = Stream(o) /\ Paid(op)' = Paid(o)
      BY <3>1, <3>2, Primes
    <3>4. Shape(op)' /\ (LiveOK' <=> LiveOK)
      BY <3>1, <3>2, <3>3 DEF LiveOK, IInv
    <3>5. Finished' <=> Finished
      BY <1>5 DEF Finished, vars
    <3>6. StreamInOrder' <=> StreamInOrder
      BY <3>1, <3>5 DEF StreamInOrder
    <3> QED
      BY <3>4, <3>6
  <2>2. /\ EndPaysAll' <=> EndPaysAll
        /\ AcceptedIsAuthentic' <=> AcceptedIsAuthentic
        /\ AskedRoomSuffices' <=> AskedRoomSuffices
    <3>1. setup' = setup /\ op' = op /\ fed' = fed /\ out' = out /\ taken' = taken /\ last' = last
      BY <1>5 DEF vars
    <3>2. mode' = mode /\ enc' = enc /\ Owed' = Owed /\ Finished' = Finished
      BY <3>1, Primes, OwedIsFor DEF Finished
    <3> QED
      BY <3>1, <3>2 DEF EndPaysAll, AcceptedIsAuthentic, AskedRoomSuffices, Underasked
  <2> QED
    BY <1>5, <2>1, <2>2 DEF IInv, vars, Setup
<1> QED
  BY <1>1, <1>2, <1>3, <1>4, <1>5 DEF Next

-----------------------------------------------------------------------------
(* The invariant holds in every behaviour, whatever the lengths.           *)
THEOREM CipherInvariance == Spec => []IInv
<1>1. IInv /\ [Next]_vars /\ (Init' => IInv') => IInv'
  BY NextKeeps
<1> QED
  BY <1>1, InitKeeps, PTL DEF Spec

(* Every variable keeps its type, and the buffer its bound                 *)
(* (AesOperation's buffer and its counter of blocks).                      *)
THEOREM CipherTypeCorrect == Spec => []TypeOK
<1>1. IInv => TypeOK
  <2>1. SUFFICES ASSUME IInv PROVE Len(op.buffer) <= BufferMax
    BY DEF IInv, TypeOK, Shape
  <2>2. setup \in Setup /\ BufferOK(op) /\ op \in Op
    BY <2>1 DEF IInv, Shape
  <2>3. PICK n \in Nat : n = Len(op.buffer)
    BY <2>2, OpFields
  <2>4. Block \in Nat /\ TagLen \in Nat /\ DataLen \in Nat
    BY Constants
  <2> QED
    BY <2>2, <2>3, <2>4, Modal DEF BufferOK, BufferMax, AllModes
<1> QED
  BY <1>1, CipherInvariance, PTL

(* Whatever the parts and the calls that found too little room, OpenSSL    *)
(* is given every byte once and in order (encrypt_update, decrypt_update). *)
THEOREM StreamAlwaysInOrder == Spec => []StreamInOrder
<1>1. IInv => StreamInOrder
  BY DEF IInv
<1> QED
  BY <1>1, CipherInvariance, PTL

(* An operation that ends well has put out all that it owes                *)
(* (encrypt_final, decrypt_final).                                         *)
THEOREM EndAlwaysPaysAll == Spec => []EndPaysAll
<1>1. IInv => EndPaysAll
  BY DEF IInv
<1> QED
  BY <1>1, CipherInvariance, PTL

(* What a decryption with a tag accepts was genuine, and was told from its *)
(* tag at the right byte (decrypt_final).                                  *)
THEOREM AcceptedIsAlwaysAuthentic == Spec => []AcceptedIsAuthentic
<1>1. IInv => AcceptedIsAuthentic
  BY DEF IInv
<1> QED
  BY <1>1, CipherInvariance, PTL

(* The counter of CTR does not wrap (init_params, encrypt_update), if it   *)
(* has at most one bit beside whole octets.                                *)
THEOREM CounterNeverWraps == Spec => []CounterDoesNotWrap
<1>1. IInv => CounterDoesNotWrap
  <2>1. SUFFICES ASSUME IInv, mode = "CTR", limited, setup.counter.left <= 1
                 PROVE  setup.counter.start + Blocks(Len(op.given)) <= Values(setup.counter)
    BY DEF CounterDoesNotWrap
  <2>2. setup \in Setup /\ op \in Op /\ CounterOK(op)
    BY <2>1 DEF IInv, Shape
  <2>3. PICK c \in Counters : c = setup.counter /\ c # Unlimited
    BY <2>1, <2>2 DEF Setup, limited
  <2>4. PICK b \in Nat : b = Blocks(Len(op.given))
    BY <2>2, OpFields, BlocksType
  <2>5. b <= op.blockctr /\ op.blockctr <= maxblocks /\ op.blockctr \in Nat
    BY <2>1, <2>2, <2>4, OpFields DEF CounterOK
  <2>6. PICK s \in Nat, m \in Nat : s = c.start /\ m = maxblocks
    BY <2>2, <2>3, CounterFields, Modal
  <2>7. m = Values(c) - 1 - s
    BY <2>1, <2>3, <2>6, NoBitLost DEF maxblocks
  <2>8. Values(c) \in Nat
    BY <2>1, <2>3, NoBitLost
  <2> QED
    BY <2>3, <2>4, <2>5, <2>6, <2>7, <2>8
<1> QED
  BY <1>1, CipherInvariance, PTL

(* A length query is honoured by the call it was made for, but for the two *)
(* that Underasked names (encryption_len, decryption_len).                 *)
THEOREM AskedRoomAlwaysSuffices == Spec => []AskedRoomSuffices
<1>1. IInv => AskedRoomSuffices
  BY DEF IInv
<1> QED
  BY <1>1, CipherInvariance, PTL

(* A call that finds too little room can be made again.                    *)
THEOREM CipherTooSmallChangesNothing == Spec => TooSmallChangesNothing
<1>1. ASSUME IInv, [Next]_vars
      PROVE  [last'.rv = "TooSmall" /\ CanBeMadeAgain => op' = [op EXCEPT !.inUse = TRUE]]_vars
  <2>1. SUFFICES ASSUME Next, last'.rv = "TooSmall", CanBeMadeAgain
                 PROVE  op' = [op EXCEPT !.inUse = TRUE]
    BY <1>1
  <2>2. CASE Begin
    BY <2>1, <2>2 DEF Begin, NoCall
  <2>3. ASSUME NEW n \in 0..MaxPart, NEW room \in 0..MaxRoom, Update(n, room)
        PROVE  op' = [op EXCEPT !.inUse = TRUE]
    <3>1. PICK r : r = UpdateOf(op, Positions(fed + 1, n), room) /\ Returns(r, "update", n, room)
      BY <2>3 DEF Update
    <3>2. r.rv = "TooSmall" /\ op' = r.op /\ mode \in {"CBC", "GCM", "CBC_PAD", "CCM"}
      BY <2>1, <3>1 DEF Returns, CanBeMadeAgain
    <3> QED
      BY <1>1, <3>1, <3>2, UpdateAgain DEF IInv
  <2>4. ASSUME NEW room \in 0..MaxRoom, Final(room)
        PROVE  op' = [op EXCEPT !.inUse = TRUE]
    <3>1. PICK r : r = FinalOf(op, room) /\ Returns(r, "final", 0, room)
      BY <2>4 DEF Final
    <3>2. r.rv = "TooSmall" /\ op' = r.op /\ mode \in {"CBC", "GCM", "CBC_PAD", "CCM"}
      BY <2>1, <3>1 DEF Returns, CanBeMadeAgain
    <3>3. LacksRoom(op, room, r)
      BY <1>1, <3>1, <3>2, FinalAgain DEF IInv, Shape
    <3> QED
      BY <3>2, <3>3 DEF LacksRoom
  <2>5. ASSUME NEW n \in 0..MaxPart, NEW room \in 0..MaxRoom, OneStep(n, room)
        PROVE  op' = [op EXCEPT !.inUse = TRUE]
    <3>1. PICK d, r : /\ d = Positions(fed + 1, n) /\ r = OneStepOf(op, d, room)
                      /\ Returns(r, "one", n, room)
      BY <2>5 DEF OneStep
    <3>2. ~op.finalized /\ fed + n <= MaxFed
      BY <2>5 DEF OneStep, Bounded
    <3>3. r.rv = "TooSmall" /\ op' = r.op /\ mode \in {"CBC", "GCM"}
      BY <2>1, <3>1 DEF Returns, CanBeMadeAgain
    <3>4. d \in Data /\ room \in Nat
      BY <1>1, <3>1, <3>2, PartGiven
    <3>5. setup \in Setup /\ Shape(op) /\ Parts(op)
      BY <1>1, <3>2, LiveParts
    <3> QED
      BY <3>1, <3>2, <3>3, <3>4, <3>5, OneStepAgain
  <2>6. ASSUME NEW n \in 0..MaxPart, NEW fin \in BOOLEAN, Ask(n, fin)
        PROVE  op' = [op EXCEPT !.inUse = TRUE]
    BY <2>1, <2>6 DEF Ask
  <2> QED
    BY <2>1, <2>2, <2>3, <2>4, <2>5, <2>6 DEF Next
<1> QED
  BY <1>1, CipherInvariance, PTL DEF Spec, TooSmallChangesNothing
-----------------------------------------------------------------------------
(***************************************************************************)
(* The operation as SessionOps sees it, in the place of its type and with  *)
(* a key that needs no login of its own: only whether it was fed and has   *)
(* finished.  One that a failed call finished counts as fed.               *)
(***************************************************************************)
NoOperation == [kind |-> "none"]

Seen(o) == [login |-> FALSE, inUse |-> o.inUse \/ o.finalized, finalized |-> o.finalized,
            confirmed |-> FALSE]

SessionOp == [ty \in {"Encryption"} |-> Seen(op)]

Life == INSTANCE SessionOps
          WITH OpTypes <- {"Encryption"}, None <- NoOperation, ops <- SessionOp,
               loginStatus <- "NotRequired", latest <- "Encryption",
               saved <- [ty \in {"Encryption"} |-> NoOperation]

(* What the calls may do to an operation that has not finished: feed it,   *)
(* finish it, or nothing.                                                  *)
Touched(o, t) == t.inUse \/ t.finalized \/ t = o

LEMMA UpdateTouches ==
  ASSUME NEW o \in Op, NEW d \in Data, NEW room, setup \in Setup, Shape(o), Parts(o), ~o.finalized
  PROVE  UpdateOf(o, d, room).op.inUse \/ UpdateOf(o, d, room).op.finalized
<1>1. PICK b : b = [o EXCEPT !.inUse = TRUE]
  OBVIOUS
<1>2. b \in Op /\ b.inUse /\ Len(b.buffer) = Len(o.buffer) /\ b.given = o.given
  BY <1>1, SetInUse DEF Alike
<1>3. \A e \in Op : Fatal(e).op.finalized /\ Fatal(e).rv = "Error"
  BY SetFinalized DEF Fatal, Refused
<1>4. CASE UpdateOf(o, d, room).rv = "OK"
  <2>1. ~Unfed(o, UpdateOf(o, d, room))
    BY <1>4 DEF Unfed
  <2> QED
    BY <2>1, UpdateFeeds DEF Fed
<1>5. CASE UpdateOf(o, d, room).rv = "TooSmall"
  <2>1. PICK c : c = Counted(b, Len(d))
    OBVIOUS
  <2>2. c \in Op /\ c.inUse
    <3>1. Len(d) \in Nat
      BY DEF Data
    <3> QED
      BY <1>2, <2>1, <3>1, SetCounted DEF CountedFrom, Alike
  <2>3. UpdateOf(o, d, room).op = b \/ UpdateOf(o, d, room).op = c
    <3>1. CASE enc
      BY <1>1, <1>5, <2>1, <3>1
         DEF UpdateOf, EncryptUpdate, Ok, TooSmall, Fatal, Refused
    <3>2. CASE ~enc
      BY <1>1, <1>5, <2>1, <3>2
         DEF UpdateOf, DecryptUpdate, Ok, TooSmall, Fatal, Refused, Verified
    <3> QED
      BY <3>1, <3>2
  <2> QED
    BY <1>2, <2>2, <2>3
<1>6. CASE UpdateOf(o, d, room).rv = "Error"
  <2>1. PICK t : t = Through(b, d, DataLen)
    OBVIOUS
  <2>2. Fatal(t).op.finalized
    <3>1. PICK g, f : t = [b EXCEPT !.given = g, !.buffer = f]
      BY <2>1 DEF Through
    <3>2. [t EXCEPT !.finalized = TRUE].finalized
      BY <1>2, <3>1 DEF Op
    <3> QED
      BY <3>2 DEF Fatal, Refused
  <2>3. UpdateOf(o, d, room) \in {Fatal(o), Fatal(b), Fatal(t)}
    <3>1. CASE enc
      BY <1>1, <1>6, <3>1
         DEF UpdateOf, EncryptUpdate, Ok, TooSmall
    <3>2. CASE ~enc
      BY <1>1, <1>6, <2>1, <3>2
         DEF UpdateOf, DecryptUpdate, Ok, TooSmall, Verified
    <3> QED
      BY <3>1, <3>2
  <2> QED
    BY <1>2, <1>3, <2>2, <2>3
<1>7. UpdateOf(o, d, room).rv # "Starved"
  <2>1. CASE enc
    BY <2>1 DEF UpdateOf, EncryptUpdate, Ok, TooSmall, Fatal, Refused
  <2>2. CASE ~enc
    BY <2>2 DEF UpdateOf, DecryptUpdate, Ok, TooSmall, Fatal, Refused, Verified
  <2> QED
    BY <2>1, <2>2
<1> QED
  BY <1>4, <1>5, <1>6, <1>7, UpdateFeeds DEF Fed, Unfed

LEMMA FinalTouches ==
  ASSUME NEW o \in Op, NEW room, setup \in Setup, Shape(o), Parts(o), ~o.finalized
  PROVE  Touched(o, FinalOf(o, room).op)
<1>1. CASE Over(o, FinalOf(o, room))
  BY <1>1 DEF Over, Touched
<1>2. CASE NotOver(o, FinalOf(o, room)) /\ ~FinalOf(o, room).op.finalized
  <2>1. \A e \in Op : Fatal(e).op.finalized
    BY SetFinalized DEF Fatal, Refused
  <2>2. CASE enc
    <3>1. FinalOf(o, room).rv \in {"TooSmall", "Starved", "Error"}
      BY <1>2 DEF NotOver
    <3>2. FinalOf(o, room) \in {Refused(o), TooSmall(o), Fatal(o)}
      BY <2>2, <3>1, Modal DEF FinalOf, EncryptFinal, Done, Ok, AllModes, Aead
    <3>3. FinalOf(o, room) # Fatal(o)
      BY <1>2, <2>1
    <3> QED
      BY <3>2, <3>3 DEF Refused, TooSmall, Touched
  <2>3. CASE ~enc
    <3>1. PICK c : c = [o EXCEPT !.finalized = TRUE]
      OBVIOUS
    <3>2. c \in Op /\ c.inUse = o.inUse /\ c.finalized
      BY <3>1, SetFinalized DEF Alike
    <3>3. PICK e : e = [c EXCEPT !.buffer = <<>>]
      OBVIOUS
    <3>4. e \in Op /\ e.finalized
      <4>1. <<>> \in Seq(1..MaxFed)
        BY EmptySeq
      <4> QED
        BY <3>2, <3>3, <4>1 DEF Op
    <3>5. FinalOf(o, room).rv \in {"TooSmall", "Starved", "Error"}
      BY <1>2 DEF NotOver
    <3>6. CASE ~o.inUse
      <4>1. DecryptFinal(o, room) = Refused(o)
        BY <3>6 DEF DecryptFinal
      <4> QED
        BY <2>3, <4>1 DEF FinalOf, Refused, Touched
    <3>7. CASE o.inUse
      <4>1. DecryptFinal(o, room) \in {Fatal(c), Starved(c), Fatal(e), TooSmall(e)}
        BY <2>3, <3>1, <3>2, <3>3, <3>5, <3>7, Modal
           DEF FinalOf, DecryptFinal, Verified, Done, Ok, AllModes
      <4> QED
        BY <1>2, <2>1, <2>3, <3>2, <3>4, <4>1 DEF FinalOf, TooSmall, Starved, Fatal, Refused
    <3> QED
      BY <3>6, <3>7
  <2> QED
    BY <2>2, <2>3, Modal
<1> QED
  BY <1>1, <1>2, FinalEnds DEF Touched

LEMMA OneStepTouches ==
  ASSUME setup \in Setup, NEW o \in Op, Shape(o), Parts(o), ~o.finalized, NEW d \in Data, NEW room
  PROVE  Touched(o, OneStepOf(o, d, room).op)
<1>1. PICK u : u = UpdateOf(o, d, room)
  OBVIOUS
<1>2. PICK f : f = FinalOf(u.op, room - u.out)
  OBVIOUS
<1>3. OneStepOf(o, d, room) = IF u.rv # "OK" THEN u
                              ELSE IF f.rv = "OK" THEN [f EXCEPT !.out = u.out + f.out] ELSE f
  BY <1>1, <1>2 DEF OneStepOf
<1>4. CASE u.rv # "OK"
  BY <1>1, <1>3, <1>4, UpdateTouches DEF Touched
<1>5. CASE u.rv = "OK"
  <2>1. Fed(o, d, u)
    BY <1>1, <1>5, UpdateFeeds DEF Unfed
  <2>2. u.op \in Op /\ Shape(u.op) /\ Parts(u.op) /\ ~u.op.finalized /\ u.op.inUse
    BY <2>1 DEF Fed, Shape
  <2>3. Touched(u.op, f.op)
    BY <1>2, <2>2, FinalTouches
  <2>4. f.op.inUse \/ f.op.finalized
    BY <2>2, <2>3 DEF Touched
  <2>5. Over(u.op, f) \/ NotOver(u.op, f)
    BY <1>2, <2>2, FinalEnds
  <2>6. OneStepOf(o, d, room).op = f.op
    BY <1>3, <1>5, <2>5 DEF Over, NotOver
  <2> QED
    BY <2>4, <2>6 DEF Touched
<1> QED
  BY <1>4, <1>5

LEMMA SeenType ==
  /\ op \in Op => Seen(op) \in Life!Op
  /\ op' \in Op => Seen(op)' \in Life!Op
  BY DEF Op, Seen, Life!Op

(* An operation that was fed or finished is one that SessionOps has seen   *)
(* updated, well or badly.                                                 *)
LEMMA TouchedIsUpdate ==
  ASSUME op \in Op, op' \in Op, ~op.finalized, Touched(op, op')
  PROVE  [Life!Next]_SessionOp
<1>1. CASE op' = op
  BY <1>1 DEF SessionOp
<1>2. CASE op'.inUse \/ op'.finalized
  <2>1. op'.finalized \in BOOLEAN
    BY OpFields
  <2>2. SessionOp["Encryption"] = Seen(op) /\ "Encryption" \in {"Encryption"}
    BY DEF SessionOp
  <2>3. Seen(op) # NoOperation
    BY DEF Seen, NoOperation
  <2>4. Seen(op).finalized = op.finalized
    BY DEF Seen
  <2>5. Life!Active("Encryption")
    BY <2>2, <2>3, <2>4 DEF Life!Active
  <2>6. Seen(op)' = [Seen(op) EXCEPT !.inUse = TRUE, !.finalized = op'.finalized]
    <3>1. PICK r, s : r = Seen(op) /\ s = Seen(op)'
      OBVIOUS
    <3>2. r \in Life!Op /\ s \in Life!Op
      BY <3>1, SeenType
    <3>3. /\ s.login = r.login /\ s.confirmed = r.confirmed
          /\ s.inUse /\ s.finalized = op'.finalized
      BY <1>2, <3>1 DEF Seen
    <3>4. s.inUse = TRUE
      BY <3>2, <3>3 DEF Life!Op
    <3>5. s = [r EXCEPT !.inUse = TRUE, !.finalized = op'.finalized]
      BY <2>1, <3>2, <3>3, <3>4 DEF Life!Op
    <3> QED
      BY <3>1, <3>5
  <2>7. SessionOp' = [SessionOp EXCEPT !["Encryption"].inUse = TRUE,
                                       !["Encryption"].finalized = op'.finalized]
    BY <2>6 DEF SessionOp
  <2>8. \E ok \in BOOLEAN : op'.finalized = ~ok
    BY <2>1
  <2>9. \E ok \in BOOLEAN : Life!Update("Encryption", ok)
    BY <2>5, <2>7, <2>8 DEF Life!Update, Life!Allowed
  <2> QED
    BY <2>9 DEF Life!Next
<1> QED
  BY <1>1, <1>2 DEF Touched

LEMMA BeginIsBegin ==
  ASSUME op \in Op, Begin
  PROVE  [Life!Next]_SessionOp
<1>1. op.finalized /\ op' = NewOp
  BY DEF Begin
<1>2. ~Life!Active("Encryption")
  BY <1>1 DEF Life!Active, SessionOp, Seen
<1>3. SessionOp' = [SessionOp EXCEPT !["Encryption"] = Life!NewOp(FALSE, FALSE)]
  BY <1>1 DEF SessionOp, Seen, NewOp, Life!NewOp
<1>4. Life!Begin("Encryption", FALSE)
  BY <1>2, <1>3 DEF Life!Begin
<1> QED
  BY <1>4 DEF Life!Next

LEMMA StepsOfLife == IInv /\ IInv' /\ [Next]_vars => [Life!Next]_SessionOp
<1> SUFFICES ASSUME IInv, IInv', [Next]_vars
             PROVE  [Life!Next]_SessionOp
  OBVIOUS
<1>1. op \in Op /\ op' \in Op
  BY DEF IInv, Shape
<1>2. CASE Begin
  BY <1>1, <1>2, BeginIsBegin
<1>3. ASSUME NEW n \in 0..MaxPart, NEW room \in 0..MaxRoom, Update(n, room)
      PROVE  [Life!Next]_SessionOp
  <2>1. ~op.finalized /\ fed + n <= MaxFed /\ op' = UpdateOf(op, Positions(fed + 1, n), room).op
    BY <1>3 DEF Update, Bounded, Returns
  <2> QED
    BY <1>1, <2>1, LiveParts, PartGiven, UpdateTouches, TouchedIsUpdate DEF Touched
<1>4. ASSUME NEW n \in 0..MaxPart, NEW room \in 0..MaxRoom, OneStep(n, room)
      PROVE  [Life!Next]_SessionOp
  <2>1. ~op.finalized /\ fed + n <= MaxFed /\ op' = OneStepOf(op, Positions(fed + 1, n), room).op
    BY <1>4 DEF OneStep, Bounded, Returns
  <2> QED
    BY <1>1, <2>1, LiveParts, PartGiven, OneStepTouches, TouchedIsUpdate
<1>5. ASSUME NEW room \in 0..MaxRoom, Final(room)
      PROVE  [Life!Next]_SessionOp
  <2>1. ~op.finalized /\ op' = FinalOf(op, room).op
    BY <1>5 DEF Final, Returns
  <2> QED
    BY <1>1, <2>1, LiveParts, FinalTouches, TouchedIsUpdate
<1>6. ASSUME NEW n \in 0..MaxPart, NEW fin \in BOOLEAN, Ask(n, fin)
      PROVE  [Life!Next]_SessionOp
  <2>1. ~op.finalized /\ op' = [op EXCEPT !.finalized = (Asked(op, n, fin) = -1)]
    BY <1>6 DEF Ask
  <2>2. op'.finalized \/ op' = op
    BY <1>1, <2>1 DEF Op
  <2> QED
    BY <1>1, <2>1, <2>2, TouchedIsUpdate DEF Touched
<1>7. CASE UNCHANGED vars
  BY <1>7 DEF vars, SessionOp
<1> QED
  BY <1>2, <1>3, <1>4, <1>5, <1>6, <1>7 DEF Next

(* Whatever the calls are given, the operation goes through the life that  *)
(* SessionOps takes an operation to have: begun, fed, finished once, and   *)
(* only a new one after that (aes.rs, check_op and get_op of session.rs).  *)
THEOREM CipherKeepsTheLifeCycle == Spec => [][Life!Next]_SessionOp
<1> QED
  BY StepsOfLife, CipherInvariance, PTL DEF Spec
=============================================================================
