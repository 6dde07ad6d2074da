----------------------------- MODULE AesCipher ------------------------------
(***************************************************************************)
(* One encryption or decryption with AES (ossl/aes.rs), fed in parts of    *)
(* any length, with output buffers of any length, through C_Encrypt,       *)
(* C_EncryptUpdate, C_EncryptFinal and their decrypting twins              *)
(* (fns/encryption.rs).  A session has one such operation and its lock     *)
(* makes every call one step.                                              *)
(*                                                                         *)
(* A byte of the application's data is its position; what OpenSSL has been *)
(* given is a sequence of positions.  ECB works as CBC here; CFB and OFB   *)
(* as CTR without a limit.  KEY_WRAP and KWP, which keep nothing between   *)
(* calls, CTS, which takes one part only, CCM messages without data or     *)
(* over MAX_CCM_BUF are left out.                                          *)
(*                                                                         *)
(* DropsBuffer, WholeOfPart, WholeBlocks, BlocksFloor, LenWithoutTag,      *)
(* RoomForData and AcceptsAny are the definitions after them with a        *)
(* plausible mistake; nothing uses them.                                   *)
(***************************************************************************)
EXTENDS Integers, Sequences

CONSTANTS
  Modes,       \* the mechanisms
  Block,       \* AES_BLOCK_SIZE
  TagLen,      \* params.taglen of GCM and CCM
  DataLen,     \* params.datalen of CCM
  LeftBits,    \* ulCounterBits of CTR: the bits beside whole octets,
  OctetValues, \* and the values of the whole octets, 256 to their number
  MaxFed,      \* bounds: the bytes an application feeds,
  MaxPart,     \* in one call,
  MaxRoom      \* and the room it has for the output

AllModes == {"CBC", "CBC_PAD", "CTR", "GCM", "CCM", "PKCS7"}
Aead     == {"GCM", "CCM"}
Semi     == Block \div 2                         \* AES_KW_SEMIBLOCK

ASSUME AesAssumption ==
  /\ Modes \subseteq AllModes
  /\ {Block, TagLen, DataLen} \cup OctetValues \subseteq Nat \ {0}
  /\ Block % 2 = 0
  /\ LeftBits \subseteq 0..7
  /\ {MaxFed, MaxPart, MaxRoom} \subseteq Nat

VARIABLES
  setup,       \* what C_EncryptInit or C_DecryptInit fixed
  op,          \* AesOperation
  fed,         \* the bytes of the calls that succeeded
  out,         \* the bytes they returned
  taken,       \* a C_Encrypt that failed has kept its data
  last         \* the last call and what became of it

vars == <<setup, op, fed, out, taken, last>>

(* The counter of CTR that an IV starts with, of fewer than 128 bits, and  *)
(* maxblocks, which has to be positive (init_params).  Of bits beside the  *)
(* whole octets the code takes those that are in their number, not those   *)
(* below it: iv & part.                                                    *)
Unlimited    == [left |-> 0, octets |-> 0, start |-> 0]
Values(c)    == (2 ^ c.left) * c.octets
Bit(x, w)    == (x \div w) % 2
And(x, part) == Bit(x, 1) * Bit(part, 1) + 2 * Bit(x, 2) * Bit(part, 2)
                                         + 4 * Bit(x, 4) * Bit(part, 4)
MaxBlocks(c) ==
  IF c = Unlimited THEN 0
  ELSE Values(c) - 1 - (c.start % c.octets) - And(c.start \div c.octets, c.left) * c.octets

Starts(l, k) == {[left |-> l, octets |-> k, start |-> x] : x \in 0..((2 ^ l) * k - 1)}
Counters     == {Unlimited} \cup
  {c \in UNION {Starts(l, k) : l \in LeftBits, k \in OctetValues} : MaxBlocks(c) > 0}

Setup == [mode    : Modes,
          enc     : BOOLEAN,
          counter : Counters,
          genuine : BOOLEAN,             \* a ciphertext that decrypts well
          pad     : 1..Block]            \* the padding in a ciphertext

Op == [finalized : BOOLEAN,
       inUse     : BOOLEAN,
       buffer    : Seq(1..MaxFed),
       given     : Seq(1..MaxFed),       \* to OpenSSL
       tag       : Seq(1..MaxFed),       \* to OpenSSL, as the tag
       blockctr  : Nat]

mode      == setup.mode
enc       == setup.enc
maxblocks == MaxBlocks(setup.counter)
limited   == setup.counter # Unlimited

NewOp  == [finalized |-> FALSE, inUse |-> FALSE, buffer |-> <<>>, given |-> <<>>,
           tag |-> <<>>, blockctr |-> 0]
NoCall == [call |-> "none", rv |-> "OK", enough |-> FALSE]

Positions(first, n) == [i \in 1..n |-> first + i - 1]

(* What a call returns: the operation after it, the result, and the number *)
(* of bytes put out.  op_err finalizes; buf_too_small does not.            *)
Ok(o, n)    == [op |-> o, rv |-> "OK", out |-> n]
TooSmall(o) == [op |-> o, rv |-> "TooSmall", out |-> 0]
Refused(o)  == [op |-> o, rv |-> "Error", out |-> 0]
Fatal(o)    == Refused([o EXCEPT !.finalized = TRUE])
Done(o, n)  == Ok([o EXCEPT !.finalized = TRUE], n)

(* Fatal for want of room, though the error does not say so.               *)
Starved(o)  == [Fatal(o) EXCEPT !.rv = "Starved"]

(* Of what is in the buffer and the part d after it, OpenSSL is given n    *)
(* bytes; the others are in the buffer then.                               *)
DropsBuffer(o, d, n) ==
  [o EXCEPT !.given = @ \o SubSeq(o.buffer \o d, 1, n), !.buffer = SubSeq(d, n + 1, Len(d))]
Through(o, d, n) ==
  LET all == o.buffer \o d
  IN [o EXCEPT !.given = @ \o SubSeq(all, 1, n), !.buffer = SubSeq(all, n + 1, Len(all))]

Kept(o, d)     == Through(o, d, 0)

(* The whole blocks in the buffer and n more bytes.                        *)
WholeOfPart(o, n) == (n \div Block) * Block
Whole(o, n)       == ((Len(o.buffer) + n) \div Block) * Block

(* The last step gives OpenSSL what is left.                               *)
WholeBlocks(o) == Through(o, <<>>, Whole(o, 0))
Flushed(o)     == Through(o, <<>>, Len(o.buffer))

(* The blocks that CTR counts for a part: the last may be partial.  The    *)
(* limit is there so that the counter does not wrap.                       *)
BlocksFloor(n)  == n \div Block
Blocks(n)       == (n + Block - 1) \div Block
Counted(o, n)   == [o EXCEPT !.blockctr = @ + IF maxblocks # 0 THEN Blocks(n) ELSE 0]
OverLimit(o, n) == maxblocks # 0 /\ o.blockctr + Blocks(n) > maxblocks
AtLimit(o)      == maxblocks # 0 /\ o.blockctr >= maxblocks
-----------------------------------------------------------------------------
(* encryption_len: what a length query answers, -1 when it is an error.    *)
LenWithoutTag(o, n, fin) ==
  CASE mode = "GCM" -> n
    [] mode = "CCM" -> Len(o.buffer) + n
    [] OTHER -> Whole(o, n) + IF fin /\ mode = "CBC_PAD" THEN Block ELSE 0
EncryptionLen(o, n, fin) ==
  LET all == Len(o.buffer) + n IN
  CASE mode = "GCM" -> n + TagLen
    [] mode = "CTR" -> n
    [] mode = "CCM" /\ ~fin -> DataLen + TagLen
    [] mode = "CCM" /\ fin -> IF all > DataLen THEN -1 ELSE all + TagLen
    [] mode = "PKCS7" /\ ~fin -> 0
    [] mode = "PKCS7" /\ fin ->
         IF all < Semi THEN -1 ELSE (all \div Semi) * Semi + 2 * Semi
    [] mode = "CBC" /\ fin -> IF all % Block = 0 THEN all ELSE -1
    [] mode = "CBC_PAD" /\ fin -> Whole(o, n) + Block
    [] OTHER -> Whole(o, n)

(* decryption_len.                                                         *)
DecryptionLen(o, n, fin) ==
  LET all == Len(o.buffer) + n IN
  CASE mode = "CTR" -> n
    [] mode = "GCM" /\ ~fin -> IF all < TagLen THEN 0 ELSE all
    [] mode = "GCM" /\ fin -> IF all < TagLen THEN -1 ELSE all - TagLen
    [] mode = "CCM" /\ ~fin -> IF all < TagLen THEN -1 ELSE all - TagLen
    [] mode = "CCM" /\ fin ->
         IF all > DataLen + TagLen THEN -1 ELSE DataLen + TagLen
    [] mode = "PKCS7" /\ ~fin -> 0
    [] mode = "PKCS7" /\ fin ->
         IF all < 3 * Semi \/ all % Semi # 0 THEN -1 ELSE all - Semi
    [] mode \in {"CBC", "CBC_PAD"} /\ fin -> IF all % Block = 0 THEN all ELSE -1
    [] OTHER -> Whole(o, n)

Asked(o, n, fin) ==
  IF enc THEN EncryptionLen(o, n, fin) ELSE DecryptionLen(o, n, fin)
-----------------------------------------------------------------------------
(* encrypt_update.  GCM and CCM want room for the tag as well, so that the *)
(* last step of C_Encrypt has it.  CCM goes to OpenSSL in one piece, once  *)
(* all of it is there; OpenSSL refuses a second one.                       *)
RoomForData(n) == n
GcmRoom(n)     == n + TagLen
CcmRoom(o, n)  == IF Len(o.buffer) + n < DataLen THEN 0 ELSE DataLen + TagLen

EncryptUpdate(before, d, room) ==
  LET o == [before EXCEPT !.inUse = TRUE]
      n == Len(d)
  IN CASE mode = "PKCS7" -> Ok(Kept(o, d), 0)
       [] mode = "CTR" ->
            IF OverLimit(o, n) THEN Fatal(o)
            ELSE IF room < n THEN TooSmall(Counted(o, n))
            ELSE Ok(Through(Counted(o, n), d, n), n)
       [] mode = "CCM" ->
            IF Len(o.buffer) + n > DataLen THEN Fatal(o)
            ELSE IF room < CcmRoom(o, n) THEN TooSmall(o)
            ELSE IF Len(o.buffer) + n < DataLen THEN Ok(Kept(o, d), 0)
            ELSE IF o.given # <<>> THEN Fatal(o)
            ELSE Ok(Through(o, d, DataLen), DataLen)
       [] mode = "GCM" ->
            IF room < GcmRoom(n) THEN TooSmall(o) ELSE Ok(Through(o, d, n), n)
       [] OTHER ->
            IF room < Whole(o, n) THEN TooSmall(o)
            ELSE Ok(Through(o, d, Whole(o, n)), Whole(o, n))

(* encrypt_final.  A CCM message that is short has no tag yet: an error,   *)
(* which does not finalize the operation.                                  *)
EncryptFinal(o, room) ==
  LET n      == Len(o.buffer)
      needed == n + Semi - (n % Semi) + Semi      \* of PKCS7
  IN CASE ~o.inUse -> Refused(o)
       [] o.inUse /\ mode \in Aead ->
            IF room < TagLen THEN TooSmall(o)
            ELSE IF mode = "CCM" /\ o.given = <<>> THEN Refused(o)
            ELSE Done(o, TagLen)
       [] o.inUse /\ mode = "CTR" -> IF AtLimit(o) THEN Fatal(o) ELSE Done(o, 0)
       [] o.inUse /\ mode = "CBC" -> IF n > 0 THEN Fatal(o) ELSE Done(o, 0)
       [] o.inUse /\ mode = "CBC_PAD" ->
            IF room < Block THEN TooSmall(o) ELSE Done(Flushed(o), Block)
       [] o.inUse /\ mode = "PKCS7" ->
            IF n < Semi THEN Fatal(o)
            ELSE IF room < needed THEN TooSmall(o)
            ELSE Done(Flushed(o), needed)
-----------------------------------------------------------------------------
(* decrypt_update.  The tag comes at the end of the ciphertext: GCM holds  *)
(* back the last TagLen bytes, CCM waits for the whole.  OpenSSL holds     *)
(* back a block that may be the last, padded one: when the first block is  *)
(* put together in the buffer the operation fails, as the code expects a   *)
(* block back.                                                             *)
BeforeTag(o, n) == IF Len(o.buffer) + n > TagLen THEN Len(o.buffer) + n - TagLen ELSE 0

Unpadded(o) == IF o.given = <<>> THEN 0 ELSE Len(o.given) - Block
Released(before, after) == Unpadded(after) - Unpadded(before)

(* EVP_CTRL_AEAD_SET_TAG with what is in the buffer.                       *)
Tagged(o)        == [o EXCEPT !.tag = o.buffer, !.buffer = <<>>]
AcceptsAny(o, n) == Ok(Tagged(o), n)
Verified(o, n)   == IF setup.genuine THEN Ok(Tagged(o), n) ELSE Fatal(o)

DecryptUpdate(before, d, room) ==
  LET o == [before EXCEPT !.inUse = TRUE]
      n == Len(d)
      b == Len(o.buffer)
  IN CASE mode = "PKCS7" -> Ok(Kept(o, d), 0)
       [] mode = "CTR" ->
            IF OverLimit(o, n) THEN Fatal(o)
            ELSE IF room < n THEN TooSmall(Counted(o, n))
            ELSE Ok(Through(Counted(o, n), d, n), n)
       [] mode = "CCM" ->
            IF b + n > DataLen + TagLen THEN Fatal(before)
            ELSE IF room < DataLen THEN TooSmall(o)
            ELSE IF b + n < DataLen + TagLen THEN Ok(Kept(o, d), 0)
            ELSE IF o.given # <<>> THEN Fatal(o)
            ELSE Verified(Through(o, d, DataLen), DataLen)
       [] mode = "GCM" ->
            IF room < BeforeTag(o, n) THEN TooSmall(o)
            ELSE Ok(Through(o, d, BeforeTag(o, n)), BeforeTag(o, n))
       [] mode = "CBC_PAD" ->
            LET after == Through(o, d, Whole(o, n))
            IN IF room < Whole(o, n) THEN TooSmall(o)
               ELSE IF b > 0 /\ b + n >= Block /\ o.given = <<>> THEN Fatal(o)
               ELSE Ok(after, Released(o, after))
       [] OTHER ->
            IF room < Whole(o, n) THEN TooSmall(o)
            ELSE Ok(Through(o, d, Whole(o, n)), Whole(o, n))

(* decrypt_final finalizes whatever happens, even when it says that there  *)
(* is too little room.                                                     *)
DecryptFinal(before, room) ==
  LET o == [before EXCEPT !.finalized = TRUE]
      n == Len(o.buffer)
      plain   == n - Semi - setup.pad      \* of PKCS7
      emptied == [o EXCEPT !.buffer = <<>>]
  IN CASE ~o.inUse -> Refused(before)
       [] o.inUse /\ mode = "GCM" ->
            IF n # TagLen THEN Fatal(o) ELSE Verified(o, 0)
       [] o.inUse /\ mode = "CTR" -> IF AtLimit(o) THEN Fatal(o) ELSE Done(o, 0)
       [] o.inUse /\ mode \in {"CBC", "CCM"} -> IF n # 0 THEN Fatal(o) ELSE Done(o, 0)
       [] o.inUse /\ mode = "CBC_PAD" ->
            IF n # 0 \/ o.given = <<>> \/ ~setup.genuine THEN Fatal(o)
            ELSE IF room < Block THEN Starved(o)
            ELSE Done(o, Block - setup.pad)
       [] o.inUse /\ mode = "PKCS7" ->
            IF n < 3 * Semi \/ n % Semi # 0 \/ ~setup.genuine THEN Fatal(emptied)
            ELSE IF room < plain THEN TooSmall(emptied)
            ELSE Done(Flushed(o), plain)
-----------------------------------------------------------------------------
UpdateOf(o, d, room) == IF enc THEN EncryptUpdate(o, d, room) ELSE DecryptUpdate(o, d, room)
FinalOf(o, room)     == IF enc THEN EncryptFinal(o, room) ELSE DecryptFinal(o, room)

(* encrypt and decrypt: the update, then the last step in the room left.   *)
OneStepOf(o, d, room) ==
  LET u == UpdateOf(o, d, room)
      f == FinalOf(u.op, room - u.out)
  IN IF u.rv # "OK" THEN u
     ELSE IF f.rv = "OK" THEN [f EXCEPT !.out = u.out + f.out]
     ELSE f

(* The application has fed n more bytes if the call succeeded; otherwise   *)
(* it can come back with the same ones.                                    *)
Returns(r, call, n, room) ==
  /\ op' = r.op
  /\ fed' = IF r.rv = "OK" THEN fed + n ELSE fed
  /\ out' = out + r.out
  /\ taken' = (taken \/ (r.rv # "OK" /\ <<r.op.given, r.op.buffer>> # <<op.given, op.buffer>>))
  /\ last' = [call |-> call, rv |-> r.rv,
              enough |-> Asked(op, n, call # "update") \in 0..room]
  /\ UNCHANGED setup

(* The choices that matter to a mechanism: for the others, one each.       *)
Setups ==
  {s \in Setup :
     /\ s.mode # "CTR" => s.counter = Unlimited
     /\ s.enc \/ s.mode = "CTR" => s.genuine
     /\ s.pad <= (IF s.enc THEN 1 ELSE IF s.mode = "CBC_PAD" THEN Block
                  ELSE IF s.mode = "PKCS7" THEN Semi ELSE 1)}
-----------------------------------------------------------------------------
Init ==
  /\ setup \in Setups
  /\ op = NewOp
  /\ fed = 0
  /\ out = 0
  /\ taken = FALSE
  /\ last = NoCall

(* C_EncryptInit or C_DecryptInit, when the last operation has finished.   *)
Begin ==
  /\ op.finalized
  /\ setup' \in Setups
  /\ op' = NewOp
  /\ fed' = 0
  /\ out' = 0
  /\ taken' = FALSE
  /\ last' = NoCall

(* The bound on the data, that which was kept by a failed call included.   *)
Bounded(n) == fed + n <= MaxFed /\ Len(op.given) + Len(op.buffer) + n <= MaxFed

(* C_EncryptUpdate or C_DecryptUpdate with n bytes.                        *)
Update(n, room) ==
  /\ ~op.finalized
  /\ Bounded(n)
  /\ Returns(UpdateOf(op, Positions(fed + 1, n), room), "update", n, room)

(* C_EncryptFinal or C_DecryptFinal.                                       *)
Final(room) ==
  /\ ~op.finalized
  /\ Returns(FinalOf(op, room), "final", 0, room)

(* C_Encrypt or C_Decrypt.                                                 *)
OneStep(n, room) ==
  /\ ~op.finalized
  /\ Bounded(n)
  /\ Returns(OneStepOf(op, Positions(fed + 1, n), room), "one", n, room)

(* Any of these calls without an output buffer: a length it cannot tell is *)
(* a fatal error.                                                          *)
Ask(n, fin) ==
  /\ ~op.finalized
  /\ op' = [op EXCEPT !.finalized = (Asked(op, n, fin) = -1)]
  /\ last' = [call |-> "ask", rv |-> IF op'.finalized THEN "Error" ELSE "OK", enough |-> FALSE]
  /\ UNCHANGED <<setup, fed, out, taken>>

Next ==
  \/ Begin
  \/ \E n \in 0..MaxPart, room \in 0..MaxRoom : Update(n, room) \/ OneStep(n, room)
  \/ \E room \in 0..MaxRoom : Final(room)
  \/ \E n \in 0..MaxPart, fin \in BOOLEAN : Ask(n, fin)

Spec == Init /\ [][Next]_vars
-----------------------------------------------------------------------------
(* The buffer holds less than a block, a tag at most, a CCM message, or    *)
(* what PKCS7 was fed, and no counter goes below zero.                     *)
BufferMax ==
  CASE mode = "CTR" -> 0
    [] mode = "CCM" -> DataLen + TagLen - 1
    [] mode = "GCM" -> IF enc THEN 0 ELSE TagLen
    [] mode = "PKCS7" -> Len(op.buffer)
    [] OTHER -> Block - 1

TypeOK ==
  /\ setup \in Setup
  /\ op \in Op
  /\ Len(op.buffer) <= BufferMax
  /\ fed \in 0..MaxFed
  /\ out \in Nat
  /\ taken \in BOOLEAN
  /\ last \in [call : {"none", "update", "final", "one", "ask"},
               rv : {"OK", "TooSmall", "Starved", "Error"}, enough : BOOLEAN]

Finished == op.finalized /\ last.call \in {"final", "one"} /\ last.rv = "OK"

(* However the data is cut into parts, and whatever calls found too little *)
(* room on the way, OpenSSL is given every byte once and in order, and the *)
(* buffer holds those that follow (encrypt_update, decrypt_update).  Not   *)
(* so once a C_Encrypt that ran out of room has kept its data.             *)
StreamInOrder ==
  (~op.finalized \/ Finished) /\ ~taken =>
    op.given \o op.tag \o op.buffer = Positions(1, fed)

(* An operation that ends well has put out all it owes for what it was     *)
(* fed, and has nothing left in the buffer.  A CCM encryption that is fed  *)
(* more than the length it announced loses the rest (encrypt_final).       *)
Owed ==
  CASE mode \in {"CTR", "CBC"} -> fed
    [] mode = "GCM" -> IF enc THEN fed + TagLen ELSE fed - TagLen
    [] mode = "CCM" -> IF enc THEN DataLen + TagLen ELSE IF fed = 0 THEN 0 ELSE DataLen
    [] mode = "CBC_PAD" -> IF enc THEN (fed \div Block) * Block + Block ELSE fed - setup.pad
    [] mode = "PKCS7" -> IF enc THEN (fed \div Semi) * Semi + 2 * Semi ELSE fed - Semi - setup.pad

EndPaysAll ==
  Finished /\ ~taken /\ ~(mode = "CCM" /\ enc /\ fed > DataLen) =>
    out = Owed /\ op.buffer = <<>>

(* A decryption with a tag that ends well has given OpenSSL all but the    *)
(* last TagLen bytes as data and those as the tag, and they were genuine   *)
(* (decrypt_final).  A CCM decryption fed nothing ends well too.           *)
AcceptedIsAuthentic ==
  Finished /\ ~enc /\ mode \in Aead /\ fed > 0 =>
    /\ setup.genuine
    /\ op.given = Positions(1, fed - TagLen)
    /\ op.tag = Positions(fed - TagLen + 1, TagLen)

(* The counter of CTR does not wrap, whatever the parts ("so that the      *)
(* counter space does *not* wrap", init_params).  Excepted are counters    *)
(* with two to seven bits beside whole octets: there iv & part loses bits, *)
(* and the counter may go on into the nonce.                               *)
CounterDoesNotWrap ==
  mode = "CTR" /\ limited /\ setup.counter.left <= 1 =>
    setup.counter.start + Blocks(Len(op.given)) <= Values(setup.counter)

(* A call with the room its own length query asks for is not refused for   *)
(* want of room, under whatever error (encryption_len, decryption_len).    *)
(* Two queries are excepted, which ask for less than the call needs: for a *)
(* part of a CCM ciphertext, and for the end of a CBC_PAD ciphertext that  *)
(* is decrypted in parts, where OpenSSL wants a block of room.             *)
Underasked ==
  /\ ~enc
  /\ \/ mode = "CCM" /\ last.call = "update"
     \/ mode = "CBC_PAD" /\ (last.call = "final" \/ fed > 0)

AskedRoomSuffices ==
  last.enough /\ ~Underasked => last.rv \notin {"TooSmall", "Starved"}

(* A call that finds too little room has changed nothing, so it can be     *)
(* made again ("the only, non-fatal error"): with ECB, CBC and GCM, and    *)
(* with CBC_PAD and CCM in parts.  Not the end of a CBC_PAD ciphertext,    *)
(* which too little room ends under another error, so that nothing can be  *)
(* made again.                                                             *)
CanBeMadeAgain ==
  mode \in {"CBC", "GCM"} \/ (mode \in {"CBC_PAD", "CCM"} /\ last'.call # "one")

TooSmallChangesNothing ==
  [][last'.rv = "TooSmall" /\ CanBeMadeAgain => op' = [op EXCEPT !.inUse = TRUE]]_vars
=============================================================================
