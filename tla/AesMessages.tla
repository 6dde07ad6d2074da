---------------------------- MODULE AesMessages -----------------------------
(***************************************************************************)
(* Message based encryption and decryption with AES GCM and CCM: one       *)
(* operation, begun by C_MessageEncryptInit or C_MessageDecryptInit, takes *)
(* one message after another, each with an IV and a tag of its own, in one *)
(* call (C_EncryptMessage) or in parts (C_EncryptMessageBegin and ...Next) *)
(* -- fns/encryption.rs and the MsgEncryption and MsgDecryption of         *)
(* AesOperation in ossl/aes.rs.  The lock of the session makes every call  *)
(* one step.                                                               *)
(*                                                                         *)
(* A byte of a message is a pair of the message's number and its position. *)
(* An IV is a number, the fixed bits its upper ones: `values' is what the  *)
(* generated bits tell apart.  CKG_GENERATE and CKG_GENERATE_COUNTER are   *)
(* one thing; CKG_GENERATE_RANDOM is left out.  The generator, the number  *)
(* of fixed bits and the IV are parameters of each message, in a block of  *)
(* the application's into which the token writes the IV it generated: the  *)
(* next message finds that there, or what the application wrote over it.   *)
(*                                                                         *)
(* FromParams, LosesBuffer and KeptFirst are the definitions after them    *)
(* with a plausible mistake; nothing uses them.                            *)
(***************************************************************************)
EXTENDS Integers, Sequences, FiniteSets

CONSTANTS
  Modes,         \* mechanisms with CKF_MESSAGE_ENCRYPT: "GCM", "CCM"
  IvValues,      \* how many IVs there are
  Spans,         \* and how many the generated bits of a message may tell apart
  Bases,         \* the IVs that an application writes into its block
  ExclusiveOr(_, _),   \* the exclusive or of two of them
  MaxLen,        \* bounds: the bytes of a message,
  MaxMessages,   \* the messages of an operation,
  None           \* no operation; of an IV: not generated

ASSUME AesMessagesAssumption ==
  /\ Modes \subseteq {"GCM", "CCM"}
  /\ IvValues \in Nat /\ Bases \subseteq 0..(IvValues - 1)
  /\ Spans \subseteq 1..IvValues /\ \A v \in Spans : IvValues % v = 0
  /\ MaxLen \in Nat
  /\ MaxMessages \in Nat

(* The exclusive or with one IV is one-to-one.                             *)
ASSUME XorAssumption ==
  \A a, b \in 0..(IvValues - 1) :
    /\ ExclusiveOr(a, b) \in 0..(IvValues - 1)
    /\ \A c \in 0..(IvValues - 1) : ExclusiveOr(a, b) = ExclusiveOr(a, c) => b = c

VARIABLES
  setup,         \* what the Init call and the parameters of messages fix
  op,            \* AesOperation
  pIv,           \* the IV in the application's block of parameters
  msg,           \* the number of the message begun last
  fed,           \* how many bytes of it calls have taken
  text,          \* what OpenSSL has been given since it was set up
  clean,         \* history: the buffer was empty when the message began
  sealed,        \* the messages that got their tag, or whose tag was right
  last           \* the last call and what became of it

vars == <<setup, op, pIv, msg, fed, text, clean, sealed, last>>

Setup == [mode : Modes, enc : BOOLEAN]
Bytes == (1..MaxMessages) \X (1..MaxLen)
Ivs   == 0..(IvValues - 1)

(* AesIvData with a generator: the IV passed (base) and what became of it  *)
(* (buf), the counter it was made of and the limit of that.                *)
Params == [generator : {"Counter", "Xor"}, values : Spans, base : Ivs]
Iv     == [generator : {"Counter", "Xor"}, values : Spans, base : Ivs,
           buf : Ivs, number : Nat, limit : Nat]

Op == [finalized : BOOLEAN,
       inUse     : BOOLEAN,
       buffer    : Seq(Bytes),
       datalen   : 0..MaxLen,
       counter   : Nat,
       maxcount  : Nat,
       ctx       : {"none", "ready", "spent"},
       iv        : Iv \cup {None}]

NewOp == [finalized |-> FALSE, inUse |-> FALSE, buffer |-> <<>>, datalen |-> 0,
          counter |-> 0, maxcount |-> 0, ctx |-> "none", iv |-> None]

Units(m, first, n) == [i \in 1..n |-> <<m, first + i - 1>>]
Part(n) == Units(msg, fed + 1, n)

(* get_operation, and busy.                                                *)
Live == op # None /\ ~op.finalized
Busy == Live /\ op.inUse

Fatal(o) == [o EXCEPT !.finalized = TRUE]

(* init_msg_params takes the IV and the lengths of the new message and     *)
(* keeps the counter of the operation.                                     *)
Passed(p) ==
  IF p = None THEN None
  ELSE [generator |-> p.generator, values |-> p.values, base |-> p.base,
        buf |-> p.base, number |-> 0, limit |-> 0]
FromParams(o, len, p) == [o EXCEPT !.datalen = len, !.iv = Passed(p), !.counter = 0]
ForMessage(o, len, p) == [o EXCEPT !.datalen = len, !.iv = Passed(p)]

(* generate_iv: the counter is not to reach what the generated bits tell   *)
(* apart, which is taken from the parameters while the counter is 0.       *)
Limit(o)     == IF o.counter = 0 THEN o.iv.values ELSE o.maxcount
Exhausted(o) == o.iv # None /\ o.counter >= Limit(o)

Generated(i, count) ==
  IF i.generator = "Counter" THEN i.base - (i.base % i.values) + (count % i.values)
                             ELSE ExclusiveOr(i.base, count % i.values)
WithIv(o) ==
  LET i == o.iv IN
  IF i = None THEN o
  ELSE [o EXCEPT !.iv = [generator |-> i.generator, values |-> i.values, base |-> i.base,
                         buf |-> Generated(i, o.counter), number |-> o.counter,
                         limit |-> Limit(o)],
                 !.maxcount = Limit(o),
                 !.counter = o.counter + 1]

(* msg_encrypt_new.  When there is no IV left the message is begun all the *)
(* same, with the OpenSSL context of the message before.                   *)
Opened(o, len, p) == [ForMessage(o, len, p) EXCEPT !.inUse = TRUE]
Begun(o, len, p) ==
  LET b == Opened(o, len, p)
  IN IF Exhausted(b) THEN b ELSE [WithIv(b) EXCEPT !.ctx = "ready"]

(* The IV generated is copied to where the one passed came from.           *)
Block(b) == IF b.iv = None THEN pIv ELSE b.iv.buf

(* The n bytes of a part, or of the end of a CCM message, fit.             *)
Fits(o, n) == Len(o.buffer) + n <= o.datalen
Ends(o, n)    == Len(o.buffer) + n = o.datalen
-----------------------------------------------------------------------------
(* What became of a call: the operation, the result, the bytes it fed and  *)
(* those given to OpenSSL.                                                 *)
Ok(o, n, given) == [op |-> o, rv |-> "OK", fed |-> n, given |-> given]
TooSmall(o)     == [op |-> o, rv |-> "TooSmall", fed |-> 0, given |-> <<>>]
Error(o)        == [op |-> Fatal(o), rv |-> "Error", fed |-> 0, given |-> <<>>]

(* msg_encrypt_next, msg_decrypt_next.                                     *)
NextPart(o, part, room) ==
  LET n == Len(part) IN
  IF setup.mode = "CCM"
    THEN IF Fits(o, n) THEN Ok([o EXCEPT !.buffer = @ \o part], n, <<>>) ELSE Error(o)
    ELSE IF room < n THEN TooSmall(o)
         ELSE IF o.ctx = "none" \/ (n > 0 /\ o.ctx = "spent") THEN Error(o)
         ELSE Ok(o, n, part)

(* msg_encrypt_final, msg_decrypt_final.  A CCM message goes to OpenSSL    *)
(* now, from the buffer when some of it has been fed before; the buffer    *)
(* stays as it is.                                                         *)
LosesBuffer(o, part) == [o EXCEPT !.buffer = part]
Gathered(o, part) ==
  IF Len(part) < o.datalen THEN [o EXCEPT !.buffer = @ \o part] ELSE o

KeptFirst(o, part) == TooSmall(Gathered(o, part))
NoRoom(o, part)    == TooSmall(o)

Ended(o) == [o EXCEPT !.inUse = FALSE, !.ctx = "spent"]

LastPart(o, part, room, genuine) ==
  LET n == Len(part)
      g == NextPart(o, part, room)
      c == Gathered(o, part)
      bad == o.ctx # "ready" \/ ~genuine
  IN IF setup.mode = "GCM"
       THEN IF g.rv # "OK" THEN g
            ELSE IF bad THEN Error(o)
            ELSE Ok(Ended(o), n, part)
       ELSE IF ~Ends(o, n) THEN Error(o)
            ELSE IF room < o.datalen THEN NoRoom(o, part)
            ELSE IF bad THEN Error(c)
            ELSE Ok(Ended(c), n, IF n < o.datalen THEN c.buffer ELSE part)

Seal(m, n, t, iv, c) == [msg |-> m, len |-> n, text |-> t, iv |-> iv, clean |-> c]

Returns(call, r) ==
  /\ op' = r.op
  /\ last' = [call |-> call, rv |-> r.rv]
  /\ UNCHANGED setup
-----------------------------------------------------------------------------
Init ==
  /\ setup \in Setup
  /\ op = None
  /\ pIv \in Bases
  /\ msg = 0
  /\ fed = 0
  /\ text = <<>>
  /\ clean = TRUE
  /\ sealed = {}
  /\ last = [call |-> "none", rv |-> "OK"]

(* C_MessageEncryptInit, C_MessageDecryptInit: a new operation when there  *)
(* is none, or it has finished.                                            *)
MessageInit ==
  /\ ~Live
  /\ setup' \in Setup
  /\ op' = NewOp
  /\ msg' = 0
  /\ fed' = 0
  /\ text' = <<>>
  /\ clean' = TRUE
  /\ sealed' = {}
  /\ last' = [call |-> "init", rv |-> "OK"]
  /\ UNCHANGED pIv

(* The IV of the next message: the application's own, or one to generate   *)
(* from what the block holds or the application writes into it.            *)
Asked == {None} \cup {p \in Params : setup.enc /\ p.base \in {pIv} \cup Bases}

(* C_EncryptMessageBegin, C_DecryptMessageBegin.                           *)
Begin(len, p) ==
  /\ Live /\ ~Busy
  /\ msg < MaxMessages
  /\ LET b == Begun(op, len, p)
         failed == Exhausted(Opened(op, len, p))
     IN /\ Returns("begin", [op |-> b, rv |-> IF failed THEN "Error" ELSE "OK"])
        /\ pIv' = Block(b)
        /\ text' = IF failed THEN text ELSE <<>>
  /\ msg' = msg + 1
  /\ fed' = 0
  /\ clean' = (op.buffer = <<>>)
  /\ UNCHANGED sealed

(* C_EncryptMessageNext without CKF_END_OF_MESSAGE, C_DecryptMessageNext.  *)
Next1(n, room) ==
  /\ Busy
  /\ fed + n <= MaxLen
  /\ LET r == NextPart(op, Part(n), room)
     IN /\ Returns("next", r)
        /\ fed' = fed + r.fed
        /\ text' = text \o r.given
  /\ UNCHANGED <<pIv, msg, clean, sealed>>

(* The same with CKF_END_OF_MESSAGE.                                       *)
End(n, room, genuine) ==
  /\ Busy
  /\ fed + n <= MaxLen
  /\ LET r == LastPart(op, Part(n), room, genuine)
     IN /\ Returns("end", r)
        /\ fed' = fed + r.fed
        /\ text' = text \o r.given
        /\ sealed' = IF r.rv = "OK" THEN sealed \cup {Seal(msg, fed', text', op.iv, clean)} ELSE sealed
  /\ UNCHANGED <<pIv, msg, clean>>

(* C_EncryptMessage, C_DecryptMessage with n bytes.                        *)
OneStep(len, p, n, room, genuine) ==
  /\ Live /\ ~Busy
  /\ msg < MaxMessages
  /\ msg' = msg + 1
  /\ clean' = (op.buffer = <<>>)
  /\ LET b == Begun(op, len, p)
         r == LastPart(b, Units(msg + 1, 1, n), room, genuine)
     IN /\ pIv' = Block(b)
        /\ IF Exhausted(Opened(op, len, p))
             THEN /\ Returns("one", [op |-> b, rv |-> "Error"])
                  /\ fed' = 0
                  /\ UNCHANGED <<text, sealed>>
             ELSE /\ Returns("one", r)
                  /\ fed' = r.fed
                  /\ text' = r.given
                  /\ sealed' = IF r.rv = "OK"
                                 THEN sealed \cup {Seal(msg', fed', text', b.iv, clean')}
                                 ELSE sealed

(* A part whose parameters are not those of the message (check_msg_params).*)
Mismatch ==
  /\ Busy
  /\ Returns("next", [op |-> Fatal(op), rv |-> "Error"])
  /\ UNCHANGED <<pIv, msg, fed, text, clean, sealed>>

(* C_MessageEncryptFinal, C_MessageDecryptFinal: refused during a message. *)
Finalize ==
  /\ Live /\ ~Busy
  /\ Returns("final", [op |-> Fatal(op), rv |-> "OK"])
  /\ UNCHANGED <<pIv, msg, fed, text, clean, sealed>>

(* The Init calls without a mechanism, C_SessionCancel.                    *)
Cancel ==
  /\ op # None
  /\ Returns("cancel", [op |-> None, rv |-> "OK"])
  /\ UNCHANGED <<pIv, msg, fed, text, clean, sealed>>

Next ==
  \/ MessageInit \/ Mismatch \/ Finalize \/ Cancel
  \/ \E len \in 1..MaxLen, p \in Asked : Begin(len, p)
  \/ \E n, room \in 0..MaxLen : Next1(n, room)
  \/ \E n, room \in 0..MaxLen, genuine \in BOOLEAN :
       /\ setup.enc => genuine
       /\ \/ End(n, room, genuine)
          \/ \E len \in 1..MaxLen, p \in Asked : OneStep(len, p, n, room, genuine)

Spec == Init /\ [][Next]_vars
-----------------------------------------------------------------------------
(* The buffer never holds more than the longest message.                   *)
TypeOK ==
  /\ setup \in Setup
  /\ op \in Op \cup {None}
  /\ op # None => Len(op.buffer) <= MaxLen
  /\ pIv \in Ivs
  /\ msg \in 0..MaxMessages
  /\ fed \in 0..MaxLen
  /\ text \in Seq(Bytes)
  /\ clean \in BOOLEAN
  /\ \A s \in sealed : s.msg \in 1..msg

(* No two messages of an operation for which the application asked alike   *)
(* are encrypted with one IV, though a message may be begun and not ended, *)
(* fail, find the counter at its limit, or come between them with other    *)
(* parameters (generate_iv, init_msg_params, msg_encrypt_new).  Alike is:  *)
(* with one generator, as many fixed bits, and the same of them.  A block  *)
(* used again is alike for CKG_GENERATE_COUNTER, which keeps the fixed     *)
(* bits.  CKG_GENERATE_COUNTER_XOR must be passed the base again: from the *)
(* IV that the token left there, the fourth message gets that of the       *)
(* first.  And the limit of the counter must be theirs: the one taken from *)
(* a first message with fewer fixed bits is too high.                      *)
Alike(i, j) ==
  /\ i # None /\ j # None
  /\ i.generator = j.generator /\ i.values = j.values
  /\ IF i.generator = "Xor" THEN i.base = j.base
     ELSE i.base - (i.base % i.values) = j.base - (j.base % j.values)
  /\ i.limit <= i.values /\ j.limit <= j.values
IVsDiffer ==
  \A s, t \in sealed : Alike(s.iv, t.iv) /\ s.iv.buf = t.iv.buf => s = t

(* A GCM message is all of its own bytes, in order, and of no other        *)
(* message.  So is a CCM message that began with an empty buffer: after    *)
(* one that came in parts, msg_encrypt_final leaves them in the buffer,    *)
(* where they go before the next message or are taken for it.              *)
EachMessageItsOwn ==
  \A s \in sealed :
    setup.mode = "GCM" \/ s.clean => s.text = Units(s.msg, 1, s.len)

(* A part, or the end of a message, that finds too little room has changed *)
(* nothing and can be fed again ("the only non-fatal error").              *)
TooSmallChangesNothing ==
  [][last'.rv = "TooSmall" /\ last'.call \in {"next", "end"} => UNCHANGED <<op, fed, text>>]_vars
=============================================================================
