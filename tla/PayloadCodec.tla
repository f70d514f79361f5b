----------------------------- MODULE PayloadCodec -----------------------------
(***************************************************************************)
(* The binary payload of a typed transaction: an encoder writes the fields *)
(* of the transaction's schema one behind the other, with no mark between  *)
(* them, and a decoder that knows the schema reads them back.  A byte has  *)
(* ByteBase values (256 in the code), so that the widths are the code's    *)
(* and the limits they set are near.  A number is what the user typed: its *)
(* integer part and whether that is all of it.  A text is the bytes        *)
(* TextEncoder makes of it, which TextDecoder gives back unless they begin *)
(* with a byte order mark; it drops that, which is left out.  FLOAT,       *)
(* DOUBLE and BYTES are in no schema and left out too.                     *)
(***************************************************************************)
EXTENDS Integers, Sequences, FiniteSets

CONSTANTS
  ByteBase,   \* values of a byte
  Numbers,    \* integers typed into number fields
  Texts,      \* byte sequences typed into text fields
  Undefined   \* what reading one byte past the end gives

ASSUME Base == ByteBase \in Nat /\ ByteBase % 2 = 0 /\ ByteBase > 0
ASSUME Typed ==
  /\ Numbers \subseteq Int /\ Undefined \notin Int
  /\ Texts \subseteq Seq(0..(ByteBase - 1))

VARIABLES
  kind,       \* the transaction type
  phase,      \* "writing", "reading", "done", or what has thrown
  given,      \* the values of the fields written so far
  starts,     \* where in the buffer each of them begins
  buffer,     \* the encoder's bytes, then the decoder's
  offset,     \* the decoder's
  result      \* the values read so far

codecVars == <<kind, phase, given, starts, buffer, offset, result>>

Field(name, type) == [name |-> name, type |-> type]
Schemas ==
  [TRANSFER |-> <<Field("amount", "UINT64"), Field("memo", "STRING")>>,
   CONTRACT_CALL |-> <<Field("contractAddress", "ADDRESS"),
                       Field("functionName", "STRING"), Field("gasLimit", "UINT32")>>,
   TOKEN_SWAP |-> <<Field("tokenFromAddress", "ADDRESS"),
                    Field("tokenToAddress", "ADDRESS"),
                    Field("amountIn", "UINT64"), Field("minAmountOut", "UINT64")>>,
   STAKE |-> <<Field("stakeAmount", "UINT64"), Field("lockPeriod", "UINT32"),
               Field("validatorAddress", "ADDRESS")>>,
   USER_PROFILE |-> <<Field("nickname", "STRING"), Field("firstName", "STRING"),
                      Field("lastName", "STRING"), Field("age", "UINT8"),
                      Field("isVerified", "BOOLEAN")>>]
Kinds == DOMAIN Schemas
Schema == Schemas[kind]

NumberTypes == {"UINT8", "UINT16", "UINT32", "UINT64"}
Width == [UINT8 |-> 1, UINT16 |-> 2, UINT32 |-> 4, UINT64 |-> 8, ADDRESS |-> 20]

\* What k bytes can hold.
Power[k \in Nat] == IF k = 0 THEN 1 ELSE ByteBase * Power[k - 1]
Values(type) == Power[Width[type]]

Inputs(type) ==
  CASE type \in NumberTypes -> [int : Numbers, whole : BOOLEAN]
    [] type = "BOOLEAN" -> BOOLEAN
    [] OTHER -> Texts

(* --- The encoder -------------------------------------------------------- *)

\* The low bytes of n, the highest first; a shift keeps a negative n's sign.
WriteUint(n, w) == [i \in 1..w |-> (n \div Power[w - i]) % ByteBase]

WriteString_Unprefixed(s) == s
WriteString(s) == WriteUint(Len(s), Width["UINT16"]) \o s

\* Twenty bytes, whatever was typed: missing ones are zero, others cut off.
WriteAddress(a) ==
  [i \in 1..Width["ADDRESS"] |-> IF i <= Len(a) THEN a[i] ELSE 0]

WriteBoolean(b) == IF b THEN <<1>> ELSE <<0>>

Written(type, v) ==
  CASE type \in NumberTypes -> WriteUint(v.int, Width[type])
    [] type = "STRING"  -> WriteString(v)
    [] type = "ADDRESS" -> WriteAddress(v)
    [] type = "BOOLEAN" -> WriteBoolean(v)

\* BigInt refuses a fraction; parseInt cuts it off.
Throws(type, v) == type = "UINT64" /\ ~v.whole

(* --- The decoder -------------------------------------------------------- *)

Read(v, next) == [value |-> v, next |-> next, ok |-> TRUE]
Threw(next) == [value |-> Undefined, next |-> next, ok |-> FALSE]

ByteAt(b, i) == IF i <= Len(b) THEN b[i] ELSE 0
Slice_Short(b, o, n) ==
  SubSeq(b, o + 1, IF o + n <= Len(b) THEN o + n - 1 ELSE Len(b))
Slice(b, o, n) ==
  SubSeq(b, o + 1, IF o + n <= Len(b) THEN o + n ELSE Len(b))

\* w bytes as a number, missing ones as zero.
Uint(b, o, w) ==
  LET f[i \in 0..w] == IF i = 0 THEN 0 ELSE f[i - 1] * ByteBase + ByteAt(b, o + i)
  IN  f[w]

ReadUint8(b, o) == Read(IF o < Len(b) THEN b[o + 1] ELSE Undefined, o + 1)
ReadUint16(b, o) == Read(Uint(b, o, 2), o + 2)

\* The operators << and | work on signed 32-bit integers.
Signed(n) == IF 2 * n >= Values("UINT32") THEN n - Values("UINT32") ELSE n
ReadUint32(b, o) == Read(Signed(Uint(b, o, 4)), o + 4)

\* BigInt(undefined) throws.
ReadUint64(b, o) ==
  IF o + 8 <= Len(b) THEN Read(Uint(b, o, 8), o + 8) ELSE Threw(o)

ReadString(b, o) ==
  LET length == ReadUint16(b, o)
  IN  Read(Slice(b, length.next, length.value), length.next + length.value)

ReadBoolean(b, o) == Read(ReadUint8(b, o).value # 0, o + 1)
ReadAddress(b, o) == Read(Slice(b, o, 20), o + 20)

ReadField(type, b, o) ==
  CASE type = "UINT8"   -> ReadUint8(b, o)
    [] type = "UINT16"  -> ReadUint16(b, o)
    [] type = "UINT32"  -> ReadUint32(b, o)
    [] type = "UINT64"  -> ReadUint64(b, o)
    [] type = "STRING"  -> ReadString(b, o)
    [] type = "BOOLEAN" -> ReadBoolean(b, o)
    [] type = "ADDRESS" -> ReadAddress(b, o)

\* Fields of these types read one after the other from the buffer's start.
Reading(types, b) ==
  LET r[i \in 0..Len(types)] ==
        IF i = 0 THEN Read(Undefined, 0)
        ELSE IF ~r[i - 1].ok THEN Threw(r[i - 1].next)
        ELSE ReadField(types[i], b, r[i - 1].next)
  IN  r

Types(schema) == [i \in DOMAIN schema |-> schema[i].type]

\* transactionUtils' decoder, which has no types and goes by names; its
\* comparison of names is case-sensitive.
Guess(name) == IF name \in {"amount", "amountIn"} THEN "UINT64" ELSE "STRING"
GuessedTypes(schema) == [i \in DOMAIN schema |-> Guess(schema[i].name)]
LegacyReading_Narrow(k, b) ==
  Reading([i \in DOMAIN Schemas[k] |->
             IF Guess(Schemas[k][i].name) = "UINT64" THEN "UINT32" ELSE "STRING"], b)
LegacyReading(k, b) == Reading(GuessedTypes(Schemas[k]), b)

(* --- createTransaction: encode, then decode ----------------------------- *)

CodecInit ==
  /\ kind \in Kinds
  /\ phase = "writing"
  /\ given = <<>> /\ starts = <<>> /\ buffer = <<>>
  /\ offset = 0 /\ result = <<>>

WriteField ==
  /\ phase = "writing" /\ Len(given) < Len(Schema)
  /\ LET type == Schema[Len(given) + 1].type IN
     \E v \in Inputs(type) :
       /\ given' = Append(given, v)
       /\ starts' = Append(starts, Len(buffer))
       /\ IF Throws(type, v)
            THEN phase' = "encoder threw" /\ UNCHANGED buffer
            ELSE buffer' = buffer \o Written(type, v) /\ UNCHANGED phase
  /\ UNCHANGED <<kind, offset, result>>

\* toHexString, and the decoder's constructor.
HandOver ==
  /\ phase = "writing" /\ Len(given) = Len(Schema)
  /\ phase' = "reading"
  /\ offset' = 0
  /\ UNCHANGED <<kind, given, starts, buffer, result>>

DecodeField ==
  /\ phase = "reading" /\ Len(result) < Len(Schema)
  /\ LET r == ReadField(Schema[Len(result) + 1].type, buffer, offset) IN
     /\ offset' = r.next
     /\ IF r.ok THEN result' = Append(result, r.value) /\ UNCHANGED phase
                ELSE phase' = "decoder threw" /\ UNCHANGED result
  /\ UNCHANGED <<kind, given, starts, buffer>>

Return ==
  /\ phase = "reading" /\ Len(result) = Len(Schema)
  /\ phase' = "done"
  /\ UNCHANGED <<kind, given, starts, buffer, offset, result>>

CodecNext == WriteField \/ HandOver \/ DecodeField \/ Return

CodecSpec == CodecInit /\ [][CodecNext]_codecVars

(* --- Properties --------------------------------------------------------- *)

\* A string whose length its two-byte prefix holds.
Fits(i) == Schema[i].type = "STRING" => Len(given[i]) < Values("UINT16")
AllFit == \A i \in DOMAIN given : Fits(i)

\* As long as every string's length fits its prefix, the decoder is where the
\* encoder was at every field, ends at the buffer's end and never throws,
\* whatever the numbers (writeString, readString).
InStep ==
  AllFit =>
    /\ phase # "decoder threw"
    /\ phase = "reading" /\ Len(result) < Len(Schema) =>
         offset = starts[Len(result) + 1]
    /\ phase = "done" => offset = Len(buffer)

\* A value the code can keep: a whole number in the type's range - of UINT32
\* the half below the sign - or an address of twenty bytes.
Kept(i) ==
  LET type == Schema[i].type IN
  CASE type \in NumberTypes ->
         given[i].whole /\ given[i].int \in 0..Values(type) - 1
           /\ (type = "UINT32" => 2 * given[i].int < Values(type))
    [] type = "ADDRESS" -> Len(given[i]) = Width[type]
    [] OTHER -> TRUE

\* What a reader of field i is to see: a number typed in full is its integer.
Sent(i) == IF Schema[i].type \in NumberTypes THEN given[i].int ELSE given[i]

\* What was given is what is read, field by field, even next to a field that
\* was cut (serializePayload, deserializePayload).
RoundTrip ==
  AllFit => \A i \in DOMAIN result : Kept(i) => result[i] = Sent(i)

\* The encoder has written its last field; where field i ends.
Complete == phase \notin {"writing", "encoder threw"}
End(i) == IF i < Len(starts) THEN starts[i + 1] ELSE Len(buffer)

\* The names of the first n fields tell their types; that of the field behind
\* them is the first that does not.  All such fields are taken for texts.
Told(n) == \A j \in 1..n : Guess(Schema[j].name) = Schema[j].type
Misread(i) == Told(i - 1) /\ ~Told(i)

\* The length of text that a misread field's first two bytes announce, from what
\* was typed: a UINT64's highest bytes, the start of an address, and a UINT8
\* with the byte of the BOOLEAN behind it.
Announced(i) ==
  CASE Schema[i].type = "UINT64" -> (given[i].int \div Power[6]) % Power[2]
    [] Schema[i].type = "ADDRESS" ->
         IF given[i] = <<>> THEN 0
         ELSE ByteBase * given[i][1] + (IF Len(given[i]) = 1 THEN 0 ELSE given[i][2])
    [] Schema[i].type = "UINT8" ->
         ByteBase * (given[i].int % ByteBase) + (IF given[i + 1] THEN 1 ELSE 0)

\* What the explorer's decoder without types makes of what the encoder wrote
\* (deserializeContractPayload).  As far as the names tell the types it gives
\* what was typed and stands where the next field begins.  The first wrong guess
\* passes without an error and moves it by what the field's own bytes announce,
\* so that it meets the next field only by luck of the values.  A profile's age
\* and verified mark are lost whatever they are.  Nobody is told: only a swap's
\* amounts, read from the wrong place, can throw at all.
LegacyReads ==
  Complete /\ AllFit =>
    LET r == LegacyReading(kind, buffer) IN
    /\ \A i \in DOMAIN given :
         /\ Told(i) => r[i].ok /\ r[i].next = End(i) /\ (Kept(i) => r[i].value = Sent(i))
         /\ Misread(i) => r[i].ok /\ r[i].next = starts[i] + 2 + Announced(i)
         /\ r[i].ok \/ (kind = "TOKEN_SWAP" /\ i >= 3)
    /\ kind = "USER_PROFILE" => r[4].value = <<>> /\ r[5].value = <<>>
===============================================================================
