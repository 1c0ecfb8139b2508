-------------------------------- MODULE Inputs --------------------------------
(***************************************************************************)
(* The pure algorithms under the kernel, each against a reference: the      *)
(* LEB128 readers and the order of sections of the WASM parser              *)
(* (m3_core.c, m3_parse.c), the signatures of host functions (m3_bind.c),   *)
(* 64-bit division on i386 (lib/divdi3.c), and the streaming of SHA-256      *)
(* (lib/sha256.c).  Each state is one input; nothing moves.  The widths are  *)
(* constants, so that all inputs of a small width are tried.                 *)
(***************************************************************************)
EXTENDS Integers, Sequences, SequencesExt, FiniteSets, FiniteSetsExt

CONSTANTS GroupBits,    \* value bits of a LEB128 byte (7)
          MaxBits,      \* i_maxNumBits: bits of the value read (32)
          WordBits,     \* bits of a machine word (64)
          BlockLen,     \* bytes of a hash block (64)
          LenLen,       \* bytes of the length field (8)
          MaxData,      \* bound: bytes hashed
          MaxSig        \* bound: characters of a signature

ASSUME InputsAssumption ==
  /\ {GroupBits, MaxBits, WordBits, BlockLen, LenLen, MaxData, MaxSig} \subseteq Nat \ {0}
  /\ MaxBits < WordBits /\ LenLen < BlockLen

VARIABLE probe
inputVars == <<probe>>

(* ---- LEB128 ---- *)

Bit(n, i) == (n \div 2^i) % 2
Group == 2^GroupBits              \* the continuation bit has this value
Word == 2^WordBits

\* One turn of the loop of ReadLebUnsigned / ReadLebSigned.
LebByte(s, byte) ==
  IF s.result # "underrun" THEN s
  ELSE LET v == s.value + (byte % Group) * 2^s.shift
       IN [value |-> v % Word, shift |-> s.shift + GroupBits, used |-> s.used + 1,
           last |-> byte,
           result |-> IF byte < Group THEN "none"
                      ELSE IF s.shift + GroupBits >= MaxBits THEN "overflow" ELSE "underrun"]

ReadLebUnsigned(bytes) ==
  FoldLeft(LebByte, [value |-> 0, shift |-> 0, used |-> 0, last |-> 0, result |-> "underrun"], bytes)

\* The sign extension, and the word read as a signed number.
ReadLebSigned(bytes) ==
  LET s == ReadLebUnsigned(bytes)
      v == IF s.result = "none" /\ Bit(s.last, GroupBits - 1) = 1 /\ s.shift < WordBits
           THEN s.value + (Word - 2^s.shift) ELSE s.value
  IN [s EXCEPT !.value = IF v >= Word \div 2 THEN v - Word ELSE v]

\* The encoding of v in n bytes (two's complement when v is negative), continuation bits set.
Encoded(v, n) ==
  [i \in 1 .. n |-> ((v \div 2^(GroupBits * (i - 1))) % Group) + (IF i < n THEN Group ELSE 0)]
LebLens == 1 .. (MaxBits + GroupBits - 1) \div GroupBits

\* Every value comes back from each of its encodings, whatever bytes follow, and the reader
\* stops behind it; an encoding cut short is an underrun, one that goes on too long an error.
LebRight ==
  probe.kind = "leb" =>
    LET bytes == Encoded(probe.v, probe.n)
        rest  == bytes \o <<probe.next>>
    IN /\ (probe.v >= 0 /\ probe.v < 2^(GroupBits * probe.n)) =>
            /\ ReadLebUnsigned(rest).value = probe.v
            /\ ReadLebUnsigned(rest).used = probe.n
            /\ ReadLebUnsigned(rest).result = "none"
            /\ ReadLebUnsigned(Front(bytes)).result = "underrun"
       /\ (probe.v < 2^(GroupBits * probe.n - 1) /\ probe.v >= -(2^(GroupBits * probe.n - 1))) =>
            /\ ReadLebSigned(rest).value = probe.v
            /\ ReadLebSigned(rest).used = probe.n
       /\ ReadLebUnsigned([i \in 1 .. Max(LebLens) + 1 |-> Group]).result = "overflow"

LebProbes == [kind : {"leb"}, v : -(2^(MaxBits - 1)) .. 2^MaxBits - 1, n : LebLens, next : {0, Group}]

(* ---- division ---- *)

PowersOf2 == {2^i : i \in 0 .. WordBits \div 2 - 1}

\* __udivdi3 and __umoddi3: shift for a small power of two, else binary long division.
LongDivide(n, d) ==
  FoldRight(LAMBDA i, s : LET r == (2 * s.r + Bit(n, i)) % Word
                          IN IF r >= d THEN [r |-> r - d, q |-> s.q + 2^i] ELSE [r |-> r, q |-> s.q],
            [i \in 1 .. WordBits |-> i - 1], [r |-> 0, q |-> 0])
UDiv(n, d) == IF d = 0 THEN 0 ELSE IF d \in PowersOf2 THEN n \div d ELSE LongDivide(n, d).q
UMod(n, d) == IF d = 0 THEN 0 ELSE IF d \in PowersOf2 THEN n % d ELSE LongDivide(n, d).r

\* __udivmoddi4 computes the remainder from the quotient.
UDivMod(n, d) == <<UDiv(n, d), (n - UDiv(n, d) * d) % Word>>

Wrapped(v) == IF v % Word >= Word \div 2 THEN (v % Word) - Word ELSE v % Word
Magnitude(v) == (IF v < 0 THEN -v ELSE v) % Word

\* __divdi3 and __moddi3: the magnitudes, and the signs put back.
SDiv(n, d) ==
  LET q == UDiv(Magnitude(n), Magnitude(d)) IN Wrapped(IF (n < 0) # (d < 0) THEN -q ELSE q)
SMod(n, d) ==
  LET r == UMod(Magnitude(n), Magnitude(d)) IN Wrapped(IF n < 0 THEN -r ELSE r)

\* Quotient and remainder belong together and the remainder is small, with C's signs; the
\* most negative number divided by -1 wraps.
DivisionRight ==
  probe.kind = "div" =>
    LET n == probe.n  d == probe.d
        un == n % Word  ud == d % Word
    IN d # 0 =>
       /\ UDiv(un, ud) * ud + UMod(un, ud) = un /\ UMod(un, ud) < ud
       /\ UDivMod(un, ud) = <<UDiv(un, ud), UMod(un, ud)>>
       /\ Wrapped(SDiv(n, d) * d + SMod(n, d)) = n
       /\ Magnitude(SMod(n, d)) < Magnitude(d)
       /\ SMod(n, d) # 0 => (SMod(n, d) < 0) = (n < 0)

Signed == -(Word \div 2) .. Word \div 2 - 1
DivProbes == [kind : {"div"}, n : Signed, d : Signed]

(* ---- the hash ---- *)

\* sha256_update, byte by byte; the state is the blocks that were transformed.
HashByte(ctx, byte) ==
  LET data == Append(ctx.data, byte)
  IN IF Len(data) = BlockLen
     THEN [blocks |-> Append(ctx.blocks, data), data |-> <<>>, len |-> ctx.len + BlockLen]
     ELSE [ctx EXCEPT !.data = data]
HashUpdate(ctx, bytes) == FoldLeft(HashByte, ctx, bytes)
HashInit == [blocks |-> <<>>, data |-> <<>>, len |-> 0]

Zeros(n) == [i \in 1 .. n |-> 0]
Body == BlockLen - LenLen

\* Mutant: the end mark is given no room of its own.
HashFinal_NoMark(ctx) ==
  LET tail   == Append(ctx.data, "end")
      length == [i \in 1 .. LenLen |-> IF i = LenLen THEN ctx.len + Len(ctx.data) ELSE 0]
  IN IF Len(ctx.data) <= Body
     THEN Append(ctx.blocks, tail \o Zeros(IF Len(tail) < Body THEN Body - Len(tail) ELSE 0) \o length)
     ELSE ctx.blocks \o <<tail \o Zeros(BlockLen - Len(tail)), Zeros(Body) \o length>>

\* sha256_final: the end mark, zeros, and the length in the last bytes of the last block.
HashFinal(ctx) ==
  LET tail   == Append(ctx.data, "end")
      length == [i \in 1 .. LenLen |-> IF i = LenLen THEN ctx.len + Len(ctx.data) ELSE 0]
  IN IF Len(ctx.data) < Body
     THEN Append(ctx.blocks, tail \o Zeros(Body - Len(tail)) \o length)
     ELSE ctx.blocks \o <<tail \o Zeros(BlockLen - Len(tail)), Zeros(Body) \o length>>

\* Data handed over in two pieces is hashed like the same data in one (the record chain
\* hashes six fields one by one); the blocks are the data, the mark, fewer than a block of
\* zeros, and the length.
HashRight ==
  probe.kind = "hash" =>
    LET data == [i \in 1 .. probe.len |-> 10 + i]
        one  == HashFinal(HashUpdate(HashInit, data))
        two  == HashFinal(HashUpdate(HashUpdate(HashInit, SubSeq(data, 1, probe.cut)),
                                     SubSeq(data, probe.cut + 1, probe.len)))
        all  == FlattenSeq(one)
        pad  == Len(all) - probe.len - 1 - LenLen
    IN /\ one = two
       /\ \A i \in DOMAIN one : Len(one[i]) = BlockLen
       /\ pad \in 0 .. BlockLen - 1
       /\ all = data \o <<"end">> \o Zeros(pad + LenLen - 1) \o <<probe.len>>

HashProbes == {p \in [kind : {"hash"}, len : 0 .. MaxData, cut : 0 .. MaxData] : p.cut <= p.len}

(* ---- signatures of host functions ---- *)

\* One character for SignatureToFuncType; max is the number of types there is room for.
SigChar(s, c, max) ==
  IF s.state # "go" THEN s
  ELSE CASE c = "(" -> [s EXCEPT !.rets = FALSE]
         [] c = ")" -> [s EXCEPT !.state = "end"]
         [] c \in {" ", "v"} -> s
         [] c = "?" -> [s EXCEPT !.state = "bad"]
         [] OTHER -> IF (IF s.rets THEN s.numRets ELSE s.numRets + s.numArgs) >= max
                     THEN [s EXCEPT !.state = "bad"]
                     ELSE IF s.rets THEN [s EXCEPT !.numRets = @ + 1]
                     ELSE [s EXCEPT !.numArgs = @ + 1]

SignatureToFuncType(sig) ==
  IF Len(sig) < 2 THEN [state |-> "bad", rets |-> TRUE, numRets |-> 0, numArgs |-> 0]
  ELSE FoldLeft(LAMBDA s, c : SigChar(s, c, Len(sig) - 2),
                [state |-> "go", rets |-> TRUE, numRets |-> 0, numArgs |-> 0], sig)

\* No signature writes past the types that were allocated for it, and a well-formed one has
\* its results and arguments counted.
SignatureRight ==
  probe.kind = "sig" =>
    LET f == SignatureToFuncType(probe.sig)
        open == SelectInSeq(probe.sig, LAMBDA c : c = "(")
        count(lo, hi) == Cardinality({i \in lo .. hi : probe.sig[i] = "i"})
    IN /\ f.numRets + f.numArgs <= Max({0, Len(probe.sig) - 2})
       /\ (open > 0 /\ Last(probe.sig) = ")" /\ "?" \notin Range(probe.sig)
             /\ SelectInSeq(probe.sig, LAMBDA c : c = ")") = Len(probe.sig)
             /\ Cardinality({i \in DOMAIN probe.sig : probe.sig[i] = "("}) = 1) =>
            /\ f.state # "bad"
            /\ f.numRets = count(1, open) /\ f.numArgs = count(open, Len(probe.sig))

SigProbes == [kind : {"sig"}, sig : UNION {[1 .. n -> {"(", ")", "v", "i", "?"}] : n \in 1 .. MaxSig}]

(* All four, each on its own inputs: a number read from a module, a quotient, a record's hash *)
(* and the type of a host function are what their definitions say.                            *)
InputsRight == LebRight /\ DivisionRight /\ HashRight /\ SignatureRight

InputsInit == probe \in LebProbes \cup DivProbes \cup HashProbes \cup SigProbes
InputsNext == UNCHANGED probe
InputsSpec == InputsInit /\ [][InputsNext]_inputVars
=============================================================================
