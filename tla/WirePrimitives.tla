--------------------------- MODULE WirePrimitives ---------------------------
(***************************************************************************)
(* What every codec of the repository is built from: the fixed-width       *)
(* integers and the lists it writes, and the methods of the Reader it reads*)
(* them back with (crates/bempic-sync/src/v01.rs).                         *)
(*                                                                         *)
(* A wire image is a sequence of octets.  An identifier or a fingerprint is*)
(* a number written in Width.id octets; the widths are parameters, so that *)
(* every octet of a whole record can be altered.  Text is a sequence of    *)
(* one-octet characters.                                                   *)
(*                                                                         *)
(* A reader of the octets w is a function from the position reading starts *)
(* at: << >> when the code returns an error, else the value read and the   *)
(* position after it.                                                      *)
(***************************************************************************)
EXTENDS Integers, SequencesExt

CONSTANT Width                  \* octets of each fixed-width field type

ASSUME WidthAssumption ==
    Width \in [{"u16", "u32", "u64", "id16", "id"} -> Nat \ {0}]

Octet == 0 .. 255

Pow256[k \in Nat] == IF k = 0 THEN 1 ELSE 256 * Pow256[k - 1]

\* What a field of so many octets holds.
Numbers(width) == 0 .. (Pow256[width] - 1)

U16 == Numbers(Width.u16)
U32 == Numbers(Width.u32)
U64 == Numbers(Width.u64)
Id == Numbers(Width.id)
Id16 == Numbers(Width.id16)

\* An optional value is a sequence of at most one.
Lists(S, maximum) == {list \in Seq(S) : Len(list) <= maximum}
Option(S) == Lists(S, 1)

SumOf(numbers) ==
    LET total[i \in 0 .. Len(numbers)] ==
            IF i = 0 THEN 0 ELSE total[i - 1] + numbers[i]
    IN  total[Len(numbers)]

SumOver(Size(_), list) == SumOf([i \in DOMAIN list |-> Size(list[i])])

---------------------------------------------------------------------------
(* Writing.                                                                *)

BigEndian(n, width) == [i \in 1 .. width |-> (n \div Pow256[width - i]) % 256]

PutU16(n) == BigEndian(n, Width.u16)
PutU32(n) == BigEndian(n, Width.u32)
PutU64(n) == BigEndian(n, Width.u64)
PutId(n) == BigEndian(n, Width.id)
PutId16(n) == BigEndian(n, Width.id16)
PutBool(b) == <<IF b THEN 1 ELSE 0>>

\* An enumerated value is its position, from zero; a bit set is one octet.
PutEnum(values, x) == <<(CHOOSE i \in DOMAIN values : values[i] = x) - 1>>

PutBits(bits) ==
    LET Bit(i) == IF i \in bits THEN 1 ELSE 0
    IN  <<Bit(0) + 2 * Bit(1) + 4 * Bit(2) + 8 * Bit(3)
            + 16 * Bit(4) + 32 * Bit(5) + 64 * Bit(6) + 128 * Bit(7)>>

PutAll(Put(_), list) == FlattenSeq([i \in DOMAIN list |-> Put(list[i])])
PutList(Put(_), list) == <<Len(list)>> \o PutAll(Put, list)

PutOctets(octets) == PutU16(Len(octets)) \o octets
PutText(text) == PutList(PutOctets, text)

---------------------------------------------------------------------------
(* Reading.                                                                *)

Positions == Nat \ {0}

Got(value, next) == <<[value |-> value, next |-> next]>>

\* Continue with what was read, unless it was an error.
Then(got, Continue(_, _)) ==
    IF got = << >> THEN << >> ELSE Continue(got[1].value, got[1].next)

FromBigEndian(octets) ==
    LET value[i \in 0 .. Len(octets)] ==
            IF i = 0 THEN 0 ELSE 256 * value[i - 1] + octets[i]
    IN  value[Len(octets)]

\* Reader::take.
Take(w, at, count) ==
    IF at + count > Len(w) + 1 THEN << >>
    ELSE Got(SubSeq(w, at, at + count - 1), at + count)

TakeNumber(w, width) ==
    [at \in Positions |->
        Then(Take(w, at, width), LAMBDA octets, next : Got(FromBigEndian(octets), next))]

TakeU8(w) ==
    [at \in Positions |-> IF at > Len(w) THEN << >> ELSE Got(w[at], at + 1)]
TakeU16(w) == TakeNumber(w, Width.u16)
TakeU32(w) == TakeNumber(w, Width.u32)
TakeU64(w) == TakeNumber(w, Width.u64)
TakeId(w) == TakeNumber(w, Width.id)
TakeId16(w) == TakeNumber(w, Width.id16)

TakeEnum(w, values) ==
    [at \in Positions |->
        Then(TakeU8(w)[at], LAMBDA x, next :
            IF x < Len(values) THEN Got(values[x + 1], next) ELSE << >>)]

TakeBool(w) == TakeEnum(w, <<FALSE, TRUE>>)

BitValue == <<1, 2, 4, 8, 16, 32, 64, 128>>

TakeBits(w) ==
    [at \in Positions |->
        Then(TakeU8(w)[at], LAMBDA x, next :
            Got({bit \in 0 .. 7 : (x \div BitValue[bit + 1]) % 2 = 1}, next))]

TakeExactly(w, count) == [at \in Positions |-> Take(w, at, count)]

\* As many octets as Length reads, if they are no more than the maximum.
TakeOctets(w, Length, maximum) ==
    [at \in Positions |->
        Then(Length[at], LAMBDA count, from :
            IF count > maximum THEN << >> ELSE Take(w, from, count))]

\* What Reader reads, if the code accepts it.
Checked(Reader, accepted) ==
    [at \in Positions |->
        Then(Reader[at], LAMBDA x, next : IF x \in accepted THEN Got(x, next) ELSE << >>)]

\* Each reader after the other; the values in a sequence.
TakeEach(readers) ==
    [at \in Positions |->
        LET upto[i \in 0 .. Len(readers)] ==
                IF i = 0 THEN Got(<< >>, at)
                ELSE Then(upto[i - 1], LAMBDA values, from :
                        Then(readers[i][from], LAMBDA x, next : Got(Append(values, x), next)))
        IN  upto[Len(readers)]]

\* A count, of those the code accepts, and as many values.
TakeList(w, Reader, counts) ==
    [at \in Positions |->
        Then(TakeU8(w)[at], LAMBDA count, from :
            IF count \in counts THEN TakeEach([i \in 1 .. count |-> Reader])[from] ELSE << >>)]

TakeOption(w, Reader) == TakeList(w, Reader, {0, 1})

Printable == 32 .. 126

\* Reader::optional_text.
TakeText(w, maximum) ==
    TakeOption(w, Checked(TakeOctets(w, TakeU16(w), maximum), Seq(Printable)))

\* An octet that says which of the readers is next.
TakeChoice(w, readers) ==
    [at \in Positions |->
        Then(TakeU8(w)[at], LAMBDA x, from :
            IF x < Len(readers) THEN readers[x + 1][from] ELSE << >>)]

\* A record: fields is a sequence of pairs of a name and a reader.
TakeFields(fields) ==
    LET names == [i \in DOMAIN fields |-> fields[i][1]]
    IN  [at \in Positions |->
            Then(TakeEach([i \in DOMAIN fields |-> fields[i][2]])[at], LAMBDA values, next :
                Got([name \in ToSet(names) |->
                        values[CHOOSE i \in DOMAIN names : names[i] = name]], next))]

=============================================================================
