---------------------------- MODULE ZmodemProofs ----------------------------
(***************************************************************************)
(* Theorems about Zmodem: types, and that the transfer implements what     *)
(* FileTransfer promises, for any files, cards, tries and faults.          *)
(***************************************************************************)
EXTENDS Zmodem, SequenceTheorems, WellFoundedInduction, TLAPS

(* A set of numbers has a least one.                                       *)
LEMMA MinIn ==
    ASSUME NEW S, S \subseteq Nat, S # {}
    PROVE  Min(S) \in S /\ \A y \in S : Min(S) <= y
<1> DEFINE R == OpToRel(<, Nat)
<1>1. IsWellFoundedOn(R, Nat)
  BY NatLessThanWellFounded
<1>2. PICK x \in S : \A y \in S : ~(<<y, x>> \in R)
  BY <1>1, WFMin, Zenon
<1>3. \A y \in S : x <= y
  <2> SUFFICES ASSUME NEW y \in S PROVE x <= y
    OBVIOUS
  <2>1. <<y, x>> \notin R /\ x \in Nat /\ y \in Nat
    BY <1>2
  <2>2. R = {uv \in Nat \X Nat : uv[1] < uv[2]}
    BY DEF OpToRel
  <2>3. ~(y < x)
    <3> SUFFICES ASSUME y < x PROVE <<y, x>> \in R
      BY <2>1
    <3>1. <<y, x>>[1] = y /\ <<y, x>>[2] = x /\ <<y, x>> \in Nat \X Nat
      BY <2>1
    <3> HIDE DEF R
    <3> QED BY <3>1, <2>2
  <2> HIDE DEF R
  <2> QED BY <2>1, <2>3
<1> QED
  BY <1>3 DEF Min

(* What is left of a sequence after its first i.                           *)
LEMMA AfterIs ==
    ASSUME NEW S, NEW ch \in Seq(S), NEW i \in 0 .. Len(ch)
    PROVE  /\ After(ch, i) \in Seq(S)
           /\ Len(After(ch, i)) = Len(ch) - i
           /\ \A j \in 1 .. Len(ch) - i : After(ch, i)[j] = ch[i + j]
<1>1. \A j \in (i + 1) .. Len(ch) : ch[j] \in S
  BY LenProperties, ElementOfSeq
<1>2. Len(ch) \in Nat /\ i \in Nat /\ i + 1 \in Int
  BY LenProperties
<1>3. /\ SubSeq(ch, i + 1, Len(ch)) \in Seq(S)
      /\ Len(SubSeq(ch, i + 1, Len(ch))) = IF i + 1 <= Len(ch) THEN Len(ch) - (i + 1) + 1 ELSE 0
      /\ \A j \in 1 .. Len(ch) - (i + 1) + 1 : SubSeq(ch, i + 1, Len(ch))[j] = ch[i + 1 + j - 1]
  BY <1>1, <1>2, SubSeqProperties
<1>4. Len(SubSeq(ch, i + 1, Len(ch))) = Len(ch) - i
  BY <1>2, <1>3
<1>5. ASSUME NEW j \in 1 .. Len(ch) - i PROVE SubSeq(ch, i + 1, Len(ch))[j] = ch[i + j]
  <2>1. j \in 1 .. Len(ch) - (i + 1) + 1 /\ i + 1 + j - 1 = i + j
    BY <1>2
  <2> QED BY <2>1, <1>3
<1> QED
  BY <1>3, <1>4, <1>5 DEF After

LEMMA AfterEnds ==
    ASSUME NEW S, NEW ch \in Seq(S)
    PROVE  After(ch, 0) = ch /\ After(ch, Len(ch)) = <<>>
<1>1. Len(ch) \in Nat
  BY LenProperties
<1>2. SubSeq(ch, 1, Len(ch)) = ch
  BY SubSeqFull
<1>3. SubSeq(ch, Len(ch) + 1, Len(ch)) = <<>>
  BY <1>1, SubSeqEmpty
<1> QED
  BY <1>1, <1>2, <1>3 DEF After

(* Whatever zgethdr returns, it has taken the line up to some token, and a *)
(* frame type means that this one was a whole header.                      *)
Failure == {"ZCAN", "ERROR", "TIMEOUT"}

LEMMA HeaderRead ==
    ASSUME NEW S, NEW ch \in Seq(S), NEW r \in {zgethdr(ch), Late(ch)}
    PROVE  \E i \in 0 .. Len(ch) :
             /\ r.rest = After(ch, i)
             /\ r.c \notin Failure =>
                  i > 0 /\ Whole(ch[i]) /\ r.c = ch[i].type /\ r.pos = ch[i].pos
<1>1. CASE r = Late(ch)
  <2>1. r.rest = After(ch, 0) /\ r.c = "TIMEOUT"
    BY <1>1, AfterEnds DEF Late, Silence
  <2> QED BY <2>1, LenProperties DEF Failure
<1>2. CASE r = zgethdr(ch)
  <2> DEFINE stops == {j \in DOMAIN ch : ~PassedOver(ch[j])}
             i     == Min(stops)
  <2>1. CASE stops = {}
    <3>1. r = Silence
      BY <1>2, <2>1 DEF zgethdr
    <3>2. r.rest = After(ch, Len(ch)) /\ r.c = "TIMEOUT"
      BY <3>1, AfterEnds DEF Silence
    <3> QED BY <3>2, LenProperties DEF Failure
  <2>2. CASE stops # {}
    <3>1. i \in 1 .. Len(ch)
      <4>1. stops \subseteq 1 .. Len(ch) /\ stops \subseteq Nat
        BY LenProperties
      <4> HIDE DEF stops
      <4> QED BY <2>2, <4>1, MinIn, Zenon
    <3>2. r = CASE ch[i].kind = "can" -> [c |-> "ZCAN", rest |-> After(ch, i)]
                [] Whole(ch[i]) -> [c |-> ch[i].type, pos |-> ch[i].pos, rest |-> After(ch, i)]
                [] OTHER -> [c |-> "ERROR", rest |-> After(ch, i)]
      BY <1>2, <2>2 DEF zgethdr
    <3> HIDE DEF i, stops
    <3>3. r.rest = After(ch, i)
          /\ (r.c \notin Failure => Whole(ch[i]) /\ r.c = ch[i].type /\ r.pos = ch[i].pos)
      <4>1. CASE ch[i].kind = "can"
        BY <3>2, <4>1 DEF Failure, Whole
      <4>2. CASE ch[i].kind # "can" /\ Whole(ch[i])
        BY <3>2, <4>2 DEF Failure
      <4>3. CASE ch[i].kind # "can" /\ ~Whole(ch[i])
        BY <3>2, <4>3 DEF Failure
      <4> QED BY <4>1, <4>2, <4>3
    <3> QED BY <3>1, <3>3, LenProperties
  <2> QED BY <2>1, <2>2
<1> QED
  BY <1>1, <1>2

(* Whatever zrdata returns, it has taken the line up to some token, and an *)
(* end of data means that this was the first one, and a good subpacket.    *)
LEMMA DataRead ==
    ASSUME NEW S, NEW ch \in Seq(S), NEW r \in {zrdata(ch), Late(ch)}
    PROVE  \E i \in 0 .. Len(ch) :
             /\ r.rest = After(ch, i)
             /\ r.c \notin Failure =>
                  /\ i = 1 /\ ch[1].kind = "data" /\ ch[1].good
                  /\ r.c = ch[1].end /\ r.units = ch[1].units /\ r.c # "none"
<1>1. CASE r = Late(ch)
  <2>1. r.rest = After(ch, 0) /\ r.c = "TIMEOUT"
    BY <1>1, AfterEnds DEF Late, Silence
  <2> QED BY <2>1, LenProperties DEF Failure
<1>2. CASE r = zrdata(ch)
  <2> DEFINE stops == {j \in DOMAIN ch : EndsData(ch[j])}
             i     == Min(stops)
  <2>1. CASE stops = {}
    <3>1. r = Silence
      BY <1>2, <2>1 DEF zrdata
    <3>2. r.rest = After(ch, Len(ch)) /\ r.c = "TIMEOUT"
      BY <3>1, AfterEnds DEF Silence
    <3> QED BY <3>2, LenProperties DEF Failure
  <2>2. CASE stops # {}
    <3>1. i \in 1 .. Len(ch) /\ EndsData(ch[i])
      BY <2>2, MinIn, LenProperties
    <3>2. r = CASE ch[i].kind = "can" -> [c |-> "ZCAN", rest |-> After(ch, i)]
                [] i = 1 /\ ch[i].kind = "data" /\ ch[i].good ->
                     [c |-> ch[i].end, units |-> ch[i].units, rest |-> After(ch, i)]
                [] OTHER -> [c |-> "ERROR", rest |-> After(ch, i)]
      BY <1>2, <2>2 DEF zrdata
    <3> HIDE DEF i, stops
    <3>3. r.rest = After(ch, i)
          /\ (r.c \notin Failure => i = 1 /\ ch[i].kind = "data" /\ ch[i].good /\ r.c = ch[i].end
                                    /\ r.units = ch[i].units /\ r.c # "none")
      <4>1. CASE ch[i].kind = "can"
        BY <3>2, <4>1 DEF Failure
      <4>2. CASE ch[i].kind # "can" /\ i = 1 /\ ch[i].kind = "data" /\ ch[i].good
        <5>1. ch[i].end # "none"
          BY <3>1, <4>2 DEF EndsData
        <5> QED BY <3>2, <4>2, <5>1 DEF Failure
      <4>3. CASE ch[i].kind # "can" /\ ~(i = 1 /\ ch[i].kind = "data" /\ ch[i].good)
        BY <3>2, <4>3 DEF Failure
      <4> QED BY <4>1, <4>2, <4>3
    <3> QED BY <3>1, <3>3, LenProperties
  <2> QED BY <2>1, <2>2
<1> QED
  BY <1>1, <1>2

----------------------------------------------------------------------------
(* What the line carries to the receiver.  The tokens of a stream have     *)
(* places: place[i] is where in the file the data after the first i tokens *)
(* belongs.  A header leaves the place alone, and a ZDATA names it; a good *)
(* subpacket that promises more (ZCRCG) moves it by its units; what comes  *)
(* after any other subpacket may belong anywhere.                          *)
Carries(tok, p, q, s) ==
  /\ tok.kind # "data" => p = q
  /\ Whole(tok) =>
       /\ tok.type \in {"ZDATA", "ZEOF", "ZNAK", "ZFIN"}
       /\ tok.type = "ZDATA" => tok.pos = q
       /\ tok.type = "ZEOF" => tok.pos = Len(s)
  /\ tok.kind = "data" /\ tok.good =>
       /\ p + Len(tok.units) <= Len(s)
       /\ tok.units = SubSeq(s, p + 1, p + Len(tok.units))
       /\ tok.end = "ZCRCG" => q = p + Len(tok.units)

(* The stream after the first b tokens of the line can be placed in s with *)
(* the first place in from and the last one at to.                         *)
Placed(ch, b, from, to, s) ==
  \E place \in [0 .. Len(ch) -> 0 .. Len(s)] :
    /\ place[0] \in from /\ place[Len(ch)] = to
    /\ \A i \in b + 1 .. Len(ch) : Carries(ch[i], place[i - 1], place[i], s)

LEMMA PlacedAppend ==
    ASSUME NEW S, NEW ch \in Seq(S), NEW tok \in S, NEW b \in 0 .. Len(ch),
           NEW from, NEW v, NEW s, NEW w \in 0 .. Len(s),
           Placed(ch, b, from, v, s), Carries(tok, v, w, s)
    PROVE  Placed(Append(ch, tok), b, from, w, s)
<1>1. PICK place \in [0 .. Len(ch) -> 0 .. Len(s)] :
        /\ place[0] \in from /\ place[Len(ch)] = v
        /\ \A i \in b + 1 .. Len(ch) : Carries(ch[i], place[i - 1], place[i], s)
  BY DEF Placed
<1> DEFINE more == Append(ch, tok)
           place2 == [i \in 0 .. Len(ch) + 1 |-> IF i <= Len(ch) THEN place[i] ELSE w]
<1>2. Len(ch) \in Nat /\ Len(more) = Len(ch) + 1 /\ more[Len(ch) + 1] = tok
      /\ \A i \in 1 .. Len(ch) : more[i] = ch[i]
  BY AppendProperties, LenProperties
<1>3. place2 \in [0 .. Len(more) -> 0 .. Len(s)] /\ place2[0] = place[0]
      /\ place2[Len(more)] = w /\ place2[Len(ch)] = v
  BY <1>1, <1>2
<1>4. ASSUME NEW i \in b + 1 .. Len(more)
      PROVE  Carries(more[i], place2[i - 1], place2[i], s)
  <2>1. CASE i = Len(ch) + 1
    <3>1. i - 1 = Len(ch)
      BY <1>2, <2>1
    <3>2. place2[i - 1] = v /\ place2[i] = w /\ more[i] = tok
      BY <1>2, <1>3, <2>1, <3>1
    <3> HIDE DEF more, place2
    <3> QED BY <3>2
  <2>2. CASE i # Len(ch) + 1
    <3>1. i \in b + 1 .. Len(ch) /\ i \in 1 .. Len(ch) /\ i - 1 \in 0 .. Len(ch)
      BY <1>2, <2>2
    <3>2. place2[i - 1] = place[i - 1] /\ place2[i] = place[i] /\ more[i] = ch[i]
      BY <1>2, <3>1
    <3>3. Carries(ch[i], place[i - 1], place[i], s)
      BY <1>1, <3>1
    <3> HIDE DEF more, place2
    <3> QED BY <3>2, <3>3
  <2> QED BY <2>1, <2>2
<1> HIDE DEF more, place2
<1>5. Placed(more, b, from, w, s)
  BY <1>1, <1>3, <1>4 DEF Placed
<1> QED
  BY <1>5 DEF more

LEMMA PlacedWeaken ==
    ASSUME NEW ch, NEW b, NEW from, NEW to, NEW s, NEW more,
           Placed(ch, b, from, to, s), from \subseteq more
    PROVE  Placed(ch, b, more, to, s)
BY DEF Placed

(* Before a stream has begun any place will do.                            *)
LEMMA PlacedUnsent ==
    ASSUME NEW S, NEW ch \in Seq(S), NEW s, NEW v \in 0 .. Len(s)
    PROVE  Placed(ch, Len(ch), 0 .. Len(s), v, s)
<1> DEFINE place == [i \in 0 .. Len(ch) |-> v]
<1>1. Len(ch) \in Nat
  BY LenProperties
<1>2. place \in [0 .. Len(ch) -> 0 .. Len(s)] /\ place[0] = v /\ place[Len(ch)] = v
  BY <1>1
<1>3. Len(ch) + 1 .. Len(ch) = {}
  BY <1>1
<1> HIDE DEF place
<1> QED
  BY <1>2, <1>3 DEF Placed

Left(b, k) == IF k <= b THEN b - k ELSE 0

(* A stream is still one after some of it was read, and what was read last *)
(* says where it goes on.                                                  *)
LEMMA PlacedAfter ==
    ASSUME NEW S, NEW ch \in Seq(S), NEW b \in 0 .. Len(ch), NEW k \in 0 .. Len(ch),
           NEW from, NEW v, NEW s, Placed(ch, b, from, v, s)
    PROVE  /\ Placed(After(ch, k), Left(b, k), 0 .. Len(s), v, s)
           /\ k > b => \E o, p \in 0 .. Len(s) :
                         /\ Carries(ch[k], o, p, s)
                         /\ k = 1 => o \in from
                         /\ Placed(After(ch, k), 0, {p}, v, s)
<1>1. PICK place \in [0 .. Len(ch) -> 0 .. Len(s)] :
        /\ place[0] \in from /\ place[Len(ch)] = v
        /\ \A i \in b + 1 .. Len(ch) : Carries(ch[i], place[i - 1], place[i], s)
  BY DEF Placed
<1> DEFINE rest == After(ch, k)
           place2 == [i \in 0 .. Len(ch) - k |-> place[k + i]]
<1>2. /\ Len(ch) \in Nat /\ Len(rest) = Len(ch) - k /\ Len(rest) \in Nat
      /\ \A j \in 1 .. Len(ch) - k : rest[j] = ch[k + j]
  BY AfterIs, LenProperties
<1>3. place2 \in [0 .. Len(rest) -> 0 .. Len(s)] /\ place2[0] = place[k]
      /\ place2[Len(rest)] = v /\ place[k] \in 0 .. Len(s)
  BY <1>1, <1>2
<1>4. Left(b, k) \in Nat /\ Left(b, k) + k >= b
  BY <1>2 DEF Left
<1>5. ASSUME NEW i \in Left(b, k) + 1 .. Len(rest)
      PROVE  Carries(rest[i], place2[i - 1], place2[i], s)
  <2>1. k + i \in b + 1 .. Len(ch) /\ i \in 1 .. Len(ch) - k /\ i - 1 \in 0 .. Len(ch) - k
        /\ i \in 0 .. Len(ch) - k /\ k + (i - 1) = (k + i) - 1
    BY <1>2, <1>4
  <2>2. rest[i] = ch[k + i] /\ place2[i - 1] = place[k + (i - 1)] /\ place2[i] = place[k + i]
    BY <1>2, <2>1
  <2>3. Carries(ch[k + i], place[(k + i) - 1], place[k + i], s)
    BY <1>1, <2>1
  <2> HIDE DEF rest, place2
  <2> QED BY <2>1, <2>2, <2>3
<1> HIDE DEF rest, place2
<1>6. Placed(rest, Left(b, k), {place[k]}, v, s)
  BY <1>3, <1>5 DEF Placed
<1>7. Placed(rest, Left(b, k), 0 .. Len(s), v, s)
  BY <1>3, <1>6, PlacedWeaken
<1>8. ASSUME k > b
      PROVE  \E o, p \in 0 .. Len(s) : /\ Carries(ch[k], o, p, s)
                                       /\ k = 1 => o \in from
                                       /\ Placed(rest, 0, {p}, v, s)
  <2>1. k \in b + 1 .. Len(ch) /\ k - 1 \in 0 .. Len(ch) /\ Left(b, k) = 0
        /\ (k = 1 => k - 1 = 0)
    BY <1>2, <1>8 DEF Left
  <2>2. Carries(ch[k], place[k - 1], place[k], s) /\ place[k - 1] \in 0 .. Len(s)
    BY <1>1, <2>1
  <2> QED BY <1>1, <1>3, <1>6, <2>1, <2>2
<1> QED
  BY <1>7, <1>8 DEF rest

----------------------------------------------------------------------------
(* What the line may do.                                                   *)
RxTypes == {"ZRQINIT", "ZFILE", "ZDATA", "ZEOF", "ZNAK", "ZFIN"}
TxTypes == {"ZRINIT", "ZRPOS", "ZACK", "ZNAK", "ZFIN"}

HeaderOf(types) == [kind : {"header"}, type : types, pos : Nat, good : BOOLEAN]
Data == [kind : {"data"}, units : Seq(Units \cup Names), end : Ends \cup {"none"}, good : BOOLEAN]

RxToken == HeaderOf(RxTypes) \cup Data \cup {over}
TxToken == HeaderOf(TxTypes) \cup {canit}
Token   == RxToken \cup TxToken

(* A token is lost, which no subpacket ever is, or spoilt.                 *)
LEMMA GarbledIs ==
    ASSUME NEW S \in {RxToken, TxToken}, NEW tok \in S, NEW g \in Garbled(tok)
    PROVE  \/ tok.kind # "data" /\ g = <<>>
           \/ \E t \in S : g = <<t>> /\ t.kind = tok.kind /\ t.kind \in {"header", "data"} /\ t.good = FALSE
<1>1. CASE \E types \in {RxTypes, TxTypes} : tok \in HeaderOf(types) /\ HeaderOf(types) \subseteq S
  <2>1. PICK types \in {RxTypes, TxTypes} : tok \in HeaderOf(types) /\ HeaderOf(types) \subseteq S
    BY <1>1
  <2> DEFINE t == [tok EXCEPT !.good = FALSE]
  <2>2. t \in HeaderOf(types) /\ t.kind = "header" /\ tok.kind = "header" /\ t.good = FALSE
    BY <2>1 DEF HeaderOf
  <2>3. g = <<>> \/ g = <<t>>
    BY <2>2 DEF Garbled
  <2> HIDE DEF t
  <2> QED BY <2>1, <2>2, <2>3
<1>2. CASE tok \in Data /\ Data \subseteq S
  <2>1. PICK e \in {tok.end, "none"} : g = <<[tok EXCEPT !.good = FALSE, !.end = e]>>
    BY <1>2 DEF Garbled, Data
  <2> DEFINE t == [tok EXCEPT !.good = FALSE, !.end = e]
  <2>2. t \in Data /\ t.kind = "data" /\ tok.kind = "data" /\ t.good = FALSE
    BY <1>2 DEF Data
  <2> HIDE DEF t
  <2> QED BY <1>2, <2>1, <2>2 DEF t
<1>3. CASE tok \in {over, canit}
  BY <1>3 DEF over, canit, Garbled
<1> QED
  BY <1>1, <1>2, <1>3 DEF RxToken, TxToken

(* Token i of the line is no longer there, or no longer good.              *)
Lost(ch, now, i) ==
  /\ ch[i].kind # "data" /\ Len(now) = Len(ch) - 1
  /\ \A j \in 1 .. Len(ch) - 1 : now[j] = ch[IF j < i THEN j ELSE j + 1]

Spoilt(ch, now, i) ==
  /\ Len(now) = Len(ch)
  /\ \A j \in 1 .. Len(ch) : j # i => now[j] = ch[j]
  /\ now[i].kind = ch[i].kind /\ now[i].kind \in {"header", "data"} /\ now[i].good = FALSE

LEMMA NoiseIs ==
    ASSUME NEW S \in {RxToken, TxToken}, NEW ch \in Seq(S), NEW now \in Noise(ch)
    PROVE  now \in Seq(S) /\ \E i \in 1 .. Len(ch) : Lost(ch, now, i) \/ Spoilt(ch, now, i)
<1>0. PICK i \in 1 .. Len(ch) :
        \E g \in Garbled(ch[i]) : now = SubSeq(ch, 1, i - 1) \o g \o After(ch, i)
  BY LenProperties DEF Noise
<1>1. PICK g \in Garbled(ch[i]) : now = SubSeq(ch, 1, i - 1) \o g \o After(ch, i)
  BY <1>0
<1>2. Len(ch) \in Nat /\ i - 1 \in Int /\ ch[i] \in S /\ i \in 0 .. Len(ch)
      /\ \A j \in 1 .. i - 1 : ch[j] \in S
  BY LenProperties, ElementOfSeq
<1> DEFINE a == SubSeq(ch, 1, i - 1)  c == After(ch, i)
<1>3. a \in Seq(S) /\ Len(a) = i - 1 /\ \A j \in 1 .. i - 1 : a[j] = ch[j]
  <2>1. /\ a \in Seq(S) /\ Len(a) = IF 1 <= i - 1 THEN (i - 1) - 1 + 1 ELSE 0
        /\ \A j \in 1 .. (i - 1) - 1 + 1 : a[j] = ch[1 + j - 1]
    BY <1>2, SubSeqProperties
  <2> QED BY <1>2, <2>1
<1>4. c \in Seq(S) /\ Len(c) = Len(ch) - i /\ \A j \in 1 .. Len(ch) - i : c[j] = ch[i + j]
  BY <1>2, AfterIs
<1>5. now = (a \o g) \o c
  BY <1>1
<1> HIDE DEF a, c
<1>6. CASE ch[i].kind # "data" /\ g = <<>>
  <2>1. now = a \o c
    BY <1>3, <1>5, <1>6, ConcatEmptySeq
  <2>2. /\ now \in Seq(S) /\ Len(now) = Len(a) + Len(c)
        /\ \A j \in 1 .. Len(a) + Len(c) : now[j] = IF j <= Len(a) THEN a[j] ELSE c[j - Len(a)]
    BY <1>3, <1>4, <2>1, ConcatProperties
  <2>3. ASSUME NEW j \in 1 .. Len(ch) - 1 PROVE now[j] = ch[IF j < i THEN j ELSE j + 1]
    <3>1. CASE j < i
      <4>1. j \in 1 .. i - 1 /\ j \in 1 .. Len(a) + Len(c) /\ j <= Len(a) /\ (IF j < i THEN j ELSE j + 1) = j
        BY <1>2, <1>3, <1>4, <3>1
      <4> QED BY <1>3, <2>2, <4>1
    <3>2. CASE ~(j < i)
      <4>1. j - (i - 1) \in 1 .. Len(ch) - i /\ i + (j - (i - 1)) = j + 1
        BY <1>2, <3>2
      <4>2. now[j] = c[j - (i - 1)]
        <5>1. j \in 1 .. Len(a) + Len(c) /\ ~(j <= Len(a)) /\ Len(a) = i - 1
          BY <1>2, <1>3, <1>4, <3>2
        <5> QED BY <2>2, <5>1
      <4> QED BY <1>4, <3>2, <4>1, <4>2
    <3> QED BY <3>1, <3>2
  <2>4. Lost(ch, now, i)
    BY <1>2, <1>3, <1>4, <1>6, <2>2, <2>3 DEF Lost
  <2> QED BY <2>2, <2>4
<1>7. CASE \E t \in S : g = <<t>> /\ t.kind = ch[i].kind /\ t.kind \in {"header", "data"} /\ t.good = FALSE
  <2>1. PICK t \in S : g = <<t>> /\ t.kind = ch[i].kind /\ t.kind \in {"header", "data"} /\ t.good = FALSE
    BY <1>7
  <2> DEFINE x == a \o g
  <2>2. x = Append(a, t)
    BY <1>3, <2>1, AppendIsConcat
  <2>3. /\ x \in Seq(S) /\ Len(x) = i /\ x[i] = t
        /\ \A j \in 1 .. i - 1 : x[j] = ch[j]
    BY <1>2, <1>3, <2>1, <2>2, AppendProperties
  <2> HIDE DEF x
  <2>4. /\ now \in Seq(S) /\ Len(now) = Len(x) + Len(c)
        /\ \A j \in 1 .. Len(x) + Len(c) : now[j] = IF j <= Len(x) THEN x[j] ELSE c[j - Len(x)]
    <3>1. now = x \o c
      BY <1>5 DEF x
    <3> QED BY <1>4, <2>3, <3>1, ConcatProperties
  <2>5. now[i] = t
    BY <1>2, <1>4, <2>3, <2>4
  <2>6. ASSUME NEW j \in 1 .. Len(ch), j # i PROVE now[j] = ch[j]
    <3>1. CASE j < i
      BY <1>2, <1>4, <2>3, <2>4, <3>1
    <3>2. CASE j > i
      <4>1. j - i \in 1 .. Len(ch) - i /\ i + (j - i) = j
        BY <1>2, <3>2
      <4>2. now[j] = c[j - i]
        BY <1>2, <1>4, <2>3, <2>4, <3>2
      <4> QED BY <1>4, <4>1, <4>2
    <3> QED BY <1>2, <2>6, <3>1, <3>2
  <2>7. Spoilt(ch, now, i)
    BY <1>2, <1>4, <2>1, <2>3, <2>4, <2>5, <2>6 DEF Spoilt
  <2> QED BY <2>4, <2>7
<1> QED
  BY <1>2, <1>6, <1>7, GarbledIs

(* A stream is still one when the line has done wrong.                     *)
LEMMA PlacedNoise ==
    ASSUME NEW S, NEW ch \in Seq(S), NEW now \in Seq(S), NEW i \in 1 .. Len(ch),
           NEW b \in 0 .. Len(ch), NEW from, NEW to, NEW s, Placed(ch, b, from, to, s),
           b > 0 => from = 0 .. Len(s)
    PROVE  /\ Lost(ch, now, i) => Placed(now, IF i <= b THEN b - 1 ELSE b, from, to, s)
           /\ Spoilt(ch, now, i) => Placed(now, b, from, to, s)
<1>1. PICK place \in [0 .. Len(ch) -> 0 .. Len(s)] :
        /\ place[0] \in from /\ place[Len(ch)] = to
        /\ \A k \in b + 1 .. Len(ch) : Carries(ch[k], place[k - 1], place[k], s)
  BY DEF Placed
<1>2. Len(ch) \in Nat
  BY LenProperties
<1>3. ASSUME Spoilt(ch, now, i) PROVE Placed(now, b, from, to, s)
  <2>1. ASSUME NEW k \in b + 1 .. Len(ch) PROVE Carries(now[k], place[k - 1], place[k], s)
    <3>1. Carries(ch[k], place[k - 1], place[k], s) /\ k \in 1 .. Len(ch)
      BY <1>1, <1>2
    <3>2. CASE k = i
      BY <1>3, <3>1, <3>2 DEF Spoilt, Carries, Whole
    <3>3. CASE k # i
      BY <1>3, <3>1, <3>3 DEF Spoilt
    <3> QED BY <3>2, <3>3
  <2>2. Len(now) = Len(ch)
    BY <1>3 DEF Spoilt
  <2> QED BY <1>1, <2>1, <2>2 DEF Placed
<1>4. ASSUME Lost(ch, now, i) PROVE Placed(now, IF i <= b THEN b - 1 ELSE b, from, to, s)
  <2> DEFINE b2 == IF i <= b THEN b - 1 ELSE b
             place2 == [k \in 0 .. Len(ch) - 1 |-> IF i > b /\ k < i THEN place[k] ELSE place[k + 1]]
  <2>1. Len(now) = Len(ch) - 1 /\ ch[i].kind # "data"
        /\ \A k \in 1 .. Len(ch) - 1 : now[k] = ch[IF k < i THEN k ELSE k + 1]
    BY <1>4 DEF Lost
  <2>2. i > b => place[i - 1] = place[i]
    <3> SUFFICES ASSUME i > b PROVE place[i - 1] = place[i]
      OBVIOUS
    <3>1. i \in b + 1 .. Len(ch)
      BY <1>2
    <3>2. Carries(ch[i], place[i - 1], place[i], s)
      BY <1>1, <3>1
    <3> QED BY <2>1, <3>2 DEF Carries
  <2>3. place2 \in [0 .. Len(now) -> 0 .. Len(s)] /\ place2[0] \in from
    <3>1. place2 \in [0 .. Len(now) -> 0 .. Len(s)]
      BY <1>1, <1>2, <2>1
    <3>2. CASE i > b
      BY <1>1, <1>2, <2>1, <3>2
    <3>3. CASE b > 0
      <4>1. 0 \in 0 .. Len(now)
        BY <1>2, <2>1
      <4> HIDE DEF place2
      <4> QED BY <3>1, <3>3, <4>1
    <3> QED BY <1>2, <3>1, <3>2, <3>3
  <2>4. place2[Len(now)] = to
    <3>1. CASE i > b /\ i = Len(ch)
      <4>1. Len(now) < i /\ place2[Len(now)] = place[i - 1]
        BY <1>2, <2>1, <3>1
      <4> QED BY <1>1, <2>2, <3>1, <4>1
    <3>2. CASE ~(i > b /\ i = Len(ch))
      BY <1>1, <1>2, <2>1, <3>2
    <3> QED BY <3>1, <3>2
  <2>5. ASSUME NEW k \in b2 + 1 .. Len(now) PROVE Carries(now[k], place2[k - 1], place2[k], s)
    <3>1. k \in 1 .. Len(ch) - 1 /\ k - 1 \in 0 .. Len(ch) - 1 /\ k \in 0 .. Len(ch) - 1
          /\ (k - 1) + 1 = k /\ (k + 1) - 1 = k
      BY <1>2, <2>1
    <3>2. CASE k < i
      <4>1. i > b /\ k \in b + 1 .. Len(ch) /\ k - 1 < i
        BY <1>2, <2>1, <3>1, <3>2
      <4>2. now[k] = ch[k] /\ place2[k - 1] = place[k - 1] /\ place2[k] = place[k]
        BY <2>1, <3>1, <3>2, <4>1
      <4> QED BY <1>1, <4>1, <4>2
    <3>3. CASE k >= i
      <4>1. k + 1 \in b + 1 .. Len(ch) /\ ~(k < i)
        BY <1>2, <2>1, <3>1, <3>3
      <4>2. now[k] = ch[k + 1] /\ place2[k] = place[k + 1]
        BY <1>2, <2>1, <3>1, <4>1
      <4>3. place2[k - 1] = place[k]
        <5>1. CASE i > b /\ k = i
          BY <1>2, <2>2, <3>1, <5>1
        <5>2. CASE ~(i > b /\ k - 1 < i)
          BY <3>1, <5>2
        <5> QED BY <1>2, <3>1, <3>3, <5>1, <5>2
      <4>4. Carries(ch[k + 1], place[(k + 1) - 1], place[k + 1], s)
        BY <1>1, <4>1
      <4> QED BY <3>1, <4>2, <4>3, <4>4
    <3> QED BY <3>1, <3>2, <3>3
  <2>6. Placed(now, b2, from, to, s)
    <3> HIDE DEF b2, place2
    <3> QED BY <2>3, <2>4, <2>5 DEF Placed
  <2> QED BY <2>6
<1> QED
  BY <1>3, <1>4

----------------------------------------------------------------------------
(* The inductive invariant.                                                *)
Content == Source[Files[file]]

(* The sender offers a file, sends it, and is done; the receiver waits for *)
(* a file and receives it.                                                 *)
Offering  == {"file", "file_ack", "drain"}
Sending   == {"zdata", "stream", "wait", "check", "check_sync", "peek", "peek_sync", "eof", "eof_ack"}
Finishing == {"fin", "fin_ack", "end"}
Waiting   == {"tryz", "tryz_hdr", "tryz_name"}
Receiving == {"rz_pos", "rz_hdr", "rz_skip", "rz_data"}

LineType ==
  /\ toRx \in Seq(RxToken) /\ toTx \in Seq(TxToken) /\ faults \in 0 .. Faults

SzType ==
  /\ spc \in Offering \cup Sending \cup Finishing
  /\ file \in DOMAIN Files /\ Eofseen \in BOOLEAN
  /\ Txpos \in Nat /\ Lastsync \in Nat \cup {-1}
  /\ spc \in Sending => Txpos <= size /\ Lastsync <= size
  /\ sent \in [Names -> {"none", "OK", "ERROR"}]

RzType ==
  /\ rpc \in Waiting \cup Receiving \cup {"bibi", "bibi_ack", "end", "xmodem"}
  /\ n \in 0 .. Max({TryzTries, RzTries, 3})
  /\ rpc = "bibi" => n > 0
  /\ fout \in Names \cup {"none", "closed"} /\ rxbytes \in Nat
  /\ rpc \in Receiving <=> fout \in Names
  /\ fout \in Names => rxbytes = Len(stored[fout])
  /\ received \in {"none", "OK", "ERROR"}
  /\ card \in Cards /\ stored \in [Names -> Seq(Units)]

TypeInv == LineType /\ SzType /\ RzType

(* No ZRINIT follows a ZRPOS on the line while a file is offered, and none *)
(* reaches the sender of a file before all of it is stored.                *)
Comes(ch, type, i) == Whole(ch[i]) /\ ch[i].type = type
Without(ch, type) == \A i \in DOMAIN ch : ~Comes(ch, type, i)
NoneAfter(ch, first, then) ==
  \A i, j \in DOMAIN ch : i < j => ~(Comes(ch, first, i) /\ Comes(ch, then, j))

Stored == stored[Files[file]] = Content

Answers ==
  /\ spc \in Offering =>
       /\ NoneAfter(toTx, "ZRPOS", "ZRINIT")
       /\ rpc \in Waiting => Without(toTx, "ZRPOS")
  /\ spc \in Sending =>
       /\ NoneAfter(toTx, "ZRINIT", "ZRPOS")
       /\ Without(toTx, "ZRINIT") \/ (rpc \notin Receiving /\ Stored)
       /\ rpc \in Waiting => Stored

(* The line to the receiver holds what is left of earlier files, where no  *)
(* ZFILE is, up to a; the offers of this file up to b, every ZFILE with    *)
(* its name behind it; and then its stream.                                *)
Offer(ch, i, b, name) ==
  /\ ch[i].kind \in {"header", "data"}
  /\ Whole(ch[i]) => ch[i].type = "ZFILE" /\ i < b /\ ch[i + 1].kind = "data"
  /\ ch[i].kind = "data" /\ ch[i].good => ch[i].units = <<name>> /\ ch[i].end = "ZCRCW"

Ordered(ch, a, b, name) ==
  /\ a <= b
  /\ \A i \in 1 .. a : Whole(ch[i]) => ch[i].type # "ZFILE"
  /\ \A i \in a + 1 .. b : Offer(ch, i, b, name)

Stage(a, b) ==
  /\ spc \in Offering => b = Len(toRx)
  /\ spc \in Sending /\ rpc \in Waiting => b = 0
  /\ rpc \in Receiving => a = 0
  /\ rpc = "tryz_name" => a = 0 /\ b > 0 /\ toRx[1].kind = "data"
  /\ rpc = "rz_data" => b = 0

(* What the sender says next belongs at Txpos while a stream is open.      *)
Open == spc = "stream" \/ (spc \in {"check", "check_sync"} /\ ~Eofseen)
Ahead == IF Open THEN {Txpos} ELSE 0 .. size
Here == IF rpc = "rz_data" THEN {rxbytes} ELSE 0 .. size

Streamed(b) == \A v \in Ahead : Placed(toRx, b, Here, v, Content)

LineInv ==
  rpc \in Waiting \cup Receiving =>
    \E a, b \in 0 .. Len(toRx) : Ordered(toRx, a, b, Files[file]) /\ Stage(a, b) /\ Streamed(b)

PlaceInv ==
  /\ rpc \in Receiving => fout = Files[file]
  /\ rpc = "rz_data" => spc \notin Offering
  /\ spc \in {"eof", "eof_ack"} \/ (spc \in {"check", "check_sync"} /\ Eofseen) => Txpos = size

(* Reports are given once, and what is stored is whole, or untouched, or   *)
(* being received.                                                         *)
ReportInv ==
  /\ spc \notin Finishing => \A j \in file .. Len(Files) : sent[Files[j]] = "none"
  /\ rpc # "end" => received = "none"
  /\ \A f \in Names : stored[f] = card.held[f] \/ IsPrefix(stored[f], Source[f])
  /\ rpc \notin {"end", "xmodem"} =>
       \A f \in Names : f = fout \/ stored[f] = card.held[f] \/ stored[f] = Source[f]

Inv == TypeInv /\ Answers /\ LineInv /\ PlaceInv /\ ReportInv

----------------------------------------------------------------------------
(* Types.                                                                  *)
LEMMA FileFacts ==
    /\ Len(Files) \in Nat \ {0} /\ DOMAIN Files = 1 .. Len(Files)
    /\ \A i \in DOMAIN Files : Files[i] \in Names
    /\ \A f \in Names : Source[f] \in Seq(Units) /\ Len(Source[f]) \in Nat
<1>1. Files \in Seq(Names) /\ Files # <<>> /\ Source \in [Names -> Seq(Units)]
  BY FilesAssumption
<1> QED
  BY <1>1, EmptySeq, LenProperties, ElementOfSeq

LEMMA MaxTries ==
    LET m == Max({TryzTries, RzTries, 3})
    IN  m \in Nat /\ TryzTries <= m /\ RzTries <= m /\ 3 <= m
<1> DEFINE S == {TryzTries, RzTries, 3}
<1>1. TryzTries \in Nat /\ RzTries \in Nat
  BY FilesAssumption
<1>2. \E x \in S : \A y \in S : x >= y
  <2>1. CASE TryzTries >= RzTries /\ TryzTries >= 3
    BY <1>1, <2>1
  <2>2. CASE RzTries >= TryzTries /\ RzTries >= 3
    BY <1>1, <2>2
  <2>3. CASE 3 >= TryzTries /\ 3 >= RzTries
    BY <1>1, <2>3
  <2> QED BY <1>1, <2>1, <2>2, <2>3
<1>3. Max(S) \in S /\ \A y \in S : Max(S) >= y
  BY <1>2, Zenon DEF Max
<1> QED
  BY <1>1, <1>3

LEMMA MinOfTwo ==
    ASSUME NEW x \in Nat, NEW y \in Nat
    PROVE  Min({x, y}) = IF x <= y THEN x ELSE y
<1>1. Min({x, y}) \in {x, y} /\ \A z \in {x, y} : Min({x, y}) <= z
  BY MinIn
<1> QED
  BY <1>1

(* What the sender reads of the file is what comes next in it, and it is   *)
(* less than a block only at the end.                                      *)
LEMMA BufferIs ==
    ASSUME file \in DOMAIN Files, Txpos \in Nat, Txpos <= size
    PROVE  /\ zfilbuf \in Seq(Units) /\ Len(zfilbuf) \in Nat
           /\ Txpos + Len(zfilbuf) <= size
           /\ zfilbuf = SubSeq(Content, Txpos + 1, Txpos + Len(zfilbuf))
           /\ Len(zfilbuf) < BlkLen => Txpos + Len(zfilbuf) = size
<1> DEFINE end == Min({Txpos + BlkLen, size})
<1>1. Content \in Seq(Units) /\ size \in Nat /\ size = Len(Content) /\ BlkLen \in Nat \ {0}
  BY FileFacts, FilesAssumption DEF Content, size
<1>2. end = IF Txpos + BlkLen <= size THEN Txpos + BlkLen ELSE size
  BY <1>1, MinOfTwo
<1> HIDE DEF end
<1>3. end \in Int /\ Txpos + 1 \in Int /\ end >= Txpos /\ end <= size
  BY <1>1, <1>2
<1>4. \A i \in Txpos + 1 .. end : Content[i] \in Units
  BY <1>1, <1>3, ElementOfSeq
<1>5. SubSeq(Content, Txpos + 1, end) \in Seq(Units)
      /\ Len(SubSeq(Content, Txpos + 1, end)) = IF Txpos + 1 <= end THEN end - (Txpos + 1) + 1 ELSE 0
  BY <1>3, <1>4, SubSeqProperties
<1>6. zfilbuf = SubSeq(Content, Txpos + 1, end)
  BY DEF zfilbuf, Content, end
<1>7. Len(zfilbuf) = end - Txpos /\ zfilbuf \in Seq(Units)
  BY <1>3, <1>5, <1>6
<1>8. Txpos + Len(zfilbuf) = end /\ Len(zfilbuf) \in Nat
  BY <1>3, <1>7
<1> QED
  BY <1>1, <1>2, <1>3, <1>6, <1>7, <1>8

LEMMA SaysType ==
    ASSUME TypeInv, NEW tokens \in Seq(RxToken), Says(tokens)
    PROVE  toRx' \in Seq(RxToken)
BY EmptySeq, ConcatProperties DEF TypeInv, LineType, Says

LEMMA RepliesType ==
    ASSUME TypeInv, NEW tok \in TxToken, Replies(tok)
    PROVE  toTx' \in Seq(TxToken)
BY EmptySeq, AppendProperties DEF TypeInv, LineType, Replies

LEMMA Tokens ==
    /\ \A type \in RxTypes, pos \in Nat : Header(type, pos) \in RxToken
    /\ \A type \in TxTypes, pos \in Nat : Header(type, pos) \in TxToken
    /\ \A u \in Seq(Units \cup Names), e \in Ends : Subpacket(u, e) \in RxToken
    /\ over \in RxToken /\ canit \in TxToken
BY DEF Header, Subpacket, RxToken, TxToken, HeaderOf, Data

LEMMA TokenFields ==
    /\ \A tok \in RxToken : /\ tok.kind \in {"header", "data", "over"}
                            /\ Whole(tok) => tok.type \in RxTypes /\ tok.pos \in Nat
    /\ \A tok \in TxToken : /\ tok.kind \in {"header", "can"}
                            /\ Whole(tok) => tok.type \in TxTypes /\ tok.pos \in Nat
BY DEF RxToken, TxToken, HeaderOf, Data, Whole, over, canit

(* A read by the sender: what it returns and what it leaves.               *)
LEMMA SzRead ==
    ASSUME TypeInv, NEW r \in {zgethdr(toTx), Late(toTx)}, SzReads(r)
    PROVE  /\ toTx' \in Seq(TxToken) /\ faults' \in 0 .. Faults
           /\ \E i \in 0 .. Len(toTx) :
                /\ toTx' = After(toTx, i)
                /\ r.c \notin Failure =>
                     /\ i \in DOMAIN toTx /\ Comes(toTx, r.c, i)
                     /\ r.c \in TxTypes /\ r.pos \in Nat
<1>1. toTx \in Seq(TxToken) /\ faults \in 0 .. Faults /\ Faults \in Nat
  BY FilesAssumption DEF TypeInv, LineType
<1>2. faults' \in 0 .. Faults /\ toTx' = r.rest
  BY <1>1 DEF SzReads, Reads
<1>3. PICK i \in 0 .. Len(toTx) :
        /\ r.rest = After(toTx, i)
        /\ r.c \notin Failure =>
             i > 0 /\ Whole(toTx[i]) /\ r.c = toTx[i].type /\ r.pos = toTx[i].pos
  BY <1>1, HeaderRead
<1>4. toTx' \in Seq(TxToken) /\ toTx' = After(toTx, i)
  BY <1>1, <1>2, <1>3, AfterIs
<1>5. ASSUME r.c \notin Failure
      PROVE  i \in DOMAIN toTx /\ Comes(toTx, r.c, i) /\ r.c \in TxTypes /\ r.pos \in Nat
  <2>1. i \in 1 .. Len(toTx) /\ Whole(toTx[i]) /\ r.c = toTx[i].type /\ r.pos = toTx[i].pos
    BY <1>1, <1>3, <1>5, LenProperties
  <2>2. toTx[i] \in TxToken
    BY <1>1, <2>1, ElementOfSeq
  <2>3. r.c \in TxTypes /\ r.pos \in Nat
    BY <2>1, <2>2, TokenFields
  <2> QED BY <1>1, <2>1, <2>3, LenProperties DEF Comes
<1> QED
  BY <1>2, <1>4, <1>5

(* Reads by the receiver.                                                  *)
LEMMA RzReadHeader ==
    ASSUME TypeInv, NEW r \in {zgethdr(toRx), Late(toRx)}, RzReads(r, zgethdr(toRx))
    PROVE  /\ toRx' \in Seq(RxToken) /\ faults' \in 0 .. Faults
           /\ \E i \in 0 .. Len(toRx) :
                /\ toRx' = After(toRx, i)
                /\ r.c \notin Failure =>
                     /\ i \in 1 .. Len(toRx) /\ Whole(toRx[i])
                     /\ r.c = toRx[i].type /\ r.pos = toRx[i].pos
<1>1. toRx \in Seq(RxToken) /\ faults \in 0 .. Faults /\ Faults \in Nat
  BY FilesAssumption DEF TypeInv, LineType
<1>2. faults' \in 0 .. Faults /\ toRx' = r.rest
  BY <1>1 DEF RzReads, Reads
<1>3. Len(toRx) \in Nat
  BY <1>1, LenProperties
<1>4. PICK i \in 0 .. Len(toRx) :
        /\ r.rest = After(toRx, i)
        /\ r.c \notin Failure =>
             i > 0 /\ Whole(toRx[i]) /\ r.c = toRx[i].type /\ r.pos = toRx[i].pos
  BY <1>1, HeaderRead
<1>5. After(toRx, i) \in Seq(RxToken)
  BY <1>1, AfterIs
<1>6. r.c \notin Failure => i \in 1 .. Len(toRx)
  BY <1>3, <1>4
<1> QED
  BY <1>2, <1>4, <1>5, <1>6, Zenon

LEMMA RzReadData ==
    ASSUME TypeInv, NEW r \in {zrdata(toRx), Late(toRx)}, RzReads(r, zrdata(toRx))
    PROVE  /\ toRx' \in Seq(RxToken) /\ faults' \in 0 .. Faults
           /\ \E i \in 0 .. Len(toRx) :
                /\ toRx' = After(toRx, i)
                /\ r.c \notin Failure =>
                     /\ i = 1 /\ 1 \in 1 .. Len(toRx) /\ toRx[1].kind = "data" /\ toRx[1].good
                     /\ r.c = toRx[1].end /\ r.units = toRx[1].units /\ r.c \in Ends
<1>1. toRx \in Seq(RxToken) /\ faults \in 0 .. Faults /\ Faults \in Nat
  BY FilesAssumption DEF TypeInv, LineType
<1>2. faults' \in 0 .. Faults /\ toRx' = r.rest
  BY <1>1 DEF RzReads, Reads
<1>3. Len(toRx) \in Nat
  BY <1>1, LenProperties
<1>4. PICK i \in 0 .. Len(toRx) :
        /\ r.rest = After(toRx, i)
        /\ r.c \notin Failure =>
             /\ i = 1 /\ toRx[1].kind = "data" /\ toRx[1].good
             /\ r.c = toRx[1].end /\ r.units = toRx[1].units /\ r.c # "none"
  BY <1>1, DataRead
<1>5. ASSUME r.c \notin Failure PROVE 1 \in 1 .. Len(toRx) /\ r.c \in Ends
  <2>1. 1 \in 1 .. Len(toRx)
    BY <1>3, <1>4, <1>5
  <2>2. toRx[1] \in RxToken
    BY <1>1, <2>1, ElementOfSeq
  <2>3. toRx[1] \in Data
    BY <1>4, <1>5, <2>2 DEF RxToken, HeaderOf, over
  <2> QED BY <1>4, <1>5, <2>1, <2>3 DEF Data
<1>6. After(toRx, i) \in Seq(RxToken)
  BY <1>1, AfterIs
<1> QED
  BY <1>2, <1>4, <1>5, <1>6, Zenon

(* What the receiver of a name reads is the name of the file being offered.*)
LEMMA NameIs ==
    ASSUME TypeInv, LineInv, rpc = "tryz_name", 1 \in 1 .. Len(toRx), toRx[1].kind = "data", toRx[1].good
    PROVE  toRx[1].units = <<Files[file]>> /\ toRx[1].end = "ZCRCW" /\ spc \notin Sending
<1>1. PICK a, b \in 0 .. Len(toRx) : Ordered(toRx, a, b, Files[file]) /\ Stage(a, b)
  BY DEF LineInv, Waiting
<1>2. a = 0 /\ b > 0 /\ spc \notin Sending
  BY <1>1 DEF Stage, Waiting
<1>3. 1 \in a + 1 .. b
  BY <1>1, <1>2
<1>4. Offer(toRx, 1, b, Files[file])
  BY <1>1, <1>3 DEF Ordered
<1> QED
  BY <1>2, <1>4 DEF Offer

(* The data taken is what comes next in the file being sent.               *)
LEMMA SomethingAhead == TypeInv => size \in Nat /\ \E v \in 0 .. size : v \in Ahead
<1> SUFFICES ASSUME TypeInv PROVE size \in Nat /\ \E v \in 0 .. size : v \in Ahead
  OBVIOUS
<1>1. size \in Nat /\ Txpos \in Nat
  BY FileFacts DEF TypeInv, SzType, size
<1>2. CASE Open
  BY <1>1, <1>2 DEF Open, Ahead, TypeInv, SzType, Sending
<1>3. CASE ~Open
  BY <1>1, <1>3 DEF Ahead
<1> QED
  BY <1>1, <1>2, <1>3

LEMMA DataIs ==
    ASSUME TypeInv, LineInv, rpc = "rz_data", 1 \in 1 .. Len(toRx), toRx[1].kind = "data", toRx[1].good
    PROVE  /\ rxbytes + Len(toRx[1].units) <= size
           /\ toRx[1].units = SubSeq(Content, rxbytes + 1, rxbytes + Len(toRx[1].units))
           /\ toRx[1].units \in Seq(Units) /\ Len(toRx[1].units) \in Nat
<1>1. PICK a, b \in 0 .. Len(toRx) : Stage(a, b) /\ Streamed(b)
  BY DEF LineInv, Receiving
<1>2. b = 0 /\ Here = {rxbytes}
  BY <1>1 DEF Stage, Here
<1>3. PICK v \in 0 .. size : Placed(toRx, 0, {rxbytes}, v, Content)
  BY <1>1, <1>2, SomethingAhead DEF Streamed
<1>4. PICK p, q \in 0 .. Len(Content) : p = rxbytes /\ Carries(toRx[1], p, q, Content)
  <2>1. PICK place \in [0 .. Len(toRx) -> 0 .. Len(Content)] :
          /\ place[0] \in {rxbytes}
          /\ \A i \in 0 + 1 .. Len(toRx) : Carries(toRx[i], place[i - 1], place[i], Content)
    BY <1>3 DEF Placed
  <2>2. Carries(toRx[1], place[1 - 1], place[1], Content)
    BY <2>1
  <2>3. 1 - 1 = 0 /\ 0 \in 0 .. Len(toRx) /\ 1 \in 0 .. Len(toRx)
    OBVIOUS
  <2> QED BY <2>1, <2>2, <2>3
<1>5. toRx[1] \in RxToken
  BY ElementOfSeq DEF TypeInv, LineType
<1>6. Len(toRx[1].units) \in Nat
  <2>1. toRx[1].units \in Seq(Units \cup Names)
    BY <1>5 DEF RxToken, HeaderOf, Data, over
  <2> QED BY <2>1, LenProperties
<1>7. rxbytes + Len(toRx[1].units) <= size
      /\ toRx[1].units = SubSeq(Content, rxbytes + 1, rxbytes + Len(toRx[1].units))
  BY <1>4 DEF Carries, size, Content
<1>8. toRx[1].units \in Seq(Units)
  <2>1. Content \in Seq(Units) /\ size = Len(Content) /\ size \in Nat /\ rxbytes \in Nat
    BY FileFacts DEF TypeInv, SzType, RzType, Content, size
  <2>2. \A i \in rxbytes + 1 .. rxbytes + Len(toRx[1].units) : Content[i] \in Units
    BY <1>6, <1>7, <2>1, ElementOfSeq
  <2>3. SubSeq(Content, rxbytes + 1, rxbytes + Len(toRx[1].units)) \in Seq(Units)
    BY <1>6, <2>1, <2>2, SubSeqProperties
  <2> QED BY <1>7, <2>3
<1> QED
  BY <1>6, <1>7, <1>8

LEMMA TypeImplies == TypeInv => TypeOK
<1> SUFFICES ASSUME TypeInv PROVE TypeOK
  OBVIOUS
<1>1. /\ spc \in SzListens \cup {"file", "zdata", "stream", "check", "peek", "eof", "fin", "end"}
      /\ rpc \in {"tryz", "tryz_hdr", "tryz_name", "rz_pos", "rz_hdr", "rz_skip", "rz_data",
                  "bibi", "bibi_ack", "end", "xmodem"}
  BY DEF TypeInv, SzType, RzType, SzListens, Offering, Sending, Finishing, Waiting, Receiving
<1>2. (rpc \in {"rz_pos", "rz_hdr", "rz_skip", "rz_data"}) = (fout \in Names)
  BY DEF TypeInv, RzType, Receiving
<1>3. spc \in {"zdata", "stream", "wait", "check", "check_sync", "peek", "peek_sync", "eof", "eof_ack"}
        => Txpos <= size /\ Lastsync <= size
  BY DEF TypeInv, SzType, Sending
<1>4. \A i \in DOMAIN toTx : toTx[i].kind \in {"header", "can"}
  BY LenProperties, ElementOfSeq, TokenFields DEF TypeInv, LineType
<1>5. /\ file \in DOMAIN Files /\ Eofseen \in BOOLEAN
      /\ Txpos \in Nat /\ Lastsync \in Nat \cup {-1}
      /\ \A f \in Names : sent[f] \in {"none", "OK", "ERROR"}
  BY DEF TypeInv, SzType
<1>6. /\ n \in 0 .. Max({TryzTries, RzTries, 3}) /\ faults \in 0..Faults
      /\ fout \in Names => rxbytes = Len(stored[fout])
  BY DEF TypeInv, LineType, RzType
<1> QED
  BY <1>1, <1>2, <1>3, <1>4, <1>5, <1>6, Zenon DEF TypeOK

LEMMA TypeInit == Init => TypeInv
<1> SUFFICES ASSUME Init PROVE TypeInv
  OBVIOUS
<1>1. LineType
  <2>1. Header("ZRQINIT", 0) \in RxToken
    BY Tokens DEF RxTypes
  <2>2. <<Header("ZRQINIT", 0)>> \in Seq(RxToken)
    BY <2>1
  <2>3. faults \in 0 .. Faults
    BY FilesAssumption DEF Init
  <2> QED BY <2>2, <2>3, EmptySeq DEF Init, LineType
<1>2. SzType
  <2>1. file \in DOMAIN Files /\ spc = "file" /\ Txpos = 0 /\ Lastsync = 0 /\ Eofseen = FALSE
    BY FileFacts DEF Init
  <2>2. sent \in [Names -> {"none", "OK", "ERROR"}]
    BY DEF Init
  <2> QED BY <2>1, <2>2 DEF SzType, Offering, Sending
<1>3. RzType
  <2>1. TryzTries \in Nat /\ n \in 0 .. Max({TryzTries, RzTries, 3})
    BY FilesAssumption, MaxTries DEF Init
  <2>2. stored \in [Names -> Seq(Units)] /\ card \in Cards /\ fout \notin Names
    BY FilesAssumption DEF Init
  <2> QED BY <2>1, <2>2 DEF Init, RzType, Waiting, Receiving
<1> QED
  BY <1>1, <1>2, <1>3 DEF TypeInv

(* What wcs leaves.                                                        *)
LEMMA WcsType ==
    ASSUME TypeInv, NEW result \in {"OK", "ERROR"}, wcs(result)
    PROVE  /\ spc' \in {"file", "fin"} /\ file' \in DOMAIN Files /\ Eofseen' = FALSE
           /\ sent' \in [Names -> {"none", "OK", "ERROR"}]
BY FileFacts DEF TypeInv, SzType, wcs, NextFile

(* A subpacket with the name, and one with what comes next in the file.    *)
LEMMA SubpacketTypes ==
    TypeInv => /\ wctxpn \in RxToken /\ Subpacket(<<>>, "ZCRCE") \in RxToken
               /\ \A u \in Seq(Units), e \in Ends : Subpacket(u, e) \in RxToken
<1> SUFFICES ASSUME TypeInv
             PROVE  /\ wctxpn \in RxToken /\ Subpacket(<<>>, "ZCRCE") \in RxToken
                    /\ \A u \in Seq(Units), e \in Ends : Subpacket(u, e) \in RxToken
  OBVIOUS
<1>1. Files[file] \in Names
  BY FileFacts DEF TypeInv, SzType
<1>2. <<Files[file]>> \in Seq(Units \cup Names) /\ <<>> \in Seq(Units \cup Names)
  BY <1>1, EmptySeq
<1>3. Seq(Units) \subseteq Seq(Units \cup Names)
  BY SeqMonotonic
<1>4. "ZCRCW" \in Ends /\ "ZCRCE" \in Ends
  BY DEF Ends
<1> QED
  BY <1>2, <1>3, <1>4, Tokens DEF wctxpn

LEMMA SyncedType ==
    ASSUME TypeInv, NEW r, Synced(r), r.c \notin Failure => r.pos \in Nat,
           spc \in {"wait", "check_sync", "peek_sync", "eof_ack"}
    PROVE  SzType' /\ toRx' \in Seq(RxToken)
<1> DEFINE seek   == r.c = "ZRPOS" /\ r.pos <= size
           failed == r.c \in Ending \/ (r.c = "ZRPOS" /\ ~seek)
<1>1. toRx' \in Seq(RxToken)
  <2>1. \E tokens \in {<<Subpacket(<<>>, "ZCRCE")>>, <<Header("ZNAK", 0)>>, <<>>} : Says(tokens)
    BY DEF Synced
  <2>2. {<<Subpacket(<<>>, "ZCRCE")>>, <<Header("ZNAK", 0)>>, <<>>} \subseteq Seq(RxToken)
    BY SubpacketTypes, Tokens, EmptySeq DEF RxTypes
  <2> QED BY <2>1, <2>2, SaysType
<1>2. CASE failed \/ r.c = "ZRINIT"
  <2>1. PICK result \in {"OK", "ERROR"} : wcs(result)
    BY <1>2 DEF Synced
  <2>2. ~seek /\ Txpos' = Txpos /\ Lastsync' = Lastsync
    BY <1>2 DEF Synced, Ending
  <2>3. spc' \in {"file", "fin"} /\ file' \in DOMAIN Files /\ Eofseen' = FALSE
        /\ sent' \in [Names -> {"none", "OK", "ERROR"}]
    BY <2>1, WcsType
  <2> QED
    BY <1>1, <2>2, <2>3 DEF TypeInv, SzType, Offering, Sending, Finishing
<1>3. CASE ~failed /\ r.c # "ZRINIT"
  <2>1. spc' \in Sending /\ file' = file /\ sent' = sent /\ Eofseen' \in BOOLEAN
    BY <1>3 DEF Synced, SyncReturn, Sending, TypeInv, SzType
  <2>2. CASE seek
    <3>1. Txpos' = r.pos /\ Lastsync' = r.pos /\ r.pos <= size /\ r.pos \in Nat
      BY <2>2 DEF Synced, Failure
    <3> QED
      BY <1>1, <2>1, <3>1 DEF TypeInv, SzType, Sending, size
  <2>3. CASE ~seek
    <3>1. Txpos' = Txpos /\ Lastsync' = Lastsync
      BY <2>3 DEF Synced
    <3> QED
      BY <1>1, <2>1, <3>1 DEF TypeInv, SzType, Sending, size
  <2> QED BY <2>2, <2>3
<1> QED
  BY <1>2, <1>3

LEMMA SenderType == TypeInv /\ SzNext => TypeInv'
<1> SUFFICES ASSUME TypeInv, SzNext PROVE TypeInv'
  OBVIOUS
<1> USE DEF line, sender, receiver
<1>0. RzType'
  BY DEF TypeInv, RzType, SzNext, zsendfile, zsendfileAnswer, zsendfileDrain, zsendfdata,
         zsendfdataNext, ReadCheck, zsendfdataEof, getinsync, saybibi, saybibiAnswer
<1>1. ASSUME NEW tokens \in Seq(RxToken), Says(tokens), UNCHANGED <<toTx, faults>>
      PROVE  LineType'
  BY <1>1, SaysType DEF TypeInv, LineType
<1>2. ASSUME NEW r \in {zgethdr(toTx), Late(toTx)}, SzReads(r), toRx' \in Seq(RxToken)
      PROVE  LineType'
  BY <1>2, SzRead DEF LineType
<1>3. \A type \in RxTypes, pos \in Nat : <<Header(type, pos)>> \in Seq(RxToken)
  BY Tokens
<1>4. CASE zsendfile
  <2>1. <<Header("ZFILE", 0), wctxpn>> \in Seq(RxToken)
    BY Tokens, SubpacketTypes DEF RxTypes
  <2>2. LineType'
    BY <1>1, <1>4, <2>1 DEF zsendfile
  <2>3. SzType'
    BY <1>4 DEF TypeInv, SzType, zsendfile, Offering, Sending, size
  <2> QED BY <1>0, <2>2, <2>3 DEF TypeInv
<1>5. CASE zsendfileAnswer
  <2>1. PICK r \in {zgethdr(toTx), Late(toTx)} : SzReads(r) /\ FileAnswered(r)
    BY <1>5 DEF zsendfileAnswer
  <2>2. LineType'
    BY <1>2, <1>5, <2>1 DEF zsendfileAnswer, TypeInv, LineType
  <2>3. SzType'
    <3>1. CASE UNCHANGED <<Txpos, Lastsync>> /\ wcs("ERROR")
      BY <3>1, WcsType DEF TypeInv, SzType, Offering, Sending, Finishing
    <3>2. CASE /\ r.c = "ZRPOS" /\ r.pos <= size
               /\ spc' = "zdata" /\ Txpos' = r.pos /\ Lastsync' = r.pos - 1
               /\ UNCHANGED <<file, Eofseen, sent>>
      <4>1. r.pos \in Nat /\ size \in Nat
        BY <2>1, <3>2, SzRead, SomethingAhead DEF Failure
      <4>2. Lastsync' \in Nat \cup {-1} /\ Lastsync' <= size
        BY <3>2, <4>1
      <4> QED BY <3>2, <4>1, <4>2 DEF TypeInv, SzType, Sending, size
    <3>3. CASE /\ spc' \in {"drain", "file"} /\ UNCHANGED <<file, Txpos, Lastsync, Eofseen, sent>>
      BY <3>3 DEF TypeInv, SzType, Offering, Sending
    <3>4. r.c = "ZRPOS" => (r.pos > size \/ r.pos <= size)
      BY <2>1, SzRead, SomethingAhead DEF Failure
    <3> QED BY <2>1, <3>1, <3>2, <3>3, <3>4 DEF FileAnswered
  <2> QED BY <1>0, <2>2, <2>3 DEF TypeInv
<1>6. CASE zsendfileDrain
  <2>1. toTx' \in Seq(TxToken)
    <3> DEFINE headers == {i \in DOMAIN toTx : toTx[i].kind = "header"}
    <3>1. CASE headers = {}
      BY <1>6, <3>1, EmptySeq DEF zsendfileDrain
    <3>2. CASE headers # {}
      <4>1. toTx \in Seq(TxToken) /\ DOMAIN toTx = 1 .. Len(toTx) /\ headers \subseteq Nat
        BY LenProperties DEF TypeInv, LineType
      <4>2. Min(headers) \in 1 .. Len(toTx)
        <5>1. headers \subseteq 1 .. Len(toTx)
          BY <4>1
        <5> HIDE DEF headers
        <5> QED BY <3>2, <4>1, <5>1, MinIn
      <4>3. toTx' = After(toTx, Min(headers) - 1)
        BY <1>6, <3>2 DEF zsendfileDrain
      <4>4. Min(headers) - 1 \in 0 .. Len(toTx)
        BY <4>2
      <4> HIDE DEF headers
      <4> QED BY <4>1, <4>3, <4>4, AfterIs
    <3> QED BY <3>1, <3>2
  <2>2. LineType'
    BY <1>6, <2>1 DEF TypeInv, LineType, zsendfileDrain
  <2>3. SzType'
    BY <1>6 DEF TypeInv, SzType, zsendfileDrain, Offering, Sending
  <2> QED BY <1>0, <2>2, <2>3 DEF TypeInv
<1>7. CASE zsendfdata
  <2>1. LineType'
    BY <1>1, <1>3, <1>7 DEF zsendfdata, RxTypes, TypeInv, SzType
  <2>2. SzType'
    BY <1>7 DEF TypeInv, SzType, zsendfdata, Sending, size
  <2> QED BY <1>0, <2>1, <2>2 DEF TypeInv
<1>8. CASE zsendfdataNext
  <2>1. PICK e \in Ends :
          /\ Says(<<Subpacket(zfilbuf, e)>>)
          /\ Txpos' = Txpos + Len(zfilbuf) /\ Eofseen' = (Len(zfilbuf) < BlkLen)
          /\ spc' = IF e = "ZCRCW" THEN "wait" ELSE "check"
    BY <1>8 DEF zsendfdataNext, Ends
  <2>2. Txpos \in Nat /\ Txpos <= size /\ Lastsync <= size /\ file \in DOMAIN Files
    BY <1>8 DEF zsendfdataNext, TypeInv, SzType, Sending
  <2>3. zfilbuf \in Seq(Units) /\ Len(zfilbuf) \in Nat /\ Txpos + Len(zfilbuf) <= size
    BY <2>2, BufferIs
  <2>4. LineType'
    <3>1. <<Subpacket(zfilbuf, e)>> \in Seq(RxToken)
      <4>1. Subpacket(zfilbuf, e) \in RxToken
        BY <2>3, SubpacketTypes
      <4> QED BY <4>1
    <3>2. UNCHANGED <<toTx, faults>>
      BY <1>8 DEF zsendfdataNext
    <3> QED BY <1>1, <2>1, <3>1, <3>2
  <2>5. Txpos' \in Nat /\ Txpos' <= size /\ Eofseen' \in BOOLEAN /\ spc' \in Sending
    BY <2>1, <2>2, <2>3 DEF Sending
  <2>6. SzType'
    BY <1>8, <2>2, <2>5 DEF TypeInv, SzType, zsendfdataNext, size
  <2> QED BY <1>0, <2>4, <2>6 DEF TypeInv
<1>9. CASE ReadCheck
  <2>1. LineType'
    BY <1>9 DEF TypeInv, LineType, ReadCheck
  <2>2. spc' \in Sending /\ spc \in Sending
    BY <1>9 DEF ReadCheck, Sending
  <2>3. SzType'
    BY <1>9, <2>2 DEF TypeInv, SzType, ReadCheck, size
  <2> QED BY <1>0, <2>1, <2>3 DEF TypeInv
<1>10. CASE zsendfdataEof
  <2>1. LineType'
    BY <1>1, <1>3, <1>10 DEF zsendfdataEof, RxTypes, TypeInv, SzType
  <2>2. SzType'
    BY <1>10 DEF TypeInv, SzType, zsendfdataEof, Sending, size
  <2> QED BY <1>0, <2>1, <2>2 DEF TypeInv
<1>11. CASE getinsync
  <2>1. PICK r \in {zgethdr(toTx), Late(toTx)} : SzReads(r) /\ Synced(r)
    BY <1>11 DEF getinsync
  <2>2. r.c \notin Failure => r.pos \in Nat
    BY <2>1, SzRead
  <2>3. SzType' /\ toRx' \in Seq(RxToken)
    BY <1>11, <2>1, <2>2, SyncedType DEF getinsync
  <2> QED BY <1>0, <1>2, <2>1, <2>3 DEF TypeInv
<1>12. CASE saybibi
  <2>1. LineType'
    BY <1>1, <1>3, <1>12 DEF saybibi, RxTypes
  <2>2. SzType'
    BY <1>12 DEF TypeInv, SzType, saybibi, Sending, Finishing
  <2> QED BY <1>0, <2>1, <2>2 DEF TypeInv
<1>13. CASE saybibiAnswer
  <2>1. PICK r \in {zgethdr(toTx), Late(toTx)} :
          /\ SzReads(r)
          /\ Says(IF r.c = "ZFIN" THEN <<over>> ELSE <<>>)
          /\ spc' = IF r.c \in Ending THEN "end" ELSE "fin"
    BY <1>13 DEF saybibiAnswer
  <2>2. toRx' \in Seq(RxToken)
    <3>1. <<over>> \in Seq(RxToken) /\ <<>> \in Seq(RxToken)
      BY Tokens, EmptySeq
    <3> QED BY <2>1, <3>1, SaysType
  <2>3. LineType'
    BY <1>2, <2>1, <2>2
  <2>4. SzType'
    BY <1>13, <2>1 DEF TypeInv, SzType, saybibiAnswer, Sending, Finishing
  <2> QED BY <1>0, <2>3, <2>4 DEF TypeInv
<1> QED
  BY <1>4, <1>5, <1>6, <1>7, <1>8, <1>9, <1>10, <1>11, <1>12, <1>13 DEF SzNext

(* The receiver takes a name and data only as the invariant has them.      *)
LEMMA ReceiverType == Inv /\ RzNext => TypeInv'
<1> SUFFICES ASSUME Inv, RzNext PROVE TypeInv'
  OBVIOUS
<1> USE DEF line, sender, receiver
<1>t. TypeInv /\ LineInv
  BY DEF Inv
<1>0. SzType'
  BY <1>t DEF TypeInv, SzType, size, RzNext, tryz, tryzHeader, tryzName, rzfilePosition, rzfileHeader,
         rzfileSkip, rzfileData, ackbibi, ackbibiAnswer
<1>1. TryzTries \in Nat /\ RzTries \in Nat /\ 3 \in 0 .. Max({TryzTries, RzTries, 3})
      /\ TryzTries \in 0 .. Max({TryzTries, RzTries, 3}) /\ RzTries \in 0 .. Max({TryzTries, RzTries, 3})
  BY FilesAssumption, MaxTries
<1>2. {"none", "closed"} \cap Names = {} /\ n \in Nat /\ n \in 0 .. Max({TryzTries, RzTries, 3})
  BY <1>t, FilesAssumption, MaxTries DEF TypeInv, RzType
<1>3. n > 0 => n - 1 \in 0 .. Max({TryzTries, RzTries, 3})
  BY <1>2, MaxTries
<1>4. ASSUME NEW tok \in TxToken, Replies(tok), toRx' \in Seq(RxToken), faults' \in 0 .. Faults
      PROVE  LineType'
  BY <1>t, <1>4, RepliesType DEF LineType
<1>5. ASSUME UNCHANGED toTx, toRx' \in Seq(RxToken), faults' \in 0 .. Faults
      PROVE  LineType'
  BY <1>t, <1>5 DEF TypeInv, LineType
<1>6. ASSUME fubar, UNCHANGED <<card, stored>>, toRx' \in Seq(RxToken), faults' \in 0 .. Faults
      PROVE  LineType' /\ RzType'
  <2>1. LineType'
    BY <1>4, <1>6, Tokens DEF fubar
  <2>2. RzType'
    BY <1>t, <1>2, <1>6 DEF fubar, Give, TypeInv, RzType, Waiting, Receiving
  <2> QED BY <2>1, <2>2
<1>7. ASSUME NEW pc \in Waiting \cup Receiving \cup {"xmodem"}, Stay(pc), UNCHANGED <<card, stored>>,
             toRx' \in Seq(RxToken), faults' \in 0 .. Faults, pc \in Receiving <=> rpc \in Receiving
      PROVE  LineType' /\ RzType'
  <2>1. LineType'
    BY <1>5, <1>7 DEF Stay
  <2>2. RzType'
    BY <1>t, <1>7 DEF Stay, TypeInv, RzType, Waiting, Receiving
  <2> QED BY <2>1, <2>2
<1>8. ASSUME NEW pc \in Receiving, Forgive(pc), UNCHANGED <<card, stored>>,
             toRx' \in Seq(RxToken), faults' \in 0 .. Faults, rpc \in Receiving
      PROVE  LineType' /\ RzType'
  <2>1. CASE n = 0
    BY <1>6, <1>8, <2>1 DEF Forgive
  <2>2. CASE n # 0
    <3>1. rpc' = pc /\ n' = n - 1 /\ UNCHANGED <<toTx, fout, rxbytes, received>>
      BY <1>8, <2>2 DEF Forgive
    <3>2. LineType'
      BY <1>5, <1>8, <3>1
    <3>3. RzType'
      BY <1>t, <1>2, <1>3, <1>8, <2>2, <3>1 DEF TypeInv, RzType, Receiving
    <3> QED BY <3>2, <3>3
  <2> QED BY <2>1, <2>2
<1>9. toRx \in Seq(RxToken) /\ faults \in 0 .. Faults
  BY <1>t DEF TypeInv, LineType
<1>10. CASE tryz
  <2>1. CASE n > 0
    <3>1. LineType'
      BY <1>4, <1>9, <1>10, <2>1, Tokens DEF tryz, TxTypes
    <3>2. RzType'
      BY <1>t, <1>3, <1>10, <2>1 DEF tryz, TypeInv, RzType, Waiting, Receiving
    <3> QED BY <1>0, <3>1, <3>2 DEF TypeInv
  <2>2. CASE n = 0 /\ fout = "none"
    <3>1. Stay("xmodem") /\ UNCHANGED <<toRx, faults, card, stored>> /\ rpc \notin Receiving
      BY <1>2, <1>10, <2>2 DEF tryz, Receiving
    <3> QED BY <1>0, <1>7, <1>9, <3>1 DEF TypeInv, Receiving
  <2>3. CASE n = 0 /\ fout # "none"
    <3>1. fubar /\ UNCHANGED <<toRx, faults, card, stored>>
      BY <1>2, <1>10, <2>3 DEF tryz
    <3> QED BY <1>0, <1>6, <1>9, <3>1 DEF TypeInv
  <2> QED BY <1>2, <2>1, <2>2, <2>3
<1>11. CASE tryzHeader
  <2>1. PICK r \in {zgethdr(toRx), Late(toRx)} :
          /\ RzReads(r, zgethdr(toRx))
          /\ CASE r.c = "ZFILE" -> Stay("tryz_name")
               [] r.c = "ZFIN" -> rpc' = "bibi" /\ n' = 3 /\ UNCHANGED <<toTx, fout, rxbytes, received>>
               [] r.c = "ZCAN" -> fubar
               [] OTHER -> Stay("tryz")
    BY <1>11 DEF tryzHeader
  <2>2. toRx' \in Seq(RxToken) /\ faults' \in 0 .. Faults /\ UNCHANGED <<card, stored>>
        /\ rpc \notin Receiving /\ rpc = "tryz_hdr"
    BY <1>t, <1>11, <2>1, RzReadHeader DEF tryzHeader, Receiving
  <2>3. CASE Stay("tryz_name") \/ Stay("tryz")
    BY <1>0, <1>7, <2>2, <2>3 DEF TypeInv, Waiting, Receiving
  <2>4. CASE rpc' = "bibi" /\ n' = 3 /\ UNCHANGED <<toTx, fout, rxbytes, received>>
    <3>1. LineType'
      BY <1>5, <2>2, <2>4
    <3>2. RzType'
      BY <1>t, <1>1, <2>2, <2>4 DEF TypeInv, RzType, Receiving
    <3> QED BY <1>0, <3>1, <3>2 DEF TypeInv
  <2>5. CASE fubar
    BY <1>0, <1>6, <2>2, <2>5 DEF TypeInv
  <2> QED BY <2>1, <2>3, <2>4, <2>5
<1>12. CASE tryzName
  <2>1. PICK r \in {zrdata(toRx), Late(toRx)} :
          /\ RzReads(r, zrdata(toRx))
          /\ IF r.c = "ZCRCW" THEN rzfile(r.units[1]) /\ UNCHANGED <<toTx, received>>
             ELSE /\ Replies(Header("ZNAK", 0)) /\ rpc' = "tryz_hdr"
                  /\ UNCHANGED <<n, fout, rxbytes, received>>
    BY <1>12 DEF tryzName
  <2>2. toRx' \in Seq(RxToken) /\ faults' \in 0 .. Faults /\ UNCHANGED <<card, stored>> /\ rpc = "tryz_name"
    BY <1>t, <1>12, <2>1, RzReadData DEF tryzName
  <2>3. CASE r.c = "ZCRCW"
    <3>1. rzfile(r.units[1]) /\ UNCHANGED <<toTx, received>> /\ r.c \notin Failure
      BY <2>1, <2>3 DEF Failure
    <3>2. 1 \in 1 .. Len(toRx) /\ toRx[1].kind = "data" /\ toRx[1].good /\ r.units = toRx[1].units
      BY <1>t, <2>1, <3>1, RzReadData
    <3>3. r.units[1] \in Names
      <4>1. r.units = <<Files[file]>>
        BY <1>t, <2>2, <3>2, NameIs
      <4> QED BY <1>t, <4>1, FileFacts DEF TypeInv, SzType
    <3>4. LineType'
      BY <1>5, <2>2, <3>1
    <3>5. stored[r.units[1]] \in Seq(Units) /\ Len(stored[r.units[1]]) \in Nat
      BY <1>t, <3>3, LenProperties DEF TypeInv, RzType
    <3> DEFINE f == r.units[1]
    <3>6. /\ UNCHANGED <<card, stored, received>> /\ f \in Names /\ Len(stored[f]) \in Nat
          /\ IF f \in card.locked
               THEN fout' = "closed" /\ rxbytes' = rxbytes /\ rpc' = "tryz" /\ n' = TryzTries
               ELSE fout' = f /\ rxbytes' = Len(stored[f]) /\ rpc' = "rz_pos" /\ n' = RzTries
      BY <2>2, <3>1, <3>3, <3>5 DEF rzfile, procheader
    <3> HIDE DEF f
    <3>7. RzType'
      <4>1. CASE f \in card.locked
        BY <1>t, <1>1, <1>2, <3>6, <4>1 DEF TypeInv, RzType, Waiting, Receiving
      <4>2. CASE f \notin card.locked
        BY <1>t, <1>1, <1>2, <3>6, <4>2 DEF TypeInv, RzType, Waiting, Receiving
      <4> QED BY <4>1, <4>2
    <3> QED BY <1>0, <3>4, <3>7 DEF TypeInv
  <2>4. CASE r.c # "ZCRCW"
    <3>1. Header("ZNAK", 0) \in TxToken
      BY Tokens DEF TxTypes
    <3>2. LineType'
      BY <1>4, <2>1, <2>2, <2>4, <3>1
    <3>3. RzType'
      BY <1>t, <2>1, <2>2, <2>4 DEF TypeInv, RzType, Waiting, Receiving
    <3> QED BY <1>0, <3>2, <3>3 DEF TypeInv
  <2> QED BY <2>3, <2>4
<1>13. CASE rzfilePosition
  <2>1. Header("ZRPOS", rxbytes) \in TxToken
    BY <1>t, Tokens DEF TxTypes, TypeInv, RzType
  <2>2. LineType'
    BY <1>4, <1>9, <1>13, <2>1 DEF rzfilePosition
  <2>3. RzType'
    BY <1>t, <1>13 DEF rzfilePosition, TypeInv, RzType, Waiting, Receiving
  <2> QED BY <1>0, <2>2, <2>3 DEF TypeInv
<1>14. CASE rzfileHeader
  <2>1. PICK r \in {zgethdr(toRx), Late(toRx)} :
          /\ RzReads(r, zgethdr(toRx))
          /\ \/ Forgive("rz_skip") \/ Stay("rz_skip") \/ Stay("rz_hdr") \/ Forgive("rz_pos")
             \/ Stay("rz_data") \/ fubar
             \/ closeit /\ rpc' = "tryz" /\ n' = TryzTries /\ UNCHANGED <<toTx, rxbytes, received>>
    BY <1>14 DEF rzfileHeader
  <2>2. toRx' \in Seq(RxToken) /\ faults' \in 0 .. Faults /\ UNCHANGED <<card, stored>>
        /\ rpc \in Receiving
    BY <1>t, <1>14, <2>1, RzReadHeader DEF rzfileHeader, Receiving
  <2>3. CASE Forgive("rz_skip") \/ Forgive("rz_pos")
    BY <1>0, <1>8, <2>2, <2>3 DEF TypeInv, Receiving
  <2>4. CASE Stay("rz_skip") \/ Stay("rz_hdr") \/ Stay("rz_data")
    BY <1>0, <1>7, <2>2, <2>4 DEF TypeInv, Receiving
  <2>5. CASE fubar
    BY <1>0, <1>6, <2>2, <2>5 DEF TypeInv
  <2>6. CASE closeit /\ rpc' = "tryz" /\ n' = TryzTries /\ UNCHANGED <<toTx, rxbytes, received>>
    <3>1. LineType'
      BY <1>5, <2>2, <2>6
    <3>2. RzType'
      BY <1>t, <1>1, <1>2, <2>2, <2>6 DEF closeit, TypeInv, RzType, Waiting, Receiving
    <3> QED BY <1>0, <3>1, <3>2 DEF TypeInv
  <2> QED BY <2>1, <2>3, <2>4, <2>5, <2>6
<1>15. CASE rzfileSkip
  <2>1. PICK r \in {zrdata(toRx), Late(toRx)} : RzReads(r, zrdata(toRx))
    BY <1>15 DEF rzfileSkip
  <2>2. toRx' \in Seq(RxToken) /\ faults' \in 0 .. Faults
    BY <1>t, <2>1, RzReadData
  <2> QED BY <1>0, <1>7, <1>15, <2>2 DEF rzfileSkip, TypeInv, Receiving
<1>16. CASE rzfileData
  <2>1. PICK r \in {zrdata(toRx), Late(toRx)} :
          /\ RzReads(r, zrdata(toRx))
          /\ IF r.c \in Ends
              THEN /\ putsec(r.units) /\ n' = RzTries
                   /\ IF r.c = "ZCRCW" THEN Replies(Header("ZACK", rxbytes')) ELSE UNCHANGED toTx
                   /\ rpc' = IF r.c = "ZCRCG" THEN "rz_data" ELSE "rz_hdr"
                   /\ UNCHANGED <<fout, received>>
              ELSE /\ IF r.c = "ZCAN" THEN fubar ELSE Forgive("rz_pos")
                   /\ UNCHANGED stored
    BY <1>16 DEF rzfileData
  <2>2. toRx' \in Seq(RxToken) /\ faults' \in 0 .. Faults /\ UNCHANGED card
        /\ rpc = "rz_data" /\ rpc \in Receiving
    BY <1>t, <1>16, <2>1, RzReadData DEF rzfileData, Receiving
  <2>3. CASE r.c \in Ends
    <3>1. 1 \in 1 .. Len(toRx) /\ toRx[1].kind = "data" /\ toRx[1].good /\ r.units = toRx[1].units
      BY <1>t, <2>1, <2>3, RzReadData DEF Failure, Ends
    <3>2. r.units \in Seq(Units) /\ Len(r.units) \in Nat
      BY <1>t, <2>2, <3>1, DataIs
    <3>3. fout \in Names /\ stored[fout] \in Seq(Units) /\ rxbytes = Len(stored[fout]) /\ rxbytes \in Nat
      BY <1>t, <2>2 DEF TypeInv, RzType
    <3>4. stored[fout] \o r.units \in Seq(Units)
          /\ Len(stored[fout] \o r.units) = rxbytes + Len(r.units)
      BY <3>2, <3>3, ConcatProperties
    <3>5. stored' = [stored EXCEPT ![fout] = stored[fout] \o r.units] /\ rxbytes' = rxbytes + Len(r.units)
          /\ n' = RzTries /\ rpc' \in {"rz_data", "rz_hdr"} /\ UNCHANGED <<fout, received>>
      BY <2>1, <2>3 DEF putsec
    <3>6. RzType'
      <4>1. stored' \in [Names -> Seq(Units)] /\ rxbytes' = Len(stored'[fout]) /\ rxbytes' \in Nat
        BY <1>t, <3>2, <3>3, <3>4, <3>5 DEF TypeInv, RzType
      <4>2. rpc' \in Receiving /\ rpc' # "bibi"
        BY <3>5 DEF Receiving
      <4> QED BY <1>t, <1>1, <2>2, <3>3, <3>5, <4>1, <4>2 DEF TypeInv, RzType
    <3>7. LineType'
      <4>1. Header("ZACK", rxbytes') \in TxToken
        <5>1. rxbytes' \in Nat
          BY <3>6 DEF RzType
        <5>2. "ZACK" \in TxTypes
          BY DEF TxTypes
        <5> QED BY <5>1, <5>2, Tokens
      <4>2. CASE r.c = "ZCRCW"
        <5>1. Replies(Header("ZACK", rxbytes'))
          BY <2>1, <2>3, <4>2
        <5> QED BY <1>4, <2>2, <4>1, <5>1
      <4>3. CASE r.c # "ZCRCW"
        <5>1. UNCHANGED toTx
          BY <2>1, <2>3, <4>3
        <5> QED BY <1>5, <2>2, <5>1
      <4> QED BY <4>2, <4>3
    <3> QED BY <1>0, <3>6, <3>7 DEF TypeInv
  <2>4. CASE r.c \notin Ends
    BY <1>0, <1>6, <1>8, <2>1, <2>2, <2>4 DEF TypeInv, Receiving
  <2> QED BY <2>3, <2>4
<1>17. CASE ackbibi
  <2>1. toRx' \in Seq(RxToken)
    BY <1>9, <1>17, AfterIs DEF ackbibi
  <2>2. LineType'
    BY <1>4, <1>9, <1>17, <2>1, Tokens DEF ackbibi, TxTypes
  <2>3. RzType'
    <3>1. n > 0
      BY <1>t, <1>17 DEF ackbibi, TypeInv, RzType
    <3> QED BY <1>t, <1>3, <1>17, <3>1 DEF ackbibi, TypeInv, RzType, Waiting, Receiving
  <2> QED BY <1>0, <2>2, <2>3 DEF TypeInv
<1>18. CASE ackbibiAnswer
  <2> DEFINE reading == IF toRx = <<>> THEN Silence ELSE [c |-> toRx[1].kind, rest |-> Tail(toRx)]
  <2>1. PICK r \in {reading, Late(toRx)} :
          /\ RzReads(r, reading)
          /\ IF r.c = "over" \/ n = 0 THEN Give("OK") ELSE rpc' = "bibi" /\ UNCHANGED <<fout, received>>
    BY <1>18 DEF ackbibiAnswer
  <2>2. r.rest \in Seq(RxToken)
    BY <1>9, HeadTailProperties, EmptySeq DEF Late, Silence
  <2>3. toRx' \in Seq(RxToken) /\ faults' \in 0 .. Faults
    BY <1>9, <2>1, <2>2, FilesAssumption DEF RzReads, Reads
  <2>4. LineType'
    BY <1>5, <1>18, <2>3 DEF ackbibiAnswer
  <2>5. RzType'
    BY <1>t, <1>2, <1>18, <2>1 DEF ackbibiAnswer, Give, TypeInv, RzType, Waiting, Receiving
  <2> QED BY <1>0, <2>4, <2>5 DEF TypeInv
<1> QED
  BY <1>10, <1>11, <1>12, <1>13, <1>14, <1>15, <1>16, <1>17, <1>18 DEF RzNext

LEMMA GarbleType == TypeInv /\ Garble => TypeInv'
<1> SUFFICES ASSUME TypeInv, Garble PROVE TypeInv'
  OBVIOUS
<1>1. SzType' /\ RzType'
  BY DEF TypeInv, SzType, RzType, Garble, sender, receiver, size
<1>2. faults' \in 0 .. Faults
  BY FilesAssumption DEF TypeInv, LineType, Garble
<1>3. toRx' \in Seq(RxToken) /\ toTx' \in Seq(TxToken)
  <2>1. CASE toRx' \in Noise(toRx) /\ UNCHANGED toTx
    BY <2>1, NoiseIs DEF TypeInv, LineType
  <2>2. CASE toTx' \in Noise(toTx) /\ UNCHANGED toRx
    BY <2>2, NoiseIs DEF TypeInv, LineType
  <2> QED BY <2>1, <2>2 DEF Garble
<1> QED
  BY <1>1, <1>2, <1>3 DEF TypeInv, LineType

----------------------------------------------------------------------------
(* Answers: what is said, lost and read does not change the order of what  *)
(* is on the line.                                                         *)
LEMMA OrderEmpty ==
    ASSUME NEW t, NEW u
    PROVE  Without(<<>>, t) /\ NoneAfter(<<>>, t, u)
BY DEF Without, NoneAfter

LEMMA OrderAfter ==
    ASSUME NEW S, NEW ch \in Seq(S), NEW k \in 0 .. Len(ch), NEW t, NEW u
    PROVE  /\ Without(ch, t) => Without(After(ch, k), t)
           /\ NoneAfter(ch, t, u) => NoneAfter(After(ch, k), t, u)
           /\ NoneAfter(ch, t, u) /\ k \in DOMAIN ch /\ Comes(ch, t, k) => Without(After(ch, k), u)
<1> DEFINE rest == After(ch, k)
<1>1. /\ rest \in Seq(S) /\ Len(rest) = Len(ch) - k /\ Len(ch) \in Nat
      /\ \A j \in 1 .. Len(ch) - k : rest[j] = ch[k + j]
      /\ DOMAIN rest = 1 .. Len(ch) - k /\ DOMAIN ch = 1 .. Len(ch)
  BY AfterIs, LenProperties
<1> HIDE DEF rest
<1>2. \A j \in DOMAIN rest : /\ k + j \in DOMAIN ch /\ k < k + j
                             /\ \A v : Comes(rest, v, j) <=> Comes(ch, v, k + j)
  <2> TAKE j \in DOMAIN rest
  <2>1. k + j \in DOMAIN ch /\ k < k + j /\ j \in 1 .. Len(ch) - k
    BY <1>1
  <2>2. rest[j] = ch[k + j]
    BY <1>1, <2>1
  <2> QED BY <2>1, <2>2 DEF Comes
<1>3. \A i, j \in DOMAIN rest : i < j => k + i < k + j
  BY <1>1
<1>4. Without(ch, t) => Without(rest, t)
  BY <1>2 DEF Without
<1>5. NoneAfter(ch, t, u) => NoneAfter(rest, t, u)
  BY <1>2, <1>3 DEF NoneAfter
<1>6. NoneAfter(ch, t, u) /\ k \in DOMAIN ch /\ Comes(ch, t, k) => Without(rest, u)
  BY <1>2 DEF Without, NoneAfter
<1> QED
  BY <1>4, <1>5, <1>6 DEF rest

LEMMA OrderAppend ==
    ASSUME NEW S, NEW ch \in Seq(S), NEW tok \in S, NEW t, NEW u
    PROVE  /\ Without(ch, t) /\ ~(Whole(tok) /\ tok.type = t) => Without(Append(ch, tok), t)
           /\ NoneAfter(ch, t, u) /\ (Without(ch, t) \/ ~(Whole(tok) /\ tok.type = u))
                => NoneAfter(Append(ch, tok), t, u)
<1> DEFINE more == Append(ch, tok)
<1>1. /\ more \in Seq(S) /\ Len(more) = Len(ch) + 1 /\ Len(ch) \in Nat
      /\ \A j \in 1 .. Len(ch) : more[j] = ch[j]
      /\ more[Len(ch) + 1] = tok
      /\ DOMAIN more = 1 .. Len(ch) + 1 /\ DOMAIN ch = 1 .. Len(ch)
  BY AppendProperties, LenProperties
<1> HIDE DEF more
<1>2. \A j \in DOMAIN more : \A v :
          \/ j \in DOMAIN ch /\ (Comes(more, v, j) <=> Comes(ch, v, j))
          \/ j = Len(ch) + 1 /\ (Comes(more, v, j) <=> Whole(tok) /\ tok.type = v)
  BY <1>1 DEF Comes
<1>3. Without(ch, t) /\ ~(Whole(tok) /\ tok.type = t) => Without(more, t)
  BY <1>2 DEF Without
<1>4. ASSUME NoneAfter(ch, t, u), Without(ch, t) \/ ~(Whole(tok) /\ tok.type = u),
             NEW i \in DOMAIN more, NEW j \in DOMAIN more, i < j
      PROVE  ~(Comes(more, t, i) /\ Comes(more, u, j))
  <2>1. i \in DOMAIN ch
    BY <1>1, <1>4
  <2>2. Comes(more, t, i) <=> Comes(ch, t, i)
    BY <1>1, <2>1 DEF Comes
  <2>3. CASE j \in DOMAIN ch
    <3>1. Comes(more, u, j) <=> Comes(ch, u, j)
      BY <1>1, <2>3 DEF Comes
    <3> QED BY <1>4, <2>1, <2>2, <2>3, <3>1 DEF NoneAfter
  <2>4. CASE j = Len(ch) + 1
    <3>1. Comes(more, u, j) <=> Whole(tok) /\ tok.type = u
      BY <1>1, <2>4 DEF Comes
    <3> QED BY <1>4, <2>1, <2>2, <3>1 DEF Without
  <2> QED BY <1>1, <2>3, <2>4
<1> QED
  BY <1>3, <1>4 DEF NoneAfter, more

LEMMA OrderNoise ==
    ASSUME NEW ch \in Seq(TxToken), NEW now \in Noise(ch), NEW t, NEW u
    PROVE  /\ Without(ch, t) => Without(now, t)
           /\ NoneAfter(ch, t, u) => NoneAfter(now, t, u)
<1>1. PICK i \in 1 .. Len(ch) : Lost(ch, now, i) \/ Spoilt(ch, now, i)
  BY NoiseIs
<1>2. Len(ch) \in Nat /\ DOMAIN ch = 1 .. Len(ch) /\ DOMAIN now = 1 .. Len(now)
  BY NoiseIs, LenProperties
<1>3. CASE Spoilt(ch, now, i)
  <2>1. \A j \in DOMAIN now : \A v : j \in DOMAIN ch /\ (Comes(now, v, j) => Comes(ch, v, j))
    BY <1>2, <1>3 DEF Spoilt, Comes, Whole
  <2> QED BY <2>1 DEF Without, NoneAfter
<1>4. CASE Lost(ch, now, i)
  <2> DEFINE at(j) == IF j < i THEN j ELSE j + 1
  <2>1. \A j \in DOMAIN now : at(j) \in DOMAIN ch /\ now[j] = ch[at(j)]
    BY <1>2, <1>4 DEF Lost
  <2>2. \A j, k \in DOMAIN now : j < k => at(j) < at(k)
    BY <1>2, <1>4 DEF Lost
  <2> HIDE DEF at
  <2>3. \A j \in DOMAIN now : \A v : Comes(now, v, j) <=> Comes(ch, v, at(j))
    BY <2>1 DEF Comes
  <2> QED BY <2>1, <2>2, <2>3 DEF Without, NoneAfter
<1> QED
  BY <1>1, <1>3, <1>4

(* A ZDATA or ZEOF that reaches rzfile is of the stream of the file.       *)
LEMMA StreamHeader ==
    ASSUME TypeInv, LineInv, rpc \in Receiving, NEW i \in 1 .. Len(toRx), Whole(toRx[i]),
           toRx[i].type \in {"ZDATA", "ZEOF"}
    PROVE  spc \notin Offering /\ (toRx[i].type = "ZEOF" => toRx[i].pos = size)
<1>1. PICK a, b \in 0 .. Len(toRx) : Ordered(toRx, a, b, Files[file]) /\ Stage(a, b) /\ Streamed(b)
  BY DEF LineInv
<1>2. Len(toRx) \in Nat
  BY LenProperties DEF TypeInv, LineType
<1>3. i \in b + 1 .. Len(toRx)
  <2>1. a = 0
    BY <1>1 DEF Stage
  <2>2. i \notin a + 1 .. b
    BY <1>1 DEF Ordered, Offer
  <2> QED BY <1>1, <1>2, <2>1, <2>2
<1>4. b # Len(toRx)
  BY <1>1, <1>2, <1>3
<1>5. PICK v \in 0 .. size : Placed(toRx, b, Here, v, Content)
  BY <1>1, SomethingAhead DEF Streamed
<1>6. \E p, q \in 0 .. Len(Content) : Carries(toRx[i], p, q, Content)
  <2>1. i > b /\ i \in 0 .. Len(toRx) /\ toRx \in Seq(RxToken)
    BY <1>1, <1>2, <1>3 DEF TypeInv, LineType
  <2> QED BY <1>1, <1>5, <2>1, PlacedAfter
<1> QED
  BY <1>1, <1>4, <1>6 DEF Stage, Carries, Content, size

(* A file that is as long as the one sent is that file.                    *)
LEMMA WholeIs ==
    ASSUME TypeInv, ReportInv, NEW f \in Names, Len(stored[f]) = Len(Source[f])
    PROVE  stored[f] = Source[f]
<1>1. card \in Cards /\ Source[f] \in Seq(Units) /\ stored[f] \in Seq(Units) /\ Len(Source[f]) \in Nat
  BY FileFacts DEF TypeInv, RzType
<1>2. stored[f] = card.held[f] \/ IsPrefix(stored[f], Source[f])
  BY DEF ReportInv
<1>3. Len(card.held[f]) > Len(Source[f]) \/ IsPrefix(card.held[f], Source[f])
  BY <1>1, FilesAssumption
<1>4. IsPrefix(stored[f], Source[f])
  BY <1>1, <1>2, <1>3
<1>5. SubSeq(stored[f], 1, Len(stored[f])) = SubSeq(Source[f], 1, Len(Source[f]))
  BY <1>4 DEF IsPrefix
<1> QED
  BY <1>1, <1>5, SubSeqFull

LEMMA AnswersQuiet ==
    ASSUME Answers, UNCHANGED sender, UNCHANGED toTx, stored' = stored \/ rpc \in Receiving,
           rpc' \in Waiting => rpc \in Waiting, rpc' \in Receiving => rpc \in Receiving
    PROVE  Answers'
BY DEF Answers, sender, Stored, Content, Waiting, Receiving

LEMMA AnswersSay ==
    ASSUME TypeInv, Answers, UNCHANGED sender, stored' = stored \/ rpc \in Receiving,
           NEW tok \in TxToken, Replies(tok), ~(Whole(tok) /\ tok.type \in {"ZRINIT", "ZRPOS"}),
           rpc' \in Waiting => rpc \in Waiting, rpc' \in Receiving => rpc \in Receiving
    PROVE  Answers'
<1>1. CASE SzGone
  BY <1>1 DEF Answers, sender, SzGone, Offering, Sending
<1>2. CASE ~SzGone
  <2>1. toTx' = Append(toTx, tok) /\ toTx \in Seq(TxToken)
    BY <1>2 DEF Replies, TypeInv, LineType
  <2>2. /\ NoneAfter(toTx, "ZRPOS", "ZRINIT") => NoneAfter(toTx', "ZRPOS", "ZRINIT")
        /\ NoneAfter(toTx, "ZRINIT", "ZRPOS") => NoneAfter(toTx', "ZRINIT", "ZRPOS")
        /\ Without(toTx, "ZRPOS") => Without(toTx', "ZRPOS")
        /\ Without(toTx, "ZRINIT") => Without(toTx', "ZRINIT")
    BY <2>1, OrderAppend
  <2> QED BY <2>2 DEF Answers, sender, Stored, Content, Waiting, Receiving
<1> QED
  BY <1>1, <1>2

LEMMA NotCounted ==
    /\ ~Whole(canit)
    /\ \A type, pos : Header(type, pos).type = type
BY DEF canit, Whole, Header

LEMMA SenderAnswers == TypeInv /\ Answers /\ SzNext => Answers'
<1> SUFFICES ASSUME TypeInv, Answers, SzNext PROVE Answers'
  OBVIOUS
<1> USE DEF line, sender, receiver
<1>1. ASSUME UNCHANGED <<toTx, file, receiver>>, spc \in Offering => spc' \in Offering,
             spc' \in Offering => spc \in Offering, spc' \in Sending => spc \in Sending
      PROVE  Answers'
  BY <1>1 DEF Answers, Stored, Content
<1>2. toTx \in Seq(TxToken)
  BY DEF TypeInv, LineType
<1>3. ASSUME NEW k \in 0 .. Len(toTx), toTx' = After(toTx, k), UNCHANGED <<file, receiver>>,
             spc' \in Offering => spc \in Offering, spc' \in Sending => spc \in Sending
      PROVE  Answers'
  <2>1. /\ NoneAfter(toTx, "ZRPOS", "ZRINIT") => NoneAfter(toTx', "ZRPOS", "ZRINIT")
        /\ NoneAfter(toTx, "ZRINIT", "ZRPOS") => NoneAfter(toTx', "ZRINIT", "ZRPOS")
        /\ Without(toTx, "ZRPOS") => Without(toTx', "ZRPOS")
        /\ Without(toTx, "ZRINIT") => Without(toTx', "ZRINIT")
    BY <1>2, <1>3, OrderAfter
  <2> QED BY <1>3, <2>1 DEF Answers, Stored, Content
<1>4. CASE spc' \in Finishing
  BY <1>4 DEF Answers, Finishing, Offering, Sending
<1>5. CASE zsendfile
  BY <1>1, <1>5 DEF zsendfile, Offering, Sending
<1>6. CASE zsendfileAnswer
  <2>1. PICK r \in {zgethdr(toTx), Late(toTx)} : SzReads(r) /\ FileAnswered(r)
    BY <1>6 DEF zsendfileAnswer
  <2>2. PICK k \in 0 .. Len(toTx) :
          /\ toTx' = After(toTx, k)
          /\ r.c \notin Failure => k \in DOMAIN toTx /\ Comes(toTx, r.c, k)
    BY <2>1, SzRead
  <2>3. UNCHANGED receiver /\ spc \in Offering
    BY <1>6 DEF zsendfileAnswer, Offering
  <2>4. CASE wcs("ERROR")
    BY <1>4, <2>4 DEF wcs, NextFile, Finishing
  <2>5. CASE r.c = "ZRPOS" /\ spc' = "zdata" /\ UNCHANGED file
    <3>1. NoneAfter(toTx, "ZRPOS", "ZRINIT") /\ k \in DOMAIN toTx /\ Comes(toTx, "ZRPOS", k)
      BY <2>2, <2>3, <2>5 DEF Answers, Failure
    <3>2. Without(toTx', "ZRINIT")
      BY <1>2, <2>2, <3>1, OrderAfter
    <3>3. NoneAfter(toTx', "ZRINIT", "ZRPOS")
      BY <3>2 DEF Without, NoneAfter
    <3>4. rpc \notin Waiting
      BY <2>3, <3>1 DEF Answers, Without
    <3> QED BY <2>3, <2>5, <3>2, <3>3, <3>4 DEF Answers, Offering
  <2>6. CASE spc' \in {"drain", "file"} /\ UNCHANGED file
    <3>1. spc' \notin Sending
      BY <2>6 DEF Sending
    <3> QED BY <1>3, <2>2, <2>3, <2>6, <3>1
  <2> QED BY <2>1, <2>4, <2>5, <2>6 DEF FileAnswered
<1>7. CASE zsendfileDrain
  <2> DEFINE headers == {i \in DOMAIN toTx : toTx[i].kind = "header"}
  <2>1. UNCHANGED <<file, receiver>> /\ spc \in Offering /\ spc' \in Offering /\ spc' \notin Sending
    BY <1>7 DEF zsendfileDrain, Offering, Sending
  <2>2. \E k \in 0 .. Len(toTx) : toTx' = After(toTx, k)
    <3>1. Len(toTx) \in Nat /\ DOMAIN toTx = 1 .. Len(toTx)
      BY <1>2, LenProperties
    <3>2. CASE headers = {}
      BY <1>2, <1>7, <3>1, <3>2, AfterEnds DEF zsendfileDrain
    <3>3. CASE headers # {}
      <4>1. headers \subseteq 1 .. Len(toTx) /\ headers \subseteq Nat
        BY <3>1
      <4>2. toTx' = After(toTx, Min(headers) - 1)
        BY <1>7, <3>3 DEF zsendfileDrain
      <4> HIDE DEF headers
      <4>3. Min(headers) \in 1 .. Len(toTx)
        BY <3>3, <4>1, MinIn
      <4> QED BY <4>2, <4>3
    <3> QED BY <3>2, <3>3
  <2> QED BY <1>3, <2>1, <2>2
<1>8. CASE zsendfdata \/ zsendfdataNext \/ ReadCheck \/ zsendfdataEof
  <2>1. spc \in Sending /\ spc' \in Sending /\ UNCHANGED <<toTx, file, receiver>>
    BY <1>8 DEF zsendfdata, zsendfdataNext, ReadCheck, zsendfdataEof, Sending
  <2>2. spc \notin Offering /\ spc' \notin Offering
    BY <2>1 DEF Sending, Offering
  <2> QED BY <1>1, <2>1, <2>2
<1>9. CASE getinsync
  <2>1. PICK r \in {zgethdr(toTx), Late(toTx)} : SzReads(r) /\ Synced(r)
    BY <1>9 DEF getinsync
  <2>2. PICK k \in 0 .. Len(toTx) :
          /\ toTx' = After(toTx, k)
          /\ r.c \notin Failure => k \in DOMAIN toTx /\ Comes(toTx, r.c, k)
    BY <2>1, SzRead
  <2>3. UNCHANGED receiver /\ spc \in Sending /\ spc \notin Offering
    BY <1>9 DEF getinsync, Sending, Offering
  <2>4. CASE wcs("ERROR")
    BY <1>4, <2>4 DEF wcs, NextFile, Finishing
  <2>5. CASE r.c = "ZRINIT" /\ wcs("OK")
    <3>1. NoneAfter(toTx, "ZRINIT", "ZRPOS") /\ k \in DOMAIN toTx /\ Comes(toTx, "ZRINIT", k)
      BY <2>2, <2>3, <2>5 DEF Answers, Failure
    <3>2. Without(toTx', "ZRPOS")
      BY <1>2, <2>2, <3>1, OrderAfter
    <3>3. NoneAfter(toTx', "ZRPOS", "ZRINIT")
      BY <3>2 DEF Without, NoneAfter
    <3>4. spc' \notin Sending
      BY <2>5 DEF wcs, NextFile, Sending
    <3> QED BY <3>2, <3>3, <3>4 DEF Answers
  <2>6. CASE spc' \in Sending /\ UNCHANGED file
    <3>1. spc' \notin Offering
      BY <2>6 DEF Sending, Offering
    <3> QED BY <1>3, <2>2, <2>3, <2>6, <3>1
  <2>7. wcs("ERROR") \/ (r.c = "ZRINIT" /\ wcs("OK")) \/ (spc' \in Sending /\ UNCHANGED file)
    BY <2>1, <2>3 DEF Synced, SyncReturn, Sending
  <2> QED BY <2>4, <2>5, <2>6, <2>7
<1>10. CASE saybibi \/ saybibiAnswer
  BY <1>4, <1>10 DEF saybibi, saybibiAnswer, Finishing
<1> QED
  BY <1>5, <1>6, <1>7, <1>8, <1>9, <1>10 DEF SzNext

LEMMA ReceiverAnswers == Inv /\ RzNext => Answers'
<1> SUFFICES ASSUME Inv, RzNext PROVE Answers'
  OBVIOUS
<1>t. TypeInv /\ Answers /\ LineInv /\ PlaceInv /\ ReportInv
  BY DEF Inv
<1>1. UNCHANGED sender
  BY DEF RzNext, tryz, tryzHeader, tryzName, rzfilePosition, rzfileHeader, rzfileSkip, rzfileData,
         ackbibi, ackbibiAnswer
<1>2. ASSUME fubar, UNCHANGED stored PROVE Answers'
  <2>1. rpc' \notin Waiting /\ rpc' \notin Receiving /\ Replies(canit)
    BY <1>2 DEF fubar, Give, Waiting, Receiving
  <2> QED BY <1>t, <1>1, <1>2, <2>1, Tokens, NotCounted, AnswersSay
<1>3. ASSUME NEW pc, Stay(pc), UNCHANGED stored,
             pc \in Waiting => rpc \in Waiting, pc \in Receiving => rpc \in Receiving
      PROVE  Answers'
  BY <1>t, <1>1, <1>3, AnswersQuiet DEF Stay
<1>4. ASSUME NEW pc \in Receiving, Forgive(pc), UNCHANGED stored, rpc \in Receiving
      PROVE  Answers'
  <2>1. CASE n = 0
    BY <1>2, <1>4, <2>1 DEF Forgive
  <2>2. CASE n # 0
    <3>1. rpc' \in Receiving /\ rpc' \notin Waiting /\ UNCHANGED toTx
      BY <1>4, <2>2 DEF Forgive, Receiving, Waiting
    <3> QED BY <1>t, <1>1, <1>4, <3>1, AnswersQuiet
  <2> QED BY <2>1, <2>2
<1>5. CASE tryz
  <2>1. CASE n > 0
    <3>1. Replies(Header("ZRINIT", 0)) /\ rpc \in Waiting /\ rpc' \in Waiting /\ rpc' \notin Receiving
          /\ UNCHANGED stored
      BY <1>5, <2>1 DEF tryz, Waiting, Receiving
    <3>2. CASE SzGone
      BY <1>1, <3>2 DEF Answers, sender, SzGone, Offering, Sending
    <3>3. CASE ~SzGone
      <4>1. toTx' = Append(toTx, Header("ZRINIT", 0)) /\ toTx \in Seq(TxToken)
            /\ Header("ZRINIT", 0) \in TxToken
        BY <1>t, <3>1, <3>3, Tokens DEF Replies, TypeInv, LineType, TxTypes
      <4>2. Header("ZRINIT", 0).type = "ZRINIT"
        BY NotCounted
      <4>3. /\ NoneAfter(toTx, "ZRPOS", "ZRINIT") /\ Without(toTx, "ZRPOS") => NoneAfter(toTx', "ZRPOS", "ZRINIT")
            /\ NoneAfter(toTx, "ZRINIT", "ZRPOS") => NoneAfter(toTx', "ZRINIT", "ZRPOS")
            /\ Without(toTx, "ZRPOS") => Without(toTx', "ZRPOS")
        BY <4>1, <4>2, OrderAppend
      <4> QED BY <1>t, <1>1, <3>1, <4>3 DEF Answers, sender, Stored, Content
    <3> QED BY <3>2, <3>3
  <2>2. CASE n = 0 /\ fout = "none"
    <3>1. Stay("xmodem") /\ UNCHANGED stored
      BY <1>5, <2>2 DEF tryz
    <3> QED BY <1>3, <3>1 DEF Waiting, Receiving
  <2>3. CASE n = 0 /\ fout # "none"
    BY <1>2, <1>5, <2>3 DEF tryz
  <2> QED BY <1>t, <2>1, <2>2, <2>3, MaxTries DEF TypeInv, RzType
<1>6. CASE tryzHeader
  <2>1. rpc \in Waiting /\ UNCHANGED stored
        /\ (Stay("tryz_name") \/ Stay("tryz") \/ fubar \/ (rpc' = "bibi" /\ UNCHANGED toTx))
    BY <1>6 DEF tryzHeader, Waiting
  <2>2. CASE Stay("tryz_name") \/ Stay("tryz")
    BY <1>3, <2>1, <2>2 DEF Receiving
  <2>3. CASE fubar
    BY <1>2, <2>1, <2>3
  <2>4. CASE rpc' = "bibi" /\ UNCHANGED toTx
    BY <1>t, <1>1, <2>1, <2>4, AnswersQuiet DEF Waiting, Receiving
  <2> QED BY <2>1, <2>2, <2>3, <2>4
<1>7. CASE tryzName
  <2>1. PICK r \in {zrdata(toRx), Late(toRx)} :
          /\ RzReads(r, zrdata(toRx))
          /\ IF r.c = "ZCRCW" THEN rzfile(r.units[1]) /\ UNCHANGED <<toTx, received>>
             ELSE /\ Replies(Header("ZNAK", 0)) /\ rpc' = "tryz_hdr"
                  /\ UNCHANGED <<n, fout, rxbytes, received>>
    BY <1>7 DEF tryzName
  <2>2. rpc = "tryz_name" /\ rpc \in Waiting /\ UNCHANGED stored
    BY <1>7 DEF tryzName, Waiting
  <2>3. CASE r.c = "ZCRCW"
    <3>1. r.c \notin Failure
      BY <2>3 DEF Failure
    <3>2. spc \notin Sending
      <4>1. 1 \in 1 .. Len(toRx) /\ toRx[1].kind = "data" /\ toRx[1].good
        BY <1>t, <2>1, <3>1, RzReadData
      <4> QED BY <1>t, <2>2, <4>1, NameIs
    <3> QED BY <1>t, <1>1, <2>1, <2>2, <2>3, <3>2 DEF Answers, sender
  <2>4. CASE r.c # "ZCRCW"
    <3>1. Header("ZNAK", 0) \in TxToken /\ Header("ZNAK", 0).type = "ZNAK"
      BY Tokens, NotCounted DEF TxTypes
    <3>2. Replies(Header("ZNAK", 0)) /\ rpc' \notin Receiving
      BY <2>1, <2>4 DEF Receiving
    <3> QED BY <1>t, <1>1, <2>2, <3>1, <3>2, AnswersSay
  <2> QED BY <2>3, <2>4
<1>8. CASE rzfilePosition
  <2>1. rpc \in Receiving /\ rpc' \in Receiving /\ rpc' \notin Waiting /\ UNCHANGED stored
        /\ Replies(Header("ZRPOS", rxbytes))
    BY <1>8 DEF rzfilePosition, Receiving, Waiting
  <2>2. CASE SzGone
    BY <1>1, <2>2 DEF Answers, sender, SzGone, Offering, Sending
  <2>3. CASE ~SzGone
    <3>1. toTx' = Append(toTx, Header("ZRPOS", rxbytes)) /\ toTx \in Seq(TxToken)
          /\ Header("ZRPOS", rxbytes) \in TxToken
      BY <1>t, <2>1, <2>3, Tokens DEF Replies, TypeInv, LineType, RzType, TxTypes
    <3>2. Header("ZRPOS", rxbytes).type = "ZRPOS"
      BY NotCounted
    <3>3. /\ NoneAfter(toTx, "ZRPOS", "ZRINIT") => NoneAfter(toTx', "ZRPOS", "ZRINIT")
          /\ NoneAfter(toTx, "ZRINIT", "ZRPOS") /\ Without(toTx, "ZRINIT") => NoneAfter(toTx', "ZRINIT", "ZRPOS")
          /\ Without(toTx, "ZRINIT") => Without(toTx', "ZRINIT")
      BY <3>1, <3>2, OrderAppend
    <3> QED BY <1>t, <1>1, <2>1, <3>3 DEF Answers, sender
  <2> QED BY <2>2, <2>3
<1>9. CASE rzfileHeader
  <2>1. PICK r \in {zgethdr(toRx), Late(toRx)} :
          /\ RzReads(r, zgethdr(toRx))
          /\ \/ Forgive("rz_skip") \/ Stay("rz_skip") \/ Stay("rz_hdr") \/ Forgive("rz_pos")
             \/ Stay("rz_data") \/ fubar
             \/ r.c = "ZEOF" /\ InPlace(r.pos) /\ rpc' = "tryz" /\ UNCHANGED toTx
    BY <1>9 DEF rzfileHeader
  <2>2. rpc \in Receiving /\ UNCHANGED stored
    BY <1>9 DEF rzfileHeader, Receiving
  <2>3. CASE Forgive("rz_skip") \/ Forgive("rz_pos")
    BY <1>4, <2>2, <2>3 DEF Receiving
  <2>4. CASE Stay("rz_skip") \/ Stay("rz_hdr") \/ Stay("rz_data")
    BY <1>3, <2>2, <2>4 DEF Waiting
  <2>5. CASE fubar
    BY <1>2, <2>2, <2>5
  <2>6. CASE r.c = "ZEOF" /\ InPlace(r.pos) /\ rpc' = "tryz" /\ UNCHANGED toTx
    <3>1. PICK i \in 1 .. Len(toRx) :
            Whole(toRx[i]) /\ toRx[i].type = "ZEOF" /\ toRx[i].pos = rxbytes
      BY <1>t, <2>1, <2>6, RzReadHeader DEF Failure, InPlace
    <3>2. spc \notin Offering /\ rxbytes = size
      BY <1>t, <2>2, <3>1, StreamHeader
    <3>3. fout = Files[file] /\ fout \in Names /\ rxbytes = Len(stored[fout])
      BY <1>t, <2>2 DEF PlaceInv, TypeInv, RzType
    <3>4. Stored
      <4>1. Len(stored[fout]) = Len(Source[fout])
        BY <3>2, <3>3 DEF size
      <4> QED BY <1>t, <3>3, <4>1, WholeIs DEF Stored, Content
    <3>5. rpc' \notin Receiving
      BY <2>6 DEF Receiving
    <3> QED BY <1>t, <1>1, <2>2, <2>6, <3>2, <3>4, <3>5 DEF Answers, sender, Stored, Content
  <2> QED BY <2>1, <2>3, <2>4, <2>5, <2>6
<1>10. CASE rzfileSkip
  <2>1. Stay("rz_pos") /\ UNCHANGED stored /\ rpc \in Receiving
    BY <1>10 DEF rzfileSkip, Receiving
  <2> QED BY <1>3, <2>1 DEF Waiting
<1>11. CASE rzfileData
  <2>1. PICK r \in {zrdata(toRx), Late(toRx)} :
          /\ RzReads(r, zrdata(toRx))
          /\ IF r.c \in Ends
              THEN /\ putsec(r.units) /\ n' = RzTries
                   /\ IF r.c = "ZCRCW" THEN Replies(Header("ZACK", rxbytes')) ELSE UNCHANGED toTx
                   /\ rpc' = IF r.c = "ZCRCG" THEN "rz_data" ELSE "rz_hdr"
                   /\ UNCHANGED <<fout, received>>
              ELSE /\ IF r.c = "ZCAN" THEN fubar ELSE Forgive("rz_pos")
                   /\ UNCHANGED stored
    BY <1>11 DEF rzfileData
  <2>2. rpc \in Receiving
    BY <1>11 DEF rzfileData, Receiving
  <2>3. CASE r.c \in Ends
    <3>1. rpc' \in Receiving /\ rpc' \notin Waiting
      BY <2>1, <2>3 DEF Receiving, Waiting
    <3>2. CASE r.c = "ZCRCW"
      <4>1. Replies(Header("ZACK", rxbytes'))
        BY <2>1, <2>3, <3>2
      <4>2. Header("ZACK", rxbytes') \in TxToken /\ Header("ZACK", rxbytes').type = "ZACK"
        <5>1. rxbytes' \in Nat /\ "ZACK" \in TxTypes
          BY ReceiverType DEF TypeInv, RzType, TxTypes
        <5> QED BY <5>1, Tokens, NotCounted
      <4> QED BY <1>t, <1>1, <2>2, <3>1, <4>1, <4>2, AnswersSay
    <3>3. CASE r.c # "ZCRCW"
      <4>1. UNCHANGED toTx
        BY <2>1, <2>3, <3>3
      <4> QED BY <1>t, <1>1, <2>2, <3>1, <4>1, AnswersQuiet
    <3> QED BY <3>2, <3>3
  <2>4. CASE r.c \notin Ends
    BY <1>2, <1>4, <2>1, <2>2, <2>4 DEF Receiving
  <2> QED BY <2>3, <2>4
<1>12. CASE ackbibi
  <2>1. Replies(Header("ZFIN", 0)) /\ rpc' \notin Waiting /\ rpc' \notin Receiving /\ UNCHANGED stored
    BY <1>12 DEF ackbibi, Waiting, Receiving
  <2>2. Header("ZFIN", 0) \in TxToken /\ Header("ZFIN", 0).type = "ZFIN"
    BY Tokens, NotCounted DEF TxTypes
  <2> QED BY <1>t, <1>1, <2>1, <2>2, AnswersSay
<1>13. CASE ackbibiAnswer
  <2>1. rpc' \notin Waiting /\ rpc' \notin Receiving /\ UNCHANGED stored /\ UNCHANGED toTx
    BY <1>13 DEF ackbibiAnswer, Give, Waiting, Receiving
  <2> QED BY <1>t, <1>1, <2>1, AnswersQuiet
<1> QED
  BY <1>5, <1>6, <1>7, <1>8, <1>9, <1>10, <1>11, <1>12, <1>13 DEF RzNext

LEMMA GarbleAnswers == TypeInv /\ Answers /\ Garble => Answers'
<1> SUFFICES ASSUME TypeInv, Answers, Garble PROVE Answers'
  OBVIOUS
<1>1. UNCHANGED <<sender, receiver>> /\ toTx \in Seq(TxToken)
  BY DEF Garble, TypeInv, LineType
<1>2. CASE UNCHANGED toTx
  BY <1>1, <1>2, AnswersQuiet DEF receiver
<1>3. CASE toTx' \in Noise(toTx)
  <2>1. /\ NoneAfter(toTx, "ZRPOS", "ZRINIT") => NoneAfter(toTx', "ZRPOS", "ZRINIT")
        /\ NoneAfter(toTx, "ZRINIT", "ZRPOS") => NoneAfter(toTx', "ZRINIT", "ZRPOS")
        /\ Without(toTx, "ZRPOS") => Without(toTx', "ZRPOS")
        /\ Without(toTx, "ZRINIT") => Without(toTx', "ZRINIT")
    BY <1>1, <1>3, OrderNoise
  <2> QED BY <1>1, <2>1 DEF Answers, sender, receiver, Stored, Content
<1> QED
  BY <1>2, <1>3 DEF Garble

----------------------------------------------------------------------------
(* The line to the receiver: what is read leaves offers and a stream.      *)
LEMMA OrderedAfter ==
    ASSUME NEW S, NEW ch \in Seq(S), NEW a \in 0 .. Len(ch), NEW b \in 0 .. Len(ch),
           NEW k \in 0 .. Len(ch), NEW name, Ordered(ch, a, b, name)
    PROVE  /\ Left(a, k) \in 0 .. Len(After(ch, k)) /\ Left(b, k) \in 0 .. Len(After(ch, k))
           /\ Ordered(After(ch, k), Left(a, k), Left(b, k), name)
<1> DEFINE rest == After(ch, k)
<1>1. /\ Len(rest) = Len(ch) - k /\ Len(ch) \in Nat
      /\ \A j \in 1 .. Len(ch) - k : rest[j] = ch[k + j]
  BY AfterIs, LenProperties
<1> HIDE DEF rest
<1>2. a <= b
  BY DEF Ordered
<1>3. Left(a, k) \in 0 .. Len(rest) /\ Left(b, k) \in 0 .. Len(rest) /\ Left(a, k) <= Left(b, k)
  BY <1>1, <1>2 DEF Left
<1>4. ASSUME NEW i \in 1 .. Left(a, k), Whole(rest[i]) PROVE rest[i].type # "ZFILE"
  <2>1. k + i \in 1 .. a /\ i \in 1 .. Len(ch) - k
    BY <1>1, <1>3 DEF Left
  <2> QED BY <1>1, <1>4, <2>1 DEF Ordered
<1>5. ASSUME NEW i \in Left(a, k) + 1 .. Left(b, k) PROVE Offer(rest, i, Left(b, k), name)
  <2>1. k + i \in a + 1 .. b /\ i \in 1 .. Len(ch) - k /\ (k + i < b <=> i < Left(b, k))
    BY <1>1, <1>3 DEF Left
  <2>2. Offer(ch, k + i, b, name) /\ rest[i] = ch[k + i]
    BY <1>1, <2>1 DEF Ordered
  <2>3. k + i < b => rest[i + 1] = ch[(k + i) + 1]
    <3> SUFFICES ASSUME k + i < b PROVE rest[i + 1] = ch[(k + i) + 1]
      OBVIOUS
    <3>1. i + 1 \in 1 .. Len(ch) - k /\ k + (i + 1) = (k + i) + 1
      BY <1>1, <2>1
    <3> QED BY <1>1, <3>1
  <2> QED BY <2>1, <2>2, <2>3 DEF Offer
<1>6. Ordered(rest, Left(a, k), Left(b, k), name)
  BY <1>3, <1>4, <1>5 DEF Ordered
<1> QED
  BY <1>3, <1>6 DEF rest

LEMMA LineIs ==
    ASSUME TypeInv
    PROVE  /\ toRx \in Seq(RxToken) /\ Len(toRx) \in Nat
           /\ \A k \in 1 .. Len(toRx) : k \in 0 .. Len(toRx)
           /\ \A k \in 0 .. Len(toRx) :
                /\ Len(After(toRx, k)) = Len(toRx) - k
                /\ \A j \in 1 .. Len(toRx) - k : After(toRx, k)[j] = toRx[k + j]
<1>1. toRx \in Seq(RxToken) /\ Len(toRx) \in Nat
  BY LenProperties DEF TypeInv, LineType
<1> QED
  BY <1>1, AfterIs

(* The receiver reads on, but for the three reads that say where it is.    *)
LEMMA LineRead ==
    ASSUME TypeInv, LineInv, UNCHANGED sender, NEW k \in 0 .. Len(toRx), toRx' = After(toRx, k),
           rpc \in Waiting \cup Receiving, rpc' \notin {"tryz_name", "rz_data"},
           rpc' \in Receiving => rpc \in Receiving \cup {"tryz_name"},
           rpc' \in Waiting /\ rpc \in Receiving =>
             k \in 1 .. Len(toRx) /\ Whole(toRx[k]) /\ toRx[k].type # "ZFILE"
    PROVE  LineInv'
<1>1. PICK a, b \in 0 .. Len(toRx) : Ordered(toRx, a, b, Files[file]) /\ Stage(a, b) /\ Streamed(b)
  BY DEF LineInv
<1>2. toRx \in Seq(RxToken) /\ Len(toRx) \in Nat /\ Len(toRx') = Len(toRx) - k
  BY AfterIs, LenProperties DEF TypeInv, LineType
<1> DEFINE a2 == Left(a, k)  b2 == Left(b, k)
<1>3. a2 \in 0 .. Len(toRx') /\ b2 \in 0 .. Len(toRx') /\ Ordered(toRx', a2, b2, Files[file])
  BY <1>1, <1>2, OrderedAfter
<1>4. Stage(a2, b2)'
  <2>1. spc \in Offering => b2 = Len(toRx')
    BY <1>1, <1>2 DEF Stage, Left
  <2>2. rpc' \in Receiving => a2 = 0
    BY <1>1, <1>2 DEF Stage, Left, Receiving
  <2>3. ASSUME spc \in Sending, rpc' \in Waiting PROVE b2 = 0
    <3>1. CASE rpc \in Waiting
      BY <1>1, <1>2, <2>3, <3>1 DEF Stage, Left
    <3>2. CASE rpc \in Receiving
      <4>1. Whole(toRx[k]) /\ toRx[k].type # "ZFILE" /\ k \in 1 .. Len(toRx) /\ a = 0
        BY <1>1, <2>3, <3>2 DEF Stage
      <4>2. k \notin a + 1 .. b
        BY <1>1, <4>1 DEF Ordered, Offer
      <4>3. k > b
        BY <1>1, <1>2, <4>1, <4>2
      <4> QED BY <1>1, <1>2, <4>3 DEF Left
    <3> QED BY <3>1, <3>2
  <2> HIDE DEF a2, b2
  <2> QED BY <2>1, <2>2, <2>3 DEF Stage, sender
<1>5. Streamed(b2)'
  <2>1. Ahead' = Ahead /\ Here' = 0 .. size /\ size = Len(Content) /\ Content' = Content
    BY DEF Ahead, Here, Open, size, Content, sender
  <2>2. ASSUME NEW v \in Ahead PROVE Placed(toRx', b2, 0 .. size, v, Content)
    <3>1. Placed(toRx, b, Here, v, Content)
      BY <1>1 DEF Streamed
    <3> QED BY <1>1, <1>2, <2>1, <3>1, PlacedAfter
  <2> HIDE DEF b2
  <2> QED BY <2>1, <2>2 DEF Streamed
<1> HIDE DEF a2, b2
<1>6. file' = file
  BY DEF sender
<1> QED
  BY <1>3, <1>4, <1>5, <1>6 DEF LineInv

(* A header that the receiver of a file reads is past the offers.          *)
LEMMA PastOffers ==
    ASSUME TypeInv, NEW a \in 0 .. Len(toRx), NEW b \in 0 .. Len(toRx),
           Ordered(toRx, a, b, Files[file]), Stage(a, b), rpc \in Receiving,
           NEW k \in 1 .. Len(toRx), Whole(toRx[k]), toRx[k].type # "ZFILE"
    PROVE  k > b
<1>1. a = 0 /\ Len(toRx) \in Nat
  BY LenProperties DEF Stage, TypeInv, LineType
<1>2. k \notin a + 1 .. b
  BY DEF Ordered, Offer
<1> QED
  BY <1>1, <1>2

(* The receiver comes to data, or goes on with it, at its own place.       *)
LEMMA LineData ==
    ASSUME TypeInv, LineInv, UNCHANGED sender, NEW k \in 1 .. Len(toRx), toRx' = After(toRx, k),
           rpc \in Receiving, rpc' = "rz_data",
           \/ Whole(toRx[k]) /\ toRx[k].type = "ZDATA" /\ toRx[k].pos = rxbytes'
           \/ /\ rpc = "rz_data" /\ k = 1 /\ toRx[1].kind = "data" /\ toRx[1].good
              /\ toRx[1].end = "ZCRCG" /\ rxbytes' = rxbytes + Len(toRx[1].units)
    PROVE  LineInv'
<1>1. PICK a, b \in 0 .. Len(toRx) : Ordered(toRx, a, b, Files[file]) /\ Stage(a, b) /\ Streamed(b)
  BY DEF LineInv
<1>2. toRx \in Seq(RxToken) /\ Len(toRx) \in Nat /\ Len(toRx') = Len(toRx) - k /\ k \in 0 .. Len(toRx)
  BY LineIs
<1>3. k > b
  <2>1. CASE rpc = "rz_data"
    BY <1>1, <1>2, <2>1 DEF Stage
  <2>2. CASE rpc # "rz_data"
    BY <1>1, <2>2, PastOffers
  <2> QED BY <2>1, <2>2
<1>4. Left(a, k) = 0 /\ Left(b, k) = 0
  BY <1>1, <1>2, <1>3 DEF Left, Ordered
<1>5. 0 \in 0 .. Len(toRx') /\ Ordered(toRx', 0, 0, Files[file])
  BY <1>1, <1>2, <1>4, OrderedAfter
<1>6. Stage(0, 0)'
  <2>1. spc \notin Offering \/ Len(toRx') = 0
    BY <1>1, <1>2, <1>3 DEF Stage
  <2> QED BY <2>1 DEF Stage, sender, Waiting
<1>7. Streamed(0)'
  <2>1. Ahead' = Ahead /\ Here' = {rxbytes'} /\ Content' = Content
    BY DEF Ahead, Here, Open, size, Content, sender
  <2>2. ASSUME NEW v \in Ahead PROVE Placed(toRx', 0, {rxbytes'}, v, Content)
    <3>1. Placed(toRx, b, Here, v, Content)
      BY <1>1 DEF Streamed
    <3>2. PICK o, p \in 0 .. Len(Content) :
            /\ Carries(toRx[k], o, p, Content)
            /\ k = 1 => o \in Here
            /\ Placed(toRx', 0, {p}, v, Content)
      BY <1>1, <1>2, <1>3, <3>1, PlacedAfter
    <3>3. p = rxbytes'
      <4>1. CASE Whole(toRx[k]) /\ toRx[k].type = "ZDATA" /\ toRx[k].pos = rxbytes'
        BY <3>2, <4>1 DEF Carries
      <4>2. CASE /\ rpc = "rz_data" /\ k = 1 /\ toRx[1].kind = "data" /\ toRx[1].good
                 /\ toRx[1].end = "ZCRCG" /\ rxbytes' = rxbytes + Len(toRx[1].units)
        BY <3>2, <4>2 DEF Carries, Here
      <4> QED BY <4>1, <4>2
    <3> QED BY <3>2, <3>3
  <2> QED BY <2>1, <2>2 DEF Streamed
<1>8. file' = file
  BY DEF sender
<1> QED
  BY <1>5, <1>6, <1>7, <1>8 DEF LineInv

(* The receiver comes to a name.                                           *)
LEMMA LineName ==
    ASSUME TypeInv, LineInv, UNCHANGED sender, NEW k \in 1 .. Len(toRx), toRx' = After(toRx, k),
           rpc \in Waiting, rpc' = "tryz_name", Whole(toRx[k]), toRx[k].type = "ZFILE"
    PROVE  LineInv'
<1>1. PICK a, b \in 0 .. Len(toRx) : Ordered(toRx, a, b, Files[file]) /\ Stage(a, b) /\ Streamed(b)
  BY DEF LineInv
<1>2. toRx \in Seq(RxToken) /\ Len(toRx) \in Nat /\ k \in 0 .. Len(toRx)
      /\ Len(toRx') = Len(toRx) - k /\ \A j \in 1 .. Len(toRx) - k : toRx'[j] = toRx[k + j]
  BY LineIs
<1>3. size = Len(Content) /\ Here = 0 .. size
  BY DEF Here, size, Content, Waiting
<1>4. k \in a + 1 .. b
  <2>1. k \notin 1 .. a
    BY <1>1 DEF Ordered
  <2>2. ~(k > b)
    <3> SUFFICES ASSUME k > b PROVE FALSE
      OBVIOUS
    <3>1. PICK v \in 0 .. size : Placed(toRx, b, Here, v, Content)
      BY <1>1, SomethingAhead DEF Streamed
    <3>2. \E o, p \in 0 .. Len(Content) : Carries(toRx[k], o, p, Content)
      BY <1>1, <1>2, <3>1, PlacedAfter
    <3> QED BY <3>2 DEF Carries
  <2> QED BY <1>1, <1>2, <2>1, <2>2
<1>5. k < b /\ toRx[k + 1].kind = "data"
  BY <1>1, <1>4 DEF Ordered, Offer
<1> DEFINE b2 == Left(b, k)
<1>6. Left(a, k) = 0 /\ b2 > 0 /\ toRx'[1] = toRx[k + 1]
  <2>1. 1 \in 1 .. Len(toRx) - k
    BY <1>1, <1>2, <1>5
  <2> QED BY <1>1, <1>2, <1>4, <1>5, <2>1 DEF Left
<1>7. 0 \in 0 .. Len(toRx') /\ b2 \in 0 .. Len(toRx') /\ Ordered(toRx', 0, b2, Files[file])
  BY <1>1, <1>2, <1>6, OrderedAfter
<1>8. Stage(0, b2)'
  <2>1. spc \in Offering => b2 = Len(toRx')
    BY <1>1, <1>2 DEF Stage, Left
  <2>2. spc \notin Sending
    BY <1>1, <1>2, <1>4 DEF Stage
  <2> HIDE DEF b2
  <2> QED BY <1>5, <1>6, <2>1, <2>2 DEF Stage, sender, Receiving
<1>9. Streamed(b2)'
  <2>1. Ahead' = Ahead /\ Here' = 0 .. size /\ Content' = Content
    BY DEF Ahead, Here, Open, size, Content, sender
  <2>2. ASSUME NEW v \in Ahead PROVE Placed(toRx', b2, 0 .. size, v, Content)
    <3>1. Placed(toRx, b, Here, v, Content)
      BY <1>1 DEF Streamed
    <3> QED BY <1>1, <1>2, <1>3, <3>1, PlacedAfter
  <2> HIDE DEF b2
  <2> QED BY <2>1, <2>2 DEF Streamed
<1> HIDE DEF b2
<1>10. file' = file
  BY DEF sender
<1> QED
  BY <1>7, <1>8, <1>9, <1>10 DEF LineInv

LEMMA LineUnread ==
    ASSUME TypeInv, LineInv, UNCHANGED <<sender, toRx>>, rpc \in Waiting \cup Receiving,
           rpc' \notin {"tryz_name", "rz_data"}, rpc' \in Receiving => rpc \in Receiving \cup {"tryz_name"},
           rpc' \in Waiting => rpc \notin Receiving
    PROVE  LineInv'
<1>1. toRx' = After(toRx, 0) /\ 0 \in 0 .. Len(toRx)
  BY AfterEnds, LenProperties DEF TypeInv, LineType
<1> QED
  BY <1>1, LineRead

LEMMA ReceiverLine == Inv /\ RzNext => LineInv'
<1> SUFFICES ASSUME Inv, RzNext PROVE LineInv'
  OBVIOUS
<1>t. TypeInv /\ LineInv
  BY DEF Inv
<1>1. UNCHANGED sender
  BY DEF RzNext, tryz, tryzHeader, tryzName, rzfilePosition, rzfileHeader, rzfileSkip, rzfileData,
         ackbibi, ackbibiAnswer
<1>2. CASE rpc' \notin Waiting \cup Receiving
  BY <1>2 DEF LineInv
<1>3. fubar => rpc' \notin Waiting \cup Receiving
  BY DEF fubar, Give, Waiting, Receiving
<1>4. \A pc : Forgive(pc) => rpc' = pc \/ rpc' \notin Waiting \cup Receiving
  BY <1>3 DEF Forgive
<1>5. CASE tryz
  <2>1. rpc \in Waiting /\ rpc \notin Receiving /\ UNCHANGED toRx
        /\ (rpc' = "tryz_hdr" \/ rpc' \notin Waiting \cup Receiving)
    BY <1>3, <1>5 DEF tryz, Stay, Waiting, Receiving
  <2> QED BY <1>t, <1>1, <1>2, <2>1, LineUnread DEF Receiving
<1>6. CASE tryzHeader
  <2>1. PICK r \in {zgethdr(toRx), Late(toRx)} :
          /\ RzReads(r, zgethdr(toRx))
          /\ \/ r.c = "ZFILE" /\ Stay("tryz_name")
             \/ Stay("tryz") \/ rpc' = "bibi" \/ fubar
    BY <1>6 DEF tryzHeader
  <2>2. PICK k \in 0 .. Len(toRx) :
          /\ toRx' = After(toRx, k)
          /\ r.c \notin Failure => k \in 1 .. Len(toRx) /\ Whole(toRx[k]) /\ r.c = toRx[k].type
    BY <1>t, <2>1, RzReadHeader
  <2>3. rpc \in Waiting /\ rpc \notin Receiving
    BY <1>6 DEF tryzHeader, Waiting, Receiving
  <2>4. CASE r.c = "ZFILE" /\ Stay("tryz_name")
    <3>1. k \in 1 .. Len(toRx) /\ Whole(toRx[k]) /\ toRx[k].type = "ZFILE" /\ rpc' = "tryz_name"
      BY <2>2, <2>4 DEF Failure, Stay
    <3> QED BY <1>t, <1>1, <2>2, <2>3, <3>1, LineName
  <2>5. CASE Stay("tryz")
    <3>1. rpc' = "tryz" /\ rpc' \notin Receiving
      BY <2>5 DEF Stay, Receiving
    <3> QED BY <1>t, <1>1, <2>2, <2>3, <3>1, LineRead
  <2>6. CASE rpc' = "bibi" \/ fubar
    BY <1>2, <1>3, <2>6 DEF Waiting, Receiving
  <2> QED BY <2>1, <2>4, <2>5, <2>6
<1>7. CASE tryzName
  <2>1. PICK r \in {zrdata(toRx), Late(toRx)} :
          /\ RzReads(r, zrdata(toRx))
          /\ rpc' \in {"tryz", "rz_pos", "tryz_hdr"}
    BY <1>7 DEF tryzName, rzfile
  <2>2. PICK k \in 0 .. Len(toRx) : toRx' = After(toRx, k)
    BY <1>t, <2>1, RzReadData
  <2>3. rpc = "tryz_name" /\ rpc \in Waiting /\ rpc \notin Receiving
    BY <1>7 DEF tryzName, Waiting, Receiving
  <2> QED BY <1>t, <1>1, <2>1, <2>2, <2>3, LineRead
<1>8. CASE rzfilePosition
  <2>1. rpc \in Receiving /\ rpc' = "rz_hdr" /\ rpc' \notin Waiting /\ UNCHANGED toRx
    BY <1>8 DEF rzfilePosition, Receiving, Waiting
  <2> QED BY <1>t, <1>1, <2>1, LineUnread
<1>9. CASE rzfileHeader
  <2>1. PICK r \in {zgethdr(toRx), Late(toRx)} :
          /\ RzReads(r, zgethdr(toRx))
          /\ \/ Forgive("rz_skip") \/ Stay("rz_skip") \/ Stay("rz_hdr") \/ Forgive("rz_pos") \/ fubar
             \/ r.c = "ZDATA" /\ InPlace(r.pos) /\ Stay("rz_data")
             \/ r.c = "ZEOF" /\ rpc' = "tryz"
    BY <1>9 DEF rzfileHeader
  <2>2. PICK k \in 0 .. Len(toRx) :
          /\ toRx' = After(toRx, k)
          /\ r.c \notin Failure => /\ k \in 1 .. Len(toRx) /\ Whole(toRx[k])
                                   /\ r.c = toRx[k].type /\ r.pos = toRx[k].pos
    BY <1>t, <2>1, RzReadHeader
  <2>3. rpc \in Receiving
    BY <1>9 DEF rzfileHeader, Receiving
  <2>4. CASE rpc' \in {"rz_skip", "rz_hdr", "rz_pos"}
    <3>1. rpc' \notin Waiting
      BY <2>4 DEF Waiting
    <3> QED BY <1>t, <1>1, <2>2, <2>3, <2>4, <3>1, LineRead
  <2>5. CASE r.c = "ZDATA" /\ InPlace(r.pos) /\ Stay("rz_data")
    <3>1. k \in 1 .. Len(toRx) /\ Whole(toRx[k]) /\ toRx[k].type = "ZDATA" /\ toRx[k].pos = rxbytes'
          /\ rpc' = "rz_data"
      BY <2>2, <2>5 DEF Failure, Stay, InPlace
    <3> QED BY <1>t, <1>1, <2>2, <2>3, <3>1, LineData
  <2>6. CASE r.c = "ZEOF" /\ rpc' = "tryz"
    <3>1. k \in 1 .. Len(toRx) /\ Whole(toRx[k]) /\ toRx[k].type # "ZFILE" /\ rpc' \notin Receiving
      BY <2>2, <2>6 DEF Failure, Receiving
    <3> QED BY <1>t, <1>1, <2>2, <2>3, <2>6, <3>1, LineRead
  <2>7. rpc' \in {"rz_skip", "rz_hdr", "rz_pos"} \/ (r.c = "ZDATA" /\ InPlace(r.pos) /\ Stay("rz_data"))
        \/ (r.c = "ZEOF" /\ rpc' = "tryz") \/ rpc' \notin Waiting \cup Receiving
    BY <1>3, <1>4, <2>1 DEF Stay
  <2> QED BY <1>2, <2>4, <2>5, <2>6, <2>7
<1>10. CASE rzfileSkip
  <2>1. PICK r \in {zrdata(toRx), Late(toRx)} : RzReads(r, zrdata(toRx))
    BY <1>10 DEF rzfileSkip
  <2>2. PICK k \in 0 .. Len(toRx) : toRx' = After(toRx, k)
    BY <1>t, <2>1, RzReadData
  <2>3. rpc \in Receiving /\ rpc' = "rz_pos" /\ rpc' \notin Waiting
    BY <1>10 DEF rzfileSkip, Stay, Receiving, Waiting
  <2> QED BY <1>t, <1>1, <2>2, <2>3, LineRead
<1>11. CASE rzfileData
  <2>1. PICK r \in {zrdata(toRx), Late(toRx)} :
          /\ RzReads(r, zrdata(toRx))
          /\ \/ r.c \in Ends /\ rxbytes' = rxbytes + Len(r.units) /\ r.c = "ZCRCG" /\ rpc' = "rz_data"
             \/ rpc' = "rz_hdr" \/ fubar \/ Forgive("rz_pos")
    BY <1>11 DEF rzfileData, putsec
  <2>2. PICK k \in 0 .. Len(toRx) :
          /\ toRx' = After(toRx, k)
          /\ r.c \notin Failure =>
               /\ k = 1 /\ 1 \in 1 .. Len(toRx) /\ toRx[1].kind = "data" /\ toRx[1].good
               /\ r.c = toRx[1].end /\ r.units = toRx[1].units
    BY <1>t, <2>1, RzReadData
  <2>3. rpc \in Receiving /\ rpc = "rz_data"
    BY <1>11 DEF rzfileData, Receiving
  <2>4. CASE rxbytes' = rxbytes + Len(r.units) /\ r.c = "ZCRCG" /\ rpc' = "rz_data"
    <3>1. k = 1 /\ 1 \in 1 .. Len(toRx) /\ toRx[1].kind = "data" /\ toRx[1].good
          /\ toRx[1].end = "ZCRCG" /\ rxbytes' = rxbytes + Len(toRx[1].units)
      BY <2>2, <2>4 DEF Failure
    <3> QED BY <1>t, <1>1, <2>2, <2>3, <2>4, <3>1, LineData
  <2>5. CASE rpc' \in {"rz_hdr", "rz_pos"}
    <3>1. rpc' \notin Waiting
      BY <2>5 DEF Waiting
    <3> QED BY <1>t, <1>1, <2>2, <2>3, <2>5, <3>1, LineRead
  <2> QED BY <1>2, <1>3, <1>4, <2>1, <2>4, <2>5
<1>12. CASE ackbibi \/ ackbibiAnswer
  BY <1>2, <1>12 DEF ackbibi, ackbibiAnswer, Give, Waiting, Receiving
<1> QED
  BY <1>5, <1>6, <1>7, <1>8, <1>9, <1>10, <1>11, <1>12 DEF RzNext

----------------------------------------------------------------------------
(* The line to the receiver: what the sender says goes on with its stream. *)
LEMMA Longer ==
    ASSUME NEW S, NEW ch \in Seq(S), NEW tok \in S, NEW a \in Nat, NEW b \in 0 .. Len(ch), NEW name,
           Ordered(ch, a, b, name)
    PROVE  Ordered(Append(ch, tok), a, b, name)
<1> DEFINE more == Append(ch, tok)
<1>1. Len(ch) \in Nat /\ \A j \in 1 .. Len(ch) : more[j] = ch[j]
  BY AppendProperties, LenProperties
<1> HIDE DEF more
<1>2. a <= b
  BY DEF Ordered
<1>3. ASSUME NEW i \in 1 .. a, Whole(more[i]) PROVE more[i].type # "ZFILE"
  <2>1. i \in 1 .. Len(ch)
    BY <1>1, <1>2
  <2> QED BY <1>1, <1>3, <2>1 DEF Ordered
<1>4. ASSUME NEW i \in a + 1 .. b PROVE Offer(more, i, b, name)
  <2>1. i \in 1 .. Len(ch) /\ (i < b => i + 1 \in 1 .. Len(ch))
    BY <1>1, <1>2
  <2>2. more[i] = ch[i] /\ (i < b => more[i + 1] = ch[i + 1])
    BY <1>1, <2>1
  <2>3. Offer(ch, i, b, name)
    BY DEF Ordered
  <2> QED BY <2>2, <2>3 DEF Offer
<1> QED
  BY <1>2, <1>3, <1>4 DEF Ordered, more

LEMMA LineKept ==
    ASSUME TypeInv, LineInv, UNCHANGED <<toRx, rpc, rxbytes, file>>, Ahead' \subseteq Ahead,
           spc' \in Offering => spc \in Offering,
           spc' \in Sending /\ rpc \in Waiting => spc \in Sending
    PROVE  LineInv'
<1>1. CASE rpc \in Waiting \cup Receiving
  <2>1. PICK a, b \in 0 .. Len(toRx) : Ordered(toRx, a, b, Files[file]) /\ Stage(a, b) /\ Streamed(b)
    BY <1>1 DEF LineInv
  <2>2. Stage(a, b)'
    BY <2>1 DEF Stage
  <2>3. Streamed(b)'
    BY <2>1 DEF Streamed, Here, Content, size
  <2> QED BY <2>1, <2>2, <2>3 DEF LineInv
<1>2. CASE rpc \notin Waiting \cup Receiving
  BY <1>2 DEF LineInv
<1> QED
  BY <1>1, <1>2

LEMMA LineTold ==
    ASSUME TypeInv, LineInv, UNCHANGED <<rpc, rxbytes, file>>, NEW tok \in RxToken, Says(<<tok>>),
           spc \notin Offering, spc' \notin Offering, spc' \in Sending => spc \in Sending,
           \A w \in Ahead' : w \in 0 .. size /\ \E v \in Ahead : Carries(tok, v, w, Content)
    PROVE  LineInv'
<1>1. CASE rpc \in Waiting \cup Receiving
  <2>1. PICK a, b \in 0 .. Len(toRx) : Ordered(toRx, a, b, Files[file]) /\ Stage(a, b) /\ Streamed(b)
    BY <1>1 DEF LineInv
  <2>2. toRx \in Seq(RxToken) /\ Len(toRx) \in Nat
    BY LenProperties DEF TypeInv, LineType
  <2>3. toRx' = Append(toRx, tok)
    <3>1. toRx' = toRx \o <<tok>>
      BY <1>1 DEF Says, RzGone, Waiting, Receiving
    <3> QED BY <2>2, <3>1, AppendIsConcat
  <2>4. Len(toRx') = Len(toRx) + 1 /\ \A j \in 1 .. Len(toRx) : toRx'[j] = toRx[j]
    BY <2>2, <2>3, AppendProperties
  <2>5. a \in 0 .. Len(toRx') /\ b \in 0 .. Len(toRx') /\ Ordered(toRx', a, b, Files[file])
    BY <2>1, <2>2, <2>3, <2>4, Longer
  <2>6. Stage(a, b)'
    <3>1. rpc = "tryz_name" => 1 \in 1 .. Len(toRx)
      BY <2>1, <2>2 DEF Stage
    <3> QED BY <2>1, <2>4, <3>1 DEF Stage
  <2>7. Streamed(b)'
    <3>1. Here' = Here /\ Content' = Content /\ size = Len(Content)
      BY DEF Here, Content, size
    <3>2. ASSUME NEW w \in Ahead' PROVE Placed(toRx', b, Here, w, Content)
      <4>1. PICK v \in Ahead : Carries(tok, v, w, Content)
        BY <3>2
      <4>2. Placed(toRx, b, Here, v, Content)
        BY <2>1 DEF Streamed
      <4> QED BY <2>1, <2>2, <2>3, <3>1, <3>2, <4>1, <4>2, PlacedAppend
    <3> QED BY <3>1, <3>2 DEF Streamed
  <2> QED BY <2>5, <2>6, <2>7 DEF LineInv
<1>2. CASE rpc \notin Waiting \cup Receiving
  BY <1>2 DEF LineInv
<1> QED
  BY <1>1, <1>2

(* The sender says nothing.                                                *)
LEMMA SaysNothing ==
    ASSUME TypeInv, Says(<<>>), rpc \in Waiting \cup Receiving
    PROVE  toRx' = toRx
<1>1. toRx' = toRx \o <<>> /\ toRx \in Seq(RxToken)
  BY DEF Says, RzGone, Waiting, Receiving, TypeInv, LineType
<1> QED
  BY <1>1, ConcatEmptySeq

(* The sender offers the file.                                             *)
LEMMA LineOffered == TypeInv /\ LineInv /\ PlaceInv /\ zsendfile => LineInv'
<1> SUFFICES ASSUME TypeInv, LineInv, PlaceInv, zsendfile, rpc \in Waiting \cup Receiving PROVE LineInv'
  BY DEF LineInv, zsendfile, receiver
<1>1. spc = "file" /\ spc' = "file_ack" /\ spc \in Offering /\ spc' \in Offering /\ spc' \notin Sending
      /\ UNCHANGED <<file, receiver>>
  BY DEF zsendfile, Offering, Sending
<1>2. PICK a, b \in 0 .. Len(toRx) : Ordered(toRx, a, b, Files[file]) /\ Stage(a, b) /\ Streamed(b)
  BY DEF LineInv
<1>3. toRx \in Seq(RxToken) /\ Len(toRx) \in Nat /\ b = Len(toRx)
  BY <1>1, <1>2, LineIs DEF Stage
<1>0. PICK len \in Nat : len = Len(toRx)
  BY <1>3
<1> DEFINE offer == Header("ZFILE", 0)
           once == Append(toRx, offer)  twice == Append(once, wctxpn)
<1>4. offer \in RxToken /\ wctxpn \in RxToken
  BY Tokens, SubpacketTypes DEF RxTypes
<1>5. once \in Seq(RxToken) /\ Len(once) = len + 1 /\ once[len + 1] = offer
      /\ \A j \in 1 .. len : once[j] = toRx[j]
  BY <1>0, <1>3, <1>4, AppendProperties
<1>6. twice \in Seq(RxToken) /\ Len(twice) = len + 2 /\ twice[len + 2] = wctxpn /\ twice[len + 1] = offer
      /\ \A j \in 1 .. len : twice[j] = toRx[j]
  <2> HIDE DEF once
  <2>1. twice \in Seq(RxToken) /\ Len(twice) = len + 2 /\ twice[len + 2] = wctxpn
        /\ \A j \in 1 .. len + 1 : twice[j] = once[j]
    BY <1>0, <1>3, <1>4, <1>5, AppendProperties
  <2> HIDE DEF twice
  <2>2. len + 1 \in 1 .. len + 1 /\ \A j \in 1 .. len : j \in 1 .. len + 1
    BY <1>0, <1>3
  <2> QED BY <1>5, <2>1, <2>2
<1>7. toRx' = twice
  <2>1. toRx' = toRx \o <<offer, wctxpn>>
    BY <1>1 DEF zsendfile, Says, RzGone, Waiting, Receiving
  <2>2. <<offer, wctxpn>> = Append(<<offer>>, wctxpn)
    OBVIOUS
  <2>3. toRx' \in Seq(RxToken) /\ Len(toRx') = len + 2
        /\ \A j \in 1 .. len + 2 : toRx'[j] = IF j <= len THEN toRx[j] ELSE <<offer, wctxpn>>[j - len]
    <3>1. <<offer, wctxpn>> \in Seq(RxToken) /\ Len(<<offer, wctxpn>>) = 2
      BY <1>4
    <3> QED BY <1>0, <1>3, <2>1, <3>1, ConcatProperties
  <2>4. ASSUME NEW j \in 1 .. len + 2 PROVE toRx'[j] = twice[j]
    <3>1. CASE j \in 1 .. len
      BY <1>6, <2>3, <3>1
    <3>2. CASE j = len + 1
      <4>1. toRx'[j] = <<offer, wctxpn>>[1]
        BY <1>0, <1>3, <2>3, <3>2
      <4> QED BY <1>6, <3>2, <4>1
    <3>3. CASE j = len + 2
      <4>1. toRx'[j] = <<offer, wctxpn>>[2]
        BY <1>0, <1>3, <2>3, <3>3
      <4> QED BY <1>6, <3>3, <4>1
    <3> QED BY <1>0, <1>3, <3>1, <3>2, <3>3
  <2> HIDE DEF twice, once
  <2> QED BY <1>6, <2>3, <2>4, SeqEqual
<1> HIDE DEF twice, once
<1>8. Ordered(twice, a, len + 2, Files[file])
  <2>1. a <= len + 2
    BY <1>0, <1>3
  <2>2. ASSUME NEW i \in 1 .. a, Whole(twice[i]) PROVE twice[i].type # "ZFILE"
    <3>1. i \in 1 .. len
      BY <1>0, <1>3
    <3> QED BY <1>2, <1>6, <2>2, <3>1 DEF Ordered
  <2>3. ASSUME NEW i \in a + 1 .. len + 2 PROVE Offer(twice, i, len + 2, Files[file])
    <3>1. wctxpn.kind = "data" /\ wctxpn.units = <<Files[file]>> /\ wctxpn.end = "ZCRCW"
      BY DEF wctxpn, Subpacket
    <3>2. CASE i \in a + 1 .. len
      <4>1. Offer(toRx, i, len, Files[file]) /\ i \in 1 .. len
        BY <1>2, <1>0, <1>3, <3>2 DEF Ordered
      <4>2. i < len => i + 1 \in 1 .. len
        BY <1>0, <1>3, <4>1
      <4>3. twice[i] = toRx[i] /\ (i < len => twice[i + 1] = toRx[i + 1]) /\ (i < len => i < len + 2)
        BY <1>0, <1>3, <1>6, <4>1, <4>2
      <4> QED BY <4>1, <4>3 DEF Offer
    <3>3. CASE i = len + 1
      <4>1. twice[i] = offer /\ twice[i + 1] = wctxpn /\ i < len + 2
        BY <1>0, <1>3, <1>6, <3>3
      <4>2. offer.kind = "header" /\ offer.type = "ZFILE"
        BY DEF Header
      <4> HIDE DEF offer
      <4> QED BY <3>1, <4>1, <4>2 DEF Offer
    <3>4. CASE i = len + 2
      <4>1. twice[i] = wctxpn
        BY <1>6, <3>4
      <4> HIDE DEF offer
      <4> QED BY <3>1, <4>1 DEF Offer, Whole
    <3> QED BY <1>0, <1>3, <3>2, <3>3, <3>4
  <2> QED BY <2>1, <2>2, <2>3 DEF Ordered
<1>9. Stage(a, len + 2)'
  <2>1. rpc # "rz_data"
    BY <1>1 DEF PlaceInv
  <2>2. rpc = "tryz_name" => twice[1] = toRx[1]
    <3>1. rpc = "tryz_name" => 1 \in 1 .. len
      BY <1>2, <1>0, <1>3 DEF Stage
    <3> QED BY <1>6, <3>1
  <2>3. spc' \in Offering => len + 2 = Len(toRx')
    BY <1>6, <1>7
  <2>4. rpc' \in Receiving => a = 0
    BY <1>1, <1>2 DEF Stage, receiver
  <2>5. rpc' = "tryz_name" => a = 0 /\ len + 2 > 0 /\ toRx'[1].kind = "data"
    BY <1>1, <1>2, <1>0, <1>3, <1>7, <2>2 DEF Stage, receiver
  <2> QED BY <1>1, <2>1, <2>3, <2>4, <2>5 DEF Stage, receiver
<1>10. Streamed(len + 2)'
  <2>1. Here' = 0 .. size /\ Content' = Content /\ size = Len(Content)
    BY <1>1 DEF PlaceInv, Here, Content, size, receiver
  <2>2. Ahead' = 0 .. size
    BY <1>1 DEF Ahead, Open, size
  <2>3. ASSUME NEW v \in 0 .. size PROVE Placed(twice, len + 2, 0 .. size, v, Content)
    <3> QED BY <1>6, <2>1, PlacedUnsent
  <2> QED BY <1>7, <2>1, <2>2, <2>3 DEF Streamed
<1>11. a \in 0 .. Len(toRx') /\ len + 2 \in 0 .. Len(toRx') /\ file' = file
  BY <1>1, <1>0, <1>3, <1>6, <1>7
<1> QED
  BY <1>7, <1>8, <1>9, <1>10, <1>11 DEF LineInv

(* A place at a time, the sender goes on.                                  *)
LEMMA CarriesHeader ==
    ASSUME NEW type \in {"ZDATA", "ZEOF", "ZNAK", "ZFIN"}, NEW pos, NEW v, NEW s,
           type = "ZDATA" => pos = v, type = "ZEOF" => pos = Len(s)
    PROVE  Carries(Header(type, pos), v, v, s)
BY DEF Carries, Header, Whole

LEMMA CarriesData ==
    ASSUME NEW u, NEW e, NEW v, NEW w, NEW s, v + Len(u) <= Len(s),
           u = SubSeq(s, v + 1, v + Len(u)), e = "ZCRCG" => w = v + Len(u)
    PROVE  Carries(Subpacket(u, e), v, w, s)
BY DEF Carries, Subpacket, Whole

LEMMA CarriesNothing ==
    ASSUME NEW v \in Nat, NEW w, NEW s, NEW S, s \in Seq(S), v <= Len(s)
    PROVE  Carries(Subpacket(<<>>, "ZCRCE"), v, w, s)
<1>1. Len(<<>>) = 0 /\ v + 0 = v /\ v + 1 \in Int
  BY EmptySeq
<1>2. SubSeq(s, v + 1, v) = <<>>
  <2>1. v < v + 1 /\ v \in Int /\ v + 1 \in Int
    OBVIOUS
  <2> QED BY <2>1, SubSeqEmpty
<1> QED
  BY <1>1, <1>2, CarriesData

LEMMA SzFacts ==
    TypeInv => /\ Content \in Seq(Units) /\ size = Len(Content) /\ size \in Nat /\ Txpos \in Nat
               /\ spc \in Sending => Txpos <= size
               /\ {"fin", "fin_ack", "end"} \cap (Offering \cup Sending) = {}
               /\ Offering \cap Sending = {}
BY FileFacts DEF TypeInv, SzType, Content, size, Offering, Sending

LEMMA LineSilent ==
    ASSUME TypeInv, LineInv, UNCHANGED <<rpc, rxbytes, file>>, Says(<<>>) \/ UNCHANGED toRx,
           Ahead' \subseteq Ahead,
           spc' \in Offering => spc \in Offering,
           spc' \in Sending /\ rpc \in Waiting => spc \in Sending
    PROVE  LineInv'
<1>1. CASE rpc \in Waiting \cup Receiving
  <2>1. toRx' = toRx
    BY <1>1, SaysNothing
  <2> QED BY <2>1, LineKept
<1>2. CASE rpc \notin Waiting \cup Receiving
  BY <1>2 DEF LineInv
<1> QED
  BY <1>1, <1>2

(* The sender goes on to the next file: what is on the line is of earlier  *)
(* ones, and has no ZFILE.                                                 *)
LEMMA LineNext ==
    ASSUME TypeInv, LineInv, UNCHANGED receiver, spc \in Sending, spc' = "file", rpc \notin Receiving,
           Says(<<>>) \/ Says(<<Subpacket(<<>>, "ZCRCE")>>)
    PROVE  LineInv'
<1> SUFFICES ASSUME rpc \in Waiting PROVE LineInv'
  BY DEF LineInv, receiver
<1>1. PICK a, b \in 0 .. Len(toRx) : Ordered(toRx, a, b, Files[file]) /\ Stage(a, b) /\ Streamed(b)
  BY DEF LineInv
<1>2. b = 0 /\ rpc # "tryz_name" /\ rpc # "rz_data"
  BY <1>1 DEF Stage, Waiting
<1>3. toRx \in Seq(RxToken) /\ Len(toRx) \in Nat
  BY LineIs
<1>4. ASSUME NEW i \in 1 .. Len(toRx), Whole(toRx[i]) PROVE toRx[i].type # "ZFILE"
  <2>1. PICK v \in 0 .. size : Placed(toRx, b, Here, v, Content)
    BY <1>1, SomethingAhead DEF Streamed
  <2>2. i > b /\ i \in 0 .. Len(toRx)
    BY <1>2, <1>3
  <2>3. \E o, p \in 0 .. Len(Content) : Carries(toRx[i], o, p, Content)
    BY <1>1, <1>3, <2>1, <2>2, PlacedAfter
  <2> QED BY <1>4, <2>3 DEF Carries
<1> DEFINE tok == Subpacket(<<>>, "ZCRCE")
<1>5. toRx' = toRx \/ toRx' = Append(toRx, tok)
  <2>1. CASE Says(<<>>)
    BY <2>1, SaysNothing
  <2>2. CASE Says(<<tok>>)
    <3>1. toRx' = toRx \o <<tok>> /\ tok \in RxToken
      BY <2>2, SubpacketTypes DEF Says, RzGone, Waiting
    <3> HIDE DEF tok
    <3> QED BY <1>3, <3>1, AppendIsConcat
  <2> QED BY <2>1, <2>2
<1>6. toRx' \in Seq(RxToken) /\ Len(toRx') \in Nat
      /\ \A i \in 1 .. Len(toRx') : Whole(toRx'[i]) => toRx'[i].type # "ZFILE"
  <2>1. CASE toRx' = toRx
    BY <1>3, <1>4, <2>1
  <2>2. CASE toRx' = Append(toRx, tok)
    <3>1. tok \in RxToken /\ ~Whole(tok)
      BY SubpacketTypes DEF Whole, Subpacket
    <3> HIDE DEF tok
    <3>2. toRx' \in Seq(RxToken) /\ Len(toRx') = Len(toRx) + 1 /\ toRx'[Len(toRx) + 1] = tok
          /\ \A i \in 1 .. Len(toRx) : toRx'[i] = toRx[i]
      BY <1>3, <2>2, <3>1, AppendProperties
    <3>3. ASSUME NEW i \in 1 .. Len(toRx'), Whole(toRx'[i]) PROVE toRx'[i].type # "ZFILE"
      <4>1. CASE i \in 1 .. Len(toRx)
        BY <1>4, <3>2, <3>3, <4>1
      <4>2. CASE i = Len(toRx) + 1
        BY <3>1, <3>2, <3>3, <4>2
      <4> QED BY <1>3, <3>2, <4>1, <4>2
    <3> QED BY <1>3, <3>2, <3>3
  <2> QED BY <1>5, <2>1, <2>2
<1>7. PICK m \in Nat : m = Len(toRx')
  BY <1>6
<1>8. Ordered(toRx', m, m, Files'[file'])
  BY <1>6, <1>7 DEF Ordered
<1>9. Stage(m, m)'
  BY <1>2, <1>7 DEF Stage, receiver, Sending, Waiting, Receiving
<1>10. Streamed(m)'
  <2>1. Ahead' = 0 .. size' /\ Here' = 0 .. size' /\ size' = Len(Content')
    BY <1>2 DEF Ahead, Here, Open, Content, size, receiver
  <2>2. \A v \in 0 .. Len(Content') : Placed(toRx', Len(toRx'), 0 .. Len(Content'), v, Content')
    BY <1>6, PlacedUnsent
  <2> QED BY <1>7, <2>1, <2>2 DEF Streamed
<1> QED
  BY <1>7, <1>8, <1>9, <1>10 DEF LineInv

LEMMA SenderLine == TypeInv /\ Answers /\ LineInv /\ PlaceInv /\ SzNext => LineInv'
<1> SUFFICES ASSUME TypeInv, Answers, LineInv, PlaceInv, SzNext PROVE LineInv'
  OBVIOUS
<1>1. UNCHANGED <<rpc, rxbytes, receiver>>
  BY DEF SzNext, zsendfile, zsendfileAnswer, zsendfileDrain, zsendfdata, zsendfdataNext, ReadCheck,
         zsendfdataEof, getinsync, saybibi, saybibiAnswer, receiver
<1>2. /\ Content \in Seq(Units) /\ size = Len(Content) /\ size \in Nat /\ Txpos \in Nat
      /\ spc \in Sending => Txpos <= size
      /\ {"fin", "fin_ack", "end"} \cap (Offering \cup Sending) = {}
      /\ Offering \cap Sending = {}
  BY SzFacts
<1>3. file' = file => size' = size
  BY DEF size
<1>4. CASE zsendfile
  BY <1>4, LineOffered
<1>5. CASE zsendfileAnswer
  <2>1. PICK r \in {zgethdr(toTx), Late(toTx)} : SzReads(r) /\ FileAnswered(r)
    BY <1>5 DEF zsendfileAnswer
  <2>2. spc \in Offering /\ UNCHANGED toRx /\ Ahead = 0 .. size
    BY <1>5 DEF zsendfileAnswer, Offering, Ahead, Open
  <2>3. file' = file /\ spc' \in {"fin", "zdata", "drain", "file"} /\ (spc' = "zdata" => r.c = "ZRPOS")
    BY <2>1 DEF FileAnswered, wcs, NextFile
  <2>4. Ahead' \subseteq Ahead
    BY <1>3, <2>2, <2>3 DEF Ahead, Open
  <2>5. ~(spc' \in Sending /\ rpc \in Waiting)
    <3> SUFFICES ASSUME spc' \in Sending, rpc \in Waiting PROVE FALSE
      OBVIOUS
    <3>1. r.c = "ZRPOS"
      BY <2>3 DEF Sending
    <3>2. \E k \in DOMAIN toTx : Comes(toTx, "ZRPOS", k)
      BY <2>1, <3>1, SzRead DEF Failure
    <3> QED BY <2>2, <3>2 DEF Answers, Without
  <2> QED BY <1>1, <2>2, <2>3, <2>4, <2>5, LineSilent
<1>6. CASE zsendfileDrain
  <2>1. spc \in Offering /\ spc' \in Offering /\ spc' \notin Sending /\ UNCHANGED <<toRx, file>>
    BY <1>6 DEF zsendfileDrain, Offering, Sending
  <2>2. Ahead' \subseteq Ahead
    BY <1>3, <1>6, <2>1 DEF zsendfileDrain, Ahead, Open
  <2> QED BY <1>1, <2>1, <2>2, LineSilent
<1>7. CASE zsendfdata
  <2>1. Ahead = 0 .. size /\ Ahead' = {Txpos} /\ spc \in Sending /\ spc' \in Sending /\ UNCHANGED file
        /\ Says(<<Header("ZDATA", Txpos)>>)
    BY <1>7 DEF zsendfdata, Ahead, Open, Sending
  <2>2. Header("ZDATA", Txpos) \in RxToken /\ Carries(Header("ZDATA", Txpos), Txpos, Txpos, Content)
    BY <1>2, Tokens, CarriesHeader DEF RxTypes
  <2>3. Txpos \in 0 .. size
    BY <1>2, <2>1
  <2> QED BY <1>1, <1>2, <2>1, <2>2, <2>3, LineTold
<1>8. CASE zsendfdataNext
  <2>1. PICK e \in Ends :
          /\ Says(<<Subpacket(zfilbuf, e)>>)
          /\ Txpos' = Txpos + Len(zfilbuf) /\ Eofseen' = (Len(zfilbuf) < BlkLen)
          /\ spc' = IF e = "ZCRCW" THEN "wait" ELSE "check"
          /\ Len(zfilbuf) < BlkLen <=> e = "ZCRCE"
    BY <1>8 DEF zsendfdataNext, Ends
  <2>2. Ahead = {Txpos} /\ spc \in Sending /\ spc' \in Sending /\ UNCHANGED file
    BY <1>8, <2>1 DEF zsendfdataNext, Ahead, Open, Sending
  <2>3. /\ zfilbuf \in Seq(Units) /\ Len(zfilbuf) \in Nat
        /\ Txpos + Len(zfilbuf) <= Len(Content)
        /\ zfilbuf = SubSeq(Content, Txpos + 1, Txpos + Len(zfilbuf))
    BY <1>2, <2>2, BufferIs DEF TypeInv, SzType
  <2>4. Ahead' = IF spc' = "check" /\ ~Eofseen' THEN {Txpos'} ELSE 0 .. size
    BY <1>3, <2>1, <2>2 DEF Ahead, Open
  <2>5. ASSUME NEW w \in Ahead'
        PROVE  w \in 0 .. size /\ Carries(Subpacket(zfilbuf, e), Txpos, w, Content)
    <3>1. CASE spc' = "check" /\ ~Eofseen'
      <4>1. w = Txpos + Len(zfilbuf)
        BY <2>1, <2>4, <2>5, <3>1
      <4>2. w \in 0 .. size
        BY <1>2, <2>3, <4>1
      <4> QED BY <2>3, <4>1, <4>2, CarriesData
    <3>2. CASE ~(spc' = "check" /\ ~Eofseen')
      <4>1. w \in 0 .. size
        BY <2>4, <2>5, <3>2
      <4>2. e # "ZCRCG"
        BY <2>1, <3>2
      <4> QED BY <2>3, <4>1, <4>2, CarriesData
    <3> QED BY <3>1, <3>2
  <2>6. Subpacket(zfilbuf, e) \in RxToken
    BY <2>3, SubpacketTypes
  <2> QED BY <1>1, <1>2, <2>1, <2>2, <2>5, <2>6, LineTold
<1>9. CASE ReadCheck
  <2>1. spc \in Sending /\ spc' \in Sending /\ UNCHANGED <<toRx, file, Txpos, Eofseen>>
    BY <1>9 DEF ReadCheck, Sending, line
  <2>2. Open' => Open
    BY <1>9 DEF ReadCheck, Open, line
  <2>3. Open => Open'
    BY <1>9 DEF ReadCheck, Open, line
  <2>4. Ahead' = Ahead
    BY <2>1, <2>2, <2>3 DEF Ahead, size
  <2> QED BY <1>1, <1>2, <2>1, <2>4, LineSilent
<1>10. CASE zsendfdataEof
  <2>1. Ahead = 0 .. size /\ Ahead' = 0 .. size /\ spc \in Sending /\ spc' \in Sending /\ UNCHANGED file
        /\ Says(<<Header("ZEOF", Txpos)>>) /\ Txpos = size
    BY <1>3, <1>10 DEF zsendfdataEof, Ahead, Open, Sending, PlaceInv
  <2>2. Header("ZEOF", Txpos) \in RxToken /\ \A v \in 0 .. size : Carries(Header("ZEOF", Txpos), v, v, Content)
    BY <1>2, <2>1, Tokens, CarriesHeader DEF RxTypes
  <2> QED BY <1>1, <1>2, <2>1, <2>2, LineTold
<1>11. CASE getinsync
  <2> DEFINE stop == Subpacket(<<>>, "ZCRCE")
  <2>1. PICK r \in {zgethdr(toTx), Late(toTx)} : SzReads(r) /\ Synced(r)
    BY <1>11 DEF getinsync
  <2>2. spc \in Sending /\ spc \notin Offering /\ (spc # "check_sync" => Ahead = 0 .. size)
    BY <1>11 DEF getinsync, Sending, Offering, Ahead, Open
  <2>3. ASSUME Says(<<stop>>), UNCHANGED file, spc' \notin Offering, Ahead' = 0 .. size
        PROVE  LineInv'
    <3>1. PICK v \in 0 .. size : v \in Ahead
      BY SomethingAhead
    <3>2. stop \in RxToken /\ \A w \in Ahead' : Carries(stop, v, w, Content)
      BY <1>2, <3>1, SubpacketTypes, CarriesNothing
    <3> HIDE DEF stop
    <3> QED BY <1>1, <2>2, <2>3, <3>1, <3>2, LineTold
  <2>4. ASSUME Says(<<>>), UNCHANGED file, spc' \notin Offering, Ahead' \subseteq Ahead
        PROVE  LineInv'
    BY <1>1, <2>2, <2>4, LineSilent
  <2>5. ASSUME Says(<<stop>>) \/ (Says(<<>>) /\ spc # "check_sync"), UNCHANGED file, spc' \notin Offering, ~Open'
        PROVE  LineInv'
    <3>1. Ahead' = 0 .. size
      BY <1>3, <2>5 DEF Ahead
    <3> QED BY <2>2, <2>3, <2>4, <2>5, <3>1
  <2> DEFINE flag   == spc \in {"check_sync", "peek_sync"}
             seek   == r.c = "ZRPOS" /\ r.pos <= size
             failed == r.c \in Ending \/ (r.c = "ZRPOS" /\ ~seek)
             acked  == r.c = "ZACK" /\ (flag \/ Txpos = r.pos)
             on     == r.c = "ZACK" /\ ~acked
             nak    == ~(seek \/ failed \/ acked \/ on \/ r.c = "ZRINIT")
  <2>6. CASE seek \/ failed \/ r.c = "ZRINIT"
    <3>1. Says(<<stop>>) \/ (Says(<<>>) /\ spc # "check_sync")
      <4>1. CASE spc = "check_sync"
        BY <2>1, <2>6, <4>1 DEF Synced
      <4>2. CASE spc # "check_sync"
        BY <2>1, <2>6, <4>2 DEF Synced
      <4> QED BY <4>1, <4>2
    <3>2. CASE spc' = "file"
      <4>1. r.c = "ZRINIT"
        BY <2>1, <2>2, <2>6, <3>2 DEF Synced, wcs, NextFile, SyncReturn, Sending, Offering
      <4>2. PICK k \in DOMAIN toTx : Comes(toTx, "ZRINIT", k)
        BY <2>1, <4>1, SzRead DEF Failure
      <4>3. rpc \notin Receiving
        BY <2>2, <4>2 DEF Answers, Without
      <4> QED BY <1>1, <2>2, <3>1, <3>2, <4>3, LineNext
    <3>3. CASE spc' # "file"
      <4>1. UNCHANGED file /\ spc' \in {"fin", "zdata", "peek"}
        BY <2>1, <2>6, <3>3 DEF Synced, wcs, NextFile, SyncReturn, Ending
      <4>2. spc' \notin Offering /\ ~Open'
        BY <4>1 DEF Offering, Open
      <4> QED BY <2>5, <3>1, <4>1, <4>2
    <3> QED BY <3>2, <3>3
  <2>7. CASE acked \/ on
    <3>1. Says(<<>>) /\ UNCHANGED <<file, Txpos>> /\ Eofseen' = Eofseen
      BY <2>1, <2>7 DEF Synced, Ending, TypeInv, SzType
    <3>2. spc' = IF acked THEN SyncReturn(r.c) ELSE spc
      BY <2>1, <2>7 DEF Synced, Ending
    <3>3. spc' \notin Offering
      BY <2>2, <2>7, <3>2 DEF SyncReturn, Offering
    <3>4. Open' = Open
      BY <1>11, <2>7, <3>1, <3>2 DEF getinsync, SyncReturn, Open
    <3>5. Ahead' = Ahead
      BY <1>3, <3>1, <3>4 DEF Ahead
    <3> QED BY <2>4, <3>1, <3>3, <3>5
  <2>8. CASE nak
    <3>1. Says(<<Header("ZNAK", 0)>>) /\ UNCHANGED <<file, Txpos, spc>> /\ Eofseen' = Eofseen
      BY <2>1, <2>8 DEF Synced, TypeInv, SzType
    <3>2. Ahead' = Ahead
      BY <1>3, <3>1 DEF Ahead, Open
    <3>3. Header("ZNAK", 0) \in RxToken /\ \A v : Carries(Header("ZNAK", 0), v, v, Content)
      BY Tokens, CarriesHeader DEF RxTypes
    <3>4. Ahead \subseteq 0 .. size
      BY <1>2, <2>2 DEF Ahead
    <3> QED BY <1>1, <2>2, <3>1, <3>2, <3>3, <3>4, LineTold
  <2> QED BY <2>6, <2>7, <2>8
<1>12. CASE saybibi
  <2>1. Ahead' = 0 .. size /\ Ahead = 0 .. size /\ UNCHANGED file /\ spc \notin Offering /\ spc' \notin Offering
        /\ spc' \notin Sending /\ Says(<<Header("ZFIN", 0)>>)
    BY <1>3, <1>12 DEF saybibi, Ahead, Open, Offering, Sending
  <2>2. Header("ZFIN", 0) \in RxToken /\ \A v : Carries(Header("ZFIN", 0), v, v, Content)
    BY Tokens, CarriesHeader DEF RxTypes
  <2> QED BY <1>1, <2>1, <2>2, LineTold
<1>13. CASE saybibiAnswer
  <2>1. PICK r \in {zgethdr(toTx), Late(toTx)} :
          /\ Says(IF r.c = "ZFIN" THEN <<over>> ELSE <<>>)
          /\ spc' = IF r.c \in Ending THEN "end" ELSE "fin"
    BY <1>13 DEF saybibiAnswer
  <2>2. Ahead' = 0 .. size /\ Ahead = 0 .. size /\ UNCHANGED file /\ spc \notin Offering /\ spc' \notin Offering
        /\ spc' \notin Sending
    BY <1>3, <1>13, <2>1 DEF saybibiAnswer, Ahead, Open, Offering, Sending
  <2>3. CASE Says(<<>>)
    BY <1>1, <2>2, <2>3, LineSilent
  <2>4. CASE Says(<<over>>)
    <3>1. over \in RxToken /\ \A v : Carries(over, v, v, Content)
      BY Tokens DEF Carries, Whole, over
    <3> QED BY <1>1, <2>2, <2>4, <3>1, LineTold
  <2> QED BY <2>1, <2>3, <2>4
<1> QED
  BY <1>4, <1>5, <1>6, <1>7, <1>8, <1>9, <1>10, <1>11, <1>12, <1>13 DEF SzNext

----------------------------------------------------------------------------
(* The line to the receiver: what goes wrong leaves offers and a stream.   *)
LEMMA SpoiltOrder ==
    ASSUME NEW ch, NEW now, NEW i \in 1 .. Len(ch), Len(ch) \in Nat, Spoilt(ch, now, i),
           NEW a \in 0 .. Len(ch), NEW b \in 0 .. Len(ch), NEW name, Ordered(ch, a, b, name)
    PROVE  Ordered(now, a, b, name)
<1>1. \A j \in 1 .. Len(ch) : /\ now[j].kind = ch[j].kind
                              /\ now[j] = ch[j] \/ (now[j].good = FALSE /\ now[j].kind \in {"header", "data"})
  BY DEF Spoilt
<1>2. a <= b
  BY DEF Ordered
<1>3. ASSUME NEW j \in 1 .. a, Whole(now[j]) PROVE now[j].type # "ZFILE"
  <2>1. j \in 1 .. Len(ch)
    OBVIOUS
  <2>2. now[j] = ch[j]
    BY <1>1, <1>3, <2>1 DEF Whole
  <2> QED BY <1>3, <2>2 DEF Ordered
<1>4. ASSUME NEW j \in a + 1 .. b PROVE Offer(now, j, b, name)
  <2>1. j \in 1 .. Len(ch) /\ (j < b => j + 1 \in 1 .. Len(ch))
    OBVIOUS
  <2>2. Offer(ch, j, b, name)
    BY DEF Ordered
  <2>3. now[j].kind = ch[j].kind /\ (j < b => now[j + 1].kind = ch[j + 1].kind)
    BY <1>1, <2>1
  <2>4. CASE now[j] = ch[j]
    BY <2>2, <2>3, <2>4 DEF Offer
  <2>5. CASE now[j].good = FALSE /\ now[j].kind \in {"header", "data"}
    BY <2>5 DEF Offer, Whole
  <2> QED BY <1>1, <2>1, <2>4, <2>5
<1> QED
  BY <1>2, <1>3, <1>4 DEF Ordered

(* How many of the first b are left when token i is lost.                  *)
Fewer(b, i) == IF i <= b THEN b - 1 ELSE b

LEMMA LostOrder ==
    ASSUME NEW ch, NEW now, NEW i \in 1 .. Len(ch), Len(ch) \in Nat, Lost(ch, now, i),
           NEW a \in 0 .. Len(ch), NEW b \in 0 .. Len(ch), NEW name, Ordered(ch, a, b, name)
    PROVE  Ordered(now, Fewer(a, i), Fewer(b, i), name)
<1> DEFINE a2 == Fewer(a, i)  b2 == Fewer(b, i)  at(j) == IF j < i THEN j ELSE j + 1
<1>1. \A j \in 1 .. Len(ch) - 1 : now[j] = ch[at(j)]
  BY DEF Lost
<1>2. a <= b /\ ch[i].kind # "data"
  BY DEF Ordered, Lost
<1>3. a2 <= b2 /\ a2 \in 0 .. Len(ch) - 1 /\ b2 \in 0 .. Len(ch) - 1
  BY <1>2 DEF Fewer
<1>4. ASSUME NEW j \in 1 .. a2, Whole(now[j]) PROVE now[j].type # "ZFILE"
  <2>1. at(j) \in 1 .. a /\ j \in 1 .. Len(ch) - 1
    BY <1>3 DEF Fewer
  <2>2. now[j] = ch[at(j)]
    BY <1>1, <2>1
  <2> HIDE DEF at
  <2> QED BY <1>4, <2>1, <2>2 DEF Ordered
<1>5. ASSUME NEW j \in a2 + 1 .. b2 PROVE Offer(now, j, b2, name)
  <2>1. at(j) \in a + 1 .. b /\ j \in 1 .. Len(ch) - 1
    BY <1>2, <1>3 DEF Fewer
  <2>2. Offer(ch, at(j), b, name) /\ now[j] = ch[at(j)]
    <3> HIDE DEF at
    <3> QED BY <1>1, <2>1 DEF Ordered
  <2>3. ASSUME at(j) < b, ch[at(j) + 1].kind = "data"
        PROVE  j < b2 /\ now[j + 1].kind = "data"
    <3>1. at(j) + 1 # i
      BY <1>2, <2>3
    <3>2. j < b2 /\ at(j + 1) = at(j) + 1
      BY <1>2, <1>3, <2>1, <2>3, <3>1 DEF Fewer
    <3>3. j + 1 \in 1 .. Len(ch) - 1
      BY <1>3, <2>1, <3>2
    <3>4. now[j + 1] = ch[at(j + 1)]
      BY <1>1, <3>3
    <3> QED BY <2>3, <3>2, <3>4
  <2> HIDE DEF at, b2
  <2> QED BY <2>2, <2>3 DEF Offer
<1> QED
  BY <1>3, <1>4, <1>5 DEF Ordered

LEMMA GarbleLine == TypeInv /\ LineInv /\ Garble => LineInv'
<1> SUFFICES ASSUME TypeInv, LineInv, Garble, rpc \in Waiting \cup Receiving PROVE LineInv'
  BY DEF LineInv, Garble, receiver
<1>1. UNCHANGED <<sender, receiver, spc, file, rpc, rxbytes>>
  BY DEF Garble, sender, receiver
<1>2. Ahead' = Ahead /\ Here' = Here /\ Content' = Content /\ size = Len(Content)
  BY <1>1 DEF Ahead, Here, Open, Content, size, sender, receiver
<1>3. CASE UNCHANGED toRx
  BY <1>1, <1>2, <1>3, LineKept
<1>4. CASE toRx' \in Noise(toRx)
  <2>1. PICK a, b \in 0 .. Len(toRx) : Ordered(toRx, a, b, Files[file]) /\ Stage(a, b) /\ Streamed(b)
    BY DEF LineInv
  <2>2. toRx \in Seq(RxToken) /\ Len(toRx) \in Nat
    BY LineIs
  <2>3. toRx' \in Seq(RxToken) /\ \E i \in 1 .. Len(toRx) : Lost(toRx, toRx', i) \/ Spoilt(toRx, toRx', i)
    BY <1>4, <2>2, NoiseIs
  <2>4. PICK i \in 1 .. Len(toRx) : Lost(toRx, toRx', i) \/ Spoilt(toRx, toRx', i)
    BY <2>3
  <2>5. b > 0 => Here = 0 .. Len(Content)
    BY <1>2, <2>1, <2>2 DEF Stage, Here
  <2>6. \A v \in Ahead : Placed(toRx, b, Here, v, Content)
    BY <2>1 DEF Streamed
  <2>7. rpc = "tryz_name" => a = 0 /\ 1 \in 1 .. Len(toRx) /\ b > 0 /\ toRx[1].kind = "data"
    BY <2>1, <2>2 DEF Stage
  <2>8. CASE Spoilt(toRx, toRx', i)
    <3>1. Ordered(toRx', a, b, Files[file])
      BY <2>1, <2>2, <2>8, SpoiltOrder
    <3>2. Len(toRx') = Len(toRx) /\ \A j \in 1 .. Len(toRx) : toRx'[j].kind = toRx[j].kind
      BY <2>8 DEF Spoilt
    <3>3. Stage(a, b)'
      BY <1>1, <2>1, <2>7, <3>2 DEF Stage
    <3>4. Streamed(b)'
      <4>1. ASSUME NEW v \in Ahead PROVE Placed(toRx', b, Here, v, Content)
        BY <2>1, <2>2, <2>3, <2>5, <2>6, <2>8, PlacedNoise
      <4> QED BY <1>2, <4>1 DEF Streamed
    <3> QED BY <1>1, <3>1, <3>2, <3>3, <3>4 DEF LineInv
  <2>9. CASE Lost(toRx, toRx', i)
    <3> DEFINE a2 == Fewer(a, i)  b2 == Fewer(b, i)
    <3>1. Ordered(toRx', a2, b2, Files[file])
      BY <2>1, <2>2, <2>9, LostOrder
    <3>2. Len(toRx') = Len(toRx) - 1 /\ toRx[i].kind # "data"
          /\ \A j \in 1 .. Len(toRx) - 1 : toRx'[j] = toRx[IF j < i THEN j ELSE j + 1]
      BY <2>9 DEF Lost
    <3>3. a2 \in 0 .. Len(toRx') /\ b2 \in 0 .. Len(toRx') /\ (a = 0 => a2 = 0) /\ (b = 0 => b2 = 0)
          /\ (b = Len(toRx) => b2 = Len(toRx'))
      BY <2>1, <2>2, <3>2 DEF Fewer, Ordered
    <3>4. ASSUME rpc = "tryz_name" PROVE a2 = 0 /\ b2 > 0 /\ toRx'[1].kind = "data"
      <4>1. i # 1 /\ 1 < i /\ 1 \in 1 .. Len(toRx) - 1
        BY <2>2, <2>7, <3>2, <3>4
      <4>2. toRx'[1] = toRx[1]
        BY <3>2, <4>1
      <4>3. b2 > 0
        BY <2>2, <2>7, <3>4, <4>1 DEF Fewer
      <4> QED BY <2>7, <3>3, <3>4, <4>2, <4>3
    <3>5. Stage(a2, b2)'
      <4> HIDE DEF a2, b2
      <4> QED BY <1>1, <2>1, <3>3, <3>4 DEF Stage
    <3>6. Streamed(b2)'
      <4>1. ASSUME NEW v \in Ahead PROVE Placed(toRx', b2, Here, v, Content)
        BY <2>1, <2>2, <2>3, <2>5, <2>6, <2>9, PlacedNoise DEF Fewer
      <4> HIDE DEF b2
      <4> QED BY <1>2, <4>1 DEF Streamed
    <3> HIDE DEF a2, b2
    <3> QED BY <1>1, <3>1, <3>3, <3>5, <3>6 DEF LineInv
  <2> QED BY <2>4, <2>8, <2>9
<1> QED
  BY <1>3, <1>4 DEF Garble

(* At first there is at most a ZRQINIT on the line.                        *)
LEMMA InitLine == Init => LineInv
<1> SUFFICES ASSUME Init PROVE LineInv
  OBVIOUS
<1>0. TypeInv
  BY TypeInit
<1>1. toRx \in Seq(RxToken) /\ spc = "file" /\ rpc = "tryz" /\ toRx \in {<<>>, <<Header("ZRQINIT", 0)>>}
  BY <1>0, LineIs DEF Init
<1>2. PICK m \in Nat : m = Len(toRx)
  BY <1>0, LineIs
<1>3. Ordered(toRx, m, m, Files[file])
  <2>1. ASSUME NEW i \in 1 .. m PROVE toRx[i].type # "ZFILE"
    <3>1. toRx # <<>>
      BY <1>1, <1>2, <2>1
    <3>2. toRx = <<Header("ZRQINIT", 0)>>
      BY <1>1, <3>1
    <3>3. i = 1
      BY <1>2, <2>1, <3>2
    <3> QED BY <3>2, <3>3 DEF Header
  <2> QED BY <2>1 DEF Ordered
<1>4. Stage(m, m)
  BY <1>1, <1>2 DEF Stage, Sending, Receiving
<1>5. Streamed(m)
  <2>1. Ahead = 0 .. Len(Content) /\ Here = 0 .. Len(Content)
    BY <1>1 DEF Ahead, Here, Open, size, Content
  <2> QED BY <1>1, <1>2, <2>1, PlacedUnsent DEF Streamed
<1> QED
  BY <1>2, <1>3, <1>4, <1>5 DEF LineInv

----------------------------------------------------------------------------
(* Places: the file being received is the one being sent, and its end is   *)
(* where the sender says.                                                  *)
LEMMA SenderPlace == TypeInv /\ Answers /\ PlaceInv /\ SzNext => PlaceInv'
<1> SUFFICES ASSUME TypeInv, Answers, PlaceInv, SzNext PROVE PlaceInv'
  OBVIOUS
<1> USE DEF line, sender, receiver
<1>1. UNCHANGED <<rpc, fout>>
  BY DEF SzNext, zsendfile, zsendfileAnswer, zsendfileDrain, zsendfdata, zsendfdataNext, ReadCheck,
         zsendfdataEof, getinsync, saybibi, saybibiAnswer
<1> DEFINE Ends2 == spc \in {"eof", "eof_ack"} \/ (spc \in {"check", "check_sync"} /\ Eofseen)
<1>2. ASSUME UNCHANGED file, Ends2' => Txpos' = size', spc' \in Offering => spc \in Offering
      PROVE  PlaceInv'
  BY <1>1, <1>2 DEF PlaceInv
<1>3. file' = file => size' = size
  BY DEF size
<1>4. CASE zsendfile \/ zsendfileDrain \/ zsendfdata \/ saybibi \/ saybibiAnswer
  <2>1. spc' \notin {"eof", "eof_ack", "check", "check_sync"} /\ UNCHANGED file
        /\ (spc' \in Offering => spc \in Offering)
    BY <1>4 DEF zsendfile, zsendfileDrain, zsendfdata, saybibi, saybibiAnswer, Offering
  <2> QED BY <1>2, <2>1
<1>5. CASE zsendfileAnswer
  <2>1. UNCHANGED file /\ spc' \in {"fin", "zdata", "drain", "file"} /\ spc \in Offering
    BY <1>5 DEF zsendfileAnswer, FileAnswered, wcs, NextFile, Offering
  <2> QED BY <1>2, <2>1
<1>6. CASE zsendfdataNext
  <2>1. /\ Txpos' = Txpos + Len(zfilbuf) /\ Eofseen' = (Len(zfilbuf) < BlkLen)
        /\ spc' \in {"wait", "check"} /\ UNCHANGED file /\ spc = "stream"
    BY <1>6 DEF zsendfdataNext
  <2>2. Len(zfilbuf) < BlkLen => Txpos + Len(zfilbuf) = size
    BY <2>1, BufferIs DEF TypeInv, SzType, Sending
  <2>3. spc' \notin Offering
    BY <2>1 DEF Offering
  <2> QED BY <1>2, <1>3, <2>1, <2>2, <2>3
<1>7. CASE ReadCheck
  <2>1. UNCHANGED <<file, Txpos, Eofseen>> /\ spc' \notin Offering /\ (Ends2' => Ends2)
    BY <1>7 DEF ReadCheck, Offering
  <2> QED BY <1>2, <1>3, <2>1 DEF PlaceInv
<1>8. CASE zsendfdataEof
  <2>1. UNCHANGED <<file, Txpos>> /\ spc' \notin Offering /\ Ends2
    BY <1>8 DEF zsendfdataEof, Offering
  <2> QED BY <1>2, <1>3, <2>1 DEF PlaceInv
<1>9. CASE getinsync
  <2>1. PICK r \in {zgethdr(toTx), Late(toTx)} : SzReads(r) /\ Synced(r)
    BY <1>9 DEF getinsync
  <2>2. spc \in {"wait", "check_sync", "peek_sync", "eof_ack"} /\ spc \in Sending /\ spc \notin Offering
    BY <1>9 DEF getinsync, Sending, Offering
  <2>3. CASE r.c = "ZRINIT" /\ wcs("OK")
    <3>1. \E k \in DOMAIN toTx : Comes(toTx, "ZRINIT", k)
      BY <2>1, <2>3, SzRead DEF Failure
    <3>2. rpc \notin Receiving
      BY <2>2, <3>1 DEF Answers, Without
    <3>3. spc' \in {"file", "fin"}
      BY <2>3 DEF wcs, NextFile
    <3> QED BY <1>1, <3>2, <3>3 DEF PlaceInv, Receiving
  <2>4. CASE wcs("ERROR")
    <3>1. spc' = "fin" /\ UNCHANGED file
      BY <2>4 DEF wcs, NextFile
    <3> QED BY <1>2, <3>1 DEF Offering
  <2> DEFINE seek == r.c = "ZRPOS" /\ r.pos <= size
  <2>5. CASE seek
    <3>1. UNCHANGED file /\ spc' \in {"zdata", "peek"}
      BY <2>1, <2>5 DEF Synced, SyncReturn, Ending
    <3> QED BY <1>2, <3>1 DEF Offering
  <2>6. CASE ~seek /\ UNCHANGED <<file, Txpos>> /\ Eofseen' = Eofseen
             /\ spc' \in {spc, IF r.c = "ZACK" THEN SyncReturn(r.c) ELSE spc}
    <3>1. spc' \notin Offering /\ (Ends2' => Ends2)
      BY <2>2, <2>6 DEF SyncReturn, Offering
    <3> QED BY <1>2, <1>3, <2>6, <3>1 DEF PlaceInv
  <2>7. wcs("ERROR") \/ (r.c = "ZRINIT" /\ wcs("OK")) \/ seek \/
        (~seek /\ UNCHANGED <<file, Txpos>> /\ Eofseen' = Eofseen
         /\ spc' \in {spc, IF r.c = "ZACK" THEN SyncReturn(r.c) ELSE spc})
    <3>1. CASE r.c \in Ending \/ (r.c = "ZRPOS" /\ ~seek)
      BY <2>1, <3>1 DEF Synced
    <3>2. CASE r.c = "ZRINIT"
      BY <2>1, <3>2 DEF Synced, Ending
    <3>3. CASE seek
      BY <3>3
    <3>4. CASE r.c \notin Ending \cup {"ZRPOS", "ZRINIT"}
      <4>1. UNCHANGED <<file, Txpos>> /\ Eofseen' = Eofseen
        BY <2>1, <3>4 DEF Synced, TypeInv, SzType
      <4>2. spc' \in {spc, IF r.c = "ZACK" THEN SyncReturn(r.c) ELSE spc}
        BY <2>1, <3>4 DEF Synced
      <4> QED BY <3>4, <4>1, <4>2
    <3> QED BY <3>1, <3>2, <3>3, <3>4
  <2> QED BY <2>3, <2>4, <2>5, <2>6, <2>7
<1> QED
  BY <1>4, <1>5, <1>6, <1>7, <1>8, <1>9 DEF SzNext

LEMMA ReceiverPlace == Inv /\ RzNext => PlaceInv'
<1> SUFFICES ASSUME Inv, RzNext PROVE PlaceInv'
  OBVIOUS
<1>t. TypeInv /\ LineInv /\ PlaceInv
  BY DEF Inv
<1>1. UNCHANGED <<sender, spc, file, Txpos, Eofseen>>
  BY DEF RzNext, tryz, tryzHeader, tryzName, rzfilePosition, rzfileHeader, rzfileSkip, rzfileData,
         ackbibi, ackbibiAnswer, sender
<1>2. ASSUME rpc' \in Receiving => rpc \in Receiving /\ fout' = fout,
             rpc' = "rz_data" => rpc = "rz_data" \/ spc \notin Offering
      PROVE  PlaceInv'
  BY <1>t, <1>1, <1>2 DEF PlaceInv, size
<1>3. CASE tryzName
  <2>1. PICK r \in {zrdata(toRx), Late(toRx)} :
          /\ RzReads(r, zrdata(toRx))
          /\ IF r.c = "ZCRCW" THEN rzfile(r.units[1]) ELSE rpc' = "tryz_hdr"
    BY <1>3 DEF tryzName
  <2>2. CASE r.c = "ZCRCW"
    <3>1. 1 \in 1 .. Len(toRx) /\ toRx[1].kind = "data" /\ toRx[1].good /\ r.units = toRx[1].units
      BY <1>t, <2>1, <2>2, RzReadData DEF Failure
    <3>2. r.units = <<Files[file]>>
      BY <1>t, <1>3, <3>1, NameIs DEF tryzName
    <3>3. rzfile(Files[file])
      BY <2>1, <2>2, <3>2
    <3>4. rpc' = "tryz" \/ (rpc' = "rz_pos" /\ fout' = Files[file])
      BY <3>3 DEF rzfile, procheader
    <3> QED BY <1>t, <1>1, <3>4 DEF PlaceInv, size, Receiving
  <2>3. CASE r.c # "ZCRCW"
    BY <1>2, <2>1, <2>3 DEF Receiving
  <2> QED BY <2>2, <2>3
<1>4. CASE rzfileHeader
  <2>1. PICK r \in {zgethdr(toRx), Late(toRx)} :
          /\ RzReads(r, zgethdr(toRx))
          /\ \/ r.c = "ZDATA" /\ Stay("rz_data")
             \/ rpc' # "rz_data" /\ (rpc' \in Receiving => fout' = fout)
    BY <1>4 DEF rzfileHeader, Stay, Forgive, fubar, Give, Receiving
  <2>2. rpc \in Receiving
    BY <1>4 DEF rzfileHeader, Receiving
  <2>3. r.c = "ZDATA" => spc \notin Offering
    <3> SUFFICES ASSUME r.c = "ZDATA" PROVE spc \notin Offering
      OBVIOUS
    <3>1. \E i \in 1 .. Len(toRx) : Whole(toRx[i]) /\ toRx[i].type = "ZDATA"
      BY <1>t, <2>1, RzReadHeader DEF Failure
    <3> QED BY <1>t, <2>2, <3>1, StreamHeader
  <2> QED BY <1>2, <2>1, <2>2, <2>3 DEF Stay
<1>5. CASE tryz \/ tryzHeader \/ ackbibi \/ ackbibiAnswer
  BY <1>2, <1>5 DEF tryz, tryzHeader, ackbibi, ackbibiAnswer, Stay, fubar, Give, Receiving
<1>6. CASE rzfilePosition \/ rzfileSkip \/ rzfileData
  BY <1>2, <1>6 DEF rzfilePosition, rzfileSkip, rzfileData, Stay, Forgive, fubar, Give, Receiving
<1> QED
  BY <1>3, <1>4, <1>5, <1>6 DEF RzNext

----------------------------------------------------------------------------
(* Reports: what the steps of either side come to, seen from outside.      *)
LEMMA SenderReports ==
    ASSUME TypeInv, Answers, SzNext
    PROVE  \/ UNCHANGED <<sent, file>> /\ (spc' \notin Finishing => spc \notin Finishing)
           \/ \E result \in {"OK", "ERROR"} :
                wcs(result) /\ spc \notin Finishing /\ (result = "OK" => Stored)
<1> USE DEF line, sender, receiver
<1>1. CASE zsendfile \/ zsendfileDrain \/ zsendfdata \/ zsendfdataNext \/ ReadCheck \/ zsendfdataEof
           \/ saybibi \/ saybibiAnswer
  BY <1>1 DEF zsendfile, zsendfileDrain, zsendfdata, zsendfdataNext, ReadCheck, zsendfdataEof,
              saybibi, saybibiAnswer, Finishing
<1>2. CASE zsendfileAnswer
  <2>1. spc \notin Finishing /\ (wcs("ERROR") \/ UNCHANGED <<sent, file>>)
    BY <1>2 DEF zsendfileAnswer, FileAnswered, Finishing
  <2> QED BY <2>1
<1>3. CASE getinsync
  <2>1. PICK r \in {zgethdr(toTx), Late(toTx)} : SzReads(r) /\ Synced(r)
    BY <1>3 DEF getinsync
  <2>2. spc \in Sending /\ spc \notin Finishing
    BY <1>3 DEF getinsync, Sending, Finishing
  <2>3. wcs("ERROR") \/ (r.c = "ZRINIT" /\ wcs("OK")) \/ UNCHANGED <<sent, file>>
    BY <2>1 DEF Synced
  <2>4. r.c = "ZRINIT" => Stored
    <3> SUFFICES ASSUME r.c = "ZRINIT" PROVE Stored
      OBVIOUS
    <3>1. \E k \in DOMAIN toTx : Comes(toTx, "ZRINIT", k)
      BY <2>1, SzRead DEF Failure
    <3> QED BY <2>2, <3>1 DEF Answers, Without
  <2> QED BY <2>2, <2>3, <2>4
<1> QED
  BY <1>1, <1>2, <1>3 DEF SzNext

LEMMA GoesOn ==
    ASSUME NEW S, NEW t \in Seq(S), NEW s \in Seq(S), NEW m \in Nat,
           IsPrefix(s, t), Len(s) + m <= Len(t)
    PROVE  /\ s = SubSeq(t, 1, Len(s))
           /\ s \o SubSeq(t, Len(s) + 1, Len(s) + m) = SubSeq(t, 1, Len(s) + m)
<1>1. Len(s) \in Nat /\ Len(t) \in Nat
  BY LenProperties
<1>2. s = SubSeq(t, 1, Len(s))
  BY SubSeqFull DEF IsPrefix
<1>3. SubSeq(t, 1, Len(s)) \o SubSeq(t, Len(s) + 1, Len(s) + m) = SubSeq(t, 1, Len(s) + m)
  <2>1. /\ 1 \in 1 .. Len(t) + 1 /\ Len(s) \in 1 - 1 .. Len(t)
        /\ Len(s) + m \in Len(s) .. Len(t)
    BY <1>1
  <2> QED BY <2>1, ConcatAdjacentSubSeq
<1> QED
  BY <1>2, <1>3

LEMMA StartIsPrefix ==
    ASSUME NEW S, NEW t \in Seq(S), NEW m \in 0 .. Len(t)
    PROVE  IsPrefix(SubSeq(t, 1, m), t) /\ Len(SubSeq(t, 1, m)) = m
<1>1. Len(t) \in Nat /\ m \in Int /\ 1 \in Int /\ m <= Len(t)
  BY LenProperties
<1>2. \A i \in 1 .. m : t[i] \in S
  BY <1>1, ElementOfSeq
<1>3. SubSeq(t, 1, m) \in Seq(S) /\ Len(SubSeq(t, 1, m)) = IF 1 <= m THEN m - 1 + 1 ELSE 0
  BY <1>1, <1>2, SubSeqProperties
<1>4. Len(SubSeq(t, 1, m)) = m
  BY <1>1, <1>3
<1>5. SubSeq(SubSeq(t, 1, m), 1, m) = SubSeq(t, 1, m)
  BY <1>3, <1>4, SubSeqFull
<1> QED
  BY <1>1, <1>4, <1>5 DEF IsPrefix

LEMMA ReceiverReports ==
    ASSUME Inv, RzNext
    PROVE  /\ rpc \notin {"end", "xmodem"} /\ UNCHANGED <<card, sender>>
           /\ \/ /\ UNCHANGED <<stored, received>>
                 /\ fout' = fout \/ fout \notin Names \/ stored[fout] = Source[fout]
              \/ /\ UNCHANGED <<fout, received>> /\ fout \in Names
                 /\ stored[fout] = SubSeq(Source[fout], 1, Len(stored[fout]))
                 /\ \E m \in Len(stored[fout]) .. Len(Source[fout]) :
                      stored' = [stored EXCEPT ![fout] = SubSeq(Source[fout], 1, m)]
              \/ \E result \in {"OK", "ERROR"} :
                   Give(result) /\ UNCHANGED stored /\ (result = "OK" => rpc = "bibi_ack")
<1>t. TypeInv /\ LineInv /\ PlaceInv /\ ReportInv
  BY DEF Inv
<1>1. rpc \notin {"end", "xmodem"} /\ UNCHANGED <<card, sender>>
  BY DEF RzNext, tryz, tryzHeader, tryzName, rzfilePosition, rzfileHeader, rzfileSkip, rzfileData,
         ackbibi, ackbibiAnswer
<1> DEFINE Still == /\ UNCHANGED <<stored, received>>
                    /\ fout' = fout \/ fout \notin Names \/ stored[fout] = Source[fout]
           Ended2 == \E result \in {"OK", "ERROR"} :
                       Give(result) /\ UNCHANGED stored /\ (result = "OK" => rpc = "bibi_ack")
<1>2. CASE tryz \/ tryzHeader \/ rzfilePosition \/ rzfileSkip
  <2>1. CASE UNCHANGED <<stored, received, fout>>
    BY <1>1, <2>1
  <2>2. CASE fubar /\ UNCHANGED stored
    <3>1. Give("ERROR")
      BY <2>2 DEF fubar
    <3> QED BY <1>1, <2>2, <3>1
  <2> QED BY <1>2, <2>1, <2>2 DEF tryz, tryzHeader, rzfilePosition, rzfileSkip, Stay
<1>3. CASE tryzName
  <2>1. UNCHANGED <<stored, received>> /\ rpc = "tryz_name"
    BY <1>3 DEF tryzName
  <2>2. fout \notin Names
    BY <1>t, <2>1 DEF TypeInv, RzType, Receiving
  <2> QED BY <1>1, <2>1, <2>2
<1>4. CASE rzfileHeader
  <2>1. PICK r \in {zgethdr(toRx), Late(toRx)} :
          /\ RzReads(r, zgethdr(toRx))
          /\ \/ UNCHANGED <<stored, received, fout>>
             \/ fubar /\ UNCHANGED stored
             \/ r.c = "ZEOF" /\ InPlace(r.pos) /\ UNCHANGED <<stored, received>>
    BY <1>4 DEF rzfileHeader, Stay, Forgive
  <2>2. CASE UNCHANGED <<stored, received, fout>>
    BY <1>1, <2>2
  <2>3. CASE fubar /\ UNCHANGED stored
    <3>1. Give("ERROR")
      BY <2>3 DEF fubar
    <3> QED BY <1>1, <2>3, <3>1
  <2>4. CASE r.c = "ZEOF" /\ InPlace(r.pos) /\ UNCHANGED <<stored, received>>
    <3>1. PICK i \in 1 .. Len(toRx) : Whole(toRx[i]) /\ toRx[i].type = "ZEOF" /\ toRx[i].pos = rxbytes
      BY <1>t, <2>1, <2>4, RzReadHeader DEF Failure, InPlace
    <3>2. rpc \in Receiving
      BY <1>4 DEF rzfileHeader, Receiving
    <3>3. rxbytes = size
      BY <1>t, <3>1, <3>2, StreamHeader
    <3>4. fout = Files[file] /\ fout \in Names /\ rxbytes = Len(stored[fout])
      BY <1>t, <3>2 DEF PlaceInv, TypeInv, RzType
    <3>5. stored[fout] = Source[fout]
      <4>1. Len(stored[fout]) = Len(Source[fout])
        BY <3>3, <3>4 DEF size
      <4> QED BY <1>t, <3>4, <4>1, WholeIs
    <3> QED BY <1>1, <2>4, <3>5
  <2> QED BY <2>1, <2>2, <2>3, <2>4
<1>5. CASE rzfileData
  <2>1. PICK r \in {zrdata(toRx), Late(toRx)} :
          /\ RzReads(r, zrdata(toRx))
          /\ IF r.c \in Ends THEN putsec(r.units) /\ UNCHANGED <<fout, received>>
             ELSE /\ UNCHANGED stored
                  /\ fubar \/ UNCHANGED <<received, fout>>
    BY <1>5 DEF rzfileData, Forgive
  <2>2. CASE r.c \in Ends
    <3>1. rpc = "rz_data" /\ rpc \in Receiving
      BY <1>5 DEF rzfileData, Receiving
    <3>2. 1 \in 1 .. Len(toRx) /\ toRx[1].kind = "data" /\ toRx[1].good /\ r.units = toRx[1].units
      BY <1>t, <2>1, <2>2, RzReadData DEF Failure, Ends
    <3>3. /\ rxbytes + Len(r.units) <= size /\ Len(r.units) \in Nat
          /\ r.units = SubSeq(Content, rxbytes + 1, rxbytes + Len(r.units))
      BY <1>t, <3>1, <3>2, DataIs
    <3>4. fout = Files[file] /\ fout \in Names /\ rxbytes = Len(stored[fout]) /\ rxbytes \in Nat
          /\ stored[fout] \in Seq(Units) /\ card \in Cards
      BY <1>t, <3>1 DEF PlaceInv, TypeInv, RzType
    <3>5. Source[fout] \in Seq(Units) /\ size = Len(Source[fout]) /\ size \in Nat /\ Content = Source[fout]
      BY <3>4, FileFacts DEF size, Content
    <3> DEFINE more == Len(r.units)
    <3>a. Len(stored[fout]) + more <= Len(Source[fout])
      BY <3>3, <3>4, <3>5, Zenon
    <3>b. Len(stored[fout]) \in Nat /\ Len(Source[fout]) \in Nat /\ more \in Nat
      BY <3>3, <3>4, <3>5, Zenon
    <3>6. IsPrefix(stored[fout], Source[fout])
      <4>1. stored[fout] = card.held[fout] \/ IsPrefix(stored[fout], Source[fout])
        BY <1>t, <3>4 DEF ReportInv
      <4>2. Len(card.held[fout]) > Len(Source[fout]) \/ IsPrefix(card.held[fout], Source[fout])
        BY <3>4, FilesAssumption
      <4>3. ~(Len(stored[fout]) > Len(Source[fout]))
        <5> HIDE DEF more
        <5> QED BY <3>a, <3>b
      <4> QED BY <4>1, <4>2, <4>3
    <3> DEFINE m == Len(stored[fout]) + more
    <3>7. r.units = SubSeq(Source[fout], Len(stored[fout]) + 1, m)
      BY <3>3, <3>4, <3>5, Zenon
    <3>8. stored[fout] = SubSeq(Source[fout], 1, Len(stored[fout]))
          /\ stored[fout] \o r.units = SubSeq(Source[fout], 1, m)
      <4>1. ASSUME NEW s, NEW t, s \in Seq(Units), t \in Seq(Units), IsPrefix(s, t),
                   NEW k \in Nat, Len(s) + k <= Len(t)
            PROVE  /\ s = SubSeq(t, 1, Len(s))
                   /\ s \o SubSeq(t, Len(s) + 1, Len(s) + k) = SubSeq(t, 1, Len(s) + k)
        BY <4>1, GoesOn
      <4> HIDE DEF more
      <4>2. /\ stored[fout] = SubSeq(Source[fout], 1, Len(stored[fout]))
            /\ stored[fout] \o SubSeq(Source[fout], Len(stored[fout]) + 1, m) = SubSeq(Source[fout], 1, m)
        <5>1. stored[fout] \in Seq(Units) /\ Source[fout] \in Seq(Units)
          BY <3>4, <3>5
        <5>2. more \in Nat
          BY <3>b
        <5> QED BY <5>1, <5>2, <3>6, <3>a, <4>1, Zenon
      <4> QED BY <3>7, <4>2, Zenon
    <3>9. m \in Len(stored[fout]) .. Len(Source[fout])
      <4> HIDE DEF more
      <4> QED BY <3>a, <3>b
    <3>10. stored' = [stored EXCEPT ![fout] = SubSeq(Source[fout], 1, m)]
      <4>1. stored' = [stored EXCEPT ![fout] = stored[fout] \o r.units]
        BY <2>1, <2>2 DEF putsec
      <4>2. stored[fout] \o r.units = SubSeq(Source[fout], 1, m)
        BY <3>8
      <4> HIDE DEF m
      <4> QED BY <4>1, <4>2, Zenon
    <3> HIDE DEF m, more
    <3> QED BY <1>1, <2>1, <2>2, <3>4, <3>8, <3>9, <3>10
  <2>3. CASE r.c \notin Ends /\ fubar
    <3>1. Give("ERROR") /\ UNCHANGED stored
      BY <2>1, <2>3 DEF fubar
    <3> QED BY <1>1, <3>1
  <2>4. CASE r.c \notin Ends /\ ~fubar
    BY <1>1, <2>1, <2>4
  <2> QED BY <2>2, <2>3, <2>4
<1>6. CASE ackbibi
  BY <1>1, <1>6 DEF ackbibi
<1>7. CASE ackbibiAnswer
  <2>1. UNCHANGED stored /\ rpc = "bibi_ack" /\ (Give("OK") \/ UNCHANGED <<fout, received>>)
    BY <1>7 DEF ackbibiAnswer
  <2> QED BY <1>1, <2>1
<1> QED
  BY <1>2, <1>3, <1>4, <1>5, <1>6, <1>7 DEF RzNext

LEMMA SenderReported == TypeInv /\ Answers /\ ReportInv /\ SzNext => ReportInv'
<1> SUFFICES ASSUME TypeInv, Answers, ReportInv, SzNext PROVE ReportInv'
  OBVIOUS
<1>1. UNCHANGED <<rpc, fout, received, stored, card>>
  BY DEF SzNext, zsendfile, zsendfileAnswer, zsendfileDrain, zsendfdata, zsendfdataNext, ReadCheck,
         zsendfdataEof, getinsync, saybibi, saybibiAnswer, receiver
<1>2. ASSUME spc' \notin Finishing, NEW j \in file' .. Len(Files) PROVE sent'[Files[j]] = "none"
  <2>1. CASE UNCHANGED <<sent, file>> /\ (spc' \notin Finishing => spc \notin Finishing)
    BY <1>2, <2>1 DEF ReportInv
  <2>2. CASE \E result \in {"OK", "ERROR"} : wcs(result) /\ spc \notin Finishing
    <3>1. PICK result \in {"OK", "ERROR"} : wcs(result) /\ spc \notin Finishing
      BY <2>2
    <3>2. file' = file + 1 /\ sent' = [sent EXCEPT ![Files[file]] = result]
      BY <1>2, <3>1 DEF wcs, NextFile, Finishing
    <3>3. file \in 1 .. Len(Files) /\ Len(Files) \in Nat /\ DOMAIN Files = 1 .. Len(Files)
          /\ sent \in [Names -> {"none", "OK", "ERROR"}]
      BY FileFacts DEF TypeInv, SzType
    <3>4. j \in file .. Len(Files) /\ j # file /\ j \in DOMAIN Files /\ file \in DOMAIN Files
      BY <3>2, <3>3
    <3>5. Files[j] # Files[file] /\ Files[j] \in Names
      BY <3>4, FilesAssumption, FileFacts
    <3>6. sent'[Files[j]] = sent[Files[j]]
      BY <3>2, <3>3, <3>5
    <3> QED BY <3>1, <3>4, <3>6 DEF ReportInv
  <2> QED BY <2>1, <2>2, SenderReports
<1> QED
  BY <1>1, <1>2 DEF ReportInv

LEMMA ReceiverReported == Inv /\ RzNext => ReportInv'
<1> SUFFICES ASSUME Inv, RzNext PROVE ReportInv'
  OBVIOUS
<1>t. TypeInv /\ ReportInv
  BY DEF Inv
<1>1. rpc \notin {"end", "xmodem"} /\ UNCHANGED <<card, spc, file, sent>>
  BY ReceiverReports DEF sender
<1>2. CASE /\ UNCHANGED <<stored, received>>
           /\ fout' = fout \/ fout \notin Names \/ stored[fout] = Source[fout]
  BY <1>t, <1>1, <1>2 DEF ReportInv
<1>3. CASE /\ UNCHANGED <<fout, received>> /\ fout \in Names
           /\ \E m \in Len(stored[fout]) .. Len(Source[fout]) :
                stored' = [stored EXCEPT ![fout] = SubSeq(Source[fout], 1, m)]
  <2>1. PICK m \in Len(stored[fout]) .. Len(Source[fout]) :
          stored' = [stored EXCEPT ![fout] = SubSeq(Source[fout], 1, m)]
    BY <1>3
  <2>2. stored \in [Names -> Seq(Units)] /\ Source[fout] \in Seq(Units) /\ m \in 0 .. Len(Source[fout])
    <3>1. stored \in [Names -> Seq(Units)] /\ Source[fout] \in Seq(Units)
      BY <1>t, <1>3, FileFacts DEF TypeInv, RzType
    <3>2. Len(stored[fout]) \in Nat /\ Len(Source[fout]) \in Nat
      BY <1>3, <3>1, LenProperties
    <3> QED BY <2>1, <3>1, <3>2
  <2>3. IsPrefix(SubSeq(Source[fout], 1, m), Source[fout])
    BY <2>2, StartIsPrefix
  <2>4. \A f \in Names : stored'[f] = IF f = fout THEN SubSeq(Source[fout], 1, m) ELSE stored[f]
    BY <2>1, <2>2
  <2> QED BY <1>t, <1>1, <1>3, <2>3, <2>4 DEF ReportInv
<1>4. CASE \E result \in {"OK", "ERROR"} : Give(result) /\ UNCHANGED stored
  BY <1>t, <1>1, <1>4 DEF Give, ReportInv
<1> QED
  BY <1>2, <1>3, <1>4, ReceiverReports

----------------------------------------------------------------------------
(* The invariant is inductive.                                             *)
LEMMA InitInv == Init => Inv
<1> SUFFICES ASSUME Init PROVE Inv
  OBVIOUS
<1>1. TypeInv /\ LineInv
  BY TypeInit, InitLine
<1>2. toTx = <<>> /\ spc = "file" /\ rpc = "tryz" /\ fout = "none" /\ received = "none"
      /\ sent = [f \in Names |-> "none"] /\ stored = card.held /\ file = 1
  BY DEF Init
<1>3. Answers
  BY <1>2, OrderEmpty DEF Answers, Sending
<1>4. PlaceInv
  BY <1>2 DEF PlaceInv, Receiving
<1>5. ReportInv
  BY <1>2, FileFacts DEF ReportInv
<1> QED
  BY <1>1, <1>3, <1>4, <1>5 DEF Inv

LEMMA GarbleInv == Inv /\ Garble => Inv'
<1> SUFFICES ASSUME Inv, Garble PROVE Inv'
  OBVIOUS
<1>1. TypeInv' /\ Answers' /\ LineInv'
  BY GarbleType, GarbleAnswers, GarbleLine DEF Inv
<1>2. PlaceInv'
  BY DEF Inv, Garble, PlaceInv, size, sender, receiver
<1>3. ReportInv'
  BY DEF Inv, Garble, ReportInv, sender, receiver
<1> QED
  BY <1>1, <1>2, <1>3 DEF Inv

LEMMA StillInv == Inv /\ UNCHANGED vars => Inv'
<1> SUFFICES ASSUME Inv, UNCHANGED vars PROVE Inv'
  OBVIOUS
<1> USE DEF vars, line, sender, receiver
<1>1. TypeInv'
  BY DEF Inv, TypeInv, LineType, SzType, RzType, size
<1>2. Answers'
  BY DEF Inv, Answers, Stored, Content
<1>3. LineInv'
  <2>1. Ahead' = Ahead
    BY DEF Ahead, Open, size
  <2> QED BY <2>1, LineKept DEF Inv
<1>4. PlaceInv' /\ ReportInv'
  BY DEF Inv, PlaceInv, ReportInv, size
<1> QED
  BY <1>1, <1>2, <1>3, <1>4 DEF Inv

LEMMA StepInv == Inv /\ [Next]_vars => Inv'
<1> SUFFICES ASSUME Inv, [Next]_vars PROVE Inv'
  OBVIOUS
<1>1. CASE SzNext
  BY <1>1, SenderType, SenderAnswers, SenderLine, SenderPlace, SenderReported DEF Inv
<1>2. CASE RzNext
  BY <1>2, ReceiverType, ReceiverAnswers, ReceiverLine, ReceiverPlace, ReceiverReported DEF Inv
<1>3. CASE Garble
  BY <1>3, GarbleInv
<1>4. CASE UNCHANGED vars
  BY <1>4, StillInv
<1> QED
  BY <1>1, <1>2, <1>3, <1>4 DEF Next

LEMMA AlwaysInv == Spec => []Inv
  BY InitInv, StepInv, PTL DEF Spec

(* Everything has its type in every state the two programs and the line    *)
(* can reach: the positions stay inside the files, a file is open exactly  *)
(* while it is received, and the receiver's place is the length of what is *)
(* stored (zmodem_sz.cpp zsendfdata, zmodem_rz.cpp rzfile, putsec).        *)
THEOREM ZmodemTypeCorrect == Spec => []TypeOK
<1>1. Inv => TypeOK
  BY TypeImplies DEF Inv
<1> QED
  BY <1>1, AlwaysInv, PTL

----------------------------------------------------------------------------
(* The refinement: each step is one of FileTransfer, or none.              *)
LEMMA InitImplements == Init => Transfer!Init
  BY FilesAssumption DEF Init, Transfer!Init

LEMMA SenderImplements == Inv /\ SzNext => [Transfer!Next]_(Transfer!vars)
<1> SUFFICES ASSUME Inv, SzNext PROVE [Transfer!Next]_(Transfer!vars)
  OBVIOUS
<1>1. UNCHANGED <<card, stored, received>>
  BY DEF SzNext, zsendfile, zsendfileAnswer, zsendfileDrain, zsendfdata, zsendfdataNext, ReadCheck,
         zsendfdataEof, getinsync, saybibi, saybibiAnswer, receiver
<1>t. TypeInv /\ Answers /\ ReportInv
  BY DEF Inv
<1>2. CASE UNCHANGED sent
  BY <1>1, <1>2 DEF Transfer!vars
<1>3. CASE \E result \in {"OK", "ERROR"} :
             wcs(result) /\ spc \notin Finishing /\ (result = "OK" => Stored)
  <2>1. PICK result \in {"OK", "ERROR"} :
          wcs(result) /\ spc \notin Finishing /\ (result = "OK" => Stored)
    BY <1>3
  <2>2. file \in 1 .. Len(Files) /\ Len(Files) \in Nat /\ Files[file] \in Names
    BY <1>t, FileFacts DEF TypeInv, SzType
  <2>3. sent[Files[file]] = "none"
    BY <1>t, <2>1, <2>2 DEF ReportInv
  <2>4. Transfer!ReportSent(Files[file], result)
    BY <1>1, <2>1, <2>3 DEF Transfer!ReportSent, Transfer!Whole, wcs, Stored, Content
  <2> QED BY <2>2, <2>4 DEF Transfer!Next
<1> QED
  BY <1>t, <1>2, <1>3, SenderReports

LEMMA ReceiverImplements == Inv /\ RzNext => [Transfer!Next]_(Transfer!vars)
<1> SUFFICES ASSUME Inv, RzNext PROVE [Transfer!Next]_(Transfer!vars)
  OBVIOUS
<1>t. TypeInv /\ ReportInv
  BY DEF Inv
<1>1. rpc \notin {"end", "xmodem"} /\ UNCHANGED <<card, sent>> /\ received = "none"
  BY <1>t, ReceiverReports DEF ReportInv, sender
<1>2. CASE UNCHANGED <<stored, received>>
  BY <1>1, <1>2 DEF Transfer!vars
<1>3. CASE /\ UNCHANGED <<fout, received>> /\ fout \in Names
           /\ stored[fout] = SubSeq(Source[fout], 1, Len(stored[fout]))
           /\ \E m \in Len(stored[fout]) .. Len(Source[fout]) :
                stored' = [stored EXCEPT ![fout] = SubSeq(Source[fout], 1, m)]
  <2>1. PICK m \in Len(stored[fout]) .. Len(Source[fout]) :
          stored' = [stored EXCEPT ![fout] = SubSeq(Source[fout], 1, m)]
    BY <1>3
  <2>2. stored \in [Names -> Seq(Units)] /\ Len(stored[fout]) \in Nat /\ Len(Source[fout]) \in Nat
    <3>1. stored \in [Names -> Seq(Units)]
      BY <1>t DEF TypeInv, RzType
    <3> QED BY <1>3, <3>1, FileFacts, LenProperties
  <2>3. CASE m = Len(stored[fout])
    <3>1. stored' = stored
      BY <1>3, <2>1, <2>2, <2>3
    <3> QED BY <1>1, <1>3, <3>1 DEF Transfer!vars
  <2>4. CASE m # Len(stored[fout])
    <3>1. m \in Len(stored[fout]) + 1 .. Len(Source[fout])
      BY <2>2, <2>4
    <3>2. Transfer!Store(fout)
      BY <1>1, <1>3, <2>1, <3>1 DEF Transfer!Store
    <3> QED BY <1>3, <3>2 DEF Transfer!Next
  <2> QED BY <2>3, <2>4
<1>4. CASE \E result \in {"OK", "ERROR"} :
             Give(result) /\ UNCHANGED stored /\ (result = "OK" => rpc = "bibi_ack")
  <2>1. PICK result \in {"OK", "ERROR"} :
          Give(result) /\ UNCHANGED stored /\ (result = "OK" => rpc = "bibi_ack")
    BY <1>4
  <2>2. ASSUME result = "OK", NEW f \in Names PROVE stored[f] = card.held[f] \/ stored[f] = Source[f]
    <3>1. fout \notin Names
      BY <1>t, <2>1, <2>2 DEF TypeInv, RzType, Receiving
    <3> QED BY <1>t, <1>1, <2>2, <3>1 DEF ReportInv
  <2>3. Transfer!ReportReceived(result)
    BY <1>1, <2>1, <2>2 DEF Transfer!ReportReceived, Transfer!Untouched, Transfer!Whole, Give
  <2> QED BY <2>3 DEF Transfer!Next
<1> QED
  BY <1>2, <1>3, <1>4, ReceiverReports

(* The transfer implements what FileTransfer promises, for any files, any  *)
(* card and any number of faults: whatever is lost, garbled or late, a     *)
(* stored file grows only by the units that come next in it, wcs counts a  *)
(* file as sent only when all of it is stored, and wcreceive reports       *)
(* success only when no file is left in part (zmodem_sz.cpp getinsync,     *)
(* zmodem_rz.cpp rzfile, rzfiles).                                         *)
THEOREM TransferImplements == Spec => Refines
<1>1. Inv /\ [Next]_vars => [Transfer!Next]_(Transfer!vars)
  <2> SUFFICES ASSUME Inv, [Next]_vars PROVE [Transfer!Next]_(Transfer!vars)
    OBVIOUS
  <2>1. CASE Garble \/ UNCHANGED vars
    BY <2>1 DEF Garble, vars, sender, receiver, Transfer!vars
  <2> QED BY <2>1, SenderImplements, ReceiverImplements DEF Next
<1> QED
  BY <1>1, InitImplements, AlwaysInv, PTL DEF Spec, Refines, Transfer!Spec
=============================================================================
