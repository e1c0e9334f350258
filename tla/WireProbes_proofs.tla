------------------------- MODULE WireProbes_proofs -------------------------
(***************************************************************************)
(* Theorems about both codecs, for every number, text and struct, and about *)
(* the questions of WireProbes to them, to the frames and tables, to the    *)
(* entities of both devices and to the console.  Ranges are stated as       *)
(* comparisons, which the provers handle better than sets.                  *)
(***************************************************************************)
EXTENDS WireProbes, SequenceTheorems, WellFoundedInduction, TLAPS

IsByte(b) == b \in Int /\ b >= 0 /\ b <= 255
IsInt16(n) == n \in Int /\ n >= -32768 /\ n <= 32767

-----------------------------------------------------------------------------
(* Division and remainder by 256 and by 10.                                *)

\* A number is its low byte and the rest.
LEMMA Split256 ==
    ASSUME NEW n \in Int
    PROVE  IsByte(n % 256) /\ n \div 256 \in Int /\ n = 256 * (n \div 256) + (n % 256)
BY SMT DEF IsByte

\* A byte is its own low byte.
LEMMA SmallMod == ASSUME NEW h, IsByte(h) PROVE h % 256 = h
BY SMT DEF IsByte

\* The low byte of a small negative number.
LEMMA NegativeMod == ASSUME NEW h \in Int, h >= -128, h < 0 PROVE h % 256 = h + 256
BY SMT

-----------------------------------------------------------------------------
\* Two's complement in two bytes loses nothing: what struct.pack("<h") makes
\* of an int16, struct.unpack reads back, and both bytes are bytes.
THEOREM Int16RoundTrip ==
    ASSUME NEW raw, IsInt16(raw)
    PROVE  /\ IsByte(Ddm1!Int16(raw)[1]) /\ IsByte(Ddm1!Int16(raw)[2])
           /\ Ddm1!ToInt16(Ddm1!Int16(raw)) = raw
<1>1. PICK lo, hi \in Int : /\ lo = raw % 256 /\ hi = raw \div 256
                            /\ IsByte(lo) /\ raw = 256 * hi + lo
  BY Split256 DEF IsInt16, IsByte
<1>2. hi >= -128 /\ hi <= 127
  BY <1>1 DEF IsInt16, IsByte
<1>3. hi % 256 = IF hi >= 0 THEN hi ELSE hi + 256
  <2>1. CASE hi >= 0
    BY <2>1, <1>1, <1>2, SmallMod DEF IsByte
  <2>2. CASE ~(hi >= 0)
    BY <2>2, <1>1, <1>2, NegativeMod
  <2> QED
    BY <2>1, <2>2
<1>4. PICK top \in Int : top = hi % 256 /\ top = IF hi >= 0 THEN hi ELSE hi + 256
  BY <1>1, <1>2, <1>3
<1>5. Ddm1!Int16(raw) = << lo, top >>
  BY <1>1, <1>4 DEF Ddm1!Int16
<1>6. IsByte(top)
  BY <1>2, <1>4 DEF IsByte
<1>7. Ddm1!ToInt16(<< lo, top >>) = raw
  BY <1>1, <1>2, <1>4 DEF Ddm1!ToInt16, IsByte
<1> QED
  BY <1>1, <1>5, <1>6, <1>7

\* The other way round: any two bytes from the device are what encoding the
\* number they stand for gives, so a value that is written back is unchanged.
THEOREM Int16WriteBack ==
    ASSUME NEW lo, NEW hi, IsByte(lo), IsByte(hi)
    PROVE  /\ IsInt16(Ddm1!ToInt16(<< lo, hi >>))
           /\ Ddm1!Int16(Ddm1!ToInt16(<< lo, hi >>)) = << lo, hi >>
<1>1. PICK h \in Int : /\ h = IF hi < 128 THEN hi ELSE hi - 256
                       /\ h >= -128 /\ h <= 127
  BY DEF IsByte
<1>2. Ddm1!ToInt16(<< lo, hi >>) = 256 * h + lo
  BY <1>1 DEF Ddm1!ToInt16, IsByte
<1>3. IsInt16(256 * h + lo)
  BY <1>1 DEF IsInt16, IsByte
<1>4. (256 * h + lo) % 256 = lo /\ (256 * h + lo) \div 256 = h
  BY <1>1, SMT DEF IsByte
<1>5. h % 256 = hi
  <2>1. CASE hi < 128
    BY <2>1, <1>1, SmallMod
  <2>2. CASE ~(hi < 128)
    BY <2>2, <1>1, NegativeMod DEF IsByte
  <2> QED
    BY <2>1, <2>2
<1> QED
  BY <1>2, <1>3, <1>4, <1>5 DEF Ddm1!Int16

-----------------------------------------------------------------------------
\* round() goes to the nearest tenth: never further than half of one.
LEMMA TenthsIsNearest ==
    ASSUME NEW v \in Int
    PROVE  /\ Ddm1!Tenths(v) \in Int
           /\ 10 * Ddm1!Tenths(v) - v <= 5 /\ v - 10 * Ddm1!Tenths(v) <= 5
<1>1. PICK q, r \in Int : /\ q = v \div 10 /\ r = v % 10
                          /\ r >= 0 /\ r <= 9 /\ v = 10 * q + r
  <2>1. /\ v \div 10 \in Int /\ v % 10 \in Int
        /\ v % 10 >= 0 /\ v % 10 <= 9 /\ v = 10 * (v \div 10) + (v % 10)
    BY SMT
  <2> QED
    BY <2>1
<1>2. Ddm1!Tenths(v) = IF r > 5 \/ (r = 5 /\ q % 2 = 1) THEN q + 1 ELSE q
  BY <1>1 DEF Ddm1!Tenths
<1>3. (Ddm1!Tenths(v) = q /\ r <= 5) \/ (Ddm1!Tenths(v) = q + 1 /\ r >= 5)
  BY <1>1, <1>2
<1> QED
  BY <1>1, <1>3

\* A whole tenth is not rounded at all.
LEMMA TenthsOfTenths ==
    ASSUME NEW raw \in Int
    PROVE  Ddm1!Tenths(10 * raw) = raw
<1>1. (10 * raw) \div 10 = raw /\ (10 * raw) % 10 = 0
  BY SMT
<1> QED
  BY <1>1 DEF Ddm1!Tenths

\* Whatever number _deci_to_bytes accepts, decode returns one within half of
\* a tenth: a temperature or voltage never wraps around.
THEOREM DeciRoundTrip ==
    ASSUME NEW v \in Int, Ddm1!DeciFits(v)
    PROVE  Ddm1!FromDeci(Ddm1!DeciBytes(v)) - v <= 5 /\ v - Ddm1!FromDeci(Ddm1!DeciBytes(v)) <= 5
<1>1. IsInt16(Ddm1!Tenths(v))
  BY TenthsIsNearest DEF Ddm1!DeciFits, IsInt16
<1>2. Ddm1!FromDeci(Ddm1!DeciBytes(v)) = 10 * Ddm1!Tenths(v)
  BY <1>1, Int16RoundTrip DEF Ddm1!FromDeci, Ddm1!DeciBytes
<1> QED
  BY <1>2, TenthsIsNearest

\* Every two bytes of a temperature or voltage the device sends can be
\* written back and are then the same bytes.
THEOREM DeciWriteBack ==
    ASSUME NEW lo, NEW hi, IsByte(lo), IsByte(hi)
    PROVE  /\ Ddm1!DeciFits(Ddm1!FromDeci(<< lo, hi >>))
           /\ Ddm1!DeciBytes(Ddm1!FromDeci(<< lo, hi >>)) = << lo, hi >>
<1>1. PICK raw : raw = Ddm1!ToInt16(<< lo, hi >>)
  OBVIOUS
<1>2. IsInt16(raw) /\ Ddm1!Int16(raw) = << lo, hi >>
  BY <1>1, Int16WriteBack
<1>3. Ddm1!Tenths(10 * raw) = raw
  BY <1>2, TenthsOfTenths DEF IsInt16
<1>4. Ddm1!FromDeci(<< lo, hi >>) = 10 * raw
  BY <1>1 DEF Ddm1!FromDeci
<1> QED
  BY <1>2, <1>3, <1>4 DEF Ddm1!DeciFits, Ddm1!DeciBytes, IsInt16

\* None survives a history; a number comes back as None only from the place
\* of the sentinel, half a tenth around -3276.8.
THEOREM SampleRoundTrip ==
    /\ Ddm1!Sample(Ddm1!SampleBytes({})) = {}
    /\ \A v \in Int : Ddm1!DeciFits(v) =>
           Ddm1!Sample(Ddm1!SampleBytes({v})) = IF Ddm1!Tenths(v) = Ddm1!HISTORY_NO_SAMPLE THEN {}
                                      ELSE {10 * Ddm1!Tenths(v)}
<1>1. Ddm1!Sample(Ddm1!SampleBytes({})) = {}
  <2>1. Ddm1!ToInt16(Ddm1!Int16(Ddm1!HISTORY_NO_SAMPLE)) = Ddm1!HISTORY_NO_SAMPLE
    BY Int16RoundTrip DEF IsInt16, Ddm1!HISTORY_NO_SAMPLE
  <2> QED
    BY <2>1 DEF Ddm1!Sample, Ddm1!SampleBytes
<1>2. ASSUME NEW v \in Int, Ddm1!DeciFits(v)
      PROVE  Ddm1!Sample(Ddm1!SampleBytes({v})) = IF Ddm1!Tenths(v) = Ddm1!HISTORY_NO_SAMPLE THEN {}
                                        ELSE {10 * Ddm1!Tenths(v)}
  <2>1. Ddm1!SampleBytes({v}) = Ddm1!Int16(Ddm1!Tenths(v))
    BY DEF Ddm1!SampleBytes, Ddm1!DeciBytes
  <2>2. Ddm1!ToInt16(Ddm1!Int16(Ddm1!Tenths(v))) = Ddm1!Tenths(v)
    BY <1>2, TenthsIsNearest, Int16RoundTrip DEF Ddm1!DeciFits, IsInt16
  <2> QED
    BY <2>1, <2>2 DEF Ddm1!Sample, Ddm1!FromDeci
<1> QED
  BY <1>1, <1>2

-----------------------------------------------------------------------------
(* Where parts end, and parts put together.                                *)

\* Every set of numbers has a least one.
LEMMA LeastNumber ==
    ASSUME NEW T, T \subseteq Nat, T # {}
    PROVE  \E n \in T : \A m \in T : n <= m
<1> DEFINE R == OpToRel(<, Nat)
<1>1. IsWellFoundedOn(R, Nat)
  BY NatLessThanWellFounded
<1>2. \A x, y \in Nat : x < y => << x, y >> \in R
  BY DEF OpToRel
<1> HIDE DEF R
<1>3. PICK n \in T : \A m \in T : ~(<< m, n >> \in R)
  BY <1>1, WFMin
<1>4. \A m \in T : ~(m < n)
  BY <1>2, <1>3
<1>5. \A m \in T : n <= m
  BY <1>4
<1> QED
  BY <1>5

\* Induction, for a set that is known: what has 0 and each successor has every number.
LEMMA SetInduction ==
    ASSUME NEW T, 0 \in T, \A n \in Nat : n \in T => n + 1 \in T
    PROVE  \A n \in Nat : n \in T
<1> DEFINE bad == {n \in Nat : n \notin T}
<1>1. ASSUME bad # {} PROVE FALSE
  <2>1. PICK n \in bad : \A m \in bad : n <= m
    BY <1>1, LeastNumber
  <2>2. n \in Nat /\ n # 0 /\ n - 1 \in Nat /\ n - 1 + 1 = n
    BY <2>1
  <2>3. n - 1 \in T
    BY <2>1, <2>2
  <2> QED
    BY <2>1, <2>2, <2>3
<1> QED
  BY <1>1

\* There are ends for any sizes.
LEMMA EndsExist ==
    ASSUME NEW sizes \in Seq(Nat)
    PROVE  \E g : g = [i \in 0 .. Len(sizes) |-> IF i = 0 THEN 0 ELSE g[i - 1] + sizes[i]]
<1> DEFINE P(m) == \E f : f = [i \in 0 .. m |-> IF i = 0 THEN 0 ELSE f[i - 1] + sizes[i]]
           T == {m \in Nat : P(m)}
<1>1. 0 \in T
  <2> DEFINE g == [i \in 0 .. 0 |-> 0]
  <2>1. g = [i \in 0 .. 0 |-> IF i = 0 THEN 0 ELSE g[i - 1] + sizes[i]]
    OBVIOUS
  <2> QED
    BY <2>1
<1>2. ASSUME NEW n \in Nat, n \in T PROVE n + 1 \in T
  <2>1. PICK g : g = [i \in 0 .. n |-> IF i = 0 THEN 0 ELSE g[i - 1] + sizes[i]]
    BY <1>2
  <2> DEFINE h == [i \in 0 .. n + 1 |-> IF i = n + 1 THEN g[n] + sizes[n + 1] ELSE g[i]]
  <2>2. ASSUME NEW i \in 0 .. n + 1 PROVE h[i] = IF i = 0 THEN 0 ELSE h[i - 1] + sizes[i]
    <3>1. CASE i = n + 1
      <4>1. h[i - 1] = g[n]
        BY <3>1
      <4> QED
        BY <3>1, <4>1
    <3>2. CASE i # n + 1
      <4>1. i \in 0 .. n /\ h[i] = g[i]
        BY <3>2
      <4>2. i # 0 => i - 1 \in 0 .. n /\ h[i - 1] = g[i - 1]
        BY <4>1
      <4> QED
        BY <2>1, <4>1, <4>2
    <3> QED
      BY <3>1, <3>2
  <2>3. h = [i \in 0 .. n + 1 |-> IF i = 0 THEN 0 ELSE h[i - 1] + sizes[i]]
    <3>1. h = [i \in 0 .. n + 1 |-> h[i]]
      OBVIOUS
    <3> HIDE DEF h
    <3> QED
      BY <2>2, <3>1
  <2> HIDE DEF h
  <2>4. P(n + 1)
    BY <2>3
  <2> HIDE DEF P
  <2> QED
    BY <2>4
<1> HIDE DEF T
<1>3. Len(sizes) \in T
  BY <1>1, <1>2, SetInduction
<1> QED
  BY <1>3 DEF T

\* The ends are what their recursive definition says.
LEMMA EndsDef ==
    ASSUME NEW sizes \in Seq(Nat)
    PROVE  Ends(sizes)
               = [i \in 0 .. Len(sizes) |-> IF i = 0 THEN 0 ELSE Ends(sizes)[i - 1] + sizes[i]]
<1> DEFINE g == CHOOSE x : x = [i \in 0 .. Len(sizes) |-> IF i = 0 THEN 0 ELSE x[i - 1] + sizes[i]]
<1>1. Ends(sizes) = g
  BY DEF Ends
<1>2. g = [i \in 0 .. Len(sizes) |-> IF i = 0 THEN 0 ELSE g[i - 1] + sizes[i]]
  BY EndsExist
<1> HIDE DEF g
<1> QED
  BY <1>1, <1>2

\* Each part ends as much later as it is long.
THEOREM EndsSpec ==
    ASSUME NEW sizes \in Seq(Nat)
    PROVE  /\ Ends(sizes)[0] = 0
           /\ \A i \in 1 .. Len(sizes) : Ends(sizes)[i] = Ends(sizes)[i - 1] + sizes[i]
           /\ \A i \in 0 .. Len(sizes) : Ends(sizes)[i] \in Nat
<1> DEFINE ends == Ends(sizes)
           T == {n \in Nat : n <= Len(sizes) => ends[n] \in Nat}
<1>1. ends[0] = 0
  BY EndsDef
<1>2. ASSUME NEW i \in 1 .. Len(sizes) PROVE ends[i] = ends[i - 1] + sizes[i] /\ sizes[i] \in Nat
  <2>1. i \in 0 .. Len(sizes) /\ i # 0
    OBVIOUS
  <2> QED
    BY <2>1, EndsDef
<1> HIDE DEF ends
<1>3. ASSUME NEW n \in Nat, n \in T PROVE n + 1 \in T
  <2>1. ASSUME n + 1 <= Len(sizes) PROVE ends[n + 1] \in Nat
    <3>1. n + 1 \in 1 .. Len(sizes) /\ ends[n] \in Nat /\ (n + 1) - 1 = n
      BY <1>3, <2>1
    <3>2. ends[n + 1] = ends[n] + sizes[n + 1] /\ sizes[n + 1] \in Nat
      BY <1>2, <3>1
    <3> QED
      BY <3>1, <3>2
  <2> QED
    BY <2>1
<1>4. 0 \in T
  BY <1>1
<1>5. \A n \in Nat : n \in T
  <2> HIDE DEF T
  <2> QED
    BY <1>3, <1>4, SetInduction
<1>6. \A i \in 0 .. Len(sizes) : ends[i] \in Nat
  BY <1>5
<1> QED
  BY <1>1, <1>2, <1>6 DEF ends

\* The flatten of FlattenSeq.
IsJoin(f, outs) ==
    f = [i \in 1 .. Len(outs) |-> IF i = 1 THEN outs[i] ELSE f[i - 1] \o outs[i]]

\* Any sequences can be put together one by one.
LEMMA JoinExists ==
    ASSUME NEW S, NEW outs \in Seq(S)
    PROVE  \E f : IsJoin(f, outs)
<1> DEFINE P(m) == \E f : f = [i \in 1 .. m |-> IF i = 1 THEN outs[i] ELSE f[i - 1] \o outs[i]]
           T == {m \in Nat : P(m)}
<1>1. 0 \in T
  <2> DEFINE g == [i \in 1 .. 0 |-> 0]
  <2>1. g = [i \in 1 .. 0 |-> IF i = 1 THEN outs[i] ELSE g[i - 1] \o outs[i]]
    OBVIOUS
  <2> QED
    BY <2>1
<1>2. ASSUME NEW n \in Nat, n \in T PROVE n + 1 \in T
  <2>1. PICK g : g = [i \in 1 .. n |-> IF i = 1 THEN outs[i] ELSE g[i - 1] \o outs[i]]
    BY <1>2
  <2> DEFINE h == [i \in 1 .. n + 1 |-> IF i = n + 1 THEN IF i = 1 THEN outs[i] ELSE g[n] \o outs[i]
                                        ELSE g[i]]
  <2>2. ASSUME NEW i \in 1 .. n + 1 PROVE h[i] = IF i = 1 THEN outs[i] ELSE h[i - 1] \o outs[i]
    <3>1. CASE i = n + 1
      <4>1. i # 1 => h[i - 1] = g[n]
        BY <3>1
      <4> QED
        BY <3>1, <4>1
    <3>2. CASE i # n + 1
      <4>1. i \in 1 .. n /\ h[i] = g[i]
        BY <3>2
      <4>2. i # 1 => i - 1 \in 1 .. n /\ h[i - 1] = g[i - 1]
        BY <4>1
      <4> QED
        BY <2>1, <4>1, <4>2
    <3> QED
      BY <3>1, <3>2
  <2>3. h = [i \in 1 .. n + 1 |-> IF i = 1 THEN outs[i] ELSE h[i - 1] \o outs[i]]
    <3>1. h = [i \in 1 .. n + 1 |-> h[i]]
      OBVIOUS
    <3> HIDE DEF h
    <3> QED
      BY <2>2, <3>1
  <2> HIDE DEF h
  <2>4. P(n + 1)
    BY <2>3
  <2> HIDE DEF P
  <2> QED
    BY <2>4
<1> HIDE DEF T
<1>3. Len(outs) \in T
  BY <1>1, <1>2, SetInduction
<1> QED
  BY <1>3 DEF T, IsJoin

\* What they are put together to is their flattened sequence.
LEMMA FlattenIsJoin ==
    ASSUME NEW S, NEW outs \in Seq(S), Len(outs) # 0
    PROVE  \E f : IsJoin(f, outs) /\ FlattenSeq(outs) = f[Len(outs)]
<1> DEFINE f == CHOOSE x : IsJoin(x, outs)
<1>1. IsJoin(f, outs)
  BY JoinExists
<1>2. FlattenSeq(outs) = f[Len(outs)]
  BY DEF FlattenSeq, IsJoin
<1> QED
  BY <1>1, <1>2

\* Where the elements of two sequences are in both together.
LEMMA ConcatAt ==
    ASSUME NEW S, NEW s \in Seq(S), NEW t \in Seq(S)
    PROVE  /\ s \o t \in Seq(S) /\ Len(s \o t) = Len(s) + Len(t)
           /\ Len(s) \in Nat /\ Len(t) \in Nat
           /\ \A i \in 1 .. Len(s) : (s \o t)[i] = s[i]
           /\ \A i \in 1 .. Len(t) : (s \o t)[Len(s) + i] = t[i]
OBVIOUS

\* A sequence found in another.
LEMMA SubSeqIs ==
    ASSUME NEW S, NEW s \in Seq(S), NEW t \in Seq(S), NEW m \in Nat, m + Len(t) <= Len(s),
           \A j \in 1 .. Len(t) : s[m + j] = t[j]
    PROVE  SubSeq(s, m + 1, m + Len(t)) = t
<1> DEFINE u == SubSeq(s, m + 1, m + Len(t))
<1>1. Len(t) \in Nat /\ Len(s) \in Nat
  OBVIOUS
<1>2. \A i \in m + 1 .. m + Len(t) : s[i] \in S
  BY <1>1
<1>3. /\ u \in Seq(S)
      /\ Len(u) = IF m + 1 <= m + Len(t) THEN (m + Len(t)) - (m + 1) + 1 ELSE 0
      /\ \A i \in 1 .. (m + Len(t)) - (m + 1) + 1 : u[i] = s[(m + 1) + i - 1]
  BY <1>1, <1>2, SubSeqProperties
<1> HIDE DEF u
<1>4. Len(u) = Len(t)
  BY <1>1, <1>3
<1>5. ASSUME NEW i \in 1 .. Len(t) PROVE u[i] = t[i]
  <2>1. u[i] = s[(m + 1) + i - 1] /\ (m + 1) + i - 1 = m + i
    BY <1>1, <1>3
  <2> QED
    BY <2>1
<1>6. u = t
  BY <1>3, <1>4, <1>5, SeqEqual
<1> QED
  BY <1>6 DEF u

\* Parts of these sizes, but for the last.
AreParts(outs, sizes) ==
    /\ Len(outs) = Len(sizes)
    /\ \A i \in 1 .. Len(outs) : i < Len(outs) => Len(outs[i]) = sizes[i]

\* They lie where the sizes say, in what they are put together to.
Lie(outs, ends, e) ==
    /\ Len(e) = IF Len(outs) = 0 THEN 0 ELSE ends[Len(outs) - 1] + Len(outs[Len(outs)])
    /\ \A i \in 1 .. Len(outs) :
           SubSeq(e, ends[i - 1] + 1, ends[i - 1] + Len(outs[i])) = outs[i]

\* A part that ends within a sequence is in it.
LEMMA PlacesWithin ==
    ASSUME NEW e \in Nat, NEW l \in Nat, NEW m \in Nat, e + l <= m
    PROVE  \A j \in 1 .. l : e + j \in 1 .. m
  OBVIOUS

\* Parts of the sizes the fields have, put together, lie where the ends of those sizes
\* say: what encodes fields one by one is read again where each of them is.
THEOREM PartsLie ==
    ASSUME NEW S, NEW sizes \in Seq(Nat), NEW outs \in Seq(Seq(S)), AreParts(outs, sizes)
    PROVE  FlattenSeq(outs) \in Seq(S) /\ Lie(outs, Ends(sizes), FlattenSeq(outs))
<1> USE DEF AreParts, Lie
<1> DEFINE n == Len(outs)
           ends == Ends(sizes)
<1>1. n \in Nat /\ \A i \in 1 .. n : outs[i] \in Seq(S) /\ Len(outs[i]) \in Nat
  OBVIOUS
<1>2. /\ ends[0] = 0
      /\ \A i \in 1 .. n : ends[i] = ends[i - 1] + sizes[i]
      /\ \A i \in 0 .. n : ends[i] \in Nat
  BY EndsSpec
<1> HIDE DEF ends
<1>3. CASE n = 0
  <2>1. FlattenSeq(outs) = outs /\ outs = << >>
    BY <1>3 DEF FlattenSeq
  <2>2. outs \in Seq(S) /\ Len(outs) = 0 /\ 1 .. n = {}
    BY <1>3, <2>1
  <2> QED
    BY <1>3, <2>1, <2>2 DEF ends
<1>4. CASE n # 0
  <2>1. PICK f : IsJoin(f, outs) /\ FlattenSeq(outs) = f[n]
    BY <1>4, FlattenIsJoin
  <2>2. \A i \in 1 .. n : f[i] = IF i = 1 THEN outs[i] ELSE f[i - 1] \o outs[i]
    BY <2>1 DEF IsJoin
  <2> DEFINE Holds(k) ==
               /\ f[k] \in Seq(S) /\ Len(f[k]) = ends[k - 1] + Len(outs[k])
               /\ \A i \in 1 .. k : /\ ends[i - 1] + Len(outs[i]) <= Len(f[k])
                                    /\ \A j \in 1 .. Len(outs[i]) : f[k][ends[i - 1] + j] = outs[i][j]
             T == {k \in Nat : k + 1 <= n => Holds(k + 1)}
  <2>3. Holds(1)
    <3>1. 1 \in 1 .. n /\ f[1] = outs[1] /\ ends[1 - 1] = 0 /\ \A i \in 1 .. 1 : i = 1
      BY <1>1, <1>2, <1>4, <2>2
    <3>2. outs[1] \in Seq(S) /\ Len(outs[1]) \in Nat
      BY <1>1, <3>1
    <3>3. \A j \in 1 .. Len(outs[1]) : 0 + j = j
      OBVIOUS
    <3> HIDE DEF n
    <3> QED
      BY <3>1, <3>2, <3>3
  <2>4. ASSUME NEW k \in Nat, k \in T PROVE k + 1 \in T
    <3> SUFFICES ASSUME (k + 1) + 1 <= n PROVE Holds((k + 1) + 1)
      BY DEF T
    <3> DEFINE a == k + 1
               b == a + 1
    <3>1. n \in Nat /\ a \in Nat /\ a \in 1 .. n /\ b \in 1 .. n /\ a < n /\ b = a + 1 /\ b - 1 = a /\ b # 1 /\ a - 1 \in 0 .. n
      BY <1>1
    <3>2. Holds(a)
      BY <2>4, <3>1
    <3> HIDE DEF a, b, n
    <3> DEFINE s == f[a]
               t == outs[b]
    <3>3. f[b] = s \o t
      BY <2>2, <3>1
    <3>4. s \in Seq(S) /\ t \in Seq(S)
      BY <1>1, <3>1, <3>2
    <3>5. Len(s) = ends[a] /\ ends[b - 1] = ends[a]
      <4>1. Len(outs[a]) = sizes[a] /\ ends[a] = ends[a - 1] + sizes[a]
        BY <1>2, <3>1 DEF n
      <4> QED
        BY <3>1, <3>2, <4>1
    <3>10. \A i \in 1 .. a : /\ ends[i - 1] + Len(outs[i]) <= Len(s)
                             /\ \A j \in 1 .. Len(outs[i]) : s[ends[i - 1] + j] = outs[i][j]
      BY <3>2
    <3>11. t = outs[b]
      OBVIOUS
    <3> HIDE DEF s, t
    <3>6. /\ s \o t \in Seq(S) /\ Len(s \o t) = Len(s) + Len(t)
          /\ Len(s) \in Nat /\ Len(t) \in Nat
          /\ \A i \in 1 .. Len(s) : (s \o t)[i] = s[i]
          /\ \A i \in 1 .. Len(t) : (s \o t)[Len(s) + i] = t[i]
      BY <3>4, ConcatAt
    <3>7. ASSUME NEW i \in 1 .. b
          PROVE  /\ ends[i - 1] + Len(outs[i]) <= Len(f[b])
                 /\ \A j \in 1 .. Len(outs[i]) : f[b][ends[i - 1] + j] = outs[i][j]
      <4>1. CASE i = b
        <5>1. outs[i] = t /\ ends[i - 1] = Len(s) /\ Len(f[b]) = Len(s) + Len(t)
          BY <3>3, <3>5, <3>6, <3>11, <4>1
        <5>2. \A j \in 1 .. Len(t) : f[b][Len(s) + j] = t[j]
          BY <3>3, <3>6
        <5> QED
          BY <3>6, <5>1, <5>2
      <4>2. CASE i # b
        <5>1. i \in 1 .. a /\ i \in 1 .. n /\ i - 1 \in 0 .. n
          BY <3>1, <4>2
        <5>2. /\ ends[i - 1] + Len(outs[i]) <= Len(s)
              /\ \A j \in 1 .. Len(outs[i]) : s[ends[i - 1] + j] = outs[i][j]
          BY <3>10, <5>1
        <5>3. ends[i - 1] \in Nat /\ Len(outs[i]) \in Nat
          BY <1>1, <1>2, <5>1
        <5>4. \A j \in 1 .. Len(outs[i]) : ends[i - 1] + j \in 1 .. Len(s)
          <6>1. Len(s) \in Nat /\ ends[i - 1] + Len(outs[i]) <= Len(s)
            BY <3>6, <5>2
          <6> QED
            BY <5>3, <6>1, PlacesWithin
        <5>5. \A j \in 1 .. Len(outs[i]) : f[b][ends[i - 1] + j] = s[ends[i - 1] + j]
          BY <3>3, <3>6, <5>4
        <5>6. Len(s) <= Len(f[b]) /\ Len(f[b]) \in Nat
          BY <3>3, <3>6
        <5> QED
          BY <3>6, <5>2, <5>3, <5>5, <5>6
      <4> QED
        BY <4>1, <4>2
    <3>8. f[b] \in Seq(S) /\ Len(f[b]) = ends[b - 1] + Len(outs[b])
      BY <3>3, <3>5, <3>6, <3>11
    <3>9. Holds(b)
      BY <3>7, <3>8
    <3> QED
      BY <3>9 DEF a, b
  <2>5. 0 \in T
    BY <2>3
  <2>6. \A k \in Nat : k \in T
    <3> HIDE DEF T
    <3> QED
      BY <2>4, <2>5, SetInduction
  <2>7. n - 1 \in T /\ n - 1 \in Nat /\ (n - 1) + 1 = n
    BY <1>1, <1>4, <2>6, SMTT(30)
  <2>8. Holds(n)
    BY <1>1, <2>7
  <2>9. ASSUME NEW i \in 1 .. n
        PROVE  SubSeq(f[n], ends[i - 1] + 1, ends[i - 1] + Len(outs[i])) = outs[i]
    <3>1. outs[i] \in Seq(S) /\ ends[i - 1] \in Nat
      <4>1. i - 1 \in 0 .. n
        BY <1>1
      <4> QED
        BY <1>1, <1>2, <4>1
    <3>2. /\ f[n] \in Seq(S) /\ ends[i - 1] + Len(outs[i]) <= Len(f[n])
          /\ \A j \in 1 .. Len(outs[i]) : f[n][ends[i - 1] + j] = outs[i][j]
      BY <2>8
    <3> QED
      BY <3>1, <3>2, SubSeqIs, ZenonT(40)
  <2> QED
    BY <1>4, <2>1, <2>8, <2>9 DEF ends
<1> QED
  BY <1>3, <1>4

\* The later a field ends, the further.
LEMMA EndsGrow ==
    ASSUME NEW sizes \in Seq(Nat)
    PROVE  \A j \in 0 .. Len(sizes) : \A i \in 0 .. j : Ends(sizes)[i] <= Ends(sizes)[j]
<1> DEFINE ends == Ends(sizes)
           n == Len(sizes)
           T == {j \in Nat : j <= n => \A i \in 0 .. j : ends[i] <= ends[j]}
<1>1. /\ n \in Nat /\ \A i \in 1 .. n : ends[i] = ends[i - 1] + sizes[i] /\ sizes[i] \in Nat
      /\ \A i \in 0 .. n : ends[i] \in Nat
  BY EndsSpec
<1> HIDE DEF ends, n
<1>2. 0 \in T
  <2>1. \A i \in 0 .. 0 : i = 0 /\ 0 \in 0 .. n /\ ends[0] \in Nat
    BY <1>1
  <2> QED
    BY <2>1
<1>3. ASSUME NEW j \in Nat, j \in T PROVE j + 1 \in T
  <2> SUFFICES ASSUME j + 1 <= n, NEW i \in 0 .. j + 1 PROVE ends[i] <= ends[j + 1]
    BY DEF T
  <2>1. /\ ends[j + 1] = ends[j] + sizes[j + 1] /\ sizes[j + 1] \in Nat
        /\ ends[j] \in Nat /\ ends[i] \in Nat
    <3>1. j + 1 \in 1 .. n /\ (j + 1) - 1 = j /\ j \in 0 .. n /\ i \in 0 .. n
      BY <1>1
    <3> QED
      BY <1>1, <3>1
  <2>2. CASE i = j + 1
    BY <1>1, <2>1, <2>2
  <2>3. CASE i # j + 1
    <3>1. i \in 0 .. j /\ j <= n
      BY <1>1, <2>3
    <3>2. ends[i] <= ends[j]
      BY <1>3, <3>1
    <3> QED
      BY <2>1, <3>2
  <2> QED
    BY <2>2, <2>3
<1>4. \A j \in Nat : j \in T
  <2> HIDE DEF T
  <2> QED
    BY <1>2, <1>3, SetInduction
<1> QED
  BY <1>1, <1>4 DEF ends, n

-----------------------------------------------------------------------------
(* Texts.                                                                  *)

\* Both codecs read texts alike.
LEMMA SameText == \A s : Ddm1!Text(s) = Text(s)
<1>1. \A b : Ddm1!CharacterSize(b) = CharacterSize(b) /\ Ddm1!Second(b) = Second(b)
  BY DEF CharacterSize, Ddm1!CharacterSize, Second, Ddm1!Second
<1>2. \A d, j, i : Ddm1!Reaches(d, j, i) <=> Reaches(d, j, i)
  BY <1>1 DEF Reaches, Ddm1!Reaches
<1>3. \A d, i : Ddm1!InCharacter(d, i) <=> InCharacter(d, i)
  BY <1>1, <1>2, Zenon DEF InCharacter, Ddm1!InCharacter
<1>4. \A d : Ddm1!WellFormed(d) <=> WellFormed(d)
  BY <1>3, Zenon DEF WellFormed, Ddm1!WellFormed
<1>5. \A d, i : Ddm1!Piece(d, i) = Piece(d, i)
  <2> TAKE d, i
  <2>1. Ddm1!InCharacter(d, i) <=> InCharacter(d, i)
    BY <1>3
  <2>2. (\E j \in 1 .. i - 1 : Ddm1!Reaches(d, j, i)) <=> \E j \in 1 .. i - 1 : Reaches(d, j, i)
    BY <1>2
  <2> QED
    BY <2>1, <2>2, Zenon DEF Piece, Ddm1!Piece, Replacement, Ddm1!Replacement
<1>6. \A s : Ddm1!FlattenSeq(s) = FlattenSeq(s)
  BY DEF FlattenSeq, Ddm1!FlattenSeq
<1>7. \A d : Ddm1!Replaced(d) = Replaced(d)
  <2> TAKE d
  <2>1. [i \in DOMAIN d |-> Ddm1!Piece(d, i)] = [i \in DOMAIN d |-> Piece(d, i)]
    BY <1>5
  <2> QED
    BY <1>4, <1>6, <2>1, Zenon DEF Replaced, Ddm1!Replaced
<1>8. \A d : Ddm1!BeforeNul(d) = BeforeNul(d)
  BY DEF BeforeNul, Ddm1!BeforeNul
<1> QED
  BY <1>7, <1>8, Zenon DEF Text, Ddm1!Text

\* The first byte of a character says how long it is, and no other byte of it is a first
\* byte or a NUL.
LEMMA CharacterBytes ==
    ASSUME NEW b \in Octet
    PROVE  /\ CharacterSize(b) \in 0 .. 4
           /\ \A c \in Second(b) : c \in Int /\ c >= 128
BY DEF Octet, CharacterSize, Second

\* The start of a character in one text, found in another, is the start of it there.
LEMMA ReachesMoved ==
    ASSUME NEW x \in Seq(Octet), NEW y \in Seq(Octet), NEW s \in Int, NEW j \in Nat, NEW i \in Nat,
           j + s >= 1, i + s <= Len(y), \A k \in j .. i : y[k + s] = x[k], Reaches(x, j, i)
    PROVE  Reaches(y, j + s, i + s)
<1>1. /\ j <= i /\ i - j < CharacterSize(x[j])
      /\ \A k \in j + 1 .. i : x[k] \in (IF k = j + 1 THEN Second(x[j]) ELSE 128 .. 191)
  BY DEF Reaches
<1>2. y[j + s] = x[j] /\ j + s <= i + s /\ (i + s) - (j + s) = i - j
  BY <1>1
<1>3. ASSUME NEW k \in (j + s) + 1 .. i + s
      PROVE  y[k] \in (IF k = (j + s) + 1 THEN Second(y[j + s]) ELSE 128 .. 191)
  <2>1. k - s \in j + 1 .. i /\ k - s \in j .. i /\ (k - s) + s = k
    OBVIOUS
  <2>2. y[k] = x[k - s]
    BY <2>1
  <2>3. k - s = j + 1 <=> k = (j + s) + 1
    BY <2>1
  <2> QED
    BY <1>1, <1>2, <2>1, <2>2, <2>3
<1> QED
  BY <1>1, <1>2, <1>3 DEF Reaches

\* A text cut at a NUL ends with a whole character.
LEMMA CutWellFormed ==
    ASSUME NEW x, IsUtf8(x), NEW y, CutAtNul(x, y)
    PROVE  IsUtf8(y)
<1>1. x \in Seq(Octet) /\ Len(x) \in Nat /\ \A i \in 1 .. Len(x) : InCharacter(x, i)
  BY DEF IsUtf8, WellFormed
<1>2. PICK n \in 0 .. Len(x) : /\ y = SubSeq(x, 1, n) /\ \A i \in 1 .. n : x[i] # 0
                               /\ n < Len(x) => x[n + 1] = 0
  BY DEF CutAtNul
<1>3. y \in Seq(Octet) /\ Len(y) = n /\ \A i \in 1 .. n : y[i] = x[i]
  <2>1. \A i \in 1 .. n : x[i] \in Octet
    BY <1>1
  <2> QED
    BY <1>1, <1>2, <2>1, SubSeqProperties
<1>4. ASSUME NEW i \in 1 .. n PROVE InCharacter(y, i)
  <2>1. PICK j \in 1 .. i : Reaches(x, j, i) /\ Reaches(x, j, j + CharacterSize(x[j]) - 1)
    BY <1>1, <1>2 DEF InCharacter
  <2> DEFINE e == j + CharacterSize(x[j]) - 1
  <2>2. j \in Nat /\ i \in Nat /\ j <= i /\ i <= n /\ j >= 1 /\ x[j] \in Octet /\ n <= Len(x)
    BY <1>1, <1>2, <2>1
  <2>3. CharacterSize(x[j]) \in 0 .. 4 /\ \A c \in Second(x[j]) : c \in Int /\ c >= 128
    BY <2>2, CharacterBytes
  <2>4. /\ e \in Int /\ j <= e /\ e <= Len(x)
        /\ \A k \in j + 1 .. e : x[k] \in (IF k = j + 1 THEN Second(x[j]) ELSE 128 .. 191)
    BY <2>1, <2>2, <2>3 DEF Reaches
  <2>7. e = j + CharacterSize(x[j]) - 1
    OBVIOUS
  <2> HIDE DEF e
  <2>5. ASSUME e > n PROVE FALSE
    <3>1. n + 1 \in j + 1 .. e /\ n < Len(x)
      BY <2>2, <2>4, <2>5, <1>1, <1>2
    <3>2. x[n + 1] = 0
      BY <1>2, <3>1
    <3>3. 0 \in (IF n + 1 = j + 1 THEN Second(x[j]) ELSE 128 .. 191)
      BY <2>4, <3>1, <3>2
    <3> QED
      BY <2>3, <3>3
  <2>6. e <= n /\ e \in Nat /\ \A k \in 1 .. n : y[k + 0] = x[k]
    BY <1>2, <1>3, <2>2, <2>4, <2>5
  <2>8. Reaches(y, j + 0, i + 0) /\ Reaches(y, j + 0, e + 0)
    <3>1. \A k \in j .. i : y[k + 0] = x[k]
      BY <2>2, <2>6
    <3>2. \A k \in j .. e : y[k + 0] = x[k]
      BY <2>2, <2>6
    <3>3. i + 0 <= Len(y) /\ e + 0 <= Len(y) /\ j + 0 >= 1 /\ Reaches(x, j, e) /\ 0 \in Int
      BY <1>3, <2>1, <2>2, <2>6, <2>7
    <3>4. Reaches(y, j + 0, i + 0)
      BY <1>1, <1>3, <2>1, <2>2, <3>1, <3>3, ReachesMoved
    <3>5. Reaches(y, j + 0, e + 0)
      BY <1>1, <1>3, <2>2, <2>6, <3>2, <3>3, ReachesMoved
    <3> QED
      BY <3>4, <3>5
  <2>9. y[j] = x[j] /\ j + 0 = j /\ i + 0 = i /\ e + 0 = e
    BY <1>3, <2>2, <2>6
  <2> QED
    BY <2>7, <2>8, <2>9 DEF InCharacter
<1> QED
  BY <1>1, <1>2, <1>3, <1>4 DEF IsUtf8, WellFormed

\* U+FFFD is a character wherever it is.
LEMMA ReplacementWhole ==
    ASSUME NEW y \in Seq(Octet), NEW g \in Nat, g + 3 <= Len(y),
           y[g + 1] = 239, y[g + 2] = 191, y[g + 3] = 189, NEW p \in Nat, g < p, p <= g + 3
    PROVE  InCharacter(y, p)
<1>1. CharacterSize(239) = 3 /\ Second(239) = 128 .. 191
  BY DEF CharacterSize, Second
<1>2. y[g + 2] \in 128 .. 191 /\ y[g + 3] \in 128 .. 191 /\ Second(y[g + 1]) = 128 .. 191
  BY <1>1
<1>3. ASSUME NEW k \in (g + 1) + 1 .. g + 3 PROVE y[k] \in 128 .. 191
  <2>1. k = g + 2 \/ k = g + 3
    OBVIOUS
  <2> QED
    BY <1>2, <2>1
<1>4. ASSUME NEW q \in g + 1 .. g + 3 PROVE Reaches(y, g + 1, q)
  <2> DEFINE h == g + 1
  <2>1. h <= q /\ q <= Len(y) /\ q - h < CharacterSize(y[h])
    BY <1>1
  <2>2. ASSUME NEW k \in h + 1 .. q PROVE y[k] \in (IF k = h + 1 THEN Second(y[h]) ELSE 128 .. 191)
    <3>1. k \in (g + 1) + 1 .. g + 3
      OBVIOUS
    <3> QED
      BY <1>2, <1>3, <3>1
  <2> HIDE DEF h
  <2>3. Reaches(y, h, q)
    BY <2>1, <2>2 DEF Reaches
  <2> QED
    BY <2>3 DEF h
<1>5. g + 1 \in 1 .. p /\ g + 3 = (g + 1) + CharacterSize(y[g + 1]) - 1
  BY <1>1
<1>6. p \in g + 1 .. g + 3 /\ g + 3 \in g + 1 .. g + 3
  OBVIOUS
<1> QED
  BY <1>4, <1>5, <1>6 DEF InCharacter

\* What the bytes of a text contribute.
Pieces(data) == [i \in 1 .. Len(data) |-> Piece(data, i)]
PieceLengths(data) == [i \in 1 .. Len(data) |-> Len(Piece(data, i))]

\* They are bytes, at most three.
LEMMA PieceTyped ==
    ASSUME NEW data \in Seq(Octet), NEW i \in 1 .. Len(data)
    PROVE  /\ Piece(data, i) \in Seq(Octet) /\ Len(Piece(data, i)) \in Nat
           /\ Piece(data, i) \in {<< data[i] >>, << >>, Replacement}
           /\ InCharacter(data, i) => Piece(data, i) = << data[i] >>
<1>1. data[i] \in Octet
  OBVIOUS
<1>2. 239 \in Octet /\ 191 \in Octet /\ 189 \in Octet
  BY DEF Octet
<1>3. Replacement \in Seq(Octet) /\ Len(Replacement) \in Nat
  BY <1>2 DEF Replacement
<1>4. /\ << data[i] >> \in Seq(Octet) /\ Len(<< data[i] >>) \in Nat
      /\ << >> \in Seq(Octet) /\ Len(<< >>) \in Nat
  BY <1>1
<1>5. \A s \in {<< data[i] >>, << >>, Replacement} : s \in Seq(Octet) /\ Len(s) \in Nat
  BY <1>3, <1>4
<1>6. /\ Piece(data, i) \in {<< data[i] >>, << >>, Replacement}
      /\ InCharacter(data, i) => Piece(data, i) = << data[i] >>
  BY DEF Piece
<1> QED
  BY <1>5, <1>6

\* They lie in the text one after the other.
LEMMA PiecesLie ==
    ASSUME NEW data \in Seq(Octet)
    PROVE  LET e == FlattenSeq(Pieces(data))
               ends == Ends(PieceLengths(data))
               n == Len(data)
           IN  /\ e \in Seq(Octet) /\ Len(e) = ends[n] /\ ends[0] = 0 /\ n \in Nat
               /\ \A i \in 0 .. n : ends[i] \in Nat /\ ends[i] <= ends[n]
               /\ \A i \in 1 .. n : ends[i] = ends[i - 1] + Len(Piece(data, i))
               /\ \A i \in 1 .. n : \A m \in 1 .. Len(Piece(data, i)) :
                      e[ends[i - 1] + m] = Piece(data, i)[m]
<1> DEFINE outs == Pieces(data)
           sizes == PieceLengths(data)
           e == FlattenSeq(outs)
           ends == Ends(sizes)
           n == Len(data)
<1>1. n \in Nat /\ \A i \in 1 .. n : Piece(data, i) \in Seq(Octet) /\ Len(Piece(data, i)) \in Nat
  BY PieceTyped
<1>2. /\ outs \in Seq(Seq(Octet)) /\ Len(outs) = n
      /\ sizes \in Seq(Nat) /\ Len(sizes) = n
      /\ \A i \in 1 .. n : outs[i] = Piece(data, i) /\ sizes[i] = Len(Piece(data, i))
  BY <1>1 DEF Pieces, PieceLengths
<1> HIDE DEF outs, sizes
<1>3. e \in Seq(Octet) /\ Lie(outs, ends, e)
  <2>1. AreParts(outs, sizes)
    BY <1>1, <1>2 DEF AreParts
  <2> QED
    BY <1>2, <2>1, PartsLie
<1>4. /\ ends[0] = 0 /\ \A i \in 0 .. n : ends[i] \in Nat
      /\ \A i \in 1 .. n : ends[i] = ends[i - 1] + sizes[i]
      /\ \A j \in 0 .. n : \A i \in 0 .. j : ends[i] <= ends[j]
  BY <1>2, EndsSpec, EndsGrow
<1> HIDE DEF e, ends
<1>5. \A i \in 1 .. n : ends[i] = ends[i - 1] + Len(Piece(data, i))
  BY <1>2, <1>4
<1>6. Len(e) = ends[n]
  <2>1. CASE n = 0
    BY <1>2, <1>3, <1>4, <2>1 DEF Lie
  <2>2. CASE n # 0
    <3>1. n \in 1 .. n
      BY <1>1, <2>2
    <3> QED
      BY <1>2, <1>3, <1>5, <2>2, <3>1 DEF Lie
  <2> QED
    BY <2>1, <2>2
<1>7. \A i \in 0 .. n : ends[i] \in Nat /\ ends[i] <= ends[n]
  BY <1>1, <1>4
<1>8. ASSUME NEW i \in 1 .. n, NEW m \in 1 .. Len(Piece(data, i))
      PROVE  e[ends[i - 1] + m] = Piece(data, i)[m]
  <2> DEFINE a == ends[i - 1]
             l == Len(Piece(data, i))
  <2>1. i - 1 \in 0 .. n /\ i \in 0 .. n
    BY <1>1
  <2>2. a \in Nat /\ l \in Nat /\ a + l <= Len(e)
    BY <1>1, <1>5, <1>6, <1>7, <2>1
  <2>3. SubSeq(e, a + 1, a + l) = Piece(data, i)
    BY <1>2, <1>3 DEF Lie
  <2> HIDE DEF a, l
  <2>4. \A k \in a + 1 .. a + l : e[k] \in Octet
    BY <1>3, <2>2
  <2>5. \A k \in 1 .. (a + l) - (a + 1) + 1 : SubSeq(e, a + 1, a + l)[k] = e[(a + 1) + k - 1]
    BY <2>2, <2>4, SubSeqProperties
  <2>6. m \in 1 .. (a + l) - (a + 1) + 1 /\ (a + 1) + m - 1 = a + m
    BY <2>2 DEF l
  <2> QED
    BY <2>3, <2>5, <2>6 DEF a
<1> QED
  BY <1>1, <1>3, <1>4, <1>5, <1>6, <1>7, <1>8 DEF e, ends, outs, sizes

\* A character that is complete is found again in what the pieces make up.
LEMMA CharacterKept ==
    ASSUME NEW data \in Seq(Octet), NEW i \in 1 .. Len(data), InCharacter(data, i)
    PROVE  InCharacter(FlattenSeq(Pieces(data)), Ends(PieceLengths(data))[i])
<1> DEFINE e == FlattenSeq(Pieces(data))
           ends == Ends(PieceLengths(data))
           n == Len(data)
<1>1. /\ e \in Seq(Octet) /\ Len(e) = ends[n] /\ ends[0] = 0 /\ n \in Nat
      /\ \A k \in 0 .. n : ends[k] \in Nat /\ ends[k] <= ends[n]
      /\ \A k \in 1 .. n : ends[k] = ends[k - 1] + Len(Piece(data, k))
      /\ \A k \in 1 .. n : \A m \in 1 .. Len(Piece(data, k)) :
             e[ends[k - 1] + m] = Piece(data, k)[m]
  BY PiecesLie
<1> HIDE DEF e, ends
<1>2. PICK j \in 1 .. i : Reaches(data, j, i) /\ Reaches(data, j, j + CharacterSize(data[j]) - 1)
  BY DEF InCharacter
<1> DEFINE t == j + CharacterSize(data[j]) - 1
<1>3. j \in 1 .. n /\ i \in Nat /\ j \in Nat /\ j <= i /\ data[j] \in Octet /\ CharacterSize(data[j]) \in 0 .. 4
  BY <1>1, CharacterBytes
<1>4. t \in Nat /\ j <= i /\ i <= t /\ t <= n /\ t <= j + 3
  BY <1>1, <1>2, <1>3, SMTT(30) DEF Reaches
<1>5. t = j + CharacterSize(data[j]) - 1
  OBVIOUS
<1> HIDE DEF t
<1>6. ASSUME NEW k \in j .. t
      PROVE  /\ k \in 1 .. n /\ ends[k - 1] \in Nat
             /\ ends[k] = ends[k - 1] + 1 /\ e[ends[k - 1] + 1] = data[k]
  <2>1. k \in 1 .. n /\ k - 1 \in 0 .. n /\ j \in 1 .. k
    BY <1>1, <1>3, <1>4
  <2>2. Reaches(data, j, k)
    <3>1. Reaches(data, j, t)
      BY <1>2, <1>5
    <3>2. /\ t - j < CharacterSize(data[j]) /\ t <= Len(data)
          /\ \A m \in j + 1 .. t : data[m] \in (IF m = j + 1 THEN Second(data[j]) ELSE 128 .. 191)
      BY <3>1 DEF Reaches
    <3>3. j <= k /\ k <= Len(data) /\ k - j < CharacterSize(data[j])
      BY <1>1, <1>3, <1>4, <2>1, <3>2, SMTT(30)
    <3>4. \A m \in j + 1 .. k : m \in j + 1 .. t
      BY <1>3, <1>4
    <3> QED
      BY <3>2, <3>3, <3>4 DEF Reaches
  <2>3. InCharacter(data, k)
    BY <1>2, <2>1, <2>2 DEF InCharacter
  <2>4. Piece(data, k) = << data[k] >> /\ Len(Piece(data, k)) = 1 /\ Piece(data, k)[1] = data[k]
    BY <1>1, <2>1, <2>3, PieceTyped
  <2>5. ends[k - 1] \in Nat /\ ends[k] = ends[k - 1] + 1
    BY <1>1, <2>1, <2>4
  <2>6. 1 \in 1 .. Len(Piece(data, k))
    BY <2>4
  <2> QED
    BY <1>1, <2>1, <2>4, <2>5, <2>6
<1> DEFINE s == ends[j - 1] - (j - 1)
<1>7. s \in Int /\ ends[j - 1] = s + (j - 1) /\ ends[j - 1] \in Nat
  BY <1>3, <1>4, <1>6
<1> HIDE DEF s
<1>8. ASSUME NEW k \in j .. t PROVE ends[k] = k + s
  <2>1. ends[j] = j + s
    BY <1>3, <1>4, <1>6, <1>7
  <2>2. j + 1 <= t => ends[j + 1] = (j + 1) + s
    <3>1. j + 1 <= t => j + 1 \in j .. t /\ (j + 1) - 1 = j
      BY <1>3, <1>4
    <3> QED
      BY <1>3, <1>6, <1>7, <2>1, <3>1
  <2>3. j + 2 <= t => ends[j + 2] = (j + 2) + s
    <3>1. j + 2 <= t => j + 2 \in j .. t /\ (j + 2) - 1 = j + 1 /\ j + 1 <= t
      BY <1>3, <1>4
    <3> QED
      BY <1>3, <1>6, <1>7, <2>2, <3>1
  <2>4. j + 3 <= t => ends[j + 3] = (j + 3) + s
    <3>1. j + 3 <= t => j + 3 \in j .. t /\ (j + 3) - 1 = j + 2 /\ j + 2 <= t
      BY <1>3, <1>4
    <3> QED
      BY <1>3, <1>6, <1>7, <2>3, <3>1
  <2>5. k = j \/ k = j + 1 \/ k = j + 2 \/ k = j + 3
    BY <1>3, <1>4
  <2> QED
    BY <1>4, <2>1, <2>2, <2>3, <2>4, <2>5
<1>9. ASSUME NEW k \in j .. t PROVE e[k + s] = data[k]
  <2>1. ends[k] = ends[k - 1] + 1 /\ ends[k - 1] \in Nat /\ e[ends[k - 1] + 1] = data[k]
    BY <1>6
  <2>2. ends[k] = k + s
    BY <1>8
  <2> QED
    BY <2>1, <2>2
<1>10. j + s >= 1 /\ i + s <= Len(e) /\ t + s <= Len(e) /\ ends[i] = i + s
  <2>1. t \in j .. t /\ i \in j .. t /\ t \in 0 .. n /\ i \in 0 .. n
    BY <1>1, <1>3, <1>4
  <2>2. ends[t] = t + s /\ ends[i] = i + s /\ ends[t] <= Len(e) /\ ends[i] <= Len(e)
    BY <1>1, <1>8, <2>1
  <2> QED
    BY <1>3, <1>7, <2>2
<1>11. Reaches(e, j + s, i + s)
  <2>1. \A k \in j .. i : e[k + s] = data[k]
    BY <1>3, <1>4, <1>9
  <2> QED
    BY <1>1, <1>2, <1>3, <1>7, <1>10, <2>1, ReachesMoved
<1>12. Reaches(e, j + s, t + s)
  BY <1>1, <1>2, <1>3, <1>4, <1>5, <1>7, <1>9, <1>10, ReachesMoved
<1>13. e[j + s] = data[j] /\ t + s = (j + s) + CharacterSize(data[j]) - 1 /\ j + s \in 1 .. i + s
  <2>1. j \in j .. t
    BY <1>3, <1>4
  <2>2. e[j + s] = data[j]
    BY <1>9, <2>1
  <2>3. t + s = (j + s) + CharacterSize(data[j]) - 1 /\ j + s \in 1 .. i + s
    BY <1>3, <1>4, <1>5, <1>7, <1>10, SMTT(30)
  <2> QED
    BY <2>2, <2>3
<1>14. InCharacter(e, i + s)
  <2>1. Reaches(e, j + s, (j + s) + CharacterSize(e[j + s]) - 1)
    BY <1>12, <1>13
  <2> QED
    BY <1>11, <1>13, <2>1 DEF InCharacter
<1> QED
  BY <1>10, <1>14 DEF e, ends

\* Whatever the bytes are, they are made a text, without a NUL where they have none.
THEOREM ReplacedIsText ==
    ASSUME NEW data \in Seq(Octet)
    PROVE  /\ IsUtf8(Replaced(data))
           /\ (\A i \in 1 .. Len(data) : data[i] # 0)
                  => \A p \in 1 .. Len(Replaced(data)) : Replaced(data)[p] # 0
<1>1. CASE WellFormed(data)
  BY <1>1 DEF Replaced, IsUtf8
<1>2. CASE ~WellFormed(data)
  <2> DEFINE e == FlattenSeq(Pieces(data))
             ends == Ends(PieceLengths(data))
             n == Len(data)
  <2>1. Replaced(data) = e
    <3>1. DOMAIN data = 1 .. Len(data)
      OBVIOUS
    <3> QED
      BY <1>2, <3>1 DEF Replaced, Pieces
  <2>2. /\ e \in Seq(Octet) /\ Len(e) = ends[n] /\ ends[0] = 0 /\ n \in Nat
        /\ \A k \in 0 .. n : ends[k] \in Nat /\ ends[k] <= ends[n]
        /\ \A k \in 1 .. n : ends[k] = ends[k - 1] + Len(Piece(data, k))
        /\ \A k \in 1 .. n : \A m \in 1 .. Len(Piece(data, k)) :
               e[ends[k - 1] + m] = Piece(data, k)[m]
    BY PiecesLie
  <2>9. \A i \in 1 .. n : InCharacter(data, i) => InCharacter(e, ends[i])
    BY CharacterKept
  <2> HIDE DEF e, ends
  <2>3. ASSUME NEW p \in 1 .. Len(e)
        PROVE  /\ InCharacter(e, p)
               /\ (\A i \in 1 .. n : data[i] # 0) => e[p] # 0
    <3> DEFINE T == {k \in 0 .. n : p <= ends[k]}
    <3>1. PICK i \in T : \A k \in T : i <= k
      <4>1. n \in T /\ T \subseteq Nat
        BY <2>2
      <4> HIDE DEF T
      <4> QED
        BY <4>1, LeastNumber
    <3>2. i \in 1 .. n /\ ends[i - 1] < p /\ p <= ends[i] /\ ends[i - 1] \in Nat /\ ends[i] \in Nat
      <4>1. i # 0 /\ i \in 0 .. n /\ p <= ends[i]
        BY <2>2, <3>1
      <4>2. i - 1 \in 0 .. n /\ i - 1 \notin T
        BY <2>2, <3>1, <4>1
      <4> QED
        BY <2>2, <4>1, <4>2
    <3> DEFINE g == ends[i - 1]
    <3>3. /\ ends[i] = g + Len(Piece(data, i)) /\ g \in Nat /\ g < p /\ p <= ends[i] /\ ends[i] <= Len(e)
          /\ \A m \in 1 .. Len(Piece(data, i)) : e[g + m] = Piece(data, i)[m]
      BY <2>2, <3>2
    <3> HIDE DEF g, T
    <3>4. CASE InCharacter(data, i)
      <4>1. Piece(data, i) = << data[i] >> /\ Len(Piece(data, i)) = 1 /\ Piece(data, i)[1] = data[i]
        BY <3>2, <3>4, PieceTyped
      <4>2. p = g + 1 /\ p = ends[i] /\ e[g + 1] = data[i]
        BY <3>3, <4>1
      <4> QED
        BY <2>9, <3>2, <3>4, <4>2
    <3>5. CASE ~InCharacter(data, i)
      <4>1. Piece(data, i) = Replacement
        <5>1. Piece(data, i) = << >> \/ Piece(data, i) = Replacement
          BY <3>5 DEF Piece
        <5>2. Piece(data, i) # << >>
          BY <3>3
        <5> QED
          BY <5>1, <5>2
      <4>2. /\ Len(Piece(data, i)) = 3 /\ Piece(data, i)[1] = 239
            /\ Piece(data, i)[2] = 191 /\ Piece(data, i)[3] = 189
        BY <4>1 DEF Replacement
      <4>3. e[g + 1] = 239 /\ e[g + 2] = 191 /\ e[g + 3] = 189 /\ g + 3 <= Len(e) /\ p <= g + 3 /\ p \in Nat
        BY <2>2, <3>3, <4>2
      <4>4. InCharacter(e, p)
        BY <2>2, <3>3, <4>3, ReplacementWhole
      <4>5. p = g + 1 \/ p = g + 2 \/ p = g + 3
        BY <3>3, <4>3
      <4> QED
        BY <4>3, <4>4, <4>5
    <3> QED
      BY <3>4, <3>5
  <2>4. WellFormed(e)
    <3>1. DOMAIN e = 1 .. Len(e)
      BY <2>2
    <3> QED
      BY <2>3, <3>1 DEF WellFormed
  <2> QED
    BY <2>1, <2>2, <2>3, <2>4 DEF IsUtf8
<1> QED
  BY <1>1, <1>2

\* What is before the first NUL.
LEMMA BeforeNulCut ==
    ASSUME NEW s \in Seq(Octet)
    PROVE  CutAtNul(s, BeforeNul(s))
<1> DEFINE before == {n \in 0 .. Len(s) : \A i \in 1 .. n : s[i] # 0}
           T == {k \in 0 .. Len(s) : Len(s) - k \in before}
<1>1. Len(s) \in Nat
  OBVIOUS
<1>2. 0 \in before
  BY <1>1
<1>3. Len(s) \in T
  BY <1>1, <1>2
<1>4. T \subseteq Nat
  BY <1>1
<1>5. PICK k \in T : \A j \in T : k <= j
  <2> HIDE DEF T
  <2> QED
    BY <1>3, <1>4, LeastNumber
<1>6. \A m \in before : m <= Len(s) - k
  <2> SUFFICES ASSUME NEW m \in before PROVE m <= Len(s) - k
    OBVIOUS
  <2>1. m \in 0 .. Len(s) /\ Len(s) - (Len(s) - m) = m
    BY <1>1
  <2>2. Len(s) - m \in T
    BY <1>1, <2>1
  <2>3. k <= Len(s) - m /\ k \in Nat
    <3> HIDE DEF T
    <3> QED
      BY <1>4, <1>5, <2>2
  <2> QED
    BY <1>1, <2>1, <2>3
<1>7. Len(s) - k \in before
  BY <1>5
<1> DEFINE n == CHOOSE n \in before : \A m \in before : m <= n
<1>8. n \in before /\ \A m \in before : m <= n
  <2> HIDE DEF before
  <2> QED
    BY <1>6, <1>7
<1>9. BeforeNul(s) = SubSeq(s, 1, n)
  BY DEF BeforeNul
<1> HIDE DEF n
<1>10. n \in 0 .. Len(s) /\ \A i \in 1 .. n : s[i] # 0
  BY <1>8
<1>11. ASSUME n < Len(s), s[n + 1] # 0 PROVE FALSE
  <2>1. n + 1 \in 0 .. Len(s) /\ \A i \in 1 .. n + 1 : i \in 1 .. n \/ i = n + 1
    BY <1>1, <1>10, <1>11
  <2>2. n + 1 \in before
    BY <1>10, <1>11, <2>1
  <2>3. n + 1 <= n
    BY <1>8, <2>2
  <2> QED
    BY <1>10, <2>3
<1> QED
  BY <1>9, <1>10, <1>11 DEF CutAtNul

\* Nothing is cut of a text without a NUL.
LEMMA NothingToCut ==
    ASSUME NEW x \in Seq(Octet), \A i \in 1 .. Len(x) : x[i] # 0, NEW y, CutAtNul(x, y)
    PROVE  y = x
<1>1. PICK n \in 0 .. Len(x) : y = SubSeq(x, 1, n) /\ (n < Len(x) => x[n + 1] = 0)
  BY DEF CutAtNul
<1>2. n = Len(x)
  <2>1. Len(x) \in Nat
    OBVIOUS
  <2>2. n < Len(x) => n + 1 \in 1 .. Len(x)
    BY <2>1
  <2> QED
    BY <1>1, <2>1, <2>2
<1> QED
  BY <1>1, <1>2, SubSeqFull

\* What is cut off at a NUL is a text without one, and not longer.
LEMMA CutTyped ==
    ASSUME NEW x \in Seq(Octet), NEW y, CutAtNul(x, y)
    PROVE  y \in Seq(Octet) /\ Len(y) <= Len(x) /\ \A i \in 1 .. Len(y) : y[i] # 0
<1>1. PICK n \in 0 .. Len(x) : y = SubSeq(x, 1, n) /\ \A i \in 1 .. n : x[i] # 0
  BY DEF CutAtNul
<1>2. Len(x) \in Nat /\ \A i \in 1 .. n : x[i] \in Octet
  OBVIOUS
<1>3. y \in Seq(Octet) /\ Len(y) = n /\ \A i \in 1 .. n : y[i] = x[i]
  BY <1>1, <1>2, SubSeqProperties
<1> QED
  BY <1>1, <1>2, <1>3

\* A text is one whatever it is read from, and has no NUL; it is what is before the NUL
\* where that is well-formed.
THEOREM TextIsText ==
    ASSUME NEW data \in Seq(Octet)
    PROVE  /\ IsUtf8(Text(data)) /\ Text(data) \in Seq(Octet) /\ Len(Text(data)) \in Nat
           /\ \A i \in 1 .. Len(Text(data)) : Text(data)[i] # 0
           /\ WellFormed(BeforeNul(data)) => /\ CutAtNul(data, Text(data))
                                             /\ Len(Text(data)) <= Len(data)
<1> DEFINE x == BeforeNul(data)
<1>1. CutAtNul(data, x) /\ x \in Seq(Octet) /\ Len(x) <= Len(data) /\ \A i \in 1 .. Len(x) : x[i] # 0
  BY BeforeNulCut, CutTyped
<1>2. Text(data) = Replaced(x) /\ (WellFormed(x) => Replaced(x) = x)
  BY DEF Text, Replaced
<1> HIDE DEF x
<1>3. IsUtf8(Replaced(x)) /\ \A i \in 1 .. Len(Replaced(x)) : Replaced(x)[i] # 0
  BY <1>1, ReplacedIsText
<1>4. Text(data) \in Seq(Octet) /\ Len(Text(data)) \in Nat
  BY <1>2, <1>3 DEF IsUtf8
<1>5. WellFormed(x) => CutAtNul(data, Text(data)) /\ Len(Text(data)) <= Len(data)
  BY <1>1, <1>2
<1>6. x = BeforeNul(data)
  BY DEF x
<1> QED
  BY <1>2, <1>3, <1>4, <1>5, <1>6

\* A well-formed text is read up to its first NUL, wherever it was put.
LEMMA TextCut ==
    ASSUME NEW s, IsUtf8(s), NEW data, CutAtNul(s, BeforeNul(data))
    PROVE  CutAtNul(s, Text(data))
<1>1. IsUtf8(BeforeNul(data))
  BY CutWellFormed
<1>2. Text(data) = BeforeNul(data)
  BY <1>1 DEF Text, Replaced, IsUtf8
<1> QED
  BY <1>2

\* A text in fifteen bytes is that short.
LEMMA RoomWithNul == ASSUME NEW l \in 0 .. 15 PROVE l \in Int /\ l <= 15
OBVIOUS

\* A shorter one has room for its NUL.
LEMMA RoomForNul == ASSUME NEW l \in Nat, l <= 15, l # 15 PROVE l + 1 \in 0 .. 15
OBVIOUS

\* A string that fits reads back up to its first NUL, terminated or not.
THEOREM TextRoundTrip ==
    ASSUME NEW s, IsUtf8(s), Len(s) <= Ddm1!STRING_MAX_LENGTH
    PROVE  /\ Ddm1!Terminated(s) \in Seq(Octet)
           /\ Len(Ddm1!Terminated(s)) \in 0 .. Ddm1!STRING_MAX_LENGTH
           /\ CutAtNul(s, Ddm1!Text(Ddm1!Terminated(s)))
<1>5. s \in Seq(Octet)
  BY DEF IsUtf8
<1>1. Ddm1!STRING_MAX_LENGTH = 15 /\ Len(s) \in Nat
  BY <1>5 DEF Ddm1!STRING_MAX_LENGTH
<1>4. Len(s) <= 15
  BY <1>1
<1>2. CASE Len(s) = 15
  <2>1. Ddm1!Terminated(s) = s
    BY <1>1, <1>2 DEF Ddm1!Terminated
  <2>2. CutAtNul(s, Ddm1!Text(s))
    BY <1>5, BeforeNulCut, TextCut, SameText
  <2> QED
    BY <1>1, <1>2, <1>5, <2>1, <2>2
<1>3. CASE Len(s) # 15
  <2> DEFINE t == Append(s, 0)
  <2>1. /\ 0 \in Octet /\ t \in Seq(Octet) /\ Len(t) = Len(s) + 1
        /\ \A i \in 1 .. Len(s) : t[i] = s[i]
        /\ t[Len(s) + 1] = 0
    BY <1>5 DEF Octet
  <2>2. Ddm1!Terminated(s) = t
    BY <1>1, <1>3 DEF Ddm1!Terminated
  <2> HIDE DEF t
  <2>3. PICK n \in 0 .. Len(t) : /\ BeforeNul(t) = SubSeq(t, 1, n)
                                 /\ \A i \in 1 .. n : t[i] # 0
                                 /\ n < Len(t) => t[n + 1] = 0
    BY <2>1, BeforeNulCut DEF CutAtNul
  <2>4. n \in 0 .. Len(s)
    <3>1. n = Len(s) + 1 => Len(s) + 1 \in 1 .. n
      BY <1>1
    <3> QED
      BY <1>1, <2>1, <2>3, <3>1
  <2>5. SubSeq(t, 1, n) = SubSeq(s, 1, n)
    <3>1. (\A i \in 1 .. n : t[i] \in Octet) /\ (\A i \in 1 .. n : s[i] \in Octet)
          /\ \A i \in 1 .. n : t[i] = s[i]
      BY <1>1, <1>5, <2>1, <2>4
    <3>2. /\ SubSeq(t, 1, n) \in Seq(Octet) /\ Len(SubSeq(t, 1, n)) = n
          /\ \A i \in 1 .. n : SubSeq(t, 1, n)[i] = t[i]
      BY <2>4, <3>1, SubSeqProperties
    <3>3. /\ SubSeq(s, 1, n) \in Seq(Octet) /\ Len(SubSeq(s, 1, n)) = n
          /\ \A i \in 1 .. n : SubSeq(s, 1, n)[i] = s[i]
      BY <2>4, <3>1, SubSeqProperties
    <3> QED
      BY <3>1, <3>2, <3>3, SeqEqual
  <2>6. \A i \in 1 .. n : s[i] # 0
    BY <1>1, <2>1, <2>3, <2>4
  <2>7. n < Len(s) => s[n + 1] = 0
    BY <1>1, <2>1, <2>3, <2>4
  <2>10. CutAtNul(s, BeforeNul(t))
    BY <2>3, <2>4, <2>5, <2>6, <2>7 DEF CutAtNul
  <2>8. CutAtNul(s, Ddm1!Text(t))
    BY <2>10, TextCut, SameText
  <2>9. Len(t) \in 0 .. 15
    BY <1>1, <1>4, <1>3, <2>1, RoomForNul
  <2> QED
    BY <1>1, <2>1, <2>2, <2>8, <2>9
<1> QED
  BY <1>2, <1>3

-----------------------------------------------------------------------------
(* Two bytes as a part of more.                                            *)

\* What a number is read from is its first two bytes.
LEMMA TwoBytesRead ==
    ASSUME NEW b, NEW lo, NEW hi, IsByte(lo), IsByte(hi), b[1] = lo, b[2] = hi
    PROVE  /\ Ddm1!ToInt16(b) = Ddm1!ToInt16(<< lo, hi >>)
           /\ IsInt16(Ddm1!ToInt16(b))
           /\ Ddm1!DeciFits(Ddm1!FromDeci(b)) /\ Ddm1!FromDeci(b) \in Int
           /\ Ddm1!DeciBytes(Ddm1!FromDeci(b)) = << lo, hi >>
<1>1. Ddm1!ToInt16(b) = Ddm1!ToInt16(<< lo, hi >>)
  BY DEF Ddm1!ToInt16
<1>2. Ddm1!FromDeci(b) = Ddm1!FromDeci(<< lo, hi >>)
  BY <1>1 DEF Ddm1!FromDeci
<1>3. IsInt16(Ddm1!ToInt16(b))
  BY <1>1, Int16WriteBack
<1>4. Ddm1!FromDeci(b) \in Int
  BY <1>3 DEF Ddm1!FromDeci, IsInt16
<1> QED
  BY <1>1, <1>2, <1>3, <1>4, DeciWriteBack

\* What a number is written as are two bytes, which read as it.
LEMMA TwoBytesWritten ==
    ASSUME NEW raw, IsInt16(raw)
    PROVE  /\ Ddm1!Int16(raw) \in Seq(Octet) /\ Len(Ddm1!Int16(raw)) = 2
           /\ \A b : b[1] = Ddm1!Int16(raw)[1] /\ b[2] = Ddm1!Int16(raw)[2]
                         => Ddm1!ToInt16(b) = raw
<1>1. /\ IsByte(Ddm1!Int16(raw)[1]) /\ IsByte(Ddm1!Int16(raw)[2])
      /\ Ddm1!ToInt16(Ddm1!Int16(raw)) = raw
  BY Int16RoundTrip
<1> DEFINE lo == raw % 256
           hi == (raw \div 256) % 256
<1>2. Ddm1!Int16(raw) = << lo, hi >>
  BY DEF Ddm1!Int16
<1> HIDE DEF lo, hi
<1>3. lo \in Octet /\ hi \in Octet
  BY <1>1, <1>2 DEF IsByte, Octet
<1>4. << lo, hi >> \in Seq(Octet) /\ Len(<< lo, hi >>) = 2
  BY <1>3
<1> QED
  BY <1>1, <1>2, <1>4 DEF Ddm1!ToInt16

\* A pair of bytes cut out of more.
LEMMA SubSeqOfTwo ==
    ASSUME NEW s \in Seq(Octet), NEW m \in 1 .. Len(s) - 1
    PROVE  /\ SubSeq(s, m, m + 1)[1] = s[m] /\ SubSeq(s, m, m + 1)[2] = s[m + 1]
           /\ IsByte(s[m]) /\ IsByte(s[m + 1])
<1>1. Len(s) \in Nat /\ m \in 1 .. Len(s) /\ m + 1 \in 1 .. Len(s)
  OBVIOUS
<1>2. s[m] \in Octet /\ s[m + 1] \in Octet
  BY <1>1
<1>3. \A i \in m .. m + 1 : s[i] \in Octet
  BY <1>1
<1> DEFINE t == SubSeq(s, m, m + 1)
<1>4. \A i \in 1 .. (m + 1) - m + 1 : t[i] = s[m + i - 1]
  BY <1>1, <1>3, SubSeqProperties
<1> HIDE DEF t
<1>5. \A i \in 1 .. 2 : t[i] = s[m + i - 1]
  BY <1>4
<1>6. t[1] = s[m] /\ t[2] = s[m + 1]
  BY <1>5
<1>8. \A b \in Octet : IsByte(b)
  BY DEF IsByte, Octet
<1>7. IsByte(s[m]) /\ IsByte(s[m + 1])
  BY <1>2, <1>8
<1> QED
  BY <1>6, <1>7 DEF t

-----------------------------------------------------------------------------
(* Every kind of value there is, written and read back.                    *)

\* A boolean is written as 0 or 1 and read as what it is.
LEMMA BooleanRoundTrip ==
    ASSUME NEW v
    PROVE  LET b == Ddm1!Bytes("INT8_BOOLEAN", v)
           IN  /\ Len(b) = 1
               /\ Ddm1!Decoded("INT8_BOOLEAN", b).of = IF v.of = 0 THEN 0 ELSE 1
<1> DEFINE x == IF v.of = 0 THEN 0 ELSE 1
<1>1. Ddm1!Bytes("INT8_BOOLEAN", v) = << x >>
  BY DEF Ddm1!Bytes, Ddm1!DeciKinds
<1>2. (IF x = 0 THEN 0 ELSE 1) = x
  OBVIOUS
<1> HIDE DEF x
<1>3. Ddm1!Decoded("INT8_BOOLEAN", << x >>).of = x
  BY <1>2 DEF Ddm1!Decoded, Ddm1!Value, Ddm1!DeciKinds
<1> QED
  BY <1>1, <1>3 DEF x

\* A number of one byte is read as what it is, signed or not.
LEMMA NumberRoundTrip ==
    ASSUME NEW kind \in {"INT8_NUMBER", "UINT8_NUMBER"}, NEW v, v.of \in Int, Ddm1!Fits(kind, v)
    PROVE  LET b == Ddm1!Bytes(kind, v)
           IN  Len(b) = 1 /\ Ddm1!Decoded(kind, b).of = v.of
<1> DEFINE n == v.of
           h == n % 256
<1>1. Ddm1!Bytes(kind, v) = << h >>
  BY DEF Ddm1!Bytes, Ddm1!DeciKinds
<1>2. IsByte(h)
  BY Split256
<1>5. n \in Int
  OBVIOUS
<1>3. CASE kind = "INT8_NUMBER"
  <2>1. n >= -128 /\ n <= 127
    BY <1>3 DEF Ddm1!Fits, Ddm1!DeciKinds
  <2>2. h = IF n < 0 THEN n + 256 ELSE n
    BY <2>1, SmallMod, NegativeMod DEF IsByte
  <2> HIDE DEF h, n
  <2>3. (IF h < 128 THEN h ELSE h - 256) = n
    BY <1>5, <2>1, <2>2 DEF IsByte
  <2>4. Ddm1!Decoded(kind, << h >>).of = IF h < 128 THEN h ELSE h - 256
    BY <1>3 DEF Ddm1!Decoded, Ddm1!Value, Ddm1!DeciKinds
  <2> QED
    BY <1>1, <2>3, <2>4 DEF n
<1>4. CASE kind = "UINT8_NUMBER"
  <2>1. IsByte(n)
    BY <1>4 DEF Ddm1!Fits, Ddm1!DeciKinds, IsByte
  <2>2. h = n
    BY <2>1, SmallMod
  <2> HIDE DEF h
  <2>3. Ddm1!Decoded(kind, << h >>).of = h
    BY <1>4 DEF Ddm1!Decoded, Ddm1!Value, Ddm1!DeciKinds
  <2> QED
    BY <1>1, <2>2, <2>3
<1> QED
  BY <1>3, <1>4

\* A temperature or voltage is read within half of a tenth.
LEMMA DeciKindRoundTrip ==
    ASSUME NEW kind \in Ddm1!DeciKinds, NEW v, v.of \in Int, Ddm1!Fits(kind, v)
    PROVE  LET b == Ddm1!Bytes(kind, v)
           IN  Len(b) = 2 /\ Within(Ddm1!Hundredths(v), Ddm1!Decoded(kind, b).of, 5)
<1> DEFINE x == Ddm1!Hundredths(v)
           b == Ddm1!DeciBytes(x)
<1>1. x \in Int
  BY DEF Ddm1!Hundredths
<1>2. Ddm1!DeciFits(x) /\ Ddm1!Bytes(kind, v) = b
  BY DEF Ddm1!Fits, Ddm1!Bytes, Ddm1!DeciKinds
<1> HIDE DEF x
<1>3. Within(x, Ddm1!FromDeci(b), 5)
  BY <1>1, <1>2, DeciRoundTrip DEF Within
<1>4. Len(b) = 2
  BY DEF Ddm1!DeciBytes, Ddm1!Int16
<1> HIDE DEF b
<1>5. Ddm1!Decoded(kind, b).of = Ddm1!FromDeci(b)
  BY DEF Ddm1!Decoded, Ddm1!Value, Ddm1!DeciKinds
<1> QED
  BY <1>2, <1>3, <1>4, <1>5 DEF x

\* What a temperature is written as are two bytes, read within half of a tenth.
LEMMA DeciWritten ==
    ASSUME NEW v \in Int, Ddm1!DeciFits(v)
    PROVE  /\ Ddm1!DeciBytes(v) \in Seq(Octet) /\ Len(Ddm1!DeciBytes(v)) = 2
           /\ \A b : b[1] = Ddm1!DeciBytes(v)[1] /\ b[2] = Ddm1!DeciBytes(v)[2]
                     => Ddm1!FromDeci(b) = 10 * Ddm1!Tenths(v) /\ Within(v, Ddm1!FromDeci(b), 5)
<1>1. IsInt16(Ddm1!Tenths(v)) /\ Ddm1!DeciBytes(v) = Ddm1!Int16(Ddm1!Tenths(v))
  BY TenthsIsNearest DEF Ddm1!DeciFits, Ddm1!DeciBytes, IsInt16
<1>2. Within(v, 10 * Ddm1!Tenths(v), 5)
  BY TenthsIsNearest DEF Within
<1>3. \A b : b[1] = Ddm1!DeciBytes(v)[1] /\ b[2] = Ddm1!DeciBytes(v)[2]
            => Ddm1!FromDeci(b) = 10 * Ddm1!Tenths(v)
  BY <1>1, TwoBytesWritten DEF Ddm1!FromDeci
<1> QED
  BY <1>1, <1>2, <1>3, TwoBytesWritten

\* A sample is written as two bytes, None as the sentinel.
LEMMA SampleWritten ==
    ASSUME NEW s \in Sample1, \A v \in s : Ddm1!DeciFits(v)
    PROVE  /\ Ddm1!SampleBytes(s) \in Seq(Octet) /\ Len(Ddm1!SampleBytes(s)) = 2
           /\ \A b : b[1] = Ddm1!SampleBytes(s)[1] /\ b[2] = Ddm1!SampleBytes(s)[2]
                     => SameSample(s, Ddm1!Sample(b))
<1>1. CASE s = {}
  <2>1. IsInt16(Ddm1!HISTORY_NO_SAMPLE)
    BY DEF IsInt16, Ddm1!HISTORY_NO_SAMPLE
  <2>2. Ddm1!SampleBytes(s) = Ddm1!Int16(Ddm1!HISTORY_NO_SAMPLE)
    BY <1>1 DEF Ddm1!SampleBytes
  <2>3. ASSUME NEW b, b[1] = Ddm1!SampleBytes(s)[1], b[2] = Ddm1!SampleBytes(s)[2]
        PROVE  SameSample(s, Ddm1!Sample(b))
    <3>1. Ddm1!ToInt16(b) = Ddm1!HISTORY_NO_SAMPLE
      BY <2>1, <2>2, <2>3, TwoBytesWritten
    <3>2. Ddm1!Sample(b) = {}
      BY <3>1 DEF Ddm1!Sample
    <3> QED
      BY <1>1, <3>2 DEF SameSample
  <2> QED
    BY <2>1, <2>2, <2>3, TwoBytesWritten
<1>2. CASE s # {}
  <2>1. PICK v \in Int : s = {v}
    BY <1>2 DEF Sample1
  <2>2. Ddm1!DeciFits(v)
    BY <2>1
  <2>3. Ddm1!SampleBytes(s) = Ddm1!DeciBytes(v)
    BY <2>1 DEF Ddm1!SampleBytes
  <2>4. ASSUME NEW b, b[1] = Ddm1!SampleBytes(s)[1], b[2] = Ddm1!SampleBytes(s)[2]
        PROVE  SameSample(s, Ddm1!Sample(b))
    <3> DEFINE w == Ddm1!FromDeci(b)
    <3>1. w = 10 * Ddm1!Tenths(v) /\ Within(v, w, 5)
      BY <2>2, <2>3, <2>4, DeciWritten
    <3>2. CASE Ddm1!ToInt16(b) = -32768
      <4>1. w = -327680
        BY <3>2 DEF Ddm1!FromDeci
      <4>2. Ddm1!Sample(b) = {}
        BY <3>2 DEF Ddm1!Sample, Ddm1!HISTORY_NO_SAMPLE
      <4> QED
        BY <2>1, <3>1, <4>1, <4>2 DEF SameSample
    <3>3. CASE Ddm1!ToInt16(b) # -32768
      <4>1. Ddm1!Sample(b) = {w}
        BY <3>3 DEF Ddm1!Sample, Ddm1!HISTORY_NO_SAMPLE
      <4> QED
        BY <2>1, <3>1, <4>1 DEF SameSample
    <3> QED
      BY <3>2, <3>3
  <2> QED
    BY <2>2, <2>3, <2>4, DeciWritten
<1> QED
  BY <1>1, <1>2

\* Two pairs of bytes, one after the other.
LEMMA TwoAndTwo ==
    ASSUME NEW x \in Seq(Octet), NEW y \in Seq(Octet), Len(x) = 2, Len(y) = 2
    PROVE  /\ x \o y \in Seq(Octet) /\ Len(x \o y) = 4
           /\ (x \o y)[1] = x[1] /\ (x \o y)[2] = x[2]
           /\ (x \o y)[3] = y[1] /\ (x \o y)[4] = y[2]
<1>1. /\ x \o y \in Seq(Octet) /\ Len(x \o y) = Len(x) + Len(y)
      /\ \A i \in 1 .. Len(x) + Len(y) :
            (x \o y)[i] = IF i <= Len(x) THEN x[i] ELSE y[i - Len(x)]
  BY ConcatProperties
<1> DEFINE b == x \o y
<1> HIDE DEF b
<1>2. \A i \in 1 .. 4 : b[i] = IF i <= 2 THEN x[i] ELSE y[i - 2]
  BY <1>1 DEF b
<1>3. b[1] = x[1] /\ b[2] = x[2]
  BY <1>2
<1>4. b[3] = y[1] /\ b[4] = y[2]
  BY <1>2
<1> QED
  BY <1>1, <1>3, <1>4 DEF b

\* Two temperatures are read as the same two, in their order.
LEMMA PairRoundTrip ==
    ASSUME NEW v, v.of \in Int \X Int, Ddm1!Fits("INT16_ARRAY", v)
    PROVE  LET b == Ddm1!Bytes("INT16_ARRAY", v)
           IN  Len(b) = 4 /\ \A i \in 1 .. 2 :
                                 Within(v.of[i], Ddm1!Decoded("INT16_ARRAY", b).of[i], 5)
<1> DEFINE x == v.of[1]
           y == v.of[2]
           bx == Ddm1!DeciBytes(x)
           by == Ddm1!DeciBytes(y)
           b == bx \o by
<1>1. x \in Int /\ y \in Int
  OBVIOUS
<1>2. Ddm1!DeciFits(x) /\ Ddm1!DeciFits(y)
  BY DEF Ddm1!Fits, Ddm1!DeciKinds
<1>3. Ddm1!Bytes("INT16_ARRAY", v) = b
  BY DEF Ddm1!Bytes, Ddm1!DeciKinds
<1> HIDE DEF x, y
<1>4. /\ bx \in Seq(Octet) /\ Len(bx) = 2
      /\ \A c : c[1] = bx[1] /\ c[2] = bx[2] => Within(x, Ddm1!FromDeci(c), 5)
  BY <1>1, <1>2, DeciWritten
<1>5. /\ by \in Seq(Octet) /\ Len(by) = 2
      /\ \A c : c[1] = by[1] /\ c[2] = by[2] => Within(y, Ddm1!FromDeci(c), 5)
  BY <1>1, <1>2, DeciWritten
<1> HIDE DEF bx, by
<1>6. /\ b \in Seq(Octet) /\ Len(b) = 4
      /\ b[1] = bx[1] /\ b[2] = bx[2] /\ b[3] = by[1] /\ b[4] = by[2]
  BY <1>4, <1>5, TwoAndTwo
<1> HIDE DEF b
<1>7. Within(x, Ddm1!FromDeci(SubSeq(b, 1, 2)), 5)
  <2>1. SubSeq(b, 1, 2)[1] = b[1] /\ SubSeq(b, 1, 2)[2] = b[2]
    <3>1. 1 \in 1 .. Len(b) - 1 /\ 1 + 1 = 2
      BY <1>6
    <3> QED
      BY <1>6, <3>1, SubSeqOfTwo
  <2> QED
    BY <1>4, <1>6, <2>1
<1>8. Within(y, Ddm1!FromDeci(SubSeq(b, 3, 4)), 5)
  <2>1. SubSeq(b, 3, 4)[1] = b[3] /\ SubSeq(b, 3, 4)[2] = b[4]
    <3>1. 3 \in 1 .. Len(b) - 1 /\ 3 + 1 = 4
      BY <1>6
    <3> QED
      BY <1>6, <3>1, SubSeqOfTwo
  <2> QED
    BY <1>5, <1>6, <2>1
<1>9. Ddm1!Decoded("INT16_ARRAY", b).of
          = << Ddm1!FromDeci(SubSeq(b, 1, 2)), Ddm1!FromDeci(SubSeq(b, 3, 4)) >>
  BY DEF Ddm1!Decoded, Ddm1!Value, Ddm1!DeciKinds
<1> HIDE DEF Within
<1> QED
  BY <1>3, <1>6, <1>7, <1>8, <1>9 DEF x, y

\* A function on 1 .. n is a sequence.
LEMMA FunctionIsSequence ==
    ASSUME NEW S, NEW n \in Nat, NEW f \in [1 .. n -> S]
    PROVE  f \in Seq(S) /\ Len(f) = n
OBVIOUS

\* The bytes of the samples of a history lie in pairs.
LEMMA PairsOfBytes ==
    ASSUME NEW j \in 1 .. 7
    PROVE  /\ 2 * j - 1 \in 1 .. 14 /\ 2 * j \in 1 .. 14
           /\ (2 * j - 1 + 1) \div 2 = j /\ 2 - ((2 * j - 1) % 2) = 1
           /\ (2 * j + 1) \div 2 = j /\ 2 - ((2 * j) % 2) = 2
OBVIOUS

\* Each of the fourteen bytes of a history is in one of its seven pairs.
LEMMA EveryByteInAPair ==
    ASSUME NEW i \in 1 .. 14
    PROVE  (i + 1) \div 2 \in 1 .. 7 /\ 2 - (i % 2) \in 1 .. 2
OBVIOUS

\* Seven samples and the trailer of a history are read as the same, in their
\* order.
LEMMA HistoryRoundTrip ==
    ASSUME NEW v, v.of \in [values : Seq(Sample1), trailer : Int],
           Ddm1!Fits("HISTORY_DATA_ARRAY", v)
    PROVE  LET b == Ddm1!Bytes("HISTORY_DATA_ARRAY", v)
               d == Ddm1!Decoded("HISTORY_DATA_ARRAY", b)
           IN  /\ Len(b) = 15
               /\ \A i \in 1 .. 7 : SameSample(v.of.values[i], d.of.values[i])
               /\ d.of.trailer = v.of.trailer
<1> DEFINE s == v.of.values
           w == v.of.trailer
           b == [i \in 1 .. 15 |-> IF i = 15 THEN w
                                   ELSE Ddm1!SampleBytes(s[(i + 1) \div 2])[2 - (i % 2)]]
<1>1. Len(s) = 7 /\ (\A i \in 1 .. 7 : \A x \in s[i] : Ddm1!DeciFits(x)) /\ w \in 0 .. 255
  BY DEF Ddm1!Fits, Ddm1!HISTORY_VALUES, Ddm1!DeciKinds
<1>2. s \in Seq(Sample1)
  OBVIOUS
<1>3. Ddm1!Bytes("HISTORY_DATA_ARRAY", v) = b
  BY DEF Ddm1!Bytes, Ddm1!HISTORY_VALUES, Ddm1!HISTORY_LENGTH, Ddm1!DeciKinds
<1> HIDE DEF s, w
<1>4. ASSUME NEW j \in 1 .. 7
      PROVE  /\ s[j] \in Sample1
             /\ Ddm1!SampleBytes(s[j]) \in Seq(Octet) /\ Len(Ddm1!SampleBytes(s[j])) = 2
             /\ \A c : c[1] = Ddm1!SampleBytes(s[j])[1] /\ c[2] = Ddm1!SampleBytes(s[j])[2]
                       => SameSample(s[j], Ddm1!Sample(c))
  <2>1. s[j] \in Sample1
    <3>1. Len(s) = 7
      BY <1>1
    <3> HIDE DEF b
    <3> QED
      BY <1>2, <3>1, LenProperties
  <2>2. \A x \in s[j] : Ddm1!DeciFits(x)
    BY <1>1
  <2> QED
    BY <2>1, <2>2, SampleWritten
<1>5. \A i \in 1 .. 15 : b[i] \in Octet
  <2> SUFFICES ASSUME NEW i \in 1 .. 15 PROVE b[i] \in Octet
    OBVIOUS
  <2>1. CASE i = 15
    BY <1>1, <2>1 DEF Octet
  <2>2. CASE i # 15
    <3>1. i \in 1 .. 14
      BY <2>2
    <3>2. PICK j \in 1 .. 7, k \in 1 .. 2 : j = (i + 1) \div 2 /\ k = 2 - (i % 2)
      BY <3>1, EveryByteInAPair
    <3>3. b[i] = Ddm1!SampleBytes(s[j])[k]
      BY <2>2, <3>2
    <3> QED
      BY <1>4, <3>3, SMTT(30)
  <2> QED
    BY <2>1, <2>2
<1>6. b \in Seq(Octet) /\ Len(b) = 15
  <2>1. b \in [1 .. 15 -> Octet]
    BY <1>5
  <2> QED
    BY <2>1, FunctionIsSequence
<1>7. ASSUME NEW j \in 1 .. 7
      PROVE  /\ b[2 * j - 1] = Ddm1!SampleBytes(s[j])[1]
             /\ b[2 * j] = Ddm1!SampleBytes(s[j])[2]
  <2> DEFINE m == 2 * j - 1
             n == 2 * j
  <2>1. /\ m \in 1 .. 14 /\ n \in 1 .. 14
        /\ (m + 1) \div 2 = j /\ 2 - (m % 2) = 1
        /\ (n + 1) \div 2 = j /\ 2 - (n % 2) = 2
    BY PairsOfBytes
  <2> HIDE DEF m, n
  <2>2. b[m] = Ddm1!SampleBytes(s[j])[1]
    BY <2>1
  <2>3. b[n] = Ddm1!SampleBytes(s[j])[2]
    BY <2>1
  <2> QED
    BY <2>2, <2>3 DEF m, n
<1>8. b[15] = w
  OBVIOUS
<1> HIDE DEF b
<1> DEFINE d == [values |-> [i \in 1 .. 7 |-> Ddm1!Sample(SubSeq(b, 2 * i - 1, 2 * i))],
                 trailer |-> b[15]]
<1>9. Ddm1!Decoded("HISTORY_DATA_ARRAY", b).of = d
  BY SMTT(30) DEF Ddm1!Decoded, Ddm1!Value, Ddm1!HISTORY_VALUES, Ddm1!HISTORY_LENGTH, Ddm1!DeciKinds
<1>10. ASSUME NEW j \in 1 .. 7
       PROVE  SameSample(s[j], d.values[j])
  <2> DEFINE m == 2 * j - 1
             c == SubSeq(b, m, m + 1)
  <2>1. m \in 1 .. Len(b) - 1 /\ m + 1 = 2 * j
    BY <1>6
  <2>2. d.values[j] = Ddm1!Sample(c)
    BY <2>1
  <2>3. c[1] = b[m] /\ c[2] = b[m + 1]
    <3> HIDE DEF m
    <3> QED
      BY <1>6, <2>1, SubSeqOfTwo
  <2>4. c[1] = Ddm1!SampleBytes(s[j])[1] /\ c[2] = Ddm1!SampleBytes(s[j])[2]
    BY <1>7, <2>1, <2>3
  <2> HIDE DEF c
  <2>5. SameSample(s[j], Ddm1!Sample(c))
    BY <1>4, <2>4
  <2> QED
    BY <2>2, <2>5
<1>11. d.trailer = w
  BY <1>8
<1> HIDE DEF d
<1> QED
  BY <1>3, <1>6, <1>9, <1>10, <1>11 DEF s, w

\* A text is read up to its first NUL.
LEMMA StringRoundTrip ==
    ASSUME NEW v, IsUtf8(v.of), Ddm1!Fits("UTF8_STRING", v)
    PROVE  LET b == Ddm1!Bytes("UTF8_STRING", v)
           IN  Len(b) \in 0 .. 15 /\ CutAtNul(v.of, Ddm1!Decoded("UTF8_STRING", b).of)
<1> DEFINE s == v.of
           b == Ddm1!Terminated(s)
<1>1. Len(s) <= Ddm1!STRING_MAX_LENGTH
  BY DEF Ddm1!Fits, Ddm1!DeciKinds
<1>2. Ddm1!Bytes("UTF8_STRING", v) = b
  BY DEF Ddm1!Bytes, Ddm1!DeciKinds
<1>3. Len(b) \in 0 .. 15 /\ CutAtNul(s, Ddm1!Text(b))
  BY <1>1, TextRoundTrip DEF Ddm1!STRING_MAX_LENGTH
<1> HIDE DEF b
<1>4. Ddm1!Decoded("UTF8_STRING", b).of = Ddm1!Text(b)
  BY DEF Ddm1!Decoded, Ddm1!Value, Ddm1!DeciKinds
<1> QED
  BY <1>2, <1>3, <1>4

\* Nothing is read as nothing.
LEMMA EmptyRoundTrip ==
    ASSUME NEW v, v.of = 0
    PROVE  LET b == Ddm1!Bytes("EMPTY", v)
           IN  Len(b) = 0 /\ Ddm1!Decoded("EMPTY", b).of = v.of
<1>1. Ddm1!Bytes("EMPTY", v) = << >>
  BY DEF Ddm1!Bytes, Ddm1!DeciKinds
<1>2. Ddm1!Decoded("EMPTY", << >>).of = 0
  BY DEF Ddm1!Decoded, Ddm1!Value, Ddm1!DeciKinds
<1> QED
  BY <1>1, <1>2

\* The value of what a kind takes.
LEMMA ValuesOfKinds ==
    ASSUME NEW kind \in Kinds1, NEW v, IsValue1(v), v.type \in Ddm1!Types(kind)
    PROVE  /\ kind \in {"INT8_NUMBER", "UINT8_NUMBER"} \cup Ddm1!DeciKinds => v.of \in Int
           /\ kind = "INT16_ARRAY" => v.of \in Int \X Int
           /\ kind = "HISTORY_DATA_ARRAY" => v.of \in [values : Seq(Sample1), trailer : Int]
           /\ kind = "UTF8_STRING" => IsUtf8(v.of)
           /\ kind = "EMPTY" => v.of = 0
<1>1. CASE kind \in {"INT8_NUMBER", "UINT8_NUMBER"}
  BY <1>1 DEF IsValue1, Ddm1!Types, Ddm1!DeciKinds
<1>2. CASE kind \in Ddm1!DeciKinds
  BY <1>2 DEF IsValue1, Ddm1!Types, Ddm1!DeciKinds
<1>3. CASE kind = "INT16_ARRAY"
  BY <1>3 DEF IsValue1, Ddm1!Types, Ddm1!DeciKinds
<1>4. CASE kind = "HISTORY_DATA_ARRAY"
  BY <1>4 DEF IsValue1, Ddm1!Types, Ddm1!DeciKinds
<1>5. CASE kind = "UTF8_STRING"
  BY <1>5 DEF IsValue1, Ddm1!Types, Ddm1!DeciKinds
<1>6. CASE kind = "EMPTY"
  BY <1>6 DEF IsValue1, Ddm1!Types, Ddm1!DeciKinds
<1>7. CASE kind = "INT8_BOOLEAN"
  BY <1>7 DEF Ddm1!DeciKinds
<1> QED
  BY <1>1, <1>2, <1>3, <1>4, <1>5, <1>6, <1>7 DEF Kinds1

\* Whatever is accepted for a kind is read as the same.
LEMMA RoundTrip ==
    ASSUME NEW kind \in Kinds1, NEW v, IsValue1(v),
           v.type \in Ddm1!Types(kind), Ddm1!Fits(kind, v)
    PROVE  LET b == Ddm1!Bytes(kind, v)
           IN  Len(b) \in Ddm1!Lengths(kind) /\ Same1(kind, v, Ddm1!Decoded(kind, b))
<1> DEFINE b == Ddm1!Bytes(kind, v)
           d == Ddm1!Decoded(kind, b)
<1>1. CASE kind = "INT8_BOOLEAN"
  <2>1. Len(b) = 1 /\ d.of = IF v.of = 0 THEN 0 ELSE 1
    BY <1>1, BooleanRoundTrip
  <2> HIDE DEF d, b
  <2> QED
    BY <1>1, <2>1 DEF Same1, Ddm1!Lengths, Ddm1!DeciKinds, d, b
<1>2. CASE kind \in {"INT8_NUMBER", "UINT8_NUMBER"}
  <2>1. Len(b) = 1 /\ d.of = v.of
    BY <1>2, NumberRoundTrip, ValuesOfKinds
  <2>2. kind \notin Ddm1!DeciKinds
    BY <1>2 DEF Ddm1!DeciKinds
  <2> HIDE DEF d, b
  <2>3. Same1(kind, v, d)
    BY <1>2, <2>1, <2>2 DEF Same1
  <2>4. Len(b) \in Ddm1!Lengths(kind)
    BY <1>2, <2>1, <2>2 DEF Ddm1!Lengths
  <2> QED
    BY <2>3, <2>4 DEF d, b
<1>3. CASE kind \in Ddm1!DeciKinds
  <2>1. Len(b) = 2 /\ Within(Ddm1!Hundredths(v), d.of, 5)
    BY <1>3, DeciKindRoundTrip, ValuesOfKinds
  <2> HIDE DEF d, b
  <2>3. Same1(kind, v, d)
    BY <1>3, <2>1 DEF Same1, Ddm1!DeciKinds
  <2>4. Len(b) \in Ddm1!Lengths(kind)
    BY <1>3, <2>1 DEF Ddm1!Lengths, Ddm1!DeciKinds
  <2> QED
    BY <2>3, <2>4 DEF d, b
<1>4. CASE kind = "INT16_ARRAY"
  <2>1. Len(b) = 4 /\ \A i \in 1 .. 2 : Within(v.of[i], d.of[i], 5)
    BY <1>4, PairRoundTrip, ValuesOfKinds
  <2> HIDE DEF d, b
  <2>3. Same1(kind, v, d)
    BY <1>4, <2>1 DEF Same1, Ddm1!DeciKinds
  <2>4. Len(b) \in Ddm1!Lengths(kind)
    BY <1>4, <2>1 DEF Ddm1!Lengths, Ddm1!DeciKinds
  <2> QED
    BY <2>3, <2>4 DEF d, b
<1>5. CASE kind = "HISTORY_DATA_ARRAY"
  <2>1. /\ Len(b) = 15
        /\ \A i \in 1 .. 7 : SameSample(v.of.values[i], d.of.values[i])
        /\ d.of.trailer = v.of.trailer
    BY <1>5, HistoryRoundTrip, ValuesOfKinds
  <2> HIDE DEF d, b
  <2>3. Same1(kind, v, d)
    BY <1>5, <2>1 DEF Same1, Ddm1!DeciKinds
  <2>4. Len(b) \in Ddm1!Lengths(kind)
    BY <1>5, <2>1
       DEF Ddm1!Lengths, Ddm1!DeciKinds, Ddm1!HISTORY_LENGTH, Ddm1!HISTORY_VALUES
  <2> QED
    BY <2>3, <2>4 DEF d, b
<1>6. CASE kind = "UTF8_STRING"
  <2>1. Len(b) \in 0 .. 15 /\ CutAtNul(v.of, d.of)
    BY <1>6, StringRoundTrip, ValuesOfKinds
  <2> HIDE DEF d, b
  <2>3. Same1(kind, v, d)
    BY <1>6, <2>1 DEF Same1, Ddm1!DeciKinds
  <2>4. Len(b) \in Ddm1!Lengths(kind)
    BY <1>6, <2>1 DEF Ddm1!Lengths, Ddm1!DeciKinds, Ddm1!STRING_MAX_LENGTH
  <2> QED
    BY <2>3, <2>4 DEF d, b
<1>7. CASE kind = "EMPTY"
  <2>1. Len(b) = 0 /\ d.of = v.of
    BY <1>7, EmptyRoundTrip, ValuesOfKinds
  <2> HIDE DEF d, b
  <2>3. Same1(kind, v, d)
    BY <1>7, <2>1 DEF Same1, Ddm1!DeciKinds
  <2>4. Len(b) \in Ddm1!Lengths(kind)
    BY <1>7, <2>1 DEF Ddm1!Lengths, Ddm1!DeciKinds
  <2> QED
    BY <2>3, <2>4 DEF d, b
<1> QED
  BY <1>1, <1>2, <1>3, <1>4, <1>5, <1>6, <1>7 DEF Kinds1

-----------------------------------------------------------------------------
(* Every kind of bytes there are, read and written back.                   *)

\* A sequence is its one, or its two, elements.
LEMMA OneByte ==
    ASSUME NEW s \in Seq(Octet), Len(s) = 1
    PROVE  s[1] \in Octet /\ s = << s[1] >>
<1>1. s[1] \in Octet
  OBVIOUS
<1>2. << s[1] >> \in Seq(Octet) /\ Len(<< s[1] >>) = 1
  BY <1>1
<1> QED
  BY <1>1, <1>2, SeqEqual

\* A pair of bytes is two bytes.
LEMMA TwoBytes ==
    ASSUME NEW s \in Seq(Octet), Len(s) = 2
    PROVE  /\ IsByte(s[1]) /\ IsByte(s[2])
           /\ s = << s[1], s[2] >>
<1>1. s[1] \in Octet /\ s[2] \in Octet
  OBVIOUS
<1>2. << s[1], s[2] >> \in Seq(Octet) /\ Len(<< s[1], s[2] >>) = 2
  BY <1>1
<1>3. s = << s[1], s[2] >>
  BY <1>1, <1>2, SeqEqual
<1>4. \A b \in Octet : IsByte(b)
  BY DEF IsByte, Octet
<1> QED
  BY <1>1, <1>3, <1>4

\* What is read as a boolean is read as the same when it is written back.
LEMMA BooleanWriteBack ==
    ASSUME NEW data
    PROVE  LET d == Ddm1!Decoded("INT8_BOOLEAN", data)
               b == Ddm1!Bytes("INT8_BOOLEAN", d)
           IN  d.type = "bool" /\ Len(b) = 1 /\ Ddm1!Decoded("INT8_BOOLEAN", b) = d
<1> DEFINE x == IF data[1] = 0 THEN 0 ELSE 1
<1>1. Ddm1!Decoded("INT8_BOOLEAN", data) = Ddm1!Value("bool", x)
  BY DEF Ddm1!Decoded, Ddm1!DeciKinds
<1>2. x \in {0, 1}
  OBVIOUS
<1> HIDE DEF x
<1> DEFINE d == Ddm1!Value("bool", x)
<1>3. d.of = x /\ d.type = "bool"
  BY DEF Ddm1!Value
<1> HIDE DEF d
<1>4. Ddm1!Bytes("INT8_BOOLEAN", d) = << x >>
  <2>1. Ddm1!Bytes("INT8_BOOLEAN", d) = << IF d.of = 0 THEN 0 ELSE 1 >>
    BY DEF Ddm1!Bytes, Ddm1!DeciKinds
  <2>2. (IF d.of = 0 THEN 0 ELSE 1) = x
    BY <1>2, <1>3
  <2> QED
    BY <2>1, <2>2
<1>5. Ddm1!Decoded("INT8_BOOLEAN", << x >>) = d
  <2>1. Ddm1!Decoded("INT8_BOOLEAN", << x >>) = Ddm1!Value("bool", IF x = 0 THEN 0 ELSE 1)
    BY DEF Ddm1!Decoded, Ddm1!DeciKinds
  <2>2. (IF x = 0 THEN 0 ELSE 1) = x
    BY <1>2
  <2> QED
    BY <2>1, <2>2 DEF d
<1>6. Len(<< x >>) = 1
  OBVIOUS
<1> QED
  BY <1>1, <1>3, <1>4, <1>5, <1>6 DEF d

\* A byte that is read as a number is written back as the same byte.
LEMMA NumberWriteBack ==
    ASSUME NEW kind \in {"INT8_NUMBER", "UINT8_NUMBER"}, NEW data \in Seq(Octet), Len(data) = 1
    PROVE  LET d == Ddm1!Decoded(kind, data)
           IN  d.type = "int" /\ Ddm1!Fits(kind, d) /\ Ddm1!Bytes(kind, d) = data
<1> DEFINE h == data[1]
<1>1. IsByte(h) /\ data = << h >>
  <2>1. h \in Octet /\ data = << h >>
    BY OneByte
  <2> HIDE DEF h
  <2> QED
    BY <2>1 DEF IsByte, Octet
<1> HIDE DEF h
<1> DEFINE n == IF kind = "INT8_NUMBER" /\ h >= 128 THEN h - 256 ELSE h
<1>2. Ddm1!Decoded(kind, data) = Ddm1!Value("int", n)
  <2>1. CASE kind = "INT8_NUMBER"
    <3>1. Ddm1!Decoded(kind, data) = Ddm1!Value("int", IF h < 128 THEN h ELSE h - 256)
      BY <2>1 DEF Ddm1!Decoded, Ddm1!DeciKinds, h
    <3>2. (IF h < 128 THEN h ELSE h - 256) = n
      BY <1>1, <2>1 DEF IsByte
    <3> QED
      BY <3>1, <3>2
  <2>2. CASE kind = "UINT8_NUMBER"
    <3>1. Ddm1!Decoded(kind, data) = Ddm1!Value("int", h)
      BY <2>2 DEF Ddm1!Decoded, Ddm1!DeciKinds, h
    <3>2. n = h
      BY <2>2
    <3> QED
      BY <3>1, <3>2
  <2> QED
    BY <2>1, <2>2
<1>3. n \in Int /\ n % 256 = h
  <2>1. CASE kind = "INT8_NUMBER" /\ h >= 128
    <3>1. n = h - 256 /\ n \in Int /\ n >= -128 /\ n < 0
      BY <1>1, <2>1 DEF IsByte
    <3> HIDE DEF n
    <3>2. n % 256 = n + 256
      BY <3>1, NegativeMod
    <3> QED
      BY <1>1, <3>1, <3>2 DEF IsByte
  <2>2. CASE ~(kind = "INT8_NUMBER" /\ h >= 128)
    <3>1. n = h
      BY <2>2
    <3> QED
      BY <1>1, <3>1, SmallMod DEF IsByte
  <2> QED
    BY <2>1, <2>2
<1>4. kind = "INT8_NUMBER" => n \in -128 .. 127
  BY <1>1 DEF IsByte
<1>5. kind = "UINT8_NUMBER" => n \in 0 .. 255
  BY <1>1 DEF IsByte
<1> HIDE DEF n
<1> DEFINE d == Ddm1!Value("int", n)
<1>6. d.of = n /\ d.type = "int"
  BY DEF Ddm1!Value
<1> HIDE DEF d
<1>7. Ddm1!Bytes(kind, d) = << d.of % 256 >>
  BY DEF Ddm1!Bytes, Ddm1!DeciKinds
<1>8. Ddm1!Fits(kind, d)
  <2>1. CASE kind = "INT8_NUMBER"
    BY <1>4, <1>6, <2>1 DEF Ddm1!Fits, Ddm1!DeciKinds
  <2>2. CASE kind = "UINT8_NUMBER"
    BY <1>5, <1>6, <2>2 DEF Ddm1!Fits, Ddm1!DeciKinds
  <2> QED
    BY <2>1, <2>2
<1> QED
  BY <1>1, <1>2, <1>3, <1>6, <1>7, <1>8 DEF d

\* So are the two bytes of a temperature or voltage.
LEMMA DeciKindWriteBack ==
    ASSUME NEW kind \in Ddm1!DeciKinds, NEW data \in Seq(Octet), Len(data) = 2
    PROVE  LET d == Ddm1!Decoded(kind, data)
           IN  d.type = "float" /\ Ddm1!Fits(kind, d) /\ Ddm1!Bytes(kind, d) = data
<1> DEFINE x == Ddm1!FromDeci(data)
<1>1. Ddm1!DeciFits(x) /\ Ddm1!DeciBytes(x) = data
  BY TwoBytes, TwoBytesRead
<1> HIDE DEF x
<1> DEFINE d == Ddm1!Value("float", x)
<1>2. Ddm1!Decoded(kind, data) = d
  BY DEF Ddm1!Decoded, Ddm1!DeciKinds, x
<1>3. d.type = "float" /\ Ddm1!Hundredths(d) = x
  BY DEF Ddm1!Value, Ddm1!Hundredths
<1> HIDE DEF d
<1>4. Ddm1!Fits(kind, d)
  BY <1>1, <1>3 DEF Ddm1!Fits, Ddm1!DeciKinds
<1>5. Ddm1!Bytes(kind, d) = Ddm1!DeciBytes(Ddm1!Hundredths(d))
  BY DEF Ddm1!Bytes, Ddm1!DeciKinds
<1> QED
  BY <1>1, <1>2, <1>3, <1>4, <1>5

\* And the four of a pair.
LEMMA PairWriteBack ==
    ASSUME NEW data \in Seq(Octet), Len(data) = 4
    PROVE  LET d == Ddm1!Decoded("INT16_ARRAY", data)
           IN  /\ d.type = "pair" /\ Ddm1!Fits("INT16_ARRAY", d)
               /\ Ddm1!Bytes("INT16_ARRAY", d) = data
<1> DEFINE x == Ddm1!FromDeci(SubSeq(data, 1, 2))
           y == Ddm1!FromDeci(SubSeq(data, 3, 4))
<1>1. /\ Ddm1!DeciFits(x) /\ Ddm1!DeciBytes(x) = << data[1], data[2] >>
      /\ IsByte(data[1]) /\ IsByte(data[2])
  <2>1. 1 \in 1 .. Len(data) - 1 /\ 1 + 1 = 2
    OBVIOUS
  <2>2. /\ SubSeq(data, 1, 2)[1] = data[1] /\ SubSeq(data, 1, 2)[2] = data[2]
        /\ IsByte(data[1]) /\ IsByte(data[2])
    <3> DEFINE m == 1
    <3>1. m \in 1 .. Len(data) - 1 /\ m + 1 = 2
      BY <2>1
    <3> HIDE DEF m, x, y
    <3>2. /\ SubSeq(data, m, 2)[1] = data[m] /\ SubSeq(data, m, 2)[2] = data[2]
          /\ IsByte(data[m]) /\ IsByte(data[2])
      BY <3>1, SubSeqOfTwo
    <3> QED
      BY <3>2 DEF m
  <2> QED
    BY <2>2, TwoBytesRead
<1>2. /\ Ddm1!DeciFits(y) /\ Ddm1!DeciBytes(y) = << data[3], data[4] >>
      /\ IsByte(data[3]) /\ IsByte(data[4])
  <2>1. 3 \in 1 .. Len(data) - 1 /\ 3 + 1 = 4
    OBVIOUS
  <2>2. /\ SubSeq(data, 3, 4)[1] = data[3] /\ SubSeq(data, 3, 4)[2] = data[4]
        /\ IsByte(data[3]) /\ IsByte(data[4])
    BY <2>1, SubSeqOfTwo
  <2> QED
    BY <2>2, TwoBytesRead
<1>3. Ddm1!Decoded("INT16_ARRAY", data) = Ddm1!Value("pair", << x, y >>)
  BY DEF Ddm1!Decoded, Ddm1!DeciKinds
<1> HIDE DEF x, y
<1> DEFINE d == Ddm1!Value("pair", << x, y >>)
<1>4. d.type = "pair" /\ d.of[1] = x /\ d.of[2] = y
  BY DEF Ddm1!Value
<1> HIDE DEF d
<1>5. Ddm1!Fits("INT16_ARRAY", d)
  BY <1>1, <1>2, <1>4 DEF Ddm1!Fits, Ddm1!DeciKinds
<1> DEFINE bx == << data[1], data[2] >>
           by == << data[3], data[4] >>
<1>6. Ddm1!Bytes("INT16_ARRAY", d) = bx \o by
  BY <1>1, <1>2, <1>4 DEF Ddm1!Bytes, Ddm1!DeciKinds
<1>7. bx \in Seq(Octet) /\ Len(bx) = 2 /\ by \in Seq(Octet) /\ Len(by) = 2
  <2>1. \A i \in 1 .. 4 : data[i] \in Octet
    OBVIOUS
  <2>2. data[1] \in Octet /\ data[2] \in Octet /\ data[3] \in Octet /\ data[4] \in Octet
    BY <2>1
  <2> QED
    BY <2>2
<1>8. bx[1] = data[1] /\ bx[2] = data[2] /\ by[1] = data[3] /\ by[2] = data[4]
  OBVIOUS
<1> HIDE DEF bx, by
<1>9. bx \o by = data
  <2> DEFINE b == bx \o by
  <2>1. /\ b \in Seq(Octet) /\ Len(b) = 4
        /\ b[1] = data[1] /\ b[2] = data[2] /\ b[3] = data[3] /\ b[4] = data[4]
    BY <1>7, <1>8, TwoAndTwo
  <2> HIDE DEF b
  <2>2. \A i \in 1 .. 4 : i = 1 \/ i = 2 \/ i = 3 \/ i = 4
    OBVIOUS
  <2>3. \A i \in 1 .. Len(b) : b[i] = data[i]
    BY <2>1, <2>2
  <2> QED
    BY <2>1, <2>3, SeqEqual DEF b
<1> QED
  BY <1>3, <1>4, <1>5, <1>6, <1>9 DEF d

\* And the two of a sample: the sentinel is read as None, which is written as
\* the sentinel.
LEMMA SampleWriteBack ==
    ASSUME NEW c, IsByte(c[1]), IsByte(c[2])
    PROVE  /\ \A v \in Ddm1!Sample(c) : Ddm1!DeciFits(v)
           /\ Ddm1!SampleBytes(Ddm1!Sample(c)) = << c[1], c[2] >>
<1> DEFINE x == Ddm1!FromDeci(c)
<1>1. /\ Ddm1!DeciFits(x) /\ Ddm1!DeciBytes(x) = << c[1], c[2] >>
  BY TwoBytesRead
<1>2. CASE Ddm1!ToInt16(c) = Ddm1!HISTORY_NO_SAMPLE
  <2>1. Ddm1!Sample(c) = {}
    BY <1>2 DEF Ddm1!Sample
  <2>2. Ddm1!ToInt16(<< c[1], c[2] >>) = Ddm1!HISTORY_NO_SAMPLE
    BY <1>2, TwoBytesRead
  <2>3. Ddm1!Int16(Ddm1!HISTORY_NO_SAMPLE) = << c[1], c[2] >>
    BY <2>2, Int16WriteBack
  <2> QED
    BY <2>1, <2>3 DEF Ddm1!SampleBytes
<1>3. CASE Ddm1!ToInt16(c) # Ddm1!HISTORY_NO_SAMPLE
  <2>1. Ddm1!Sample(c) = {x}
    BY <1>3 DEF Ddm1!Sample
  <2> HIDE DEF x
  <2>2. Ddm1!SampleBytes({x}) = Ddm1!DeciBytes(x)
    BY DEF Ddm1!SampleBytes
  <2> QED
    BY <1>1, <2>1, <2>2
<1> QED
  BY <1>2, <1>3

\* What is a sequence of bytes has bytes.
LEMMA BytesOf ==
    ASSUME NEW s \in Seq(Octet), NEW n, Len(s) = n
    PROVE  \A i \in 1 .. n : s[i] \in Octet
BY LenProperties

\* And the fifteen of a history.
LEMMA HistoryWriteBack ==
    ASSUME NEW data \in Seq(Octet), Len(data) = 15
    PROVE  LET d == Ddm1!Decoded("HISTORY_DATA_ARRAY", data)
           IN  /\ d.type = "history" /\ Ddm1!Fits("HISTORY_DATA_ARRAY", d)
               /\ Ddm1!Bytes("HISTORY_DATA_ARRAY", d) = data
<1>10. \A i \in 1 .. 15 : data[i] \in Octet
  BY BytesOf
<1> DEFINE s == [i \in 1 .. 7 |-> Ddm1!Sample(SubSeq(data, 2 * i - 1, 2 * i))]
           w == data[15]
           h == [values |-> s, trailer |-> w]
           d == Ddm1!Value("history", h)
<1>1. Ddm1!Decoded("HISTORY_DATA_ARRAY", data) = d
  BY DEF Ddm1!Decoded, Ddm1!HISTORY_VALUES, Ddm1!HISTORY_LENGTH, Ddm1!DeciKinds
<1>2. ASSUME NEW j \in 1 .. 7
      PROVE  /\ \A v \in s[j] : Ddm1!DeciFits(v)
             /\ Ddm1!SampleBytes(s[j]) = << data[2 * j - 1], data[2 * j] >>
  <2> DEFINE m == 2 * j - 1
             c == SubSeq(data, m, m + 1)
  <2>1. m \in 1 .. Len(data) - 1 /\ m + 1 = 2 * j
    OBVIOUS
  <2>2. s[j] = Ddm1!Sample(c)
    BY <2>1
  <2> HIDE DEF s, d, h, w, m
  <2>3. c[1] = data[m] /\ c[2] = data[m + 1] /\ IsByte(data[m]) /\ IsByte(data[m + 1])
    BY <2>1, SubSeqOfTwo
  <2> HIDE DEF c
  <2>4. /\ \A v \in Ddm1!Sample(c) : Ddm1!DeciFits(v)
        /\ Ddm1!SampleBytes(Ddm1!Sample(c)) = << data[m], data[m + 1] >>
    BY <2>3, SampleWriteBack
  <2> QED
    BY <2>1, <2>2, <2>4 DEF m
<1>3. Len(s) = 7
  <2> DEFINE U == {s[i] : i \in 1 .. 7}
  <2>1. s \in [1 .. 7 -> U]
    OBVIOUS
  <2> HIDE DEF s, U
  <2> QED
    BY <2>1, FunctionIsSequence
<1>4. w \in Octet
  BY <1>10
<1> HIDE DEF s, w
<1>5. d.type = "history" /\ d.of.values = s /\ d.of.trailer = w
  BY DEF Ddm1!Value
<1> HIDE DEF d
<1>6. Ddm1!Fits("HISTORY_DATA_ARRAY", d)
  <2>1. \A i \in 1 .. 7 : \A v \in d.of.values[i] : Ddm1!DeciFits(v)
    BY <1>2, <1>5
  <2>2. Len(d.of.values) = 7 /\ d.of.trailer \in 0 .. 255
    BY <1>3, <1>4, <1>5 DEF Octet
  <2> QED
    BY <2>1, <2>2 DEF Ddm1!Fits, Ddm1!HISTORY_VALUES, Ddm1!DeciKinds
<1> DEFINE b == [i \in 1 .. 15 |-> IF i = 15 THEN w
                                   ELSE Ddm1!SampleBytes(s[(i + 1) \div 2])[2 - (i % 2)]]
<1>7. Ddm1!Bytes("HISTORY_DATA_ARRAY", d) = b
  <2>1. Ddm1!Bytes("HISTORY_DATA_ARRAY", d)
          = [i \in 1 .. 15 |-> IF i = 15 THEN d.of.trailer
                ELSE Ddm1!SampleBytes(d.of.values[(i + 1) \div 2])[2 - (i % 2)]]
    BY DEF Ddm1!Bytes, Ddm1!HISTORY_VALUES, Ddm1!HISTORY_LENGTH, Ddm1!DeciKinds
  <2> QED
    BY <1>5, <2>1
<1>8. \A i \in 1 .. 15 : b[i] = data[i]
  <2> SUFFICES ASSUME NEW i \in 1 .. 15 PROVE b[i] = data[i]
    OBVIOUS
  <2>1. CASE i = 15
    BY <2>1 DEF w
  <2>2. CASE i # 15
    <3>1. i \in 1 .. 14
      BY <2>2
    <3>2. PICK j \in 1 .. 7, k \in 1 .. 2 :
              j = (i + 1) \div 2 /\ k = 2 - (i % 2) /\ i = 2 * j - 2 + k
      <4>1. i = 2 * ((i + 1) \div 2) - 2 + (2 - (i % 2))
        BY <3>1
      <4> QED
        BY <3>1, <4>1, EveryByteInAPair
    <3>3. b[i] = Ddm1!SampleBytes(s[j])[k]
      BY <2>2, <3>2
    <3>4. Ddm1!SampleBytes(s[j]) = << data[2 * j - 1], data[2 * j] >>
      BY <1>2
    <3>5. CASE k = 1
      <4>1. i = 2 * j - 1
        BY <3>2, <3>5
      <4> HIDE DEF b
      <4> QED
        BY <3>3, <3>4, <3>5, <4>1
    <3>6. CASE k = 2
      <4>1. i = 2 * j
        BY <3>2, <3>6
      <4> HIDE DEF b
      <4> QED
        BY <3>3, <3>4, <3>6, <4>1
    <3>7. k = 1 \/ k = 2
      BY <3>2
    <3> QED
      BY <3>5, <3>6, <3>7
  <2> QED
    BY <2>1, <2>2
<1>9. b = data
  <2>1. \A i \in 1 .. 15 : b[i] \in Octet
    <3> HIDE DEF b
    <3> QED
      BY <1>8, <1>10
  <2>2. b \in [1 .. 15 -> Octet]
    BY <2>1
  <2>3. b \in Seq(Octet) /\ Len(b) = 15
    BY <2>2, FunctionIsSequence
  <2> HIDE DEF b
  <2> QED
    BY <1>8, <2>3, SeqEqual
<1> QED
  BY <1>1, <1>5, <1>6, <1>7, <1>9

\* What is read as a text and fits is read as the same when it is written back; it fits
\* where its bytes are well-formed.
LEMMA StringWriteBack ==
    ASSUME NEW data \in Seq(Octet), Len(data) \in 0 .. 15
    PROVE  LET d == Ddm1!Decoded("UTF8_STRING", data)
               b == Ddm1!Bytes("UTF8_STRING", d)
           IN  /\ d.type = "str"
               /\ WellFormed(BeforeNul(data)) => Ddm1!Fits("UTF8_STRING", d)
               /\ Ddm1!Fits("UTF8_STRING", d) =>
                      Len(b) \in 0 .. 15 /\ Ddm1!Decoded("UTF8_STRING", b) = d
<1>10. Len(data) \in Int /\ Len(data) <= 15
  BY RoomWithNul
<1> DEFINE t == Ddm1!Text(data)
           d == Ddm1!Value("str", t)
           b == Ddm1!Terminated(t)
<1>1. Ddm1!Decoded("UTF8_STRING", data) = d
  BY DEF Ddm1!Decoded, Ddm1!DeciKinds
<1>2. /\ IsUtf8(t) /\ t \in Seq(Octet) /\ Len(t) \in Nat /\ \A i \in 1 .. Len(t) : t[i] # 0
      /\ WellFormed(BeforeNul(data)) => Len(t) <= Len(data)
  BY SameText, TextIsText
<1> HIDE DEF t
<1>6. d.type = "str" /\ d.of = t
  BY DEF Ddm1!Value
<1>3. Ddm1!Fits("UTF8_STRING", d) <=> Len(t) <= 15
  BY <1>6 DEF Ddm1!Fits, Ddm1!DeciKinds, Ddm1!STRING_MAX_LENGTH
<1>9. WellFormed(BeforeNul(data)) => Len(t) <= 15
  BY <1>2, <1>10
<1>7. ASSUME Len(t) <= 15
      PROVE  Len(b) \in 0 .. 15 /\ Ddm1!Decoded("UTF8_STRING", b) = d
  <2>1. Len(b) \in 0 .. 15 /\ CutAtNul(t, Ddm1!Text(b))
    BY <1>2, <1>7, TextRoundTrip DEF Ddm1!STRING_MAX_LENGTH
  <2>2. Ddm1!Text(b) = t
    BY <1>2, <2>1, NothingToCut
  <2>3. Ddm1!Decoded("UTF8_STRING", b) = d
    BY <2>2 DEF Ddm1!Decoded, Ddm1!DeciKinds
  <2> QED
    BY <2>1, <2>3
<1> HIDE DEF b
<1>8. Ddm1!Bytes("UTF8_STRING", d) = b
  BY <1>6 DEF Ddm1!Bytes, Ddm1!DeciKinds, b
<1> HIDE DEF d
<1> QED
  BY <1>1, <1>3, <1>6, <1>7, <1>8, <1>9

\* Only nothing is read as nothing, and written back as nothing.
LEMMA EmptyWriteBack ==
    ASSUME NEW data \in Seq(Octet), Len(data) = 0
    PROVE  LET d == Ddm1!Decoded("EMPTY", data)
           IN  d.type = "none" /\ Ddm1!Fits("EMPTY", d) /\ Ddm1!Bytes("EMPTY", d) = data
<1> DEFINE d == Ddm1!Value("none", 0)
<1>1. Ddm1!Decoded("EMPTY", data) = d /\ d.type = "none"
  BY DEF Ddm1!Decoded, Ddm1!Value, Ddm1!DeciKinds
<1> HIDE DEF d
<1>2. Ddm1!Bytes("EMPTY", d) = << >>
  BY DEF Ddm1!Bytes, Ddm1!DeciKinds
<1>3. Ddm1!Fits("EMPTY", d)
  BY DEF Ddm1!Fits, Ddm1!DeciKinds
<1>4. data = << >>
  OBVIOUS
<1> QED
  BY <1>1, <1>2, <1>3, <1>4

\* What is read for a kind and accepted for it is read as the same, and all of it is
\* accepted but a text some bytes of which were malformed.
LEMMA WriteBack ==
    ASSUME NEW kind \in Kinds1, NEW data \in Seq(Octet), Len(data) \in Ddm1!Lengths(kind)
    PROVE  LET d == Ddm1!Decoded(kind, data)
               b == Ddm1!Bytes(kind, d)
           IN  /\ d.type \in Ddm1!Types(kind)
               /\ kind # "UTF8_STRING" \/ WellFormed(BeforeNul(data)) => Ddm1!Fits(kind, d)
               /\ Ddm1!Fits(kind, d) =>
                      /\ Len(b) \in Ddm1!Lengths(kind) /\ Ddm1!Decoded(kind, b) = d
                      /\ kind \notin {"UTF8_STRING", "INT8_BOOLEAN"} => b = data
<1> DEFINE d == Ddm1!Decoded(kind, data)
           b == Ddm1!Bytes(kind, d)
           Kept == /\ d.type \in Ddm1!Types(kind)
                   /\ kind # "UTF8_STRING" \/ WellFormed(BeforeNul(data)) => Ddm1!Fits(kind, d)
                   /\ Ddm1!Fits(kind, d) =>
                          /\ Len(b) \in Ddm1!Lengths(kind) /\ Ddm1!Decoded(kind, b) = d
                          /\ kind \notin {"UTF8_STRING", "INT8_BOOLEAN"} => b = data
<1> SUFFICES Kept
  OBVIOUS
<1>1. CASE kind = "INT8_BOOLEAN"
  <2>1. d.type = "bool" /\ Len(b) = 1 /\ Ddm1!Decoded(kind, b) = d
    BY <1>1, BooleanWriteBack
  <2> HIDE DEF d, b
  <2>2. "bool" \in Ddm1!Types(kind) /\ Ddm1!Lengths(kind) = {1}
    BY <1>1 DEF Ddm1!Types, Ddm1!Lengths, Ddm1!DeciKinds
  <2>3. Ddm1!Fits(kind, d)
    BY <1>1 DEF Ddm1!Fits, Ddm1!DeciKinds
  <2> QED
    BY <1>1, <2>1, <2>2, <2>3 DEF d, b
<1>2. CASE kind \in {"INT8_NUMBER", "UINT8_NUMBER"}
  <2>1. "int" \in Ddm1!Types(kind) /\ Ddm1!Lengths(kind) = {1}
    BY <1>2 DEF Ddm1!Types, Ddm1!Lengths, Ddm1!DeciKinds
  <2>2. d.type = "int" /\ Ddm1!Fits(kind, d) /\ b = data
    BY <1>2, <2>1, NumberWriteBack
  <2> QED
    BY <2>1, <2>2
<1>3. CASE kind \in Ddm1!DeciKinds
  <2>1. "float" \in Ddm1!Types(kind) /\ Ddm1!Lengths(kind) = {2}
    BY <1>3 DEF Ddm1!Types, Ddm1!Lengths, Ddm1!DeciKinds
  <2>2. d.type = "float" /\ Ddm1!Fits(kind, d) /\ b = data
    BY <1>3, <2>1, DeciKindWriteBack
  <2> QED
    BY <2>1, <2>2
<1>4. CASE kind = "INT16_ARRAY"
  <2>1. "pair" \in Ddm1!Types(kind) /\ Ddm1!Lengths(kind) = {4}
    BY <1>4 DEF Ddm1!Types, Ddm1!Lengths, Ddm1!DeciKinds
  <2>2. d.type = "pair" /\ Ddm1!Fits(kind, d) /\ b = data
    BY <1>4, <2>1, PairWriteBack
  <2> QED
    BY <2>1, <2>2
<1>5. CASE kind = "HISTORY_DATA_ARRAY"
  <2>1. "history" \in Ddm1!Types(kind) /\ Ddm1!Lengths(kind) = {15}
    BY <1>5 DEF Ddm1!Types, Ddm1!Lengths, Ddm1!DeciKinds,
                Ddm1!HISTORY_LENGTH, Ddm1!HISTORY_VALUES
  <2>2. d.type = "history" /\ Ddm1!Fits(kind, d) /\ b = data
    BY <1>5, <2>1, HistoryWriteBack
  <2> QED
    BY <2>1, <2>2
<1>6. CASE kind = "UTF8_STRING"
  <2>1. "str" \in Ddm1!Types(kind) /\ Ddm1!Lengths(kind) = 0 .. 15
    BY <1>6 DEF Ddm1!Types, Ddm1!Lengths, Ddm1!DeciKinds, Ddm1!STRING_MAX_LENGTH
  <2>2. /\ d.type = "str" /\ (WellFormed(BeforeNul(data)) => Ddm1!Fits(kind, d))
        /\ Ddm1!Fits(kind, d) => Len(b) \in 0 .. 15 /\ Ddm1!Decoded(kind, b) = d
    BY <1>6, <2>1, StringWriteBack
  <2> QED
    BY <1>6, <2>1, <2>2
<1>7. CASE kind = "EMPTY"
  <2>1. "none" \in Ddm1!Types(kind) /\ Ddm1!Lengths(kind) = {0}
    BY <1>7 DEF Ddm1!Types, Ddm1!Lengths, Ddm1!DeciKinds
  <2>2. d.type = "none" /\ Ddm1!Fits(kind, d) /\ b = data
    BY <1>7, <2>1, EmptyWriteBack
  <2> QED
    BY <2>1, <2>2
<1> HIDE DEF Kept, d, b
<1>8. \/ kind = "INT8_BOOLEAN" \/ kind \in {"INT8_NUMBER", "UINT8_NUMBER"}
      \/ kind \in Ddm1!DeciKinds \/ kind = "INT16_ARRAY" \/ kind = "HISTORY_DATA_ARRAY"
      \/ kind = "UTF8_STRING" \/ kind = "EMPTY"
  BY DEF Kinds1
<1> QED
  BY <1>1, <1>2, <1>3, <1>4, <1>5, <1>6, <1>7, <1>8

\* Every whole tenth an int16 has is accepted.
LEMMA RangeFits ==
    ASSUME NEW x \in Int, x >= -327680, x <= 327670, x % 10 = 0
    PROVE  Ddm1!DeciFits(x)
<1>1. PICK q \in Int : x = 10 * q
  <2>1. x = 10 * (x \div 10) /\ x \div 10 \in Int
    OBVIOUS
  <2> QED
    BY <2>1
<1>2. Ddm1!Tenths(x) = q
  BY <1>1, TenthsOfTenths
<1>3. q >= -32768 /\ q <= 32767
  BY <1>1
<1> QED
  BY <1>2, <1>3 DEF Ddm1!DeciFits

\* A number of tenths that fits, fits each of the kinds of tenths.
LEMMA DeciKindFits ==
    ASSUME NEW kind \in Ddm1!DeciKinds, NEW v, Ddm1!DeciFits(Ddm1!Hundredths(v))
    PROVE  Ddm1!Fits(kind, v)
BY DEF Ddm1!Fits, Ddm1!DeciKinds

\* The codec of DDM1 loses nothing: whatever value, whatever kind and whatever
\* bytes from the cooler it is asked for.
THEOREM Ddm1LosesNothing == WellAsked => Ddm1Faithful
<1> SUFFICES ASSUME WellAsked PROVE Ddm1Faithful
  OBVIOUS
<1> DEFINE kind == probe[2]
           v == probe[3]
<1>1. Ddm1RoundTrip
  <2> SUFFICES ASSUME probe[1] = "value1" PROVE Ddm1RoundTrip
    BY DEF Ddm1RoundTrip
  <2>1. kind \in Kinds1 /\ IsValue1(v)
    BY DEF WellAsked
  <2> HIDE DEF kind, v
  <2> DEFINE e == Ddm1!Encode(kind, v)
             d == Ddm1!Decode(kind, e.out)
  <2>2. ASSUME e.ok PROVE d.ok /\ Same1(kind, v, d.out)
    <3> DEFINE b == Ddm1!Bytes(kind, v)
    <3>1. v.type \in Ddm1!Types(kind) /\ Ddm1!Fits(kind, v) /\ e.out = b
      BY <2>2 DEF Ddm1!Encode, Ddm1!Done, Ddm1!Rejected
    <3>2. Len(b) \in Ddm1!Lengths(kind) /\ Same1(kind, v, Ddm1!Decoded(kind, b))
      BY <2>1, <3>1, RoundTrip
    <3> HIDE DEF b, e
    <3>3. d.ok /\ d.out = Ddm1!Decoded(kind, b)
      BY <3>1, <3>2 DEF Ddm1!Decode, Ddm1!Done
    <3> QED
      BY <3>2, <3>3
  <2> QED
    BY <2>2 DEF Ddm1RoundTrip, kind, v
<1>2. Ddm1EncodesTheRange
  <2> SUFFICES ASSUME /\ kind \in Ddm1!DeciKinds /\ v.type = "float"
                      /\ v.of % 10 = 0 /\ v.of >= -327680 /\ v.of <= 327670
                      /\ kind \in Kinds1 /\ IsValue1(v)
               PROVE  Ddm1!Encode(kind, v).ok
    BY DEF Ddm1EncodesTheRange, WellAsked
  <2> HIDE DEF kind, v
  <2>4. v.of \in Int
    BY DEF IsValue1
  <2>1. Ddm1!DeciFits(v.of) /\ Ddm1!Hundredths(v) = v.of
    BY <2>4, RangeFits DEF Ddm1!Hundredths
  <2>2. Ddm1!Fits(kind, v)
    BY <2>1, DeciKindFits
  <2>3. v.type \in Ddm1!Types(kind)
    BY DEF Ddm1!Types, Ddm1!DeciKinds
  <2> QED
    BY <2>2, <2>3 DEF Ddm1!Encode, Ddm1!Done
<1>3. Ddm1WriteBack
  <2> SUFFICES ASSUME probe[1] = "bytes1" PROVE Ddm1WriteBack
    BY DEF Ddm1WriteBack
  <2>1. kind \in Kinds1 /\ v \in Seq(Octet)
    BY DEF WellAsked
  <2> HIDE DEF kind, v
  <2> DEFINE d == Ddm1!Decode(kind, v)
             e == Ddm1!Encode(kind, d.out)
  <2>2. ASSUME d.ok
        PROVE  /\ e.ok => /\ Ddm1!Decode(kind, e.out) = d
                          /\ kind \notin {"UTF8_STRING", "INT8_BOOLEAN"} => e.out = v
               /\ ~e.ok => kind = "UTF8_STRING" /\ ~WellFormed(BeforeNul(v))
    <3> DEFINE w == Ddm1!Decoded(kind, v)
               b == Ddm1!Bytes(kind, w)
    <3>1. Len(v) \in Ddm1!Lengths(kind) /\ d = Ddm1!Done(w)
      BY <2>2 DEF Ddm1!Decode, Ddm1!Rejected
    <3>2. d.out = w
      BY <3>1 DEF Ddm1!Done
    <3>3. /\ w.type \in Ddm1!Types(kind)
          /\ kind # "UTF8_STRING" \/ WellFormed(BeforeNul(v)) => Ddm1!Fits(kind, w)
          /\ Ddm1!Fits(kind, w) =>
                 /\ Len(b) \in Ddm1!Lengths(kind) /\ Ddm1!Decoded(kind, b) = w
                 /\ kind \notin {"UTF8_STRING", "INT8_BOOLEAN"} => b = v
      BY <2>1, <3>1, WriteBack
    <3> HIDE DEF w, d
    <3>4. e = IF Ddm1!Fits(kind, w) THEN Ddm1!Done(b) ELSE Ddm1!Rejected
      BY <3>2, <3>3 DEF Ddm1!Encode
    <3>5. (e.ok <=> Ddm1!Fits(kind, w)) /\ (e.ok => e.out = b)
      BY <3>4 DEF Ddm1!Done, Ddm1!Rejected
    <3> HIDE DEF e, b
    <3>6. Ddm1!Fits(kind, w) => Ddm1!Decode(kind, b) = Ddm1!Done(w)
      BY <3>3 DEF Ddm1!Decode
    <3> QED
      BY <3>1, <3>3, <3>5, <3>6
  <2> QED
    BY <2>2 DEF Ddm1WriteBack, kind, v
<1> QED
  BY <1>1, <1>2, <1>3 DEF Ddm1Faithful

-----------------------------------------------------------------------------
(* Frames, and the topics in them.                                         *)

\* Bytes are numbers.
LEMMA OctetsAreNumbers == ASSUME NEW s \in Seq(Octet) PROVE s \in Seq(Nat)
<1>1. Octet \subseteq Nat
  BY DEF Octet
<1>2. Len(s) \in Nat /\ s \in [1 .. Len(s) -> Octet]
  BY LenProperties
<1>3. s \in [1 .. Len(s) -> Nat]
  BY <1>1, <1>2
<1> QED
  BY <1>2, <1>3, FunctionIsSequence

\* The bytes of a frame: the action, then the topic, then the value.
LEMMA FrameLayout ==
    ASSUME NEW a \in Nat, NEW t \in Seq(Octet), NEW v \in Seq(Octet)
    PROVE  LET data == << a >> \o t \o v
           IN  /\ data \in Seq(Nat) /\ Len(data) = 1 + Len(t) + Len(v)
               /\ data[1] = a
               /\ \A i \in 1 .. Len(t) : data[1 + i] = t[i]
               /\ \A i \in 1 .. Len(v) : data[1 + Len(t) + i] = v[i]
<1> DEFINE h == << a >> \o t
           data == h \o v
<1>1. t \in Seq(Nat) /\ v \in Seq(Nat) /\ << a >> \in Seq(Nat) /\ Len(<< a >>) = 1
  BY OctetsAreNumbers
<1>2. Len(t) \in Nat /\ Len(v) \in Nat
  OBVIOUS
<1>3. /\ h \in Seq(Nat) /\ Len(h) = 1 + Len(t)
      /\ \A i \in 1 .. 1 + Len(t) : h[i] = IF i <= 1 THEN << a >>[i] ELSE t[i - 1]
  BY <1>1, ConcatProperties
<1>4. h[1] = a
  <2>1. 1 \in 1 .. 1 + Len(t)
    BY <1>2
  <2> QED
    BY <1>3, <2>1
<1>5. \A i \in 1 .. Len(t) : h[1 + i] = t[i]
  <2> SUFFICES ASSUME NEW i \in 1 .. Len(t) PROVE h[1 + i] = t[i]
    OBVIOUS
  <2>1. 1 + i \in 1 .. 1 + Len(t) /\ ~(1 + i <= 1) /\ (1 + i) - 1 = i
    BY <1>2
  <2> QED
    BY <1>3, <2>1
<1> HIDE DEF h
<1>6. /\ data \in Seq(Nat) /\ Len(data) = Len(h) + Len(v)
      /\ \A i \in 1 .. Len(h) + Len(v) : data[i] = IF i <= Len(h) THEN h[i] ELSE v[i - Len(h)]
  BY <1>1, <1>3, ConcatProperties
<1> HIDE DEF data
<1>7. data[1] = a
  <2>1. 1 \in 1 .. Len(h) + Len(v) /\ 1 <= Len(h)
    BY <1>2, <1>3
  <2> QED
    BY <1>4, <1>6, <2>1
<1>8. \A i \in 1 .. Len(t) : data[1 + i] = t[i]
  <2> SUFFICES ASSUME NEW i \in 1 .. Len(t) PROVE data[1 + i] = t[i]
    OBVIOUS
  <2>1. 1 + i \in 1 .. Len(h) + Len(v) /\ 1 + i <= Len(h)
    BY <1>2, <1>3
  <2> QED
    BY <1>5, <1>6, <2>1
<1>9. \A i \in 1 .. Len(v) : data[1 + Len(t) + i] = v[i]
  <2> SUFFICES ASSUME NEW i \in 1 .. Len(v) PROVE data[1 + Len(t) + i] = v[i]
    OBVIOUS
  <2> DEFINE n == 1 + Len(t) + i
  <2>1. n \in 1 .. Len(h) + Len(v) /\ ~(n <= Len(h)) /\ n - Len(h) = i
    BY <1>2, <1>3
  <2> HIDE DEF n
  <2> QED
    BY <1>6, <2>1 DEF n
<1> QED
  BY <1>2, <1>3, <1>6, <1>7, <1>8, <1>9 DEF data, h

\* No action is both of data and of control.
LEMMA ActionsApart ==
    ASSUME NEW protocol, NEW a, a \in ControlActions(protocol)
    PROVE  a \notin DataActions(protocol)
BY DEF ControlActions, DataActions

\* The part of the data a topic, or a value, is read from is that topic or value.
LEMMA PartRead ==
    ASSUME NEW data, NEW k \in Nat, NEW s \in Seq(Octet),
           \A i \in 1 .. Len(s) : data[k + i] = s[i]
    PROVE  SubSeq(data, k + 1, k + Len(s)) = s
<1> DEFINE m == k + 1
           n == k + Len(s)
           p == SubSeq(data, m, n)
<1>1. Len(s) \in Nat /\ m \in Int /\ n \in Int /\ n - m + 1 = Len(s)
  OBVIOUS
<1>2. \A i \in m .. n : data[i] \in Octet
  <2> SUFFICES ASSUME NEW i \in m .. n PROVE data[i] \in Octet
    OBVIOUS
  <2>1. i - k \in 1 .. Len(s) /\ k + (i - k) = i
    BY <1>1
  <2>2. data[i] = s[i - k]
    BY <2>1
  <2> QED
    BY <2>1, <2>2
<1>3. \A i \in 1 .. Len(s) : m + i - 1 = k + i
  BY <1>1
<1>4. (IF m <= n THEN n - m + 1 ELSE 0) = Len(s)
  BY <1>1
<1> HIDE DEF m, n
<1>5. p \in Seq(Octet) /\ Len(p) = Len(s) /\ \A i \in 1 .. Len(s) : p[i] = data[m + i - 1]
  BY <1>1, <1>2, <1>4, SubSeqProperties
<1>6. \A i \in 1 .. Len(s) : p[i] = s[i]
  BY <1>3, <1>5
<1> HIDE DEF p
<1>7. p = s
  BY <1>5, <1>6, SeqEqual
<1> QED
  BY <1>7 DEF p, m, n

\* A frame is read as itself, and read exactly when its action is one that
\* goes with a topic, or without one.
LEMMA FrameRead ==
    ASSUME NEW protocol,
           NEW f \in [action : Nat, topic : Seq(Octet), value : Seq(Octet)], IsFrame(f)
    PROVE  LET d == FrameDecode(FrameEncode(f), protocol)
           IN  /\ d.ok => d.out = f
               /\ d.ok <=> f.action \in (IF f.topic = << >> THEN ControlActions(protocol)
                                         ELSE DataActions(protocol))
<1> DEFINE data == FrameEncode(f)
           a == f.action
           t == f.topic
           v == f.value
           control == a \in ControlActions(protocol)
           carries == a \in DataActions(protocol)
           frame == [action |-> a,
                     topic  |-> IF carries THEN SubSeq(data, 2, 5) ELSE << >>,
                     value  |-> IF carries THEN SubSeq(data, 6, Len(data)) ELSE << >>]
           readable == Len(data) > 0 /\ ((carries /\ Len(data) >= 5) \/ (control /\ Len(data) = 1))
           d == FrameDecode(data, protocol)
<1>1. a \in Nat /\ t \in Seq(Octet) /\ v \in Seq(Octet)
      /\ f = [action |-> a, topic |-> t, value |-> v]
  OBVIOUS
<1>2. /\ Len(data) = 1 + Len(t) + Len(v) /\ data[1] = a
      /\ \A i \in 1 .. Len(t) : data[1 + i] = t[i]
      /\ \A i \in 1 .. Len(v) : data[1 + Len(t) + i] = v[i]
  BY <1>1, FrameLayout DEF FrameEncode
<1>3. Len(t) \in Nat /\ Len(v) \in Nat
  BY <1>1
<1>4. control => ~carries
  BY ActionsApart
<1> HIDE DEF data, a, t, v, control, carries
<1>5. d = IF readable THEN [ok |-> TRUE, out |-> frame] ELSE [ok |-> FALSE]
  BY <1>2 DEF FrameDecode, TOPIC_LENGTH, control, carries, readable, frame, d
<1> HIDE DEF d, readable, frame
<1>6. (d.ok <=> readable) /\ (readable => d.out = frame)
  BY <1>5
<1>7. CASE t = << >>
  <2>1. Len(t) = 0 /\ v = << >> /\ Len(v) = 0
    BY <1>7 DEF IsFrame, t, v
  <2>2. readable <=> control
    BY <1>2, <2>1 DEF readable
  <2>3. readable => frame = f
    BY <1>1, <1>4, <1>7, <2>1, <2>2 DEF frame
  <2> QED
    BY <1>6, <1>7, <2>2, <2>3 DEF d, data, control, a, t
<1>8. CASE t # << >>
  <2>1. Len(t) = 4
    BY <1>8 DEF IsFrame, TOPIC_LENGTH, t
  <2>2. readable <=> carries
    BY <1>2, <1>3, <2>1 DEF readable
  <2>3. SubSeq(data, 2, 5) = t
    <3>1. 1 + 1 = 2 /\ 1 + Len(t) = 5 /\ 1 \in Nat
      BY <2>1
    <3>2. SubSeq(data, 1 + 1, 1 + Len(t)) = t
      BY <1>1, <1>2, PartRead
    <3> QED
      BY <3>1, <3>2
  <2>4. SubSeq(data, 6, Len(data)) = v
    <3> DEFINE k == 1 + Len(t)
    <3>1. k + 1 = 6 /\ k + Len(v) = Len(data) /\ k \in Nat
      BY <1>2, <1>3, <2>1
    <3>2. \A i \in 1 .. Len(v) : data[k + i] = v[i]
      BY <1>2
    <3> HIDE DEF k
    <3>3. SubSeq(data, k + 1, k + Len(v)) = v
      BY <1>1, <3>1, <3>2, PartRead
    <3> QED
      BY <3>1, <3>3
  <2>5. readable => frame = f
    BY <1>1, <2>2, <2>3, <2>4 DEF frame
  <2> QED
    BY <1>6, <1>8, <2>2, <2>5 DEF d, data, carries, a, t
<1> QED
  BY <1>7, <1>8

\* A row of a table that loads is the only one of its name, and of its topic.
LEMMA RowFound ==
    ASSUME NEW raw, Ddm1!Table(raw).ok, NEW p \in Ddm1!Table(raw).out
    PROVE  /\ Ddm1!Get(Ddm1!Table(raw).out, p.key) = {p}
           /\ Ddm1!Lookup(Ddm1!Table(raw).out, p.topic) = {p}
<1> DEFINE t == Ddm1!Rows(raw)
<1>1. /\ \A q, r \in t : q # r => q.key # r.key /\ q.topic # r.topic
      /\ Ddm1!Table(raw).out = t
  BY DEF Ddm1!Table, Ddm1!Done, Ddm1!Rejected
<1> HIDE DEF t
<1>2. p \in t
  BY <1>1
<1>3. {q \in t : q.key = p.key} = {p}
  BY <1>1, <1>2
<1>4. {q \in t : q.topic = p.topic} = {p}
  BY <1>1, <1>2
<1> QED
  BY <1>1, <1>3, <1>4 DEF Ddm1!Get, Ddm1!Lookup

\* A topic of DDM2 stands for the parameter it was made of, and its instance.
LEMMA TopicFound ==
    ASSUME NEW id \in Id2, NEW ids, ids \subseteq Id2, NEW n
    PROVE  Lookup(ids, Topic(id, n)) = IF id \in ids THEN {<< id, n >>} ELSE {}
<1> DEFINE found == {i \in ids : i.param = id.param /\ i.class = id.class /\ i.group = id.group}
<1>1. \A i \in Id2 : i.param = id.param /\ i.class = id.class /\ i.group = id.group => i = id
  BY DEF Id2
<1>2. found = IF id \in ids THEN {id} ELSE {}
  BY <1>1
<1>3. Lookup(ids, Topic(id, n)) = {<< i, n >> : i \in found}
  BY DEF Lookup, Topic
<1> HIDE DEF found
<1> QED
  BY <1>2, <1>3

\* No frame, and no topic in a frame, can be taken for another one: whatever
\* frame of whatever protocol, whatever table of parameters.
THEOREM FramesAndTopics == WellAsked => WireIsUnambiguous
<1> SUFFICES ASSUME WellAsked PROVE WireIsUnambiguous
  OBVIOUS
<1>1. FramesReadAsThemselves
  BY FrameRead DEF FramesReadAsThemselves, WellAsked
<1>2. ParametersAreFound
  BY RowFound, TopicFound DEF ParametersAreFound, WellAsked
<1> QED
  BY <1>1, <1>2 DEF WireIsUnambiguous

-----------------------------------------------------------------------------
(* Settings that are rounded on the way.                                   *)

\* What is encoded and comes back is what is decoded of the bytes of it.
LEMMA ThereAndBack ==
    ASSUME NEW kind \in Kinds1, NEW v, IsValue1(v),
           v.type \in Ddm1!Types(kind), Ddm1!Fits(kind, v)
    PROVE  LET e == Ddm1!Encode(kind, v)
           IN  /\ e.ok
               /\ Ddm1!Decode(kind, e.out).out = Ddm1!Decoded(kind, Ddm1!Bytes(kind, v))
<1> DEFINE b == Ddm1!Bytes(kind, v)
<1>1. Len(b) \in Ddm1!Lengths(kind)
  BY RoundTrip
<1>2. Ddm1!Encode(kind, v) = Ddm1!Done(b)
  BY DEF Ddm1!Encode
<1> HIDE DEF b
<1>3. Ddm1!Done(b).ok /\ Ddm1!Done(b).out = b
  BY DEF Ddm1!Done
<1>4. Ddm1!Decode(kind, b).out = Ddm1!Decoded(kind, b)
  BY <1>1 DEF Ddm1!Decode, Ddm1!Done
<1> QED
  BY <1>2, <1>3, <1>4 DEF b

\* The ends of a range, given or not, are whole tenths of an int16.
LEMMA RangeEnds ==
    ASSUME NEW d, IsRange(d.c0TemperatureRange)
    PROVE  \E a, b \in Int : /\ Cooler!MinTemp(d) = 10 * a /\ Cooler!MaxTemp(d) = 10 * b
                             /\ a >= -32768 /\ b <= 32767
<1> DEFINE r == d.c0TemperatureRange
<1>1. CASE r.type # "pair"
  <2>1. Cooler!MinTemp(d) = -2200 /\ Cooler!MaxTemp(d) = 1000
    BY <1>1 DEF Cooler!MinTemp, Cooler!MaxTemp, Cooler!FALLBACK_MIN_TEMP_C,
                Cooler!FALLBACK_MAX_TEMP_C
  <2>2. -2200 = 10 * (-220) /\ 1000 = 10 * 100
    OBVIOUS
  <2> QED
    BY <2>1, <2>2
<1>2. CASE r.type = "pair"
  <2>1. r # Cooler!Unknown
    BY <1>2 DEF Cooler!Unknown, Cooler!Value
  <2>2. /\ r.of \in Int \X Int
        /\ \A i \in 1 .. 2 : r.of[i] % 10 = 0 /\ -327680 <= r.of[i] /\ r.of[i] <= 327670
    BY <2>1 DEF IsRange
  <2>3. Cooler!MinTemp(d) = r.of[1] /\ Cooler!MaxTemp(d) = r.of[2]
    BY <1>2 DEF Cooler!MinTemp, Cooler!MaxTemp
  <2> DEFINE lo == r.of[1]
             hi == r.of[2]
  <2>4. /\ lo \in Int /\ lo % 10 = 0 /\ -327680 <= lo
        /\ hi \in Int /\ hi % 10 = 0 /\ hi <= 327670
    BY <2>2
  <2> HIDE DEF lo, hi
  <2>5. /\ lo = 10 * (lo \div 10) /\ lo \div 10 \in Int
        /\ hi = 10 * (hi \div 10) /\ hi \div 10 \in Int
    BY <2>4
  <2>6. PICK a, b \in Int : lo = 10 * a /\ hi = 10 * b
    BY <2>5
  <2>7. a >= -32768 /\ b <= 32767
    BY <2>4, <2>6
  <2> QED
    BY <2>3, <2>6, <2>7 DEF lo, hi
<1> QED
  BY <1>1, <1>2

\* A temperature in the range is written to the nearest tenth, and stays in it.
LEMMA TemperatureObeyed ==
    ASSUME NEW d, d = [p \in DOMAIN Cooler!Kind |-> d[p]], IsRange(d.c0TemperatureRange),
           NEW t \in Int, Cooler!MinTemp(d) <= t, t <= Cooler!MaxTemp(d)
    PROVE  LET w == Cooler!SetTemperature(t)
               e == Ddm1!Encode(Cooler!Kind[w.p], w.value)
               shown == [d EXCEPT ![w.p] = Ddm1!Decode(Cooler!Kind[w.p], e.out).out]
           IN  /\ e.ok
               /\ Within(Cooler!TargetTemperature(shown).of, t, 5)
               /\ Cooler!TargetTemperature(shown).of \in Cooler!MinTemp(d) .. Cooler!MaxTemp(d)
<1> DEFINE k == "c0SetTemperature"
           kind == "INT16_DECIDEGREE_CELSIUS"
           v == Cooler!Value("float", t)
           n == Ddm1!Tenths(t)
           e == Ddm1!Encode(kind, v)
           back == Ddm1!Decode(kind, e.out).out
           shown == [d EXCEPT ![k] = back]
<1>1. PICK a, b \in Int : /\ Cooler!MinTemp(d) = 10 * a /\ Cooler!MaxTemp(d) = 10 * b
                         /\ a >= -32768 /\ b <= 32767
  BY RangeEnds
<1>2. n \in Int /\ 10 * n - t <= 5 /\ t - 10 * n <= 5
  BY TenthsIsNearest
<1> HIDE DEF n
<1>3. a <= n /\ n <= b
  BY <1>1, <1>2
<1>4. Ddm1!DeciFits(t)
  BY <1>1, <1>2, <1>3 DEF Ddm1!DeciFits, n
<1>5. /\ Cooler!SetTemperature(t).p = k /\ Cooler!SetTemperature(t).value = v
      /\ Cooler!Kind[k] = kind /\ k \in DOMAIN Cooler!Kind
  BY DEF Cooler!SetTemperature, Cooler!Writes, Cooler!Kind
<1>6. v.type = "float" /\ v.of = t
  BY DEF Cooler!Value
<1>7. kind \in Kinds1 /\ kind \in Ddm1!DeciKinds
  BY DEF Kinds1, Ddm1!DeciKinds
<1> HIDE DEF v, k
<1>8. Ddm1!Hundredths(v) = t
  BY <1>6 DEF Ddm1!Hundredths
<1>9. "float" \in Ddm1!Types(kind) /\ IsValue1(v)
  BY <1>6 DEF Ddm1!Types, Ddm1!DeciKinds, IsValue1
<1> HIDE DEF kind
<1>10. Ddm1!Fits(kind, v)
  BY <1>4, <1>7, <1>8, DeciKindFits
<1>11. e.ok /\ back = Ddm1!Decoded(kind, Ddm1!Bytes(kind, v))
  BY <1>6, <1>7, <1>9, <1>10, ThereAndBack
<1>12. Ddm1!Bytes(kind, v) = Ddm1!DeciBytes(t)
  BY <1>7, <1>8 DEF Ddm1!Bytes, Ddm1!DeciKinds
<1> DEFINE bytes == Ddm1!DeciBytes(t)
<1>13. Ddm1!FromDeci(bytes) = 10 * n
  BY <1>4, DeciWritten DEF n
<1> HIDE DEF bytes
<1>14. Ddm1!Decoded(kind, bytes) = Ddm1!Value("float", Ddm1!FromDeci(bytes))
  BY <1>7 DEF Ddm1!Decoded, Ddm1!DeciKinds
<1>15. back = Ddm1!Value("float", 10 * n)
  BY <1>11, <1>12, <1>13, <1>14 DEF bytes
<1> HIDE DEF e, back
<1>16. shown[k] = back
  <2>1. \A f, x : f = [p \in DOMAIN Cooler!Kind |-> f[p]] => [f EXCEPT ![k] = x][k] = x
    BY <1>5
  <2> QED
    BY <2>1
<1>17. Cooler!TargetTemperature(shown).of = 10 * n
  <2> HIDE DEF shown
  <2>1. back.type = "float" /\ back.of = 10 * n
    BY <1>15 DEF Ddm1!Value
  <2>2. Cooler!AsFloat(back).of = 10 * n
    BY <2>1 DEF Cooler!AsFloat, Cooler!Hundredths, Cooler!Value
  <2> QED
    BY <1>16, <2>2 DEF Cooler!TargetTemperature, k
<1> HIDE DEF shown
<1>18. Within(10 * n, t, 5) /\ 10 * n \in 10 * a .. 10 * b
  BY <1>1, <1>2, <1>3 DEF Within
<1> QED
  BY <1>1, <1>5, <1>11, <1>17, <1>18 DEF e, back, shown

\* Switched on or off, the cooler is shown as that.
LEMMA ModeObeyed ==
    ASSUME NEW d, d = [p \in DOMAIN Cooler!Kind |-> d[p]], NEW mode \in {"off", "cool"}
    PROVE  LET w == Cooler!SetHvacMode(mode)
               e == Ddm1!Encode(Cooler!Kind[w.p], w.value)
               shown == [d EXCEPT ![w.p] = Ddm1!Decode(Cooler!Kind[w.p], e.out).out]
           IN  e.ok /\ Cooler!CompartmentMode(shown) = mode
<1> DEFINE k == "c0Power"
           kind == "INT8_BOOLEAN"
           x == IF mode = "cool" THEN 1 ELSE 0
           v == Cooler!Value("bool", x)
           e == Ddm1!Encode(kind, v)
           back == Ddm1!Decode(kind, e.out).out
           shown == [d EXCEPT ![k] = back]
<1>1. /\ Cooler!SetHvacMode(mode).p = k /\ Cooler!SetHvacMode(mode).value = v
      /\ Cooler!Kind[k] = kind /\ k \in DOMAIN Cooler!Kind
  BY DEF Cooler!SetHvacMode, Cooler!Writes, Cooler!Kind
<1>2. x \in {0, 1} /\ (x = 1 <=> mode = "cool")
  OBVIOUS
<1> HIDE DEF x
<1>3. v.type = "bool" /\ v.of = x
  BY DEF Cooler!Value
<1> HIDE DEF v
<1>4. kind \in Kinds1 /\ "bool" \in Ddm1!Types(kind) /\ IsValue1(v) /\ Ddm1!Fits(kind, v)
  BY <1>2, <1>3 DEF Kinds1, Ddm1!Types, Ddm1!Fits, Ddm1!DeciKinds, IsValue1
<1>5. e.ok /\ back = Ddm1!Decoded(kind, Ddm1!Bytes(kind, v))
  BY <1>3, <1>4, ThereAndBack
<1> DEFINE b == Ddm1!Bytes(kind, v)
<1>6. Ddm1!Decoded(kind, b).of = IF v.of = 0 THEN 0 ELSE 1
  BY BooleanRoundTrip
<1> HIDE DEF b
<1>7. Ddm1!Decoded(kind, b).type = "bool"
  BY DEF Ddm1!Decoded, Ddm1!Value, Ddm1!DeciKinds
<1>8. back.of = x /\ back.type = "bool"
  BY <1>2, <1>3, <1>5, <1>6, <1>7 DEF b
<1> HIDE DEF e, back, k
<1>9. shown[k] = back
  <2>1. \A f, y : f = [p \in DOMAIN Cooler!Kind |-> f[p]] => [f EXCEPT ![k] = y][k] = y
    BY <1>1
  <2> QED
    BY <2>1
<1> HIDE DEF shown
<1>10. shown.c0Power = back
  BY <1>9 DEF k
<1>11. Cooler!AsBool(back) = Cooler!Value("bool", x)
  <2>1. (IF back.of = 0 THEN 0 ELSE 1) = x
    BY <1>2, <1>8
  <2> QED
    BY <1>8, <2>1 DEF Cooler!AsBool
<1>12. /\ Cooler!IsOn(back) <=> x = 1
       /\ Cooler!IsOff(back) <=> x = 0
  BY <1>2, <1>11 DEF Cooler!IsOn, Cooler!IsOff, Cooler!Value
<1>13. Cooler!CompartmentMode(shown) = mode
  <2>1. CASE x = 1
    <3>1. Cooler!IsOn(shown.c0Power) /\ ~Cooler!IsOff(shown.c0Power)
      BY <1>10, <1>12, <2>1
    <3> QED
      BY <1>2, <2>1, <3>1 DEF Cooler!CompartmentMode
  <2>2. CASE x = 0
    <3>1. ~Cooler!IsOn(shown.c0Power) /\ Cooler!IsOff(shown.c0Power)
      BY <1>10, <1>12, <2>2
    <3> QED
      BY <1>2, <2>2, <3>1 DEF Cooler!CompartmentMode
  <2> QED
    BY <1>2, <2>1, <2>2
<1> QED
  BY <1>1, <1>5, <1>13 DEF e, back, shown

\* The option that was selected is the one that is shown.
LEMMA OptionObeyed ==
    ASSUME NEW d, d = [p \in DOMAIN Cooler!Kind |-> d[p]], NEW option \in {"low", "medium", "high"}
    PROVE  LET w == Cooler!SelectOption(option)
               e == Ddm1!Encode(Cooler!Kind[w.p], w.value)
               shown == [d EXCEPT ![w.p] = Ddm1!Decode(Cooler!Kind[w.p], e.out).out]
           IN  e.ok /\ Cooler!CurrentOption(shown) = option
<1> DEFINE k == "batteryProtectionLevel"
           kind == "INT8_NUMBER"
           n == CHOOSE n \in 0 .. 2 : Cooler!Options[n + 1] = option
           v == Cooler!Value("int", n)
           e == Ddm1!Encode(kind, v)
           back == Ddm1!Decode(kind, e.out).out
           shown == [d EXCEPT ![k] = back]
<1>1. /\ Cooler!SelectOption(option).p = k /\ Cooler!SelectOption(option).value = v
      /\ Cooler!Kind[k] = kind /\ k \in DOMAIN Cooler!Kind
  BY DEF Cooler!SelectOption, Cooler!Writes, Cooler!Kind
<1>2. n \in 0 .. 2 /\ Cooler!Options[n + 1] = option
  <2>1. \E m \in 0 .. 2 : Cooler!Options[m + 1] = option
    <3>1. /\ Cooler!Options[0 + 1] = "low" /\ Cooler!Options[1 + 1] = "medium"
          /\ Cooler!Options[2 + 1] = "high"
      BY DEF Cooler!Options
    <3>2. 0 \in 0 .. 2 /\ 1 \in 0 .. 2 /\ 2 \in 0 .. 2
      OBVIOUS
    <3> HIDE DEF n
    <3> QED
      BY <3>1, <3>2
  <2> QED
    BY <2>1
<1> HIDE DEF n
<1>3. v.type = "int" /\ v.of = n
  BY DEF Cooler!Value
<1> HIDE DEF v
<1>4. kind \in Kinds1 /\ "int" \in Ddm1!Types(kind)
  BY DEF Kinds1, Ddm1!Types, Ddm1!DeciKinds
<1>5. IsValue1(v)
  BY <1>2, <1>3 DEF IsValue1
<1>6. Ddm1!Fits(kind, v)
  <2>1. v.of \in -128 .. 127
    BY <1>2, <1>3
  <2> QED
    BY <2>1 DEF Ddm1!Fits, Ddm1!DeciKinds
<1>7. e.ok /\ back = Ddm1!Decoded(kind, Ddm1!Bytes(kind, v))
  BY <1>3, <1>4, <1>5, <1>6, ThereAndBack
<1> DEFINE b == Ddm1!Bytes(kind, v)
<1>8. Ddm1!Decoded(kind, b).of = n
  BY <1>2, <1>3, <1>6, NumberRoundTrip
<1> HIDE DEF b
<1>9. Ddm1!Decoded(kind, b).type = "int"
  BY DEF Ddm1!Decoded, Ddm1!Value, Ddm1!DeciKinds
<1>10. back.of = n /\ back.type = "int"
  BY <1>7, <1>8, <1>9 DEF b
<1> HIDE DEF e, back, k
<1>11. shown[k] = back
  <2>1. \A f, y : f = [p \in DOMAIN Cooler!Kind |-> f[p]] => [f EXCEPT ![k] = y][k] = y
    BY <1>1
  <2> QED
    BY <2>1
<1> HIDE DEF shown
<1>12. shown.batteryProtectionLevel = back
  BY <1>11 DEF k
<1>13. Cooler!CurrentOption(shown) = option
  BY <1>2, <1>10, <1>12 DEF Cooler!CurrentOption
<1> QED
  BY <1>1, <1>7, <1>13 DEF e, back, shown

\* Rounding is to the nearest, for the two scales there are.
LEMMA RoundDivNear ==
    ASSUME NEW n \in Nat
    PROVE  /\ FreshJet!RoundDiv(n, 255) \in Nat
           /\ 2 * n - 510 * FreshJet!RoundDiv(n, 255) \in -255 .. 255
           /\ FreshJet!RoundDiv(n, 100) \in Nat
           /\ 2 * n - 200 * FreshJet!RoundDiv(n, 100) \in -100 .. 100
<1>1. /\ n \div 255 \in Nat /\ n % 255 \in 0 .. 254 /\ n = 255 * (n \div 255) + (n % 255)
      /\ n \div 100 \in Nat /\ n % 100 \in 0 .. 99 /\ n = 100 * (n \div 100) + (n % 100)
  OBVIOUS
<1> DEFINE q1 == n \div 255
           r1 == n % 255
           q2 == n \div 100
           r2 == n % 100
<1>2. \/ FreshJet!RoundDiv(n, 255) = q1 /\ 2 * r1 <= 255
      \/ FreshJet!RoundDiv(n, 255) = q1 + 1 /\ 2 * r1 >= 255
  BY <1>1 DEF FreshJet!RoundDiv
<1>3. \/ FreshJet!RoundDiv(n, 100) = q2 /\ 2 * r2 <= 100
      \/ FreshJet!RoundDiv(n, 100) = q2 + 1 /\ 2 * r2 >= 100
  BY <1>1 DEF FreshJet!RoundDiv
<1> HIDE DEF q1, r1, q2, r2
<1>4. /\ q1 \in Nat /\ r1 \in 0 .. 254 /\ n = 255 * q1 + r1
      /\ q2 \in Nat /\ r2 \in 0 .. 99 /\ n = 100 * q2 + r2
  BY <1>1 DEF q1, r1, q2, r2
<1> QED
  BY <1>2, <1>3, <1>4

\* A brightness that is shown is one of Home Assistant's, and written as the
\* position of the dimmer it stands for.
LEMMA DimmerObeyed ==
    ASSUME NEW percent \in Int
    PROVE  LET shown == FreshJet!Brightness(percent)
           IN  /\ shown \in 1 .. 255
               /\ percent \in 1 .. 100 => FreshJet!Percent(shown) = percent
<1> PICK q \in 1 .. 100 : /\ FreshJet!Brightness(percent) = FreshJet!RoundDiv(q * 255, 100)
                          /\ percent \in 1 .. 100 => q = percent
  <2> DEFINE p == IF percent < 1 THEN 1 ELSE IF percent > 100 THEN 100 ELSE percent
  <2>1. p \in 1 .. 100 /\ (percent \in 1 .. 100 => p = percent)
    OBVIOUS
  <2>2. FreshJet!Brightness(percent) = FreshJet!RoundDiv(p * 255, 100)
    BY DEF FreshJet!Brightness
  <2> HIDE DEF p
  <2> QED
    BY <2>1, <2>2
<1> DEFINE b == FreshJet!RoundDiv(q * 255, 100)
           r == FreshJet!RoundDiv(b * 100, 255)
<1>1. q * 255 \in Nat
  OBVIOUS
<1>2. b \in Nat /\ 2 * (q * 255) - 200 * b \in -100 .. 100
  BY <1>1, RoundDivNear
<1> HIDE DEF b
<1>3. b \in 1 .. 255
  BY <1>2
<1>4. b * 100 \in Nat
  BY <1>2
<1>5. r \in Nat /\ 2 * (b * 100) - 510 * r \in -255 .. 255
  BY <1>4, RoundDivNear
<1> HIDE DEF r
<1>6. r = q
  BY <1>2, <1>5
<1> QED
  BY <1>3, <1>6 DEF FreshJet!Percent, b, r

\* What a user sets of a cooler, or of a light, comes back as set: any
\* temperature in any range the cooler can have given, any position.
LEMMA CoolerSettings == WellAsked => CoolerObeys /\ DimmerRoundTrip
<1> SUFFICES ASSUME WellAsked PROVE CoolerObeys /\ DimmerRoundTrip
  OBVIOUS
<1>1. CoolerObeys
  <2> SUFFICES ASSUME probe[1] = "cooler" PROVE CoolerObeys
    BY DEF CoolerObeys
  <2> DEFINE d == probe[2]
             x == probe[4]
  <2>1. /\ d = [p \in DOMAIN Cooler!Kind |-> d[p]] /\ IsRange(d.c0TemperatureRange)
        /\ Settable(d, probe[3], x)
    BY DEF WellAsked
  <2>2. CASE probe[3] = "temperature"
    <3>1. x \in Int /\ Cooler!MinTemp(d) <= x /\ x <= Cooler!MaxTemp(d)
      BY <2>1, <2>2 DEF Settable
    <3> QED
      BY <2>1, <2>2, <3>1, TemperatureObeyed DEF CoolerObeys
  <2>3. CASE probe[3] = "mode"
    <3>1. x \in {"off", "cool"}
      BY <2>1, <2>3 DEF Settable
    <3> QED
      BY <2>1, <2>3, <3>1, ModeObeyed DEF CoolerObeys
  <2>4. CASE probe[3] = "option"
    <3>1. x \in {"low", "medium", "high"}
      BY <2>1, <2>4 DEF Settable
    <3> QED
      BY <2>1, <2>4, <3>1, OptionObeyed, ZenonT(40) DEF CoolerObeys
  <2> QED
    BY <2>1, <2>2, <2>3, <2>4 DEF Settable
<1>2. DimmerRoundTrip
  BY DimmerObeyed DEF DimmerRoundTrip, WellAsked
<1> QED
  BY <1>1, <1>2

-----------------------------------------------------------------------------
(* Values that come back from the console.                                 *)

\* To the codec v is as good as w.
AsGood(kind, v, w) ==
    /\ v.type \in Ddm1!Types(kind) /\ Ddm1!Fits(kind, v) /\ Ddm1!Fits(kind, w)
    /\ Ddm1!Bytes(kind, v) = Ddm1!Bytes(kind, w)

\* The console takes x for something as good as w ...
TakenFor(kind, x, w) ==
    \E v : Console!Coerce1(kind, x) = Console!Done(v) /\ AsGood(kind, v, w)

\* ... or it is refused, by the console or by the codec.
Refused(kind, x) ==
    \/ Console!Coerce1(kind, x) = Console!Rejected
    \/ \E v : /\ Console!Coerce1(kind, x) = Console!Done(v)
              /\ v.type \notin Ddm1!Types(kind) \/ ~Ddm1!Fits(kind, v)

\* What a value is as JSON, and as a text.
Shown(w) ==
    {Console!Json1(w)} \cup {Console!Display1(unit, w) : unit \in {"-", "enum", "^C"}}

\* What is sent back was shown or typed.
LEMMA SentBackForms ==
    ASSUME NEW w, NEW x \in SentBack1(w)
    PROVE  x = Typed(Console!Json1(w), 100) \/ x \in Shown(w)
BY DEF SentBack1, Shown

\* A label is text, for both kinds of text the console knows.
LEMMA LabelledIsText ==
    /\ Console!Labelled.type = "text"
    /\ Console!IsText(Console!Labelled)
BY DEF Console!Labelled, Console!Json, Console!IsText

\* A label is no number.
LEMMA LabelRefused ==
    ASSUME NEW kind \in {"INT8_NUMBER", "UINT8_NUMBER"} \cup Ddm1!DeciKinds
    PROVE  Refused(kind, Console!Labelled)
<1> DEFINE x == Console!Labelled
<1>1. x.type = "text" /\ Console!IsText(x)
  BY LabelledIsText
<1> HIDE DEF x
<1>2. CASE kind \in {"INT8_NUMBER", "UINT8_NUMBER"}
  <2>1. Console!Coerce1(kind, x) = Console!Rejected
    BY <1>1, <1>2 DEF Console!Coerce1, Console!DeciKinds
  <2> QED
    BY <2>1 DEF Refused, x
<1>3. CASE kind \in Ddm1!DeciKinds
  <2>1. Console!Coerce1(kind, x) = Console!Rejected
    BY <1>1, <1>3 DEF Console!Coerce1, Console!DeciKinds, Ddm1!DeciKinds
  <2> QED
    BY <2>1 DEF Refused, x
<1> QED
  BY <1>2, <1>3

\* A switch comes back as true or false, yes or no.
LEMMA BooleanSentBack ==
    ASSUME NEW b \in {0, 1}
    PROVE  LET w == Ddm1!Value("bool", b)
           IN  /\ \A x \in SentBack1(w) : TakenFor("INT8_BOOLEAN", x, w)
               /\ TakenFor("INT8_BOOLEAN", Console!Json1(w), w)
<1> DEFINE kind == "INT8_BOOLEAN"
           w == Ddm1!Value("bool", b)
           v == Console!Value("bool", b)
<1>1. v = w /\ w.type = "bool" /\ w.of = b
  BY DEF Ddm1!Value, Console!Value
<1>2. AsGood(kind, v, w)
  BY <1>1 DEF AsGood, Ddm1!Types, Ddm1!Fits, Ddm1!DeciKinds
<1> HIDE DEF w
<1>3. Console!Json1(w) = w
  BY <1>1 DEF Console!Json1
<1>4. Console!Coerce1(kind, w) = Console!Done(w)
  <2>1. ~Console!IsText(w)
    BY <1>1 DEF Console!IsText
  <2>2. Console!FromJson1(w) = w
    BY <1>1 DEF Console!FromJson1, Console!IsText
  <2> QED
    BY <2>1, <2>2 DEF Console!Coerce1, Console!DeciKinds
<1>5. ASSUME NEW y \in {"yes", "no", "true", "false"}, b = 1 <=> y \in {"yes", "true"}
      PROVE  TakenFor(kind, Console!Says(y), w)
  <2> DEFINE x == Console!Says(y)
  <2>1. x.type = "word" /\ x.of = y
    BY DEF Console!Says, Console!Json
  <2> HIDE DEF x
  <2>2. Console!IsText(x)
    BY <2>1 DEF Console!IsText
  <2>3. (x.type = "word" /\ x.of \in Console!YesWords) <=> b = 1
    BY <1>5, <2>1 DEF Console!YesWords
  <2>4. x.type # "digits"
    BY <2>1
  <2> DEFINE n == IF \/ x.type = "word" /\ x.of \in Console!YesWords
                     \/ x.type = "digits" /\ x.of = [n |-> 100, dotted |-> FALSE]
                  THEN 1 ELSE 0
  <2>5. n = b
    BY <2>3, <2>4
  <2>6. Console!Coerce1(kind, x) = Console!Done(Console!Value("bool", n))
    BY <2>2 DEF Console!Coerce1, Console!DeciKinds
  <2> HIDE DEF n
  <2> QED
    BY <1>2, <2>5, <2>6 DEF TakenFor, x
<1>6. TakenFor(kind, w, w)
  BY <1>1, <1>2, <1>4 DEF TakenFor
<1>7. TakenFor(kind, Typed(w, 100), w)
  <2>1. Typed(w, 100) = Console!Says(IF b = 1 THEN "true" ELSE "false")
    BY <1>1 DEF Typed
  <2> QED
    BY <1>5, <2>1
<1>8. ASSUME NEW unit PROVE TakenFor(kind, Console!Display1(unit, w), w)
  <2>1. Console!Display1(unit, w) = Console!Says(IF b = 0 THEN "no" ELSE "yes")
    BY <1>1 DEF Console!Display1
  <2> QED
    BY <1>5, <2>1
<1>9. \A x \in SentBack1(w) : TakenFor(kind, x, w)
  BY <1>3, <1>6, <1>7, <1>8, SentBackForms DEF Shown
<1> QED
  BY <1>3, <1>6, <1>9 DEF w

\* A number of hundreds is whole.
LEMMA WholeHundreds ==
    ASSUME NEW n \in Int
    PROVE  (100 * n) % 100 = 0 /\ (100 * n) \div 100 = n
BY SMT

\* What is whole is a number of hundreds.
LEMMA WholeDegrees ==
    ASSUME NEW n \in Int, n % 100 = 0
    PROVE  100 * (n \div 100) = n
BY SMT

\* A number comes back as the same number, or as a text that is refused.
LEMMA NumberSentBack ==
    ASSUME NEW kind \in {"INT8_NUMBER", "UINT8_NUMBER"}, NEW n \in Int,
           Ddm1!Fits(kind, Ddm1!Value("int", n))
    PROVE  LET w == Ddm1!Value("int", n)
           IN  /\ \A x \in SentBack1(w) : TakenFor(kind, x, w) \/ Refused(kind, x)
               /\ TakenFor(kind, Console!Json1(w), w)
<1> DEFINE w == Ddm1!Value("int", n)
           m == 100 * n
           j == Console!Json("num", m)
           g == Console!Digits(m, FALSE)
<1>1. Console!Value("int", n) = w /\ w.type = "int" /\ w.of = n
  BY DEF Ddm1!Value, Console!Value
<1>2. AsGood(kind, w, w)
  <2>1. "int" \in Ddm1!Types(kind)
    BY DEF Ddm1!Types, Ddm1!DeciKinds
  <2> QED
    BY <1>1, <2>1 DEF AsGood
<1> HIDE DEF w
<1>3. m \in Int /\ m % 100 = 0 /\ m \div 100 = n
  BY WholeHundreds
<1>4. Console!Hundredths(w) = m
  BY <1>1 DEF Console!Hundredths
<1> HIDE DEF m
<1>5. Console!Json1(w) = j
  BY <1>1, <1>4 DEF Console!Json1
<1>6. j.type = "num" /\ j.of = m
  BY DEF Console!Json
<1>7. g.type = "digits" /\ g.of.n = m /\ g.of.dotted = FALSE
  BY DEF Console!Digits, Console!Json
<1> HIDE DEF j, g
<1>8. TakenFor(kind, j, w)
  <2>1. ~Console!IsText(j)
    BY <1>6 DEF Console!IsText
  <2>2. Console!FromJson1(j) = w
    BY <1>1, <1>3, <1>6 DEF Console!FromJson1, Console!IsText
  <2>3. Console!Coerce1(kind, j) = Console!Done(w)
    BY <2>1, <2>2 DEF Console!Coerce1, Console!DeciKinds
  <2> QED
    BY <1>2, <2>3 DEF TakenFor
<1>9. TakenFor(kind, g, w)
  <2>1. Console!IsText(g)
    BY <1>7 DEF Console!IsText
  <2>2. Console!Coerce1(kind, g) = Console!Done(Console!Value("int", g.of.n \div 100))
    BY <1>7, <2>1 DEF Console!Coerce1, Console!DeciKinds
  <2>3. Console!Coerce1(kind, g) = Console!Done(w)
    BY <1>1, <1>3, <1>7, <2>2
  <2> QED
    BY <1>2, <2>3 DEF TakenFor
<1>10. Typed(j, 100) = g
  <2>1. (j.of % 100 # 0) = FALSE
    BY <1>3, <1>6
  <2>2. Typed(j, 100) = Console!Digits(m, FALSE)
    BY <1>6, <2>1 DEF Typed
  <2> QED
    BY <2>2 DEF g
<1>11. ASSUME NEW unit \in {"-", "enum", "^C"}
       PROVE  Console!Display1(unit, w) \in {g, Console!Labelled}
  <2>1. (w.type = "float") = FALSE
    BY <1>1
  <2>2. unit \in {"-", "enum"} => Console!Display1(unit, w) = Console!Digits(m, FALSE)
    BY <1>1, <1>4, <2>1 DEF Console!Display1
  <2>3. unit = "^C" => Console!Display1(unit, w) = Console!Labelled
    BY <1>1 DEF Console!Display1
  <2> QED
    BY <2>2, <2>3 DEF g
<1>12. Refused(kind, Console!Labelled)
  BY LabelRefused
<1>13. \A x \in SentBack1(w) : TakenFor(kind, x, w) \/ Refused(kind, x)
  BY <1>5, <1>8, <1>9, <1>10, <1>11, <1>12, SentBackForms DEF Shown
<1> QED
  BY <1>5, <1>8, <1>13 DEF w

\* A temperature or a voltage comes back as the same, whether JSON or somebody
\* who types it made an int of it.
LEMMA DeciSentBack ==
    ASSUME NEW kind \in Ddm1!DeciKinds, NEW r \in Int,
           Ddm1!Fits(kind, Ddm1!Value("float", r))
    PROVE  LET w == Ddm1!Value("float", r)
           IN  /\ \A x \in SentBack1(w) : TakenFor(kind, x, w) \/ Refused(kind, x)
               /\ TakenFor(kind, Console!Json1(w), w)
<1> DEFINE w == Ddm1!Value("float", r)
           j == Console!Json("num", r)
           g(dotted) == Console!Digits(r, dotted)
<1>1. w.type = "float" /\ w.of = r /\ Ddm1!Hundredths(w) = r
  BY DEF Ddm1!Value, Ddm1!Hundredths
<1> HIDE DEF w
<1>2. ASSUME NEW v, v.type \in {"int", "float"}, Ddm1!Hundredths(v) = r
      PROVE  AsGood(kind, v, w)
  <2>1. v.type \in Ddm1!Types(kind)
    BY <1>2 DEF Ddm1!Types, Ddm1!DeciKinds
  <2>2. Ddm1!Fits(kind, v)
    <3>1. Ddm1!Fits(kind, w) <=> Ddm1!DeciFits(Ddm1!Hundredths(w))
      BY DEF Ddm1!Fits, Ddm1!DeciKinds
    <3>2. Ddm1!Fits(kind, v) <=> Ddm1!DeciFits(Ddm1!Hundredths(v))
      BY DEF Ddm1!Fits, Ddm1!DeciKinds
    <3>3. Ddm1!Fits(kind, w)
      BY DEF w
    <3> QED
      BY <1>1, <1>2, <3>1, <3>2, <3>3
  <2>3. Ddm1!Bytes(kind, v) = Ddm1!DeciBytes(Ddm1!Hundredths(v))
    BY DEF Ddm1!Bytes, Ddm1!DeciKinds
  <2>4. Ddm1!Bytes(kind, w) = Ddm1!DeciBytes(Ddm1!Hundredths(w))
    BY DEF Ddm1!Bytes, Ddm1!DeciKinds
  <2>5. Ddm1!Fits(kind, w)
    BY DEF w
  <2> QED
    BY <1>1, <1>2, <2>1, <2>2, <2>3, <2>4, <2>5 DEF AsGood
<1>3. Console!Hundredths(w) = r
  BY <1>1 DEF Console!Hundredths
<1>4. Console!Json1(w) = j
  BY <1>1, <1>3 DEF Console!Json1
<1>5. j.type = "num" /\ j.of = r
  BY DEF Console!Json
<1> HIDE DEF j
<1>6. TakenFor(kind, j, w)
  <2> DEFINE v == IF r % 100 = 0 THEN Console!Value("int", r \div 100)
                  ELSE Console!Value("float", r)
  <2>1. v.type \in {"int", "float"} /\ Ddm1!Hundredths(v) = r
    <3>1. CASE r % 100 = 0
      <4>1. v.type = "int" /\ v.of = r \div 100
        BY <3>1 DEF Console!Value
      <4> QED
        BY <3>1, <4>1, WholeDegrees DEF Ddm1!Hundredths
    <3>2. CASE r % 100 # 0
      BY <3>2 DEF Console!Value, Ddm1!Hundredths
    <3> QED
      BY <3>1, <3>2
  <2>2. ~Console!IsText(j)
    BY <1>5 DEF Console!IsText
  <2>3. Console!FromJson1(j) = v
    BY <1>5 DEF Console!FromJson1, Console!IsText
  <2> HIDE DEF v
  <2>4. Console!Coerce1(kind, j) = Console!Done(v)
    BY <2>2, <2>3 DEF Console!Coerce1, Console!DeciKinds
  <2> QED
    BY <1>2, <2>1, <2>4 DEF TakenFor
<1>7. ASSUME NEW dotted \in BOOLEAN
      PROVE  TakenFor(kind, g(dotted), w)
  <2> DEFINE x == g(dotted)
             v == Console!Value("float", r)
  <2>1. x.type = "digits" /\ x.of.n = r
    BY DEF Console!Digits, Console!Json
  <2> HIDE DEF x
  <2>2. Console!IsText(x)
    BY <2>1 DEF Console!IsText
  <2>3. Console!Coerce1(kind, x) = Console!Done(v)
    BY <2>1, <2>2 DEF Console!Coerce1, Console!DeciKinds, Ddm1!DeciKinds
  <2>4. v.type \in {"int", "float"} /\ Ddm1!Hundredths(v) = r
    BY DEF Console!Value, Ddm1!Hundredths
  <2> HIDE DEF v
  <2> QED
    BY <1>2, <2>3, <2>4 DEF TakenFor, x
<1>8. PICK dotted \in BOOLEAN : Typed(j, 100) = g(dotted)
  <2> DEFINE c == r % 100 # 0
  <2>1. c \in BOOLEAN
    OBVIOUS
  <2>2. Typed(j, 100) = g(c)
    BY <1>5 DEF Typed
  <2> HIDE DEF c, g
  <2> QED
    BY <2>1, <2>2
<1>9. ASSUME NEW unit \in {"-", "enum", "^C"}
      PROVE  Console!Display1(unit, w) \in {g(TRUE), Console!Labelled}
  <2>1. (w.type = "float") = TRUE
    BY <1>1
  <2>2. unit \in {"-", "enum"} => Console!Display1(unit, w) = g(TRUE)
    BY <1>1, <1>3, <2>1 DEF Console!Display1
  <2>3. unit = "^C" => Console!Display1(unit, w) = Console!Labelled
    BY <1>1 DEF Console!Display1
  <2> HIDE DEF g
  <2> QED
    BY <2>2, <2>3
<1> HIDE DEF g
<1>10. Refused(kind, Console!Labelled)
  BY LabelRefused
<1>11. TakenFor(kind, g(TRUE), w) /\ TakenFor(kind, g(dotted), w)
  BY <1>7, <1>8
<1>12. \A x \in SentBack1(w) : TakenFor(kind, x, w) \/ Refused(kind, x)
  BY <1>4, <1>6, <1>8, <1>9, <1>10, <1>11, SentBackForms DEF Shown
<1> QED
  BY <1>4, <1>6, <1>12 DEF w

\* Nobody can type a pair or a history, and JSON's arrays and objects are
\* refused by the codec.
LEMMA StructureSentBack ==
    ASSUME NEW kind \in {"INT16_ARRAY", "HISTORY_DATA_ARRAY"}, NEW w,
           w.type \in {"pair", "history"}
    PROVE  \A x \in SentBack1(w) : Refused(kind, x)
<1> DEFINE j == Console!Json1(w)
           Plain == Console!Labelled
<1>1. j.type \in {"array", "object"}
  BY DEF Console!Json1, Console!Json
<1>2. Plain.type = "text" /\ Console!IsText(Plain)
  BY LabelledIsText
<1>3. Typed(j, 100) = Plain
  <2> HIDE DEF j
  <2> QED
    BY <1>1 DEF Typed
<1>4. \A unit : Console!Display1(unit, w) = Plain
  BY DEF Console!Display1
<1> HIDE DEF j, Plain
<1>5. ASSUME NEW v, v.type \in {"array", "object", "str"} PROVE v.type \notin Ddm1!Types(kind)
  BY <1>5 DEF Ddm1!Types, Ddm1!DeciKinds
<1>6. ASSUME NEW x, x = j \/ x = Plain PROVE Refused(kind, x)
  <2> DEFINE v == Console!FromJson1(x)
  <2>1. v.type \in {"array", "object", "str"}
    <3>1. CASE x = j
      BY <1>1, <3>1 DEF Console!FromJson1, Console!IsText, Console!Value
    <3>2. CASE x = Plain
      BY <1>2, <3>2 DEF Console!FromJson1, Console!IsText, Console!Value
    <3> QED
      BY <1>6, <3>1, <3>2
  <2> HIDE DEF v
  <2>2. Console!Coerce1(kind, x) = Console!Done(v)
    BY DEF Console!Coerce1, Console!DeciKinds, v
  <2> QED
    BY <1>5, <2>1, <2>2 DEF Refused
<1> QED
  BY <1>3, <1>4, <1>6, SentBackForms DEF Shown, j

\* A text comes back as it is, quoted or not.
LEMMA TextSentBack ==
    ASSUME NEW t
    PROVE  LET w == Ddm1!Value("str", t)
           IN  \A x \in SentBack1(w) : TakenFor("UTF8_STRING", x, w) \/ Refused("UTF8_STRING", x)
<1> DEFINE kind == "UTF8_STRING"
           w == Ddm1!Value("str", t)
           j == Console!Json("text", t)
<1>1. Console!Value("str", t) = w /\ w.type = "str" /\ w.of = t
  BY DEF Ddm1!Value, Console!Value
<1>2. Ddm1!Fits(kind, w) => AsGood(kind, w, w)
  <2>1. "str" \in Ddm1!Types(kind)
    BY DEF Ddm1!Types, Ddm1!DeciKinds
  <2> QED
    BY <1>1, <2>1 DEF AsGood
<1> HIDE DEF w
<1>3. Console!Json1(w) = j
  BY <1>1 DEF Console!Json1
<1>4. \A unit : Console!Display1(unit, w) = j
  BY <1>1 DEF Console!Display1
<1>5. j.type = "text" /\ j.of = t
  BY DEF Console!Json
<1> HIDE DEF j
<1>6. Typed(j, 100) = j
  BY <1>5 DEF Typed
<1>7. Console!FromJson1(j) = w
  BY <1>1, <1>5 DEF Console!FromJson1, Console!IsText
<1>8. Console!Coerce1(kind, j) = Console!Done(w)
  BY <1>7 DEF Console!Coerce1, Console!DeciKinds
<1>9. TakenFor(kind, j, w) \/ Refused(kind, j)
  BY <1>2, <1>8 DEF TakenFor, Refused
<1>10. \A x \in SentBack1(w) : TakenFor(kind, x, w) \/ Refused(kind, x)
  BY <1>3, <1>4, <1>6, <1>9, SentBackForms DEF Shown
<1> QED
  BY <1>10 DEF w

\* Whatever is typed for a parameter without a value is nothing.
LEMMA NothingSentBack ==
    LET w == Ddm1!Value("none", 0)
    IN  \A x \in SentBack1(w) : TakenFor("EMPTY", x, w)
<1> DEFINE kind == "EMPTY"
           w == Ddm1!Value("none", 0)
           j == Console!Json("null", 0)
           Plain == Console!Labelled
<1>1. Console!Value("none", 0) = w /\ w.type = "none"
  BY DEF Ddm1!Value, Console!Value
<1>2. AsGood(kind, w, w)
  <2>1. "none" \in Ddm1!Types(kind)
    BY DEF Ddm1!Types, Ddm1!DeciKinds
  <2>2. Ddm1!Fits(kind, w)
    BY DEF Ddm1!Fits, Ddm1!DeciKinds
  <2> QED
    BY <1>1, <2>1, <2>2 DEF AsGood
<1> HIDE DEF w
<1>3. Console!Json1(w) = j
  BY <1>1 DEF Console!Json1
<1>4. \A unit : Console!Display1(unit, w) = Plain
  BY <1>1 DEF Console!Display1
<1>5. j.type = "null"
  BY DEF Console!Json
<1>6. Console!IsText(Plain)
  BY LabelledIsText
<1> HIDE DEF j, Plain
<1>7. Typed(j, 100) = j
  BY <1>5 DEF Typed
<1>8. Console!Coerce1(kind, j) = Console!Done(w)
  <2>1. ~Console!IsText(j)
    BY <1>5 DEF Console!IsText
  <2>2. Console!FromJson1(j) = w
    BY <1>1, <1>5 DEF Console!FromJson1, Console!IsText
  <2> QED
    BY <2>1, <2>2 DEF Console!Coerce1, Console!DeciKinds
<1>9. Console!Coerce1(kind, Plain) = Console!Done(w)
  BY <1>1, <1>6 DEF Console!Coerce1, Console!DeciKinds
<1>10. TakenFor(kind, j, w) /\ TakenFor(kind, Plain, w)
  BY <1>2, <1>8, <1>9 DEF TakenFor
<1>11. \A x \in SentBack1(w) : TakenFor(kind, x, w)
  BY <1>3, <1>4, <1>7, <1>10, SentBackForms DEF Shown
<1> QED
  BY <1>11 DEF w

\* What is as good as what was read is written as bytes that read as it.
LEMMA TakenIsWritten ==
    ASSUME NEW kind \in Kinds1, NEW data \in Seq(Octet), Len(data) \in Ddm1!Lengths(kind),
           NEW x, TakenFor(kind, x, Ddm1!Decoded(kind, data))
    PROVE  LET c == Console!Coerce1(kind, x)
               e == Ddm1!Encode(kind, c.out)
           IN  /\ c.ok /\ e.ok
               /\ Ddm1!Decode(kind, e.out) = Ddm1!Done(Ddm1!Decoded(kind, data))
<1> DEFINE w == Ddm1!Decoded(kind, data)
           b == Ddm1!Bytes(kind, w)
<1>1. Ddm1!Fits(kind, w) => Len(b) \in Ddm1!Lengths(kind) /\ Ddm1!Decoded(kind, b) = w
  BY WriteBack
<1>2. PICK v : Console!Coerce1(kind, x) = Console!Done(v) /\ AsGood(kind, v, w)
  BY DEF TakenFor
<1> HIDE DEF w, b
<1>3. /\ Console!Coerce1(kind, x).ok
      /\ Console!Coerce1(kind, x).out = v
  BY <1>2 DEF Console!Done
<1>4. Ddm1!Encode(kind, v) = Ddm1!Done(b)
  BY <1>2 DEF AsGood, Ddm1!Encode, b
<1>5. Ddm1!Encode(kind, v).ok /\ Ddm1!Encode(kind, v).out = b
  BY <1>4 DEF Ddm1!Done
<1>6. Ddm1!Decode(kind, b) = Ddm1!Done(w)
  BY <1>1, <1>2 DEF AsGood, Ddm1!Decode
<1> QED
  BY <1>3, <1>5, <1>6 DEF w

\* Whatever is sent back of a decoded value is taken for it or refused, and
\* what JSON makes of a number or of a switch is taken for it.
LEMMA AllSentBack ==
    ASSUME NEW kind \in Kinds1, NEW data \in Seq(Octet), Len(data) \in Ddm1!Lengths(kind)
    PROVE  LET w == Ddm1!Decoded(kind, data)
           IN  /\ \A x \in SentBack1(w) : TakenFor(kind, x, w) \/ Refused(kind, x)
               /\ w.type \in {"bool", "int", "float"} => TakenFor(kind, Console!Json1(w), w)
<1> DEFINE w == Ddm1!Decoded(kind, data)
           Safe == /\ \A x \in SentBack1(w) : TakenFor(kind, x, w) \/ Refused(kind, x)
                   /\ w.type \in {"bool", "int", "float"} => TakenFor(kind, Console!Json1(w), w)
<1> SUFFICES Safe
  OBVIOUS
<1>1. w.type \in Ddm1!Types(kind) /\ (kind # "UTF8_STRING" => Ddm1!Fits(kind, w))
  BY WriteBack
<1>2. CASE kind = "INT8_BOOLEAN"
  <2> DEFINE b == IF data[1] = 0 THEN 0 ELSE 1
  <2>1. w = Ddm1!Value("bool", b)
    BY <1>2 DEF Ddm1!Decoded, Ddm1!DeciKinds
  <2>2. b \in {0, 1}
    OBVIOUS
  <2> HIDE DEF w, b
  <2> QED
    BY <1>2, <2>1, <2>2, BooleanSentBack
<1>3. CASE kind \in {"INT8_NUMBER", "UINT8_NUMBER"}
  <2>1. Len(data) = 1
    BY <1>3 DEF Ddm1!Lengths, Ddm1!DeciKinds
  <2> DEFINE h == data[1]
             n == IF kind = "INT8_NUMBER" /\ h >= 128 THEN h - 256 ELSE h
  <2>2. h \in Int
    <3>1. h \in Octet
      BY <2>1, OneByte
    <3> HIDE DEF h
    <3> QED
      BY <3>1 DEF Octet
  <2>3. w = Ddm1!Value("int", IF kind = "UINT8_NUMBER" THEN h ELSE IF h < 128 THEN h ELSE h - 256)
    BY <1>3 DEF Ddm1!Decoded, Ddm1!DeciKinds
  <2> HIDE DEF h
  <2>4. n \in Int /\ n = IF kind = "UINT8_NUMBER" THEN h ELSE IF h < 128 THEN h ELSE h - 256
    BY <1>3, <2>2
  <2> HIDE DEF n, w
  <2>5. w = Ddm1!Value("int", n)
    BY <2>3, <2>4
  <2>6. Ddm1!Fits(kind, Ddm1!Value("int", n))
    BY <1>1, <1>3, <2>5
  <2> QED
    BY <1>3, <2>4, <2>5, <2>6, NumberSentBack
<1>4. CASE kind \in Ddm1!DeciKinds
  <2> DEFINE r == Ddm1!FromDeci(data)
  <2>1. w = Ddm1!Value("float", r)
    BY <1>4 DEF Ddm1!Decoded, Ddm1!DeciKinds
  <2>2. Len(data) = 2
    BY <1>4 DEF Ddm1!Lengths, Ddm1!DeciKinds
  <2>3. r \in Int
    <3>1. IsInt16(Ddm1!ToInt16(<< data[1], data[2] >>))
      BY <2>2, TwoBytes, Int16WriteBack
    <3> QED
      BY <2>2, <3>1, TwoBytes DEF Ddm1!FromDeci, IsInt16
  <2> HIDE DEF w, r
  <2>4. Ddm1!Fits(kind, Ddm1!Value("float", r))
    BY <1>1, <1>4, <2>1 DEF Ddm1!DeciKinds
  <2> QED
    BY <1>4, <2>1, <2>3, <2>4, DeciSentBack
<1>5. CASE kind \in {"INT16_ARRAY", "HISTORY_DATA_ARRAY"}
  <2>1. w.type \in {"pair", "history"}
    BY <1>1, <1>5 DEF Ddm1!Types, Ddm1!DeciKinds
  <2> HIDE DEF w
  <2> QED
    BY <1>5, <2>1, StructureSentBack
<1>6. CASE kind = "UTF8_STRING"
  <2> DEFINE t == Ddm1!Text(data)
  <2>1. w = Ddm1!Value("str", t)
    BY <1>6 DEF Ddm1!Decoded, Ddm1!DeciKinds
  <2>2. w.type = "str"
    BY <2>1 DEF Ddm1!Value
  <2> HIDE DEF w, t
  <2> QED
    BY <1>6, <2>1, <2>2, TextSentBack
<1>7. CASE kind = "EMPTY"
  <2>1. w = Ddm1!Value("none", 0)
    BY <1>7 DEF Ddm1!Decoded, Ddm1!DeciKinds
  <2>2. w.type = "none"
    BY <2>1 DEF Ddm1!Value
  <2> HIDE DEF w
  <2> QED
    BY <1>7, <2>1, <2>2, NothingSentBack
<1> HIDE DEF Safe, w
<1>8. \/ kind = "INT8_BOOLEAN" \/ kind \in {"INT8_NUMBER", "UINT8_NUMBER"}
      \/ kind \in Ddm1!DeciKinds \/ kind \in {"INT16_ARRAY", "HISTORY_DATA_ARRAY"}
      \/ kind = "UTF8_STRING" \/ kind = "EMPTY"
  BY DEF Kinds1
<1> QED
  BY <1>2, <1>3, <1>4, <1>5, <1>6, <1>7, <1>8

\* What the console shows of a cooler can be sent back: as JSON, as its
\* display text or typed, it is refused or writes what the cooler has, for
\* whatever bytes the cooler sent.
LEMMA ConsoleValues1 == WellAsked => ConsoleWriteBack1
<1> SUFFICES ASSUME WellAsked, probe[1] = "bytes1" PROVE ConsoleWriteBack1
  BY DEF ConsoleWriteBack1
<1> DEFINE kind == probe[2]
           data == probe[3]
           d == Ddm1!Decode(kind, data)
           Encoded(x) == LET c == Console!Coerce1(kind, x)
                         IN  IF c.ok THEN Ddm1!Encode(kind, c.out) ELSE c
           Kept == /\ \A x \in SentBack1(d.out) :
                          Encoded(x).ok => Ddm1!Decode(kind, Encoded(x).out) = d
                   /\ d.out.type \in {"bool", "int", "float"} => Encoded(Console!Json1(d.out)).ok
<1>1. kind \in Kinds1 /\ data \in Seq(Octet)
  BY DEF WellAsked
<1> HIDE DEF kind, data
<1>2. ASSUME d.ok PROVE Kept
  <2> DEFINE w == Ddm1!Decoded(kind, data)
  <2>1. Len(data) \in Ddm1!Lengths(kind) /\ d = Ddm1!Done(w)
    BY <1>2 DEF Ddm1!Decode, Ddm1!Rejected
  <2>2. d.out = w
    BY <2>1 DEF Ddm1!Done
  <2>3. /\ \A x \in SentBack1(w) : TakenFor(kind, x, w) \/ Refused(kind, x)
        /\ w.type \in {"bool", "int", "float"} => TakenFor(kind, Console!Json1(w), w)
    BY <1>1, <2>1, AllSentBack
  <2>4. ASSUME NEW x, TakenFor(kind, x, w)
        PROVE  Encoded(x).ok /\ Ddm1!Decode(kind, Encoded(x).out) = d
    BY <1>1, <2>1, <2>4, TakenIsWritten
  <2>5. ASSUME NEW x, Refused(kind, x)
        PROVE  ~Encoded(x).ok
    <3>1. CASE Console!Coerce1(kind, x) = Console!Rejected
      BY <3>1 DEF Console!Rejected
    <3>2. CASE \E v : /\ Console!Coerce1(kind, x) = Console!Done(v)
                      /\ v.type \notin Ddm1!Types(kind) \/ ~Ddm1!Fits(kind, v)
      <4>1. PICK v : /\ Console!Coerce1(kind, x) = Console!Done(v)
                     /\ v.type \notin Ddm1!Types(kind) \/ ~Ddm1!Fits(kind, v)
        BY <3>2
      <4>2. Encoded(x) = Ddm1!Encode(kind, v)
        BY <4>1 DEF Console!Done
      <4>3. Ddm1!Encode(kind, v) = Ddm1!Rejected
        BY <4>1 DEF Ddm1!Encode
      <4> QED
        BY <4>2, <4>3 DEF Ddm1!Rejected
    <3> QED
      BY <2>5, <3>1, <3>2 DEF Refused
  <2> HIDE DEF w, d, Encoded
  <2> QED
    BY <2>2, <2>3, <2>4, <2>5
<1> QED
  BY <1>2 DEF ConsoleWriteBack1, kind, data

-----------------------------------------------------------------------------
(* Values that are shown.                                                  *)

\* The parameters of a cooler's entities are all subscribed to.
LEMMA AllSubscribed ==
    ASSUME NEW p \in DOMAIN Cooler!Kind
    PROVE  \E i \in DOMAIN Cooler!CFX3_SUBSCRIPTIONS : Cooler!CFX3_SUBSCRIPTIONS[i] = p
<1> DEFINE s == Cooler!CFX3_SUBSCRIPTIONS
<1>1. /\ s[5] = "c0Power" /\ s[6] = "c0MeasuredTemperature" /\ s[7] = "c0SetTemperature"
      /\ s[8] = "c0DoorOpen" /\ s[9] = "c0TemperatureRange" /\ s[11] = "batteryVoltageLevel"
      /\ s[12] = "batteryProtectionLevel" /\ s[13] = "compressorPower"
  BY DEF Cooler!CFX3_SUBSCRIPTIONS
<1>2. \A i \in {5, 6, 7, 8, 9, 11, 12, 13} : i \in DOMAIN s
  BY DEF Cooler!CFX3_SUBSCRIPTIONS
<1>3. p \in {"c0Power", "batteryProtectionLevel", "c0SetTemperature", "c0TemperatureRange",
             "c0MeasuredTemperature", "c0DoorOpen", "compressorPower", "batteryVoltageLevel"}
  BY DEF Cooler!Kind
<1> HIDE DEF s
<1>4. \E i \in {5, 6, 7, 8, 9, 11, 12, 13} : s[i] = p
  BY <1>1, <1>3
<1> QED
  BY <1>2, <1>4 DEF s

\* A parameter that was published is what its bytes decode to.
LEMMA ReadingKnown ==
    ASSUME NEW raw, IsReading(raw), NEW p \in DOMAIN Cooler!Kind
    PROVE  Received1(raw)[p] = Ddm1!Decoded(Cooler!Kind[p], raw[p])
<1>1. Received1(raw)[p] = Ddm1!Decode(Cooler!Kind[p], raw[p]).out
  BY AllSubscribed DEF Received1
<1>2. Len(raw[p]) \in Ddm1!Lengths(Cooler!Kind[p])
  BY DEF IsReading
<1> QED
  BY <1>1, <1>2 DEF Ddm1!Decode, Ddm1!Done

\* A switch that was published is on or off.
LEMMA SwitchShown ==
    ASSUME NEW v, NEW b \in {0, 1}, v = Ddm1!Value("bool", b)
    PROVE  /\ Cooler!AsBool(v) # Cooler!Unknown
           /\ Cooler!IsOn(v) \/ Cooler!IsOff(v)
<1>1. v.type = "bool" /\ v.of = b
  BY DEF Ddm1!Value
<1>2. Cooler!AsBool(v) = Cooler!Value("bool", IF v.of = 0 THEN 0 ELSE 1)
  BY <1>1 DEF Cooler!AsBool
<1>3. (IF v.of = 0 THEN 0 ELSE 1) = b
  BY <1>1
<1>4. Cooler!AsBool(v) = Cooler!Value("bool", b)
  BY <1>2, <1>3
<1>5. Cooler!Value("bool", b) # Cooler!Unknown
  BY DEF Cooler!Value, Cooler!Unknown
<1> QED
  BY <1>4, <1>5 DEF Cooler!IsOn, Cooler!IsOff

\* The type and the content of a value.
LEMMA ValueParts ==
    ASSUME NEW t, NEW x, NEW v, v = Ddm1!Value(t, x)
    PROVE  v.type = t /\ v.of = x
  BY DEF Ddm1!Value

\* A number that was published is shown.
LEMMA NumberShown ==
    ASSUME NEW v, v.type = "float"
    PROVE  Cooler!AsFloat(v) # Cooler!Unknown
<1>1. Cooler!AsFloat(v) = Cooler!Value("float", Cooler!Hundredths(v))
  BY DEF Cooler!AsFloat
<1> QED
  BY <1>1 DEF Cooler!Value, Cooler!Unknown

\* How the dictionary codes what the entities read.
LEMMA KindsOfReadings ==
    /\ DOMAIN Cooler!Kind =
           {"c0Power", "batteryProtectionLevel", "c0SetTemperature", "c0TemperatureRange",
            "c0MeasuredTemperature", "c0DoorOpen", "compressorPower", "batteryVoltageLevel"}
    /\ Cooler!Kind["c0Power"] = "INT8_BOOLEAN"
    /\ Cooler!Kind["c0DoorOpen"] = "INT8_BOOLEAN"
    /\ Cooler!Kind["compressorPower"] = "INT8_BOOLEAN"
    /\ Cooler!Kind["c0SetTemperature"] = "INT16_DECIDEGREE_CELSIUS"
    /\ Cooler!Kind["c0MeasuredTemperature"] = "INT16_DECIDEGREE_CELSIUS"
    /\ Cooler!Kind["batteryVoltageLevel"] = "INT16_DECICURRENT_VOLT"
  BY DEF Cooler!Kind

\* The three levels of the battery protection have an option each.
LEMMA OptionShown ==
    ASSUME NEW h \in 0 .. 2
    PROVE  Cooler!Options[h + 1] \in {"low", "medium", "high"}
<1>1. h = 0 \/ h = 1 \/ h = 2
  OBVIOUS
<1>2. /\ Cooler!Options[1] = "low"
      /\ Cooler!Options[2] = "medium"
      /\ Cooler!Options[3] = "high"
  BY DEF Cooler!Options
<1>3. CASE h = 0
  BY <1>2, <1>3
<1>4. CASE h = 1
  BY <1>2, <1>4
<1>5. CASE h = 2
  BY <1>2, <1>5
<1> QED
  BY <1>1, <1>3, <1>4, <1>5

\* The level is one byte.
LEMMA LevelIsOctet ==
    ASSUME NEW raw, IsReading(raw)
    PROVE  raw.batteryProtectionLevel[1] \in Octet
<1> DEFINE data == raw["batteryProtectionLevel"]
<1>1. /\ "batteryProtectionLevel" \in DOMAIN Cooler!Kind
      /\ Cooler!Kind["batteryProtectionLevel"] = "INT8_NUMBER"
  BY DEF Cooler!Kind
<1>2. /\ data \in Seq(Octet)
      /\ Len(data) \in Ddm1!Lengths(Cooler!Kind["batteryProtectionLevel"])
  <2>1. \A p \in DOMAIN Cooler!Kind :
            raw[p] \in Seq(Octet) /\ Len(raw[p]) \in Ddm1!Lengths(Cooler!Kind[p])
    BY DEF IsReading
  <2> QED
    BY <1>1, <2>1, Zenon
<1>3. Ddm1!Lengths("INT8_NUMBER") = {1}
  BY DEF Ddm1!Lengths, Ddm1!DeciKinds
<1> HIDE DEF data
<1>4. data[1] \in Octet
  BY <1>1, <1>2, <1>3
<1> QED
  BY <1>4 DEF data

\* A signed byte is one of the levels when the byte is.
LEMMA SignedByte ==
    ASSUME NEW h \in Octet, NEW n, n = IF h < 128 THEN h ELSE h - 256
    PROVE  /\ n \in 0 .. 2 <=> h \in 0 .. 2
           /\ h \in 0 .. 2 => n = h
<1>1. h \in 0 .. 255
  BY DEF Octet
<1>2. CASE h < 128
  BY <1>1, <1>2
<1>3. CASE ~(h < 128)
  BY <1>1, <1>3
<1> QED
  BY <1>2, <1>3

\* Once a cooler has published, every entity shows something, whatever it
\* published, but for a level that has no name.
LEMMA CoolerReadings == WellAsked => CoolerTells
<1> SUFFICES ASSUME WellAsked, probe[1] = "cooler readings" PROVE CoolerTells
  BY DEF CoolerTells
<1> DEFINE raw == probe[2]
           d == Received1(raw)
           level == raw.batteryProtectionLevel[1]
           told == Ddm1!Decoded("INT16_ARRAY", raw.c0TemperatureRange)
<1>1. IsReading(raw)
  BY DEF WellAsked
<1> HIDE DEF raw
<1>2. ASSUME NEW p \in {"c0Power", "c0DoorOpen", "compressorPower"}
      PROVE  /\ Cooler!AsBool(d[p]) # Cooler!Unknown
             /\ Cooler!IsOn(d[p]) \/ Cooler!IsOff(d[p])
  <2> DEFINE b == IF raw[p][1] = 0 THEN 0 ELSE 1
  <2>1. p \in DOMAIN Cooler!Kind /\ Cooler!Kind[p] = "INT8_BOOLEAN"
    BY KindsOfReadings
  <2>2. d[p] = Ddm1!Decoded("INT8_BOOLEAN", raw[p])
    BY <1>1, <2>1, ReadingKnown
  <2>3. Ddm1!Decoded("INT8_BOOLEAN", raw[p]) = Ddm1!Value("bool", b)
    BY DEF Ddm1!Decoded, Ddm1!DeciKinds
  <2>4. b \in {0, 1}
    OBVIOUS
  <2> HIDE DEF b, d
  <2> QED
    BY <2>2, <2>3, <2>4, SwitchShown
<1>3. ASSUME NEW p \in {"c0SetTemperature", "c0MeasuredTemperature", "batteryVoltageLevel"}
      PROVE  Cooler!AsFloat(d[p]) # Cooler!Unknown
  <2>1. p \in DOMAIN Cooler!Kind /\ Cooler!Kind[p] \in Ddm1!DeciKinds
    BY KindsOfReadings DEF Ddm1!DeciKinds
  <2>2. d[p] = Ddm1!Decoded(Cooler!Kind[p], raw[p])
    BY <1>1, <2>1, ReadingKnown
  <2>3. Ddm1!Decoded(Cooler!Kind[p], raw[p]) = Ddm1!Value("float", Ddm1!FromDeci(raw[p]))
    BY <2>1 DEF Ddm1!Decoded, Ddm1!DeciKinds
  <2> DEFINE v == d[p]
             x == Ddm1!FromDeci(raw[p])
  <2>4. v = Ddm1!Value("float", x)
    BY <2>2, <2>3
  <2> HIDE DEF v, x
  <2>5. v.type = "float"
    BY <2>4, ValueParts
  <2>6. Cooler!AsFloat(v) # Cooler!Unknown
    BY <2>5, NumberShown
  <2> QED
    BY <2>6 DEF v
<1>4. Cooler!MinTemp(d) = told.of[1] /\ Cooler!MaxTemp(d) = told.of[2]
  <2> DEFINE p == "c0TemperatureRange"
  <2>1. p \in DOMAIN Cooler!Kind /\ Cooler!Kind[p] = "INT16_ARRAY"
    BY DEF Cooler!Kind
  <2>2. d[p] = told
    BY <1>1, <2>1, ReadingKnown
  <2>3. told.type = "pair"
    BY DEF Ddm1!Decoded, Ddm1!DeciKinds, Ddm1!Value
  <2> HIDE DEF d, told
  <2> QED
    BY <2>2, <2>3 DEF Cooler!MinTemp, Cooler!MaxTemp
<1>5. Cooler!CurrentOption(d) = "unknown" <=> level \notin 0 .. 2
  <2> DEFINE p == "batteryProtectionLevel"
             n == IF level < 128 THEN level ELSE level - 256
  <2>1. p \in DOMAIN Cooler!Kind /\ Cooler!Kind[p] = "INT8_NUMBER"
    BY DEF Cooler!Kind
  <2>2. d[p] = Ddm1!Decoded("INT8_NUMBER", raw[p])
    BY <1>1, <2>1, ReadingKnown
  <2>3. level \in Octet
    BY <1>1, LevelIsOctet
  <2>4. Ddm1!Decoded("INT8_NUMBER", raw[p]) = Ddm1!Value("int", n)
    BY DEF Ddm1!Decoded, Ddm1!DeciKinds
  <2>5. d.batteryProtectionLevel = Ddm1!Value("int", n)
    BY <2>2, <2>4
  <2>n. n = IF level < 128 THEN level ELSE level - 256
    OBVIOUS
  <2> HIDE DEF level, d, n
  <2>6. /\ n \in 0 .. 2 <=> level \in 0 .. 2
        /\ level \in 0 .. 2 => n = level
    BY <2>3, <2>n, SignedByte, ZenonT(40)
  <2>8. d.batteryProtectionLevel.type = "int" /\ d.batteryProtectionLevel.of = n
    BY <2>5, ValueParts
  <2>9. CASE level \in 0 .. 2
    <3>1. Cooler!CurrentOption(d) = Cooler!Options[level + 1]
      BY <2>6, <2>8, <2>9 DEF Cooler!CurrentOption
    <3>2. Cooler!Options[level + 1] \in {"low", "medium", "high"}
      BY <2>9, OptionShown
    <3> QED
      BY <2>9, <3>1, <3>2
  <2>10. CASE level \notin 0 .. 2
    BY <2>6, <2>8, <2>10 DEF Cooler!CurrentOption
  <2> QED
    BY <2>9, <2>10
<1> HIDE DEF d
<1>6. /\ Cooler!CompartmentMode(d) # "unknown"
      /\ Cooler!CompartmentAction(d) # "unknown"
  <2>1. /\ Cooler!IsOn(d.c0Power) \/ Cooler!IsOff(d.c0Power)
        /\ Cooler!IsOn(d.compressorPower) \/ Cooler!IsOff(d.compressorPower)
    BY <1>2
  <2> QED
    BY <2>1 DEF Cooler!CompartmentMode, Cooler!CompartmentAction
<1>7. /\ Cooler!CurrentTemperature(d) # Cooler!Unknown
      /\ Cooler!TargetTemperature(d) # Cooler!Unknown
      /\ Cooler!NativeValue(d, "batteryVoltageLevel") # Cooler!Unknown
  BY <1>3 DEF Cooler!CurrentTemperature, Cooler!TargetTemperature, Cooler!NativeValue
<1>8. /\ Cooler!BinaryIsOn(d, "c0DoorOpen") # Cooler!Unknown
      /\ Cooler!BinaryIsOn(d, "compressorPower") # Cooler!Unknown
  BY <1>2 DEF Cooler!BinaryIsOn
<1> QED
  BY <1>4, <1>5, <1>6, <1>7, <1>8 DEF CoolerTells, d, raw, level, told

-----------------------------------------------------------------------------
(* Words of DDM2.                                                          *)

IsFormat(fmt) ==
    \E size \in 1 .. 4, signed \in BOOLEAN : fmt = [size |-> size, signed |-> signed]

\* The formats of the elements are formats: of one to four bytes.
LEMMA FormatsAreFormats ==
    \A kind \in DOMAIN Formats : IsFormat(Formats[kind])
<1> SUFFICES ASSUME NEW kind \in {"i8", "u8", "x8", "x16", "i32", "x32"}
             PROVE  IsFormat(Formats[kind])
  BY DEF Formats
<1>1. Formats[kind] = [size |-> Formats[kind].size, signed |-> Formats[kind].signed]
  BY DEF Formats
<1>2. Formats[kind].size \in {1, 2, WordBytes}
  BY DEF Formats
<1>4. Formats[kind].signed = TRUE \/ Formats[kind].signed = FALSE
  BY DEF Formats
<1>3. Formats[kind].size \in 1 .. 4
  BY <1>2, WordBytesAssumption
<1> QED
  BY <1>1, <1>3, <1>4 DEF IsFormat

\* What a one in each byte counts.
LEMMA Places ==
    /\ Place(1) = 1 /\ Place(2) = 256 /\ Place(3) = 65536
    /\ Place(4) = 16777216 /\ Place(5) = 4294967296
BY DEF Place

\* The bytes of a number, and the number again, by the number of bytes.
Low(n, i) == (n \div Place(i)) % 256

\* The low byte.
LEMMA LowByte1 == ASSUME NEW n \in Int PROVE Low(n, 1) = n % 256 /\ IsByte(n % 256)
BY Places, SMT DEF Low, IsByte

\* The two low bytes spell the number modulo what two bytes hold.
LEMMA LowBytes2 ==
    ASSUME NEW n \in Int
    PROVE  /\ IsByte(Low(n, 2))
           /\ n % 65536 = Low(n, 1) + 256 * Low(n, 2)
<1>1. Low(n, 1) = n % 256 /\ Low(n, 2) = (n \div 256) % 256
  BY Places, LowByte1 DEF Low
<1> QED
  BY <1>1, SMT DEF IsByte

\* The three low bytes do for three.
LEMMA LowBytes3 ==
    ASSUME NEW n \in Int
    PROVE  /\ IsByte(Low(n, 3))
           /\ n % 16777216 = Low(n, 1) + 256 * Low(n, 2) + 65536 * Low(n, 3)
<1>1. Low(n, 1) + 256 * Low(n, 2) = n % 65536
  BY LowBytes2
<1>2. Low(n, 3) = (n \div 65536) % 256
  BY Places DEF Low
<1>3. n % 16777216 = (n % 65536) + 65536 * ((n \div 65536) % 256)
  BY SMT
<1>4. IsByte((n \div 65536) % 256)
  BY SMT DEF IsByte
<1> QED
  BY <1>1, <1>2, <1>3, <1>4

\* The four low bytes do for four.
LEMMA LowBytes4 ==
    ASSUME NEW n \in Int
    PROVE  /\ IsByte(Low(n, 4))
           /\ n % 4294967296
                  = Low(n, 1) + 256 * Low(n, 2) + 65536 * Low(n, 3) + 16777216 * Low(n, 4)
<1>1. Low(n, 1) + 256 * Low(n, 2) + 65536 * Low(n, 3) = n % 16777216
  BY LowBytes3
<1>2. Low(n, 4) = (n \div 16777216) % 256
  BY Places DEF Low
<1>3. n % 4294967296 = (n % 16777216) + 16777216 * ((n \div 16777216) % 256)
  BY SMT
<1>4. IsByte((n \div 16777216) % 256)
  BY SMT DEF IsByte
<1> QED
  BY <1>1, <1>2, <1>3, <1>4

\* The number that bytes are, without its sign.
Whole(size, data) ==
    LET Part(i) == IF i <= size THEN data[i] * Place(i) ELSE 0
    IN  Part(1) + Part(2) + Part(3) + Part(4)

\* The two ways to say byte.
LEMMA OctetIsByte == \A b : b \in Octet <=> IsByte(b)
BY SMT DEF Octet, IsByte

\* What is in a sequence of bytes is a byte.
LEMMA OctetsAt ==
    ASSUME NEW data \in Seq(Octet), NEW i \in 1 .. Len(data)
    PROVE  IsByte(data[i])
<1>1. data[i] \in Octet
  OBVIOUS
<1> QED
  BY <1>1, OctetIsByte

\* The number that one, two, three or four bytes spell.
LEMMA WholeBySize ==
    ASSUME NEW data
    PROVE  /\ data[1] \in Int => Whole(1, data) = data[1]
           /\ (data[1] \in Int /\ data[2] \in Int) => Whole(2, data) = data[1] + 256 * data[2]
           /\ (data[1] \in Int /\ data[2] \in Int /\ data[3] \in Int)
                  => Whole(3, data) = data[1] + 256 * data[2] + 65536 * data[3]
           /\ (data[1] \in Int /\ data[2] \in Int /\ data[3] \in Int /\ data[4] \in Int)
                  => Whole(4, data)
                         = data[1] + 256 * data[2] + 65536 * data[3] + 16777216 * data[4]
<1>1. Whole(1, data) = data[1] * 1 + 0 + 0 + 0
  BY Places DEF Whole
<1>2. Whole(2, data) = data[1] * 1 + data[2] * 256 + 0 + 0
  BY Places DEF Whole
<1>3. Whole(3, data) = data[1] * 1 + data[2] * 256 + data[3] * 65536 + 0
  BY Places DEF Whole
<1>4. Whole(4, data) = data[1] * 1 + data[2] * 256 + data[3] * 65536 + data[4] * 16777216
  BY Places DEF Whole
<1> QED
  BY <1>1, <1>2, <1>3, <1>4

\* Packed and whole again: the number, or as many places above it when it is negative.
Packed(size, n) == [i \in 1 .. size |-> Low(n, i)]

\* What a number is packed to: as many bytes as the format has.
LEMMA PackedBytes ==
    ASSUME NEW size \in 1 .. 4, NEW n \in Int
    PROVE  /\ Packed(size, n) \in Seq(Octet) /\ Len(Packed(size, n)) = size
           /\ \A i \in 1 .. size : Packed(size, n)[i] = Low(n, i) /\ IsByte(Low(n, i))
<1>1. IsByte(Low(n, 1)) /\ IsByte(Low(n, 2)) /\ IsByte(Low(n, 3)) /\ IsByte(Low(n, 4))
  BY LowByte1, LowBytes2, LowBytes3, LowBytes4
<1>2. \A i \in 1 .. size : IsByte(Low(n, i)) /\ Low(n, i) \in Octet
  BY <1>1, OctetIsByte
<1> QED
  BY <1>2 DEF Packed

\* The bytes of a number spell it modulo what they hold.
LEMMA WholeOfPacked ==
    ASSUME NEW n \in Int
    PROVE  /\ Whole(1, Packed(1, n)) = n % 256
           /\ Whole(2, Packed(2, n)) = n % 65536
           /\ Whole(3, Packed(3, n)) = n % 16777216
           /\ Whole(4, Packed(4, n)) = n % 4294967296
<1>1. \A size \in 1 .. 4 : \A i \in 1 .. size : Packed(size, n)[i] = Low(n, i) /\ Low(n, i) \in Int
  BY PackedBytes DEF IsByte
<1>2. Packed(1, n)[1] = Low(n, 1) /\ Low(n, 1) \in Int
  BY <1>1
<1>3. Packed(2, n)[1] = Low(n, 1) /\ Packed(2, n)[2] = Low(n, 2) /\ Low(n, 2) \in Int
  BY <1>1
<1>4. /\ Packed(3, n)[1] = Low(n, 1) /\ Packed(3, n)[2] = Low(n, 2) /\ Packed(3, n)[3] = Low(n, 3)
      /\ Low(n, 3) \in Int
  BY <1>1
<1>5. /\ Packed(4, n)[1] = Low(n, 1) /\ Packed(4, n)[2] = Low(n, 2) /\ Packed(4, n)[3] = Low(n, 3)
      /\ Packed(4, n)[4] = Low(n, 4) /\ Low(n, 4) \in Int
  BY <1>1
<1>6. Whole(1, Packed(1, n)) = Low(n, 1)
  BY <1>2, WholeBySize
<1>7. Whole(2, Packed(2, n)) = Low(n, 1) + 256 * Low(n, 2)
  BY <1>2, <1>3, WholeBySize
<1>8. Whole(3, Packed(3, n)) = Low(n, 1) + 256 * Low(n, 2) + 65536 * Low(n, 3)
  BY <1>2, <1>3, <1>4, WholeBySize
<1>9. Whole(4, Packed(4, n)) = Low(n, 1) + 256 * Low(n, 2) + 65536 * Low(n, 3) + 16777216 * Low(n, 4)
  BY <1>2, <1>3, <1>4, <1>5, WholeBySize
<1> QED
  BY <1>6, <1>7, <1>8, <1>9, LowByte1, LowBytes2, LowBytes3, LowBytes4

\* n is what the bytes count, less the capacity if it is negative.
Spells1(n, a, k) == n = a - 256 * k
Spells2(n, a, b, k) == n = a + 256 * b - 65536 * k
Spells3(n, a, b, c, k) == n = a + 256 * b + 65536 * c - 16777216 * k
Spells4(n, a, b, c, d, k) == n = a + 256 * b + 65536 * c + 16777216 * d - 4294967296 * k

\* The bytes of a number, with its sign or not, are those of the bytes it was read from.
LEMMA ReadBack1 ==
    ASSUME NEW a, IsByte(a), NEW k \in {0, 1}, NEW n, Spells1(n, a, k)
    PROVE  n \in Int /\ Low(n, 1) = a
<1>1. a \in Int /\ k \in Int /\ a >= 0 /\ a <= 255
  BY DEF IsByte
<1>2. n \in Int /\ (n \div 1) % 256 = a
  BY <1>1, SMT DEF Spells1
<1>3. n \div 1 = n
  BY <1>2, SMT
<1> QED
  BY <1>2, <1>3, Places, SMT DEF Low

\* Two bytes, and a sign, are the low bytes of what they spell.
LEMMA ReadBack2 ==
    ASSUME NEW a, IsByte(a), NEW b, IsByte(b), NEW k \in {0, 1}, NEW n, Spells2(n, a, b, k)
    PROVE  n \in Int /\ Low(n, 1) = a /\ Low(n, 2) = b
<1>1. a \in Int /\ a >= 0 /\ a <= 255 /\ b \in Int /\ b >= 0 /\ b <= 255 /\ k \in Int
  BY DEF IsByte
<1>2. n \in Int /\ (n \div 1) % 256 = a
  BY <1>1, SMT DEF Spells2
<1>3. (n \div 256) % 256 = b
  BY <1>1, SMT DEF Spells2
<1> QED
  BY <1>2, <1>3, Places, SMT DEF Low

\* So are three.
LEMMA ReadBack3 ==
    ASSUME NEW a, IsByte(a), NEW b, IsByte(b), NEW c, IsByte(c), NEW k \in {0, 1},
           NEW n, Spells3(n, a, b, c, k)
    PROVE  n \in Int /\ Low(n, 1) = a /\ Low(n, 2) = b /\ Low(n, 3) = c
<1>1. /\ a \in Int /\ a >= 0 /\ a <= 255 /\ b \in Int /\ b >= 0 /\ b <= 255
      /\ c \in Int /\ c >= 0 /\ c <= 255 /\ k \in Int
  BY DEF IsByte
<1>2. n \in Int /\ (n \div 1) % 256 = a
  BY <1>1, SMT DEF Spells3
<1>3. (n \div 256) % 256 = b
  BY <1>1, SMT DEF Spells3
<1>4. (n \div 65536) % 256 = c
  BY <1>1, SMT DEF Spells3
<1> QED
  BY <1>2, <1>3, <1>4, Places, SMT DEF Low

\* So are four.
LEMMA ReadBack4 ==
    ASSUME NEW a, IsByte(a), NEW b, IsByte(b), NEW c, IsByte(c), NEW d, IsByte(d), NEW k \in {0, 1},
           NEW n, Spells4(n, a, b, c, d, k)
    PROVE  n \in Int /\ Low(n, 1) = a /\ Low(n, 2) = b /\ Low(n, 3) = c /\ Low(n, 4) = d
<1>1. /\ a \in Int /\ a >= 0 /\ a <= 255 /\ b \in Int /\ b >= 0 /\ b <= 255
      /\ c \in Int /\ c >= 0 /\ c <= 255 /\ d \in Int /\ d >= 0 /\ d <= 255 /\ k \in Int
  BY DEF IsByte
<1>2. n \in Int /\ (n \div 1) % 256 = a
  BY <1>1, SMT DEF Spells4
<1>3. (n \div 256) % 256 = b
  BY <1>1, SMT DEF Spells4
<1>4. (n \div 65536) % 256 = c
  BY <1>1, SMT DEF Spells4
<1>5. (n \div 16777216) % 256 = d
  BY <1>1, SMT DEF Spells4
<1> QED
  BY <1>2, <1>3, <1>4, <1>5, Places, SMT DEF Low

\* Division with rest, for any positive divisor.
LEMMA Divided ==
    ASSUME NEW n \in Int, NEW d \in Nat \ {0}
    PROVE  /\ n \div d \in Int /\ n % d \in Int
           /\ 0 <= n % d /\ n % d < d
           /\ n = d * (n \div d) + (n % d)
BY SMT

\* A quotient is the only one that leaves less than the divisor.
LEMMA OneQuotient ==
    ASSUME NEW d \in Nat \ {0}, NEW q \in Int, NEW p \in Int, NEW r \in Int, NEW t \in Int,
           0 <= r, r < d, 0 <= t, t < d, d * q + r = d * p + t
    PROVE  q = p /\ r = t
<1>1. ~(q > p)
  <2>1. ASSUME q > p PROVE d * q >= d * p + d
    BY <2>1, SMT
  <2> DEFINE x == d * q
             y == d * p
  <2>2. x \in Int /\ y \in Int /\ x + r = y + t
    OBVIOUS
  <2> HIDE DEF x, y
  <2>3. ~(x >= y + d)
    BY <2>2
  <2> QED
    BY <2>1, <2>3 DEF x, y
<1>2. ~(p > q)
  <2>1. ASSUME p > q PROVE d * p >= d * q + d
    BY <2>1, SMT
  <2> DEFINE x == d * q
             y == d * p
  <2>2. x \in Int /\ y \in Int /\ x + r = y + t
    OBVIOUS
  <2> HIDE DEF x, y
  <2>3. ~(y >= x + d)
    BY <2>2
  <2> QED
    BY <2>1, <2>3 DEF x, y
<1>3. q = p
  BY <1>1, <1>2
<1> DEFINE x == d * q
<1>4. x \in Int /\ x + r = x + t
  BY <1>3
<1> HIDE DEF x
<1> QED
  BY <1>3, <1>4

\* Quotient and rest are known from the sum they make.
LEMMA DividedBack ==
    ASSUME NEW d \in Nat \ {0}, NEW q \in Int, NEW r \in Int, 0 <= r, r < d, NEW n, n = d * q + r
    PROVE  n \div d = q /\ n % d = r
<1>1. n \in Int
  OBVIOUS
<1> QED
  BY <1>1, Divided, OneQuotient

\* The rest of a number that is small, or small and negative.
LEMMA SmallMods ==
    ASSUME NEW d \in Nat \ {0}, NEW n \in Int
    PROVE  /\ (0 <= n /\ n < d) => n % d = n
           /\ (-d <= n /\ n < 0) => n % d = n + d
<1>1. n = d * 0 + n /\ n = d * (-1) + (n + d)
  OBVIOUS
<1>2. ASSUME 0 <= n, n < d PROVE n % d = n
  BY <1>1, <1>2, DividedBack
<1>3. ASSUME -d <= n, n < 0 PROVE n % d = n + d
  <2> DEFINE r == n + d
  <2>1. 0 <= r /\ r < d /\ r \in Int /\ n = d * (-1) + r
    BY <1>3
  <2> HIDE DEF r
  <2>2. n % d = r
    BY <2>1, DividedBack
  <2> QED
    BY <2>2 DEF r
<1> QED
  BY <1>2, <1>3

\* What a format holds is positive and even.
LEMMA Capacities ==
    ASSUME NEW fmt, IsFormat(fmt)
    PROVE  /\ fmt.size \in 1 .. 4 /\ fmt.signed \in BOOLEAN
           /\ Capacity(fmt) \in Nat \ {0} /\ Capacity(fmt) \div 2 \in Nat
           /\ Capacity(fmt) = 2 * (Capacity(fmt) \div 2)
           /\ Capacity(fmt) = Place(fmt.size + 1)
<1>1. PICK size \in 1 .. 4, signed \in BOOLEAN : fmt = [size |-> size, signed |-> signed]
  BY DEF IsFormat
<1>2. fmt.size = size /\ fmt.signed = signed
  BY <1>1
<1>3. size = 1 \/ size = 2 \/ size = 3 \/ size = 4
  OBVIOUS
<1>4. \/ Place(size + 1) = 256 \/ Place(size + 1) = 65536
      \/ Place(size + 1) = 16777216 \/ Place(size + 1) = 4294967296
  BY <1>3, Places, SMT
<1> DEFINE c == Place(size + 1)
<1>5. c \in Nat \ {0} /\ c \div 2 \in Nat /\ c = 2 * (c \div 2)
  <2> HIDE DEF c
  <2>1. c = 256 \/ c = 65536 \/ c = 16777216 \/ c = 4294967296
    BY <1>4, SMT DEF c
  <2> QED
    BY <2>1, SMT
<1>6. Capacity(fmt) = c
  BY <1>2 DEF Capacity
<1> HIDE DEF c
<1> QED
  BY <1>2, <1>5, <1>6 DEF Capacity

\* What is unpacked is what the bytes spell, or less by the capacity.
LEMMA UnpackWhole ==
    ASSUME NEW fmt, NEW data
    PROVE  Unpack(fmt, data) =
               IF Representable(fmt, Whole(fmt.size, data)) THEN Whole(fmt.size, data)
               ELSE Whole(fmt.size, data) - Capacity(fmt)
BY DEF Unpack, Whole

\* What is packed are the low bytes, if the format has the number.
LEMMA PackPacked ==
    ASSUME NEW fmt, NEW n
    PROVE  Pack(fmt, n) = IF Representable(fmt, n) THEN Done(Packed(fmt.size, n)) ELSE Rejected
BY DEF Pack, Packed, Low

\* The bytes of a number spell it modulo the capacity, whatever the size.
LEMMA WholeOfPackedSize ==
    ASSUME NEW size \in 1 .. 4, NEW n \in Int
    PROVE  Whole(size, Packed(size, n)) = n % Place(size + 1)
<1>1. size = 1 \/ size = 2 \/ size = 3 \/ size = 4
  OBVIOUS
<1>2. CASE size = 1
  BY <1>2, WholeOfPacked, Places, SMT
<1>3. CASE size = 2
  BY <1>3, WholeOfPacked, Places, SMT
<1>4. CASE size = 3
  BY <1>4, WholeOfPacked, Places, SMT
<1>5. CASE size = 4
  BY <1>5, WholeOfPacked, Places, SMT
<1> QED
  BY <1>1, <1>2, <1>3, <1>4, <1>5

\* A number that fits is packed into bytes that are read as that number.
THEOREM PackUnpack ==
    ASSUME NEW fmt, IsFormat(fmt), NEW n \in Int, Representable(fmt, n)
    PROVE  /\ Pack(fmt, n) = Done(Packed(fmt.size, n))
           /\ Packed(fmt.size, n) \in Seq(Octet) /\ Len(Packed(fmt.size, n)) = fmt.size
           /\ Unpack(fmt, Packed(fmt.size, n)) = n
<1> DEFINE c == Capacity(fmt)
           h == c \div 2
           w == Whole(fmt.size, Packed(fmt.size, n))
<1>1. c \in Nat \ {0} /\ h \in Nat /\ c = 2 * h
  BY Capacities
<1>2. fmt.size \in 1 .. 4 /\ w = n % c
  BY Capacities, WholeOfPackedSize
<1>3. Representable(fmt, n) = IF fmt.signed THEN -h <= n /\ n < h ELSE 0 <= n /\ n < c
  BY DEF Representable
<1>4. Representable(fmt, w) = IF fmt.signed THEN -h <= w /\ w < h ELSE 0 <= w /\ w < c
  BY DEF Representable
<1>5. Unpack(fmt, Packed(fmt.size, n)) = IF Representable(fmt, w) THEN w ELSE w - c
  BY UnpackWhole
<1> HIDE DEF c, h, w
<1>6. (0 <= n /\ n < c => w = n) /\ (-c <= n /\ n < 0 => w = n + c)
  BY <1>1, <1>2, SmallMods
<1>7. Unpack(fmt, Packed(fmt.size, n)) = n
  <2>1. CASE fmt.signed
    <3>1. -h <= n /\ n < h
      BY <1>3, <2>1
    <3>2. Representable(fmt, w) <=> -h <= w /\ w < h
      BY <1>4, <2>1
    <3> QED
      BY <1>1, <1>5, <1>6, <3>1, <3>2
  <2>2. CASE ~fmt.signed
    <3>1. 0 <= n /\ n < c
      BY <1>3, <2>2
    <3>2. Representable(fmt, w) <=> 0 <= w /\ w < c
      BY <1>4, <2>2
    <3> QED
      BY <1>1, <1>5, <1>6, <3>1, <3>2
  <2> QED
    BY <2>1, <2>2
<1> QED
  BY <1>2, <1>7, PackPacked, PackedBytes

\* The number one byte spells is packed to that byte, with or without a sign.
LEMMA ReadIsPacked1 ==
    ASSUME NEW data \in Seq(Octet), Len(data) = 1,
           IsByte(data[1]), NEW k \in {0, 1},
           NEW n, n = Whole(1, data) - 256 * k
    PROVE  /\ n \in Int /\ Whole(1, data) \in Nat /\ Whole(1, data) < 256
           /\ Packed(1, n) = data
<1>1. /\ data[1] \in Int /\ data[1] >= 0 /\ data[1] <= 255
  BY SMT DEF IsByte
<1> DEFINE w == Whole(1, data)
<1>2. w = data[1]
  BY <1>1, WholeBySize, SMT
<1>3. n = w - 256 * k
  BY DEF w
<1> HIDE DEF w
<1>4. w \in Nat /\ w < 256
  BY <1>2, <1>1, SMT
<1>5. Spells1(n, data[1], k)
  BY <1>2, <1>3, <1>1, SMT DEF Spells1
<1>6. n \in Int /\ Low(n, 1) = data[1]
  BY <1>5, ReadBack1, SMT
<1>7. Packed(1, n) = data
  <2>1. data = [i \in 1 .. 1 |-> data[i]]
    BY SMT
  <2>2. \A i \in 1 .. 1 : Low(n, i) = data[i]
    BY <1>6, SMT
  <2> QED
    BY <2>1, <2>2, SMT DEF Packed
<1> QED
  BY <1>4, <1>6, <1>7, SMT DEF w

\* The same of two bytes.
LEMMA ReadIsPacked2 ==
    ASSUME NEW data \in Seq(Octet), Len(data) = 2,
           IsByte(data[1]), IsByte(data[2]), NEW k \in {0, 1},
           NEW n, n = Whole(2, data) - 65536 * k
    PROVE  /\ n \in Int /\ Whole(2, data) \in Nat /\ Whole(2, data) < 65536
           /\ Packed(2, n) = data
<1>1. /\ data[1] \in Int /\ data[1] >= 0 /\ data[1] <= 255
      /\ data[2] \in Int /\ data[2] >= 0 /\ data[2] <= 255
  BY SMT DEF IsByte
<1> DEFINE w == Whole(2, data)
<1>2. w = data[1] + 256 * data[2]
  BY <1>1, WholeBySize, SMT
<1>3. n = w - 65536 * k
  BY DEF w
<1> HIDE DEF w
<1>4. w \in Nat /\ w < 65536
  BY <1>2, <1>1, SMT
<1>5. Spells2(n, data[1], data[2], k)
  BY <1>2, <1>3, <1>1, SMT DEF Spells2
<1>6. n \in Int /\ Low(n, 1) = data[1] /\ Low(n, 2) = data[2]
  BY <1>5, ReadBack2, SMT
<1>7. Packed(2, n) = data
  <2>1. data = [i \in 1 .. 2 |-> data[i]]
    BY SMT
  <2>2. \A i \in 1 .. 2 : Low(n, i) = data[i]
    BY <1>6, SMT
  <2> QED
    BY <2>1, <2>2, SMT DEF Packed
<1> QED
  BY <1>4, <1>6, <1>7, SMT DEF w

\* The same of three bytes.
LEMMA ReadIsPacked3 ==
    ASSUME NEW data \in Seq(Octet), Len(data) = 3,
           IsByte(data[1]), IsByte(data[2]), IsByte(data[3]), NEW k \in {0, 1},
           NEW n, n = Whole(3, data) - 16777216 * k
    PROVE  /\ n \in Int /\ Whole(3, data) \in Nat /\ Whole(3, data) < 16777216
           /\ Packed(3, n) = data
<1>1. /\ data[1] \in Int /\ data[1] >= 0 /\ data[1] <= 255
      /\ data[2] \in Int /\ data[2] >= 0 /\ data[2] <= 255
      /\ data[3] \in Int /\ data[3] >= 0 /\ data[3] <= 255
  BY SMT DEF IsByte
<1> DEFINE w == Whole(3, data)
<1>2. w = data[1] + 256 * data[2] + 65536 * data[3]
  BY <1>1, WholeBySize, SMT
<1>3. n = w - 16777216 * k
  BY DEF w
<1> HIDE DEF w
<1>4. w \in Nat /\ w < 16777216
  BY <1>2, <1>1, SMT
<1>5. Spells3(n, data[1], data[2], data[3], k)
  BY <1>2, <1>3, <1>1, SMT DEF Spells3
<1>6. n \in Int /\ Low(n, 1) = data[1] /\ Low(n, 2) = data[2] /\ Low(n, 3) = data[3]
  BY <1>5, ReadBack3, SMT
<1>7. Packed(3, n) = data
  <2>1. data = [i \in 1 .. 3 |-> data[i]]
    BY SMT
  <2>2. \A i \in 1 .. 3 : Low(n, i) = data[i]
    BY <1>6, SMT
  <2> QED
    BY <2>1, <2>2, SMT DEF Packed
<1> QED
  BY <1>4, <1>6, <1>7, SMT DEF w

\* Four bytes spell no more than four bytes hold.
LEMMA FourInRange ==
    ASSUME NEW a, IsByte(a), NEW b, IsByte(b), NEW c, IsByte(c), NEW d, IsByte(d),
           NEW w, w = a + 256 * b + 65536 * c + 16777216 * d
    PROVE  w \in Nat /\ w < 4294967296
<1>1. /\ a \in Int /\ a >= 0 /\ a <= 255 /\ b \in Int /\ b >= 0 /\ b <= 255
      /\ c \in Int /\ c >= 0 /\ c <= 255 /\ d \in Int /\ d >= 0 /\ d <= 255
  BY SMT DEF IsByte
<1> QED
  BY <1>1, SMT

\* What four bytes spell.
LEMMA WholeOf4 ==
    ASSUME NEW data, IsByte(data[1]), IsByte(data[2]), IsByte(data[3]), IsByte(data[4])
    PROVE  Whole(4, data) = data[1] + 256 * data[2] + 65536 * data[3] + 16777216 * data[4]
BY WholeBySize, SMT DEF IsByte

\* The same of four bytes.
LEMMA ReadIsPacked4 ==
    ASSUME NEW data \in Seq(Octet), Len(data) = 4,
           IsByte(data[1]), IsByte(data[2]), IsByte(data[3]), IsByte(data[4]), NEW k \in {0, 1},
           NEW w, w = data[1] + 256 * data[2] + 65536 * data[3] + 16777216 * data[4],
           NEW n, n = w - 4294967296 * k
    PROVE  /\ n \in Int /\ w \in Nat /\ w < 4294967296
           /\ Packed(4, n) = data
<1>1. /\ data[1] \in Int /\ data[1] >= 0 /\ data[1] <= 255
      /\ data[2] \in Int /\ data[2] >= 0 /\ data[2] <= 255
      /\ data[3] \in Int /\ data[3] >= 0 /\ data[3] <= 255
      /\ data[4] \in Int /\ data[4] >= 0 /\ data[4] <= 255
  BY SMT DEF IsByte
<1>2. w \in Nat /\ w < 4294967296
  BY FourInRange, SMT
<1>3. Spells4(n, data[1], data[2], data[3], data[4], k)
  BY <1>1, SMTT(60) DEF Spells4
<1>4. n \in Int /\ Low(n, 1) = data[1] /\ Low(n, 2) = data[2] /\ Low(n, 3) = data[3] /\ Low(n, 4) = data[4]
  BY <1>3, ReadBack4, SMT
<1>5. Packed(4, n) = data
  <2>1. data = [i \in 1 .. 4 |-> data[i]]
    BY SMT
  <2>2. \A i \in 1 .. 4 : Low(n, i) = data[i]
    BY <1>4, SMT
  <2> QED
    BY <2>1, <2>2, SMT DEF Packed
<1> QED
  BY <1>2, <1>4, <1>5, SMT

\* The number bytes spell is packed to those bytes, whatever the size.
LEMMA ReadIsPacked ==
    ASSUME NEW size \in 1 .. 4, NEW data \in Seq(Octet), Len(data) = size, NEW k \in {0, 1}
    PROVE  /\ Whole(size, data) \in Nat /\ Whole(size, data) < Place(size + 1)
           /\ Packed(size, Whole(size, data) - Place(size + 1) * k) = data
<1>6. \A i \in 1 .. size : IsByte(data[i])
  BY OctetsAt
<1>1. CASE size = 1
  <2>1. IsByte(data[1])
    BY <1>6, <1>1, SMT
  <2> QED
    BY <1>1, <2>1, ReadIsPacked1, Places, SMT
<1>2. CASE size = 2
  <2>1. IsByte(data[1]) /\ IsByte(data[2])
    BY <1>6, <1>2, SMT
  <2> QED
    BY <1>2, <2>1, ReadIsPacked2, Places, SMT
<1>3. CASE size = 3
  <2>1. IsByte(data[1]) /\ IsByte(data[2]) /\ IsByte(data[3])
    BY <1>6, <1>3, SMT
  <2> QED
    BY <1>3, <2>1, ReadIsPacked3, Places, SMT
<1>4. CASE size = 4
  <2>1. IsByte(data[1]) /\ IsByte(data[2]) /\ IsByte(data[3]) /\ IsByte(data[4])
    BY <1>6, <1>4, SMT
  <2>2. Whole(4, data) = data[1] + 256 * data[2] + 65536 * data[3] + 16777216 * data[4]
    BY <2>1, WholeOf4, SMT
  <2> DEFINE w == Whole(4, data)
             n == w - 4294967296 * k
  <2>3. w = data[1] + 256 * data[2] + 65536 * data[3] + 16777216 * data[4] /\ n = w - 4294967296 * k
    BY <2>2, SMT
  <2>4. Len(data) = 4
    BY <1>4, SMT
  <2> HIDE DEF w, n
  <2>5. w \in Nat /\ w < 4294967296 /\ Packed(4, n) = data
    BY <2>1, <2>3, <2>4, ReadIsPacked4, SMT
  <2> QED
    BY <1>4, <2>5, Places, SMT DEF w, n
<1>5. size = 1 \/ size = 2 \/ size = 3 \/ size = 4
  BY SMT
<1> QED
  BY <1>1, <1>2, <1>3, <1>4, <1>5, SMT

\* The number that is read of bytes fits, and is packed into those bytes.
THEOREM UnpackPack ==
    ASSUME NEW fmt, IsFormat(fmt), NEW data \in Seq(Octet), Len(data) = fmt.size
    PROVE  /\ Unpack(fmt, data) \in Int /\ Representable(fmt, Unpack(fmt, data))
           /\ Pack(fmt, Unpack(fmt, data)) = Done(data)
<1> DEFINE c == Capacity(fmt)
           h == c \div 2
           w == Whole(fmt.size, data)
           k == IF Representable(fmt, w) THEN 0 ELSE 1
           n == w - Place(fmt.size + 1) * k
<1>1. c \in Nat \ {0} /\ h \in Nat /\ c = 2 * h /\ c = Place(fmt.size + 1) /\ fmt.size \in 1 .. 4
  BY Capacities
<1>2. k \in {0, 1}
  OBVIOUS
<1>3. n \in Int /\ w \in Nat /\ w < c /\ Packed(fmt.size, n) = data
  <2>1. w \in Nat /\ w < Place(fmt.size + 1) /\ Packed(fmt.size, w - Place(fmt.size + 1) * k) = data
    <3> DEFINE size == fmt.size
    <3>1. size \in 1 .. 4 /\ Len(data) = size
      BY <1>1
    <3> HIDE DEF k, size
    <3>2. /\ Whole(size, data) \in Nat /\ Whole(size, data) < Place(size + 1)
          /\ Packed(size, Whole(size, data) - Place(size + 1) * k) = data
      BY <1>2, <3>1, ReadIsPacked
    <3> QED
      BY <3>2 DEF size
  <2> HIDE DEF k, w, c
  <2> QED
    BY <1>1, <1>2, <2>1, SMT
<1>4. Unpack(fmt, data) = n
  <2>1. Unpack(fmt, data) = IF Representable(fmt, w) THEN w ELSE w - c
    BY UnpackWhole
  <2> DEFINE fits == Representable(fmt, w)
  <2>2. n = w - c * k /\ k = IF fits THEN 0 ELSE 1
    BY <1>1
  <2> HIDE DEF w, n, c, k, fits
  <2>3. Unpack(fmt, data) = IF fits THEN w ELSE w - c
    BY <2>1 DEF fits
  <2>4. CASE fits
    BY <1>1, <1>3, <2>2, <2>3, <2>4
  <2>5. CASE ~fits
    BY <1>1, <1>3, <2>2, <2>3, <2>5
  <2> QED
    BY <2>4, <2>5
<1>5. Representable(fmt, n)
  <2>1. Representable(fmt, n) = IF fmt.signed THEN -h <= n /\ n < h ELSE 0 <= n /\ n < c
    BY DEF Representable
  <2>2. Representable(fmt, w) = IF fmt.signed THEN -h <= w /\ w < h ELSE 0 <= w /\ w < c
    BY DEF Representable
  <2>3. n = IF Representable(fmt, w) THEN w ELSE w - c
    BY <1>4, UnpackWhole
  <2> HIDE DEF w, n, c, k, h
  <2>4. CASE fmt.signed
    <3>1. Representable(fmt, n) <=> -h <= n /\ n < h
      BY <2>1, <2>4
    <3>2. Representable(fmt, w) <=> -h <= w /\ w < h
      BY <2>2, <2>4
    <3> QED
      BY <1>1, <1>3, <2>3, <3>1, <3>2
  <2>5. CASE ~fmt.signed
    <3>1. Representable(fmt, n) <=> 0 <= n /\ n < c
      BY <2>1, <2>5
    <3>2. Representable(fmt, w) <=> 0 <= w /\ w < c
      BY <2>2, <2>5
    <3> QED
      BY <1>1, <1>3, <2>3, <3>1, <3>2
  <2> QED
    BY <2>4, <2>5
<1> QED
  BY <1>3, <1>4, <1>5, PackPacked

-----------------------------------------------------------------------------
(* Numbers and their scale.                                                *)

IsScale(param) == param.factor \in Nat \ {0} /\ Grain % param.factor = 0

\* A step of a scaled number is one grain or more.
LEMMA StepPositive ==
    ASSUME NEW param, IsScale(param)
    PROVE  Step(param) \in Nat \ {0} /\ Grain \in Nat \ {0}
<1> DEFINE f == param.factor
           g == Grain
           q == g \div f
<1>1. f \in Nat \ {0} /\ g \in Nat \ {0} /\ g % f = 0
  BY GrainAssumption DEF IsScale
<1>2. Step(param) = q
  BY DEF Step
<1> HIDE DEF f, g
<1>3. q \in Int /\ g = f * q
  BY <1>1, Divided
<1> HIDE DEF q
<1>4. q > 0
  BY <1>1, <1>3, SMT
<1> QED
  BY <1>1, <1>2, <1>3, <1>4 DEF g

\* A multiple has no rest.
LEMMA Multiple ==
    ASSUME NEW d \in Nat \ {0}, NEW q \in Int, NEW n, n = q * d
    PROVE  n \in Int /\ n % d = 0 /\ n \div d = q
<1>1. n = d * q + 0 /\ n \in Int
  OBVIOUS
<1>2. 0 \in Int /\ 0 <= 0 /\ 0 < d
  OBVIOUS
<1> QED
  BY <1>1, <1>2, DividedBack

\* A multiple is rounded to itself, anything else to the nearest.
LEMMA RoundedExact ==
    ASSUME NEW d \in Nat \ {0}, NEW q \in Int
    PROVE  Rounded(q * d, d) = q
<1> DEFINE n == q * d
<1>1. n \div d = q /\ n % d = 0
  BY Multiple
<1> HIDE DEF n
<1> QED
  BY <1>1 DEF Rounded, n

\* Rounding moves a number by half of a step at most.
LEMMA RoundedNear ==
    ASSUME NEW d \in Nat \ {0}, NEW n \in Int
    PROVE  Rounded(n, d) \in Int /\ Within(2 * n, 2 * (Rounded(n, d) * d), d)
<1> DEFINE q == n \div d
           r == n % d
           R == Rounded(n, d)
           x == d * q
<1>1. q \in Int /\ r \in Int /\ 0 <= r /\ r < d /\ n = x + r
  BY Divided
<1>2. R = IF 2 * r > d \/ (2 * r = d /\ q % 2 = 1) THEN q + 1 ELSE q
  BY DEF Rounded
<1>3. x \in Int /\ q * d = x /\ (q + 1) * d = x + d
  BY <1>1, SMT
<1> HIDE DEF q, r, x, R
<1>4. CASE R = q + 1 /\ 2 * r >= d
  BY <1>1, <1>3, <1>4 DEF Within, R
<1>5. CASE R = q /\ 2 * r <= d
  BY <1>1, <1>3, <1>5 DEF Within, R
<1> QED
  BY <1>1, <1>2, <1>4, <1>5

\* What a scaled or unscaled number is packed from.
LEMMA ScaledIn ==
    ASSUME NEW param, IsScale(param), NEW v, IsLeaf(v), NEW unit, ScaleIn(param, v, unit).ok
    PROVE  /\ v.type \in {"bool", "int", "float"}
           /\ ScaleIn(param, v, unit).out \in Int
           /\ SameScalar(param, unit, v, ScaleOut(param, ScaleIn(param, v, unit).out, unit))
<1> DEFINE raw == ScaleIn(param, v, unit)
           n == raw.out
           s == Scales(param, unit)
           step == Step(param)
           d == ScaleOut(param, n, unit)
<1>1. step \in Nat \ {0} /\ Grain \in Nat \ {0}
  BY StepPositive
<1>2. n \in Int => d.of = n * (IF s THEN step ELSE Grain)
  BY DEF ScaleOut, Value
<1>3. CASE v.type = "bool"
  <2>1. raw = Done(v.of) /\ v.of \in {0, 1}
    BY <1>3 DEF ScaleIn, IsLeaf
  <2>2. n = v.of
    BY <2>1 DEF Done
  <2> HIDE DEF n, d, s, step
  <2>3. SameScalar(param, unit, v, d) <=> d.of = v.of * (IF s THEN step ELSE Grain)
    BY <1>3 DEF SameScalar, s, step
  <2> QED
    BY <1>2, <1>3, <2>1, <2>2, <2>3 DEF n, d
<1>4. CASE v.type \in {"int", "float"}
  <2>1. v.of \in Int
    BY <1>4 DEF IsLeaf
  <2>2. CASE s
    <3>1. raw = Done(Rounded(v.of, step))
      BY <1>4, <2>2 DEF ScaleIn
    <3>2. n = Rounded(v.of, step)
      BY <3>1 DEF Done
    <3>3. SameScalar(param, unit, v, d) <=> Within(2 * v.of, 2 * d.of, step)
      BY <1>4, <2>2 DEF SameScalar
    <3> HIDE DEF n, d, s, step
    <3>4. n \in Int /\ Within(2 * v.of, 2 * (n * step), step)
      BY <1>1, <2>1, <3>2, RoundedNear
    <3>5. d.of = n * step
      BY <1>2, <2>2, <3>4
    <3> QED
      BY <1>4, <3>3, <3>4, <3>5 DEF n, d
  <2>3. CASE ~s
    <3>1. raw = IF v.of % Grain = 0 THEN Done(v.of \div Grain) ELSE Rejected
      BY <1>4, <2>3 DEF ScaleIn
    <3>2. v.of % Grain = 0 /\ n = v.of \div Grain
      BY <3>1 DEF Done, Rejected
    <3>3. SameScalar(param, unit, v, d) <=> d.of = v.of
      BY <1>4, <2>3 DEF SameScalar
    <3>4. n \in Int /\ v.of = Grain * n
      <4>1. /\ v.of \div Grain \in Int
            /\ v.of = Grain * (v.of \div Grain) + (v.of % Grain)
        BY <1>1, <2>1, Divided
      <4> QED
        BY <1>1, <3>2, <4>1
    <3> HIDE DEF n, d, s, step
    <3>5. d.of = n * Grain
      BY <1>2, <2>3, <3>4
    <3> QED
      BY <1>1, <1>4, <3>3, <3>4, <3>5 DEF n, d
  <2> QED
    BY <2>2, <2>3
<1>5. v.type \in {"bool", "int", "float"}
  BY DEF ScaleIn, Rejected
<1> QED
  BY <1>3, <1>4, <1>5

\* A number that is encoded reads as itself.
THEOREM ScalarWritten ==
    ASSUME NEW param, IsScale(param), NEW fmt, IsFormat(fmt), NEW v, IsLeaf(v), NEW unit,
           PackValue(param, fmt, v, unit).ok
    PROVE  LET out == PackValue(param, fmt, v, unit).out
           IN  /\ out \in Seq(Octet) /\ Len(out) = fmt.size
               /\ v.type \in {"bool", "int", "float"}
               /\ SameScalar(param, unit, v, ScaleOut(param, Unpack(fmt, out), unit))
<1> DEFINE raw == ScaleIn(param, v, unit)
           n == raw.out
<1>1. PackValue(param, fmt, v, unit) = IF raw.ok THEN Pack(fmt, n) ELSE Rejected
  BY DEF PackValue
<1>2. raw.ok /\ Pack(fmt, n).ok
  BY <1>1 DEF Rejected
<1>3. /\ n \in Int /\ v.type \in {"bool", "int", "float"}
      /\ SameScalar(param, unit, v, ScaleOut(param, n, unit))
  BY <1>2, ScaledIn
<1> HIDE DEF n
<1>4. Representable(fmt, n)
  BY <1>2 DEF Pack, Rejected
<1>5. PackValue(param, fmt, v, unit).out = Packed(fmt.size, n)
  BY <1>1, <1>2, <1>3, <1>4, PackUnpack DEF Done
<1> QED
  BY <1>3, <1>4, <1>5, PackUnpack

\* A number that is decoded is encoded as the bytes it was read from, whether as an int or
\* as a float.
THEOREM ScalarRead ==
    ASSUME NEW param, IsScale(param), NEW fmt, IsFormat(fmt), NEW unit,
           NEW data \in Seq(Octet), Len(data) = fmt.size
    PROVE  LET v == ScaleOut(param, Unpack(fmt, data), unit)
           IN  /\ v.type \in {"int", "float"} /\ v = Value(v.type, v.of) /\ IsLeaf(v)
               /\ \A w : (w.type \in {"int", "float"} /\ w.of = v.of)
                             => PackValue(param, fmt, w, unit) = Done(data)
<1> DEFINE n == Unpack(fmt, data)
           v == ScaleOut(param, n, unit)
           s == Scales(param, unit)
           step == Step(param)
<1>1. n \in Int /\ Pack(fmt, n) = Done(data)
  BY UnpackPack
<1>2. step \in Nat \ {0} /\ Grain \in Nat \ {0}
  BY StepPositive
<1>3. v = IF s THEN Value("float", n * step) ELSE Value("int", n * Grain)
  BY DEF ScaleOut
<1> HIDE DEF n, v
<1>4. n * Grain \in Int /\ (n * Grain) % Grain = 0 /\ (n * Grain) \div Grain = n /\ n * step \in Int
  <2>1. n * step \in Int
    <3> HIDE DEF step
    <3> QED
      BY <1>1, <1>2
  <2> QED
    BY <1>1, <1>2, <2>1, Multiple
<1>5. v.type \in {"int", "float"} /\ v = Value(v.type, v.of) /\ IsLeaf(v)
  <2>1. CASE s
    <3>1. v.type = "float" /\ v.of = n * step
      BY <1>3, <2>1 DEF Value
    <3> QED
      BY <1>3, <1>4, <2>1, <3>1 DEF IsLeaf
  <2>2. CASE ~s
    <3>1. v.type = "int" /\ v.of = n * Grain
      BY <1>3, <2>2 DEF Value
    <3> QED
      BY <1>3, <1>4, <2>2, <3>1 DEF IsLeaf
  <2> QED
    BY <2>1, <2>2
<1>6. ASSUME NEW w, w.type \in {"int", "float"}, w.of = v.of
      PROVE  PackValue(param, fmt, w, unit) = Done(data)
  <2>1. ScaleIn(param, w, unit) = Done(n)
    <3>1. CASE s
      <4>1. w.of = n * step
        BY <1>3, <1>6, <3>1 DEF Value
      <4>2. ScaleIn(param, w, unit) = Done(Rounded(n * step, step))
        BY <1>6, <3>1, <4>1 DEF ScaleIn
      <4> HIDE DEF step
      <4> QED
        BY <1>1, <1>2, <4>2, RoundedExact
    <3>2. CASE ~s
      <4>1. w.of = n * Grain
        BY <1>3, <1>6, <3>2 DEF Value
      <4>2. ScaleIn(param, w, unit) = IF w.of % Grain = 0 THEN Done(w.of \div Grain) ELSE Rejected
        BY <1>6, <3>2 DEF ScaleIn
      <4> DEFINE x == n * Grain
      <4>3. x % Grain = 0 /\ x \div Grain = n /\ w.of = x
        BY <1>4, <4>1
      <4> HIDE DEF x
      <4> QED
        BY <4>2, <4>3
    <3> QED
      BY <3>1, <3>2
  <2> QED
    BY <1>1, <2>1 DEF PackValue, Done
<1> QED
  BY <1>5, <1>6 DEF n, v

-----------------------------------------------------------------------------
(* Parts cut out, and put together again.                                   *)

\* Parts cut out of a sequence one after another.
AreCuts(cuts, n, ends, data) ==
    /\ Len(cuts) = n
    /\ ends[0] = 0 /\ ends[n] = Len(data)
    /\ \A i \in 0 .. n : ends[i] \in Nat /\ ends[i] <= Len(data)
    /\ \A i \in 1 .. n : /\ ends[i - 1] <= ends[i]
                         /\ cuts[i] = SubSeq(data, ends[i - 1] + 1, ends[i])

\* They are the sequence.
THEOREM CutsJoin ==
    ASSUME NEW S, NEW data \in Seq(S), NEW n \in Nat \ {0}, NEW ends, NEW cuts \in Seq(Seq(S)),
           AreCuts(cuts, n, ends, data)
    PROVE  FlattenSeq(cuts) = data
<1> USE DEF AreCuts
<1>1. PICK f : IsJoin(f, cuts) /\ FlattenSeq(cuts) = f[n]
  BY FlattenIsJoin
<1>2. \A i \in 1 .. n : f[i] = IF i = 1 THEN cuts[i] ELSE f[i - 1] \o cuts[i]
  BY <1>1 DEF IsJoin
<1> DEFINE T == {k \in Nat : k + 1 <= n => f[k + 1] = SubSeq(data, 1, ends[k + 1])}
<1>3. 0 \in T
  <2>1. 1 \in 1 .. n /\ 0 + 1 = 1 /\ 1 - 1 = 0 /\ ends[0] + 1 = 1
    OBVIOUS
  <2>2. f[1] = cuts[1] /\ cuts[1] = SubSeq(data, ends[1 - 1] + 1, ends[1])
    BY <1>2, <2>1
  <2>3. f[1] = SubSeq(data, 1, ends[1])
    BY <2>1, <2>2
  <2> QED
    BY <2>1, <2>3
<1>4. ASSUME NEW k \in Nat, k \in T PROVE k + 1 \in T
  <2> SUFFICES ASSUME (k + 1) + 1 <= n PROVE f[(k + 1) + 1] = SubSeq(data, 1, ends[(k + 1) + 1])
    BY DEF T
  <2> DEFINE a == k + 1
             b == a + 1
  <2>1. a \in 1 .. n /\ a \in 0 .. n /\ b \in 1 .. n /\ b \in 0 .. n /\ b # 1 /\ b - 1 = a
    OBVIOUS
  <2>2. f[a] = SubSeq(data, 1, ends[a])
    BY <1>4, <2>1
  <2> HIDE DEF a, b
  <2> DEFINE p == ends[a]
             q == ends[b]
  <2>3. f[b] = f[a] \o cuts[b] /\ cuts[b] = SubSeq(data, p + 1, q)
    BY <1>2, <2>1
  <2>4. p \in Nat /\ q \in Nat /\ p <= q /\ q <= Len(data) /\ Len(data) \in Nat
    BY <2>1
  <2>5. f[b] = SubSeq(data, 1, p) \o SubSeq(data, p + 1, q)
    BY <2>2, <2>3
  <2> HIDE DEF p, q
  <2>6. SubSeq(data, 1, p) \o SubSeq(data, p + 1, q) = SubSeq(data, 1, q)
    <3>1. 1 \in 1 .. Len(data) + 1 /\ p \in 1 - 1 .. Len(data) /\ q \in p .. Len(data)
      BY <2>4
    <3> QED
      BY <3>1, ConcatAdjacentSubSeq
  <2> QED
    BY <2>5, <2>6 DEF q, b, a
<1>5. \A k \in Nat : k \in T
  <2> HIDE DEF T
  <2> QED
    BY <1>3, <1>4, SetInduction
<1>6. f[n] = SubSeq(data, 1, ends[n])
  <2> DEFINE k == n - 1
  <2>1. k \in Nat /\ k + 1 = n
    OBVIOUS
  <2> HIDE DEF k
  <2>2. k \in T
    BY <1>5, <2>1
  <2> QED
    BY <2>1, <2>2
<1> QED
  BY <1>1, <1>6, SubSeqFull

\* Where elements of one size end.
LEMMA EndsOfSame ==
    ASSUME NEW sizes \in Seq(Nat), NEW size \in Nat, \A i \in 1 .. Len(sizes) : sizes[i] = size
    PROVE  \A i \in 0 .. Len(sizes) : Ends(sizes)[i] = i * size
<1> DEFINE ends == Ends(sizes)
           n == Len(sizes)
           T == {i \in Nat : i <= n => ends[i] = i * size}
<1>1. ends[0] = 0 /\ n \in Nat /\ \A i \in 1 .. n : ends[i] = ends[i - 1] + size
  BY EndsSpec
<1> HIDE DEF ends, n
<1>2. 0 \in T
  <2>1. 0 * size = 0
    OBVIOUS
  <2> QED
    BY <1>1, <2>1
<1>3. ASSUME NEW i \in Nat, i \in T PROVE i + 1 \in T
  <2>1. ASSUME i + 1 <= n PROVE ends[i + 1] = (i + 1) * size
    <3>1. i <= n /\ i + 1 \in 1 .. n /\ (i + 1) - 1 = i
      BY <1>1, <2>1
    <3>2. ends[i] = i * size
      BY <1>3, <3>1
    <3>3. ends[i + 1] = i * size + size
      BY <1>1, <3>1, <3>2
    <3>4. (i + 1) * size = i * size + size
      OBVIOUS
    <3> QED
      BY <3>3, <3>4
  <2> QED
    BY <2>1
<1>4. \A i \in Nat : i \in T
  <2> HIDE DEF T
  <2> QED
    BY <1>2, <1>3, SetInduction
<1> QED
  BY <1>1, <1>4 DEF ends, n

\* Elements of one size, put together, are cut into the same elements.
THEOREM ElementsOfConcat ==
    ASSUME NEW S, NEW size \in Nat \ {0}, NEW outs \in Seq(Seq(S)),
           \A i \in 1 .. Len(outs) : Len(outs[i]) = size
    PROVE  /\ FlattenSeq(outs) \in Seq(S) /\ Len(FlattenSeq(outs)) = Len(outs) * size
           /\ Elements(FlattenSeq(outs), size) = outs
<1> DEFINE n == Len(outs)
           sizes == [i \in 1 .. n |-> size]
           ends == Ends(sizes)
           e == FlattenSeq(outs)
<1>1. n \in Nat /\ sizes \in Seq(Nat) /\ Len(sizes) = n /\ \A i \in 1 .. n : sizes[i] = size
  OBVIOUS
<1> HIDE DEF sizes
<1>10. \A i \in 1 .. n : Len(outs[i]) = sizes[i]
  BY <1>1
<1>2. \A i \in 0 .. n : ends[i] = i * size
  BY <1>1, EndsOfSame
<1>3. /\ e \in Seq(S)
      /\ Len(e) = IF n = 0 THEN 0 ELSE ends[n - 1] + Len(outs[n])
      /\ \A i \in 1 .. n : SubSeq(e, ends[i - 1] + 1, ends[i - 1] + Len(outs[i])) = outs[i]
  <2>1. AreParts(outs, sizes)
    BY <1>1, <1>10 DEF AreParts
  <2> HIDE DEF n
  <2>2. e \in Seq(S) /\ Lie(outs, ends, e)
    BY <1>1, <2>1, PartsLie
  <2> QED
    BY <2>2 DEF n, Lie
<1> HIDE DEF e, ends, n
<1>4. Len(e) = n * size
  <2>1. CASE n = 0
    <3>1. 0 * size = 0
      OBVIOUS
    <3> QED
      BY <1>3, <2>1, <3>1
  <2>2. CASE n # 0
    <3>1. n - 1 \in 0 .. n /\ n \in 1 .. n
      BY <1>1, <2>2
    <3>2. ends[n - 1] = (n - 1) * size /\ Len(outs[n]) = size
      BY <1>2, <3>1 DEF n
    <3>3. (n - 1) * size + size = n * size
      BY <1>1, <2>2
    <3> QED
      BY <1>3, <2>2, <3>2, <3>3
  <2> QED
    BY <2>1, <2>2
<1>5. Len(e) \div size = n
  BY <1>1, <1>4, Multiple
<1>6. ASSUME NEW i \in 1 .. n PROVE SubSeq(e, (i - 1) * size + 1, i * size) = outs[i]
  <2>1. i - 1 \in 0 .. n /\ i \in Int
    BY <1>1
  <2>2. ends[i - 1] = (i - 1) * size /\ Len(outs[i]) = size
    BY <1>2, <2>1 DEF n
  <2>3. (i - 1) * size + size = i * size
    BY <2>1
  <2> QED
    BY <1>3, <2>2, <2>3
<1>7. Elements(e, size) = [i \in 1 .. n |-> SubSeq(e, (i - 1) * size + 1, i * size)]
  BY <1>5 DEF Elements
<1>8. outs = [i \in 1 .. n |-> outs[i]]
  BY DEF n
<1>9. Elements(e, size) = outs
  BY <1>6, <1>7, <1>8
<1> QED
  BY <1>3, <1>4, <1>9 DEF e, n

\* What is cut into elements of one size is them put together.
THEOREM ConcatOfElements ==
    ASSUME NEW S, NEW size \in Nat \ {0}, NEW data \in Seq(S), Len(data) % size = 0
    PROVE  /\ Elements(data, size) \in Seq(Seq(S)) /\ FlattenSeq(Elements(data, size)) = data
           /\ Len(Elements(data, size)) * size = Len(data)
           /\ \A i \in 1 .. Len(Elements(data, size)) : Len(Elements(data, size)[i]) = size
<1> DEFINE l == Len(data)
           n == l \div size
           cuts == Elements(data, size)
<1>1. l \in Nat
  OBVIOUS
<1>2. n \in Nat /\ l = size * n /\ l = n * size
  <2>1. n \in Int /\ l = size * n + (l % size) /\ l % size = 0
    BY <1>1, Divided
  <2> HIDE DEF n, l
  <2>2. l = size * n /\ l = n * size
    BY <2>1
  <2>3. n >= 0
    BY <1>1, <2>1, <2>2, SMT
  <2> QED
    BY <2>1, <2>2, <2>3
<1>3. cuts = [i \in 1 .. n |-> SubSeq(data, (i - 1) * size + 1, i * size)]
  BY DEF Elements
<1> HIDE DEF n, cuts
<1>4. ASSUME NEW i \in 0 .. n PROVE i * size \in Nat /\ i * size <= l
  <2>1. i \in Nat /\ i <= n
    BY <1>2
  <2> QED
    BY <1>2, <2>1, SMT
<1>5. ASSUME NEW i \in 1 .. n
      PROVE  /\ (i - 1) * size \in Nat /\ (i - 1) * size + size = i * size /\ i * size <= l
             /\ i * size \in Nat
  <2>1. i - 1 \in 0 .. n /\ i \in 0 .. n /\ i \in Int
    BY <1>2
  <2>2. (i - 1) * size + size = i * size
    BY <2>1
  <2> QED
    BY <1>4, <2>1, <2>2
<1>6. ASSUME NEW i \in 1 .. n PROVE cuts[i] \in Seq(S) /\ Len(cuts[i]) = size
  <2> DEFINE a == (i - 1) * size
             b == i * size
  <2>1. a \in Nat /\ b \in Nat /\ a + size = b /\ b <= l
    BY <1>5
  <2>2. cuts[i] = SubSeq(data, a + 1, b)
    BY <1>3
  <2> HIDE DEF a, b
  <2>3. \A j \in a + 1 .. b : data[j] \in S
    BY <2>1
  <2>4. /\ SubSeq(data, a + 1, b) \in Seq(S)
        /\ Len(SubSeq(data, a + 1, b)) = IF a + 1 <= b THEN b - (a + 1) + 1 ELSE 0
    BY <2>1, <2>3, SubSeqProperties
  <2> QED
    BY <2>1, <2>2, <2>4
<1>7. cuts \in Seq(Seq(S)) /\ Len(cuts) = n
  <2>1. cuts = [i \in 1 .. n |-> cuts[i]]
    BY <1>3
  <2>2. cuts \in [1 .. n -> Seq(S)]
    BY <1>6, <2>1
  <2> QED
    BY <1>2, <2>2, FunctionIsSequence
<1>8. FlattenSeq(cuts) = data
  <2>1. CASE n = 0
    <3>1. 0 * size = 0
      OBVIOUS
    <3>2. Len(data) = 0
      BY <1>2, <2>1, <3>1
    <3>3. data = << >> /\ cuts = << >>
      BY <1>7, <2>1, <3>2
    <3> QED
      BY <3>3 DEF FlattenSeq
  <2>2. CASE n # 0
    <3> DEFINE ends == [i \in 0 .. n |-> i * size]
    <3>1. \A i \in 0 .. n : ends[i] = i * size
      OBVIOUS
    <3>2. 0 \in 0 .. n /\ n \in 0 .. n /\ 0 * size = 0
      BY <1>2
    <3> HIDE DEF ends
    <3>3. ends[0] = 0 /\ ends[n] = Len(data)
      BY <1>2, <3>1, <3>2
    <3>4. ASSUME NEW i \in 1 .. n PROVE ends[i] = i * size /\ ends[i - 1] = (i - 1) * size
      <4>1. i \in 0 .. n /\ i - 1 \in 0 .. n
        BY <1>2
      <4> QED
        BY <3>1, <4>1
    <3>5. \A i \in 0 .. n : ends[i] \in Nat /\ ends[i] <= Len(data)
      BY <1>4, <3>1
    <3>6. \A i \in 1 .. n : ends[i - 1] <= ends[i]
      BY <1>5, <3>4
    <3>7. \A i \in 1 .. n : cuts[i] = SubSeq(data, ends[i - 1] + 1, ends[i])
      BY <1>3, <3>4
    <3>8. n \in Nat \ {0}
      BY <1>2, <2>2
    <3> HIDE DEF l
    <3>9. AreCuts(cuts, n, ends, data)
      BY <1>7, <3>3, <3>5, <3>6, <3>7 DEF AreCuts
    <3> QED
      BY <1>7, <3>8, <3>9, CutsJoin
  <2> QED
    BY <2>1, <2>2
<1> QED
  BY <1>2, <1>6, <1>7, <1>8 DEF cuts

-----------------------------------------------------------------------------
(* Fields one after another: their bytes, whatever the elements are.       *)

\* Fields of which each element has so many bytes.
AreFields(fields, each) ==
    /\ fields \in Seq({fields[i] : i \in DOMAIN fields})
    /\ each \in Seq(Nat \ {0}) /\ Len(each) = Len(fields)
    /\ \A i \in 1 .. Len(fields) : fields[i].count \in Nat /\ (fields[i].count = 0 => i = Len(fields))

Sizes(fields, each) == [i \in 1 .. Len(fields) |-> each[i] * fields[i].count]

\* The number of bytes is one the field can have.
Fits2(count, size, n) == IF count = 0 THEN n % size = 0 ELSE n = size * count

\* As Exact has it.
Laid(fields, each, data) ==
    LET n == Len(fields)
        left == Len(data) - Ends(Sizes(fields, each))[n]
    IN  IF n > 0 /\ fields[n].count = 0 THEN left >= 0 /\ left % each[n] = 0 ELSE left = 0

\* The product of two natural numbers is one.
LEMMA ProductNat == ASSUME NEW a \in Nat, NEW b \in Nat PROVE a * b \in Nat
OBVIOUS

\* The sizes of fields are numbers, one of each.
LEMMA SizesTyped ==
    ASSUME NEW fields, NEW each, AreFields(fields, each)
    PROVE  /\ Len(fields) \in Nat /\ DOMAIN fields = 1 .. Len(fields)
           /\ Sizes(fields, each) \in Seq(Nat) /\ Len(Sizes(fields, each)) = Len(fields)
           /\ \A i \in 1 .. Len(fields) :
                  /\ Sizes(fields, each)[i] = each[i] * fields[i].count
                  /\ each[i] \in Nat \ {0} /\ fields[i].count \in Nat
                  /\ fields[i].count = 0 => i = Len(fields) /\ Sizes(fields, each)[i] = 0
<1>1. Len(fields) \in Nat /\ DOMAIN fields = 1 .. Len(fields)
  BY DEF AreFields
<1>2. ASSUME NEW i \in 1 .. Len(fields)
      PROVE  /\ each[i] \in Nat \ {0} /\ fields[i].count \in Nat /\ each[i] * fields[i].count \in Nat
             /\ fields[i].count = 0 => i = Len(fields) /\ each[i] * fields[i].count = 0
  <2>1. each[i] \in Nat \ {0} /\ fields[i].count \in Nat /\ (fields[i].count = 0 => i = Len(fields))
    BY <1>1 DEF AreFields
  <2>2. each[i] * 0 = 0
    BY <2>1
  <2> QED
    BY <2>1, <2>2, ProductNat
<1>3. Sizes(fields, each) \in [1 .. Len(fields) -> Nat]
  BY <1>2 DEF Sizes
<1>4. Sizes(fields, each) \in Seq(Nat) /\ Len(Sizes(fields, each)) = Len(fields)
  BY <1>1, <1>3, FunctionIsSequence
<1> QED
  BY <1>1, <1>2, <1>4 DEF Sizes

\* Fields put together are found again where they were put.
THEOREM ChunksOfParts ==
    ASSUME NEW fields, NEW each, AreFields(fields, each),
           NEW outs \in Seq(Seq(Octet)), Len(outs) = Len(fields),
           \A i \in 1 .. Len(fields) : Fits2(fields[i].count, each[i], Len(outs[i]))
    PROVE  /\ FlattenSeq(outs) \in Seq(Octet)
           /\ Laid(fields, each, FlattenSeq(outs))
           /\ \A i \in 1 .. Len(fields) :
                  Chunk(Ends(Sizes(fields, each)), fields, i, FlattenSeq(outs)) = outs[i]
<1> DEFINE n == Len(fields)
           sizes == Sizes(fields, each)
           ends == Ends(sizes)
           e == FlattenSeq(outs)
<1>1. /\ n \in Nat /\ sizes \in Seq(Nat) /\ Len(sizes) = n
      /\ \A i \in 1 .. n : /\ sizes[i] = each[i] * fields[i].count
                           /\ each[i] \in Nat \ {0} /\ fields[i].count \in Nat
                           /\ fields[i].count = 0 => i = n /\ sizes[i] = 0
  BY SizesTyped
<1> HIDE DEF sizes
<1>2. /\ ends[0] = 0
      /\ \A i \in 1 .. n : ends[i] = ends[i - 1] + sizes[i]
      /\ \A i \in 0 .. n : ends[i] \in Nat
  BY <1>1, EndsSpec
<1>3. \A i \in 1 .. n : Len(outs[i]) \in Nat
  OBVIOUS
<1>4. \A i \in 1 .. n : fields[i].count # 0 => Len(outs[i]) = sizes[i]
  BY <1>1 DEF Fits2
<1>5. AreParts(outs, sizes)
  <2>1. \A i \in 1 .. n : i < n => fields[i].count # 0
    BY <1>1
  <2> HIDE DEF n
  <2>2. Len(outs) = n /\ Len(sizes) = n
    BY <1>1 DEF n
  <2> QED
    BY <1>4, <2>1, <2>2 DEF AreParts
<1>6. e \in Seq(Octet) /\ Lie(outs, ends, e)
  BY <1>1, <1>5, PartsLie
<1>7. Len(e) \in Nat
  BY <1>6
<1> HIDE DEF ends, e
<1>8. /\ Len(e) = IF n = 0 THEN 0 ELSE ends[n - 1] + Len(outs[n])
      /\ \A i \in 1 .. n : SubSeq(e, ends[i - 1] + 1, ends[i - 1] + Len(outs[i])) = outs[i]
  BY <1>6 DEF Lie
<1>9. Laid(fields, each, e)
  <2> DEFINE left == Len(e) - ends[n]
  <2>1. Laid(fields, each, e) <=>
            IF n > 0 /\ fields[n].count = 0 THEN left >= 0 /\ left % each[n] = 0 ELSE left = 0
    BY DEF Laid, ends, sizes
  <2>2. CASE n = 0
    BY <1>2, <1>8, <2>1, <2>2
  <2>3. CASE n # 0
    <3>1. n \in 1 .. n /\ n - 1 \in 0 .. n /\ n > 0
      BY <1>1, <2>3
    <3>2. /\ ends[n] = ends[n - 1] + sizes[n] /\ ends[n - 1] \in Nat /\ ends[n] \in Nat
          /\ Len(e) = ends[n - 1] + Len(outs[n]) /\ Len(outs[n]) \in Nat
          /\ sizes[n] \in Nat
      BY <1>1, <1>2, <1>3, <1>8, <2>3, <3>1, SMTT(30)
    <3>3. left = Len(outs[n]) - sizes[n]
      BY <3>2
    <3> HIDE DEF left
    <3>4. CASE fields[n].count = 0
      <4>1. sizes[n] = 0 /\ Len(outs[n]) % each[n] = 0
        BY <1>1, <3>1, <3>4 DEF Fits2
      <4>2. left = Len(outs[n])
        BY <3>2, <3>3, <4>1
      <4> QED
        BY <2>1, <3>1, <3>2, <3>4, <4>1, <4>2
    <3>5. CASE fields[n].count # 0
      <4>1. left = 0
        BY <1>4, <3>1, <3>2, <3>3, <3>5
      <4> QED
        BY <2>1, <3>5, <4>1
    <3> QED
      BY <3>4, <3>5
  <2> QED
    BY <2>2, <2>3
<1>10. ASSUME NEW i \in 1 .. n PROVE Chunk(ends, fields, i, e) = outs[i]
  <2>1. SubSeq(e, ends[i - 1] + 1, ends[i - 1] + Len(outs[i])) = outs[i]
    BY <1>8
  <2>2. Chunk(ends, fields, i, e)
            = SubSeq(e, ends[i - 1] + 1, IF fields[i].count = 0 THEN Len(e) ELSE ends[i])
    BY DEF Chunk
  <2>3. CASE fields[i].count = 0
    <3>1. i = n /\ n # 0
      BY <1>1, <2>3
    <3>2. Len(e) = ends[i - 1] + Len(outs[i])
      BY <1>8, <3>1
    <3> QED
      BY <2>1, <2>2, <2>3, <3>2
  <2>4. CASE fields[i].count # 0
    <3>1. ends[i] = ends[i - 1] + Len(outs[i])
      BY <1>2, <1>4, <2>4
    <3> QED
      BY <2>1, <2>2, <2>4, <3>1
  <2> QED
    BY <2>3, <2>4
<1> QED
  BY <1>6, <1>9, <1>10 DEF e, ends, sizes

AreChunks(chunks, fields, each, data) ==
    chunks = [i \in 1 .. Len(fields) |-> Chunk(Ends(Sizes(fields, each)), fields, i, data)]

\* Data that is laid out as fields is its chunks put together.
THEOREM PartsOfChunks ==
    ASSUME NEW fields, NEW each, AreFields(fields, each),
           NEW data \in Seq(Octet), Laid(fields, each, data),
           NEW chunks, AreChunks(chunks, fields, each, data)
    PROVE  /\ chunks \in Seq(Seq(Octet)) /\ Len(chunks) = Len(fields)
           /\ \A i \in 1 .. Len(fields) : Fits2(fields[i].count, each[i], Len(chunks[i]))
           /\ FlattenSeq(chunks) = data
<1> DEFINE n == Len(fields)
           sizes == Sizes(fields, each)
           ends == Ends(sizes)
           l == Len(data)
           left == l - ends[n]
           upto == [i \in 0 .. n |-> IF i = n THEN l ELSE ends[i]]
<1>1. /\ n \in Nat /\ sizes \in Seq(Nat) /\ Len(sizes) = n
      /\ \A i \in 1 .. n : /\ sizes[i] = each[i] * fields[i].count
                           /\ each[i] \in Nat \ {0} /\ fields[i].count \in Nat
                           /\ fields[i].count = 0 => i = n /\ sizes[i] = 0
  BY SizesTyped
<1>2. IF n > 0 /\ fields[n].count = 0 THEN left >= 0 /\ left % each[n] = 0 ELSE left = 0
  BY DEF Laid
<1>3. chunks = [i \in 1 .. n |-> SubSeq(data, ends[i - 1] + 1, IF fields[i].count = 0 THEN l ELSE ends[i])]
  BY DEF AreChunks, Chunk
<1> HIDE DEF sizes
<1>4. /\ ends[0] = 0
      /\ \A i \in 1 .. n : ends[i] = ends[i - 1] + sizes[i]
      /\ \A i \in 0 .. n : ends[i] \in Nat
      /\ \A j \in 0 .. n : \A i \in 0 .. j : ends[i] <= ends[j]
  BY <1>1, EndsSpec, EndsGrow
<1>5. l \in Nat
  OBVIOUS
<1>6. n \in 0 .. n /\ ends[n] \in Nat /\ left \in Int /\ left >= 0
  <2>1. n \in 0 .. n
    BY <1>1
  <2> QED
    BY <1>2, <1>4, <1>5, <2>1
<1> HIDE DEF ends, n, l
<1>7. \A i \in 0 .. n : upto[i] = IF i = n THEN l ELSE ends[i]
  OBVIOUS
<1> HIDE DEF upto
<1>8. \A i \in 0 .. n : upto[i] \in Nat /\ upto[i] <= l
  <2> SUFFICES ASSUME NEW i \in 0 .. n PROVE upto[i] \in Nat /\ upto[i] <= l
    OBVIOUS
  <2>1. ends[i] \in Nat /\ ends[i] <= ends[n] /\ ends[n] <= l
    BY <1>1, <1>4, <1>5, <1>6
  <2> QED
    BY <1>5, <1>6, <1>7, <2>1
<1>9. ASSUME NEW i \in 1 .. n
      PROVE  /\ i \in 0 .. n /\ i - 1 \in 0 .. n /\ i - 1 # n
             /\ upto[i - 1] = ends[i - 1] /\ upto[i - 1] <= upto[i]
             /\ chunks[i] = SubSeq(data, upto[i - 1] + 1, upto[i])
             /\ Fits2(fields[i].count, each[i], upto[i] - upto[i - 1])
  <2>1. i \in 0 .. n /\ i - 1 \in 0 .. n /\ i - 1 # n /\ i \in Int /\ i - 1 \in 0 .. i
    BY <1>1
  <2>2. upto[i - 1] = ends[i - 1] /\ ends[i - 1] \in Nat
    BY <1>4, <1>7, <2>1
  <2>3. ends[i] = ends[i - 1] + sizes[i] /\ sizes[i] \in Nat /\ ends[i - 1] <= ends[i] /\ ends[i] \in Nat
    BY <1>1, <1>4, <2>1
  <2>4. chunks[i] = SubSeq(data, ends[i - 1] + 1, IF fields[i].count = 0 THEN l ELSE ends[i])
    BY <1>3
  <2>5. CASE fields[i].count = 0
    <3>1. i = n /\ sizes[i] = 0 /\ n > 0
      BY <1>1, <2>5
    <3>2. upto[i] = l /\ ends[i] = ends[i - 1]
      BY <1>7, <2>1, <2>2, <2>3, <3>1
    <3>3. left % each[n] = 0 /\ left = l - ends[i - 1]
      BY <1>2, <2>5, <3>1, <3>2
    <3>4. upto[i] - upto[i - 1] = left
      BY <2>2, <3>2, <3>3
    <3> HIDE DEF left
    <3>5. Fits2(fields[i].count, each[i], upto[i] - upto[i - 1])
      BY <2>5, <3>1, <3>3, <3>4 DEF Fits2
    <3>6. upto[i - 1] <= upto[i]
      BY <1>8, <2>1, <2>2, <3>2
    <3> QED
      BY <2>1, <2>2, <2>4, <2>5, <3>2, <3>5, <3>6
  <2>6. CASE fields[i].count # 0
    <3>1. upto[i] = ends[i]
      <4>1. CASE i = n
        <5>1. n > 0 /\ fields[n].count # 0
          BY <1>1, <2>6, <4>1
        <5>2. left = 0
          BY <1>2, <5>1
        <5> QED
          BY <1>5, <1>6, <1>7, <2>1, <4>1, <5>2
      <4>2. CASE i # n
        BY <1>7, <2>1, <4>2
      <4> QED
        BY <4>1, <4>2
    <3>2. upto[i] - upto[i - 1] = sizes[i]
      BY <2>2, <2>3, <3>1
    <3>3. Fits2(fields[i].count, each[i], upto[i] - upto[i - 1])
      BY <1>1, <2>6, <3>2 DEF Fits2
    <3> QED
      BY <2>1, <2>2, <2>3, <2>4, <2>6, <3>1, <3>3
  <2> QED
    BY <2>5, <2>6
<1>10. ASSUME NEW i \in 1 .. n
       PROVE  chunks[i] \in Seq(Octet) /\ Len(chunks[i]) = upto[i] - upto[i - 1]
  <2> DEFINE a == upto[i - 1]
             b == upto[i]
  <2>1. a \in Nat /\ b \in Nat /\ a <= b /\ b <= l /\ chunks[i] = SubSeq(data, a + 1, b)
    BY <1>8, <1>9
  <2> HIDE DEF a, b
  <2>2. \A j \in a + 1 .. b : data[j] \in Octet
    BY <2>1 DEF l
  <2>3. /\ SubSeq(data, a + 1, b) \in Seq(Octet)
        /\ Len(SubSeq(data, a + 1, b)) = IF a + 1 <= b THEN b - (a + 1) + 1 ELSE 0
    BY <2>1, <2>2, SubSeqProperties
  <2>4. Len(chunks[i]) = b - a
    BY <2>1, <2>3
  <2> QED
    BY <2>1, <2>3, <2>4 DEF a, b
<1>11. chunks \in Seq(Seq(Octet)) /\ Len(chunks) = n
  <2>1. chunks = [i \in 1 .. n |-> chunks[i]]
    BY <1>3
  <2>2. chunks \in [1 .. n -> Seq(Octet)]
    BY <1>10, <2>1
  <2> QED
    BY <1>1, <2>2, FunctionIsSequence
<1>12. FlattenSeq(chunks) = data
  <2>1. CASE n = 0
    <3>1. left = 0
      BY <1>2, <2>1
    <3>2. l = 0
      BY <1>4, <1>5, <2>1, <3>1
    <3>3. chunks = << >> /\ data = << >>
      BY <1>11, <2>1, <3>2 DEF l
    <3> QED
      BY <3>3 DEF FlattenSeq
  <2>2. CASE n # 0
    <3>1. n \in Nat \ {0} /\ 0 \in 0 .. n /\ 0 # n
      BY <1>1, <2>2
    <3>2. upto[0] = 0 /\ upto[n] = Len(data)
      BY <1>4, <1>6, <1>7, <3>1 DEF l
    <3>3. AreCuts(chunks, n, upto, data)
      BY <1>8, <1>9, <1>11, <3>2 DEF AreCuts, l
    <3> QED
      BY <1>11, <3>1, <3>3, CutsJoin
  <2> QED
    BY <2>1, <2>2
<1> QED
  BY <1>9, <1>10, <1>11, <1>12 DEF n


\* What Concat accepts is all of what it was given.
LEMMA ConcatOk ==
    ASSUME NEW n \in Nat, NEW r, DOMAIN r = 1 .. n, Concat(r).ok
    PROVE  /\ \A i \in 1 .. n : r[i].ok
           /\ Concat(r) = Done(FlattenSeq([i \in 1 .. n |-> r[i].out]))
<1>1. CASE \A i \in DOMAIN r : r[i].ok
  BY <1>1 DEF Concat
<1>2. CASE ~(\A i \in DOMAIN r : r[i].ok)
  BY <1>2 DEF Concat, Rejected
<1> QED
  BY <1>1, <1>2

\* Where each element is encoded, so are all.
LEMMA ConcatAll ==
    ASSUME NEW n \in Nat, NEW r, DOMAIN r = 1 .. n, \A i \in 1 .. n : r[i].ok
    PROVE  Concat(r).ok /\ Concat(r) = Done(FlattenSeq([i \in 1 .. n |-> r[i].out]))
BY DEF Concat, Done

-----------------------------------------------------------------------------
(* Elements that nest nothing.                                             *)

IsPlain(f) == f.kind \in DOMAIN Formats \cup {"s"} /\ f.count \in Nat

\* What is no list and no map is as Python can tell it to be.
IsItem(v) == v.type \in {"bool", "int", "float", "str"} => IsLeaf(v)

\* The number of bytes is one the element can have.
PlainFit(f, n) == IF f.kind = "s" THEN f.count # 0 => n = f.count ELSE n = PlainSize(f)

\* An element that nests nothing has the size of its format; a text counts bytes.
LEMMA PlainSizes ==
    ASSUME NEW f, IsPlain(f)
    PROVE  /\ PlainSize(f) \in Nat \ {0} /\ f.count \in Nat
           /\ f.kind = "s" => PlainSize(f) = 1
           /\ f.kind # "s" => IsFormat(Formats[f.kind]) /\ PlainSize(f) = Formats[f.kind].size
<1>1. CASE f.kind = "s"
  BY <1>1 DEF PlainSize, IsPlain
<1>2. CASE f.kind # "s"
  <2>1. f.kind \in DOMAIN Formats
    BY <1>2 DEF IsPlain
  <2>2. IsFormat(Formats[f.kind])
    BY <2>1, FormatsAreFormats
  <2>3. Formats[f.kind].size \in Nat \ {0}
    BY <2>2, Capacities
  <2> QED
    BY <1>2, <2>2, <2>3 DEF PlainSize, IsPlain
<1> QED
  BY <1>1, <1>2

\* Text that is written with NULs after it.
LEMMA PaddedText ==
    ASSUME NEW s, IsUtf8(s), NEW n \in Nat, Len(s) <= n
    PROVE  /\ Padded(s, n) \in Seq(Octet) /\ Len(Padded(s, n)) = n
           /\ CutAtNul(s, Text(Padded(s, n)))
<1> DEFINE p == Padded(s, n)
           l == Len(s)
<1>0. s \in Seq(Octet)
  BY DEF IsUtf8
<1>1. l \in Nat /\ l <= n /\ s \in [1 .. l -> Octet]
  BY <1>0
<1>2. p = [i \in 1 .. n |-> IF i <= l THEN s[i] ELSE 0]
  BY DEF Padded
<1>3. p \in [1 .. n -> Octet]
  <2>1. 0 \in Octet
    BY DEF Octet
  <2>2. ASSUME NEW i \in 1 .. n PROVE (IF i <= l THEN s[i] ELSE 0) \in Octet
    BY <1>1, <2>1
  <2> HIDE DEF p, l
  <2> QED
    BY <1>2, <2>2
<1>4. p \in Seq(Octet) /\ Len(p) = n
  <2> HIDE DEF p
  <2> QED
    BY <1>3, FunctionIsSequence
<1>5. CutAtNul(p, BeforeNul(p))
  <2> HIDE DEF p
  <2> QED
    BY <1>4, BeforeNulCut
<1>6. PICK m \in 0 .. n : /\ BeforeNul(p) = SubSeq(p, 1, m)
                          /\ \A i \in 1 .. m : p[i] # 0
                          /\ m < n => p[m + 1] = 0
  <2> HIDE DEF p
  <2> QED
    BY <1>4, <1>5 DEF CutAtNul
<1>7. \A i \in 1 .. n : p[i] = IF i <= l THEN s[i] ELSE 0
  <2> HIDE DEF p, l
  <2> QED
    BY <1>2
<1> HIDE DEF p, l
<1>8. m \in 0 .. l
  <2>1. ASSUME m > l PROVE FALSE
    <3>1. m \in 1 .. n /\ m \in 1 .. m /\ ~(m <= l)
      BY <1>1, <2>1
    <3> QED
      BY <1>6, <1>7, <3>1
  <2> QED
    BY <1>1, <2>1
<1>9. \A i \in 1 .. m : s[i] = p[i]
  BY <1>1, <1>7, <1>8
<1>10. SubSeq(s, 1, m) = SubSeq(p, 1, m)
  <2>1. SubSeq(s, 1, m) = [i \in 1 .. m |-> s[i]]
    BY <1>0, <1>1, <1>8 DEF l
  <2>2. SubSeq(p, 1, m) = [i \in 1 .. m |-> p[i]]
    BY <1>4, <1>6
  <2> QED
    BY <1>9, <2>1, <2>2
<1>11. m < l => s[m + 1] = 0
  <2>1. ASSUME m < l PROVE m + 1 \in 1 .. n /\ m < n /\ m + 1 <= l
    BY <1>1, <1>8, <2>1
  <2> QED
    BY <1>6, <1>7, <2>1
<1>12. CutAtNul(s, Text(p))
  <2>1. \A i \in 1 .. m : s[i] # 0
    BY <1>6, <1>9
  <2>2. CutAtNul(s, BeforeNul(p))
    BY <1>6, <1>8, <1>10, <1>11, <2>1 DEF CutAtNul, l
  <2> QED
    BY <2>2, TextCut
<1> QED
  BY <1>4, <1>12 DEF p

\* An element that is encoded reads as itself.
LEMMA PlainWritten ==
    ASSUME NEW param, IsScale(param), NEW f, IsPlain(f), NEW v, IsItem(v),
           EncodePlain(param, f, v).ok
    PROVE  LET out == EncodePlain(param, f, v).out
           IN  /\ out \in Seq(Octet) /\ PlainFit(f, Len(out))
               /\ SamePlain(param, f, v, DecodePlain(param, f, out))
<1> DEFINE out == EncodePlain(param, f, v).out
<1>1. CASE f.kind # "s"
  <2> DEFINE fmt == Formats[f.kind]
             r == PackValue(param, fmt, v, f.unit)
  <2>1. EncodePlain(param, f, v) = r /\ IsFormat(fmt) /\ PlainSize(f) = fmt.size
    BY <1>1, PlainSizes DEF EncodePlain
  <2>2. DecodePlain(param, f, r.out) = ScaleOut(param, Unpack(fmt, r.out), f.unit)
    BY <1>1 DEF DecodePlain
  <2>3. r.ok
    BY <2>1
  <2>4. v.type \in {"bool", "int", "float"}
    BY <2>3 DEF PackValue, ScaleIn, Rejected
  <2>5. IsLeaf(v)
    BY <2>4 DEF IsItem
  <2>6. /\ r.out \in Seq(Octet) /\ Len(r.out) = fmt.size
        /\ SameScalar(param, f.unit, v, ScaleOut(param, Unpack(fmt, r.out), f.unit))
    <3> HIDE DEF fmt
    <3> QED
      BY <2>1, <2>3, <2>5, ScalarWritten
  <2> HIDE DEF fmt, r
  <2> QED
    BY <1>1, <2>1, <2>2, <2>6 DEF SamePlain, PlainFit
<1>2. CASE f.kind = "s"
  <2>1. v.type = "str"
    BY <1>2 DEF EncodePlain, Rejected
  <2>2. IsUtf8(v.of) /\ v.of \in Seq(Octet)
    BY <2>1 DEF IsItem, IsLeaf, IsUtf8
  <2>3. \A x : DecodePlain(param, f, x) = Value("str", Text(x))
    BY <1>2 DEF DecodePlain
  <2>4. ASSUME NEW x, CutAtNul(v.of, Text(x)) PROVE SamePlain(param, f, v, DecodePlain(param, f, x))
    <3>1. DecodePlain(param, f, x).of = Text(x)
      BY <2>3 DEF Value
    <3> QED
      BY <2>1, <2>4, <3>1 DEF SamePlain, SameScalar
  <2>5. CASE f.count = 0
    <3>1. EncodePlain(param, f, v).out = v.of
      BY <1>2, <2>1, <2>5 DEF EncodePlain, Done
    <3>2. CutAtNul(v.of, Text(v.of))
      BY <2>2, BeforeNulCut, TextCut
    <3> QED
      BY <1>2, <2>2, <2>4, <2>5, <3>1, <3>2 DEF PlainFit
  <2>6. CASE f.count # 0
    <3>1. ~(Len(v.of) > f.count)
      BY <1>2, <2>1, <2>6 DEF EncodePlain, Rejected
    <3>2. EncodePlain(param, f, v).out = Padded(v.of, f.count)
      BY <1>2, <2>1, <2>6, <3>1 DEF EncodePlain, Done
    <3>3. f.count \in Nat /\ Len(v.of) <= f.count
      BY <2>2, <3>1 DEF IsPlain
    <3>4. /\ Padded(v.of, f.count) \in Seq(Octet) /\ Len(Padded(v.of, f.count)) = f.count
          /\ CutAtNul(v.of, Text(Padded(v.of, f.count)))
      BY <2>2, <3>3, PaddedText
    <3> QED
      BY <1>2, <2>4, <3>2, <3>4 DEF PlainFit
  <2> QED
    BY <2>5, <2>6
<1> QED
  BY <1>1, <1>2

\* w says what v does: only whether it is an int or a float may differ.
AlikeLeaf(v, w) ==
    /\ v.type \in {"int", "float", "str"} /\ w.of = v.of
    /\ IF v.type = "str" THEN w.type = "str" ELSE w.type \in {"int", "float"}

\* An element that is decoded is encoded as what reads the same, but for a text that grew.
LEMMA PlainRead ==
    ASSUME NEW param, IsScale(param), NEW f, IsPlain(f),
           NEW data \in Seq(Octet), PlainFit(f, Len(data)),
           NEW v, v = DecodePlain(param, f, data),
           NEW w, AlikeLeaf(v, w)
    PROVE  LET e == EncodePlain(param, f, w)
           IN  /\ ~GrownPlain(f, v) => e.ok
               /\ e.ok => /\ e.out \in Seq(Octet) /\ PlainFit(f, Len(e.out))
                          /\ f.kind # "s" => e.out = data
                          /\ DecodePlain(param, f, e.out) = v
<1>1. CASE f.kind # "s"
  <2> DEFINE fmt == Formats[f.kind]
  <2>1. EncodePlain(param, f, w) = PackValue(param, fmt, w, f.unit) /\ IsFormat(fmt) /\ PlainSize(f) = fmt.size
    BY <1>1, PlainSizes DEF EncodePlain
  <2>2. v = ScaleOut(param, Unpack(fmt, data), f.unit) /\ Len(data) = fmt.size
    BY <1>1, <2>1 DEF DecodePlain, PlainFit
  <2> HIDE DEF fmt
  <2>3. /\ v.type \in {"int", "float"}
        /\ (w.type \in {"int", "float"} /\ w.of = v.of) => PackValue(param, fmt, w, f.unit) = Done(data)
    BY <2>1, <2>2, ScalarRead
  <2>4. EncodePlain(param, f, w) = Done(data)
    BY <2>1, <2>3 DEF AlikeLeaf
  <2> QED
    BY <2>4 DEF Done
<1>2. CASE f.kind = "s"
  <2> DEFINE t == Text(data)
  <2>1. v = Value("str", t) /\ \A x : DecodePlain(param, f, x) = Value("str", Text(x))
    BY <1>2 DEF DecodePlain
  <2>2. w.type = "str" /\ w.of = t /\ v.of = t
    BY <2>1 DEF AlikeLeaf, Value
  <2>4. IsUtf8(t) /\ t \in Seq(Octet) /\ Len(t) \in Nat /\ \A i \in 1 .. Len(t) : t[i] # 0
    BY TextIsText
  <2> HIDE DEF t
  <2>5. CASE f.count = 0
    <3>1. EncodePlain(param, f, w) = Done(t)
      BY <1>2, <2>2, <2>5 DEF EncodePlain
    <3>2. CutAtNul(t, Text(t))
      BY <2>4, BeforeNulCut, TextCut
    <3>3. Text(t) = t
      BY <2>4, <3>2, NothingToCut
    <3> QED
      BY <1>2, <2>1, <2>4, <2>5, <3>1, <3>3 DEF PlainFit, Done
  <2>6. CASE f.count # 0
    <3>1. f.count \in Nat
      BY <1>2, <2>6 DEF IsPlain
    <3>2. EncodePlain(param, f, w) = IF Len(t) > f.count THEN Rejected ELSE Done(Padded(t, f.count))
      BY <1>2, <2>2, <2>6 DEF EncodePlain
    <3>3. CASE Len(t) > f.count
      BY <1>2, <2>2, <2>6, <3>2, <3>3 DEF GrownPlain, Rejected
    <3>4. CASE ~(Len(t) > f.count)
      <4>1. /\ Padded(t, f.count) \in Seq(Octet) /\ Len(Padded(t, f.count)) = f.count
            /\ CutAtNul(t, Text(Padded(t, f.count)))
        BY <2>4, <3>1, <3>4, PaddedText
      <4>2. Text(Padded(t, f.count)) = t
        BY <2>4, <4>1, NothingToCut
      <4> QED
        BY <1>2, <2>1, <3>2, <3>4, <4>1, <4>2 DEF PlainFit, Done
    <3> QED
      BY <3>3, <3>4
  <2> QED
    BY <2>5, <2>6
<1> QED
  BY <1>1, <1>2

\* What is decoded is of the kind that is encoded.
LEMMA PlainShape ==
    ASSUME NEW param, IsScale(param), NEW f, IsPlain(f), NEW data \in Seq(Octet), PlainFit(f, Len(data))
    PROVE  AlikeLeaf(DecodePlain(param, f, data), DecodePlain(param, f, data))
BY DEF DecodePlain, ScaleOut, Value, AlikeLeaf

-----------------------------------------------------------------------------
(* Fields, of elements of which the same is known.                         *)

EncodeOne(param, f, item) == EncodeField(EncodeElement, param, f, item)
DecodeOne(param, f, chunk) == DecodeField(DecodeElement, ElementSize(f), param, f, chunk)
SameOne(param, f, v, d) == SameField(SameElement, param, f, v, d)

\* A field of one element is coded as that element.
LEMMA OneSingle ==
    ASSUME NEW param, NEW f, Single(f)
    PROVE  /\ \A item : EncodeOne(param, f, item) = EncodeElement(param, f, item)
           /\ \A chunk : DecodeOne(param, f, chunk) = DecodeElement(param, f, chunk)
           /\ \A item, d : SameOne(param, f, item, d) = SameElement(param, f, item, d)
BY DEF EncodeOne, DecodeOne, SameOne, EncodeField, DecodeField, SameField

\* A field of several elements is encoded one by one.
LEMMA OneEncoded ==
    ASSUME NEW param, NEW f, ~Single(f), NEW item
    PROVE  /\ EncodeOne(param, f, item).ok
                  => item.type = "list" /\ (f.count # 0 => Len(item.of) = f.count)
           /\ \A n : (/\ item.type = "list" /\ (f.count # 0 => Len(item.of) = f.count)
                      /\ DOMAIN item.of = 1 .. n)
                         => EncodeOne(param, f, item)
                                = Concat([i \in 1 .. n |-> EncodeElement(param, f, item.of[i])])
<1>1. EncodeOne(param, f, item) =
          IF item.type # "list" \/ (f.count # 0 /\ Len(item.of) # f.count) THEN Rejected
          ELSE Concat([i \in DOMAIN item.of |-> EncodeElement(param, f, item.of[i])])
  BY DEF EncodeOne, EncodeField
<1>2. ~Rejected.ok
  BY DEF Rejected
<1> QED
  BY <1>1, <1>2

\* It is decoded one by one.
LEMMA OneDecoded ==
    ASSUME NEW param, NEW f, ~Single(f), NEW chunk,
           NEW n, DOMAIN Elements(chunk, ElementSize(f)) = 1 .. n
    PROVE  DecodeOne(param, f, chunk) =
               Value("list", [i \in 1 .. n |-> DecodeElement(param, f, Elements(chunk, ElementSize(f))[i])])
BY DEF DecodeOne, DecodeField

\* It is the same if each element is.
LEMMA OneSame ==
    ASSUME NEW param, NEW f, ~Single(f), NEW item, NEW d
    PROVE  SameOne(param, f, item, d) <=>
               (/\ Len(d.of) = Len(item.of)
                /\ \A i \in DOMAIN item.of : SameElement(param, f, item.of[i], d.of[i]))
BY DEF SameOne, SameField

\* The values of elements and of fields, by the type they say they are of.
IsElementItem(v) ==
    /\ IsItem(v)
    /\ v.type = "map" => \A n \in DOMAIN v.of : IsPlainValue(v.of[n])
IsFieldItem(v) ==
    /\ IsElementItem(v)
    /\ v.type = "list" => /\ Len(v.of) \in Nat /\ DOMAIN v.of = 1 .. Len(v.of)
                          /\ \A i \in 1 .. Len(v.of) : IsElementItem(v.of[i])

AlikeItems(v, w) ==
    /\ w.type = "list" /\ Len(v.of) \in Nat /\ Len(w.of) = Len(v.of)
    /\ DOMAIN v.of = 1 .. Len(v.of) /\ DOMAIN w.of = 1 .. Len(v.of)

AlikePlainField(v, w) ==
    IF v.type = "list" THEN AlikeItems(v, w) /\ \A i \in 1 .. Len(v.of) : AlikeLeaf(v.of[i], w.of[i])
    ELSE AlikeLeaf(v, w)
AlikeElement(v, w) ==
    IF v.type = "map"
    THEN w.type = "map" /\ DOMAIN w.of = DOMAIN v.of /\ \A n \in DOMAIN v.of : AlikePlainField(v.of[n], w.of[n])
    ELSE AlikeLeaf(v, w)
AlikeField(v, w) ==
    IF v.type = "list" THEN AlikeItems(v, w) /\ \A i \in 1 .. Len(v.of) : AlikeElement(v.of[i], w.of[i])
    ELSE AlikeElement(v, w)

TextIn(f) ==
    \/ f.kind = "s"
    \/ f.kind = "struct" /\ \E j \in DOMAIN f.nested : f.nested[j].kind = "s"

\* The number of bytes is one the element can have.
Fit(f, n) == IF f.kind = "s" THEN f.count # 0 => n = f.count ELSE n = ElementSize(f)

Sized(f) ==
    /\ ElementSize(f) \in Nat \ {0} /\ f.count \in Nat
    /\ f.kind = "s" => ElementSize(f) = 1

\* An element that is encoded reads as itself; one that is decoded is encoded as what reads
\* the same, whatever says the same, but for a text that grew.
ElementWritten(param, f, v) ==
    LET out == EncodeElement(param, f, v).out
    IN  /\ out \in Seq(Octet) /\ Fit(f, Len(out))
        /\ SameElement(param, f, v, DecodeElement(param, f, out))

ElementEncoded(param, f, data, e) ==
    /\ ~GrownElement(f, DecodeElement(param, f, data)) => e.ok
    /\ e.ok => /\ e.out \in Seq(Octet) /\ Fit(f, Len(e.out))
               /\ ~TextIn(f) => e.out = data
               /\ DecodeElement(param, f, e.out) = DecodeElement(param, f, data)

ElementFaithful(param, f) ==
    /\ Sized(f)
    /\ \A v : (IsElementItem(v) /\ EncodeElement(param, f, v).ok) => ElementWritten(param, f, v)
    /\ \A data \in Seq(Octet) : Fit(f, Len(data)) =>
           LET v == DecodeElement(param, f, data)
           IN  /\ v.type # "list" /\ AlikeElement(v, v)
               /\ \A w : AlikeElement(v, w) => ElementEncoded(param, f, data, EncodeElement(param, f, w))

\* A number of whole elements, from their bytes.
LEMMA TimesBack ==
    ASSUME NEW size \in Nat \ {0}, NEW n \in Nat
    PROVE  (n * size) % size = 0 /\ (n * size) \div size = n
BY Multiple

\* As many elements of so many bytes as there are, in one piece.
LEMMA FitsElements ==
    ASSUME NEW size \in Nat \ {0}, NEW count \in Nat, NEW n \in Nat, count # 0 => n = count
    PROVE  Fits2(count, size, n * size)
<1>1. (n * size) % size = 0
  BY Multiple
<1>2. n * size = size * n
  OBVIOUS
<1> QED
  BY <1>1, <1>2 DEF Fits2

\* What fits a field of one element fits the element.
LEMMA FitsOne ==
    ASSUME NEW f, Sized(f), Single(f), NEW n \in Nat
    PROVE  Fit(f, n) <=> Fits2(f.count, ElementSize(f), n)
<1>1. CASE f.kind = "s"
  <2>1. ElementSize(f) = 1 /\ f.count \in Nat
    BY <1>1 DEF Sized
  <2>2. n % 1 = 0 /\ 1 * f.count = f.count
    BY <2>1
  <2> QED
    BY <1>1, <2>1, <2>2 DEF Fit, Fits2
<1>2. CASE f.kind # "s"
  <2>1. f.count = 1 /\ ElementSize(f) \in Nat
    BY <1>2 DEF Single, Sized
  <2>2. ElementSize(f) * 1 = ElementSize(f)
    BY <2>1
  <2> QED
    BY <1>2, <2>1, <2>2 DEF Fit, Fits2
<1> QED
  BY <1>1, <1>2

\* A field that is encoded reads as itself.
LEMMA FieldWritten ==
    ASSUME NEW param, NEW f, ElementFaithful(param, f), NEW item, IsFieldItem(item),
           EncodeOne(param, f, item).ok
    PROVE  LET out == EncodeOne(param, f, item).out
           IN  /\ out \in Seq(Octet) /\ Fits2(f.count, ElementSize(f), Len(out))
               /\ SameOne(param, f, item, DecodeOne(param, f, out))
<1> DEFINE size == ElementSize(f)
<1>1. CASE Single(f)
  <2>1. EncodeOne(param, f, item) = EncodeElement(param, f, item)
    BY <1>1, OneSingle
  <2>2. IsElementItem(item) /\ Sized(f)
    BY DEF IsFieldItem, ElementFaithful
  <2> DEFINE out == EncodeElement(param, f, item).out
  <2>3. out \in Seq(Octet) /\ Fit(f, Len(out)) /\ SameElement(param, f, item, DecodeElement(param, f, out))
    BY <2>1, <2>2 DEF ElementFaithful, ElementWritten
  <2> HIDE DEF out
  <2>4. Fits2(f.count, size, Len(out))
    BY <1>1, <2>2, <2>3, FitsOne
  <2>5. SameOne(param, f, item, DecodeOne(param, f, out))
    BY <1>1, <2>3, OneSingle
  <2> QED
    BY <2>1, <2>3, <2>4, <2>5 DEF out
<1>2. CASE ~Single(f)
  <2> DEFINE n == Len(item.of)
             r == [i \in 1 .. n |-> EncodeElement(param, f, item.of[i])]
             outs == [i \in 1 .. n |-> r[i].out]
             e == FlattenSeq(outs)
  <2>1. item.type = "list" /\ (f.count # 0 => n = f.count)
    BY <1>2, OneEncoded
  <2>2. n \in Nat /\ DOMAIN item.of = 1 .. n /\ \A i \in 1 .. n : IsElementItem(item.of[i])
    BY <2>1 DEF IsFieldItem
  <2>3. EncodeOne(param, f, item) = Concat(r)
    BY <1>2, <2>1, <2>2, OneEncoded
  <2>4. DOMAIN r = 1 .. n /\ \A i \in 1 .. n : r[i] = EncodeElement(param, f, item.of[i])
    OBVIOUS
  <2> HIDE DEF r
  <2>5. (\A i \in 1 .. n : r[i].ok) /\ Concat(r) = Done(e)
    <3> HIDE DEF n
    <3> QED
      BY <2>2, <2>3, <2>4, ConcatOk
  <2>6. f.kind # "s" /\ size \in Nat \ {0} /\ f.count \in Nat
    BY <1>2 DEF Single, Sized, ElementFaithful
  <2> HIDE DEF n, size
  <2>7. ASSUME NEW i \in 1 .. n
        PROVE  /\ r[i].out \in Seq(Octet) /\ Len(r[i].out) = size
               /\ SameElement(param, f, item.of[i], DecodeElement(param, f, r[i].out))
    <3>1. EncodeElement(param, f, item.of[i]).ok /\ IsElementItem(item.of[i])
      BY <2>2, <2>4, <2>5
    <3>2. ElementWritten(param, f, item.of[i])
      BY <3>1 DEF ElementFaithful
    <3> QED
      BY <2>4, <2>6, <3>2 DEF ElementWritten, Fit, size
  <2>8. outs \in [1 .. n -> Seq(Octet)] /\ \A i \in 1 .. n : outs[i] = r[i].out
    BY <2>7
  <2> HIDE DEF outs
  <2>9. outs \in Seq(Seq(Octet)) /\ Len(outs) = n
    BY <2>2, <2>8, FunctionIsSequence
  <2>10. \A i \in 1 .. Len(outs) : Len(outs[i]) = size
    BY <2>7, <2>8, <2>9
  <2>11. e \in Seq(Octet) /\ Len(e) = n * size /\ Elements(e, size) = outs
    BY <2>6, <2>9, <2>10, ElementsOfConcat
  <2> HIDE DEF e
  <2>12. Fits2(f.count, size, Len(e))
    BY <2>1, <2>2, <2>6, <2>11, FitsElements DEF n
  <2> DEFINE d == DecodeOne(param, f, e)
  <2>13. d = Value("list", [i \in 1 .. n |-> DecodeElement(param, f, outs[i])])
    <3>1. DOMAIN Elements(e, ElementSize(f)) = 1 .. n
      BY <2>9, <2>11 DEF size
    <3>2. d = Value("list", [i \in 1 .. n |-> DecodeElement(param, f, Elements(e, ElementSize(f))[i])])
      BY <1>2, <3>1, OneDecoded
    <3> HIDE DEF d
    <3> QED
      BY <2>11, <3>2 DEF size
  <2> HIDE DEF d
  <2>14. d.of = [i \in 1 .. n |-> DecodeElement(param, f, outs[i])]
    BY <2>13 DEF Value
  <2>15. Len(d.of) = n
    BY <2>2, <2>14
  <2>16. \A i \in 1 .. n : SameElement(param, f, item.of[i], d.of[i])
    BY <2>7, <2>8, <2>14
  <2>17. SameOne(param, f, item, d)
    BY <1>2, <2>2, <2>15, <2>16, OneSame DEF n
  <2>18. EncodeOne(param, f, item).out = e
    BY <2>3, <2>5 DEF Done
  <2> QED
    BY <2>11, <2>12, <2>17, <2>18 DEF d, size
<1> QED
  BY <1>1, <1>2

\* What a field that is decoded consists of.
LEMMA FieldParts ==
    ASSUME NEW f, Sized(f), ~Single(f),
           NEW chunk \in Seq(Octet), Fits2(f.count, ElementSize(f), Len(chunk))
    PROVE  LET parts == Elements(chunk, ElementSize(f))
               n == Len(parts)
           IN  /\ f.kind # "s" /\ ElementSize(f) \in Nat \ {0} /\ f.count \in Nat
               /\ parts \in Seq(Seq(Octet)) /\ n \in Nat /\ DOMAIN parts = 1 .. n
               /\ f.count # 0 => n = f.count
               /\ FlattenSeq(parts) = chunk
               /\ \A i \in 1 .. n : parts[i] \in Seq(Octet) /\ Fit(f, Len(parts[i]))
<1> DEFINE size == ElementSize(f)
           parts == Elements(chunk, size)
           n == Len(parts)
           l == Len(chunk)
<1>1. f.kind # "s" /\ size \in Nat \ {0} /\ f.count \in Nat
  BY DEF Single, Sized
<1>2. l \in Nat
  OBVIOUS
<1>7. l % size = 0 /\ (f.count # 0 => l = f.count * size)
  <2>1. CASE f.count = 0
    BY <2>1 DEF Fits2
  <2>2. CASE f.count # 0
    <3>1. l = size * f.count
      BY <2>2 DEF Fits2
    <3>2. l = f.count * size
      <4> HIDE DEF size, l
      <4> QED
        BY <1>1, <3>1
    <3>3. l % size = 0
      <4>1. (f.count * size) % size = 0
        <5> HIDE DEF size
        <5> QED
          BY <1>1, TimesBack
      <4> HIDE DEF size, l
      <4> QED
        BY <3>2, <4>1
    <3> QED
      BY <3>2, <3>3
  <2> QED
    BY <2>1, <2>2
<1> HIDE DEF size
<1>3. /\ parts \in Seq(Seq(Octet)) /\ FlattenSeq(parts) = chunk /\ n * size = l
      /\ \A i \in 1 .. n : Len(parts[i]) = size
  BY <1>1, <1>7, ConcatOfElements
<1>4. n \in Nat /\ DOMAIN parts = 1 .. n /\ \A i \in 1 .. n : parts[i] \in Seq(Octet)
  <2> HIDE DEF parts
  <2> QED
    BY <1>3
<1> HIDE DEF n, parts, l
<1>5. f.count # 0 => n = f.count
  <2> SUFFICES ASSUME f.count # 0 PROVE n = f.count
    OBVIOUS
  <2>1. n * size = f.count * size
    BY <1>3, <1>7
  <2>2. (n * size) \div size = n
    BY <1>1, <1>4, TimesBack
  <2>3. (f.count * size) \div size = f.count
    BY <1>1, TimesBack
  <2> QED
    BY <2>1, <2>2, <2>3
<1>6. \A i \in 1 .. n : Fit(f, Len(parts[i]))
  BY <1>1, <1>3 DEF Fit, size
<1> QED
  BY <1>1, <1>3, <1>4, <1>5, <1>6 DEF size, parts, n

\* A text of the field grew.
GrownOne(f, v) ==
    IF Single(f) THEN GrownElement(f, v) ELSE \E j \in DOMAIN v.of : GrownElement(f, v.of[j])

FieldEncoded(param, f, chunk, e) ==
    /\ ~GrownOne(f, DecodeOne(param, f, chunk)) => e.ok
    /\ e.ok => /\ e.out \in Seq(Octet) /\ Fits2(f.count, ElementSize(f), Len(e.out))
               /\ ~TextIn(f) => e.out = chunk
               /\ DecodeOne(param, f, e.out) = DecodeOne(param, f, chunk)

\* A field that is decoded is encoded as what reads the same, but for a text that grew.
LEMMA FieldRead ==
    ASSUME NEW param, NEW f, ElementFaithful(param, f),
           NEW chunk \in Seq(Octet), Fits2(f.count, ElementSize(f), Len(chunk)),
           NEW w, AlikeField(DecodeOne(param, f, chunk), w)
    PROVE  FieldEncoded(param, f, chunk, EncodeOne(param, f, w))
<1> DEFINE v == DecodeOne(param, f, chunk)
           e == EncodeOne(param, f, w)
<1>0. Sized(f)
  BY DEF ElementFaithful
<1>1. CASE Single(f)
  <2>1. v = DecodeElement(param, f, chunk) /\ e = EncodeElement(param, f, w)
    BY <1>1, OneSingle
  <2>2. \A x : DecodeOne(param, f, x) = DecodeElement(param, f, x)
    BY <1>1, OneSingle
  <2>3. Fit(f, Len(chunk))
    BY <1>0, <1>1, FitsOne
  <2>4. v.type # "list"
    BY <2>1, <2>3 DEF ElementFaithful
  <2>5. AlikeElement(v, w)
    BY <2>4 DEF AlikeField
  <2> HIDE DEF v, e
  <2>6. ElementEncoded(param, f, chunk, e)
    BY <2>1, <2>3, <2>5 DEF ElementFaithful
  <2>7. /\ ~GrownElement(f, DecodeElement(param, f, chunk)) => e.ok
        /\ e.ok => /\ e.out \in Seq(Octet) /\ Fit(f, Len(e.out))
                   /\ ~TextIn(f) => e.out = chunk
                   /\ DecodeOne(param, f, e.out) = DecodeOne(param, f, chunk)
    BY <2>2, <2>6 DEF ElementEncoded
  <2>8. e.ok => Fits2(f.count, ElementSize(f), Len(e.out))
    BY <1>0, <1>1, <2>7, FitsOne
  <2>9. GrownOne(f, DecodeOne(param, f, chunk)) <=> GrownElement(f, DecodeElement(param, f, chunk))
    BY <1>1, <2>2 DEF GrownOne
  <2> QED
    BY <2>7, <2>8, <2>9 DEF FieldEncoded, e
<1>2. CASE ~Single(f)
  <2> DEFINE size == ElementSize(f)
             parts == Elements(chunk, size)
             n == Len(parts)
             r == [i \in 1 .. n |-> EncodeElement(param, f, w.of[i])]
             outs == [i \in 1 .. n |-> r[i].out]
             x == FlattenSeq(outs)
  <2>1. /\ f.kind # "s" /\ size \in Nat \ {0} /\ f.count \in Nat
        /\ parts \in Seq(Seq(Octet)) /\ n \in Nat /\ DOMAIN parts = 1 .. n
        /\ f.count # 0 => n = f.count
        /\ FlattenSeq(parts) = chunk
        /\ \A i \in 1 .. n : parts[i] \in Seq(Octet) /\ Fit(f, Len(parts[i]))
    BY <1>0, <1>2, FieldParts
  <2>2. v = Value("list", [i \in 1 .. n |-> DecodeElement(param, f, parts[i])])
    BY <1>2, <2>1, OneDecoded
  <2> HIDE DEF v, parts, n
  <2>3. v.type = "list" /\ v.of = [i \in 1 .. n |-> DecodeElement(param, f, parts[i])]
    BY <2>2 DEF Value
  <2>4. Len(v.of) = n
    BY <2>1, <2>3
  <2>5. /\ w.type = "list" /\ Len(w.of) = n /\ DOMAIN w.of = 1 .. n
        /\ \A i \in 1 .. n : AlikeElement(v.of[i], w.of[i])
    BY <2>3, <2>4 DEF AlikeField, AlikeItems, v
  <2>6. e = Concat(r)
    BY <1>2, <2>1, <2>5, OneEncoded
  <2>7. DOMAIN r = 1 .. n /\ \A i \in 1 .. n : r[i] = EncodeElement(param, f, w.of[i])
    OBVIOUS
  <2> HIDE DEF r, e
  <2>8. ASSUME NEW i \in 1 .. n PROVE ElementEncoded(param, f, parts[i], r[i])
    <3>1. v.of[i] = DecodeElement(param, f, parts[i]) /\ AlikeElement(v.of[i], w.of[i])
      BY <2>3, <2>5
    <3> QED
      BY <2>1, <2>7, <3>1 DEF ElementFaithful
  <2>19. ASSUME ~GrownOne(f, DecodeOne(param, f, chunk)) PROVE e.ok
    <3>1. DOMAIN v.of = 1 .. n /\ \A j \in DOMAIN v.of : ~GrownElement(f, v.of[j])
      BY <1>2, <2>3, <2>19 DEF GrownOne, v
    <3>2. \A i \in 1 .. n : r[i].ok
      BY <2>3, <2>8, <3>1 DEF ElementEncoded
    <3> QED
      BY <2>1, <2>6, <2>7, <3>2, ConcatAll
  <2> SUFFICES ASSUME e.ok PROVE FieldEncoded(param, f, chunk, e)
    BY <2>19 DEF FieldEncoded, e
  <2>20. \A i \in 1 .. n : r[i].ok
    BY <2>1, <2>6, <2>7, ConcatOk
  <2>9. \A i \in 1 .. n : /\ r[i].ok /\ r[i].out \in Seq(Octet) /\ Len(r[i].out) = size
                          /\ ~TextIn(f) => r[i].out = parts[i]
                          /\ DecodeElement(param, f, r[i].out) = DecodeElement(param, f, parts[i])
    BY <2>1, <2>8, <2>20 DEF ElementEncoded, Fit
  <2>10. outs \in [1 .. n -> Seq(Octet)] /\ \A i \in 1 .. n : outs[i] = r[i].out
    BY <2>9
  <2>11. Concat(r).ok /\ Concat(r) = Done(x)
    BY <2>1, <2>7, <2>9, ConcatAll
  <2> HIDE DEF outs, size
  <2>12. outs \in Seq(Seq(Octet)) /\ Len(outs) = n
    BY <2>1, <2>10, FunctionIsSequence
  <2>13. \A i \in 1 .. Len(outs) : Len(outs[i]) = size
    BY <2>9, <2>10, <2>12
  <2>14. x \in Seq(Octet) /\ Len(x) = n * size /\ Elements(x, size) = outs
    BY <2>1, <2>12, <2>13, ElementsOfConcat
  <2> HIDE DEF x
  <2>15. Fits2(f.count, size, Len(x))
    BY <2>1, <2>14, FitsElements
  <2>16. DecodeOne(param, f, x) = v
    <3>1. DOMAIN Elements(x, ElementSize(f)) = 1 .. n
      BY <2>12, <2>14 DEF size
    <3>2. DecodeOne(param, f, x)
              = Value("list", [i \in 1 .. n |-> DecodeElement(param, f, Elements(x, ElementSize(f))[i])])
      BY <1>2, <3>1, OneDecoded
    <3>3. [i \in 1 .. n |-> DecodeElement(param, f, Elements(x, ElementSize(f))[i])]
              = [i \in 1 .. n |-> DecodeElement(param, f, parts[i])]
      BY <2>9, <2>10, <2>14 DEF size
    <3> QED
      BY <2>2, <3>2, <3>3
  <2>17. ~TextIn(f) => x = chunk
    <3>1. ASSUME ~TextIn(f) PROVE outs = parts
      <4>1. parts = [i \in 1 .. n |-> parts[i]]
        BY <2>1
      <4>2. outs = [i \in 1 .. n |-> r[i].out]
        BY <2>10
      <4>3. \A i \in 1 .. n : r[i].out = parts[i]
        BY <2>9, <3>1
      <4> QED
        BY <4>1, <4>2, <4>3
    <3> QED
      BY <2>1, <3>1 DEF x
  <2>18. e.ok /\ e.out = x
    BY <2>6, <2>11 DEF Done
  <2> QED
    BY <2>14, <2>15, <2>16, <2>17, <2>18 DEF FieldEncoded, e, v, size
<1> QED
  BY <1>1, <1>2

\* What is decoded for a field is of the kind that is encoded.
LEMMA FieldShape ==
    ASSUME NEW param, NEW f, ElementFaithful(param, f),
           NEW chunk \in Seq(Octet), Fits2(f.count, ElementSize(f), Len(chunk))
    PROVE  AlikeField(DecodeOne(param, f, chunk), DecodeOne(param, f, chunk))
<1> DEFINE v == DecodeOne(param, f, chunk)
<1>0. Sized(f)
  BY DEF ElementFaithful
<1>1. CASE Single(f)
  <2>1. Fit(f, Len(chunk))
    BY <1>0, <1>1, FitsOne
  <2>2. v = DecodeElement(param, f, chunk)
    BY <1>1, OneSingle
  <2>3. v.type # "list" /\ AlikeElement(v, v)
    BY <2>1, <2>2 DEF ElementFaithful
  <2> QED
    BY <2>3 DEF AlikeField
<1>2. CASE ~Single(f)
  <2> DEFINE parts == Elements(chunk, ElementSize(f))
             n == Len(parts)
  <2>1. /\ n \in Nat /\ DOMAIN parts = 1 .. n
        /\ \A i \in 1 .. n : parts[i] \in Seq(Octet) /\ Fit(f, Len(parts[i]))
    BY <1>0, <1>2, FieldParts
  <2>2. v = Value("list", [i \in 1 .. n |-> DecodeElement(param, f, parts[i])])
    BY <1>2, <2>1, OneDecoded
  <2> HIDE DEF parts, n, v
  <2>3. v.type = "list" /\ v.of = [i \in 1 .. n |-> DecodeElement(param, f, parts[i])]
    BY <2>2 DEF Value
  <2>4. Len(v.of) = n /\ DOMAIN v.of = 1 .. n
    BY <2>1, <2>3
  <2>5. \A i \in 1 .. n : AlikeElement(v.of[i], v.of[i])
    BY <2>1, <2>3 DEF ElementFaithful
  <2>6. AlikeField(v, v)
    BY <2>1, <2>3, <2>4, <2>5 DEF AlikeField, AlikeItems
  <2> QED
    BY <2>6 DEF v
<1> QED
  BY <1>1, <1>2

-----------------------------------------------------------------------------
(* All fields of a struct.                                                 *)

EncodeAll(param, fields, items) == EncodeFields(EncodeElement, param, fields, items)
DecodeAll(param, fields, data) == DecodeFields(DecodeElement, ElementSize, param, fields, data)
SameAll(param, fields, v, d) == SameFields(SameElement, param, fields, v, d)

Names(fields) == {fields[i].name : i \in DOMAIN fields}
At(fields, name) == CHOOSE i \in DOMAIN fields : fields[i].name = name
EachSize(fields) == [i \in 1 .. Len(fields) |-> ElementSize(fields[i])]
EndOf(fields) == Ends(Sizes(fields, EachSize(fields)))

AreFaithful(param, fields) ==
    IsSpec(fields) /\ \A i \in DOMAIN fields : ElementFaithful(param, fields[i])

\* Fields are found by their names, and have sizes.
LEMMA FieldsTyped ==
    ASSUME NEW param, NEW fields, AreFaithful(param, fields)
    PROVE  /\ Len(fields) \in Nat /\ DOMAIN fields = 1 .. Len(fields)
           /\ AreFields(fields, EachSize(fields))
           /\ \A i \in 1 .. Len(fields) :
                  /\ At(fields, fields[i].name) = i /\ fields[i].name \in Names(fields)
                  /\ ElementFaithful(param, fields[i]) /\ EachSize(fields)[i] = ElementSize(fields[i])
           /\ \A name \in Names(fields) :
                  At(fields, name) \in 1 .. Len(fields) /\ fields[At(fields, name)].name = name
<1> DEFINE n == Len(fields)
<1>1. /\ fields \in Seq({fields[i] : i \in DOMAIN fields})
      /\ \A i, j \in DOMAIN fields : fields[i].name = fields[j].name => i = j
      /\ \A i \in DOMAIN fields : fields[i].count \in Nat /\ (fields[i].count = 0 => i = Len(fields))
  BY DEF AreFaithful, IsSpec, SpecAccepted
<1>2. n \in Nat /\ DOMAIN fields = 1 .. n
  BY <1>1
<1>3. \A i \in 1 .. n : ElementFaithful(param, fields[i]) /\ ElementSize(fields[i]) \in Nat \ {0}
  BY <1>2 DEF AreFaithful, ElementFaithful, Sized
<1>4. \A name \in Names(fields) : At(fields, name) \in 1 .. n /\ fields[At(fields, name)].name = name
  <2> SUFFICES ASSUME NEW name \in Names(fields)
               PROVE  At(fields, name) \in 1 .. n /\ fields[At(fields, name)].name = name
    OBVIOUS
  <2>1. \E i \in DOMAIN fields : fields[i].name = name
    BY DEF Names
  <2> QED
    BY <1>2, <2>1 DEF At
<1>5. \A i \in 1 .. n : fields[i].name \in Names(fields)
  BY <1>2 DEF Names
<1>6. \A i \in 1 .. n : At(fields, fields[i].name) = i
  BY <1>1, <1>2, <1>4, <1>5
<1>7. EachSize(fields) = [i \in 1 .. n |-> ElementSize(fields[i])]
  BY DEF EachSize
<1> HIDE DEF n
<1>8. EachSize(fields) \in [1 .. n -> Nat \ {0}]
  BY <1>3, <1>7
<1>9. EachSize(fields) \in Seq(Nat \ {0}) /\ Len(EachSize(fields)) = n
  BY <1>2, <1>8, FunctionIsSequence
<1>10. AreFields(fields, EachSize(fields))
  BY <1>1, <1>2, <1>9 DEF AreFields, n
<1>11. \A i \in 1 .. n : EachSize(fields)[i] = ElementSize(fields[i])
  BY <1>7
<1> QED
  BY <1>2, <1>3, <1>4, <1>5, <1>6, <1>10, <1>11 DEF n

\* Fields are encoded one after the other.
LEMMA AllEncoded ==
    ASSUME NEW param, NEW fields, NEW items
    PROVE  /\ EncodeAll(param, fields, items).ok => DOMAIN items = Names(fields)
           /\ \A n : (DOMAIN items = Names(fields) /\ DOMAIN fields = 1 .. n)
                  => EncodeAll(param, fields, items)
                         = Concat([i \in 1 .. n |-> EncodeOne(param, fields[i], items[fields[i].name])])
<1>1. EncodeAll(param, fields, items) =
          IF DOMAIN items # Names(fields) THEN Rejected
          ELSE Concat([i \in DOMAIN fields |-> EncodeOne(param, fields[i], items[fields[i].name])])
  BY DEF EncodeAll, EncodeFields, EncodeOne, Names
<1>2. ~Rejected.ok
  BY DEF Rejected
<1> QED
  BY <1>1, <1>2

\* Where the fields end follows from their sizes alone.
LEMMA EndOfFields ==
    ASSUME NEW fields, NEW n, DOMAIN fields = 1 .. n, Len(fields) = n
    PROVE  FieldEnds(ElementSize, fields) = EndOf(fields)
<1>1. [i \in DOMAIN fields |-> ElementSize(fields[i]) * fields[i].count] = Sizes(fields, EachSize(fields))
  BY DEF Sizes, EachSize
<1> QED
  BY <1>1 DEF FieldEnds, EndOf

\* Fields are decoded by name, each from its chunk.
LEMMA AllDecoded ==
    ASSUME NEW param, NEW fields, AreFaithful(param, fields), NEW data
    PROVE  DecodeAll(param, fields, data) =
               Value("map", [name \in Names(fields) |->
                   DecodeOne(param, fields[At(fields, name)],
                             Chunk(EndOf(fields), fields, At(fields, name), data))])
<1>1. DecodeAll(param, fields, data) =
          Value("map", [name \in Names(fields) |->
              DecodeOne(param, fields[At(fields, name)],
                        Chunk(FieldEnds(ElementSize, fields), fields, At(fields, name), data))])
  BY DEF DecodeAll, DecodeFields, DecodeOne, At, Names
<1>2. FieldEnds(ElementSize, fields) = EndOf(fields)
  BY FieldsTyped, EndOfFields
<1> QED
  BY <1>1, <1>2

\* The value of a field is what its chunk decodes to.
LEMMA AllParts ==
    ASSUME NEW param, NEW fields, AreFaithful(param, fields), NEW data
    PROVE  LET d == DecodeAll(param, fields, data)
           IN  /\ d.type = "map" /\ DOMAIN d.of = Names(fields)
               /\ \A i \in 1 .. Len(fields) :
                      d.of[fields[i].name] = DecodeOne(param, fields[i], Chunk(EndOf(fields), fields, i, data))
<1> DEFINE d == DecodeAll(param, fields, data)
<1>1. d.type = "map" /\ d.of = [name \in Names(fields) |->
                   DecodeOne(param, fields[At(fields, name)],
                             Chunk(EndOf(fields), fields, At(fields, name), data))]
  BY AllDecoded DEF Value
<1> HIDE DEF d
<1>2. ASSUME NEW i \in 1 .. Len(fields)
      PROVE  d.of[fields[i].name] = DecodeOne(param, fields[i], Chunk(EndOf(fields), fields, i, data))
  <2>1. At(fields, fields[i].name) = i /\ fields[i].name \in Names(fields)
    BY FieldsTyped
  <2> QED
    BY <1>1, <2>1
<1> QED
  BY <1>1, <1>2 DEF d

\* A struct is the same if each of its fields is.
LEMMA AllSame ==
    ASSUME NEW param, NEW fields, NEW v, NEW d
    PROVE  SameAll(param, fields, v, d) <=>
               (/\ DOMAIN d.of = DOMAIN v.of
                /\ \A i \in DOMAIN fields :
                       SameOne(param, fields[i], v.of[fields[i].name], d.of[fields[i].name]))
BY DEF SameAll, SameFields, SameOne

\* The fields of a struct that is encoded read as themselves.
THEOREM FieldsWritten ==
    ASSUME NEW param, NEW fields, AreFaithful(param, fields),
           NEW v, \A name \in DOMAIN v.of : IsFieldItem(v.of[name]),
           EncodeAll(param, fields, v.of).ok
    PROVE  LET out == EncodeAll(param, fields, v.of).out
           IN  /\ out \in Seq(Octet) /\ Laid(fields, EachSize(fields), out)
               /\ SameAll(param, fields, v, DecodeAll(param, fields, out))
<1> DEFINE n == Len(fields)
           item(i) == v.of[fields[i].name]
           r == [i \in 1 .. n |-> EncodeOne(param, fields[i], item(i))]
           outs == [i \in 1 .. n |-> r[i].out]
           x == FlattenSeq(outs)
           d == DecodeAll(param, fields, x)
<1>1. /\ n \in Nat /\ DOMAIN fields = 1 .. n /\ AreFields(fields, EachSize(fields))
      /\ \A i \in 1 .. n : /\ fields[i].name \in Names(fields) /\ ElementFaithful(param, fields[i])
                           /\ EachSize(fields)[i] = ElementSize(fields[i])
  BY FieldsTyped
<1>2. DOMAIN v.of = Names(fields)
  BY AllEncoded
<1>3. EncodeAll(param, fields, v.of) = Concat(r)
  BY <1>1, <1>2, AllEncoded
<1>4. DOMAIN r = 1 .. n /\ \A i \in 1 .. n : r[i] = EncodeOne(param, fields[i], item(i))
  OBVIOUS
<1> HIDE DEF r, n
<1>5. (\A i \in 1 .. n : r[i].ok) /\ Concat(r) = Done(x)
  BY <1>1, <1>3, <1>4, ConcatOk
<1>6. ASSUME NEW i \in 1 .. n
      PROVE  /\ r[i].out \in Seq(Octet) /\ Fits2(fields[i].count, EachSize(fields)[i], Len(r[i].out))
             /\ SameOne(param, fields[i], item(i), DecodeOne(param, fields[i], r[i].out))
  <2>1. IsFieldItem(item(i))
    BY <1>1, <1>2
  <2>2. EncodeOne(param, fields[i], item(i)).ok /\ ElementFaithful(param, fields[i])
    BY <1>1, <1>4, <1>5
  <2> HIDE DEF item
  <2> QED
    BY <1>1, <1>4, <2>1, <2>2, FieldWritten
<1>7. outs \in [1 .. n -> Seq(Octet)] /\ \A i \in 1 .. n : outs[i] = r[i].out
  BY <1>6
<1> HIDE DEF outs, item
<1>8. outs \in Seq(Seq(Octet)) /\ Len(outs) = n
  BY <1>1, <1>7, FunctionIsSequence
<1>9. \A i \in 1 .. n : Fits2(fields[i].count, EachSize(fields)[i], Len(outs[i]))
  BY <1>6, <1>7
<1>10. /\ x \in Seq(Octet) /\ Laid(fields, EachSize(fields), x)
       /\ \A i \in 1 .. n : Chunk(EndOf(fields), fields, i, x) = outs[i]
  BY <1>1, <1>8, <1>9, ChunksOfParts DEF n, EndOf
<1> HIDE DEF x
<1>11. /\ DOMAIN d.of = Names(fields)
       /\ \A i \in 1 .. n :
              d.of[fields[i].name] = DecodeOne(param, fields[i], Chunk(EndOf(fields), fields, i, x))
  BY AllParts DEF n
<1> HIDE DEF d
<1>12. \A i \in 1 .. n : SameOne(param, fields[i], v.of[fields[i].name], d.of[fields[i].name])
  BY <1>6, <1>7, <1>10, <1>11 DEF item
<1>13. SameAll(param, fields, v, d)
  BY <1>1, <1>2, <1>11, <1>12, AllSame
<1>14. EncodeAll(param, fields, v.of).out = x
  BY <1>3, <1>5 DEF Done
<1> QED
  BY <1>10, <1>13, <1>14 DEF d

AlikeFields(fields, v, w) ==
    /\ DOMAIN w.of = Names(fields)
    /\ \A i \in 1 .. Len(fields) : AlikeField(v.of[fields[i].name], w.of[fields[i].name])

\* A text of a field grew.
GrownAll(fields, v) == GrownFields(GrownElement, fields, v)

FieldsEncoded(param, fields, data, e) ==
    /\ ~GrownAll(fields, DecodeAll(param, fields, data)) => e.ok
    /\ e.ok => /\ e.out \in Seq(Octet) /\ Laid(fields, EachSize(fields), e.out)
               /\ (\A i \in DOMAIN fields : ~TextIn(fields[i])) => e.out = data
               /\ DecodeAll(param, fields, e.out) = DecodeAll(param, fields, data)

\* The fields of a struct that is decoded are encoded as what reads the same, but where
\* malformed bytes of a text were replaced and it grew beyond its field.
THEOREM FieldsRead ==
    ASSUME NEW param, NEW fields, AreFaithful(param, fields),
           NEW data \in Seq(Octet), Laid(fields, EachSize(fields), data)
    PROVE  LET v == DecodeAll(param, fields, data)
           IN  /\ AlikeFields(fields, v, v)
               /\ \A w : AlikeFields(fields, v, w)
                             => FieldsEncoded(param, fields, data, EncodeAll(param, fields, w.of))
<1> DEFINE n == Len(fields)
           v == DecodeAll(param, fields, data)
           chunks == [i \in 1 .. n |-> Chunk(EndOf(fields), fields, i, data)]
<1>1. /\ n \in Nat /\ DOMAIN fields = 1 .. n /\ AreFields(fields, EachSize(fields))
      /\ \A i \in 1 .. n : /\ fields[i].name \in Names(fields) /\ ElementFaithful(param, fields[i])
                           /\ EachSize(fields)[i] = ElementSize(fields[i])
      /\ \A name \in Names(fields) : At(fields, name) \in 1 .. n
  BY FieldsTyped
<1>2. AreChunks(chunks, fields, EachSize(fields), data)
  BY DEF AreChunks, EndOf
<1>3. \A i \in 1 .. n : chunks[i] = Chunk(EndOf(fields), fields, i, data)
  OBVIOUS
<1> HIDE DEF chunks
<1>4. /\ chunks \in Seq(Seq(Octet)) /\ Len(chunks) = n
      /\ \A i \in 1 .. n : Fits2(fields[i].count, EachSize(fields)[i], Len(chunks[i]))
      /\ FlattenSeq(chunks) = data
  BY <1>1, <1>2, PartsOfChunks
<1>5. /\ DOMAIN v.of = Names(fields)
      /\ \A i \in 1 .. n : v.of[fields[i].name] = DecodeOne(param, fields[i], chunks[i])
  BY <1>3, AllParts
<1> HIDE DEF n, v
<1>6. ASSUME NEW i \in 1 .. n
      PROVE  chunks[i] \in Seq(Octet) /\ Fits2(fields[i].count, ElementSize(fields[i]), Len(chunks[i]))
  <2>1. chunks[i] \in Seq(Octet)
    BY <1>4
  <2>2. EachSize(fields)[i] = ElementSize(fields[i])
    BY <1>1
  <2>3. Fits2(fields[i].count, EachSize(fields)[i], Len(chunks[i]))
    BY <1>4
  <2> QED
    BY <2>1, <2>2, <2>3
<1>7. AlikeFields(fields, v, v)
  <2>1. \A i \in 1 .. n : AlikeField(v.of[fields[i].name], v.of[fields[i].name])
    BY <1>1, <1>5, <1>6, FieldShape
  <2> QED
    BY <1>5, <2>1 DEF AlikeFields, n
<1>8. ASSUME NEW w, AlikeFields(fields, v, w)
      PROVE  FieldsEncoded(param, fields, data, EncodeAll(param, fields, w.of))
  <2> DEFINE item(i) == w.of[fields[i].name]
             r == [i \in 1 .. n |-> EncodeOne(param, fields[i], item(i))]
             outs == [i \in 1 .. n |-> r[i].out]
             x == FlattenSeq(outs)
  <2>1. DOMAIN w.of = Names(fields) /\ \A i \in 1 .. n : AlikeField(v.of[fields[i].name], item(i))
    BY <1>8 DEF AlikeFields, n
  <2>2. EncodeAll(param, fields, w.of) = Concat(r)
    BY <1>1, <2>1, AllEncoded
  <2>3. DOMAIN r = 1 .. n /\ \A i \in 1 .. n : r[i] = EncodeOne(param, fields[i], item(i))
    OBVIOUS
  <2> HIDE DEF r, item
  <2>4. ASSUME NEW i \in 1 .. n PROVE FieldEncoded(param, fields[i], chunks[i], r[i])
    <3>1. AlikeField(DecodeOne(param, fields[i], chunks[i]), item(i)) /\ ElementFaithful(param, fields[i])
      BY <1>1, <1>5, <2>1
    <3> QED
      BY <1>6, <2>3, <3>1, FieldRead
  <2>16. ASSUME ~GrownAll(fields, v) PROVE EncodeAll(param, fields, w.of).ok
    <3>1. \A i \in 1 .. n : ~GrownOne(fields[i], v.of[fields[i].name])
      BY <1>1, <2>16 DEF GrownAll, GrownFields, GrownOne
    <3>2. \A i \in 1 .. n : r[i].ok
      BY <1>5, <2>4, <3>1 DEF FieldEncoded
    <3> QED
      BY <1>1, <2>2, <2>3, <3>2, ConcatAll
  <2>18. SUFFICES ASSUME EncodeAll(param, fields, w.of).ok
                  PROVE  FieldsEncoded(param, fields, data, EncodeAll(param, fields, w.of))
    BY <2>16 DEF FieldsEncoded, v
  <2>17. \A i \in 1 .. n : r[i].ok
    BY <1>1, <2>2, <2>3, <2>18, ConcatOk
  <2>5. \A i \in 1 .. n :
            /\ r[i].ok /\ r[i].out \in Seq(Octet)
            /\ Fits2(fields[i].count, EachSize(fields)[i], Len(r[i].out))
            /\ ~TextIn(fields[i]) => r[i].out = chunks[i]
            /\ DecodeOne(param, fields[i], r[i].out) = DecodeOne(param, fields[i], chunks[i])
    BY <1>1, <2>4, <2>17 DEF FieldEncoded
  <2>6. outs \in [1 .. n -> Seq(Octet)] /\ \A i \in 1 .. n : outs[i] = r[i].out
    BY <2>5
  <2>7. Concat(r).ok /\ Concat(r) = Done(x)
    BY <1>1, <2>3, <2>5, ConcatAll
  <2>8. outs = [i \in 1 .. n |-> r[i].out]
    OBVIOUS
  <2> HIDE DEF outs
  <2>9. outs \in Seq(Seq(Octet)) /\ Len(outs) = n
    BY <1>1, <2>6, FunctionIsSequence
  <2>10. \A i \in 1 .. n : Fits2(fields[i].count, EachSize(fields)[i], Len(outs[i]))
    BY <2>5, <2>6
  <2>11. /\ x \in Seq(Octet) /\ Laid(fields, EachSize(fields), x)
         /\ \A i \in 1 .. n : Chunk(EndOf(fields), fields, i, x) = outs[i]
    BY <1>1, <2>9, <2>10, ChunksOfParts DEF n, EndOf
  <2> HIDE DEF x
  <2>12. \A i \in 1 .. n : DecodeOne(param, fields[i], Chunk(EndOf(fields), fields, i, x))
                               = DecodeOne(param, fields[i], Chunk(EndOf(fields), fields, i, data))
    BY <1>3, <2>5, <2>6, <2>11
  <2>13. DecodeAll(param, fields, x) = DecodeAll(param, fields, data)
    <3> DEFINE F(y) == [name \in Names(fields) |->
                           DecodeOne(param, fields[At(fields, name)],
                                     Chunk(EndOf(fields), fields, At(fields, name), y))]
    <3>1. DecodeAll(param, fields, x) = Value("map", F(x))
      BY AllDecoded
    <3>2. DecodeAll(param, fields, data) = Value("map", F(data))
      BY AllDecoded
    <3>3. F(x) = F(data)
      BY <1>1, <2>12
    <3> HIDE DEF F
    <3> QED
      BY <3>1, <3>2, <3>3
  <2>14. ASSUME \A i \in DOMAIN fields : ~TextIn(fields[i]) PROVE x = data
    <3>1. \A i \in 1 .. n : r[i].out = chunks[i]
      BY <1>1, <2>5, <2>14
    <3>2. chunks = [i \in 1 .. n |-> chunks[i]]
      BY <1>2, <1>3 DEF AreChunks, EndOf, n
    <3>3. outs = chunks
      BY <2>8, <3>1, <3>2
    <3> QED
      BY <1>4, <3>3 DEF x
  <2>15. EncodeAll(param, fields, w.of).ok /\ EncodeAll(param, fields, w.of).out = x
    BY <2>2, <2>7 DEF Done
  <2> QED
    BY <2>11, <2>13, <2>14, <2>15 DEF FieldsEncoded
<1> QED
  BY <1>7, <1>8 DEF v

-----------------------------------------------------------------------------
(* Both kinds of elements.                                                 *)

\* An element that nests nothing is coded the same as if it could nest.
LEMMA PlainIsElement ==
    ASSUME NEW f, IsPlain(f)
    PROVE  /\ f.kind # "struct" /\ ElementSize(f) = PlainSize(f) /\ (TextIn(f) <=> f.kind = "s")
           /\ \A n : Fit(f, n) <=> PlainFit(f, n)
           /\ \A param, v : EncodeElement(param, f, v) = EncodePlain(param, f, v)
           /\ \A param, data : DecodeElement(param, f, data) = DecodePlain(param, f, data)
           /\ \A param, v, d : SameElement(param, f, v, d) <=> SamePlain(param, f, v, d)
           /\ \A v : GrownElement(f, v) <=> GrownPlain(f, v)
<1>1. f.kind # "struct"
  BY DEF IsPlain, Formats
<1>2. ElementSize(f) = PlainSize(f)
  BY <1>1 DEF ElementSize
<1>3. TextIn(f) <=> f.kind = "s"
  BY <1>1 DEF TextIn
<1>4. \A n : Fit(f, n) <=> PlainFit(f, n)
  BY <1>2 DEF Fit, PlainFit
<1>5. \A param, v : EncodeElement(param, f, v) = EncodePlain(param, f, v)
  BY <1>1 DEF EncodeElement
<1>6. \A param, data : DecodeElement(param, f, data) = DecodePlain(param, f, data)
  BY <1>1 DEF DecodeElement
<1>7. \A param, v, d : SameElement(param, f, v, d) <=> SamePlain(param, f, v, d)
  BY <1>1 DEF SameElement
<1>8. \A v : GrownElement(f, v) <=> GrownPlain(f, v)
  BY <1>1 DEF GrownElement
<1> QED
  BY <1>1, <1>2, <1>3, <1>4, <1>5, <1>6, <1>7, <1>8

\* Nothing is changed on the way of an element that nests nothing.
THEOREM PlainIsFaithful ==
    ASSUME NEW param, IsScale(param), NEW f, IsPlain(f)
    PROVE  ElementFaithful(param, f)
<1>1. Sized(f)
  BY PlainIsElement, PlainSizes DEF Sized
<1>2. ASSUME NEW v, IsElementItem(v), EncodeElement(param, f, v).ok
      PROVE  ElementWritten(param, f, v)
  <2>1. IsItem(v) /\ EncodePlain(param, f, v).ok
    BY <1>2, PlainIsElement DEF IsElementItem
  <2> DEFINE out == EncodePlain(param, f, v).out
  <2>2. out \in Seq(Octet) /\ PlainFit(f, Len(out)) /\ SamePlain(param, f, v, DecodePlain(param, f, out))
    BY <2>1, PlainWritten
  <2>3. EncodeElement(param, f, v).out = out
    BY PlainIsElement
  <2> HIDE DEF out
  <2> QED
    BY <2>2, <2>3, PlainIsElement DEF ElementWritten
<1>3. ASSUME NEW data \in Seq(Octet), Fit(f, Len(data)), NEW v, v = DecodeElement(param, f, data)
      PROVE  /\ v.type # "list" /\ AlikeElement(v, v)
             /\ \A w : AlikeElement(v, w) => ElementEncoded(param, f, data, EncodeElement(param, f, w))
  <2>1. v = DecodePlain(param, f, data) /\ PlainFit(f, Len(data))
    BY <1>3, PlainIsElement
  <2>2. AlikeLeaf(v, v)
    BY <2>1, PlainShape
  <2>3. v.type \notin {"list", "map"}
    BY <2>2 DEF AlikeLeaf
  <2>4. \A w : AlikeElement(v, w) <=> AlikeLeaf(v, w)
    BY <2>3 DEF AlikeElement
  <2>5. ASSUME NEW w, AlikeLeaf(v, w) PROVE ElementEncoded(param, f, data, EncodeElement(param, f, w))
    <3> DEFINE e == EncodePlain(param, f, w)
    <3>1. /\ ~GrownPlain(f, v) => e.ok
          /\ e.ok => /\ e.out \in Seq(Octet) /\ PlainFit(f, Len(e.out))
                     /\ f.kind # "s" => e.out = data
                     /\ DecodePlain(param, f, e.out) = v
      BY <2>1, <2>5, PlainRead
    <3>2. EncodeElement(param, f, w) = e
      BY PlainIsElement
    <3> HIDE DEF e
    <3>3. e.ok => Fit(f, Len(e.out)) /\ (~TextIn(f) => e.out = data)
      BY <3>1, PlainIsElement
    <3>4. e.ok => DecodeElement(param, f, e.out) = DecodeElement(param, f, data)
      BY <1>3, <3>1, PlainIsElement
    <3>5. ~GrownElement(f, DecodeElement(param, f, data)) => e.ok
      BY <1>3, <3>1, PlainIsElement
    <3> QED
      BY <3>1, <3>2, <3>3, <3>4, <3>5 DEF ElementEncoded
  <2> QED
    BY <2>2, <2>3, <2>4, <2>5
<1> QED
  BY <1>1, <1>2, <1>3 DEF ElementFaithful

-----------------------------------------------------------------------------
(* What is nested is fields of such elements.                              *)

EncodeOnePlain(param, f, item) == EncodeField(EncodePlain, param, f, item)
DecodeOnePlain(param, f, chunk) == DecodeField(DecodePlain, PlainSize(f), param, f, chunk)
SameOnePlain(param, f, v, d) == SameField(SamePlain, param, f, v, d)
EncodeNested(param, fields, items) == EncodeFields(EncodePlain, param, fields, items)
DecodeNested(param, fields, data) == DecodeFields(DecodePlain, PlainSize, param, fields, data)
SameNested(param, fields, v, d) == SameFields(SamePlain, param, fields, v, d)

\* So is a field of such elements.
LEMMA OnePlainIsOne ==
    ASSUME NEW f, IsPlain(f)
    PROVE  /\ \A param, item : EncodeOnePlain(param, f, item) = EncodeOne(param, f, item)
           /\ \A param, chunk : DecodeOnePlain(param, f, chunk) = DecodeOne(param, f, chunk)
           /\ \A param, v, d : SameOnePlain(param, f, v, d) <=> SameOne(param, f, v, d)
<1>1. ASSUME NEW param, NEW item PROVE EncodeOnePlain(param, f, item) = EncodeOne(param, f, item)
  <2>1. \A x : EncodeElement(param, f, x) = EncodePlain(param, f, x)
    BY PlainIsElement
  <2>2. [i \in DOMAIN item.of |-> EncodePlain(param, f, item.of[i])]
            = [i \in DOMAIN item.of |-> EncodeElement(param, f, item.of[i])]
    BY <2>1
  <2> QED
    BY <2>1, <2>2 DEF EncodeOnePlain, EncodeOne, EncodeField
<1>2. ASSUME NEW param, NEW chunk PROVE DecodeOnePlain(param, f, chunk) = DecodeOne(param, f, chunk)
  <2>1. ElementSize(f) = PlainSize(f) /\ \A x : DecodeElement(param, f, x) = DecodePlain(param, f, x)
    BY PlainIsElement
  <2> DEFINE parts == Elements(chunk, PlainSize(f))
  <2>2. [i \in DOMAIN parts |-> DecodePlain(param, f, parts[i])]
            = [i \in DOMAIN parts |-> DecodeElement(param, f, parts[i])]
    BY <2>1
  <2> QED
    BY <2>1, <2>2 DEF DecodeOnePlain, DecodeOne, DecodeField
<1>3. ASSUME NEW param, NEW v, NEW d PROVE SameOnePlain(param, f, v, d) <=> SameOne(param, f, v, d)
  <2>1. \A x, y : SameElement(param, f, x, y) <=> SamePlain(param, f, x, y)
    BY PlainIsElement
  <2> QED
    BY <2>1 DEF SameOnePlain, SameOne, SameField
<1> QED
  BY <1>1, <1>2, <1>3

\* The fields of a nested struct nest nothing.
LEMMA PlainSpecTyped ==
    ASSUME NEW fields, IsPlainSpec(fields)
    PROVE  /\ IsSpec(fields) /\ Len(fields) \in Nat /\ DOMAIN fields = 1 .. Len(fields)
           /\ \A i \in DOMAIN fields : IsPlain(fields[i])
<1>1. /\ IsSpec(fields) /\ fields \in Seq({fields[i] : i \in DOMAIN fields})
      /\ \A i \in DOMAIN fields : fields[i].count \in Nat /\ fields[i].kind \in DOMAIN Formats \cup {"s"}
  BY DEF IsPlainSpec, IsSpec
<1> QED
  BY <1>1 DEF IsPlain

\* A nested struct is coded the same as one that could nest.
LEMMA NestedIsAll ==
    ASSUME NEW fields, IsPlainSpec(fields)
    PROVE  /\ \A param, items : EncodeNested(param, fields, items) = EncodeAll(param, fields, items)
           /\ \A param, data : DecodeNested(param, fields, data) = DecodeAll(param, fields, data)
           /\ \A param, v, d : SameNested(param, fields, v, d) <=> SameAll(param, fields, v, d)
           /\ FixedSize(fields) = EndOf(fields)[Len(fields)]
<1>1. \A i \in DOMAIN fields : IsPlain(fields[i])
  BY PlainSpecTyped
<1>2. FieldEnds(PlainSize, fields) = EndOf(fields)
  <2>1. [i \in DOMAIN fields |-> PlainSize(fields[i]) * fields[i].count] = Sizes(fields, EachSize(fields))
    <3>1. \A i \in DOMAIN fields : ElementSize(fields[i]) = PlainSize(fields[i])
      BY <1>1, PlainIsElement
    <3>2. DOMAIN fields = 1 .. Len(fields)
      BY PlainSpecTyped
    <3> QED
      BY <3>1, <3>2 DEF Sizes, EachSize
  <2> QED
    BY <2>1 DEF FieldEnds, EndOf
<1>3. FieldEnds(ElementSize, fields) = EndOf(fields)
  BY PlainSpecTyped, EndOfFields
<1>4. ASSUME NEW param, NEW items PROVE EncodeNested(param, fields, items) = EncodeAll(param, fields, items)
  <2>1. EncodeNested(param, fields, items) =
            IF DOMAIN items # Names(fields) THEN Rejected
            ELSE Concat([i \in DOMAIN fields |-> EncodeOnePlain(param, fields[i], items[fields[i].name])])
    BY DEF EncodeNested, EncodeFields, EncodeOnePlain, Names
  <2>2. EncodeAll(param, fields, items) =
            IF DOMAIN items # Names(fields) THEN Rejected
            ELSE Concat([i \in DOMAIN fields |-> EncodeOne(param, fields[i], items[fields[i].name])])
    BY DEF EncodeAll, EncodeFields, EncodeOne, Names
  <2>3. \A i \in DOMAIN fields :
            EncodeOnePlain(param, fields[i], items[fields[i].name]) = EncodeOne(param, fields[i], items[fields[i].name])
    BY <1>1, OnePlainIsOne
  <2>4. [i \in DOMAIN fields |-> EncodeOnePlain(param, fields[i], items[fields[i].name])]
            = [i \in DOMAIN fields |-> EncodeOne(param, fields[i], items[fields[i].name])]
    BY <2>3
  <2> QED
    BY <2>1, <2>2, <2>4
<1>5. ASSUME NEW param, NEW data PROVE DecodeNested(param, fields, data) = DecodeAll(param, fields, data)
  <2> DEFINE chunk(name) == Chunk(EndOf(fields), fields, At(fields, name), data)
  <2>1. DecodeNested(param, fields, data) =
            Value("map", [name \in Names(fields) |->
                DecodeOnePlain(param, fields[At(fields, name)],
                               Chunk(FieldEnds(PlainSize, fields), fields, At(fields, name), data))])
    BY DEF DecodeNested, DecodeFields, DecodeOnePlain, At, Names
  <2>2. DecodeAll(param, fields, data) =
            Value("map", [name \in Names(fields) |->
                DecodeOne(param, fields[At(fields, name)],
                          Chunk(FieldEnds(ElementSize, fields), fields, At(fields, name), data))])
    BY DEF DecodeAll, DecodeFields, DecodeOne, At, Names
  <2>3. \A name \in Names(fields) : At(fields, name) \in DOMAIN fields
    <3> SUFFICES ASSUME NEW name \in Names(fields) PROVE At(fields, name) \in DOMAIN fields
      OBVIOUS
    <3>1. \E i \in DOMAIN fields : fields[i].name = name
      BY DEF Names
    <3> QED
      BY <3>1 DEF At
  <2>4. \A name \in Names(fields) :
            DecodeOnePlain(param, fields[At(fields, name)], chunk(name))
                = DecodeOne(param, fields[At(fields, name)], chunk(name))
    BY <1>1, <2>3, OnePlainIsOne
  <2>5. DecodeNested(param, fields, data)
            = Value("map", [name \in Names(fields) |-> DecodeOnePlain(param, fields[At(fields, name)], chunk(name))])
    BY <1>2, <2>1
  <2>6. DecodeAll(param, fields, data)
            = Value("map", [name \in Names(fields) |-> DecodeOne(param, fields[At(fields, name)], chunk(name))])
    BY <1>3, <2>2
  <2>7. [name \in Names(fields) |-> DecodeOnePlain(param, fields[At(fields, name)], chunk(name))]
            = [name \in Names(fields) |-> DecodeOne(param, fields[At(fields, name)], chunk(name))]
    BY <2>4
  <2> QED
    BY <2>5, <2>6, <2>7
<1>6. ASSUME NEW param, NEW v, NEW d PROVE SameNested(param, fields, v, d) <=> SameAll(param, fields, v, d)
  <2>1. SameNested(param, fields, v, d) <=>
            (/\ DOMAIN d.of = DOMAIN v.of
             /\ \A i \in DOMAIN fields :
                    SameOnePlain(param, fields[i], v.of[fields[i].name], d.of[fields[i].name]))
    BY DEF SameNested, SameFields, SameOnePlain
  <2> QED
    BY <1>1, <2>1, OnePlainIsOne, AllSame
<1> QED
  BY <1>2, <1>4, <1>5, <1>6 DEF FixedSize

-----------------------------------------------------------------------------
(* Elements that are structs.                                              *)

IsNest(f) ==
    /\ f.kind = "struct" /\ IsPlainSpec(f.nested) /\ f.nested # << >> /\ f.count \in Nat
    /\ \A j \in DOMAIN f.nested : f.nested[j].count # 0

\* An element that nests is coded as its struct.
LEMMA NestIsAll ==
    ASSUME NEW param, NEW f, IsNest(f)
    PROVE  /\ \A v : EncodeElement(param, f, v)
                         = IF v.type # "map" THEN Rejected ELSE EncodeAll(param, f.nested, v.of)
           /\ \A data : DecodeElement(param, f, data) = DecodeAll(param, f.nested, data)
           /\ \A v, d : SameElement(param, f, v, d) <=> SameAll(param, f.nested, v, d)
           /\ ElementSize(f) = EndOf(f.nested)[Len(f.nested)]
<1>1. f.kind = "struct" /\ IsPlainSpec(f.nested)
  BY DEF IsNest
<1>2. ASSUME NEW v
      PROVE  EncodeElement(param, f, v)
                 = IF v.type # "map" THEN Rejected ELSE EncodeAll(param, f.nested, v.of)
  <2>1. EncodeElement(param, f, v)
            = IF v.type # "map" THEN Rejected ELSE EncodeNested(param, f.nested, v.of)
    BY <1>1 DEF EncodeElement, EncodeNested
  <2> QED
    BY <1>1, <2>1, NestedIsAll
<1>3. ASSUME NEW data PROVE DecodeElement(param, f, data) = DecodeAll(param, f.nested, data)
  <2>1. DecodeElement(param, f, data) = DecodeNested(param, f.nested, data)
    BY <1>1 DEF DecodeElement, DecodeNested
  <2> QED
    BY <1>1, <2>1, NestedIsAll
<1>4. ASSUME NEW v, NEW d PROVE SameElement(param, f, v, d) <=> SameAll(param, f.nested, v, d)
  <2>1. SameElement(param, f, v, d) <=> SameNested(param, f.nested, v, d)
    BY <1>1 DEF SameElement, SameNested
  <2> QED
    BY <1>1, <2>1, NestedIsAll
<1>5. ElementSize(f) = EndOf(f.nested)[Len(f.nested)]
  BY <1>1, NestedIsAll DEF ElementSize
<1> QED
  BY <1>2, <1>3, <1>4, <1>5

\* The fields of a nested struct are faithful.
LEMMA NestedFaithful ==
    ASSUME NEW param, IsScale(param), NEW fields, IsPlainSpec(fields)
    PROVE  AreFaithful(param, fields)
BY PlainSpecTyped, PlainIsFaithful DEF AreFaithful

\* What fits an element that nests is laid out as its struct.
LEMMA NestSize ==
    ASSUME NEW param, IsScale(param), NEW f, IsNest(f)
    PROVE  /\ Sized(f)
           /\ \A data : Len(data) \in Nat =>
                  (Laid(f.nested, EachSize(f.nested), data) <=> Fit(f, Len(data)))
<1> DEFINE fields == f.nested
           n == Len(fields)
           each == EachSize(fields)
           sizes == Sizes(fields, each)
           ends == Ends(sizes)
<1>1. IsPlainSpec(fields) /\ AreFaithful(param, fields)
  BY NestedFaithful DEF IsNest
<1>2. n \in Nat /\ DOMAIN fields = 1 .. n /\ AreFields(fields, each)
  BY <1>1, FieldsTyped
<1>3. n # 0
  <2>1. fields # << >> /\ fields \in Seq({fields[i] : i \in DOMAIN fields})
    BY <1>1 DEF IsNest, IsPlainSpec, IsSpec
  <2> QED
    BY <2>1
<1>4. n \in 1 .. n /\ n > 0 /\ fields[n].count # 0
  BY <1>2, <1>3 DEF IsNest
<1>5. /\ sizes \in Seq(Nat) /\ Len(sizes) = n
      /\ sizes[n] = each[n] * fields[n].count /\ each[n] \in Nat \ {0} /\ fields[n].count \in Nat
  BY <1>2, <1>4, SizesTyped
<1> HIDE DEF sizes
<1>6. n - 1 \in 0 .. n /\ n \in 0 .. n
  BY <1>2, <1>4
<1>7. ends[n] = ends[n - 1] + sizes[n] /\ ends[n] \in Nat /\ ends[n - 1] \in Nat
  BY <1>4, <1>5, <1>6, EndsSpec
<1>8. sizes[n] >= 1
  <2>1. \A a \in Nat \ {0}, b \in Nat \ {0} : a * b >= 1
    OBVIOUS
  <2>2. fields[n].count \in Nat \ {0}
    BY <1>4, <1>5
  <2> QED
    BY <1>5, <2>1, <2>2
<1>9. ends[n] \in Nat \ {0}
  <2>1. sizes[n] \in Int
    BY <1>5, ProductNat
  <2> QED
    BY <1>7, <1>8, <2>1
<1>10. ElementSize(f) = ends[n]
  BY NestIsAll DEF EndOf, sizes
<1>11. f.kind = "struct" /\ f.count \in Nat
  BY DEF IsNest
<1>12. ASSUME NEW data, Len(data) \in Nat
       PROVE  Laid(fields, each, data) <=> Fit(f, Len(data))
  <2>1. Laid(fields, each, data) <=> Len(data) - ends[n] = 0
    BY <1>4 DEF Laid, sizes
  <2>2. Fit(f, Len(data)) <=> Len(data) = ends[n]
    BY <1>10, <1>11 DEF Fit
  <2> HIDE DEF ends, n, each, fields
  <2> QED
    BY <1>9, <1>12, <2>1, <2>2
<1>13. Sized(f)
  BY <1>9, <1>10, <1>11 DEF Sized
<1> QED
  BY <1>12, <1>13

\* What is nested has no maps in it.
LEMMA PlainOneNoMap ==
    ASSUME NEW param, NEW f, IsPlain(f),
           NEW chunk \in Seq(Octet), Fits2(f.count, ElementSize(f), Len(chunk)),
           NEW w
    PROVE  AlikeField(DecodeOne(param, f, chunk), w) <=> AlikePlainField(DecodeOne(param, f, chunk), w)
<1> DEFINE v == DecodeOne(param, f, chunk)
<1>1. \A x : DecodeElement(param, f, x).type \in {"int", "float", "str"}
  BY PlainIsElement DEF DecodePlain, ScaleOut, Value
<1>2. ASSUME NEW x, x.type \in {"int", "float", "str"}, NEW y
      PROVE  AlikeElement(x, y) <=> AlikeLeaf(x, y)
  BY <1>2 DEF AlikeElement
<1>3. CASE Single(f)
  <2>1. v.type \in {"int", "float", "str"}
    BY <1>1, <1>3, OneSingle
  <2> HIDE DEF v
  <2>2. AlikeField(v, w) <=> AlikePlainField(v, w)
    BY <1>2, <2>1 DEF AlikeField, AlikePlainField
  <2> QED
    BY <2>2 DEF v
<1>4. CASE ~Single(f)
  <2> DEFINE parts == Elements(chunk, ElementSize(f))
             n == Len(parts)
  <2>1. n \in Nat /\ DOMAIN parts = 1 .. n
    BY <1>4, PlainIsElement, PlainSizes, FieldParts DEF Sized
  <2>2. v = Value("list", [i \in 1 .. n |-> DecodeElement(param, f, parts[i])])
    BY <1>4, <2>1, OneDecoded
  <2> HIDE DEF parts, n, v
  <2>3. v.type = "list" /\ v.of = [i \in 1 .. n |-> DecodeElement(param, f, parts[i])]
    BY <2>2 DEF Value
  <2>4. Len(v.of) = n
    BY <2>1, <2>3
  <2>5. \A i \in 1 .. Len(v.of) : v.of[i].type \in {"int", "float", "str"}
    BY <1>1, <2>3, <2>4
  <2>6. AlikeField(v, w) <=> AlikePlainField(v, w)
    <3>1. \A i \in 1 .. Len(v.of) : AlikeElement(v.of[i], w.of[i]) <=> AlikeLeaf(v.of[i], w.of[i])
      BY <1>2, <2>5
    <3>2. AlikeField(v, w) <=> AlikeItems(v, w) /\ \A i \in 1 .. Len(v.of) : AlikeElement(v.of[i], w.of[i])
      BY <2>3 DEF AlikeField
    <3>3. AlikePlainField(v, w) <=> AlikeItems(v, w) /\ \A i \in 1 .. Len(v.of) : AlikeLeaf(v.of[i], w.of[i])
      BY <2>3 DEF AlikePlainField
    <3> QED
      BY <3>1, <3>2, <3>3
  <2> QED
    BY <2>6 DEF v
<1> QED
  BY <1>3, <1>4

\* What may be handed to a nested struct may be handed to any.
LEMMA PlainItems ==
    ASSUME NEW v, IsPlainValue(v)
    PROVE  IsFieldItem(v)
<1>1. \A x : IsLeaf(x) => IsElementItem(x) /\ x.type \notin {"list", "map"}
  BY DEF IsLeaf, IsElementItem, IsItem
<1>2. CASE IsLeaf(v)
  BY <1>1, <1>2 DEF IsFieldItem
<1>3. CASE ~IsLeaf(v)
  <2>1. v.type = "list" /\ v.of \in Seq({v.of[i] : i \in DOMAIN v.of}) /\ \A i \in DOMAIN v.of : IsLeaf(v.of[i])
    BY <1>3 DEF IsPlainValue, IsListOf
  <2>2. Len(v.of) \in Nat /\ DOMAIN v.of = 1 .. Len(v.of)
    BY <2>1
  <2>3. IsElementItem(v)
    BY <2>1 DEF IsElementItem, IsItem
  <2> QED
    BY <1>1, <2>1, <2>2, <2>3 DEF IsFieldItem
<1> QED
  BY <1>2, <1>3

\* A text of a nested struct grew if one of its fields did.
LEMMA NestGrown ==
    ASSUME NEW f, IsNest(f), IsPlainSpec(f.nested), NEW v
    PROVE  GrownElement(f, v) <=> GrownAll(f.nested, v)
<1> DEFINE fields == f.nested
           item(i) == v.of[fields[i].name]
<1>1. GrownElement(f, v) <=>
          \E i \in DOMAIN fields :
              IF Single(fields[i]) THEN GrownPlain(fields[i], item(i))
              ELSE \E j \in DOMAIN item(i).of : GrownPlain(fields[i], item(i).of[j])
  BY DEF GrownElement, GrownFields, IsNest
<1>2. GrownAll(fields, v) <=>
          \E i \in DOMAIN fields :
              IF Single(fields[i]) THEN GrownElement(fields[i], item(i))
              ELSE \E j \in DOMAIN item(i).of : GrownElement(fields[i], item(i).of[j])
  BY DEF GrownAll, GrownFields
<1>3. \A i \in DOMAIN fields : \A x : GrownElement(fields[i], x) <=> GrownPlain(fields[i], x)
  BY PlainSpecTyped, PlainIsElement
<1> QED
  BY <1>1, <1>2, <1>3

\* Nothing is changed on the way of an element that is a struct.
THEOREM NestIsFaithful ==
    ASSUME NEW param, IsScale(param), NEW f, IsNest(f)
    PROVE  ElementFaithful(param, f)
<1> DEFINE fields == f.nested
<1>1. AreFaithful(param, fields) /\ IsPlainSpec(fields)
  BY NestedFaithful DEF IsNest
<1>2. Sized(f) /\ \A data : Len(data) \in Nat => (Laid(fields, EachSize(fields), data) <=> Fit(f, Len(data)))
  BY NestSize
<1>3. ASSUME NEW v, IsElementItem(v), EncodeElement(param, f, v).ok
      PROVE  ElementWritten(param, f, v)
  <2>1. v.type = "map"
    BY <1>3, NestIsAll DEF Rejected
  <2>2. EncodeElement(param, f, v) = EncodeAll(param, fields, v.of)
    BY <2>1, NestIsAll
  <2>3. \A name \in DOMAIN v.of : IsFieldItem(v.of[name])
    BY <1>3, <2>1, PlainItems DEF IsElementItem
  <2> DEFINE out == EncodeAll(param, fields, v.of).out
  <2>4. /\ out \in Seq(Octet) /\ Laid(fields, EachSize(fields), out)
        /\ SameAll(param, fields, v, DecodeAll(param, fields, out))
    BY <1>1, <1>3, <2>2, <2>3, FieldsWritten
  <2>5. EncodeElement(param, f, v).out = out
    BY <2>2
  <2> HIDE DEF out
  <2>6. Fit(f, Len(out))
    BY <1>2, <2>4
  <2>7. SameElement(param, f, v, DecodeElement(param, f, out))
    BY <2>4, NestIsAll
  <2> QED
    BY <2>4, <2>5, <2>6, <2>7 DEF ElementWritten
<1>4. ASSUME NEW data \in Seq(Octet), Fit(f, Len(data)), NEW v, v = DecodeElement(param, f, data)
      PROVE  /\ v.type # "list" /\ AlikeElement(v, v)
             /\ \A w : AlikeElement(v, w) => ElementEncoded(param, f, data, EncodeElement(param, f, w))
  <2>1. Laid(fields, EachSize(fields), data)
    BY <1>2, <1>4
  <2>2. v = DecodeAll(param, fields, data)
    BY <1>4, NestIsAll
  <2>3. /\ AlikeFields(fields, v, v)
        /\ \A w : AlikeFields(fields, v, w)
                      => FieldsEncoded(param, fields, data, EncodeAll(param, fields, w.of))
    BY <1>1, <2>1, <2>2, FieldsRead
  <2>4. /\ v.type = "map" /\ DOMAIN v.of = Names(fields)
        /\ \A i \in 1 .. Len(fields) :
               v.of[fields[i].name] = DecodeOne(param, fields[i], Chunk(EndOf(fields), fields, i, data))
    BY <1>1, <2>2, AllParts
  <2>5. ASSUME NEW i \in 1 .. Len(fields), NEW w
        PROVE  AlikeField(v.of[fields[i].name], w) <=> AlikePlainField(v.of[fields[i].name], w)
    <3> DEFINE chunks == [j \in 1 .. Len(fields) |-> Chunk(EndOf(fields), fields, j, data)]
    <3>1. AreChunks(chunks, fields, EachSize(fields), data)
      BY DEF AreChunks, EndOf
    <3>2. chunks[i] = Chunk(EndOf(fields), fields, i, data)
      OBVIOUS
    <3> HIDE DEF chunks
    <3>3. /\ AreFields(fields, EachSize(fields)) /\ EachSize(fields)[i] = ElementSize(fields[i])
          /\ DOMAIN fields = 1 .. Len(fields)
      BY <1>1, FieldsTyped
    <3>4. /\ chunks \in Seq(Seq(Octet)) /\ Len(chunks) = Len(fields)
          /\ \A j \in 1 .. Len(fields) : Fits2(fields[j].count, EachSize(fields)[j], Len(chunks[j]))
      BY <2>1, <3>1, <3>3, PartsOfChunks
    <3>5. chunks[i] \in Seq(Octet)
      BY <3>4
    <3>6. Fits2(fields[i].count, ElementSize(fields[i]), Len(chunks[i])) /\ IsPlain(fields[i])
      BY <1>1, <3>3, <3>4, PlainSpecTyped
    <3>7. AlikeField(DecodeOne(param, fields[i], chunks[i]), w)
              <=> AlikePlainField(DecodeOne(param, fields[i], chunks[i]), w)
      BY <3>5, <3>6, PlainOneNoMap
    <3>8. v.of[fields[i].name] = DecodeOne(param, fields[i], chunks[i])
      BY <2>4, <3>2
    <3> QED
      BY <3>7, <3>8
  <2>6. \A name \in Names(fields) : \E i \in 1 .. Len(fields) : name = fields[i].name
    BY <1>1, PlainSpecTyped DEF Names
  <2>7. AlikeElement(v, v)
    <3>1. \A i \in 1 .. Len(fields) : AlikeField(v.of[fields[i].name], v.of[fields[i].name])
      BY <2>3 DEF AlikeFields
    <3>2. \A i \in 1 .. Len(fields) : AlikePlainField(v.of[fields[i].name], v.of[fields[i].name])
      BY <2>5, <3>1
    <3>3. \A name \in DOMAIN v.of : AlikePlainField(v.of[name], v.of[name])
      BY <2>4, <2>6, <3>2
    <3> QED
      BY <2>4, <3>3 DEF AlikeElement
  <2>8. ASSUME NEW w, AlikeElement(v, w) PROVE ElementEncoded(param, f, data, EncodeElement(param, f, w))
    <3>1. /\ w.type = "map" /\ DOMAIN w.of = Names(fields)
          /\ \A name \in Names(fields) : AlikePlainField(v.of[name], w.of[name])
      BY <2>4, <2>8 DEF AlikeElement
    <3>2. \A i \in 1 .. Len(fields) : fields[i].name \in Names(fields)
      BY <1>1, FieldsTyped
    <3>3. \A i \in 1 .. Len(fields) : AlikeField(v.of[fields[i].name], w.of[fields[i].name])
      BY <2>5, <3>1, <3>2
    <3>4. AlikeFields(fields, v, w)
      BY <3>1, <3>3 DEF AlikeFields
    <3> DEFINE e == EncodeAll(param, fields, w.of)
    <3>5. FieldsEncoded(param, fields, data, e)
      BY <2>3, <3>4
    <3>6. EncodeElement(param, f, w) = e
      BY <3>1, NestIsAll
    <3> HIDE DEF e
    <3>11. ~GrownElement(f, DecodeElement(param, f, data)) => e.ok
      <4>1. GrownElement(f, v) <=> GrownAll(fields, v)
        BY <1>1, NestGrown
      <4> QED
        BY <1>4, <2>2, <3>5, <4>1 DEF FieldsEncoded
    <3> SUFFICES ASSUME e.ok PROVE ElementEncoded(param, f, data, e)
      BY <3>6, <3>11 DEF ElementEncoded
    <3>7. /\ e.ok /\ e.out \in Seq(Octet) /\ Laid(fields, EachSize(fields), e.out)
          /\ (\A i \in DOMAIN fields : ~TextIn(fields[i])) => e.out = data
          /\ DecodeAll(param, fields, e.out) = DecodeAll(param, fields, data)
      BY <3>5 DEF FieldsEncoded
    <3>8. Fit(f, Len(e.out))
      BY <1>2, <3>7
    <3>9. ASSUME ~TextIn(f) PROVE e.out = data
      <4>1. \A i \in DOMAIN fields : fields[i].kind # "s"
        BY <3>9 DEF TextIn, IsNest
      <4>2. \A i \in DOMAIN fields : ~TextIn(fields[i])
        BY <1>1, <4>1, PlainSpecTyped, PlainIsElement
      <4> QED
        BY <3>7, <4>2
    <3>10. DecodeElement(param, f, e.out) = DecodeElement(param, f, data)
      BY <3>7, NestIsAll
    <3> QED
      BY <3>7, <3>8, <3>9, <3>10 DEF ElementEncoded
  <2> QED
    BY <2>4, <2>7, <2>8
<1> QED
  BY <1>2, <1>3, <1>4 DEF ElementFaithful

\* So it is of a struct, and of the struct of a parameter.
THEOREM StructIsFaithful ==
    ASSUME NEW param, IsScale(param), NEW fields, IsStruct(fields)
    PROVE  AreFaithful(param, fields)
<1>1. IsSpec(fields)
  BY DEF IsStruct
<1>2. ASSUME NEW i \in DOMAIN fields PROVE ElementFaithful(param, fields[i])
  <2>1. fields[i].count \in Nat
    BY <1>1 DEF IsSpec
  <2>2. CASE fields[i].kind \in DOMAIN Formats \cup {"s"}
    <3>1. IsPlain(fields[i])
      BY <2>1, <2>2 DEF IsPlain
    <3> QED
      BY <3>1, PlainIsFaithful
  <2>3. CASE fields[i].kind \notin DOMAIN Formats \cup {"s"}
    <3>1. fields[i].kind = "struct" /\ IsPlainSpec(fields[i].nested) /\ fields[i].nested # << >>
      BY <2>3 DEF IsStruct
    <3>2. \A j \in DOMAIN fields[i].nested : fields[i].nested[j].count # 0
      BY <1>1, <3>1 DEF IsSpec, SpecAccepted
    <3>3. IsNest(fields[i])
      BY <2>1, <3>1, <3>2 DEF IsNest
    <3> QED
      BY <3>3, NestIsFaithful
  <2> QED
    BY <2>2, <2>3
<1> QED
  BY <1>1, <1>2 DEF AreFaithful

-----------------------------------------------------------------------------
(* Parameters of DDM2.                                                     *)

FieldsOf(param) == CHOOSE s \in param.struct : TRUE

\* A parameter has a scale, and a struct of faithful fields if it has one.
LEMMA ParamTyped ==
    ASSUME NEW param, IsParam2(param)
    PROVE  /\ IsScale(param) /\ param.in \in Types2 /\ param.out = param.in
           /\ param.struct # {} => /\ param.struct = {FieldsOf(param)}
                                   /\ AreFaithful(param, FieldsOf(param))
<1>1. IsScale(param) /\ param.in \in Types2 /\ param.out = param.in
  BY DEF IsParam2, IsScale
<1>2. ASSUME param.struct # {} PROVE param.struct = {FieldsOf(param)} /\ IsStruct(FieldsOf(param))
  <2>1. PICK s \in param.struct : param.struct = {s} /\ IsStruct(s)
    BY <1>2 DEF IsParam2
  <2>2. FieldsOf(param) \in param.struct
    BY <1>2 DEF FieldsOf
  <2> QED
    BY <2>1, <2>2
<1> QED
  BY <1>1, <1>2, StructIsFaithful

\* INT32 and UINT32 are formats of a word.
LEMMA WordFormats ==
    ASSUME NEW type
    PROVE  IsFormat(Word(type)) /\ Word(type).size = WordBytes
<1>1. CASE type = "INT32_T"
  BY <1>1, FormatsAreFormats DEF Word, Formats
<1>2. CASE type # "INT32_T"
  BY <1>2, FormatsAreFormats DEF Word, Formats
<1> QED
  BY <1>1, <1>2

\* Data of exactly the size of a struct is laid out as its fields.
LEMMA ExactIsLaid ==
    ASSUME NEW param, NEW fields, AreFaithful(param, fields), NEW data
    PROVE  Exact(ElementSize, fields, data) <=> Laid(fields, EachSize(fields), data)
<1> DEFINE n == Len(fields)
           left == Len(data) - EndOf(fields)[n]
<1>1. n \in Nat /\ DOMAIN fields = 1 .. n /\ \A i \in 1 .. n : EachSize(fields)[i] = ElementSize(fields[i])
  BY FieldsTyped
<1>2. FieldEnds(ElementSize, fields) = EndOf(fields)
  BY <1>1, EndOfFields
<1>3. Exact(ElementSize, fields, data) <=>
          IF n > 0 /\ fields[n].count = 0 THEN left >= 0 /\ left % ElementSize(fields[n]) = 0 ELSE left = 0
  BY <1>2 DEF Exact
<1>4. Laid(fields, EachSize(fields), data) <=>
          IF n > 0 /\ fields[n].count = 0 THEN left >= 0 /\ left % EachSize(fields)[n] = 0 ELSE left = 0
  BY DEF Laid, EndOf
<1> HIDE DEF left, n
<1>5. n > 0 => EachSize(fields)[n] = ElementSize(fields[n])
  BY <1>1
<1> QED
  BY <1>3, <1>4, <1>5

\* What may be handed to ddm2.encode may be handed to a field.
LEMMA FieldItems ==
    ASSUME NEW v, IsFieldValue(v)
    PROVE  IsFieldItem(v)
<1>1. ASSUME NEW x, IsElementValue(x) PROVE IsElementItem(x) /\ x.type # "list"
  <2>1. CASE IsLeaf(x)
    BY <2>1 DEF IsLeaf, IsElementItem, IsItem
  <2>2. CASE ~IsLeaf(x)
    <3>1. x.type = "map" /\ \A n \in DOMAIN x.of : IsPlainValue(x.of[n])
      BY <1>1, <2>2 DEF IsElementValue, IsMapOf
    <3> QED
      BY <3>1 DEF IsElementItem, IsItem
  <2> QED
    BY <2>1, <2>2
<1>2. CASE IsElementValue(v)
  BY <1>1, <1>2 DEF IsFieldItem
<1>3. CASE ~IsElementValue(v)
  <2>1. /\ v.type = "list" /\ v.of \in Seq({v.of[i] : i \in DOMAIN v.of})
        /\ \A i \in DOMAIN v.of : IsElementValue(v.of[i])
    BY <1>3 DEF IsFieldValue, IsListOf
  <2>2. Len(v.of) \in Nat /\ DOMAIN v.of = 1 .. Len(v.of)
    BY <2>1
  <2>3. IsElementItem(v)
    BY <2>1 DEF IsElementItem, IsItem
  <2> QED
    BY <1>1, <2>1, <2>2, <2>3 DEF IsFieldItem
<1> QED
  BY <1>2, <1>3

\* A parameter with a struct is coded as its fields.
LEMMA StructCoded ==
    ASSUME NEW param, IsParam2(param), param.in = "STRUCT"
    PROVE  /\ \A v : Encode(param, v) =
                     IF param.struct # {} /\ v.type = "map"
                     THEN EncodeAll(param, FieldsOf(param), v.of) ELSE Rejected
           /\ \A data : Decode(param, data) =
                     IF param.struct # {} /\ Laid(FieldsOf(param), EachSize(FieldsOf(param)), data)
                     THEN Done(DecodeAll(param, FieldsOf(param), data)) ELSE Rejected
<1> DEFINE fields == FieldsOf(param)
<1>1. param.in = "STRUCT" /\ param.out = "STRUCT"
  BY ParamTyped
<1>2. ASSUME NEW v
      PROVE  Encode(param, v) = IF param.struct # {} /\ v.type = "map"
                                THEN EncodeAll(param, fields, v.of) ELSE Rejected
  BY <1>1 DEF Encode, EncodeStruct, EncodeAll, FieldsOf
<1>3. ASSUME NEW data
      PROVE  Decode(param, data) = IF param.struct # {} /\ Laid(fields, EachSize(fields), data)
                                   THEN Done(DecodeAll(param, fields, data)) ELSE Rejected
  <2>1. Decode(param, data) = IF param.struct # {}
                              THEN DecodeStruct(param, fields, data) ELSE Rejected
    BY <1>1 DEF Decode, FieldsOf
  <2>2. DecodeStruct(param, fields, data)
            = IF Exact(ElementSize, fields, data) THEN Done(DecodeAll(param, fields, data)) ELSE Rejected
    BY DEF DecodeStruct, DecodeAll
  <2>3. param.struct # {} => (Exact(ElementSize, fields, data) <=> Laid(fields, EachSize(fields), data))
    BY ParamTyped, ExactIsLaid
  <2> QED
    BY <2>1, <2>2, <2>3
<1> QED
  BY <1>2, <1>3

\* Whatever is encoded for a parameter is decoded as itself.
THEOREM Written2 ==
    ASSUME NEW param, IsParam2(param), NEW v, IsValue2(v), Encode(param, v).ok
    PROVE  LET d == Decode(param, Encode(param, v).out) IN d.ok /\ Same2(param, v, d.out)
<1> DEFINE out == Encode(param, v).out
           d == Decode(param, out)
           Goal == d.ok /\ Same2(param, v, d.out)
<1> SUFFICES Goal
  OBVIOUS
<1>1. IsScale(param) /\ param.in \in Types2 /\ param.out = param.in
  BY ParamTyped
<1>2. v.type # "map" => IsLeaf(v)
  BY DEF IsValue2, IsMapOf
<1>3. CASE param.in \in {"INT32_T", "UINT32_T"}
  <2> DEFINE fmt == Word(param.in)
             r == PackValue(param, fmt, v, param.unit)
  <2>1. Encode(param, v) = r
    BY <1>3 DEF Encode
  <2>2. IsFormat(fmt) /\ fmt.size = WordBytes
    BY WordFormats
  <2> HIDE DEF fmt
  <2>3. v.type \in {"bool", "int", "float"}
    BY <2>1 DEF PackValue, ScaleIn, Rejected
  <2>4. IsLeaf(v) /\ r.ok
    BY <1>2, <2>1, <2>3
  <2>5. /\ r.out \in Seq(Octet) /\ Len(r.out) = WordBytes
        /\ SameScalar(param, param.unit, v, ScaleOut(param, Unpack(fmt, r.out), param.unit))
    BY <1>1, <2>2, <2>4, ScalarWritten
  <2>6. Decode(param, r.out) = Done(ScaleOut(param, Unpack(fmt, r.out), param.unit))
    BY <1>1, <1>3, <2>5 DEF Decode, fmt
  <2>7. out = r.out
    BY <2>1
  <2> HIDE DEF r, out
  <2>8. d.ok /\ d.out = ScaleOut(param, Unpack(fmt, r.out), param.unit)
    BY <2>6, <2>7 DEF Done
  <2> HIDE DEF d
  <2> QED
    BY <1>3, <2>5, <2>8 DEF Same2
<1>4. CASE param.in = "STRING"
  <2>1. v.type = "str" /\ Encode(param, v) = Done(v.of)
    BY <1>4 DEF Encode, Rejected
  <2>2. IsUtf8(v.of) /\ v.of \in Seq(Octet)
    BY <1>2, <2>1 DEF IsLeaf, IsUtf8
  <2>3. out = v.of
    BY <2>1 DEF Done
  <2> HIDE DEF out
  <2>4. d = Done(Value("str", Text(v.of)))
    BY <1>1, <1>4, <2>3 DEF Decode
  <2> HIDE DEF d
  <2>5. d.ok /\ d.out.of = Text(v.of)
    BY <2>4 DEF Done, Value
  <2>6. CutAtNul(v.of, Text(v.of))
    BY <2>2, BeforeNulCut, TextCut
  <2> QED
    BY <1>4, <2>1, <2>5, <2>6 DEF Same2, SameScalar
<1>5. CASE param.in = "STRUCT"
  <2> DEFINE fields == FieldsOf(param)
  <2>1. param.struct # {} /\ v.type = "map" /\ Encode(param, v) = EncodeAll(param, fields, v.of)
    BY <1>5, StructCoded DEF Rejected
  <2>2. AreFaithful(param, fields)
    BY <2>1, ParamTyped
  <2>3. \A name \in DOMAIN v.of : IsFieldItem(v.of[name])
    <3>1. ~IsLeaf(v)
      BY <2>1 DEF IsLeaf
    <3>2. \A name \in DOMAIN v.of : IsFieldValue(v.of[name])
      BY <3>1 DEF IsValue2, IsMapOf
    <3> QED
      BY <3>2, FieldItems
  <2> DEFINE x == EncodeAll(param, fields, v.of).out
  <2>4. EncodeAll(param, fields, v.of).ok
    BY <2>1
  <2>5. /\ x \in Seq(Octet) /\ Laid(fields, EachSize(fields), x)
        /\ SameAll(param, fields, v, DecodeAll(param, fields, x))
    <3> HIDE DEF fields
    <3> QED
      BY <2>2, <2>3, <2>4, FieldsWritten
  <2>6. out = x
    BY <2>1
  <2> HIDE DEF out, x
  <2>7. d = Done(DecodeAll(param, fields, x))
    BY <1>5, <2>1, <2>5, <2>6, StructCoded
  <2> HIDE DEF d
  <2>8. d.ok /\ d.out = DecodeAll(param, fields, x)
    BY <2>7 DEF Done
  <2>9. Same2(param, v, d.out) <=> SameAll(param, fields, v, d.out)
    BY <1>5 DEF Same2, SameAll, FieldsOf
  <2> QED
    BY <2>5, <2>8, <2>9
<1>6. CASE param.in = "VOID"
  <2>1. v.type = "none" /\ Encode(param, v) = Done(<< >>)
    BY <1>6 DEF Encode, Rejected
  <2>2. v.of = 0
    BY <1>2, <2>1 DEF IsLeaf
  <2>3. out = << >>
    BY <2>1 DEF Done
  <2> HIDE DEF out
  <2>4. d = Done(Value("none", 0))
    BY <1>1, <1>6, <2>3 DEF Decode
  <2> HIDE DEF d
  <2>5. d.ok /\ d.out.of = 0
    BY <2>4 DEF Done, Value
  <2> QED
    BY <1>6, <2>1, <2>2, <2>5 DEF Same2, SameScalar
<1>7. CASE param.in = "OTHER"
  <2>1. v.type = "bytes" /\ Encode(param, v) = Done(v.of)
    BY <1>7 DEF Encode, Rejected
  <2>2. out = v.of
    BY <2>1 DEF Done
  <2> HIDE DEF out
  <2>3. d = Done(Value("bytes", v.of))
    BY <1>1, <1>7, <2>2 DEF Decode
  <2> HIDE DEF d
  <2>4. d.ok /\ d.out.of = v.of
    BY <2>3 DEF Done, Value
  <2> QED
    BY <1>7, <2>1, <2>4 DEF Same2, SameScalar
<1>8. CASE param.in \in {"-", "JUMBO"}
  <2>1. Encode(param, v) = Rejected
    BY <1>8 DEF Encode
  <2> QED
    BY <2>1 DEF Rejected
<1> HIDE DEF Goal
<1> QED
  BY <1>1, <1>3, <1>4, <1>5, <1>6, <1>7, <1>8 DEF Types2

\* w says what v does.
Alike2(v, w) ==
    IF v.type = "map"
    THEN w.type = "map" /\ DOMAIN w.of = DOMAIN v.of /\ \A n \in DOMAIN v.of : AlikeField(v.of[n], w.of[n])
    ELSE IF v.type \in {"bytes", "none"} THEN w.type = v.type /\ w.of = v.of
    ELSE AlikeLeaf(v, w)

Encoded2(param, data, e) ==
    /\ ~Grown2(param, Decode(param, data).out) => e.ok
    /\ e.ok => /\ Decode(param, e.out) = Decode(param, data)
               /\ e.out = data \/ HasText(param)

\* Whatever is decoded for a parameter can be encoded, but for a text that grew, and is then
\* decoded as the same.
THEOREM Read2 ==
    ASSUME NEW param, IsParam2(param), param.in \notin {"JUMBO", "-"},
           NEW data \in Seq(Octet), Decode(param, data).ok,
           NEW v, v = Decode(param, data).out
    PROVE  Alike2(v, v) /\ \A w : Alike2(v, w) => Encoded2(param, data, Encode(param, w))
<1> DEFINE Goal == Alike2(v, v) /\ \A w : Alike2(v, w) => Encoded2(param, data, Encode(param, w))
<1> SUFFICES Goal
  OBVIOUS
<1>1. IsScale(param) /\ param.in \in Types2 /\ param.out = param.in
  BY ParamTyped
<1>2. CASE param.in \in {"INT32_T", "UINT32_T"}
  <2> DEFINE fmt == Word(param.in)
  <2>1. Len(data) = WordBytes /\ Decode(param, data) = Done(ScaleOut(param, Unpack(fmt, data), param.unit))
    BY <1>1, <1>2 DEF Decode, Rejected
  <2>2. v = ScaleOut(param, Unpack(fmt, data), param.unit)
    BY <2>1 DEF Done
  <2>3. IsFormat(fmt) /\ fmt.size = WordBytes
    BY WordFormats
  <2>4. \A w : Encode(param, w) = PackValue(param, fmt, w, param.unit)
    BY <1>2 DEF Encode
  <2> HIDE DEF fmt
  <2>5. /\ v.type \in {"int", "float"}
        /\ \A w : (w.type \in {"int", "float"} /\ w.of = v.of)
                      => PackValue(param, fmt, w, param.unit) = Done(data)
    BY <1>1, <2>1, <2>2, <2>3, ScalarRead
  <2>6. \A w : Alike2(v, w) <=> w.of = v.of /\ w.type \in {"int", "float"}
    BY <2>5 DEF Alike2, AlikeLeaf
  <2>7. \A w : Alike2(v, w) => Encode(param, w) = Done(data)
    BY <2>4, <2>5, <2>6
  <2> QED
    BY <2>5, <2>6, <2>7 DEF Encoded2, Done
<1>3. CASE param.in = "STRING"
  <2> DEFINE t == Text(data)
  <2>1. \A x : Decode(param, x) = Done(Value("str", Text(x)))
    BY <1>1, <1>3 DEF Decode
  <2>2. v.type = "str" /\ v.of = t
    BY <2>1 DEF Done, Value
  <2>4. IsUtf8(t) /\ t \in Seq(Octet) /\ \A i \in 1 .. Len(t) : t[i] # 0
    BY TextIsText
  <2> HIDE DEF t
  <2>5. CutAtNul(t, Text(t))
    BY <2>4, BeforeNulCut, TextCut
  <2>6. Text(t) = t
    BY <2>4, <2>5, NothingToCut
  <2>7. \A w : Alike2(v, w) <=> w.type = "str" /\ w.of = t
    BY <2>2 DEF Alike2, AlikeLeaf
  <2>8. \A w : Alike2(v, w) => Encode(param, w) = Done(t)
    BY <1>3, <2>7 DEF Encode
  <2>9. Decode(param, t) = Decode(param, data)
    BY <2>1, <2>6 DEF t
  <2>10. HasText(param)
    BY <1>3 DEF HasText
  <2> QED
    BY <2>2, <2>7, <2>8, <2>9, <2>10 DEF Encoded2, Done
<1>4. CASE param.in = "STRUCT"
  <2> DEFINE fields == FieldsOf(param)
  <2>1. /\ param.struct # {} /\ Laid(fields, EachSize(fields), data)
        /\ Decode(param, data) = Done(DecodeAll(param, fields, data))
    BY <1>4, StructCoded DEF Rejected
  <2>2. v = DecodeAll(param, fields, data)
    BY <2>1 DEF Done
  <2>3. AreFaithful(param, fields) /\ param.struct = {fields}
    BY <2>1, ParamTyped
  <2>4. \A w : w.type = "map" => Encode(param, w) = EncodeAll(param, fields, w.of)
    BY <1>4, <2>1, StructCoded
  <2>5. \A x : Laid(fields, EachSize(fields), x) => Decode(param, x) = Done(DecodeAll(param, fields, x))
    BY <1>4, <2>1, StructCoded
  <2> HIDE DEF fields
  <2>6. /\ AlikeFields(fields, v, v)
        /\ \A w : AlikeFields(fields, v, w)
                      => FieldsEncoded(param, fields, data, EncodeAll(param, fields, w.of))
    BY <2>1, <2>2, <2>3, FieldsRead
  <2>7. v.type = "map" /\ DOMAIN v.of = Names(fields)
    BY <2>2, <2>3, AllParts
  <2>8. /\ \A i \in 1 .. Len(fields) : fields[i].name \in Names(fields)
        /\ \A name \in Names(fields) : \E i \in 1 .. Len(fields) : name = fields[i].name
        /\ DOMAIN fields = 1 .. Len(fields)
    BY <2>3, FieldsTyped DEF Names
  <2>9. \A w : Alike2(v, w) <=> w.type = "map" /\ AlikeFields(fields, v, w)
    BY <2>7, <2>8 DEF Alike2, AlikeFields
  <2>10. ASSUME NEW w, Alike2(v, w) PROVE Encoded2(param, data, Encode(param, w))
    <3> DEFINE e == EncodeAll(param, fields, w.of)
    <3>1. Encode(param, w) = e /\ FieldsEncoded(param, fields, data, e)
      BY <2>4, <2>6, <2>9, <2>10
    <3> HIDE DEF e
    <3>2. e.ok => /\ Laid(fields, EachSize(fields), e.out)
                  /\ (\A i \in DOMAIN fields : ~TextIn(fields[i])) => e.out = data
                  /\ DecodeAll(param, fields, e.out) = DecodeAll(param, fields, data)
      BY <3>1 DEF FieldsEncoded
    <3>3. e.ok => Decode(param, e.out) = Decode(param, data)
      BY <2>1, <2>5, <3>2
    <3>4. (e.ok /\ ~HasText(param)) => e.out = data
      BY <2>3, <3>2 DEF HasText, TextIn
    <3>5. ~Grown2(param, v) => e.ok
      <4>1. Grown2(param, v) <=> GrownAll(fields, v)
        BY <1>4 DEF Grown2, GrownAll, FieldsOf, fields
      <4> QED
        BY <2>2, <3>1, <4>1 DEF FieldsEncoded
    <3> QED
      BY <3>1, <3>3, <3>4, <3>5 DEF Encoded2
  <2> QED
    BY <2>6, <2>7, <2>9, <2>10
<1>5. CASE param.in = "VOID"
  <2>1. data = << >> /\ Decode(param, data) = Done(Value("none", 0))
    BY <1>1, <1>5 DEF Decode, Rejected
  <2>2. v.type = "none"
    BY <2>1 DEF Done, Value
  <2>3. \A w : Alike2(v, w) <=> w.type = "none" /\ w.of = v.of
    BY <2>2 DEF Alike2
  <2>4. \A w : Alike2(v, w) => Encode(param, w) = Done(data)
    BY <1>5, <2>1, <2>3 DEF Encode
  <2> QED
    BY <2>2, <2>3, <2>4 DEF Encoded2, Done
<1>6. CASE param.in = "OTHER"
  <2>1. Decode(param, data) = Done(Value("bytes", data))
    BY <1>1, <1>6 DEF Decode
  <2>2. v.type = "bytes" /\ v.of = data
    BY <2>1 DEF Done, Value
  <2>3. \A w : Alike2(v, w) <=> w.type = "bytes" /\ w.of = data
    BY <2>2 DEF Alike2
  <2>4. \A w : Alike2(v, w) => Encode(param, w) = Done(data)
    BY <1>6, <2>3 DEF Encode
  <2> QED
    BY <2>2, <2>3, <2>4 DEF Encoded2, Done
<1> HIDE DEF Goal
<1> QED
  BY <1>1, <1>2, <1>3, <1>4, <1>5, <1>6 DEF Types2

\* The codec of DDM2 changes no value on the way to a device or from it: a value of any
\* parameter that is encoded reads as itself, and what is decoded and encoded again reads
\* the same; only a struct is refused then, where malformed bytes were replaced and a text
\* grew beyond its field (pyddm/ddm2.py).
THEOREM Ddm2IsFaithful == WellAsked => Ddm2Faithful
<1> SUFFICES ASSUME WellAsked PROVE Ddm2RoundTrip /\ Ddm2WriteBack
  BY DEF Ddm2Faithful
<1>1. Ddm2RoundTrip
  <2> SUFFICES ASSUME probe[1] = "value2", Encode(probe[2], probe[3]).ok
               PROVE  LET d == Decode(probe[2], Encode(probe[2], probe[3]).out)
                      IN  d.ok /\ Same2(probe[2], probe[3], d.out)
    BY DEF Ddm2RoundTrip
  <2>1. IsParam2(probe[2]) /\ IsValue2(probe[3])
    BY DEF WellAsked
  <2> QED
    BY <2>1, Written2
<1>2. Ddm2WriteBack
  <2> DEFINE d == Decode(probe[2], probe[3])
             e == Encode(probe[2], d.out)
  <2> SUFFICES ASSUME probe[1] = "bytes2", d.ok, probe[2].in \notin {"JUMBO", "-"}
               PROVE  /\ e.ok => Decode(probe[2], e.out) = d /\ (e.out = probe[3] \/ HasText(probe[2]))
                      /\ ~e.ok => Grown2(probe[2], d.out)
    BY DEF Ddm2WriteBack
  <2>1. IsParam2(probe[2]) /\ probe[3] \in Seq(Octet)
    BY DEF WellAsked
  <2>2. Encoded2(probe[2], probe[3], e)
    BY <2>1, Read2
  <2> QED
    BY <2>2 DEF Encoded2
<1> QED
  BY <1>1, <1>2

-----------------------------------------------------------------------------
(* Values of DDM2 as the browser has them.                                 *)

\* A value without structure has the same JSON at every depth.
LEMMA LeafThereAndBack ==
    ASSUME NEW v, AlikeLeaf(v, v)
    PROVE  /\ JsonScalar(v) = Json(IF v.type = "str" THEN "text" ELSE "num", v.of)
           /\ JsonPlainField(v) = JsonScalar(v) /\ JsonElement(v) = JsonScalar(v)
           /\ JsonField(v) = JsonScalar(v) /\ Json2(v) = JsonScalar(v)
<1>1. v.type \in {"int", "float", "str"}
  BY DEF AlikeLeaf
<1>2. JsonScalar(v) = Json(IF v.type = "str" THEN "text" ELSE "num", v.of)
  BY <1>1 DEF JsonScalar
<1>3. v.type # "list" /\ v.type # "map"
  BY <1>1
<1> QED
  BY <1>2, <1>3 DEF JsonPlainField, JsonElement, JsonField, Json2, JsonOf

\* So has what comes from JSON.
LEMMA LeafFromJson ==
    ASSUME NEW x, x.type \in {"num", "text", "null"}
    PROVE  /\ FromJsonPlainField(x) = FromJsonScalar(x) /\ FromJsonElement(x) = FromJsonScalar(x)
           /\ FromJsonField(x) = FromJsonScalar(x) /\ FromJson2(x) = FromJsonScalar(x)
<1>1. x.type # "array" /\ x.type # "object"
  OBVIOUS
<1> QED
  BY <1>1 DEF FromJsonPlainField, FromJsonElement, FromJsonField, FromJson2, FromJsonOf

\* What comes of a number, a text and null.
LEMMA ScalarFromJson ==
    ASSUME NEW x
    PROVE  /\ x.type = "num" => FromJsonScalar(x).type \in {"int", "float"} /\ FromJsonScalar(x).of = x.of
           /\ x.type = "text" => FromJsonScalar(x) = Value("str", x.of)
           /\ x.type = "null" => FromJsonScalar(x) = Value("none", 0)
<1>1. ASSUME x.type = "num"
      PROVE  FromJsonScalar(x).type \in {"int", "float"} /\ FromJsonScalar(x).of = x.of
  <2> DEFINE t == IF x.of % Grain = 0 THEN "int" ELSE "float"
  <2>1. FromJsonScalar(x) = Value(t, x.of)
    <3>1. x.type # "bool" /\ x.type # "null" /\ ~IsText(x)
      BY <1>1 DEF IsText
    <3> QED
      BY <1>1, <3>1 DEF FromJsonScalar
  <2>2. t \in {"int", "float"}
    OBVIOUS
  <2> HIDE DEF t
  <2> QED
    BY <2>1, <2>2 DEF Value
<1>2. ASSUME x.type = "text" PROVE FromJsonScalar(x) = Value("str", x.of)
  <2>1. x.type # "num" /\ x.type # "bool" /\ x.type # "null" /\ IsText(x)
    BY <1>2 DEF IsText
  <2> QED
    BY <2>1 DEF FromJsonScalar
<1>3. ASSUME x.type = "null" PROVE FromJsonScalar(x) = Value("none", 0)
  <2>1. x.type # "num" /\ x.type # "bool" /\ ~IsText(x)
    BY <1>3 DEF IsText
  <2> QED
    BY <1>3, <2>1 DEF FromJsonScalar
<1> QED
  BY <1>1, <1>2, <1>3

\* A number or a text says the same when it comes back, wherever it is in a value.
LEMMA LeafComesBack ==
    ASSUME NEW v, AlikeLeaf(v, v)
    PROVE  /\ AlikeLeaf(v, FromJsonScalar(JsonScalar(v)))
           /\ AlikeLeaf(v, FromJsonPlainField(JsonPlainField(v)))
           /\ AlikeLeaf(v, FromJsonElement(JsonElement(v)))
           /\ AlikeLeaf(v, FromJsonField(JsonField(v)))
           /\ AlikeLeaf(v, FromJson2(Json2(v)))
<1> DEFINE x == JsonScalar(v)
<1>1. v.type \in {"int", "float", "str"}
  BY DEF AlikeLeaf
<1>2. /\ x.type = (IF v.type = "str" THEN "text" ELSE "num") /\ x.of = v.of
      /\ JsonPlainField(v) = x /\ JsonElement(v) = x /\ JsonField(v) = x /\ Json2(v) = x
  BY LeafThereAndBack DEF Json
<1> HIDE DEF x
<1>3. AlikeLeaf(v, FromJsonScalar(x))
  <2>1. CASE v.type = "str"
    BY <1>2, <2>1, ScalarFromJson DEF AlikeLeaf, Value
  <2>2. CASE v.type # "str"
    BY <1>1, <1>2, <2>2, ScalarFromJson DEF AlikeLeaf
  <2> QED
    BY <2>1, <2>2
<1>4. /\ FromJsonPlainField(x) = FromJsonScalar(x) /\ FromJsonElement(x) = FromJsonScalar(x)
      /\ FromJsonField(x) = FromJsonScalar(x) /\ FromJson2(x) = FromJsonScalar(x)
  BY <1>2, LeafFromJson
<1> QED
  BY <1>2, <1>3, <1>4 DEF x

\* A list goes to JSON and back element by element.
LEMMA ListThereAndBack ==
    ASSUME NEW v, v.type = "list"
    PROVE  /\ FromJsonPlainField(JsonPlainField(v))
                  = Value("list", [i \in DOMAIN v.of |-> FromJsonScalar(JsonScalar(v.of[i]))])
           /\ FromJsonElement(JsonElement(v))
                  = Value("list", [i \in DOMAIN v.of |-> FromJsonPlainField(JsonPlainField(v.of[i]))])
           /\ FromJsonField(JsonField(v))
                  = Value("list", [i \in DOMAIN v.of |-> FromJsonElement(JsonElement(v.of[i]))])
<1>1. /\ JsonPlainField(v) = Json("array", [i \in DOMAIN v.of |-> JsonScalar(v.of[i])])
      /\ JsonElement(v) = Json("array", [i \in DOMAIN v.of |-> JsonPlainField(v.of[i])])
      /\ JsonField(v) = Json("array", [i \in DOMAIN v.of |-> JsonElement(v.of[i])])
  BY DEF JsonPlainField, JsonElement, JsonField, JsonOf
<1>2. ASSUME NEW y, NEW x, x = Json("array", y)
      PROVE  /\ FromJsonPlainField(x) = Value("list", [i \in DOMAIN y |-> FromJsonScalar(y[i])])
             /\ FromJsonElement(x) = Value("list", [i \in DOMAIN y |-> FromJsonPlainField(y[i])])
             /\ FromJsonField(x) = Value("list", [i \in DOMAIN y |-> FromJsonElement(y[i])])
  <2>1. x.type = "array" /\ x.of = y
    BY <1>2 DEF Json
  <2> QED
    BY <2>1 DEF FromJsonPlainField, FromJsonElement, FromJsonField, FromJsonOf
<1> DEFINE a == [i \in DOMAIN v.of |-> JsonScalar(v.of[i])]
           b == [i \in DOMAIN v.of |-> JsonPlainField(v.of[i])]
           c == [i \in DOMAIN v.of |-> JsonElement(v.of[i])]
<1>3. FromJsonPlainField(Json("array", a)) = Value("list", [i \in DOMAIN v.of |-> FromJsonScalar(JsonScalar(v.of[i]))])
  <2>1. FromJsonPlainField(Json("array", a)) = Value("list", [i \in DOMAIN a |-> FromJsonScalar(a[i])])
    BY <1>2
  <2> QED
    BY <2>1
<1>4. FromJsonElement(Json("array", b)) = Value("list", [i \in DOMAIN v.of |-> FromJsonPlainField(JsonPlainField(v.of[i]))])
  <2>1. FromJsonElement(Json("array", b)) = Value("list", [i \in DOMAIN b |-> FromJsonPlainField(b[i])])
    BY <1>2
  <2> QED
    BY <2>1
<1>5. FromJsonField(Json("array", c)) = Value("list", [i \in DOMAIN v.of |-> FromJsonElement(JsonElement(v.of[i]))])
  <2>1. FromJsonField(Json("array", c)) = Value("list", [i \in DOMAIN c |-> FromJsonElement(c[i])])
    BY <1>2
  <2> QED
    BY <2>1
<1> QED
  BY <1>1, <1>3, <1>4, <1>5

\* A map goes to JSON and back name by name.
LEMMA MapThereAndBack ==
    ASSUME NEW v, v.type = "map"
    PROVE  /\ FromJsonElement(JsonElement(v))
                  = Value("map", [n \in DOMAIN v.of |-> FromJsonPlainField(JsonPlainField(v.of[n]))])
           /\ FromJsonField(JsonField(v))
                  = Value("map", [n \in DOMAIN v.of |-> FromJsonElement(JsonElement(v.of[n]))])
           /\ FromJson2(Json2(v))
                  = Value("map", [n \in DOMAIN v.of |-> FromJsonField(JsonField(v.of[n]))])
           /\ Json2(v).type = "object"
<1>1. /\ JsonElement(v) = Json("object", [n \in DOMAIN v.of |-> JsonPlainField(v.of[n])])
      /\ JsonField(v) = Json("object", [n \in DOMAIN v.of |-> JsonElement(v.of[n])])
      /\ Json2(v) = Json("object", [n \in DOMAIN v.of |-> JsonField(v.of[n])])
  BY DEF JsonElement, JsonField, Json2, JsonOf
<1>2. ASSUME NEW y, NEW x, x = Json("object", y)
      PROVE  /\ FromJsonElement(x) = Value("map", [n \in DOMAIN y |-> FromJsonPlainField(y[n])])
             /\ FromJsonField(x) = Value("map", [n \in DOMAIN y |-> FromJsonElement(y[n])])
             /\ FromJson2(x) = Value("map", [n \in DOMAIN y |-> FromJsonField(y[n])])
             /\ x.type = "object"
  <2>1. x.type = "object" /\ x.of = y
    BY <1>2 DEF Json
  <2> QED
    BY <2>1 DEF FromJsonElement, FromJsonField, FromJson2, FromJsonOf
<1> DEFINE a == [n \in DOMAIN v.of |-> JsonPlainField(v.of[n])]
           b == [n \in DOMAIN v.of |-> JsonElement(v.of[n])]
           c == [n \in DOMAIN v.of |-> JsonField(v.of[n])]
<1>3. FromJsonElement(Json("object", a)) = Value("map", [n \in DOMAIN v.of |-> FromJsonPlainField(JsonPlainField(v.of[n]))])
  <2>1. FromJsonElement(Json("object", a)) = Value("map", [n \in DOMAIN a |-> FromJsonPlainField(a[n])])
    BY <1>2
  <2> QED
    BY <2>1
<1>4. FromJsonField(Json("object", b)) = Value("map", [n \in DOMAIN v.of |-> FromJsonElement(JsonElement(v.of[n]))])
  <2>1. FromJsonField(Json("object", b)) = Value("map", [n \in DOMAIN b |-> FromJsonElement(b[n])])
    BY <1>2
  <2> QED
    BY <2>1
<1>5. FromJson2(Json("object", c)) = Value("map", [n \in DOMAIN v.of |-> FromJsonField(JsonField(v.of[n]))])
  <2>1. FromJson2(Json("object", c)) = Value("map", [n \in DOMAIN c |-> FromJsonField(c[n])])
    BY <1>2
  <2> QED
    BY <2>1
<1>6. Json2(v).type = "object"
  BY <1>1, <1>2
<1> QED
  BY <1>1, <1>3, <1>4, <1>5, <1>6

\* A list made of one item for each of another is as long.
LEMMA ItemsAlike ==
    ASSUME NEW v, AlikeItems(v, v), NEW f, NEW w, w = Value("list", [i \in DOMAIN v.of |-> f[i]])
    PROVE  /\ AlikeItems(v, w) /\ \A i \in 1 .. Len(v.of) : w.of[i] = f[i]
<1> DEFINE n == Len(v.of)
<1>1. n \in Nat /\ DOMAIN v.of = 1 .. n
  BY DEF AlikeItems
<1>2. w.type = "list" /\ w.of = [i \in 1 .. n |-> f[i]]
  BY <1>1 DEF Value
<1> HIDE DEF n
<1>3. Len(w.of) = n /\ DOMAIN w.of = 1 .. n
  BY <1>1, <1>2
<1> QED
  BY <1>1, <1>2, <1>3 DEF AlikeItems, n

\* A field that nests nothing comes back from JSON alike.
LEMMA PlainFieldComesBack ==
    ASSUME NEW v, AlikePlainField(v, v)
    PROVE  /\ AlikePlainField(v, FromJsonPlainField(JsonPlainField(v)))
           /\ AlikePlainField(v, FromJsonElement(JsonElement(v)))
<1>1. CASE v.type # "list"
  BY <1>1, LeafComesBack DEF AlikePlainField
<1>2. CASE v.type = "list"
  <2> DEFINE n == Len(v.of)
             f == [i \in DOMAIN v.of |-> FromJsonScalar(JsonScalar(v.of[i]))]
             g == [i \in DOMAIN v.of |-> FromJsonPlainField(JsonPlainField(v.of[i]))]
             w == FromJsonPlainField(JsonPlainField(v))
             z == FromJsonElement(JsonElement(v))
  <2>1. AlikeItems(v, v) /\ \A i \in 1 .. n : AlikeLeaf(v.of[i], v.of[i])
    BY <1>2 DEF AlikePlainField
  <2>2. DOMAIN v.of = 1 .. n
    BY <2>1 DEF AlikeItems
  <2>3. \A i \in 1 .. n : AlikeLeaf(v.of[i], f[i]) /\ AlikeLeaf(v.of[i], g[i])
    BY <2>1, <2>2, LeafComesBack
  <2>4. /\ w = Value("list", [i \in DOMAIN v.of |-> f[i]])
        /\ z = Value("list", [i \in DOMAIN v.of |-> g[i]])
    BY <1>2, ListThereAndBack
  <2> HIDE DEF f, g, w, z
  <2>5. AlikeItems(v, w) /\ \A i \in 1 .. n : w.of[i] = f[i]
    BY <2>1, <2>4, ItemsAlike
  <2>6. AlikeItems(v, z) /\ \A i \in 1 .. n : z.of[i] = g[i]
    BY <2>1, <2>4, ItemsAlike
  <2>7. AlikePlainField(v, w)
    BY <1>2, <2>3, <2>5 DEF AlikePlainField
  <2>8. AlikePlainField(v, z)
    BY <1>2, <2>3, <2>6 DEF AlikePlainField
  <2> QED
    BY <2>7, <2>8 DEF w, z
<1> QED
  BY <1>1, <1>2

\* An element comes back from JSON alike.
LEMMA ElementComesBack ==
    ASSUME NEW v, AlikeElement(v, v)
    PROVE  /\ AlikeElement(v, FromJsonElement(JsonElement(v)))
           /\ AlikeElement(v, FromJsonField(JsonField(v)))
<1>1. CASE v.type # "map"
  BY <1>1, LeafComesBack DEF AlikeElement
<1>2. CASE v.type = "map"
  <2> DEFINE w == FromJsonElement(JsonElement(v))
             z == FromJsonField(JsonField(v))
  <2>1. \A n \in DOMAIN v.of : AlikePlainField(v.of[n], v.of[n])
    BY <1>2 DEF AlikeElement
  <2>2. /\ w = Value("map", [n \in DOMAIN v.of |-> FromJsonPlainField(JsonPlainField(v.of[n]))])
        /\ z = Value("map", [n \in DOMAIN v.of |-> FromJsonElement(JsonElement(v.of[n]))])
    BY <1>2, MapThereAndBack
  <2> HIDE DEF w, z
  <2>3. /\ w.type = "map" /\ DOMAIN w.of = DOMAIN v.of
        /\ \A n \in DOMAIN v.of : w.of[n] = FromJsonPlainField(JsonPlainField(v.of[n]))
        /\ z.type = "map" /\ DOMAIN z.of = DOMAIN v.of
        /\ \A n \in DOMAIN v.of : z.of[n] = FromJsonElement(JsonElement(v.of[n]))
    BY <2>2 DEF Value
  <2>4. \A n \in DOMAIN v.of : AlikePlainField(v.of[n], w.of[n]) /\ AlikePlainField(v.of[n], z.of[n])
    BY <2>1, <2>3, PlainFieldComesBack
  <2> QED
    BY <1>2, <2>3, <2>4 DEF AlikeElement, w, z
<1> QED
  BY <1>1, <1>2

\* A field comes back from JSON alike.
LEMMA FieldComesBack ==
    ASSUME NEW v, AlikeField(v, v)
    PROVE  AlikeField(v, FromJsonField(JsonField(v)))
<1>1. CASE v.type # "list"
  BY <1>1, ElementComesBack DEF AlikeField
<1>2. CASE v.type = "list"
  <2> DEFINE n == Len(v.of)
             f == [i \in DOMAIN v.of |-> FromJsonElement(JsonElement(v.of[i]))]
             w == FromJsonField(JsonField(v))
  <2>1. AlikeItems(v, v) /\ \A i \in 1 .. n : AlikeElement(v.of[i], v.of[i])
    BY <1>2 DEF AlikeField
  <2>2. DOMAIN v.of = 1 .. n
    BY <2>1 DEF AlikeItems
  <2>3. \A i \in 1 .. n : AlikeElement(v.of[i], f[i])
    BY <2>1, <2>2, ElementComesBack
  <2>4. w = Value("list", [i \in DOMAIN v.of |-> f[i]])
    BY <1>2, ListThereAndBack
  <2> HIDE DEF f, w
  <2>5. AlikeItems(v, w) /\ \A i \in 1 .. n : w.of[i] = f[i]
    BY <2>1, <2>4, ItemsAlike
  <2>6. AlikeField(v, w)
    BY <1>2, <2>3, <2>5 DEF AlikeField
  <2> QED
    BY <2>6 DEF w
<1> QED
  BY <1>1, <1>2

\* A struct comes back from JSON alike.
LEMMA MapComesBack ==
    ASSUME NEW v, v.type = "map", Alike2(v, v)
    PROVE  Alike2(v, FromJson2(Json2(v))) /\ Json2(v).type = "object"
<1> DEFINE w == FromJson2(Json2(v))
<1>1. \A n \in DOMAIN v.of : AlikeField(v.of[n], v.of[n])
  BY DEF Alike2
<1>2. /\ w = Value("map", [n \in DOMAIN v.of |-> FromJsonField(JsonField(v.of[n]))])
      /\ Json2(v).type = "object"
  BY MapThereAndBack
<1> HIDE DEF w
<1>3. /\ w.type = "map" /\ DOMAIN w.of = DOMAIN v.of
      /\ \A n \in DOMAIN v.of : w.of[n] = FromJsonField(JsonField(v.of[n]))
  BY <1>2 DEF Value
<1>4. \A n \in DOMAIN v.of : AlikeField(v.of[n], w.of[n])
  BY <1>1, <1>3, FieldComesBack
<1> QED
  BY <1>2, <1>3, <1>4 DEF Alike2, w

\* What the console makes of what it gets: nothing a parameter takes, or what says what it
\* was.
SentTo(param, x) == LET c == Coerce2(param, x) IN IF c.ok THEN Encode(param, c.out) ELSE c
Refused2(param, x) == ~SentTo(param, x).ok
Taken2(param, x, v) == \E w : Coerce2(param, x) = Done(w) /\ Alike2(v, w)

\* What is taken for a value is encoded as one that is alike.
LEMMA TakenIsSent ==
    ASSUME NEW param, NEW x, NEW v, Taken2(param, x, v)
    PROVE  \E w : Alike2(v, w) /\ SentTo(param, x) = Encode(param, w)
BY DEF Taken2, SentTo, Done

\* What is not coerced is refused.
LEMMA CoerceRejected ==
    ASSUME NEW param, NEW x, Coerce2(param, x) = Rejected
    PROVE  Refused2(param, x)
BY DEF Refused2, SentTo, Rejected

\* What is coerced to what is not encoded is refused.
LEMMA CoerceOfOther ==
    ASSUME NEW param, NEW x, NEW w, Coerce2(param, x) = Done(w), ~Encode(param, w).ok
    PROVE  Refused2(param, x)
BY DEF Refused2, SentTo, Done

\* What is no text, and no list for a struct, is taken as it is.
LEMMA CoercedAsIs ==
    ASSUME NEW param, NEW x, x.type \in {"num", "null", "object"}
    PROVE  Coerce2(param, x) = Done(FromJson2(x))
<1>1. x.type # "name" /\ ~IsText(x) /\ x.type # "array"
  BY DEF IsText
<1> QED
  BY <1>1 DEF Coerce2

\* Text, for each type of a parameter.
LEMMA CoercedText ==
    ASSUME NEW param, NEW x, x.type = "text"
    PROVE  /\ param.in \in {"INT32_T", "UINT32_T"} => Coerce2(param, x) = Rejected
           /\ param.in = "VOID" => Coerce2(param, x) = Done(Value("none", 0))
           /\ param.in \notin {"INT32_T", "UINT32_T", "VOID"} => Coerce2(param, x) = Done(Value("str", x.of))
<1>1. x.type # "name" /\ IsText(x) /\ x.type # "array" /\ x.type # "digits"
  BY DEF IsText
<1>2. FromJson2(x) = Value("str", x.of)
  BY LeafFromJson, ScalarFromJson
<1>3. CASE param.in \in {"INT32_T", "UINT32_T"}
  BY <1>1, <1>3 DEF Coerce2
<1>4. CASE param.in = "VOID"
  BY <1>1, <1>4 DEF Coerce2
<1>5. CASE param.in \notin {"INT32_T", "UINT32_T", "VOID"}
  <2>1. Coerce2(param, x) = Done(FromJson2(x))
    BY <1>1, <1>5 DEF Coerce2
  <2> QED
    BY <1>2, <1>5, <2>1
<1> QED
  BY <1>3, <1>4, <1>5

\* Digits are a number, with a point or without.
LEMMA CoercedDigits ==
    ASSUME NEW param, param.in \in {"INT32_T", "UINT32_T"}, NEW n, NEW dotted \in BOOLEAN
    PROVE  \E w : /\ Coerce2(param, Digits(n, dotted)) = Done(w)
                  /\ w.type \in {"int", "float"} /\ w.of = n
<1> DEFINE x == Digits(n, dotted)
           t == IF dotted THEN "float" ELSE "int"
<1>1. x.type = "digits" /\ x.of.n = n /\ x.of.dotted = dotted
  BY DEF Digits, Json
<1>2. x.type # "name" /\ IsText(x)
  BY <1>1 DEF IsText
<1>3. Coerce2(param, x) = Done(Value(IF x.of.dotted THEN "float" ELSE "int", x.of.n))
  <2> HIDE DEF x
  <2> QED
    BY <1>1, <1>2 DEF Coerce2
<1>4. Coerce2(param, x) = Done(Value(t, n))
  BY <1>1, <1>3
<1>5. t \in {"int", "float"}
  OBVIOUS
<1> HIDE DEF x, t
<1>6. Value(t, n).type \in {"int", "float"} /\ Value(t, n).of = n
  BY <1>5 DEF Value
<1> QED
  BY <1>4, <1>6 DEF x

\* A word is no number.
LEMMA CoercedWord ==
    ASSUME NEW param, param.in \in {"INT32_T", "UINT32_T"}, NEW word
    PROVE  Coerce2(param, Says(word)) = Rejected
<1> DEFINE x == Says(word)
<1>1. x.type # "name" /\ IsText(x) /\ x.type # "digits"
  BY DEF Says, Json, IsText
<1> HIDE DEF x
<1>2. Coerce2(param, x) = Rejected
  BY <1>1 DEF Coerce2
<1> QED
  BY <1>2 DEF x

\* The label of a value is text, the same one for both protocols.
LEMMA LabelIsLabelled == Labelled.type = "text" /\ Console!Labelled = Labelled
BY DEF Labelled, Json, Console!Labelled, Console!Json

SentBackWell(param, v) ==
    /\ \A x \in SentBack2(param, v) : Taken2(param, x, v) \/ Refused2(param, x)
    /\ v.type \in {"int", "float", "map"} => Taken2(param, Json2(v), v)

\* A number as JSON, typed or as its display text.
LEMMA WordSentBack ==
    ASSUME NEW param, param.in \in {"INT32_T", "UINT32_T"}, NEW v, v.type \in {"int", "float"}
    PROVE  SentBackWell(param, v)
<1> DEFINE x == Json2(v)
<1>1. AlikeLeaf(v, v)
  BY DEF AlikeLeaf
<1>2. x = Json("num", v.of)
  BY <1>1, LeafThereAndBack
<1>3. x.type = "num" /\ x.of = v.of
  BY <1>2 DEF Json
<1> HIDE DEF x
<1>4. \A w : (w.type \in {"int", "float"} /\ w.of = v.of) => Alike2(v, w)
  BY DEF Alike2, AlikeLeaf
<1>5. Taken2(param, x, v)
  <2>1. Coerce2(param, x) = Done(FromJson2(x))
    BY <1>3, CoercedAsIs
  <2>2. FromJson2(x).type \in {"int", "float"} /\ FromJson2(x).of = v.of
    BY <1>3, LeafFromJson, ScalarFromJson
  <2> QED
    BY <1>4, <2>1, <2>2 DEF Taken2
<1>6. ASSUME NEW dotted \in BOOLEAN PROVE Taken2(param, Digits(v.of, dotted), v)
  <2>1. PICK w : /\ Coerce2(param, Digits(v.of, dotted)) = Done(w)
                 /\ w.type \in {"int", "float"} /\ w.of = v.of
    BY CoercedDigits
  <2> QED
    BY <1>4, <2>1 DEF Taken2
<1>7. Taken2(param, Typed(x, Grain), v)
  <2>1. Typed(x, Grain) = Digits(v.of, v.of % Grain # 0)
    BY <1>3 DEF Typed, Console!Digits, Console!Json, Digits, Json
  <2>2. (v.of % Grain # 0) \in BOOLEAN
    OBVIOUS
  <2> QED
    BY <1>6, <2>1, <2>2
<1>8. \A word : Refused2(param, Says(word))
  BY CoercedWord, CoerceRejected
<1>9. Refused2(param, Labelled)
  BY LabelIsLabelled, CoercedText, CoerceRejected
<1>10. Taken2(param, Display2(param, v), v) \/ Refused2(param, Display2(param, v))
  <2>1. CASE param.unit = "bool"
    <3>1. Display2(param, v) = Says(IF v.of = 0 THEN "off" ELSE "on")
      BY <2>1 DEF Display2
    <3> QED
      BY <1>8, <3>1
  <2>2. CASE param.unit \in {"", "-", "error", "instance"}
    <3>1. Display2(param, v) = Digits(v.of, v.type = "float")
      BY <2>2 DEF Display2
    <3>2. (v.type = "float") \in BOOLEAN
      OBVIOUS
    <3> QED
      BY <1>6, <3>1, <3>2
  <2>3. CASE param.unit \notin {"bool", "", "-", "error", "instance"}
    <3>1. Display2(param, v) = Labelled
      BY <2>3 DEF Display2
    <3> QED
      BY <1>9, <3>1
  <2> QED
    BY <2>1, <2>2, <2>3
<1> QED
  BY <1>5, <1>7, <1>10 DEF SentBackWell, SentBack2, x

\* Anything else.
LEMMA OtherSentBack ==
    ASSUME NEW param, NEW v, Alike2(v, v), NEW x, x = Json2(v),
           \/ param.in = "STRING" /\ v.type = "str"
           \/ param.in = "STRUCT" /\ v.type = "map"
           \/ param.in = "VOID" /\ v = Value("none", 0)
           \/ param.in = "OTHER" /\ v.type = "bytes"
    PROVE  SentBackWell(param, v)
<1>1. CASE param.in = "STRING" /\ v.type = "str"
  <2>1. AlikeLeaf(v, v)
    BY <1>1 DEF AlikeLeaf
  <2>2. x = Json("text", v.of)
    BY <1>1, <2>1, LeafThereAndBack
  <2>3. x.type = "text" /\ x.of = v.of
    BY <2>2 DEF Json
  <2>4. Coerce2(param, x) = Done(Value("str", v.of))
    BY <1>1, <2>3, CoercedText
  <2>5. Alike2(v, Value("str", v.of))
    BY <1>1 DEF Alike2, AlikeLeaf, Value
  <2>6. Taken2(param, x, v)
    BY <2>4, <2>5 DEF Taken2
  <2>7. Typed(x, Grain) = x
    BY <2>3 DEF Typed
  <2>8. Display2(param, v) = x
    BY <1>1, <2>2 DEF Display2
  <2> QED
    BY <2>6, <2>7, <2>8 DEF SentBackWell, SentBack2
<1>2. CASE param.in = "STRUCT" /\ v.type = "map"
  <2>1. Alike2(v, FromJson2(x)) /\ x.type = "object"
    BY <1>2, MapComesBack
  <2>2. Coerce2(param, x) = Done(FromJson2(x))
    BY <2>1, CoercedAsIs
  <2>3. Taken2(param, x, v)
    BY <2>1, <2>2 DEF Taken2
  <2>4. Refused2(param, Labelled)
    <3>1. Coerce2(param, Labelled) = Done(Value("str", Labelled.of))
      BY <1>2, LabelIsLabelled, CoercedText
    <3>2. ~Encode(param, Value("str", Labelled.of)).ok
      <4>1. Value("str", Labelled.of).type # "map"
        BY DEF Value
      <4>2. Encode(param, Value("str", Labelled.of)) = Rejected
        BY <1>2, <4>1 DEF Encode
      <4> QED
        BY <4>2 DEF Rejected
    <3> QED
      BY <3>1, <3>2, CoerceOfOther
  <2>5. Typed(x, Grain) = Labelled
    BY <2>1, LabelIsLabelled DEF Typed
  <2>6. Display2(param, v) = Labelled
    BY <1>2 DEF Display2
  <2> QED
    BY <2>3, <2>4, <2>5, <2>6 DEF SentBackWell, SentBack2
<1>3. CASE param.in = "VOID" /\ v = Value("none", 0)
  <2>1. v.type = "none" /\ v.of = 0
    BY <1>3 DEF Value
  <2>2. x = Json("null", 0)
    BY <2>1 DEF Json2, JsonOf, JsonScalar
  <2>3. x.type = "null"
    BY <2>2 DEF Json
  <2>4. Coerce2(param, x) = Done(v)
    BY <1>3, <2>3, CoercedAsIs, LeafFromJson, ScalarFromJson
  <2>5. Coerce2(param, Labelled) = Done(v)
    BY <1>3, LabelIsLabelled, CoercedText
  <2>6. Typed(x, Grain) = x
    BY <2>3 DEF Typed
  <2>7. Display2(param, v) = Labelled
    BY <2>1 DEF Display2
  <2>8. Taken2(param, x, v) /\ Taken2(param, Labelled, v)
    BY <2>4, <2>5 DEF Taken2
  <2> QED
    BY <2>6, <2>7, <2>8 DEF SentBackWell, SentBack2
<1>4. CASE param.in = "OTHER" /\ v.type = "bytes"
  <2>1. x = Labelled
    BY <1>4 DEF Json2, JsonOf, JsonScalar
  <2>2. Typed(x, Grain) = Labelled
    BY <2>1, LabelIsLabelled DEF Typed
  <2>3. Display2(param, v) = Labelled
    BY <1>4 DEF Display2
  <2>4. Refused2(param, Labelled)
    <3>1. Coerce2(param, Labelled) = Done(Value("str", Labelled.of))
      BY <1>4, LabelIsLabelled, CoercedText
    <3>2. ~Encode(param, Value("str", Labelled.of)).ok
      <4>1. Value("str", Labelled.of).type # "bytes"
        BY DEF Value
      <4>2. Encode(param, Value("str", Labelled.of)) = Rejected
        BY <1>4, <4>1 DEF Encode
      <4> QED
        BY <4>2 DEF Rejected
    <3> QED
      BY <3>1, <3>2, CoerceOfOther
  <2> QED
    BY <1>4, <2>1, <2>2, <2>3, <2>4 DEF SentBackWell, SentBack2
<1> QED
  BY <1>1, <1>2, <1>3, <1>4

\* What is decoded, by the type of the parameter.
LEMMA DecodedType ==
    ASSUME NEW param, IsParam2(param), NEW data, Decode(param, data).ok, NEW v, v = Decode(param, data).out
    PROVE  /\ param.in \in {"INT32_T", "UINT32_T"} => v.type \in {"int", "float"}
           /\ param.in = "STRING" => v.type = "str"
           /\ param.in = "STRUCT" => v.type = "map"
           /\ param.in \in {"VOID", "-"} => v = Value("none", 0)
           /\ param.in \in {"OTHER", "JUMBO"} => v.type = "bytes"
<1>1. param.out = param.in
  BY ParamTyped
<1>2. CASE param.in \in {"INT32_T", "UINT32_T"}
  <2>1. Decode(param, data) = Done(ScaleOut(param, Unpack(Word(param.out), data), param.unit))
    BY <1>1, <1>2 DEF Decode, Rejected
  <2> QED
    BY <1>2, <2>1 DEF Done, ScaleOut, Value
<1>3. CASE param.in = "STRING"
  BY <1>1, <1>3 DEF Decode, Done, Value
<1>4. CASE param.in = "STRUCT"
  <2> DEFINE d == DecodeAll(param, FieldsOf(param), data)
  <2>1. param.struct # {} /\ Decode(param, data) = Done(d)
    BY <1>4, StructCoded DEF Rejected
  <2>2. d.type = "map"
    BY <2>1, ParamTyped, AllParts
  <2> HIDE DEF d
  <2> QED
    BY <1>4, <2>1, <2>2 DEF Done
<1>5. CASE param.in \in {"VOID", "-"}
  <2>1. Decode(param, data) = Done(Value("none", 0))
    BY <1>1, <1>5 DEF Decode, Rejected
  <2> QED
    BY <1>5, <2>1 DEF Done
<1>6. CASE param.in \in {"OTHER", "JUMBO"}
  BY <1>1, <1>6 DEF Decode, Done, Value
<1> QED
  BY <1>2, <1>3, <1>4, <1>5, <1>6

\* What the console shows of a device that speaks DDM2 can be sent back: as JSON, as its
\* display text or typed, it is refused or writes what the device has, for whatever
\* bytes it sent.
LEMMA ConsoleValues2 == WellAsked => ConsoleWriteBack2
<1> SUFFICES ASSUME WellAsked, probe[1] = "bytes2" PROVE ConsoleWriteBack2
  BY DEF ConsoleWriteBack2
<1> DEFINE param == probe[2]
           data == probe[3]
           d == Decode(param, data)
           v == d.out
           Kept == /\ \A x \in SentBack2(param, v) :
                          SentTo(param, x).ok => Decode(param, SentTo(param, x).out) = d
                   /\ (v.type \in {"int", "float", "map"} /\ ~SentTo(param, Json2(v)).ok)
                          => Grown2(param, v)
<1>1. IsParam2(param) /\ data \in Seq(Octet)
  BY DEF WellAsked
<1>2. ConsoleWriteBack2 <=> (d.ok => Kept)
  BY DEF ConsoleWriteBack2, SentTo
<1> HIDE DEF param, data
<1>3. ASSUME d.ok PROVE Kept
  <2>1. param.in \in Types2
    BY <1>1, ParamTyped
  <2>2. CASE param.in \in {"JUMBO", "-"}
    <3>1. \A w : ~Encode(param, w).ok
      BY <2>2 DEF Encode, Rejected
    <3>2. \A x : ~SentTo(param, x).ok
      BY <3>1 DEF SentTo
    <3>3. v.type \notin {"int", "float", "map"}
      BY <1>1, <1>3, <2>2, DecodedType DEF Value
    <3> QED
      BY <3>2, <3>3
  <2>3. CASE param.in \notin {"JUMBO", "-"}
    <3>1. Alike2(v, v) /\ \A w : Alike2(v, w) => Encoded2(param, data, Encode(param, w))
      BY <1>1, <1>3, <2>3, Read2
    <3>2. SentBackWell(param, v)
      <4>1. CASE param.in \in {"INT32_T", "UINT32_T"}
        <5>1. v.type \in {"int", "float"}
          BY <1>1, <1>3, <4>1, DecodedType
        <5> HIDE DEF v
        <5> QED
          BY <4>1, <5>1, WordSentBack
      <4>2. CASE param.in \notin {"INT32_T", "UINT32_T"}
        <5>1. \/ param.in = "STRING" /\ v.type = "str"
              \/ param.in = "STRUCT" /\ v.type = "map"
              \/ param.in = "VOID" /\ v = Value("none", 0)
              \/ param.in = "OTHER" /\ v.type = "bytes"
          <6>1. param.in \in {"STRING", "STRUCT", "VOID", "OTHER"}
            BY <2>1, <2>3, <4>2 DEF Types2
          <6> HIDE DEF v
          <6> QED
            BY <1>1, <1>3, <6>1, DecodedType DEF v
        <5> HIDE DEF v
        <5> QED
          BY <3>1, <5>1, OtherSentBack
      <4> QED
        BY <4>1, <4>2
    <3> HIDE DEF v
    <3>3. ASSUME NEW x, Taken2(param, x, v)
          PROVE  /\ SentTo(param, x).ok => Decode(param, SentTo(param, x).out) = d
                 /\ ~SentTo(param, x).ok => Grown2(param, v)
      <4>1. PICK w : Alike2(v, w) /\ SentTo(param, x) = Encode(param, w)
        BY <3>3, TakenIsSent
      <4>2. Encoded2(param, data, Encode(param, w))
        BY <3>1, <4>1
      <4> QED
        BY <4>1, <4>2 DEF Encoded2, v
    <3>4. ASSUME NEW x, Refused2(param, x) PROVE ~SentTo(param, x).ok
      BY <3>4 DEF Refused2
    <3> HIDE DEF d
    <3> QED
      BY <3>2, <3>3, <3>4 DEF SentBackWell
  <2> QED
    BY <2>2, <2>3
<1> QED
  BY <1>2, <1>3

-----------------------------------------------------------------------------
(* The entities of a FreshJet.                                             *)

Scaled == {"ac.ttemp", "ac.itemp", "ac.pwr", "ac.curr"}
Counted == {"ac.fspd", "ac.operst", "ac.sleep", "ac.actext", "ac.on", "ac.md", "ac.lgt", "ac.dmr"}

\* What a user sets.
Settings == {"ac.ttemp", "ac.fspd", "ac.sleep"}

\* How the dictionary codes what the entities read.
LEMMA KindsOfUnit ==
    /\ DOMAIN Unit!Kind = Scaled \cup Counted \cup {"ac.status"}
    /\ \A p \in Scaled : \E in \in Types2, unit \in {"^C", "W", "A"} :
           Unit!Kind[p] = Unit!Number(in, "INT32_T", unit, 1000)
    /\ \A p \in Counted : \E in \in Types2, out \in {"INT32_T", "UINT32_T"},
                              unit \in {"enum", "bool", "bitfield", "%"} :
           Unit!Kind[p] = Unit!Number(in, out, unit, 1)
    /\ \A p \in Settings : Unit!Kind[p].in = "INT32_T" /\ Unit!Kind[p].out = "INT32_T"
    /\ Unit!Kind["ac.status"]
           = [Unit!Number("STRUCT", "STRUCT", "error", 1) EXCEPT !.struct = {Unit!ErrorList}]
    /\ Unit!Kind["ac.actext"].out = "UINT32_T"
<1>1. DOMAIN Unit!Kind = Scaled \cup Counted \cup {"ac.status"}
  BY DEF Unit!Kind, Scaled, Counted
<1>2. /\ Unit!Kind["ac.ttemp"] = Unit!Number("INT32_T", "INT32_T", "^C", 1000)
      /\ Unit!Kind["ac.itemp"] = Unit!Number("-", "INT32_T", "^C", 1000)
      /\ Unit!Kind["ac.pwr"] = Unit!Number("INT32_T", "INT32_T", "W", 1000)
      /\ Unit!Kind["ac.curr"] = Unit!Number("INT32_T", "INT32_T", "A", 1000)
  BY DEF Unit!Kind
<1>3. /\ Unit!Kind["ac.fspd"] = Unit!Number("INT32_T", "INT32_T", "enum", 1)
      /\ Unit!Kind["ac.operst"] = Unit!Number("-", "INT32_T", "enum", 1)
      /\ Unit!Kind["ac.sleep"] = Unit!Number("INT32_T", "INT32_T", "bool", 1)
      /\ Unit!Kind["ac.actext"] = Unit!Number("UINT32_T", "UINT32_T", "bitfield", 1)
      /\ Unit!Kind["ac.on"] = Unit!Number("INT32_T", "INT32_T", "bool", 1)
      /\ Unit!Kind["ac.lgt"] = Unit!Number("INT32_T", "INT32_T", "bool", 1)
      /\ Unit!Kind["ac.md"] = Unit!Number("INT32_T", "INT32_T", "enum", 1)
      /\ Unit!Kind["ac.dmr"] = Unit!Number("INT32_T", "INT32_T", "%", 1)
  BY DEF Unit!Kind
<1>4. Unit!Kind["ac.status"]
          = [Unit!Number("STRUCT", "STRUCT", "error", 1) EXCEPT !.struct = {Unit!ErrorList}]
  BY DEF Unit!Kind
<1>5. ASSUME NEW p \in Scaled
      PROVE  \E in \in Types2, unit \in {"^C", "W", "A"} :
                 Unit!Kind[p] = Unit!Number(in, "INT32_T", unit, 1000)
  BY <1>2 DEF Scaled, Types2
<1>6. ASSUME NEW p \in Counted
      PROVE  \E in \in Types2, out \in {"INT32_T", "UINT32_T"}, unit \in {"enum", "bool", "bitfield", "%"} :
                 Unit!Kind[p] = Unit!Number(in, out, unit, 1)
  BY <1>3 DEF Counted, Types2
<1>7. ASSUME NEW p \in Settings
      PROVE  Unit!Kind[p].in = "INT32_T" /\ Unit!Kind[p].out = "INT32_T"
  BY <1>2, <1>3 DEF Settings, Unit!Number
<1>8. Unit!Kind["ac.actext"].out = "UINT32_T"
  BY <1>3 DEF Unit!Number
<1> QED
  BY <1>1, <1>4, <1>5, <1>6, <1>7, <1>8

\* The units of a FreshJet's numbers are units.
LEMMA UnitsAreUnits ==
    ASSUME NEW unit \in {"^C", "W", "A"}
    PROVE  unit \notin Unitless
<1>1. /\ "^C" # "" /\ "^C" # "-" /\ "^C" # "bool" /\ "^C" # "enum" /\ "^C" # "bitfield"
      /\ "^C" # "error" /\ "^C" # "instance"
  BY Zenon
<1>2. /\ "W" # "" /\ "W" # "-" /\ "W" # "bool" /\ "W" # "enum" /\ "W" # "bitfield"
      /\ "W" # "error" /\ "W" # "instance"
  BY Zenon
<1>3. /\ "A" # "" /\ "A" # "-" /\ "A" # "bool" /\ "A" # "enum" /\ "A" # "bitfield"
      /\ "A" # "error" /\ "A" # "instance"
  BY Zenon
<1>4. unit = "^C" \/ unit = "W" \/ unit = "A"
  BY Zenon
<1>5. CASE unit = "^C"
  BY <1>1, <1>5, Zenon DEF Unitless
<1>6. CASE unit = "W"
  BY <1>2, <1>6, Zenon DEF Unitless
<1>7. CASE unit = "A"
  BY <1>3, <1>7, Zenon DEF Unitless
<1> QED
  BY <1>4, <1>5, <1>6, <1>7

\* A number of them is a word, in thousandths or as it is.
LEMMA WordsOfUnit ==
    ASSUME NEW p \in Scaled \cup Counted
    PROVE  LET param == Unit!Kind[p]
           IN  /\ p \in DOMAIN Unit!Kind
               /\ param.out \in {"INT32_T", "UINT32_T"} /\ IsScale(param)
               /\ p \in Settings => param.in = "INT32_T" /\ param.out = "INT32_T"
               /\ p \in Scaled => Scales(param, param.unit) /\ Step(param) = Grain \div 1000
               /\ p \in Counted => ~Scales(param, param.unit)
<1> DEFINE param == Unit!Kind[p]
           Goal == /\ p \in DOMAIN Unit!Kind
                   /\ param.out \in {"INT32_T", "UINT32_T"} /\ IsScale(param)
                   /\ p \in Settings => param.in = "INT32_T" /\ param.out = "INT32_T"
                   /\ p \in Scaled => Scales(param, param.unit) /\ Step(param) = Grain \div 1000
                   /\ p \in Counted => ~Scales(param, param.unit)
<1> SUFFICES Goal
  OBVIOUS
<1>1. /\ p \in DOMAIN Unit!Kind
      /\ p \in Settings => param.in = "INT32_T" /\ param.out = "INT32_T"
  BY KindsOfUnit
<1>2. CASE p \in Scaled
  <2>1. PICK in \in Types2, unit \in {"^C", "W", "A"} :
            param = Unit!Number(in, "INT32_T", unit, 1000)
    BY <1>2, KindsOfUnit
  <2> HIDE DEF param
  <2>2. param.out = "INT32_T" /\ param.factor = 1000 /\ param.unit \in {"^C", "W", "A"}
    BY <2>1 DEF Unit!Number
  <2>3. p \notin Counted
    BY <1>2 DEF Scaled, Counted
  <2>4. Scales(param, param.unit)
    BY <2>2, UnitsAreUnits DEF Scales
  <2>5. IsScale(param) /\ Step(param) = Grain \div 1000
    BY <2>2, GrainAssumption, SMT DEF IsScale, Step
  <2> QED
    BY <1>1, <2>2, <2>3, <2>4, <2>5
<1>3. CASE p \in Counted
  <2>1. PICK in \in Types2, out \in {"INT32_T", "UINT32_T"}, unit \in {"enum", "bool", "bitfield", "%"} :
            param = Unit!Number(in, out, unit, 1)
    BY <1>3, KindsOfUnit
  <2> HIDE DEF param
  <2>2. param.out \in {"INT32_T", "UINT32_T"} /\ param.factor = 1
    BY <2>1 DEF Unit!Number
  <2>3. p \notin Scaled
    BY <1>3 DEF Scaled, Counted
  <2>4. ~Scales(param, param.unit)
    BY <2>2 DEF Scales
  <2>5. IsScale(param)
    BY <2>2, GrainAssumption, SMT DEF IsScale
  <2> QED
    BY <1>1, <2>2, <2>3, <2>4, <2>5
<1> HIDE DEF Goal
<1> QED
  BY <1>2, <1>3

\* A word has every number of thousandths a FreshJet can be set to.
LEMMA SmallWord ==
    ASSUME NEW n \in Int, 0 <= n, n <= 31000
    PROVE  IsFormat(Word("INT32_T")) /\ Representable(Word("INT32_T"), n)
<1> DEFINE fmt == Word("INT32_T")
<1>1. IsFormat(fmt) /\ fmt.size = WordBytes
  BY WordFormats
<1>2. fmt.signed = TRUE
  BY DEF Word, Formats
<1>3. Capacity(fmt) \div 2 >= 32768
  <2>1. WordBytes = 2 \/ WordBytes = 3 \/ WordBytes = 4
    BY WordBytesAssumption
  <2> QED
    BY <1>1, <2>1, Places, SMT DEF Capacity
<1>4. Capacity(fmt) \div 2 \in Nat
  BY <1>1, Capacities
<1> HIDE DEF fmt
<1>5. Representable(fmt, n)
  BY <1>2, <1>3, <1>4, SMT DEF Representable
<1> QED
  BY <1>1, <1>5 DEF fmt

\* A number that is set is encoded, and shown as the bytes have it.
LEMMA WordKept ==
    ASSUME NEW param, param.in = "INT32_T", param.out = "INT32_T",
           NEW n \in Int, 0 <= n, n <= 31000,
           NEW v, ScaleIn(param, v, param.unit) = Done(n)
    PROVE  /\ Encode(param, v).ok
           /\ Decode(param, Encode(param, v).out).out = ScaleOut(param, n, param.unit)
<1> DEFINE fmt == Word("INT32_T")
           b == Packed(fmt.size, n)
<1>1. IsFormat(fmt) /\ Representable(fmt, n) /\ fmt.size = WordBytes
  BY SmallWord, WordFormats
<1>2. Encode(param, v) = PackValue(param, fmt, v, param.unit)
  BY DEF Encode
<1> HIDE DEF fmt
<1>3. Pack(fmt, n) = Done(b) /\ Len(b) = fmt.size /\ Unpack(fmt, b) = n
  BY <1>1, PackUnpack
<1> HIDE DEF b
<1>4. PackValue(param, fmt, v, param.unit) = Done(b)
  BY <1>3 DEF PackValue, Done
<1>5. Encode(param, v).ok /\ Encode(param, v).out = b
  BY <1>2, <1>4 DEF Done
<1>6. Decode(param, b) = Done(ScaleOut(param, n, param.unit))
  BY <1>1, <1>3 DEF Decode, fmt
<1>7. Decode(param, b).out = ScaleOut(param, n, param.unit)
  BY <1>6 DEF Done
<1> QED
  BY <1>5, <1>7

\* Rounding leaves no range whose ends are multiples.
LEMMA RoundedBetween ==
    ASSUME NEW d \in Nat \ {0}, NEW a \in Int, NEW b \in Int, NEW n \in Int, a * d <= n, n <= b * d
    PROVE  a <= Rounded(n, d) /\ Rounded(n, d) <= b
<1> DEFINE r == Rounded(n, d)
<1>1. r \in Int /\ Within(2 * n, 2 * (r * d), d)
  BY RoundedNear
<1> HIDE DEF r
<1> DEFINE x == r * d
<1>2. x \in Int /\ a * d \in Int /\ b * d \in Int
  BY <1>1
<1>3. 2 * n - 2 * x <= d /\ 2 * x - 2 * n <= d
  BY <1>1 DEF Within
<1>4. ASSUME r < a PROVE FALSE
  <2>1. a - r >= 1 /\ (a - r) * d = a * d - x
    BY <1>1, <1>4
  <2>2. (a - r) * d >= d
    BY <1>1, <2>1
  <2> HIDE DEF x
  <2> QED
    BY <1>2, <1>3, <2>1, <2>2
<1>5. ASSUME r > b PROVE FALSE
  <2>1. r - b >= 1 /\ (r - b) * d = x - b * d
    BY <1>1, <1>5
  <2>2. (r - b) * d >= d
    BY <1>1, <2>1
  <2> HIDE DEF x
  <2> QED
    BY <1>2, <1>3, <2>1, <2>2
<1>6. a <= r /\ r <= b
  BY <1>1, <1>4, <1>5
<1> QED
  BY <1>6 DEF r

\* A grain is a thousand steps of a thousandth.
LEMMA Thousandths ==
    /\ Grain \div 1000 \in Nat \ {0} /\ Grain = 1000 * (Grain \div 1000)
    /\ Unit!FJZ7_MIN_TEMP_C = 16000 * (Grain \div 1000)
    /\ Unit!FJZ7_MAX_TEMP_C = 31000 * (Grain \div 1000)
  BY GrainAssumption, SMT DEF Unit!FJZ7_MIN_TEMP_C, Unit!FJZ7_MAX_TEMP_C

\* The temperature that is set.
LEMMA TemperatureKept ==
    ASSUME NEW t \in Int, Unit!FJZ7_MIN_TEMP_C <= t, t <= Unit!FJZ7_MAX_TEMP_C
    PROVE  LET param == Unit!Kind["ac.ttemp"]
               e == Encode(param, Unit!Value("float", t))
               v == Decode(param, e.out).out
           IN  /\ e.ok /\ v.type = "float"
               /\ Within(2 * v.of, 2 * t, Grain \div 1000)
               /\ Unit!FJZ7_MIN_TEMP_C <= v.of /\ v.of <= Unit!FJZ7_MAX_TEMP_C
<1> DEFINE param == Unit!Kind["ac.ttemp"]
           step == Grain \div 1000
           asked == Unit!Value("float", t)
           n == Rounded(t, step)
           e == Encode(param, asked)
           v == Decode(param, e.out).out
<1>1. "ac.ttemp" \in Scaled \cap Settings
  BY DEF Scaled, Settings
<1>2. /\ param.in = "INT32_T" /\ param.out = "INT32_T"
      /\ Scales(param, param.unit) /\ Step(param) = step
  BY <1>1, WordsOfUnit
<1>3. step \in Nat \ {0} /\ Grain = 1000 * step /\ Unit!FJZ7_MIN_TEMP_C = 16000 * step
      /\ Unit!FJZ7_MAX_TEMP_C = 31000 * step
  BY Thousandths
<1>4. asked.type = "float" /\ asked.of = t
  BY DEF Unit!Value
<1> HIDE DEF param, step, asked
<1>5. ScaleIn(param, asked, param.unit) = Done(n)
  BY <1>2, <1>4 DEF ScaleIn
<1>6. n \in Int /\ 16000 <= n /\ n <= 31000 /\ Within(2 * t, 2 * (n * step), step)
  <2>1. n \in Int /\ Within(2 * t, 2 * (n * step), step)
    BY <1>3, RoundedNear
  <2>2. 16000 * step <= t /\ t <= 31000 * step
    BY <1>3
  <2>3. 16000 <= n /\ n <= 31000
    BY <1>3, <2>2, RoundedBetween
  <2> QED
    BY <2>1, <2>3
<1> HIDE DEF n
<1>7. e.ok /\ v = ScaleOut(param, n, param.unit)
  <2>1. 0 <= n
    BY <1>6
  <2> QED
    BY <1>2, <1>5, <1>6, <2>1, WordKept
<1>8. v = Value("float", n * step)
  BY <1>2, <1>7 DEF ScaleOut
<1>9. v.type = "float" /\ v.of = n * step
  BY <1>8 DEF Value
<1> HIDE DEF e, v
<1>10. n * step \in Int /\ 16000 * step <= n * step /\ n * step <= 31000 * step
  BY <1>3, <1>6
<1>11. Within(2 * v.of, 2 * t, step)
  BY <1>6, <1>9 DEF Within
<1> QED
  BY <1>3, <1>7, <1>9, <1>10, <1>11 DEF e, v, param, asked, step

\* A whole number that is set.
LEMMA CountKept ==
    ASSUME NEW p \in Counted \cap Settings, NEW n \in 0 .. 5
    PROVE  LET param == Unit!Kind[p]
               e == Encode(param, Unit!Value("int", Grain * n))
               v == Decode(param, e.out).out
           IN  e.ok /\ v.type = "int" /\ v.of = Grain * n
<1> DEFINE param == Unit!Kind[p]
           asked == Unit!Value("int", Grain * n)
           e == Encode(param, asked)
           v == Decode(param, e.out).out
<1>1. /\ param.in = "INT32_T" /\ param.out = "INT32_T"
      /\ ~Scales(param, param.unit)
  BY WordsOfUnit
<1>2. asked.type = "int" /\ asked.of = n * Grain
  BY GrainAssumption DEF Unit!Value
<1>3. (n * Grain) % Grain = 0 /\ (n * Grain) \div Grain = n
  BY GrainAssumption, Multiple
<1> HIDE DEF param, asked
<1>4. ScaleIn(param, asked, param.unit) = Done(n)
  <2>1. ScaleIn(param, asked, param.unit)
            = IF asked.of % Grain = 0 THEN Done(asked.of \div Grain) ELSE Rejected
    BY <1>1, <1>2 DEF ScaleIn
  <2> QED
    BY <1>2, <1>3, <2>1
<1>5. e.ok /\ v = ScaleOut(param, n, param.unit)
  <2>1. n \in Int /\ 0 <= n /\ n <= 31000
    OBVIOUS
  <2> QED
    BY <1>1, <1>4, <2>1, WordKept
<1>6. v = Value("int", n * Grain)
  BY <1>1, <1>5 DEF ScaleOut
<1>7. v.type = "int" /\ v.of = n * Grain
  BY <1>6 DEF Value
<1>8. n * Grain = Grain * n
  BY GrainAssumption
<1> HIDE DEF e, v
<1> QED
  BY <1>5, <1>7, <1>8 DEF e, v, param, asked

\* What a user sets of a FreshJet comes back as set, whatever the width of a word.
LEMMA UnitSettings == WellAsked => UnitObeys
<1> SUFFICES ASSUME WellAsked, probe[1] = "unit" PROVE UnitObeys
  BY DEF UnitObeys
<1> DEFINE what == probe[2]
           x == probe[3]
           w == CASE what = "temperature" -> Unit!SetTemperature(x)
                  [] what = "fan" -> Unit!SetFanMode(x)
                  [] what = "sleep" -> Unit!TurnSleep(x)
           e == Encode(Unit!Kind[w.p], w.value)
           shown == [p \in {w.p} |-> Decode(Unit!Kind[p], e.out).out]
           Goal == /\ e.ok
                   /\ CASE what = "temperature" ->
                             /\ Within(2 * Unit!TargetTemperature(shown).of, 2 * x, Grain \div 1000)
                             /\ Unit!TargetTemperature(shown).of >= Unit!FJZ7_MIN_TEMP_C
                             /\ Unit!TargetTemperature(shown).of <= Unit!FJZ7_MAX_TEMP_C
                        [] what = "fan" -> Unit!FanMode(shown) = {x}
                        [] what = "sleep" -> Unit!SleepIsOn(shown) = x
<1> SUFFICES Goal
  BY DEF UnitObeys
<1>1. SettableOfUnit(what, x)
  BY DEF WellAsked
<1> HIDE DEF what, x
<1>2. CASE what = "temperature"
  <2>1. x \in Int /\ Unit!FJZ7_MIN_TEMP_C <= x /\ x <= Unit!FJZ7_MAX_TEMP_C
    BY <1>1, <1>2 DEF SettableOfUnit
  <2>2. w.p = "ac.ttemp" /\ w.value = Unit!Value("float", x)
    BY <1>2 DEF Unit!SetTemperature, Unit!Writes
  <2> DEFINE v == Decode(Unit!Kind["ac.ttemp"], e.out).out
  <2> HIDE DEF w
  <2>3. /\ e.ok /\ v.type = "float"
        /\ Within(2 * v.of, 2 * x, Grain \div 1000)
        /\ Unit!FJZ7_MIN_TEMP_C <= v.of /\ v.of <= Unit!FJZ7_MAX_TEMP_C
    BY <2>1, <2>2, TemperatureKept
  <2>4. shown["ac.ttemp"] = v
    BY <2>2
  <2> HIDE DEF shown, v, e
  <2>5. Unit!TargetTemperature(shown).of = v.of
    <3>1. Unit!TargetTemperature(shown) = Unit!Value("float", v.of)
      BY <2>3, <2>4 DEF Unit!TargetTemperature, Unit!AsFloat
    <3> QED
      BY <3>1 DEF Unit!Value
  <2>6. Unit!TargetTemperature(shown).of >= Unit!FJZ7_MIN_TEMP_C
    BY <2>3, <2>5
  <2> QED
    BY <1>2, <2>3, <2>5, <2>6
<1>3. CASE what = "fan"
  <2>1. x \in 0 .. 5 /\ "ac.fspd" \in Counted \cap Settings
    BY <1>1, <1>3 DEF SettableOfUnit, Unit!AC_FAN_SPEEDS, Counted, Settings
  <2>2. w.p = "ac.fspd" /\ w.value = Unit!Value("int", Grain * x)
    BY <1>3 DEF Unit!SetFanMode, Unit!Writes
  <2> DEFINE v == Decode(Unit!Kind["ac.fspd"], e.out).out
  <2> HIDE DEF w
  <2>3. e.ok /\ v.type = "int" /\ v.of = Grain * x
    BY <2>1, <2>2, CountKept
  <2>4. shown["ac.fspd"] = v
    BY <2>2
  <2> HIDE DEF shown, v, e
  <2>5. Unit!AsInt(v) = x
    <3>1. v.of \div Grain = x
      <4>1. v.of = x * Grain
        BY <2>1, <2>3, GrainAssumption
      <4> QED
        BY <2>1, <4>1, GrainAssumption, Multiple
    <3> QED
      BY <2>3, <3>1 DEF Unit!AsInt
  <2>6. Unit!FanMode(shown) = {x}
    BY <2>1, <2>4, <2>5 DEF Unit!FanMode, Unit!AC_FAN_SPEEDS
  <2> QED
    BY <1>3, <2>3, <2>6
<1>4. CASE what = "sleep"
  <2> DEFINE n == IF x = "on" THEN 1 ELSE 0
  <2>1. x \in {"on", "off"} /\ "ac.sleep" \in Counted \cap Settings
    BY <1>1, <1>4 DEF SettableOfUnit, Counted, Settings
  <2>2. w.p = "ac.sleep" /\ w.value = Unit!Value("int", Grain * n)
    <3>1. w.p = "ac.sleep" /\ w.value = Unit!Value("int", IF x = "on" THEN Grain ELSE 0)
      BY <1>4 DEF Unit!TurnSleep, Unit!Writes
    <3>2. (IF x = "on" THEN Grain ELSE 0) = Grain * n
      BY GrainAssumption
    <3> HIDE DEF w, n
    <3> QED
      BY <3>1, <3>2
  <2> DEFINE v == Decode(Unit!Kind["ac.sleep"], e.out).out
  <2>3. n \in 0 .. 5
    OBVIOUS
  <2>4. n # 0 <=> x = "on"
    OBVIOUS
  <2> HIDE DEF w, n
  <2>5. e.ok /\ v.type = "int" /\ v.of = Grain * n
    BY <2>1, <2>2, <2>3, CountKept
  <2>6. shown["ac.sleep"] = v
    BY <2>2
  <2> HIDE DEF shown, v, e
  <2>7. v.of # 0 <=> x = "on"
    BY <2>3, <2>4, <2>5, GrainAssumption
  <2>8. Unit!SleepIsOn(shown) = Unit!OnOff(v.of # 0)
    BY <2>5, <2>6 DEF Unit!SleepIsOn, Unit!AsBool
  <2>9. Unit!SleepIsOn(shown) = x
    BY <2>1, <2>7, <2>8 DEF Unit!OnOff
  <2> QED
    BY <1>4, <2>5, <2>9
<1>5. what = "temperature" \/ what = "fan" \/ what = "sleep"
  BY <1>1 DEF SettableOfUnit
<1> HIDE DEF Goal
<1> QED
  BY <1>2, <1>3, <1>4, <1>5

\* The parameters of a FreshJet's entities are all subscribed to.
LEMMA AllOfUnitSubscribed ==
    ASSUME NEW p \in DOMAIN Unit!Kind
    PROVE  \E i \in DOMAIN FreshJet!FJZ7_SUBSCRIPTIONS : FreshJet!FJZ7_SUBSCRIPTIONS[i] = p
<1> DEFINE s == FreshJet!FJZ7_SUBSCRIPTIONS
<1>1. /\ s[9] = "ac.operst" /\ s[10] = "ac.ttemp" /\ s[11] = "ac.itemp" /\ s[12] = "ac.fspd"
      /\ s[17] = "ac.sleep" /\ s[18] = "ac.pwr" /\ s[19] = "ac.curr" /\ s[21] = "ac.status"
      /\ s[22] = "ac.actext" /\ s[7] = "ac.on" /\ s[8] = "ac.md" /\ s[15] = "ac.lgt"
      /\ s[16] = "ac.dmr"
  BY DEF FreshJet!FJZ7_SUBSCRIPTIONS
<1>2. \A i \in {7, 8, 9, 10, 11, 12, 15, 16, 17, 18, 19, 21, 22} : i \in DOMAIN s
  BY DEF FreshJet!FJZ7_SUBSCRIPTIONS
<1>3. p \in {"ac.operst", "ac.ttemp", "ac.itemp", "ac.fspd", "ac.sleep", "ac.pwr", "ac.curr",
             "ac.status", "ac.actext", "ac.on", "ac.md", "ac.lgt", "ac.dmr"}
  BY KindsOfUnit DEF Scaled, Counted
<1> HIDE DEF s
<1>4. \E i \in {7, 8, 9, 10, 11, 12, 15, 16, 17, 18, 19, 21, 22} : s[i] = p
  BY <1>1, <1>3
<1> QED
  BY <1>2, <1>4 DEF s

\* No bytes are the silence of a parameter.
LEMMA BytesAreNoSilence ==
    ASSUME NEW data \in Seq(Octet)
    PROVE  data # Silence
<1> SUFFICES ASSUME data = Silence PROVE FALSE
  OBVIOUS
<1>1. Len(data) = 1 /\ data[1] = -1
  BY DEF Silence
<1>2. data[1] \in Octet
  BY <1>1
<1> QED
  BY <1>1, <1>2 DEF Octet

\* A number that was published is a value, and an int where it is not scaled.
LEMMA WordShown ==
    ASSUME NEW raw, IsUnitReading(raw), NEW p \in Scaled \cup Counted, raw[p] # Silence
    PROVE  LET v == Received2(raw)[p]
           IN  /\ v.type \in {"int", "float"} /\ v.of \in Int
               /\ p \in Counted => v.type = "int" /\ Unit!AsInt(v) \in Int
               /\ p = "ac.actext" => Unit!AsInt(v) >= 0
<1> DEFINE param == Unit!Kind[p]
           n == Unpack(Word(param.out), raw[p])
           v == Received2(raw)[p]
<1>1. /\ p \in DOMAIN Unit!Kind /\ param.out \in {"INT32_T", "UINT32_T"} /\ IsScale(param)
      /\ p \in Counted => ~Scales(param, param.unit)
  BY WordsOfUnit
<1>2. p # "ac.status"
  BY DEF Scaled, Counted
<1>3. raw[p] \in Seq(Octet) /\ Len(raw[p]) = WordBytes
  BY <1>1, <1>2 DEF IsUnitReading
<1>4. v = Decode(param, raw[p]).out
  BY <1>1, AllOfUnitSubscribed DEF Received2
<1> HIDE DEF param, v
<1>5. Decode(param, raw[p]) = Done(ScaleOut(param, n, param.unit))
  BY <1>1, <1>3 DEF Decode
<1>6. v = ScaleOut(param, n, param.unit)
  BY <1>4, <1>5 DEF Done
<1>7. v.type \in {"int", "float"} /\ IsLeaf(v)
  BY <1>1, <1>3, <1>6, WordFormats, ScalarRead
<1>8. p \in Counted => v.type = "int"
  BY <1>1, <1>6 DEF ScaleOut, Value
<1>9. v.of \in Int
  BY <1>7 DEF IsLeaf
<1>10. n \in Int /\ Representable(Word(param.out), n)
  BY <1>3, WordFormats, UnpackPack
<1>11. p = "ac.actext" => n >= 0
  <2>1. p = "ac.actext" => param.out = "UINT32_T"
    BY KindsOfUnit DEF param
  <2>2. ~Word("UINT32_T").signed
    BY DEF Word, Formats
  <2> QED
    BY <1>10, <2>1, <2>2 DEF Representable
<1> HIDE DEF n
<1>12. p \in Counted => v.of = n * Grain
  BY <1>1, <1>6 DEF ScaleOut, Value
<1>13. p \in Counted => Unit!AsInt(v) = n
  <2>1. v.of = n * Grain => v.of \div Grain = n
    BY <1>10, GrainAssumption, Multiple
  <2> QED
    BY <1>8, <1>12, <2>1 DEF Unit!AsInt
<1>14. "ac.actext" \in Counted
  BY DEF Counted
<1> QED
  BY <1>7, <1>8, <1>9, <1>10, <1>11, <1>13, <1>14 DEF v

\* A list of errors that was published is one, whatever its length.
LEMMA ErrorsShown ==
    ASSUME NEW raw, IsUnitReading(raw)
    PROVE  Received2(raw)["ac.status"].type = "map"
<1> DEFINE p == "ac.status"
           param == Unit!Kind[p]
           fields == Unit!ErrorList
           data == raw[p]
           sizes == [i \in DOMAIN fields |-> ElementSize(fields[i]) * fields[i].count]
<1>1. p \in DOMAIN Unit!Kind
  BY KindsOfUnit
<1>2. data \in Seq(Octet) /\ Len(data) % 2 = 0
  BY <1>1 DEF IsUnitReading
<1>3. Received2(raw)[p] = Decode(param, data).out
  BY <1>1, <1>2, AllOfUnitSubscribed, BytesAreNoSilence DEF Received2
<1>4. param.out = "STRUCT" /\ param.struct = {fields}
  BY KindsOfUnit DEF Unit!Number
<1>5. Len(fields) = 1 /\ DOMAIN fields = 1 .. 1 /\ fields[1].kind = "x16" /\ fields[1].count = 0
  BY DEF Unit!ErrorList
<1>6. ElementSize(fields[1]) = 2
  BY <1>5 DEF ElementSize, PlainSize, Formats
<1> HIDE DEF fields, param, data
<1>7. sizes \in Seq(Nat) /\ Len(sizes) = 1 /\ sizes[1] = 0
  <2>1. sizes = [i \in 1 .. 1 |-> 0]
    BY <1>5, <1>6
  <2>2. \A i \in 1 .. 1 : 0 \in Nat
    OBVIOUS
  <2> HIDE DEF sizes
  <2>3. sizes \in [1 .. 1 -> Nat]
    BY <2>1, <2>2
  <2>4. sizes \in Seq(Nat) /\ Len(sizes) = 1
    BY <2>3, FunctionIsSequence
  <2> QED
    BY <2>1, <2>4
<1>8. FieldEnds(ElementSize, fields) = Ends(sizes)
  BY DEF FieldEnds
<1>9. Ends(sizes)[1] = 0
  <2>1. 1 \in 1 .. Len(sizes) /\ 1 - 1 = 0
    BY <1>7
  <2> HIDE DEF sizes
  <2>2. Ends(sizes)[1] = Ends(sizes)[1 - 1] + sizes[1] /\ Ends(sizes)[0] = 0
    BY <1>7, <2>1, EndsSpec
  <2> QED
    BY <1>7, <2>1, <2>2
<1> HIDE DEF sizes
<1>10. Exact(ElementSize, fields, data)
  <2>1. Len(data) \in Nat
    BY <1>2
  <2> QED
    BY <1>2, <1>5, <1>6, <1>8, <1>9, <2>1 DEF Exact
<1>11. (CHOOSE s \in param.struct : TRUE) = fields
  BY <1>4
<1>12. Decode(param, data) = Done(DecodeAll(param, fields, data))
  <2>1. Decode(param, data) = DecodeStruct(param, fields, data)
    BY <1>4, <1>11 DEF Decode
  <2>2. DecodeStruct(param, fields, data)
            = IF Exact(ElementSize, fields, data) THEN Done(DecodeAll(param, fields, data)) ELSE Rejected
    BY DEF DecodeStruct, DecodeAll
  <2> QED
    BY <1>10, <2>1, <2>2
<1>13. DecodeAll(param, fields, data).type = "map"
  BY DEF DecodeAll, DecodeFields, Value
<1> QED
  BY <1>3, <1>12, <1>13 DEF Done

\* A number that was published is shown.
LEMMA NumberIsShown ==
    ASSUME NEW v, v.type \in {"int", "float"}
    PROVE  Unit!AsFloat(v) # Unit!Unknown
<1>1. Unit!AsFloat(v) = Unit!Value("float", v.of)
  BY DEF Unit!AsFloat
<1>2. Unit!Value("float", v.of).type = "float" /\ Unit!Unknown.type = "none"
  BY DEF Unit!Value, Unit!Unknown
<1>3. "float" # "none"
  OBVIOUS
<1> QED
  BY <1>1, <1>2, <1>3

\* What the climate and the light read of it: a switch is on or off, and numbers.
LEMMA ClimateReads ==
    ASSUME NEW raw, IsUnitReading(raw)
    PROVE  LET d == Received2(raw)
               c == ClimateData(d)
           IN  /\ \A p \in {"ac.on", "ac.lgt"} :
                      /\ Unit!AsBool(d[p]) \in {"on", "off"}
                      /\ c[p] = IF Unit!AsBool(d[p]) = "on" THEN 1 ELSE 0
               /\ \A p \in {"ac.md", "ac.operst", "ac.actext"} : c[p] = Unit!AsInt(d[p])
               /\ c["ac.actext"] >= 0 /\ c["ac.actext"] \in Int
               /\ c["ac.dmr"] \in Nat
<1> DEFINE d == Received2(raw)
           c == ClimateData(d)
<1>1. ASSUME NEW p \in Counted \ {"ac.operst"}
      PROVE  /\ d[p].type = "int" /\ Unit!AsInt(d[p]) \in Int
             /\ p = "ac.actext" => Unit!AsInt(d[p]) >= 0
  <2>1. p \in DOMAIN Unit!Kind /\ p # "ac.status"
    BY WordsOfUnit DEF Counted
  <2>2. raw[p] # Silence
    BY <2>1, BytesAreNoSilence DEF IsUnitReading
  <2> QED
    BY <2>2, WordShown
<1> HIDE DEF d
<1>2. ASSUME NEW p \in {"ac.on", "ac.lgt"}
      PROVE  /\ Unit!AsBool(d[p]) \in {"on", "off"}
             /\ c[p] = IF Unit!AsBool(d[p]) = "on" THEN 1 ELSE 0
  <2>1. d[p].type = "int"
    BY <1>1 DEF Counted
  <2>2. Unit!AsBool(d[p]) = Unit!OnOff(d[p].of # 0)
    BY <2>1 DEF Unit!AsBool
  <2>3. Unit!AsBool(d[p]) = "on" \/ Unit!AsBool(d[p]) = "off"
    BY <2>2 DEF Unit!OnOff
  <2> QED
    BY <2>3 DEF ClimateData
<1>3. \A p \in {"ac.md", "ac.operst", "ac.actext"} : c[p] = Unit!AsInt(d[p])
  BY DEF ClimateData
<1>4. c["ac.actext"] >= 0 /\ c["ac.actext"] \in Int
  BY <1>1, <1>3 DEF Counted
<1>5. c["ac.dmr"] \in Nat
  <2>1. d["ac.dmr"].type = "int" /\ Unit!AsInt(d["ac.dmr"]) \in Int
    BY <1>1 DEF Counted
  <2>2. c["ac.dmr"] = IF Unit!AsInt(d["ac.dmr"]) < 0 THEN 0 ELSE Unit!AsInt(d["ac.dmr"])
    BY <2>1 DEF ClimateData
  <2> QED
    BY <2>1, <2>2
<1> QED
  BY <1>2, <1>3, <1>4, <1>5 DEF d

\* What the climate shows of it: a mode or none, and always an action.
LEMMA ClimateShows ==
    ASSUME NEW on \in {0, 1}, NEW c, c["ac.on"] = on, c["ac.actext"] \in Int, c["ac.actext"] >= 0
    PROVE  LET mode == FreshJet!AcHvacMode(c)
               action == FreshJet!AcHvacAction(c)
           IN  /\ mode = "unknown" <=> (on = 1 /\ c["ac.md"] \notin FreshJet!AcModes)
               /\ action # "unknown"
               /\ mode = "off" <=> on = 0
               /\ action = "off" <=> on = 0
<1> DEFINE mode == FreshJet!AcHvacMode(c)
           action == FreshJet!AcHvacAction(c)
           offered == FreshJet!HvacOfMode[c["ac.md"] + 1]
           listed == FreshJet!ActionOfOperst[c["ac.operst"] + 1]
<1>1. on = 0 => mode = "off" /\ action = "off"
  BY DEF FreshJet!AcHvacMode, FreshJet!AcHvacAction, FreshJet!Unknown
<1>2. c["ac.md"] \in FreshJet!AcModes => offered \in {"cool", "heat", "fan_only", "auto", "dry"}
  BY DEF FreshJet!AcModes, FreshJet!HvacOfMode
<1>3. on = 1 => mode = IF c["ac.md"] \in FreshJet!AcModes THEN offered ELSE "unknown"
  BY DEF FreshJet!AcHvacMode
<1>4. c["ac.operst"] \in 0 .. 2 => listed \in {"fan", "cooling", "heating"}
  BY DEF FreshJet!ActionOfOperst
<1>5. FreshJet!ActiveComponents(c) \in {"heating", "cooling", "fan", "idle"}
  BY DEF FreshJet!ActiveComponents, FreshJet!Unknown
<1>6. on = 1 => action = IF c["ac.operst"] \in 0 .. 2 THEN listed ELSE FreshJet!ActiveComponents(c)
  BY DEF FreshJet!AcHvacAction, FreshJet!Unknown
<1> HIDE DEF mode, action, offered, listed
<1>7. on = 1 => action \in {"fan", "cooling", "heating", "idle"}
  BY <1>4, <1>5, <1>6
<1>8. CASE on = 0
  BY <1>1, <1>8 DEF mode, action
<1>9. CASE on = 1
  BY <1>2, <1>3, <1>7, <1>9 DEF mode, action
<1> QED
  BY <1>8, <1>9

\* Once a FreshJet has published, every entity shows something, whatever it published,
\* but for a mode and a speed that are not offered.
LEMMA ReadingIsTold ==
    ASSUME NEW raw, IsUnitReading(raw)
    PROVE  LET d == Received2(raw)
               c == ClimateData(d)
           IN  /\ FreshJet!AcHvacMode(c) = "unknown" <=>
                      (Unit!AsBool(d["ac.on"]) = "on" /\ Unit!AsInt(d["ac.md"]) \notin FreshJet!AcModes)
               /\ FreshJet!AcHvacAction(c) # "unknown"
               /\ Unit!FanMode(d) = {} <=> Unit!AsInt(d["ac.fspd"]) \notin Unit!AC_FAN_SPEEDS
               /\ FreshJet!LightIsOn(c) # "unknown"
               /\ FreshJet!LightBrightness(c) \in 1 .. 255
               /\ Unit!CurrentTemperature(d) # Unit!Unknown
               /\ Unit!TargetTemperature(d) # Unit!Unknown
               /\ \A p \in {"ac.pwr", "ac.curr"} : Unit!NativeValue(d, p) # Unit!Unknown
               /\ Unit!CompressorOn(d) # "unknown" /\ Unit!HasErrors(d) # "unknown"
               /\ Unit!SleepIsOn(d) # "unknown"
<1> DEFINE d == Received2(raw)
           c == ClimateData(d)
<1>2. ASSUME NEW p \in (Scaled \cup Counted) \ {"ac.operst"}
      PROVE  /\ d[p].type \in {"int", "float"}
             /\ p \in Counted => d[p].type = "int"
  <2>1. p \in DOMAIN Unit!Kind
    BY WordsOfUnit
  <2>2. raw[p] \in Seq(Octet)
    BY <2>1 DEF IsUnitReading
  <2>3. raw[p] # Silence
    BY <2>2, BytesAreNoSilence
  <2> QED
    BY <2>3, WordShown
<1>3. d["ac.status"].type = "map"
  BY ErrorsShown
<1>a. /\ \A p \in {"ac.on", "ac.lgt"} :
             /\ Unit!AsBool(d[p]) \in {"on", "off"}
             /\ c[p] = IF Unit!AsBool(d[p]) = "on" THEN 1 ELSE 0
      /\ c["ac.md"] = Unit!AsInt(d["ac.md"])
      /\ c["ac.actext"] >= 0 /\ c["ac.actext"] \in Int
      /\ c["ac.dmr"] \in Nat
  BY ClimateReads
<1> HIDE DEF d, c
<1>b. /\ FreshJet!AcHvacMode(c) = "unknown" <=>
             (Unit!AsBool(d["ac.on"]) = "on" /\ Unit!AsInt(d["ac.md"]) \notin FreshJet!AcModes)
      /\ FreshJet!AcHvacAction(c) # "unknown"
  <2>1. c["ac.on"] \in {0, 1} /\ (c["ac.on"] = 1 <=> Unit!AsBool(d["ac.on"]) = "on")
    BY <1>a
  <2> QED
    BY <1>a, <2>1, ClimateShows
<1>c. FreshJet!LightIsOn(c) # "unknown"
  BY <1>a DEF FreshJet!LightIsOn, FreshJet!Unknown
<1>d. FreshJet!LightBrightness(c) \in 1 .. 255
  <2>1. c["ac.dmr"] \in Int /\ c["ac.dmr"] # FreshJet!Unknown
    BY <1>a DEF FreshJet!Unknown
  <2> QED
    BY <2>1, DimmerObeyed DEF FreshJet!LightBrightness
<1>e. Unit!FanMode(d) = {} <=> Unit!AsInt(d["ac.fspd"]) \notin Unit!AC_FAN_SPEEDS
  BY DEF Unit!FanMode
<1>5. ASSUME NEW b PROVE Unit!OnOff(b) # "unknown"
  BY DEF Unit!OnOff
<1>6. \A p \in Scaled : Unit!AsFloat(d[p]) # Unit!Unknown
  <2>1. ASSUME NEW p \in Scaled PROVE Unit!AsFloat(d[p]) # Unit!Unknown
    <3>1. p \in (Scaled \cup Counted) \ {"ac.operst"}
      BY DEF Scaled
    <3>2. d[p].type \in {"int", "float"}
      BY <1>2, <3>1
    <3> QED
      BY <3>2, NumberIsShown
  <2> QED
    BY <2>1
<1>7. d["ac.sleep"].type = "int" /\ d["ac.actext"].type = "int"
  BY <1>2 DEF Counted
<1>8. /\ Unit!CurrentTemperature(d) # Unit!Unknown
      /\ Unit!TargetTemperature(d) # Unit!Unknown
      /\ \A p \in {"ac.pwr", "ac.curr"} : Unit!NativeValue(d, p) # Unit!Unknown
  BY <1>6 DEF Scaled, Unit!CurrentTemperature, Unit!TargetTemperature, Unit!NativeValue
<1>9. Unit!CompressorOn(d) # "unknown"
  BY <1>5, <1>7 DEF Unit!CompressorOn
<1>10. Unit!HasErrors(d) # "unknown"
  BY <1>3, <1>5 DEF Unit!HasErrors
<1>11. Unit!SleepIsOn(d) # "unknown"
  BY <1>5, <1>7 DEF Unit!SleepIsOn, Unit!AsBool
<1> QED
  BY <1>8, <1>9, <1>10, <1>11, <1>b, <1>c, <1>d, <1>e DEF d, c

\* Once a FreshJet has published, every entity shows something.
LEMMA UnitReadings == WellAsked => UnitTells
<1>1. ASSUME WellAsked, probe[1] = "unit readings" PROVE IsUnitReading(probe[2])
  BY <1>1 DEF WellAsked
<1> QED
  BY <1>1, ReadingIsTold DEF UnitTells

\* The climate, the sensor of the operating state and the one of the compressor
\* disagree only where the unit disagrees with itself.
LEMMA SensorsTellTheSame ==
    ASSUME NEW raw, IsUnitReading(raw)
    PROVE  LET d == Received2(raw)
               c == ClimateData(d)
               action == FreshJet!AcHvacAction(c)
           IN  /\ FreshJet!AcHvacMode(c) = "off" <=> action = "off"
               /\ Unit!AsBool(d["ac.on"]) = "on" =>
                   /\ Unit!OperatingState(d) \in {"cooling", "heating"} => action = Unit!OperatingState(d)
                   /\ Unit!OperatingState(d) = "fan_only" => action = "fan"
                   /\ (Unit!CompressorOn(d) = "on" /\ action \notin {"cooling", "heating"})
                          => Unit!OperatingState(d) = "fan_only"
                   /\ (Unit!CompressorOn(d) = "off" /\ action = "cooling")
                          => Unit!OperatingState(d) = "cooling"
<1> DEFINE d == Received2(raw)
           c == ClimateData(d)
           action == FreshJet!AcHvacAction(c)
           n == Unit!AsInt(d["ac.operst"])
           a == Unit!AsInt(d["ac.actext"])
           Agree == /\ Unit!OperatingState(d) \in {"cooling", "heating"} => action = Unit!OperatingState(d)
                    /\ Unit!OperatingState(d) = "fan_only" => action = "fan"
                    /\ (Unit!CompressorOn(d) = "on" /\ action \notin {"cooling", "heating"})
                           => Unit!OperatingState(d) = "fan_only"
                    /\ (Unit!CompressorOn(d) = "off" /\ action = "cooling")
                           => Unit!OperatingState(d) = "cooling"
<1>3. /\ c["ac.operst"] = n /\ c["ac.actext"] = a /\ a \in Int /\ a >= 0
      /\ c["ac.on"] = (IF Unit!AsBool(d["ac.on"]) = "on" THEN 1 ELSE 0)
  BY ClimateReads
<1>4. d["ac.actext"].type = "int"
  <2>1. "ac.actext" \in Counted /\ "ac.actext" # "ac.operst" /\ "ac.actext" # "ac.status"
    BY DEF Counted
  <2>2. raw["ac.actext"] # Silence
    BY <2>1, WordsOfUnit, BytesAreNoSilence DEF IsUnitReading
  <2> QED
    BY <2>1, <2>2, WordShown
<1>5. Unit!OperatingState(d) = IF n \in 0 .. 2 THEN Unit!OPERATING_STATES[n + 1] ELSE "unknown"
  BY DEF Unit!OperatingState
<1>7. Unit!CompressorOn(d) = Unit!OnOff(FreshJet!Compressor(a))
  BY <1>4 DEF Unit!CompressorOn, FreshJet!Compressor
<1>8. a # FreshJet!Unknown
  BY <1>3 DEF FreshJet!Unknown
<1> HIDE DEF d, c, n, a
<1>a. FreshJet!AcHvacMode(c) = "off" <=> action = "off"
  <2>1. c["ac.on"] \in {0, 1}
    BY <1>3
  <2> QED
    BY <1>3, <2>1, ClimateShows
<1>b. ASSUME Unit!AsBool(d["ac.on"]) = "on" PROVE Agree
  <2>0. c["ac.on"] = 1
    BY <1>3, <1>b
  <2>6. action = IF n \in 0 .. 2 THEN FreshJet!ActionOfOperst[n + 1] ELSE FreshJet!ActiveComponents(c)
    BY <1>3, <2>0 DEF FreshJet!AcHvacAction, FreshJet!Unknown
  <2> HIDE DEF action
  <2>9. CASE n \in 0 .. 2
    <3>1. /\ Unit!OPERATING_STATES[1] = "fan_only" /\ FreshJet!ActionOfOperst[1] = "fan"
          /\ Unit!OPERATING_STATES[2] = "cooling" /\ FreshJet!ActionOfOperst[2] = "cooling"
          /\ Unit!OPERATING_STATES[3] = "heating" /\ FreshJet!ActionOfOperst[3] = "heating"
      BY DEF Unit!OPERATING_STATES, FreshJet!ActionOfOperst
    <3>2. n = 0 \/ n = 1 \/ n = 2
      BY <2>9
    <3>3. Unit!OperatingState(d) = Unit!OPERATING_STATES[n + 1]
      BY <1>5, <2>9
    <3>4. action = FreshJet!ActionOfOperst[n + 1]
      BY <2>6, <2>9
    <3>5. \/ Unit!OperatingState(d) = "fan_only" /\ action = "fan"
          \/ Unit!OperatingState(d) = "cooling" /\ action = "cooling"
          \/ Unit!OperatingState(d) = "heating" /\ action = "heating"
      <4>1. CASE n = 0
        BY <3>1, <3>3, <3>4, <4>1
      <4>2. CASE n = 1
        BY <3>1, <3>3, <3>4, <4>2
      <4>3. CASE n = 2
        BY <3>1, <3>3, <3>4, <4>3
      <4> QED
        BY <3>2, <4>1, <4>2, <4>3
    <3> QED
      BY <3>5
  <2>10. CASE n \notin 0 .. 2
    <3>1. Unit!OperatingState(d) = "unknown" /\ action = FreshJet!ActiveComponents(c)
      BY <1>5, <2>6, <2>10
    <3>2. FreshJet!Compressor(a) => action \in {"cooling", "heating"}
      BY <1>3, <1>8, <3>1 DEF FreshJet!ActiveComponents
    <3>3. ~FreshJet!Compressor(a) => action # "cooling"
      BY <1>3, <1>8, <3>1 DEF FreshJet!ActiveComponents
    <3>4. /\ Unit!CompressorOn(d) = "on" => action \in {"cooling", "heating"}
          /\ Unit!CompressorOn(d) = "off" => action # "cooling"
      BY <1>7, <3>2, <3>3 DEF Unit!OnOff
    <3> QED
      BY <3>1, <3>4
  <2> QED
    BY <2>9, <2>10
<1> HIDE DEF action
<1> QED
  BY <1>a, <1>b DEF d, c, action

\* The climate and the sensors of a FreshJet agree.
LEMMA UnitSensors == WellAsked => SensorsAgree
<1>1. ASSUME WellAsked, probe[1] = "unit readings"
      PROVE  IsUnitReading(probe[2])
  BY <1>1 DEF WellAsked
<1> QED
  BY <1>1, SensorsTellTheSame DEF SensorsAgree

-----------------------------------------------------------------------------
(* What the entities and the console promise of both devices.              *)

\* What a user sets of a cooler, of a FreshJet or of a light comes back as set, through the
\* entity, the codec and the device that echoes it: no rounding moves a temperature out of
\* the range, and every position of the dimmer survives its brightness.
THEOREM SettingsSurvive == WellAsked => EntitiesObey
  BY CoolerSettings, UnitSettings DEF EntitiesObey

\* Once a device has published what the coordinator subscribed to, every entity shows a
\* value, whatever was published, but for modes, speeds and levels that have no name; and
\* those of a FreshJet contradict each other only where the unit contradicts itself.
THEOREM ReadingsAreShown == WellAsked => EntitiesTell
  BY CoolerReadings, UnitReadings, UnitSensors DEF EntitiesTell

\* What the console shows of either device can be sent back: as JSON, as its display text
\* or typed, it is refused or writes what the device has, for whatever bytes it sent.
THEOREM ConsoleKeepsValues == WellAsked => ConsoleWriteBack
  BY ConsoleValues1, ConsoleValues2 DEF ConsoleWriteBack
=============================================================================
