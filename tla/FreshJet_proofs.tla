-------------------------- MODULE FreshJet_proofs --------------------------
(***************************************************************************)
(* Theorems about FreshJet.tla, for every number of service calls at a      *)
(* time, every set of modes and brightnesses and every bound: its types,    *)
(* that what is shown catches up with the unit, and that the mode and the   *)
(* light asked for last are what the unit ends up with.                     *)
(***************************************************************************)
EXTENDS FreshJet, SequenceTheorems, TLAPS

(***************************************************************************)
(* A parameter and a queue of frames that will assign it.                  *)
(***************************************************************************)

\* Frames of these parameters, with values the unit can have.
ValuesOf(p) ==
    CASE p = "ac.on" -> 0 .. 1
      [] p = "ac.lgt" -> 0 .. 1
      [] p = "ac.md" -> AcModes
      [] p = "ac.dmr" -> 0 .. 100
      [] p = "ac.operst" -> 0 .. 2
      [] OTHER -> {16, 18}

Frames(ps) == {f \in [p : Parameters, v : 0 .. 255] : f.p \in ps /\ f.v \in ValuesOf(f.p)}

Has(s, p) == \E i \in DOMAIN s : s[i] = p
\* Nothing to apply: the value stays.
LEMMA EndsEmpty ==
    ASSUME NEW p, NEW d, NEW v
    PROVE  Ends(<< >>, p, d, v) <=> d = v
BY DEF Ends, Absent

\* One frame more decides, if it is about the parameter.
LEMMA EndsAppend ==
    ASSUME NEW S, NEW s \in Seq(S), NEW f \in S, NEW p, NEW d, NEW v,
           IF f.p = p THEN f.v = v ELSE Ends(s, p, d, v)
    PROVE  Ends(Append(s, f), p, d, v)
<1> DEFINE t == Append(s, f)
<1>1. /\ Len(s) \in Nat /\ DOMAIN s = 1 .. Len(s) /\ DOMAIN t = 1 .. Len(s) + 1
      /\ \A i \in 1 .. Len(s) : t[i] = s[i]
      /\ t[Len(s) + 1] = f
  OBVIOUS
<1> HIDE DEF t
<1>2. ASSUME NEW i \in DOMAIN t, t[i].p = p, IsLast(t, i)
      PROVE  t[i].v = v
  <2>1. CASE i = Len(s) + 1
    <3>1. t[i] = f
      BY <1>1, <2>1
    <3> QED
      BY <1>2, <3>1
  <2>2. CASE i # Len(s) + 1
    <3>1. i \in 1 .. Len(s) /\ i < Len(s) + 1 /\ t[i] = s[i]
      BY <1>1, <2>2
    <3>2. f.p # p
      BY <1>1, <1>2, <3>1 DEF IsLast
    <3>3. IsLast(s, i)
      BY <1>1, <1>2, <3>1 DEF IsLast
    <3> QED
      BY <1>1, <1>2, <3>1, <3>2, <3>3 DEF Ends
  <2> QED
    BY <2>1, <2>2
<1>3. Absent(t, p) => d = v
  BY <1>1 DEF Absent, Ends
<1> QED
  BY <1>2, <1>3 DEF Ends, t

\* The first frame is applied, the others remain.
LEMMA EndsTail ==
    ASSUME NEW S, NEW s \in Seq(S), s # << >>, NEW p, NEW d, NEW v, Ends(s, p, d, v)
    PROVE  Ends(Tail(s), p, IF Head(s).p = p THEN Head(s).v ELSE d, v)
<1> DEFINE t == Tail(s)
<1>1. /\ Len(s) \in Nat \ {0} /\ DOMAIN s = 1 .. Len(s) /\ DOMAIN t = 1 .. Len(s) - 1
      /\ \A i \in 1 .. Len(s) - 1 : t[i] = s[i + 1]
      /\ Head(s) = s[1]
  OBVIOUS
<1> HIDE DEF t
<1>2. ASSUME NEW i \in DOMAIN t, t[i].p = p, IsLast(t, i)
      PROVE  t[i].v = v
  <2>1. i + 1 \in DOMAIN s /\ t[i] = s[i + 1]
    BY <1>1
  <2>2. IsLast(s, i + 1)
    <3> SUFFICES ASSUME NEW j \in DOMAIN s, i + 1 < j
                 PROVE  s[j].p # s[i + 1].p
      BY DEF IsLast
    <3>1. j - 1 \in DOMAIN t /\ i < j - 1 /\ t[j - 1] = s[j]
      BY <1>1
    <3> QED
      BY <1>2, <2>1, <3>1 DEF IsLast
  <2> QED
    BY <1>2, <2>1, <2>2 DEF Ends
<1>3. ASSUME Absent(t, p)
      PROVE  (IF Head(s).p = p THEN Head(s).v ELSE d) = v
  <2>1. \A j \in DOMAIN s : 1 < j => s[j].p # p
    <3> SUFFICES ASSUME NEW j \in DOMAIN s, 1 < j PROVE s[j].p # p
      OBVIOUS
    <3>1. j - 1 \in DOMAIN t /\ t[j - 1] = s[j]
      BY <1>1
    <3> QED
      BY <1>3, <3>1 DEF Absent
  <2>2. CASE Head(s).p = p
    <3>1. 1 \in DOMAIN s /\ s[1].p = p /\ IsLast(s, 1)
      BY <1>1, <2>1, <2>2 DEF IsLast
    <3> QED
      BY <1>1, <2>2, <3>1 DEF Ends
  <2>3. CASE Head(s).p # p
    <3>1. \A j \in DOMAIN s : j = 1 \/ 1 < j
      BY <1>1
    <3>2. Absent(s, p)
      BY <1>1, <2>1, <2>3, <3>1 DEF Absent
    <3> QED
      BY <2>3, <3>2 DEF Ends
  <2> QED
    BY <2>2, <2>3
<1> QED
  BY <1>2, <1>3 DEF Ends, t

\* A publication of u brings the parameters it names to their value in u and
\* leaves the others alone.
LEMMA EndsPublish ==
    ASSUME NEW S, NEW s \in Seq(S), NEW ps \in Seq(Parameters), NEW u,
           Values(u, ps) \in Seq(S), NEW p, NEW d, NEW v,
           IF Has(ps, p) THEN u[p] = v ELSE Ends(s, p, d, v)
    PROVE  Ends(s \o Values(u, ps), p, d, v)
<1> DEFINE w == Values(u, ps)
           t == s \o w
<1>1. /\ DOMAIN w = DOMAIN ps /\ \A i \in DOMAIN w : w[i].p = ps[i] /\ w[i].v = u[ps[i]]
  BY DEF Values, Write
<1>2. w \in Seq(S)
  OBVIOUS
<1> HIDE DEF w
<1>3. /\ Len(s) \in Nat /\ DOMAIN s = 1 .. Len(s)
      /\ Len(w) \in Nat /\ DOMAIN w = 1 .. Len(w)
      /\ DOMAIN t = 1 .. Len(s) + Len(w)
      /\ \A i \in 1 .. Len(s) : t[i] = s[i]
      /\ \A i \in 1 .. Len(w) : t[Len(s) + i] = w[i]
  BY <1>2
<1> HIDE DEF t
<1>4. \A i \in DOMAIN t : i \in 1 .. Len(s) \/ (i - Len(s) \in DOMAIN w /\ t[i] = w[i - Len(s)])
  <2> SUFFICES ASSUME NEW i \in DOMAIN t, i \notin 1 .. Len(s)
               PROVE  i - Len(s) \in DOMAIN w /\ t[i] = w[i - Len(s)]
    OBVIOUS
  <2>1. i - Len(s) \in 1 .. Len(w) /\ Len(s) + (i - Len(s)) = i
    BY <1>3
  <2> QED
    BY <1>3, <2>1
<1>5. ASSUME NEW k \in DOMAIN w
      PROVE  Len(s) + k \in DOMAIN t /\ t[Len(s) + k] = w[k] /\ \A i \in 1 .. Len(s) : i < Len(s) + k
  BY <1>3
<1>6. ASSUME NEW i \in DOMAIN t, t[i].p = p, IsLast(t, i)
      PROVE  t[i].v = v
  <2>1. CASE i \in 1 .. Len(s)
    <3>1. ~Has(ps, p)
      <4> SUFFICES ASSUME NEW k \in DOMAIN ps, ps[k] = p PROVE FALSE
        BY DEF Has
      <4>1. k \in DOMAIN w /\ w[k].p = p
        BY <1>1
      <4>2. Len(s) + k \in DOMAIN t /\ i < Len(s) + k /\ t[Len(s) + k].p = p
        BY <1>5, <2>1, <4>1
      <4> QED
        BY <1>6, <4>2 DEF IsLast
    <3>2. IsLast(s, i)
      BY <1>3, <1>6, <2>1 DEF IsLast
    <3> QED
      BY <1>3, <1>6, <2>1, <3>1, <3>2 DEF Ends
  <2>2. CASE i \notin 1 .. Len(s)
    <3>1. i - Len(s) \in DOMAIN w /\ t[i] = w[i - Len(s)]
      BY <1>4, <2>2
    <3>2. ps[i - Len(s)] = p /\ t[i].v = u[p]
      BY <1>1, <1>6, <3>1
    <3>3. Has(ps, p)
      BY <1>1, <3>1, <3>2 DEF Has
    <3> QED
      BY <3>2, <3>3
  <2> QED
    BY <2>1, <2>2
<1>7. ASSUME Absent(t, p)
      PROVE  d = v
  <2>1. Absent(s, p)
    BY <1>3, <1>7 DEF Absent
  <2>2. ~Has(ps, p)
    BY <1>1, <1>5, <1>7 DEF Absent, Has
  <2> QED
    BY <2>1, <2>2 DEF Ends
<1> QED
  BY <1>6, <1>7 DEF Ends, t, w

(***************************************************************************)
(* The parameters and the values that are written.                         *)
(***************************************************************************)

LEMMA Names ==
    /\ Climate \cup Running \subseteq Parameters /\ Light \subseteq Parameters
    /\ Climate \cup Running # Light
    /\ \A p \in Parameters : ValuesOf(p) \subseteq 0 .. 255
BY DEF Climate, Running, Light, Parameters, ValuesOf, AcModes

\* A mode that can be chosen has a code, and no other meaning.
LEMMA ModeCodes ==
    ASSUME NEW hvac \in Modes
    PROVE  /\ ModeOfHvac(hvac) \in AcModes
           /\ HvacOfMode[ModeOfHvac(hvac) + 1] = hvac
           /\ hvac \notin {"off", "on", "any"}
<1>1. \E md \in AcModes : HvacOfMode[md + 1] = hvac
  BY FreshJetAssumption
<1>2. ModeOfHvac(hvac) \in AcModes /\ HvacOfMode[ModeOfHvac(hvac) + 1] = hvac
  BY <1>1 DEF ModeOfHvac
<1>3. \A md \in AcModes : HvacOfMode[md + 1] \notin {"off", "on", "any"}
  BY DEF AcModes, HvacOfMode
<1> QED
  BY <1>2, <1>3

\* Rounding goes to a nearest whole number.
LEMMA RoundDivNear ==
    ASSUME NEW n \in Nat
    PROVE  /\ RoundDiv(n, 255) \in Nat
           /\ 2 * n - 510 * RoundDiv(n, 255) \in -255 .. 255
           /\ RoundDiv(n, 100) \in Nat
           /\ 2 * n - 200 * RoundDiv(n, 100) \in -100 .. 100
<1>1. /\ n \div 255 \in Nat /\ n % 255 \in 0 .. 254 /\ n = 255 * (n \div 255) + (n % 255)
      /\ n \div 100 \in Nat /\ n % 100 \in 0 .. 99 /\ n = 100 * (n \div 100) + (n % 100)
  OBVIOUS
<1> DEFINE q1 == n \div 255
           r1 == n % 255
           q2 == n \div 100
           r2 == n % 100
<1>2. \/ RoundDiv(n, 255) = q1 /\ 2 * r1 <= 255
      \/ RoundDiv(n, 255) = q1 + 1 /\ 2 * r1 >= 255
  BY <1>1 DEF RoundDiv
<1>3. \/ RoundDiv(n, 100) = q2 /\ 2 * r2 <= 100
      \/ RoundDiv(n, 100) = q2 + 1 /\ 2 * r2 >= 100
  BY <1>1 DEF RoundDiv
<1> HIDE DEF q1, r1, q2, r2
<1>4. /\ q1 \in Nat /\ r1 \in 0 .. 254 /\ n = 255 * q1 + r1
      /\ q2 \in Nat /\ r2 \in 0 .. 99 /\ n = 100 * q2 + r2
  BY <1>1 DEF q1, r1, q2, r2
<1> QED
  BY <1>2, <1>3, <1>4

\* A brightness is written as a value the dimmer has; only brightness 1 is
\* written as 0.
LEMMA PercentInRange ==
    ASSUME NEW b \in 1 .. 255
    PROVE  Percent(b) \in 0 .. 100 /\ (b # 1 => Percent(b) \in 1 .. 100)
<1>1. b * 100 \in Nat
  OBVIOUS
<1>2. /\ RoundDiv(b * 100, 255) \in Nat
      /\ 2 * (b * 100) - 510 * RoundDiv(b * 100, 255) \in -255 .. 255
  BY <1>1, RoundDivNear
<1> DEFINE r == RoundDiv(b * 100, 255)
<1>3. r \in Nat /\ 2 * (b * 100) - 510 * r \in -255 .. 255
  BY <1>2
<1> HIDE DEF r
<1>4. r \in 0 .. 100 /\ (b # 1 => r \in 1 .. 100)
  BY <1>3
<1> QED
  BY <1>4 DEF Percent, r

\* What the light shows for a value of the dimmer is written as that value.
LEMMA DimmerRoundTrip ==
    ASSUME NEW q \in 1 .. 100
    PROVE  Percent(Brightness(q)) = q
<1>1. Brightness(q) = RoundDiv(q * 255, 100)
  BY DEF Brightness
<1> DEFINE b == RoundDiv(q * 255, 100)
           r == RoundDiv(b * 100, 255)
<1>2. q * 255 \in Nat
  OBVIOUS
<1>3. b \in Nat /\ 2 * (q * 255) - 200 * b \in -100 .. 100
  BY <1>2, RoundDivNear
<1> HIDE DEF b
<1>4. b * 100 \in Nat
  BY <1>3
<1>5. r \in Nat /\ 2 * (b * 100) - 510 * r \in -255 .. 255
  BY <1>4, RoundDivNear
<1> HIDE DEF r
<1>6. r = q
  BY <1>3, <1>5
<1> QED
  BY <1>1, <1>6 DEF Percent, b, r

LEMMA WriteTyped ==
    ASSUME NEW ps, NEW p \in Parameters, p \in ps, NEW v \in ValuesOf(p)
    PROVE  Write(p, v) \in Frames(ps) /\ Write(p, v).p = p /\ Write(p, v).v = v
<1>1. v \in 0 .. 255
  BY Names
<1> QED
  BY <1>1 DEF Write, Frames

LEMMA FramesGrow ==
    ASSUME NEW ps, NEW qs, ps \subseteq qs
    PROVE  Frames(ps) \subseteq Frames(qs)
BY DEF Frames

(***************************************************************************)
(* Type correctness.                                                       *)
(***************************************************************************)
IsUnit(u) ==
    /\ u \in [Parameters -> 0 .. 255]
    /\ \A p \in Parameters : u[p] \in ValuesOf(p)
    /\ u["ac.actext"] = IF u["ac.operst"] = 0 THEN 16 ELSE 18

\* What the unit publishes are frames.
LEMMA PublishTyped ==
    ASSUME NEW u, IsUnit(u), NEW S, S \subseteq Parameters, NEW ps \in Seq(S)
    PROVE  Values(u, ps) \in Seq(Frames(S)) /\ ps \in Seq(Parameters)
<1>1. \A i \in 1 .. Len(ps) : ps[i] \in S /\ ps[i] \in Parameters
  OBVIOUS
<1>2. \A i \in 1 .. Len(ps) : Write(ps[i], u[ps[i]]) \in Frames(S)
  BY <1>1, WriteTyped DEF IsUnit
<1>3. Values(u, ps) = [i \in 1 .. Len(ps) |-> Write(ps[i], u[ps[i]])] /\ Len(ps) \in Nat
  BY DEF Values
<1> QED
  BY <1>1, <1>2, <1>3

\* A SET leaves the unit a unit.
LEMMA AppliedTyped ==
    ASSUME IsUnit(unit), NEW f \in Frames(Parameters \ Running), NEW w \in Applied(f)
    PROVE  /\ IsUnit(w)
           /\ w[f.p] = f.v
           /\ \A p \in Parameters :
                  p # f.p => \/ w[p] = unit[p]
                             \/ f.p = "ac.lgt" /\ f.v = 1 /\ p = "ac.dmr"
<1>1. f.p \in Parameters /\ f.p \notin Running /\ f.v \in 0 .. 255 /\ f.v \in ValuesOf(f.p)
  BY DEF Frames
<1>2. unit \in [Parameters -> 0 .. 255] /\ \A p \in Parameters : unit[p] \in ValuesOf(p)
  BY DEF IsUnit
<1>3. f.p # "ac.operst" /\ f.p # "ac.actext"
  BY <1>1 DEF Running
<1>4. "ac.operst" \in Parameters /\ "ac.actext" \in Parameters /\ "ac.dmr" \in Parameters
      /\ "ac.lgt" \in Parameters /\ 100 \in ValuesOf("ac.dmr")
  BY DEF Parameters, Running, Light, ValuesOf
<1>5. CASE f.p = "ac.lgt" /\ f.v = 1 /\ w = [unit EXCEPT !["ac.lgt"] = 1, !["ac.dmr"] = 100]
  <2> DEFINE u == [unit EXCEPT !["ac.lgt"] = 1, !["ac.dmr"] = 100]
  <2>1. w = u
    BY <1>5
  <2>2. /\ u \in [Parameters -> 0 .. 255]
        /\ u["ac.lgt"] = 1 /\ u["ac.dmr"] = 100
        /\ \A p \in Parameters : p # "ac.lgt" /\ p # "ac.dmr" => u[p] = unit[p]
    BY <1>2, <1>4
  <2> HIDE DEF u
  <2>3. \A p \in Parameters : u[p] \in ValuesOf(p)
    BY <1>1, <1>2, <1>4, <1>5, <2>2
  <2> QED
    BY <1>3, <1>4, <1>5, <2>1, <2>2, <2>3 DEF IsUnit
<1>6. CASE w = [unit EXCEPT ![f.p] = f.v]
  <2> DEFINE u == [unit EXCEPT ![f.p] = f.v]
  <2>1. w = u
    BY <1>6
  <2>2. u \in [Parameters -> 0 .. 255] /\ u[f.p] = f.v
        /\ \A p \in Parameters : p # f.p => u[p] = unit[p]
    BY <1>1, <1>2
  <2> HIDE DEF u
  <2>3. \A p \in Parameters : u[p] \in ValuesOf(p)
    BY <1>1, <1>2, <2>2
  <2> QED
    BY <1>3, <1>4, <2>1, <2>2, <2>3 DEF IsUnit
<1> QED
  BY <1>5, <1>6 DEF Applied

\* The echo of a SET names what the SET may have changed.
LEMMA EchoNames ==
    ASSUME NEW u, NEW p \in Parameters
    PROVE  /\ Echo(u, p) \in Seq(Parameters)
           /\ Has(Echo(u, p), p)
           /\ p = "ac.lgt" /\ u["ac.lgt"] = 1 => Has(Echo(u, p), "ac.dmr")
           /\ p \in Climate => Echo(u, p) \in Seq(Climate)
           /\ p \in Light => Echo(u, p) \in Seq(Light)
<1>1. /\ "ac.on" \in Climate /\ "ac.md" \in Climate /\ Climate \subseteq Parameters
      /\ "ac.lgt" \in Light /\ "ac.dmr" \in Light /\ Light \subseteq Parameters
      /\ "ac.on" \notin Light /\ "ac.md" \notin Light
      /\ "ac.lgt" \notin Climate /\ "ac.dmr" \notin Climate
  BY DEF Climate, Light, Parameters
<1>2. CASE (p = "ac.on" \/ p = "ac.md") /\ u["ac.on"] = 1
  <2>1. Echo(u, p) = << "ac.md", "ac.on" >>
    BY <1>2 DEF Echo
  <2>2. DOMAIN Echo(u, p) = {1, 2} /\ Echo(u, p)[1] = "ac.md" /\ Echo(u, p)[2] = "ac.on"
    BY <2>1
  <2> QED
    BY <1>1, <1>2, <2>1, <2>2 DEF Has
<1>3. CASE p = "ac.lgt" /\ u["ac.lgt"] = 1
  <2>1. Echo(u, p) = << "ac.dmr", "ac.lgt" >>
    BY <1>3 DEF Echo
  <2>2. DOMAIN Echo(u, p) = {1, 2} /\ Echo(u, p)[1] = "ac.dmr" /\ Echo(u, p)[2] = "ac.lgt"
    BY <2>1
  <2>3. << "ac.dmr", "ac.lgt" >> \in Seq(Light) /\ << "ac.dmr", "ac.lgt" >> \in Seq(Parameters)
    BY <1>1
  <2>4. p \notin Climate
    BY <1>1, <1>3
  <2> QED
    BY <1>3, <2>1, <2>2, <2>3, <2>4 DEF Has
<1>4. CASE /\ ~((p = "ac.on" \/ p = "ac.md") /\ u["ac.on"] = 1)
           /\ ~(p = "ac.lgt" /\ u["ac.lgt"] = 1)
  <2>1. Echo(u, p) = << p >>
    BY <1>4 DEF Echo
  <2>2. DOMAIN Echo(u, p) = {1} /\ Echo(u, p)[1] = p
    BY <2>1
  <2>3. /\ << p >> \in Seq(Parameters)
        /\ p \in Climate => << p >> \in Seq(Climate)
        /\ p \in Light => << p >> \in Seq(Light)
    OBVIOUS
  <2> QED
    BY <1>4, <2>1, <2>2, <2>3 DEF Has
<1> QED
  BY <1>2, <1>3, <1>4

Settable == used \ Running

TypeInv ==
    /\ used \in {Climate \cup Running, Light}
    /\ linked \in BOOLEAN
    /\ unasked \in Seq(used)
    /\ up \in Seq(Frames(Settable))
    /\ down \in Seq(Frames(used))
    /\ ~linked => up = << >> /\ down = << >> /\ unasked = << >>
    /\ IsUnit(unit)
    /\ data \in [Parameters -> 0 .. 255 \cup {Unknown}]
    /\ \A p \in Parameters : data[p] # Unknown => data[p] \in ValuesOf(p)
    /\ todo \in [Callers -> Seq(Frames(Settable))]
    /\ want \in Modes \cup {"off", "on", "any"}
    /\ light \in Dimmed \cup {Plain, Dark, Unknown}
    /\ count \in [calls : Nat, drops : Nat, acts : Nat]

(***************************************************************************)
(* What an action does to the unit and to the frames on their way.         *)
(***************************************************************************)

\* What the parameters in use may be, and what a SET may name.
LEMMA UsedNames ==
    ASSUME TypeInv
    PROVE  /\ used \subseteq Parameters /\ Settable \subseteq used
           /\ Settable \subseteq Parameters \ Running
           /\ used # Light => used = Climate \cup Running /\ Settable = Climate
           /\ used = Light => Settable = Light
BY DEF TypeInv, Settable, Climate, Running, Light, Parameters

LEMMA HasConcat ==
    ASSUME NEW S, NEW s \in Seq(S), NEW t \in Seq(S), NEW p, Has(s, p) \/ Has(t, p)
    PROVE  Has(s \o t, p)
<1>1. /\ Len(s) \in Nat /\ Len(t) \in Nat /\ DOMAIN (s \o t) = 1 .. Len(s) + Len(t)
      /\ \A i \in DOMAIN s : i \in DOMAIN (s \o t) /\ (s \o t)[i] = s[i]
      /\ \A i \in DOMAIN t : Len(s) + i \in DOMAIN (s \o t) /\ (s \o t)[Len(s) + i] = t[i]
  OBVIOUS
<1> QED
  BY <1>1 DEF Has

\* What has the parameter has it first or later.
LEMMA HasTail ==
    ASSUME NEW S, NEW s \in Seq(S), NEW p, Has(s, p)
    PROVE  s # << >> /\ (p = Head(s) \/ Has(Tail(s), p))
<1>1. PICK i \in 1 .. Len(s) : s[i] = p
  BY DEF Has
<1>2. s # << >> /\ Len(s) \in Nat
  BY <1>1
<1>3. CASE i = 1
  BY <1>1, <1>2, <1>3
<1>4. CASE i # 1
  <2>1. i - 1 \in 1 .. Len(s) - 1 /\ (i - 1) + 1 = i
    BY <1>1, <1>2, <1>4
  <2>2. i - 1 \in DOMAIN Tail(s) /\ Tail(s)[i - 1] = s[i]
    BY <1>2, <2>1
  <2> QED
    BY <1>1, <1>2, <2>2 DEF Has
<1> QED
  BY <1>3, <1>4

\* The unit publishes the parameters ps, and has changed no other one in use.
Published(ps) ==
    /\ ps \in Seq(used)
    /\ down' = IF linked THEN down \o Values(unit', ps) ELSE down
    /\ \A p \in used : unit'[p] # unit[p] => Has(ps, p)

\* The unit changes by itself: it publishes what changed.
LEMMA ChangesPublished ==
    ASSUME TypeInv, used # Light, NEW u, UnitChanges(u)
    PROVE  unit' = u /\ \E ps : Published(ps)
<1> DEFINE s1 == IfChanged(u, "ac.on")
           s2 == IfChanged(u, "ac.md")
           s3 == IfChanged(u, "ac.operst")
           s4 == IfChanged(u, "ac.actext")
           ps == s1 \o s2 \o s3 \o s4
<1>1. used = {"ac.on", "ac.md", "ac.operst", "ac.actext"}
  BY UsedNames DEF Climate, Running
<1>2. \A p \in used : /\ IfChanged(u, p) \in Seq(used)
                      /\ u[p] # unit[p] => Has(IfChanged(u, p), p)
  <2> SUFFICES ASSUME NEW p \in used
               PROVE  /\ IfChanged(u, p) \in Seq(used)
                      /\ u[p] # unit[p] => Has(IfChanged(u, p), p)
    OBVIOUS
  <2>1. << p >> \in Seq(used) /\ << >> \in Seq(used) /\ DOMAIN << p >> = {1} /\ << p >>[1] = p
    OBVIOUS
  <2> QED
    BY <2>1 DEF IfChanged, Has
<1>3. /\ s1 \in Seq(used) /\ s2 \in Seq(used) /\ s3 \in Seq(used) /\ s4 \in Seq(used)
      /\ u["ac.on"] # unit["ac.on"] => Has(s1, "ac.on")
      /\ u["ac.md"] # unit["ac.md"] => Has(s2, "ac.md")
      /\ u["ac.operst"] # unit["ac.operst"] => Has(s3, "ac.operst")
      /\ u["ac.actext"] # unit["ac.actext"] => Has(s4, "ac.actext")
  BY <1>1, <1>2
<1>4. unit' = u /\ down' = IF linked THEN down \o Values(u, ps) ELSE down
  BY DEF UnitChanges
<1> HIDE DEF s1, s2, s3, s4
<1>5. s1 \o s2 \in Seq(used) /\ s1 \o s2 \o s3 \in Seq(used) /\ ps \in Seq(used)
  BY <1>3
<1>6. \A p : Has(s1, p) \/ Has(s2, p) => Has(s1 \o s2, p)
  BY <1>3, HasConcat
<1>7. \A p : Has(s1 \o s2, p) \/ Has(s3, p) => Has(s1 \o s2 \o s3, p)
  BY <1>3, <1>5, HasConcat
<1>8. \A p : Has(s1 \o s2 \o s3, p) \/ Has(s4, p) => Has(ps, p)
  BY <1>3, <1>5, HasConcat
<1>9. \A p \in used : u[p] # unit[p] => Has(ps, p)
  BY <1>1, <1>3, <1>6, <1>7, <1>8
<1> QED
  BY <1>4, <1>5, <1>9 DEF Published

\* Whatever the unit does, it stays a unit and publishes what it changed.
LEMMA UnitMoves ==
    ASSUME TypeInv, UnitHandles \/ Remote \/ Acts
    PROVE  IsUnit(unit') /\ \E ps : Published(ps)
<1>u. /\ unit \in [Parameters -> 0 .. 255] /\ IsUnit(unit)
      /\ \A p \in Parameters : unit[p] \in ValuesOf(p)
  BY DEF TypeInv, IsUnit
<1>n. {"ac.on", "ac.md", "ac.operst", "ac.actext"} \subseteq Parameters
  BY DEF Parameters, Climate, Running
<1>1. CASE UnitHandles
  <2> DEFINE f == Head(up)
  <2>1. up \in Seq(Frames(Settable)) /\ up # << >> /\ linked
    BY <1>1 DEF TypeInv, UnitHandles
  <2>2. f \in Frames(Settable) /\ f \in Frames(Parameters \ Running) /\ f.p \in Settable
    BY <2>1, UsedNames, FramesGrow DEF Frames
  <2>3. unit' \in Applied(f) /\ down' = down \o Values(unit', Echo(unit', f.p))
    BY <1>1 DEF UnitHandles
  <2> HIDE DEF f
  <2>4. IsUnit(unit')
    BY <1>u, <2>2, <2>3, AppliedTyped
  <2>5. f.p \in Parameters
    BY <2>2, UsedNames
  <2>6. Echo(unit', f.p) \in Seq(used)
    <3>1. CASE used = Light
      BY <2>2, <2>5, <3>1, UsedNames, EchoNames
    <3>2. CASE used # Light
      <4>1. Echo(unit', f.p) \in Seq(Climate) /\ Climate \subseteq used
        BY <2>2, <2>5, <3>2, UsedNames, EchoNames
      <4> QED
        BY <4>1, SeqMonotonic
    <3> QED
      BY <3>1, <3>2
  <2>7. \A p \in used : unit'[p] # unit[p] => Has(Echo(unit', f.p), p)
    <3> SUFFICES ASSUME NEW p \in used, unit'[p] # unit[p]
                 PROVE  Has(Echo(unit', f.p), p)
      OBVIOUS
    <3>1. /\ unit'[f.p] = f.v
          /\ p # f.p => f.p = "ac.lgt" /\ f.v = 1 /\ p = "ac.dmr"
      <4>1. \A w \in Applied(f) :
                /\ w[f.p] = f.v
                /\ \A o \in Parameters :
                       o # f.p => \/ w[o] = unit[o]
                                  \/ f.p = "ac.lgt" /\ f.v = 1 /\ o = "ac.dmr"
        BY <1>u, <2>2, AppliedTyped
      <4> QED
        BY <2>3, <4>1, UsedNames
    <3> QED
      BY <2>5, <3>1, EchoNames
  <2>8. Published(Echo(unit', f.p))
    BY <2>1, <2>3, <2>6, <2>7 DEF Published
  <2> QED
    BY <2>4, <2>8
<1>2. CASE Remote
  <2>1. PICK on \in 0 .. 1, mode \in Modes :
            UnitChanges([unit EXCEPT !["ac.on"] = on, !["ac.md"] = ModeOfHvac(mode)])
    BY <1>2 DEF Remote
  <2> DEFINE u == [unit EXCEPT !["ac.on"] = on, !["ac.md"] = ModeOfHvac(mode)]
  <2>2. used # Light /\ UnitChanges(u)
    BY <1>2, <2>1 DEF Remote
  <2>3. ModeOfHvac(mode) \in 0 .. 4 /\ on \in 0 .. 255 /\ ModeOfHvac(mode) \in 0 .. 255
    BY ModeCodes DEF AcModes
  <2>4. /\ u \in [Parameters -> 0 .. 255]
        /\ u["ac.on"] = on /\ u["ac.md"] = ModeOfHvac(mode)
        /\ \A p \in Parameters : p # "ac.on" /\ p # "ac.md" => u[p] = unit[p]
    BY <1>u, <1>n, <2>3
  <2> HIDE DEF u
  <2>5. \A p \in Parameters : u[p] \in ValuesOf(p)
    BY <1>u, <2>3, <2>4 DEF ValuesOf, AcModes
  <2>6. IsUnit(u)
    BY <1>u, <1>n, <2>4, <2>5 DEF IsUnit
  <2> QED
    BY <2>2, <2>6, ChangesPublished
<1>3. CASE Acts
  <2>1. PICK operst \in 0 .. 2 :
            UnitChanges([unit EXCEPT !["ac.operst"] = operst,
                                     !["ac.actext"] = IF operst = 0 THEN 16 ELSE 18])
    BY <1>3 DEF Acts
  <2> DEFINE act == IF operst = 0 THEN 16 ELSE 18
             u == [unit EXCEPT !["ac.operst"] = operst, !["ac.actext"] = act]
  <2>2. used # Light /\ UnitChanges(u)
    BY <1>3, <2>1 DEF Acts
  <2>3. act \in {16, 18} /\ act \in 0 .. 255 /\ operst \in 0 .. 255
    OBVIOUS
  <2>4. /\ u \in [Parameters -> 0 .. 255]
        /\ u["ac.operst"] = operst /\ u["ac.actext"] = act
        /\ \A p \in Parameters : p # "ac.operst" /\ p # "ac.actext" => u[p] = unit[p]
    BY <1>u, <1>n, <2>3
  <2> HIDE DEF u
  <2>5. \A p \in Parameters : u[p] \in ValuesOf(p)
    BY <1>u, <2>3, <2>4 DEF ValuesOf
  <2>6. IsUnit(u)
    BY <2>4, <2>5 DEF IsUnit
  <2> QED
    BY <2>2, <2>6, ChangesPublished
<1> QED
  BY <1>1, <1>2, <1>3

(***************************************************************************)
(* Types, one action at a time.                                            *)
(***************************************************************************)

\* A queue that loses its first element, or gains one or two.
LEMMA QueueSteps ==
    ASSUME NEW S, NEW s \in Seq(S)
    PROVE  /\ s # << >> => Tail(s) \in Seq(S) /\ Head(s) \in S
           /\ \A f \in S : Append(s, f) \in Seq(S)
           /\ \A t \in Seq(S) : s \o t \in Seq(S)
           /\ << >> \in Seq(S)
OBVIOUS

LEMMA CountTyped ==
    ASSUME TypeInv, NEW what \in {"calls", "drops", "acts"}, Counted(what)
    PROVE  count' \in [calls : Nat, drops : Nat, acts : Nat]
BY DEF Counted, TypeInv

\* The writes of a service call are of the parameters of its entity.
LEMMA ClimateWrites ==
    /\ AcTurnOn \in Seq(Frames(Climate))
    /\ \A mode \in Modes \cup {"off"} : AcSetHvacMode(data, mode) \in Seq(Frames(Climate))
<1>1. \A v \in 0 .. 1 : Write("ac.on", v) \in Frames(Climate)
  BY WriteTyped DEF Climate, Parameters, ValuesOf
<1>2. \A mode \in Modes : Write("ac.md", ModeOfHvac(mode)) \in Frames(Climate)
  BY WriteTyped, ModeCodes DEF Climate, Parameters, ValuesOf
<1>3. \A f \in Frames(Climate) : << f >> \in Seq(Frames(Climate))
  OBVIOUS
<1>4. AcTurnOn \in Seq(Frames(Climate)) /\ AcTurnOff \in Seq(Frames(Climate))
  BY <1>1, <1>3 DEF AcTurnOn, AcTurnOff
<1>5. ASSUME NEW mode \in Modes \cup {"off"}
      PROVE  AcSetHvacMode(data, mode) \in Seq(Frames(Climate))
  <2>1. CASE mode = "off"
    BY <1>4, <2>1 DEF AcSetHvacMode
  <2>2. CASE mode # "off"
    <3> DEFINE first == IF data["ac.on"] > 0 THEN << >> ELSE << Write("ac.on", 1) >>
               second == << Write("ac.md", ModeOfHvac(mode)) >>
    <3>1. first \in Seq(Frames(Climate))
      BY <1>1, <1>3
    <3>2. second \in Seq(Frames(Climate))
      BY <1>2, <1>3, <2>2
    <3>3. AcSetHvacMode(data, mode) = first \o second
      BY <2>2 DEF AcSetHvacMode
    <3> HIDE DEF first, second
    <3> QED
      BY <3>1, <3>2, <3>3
  <2> QED
    BY <2>1, <2>2
<1> QED
  BY <1>4, <1>5

LEMMA LightWrites ==
    /\ LightTurnOn \in Seq(Frames(Light)) /\ LightTurnOff \in Seq(Frames(Light))
    /\ \A b \in Dimmed : LightTurnOnAt(b) \in Seq(Frames(Light))
<1>1. \A v \in 0 .. 1 : Write("ac.lgt", v) \in Frames(Light)
  BY WriteTyped DEF Light, Parameters, ValuesOf
<1>2. \A b \in Dimmed : Write("ac.dmr", Percent(b)) \in Frames(Light)
  BY WriteTyped, PercentInRange, FreshJetAssumption DEF Light, Parameters, ValuesOf
<1>3. \A f, g \in Frames(Light) : << f >> \in Seq(Frames(Light)) /\ << f, g >> \in Seq(Frames(Light))
  OBVIOUS
<1> QED
  BY <1>1, <1>2, <1>3 DEF LightTurnOn, LightTurnOff, LightTurnOnAt

LEMMA InitTyped == Init => TypeInv
<1> SUFFICES ASSUME Init PROVE TypeInv
  OBVIOUS
<1>1. IsUnit(unit)
  <2>1. unit \in [Parameters -> 0 .. 255]
    BY DEF Init
  <2>2. \A p \in Parameters : unit[p] \in ValuesOf(p)
    BY DEF Init, Parameters, Climate, Light, Running, ValuesOf, AcModes
  <2>3. unit["ac.operst"] = 0 /\ unit["ac.actext"] = 16
    BY DEF Init, Parameters, Running
  <2> QED
    BY <2>1, <2>2, <2>3 DEF IsUnit
<1>2. /\ data \in [Parameters -> 0 .. 255 \cup {Unknown}]
      /\ \A p \in Parameters : data[p] # Unknown => data[p] \in ValuesOf(p)
  BY DEF Init
<1>3. todo \in [Callers -> Seq(Frames(Settable))]
  BY DEF Init
<1>4. count \in [calls : Nat, drops : Nat, acts : Nat]
  BY DEF Init
<1>5. unasked \in Seq(used) /\ up \in Seq(Frames(Settable)) /\ down \in Seq(Frames(used))
  BY DEF Init
<1> QED
  BY <1>1, <1>2, <1>3, <1>4, <1>5 DEF Init, TypeInv

\* The list that is sent after a reconnect names every parameter in use.
LEMMA AskedFor ==
    ASSUME used \in {Climate \cup Running, Light}
    PROVE  Subscriptions \in Seq(used) /\ \A p \in used : Has(Subscriptions, p)
<1>1. CASE used = Light
  <2>1. Subscriptions = << "ac.lgt", "ac.dmr" >>
    BY <1>1 DEF Subscriptions, LightSubscriptions
  <2>2. DOMAIN Subscriptions = {1, 2} /\ Subscriptions[1] = "ac.lgt" /\ Subscriptions[2] = "ac.dmr"
    BY <2>1
  <2> QED
    BY <1>1, <2>1, <2>2 DEF Has, Light
<1>2. CASE used # Light
  <2>1. Subscriptions = << "ac.on", "ac.md", "ac.operst", "ac.actext" >>
    BY <1>2 DEF Subscriptions, ClimateSubscriptions
  <2>2. /\ DOMAIN Subscriptions = {1, 2, 3, 4}
        /\ Subscriptions[1] = "ac.on" /\ Subscriptions[2] = "ac.md"
        /\ Subscriptions[3] = "ac.operst" /\ Subscriptions[4] = "ac.actext"
    <3>1. DOMAIN << "ac.on", "ac.md", "ac.operst", "ac.actext" >> = 1 .. 4
      OBVIOUS
    <3> QED
      BY <2>1, <3>1
  <2>3. used = {"ac.on", "ac.md", "ac.operst", "ac.actext"}
    BY <1>2 DEF Climate, Running
  <2> QED
    BY <2>1, <2>2, <2>3 DEF Has
<1> QED
  BY <1>1, <1>2

LEMMA LinkTyped ==
    ASSUME TypeInv, Reconnect \/ Drop
    PROVE  TypeInv'
<1>1. CASE Reconnect
  BY <1>1, AskedFor DEF Reconnect, TypeInv, Settable, IsUnit
<1>2. CASE Drop
  <2>1. count' \in [calls : Nat, drops : Nat, acts : Nat]
    BY <1>2, CountTyped DEF Drop
  <2>2. unasked' \in Seq(used) /\ up' \in Seq(Frames(Settable)) /\ down' \in Seq(Frames(used))
    BY <1>2 DEF Drop
  <2>3. want' \in Modes \cup {"off", "on", "any"} /\ light' \in Dimmed \cup {Plain, Dark, Unknown}
    BY <1>2 DEF Drop, TypeInv
  <2> QED
    BY <1>2, <2>1, <2>2, <2>3 DEF Drop, TypeInv, Settable, IsUnit
<1> QED
  BY <1>1, <1>2

LEMMA SubscribeTyped ==
    ASSUME TypeInv, Subscribe
    PROVE  TypeInv'
<1>1. unasked \in Seq(used) /\ unasked # << >> /\ down \in Seq(Frames(used))
  BY DEF TypeInv, Subscribe
<1>2. Tail(unasked) \in Seq(used) /\ Head(unasked) \in used
  BY <1>1, QueueSteps
<1>3. << Head(unasked) >> \in Seq(used)
  BY <1>2
<1>4. Values(unit, << Head(unasked) >>) \in Seq(Frames(used))
  BY <1>3, PublishTyped, UsedNames DEF TypeInv
<1>5. down' \in Seq(Frames(used))
  BY <1>1, <1>4, QueueSteps DEF Subscribe
<1> QED
  BY <1>2, <1>5 DEF Subscribe, TypeInv, Settable, IsUnit

LEMMA UnitTyped ==
    ASSUME TypeInv, UnitHandles \/ Remote \/ Acts
    PROVE  TypeInv'
<1>1. IsUnit(unit)'
  BY UnitMoves DEF IsUnit
<1>2. PICK ps : Published(ps)
  BY UnitMoves
<1>3. Values(unit', ps) \in Seq(Frames(used))
  <2>1. IsUnit(unit')
    BY UnitMoves
  <2> QED
    BY <1>2, <2>1, PublishTyped, UsedNames DEF Published
<1>4. down' \in Seq(Frames(used)) /\ (~linked => down' = down)
  BY <1>2, <1>3, QueueSteps DEF Published, TypeInv
<1>5. CASE UnitHandles
  <2>1. up' \in Seq(Frames(Settable)) /\ linked
    BY <1>5, QueueSteps DEF UnitHandles, TypeInv
  <2>2. light' \in Dimmed \cup {Plain, Dark, Unknown}
    BY <1>5 DEF UnitHandles, TypeInv
  <2> QED
    BY <1>1, <1>4, <1>5, <2>1, <2>2 DEF UnitHandles, TypeInv, Settable
<1>6. CASE Remote \/ Acts
  <2>1. /\ UNCHANGED << used, linked, unasked, up, data, todo, light >>
        /\ want' \in {want, "any"} /\ Counted("acts")
    BY <1>6 DEF Remote, Acts, UnitChanges
  <2>2. count' \in [calls : Nat, drops : Nat, acts : Nat]
    BY <2>1, CountTyped
  <2> QED
    BY <1>1, <1>4, <2>1, <2>2 DEF TypeInv, Settable
<1> QED
  BY <1>5, <1>6

LEMMA UpdateTyped ==
    ASSUME TypeInv, OnUpdate
    PROVE  TypeInv'
<1> DEFINE f == Head(down)
<1>1. down \in Seq(Frames(used)) /\ down # << >> /\ linked
  BY DEF TypeInv, OnUpdate
<1>2. f \in Frames(used) /\ Tail(down) \in Seq(Frames(used))
  BY <1>1, QueueSteps
<1>3. data' = [data EXCEPT ![f.p] = f.v]
  BY DEF OnUpdate
<1> HIDE DEF f
<1>4. f.p \in Parameters /\ f.v \in 0 .. 255 /\ f.v \in ValuesOf(f.p)
  BY <1>2 DEF Frames
<1>5. data \in [Parameters -> 0 .. 255 \cup {Unknown}]
  BY DEF TypeInv
<1>6. /\ data' \in [Parameters -> 0 .. 255 \cup {Unknown}]
      /\ \A p \in Parameters : data'[p] = IF p = f.p THEN f.v ELSE data[p]
  BY <1>3, <1>4, <1>5
<1>7. \A p \in Parameters : data'[p] # Unknown => data'[p] \in ValuesOf(p)
  BY <1>4, <1>6 DEF TypeInv
<1> QED
  BY <1>1, <1>2, <1>6, <1>7 DEF OnUpdate, TypeInv, Settable, IsUnit

LEMMA CallTyped ==
    ASSUME TypeInv, NEW c \in Callers, CallClimate(c) \/ CallLight(c)
    PROVE  TypeInv'
<1>1. Calls(c)
  BY DEF CallClimate, CallLight
<1>2. count' \in [calls : Nat, drops : Nat, acts : Nat]
  BY <1>1, CountTyped DEF Calls
<1>3. /\ todo' \in [Callers -> Seq(Frames(Settable))]
      /\ want' \in Modes \cup {"off", "on", "any"}
      /\ light' \in Dimmed \cup {Plain, Dark, Unknown}
  <2>1. CASE CallClimate(c)
    <3>1. PICK mode \in Modes \cup {"off", "on"} :
              /\ todo' = [todo EXCEPT ![c] =
                     IF mode = "on" THEN AcTurnOn ELSE AcSetHvacMode(data, mode)]
              /\ want' = IF Busy(Climate) \/ Misled(mode) THEN "any" ELSE mode
      BY <2>1 DEF CallClimate
    <3> DEFINE ws == IF mode = "on" THEN AcTurnOn ELSE AcSetHvacMode(data, mode)
    <3>2. ws \in Seq(Frames(Climate)) /\ Settable = Climate
      BY <2>1, ClimateWrites, UsedNames DEF CallClimate
    <3>3. todo' = [todo EXCEPT ![c] = ws]
      BY <3>1
    <3> HIDE DEF ws
    <3> QED
      BY <2>1, <3>1, <3>2, <3>3 DEF CallClimate, TypeInv
  <2>2. CASE CallLight(c)
    <3>1. PICK b \in Dimmed \cup {Plain, Dark} :
              /\ todo' = [todo EXCEPT ![c] =
                     CASE b = Plain -> LightTurnOn
                       [] b = Dark -> LightTurnOff
                       [] OTHER -> LightTurnOnAt(b)]
              /\ light' = IF Busy(Light) THEN Unknown ELSE b
      BY <2>2 DEF CallLight
    <3> DEFINE ws == CASE b = Plain -> LightTurnOn
                       [] b = Dark -> LightTurnOff
                       [] OTHER -> LightTurnOnAt(b)
    <3>2. ws \in Seq(Frames(Light)) /\ Settable = Light
      BY <2>2, LightWrites, UsedNames DEF CallLight
    <3>3. todo' = [todo EXCEPT ![c] = ws]
      BY <3>1
    <3> HIDE DEF ws
    <3> QED
      BY <2>2, <3>1, <3>2, <3>3 DEF CallLight, TypeInv
  <2> QED
    BY <2>1, <2>2
<1> QED
  BY <1>1, <1>2, <1>3 DEF Calls, queues, TypeInv, Settable, IsUnit

LEMMA WriteStepTyped ==
    ASSUME TypeInv, NEW c \in Callers, CallStep(c)
    PROVE  TypeInv'
<1>1. todo \in [Callers -> Seq(Frames(Settable))] /\ todo[c] \in Seq(Frames(Settable))
  BY DEF TypeInv
<1>2. CASE AsyncWrite(c)
  <2>1. Head(todo[c]) \in Frames(Settable) /\ Tail(todo[c]) \in Seq(Frames(Settable))
    BY <1>1, <1>2, QueueSteps DEF AsyncWrite
  <2>2. up' \in Seq(Frames(Settable))
    BY <1>2, <2>1, QueueSteps DEF AsyncWrite, TypeInv
  <2>3. todo' \in [Callers -> Seq(Frames(Settable))]
    BY <1>1, <1>2, <2>1 DEF AsyncWrite
  <2> QED
    BY <1>2, <2>2, <2>3 DEF AsyncWrite, TypeInv, Settable, IsUnit
<1>3. CASE WriteRefused(c)
  <2>1. todo' \in [Callers -> Seq(Frames(Settable))]
    BY <1>1, <1>3, QueueSteps DEF WriteRefused
  <2> QED
    BY <1>3, <2>1 DEF WriteRefused, queues, TypeInv, Settable, IsUnit
<1> QED
  BY <1>2, <1>3 DEF CallStep

LEMMA NextTyped == TypeInv /\ [Next]_vars => TypeInv'
<1> SUFFICES ASSUME TypeInv, [Next]_vars PROVE TypeInv'
  OBVIOUS
<1>1. CASE Reconnect \/ Drop
  BY <1>1, LinkTyped
<1>2. CASE Subscribe
  BY <1>2, SubscribeTyped
<1>3. CASE UnitHandles \/ Remote \/ Acts
  BY <1>3, UnitTyped
<1>4. CASE OnUpdate
  BY <1>4, UpdateTyped
<1>5. ASSUME NEW c \in Callers, CallClimate(c) \/ CallLight(c)
      PROVE  TypeInv'
  BY <1>5, CallTyped
<1>6. ASSUME NEW c \in Callers, CallStep(c)
      PROVE  TypeInv'
  BY <1>6, WriteStepTyped
<1>7. CASE UNCHANGED vars
  BY <1>7 DEF vars, queues, TypeInv, Settable, IsUnit
<1> QED
  BY <1>1, <1>2, <1>3, <1>4, <1>5, <1>6, <1>7 DEF Next, LinkStep

LEMMA AlwaysTyped == Spec => []TypeInv
BY InitTyped, NextTyped, PTL DEF Spec

\* Every variable has its type, and without a link nothing is in flight and
\* nothing is left to ask: no frame of one link is sent over the next.
THEOREM TypeCorrect == Spec => []TypeOK
<1>1. TypeInv => TypeOK
  <2> SUFFICES ASSUME TypeInv PROVE TypeOK
    OBVIOUS
  <2>1. used \subseteq Parameters
    BY UsedNames
  <2>2. unasked \in Seq(Parameters)
    BY <2>1, SeqMonotonic DEF TypeInv
  <2>3. Seq(Frames(Settable)) \subseteq Seq([p : Parameters, v : 0 .. 255])
    <3>1. Frames(Settable) \subseteq [p : Parameters, v : 0 .. 255]
      BY DEF Frames
    <3> QED
      BY <3>1, SeqMonotonic
  <2> QED
    BY <2>2, <2>3 DEF TypeInv, TypeOK, IsUnit
<1> QED
  BY <1>1, AlwaysTyped, PTL

(***************************************************************************)
(* What is shown.                                                          *)
(***************************************************************************)

\* While there is a link, a parameter that is not what the unit has is still
\* to be asked for, or its value is on its way.
CatchingUp ==
    linked =>
        \A p \in used \ OnChangeOnly :
            \/ Has(unasked, p)
            \/ Ends(down, p, data[p], unit[p])

LEMMA UsedStays ==
    ASSUME [Next]_vars
    PROVE  used' = used
<1>1. CASE Reconnect \/ Drop \/ LinkStep
  BY <1>1 DEF Reconnect, Drop, LinkStep, Subscribe, UnitHandles, OnUpdate
<1>2. CASE Remote \/ Acts
  BY <1>2 DEF Remote, Acts, UnitChanges
<1>3. ASSUME NEW c \in Callers, CallClimate(c) \/ CallLight(c) \/ CallStep(c)
      PROVE  used' = used
  BY <1>3 DEF CallClimate, CallLight, Calls, CallStep, AsyncWrite, WriteRefused
<1>4. CASE UNCHANGED vars
  BY <1>4 DEF vars
<1> QED
  BY <1>1, <1>2, <1>3, <1>4 DEF Next

LEMMA CatchingUpInit == Init => CatchingUp
BY DEF Init, CatchingUp

LEMMA CatchingUpNext == TypeInv /\ CatchingUp /\ [Next]_vars => CatchingUp'
<1> SUFFICES ASSUME TypeInv, CatchingUp, [Next]_vars, linked', used' = used,
                    NEW p \in used, p \notin OnChangeOnly
             PROVE  Has(unasked', p) \/ Ends(down', p, data'[p], unit'[p])
  <2> QED
    BY UsedStays DEF CatchingUp
<1>p. p \in Parameters /\ used \subseteq Parameters
  BY UsedNames
<1>s. down \in Seq(Frames(used)) /\ unasked \in Seq(used)
  BY DEF TypeInv
<1>1. CASE Reconnect
  <2>1. Has(Subscriptions, p)
    BY AskedFor DEF TypeInv
  <2> QED
    BY <1>1, <2>1 DEF Reconnect
<1>2. CASE Drop
  BY <1>2 DEF Drop
<1>i. CASE linked /\ Has(unasked, p) /\ unasked' = unasked
  BY <1>i
<1>d. ASSUME linked, ~Has(unasked, p) PROVE Ends(down, p, data[p], unit[p])
  BY <1>d DEF CatchingUp
<1>3. CASE Subscribe
  <2>1. linked /\ unasked # << >> /\ unasked' = Tail(unasked)
        /\ data' = data /\ unit' = unit
    BY <1>3 DEF Subscribe
  <2>2. CASE p = Head(unasked)
    <3> DEFINE ps == << p >>
    <3>1. ps \in Seq(used) /\ ps \in Seq(Parameters) /\ DOMAIN ps = {1} /\ ps[1] = p
      BY <1>p
    <3>2. down' = down \o Values(unit, ps)
      BY <1>3, <2>2 DEF Subscribe
    <3> HIDE DEF ps
    <3>3. Has(ps, p)
      BY <3>1 DEF Has
    <3>4. Values(unit, ps) \in Seq(Frames(used))
      BY <1>p, <3>1, PublishTyped DEF TypeInv
    <3> QED
      BY <1>s, <2>1, <3>1, <3>2, <3>3, <3>4, EndsPublish
  <2>3. CASE p # Head(unasked) /\ Has(unasked, p)
    BY <1>s, <2>1, <2>3, HasTail
  <2>4. CASE p # Head(unasked) /\ ~Has(unasked, p)
    <3>1. Ends(down, p, data[p], unit[p])
      BY <1>d, <2>1, <2>4
    <3>2. CASE Head(unasked) \in OnChangeOnly
      BY <1>3, <2>1, <3>1, <3>2 DEF Subscribe
    <3>3. CASE Head(unasked) \notin OnChangeOnly
      <4> DEFINE ps == << Head(unasked) >>
      <4>1. Head(unasked) \in used
        BY <1>s, <2>1, QueueSteps
      <4>2. ps \in Seq(used) /\ ps \in Seq(Parameters) /\ DOMAIN ps = {1} /\ ps[1] = Head(unasked)
        BY <1>p, <4>1
      <4>3. down' = down \o Values(unit, ps)
        BY <1>3, <3>3 DEF Subscribe
      <4> HIDE DEF ps
      <4>4. ~Has(ps, p)
        BY <2>4, <4>2 DEF Has
      <4>5. Values(unit, ps) \in Seq(Frames(used))
        BY <1>p, <4>2, PublishTyped DEF TypeInv
      <4> QED
        BY <1>s, <2>1, <3>1, <4>2, <4>3, <4>4, <4>5, EndsPublish
    <3> QED
      BY <3>2, <3>3
  <2> QED
    BY <2>2, <2>3, <2>4
<1>4. CASE UnitHandles \/ Remote \/ Acts
  <2>1. linked /\ unasked' = unasked /\ data' = data
    BY <1>4 DEF UnitHandles, Remote, Acts, UnitChanges, TypeInv
  <2>2. CASE ~Has(unasked, p)
    <3>1. IsUnit(unit')
      BY <1>4, UnitMoves
    <3>2. PICK ps : Published(ps)
      BY <1>4, UnitMoves
    <3>3. ps \in Seq(used) /\ ps \in Seq(Parameters) /\ Values(unit', ps) \in Seq(Frames(used))
      BY <1>p, <3>1, <3>2, PublishTyped DEF Published
    <3>4. down' = down \o Values(unit', ps)
      BY <2>1, <3>2 DEF Published
    <3>5. IF Has(ps, p) THEN unit'[p] = unit'[p] ELSE Ends(down, p, data[p], unit'[p])
      BY <1>d, <2>1, <2>2, <3>2 DEF Published
    <3>6. Ends(down \o Values(unit', ps), p, data[p], unit'[p])
      BY <1>s, <3>3, <3>5, EndsPublish
    <3> QED
      BY <2>1, <3>4, <3>6
  <2> QED
    BY <1>i, <2>1, <2>2
<1>5. CASE OnUpdate
  <2>1. linked /\ unasked' = unasked /\ unit' = unit /\ down # << >> /\ down' = Tail(down)
        /\ data' = [data EXCEPT ![Head(down).p] = Head(down).v]
    BY <1>5 DEF OnUpdate, TypeInv
  <2>2. CASE ~Has(unasked, p)
    <3>1. Ends(Tail(down), p, IF Head(down).p = p THEN Head(down).v ELSE data[p], unit[p])
      BY <1>d, <1>s, <2>1, <2>2, EndsTail
    <3>2. data'[p] = IF Head(down).p = p THEN Head(down).v ELSE data[p]
      BY <1>p, <2>1 DEF TypeInv
    <3> QED
      BY <2>1, <3>1, <3>2
  <2> QED
    BY <1>i, <2>1, <2>2
<1>6. ASSUME UNCHANGED << linked, unasked, down, data, unit >>
      PROVE  Has(unasked', p) \/ Ends(down', p, data'[p], unit'[p])
  BY <1>6, <1>d
<1>7. ASSUME NEW c \in Callers, CallClimate(c) \/ CallLight(c) \/ CallStep(c)
      PROVE  UNCHANGED << linked, unasked, down, data, unit >>
  BY <1>7 DEF CallClimate, CallLight, Calls, CallStep, AsyncWrite, WriteRefused, queues
<1>8. CASE UNCHANGED vars
  BY <1>6, <1>8 DEF vars, queues
<1> QED
  BY <1>1, <1>2, <1>3, <1>4, <1>5, <1>6, <1>7, <1>8 DEF Next, LinkStep

LEMMA AlwaysCatchingUp == Spec => []CatchingUp
BY AlwaysTyped, CatchingUpInit, CatchingUpNext, PTL DEF Spec

\* At rest what is shown is what the unit has.
LEMMA RestIsTrue ==
    ASSUME TypeInv, CatchingUp, Quiet, NEW p \in used, p \notin OnChangeOnly
    PROVE  data[p] = unit[p]
<1>1. linked /\ unasked = << >> /\ down = << >>
  BY DEF Quiet
<1>2. ~Has(unasked, p)
  BY <1>1 DEF Has
<1> QED
  BY <1>1, <1>2, EndsEmpty DEF CatchingUp

\* The action that is made of the values of a unit that is on.
LEMMA ActionOfUnit ==
    ASSUME TypeInv, used # Light, unit["ac.on"] = 1,
           \A p \in used : p \notin OnChangeOnly => data[p] = unit[p],
           data["ac.operst"] \in {Unknown, unit["ac.operst"]},
           data["ac.operst"] = Unknown =>
               AcHvacMode(data) # "auto" /\ Suits(unit["ac.operst"], AcHvacMode(data)),
           NEW n \in 1 .. 2
    PROVE  AcHvacAction(data) = ActionOfOperst[n + 1] <=> unit["ac.operst"] = n
<1>1. /\ used = {"ac.on", "ac.md", "ac.operst", "ac.actext"} /\ used \subseteq Parameters
      /\ OnChangeOnly = {"ac.operst"}
  BY UsedNames DEF Climate, Running, OnChangeOnly
<1>2. /\ data["ac.on"] = 1 /\ data["ac.md"] = unit["ac.md"] /\ data["ac.actext"] = unit["ac.actext"]
  BY <1>1
<1>3. /\ unit["ac.md"] \in 0 .. 4 /\ unit["ac.operst"] \in 0 .. 2
      /\ unit["ac.actext"] = IF unit["ac.operst"] = 0 THEN 16 ELSE 18
  BY <1>1 DEF TypeInv, IsUnit, ValuesOf, AcModes
<1>4. AcHvacMode(data) = HvacOfMode[unit["ac.md"] + 1]
  BY <1>2, <1>3 DEF AcHvacMode, AcModes
<1>5. /\ ActionOfOperst[1] = "fan" /\ ActionOfOperst[2] = "cooling" /\ ActionOfOperst[3] = "heating"
  BY DEF ActionOfOperst
<1>6. CASE data["ac.operst"] = unit["ac.operst"]
  <2>1. AcHvacAction(data) = ActionOfOperst[unit["ac.operst"] + 1]
    BY <1>2, <1>3, <1>6 DEF AcHvacAction, Unknown
  <2>2. n = 1 \/ n = 2
    OBVIOUS
  <2>3. unit["ac.operst"] = 0 \/ unit["ac.operst"] = 1 \/ unit["ac.operst"] = 2
    BY <1>3
  <2> QED
    BY <1>5, <2>1, <2>2, <2>3
<1>7. CASE data["ac.operst"] = Unknown
  <2>1. AcHvacAction(data) = ActiveComponents(data)
    BY <1>2, <1>7 DEF AcHvacAction, Unknown
  <2>2. n = 1 \/ n = 2
    OBVIOUS
  <2>3. CASE unit["ac.operst"] = 0
    <3>1. data["ac.actext"] = 16 /\ ~Compressor(16) /\ ~Heater(16) /\ 16 # Unknown
      BY <1>2, <1>3, <2>3 DEF Compressor, Heater, Unknown
    <3>2. ActiveComponents(data) \in {"fan", "idle"}
      BY <3>1 DEF ActiveComponents
    <3> QED
      BY <1>5, <2>1, <2>2, <2>3, <3>2
  <2>4. CASE unit["ac.operst"] # 0
    <3>1. data["ac.actext"] = 18 /\ Compressor(18) /\ 18 # Unknown
      BY <1>2, <1>3, <2>4 DEF Compressor, Unknown
    <3>2. ActiveComponents(data) = IF AcHvacMode(data) = "heat" THEN "heating" ELSE "cooling"
      BY <3>1 DEF ActiveComponents
    <3>3. unit["ac.operst"] = 1 => AcHvacMode(data) # "heat"
      BY <1>7 DEF Suits
    <3>4. unit["ac.operst"] = 2 => AcHvacMode(data) = "heat"
      BY <1>7 DEF Suits
    <3>5. unit["ac.operst"] = 1 \/ unit["ac.operst"] = 2
      BY <1>3, <2>4
    <3> QED
      BY <1>5, <2>1, <2>2, <3>2, <3>3, <3>4, <3>5
  <2> QED
    BY <2>3, <2>4
<1> QED
  BY <1>6, <1>7

\* When everything written has been applied and has come back, the entities
\* show the unit, whatever happened before: reconnects, the remote control,
\* the unit's own changes.  Only ac.operst may be out of date, and where it is
\* not, the action shown is the unit's.
THEOREM AtRestTheUnitIsShown == Spec => []ShowsTheUnit
<1>1. TypeInv /\ CatchingUp => ShowsTheUnit
  <2> SUFFICES ASSUME TypeInv, CatchingUp PROVE ShowsTheUnit
    OBVIOUS
  <2>1. ShownIsUnit
    BY RestIsTrue DEF ShownIsUnit
  <2>2. ActionIsTrue
    BY RestIsTrue, ActionOfUnit DEF ActionIsTrue
  <2> QED
    BY <2>1, <2>2 DEF ShowsTheUnit
<1> QED
  BY <1>1, AlwaysTyped, AlwaysCatchingUp, PTL

(***************************************************************************)
(* What was asked for.                                                     *)
(***************************************************************************)

\* At most one caller, c, is still writing.
OnlyOne(c) == \A d \in Callers : d # c => todo[d] = << >>

\* When all that was ordered has been applied, the unit has p at v.
Lands(p, v) == \E c \in Callers : OnlyOne(c) /\ Ends(up \o todo[c], p, unit[p], v)

\* Nothing is left to write when the link is gone.
NothingLeft == ~linked => \A c \in Callers : todo[c] = << >>

\* Unchanged by what leaves the queue, the writers and the parameter alone.
LEMMA LandsStays ==
    ASSUME NEW p, NEW v, Lands(p, v), up' = up, todo' = todo, unit'[p] = unit[p]
    PROVE  Lands(p, v)'
BY DEF Lands, OnlyOne

\* A write that is sent only moves from the caller's list to the queue.
LEMMA LandsAsyncWrite ==
    ASSUME TypeInv, NEW d \in Callers, AsyncWrite(d), NEW p, NEW v, Lands(p, v)
    PROVE  Lands(p, v)'
<1> DEFINE S == Frames(Settable)
<1>1. up \in Seq(S) /\ todo \in [Callers -> Seq(S)]
  BY DEF TypeInv
<1>2. PICK c \in Callers : OnlyOne(c) /\ Ends(up \o todo[c], p, unit[p], v)
  BY DEF Lands
<1>3. todo[d] # << >> /\ unit' = unit
      /\ up' = Append(up, Head(todo[d])) /\ todo' = [todo EXCEPT ![d] = Tail(@)]
  BY DEF AsyncWrite
<1>4. d = c
  BY <1>2, <1>3 DEF OnlyOne
<1>5. todo'[c] = Tail(todo[c]) /\ \A e \in Callers : e # c => todo'[e] = todo[e]
  BY <1>1, <1>3, <1>4
<1> DEFINE q == todo[c]
<1>6. q \in Seq(S) /\ q # << >>
  BY <1>1, <1>3, <1>4
<1> HIDE DEF q, S
<1>7. Append(up, Head(q)) \o Tail(q) = up \o q
  <2>1. Head(q) \in S /\ Tail(q) \in Seq(S) /\ q = << Head(q) >> \o Tail(q)
    BY <1>6
  <2>2. Append(up, Head(q)) = up \o << Head(q) >> /\ << Head(q) >> \in Seq(S)
    BY <1>1, <2>1
  <2>3. (up \o << Head(q) >>) \o Tail(q) = up \o (<< Head(q) >> \o Tail(q))
    BY <1>1, <2>1, <2>2, ConcatAssociative
  <2> QED
    BY <2>1, <2>2, <2>3
<1>8. up' \o todo'[c] = up \o todo[c]
  BY <1>3, <1>4, <1>5, <1>7 DEF q
<1> QED
  BY <1>2, <1>3, <1>5, <1>8 DEF Lands, OnlyOne

\* What is pending behind the first frame is still there without it.
LEMMA StillPending ==
    ASSUME TypeInv, up # << >>, NEW p, Pending({p}), Head(up).p # p,
           NEW c \in Callers, OnlyOne(c)
    PROVE  ~Absent(Tail(up \o todo[c]), p)
<1> DEFINE S == Frames(Settable)
           q == todo[c]
           s == up \o q
<1>1. up \in Seq(S) /\ q \in Seq(S)
  BY DEF TypeInv
<1>2. (\E i \in DOMAIN q : q[i].p = p) \/ \E i \in DOMAIN up : up[i].p = p
  <2>1. ASSUME NEW d \in Callers, NEW i \in DOMAIN todo[d], todo[d][i].p = p
        PROVE  d = c
    BY <2>1 DEF OnlyOne
  <2> QED
    BY <2>1 DEF Pending
<1> HIDE DEF q, S
<1>3. /\ Len(up) \in Nat \ {0} /\ Len(q) \in Nat
      /\ DOMAIN up = 1 .. Len(up) /\ DOMAIN q = 1 .. Len(q) /\ Head(up) = up[1]
      /\ \A i \in DOMAIN up : s[i] = up[i]
      /\ \A i \in DOMAIN q : s[Len(up) + i] = q[i]
      /\ DOMAIN Tail(s) = 1 .. Len(up) + Len(q) - 1
      /\ \A i \in DOMAIN Tail(s) : Tail(s)[i] = s[i + 1]
  BY <1>1
<1> HIDE DEF s
<1>4. ASSUME NEW i \in DOMAIN q, q[i].p = p PROVE ~Absent(Tail(s), p)
  <2>1. Len(up) + i - 1 \in DOMAIN Tail(s) /\ (Len(up) + i - 1) + 1 = Len(up) + i
    BY <1>3
  <2>2. Tail(s)[Len(up) + i - 1].p = p
    BY <1>3, <1>4, <2>1
  <2> QED
    BY <2>1, <2>2 DEF Absent
<1>5. ASSUME NEW i \in DOMAIN up, up[i].p = p PROVE ~Absent(Tail(s), p)
  <2>1. i # 1
    BY <1>3, <1>5
  <2>2. i - 1 \in DOMAIN Tail(s) /\ (i - 1) + 1 = i
    BY <1>3, <2>1
  <2>3. Tail(s)[i - 1].p = p
    BY <1>3, <1>5, <2>2
  <2> QED
    BY <2>2, <2>3 DEF Absent
<1> QED
  BY <1>2, <1>4, <1>5 DEF s, q

\* A write that is applied decides no more than before, but for the dimmer that
\* the switch resets.
LEMMA LandsUnitHandles ==
    ASSUME TypeInv, UnitHandles, NEW p \in Parameters, NEW v, Lands(p, v),
           p = "ac.dmr" => ~DimmerReset
    PROVE  Lands(p, v)'
<1> DEFINE S == Frames(Settable)
<1>1. up \in Seq(S) /\ todo \in [Callers -> Seq(S)] /\ up # << >>
  BY DEF TypeInv, UnitHandles
<1>2. PICK c \in Callers : OnlyOne(c) /\ Ends(up \o todo[c], p, unit[p], v)
  BY DEF Lands
<1>3. up' = Tail(up) /\ todo' = todo /\ unit' \in Applied(Head(up))
  BY DEF UnitHandles
<1>4. Head(up) \in Frames(Parameters \ Running)
  <2>1. S \subseteq Frames(Parameters \ Running)
    BY UsedNames, FramesGrow
  <2> QED
    BY <1>1, <2>1, QueueSteps
<1>5. \/ unit'[p] = IF Head(up).p = p THEN Head(up).v ELSE unit[p]
      \/ Head(up).p # p /\ Pending({p})
  <2>1. IsUnit(unit)
    BY DEF TypeInv
  <2>2. /\ unit'[Head(up).p] = Head(up).v
        /\ \A o \in Parameters :
               o # Head(up).p => unit'[o] = unit[o] \/ (Head(up).p = "ac.lgt" /\ o = "ac.dmr")
    BY <1>3, <1>4, <2>1, AppliedTyped
  <2> QED
    BY <2>2 DEF DimmerReset
<1> DEFINE q == todo[c]
           s == up \o q
<1>6. q \in Seq(S)
  BY <1>1
<1> HIDE DEF q, S
<1>7. s \in Seq(S) /\ s # << >> /\ Head(s) = Head(up) /\ Tail(s) = Tail(up) \o q
  <2>1. s \in Seq(S)
    BY <1>1, <1>6
  <2>2. s # << >>
    BY <1>1, <1>6
  <2>3. Head(s) = Head(up)
    BY <1>1, <1>6
  <2>4. Tail(s) = Tail(up) \o q
    BY <1>1, <1>6
  <2> QED
    BY <2>1, <2>2, <2>3, <2>4
<1>8. Ends(Tail(s), p, unit'[p], v)
  <2> HIDE DEF s
  <2>1. Ends(s, p, unit[p], v)
    BY <1>2 DEF q, s
  <2>2. Ends(Tail(s), p, IF Head(up).p = p THEN Head(up).v ELSE unit[p], v)
    BY <1>7, <2>1, EndsTail
  <2>3. CASE unit'[p] = IF Head(up).p = p THEN Head(up).v ELSE unit[p]
    BY <2>2, <2>3
  <2>4. CASE Head(up).p # p /\ Pending({p})
    <3>1. ~Absent(Tail(s), p)
      BY <1>1, <1>2, <1>6, <1>7, <2>4, StillPending DEF q, s, OnlyOne
    <3> QED
      BY <2>2, <3>1 DEF Ends
  <2> QED
    BY <1>5, <2>3, <2>4
<1>9. Ends(up' \o todo'[c], p, unit'[p], v)
  BY <1>3, <1>7, <1>8 DEF q
<1> QED
  BY <1>2, <1>3, <1>9 DEF Lands, OnlyOne

\* If nothing settable is pending, all is written and applied.
LEMMA NothingPending ==
    ASSUME TypeInv
    PROVE  /\ ~Busy(Settable) => \A c \in Callers : todo[c] = << >>
           /\ ~Pending(Settable) => up = << >> /\ \A c \in Callers : todo[c] = << >>
<1>1. \A s \in Seq(Frames(Settable)) : s # << >> => \E i \in DOMAIN s : s[i].p \in Settable
  <2> SUFFICES ASSUME NEW s \in Seq(Frames(Settable)), s # << >>
               PROVE  \E i \in DOMAIN s : s[i].p \in Settable
    OBVIOUS
  <2>1. 1 \in DOMAIN s /\ s[1] \in Frames(Settable)
    OBVIOUS
  <2> QED
    BY <2>1 DEF Frames
<1>2. up \in Seq(Frames(Settable)) /\ \A c \in Callers : todo[c] \in Seq(Frames(Settable))
  BY DEF TypeInv
<1> QED
  BY <1>1, <1>2 DEF Busy, Pending

\* A new call, when no other writes, has the last word.
LEMMA LandsCall ==
    ASSUME TypeInv, ~Busy(Settable), NEW c \in Callers, NEW ws,
           todo' = [todo EXCEPT ![c] = ws], up' = up, unit' = unit,
           NEW p, NEW v, Ends(up \o ws, p, unit[p], v)
    PROVE  Lands(p, v)'
<1>1. \A d \in Callers : todo[d] = << >>
  BY NothingPending
<1>2. todo'[c] = ws /\ \A d \in Callers : d # c => todo'[d] = << >>
  BY <1>1 DEF TypeInv
<1> QED
  BY <1>2 DEF Lands, OnlyOne

\* The last word of one write and of two.
LEMMA EndsOne ==
    ASSUME NEW S, NEW s \in Seq(S), NEW f \in S, NEW p, NEW d, NEW v,
           IF f.p = p THEN f.v = v ELSE Ends(s, p, d, v)
    PROVE  Ends(s \o << f >>, p, d, v)
<1>1. s \o << f >> = Append(s, f)
  OBVIOUS
<1>2. Ends(Append(s, f), p, d, v)
  BY EndsAppend
<1> QED
  BY <1>1, <1>2

LEMMA EndsTwo ==
    ASSUME NEW S, NEW s \in Seq(S), NEW f \in S, NEW g \in S, NEW p, NEW d, NEW v,
           IF g.p = p THEN g.v = v ELSE f.p = p /\ f.v = v
    PROVE  Ends(s \o << f, g >>, p, d, v)
<1>1. Append(s, f) \in Seq(S) /\ s \o << f, g >> = Append(Append(s, f), g)
  OBVIOUS
<1>2. f.p = p /\ f.v = v => Ends(Append(s, f), p, d, v)
  BY EndsAppend
<1>3. Ends(Append(Append(s, f), g), p, d, v)
  BY <1>1, <1>2, EndsAppend
<1> QED
  BY <1>1, <1>3

LEMMA EndsPair ==
    ASSUME NEW S, NEW s \in Seq(S), NEW f \in S, NEW g \in S, NEW p, NEW d, NEW v,
           IF g.p = p THEN g.v = v ELSE f.p = p /\ f.v = v
    PROVE  Ends(s \o (<< f >> \o << g >>), p, d, v)
<1>1. /\ << f >> \in Seq(S) /\ << g >> \in Seq(S)
      /\ s \o << f >> \in Seq(S)
  OBVIOUS
<1>2. s \o (<< f >> \o << g >>) = (s \o << f >>) \o << g >>
  BY <1>1, ConcatAssociative
<1>3. f.p = p /\ f.v = v => Ends(s \o << f >>, p, d, v)
  BY EndsOne
<1>4. Ends((s \o << f >>) \o << g >>, p, d, v)
  BY <1>1, <1>3, EndsOne
<1> QED
  BY <1>2, <1>4

\* At rest, what was to land has landed and is shown.
LEMMA Landed ==
    ASSUME TypeInv, CatchingUp, Quiet, NEW p \in used, p \notin OnChangeOnly, NEW v, Lands(p, v)
    PROVE  data[p] = v
<1>1. PICK c \in Callers : Ends(up \o todo[c], p, unit[p], v)
  BY DEF Lands
<1>2. up \o todo[c] = << >>
  BY DEF Quiet
<1> QED
  BY <1>1, <1>2, EndsEmpty, RestIsTrue

\* The steps that order nothing: what was to land still is, and nothing is left
\* to write when they end without a link.
LEMMA OrdersStay ==
    ASSUME TypeInv, NothingLeft,
           \/ Reconnect \/ Subscribe \/ OnUpdate \/ UnitHandles \/ Acts \/ UNCHANGED vars
           \/ \E c \in Callers : CallStep(c)
           \/ Drop /\ ~Pending(Settable),
           NEW p \in Settable, NEW v
    PROVE  /\ NothingLeft'
           /\ Lands(p, v) /\ ~(UnitHandles /\ DimmerReset /\ p = "ac.dmr") => Lands(p, v)'
<1>p. p \in Parameters /\ p \notin Running
  BY UsedNames
<1>1. CASE Reconnect \/ Subscribe \/ OnUpdate \/ UNCHANGED vars
  <2>1. up' = up /\ todo' = todo /\ unit' = unit /\ (linked' \/ linked' = linked)
    BY <1>1 DEF Reconnect, Subscribe, OnUpdate, vars, queues
  <2> QED
    BY <2>1, LandsStays DEF NothingLeft
<1>2. CASE UnitHandles
  <2>1. linked' = linked /\ todo' = todo
    BY <1>2 DEF UnitHandles
  <2> QED
    BY <1>2, <1>p, <2>1, LandsUnitHandles DEF NothingLeft
<1>3. CASE Acts
  <2>1. PICK operst, actext :
            UnitChanges([unit EXCEPT !["ac.operst"] = operst, !["ac.actext"] = actext])
    BY <1>3 DEF Acts
  <2>2. unit'[p] = unit[p]
    BY <1>p, <2>1 DEF UnitChanges, TypeInv, IsUnit, Running
  <2>3. linked' = linked /\ up' = up /\ todo' = todo
    BY <2>1 DEF UnitChanges
  <2> QED
    BY <2>2, <2>3, LandsStays DEF NothingLeft
<1>4. ASSUME NEW c \in Callers, CallStep(c)
      PROVE  AsyncWrite(c) /\ linked
  BY <1>4 DEF CallStep, AsyncWrite, WriteRefused, NothingLeft
<1>5. ASSUME NEW c \in Callers, CallStep(c)
      PROVE  /\ NothingLeft'
             /\ Lands(p, v) => Lands(p, v)'
  <2>1. AsyncWrite(c) /\ linked'
    BY <1>4, <1>5 DEF AsyncWrite
  <2> QED
    BY <2>1, LandsAsyncWrite DEF NothingLeft
<1>6. CASE Drop /\ ~Pending(Settable)
  <2>1. up = << >> /\ \A c \in Callers : todo[c] = << >>
    BY <1>6, NothingPending
  <2>2. up' = up /\ todo' = todo /\ unit' = unit
    BY <1>6, <2>1 DEF Drop
  <2> QED
    BY <2>1, <2>2, LandsStays DEF NothingLeft
<1> QED
  BY <1>1, <1>2, <1>3, <1>5, <1>6

WantLands ==
    want # "any" =>
        /\ used # Light /\ NothingLeft
        /\ want \in Modes => Lands("ac.on", 1) /\ Lands("ac.md", ModeOfHvac(want))
        /\ want = "on" => Lands("ac.on", 1)
        /\ want = "off" => Lands("ac.on", 0)

\* A call that finds no other writing has the last word, also on whether the
\* unit is on, if it is not misled about that.
LEMMA ClimateCallLands ==
    ASSUME TypeInv, NEW c \in Callers, CallClimate(c), want' # "any"
    PROVE  WantLands'
<1> DEFINE S == Frames(Settable)
<1>1. /\ used # Light /\ used' = used /\ linked /\ linked' = linked
      /\ up' = up /\ unit' = unit
      /\ Settable = Climate
  BY UsedNames DEF CallClimate, Calls, queues
<1>2. PICK mode \in Modes \cup {"off", "on"} :
          /\ todo' = [todo EXCEPT ![c] =
                 IF mode = "on" THEN AcTurnOn ELSE AcSetHvacMode(data, mode)]
          /\ want' = IF Busy(Climate) \/ Misled(mode) THEN "any" ELSE mode
  BY DEF CallClimate
<1>3. ~Busy(Settable) /\ ~Misled(mode) /\ want' = mode
  BY <1>1, <1>2
<1>4. NothingLeft'
  BY <1>1 DEF NothingLeft
<1>5. up \in Seq(S)
  BY DEF TypeInv
<1>6. \A v \in 0 .. 1 : LET f == Write("ac.on", v) IN f \in S /\ f.p = "ac.on" /\ f.v = v
  BY <1>1, WriteTyped DEF Climate, Parameters, ValuesOf
<1> HIDE DEF S
<1>7. CASE mode \in {"on", "off"}
  <2> DEFINE v == IF mode = "on" THEN 1 ELSE 0
             f == Write("ac.on", v)
             ws == << f >>
  <2>1. f \in S /\ f.p = "ac.on" /\ f.v = v
    BY <1>6
  <2>2. todo' = [todo EXCEPT ![c] = ws]
    BY <1>2, <1>7 DEF AcTurnOn, AcTurnOff, AcSetHvacMode
  <2> HIDE DEF f, v
  <2>3. Ends(up \o ws, "ac.on", unit["ac.on"], v)
    BY <1>5, <2>1, EndsOne
  <2>4. Lands("ac.on", v)'
    <3> HIDE DEF ws
    <3> QED
      BY <1>1, <1>3, <2>2, <2>3, LandsCall
  <2>5. mode \notin Modes
    BY <1>7, ModeCodes
  <2> QED
    BY <1>1, <1>3, <1>4, <1>7, <2>4, <2>5 DEF WantLands, v
<1>8. CASE mode \in Modes
  <2> DEFINE code == ModeOfHvac(mode)
             g == Write("ac.md", code)
  <2>1. g \in S /\ g.p = "ac.md" /\ g.v = code /\ mode \notin {"off", "on", "any"}
    BY <1>1, <1>8, ModeCodes, WriteTyped DEF Climate, Parameters, ValuesOf, S
  <2> HIDE DEF g, code
  <2>2. CASE data["ac.on"] > 0
    <3> DEFINE ws == << g >>
    <3>1. << >> \o ws = ws
      OBVIOUS
    <3>2. AcSetHvacMode(data, mode) = ws
      BY <2>1, <2>2, <3>1 DEF AcSetHvacMode, g, code
    <3>3. todo' = [todo EXCEPT ![c] = ws]
      BY <1>2, <2>1, <3>2
    <3>4. Ends(up, "ac.on", unit["ac.on"], 1)
      BY <1>3, <1>8, <2>2 DEF Misled
    <3>5. Ends(up \o ws, "ac.on", unit["ac.on"], 1)
      BY <1>5, <2>1, <3>4, EndsOne
    <3>6. Ends(up \o ws, "ac.md", unit["ac.md"], code)
      BY <1>5, <2>1, EndsOne
    <3> HIDE DEF ws
    <3>7. Lands("ac.on", 1)' /\ Lands("ac.md", code)'
      BY <1>1, <1>3, <3>3, <3>5, <3>6, LandsCall
    <3> QED
      BY <1>1, <1>3, <1>4, <1>8, <2>1, <3>7 DEF WantLands, code
  <2>3. CASE ~(data["ac.on"] > 0)
    <3> DEFINE f == Write("ac.on", 1)
               ws == << f >> \o << g >>
    <3>2. AcSetHvacMode(data, mode) = ws
      BY <2>1, <2>3 DEF AcSetHvacMode, g, code
    <3>3. todo' = [todo EXCEPT ![c] = ws]
      BY <1>2, <2>1, <3>2
    <3>4. f \in S /\ f.p = "ac.on" /\ f.v = 1
      BY <1>6
    <3> HIDE DEF f
    <3>5. Ends(up \o ws, "ac.on", unit["ac.on"], 1)
      BY <1>5, <2>1, <3>4, EndsPair
    <3>6. Ends(up \o ws, "ac.md", unit["ac.md"], code)
      BY <1>5, <2>1, <3>4, EndsPair
    <3> HIDE DEF ws
    <3>7. Lands("ac.on", 1)' /\ Lands("ac.md", code)'
      BY <1>1, <1>3, <3>3, <3>5, <3>6, LandsCall
    <3> QED
      BY <1>1, <1>3, <1>4, <1>8, <2>1, <3>7 DEF WantLands, code
  <2> QED
    BY <2>2, <2>3
<1> QED
  BY <1>7, <1>8

LEMMA WantLandsNext == TypeInv /\ WantLands /\ [Next]_vars => WantLands'
<1> SUFFICES ASSUME TypeInv, WantLands, [Next]_vars, want' # "any"
             PROVE  WantLands'
  BY DEF WantLands
<1>1. ASSUME NEW c \in Callers, CallClimate(c)
      PROVE  WantLands'
  BY <1>1, ClimateCallLands
<1>2. CASE Remote
  BY <1>2 DEF Remote
<1>3. ASSUME ~Remote, ~\E c \in Callers : CallClimate(c)
      PROVE  want' = want /\ (Drop => ~Pending(Climate))
  <2>1. CASE Reconnect \/ Drop \/ LinkStep \/ Acts
    BY <2>1 DEF Reconnect, Drop, LinkStep, Subscribe, UnitHandles, OnUpdate, Acts
  <2>2. ASSUME NEW c \in Callers, CallLight(c) \/ CallStep(c)
        PROVE  want' = want /\ ~Drop
    BY <2>2 DEF CallLight, Calls, CallStep, AsyncWrite, WriteRefused, Drop
  <2>3. CASE UNCHANGED vars
    BY <2>3 DEF vars, queues, Drop
  <2> QED
    BY <1>3, <2>1, <2>2, <2>3 DEF Next
<1>4. ASSUME ~Remote, ~\E c \in Callers : CallClimate(c)
      PROVE  WantLands'
  <2>1. want # "any" /\ want' = want
    BY <1>3, <1>4
  <2>2. used # Light /\ NothingLeft /\ used' = used /\ Settable = Climate
    BY <2>1, UsedStays, UsedNames DEF WantLands
  <2>3. \A c \in Callers : ~CallLight(c)
    BY <2>2 DEF CallLight
  <2>4. ASSUME NEW p \in Settable, p # "ac.dmr", NEW v
        PROVE  NothingLeft' /\ (Lands(p, v) => Lands(p, v)')
    BY <1>3, <1>4, <2>2, <2>3, <2>4, OrdersStay DEF Next, LinkStep
  <2>5. "ac.on" \in Settable /\ "ac.md" \in Settable
    BY <2>2 DEF Climate
  <2>6. \A v :
            /\ NothingLeft'
            /\ Lands("ac.on", v) => Lands("ac.on", v)'
            /\ Lands("ac.md", v) => Lands("ac.md", v)'
    BY <2>4, <2>5
  <2> QED
    BY <2>1, <2>2, <2>6 DEF WantLands
<1> QED
  BY <1>1, <1>2, <1>4

\* At rest the climate entity shows the mode that was asked for last: however
\* the writes of the calls, the answers to the subscriptions and what the unit
\* publishes overlap; LastWordWins names when it does not.
THEOREM TheLastModeWins == Spec => []LastWordWins
<1>1. Init => WantLands
  BY DEF Init, WantLands
<1>2. Spec => []WantLands
  BY <1>1, AlwaysTyped, WantLandsNext, PTL DEF Spec
<1>3. TypeInv /\ CatchingUp /\ WantLands => LastWordWins
  <2> SUFFICES ASSUME TypeInv, CatchingUp, WantLands, Quiet, want # "any"
               PROVE  /\ want \in Modes \cup {"off"} => AcHvacMode(data) = want
                      /\ want = "on" => AcHvacMode(data) # "off"
    BY ModeCodes DEF LastWordWins
  <2>1. used # Light /\ "ac.on" \in used /\ "ac.md" \in used
        /\ "ac.on" \notin OnChangeOnly /\ "ac.md" \notin OnChangeOnly
    BY UsedNames DEF WantLands, Climate, OnChangeOnly
  <2>2. /\ want \in Modes => data["ac.on"] = 1 /\ data["ac.md"] = ModeOfHvac(want)
        /\ want = "on" => data["ac.on"] = 1
        /\ want = "off" => data["ac.on"] = 0
    BY <2>1, Landed DEF WantLands
  <2>3. data["ac.md"] = unit["ac.md"] /\ unit["ac.md"] \in AcModes
    BY <2>1, RestIsTrue, UsedNames DEF TypeInv, IsUnit, ValuesOf
  <2>4. CASE want \in Modes
    <3>1. AcHvacMode(data) = HvacOfMode[ModeOfHvac(want) + 1]
      BY <2>2, <2>3, <2>4 DEF AcHvacMode
    <3> QED
      BY <2>4, <3>1, ModeCodes
  <2>5. CASE want = "off"
    BY <2>2, <2>5 DEF AcHvacMode
  <2>6. CASE want = "on"
    <3>1. AcHvacMode(data) = HvacOfMode[unit["ac.md"] + 1]
      BY <2>2, <2>3, <2>6 DEF AcHvacMode
    <3>2. \A md \in AcModes : HvacOfMode[md + 1] # "off"
      BY DEF AcModes, HvacOfMode
    <3> QED
      BY <2>3, <2>6, <3>1, <3>2, ModeCodes
  <2> QED
    BY <2>4, <2>5, <2>6
<1> QED
  BY <1>2, <1>3, AlwaysTyped, AlwaysCatchingUp, PTL

LightLands ==
    light # Unknown =>
        /\ used = Light /\ NothingLeft
        /\ light = Dark => Lands("ac.lgt", 0)
        /\ light # Dark => Lands("ac.lgt", 1)
        /\ light \in Dimmed => Lands("ac.dmr", Percent(light))

LEMMA LightCallLands ==
    ASSUME TypeInv, NEW c \in Callers, CallLight(c), light' # Unknown
    PROVE  LightLands'
<1> DEFINE S == Frames(Settable)
<1>1. /\ used = Light /\ used' = used /\ linked /\ linked' = linked
      /\ up' = up /\ unit' = unit
      /\ Settable = Light
  BY UsedNames DEF CallLight, Calls, queues
<1>2. PICK b \in Dimmed \cup {Plain, Dark} :
          /\ todo' = [todo EXCEPT ![c] =
                 CASE b = Plain -> LightTurnOn
                   [] b = Dark -> LightTurnOff
                   [] OTHER -> LightTurnOnAt(b)]
          /\ light' = IF Busy(Light) THEN Unknown ELSE b
  BY DEF CallLight
<1>3. ~Busy(Settable) /\ light' = b
  BY <1>1, <1>2
<1>4. NothingLeft'
  BY <1>1 DEF NothingLeft
<1>5. up \in Seq(S)
  BY DEF TypeInv
<1>6. \A v \in 0 .. 1 : LET f == Write("ac.lgt", v) IN f \in S /\ f.p = "ac.lgt" /\ f.v = v
  BY <1>1, WriteTyped DEF Light, Parameters, ValuesOf
<1>7. Plain # Dark /\ Plain \notin Dimmed /\ Dark \notin Dimmed
  BY FreshJetAssumption DEF Plain, Dark
<1>8. CASE b \in {Plain, Dark}
  <2> DEFINE v == IF b = Plain THEN 1 ELSE 0
             f == Write("ac.lgt", v)
             ws == << f >>
  <2>1. f \in S /\ f.p = "ac.lgt" /\ f.v = v
    BY <1>6
  <2>2. todo' = [todo EXCEPT ![c] = ws]
    <3> DEFINE ordered == CASE b = Plain -> LightTurnOn
                            [] b = Dark -> LightTurnOff
                            [] OTHER -> LightTurnOnAt(b)
    <3>1. ordered = ws
      <4>1. CASE b = Plain
        BY <1>7, <4>1 DEF LightTurnOn
      <4>2. CASE b = Dark
        BY <1>7, <4>2 DEF LightTurnOff
      <4> QED
        BY <1>8, <4>1, <4>2
    <3>2. todo' = [todo EXCEPT ![c] = ordered]
      BY <1>2
    <3> HIDE DEF ordered, ws
    <3> QED
      BY <3>1, <3>2
  <2> HIDE DEF f, v
  <2>3. Ends(up \o ws, "ac.lgt", unit["ac.lgt"], v)
    BY <1>5, <2>1, EndsOne
  <2> HIDE DEF ws
  <2>4. Lands("ac.lgt", v)'
    BY <1>1, <1>3, <2>2, <2>3, LandsCall
  <2> QED
    BY <1>1, <1>3, <1>4, <1>7, <1>8, <2>4 DEF LightLands, v
<1>9. CASE b \in Dimmed
  <2> DEFINE f == Write("ac.dmr", Percent(b))
             g == Write("ac.lgt", 1)
             ws == << f, g >>
  <2>1. f \in S /\ f.p = "ac.dmr" /\ f.v = Percent(b)
    <3>1. Percent(b) \in ValuesOf("ac.dmr")
      BY <1>9, PercentInRange, FreshJetAssumption DEF ValuesOf
    <3> QED
      BY <1>1, <3>1, WriteTyped DEF Light, Parameters, S
  <2>2. g \in S /\ g.p = "ac.lgt" /\ g.v = 1
    BY <1>6
  <2>3. todo' = [todo EXCEPT ![c] = ws]
    BY <1>2, <1>7, <1>9 DEF LightTurnOnAt
  <2> HIDE DEF f, g, S
  <2>4. Ends(up \o ws, "ac.lgt", unit["ac.lgt"], 1)
    BY <1>5, <2>1, <2>2, EndsTwo
  <2>5. Ends(up \o ws, "ac.dmr", unit["ac.dmr"], Percent(b))
    BY <1>5, <2>1, <2>2, EndsTwo
  <2> HIDE DEF ws
  <2>6. Lands("ac.lgt", 1)' /\ Lands("ac.dmr", Percent(b))'
    BY <1>1, <1>3, <2>3, <2>4, <2>5, LandsCall
  <2> QED
    BY <1>1, <1>3, <1>4, <1>7, <1>9, <2>6 DEF LightLands
<1> QED
  BY <1>8, <1>9

LEMMA LightLandsNext == TypeInv /\ LightLands /\ [Next]_vars => LightLands'
<1> SUFFICES ASSUME TypeInv, LightLands, [Next]_vars, light' # Unknown
             PROVE  LightLands'
  BY DEF LightLands
<1>1. ASSUME NEW c \in Callers, CallLight(c)
      PROVE  LightLands'
  BY <1>1, LightCallLands
<1>2. ASSUME ~\E c \in Callers : CallLight(c)
      PROVE  /\ light' \in {light, Plain} /\ (light = Dark => light' = Dark)
             /\ light' \in Dimmed => light' = light /\ ~(UnitHandles /\ DimmerReset)
             /\ light = Unknown => light' = Unknown
             /\ Drop => ~Pending(Light)
  <2>p. Plain \notin Dimmed /\ Dark \notin Dimmed /\ Unknown \notin Dimmed
    BY FreshJetAssumption DEF Plain, Dark, Unknown
  <2>1. CASE Reconnect \/ Drop \/ LinkStep \/ Remote \/ Acts
    BY <2>1, <2>p DEF Reconnect, Drop, LinkStep, Subscribe, UnitHandles, OnUpdate, Remote, Acts, UnitChanges
  <2>2. ASSUME NEW c \in Callers, CallClimate(c) \/ CallStep(c)
        PROVE  light' = light /\ ~Drop /\ ~DimmerReset
    BY <2>2 DEF CallClimate, Calls, CallStep, AsyncWrite, WriteRefused, Drop, DimmerReset
  <2>3. CASE UNCHANGED vars
    BY <2>3 DEF vars, queues, Drop, DimmerReset
  <2> QED
    BY <1>2, <2>1, <2>2, <2>3 DEF Next
<1>3. ASSUME ~\E c \in Callers : CallLight(c)
      PROVE  LightLands'
  <2>1. light # Unknown
    BY <1>2, <1>3
  <2>2. used = Light /\ NothingLeft /\ used' = used /\ Settable = Light
    BY <2>1, UsedStays, UsedNames DEF LightLands
  <2>3. ~Remote /\ \A c \in Callers : ~CallClimate(c)
    BY <2>2 DEF CallClimate, Remote
  <2>4. ASSUME NEW p \in Settable, NEW v
        PROVE  /\ NothingLeft'
               /\ ~(UnitHandles /\ DimmerReset /\ p = "ac.dmr") => (Lands(p, v) => Lands(p, v)')
    BY <1>2, <1>3, <2>2, <2>3, <2>4, OrdersStay DEF Next, LinkStep
  <2>5. "ac.lgt" \in Settable /\ "ac.dmr" \in Settable
    BY <2>2 DEF Light
  <2>6. \A v :
            /\ NothingLeft'
            /\ Lands("ac.lgt", v) => Lands("ac.lgt", v)'
            /\ ~(UnitHandles /\ DimmerReset) => (Lands("ac.dmr", v) => Lands("ac.dmr", v)')
    BY <2>4, <2>5
  <2>7. Plain # Dark /\ Plain \notin Dimmed
    BY FreshJetAssumption DEF Plain, Dark
  <2> QED
    BY <1>2, <1>3, <2>1, <2>2, <2>6, <2>7 DEF LightLands
<1> QED
  BY <1>1, <1>3

\* At rest the light is on or off as was asked for last, and as bright, up to
\* the step of the dimmer, for every brightness and whether or not switching on
\* resets the dimmer; LightObeys names what that undoes.
THEOREM TheLastLightWins == Spec => []LightObeys
<1>1. Init => LightLands
  BY DEF Init, LightLands
<1>2. Spec => []LightLands
  BY <1>1, AlwaysTyped, LightLandsNext, PTL DEF Spec
<1>3. TypeInv /\ CatchingUp /\ LightLands => LightObeys
  <2>1. Plain # Dark /\ Plain # Unknown /\ Dark # Unknown
        /\ \A b \in Dimmed : b \in 1 .. 255 /\ b # Unknown /\ b # Dark
    BY FreshJetAssumption DEF Plain, Dark, Unknown
  <2> SUFFICES ASSUME TypeInv, CatchingUp, LightLands, Quiet, light # Unknown
               PROVE  /\ light = Dark => LightIsOn(data) = "off"
                      /\ light \in Dimmed \cup {Plain} => LightIsOn(data) = "on"
                      /\ light \in Dimmed =>
                             Percent(LightBrightness(data)) = IF light = 1 THEN 1 ELSE Percent(light)
    BY <2>1 DEF LightObeys
  <2>2. "ac.lgt" \in used /\ "ac.dmr" \in used
        /\ "ac.lgt" \notin OnChangeOnly /\ "ac.dmr" \notin OnChangeOnly
    BY DEF LightLands, Light, OnChangeOnly
  <2>3. /\ light = Dark => data["ac.lgt"] = 0
        /\ light # Dark => data["ac.lgt"] = 1
        /\ light \in Dimmed => data["ac.dmr"] = Percent(light)
    BY <2>2, Landed DEF LightLands
  <2>4. light = Dark => LightIsOn(data) = "off"
    BY <2>3 DEF LightIsOn, Unknown
  <2>5. light # Dark => LightIsOn(data) = "on"
    BY <2>3 DEF LightIsOn, Unknown
  <2>6. ASSUME light \in Dimmed, light = 1
        PROVE  Percent(LightBrightness(data)) = 1
    <3>1. Percent(1) = 0
      BY DEF Percent, RoundDiv
    <3>2. data["ac.dmr"] = 0
      BY <2>3, <2>6, <3>1
    <3>3. LightBrightness(data) = Brightness(1)
      BY <3>2 DEF LightBrightness, Brightness, Unknown
    <3> QED
      BY <3>3, DimmerRoundTrip
  <2>7. ASSUME light \in Dimmed, light # 1
        PROVE  Percent(LightBrightness(data)) = Percent(light)
    <3>1. Percent(light) \in 1 .. 100
      BY <2>1, <2>7, PercentInRange
    <3>2. LightBrightness(data) = Brightness(Percent(light))
      BY <2>3, <2>7, <3>1 DEF LightBrightness, Unknown
    <3> QED
      BY <3>1, <3>2, DimmerRoundTrip
  <2> QED
    BY <2>1, <2>4, <2>5, <2>6, <2>7
<1> QED
  BY <1>2, <1>3, AlwaysTyped, AlwaysCatchingUp, PTL
=============================================================================
