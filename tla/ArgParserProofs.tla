-------------------------- MODULE ArgParserProofs --------------------------
(***************************************************************************)
(* Proofs about ArgParser: the object a call returns is what its sources   *)
(* made it, it passed every check, and it is what the exports hold; and    *)
(* every word of argv goes where the declarations say.                     *)
(* The loops of the parser are recursive functions; a lemma unrolls each.  *)
(***************************************************************************)
EXTENDS ArgParser, SequenceTheorems, NaturalsInduction, WellFoundedInduction, TLAPS

-----------------------------------------------------------------------------
(* Induction over the natural numbers, for a set.                          *)
LEMMA SetInduction ==
  ASSUME NEW S, 0 \in S, \A n \in Nat : n \in S => n + 1 \in S
  PROVE  \A n \in Nat : n \in S
PROOF
<1> DEFINE T == {n \in Nat : n \notin S}
<1> SUFFICES ASSUME T # {} PROVE FALSE
  OBVIOUS
<1>1. PICK x \in T : \A y \in T : ~ <<y, x>> \in OpToRel(<, Nat)
  <2>1. T \subseteq Nat OBVIOUS
  <2> HIDE DEF T
  <2> QED BY <2>1, NatLessThanWellFounded, WFMin
<1>2. x \in Nat /\ x # 0 /\ x - 1 \in Nat OBVIOUS
<1>3. x - 1 \in S
  <2>1. x - 1 < x BY <1>2
  <2>2. ASSUME NEW a \in Nat, NEW b \in Nat, a < b PROVE <<a, b>> \in OpToRel(<, Nat)
    BY <2>2, Zenon DEF OpToRel
  <2>3. <<x - 1, x>> \in OpToRel(<, Nat) BY <2>1, <2>2, <1>2, Zenon
  <2> QED BY <1>1, <1>2, <2>3
<1> QED BY <1>2, <1>3

\* What holds at the start of a loop and survives its passes holds of every pass.
LEMMA LoopInduction ==
  ASSUME NEW N \in Nat, NEW S, 0 \in S, \A n \in 0..(N - 1) : n \in S => n + 1 \in S
  PROVE  \A n \in 0..N : n \in S
<1> DEFINE T == {n \in Nat : n <= N => n \in S}
<1>1. 0 \in T OBVIOUS
<1>2. ASSUME NEW n \in Nat, n \in T PROVE n + 1 \in T
  <2> SUFFICES ASSUME n + 1 <= N PROVE n + 1 \in S OBVIOUS
  <2>1. n \in 0..(N - 1) /\ n \in S BY <1>2
  <2> QED BY <2>1
<1>3. \A n \in Nat : n \in T
  <2> HIDE DEF T
  <2> QED BY <1>1, <1>2, SetInduction
<1> QED BY <1>3

\* A loop of n passes, with one more pass that leaves v.
Extended(f, n, v) == [k \in 0..(n + 1) |-> IF k = n + 1 THEN v ELSE f[k]]

IsExtended(g, f, n, v) ==
  /\ g = [k \in 0..(n + 1) |-> g[k]] /\ g[n + 1] = v
  /\ \A k \in 0..n : k \in 0..(n + 1) /\ g[k] = f[k]

LEMMA ExtendedIs ==
  ASSUME NEW f, NEW n \in Nat, NEW v
  PROVE  IsExtended(Extended(f, n, v), f, n, v)
BY DEF Extended, IsExtended

-----------------------------------------------------------------------------
(* Sequences.                                                              *)

LEMMA EmptyIsSequence == IsSequence(<<>>)
BY DEF IsSequence

LEMMA AppendIsSequence ==
  ASSUME NEW s, IsSequence(s), NEW e
  PROVE  /\ IsSequence(Append(s, e)) /\ Len(Append(s, e)) = Len(s) + 1
         /\ Append(s, e)[Len(s) + 1] = e
         /\ \A k \in 1..Len(s) : Append(s, e)[k] = s[k]
<1> DEFINE X == {s[k] : k \in 1..Len(s)} \cup {e}
<1>1. s \in Seq(X)
  <2>1. Len(s) \in Nat /\ s \in [1..Len(s) -> X] BY DEF IsSequence
  <2> HIDE DEF X
  <2> QED BY <2>1, SeqDef
<1> HIDE DEF X
<1>2. e \in X BY DEF X
<1>3. Append(s, e) \in Seq(X) BY <1>1, <1>2
<1>4. Append(s, e) \in [1..Len(Append(s, e)) -> X] /\ Len(Append(s, e)) \in Nat BY <1>3, LenProperties
<1> DEFINE t == Append(s, e)
<1>5. t \in [1..Len(t) -> X] /\ Len(t) \in Nat BY <1>4
<1>6. /\ Len(t) = Len(s) + 1 /\ t[Len(s) + 1] = e
      /\ \A k \in 1..Len(s) : t[k] = s[k]
  BY <1>1, <1>2, AppendProperties
<1> HIDE DEF t
<1>7. IsSequence(t) BY <1>5 DEF IsSequence
<1> QED BY <1>6, <1>7 DEF t

LEMMA ConcatIsSequence ==
  ASSUME NEW s, IsSequence(s), NEW t, IsSequence(t)
  PROVE  IsSequence(s \o t) /\ Len(s \o t) = Len(s) + Len(t)
<1> DEFINE X == {s[k] : k \in 1..Len(s)} \cup {t[k] : k \in 1..Len(t)}
<1>1. s \in Seq(X) /\ t \in Seq(X)
  <2>1. Len(s) \in Nat /\ s \in [1..Len(s) -> X] BY DEF IsSequence
  <2>2. Len(t) \in Nat /\ t \in [1..Len(t) -> X] BY DEF IsSequence
  <2> HIDE DEF X
  <2> QED BY <2>1, <2>2, SeqDef
<1> HIDE DEF X
<1>2. s \o t \in Seq(X) /\ Len(s \o t) = Len(s) + Len(t) BY <1>1
<1>3. (s \o t) \in [1..Len(s \o t) -> X] /\ Len(s \o t) \in Nat BY <1>2, LenProperties
<1> QED BY <1>2, <1>3 DEF IsSequence

LEMMA OneIsSequence ==
  ASSUME NEW e
  PROVE  IsSequence(<<e>>) /\ <<e>> # <<>> /\ Last(<<e>>) = e
BY DEF IsSequence, Last

LEMMA NonEmptySequence ==
  ASSUME NEW s, IsSequence(s), s # <<>>
  PROVE  Len(s) \in Nat /\ Len(s) > 0 /\ Last(s) = s[Len(s)]
<1>1. Len(s) \in Nat /\ s = [k \in 1..Len(s) |-> s[k]] BY DEF IsSequence
<1>2. Len(s) # 0
  <2> SUFFICES ASSUME Len(s) = 0 PROVE FALSE OBVIOUS
  <2>1. s \in [1..0 -> {}] BY <1>1
  <2>2. s \in Seq({}) BY <2>1, SeqDef
  <2> QED BY <2>2, EmptySeq
<1> QED BY <1>1, <1>2 DEF Last

-----------------------------------------------------------------------------
(* The schema: the options of the struct, then built-in ones.              *)

\* The loop of UserSpecs, over the first n fields.
UsersLoop(f, fields, n) ==
  f = [k \in 0..n |-> IF k = 0 THEN <<>>
                      ELSE IF fields[k].ignored THEN f[k - 1]
                      ELSE Append(f[k - 1], MakeSpec(fields[k]))]

LEMMA UsersLoopRuns ==
  ASSUME NEW fields
  PROVE  \A n \in Nat : \E f : UsersLoop(f, fields, n)
<1> DEFINE S == {n \in Nat : \E f : UsersLoop(f, fields, n)}
<1>1. 0 \in S
  <2> DEFINE f == [k \in 0..0 |-> <<>>]
  <2>1. UsersLoop(f, fields, 0) BY DEF UsersLoop
  <2> QED BY <2>1
<1>2. ASSUME NEW n \in Nat, n \in S PROVE n + 1 \in S
  <2>1. PICK f : UsersLoop(f, fields, n) BY <1>2
  <2> DEFINE v == IF fields[(n + 1)].ignored THEN f[n]
                      ELSE Append(f[n], MakeSpec(fields[(n + 1)]))
             g == Extended(f, n, v)
  <2>2. \A k \in 0..n : f[k] = IF k = 0 THEN <<>>
                               ELSE IF fields[k].ignored THEN f[k - 1]
                      ELSE Append(f[k - 1], MakeSpec(fields[k]))
    BY <2>1 DEF UsersLoop
  <2> HIDE DEF g
  <2>3. /\ g = [k \in 0..(n + 1) |-> g[k]] /\ g[n + 1] = v
        /\ \A k \in 0..n : k \in 0..(n + 1) /\ g[k] = f[k]
    <3>1. IsExtended(g, f, n, v) BY ExtendedIs, Zenon DEF g
    <3> HIDE DEF v
    <3> QED BY <3>1 DEF IsExtended
  <2>4. \A k \in 0..(n + 1) : g[k] = IF k = 0 THEN <<>>
                                     ELSE IF fields[k].ignored THEN g[k - 1]
                      ELSE Append(g[k - 1], MakeSpec(fields[k]))
    <3> TAKE k \in 0..(n + 1)
    <3>1. CASE k = n + 1
      <4>1. k # 0 /\ k - 1 = n /\ n \in 0..n BY <3>1
      <4> QED BY <2>3, <3>1, <4>1
    <3>2. CASE k # n + 1
      <4>1. k \in 0..n /\ (k # 0 => k - 1 \in 0..n) BY <3>2
      <4> QED BY <2>2, <2>3, <4>1
    <3> QED BY <3>1, <3>2
  <2>5. UsersLoop(g, fields, n + 1) BY <2>3, <2>4 DEF UsersLoop
  <2> QED BY <2>5
<1>3. \A n \in Nat : n \in S
  <2> HIDE DEF S
  <2> QED BY <1>1, <1>2, SetInduction
<1> QED BY <1>3

\* The options made of some of the fields.
MadeOf(specs, fields) ==
  /\ IsSequence(specs)
  /\ \A i \in 1..Len(specs) : \E k \in 1..Len(fields) : specs[i] = MakeSpec(fields[k])

LEMMA UserSpecsMade ==
  ASSUME NEW fields, IsSequence(fields)
  PROVE  MadeOf(UserSpecs(fields), fields)
<1> DEFINE N == Len(fields)
           f == CHOOSE f : UsersLoop(f, fields, N)
<1>1. N \in Nat BY DEF IsSequence
<1>2. UsersLoop(f, fields, N) BY <1>1, UsersLoopRuns
<1>3. UserSpecs(fields) = f[N] BY DEF UserSpecs, UsersLoop
<1> HIDE DEF f, N
<1>4. \A k \in 0..N : f[k] = IF k = 0 THEN <<>>
                             ELSE IF fields[k].ignored THEN f[k - 1]
                             ELSE Append(f[k - 1], MakeSpec(fields[k]))
  BY <1>2 DEF UsersLoop
<1> DEFINE S == {n \in 0..N : MadeOf(f[n], fields)}
<1>5. 0 \in S
  <2>1. f[0] = <<>> /\ Len(<<>>) = 0 BY <1>1, <1>4
  <2>2. MadeOf(<<>>, fields) BY <2>1, EmptyIsSequence DEF MadeOf
  <2> QED BY <1>1, <2>1, <2>2
<1>6. ASSUME NEW n \in 0..(N - 1), n \in S PROVE n + 1 \in S
  <2>1. n + 1 \in 0..N /\ n + 1 # 0 /\ n + 1 - 1 = n /\ n + 1 \in 1..N BY <1>1
  <2>2. f[n + 1] = IF fields[n + 1].ignored THEN f[n]
                   ELSE Append(f[n], MakeSpec(fields[n + 1]))
    BY <1>4, <2>1
  <2>3. MadeOf(f[n], fields) BY <1>6
  <2> DEFINE s == f[n]
             e == MakeSpec(fields[n + 1])
             t == Append(s, e)
  <2>4. MadeOf(t, fields)
    <3> HIDE DEF s, e
    <3>1. /\ IsSequence(t) /\ Len(t) = Len(s) + 1 /\ t[Len(s) + 1] = e
          /\ \A k \in 1..Len(s) : t[k] = s[k]
      BY <2>3, AppendIsSequence DEF MadeOf, s
    <3>2. Len(s) \in Nat BY <2>3 DEF MadeOf, IsSequence, s
    <3>3. \A i \in 1..Len(t) : i \in 1..Len(s) \/ i = Len(s) + 1 BY <3>1, <3>2
    <3>4. e = MakeSpec(fields[n + 1]) /\ n + 1 \in 1..Len(fields) BY <2>1 DEF e, N
    <3> HIDE DEF t
    <3>5. ASSUME NEW i \in 1..Len(t) PROVE \E k \in 1..Len(fields) : t[i] = MakeSpec(fields[k])
      <4>1. CASE i \in 1..Len(s) BY <2>3, <3>1, <4>1 DEF MadeOf, s
      <4>2. CASE i = Len(s) + 1 BY <3>1, <3>4, <4>2
      <4> QED BY <3>3, <4>1, <4>2
    <3> QED BY <3>1, <3>5 DEF MadeOf
  <2> QED BY <2>1, <2>2, <2>3, <2>4
<1>7. \A n \in 0..N : n \in S
  <2> HIDE DEF S
  <2> QED BY <1>1, <1>5, <1>6, LoopInduction
<1>8. N \in 0..N BY <1>1
<1> QED BY <1>3, <1>7, <1>8

\* A sequence that goes on where another ends.
Longer(t, s) ==
  /\ IsSequence(s) /\ IsSequence(t) /\ Len(s) <= Len(t)
  /\ \A i \in 1..Len(s) : t[i] = s[i]

LEMMA PushIsLonger ==
  ASSUME NEW s, NEW t, Longer(t, s), NEW spec
  PROVE  Longer(PushIfAvailable(t, spec), s)
<1>1. IsSequence(s) /\ IsSequence(t) /\ Len(s) \in Nat /\ Len(t) \in Nat
  BY DEF Longer, IsSequence
<1> DEFINE u == Append(t, spec)
<1>2. IsSequence(u) /\ Len(u) = Len(t) + 1 /\ \A k \in 1..Len(t) : u[k] = t[k]
  BY <1>1, AppendIsSequence
<1> HIDE DEF u
<1>3. Longer(u, s) BY <1>1, <1>2 DEF Longer
<1> QED BY <1>3 DEF PushIfAvailable, u

LEMMA ConfigIoIsLonger ==
  ASSUME NEW s, NEW t, Longer(t, s), NEW formats, NEW available, NEW format
  PROVE  Longer(ConfigIoSpecs(t, formats, available, format), s)
<1> DEFINE u == IF format \in available /\ formats.Import \cap Matches(format) # {}
                THEN PushIfAvailable(t, BuiltinSpec(formats, "Import", format)) ELSE t
<1>1. Longer(u, s) BY PushIsLonger
<1> HIDE DEF u
<1>2. Longer(PushIfAvailable(u, BuiltinSpec(formats, "Export", format)), s) BY <1>1, PushIsLonger
<1>3. ConfigIoSpecs(t, formats, available, format) =
        IF format \in available /\ formats.Export \cap Matches(format) # {}
        THEN PushIfAvailable(u, BuiltinSpec(formats, "Export", format)) ELSE u
  BY DEF ConfigIoSpecs, u
<1> QED BY <1>1, <1>2, <1>3

\* The loop of Collect, over the first n formats.
FormatsLoop(f, users, formats, available, n) ==
  f = [k \in 0..n |-> IF k = 0 THEN users
                      ELSE ConfigIoSpecs(f[k - 1], formats, available, Registry[k])]

LEMMA FormatsLoopRuns ==
  ASSUME NEW users, NEW formats, NEW available
  PROVE  \A n \in Nat : \E f : FormatsLoop(f, users, formats, available, n)
<1> DEFINE S == {n \in Nat : \E f : FormatsLoop(f, users, formats, available, n)}
<1>1. 0 \in S
  <2> DEFINE f == [k \in 0..0 |-> users]
  <2>1. FormatsLoop(f, users, formats, available, 0) BY DEF FormatsLoop
  <2> QED BY <2>1
<1>2. ASSUME NEW n \in Nat, n \in S PROVE n + 1 \in S
  <2>1. PICK f : FormatsLoop(f, users, formats, available, n) BY <1>2
  <2> DEFINE v == ConfigIoSpecs(f[n], formats, available, Registry[(n + 1)])
             g == Extended(f, n, v)
  <2>2. \A k \in 0..n : f[k] = IF k = 0 THEN users
                               ELSE ConfigIoSpecs(f[k - 1], formats, available, Registry[k])
    BY <2>1 DEF FormatsLoop
  <2> HIDE DEF g
  <2>3. /\ g = [k \in 0..(n + 1) |-> g[k]] /\ g[n + 1] = v
        /\ \A k \in 0..n : k \in 0..(n + 1) /\ g[k] = f[k]
    <3>1. IsExtended(g, f, n, v) BY ExtendedIs, Zenon DEF g
    <3> HIDE DEF v
    <3> QED BY <3>1 DEF IsExtended
  <2>4. \A k \in 0..(n + 1) : g[k] = IF k = 0 THEN users
                                     ELSE ConfigIoSpecs(g[k - 1], formats, available, Registry[k])
    <3> TAKE k \in 0..(n + 1)
    <3>1. CASE k = n + 1
      <4>1. k # 0 /\ k - 1 = n /\ n \in 0..n BY <3>1
      <4> QED BY <2>3, <3>1, <4>1
    <3>2. CASE k # n + 1
      <4>1. k \in 0..n /\ (k # 0 => k - 1 \in 0..n) BY <3>2
      <4> QED BY <2>2, <2>3, <4>1
    <3> QED BY <3>1, <3>2
  <2>5. FormatsLoop(g, users, formats, available, n + 1) BY <2>3, <2>4 DEF FormatsLoop
  <2> QED BY <2>5
<1>3. \A n \in Nat : n \in S
  <2> HIDE DEF S
  <2> QED BY <1>1, <1>2, SetInduction
<1> QED BY <1>3

LEMMA CollectIsLonger ==
  ASSUME NEW fields, IsSequence(fields), NEW formats, NEW available
  PROVE  LET s == Collect(fields, formats, available)
         IN  s.users = Len(UserSpecs(fields)) /\ Longer(s.specs, UserSpecs(fields))
<1> DEFINE users == UserSpecs(fields)
           N == Len(Registry)
           f == CHOOSE f : FormatsLoop(f, users, formats, available, N)
<1>1. N = 4 BY DEF Registry
<1>2. FormatsLoop(f, users, formats, available, N) BY <1>1, FormatsLoopRuns
<1>3. Collect(fields, formats, available) = [users |-> Len(users), specs |-> f[N]]
  BY DEF Collect, FormatsLoop
<1> HIDE DEF f, N
<1>4. \A k \in 0..N : f[k] = IF k = 0 THEN users
                             ELSE ConfigIoSpecs(f[k - 1], formats, available, Registry[k])
  BY <1>2 DEF FormatsLoop
<1>5. IsSequence(users) BY UserSpecsMade DEF MadeOf
<1> HIDE DEF users
<1> DEFINE S == {n \in 0..N : Longer(f[n], users)}
<1>6. 0 \in S
  <2>1. f[0] = users BY <1>1, <1>4
  <2>2. Longer(users, users) BY <1>5 DEF Longer, IsSequence
  <2> QED BY <1>1, <2>1, <2>2
<1>7. ASSUME NEW n \in 0..(N - 1), n \in S PROVE n + 1 \in S
  <2>1. n + 1 \in 0..N /\ n + 1 # 0 /\ n + 1 - 1 = n BY <1>1
  <2>2. f[n + 1] = ConfigIoSpecs(f[n], formats, available, Registry[n + 1]) BY <1>4, <2>1
  <2> QED BY <1>7, <2>1, <2>2, ConfigIoIsLonger
<1>8. \A n \in 0..N : n \in S
  <2> HIDE DEF S
  <2> QED BY <1>1, <1>6, <1>7, LoopInduction
<1>9. Longer(f[N], users) BY <1>1, <1>8
<1> QED BY <1>3, <1>9 DEF users

-----------------------------------------------------------------------------
(* What the texts of one source make of a field.                           *)

\* The loop of AssignAll, over the first n texts.
TextsLoop(f, spec, values, texts, n) ==
  f = [k \in 0..n |-> IF k = 0 THEN <<values>>
                      ELSE IF f[k - 1] = <<>> THEN <<>>
                      ELSE Assign(spec, f[k - 1][1], texts[k])]

LEMMA TextsLoopRuns ==
  ASSUME NEW spec, NEW values, NEW texts
  PROVE  \A n \in Nat : \E f : TextsLoop(f, spec, values, texts, n)
<1> DEFINE S == {n \in Nat : \E f : TextsLoop(f, spec, values, texts, n)}
<1>1. 0 \in S
  <2> DEFINE f == [k \in 0..0 |-> <<values>>]
  <2>1. TextsLoop(f, spec, values, texts, 0) BY DEF TextsLoop
  <2> QED BY <2>1
<1>2. ASSUME NEW n \in Nat, n \in S PROVE n + 1 \in S
  <2>1. PICK f : TextsLoop(f, spec, values, texts, n) BY <1>2
  <2> DEFINE v == IF f[n] = <<>> THEN <<>>
                      ELSE Assign(spec, f[n][1], texts[(n + 1)])
             g == Extended(f, n, v)
  <2>2. \A k \in 0..n : f[k] = IF k = 0 THEN <<values>>
                               ELSE IF f[k - 1] = <<>> THEN <<>>
                      ELSE Assign(spec, f[k - 1][1], texts[k])
    BY <2>1 DEF TextsLoop
  <2> HIDE DEF g
  <2>3. /\ g = [k \in 0..(n + 1) |-> g[k]] /\ g[n + 1] = v
        /\ \A k \in 0..n : k \in 0..(n + 1) /\ g[k] = f[k]
    <3>1. IsExtended(g, f, n, v) BY ExtendedIs, Zenon DEF g
    <3> HIDE DEF v
    <3> QED BY <3>1 DEF IsExtended
  <2>4. \A k \in 0..(n + 1) : g[k] = IF k = 0 THEN <<values>>
                                     ELSE IF g[k - 1] = <<>> THEN <<>>
                      ELSE Assign(spec, g[k - 1][1], texts[k])
    <3> TAKE k \in 0..(n + 1)
    <3>1. CASE k = n + 1
      <4>1. k # 0 /\ k - 1 = n /\ n \in 0..n BY <3>1
      <4> QED BY <2>3, <3>1, <4>1
    <3>2. CASE k # n + 1
      <4>1. k \in 0..n /\ (k # 0 => k - 1 \in 0..n) BY <3>2
      <4> QED BY <2>2, <2>3, <4>1
    <3> QED BY <3>1, <3>2
  <2>5. TextsLoop(g, spec, values, texts, n + 1) BY <2>3, <2>4 DEF TextsLoop
  <2> QED BY <2>5
<1>3. \A n \in Nat : n \in S
  <2> HIDE DEF S
  <2> QED BY <1>1, <1>2, SetInduction
<1> QED BY <1>3

\* A text makes one value of a scalar, or none.
LEMMA ScalarIs ==
  ASSUME NEW spec, NEW text
  PROVE  Scalar(spec, text) = <<>> \/ Len(Scalar(spec, text)) = 1
<1>1. CASE spec.base = "bool"
  <2> DEFINE yes == TRUE
             no == FALSE
  <2>1. Scalar(spec, text) = <<yes>> \/ Scalar(spec, text) = <<no>> \/ Scalar(spec, text) = <<>>
    BY <1>1 DEF Scalar
  <2> HIDE DEF yes, no
  <2>2. Len(<<yes>>) = 1 /\ Len(<<no>>) = 1 OBVIOUS
  <2> QED BY <2>1, <2>2
<1>2. CASE spec.base = "int"
  <2> DEFINE n == NumberOf(text)
  <2>1. Scalar(spec, text) \in {<<n>>, <<>>} BY <1>2 DEF Scalar
  <2> HIDE DEF n
  <2>2. Len(<<n>>) = 1 OBVIOUS
  <2> QED BY <2>1, <2>2
<1>3. CASE spec.base = "enum"
  <2>1. Scalar(spec, text) \in {<<text>>, <<>>} BY <1>3 DEF Scalar
  <2> QED BY <2>1
<1>4. CASE spec.base \notin {"bool", "int", "enum"}
  <2>1. Scalar(spec, text) = <<text>> BY <1>4 DEF Scalar
  <2> QED BY <2>1
<1> QED BY <1>1, <1>2, <1>3, <1>4

\* Without texts a field stays; the last text decides what a field that is no
\* vector holds, and it then holds one value.
LEMMA AssignAllIs ==
  ASSUME NEW spec, NEW values, NEW texts, IsSequence(texts),
         AssignAll(spec, values, texts) # <<>>
  PROVE  LET made == AssignAll(spec, values, texts)[1]
         IN  /\ texts = <<>> => made = values
             /\ texts # <<>> /\ spec.shape # "vec" =>
                  made = Assign(spec, <<>>, Last(texts))[1]
             /\ texts # <<>> /\ spec.shape # "vec" /\ ~spec.separator =>
                  made # <<>> /\ Len(made) = 1
<1> DEFINE N == Len(texts)
           f == CHOOSE f : TextsLoop(f, spec, values, texts, N)
<1>1. N \in Nat BY DEF IsSequence
<1>2. TextsLoop(f, spec, values, texts, N) BY <1>1, TextsLoopRuns
<1>3. AssignAll(spec, values, texts) = f[N] BY DEF AssignAll, TextsLoop
<1> HIDE DEF f
<1>4. \A k \in 0..N : f[k] = IF k = 0 THEN <<values>>
                             ELSE IF f[k - 1] = <<>> THEN <<>>
                             ELSE Assign(spec, f[k - 1][1], texts[k])
  BY <1>2 DEF TextsLoop
<1>5. CASE texts = <<>>
  <2>1. N = 0 BY <1>5
  <2>2. f[0] = <<values>> BY <1>1, <1>4
  <2> QED BY <1>3, <1>5, <2>1, <2>2
<1>6. CASE texts # <<>>
  <2>1. N > 0 /\ Last(texts) = texts[N] BY <1>6, NonEmptySequence
  <2> HIDE DEF N
  <2> DEFINE text == texts[N]
             v == f[N - 1][1]
  <2>2. f[N] = Assign(spec, v, text) BY <1>1, <1>3, <1>4, <2>1
  <2> HIDE DEF v, text
  <2>3. spec.shape # "vec" => Assign(spec, v, text) = Assign(spec, <<>>, text)
    BY DEF Assign
  <2>4. ASSUME spec.shape # "vec", ~spec.separator
        PROVE  Assign(spec, v, text)[1] # <<>> /\ Len(Assign(spec, v, text)[1]) = 1
    <3> DEFINE scalars == [k \in DOMAIN Parts(spec, text) |-> Scalar(spec, Parts(spec, text)[k])]
    <3>1. Parts(spec, text) = <<text>> BY <2>4 DEF Parts
    <3>2. scalars[1] = Scalar(spec, text) /\ 1 \in DOMAIN scalars BY <3>1
    <3>3. Assign(spec, v, text) # <<>> BY <1>3, <2>2
    <3>4. /\ <<>> \notin ToSet(scalars)
          /\ Assign(spec, v, text) = <<scalars[1]>>
      BY <2>4, <3>3 DEF Assign
    <3> HIDE DEF scalars
    <3>5. scalars[1] \in ToSet(scalars) BY <3>2 DEF ToSet
    <3>6. scalars[1] # <<>> /\ Len(scalars[1]) = 1 BY <3>2, <3>4, <3>5, ScalarIs
    <3> QED BY <3>4, <3>6
  <2> QED BY <1>3, <1>6, <2>1, <2>2, <2>3, <2>4 DEF text
<1> QED BY <1>5, <1>6

-----------------------------------------------------------------------------
(* The files given.                                                        *)

\* The loop of Given, over the first n options.
GivenLoop(f, dir, n) ==
  f = [k \in 0..n |-> IF k = 0 THEN <<>>
                      ELSE IF k > schema.users /\ raw[k] # <<>> /\ Specs[k].builtin[1] = dir
                      THEN Append(f[k - 1], Specs[k].builtin[2]) ELSE f[k - 1]]

LEMMA GivenLoopRuns ==
  ASSUME NEW dir
  PROVE  \A n \in Nat : \E f : GivenLoop(f, dir, n)
<1> DEFINE S == {n \in Nat : \E f : GivenLoop(f, dir, n)}
<1>1. 0 \in S
  <2> DEFINE f == [k \in 0..0 |-> <<>>]
  <2>1. GivenLoop(f, dir, 0) BY DEF GivenLoop
  <2> QED BY <2>1
<1>2. ASSUME NEW n \in Nat, n \in S PROVE n + 1 \in S
  <2>1. PICK f : GivenLoop(f, dir, n) BY <1>2
  <2> DEFINE v == IF (n + 1) > schema.users /\ raw[(n + 1)] # <<>> /\ Specs[(n + 1)].builtin[1] = dir
                      THEN Append(f[n], Specs[(n + 1)].builtin[2]) ELSE f[n]
             g == Extended(f, n, v)
  <2>2. \A k \in 0..n : f[k] = IF k = 0 THEN <<>>
                               ELSE IF k > schema.users /\ raw[k] # <<>> /\ Specs[k].builtin[1] = dir
                      THEN Append(f[k - 1], Specs[k].builtin[2]) ELSE f[k - 1]
    BY <2>1 DEF GivenLoop
  <2> HIDE DEF g
  <2>3. /\ g = [k \in 0..(n + 1) |-> g[k]] /\ g[n + 1] = v
        /\ \A k \in 0..n : k \in 0..(n + 1) /\ g[k] = f[k]
    <3>1. IsExtended(g, f, n, v) BY ExtendedIs, Zenon DEF g
    <3> HIDE DEF v
    <3> QED BY <3>1 DEF IsExtended
  <2>4. \A k \in 0..(n + 1) : g[k] = IF k = 0 THEN <<>>
                                     ELSE IF k > schema.users /\ raw[k] # <<>> /\ Specs[k].builtin[1] = dir
                      THEN Append(g[k - 1], Specs[k].builtin[2]) ELSE g[k - 1]
    <3> TAKE k \in 0..(n + 1)
    <3>1. CASE k = n + 1
      <4>1. k # 0 /\ k - 1 = n /\ n \in 0..n BY <3>1
      <4> QED BY <2>3, <3>1, <4>1
    <3>2. CASE k # n + 1
      <4>1. k \in 0..n /\ (k # 0 => k - 1 \in 0..n) BY <3>2
      <4> QED BY <2>2, <2>3, <4>1
    <3> QED BY <3>1, <3>2
  <2>5. GivenLoop(g, dir, n + 1) BY <2>3, <2>4 DEF GivenLoop
  <2> QED BY <2>5
<1>3. \A n \in Nat : n \in S
  <2> HIDE DEF S
  <2> QED BY <1>1, <1>2, SetInduction
<1> QED BY <1>3

LEMMA GivenIsSequence ==
  ASSUME NEW dir, Len(Specs) \in Nat
  PROVE  IsSequence(Given(dir))
<1> DEFINE N == Len(Specs)
           f == CHOOSE f : GivenLoop(f, dir, N)
<1>1. GivenLoop(f, dir, N) BY GivenLoopRuns
<1>2. Given(dir) = f[N] BY DEF Given, GivenLoop
<1> HIDE DEF f
<1> DEFINE Takes(k) == k > schema.users /\ raw[k] # <<>> /\ Specs[k].builtin[1] = dir
           Text(k) == Specs[k].builtin[2]
<1>3. \A k \in 0..N : f[k] = IF k = 0 THEN <<>>
                             ELSE IF Takes(k) THEN Append(f[k - 1], Text(k)) ELSE f[k - 1]
  BY <1>1 DEF GivenLoop
<1> HIDE DEF Takes, Text
<1>4. N \in Nat OBVIOUS
<1> HIDE DEF N
<1> DEFINE S == {n \in 0..N : IsSequence(f[n])}
<1>5. 0 \in S
  <2>1. f[0] = <<>> BY <1>3, <1>4
  <2> QED BY <1>4, <2>1, EmptyIsSequence
<1>6. ASSUME NEW n \in 0..(N - 1), n \in S PROVE n + 1 \in S
  <2>1. n + 1 \in 0..N /\ n + 1 # 0 /\ n + 1 - 1 = n BY <1>4
  <2>2. f[n + 1] = IF Takes(n + 1) THEN Append(f[n], Text(n + 1)) ELSE f[n]
    BY <1>3, <2>1
  <2>3. IsSequence(f[n]) BY <1>6
  <2>4. IsSequence(Append(f[n], Text(n + 1))) BY <2>3, AppendIsSequence
  <2> QED BY <2>1, <2>2, <2>3, <2>4
<1>7. \A n \in 0..N : n \in S
  <2> HIDE DEF S
  <2> QED BY <1>4, <1>5, <1>6, LoopInduction
<1> QED BY <1>2, <1>4, <1>7

LEMMA SelectedAreSequences ==
  ASSUME Len(Specs) \in Nat, IsSequence(rootIo.import), IsSequence(rootIo.exports)
  PROVE  IsSequence(Selected.import) /\ IsSequence(Selected.exports)
<1>1. IsSequence(Given("Import")) /\ IsSequence(Given("Export")) BY GivenIsSequence
<1>2. /\ Selected.import = rootIo.import \o Given("Import")
      /\ Selected.exports = rootIo.exports \o Given("Export")
  BY DEF Selected
<1> QED BY <1>1, <1>2, ConcatIsSequence

-----------------------------------------------------------------------------
(* The texts of the options while argv is read.                            *)

RawKept(r) == DOMAIN r = DOMAIN Specs /\ \A i \in DOMAIN r : IsSequence(r[i])
Position(n) == n \in Nat /\ n > 0
ReadingKept(reading) == RawKept(reading.raw) /\ Position(reading.at)

LEMMA RecordKeepsRaw ==
  ASSUME NEW r, RawKept(r), NEW i, NEW text, NEW next, Position(next)
  PROVE  ReadingKept(Record(r, i, text, next))
<1>1. RawKept([r EXCEPT ![i] = Append(@, text)])
  <2> DEFINE q == [r EXCEPT ![i] = Append(@, text)]
  <2>1. DOMAIN q = DOMAIN r OBVIOUS
  <2>2. \A j \in DOMAIN r : q[j] = r[j] \/ q[j] = Append(r[j], text) OBVIOUS
  <2> HIDE DEF q
  <2>3. ASSUME NEW j \in DOMAIN q PROVE IsSequence(q[j])
    <3>1. IsSequence(r[j]) BY <2>1 DEF RawKept
    <3>2. IsSequence(Append(r[j], text)) BY <3>1, AppendIsSequence
    <3> QED BY <2>1, <2>2, <3>1, <3>2
  <2> QED BY <2>1, <2>3 DEF RawKept, q
<1> QED BY <1>1 DEF Record, Reading, ReadingKept

LEMMA RecordOptionKeepsRaw ==
  ASSUME NEW r, RawKept(r), NEW i, NEW text, NEW inline, Position(at)
  PROVE  ReadingKept(RecordOption(r, i, text, inline))
<1>0. Position(at + 1) /\ Position(at + 2) BY DEF Position
<1> DEFINE a == Record(r, i, text, at + 1)
           b == Record(r, i, argv[at + 1], at + 2)
           c == Record(r, i, Specs[i].implicit[1], at + 1)
           d == Reading(r, at + 1, "MissingValue")
<1>1. ReadingKept(a) /\ ReadingKept(b) /\ ReadingKept(c) BY <1>0, RecordKeepsRaw
<1>2. ReadingKept(d) BY <1>0 DEF Reading, ReadingKept
<1>3. RecordOption(r, i, text, inline) \in {a, b, c, d} BY DEF RecordOption
<1> HIDE DEF a, b, c, d
<1> QED BY <1>1, <1>2, <1>3

\* The loop of ReadCluster, over the first n letters.
LettersLoop(f, w, n) ==
  f = [k \in 0..n |-> IF k = 0 THEN [reading |-> Reading(raw, at + 1, "none"), last |-> FALSE]
                      ELSE ReadLetter(f[k - 1], w, k)]

LEMMA LettersLoopRuns ==
  ASSUME NEW w
  PROVE  \A n \in Nat : \E f : LettersLoop(f, w, n)
<1> DEFINE S == {n \in Nat : \E f : LettersLoop(f, w, n)}
<1>1. 0 \in S
  <2> DEFINE f == [k \in 0..0 |-> [reading |-> Reading(raw, at + 1, "none"), last |-> FALSE]]
  <2>1. LettersLoop(f, w, 0) BY DEF LettersLoop
  <2> QED BY <2>1
<1>2. ASSUME NEW n \in Nat, n \in S PROVE n + 1 \in S
  <2>1. PICK f : LettersLoop(f, w, n) BY <1>2
  <2> DEFINE v == ReadLetter(f[n], w, (n + 1))
             g == Extended(f, n, v)
  <2>2. \A k \in 0..n : f[k] = IF k = 0 THEN [reading |-> Reading(raw, at + 1, "none"), last |-> FALSE]
                               ELSE ReadLetter(f[k - 1], w, k)
    BY <2>1 DEF LettersLoop
  <2> HIDE DEF g
  <2>3. /\ g = [k \in 0..(n + 1) |-> g[k]] /\ g[n + 1] = v
        /\ \A k \in 0..n : k \in 0..(n + 1) /\ g[k] = f[k]
    <3>1. IsExtended(g, f, n, v) BY ExtendedIs, Zenon DEF g
    <3> HIDE DEF v
    <3> QED BY <3>1 DEF IsExtended
  <2>4. \A k \in 0..(n + 1) : g[k] = IF k = 0 THEN [reading |-> Reading(raw, at + 1, "none"), last |-> FALSE]
                                     ELSE ReadLetter(g[k - 1], w, k)
    <3> TAKE k \in 0..(n + 1)
    <3>1. CASE k = n + 1
      <4>1. k # 0 /\ k - 1 = n /\ n \in 0..n BY <3>1
      <4> QED BY <2>3, <3>1, <4>1
    <3>2. CASE k # n + 1
      <4>1. k \in 0..n /\ (k # 0 => k - 1 \in 0..n) BY <3>2
      <4> QED BY <2>2, <2>3, <4>1
    <3> QED BY <3>1, <3>2
  <2>5. LettersLoop(g, w, n + 1) BY <2>3, <2>4 DEF LettersLoop
  <2> QED BY <2>5
<1>3. \A n \in Nat : n \in S
  <2> HIDE DEF S
  <2> QED BY <1>1, <1>2, SetInduction
<1> QED BY <1>3

LEMMA LetterKeepsRaw ==
  ASSUME NEW before, ReadingKept(before.reading), NEW w, NEW k, Position(at)
  PROVE  ReadingKept(ReadLetter(before, w, k).reading)
<1> DEFINE r == before.reading.raw
           i == FindShort(Specs, w.body[k])
           rest == SubSeq(w.body, k + 1, Len(w.body))
           a == Unknown(r)
           b == Record(r, i, Plain(<<>>), at + 1)
           c == Record(r, i, Plain(rest), at + 1)
           d == RecordOption(r, i, Plain(<<>>), FALSE)
<1>0. RawKept(r) /\ Position(at + 1) BY DEF ReadingKept, Position
<1>1. ReadingKept(b) /\ ReadingKept(c) /\ ReadingKept(d)
  BY <1>0, RecordKeepsRaw, RecordOptionKeepsRaw
<1>2. ReadingKept(a) BY <1>0 DEF Unknown, Reading, ReadingKept
<1>3. ReadLetter(before, w, k).reading \in {before.reading, a, b, c, d} BY DEF ReadLetter
<1> HIDE DEF a, b, c, d
<1> QED BY <1>1, <1>2, <1>3

LEMMA ClusterKeepsRaw ==
  ASSUME NEW w, IsSequence(w.body), RawKept(raw), Position(at)
  PROVE  ReadingKept(ReadCluster(w))
<1> DEFINE N == Len(w.body)
           f == CHOOSE f : LettersLoop(f, w, N)
<1>1. N \in Nat BY DEF IsSequence
<1>2. LettersLoop(f, w, N) BY <1>1, LettersLoopRuns
<1>3. ReadCluster(w) = f[N].reading BY DEF ReadCluster, LettersLoop
<1> HIDE DEF f, N
<1>4. \A k \in 0..N : f[k] = IF k = 0 THEN [reading |-> Reading(raw, at + 1, "none"), last |-> FALSE]
                             ELSE ReadLetter(f[k - 1], w, k)
  BY <1>2 DEF LettersLoop
<1> DEFINE S == {n \in 0..N : ReadingKept(f[n].reading)}
<1>5. 0 \in S
  <2>1. f[0].reading = [raw |-> raw, at |-> at + 1, error |-> "none"] BY <1>1, <1>4 DEF Reading
  <2>2. ReadingKept(f[0].reading) BY <2>1 DEF ReadingKept, Position
  <2> QED BY <1>1, <2>2
<1>6. ASSUME NEW n \in 0..(N - 1), n \in S PROVE n + 1 \in S
  <2>1. n + 1 \in 0..N /\ n + 1 # 0 /\ n + 1 - 1 = n BY <1>1
  <2>2. f[n + 1] = ReadLetter(f[n], w, n + 1) BY <1>4, <2>1
  <2> QED BY <1>6, <2>1, <2>2, LetterKeepsRaw
<1>7. \A n \in 0..N : n \in S
  <2> HIDE DEF S
  <2> QED BY <1>1, <1>5, <1>6, LoopInduction
<1> QED BY <1>1, <1>3, <1>7

LEMMA ReadingsKeepRaw ==
  ASSUME NEW w, IsSequence(w.body), RawKept(raw), Position(at)
  PROVE  /\ ReadingKept(ReadLong(w)) /\ ReadingKept(ReadShort(w))
         /\ ReadingKept(ReadPositional(w)) /\ ReadingKept(Unknown(raw))
<1>0. Position(at + 1) BY DEF Position
<1>1. ReadingKept(Unknown(raw)) BY <1>0 DEF Unknown, Reading, ReadingKept
<1>2. ReadingKept(ReadLong(w))
  <2>1. ReadingKept(RecordOption(raw, FindLong(Specs, w.name), Plain(w.value), w.inline))
    BY RecordOptionKeepsRaw
  <2> QED BY <1>1, <2>1 DEF ReadLong
<1>3. ReadingKept(ReadShort(w))
  <2> DEFINE first == FindShort(Specs, w.body[1])
             whole == IF Len(w.body) = 1 THEN first ELSE 0
             a == ReadCluster(w)
             b == RecordOption(raw, whole, Plain(w.value), w.inline)
             c == RecordOption(raw, first, Plain(Tail(w.body)), TRUE)
             d == Unknown(raw)
  <2>1. ReadingKept(a) /\ ReadingKept(b) /\ ReadingKept(c) /\ ReadingKept(d)
    BY <1>1, ClusterKeepsRaw, RecordOptionKeepsRaw
  <2>2. ReadShort(w) \in {a, b, c, d} BY DEF ReadShort
  <2> HIDE DEF a, b, c, d
  <2> QED BY <2>1, <2>2
<1>4. ReadingKept(ReadPositional(w))
  <2>1. ReadingKept(Record(raw, Positionals[cursor], w, at + 1)) BY <1>0, RecordKeepsRaw
  <2>2. ReadingKept(Reading(raw, at + 1, "UnexpectedPositional")) BY <1>0 DEF Reading, ReadingKept
  <2> QED BY <2>1, <2>2 DEF ReadPositional
<1> QED BY <1>1, <1>2, <1>3, <1>4

-----------------------------------------------------------------------------
(* The inductive invariant.                                                *)

Filled   == {"import", "explicit", "check", "export", "done"}
Provided == {"check", "export", "done"}

\* The program is one of those called, and the schema is made of its fields or,
\* once its command is known, of the command's.
ProgramKnown ==
  /\ \E n \in Names :
       /\ program = Program(n) /\ file \in Files(n) \cup {NoFile}
       /\ argv \in UNION {[1..k -> Words(n)] : k \in 0..MaxWords}
  /\ stage \in {"root", "options"}
  /\ program.commands = <<>> => stage = "options"
  /\ stage = "root" => schema = SchemaOf(program.fields)
  /\ stage = "options" => \E fields \in FieldsFor(program, command) : schema = SchemaOf(fields)

\* At most one file is imported, and it is one for the program and the command.
FilesChosen ==
  /\ IsSequence(rootIo.import) /\ IsSequence(rootIo.exports)
  /\ IsSequence(io.import) /\ IsSequence(io.exports)
  /\ pc \in Filled \cup {"defaults"} => stage = "options" /\ Len(io.import) <= 1
  /\ pc \in Provided \cup {"explicit"} /\ io.import # <<>> =>
       Decodes /\ (program.commands # <<>> => file.command = command)

FromDefault(i) ==
  IF Specs[i].default # <<>> THEN Holds(i, Specs[i].initial, Specs[i].default) /\ supplied[i]
  ELSE object[i] = Specs[i].initial /\ ~supplied[i]

FromFile(i) ==
  object[i] = Imported(i) /\ (supplied[i] <=> (Specs[i].shape = "opt" => Imported(i) # <<>>))

\* What a vector starts from when argv or the environment gives its values.
Start(i) == IF io.import = <<>> /\ Specs[i].default = <<>> THEN Specs[i].initial ELSE <<>>

\* The value the steps make of a field, and when they count it as given.
Valued(i) ==
  IF raw[i] # <<>> THEN Holds(i, Start(i), raw[i])
  ELSE IF Specs[i].env \in DOMAIN env THEN Holds(i, Start(i), <<env[Specs[i].env]>>)
  ELSE IF io.import # <<>> THEN object[i] = Imported(i)
  ELSE IF Specs[i].default # <<>> THEN Holds(i, Specs[i].initial, Specs[i].default)
  ELSE object[i] = Specs[i].initial

Counted(i) ==
  \/ raw[i] # <<>> \/ Specs[i].env \in DOMAIN env
  \/ IF io.import # <<>> THEN Specs[i].shape = "opt" => Imported(i) # <<>>
     ELSE Specs[i].default # <<>>

\* The object and the presence of its fields after each of the steps that make them.
ObjectMade ==
  /\ pc \in Filled => supplied \in [Users -> BOOLEAN]
  /\ pc \in Filled => \A i \in Users : supplied[i] /\ Specs[i].shape # "vec" => object[i] # <<>>
  /\ pc = "import" => \A i \in Users : FromDefault(i)
  /\ pc = "explicit" => \A i \in Users : IF io.import # <<>> THEN FromFile(i) ELSE FromDefault(i)
  /\ pc \in Provided => \A i \in Users : Valued(i) /\ (supplied[i] <=> Counted(i))

\* What the relations between options say of the presence Check looks at.
Related ==
  pc \in {"export", "done"} => \A i \in Users :
    /\ Specs[i].required => supplied[i]
    /\ Active(i) =>
         /\ \A t \in Targets(Specs, i, Specs[i].requires) : t \in Users /\ Active(t)
         /\ \A t \in Targets(Specs, i, Specs[i].conflicts) : t \in Users => ~Active(t)

\* What is exported is the object, of a call that passed every check.
Exported == ExportsAreTheResult /\ (outputs # <<>> => \A i \in Users : Obeyed(i))

ParserInv ==
  /\ ProgramKnown /\ RawKept(raw) /\ Position(at) /\ FilesChosen
  /\ ObjectMade /\ Related /\ Exported

-----------------------------------------------------------------------------
(* What the schema knows of the fields.                                    *)

LEMMA MakeSpecKeeps ==
  ASSUME NEW field, DOMAIN field = DOMAIN Field
  PROVE  /\ MakeSpec(field).shape = field.shape /\ MakeSpec(field).separator = field.separator
         /\ MakeSpec(field).default = field.default /\ MakeSpec(field).name = field.name
         /\ MakeSpec(field).initial = field.initial /\ MakeSpec(field).aliases = field.aliases
         /\ MakeSpec(field).shortAliases = field.shortAliases
         /\ MakeSpec(field).skippable = field.skippable
BY DEF MakeSpec, Field

LEMMA SchemaOfFields ==
  ASSUME NEW fields, IsSequence(fields), schema = SchemaOf(fields)
  PROVE  /\ Len(Specs) \in Nat /\ DOMAIN Specs = 1..Len(Specs) /\ Users \subseteq DOMAIN Specs
         /\ \A i \in Users : \E k \in DOMAIN fields : Specs[i] = MakeSpec(fields[k])
<1>1. schema = Collect(fields, program.io, Available) BY DEF SchemaOf
<1>2. schema.users = Len(UserSpecs(fields)) /\ Longer(Specs, UserSpecs(fields))
  BY <1>1, CollectIsLonger DEF Specs
<1>3. MadeOf(UserSpecs(fields), fields) BY UserSpecsMade
<1>4. DOMAIN fields = 1..Len(fields) BY DEF IsSequence
<1> DEFINE users == UserSpecs(fields)
<1> HIDE DEF users
<1>5. IsSequence(users) /\ IsSequence(Specs) /\ Len(users) <= Len(Specs)
      /\ \A i \in 1..Len(users) : Specs[i] = users[i]
  BY <1>2 DEF Longer, users
<1>6. /\ Len(users) \in Nat /\ Len(Specs) \in Nat /\ DOMAIN Specs = 1..Len(Specs)
      /\ Users = 1..Len(users)
  BY <1>2, <1>5 DEF IsSequence, Users, users
<1>7. \A i \in 1..Len(users) : \E k \in DOMAIN fields : users[i] = MakeSpec(fields[k])
  BY <1>3, <1>4 DEF MadeOf, users
<1> QED BY <1>5, <1>6, <1>7

LEMMA SchemaKnown ==
  ASSUME ProgramKnown
  PROVE  \E n \in Names : \E fields \in Declarations(Program(n)) :
           /\ program = Program(n) /\ schema = SchemaOf(fields)
           /\ stage = "options" => fields \in FieldsFor(program, command)
           /\ IsSequence(fields)
<1>1. PICK n \in Names : program = Program(n) BY DEF ProgramKnown
<1>2. FieldsFor(program, command) \subseteq Declarations(program)
  BY DEF FieldsFor, Declarations
<1>3. program.fields \in Declarations(program) BY DEF Declarations
<1>4. \E fields \in Declarations(program) :
        schema = SchemaOf(fields) /\ (stage = "options" => fields \in FieldsFor(program, command))
  BY <1>2, <1>3 DEF ProgramKnown
<1> QED BY <1>1, <1>4, FieldsAreDeclared

\* The shape, the separator, the defaults and the initial value of an option are those of a field.
LEMMA SpecsDeclared ==
  ASSUME ProgramKnown
  PROVE  /\ Len(Specs) \in Nat /\ DOMAIN Specs = 1..Len(Specs) /\ Users \subseteq DOMAIN Specs
         /\ \A i \in Users :
              /\ Specs[i].shape \in {"one", "opt", "vec"}
              /\ Specs[i].separator => Specs[i].shape = "vec"
              /\ Specs[i].shape = "one" => Len(Specs[i].initial) = 1
              /\ Specs[i].shape = "opt" => Len(Specs[i].initial) <= 1
              /\ IsSequence(Specs[i].default)
<1>0. PICK n \in Names : \E fields \in Declarations(Program(n)) :
        program = Program(n) /\ schema = SchemaOf(fields) /\ IsSequence(fields)
  BY SchemaKnown
<1>1. PICK fields \in Declarations(Program(n)) :
        program = Program(n) /\ schema = SchemaOf(fields) /\ IsSequence(fields)
  BY <1>0
<1>2. /\ Len(Specs) \in Nat /\ DOMAIN Specs = 1..Len(Specs) /\ Users \subseteq DOMAIN Specs
      /\ \A i \in Users : \E k \in DOMAIN fields : Specs[i] = MakeSpec(fields[k])
  BY <1>1, SchemaOfFields
<1>3. ASSUME NEW i \in Users
      PROVE  /\ Specs[i].shape \in {"one", "opt", "vec"}
             /\ Specs[i].separator => Specs[i].shape = "vec"
             /\ Specs[i].shape = "one" => Len(Specs[i].initial) = 1
             /\ Specs[i].shape = "opt" => Len(Specs[i].initial) <= 1
             /\ IsSequence(Specs[i].default)
  <2>1. PICK k \in DOMAIN fields : Specs[i] = MakeSpec(fields[k]) BY <1>2
  <2> DEFINE field == fields[k]
  <2>2. /\ DOMAIN field = DOMAIN Field /\ field.shape \in {"one", "opt", "vec"}
        /\ field.separator => field.shape = "vec"
        /\ field.shape = "one" => Len(field.initial) = 1
        /\ field.shape = "opt" => Len(field.initial) <= 1
        /\ IsSequence(field.default)
    BY <1>1, FieldsAreDeclared
  <2> HIDE DEF field
  <2> QED BY <2>1, <2>2, MakeSpecKeeps DEF field
<1> QED BY <1>2, <1>3

\* An imported file holds a value for every field that is neither optional nor a
\* vector, and at most one for an optional.
LEMMA ImportedValues ==
  ASSUME ProgramKnown, stage = "options", Decodes,
         program.commands # <<>> => file.command = command
  PROVE  \A i \in Users :
           /\ Specs[i].shape = "one" => Imported(i) # <<>> /\ Len(Imported(i)) = 1
           /\ Specs[i].shape = "opt" => Len(Imported(i)) <= 1
<1>1. PICK n \in Names :
        program = Program(n) /\ file \in Files(n) \cup {NoFile}
  BY DEF ProgramKnown
<1>2. file \in Files(n) BY <1>1 DEF Decodes, NoFile
<1>3. PICK fields \in FieldsFor(program, command) : schema = SchemaOf(fields) BY DEF ProgramKnown
<1>4. fields \in FieldsFor(program, file.command) BY <1>3 DEF FieldsFor
<1>5. fields \in Declarations(program) BY <1>3 DEF FieldsFor, Declarations
<1>6. IsSequence(fields) BY <1>1, <1>5, FieldsAreDeclared
<1>7. TAKE i \in Users
<1>8. PICK k \in DOMAIN fields : Specs[i] = MakeSpec(fields[k]) BY <1>3, <1>6, SchemaOfFields
<1> DEFINE field == fields[k]
           held == file.fields[field.name]
<1>9. DOMAIN field = DOMAIN Field BY <1>1, <1>5, FieldsAreDeclared
<1>10. field.shape = Specs[i].shape /\ field.name = Specs[i].name BY <1>8, <1>9, MakeSpecKeeps
<1>11. field.name \in DOMAIN file.fields =>
         /\ field.shape = "one" => Len(held) = 1
         /\ field.shape = "opt" => Len(held) <= 1
  BY <1>1, <1>2, <1>4, FilesAreTyped
<1>12. Specs[i].shape = "one" => Specs[i].skippable \/ Specs[i].name \in DOMAIN file.fields
  BY DEF Decodes, InFile
<1>13. Imported(i) = IF field.name \in DOMAIN file.fields THEN held
                     ELSE IF Specs[i].skippable THEN Specs[i].initial ELSE <<>>
  BY <1>10 DEF Imported, InFile
<1>15. /\ Specs[i].shape = "one" => Len(Specs[i].initial) = 1
       /\ Specs[i].shape = "opt" => Len(Specs[i].initial) <= 1
  BY SpecsDeclared
<1> HIDE DEF field, held
<1>14. Len(<<>>) = 0 /\ (Len(Imported(i)) = 1 => Imported(i) # <<>>) OBVIOUS
<1> QED BY <1>10, <1>11, <1>12, <1>13, <1>14, <1>15

-----------------------------------------------------------------------------
(* What the steps leave alone.                                             *)

LEMMA ProgramStays ==
  ASSUME ProgramKnown, UNCHANGED <<inputs, stage, schema>>, stage = "options" => UNCHANGED command
  PROVE  ProgramKnown'
<1>1. /\ program' = program /\ argv' = argv /\ file' = file
      /\ stage' = stage /\ schema' = schema
  BY DEF inputs
<1>2. stage = "options" => command' = command OBVIOUS
<1> QED BY <1>1, <1>2 DEF ProgramKnown, SchemaOf

LEMMA RawStays ==
  ASSUME RawKept(raw), UNCHANGED <<schema, raw>>
  PROVE  RawKept(raw)'
BY DEF RawKept, Specs

LEMMA FilesStay ==
  ASSUME FilesChosen, UNCHANGED <<rootIo, io>>, pc' \notin Filled \cup {"defaults"}
  PROVE  FilesChosen'
BY DEF FilesChosen, Filled, Provided

\* Before the fields are filled nothing is promised of the object.
LEMMA NothingMade ==
  ASSUME ParserInv, pc \in {"validate", "scan", "collect"}, UNCHANGED outputs,
         pc' \in {"validate", "scan", "collect", "defaults", "failed"}
  PROVE  ObjectMade' /\ Related' /\ Exported'
<1>1. outputs = <<>> BY DEF ParserInv, Exported, ExportsAreTheResult
<1>2. outputs' = <<>> /\ DOMAIN outputs' = {} BY <1>1
<1>3. Exported' BY <1>2 DEF Exported, ExportsAreTheResult, Done
<1>4. ObjectMade' BY DEF ObjectMade, Filled, Provided
<1>5. Related' BY DEF Related
<1> QED BY <1>3, <1>4, <1>5

LEMMA TakeKeeps ==
  ASSUME NEW reading, ReadingKept(reading), Take(reading), pc = "scan", UNCHANGED schema
  PROVE  RawKept(raw)' /\ Position(at)' /\ pc' \in {"scan", "failed"}
<1>1. raw' = reading.raw /\ at' = reading.at BY DEF Take
<1>2. RawKept(raw)' /\ Position(at)' BY <1>1 DEF ReadingKept, RawKept, Position, Specs
<1>3. pc' \in {"scan", "failed"} BY DEF Take, Fail
<1> QED BY <1>2, <1>3

-----------------------------------------------------------------------------
(* The steps that read argv.                                               *)

LEMMA WordIsRead ==
  ASSUME ParserInv, pc = "scan", KeepScan,
         RawKept(raw)', Position(at)', pc' \in {"scan", "collect", "failed"}
  PROVE  ParserInv'
<1>1. /\ UNCHANGED inputs /\ UNCHANGED stage /\ UNCHANGED schema /\ UNCHANGED rootIo
      /\ UNCHANGED io /\ UNCHANGED command /\ UNCHANGED outputs
  BY DEF KeepScan
<1>2. ProgramKnown' BY <1>1, ProgramStays DEF ParserInv
<1>3. FilesChosen' BY <1>1, FilesStay DEF ParserInv, Filled
<1>4. ObjectMade' /\ Related' /\ Exported' BY <1>1, NothingMade
<1> QED BY <1>2, <1>3, <1>4 DEF ParserInv

LEMMA WordOfArgv ==
  ASSUME ProgramKnown, Position(at), at <= Len(argv)
  PROVE  IsSequence(argv[at].body)
<1>1. PICK n \in Names : argv \in UNION {[1..k -> Words(n)] : k \in 0..MaxWords}
  BY DEF ProgramKnown
<1>2. PICK k \in 0..MaxWords : argv \in [1..k -> Words(n)] BY <1>1
<1>3. k \in Nat OBVIOUS
<1>4. argv \in Seq(Words(n)) /\ Len(argv) = k BY <1>2, <1>3, SeqDef
<1>5. argv[at] \in Words(n) BY <1>2, <1>3, <1>4 DEF Position
<1> QED BY <1>5, WordsAreSequences

LEMMA ScanInv ==
  ASSUME ParserInv, Scan
  PROVE  ParserInv'
<1>0. pc = "scan" BY DEF Scan, ScanEnds, ScanAsked, ScanEndOfOptions, ScanOption, ScanPositional,
        ScanRootOption, ScanCommand, Scanning
<1>1. ProgramKnown /\ RawKept(raw) /\ Position(at) BY DEF ParserInv
<1>2. Position(at + 1) BY <1>1 DEF Position
<1>3. CASE ScanEnds \/ ScanAsked
  <2>1. /\ KeepScan /\ UNCHANGED schema /\ UNCHANGED raw /\ at' = at
        /\ pc' \in {"collect", "failed"}
    BY <1>3 DEF ScanEnds, ScanAsked, KeepScan, scanned, Fail
  <2>2. Position(at)' BY <1>1, <2>1 DEF Position
  <2> QED BY <1>0, <1>1, <2>1, <2>2, RawStays, WordIsRead
<1>4. CASE ScanEndOfOptions
  <2>1. KeepScan /\ UNCHANGED schema /\ UNCHANGED raw /\ pc' = pc /\ at' = at + 1
    BY <1>4 DEF ScanEndOfOptions, KeepScan
  <2>2. Position(at)' BY <1>2, <2>1 DEF Position
  <2> QED BY <1>0, <1>1, <2>1, <2>2, RawStays, WordIsRead
<1>5. CASE ScanOption \/ ScanPositional \/ ScanRootOption
  <2>1. KeepScan /\ UNCHANGED schema /\ at <= Len(argv)
    BY <1>5 DEF ScanOption, ScanPositional, ScanRootOption, KeepScan
  <2> DEFINE w == argv[at]
  <2>2. IsSequence(w.body) BY <1>1, <2>1, WordOfArgv
  <2>3. PICK reading \in {ReadLong(w), ReadShort(w), ReadPositional(w), Unknown(raw)} : Take(reading)
    BY <1>5 DEF ScanOption, ScanPositional, ScanRootOption
  <2>4. ReadingKept(reading) BY <1>1, <2>2, <2>3, ReadingsKeepRaw
  <2>5. RawKept(raw)' /\ Position(at)' /\ pc' \in {"scan", "failed"}
    BY <1>0, <2>1, <2>3, <2>4, TakeKeeps
  <2> QED BY <1>0, <2>1, <2>5, WordIsRead
<1>6. CASE ScanCommand
  <2>1. /\ stage = "root" /\ pc' = "collect" /\ UNCHANGED <<inputs, stage, schema, raw, rootIo, io, outputs>>
        /\ at' \in {at, at + 1, at + 2}
    BY <1>1, <1>6 DEF ScanCommand, Scanning, Position
  <2>2. UNCHANGED schema /\ UNCHANGED raw /\ UNCHANGED outputs /\ UNCHANGED <<rootIo, io>> BY <2>1
  <2>3. Position(at)' BY <1>1, <2>1 DEF Position
  <2>4. ProgramKnown' BY <1>1, <2>1, ProgramStays
  <2>5. RawKept(raw)' BY <1>1, <2>2, RawStays
  <2>6. FilesChosen' BY <2>1, <2>2, FilesStay DEF ParserInv, Filled
  <2>7. ObjectMade' /\ Related' /\ Exported' BY <1>0, <2>1, <2>2, NothingMade
  <2> QED BY <2>3, <2>4, <2>5, <2>6, <2>7 DEF ParserInv
<1> QED BY <1>3, <1>4, <1>5, <1>6 DEF Scan

LEMMA ValidateInv ==
  ASSUME ParserInv, Validate
  PROVE  ParserInv'
<1>1. /\ pc = "validate" /\ pc' \in {"scan", "failed"}
      /\ UNCHANGED inputs /\ UNCHANGED stage /\ UNCHANGED schema /\ UNCHANGED scanned
      /\ UNCHANGED rootIo /\ UNCHANGED io /\ UNCHANGED command /\ UNCHANGED outputs
  BY DEF Validate, Fail
<1>2. UNCHANGED raw /\ at' = at BY <1>1 DEF scanned
<1>3. ProgramKnown' BY <1>1, ProgramStays DEF ParserInv
<1>4. RawKept(raw)' BY <1>1, <1>2, RawStays DEF ParserInv
<1>5. Position(at)' BY <1>2 DEF ParserInv, Position
<1>6. FilesChosen' BY <1>1, FilesStay DEF ParserInv, Filled
<1>7. ObjectMade' /\ Related' /\ Exported' BY <1>1, NothingMade
<1> QED BY <1>3, <1>4, <1>5, <1>6, <1>7 DEF ParserInv

-----------------------------------------------------------------------------
(* The first state, and the steps between argv and the fields.              *)

LEMMA NothingRawIsKept ==
  ASSUME raw = NothingRaw(schema)
  PROVE  RawKept(raw)
<1>1. IsSequence(<<>>) BY EmptyIsSequence
<1> QED BY <1>1 DEF RawKept, NothingRaw, Specs

LEMMA InitInv == Init => ParserInv
<1> SUFFICES ASSUME Init PROVE ParserInv OBVIOUS
<1>1. PICK n \in Names :
        /\ program = Program(n) /\ file \in Files(n) \cup {NoFile}
        /\ argv \in UNION {[1..k -> Words(n)] : k \in 0..MaxWords}
  BY DEF Init
<1>2. /\ stage = IF program.commands = <<>> THEN "options" ELSE "root"
      /\ pc = "validate" /\ schema = SchemaOf(program.fields)
      /\ raw = NothingRaw(schema) /\ at = 1 /\ outputs = <<>>
      /\ rootIo = NoIo /\ io = NoIo
  BY DEF Init
<1>3. ProgramKnown
  <2>1. \E k \in Names :
          /\ program = Program(k) /\ file \in Files(k) \cup {NoFile}
          /\ argv \in UNION {[1..j -> Words(k)] : j \in 0..MaxWords}
    BY <1>1
  <2>2. stage = "options" => \E fields \in FieldsFor(program, command) : schema = SchemaOf(fields)
    BY <1>2 DEF FieldsFor
  <2>3. /\ stage \in {"root", "options"} /\ (program.commands = <<>> => stage = "options")
        /\ schema = SchemaOf(program.fields)
    BY <1>2
  <2> QED BY <2>1, <2>2, <2>3 DEF ProgramKnown
<1>4. RawKept(raw) /\ Position(at) BY <1>2, NothingRawIsKept DEF Position
<1>5. FilesChosen BY <1>2, EmptyIsSequence DEF FilesChosen, NoIo, Filled, Provided
<1>6. ObjectMade /\ Related BY <1>2 DEF ObjectMade, Related, Filled, Provided
<1>7. Exported
  <2>1. DOMAIN outputs = {} BY <1>2
  <2> QED BY <1>2, <2>1 DEF Exported, ExportsAreTheResult, Done
<1> QED BY <1>3, <1>4, <1>5, <1>6, <1>7 DEF ParserInv

LEMMA CollectOptionsInv ==
  ASSUME ParserInv, CollectOptions
  PROVE  ParserInv'
<1>1. /\ pc = "collect" /\ stage = "options" /\ io' = Selected
      /\ IF Len(Selected.import) > 1 THEN pc' = "failed" ELSE pc' = "defaults"
      /\ UNCHANGED inputs /\ UNCHANGED stage /\ UNCHANGED schema /\ UNCHANGED scanned
      /\ UNCHANGED rootIo /\ UNCHANGED command /\ UNCHANGED outputs
  BY DEF CollectOptions, Fail
<1>2. UNCHANGED raw /\ at' = at BY <1>1 DEF scanned
<1>3. ProgramKnown' BY <1>1, ProgramStays DEF ParserInv
<1>4. RawKept(raw)' BY <1>1, <1>2, RawStays DEF ParserInv
<1>5. Position(at)' BY <1>2 DEF ParserInv, Position
<1>6. FilesChosen'
  <2>1. Len(Specs) \in Nat BY SpecsDeclared DEF ParserInv
  <2>2. IsSequence(rootIo.import) /\ IsSequence(rootIo.exports) BY DEF ParserInv, FilesChosen
  <2>3. IsSequence(Selected.import) /\ IsSequence(Selected.exports)
    BY <2>1, <2>2, SelectedAreSequences
  <2> DEFINE s == Selected
  <2>4. Len(s.import) \in Nat BY <2>3 DEF IsSequence
  <2> HIDE DEF s
  <2>5. pc' = "failed" \/ (pc' = "defaults" /\ Len(s.import) <= 1) BY <1>1, <2>4 DEF s
  <2>6. io' = s /\ rootIo' = rootIo /\ stage' = "options" BY <1>1 DEF s
  <2> QED BY <2>2, <2>3, <2>5, <2>6 DEF FilesChosen, Filled, Provided, s
<1>7. ObjectMade' /\ Related' /\ Exported' BY <1>1, NothingMade
<1> QED BY <1>3, <1>4, <1>5, <1>6, <1>7 DEF ParserInv

LEMMA CollectRootInv ==
  ASSUME ParserInv, CollectRoot
  PROVE  ParserInv'
<1>1. /\ pc = "collect" /\ stage = "root" /\ rootIo' = Selected /\ command' = RootCommand
      /\ UNCHANGED inputs /\ UNCHANGED io /\ UNCHANGED outputs
  BY DEF CollectRoot
<1>2. \/ /\ pc' = "failed" /\ UNCHANGED stage /\ UNCHANGED schema /\ UNCHANGED raw /\ at' = at
      \/ /\ pc' = "validate" /\ stage' = "options"
         /\ \E k \in DOMAIN program.commands : program.commands[k].name = RootCommand
         /\ schema' = SchemaOf(FieldsOf(RootCommand)) /\ raw' = NothingRaw(schema')
         /\ at' = IF command = NoCommand THEN Len(argv) + 1 ELSE at
  BY DEF CollectRoot, Fail
<1>3. FilesChosen'
  <2>1. Len(Specs) \in Nat BY SpecsDeclared DEF ParserInv
  <2>2. /\ IsSequence(rootIo.import) /\ IsSequence(rootIo.exports)
        /\ IsSequence(io.import) /\ IsSequence(io.exports)
    BY DEF ParserInv, FilesChosen
  <2>3. IsSequence(Selected.import) /\ IsSequence(Selected.exports)
    BY <2>1, <2>2, SelectedAreSequences
  <2> DEFINE s == Selected
  <2> HIDE DEF s
  <2>4. pc' \in {"failed", "validate"} /\ io' = io /\ rootIo' = s BY <1>1, <1>2 DEF s
  <2> QED BY <2>2, <2>3, <2>4 DEF FilesChosen, Filled, Provided, s
<1>4. ObjectMade' /\ Related' /\ Exported' BY <1>1, <1>2, NothingMade
<1>5. ProgramKnown /\ RawKept(raw) /\ Position(at) BY DEF ParserInv
<1>6. CASE pc' = "failed" /\ UNCHANGED stage /\ UNCHANGED schema /\ UNCHANGED raw /\ at' = at
  <2>1. ProgramKnown' BY <1>1, <1>5, <1>6, ProgramStays
  <2>2. RawKept(raw)' BY <1>5, <1>6, RawStays
  <2>3. Position(at)' BY <1>5, <1>6 DEF Position
  <2> QED BY <1>3, <1>4, <2>1, <2>2, <2>3 DEF ParserInv
<1>7. CASE /\ stage' = "options"
           /\ \E k \in DOMAIN program.commands : program.commands[k].name = RootCommand
           /\ schema' = SchemaOf(FieldsOf(RootCommand)) /\ raw' = NothingRaw(schema')
           /\ at' = IF command = NoCommand THEN Len(argv) + 1 ELSE at
  <2> DEFINE name == RootCommand
  <2>1. FieldsOf(name) \in FieldsFor(program, name)
    <3> HIDE DEF name
    <3> DEFINE k == CHOOSE k \in DOMAIN program.commands : program.commands[k].name = name
    <3>1. program.commands # <<>> BY <1>1, <1>5 DEF ProgramKnown
    <3>2. k \in DOMAIN program.commands /\ program.commands[k].name = name BY <1>7 DEF name
    <3>3. FieldsOf(name) = program.commands[k].fields BY DEF FieldsOf
    <3> HIDE DEF k
    <3> QED BY <3>1, <3>2, <3>3 DEF FieldsFor
  <2> HIDE DEF name
  <2>2. /\ program' = program /\ argv' = argv /\ file' = file /\ command' = name
        /\ schema' = SchemaOf(FieldsOf(name)) /\ stage' = "options"
    BY <1>1, <1>7 DEF inputs, name
  <2>3. ProgramKnown'
    <3>1. (\E fields \in FieldsFor(program, command) : schema = SchemaOf(fields))'
      BY <2>1, <2>2 DEF SchemaOf
    <3> QED BY <1>5, <2>2, <3>1 DEF ProgramKnown
  <2>4. RawKept(raw)'
    <3>1. IsSequence(<<>>) BY EmptyIsSequence
    <3> QED BY <1>7, <3>1 DEF RawKept, NothingRaw, Specs
  <2>5. Position(at)'
    <3>1. PICK n \in Names : argv \in UNION {[1..k -> Words(n)] : k \in 0..MaxWords}
      BY <1>5 DEF ProgramKnown
    <3>2. PICK k \in 0..MaxWords : argv \in [1..k -> Words(n)] BY <3>1
    <3>3. Len(argv) = k /\ k \in Nat BY <3>2, SeqDef
    <3> QED BY <1>5, <1>7, <3>3 DEF Position
  <2> QED BY <1>3, <1>4, <2>3, <2>4, <2>5 DEF ParserInv
<1> QED BY <1>2, <1>6, <1>7

-----------------------------------------------------------------------------
(* The steps that make the object.                                         *)

\* What a step on the fields leaves alone.
Settled ==
  /\ UNCHANGED inputs /\ UNCHANGED stage /\ UNCHANGED schema /\ UNCHANGED scanned
  /\ UNCHANGED rootIo /\ UNCHANGED io /\ UNCHANGED command

LEMMA SettledIs ==
  ASSUME ParserInv, Settled
  PROVE  /\ ProgramKnown' /\ RawKept(raw)' /\ Position(at)'
         /\ Specs' = Specs /\ Users' = Users /\ raw' = raw /\ env' = env /\ file' = file
         /\ io' = io /\ rootIo' = rootIo /\ stage' = stage /\ command' = command
         /\ program' = program
         /\ Decodes' = Decodes /\ \A i : Imported(i)' = Imported(i)
         /\ \A i : InFile(i)' = InFile(i)
<1>1. /\ raw' = raw /\ at' = at /\ schema' = schema /\ program' = program /\ env' = env
      /\ file' = file /\ io' = io /\ rootIo' = rootIo /\ stage' = stage /\ command' = command
  BY DEF Settled, inputs, scanned
<1>2. Specs' = Specs /\ Users' = Users BY <1>1 DEF Specs, Users
<1>3. ProgramKnown' BY ProgramStays DEF ParserInv, Settled
<1>4. RawKept(raw)' BY <1>1, RawStays DEF ParserInv
<1>5. Position(at)' BY <1>1 DEF ParserInv, Position
<1>6. Decodes' = Decodes BY <1>1, <1>2 DEF Decodes, InFile
<1>7. \A i : Imported(i)' = Imported(i) /\ InFile(i)' = InFile(i)
  BY <1>1, <1>2 DEF Imported, InFile
<1> QED BY <1>1, <1>2, <1>3, <1>4, <1>5, <1>6, <1>7

\* The outputs of a step before the exports.
LEMMA NoOutputs ==
  ASSUME ParserInv, pc \notin {"done", "failed"}, outputs' = outputs,
         pc' # "done"
  PROVE  Exported'
<1>1. outputs = <<>> BY DEF ParserInv, Exported, ExportsAreTheResult
<1>2. outputs' = <<>> /\ DOMAIN outputs' = {} BY <1>1
<1> QED BY <1>2 DEF Exported, ExportsAreTheResult, Done

\* A step that fails promises nothing of the object.
LEMMA FailureInv ==
  ASSUME ParserInv, Settled, Exported', pc' = "failed"
  PROVE  ParserInv'
<1>1. ObjectMade' /\ Related' BY DEF ObjectMade, Related, Filled, Provided
<1>2. FilesChosen' BY SettledIs DEF ParserInv, FilesChosen, Filled, Provided
<1> QED BY <1>1, <1>2, SettledIs DEF ParserInv

LEMMA DefaultsInv ==
  ASSUME ParserInv, Defaults
  PROVE  ParserInv'
<1> DEFINE d(i) == AssignAll(Specs[i], Specs[i].initial, Specs[i].default)
<1>1. Settled /\ outputs' = outputs /\ pc = "defaults"
  BY DEF Defaults, Settled
<1>2. \/ pc' = "failed"
      \/ /\ \A i \in Users : d(i) # <<>>
         /\ object' = [i \in Users |-> d(i)[1]]
         /\ supplied' = [i \in Users |-> Specs[i].default # <<>>]
         /\ pc' = "import"
  BY DEF Defaults, SetFields, Fail
<1>3. Exported' BY <1>1, <1>2, NoOutputs
<1>4. CASE pc' = "failed" BY <1>1, <1>3, <1>4, FailureInv
<1>5. CASE /\ \A i \in Users : d(i) # <<>>
           /\ object' = [i \in Users |-> d(i)[1]]
           /\ supplied' = [i \in Users |-> Specs[i].default # <<>>]
           /\ pc' = "import"
  <2>1. FilesChosen' BY <1>1, <1>5, SettledIs DEF ParserInv, FilesChosen, Filled, Provided
  <2>2. Related' BY <1>5 DEF Related
  <2>3. ASSUME NEW i \in Users
        PROVE  /\ FromDefault(i)' /\ supplied'[i] \in BOOLEAN
               /\ supplied'[i] /\ Specs'[i].shape # "vec" => object'[i] # <<>>
    <3>1. /\ IsSequence(Specs[i].default)
          /\ Specs[i].separator => Specs[i].shape = "vec"
      BY <2>3, SpecsDeclared DEF ParserInv
    <3>2. d(i) # <<>> /\ object'[i] = d(i)[1] /\ supplied'[i] = (Specs[i].default # <<>>)
      BY <1>5, <2>3
    <3>3. /\ Specs[i].default = <<>> => d(i)[1] = Specs[i].initial
          /\ Specs[i].default # <<>> /\ Specs[i].shape # "vec" =>
               d(i)[1] = Assign(Specs[i], <<>>, Last(Specs[i].default))[1] /\ d(i)[1] # <<>>
      BY <3>1, <3>2, AssignAllIs
    <3>4. Specs' = Specs BY <1>1, SettledIs
    <3>5. Specs[i].default # <<>> => Holds(i, Specs[i].initial, Specs[i].default)'
      BY <3>2, <3>3, <3>4 DEF Holds
    <3>6. FromDefault(i)' BY <3>2, <3>3, <3>4, <3>5 DEF FromDefault
    <3> QED BY <3>2, <3>3, <3>4, <3>6
  <2>4. Users' = Users /\ Specs' = Specs BY <1>1, SettledIs
  <2>5. (supplied \in [Users -> BOOLEAN])' BY <1>5, <2>4
  <2>6. ObjectMade' BY <1>5, <2>3, <2>4, <2>5 DEF ObjectMade, Filled, Provided
  <2> QED BY <1>1, <1>3, <2>1, <2>2, <2>6, SettledIs DEF ParserInv
<1> QED BY <1>2, <1>4, <1>5

LEMMA ImportInv ==
  ASSUME ParserInv, Import
  PROVE  ParserInv'
<1> DEFINE fits == Decodes /\ (program.commands # <<>> => file.command = command)
           given == [i \in Users |-> Specs[i].shape = "opt" => Imported(i) # <<>>]
<1>1. Settled /\ outputs' = outputs /\ pc = "import"
  BY DEF Import, Settled
<1>2. \/ pc' = "failed"
      \/ io.import = <<>> /\ pc' = "explicit" /\ UNCHANGED result
      \/ /\ io.import # <<>> /\ fits /\ pc' = "explicit"
         /\ object' = [i \in Users |-> Imported(i)] /\ supplied' = given
  BY DEF Import, SetFields, Fail
<1>3. Exported' BY <1>1, <1>2, NoOutputs
<1>4. CASE pc' = "failed" BY <1>1, <1>3, <1>4, FailureInv
<1>5. CASE io.import = <<>> /\ pc' = "explicit" /\ UNCHANGED result
  <2>1. object' = object /\ supplied' = supplied BY <1>5 DEF result
  <2>2. FilesChosen' BY <1>1, <1>5, SettledIs DEF ParserInv, FilesChosen, Filled, Provided
  <2>3. Related' BY <1>5 DEF Related
  <2>4. Users' = Users /\ Specs' = Specs /\ io' = io BY <1>1, SettledIs
  <2>5. \A i \in Users : FromDefault(i) BY <1>1 DEF ParserInv, ObjectMade
  <2>6. \A i \in Users : FromDefault(i)' BY <2>1, <2>4, <2>5 DEF FromDefault, Holds
  <2>7. /\ supplied \in [Users -> BOOLEAN]
        /\ \A i \in Users : supplied[i] /\ Specs[i].shape # "vec" => object[i] # <<>>
    BY <1>1 DEF ParserInv, ObjectMade, Filled
  <2>8. ObjectMade' BY <1>5, <2>1, <2>4, <2>6, <2>7 DEF ObjectMade, Filled, Provided
  <2> QED BY <1>1, <1>3, <2>2, <2>3, <2>8, SettledIs DEF ParserInv
<1>6. CASE /\ io.import # <<>> /\ fits /\ pc' = "explicit"
           /\ object' = [i \in Users |-> Imported(i)] /\ supplied' = given
  <2>1. FilesChosen' BY <1>1, <1>6, SettledIs DEF ParserInv, FilesChosen, Filled, Provided
  <2>2. Related' BY <1>6 DEF Related
  <2>3. Users' = Users /\ Specs' = Specs /\ io' = io /\ \A i : Imported(i)' = Imported(i)
    BY <1>1, SettledIs
  <2>4. \A i \in Users : Specs[i].shape = "one" => Imported(i) # <<>>
    BY <1>1, <1>6, ImportedValues DEF ParserInv, FilesChosen, Filled
  <2>5. \A i \in Users : Specs[i].shape \in {"one", "opt", "vec"} BY SpecsDeclared DEF ParserInv
  <2>6. ASSUME NEW i \in Users
        PROVE  /\ FromFile(i)' /\ supplied'[i] \in BOOLEAN
               /\ supplied'[i] /\ Specs'[i].shape # "vec" => object'[i] # <<>>
    <3>1. object'[i] = Imported(i) BY <1>6
    <3>2. supplied'[i] = (Specs[i].shape = "opt" => Imported(i) # <<>>) BY <1>6
    <3>3. FromFile(i)' BY <2>3, <3>1, <3>2 DEF FromFile
    <3> QED BY <2>3, <2>4, <2>5, <3>1, <3>2, <3>3
  <2>7. (supplied \in [Users -> BOOLEAN])' BY <1>6, <2>3
  <2>8. ObjectMade' BY <1>6, <2>3, <2>6, <2>7 DEF ObjectMade, Filled, Provided
  <2> QED BY <1>1, <1>3, <2>1, <2>2, <2>8, SettledIs DEF ParserInv
<1> QED BY <1>2, <1>4, <1>5, <1>6

\* The start of an option's explicit values is Start, whatever gave its value before.
LEMMA BaseIsStart ==
  ASSUME ParserInv, pc = "explicit", NEW i \in Users, Specs[i].shape = "vec", Explicit(i) # <<>>
  PROVE  Base(i) = Start(i)
<1>1. IF io.import # <<>> THEN FromFile(i) ELSE FromDefault(i) BY DEF ParserInv, ObjectMade
<1>2. Base(i) = IF supplied[i] THEN <<>> ELSE object[i] BY DEF Base
<1>3. CASE io.import # <<>>
  <2>1. supplied[i] BY <1>1, <1>3 DEF FromFile
  <2> QED BY <1>2, <1>3, <2>1 DEF Start
<1>4. CASE io.import = <<>>
  <2>1. FromDefault(i) BY <1>1, <1>4
  <2> QED BY <1>2, <1>4, <2>1 DEF Start, FromDefault
<1> QED BY <1>3, <1>4

\* An option is supplied when the imported file or its default gives it a value.
LEMMA SuppliedSources ==
  ASSUME ParserInv, pc = "explicit", NEW i \in Users
  PROVE  supplied[i] <=> IF io.import # <<>> THEN Specs[i].shape = "opt" => Imported(i) # <<>>
                         ELSE Specs[i].default # <<>>
<1>1. IF io.import # <<>> THEN FromFile(i) ELSE FromDefault(i) BY DEF ParserInv, ObjectMade
<1>2. CASE io.import # <<>> BY <1>1, <1>2 DEF FromFile
<1>3. CASE io.import = <<>> BY <1>1, <1>3 DEF FromDefault
<1> QED BY <1>2, <1>3

LEMMA MaterializeInv ==
  ASSUME ParserInv, Materialize
  PROVE  ParserInv'
<1> DEFINE m(i) == AssignAll(Specs[i], Base(i), Explicit(i))
           given == [i \in Users |-> supplied[i] \/ Explicit(i) # <<>>]
<1>1. Settled /\ outputs' = outputs /\ pc = "explicit"
  BY DEF Materialize, Settled
<1>2. \/ pc' = "failed"
      \/ /\ \A i \in Users : m(i) # <<>>
         /\ object' = [i \in Users |-> m(i)[1]] /\ supplied' = given
         /\ pc' = "check"
  BY DEF Materialize, SetFields, Fail
<1>3. Exported' BY <1>1, <1>2, NoOutputs
<1>4. CASE pc' = "failed" BY <1>1, <1>3, <1>4, FailureInv
<1>5. CASE /\ \A i \in Users : m(i) # <<>>
           /\ object' = [i \in Users |-> m(i)[1]] /\ supplied' = given
           /\ pc' = "check"
  <2>1. FilesChosen' BY <1>1, <1>5, SettledIs DEF ParserInv, FilesChosen, Filled, Provided
  <2>2. Related' BY <1>5 DEF Related
  <2>3. /\ Users' = Users /\ Specs' = Specs /\ io' = io /\ raw' = raw /\ env' = env
        /\ \A i : Imported(i)' = Imported(i)
    BY <1>1, SettledIs
  <2>4. ASSUME NEW i \in Users
        PROVE  /\ Valued(i)' /\ (supplied[i] <=> Counted(i))' /\ supplied'[i] \in BOOLEAN
               /\ supplied'[i] /\ Specs'[i].shape # "vec" => object'[i] # <<>>
    <3>1. m(i) # <<>> /\ object'[i] = m(i)[1] /\ supplied'[i] = (supplied[i] \/ Explicit(i) # <<>>)
      BY <1>5
    <3>2. IsSequence(raw[i]) /\ (Specs[i].separator => Specs[i].shape = "vec")
      BY SpecsDeclared DEF ParserInv, RawKept
    <3> DEFINE fromEnv == <<env[Specs[i].env]>>
    <3>3. /\ IsSequence(<<>>) /\ IsSequence(fromEnv)
          /\ fromEnv # <<>>
      BY EmptyIsSequence, OneIsSequence
    <3>4. Explicit(i) = IF raw[i] # <<>> THEN raw[i]
                        ELSE IF Specs[i].env \in DOMAIN env THEN fromEnv ELSE <<>>
      BY DEF Explicit, FromEnv
    <3> HIDE DEF fromEnv
    <3>5. IsSequence(Explicit(i)) BY <3>2, <3>3, <3>4
    <3>6. /\ Explicit(i) = <<>> => m(i)[1] = Base(i)
          /\ Explicit(i) # <<>> /\ Specs[i].shape # "vec" =>
               m(i)[1] = Assign(Specs[i], <<>>, Last(Explicit(i)))[1] /\ m(i)[1] # <<>>
      BY <3>1, <3>2, <3>5, AssignAllIs
    <3>7. Explicit(i) = <<>> => Base(i) = object[i] BY DEF Base
    <3>8. Explicit(i) # <<>> /\ Specs[i].shape = "vec" =>
            m(i)[1] = AssignAll(Specs[i], Start(i), Explicit(i))[1]
      BY <1>1, BaseIsStart
    <3>9. Start(i)' = Start(i) BY <2>3 DEF Start
    <3>10. Explicit(i) # <<>> => Holds(i, Start(i), Explicit(i))'
      <4>1. Explicit(i)' = Explicit(i) BY <2>3 DEF Explicit, FromEnv
      <4> QED BY <2>3, <3>1, <3>6, <3>8, <3>9, <4>1 DEF Holds
    <3>11. IF io.import # <<>> THEN FromFile(i) ELSE FromDefault(i)
      BY <1>1 DEF ParserInv, ObjectMade
    <3>12. Valued(i)'
      <4>1. CASE Explicit(i) # <<>>
        <5>1. Explicit(i)' = Explicit(i) /\ fromEnv' = fromEnv
          BY <2>3 DEF Explicit, FromEnv, fromEnv
        <5>2. raw[i] # <<>> => Holds(i, Start(i), raw[i])'
          BY <2>3, <3>4, <3>10, <4>1, <5>1 DEF Holds
        <5>3. raw[i] = <<>> => Specs[i].env \in DOMAIN env /\ Holds(i, Start(i), fromEnv)'
          BY <2>3, <3>4, <3>10, <4>1, <5>1 DEF Holds
        <5> QED BY <2>3, <5>2, <5>3 DEF Valued, fromEnv
      <4>2. CASE Explicit(i) = <<>>
        <5>1. raw[i] = <<>> /\ Specs[i].env \notin DOMAIN env BY <3>3, <3>4, <4>2
        <5>2. object'[i] = object[i] BY <3>1, <3>6, <3>7, <4>2
        <5>3. io.import # <<>> => object'[i] = Imported(i) BY <3>11, <5>2 DEF FromFile
        <5>4. io.import = <<>> /\ Specs[i].default = <<>> => object'[i] = Specs[i].initial
          BY <3>11, <5>2 DEF FromDefault
        <5>5. io.import = <<>> /\ Specs[i].default # <<>> =>
                Holds(i, Specs[i].initial, Specs[i].default)'
          BY <2>3, <3>11, <5>2 DEF FromDefault, Holds
        <5> QED BY <2>3, <5>1, <5>3, <5>4, <5>5 DEF Valued
      <4> QED BY <4>1, <4>2
    <3>13. (supplied[i] <=> Counted(i))'
      <4>1. supplied[i] <=> IF io.import # <<>> THEN Specs[i].shape = "opt" => Imported(i) # <<>>
                            ELSE Specs[i].default # <<>>
        BY <1>1, SuppliedSources
      <4>2. Explicit(i) # <<>> <=> (raw[i] # <<>> \/ Specs[i].env \in DOMAIN env)
        BY <3>3, <3>4
      <4>3. Counted(i)' <=> supplied[i] \/ Explicit(i) # <<>>
        BY <2>3, <4>1, <4>2 DEF Counted
      <4> QED BY <3>1, <4>3
    <3>14. supplied[i] /\ Specs[i].shape # "vec" => object[i] # <<>>
      BY <1>1 DEF ParserInv, ObjectMade, Filled
    <3>15. supplied'[i] /\ Specs'[i].shape # "vec" => object'[i] # <<>>
      BY <2>3, <3>1, <3>6, <3>7, <3>14
    <3>16. supplied'[i] \in BOOLEAN BY <3>1
    <3> QED BY <3>12, <3>13, <3>15, <3>16
  <2>5. (supplied \in [Users -> BOOLEAN])' BY <1>5, <2>3, <2>4
  <2>6. ObjectMade' BY <1>5, <2>3, <2>4, <2>5 DEF ObjectMade, Filled, Provided
  <2> QED BY <1>1, <1>3, <2>1, <2>2, <2>6, SettledIs DEF ParserInv
<1> QED BY <1>2, <1>4, <1>5

\* The object stays what its sources made it.
LEMMA ObjectStays ==
  ASSUME ParserInv, Settled, UNCHANGED result, pc \in Provided, pc' \in Provided
  PROVE  ObjectMade' /\ FilesChosen'
<1>1. object' = object /\ supplied' = supplied BY DEF result
<1>2. /\ Users' = Users /\ Specs' = Specs /\ io' = io /\ raw' = raw /\ env' = env
      /\ \A i : Imported(i)' = Imported(i)
  BY SettledIs
<1>3. \A i \in Users : Valued(i) /\ (supplied[i] <=> Counted(i))
  BY DEF ParserInv, ObjectMade
<1>4. \A i \in Users : Valued(i)'
  BY <1>1, <1>2, <1>3 DEF Valued, Holds, Start
<1>5. \A i \in Users : (supplied[i] <=> Counted(i))'
  BY <1>1, <1>2, <1>3 DEF Counted
<1>6. /\ supplied \in [Users -> BOOLEAN]
      /\ \A i \in Users : supplied[i] /\ Specs[i].shape # "vec" => object[i] # <<>>
  BY DEF ParserInv, ObjectMade, Filled, Provided
<1>7. ObjectMade' BY <1>1, <1>2, <1>4, <1>5, <1>6 DEF ObjectMade, Filled, Provided
<1>8. FilesChosen' BY SettledIs DEF ParserInv, FilesChosen, Filled, Provided
<1> QED BY <1>7, <1>8

LEMMA CheckInv ==
  ASSUME ParserInv, Check
  PROVE  ParserInv'
<1>1. Settled /\ outputs' = outputs /\ pc = "check" /\ UNCHANGED result
  BY DEF Check, Settled
<1> DEFINE lacks(i) == \E t \in Targets(Specs, i, Specs[i].requires) : t \notin Users \/ ~Active(t)
           clashes(i) == \E t \in Targets(Specs, i, Specs[i].conflicts) : t \in Users /\ Active(t)
<1>2. \/ pc' = "failed"
      \/ /\ ~ \E i \in Users : Specs[i].required /\ ~supplied[i]
         /\ {i \in Users : Active(i) /\ (lacks(i) \/ clashes(i))} = {}
         /\ pc' = "export"
  BY DEF Check, Fail
<1>3. Exported' BY <1>1, <1>2, NoOutputs
<1>4. CASE pc' = "failed" BY <1>1, <1>3, <1>4, FailureInv
<1>5. CASE /\ ~ \E i \in Users : Specs[i].required /\ ~supplied[i]
           /\ {i \in Users : Active(i) /\ (lacks(i) \/ clashes(i))} = {}
           /\ pc' = "export"
  <2>1. ObjectMade' /\ FilesChosen' BY <1>1, <1>5, ObjectStays DEF Provided
  <2>2. object' = object /\ supplied' = supplied /\ Users' = Users /\ Specs' = Specs
    BY <1>1, SettledIs DEF result
  <2>3. \A i : Active(i)' = Active(i) BY <2>2 DEF Active
  <2>4. ASSUME NEW i \in Users
        PROVE  /\ Specs[i].required => supplied[i]
               /\ Active(i) => ~lacks(i) /\ ~clashes(i)
    BY <1>5
  <2>5. Related' BY <2>2, <2>3, <2>4 DEF Related
  <2> QED BY <1>1, <1>3, <2>1, <2>5, SettledIs DEF ParserInv
<1> QED BY <1>2, <1>4, <1>5

\* An option counts as given when a source gave it, or an imported file skips it.
LEMMA CountedIs ==
  ASSUME ParserInv, pc \in Provided, NEW i \in Users
  PROVE  Counted(i) <=> Sourced(i) \/ SkippedCounts(i)
<1>1. CASE io.import = <<>> BY <1>1 DEF Counted, Sourced, SkippedCounts
<1>2. CASE io.import # <<>> /\ InFile(i) BY <1>2 DEF Counted, Sourced, SkippedCounts
<1>3. CASE io.import # <<>> /\ ~InFile(i)
  <2>1. Specs[i].shape = "opt" \/ Specs[i].skippable
    BY <1>3 DEF ParserInv, FilesChosen, Decodes
  <2>2. Imported(i) = IF Specs[i].skippable THEN Specs[i].initial ELSE <<>>
    BY <1>3 DEF Imported
  <2> QED BY <1>3, <2>1, <2>2 DEF Counted, Sourced, SkippedCounts
<1> QED BY <1>1, <1>2, <1>3

\* Once Check has let the object pass, every option obeys its declaration.
LEMMA CheckedIsObeyed ==
  ASSUME ParserInv, pc \in {"export", "done"}
  PROVE  \A i \in Users : Obeyed(i)
<1>1. \A i \in Users : supplied[i] <=> Sourced(i) \/ SkippedCounts(i)
  BY CountedIs DEF ParserInv, ObjectMade, Provided
<1>2. \A i \in Users : Active(i) <=> InForce(i) BY <1>1 DEF Active, InForce
<1>3. \A i \in Users :
        /\ Specs[i].required => supplied[i]
        /\ Active(i) =>
             /\ \A t \in Targets(Specs, i, Specs[i].requires) : t \in Users /\ Active(t)
             /\ \A t \in Targets(Specs, i, Specs[i].conflicts) : t \in Users => ~Active(t)
  BY DEF ParserInv, Related
<1> QED BY <1>1, <1>2, <1>3 DEF Obeyed

\* What an option must obey is settled before the exports.
LEMMA ObeyedStays ==
  ASSUME ParserInv, Settled, UNCHANGED result
  PROVE  Users' = Users /\ \A i : Obeyed(i)' = Obeyed(i)
<1>1. object' = object BY DEF result
<1>2. /\ Users' = Users /\ Specs' = Specs /\ io' = io /\ raw' = raw /\ env' = env
      /\ \A i : Imported(i)' = Imported(i) /\ InFile(i)' = InFile(i)
  BY SettledIs
<1>3. \A i : Sourced(i)' = Sourced(i) /\ SkippedCounts(i)' = SkippedCounts(i)
  BY <1>2 DEF Sourced, SkippedCounts
<1>4. \A i : InForce(i)' = InForce(i) BY <1>1, <1>2, <1>3 DEF InForce
<1>5. \A i : Obeyed(i)' = Obeyed(i) BY <1>2, <1>3, <1>4 DEF Obeyed
<1> QED BY <1>2, <1>5

LEMMA ExportInv ==
  ASSUME ParserInv, Export
  PROVE  ParserInv'
<1>1. Settled /\ pc = "export" /\ UNCHANGED result
  BY DEF Export, Settled
<1>2. PICK n \in 0..Len(io.exports) : \E contents \in [1..n -> {"whole", "part"}] :
        outputs' = [k \in 1..n |-> Written(k, contents[k])] /\ ExportEnds(contents)
  BY DEF Export
<1>3. PICK contents \in [1..n -> {"whole", "part"}] :
        outputs' = [k \in 1..n |-> Written(k, contents[k])] /\ ExportEnds(contents)
  BY <1>2
<1>4. Len(io.exports) \in Nat /\ n \in Nat BY DEF ParserInv, FilesChosen, IsSequence
<1>5. Len(contents) = n
  <2>1. contents \in Seq({"whole", "part"}) BY <1>4, SeqDef
  <2> QED BY <1>4, <2>1, LenProperties
<1>6. \/ n = Len(io.exports) /\ pc' = "done"
      \/ n < Len(io.exports) /\ pc' = "failed"
      \/ n > 0 /\ contents[n] = "part" /\ pc' = "failed"
  BY <1>3, <1>5 DEF ExportEnds, Fail
<1>7. object' = object /\ io' = io /\ command' = command
  BY <1>1, SettledIs DEF result
<1>8. DOMAIN outputs' = 1..n /\ Len(outputs') = n
  <2> DEFINE X == {outputs'[k] : k \in 1..n}
  <2>1. outputs' \in [1..n -> X] BY <1>3
  <2>2. outputs' \in Seq(X) BY <1>4, <2>1, SeqDef
  <2> HIDE DEF X
  <2> QED BY <1>4, <2>1, <2>2, LenProperties
<1>9. \A k \in 1..n : /\ outputs'[k].object = object /\ outputs'[k].command = command
                       /\ outputs'[k].format = io.exports[k] /\ outputs'[k].contents = contents[k]
  BY <1>3 DEF Written
<1>10. pc' = "failed" => Len(outputs') < Len(io'.exports) \/ Last(outputs').contents = "part"
  <2>1. n > 0 => Last(outputs') = outputs'[n] /\ n \in 1..n BY <1>4, <1>8 DEF Last
  <2> QED BY <1>6, <1>7, <1>8, <1>9, <2>1
<1>11. ExportsAreTheResult'
  <2>1. \A k \in DOMAIN outputs' : /\ outputs'[k].object = object' /\ outputs'[k].command = command'
                                   /\ outputs'[k].format = io'.exports[k]
    BY <1>7, <1>8, <1>9
  <2>2. /\ Len(outputs') <= Len(io'.exports)
        /\ pc' = "done" => Len(outputs') = Len(io'.exports)
        /\ pc' \in {"done", "failed"}
    BY <1>4, <1>6, <1>7, <1>8
  <2> QED BY <1>10, <2>1, <2>2 DEF ExportsAreTheResult, Done
<1>12. \A i \in Users' : Obeyed(i)' BY <1>1, CheckedIsObeyed, ObeyedStays
<1>13. Exported' BY <1>11, <1>12 DEF Exported
<1>14. CASE pc' = "failed" BY <1>1, <1>13, <1>14, FailureInv
<1>15. CASE pc' = "done"
  <2>1. ObjectMade' /\ FilesChosen' BY <1>1, <1>15, ObjectStays DEF Provided
  <2>2. object' = object /\ supplied' = supplied /\ Users' = Users /\ Specs' = Specs
    BY <1>1, SettledIs DEF result
  <2>3. \A i : Active(i)' = Active(i) BY <2>2 DEF Active
  <2>4. Related' BY <1>1, <2>2, <2>3 DEF Related, ParserInv
  <2> QED BY <1>1, <1>13, <2>1, <2>4, SettledIs DEF ParserInv
<1> QED BY <1>6, <1>14, <1>15

LEMMA StutterInv ==
  ASSUME ParserInv, UNCHANGED vars
  PROVE  ParserInv'
<1>1. Settled /\ outputs' = outputs /\ pc' = pc /\ UNCHANGED result
  BY DEF vars, Settled
<1>2. object' = object /\ supplied' = supplied /\ Users' = Users /\ Specs' = Specs
      /\ io' = io /\ raw' = raw /\ env' = env /\ command' = command
      /\ \A i : Imported(i)' = Imported(i)
  BY <1>1, SettledIs DEF result
<1>3. FilesChosen' BY <1>1, SettledIs DEF ParserInv, FilesChosen
<1>4. \A i : Active(i)' = Active(i) BY <1>2 DEF Active
<1>5. Related' BY <1>1, <1>2, <1>4 DEF Related, ParserInv
<1>6. Exported'
  <2>1. ExportsAreTheResult' BY <1>1, <1>2 DEF ParserInv, Exported, ExportsAreTheResult, Done
  <2>2. Users' = Users /\ \A i : Obeyed(i)' = Obeyed(i) BY <1>1, ObeyedStays
  <2>3. outputs # <<>> => \A i \in Users : Obeyed(i) BY DEF ParserInv, Exported
  <2>4. outputs' # <<>> => \A i \in Users' : Obeyed(i)' BY <1>1, <2>2, <2>3
  <2> QED BY <2>1, <2>4 DEF Exported
<1>7. /\ \A i : Valued(i)' = Valued(i)
      /\ \A i : Counted(i)' = Counted(i)
      /\ \A i : FromDefault(i)' = FromDefault(i)
      /\ \A i : FromFile(i)' = FromFile(i)
  <2>1. \A i : Start(i)' = Start(i) BY <1>2 DEF Start
  <2>2. \A i, b, t : Holds(i, b, t)' = Holds(i, b, t) BY <1>2 DEF Holds
  <2>3. \A i : Counted(i)' = Counted(i) BY <1>2 DEF Counted
  <2>4. \A i : FromFile(i)' = FromFile(i) BY <1>2 DEF FromFile
  <2>5. \A i : FromDefault(i)' = FromDefault(i) BY <1>2, <2>2 DEF FromDefault, Holds
  <2>6. \A i : Valued(i)' = Valued(i)
    BY <1>2, <2>1 DEF Valued, Holds
  <2> QED BY <2>3, <2>4, <2>5, <2>6
<1>8. ObjectMade' BY <1>1, <1>2, <1>7 DEF ParserInv, ObjectMade
<1> QED BY <1>1, <1>3, <1>5, <1>6, <1>8, SettledIs DEF ParserInv

-----------------------------------------------------------------------------
(* The theorems about the object.                                          *)

\* Whatever a call has read, its schema is that of the program and its command,
\* the object is what its sources made it and the exports are the object.
THEOREM ParserInvariant == Spec => []ParserInv
<1>1. ASSUME ParserInv, [Next]_vars PROVE ParserInv'
  <2>1. CASE Validate BY <1>1, <2>1, ValidateInv
  <2>2. CASE Scan BY <1>1, <2>2, ScanInv
  <2>3. CASE CollectRoot BY <1>1, <2>3, CollectRootInv
  <2>4. CASE CollectOptions BY <1>1, <2>4, CollectOptionsInv
  <2>5. CASE Defaults BY <1>1, <2>5, DefaultsInv
  <2>6. CASE Import BY <1>1, <2>6, ImportInv
  <2>7. CASE Materialize BY <1>1, <2>7, MaterializeInv
  <2>8. CASE Check BY <1>1, <2>8, CheckInv
  <2>9. CASE Export BY <1>1, <2>9, ExportInv
  <2>10. CASE Finished \/ UNCHANGED vars BY <1>1, <2>10, StutterInv DEF Finished
  <2> QED
    BY <1>1, <2>1, <2>2, <2>3, <2>4, <2>5, <2>6, <2>7, <2>8, <2>9, <2>10 DEF Next
<1> QED BY <1>1, InitInv, PTL DEF Spec

\* The texts of a field that is no vector are read on their own.
LEMMA HoldsAnyway ==
  ASSUME NEW i, NEW base, NEW texts, Holds(i, base, texts), Specs[i].shape # "vec"
  PROVE  Holds(i, <<>>, texts)
BY DEF Holds

\* What the steps make of a field is what the documented order says, but in two ways.
LEMMA ValuedInOrder ==
  ASSUME NEW i, Valued(i)
  PROVE  FromFirstSource(i) \/ InitialStaysInFront(i) \/ ImportDropsDefault(i)
<1> DEFINE fromEnv == <<env[Specs[i].env]>>
<1>1. fromEnv # <<>> OBVIOUS
<1>2. Explicit(i) = IF raw[i] # <<>> THEN raw[i]
                    ELSE IF Specs[i].env \in DOMAIN env THEN fromEnv ELSE <<>>
  BY DEF Explicit, FromEnv
<1> HIDE DEF fromEnv
<1>3. CASE raw[i] # <<>> \/ Specs[i].env \in DOMAIN env
  <2>1. Holds(i, Start(i), Explicit(i)) /\ Explicit(i) # <<>> BY <1>1, <1>2, <1>3 DEF Valued, fromEnv
  <2>2. Holds(i, <<>>, Explicit(i)) => FromFirstSource(i)
    BY <1>2, <1>3 DEF FromFirstSource, fromEnv
  <2>3. CASE Specs[i].shape # "vec" BY <2>1, <2>2, <2>3, HoldsAnyway
  <2>4. CASE Start(i) = <<>> BY <2>1, <2>2, <2>4
  <2>5. CASE Specs[i].shape = "vec" /\ Start(i) # <<>>
    BY <2>1, <2>5 DEF Start, InitialStaysInFront
  <2> QED BY <2>3, <2>4, <2>5
<1>4. CASE Explicit(i) = <<>> /\ raw[i] = <<>> /\ Specs[i].env \notin DOMAIN env
  <2>1. CASE io.import # <<>>
    BY <1>4, <2>1 DEF Valued, FromFirstSource, ImportDropsDefault, Imported
  <2>2. CASE io.import = <<>> /\ Specs[i].default = <<>>
    BY <1>4, <2>2 DEF Valued, FromFirstSource
  <2>3. CASE io.import = <<>> /\ Specs[i].default # <<>>
    <3>1. Holds(i, Specs[i].initial, Specs[i].default) BY <1>4, <2>3 DEF Valued
    <3>2. Holds(i, <<>>, Specs[i].default) => FromFirstSource(i)
      BY <1>4, <2>3 DEF FromFirstSource
    <3>3. CASE Specs[i].shape # "vec" BY <3>1, <3>2, <3>3, HoldsAnyway
    <3>4. CASE Specs[i].initial = <<>> BY <3>1, <3>2, <3>4
    <3>5. CASE Specs[i].shape = "vec" /\ Specs[i].initial # <<>>
      BY <1>4, <2>3, <3>1, <3>5 DEF InitialStaysInFront
    <3> QED BY <3>3, <3>4, <3>5
  <2> QED BY <2>1, <2>2, <2>3
<1> QED BY <1>2, <1>3, <1>4

\* Every field of a result is what the first source in the documented order made of
\* it, but for a vector's initial value that stays in front and for what an imported
\* file does not mention (materialize_one_option, apply_default_option and the
\* import between them).
THEOREM PrecedenceAlways == Spec => []Precedence
<1>1. ASSUME ParserInv PROVE Precedence
  <2>1. Done => \A i \in Users : Valued(i) BY <1>1 DEF ParserInv, ObjectMade, Done, Provided
  <2> QED BY <2>1, ValuedInOrder DEF Precedence
<1> QED BY <1>1, ParserInvariant, PTL

\* What a call returns, and what it leaves in files whether it succeeds or fails, is one
\* object that has passed every check (validate_materialized_options before
\* export_config_files); a file may hold a part of it only.
THEOREM ResultsAreCheckedAlways == Spec => []ResultsAreChecked
<1>1. ASSUME ParserInv PROVE ResultsAreChecked
  <2>1. Done => \A i \in Users : Obeyed(i) BY <1>1, CheckedIsObeyed DEF Done
  <2>2. RelationsHold BY <1>1, <2>1 DEF ParserInv, Exported, RelationsHold
  <2> QED BY <1>1, <2>2 DEF ParserInv, Exported, ResultsAreChecked
<1> QED BY <1>1, ParserInvariant, PTL

\* The command a call returns is one of the program's, and the one an imported
\* file is for; options before and behind it import one file at most
\* (parse_command_set, merge_config_io_selection).
THEOREM CommandAgreesAlways == Spec => []CommandAgrees
<1>1. ASSUME ParserInv PROVE CommandAgrees
  <2> SUFFICES ASSUME Done, program.commands # <<>>
               PROVE  /\ \E k \in DOMAIN program.commands :
                           /\ program.commands[k].name = command
                           /\ schema = SchemaOf(program.commands[k].fields)
                      /\ io.import # <<>> => file.ok /\ file.command = command
                      /\ Len(io.import) <= 1
    BY DEF CommandAgrees
  <2>1. stage = "options" /\ Len(io.import) <= 1
        /\ (io.import # <<>> => file.ok /\ file.command = command)
    BY <1>1 DEF ParserInv, FilesChosen, Done, Filled, Provided, Decodes
  <2>2. PICK fields \in FieldsFor(program, command) : schema = SchemaOf(fields)
    BY <1>1, <2>1 DEF ParserInv, ProgramKnown
  <2>3. PICK k \in DOMAIN program.commands :
          program.commands[k].name = command /\ fields = program.commands[k].fields
    BY <2>2 DEF FieldsFor
  <2> QED BY <2>1, <2>2, <2>3
<1> QED BY <1>1, ParserInvariant, PTL

-----------------------------------------------------------------------------
(* Names: what an accepted schema promises of the spellings, and where the  *)
(* built-in options are known.                                              *)

LEMMA ConsIsSequence ==
  ASSUME NEW e, NEW t, IsSequence(t)
  PROVE  LET s == <<e>> \o t
         IN  /\ Len(t) \in Nat /\ DOMAIN s = 1..(Len(t) + 1) /\ s[1] = e
             /\ \A k \in 1..Len(t) : s[k + 1] = t[k]
<1> DEFINE X == {t[k] : k \in 1..Len(t)} \cup {e}
           s == <<e>> \o t
<1>1. Len(t) \in Nat /\ t \in [1..Len(t) -> X] BY DEF IsSequence
<1>2. e \in X OBVIOUS
<1> HIDE DEF X
<1>3. t \in Seq(X) BY <1>1, SeqDef
<1>4. <<e>> \in Seq(X) /\ Len(<<e>>) = 1 /\ <<e>>[1] = e BY <1>2
<1>5. /\ s \in Seq(X) /\ Len(s) = Len(t) + 1
      /\ \A i \in 1..(1 + Len(t)) : s[i] = IF i <= 1 THEN <<e>>[i] ELSE t[i - 1]
  BY <1>1, <1>3, <1>4, ConcatProperties
<1> HIDE DEF s
<1>6. DOMAIN s = 1..(Len(t) + 1) BY <1>1, <1>5
<1>7. s[1] = e BY <1>1, <1>4, <1>5
<1>8. ASSUME NEW k \in 1..Len(t) PROVE s[k + 1] = t[k]
  <2>1. k + 1 \in 1..(1 + Len(t)) /\ ~(k + 1 <= 1) /\ k + 1 - 1 = k BY <1>1
  <2> QED BY <1>5, <2>1
<1> QED BY <1>1, <1>6, <1>7, <1>8 DEF s

\* The least of a set of numbers.
LEMMA MinIs ==
  ASSUME NEW I, I \subseteq Nat, I # {}
  PROVE  Min(I) \in I
<1>1. PICK x \in I : \A y \in I : ~ <<y, x>> \in OpToRel(<, Nat)
  BY NatLessThanWellFounded, WFMin
<1>2. ASSUME NEW y \in I PROVE x <= y
  <2>1. y \in Nat /\ x \in Nat OBVIOUS
  <2>2. ASSUME y < x PROVE <<y, x>> \in OpToRel(<, Nat)
    BY <2>1, <2>2, Zenon DEF OpToRel
  <2>3. ~(y < x) BY <1>1, <2>2, Zenon
  <2> QED BY <2>1, <2>3
<1> QED BY <1>2 DEF Min

\* The option of a long name.
Known(specs, path) ==
  \E i \in 1..Len(specs) : ~specs[i].positional /\ (path = specs[i].long \/ Contains(specs[i].aliases, path))

LEMMA FindLongIs ==
  ASSUME NEW specs, Len(specs) \in Nat, NEW path
  PROVE  FindLong(specs, path) # 0 <=> Known(specs, path)
<1> DEFINE I == {i \in 1..Len(specs) :
                   ~specs[i].positional /\ (path = specs[i].long \/ Contains(specs[i].aliases, path))}
<1>1. FindLong(specs, path) = IF I # {} THEN Min(I) ELSE 0
  BY DEF FindLong, SelectInSeq
<1>2. I \subseteq 1..Len(specs) OBVIOUS
<1>3. I # {} <=> Known(specs, path) BY DEF Known
<1> HIDE DEF I
<1>4. I # {} => Min(I) # 0
  <2> SUFFICES ASSUME I # {} PROVE Min(I) # 0 OBVIOUS
  <2>1. I \subseteq Nat BY <1>2
  <2>2. Min(I) \in 1..Len(specs) BY <1>2, <2>1, MinIs
  <2> QED BY <2>2
<1> QED BY <1>1, <1>3, <1>4

LEMMA BuiltinIs ==
  ASSUME NEW formats, NEW dir, NEW format
  PROVE  LET s == BuiltinSpec(formats, dir, format)
         IN  s.aliases = <<>> /\ s.shortAliases = <<>> /\ ~s.positional
BY DEF BuiltinSpec, Field

\* A pass of Collect adds the names of the options it makes, whatever is there.
LEMMA PushKnows ==
  ASSUME NEW s, IsSequence(s), NEW spec, spec.aliases = <<>>, ~spec.positional
  PROVE  /\ IsSequence(PushIfAvailable(s, spec))
         /\ \A path : Known(PushIfAvailable(s, spec), path) <=>
                        Known(s, path) \/ (spec.long # <<>> /\ path = spec.long)
<1> DEFINE u == Append(s, spec)
           n == Len(s)
<1>1. IsSequence(u) /\ Len(u) = n + 1 /\ u[n + 1] = spec /\ \A k \in 1..n : u[k] = s[k]
  BY AppendIsSequence
<1>2. n \in Nat BY DEF IsSequence
<1> HIDE DEF u
<1>3. ASSUME NEW path
      PROVE  Known(u, path) <=> Known(s, path) \/ path = spec.long
  <2>1. ~Contains(spec.aliases, path) BY DEF Contains
  <2> DEFINE Has(e) == ~e.positional /\ (path = e.long \/ Contains(e.aliases, path))
  <2>2. Has(spec) <=> path = spec.long BY <2>1
  <2>3. Known(u, path) <=> \E i \in 1..(n + 1) : Has(u[i]) BY <1>1 DEF Known
  <2>4. Known(s, path) <=> \E i \in 1..n : Has(s[i]) BY DEF Known
  <2> HIDE DEF Has, n
  <2>5. 1..(n + 1) = (1..n) \cup {n + 1} BY <1>2
  <2> QED BY <1>1, <2>2, <2>3, <2>4, <2>5
<1>4. FindLong(s, spec.long) # 0 <=> Known(s, spec.long) BY <1>2, FindLongIs
<1>5. PushIfAvailable(s, spec) =
        IF spec.long = <<>> \/ FindLong(s, spec.long) # 0 THEN s ELSE u
  BY DEF PushIfAvailable, u
<1> QED BY <1>1, <1>3, <1>4, <1>5

LEMMA ConfigIoKnows ==
  ASSUME NEW s, IsSequence(s), NEW t, IsSequence(t), \A path : Known(s, path) => Known(t, path),
         NEW formats, NEW available, NEW format
  PROVE  LET Made(specs) == ConfigIoSpecs(specs, formats, available, format)
         IN  /\ IsSequence(Made(s)) /\ IsSequence(Made(t))
             /\ \A path : Known(Made(s), path) => Known(Made(t), path)
<1> DEFINE Made(specs) == ConfigIoSpecs(specs, formats, available, format)
           in == BuiltinSpec(formats, "Import", format)
           out == BuiltinSpec(formats, "Export", format)
           First(specs) == IF format \in available /\ formats.Import \cap Matches(format) # {}
                           THEN PushIfAvailable(specs, in) ELSE specs
<1>1. \A specs : Made(specs) = IF format \in available /\ formats.Export \cap Matches(format) # {}
                               THEN PushIfAvailable(First(specs), out) ELSE First(specs)
  BY DEF ConfigIoSpecs
<1>2. in.aliases = <<>> /\ ~in.positional /\ out.aliases = <<>> /\ ~out.positional
  BY BuiltinIs
<1> HIDE DEF in, out, Made
<1>3. /\ IsSequence(First(s)) /\ IsSequence(First(t))
      /\ \A path : Known(First(s), path) => Known(First(t), path)
  BY <1>2, PushKnows
<1> HIDE DEF First
<1>4. /\ IsSequence(Made(s)) /\ IsSequence(Made(t))
      /\ \A path : Known(Made(s), path) => Known(Made(t), path)
  BY <1>1, <1>2, <1>3, PushKnows
<1> QED BY <1>4 DEF Made

\* The four passes of Collect.
LEMMA CollectRuns ==
  ASSUME NEW fields, NEW formats, NEW available
  PROVE  \E f : /\ f[0] = UserSpecs(fields)
                /\ \A k \in 1..4 : f[k] = ConfigIoSpecs(f[k - 1], formats, available, Registry[k])
                /\ Collect(fields, formats, available).specs = f[4]
<1> DEFINE users == UserSpecs(fields)
           f == CHOOSE f : FormatsLoop(f, users, formats, available, 4)
<1>1. Len(Registry) = 4 BY DEF Registry
<1>2. FormatsLoop(f, users, formats, available, 4) BY FormatsLoopRuns
<1>3. Collect(fields, formats, available) = [users |-> Len(users), specs |-> f[4]]
  BY <1>1 DEF Collect, FormatsLoop
<1> HIDE DEF f, users
<1>4. \A k \in 0..4 : f[k] = IF k = 0 THEN users
                             ELSE ConfigIoSpecs(f[k - 1], formats, available, Registry[k])
  BY <1>2 DEF FormatsLoop
<1>5. f[0] = users /\ \A k \in 1..4 : f[k] = ConfigIoSpecs(f[k - 1], formats, available, Registry[k])
  BY <1>4
<1> QED BY <1>3, <1>5 DEF users

\* A long option known without a command is known for every command.
LEMMA BuiltinsKnown ==
  ASSUME NEW fields, IsSequence(fields), NEW formats, NEW available, NEW path,
         Known(Collect(<<>>, formats, available).specs, path)
  PROVE  Known(Collect(fields, formats, available).specs, path)
<1>1. PICK f : /\ f[0] = UserSpecs(<<>>)
               /\ \A k \in 1..4 : f[k] = ConfigIoSpecs(f[k - 1], formats, available, Registry[k])
               /\ Collect(<<>>, formats, available).specs = f[4]
  BY CollectRuns
<1>2. PICK g : /\ g[0] = UserSpecs(fields)
               /\ \A k \in 1..4 : g[k] = ConfigIoSpecs(g[k - 1], formats, available, Registry[k])
               /\ Collect(fields, formats, available).specs = g[4]
  BY CollectRuns
<1> DEFINE P(k) == IsSequence(f[k]) /\ IsSequence(g[k]) /\ \A p : Known(f[k], p) => Known(g[k], p)
<1>3. P(0)
  <2>1. MadeOf(f[0], <<>>) /\ MadeOf(g[0], fields) BY <1>1, <1>2, EmptyIsSequence, UserSpecsMade
  <2>2. \A i \in 1..Len(f[0]) : FALSE BY <2>1 DEF MadeOf
  <2>3. \A p : ~Known(f[0], p) BY <2>2 DEF Known
  <2> QED BY <2>1, <2>3 DEF MadeOf
<1>4. ASSUME NEW k \in 1..4, P(k - 1) PROVE P(k)
  BY <1>1, <1>2, <1>4, ConfigIoKnows
<1> HIDE DEF P
<1>5. P(1) BY <1>3, <1>4
<1>6. P(2) BY <1>4, <1>5
<1>7. P(3) BY <1>4, <1>6
<1>8. P(4) BY <1>4, <1>7
<1> QED BY <1>1, <1>2, <1>8 DEF P

-----------------------------------------------------------------------------
\* The other names of an option are sequences.
Named(spec) == IsSequence(spec.aliases) /\ IsSequence(spec.shortAliases)
AllNamed(specs) == IsSequence(specs) /\ \A i \in 1..Len(specs) : Named(specs[i])

LEMMA PushKeepsNames ==
  ASSUME NEW s, AllNamed(s), NEW spec, Named(spec)
  PROVE  AllNamed(PushIfAvailable(s, spec))
<1> DEFINE u == Append(s, spec)
           n == Len(s)
<1>1. IsSequence(u) /\ Len(u) = n + 1 /\ u[n + 1] = spec /\ \A k \in 1..n : u[k] = s[k]
  BY AppendIsSequence DEF AllNamed
<1>2. n \in Nat BY DEF AllNamed, IsSequence
<1> HIDE DEF u
<1>3. 1..(n + 1) = (1..n) \cup {n + 1} BY <1>2
<1>4. AllNamed(u) BY <1>1, <1>3 DEF AllNamed
<1> QED BY <1>4 DEF PushIfAvailable, u

LEMMA ConfigIoKeepsNames ==
  ASSUME NEW s, AllNamed(s), NEW formats, NEW available, NEW format
  PROVE  AllNamed(ConfigIoSpecs(s, formats, available, format))
<1> DEFINE in == BuiltinSpec(formats, "Import", format)
           out == BuiltinSpec(formats, "Export", format)
           first == IF format \in available /\ formats.Import \cap Matches(format) # {}
                    THEN PushIfAvailable(s, in) ELSE s
<1>1. ConfigIoSpecs(s, formats, available, format) =
        IF format \in available /\ formats.Export \cap Matches(format) # {}
        THEN PushIfAvailable(first, out) ELSE first
  BY DEF ConfigIoSpecs
<1>2. Named(in) /\ Named(out) BY BuiltinIs, EmptyIsSequence DEF Named
<1> HIDE DEF in, out
<1>3. AllNamed(first) BY <1>2, PushKeepsNames
<1> HIDE DEF first
<1> QED BY <1>1, <1>2, <1>3, PushKeepsNames

\* A field as FieldsAreDeclared has it.
LEMMA CollectNames ==
  ASSUME NEW fields, IsSequence(fields), NEW formats, NEW available,
         \A k \in 1..Len(fields) : DOMAIN fields[k] = DOMAIN Field /\ Named(fields[k])
  PROVE  AllNamed(Collect(fields, formats, available).specs)
<1>1. PICK f : /\ f[0] = UserSpecs(fields)
               /\ \A k \in 1..4 : f[k] = ConfigIoSpecs(f[k - 1], formats, available, Registry[k])
               /\ Collect(fields, formats, available).specs = f[4]
  BY CollectRuns
<1>2. AllNamed(f[0])
  <2>1. MadeOf(f[0], fields) BY <1>1, UserSpecsMade
  <2>2. ASSUME NEW i \in 1..Len(f[0]) PROVE Named(f[0][i])
    <3>1. PICK k \in 1..Len(fields) : f[0][i] = MakeSpec(fields[k]) BY <2>1 DEF MadeOf
    <3> DEFINE field == fields[k]
    <3>2. DOMAIN field = DOMAIN Field /\ Named(field) OBVIOUS
    <3> HIDE DEF field
    <3>3. Named(MakeSpec(field)) BY <3>2, MakeSpecKeeps DEF Named
    <3> QED BY <3>1, <3>3 DEF field
  <2> QED BY <2>1, <2>2 DEF MadeOf, AllNamed
<1>3. ASSUME NEW k \in 1..4, AllNamed(f[k - 1]) PROVE AllNamed(f[k])
  BY <1>1, <1>3, ConfigIoKeepsNames
<1>4. AllNamed(f[1]) BY <1>2, <1>3
<1>5. AllNamed(f[2]) BY <1>3, <1>4
<1>6. AllNamed(f[3]) BY <1>3, <1>5
<1>7. AllNamed(f[4]) BY <1>3, <1>6
<1> QED BY <1>1, <1>7

LEMMA SpecsNamed ==
  ASSUME ProgramKnown
  PROVE  AllNamed(Specs)
<1>1. PICK n \in Names : \E fields \in Declarations(Program(n)) :
        program = Program(n) /\ schema = SchemaOf(fields) /\ IsSequence(fields)
  BY SchemaKnown
<1>2. PICK fields \in Declarations(Program(n)) :
        program = Program(n) /\ schema = SchemaOf(fields) /\ IsSequence(fields)
  BY <1>1
<1>3. \A k \in DOMAIN fields : DOMAIN fields[k] = DOMAIN Field /\ Named(fields[k])
  BY FieldsAreDeclared DEF Named
<1>4. DOMAIN fields = 1..Len(fields) BY <1>2 DEF IsSequence
<1>5. Specs = Collect(fields, program.io, Available).specs BY <1>2 DEF Specs, SchemaOf
<1> QED BY <1>2, <1>3, <1>4, <1>5, CollectNames

LEMMA EmptyConcat ==
  ASSUME NEW t, IsSequence(t)
  PROVE  <<>> \o t = t
<1> DEFINE X == {t[k] : k \in 1..Len(t)}
<1>1. Len(t) \in Nat /\ t \in [1..Len(t) -> X] BY DEF IsSequence
<1> HIDE DEF X
<1>2. t \in Seq(X) BY <1>1, SeqDef
<1> QED BY <1>2, ConcatEmptySeq

\* A name and its other names in one sequence.
LEMMA WrittenIn ==
  ASSUME NEW e, NEW t, IsSequence(t), NEW x, x = e \/ x \in ToSet(t)
  PROVE  \E k \in DOMAIN (<<e>> \o t) : (<<e>> \o t)[k] = x
<1> DEFINE s == <<e>> \o t
<1>1. /\ Len(t) \in Nat /\ DOMAIN s = 1..(Len(t) + 1) /\ s[1] = e
      /\ \A k \in 1..Len(t) : s[k + 1] = t[k]
  BY ConsIsSequence
<1> HIDE DEF s
<1>2. CASE x = e BY <1>1, <1>2 DEF s
<1>3. CASE x \in ToSet(t)
  <2>1. DOMAIN t = 1..Len(t) BY DEF IsSequence
  <2>2. PICK k \in 1..Len(t) : x = t[k] BY <1>3, <2>1 DEF ToSet
  <2>3. k + 1 \in DOMAIN s /\ s[k + 1] = x BY <1>1, <2>2
  <2> QED BY <2>3 DEF s
<1> QED BY <1>2, <1>3

\* The names of an option, as validate_schema_definition collects them.
LEMMA LongWritten ==
  ASSUME NEW spec, Named(spec), ~spec.positional, NEW x \in {spec.long} \cup ToSet(spec.aliases)
  PROVE  \E k \in DOMAIN LongNames(spec) : LongNames(spec)[k] = x
<1>1. LongNames(spec) = <<spec.long>> \o spec.aliases BY DEF LongNames
<1> QED BY <1>1, WrittenIn DEF Named

LEMMA ShortWritten ==
  ASSUME NEW spec, Named(spec), ~spec.positional,
         NEW x, x \in ToSet(spec.shortAliases) \/ (x = spec.short /\ spec.short # "")
  PROVE  \E k \in DOMAIN ShortNames(spec) : ShortNames(spec)[k] = x
<1>1. IsSequence(spec.shortAliases) BY DEF Named
<1>2. CASE spec.short = ""
  <2>1. ShortNames(spec) = spec.shortAliases BY <1>1, <1>2, EmptyConcat DEF ShortNames
  <2>2. x \in ToSet(spec.shortAliases) BY <1>2
  <2> QED BY <2>1, <2>2 DEF ToSet
<1>3. CASE spec.short # ""
  <2> DEFINE e == spec.short
             t == spec.shortAliases
  <2>1. ShortNames(spec) = <<e>> \o t BY <1>3 DEF ShortNames
  <2>2. IsSequence(t) /\ (x = e \/ x \in ToSet(t)) BY <1>1
  <2> HIDE DEF e, t
  <2>3. \E k \in DOMAIN (<<e>> \o t) : (<<e>> \o t)[k] = x BY ONLY <2>2, WrittenIn
  <2> QED BY <2>1, <2>3, Zenon
<1> QED BY <1>2, <1>3

LEMMA AcceptedSpellings ==
  ASSUME ProgramKnown, Accepted(schema), NEW i \in DOMAIN Specs, NEW j \in DOMAIN Specs, i # j,
         ~Specs[i].positional, ~Specs[j].positional
  PROVE  /\ ({Specs[i].long} \cup ToSet(Specs[i].aliases))
              \cap ({Specs[j].long} \cup ToSet(Specs[j].aliases)) = {}
         /\ (({Specs[i].short} \cup ToSet(Specs[i].shortAliases)) \ {""})
              \cap (({Specs[j].short} \cup ToSet(Specs[j].shortAliases)) \ {""}) = {}
<1> DEFINE longs == [k \in DOMAIN Specs |-> LongNames(Specs[k])]
           shorts == [k \in DOMAIN Specs |-> ShortNames(Specs[k])]
           a == Specs[i]
           b == Specs[j]
<1>1. Unrepeated(longs) /\ Unrepeated(shorts) BY DEF Accepted, Specs
<1>2. longs[i] = LongNames(a) /\ longs[j] = LongNames(b) /\ i \in DOMAIN longs /\ j \in DOMAIN longs
  OBVIOUS
<1>3. shorts[i] = ShortNames(a) /\ shorts[j] = ShortNames(b) /\ i \in DOMAIN shorts /\ j \in DOMAIN shorts
  OBVIOUS
<1>4. Named(a) /\ Named(b) /\ ~a.positional /\ ~b.positional
  BY SpecsNamed, SpecsDeclared DEF AllNamed
<1> HIDE DEF longs, shorts, a, b
<1>5. ASSUME NEW k \in DOMAIN LongNames(a), NEW l \in DOMAIN LongNames(b)
      PROVE  LongNames(a)[k] # LongNames(b)[l]
  BY <1>1, <1>2 DEF Unrepeated
<1>6. ASSUME NEW k \in DOMAIN ShortNames(a), NEW l \in DOMAIN ShortNames(b)
      PROVE  ShortNames(a)[k] # ShortNames(b)[l]
  BY <1>1, <1>3 DEF Unrepeated
<1>7. ({a.long} \cup ToSet(a.aliases)) \cap ({b.long} \cup ToSet(b.aliases)) = {}
  <2> SUFFICES ASSUME NEW x \in {a.long} \cup ToSet(a.aliases), x \in {b.long} \cup ToSet(b.aliases)
               PROVE  FALSE
    OBVIOUS
  <2>1. PICK k \in DOMAIN LongNames(a) : LongNames(a)[k] = x BY <1>4, LongWritten
  <2>2. PICK l \in DOMAIN LongNames(b) : LongNames(b)[l] = x BY <1>4, LongWritten
  <2> QED BY <1>5, <2>1, <2>2
<1>8. (({a.short} \cup ToSet(a.shortAliases)) \ {""}) \cap (({b.short} \cup ToSet(b.shortAliases)) \ {""}) = {}
  <2> SUFFICES ASSUME NEW x \in ({a.short} \cup ToSet(a.shortAliases)) \ {""},
                      x \in ({b.short} \cup ToSet(b.shortAliases)) \ {""}
               PROVE  FALSE
    OBVIOUS
  <2>1. PICK k \in DOMAIN ShortNames(a) : ShortNames(a)[k] = x BY <1>4, ShortWritten
  <2>2. PICK l \in DOMAIN ShortNames(b) : ShortNames(b)[l] = x BY <1>4, ShortWritten
  <2> QED BY <1>6, <2>1, <2>2
<1> QED BY <1>7, <1>8 DEF a, b

-----------------------------------------------------------------------------
(* Words: where each of argv goes while it is read.                        *)

\* The loop of Positionals, over the first n options.
PositionalsLoop(f, n) ==
  f = [k \in 0..n |-> IF k = 0 THEN <<>>
                      ELSE IF Specs[k].positional THEN Append(f[k - 1], k) ELSE f[k - 1]]

LEMMA PositionalsLoopRuns == \A n \in Nat : \E f : PositionalsLoop(f, n)
<1> DEFINE S == {n \in Nat : \E f : PositionalsLoop(f, n)}
<1>1. 0 \in S
  <2> DEFINE f == [k \in 0..0 |-> <<>>]
  <2>1. PositionalsLoop(f, 0) BY DEF PositionalsLoop
  <2> QED BY <2>1
<1>2. ASSUME NEW n \in Nat, n \in S PROVE n + 1 \in S
  <2>1. PICK f : PositionalsLoop(f, n) BY <1>2
  <2> DEFINE v == IF Specs[n + 1].positional THEN Append(f[n], n + 1) ELSE f[n]
             g == Extended(f, n, v)
  <2>2. \A k \in 0..n : f[k] = IF k = 0 THEN <<>>
                               ELSE IF Specs[k].positional THEN Append(f[k - 1], k) ELSE f[k - 1]
    BY <2>1 DEF PositionalsLoop
  <2> HIDE DEF g
  <2>3. /\ g = [k \in 0..(n + 1) |-> g[k]] /\ g[n + 1] = v
        /\ \A k \in 0..n : k \in 0..(n + 1) /\ g[k] = f[k]
    <3>1. IsExtended(g, f, n, v) BY ExtendedIs, Zenon DEF g
    <3> HIDE DEF v
    <3> QED BY <3>1 DEF IsExtended
  <2>4. \A k \in 0..(n + 1) : g[k] = IF k = 0 THEN <<>>
                                     ELSE IF Specs[k].positional THEN Append(g[k - 1], k) ELSE g[k - 1]
    <3> TAKE k \in 0..(n + 1)
    <3>1. CASE k = n + 1
      <4>1. k # 0 /\ k - 1 = n /\ n \in 0..n BY <3>1
      <4> QED BY <2>3, <3>1, <4>1
    <3>2. CASE k # n + 1
      <4>1. k \in 0..n /\ (k # 0 => k - 1 \in 0..n) BY <3>2
      <4> QED BY <2>2, <2>3, <4>1
    <3> QED BY <3>1, <3>2
  <2>5. PositionalsLoop(g, n + 1) BY <2>3, <2>4 DEF PositionalsLoop
  <2> QED BY <2>5
<1>3. \A n \in Nat : n \in S
  <2> HIDE DEF S
  <2> QED BY <1>1, <1>2, SetInduction
<1> QED BY <1>3

LEMMA PositionalsAre ==
  ASSUME schema.users \in Nat
  PROVE  /\ Len(Positionals) \in Nat
         /\ \A c \in 1..Len(Positionals) : Positionals[c] \in Users /\ Specs[Positionals[c]].positional
<1> DEFINE N == schema.users
           f == CHOOSE f : PositionalsLoop(f, N)
           Fit(s, n) == /\ IsSequence(s)
                        /\ \A c \in 1..Len(s) : s[c] \in 1..n /\ Specs[s[c]].positional
<1>1. PositionalsLoop(f, N) BY PositionalsLoopRuns
<1>2. Positionals = f[N] BY DEF Positionals, PositionalsLoop
<1> HIDE DEF f
<1>3. \A k \in 0..N : f[k] = IF k = 0 THEN <<>>
                             ELSE IF Specs[k].positional THEN Append(f[k - 1], k) ELSE f[k - 1]
  BY <1>1 DEF PositionalsLoop
<1>4. N \in Nat OBVIOUS
<1> HIDE DEF N
<1> DEFINE S == {n \in 0..N : Fit(f[n], n)}
<1>5. 0 \in S
  <2>1. f[0] = <<>> BY <1>3, <1>4
  <2>2. Fit(<<>>, 0) BY EmptyIsSequence
  <2> QED BY <1>4, <2>1, <2>2
<1>6. ASSUME NEW n \in 0..(N - 1), n \in S PROVE n + 1 \in S
  <2>1. n + 1 \in 0..N /\ n + 1 # 0 /\ n + 1 - 1 = n BY <1>4
  <2>2. f[n + 1] = IF Specs[n + 1].positional THEN Append(f[n], n + 1) ELSE f[n]
    BY <1>3, <2>1
  <2> DEFINE s == f[n]
             t == Append(s, n + 1)
  <2>3. Fit(s, n) BY <1>6
  <2> HIDE DEF s
  <2>4. Len(s) \in Nat BY <2>3 DEF IsSequence
  <2>5. \A c \in 1..Len(s) : s[c] \in 1..(n + 1) BY <2>3
  <2>6. Fit(s, n + 1) BY <2>3, <2>5
  <2>7. ASSUME Specs[n + 1].positional PROVE Fit(t, n + 1)
    <3>1. /\ IsSequence(t) /\ Len(t) = Len(s) + 1 /\ t[Len(s) + 1] = n + 1
          /\ \A c \in 1..Len(s) : t[c] = s[c]
      BY <2>3, AppendIsSequence
    <3> HIDE DEF t
    <3>2. \A c \in 1..Len(t) : c \in 1..Len(s) \/ c = Len(s) + 1 BY <2>4, <3>1
    <3>3. n + 1 \in 1..(n + 1) BY <2>1
    <3> QED BY <2>6, <2>7, <3>1, <3>2, <3>3
  <2>8. Fit(f[n + 1], n + 1) BY <2>2, <2>6, <2>7 DEF s
  <2> QED BY <2>1, <2>8
<1>7. \A n \in 0..N : n \in S
  <2> HIDE DEF S
  <2> QED BY <1>4, <1>5, <1>6, LoopInduction
<1>8. Fit(f[N], N) BY <1>4, <1>7
<1> QED BY <1>2, <1>8 DEF IsSequence, Users, N

-----------------------------------------------------------------------------
\* The texts an option with an implicit value may have.
Own(i, text) == text = Specs[i].implicit[1] \/ ~LooksLikeOption(text)
ImplicitKept(r) ==
  \A i \in DOMAIN Specs : Specs[i].implicit # <<>> /\ ~Specs[i].positional =>
    \A k \in 1..Len(r[i]) : Own(i, r[i][k])

\* The texts r have grown out of the texts of the state.
Grown(r) ==
  /\ RawKept(r) /\ ImplicitKept(r)
  /\ \A i \in DOMAIN Specs : \A text : Contains(raw[i], text) => Contains(r[i], text)

\* A reading takes one word, or an option takes the word behind it.
Fits(reading) ==
  /\ Grown(reading.raw)
  /\ reading.at = at + 1 \/ (reading.at = at + 2 /\ at < Len(argv))

LEMMA PlainIsOwn ==
  ASSUME NEW i, NEW chars
  PROVE  Own(i, Plain(chars))
BY DEF Own, Plain, Word, LooksLikeOption

LEMMA RecordGrows ==
  ASSUME NEW r, Grown(r), NEW i, NEW text, NEW next,
         next = at + 1 \/ (next = at + 2 /\ at < Len(argv)),
         i \in DOMAIN Specs => Specs[i].positional \/ Specs[i].implicit = <<>> \/ Own(i, text)
  PROVE  Fits(Record(r, i, text, next))
<1> DEFINE q == [r EXCEPT ![i] = Append(@, text)]
<1>1. RawKept(r) BY DEF Grown
<1>2. RawKept(q)
  <2>1. DOMAIN q = DOMAIN r OBVIOUS
  <2>2. \A j \in DOMAIN r : q[j] = r[j] \/ q[j] = Append(r[j], text) OBVIOUS
  <2> HIDE DEF q
  <2>3. ASSUME NEW j \in DOMAIN q PROVE IsSequence(q[j])
    <3>1. IsSequence(r[j]) BY <1>1, <2>1 DEF RawKept
    <3>2. IsSequence(Append(r[j], text)) BY <3>1, AppendIsSequence
    <3> QED BY <2>1, <2>2, <3>1, <3>2
  <2> QED BY <1>1, <2>1, <2>3 DEF RawKept
<1>3. ASSUME NEW j \in DOMAIN Specs
      PROVE  /\ Specs[j].implicit # <<>> /\ ~Specs[j].positional =>
                  \A k \in 1..Len(q[j]) : Own(j, q[j][k])
             /\ \A x : Contains(raw[j], x) => Contains(q[j], x)
  <2> DEFINE s == r[j]
             t == Append(s, text)
  <2>1. j \in DOMAIN r /\ IsSequence(s) BY <1>1 DEF RawKept
  <2>2. q[j] = IF j = i THEN t ELSE s BY <2>1
  <2>3. Specs[j].implicit # <<>> /\ ~Specs[j].positional => \A k \in 1..Len(s) : Own(j, s[k])
    BY DEF Grown, ImplicitKept
  <2>4. \A x : Contains(raw[j], x) => Contains(s, x) BY DEF Grown
  <2> HIDE DEF q, s
  <2>5. Len(s) \in Nat BY <2>1 DEF IsSequence
  <2>6. Len(t) = Len(s) + 1 /\ t[Len(s) + 1] = text /\ \A k \in 1..Len(s) : t[k] = s[k]
    BY <2>1, AppendIsSequence
  <2> HIDE DEF t
  <2>7. 1..Len(t) = (1..Len(s)) \cup {Len(s) + 1} BY <2>5, <2>6
  <2>8. \A x : Contains(s, x) => Contains(t, x) BY <2>6, <2>7 DEF Contains
  <2>9. j = i /\ Specs[j].implicit # <<>> /\ ~Specs[j].positional => \A k \in 1..Len(t) : Own(j, t[k])
    BY <2>3, <2>6, <2>7
  <2> QED BY <2>2, <2>3, <2>4, <2>8, <2>9
<1> HIDE DEF q
<1>4. Grown(q) BY <1>2, <1>3 DEF Grown, ImplicitKept
<1> QED BY <1>4 DEF Record, Reading, Fits, q

LEMMA RecordOptionGrows ==
  ASSUME NEW r, Grown(r), NEW i, NEW chars, NEW inline, at \in Nat, Len(argv) \in Nat
  PROVE  Fits(RecordOption(r, i, Plain(chars), inline))
<1> DEFINE text == Plain(chars)
           a == Record(r, i, text, at + 1)
           b == Record(r, i, argv[at + 1], at + 2)
           c == Record(r, i, Specs[i].implicit[1], at + 1)
           d == Reading(r, at + 1, "MissingValue")
<1>1. Fits(a)
  <2>1. Own(i, text) BY PlainIsOwn
  <2> HIDE DEF text
  <2> QED BY <2>1, RecordGrows
<1>2. ASSUME at < Len(argv), Specs[i].implicit = <<>> \/ ~LooksLikeOption(argv[at + 1]) PROVE Fits(b)
  <2>1. Specs[i].implicit = <<>> \/ Own(i, argv[at + 1]) BY <1>2 DEF Own
  <2> QED BY <1>2, <2>1, RecordGrows
<1>3. Fits(c)
  <2>1. Own(i, Specs[i].implicit[1]) BY DEF Own
  <2> QED BY <2>1, RecordGrows
<1>4. Fits(d) BY DEF Reading, Fits
<1>5. \/ RecordOption(r, i, text, inline) \in {a, c, d}
      \/ /\ RecordOption(r, i, text, inline) = b
         /\ at < Len(argv) /\ (Specs[i].implicit = <<>> \/ ~LooksLikeOption(argv[at + 1]))
  BY DEF RecordOption
<1> HIDE DEF a, b, c, d
<1> QED BY <1>1, <1>2, <1>3, <1>4, <1>5

-----------------------------------------------------------------------------
\* What has been taken so far leaves the words behind it to be read.
LEMMA GrownFromRaw ==
  ASSUME RawKept(raw), ImplicitKept(raw)
  PROVE  Grown(raw)
BY DEF Grown

LEMMA UnknownFits ==
  ASSUME NEW r, Grown(r)
  PROVE  Fits(Unknown(r)) /\ Unknown(r).at = at + 1
BY DEF Unknown, Reading, Fits

LEMMA LetterFits ==
  ASSUME NEW before, Fits(before.reading), NEW w, NEW k, at \in Nat, Len(argv) \in Nat
  PROVE  Fits(ReadLetter(before, w, k).reading)
<1> DEFINE r == before.reading.raw
           i == FindShort(Specs, w.body[k])
           rest == SubSeq(w.body, k + 1, Len(w.body))
           a == Unknown(r)
           b == Record(r, i, Plain(<<>>), at + 1)
           c == Record(r, i, Plain(rest), at + 1)
           d == RecordOption(r, i, Plain(<<>>), FALSE)
<1>0. Grown(r) BY DEF Fits
<1>1. Fits(a) BY <1>0, UnknownFits
<1>2. Own(i, Plain(<<>>)) /\ Own(i, Plain(rest)) BY PlainIsOwn
<1>3. Fits(b) BY <1>0, <1>2, RecordGrows
<1>4. Fits(c) BY <1>0, <1>2, RecordGrows
<1>5. Fits(d) BY <1>0, RecordOptionGrows
<1>6. ReadLetter(before, w, k).reading \in {before.reading, a, b, c, d} BY DEF ReadLetter
<1> HIDE DEF a, b, c, d
<1> QED BY <1>1, <1>3, <1>4, <1>5, <1>6

LEMMA ClusterFits ==
  ASSUME NEW w, IsSequence(w.body), Grown(raw), at \in Nat, Len(argv) \in Nat
  PROVE  Fits(ReadCluster(w))
<1> DEFINE N == Len(w.body)
           f == CHOOSE f : LettersLoop(f, w, N)
<1>1. N \in Nat BY DEF IsSequence
<1>2. LettersLoop(f, w, N) BY <1>1, LettersLoopRuns
<1>3. ReadCluster(w) = f[N].reading BY DEF ReadCluster, LettersLoop
<1> HIDE DEF f, N
<1>4. \A k \in 0..N : f[k] = IF k = 0 THEN [reading |-> Reading(raw, at + 1, "none"), last |-> FALSE]
                             ELSE ReadLetter(f[k - 1], w, k)
  BY <1>2 DEF LettersLoop
<1> DEFINE S == {n \in 0..N : Fits(f[n].reading)}
<1>5. 0 \in S
  <2>1. f[0].reading = [raw |-> raw, at |-> at + 1, error |-> "none"] BY <1>1, <1>4 DEF Reading
  <2>2. Fits(f[0].reading) BY <2>1 DEF Fits
  <2> QED BY <1>1, <2>2
<1>6. ASSUME NEW n \in 0..(N - 1), n \in S PROVE n + 1 \in S
  <2>1. n + 1 \in 0..N /\ n + 1 # 0 /\ n + 1 - 1 = n BY <1>1
  <2>2. f[n + 1] = ReadLetter(f[n], w, n + 1) BY <1>4, <2>1
  <2> QED BY <1>6, <2>1, <2>2, LetterFits
<1>7. \A n \in 0..N : n \in S
  <2> HIDE DEF S
  <2> QED BY <1>1, <1>5, <1>6, LoopInduction
<1> QED BY <1>1, <1>3, <1>7

\* An option takes the word behind it only when it is declared.
LEMMA LongFits ==
  ASSUME NEW w, Grown(raw), at \in Nat, Len(argv) \in Nat
  PROVE  /\ Fits(ReadLong(w))
         /\ FindLong(Specs, w.name) = 0 => ReadLong(w).at = at + 1
<1> DEFINE i == FindLong(Specs, w.name)
           a == Unknown(raw)
           b == RecordOption(raw, i, Plain(w.value), w.inline)
<1>1. Fits(a) /\ a.at = at + 1 BY UnknownFits
<1>2. Fits(b) BY RecordOptionGrows
<1>3. ReadLong(w) = IF i = 0 THEN a ELSE b BY DEF ReadLong
<1> HIDE DEF a, b
<1> QED BY <1>1, <1>2, <1>3

LEMMA ShortFits ==
  ASSUME NEW w, IsSequence(w.body), Grown(raw), at \in Nat, Len(argv) \in Nat
  PROVE  Fits(ReadShort(w))
<1> DEFINE first == FindShort(Specs, w.body[1])
           whole == IF Len(w.body) = 1 THEN first ELSE 0
           a == ReadCluster(w)
           b == RecordOption(raw, whole, Plain(w.value), w.inline)
           c == RecordOption(raw, first, Plain(Tail(w.body)), TRUE)
           d == Unknown(raw)
<1>1. Fits(a) BY ClusterFits
<1>2. Fits(b) /\ Fits(c) BY RecordOptionGrows
<1>3. Fits(d) BY UnknownFits
<1>4. ReadShort(w) \in {a, b, c, d} BY DEF ReadShort
<1> HIDE DEF a, b, c, d
<1> QED BY <1>1, <1>2, <1>3, <1>4

\* A positional without an error has a place, and is the last of its texts.
LEMMA PositionalFits ==
  ASSUME NEW w, Grown(raw), at \in Nat, Len(argv) \in Nat, ProgramKnown, schema.users \in Nat,
         cursor = 1 \/ cursor \in 1..(Len(Positionals) + 1)
  PROVE  LET reading == ReadPositional(w)
             i == Positionals[cursor]
         IN  /\ Fits(reading) /\ reading.at = at + 1
             /\ reading.error = "none" =>
                  /\ cursor \in 1..Len(Positionals)
                  /\ i \in Users /\ Specs[i].positional /\ Contains(reading.raw[i], w)
<1> DEFINE i == Positionals[cursor]
           n == Len(Positionals)
           a == Reading(raw, at + 1, "UnexpectedPositional")
           b == Record(raw, i, w, at + 1)
<1>1. n \in Nat /\ (cursor \in 1..n => i \in Users /\ Specs[i].positional) BY PositionalsAre
<1>2. cursor > n \/ cursor \in 1..n BY <1>1
<1>3. ReadPositional(w) = IF cursor > n THEN a ELSE b BY DEF ReadPositional
<1>4. CASE cursor > n
  <2>1. a.raw = raw /\ a.at = at + 1 /\ a.error # "none" BY DEF Reading
  <2> HIDE DEF a
  <2> QED BY <1>3, <1>4, <2>1 DEF Fits
<1>5. CASE cursor \in 1..n
  <2>0. i \in Users /\ Specs[i].positional BY <1>1, <1>5
  <2>1. ~(cursor > n) BY <1>1, <1>5
  <2> HIDE DEF n, i
  <2>2. i \in DOMAIN raw /\ IsSequence(raw[i]) BY <2>0, SpecsDeclared DEF Grown, RawKept
  <2>3. Fits(b) BY <2>0, RecordGrows
  <2>4. b.at = at + 1 BY DEF Record, Reading
  <2>5. ASSUME b.error = "none" PROVE Contains(b.raw[i], w)
    <3> DEFINE s == raw[i]
               t == Append(s, w)
    <3>1. b.raw = [raw EXCEPT ![i] = t] BY <2>5 DEF Record, Reading
    <3>2. b.raw[i] = t BY <2>2, <3>1
    <3> HIDE DEF s
    <3>3. Len(s) \in Nat BY <2>2 DEF IsSequence, s
    <3>4. Len(t) = Len(s) + 1 /\ t[Len(s) + 1] = w BY <2>2, AppendIsSequence DEF s
    <3> HIDE DEF t
    <3>5. Contains(t, w) BY <3>3, <3>4 DEF Contains
    <3> QED BY <3>2, <3>5
  <2> HIDE DEF b
  <2> QED BY <1>3, <1>5, <2>0, <2>1, <2>3, <2>4, <2>5 DEF i, n
<1> QED BY <1>2, <1>4, <1>5

-----------------------------------------------------------------------------
(* The inductive invariant of the words.                                   *)

\* The steps of a call, and what they promise of its schema.
Steps ==
  /\ pc \in {"validate", "scan", "collect", "defaults", "import", "explicit", "check",
             "export", "done", "failed"}
  /\ error = "none" <=> pc # "failed"
  /\ pc \notin {"validate", "failed"} => Accepted(schema)

\* Where the reading is.
Placed ==
  /\ at \in 1..(Len(argv) + 1) /\ forced \in BOOLEAN
  /\ cursor = 1 \/ (stage = "options" /\ cursor \in 1..(Len(Positionals) + 1))

\* What the object holds for an option is of its shape.
OfShape(i) ==
  Specs[i].shape # "vec" => Len(object[i]) <= 1 /\ (Specs[i].shape = "one" => Len(object[i]) = 1)
ObjectShaped == pc \in Filled => DOMAIN object = Users /\ \A i \in Users : OfShape(i)

\* The k-th word is plain, and no declared option stands before it.
Apart(k) ==
  /\ argv[k].kind = "plain"
  /\ k = 1 \/ argv[k - 1].kind \in {"plain", "end"}
           \/ (argv[k - 1].kind = "long" /\ ~Declared(argv[k - 1]))

Positional(k) == \E i \in Users : Specs[i].positional /\ Contains(raw[i], argv[k])
BeingRead == pc \in {"validate", "scan"}

\* Every such word before the next one is the command or a positional: the words
\* are read to their end, and before the command there is none.
WordsPlaced ==
  pc # "failed" /\ ~EmptyCommand =>
    /\ \A k \in 1..(at - 1) : Apart(k) => argv[k] = command \/ (stage = "options" /\ Positional(k))
    /\ stage = "options" => BeingRead \/ at > Len(argv)
    /\ stage = "root" =>
         /\ pc \in {"validate", "scan", "collect"}
         /\ BeingRead => command = NoCommand
         /\ command = NoCommand =>
              BeingRead \/ at > Len(argv) \/ (at = Len(argv) /\ argv[at].kind = "end")

WordsInv == Steps /\ Placed /\ ImplicitKept(raw) /\ ObjectShaped /\ WordsPlaced

LEMMA ArgvIs ==
  ASSUME ProgramKnown
  PROVE  Len(argv) \in Nat /\ DOMAIN argv = 1..Len(argv)
<1>1. PICK n \in Names : argv \in UNION {[1..k -> Words(n)] : k \in 0..MaxWords}
  BY DEF ProgramKnown
<1>2. PICK k \in 0..MaxWords : argv \in [1..k -> Words(n)] BY <1>1
<1>3. Len(argv) = k /\ k \in Nat BY <1>2, SeqDef
<1> QED BY <1>2, <1>3

LEMMA SchemaCounts ==
  ASSUME ProgramKnown
  PROVE  schema.users \in Nat
<1>1. PICK fields : IsSequence(fields) /\ schema = SchemaOf(fields) BY SchemaKnown
<1>2. schema.users = Len(UserSpecs(fields)) BY <1>1, CollectIsLonger DEF SchemaOf
<1>3. IsSequence(UserSpecs(fields)) BY <1>1, UserSpecsMade DEF MadeOf
<1> QED BY <1>2, <1>3 DEF IsSequence

-----------------------------------------------------------------------------
(* The steps of a call.                                                    *)

LEMMA FailSteps ==
  ASSUME NEW e, e # "none", Fail(e)
  PROVE  Steps'
BY DEF Fail, Steps

LEMMA GoesOn ==
  ASSUME Steps, pc \notin {"validate", "failed"}, UNCHANGED <<schema, error>>,
         pc' \in {"scan", "collect", "defaults", "import", "explicit", "check", "export", "done"}
  PROVE  Steps'
BY DEF Steps

LEMMA TakeSteps ==
  ASSUME Steps, pc = "scan", UNCHANGED schema, NEW reading, Take(reading)
  PROVE  Steps'
<1>1. CASE reading.error = "none" BY <1>1, GoesOn DEF Take
<1>2. CASE reading.error # "none" BY <1>2, FailSteps DEF Take
<1> QED BY <1>1, <1>2

LEMMA ScanSteps ==
  ASSUME Steps, Scan
  PROVE  Steps'
<1>1. pc = "scan" /\ UNCHANGED schema
  BY DEF Scan, ScanEnds, ScanAsked, ScanEndOfOptions, ScanOption, ScanPositional,
         ScanRootOption, ScanCommand, Scanning, KeepScan
<1>2. CASE ScanEnds \/ ScanCommand
  <2>1. pc' = "collect" /\ UNCHANGED error BY <1>2 DEF ScanEnds, ScanCommand
  <2> QED BY <1>1, <2>1, GoesOn
<1>3. CASE ScanEndOfOptions
  <2>1. pc' = pc /\ UNCHANGED error BY <1>3 DEF ScanEndOfOptions
  <2> QED BY <1>1, <2>1, GoesOn
<1>4. CASE ScanAsked BY <1>4, FailSteps DEF ScanAsked
<1>5. CASE ScanOption \/ ScanPositional \/ ScanRootOption
  <2>1. \E reading : Take(reading) BY <1>5 DEF ScanOption, ScanPositional, ScanRootOption
  <2> QED BY <1>1, <2>1, TakeSteps
<1> QED BY <1>2, <1>3, <1>4, <1>5 DEF Scan

LEMMA SetFieldsSteps ==
  ASSUME Steps, pc \notin {"validate", "failed"}, UNCHANGED schema, NEW fields, NEW given,
         NEW next \in {"import", "explicit", "check"}, SetFields(fields, given, next)
  PROVE  Steps'
<1>1. CASE Fail("InvalidValue") BY <1>1, FailSteps
<1>2. CASE pc' = next /\ UNCHANGED error BY <1>2, GoesOn
<1> QED BY <1>1, <1>2 DEF SetFields

LEMMA StepsStep ==
  ASSUME Steps, [Next]_vars
  PROVE  Steps'
<1>1. CASE Validate
  <2>1. UNCHANGED schema /\ pc = "validate" BY <1>1 DEF Validate
  <2>2. CASE Accepted(schema)
    <3>1. pc' = "scan" /\ error' = error BY <1>1, <2>2 DEF Validate
    <3>2. Accepted(schema)' BY <2>1, <2>2
    <3> QED BY <2>1, <3>1, <3>2 DEF Steps
  <2>3. CASE ~Accepted(schema) BY <1>1, <2>3, FailSteps DEF Validate
  <2> QED BY <2>2, <2>3
<1>2. CASE Scan BY <1>2, ScanSteps
<1>3. CASE CollectRoot
  <2>1. \/ Fail("InvalidValue") \/ Fail("MissingRequired") \/ Fail("UnknownCommand")
        \/ pc' = "validate" /\ error' = error /\ pc = "collect"
    BY <1>3 DEF CollectRoot
  <2>2. ASSUME pc' = "validate", error' = error, pc = "collect" PROVE Steps' BY <2>2 DEF Steps
  <2> QED BY <2>1, <2>2, FailSteps
<1>4. CASE CollectOptions
  <2>1. pc = "collect" /\ UNCHANGED schema BY <1>4 DEF CollectOptions
  <2>2. Fail("InvalidValue") \/ (pc' = "defaults" /\ UNCHANGED error) BY <1>4 DEF CollectOptions
  <2> QED BY <2>1, <2>2, FailSteps, GoesOn
<1>5. CASE Defaults
  <2>1. pc = "defaults" /\ UNCHANGED schema BY <1>5 DEF Defaults
  <2>2. \E fields, given : SetFields(fields, given, "import") BY <1>5 DEF Defaults
  <2> QED BY <2>1, <2>2, SetFieldsSteps
<1>6. CASE Import
  <2>1. pc = "import" /\ UNCHANGED schema BY <1>6 DEF Import
  <2>2. \/ pc' = "explicit" /\ UNCHANGED error
        \/ \E fields, given : SetFields(fields, given, "explicit")
        \/ Fail("InvalidValue")
    BY <1>6 DEF Import
  <2> QED BY <2>1, <2>2, SetFieldsSteps, FailSteps, GoesOn
<1>7. CASE Materialize
  <2>1. pc = "explicit" /\ UNCHANGED schema BY <1>7 DEF Materialize
  <2>2. \E fields, given : SetFields(fields, given, "check") BY <1>7 DEF Materialize
  <2> QED BY <2>1, <2>2, SetFieldsSteps
<1>8. CASE Check
  <2>1. pc = "check" /\ UNCHANGED schema BY <1>8 DEF Check
  <2>2. Fail("MissingRequired") \/ Fail("InvalidValue") \/ (pc' = "export" /\ UNCHANGED error)
    BY <1>8 DEF Check
  <2> QED BY <2>1, <2>2, FailSteps, GoesOn
<1>9. CASE Export
  <2>1. pc = "export" /\ UNCHANGED schema BY <1>9 DEF Export, ExportEnds
  <2>2. Fail("InvalidValue") \/ (pc' = "done" /\ UNCHANGED error) BY <1>9 DEF Export, ExportEnds
  <2> QED BY <2>1, <2>2, FailSteps, GoesOn
<1>10. CASE Finished \/ UNCHANGED vars
  <2>1. pc' = pc /\ error' = error /\ schema' = schema BY <1>10 DEF Finished, vars
  <2> QED BY <2>1 DEF Steps
<1> QED BY <1>1, <1>2, <1>3, <1>4, <1>5, <1>6, <1>7, <1>8, <1>9, <1>10 DEF Next

-----------------------------------------------------------------------------
(* The words, step by step.                                                *)

\* What reading leaves alone while the schema stays.
LEMMA SameSchema ==
  ASSUME UNCHANGED inputs, UNCHANGED schema
  PROVE  /\ argv' = argv /\ program' = program /\ Specs' = Specs /\ Users' = Users
         /\ Positionals' = Positionals /\ EmptyCommand' = EmptyCommand
         /\ \A k : Apart(k)' <=> Apart(k)
<1>1. argv' = argv /\ program' = program /\ Specs' = Specs /\ Users' = Users
  BY DEF inputs, Specs, Users
<1>2. Positionals' = Positionals BY <1>1 DEF Positionals
<1>3. EmptyCommand' = EmptyCommand BY <1>1 DEF EmptyCommand
<1>4. \A w : Declared(w)' = Declared(w) BY <1>1 DEF Declared
<1>5. \A k : Apart(k)' <=> Apart(k) BY <1>1, <1>4 DEF Apart
<1> QED BY <1>1, <1>2, <1>3, <1>5

LEMMA ImplicitStays ==
  ASSUME ImplicitKept(raw), UNCHANGED <<schema, raw>>
  PROVE  ImplicitKept(raw)'
BY DEF ImplicitKept, Own, Specs

LEMMA FromThere ==
  ASSUME NEW a \in Nat, NEW b \in Nat, NEW k \in 1..(b - 1), k \notin 1..(a - 1)
  PROVE  k \in a..(b - 1)
OBVIOUS

LEMMA ApartBehind ==
  ASSUME NEW j, NEW k, k - 1 = j, k # 1, Apart(k)
  PROVE  argv[j].kind \in {"plain", "end"} \/ (argv[j].kind = "long" /\ ~Declared(argv[j]))
BY DEF Apart

\* The words taken by a step are each placed or never stood apart.
LEMMA WordsTaken ==
  ASSUME ParserInv, WordsInv, pc = "scan", pc' \in {"scan", "failed"},
         UNCHANGED inputs, UNCHANGED schema, UNCHANGED stage, UNCHANGED command,
         at' \in Nat,
         \A i \in DOMAIN Specs : \A text : Contains(raw[i], text) => Contains(raw'[i], text),
         \A k \in at..(at' - 1) : Apart(k) => stage = "options" /\ Positional(k)'
  PROVE  WordsPlaced'
<1> SUFFICES ASSUME pc' # "failed", ~EmptyCommand' PROVE WordsPlaced'
  BY DEF WordsPlaced
<1>1. /\ argv' = argv /\ program' = program /\ Specs' = Specs /\ Users' = Users
      /\ EmptyCommand' = EmptyCommand /\ \A k : Apart(k)' <=> Apart(k)
  BY SameSchema
<1>2. ProgramKnown /\ at \in Nat BY DEF ParserInv, Position
<1>3. Users \subseteq DOMAIN Specs BY <1>2, SpecsDeclared
<1>4. \A k : Positional(k) => Positional(k)' BY <1>1, <1>3 DEF Positional
<1>5. /\ \A k \in 1..(at - 1) : Apart(k) => argv[k] = command \/ (stage = "options" /\ Positional(k))
      /\ stage = "root" => command = NoCommand
  BY <1>1 DEF WordsInv, WordsPlaced, BeingRead
<1>6. ASSUME NEW k \in 1..(at' - 1), Apart(k)
      PROVE  argv[k] = command \/ (stage = "options" /\ Positional(k)')
  <2>1. CASE k \in 1..(at - 1) BY <1>4, <1>5, <1>6, <2>1
  <2>2. CASE k \notin 1..(at - 1)
    <3>1. k \in at..(at' - 1) BY <1>2, <1>6, <2>2, FromThere
    <3> QED BY <1>6, <3>1
  <2> QED BY <2>1, <2>2
<1>7. pc' = "scan" OBVIOUS
<1>8. \A k \in 1..(at' - 1) : Apart(k)' =>
        argv'[k] = command' \/ (stage' = "options" /\ Positional(k)')
  BY <1>1, <1>6
<1>9. BeingRead' /\ (stage' = "root" => command' = NoCommand) BY <1>5, <1>7 DEF BeingRead
<1> QED BY <1>7, <1>8, <1>9 DEF WordsPlaced

\* A reading that fits takes no word that stands apart but the one it is of.
LEMMA TakeWords ==
  ASSUME ParserInv, WordsInv, pc = "scan", at <= Len(argv), NEW reading, Fits(reading), Take(reading),
         UNCHANGED inputs, UNCHANGED schema, UNCHANGED stage, UNCHANGED command,
         ~Apart(at), reading.at = at + 2 => ~Apart(at + 1)
  PROVE  at' \in 1..(Len(argv') + 1) /\ ImplicitKept(raw)' /\ WordsPlaced'
<1>1. raw' = reading.raw /\ at' = reading.at /\ pc' \in {"scan", "failed"} BY DEF Take, Fail
<1>2. at \in Nat /\ at > 0 /\ Len(argv) \in Nat BY ArgvIs DEF ParserInv, Position
<1>3. argv' = argv BY DEF inputs
<1>4. at' = at + 1 \/ (at' = at + 2 /\ at < Len(argv)) BY <1>1 DEF Fits
<1>5. at' \in Nat /\ at' \in 1..(Len(argv) + 1) BY <1>2, <1>4
<1>6. ImplicitKept(raw)'
  <2>1. ImplicitKept(reading.raw) BY DEF Fits, Grown
  <2> QED BY <1>1, <2>1 DEF ImplicitKept, Own, Specs
<1>7. \A i \in DOMAIN Specs : \A text : Contains(raw[i], text) => Contains(raw'[i], text)
  BY <1>1 DEF Fits, Grown
<1>8. \A k \in at..(at' - 1) : ~Apart(k)
  <2>1. at' = at + 2 => ~Apart(at + 1) BY <1>1
  <2>2. \A k \in at..(at' - 1) : k = at \/ (k = at + 1 /\ at' = at + 2) BY <1>2, <1>4
  <2> QED BY <2>1, <2>2
<1>9. WordsPlaced' BY <1>1, <1>5, <1>7, <1>8, WordsTaken
<1> QED BY <1>3, <1>5, <1>6, <1>9

LEMMA KeepScanIs ==
  ASSUME KeepScan
  PROVE  UNCHANGED inputs /\ UNCHANGED schema /\ UNCHANGED stage /\ UNCHANGED command
BY DEF KeepScan

\* The words in a state that reads them.
LEMMA StateOfWords ==
  ASSUME ParserInv, WordsInv
  PROVE  /\ ProgramKnown /\ at \in Nat /\ at > 0 /\ Len(argv) \in Nat /\ schema.users \in Nat
         /\ Grown(raw) /\ (at <= Len(argv) => IsSequence(argv[at].body))
<1>1. ProgramKnown /\ Position(at) /\ RawKept(raw) BY DEF ParserInv
<1>2. Grown(raw) BY <1>1, GrownFromRaw DEF WordsInv
<1> QED BY <1>1, <1>2, ArgvIs, SchemaCounts, WordOfArgv DEF Position

LEMMA OptionWords ==
  ASSUME ParserInv, WordsInv, ScanOption \/ ScanRootOption
  PROVE  Placed' /\ ImplicitKept(raw)' /\ WordsPlaced'
<1> DEFINE w == argv[at]
<1>1. /\ pc = "scan" /\ KeepScan /\ UNCHANGED forced /\ UNCHANGED cursor /\ at <= Len(argv)
      /\ \/ w.kind = "long" /\ Take(ReadLong(w))
         \/ w.kind = "short" /\ (Take(ReadShort(w)) \/ Take(Unknown(raw)))
  BY DEF ScanOption, ScanRootOption, Scanning
<1>2. UNCHANGED inputs /\ UNCHANGED schema /\ UNCHANGED stage /\ UNCHANGED command
  BY <1>1, KeepScanIs
<1>3. /\ ProgramKnown /\ at \in Nat /\ at > 0 /\ Len(argv) \in Nat
      /\ Grown(raw) /\ IsSequence(w.body)
  BY <1>1, StateOfWords
<1>4. /\ Fits(ReadLong(w)) /\ Fits(ReadShort(w)) /\ Fits(Unknown(raw)) /\ Unknown(raw).at = at + 1
      /\ FindLong(Specs, w.name) = 0 => ReadLong(w).at = at + 1
  BY <1>3, LongFits, ShortFits, UnknownFits
<1>5. w.kind \in {"long", "short"} => ~Apart(at) BY DEF Apart
<1>6. at + 1 # 1 /\ at + 1 - 1 = at /\ at + 2 # at + 1 BY <1>3
<1>7. Apart(at + 1) => w.kind \in {"plain", "end"} \/ (w.kind = "long" /\ ~Declared(w))
  <2> DEFINE k == at + 1
  <2>1. k # 1 /\ k - 1 = at BY ONLY <1>3
  <2> HIDE DEF k
  <2>2. Apart(k) => w.kind \in {"plain", "end"} \/ (w.kind = "long" /\ ~Declared(w))
    BY <2>1, ApartBehind
  <2> QED BY <2>2 DEF k
<1>8. /\ w.kind = "short" => ~Apart(at + 1)
      /\ w.kind = "long" /\ FindLong(Specs, w.name) # 0 => ~Apart(at + 1)
  BY <1>7 DEF Declared
<1> HIDE DEF w
<1>9. at' \in 1..(Len(argv') + 1) /\ ImplicitKept(raw)' /\ WordsPlaced'
  <2>1. CASE w.kind = "long" /\ Take(ReadLong(w))
    <3>1. ReadLong(w).at = at + 2 => ~Apart(at + 1) BY <1>4, <1>6, <1>8, <2>1
    <3> QED BY <1>1, <1>2, <1>4, <1>5, <2>1, <3>1, TakeWords
  <2>2. CASE w.kind = "short" /\ Take(ReadShort(w))
    BY <1>1, <1>2, <1>4, <1>5, <1>8, <2>2, TakeWords
  <2>3. CASE w.kind = "short" /\ Take(Unknown(raw))
    BY <1>1, <1>2, <1>4, <1>5, <1>8, <2>3, TakeWords
  <2> QED BY <1>1, <2>1, <2>2, <2>3
<1>10. Placed'
  <2>1. Positionals' = Positionals BY <1>2, SameSchema
  <2> QED BY <1>1, <1>2, <1>9, <2>1 DEF WordsInv, Placed
<1> QED BY <1>9, <1>10

LEMMA PositionalWords ==
  ASSUME ParserInv, WordsInv, ScanPositional
  PROVE  Placed' /\ ImplicitKept(raw)' /\ WordsPlaced'
<1> DEFINE w == argv[at]
           reading == ReadPositional(w)
           i == Positionals[cursor]
           n == Len(Positionals)
<1>1. /\ pc = "scan" /\ stage = "options" /\ KeepScan /\ forced' = forced /\ at <= Len(argv)
      /\ Take(reading)
      /\ cursor' = IF reading.error = "none" /\ ~Specs[i].repeatable THEN cursor + 1 ELSE cursor
  BY DEF ScanPositional, Scanning
<1>2. UNCHANGED inputs /\ UNCHANGED schema /\ UNCHANGED stage /\ UNCHANGED command
  BY <1>1, KeepScanIs
<1>3. /\ ProgramKnown /\ at \in Nat /\ at > 0 /\ Len(argv) \in Nat /\ Grown(raw)
      /\ schema.users \in Nat
  BY StateOfWords
<1>4. cursor = 1 \/ cursor \in 1..(n + 1) BY DEF WordsInv, Placed
<1>5. /\ Fits(reading) /\ reading.at = at + 1
      /\ reading.error = "none" =>
           cursor \in 1..n /\ i \in Users /\ Specs[i].positional /\ Contains(reading.raw[i], w)
  BY <1>3, <1>4, PositionalFits
<1>6. n \in Nat BY <1>3, PositionalsAre
<1> HIDE DEF reading, i, n
<1>7. raw' = reading.raw /\ at' = at + 1 /\ pc' \in {"scan", "failed"} /\ argv' = argv
  BY <1>1, <1>2, <1>5 DEF Take, Fail, inputs
<1>8. at' \in 1..(Len(argv') + 1) BY <1>1, <1>3, <1>7
<1>9. Placed'
  <2>1. Positionals' = Positionals BY <1>2, SameSchema
  <2>2. cursor' = 1 \/ cursor' \in 1..(n + 1) BY <1>1, <1>4, <1>5, <1>6
  <2>3. stage' = "options" /\ forced' \in BOOLEAN BY <1>1, <1>2 DEF WordsInv, Placed
  <2> QED BY <1>8, <2>1, <2>2, <2>3 DEF Placed, n
<1>10. ImplicitKept(raw)'
  <2>1. ImplicitKept(reading.raw) BY <1>5 DEF Fits, Grown
  <2> QED BY <1>2, <1>7, <2>1 DEF ImplicitKept, Own, Specs
<1>11. WordsPlaced'
  <2>1. CASE pc' = "failed" BY <2>1 DEF WordsPlaced
  <2>2. CASE pc' # "failed"
    <3>1. reading.error = "none" BY <1>1, <2>2 DEF Take, Fail
    <3>2. \A k : k = at => Positional(k)'
      <4>1. Users' = Users /\ Specs' = Specs BY <1>2, SameSchema
      <4>2. i \in Users /\ Specs[i].positional /\ Contains(raw'[i], argv[at])
        BY <1>5, <1>7, <3>1 DEF w
      <4>3. \E j \in Users : Specs[j].positional /\ Contains(raw'[j], argv[at]) BY <4>2
      <4> QED BY <1>7, <4>1, <4>3 DEF Positional
    <3>3. \A k \in at..(at' - 1) : k = at BY <1>3, <1>7
    <3>4. \A k \in at..(at' - 1) : Apart(k) => stage = "options" /\ Positional(k)'
      BY <1>1, <3>2, <3>3
    <3>5. \A j \in DOMAIN Specs : \A text : Contains(raw[j], text) => Contains(raw'[j], text)
      BY <1>5, <1>7 DEF Fits, Grown
    <3>6. at' \in Nat BY <1>3, <1>7
    <3> QED BY <1>1, <1>2, <1>7, <3>4, <3>5, <3>6, WordsTaken
  <2> QED BY <2>1, <2>2
<1> QED BY <1>9, <1>10, <1>11

-----------------------------------------------------------------------------
\* A step that takes no word leaves the words where they are.
LEMMA WordsStay ==
  ASSUME WordsPlaced, UNCHANGED inputs, UNCHANGED schema, UNCHANGED stage, UNCHANGED command,
         UNCHANGED raw, UNCHANGED at,
         \/ pc' = "failed"
         \/ BeingRead /\ BeingRead'
         \/ BeingRead /\ pc' = "collect" /\ at > Len(argv)
         \/ pc \notin {"validate", "scan", "failed"} /\ stage = "options"
         \/ UNCHANGED pc
  PROVE  WordsPlaced'
<1> SUFFICES ASSUME pc' # "failed", ~EmptyCommand' PROVE WordsPlaced'
  BY DEF WordsPlaced
<1>1. /\ argv' = argv /\ Specs' = Specs /\ Users' = Users
      /\ EmptyCommand' = EmptyCommand /\ \A k : Apart(k)' <=> Apart(k)
  BY SameSchema
<1>2. \A k : Positional(k)' <=> Positional(k) BY <1>1 DEF Positional
<1>3. pc # "failed" BY DEF BeingRead
<1>4. /\ \A k \in 1..(at - 1) : Apart(k) => argv[k] = command \/ (stage = "options" /\ Positional(k))
      /\ stage = "options" => BeingRead \/ at > Len(argv)
      /\ stage = "root" =>
           /\ pc \in {"validate", "scan", "collect"}
           /\ BeingRead => command = NoCommand
           /\ command = NoCommand =>
                BeingRead \/ at > Len(argv) \/ (at = Len(argv) /\ argv[at].kind = "end")
  BY <1>1, <1>3 DEF WordsPlaced
<1>5. \A k \in 1..(at' - 1) : Apart(k)' =>
        argv'[k] = command' \/ (stage' = "options" /\ Positional(k)')
  BY <1>1, <1>2, <1>4
<1>6. stage' = "options" => BeingRead' \/ at' > Len(argv')
  BY <1>1, <1>4 DEF BeingRead
<1>7. stage' = "root" =>
        /\ pc' \in {"validate", "scan", "collect"}
        /\ BeingRead' => command' = NoCommand
        /\ command' = NoCommand =>
             BeingRead' \/ at' > Len(argv') \/ (at' = Len(argv') /\ argv'[at'].kind = "end")
  BY <1>1, <1>4 DEF BeingRead
<1> QED BY <1>5, <1>6, <1>7 DEF WordsPlaced

LEMMA StaysPlaced ==
  ASSUME Placed, UNCHANGED inputs, UNCHANGED schema, UNCHANGED stage,
         UNCHANGED at, UNCHANGED forced, UNCHANGED cursor
  PROVE  Placed'
<1>1. argv' = argv /\ Positionals' = Positionals BY SameSchema
<1> QED BY <1>1 DEF Placed

LEMMA EndWords ==
  ASSUME ParserInv, WordsInv, ScanEnds \/ ScanAsked
  PROVE  Placed' /\ ImplicitKept(raw)' /\ WordsPlaced'
<1>1. /\ pc = "scan" /\ KeepScan /\ UNCHANGED scanned
      /\ pc' = "failed" \/ (pc' = "collect" /\ at > Len(argv))
  BY DEF ScanEnds, ScanAsked, Fail
<1>2. UNCHANGED inputs /\ UNCHANGED schema /\ UNCHANGED stage /\ UNCHANGED command
  BY <1>1, KeepScanIs
<1>3. UNCHANGED raw /\ UNCHANGED at /\ UNCHANGED forced /\ UNCHANGED cursor BY <1>1 DEF scanned
<1>4. WordsPlaced' BY <1>1, <1>2, <1>3, WordsStay DEF WordsInv, BeingRead
<1>5. Placed' BY <1>2, <1>3, StaysPlaced DEF WordsInv
<1>6. ImplicitKept(raw)' BY <1>2, <1>3, ImplicitStays DEF WordsInv
<1> QED BY <1>4, <1>5, <1>6

LEMMA EndOfOptionsWords ==
  ASSUME ParserInv, WordsInv, ScanEndOfOptions
  PROVE  Placed' /\ ImplicitKept(raw)' /\ WordsPlaced'
<1>1. /\ pc = "scan" /\ pc' = "scan" /\ KeepScan /\ at <= Len(argv) /\ argv[at].kind = "end"
      /\ stage = "options" /\ forced' = TRUE /\ at' = at + 1 /\ raw' = raw /\ cursor' = cursor
  BY DEF ScanEndOfOptions, Scanning
<1>2. UNCHANGED inputs /\ UNCHANGED schema /\ UNCHANGED stage /\ UNCHANGED command
  BY <1>1, KeepScanIs
<1>3. at \in Nat /\ at > 0 /\ Len(argv) \in Nat BY StateOfWords
<1>4. ~Apart(at) BY <1>1 DEF Apart
<1>5. \A k \in at..(at' - 1) : k = at BY <1>1, <1>3
<1>6. \A k \in at..(at' - 1) : Apart(k) => stage = "options" /\ Positional(k)'
  BY <1>4, <1>5
<1>7. at' \in Nat /\ at' \in 1..(Len(argv) + 1) BY <1>1, <1>3
<1>8. WordsPlaced' BY <1>1, <1>2, <1>6, <1>7, WordsTaken
<1>9. Placed'
  <2>1. argv' = argv /\ Positionals' = Positionals BY <1>2, SameSchema
  <2> QED BY <1>1, <1>2, <1>7, <2>1 DEF WordsInv, Placed
<1>10. ImplicitKept(raw)' BY <1>1, <1>2, ImplicitStays DEF WordsInv
<1> QED BY <1>8, <1>9, <1>10

LEMMA CommandWords ==
  ASSUME ParserInv, WordsInv, ScanCommand
  PROVE  Placed' /\ ImplicitKept(raw)' /\ WordsPlaced'
<1>1. /\ pc = "scan" /\ pc' = "collect" /\ stage = "root" /\ stage' = "root" /\ at <= Len(argv)
      /\ UNCHANGED inputs /\ UNCHANGED schema /\ raw' = raw /\ cursor' = cursor /\ forced' = forced
  BY DEF ScanCommand, Scanning
<1>2. \/ argv[at].kind = "plain" /\ command' = argv[at] /\ at' = at + 1
      \/ /\ argv[at].kind = "end" /\ at + 1 <= Len(argv)
         /\ command' = argv[at + 1] /\ at' = at + 2
      \/ argv[at].kind = "end" /\ ~(at + 1 <= Len(argv)) /\ command' = command /\ at' = at
  <2>1. CASE argv[at].kind = "end"
    <3>1. IF at + 1 <= Len(argv) THEN command' = argv[at + 1] /\ at' = at + 1 + 1
          ELSE UNCHANGED <<command, at>>
      BY <2>1 DEF ScanCommand
    <3>2. at + 1 + 1 = at + 2 BY StateOfWords
    <3> QED BY <2>1, <3>1, <3>2
  <2>2. CASE argv[at].kind # "end"
    <3>1. argv[at].kind = "plain" /\ IF at + 0 <= Len(argv) THEN command' = argv[at + 0] /\ at' = at + 0 + 1
                                     ELSE UNCHANGED <<command, at>>
      BY <2>2 DEF ScanCommand
    <3>2. at + 0 = at BY StateOfWords
    <3> QED BY <1>1, <3>1, <3>2
  <2> QED BY <2>1, <2>2
<1>3. at \in Nat /\ at > 0 /\ Len(argv) \in Nat BY StateOfWords
<1>4. /\ argv' = argv /\ program' = program /\ Positionals' = Positionals
      /\ EmptyCommand' = EmptyCommand /\ \A k : Apart(k)' <=> Apart(k)
  BY <1>1, SameSchema
<1>5. at' \in 1..(Len(argv) + 1) BY <1>1, <1>2, <1>3
<1>6. Placed' BY <1>1, <1>4, <1>5 DEF WordsInv, Placed
<1>7. ImplicitKept(raw)' BY <1>1, ImplicitStays DEF WordsInv
<1>8. ASSUME ~EmptyCommand PROVE WordsPlaced'
  <2>1. program.commands # <<>> BY <1>1 DEF ParserInv, ProgramKnown
  <2>2. \A k \in 1..Len(argv) : argv[k] # NoCommand BY <1>8, <2>1 DEF EmptyCommand, Contains
  <2>3. /\ \A k \in 1..(at - 1) : Apart(k) => argv[k] = command
        /\ command = NoCommand
    BY <1>1, <1>8 DEF WordsInv, WordsPlaced, BeingRead
  <2>4. \A k \in 1..(at - 1) : k \in 1..Len(argv) BY <1>1, <1>3
  <2>5. \A k \in 1..(at - 1) : ~Apart(k) BY <2>2, <2>3, <2>4
  <2>6. argv[at].kind = "end" => ~Apart(at) BY DEF Apart
  <2>7. \A k \in 1..(at' - 1) : Apart(k) => argv[k] = command'
    <3> TAKE k \in 1..(at' - 1)
    <3>1. CASE argv[at].kind = "plain" /\ command' = argv[at] /\ at' = at + 1
      <4>1. k \in 1..(at - 1) \/ k = at BY <1>3, <3>1
      <4> QED BY <2>5, <3>1, <4>1
    <3>2. CASE argv[at].kind = "end" /\ command' = argv[at + 1] /\ at' = at + 2
      <4>1. k \in 1..(at - 1) \/ k = at \/ k = at + 1 BY <1>3, <3>2
      <4> QED BY <2>5, <2>6, <3>2, <4>1
    <3>3. CASE at' = at BY <2>5, <3>3
    <3> QED BY <1>2, <3>1, <3>2, <3>3
  <2>8. command' = NoCommand => at' = Len(argv) /\ argv[at'].kind = "end"
    <3>1. at \in 1..Len(argv) BY <1>1, <1>3
    <3>2. at + 1 <= Len(argv) => at + 1 \in 1..Len(argv) BY <1>3
    <3>3. ~(at + 1 <= Len(argv)) => at = Len(argv) BY <1>1, <1>3
    <3> QED BY <1>2, <2>2, <3>1, <3>2, <3>3
  <2> QED BY <1>1, <1>4, <2>7, <2>8 DEF WordsPlaced, BeingRead
<1>9. EmptyCommand => WordsPlaced' BY <1>4 DEF WordsPlaced
<1> QED BY <1>6, <1>7, <1>8, <1>9

LEMMA ScanWords ==
  ASSUME ParserInv, WordsInv, Scan
  PROVE  Placed' /\ ImplicitKept(raw)' /\ WordsPlaced'
BY EndWords, EndOfOptionsWords, OptionWords, PositionalWords, CommandWords DEF Scan

-----------------------------------------------------------------------------
\* A word that stands apart for a command stood apart before its schema was made.
LEMMA CommandApart ==
  ASSUME ParserInv, stage = "root", UNCHANGED inputs,
         NEW fields, IsSequence(fields), schema' = SchemaOf(fields)'
  PROVE  \A k : Apart(k)' => Apart(k)
<1>1. argv' = argv /\ program' = program BY DEF inputs
<1>2. Specs' = Collect(fields, program.io, Available).specs BY <1>1 DEF Specs, SchemaOf
<1>3. PICK n \in Names : program = Program(n) BY DEF ParserInv, ProgramKnown
<1>4. program.commands # <<>> /\ schema = SchemaOf(program.fields) BY DEF ParserInv, ProgramKnown
<1>5. program.fields = <<>> BY <1>3, <1>4, ProgramsHaveOptions
<1>6. Specs = Collect(<<>>, program.io, Available).specs BY <1>4, <1>5 DEF Specs, SchemaOf
<1>7. Len(Specs) \in Nat BY SpecsDeclared DEF ParserInv
<1>8. Len(Specs') \in Nat BY <1>2, CollectIsLonger DEF Longer, IsSequence
<1>9. ASSUME NEW path PROVE FindLong(Specs, path) # 0 => FindLong(Specs', path) # 0
  <2>1. Known(Specs, path) => Known(Specs', path) BY <1>2, <1>6, BuiltinsKnown
  <2> QED BY <1>7, <1>8, <2>1, FindLongIs
<1>10. \A w : w.kind = "long" /\ Declared(w) => Declared(w)'
  <2> TAKE w
  <2>1. w.kind = "long" => (Declared(w) <=> FindLong(Specs, w.name) # 0) BY DEF Declared
  <2>2. w.kind = "long" => (Declared(w)' <=> FindLong(Specs', w.name) # 0) BY DEF Declared
  <2> QED BY <1>9, <2>1, <2>2
<1> QED BY <1>1, <1>10 DEF Apart

LEMMA RootWords ==
  ASSUME ParserInv, WordsInv, CollectRoot
  PROVE  Placed' /\ ImplicitKept(raw)' /\ WordsPlaced'
<1>1. /\ pc = "collect" /\ stage = "root" /\ command' = RootCommand
      /\ UNCHANGED inputs /\ forced' = forced /\ cursor' = cursor
  BY DEF CollectRoot
<1>2. \/ pc' = "failed" /\ UNCHANGED schema /\ raw' = raw /\ at' = at
      \/ /\ pc' = "validate" /\ stage' = "options"
         /\ \E k \in DOMAIN program.commands : program.commands[k].name = RootCommand
         /\ schema' = SchemaOf(FieldsOf(RootCommand)) /\ raw' = NothingRaw(schema')
         /\ at' = IF command = NoCommand THEN Len(argv) + 1 ELSE at
  BY DEF CollectRoot, Fail
<1>3. at \in Nat /\ at > 0 /\ Len(argv) \in Nat BY StateOfWords
<1>4. argv' = argv /\ program' = program BY <1>1 DEF inputs
<1>5. Placed'
  <2>1. cursor = 1 /\ at \in 1..(Len(argv) + 1) /\ forced \in BOOLEAN
    BY <1>1 DEF WordsInv, Placed
  <2>2. at' \in 1..(Len(argv) + 1) BY <1>2, <1>3, <2>1
  <2> QED BY <1>1, <1>4, <2>1, <2>2 DEF Placed
<1>6. CASE pc' = "failed" /\ UNCHANGED schema /\ raw' = raw /\ at' = at
  <2>1. ImplicitKept(raw)' BY <1>6, ImplicitStays DEF WordsInv
  <2>2. WordsPlaced' BY <1>6 DEF WordsPlaced
  <2> QED BY <1>5, <2>1, <2>2
<1>7. CASE /\ pc' = "validate" /\ stage' = "options"
           /\ \E k \in DOMAIN program.commands : program.commands[k].name = RootCommand
           /\ schema' = SchemaOf(FieldsOf(RootCommand)) /\ raw' = NothingRaw(schema')
           /\ at' = IF command = NoCommand THEN Len(argv) + 1 ELSE at
  <2>1. ImplicitKept(raw)'
    <3>1. \A i \in DOMAIN Specs' : raw'[i] = <<>> BY <1>7 DEF NothingRaw, Specs
    <3>2. 1..Len(<<>>) = {} OBVIOUS
    <3> QED BY <3>1, <3>2 DEF ImplicitKept
  <2> DEFINE fields == FieldsOf(RootCommand)
  <2>2. IsSequence(fields)
    <3> DEFINE name == RootCommand
               k == CHOOSE k \in DOMAIN program.commands : program.commands[k].name = name
    <3> HIDE DEF name
    <3>1. k \in DOMAIN program.commands BY <1>7 DEF name
    <3>2. fields = program.commands[k].fields BY DEF FieldsOf, name
    <3> HIDE DEF k, fields
    <3>3. fields \in Declarations(program) BY <3>1, <3>2 DEF Declarations
    <3>4. PICK n \in Names : program = Program(n) BY DEF ParserInv, ProgramKnown
    <3> QED BY <3>3, <3>4, FieldsAreDeclared
  <2>3. \A k : Apart(k)' => Apart(k)
    <3> HIDE DEF fields
    <3>1. schema' = Collect(fields, program'.io, Available) BY <1>4, <1>7 DEF SchemaOf, fields
    <3>2. \A g : g = fields => schema' = SchemaOf(g)' BY <3>1 DEF SchemaOf
    <3> QED BY <1>1, <2>2, <3>2, CommandApart
  <2>4. ASSUME ~EmptyCommand PROVE WordsPlaced'
    <3>1. \A k \in 1..Len(argv) : argv[k] # NoCommand
      <4>1. program.commands # <<>> BY <1>1 DEF ParserInv, ProgramKnown
      <4> QED BY <2>4, <4>1 DEF EmptyCommand, Contains
    <3>2. /\ \A k \in 1..(at - 1) : Apart(k) => argv[k] = command
          /\ command = NoCommand => at > Len(argv) \/ (at = Len(argv) /\ argv[at].kind = "end")
      BY <1>1, <2>4 DEF WordsInv, WordsPlaced, BeingRead
    <3>3. command # NoCommand => command' = command BY <1>1 DEF RootCommand
    <3>4. at \in 1..(Len(argv) + 1) BY DEF WordsInv, Placed
    <3>5. \A k \in 1..(at' - 1) : Apart(k)' => argv[k] = command'
      <4>1. CASE command = NoCommand
        <5> TAKE k \in 1..(at' - 1)
        <5>1. k \in 1..Len(argv) BY <1>3, <1>7, <4>1
        <5>2. CASE k \in 1..(at - 1) BY <2>3, <3>1, <3>2, <4>1, <5>1, <5>2
        <5>3. CASE k \notin 1..(at - 1)
          <6>1. k = at /\ at = Len(argv) BY <1>3, <3>2, <3>4, <4>1, <5>1, <5>3
          <6>2. ~Apart(k) BY <1>3, <3>2, <4>1, <6>1 DEF Apart
          <6> QED BY <2>3, <6>2
        <5> QED BY <5>2, <5>3
      <4>2. CASE command # NoCommand BY <1>7, <2>3, <3>2, <3>3, <4>2
      <4> QED BY <4>1, <4>2
    <3> QED BY <1>4, <1>7, <3>5 DEF WordsPlaced, BeingRead
  <2>5. EmptyCommand' = EmptyCommand BY <1>4 DEF EmptyCommand
  <2>6. EmptyCommand => WordsPlaced' BY <2>5 DEF WordsPlaced
  <2> QED BY <1>5, <2>1, <2>4, <2>6
<1> QED BY <1>2, <1>6, <1>7

-----------------------------------------------------------------------------
(* The shapes of the object.                                               *)

LEMMA ShapeAllows ==
  ASSUME NEW shape, shape \in {"one", "opt", "vec"}, NEW n,
         shape = "one" => n = 1, shape = "opt" => n <= 1
  PROVE  shape # "vec" => n <= 1 /\ (shape = "one" => n = 1)
<1>1. shape = "one" => n <= 1
  <2>1. 1 <= 1 OBVIOUS
  <2> QED BY <2>1
<1> QED BY <1>1

\* What texts, or without any its value before, make of an option is of its shape.
LEMMA MadeOfShape ==
  ASSUME ProgramKnown, NEW i \in Users, NEW values, NEW texts, IsSequence(texts),
         AssignAll(Specs[i], values, texts) # <<>>,
         texts = <<>> => /\ Specs[i].shape = "one" => Len(values) = 1
                         /\ Specs[i].shape = "opt" => Len(values) <= 1
  PROVE  LET made == AssignAll(Specs[i], values, texts)[1]
         IN  Specs[i].shape # "vec" =>
               Len(made) <= 1 /\ (Specs[i].shape = "one" => Len(made) = 1)
<1> DEFINE made == AssignAll(Specs[i], values, texts)[1]
<1>1. Specs[i].shape \in {"one", "opt", "vec"} /\ (Specs[i].separator => Specs[i].shape = "vec")
  BY SpecsDeclared
<1>2. /\ texts = <<>> => made = values
      /\ texts # <<>> /\ Specs[i].shape # "vec" /\ ~Specs[i].separator => Len(made) = 1
  BY AssignAllIs
<1> HIDE DEF made
<1>3. CASE texts = <<>>
  <2>1. made = values /\ (Specs[i].shape = "one" => Len(made) = 1)
        /\ (Specs[i].shape = "opt" => Len(made) <= 1)
    BY <1>2, <1>3
  <2> QED BY <1>1, <2>1, ShapeAllows DEF made
<1>4. CASE texts # <<>>
  <2>1. Specs[i].shape # "vec" => Len(made) = 1 BY <1>1, <1>2, <1>4
  <2> QED BY <1>1, <2>1, ShapeAllows DEF made
<1> QED BY <1>3, <1>4

LEMMA ExplicitIs ==
  ASSUME ParserInv, NEW i \in Users
  PROVE  IsSequence(Explicit(i)) /\ (Explicit(i) = <<>> => Base(i) = object[i])
<1>1. IsSequence(raw[i]) BY SpecsDeclared DEF ParserInv, RawKept
<1> DEFINE fromEnv == <<env[Specs[i].env]>>
<1>2. IsSequence(<<>>) /\ IsSequence(fromEnv) BY EmptyIsSequence, OneIsSequence
<1>3. Explicit(i) \in {raw[i], fromEnv, <<>>} BY DEF Explicit, FromEnv
<1> HIDE DEF fromEnv
<1> QED BY <1>1, <1>2, <1>3 DEF Base

LEMMA ShapedInv ==
  ASSUME ParserInv, WordsInv, [Next]_vars
  PROVE  ObjectShaped'
<1>1. CASE Validate \/ Scan \/ CollectRoot \/ CollectOptions
  <2>1. pc' \in {"validate", "scan", "collect", "defaults", "failed"}
    BY <1>1 DEF Validate, Scan, ScanEnds, ScanAsked, ScanEndOfOptions, ScanOption, ScanPositional,
         ScanRootOption, ScanCommand, Scanning, Take, CollectRoot, CollectOptions, Fail
  <2> QED BY <2>1 DEF ObjectShaped, Filled
<1>2. ASSUME UNCHANGED schema, UNCHANGED object, pc \in Filled \/ pc' \notin Filled PROVE ObjectShaped'
  <2>1. Users' = Users /\ Specs' = Specs BY <1>2 DEF Users, Specs
  <2> QED BY <1>2, <2>1 DEF WordsInv, ObjectShaped, OfShape
<1>3. ASSUME NEW made, UNCHANGED schema, object' = [i \in Users |-> made[i]],
             \A i \in Users : Specs[i].shape # "vec" =>
                Len(made[i]) <= 1 /\ (Specs[i].shape = "one" => Len(made[i]) = 1)
      PROVE  ObjectShaped'
  <2>1. Users' = Users /\ Specs' = Specs BY <1>3 DEF Users, Specs
  <2> QED BY <1>3, <2>1 DEF ObjectShaped, OfShape
<1>4. ProgramKnown BY DEF ParserInv
<1>5. CASE Defaults
  <2> DEFINE d(i) == AssignAll(Specs[i], Specs[i].initial, Specs[i].default)
  <2>1. UNCHANGED schema BY <1>5 DEF Defaults
  <2>2. \/ pc' = "failed"
        \/ (\A i \in Users : d(i) # <<>>) /\ object' = [i \in Users |-> d(i)[1]]
    BY <1>5 DEF Defaults, SetFields, Fail
  <2>3. CASE pc' = "failed" BY <2>3 DEF ObjectShaped, Filled
  <2>4. CASE (\A i \in Users : d(i) # <<>>) /\ object' = [i \in Users |-> d(i)[1]]
    <3>1. \A i \in Users : Specs[i].shape # "vec" =>
            Len(d(i)[1]) <= 1 /\ (Specs[i].shape = "one" => Len(d(i)[1]) = 1)
      BY <1>4, <2>4, SpecsDeclared, MadeOfShape
    <3> DEFINE made == [i \in Users |-> d(i)[1]]
    <3>2. \A i \in Users : made[i] = d(i)[1] OBVIOUS
    <3>3. object' = [i \in Users |-> made[i]] BY <2>4
    <3> HIDE DEF made, d
    <3> QED BY <1>3, <2>1, <3>1, <3>2, <3>3
  <2> QED BY <2>2, <2>3, <2>4
<1>6. CASE Import
  <2>1. UNCHANGED schema /\ pc = "import" BY <1>6 DEF Import
  <2>2. \/ pc' = "failed"
        \/ UNCHANGED object
        \/ /\ Decodes /\ (program.commands # <<>> => file.command = command)
           /\ object' = [i \in Users |-> Imported(i)]
    BY <1>6 DEF Import, SetFields, Fail, result
  <2>3. CASE pc' = "failed" BY <2>3 DEF ObjectShaped, Filled
  <2>4. CASE UNCHANGED object BY <1>2, <2>1, <2>4 DEF Filled
  <2>5. CASE /\ Decodes /\ (program.commands # <<>> => file.command = command)
             /\ object' = [i \in Users |-> Imported(i)]
    <3>1. stage = "options" BY <2>1 DEF ParserInv, FilesChosen, Filled
    <3>2. \A i \in Users : /\ Specs[i].shape = "one" => Len(Imported(i)) = 1
                           /\ Specs[i].shape = "opt" => Len(Imported(i)) <= 1
      BY <1>4, <2>5, <3>1, ImportedValues
    <3>3. \A i \in Users : Specs[i].shape \in {"one", "opt", "vec"} BY <1>4, SpecsDeclared
    <3> DEFINE made == [i \in Users |-> Imported(i)]
    <3>4. \A i \in Users : made[i] = Imported(i) OBVIOUS
    <3>5. object' = [i \in Users |-> made[i]] BY <2>5
    <3> HIDE DEF made
    <3>6. \A i \in Users : Specs[i].shape # "vec" =>
            Len(made[i]) <= 1 /\ (Specs[i].shape = "one" => Len(made[i]) = 1)
      BY <3>2, <3>3, <3>4, ShapeAllows
    <3> QED BY <1>3, <2>1, <3>5, <3>6
  <2> QED BY <2>2, <2>3, <2>4, <2>5
<1>7. CASE Materialize
  <2> DEFINE m(i) == AssignAll(Specs[i], Base(i), Explicit(i))
  <2>1. UNCHANGED schema /\ pc = "explicit" BY <1>7 DEF Materialize
  <2>2. \/ pc' = "failed"
        \/ (\A i \in Users : m(i) # <<>>) /\ object' = [i \in Users |-> m(i)[1]]
    BY <1>7 DEF Materialize, SetFields, Fail
  <2>3. CASE pc' = "failed" BY <2>3 DEF ObjectShaped, Filled
  <2>4. CASE (\A i \in Users : m(i) # <<>>) /\ object' = [i \in Users |-> m(i)[1]]
    <3>1. ASSUME NEW i \in Users
          PROVE  Specs[i].shape # "vec" =>
                   Len(m(i)[1]) <= 1 /\ (Specs[i].shape = "one" => Len(m(i)[1]) = 1)
      <4>1. IsSequence(Explicit(i)) /\ (Explicit(i) = <<>> => Base(i) = object[i]) BY ExplicitIs
      <4>2. OfShape(i) BY <2>1 DEF WordsInv, ObjectShaped, Filled
      <4>3. Explicit(i) = <<>> => /\ Specs[i].shape = "one" => Len(Base(i)) = 1
                                  /\ Specs[i].shape = "opt" => Len(Base(i)) <= 1
        BY <4>1, <4>2 DEF OfShape
      <4>4. m(i) # <<>> BY <2>4
      <4> QED BY <1>4, <4>1, <4>3, <4>4, MadeOfShape
    <3> DEFINE made == [i \in Users |-> m(i)[1]]
    <3>2. \A i \in Users : made[i] = m(i)[1] OBVIOUS
    <3>3. object' = [i \in Users |-> made[i]] BY <2>4
    <3> HIDE DEF made, m
    <3> QED BY <1>3, <2>1, <3>1, <3>2, <3>3
  <2> QED BY <2>2, <2>3, <2>4
<1>8. CASE Check \/ Export
  <2>1. UNCHANGED schema /\ UNCHANGED object /\ pc \in Filled
    BY <1>8 DEF Check, Export, result, Filled
  <2> QED BY <1>2, <2>1
<1>9. CASE Finished \/ UNCHANGED vars
  <2>1. UNCHANGED schema /\ UNCHANGED object /\ UNCHANGED pc BY <1>9 DEF Finished, vars, result
  <2> QED BY <1>2, <2>1
<1> QED BY <1>1, <1>5, <1>6, <1>7, <1>8, <1>9 DEF Next

-----------------------------------------------------------------------------
LEMMA WordsInit == Init => WordsInv
<1> SUFFICES ASSUME Init PROVE WordsInv OBVIOUS
<1>1. ParserInv BY InitInv
<1>2. /\ stage = IF program.commands = <<>> THEN "options" ELSE "root"
      /\ pc = "validate" /\ at = 1 /\ forced = FALSE /\ cursor = 1 /\ raw = NothingRaw(schema)
      /\ command = NoCommand /\ error = "none"
  BY DEF Init
<1>3. Len(argv) \in Nat BY <1>1, ArgvIs DEF ParserInv
<1>4. Steps BY <1>2 DEF Steps
<1>5. Placed
  <2>1. 1 \in 1..(Len(argv) + 1) BY <1>3
  <2> QED BY <1>2, <2>1 DEF Placed
<1>6. ImplicitKept(raw)
  <2>1. \A i \in DOMAIN Specs : raw[i] = <<>> BY <1>2 DEF NothingRaw, Specs
  <2>2. 1..Len(<<>>) = {} OBVIOUS
  <2> QED BY <2>1, <2>2 DEF ImplicitKept
<1>7. ObjectShaped BY <1>2 DEF ObjectShaped, Filled
<1>8. WordsPlaced
  <2>1. \A k \in 1..(at - 1) : FALSE BY <1>2
  <2> QED BY <1>2, <2>1 DEF WordsPlaced, BeingRead
<1> QED BY <1>4, <1>5, <1>6, <1>7, <1>8 DEF WordsInv

\* The steps that take no word.
LEMMA OtherWords ==
  ASSUME ParserInv, WordsInv,
         \/ Validate \/ CollectOptions \/ Defaults \/ Import \/ Materialize \/ Check \/ Export
         \/ Finished \/ UNCHANGED vars
  PROVE  Placed' /\ ImplicitKept(raw)' /\ WordsPlaced'
<1>1. /\ UNCHANGED inputs /\ UNCHANGED schema /\ UNCHANGED stage /\ UNCHANGED command
      /\ UNCHANGED scanned
  BY DEF Validate, CollectOptions, Defaults, Import, Materialize, Check, Export, Finished, vars
<1>2. \/ pc = "validate" /\ pc' \in {"scan", "failed"}
      \/ pc = "collect" /\ stage = "options"
      \/ pc \in {"defaults", "import", "explicit", "check", "export"}
      \/ UNCHANGED pc
  BY DEF Validate, CollectOptions, Defaults, Import, Materialize, Check, Export, Finished, vars, Fail
<1>3. pc \in {"defaults", "import", "explicit", "check", "export"} => stage = "options"
  BY DEF ParserInv, FilesChosen, Filled
<1>4. UNCHANGED raw /\ UNCHANGED at /\ UNCHANGED forced /\ UNCHANGED cursor BY <1>1 DEF scanned
<1>5. \/ pc' = "failed" \/ (BeingRead /\ BeingRead')
      \/ pc \notin {"validate", "scan", "failed"} /\ stage = "options"
      \/ UNCHANGED pc
  BY <1>2, <1>3 DEF BeingRead
<1>6. WordsPlaced' BY <1>1, <1>4, <1>5, WordsStay DEF WordsInv
<1>7. Placed' BY <1>1, <1>4, StaysPlaced DEF WordsInv
<1>8. ImplicitKept(raw)' BY <1>1, <1>4, ImplicitStays DEF WordsInv
<1> QED BY <1>6, <1>7, <1>8

\* Whatever a call has read, every word that stands apart is the command or a
\* positional, and every option and field holds what its declaration allows.
THEOREM WordsInvariant == Spec => []WordsInv
<1>1. ASSUME ParserInv, WordsInv, [Next]_vars PROVE WordsInv'
  <2>1. Steps' BY <1>1, StepsStep DEF WordsInv
  <2>2. ObjectShaped' BY <1>1, ShapedInv
  <2>3. Placed' /\ ImplicitKept(raw)' /\ WordsPlaced'
    BY <1>1, ScanWords, RootWords, OtherWords DEF Next
  <2> QED BY <2>1, <2>2, <2>3 DEF WordsInv
<1> QED BY <1>1, WordsInit, ParserInvariant, PTL DEF Spec

LEMMA WordsAreTyped ==
  ASSUME ParserInv, WordsInv
  PROVE  TypeOK
<1>1. /\ pc \in {"validate", "scan", "collect", "defaults", "import", "explicit", "check",
                 "export", "done", "failed"}
      /\ error = "none" <=> pc # "failed"
  BY DEF WordsInv, Steps
<1>2. stage \in {"root", "options"} /\ DOMAIN raw = DOMAIN Specs
  BY DEF ParserInv, ProgramKnown, RawKept
<1>3. at \in 1..(Len(argv) + 1) /\ forced \in BOOLEAN BY DEF WordsInv, Placed
<1>4. cursor \in 1..(Len(Positionals) + 1)
  <2>1. Len(Positionals) \in Nat BY StateOfWords, PositionalsAre
  <2>2. 1 \in 1..(Len(Positionals) + 1) BY <2>1
  <2> QED BY <2>2 DEF WordsInv, Placed
<1>5. pc \in {"export", "done"} =>
        /\ DOMAIN object = Users /\ supplied \in [Users -> BOOLEAN]
        /\ \A i \in Users : OfShape(i)
  BY DEF WordsInv, ObjectShaped, ParserInv, ObjectMade, Filled
<1> QED BY <1>1, <1>2, <1>3, <1>4, <1>5 DEF TypeOK, OfShape

\* Every word goes where the declarations say, whatever their order: no spelling
\* means two options, no plain word is lost to an unknown option, no option with an
\* implicit value takes the option behind it, and the command is the program's
\* (validate_schema, parse_options_into, record_option and parse_command_set).
THEOREM WordsFollowTheSchemaAlways == Spec => []WordsFollowTheSchema
<1>1. ASSUME ParserInv, WordsInv, CommandAgrees PROVE WordsFollowTheSchema
  <2>1. TypeOK BY <1>1, WordsAreTyped
  <2>2. SpellingsAreUnique
    <3> SUFFICES ASSUME pc \notin {"validate", "failed"}, NEW i \in DOMAIN Specs, NEW j \in DOMAIN Specs,
                        i # j, ~Specs[i].positional, ~Specs[j].positional
                 PROVE  /\ ({Specs[i].long} \cup ToSet(Specs[i].aliases))
                             \cap ({Specs[j].long} \cup ToSet(Specs[j].aliases)) = {}
                        /\ (({Specs[i].short} \cup ToSet(Specs[i].shortAliases)) \ {""})
                             \cap (({Specs[j].short} \cup ToSet(Specs[j].shortAliases)) \ {""}) = {}
      BY DEF SpellingsAreUnique
    <3>1. ProgramKnown /\ Accepted(schema) BY <1>1 DEF WordsInv, Steps, ParserInv
    <3> QED BY <3>1, AcceptedSpellings
  <2>3. NoWordIsLost
    <3> SUFFICES ASSUME Done, ~EmptyCommand PROVE NoWordIsLost BY DEF NoWordIsLost
    <3>1. stage = "options" BY <1>1 DEF ParserInv, FilesChosen, Filled, Done
    <3>2. Len(argv) \in Nat /\ DOMAIN argv = 1..Len(argv) BY <1>1, ArgvIs DEF ParserInv
    <3>3. at \in 1..(Len(argv) + 1) BY <1>1 DEF WordsInv, Placed
    <3>4. /\ \A k \in 1..(at - 1) : Apart(k) => argv[k] = command \/ Positional(k)
          /\ at > Len(argv)
      BY <1>1, <3>1 DEF WordsInv, WordsPlaced, BeingRead, Done
    <3>5. DOMAIN argv = 1..(at - 1) BY <3>2, <3>3, <3>4
    <3>6. \A k \in DOMAIN argv : Apart(k) /\ argv[k] # command => Positional(k) BY <3>4, <3>5
    <3> QED BY <3>6 DEF NoWordIsLost, Apart, Positional
  <2>4. ImplicitLeavesOptions
    <3>1. \A i \in DOMAIN Specs : DOMAIN raw[i] = 1..Len(raw[i])
      <4> TAKE i \in DOMAIN Specs
      <4> DEFINE s == raw[i]
      <4>1. IsSequence(s) BY <1>1 DEF ParserInv, RawKept
      <4> HIDE DEF s
      <4>2. DOMAIN s = 1..Len(s) BY <4>1 DEF IsSequence
      <4> QED BY <4>2 DEF s
    <3>2. ImplicitKept(raw) BY <1>1 DEF WordsInv
    <3> QED BY <3>1, <3>2 DEF ImplicitLeavesOptions, ImplicitKept, Own
  <2> QED BY <1>1, <2>1, <2>2, <2>3, <2>4 DEF WordsFollowTheSchema
<1> QED BY <1>1, ParserInvariant, WordsInvariant, CommandAgreesAlways, PTL
=============================================================================
