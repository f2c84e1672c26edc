------------------------- MODULE ProtoClientProofs -------------------------
(***************************************************************************)
(* Proofs about ProtoFactory and ProtoClient, for every dictionary of      *)
(* protocols, any two programs and every size of messages and slices.      *)
(***************************************************************************)
EXTENDS ProtoClient, FiniteSetTheorems, SequenceTheorems, TLAPS

(* A protocol that asks for a number asks for a positive one: creators are *)
(* only found for these.                                                   *)
NumbersArePositive ==
  \A s \in Side : \A n \in Statics[s] : Specify[n] = -1 \/ Specify[n] > 0

----------------------------------------------------------------------------
(* Induction over the natural numbers, for a set.                          *)
LEMMA SetInduction ==
  ASSUME NEW S, 0 \in S, \A n \in Nat : n \in S => n + 1 \in S
  PROVE  \A n \in Nat : n \in S
PROOF
<1> DEFINE T == {n \in Nat : n \notin S}
<1> SUFFICES ASSUME T # {} PROVE FALSE
  OBVIOUS
<1>1. PICK x \in T : \A y \in T : ~ <<y, x>> \in OpToRel(<, Nat)
  <2>1. T \subseteq Nat OBVIOUS
  <2> HIDE DEF T
  <2> QED BY <2>1, NatLessThanWellFounded, WFMin
<1>2. x \in Nat /\ x # 0 /\ x - 1 \in Nat OBVIOUS
<1>3. x - 1 \in S
  <2>1. x - 1 < x BY <1>2
  <2>2. ASSUME NEW a \in Nat, NEW b \in Nat, a < b PROVE <<a, b>> \in OpToRel(<, Nat)
    BY <2>2, Zenon DEF OpToRel
  <2>3. <<x - 1, x>> \in OpToRel(<, Nat) BY <2>1, <2>2, <1>2, Zenon
  <2> QED BY <1>1, <1>2, <2>3
<1> QED BY <1>2, <1>3

----------------------------------------------------------------------------
(* Maps: functions whose domain is a part of a set.                        *)

Partial(A, B) == UNION {[D -> B] : D \in SUBSET A}

LEMMA PartialIntro ==
  ASSUME NEW A, NEW B, NEW D \in SUBSET A, NEW f \in [D -> B]
  PROVE  f \in Partial(A, B)
BY DEF Partial

LEMMA PartialElim ==
  ASSUME NEW A, NEW B, NEW f \in Partial(A, B)
  PROVE  DOMAIN f \subseteq A /\ f \in [DOMAIN f -> B]
BY DEF Partial

LEMMA PartialEmpty ==
  ASSUME NEW A, NEW B
  PROVE  <<>> \in Partial(A, B) /\ DOMAIN <<>> = {}
<1>1. <<>> \in [{} -> B] OBVIOUS
<1> QED BY <1>1, PartialIntro

LEMMA PartialPut ==
  ASSUME NEW A, NEW B, NEW f \in Partial(A, B), NEW a \in A, NEW b \in B
  PROVE  Put(f, a, b) \in Partial(A, B)
<1> DEFINE g == Put(f, a, b)
<1>1. /\ DOMAIN g = DOMAIN f \cup {a} /\ g = [x \in DOMAIN g |-> g[x]]
      /\ \A x \in DOMAIN f \cup {a} : g[x] = IF x = a THEN b ELSE f[x]
  BY DEF Put
<1> HIDE DEF g
<1>2. DOMAIN f \subseteq A /\ f \in [DOMAIN f -> B] BY PartialElim
<1>3. g \in [DOMAIN g -> B] /\ DOMAIN g \in SUBSET A BY <1>1, <1>2
<1>4. g \in Partial(A, B) BY <1>3, PartialIntro
<1> QED BY <1>4 DEF g

LEMMA PartialInsert ==
  ASSUME NEW A, NEW B, NEW f \in Partial(A, B), NEW a \in A, NEW b \in B
  PROVE  Insert(f, a, b) \in Partial(A, B)
<1> DEFINE g == Insert(f, a, b)
<1>1. /\ DOMAIN g = DOMAIN f \cup {a} /\ g = [x \in DOMAIN g |-> g[x]]
      /\ \A x \in DOMAIN f \cup {a} : g[x] = IF x \in DOMAIN f THEN f[x] ELSE b
  BY DEF Insert
<1> HIDE DEF g
<1>2. DOMAIN f \subseteq A /\ f \in [DOMAIN f -> B] BY PartialElim
<1>3. g \in [DOMAIN g -> B] /\ DOMAIN g \in SUBSET A BY <1>1, <1>2
<1>4. g \in Partial(A, B) BY <1>3, PartialIntro
<1> QED BY <1>4 DEF g

----------------------------------------------------------------------------
(* A program.                                                              *)

Programs ==
  [types : Partial(Name, Int), counter : Nat, statics : SUBSET Name, built : BOOLEAN,
   size : Nat, creators : Partial(Int, Name), dynamic : Partial(Int, Name)]

(* Numbers are unique and not above the counter.  Those that were not      *)
(* counted were asked for by the initialiser of a protocol.                *)
NumbersTrue(p) ==
  /\ p.counter >= Reserved
  /\ \A n \in DOMAIN p.types : p.types[n] <= p.counter
  /\ \A n, o \in DOMAIN p.types : p.types[n] = p.types[o] => n = o
  /\ \A n \in DOMAIN p.types : p.types[n] <= Reserved =>
       p.types[n] = Specify[n] /\ n \in p.statics /\ Specify[n] # -1
  /\ \A n \in p.statics : Specify[n] # -1 => n \in DOMAIN p.types /\ p.types[n] = Specify[n]

(* A creator is kept under the number of its name. *)
CreatorsTrue(p) ==
  /\ \A t \in DOMAIN p.creators :
       t < p.size /\ p.creators[t] \in DOMAIN p.types /\ p.types[p.creators[t]] = t
  /\ \A t \in DOMAIN p.dynamic :
       t >= p.size /\ p.dynamic[t] \in DOMAIN p.types /\ p.types[p.dynamic[t]] = t

Registered(p, n) == p.types[n] \in DOMAIN p.creators \cup DOMAIN p.dynamic

ProgramTrue(p, statics) ==
  /\ p \in Programs /\ NumbersTrue(p) /\ CreatorsTrue(p)
  /\ p.statics \subseteq statics
  /\ ~p.built => p.creators = <<>> /\ p.dynamic = <<>> /\ DOMAIN p.types \subseteq p.statics
  /\ p.built => /\ p.statics = statics /\ statics \subseteq DOMAIN p.types
                /\ p.size > 0
                /\ \A n \in DOMAIN p.types : Registered(p, n)

FactoriesTrue ==
  /\ program \in [Side -> Programs]
  /\ \A s \in Side : ProgramTrue(program[s], Statics[s])

(* q has the numbers of p, and perhaps more. *)
Keeps(p, q) ==
  /\ DOMAIN p.types \subseteq DOMAIN q.types
  /\ \A n \in DOMAIN p.types : q.types[n] = p.types[n]

(* What regist, and each turn of the loop in the constructor, does. *)
LEMMA RegistTrue ==
  ASSUME NEW p \in Programs, NumbersTrue(p), CreatorsTrue(p), NEW n \in Name
  PROVE  LET q == Regist(p, n)
         IN  /\ q \in Programs /\ NumbersTrue(q) /\ CreatorsTrue(q) /\ Keeps(p, q)
             /\ DOMAIN q.types = DOMAIN p.types \cup {n}
             /\ Registered(q, n)
             /\ \A o \in DOMAIN p.types : Registered(p, o) => Registered(q, o)
             /\ q.built = p.built /\ q.statics = p.statics /\ q.size = p.size
<1> DEFINE d == Declare(p, n, -1)
           t == d.types[n]
           q == Regist(p, n)
<1>0. Reserved \in Nat BY FactoryAssumption
<1>1. /\ d \in Programs /\ NumbersTrue(d) /\ Keeps(p, d)
      /\ DOMAIN d.types = DOMAIN p.types \cup {n}
      /\ d.creators = p.creators /\ d.dynamic = p.dynamic
      /\ d.built = p.built /\ d.statics = p.statics /\ d.size = p.size
  <2>1. CASE n \in DOMAIN p.types
    <3>1. d = p BY <2>1 DEF Declare
    <3> QED BY <2>1, <3>1 DEF Keeps
  <2>2. CASE n \notin DOMAIN p.types
    <3> DEFINE types == Insert(p.types, n, p.counter + 1)
    <3>1. d = [p EXCEPT !.types = types, !.counter = p.counter + 1]
      BY <2>2 DEF Declare, Counted, Programs
    <3>2. p.types \in Partial(Name, Int) /\ p.counter \in Nat /\ p.counter + 1 \in Nat
          /\ p.counter + 1 \in Int
      BY DEF Programs
    <3>3. /\ types \in Partial(Name, Int)
          /\ DOMAIN types = DOMAIN p.types \cup {n}
          /\ \A x \in DOMAIN p.types \cup {n} :
               types[x] = IF x = n THEN p.counter + 1 ELSE p.types[x]
      <4>1. types \in Partial(Name, Int) BY <3>2, PartialInsert, Zenon
      <4>2. /\ DOMAIN types = DOMAIN p.types \cup {n}
            /\ \A x \in DOMAIN p.types \cup {n} :
                 types[x] = IF x \in DOMAIN p.types THEN p.types[x] ELSE p.counter + 1
        BY DEF Insert
      <4> QED BY <2>2, <4>1, <4>2
    <3> HIDE DEF types, d
    <3>4. d \in Programs BY <3>1, <3>2, <3>3 DEF Programs
    <3>5. d.types = types /\ d.counter = p.counter + 1 /\ d.statics = p.statics
      BY <3>1 DEF Programs
    <3>6. \A x \in DOMAIN p.types : p.types[x] \in Int BY <3>2, PartialElim
    <3>7. Keeps(p, d) BY <2>2, <3>3, <3>5 DEF Keeps
    <3>8. NumbersTrue(d)
      <4>1. d.counter >= Reserved BY <1>0, <3>2, <3>5 DEF NumbersTrue
      <4>2. \A x \in DOMAIN d.types : d.types[x] <= d.counter
        BY <3>2, <3>3, <3>5, <3>6 DEF NumbersTrue
      <4>3. \A x, o \in DOMAIN d.types : d.types[x] = d.types[o] => x = o
        BY <3>2, <3>3, <3>5, <3>6 DEF NumbersTrue
      <4>4. \A x \in DOMAIN d.types : d.types[x] <= Reserved =>
               d.types[x] = Specify[x] /\ x \in d.statics /\ Specify[x] # -1
        BY <1>0, <3>2, <3>3, <3>5, <3>6 DEF NumbersTrue
      <4>5. \A x \in d.statics : Specify[x] # -1 => x \in DOMAIN d.types /\ d.types[x] = Specify[x]
        BY <2>2, <3>3, <3>5 DEF NumbersTrue
      <4> QED BY <4>1, <4>2, <4>3, <4>4, <4>5 DEF NumbersTrue
    <3>9. d.creators = p.creators /\ d.dynamic = p.dynamic /\ d.built = p.built /\ d.size = p.size
      BY <3>1 DEF Programs
    <3> QED BY <3>3, <3>4, <3>5, <3>7, <3>8, <3>9
  <2> QED BY <2>1, <2>2
<1>2. q = IF t < d.size THEN [d EXCEPT !.creators = Put(@, t, n)]
          ELSE [d EXCEPT !.dynamic = Insert(@, t, n)]
  BY <1>1 DEF Regist, Number
<1> HIDE DEF d, q
<1>3. /\ t \in Int /\ d.size \in Nat /\ n \in DOMAIN d.types
      /\ d.creators \in Partial(Int, Name) /\ d.dynamic \in Partial(Int, Name)
  <2>1. d.types \in Partial(Name, Int) BY <1>1 DEF Programs
  <2> QED BY <1>1, <2>1, PartialElim DEF Programs
<1> HIDE DEF t
<1>4. t = d.types[n] BY DEF t
<1>5. CASE t < d.size
  <2> DEFINE creators == Put(d.creators, t, n)
  <2>1. q = [d EXCEPT !.creators = creators] BY <1>1, <1>2, <1>5 DEF Programs
  <2>2. /\ creators \in Partial(Int, Name)
        /\ DOMAIN creators = DOMAIN d.creators \cup {t}
        /\ \A x \in DOMAIN d.creators \cup {t} : creators[x] = IF x = t THEN n ELSE d.creators[x]
    <3>1. creators \in Partial(Int, Name) BY <1>3, PartialPut, Zenon
    <3> QED BY <3>1 DEF Put
  <2> HIDE DEF creators
  <2>3. q \in Programs BY <1>1, <2>1, <2>2 DEF Programs
  <2>4. /\ q.creators = creators /\ q.types = d.types /\ q.counter = d.counter
        /\ q.statics = d.statics /\ q.size = d.size /\ q.built = d.built /\ q.dynamic = d.dynamic
    BY <1>1, <2>1 DEF Programs
  <2>5. NumbersTrue(q) BY <1>1, <2>4 DEF NumbersTrue
  <2>6. CreatorsTrue(q) BY <1>1, <1>3, <1>4, <1>5, <2>2, <2>4 DEF CreatorsTrue, Keeps
  <2>7. /\ Registered(q, n)
        /\ \A o \in DOMAIN p.types : Registered(p, o) => Registered(q, o)
    BY <1>1, <1>4, <2>2, <2>4 DEF Registered, Keeps
  <2> QED BY <1>1, <2>3, <2>4, <2>5, <2>6, <2>7 DEF Keeps, q
<1>6. CASE ~(t < d.size)
  <2> DEFINE dynamic == Insert(d.dynamic, t, n)
  <2>1. q = [d EXCEPT !.dynamic = dynamic] BY <1>1, <1>2, <1>6 DEF Programs
  <2>2. /\ dynamic \in Partial(Int, Name)
        /\ DOMAIN dynamic = DOMAIN d.dynamic \cup {t}
        /\ \A x \in DOMAIN d.dynamic \cup {t} :
             dynamic[x] = IF x \in DOMAIN d.dynamic THEN d.dynamic[x] ELSE n
    <3>1. dynamic \in Partial(Int, Name) BY <1>3, PartialInsert, Zenon
    <3> QED BY <3>1 DEF Insert
  <2> HIDE DEF dynamic
  <2>3. q \in Programs BY <1>1, <2>1, <2>2 DEF Programs
  <2>4. /\ q.dynamic = dynamic /\ q.types = d.types /\ q.counter = d.counter
        /\ q.statics = d.statics /\ q.size = d.size /\ q.built = d.built /\ q.creators = d.creators
    BY <1>1, <2>1 DEF Programs
  <2>5. NumbersTrue(q) BY <1>1, <2>4 DEF NumbersTrue
  <2>6. CreatorsTrue(q) BY <1>1, <1>3, <1>4, <1>6, <2>2, <2>4 DEF CreatorsTrue, Keeps
  <2>7. /\ Registered(q, n)
        /\ \A o \in DOMAIN p.types : Registered(p, o) => Registered(q, o)
    BY <1>1, <1>4, <2>2, <2>4 DEF Registered, Keeps
  <2> QED BY <1>1, <2>3, <2>4, <2>5, <2>6, <2>7 DEF Keeps, q
<1> QED BY <1>5, <1>6

(* The loop of the constructor, over the first n names. *)
LoopIs(f, p, n) ==
  f = [k \in 0..n |-> IF k = 0 THEN Sized(p) ELSE RegistStatic(f[k - 1], Dictionary[k])]

LEMMA LoopRuns ==
  ASSUME NEW p
  PROVE  \A n \in Nat : \E f : LoopIs(f, p, n)
<1> DEFINE S == {n \in Nat : \E f : LoopIs(f, p, n)}
<1>1. 0 \in S
  <2> DEFINE f == [k \in 0..0 |-> Sized(p)]
  <2>1. LoopIs(f, p, 0) BY DEF LoopIs
  <2> QED BY <2>1
<1>2. ASSUME NEW n \in Nat, n \in S PROVE n + 1 \in S
  <2>1. PICK f : LoopIs(f, p, n) BY <1>2
  <2> DEFINE g == [k \in 0..(n + 1) |->
                     IF k = n + 1 THEN RegistStatic(f[n], Dictionary[n + 1]) ELSE f[k]]
  <2>2. \A k \in 0..n : f[k] = IF k = 0 THEN Sized(p) ELSE RegistStatic(f[k - 1], Dictionary[k])
    BY <2>1 DEF LoopIs
  <2>3. \A k \in 0..(n + 1) :
          g[k] = IF k = 0 THEN Sized(p) ELSE RegistStatic(g[k - 1], Dictionary[k])
    <3> TAKE k \in 0..(n + 1)
    <3>1. CASE k = n + 1
      <4>1. k # 0 /\ k - 1 = n /\ n \in 0..(n + 1) /\ n # n + 1 BY <3>1
      <4>2. g[n] = f[n] BY <4>1
      <4> QED BY <3>1, <4>1, <4>2
    <3>2. CASE k # n + 1
      <4>1. k \in 0..n /\ g[k] = f[k] BY <3>2
      <4>2. k # 0 => k - 1 \in 0..(n + 1) /\ k - 1 # n + 1 BY <4>1
      <4>3. k # 0 => g[k - 1] = f[k - 1] BY <4>2
      <4> QED BY <2>2, <4>1, <4>3
    <3> QED BY <3>1, <3>2
  <2>4. g = [k \in 0..(n + 1) |-> g[k]] OBVIOUS
  <2> HIDE DEF g
  <2>5. LoopIs(g, p, n + 1) BY <2>3, <2>4 DEF LoopIs
  <2> QED BY <2>5
<1> HIDE DEF S
<1>3. \A n \in Nat : n \in S BY <1>1, <1>2, SetInduction
<1> QED BY <1>3 DEF S

LEMMA ConstructIsLoop ==
  ASSUME NEW p
  PROVE  \E f : LoopIs(f, p, Len(Dictionary)) /\ Construct(p) = f[Len(Dictionary)]
<1>1. Len(Dictionary) \in Nat BY FactoryAssumption, LenProperties
<1> DEFINE F == CHOOSE f : LoopIs(f, p, Len(Dictionary))
<1>2. LoopIs(F, p, Len(Dictionary)) BY <1>1, LoopRuns
<1>3. Construct(p) = F[Len(Dictionary)] BY DEF Construct, LoopIs
<1> QED BY <1>2, <1>3

(* What the loop has done after its first k names. *)
Looped(q, p, k) ==
  /\ q \in Programs /\ NumbersTrue(q) /\ CreatorsTrue(q) /\ Keeps(p, q)
  /\ q.built /\ q.statics = p.statics /\ q.size > 0
  /\ DOMAIN q.types \subseteq p.statics
  /\ \A i \in 1..k : Dictionary[i] \in p.statics =>
       Dictionary[i] \in DOMAIN q.types /\ Registered(q, Dictionary[i])

LEMMA ConstructTrue ==
  ASSUME NEW p, NEW statics, ProgramTrue(p, statics), ~p.built, p.statics = statics,
         IsFiniteSet(p.statics)
  PROVE  ProgramTrue(Construct(p), statics) /\ Keeps(p, Construct(p)) /\ Construct(p).built
<1> DEFINE N == Len(Dictionary)
<1>0. N \in Nat /\ Reserved \in Nat /\ \A k \in 1..N : Dictionary[k] \in Name
  BY FactoryAssumption, LenProperties, ElementOfSeq DEF Name
<1>1. PICK f : LoopIs(f, p, N) /\ Construct(p) = f[N] BY ConstructIsLoop
<1> HIDE DEF N
<1> DEFINE S == {n \in Nat : n <= N => Looped(f[n], p, n)}
<1>2. \A k \in 0..N : f[k] = IF k = 0 THEN Sized(p) ELSE RegistStatic(f[k - 1], Dictionary[k])
  BY <1>1 DEF LoopIs
<1>3. 0 \in S
  <2>1. f[0] = Sized(p) BY <1>0, <1>2
  <2>2. p \in Programs /\ NumbersTrue(p) /\ DOMAIN p.types \subseteq p.statics
        /\ p.creators = <<>> /\ p.dynamic = <<>>
    BY DEF ProgramTrue
  <2>3. Cardinality(p.statics) \in Nat BY FS_CardinalityType
  <2> DEFINE q == Sized(p)
             size == Cardinality(p.statics) + Reserved + 1
  <2>4. size \in Nat /\ size > 0 BY <1>0, <2>3
  <2>5. q = [p EXCEPT !.size = size, !.built = TRUE] BY DEF Sized
  <2> HIDE DEF q, size
  <2>6. q \in Programs BY <2>2, <2>4, <2>5 DEF Programs
  <2>7. /\ q.types = p.types /\ q.counter = p.counter /\ q.statics = p.statics
        /\ q.size = size /\ q.built /\ q.creators = <<>> /\ q.dynamic = <<>>
    BY <2>2, <2>5 DEF Programs
  <2>8. NumbersTrue(q) BY <2>2, <2>7 DEF NumbersTrue
  <2>9. CreatorsTrue(q) BY <2>7, PartialEmpty DEF CreatorsTrue
  <2>10. Keeps(p, q) BY <2>7 DEF Keeps
  <2>11. Looped(q, p, 0) BY <2>2, <2>4, <2>6, <2>7, <2>8, <2>9, <2>10 DEF Looped
  <2> QED BY <2>1, <2>11 DEF q
<1>4. ASSUME NEW n \in Nat, n \in S PROVE n + 1 \in S
  <2> SUFFICES ASSUME n + 1 <= N PROVE Looped(f[n + 1], p, n + 1)
    OBVIOUS
  <2>1. Looped(f[n], p, n) BY <1>0, <1>4
  <2>2. n + 1 \in 0..N /\ n + 1 # 0 /\ n + 1 - 1 = n /\ n + 1 \in 1..N BY <1>0
  <2>3. f[n + 1] = RegistStatic(f[n], Dictionary[n + 1]) BY <1>2, <2>2
  <2>4. Dictionary[n + 1] \in Name BY <1>0, <2>2
  <2> DEFINE old == f[n]
             new == f[n + 1]
             name == Dictionary[n + 1]
  <2> HIDE DEF old, new, name
  <2>5. CASE name \in old.statics
    <3>1. new = Regist(old, name) BY <2>3, <2>5 DEF RegistStatic, old, new, name
    <3>2. /\ old \in Programs /\ NumbersTrue(old) /\ CreatorsTrue(old) /\ name \in Name
      BY <2>1, <2>4 DEF Looped, old, name
    <3>3. /\ new \in Programs /\ NumbersTrue(new) /\ CreatorsTrue(new) /\ Keeps(old, new)
          /\ DOMAIN new.types = DOMAIN old.types \cup {name}
          /\ Registered(new, name)
          /\ \A o \in DOMAIN old.types : Registered(old, o) => Registered(new, o)
          /\ new.built = old.built /\ new.statics = old.statics /\ new.size = old.size
      BY <3>1, <3>2, RegistTrue
    <3>4. Keeps(p, new) BY <2>1, <3>3 DEF Looped, Keeps, old
    <3>5. \A i \in 1..(n + 1) : Dictionary[i] \in p.statics =>
            Dictionary[i] \in DOMAIN new.types /\ Registered(new, Dictionary[i])
      <4> TAKE i \in 1..(n + 1)
      <4>1. CASE i = n + 1 BY <3>3, <4>1 DEF name
      <4>2. CASE i # n + 1
        <5>1. i \in 1..n BY <4>2
        <5> QED BY <2>1, <3>3, <5>1 DEF Looped, old
      <4> QED BY <4>1, <4>2
    <3> QED BY <2>1, <2>5, <3>3, <3>4, <3>5 DEF Looped, old, new
  <2>6. CASE name \notin old.statics
    <3>1. new = old BY <2>3, <2>6 DEF RegistStatic, old, new, name
    <3>2. \A i \in 1..(n + 1) : Dictionary[i] \in p.statics => i \in 1..n
      <4> TAKE i \in 1..(n + 1)
      <4>1. i = n + 1 \/ i \in 1..n OBVIOUS
      <4> QED BY <2>1, <2>6, <4>1 DEF Looped, old, name
    <3> QED BY <2>1, <3>1, <3>2 DEF Looped, old, new
  <2> QED BY <2>5, <2>6
<1>5. \A n \in Nat : n \in S
  <2> HIDE DEF S
  <2> QED BY <1>3, <1>4, SetInduction
<1>6. Looped(Construct(p), p, N) BY <1>0, <1>1, <1>5
<1> DEFINE q == Construct(p)
<1> HIDE DEF q
<1>7. \A x \in p.statics : \E i \in 1..N : Dictionary[i] = x
  <2>1. Name = {Dictionary[i] : i \in 1..N}
    BY FactoryAssumption, LenProperties DEF Name, Range, N
  <2>2. p.statics \subseteq Name BY DEF ProgramTrue, Programs
  <2> QED BY <2>1, <2>2
<1>8. p.statics \subseteq DOMAIN q.types /\ \A x \in DOMAIN q.types : Registered(q, x)
  BY <1>6, <1>7 DEF Looped, q
<1>9. ProgramTrue(q, statics) /\ Keeps(p, q) /\ q.built
  BY <1>6, <1>8 DEF Looped, ProgramTrue, q
<1> QED BY <1>9 DEF q

LEMMA DeclareStaticTrue ==
  ASSUME NEW p, NEW statics, ProgramTrue(p, statics), ~p.built,
         NEW n \in statics, n \notin p.statics, n \in Name, MaySpecify(p, Specify[n])
  PROVE  LET q == DeclareStatic(p, n, Specify[n])
         IN  ProgramTrue(q, statics) /\ Keeps(p, q) /\ ~q.built
<1> DEFINE sp == Specify[n]
           d == IF sp = -1 THEN p ELSE Declare(p, n, sp)
           q == DeclareStatic(p, n, sp)
           types == IF sp = -1 THEN p.types ELSE Insert(p.types, n, sp)
<1>1. sp \in Int BY ClientAssumption
<1>2. /\ p \in Programs /\ NumbersTrue(p) /\ n \notin DOMAIN p.types
      /\ p.creators = <<>> /\ p.dynamic = <<>> /\ DOMAIN p.types \subseteq p.statics
      /\ p.statics \subseteq statics
  BY DEF ProgramTrue
<1>3. /\ p.types \in Partial(Name, Int) /\ p.counter \in Nat /\ Reserved \in Nat
      /\ \A x \in DOMAIN p.types : p.types[x] \in Int
  <2>1. p.types \in Partial(Name, Int) BY <1>2 DEF Programs
  <2> QED BY <1>2, <2>1, PartialElim, FactoryAssumption DEF Programs
<1>4. q = [p EXCEPT !.types = types, !.statics = p.statics \cup {n}]
  <2>1. CASE sp = -1
    <3>1. d = p /\ types = p.types BY <2>1
    <3>2. q = [p EXCEPT !.statics = p.statics \cup {n}] BY <2>1 DEF DeclareStatic
    <3> QED BY <1>2, <3>1, <3>2 DEF Programs
  <2>2. CASE sp # -1
    <3>1. Declare(p, n, sp) = [p EXCEPT !.types = types]
      <4>1. ~(sp > Reserved \/ sp \in Range(p.types)) BY <1>1, <1>3, <2>2 DEF MaySpecify
      <4> QED BY <1>2, <2>2, <4>1 DEF Declare
    <3>2. q = [Declare(p, n, sp) EXCEPT !.statics = @ \cup {n}] BY <2>2 DEF DeclareStatic
    <3> HIDE DEF q, types
    <3> QED BY <1>2, <3>1, <3>2 DEF Programs
  <2> QED BY <2>1, <2>2
<1>5. /\ types \in Partial(Name, Int)
      /\ DOMAIN types = IF sp = -1 THEN DOMAIN p.types ELSE DOMAIN p.types \cup {n}
      /\ \A x \in DOMAIN types : types[x] = IF x = n THEN sp ELSE p.types[x]
  <2>1. CASE sp = -1 BY <1>2, <1>3, <2>1
  <2>2. CASE sp # -1
    <3>1. Insert(p.types, n, sp) \in Partial(Name, Int) BY <1>1, <1>3, PartialInsert, Zenon
    <3>2. types = Insert(p.types, n, sp) BY <2>2
    <3>3. DOMAIN Insert(p.types, n, sp) = DOMAIN p.types \cup {n} BY DEF Insert
    <3>4. \A x \in DOMAIN p.types \cup {n} : Insert(p.types, n, sp)[x] = IF x = n THEN sp ELSE p.types[x]
      BY <1>2 DEF Insert
    <3> QED BY <2>2, <3>1, <3>2, <3>3, <3>4
  <2> QED BY <2>1, <2>2
<1> HIDE DEF d, q, types
<1>6. sp # -1 => sp <= Reserved /\ \A x \in DOMAIN p.types : p.types[x] # sp
  BY <1>1, <1>3 DEF MaySpecify, Range
<1> HIDE DEF sp
<1>7. q \in Programs BY <1>2, <1>4, <1>5 DEF Programs
<1>8. /\ q.types = types /\ q.counter = p.counter /\ q.statics = p.statics \cup {n}
      /\ q.size = p.size /\ q.built = p.built /\ q.creators = <<>> /\ q.dynamic = <<>>
  BY <1>2, <1>4 DEF Programs
<1>9. NumbersTrue(q)
  <2>1. q.counter >= Reserved BY <1>2, <1>8 DEF NumbersTrue
  <2>2. \A x \in DOMAIN q.types : q.types[x] <= q.counter
    BY <1>1, <1>2, <1>3, <1>5, <1>6, <1>8 DEF NumbersTrue
  <2>3. \A x, o \in DOMAIN q.types : q.types[x] = q.types[o] => x = o
    BY <1>1, <1>2, <1>3, <1>5, <1>6, <1>8 DEF NumbersTrue
  <2>4. \A x \in DOMAIN q.types : q.types[x] <= Reserved =>
           q.types[x] = Specify[x] /\ x \in q.statics /\ Specify[x] # -1
    BY <1>1, <1>2, <1>3, <1>5, <1>6, <1>8 DEF NumbersTrue, sp
  <2>5. \A x \in q.statics : Specify[x] # -1 => x \in DOMAIN q.types /\ q.types[x] = Specify[x]
    BY <1>2, <1>5, <1>8 DEF NumbersTrue, sp
  <2> QED BY <2>1, <2>2, <2>3, <2>4, <2>5 DEF NumbersTrue
<1>10. CreatorsTrue(q) BY <1>8, PartialEmpty DEF CreatorsTrue
<1>11. Keeps(p, q) BY <1>2, <1>5, <1>8 DEF Keeps
<1>12. DOMAIN q.types \subseteq q.statics /\ q.statics \subseteq statics BY <1>2, <1>5, <1>8
<1>13. ProgramTrue(q, statics) BY <1>7, <1>8, <1>9, <1>10, <1>12 DEF ProgramTrue
<1> QED BY <1>8, <1>11, <1>13 DEF q, sp

LEMMA NameFinite == IsFiniteSet(Name)
<1>1. Len(Dictionary) \in Nat /\ Name = {Dictionary[i] : i \in 1..Len(Dictionary)}
  BY FactoryAssumption, LenProperties DEF Name, Range
<1>2. IsFiniteSet(1..Len(Dictionary)) BY <1>1, FS_Interval
<1>3. IsFiniteSet({Dictionary[i] : i \in 1..Len(Dictionary)})
  <2>1. Dictionary \in [1..Len(Dictionary) -> Name]
    BY FactoryAssumption, LenProperties DEF Name
  <2>2. IsFiniteSet(Range(Dictionary))
    <3>1. Dictionary \in Surjection(1..Len(Dictionary), Range(Dictionary))
      BY <2>1 DEF Name, Surjection, Range
    <3> QED BY <1>2, <3>1, FS_Surjection
  <2> QED BY <1>1, <2>2 DEF Name
<1> QED BY <1>1, <1>3

LEMMA FactoriesStart == Init => FactoriesTrue
<1> SUFFICES ASSUME Init PROVE FactoriesTrue
  OBVIOUS
<1>0. Reserved \in Nat BY FactoryAssumption
<1>1. /\ Fresh.types = <<>> /\ Fresh.counter = Reserved /\ Fresh.statics = {} /\ ~Fresh.built
      /\ Fresh.creators = <<>> /\ Fresh.dynamic = <<>>
  BY DEF Fresh
<1>2. Fresh \in Programs
  <2>1. <<>> \in Partial(Name, Int) /\ <<>> \in Partial(Int, Name) BY PartialEmpty
  <2> QED BY <1>0, <2>1 DEF Fresh, Programs
<1>3. NumbersTrue(Fresh) BY <1>0, <1>1 DEF NumbersTrue
<1>4. CreatorsTrue(Fresh) BY <1>1 DEF CreatorsTrue
<1>5. \A statics : ProgramTrue(Fresh, statics) BY <1>1, <1>2, <1>3, <1>4 DEF ProgramTrue
<1>6. program = [s \in Side |-> Fresh] BY DEF Init
<1> QED BY <1>2, <1>5, <1>6 DEF FactoriesTrue

(* What one program may do with its numbers. *)
LEMMA ProgramSteps ==
  ASSUME FactoriesTrue, NEW s \in Side, NEW p, program' = [program EXCEPT ![s] = p],
         ProgramTrue(p, Statics[s]), Keeps(program[s], p), program[s].built => p.built
  PROVE  /\ FactoriesTrue'
         /\ \A o \in Side : Keeps(program[o], program'[o]) /\ (program[o].built => program'[o].built)
<1>1. program \in [Side -> Programs] BY DEF FactoriesTrue
<1>2. p \in Programs BY DEF ProgramTrue
<1>3. \A o \in Side : program'[o] = IF o = s THEN p ELSE program[o] BY <1>1
<1>4. program' \in [Side -> Programs] BY <1>1, <1>2
<1>5. \A o \in Side : ProgramTrue(program'[o], Statics[o]) BY <1>3 DEF FactoriesTrue
<1>6. \A o \in Side : Keeps(program[o], program[o]) BY DEF Keeps
<1> QED BY <1>3, <1>4, <1>5, <1>6 DEF FactoriesTrue

FactoryKeeps ==
  \A s \in Side : Keeps(program[s], program'[s]) /\ (program[s].built => program'[s].built)

LEMMA FactoriesStep ==
  ASSUME FactoriesTrue, [Next]_vars
  PROVE  FactoriesTrue' /\ FactoryKeeps
<1>1. ASSUME NEW s \in Side, Build(s) PROVE FactoriesTrue' /\ FactoryKeeps
  <2> DEFINE p == program[s]
  <2>1. ProgramTrue(p, Statics[s]) /\ ~p.built /\ p.statics = Statics[s]
    BY <1>1 DEF Build, FactoriesTrue
  <2>2. program' = [program EXCEPT ![s] = Construct(p)] BY <1>1 DEF Build
  <2>3. IsFiniteSet(p.statics)
    <3>1. p.statics \subseteq Name BY <2>1 DEF ProgramTrue, Programs
    <3> QED BY <3>1, NameFinite, FS_Subset
  <2> HIDE DEF p
  <2>4. ProgramTrue(Construct(p), Statics[s]) /\ Keeps(p, Construct(p)) /\ Construct(p).built
    BY <2>1, <2>3, ConstructTrue
  <2> QED BY <2>2, <2>4, ProgramSteps DEF p, FactoryKeeps
<1>2. ASSUME NEW s \in Side, NEW n \in Name, InitStatic(s, n) PROVE FactoriesTrue' /\ FactoryKeeps
  <2> DEFINE p == program[s]
             q == DeclareStatic(p, n, Specify[n])
  <2>1. /\ ProgramTrue(p, Statics[s]) /\ ~p.built /\ n \in Statics[s] /\ n \notin p.statics
        /\ MaySpecify(p, Specify[n])
    BY <1>2 DEF InitStatic, FactoriesTrue
  <2>2. program' = [program EXCEPT ![s] = q] BY <1>2 DEF InitStatic
  <2> HIDE DEF p
  <2>3. ProgramTrue(q, Statics[s]) /\ Keeps(p, q) BY <2>1, DeclareStaticTrue
  <2> HIDE DEF q
  <2> QED BY <2>1, <2>2, <2>3, ProgramSteps DEF p, FactoryKeeps
<1>3. ASSUME NEW s \in Side, NEW n \in Name, RegistDynamic(s, n) PROVE FactoriesTrue' /\ FactoryKeeps
  <2> DEFINE p == program[s]
             q == Regist(p, n)
  <2>1. ProgramTrue(p, Statics[s]) /\ p.built BY <1>3 DEF RegistDynamic, FactoriesTrue
  <2>2. program' = [program EXCEPT ![s] = q] BY <1>3 DEF RegistDynamic
  <2> HIDE DEF p
  <2>3. p \in Programs /\ NumbersTrue(p) /\ CreatorsTrue(p) BY <2>1 DEF ProgramTrue
  <2>4. /\ q \in Programs /\ NumbersTrue(q) /\ CreatorsTrue(q) /\ Keeps(p, q)
        /\ DOMAIN q.types = DOMAIN p.types \cup {n}
        /\ Registered(q, n)
        /\ \A o \in DOMAIN p.types : Registered(p, o) => Registered(q, o)
        /\ q.built = p.built /\ q.statics = p.statics /\ q.size = p.size
    BY <2>3, RegistTrue
  <2> HIDE DEF q
  <2>5. ProgramTrue(q, Statics[s]) BY <2>1, <2>4 DEF ProgramTrue
  <2> QED BY <2>1, <2>2, <2>4, <2>5, ProgramSteps DEF p, FactoryKeeps
<1>4. CASE UNCHANGED program
  BY <1>4 DEF FactoriesTrue, FactoryKeeps, Keeps
<1> QED BY <1>1, <1>2, <1>3, <1>4
  DEF Next, vars, Send, WriteFrame, WriteCancelled, StreamEnds, SendDatagram, Reads, ReadCancel,
      ReadVersion, ReadComplete, ReadSliceHeader, ReadSlice, ReadMiddle, StopRecv, SetStreamClient,
      AroundDatagram, RecvVersionDatagram, RecvDatagram, RecvTruncated

(* Numbers of two names differ, and the factories are as FactoriesTrue     *)
(* says, in every state.                                                   *)
THEOREM FactoryInvariant == Spec => [](FactoriesTrue /\ UniqueNumbers)
<1>1. FactoriesTrue => UniqueNumbers BY DEF FactoriesTrue, ProgramTrue, NumbersTrue, UniqueNumbers
<1> QED BY <1>1, FactoriesStart, FactoriesStep, PTL DEF Spec

(* A name keeps its number for the life of the process, whatever is        *)
(* declared, built or registered (_protoType).                             *)
THEOREM NumbersStayForever == Spec => NumbersStay
<1>1. ASSUME FactoriesTrue, [Next]_vars
      PROVE  [\A s \in Side : \A n \in DOMAIN program[s].types :
                /\ n \in DOMAIN program'[s].types
                /\ program'[s].types[n] = program[s].types[n]]_program
  BY <1>1, FactoriesStep DEF FactoryKeeps, Keeps
<1> QED BY <1>1, FactoriesStart, FactoriesStep, PTL DEF Spec, NumbersStay

(* A number creates the protocol it was given to, and no other. *)
LEMMA CreateIs ==
  ASSUME NEW p, NEW statics, ProgramTrue(p, statics), NEW t
  PROVE  Create(p, t) # NoProto =>
           Create(p, t) \in DOMAIN p.types /\ Create(p, t) \in Name /\ p.types[Create(p, t)] = t
<1>1. CreatorsTrue(p) /\ p.types \in Partial(Name, Int) BY DEF ProgramTrue, Programs
<1>2. DOMAIN p.types \subseteq Name BY <1>1, PartialElim
<1> QED BY <1>1, <1>2 DEF Create, CreatorsTrue

LEMMA CreateFinds ==
  ASSUME NEW p, NEW statics, ProgramTrue(p, statics), p.built,
         NEW n \in DOMAIN p.types, p.types[n] > 0
  PROVE  Create(p, p.types[n]) = n
<1> DEFINE t == p.types[n]
<1>1. CreatorsTrue(p) /\ NumbersTrue(p) /\ Registered(p, n) /\ p.size \in Nat
  BY DEF ProgramTrue, Programs
<1>2. t \in Int
  <2>1. p.types \in Partial(Name, Int) BY DEF ProgramTrue, Programs
  <2> QED BY <2>1, PartialElim
<1>3. CASE t \in DOMAIN p.creators
  <2>1. t < p.size /\ p.creators[t] = n BY <1>1, <1>3 DEF CreatorsTrue, NumbersTrue
  <2> QED BY <1>3, <2>1 DEF Create
<1>4. CASE t \in DOMAIN p.dynamic
  <2>1. t >= p.size /\ p.dynamic[t] = n BY <1>1, <1>4 DEF CreatorsTrue, NumbersTrue
  <2>2. ~(t < p.size) BY <1>1, <1>2, <2>1
  <2> QED BY <1>4, <2>1, <2>2 DEF Create
<1> QED BY <1>1, <1>3, <1>4 DEF Registered

LEMMA NumbersPositive ==
  ASSUME NumbersArePositive, NEW s \in Side, ProgramTrue(program[s], Statics[s]),
         NEW n \in DOMAIN program[s].types
  PROVE  program[s].types[n] > 0
<1> DEFINE p == program[s]
<1>1. p.types \in Partial(Name, Int) /\ NumbersTrue(p) /\ p.statics \subseteq Statics[s]
  BY DEF ProgramTrue, Programs
<1>2. p.types[n] \in Int BY <1>1, PartialElim
<1>3. Reserved \in Nat BY FactoryAssumption
<1> QED BY <1>1, <1>2, <1>3 DEF NumbersTrue, NumbersArePositive

LEMMA FactoriesCreate ==
  ASSUME NumbersArePositive, FactoriesTrue
  PROVE  CreatesItsName
<1> SUFFICES ASSUME NEW s \in Side, program[s].built
             PROVE  /\ \A n \in DOMAIN program[s].types : CreateNamed(program[s], n) = n
                    /\ \A t \in 0..(program[s].counter + 1) :
                         Create(program[s], t) # NoProto =>
                           Number(program[s], Create(program[s], t)) = t
  BY DEF CreatesItsName
<1> DEFINE p == program[s]
<1>1. ProgramTrue(p, Statics[s]) BY DEF FactoriesTrue
<1>2. \A n \in DOMAIN p.types : p.types[n] > 0 BY <1>1, NumbersPositive
<1> HIDE DEF p
<1>3. p.built BY DEF p
<1>4. ASSUME NEW n \in DOMAIN p.types PROVE CreateNamed(p, n) = n
  <2>1. Create(p, p.types[n]) = n BY <1>1, <1>2, <1>3, CreateFinds
  <2> QED BY <2>1 DEF CreateNamed, Number
<1>5. ASSUME NEW t, Create(p, t) # NoProto PROVE Number(p, Create(p, t)) = t
  BY <1>1, <1>5, CreateIs DEF Number
<1> QED BY <1>4, <1>5 DEF p

(* The number of a registered protocol creates that protocol, and no       *)
(* number creates another (create, by number and by name).                 *)
THEOREM CreatesItsNameAlways == NumbersArePositive => (Spec => []CreatesItsName)
<1> SUFFICES ASSUME NumbersArePositive PROVE Spec => []CreatesItsName
  OBVIOUS
<1>1. FactoriesTrue => CreatesItsName BY FactoriesCreate
<1> QED BY <1>1, FactoriesStart, FactoriesStep, PTL DEF Spec

----------------------------------------------------------------------------
(* Sequences.                                                              *)

LEMMA Written ==
  ASSUME NEW S, NEW w \in Seq(S), NEW q \in Seq(S), q # <<>>
  PROVE  /\ Append(w, Head(q)) \o Tail(q) = w \o q
         /\ Append(w, Head(q)) \in Seq(S) /\ Tail(q) \in Seq(S)
<1>1. Head(q) \in S /\ Tail(q) \in Seq(S) /\ <<Head(q)>> \in Seq(S) BY HeadTailProperties
<1>2. Append(w, Head(q)) = w \o <<Head(q)>> BY <1>1, AppendIsConcat
<1>3. (w \o <<Head(q)>>) \o Tail(q) = w \o (<<Head(q)>> \o Tail(q)) BY <1>1, ConcatAssociative
<1>4. <<Head(q)>> \o Tail(q) = q BY <1>1
<1> QED BY <1>1, <1>2, <1>3, <1>4

LEMMA ReadOne ==
  ASSUME NEW S, NEW w \in Seq(S), NEW q \in Seq(S), w # <<>>
  PROVE  /\ Tail(w) \o q = Tail(w \o q) /\ (w \o q)[1] = Head(w)
         /\ Tail(w) \in Seq(S) /\ w \o q \in Seq(S) /\ w \o q # <<>>
<1>1. /\ Tail(w) \in Seq(S) /\ Len(Tail(w)) = Len(w) - 1
      /\ \A i \in 1 .. Len(Tail(w)) : Tail(w)[i] = w[i+1]
  BY HeadTailProperties
<1>2. Len(w) \in Nat \ {0} /\ Len(q) \in Nat BY EmptySeq, LenProperties
<1>3. /\ w \o q \in Seq(S) /\ Len(w \o q) = Len(w) + Len(q)
      /\ \A i \in 1 .. Len(w) + Len(q) : (w \o q)[i] = IF i <= Len(w) THEN w[i] ELSE q[i - Len(w)]
  BY ConcatProperties
<1>4. w \o q # <<>> /\ (w \o q)[1] = Head(w) BY <1>2, <1>3
<1>5. /\ Tail(w \o q) \in Seq(S) /\ Len(Tail(w \o q)) = Len(w) + Len(q) - 1
      /\ \A i \in 1 .. Len(Tail(w \o q)) : Tail(w \o q)[i] = (w \o q)[i+1]
  BY <1>3, <1>4, HeadTailProperties
<1>6. /\ Tail(w) \o q \in Seq(S) /\ Len(Tail(w) \o q) = Len(w) - 1 + Len(q)
      /\ \A i \in 1 .. Len(w) - 1 + Len(q) :
            (Tail(w) \o q)[i] = IF i <= Len(w) - 1 THEN Tail(w)[i] ELSE q[i - (Len(w) - 1)]
  BY <1>1, ConcatProperties
<1>7. \A i \in 1 .. Len(w) - 1 + Len(q) : (Tail(w) \o q)[i] = Tail(w \o q)[i]
  <2> TAKE i \in 1 .. Len(w) - 1 + Len(q)
  <2>1. i + 1 \in 1 .. Len(w) + Len(q) /\ i \in 1 .. Len(Tail(w \o q)) BY <1>2, <1>5
  <2>2. Tail(w \o q)[i] = IF i + 1 <= Len(w) THEN w[i+1] ELSE q[i + 1 - Len(w)]
    BY <1>3, <1>5, <2>1
  <2>3. CASE i <= Len(w) - 1
    <3>1. i \in 1 .. Len(Tail(w)) /\ i + 1 <= Len(w) BY <1>1, <1>2, <2>3
    <3> QED BY <1>1, <1>6, <2>2, <2>3, <3>1
  <2>4. CASE ~(i <= Len(w) - 1)
    <3>1. ~(i + 1 <= Len(w)) /\ i + 1 - Len(w) = i - (Len(w) - 1) BY <1>2, <2>4
    <3> QED BY <1>6, <2>2, <2>4, <3>1
  <2> QED BY <2>3, <2>4
<1>8. Tail(w) \o q = Tail(w \o q)
  <2>1. Len(Tail(w) \o q) = Len(Tail(w \o q)) BY <1>2, <1>5, <1>6
  <2>2. \A i \in 1 .. Len(Tail(w) \o q) : (Tail(w) \o q)[i] = Tail(w \o q)[i] BY <1>6, <1>7
  <2> QED BY <1>5, <1>6, <2>1, <2>2, SeqEqual
<1> QED BY <1>1, <1>3, <1>4, <1>8

LEMMA CutShort ==
  ASSUME NEW S, NEW w \in Seq(S), NEW q \in Seq(S), NEW k \in 0..Len(w)
  PROVE  /\ SubSeq(w, 1, k) \in Seq(S) /\ Len(SubSeq(w, 1, k)) = k
         /\ k \in 0..Len(w \o q)
         /\ \A i \in 1..k : SubSeq(w, 1, k)[i] = (w \o q)[i]
<1>1. Len(w) \in Nat /\ Len(q) \in Nat /\ k \in Nat BY LenProperties
<1>2. \A i \in 1..k : w[i] \in S BY <1>1, ElementOfSeq
<1>3. /\ SubSeq(w, 1, k) \in Seq(S) /\ Len(SubSeq(w, 1, k)) = IF 1 <= k THEN k - 1 + 1 ELSE 0
      /\ \A i \in 1 .. k - 1 + 1 : SubSeq(w, 1, k)[i] = w[1 + i - 1]
  <2>1. 1 \in Int /\ k \in Int BY <1>1
  <2> QED BY <1>2, <2>1, SubSeqProperties
<1>4. /\ Len(w \o q) = Len(w) + Len(q)
      /\ \A i \in 1 .. Len(w) + Len(q) : (w \o q)[i] = IF i <= Len(w) THEN w[i] ELSE q[i - Len(w)]
  BY ConcatProperties
<1>5. ASSUME NEW i \in 1..k PROVE SubSeq(w, 1, k)[i] = (w \o q)[i]
  <2>1. i \in 1 .. k - 1 + 1 /\ 1 + i - 1 = i /\ i \in 1 .. Len(w) + Len(q) /\ i <= Len(w) BY <1>1
  <2> QED BY <1>3, <1>4, <2>1
<1> QED BY <1>1, <1>3, <1>4, <1>5

----------------------------------------------------------------------------
(* Frames, as they stand in a stream.                                      *)

Messages == [name : Name, number : Int, size : Sizes]
Tables == Partial(Int, Name \cup {Unnamed})

Frame ==
  {Cancel} \cup {[kind |-> "version", table |-> T] : T \in Tables}
  \cup {Complete(m, d, z) : m \in Nat, d \in Int, z \in Sizes}
  \cup {SliceHeader(m, d, z) : m \in Nat, d \in Int, z \in Sizes}
  \cup {SliceAt(m, z, o) : m \in Nat, z \in Sizes, o \in Nat}

(* The sender linked a protocol whose number is counted: its table is not  *)
(* empty.  (_createProto takes an empty table for none.)                   *)
SenderCounts == \E n \in Statics[Sender] : Specify[n] = -1

(* Entries of a table are numbers of the program p that it came from, or   *)
(* were added by a look up.                                                *)
TrueTable(T, p) ==
  \A t \in DOMAIN T : T[t] = Unnamed \/ (T[t] \in DOMAIN p.types /\ p.types[T[t]] = t)

(* A frame of one of the messages in log, sent by the program p. *)
GoodTable(T, p) == T \in Tables /\ TrueTable(T, p) /\ (SenderCounts => T # <<>>)
GoodFrame(f, p, log) ==
  \/ f = Cancel
  \/ \E T \in Tables : f = [kind |-> "version", table |-> T] /\ GoodTable(T, p)
  \/ \E m \in DOMAIN log : f = Complete(m, log[m].number, log[m].size)
  \/ \E m \in DOMAIN log : f = SliceHeader(m, log[m].number, log[m].size)
  \/ \E m \in DOMAIN log : \E o \in 0..(log[m].size - 1) : f = SliceAt(m, log[m].size, o)

Carries(f) == f.kind \in {"complete", "sliceHeader", "slice"}
Open(f) == f.kind = "sliceHeader" \/ (f.kind = "slice" /\ ~f.last)

(* A slice follows its header or the slice before it.  Nothing but a       *)
(* Cancel may come instead of a slice that is still to come.               *)
Follows(f, g) ==
  IF g.kind = "slice"
    THEN Open(f) /\ f.m = g.m /\ g.data = (IF f.kind = "slice" THEN f.data + Len(f.units) ELSE 0)
    ELSE Open(f) => g.kind = "cancel"

Precedes(f, g) == Carries(f) /\ Carries(g) => f.m < g.m \/ (f.m = g.m /\ ~Ends(f))

Tidy(P, p, log) ==
  /\ P \in Seq(Frame)
  /\ \A i \in 1..Len(P) : GoodFrame(P[i], p, log)
  /\ \A i \in 1..(Len(P) - 1) : Follows(P[i], P[i + 1])
  /\ \A i, j \in 1..Len(P) : i < j => Precedes(P[i], P[j])

(* What a frame holds, by its kind. *)
SliceTrue(f, z) ==
  /\ f.data \in 0..(z - 1) /\ Len(f.units) \in 1..(z - f.data)
  /\ f.units = [i \in 1..Len(f.units) |-> <<f.m, f.data + i>>]
  /\ f.last <=> (f.data + Len(f.units) = z)

SliceLength(z, o) == IF z - o < SliceUnits THEN z - o ELSE SliceUnits

LEMMA SliceIs ==
  ASSUME NEW m, NEW z \in Nat \ {0}, NEW o \in 0..(z - 1)
  PROVE  LET f == SliceAt(m, z, o)
         IN  /\ f.kind = "slice" /\ f.m = m /\ f.data = o
             /\ Len(f.units) = SliceLength(z, o)
             /\ SliceTrue(f, z)
<1> DEFINE length == SliceLength(z, o)
           units == [i \in 1..length |-> <<m, o + i>>]
           f == SliceAt(m, z, o)
<1>0. SliceUnits \in Nat \ {0} BY ClientAssumption
<1>1. length \in 1..(z - o) /\ length \in Nat BY <1>0 DEF SliceLength
<1>2. f = [kind |-> "slice", m |-> m, data |-> o, last |-> o + length >= z, units |-> units]
  BY DEF SliceAt, SliceLength
<1> HIDE DEF length
<1>4. Len(units) = length BY <1>1
<1> HIDE DEF units, f
<1>5. f.kind = "slice" /\ f.m = m /\ f.data = o /\ f.last = (o + length >= z) /\ f.units = units
  BY <1>2
<1>6. f.units = [i \in 1..Len(f.units) |-> <<f.m, f.data + i>>] BY <1>4, <1>5 DEF units
<1>7. Len(f.units) = length /\ Len(f.units) \in 1..(z - f.data) BY <1>1, <1>4, <1>5
<1>8. f.last <=> (f.data + Len(f.units) = z)
  <2>1. (o + length >= z) <=> (o + length = z) BY <1>1
  <2>2. f.last <=> (o + length >= z) BY <1>5
  <2> QED BY <1>5, <1>7, <2>1, <2>2
<1>9. SliceTrue(f, z) BY <1>5, <1>6, <1>7, <1>8 DEF SliceTrue
<1> QED BY <1>5, <1>7, <1>9 DEF f, length

FrameTrue(f, p, log) ==
  /\ f.kind \in {"cancel", "version", "complete", "sliceHeader", "slice"}
  /\ f.kind = "version" => GoodTable(f.table, p)
  /\ Carries(f) => f.m \in DOMAIN log
  /\ f.kind \in {"complete", "sliceHeader"} => f.data = log[f.m].number
  /\ f.kind = "complete" => f.units = [i \in 1..log[f.m].size |-> <<f.m, i>>]
  /\ f.kind = "sliceHeader" => f.length = log[f.m].size
  /\ f.kind = "slice" => SliceTrue(f, log[f.m].size)

LEMMA FrameIs ==
  ASSUME NEW p, NEW log \in Seq(Messages), NEW f, GoodFrame(f, p, log)
  PROVE  FrameTrue(f, p, log) /\ f \in Frame
<1>0. /\ DOMAIN log = 1..Len(log) /\ Len(log) \in Nat
      /\ \A m \in DOMAIN log : /\ m \in Nat /\ log[m] \in Messages
                               /\ log[m].number \in Int /\ log[m].size \in Sizes
                               /\ log[m].size \in Nat \ {0}
  <2>1. DOMAIN log = 1..Len(log) /\ Len(log) \in Nat BY LenProperties
  <2>2. \A m \in DOMAIN log : log[m] \in Messages BY <2>1, ElementOfSeq
  <2>3. \A e \in Messages : e.number \in Int /\ e.size \in Sizes /\ e.size \in Nat \ {0}
    BY ClientAssumption DEF Messages
  <2>4. \A m \in DOMAIN log : m \in Nat BY <2>1
  <2> QED BY <2>1, <2>2, <2>3, <2>4
<1>1. CASE f = Cancel
  BY <1>1 DEF Cancel, FrameTrue, Carries, Frame
<1>2. ASSUME NEW T \in Tables, f = [kind |-> "version", table |-> T], GoodTable(T, p)
      PROVE  FrameTrue(f, p, log) /\ f \in Frame
  <2>1. f.kind = "version" /\ f.table = T BY <1>2
  <2>2. f \in Frame BY <1>2 DEF Frame
  <2> QED BY <1>2, <2>1, <2>2 DEF FrameTrue, Carries
<1>3. ASSUME NEW m \in DOMAIN log, f = Complete(m, log[m].number, log[m].size)
      PROVE  FrameTrue(f, p, log) /\ f \in Frame
  <2>1. f \in Frame BY <1>0, <1>3 DEF Frame
  <2>2. /\ f.kind = "complete" /\ f.m = m /\ f.data = log[m].number
        /\ f.units = [i \in 1..log[m].size |-> <<m, i>>]
    BY <1>3 DEF Complete
  <2> QED BY <2>1, <2>2 DEF FrameTrue, Carries
<1>4. ASSUME NEW m \in DOMAIN log, f = SliceHeader(m, log[m].number, log[m].size)
      PROVE  FrameTrue(f, p, log) /\ f \in Frame
  <2>1. f \in Frame BY <1>0, <1>4 DEF Frame
  <2>2. f.kind = "sliceHeader" /\ f.m = m /\ f.data = log[m].number /\ f.length = log[m].size
    BY <1>4 DEF SliceHeader
  <2> QED BY <2>1, <2>2 DEF FrameTrue, Carries
<1>5. ASSUME NEW m \in DOMAIN log, NEW o \in 0..(log[m].size - 1), f = SliceAt(m, log[m].size, o)
      PROVE  FrameTrue(f, p, log) /\ f \in Frame
  <2> DEFINE z == log[m].size
  <2>1. z \in Nat \ {0} /\ z \in Sizes /\ m \in Nat BY <1>0
  <2>2. f = SliceAt(m, z, o) BY <1>5
  <2> HIDE DEF z
  <2>3. o \in 0..(z - 1) /\ o \in Nat BY <2>1 DEF z
  <2>4. f \in Frame BY <2>1, <2>2, <2>3 DEF Frame
  <2>5. f.kind = "slice" /\ f.m = m /\ SliceTrue(f, z)
    BY <2>1, <2>2, <2>3, SliceIs
  <2> QED BY <2>4, <2>5 DEF FrameTrue, Carries, z
<1> QED BY <1>1, <1>2, <1>3, <1>4, <1>5 DEF GoodFrame

(* A frame stays good when the program counts and the log grows. *)
Extends(log, more) ==
  DOMAIN log \subseteq DOMAIN more /\ \A m \in DOMAIN log : more[m] = log[m]

LEMMA TableStays ==
  ASSUME NEW p, NEW q, Keeps(p, q), NEW T, TrueTable(T, p)
  PROVE  TrueTable(T, q)
BY DEF TrueTable, Keeps

LEMMA FrameStays ==
  ASSUME NEW p, NEW q, Keeps(p, q), NEW log, NEW more, Extends(log, more),
         NEW f, GoodFrame(f, p, log)
  PROVE  GoodFrame(f, q, more)
<1>1. \A T : GoodTable(T, p) => GoodTable(T, q) BY TableStays DEF GoodTable
<1> QED BY <1>1 DEF GoodFrame, Extends

LEMMA TidyStays ==
  ASSUME NEW p, NEW q, Keeps(p, q), NEW log, NEW more, Extends(log, more),
         NEW P, Tidy(P, p, log)
  PROVE  Tidy(P, q, more)
BY FrameStays DEF Tidy

(* The sequences of frames that the steps make. *)

LEMMA TidyPrefix ==
  ASSUME NEW p, NEW log, NEW P, Tidy(P, p, log), NEW Q \in Seq(Frame), Len(Q) <= Len(P),
         \A i \in 1..Len(Q) : Q[i] = P[i]
  PROVE  Tidy(Q, p, log)
<1>1. Len(P) \in Nat /\ Len(Q) \in Nat BY LenProperties DEF Tidy
<1>2. \A i \in 1..Len(Q) : i \in 1..Len(P) BY <1>1
<1>3. ASSUME NEW i \in 1..(Len(Q) - 1) PROVE Follows(Q[i], Q[i + 1])
  <2>1. i \in 1..Len(Q) /\ i + 1 \in 1..Len(Q) /\ i \in 1..(Len(P) - 1) BY <1>1
  <2> QED BY <2>1 DEF Tidy
<1>4. \A i, j \in 1..Len(Q) : i < j => Precedes(Q[i], Q[j]) BY <1>2 DEF Tidy
<1> QED BY <1>2, <1>3, <1>4 DEF Tidy

LEMMA TidyTail ==
  ASSUME NEW p, NEW log, NEW P, Tidy(P, p, log), P # <<>>
  PROVE  Tidy(Tail(P), p, log)
<1>1. /\ Len(P) \in Nat /\ Len(P) # 0
      /\ Tail(P) \in Seq(Frame) /\ Len(Tail(P)) = Len(P) - 1
      /\ \A i \in 1 .. Len(Tail(P)) : Tail(P)[i] = P[i+1]
  BY EmptySeq, LenProperties, HeadTailProperties DEF Tidy
<1>2. \A i \in 1..Len(Tail(P)) : i + 1 \in 1..Len(P) BY <1>1
<1>3. ASSUME NEW i \in 1..(Len(Tail(P)) - 1) PROVE Follows(Tail(P)[i], Tail(P)[i + 1])
  <2>1. /\ i \in 1..Len(Tail(P)) /\ i + 1 \in 1..Len(Tail(P)) /\ i + 1 \in 1..(Len(P) - 1)
        /\ Tail(P)[i] = P[i + 1] /\ Tail(P)[i + 1] = P[(i + 1) + 1]
    BY <1>1
  <2> QED BY <2>1 DEF Tidy
<1>4. ASSUME NEW i \in 1..Len(Tail(P)), NEW j \in 1..Len(Tail(P)), i < j
      PROVE  Precedes(Tail(P)[i], Tail(P)[j])
  <2>1. i + 1 < j + 1 BY <1>4
  <2> QED BY <1>1, <1>2, <2>1 DEF Tidy
<1>5. \A i \in 1..Len(Tail(P)) : GoodFrame(Tail(P)[i], p, log) BY <1>1, <1>2 DEF Tidy
<1> QED BY <1>1, <1>3, <1>4, <1>5 DEF Tidy

LEMMA TidyJoin ==
  ASSUME NEW p, NEW log, NEW P, Tidy(P, p, log), NEW Q, Tidy(Q, p, log),
         P # <<>> /\ Q # <<>> => Follows(P[Len(P)], Q[1]),
         \A i \in 1..Len(P), j \in 1..Len(Q) : Precedes(P[i], Q[j])
  PROVE  Tidy(P \o Q, p, log)
<1> DEFINE R == P \o Q
<1>1. P \in Seq(Frame) /\ Q \in Seq(Frame) BY DEF Tidy
<1>2. /\ Len(P) \in Nat /\ Len(Q) \in Nat
      /\ P # <<>> => Len(P) # 0
      /\ Q # <<>> => Len(Q) # 0
  BY <1>1, EmptySeq, LenProperties
<1>3. /\ R \in Seq(Frame) /\ Len(R) = Len(P) + Len(Q)
      /\ \A i \in 1 .. Len(P) + Len(Q) : R[i] = IF i <= Len(P) THEN P[i] ELSE Q[i - Len(P)]
  BY <1>1, ConcatProperties
<1> HIDE DEF R
<1>4. ASSUME NEW i \in 1..Len(R)
      PROVE  \/ i \in 1..Len(P) /\ R[i] = P[i]
             \/ i - Len(P) \in 1..Len(Q) /\ R[i] = Q[i - Len(P)] /\ ~(i <= Len(P))
  BY <1>2, <1>3
<1>5. \A i \in 1..Len(R) : GoodFrame(R[i], p, log) BY <1>4 DEF Tidy
<1>6. ASSUME NEW i \in 1..(Len(R) - 1) PROVE Follows(R[i], R[i + 1])
  <2>1. i \in 1..Len(R) /\ i + 1 \in 1..Len(R) BY <1>2, <1>3
  <2>2. CASE i + 1 <= Len(P)
    <3>1. i \in 1..(Len(P) - 1) /\ R[i] = P[i] /\ R[i + 1] = P[i + 1] BY <1>2, <1>3, <2>1, <2>2
    <3> QED BY <3>1 DEF Tidy
  <2>3. CASE i = Len(P)
    <3>1. R[i] = P[Len(P)] /\ R[i + 1] = Q[1] BY <1>2, <1>3, <2>1, <2>3
    <3>2. Len(P) # 0 /\ Len(Q) # 0 BY <1>2, <1>3, <2>1, <2>3
    <3>3. P # <<>> /\ Q # <<>> BY <3>2, EmptySeq
    <3> QED BY <3>1, <3>3
  <2>4. CASE i > Len(P)
    <3> DEFINE k == i - Len(P)
    <3>1. k \in 1..(Len(Q) - 1) /\ R[i] = Q[k] /\ R[i + 1] = Q[k + 1]
      <4>1. (i + 1) - Len(P) = k + 1 /\ ~(i <= Len(P)) /\ ~(i + 1 <= Len(P)) BY <1>2, <2>4
      <4> QED BY <1>2, <1>3, <2>1, <2>4, <4>1
    <3> QED BY <3>1 DEF Tidy
  <2> QED BY <1>2, <2>1, <2>2, <2>3, <2>4
<1>7. ASSUME NEW i \in 1..Len(R), NEW j \in 1..Len(R), i < j PROVE Precedes(R[i], R[j])
  <2>1. CASE j \in 1..Len(P) /\ R[j] = P[j]
    <3>1. i \in 1..Len(P) /\ R[i] = P[i] BY <1>2, <1>3, <1>7, <2>1
    <3> QED BY <1>7, <2>1, <3>1 DEF Tidy
  <2>2. CASE j - Len(P) \in 1..Len(Q) /\ R[j] = Q[j - Len(P)]
    <3>1. CASE i \in 1..Len(P) /\ R[i] = P[i] BY <2>2, <3>1
    <3>2. CASE i - Len(P) \in 1..Len(Q) /\ R[i] = Q[i - Len(P)]
      <4>1. i - Len(P) < j - Len(P) BY <1>2, <1>7
      <4> QED BY <2>2, <3>2, <4>1 DEF Tidy
    <3> QED BY <1>4, <3>1, <3>2
  <2> QED BY <1>4, <2>1, <2>2
<1>8. Tidy(R, p, log) BY <1>3, <1>5, <1>6, <1>7 DEF Tidy
<1> QED BY <1>8 DEF R

LEMMA TidyOne ==
  ASSUME NEW p, NEW log \in Seq(Messages), NEW f, GoodFrame(f, p, log)
  PROVE  Tidy(<<f>>, p, log) /\ Len(<<f>>) = 1 /\ <<f>>[1] = f
<1>1. f \in Frame BY FrameIs
<1>2. <<f>> \in Seq(Frame) /\ Len(<<f>>) = 1 /\ <<f>>[1] = f BY <1>1
<1> QED BY <1>2 DEF Tidy

LEMMA TidyNone ==
  ASSUME NEW p, NEW log
  PROVE  Tidy(<<>>, p, log)
<1>1. <<>> \in Seq(Frame) /\ Len(<<>>) = 0 BY EmptySeq
<1> QED BY <1>1 DEF Tidy

(* As many slices as the payload needs. *)
LEMMA SliceCount ==
  ASSUME NEW z \in Nat \ {0}, NEW K, K = (z + SliceUnits - 1) \div SliceUnits
  PROVE  /\ K \in Nat /\ K >= 1 /\ (K - 1) * SliceUnits < z /\ z <= K * SliceUnits
         /\ \A k \in 1..K : /\ (k - 1) * SliceUnits \in 0..(z - 1)
                            /\ k * SliceUnits = (k - 1) * SliceUnits + SliceUnits
                            /\ k < K => k * SliceUnits < z
<1> DEFINE u == SliceUnits
           a == z + u - 1
<1>0. u \in Nat \ {0} BY ClientAssumption
<1>1. a \in Nat /\ a = z + u - 1 BY <1>0
<1>2. K = a \div u OBVIOUS
<1> HIDE DEF a, u
<1>3. K \in Nat /\ K * u <= a /\ a < K * u + u BY <1>0, <1>1, <1>2, SMT
<1>4. K * u \in Nat BY <1>0, <1>3, SMT
<1>5. K * u <= z + u - 1 /\ z + u - 1 < K * u + u BY <1>1, <1>3
<1>6. K # 0
  <2>1. K = 0 => K * u = 0 BY <1>0, SMT
  <2> QED BY <1>0, <1>5, <2>1
<1>7. K - 1 \in Nat /\ K * u = (K - 1) * u + u /\ (K - 1) * u \in Nat BY <1>0, <1>3, <1>6, SMT
<1>8. (K - 1) * u < z /\ z <= K * u BY <1>0, <1>4, <1>5, <1>7
<1>9. ASSUME NEW k \in 1..K
      PROVE  (k - 1) * u \in 0..(z - 1) /\ k * u = (k - 1) * u + u /\ (k < K => k * u < z)
  <2>1. k \in Nat /\ k - 1 \in Nat /\ k <= K BY <1>3
  <2>2. (k - 1) * u \in Nat /\ k * u = (k - 1) * u + u /\ k * u \in Nat BY <1>0, <2>1, SMT
  <2>3. (k - 1) * u <= (K - 1) * u BY <1>0, <1>3, <2>1, SMT
  <2>4. k < K => k * u <= (K - 1) * u BY <1>0, <1>3, <2>1, SMT
  <2> QED BY <1>7, <1>8, <2>2, <2>3, <2>4
<1>10. K >= 1 BY <1>3, <1>6
<1> QED BY <1>3, <1>8, <1>9, <1>10 DEF u

(* The frames of message m, whole and in slices. *)
Whole(m, log) == <<Complete(m, log[m].number, log[m].size)>>
Sliced(m, log) == <<SliceHeader(m, log[m].number, log[m].size)>> \o Slices(m, log[m].size)

AllOf(P, m) == \A i \in 1..Len(P) : Carries(P[i]) => P[i].m = m
NotOpenAtEnd(P) == P # <<>> => ~Open(P[Len(P)])

(* The frames P of one send, of message m. *)
SendTrue(P, m, p, log) ==
  /\ Tidy(P, p, log) /\ P # <<>> /\ NotOpenAtEnd(P) /\ AllOf(P, m)
  /\ P[1].kind \in {"version", "complete", "sliceHeader"}
NoSlices(P) == \A i \in 1..Len(P) : P[i].kind \in {"version", "complete"}

LEMMA SlicesTidy ==
  ASSUME NEW p, NEW log \in Seq(Messages), NEW m \in DOMAIN log
  PROVE  LET P == Slices(m, log[m].size)
         IN  /\ Tidy(P, p, log) /\ P # <<>> /\ NotOpenAtEnd(P) /\ AllOf(P, m)
             /\ P[1].kind = "slice" /\ P[1].m = m /\ P[1].data = 0
<1> DEFINE z == log[m].size
           u == SliceUnits
           K == (z + u - 1) \div u
           P == Slices(m, z)
<1>0. u \in Nat \ {0} /\ z \in Nat \ {0}
  <2>1. m \in 1..Len(log) /\ Len(log) \in Nat BY LenProperties
  <2>2. log[m] \in Messages BY <2>1, ElementOfSeq
  <2> QED BY <2>2, ClientAssumption DEF Messages
<1>1. P = [k \in 1..K |-> SliceAt(m, z, (k - 1) * u)] BY DEF Slices
<1>2. \A o \in 0..(z - 1) : GoodFrame(SliceAt(m, z, o), p, log) BY DEF GoodFrame
<1>3. z = log[m].size OBVIOUS
<1> HIDE DEF z
<1>4. /\ K \in Nat /\ K >= 1 /\ (K - 1) * u < z /\ z <= K * u
      /\ \A k \in 1..K : /\ (k - 1) * u \in 0..(z - 1)
                         /\ k * u = (k - 1) * u + u
                         /\ k < K => k * u < z
  BY <1>0, SliceCount
<1> HIDE DEF K, u
<1>5. ASSUME NEW k \in 1..K
      PROVE  LET f == SliceAt(m, z, (k - 1) * u)
             IN  /\ f \in Frame /\ GoodFrame(f, p, log)
                 /\ f.kind = "slice" /\ f.m = m /\ f.data = (k - 1) * u
                 /\ f.last <=> (k = K)
                 /\ k < K => f.data + Len(f.units) = k * u
  <2> DEFINE o == (k - 1) * u
             f == SliceAt(m, z, o)
  <2>1. o \in 0..(z - 1) /\ k * u = o + u /\ (k < K => k * u < z) BY <1>4
  <2> HIDE DEF o
  <2>2. /\ f.kind = "slice" /\ f.m = m /\ f.data = o
        /\ Len(f.units) = SliceLength(z, o) /\ SliceTrue(f, z)
    BY <1>0, <2>1, SliceIs
  <2>3. GoodFrame(f, p, log) BY <1>2, <2>1
  <2>4. f \in Frame BY <2>3, FrameIs
  <2> HIDE DEF f
  <2>5. CASE k < K
    <3>1. Len(f.units) = u /\ o + u < z /\ o + u # z
      BY <1>0, <2>1, <2>2, <2>5 DEF SliceLength, u
    <3>2. ~f.last BY <2>2, <3>1 DEF SliceTrue
    <3>3. f.data + Len(f.units) = k * u /\ k # K BY <1>4, <2>1, <2>2, <2>5, <3>1
    <3> QED BY <2>2, <2>3, <2>4, <3>2, <3>3 DEF f, o
  <2>6. CASE k = K
    <3>1. z <= o + u BY <1>4, <2>1, <2>6
    <3>2. Len(f.units) = z - o BY <1>0, <2>1, <2>2, <3>1 DEF SliceLength, u
    <3>3. f.last BY <1>0, <2>1, <2>2, <3>2 DEF SliceTrue
    <3> QED BY <2>2, <2>3, <2>4, <2>6, <3>3 DEF f, o
  <2> QED BY <1>4, <2>5, <2>6
<1> HIDE DEF P
<1>6. ASSUME NEW k \in 1..K
      PROVE  /\ P[k] \in Frame /\ GoodFrame(P[k], p, log)
             /\ P[k].kind = "slice" /\ P[k].m = m /\ P[k].data = (k - 1) * u
             /\ P[k].last <=> (k = K)
             /\ k < K => P[k].data + Len(P[k].units) = k * u
  <2>1. P[k] = SliceAt(m, z, (k - 1) * u) BY <1>1
  <2> QED BY <1>5, <2>1
<1>7. P \in Seq(Frame) /\ Len(P) = K /\ P # <<>>
  <2>1. P = [k \in 1..K |-> P[k]] BY <1>1
  <2>2. P \in Seq(Frame) /\ Len(P) = K BY <1>4, <1>6, <2>1
  <2> QED BY <1>4, <2>2, EmptySeq
<1>8. ASSUME NEW i \in 1..(Len(P) - 1) PROVE Follows(P[i], P[i + 1])
  <2>1. i \in 1..K /\ i + 1 \in 1..K /\ i < K /\ (i + 1) - 1 = i /\ i # K BY <1>4, <1>7
  <2> QED BY <1>6, <2>1 DEF Follows, Open
<1>9. ASSUME NEW i \in 1..Len(P), NEW j \in 1..Len(P), i < j PROVE Precedes(P[i], P[j])
  <2>1. i \in 1..K /\ j \in 1..K /\ i # K BY <1>4, <1>7, <1>9
  <2> QED BY <1>6, <2>1 DEF Precedes, Ends
<1>10. Tidy(P, p, log) BY <1>6, <1>7, <1>8, <1>9 DEF Tidy
<1>11. NotOpenAtEnd(P)
  <2>1. K \in 1..K BY <1>4
  <2> QED BY <1>6, <1>7, <2>1 DEF NotOpenAtEnd, Open
<1>12. AllOf(P, m) BY <1>6, <1>7 DEF AllOf
<1>13. P[1].kind = "slice" /\ P[1].m = m /\ P[1].data = 0
  <2>1. 1 \in 1..K /\ (1 - 1) * u = 0 BY <1>0, <1>4 DEF u
  <2> QED BY <1>6, <2>1
<1> QED BY <1>7, <1>10, <1>11, <1>12, <1>13 DEF P, z

LEMMA WholeTidy ==
  ASSUME NEW p, NEW log \in Seq(Messages), NEW m \in DOMAIN log
  PROVE  SendTrue(Whole(m, log), m, p, log) /\ NoSlices(Whole(m, log))
<1> DEFINE f == Complete(m, log[m].number, log[m].size)
<1>1. GoodFrame(f, p, log) BY DEF GoodFrame
<1>2. f.kind = "complete" /\ f.m = m BY DEF Complete
<1>3. Whole(m, log) = <<f>> BY DEF Whole
<1> HIDE DEF f
<1>4. Tidy(<<f>>, p, log) /\ Len(<<f>>) = 1 /\ <<f>>[1] = f BY <1>1, TidyOne
<1>5. NotOpenAtEnd(<<f>>) /\ AllOf(<<f>>, m) BY <1>2, <1>4 DEF NotOpenAtEnd, AllOf, Open
<1>6. NoSlices(<<f>>) /\ <<f>>[1].kind = "complete" /\ <<f>> # <<>> BY <1>2, <1>4 DEF NoSlices
<1> QED BY <1>3, <1>4, <1>5, <1>6 DEF SendTrue

(* A frame before a sequence of frames. *)
LEMMA TidyBefore ==
  ASSUME NEW p, NEW log \in Seq(Messages), NEW m, NEW f, GoodFrame(f, p, log),
         NEW Q, Tidy(Q, p, log), Q # <<>>, NotOpenAtEnd(Q), AllOf(Q, m),
         Follows(f, Q[1]),
         f.kind = "version" \/ (f.kind = "sliceHeader" /\ f.m = m)
  PROVE  SendTrue(<<f>> \o Q, m, p, log) /\ (f.kind = "version" /\ NoSlices(Q) => NoSlices(<<f>> \o Q))
<1> DEFINE P == <<f>> \o Q
<1>1. Tidy(<<f>>, p, log) /\ Len(<<f>>) = 1 /\ <<f>>[1] = f BY TidyOne
<1>2. Tidy(P, p, log)
  <2>1. \A i \in 1..Len(<<f>>), j \in 1..Len(Q) : Precedes(<<f>>[i], Q[j])
    BY <1>1 DEF Precedes, AllOf, Ends, Carries
  <2>2. <<f>> # <<>> /\ Q # <<>> => Follows(<<f>>[Len(<<f>>)], Q[1]) BY <1>1
  <2> QED BY <1>1, <2>1, <2>2, TidyJoin
<1>3. /\ Len(P) = 1 + Len(Q) /\ Len(Q) \in Nat \ {0}
      /\ \A i \in 1..(1 + Len(Q)) : P[i] = IF i <= 1 THEN f ELSE Q[i - 1]
  <2>1. <<f>> \in Seq(Frame) /\ Q \in Seq(Frame) BY <1>1 DEF Tidy
  <2>2. Len(Q) \in Nat \ {0} BY <2>1, EmptySeq
  <2>3. /\ Len(P) = Len(<<f>>) + Len(Q)
        /\ \A i \in 1..(Len(<<f>>) + Len(Q)) :
             P[i] = IF i <= Len(<<f>>) THEN <<f>>[i] ELSE Q[i - Len(<<f>>)]
    BY <2>1, ConcatProperties
  <2>4. ASSUME NEW i \in 1..(1 + Len(Q)) PROVE P[i] = IF i <= 1 THEN f ELSE Q[i - 1]
    <3>1. P[i] = IF i <= 1 THEN <<f>>[i] ELSE Q[i - 1] BY <1>1, <2>3
    <3>2. i <= 1 => i = 1 BY <2>2
    <3> QED BY <1>1, <3>1, <3>2
  <2> QED BY <1>1, <2>2, <2>3, <2>4
<1> HIDE DEF P
<1>4. P # <<>> BY <1>3, EmptySeq
<1>5. P[Len(P)] = Q[Len(Q)] /\ P[1] = f
  <2>1. Len(P) \in 1..(1 + Len(Q)) /\ ~(Len(P) <= 1) /\ Len(P) - 1 = Len(Q) /\ 1 \in 1..(1 + Len(Q))
    BY <1>3
  <2> QED BY <1>3, <2>1
<1>6. NotOpenAtEnd(P) BY <1>5 DEF NotOpenAtEnd
<1>7. ASSUME NEW i \in 1..Len(P) PROVE P[i] = f \/ \E j \in 1..Len(Q) : P[i] = Q[j]
  <2>1. ~(i <= 1) => i - 1 \in 1..Len(Q) BY <1>3
  <2> QED BY <1>3, <2>1
<1>8. AllOf(P, m) BY <1>7 DEF AllOf, Carries
<1>9. f.kind = "version" /\ NoSlices(Q) => NoSlices(P) BY <1>7 DEF NoSlices
<1>10. P[1].kind \in {"version", "complete", "sliceHeader"} BY <1>5
<1>11. SendTrue(P, m, p, log) BY <1>2, <1>4, <1>6, <1>8, <1>10 DEF SendTrue
<1> QED BY <1>9, <1>11 DEF P

LEMMA SlicedTidy ==
  ASSUME NEW p, NEW log \in Seq(Messages), NEW m \in DOMAIN log
  PROVE  SendTrue(Sliced(m, log), m, p, log)
<1> DEFINE h == SliceHeader(m, log[m].number, log[m].size)
           Q == Slices(m, log[m].size)
<1>1. GoodFrame(h, p, log) BY DEF GoodFrame
<1>2. h.kind = "sliceHeader" /\ h.m = m BY DEF SliceHeader
<1>3. /\ Tidy(Q, p, log) /\ Q # <<>> /\ NotOpenAtEnd(Q) /\ AllOf(Q, m)
      /\ Q[1].kind = "slice" /\ Q[1].m = m /\ Q[1].data = 0
  BY SlicesTidy
<1>4. Sliced(m, log) = <<h>> \o Q BY DEF Sliced
<1> HIDE DEF h, Q
<1>5. Follows(h, Q[1]) BY <1>2, <1>3 DEF Follows, Open
<1> QED BY <1>1, <1>2, <1>3, <1>4, <1>5, TidyBefore

(* The table that a built program sends. *)
LEMMA OwnTable ==
  ASSUME NEW p, ProgramTrue(p, Statics[Sender]), p.built
  PROVE  GoodTable(TableOf(p), p)
<1> DEFINE counted == {n \in DOMAIN p.types : p.types[n] > Reserved}
           D == {p.types[n] : n \in counted}
           T == TableOf(p)
<1>1. T = [t \in D |-> CHOOSE n \in counted : p.types[n] = t] BY DEF TableOf
<1>2. p.types \in Partial(Name, Int) BY DEF ProgramTrue, Programs
<1>3. DOMAIN p.types \subseteq Name /\ \A n \in DOMAIN p.types : p.types[n] \in Int BY <1>2, PartialElim
<1> HIDE DEF T
<1>4. \A t \in D : T[t] \in counted /\ p.types[T[t]] = t BY <1>1
<1>5. T \in Tables
  <2>1. T \in [D -> Name \cup {Unnamed}]
    <3>1. \A t \in D : T[t] \in Name \cup {Unnamed} BY <1>3, <1>4
    <3>2. T = [t \in D |-> T[t]] BY <1>1
    <3> QED BY <3>1, <3>2
  <2>2. D \subseteq Int BY <1>3
  <2> HIDE DEF D
  <2> QED BY <2>1, <2>2 DEF Tables, Partial
<1>6. TrueTable(T, p)
  <2>1. DOMAIN T = D BY <1>1
  <2> QED BY <1>4, <2>1 DEF TrueTable
<1>7. ASSUME SenderCounts PROVE T # <<>>
  <2>1. PICK n \in Statics[Sender] : Specify[n] = -1 BY <1>7 DEF SenderCounts
  <2>2. n \in DOMAIN p.types /\ ~(p.types[n] <= Reserved)
    BY <2>1 DEF ProgramTrue, NumbersTrue
  <2>3. p.types[n] > Reserved BY <1>3, <2>2, FactoryAssumption
  <2>4. p.types[n] \in DOMAIN T BY <1>1, <2>2, <2>3
  <2> QED BY <2>4
<1> QED BY <1>5, <1>6, <1>7 DEF GoodTable, T

(* The frames of one send. *)
LEMMA VersionTidy ==
  ASSUME NEW p, ProgramTrue(p, Statics[Sender]), p.built,
         NEW log \in Seq(Messages), NEW m, NEW Q, SendTrue(Q, m, p, log)
  PROVE  /\ SendTrue(<<Version(p)>> \o Q, m, p, log)
         /\ NoSlices(Q) => NoSlices(<<Version(p)>> \o Q)
<1> DEFINE v == Version(p)
<1>1. GoodFrame(v, p, log)
  <2>1. GoodTable(TableOf(p), p) BY OwnTable
  <2>2. TableOf(p) \in Tables BY <2>1 DEF GoodTable
  <2>3. v = [kind |-> "version", table |-> TableOf(p)] BY DEF Version
  <2> QED BY <2>1, <2>2, <2>3 DEF GoodFrame
<1>2. v.kind = "version" BY DEF Version
<1> HIDE DEF v
<1>3. Follows(v, Q[1]) BY <1>2 DEF Follows, Open, SendTrue
<1>4. SendTrue(<<v>> \o Q, m, p, log) /\ (NoSlices(Q) => NoSlices(<<v>> \o Q))
  BY <1>1, <1>2, <1>3, TidyBefore DEF SendTrue
<1> QED BY <1>4 DEF v

----------------------------------------------------------------------------
(* What is on its way.                                                     *)

(* The frames the receiver has still to read, if the stream lives on, up   *)
(* to the first damage.                                                    *)
Pipe == IF broken THEN wire ELSE wire \o queue

SentTrue ==
  /\ sent \in Seq(Messages)
  /\ \A m \in DOMAIN sent : /\ sent[m].name \in DOMAIN program[Sender].types
                            /\ sent[m].number = program[Sender].types[sent[m].name]

LinkTrue ==
  /\ transport \in {"stream", "datagram"} /\ dead \in BOOLEAN
  /\ wire \in Seq(Frame) /\ queue \in Seq(Frame)
  /\ SentTrue
  /\ Tidy(Pipe, program[Sender], sent)
  /\ broken \in BOOLEAN /\ (~broken => spoilt = <<>>)
  /\ ~dead /\ ~broken => NotOpenAtEnd(Pipe)
  /\ \A f \in net : GoodFrame(f, program[Sender], sent)
  /\ transport = "datagram" => /\ wire = <<>> /\ ~dead /\ ~broken
                               /\ NoSlices(queue)

(* The first frame of a pipe is read. *)
LEMMA NextFrame ==
  ASSUME NEW p, NEW log, NEW P, Tidy(P, p, log), P # <<>>
  PROVE  /\ GoodFrame(P[1], p, log)
         /\ Tail(P) # <<>> => Follows(P[1], Tail(P)[1])
         /\ Tail(P) = <<>> => P[1] = P[Len(P)]
         /\ NotOpenAtEnd(P) => NotOpenAtEnd(Tail(P))
         /\ \A j \in 1..Len(Tail(P)) : /\ Precedes(P[1], Tail(P)[j])
                                       /\ j + 1 \in 1..Len(P) /\ Tail(P)[j] = P[j + 1]
<1>1. /\ Len(P) \in Nat \ {0}
      /\ Tail(P) \in Seq(Frame) /\ Len(Tail(P)) = Len(P) - 1
      /\ \A i \in 1 .. Len(Tail(P)) : Tail(P)[i] = P[i+1]
  BY EmptySeq, HeadTailProperties DEF Tidy
<1>2. Tail(P) # <<>> => Len(Tail(P)) # 0 BY <1>1, EmptySeq
<1>3. ASSUME NEW j \in 1..Len(Tail(P))
      PROVE  Precedes(P[1], Tail(P)[j]) /\ j + 1 \in 1..Len(P) /\ Tail(P)[j] = P[j + 1]
  <2>1. 1 \in 1..Len(P) /\ j + 1 \in 1..Len(P) /\ 1 < j + 1 BY <1>1
  <2> QED BY <1>1, <2>1 DEF Tidy
<1>4. Tail(P) # <<>> => Follows(P[1], Tail(P)[1])
  <2>1. Tail(P) # <<>> => 1 \in 1..(Len(P) - 1) /\ 1 \in 1..Len(Tail(P)) BY <1>1, <1>2
  <2> QED BY <1>1, <2>1 DEF Tidy
<1>5. Tail(P) = <<>> => P[1] = P[Len(P)]
  <2>1. Tail(P) = <<>> => Len(P) = 1
    <3> DEFINE T == Tail(P)
    <3>0. Len(<<>>) = 0 BY EmptySeq
    <3>1. T = <<>> => Len(T) = 0 BY <3>0, Zenon
    <3>2. Len(T) = Len(P) - 1 BY <1>1
    <3> HIDE DEF T
    <3> QED BY <1>1, <3>1, <3>2 DEF T
  <2> QED BY <2>1
<1>6. NotOpenAtEnd(P) => NotOpenAtEnd(Tail(P))
  <2>1. Tail(P) # <<>> => Len(Tail(P)) \in 1..Len(Tail(P)) /\ Len(Tail(P)) + 1 = Len(P)
    BY <1>1, <1>2
  <2> QED BY <1>3, <2>1 DEF NotOpenAtEnd
<1>7. GoodFrame(P[1], p, log)
  <2>1. 1 \in 1..Len(P) BY <1>1
  <2> QED BY <2>1 DEF Tidy
<1> QED BY <1>3, <1>4, <1>5, <1>6, <1>7

(* The pipe after each step that changes it. *)
LEMMA PipeWritten ==
  ASSUME LinkTrue, WriteFrame
  PROVE  Pipe' = Pipe /\ wire' \in Seq(Frame) /\ queue' \in Seq(Frame)
<1>1. /\ wire \in Seq(Frame) /\ queue \in Seq(Frame) /\ queue # <<>>
      /\ queue' = Tail(queue) /\ broken' = broken
  BY DEF LinkTrue, WriteFrame
<1>2. CASE broken
  <2>1. wire' = wire BY <1>2 DEF WriteFrame
  <2>2. queue' \in Seq(Frame) BY <1>1, HeadTailProperties
  <2> QED BY <1>1, <1>2, <2>1, <2>2 DEF Pipe
<1>3. CASE ~broken
  <2>1. wire' = Append(wire, Head(queue)) BY <1>3 DEF WriteFrame
  <2> QED BY <1>1, <1>3, <2>1, Written DEF Pipe
<1> QED BY <1>2, <1>3

LEMMA PipeRead ==
  ASSUME LinkTrue, wire # <<>>, wire' = Tail(wire), queue' = queue, broken' = broken
  PROVE  /\ Pipe # <<>> /\ Pipe' = Tail(Pipe) /\ Pipe[1] = Head(wire)
         /\ wire' \in Seq(Frame) /\ queue' \in Seq(Frame)
<1>1. wire \in Seq(Frame) /\ queue \in Seq(Frame) BY DEF LinkTrue
<1>2. CASE broken
  <2>1. Tail(wire) \in Seq(Frame) /\ Head(wire) = wire[1] BY <1>1, HeadTailProperties
  <2> QED BY <1>1, <1>2, <2>1 DEF Pipe
<1>3. CASE ~broken BY <1>1, <1>3, ReadOne DEF Pipe
<1> QED BY <1>2, <1>3

LEMMA PipeDatagram ==
  ASSUME LinkTrue, transport = "datagram"
  PROVE  Pipe = queue
BY ConcatEmptySeq DEF LinkTrue, Pipe

(* What is in the stream comes first. *)
LEMMA PipeWire ==
  ASSUME LinkTrue
  PROVE  /\ Len(wire) \in 0..Len(Pipe) /\ \A i \in 1..Len(wire) : Pipe[i] = wire[i]
         /\ Len(Pipe) \in Nat /\ Len(wire) \in Nat
         /\ wire # <<>> => Pipe # <<>>
<1>1. wire \in Seq(Frame) /\ queue \in Seq(Frame) BY DEF LinkTrue
<1>2. Len(wire) \in Nat /\ Len(queue) \in Nat /\ (wire # <<>> => Len(wire) # 0)
  BY <1>1, EmptySeq, LenProperties
<1>3. CASE broken BY <1>2, <1>3 DEF Pipe
<1>4. CASE ~broken
  <2>1. /\ Len(wire \o queue) = Len(wire) + Len(queue)
        /\ \A i \in 1 .. Len(wire) + Len(queue) :
             (wire \o queue)[i] = IF i <= Len(wire) THEN wire[i] ELSE queue[i - Len(wire)]
    BY <1>1, ConcatProperties
  <2>2. Pipe = wire \o queue BY <1>4 DEF Pipe
  <2>3. /\ Len(Pipe) = Len(wire) + Len(queue)
        /\ \A i \in 1 .. Len(wire) + Len(queue) :
             Pipe[i] = IF i <= Len(wire) THEN wire[i] ELSE queue[i - Len(wire)]
    BY <2>1, <2>2
  <2>4. \A i \in 1..Len(wire) : i \in 1 .. Len(wire) + Len(queue) /\ i <= Len(wire) BY <1>2
  <2>5. wire # <<>> => Pipe # <<>>
    <3>1. wire # <<>> => Len(Pipe) # 0 BY <1>2, <2>3
    <3> QED BY <3>1, EmptySeq
  <2> QED BY <1>2, <2>3, <2>4, <2>5
<1>5. broken \in BOOLEAN BY DEF LinkTrue
<1> QED BY <1>3, <1>4

LEMMA PipeEnds ==
  ASSUME LinkTrue, NEW k \in 0..Len(wire), wire' = SubSeq(wire, 1, k), queue' = <<>>
  PROVE  /\ wire' \in Seq(Frame) /\ queue' \in Seq(Frame)
         /\ Pipe' = wire' /\ Len(Pipe') = k /\ k \in 0..Len(Pipe)
         /\ \A i \in 1..k : Pipe'[i] = Pipe[i]
<1>1. wire \in Seq(Frame) /\ queue \in Seq(Frame) BY DEF LinkTrue
<1>2. /\ SubSeq(wire, 1, k) \in Seq(Frame) /\ Len(SubSeq(wire, 1, k)) = k
      /\ \A i \in 1..k : SubSeq(wire, 1, k)[i] = (wire \o queue)[i]
      /\ Len(wire) \in Nat /\ \A i \in 1..Len(wire) : (wire \o queue)[i] = wire[i]
  <2>1. Len(wire) \in Nat /\ Len(queue) \in Nat BY <1>1, LenProperties
  <2>2. \A i \in 1 .. Len(wire) + Len(queue) :
          (wire \o queue)[i] = IF i <= Len(wire) THEN wire[i] ELSE queue[i - Len(wire)]
    BY <1>1, ConcatProperties
  <2>3. \A i \in 1..Len(wire) : i \in 1 .. Len(wire) + Len(queue) /\ i <= Len(wire) BY <2>1
  <2> QED BY <1>1, <2>1, <2>2, <2>3, CutShort
<1>3. wire' \o queue' = wire' BY <1>2, ConcatEmptySeq
<1>4. Pipe' = wire' BY <1>3 DEF Pipe
<1>5. k \in 0..Len(Pipe) /\ \A i \in 1..k : i \in 1..Len(wire) /\ wire[i] = Pipe[i]
  BY <1>2, PipeWire
<1> QED BY <1>2, <1>4, <1>5, EmptySeq

(* A cancelled write: the frame and what would follow it are not written,  *)
(* a Cancel is if slices were to follow.  Or the stream is damaged.        *)
LEMMA PipeCancelled ==
  ASSUME LinkTrue, WriteCancelled,
         NEW p, NEW log \in Seq(Messages), Tidy(Pipe, p, log)
  PROVE  /\ Tidy(Pipe', p, log) /\ (~broken' => NotOpenAtEnd(Pipe')) /\ queue' \in Seq(Frame)
         /\ \A i \in 1..Len(Pipe') : Pipe'[i] = Cancel \/ (i \in 1..Len(wire) /\ Pipe'[i] = wire[i])
         /\ wire # <<>> => Pipe' # <<>> /\ Pipe'[1] = Pipe[1] /\ Pipe # <<>>
         /\ wire = <<>> /\ broken' => Pipe' = <<>>
         /\ wire = <<>> /\ ~broken' =>
              /\ Pipe # <<>> /\ Pipe[1] = Head(queue)
              /\ \/ Pipe' # <<>> /\ Pipe'[1] = Cancel
                 \/ Pipe' = <<>> /\ ~(Head(queue).kind \in {"slice", "sliceHeader", "cancel"})
<1> DEFINE h == Head(queue)
           after == AfterCancel(h)
<1>0. /\ wire \in Seq(Frame) /\ queue \in Seq(Frame) /\ queue # <<>>
      /\ wire' = wire /\ queue' = after /\ broken \in BOOLEAN /\ broken' \in BOOLEAN
      /\ ~broken' => ~broken /\ ~Closes(h)
  BY DEF LinkTrue, WriteCancelled
<1>0a. after = IF h.kind = "sliceHeader" \/ (h.kind = "slice" /\ ~h.last) THEN <<Cancel>> ELSE <<>>
  BY DEF AfterCancel
<1>0b. queue' \in Seq(Frame)
  <2>1. <<Cancel>> \in Seq(Frame) /\ <<>> \in Seq(Frame)
    <3>1. Cancel \in Frame BY DEF Frame
    <3> QED BY <3>1, EmptySeq
  <2> QED BY <1>0, <1>0a, <2>1
<1>0c. CASE broken'
  <2>1. Pipe' = wire BY <1>0, <1>0c DEF Pipe
  <2>2. Tidy(wire, p, log) BY <1>0, PipeWire, TidyPrefix
  <2>3. wire # <<>> => wire[1] = Pipe[1] /\ Pipe # <<>>
    <3>1. wire # <<>> => Len(wire) \in Nat \ {0} BY <1>0, EmptySeq
    <3>2. wire # <<>> => 1 \in 1..Len(wire) BY <3>1
    <3> QED BY <3>2, PipeWire
  <2> QED BY <1>0, <1>0b, <1>0c, <2>1, <2>2, <2>3
<1> SUFFICES ASSUME ~broken'
             PROVE  /\ Tidy(Pipe', p, log) /\ NotOpenAtEnd(Pipe')
                    /\ \A i \in 1..Len(Pipe') : Pipe'[i] = Cancel \/ (i \in 1..Len(wire) /\ Pipe'[i] = wire[i])
                    /\ wire # <<>> => Pipe' # <<>> /\ Pipe'[1] = Pipe[1] /\ Pipe # <<>>
                    /\ wire = <<>> =>
                         /\ Pipe # <<>> /\ Pipe[1] = h
                         /\ \/ Pipe' # <<>> /\ Pipe'[1] = Cancel
                            \/ Pipe' = <<>> /\ ~(h.kind \in {"slice", "sliceHeader", "cancel"})
  BY <1>0, <1>0b, <1>0c
<1>1. /\ wire \in Seq(Frame) /\ queue \in Seq(Frame) /\ queue # <<>>
      /\ wire' = wire /\ queue' = after /\ h.kind # "cancel"
      /\ ~(h.kind = "slice" /\ h.last) /\ Pipe = wire \o queue /\ Pipe' = wire' \o queue'
  BY <1>0 DEF Closes, Pipe
<1>2. /\ Len(wire) \in Nat /\ Len(queue) \in Nat \ {0} /\ h = queue[1]
      /\ wire # <<>> => Len(wire) # 0
  BY <1>1, EmptySeq, LenProperties
<1>3. /\ Len(Pipe) = Len(wire) + Len(queue)
      /\ \A i \in 1 .. Len(wire) + Len(queue) :
           Pipe[i] = IF i <= Len(wire) THEN wire[i] ELSE queue[i - Len(wire)]
  BY <1>1, ConcatProperties
<1> HIDE DEF h
<1> HIDE DEF after
<1>5. Tidy(wire, p, log)
  <2>1. Len(wire) <= Len(Pipe) /\ \A i \in 1..Len(wire) : wire[i] = Pipe[i] BY <1>2, <1>3
  <2> QED BY <1>1, <2>1, TidyPrefix
<1>6. ASSUME wire # <<>>
      PROVE  /\ Len(wire) # 0 /\ Follows(wire[Len(wire)], h) /\ Pipe[1] = wire[1] /\ Pipe # <<>>
  <2>1. Len(wire) # 0 /\ Len(wire) \in 1..(Len(Pipe) - 1) /\ Pipe[Len(wire)] = wire[Len(wire)]
    BY <1>2, <1>3, <1>6
  <2>2. Pipe[Len(wire) + 1] = h
    <3>1. Len(wire) + 1 \in 1 .. Len(wire) + Len(queue) /\ ~(Len(wire) + 1 <= Len(wire))
          /\ Len(wire) + 1 - Len(wire) = 1
      BY <1>2
    <3> QED BY <1>2, <1>3, <3>1
  <2>3. Follows(Pipe[Len(wire)], Pipe[Len(wire) + 1]) BY <2>1 DEF Tidy
  <2>4. Pipe[1] = wire[1] BY <1>2, <1>3, <2>1
  <2>5. Pipe # <<>> BY <1>1, <1>2, <1>6, ConcatEqualIffEmpty, EmptySeq
  <2> QED BY <2>1, <2>2, <2>3, <2>4, <2>5
<1>7. wire = <<>> => Pipe = queue BY <1>1, ConcatEmptySeq
<1>8. Cancel.kind = "cancel" BY DEF Cancel
<1>9. CASE after = <<>>
  <2>1. Pipe' = wire BY <1>1, <1>9, ConcatEmptySeq
  <2>2. ~(h.kind \in {"slice", "sliceHeader", "cancel"})
    <3>1. <<Cancel>> # <<>> OBVIOUS
    <3> QED BY <1>1, <1>0a, <1>9, <3>1
  <2>3. NotOpenAtEnd(wire) BY <1>6, <2>2 DEF NotOpenAtEnd, Follows
  <2> QED BY <1>1, <1>2, <1>5, <1>6, <1>7, <2>1, <2>2, <2>3
<1>10. CASE after = <<Cancel>>
  <2>1. Pipe' = wire \o <<Cancel>> BY <1>1, <1>10
  <2>2. Tidy(<<Cancel>>, p, log) /\ Len(<<Cancel>>) = 1 /\ <<Cancel>>[1] = Cancel
    <3>1. GoodFrame(Cancel, p, log) BY DEF GoodFrame
    <3> QED BY <3>1, TidyOne
  <2>3. <<Cancel>> \in Seq(Frame) BY <2>2 DEF Tidy
  <2>4. /\ Len(Pipe') = Len(wire) + 1 /\ Pipe' \in Seq(Frame)
        /\ \A i \in 1 .. Len(wire) + 1 : Pipe'[i] = IF i <= Len(wire) THEN wire[i] ELSE Cancel
    <3>1. /\ Pipe' \in Seq(Frame) /\ Len(Pipe') = Len(wire) + Len(<<Cancel>>)
          /\ \A i \in 1 .. Len(wire) + Len(<<Cancel>>) :
               Pipe'[i] = IF i <= Len(wire) THEN wire[i] ELSE <<Cancel>>[i - Len(wire)]
      BY <1>1, <2>1, <2>3, ConcatProperties
    <3>2. \A i \in 1 .. Len(wire) + 1 : ~(i <= Len(wire)) => i - Len(wire) = 1 BY <1>2
    <3> QED BY <2>2, <3>1, <3>2
  <2>5. Tidy(wire \o <<Cancel>>, p, log)
    <3>1. wire # <<>> /\ <<Cancel>> # <<>> => Follows(wire[Len(wire)], <<Cancel>>[1])
      BY <1>8, <2>2 DEF Follows
    <3>2. \A i \in 1..Len(wire), j \in 1..Len(<<Cancel>>) : Precedes(wire[i], <<Cancel>>[j])
      BY <1>8, <2>2 DEF Precedes, Carries
    <3> QED BY <1>5, <2>2, <3>1, <3>2, TidyJoin
  <2>6. Tidy(Pipe', p, log) BY <2>1, <2>5
  <2>7. NotOpenAtEnd(Pipe')
    <3>1. Pipe'[Len(Pipe')] = Cancel
      <4>1. Len(wire) + 1 \in 1 .. Len(wire) + 1 /\ ~(Len(wire) + 1 <= Len(wire)) BY <1>2
      <4> QED BY <2>4, <4>1
    <3> QED BY <1>8, <3>1 DEF NotOpenAtEnd, Open
  <2>8. \A i \in 1..Len(Pipe') : Pipe'[i] = Cancel \/ (i \in 1..Len(wire) /\ Pipe'[i] = wire[i])
    BY <1>2, <2>4
  <2>9. Pipe' # <<>>
    <3>1. Len(Pipe') # 0 BY <1>2, <2>4
    <3> QED BY <3>1, EmptySeq
  <2>10. wire # <<>> => Pipe'[1] = wire[1] BY <1>2, <2>4
  <2>11. wire = <<>> => Pipe'[1] = Cancel
    <3>1. wire = <<>> => Len(wire) = 0 BY EmptySeq
    <3> QED BY <2>4, <3>1
  <2> QED BY <1>1, <1>2, <1>6, <1>7, <1>10, <2>3, <2>6, <2>7, <2>8, <2>9, <2>10, <2>11
<1> QED BY <1>0a, <1>9, <1>10

(* Send. *)
LEMMA SendFrames ==
  ASSUME FactoriesTrue, LinkTrue, NEW n \in Name, NEW size \in Sizes,
         NEW slice \in BOOLEAN, NEW verify \in BOOLEAN, Send(n, size, slice, verify)
  PROVE  LET m == Len(sent) + 1
         IN  /\ SentTrue' /\ Extends(sent, sent')
             /\ m \in DOMAIN sent' /\ \A i \in DOMAIN sent : i < m
             /\ SendTrue(queue', m, program[Sender], sent')
             /\ transport = "datagram" => NoSlices(queue')
             /\ broken' = broken /\ broken \in BOOLEAN /\ (broken => Pipe' = Pipe)
             /\ ~broken => Pipe' = Pipe \o queue'
<1> DEFINE m == Len(sent) + 1
           p == program[Sender]
           log == sent'
           e == [name |-> n, number |-> Number(p, n), size |-> size]
<1>1. ProgramTrue(p, Statics[Sender]) /\ p.built
  BY DEF FactoriesTrue, Send, Ready, Side
<1>2. sent \in Seq(Messages) /\ Len(sent) \in Nat /\ DOMAIN sent = 1..Len(sent)
  BY LenProperties DEF LinkTrue, SentTrue
<1>3. n \in DOMAIN p.types /\ Number(p, n) = p.types[n] /\ p.types[n] \in Int
  <2>1. n \in DOMAIN p.types BY DEF Send
  <2>2. p.types \in Partial(Name, Int) BY <1>1 DEF ProgramTrue, Programs
  <2> QED BY <2>1, <2>2, PartialElim DEF Number
<1>4. e \in Messages /\ e.name = n /\ e.number = p.types[n] /\ e.size = size
  BY <1>3 DEF Messages
<1>5. log = Append(sent, e) BY DEF Send
<1> HIDE DEF e, log
<1>6. /\ log \in Seq(Messages) /\ Len(log) = m /\ m \in Nat
      /\ DOMAIN log = 1..m /\ log[m] = e /\ m \in DOMAIN log
      /\ \A i \in 1..Len(sent) : log[i] = sent[i]
  <2>1. /\ log \in Seq(Messages) /\ Len(log) = Len(sent) + 1
        /\ \A i \in 1 .. Len(sent) : log[i] = sent[i]
        /\ log[Len(sent) + 1] = e
    BY <1>2, <1>4, <1>5, AppendProperties
  <2>2. m \in Nat BY <1>2
  <2>3. DOMAIN log = 1..m BY <2>1, LenProperties
  <2> QED BY <2>1, <2>2, <2>3
<1>7. Extends(sent, log) /\ \A i \in DOMAIN sent : i < m BY <1>2, <1>6 DEF Extends
<1>8. program' = program BY DEF Send
<1>9. SentTrue'
  <2>1. ASSUME NEW i \in DOMAIN log
        PROVE  log[i].name \in DOMAIN p.types /\ log[i].number = p.types[log[i].name]
    <3>1. CASE i = m BY <1>3, <1>4, <1>6, <3>1
    <3>2. CASE i # m
      <4>1. i \in DOMAIN sent /\ log[i] = sent[i] BY <1>2, <1>6, <3>2
      <4> QED BY <4>1 DEF LinkTrue, SentTrue
    <3> QED BY <3>1, <3>2
  <2> QED BY <1>6, <1>8, <2>1 DEF SentTrue, log
<1> DEFINE B == IF slice THEN Sliced(m, log) ELSE Whole(m, log)
<1>9a. queue' = B \/ queue' = <<Version(p)>> \o B
  <2>1. queue' = Frames(m, n, size, slice, verify) BY DEF Send
  <2>2. log[m].number = Number(p, n) /\ log[m].size = size BY <1>3, <1>4, <1>6
  <2>3. queue' = (IF verify THEN <<Version(p)>> ELSE <<>>) \o B
    BY <2>1, <2>2 DEF Frames, Sliced, Whole
  <2>4. B \in Seq(Frame)
    <3>1. Sliced(m, log) \in Seq(Frame) /\ Whole(m, log) \in Seq(Frame)
      <4> HIDE DEF m, p
      <4> QED BY <1>6, SlicedTidy, WholeTidy DEF SendTrue, Tidy
    <3> QED BY <3>1
  <2>5. <<>> \o B = B BY <2>4, ConcatEmptySeq
  <2> HIDE DEF B
  <2> QED BY <2>3, <2>5
<1>10. SendTrue(queue', m, p, log)
  <2>1. SendTrue(B, m, p, log)
    <3>1. SendTrue(Sliced(m, log), m, p, log) /\ SendTrue(Whole(m, log), m, p, log)
      <4> HIDE DEF m, p
      <4> QED BY <1>6, SlicedTidy, WholeTidy
    <3> QED BY <3>1
  <2>2. SendTrue(<<Version(p)>> \o B, m, p, log)
    <3> HIDE DEF B, m, p
    <3> QED BY <1>1, <1>6, <2>1, VersionTidy
  <2> QED BY <1>9a, <2>1, <2>2
<1>11. transport = "datagram" => NoSlices(queue')
  <2>1. SendTrue(Whole(m, log), m, p, log) /\ NoSlices(Whole(m, log))
    <3> HIDE DEF m, p
    <3> QED BY <1>6, WholeTidy
  <2>2. NoSlices(<<Version(p)>> \o Whole(m, log))
    <3> HIDE DEF m, p
    <3> QED BY <1>1, <1>6, <2>1, VersionTidy
  <2>3. transport = "datagram" => B = Whole(m, log) BY DEF Send
  <2> QED BY <1>9a, <2>1, <2>2, <2>3
<1>13. /\ broken' = broken /\ broken \in BOOLEAN /\ (broken => Pipe' = Pipe)
       /\ ~broken => Pipe' = Pipe \o queue'
  <2>1. /\ wire \in Seq(Frame) /\ queue = <<>> /\ wire' = wire
        /\ broken' = broken /\ broken \in BOOLEAN
    BY DEF LinkTrue, Send, linkVars, damageVars
  <2> QED BY <2>1, ConcatEmptySeq DEF Pipe
<1> HIDE DEF B
<1> QED BY <1>6, <1>7, <1>9, <1>10, <1>11, <1>13 DEF log

(* The steps that leave sent, wire and queue as they are. *)
QuietLink ==
  /\ UNCHANGED <<sent, wire, queue, transport, dead, broken>>
  /\ ~broken => spoilt' = spoilt
  /\ net' \subseteq net

LEMMA SentStays ==
  ASSUME LinkTrue, FactoryKeeps, sent' = sent
  PROVE  /\ SentTrue' /\ Extends(sent, sent')
         /\ Tidy(Pipe, program[Sender]', sent')
         /\ \A f \in net : GoodFrame(f, program[Sender]', sent')
<1>1. Keeps(program[Sender], program[Sender]') BY DEF FactoryKeeps, Side
<1>2. Extends(sent, sent') BY DEF Extends
<1>3. SentTrue'
  <2>1. sent \in Seq(Messages) /\ \A m \in DOMAIN sent :
          /\ sent[m].name \in DOMAIN program[Sender].types
          /\ sent[m].number = program[Sender].types[sent[m].name]
    BY DEF LinkTrue, SentTrue
  <2> QED BY <1>1, <2>1 DEF SentTrue, Keeps
<1>4. Tidy(Pipe, program[Sender]', sent') BY <1>1, <1>2, TidyStays DEF LinkTrue
<1>5. \A f \in net : GoodFrame(f, program[Sender]', sent') BY <1>1, <1>2, FrameStays DEF LinkTrue
<1> QED BY <1>2, <1>3, <1>4, <1>5

LEMMA LinkStart == Init => LinkTrue
<1> SUFFICES ASSUME Init PROVE LinkTrue
  OBVIOUS
<1>1. /\ transport \in {"stream", "datagram"} /\ dead = FALSE /\ wire = <<>> /\ queue = <<>>
      /\ sent = <<>> /\ net = {} /\ broken = FALSE /\ spoilt = <<>>
  BY DEF Init
<1>2. /\ <<>> \in Seq(Frame) /\ <<>> \in Seq(Messages) /\ Len(<<>>) = 0 /\ DOMAIN <<>> = {}
  BY EmptySeq
<1>3. Pipe = <<>> BY <1>1, <1>2, ConcatEmptySeq DEF Pipe
<1>4. Tidy(Pipe, program[Sender], sent) /\ NotOpenAtEnd(Pipe)
  BY <1>3, TidyNone DEF NotOpenAtEnd
<1>5. NoSlices(queue) BY <1>1, <1>2 DEF NoSlices
<1> QED BY <1>1, <1>2, <1>4, <1>5 DEF LinkTrue, SentTrue

LEMMA LinkQuiet ==
  ASSUME LinkTrue, FactoryKeeps, QuietLink
  PROVE  LinkTrue'
<1>1. /\ SentTrue' /\ Tidy(Pipe, program[Sender]', sent')
      /\ \A f \in net : GoodFrame(f, program[Sender]', sent')
  BY SentStays DEF QuietLink
<1>2. Pipe' = Pipe BY DEF QuietLink, Pipe
<1>3. /\ transport' \in {"stream", "datagram"} /\ dead' \in BOOLEAN
      /\ wire' \in Seq(Frame) /\ queue' \in Seq(Frame)
  BY DEF QuietLink, LinkTrue
<1>4. /\ ~dead' /\ ~broken' => NotOpenAtEnd(Pipe')
      /\ broken' \in BOOLEAN /\ (~broken' => spoilt' = <<>>)
  BY <1>2 DEF LinkTrue, QuietLink
<1>5. \A f \in net' : GoodFrame(f, program[Sender]', sent') BY <1>1 DEF QuietLink
<1>6. transport' = "datagram" => /\ wire' = <<>> /\ ~dead' /\ ~broken'
                                 /\ NoSlices(queue')
  BY DEF QuietLink, LinkTrue
<1> QED BY <1>1, <1>2, <1>3, <1>4, <1>5, <1>6 DEF LinkTrue

(* A recv takes a frame that was written before any damage, or one behind  *)
(* it.                                                                     *)
Takes == ReadCancel \/ ReadVersion \/ ReadComplete \/ ReadSliceHeader \/ ReadSlice
Reading == wire # <<>> /\ Takes
ReadingSpoilt == wire = <<>> /\ Takes

LEMMA ReadingIs ==
  ASSUME Reading
  PROVE  /\ \E kind : Reads(kind)
         /\ transport = "stream" /\ transport' = "stream" /\ dead' = dead /\ net' = net
         /\ wire # <<>> /\ wire' = Tail(wire) /\ queue' = queue /\ sent' = sent
         /\ whole' = whole /\ program' = program /\ Ready
         /\ broken' = broken /\ spoilt' = spoilt /\ Incoming = Head(wire) /\ Sound
BY DEF Reading, Takes, ReadCancel, ReadVersion, ReadComplete, ReadSliceHeader, ReadSlice, Reads,
       sendVars, Incoming, Sound

(* Nothing is read behind a damage that is not there. *)
LEMMA SpoiltIs ==
  ASSUME LinkTrue, NEW kind, Reads(kind), wire = <<>>
  PROVE  /\ broken /\ broken' = broken /\ ~Sound /\ QuietLink /\ whole' = whole
         /\ transport = "stream"
<1>1. spoilt # <<>> BY DEF Reads, Readable
<1>2. broken BY <1>1 DEF LinkTrue
<1> QED BY <1>2 DEF Reads, QuietLink, sendVars, Sound

LEMMA ReadingSpoiltIs ==
  ASSUME LinkTrue, ReadingSpoilt
  PROVE  /\ broken /\ broken' = broken /\ ~Sound /\ QuietLink /\ whole' = whole
         /\ transport = "stream"
<1>1. \E kind : Reads(kind)
  BY DEF ReadingSpoilt, Takes, ReadCancel, ReadVersion, ReadComplete, ReadSliceHeader, ReadSlice
<1>2. wire = <<>> BY DEF ReadingSpoilt
<1> QED BY <1>1, <1>2, SpoiltIs

(* The middle of a frame is behind a damage. *)
LEMMA ReadMiddleIs ==
  ASSUME LinkTrue, ReadMiddle
  PROVE  /\ broken /\ broken' = broken /\ ~Sound /\ QuietLink /\ whole' = whole
         /\ transport = "stream"
<1>1. Reads("middle") BY DEF ReadMiddle
<1>2. wire = <<>>
  <2> SUFFICES ASSUME wire # <<>> PROVE FALSE
    OBVIOUS
  <2>1. Head(wire).kind = "middle" BY <1>1 DEF Reads, Incoming
  <2>2. wire \in Seq(Frame) BY DEF LinkTrue
  <2>3. Len(wire) \in Nat \ {0} /\ Head(wire) = wire[1] BY <2>2, EmptySeq
  <2>4. 1 \in 1..Len(wire) BY <2>3
  <2>5. Pipe # <<>> /\ Pipe[1] = Head(wire) BY <2>3, <2>4, PipeWire
  <2>6. GoodFrame(Head(wire), program[Sender], sent) BY <2>5, NextFrame DEF LinkTrue
  <2>7. FrameTrue(Head(wire), program[Sender], sent) BY <2>6, FrameIs DEF LinkTrue, SentTrue
  <2> QED BY <2>1, <2>7 DEF FrameTrue
<1> QED BY <1>1, <1>2, SpoiltIs

LEMMA LinkStep ==
  ASSUME FactoriesTrue, LinkTrue, [Next]_vars
  PROVE  LinkTrue'
<1>0. FactoryKeeps BY FactoriesStep
<1>1. ASSUME NEW n \in Name, NEW size \in Sizes, NEW slice \in BOOLEAN, NEW verify \in BOOLEAN,
             Send(n, size, slice, verify)
      PROVE  LinkTrue'
  <2> DEFINE m == Len(sent) + 1
  <2>1. /\ SentTrue' /\ Extends(sent, sent')
        /\ m \in DOMAIN sent' /\ \A i \in DOMAIN sent : i < m
        /\ SendTrue(queue', m, program[Sender], sent')
        /\ transport = "datagram" => NoSlices(queue')
        /\ broken' = broken /\ broken \in BOOLEAN /\ (broken => Pipe' = Pipe)
        /\ ~broken => Pipe' = Pipe \o queue'
    BY <1>1, SendFrames
  <2>1a. /\ Tidy(queue', program[Sender], sent') /\ queue' # <<>>
         /\ NotOpenAtEnd(queue') /\ AllOf(queue', m)
         /\ queue'[1].kind \in {"version", "complete", "sliceHeader"}
    BY <2>1 DEF SendTrue
  <2>2. /\ program' = program /\ transport' = transport /\ wire' = wire /\ net' = net
        /\ dead' = dead /\ ~dead /\ spoilt' = spoilt
    BY <1>1 DEF Send, linkVars, damageVars
  <2>3. Keeps(program[Sender], program[Sender]) BY DEF Keeps
  <2>4. Tidy(Pipe, program[Sender], sent') BY <2>1, <2>1a, <2>3, TidyStays DEF LinkTrue
  <2>5. \A f \in net : GoodFrame(f, program[Sender], sent') BY <2>1, <2>1a, <2>3, FrameStays DEF LinkTrue
  <2> HIDE DEF m
  <2>6. ASSUME ~broken PROVE Tidy(Pipe', program[Sender], sent')
    <3>1. Pipe # <<>> /\ queue' # <<>> => Follows(Pipe[Len(Pipe)], queue'[1])
      BY <2>1, <2>1a, <2>2, <2>6 DEF LinkTrue, NotOpenAtEnd, Follows
    <3>2. ASSUME NEW i \in 1..Len(Pipe), NEW j \in 1..Len(queue')
          PROVE  Precedes(Pipe[i], queue'[j])
      <4>1. GoodFrame(Pipe[i], program[Sender], sent) BY DEF LinkTrue, Tidy
      <4>2. Carries(Pipe[i]) => Pipe[i].m \in DOMAIN sent
        BY <4>1, FrameIs DEF FrameTrue, LinkTrue, SentTrue
      <4>3. Carries(queue'[j]) => queue'[j].m = m BY <2>1a DEF AllOf
      <4> QED BY <2>1, <4>2, <4>3 DEF Precedes
    <3> QED BY <2>1, <2>1a, <2>4, <2>6, <3>1, <3>2, TidyJoin
  <2>6a. Tidy(Pipe', program[Sender], sent') BY <2>1, <2>4, <2>6
  <2>7. ASSUME ~broken PROVE NotOpenAtEnd(Pipe')
    <3>1. Pipe \in Seq(Frame) /\ queue' \in Seq(Frame) BY <2>1, <2>1a, <2>4 DEF Tidy
    <3>2. Len(queue') \in Nat \ {0} /\ Len(Pipe) \in Nat BY <2>1, <2>1a, <3>1, EmptySeq, LenProperties
    <3>3. /\ Len(Pipe') = Len(Pipe) + Len(queue')
          /\ \A i \in 1 .. Len(Pipe) + Len(queue') :
               Pipe'[i] = IF i <= Len(Pipe) THEN Pipe[i] ELSE queue'[i - Len(Pipe)]
      BY <2>1, <2>1a, <2>7, <3>1, ConcatProperties
    <3>4. Len(Pipe') \in 1 .. Len(Pipe) + Len(queue') /\ ~(Len(Pipe') <= Len(Pipe))
          /\ Len(Pipe') - Len(Pipe) = Len(queue')
      BY <3>2, <3>3
    <3>5. Pipe'[Len(Pipe')] = queue'[Len(queue')] BY <3>3, <3>4
    <3> QED BY <2>1, <2>1a, <3>5 DEF NotOpenAtEnd
  <2>8. queue' \in Seq(Frame) BY <2>1a DEF Tidy
  <2>9. transport = "datagram" => wire = <<>> /\ ~broken BY DEF LinkTrue
  <2>10. /\ transport \in {"stream", "datagram"} /\ dead \in BOOLEAN /\ wire \in Seq(Frame)
         /\ (~broken => spoilt = <<>>)
    BY DEF LinkTrue
  <2> QED BY <2>1, <2>1a, <2>2, <2>5, <2>6a, <2>7, <2>8, <2>9, <2>10 DEF LinkTrue
<1>2. CASE WriteFrame
  <2>1. /\ sent' = sent /\ transport' = transport /\ transport = "stream" /\ net' = net
        /\ dead' = dead /\ broken' = broken /\ (~broken => spoilt' = spoilt)
    BY <1>2 DEF WriteFrame
  <2>2. Pipe' = Pipe /\ wire' \in Seq(Frame) /\ queue' \in Seq(Frame) BY <1>2, PipeWritten
  <2>3. /\ SentTrue' /\ Tidy(Pipe, program[Sender]', sent')
        /\ \A f \in net : GoodFrame(f, program[Sender]', sent')
    BY <1>0, <2>1, SentStays
  <2>4. ~dead' /\ ~broken' => NotOpenAtEnd(Pipe') BY <2>1, <2>2 DEF LinkTrue
  <2>5. dead \in BOOLEAN /\ broken \in BOOLEAN /\ (~broken => spoilt = <<>>) BY DEF LinkTrue
  <2> QED BY <2>1, <2>2, <2>3, <2>4, <2>5 DEF LinkTrue
<1>3. CASE WriteCancelled
  <2>1. /\ sent' = sent /\ transport' = transport /\ transport = "stream" /\ net' = net
        /\ dead' = dead /\ wire' = wire /\ broken' \in BOOLEAN
        /\ (~broken' => ~broken /\ spoilt' = spoilt)
    BY <1>3 DEF WriteCancelled, LinkTrue
  <2>2. /\ SentTrue' /\ Tidy(Pipe, program[Sender]', sent')
        /\ \A f \in net : GoodFrame(f, program[Sender]', sent')
    BY <1>0, <2>1, SentStays
  <2>3. sent' \in Seq(Messages) BY <2>2 DEF SentTrue
  <2>4. /\ Tidy(Pipe', program[Sender]', sent') /\ (~broken' => NotOpenAtEnd(Pipe'))
        /\ queue' \in Seq(Frame)
    BY <1>3, <2>2, <2>3, PipeCancelled
  <2>5. dead \in BOOLEAN /\ wire \in Seq(Frame) /\ (~broken => spoilt = <<>>) BY DEF LinkTrue
  <2> QED BY <2>1, <2>2, <2>4, <2>5 DEF LinkTrue
<1>4. CASE StreamEnds
  <2>1. /\ sent' = sent /\ transport' = transport /\ transport = "stream" /\ net' = net
        /\ dead' = TRUE /\ queue' = <<>> /\ broken' = broken
    BY <1>4 DEF StreamEnds
  <2>2. PICK k \in 0..Len(wire) : wire' = SubSeq(wire, 1, k) BY <1>4 DEF StreamEnds
  <2>3. /\ SentTrue' /\ Tidy(Pipe, program[Sender]', sent')
        /\ \A f \in net : GoodFrame(f, program[Sender]', sent')
    BY <1>0, <2>1, SentStays
  <2>4. /\ wire' \in Seq(Frame) /\ queue' \in Seq(Frame)
        /\ Pipe' = wire' /\ Len(Pipe') = k /\ k \in 0..Len(Pipe)
        /\ \A i \in 1..k : Pipe'[i] = Pipe[i]
    BY <2>1, <2>2, PipeEnds
  <2>5. Tidy(Pipe', program[Sender]', sent')
    <3>1. Pipe' \in Seq(Frame) /\ Len(Pipe') <= Len(Pipe) BY <2>4
    <3> QED BY <2>3, <2>4, <3>1, TidyPrefix
  <2>6. broken \in BOOLEAN /\ (~broken => spoilt' = <<>>)
    <3>1. broken \in BOOLEAN /\ (~broken => spoilt = <<>>) BY DEF LinkTrue
    <3>2. PICK x \in 0..Len(spoilt) : spoilt' = SubSeq(spoilt, 1, x) BY <1>4 DEF StreamEnds
    <3>3. ASSUME ~broken PROVE spoilt' = <<>>
      <4>1. Len(<<>>) = 0 /\ SubSeq(<<>>, 1, 0) = <<>> BY EmptySeq
      <4> QED BY <3>1, <3>2, <3>3, <4>1
    <3> QED BY <3>1, <3>3
  <2> QED BY <2>1, <2>3, <2>4, <2>5, <2>6 DEF LinkTrue
<1>5. CASE Reading
  <2>1. /\ wire # <<>> /\ wire' = Tail(wire) /\ queue' = queue /\ sent' = sent
        /\ transport' = transport /\ transport = "stream" /\ dead' = dead /\ net' = net
        /\ broken' = broken /\ spoilt' = spoilt
    BY <1>5, ReadingIs
  <2>2. /\ Pipe # <<>> /\ Pipe' = Tail(Pipe) /\ wire' \in Seq(Frame) /\ queue' \in Seq(Frame)
    BY <2>1, PipeRead
  <2>3. /\ SentTrue' /\ Tidy(Pipe, program[Sender]', sent')
        /\ \A f \in net : GoodFrame(f, program[Sender]', sent')
    BY <1>0, <2>1, SentStays
  <2>4. Tidy(Pipe', program[Sender]', sent') /\ (NotOpenAtEnd(Pipe) => NotOpenAtEnd(Pipe'))
    BY <2>2, <2>3, TidyTail, NextFrame
  <2>5. /\ dead \in BOOLEAN /\ broken \in BOOLEAN /\ (~broken => spoilt = <<>>)
        /\ (~dead /\ ~broken => NotOpenAtEnd(Pipe))
    BY DEF LinkTrue
  <2> QED BY <2>1, <2>2, <2>3, <2>4, <2>5 DEF LinkTrue
<1>6. CASE SendDatagram
  <2>1. /\ transport = "datagram" /\ queue # <<>> /\ queue' = Tail(queue) /\ wire' = wire
        /\ sent' = sent /\ transport' = transport /\ dead' = dead
        /\ net' \subseteq net \cup {Head(queue)} /\ broken' = broken /\ spoilt' = spoilt
    BY <1>6 DEF SendDatagram, damageVars
  <2>2. /\ SentTrue' /\ Tidy(Pipe, program[Sender]', sent')
        /\ \A f \in net : GoodFrame(f, program[Sender]', sent')
    BY <1>0, <2>1, SentStays
  <2>3. Pipe = queue /\ wire = <<>> /\ ~dead /\ queue \in Seq(Frame) /\ wire \in Seq(Frame)
        /\ NoSlices(queue) /\ ~broken /\ spoilt = <<>>
    BY <2>1, PipeDatagram DEF LinkTrue
  <2>4. /\ Tail(queue) \in Seq(Frame)
        /\ Head(queue) = queue[1]
    BY <2>1, <2>3, HeadTailProperties
  <2>5. Pipe' = Tail(Pipe) /\ Pipe # <<>>
    <3>1. <<>> \o Tail(queue) = Tail(queue) BY <2>4, ConcatEmptySeq
    <3> QED BY <2>1, <2>3, <3>1 DEF Pipe
  <2>6. /\ Tidy(Pipe', program[Sender]', sent') /\ (NotOpenAtEnd(Pipe) => NotOpenAtEnd(Pipe'))
        /\ GoodFrame(Head(queue), program[Sender]', sent')
    BY <2>2, <2>3, <2>4, <2>5, TidyTail, NextFrame
  <2>7. ~dead => NotOpenAtEnd(Pipe) BY <2>3 DEF LinkTrue
  <2>8. NoSlices(queue')
    <3>1. \A j \in 1..Len(Tail(queue)) : j + 1 \in 1..Len(queue) /\ Tail(queue)[j] = queue[j + 1]
      BY <2>1, <2>2, <2>3, NextFrame
    <3> QED BY <2>1, <2>3, <3>1 DEF NoSlices
  <2>9. \A f \in net' : GoodFrame(f, program[Sender]', sent') BY <2>1, <2>2, <2>6
  <2> QED BY <2>1, <2>2, <2>3, <2>4, <2>6, <2>7, <2>8, <2>9 DEF LinkTrue
<1>7. CASE SetStreamClient
  <2>1. /\ sent' = sent /\ transport' = transport /\ transport = "stream" /\ net' = net
        /\ dead' = FALSE /\ wire' = <<>> /\ queue' = <<>> /\ broken' = FALSE /\ spoilt' = <<>>
    BY <1>7 DEF SetStreamClient
  <2>2. /\ SentTrue' /\ \A f \in net : GoodFrame(f, program[Sender]', sent')
    BY <1>0, <2>1, SentStays
  <2>3. <<>> \in Seq(Frame) BY EmptySeq
  <2>4. Pipe' = <<>> BY <2>1, <2>3, ConcatEmptySeq DEF Pipe
  <2>5. Tidy(Pipe', program[Sender]', sent') /\ NotOpenAtEnd(Pipe')
    BY <2>4, TidyNone DEF NotOpenAtEnd
  <2> QED BY <2>1, <2>2, <2>3, <2>5 DEF LinkTrue
<1>8. ASSUME NEW s \in Side, NEW n \in Name, InitStatic(s, n) \/ RegistDynamic(s, n)
      PROVE  LinkTrue'
  <2>1. QuietLink
    BY <1>8 DEF InitStatic, RegistDynamic, QuietLink, sendVars, linkVars, damageVars
  <2> QED BY <1>0, <2>1, LinkQuiet
<1>9. CASE StopRecv
  <2>1. QuietLink BY <1>9 DEF StopRecv, QuietLink, sendVars, linkVars, damageVars
  <2> QED BY <1>0, <2>1, LinkQuiet
<1>10. ASSUME NEW d \in net, RecvVersionDatagram(d) \/ RecvDatagram(d) \/ RecvTruncated(d)
       PROVE  LinkTrue'
  <2>1. QuietLink
    BY <1>10 DEF RecvVersionDatagram, RecvDatagram, RecvTruncated, AroundDatagram, Delivered,
                 Datagram, QuietLink, sendVars, linkVars, damageVars
  <2> QED BY <1>0, <2>1, LinkQuiet
<1>11. CASE UNCHANGED vars
  <2>1. QuietLink BY <1>11 DEF vars, QuietLink, sendVars, linkVars, damageVars
  <2> QED BY <1>0, <2>1, LinkQuiet
<1>12. ASSUME NEW s \in Side, Build(s) PROVE LinkTrue'
  <2>1. QuietLink BY <1>12 DEF Build, QuietLink, sendVars, linkVars, damageVars
  <2> QED BY <1>0, <2>1, LinkQuiet
<1>13. CASE ReadingSpoilt BY <1>0, <1>13, ReadingSpoiltIs, LinkQuiet
<1>14. CASE ReadMiddle BY <1>0, <1>14, ReadMiddleIs, LinkQuiet
<1> QED BY <1>1, <1>2, <1>3, <1>4, <1>5, <1>6, <1>7, <1>8, <1>9, <1>10, <1>11, <1>12, <1>13, <1>14
  DEF Next, Reading, ReadingSpoilt, Takes

(* The steps that change what is on its way, and the others. *)
Sends ==
  \E n \in Name, size \in Sizes, slice, verify \in BOOLEAN : Send(n, size, slice, verify)

LEMMA LinkMoves ==
  ASSUME LinkTrue, [Next]_vars
  PROVE  \/ Sends \/ WriteFrame \/ WriteCancelled \/ StreamEnds \/ SendDatagram
         \/ Reading \/ SetStreamClient \/ QuietLink
<1>1. ASSUME NEW s \in Side, NEW n \in Name, InitStatic(s, n) \/ RegistDynamic(s, n)
      PROVE  QuietLink
  BY <1>1 DEF InitStatic, RegistDynamic, QuietLink, sendVars, linkVars, damageVars
<1>2. ASSUME NEW s \in Side, Build(s) PROVE QuietLink
  BY <1>2 DEF Build, QuietLink, sendVars, linkVars, damageVars
<1>3. CASE StopRecv BY <1>3 DEF StopRecv, QuietLink, sendVars, linkVars, damageVars
<1>4. ASSUME NEW d \in net, RecvVersionDatagram(d) \/ RecvDatagram(d) \/ RecvTruncated(d)
      PROVE  QuietLink
  BY <1>4 DEF RecvVersionDatagram, RecvDatagram, RecvTruncated, AroundDatagram, Delivered,
              QuietLink, sendVars, linkVars, damageVars
<1>5. CASE UNCHANGED vars BY <1>5 DEF vars, QuietLink, sendVars, linkVars, damageVars
<1>6. CASE ReadingSpoilt \/ ReadMiddle BY <1>6, ReadingSpoiltIs, ReadMiddleIs
<1> QED BY <1>1, <1>2, <1>3, <1>4, <1>5, <1>6 DEF Next, Reading, ReadingSpoilt, Takes, Sends

----------------------------------------------------------------------------
(* What the receiver keeps between frames.                                 *)

Units == Nat \X Nat

(* The table of the receiver came from the sender. *)
TableTrue ==
  /\ told \in BOOLEAN
  /\ told => GoodTable(mProtocolTable, program[Sender])

(* What _finishMessage does. *)
NameOf(t) == IF t \in DOMAIN mProtocolTable THEN mProtocolTable[t] ELSE Unnamed
Known(n, data, frame) ==
  [raw |-> FALSE, name |-> n, data |-> data, told |-> told,
   sliced |-> frame.kind = "slice", sound |-> Sound]
Raw(n, data, frame) ==
  [raw |-> TRUE, name |-> n, data |-> data, told |-> told,
   sliced |-> frame.kind = "slice", sound |-> Sound]

LEMMA FinishIs ==
  ASSUME NEW proto, NEW frame, NEW buffer, Finish(proto, frame, buffer)
  PROVE  /\ mMessage' = NoProto
         /\ mBuffer' = buffer \/ mBuffer' = <<>>
         /\ \/ mProtocolTable' = mProtocolTable
            \/ mProtocolTable' = Insert(mProtocolTable, frame.data, Unnamed)
         /\ \/ proto # NoProto /\ received' = Append(received, Known(proto, buffer, frame))
            \/ proto = NoProto /\ received' = received
            \/ /\ proto = NoProto
               /\ received' = Append(received, Raw(NameOf(frame.data), buffer, frame))
<1>1. CASE proto # NoProto BY <1>1 DEF Finish, Known
<1>2. CASE proto = NoProto BY <1>2 DEF Finish, Raw, NameOf
<1> QED BY <1>1, <1>2

(* The frame that is read. *)
LEMMA ReadFrame ==
  ASSUME LinkTrue, Reading
  PROVE  /\ Pipe # <<>> /\ Pipe' = Tail(Pipe) /\ Pipe[1] = Incoming
         /\ FrameTrue(Incoming, program[Sender], sent)
         /\ Carries(Incoming) =>
              sent[Incoming.m].number \in Int /\ sent[Incoming.m].size \in Nat \ {0}
<1>1. wire # <<>> /\ wire' = Tail(wire) /\ queue' = queue /\ broken' = broken /\ Incoming = Head(wire)
  BY ReadingIs
<1>2. Pipe # <<>> /\ Pipe' = Tail(Pipe) /\ Pipe[1] = Incoming BY <1>1, PipeRead
<1>3. GoodFrame(Incoming, program[Sender], sent) BY <1>2, NextFrame DEF LinkTrue
<1>4. FrameTrue(Incoming, program[Sender], sent) BY <1>3, FrameIs DEF LinkTrue, SentTrue
<1>5. ASSUME NEW m \in DOMAIN sent PROVE sent[m].number \in Int /\ sent[m].size \in Nat \ {0}
  <2>1. sent \in Seq(Messages) BY DEF LinkTrue, SentTrue
  <2>2. m \in 1..Len(sent) BY <2>1, LenProperties
  <2>3. sent[m] \in Messages BY <2>1, <2>2, ElementOfSeq
  <2> QED BY <2>3, ClientAssumption DEF Messages
<1> QED BY <1>2, <1>4, <1>5 DEF FrameTrue

LEMMA NetFrame ==
  ASSUME LinkTrue, NEW d \in net
  PROVE  /\ FrameTrue(d, program[Sender], sent)
         /\ Carries(d) => sent[d.m].number \in Int /\ sent[d.m].size \in Nat \ {0}
<1>1. FrameTrue(d, program[Sender], sent) BY FrameIs DEF LinkTrue, SentTrue
<1>2. ASSUME NEW m \in DOMAIN sent PROVE sent[m].number \in Int /\ sent[m].size \in Nat \ {0}
  <2>1. sent \in Seq(Messages) BY DEF LinkTrue, SentTrue
  <2>2. m \in 1..Len(sent) BY <2>1, LenProperties
  <2>3. sent[m] \in Messages BY <2>1, <2>2, ElementOfSeq
  <2> QED BY <2>3, ClientAssumption DEF Messages
<1> QED BY <1>1, <1>2 DEF FrameTrue

LEMMA TableStart == Init => TableTrue
BY DEF Init, TableTrue

LEMMA TableKept ==
  ASSUME TableTrue, FactoryKeeps, mProtocolTable' = mProtocolTable,
         told' = told \/ told' = FALSE
  PROVE  TableTrue'
<1>1. Keeps(program[Sender], program[Sender]') BY DEF FactoryKeeps, Side
<1>2. told' \in BOOLEAN /\ (told' => told)
  <2>1. told \in BOOLEAN BY DEF TableTrue
  <2>2. CASE told' = told BY <2>1, <2>2
  <2>3. CASE told' = FALSE BY <2>3
  <2> QED BY <2>2, <2>3
<1>3. ASSUME told' PROVE GoodTable(mProtocolTable, program[Sender]')
  <2>1. GoodTable(mProtocolTable, program[Sender]) BY <1>2, <1>3 DEF TableTrue
  <2> QED BY <1>1, <2>1, TableStays DEF GoodTable
<1> QED BY <1>2, <1>3 DEF TableTrue

LEMMA TableSynced ==
  ASSUME FactoryKeeps, NEW T, GoodTable(T, program[Sender]), mProtocolTable' = T, told' = TRUE
  PROVE  TableTrue'
<1>1. Keeps(program[Sender], program[Sender]') BY DEF FactoryKeeps, Side
<1>2. TrueTable(T, program[Sender]') BY <1>1, TableStays DEF GoodTable
<1> QED BY <1>2 DEF TableTrue, GoodTable

LEMMA TableFinished ==
  ASSUME TableTrue, FactoryKeeps, NEW t \in Int, told' = told,
         \/ mProtocolTable' = mProtocolTable
         \/ mProtocolTable' = Insert(mProtocolTable, t, Unnamed)
  PROVE  TableTrue'
<1>1. CASE mProtocolTable' = mProtocolTable BY <1>1, TableKept
<1>2. CASE told /\ mProtocolTable' = Insert(mProtocolTable, t, Unnamed)
  <2> DEFINE T == Insert(mProtocolTable, t, Unnamed)
  <2>0. GoodTable(mProtocolTable, program[Sender]) BY <1>2 DEF TableTrue
  <2>1. T \in Tables
    <3>1. mProtocolTable \in Partial(Int, Name \cup {Unnamed}) BY <2>0 DEF GoodTable, Tables
    <3> QED BY <3>1, PartialInsert, Zenon DEF Tables
  <2>2. /\ DOMAIN T = DOMAIN mProtocolTable \cup {t}
        /\ \A x \in DOMAIN T : T[x] = IF x \in DOMAIN mProtocolTable THEN mProtocolTable[x] ELSE Unnamed
    BY DEF Insert
  <2> HIDE DEF T
  <2>3. Keeps(program[Sender], program[Sender]') BY DEF FactoryKeeps, Side
  <2>4. TrueTable(mProtocolTable, program[Sender]') BY <2>0, <2>3, TableStays DEF GoodTable
  <2>5. TrueTable(T, program[Sender]') BY <2>2, <2>4 DEF TrueTable
  <2>6. T # <<>> BY <2>2
  <2>7. mProtocolTable' = T BY <1>2 DEF T
  <2>8. GoodTable(mProtocolTable', program[Sender]') BY <2>1, <2>5, <2>6, <2>7 DEF GoodTable
  <2> QED BY <1>2, <2>8 DEF TableTrue
<1>3. CASE ~told BY <1>3 DEF TableTrue
<1> QED BY <1>1, <1>2, <1>3

(* Before a step that leaves the receiver before the damage, it was before *)
(* it, unless the stream is a new one.                                     *)
LEMMA SoundBefore ==
  ASSUME LinkTrue, [Next]_vars, Sound'
  PROVE  SetStreamClient \/ (Sound /\ ~ReadingSpoilt /\ ~ReadMiddle)
<1> SUFFICES ASSUME ~SetStreamClient PROVE Sound
  BY ReadingSpoiltIs, ReadMiddleIs
<1> SUFFICES ASSUME broken, wire = <<>> PROVE ~Sound'
  BY DEF Sound, LinkTrue
<1>1. ASSUME broken', wire' = <<>> PROVE ~Sound' BY <1>1 DEF Sound
<1>2. ASSUME NEW n \in Name, NEW size \in Sizes, NEW slice \in BOOLEAN, NEW verify \in BOOLEAN,
             Send(n, size, slice, verify)
      PROVE  ~Sound'
  BY <1>1, <1>2 DEF Send, linkVars, damageVars
<1>3. CASE WriteFrame BY <1>1, <1>3 DEF WriteFrame
<1>4. CASE WriteCancelled BY <1>1, <1>4 DEF WriteCancelled
<1>5. CASE StreamEnds
  <2>1. PICK k \in 0..Len(wire) : wire' = SubSeq(wire, 1, k) BY <1>5 DEF StreamEnds
  <2>2. wire' = <<>> BY <2>1, EmptySeq
  <2> QED BY <1>1, <1>5, <2>2 DEF StreamEnds
<1>6. CASE QuietLink BY <1>1, <1>6 DEF QuietLink
<1>7. ~Reading BY DEF Reading
<1>8. ~SendDatagram BY DEF SendDatagram, LinkTrue
<1> QED BY <1>2, <1>3, <1>4, <1>5, <1>6, <1>7, <1>8, LinkMoves DEF Sends

LEMMA TableStep ==
  ASSUME FactoriesTrue, LinkTrue, Sound => TableTrue, [Next]_vars, Sound'
  PROVE  TableTrue'
<1>0. FactoryKeeps BY FactoriesStep
<1>a. CASE SetStreamClient BY <1>a DEF SetStreamClient, TableTrue
<1> SUFFICES ASSUME ~SetStreamClient, TableTrue, ~ReadingSpoilt, ~ReadMiddle PROVE TableTrue'
  BY <1>a, SoundBefore
<1>b. Takes => Reading BY DEF Reading, ReadingSpoilt
<1> DEFINE f == Incoming
<1>1. CASE ReadVersion
  <2>1. FrameTrue(f, program[Sender], sent) /\ f.kind = "version"
    BY <1>1, <1>b, ReadFrame DEF Takes, ReadVersion, Reads
  <2>2. mProtocolTable' = f.table /\ told' = TRUE BY <1>1 DEF ReadVersion, SyncProtocolTable
  <2> HIDE DEF f
  <2> QED BY <1>0, <2>1, <2>2, TableSynced DEF FrameTrue
<1>2. CASE ReadComplete
  <2>1. FrameTrue(f, program[Sender], sent) /\ f.kind = "complete"
        /\ (Carries(f) => sent[f.m].number \in Int)
    BY <1>2, <1>b, ReadFrame DEF Takes, ReadComplete, Reads
  <2>2. Finish(CreateProto(f.data), f, f.units) /\ told' = told BY <1>2 DEF ReadComplete
  <2>3. f.data \in Int BY <2>1 DEF FrameTrue, Carries
  <2> HIDE DEF f
  <2> QED BY <1>0, <2>2, <2>3, FinishIs, TableFinished
<1>3. CASE ReadSlice
  <2>1. FrameTrue(f, program[Sender], sent) /\ f.kind = "slice"
    BY <1>3, <1>b, ReadFrame DEF Takes, ReadSlice, Reads
  <2>2. \/ Finish(mMessage, f, Filled(mBuffer, f))
        \/ mProtocolTable' = mProtocolTable
    BY <1>3 DEF ReadSlice
  <2>3. f.data \in Int /\ told' = told BY <1>3, <2>1 DEF FrameTrue, SliceTrue, ReadSlice
  <2> HIDE DEF f
  <2> QED BY <1>0, <2>2, <2>3, FinishIs, TableFinished
<1>4. ASSUME NEW d \in net, RecvVersionDatagram(d) PROVE TableTrue'
  <2>1. FrameTrue(d, program[Sender], sent) /\ d.kind = "version"
    BY <1>4, NetFrame DEF RecvVersionDatagram, Datagram
  <2>2. mProtocolTable' = d.table /\ told' = TRUE
    BY <1>4 DEF RecvVersionDatagram, SyncProtocolTable
  <2> QED BY <1>0, <2>1, <2>2, TableSynced DEF FrameTrue
<1>5. ASSUME NEW d \in net, RecvDatagram(d) PROVE TableTrue'
  <2>1. FrameTrue(d, program[Sender], sent) /\ d.kind = "complete"
        /\ (Carries(d) => sent[d.m].number \in Int)
    BY <1>5, NetFrame DEF RecvDatagram, Datagram
  <2>2. Finish(CreateProto(d.data), d, d.units) /\ told' = told BY <1>5 DEF RecvDatagram
  <2>3. d.data \in Int BY <2>1 DEF FrameTrue, Carries
  <2> QED BY <1>0, <2>2, <2>3, FinishIs, TableFinished
<1>6. CASE mProtocolTable' = mProtocolTable /\ (told' = told \/ told' = FALSE)
  BY <1>0, <1>6, TableKept
<1> QED BY <1>1, <1>2, <1>3, <1>4, <1>5, <1>6
  DEF Next, vars, recvVars, Build, InitStatic, RegistDynamic, Send, WriteFrame, WriteCancelled,
      StreamEnds, SendDatagram, ReadCancel, ReadSliceHeader, StopRecv, RecvTruncated

(* The buffer and the count agree with the frame that is read next: a      *)
(* slice finds the payload up to its offset.                               *)
Agrees(f, buffer, count, log) ==
  /\ f.kind \in {"complete", "version", "sliceHeader"} => count = 0
  /\ f.kind = "slice" => /\ count = f.data /\ Len(buffer) = log[f.m].size
                         /\ \A i \in 1..f.data : buffer[i] = <<f.m, i>>

BufferTrue ==
  /\ mBuffer \in Seq(Units)
  /\ mSliceSizeCount \in 0..Len(mBuffer)
  /\ transport = "datagram" => mSliceSizeCount = 0
  /\ Pipe # <<>> => Agrees(Pipe[1], mBuffer, mSliceSizeCount, sent)
  /\ ~dead /\ Pipe = <<>> => mSliceSizeCount = 0

LEMMA UnitsTrue ==
  ASSUME NEW m \in Nat, NEW o \in Nat, NEW z \in Nat
  PROVE  [i \in 1..z |-> <<m, o + i>>] \in Seq(Units)
BY DEF Units

LEMMA FrameUnits ==
  ASSUME NEW p, NEW log \in Seq(Messages), NEW f, FrameTrue(f, p, log)
  PROVE  /\ Carries(f) => f.m \in Nat /\ log[f.m].size \in Nat \ {0}
         /\ f.kind = "complete" => /\ f.units \in Seq(Units)
                                   /\ f.units = [i \in 1..log[f.m].size |-> <<f.m, i>>]
         /\ f.kind = "slice" => f.units \in Seq(Units)
<1>1. ASSUME Carries(f) PROVE f.m \in Nat /\ log[f.m].size \in Nat \ {0}
  <2>1. f.m \in 1..Len(log) /\ Len(log) \in Nat BY <1>1, LenProperties DEF FrameTrue
  <2>2. log[f.m] \in Messages BY <2>1, ElementOfSeq
  <2>3. \A e \in Messages : e.size \in Nat \ {0} BY ClientAssumption DEF Messages
  <2>4. f.m \in Nat BY <2>1
  <2> QED BY <2>2, <2>3, <2>4
<1>2. ASSUME f.kind = "complete"
      PROVE  f.units \in Seq(Units) /\ f.units = [i \in 1..log[f.m].size |-> <<f.m, i>>]
  <2> DEFINE z == log[f.m].size
             m == f.m
  <2>1. f.units = [i \in 1..z |-> <<m, i>>] BY <1>2 DEF FrameTrue
  <2>2. m \in Nat /\ z \in Nat BY <1>1, <1>2 DEF Carries
  <2> HIDE DEF m, z
  <2>3. [i \in 1..z |-> <<m, i>>] \in Seq(Units) BY <2>2 DEF Units
  <2> QED BY <2>1, <2>3 DEF m, z
<1>3. ASSUME f.kind = "slice" PROVE f.units \in Seq(Units)
  <2> DEFINE n == Len(f.units)
             m == f.m
             o == f.data
  <2>1. m \in Nat /\ log[m].size \in Nat \ {0} BY <1>1, <1>3 DEF Carries
  <2>2. SliceTrue(f, log[m].size) BY <1>3 DEF FrameTrue
  <2>3. o \in Nat /\ n \in Nat /\ f.units = [i \in 1..n |-> <<m, o + i>>]
    BY <2>1, <2>2 DEF SliceTrue
  <2> HIDE DEF n, m, o
  <2> QED BY <2>1, <2>3, UnitsTrue
<1> QED BY <1>1, <1>2, <1>3

LEMMA ResizedIs ==
  ASSUME NEW buffer \in Seq(Units), NEW n \in Nat
  PROVE  Resized(buffer, n) \in Seq(Units) /\ Len(Resized(buffer, n)) = n
<1> DEFINE r == Resized(buffer, n)
<1>1. r = [i \in 1..n |-> IF i <= Len(buffer) THEN buffer[i] ELSE NoUnit] BY DEF Resized
<1>2. Len(buffer) \in Nat /\ NoUnit \in Units BY LenProperties DEF NoUnit, Units
<1>3. \A i \in 1..n : (IF i <= Len(buffer) THEN buffer[i] ELSE NoUnit) \in Units
  <2> TAKE i \in 1..n
  <2>1. i <= Len(buffer) => i \in 1..Len(buffer) BY <1>2
  <2> QED BY <1>2, <2>1, ElementOfSeq
<1> HIDE DEF r
<1>4. \A i \in 1..n : r[i] \in Units BY <1>1, <1>3
<1>5. r = [i \in 1..n |-> r[i]] BY <1>1
<1>6. r \in Seq(Units) /\ Len(r) = n BY <1>4, <1>5
<1> QED BY <1>6 DEF r

(* The copy of a slice into the buffer. *)
LEMMA FilledIs ==
  ASSUME NEW buffer \in Seq(Units), NEW f, NEW z \in Nat \ {0}, SliceTrue(f, z), f.m \in Nat,
         Len(buffer) = z, \A i \in 1..f.data : buffer[i] = <<f.m, i>>
  PROVE  LET b == Filled(buffer, f)
         IN  /\ b \in Seq(Units) /\ Len(b) = z
             /\ \A i \in 1..(f.data + Len(f.units)) : b[i] = <<f.m, i>>
             /\ f.last => b = [i \in 1..z |-> <<f.m, i>>]
<1> DEFINE b == Filled(buffer, f)
           o == f.data
           n == Len(f.units)
           m == f.m
<1>1. /\ o \in 0..(z - 1) /\ n \in 1..(z - o)
      /\ f.units = [i \in 1..n |-> <<m, o + i>>]
      /\ f.last <=> (o + n = z)
  BY DEF SliceTrue
<1>2. DOMAIN buffer = 1..z BY LenProperties
<1>3. b = [i \in 1..z |-> IF i - o \in DOMAIN f.units THEN f.units[i - o] ELSE buffer[i]]
  BY <1>2 DEF Filled
<1>3a. o \in Int /\ n \in Int /\ m \in Nat BY <1>1
<1>3b. \A i \in 1..o : buffer[i] = <<m, i>> OBVIOUS
<1> HIDE DEF n, b, o, m
<1>4. DOMAIN f.units = 1..n /\ \A i \in 1..n : f.units[i] = <<m, o + i>> BY <1>1
<1>5. ASSUME NEW i \in 1..z, i - o \in 1..n PROVE b[i] = <<m, i>>
  <2>1. o + (i - o) = i BY <1>3a
  <2>2. f.units[i - o] = <<m, i>> BY <1>4, <1>5, <2>1
  <2> QED BY <1>3, <1>4, <1>5, <2>2
<1>6. ASSUME NEW i \in 1..z, i - o \notin 1..n PROVE b[i] = buffer[i] BY <1>3, <1>4, <1>6
<1>7. ASSUME NEW i \in 1..(o + n) PROVE b[i] = <<m, i>>
  <2>1. i \in 1..z BY <1>1, <1>3a
  <2>2. CASE i - o \in 1..n BY <1>5, <2>1, <2>2
  <2>3. CASE i - o \notin 1..n
    <3>1. i \in 1..o BY <1>1, <1>3a, <2>3
    <3> QED BY <1>3b, <1>6, <2>1, <2>3, <3>1
  <2> QED BY <2>2, <2>3
<1>8. ASSUME NEW i \in 1..z PROVE b[i] \in Units
  <2>1. CASE i - o \in 1..n
    <3>1. <<m, i>> \in Units BY <1>3a DEF Units
    <3> QED BY <1>5, <2>1, <3>1
  <2>2. CASE i - o \notin 1..n
    <3>1. buffer[i] \in Units BY ElementOfSeq
    <3> QED BY <1>6, <2>2, <3>1
  <2> QED BY <2>1, <2>2
<1>9. b = [i \in 1..z |-> b[i]] BY <1>3
<1>10. b \in Seq(Units) /\ Len(b) = z BY <1>8, <1>9
<1>11. ASSUME f.last PROVE b = [i \in 1..z |-> <<m, i>>]
  <2>1. o + n = z BY <1>1, <1>11
  <2> QED BY <1>7, <1>9, <2>1
<1> QED BY <1>7, <1>10, <1>11 DEF b, o, n, m

LEMMA BufferStart == Init => BufferTrue
<1> SUFFICES ASSUME Init PROVE BufferTrue
  OBVIOUS
<1>1. mBuffer = <<>> /\ mSliceSizeCount = 0 /\ wire = <<>> /\ queue = <<>> BY DEF Init
<1>2. <<>> \in Seq(Units) /\ Len(<<>>) = 0 /\ <<>> \in Seq(Frame) BY EmptySeq
<1>3. Pipe = <<>> BY <1>1, <1>2, ConcatEmptySeq DEF Pipe
<1> QED BY <1>1, <1>2, <1>3 DEF BufferTrue

(* Steps that leave the buffer and the count. *)
SameBuffer == UNCHANGED <<mBuffer, mSliceSizeCount, transport>>

LEMMA BufferKept ==
  ASSUME BufferTrue, SameBuffer,
         Pipe' # <<>> => Agrees(Pipe'[1], mBuffer, mSliceSizeCount, sent'),
         ~dead' /\ Pipe' = <<>> => mSliceSizeCount = 0
  PROVE  BufferTrue'
BY DEF BufferTrue, SameBuffer

(* After a frame that ends what it belongs to. *)
LEMMA ClosedAgrees ==
  ASSUME LinkTrue, Reading, ~Open(Incoming), mSliceSizeCount' = 0, mBuffer' \in Seq(Units)
  PROVE  BufferTrue'
<1>1. Pipe # <<>> /\ Pipe' = Tail(Pipe) /\ Pipe[1] = Incoming BY ReadFrame
<1>2. Pipe' # <<>> => Follows(Incoming, Pipe'[1]) BY <1>1, NextFrame DEF LinkTrue
<1>3. Pipe' # <<>> => Agrees(Pipe'[1], mBuffer', mSliceSizeCount', sent')
  BY <1>2 DEF Follows, Agrees
<1>4. Len(mBuffer') \in Nat BY LenProperties
<1>5. mSliceSizeCount' \in 0..Len(mBuffer') BY <1>4
<1> QED BY <1>3, <1>5 DEF BufferTrue

(* After a header or a slice that is not the last: the next one is there,  *)
(* or a Cancel, or the stream has ended.                                   *)
LEMMA OpenAgrees ==
  ASSUME LinkTrue, Reading, Sound', Open(Incoming), mBuffer' \in Seq(Units),
         mSliceSizeCount' \in 0..Len(mBuffer'),
         NEW o, o = (IF Incoming.kind = "slice" THEN Incoming.data + Len(Incoming.units) ELSE 0),
         mSliceSizeCount' = o, Len(mBuffer') = sent[Incoming.m].size,
         \A i \in 1..o : mBuffer'[i] = <<Incoming.m, i>>
  PROVE  BufferTrue'
<1> DEFINE f == Incoming
<1>1. Pipe # <<>> /\ Pipe' = Tail(Pipe) /\ Pipe[1] = f BY ReadFrame
<1>2. /\ Pipe' # <<>> => Follows(f, Pipe'[1])
      /\ Pipe' = <<>> => Pipe[1] = Pipe[Len(Pipe)]
  <2>1. Tidy(Pipe, program[Sender], sent) BY DEF LinkTrue
  <2>2. /\ Tail(Pipe) # <<>> => Follows(Pipe[1], Tail(Pipe)[1])
        /\ Tail(Pipe) = <<>> => Pipe[1] = Pipe[Len(Pipe)]
    BY <1>1, <2>1, NextFrame
  <2> QED BY <1>1, <2>2
<1>3. /\ transport = "stream" /\ transport' = "stream" /\ dead' = dead /\ sent' = sent
      /\ broken' = broken
  BY ReadingIs
<1> HIDE DEF f
<1>4. ~dead' => Pipe' # <<>>
  <2> SUFFICES ASSUME ~dead, Pipe' = <<>> PROVE FALSE
    BY <1>3
  <2>0. ~broken BY <1>3 DEF Sound, Pipe
  <2>1. ~Open(Pipe[Len(Pipe)]) BY <1>1, <2>0 DEF LinkTrue, NotOpenAtEnd
  <2> QED BY <1>1, <1>2, <2>1 DEF f
<1>5. ASSUME Pipe' # <<>> PROVE Agrees(Pipe'[1], mBuffer', mSliceSizeCount', sent')
  <2>1. CASE Pipe'[1].kind = "slice"
    <3>1. Pipe'[1].m = f.m /\ Pipe'[1].data = o BY <1>2, <1>5, <2>1 DEF Follows, f
    <3> QED BY <1>3, <2>1, <3>1 DEF Agrees, f
  <2>2. CASE Pipe'[1].kind # "slice"
    <3>1. Pipe'[1].kind = "cancel" BY <1>2, <1>5, <2>2 DEF Follows, f
    <3> QED BY <3>1 DEF Agrees
  <2> QED BY <2>1, <2>2
<1> QED BY <1>3, <1>4, <1>5 DEF BufferTrue

LEMMA BufferRead ==
  ASSUME LinkTrue, BufferTrue, Reading, Sound'
  PROVE  BufferTrue'
<1> DEFINE f == Incoming
<1>1. /\ Pipe # <<>> /\ Pipe[1] = f /\ FrameTrue(f, program[Sender], sent) BY ReadFrame
<1>2. Agrees(f, mBuffer, mSliceSizeCount, sent) BY <1>1 DEF BufferTrue
<1>3. sent \in Seq(Messages) BY DEF LinkTrue, SentTrue
<1>4. <<>> \in Seq(Units) BY EmptySeq
<1>5. mBuffer \in Seq(Units) /\ Len(mBuffer) \in Nat BY LenProperties DEF BufferTrue
<1>6. CASE ReadCancel
  <2>1. f.kind = "cancel" /\ mBuffer' = <<>> /\ mSliceSizeCount' = 0
    BY <1>6 DEF ReadCancel, Reads
  <2> QED BY <1>4, <2>1, ClosedAgrees DEF Open
<1>7. CASE ReadVersion
  <2>1. f.kind = "version" /\ mBuffer' = <<NoUnit>> /\ mSliceSizeCount' = mSliceSizeCount
    BY <1>7 DEF ReadVersion, Reads
  <2>2. mSliceSizeCount' = 0 BY <1>2, <2>1 DEF Agrees
  <2>3. <<NoUnit>> \in Seq(Units)
    <3>1. NoUnit \in Units BY DEF NoUnit, Units
    <3> QED BY <3>1
  <2> QED BY <2>1, <2>2, <2>3, ClosedAgrees DEF Open
<1>8. CASE ReadComplete
  <2>1. f.kind = "complete" /\ mSliceSizeCount' = mSliceSizeCount
        /\ Finish(CreateProto(f.data), f, f.units)
    BY <1>8 DEF ReadComplete, Reads
  <2>2. mSliceSizeCount' = 0 BY <1>2, <2>1 DEF Agrees
  <2>3. f.units \in Seq(Units) BY <1>1, <1>3, <2>1, FrameUnits
  <2>4. mBuffer' \in Seq(Units)
    <3> HIDE DEF f
    <3> QED BY <1>4, <2>1, <2>3, FinishIs
  <2> QED BY <2>1, <2>2, <2>4, ClosedAgrees DEF Open
<1>9. CASE ReadSliceHeader
  <2>1. /\ f.kind = "sliceHeader" /\ mSliceSizeCount' = mSliceSizeCount
        /\ mBuffer' = Resized(mBuffer, f.length)
    BY <1>9 DEF ReadSliceHeader, Reads
  <2>2. mSliceSizeCount' = 0 BY <1>2, <2>1 DEF Agrees
  <2>3. f.length = sent[f.m].size /\ sent[f.m].size \in Nat
    BY <1>1, <1>3, <2>1, FrameUnits DEF FrameTrue, Carries
  <2>4. mBuffer' \in Seq(Units) /\ Len(mBuffer') = sent[f.m].size BY <1>5, <2>1, <2>3, ResizedIs
  <2>5. Open(f) /\ f.kind # "slice" BY <2>1 DEF Open
  <2>6. mSliceSizeCount' \in 0..Len(mBuffer') BY <2>2, <2>3, <2>4
  <2>7. \A i \in 1..0 : mBuffer'[i] = <<f.m, i>> OBVIOUS
  <2> QED BY <2>2, <2>4, <2>5, <2>6, <2>7, OpenAgrees
<1>10. CASE ReadSlice
  <2> DEFINE b == Filled(mBuffer, f)
             n == Len(f.units)
             count == mSliceSizeCount + n
             z == sent[f.m].size
             o == f.data
  <2>1. f.kind = "slice" BY <1>10 DEF ReadSlice, Reads
  <2>2. /\ mSliceSizeCount = o /\ Len(mBuffer) = z
        /\ \A i \in 1..o : mBuffer[i] = <<f.m, i>>
    BY <1>2, <2>1 DEF Agrees
  <2>3. SliceTrue(f, z) /\ f.m \in Nat /\ z \in Nat \ {0}
    BY <1>1, <1>3, <2>1, FrameUnits DEF FrameTrue, Carries
  <2>4. /\ o \in 0..(z - 1) /\ n \in 1..(z - o) /\ (f.last <=> (o + n = z)) BY <2>3 DEF SliceTrue
  <2>5. /\ b \in Seq(Units) /\ Len(b) = z
        /\ \A i \in 1..(o + n) : b[i] = <<f.m, i>>
    BY <1>5, <2>2, <2>3, FilledIs
  <2>6. \/ count = z /\ mSliceSizeCount' = 0 /\ Finish(mMessage, f, b)
        \/ count # z /\ mSliceSizeCount' = count /\ mBuffer' = b
    <3>1. \/ count = Len(b) /\ mSliceSizeCount' = 0 /\ Finish(mMessage, f, b)
          \/ count # Len(b) /\ mSliceSizeCount' = count /\ mBuffer' = b
      <4> HIDE DEF Filled
      <4> QED BY <1>10 DEF ReadSlice
    <3> QED BY <2>5, <3>1
  <2> HIDE DEF b, n, z, o
  <2>7. count = o + n BY <2>2
  <2>8. CASE count = z
    <3>1. mSliceSizeCount' = 0 /\ Finish(mMessage, f, b) BY <2>6, <2>8
    <3>2. ~Open(f) BY <2>1, <2>4, <2>7, <2>8 DEF Open
    <3>3. mBuffer' \in Seq(Units)
      <4> HIDE DEF f
      <4> QED BY <1>4, <2>5, <3>1, FinishIs
    <3> QED BY <3>1, <3>2, <3>3, ClosedAgrees
  <2>9. CASE count # z
    <3>1. mSliceSizeCount' = o + n /\ mBuffer' = b BY <2>6, <2>7, <2>9
    <3>2. Open(f) BY <2>1, <2>4, <2>7, <2>9 DEF Open
    <3>3. mBuffer' \in Seq(Units) /\ Len(mBuffer') = sent[f.m].size BY <2>5, <3>1 DEF z
    <3>4. mSliceSizeCount' \in 0..Len(mBuffer') BY <2>3, <2>4, <2>5, <3>1
    <3>5. o + n = (IF f.kind = "slice" THEN f.data + Len(f.units) ELSE 0) BY <2>1 DEF o, n
    <3>6. \A i \in 1..(o + n) : mBuffer'[i] = <<f.m, i>> BY <2>5, <3>1
    <3> QED BY <3>1, <3>2, <3>3, <3>4, <3>5, <3>6, OpenAgrees
  <2> QED BY <2>8, <2>9
<1> QED BY <1>6, <1>7, <1>8, <1>9, <1>10 DEF Reading, Takes

LEMMA BufferStep ==
  ASSUME FactoriesTrue, LinkTrue, Sound => BufferTrue, [Next]_vars, Sound'
  PROVE  BufferTrue'
<1>7. CASE SetStreamClient
  <2>1. /\ mBuffer' = <<>> /\ mSliceSizeCount' = 0 /\ wire' = <<>> /\ queue' = <<>>
    BY <1>7 DEF SetStreamClient, ResetBuffers
  <2>2. <<>> \in Seq(Frame) /\ <<>> \in Seq(Units) /\ Len(<<>>) = 0 BY EmptySeq
  <2>3. Pipe' = <<>> BY <2>1, <2>2, ConcatEmptySeq DEF Pipe
  <2> QED BY <2>1, <2>2, <2>3 DEF BufferTrue
<1> SUFFICES ASSUME ~SetStreamClient, Sound, BufferTrue, ~ReadingSpoilt, ~ReadMiddle
             PROVE  BufferTrue'
  BY <1>7, SoundBefore
<1>1. ASSUME NEW n \in Name, NEW size \in Sizes, NEW slice \in BOOLEAN, NEW verify \in BOOLEAN,
             Send(n, size, slice, verify)
      PROVE  BufferTrue'
  <2> DEFINE m == Len(sent) + 1
  <2>1. /\ Extends(sent, sent') /\ SendTrue(queue', m, program[Sender], sent')
        /\ broken' = broken /\ broken \in BOOLEAN /\ (broken => Pipe' = Pipe)
        /\ ~broken => Pipe' = Pipe \o queue'
    BY <1>1, SendFrames
  <2>2. SameBuffer /\ ~dead /\ dead' = dead
    BY <1>1 DEF Send, SameBuffer, linkVars, recvVars, bufferVars
  <2>3. Pipe \in Seq(Frame) /\ queue' \in Seq(Frame) /\ queue' # <<>>
    BY <2>1 DEF LinkTrue, Tidy, SendTrue
  <2>4. Len(Pipe) \in Nat /\ Len(queue') \in Nat \ {0} /\ (Pipe # <<>> => Len(Pipe) # 0)
    BY <2>3, EmptySeq, LenProperties
  <2>5. ASSUME ~broken
        PROVE  /\ Pipe' # <<>>
               /\ \A i \in 1 .. Len(Pipe) + Len(queue') :
                    Pipe'[i] = IF i <= Len(Pipe) THEN Pipe[i] ELSE queue'[i - Len(Pipe)]
    BY <2>1, <2>3, <2>5, ConcatProperties, ConcatEqualIffEmpty
  <2>7. CASE Pipe # <<>>
    <3>1. Pipe'[1] = Pipe[1] /\ Pipe' # <<>>
      <4>1. CASE broken BY <2>1, <2>7, <4>1
      <4>2. CASE ~broken BY <2>4, <2>5, <2>7, <4>2
      <4> QED BY <2>1, <4>1, <4>2
    <3>2. Agrees(Pipe[1], mBuffer, mSliceSizeCount, sent) BY <2>7 DEF BufferTrue
    <3>3. GoodFrame(Pipe[1], program[Sender], sent) BY <2>7, NextFrame DEF LinkTrue
    <3>4. FrameTrue(Pipe[1], program[Sender], sent) BY <3>3, FrameIs DEF LinkTrue, SentTrue
    <3>5. Agrees(Pipe[1], mBuffer, mSliceSizeCount, sent')
      BY <2>1, <3>2, <3>4 DEF Agrees, Extends, FrameTrue, Carries
    <3> QED BY <2>2, <3>1, <3>5, BufferKept
  <2>8. CASE Pipe = <<>>
    <3>0. ~broken BY <2>8, PipeWire DEF Sound
    <3>1. mSliceSizeCount = 0 BY <2>2, <2>8 DEF BufferTrue
    <3>2. Pipe' = queue' BY <2>1, <2>3, <2>8, <3>0, ConcatEmptySeq
    <3>3. Agrees(Pipe'[1], mBuffer, mSliceSizeCount, sent')
      BY <2>1, <3>1, <3>2 DEF SendTrue, Agrees
    <3> QED BY <2>2, <2>5, <3>0, <3>3, BufferKept
  <2> QED BY <2>7, <2>8
<1>2. CASE WriteFrame
  <2>1. Pipe' = Pipe BY <1>2, PipeWritten
  <2>2. SameBuffer /\ sent' = sent /\ dead' = dead
    BY <1>2 DEF WriteFrame, SameBuffer, recvVars, bufferVars
  <2> QED BY <2>1, <2>2, BufferKept DEF BufferTrue
<1>3. CASE WriteCancelled
  <2>1. SameBuffer /\ sent' = sent /\ dead' = dead
    BY <1>3 DEF WriteCancelled, SameBuffer, recvVars, bufferVars
  <2>2. sent \in Seq(Messages) /\ Tidy(Pipe, program[Sender], sent) BY DEF LinkTrue, SentTrue
  <2>3. /\ wire # <<>> => Pipe' # <<>> /\ Pipe'[1] = Pipe[1] /\ Pipe # <<>>
        /\ wire = <<>> /\ ~broken' =>
             /\ Pipe # <<>> /\ Pipe[1] = Head(queue)
             /\ \/ Pipe' # <<>> /\ Pipe'[1] = Cancel
                \/ Pipe' = <<>> /\ ~(Head(queue).kind \in {"slice", "sliceHeader", "cancel"})
    BY <1>3, <2>2, PipeCancelled
  <2>3a. wire = <<>> => ~broken' BY <1>3 DEF WriteCancelled, Sound
  <2>4. CASE wire # <<>>
    BY <2>1, <2>3, <2>4, BufferKept DEF BufferTrue
  <2>5. CASE wire = <<>> /\ Pipe' # <<>>
    <3>1. Pipe'[1].kind = "cancel" BY <2>3, <2>3a, <2>5 DEF Cancel
    <3>2. Agrees(Pipe'[1], mBuffer, mSliceSizeCount, sent') BY <3>1 DEF Agrees
    <3> QED BY <2>1, <2>5, <3>2, BufferKept
  <2>6. CASE wire = <<>> /\ Pipe' = <<>>
    <3>1. Pipe # <<>> /\ ~(Pipe[1].kind \in {"slice", "sliceHeader", "cancel"}) BY <2>3, <2>3a, <2>6
    <3>2. GoodFrame(Pipe[1], program[Sender], sent) BY <3>1, NextFrame DEF LinkTrue
    <3>3. FrameTrue(Pipe[1], program[Sender], sent) BY <2>2, <3>2, FrameIs
    <3>4. mSliceSizeCount = 0 BY <3>1, <3>3 DEF BufferTrue, Agrees, FrameTrue
    <3> QED BY <2>1, <2>6, <3>4, BufferKept
  <2> QED BY <2>4, <2>5, <2>6
<1>4. CASE StreamEnds
  <2>1. SameBuffer /\ sent' = sent /\ dead' = TRUE /\ queue' = <<>>
    BY <1>4 DEF StreamEnds, SameBuffer, recvVars, bufferVars
  <2>2. PICK k \in 0..Len(wire) : wire' = SubSeq(wire, 1, k) BY <1>4 DEF StreamEnds
  <2>3. /\ Pipe' \in Seq(Frame) /\ Len(Pipe') = k /\ k \in 0..Len(Pipe)
        /\ \A i \in 1..k : Pipe'[i] = Pipe[i]
    BY <2>1, <2>2, PipeEnds
  <2>4. Len(Pipe) \in Nat BY LenProperties DEF LinkTrue, Tidy
  <2>5. ASSUME Pipe' # <<>> PROVE Agrees(Pipe'[1], mBuffer, mSliceSizeCount, sent')
    <3>1. k # 0 BY <2>3, <2>5, EmptySeq
    <3>2. 1 \in 1..k /\ Len(Pipe) # 0 BY <2>3, <2>4, <3>1
    <3>3. Pipe # <<>> BY <3>2, EmptySeq
    <3> QED BY <2>1, <2>3, <3>2, <3>3 DEF BufferTrue
  <2> QED BY <2>1, <2>5, BufferKept
<1>5. CASE Reading BY <1>5, BufferRead
<1>6. CASE SendDatagram
  <2>1. SameBuffer /\ sent' = sent /\ transport = "datagram" /\ transport' = "datagram"
    BY <1>6 DEF SendDatagram, SameBuffer, recvVars, bufferVars
  <2>2. LinkTrue' BY LinkStep
  <2>3. mSliceSizeCount = 0 BY <2>1 DEF BufferTrue
  <2>4. Pipe' = queue' /\ NoSlices(queue') /\ queue' \in Seq(Frame)
    <3>1. wire' = <<>> /\ NoSlices(queue') /\ queue' \in Seq(Frame) /\ ~broken' BY <2>1, <2>2 DEF LinkTrue
    <3>2. <<>> \o queue' = queue' BY <3>1, ConcatEmptySeq
    <3> QED BY <3>1, <3>2 DEF Pipe
  <2>5. ASSUME Pipe' # <<>> PROVE Agrees(Pipe'[1], mBuffer, mSliceSizeCount, sent')
    <3>1. 1 \in 1..Len(queue')
      <4>1. Len(queue') \in Nat \ {0} BY <2>4, <2>5, EmptySeq
      <4> QED BY <4>1
    <3>2. Pipe'[1].kind # "slice" BY <2>4, <3>1 DEF NoSlices
    <3> QED BY <2>3, <3>2 DEF Agrees
  <2> QED BY <2>1, <2>3, <2>5, BufferKept
<1>8. CASE SameBuffer /\ QuietLink
  <2>1. Pipe' = Pipe /\ sent' = sent /\ dead' = dead BY <1>8 DEF QuietLink, Pipe
  <2> QED BY <1>8, <2>1, BufferKept DEF BufferTrue
<1>9. ASSUME NEW s \in Side, NEW n \in Name, InitStatic(s, n) \/ RegistDynamic(s, n)
      PROVE  BufferTrue'
  <2>1. SameBuffer /\ QuietLink
    BY <1>9 DEF InitStatic, RegistDynamic, SameBuffer, QuietLink, sendVars, linkVars, damageVars, recvVars,
                bufferVars
  <2> QED BY <1>8, <2>1
<1>10. ASSUME NEW s \in Side, Build(s) PROVE BufferTrue'
  <2>1. SameBuffer /\ QuietLink
    BY <1>10 DEF Build, SameBuffer, QuietLink, sendVars, linkVars, damageVars, recvVars, bufferVars
  <2> QED BY <1>8, <2>1
<1>11. CASE StopRecv
  <2>1. SameBuffer /\ QuietLink
    BY <1>11 DEF StopRecv, SameBuffer, QuietLink, sendVars, linkVars, damageVars, bufferVars
  <2> QED BY <1>8, <2>1
<1>12. ASSUME NEW d \in net, RecvVersionDatagram(d) \/ RecvTruncated(d) PROVE BufferTrue'
  <2>1. SameBuffer /\ QuietLink
    BY <1>12 DEF RecvVersionDatagram, RecvTruncated, AroundDatagram, Delivered, SameBuffer,
                 Datagram, QuietLink, sendVars, linkVars, damageVars, bufferVars
  <2> QED BY <1>8, <2>1
<1>13. ASSUME NEW d \in net, RecvDatagram(d) PROVE BufferTrue'
  <2>1. QuietLink /\ mSliceSizeCount' = mSliceSizeCount /\ transport = "datagram"
        /\ d.kind = "complete" /\ Finish(CreateProto(d.data), d, d.units)
    BY <1>13 DEF RecvDatagram, Datagram, AroundDatagram, Delivered, QuietLink, sendVars,
                  damageVars
  <2>2. Pipe' = Pipe /\ transport' = transport BY <2>1 DEF QuietLink, Pipe
  <2>3. mSliceSizeCount' = 0 BY <2>1 DEF BufferTrue
  <2>4. FrameTrue(d, program[Sender], sent) BY NetFrame
  <2>5. d.units \in Seq(Units) BY <2>1, <2>4, FrameUnits DEF LinkTrue, SentTrue
  <2>6. mBuffer' \in Seq(Units)
    <3>1. <<>> \in Seq(Units) BY EmptySeq
    <3> QED BY <2>1, <2>5, <3>1, FinishIs
  <2>7. Len(mBuffer') \in Nat BY <2>6, LenProperties
  <2>8. mSliceSizeCount' \in 0..Len(mBuffer') BY <2>3, <2>7
  <2>9. Pipe # <<>> => Pipe[1].kind # "slice"
    <3>1. Pipe = queue /\ NoSlices(queue) /\ queue \in Seq(Frame)
      BY <2>1, PipeDatagram DEF LinkTrue
    <3>2. queue # <<>> => 1 \in 1..Len(queue)
      <4>1. queue # <<>> => Len(queue) \in Nat \ {0} BY <3>1, EmptySeq
      <4> QED BY <4>1
    <3> QED BY <3>1, <3>2 DEF NoSlices
  <2>10. Pipe' # <<>> => Agrees(Pipe'[1], mBuffer', mSliceSizeCount', sent')
    BY <2>2, <2>3, <2>9 DEF Agrees
  <2> QED BY <2>3, <2>6, <2>8, <2>10 DEF BufferTrue
<1>14. CASE UNCHANGED vars
  <2>1. SameBuffer /\ QuietLink
    BY <1>14 DEF vars, SameBuffer, QuietLink, sendVars, linkVars, damageVars, recvVars, bufferVars
  <2> QED BY <1>8, <2>1
<1> QED BY <1>1, <1>2, <1>3, <1>4, <1>5, <1>6, <1>9, <1>10, <1>11, <1>12, <1>13, <1>14
  DEF Next, Reading, ReadingSpoilt, Takes

----------------------------------------------------------------------------
(* What recv returns.                                                      *)

IsSeq(R) == \E S : R \in Seq(S)

MessageTrue == mMessage \in Name \cup {NoProto}

LEMMA CreateProtoType ==
  ASSUME FactoriesTrue, NEW t
  PROVE  CreateProto(t) \in Name \cup {NoProto}
<1>1. ProgramTrue(program[Receiver], Statics[Receiver]) BY DEF FactoriesTrue, Side
<1>2. \A x : Create(program[Receiver], x) \in Name \cup {NoProto}
  BY <1>1, CreateIs
<1> QED BY <1>2 DEF CreateProto, CreateNamed

LEMMA MessageStart == Init => MessageTrue
BY DEF Init, MessageTrue

LEMMA MessageStep ==
  ASSUME FactoriesTrue, MessageTrue, [Next]_vars
  PROVE  MessageTrue'
<1>1. CASE ReadComplete
  <2>1. \E proto, frame, buffer : Finish(proto, frame, buffer) BY <1>1 DEF ReadComplete
  <2> QED BY <2>1, FinishIs DEF MessageTrue
<1>2. CASE ReadSlice
  <2>1. mMessage' = mMessage \/ \E proto, frame, buffer : Finish(proto, frame, buffer)
    BY <1>2 DEF ReadSlice
  <2> QED BY <2>1, FinishIs DEF MessageTrue
<1>3. CASE ReadSliceHeader
  BY <1>3, CreateProtoType DEF ReadSliceHeader, MessageTrue
<1>4. ASSUME NEW d \in net, RecvDatagram(d) PROVE MessageTrue'
  <2>1. \E proto, frame, buffer : Finish(proto, frame, buffer) BY <1>4 DEF RecvDatagram
  <2> QED BY <2>1, FinishIs DEF MessageTrue
<1>5. CASE mMessage' = mMessage \/ mMessage' = NoProto BY <1>5 DEF MessageTrue
<1> QED BY <1>1, <1>2, <1>3, <1>4, <1>5
  DEF Next, vars, recvVars, bufferVars, Build, InitStatic, RegistDynamic, Send, WriteFrame,
      WriteCancelled, StreamEnds, SendDatagram, ReadCancel, ReadVersion, ReadMiddle, StopRecv,
      SetStreamClient, ResetBuffers, RecvVersionDatagram, RecvTruncated

LEMMA TransportStays == ASSUME [Next]_vars PROVE transport' = transport
BY DEF Next, vars, linkVars, Build, InitStatic, RegistDynamic, Send, WriteFrame,
       WriteCancelled, StreamEnds, SendDatagram, Reads, ReadCancel, ReadVersion, ReadComplete,
       ReadSliceHeader, ReadSlice, ReadMiddle, StopRecv, SetStreamClient, AroundDatagram,
       RecvVersionDatagram, RecvDatagram, RecvTruncated

(* The protocol of the message that frame f ends. *)
ProtoOf(f) == IF f.kind = "complete" THEN CreateProto(f.data) ELSE mMessage

Finishes(f, proto) ==
  \/ proto # NoProto /\ received' = Append(received, Known(proto, Payload(f.m), f))
  \/ proto = NoProto /\ received' = received
  \/ /\ proto = NoProto
     /\ received' = Append(received, Raw(NameOf(f.data), Payload(f.m), f))

(* A stream: the last frame of a message gives its payload, the others     *)
(* nothing.                                                                *)
LEMMA StreamFinishes ==
  ASSUME LinkTrue, BufferTrue, Reading
  PROVE  LET f == Incoming
         IN  \/ ~Ends(f) /\ received' = received
             \/ Ends(f) /\ Carries(f) /\ f.m \in DOMAIN sent /\ Finishes(f, ProtoOf(f))
<1> DEFINE f == Incoming
<1>1. Pipe # <<>> /\ Pipe[1] = f /\ FrameTrue(f, program[Sender], sent) BY ReadFrame
<1>2. Agrees(f, mBuffer, mSliceSizeCount, sent) BY <1>1 DEF BufferTrue
<1>3. sent \in Seq(Messages) BY DEF LinkTrue, SentTrue
<1>4. mBuffer \in Seq(Units) BY DEF BufferTrue
<1>5. CASE ReadCancel \/ ReadVersion \/ ReadSliceHeader
  <2>1. f.kind \in {"cancel", "version", "sliceHeader"} /\ received' = received
    BY <1>5 DEF ReadCancel, ReadVersion, ReadSliceHeader, Reads
  <2> QED BY <2>1 DEF Ends
<1>6. CASE ReadComplete
  <2>1. f.kind = "complete" /\ Finish(CreateProto(f.data), f, f.units)
    BY <1>6 DEF ReadComplete, Reads
  <2>2. f.units = Payload(f.m) /\ f.m \in DOMAIN sent /\ Carries(f) /\ Ends(f)
    BY <1>1, <2>1 DEF FrameTrue, Carries, Ends, Payload
  <2>3. ProtoOf(f) = CreateProto(f.data) BY <2>1 DEF ProtoOf
  <2> HIDE DEF f
  <2>4. Finishes(f, ProtoOf(f)) BY <2>1, <2>2, <2>3, FinishIs DEF Finishes
  <2> QED BY <2>2, <2>4 DEF f
<1>7. CASE ReadSlice
  <2> DEFINE b == Filled(mBuffer, f)
             n == Len(f.units)
             z == sent[f.m].size
             o == f.data
  <2>1. f.kind = "slice" BY <1>7 DEF ReadSlice, Reads
  <2>2. /\ mSliceSizeCount = o /\ Len(mBuffer) = z
        /\ \A i \in 1..o : mBuffer[i] = <<f.m, i>>
    BY <1>2, <2>1 DEF Agrees
  <2>3. SliceTrue(f, z) /\ f.m \in Nat /\ z \in Nat \ {0} /\ f.m \in DOMAIN sent /\ Carries(f)
    BY <1>1, <1>3, <2>1, FrameUnits DEF FrameTrue, Carries
  <2>4. f.last <=> (o + n = z) BY <2>3 DEF SliceTrue
  <2>5. /\ b \in Seq(Units) /\ Len(b) = z
        /\ f.last => b = [i \in 1..z |-> <<f.m, i>>]
    BY <1>4, <2>2, <2>3, FilledIs
  <2>6. \/ mSliceSizeCount + n = Len(b) /\ Finish(mMessage, f, b)
        \/ mSliceSizeCount + n # Len(b) /\ received' = received
    <3> HIDE DEF Filled
    <3> QED BY <1>7 DEF ReadSlice
  <2>7. ProtoOf(f) = mMessage BY <2>1 DEF ProtoOf
  <2> HIDE DEF b, n, o
  <2>8. CASE f.last
    <3>1. b = Payload(f.m) BY <2>5, <2>8 DEF Payload
    <3> HIDE DEF f
    <3>2. Finish(mMessage, f, Payload(f.m)) BY <2>2, <2>4, <2>5, <2>6, <2>8, <3>1
    <3>3. Finishes(f, ProtoOf(f)) BY <2>7, <3>2, FinishIs DEF Finishes
    <3> QED BY <2>1, <2>3, <2>8, <3>3 DEF Ends, f
  <2>9. CASE ~f.last
    <3>1. received' = received BY <2>2, <2>4, <2>5, <2>6, <2>9
    <3> QED BY <2>1, <2>9, <3>1 DEF Ends
  <2> QED BY <2>8, <2>9
<1> QED BY <1>5, <1>6, <1>7 DEF Reading, Takes

LEMMA DatagramFinishes ==
  ASSUME LinkTrue, NEW d \in net, RecvDatagram(d)
  PROVE  /\ d.kind = "complete" /\ d.m \in DOMAIN sent
         /\ Finishes(d, ProtoOf(d))
<1>1. d.kind = "complete" /\ Finish(CreateProto(d.data), d, d.units)
  BY DEF RecvDatagram, Datagram
<1>2. FrameTrue(d, program[Sender], sent) BY NetFrame
<1>3. d.units = Payload(d.m) /\ d.m \in DOMAIN sent
  BY <1>1, <1>2 DEF FrameTrue, Carries, Payload
<1>4. ProtoOf(d) = CreateProto(d.data) BY <1>1 DEF ProtoOf
<1> QED BY <1>1, <1>3, <1>4, FinishIs DEF Finishes

(* Other steps return nothing, or what is behind a damage. *)
LEMMA NothingReturned ==
  ASSUME [Next]_vars, ~Reading, ~ReadingSpoilt, \A d \in net : ~RecvDatagram(d)
  PROVE  received' = received
BY DEF Next, Reading, ReadingSpoilt, Takes, vars, recvVars, Build, InitStatic, RegistDynamic,
       Send, WriteFrame, WriteCancelled, StreamEnds, SendDatagram, ReadMiddle, StopRecv,
       SetStreamClient, RecvVersionDatagram, RecvTruncated

LEMMA SpoiltReturned ==
  ASSUME LinkTrue, ReadingSpoilt
  PROVE  \/ received' = received
         \/ \E e : ~e.sound /\ received' = Append(received, e)
<1>1. ~Sound BY ReadingSpoiltIs
<1>2. ASSUME NEW proto, NEW frame, NEW buffer, Finish(proto, frame, buffer)
      PROVE  \/ received' = received
             \/ \E e : ~e.sound /\ received' = Append(received, e)
  <2>1. \A n : ~Known(n, buffer, frame).sound /\ ~Raw(n, buffer, frame).sound
    BY <1>1 DEF Known, Raw
  <2>2. \/ received' = received
        \/ received' = Append(received, Known(proto, buffer, frame))
        \/ received' = Append(received, Raw(NameOf(frame.data), buffer, frame))
    BY <1>2, FinishIs
  <2> QED BY <2>1, <2>2
<1>3. CASE received' = received BY <1>3
<1>4. CASE \E proto, frame, buffer : Finish(proto, frame, buffer) BY <1>2, <1>4
<1>5. \/ received' = received
      \/ \E proto, frame, buffer : Finish(proto, frame, buffer)
  BY DEF ReadingSpoilt, Takes, ReadCancel, ReadVersion, ReadComplete, ReadSliceHeader, ReadSlice
<1> QED BY <1>3, <1>4, <1>5

(* The message of a result. *)
LEMMA PayloadIs ==
  ASSUME LinkTrue, NEW m, m \in DOMAIN sent
  PROVE  Payload(m) \in Seq(Units) /\ Payload(m)[1] = <<m, 1>>
<1> DEFINE z == sent[m].size
<1>1. sent \in Seq(Messages) BY DEF LinkTrue, SentTrue
<1>2. m \in 1..Len(sent) /\ m \in Nat BY <1>1, LenProperties
<1>3. z \in Nat \ {0}
  <2>1. sent[m] \in Messages BY <1>1, <1>2, ElementOfSeq
  <2>2. \A x \in Messages : x.size \in Nat \ {0} BY ClientAssumption DEF Messages
  <2> QED BY <2>1, <2>2
<1>4. Payload(m) = [i \in 1..z |-> <<m, i>>] BY DEF Payload
<1> HIDE DEF z
<1> QED BY <1>2, <1>3, <1>4 DEF Units

LEMMA ResultIs ==
  ASSUME LinkTrue, NEW m, m \in DOMAIN sent, NEW n, NEW f, NEW e,
         e = Known(n, Payload(m), f) \/ e = Raw(n, Payload(m), f)
  PROVE  /\ MessageOf(e) = m /\ e.data = Payload(m) /\ e.name = n
         /\ e.told = told /\ e.sliced = (f.kind = "slice") /\ e.sound = Sound
         /\ e.raw => e = Raw(n, Payload(m), f)
         /\ ~e.raw => e = Known(n, Payload(m), f)
<1>1. Payload(m) \in Seq(Units) /\ Payload(m)[1] = <<m, 1>> BY PayloadIs
<1> HIDE DEF Payload
<1>2. /\ e.data = Payload(m) /\ e.name = n /\ e.told = told /\ e.sliced = (f.kind = "slice")
      /\ e.sound = Sound
  BY DEF Known, Raw
<1>3. MessageOf(e) = m BY <1>1, <1>2 DEF MessageOf
<1>4. /\ e.raw => e = Raw(n, Payload(m), f)
      /\ ~e.raw => e = Known(n, Payload(m), f)
  BY DEF Known, Raw
<1> QED BY <1>2, <1>3, <1>4

(* Sound results are payloads of messages in the log; on a stream they     *)
(* rise, and stay below what is still to be read.                          *)
PayloadIn(log, m) == [i \in 1..log[m].size |-> <<m, i>>]

Intact(R, log) ==
  \A k \in 1..Len(R) : R[k].sound =>
    MessageOf(R[k]) \in DOMAIN log /\ R[k].data = PayloadIn(log, MessageOf(R[k]))
Rising(R) ==
  \A j, k \in 1..Len(R) : R[j].sound /\ R[k].sound /\ j < k => MessageOf(R[j]) < MessageOf(R[k])
Below(R, P) ==
  \A k \in 1..Len(R), i \in 1..Len(P) : R[k].sound /\ Carries(P[i]) => MessageOf(R[k]) < P[i].m

ReceivedTrue ==
  /\ IsSeq(received)
  /\ Intact(received, sent)
  /\ transport = "stream" => Rising(received) /\ Below(received, Pipe)

LEMMA ReceivedStart == Init => ReceivedTrue
<1> SUFFICES ASSUME Init PROVE ReceivedTrue
  OBVIOUS
<1>1. received = <<>> /\ <<>> \in Seq(Int) /\ Len(<<>>) = 0 BY EmptySeq DEF Init
<1> QED BY <1>1 DEF ReceivedTrue, IsSeq, Intact, Rising, Below

(* Frames that a step puts into the pipe carry newer messages than all     *)
(* that were sent.                                                         *)
LEMMA PipeElements ==
  ASSUME FactoriesTrue, LinkTrue, [Next]_vars
  PROVE  /\ Extends(sent, sent')
         /\ \A i \in 1..Len(Pipe') : Carries(Pipe'[i]) =>
              \/ \E j \in 1..Len(Pipe) : Pipe'[i] = Pipe[j]
              \/ \A m \in DOMAIN sent : m < Pipe'[i].m
<1> DEFINE Goal == /\ Extends(sent, sent')
                   /\ \A i \in 1..Len(Pipe') : Carries(Pipe'[i]) =>
                        \/ \E j \in 1..Len(Pipe) : Pipe'[i] = Pipe[j]
                        \/ \A m \in DOMAIN sent : m < Pipe'[i].m
<1> SUFFICES Goal OBVIOUS
<1>0. sent' = sent => Extends(sent, sent') BY DEF Extends
<1>1. ASSUME NEW n \in Name, NEW size \in Sizes, NEW slice \in BOOLEAN, NEW verify \in BOOLEAN,
             Send(n, size, slice, verify)
      PROVE  Goal
  <2> DEFINE m == Len(sent) + 1
  <2>0. /\ Extends(sent, sent') /\ SendTrue(queue', m, program[Sender], sent')
        /\ broken \in BOOLEAN /\ (broken => Pipe' = Pipe) /\ (~broken => Pipe' = Pipe \o queue')
        /\ \A i \in DOMAIN sent : i < m
    BY <1>1, SendFrames
  <2>0a. CASE broken
    <3>1. Pipe' = Pipe BY <2>0, <2>0a
    <3> QED BY <2>0, <3>1
  <2> SUFFICES ASSUME ~broken PROVE Goal
    BY <2>0, <2>0a
  <2>1. /\ Extends(sent, sent') /\ SendTrue(queue', m, program[Sender], sent')
        /\ Pipe' = Pipe \o queue' /\ \A i \in DOMAIN sent : i < m
    BY <2>0
  <2>2. Pipe \in Seq(Frame) /\ queue' \in Seq(Frame) BY <2>1 DEF LinkTrue, Tidy, SendTrue
  <2>3. /\ Len(Pipe) \in Nat /\ Len(queue') \in Nat /\ Len(Pipe') = Len(Pipe) + Len(queue')
        /\ \A i \in 1 .. Len(Pipe) + Len(queue') :
             Pipe'[i] = IF i <= Len(Pipe) THEN Pipe[i] ELSE queue'[i - Len(Pipe)]
    BY <2>1, <2>2, ConcatProperties, LenProperties
  <2> HIDE DEF m
  <2>4. ASSUME NEW i \in 1..Len(Pipe'), Carries(Pipe'[i])
        PROVE  \/ \E j \in 1..Len(Pipe) : Pipe'[i] = Pipe[j]
               \/ \A x \in DOMAIN sent : x < Pipe'[i].m
    <3>1. CASE i <= Len(Pipe)
      <4>1. i \in 1..Len(Pipe) /\ Pipe'[i] = Pipe[i] BY <2>3, <3>1
      <4> QED BY <4>1
    <3>2. CASE ~(i <= Len(Pipe))
      <4>1. i - Len(Pipe) \in 1..Len(queue') /\ Pipe'[i] = queue'[i - Len(Pipe)] BY <2>3, <3>2
      <4>2. Pipe'[i].m = m BY <2>1, <2>4, <4>1 DEF SendTrue, AllOf
      <4> QED BY <2>1, <4>2
    <3> QED BY <3>1, <3>2
  <2> QED BY <2>1, <2>4
<1>2. ASSUME sent' = sent, Pipe' = Pipe PROVE Goal BY <1>0, <1>2
<1>3. CASE WriteFrame
  <2>1. sent' = sent BY <1>3 DEF WriteFrame
  <2> QED BY <1>2, <1>3, <2>1, PipeWritten
<1>4. CASE WriteCancelled
  <2>1. sent' = sent BY <1>4 DEF WriteCancelled
  <2>2. /\ sent \in Seq(Messages) /\ Tidy(Pipe, program[Sender], sent)
        /\ wire \in Seq(Frame) /\ queue \in Seq(Frame)
    BY DEF LinkTrue, SentTrue
  <2>3. \A i \in 1..Len(Pipe') : Pipe'[i] = Cancel \/ (i \in 1..Len(wire) /\ Pipe'[i] = wire[i])
    BY <1>4, <2>2, PipeCancelled
  <2>4. ASSUME NEW i \in 1..Len(wire) PROVE i \in 1..Len(Pipe) /\ Pipe[i] = wire[i]
    BY PipeWire
  <2>5. ~Carries(Cancel) BY DEF Cancel, Carries
  <2> QED BY <1>0, <2>1, <2>3, <2>4, <2>5
<1>5. CASE StreamEnds
  <2>1. sent' = sent /\ queue' = <<>> BY <1>5 DEF StreamEnds
  <2>2. PICK k \in 0..Len(wire) : wire' = SubSeq(wire, 1, k) BY <1>5 DEF StreamEnds
  <2>3. Len(Pipe') = k /\ k \in 0..Len(Pipe) /\ \A i \in 1..k : Pipe'[i] = Pipe[i]
    BY <2>1, <2>2, PipeEnds
  <2>4. Len(Pipe) \in Nat BY LenProperties DEF LinkTrue, Tidy
  <2>5. \A i \in 1..k : i \in 1..Len(Pipe) BY <2>3, <2>4
  <2> QED BY <1>0, <2>1, <2>3, <2>5
<1>6. CASE Reading
  <2>1. sent' = sent BY <1>6, ReadingIs
  <2>2. Pipe # <<>> /\ Pipe' = Tail(Pipe) BY <1>6, ReadFrame
  <2>3. \A j \in 1..Len(Tail(Pipe)) : j + 1 \in 1..Len(Pipe) /\ Tail(Pipe)[j] = Pipe[j + 1]
    BY <2>2, NextFrame DEF LinkTrue
  <2> QED BY <1>0, <2>1, <2>2, <2>3
<1>7. CASE SendDatagram
  <2>1. sent' = sent /\ wire' = wire /\ queue' = Tail(queue) /\ queue # <<>>
        /\ transport = "datagram" /\ broken' = broken
    BY <1>7 DEF SendDatagram, damageVars
  <2>2. Pipe = queue /\ wire = <<>> /\ queue \in Seq(Frame) /\ ~broken
    BY <2>1, PipeDatagram DEF LinkTrue
  <2>3. Tail(queue) \in Seq(Frame) BY <2>1, <2>2, HeadTailProperties
  <2>4. Pipe' = Tail(Pipe)
    <3>1. <<>> \o Tail(queue) = Tail(queue) BY <2>3, ConcatEmptySeq
    <3> QED BY <2>1, <2>2, <3>1 DEF Pipe
  <2>5. \A j \in 1..Len(Tail(Pipe)) : j + 1 \in 1..Len(Pipe) /\ Tail(Pipe)[j] = Pipe[j + 1]
    BY <2>1, <2>2, NextFrame DEF LinkTrue
  <2> QED BY <1>0, <2>1, <2>4, <2>5
<1>8. CASE SetStreamClient
  <2>1. sent' = sent /\ wire' = <<>> /\ queue' = <<>> BY <1>8 DEF SetStreamClient
  <2>2. <<>> \in Seq(Frame) /\ Len(<<>>) = 0 BY EmptySeq
  <2>3. Pipe' = <<>> BY <2>1, <2>2, ConcatEmptySeq DEF Pipe
  <2> QED BY <1>0, <2>1, <2>2, <2>3
<1>9. CASE UNCHANGED <<sent, wire, queue, broken>>
  <2>1. Pipe' = Pipe BY <1>9 DEF Pipe
  <2> QED BY <1>2, <1>9, <2>1
<1>10. CASE QuietLink BY <1>9, <1>10 DEF QuietLink
<1> HIDE DEF Goal
<1>11. Sends => Goal BY <1>1, Zenon DEF Sends
<1>12. Goal BY <1>3, <1>4, <1>5, <1>6, <1>7, <1>8, <1>10, <1>11, LinkMoves
<1> QED BY <1>12

LEMMA IntactStays ==
  ASSUME NEW log, NEW more, Extends(log, more), NEW R, Intact(R, log)
  PROVE  Intact(R, more)
BY DEF Intact, Extends, PayloadIn

LEMMA ResultAdded ==
  ASSUME NEW R, IsSeq(R), NEW e
  PROVE  /\ IsSeq(Append(R, e)) /\ Len(R) \in Nat /\ Len(Append(R, e)) = Len(R) + 1
         /\ \A k \in 1..(Len(R) + 1) : Append(R, e)[k] = IF k = Len(R) + 1 THEN e ELSE R[k]
<1>0. PICK S : R \in Seq(S) BY DEF IsSeq
<1> DEFINE T == S \cup {e}
<1>a. R \in Seq(T) /\ e \in T
  <2>1. Len(R) \in Nat /\ R = [i \in 1..Len(R) |-> R[i]] /\ \A i \in 1..Len(R) : R[i] \in T
    BY <1>0, LenProperties, ElementOfSeq
  <2> HIDE DEF T
  <2>2. [i \in 1..Len(R) |-> R[i]] \in Seq(T) BY <2>1
  <2> QED BY <2>1, <2>2 DEF T
<1> HIDE DEF T
<1>1. /\ Append(R, e) \in Seq(T)
      /\ Len(Append(R, e)) = Len(R) + 1
      /\ \A i \in 1 .. Len(R) : Append(R, e)[i] = R[i]
      /\ Append(R, e)[Len(R) + 1] = e
  BY <1>a, AppendProperties
<1>2. Len(R) \in Nat BY <1>a, LenProperties
<1>3. \A k \in 1..(Len(R) + 1) : k # Len(R) + 1 => k \in 1..Len(R) BY <1>2
<1> QED BY <1>1, <1>2, <1>3 DEF IsSeq

LEMMA IntactAdded ==
  ASSUME NEW log, NEW R, IsSeq(R), NEW e, Intact(R, log),
         e.sound => MessageOf(e) \in DOMAIN log /\ e.data = PayloadIn(log, MessageOf(e))
  PROVE  Intact(Append(R, e), log)
<1> DEFINE A == Append(R, e)
<1>1. /\ Len(R) \in Nat /\ Len(A) = Len(R) + 1
      /\ \A k \in 1..(Len(R) + 1) : A[k] = IF k = Len(R) + 1 THEN e ELSE R[k]
  BY ResultAdded
<1> HIDE DEF A
<1>2. ASSUME NEW k \in 1..Len(A), A[k].sound
      PROVE  MessageOf(A[k]) \in DOMAIN log /\ A[k].data = PayloadIn(log, MessageOf(A[k]))
  <2>1. CASE k = Len(R) + 1 BY <1>1, <1>2, <2>1
  <2>2. CASE k # Len(R) + 1
    <3>1. k \in 1..Len(R) /\ A[k] = R[k] BY <1>1, <2>2
    <3> QED BY <1>2, <3>1 DEF Intact
  <2> QED BY <2>1, <2>2
<1>3. Intact(A, log) BY <1>2 DEF Intact
<1> QED BY <1>3 DEF A

LEMMA RisingAdded ==
  ASSUME NEW R, IsSeq(R), NEW e, Rising(R),
         e.sound => \A k \in 1..Len(R) : R[k].sound => MessageOf(R[k]) < MessageOf(e)
  PROVE  Rising(Append(R, e))
<1> DEFINE A == Append(R, e)
<1>1. /\ Len(R) \in Nat /\ Len(A) = Len(R) + 1
      /\ \A k \in 1..(Len(R) + 1) : A[k] = IF k = Len(R) + 1 THEN e ELSE R[k]
  BY ResultAdded
<1> HIDE DEF A
<1>2. ASSUME NEW j \in 1..Len(A), NEW k \in 1..Len(A), A[j].sound, A[k].sound, j < k
      PROVE  MessageOf(A[j]) < MessageOf(A[k])
  <2>1. j \in 1..Len(R) /\ A[j] = R[j] BY <1>1, <1>2
  <2>2. CASE k = Len(R) + 1 BY <1>1, <1>2, <2>1, <2>2
  <2>3. CASE k # Len(R) + 1
    <3>1. k \in 1..Len(R) /\ A[k] = R[k] BY <1>1, <2>3
    <3> QED BY <1>2, <2>1, <3>1 DEF Rising
  <2> QED BY <2>2, <2>3
<1>3. Rising(A) BY <1>2 DEF Rising
<1> QED BY <1>3 DEF A

LEMMA BelowAdded ==
  ASSUME NEW R, IsSeq(R), NEW e, NEW P, Below(R, P),
         e.sound => \A i \in 1..Len(P) : Carries(P[i]) => MessageOf(e) < P[i].m
  PROVE  Below(Append(R, e), P)
<1> DEFINE A == Append(R, e)
<1>1. /\ Len(R) \in Nat /\ Len(A) = Len(R) + 1
      /\ \A k \in 1..(Len(R) + 1) : A[k] = IF k = Len(R) + 1 THEN e ELSE R[k]
  BY ResultAdded
<1> HIDE DEF A
<1>2. ASSUME NEW k \in 1..Len(A), NEW i \in 1..Len(P), A[k].sound, Carries(P[i])
      PROVE  MessageOf(A[k]) < P[i].m
  <2>1. CASE k = Len(R) + 1 BY <1>1, <1>2, <2>1
  <2>2. CASE k # Len(R) + 1
    <3>1. k \in 1..Len(R) /\ A[k] = R[k] BY <1>1, <2>2
    <3> QED BY <1>2, <3>1 DEF Below
  <2> QED BY <2>1, <2>2
<1>3. Below(A, P) BY <1>2 DEF Below
<1> QED BY <1>3 DEF A

(* The result of a frame that ends a message before any damage.            *)
LEMMA ResultOf ==
  ASSUME LinkTrue, NEW f, NEW proto, Finishes(f, proto), f.m \in DOMAIN sent,
         received' # received
  PROVE  \E e : /\ received' = Append(received, e) /\ MessageOf(e) = f.m
                /\ e.data = PayloadIn(sent, f.m)
<1>1. \A m : Payload(m) = PayloadIn(sent, m) BY DEF Payload, PayloadIn
<1>2. PICK n, e : /\ e = Known(n, Payload(f.m), f) \/ e = Raw(n, Payload(f.m), f)
                  /\ received' = Append(received, e)
  BY DEF Finishes
<1>3. MessageOf(e) = f.m /\ e.data = Payload(f.m) BY <1>2, ResultIs
<1>4. e.data = PayloadIn(sent, f.m) BY <1>1, <1>3
<1> QED BY <1>2, <1>3, <1>4

LEMMA ReceivedStep ==
  ASSUME FactoriesTrue, LinkTrue, Sound => BufferTrue, ReceivedTrue, [Next]_vars
  PROVE  ReceivedTrue'
<1>1. /\ Extends(sent, sent')
      /\ \A i \in 1..Len(Pipe') : Carries(Pipe'[i]) =>
           \/ \E j \in 1..Len(Pipe) : Pipe'[i] = Pipe[j]
           \/ \A m \in DOMAIN sent : m < Pipe'[i].m
  BY PipeElements
<1>2. transport' = transport BY TransportStays
<1>3. Intact(received, sent') BY <1>1, IntactStays DEF ReceivedTrue
<1>4. transport = "stream" => Below(received, Pipe')
  BY <1>1 DEF ReceivedTrue, Below, Intact
<1>5. IsSeq(received) /\ (transport = "stream" => Rising(received)) BY DEF ReceivedTrue
<1>6. CASE received' = received
  BY <1>2, <1>3, <1>4, <1>6 DEF ReceivedTrue
<1>7. CASE received' # received /\ Reading
  <2> DEFINE f == Incoming
  <2>0. BufferTrue BY <1>7, ReadingIs
  <2>1. Ends(f) /\ Carries(f) /\ f.m \in DOMAIN sent /\ Finishes(f, ProtoOf(f))
    BY <1>7, <2>0, StreamFinishes
  <2>3. transport = "stream" /\ sent' = sent BY <1>7, ReadingIs
  <2>4. Pipe # <<>> /\ Pipe' = Tail(Pipe) /\ Pipe[1] = f BY <1>7, ReadFrame
  <2>5. \A j \in 1..Len(Tail(Pipe)) : Precedes(Pipe[1], Tail(Pipe)[j])
    BY <2>4, NextFrame DEF LinkTrue
  <2>6. 1 \in 1..Len(Pipe)
    <3>1. Len(Pipe) \in Nat \ {0} BY <2>4, EmptySeq DEF LinkTrue, Tidy
    <3> QED BY <3>1
  <2> HIDE DEF f
  <2>7. PICK e : /\ received' = Append(received, e) /\ MessageOf(e) = f.m
                 /\ e.data = PayloadIn(sent, f.m)
    BY <1>7, <2>1, ResultOf
  <2>8. \A k \in 1..Len(received) : received[k].sound => MessageOf(received[k]) < MessageOf(e)
    BY <2>1, <2>3, <2>4, <2>6, <2>7 DEF ReceivedTrue, Below
  <2>9. Intact(received', sent') BY <1>3, <1>5, <2>1, <2>3, <2>7, IntactAdded
  <2>10. Rising(received') BY <1>5, <2>3, <2>7, <2>8, RisingAdded
  <2>11. IsSeq(received') BY <1>5, <2>7, ResultAdded
  <2>12. \A i \in 1..Len(Pipe') : Carries(Pipe'[i]) => MessageOf(e) < Pipe'[i].m
    BY <2>1, <2>4, <2>5, <2>7 DEF Precedes
  <2>13. Below(received', Pipe') BY <1>4, <1>5, <2>3, <2>7, <2>12, BelowAdded
  <2> QED BY <2>9, <2>10, <2>11, <2>13 DEF ReceivedTrue
<1>8. ASSUME received' # received, NEW d \in net, RecvDatagram(d) PROVE ReceivedTrue'
  <2>1. d.kind = "complete" /\ d.m \in DOMAIN sent /\ Finishes(d, ProtoOf(d))
    BY <1>8, DatagramFinishes
  <2>3. transport = "datagram" /\ sent' = sent
    BY <1>8 DEF RecvDatagram, Datagram, AroundDatagram, sendVars
  <2>4. PICK e : /\ received' = Append(received, e) /\ MessageOf(e) = d.m
                 /\ e.data = PayloadIn(sent, d.m)
    BY <1>8, <2>1, ResultOf
  <2>5. Intact(received', sent') BY <1>3, <1>5, <2>1, <2>3, <2>4, IntactAdded
  <2>6. IsSeq(received') BY <1>5, <2>4, ResultAdded
  <2>7. transport' # "stream" BY <1>2, <2>3
  <2> QED BY <2>5, <2>6, <2>7 DEF ReceivedTrue
<1>9. CASE received' # received /\ ReadingSpoilt
  <2>1. PICK e : ~e.sound /\ received' = Append(received, e) BY <1>9, SpoiltReturned
  <2>2. Intact(received', sent') BY <1>3, <1>5, <2>1, IntactAdded
  <2>3. transport = "stream" => Rising(received') BY <1>5, <2>1, RisingAdded
  <2>4. transport = "stream" => Below(received', Pipe') BY <1>4, <1>5, <2>1, BelowAdded
  <2>5. IsSeq(received') BY <1>5, <2>1, ResultAdded
  <2> QED BY <1>2, <2>2, <2>3, <2>4, <2>5 DEF ReceivedTrue
<1> QED BY <1>6, <1>7, <1>8, <1>9, NothingReturned

StreamTrue ==
  /\ FactoriesTrue /\ LinkTrue
  /\ Sound => TableTrue /\ BufferTrue
  /\ MessageTrue /\ ReceivedTrue

LEMMA StreamStart == Init => StreamTrue
BY FactoriesStart, LinkStart, TableStart, BufferStart, MessageStart, ReceivedStart DEF StreamTrue

LEMMA StreamStep ==
  ASSUME StreamTrue, [Next]_vars
  PROVE  StreamTrue'
<1>1. /\ FactoriesTrue /\ LinkTrue /\ (Sound => TableTrue) /\ (Sound => BufferTrue)
      /\ MessageTrue /\ ReceivedTrue
  BY DEF StreamTrue
<1>2. FactoriesTrue' BY <1>1, FactoriesStep
<1>3. LinkTrue' BY <1>1, LinkStep
<1>4. Sound' => TableTrue' BY <1>1, TableStep
<1>5. Sound' => BufferTrue' BY <1>1, BufferStep
<1>6. MessageTrue' BY <1>1, MessageStep
<1>7. ReceivedTrue' BY <1>1, ReceivedStep
<1> QED BY <1>2, <1>3, <1>4, <1>5, <1>6, <1>7 DEF StreamTrue

LEMMA ReceivedIntact ==
  ASSUME LinkTrue, ReceivedTrue
  PROVE  MessagesIntact
<1>1. IsSeq(received) /\ Intact(received, sent)
      /\ (transport = "stream" => Rising(received))
  BY DEF ReceivedTrue
<1>2. DOMAIN received = 1..Len(received)
  <2>1. PICK S : received \in Seq(S) BY <1>1 DEF IsSeq
  <2> QED BY <2>1, LenProperties
<1>3. \A m : Payload(m) = PayloadIn(sent, m) BY DEF Payload, PayloadIn
<1> QED BY <1>1, <1>2, <1>3 DEF MessagesIntact, Trusted, Intact, Rising

(* What recv returns is one of the payloads sent, whole and unmixed, and   *)
(* on a stream in order, for every dictionary, every number of programs'   *)
(* protocols, every size, every slice size and every write that is         *)
(* cancelled, before any of it was written or after a part: only what lies *)
(* behind a torn frame, or a message whose end was not written, is not     *)
(* claimed (send, _sendRaw, recv and _finishMessage).                      *)
THEOREM MessagesIntactAlways == Spec => []MessagesIntact
<1>1. StreamTrue => MessagesIntact BY ReceivedIntact DEF StreamTrue
<1> QED BY <1>1, StreamStart, StreamStep, PTL DEF Spec

----------------------------------------------------------------------------
(* Names.                                                                  *)

(* The head of the pipe, when it is a slice.                               *)
SliceFirst(P) == P # <<>> /\ P[1].kind = "slice"

(* No step but a read gives the pipe another slice to begin with. *)
LEMMA SliceWaits ==
  ASSUME FactoriesTrue, LinkTrue, [Next]_vars, ~Reading, SliceFirst(Pipe')
  PROVE  /\ SliceFirst(Pipe) /\ Pipe'[1] = Pipe[1] /\ transport = "stream"
         /\ ~SetStreamClient /\ ~ReadingSpoilt /\ ~ReadMiddle
<1> DEFINE Goal == /\ SliceFirst(Pipe) /\ Pipe'[1] = Pipe[1] /\ transport = "stream"
                   /\ ~SetStreamClient /\ ~ReadingSpoilt /\ ~ReadMiddle
<1> SUFFICES Goal OBVIOUS
<1>0. /\ Pipe' # <<>> /\ Pipe'[1].kind = "slice" /\ LinkTrue' /\ transport' = transport
  BY LinkStep, TransportStays DEF SliceFirst
<1>1. transport = "stream"
  <2>1. CASE transport = "datagram"
    <3>1. wire' = <<>> /\ ~broken' /\ NoSlices(queue') /\ queue' \in Seq(Frame)
      BY <1>0, <2>1 DEF LinkTrue
    <3>2. <<>> \o queue' = queue' BY <3>1, ConcatEmptySeq
    <3>3. Pipe' = queue' BY <3>1, <3>2 DEF Pipe
    <3>4. 1 \in 1..Len(queue')
      <4>1. Len(queue') \in Nat \ {0} BY <1>0, <3>1, <3>3, EmptySeq
      <4> QED BY <4>1
    <3> QED BY <1>0, <3>1, <3>3, <3>4 DEF NoSlices
  <2> QED BY <2>1 DEF LinkTrue
<1>2. ~SetStreamClient
  <2> SUFFICES ASSUME SetStreamClient PROVE FALSE
    OBVIOUS
  <2>1. wire' = <<>> /\ queue' = <<>> BY DEF SetStreamClient
  <2>2. <<>> \in Seq(Frame) BY EmptySeq
  <2>3. Pipe' = <<>> BY <2>1, <2>2, ConcatEmptySeq DEF Pipe
  <2> QED BY <1>0, <2>3
<1>2a. ~ReadingSpoilt /\ ~ReadMiddle
  <2> SUFFICES ASSUME ReadingSpoilt \/ ReadMiddle PROVE FALSE
    OBVIOUS
  <2>1. broken /\ ~Sound /\ QuietLink BY ReadingSpoiltIs, ReadMiddleIs
  <2>2. broken' /\ wire' = <<>> BY <2>1 DEF Sound, QuietLink
  <2>3. Pipe' = <<>> BY <2>2 DEF Pipe
  <2> QED BY <1>0, <2>3
<1>3. ASSUME Pipe # <<>>, Pipe'[1] = Pipe[1] PROVE Goal
  BY <1>0, <1>1, <1>2, <1>2a, <1>3 DEF SliceFirst
<1>4. CASE QuietLink \/ WriteFrame
  <2>1. Pipe' = Pipe BY <1>4, PipeWritten DEF QuietLink, Pipe
  <2> QED BY <1>0, <1>3, <2>1
<1>5. ASSUME NEW n \in Name, NEW size \in Sizes, NEW slice \in BOOLEAN, NEW verify \in BOOLEAN,
             Send(n, size, slice, verify)
      PROVE  Goal
  <2> DEFINE m == Len(sent) + 1
  <2>0. /\ SendTrue(queue', m, program[Sender], sent') /\ broken \in BOOLEAN
        /\ (broken => Pipe' = Pipe) /\ (~broken => Pipe' = Pipe \o queue')
    BY <1>5, SendFrames
  <2>0a. CASE broken
    <3>1. Pipe' = Pipe BY <2>0, <2>0a
    <3> QED BY <1>0, <1>3, <3>1
  <2> SUFFICES ASSUME ~broken PROVE Goal
    BY <2>0, <2>0a
  <2>1. SendTrue(queue', m, program[Sender], sent') /\ Pipe' = Pipe \o queue' BY <2>0
  <2>2. Pipe \in Seq(Frame) /\ queue' \in Seq(Frame) /\ queue' # <<>> /\ queue'[1].kind # "slice"
    BY <2>1 DEF LinkTrue, Tidy, SendTrue
  <2>3. Pipe = <<>> => Pipe' = queue' BY <2>1, <2>2, ConcatEmptySeq
  <2>4. Pipe # <<>> BY <1>0, <2>2, <2>3
  <2>5. Len(Pipe) \in Nat \ {0} /\ Len(queue') \in Nat BY <2>2, <2>4, EmptySeq, LenProperties
  <2>6. \A i \in 1 .. Len(Pipe) + Len(queue') :
          Pipe'[i] = IF i <= Len(Pipe) THEN Pipe[i] ELSE queue'[i - Len(Pipe)]
    BY <2>1, <2>2, ConcatProperties
  <2>7. Pipe'[1] = Pipe[1] BY <2>5, <2>6
  <2> QED BY <1>3, <2>4, <2>7
<1>6. CASE WriteCancelled
  <2>1. sent \in Seq(Messages) /\ Tidy(Pipe, program[Sender], sent) BY DEF LinkTrue, SentTrue
  <2>2. /\ wire # <<>> => Pipe' # <<>> /\ Pipe'[1] = Pipe[1] /\ Pipe # <<>>
        /\ wire = <<>> => \/ Pipe' # <<>> /\ Pipe'[1] = Cancel
                          \/ Pipe' = <<>>
    BY <1>6, <2>1, PipeCancelled
  <2>3. Cancel.kind # "slice" BY DEF Cancel
  <2> QED BY <1>0, <1>3, <2>2, <2>3
<1>7. CASE StreamEnds
  <2>1. queue' = <<>> BY <1>7 DEF StreamEnds
  <2>2. PICK k \in 0..Len(wire) : wire' = SubSeq(wire, 1, k) BY <1>7 DEF StreamEnds
  <2>3. /\ Pipe' = wire' /\ wire' \in Seq(Frame) /\ Len(Pipe') = k /\ k \in 0..Len(Pipe)
        /\ \A i \in 1..k : Pipe'[i] = Pipe[i]
    BY <2>1, <2>2, PipeEnds
  <2>4. Len(Pipe) \in Nat BY LenProperties DEF LinkTrue, Tidy
  <2>5. k # 0 BY <1>0, <2>3, EmptySeq
  <2>6. 1 \in 1..k /\ Len(Pipe) # 0 BY <2>3, <2>4, <2>5
  <2>7. Pipe # <<>> BY <2>6, EmptySeq
  <2> QED BY <1>3, <2>3, <2>6, <2>7
<1>8. Sends => Goal BY <1>5, Zenon DEF Sends
<1>9. ~SendDatagram BY <1>1 DEF SendDatagram
<1> QED BY <1>2, <1>4, <1>6, <1>7, <1>8, <1>9, LinkMoves

(* Meanwhile the receiver keeps the message it has begun. *)
LEMMA MessageWaits ==
  ASSUME [Next]_vars, ~Reading, ~ReadingSpoilt, ~ReadMiddle, ~SetStreamClient,
         transport = "stream"
  PROVE  mMessage' = mMessage /\ told' = told
BY DEF Next, Reading, ReadingSpoilt, Takes, vars, recvVars, bufferVars, Build, InitStatic, RegistDynamic, Send,
       WriteFrame, WriteCancelled, StreamEnds, SendDatagram, StopRecv,
       RecvVersionDatagram, RecvDatagram, RecvTruncated, Datagram

(* The frame before a slice is its header, whose number made the message,  *)
(* or the slice before it.                                                 *)
LEMMA SliceIsNext ==
  ASSUME LinkTrue, BufferTrue, Reading, SliceFirst(Pipe')
  PROVE  LET f == Incoming IN
         /\ sent' = sent /\ told' = told /\ Ready
         /\ f.m \in DOMAIN sent /\ Pipe'[1].m = f.m
         /\ \/ mMessage' = CreateProto(f.data) /\ f.data = sent[f.m].number
            \/ SliceFirst(Pipe) /\ Pipe[1].m = f.m /\ mMessage' = mMessage
<1> DEFINE f == Incoming
<1>1. /\ Pipe # <<>> /\ Pipe' = Tail(Pipe) /\ Pipe[1] = f
      /\ FrameTrue(f, program[Sender], sent)
  BY ReadFrame
<1>2. sent' = sent /\ Ready BY ReadingIs
<1>3. Pipe' # <<>> /\ Follows(f, Pipe'[1]) /\ Pipe'[1].kind = "slice"
  BY <1>1, NextFrame DEF LinkTrue, SliceFirst
<1>4. Open(f) /\ Pipe'[1].m = f.m /\ f.kind \in {"sliceHeader", "slice"}
  BY <1>3 DEF Follows, Open
<1>5. f.m \in DOMAIN sent BY <1>1, <1>4 DEF FrameTrue, Carries
<1>6. CASE f.kind = "sliceHeader"
  <2>1. ReadSliceHeader
    BY <1>6 DEF Reading, Takes, ReadCancel, ReadVersion, ReadComplete, ReadSlice, Reads
  <2>2. mMessage' = CreateProto(f.data) /\ told' = told BY <2>1 DEF ReadSliceHeader
  <2>3. f.data = sent[f.m].number BY <1>1, <1>6 DEF FrameTrue
  <2> QED BY <1>2, <1>4, <1>5, <2>2, <2>3
<1>7. CASE f.kind = "slice"
  <2> DEFINE b == Filled(mBuffer, f)
             n == Len(f.units)
             z == sent[f.m].size
             o == f.data
  <2>1. ReadSlice
    BY <1>7 DEF Reading, Takes, ReadCancel, ReadVersion, ReadComplete, ReadSliceHeader, Reads
  <2>2. mBuffer \in Seq(Units) /\ Agrees(f, mBuffer, mSliceSizeCount, sent)
    BY <1>1 DEF BufferTrue
  <2>3. /\ mSliceSizeCount = o /\ Len(mBuffer) = z
        /\ \A i \in 1..o : mBuffer[i] = <<f.m, i>>
    BY <1>7, <2>2 DEF Agrees
  <2>4. sent \in Seq(Messages) BY DEF LinkTrue, SentTrue
  <2>5. SliceTrue(f, z) /\ f.m \in Nat /\ z \in Nat \ {0}
    BY <1>1, <1>7, <2>4, FrameUnits DEF FrameTrue, Carries
  <2>6. f.last <=> (o + n = z) BY <2>5 DEF SliceTrue
  <2>7. Len(b) = z BY <2>2, <2>3, <2>5, FilledIs
  <2>8. mSliceSizeCount + n # Len(b) BY <1>4, <1>7, <2>3, <2>6, <2>7 DEF Open
  <2>9. mMessage' = mMessage /\ told' = told
    <3> HIDE DEF Filled
    <3> QED BY <2>1, <2>8 DEF ReadSlice
  <2>10. SliceFirst(Pipe) /\ Pipe[1].m = f.m BY <1>1, <1>7 DEF SliceFirst
  <2> QED BY <1>2, <1>4, <1>5, <2>9, <2>10
<1> QED BY <1>4, <1>6, <1>7

(* Looking a name up gives that protocol or none. *)
LEMMA CreateNamedIs ==
  ASSUME NEW p, NEW statics, ProgramTrue(p, statics), NEW n
  PROVE  CreateNamed(p, n) = NoProto \/ CreateNamed(p, n) = n
<1>1. p.size \in Nat /\ NumbersTrue(p) BY DEF ProgramTrue, Programs
<1>2. CASE n \in DOMAIN p.types
  <2>1. CreateNamed(p, n) = Create(p, p.types[n]) BY <1>2 DEF CreateNamed, Number
  <2>2. Create(p, p.types[n]) # NoProto =>
          /\ Create(p, p.types[n]) \in DOMAIN p.types
          /\ p.types[Create(p, p.types[n])] = p.types[n]
    BY CreateIs
  <2> QED BY <1>1, <1>2, <2>1, <2>2 DEF NumbersTrue
<1>3. CASE n \notin DOMAIN p.types
  <2>1. CreateNamed(p, n) = Create(p, -1) BY <1>3 DEF CreateNamed, Number
  <2>2. ~(-1 > 0) /\ ~(-1 >= p.size) BY <1>1
  <2>3. Create(p, -1) = NoProto BY <2>2 DEF Create
  <2> QED BY <2>1, <2>3
<1> QED BY <1>2, <1>3

(* Numbers that were asked for mean the same in both programs. *)
ReservedMeanTheSame ==
  \A n \in Statics[Sender], o \in Statics[Receiver] :
    Specify[n] # -1 /\ Specify[n] = Specify[o] => n = o

(* Protocols of the sender with a number that was asked for are linked     *)
(* into the receiver.                                                      *)
ReservedAreShared == \A n \in Statics[Sender] : Specify[n] # -1 => n \in Statics[Receiver]

LEMMA SentNumber ==
  ASSUME FactoriesTrue, LinkTrue, NEW m \in DOMAIN sent
  PROVE  LET n == sent[m].name
             p == program[Sender]
         IN  /\ n \in DOMAIN p.types /\ n \in Name /\ sent[m].number = p.types[n]
             /\ sent[m].number \in Int
             /\ sent[m].number <= Reserved =>
                  n \in Statics[Sender] /\ Specify[n] # -1 /\ sent[m].number = Specify[n]
<1> DEFINE n == sent[m].name
           p == program[Sender]
<1>1. n \in DOMAIN p.types /\ sent[m].number = p.types[n] BY DEF LinkTrue, SentTrue
<1>2. ProgramTrue(p, Statics[Sender]) BY DEF FactoriesTrue, Side
<1> HIDE DEF p, n
<1>3. p.types \in Partial(Name, Int) /\ NumbersTrue(p) /\ p.statics \subseteq Statics[Sender]
  BY <1>2 DEF ProgramTrue, Programs
<1>4. n \in Name /\ p.types[n] \in Int BY <1>1, <1>3, PartialElim
<1>5. p.types[n] <= Reserved => p.types[n] = Specify[n] /\ n \in p.statics /\ Specify[n] # -1
  BY <1>1, <1>3 DEF NumbersTrue
<1> QED BY <1>1, <1>3, <1>4, <1>5 DEF p, n

(* What the table of the sender says of the number of a message. *)
LEMMA TableNames ==
  ASSUME FactoriesTrue, LinkTrue, TableTrue, told, NEW m \in DOMAIN sent,
         sent[m].number \in DOMAIN mProtocolTable
  PROVE  mProtocolTable[sent[m].number] \in {Unnamed, sent[m].name}
<1> DEFINE n == sent[m].name
           p == program[Sender]
           t == sent[m].number
<1>1. n \in DOMAIN p.types /\ t = p.types[n] BY SentNumber
<1>2. ProgramTrue(p, Statics[Sender]) BY DEF FactoriesTrue, Side
<1>3. \A x, y \in DOMAIN p.types : p.types[x] = p.types[y] => x = y
  BY <1>2 DEF ProgramTrue, NumbersTrue
<1>4. mProtocolTable[t] = Unnamed \/ (mProtocolTable[t] \in DOMAIN p.types /\ p.types[mProtocolTable[t]] = t)
  BY DEF TableTrue, GoodTable, TrueTable
<1> QED BY <1>1, <1>3, <1>4

(* With a table, a number creates the protocol it was sent with, or none. *)
LEMMA CreateMeans ==
  ASSUME FactoriesTrue, LinkTrue, TableTrue, SenderCounts, ReservedMeanTheSame,
         told, NEW m \in DOMAIN sent
  PROVE  CreateProto(sent[m].number) \in {NoProto, Unnamed, sent[m].name}
<1> DEFINE n == sent[m].name
           t == sent[m].number
           q == program[Receiver]
<1>1. ProgramTrue(q, Statics[Receiver]) BY DEF FactoriesTrue, Side
<1>2. mProtocolTable # <<>> BY DEF TableTrue, GoodTable
<1>3. CASE t <= Reserved
  <2>1. CreateProto(t) = Create(q, t) BY <1>3 DEF CreateProto
  <2>2. n \in Statics[Sender] /\ Specify[n] # -1 /\ t = Specify[n] BY <1>3, SentNumber
  <2> DEFINE o == Create(q, t)
  <2>3. o # NoProto => o \in DOMAIN q.types /\ q.types[o] = t BY <1>1, CreateIs
  <2>4. NumbersTrue(q) /\ q.statics \subseteq Statics[Receiver] BY <1>1 DEF ProgramTrue
  <2> HIDE DEF o, q, t
  <2>5. o # NoProto => o \in Statics[Receiver] /\ Specify[o] = t
    BY <1>3, <2>3, <2>4 DEF NumbersTrue
  <2>6. o # NoProto => o = n BY <2>2, <2>5 DEF ReservedMeanTheSame
  <2> QED BY <2>1, <2>6 DEF o, q, t
<1>4. CASE ~(t <= Reserved)
  <2>1. CreateProto(t) = IF t \in DOMAIN mProtocolTable THEN CreateNamed(q, mProtocolTable[t]) ELSE NoProto
    BY <1>2, <1>4 DEF CreateProto
  <2>2. t \in DOMAIN mProtocolTable => mProtocolTable[t] \in {Unnamed, n} BY TableNames
  <2>3. \A x : CreateNamed(q, x) = NoProto \/ CreateNamed(q, x) = x BY <1>1, CreateNamedIs
  <2> QED BY <2>1, <2>2, <2>3
<1> QED BY <1>3, <1>4

(* A reserved number always creates its protocol. *)
LEMMA ReservedFound ==
  ASSUME FactoriesTrue, LinkTrue, NumbersArePositive, ReservedAreShared, Ready,
         NEW m \in DOMAIN sent, sent[m].number <= Reserved
  PROVE  CreateProto(sent[m].number) # NoProto
<1> DEFINE n == sent[m].name
           t == sent[m].number
           q == program[Receiver]
<1>1. ProgramTrue(q, Statics[Receiver]) /\ q.built BY DEF FactoriesTrue, Side, Ready
<1>2. n \in Statics[Sender] /\ Specify[n] # -1 /\ t = Specify[n] /\ n \in Name BY SentNumber
<1>3. n \in Statics[Receiver] BY <1>2 DEF ReservedAreShared
<1>4. CreateProto(t) = Create(q, t) BY DEF CreateProto
<1>5. q.statics = Statics[Receiver] /\ NumbersTrue(q) BY <1>1 DEF ProgramTrue
<1> HIDE DEF q, n, t
<1>6. n \in DOMAIN q.types /\ q.types[n] = t BY <1>2, <1>3, <1>5 DEF NumbersTrue
<1>7. t > 0
  <2>1. Specify[n] = -1 \/ Specify[n] > 0 BY <1>3 DEF NumbersArePositive, Side
  <2> QED BY <1>2, <2>1
<1>8. Create(q, q.types[n]) = n BY <1>1, <1>6, <1>7, CreateFinds
<1>9. n # NoProto BY <1>2, FactoryAssumption DEF Name
<1> QED BY <1>4, <1>6, <1>8, <1>9 DEF q, t

(* A message whose slices are being read has the protocol it was sent      *)
(* with, or none.                                                          *)
NameTrue ==
  SliceFirst(Pipe) /\ told => mMessage \in {NoProto, Unnamed, sent[Pipe[1].m].name}

(* If its number is reserved, it has one. *)
FoundTrue ==
  SliceFirst(Pipe) /\ sent[Pipe[1].m].number <= Reserved => mMessage # NoProto

LEMMA NoSliceAtFirst == Init => ~SliceFirst(Pipe)
<1> SUFFICES ASSUME Init PROVE Pipe = <<>>
  BY DEF SliceFirst
<1>1. wire = <<>> /\ queue = <<>> BY DEF Init
<1>2. <<>> \in Seq(Frame) BY EmptySeq
<1> QED BY <1>1, <1>2, ConcatEmptySeq DEF Pipe

(* A slice at the head of the pipe was written before any damage.          *)
LEMMA SliceSound ==
  ASSUME LinkTrue, SliceFirst(Pipe)
  PROVE  Sound
<1>1. CASE broken BY <1>1 DEF Pipe, SliceFirst, Sound
<1>2. CASE ~broken BY <1>2 DEF Sound
<1>3. broken \in BOOLEAN BY DEF LinkTrue
<1> QED BY <1>1, <1>2, <1>3

(* What a slice at the head of the pipe belongs to is in the log. *)
LEMMA SliceMessage ==
  ASSUME FactoriesTrue, LinkTrue, [Next]_vars, SliceFirst(Pipe)
  PROVE  Pipe[1].m \in DOMAIN sent /\ sent'[Pipe[1].m] = sent[Pipe[1].m]
<1>1. GoodFrame(Pipe[1], program[Sender], sent) BY NextFrame DEF LinkTrue, SliceFirst
<1>2. FrameTrue(Pipe[1], program[Sender], sent) BY <1>1, FrameIs DEF LinkTrue, SentTrue
<1>3. Pipe[1].m \in DOMAIN sent BY <1>2 DEF FrameTrue, Carries, SliceFirst
<1>4. Extends(sent, sent') BY PipeElements
<1> QED BY <1>3, <1>4 DEF Extends

LEMMA NameStep ==
  ASSUME SenderCounts, ReservedMeanTheSame,
         FactoriesTrue, LinkTrue, Sound => TableTrue, Sound => BufferTrue, NameTrue, [Next]_vars
  PROVE  NameTrue'
<1> SUFFICES ASSUME SliceFirst(Pipe'), told'
             PROVE  mMessage' \in {NoProto, Unnamed, sent'[Pipe'[1].m].name}
  BY DEF NameTrue
<1>1. CASE Reading
  <2> DEFINE f == Incoming
  <2>0. TableTrue /\ BufferTrue BY <1>1, ReadingIs
  <2>1. /\ sent' = sent /\ told' = told
        /\ f.m \in DOMAIN sent /\ Pipe'[1].m = f.m
        /\ \/ mMessage' = CreateProto(f.data) /\ f.data = sent[f.m].number
           \/ SliceFirst(Pipe) /\ Pipe[1].m = f.m /\ mMessage' = mMessage
    BY <1>1, <2>0, SliceIsNext
  <2> HIDE DEF f
  <2>2. CASE mMessage' = CreateProto(f.data) /\ f.data = sent[f.m].number
    <3>1. CreateProto(sent[f.m].number) \in {NoProto, Unnamed, sent[f.m].name}
      BY <2>0, <2>1, CreateMeans
    <3> QED BY <2>1, <2>2, <3>1
  <2>3. CASE SliceFirst(Pipe) /\ Pipe[1].m = f.m /\ mMessage' = mMessage
    BY <2>1, <2>3 DEF NameTrue
  <2> QED BY <2>1, <2>2, <2>3
<1>2. CASE ~Reading
  <2>1. /\ SliceFirst(Pipe) /\ Pipe'[1] = Pipe[1] /\ transport = "stream"
        /\ ~SetStreamClient /\ ~ReadingSpoilt /\ ~ReadMiddle
    BY <1>2, SliceWaits
  <2>2. mMessage' = mMessage /\ told' = told BY <1>2, <2>1, MessageWaits
  <2>3. sent'[Pipe[1].m] = sent[Pipe[1].m] BY <2>1, SliceMessage
  <2> QED BY <2>1, <2>2, <2>3 DEF NameTrue
<1> QED BY <1>1, <1>2

LEMMA FoundStep ==
  ASSUME NumbersArePositive, ReservedAreShared,
         FactoriesTrue, LinkTrue, Sound => BufferTrue, FoundTrue, [Next]_vars
  PROVE  FoundTrue'
<1> SUFFICES ASSUME SliceFirst(Pipe'), sent'[Pipe'[1].m].number <= Reserved
             PROVE  mMessage' # NoProto
  BY DEF FoundTrue
<1>1. CASE Reading
  <2> DEFINE f == Incoming
  <2>0. BufferTrue BY <1>1, ReadingIs
  <2>1. /\ sent' = sent /\ Ready
        /\ f.m \in DOMAIN sent /\ Pipe'[1].m = f.m
        /\ \/ mMessage' = CreateProto(f.data) /\ f.data = sent[f.m].number
           \/ SliceFirst(Pipe) /\ Pipe[1].m = f.m /\ mMessage' = mMessage
    BY <1>1, <2>0, SliceIsNext
  <2> HIDE DEF f
  <2>2. CASE mMessage' = CreateProto(f.data) /\ f.data = sent[f.m].number
    <3>1. sent[f.m].number <= Reserved BY <2>1
    <3>2. CreateProto(sent[f.m].number) # NoProto BY <2>1, <3>1, ReservedFound
    <3> QED BY <2>2, <3>2
  <2>3. CASE SliceFirst(Pipe) /\ Pipe[1].m = f.m /\ mMessage' = mMessage
    BY <2>1, <2>3 DEF FoundTrue
  <2> QED BY <2>1, <2>2, <2>3
<1>2. CASE ~Reading
  <2>1. /\ SliceFirst(Pipe) /\ Pipe'[1] = Pipe[1] /\ transport = "stream"
        /\ ~SetStreamClient /\ ~ReadingSpoilt /\ ~ReadMiddle
    BY <1>2, SliceWaits
  <2>2. mMessage' = mMessage BY <1>2, <2>1, MessageWaits
  <2>3. sent'[Pipe[1].m] = sent[Pipe[1].m] BY <2>1, SliceMessage
  <2> QED BY <2>1, <2>2, <2>3 DEF FoundTrue
<1> QED BY <1>1, <1>2

(* The frame that ends the message a recv returns, before any damage. *)
LEMMA ReceivesOne ==
  ASSUME LinkTrue, Sound => BufferTrue, [Next]_vars, received' # received, ~ReadingSpoilt
  PROVE  /\ Sound
         /\ \E f : /\ f.m \in DOMAIN sent /\ sent' = sent /\ Ends(f)
                   /\ f.kind = "complete" => f.data = sent[f.m].number
                   /\ f.kind # "complete" => SliceFirst(Pipe) /\ Pipe[1].m = f.m
                   /\ Finishes(f, ProtoOf(f))
<1>1. CASE Reading
  <2> DEFINE f == Incoming
  <2>0. BufferTrue /\ Sound BY <1>1, ReadingIs
  <2>1. Ends(f) /\ f.m \in DOMAIN sent /\ Finishes(f, ProtoOf(f)) BY <1>1, <2>0, StreamFinishes
  <2>2. sent' = sent BY <1>1, ReadingIs
  <2>3. Pipe # <<>> /\ Pipe[1] = f /\ FrameTrue(f, program[Sender], sent) BY <1>1, ReadFrame
  <2> HIDE DEF f
  <2>4. f.kind = "complete" => f.data = sent[f.m].number BY <2>3 DEF FrameTrue
  <2>5. f.kind # "complete" => SliceFirst(Pipe) /\ Pipe[1].m = f.m
    BY <2>1, <2>3 DEF SliceFirst, Ends
  <2> QED BY <2>0, <2>1, <2>2, <2>4, <2>5
<1>2. ASSUME NEW d \in net, RecvDatagram(d)
      PROVE  /\ Sound
             /\ \E f : /\ f.m \in DOMAIN sent /\ sent' = sent /\ Ends(f)
                       /\ f.kind = "complete" => f.data = sent[f.m].number
                       /\ f.kind # "complete" => SliceFirst(Pipe) /\ Pipe[1].m = f.m
                       /\ Finishes(f, ProtoOf(f))
  <2>0. Sound BY <1>2 DEF RecvDatagram, Datagram, LinkTrue, Sound
  <2>1. d.kind = "complete" /\ d.m \in DOMAIN sent /\ Finishes(d, ProtoOf(d))
    BY <1>2, DatagramFinishes
  <2>2. sent' = sent BY <1>2 DEF RecvDatagram, AroundDatagram, sendVars
  <2>3. d.data = sent[d.m].number BY <2>1, NetFrame DEF FrameTrue
  <2> QED BY <2>0, <2>1, <2>2, <2>3 DEF Ends
<1> QED BY <1>1, <1>2, NothingReturned

(* What recv returned with a table has the name it was sent with, or none. *)
NamedTrue ==
  \A k \in 1..Len(received) :
    LET e == received[k] IN
      (e.sound /\ e.told /\ ~(e.raw /\ e.sliced)) => e.name \in {Unnamed, sent[MessageOf(e)].name}

(* The result for the frame f that ends a message. *)
LEMMA ResultNamed ==
  ASSUME SenderCounts, ReservedMeanTheSame, FactoriesTrue, LinkTrue, TableTrue, MessageTrue,
         NameTrue, received' # received, NEW f, f.m \in DOMAIN sent, Ends(f),
         f.kind = "complete" => f.data = sent[f.m].number,
         f.kind # "complete" => SliceFirst(Pipe) /\ Pipe[1].m = f.m,
         Finishes(f, ProtoOf(f))
  PROVE  \E e :
           /\ received' = Append(received, e) /\ MessageOf(e) = f.m
           /\ (e.told /\ ~(e.raw /\ e.sliced)) => e.name \in {Unnamed, sent[f.m].name}
<1>2. CASE ProtoOf(f) # NoProto /\ received' = Append(received, Known(ProtoOf(f), Payload(f.m), f))
  <2> DEFINE n == ProtoOf(f)
  <2>2. told => n \in {NoProto, Unnamed, sent[f.m].name}
    <3>1. CASE f.kind = "complete"
      BY <3>1, CreateMeans DEF ProtoOf
    <3>2. CASE f.kind # "complete"
      BY <3>2 DEF ProtoOf, NameTrue
    <3> QED BY <3>1, <3>2
  <2> HIDE DEF n
  <2> DEFINE e == Known(n, Payload(f.m), f)
  <2>3. e = Known(n, Payload(f.m), f) OBVIOUS
  <2> HIDE DEF e
  <2>4. MessageOf(e) = f.m /\ e.name = n /\ e.told = told BY <2>3, ResultIs
  <2>5. received' = Append(received, e) BY <1>2 DEF e, n
  <2>6. n # NoProto BY <1>2 DEF n
  <2>7. e.told => e.name \in {Unnamed, sent[f.m].name} BY <2>2, <2>4, <2>6
  <2> QED BY <2>4, <2>5, <2>7
<1>3. CASE received' = Append(received, Raw(NameOf(f.data), Payload(f.m), f))
  <2> DEFINE n == NameOf(f.data)
  <2>2. told /\ f.kind = "complete" => n \in {Unnamed, sent[f.m].name} BY TableNames DEF NameOf
  <2> HIDE DEF n
  <2> DEFINE e == Raw(n, Payload(f.m), f)
  <2>3. e = Raw(n, Payload(f.m), f) OBVIOUS
  <2>4. e.raw /\ e.sliced = (f.kind = "slice") BY DEF Raw
  <2> HIDE DEF e
  <2>5. MessageOf(e) = f.m /\ e.name = n /\ e.told = told BY <2>3, ResultIs
  <2>6. received' = Append(received, e) BY <1>3 DEF e, n
  <2>7. ~(e.raw /\ e.sliced) => f.kind = "complete" BY <2>4 DEF Ends
  <2>8. e.told /\ ~(e.raw /\ e.sliced) => e.name \in {Unnamed, sent[f.m].name} BY <2>2, <2>5, <2>7
  <2> QED BY <2>5, <2>6, <2>8
<1> QED BY <1>2, <1>3 DEF Finishes

LEMMA NamedStep ==
  ASSUME SenderCounts, ReservedMeanTheSame, StreamTrue, NameTrue, NamedTrue,
         [Next]_vars
  PROVE  NamedTrue'
<1>0. /\ FactoriesTrue /\ LinkTrue /\ (Sound => TableTrue) /\ (Sound => BufferTrue)
      /\ MessageTrue /\ ReceivedTrue
  BY DEF StreamTrue
<1>1. CASE received' = received
  <2>1. Extends(sent, sent') BY <1>0, PipeElements
  <2> QED BY <1>0, <1>1, <2>1 DEF NamedTrue, ReceivedTrue, Intact, Extends
<1>1a. CASE ReadingSpoilt /\ received' # received
  <2>1. PICK e : ~e.sound /\ received' = Append(received, e) BY <1>0, <1>1a, SpoiltReturned
  <2>2. sent' = sent BY <1>0, <1>1a, ReadingSpoiltIs DEF QuietLink
  <2>3. /\ Len(received) \in Nat /\ Len(received') = Len(received) + 1
        /\ \A k \in 1..(Len(received) + 1) :
             received'[k] = IF k = Len(received) + 1 THEN e ELSE received[k]
    BY <1>0, <2>1, ResultAdded DEF ReceivedTrue
  <2>4. ASSUME NEW k \in 1..Len(received'), received'[k].sound, received'[k].told,
               ~(received'[k].raw /\ received'[k].sliced)
        PROVE  received'[k].name \in {Unnamed, sent'[MessageOf(received'[k])].name}
    <3>1. k # Len(received) + 1 BY <2>1, <2>3, <2>4
    <3>2. k \in 1..Len(received) /\ received'[k] = received[k] BY <2>3, <3>1
    <3> QED BY <2>2, <2>4, <3>2 DEF NamedTrue
  <2> QED BY <2>4 DEF NamedTrue
<1>2. CASE received' # received /\ ~ReadingSpoilt
  <2>1. PICK f : /\ f.m \in DOMAIN sent /\ sent' = sent /\ Ends(f)
                 /\ f.kind = "complete" => f.data = sent[f.m].number
                 /\ f.kind # "complete" => SliceFirst(Pipe) /\ Pipe[1].m = f.m
                 /\ Finishes(f, ProtoOf(f))
    BY <1>0, <1>2, ReceivesOne
  <2>1a. TableTrue /\ BufferTrue BY <1>0, <1>2, ReceivesOne
  <2>2. PICK e :
          /\ received' = Append(received, e) /\ MessageOf(e) = f.m
          /\ (e.told /\ ~(e.raw /\ e.sliced)) => e.name \in {Unnamed, sent[f.m].name}
    BY <1>0, <1>2, <2>1, <2>1a, ResultNamed
  <2>3. /\ Len(received) \in Nat /\ Len(received') = Len(received) + 1
        /\ \A k \in 1..(Len(received) + 1) :
             received'[k] = IF k = Len(received) + 1 THEN e ELSE received[k]
    BY <1>0, <2>2, ResultAdded DEF ReceivedTrue
  <2>4. ASSUME NEW k \in 1..Len(received'), received'[k].sound, received'[k].told,
               ~(received'[k].raw /\ received'[k].sliced)
        PROVE  received'[k].name \in {Unnamed, sent'[MessageOf(received'[k])].name}
    <3>1. CASE k = Len(received) + 1 BY <2>1, <2>2, <2>3, <2>4, <3>1
    <3>2. CASE k # Len(received) + 1
      <4>1. k \in 1..Len(received) /\ received'[k] = received[k] BY <2>3, <3>2
      <4> QED BY <2>1, <2>4, <4>1 DEF NamedTrue
    <3> QED BY <3>1, <3>2
  <2> QED BY <2>4 DEF NamedTrue
<1> QED BY <1>1, <1>1a, <1>2

(* The rest of the types. *)
Others == aligned \in BOOLEAN /\ whole \subseteq DOMAIN sent

LEMMA OthersStep ==
  ASSUME FactoriesTrue, LinkTrue, Others, [Next]_vars
  PROVE  Others'
<1>1. Extends(sent, sent') BY PipeElements
<1>2. aligned' \in BOOLEAN
  BY DEF Others, Next, vars, recvVars, Build, InitStatic, RegistDynamic, Send, WriteFrame,
         WriteCancelled, StreamEnds, SendDatagram, Reads, ReadCancel, ReadVersion, ReadComplete,
         ReadSliceHeader, ReadSlice, ReadMiddle, StopRecv, SetStreamClient, RecvVersionDatagram,
         RecvDatagram, RecvTruncated
<1>3. CASE WriteFrame /\ ~broken
  <2>1. sent' = sent /\ queue # <<>>
        /\ whole' = IF Ends(Head(queue)) THEN whole \cup {Head(queue).m} ELSE whole
    BY <1>3 DEF WriteFrame
  <2>2. FrameTrue(Head(queue), program[Sender], sent)
    <3>1. wire \in Seq(Frame) /\ queue \in Seq(Frame) /\ sent \in Seq(Messages)
      BY DEF LinkTrue, SentTrue
    <3>2. Len(wire) \in Nat /\ Len(queue) \in Nat \ {0} /\ Head(queue) = queue[1]
      BY <2>1, <3>1, EmptySeq, LenProperties
    <3>3. /\ Len(Pipe) = Len(wire) + Len(queue)
          /\ \A i \in 1 .. Len(wire) + Len(queue) :
               Pipe[i] = IF i <= Len(wire) THEN wire[i] ELSE queue[i - Len(wire)]
      BY <1>3, <3>1, ConcatProperties DEF Pipe
    <3>4. Len(wire) + 1 \in 1..Len(Pipe) /\ Pipe[Len(wire) + 1] = Head(queue)
      <4>1. Len(wire) + 1 \in 1..Len(Pipe) /\ ~(Len(wire) + 1 <= Len(wire))
            /\ Len(wire) + 1 - Len(wire) = 1
        BY <3>2, <3>3
      <4> QED BY <3>2, <3>3, <4>1
    <3>5. GoodFrame(Head(queue), program[Sender], sent) BY <3>4 DEF LinkTrue, Tidy
    <3> QED BY <3>1, <3>5, FrameIs
  <2>3. Ends(Head(queue)) => Head(queue).m \in DOMAIN sent BY <2>2 DEF FrameTrue, Ends, Carries
  <2> QED BY <1>2, <2>1, <2>3 DEF Others
<1>4. CASE whole' = whole \/ whole' = {}
  BY <1>1, <1>2, <1>4 DEF Others, Extends
<1>5. CASE WriteFrame /\ broken
  <2>1. whole' = whole BY <1>5 DEF WriteFrame
  <2> QED BY <1>4, <2>1
<1>6. broken \in BOOLEAN BY DEF LinkTrue
<1> QED BY <1>3, <1>4, <1>5, <1>6
  DEF Next, vars, sendVars, Build, InitStatic, RegistDynamic, Send, WriteCancelled, StreamEnds,
      SendDatagram, Reads, ReadCancel, ReadVersion, ReadComplete, ReadSliceHeader, ReadSlice,
      ReadMiddle, StopRecv, SetStreamClient, AroundDatagram, RecvVersionDatagram, RecvDatagram, RecvTruncated

LEMMA TypesAreTrue ==
  ASSUME StreamTrue, Others
  PROVE  TypeOK
<1>0. FactoriesTrue /\ LinkTrue /\ (Sound => BufferTrue) /\ MessageTrue BY DEF StreamTrue
<1>1. ASSUME NEW s \in Side PROVE DOMAIN program[s].types \subseteq Name
  <2>1. program[s].types \in Partial(Name, Int)
    BY <1>0 DEF FactoriesTrue, ProgramTrue, Programs
  <2> QED BY <2>1, PartialElim
<1>2. ASSUME wire # <<>>, Head(wire).kind = "slice"
      PROVE  FitsIn(mBuffer, Head(wire))
  <2> DEFINE f == Head(wire)
  <2>1. wire \in Seq(Frame) /\ queue \in Seq(Frame) /\ sent \in Seq(Messages)
    BY <1>0 DEF LinkTrue, SentTrue
  <2>2. Pipe # <<>> /\ Pipe[1] = f
    <3>1. Head(wire) = wire[1] /\ Len(wire) \in Nat \ {0} BY <1>2, <2>1, EmptySeq
    <3>2. 1 \in 1..Len(wire) BY <3>1
    <3> QED BY <1>0, <1>2, <3>1, <3>2, PipeWire
  <2>2a. BufferTrue BY <1>0, <1>2 DEF Sound
  <2>3. GoodFrame(f, program[Sender], sent) BY <1>0, <2>2, NextFrame DEF LinkTrue
  <2>4. Agrees(f, mBuffer, mSliceSizeCount, sent) BY <2>2, <2>2a DEF BufferTrue
  <2> HIDE DEF f
  <2>5. f.kind = "slice" BY <1>2 DEF f
  <2>6. FrameTrue(f, program[Sender], sent) BY <2>1, <2>3, FrameIs
  <2>7. sent[f.m].size \in Nat \ {0} BY <2>1, <2>5, <2>6, FrameUnits DEF Carries
  <2>8. f.data + Len(f.units) <= sent[f.m].size
    <3> DEFINE z == sent[f.m].size
               o == f.data
               n == Len(f.units)
    <3>1. o \in 0..(z - 1) /\ n \in 1..(z - o) BY <2>5, <2>6 DEF FrameTrue, SliceTrue
    <3>2. z \in Nat BY <2>7
    <3> HIDE DEF z, o, n
    <3>3. o + n <= z BY <3>1, <3>2
    <3> QED BY <3>3 DEF z, o, n
  <2>9. Len(mBuffer) = sent[f.m].size BY <2>4, <2>5 DEF Agrees
  <2>10. f.data \in Int /\ Len(f.units) \in Int BY <2>5, <2>6, <2>7 DEF FrameTrue, SliceTrue
  <2>11. FitsIn(mBuffer, f) BY <2>7, <2>8, <2>9, <2>10 DEF FitsIn
  <2> QED BY <2>11 DEF f
<1>3. /\ transport \in {"stream", "datagram"} /\ mMessage \in Name \cup {NoProto}
      /\ broken \in BOOLEAN /\ (Sound => mSliceSizeCount \in 0..Len(mBuffer))
  BY <1>0 DEF LinkTrue, MessageTrue, BufferTrue
<1> QED BY <1>1, <1>2, <1>3 DEF TypeOK, Others

LEMMA NumbersAreUnique == ASSUME FactoriesTrue PROVE UniqueNumbers
BY DEF FactoriesTrue, ProgramTrue, NumbersTrue, UniqueNumbers

(* A number means one name: in a program, for its factory, and for a peer  *)
(* that was told its table, however the two programs number their          *)
(* protocols and whatever they register later (_createProto,               *)
(* _finishMessage).  The sender has a number that was counted, so that its *)
(* table is not empty: _createProto takes an empty one for none.           *)
THEOREM NumbersMeanNamesAlways ==
  NumbersArePositive /\ SenderCounts /\ ReservedMeanTheSame =>
    (Spec => []NumbersMeanNames)
<1> SUFFICES ASSUME NumbersArePositive, SenderCounts, ReservedMeanTheSame
             PROVE  Spec => []NumbersMeanNames
  OBVIOUS
<1> DEFINE IInv == StreamTrue /\ NameTrue /\ NamedTrue /\ Others
<1>1. Init => IInv
  <2> SUFFICES ASSUME Init PROVE IInv
    OBVIOUS
  <2>1. StreamTrue BY StreamStart
  <2>2. NameTrue BY NoSliceAtFirst DEF NameTrue
  <2>3. received = <<>> /\ Len(<<>>) = 0 BY EmptySeq DEF Init
  <2>4. NamedTrue BY <2>3 DEF NamedTrue
  <2>5. Others BY DEF Init, Others
  <2> QED BY <2>1, <2>2, <2>4, <2>5
<1>2. IInv /\ [Next]_vars => IInv'
  <2> SUFFICES ASSUME IInv, [Next]_vars PROVE IInv'
    OBVIOUS
  <2>0. FactoriesTrue /\ LinkTrue /\ (Sound => TableTrue) /\ (Sound => BufferTrue)
    BY DEF StreamTrue
  <2>1. StreamTrue' BY StreamStep
  <2>2. NameTrue' BY <2>0, NameStep
  <2>3. NamedTrue' BY NamedStep
  <2>4. Others' BY <2>0, OthersStep
  <2> QED BY <2>1, <2>2, <2>3, <2>4
<1>3. IInv => NumbersMeanNames
  <2> SUFFICES ASSUME IInv PROVE NumbersMeanNames
    OBVIOUS
  <2>1. FactoriesTrue /\ IsSeq(received) BY DEF StreamTrue, ReceivedTrue
  <2>2. UniqueNumbers /\ CreatesItsName BY <2>1, NumbersAreUnique, FactoriesCreate
  <2>3. DOMAIN received = 1..Len(received) BY <2>1, LenProperties DEF IsSeq
  <2>4. NamedAsSent BY <2>3 DEF NamedTrue, NamedAsSent, Trusted
  <2> QED BY <2>2, <2>4, TypesAreTrue DEF NumbersMeanNames
<1> HIDE DEF IInv
<1> QED BY <1>1, <1>2, <1>3, PTL DEF Spec

----------------------------------------------------------------------------
(* Messages with a reserved number.                                        *)

ArrivedIn(R, m) == \E k \in 1..Len(R) : R[k].sound /\ MessageOf(R[k]) = m /\ ~R[k].raw
EndsIn(P, m) == \E i \in 1..Len(P) : Ends(P[i]) /\ P[i].m = m

(* A message that was written in full has been received, or its end is     *)
(* still in the stream.                                                    *)
ArrivingTrue ==
  transport = "stream" /\ ~dead =>
    \A m \in whole : sent[m].number <= Reserved => ArrivedIn(received, m) \/ EndsIn(wire, m)

LEMMA ArrivedStays ==
  ASSUME NEW R, IsSeq(R), NEW e, NEW m,
         ArrivedIn(R, m) \/ (e.sound /\ MessageOf(e) = m /\ ~e.raw)
  PROVE  ArrivedIn(Append(R, e), m)
<1> DEFINE A == Append(R, e)
<1>1. /\ Len(R) \in Nat /\ Len(A) = Len(R) + 1
      /\ \A k \in 1..(Len(R) + 1) : A[k] = IF k = Len(R) + 1 THEN e ELSE R[k]
  BY ResultAdded
<1> HIDE DEF A
<1>2. CASE ArrivedIn(R, m)
  <2>1. PICK k \in 1..Len(R) : R[k].sound /\ MessageOf(R[k]) = m /\ ~R[k].raw BY <1>2 DEF ArrivedIn
  <2>2. k \in 1..Len(A) /\ A[k] = R[k] BY <1>1
  <2> QED BY <2>1, <2>2 DEF ArrivedIn, A
<1>3. CASE e.sound /\ MessageOf(e) = m /\ ~e.raw
  <2>1. Len(A) \in 1..Len(A) /\ A[Len(A)] = e BY <1>1
  <2> QED BY <1>3, <2>1 DEF ArrivedIn, A
<1> QED BY <1>2, <1>3

(* The last frame of a message with a reserved number gives the message. *)
LEMMA ReservedReceived ==
  ASSUME NumbersArePositive, ReservedAreShared, FactoriesTrue, LinkTrue, BufferTrue,
         ReceivedTrue, FoundTrue, [Next]_vars, Reading, Ends(Incoming),
         sent[Incoming.m].number <= Reserved
  PROVE  ArrivedIn(received', Incoming.m)
<1> DEFINE f == Incoming
<1>1. f.m \in DOMAIN sent /\ Finishes(f, ProtoOf(f)) BY StreamFinishes
<1>2. Pipe # <<>> /\ Pipe[1] = f /\ FrameTrue(f, program[Sender], sent) BY ReadFrame
<1>3. Ready /\ Sound BY ReadingIs
<1>4. Ends(f) /\ sent[f.m].number <= Reserved OBVIOUS
<1> HIDE DEF f
<1>5. ProtoOf(f) # NoProto
  <2>1. CASE f.kind = "complete"
    <3>1. f.data = sent[f.m].number BY <1>2, <2>1 DEF FrameTrue
    <3>2. CreateProto(f.data) # NoProto BY <1>1, <1>3, <1>4, <3>1, ReservedFound
    <3> QED BY <2>1, <3>2 DEF ProtoOf
  <2>2. CASE f.kind # "complete"
    <3>1. SliceFirst(Pipe) BY <1>2, <1>4, <2>2 DEF SliceFirst, Ends
    <3>2. mMessage # NoProto BY <1>2, <1>4, <3>1 DEF FoundTrue
    <3> QED BY <2>2, <3>2 DEF ProtoOf
  <2> QED BY <2>1, <2>2
<1> DEFINE n == ProtoOf(f)
<1> HIDE DEF n
<1> DEFINE e == Known(n, Payload(f.m), f)
<1>7. e = Known(n, Payload(f.m), f) OBVIOUS
<1>8. ~e.raw BY DEF Known
<1> HIDE DEF e
<1>9. received' = Append(received, e) BY <1>1, <1>5, <1>7 DEF Finishes, n
<1>10. e.sound /\ MessageOf(e) = f.m
  <2>1. MessageOf(e) = f.m /\ e.sound = Sound BY <1>1, <1>7, ResultIs
  <2> QED BY <1>3, <2>1
<1>11. IsSeq(received) BY DEF ReceivedTrue
<1>12. ArrivedIn(Append(received, e), f.m) BY <1>8, <1>10, <1>11, ArrivedStays
<1> QED BY <1>9, <1>12 DEF f

LEMMA ReceivedGrows ==
  ASSUME LinkTrue, Sound => BufferTrue, ReceivedTrue, [Next]_vars, NEW m, ArrivedIn(received, m)
  PROVE  ArrivedIn(received', m)
<1>1. CASE received' = received BY <1>1
<1>2. CASE received' # received
  <2>1. \E e : received' = Append(received, e)
    <3>1. CASE ReadingSpoilt BY <1>2, <3>1, SpoiltReturned
    <3>2. CASE ~ReadingSpoilt
      <4>1. PICK f : Finishes(f, ProtoOf(f)) BY <1>2, <3>2, ReceivesOne
      <4> QED BY <1>2, <4>1 DEF Finishes
    <3> QED BY <3>1, <3>2
  <2>2. IsSeq(received) BY DEF ReceivedTrue
  <2> QED BY <2>1, <2>2, ArrivedStays
<1> QED BY <1>1, <1>2

(* What a step does to the frames in the stream and to whole. *)
LEMMA StreamMoves ==
  ASSUME LinkTrue, [Next]_vars, transport = "stream", ~dead'
  PROVE  \/ WriteFrame /\ ~broken /\ ~dead
         \/ Reading /\ whole' = whole /\ ~dead
         \/ whole' = {}
         \/ wire' = wire /\ whole' = whole /\ ~dead
<1>1. CASE Reading
  BY <1>1, ReadingIs
<1>2. CASE SetStreamClient
  BY <1>2 DEF SetStreamClient
<1>3. CASE WriteFrame
  BY <1>3 DEF WriteFrame, LinkTrue
<1>4. CASE ReadingSpoilt \/ ReadMiddle
  BY <1>4, ReadingSpoiltIs, ReadMiddleIs DEF QuietLink
<1> QED BY <1>1, <1>2, <1>3, <1>4
  DEF Next, Reading, ReadingSpoilt, Takes, vars, sendVars, linkVars, Build, InitStatic, RegistDynamic, Send,
      WriteCancelled, StreamEnds, SendDatagram, StopRecv, AroundDatagram,
      RecvVersionDatagram, RecvDatagram, RecvTruncated

LEMMA ArrivingStep ==
  ASSUME NumbersArePositive, ReservedAreShared, StreamTrue, FoundTrue, Others,
         ArrivingTrue, [Next]_vars
  PROVE  ArrivingTrue'
<1>0. FactoriesTrue /\ LinkTrue /\ (Sound => BufferTrue) /\ ReceivedTrue
  BY DEF StreamTrue
<1> SUFFICES ASSUME transport' = "stream", ~dead', NEW m \in whole', sent'[m].number <= Reserved
             PROVE  ArrivedIn(received', m) \/ EndsIn(wire', m)
  BY DEF ArrivingTrue
<1>1. transport = "stream" BY TransportStays
<1>2. Extends(sent, sent') BY <1>0, PipeElements
<1>3. ASSUME m \in whole, ~dead PROVE ArrivedIn(received', m) \/ EndsIn(wire, m)
  <2>1. sent'[m] = sent[m] BY <1>2, <1>3 DEF Others, Extends
  <2>2. ArrivedIn(received, m) \/ EndsIn(wire, m) BY <1>1, <1>3, <2>1 DEF ArrivingTrue
  <2> QED BY <1>0, <2>2, ReceivedGrows
<1>4. wire \in Seq(Frame) /\ queue \in Seq(Frame) BY <1>0 DEF LinkTrue
<1>5. CASE WriteFrame /\ ~broken /\ ~dead
  <2>1. /\ queue # <<>> /\ wire' = Append(wire, Head(queue))
        /\ whole' = IF Ends(Head(queue)) THEN whole \cup {Head(queue).m} ELSE whole
    BY <1>5 DEF WriteFrame
  <2> DEFINE h == Head(queue)
  <2>2. h \in Frame BY <1>4, <2>1, HeadTailProperties
  <2> HIDE DEF h
  <2>3. /\ Len(wire) \in Nat /\ Len(wire') = Len(wire) + 1
        /\ \A i \in 1..Len(wire) : wire'[i] = wire[i]
        /\ wire'[Len(wire) + 1] = h
    <3>1. wire' = Append(wire, h) BY <2>1 DEF h
    <3> QED BY <1>4, <2>2, <3>1, AppendProperties, LenProperties
  <2>4. CASE m \in whole
    <3>1. EndsIn(wire, m) => EndsIn(wire', m)
      <4>1. \A i \in 1..Len(wire) : i \in 1..Len(wire') BY <2>3
      <4> QED BY <2>3, <4>1 DEF EndsIn
    <3> QED BY <1>3, <1>5, <2>4, <3>1
  <2>5. CASE m \notin whole
    <3>1. Ends(h) /\ m = h.m BY <2>1, <2>5 DEF h
    <3>2. Len(wire) + 1 \in 1..Len(wire') BY <2>3
    <3> QED BY <2>3, <3>1, <3>2 DEF EndsIn
  <2> QED BY <2>4, <2>5
<1>6. CASE Reading /\ whole' = whole /\ ~dead
  <2>1. /\ wire # <<>> /\ wire' = Tail(wire) /\ sent' = sent /\ Incoming = Head(wire)
        /\ BufferTrue
    BY <1>0, <1>6, ReadingIs
  <2>2. /\ Len(wire) \in Nat \ {0} /\ Head(wire) = wire[1]
        /\ Len(Tail(wire)) = Len(wire) - 1
        /\ \A i \in 1 .. Len(Tail(wire)) : Tail(wire)[i] = wire[i + 1]
    BY <1>4, <2>1, EmptySeq, HeadTailProperties
  <2>3. CASE EndsIn(wire, m)
    <3>1. PICK i \in 1..Len(wire) : Ends(wire[i]) /\ wire[i].m = m BY <2>3 DEF EndsIn
    <3>2. CASE i = 1
      <4>1. Ends(Head(wire)) /\ Head(wire).m = m BY <2>2, <3>1, <3>2
      <4>2. sent[Head(wire).m].number <= Reserved BY <2>1, <4>1
      <4> QED BY <1>0, <1>6, <2>1, <4>1, <4>2, ReservedReceived
    <3>3. CASE i # 1
      <4>1. i - 1 \in 1..Len(Tail(wire)) /\ i - 1 + 1 = i BY <2>2, <3>3
      <4>2. Tail(wire)[i - 1] = wire[i] BY <2>2, <4>1
      <4> QED BY <2>1, <3>1, <4>1, <4>2 DEF EndsIn
    <3> QED BY <3>2, <3>3
  <2> QED BY <1>3, <1>6, <2>3
<1>7. CASE wire' = wire /\ whole' = whole /\ ~dead BY <1>3, <1>7
<1> QED BY <1>0, <1>1, <1>5, <1>6, <1>7, StreamMoves

(* On a stream that is still up and has been read to its end, or up to its *)
(* first damage, every message with a reserved number that was written     *)
(* whole before has been received, whatever was cancelled or unknown       *)
(* before it (send, recv).                                                 *)
THEOREM ReservedArrivesAlways ==
  NumbersArePositive /\ ReservedAreShared => (Spec => []ReservedArrives)
<1> SUFFICES ASSUME NumbersArePositive, ReservedAreShared
             PROVE  Spec => []ReservedArrives
  OBVIOUS
<1> DEFINE IInv == StreamTrue /\ FoundTrue /\ Others /\ ArrivingTrue
<1>1. Init => IInv
  <2> SUFFICES ASSUME Init PROVE IInv
    OBVIOUS
  <2>1. StreamTrue BY StreamStart
  <2>2. FoundTrue BY NoSliceAtFirst DEF FoundTrue
  <2>3. Others BY DEF Init, Others
  <2>4. ArrivingTrue BY DEF Init, ArrivingTrue
  <2> QED BY <2>1, <2>2, <2>3, <2>4
<1>2. IInv /\ [Next]_vars => IInv'
  <2> SUFFICES ASSUME IInv, [Next]_vars PROVE IInv'
    OBVIOUS
  <2>0. FactoriesTrue /\ LinkTrue /\ (Sound => TableTrue) /\ (Sound => BufferTrue)
    BY DEF StreamTrue
  <2>1. StreamTrue' BY StreamStep
  <2>2. FoundTrue' BY <2>0, FoundStep
  <2>3. Others' BY <2>0, OthersStep
  <2>4. ArrivingTrue' BY ArrivingStep
  <2> QED BY <2>1, <2>2, <2>3, <2>4
<1>3. IInv => ReservedArrives
  <2> SUFFICES ASSUME IInv, transport = "stream", ~dead, wire = <<>>,
                      NEW m \in whole, sent[m].number <= Reserved
               PROVE  \E k \in Trusted : MessageOf(received[k]) = m /\ ~received[k].raw
    BY DEF ReservedArrives
  <2>1. ArrivedIn(received, m) \/ EndsIn(wire, m) BY DEF ArrivingTrue
  <2>2. Len(wire) = 0 BY EmptySeq
  <2>3. ~EndsIn(wire, m) BY <2>2 DEF EndsIn
  <2>4. DOMAIN received = 1..Len(received) BY LenProperties DEF StreamTrue, ReceivedTrue, IsSeq
  <2> QED BY <2>1, <2>3, <2>4 DEF ArrivedIn, Trusted
<1> HIDE DEF IInv
<1> QED BY <1>1, <1>2, <1>3, PTL DEF Spec

====
