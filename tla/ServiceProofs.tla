---------------------------- MODULE ServiceProofs ----------------------------
(***************************************************************************)
(* Theorems about Service for every value of its constants: what one side  *)
(* takes apart the other puts together, whatever the builder was given,    *)
(* and the router does for these requests what it does for any.            *)
(***************************************************************************)
EXTENDS Service, RouterProofs, WellFoundedInduction

-----------------------------------------------------------------------------
(* Induction over a filter's input.                                        *)

\* A set of numbers has a least one.
LEMMA LeastNat ==
  ASSUME NEW T, T \subseteq Nat, T # {}
  PROVE  \E n \in T : \A m \in T : n <= m
  <1> DEFINE R == {x \in Nat \X Nat : x[1] < x[2]}
  <1>1. IsWellFoundedOn(R, Nat)
    BY NatLessThanWellFounded DEF OpToRel
  <1>2. \A x, y \in Nat : x < y => <<x, y>> \in R
    OBVIOUS
  <1> HIDE DEF R
  <1>3. PICK n \in T : \A m \in T : ~ (<<m, n>> \in R)
    BY <1>1, WFMin
  <1>4. \A m \in T : ~ (m < n)
    BY <1>2, <1>3
  <1>5. \A m \in T : n <= m
    BY <1>4
  <1> QED BY <1>5

LEMMA SetInduction ==
  ASSUME NEW S, 0 \in S, \A n \in Nat : n \in S => n + 1 \in S
  PROVE  Nat \subseteq S
  <1> SUFFICES ASSUME Nat \ S # {} PROVE FALSE
    OBVIOUS
  <1>1. PICK n \in Nat \ S : \A m \in Nat \ S : n <= m
    BY LeastNat
  <1>2. n # 0 /\ n - 1 \in Nat /\ n = (n - 1) + 1
    BY <1>1
  <1> QED BY <1>1, <1>2

\* The filter's loop after each of its first n turns.
IsKept(f, s, x, n) ==
  f = [i \in 0 .. n |->
         IF i = 0 THEN << >> ELSE IF s[i] = x THEN f[i - 1] ELSE Append(f[i - 1], s[i])]

LEMMA KeptExists ==
  ASSUME NEW s, NEW x
  PROVE  \A n \in Nat : \E f : IsKept(f, s, x, n)
  <1> DEFINE S == {n \in Nat : \E f : IsKept(f, s, x, n)}
  <1>1. 0 \in S
    <2>1. IsKept([i \in 0 .. 0 |-> << >>], s, x, 0)
      BY DEF IsKept
    <2> QED BY <2>1
  <1>2. ASSUME NEW n \in Nat, n \in S PROVE n + 1 \in S
    <2>1. PICK f : IsKept(f, s, x, n)
      BY <1>2
    <2> DEFINE last == IF s[n + 1] = x THEN f[n] ELSE Append(f[n], s[n + 1])
               g == [i \in 0 .. n + 1 |-> IF i = n + 1 THEN last ELSE f[i]]
    <2>2. ASSUME NEW i \in 0 .. n
          PROVE  f[i] = IF i = 0 THEN << >> ELSE IF s[i] = x THEN f[i - 1] ELSE Append(f[i - 1], s[i])
      BY <2>1 DEF IsKept
    <2>3. ASSUME NEW i \in 0 .. n + 1
          PROVE  g[i] = IF i = 0 THEN << >> ELSE IF s[i] = x THEN g[i - 1] ELSE Append(g[i - 1], s[i])
      <3>1. CASE i = 0
        <4>1. g[0] = f[0]
          OBVIOUS
        <4> QED BY <2>2, <3>1, <4>1
      <3>2. CASE i \in 1 .. n
        <4>1. g[i] = f[i] /\ g[i - 1] = f[i - 1] /\ i # 0 /\ i \in 0 .. n
          BY <3>2
        <4> HIDE DEF g
        <4> QED BY <2>2, <4>1
      <3>3. CASE i = n + 1
        <4>1. g[i] = last /\ g[i - 1] = f[n] /\ i # 0
          BY <3>3
        <4> QED BY <3>3, <4>1
      <3> QED BY <3>1, <3>2, <3>3
    <2>4. IsKept(g, s, x, n + 1)
      <3>1. g = [i \in 0 .. n + 1 |-> g[i]]
        OBVIOUS
      <3> HIDE DEF g
      <3> QED BY <2>3, <3>1 DEF IsKept
    <2> QED BY <2>4
  <1> HIDE DEF S
  <1>3. Nat \subseteq S
    BY <1>1, <1>2, SetInduction
  <1> QED BY <1>3 DEF S

\* The filter's result is the last of the loop's; the first is empty, and
\* each turn adds an element or drops an x.
LEMMA WithoutLoop ==
  ASSUME NEW s, NEW x, Len(s) \in Nat
  PROVE  \E f :
           /\ Without(s, x) = f[Len(s)]
           /\ f[0] = << >>
           /\ \A n \in 0 .. Len(s) - 1 :
                f[n + 1] = IF s[n + 1] = x THEN f[n] ELSE Append(f[n], s[n + 1])
  <1> DEFINE f == CHOOSE f : IsKept(f, s, x, Len(s))
  <1>1. IsKept(f, s, x, Len(s))
    BY KeptExists
  <1>2. Without(s, x) = f[Len(s)]
    BY DEF Without, IsKept
  <1> HIDE DEF f
  <1>3. ASSUME NEW i \in 0 .. Len(s)
        PROVE  f[i] = IF i = 0 THEN << >> ELSE IF s[i] = x THEN f[i - 1] ELSE Append(f[i - 1], s[i])
    BY <1>1 DEF IsKept
  <1>4. f[0] = << >>
    BY <1>3
  <1>5. ASSUME NEW n \in 0 .. Len(s) - 1
        PROVE  f[n + 1] = IF s[n + 1] = x THEN f[n] ELSE Append(f[n], s[n + 1])
    <2>1. n + 1 \in 0 .. Len(s) /\ n + 1 # 0 /\ (n + 1) - 1 = n
      BY <1>5
    <2> QED BY <1>3, <2>1
  <1> QED BY <1>2, <1>4, <1>5

\* No x is left.
LEMMA WithoutType ==
  ASSUME NEW T, NEW x, NEW s \in Seq(T \cup {x})
  PROVE  Without(s, x) \in Seq(T \ {x})
  <1>0. Len(s) \in Nat
    OBVIOUS
  <1>1. PICK f :
          /\ Without(s, x) = f[Len(s)]
          /\ f[0] = << >>
          /\ \A n \in 0 .. Len(s) - 1 :
               f[n + 1] = IF s[n + 1] = x THEN f[n] ELSE Append(f[n], s[n + 1])
    BY <1>0, WithoutLoop
  <1> DEFINE S == {n \in Nat : n <= Len(s) => f[n] \in Seq(T \ {x})}
  <1>2. 0 \in S
    BY <1>1, EmptySeq
  <1>3. ASSUME NEW n \in Nat, n \in S PROVE n + 1 \in S
    <2> SUFFICES ASSUME n + 1 <= Len(s) PROVE f[n + 1] \in Seq(T \ {x})
      BY <1>3
    <2>1. n \in 0 .. Len(s) - 1 /\ f[n] \in Seq(T \ {x}) /\ n + 1 \in 1 .. Len(s)
      BY <1>0, <1>3
    <2>2. s[n + 1] \in T \cup {x}
      BY <2>1, ElementOfSeq
    <2>3. CASE s[n + 1] = x
      BY <1>1, <2>1, <2>3
    <2>4. CASE s[n + 1] # x
      <3>1. f[n + 1] = Append(f[n], s[n + 1]) /\ s[n + 1] \in T \ {x}
        BY <1>1, <2>1, <2>2, <2>4
      <3> QED BY <2>1, <3>1, AppendProperties
    <2> QED BY <2>3, <2>4
  <1> HIDE DEF S
  <1>4. Len(s) \in S
    BY <1>0, <1>2, <1>3, SetInduction
  <1> QED BY <1>1, <1>4 DEF S

\* Where there is no x, nothing is dropped.
LEMMA WithoutNothing ==
  ASSUME NEW T, NEW x, x \notin T, NEW s \in Seq(T)
  PROVE  Without(s, x) = s
  <1>0. Len(s) \in Nat
    OBVIOUS
  <1>1. PICK f :
          /\ Without(s, x) = f[Len(s)]
          /\ f[0] = << >>
          /\ \A n \in 0 .. Len(s) - 1 :
               f[n + 1] = IF s[n + 1] = x THEN f[n] ELSE Append(f[n], s[n + 1])
    BY <1>0, WithoutLoop
  <1> DEFINE IsFront(t, n) == t \in Seq(T) /\ Len(t) = n /\ \A i \in 1 .. n : t[i] = s[i]
             S == {n \in Nat : n <= Len(s) => IsFront(f[n], n)}
  <1>2. 0 \in S
    <2>1. IsFront(<< >>, 0)
      BY EmptySeq
    <2>2. IsFront(f[0], 0)
      BY <1>1, <2>1
    <2> HIDE DEF IsFront
    <2> QED BY <2>2
  <1>3. ASSUME NEW n \in Nat, n \in S PROVE n + 1 \in S
    <2> SUFFICES ASSUME n + 1 <= Len(s) PROVE IsFront(f[n + 1], n + 1)
      BY <1>3
    <2>1. n \in 0 .. Len(s) - 1 /\ IsFront(f[n], n) /\ n + 1 \in 1 .. Len(s)
      BY <1>0, <1>3
    <2>2. s[n + 1] \in T /\ s[n + 1] # x
      BY <2>1, ElementOfSeq
    <2>3. f[n + 1] = Append(f[n], s[n + 1])
      BY <1>1, <2>1, <2>2
    <2> HIDE DEF S
    <2>4. f[n + 1] \in Seq(T) /\ Len(f[n + 1]) = n + 1 /\ f[n + 1][n + 1] = s[n + 1]
      BY <2>1, <2>2, <2>3, AppendProperties
    <2>5. \A i \in 1 .. n : f[n + 1][i] = f[n][i]
      BY <2>1, <2>2, <2>3, AppendProperties
    <2> QED BY <2>1, <2>4, <2>5
  <1>4. Len(s) \in S
    <2> HIDE DEF S
    <2> QED BY <1>0, <1>2, <1>3, SetInduction
  <1>5. IsFront(Without(s, x), Len(s))
    BY <1>0, <1>1, <1>4
  <1> QED BY <1>0, <1>5, SeqEqual

\* An x in front is dropped first.
LEMMA WithoutFirst ==
  ASSUME NEW T, NEW x, NEW s \in Seq(T)
  PROVE  Without(<<x>> \o s, x) = Without(s, x)
  <1> DEFINE u == <<x>> \o s
  <1>0. /\ Len(s) \in Nat /\ Len(u) = Len(s) + 1 /\ u[1] = x
        /\ \A i \in 1 .. Len(s) : u[i + 1] = s[i]
    OBVIOUS
  <1> HIDE DEF u
  <1>1. PICK f :
          /\ Without(s, x) = f[Len(s)]
          /\ f[0] = << >>
          /\ \A n \in 0 .. Len(s) - 1 :
               f[n + 1] = IF s[n + 1] = x THEN f[n] ELSE Append(f[n], s[n + 1])
    BY <1>0, WithoutLoop
  <1>2. PICK g :
          /\ Without(u, x) = g[Len(u)]
          /\ g[0] = << >>
          /\ \A n \in 0 .. Len(u) - 1 :
               g[n + 1] = IF u[n + 1] = x THEN g[n] ELSE Append(g[n], u[n + 1])
    <2>1. Len(u) \in Nat
      BY <1>0
    <2> QED BY <2>1, WithoutLoop
  <1> DEFINE S == {n \in Nat : n <= Len(s) => g[n + 1] = f[n]}
  <1>3. 0 \in S
    BY <1>0, <1>1, <1>2
  <1>4. ASSUME NEW n \in Nat, n \in S PROVE n + 1 \in S
    <2> SUFFICES ASSUME n + 1 <= Len(s) PROVE g[n + 1 + 1] = f[n + 1]
      BY <1>4
    <2>1. n \in 0 .. Len(s) - 1 /\ g[n + 1] = f[n] /\ n + 1 \in 0 .. Len(u) - 1 /\ n + 1 \in 1 .. Len(s)
      BY <1>0, <1>4
    <2>2. u[n + 1 + 1] = s[n + 1]
      BY <1>0, <2>1
    <2>3. g[n + 1 + 1] = IF u[n + 1 + 1] = x THEN g[n + 1] ELSE Append(g[n + 1], u[n + 1 + 1])
      BY <1>2, <2>1
    <2> QED BY <1>1, <2>1, <2>2, <2>3
  <1>5. Len(s) \in S
    <2> HIDE DEF S
    <2> QED BY <1>0, <1>3, <1>4, SetInduction
  <1>6. g[Len(u)] = f[Len(s)]
    BY <1>0, <1>5
  <1> QED BY <1>1, <1>2, <1>6 DEF u

-----------------------------------------------------------------------------
(* Paths and queries there and back.                                       *)

\* The elements of s, each as a string of one part: the values of its options.
Singles(s) == [i \in 1 .. Len(s) |-> <<s[i]>>]

LEMMA SinglesType ==
  ASSUME NEW T, NEW s \in Seq(T)
  PROVE  /\ Singles(s) \in Seq(Seq(T)) /\ Len(Singles(s)) = Len(s) /\ Len(s) \in Nat
         /\ \A i \in 1 .. Len(s) : Singles(s)[i] = <<s[i]>> /\ s[i] \in T
  <1>1. Len(s) \in Nat /\ \A i \in 1 .. Len(s) : s[i] \in T
    OBVIOUS
  <1>2. \A i \in 1 .. Len(s) : <<s[i]>> \in Seq(T)
    BY <1>1
  <1> QED BY <1>1, <1>2 DEF Singles

\* The first n elements of s, one more, and the loop of the concatenation.
LEMMA UptoMore ==
  ASSUME NEW T, NEW s \in Seq(T), NEW n \in Nat, n + 1 <= Len(s)
  PROVE  Upto(s, n) \o <<s[n + 1]>> = Upto(s, n + 1)
  <1>1. Len(s) \in Nat /\ \A i \in 1 .. n + 1 : s[i] \in T
    OBVIOUS
  <1>2. PICK u : u = Upto(s, n)
    OBVIOUS
  <1>3. PICK v : v = <<s[n + 1]>>
    OBVIOUS
  <1>4. PICK t : t = u \o v
    OBVIOUS
  <1>5. u \in Seq(T) /\ Len(u) = n /\ \A i \in 1 .. n : u[i] = s[i]
    BY <1>1, <1>2 DEF Upto
  <1>6. v \in Seq(T) /\ Len(v) = 1 /\ v[1] = s[n + 1]
    BY <1>1, <1>3
  <1>7. /\ t \in Seq(T) /\ Len(t) = n + 1
        /\ \A i \in 1 .. n + 1 : t[i] = IF i <= n THEN u[i] ELSE v[i - n]
    <2>1. /\ t \in Seq(T) /\ Len(t) = Len(u) + Len(v)
          /\ \A i \in 1 .. Len(u) + Len(v) :
               t[i] = IF i <= Len(u) THEN u[i] ELSE v[i - Len(u)]
      <3>1. u \in Seq(T) /\ v \in Seq(T)
        BY <1>5, <1>6
      <3>2. /\ u \o v \in Seq(T) /\ Len(u \o v) = Len(u) + Len(v)
            /\ \A i \in 1 .. Len(u) + Len(v) :
                 (u \o v)[i] = IF i <= Len(u) THEN u[i] ELSE v[i - Len(u)]
        BY <3>1, ConcatProperties, Zenon
      <3> QED BY <1>4, <3>2, Zenon
    <2> QED BY <1>5, <1>6, <2>1
  <1>8. ASSUME NEW i \in 1 .. n + 1 PROVE t[i] = s[i]
    <2>1. CASE i <= n
      BY <1>5, <1>7, <2>1
    <2>2. CASE i = n + 1
      <3>1. t[i] = v[i - n] /\ i - n = 1
        BY <1>7, <2>2
      <3> QED BY <1>6, <2>2, <3>1
    <2> QED BY <2>1, <2>2
  <1>9. /\ Upto(s, n + 1) \in Seq(T) /\ Len(Upto(s, n + 1)) = n + 1
        /\ \A i \in 1 .. n + 1 : Upto(s, n + 1)[i] = s[i]
    BY <1>1 DEF Upto
  <1>10. t = Upto(s, n + 1)
    BY <1>7, <1>8, <1>9, SeqEqual
  <1> QED BY <1>2, <1>3, <1>4, <1>10

\* Strings of one part joined with "/" are the sequence of the parts.
LEMMA FlattenSingles ==
  ASSUME NEW T, NEW s \in Seq(T), s # << >>
  PROVE  FlattenSeq(Singles(s)) = s
  <1> DEFINE q == Singles(s)
             IsFlat(f) == f = [i \in 1 .. Len(q) |-> IF i = 1 THEN q[i] ELSE f[i - 1] \o q[i]]
             f == CHOOSE f : IsFlat(f)
  <1>1. /\ Len(q) = Len(s) /\ Len(s) \in Nat /\ Len(s) # 0
        /\ \A i \in 1 .. Len(s) : q[i] = <<s[i]>>
    BY SinglesType
  <1>2. FlattenSeq(q) = f[Len(q)]
    BY <1>1 DEF FlattenSeq
  <1> HIDE DEF q
  <1>3. Upto(s, 0) \o <<s[1]>> = Upto(s, 1) /\ Upto(s, 1) = <<s[1]>>
    <2>1. 1 <= Len(s) /\ s[1] \in T
      BY <1>1
    <2>2. Upto(s, 0) \o <<s[1]>> = Upto(s, 1)
      BY <2>1, UptoMore
    <2>3. Upto(s, 1) = <<s[1]>>
      BY <2>1 DEF Upto
    <2> QED BY <2>2, <2>3
  <1>4. \E g : IsFlat(g)
    <2> DEFINE g == [i \in 1 .. Len(q) |-> Upto(s, i)]
    <2>1. ASSUME NEW i \in 1 .. Len(q)
          PROVE  g[i] = IF i = 1 THEN q[i] ELSE g[i - 1] \o q[i]
      <3>1. g[i] = Upto(s, i) /\ q[i] = <<s[i]>>
        BY <1>1
      <3>2. CASE i = 1
        BY <1>3, <3>1, <3>2
      <3>3. CASE i # 1
        <4>1. i - 1 \in 1 .. Len(q) /\ i - 1 \in Nat /\ (i - 1) + 1 = i /\ i <= Len(s)
          BY <1>1, <3>3
        <4>2. g[i - 1] = Upto(s, i - 1)
          BY <4>1
        <4>3. Upto(s, i - 1) \o <<s[i]>> = Upto(s, i)
          BY <4>1, UptoMore
        <4> QED BY <3>1, <3>3, <4>2, <4>3
      <3> QED BY <3>2, <3>3
    <2>2. g = [i \in 1 .. Len(q) |-> g[i]]
      OBVIOUS
    <2> HIDE DEF g
    <2>3. IsFlat(g)
      BY <2>1, <2>2
    <2> QED BY <2>3
  <1>5. IsFlat(f)
    BY <1>4
  <1> HIDE DEF f
  <1>6. \A i \in 1 .. Len(q) : f[i] = IF i = 1 THEN q[i] ELSE f[i - 1] \o q[i]
    BY <1>5
  <1> DEFINE S == {n \in Nat : n + 1 <= Len(s) => f[n + 1] = Upto(s, n + 1)}
  <1>7. 0 \in S
    BY <1>1, <1>3, <1>6
  <1>8. ASSUME NEW n \in Nat, n \in S PROVE n + 1 \in S
    <2> SUFFICES ASSUME n + 1 + 1 <= Len(s) PROVE f[n + 1 + 1] = Upto(s, n + 1 + 1)
      BY <1>8
    <2>1. /\ n + 1 + 1 \in 1 .. Len(q) /\ n + 1 + 1 # 1 /\ (n + 1 + 1) - 1 = n + 1
          /\ n + 1 \in Nat /\ n + 1 <= Len(s)
      BY <1>1
    <2>2. f[n + 1] = Upto(s, n + 1)
      BY <1>8, <2>1
    <2>3. f[n + 1 + 1] = f[n + 1] \o <<s[n + 1 + 1]>>
      BY <1>1, <1>6, <2>1
    <2> QED BY <2>1, <2>2, <2>3, UptoMore
  <1> HIDE DEF S
  <1>9. Len(s) - 1 \in S
    BY <1>1, <1>7, <1>8, SetInduction
  <1>10. f[Len(s)] = Upto(s, Len(s))
    BY <1>1, <1>9 DEF S
  <1>11. Upto(s, Len(s)) = s
    <2>1. Upto(s, Len(s)) \in Seq(T) /\ Len(Upto(s, Len(s))) = Len(s)
      BY <1>1 DEF Upto
    <2>2. \A i \in 1 .. Len(s) : Upto(s, Len(s))[i] = s[i]
      BY <1>1 DEF Upto
    <2> QED BY <2>1, <2>2, SeqEqual
  <1> QED BY <1>1, <1>2, <1>10, <1>11 DEF q

\* The segments of a path, one option for each, give a path of the same
\* segments.
LEMMA PathThereAndBack ==
  ASSUME NEW p \in Seq(Names \cup {Empty})
  PROVE  /\ Segments(p) \in Seq(Names)
         /\ Segments(PathOf(Singles(Segments(p)))) = Segments(p)
  <1> DEFINE s == Segments(p)
  <1>1. s \in Seq(Names)
    <2>1. Names \ {Empty} = Names
      BY PathsAssumption
    <2>2. Without(p, Empty) \in Seq(Names \ {Empty})
      BY WithoutType
    <2> QED BY <2>1, <2>2 DEF Segments
  <1> HIDE DEF s
  <1>2. Valid(Singles(s)) = Singles(s)
    <2> DEFINE T == {<<n>> : n \in Names}
    <2>1. /\ Len(Singles(s)) = Len(s) /\ Len(s) \in Nat
          /\ \A i \in 1 .. Len(s) : Singles(s)[i] = <<s[i]>> /\ s[i] \in Names
      BY <1>1, SinglesType
    <2>2. \A i \in 1 .. Len(s) : <<s[i]>> \in T
      BY <2>1
    <2>3. NotUtf8 \notin T
      BY Utf8Assumption
    <2> HIDE DEF T
    <2>4. Singles(s) \in Seq(T)
      BY <2>1, <2>2 DEF Singles
    <2> QED BY <2>3, <2>4, WithoutNothing DEF Valid
  <1>3. Without(s, Empty) = s
    BY <1>1, PathsAssumption, WithoutNothing
  <1>4. CASE s = << >>
    <2>1. Singles(s) = << >>
      BY <1>4 DEF Singles
    <2>2. PathOf(Singles(s)) = <<Empty>> \o <<Empty>>
      BY <1>2, <2>1 DEF PathOf
    <2>3. <<Empty>> \in Seq({Empty}) /\ << >> \in Seq({Empty}) /\ <<Empty>> \o << >> = <<Empty>>
      OBVIOUS
    <2>4. Without(<<Empty>> \o <<Empty>>, Empty) = Without(<<Empty>>, Empty)
      BY <2>3, WithoutFirst
    <2>5. Without(<<Empty>>, Empty) = Without(<< >>, Empty)
      BY <2>3, WithoutFirst
    <2> QED BY <1>1, <1>3, <1>4, <2>2, <2>4, <2>5 DEF Segments, s
  <1>5. CASE s # << >>
    <2>1. Singles(s) # << >>
      <3>1. Len(Singles(s)) = Len(s) /\ Len(s) # 0
        BY <1>1, <1>5, SinglesType
      <3> QED BY <3>1
    <2>2. PathOf(Singles(s)) = <<Empty>> \o s
      BY <1>1, <1>2, <1>5, <2>1, FlattenSingles DEF PathOf
    <2>3. Without(<<Empty>> \o s, Empty) = Without(s, Empty)
      BY <1>1, WithoutFirst
    <2> QED BY <1>1, <1>3, <2>2, <2>3 DEF Segments, s
  <1> QED BY <1>4, <1>5

\* Putting "/" in front of the values joined, or of nothing, adds no segment.
LEMMA ForeignPath ==
  ASSUME NEW k \in ForeignPackets
  PROVE  Segments(PathOf(k.uri_path)) = Segments(FlattenSeq(Valid(k.uri_path)))
  <1> DEFINE v == Valid(k.uri_path)
             s == FlattenSeq(v)
  <1>1. s \in Seq(Names \cup {Empty})
    BY ForeignAssumption
  <1>2. PathOf(k.uri_path) = <<Empty>> \o (IF v = << >> THEN <<Empty>> ELSE s)
    BY DEF PathOf
  <1>3. v = << >> => s = << >>
    BY DEF FlattenSeq
  <1> HIDE DEF v, s
  <1>4. CASE v = << >>
    <2>1. <<Empty>> \in Seq({Empty}) /\ << >> \in Seq({Empty}) /\ <<Empty>> \o << >> = <<Empty>>
      OBVIOUS
    <2>2. Without(<<Empty>> \o <<Empty>>, Empty) = Without(<<Empty>>, Empty)
      BY <2>1, WithoutFirst
    <2>3. Without(<<Empty>>, Empty) = Without(<< >>, Empty)
      BY <2>1, WithoutFirst
    <2> QED BY <1>2, <1>3, <1>4, <2>2, <2>3 DEF Segments, s, v
  <1>5. CASE v # << >>
    <2>1. Without(<<Empty>> \o s, Empty) = Without(s, Empty)
      BY <1>1, WithoutFirst
    <2> QED BY <1>2, <1>5, <2>1 DEF Segments, s, v
  <1> QED BY <1>4, <1>5

\* What a builder can hold: ClientRequestBuilder's setters take no other
\* values.
Built ==
  [method : Methods, path : Paths \cup {<<Empty>>}, queries : Seq(Queries),
   content_format : Formats \cup {None}, payload : Bodies \cup {None},
   accept : Formats \cup {None}, confirmable : BOOLEAN]

LEMMA BuiltPath ==
  ASSUME NEW q \in Built
  PROVE  /\ Segments(q.path) \in Seq(Names) /\ Segments(q.path) \in SegmentLists
         /\ Segments(PathOf(request_to_packet(q).uri_path)) = Segments(q.path)
  <1>1. q.path \in Paths \cup {<<Empty>>}
    BY DEF Built
  <1>2. q.path \in Seq(Names \cup {Empty})
    <2>1. <<Empty>> \in Seq(Names \cup {Empty})
      OBVIOUS
    <2> QED BY <1>1, <2>1, PathsAssumption
  <1>3. request_to_packet(q).uri_path = Singles(Segments(q.path))
    BY DEF request_to_packet, Singles
  <1> QED BY <1>1, <1>2, <1>3, PathThereAndBack, PathsAssumption

\* A content format goes through an option and back.
LEMMA FormatThereAndBack ==
  ASSUME NEW f \in Formats \cup {None}
  PROVE  /\ FormatOf(f) = f
         /\ AcceptOf(IF f = None THEN << >> ELSE <<f % 2^16>>) = f
  <1>1. FormatOf(f) = f
    BY FormatsGivenAssumption DEF FormatOf
  <1>2. CASE f = None
    BY <1>1, <1>2 DEF AcceptOf
  <1>3. CASE f # None
    <2>1. f \in KnownFormats /\ f \in 0 .. 2^16 - 1
      BY <1>3, FormatsGivenAssumption, FormatsAssumption
    <2>2. f % 2^16 = f
      BY <2>1
    <2>3. <<f>> # << >> /\ Head(<<f>>) = f
      OBVIOUS
    <2> QED BY <1>1, <1>3, <2>2, <2>3 DEF AcceptOf
  <1> QED BY <1>1, <1>2, <1>3

\* A request goes through a packet and back, but for the empty parts of its
\* path.
LEMMA RequestThereAndBack ==
  ASSUME NEW q \in Built
  PROVE  /\ Segments(request_from_packet(request_to_packet(q)).path) = Segments(q.path)
         /\ [request_from_packet(request_to_packet(q)) EXCEPT !.path = q.path] = q
         /\ request_from_packet(request_to_packet(q)).method = q.method
  <1> DEFINE k == request_to_packet(q)
             r == request_from_packet(k)
  <1>1. /\ k.code = q.method /\ k.uri_query = q.queries /\ k.content_format = q.content_format
        /\ k.payload = q.payload
        /\ k.accept = IF q.accept = None THEN << >> ELSE <<q.accept % 2^16>>
        /\ k.type = "Confirmable" <=> q.confirmable
    BY DEF request_to_packet
  <1>2. Segments(PathOf(k.uri_path)) = Segments(q.path)
    BY BuiltPath
  <1> HIDE DEF k
  <1>3. r = [method |-> k.code, path |-> PathOf(k.uri_path), queries |-> Valid(k.uri_query),
             content_format |-> FormatOf(k.content_format), payload |-> k.payload,
             accept |-> AcceptOf(k.accept), confirmable |-> k.type = "Confirmable"]
    BY DEF request_from_packet
  <1>4. Valid(q.queries) = q.queries
    <2>1. q.queries \in Seq(Queries)
      BY DEF Built
    <2> QED BY <2>1, Utf8Assumption, WithoutNothing DEF Valid
  <1>5. FormatOf(q.content_format) = q.content_format /\ AcceptOf(k.accept) = q.accept
    <2>1. q.content_format \in Formats \cup {None} /\ q.accept \in Formats \cup {None}
      BY DEF Built
    <2> QED BY <1>1, <2>1, FormatThereAndBack
  <1>6. (k.type = "Confirmable") = q.confirmable
    <2>1. q.confirmable \in BOOLEAN /\ (k.type = "Confirmable") \in BOOLEAN
      BY DEF Built
    <2> QED BY <1>1, <2>1
  <1>7. r = [method |-> q.method, path |-> PathOf(k.uri_path), queries |-> q.queries,
             content_format |-> q.content_format, payload |-> q.payload,
             accept |-> q.accept, confirmable |-> q.confirmable]
    BY <1>1, <1>3, <1>4, <1>5, <1>6
  <1> HIDE DEF r
  <1>8. [r EXCEPT !.path = q.path] = q
    BY <1>7 DEF Built
  <1>9. r.path = PathOf(k.uri_path) /\ r.method = q.method
    BY <1>7
  <1> QED BY <1>2, <1>8, <1>9 DEF r, k

\* A response goes through a packet and back.
LEMMA ResponseThereAndBack ==
  ASSUME NEW s, NEW f \in Formats \cup {None}, NEW d, NEW type
  PROVE  response_from_packet(response_to_packet(Response(s, f, d), type)) = Response(s, f, d)
  <1>1. FormatOf(f) = f
    BY FormatThereAndBack
  <1> QED BY <1>1 DEF response_from_packet, response_to_packet, Response

-----------------------------------------------------------------------------
(* One request after another.                                              *)

\* What is on its way is what was built, or a foreign packet, until the server
\* is ready for the next request.
RequestInv ==
  /\ builder \in Built \cup {None}
  /\ builder # None => wire = None
  /\ wire \in {request_to_packet(q) : q \in Built} \cup ForeignPackets \cup {None}
  /\ wire = None => request = NoRequest /\ called = None
  /\ asked # None => asked \in Built /\ (wire # None => wire = request_to_packet(asked))
  /\ asked = None => wire \in ForeignPackets \cup {None}

\* What the router and a handler have in hand is what the packet says.
HandlerInv ==
  /\ request # NoRequest =>
       /\ received = request_from_packet(wire)
       /\ request = [segments |-> Segments(received.path), method |-> received.method]
  /\ called # None =>
       /\ request # NoRequest
       /\ answer.kind = "Handled"
       /\ called = HandlerRequest(received, answer.params)

\* The response on its way back is the one that was made.
ResponseInv ==
  /\ wire_response # None =>
       \E s, d, type : \E f \in Formats \cup {None} :
         /\ replied = Response(s, f, d)
         /\ wire_response = response_to_packet(replied, type)
  /\ delivered # None => wire_response # None /\ delivered = replied

ServiceInv == RequestInv /\ HandlerInv /\ ResponseInv

LEMMA CarriedStays ==
  ASSUME ServiceInv, UNCHANGED <<clientSideVars, carriedVars, request, answer>>
  PROVE  ServiceInv'
  BY DEF ServiceInv, RequestInv, HandlerInv, ResponseInv, clientSideVars, carriedVars, HandlerRequest

LEMMA ServiceInitial == ServiceInit => ServiceInv
  BY DEF ServiceInit, RouterInit, TableInit, ServiceInv, RequestInv, HandlerInv, ResponseInv

LEMMA NewRequestBuilt == ASSUME NEW method \in Methods PROVE NewRequest(method) \in Built
  <1>1. << >> \in Seq(Queries)
    BY EmptySeq
  <1> QED BY <1>1 DEF NewRequest, Built

\* Every method of the builder keeps it one.
LEMMA SetterBuilt ==
  ASSUME builder \in Built, NEW b,
         \/ \E p \in Paths : b = path(builder, p)
         \/ \E q \in Queries : b = query(builder, q)
         \/ \E d \in Bodies : b = payload(builder, d)
         \/ \E f \in Formats : b = content_format(builder, f)
         \/ \E f \in Formats : b = accept(builder, f)
         \/ \E c \in BOOLEAN : b = confirmable(builder, c)
  PROVE  b \in Built
  <1>1. CASE \E q \in Queries : b = query(builder, q)
    <2>1. PICK q \in Queries : b = query(builder, q)
      BY <1>1
    <2>2. builder.queries \in Seq(Queries)
      BY DEF Built
    <2>3. Append(builder.queries, q) \in Seq(Queries)
      BY <2>2, AppendProperties
    <2> QED BY <2>1, <2>3 DEF query, Built
  <1>2. CASE ~ \E q \in Queries : b = query(builder, q)
    BY <1>2 DEF path, payload, content_format, accept, confirmable, Built
  <1> QED BY <1>1, <1>2

\* A step of the client's.
LEMMA ClientSteps ==
  ASSUME ServiceInv,
         \/ \E method \in Methods : StartRequest(method)
         \/ SetPath \/ AddQuery \/ SetPayload \/ SetContentFormat \/ SetAccept \/ SetConfirmable
         \/ SendBuilt
         \/ SendForeign
  PROVE  ServiceInv' /\ UNCHANGED routerVars
  <1> USE DEF ServiceInv
  <1>1. CASE \E method \in Methods : StartRequest(method)
    <2>1. PICK method \in Methods : StartRequest(method)
      BY <1>1
    <2>2. builder' \in Built /\ wire = None
      BY <2>1, NewRequestBuilt DEF StartRequest
    <2>3. UNCHANGED <<routerVars, asked, carriedVars>>
      BY <2>1 DEF StartRequest
    <2>4. RequestInv'
      BY <2>2, <2>3 DEF RequestInv, carriedVars, routerVars, tableVars
    <2> QED BY <2>3, <2>4 DEF HandlerInv, ResponseInv, carriedVars, routerVars, tableVars, HandlerRequest
  <1>2. CASE SetPath \/ AddQuery \/ SetPayload \/ SetContentFormat \/ SetAccept \/ SetConfirmable
    <2>1. PICK b : /\ Call(b)
                   /\ \/ \E p \in Paths : b = path(builder, p)
                      \/ \E q \in Queries : b = query(builder, q)
                      \/ \E d \in Bodies : b = payload(builder, d)
                      \/ \E f \in Formats : b = content_format(builder, f)
                      \/ \E f \in Formats : b = accept(builder, f)
                      \/ \E c \in BOOLEAN : b = confirmable(builder, c)
      BY <1>2 DEF SetPath, AddQuery, SetPayload, SetContentFormat, SetAccept, SetConfirmable
    <2>2. builder # None /\ builder' = b /\ UNCHANGED <<routerVars, asked, carriedVars>>
      BY <2>1 DEF Call
    <2>3. builder \in Built /\ wire = None
      BY <2>2 DEF RequestInv
    <2>4. b \in Built
      BY <2>1, <2>3, SetterBuilt
    <2>5. RequestInv'
      BY <2>2, <2>3, <2>4 DEF RequestInv, carriedVars, routerVars, tableVars
    <2> QED BY <2>2, <2>5 DEF HandlerInv, ResponseInv, carriedVars, routerVars, tableVars, HandlerRequest
  <1>3. CASE SendBuilt
    <2>1. /\ builder \in Built /\ wire = None /\ wire' = request_to_packet(builder)
          /\ builder # None /\ asked' = builder /\ builder' = None
          /\ UNCHANGED <<routerVars, received, called, wire_response, delivered, replied>>
      BY <1>3 DEF SendBuilt, RequestInv
    <2>2. request = NoRequest /\ called = None
      BY <2>1 DEF RequestInv
    <2>3. RequestInv'
      BY <2>1, <2>2 DEF RequestInv, routerVars, tableVars
    <2> QED BY <2>1, <2>2, <2>3 DEF HandlerInv, ResponseInv, routerVars, tableVars
  <1>4. CASE SendForeign
    <2>1. /\ builder = None /\ wire = None /\ wire' \in ForeignPackets
          /\ asked' = None
          /\ UNCHANGED <<routerVars, builder, received, called, wire_response, delivered, replied>>
      BY <1>4 DEF SendForeign
    <2>2. request = NoRequest /\ called = None
      BY <2>1 DEF RequestInv
    <2>3. RequestInv'
      BY <2>1, <2>2 DEF RequestInv, routerVars, tableVars
    <2> QED BY <2>1, <2>2, <2>3 DEF HandlerInv, ResponseInv, routerVars, tableVars
  <1> QED BY <1>1, <1>2, <1>3, <1>4

\* The router gets a path and a method that it may be asked for.
LEMMA DispatchHandles ==
  ASSUME RequestInv, Dispatch
  PROVE  \E segments \in SegmentLists, method \in AllMethods : Handle(segments, method)
  <1>1. /\ wire # None /\ received' = request_from_packet(wire)
        /\ Handle(Segments(received'.path), received'.method)
    BY DEF Dispatch
  <1>2. /\ request_from_packet(wire).path = PathOf(wire.uri_path)
        /\ request_from_packet(wire).method = wire.code
    BY DEF request_from_packet
  <1>3. Segments(PathOf(wire.uri_path)) \in SegmentLists /\ wire.code \in AllMethods
    <2>1. CASE wire \in ForeignPackets
      BY <2>1, ForeignAssumption
    <2>2. CASE \E q \in Built : wire = request_to_packet(q)
      <3>1. PICK q \in Built : wire = request_to_packet(q)
        BY <2>2
      <3>2. wire.code \in AllMethods
        BY <3>1 DEF request_to_packet, Built, AllMethods
      <3> QED BY <3>1, <3>2, BuiltPath
    <2> QED BY <1>1, <2>1, <2>2 DEF RequestInv
  <1> QED BY <1>1, <1>2, <1>3

LEMMA DispatchKeeps ==
  ASSUME ServiceInv, Dispatch
  PROVE  ServiceInv'
  <1>1. /\ wire # None /\ received' = request_from_packet(wire)
        /\ request = NoRequest /\ answer' = answer
        /\ request' = [segments |-> Segments(received'.path), method |-> received'.method]
        /\ UNCHANGED <<clientSideVars, wire, called, wire_response, delivered, replied>>
    BY DEF Dispatch, Handle
  <1>2. called = None
    BY <1>1 DEF ServiceInv, HandlerInv
  <1> QED BY <1>1, <1>2 DEF ServiceInv, RequestInv, HandlerInv, ResponseInv, clientSideVars

LEMMA RouterStepKeeps ==
  ASSUME ServiceInv, RouterStep
  PROVE  ServiceInv'
  <1>1. /\ request # NoRequest /\ answer = NoAnswer /\ UNCHANGED <<request, routes>>
    BY DEF RouterStep, Lookup, MatchStatic, MatchParam, NoMatch, NoHandler, NoMethod, CallHandler,
           Matching, Matched, Reply, tableVars
  <1>2. called = None
    BY <1>1 DEF ServiceInv, HandlerInv, NoAnswer
  <1>3. /\ called' = IF answer'.kind = "Handled" THEN HandlerRequest(received, answer'.params)
                     ELSE called
        /\ UNCHANGED <<clientSideVars, wire, received, wire_response, delivered, replied>>
    BY DEF RouterStep
  <1>4. wire # None
    BY <1>1 DEF ServiceInv, RequestInv
  <1> QED BY <1>1, <1>2, <1>3, <1>4 DEF ServiceInv, RequestInv, HandlerInv, ResponseInv, clientSideVars,
                                   HandlerRequest

LEMMA ReplySteps ==
  ASSUME ServiceInv, ServerReplies \/ Deliver \/ NextRequest
  PROVE  ServiceInv'
  <1>1. CASE ServerReplies
    <2>1. PICK r \in Replies :
            /\ replied' = r
            /\ wire_response' = response_to_packet(r, IF received.confirmable THEN "Acknowledgement"
                                                      ELSE "NonConfirmable")
      BY <1>1 DEF ServerReplies
    <2>2. \E s, d : \E f \in Formats \cup {None} : r = Response(s, f, d)
      BY DEF Replies
    <2>3. delivered = None
      BY <1>1 DEF ServerReplies, ServiceInv, ResponseInv
    <2>4. UNCHANGED <<routerVars, clientSideVars, wire, received, called, delivered>>
      BY <1>1 DEF ServerReplies
    <2>5. ResponseInv'
      BY <2>1, <2>2, <2>3, <2>4 DEF ResponseInv
    <2> QED BY <2>4, <2>5 DEF ServiceInv, RequestInv, HandlerInv, clientSideVars, routerVars, tableVars,
                            HandlerRequest
  <1>2. CASE Deliver
    <2>1. PICK s, d, type : \E f \in Formats \cup {None} :
            /\ replied = Response(s, f, d)
            /\ wire_response = response_to_packet(replied, type)
      BY <1>2 DEF Deliver, ServiceInv, ResponseInv
    <2>2. delivered' = replied
      BY <1>2, <2>1, ResponseThereAndBack DEF Deliver
    <2>3. /\ wire_response # None
          /\ UNCHANGED <<routerVars, clientSideVars, wire, received, called, wire_response, replied>>
      BY <1>2 DEF Deliver
    <2>4. ResponseInv'
      BY <2>2, <2>3 DEF ServiceInv, ResponseInv
    <2> QED BY <2>3, <2>4 DEF ServiceInv, RequestInv, HandlerInv, clientSideVars, routerVars, tableVars,
                            HandlerRequest
  <1>3. CASE NextRequest
    <2>1. /\ request' = NoRequest /\ answer' = NoAnswer
          /\ wire' = None /\ received' = None /\ called' = None
          /\ wire_response' = None /\ delivered' = None /\ asked' = None /\ builder' = builder
      BY <1>3 DEF NextRequest, Return
    <2> QED BY <2>1 DEF ServiceInv, RequestInv, HandlerInv, ResponseInv
  <1> QED BY <1>1, <1>2, <1>3

LEMMA ServiceStep == ServiceInv /\ [ServiceNext]_serviceVars => ServiceInv' /\ [RouterNext]_routerVars
  <1> SUFFICES ASSUME ServiceInv, [ServiceNext]_serviceVars
      PROVE  ServiceInv' /\ [RouterNext]_routerVars
    OBVIOUS
  <1>1. CASE Building /\ UNCHANGED <<clientSideVars, carriedVars>>
    <2>1. UNCHANGED <<request, answer>>
      BY <1>1 DEF Building, Route, Serve
    <2> QED BY <1>1, <2>1, CarriedStays DEF Building, RouterNext
  <1>2. CASE \/ \E method \in Methods : StartRequest(method)
             \/ SetPath \/ AddQuery \/ SetPayload \/ SetContentFormat \/ SetAccept \/ SetConfirmable
             \/ SendBuilt
             \/ SendForeign
    BY <1>2, ClientSteps
  <1>3. CASE Dispatch
    BY <1>3, DispatchHandles, DispatchKeeps DEF ServiceInv, RouterNext
  <1>4. CASE RouterStep
    BY <1>4, RouterStepKeeps DEF RouterStep, RouterNext
  <1>5. CASE ServerReplies \/ Deliver
    BY <1>5, ReplySteps DEF ServerReplies, Deliver
  <1>6. CASE NextRequest
    BY <1>6, ReplySteps DEF NextRequest, RouterNext
  <1>7. CASE UNCHANGED serviceVars
    <2>1. UNCHANGED <<routerVars, clientSideVars, carriedVars, request, answer>>
      BY <1>7 DEF serviceVars, routerVars, tableVars
    <2> QED BY <2>1, CarriedStays
  <1> QED BY <1>1, <1>2, <1>3, <1>4, <1>5, <1>6, <1>7 DEF ServiceNext

LEMMA ServiceInvariant == ServiceSpec => []ServiceInv /\ RouterSpec
  <1>1. ServiceInit => RouterInit
    BY DEF ServiceInit
  <1> QED BY <1>1, ServiceInitial, ServiceStep, PTL DEF ServiceSpec, RouterSpec

\* The router does with the client's requests, and with those of others, what
\* it does with any request: all that is proved of it holds of the service.
THEOREM ServiceRoutes ==
  ServiceSpec => /\ []RouterTypeOK /\ []TrieInv /\ []LookupInv /\ []ParamsAsRegistered
                 /\ AnswersAsTable
  BY ServiceInvariant, TypeCorrect, TrieCorrect, LookupCorrect, ParamsCorrect, RouterImplementsTable,
     PTL

LEMMA HandlerSeesStep == ServiceInv => HandlerSeesRequest
  <1> SUFFICES ASSUME ServiceInv, called # None, asked # None
      PROVE  /\ Segments(called.request.path) = Segments(asked.path)
             /\ [called.request EXCEPT !.path = asked.path] = asked
    BY DEF HandlerSeesRequest
  <1>1. request # NoRequest /\ called = HandlerRequest(received, answer.params)
    BY DEF ServiceInv, HandlerInv
  <1>2. wire # None /\ asked \in Built /\ wire = request_to_packet(asked)
    BY <1>1 DEF ServiceInv, RequestInv
  <1>3. called.request = request_from_packet(request_to_packet(asked))
    BY <1>1, <1>2 DEF ServiceInv, HandlerInv, HandlerRequest
  <1> QED BY <1>2, <1>3, RequestThereAndBack

\* A handler sees what the client's builder was given: no option is lost,
\* altered or moved on the way through the packet.
THEOREM HandlerSees == ServiceSpec => []HandlerSeesRequest
  BY ServiceInvariant, HandlerSeesStep, PTL

\* The caller sees what the handler or the router made.
THEOREM CallerSees == ServiceSpec => []CallerSeesResponse
  <1>1. ServiceInv => CallerSeesResponse
    BY DEF ServiceInv, ResponseInv, CallerSeesResponse
  <1> QED BY <1>1, ServiceInvariant, PTL

LEMMA HandlerMatchesStep == ServiceInv /\ TableInv /\ LookupInv /\ AnswerInv => HandlerMatchesRequest
  <1> SUFFICES ASSUME ServiceInv, TableInv, LookupInv, AnswerInv, called # None
      PROVE  /\ Matches(answer.handler, AskedSegments)
             /\ wire.code \in routes[answer.handler].methods
    BY DEF HandlerMatchesRequest
  <1>1. request # NoRequest /\ answer.kind = "Handled"
    BY DEF ServiceInv, HandlerInv
  <1>2. wire # None
    BY <1>1 DEF ServiceInv, RequestInv
  <1>3. Segments(PathOf(wire.uri_path)) = AskedSegments
    <2>1. CASE asked # None
      <3>1. asked \in Built /\ wire = request_to_packet(asked)
        BY <1>2, <2>1 DEF ServiceInv, RequestInv
      <3> QED BY <2>1, <3>1, BuiltPath DEF AskedSegments
    <2>2. CASE asked = None
      <3>1. wire \in ForeignPackets
        BY <1>2, <2>2 DEF ServiceInv, RequestInv
      <3> QED BY <2>2, <3>1, ForeignPath DEF AskedSegments
    <2> QED BY <2>1, <2>2
  <1>4. request = [segments |-> AskedSegments, method |-> wire.code]
    <2>1. received = request_from_packet(wire)
          /\ request = [segments |-> Segments(received.path), method |-> received.method]
      BY <1>1 DEF ServiceInv, HandlerInv
    <2>2. received.path = PathOf(wire.uri_path) /\ received.method = wire.code
      BY <2>1 DEF request_from_packet
    <2> QED BY <1>3, <2>1, <2>2
  <1>5. PICK s, h, e, m : s = AskedSegments /\ h = answer.handler /\ e = current /\ m = wire.code
    OBVIOUS
  <1>6. /\ Len(e) = Len(s) /\ Preferred(e, s) /\ IsLast(h, e, m)
    BY <1>1, <1>4, <1>5 DEF AnswerInv, LookupInv
  <1>7. /\ Len(routes[h].pattern) = Len(s)
        /\ \A i \in 1 .. Len(s) : Edge(routes[h].pattern[i]) = e[i]
        /\ m \in routes[h].methods
    BY <1>6 DEF IsLast, Serves, EndsAt, Passes
  <1>8. \A i \in 1 .. Len(s) : e[i] \in {Param, s[i]}
    BY <1>6 DEF Preferred
  <1>9. Matches(h, s)
    BY <1>7, <1>8 DEF Matches
  <1> QED BY <1>5, <1>7, <1>9

\* The handler called is one whose route matches the path and the method asked
\* for, by a client's builder or by the packet of another implementation.
THEOREM HandlerMatches == ServiceSpec => []HandlerMatchesRequest
  BY ServiceInvariant, LookupInvariant, HandlerMatchesStep, PTL
=============================================================================
