-------------------------- MODULE PhasorFramesProofs --------------------------
(***************************************************************************)
(* What is written into a message is what is read out of it: lemmas and    *)
(* theorems about the texts of PhasorFrames, for all names, time stamps    *)
(* and payloads.  They are about recursive functions; the induction they   *)
(* need comes from the order of the natural numbers being well founded.    *)
(***************************************************************************)
EXTENDS PhasorFrames, WellFoundedInduction, SequenceTheorems, TLAPS

(***************************************************************************)
(* Induction and recursion.                                                *)
(***************************************************************************)
\* Every set of natural numbers has a least element.
LEMMA LeastElement ==
  ASSUME NEW T, T \subseteq Nat, T # {}
  PROVE  \E m \in T : \A k \in T : m <= k
<1> DEFINE R == OpToRel(<, Nat)
<1>1. IsWellFoundedOn(R, Nat)
  BY NatLessThanWellFounded
<1>2. \A x, y \in Nat : x < y => <<x, y>> \in R
  BY DEF OpToRel
<1> HIDE DEF R
<1>3. PICK m \in T : \A y \in T : ~ (<<y, m>> \in R)
  BY <1>1, WFMin
<1>4. \A k \in T : m <= k
  <2> TAKE k \in T
  <2>1. k \in Nat /\ m \in Nat
    OBVIOUS
  <2>2. ~ (k < m)
    BY <2>1, <1>2, <1>3
  <2>3. QED BY <2>1, <2>2
<1>5. QED BY <1>4

\* Induction over the natural numbers, with a set in the place of the predicate.
LEMMA InductionOnNat ==
  ASSUME NEW T, 0 \in T, \A n \in Nat : n \in T => n + 1 \in T
  PROVE  Nat \subseteq T
<1> SUFFICES ASSUME NEW x \in Nat, x \notin T PROVE FALSE
  OBVIOUS
<1> DEFINE F == {n \in Nat : n \notin T}
<1>1. PICK m \in F : \A k \in F : m <= k
  <2>1. F \subseteq Nat /\ F # {}
    OBVIOUS
  <2> HIDE DEF F
  <2>2. QED BY <2>1, LeastElement
<1>2. m \in Nat /\ m # 0 /\ m - 1 \in Nat /\ m - 1 \in T
  BY <1>1
<1>3. QED BY <1>1, <1>2

\* f runs through the values that the steps lead to from a.
Computes(f, S, a, N, step) ==
  f \in [0 .. N -> S] /\ f[0] = a /\ \A i \in 1 .. N : f[i] = step[i][f[i - 1]]

\* Recursion over an initial segment of the natural numbers.
LEMMA Recursion ==
  ASSUME NEW S, NEW a \in S, NEW N \in Nat, NEW step \in [Nat -> [S -> S]]
  PROVE  \E f : Computes(f, S, a, N, step)
<1> DEFINE Reached(n) == \E f : Computes(f, S, a, n, step)
           T == {n \in Nat : Reached(n)}
<1>1. 0 \in T
  <2> DEFINE f == [i \in 0 .. 0 |-> a]
  <2>1. Computes(f, S, a, 0, step)
    BY DEF Computes
  <2> HIDE DEF f
  <2>2. Reached(0)
    BY <2>1
  <2>3. QED BY <2>2
<1>2. ASSUME NEW n \in Nat, n \in T PROVE n + 1 \in T
  <2>1. PICK f : Computes(f, S, a, n, step)
    BY <1>2
  <2> DEFINE g == [i \in 0 .. (n + 1) |-> IF i = n + 1 THEN step[n + 1][f[n]] ELSE f[i]]
  <2>2. g \in [0 .. (n + 1) -> S]
    BY <2>1 DEF Computes
  <2>3. g[0] = a
    BY <2>1 DEF Computes
  <2>4. \A i \in 1 .. (n + 1) : g[i] = step[i][g[i - 1]]
    BY <2>1 DEF Computes
  <2> HIDE DEF g
  <2>5. Reached(n + 1)
    BY <2>2, <2>3, <2>4 DEF Computes
  <2>6. QED BY <2>5
<1>3. N \in T
  <2> HIDE DEF T
  <2> QED BY <1>1, <1>2, InductionOnNat
<1>4. QED BY <1>3

\* Two functions that begin with the same value, and whose values stay the same.
Alike(f, g, N) ==
  f[0] = g[0] /\ \A i \in 1 .. N : f[i - 1] = g[i - 1] => f[i] = g[i]

LEMMA Unique ==
  ASSUME NEW N \in Nat, NEW f, NEW g, Alike(f, g, N)
  PROVE  \A i \in 0 .. N : f[i] = g[i]
<1> DEFINE T == {n \in Nat : n <= N => f[n] = g[n]}
<1>1. 0 \in T
  BY DEF Alike
<1>2. ASSUME NEW n \in Nat, n \in T PROVE n + 1 \in T
  <2>1. CASE n + 1 <= N
    <3>1. n + 1 \in 1 .. N /\ (n + 1) - 1 = n
      BY <2>1
    <3>2. f[n] = g[n]
      BY <1>2, <2>1
    <3>3. f[n + 1] = g[n + 1]
      BY <3>1, <3>2 DEF Alike
    <3>4. QED BY <3>3
  <2>2. QED BY <2>1
<1>3. Nat \subseteq T
  <2> HIDE DEF T
  <2> QED BY <1>1, <1>2, InductionOnNat
<1>4. QED BY <1>3

\* Concatenation as one term: the provers take x \o y apart element by element.
Cat(x, y) == x \o y

LEMMA CatType ==
  ASSUME NEW A, NEW x \in Seq(A), NEW y \in Seq(A)
  PROVE  Cat(x, y) \in Seq(A)
BY DEF Cat

LEMMA CatAssociative ==
  ASSUME NEW A, NEW x \in Seq(A), NEW y \in Seq(A), NEW z \in Seq(A)
  PROVE  Cat(Cat(x, y), z) = Cat(x, Cat(y, z))
BY ConcatAssociative DEF Cat

LEMMA CatEmpty ==
  ASSUME NEW A, NEW x \in Seq(A)
  PROVE  Cat(x, <<>>) = x /\ Cat(<<>>, x) = x
BY ConcatEmptySeq DEF Cat

(***************************************************************************)
(* RemovePadding.                                                          *)
(***************************************************************************)
Keep(kept, c) == IF c = padding_char THEN kept ELSE Append(kept, c)

\* What has been kept before stays before.
LEMMA KeepAfter ==
  ASSUME NEW A, NEW x \in Seq(A), NEW y \in Seq(A), NEW c \in A
  PROVE  Keep(Cat(x, y), c) = Cat(x, Keep(y, c))
<1>1. <<c>> \in Seq(A) /\ x \o y \in Seq(A)
  OBVIOUS
<1>2. Append(x \o y, c) = (x \o y) \o <<c>> /\ Append(y, c) = y \o <<c>>
  BY <1>1, AppendIsConcat
<1>3. Append(x \o y, c) = x \o Append(y, c)
  BY <1>1, <1>2, ConcatAssociative
<1>4. QED BY <1>3 DEF Keep, Cat

\* The function that RemovePadding is defined with, as a witness.
LEMMA Kept ==
  ASSUME NEW A, NEW data \in Seq(A)
  PROVE  \E f \in [0 .. Len(data) -> Seq(A \ {padding_char})] :
           /\ f[0] = <<>>
           /\ \A i \in 1 .. Len(data) : f[i] = Keep(f[i - 1], data[i])
           /\ RemovePadding(data) = f[Len(data)]
<1> DEFINE N == Len(data)
           R == Seq(A \ {padding_char})
           empty == <<>>
           step == [i \in Nat |-> [k \in R |-> IF i \in 1 .. N THEN Keep(k, data[i]) ELSE k]]
           Is(f) == f = [i \in 0 .. N |->
                      IF i = 0 THEN <<>>
                      ELSE IF data[i] = padding_char THEN f[i - 1]
                           ELSE Append(f[i - 1], data[i])]
           g == CHOOSE g : Is(g)
<1>1. N \in Nat /\ empty \in R
  OBVIOUS
<1>2. step \in [Nat -> [R -> R]]
  BY DEF Keep
<1>3. PICK f : Computes(f, R, empty, N, step)
  <2> HIDE DEF step, N, R, empty
  <2>1. QED BY <1>1, <1>2, Recursion
<1>4. f \in [0 .. N -> R] /\ f[0] = <<>>
  BY <1>3 DEF Computes
<1>5. \A i \in 1 .. N : f[i] = Keep(f[i - 1], data[i])
  <2> TAKE i \in 1 .. N
  <2>1. f[i - 1] \in R
    BY <1>4
  <2>2. f[i] = step[i][f[i - 1]]
    BY <1>3 DEF Computes
  <2> HIDE DEF R
  <2>3. QED BY <2>1, <2>2
<1>6. Is(f)
  <2>1. \A i \in 0 .. N : i # 0 => i \in 1 .. N
    BY <1>1
  <2> HIDE DEF R, N
  <2>2. \A i \in 0 .. N :
          f[i] = IF i = 0 THEN <<>>
                 ELSE IF data[i] = padding_char THEN f[i - 1] ELSE Append(f[i - 1], data[i])
    BY <2>1, <1>4, <1>5 DEF Keep
  <2>3. QED BY <2>2, <1>4
<1>7. Is(g)
  <2> HIDE DEF Is
  <2> QED BY <1>6
<1>8. Alike(g, f, N)
  <2>1. \A i \in 1 .. N : i # 0 /\ i \in 0 .. N
    BY <1>1
  <2> HIDE DEF g, N
  <2>2. g[0] = <<>>
    BY <1>1, <1>7
  <2>3. \A i \in 1 .. N : g[i] = Keep(g[i - 1], data[i])
    BY <2>1, <1>7 DEF Keep
  <2> HIDE DEF Is, R
  <2>4. QED BY <2>2, <2>3, <1>4, <1>5 DEF Alike
<1>9. g[N] = f[N]
  <2> HIDE DEF g, N
  <2>1. \A i \in 0 .. N : g[i] = f[i]
    BY <1>1, <1>8, Unique
  <2>2. QED BY <2>1, <1>1
<1>10. RemovePadding(data) = g[N]
  BY DEF RemovePadding
<1>11. QED
  <2> HIDE DEF g, Is
  <2> QED BY <1>4, <1>5, <1>9, <1>10

\* What is left is without padding characters.
LEMMA PaddingRemoved ==
  ASSUME NEW A, NEW data \in Seq(A)
  PROVE  RemovePadding(data) \in Seq(A \ {padding_char})
BY Kept

\* What has no padding characters is left as it is.
LEMMA PaddingAbsent ==
  ASSUME NEW A, padding_char \notin A, NEW data \in Seq(A)
  PROVE  RemovePadding(data) = data
<1> DEFINE N == Len(data)
           g == [i \in 0 .. N |-> SubSeq(data, 1, i)]
<1>1. PICK f \in [0 .. N -> Seq(A \ {padding_char})] :
        /\ f[0] = <<>>
        /\ \A i \in 1 .. N : f[i] = Keep(f[i - 1], data[i])
        /\ RemovePadding(data) = f[N]
  BY Kept
<1>2. N \in Nat /\ f[0] = g[0]
  BY <1>1
<1>3. \A i \in 1 .. N : f[i - 1] = g[i - 1] => f[i] = g[i]
  <2> TAKE i \in 1 .. N
  <2> HAVE f[i - 1] = g[i - 1]
  <2>1. data[i] # padding_char /\ i - 1 \in 0 .. N
    OBVIOUS
  <2>2. f[i] = Append(f[i - 1], data[i])
    BY <2>1, <1>1 DEF Keep
  <2>3. f[i - 1] = SubSeq(data, 1, i - 1)
    BY <2>1
  <2>4. QED BY <2>2, <2>3
<1>4. f[N] = g[N]
  <2> HIDE DEF g, N
  <2>1. Alike(f, g, N)
    BY <1>2, <1>3 DEF Alike
  <2>2. \A i \in 0 .. N : f[i] = g[i]
    BY <1>2, <2>1, Unique
  <2>3. QED BY <2>2, <1>2
<1>5. QED BY <1>1, <1>4

\* Padding characters are removed from each part for itself.
LEMMA PaddingDistributes ==
  ASSUME NEW A, NEW x \in Seq(A), NEW y \in Seq(A)
  PROVE  RemovePadding(Cat(x, y)) = Cat(RemovePadding(x), RemovePadding(y))
<1> DEFINE z == Cat(x, y)
           R == Seq(A \ {padding_char})
           N == Len(x)
           M == Len(y)
<1>1. /\ z \in Seq(A) /\ Len(z) = N + M /\ N \in Nat /\ M \in Nat
      /\ \A i \in 1 .. N : z[i] = x[i]
      /\ \A j \in 1 .. M : z[N + j] = y[j]
  BY DEF Cat
<1>2. \A u \in R : u \in Seq(A)
  OBVIOUS
<1>3. PICK f \in [0 .. N -> R] :
        /\ f[0] = <<>>
        /\ \A i \in 1 .. N : f[i] = Keep(f[i - 1], x[i])
        /\ RemovePadding(x) = f[N]
  BY Kept
<1>4. PICK g \in [0 .. M -> R] :
        /\ g[0] = <<>>
        /\ \A i \in 1 .. M : g[i] = Keep(g[i - 1], y[i])
        /\ RemovePadding(y) = g[M]
  BY Kept
<1> HIDE DEF z
<1>5. PICK h \in [0 .. Len(z) -> R] :
        /\ h[0] = <<>>
        /\ \A i \in 1 .. Len(z) : h[i] = Keep(h[i - 1], z[i])
        /\ RemovePadding(z) = h[Len(z)]
  BY <1>1, Kept
<1> HIDE DEF R, N, M
<1>6. \A i \in 0 .. N : h[i] = f[i]
  <2>1. \A i \in 1 .. N : h[i - 1] = f[i - 1] => h[i] = f[i]
    <3> TAKE i \in 1 .. N
    <3>1. i \in 1 .. Len(z) /\ z[i] = x[i]
      BY <1>1
    <3>2. QED BY <3>1, <1>3, <1>5
  <2>2. N \in Nat /\ h[0] = f[0]
    BY <1>1, <1>3, <1>5
  <2>3. Alike(h, f, N)
    BY <2>1, <2>2 DEF Alike
  <2>4. QED BY <2>2, <2>3, Unique
<1> DEFINE left == [j \in 0 .. M |-> h[N + j]]
           right == [j \in 0 .. M |-> Cat(f[N], g[j])]
<1>7. f[N] \in R /\ h[N] = f[N]
  BY <1>1, <1>3, <1>6
<1>8. left[0] = right[0]
  <2>1. Cat(f[N], <<>>) = f[N]
    BY <1>2, <1>7, CatEmpty
  <2>2. QED BY <2>1, <1>1, <1>4, <1>7
<1>9. \A j \in 1 .. M : left[j - 1] = right[j - 1] => left[j] = right[j]
  <2> TAKE j \in 1 .. M
  <2> HAVE left[j - 1] = right[j - 1]
  <2>1. /\ N + j \in 1 .. Len(z) /\ z[N + j] = y[j]
        /\ (N + j) - 1 = N + (j - 1)
        /\ j \in 0 .. M /\ j - 1 \in 0 .. M
    BY <1>1
  <2>2. y[j] \in A
    BY ElementOfSeq DEF M
  <2>3. h[N + (j - 1)] = Cat(f[N], g[j - 1])
    BY <2>1
  <2>4. h[N + j] = Keep(Cat(f[N], g[j - 1]), y[j])
    BY <2>1, <2>3, <1>5
  <2>5. g[j - 1] \in Seq(A) /\ f[N] \in Seq(A)
    BY <2>1, <1>2, <1>4, <1>7
  <2>6. h[N + j] = Cat(f[N], Keep(g[j - 1], y[j]))
    BY <2>2, <2>4, <2>5, KeepAfter
  <2>7. h[N + j] = Cat(f[N], g[j])
    BY <2>6, <1>4
  <2>8. QED BY <2>1, <2>7
<1>10. \A j \in 0 .. M : left[j] = right[j]
  <2> HIDE DEF left, right
  <2>1. M \in Nat
    BY <1>1
  <2>2. Alike(left, right, M)
    BY <1>8, <1>9 DEF Alike
  <2>3. QED BY <2>1, <2>2, Unique
<1>11. h[N + M] = Cat(f[N], g[M])
  BY <1>1, <1>10
<1>12. QED BY <1>1, <1>3, <1>4, <1>5, <1>11 DEF z

\* What AddPadding has added is removed again.
LEMMA PaddingForgotten ==
  ASSUME NEW A, NEW data \in Seq(A)
  PROVE  RemovePadding(AddPadding(data)) = RemovePadding(data)
<1> DEFINE n == padded_size - Len(data)
           pad == [i \in 1 .. n |-> padding_char]
           B == A \cup {padding_char}
<1>1. n \in Int
  BY PaddedSizeAssumption
<1>2. pad \in Seq({padding_char})
  <2>1. n <= 0 \/ n \in Nat
    BY <1>1
  <2>2. CASE n <= 0
    <3>1. 1 .. n = {}
      BY <1>1, <2>2
    <3>2. pad = <<>>
      BY <3>1
    <3> HIDE DEF pad
    <3>3. QED BY <3>2, EmptySeq
  <2>3. CASE n \in Nat
    BY <2>3
  <2> HIDE DEF n, pad
  <2>4. QED BY <2>1, <2>2, <2>3
<1>3. AddPadding(data) = Cat(data, pad)
  BY DEF AddPadding, Cat
<1> HIDE DEF pad
<1>4. pad \in Seq(B) /\ data \in Seq(B)
  BY <1>2
<1> HIDE DEF B
<1>5. RemovePadding(pad) = <<>>
  <2>1. RemovePadding(pad) \in Seq({padding_char} \ {padding_char})
    BY <1>2, PaddingRemoved
  <2>2. \A e \in Seq({padding_char} \ {padding_char}) : e = <<>>
    OBVIOUS
  <2>3. QED BY <2>1, <2>2
<1>6. RemovePadding(data) \in Seq(A \ {padding_char})
  BY PaddingRemoved
<1>7. Cat(RemovePadding(data), <<>>) = RemovePadding(data)
  BY <1>6, CatEmpty
<1>8. QED BY <1>3, <1>4, <1>5, <1>7, PaddingDistributes

(***************************************************************************)
(* std::getline.                                                           *)
(***************************************************************************)
\* What is before the first separator, and what is after it.
LEMMA CutAtFirst ==
  ASSUME NEW A, NEW x \in Seq(A), NEW y \in Seq(A), NEW c \in A,
         NEW separators, c \in separators,
         \A i \in 1 .. Len(x) : x[i] \notin separators
  PROVE  /\ Before(Cat(x, Cat(<<c>>, y)), separators) = x
         /\ After(Cat(x, Cat(<<c>>, y)), separators) = y
<1> DEFINE z == Cat(x, Cat(<<c>>, y))
           n == Len(x)
           I == {i \in 1 .. Len(z) : z[i] \in separators}
<1>1. /\ z \in Seq(A) /\ n \in Nat /\ Len(y) \in Nat /\ Len(z) = n + 1 + Len(y)
      /\ \A i \in 1 .. n : z[i] = x[i]
      /\ z[n + 1] = c
      /\ \A j \in 1 .. Len(y) : z[n + 1 + j] = y[j]
  <2>1. <<c>> \in Seq(A) /\ Cat(<<c>>, y) \in Seq(A)
    BY DEF Cat
  <2>2. z \in Seq(A) /\ Len(z) = n + 1 + Len(y)
    BY DEF Cat
  <2>3. \A i \in 1 .. n : z[i] = x[i]
    BY DEF Cat
  <2>4. z[n + 1] = c
    BY DEF Cat
  <2>5. \A j \in 1 .. Len(y) : z[n + 1 + j] = y[j]
    BY DEF Cat
  <2>6. QED BY <2>2, <2>3, <2>4, <2>5
<1> HIDE DEF z
<1>2. n + 1 \in I /\ \A i \in I : n + 1 <= i
  <2>1. n + 1 \in I
    BY <1>1
  <2>2. ASSUME NEW i \in 1 .. Len(z), i <= n PROVE z[i] \notin separators
    BY <2>2, <1>1
  <2>3. \A i \in I : n + 1 <= i
    BY <2>2, <1>1
  <2>4. QED BY <2>1, <2>3
<1>3. Min(I) = n + 1
  <2>1. I \subseteq Int
    BY <1>1
  <2> HIDE DEF I
  <2>2. Min(I) \in I /\ \A i \in I : Min(I) <= i
    BY <1>2 DEF Min
  <2>3. Min(I) \in Int /\ n + 1 \in Int /\ Min(I) <= n + 1 /\ n + 1 <= Min(I)
    BY <2>1, <2>2, <1>1, <1>2
  <2>4. QED BY <2>3
<1>4. SelectInSeq(z, LAMBDA a : a \in separators) = n + 1
  BY <1>2, <1>3 DEF SelectInSeq
<1>5. Before(z, separators) = SubSeq(z, 1, n)
  <2>1. n + 1 # 0 /\ (n + 1) - 1 = n
    BY <1>1
  <2>2. QED BY <1>4, <2>1 DEF Before
<1>6. Before(z, separators) = x
  BY <1>1, <1>5
<1>7. After(z, separators) = SubSeq(z, n + 2, Len(z))
  BY <1>6 DEF After
<1>8. SubSeq(z, n + 2, Len(z)) = y
  <2>1. \A j \in 1 .. Len(y) : (n + 2) + j - 1 = n + 1 + j
    BY <1>1
  <2>2. QED BY <1>1, <2>1
<1>9. QED BY <1>6, <1>7, <1>8 DEF z

(***************************************************************************)
(* Lines.                                                                  *)
(***************************************************************************)
Add(seq, e) == Append(seq, e)
NextLine(line, c) == IF c = newline THEN <<>> ELSE Add(line, c)
NextBefore(before, line, c) == IF c = newline THEN Add(before, line) ELSE before

\* l and b are the two functions that Lines is defined with.
Reads(l, b, text) ==
  /\ l[0] = <<>> /\ b[0] = <<>>
  /\ \A i \in 1 .. Len(text) : /\ l[i] = NextLine(l[i - 1], text[i])
                               /\ b[i] = NextBefore(b[i - 1], l[i - 1], text[i])
  /\ Lines(text) = Add(b[Len(text)], l[Len(text)])

LEMMA Reading ==
  ASSUME NEW A, NEW text \in Seq(A)
  PROVE  \E l \in [0 .. Len(text) -> Seq(A)], b \in [0 .. Len(text) -> Seq(Seq(A))] :
           Reads(l, b, text)
<1> DEFINE N == Len(text)
           R == Seq(A)
           S == Seq(R)
           empty == <<>>
           toLine == [i \in Nat |-> [k \in R |-> IF i \in 1 .. N THEN NextLine(k, text[i]) ELSE k]]
           IsLine(f) == f = [i \in 0 .. N |->
                          IF i = 0 THEN <<>>
                          ELSE IF text[i] = newline THEN <<>> ELSE Append(f[i - 1], text[i])]
           l == CHOOSE l : IsLine(l)
           IsBefore(f) == f = [i \in 0 .. N |->
                            IF i = 0 THEN <<>>
                            ELSE IF text[i] = newline THEN Append(f[i - 1], l[i - 1]) ELSE f[i - 1]]
           b == CHOOSE b : IsBefore(b)
           toBefore == [i \in Nat |-> [k \in S |->
                          IF i \in 1 .. N THEN NextBefore(k, l[i - 1], text[i]) ELSE k]]
<1>1. N \in Nat /\ empty \in R /\ empty \in S /\ \A i \in 1 .. N : i # 0 /\ i \in 0 .. N /\ i - 1 \in 0 .. N
  OBVIOUS
<1>2. Lines(text) = Add(b[N], l[N])
  BY DEF Lines, Add
<1>3. l \in [0 .. N -> R] /\ l[0] = <<>> /\ \A i \in 1 .. N : l[i] = NextLine(l[i - 1], text[i])
  <2>1. toLine \in [Nat -> [R -> R]]
    BY DEF NextLine, Add
  <2>2. PICK f : Computes(f, R, empty, N, toLine)
    <3> HIDE DEF toLine, N, R, empty
    <3>1. QED BY <1>1, <2>1, Recursion
  <2>3. f \in [0 .. N -> R] /\ f[0] = <<>>
    BY <2>2 DEF Computes
  <2>4. \A i \in 1 .. N : f[i] = NextLine(f[i - 1], text[i])
    <3> TAKE i \in 1 .. N
    <3>1. f[i - 1] \in R
      BY <2>3
    <3>2. f[i] = toLine[i][f[i - 1]]
      BY <2>2 DEF Computes
    <3> HIDE DEF R
    <3>3. QED BY <3>1, <3>2
  <2>5. IsLine(f)
    <3>1. \A i \in 0 .. N : i # 0 => i \in 1 .. N
      BY <1>1
    <3> HIDE DEF R, N
    <3>2. \A i \in 0 .. N :
            f[i] = IF i = 0 THEN <<>>
                   ELSE IF text[i] = newline THEN <<>> ELSE Append(f[i - 1], text[i])
      BY <3>1, <2>3, <2>4 DEF NextLine, Add
    <3>3. QED BY <3>2, <2>3
  <2>6. IsLine(l)
    <3> HIDE DEF IsLine
    <3> QED BY <2>5
  <2> HIDE DEF l
  <2>7. l[0] = <<>>
    BY <1>1, <2>6
  <2>8. \A i \in 1 .. N : l[i] = NextLine(l[i - 1], text[i])
    <3> HIDE DEF N
    <3> QED BY <1>1, <2>6 DEF NextLine, Add
  <2>9. Alike(l, f, N)
    <3> HIDE DEF N, R, IsLine
    <3> QED BY <2>3, <2>4, <2>7, <2>8 DEF Alike
  <2>10. \A i \in 0 .. N : l[i] = f[i]
    <3> HIDE DEF N
    <3> QED BY <1>1, <2>9, Unique
  <2>11. l = [i \in 0 .. N |-> l[i]]
    <3> HIDE DEF N
    <3> QED BY <2>6
  <2>12. l \in [0 .. N -> R]
    <3> HIDE DEF N, R, IsLine
    <3> QED BY <2>3, <2>10, <2>11
  <2>13. QED BY <2>7, <2>8, <2>12
<1> HIDE DEF l
<1>4. b \in [0 .. N -> S] /\ b[0] = <<>> /\ \A i \in 1 .. N : b[i] = NextBefore(b[i - 1], l[i - 1], text[i])
  <2>1. toBefore \in [Nat -> [S -> S]]
    <3>1. ASSUME NEW i \in Nat, NEW k \in S
          PROVE  (IF i \in 1 .. N THEN NextBefore(k, l[i - 1], text[i]) ELSE k) \in S
      <4>1. CASE i \in 1 .. N
        <5>1. l[i - 1] \in R
          BY <4>1, <1>1, <1>3
        <5> HIDE DEF R
        <5>2. QED BY <4>1, <5>1 DEF NextBefore, Add
      <4>2. QED BY <4>1
    <3> HIDE DEF S, N
    <3>2. QED BY <3>1
  <2>2. PICK f : Computes(f, S, empty, N, toBefore)
    <3> HIDE DEF toBefore, N, S, empty
    <3>1. QED BY <1>1, <2>1, Recursion
  <2>3. f \in [0 .. N -> S] /\ f[0] = <<>>
    BY <2>2 DEF Computes
  <2>4. \A i \in 1 .. N : f[i] = NextBefore(f[i - 1], l[i - 1], text[i])
    <3> TAKE i \in 1 .. N
    <3>1. f[i - 1] \in S
      BY <2>3
    <3>2. f[i] = toBefore[i][f[i - 1]]
      BY <2>2 DEF Computes
    <3> HIDE DEF S
    <3>3. QED BY <3>1, <3>2
  <2>5. IsBefore(f)
    <3>1. \A i \in 0 .. N : i # 0 => i \in 1 .. N
      BY <1>1
    <3> HIDE DEF S, N
    <3>2. \A i \in 0 .. N :
            f[i] = IF i = 0 THEN <<>>
                   ELSE IF text[i] = newline THEN Append(f[i - 1], l[i - 1]) ELSE f[i - 1]
      BY <3>1, <2>3, <2>4 DEF NextBefore, Add
    <3>3. QED BY <3>2, <2>3
  <2>6. IsBefore(b)
    <3> HIDE DEF IsBefore
    <3> QED BY <2>5
  <2> HIDE DEF b
  <2>7. b[0] = <<>>
    BY <1>1, <2>6
  <2>8. \A i \in 1 .. N : b[i] = NextBefore(b[i - 1], l[i - 1], text[i])
    <3> HIDE DEF N
    <3> QED BY <1>1, <2>6 DEF NextBefore, Add
  <2>9. Alike(b, f, N)
    <3> HIDE DEF N, S, IsBefore
    <3> QED BY <2>3, <2>4, <2>7, <2>8 DEF Alike
  <2>10. \A i \in 0 .. N : b[i] = f[i]
    <3> HIDE DEF N
    <3> QED BY <1>1, <2>9, Unique
  <2>11. b = [i \in 0 .. N |-> b[i]]
    <3> HIDE DEF N
    <3> QED BY <2>6
  <2>12. b \in [0 .. N -> S]
    <3> HIDE DEF N, S, IsBefore
    <3> QED BY <2>3, <2>10, <2>11
  <2>13. QED BY <2>7, <2>8, <2>12
<1> HIDE DEF b
<1>5. Reads(l, b, text)
  BY <1>2, <1>3, <1>4 DEF Reads
<1>6. QED
  <2> HIDE DEF N, R, S
  <2> QED BY <1>3, <1>4, <1>5 DEF N, R, S

\* A text without a newline is one line.
LEMMA LinesOfOne ==
  ASSUME NEW A, newline \notin A, NEW text \in Seq(A)
  PROVE  Lines(text) = Add(<<>>, text)
<1> DEFINE N == Len(text)
           whole == [i \in 0 .. N |-> SubSeq(text, 1, i)]
           none == [i \in 0 .. N |-> <<>>]
<1>1. PICK l \in [0 .. N -> Seq(A)], b \in [0 .. N -> Seq(Seq(A))] : Reads(l, b, text)
  BY Reading
<1>2. \A i \in 1 .. N : text[i] # newline /\ i \in 0 .. N /\ i - 1 \in 0 .. N
  OBVIOUS
<1>3. \A i \in 1 .. N : l[i] = Append(l[i - 1], text[i]) /\ b[i] = b[i - 1]
  BY <1>1, <1>2 DEF Reads, NextLine, NextBefore, Add
<1>4. l[0] = whole[0] /\ b[0] = none[0] /\ N \in Nat
  BY <1>1 DEF Reads
<1>5. \A i \in 1 .. N : l[i - 1] = whole[i - 1] => l[i] = whole[i]
  <2> TAKE i \in 1 .. N
  <2> HAVE l[i - 1] = whole[i - 1]
  <2>1. l[i - 1] = SubSeq(text, 1, i - 1)
    BY <1>2
  <2>2. l[i] = Append(SubSeq(text, 1, i - 1), text[i])
    BY <2>1, <1>3
  <2>3. Append(SubSeq(text, 1, i - 1), text[i]) = SubSeq(text, 1, i)
    OBVIOUS
  <2>4. QED BY <2>2, <2>3, <1>2
<1>6. \A i \in 1 .. N : b[i - 1] = none[i - 1] => b[i] = none[i]
  BY <1>2, <1>3
<1>7. \A i \in 0 .. N : l[i] = whole[i]
  <2> HIDE DEF whole, none, N
  <2>1. Alike(l, whole, N)
    BY <1>4, <1>5 DEF Alike
  <2>2. QED BY <2>1, <1>4, Unique
<1>8. \A i \in 0 .. N : b[i] = none[i]
  <2> HIDE DEF whole, none, N
  <2>1. Alike(b, none, N)
    BY <1>4, <1>6 DEF Alike
  <2>2. QED BY <2>1, <1>4, Unique
<1>9. l[N] = text /\ b[N] = <<>>
  BY <1>4, <1>7, <1>8
<1>10. QED BY <1>1, <1>9 DEF Reads

\* A line that is added to a text is the last that is read.
LEMMA LinesOfMore ==
  ASSUME NEW A, newline \notin A, NEW y \in Seq(A),
         NEW x \in Seq(A \cup {newline})
  PROVE  Lines(Cat(x, Cat(<<newline>>, y))) = Add(Lines(x), y)
<1> DEFINE B == A \cup {newline}
           z == Cat(x, Cat(<<newline>>, y))
           n == Len(x)
           m == Len(y)
<1>1. /\ z \in Seq(B) /\ n \in Nat /\ m \in Nat /\ Len(z) = n + 1 + m
      /\ \A i \in 1 .. n : z[i] = x[i]
      /\ z[n + 1] = newline
      /\ \A j \in 1 .. m : z[n + 1 + j] = y[j]
  <2>1. z \in Seq(B) /\ Len(z) = n + 1 + m
    BY DEF Cat
  <2>2. \A i \in 1 .. n : z[i] = x[i]
    BY DEF Cat
  <2>3. z[n + 1] = newline
    BY DEF Cat
  <2>4. \A j \in 1 .. m : z[n + 1 + j] = y[j]
    BY DEF Cat
  <2> HIDE DEF z, B
  <2>5. QED BY <2>1, <2>2, <2>3, <2>4
<1>2. \A j \in 1 .. m : y[j] # newline
  OBVIOUS
<1> HIDE DEF z, B
<1>3. PICK l \in [0 .. n -> Seq(B)], b \in [0 .. n -> Seq(Seq(B))] : Reads(l, b, x)
  BY Reading DEF B
<1>4. PICK k \in [0 .. Len(z) -> Seq(B)], d \in [0 .. Len(z) -> Seq(Seq(B))] : Reads(k, d, z)
  BY <1>1, Reading
<1> HIDE DEF n
<1>5. \A i \in 1 .. n : i \in 1 .. Len(z) /\ z[i] = x[i]
  BY <1>1
<1>6. /\ \A i \in 1 .. n : l[i] = NextLine(l[i - 1], x[i])
      /\ \A i \in 1 .. n : b[i] = NextBefore(b[i - 1], l[i - 1], x[i])
      /\ Lines(x) = Add(b[n], l[n])
  BY <1>3 DEF Reads, n
<1>7. /\ \A i \in 1 .. Len(z) : k[i] = NextLine(k[i - 1], z[i])
      /\ \A i \in 1 .. Len(z) : d[i] = NextBefore(d[i - 1], k[i - 1], z[i])
      /\ Lines(z) = Add(d[Len(z)], k[Len(z)])
  BY <1>4 DEF Reads
<1>8. k[0] = l[0] /\ d[0] = b[0]
  BY <1>3, <1>4 DEF Reads
<1>9. \A i \in 0 .. n : k[i] = l[i]
  <2>1. Alike(k, l, n)
    BY <1>5, <1>6, <1>7, <1>8 DEF Alike
  <2>2. n \in Nat
    BY <1>1
  <2>3. QED BY <2>1, <2>2, Unique
<1>10. \A i \in 0 .. n : d[i] = b[i]
  <2>1. \A i \in 1 .. n : i - 1 \in 0 .. n
    BY <1>1
  <2>2. Alike(d, b, n)
    BY <2>1, <1>5, <1>6, <1>7, <1>8, <1>9 DEF Alike
  <2>3. n \in Nat
    BY <1>1
  <2>4. QED BY <2>2, <2>3, Unique
<1>11. n + 1 \in 1 .. Len(z) /\ (n + 1) - 1 = n /\ n \in 0 .. n
  BY <1>1
<1>12. k[n + 1] = <<>>
  BY <1>1, <1>7, <1>11 DEF NextLine
<1>13. d[n + 1] = Lines(x)
  <2>1. d[n + 1] = Add(d[n], k[n])
    BY <1>1, <1>7, <1>11 DEF NextBefore
  <2>2. QED BY <2>1, <1>6, <1>9, <1>10, <1>11
<1> DEFINE K == [j \in 0 .. m |-> k[n + 1 + j]]
           D == [j \in 0 .. m |-> d[n + 1 + j]]
           whole == [j \in 0 .. m |-> SubSeq(y, 1, j)]
           same == [j \in 0 .. m |-> Lines(x)]
<1>14. ASSUME NEW j \in 1 .. m
       PROVE  /\ j - 1 \in 0 .. m /\ j \in 0 .. m
              /\ K[j] = Append(K[j - 1], y[j])
              /\ D[j] = D[j - 1]
  <2>1. /\ n + 1 + j \in 1 .. Len(z) /\ z[n + 1 + j] = y[j] /\ y[j] # newline
        /\ (n + 1 + j) - 1 = n + 1 + (j - 1)
        /\ j - 1 \in 0 .. m /\ j \in 0 .. m
    BY <1>1, <1>2
  <2>2. k[n + 1 + j] = Append(k[n + 1 + (j - 1)], y[j])
    BY <2>1, <1>7 DEF NextLine, Add
  <2>3. d[n + 1 + j] = d[n + 1 + (j - 1)]
    BY <2>1, <1>7 DEF NextBefore
  <2>4. QED BY <2>1, <2>2, <2>3
<1>15. m \in Nat /\ K[0] = whole[0] /\ D[0] = same[0]
  <2>1. m \in Nat /\ 0 \in 0 .. m /\ n + 1 + 0 = n + 1
    BY <1>1
  <2>2. whole[0] = <<>>
    BY <2>1
  <2> HIDE DEF m, whole
  <2>3. K[0] = whole[0]
    BY <2>1, <2>2, <1>12
  <2>4. D[0] = same[0]
    BY <2>1, <1>13
  <2>5. QED BY <2>1, <2>3, <2>4
<1>16. \A j \in 1 .. m : K[j - 1] = whole[j - 1] => K[j] = whole[j]
  <2> TAKE j \in 1 .. m
  <2> HAVE K[j - 1] = whole[j - 1]
  <2>1. Append(SubSeq(y, 1, j - 1), y[j]) = SubSeq(y, 1, j)
    OBVIOUS
  <2>2. K[j] = Append(K[j - 1], y[j]) /\ j - 1 \in 0 .. m /\ j \in 0 .. m
    BY <1>14
  <2> HIDE DEF K
  <2>3. K[j] = Append(SubSeq(y, 1, j - 1), y[j])
    BY <2>2
  <2>4. QED BY <2>1, <2>2, <2>3
<1>17. \A j \in 1 .. m : D[j - 1] = same[j - 1] => D[j] = same[j]
  <2> HIDE DEF D
  <2> QED BY <1>14
<1>18. \A j \in 0 .. m : K[j] = whole[j]
  <2> HIDE DEF K, whole, D, same, m
  <2>1. Alike(K, whole, m)
    BY <1>15, <1>16 DEF Alike
  <2>2. m \in Nat
    BY <1>15
  <2>3. QED BY <2>1, <2>2, Unique
<1>19. \A j \in 0 .. m : D[j] = same[j]
  <2> HIDE DEF K, whole, D, same, m
  <2>1. Alike(D, same, m)
    BY <1>15, <1>17 DEF Alike
  <2>2. QED BY <2>1, <1>15, Unique
<1>20. k[n + 1 + m] = y /\ d[n + 1 + m] = Lines(x)
  BY <1>15, <1>18, <1>19
<1>21. QED BY <1>1, <1>7, <1>20 DEF z

(***************************************************************************)
(* Aggregate.                                                              *)
(***************************************************************************)
NextPayload(frame, payload) == Cat(frame, Cat(<<newline>>, payload))

\* The function that Aggregate is defined with, as a witness.
Aggregates(f, ts, payloads) ==
  /\ f[0] = <<Stamp(ts)>>
  /\ \A n \in 1 .. Len(payloads) : f[n] = NextPayload(f[n - 1], payloads[n])
  /\ Aggregate(ts, payloads) = f[Len(payloads)]

LEMMA Aggregated ==
  ASSUME NEW A, newline \in A, NEW ts, Stamp(ts) \in A, NEW payloads \in Seq(Seq(A))
  PROVE  \E f \in [0 .. Len(payloads) -> Seq(A)] : Aggregates(f, ts, payloads)
<1> DEFINE N == Len(payloads)
           R == Seq(A)
           first == <<Stamp(ts)>>
           step == [n \in Nat |-> [k \in R |->
                      IF n \in 1 .. N THEN NextPayload(k, payloads[n]) ELSE k]]
           Is(f) == f = [n \in 0 .. N |->
                      IF n = 0 THEN <<Stamp(ts)>> ELSE f[n - 1] \o <<newline>> \o payloads[n]]
           g == CHOOSE g : Is(g)
<1>1. N \in Nat /\ first \in R /\ \A n \in 1 .. N : payloads[n] \in R
  OBVIOUS
<1>2. ASSUME NEW k \in R, NEW p \in R
      PROVE  NextPayload(k, p) = k \o <<newline>> \o p /\ NextPayload(k, p) \in R
  <2>1. <<newline>> \in Seq(A)
    OBVIOUS
  <2>2. (k \o <<newline>>) \o p = k \o (<<newline>> \o p)
    BY <2>1, ConcatAssociative
  <2>3. k \o (<<newline>> \o p) \in R
    BY <2>1
  <2>4. QED BY <2>2, <2>3 DEF NextPayload, Cat
<1>3. step \in [Nat -> [R -> R]]
  <2> HIDE DEF R, N
  <2> QED BY <1>1, <1>2
<1>4. PICK f : Computes(f, R, first, N, step)
  <2> HIDE DEF step, N, R, first
  <2>1. QED BY <1>1, <1>3, Recursion
<1>5. f \in [0 .. N -> R] /\ f[0] = <<Stamp(ts)>>
  BY <1>4 DEF Computes
<1>6. \A n \in 1 .. N : f[n - 1] \in R /\ f[n] = NextPayload(f[n - 1], payloads[n])
  <2> TAKE n \in 1 .. N
  <2>1. f[n - 1] \in R
    <3>1. n - 1 \in 0 .. N
      BY <1>1
    <3> HIDE DEF R, N
    <3>2. QED BY <3>1, <1>5
  <2>2. f[n] = step[n][f[n - 1]]
    BY <1>4 DEF Computes
  <2> HIDE DEF R
  <2>3. QED BY <2>1, <2>2
<1>7. Is(f)
  <2>1. \A n \in 0 .. N : n # 0 => n \in 1 .. N
    BY <1>1
  <2> HIDE DEF R, N
  <2>2. ASSUME NEW n \in 0 .. N
        PROVE  f[n] = IF n = 0 THEN <<Stamp(ts)>> ELSE f[n - 1] \o <<newline>> \o payloads[n]
    <3>1. CASE n = 0
      BY <3>1, <1>5
    <3>2. CASE n # 0
      <4>1. n \in 1 .. N
        BY <2>1, <3>2
      <4>2. f[n] = NextPayload(f[n - 1], payloads[n])
        BY <4>1, <1>6
      <4>3. f[n - 1] \in R /\ payloads[n] \in R
        BY <4>1, <1>1, <1>6
      <4>4. NextPayload(f[n - 1], payloads[n]) = f[n - 1] \o <<newline>> \o payloads[n]
        BY <4>3, <1>2
      <4>5. QED BY <3>2, <4>2, <4>4
    <3>3. QED BY <3>1, <3>2
  <2>3. QED BY <2>2, <1>5
<1>8. Is(g)
  <2> HIDE DEF Is
  <2> QED BY <1>7
<1>9. Alike(f, g, N)
  <2>1. \A n \in 1 .. N : n # 0 /\ n \in 0 .. N
    BY <1>1
  <2> HIDE DEF g, N
  <2>2. g[0] = <<Stamp(ts)>>
    BY <1>1, <1>8
  <2>3. \A n \in 1 .. N : g[n] = g[n - 1] \o <<newline>> \o payloads[n]
    BY <2>1, <1>8
  <2> HIDE DEF Is, R
  <2>4. ASSUME NEW n \in 1 .. N, f[n - 1] = g[n - 1] PROVE f[n] = g[n]
    <3>1. g[n - 1] \in R /\ payloads[n] \in R
      BY <1>1, <1>6, <2>4
    <3>2. f[n] = NextPayload(g[n - 1], payloads[n])
      BY <1>6, <2>4
    <3>3. NextPayload(g[n - 1], payloads[n]) = g[n - 1] \o <<newline>> \o payloads[n]
      BY <3>1, <1>2
    <3>4. QED BY <3>2, <3>3, <2>3
  <2>5. f[0] = g[0]
    BY <2>2, <1>5
  <2>6. QED BY <2>4, <2>5 DEF Alike
<1>10. f[N] = g[N]
  <2> HIDE DEF g, N
  <2>1. N \in Nat
    BY <1>1
  <2>2. \A n \in 0 .. N : f[n] = g[n]
    BY <2>1, <1>9, Unique
  <2>3. QED BY <2>1, <2>2
<1>11. Aggregate(ts, payloads) = g[N]
  BY DEF Aggregate
<1>12. QED
  <2> HIDE DEF g, Is, R, N
  <2>1. Aggregates(f, ts, payloads)
    BY <1>5, <1>6, <1>10, <1>11 DEF N, Aggregates
  <2>2. QED BY <2>1, <1>5 DEF R, N

\* A frame is the time stamp, and then the payloads, a line each.
IsRestOf(text, ts, payloads) ==
  /\ Aggregate(ts, payloads) = Cat(<<Stamp(ts)>>, Cat(<<newline>>, text))
  /\ Lines(text) = payloads
  /\ Lines(Aggregate(ts, payloads)) = Cat(<< <<Stamp(ts)>> >>, payloads)

LEMMA FrameLines ==
  ASSUME NEW A, newline \notin A, NEW ts, Stamp(ts) \in A,
         NEW payloads \in Seq(Seq(A)), payloads # <<>>
  PROVE  \E text \in Seq(A \cup {newline}) : IsRestOf(text, ts, payloads)
<1> DEFINE N == Len(payloads)
           B == A \cup {newline}
           stamp == <<Stamp(ts)>>
           upTo(n) == SubSeq(payloads, 1, n)
<1>1. PICK f \in [0 .. N -> Seq(B)] :
        /\ f[0] = stamp
        /\ \A n \in 1 .. N : f[n] = NextPayload(f[n - 1], payloads[n])
        /\ Aggregate(ts, payloads) = f[N]
  <2>1. payloads \in Seq(Seq(B)) /\ newline \in B /\ Stamp(ts) \in B
    OBVIOUS
  <2> HIDE DEF B
  <2>2. PICK f \in [0 .. Len(payloads) -> Seq(B)] : Aggregates(f, ts, payloads)
    BY <2>1, Aggregated
  <2> HIDE DEF N, stamp
  <2>3. f \in [0 .. N -> Seq(B)]
    BY <2>2 DEF N
  <2>4. /\ f[0] = stamp
        /\ \A n \in 1 .. N : f[n] = NextPayload(f[n - 1], payloads[n])
        /\ Aggregate(ts, payloads) = f[N]
    BY <2>2 DEF N, stamp, Aggregates
  <2>5. QED BY <2>3, <2>4
<1>2. N \in Nat /\ N >= 1 /\ stamp \in Seq(A) /\ <<newline>> \in Seq(B)
  BY EmptySeq
<1>3. ASSUME NEW n \in 1 .. N
      PROVE  /\ payloads[n] \in Seq(A) /\ payloads[n] \in Seq(B)
             /\ upTo(n) = Add(upTo(n - 1), payloads[n])
  BY DEF Add
<1> DEFINE Good(n) == \E text \in Seq(B) :
                        /\ f[n] = Cat(stamp, Cat(<<newline>>, text))
                        /\ Lines(text) = upTo(n)
                        /\ Lines(f[n]) = Cat(<<stamp>>, upTo(n))
           T == {n \in Nat : n + 1 <= N => Good(n + 1)}
<1>4. 0 \in T
  <2>1. 1 \in 1 .. N /\ upTo(0) = <<>> /\ 1 - 1 = 0
    BY <1>2
  <2> DEFINE p == payloads[1]
  <2>2. p \in Seq(A) /\ p \in Seq(B) /\ upTo(1) = Add(<<>>, p)
    <3> HIDE DEF upTo, N, B
    <3> QED BY <2>1, <1>3
  <2> HIDE DEF p, upTo, N, stamp, B
  <2>3. f[1] = Cat(stamp, Cat(<<newline>>, p))
    <3>1. f[1] = NextPayload(f[0], p)
      BY <2>1, <1>1 DEF p
    <3>2. QED BY <3>1, <1>1 DEF NextPayload
  <2>4. Lines(p) = upTo(1)
    BY <2>2, LinesOfOne
  <2> USE DEF stamp, B
  <2>5. Lines(f[1]) = Add(Add(<<>>, stamp), p)
    <3>1. Lines(stamp) = Add(<<>>, stamp)
      BY <1>2, LinesOfOne
    <3>2. stamp \in Seq(B)
      OBVIOUS
    <3> HIDE DEF stamp, B
    <3>3. Lines(Cat(stamp, Cat(<<newline>>, p))) = Add(Lines(stamp), p)
      BY <3>2, <2>2, LinesOfMore DEF B
    <3>4. QED BY <3>1, <3>3, <2>3
  <2>6. Add(Add(<<>>, stamp), p) = Cat(<<stamp>>, Add(<<>>, p))
    BY DEF Add, Cat
  <2>7. Good(1)
    BY <2>2, <2>3, <2>4, <2>5, <2>6
  <2>8. QED BY <2>7
<1>5. ASSUME NEW n \in Nat, n \in T PROVE n + 1 \in T
  <2>1. CASE n + 2 <= N
    <3> DEFINE k == n + 1
    <3>1. k \in 1 .. N /\ k + 1 \in 1 .. N /\ (k + 1) - 1 = k
      BY <1>2, <2>1
    <3>2. Good(k)
      <4>1. n + 1 <= N
        BY <1>2, <2>1
      <4> HIDE DEF Good
      <4>2. QED BY <4>1, <1>5
    <3> HIDE DEF k
    <3>3. PICK text \in Seq(B) :
            /\ f[k] = Cat(stamp, Cat(<<newline>>, text))
            /\ Lines(text) = upTo(k)
            /\ Lines(f[k]) = Cat(<<stamp>>, upTo(k))
      BY <3>2
    <3> DEFINE p == payloads[k + 1]
               more == Cat(text, Cat(<<newline>>, p))
    <3>4. p \in Seq(A) /\ p \in Seq(B) /\ upTo(k + 1) = Add(upTo(k), p)
      BY <3>1, <1>3
    <3>5. f[k + 1] = Cat(f[k], Cat(<<newline>>, p)) /\ f[k] \in Seq(B)
      <4>1. k \in 0 .. N
        BY <1>2, <3>1
      <4> HIDE DEF N, B, stamp, p
      <4>2. f[k] \in Seq(B)
        BY <4>1
      <4>3. f[k + 1] = NextPayload(f[(k + 1) - 1], payloads[k + 1])
        BY <3>1, <1>1
      <4>4. QED BY <4>2, <4>3, <3>1 DEF NextPayload, p
    <3>6. more \in Seq(B) /\ Cat(<<newline>>, p) \in Seq(B) /\ stamp \in Seq(B) /\ Cat(<<newline>>, text) \in Seq(B)
      <4>1. Cat(<<newline>>, p) \in Seq(B) /\ Cat(<<newline>>, text) \in Seq(B)
        BY <1>2, <3>4, CatType
      <4>2. QED BY <4>1, CatType
    <3>7. upTo(k) \in Seq(Seq(A))
      BY <3>1
    <3> HIDE DEF p, stamp, B, upTo, N
    <3>8. f[k + 1] = Cat(stamp, Cat(<<newline>>, more))
      <4> DEFINE nl == <<newline>>
      <4>1. nl \in Seq(B)
        BY <1>2
      <4> HIDE DEF nl
      <4>2. Cat(Cat(stamp, Cat(nl, text)), Cat(nl, p)) = Cat(stamp, Cat(Cat(nl, text), Cat(nl, p)))
        BY <3>6, CatAssociative DEF nl
      <4>3. Cat(Cat(nl, text), Cat(nl, p)) = Cat(nl, Cat(text, Cat(nl, p)))
        <5>1. Cat(nl, p) \in Seq(B)
          BY <3>6 DEF nl
        <5>2. QED BY <5>1, <4>1, CatAssociative
      <4>4. f[k + 1] = Cat(Cat(stamp, Cat(nl, text)), Cat(nl, p))
        BY <3>3, <3>5 DEF nl
      <4>5. QED BY <4>2, <4>3, <4>4 DEF nl
    <3>9. Lines(more) = upTo(k + 1)
      BY <3>3, <3>4, LinesOfMore DEF B
    <3>10. Lines(f[k + 1]) = Add(Cat(<<stamp>>, upTo(k)), p)
      BY <3>3, <3>4, <3>5, LinesOfMore DEF B
    <3>11. Add(Cat(<<stamp>>, upTo(k)), p) = Cat(<<stamp>>, Add(upTo(k), p))
      <4> DEFINE u == upTo(k)
      <4>1. u \in Seq(Seq(A))
        BY <3>7
      <4> HIDE DEF u
      <4>2. Add(Cat(<<stamp>>, u), p) = Cat(<<stamp>>, Add(u, p))
        BY <4>1 DEF Add, Cat
      <4>3. QED BY <4>2 DEF u
    <3>12. Good(k + 1)
      <4> HIDE DEF more
      <4> QED BY <3>4, <3>6, <3>8, <3>9, <3>10, <3>11
    <3>13. QED BY <3>12 DEF k
  <2>2. CASE ~ (n + 2 <= N)
    BY <1>2, <2>2
  <2>3. QED BY <2>1, <2>2
<1>6. Good(N)
  <2> HIDE DEF T
  <2>1. N - 1 \in T
    <3>1. N - 1 \in Nat
      BY <1>2
    <3>2. QED BY <3>1, <1>4, <1>5, InductionOnNat
  <2> HIDE DEF Good
  <2>2. QED BY <2>1, <1>2 DEF T
<1>7. upTo(N) = payloads
  OBVIOUS
<1>8. QED
  <2> HIDE DEF upTo, N, B, stamp
  <2>1. PICK text \in Seq(B) : /\ f[N] = Cat(stamp, Cat(<<newline>>, text))
                               /\ Lines(text) = upTo(N)
                               /\ Lines(f[N]) = Cat(<<stamp>>, upTo(N))
    BY <1>6
  <2>2. IsRestOf(text, ts, payloads)
    BY <2>1, <1>1, <1>7 DEF stamp, IsRestOf
  <2>3. QED BY <2>2 DEF B

(***************************************************************************)
(* What is read out of a message.                                          *)
(***************************************************************************)
LEMMA StampFirst ==
  ASSUME NEW A, NEW ts, Stamp(ts) \in A, NEW c \in A, c \in {semicolon, newline},
         NEW y \in Seq(A)
  PROVE  /\ TimeStamp(Cat(<<Stamp(ts)>>, Cat(<<c>>, y))) = ts
         /\ After(Cat(<<Stamp(ts)>>, Cat(<<c>>, y)), {c}) = y
<1> DEFINE x == <<Stamp(ts)>>
           z == Cat(x, Cat(<<c>>, y))
<1>1. x \in Seq(A) /\ Len(x) = 1 /\ x[1] = Stamp(ts)
  OBVIOUS
<1>2. Stamp(ts) # semicolon /\ Stamp(ts) # newline
  BY DEF Stamp, semicolon, newline
<1>3. \A i \in 1 .. Len(x) : x[i] \notin {semicolon, newline} /\ x[i] \notin {c}
  BY <1>1, <1>2
<1> HIDE DEF x
<1>4. Before(z, {semicolon, newline}) = x
  BY <1>1, <1>3, CutAtFirst
<1>5. After(z, {c}) = y
  BY <1>1, <1>3, CutAtFirst
<1>6. TimeStamp(z) = ts
  <2>1. Stamp(ts)[2] = ts
    BY DEF Stamp
  <2> HIDE DEF z
  <2>2. QED BY <1>1, <1>4, <2>1 DEF TimeStamp
<1>7. QED BY <1>5, <1>6 DEF x

LEMMA Padded ==
  ASSUME NEW A, padding_char \in A, NEW data \in Seq(A)
  PROVE  \E pad \in Seq(A) : AddPadding(data) = Cat(data, pad)
<1> DEFINE n == padded_size - Len(data)
           pad == [i \in 1 .. n |-> padding_char]
<1>1. n \in Int
  BY PaddedSizeAssumption
<1>2. pad \in Seq(A)
  <2>1. CASE n <= 0
    <3>1. 1 .. n = {}
      BY <1>1, <2>1
    <3> HIDE DEF n
    <3>2. pad = <<>>
      BY <3>1
    <3> HIDE DEF pad
    <3>3. QED BY <3>2, EmptySeq
  <2>2. CASE n > 0
    <3> HIDE DEF n
    <3>1. n \in Nat /\ pad \in [1 .. n -> A]
      BY <1>1, <2>2
    <3> HIDE DEF pad
    <3>2. QED BY <3>1
  <2>3. QED BY <1>1, <2>1, <2>2
<1>3. AddPadding(data) = Cat(data, pad)
  BY DEF AddPadding, Cat
<1>4. QED BY <1>2, <1>3

\* A text that begins with a time stamp keeps it through the padding, and its rest is
\* found after the separator.
ReadsAs(message, ts, c, y) ==
  LET data == RemovePadding(message)
  IN  /\ TimeStamp(message) = ts /\ TimeStamp(data) = ts
      /\ After(data, {c}) = RemovePadding(y)
      /\ data = Cat(<<Stamp(ts)>>, Cat(<<c>>, RemovePadding(y)))

LEMMA StampThroughPadding ==
  ASSUME NEW A, NEW ts, Stamp(ts) \in A, NEW c \in A, c \in {semicolon, newline},
         NEW y \in Seq(A)
  PROVE  ReadsAs(AddPadding(Cat(<<Stamp(ts)>>, Cat(<<c>>, y))), ts, c, y)
<1> DEFINE B == A \cup {padding_char}
           x == <<Stamp(ts)>>
           s == <<c>>
           z == Cat(x, Cat(s, y))
           m == AddPadding(z)
           data == RemovePadding(m)
           rest == RemovePadding(y)
<1>1. /\ x \in Seq(A) /\ s \in Seq(A)
      /\ x \in Seq(B) /\ s \in Seq(B) /\ y \in Seq(B)
      /\ Stamp(ts) \in B /\ c \in B /\ padding_char \in B
  OBVIOUS
<1> HIDE DEF x, s
<1>2. z \in Seq(A) /\ z \in Seq(B) /\ Cat(s, y) \in Seq(A) /\ Cat(s, y) \in Seq(B)
  <2> HIDE DEF B
  <2>1. Cat(s, y) \in Seq(A) /\ Cat(s, y) \in Seq(B)
    BY <1>1, CatType
  <2>2. QED BY <1>1, <2>1, CatType
<1>3. TimeStamp(m) = ts
  <2> HIDE DEF B
  <2>1. PICK pad \in Seq(B) : AddPadding(z) = Cat(z, pad)
    BY <1>1, <1>2, Padded
  <2>2. Cat(Cat(x, Cat(s, y)), pad) = Cat(x, Cat(Cat(s, y), pad))
    BY <1>1, <1>2, <2>1, CatAssociative
  <2>3. Cat(Cat(s, y), pad) = Cat(s, Cat(y, pad))
    BY <1>1, <2>1, CatAssociative
  <2>4. Cat(y, pad) \in Seq(B)
    BY <1>1, <2>1, CatType
  <2>5. TimeStamp(Cat(x, Cat(s, Cat(y, pad)))) = ts
    BY <1>1, <2>4, StampFirst DEF x, s
  <2>6. QED BY <2>1, <2>2, <2>3, <2>5
<1>4. data = Cat(x, Cat(s, rest))
  <2>1. data = RemovePadding(z)
    <3> HIDE DEF z
    <3> QED BY <1>2, PaddingForgotten
  <2>2. RemovePadding(z) = Cat(RemovePadding(x), RemovePadding(Cat(s, y)))
    BY <1>1, <1>2, PaddingDistributes
  <2>3. RemovePadding(Cat(s, y)) = Cat(RemovePadding(s), rest)
    BY <1>1, PaddingDistributes
  <2>4. RemovePadding(x) = x
    <3> DEFINE C == {Stamp(ts)}
    <3>1. padding_char \notin C /\ x \in Seq(C)
      BY DEF Stamp, padding_char, x
    <3> HIDE DEF C
    <3>2. QED BY <3>1, PaddingAbsent
  <2>5. RemovePadding(s) = s
    <3> DEFINE C == {c}
    <3>1. s \in Seq(C)
      BY DEF s
    <3>2. semicolon # padding_char /\ newline # padding_char
      BY DEF semicolon, newline, padding_char
    <3>3. padding_char \notin C
      BY <3>2
    <3> HIDE DEF C
    <3>4. QED BY <3>1, <3>3, PaddingAbsent
  <2>6. QED BY <2>1, <2>2, <2>3, <2>4, <2>5
<1>5. rest \in Seq(A)
  <2>1. rest \in Seq(A \ {padding_char})
    BY PaddingRemoved
  <2> HIDE DEF rest
  <2>2. QED BY <2>1
<1>6. TimeStamp(data) = ts /\ After(data, {c}) = rest
  <2> HIDE DEF rest, data
  <2>1. data = Cat(<<Stamp(ts)>>, Cat(<<c>>, rest))
    BY <1>4 DEF x, s
  <2>2. QED BY <2>1, <1>5, StampFirst
<1>7. data = Cat(<<Stamp(ts)>>, Cat(<<c>>, rest))
  BY <1>4 DEF x, s
<1>8. m = AddPadding(Cat(<<Stamp(ts)>>, Cat(<<c>>, y)))
  BY DEF x, s
<1>9. QED
  <2> HIDE DEF m, data, rest
  <2> QED BY <1>3, <1>6, <1>7, <1>8 DEF data, rest, ReadsAs

\* A measurement goes into a message and comes out of it: the PDC finds its time stamp
\* (also before it removes the padding), its payload, in which nothing but padding
\* characters is missing, and in that the name (GenerateMeasurement, DoRead of the PDC).
MessageAtoms(p, ts) == Pieces \cup {semicolon, Stamp(ts), Value(p, ts)}

LEMMA PayloadText ==
  ASSUME NEW p \in DOMAIN Name, NEW ts
  PROVE  /\ Payload(p, ts) = Cat(Name[p], Cat(<<semicolon>>, <<Value(p, ts)>>))
         /\ Name[p] \in Seq(Pieces \cup {padding_char})
         /\ Payload(p, ts) \in Seq(MessageAtoms(p, ts) \cup {padding_char})
         /\ RemovePadding(Payload(p, ts)) =
              Cat(RemovePadding(Name[p]), Cat(<<semicolon>>, <<Value(p, ts)>>))
<1> DEFINE A == MessageAtoms(p, ts) \cup {padding_char}
           s == <<semicolon>>
           v == <<Value(p, ts)>>
           name == Name[p]
<1>1. name \in Seq(Pieces \cup {padding_char})
  BY NamesAssumption
<1>2. name \in Seq(A) /\ s \in Seq(A) /\ v \in Seq(A)
  <2>1. Pieces \cup {padding_char} \subseteq A /\ semicolon \in A /\ Value(p, ts) \in A
    BY DEF MessageAtoms
  <2> HIDE DEF A, name
  <2>2. QED BY <1>1, <2>1
<1>3. Payload(p, ts) = Cat(name, Cat(s, v))
  BY DEF Payload, Cat
<1> HIDE DEF A, s, v, name
<1>4. Cat(s, v) \in Seq(A) /\ Cat(name, Cat(s, v)) \in Seq(A)
  <2>1. Cat(s, v) \in Seq(A)
    BY <1>2, CatType
  <2>2. QED BY <1>2, <2>1, CatType
<1>5. RemovePadding(Cat(name, Cat(s, v))) = Cat(RemovePadding(name), RemovePadding(Cat(s, v)))
  BY <1>2, <1>4, PaddingDistributes
<1>6. RemovePadding(Cat(s, v)) = Cat(s, v)
  <2> DEFINE C == {semicolon, Value(p, ts)}
  <2>1. padding_char \notin C
    BY DEF semicolon, padding_char, Value
  <2>2. s \in Seq(C) /\ v \in Seq(C)
    BY DEF s, v
  <2> HIDE DEF C
  <2>3. Cat(s, v) \in Seq(C)
    BY <2>2, CatType
  <2>4. QED BY <2>1, <2>3, PaddingAbsent
<1>7. QED
  BY <1>1, <1>3, <1>4, <1>5, <1>6 DEF A, s, v, name

THEOREM MeasurementReadsBack ==
  ASSUME NEW p \in DOMAIN Name, NEW ts
  PROVE  LET message == AddPadding(Measurement(p, ts))
             data == RemovePadding(message)
         IN  /\ TimeStamp(message) = ts /\ TimeStamp(data) = ts
             /\ After(data, {semicolon}) = RemovePadding(Payload(p, ts))
             /\ NameIn(After(data, {semicolon})) = RemovePadding(Name[p])
<1> DEFINE A == MessageAtoms(p, ts) \cup {padding_char}
           x == <<Stamp(ts)>>
           s == <<semicolon>>
           v == <<Value(p, ts)>>
           y == Payload(p, ts)
           z == Cat(x, Cat(s, y))
           message == AddPadding(Measurement(p, ts))
           data == RemovePadding(message)
           name == RemovePadding(Name[p])
<1>1. /\ Stamp(ts) \in A /\ semicolon \in A /\ semicolon \in {semicolon, newline}
      /\ x \in Seq(A) /\ s \in Seq(A) /\ v \in Seq(A)
  BY DEF MessageAtoms
<1>2. y \in Seq(A)
  BY PayloadText
<1>3. Measurement(p, ts) = z
  <2>1. Measurement(p, ts) = Cat(Cat(x, s), y)
    <3>1. <<Stamp(ts), semicolon>> = Cat(x, s)
      BY DEF Cat
    <3> HIDE DEF x, s, y
    <3>2. QED BY <3>1 DEF Measurement, Cat, y
  <2> HIDE DEF x, s, y, A
  <2>2. QED BY <2>1, <1>1, <1>2, CatAssociative
<1>4. TimeStamp(message) = ts /\ TimeStamp(data) = ts /\ After(data, {semicolon}) = RemovePadding(y)
  <2> HIDE DEF A, y, z
  <2>1. z = Cat(<<Stamp(ts)>>, Cat(<<semicolon>>, y))
    BY DEF z
  <2>2. ReadsAs(AddPadding(z), ts, semicolon, y)
    BY <1>1, <1>2, <2>1, StampThroughPadding
  <2>3. QED BY <2>2, <1>3 DEF ReadsAs
<1>5. RemovePadding(y) = Cat(name, Cat(s, v))
  BY PayloadText
<1>6. NameIn(RemovePadding(y)) = name
  <2>1. Name[p] \in Seq(Pieces \cup {padding_char})
    BY PayloadText
  <2>2. name \in Seq((Pieces \cup {padding_char}) \ {padding_char})
    BY <2>1, PaddingRemoved
  <2>3. \A c \in (Pieces \cup {padding_char}) \ {padding_char} : c # semicolon /\ c \in A
    BY NamesAssumption DEF MessageAtoms
  <2> HIDE DEF A, name, y
  <2>4. name \in Seq(A) /\ \A i \in 1 .. Len(name) : name[i] \notin {semicolon}
    BY <2>2, <2>3
  <2> HIDE DEF v
  <2>5. Before(Cat(name, Cat(<<semicolon>>, v)), {semicolon}) = name
    BY <1>1, <2>4, CutAtFirst
  <2>6. QED BY <2>5, <1>5 DEF NameIn
<1>7. QED
  <2> HIDE DEF message, data, y, name
  <2> QED BY <1>4, <1>6 DEF message, data, y, name

\* A cleaned payload tells whose it is and of when.
LEMMA PayloadTells ==
  ASSUME NEW p \in DOMAIN Name, NEW ts, NEW q \in DOMAIN Name, NEW us,
         RemovePadding(Payload(p, ts)) = RemovePadding(Payload(q, us))
  PROVE  p = q /\ ts = us
<1> DEFINE A == Pieces \cup {padding_char}
<1>1. PICK x \in Seq(A) :
        RemovePadding(Payload(p, ts)) = Cat(x, Cat(<<semicolon>>, <<Value(p, ts)>>))
  <2>1. RemovePadding(Name[p]) \in Seq(A \ {padding_char})
    BY PayloadText, PaddingRemoved
  <2>2. RemovePadding(Name[p]) \in Seq(A)
    BY <2>1
  <2>3. QED BY <2>2, PayloadText
<1>2. PICK y \in Seq(A) :
        RemovePadding(Payload(q, us)) = Cat(y, Cat(<<semicolon>>, <<Value(q, us)>>))
  <2>1. RemovePadding(Name[q]) \in Seq(A \ {padding_char})
    BY PayloadText, PaddingRemoved
  <2>2. RemovePadding(Name[q]) \in Seq(A)
    BY <2>1
  <2>3. QED BY <2>2, PayloadText
<1> DEFINE u == Cat(x, Cat(<<semicolon>>, <<Value(p, ts)>>))
           w == Cat(y, Cat(<<semicolon>>, <<Value(q, us)>>))
<1>3. u[Len(u)] = Value(p, ts)
  <2> HIDE DEF A
  <2> QED BY DEF Cat
<1>4. w[Len(w)] = Value(q, us)
  <2> HIDE DEF A
  <2> QED BY DEF Cat
<1>5. u = w
  BY <1>1, <1>2
<1>6. Value(p, ts) = Value(q, us)
  <2> HIDE DEF u, w
  <2> QED BY <1>3, <1>4, <1>5
<1>7. QED BY <1>6 DEF Value

\* A frame goes into a message and comes out of it: the SPDC finds its time stamp and,
\* line by line, the payloads that the PDC had put into it (DoRead of both).
THEOREM FrameReadsBack ==
  ASSUME NEW A, newline \notin A, padding_char \notin A, NEW ts, Stamp(ts) \in A,
         NEW payloads \in Seq(Seq(A)), payloads # <<>>
  PROVE  LET message == AddPadding(Aggregate(ts, payloads))
             data == RemovePadding(message)
         IN  /\ TimeStamp(message) = ts /\ TimeStamp(data) = ts
             /\ Lines(After(data, {newline})) = payloads
             /\ Len(Lines(data)) = Len(payloads) + 1
             /\ After(data, {newline}) \in Seq(A \cup {newline})
<1> DEFINE B == A \cup {newline}
           message == AddPadding(Aggregate(ts, payloads))
           data == RemovePadding(message)
<1>1. Stamp(ts) \in B /\ newline \in B /\ padding_char \notin B
  BY DEF newline, padding_char
<1>2. PICK text \in Seq(B) :
        /\ Aggregate(ts, payloads) = Cat(<<Stamp(ts)>>, Cat(<<newline>>, text))
        /\ Lines(text) = payloads
        /\ Lines(Aggregate(ts, payloads)) = Cat(<< <<Stamp(ts)>> >>, payloads)
  <2> HIDE DEF B
  <2>1. PICK text \in Seq(B) : IsRestOf(text, ts, payloads)
    BY FrameLines DEF B
  <2>2. QED BY <2>1 DEF IsRestOf
<1>3. RemovePadding(text) = text
  <2> HIDE DEF B
  <2> QED BY <1>1, PaddingAbsent
<1>4. TimeStamp(message) = ts /\ TimeStamp(data) = ts /\ After(data, {newline}) = text
      /\ data = Aggregate(ts, payloads)
  <2> DEFINE z == Cat(<<Stamp(ts)>>, Cat(<<newline>>, text))
             m == AddPadding(z)
  <2> HIDE DEF B
  <2>1. newline \in {semicolon, newline}
    OBVIOUS
  <2>2. ReadsAs(m, ts, newline, text)
    BY <2>1, <1>1, StampThroughPadding
  <2> HIDE DEF z
  <2>3. Aggregate(ts, payloads) = z
    BY <1>2 DEF z
  <2>4. RemovePadding(m) = z
    BY <2>2, <1>3 DEF z, ReadsAs
  <2>5. QED BY <2>2, <2>3, <2>4, <1>3 DEF ReadsAs
<1>5. Len(Lines(data)) = Len(payloads) + 1
  <2>1. Len(Cat(<< <<Stamp(ts)>> >>, payloads)) = Len(payloads) + 1
    BY DEF Cat
  <2> HIDE DEF data
  <2>2. QED BY <2>1, <1>2, <1>4
<1>6. QED
  <2> HIDE DEF message, data, B
  <2> QED BY <1>2, <1>4, <1>5 DEF message, data, B

===============================================================================
