--------------------------- MODULE KeyRangeProofs ---------------------------
(***************************************************************************)
(* Theorems about keys, ranges of keys and what is built from them, for any *)
(* bytes, any keys and prefixes of any length: the order of keys and the    *)
(* end of a prefix (KeyRange), the requests of the builders (Permissions,   *)
(* Builders), and the namespace (Namespace).                               *)
(***************************************************************************)
EXTENDS Builders, Namespace, SequenceTheorems, WellFoundedInduction, TLAPS

----------------------------------------------------------------------------
(* Numbers and sequences *)

LEMMA LeastOf ==
    ASSUME NEW T, T \subseteq Nat, T # {}
    PROVE  \E n \in T : \A m \in T : n <= m
<1>1. PICK n \in T : \A m \in T : <<m, n>> \notin OpToRel(<, Nat)
  BY WFMin, NatLessThanWellFounded, Zenon
<1>2. \A m \in T : ~(m < n)
  BY <1>1, Zenon DEF OpToRel
<1> QED
  BY <1>2

LEMMA GreatestOf ==
    ASSUME NEW n \in Nat, NEW T, T \subseteq 1..n, T # {}
    PROVE  \E i \in T : \A j \in T : j <= i
<1> DEFINE D == {n - j : j \in T}
<1>0. \A j \in T : j \in 1..n
  OBVIOUS
<1>1. D \subseteq Nat /\ D # {}
  <2>1. \A j \in T : n - j \in Nat
    BY <1>0
  <2> QED
    BY <2>1
<1>2. PICK d \in D : \A e \in D : d <= e
  <2> HIDE DEF D
  <2> QED
    BY <1>1, LeastOf
<1>3. PICK i \in T : d = n - i
  BY <1>2
<1>4. ASSUME NEW j \in T PROVE j <= i
  <2>1. n - i <= n - j
    BY <1>2, <1>3
  <2> QED
    BY <1>0, <2>1
<1> QED
  BY <1>4

----------------------------------------------------------------------------
(* KeyRange: the order of keys *)

LEMMA KeyIs ==
    ASSUME NEW k \in Key
    PROVE  /\ Len(k) \in Nat /\ DOMAIN k = 1..Len(k)
           /\ k \in [1..Len(k) -> Byte]
           /\ \A i \in 1..Len(k) : k[i] \in Nat /\ k[i] <= ByteMax
           /\ k = <<>> <=> Len(k) = 0
<1>1. Len(k) \in Nat /\ k \in [1..Len(k) -> Byte] /\ DOMAIN k = 1..Len(k)
  BY LenProperties DEF Key
<1>2. \A i \in 1..Len(k) : k[i] \in Byte
  BY <1>1
<1>3. \A i \in 1..Len(k) : k[i] \in Nat /\ k[i] <= ByteMax
  BY <1>2, BytesAssumption DEF Byte
<1>4. k = <<>> <=> Len(k) = 0
  BY EmptySeq DEF Key
<1> QED
  BY <1>1, <1>3, <1>4

LEMMA ZeroIsKey == Zero \in Key /\ Len(Zero) = 1 /\ Zero[1] = 0 /\ Zero # <<>> /\ <<>> \in Key
BY BytesAssumption DEF Zero, Key, Byte

(* Two keys, neither of which begins with the other, differ somewhere first.  *)
LEMMA FirstDifference ==
    ASSUME NEW a \in Key, NEW b \in Key, ~StartsWith(a, b)
    PROVE  \/ StartsWith(b, a) /\ Len(a) < Len(b)
           \/ \E i \in 1..Len(a) :
                 /\ i <= Len(b) /\ a[i] # b[i]
                 /\ \A j \in 1..(i - 1) : a[j] = b[j]
<1> DEFINE T == {i \in 1..Len(b) : i > Len(a) \/ a[i] # b[i]}
<1>0. Len(a) \in Nat /\ Len(b) \in Nat
  BY KeyIs
<1>1. T \subseteq Nat
  BY <1>0
<1>2. T # {}
  <2>1. CASE Len(b) <= Len(a)
    BY <2>1 DEF StartsWith
  <2>2. CASE Len(a) < Len(b)
    <3>1. Len(b) \in T
      BY <1>0, <2>2
    <3> QED
      BY <3>1
  <2> QED
    BY <1>0, <2>1, <2>2
<1>3. PICK i \in T : \A m \in T : i <= m
  <2> HIDE DEF T
  <2> QED
    BY <1>1, <1>2, LeastOf
<1>4. i \in 1..Len(b) /\ (i > Len(a) \/ a[i] # b[i])
  BY <1>3
<1>5. ASSUME NEW j \in 1..(i - 1) PROVE j <= Len(a) /\ a[j] = b[j]
  <2>1. j \in 1..Len(b) /\ j \notin T
    BY <1>0, <1>3, <1>4
  <2> QED
    BY <1>0, <2>1
<1>6. CASE i > Len(a)
  <2>1. Len(a) < Len(b) /\ \A j \in 1..Len(a) : b[j] = a[j]
    BY <1>0, <1>4, <1>5, <1>6
  <2> QED
    BY <1>0, <2>1 DEF StartsWith
<1>7. CASE ~(i > Len(a))
  BY <1>0, <1>4, <1>5, <1>7
<1> QED
  BY <1>6, <1>7

(* No key is below one it begins with. *)
LEMMA BeginningIsBelow ==
    ASSUME NEW a \in Key, NEW b \in Key, StartsWith(a, b)
    PROVE  AtLeast(a, b)
<1>0. Len(a) \in Nat /\ Len(b) \in Nat /\ \A i \in 1..Len(a) : a[i] \in Nat
  BY KeyIs
<1> QED
  BY <1>0 DEF StartsWith, AtLeast, Less

LEMMA LessIsTransitive ==
    ASSUME NEW a \in Key, NEW b \in Key, NEW c \in Key, Less(a, b), Less(b, c)
    PROVE  Less(a, c)
<1>0. /\ Len(a) \in Nat /\ Len(b) \in Nat /\ Len(c) \in Nat
      /\ \A i \in 1..Len(a) : a[i] \in Nat
      /\ \A i \in 1..Len(b) : b[i] \in Nat
      /\ \A i \in 1..Len(c) : c[i] \in Nat
  BY KeyIs
<1> DEFINE Shorter(x, y) == StartsWith(y, x) /\ Len(x) < Len(y)
<1> DEFINE LowerAt(x, y, i) == /\ i \in 1..Len(x) /\ i <= Len(y) /\ x[i] < y[i]
                               /\ \A j \in 1..(i - 1) : x[j] = y[j]
<1>1. \A x, y : Less(x, y) <=> Shorter(x, y) \/ \E i : LowerAt(x, y, i)
  BY DEF Less
<1>2. CASE Shorter(a, b) /\ Shorter(b, c)
  <2>1. Shorter(a, c)
    BY <1>0, <1>2 DEF StartsWith
  <2> QED
    BY <1>1, <2>1
<1>3. ASSUME Shorter(a, b), NEW i, LowerAt(b, c, i) PROVE Less(a, c)
  <2>1. CASE i <= Len(a)
    <3>1. LowerAt(a, c, i)
      BY <1>0, <1>3, <2>1 DEF StartsWith
    <3> QED
      BY <1>1, <3>1
  <2>2. CASE i > Len(a)
    <3>1. \A j \in 1..Len(a) : c[j] = a[j]
      BY <1>0, <1>3, <2>2 DEF StartsWith
    <3>2. Shorter(a, c)
      BY <1>0, <1>3, <2>2, <3>1 DEF StartsWith
    <3> QED
      BY <1>1, <3>2
  <2> QED
    BY <1>0, <1>3, <2>1, <2>2
<1>4. ASSUME NEW i, LowerAt(a, b, i), Shorter(b, c) PROVE Less(a, c)
  <2>1. LowerAt(a, c, i)
    BY <1>0, <1>4 DEF StartsWith
  <2> QED
    BY <1>1, <2>1
<1>5. ASSUME NEW i, LowerAt(a, b, i), NEW m, LowerAt(b, c, m) PROVE Less(a, c)
  <2>1. CASE m < i
    <3>1. LowerAt(a, c, m)
      BY <1>0, <1>5, <2>1
    <3> QED
      BY <1>1, <3>1
  <2>2. CASE i <= m
    <3>1. a[i] < c[i]
      BY <1>0, <1>5, <2>2
    <3>2. LowerAt(a, c, i)
      BY <1>0, <1>5, <2>2, <3>1
    <3> QED
      BY <1>1, <3>2
  <2> QED
    BY <1>0, <1>5, <2>1, <2>2
<1> HIDE DEF Shorter, LowerAt
<1> QED
  BY <1>1, <1>2, <1>3, <1>4, <1>5

(* Less is the order of a dictionary: of two different keys one is below the  *)
(* other, none is below itself, and what is below is below all above.       *)
THEOREM KeysAreOrdered ==
    ASSUME NEW a \in Key, NEW b \in Key, NEW c \in Key
    PROVE  /\ ~Less(a, a)
           /\ a = b \/ Less(a, b) \/ Less(b, a)
           /\ Less(a, b) /\ Less(b, c) => Less(a, c)
<1>1. ~Less(a, a)
  BY BeginningIsBelow DEF StartsWith, AtLeast
<1>2. ASSUME ~Less(a, b), ~Less(b, a) PROVE a = b
  <2>0. Len(a) \in Nat /\ Len(b) \in Nat
    BY KeyIs
  <2>1. StartsWith(a, b)
    <3> SUFFICES ASSUME ~StartsWith(a, b) PROVE FALSE
      OBVIOUS
    <3>1. ~(StartsWith(b, a) /\ Len(a) < Len(b))
      BY <1>2 DEF Less
    <3>2. PICK i \in 1..Len(a) : /\ i <= Len(b) /\ a[i] # b[i]
                                 /\ \A j \in 1..(i - 1) : a[j] = b[j]
      BY <3>1, FirstDifference
    <3>3. a[i] < b[i] \/ b[i] < a[i]
      <4>1. i \in 1..Len(b)
        BY <2>0, <3>2
      <4>2. a[i] \in Nat /\ b[i] \in Nat
        BY <4>1, KeyIs
      <4> QED
        BY <3>2, <4>2
    <3> QED
      BY <1>2, <2>0, <3>2, <3>3 DEF Less
  <2>2. Len(a) = Len(b)
    BY <1>2, <2>0, <2>1 DEF Less, StartsWith
  <2>3. \A i \in 1..Len(a) : a[i] = b[i]
    BY <2>1, <2>2 DEF StartsWith
  <2> QED
    BY <2>2, <2>3, SeqEqual DEF Key
<1> QED
  BY <1>1, <1>2, LessIsTransitive

(* etcd has no empty key, and every other is at least "\0". *)
LEMMA ZeroIsLeast ==
    ASSUME NEW k \in Key, k # <<>>
    PROVE  AtLeast(k, Zero) /\ AtLeast(k, <<>>) /\ StartsWith(k, <<>>)
<1>0. Len(k) \in Nat /\ Len(k) # 0 /\ \A i \in 1..Len(k) : k[i] \in Nat
  BY KeyIs
<1>1. AtLeast(k, Zero)
  BY <1>0, ZeroIsKey DEF AtLeast, Less, StartsWith
<1>2. AtLeast(k, <<>>) /\ StartsWith(k, <<>>)
  BY <1>0 DEF AtLeast, Less, StartsWith
<1> QED
  BY <1>1, <1>2

----------------------------------------------------------------------------
(* KeyRange: the end of a prefix *)

(* The bytes of get_prefix: nothing but 0xFF, or a last byte below it, which  *)
(* is raised by one and behind which the key is cut.                        *)
Uncarried(p, n) ==
    /\ n \in 1..Len(p) /\ p[n] < ByteMax
    /\ \A j \in 1..Len(p) : j > n => p[j] = ByteMax

LEMMA LastBelowMax ==
    ASSUME NEW p \in Key, NEW n, Uncarried(p, n)
    PROVE  /\ {m \in 1..Len(p) : p[m] < ByteMax} # {}
           /\ (CHOOSE i \in {m \in 1..Len(p) : p[m] < ByteMax} :
                  \A j \in {m \in 1..Len(p) : p[m] < ByteMax} : j <= i) = n
<1> DEFINE below == {m \in 1..Len(p) : p[m] < ByteMax}
<1>0. Len(p) \in Nat /\ ByteMax \in Nat
  BY KeyIs, BytesAssumption
<1>1. n \in below
  BY DEF Uncarried
<1>2. ASSUME NEW j \in below PROVE j <= n
  BY <1>0, <1>2 DEF Uncarried
<1>3. below \subseteq Nat
  BY <1>0
<1>4. ASSUME NEW i \in below, \A j \in below : j <= i PROVE i = n
  BY <1>1, <1>2, <1>3, <1>4
<1> HIDE DEF below
<1>5. (CHOOSE i \in below : \A j \in below : j <= i) = n
  BY <1>1, <1>2, <1>4
<1> QED
  BY <1>1, <1>5 DEF below

LEMMA UncarriedOrMax ==
    ASSUME NEW p \in Key
    PROVE  \/ \A i \in 1..Len(p) : p[i] = ByteMax
           \/ \E n \in 1..Len(p) : Uncarried(p, n)
<1> DEFINE below == {i \in 1..Len(p) : p[i] < ByteMax}
<1>0. /\ Len(p) \in Nat /\ ByteMax \in Nat
      /\ \A i \in 1..Len(p) : p[i] \in Nat /\ p[i] <= ByteMax
  BY KeyIs, BytesAssumption
<1>1. CASE below = {}
  BY <1>0, <1>1
<1>2. CASE below # {}
  <2>1. below \subseteq 1..Len(p)
    OBVIOUS
  <2>2. PICK n \in below : \A j \in below : j <= n
    <3> HIDE DEF below
    <3> QED
      BY <1>0, <1>2, <2>1, GreatestOf
  <2>3. \A j \in 1..Len(p) : j > n => p[j] = ByteMax
    BY <1>0, <2>2
  <2> QED
    BY <2>2, <2>3 DEF Uncarried
<1> QED
  BY <1>1, <1>2

LEMMA PrefixWithoutEnd ==
    ASSUME NEW p \in Key, \A i \in 1..Len(p) : p[i] = ByteMax
    PROVE  GetPrefix(p) = Zero
<1>1. {i \in 1..Len(p) : p[i] < ByteMax} = {}
  BY BytesAssumption
<1> QED
  BY <1>1 DEF GetPrefix

LEMMA PrefixWithEnd ==
    ASSUME NEW p \in Key, NEW n, Uncarried(p, n)
    PROVE  /\ GetPrefix(p) \in Key /\ Len(GetPrefix(p)) = n
           /\ \A i \in 1..(n - 1) : GetPrefix(p)[i] = p[i]
           /\ GetPrefix(p)[n] = p[n] + 1
           /\ GetPrefix(p) \notin {<<>>, Zero}
<1> DEFINE cut == SubSeq(p, 1, n)
<1> DEFINE end == [cut EXCEPT ![n] = @ + 1]
<1>0. /\ Len(p) \in Nat /\ ByteMax \in Nat /\ n \in 1..Len(p)
      /\ p[n] < ByteMax /\ p[n] \in Nat /\ p \in Seq(Byte)
  BY KeyIs, BytesAssumption DEF Uncarried, Key
<1>1. GetPrefix(p) = end
  BY LastBelowMax DEF GetPrefix
<1>2. /\ cut \in Seq(Byte) /\ Len(cut) = n
      /\ \A i \in 1..n : cut[i] = p[i]
  BY <1>0, SubSeqProperties
<1> HIDE DEF cut
<1>3. p[n] + 1 \in Byte /\ cut[n] + 1 = p[n] + 1
  BY <1>0, <1>2 DEF Byte
<1>4. /\ end \in Seq(Byte) /\ Len(end) = n /\ end[n] = p[n] + 1
      /\ \A i \in 1..(n - 1) : end[i] = p[i]
  BY <1>0, <1>2, <1>3, ExceptSeq
<1> HIDE DEF end
<1>5. end # <<>>
  BY <1>0, <1>4
<1>6. ASSUME end = Zero PROVE FALSE
  <2>1. n = 1 /\ end[1] = 0
    BY <1>4, <1>6, ZeroIsKey
  <2> QED
    BY <1>0, <1>4, <2>1
<1> QED
  BY <1>1, <1>4, <1>5, <1>6 DEF Key

LEMMA EndOfPrefix ==
    ASSUME NEW p \in Key
    PROVE  /\ GetPrefix(p) \in Key /\ GetPrefix(p) # <<>>
           /\ p # <<>> => Len(GetPrefix(p)) <= Len(p)
           /\ p = <<>> => GetPrefix(p) = Zero
<1>0. Len(p) \in Nat /\ (p = <<>> <=> Len(p) = 0)
  BY KeyIs
<1>1. CASE \A i \in 1..Len(p) : p[i] = ByteMax
  <2>1. GetPrefix(p) = Zero
    BY <1>1, PrefixWithoutEnd
  <2> QED
    BY <1>0, <2>1, ZeroIsKey
<1>2. CASE \E n \in 1..Len(p) : Uncarried(p, n)
  <2>1. PICK n \in 1..Len(p) : Uncarried(p, n)
    BY <1>2
  <2>2. GetPrefix(p) \in Key /\ Len(GetPrefix(p)) = n /\ GetPrefix(p) \notin {<<>>, Zero}
    BY <2>1, PrefixWithEnd
  <2> QED
    BY <1>0, <2>1, <2>2
<1> QED
  BY <1>1, <1>2, UncarriedOrMax

(* A key with the prefix is at least the prefix and below the prefix's end.   *)
LEMMA WithinPrefix ==
    ASSUME NEW p \in Key, NEW k \in Key, StartsWith(k, p)
    PROVE  AtLeast(k, p) /\ (GetPrefix(p) = Zero \/ Less(k, GetPrefix(p)))
<1>0. /\ Len(p) \in Nat /\ Len(k) \in Nat
      /\ \A i \in 1..Len(p) : p[i] \in Nat
  BY KeyIs
<1>1. AtLeast(k, p)
  BY BeginningIsBelow
<1>2. CASE \A i \in 1..Len(p) : p[i] = ByteMax
  BY <1>1, <1>2, PrefixWithoutEnd
<1>3. CASE \E n \in 1..Len(p) : Uncarried(p, n)
  <2>1. PICK n \in 1..Len(p) : Uncarried(p, n)
    BY <1>3
  <2> DEFINE end == GetPrefix(p)
  <2>2. /\ Len(end) = n /\ end[n] = p[n] + 1
        /\ \A i \in 1..(n - 1) : end[i] = p[i]
    BY <2>1, PrefixWithEnd
  <2> HIDE DEF end
  <2>3. /\ n \in 1..Len(k) /\ k[n] = p[n] /\ p[n] \in Nat
        /\ \A i \in 1..(n - 1) : k[i] = p[i]
    BY <1>0 DEF StartsWith
  <2>4. k[n] < end[n] /\ \A i \in 1..(n - 1) : k[i] = end[i]
    BY <2>2, <2>3
  <2>5. Less(k, end)
    BY <2>2, <2>3, <2>4 DEF Less
  <2> QED
    BY <1>1, <2>5 DEF end
<1> QED
  BY <1>2, <1>3, UncarriedOrMax

(* Where a key leaves a prefix that is not above it, it is above the prefix.  *)
LEMMA LeavesAbove ==
    ASSUME NEW p \in Key, NEW k \in Key, ~StartsWith(k, p), AtLeast(k, p)
    PROVE  \E i \in 1..Len(k) :
              /\ i <= Len(p) /\ p[i] < k[i] /\ k[i] <= ByteMax
              /\ \A j \in 1..(i - 1) : k[j] = p[j]
<1>0. /\ Len(p) \in Nat /\ Len(k) \in Nat
      /\ \A i \in 1..Len(p) : p[i] \in Nat
      /\ \A i \in 1..Len(k) : k[i] \in Nat /\ k[i] <= ByteMax
  BY KeyIs
<1>1. ~(StartsWith(p, k) /\ Len(k) < Len(p))
  BY DEF AtLeast, Less
<1>2. PICK i \in 1..Len(k) :
        /\ i <= Len(p) /\ k[i] # p[i]
        /\ \A j \in 1..(i - 1) : k[j] = p[j]
  BY <1>1, FirstDifference
<1>3. ~(k[i] < p[i])
  BY <1>2 DEF AtLeast, Less
<1> QED
  BY <1>0, <1>2, <1>3

(* No other key is within these bounds. *)
LEMMA OnlyWithinPrefix ==
    ASSUME NEW p \in Key, NEW k \in Key,
           AtLeast(k, p), GetPrefix(p) = Zero \/ Less(k, GetPrefix(p))
    PROVE  StartsWith(k, p)
<1> SUFFICES ASSUME ~StartsWith(k, p) PROVE FALSE
  OBVIOUS
<1>0. /\ Len(p) \in Nat /\ Len(k) \in Nat /\ ByteMax \in Nat
      /\ \A m \in 1..Len(p) : p[m] \in Nat
      /\ \A m \in 1..Len(k) : k[m] \in Nat
  BY KeyIs, BytesAssumption
<1>1. PICK i \in 1..Len(k) :
        /\ i <= Len(p) /\ p[i] < k[i] /\ k[i] <= ByteMax
        /\ \A j \in 1..(i - 1) : k[j] = p[j]
  BY LeavesAbove
<1>2. i \in 1..Len(p) /\ p[i] < ByteMax
  BY <1>0, <1>1
<1>3. PICK n \in 1..Len(p) : Uncarried(p, n)
  BY <1>0, <1>2, UncarriedOrMax
<1>4. i <= n
  BY <1>0, <1>2, <1>3 DEF Uncarried
<1> DEFINE end == GetPrefix(p)
<1>5. /\ Len(end) = n /\ end[n] = p[n] + 1 /\ end # Zero
      /\ \A j \in 1..(n - 1) : end[j] = p[j]
  BY <1>3, PrefixWithEnd
<1>6. Less(k, end)
  BY <1>5
<1> HIDE DEF end
<1>7. CASE StartsWith(end, k) /\ Len(k) < Len(end)
  <2>1. i \in 1..(n - 1) /\ end[i] = k[i]
    BY <1>0, <1>1, <1>5, <1>7 DEF StartsWith
  <2> QED
    BY <1>0, <1>1, <1>2, <1>5, <2>1
<1>8. CASE \E m \in 1..Len(k) : /\ m <= Len(end) /\ k[m] < end[m]
                                /\ \A j \in 1..(m - 1) : k[j] = end[j]
  <2>1. PICK m \in 1..Len(k) : /\ m <= Len(end) /\ k[m] < end[m]
                               /\ \A j \in 1..(m - 1) : k[j] = end[j]
    BY <1>8
  <2>2. m \in 1..n /\ m \in 1..Len(p)
    BY <1>0, <1>5, <2>1
  <2>3. CASE m < i
    <3>1. k[m] = p[m] /\ end[m] = p[m]
      BY <1>0, <1>1, <1>4, <1>5, <2>2, <2>3
    <3> QED
      BY <1>0, <2>1, <2>2, <3>1
  <2>4. CASE m = i
    <3>1. end[m] = p[i] \/ end[m] = p[i] + 1
      BY <1>0, <1>5, <2>2, <2>4
    <3> QED
      BY <1>0, <1>1, <1>2, <2>1, <2>4, <3>1
  <2>5. CASE i < m
    <3>1. k[i] = end[i] /\ end[i] = p[i]
      BY <1>0, <1>1, <1>5, <2>1, <2>2, <2>5
    <3> QED
      BY <1>0, <1>1, <1>2, <3>1
  <2> QED
    BY <1>0, <2>2, <2>3, <2>4, <2>5
<1> QED
  BY <1>6, <1>7, <1>8 DEF Less

(* get_prefix: between a prefix and its end are the keys with the prefix, and *)
(* no others.                                                               *)
THEOREM PrefixIsARange ==
    ASSUME NEW p \in Key, NEW k \in Key
    PROVE  StartsWith(k, p)
             <=> AtLeast(k, p) /\ (GetPrefix(p) = Zero \/ Less(k, GetPrefix(p)))
BY WithinPrefix, OnlyWithinPrefix

----------------------------------------------------------------------------
(* Permissions: what a selector's request selects *)

Selector ==
    [by : {"one", "from_key", "prefix", "all_keys"}] \cup [by : {"range"}, end : Key]

LEMMA SelectorIs ==
    ASSUME NEW by \in Selector
    PROVE  /\ by.by \in {"one", "range", "from_key", "prefix", "all_keys"}
           /\ by.by = "range" => by.end \in Key
BY DEF Selector

(* The request of each selector; First(p) is the key of a range from p on. *)
First(p) == IF p = <<>> THEN Zero ELSE p

LEMMA RequestOf ==
    ASSUME NEW p, NEW by
    PROVE  /\ by.by = "one" => RevokeRequest(p, by) = Request(p, <<>>)
           /\ by.by = "range" => RevokeRequest(p, by) = Request(p, by.end)
           /\ by.by = "from_key" => RevokeRequest(p, by) = Request(First(p), Zero)
           /\ by.by = "prefix" =>
                 RevokeRequest(p, by) =
                    Request(First(p), IF p = <<>> THEN Zero ELSE GetPrefix(p))
           /\ by.by = "all_keys" => RevokeRequest(p, by) = Request(Zero, Zero)
<1> USE DEF RevokeRequest, WithKey, NewRange, Build, Request, Select, First
<1>1. by.by = "one" => RevokeRequest(p, by) = Request(p, <<>>)
  OBVIOUS
<1>2. by.by = "range" => RevokeRequest(p, by) = Request(p, by.end)
  BY DEF WithRange
<1>3. by.by = "from_key" => RevokeRequest(p, by) = Request(First(p), Zero)
  BY DEF WithFromKey
<1>4. by.by = "prefix" =>
         RevokeRequest(p, by) = Request(First(p), IF p = <<>> THEN Zero ELSE GetPrefix(p))
  BY DEF WithPrefix
<1>5. by.by = "all_keys" => RevokeRequest(p, by) = Request(Zero, Zero)
  BY DEF WithAllKeys
<1> QED
  BY <1>1, <1>2, <1>3, <1>4, <1>5

(* The request of a selector selects what the selector's documentation says. *)
LEMMA RequestMatches ==
    ASSUME NEW p \in Key, NEW by \in Selector, NEW k \in Key, k # <<>>
    PROVE  InRequest(k, RevokeRequest(p, by)) <=> Asked(k, p, by)
<1>0. /\ \A a, e : Request(a, e).key = a /\ Request(a, e).range_end = e
      /\ Zero # <<>> /\ GetPrefix(p) # <<>> /\ <<>> \in Key
  BY ZeroIsKey, EndOfPrefix DEF Request
<1>1. AtLeast(k, Zero) /\ AtLeast(k, <<>>) /\ StartsWith(k, <<>>)
  BY ZeroIsLeast
<1>2. CASE by.by = "one"
  BY <1>0, <1>2, RequestOf DEF InRequest, Asked
<1>3. CASE by.by = "range"
  BY <1>0, <1>3, RequestOf DEF InRequest, Asked
<1>4. CASE by.by = "from_key"
  <2>1. AtLeast(k, First(p)) <=> AtLeast(k, p)
    BY <1>1 DEF First
  <2> QED
    BY <1>0, <1>4, <2>1, RequestOf DEF InRequest, Asked
<1>5. CASE by.by = "prefix" /\ p # <<>>
  <2>1. RevokeRequest(p, by) = Request(p, GetPrefix(p))
    BY <1>5, RequestOf DEF First
  <2>2. InRequest(k, Request(p, GetPrefix(p)))
          <=> AtLeast(k, p) /\ (GetPrefix(p) = Zero \/ Less(k, GetPrefix(p)))
    BY <1>0 DEF InRequest
  <2>3. Asked(k, p, by) <=> StartsWith(k, p)
    BY <1>5 DEF Asked
  <2> QED
    BY <2>1, <2>2, <2>3, PrefixIsARange
<1>6. CASE by.by = "prefix" /\ p = <<>>
  <2>1. RevokeRequest(p, by) = Request(Zero, Zero)
    BY <1>6, RequestOf DEF First
  <2> QED
    BY <1>0, <1>1, <1>6, <2>1 DEF InRequest, Asked
<1>7. CASE by.by = "all_keys"
  BY <1>0, <1>1, <1>7, RequestOf DEF InRequest, Asked
<1> QED
  BY <1>2, <1>3, <1>4, <1>5, <1>6, <1>7, SelectorIs

----------------------------------------------------------------------------
(* Builders: the invariants *)

Ranges == [key : SomeKeys, range_end : Ends,
           with_prefix : BOOLEAN, with_from_key : BOOLEAN, with_all_keys : BOOLEAN]

PermissionStructs ==
    [key : SomeKeys, range_end : Ends, with_prefix : BOOLEAN, with_from_key : BOOLEAN]

Requests == [key : SomeKeys, range_end : Ends]

SomeLists == Lists \cup {{}}

Transactions ==
    [req : [compare : SomeLists, success : SomeLists, failure : SomeLists],
     c_when : BOOLEAN, c_then : BOOLEAN, c_else : BOOLEAN]

(* The selectors whose ends are among the keys. *)
SelectorsWithin ==
    [by : {"one", "from_key", "prefix", "all_keys"}] \cup [by : {"range"}, end : Ends]

(* The struct shows the selector called last: its flag, or its range end.    *)
OptionsInv ==
    kind = "options" =>
        /\ value \in Ranges /\ value.key = key /\ asked \in SelectorsWithin
        /\ value.with_prefix <=> asked.by = "prefix"
        /\ value.with_from_key <=> asked.by = "from_key"
        /\ value.with_all_keys <=> asked.by = "all_keys"
        /\ asked.by = "one" => value.range_end = <<>>
        /\ asked.by = "range" => value.range_end = asked.end

(* A permission that was read back may have the flag of another selector, but *)
(* the same request.  It keeps its key until it is asked for all keys.         *)
PermissionInv ==
    kind = "permission" =>
        /\ value \in PermissionStructs /\ asked \in SelectorsWithin
        /\ ~(value.with_prefix /\ value.with_from_key)
        /\ ~cleared => value.key = key /\ key # <<>> /\ asked.by # "all_keys"
        /\ HasItsKey => ToWire(value) = RevokeRequest(key, asked)

CompareInv ==
    kind = "compare" =>
        /\ value \in Requests /\ value.key = key /\ key # <<>> /\ asked \in SelectorsWithin
        /\ value = RevokeRequest(key, asked)

Flagged(slot) ==
    CASE slot = "compare" -> value.c_when
      [] slot = "success" -> value.c_then
      [] slot = "failure" -> value.c_else

(* A list that was given has raised its flag, and is in the request. *)
Given(n) == Flagged(asked[n].slot) /\ value.req[asked[n].slot] = asked[n].list

TxnInv ==
    /\ kind \in {"txn", "panicked"} => value \in Transactions
    /\ kind = "txn" =>
        /\ asked \in Seq([slot : {"compare", "success", "failure"}, list : Lists])
        /\ \A n \in 1..Len(asked) : Given(n)

BuilderInv ==
    /\ kind \in {"options", "permission", "compare", "txn", "panicked"}
    /\ key \in SomeKeys /\ cleared \in BOOLEAN /\ (cleared => kind = "permission")
    /\ OptionsInv /\ PermissionInv /\ CompareInv /\ TxnInv

----------------------------------------------------------------------------
(* Builders: what the methods make of the structs *)

LEMMA KeysAre ==
    /\ \A p : p \in Keys <=> p \in Key /\ Len(p) \in 1..MaxLen
    /\ \A p \in Keys : p # <<>>
    /\ \A p \in SomeKeys : p = <<>> \/ p \in Keys
    /\ Keys \subseteq SomeKeys /\ SomeKeys = Ends /\ Ends \subseteq Key
    /\ Zero \in Keys /\ <<>> \in Ends /\ <<>> \in SomeKeys
<1>1. ASSUME NEW p \in Keys PROVE p \in Key /\ Len(p) \in 1..MaxLen
  <2>1. PICK n \in 1..MaxLen : p \in [1..n -> Byte]
    BY DEF Keys
  <2>2. p \in Seq(Byte) /\ Len(p) = n
    BY <2>1
  <2> QED
    BY <2>2 DEF Key
<1>2. ASSUME NEW p \in Key, Len(p) \in 1..MaxLen PROVE p \in Keys
  <2>1. p \in [1..Len(p) -> Byte]
    BY KeyIs
  <2> QED
    BY <1>2, <2>1 DEF Keys
<1>3. ASSUME NEW p \in Keys PROVE p # <<>>
  BY <1>1, KeyIs
<1>4. Zero \in Keys
  <2>1. Len(Zero) \in 1..MaxLen
    BY ZeroIsKey, BytesAssumption
  <2> QED
    BY <1>2, <2>1, ZeroIsKey
<1> QED
  BY <1>1, <1>2, <1>3, <1>4, ZeroIsKey DEF SomeKeys, Ends

LEMMA EndWithinKeys ==
    ASSUME NEW p \in SomeKeys
    PROVE  GetPrefix(p) \in Ends /\ GetPrefix(p) # <<>>
<1>1. CASE p = <<>>
  BY <1>1, EndOfPrefix, KeysAre
<1>2. CASE p \in Keys
  <2>1. /\ p \in Key /\ Len(p) \in 1..MaxLen /\ p # <<>>
    BY <1>2, KeysAre
  <2>2. GetPrefix(p) \in Key /\ GetPrefix(p) # <<>> /\ Len(GetPrefix(p)) <= Len(p)
    BY <2>1, EndOfPrefix
  <2>3. Len(GetPrefix(p)) \in 1..MaxLen
    BY <2>1, <2>2, KeyIs, BytesAssumption
  <2> QED
    BY <2>2, <2>3, KeysAre
<1> QED
  BY <1>1, <1>2, KeysAre

LEMMA RequestWithinKeys ==
    ASSUME NEW p \in SomeKeys, NEW by \in SelectorsWithin
    PROVE  RevokeRequest(p, by) \in Requests
<1>1. /\ by.by \in {"one", "range", "from_key", "prefix", "all_keys"}
      /\ by.by = "range" => by.end \in Ends
  BY DEF SelectorsWithin
<1>2. First(p) \in SomeKeys /\ GetPrefix(p) \in Ends /\ Zero \in Ends /\ <<>> \in Ends
  BY KeysAre, EndWithinKeys DEF First
<1>3. Zero \in SomeKeys
  BY KeysAre
<1>4. \A a \in SomeKeys, e \in Ends : Request(a, e) \in Requests
  BY DEF Request, Requests
<1>5. (IF p = <<>> THEN Zero ELSE GetPrefix(p)) \in Ends
  BY <1>2
<1> QED
  BY <1>1, <1>2, <1>3, <1>4, <1>5, RequestOf

LEMMA WireOf ==
    ASSUME NEW perm \in PermissionStructs
    PROVE  /\ perm.with_prefix =>
                 ToWire(perm) = Request(First(perm.key),
                                        IF perm.key = <<>> THEN Zero ELSE GetPrefix(perm.key))
           /\ ~perm.with_prefix /\ perm.with_from_key =>
                 ToWire(perm) = Request(First(perm.key), Zero)
           /\ ~perm.with_prefix /\ ~perm.with_from_key =>
                 ToWire(perm) = Request(perm.key, perm.range_end)
BY DEF ToWire, PermissionStructs, WithRange, WithKey, WithPrefix, WithFromKey, Select, NewRange,
   Build, Request, First

LEMMA WireWithinKeys ==
    ASSUME NEW perm \in PermissionStructs
    PROVE  ToWire(perm) \in Requests
<1>1. /\ perm.key \in SomeKeys /\ perm.range_end \in Ends
      /\ perm.with_prefix \in BOOLEAN /\ perm.with_from_key \in BOOLEAN
  BY DEF PermissionStructs
<1>2. First(perm.key) \in SomeKeys /\ GetPrefix(perm.key) \in Ends /\ Zero \in Ends
  BY <1>1, KeysAre, EndWithinKeys DEF First
<1>3. \A a \in SomeKeys, e \in Ends : Request(a, e) \in Requests
  BY DEF Request, Requests
<1>4. (IF perm.key = <<>> THEN Zero ELSE GetPrefix(perm.key)) \in Ends
  BY <1>2
<1> QED
  BY <1>1, <1>2, <1>3, <1>4, WireOf

(* Each selector of a permission, and what the server is sent after it.      *)
LEMMA PermissionSelectors ==
    ASSUME NEW perm \in PermissionStructs, NEW new, NEW by \in SelectorsWithin,
           \/ by.by = "range" /\ new = PermissionRangeEnd(perm, by.end)
           \/ by.by = "prefix" /\ new = PermissionPrefix(perm)
           \/ by.by = "from_key" /\ new = PermissionFromKey(perm)
           \/ by.by = "all_keys" /\ new = PermissionAllKeys(perm)
    PROVE  /\ new \in PermissionStructs /\ ~(new.with_prefix /\ new.with_from_key)
           /\ ToWire(new) = RevokeRequest(new.key, by)
           /\ by.by # "all_keys" => new.key = perm.key
<1>0. by.by = "range" => by.end \in Ends
  BY DEF SelectorsWithin
<1>1. CASE by.by = "range" /\ new = PermissionRangeEnd(perm, by.end)
  <2>1. /\ new \in PermissionStructs /\ ~new.with_prefix /\ ~new.with_from_key
        /\ new.range_end = by.end /\ new.key = perm.key
    BY <1>0, <1>1 DEF PermissionRangeEnd, PermissionStructs
  <2> QED
    BY <1>1, <2>1, WireOf, RequestOf
<1>2. CASE by.by = "prefix" /\ new = PermissionPrefix(perm)
  <2>1. /\ new \in PermissionStructs /\ new.with_prefix /\ ~new.with_from_key
        /\ new.key = perm.key
    BY <1>2 DEF PermissionPrefix, PermissionStructs
  <2> QED
    BY <1>2, <2>1, WireOf, RequestOf
<1>3. CASE by.by = "from_key" /\ new = PermissionFromKey(perm)
  <2>1. /\ new \in PermissionStructs /\ ~new.with_prefix /\ new.with_from_key
        /\ new.key = perm.key
    BY <1>3 DEF PermissionFromKey, PermissionStructs
  <2> QED
    BY <1>3, <2>1, WireOf, RequestOf
<1>4. CASE by.by = "all_keys" /\ new = PermissionAllKeys(perm)
  <2>1. /\ new \in PermissionStructs /\ ~new.with_prefix /\ new.with_from_key
        /\ new.key = <<>>
    BY <1>4, KeysAre DEF PermissionAllKeys, PermissionFromKey, PermissionStructs
  <2> QED
    BY <1>4, <2>1, WireOf, RequestOf DEF First
<1> QED
  BY <1>1, <1>2, <1>3, <1>4

(* Reading a permission back keeps its request. *)
LEMMA ReadingBack ==
    ASSUME NEW wire \in Requests, wire.key # <<>>
    PROVE  LET perm == FromWire(wire)
           IN  /\ perm \in PermissionStructs /\ ~(perm.with_prefix /\ perm.with_from_key)
               /\ ToWire(perm) = wire /\ perm.key = wire.key
<1> DEFINE perm == FromWire(wire)
<1>1. /\ perm \in PermissionStructs
      /\ perm.key = wire.key /\ perm.range_end = wire.range_end
      /\ perm.with_from_key <=> wire.range_end = Zero
      /\ perm.with_prefix <=> /\ wire.range_end \notin {<<>>, Zero}
                              /\ wire.range_end = GetPrefix(wire.key)
  BY DEF FromWire, Requests, PermissionStructs
<1>2. wire = Request(wire.key, wire.range_end) /\ First(wire.key) = wire.key
  BY DEF Requests, Request, First
<1> HIDE DEF perm
<1>3. ~(perm.with_prefix /\ perm.with_from_key)
  BY <1>1
<1>4. ToWire(perm) = wire
  BY <1>1, <1>2, WireOf
<1> QED
  BY <1>1, <1>3, <1>4 DEF perm

LEMMA BuildOf ==
    ASSUME NEW kr \in Ranges, NEW by \in SelectorsWithin,
           kr.with_prefix <=> by.by = "prefix",
           kr.with_from_key <=> by.by = "from_key",
           kr.with_all_keys <=> by.by = "all_keys",
           by.by = "one" => kr.range_end = <<>>,
           by.by = "range" => kr.range_end = by.end
    PROVE  Build(kr) = RevokeRequest(kr.key, by)
<1>1. by.by \in {"one", "range", "from_key", "prefix", "all_keys"}
  BY DEF SelectorsWithin
<1>2. /\ by.by = "prefix" =>
            Build(kr) = Request(First(kr.key), IF kr.key = <<>> THEN Zero ELSE GetPrefix(kr.key))
      /\ by.by = "from_key" => Build(kr) = Request(First(kr.key), Zero)
      /\ by.by = "all_keys" => Build(kr) = Request(Zero, Zero)
      /\ by.by \in {"one", "range"} => Build(kr) = Request(kr.key, kr.range_end)
  BY DEF Build, First
<1> QED
  BY <1>1, <1>2, RequestOf

(* Each selector of the options: its flag, and no other. *)
LEMMA OptionsSelectors ==
    ASSUME NEW kr \in Ranges, NEW new, NEW by \in SelectorsWithin,
           \/ by.by = "range" /\ new = WithRange(kr, by.end)
           \/ by.by = "prefix" /\ new = WithPrefix(kr)
           \/ by.by = "from_key" /\ new = WithFromKey(kr)
           \/ by.by = "all_keys" /\ new = WithAllKeys(kr)
    PROVE  /\ new \in Ranges
           /\ new.with_prefix <=> by.by = "prefix"
           /\ new.with_from_key <=> by.by = "from_key"
           /\ new.with_all_keys <=> by.by = "all_keys"
           /\ by.by # "one" /\ (by.by = "range" => new.range_end = by.end)
           /\ new.key = kr.key
<1>0. by.by = "range" => by.end \in Ends
  BY DEF SelectorsWithin
<1> QED
  BY <1>0 DEF WithRange, WithPrefix, WithFromKey, WithAllKeys, Select, Ranges

LEMMA CompareSelectors ==
    ASSUME NEW cmp \in Requests, cmp.key # <<>>, NEW new, NEW by \in SelectorsWithin,
           \/ by.by = "range" /\ new = CompareRange(cmp, by.end)
           \/ by.by = "prefix" /\ new = ComparePrefix(cmp)
    PROVE  /\ new \in Requests /\ new.key = cmp.key
           /\ new = RevokeRequest(new.key, by)
<1>0. /\ by.by = "range" => by.end \in Ends
      /\ GetPrefix(cmp.key) \in Ends
  BY EndWithinKeys DEF SelectorsWithin, Requests
<1>1. CASE by.by = "range" /\ new = CompareRange(cmp, by.end)
  <2>1. new = Request(cmp.key, by.end) /\ new \in Requests /\ new.key = cmp.key
    BY <1>0, <1>1 DEF CompareRange, Requests, Request
  <2> QED
    BY <1>1, <2>1, RequestOf
<1>2. CASE by.by = "prefix" /\ new = ComparePrefix(cmp)
  <2>1. new = Request(cmp.key, GetPrefix(cmp.key)) /\ new \in Requests /\ new.key = cmp.key
    BY <1>0, <1>2 DEF ComparePrefix, Requests, Request
  <2> QED
    BY <1>2, <2>1, RequestOf DEF First
<1> QED
  BY <1>1, <1>2

(* A new struct asks for one key. *)
LEMMA NewStructs ==
    /\ NewRange \in Ranges /\ NewRange.key = <<>> /\ NewRange.range_end = <<>>
    /\ ~NewRange.with_prefix /\ ~NewRange.with_from_key /\ ~NewRange.with_all_keys
    /\ One \in SelectorsWithin /\ One.by = "one"
    /\ \A p \in Keys : /\ NewPermission(p) \in PermissionStructs
                       /\ ToWire(NewPermission(p)) = RevokeRequest(p, One)
                       /\ ~NewPermission(p).with_prefix /\ NewPermission(p).key = p
    /\ \A p \in Keys : /\ NewCompare(p) \in Requests /\ NewCompare(p).key = p
                       /\ NewCompare(p) = RevokeRequest(p, One)
    /\ NewTxn \in Transactions
<1>0. <<>> \in SomeKeys /\ <<>> \in Ends /\ Keys \subseteq SomeKeys
  BY KeysAre
<1>1. /\ NewRange \in Ranges /\ NewRange.key = <<>> /\ NewRange.range_end = <<>>
      /\ ~NewRange.with_prefix /\ ~NewRange.with_from_key /\ ~NewRange.with_all_keys
  BY <1>0 DEF NewRange, Ranges
<1>2. One \in SelectorsWithin /\ One.by = "one"
  BY DEF One, SelectorsWithin
<1>3. ASSUME NEW p \in Keys
      PROVE  /\ NewPermission(p) \in PermissionStructs
             /\ ToWire(NewPermission(p)) = RevokeRequest(p, One)
             /\ ~NewPermission(p).with_prefix /\ NewPermission(p).key = p
  <2>1. /\ NewPermission(p) \in PermissionStructs
        /\ NewPermission(p).key = p /\ NewPermission(p).range_end = <<>>
        /\ ~NewPermission(p).with_prefix /\ ~NewPermission(p).with_from_key
    BY <1>0 DEF NewPermission, PermissionStructs
  <2> QED
    BY <1>2, <2>1, WireOf, RequestOf
<1>4. ASSUME NEW p \in Keys
      PROVE  /\ NewCompare(p) \in Requests /\ NewCompare(p).key = p
             /\ NewCompare(p) = RevokeRequest(p, One)
  BY <1>0, <1>2, RequestOf DEF NewCompare, Request, Requests
<1>5. NewTxn \in Transactions
  BY DEF NewTxn, NoLists, Transactions, SomeLists
<1> QED
  BY <1>1, <1>2, <1>3, <1>4, <1>5

----------------------------------------------------------------------------
(* Builders: every step keeps the invariant *)

LEMMA BuilderInvInit == BuilderInit => BuilderInv
<1> SUFFICES ASSUME BuilderInit PROVE BuilderInv
  OBVIOUS
<1> cleared = FALSE
  BY DEF BuilderInit
<1>0. <<>> \in SomeKeys /\ Keys \subseteq SomeKeys /\ \A p \in Keys : p # <<>>
  BY KeysAre
<1>1. CASE kind = "options" /\ value = NewRange /\ asked = One /\ key = <<>>
  BY <1>0, <1>1, NewStructs
     DEF BuilderInv, HasItsKey, OptionsInv, PermissionInv, CompareInv, TxnInv
<1>2. CASE key \in Keys /\ asked = One /\ kind = "permission" /\ value = NewPermission(key)
  BY <1>0, <1>2, NewStructs
     DEF BuilderInv, HasItsKey, OptionsInv, PermissionInv, CompareInv, TxnInv
<1>3. CASE key \in Keys /\ asked = One /\ kind = "compare" /\ value = NewCompare(key)
  BY <1>0, <1>3, NewStructs
     DEF BuilderInv, HasItsKey, OptionsInv, PermissionInv, CompareInv, TxnInv
<1>4. CASE kind = "txn" /\ value = NewTxn /\ asked = <<>> /\ key = <<>>
  <2>1. asked \in Seq([slot : {"compare", "success", "failure"}, list : Lists])
    BY <1>4
  <2>2. Len(asked) = 0
    BY <1>4
  <2>3. TxnInv
    BY <1>4, <2>1, <2>2, NewStructs DEF TxnInv
  <2>4. OptionsInv /\ PermissionInv /\ CompareInv
    BY <1>4 DEF OptionsInv, PermissionInv, CompareInv
  <2> QED
    BY <1>0, <1>4, <2>3, <2>4 DEF BuilderInv
<1> QED
  BY <1>1, <1>2, <1>3, <1>4 DEF BuilderInit

LEMMA OptionsStep ==
    ASSUME BuilderInv, kind = "options", NEW new, NEW by \in SelectorsWithin, Asks(new, by),
           \/ by.by = "range" /\ new = WithRange(value, by.end)
           \/ by.by = "prefix" /\ new = WithPrefix(value)
           \/ by.by = "from_key" /\ new = WithFromKey(value)
           \/ by.by = "all_keys" /\ new = WithAllKeys(value)
    PROVE  BuilderInv'
<1>1. value \in Ranges
  BY DEF BuilderInv, OptionsInv
<1>2. PICK old \in Ranges : old = value
  BY <1>1
<1>3. /\ new \in Ranges
      /\ new.with_prefix <=> by.by = "prefix"
      /\ new.with_from_key <=> by.by = "from_key"
      /\ new.with_all_keys <=> by.by = "all_keys"
      /\ by.by # "one" /\ (by.by = "range" => new.range_end = by.end)
      /\ new.key = key
  BY <1>2, OptionsSelectors DEF BuilderInv, OptionsInv
<1>4. /\ kind' = "options" /\ value' = new /\ asked' = by /\ key' = key
      /\ cleared' = FALSE /\ key \in SomeKeys
  BY DEF Asks, BuilderInv
<1>5. OptionsInv'
  BY <1>3, <1>4 DEF OptionsInv
<1> QED
  BY <1>4, <1>5 DEF BuilderInv, PermissionInv, CompareInv, TxnInv

LEMMA PermissionStep ==
    ASSUME BuilderInv, kind = "permission", NEW new, NEW by \in SelectorsWithin, Asks(new, by),
           \/ by.by = "range" /\ new = PermissionRangeEnd(value, by.end)
           \/ by.by = "prefix" /\ new = PermissionPrefix(value)
           \/ by.by = "from_key" /\ new = PermissionFromKey(value)
           \/ by.by = "all_keys" /\ new = PermissionAllKeys(value)
    PROVE  BuilderInv'
<1>1. value \in PermissionStructs
  BY DEF BuilderInv, PermissionInv
<1>2. PICK old \in PermissionStructs : old = value
  BY <1>1
<1>3. /\ new \in PermissionStructs /\ ~(new.with_prefix /\ new.with_from_key)
      /\ ToWire(new) = RevokeRequest(new.key, by)
      /\ by.by # "all_keys" => new.key = value.key
  BY <1>2, PermissionSelectors
<1>4. /\ kind' = "permission" /\ value' = new /\ asked' = by /\ key' = key
      /\ key \in SomeKeys /\ cleared \in BOOLEAN /\ cleared' \in BOOLEAN
      /\ cleared' <=> cleared \/ by.by = "all_keys"
  BY DEF Asks, BuilderInv
<1>5. ~cleared => value.key = key /\ key # <<>>
  BY DEF BuilderInv, PermissionInv
<1>6. ~cleared' => new.key = key /\ key # <<>> /\ by.by # "all_keys"
  BY <1>3, <1>4, <1>5
<1>7. ASSUME HasItsKey' PROVE ToWire(new) = RevokeRequest(key, by)
  <2>1. CASE by.by = "all_keys"
    BY <1>3, <2>1, RequestOf
  <2>2. CASE by.by # "all_keys"
    BY <1>3, <1>4, <1>5, <1>7, <2>2 DEF HasItsKey
  <2> QED
    BY <2>1, <2>2
<1>8. PermissionInv'
  BY <1>3, <1>4, <1>6, <1>7 DEF PermissionInv
<1> QED
  BY <1>4, <1>8 DEF BuilderInv, OptionsInv, CompareInv, TxnInv

LEMMA CompareStep ==
    ASSUME BuilderInv, kind = "compare", NEW new, NEW by \in SelectorsWithin, Asks(new, by),
           \/ by.by = "range" /\ new = CompareRange(value, by.end)
           \/ by.by = "prefix" /\ new = ComparePrefix(value)
    PROVE  BuilderInv'
<1>1. value \in Requests /\ value.key # <<>>
  BY DEF BuilderInv, CompareInv
<1>2. PICK old \in Requests : old = value
  BY <1>1
<1>3. /\ new \in Requests /\ new.key # <<>> /\ new.key = key
      /\ new = RevokeRequest(new.key, by)
  BY <1>1, <1>2, CompareSelectors DEF BuilderInv, CompareInv
<1>4. /\ kind' = "compare" /\ value' = new /\ asked' = by /\ key' = key
      /\ cleared' = FALSE /\ key \in SomeKeys
  BY DEF Asks, BuilderInv
<1>5. CompareInv'
  BY <1>3, <1>4 DEF CompareInv
<1> QED
  BY <1>4, <1>5 DEF BuilderInv, OptionsInv, PermissionInv, TxnInv

LEMMA CallStep ==
    ASSUME BuilderInv, NEW k \in SomeKeys, Call(k)
    PROVE  BuilderInv'
<1>1. /\ kind = "options" /\ kind' = "options" /\ asked' = asked /\ key' = k
      /\ cleared' = cleared /\ value \in Ranges /\ value' = WithKey(value, k)
  BY DEF Call, BuilderInv, OptionsInv
<1>2. /\ value' \in Ranges /\ value'.key = k /\ value'.range_end = value.range_end
      /\ value'.with_prefix = value.with_prefix
      /\ value'.with_from_key = value.with_from_key
      /\ value'.with_all_keys = value.with_all_keys
  BY <1>1 DEF WithKey, Ranges
<1>3. OptionsInv'
  BY <1>1, <1>2 DEF BuilderInv, OptionsInv
<1> QED
  BY <1>1, <1>3 DEF BuilderInv, PermissionInv, CompareInv, TxnInv

LEMMA ReadBackStep ==
    ASSUME BuilderInv, ReadBack
    PROVE  BuilderInv'
<1>1. /\ kind = "permission" /\ UNCHANGED <<kind, asked, key, cleared>>
      /\ HasItsKey => ToWire(value) = RevokeRequest(key, asked)
      /\ ~cleared => value.key = key /\ key # <<>> /\ asked.by # "all_keys"
      /\ value \in PermissionStructs
      /\ key \in SomeKeys /\ asked \in SelectorsWithin
  BY DEF ReadBack, BuilderInv, PermissionInv
<1>2. PICK old \in PermissionStructs : old = value
  BY <1>1
<1>3. PICK wire \in Requests : wire = ToWire(old)
  BY WireWithinKeys
<1>4. wire.key # <<>> /\ value' = FromWire(wire)
  BY <1>1, <1>2, <1>3 DEF ReadBack, Wire
<1>5. PICK new : new = FromWire(wire)
  OBVIOUS
<1>6. /\ new \in PermissionStructs /\ ~(new.with_prefix /\ new.with_from_key)
      /\ ToWire(new) = wire /\ new.key = wire.key
  BY <1>4, <1>5, ReadingBack
<1>7. old.key # <<>> => wire.key = old.key
  BY <1>3, WireOf DEF First, Request, PermissionStructs
<1>8. /\ HasItsKey' = HasItsKey /\ key' = key /\ asked' = asked /\ cleared' = cleared
      /\ value' = new
  BY <1>1, <1>4, <1>5 DEF HasItsKey
<1>a. HasItsKey => ToWire(new) = RevokeRequest(key, asked)
  BY <1>1, <1>2, <1>3, <1>6
<1>b. ~cleared => new.key = key /\ key # <<>> /\ asked.by # "all_keys"
  BY <1>1, <1>2, <1>6, <1>7
<1>9. PermissionInv'
  BY <1>1, <1>6, <1>8, <1>a, <1>b DEF PermissionInv
<1> QED
  BY <1>1, <1>9 DEF BuilderInv, OptionsInv, CompareInv, TxnInv

(* A list for a slot whose flag is down: no list was given for it before.    *)
LEMMA ListStep ==
    ASSUME BuilderInv, kind = "txn", UNCHANGED <<kind, key, cleared>>, NEW list \in Lists,
           NEW slot \in {"compare", "success", "failure"}, ~Flagged(slot),
           asked' = Append(asked, [slot |-> slot, list |-> list]),
           \/ slot = "compare" /\ value' = [value EXCEPT !.c_when = TRUE, !.req.compare = list]
           \/ slot = "success" /\ value' = [value EXCEPT !.c_then = TRUE, !.req.success = list]
           \/ slot = "failure" /\ value' = [value EXCEPT !.c_else = TRUE, !.req.failure = list]
    PROVE  BuilderInv'
<1> DEFINE entry == [slot |-> slot, list |-> list]
<1> DEFINE Slots == {"compare", "success", "failure"}
<1> DEFINE Entries == [slot : Slots, list : Lists]
<1>1. /\ value \in Transactions /\ asked \in Seq(Entries)
      /\ \A n \in 1..Len(asked) : Given(n)
  BY DEF BuilderInv, TxnInv
<1>2. entry \in Entries /\ entry.slot = slot /\ entry.list = list
  OBVIOUS
<1>3. /\ value' \in Transactions /\ value'.req[slot] = list
      /\ \A s \in Slots : s # slot => value'.req[s] = value.req[s]
  <2> DEFINE Lists3 == [compare : SomeLists, success : SomeLists, failure : SomeLists]
  <2>0. value.req \in Lists3
    BY <1>1 DEF Transactions
  <2>1. list \in SomeLists
    BY DEF SomeLists
  <2>2. CASE slot = "compare"
    <3>1. value' = [value EXCEPT !.c_when = TRUE, !.req = [@ EXCEPT !.compare = list]]
      BY <2>2
    <3>2. /\ [value.req EXCEPT !.compare = list] \in Lists3
          /\ [value.req EXCEPT !.compare = list].compare = list
          /\ [value.req EXCEPT !.compare = list].success = value.req.success
          /\ [value.req EXCEPT !.compare = list].failure = value.req.failure
      BY <2>0, <2>1
    <3>3. value'.req = [value.req EXCEPT !.compare = list]
      BY <1>1, <3>1 DEF Transactions
    <3>4. value' \in Transactions
      BY <1>1, <3>1, <3>2 DEF Transactions
    <3> QED
      BY <2>2, <3>2, <3>3, <3>4
  <2>3. CASE slot = "success"
    <3>1. value' = [value EXCEPT !.c_then = TRUE, !.req = [@ EXCEPT !.success = list]]
      BY <2>3
    <3>2. /\ [value.req EXCEPT !.success = list] \in Lists3
          /\ [value.req EXCEPT !.success = list].success = list
          /\ [value.req EXCEPT !.success = list].compare = value.req.compare
          /\ [value.req EXCEPT !.success = list].failure = value.req.failure
      BY <2>0, <2>1
    <3>3. value'.req = [value.req EXCEPT !.success = list]
      BY <1>1, <3>1 DEF Transactions
    <3>4. value' \in Transactions
      BY <1>1, <3>1, <3>2 DEF Transactions
    <3> QED
      BY <2>3, <3>2, <3>3, <3>4
  <2>4. CASE slot = "failure"
    <3>1. value' = [value EXCEPT !.c_else = TRUE, !.req = [@ EXCEPT !.failure = list]]
      BY <2>4
    <3>2. /\ [value.req EXCEPT !.failure = list] \in Lists3
          /\ [value.req EXCEPT !.failure = list].failure = list
          /\ [value.req EXCEPT !.failure = list].compare = value.req.compare
          /\ [value.req EXCEPT !.failure = list].success = value.req.success
      BY <2>0, <2>1
    <3>3. value'.req = [value.req EXCEPT !.failure = list]
      BY <1>1, <3>1 DEF Transactions
    <3>4. value' \in Transactions
      BY <1>1, <3>1, <3>2 DEF Transactions
    <3> QED
      BY <2>4, <3>2, <3>3, <3>4
  <2> QED
    BY <2>2, <2>3, <2>4
<1>4. Flagged(slot)' /\ \A s \in Slots : Flagged(s) => Flagged(s)'
  BY <1>1 DEF Flagged, Transactions
<1> HIDE DEF entry, Entries
<1>5. /\ asked' \in Seq(Entries) /\ Len(asked') = Len(asked) + 1
      /\ asked'[Len(asked) + 1] = entry
      /\ \A n \in 1..Len(asked) : asked'[n] = asked[n]
  BY <1>1, <1>2, AppendProperties DEF entry
<1>6. Len(asked) \in Nat
  BY <1>1, LenProperties
<1>7. ASSUME NEW n \in 1..Len(asked)' PROVE Given(n)'
  <2>1. CASE n = Len(asked) + 1
    BY <1>2, <1>3, <1>4, <1>5, <2>1 DEF Given
  <2>2. CASE n \in 1..Len(asked)
    <3>1. asked[n] \in Entries /\ Given(n)
      BY <1>1, <2>2, ElementOfSeq
    <3>2. PICK s \in Slots : s = asked[n].slot
      BY <3>1 DEF Entries
    <3>3. Flagged(s) /\ value.req[s] = asked[n].list /\ s # slot
      BY <3>1, <3>2 DEF Given
    <3>4. asked'[n] = asked[n] /\ asked'[n].slot = s
      BY <1>5, <2>2, <3>2
    <3> QED
      BY <1>3, <1>4, <3>3, <3>4 DEF Given
  <2> QED
    BY <1>5, <1>6, <2>1, <2>2
<1>8. TxnInv'
  BY <1>1, <1>3, <1>5, <1>7 DEF TxnInv, Entries
<1> QED
  BY <1>8 DEF BuilderInv, OptionsInv, PermissionInv, CompareInv

LEMMA BuilderStep == BuilderInv /\ [BuilderNext]_builderVars => BuilderInv'
<1> SUFFICES ASSUME BuilderInv, [BuilderNext]_builderVars PROVE BuilderInv'
  OBVIOUS
<1>1. ASSUME NEW end \in Ends, SelectRange(end) PROVE BuilderInv'
  <2> DEFINE by == [by |-> "range", end |-> end]
  <2>1. by \in SelectorsWithin /\ by.by = "range" /\ by.end = end
    BY DEF SelectorsWithin
  <2> HIDE DEF by
  <2>2. \/ kind = "options" /\ Asks(WithRange(value, end), by)
        \/ kind = "permission" /\ Asks(PermissionRangeEnd(value, end), by)
        \/ kind = "compare" /\ Asks(CompareRange(value, end), by)
    BY <1>1 DEF SelectRange, Selecting, by
  <2> QED
    BY <2>1, <2>2, OptionsStep, PermissionStep, CompareStep
<1>2. ASSUME SelectPrefix PROVE BuilderInv'
  <2> DEFINE by == [by |-> "prefix"]
  <2>1. by \in SelectorsWithin /\ by.by = "prefix"
    BY DEF SelectorsWithin
  <2> HIDE DEF by
  <2>2. \/ kind = "options" /\ Asks(WithPrefix(value), by)
        \/ kind = "permission" /\ Asks(PermissionPrefix(value), by)
        \/ kind = "compare" /\ Asks(ComparePrefix(value), by)
    BY <1>2 DEF SelectPrefix, Selecting, by
  <2> QED
    BY <2>1, <2>2, OptionsStep, PermissionStep, CompareStep
<1>3. ASSUME SelectFromKey PROVE BuilderInv'
  <2> DEFINE by == [by |-> "from_key"]
  <2>1. by \in SelectorsWithin /\ by.by = "from_key"
    BY DEF SelectorsWithin
  <2> HIDE DEF by
  <2>2. \/ kind = "options" /\ Asks(WithFromKey(value), by)
        \/ kind = "permission" /\ Asks(PermissionFromKey(value), by)
    BY <1>3 DEF SelectFromKey, Selecting, by
  <2> QED
    BY <2>1, <2>2, OptionsStep, PermissionStep
<1>4. ASSUME SelectAllKeys PROVE BuilderInv'
  <2> DEFINE by == [by |-> "all_keys"]
  <2>1. by \in SelectorsWithin /\ by.by = "all_keys"
    BY DEF SelectorsWithin
  <2> HIDE DEF by
  <2>2. \/ kind = "options" /\ Asks(WithAllKeys(value), by)
        \/ kind = "permission" /\ Asks(PermissionAllKeys(value), by)
    BY <1>4 DEF SelectAllKeys, Selecting, by
  <2> QED
    BY <2>1, <2>2, OptionsStep, PermissionStep
<1>5. ASSUME NEW list \in Lists, When(list) PROVE BuilderInv'
  BY <1>5, ListStep DEF When, Flagged
<1>6. ASSUME NEW list \in Lists, AndThen(list) PROVE BuilderInv'
  BY <1>6, ListStep DEF AndThen, Flagged
<1>7. ASSUME NEW list \in Lists, OrElse(list) PROVE BuilderInv'
  BY <1>7, ListStep DEF OrElse, Flagged
<1>8. CASE Panic
  BY <1>8 DEF Panic, BuilderInv, OptionsInv, PermissionInv, CompareInv, TxnInv
<1>9. CASE UNCHANGED builderVars
  BY <1>9 DEF builderVars, BuilderInv, OptionsInv, PermissionInv, CompareInv, TxnInv, Given,
     Flagged, HasItsKey
<1> QED
  BY <1>1, <1>2, <1>3, <1>4, <1>5, <1>6, <1>7, <1>8, <1>9, CallStep, ReadBackStep
     DEF BuilderNext

LEMMA BuilderInvariant == BuilderSpec => []BuilderInv
<1> QED
  BY BuilderInvInit, BuilderStep, PTL DEF BuilderSpec

----------------------------------------------------------------------------
(* Builders: the theorems *)

LEMMA WireIs ==
    ASSUME BuilderInv, Ranged, HasItsKey
    PROVE  /\ key \in SomeKeys /\ asked \in SelectorsWithin
           /\ Wire = RevokeRequest(key, asked)
<1>1. key \in SomeKeys
  BY DEF BuilderInv
<1>2. CASE kind = "options"
  <2>1. /\ value \in Ranges /\ value.key = key /\ asked \in SelectorsWithin
        /\ value.with_prefix <=> asked.by = "prefix"
        /\ value.with_from_key <=> asked.by = "from_key"
        /\ value.with_all_keys <=> asked.by = "all_keys"
        /\ asked.by = "one" => value.range_end = <<>>
        /\ asked.by = "range" => value.range_end = asked.end
    BY <1>2 DEF BuilderInv, OptionsInv
  <2> QED
    BY <1>1, <1>2, <2>1, BuildOf DEF Wire
<1>3. CASE kind = "permission"
  BY <1>1, <1>3 DEF BuilderInv, PermissionInv, Wire
<1>4. CASE kind = "compare"
  BY <1>1, <1>4 DEF BuilderInv, CompareInv, Wire
<1> QED
  BY <1>2, <1>3, <1>4 DEF Ranged

(* The structs of the builders stay within their types, and at most one of    *)
(* the flags of a range is set.                                             *)
THEOREM BuildersTypeCorrect == BuilderSpec => []BuilderTypeOK
<1>1. BuilderInv => BuilderTypeOK
  <2> SUFFICES ASSUME BuilderInv PROVE BuilderTypeOK
    OBVIOUS
  <2>1. /\ kind \in {"options", "permission", "compare", "txn", "panicked"}
        /\ key \in SomeKeys /\ cleared \in BOOLEAN
    BY DEF BuilderInv
  <2>2. ASSUME Ranged
        PROVE  /\ value.key \in SomeKeys /\ value.range_end \in Ends
               /\ asked.by \in {"one", "range", "from_key", "prefix", "all_keys"}
    BY <2>2 DEF Ranged, BuilderInv, OptionsInv, PermissionInv, CompareInv, Ranges,
       PermissionStructs, Requests, SelectorsWithin
  <2>3. ASSUME kind = "options"
        PROVE  /\ value.with_prefix => ~value.with_from_key /\ ~value.with_all_keys
               /\ value.with_from_key => ~value.with_all_keys
    BY <2>3 DEF BuilderInv, OptionsInv
  <2>4. kind = "permission" => ~(value.with_prefix /\ value.with_from_key)
    BY DEF BuilderInv, PermissionInv
  <2>5. ASSUME kind \in {"txn", "panicked"}
        PROVE  \A slot \in DOMAIN NoLists : value.req[slot] \in Lists \cup {{}}
    BY <2>5 DEF BuilderInv, TxnInv, Transactions, SomeLists, NoLists
  <2> QED
    BY <2>1, <2>2, <2>3, <2>4, <2>5 DEF BuilderTypeOK
<1> QED
  BY <1>1, BuilderInvariant, PTL

(* Whatever was set before, the request selects exactly the keys that the     *)
(* last selector promises, unless a permission has lost its key.              *)
THEOREM RequestsAreWhatWasAsked == BuilderSpec => []RequestIsWhatWasAsked
<1>1. BuilderInv => RequestIsWhatWasAsked
  <2> SUFFICES ASSUME BuilderInv, Ranged, HasItsKey, NEW k \in Keys
               PROVE  InRequest(k, Wire) <=> Asked(k, key, asked)
    BY DEF RequestIsWhatWasAsked
  <2>1. key \in SomeKeys /\ asked \in SelectorsWithin /\ Wire = RevokeRequest(key, asked)
    BY WireIs
  <2>2. key \in Key /\ asked \in Selector /\ k \in Key /\ k # <<>>
    BY <2>1, KeysAre DEF SelectorsWithin, Selector
  <2> QED
    BY <2>1, <2>2, RequestMatches
<1> QED
  BY <1>1, BuilderInvariant, PTL

(* A permission is revoked by the key and the selector that granted it, read  *)
(* back or not.                                                             *)
THEOREM RevocationsMatchGrants == BuilderSpec => []RevokeMatchesGrant
<1>1. BuilderInv => RevokeMatchesGrant
  BY WireIs DEF RevokeMatchesGrant, Ranged
<1> QED
  BY <1>1, BuilderInvariant, PTL

(* A permission that was granted is equal to the one read back, unless its    *)
(* range end is that of another selector as well.                            *)
THEOREM GrantsAreFound == BuilderSpec => []GrantedIsFound
<1>1. BuilderInv => GrantedIsFound
  <2> SUFFICES ASSUME BuilderInv, kind = "permission", Wire.key # <<>>, EndTellsSelector
               PROVE  SamePermission(value, FromWire(Wire))
    BY DEF GrantedIsFound
  <2>1. /\ value \in PermissionStructs /\ ~(value.with_prefix /\ value.with_from_key)
        /\ Wire = ToWire(value)
    BY DEF BuilderInv, PermissionInv, Wire
  <2>2. PICK perm \in PermissionStructs : perm = value
    BY <2>1
  <2>3. /\ perm.key \in SomeKeys /\ perm.with_prefix \in BOOLEAN /\ perm.with_from_key \in BOOLEAN
        /\ perm.key # <<>> => GetPrefix(perm.key) # <<>>
    BY EndWithinKeys DEF PermissionStructs
  <2>4. CASE perm.with_from_key
    <3>1. Wire.range_end = Zero /\ Wire.key = First(perm.key)
      BY <2>1, <2>2, <2>4, WireOf DEF Request
    <3> QED
      BY <2>1, <2>2, <2>3, <2>4, <3>1 DEF SamePermission, FromWire, First
  <2>5. CASE perm.with_prefix
    <3>1. Wire.range_end # Zero
      BY <2>1, <2>2, <2>5 DEF EndTellsSelector
    <3>2. /\ Wire = Request(First(perm.key),
                            IF perm.key = <<>> THEN Zero ELSE GetPrefix(perm.key))
      BY <2>1, <2>2, <2>5, WireOf
    <3>3. perm.key # <<>> /\ Wire.key = perm.key /\ Wire.range_end = GetPrefix(perm.key)
      BY <3>1, <3>2 DEF Request, First
    <3> QED
      BY <2>1, <2>2, <2>3, <2>5, <3>1, <3>3 DEF SamePermission, FromWire
  <2>6. CASE ~perm.with_from_key /\ ~perm.with_prefix
    <3>1. Wire.range_end \notin {Zero, GetPrefix(Wire.key)}
      BY <2>1, <2>2, <2>6 DEF EndTellsSelector
    <3>2. Wire.key = perm.key
      BY <2>1, <2>2, <2>6, WireOf DEF Request
    <3> QED
      BY <2>2, <2>3, <2>6, <3>1, <3>2 DEF SamePermission, FromWire
  <2> QED
    BY <2>4, <2>5, <2>6
<1> QED
  BY <1>1, BuilderInvariant, PTL

(* No list given to a transaction that did not panic is replaced by a later   *)
(* one.                                                                     *)
THEOREM TxnListsAreKept == BuilderSpec => []TxnKeepsItsLists
<1>1. BuilderInv => TxnKeepsItsLists
  BY DEF BuilderInv, TxnInv, Given, TxnKeepsItsLists
<1> QED
  BY <1>1, BuilderInvariant, PTL

----------------------------------------------------------------------------
(* Namespace: prefixed keys *)

LEMMA PrefixedIs ==
    ASSUME NEW a \in Key
    PROVE  /\ Prefix \in Key /\ PrefixWith(a) \in Key
           /\ Len(PrefixWith(a)) = Len(Prefix) + Len(a)
           /\ \A i \in 1..Len(Prefix) : PrefixWith(a)[i] = Prefix[i]
           /\ \A i \in 1..Len(a) : PrefixWith(a)[Len(Prefix) + i] = a[i]
           /\ StartsWith(PrefixWith(a), Prefix)
<1>0. Prefix \in Seq(Byte) /\ a \in Seq(Byte) /\ Len(Prefix) \in Nat /\ Len(a) \in Nat
  BY PrefixAssumption, KeyIs DEF Key
<1>1. /\ PrefixWith(a) \in Seq(Byte)
      /\ Len(PrefixWith(a)) = Len(Prefix) + Len(a)
      /\ \A i \in 1..(Len(Prefix) + Len(a)) :
            PrefixWith(a)[i] = IF i <= Len(Prefix) THEN Prefix[i] ELSE a[i - Len(Prefix)]
  BY <1>0, ConcatProperties DEF PrefixWith
<1>2. \A i \in 1..Len(Prefix) : PrefixWith(a)[i] = Prefix[i]
  BY <1>0, <1>1
<1>3. ASSUME NEW i \in 1..Len(a) PROVE PrefixWith(a)[Len(Prefix) + i] = a[i]
  <2>1. /\ Len(Prefix) + i \in 1..(Len(Prefix) + Len(a)) /\ ~(Len(Prefix) + i <= Len(Prefix))
        /\ (Len(Prefix) + i) - Len(Prefix) = i
    BY <1>0
  <2> QED
    BY <1>1, <2>1
<1>4. StartsWith(PrefixWith(a), Prefix)
  BY <1>0, <1>1, <1>2 DEF StartsWith
<1> QED
  BY <1>0, <1>1, <1>2, <1>3, <1>4 DEF Key

(* Stripping undoes prefixing, and whatever has the prefix was prefixed.     *)
LEMMA StripOfPrefixed ==
    ASSUME NEW a \in Key
    PROVE  StripKeyPrefix(PrefixWith(a)) = a
<1> DEFINE k == PrefixWith(a)
<1> DEFINE m == Len(Prefix) + 1
<1>0. /\ k \in Key /\ Len(k) = Len(Prefix) + Len(a) /\ StartsWith(k, Prefix)
      /\ \A i \in 1..Len(a) : k[Len(Prefix) + i] = a[i]
      /\ Len(Prefix) \in Nat /\ Len(a) \in Nat /\ a \in Seq(Byte)
  BY PrefixedIs, PrefixAssumption, KeyIs DEF Key
<1> HIDE DEF k
<1>1. m \in Int /\ Len(k) \in Int /\ \A i \in m..Len(k) : k[i] \in Byte
  <2>1. \A i \in 1..Len(k) : k[i] \in Byte
    BY <1>0, KeyIs
  <2> QED
    BY <1>0, <2>1
<1> DEFINE rest == SubSeq(k, m, Len(k))
<1>2. /\ rest \in Seq(Byte)
      /\ Len(rest) = IF m <= Len(k) THEN Len(k) - m + 1 ELSE 0
      /\ \A i \in 1..(Len(k) - m + 1) : rest[i] = k[m + i - 1]
  BY <1>1, SubSeqProperties
<1>3. StripKeyPrefix(k) = rest
  BY <1>0 DEF StripKeyPrefix
<1> HIDE DEF rest
<1>4. Len(rest) = Len(a)
  BY <1>0, <1>2
<1>5. ASSUME NEW i \in 1..Len(rest) PROVE rest[i] = a[i]
  <2>1. i \in 1..(Len(k) - m + 1) /\ m + i - 1 = Len(Prefix) + i /\ i \in 1..Len(a)
    BY <1>0, <1>4
  <2> QED
    BY <1>0, <1>2, <2>1
<1>6. rest = a
  BY <1>0, <1>2, <1>4, <1>5, SeqEqual
<1> QED
  BY <1>3, <1>6 DEF k

LEMMA HasBeenPrefixed ==
    ASSUME NEW k \in Key, StartsWith(k, Prefix)
    PROVE  \E a \in Key : k = PrefixWith(a)
<1> DEFINE m == Len(Prefix) + 1
<1> DEFINE rest == SubSeq(k, m, Len(k))
<1>0. /\ Len(k) \in Nat /\ Len(Prefix) \in Nat /\ Len(Prefix) <= Len(k)
      /\ \A i \in 1..Len(k) : k[i] \in Byte
      /\ \A i \in 1..Len(Prefix) : k[i] = Prefix[i]
  BY PrefixAssumption, KeyIs DEF StartsWith
<1>1. /\ rest \in Seq(Byte)
      /\ Len(rest) = IF m <= Len(k) THEN Len(k) - m + 1 ELSE 0
      /\ \A i \in 1..(Len(k) - m + 1) : rest[i] = k[m + i - 1]
  BY <1>0, SubSeqProperties
<1> HIDE DEF rest
<1>2. rest \in Key /\ Len(rest) = Len(k) - Len(Prefix)
  BY <1>0, <1>1 DEF Key
<1>3. /\ PrefixWith(rest) \in Key /\ Len(PrefixWith(rest)) = Len(k)
      /\ \A i \in 1..Len(Prefix) : PrefixWith(rest)[i] = Prefix[i]
      /\ \A i \in 1..Len(rest) : PrefixWith(rest)[Len(Prefix) + i] = rest[i]
  BY <1>0, <1>2, PrefixedIs
<1>4. ASSUME NEW i \in 1..Len(k) PROVE k[i] = PrefixWith(rest)[i]
  <2>1. CASE i \in 1..Len(Prefix)
    BY <1>0, <1>3, <2>1
  <2>2. CASE i > Len(Prefix)
    <3>0. i \in Nat /\ i - Len(Prefix) \in Nat
      BY <1>0, <2>2
    <3>1. PICK j \in Nat : j = i - Len(Prefix)
      BY <3>0
    <3>2. j \in 1..Len(rest) /\ j \in 1..(Len(k) - m + 1) /\ m + j - 1 = i /\ Len(Prefix) + j = i
      BY <1>0, <1>2, <2>2, <3>1
    <3> QED
      BY <1>1, <1>3, <3>2
  <2> QED
    BY <1>0, <2>1, <2>2
<1>5. k = PrefixWith(rest)
  BY <1>3, <1>4, SeqEqual DEF Key
<1> QED
  BY <1>2, <1>5

(* Prefixing keeps the order of keys and what they begin with. *)
LEMMA PrefixedBeginning ==
    ASSUME NEW a \in Key, NEW b \in Key
    PROVE  StartsWith(PrefixWith(a), PrefixWith(b)) <=> StartsWith(a, b)
<1> DEFINE pa == PrefixWith(a)
<1> DEFINE pb == PrefixWith(b)
<1> DEFINE l == Len(Prefix)
<1>0. /\ l \in Nat /\ Len(a) \in Nat /\ Len(b) \in Nat
      /\ Len(pa) = l + Len(a) /\ Len(pb) = l + Len(b)
      /\ \A i \in 1..l : pa[i] = pb[i]
      /\ \A i \in 1..Len(a) : pa[l + i] = a[i]
      /\ \A i \in 1..Len(b) : pb[l + i] = b[i]
  BY PrefixedIs, PrefixAssumption, KeyIs
<1> HIDE DEF pa, pb, l
<1>1. ASSUME StartsWith(pa, pb) PROVE StartsWith(a, b)
  <2>1. Len(b) <= Len(a)
    BY <1>0, <1>1 DEF StartsWith
  <2>2. ASSUME NEW i \in 1..Len(b) PROVE a[i] = b[i]
    <3>1. l + i \in 1..Len(pb) /\ i \in 1..Len(a)
      BY <1>0, <2>1
    <3> QED
      BY <1>0, <1>1, <3>1 DEF StartsWith
  <2> QED
    BY <2>1, <2>2 DEF StartsWith
<1>2. ASSUME StartsWith(a, b) PROVE StartsWith(pa, pb)
  <2>1. Len(pb) <= Len(pa) /\ Len(b) <= Len(a)
    BY <1>0, <1>2 DEF StartsWith
  <2>2. ASSUME NEW i \in 1..Len(pb) PROVE pa[i] = pb[i]
    <3>1. CASE i \in 1..l
      BY <1>0, <3>1
    <3>2. CASE i > l
      <4>1. PICK j \in Nat : j = i - l
        BY <1>0, <3>2
      <4>2. j \in 1..Len(b) /\ j \in 1..Len(a) /\ l + j = i
        BY <1>0, <2>1, <3>2, <4>1
      <4> QED
        BY <1>0, <1>2, <4>2 DEF StartsWith
    <3> QED
      BY <1>0, <3>1, <3>2
  <2> QED
    BY <2>1, <2>2 DEF StartsWith
<1> QED
  BY <1>1, <1>2 DEF pa, pb

LEMMA PrefixedOrder ==
    ASSUME NEW a \in Key, NEW b \in Key
    PROVE  Less(PrefixWith(a), PrefixWith(b)) <=> Less(a, b)
<1> DEFINE pa == PrefixWith(a)
<1> DEFINE pb == PrefixWith(b)
<1> DEFINE l == Len(Prefix)
<1>0. /\ l \in Nat /\ Len(a) \in Nat /\ Len(b) \in Nat
      /\ Len(pa) = l + Len(a) /\ Len(pb) = l + Len(b)
      /\ \A i \in 1..l : pa[i] = pb[i] /\ pb[i] \in Nat
      /\ \A i \in 1..Len(a) : pa[l + i] = a[i]
      /\ \A i \in 1..Len(b) : pb[l + i] = b[i]
  BY PrefixedIs, PrefixAssumption, KeyIs
<1>1. StartsWith(pb, pa) /\ Len(pa) < Len(pb) <=> StartsWith(b, a) /\ Len(a) < Len(b)
  BY <1>0, PrefixedBeginning
<1> HIDE DEF pa, pb, l
<1>2. ASSUME NEW i \in 1..Len(pa), i <= Len(pb), pa[i] < pb[i],
             \A j \in 1..(i - 1) : pa[j] = pb[j]
      PROVE  \E n \in 1..Len(a) : /\ n <= Len(b) /\ a[n] < b[n]
                                  /\ \A j \in 1..(n - 1) : a[j] = b[j]
  <2>1. i > l
    BY <1>0, <1>2
  <2>2. PICK n \in Nat : n = i - l
    BY <1>0, <2>1
  <2>3. n \in 1..Len(a) /\ n \in 1..Len(b) /\ l + n = i
    BY <1>0, <1>2, <2>1, <2>2
  <2>4. a[n] < b[n]
    BY <1>0, <1>2, <2>3
  <2>5. ASSUME NEW j \in 1..(n - 1) PROVE a[j] = b[j]
    <3>1. l + j \in 1..(i - 1) /\ j \in 1..Len(a) /\ j \in 1..Len(b)
      BY <1>0, <2>3
    <3> QED
      BY <1>0, <1>2, <3>1
  <2> QED
    BY <2>3, <2>4, <2>5
<1>3. ASSUME NEW n \in 1..Len(a), n <= Len(b), a[n] < b[n],
             \A j \in 1..(n - 1) : a[j] = b[j]
      PROVE  \E i \in 1..Len(pa) : /\ i <= Len(pb) /\ pa[i] < pb[i]
                                   /\ \A j \in 1..(i - 1) : pa[j] = pb[j]
  <2>1. PICK i \in Nat : i = l + n
    BY <1>0
  <2>2. i \in 1..Len(pa) /\ i <= Len(pb) /\ n \in 1..Len(b)
    BY <1>0, <1>3, <2>1
  <2>3. pa[i] < pb[i]
    BY <1>0, <1>3, <2>1, <2>2
  <2>4. ASSUME NEW j \in 1..(i - 1) PROVE pa[j] = pb[j]
    <3>1. CASE j \in 1..l
      BY <1>0, <3>1
    <3>2. CASE j > l
      <4>1. PICK m \in Nat : m = j - l
        BY <1>0, <3>2
      <4>2. m \in 1..(n - 1) /\ m \in 1..Len(a) /\ m \in 1..Len(b) /\ l + m = j
        BY <1>0, <1>3, <2>1, <3>2, <4>1
      <4> QED
        BY <1>0, <1>3, <4>2
    <3> QED
      BY <1>0, <3>1, <3>2
  <2> QED
    BY <2>2, <2>3, <2>4
<1>4. Less(pa, pb) <=> Less(a, b)
  BY <1>1, <1>2, <1>3 DEF Less
<1> QED
  BY <1>4 DEF pa, pb

(* A key below the prefix is below all that have it. *)
LEMMA BelowTheNamespace ==
    ASSUME NEW k \in Key, NEW a \in Key, AtLeast(k, PrefixWith(a))
    PROVE  AtLeast(k, Prefix)
<1> DEFINE pa == PrefixWith(a)
<1>0. /\ Prefix \in Key /\ pa \in Key /\ Len(pa) = Len(Prefix) + Len(a)
      /\ Len(k) \in Nat /\ Len(Prefix) \in Nat /\ Len(a) \in Nat
      /\ \A i \in 1..Len(Prefix) : pa[i] = Prefix[i]
  BY PrefixedIs, KeyIs
<1> HIDE DEF pa
<1>1. SUFFICES ASSUME Less(k, Prefix) PROVE Less(k, pa)
  BY DEF AtLeast, pa
<1>2. CASE StartsWith(Prefix, k) /\ Len(k) < Len(Prefix)
  <2>1. StartsWith(pa, k) /\ Len(k) < Len(pa)
    BY <1>0, <1>2 DEF StartsWith
  <2> QED
    BY <2>1 DEF Less
<1>3. CASE \E i \in 1..Len(k) : /\ i <= Len(Prefix) /\ k[i] < Prefix[i]
                                /\ \A j \in 1..(i - 1) : k[j] = Prefix[j]
  <2>1. PICK i \in 1..Len(k) : /\ i <= Len(Prefix) /\ k[i] < Prefix[i]
                               /\ \A j \in 1..(i - 1) : k[j] = Prefix[j]
    BY <1>3
  <2>2. /\ i <= Len(pa) /\ k[i] < pa[i]
        /\ \A j \in 1..(i - 1) : k[j] = pa[j]
    BY <1>0, <2>1
  <2> QED
    BY <2>2 DEF Less
<1> QED
  BY <1>1, <1>2, <1>3 DEF Less

(* Between two keys of the namespace there are no others. *)
LEMMA BetweenPrefixed ==
    ASSUME NEW k \in Key, NEW a \in Key, NEW b \in Key,
           AtLeast(k, PrefixWith(a)), Less(k, PrefixWith(b))
    PROVE  StartsWith(k, Prefix)
<1> SUFFICES ASSUME ~StartsWith(k, Prefix) PROVE FALSE
  OBVIOUS
<1> DEFINE pb == PrefixWith(b)
<1>0. /\ Prefix \in Key /\ pb \in Key /\ Len(pb) = Len(Prefix) + Len(b)
      /\ Len(k) \in Nat /\ Len(Prefix) \in Nat /\ Len(b) \in Nat
      /\ \A m \in 1..Len(Prefix) : pb[m] = Prefix[m] /\ Prefix[m] \in Nat
      /\ \A m \in 1..Len(k) : k[m] \in Nat
  BY PrefixedIs, KeyIs
<1>1. AtLeast(k, Prefix)
  BY BelowTheNamespace
<1>2. PICK i \in 1..Len(k) :
        /\ i <= Len(Prefix) /\ Prefix[i] < k[i] /\ k[i] <= ByteMax
        /\ \A j \in 1..(i - 1) : k[j] = Prefix[j]
  BY <1>0, <1>1, LeavesAbove
<1>3. i \in 1..Len(Prefix) /\ pb[i] = Prefix[i]
  BY <1>0, <1>2
<1>4. Less(k, pb)
  OBVIOUS
<1> HIDE DEF pb
<1>5. CASE StartsWith(pb, k) /\ Len(k) < Len(pb)
  <2>1. pb[i] = k[i]
    BY <1>5 DEF StartsWith
  <2> QED
    BY <1>0, <1>2, <1>3, <2>1
<1>6. CASE \E m \in 1..Len(k) : /\ m <= Len(pb) /\ k[m] < pb[m]
                                /\ \A j \in 1..(m - 1) : k[j] = pb[j]
  <2>1. PICK m \in 1..Len(k) : /\ m <= Len(pb) /\ k[m] < pb[m]
                               /\ \A j \in 1..(m - 1) : k[j] = pb[j]
    BY <1>6
  <2>2. CASE m < i
    <3>1. m \in 1..Len(Prefix) /\ k[m] = Prefix[m]
      BY <1>0, <1>2, <2>2
    <3> QED
      BY <1>0, <2>1, <3>1
  <2>3. CASE m = i
    BY <1>0, <1>2, <1>3, <2>1, <2>3
  <2>4. CASE i < m
    <3>1. k[i] = pb[i]
      BY <1>0, <2>1, <2>4
    <3> QED
      BY <1>0, <1>2, <1>3, <3>1
  <2> QED
    BY <1>0, <2>1, <2>2, <2>3, <2>4
<1> QED
  BY <1>4, <1>5, <1>6 DEF Less

----------------------------------------------------------------------------
(* Namespace: the edge *)

(* The edge of the namespace has the prefix's bytes up to the one it raises.  *)
LEMMA EdgeIs ==
    ASSUME Prefix # <<>>, NEW n, Uncarried(Prefix, n)
    PROVE  LET edge == PrefixRangeEndWith(Zero)
           IN  /\ edge \notin {<<>>, Zero} /\ Len(edge) = Len(Prefix)
               /\ \A i \in 1..(n - 1) : edge[i] = Prefix[i]
               /\ edge[n] = Prefix[n] + 1
<1> DEFINE edge == PrefixRangeEndWith(Zero)
<1> DEFINE form == [i \in 1..Len(Prefix) |->
                      CASE i < n -> Prefix[i]
                        [] i = n -> Prefix[i] + 1
                        [] OTHER -> 0]
<1>0. /\ Prefix \in Key /\ Len(Prefix) \in Nat /\ n \in 1..Len(Prefix)
      /\ \A i \in 1..Len(Prefix) : Prefix[i] \in Nat
      /\ Zero # <<>>
  BY PrefixAssumption, KeyIs, ZeroIsKey DEF Uncarried
<1>1. edge = form
  <2> DEFINE below == {m \in 1..Len(Prefix) : Prefix[m] < ByteMax}
  <2> DEFINE carry == CHOOSE i \in below : \A j \in below : j <= i
  <2>1. below # {} /\ carry = n
    BY <1>0, LastBelowMax
  <2>2. edge = [i \in 1..Len(Prefix) |->
                  CASE i < carry -> Prefix[i]
                    [] i = carry -> Prefix[i] + 1
                    [] OTHER -> 0]
    BY <1>0, <2>1 DEF PrefixRangeEndWith
  <2> HIDE DEF below, carry
  <2> QED
    BY <2>1, <2>2
<1>2. /\ form \in Seq(Nat) /\ Len(form) = Len(Prefix)
      /\ \A i \in 1..(n - 1) : form[i] = Prefix[i]
      /\ form[n] = Prefix[n] + 1
  <2>1. ASSUME NEW i \in 1..Len(Prefix) PROVE form[i] \in Nat
    BY <1>0
  <2>2. form \in [1..Len(Prefix) -> Nat]
    BY <2>1
  <2>3. form \in Seq(Nat) /\ Len(form) = Len(Prefix)
    <3> HIDE DEF form
    <3> QED
      BY <1>0, <2>2, SeqDef, LenProperties
  <2> QED
    BY <1>0, <2>3
<1> HIDE DEF form
<1>3. form # <<>>
  BY <1>0, <1>2
<1>4. ASSUME form = Zero PROVE FALSE
  <2>1. Len(form) = 1 /\ form[1] = 0
    BY <1>4, ZeroIsKey
  <2>2. n = 1
    BY <1>0, <1>2, <2>1
  <2> QED
    BY <1>0, <1>2, <2>1, <2>2
<1> QED
  BY <1>1, <1>2, <1>3, <1>4

(* All keys of the namespace are below it. *)
LEMMA BelowTheEdge ==
    ASSUME Prefix # <<>>, NEW a \in Key, PrefixRangeEndWith(Zero) # Zero
    PROVE  Less(PrefixWith(a), PrefixRangeEndWith(Zero)) /\ PrefixRangeEndWith(Zero) # <<>>
<1> DEFINE edge == PrefixRangeEndWith(Zero)
<1> DEFINE pa == PrefixWith(a)
<1>0. /\ Prefix \in Key /\ pa \in Key /\ Len(pa) = Len(Prefix) + Len(a)
      /\ Len(Prefix) \in Nat /\ Len(a) \in Nat
      /\ \A i \in 1..Len(Prefix) : pa[i] = Prefix[i] /\ Prefix[i] \in Nat
  BY PrefixedIs, KeyIs
<1>1. CASE \A i \in 1..Len(Prefix) : Prefix[i] = ByteMax
  <2>1. {i \in 1..Len(Prefix) : Prefix[i] < ByteMax} = {}
    BY <1>1, BytesAssumption
  <2> QED
    BY <2>1, ZeroIsKey DEF PrefixRangeEndWith
<1>2. CASE \E n \in 1..Len(Prefix) : Uncarried(Prefix, n)
  <2>1. PICK n \in 1..Len(Prefix) : Uncarried(Prefix, n)
    BY <1>2
  <2>2. /\ edge # <<>> /\ Len(edge) = Len(Prefix)
        /\ \A i \in 1..(n - 1) : edge[i] = Prefix[i]
        /\ edge[n] = Prefix[n] + 1
    BY <2>1, EdgeIs
  <2> HIDE DEF edge, pa
  <2>3. /\ n \in 1..Len(pa) /\ n <= Len(edge) /\ pa[n] < edge[n]
        /\ \A j \in 1..(n - 1) : pa[j] = edge[j]
    BY <1>0, <2>1, <2>2
  <2>4. Less(pa, edge)
    BY <2>3 DEF Less
  <2> QED
    BY <2>2, <2>4 DEF edge, pa
<1> QED
  BY <1>0, <1>1, <1>2, UncarriedOrMax

LEMMA EdgeWithoutMax ==
    (\A i \in 1..Len(Prefix) : Prefix[i] = ByteMax) => PrefixRangeEndWith(Zero) = Zero
<1> SUFFICES ASSUME \A i \in 1..Len(Prefix) : Prefix[i] = ByteMax
             PROVE  PrefixRangeEndWith(Zero) = Zero
  OBVIOUS
<1>1. {i \in 1..Len(Prefix) : Prefix[i] < ByteMax} = {}
  BY BytesAssumption
<1> QED
  BY <1>1, ZeroIsKey DEF PrefixRangeEndWith

(* A prefix whose last byte is below 0xFF, or all of whose bytes are 0xFF,    *)
(* meets it whatever the other clients do.                                  *)
LEMMA UnwrappedEdge ==
    ASSUME \/ Prefix # <<>> /\ Prefix[Len(Prefix)] < ByteMax
           \/ \A i \in 1..Len(Prefix) : Prefix[i] = ByteMax
    PROVE  NoKeyAtTheEdge
<1>0. /\ Prefix \in Key /\ Len(Prefix) \in Nat /\ (Prefix = <<>> <=> Len(Prefix) = 0)
  BY PrefixAssumption, KeyIs
<1>1. CASE \A i \in 1..Len(Prefix) : Prefix[i] = ByteMax
  <2>1. GetPrefix(Prefix) = Zero
    BY <1>0, <1>1, PrefixWithoutEnd
  <2> QED
    BY <1>1, <2>1, EdgeWithoutMax DEF NoKeyAtTheEdge
<1>2. CASE Prefix # <<>> /\ Prefix[Len(Prefix)] < ByteMax
  <2> DEFINE edge == PrefixRangeEndWith(Zero)
  <2> DEFINE cut == GetPrefix(Prefix)
  <2>1. PICK n : n = Len(Prefix)
    OBVIOUS
  <2>2. Uncarried(Prefix, n)
    BY <1>0, <1>2, <2>1 DEF Uncarried
  <2>3. /\ Len(edge) = n /\ edge[n] = Prefix[n] + 1
        /\ \A i \in 1..(n - 1) : edge[i] = Prefix[i]
    BY <1>2, <2>1, <2>2, EdgeIs
  <2>4. /\ Len(cut) = n /\ cut[n] = Prefix[n] + 1
        /\ \A i \in 1..(n - 1) : cut[i] = Prefix[i]
    BY <1>0, <2>2, PrefixWithEnd
  <2> HIDE DEF edge, cut
  <2>5. n \in Nat /\ \A i \in 1..n : edge[i] = cut[i]
    BY <1>0, <2>1, <2>3, <2>4
  <2>6. \A k : Less(k, edge) <=> Less(k, cut)
    <3>1. \A k : StartsWith(edge, k) /\ Len(k) < Len(edge)
                   <=> StartsWith(cut, k) /\ Len(k) < Len(cut)
      BY <2>3, <2>4, <2>5 DEF StartsWith
    <3>2. \A k : (\E i \in 1..Len(k) : /\ i <= Len(edge) /\ k[i] < edge[i]
                                       /\ \A j \in 1..(i - 1) : k[j] = edge[j])
             <=> (\E i \in 1..Len(k) : /\ i <= Len(cut) /\ k[i] < cut[i]
                                       /\ \A j \in 1..(i - 1) : k[j] = cut[j])
      BY <2>3, <2>4, <2>5
    <3> QED
      BY <3>1, <3>2 DEF Less
  <2> QED
    BY <2>6 DEF NoKeyAtTheEdge, AtLeast, edge, cut
<1> QED
  BY <1>1, <1>2

----------------------------------------------------------------------------
(* Namespace: the requests *)

(* The request finds what the selector asks for in the namespace, and nothing *)
(* outside.                                                                 *)
Exact(req, p, by) ==
    /\ \A u \in UserKeys : InRequest(PrefixWith(u), req) <=> Asked(u, p, by)
    /\ \A k \in OutsideKeys : ~InRequest(k, req)

LEMMA UsersAndOthers ==
    /\ Prefix \in Key
    /\ \A u \in UserKeys : /\ u \in Key /\ u # <<>>
                           /\ PrefixWith(u) \in Key /\ PrefixWith(u) # <<>>
                           /\ StartsWith(PrefixWith(u), Prefix)
    /\ \A k \in OutsideKeys : k \in Key /\ k # <<>> /\ ~StartsWith(k, Prefix)
    /\ \A u, v \in Key : PrefixWith(u) = PrefixWith(v) => u = v
<1>1. ASSUME NEW u \in UserKeys
      PROVE  /\ u \in Key /\ u # <<>>
             /\ PrefixWith(u) \in Key /\ PrefixWith(u) # <<>>
             /\ StartsWith(PrefixWith(u), Prefix)
  <2>1. u \in Key /\ u # <<>>
    BY UserKeysAssumption
  <2>2. /\ PrefixWith(u) \in Key /\ StartsWith(PrefixWith(u), Prefix)
        /\ Len(PrefixWith(u)) = Len(Prefix) + Len(u)
    BY <2>1, PrefixedIs
  <2>3. Len(PrefixWith(u)) # 0
    BY <2>1, <2>2, KeyIs, PrefixAssumption
  <2> QED
    BY <2>1, <2>2, <2>3, KeyIs
<1>2. ASSUME NEW u \in Key, NEW v \in Key, PrefixWith(u) = PrefixWith(v) PROVE u = v
  BY <1>2, StripOfPrefixed
<1> QED
  BY <1>1, <1>2, PrefixAssumption, OutsideAssumption

(* One key. *)
LEMMA ExactKey ==
    ASSUME NEW p \in Key, NEW by, by.by = "one"
    PROVE  Exact(Request(PrefixWith(p), <<>>), p, by)
<1>1. /\ Request(PrefixWith(p), <<>>).key = PrefixWith(p)
      /\ Request(PrefixWith(p), <<>>).range_end = <<>>
      /\ Zero # <<>> /\ StartsWith(PrefixWith(p), Prefix)
  BY ZeroIsKey, PrefixedIs DEF Request
<1>2. ASSUME NEW u \in UserKeys
      PROVE  InRequest(PrefixWith(u), Request(PrefixWith(p), <<>>)) <=> Asked(u, p, by)
  <2>1. InRequest(PrefixWith(u), Request(PrefixWith(p), <<>>)) <=> PrefixWith(u) = PrefixWith(p)
    BY <1>1 DEF InRequest
  <2>2. Asked(u, p, by) <=> u = p
    BY DEF Asked
  <2> QED
    BY <2>1, <2>2, UsersAndOthers
<1>3. ASSUME NEW k \in OutsideKeys PROVE ~InRequest(k, Request(PrefixWith(p), <<>>))
  BY <1>1, UsersAndOthers DEF InRequest
<1> QED
  BY <1>2, <1>3 DEF Exact

(* A range within the namespace. *)
LEMMA ExactRange ==
    ASSUME Prefix # <<>>, NEW p \in Key, NEW end \in Key, end # <<>>, NEW by,
           \A u \in UserKeys : Asked(u, p, by) <=> AtLeast(u, p) /\ Less(u, end)
    PROVE  Exact(Request(PrefixWith(p), PrefixWith(end)), p, by)
<1> DEFINE req == Request(PrefixWith(p), PrefixWith(end))
<1>0. PrefixWith(end) \notin {<<>>, Zero}
  <2>1. Len(Prefix) \in Nat \ {0} /\ Len(end) \in Nat \ {0}
    BY PrefixAssumption, KeyIs
  <2>2. Len(PrefixWith(end)) = Len(Prefix) + Len(end)
    BY PrefixedIs
  <2>3. Len(PrefixWith(end)) \notin {0, 1}
    BY <2>1, <2>2
  <2> QED
    BY <2>3, ZeroIsKey, KeyIs, PrefixedIs
<1>1. req.key = PrefixWith(p) /\ req.range_end = PrefixWith(end)
  BY DEF Request
<1> HIDE DEF req
<1>2. \A k : InRequest(k, req) <=> AtLeast(k, PrefixWith(p)) /\ Less(k, PrefixWith(end))
  BY <1>0, <1>1 DEF InRequest
<1>3. ASSUME NEW u \in UserKeys PROVE InRequest(PrefixWith(u), req) <=> Asked(u, p, by)
  <2>1. u \in Key
    BY UsersAndOthers
  <2> QED
    BY <1>2, <2>1, PrefixedOrder DEF AtLeast
<1>4. ASSUME NEW k \in OutsideKeys PROVE ~InRequest(k, req)
  BY <1>2, BetweenPrefixed, UsersAndOthers
<1>5. Exact(req, p, by)
  BY <1>3, <1>4 DEF Exact
<1> QED
  BY <1>5 DEF req

(* Everything from a key of the namespace on. *)
LEMMA ExactEdge ==
    ASSUME NoKeyAtTheEdge, Prefix # <<>>, NEW p \in Key, NEW low \in Key, NEW by,
           \A u \in UserKeys : Asked(u, p, by) <=> AtLeast(u, low)
    PROVE  Exact(Request(PrefixWith(low), PrefixRangeEndWith(Zero)), p, by)
<1> DEFINE edge == PrefixRangeEndWith(Zero)
<1> DEFINE req == Request(PrefixWith(low), edge)
<1>0. req.key = PrefixWith(low) /\ req.range_end = edge
  BY DEF Request
<1>1. edge # <<>>
  BY BelowTheEdge, ZeroIsKey
<1>2. ASSUME NEW u \in UserKeys PROVE InRequest(PrefixWith(u), req) <=> Asked(u, p, by)
  <2>1. u \in Key
    BY UsersAndOthers
  <2>2. AtLeast(PrefixWith(u), PrefixWith(low)) <=> AtLeast(u, low)
    BY <2>1, PrefixedOrder DEF AtLeast
  <2>3. edge # Zero => Less(PrefixWith(u), edge)
    BY <2>1, BelowTheEdge
  <2> HIDE DEF req, edge
  <2> QED
    BY <1>0, <1>1, <2>2, <2>3 DEF InRequest
<1>3. ASSUME NEW k \in OutsideKeys PROVE ~InRequest(k, req)
  <2>1. k \in Key /\ k # <<>> /\ ~StartsWith(k, Prefix) /\ Prefix \in Key
    BY UsersAndOthers
  <2>2. AtLeast(k, PrefixWith(low)) =>
           GetPrefix(Prefix) # Zero /\ AtLeast(k, GetPrefix(Prefix))
    BY <2>1, BelowTheNamespace, OnlyWithinPrefix DEF AtLeast
  <2>3. GetPrefix(Prefix) # Zero => edge # Zero
    <3>1. CASE \A i \in 1..Len(Prefix) : Prefix[i] = ByteMax
      BY <2>1, <3>1, PrefixWithoutEnd
    <3>2. CASE \E n \in 1..Len(Prefix) : Uncarried(Prefix, n)
      BY <3>2, EdgeIs
    <3> QED
      BY <2>1, <3>1, <3>2, UncarriedOrMax
  <2>4. AtLeast(k, GetPrefix(Prefix)) => AtLeast(k, edge)
    BY DEF NoKeyAtTheEdge
  <2> HIDE DEF req, edge
  <2> QED
    BY <1>0, <1>1, <2>2, <2>3, <2>4 DEF InRequest, AtLeast
<1> HIDE DEF req
<1>4. Exact(req, p, by)
  BY <1>2, <1>3 DEF Exact
<1> QED
  BY <1>4 DEF req

(* A client without a prefix has the keys to itself. *)
LEMMA WithoutPrefix ==
    ASSUME Prefix = <<>>
    PROVE  /\ \A k \in Key : PrefixWith(k) = k
           /\ \A end : PrefixRangeEndWith(end) = end
           /\ OutsideKeys = {}
<1>1. ASSUME NEW k \in Key PROVE PrefixWith(k) = k
  BY ConcatEmptySeq DEF PrefixWith, Key
<1>2. \A end : PrefixRangeEndWith(end) = end
  BY DEF PrefixRangeEndWith
<1>3. \A k \in OutsideKeys : StartsWith(k, <<>>)
  BY UsersAndOthers, ZeroIsLeast
<1> QED
  BY <1>1, <1>2, <1>3, UsersAndOthers

LEMMA ExactWithoutPrefix ==
    ASSUME Prefix = <<>>, NEW req, NEW p \in Key, NEW by,
           \A k \in Key \ {<<>>} : InRequest(k, req) <=> Asked(k, p, by)
    PROVE  Exact(req, p, by)
BY WithoutPrefix, UsersAndOthers DEF Exact

(* What a namespaced client asks for: only selectors that mean more than one  *)
(* key are used with the empty key, and no range ends with it.              *)
Admissible(p, by) ==
    /\ p \in UserKeys \cup {<<>>} /\ by \in Selector
    /\ p = <<>> => by.by \notin {"one", "range"}
    /\ by.by = "range" => by.end # <<>>

LEMMA AdmissibleIs ==
    ASSUME NEW p, NEW by, Admissible(p, by)
    PROVE  /\ p \in Key /\ by \in Selector
           /\ by.by \in {"one", "range", "from_key", "prefix", "all_keys"}
           /\ by.by = "range" => by.end \in Key /\ by.end # <<>>
           /\ First(p) \in Key /\ GetPrefix(p) \in Key
           /\ \A u \in UserKeys : AtLeast(u, First(p)) <=> AtLeast(u, p)
           /\ \A u \in UserKeys : AtLeast(u, Zero) /\ AtLeast(u, <<>>)
<1>1. p \in Key
  BY UsersAndOthers, ZeroIsKey DEF Admissible
<1>2. ASSUME NEW u \in UserKeys PROVE AtLeast(u, Zero) /\ AtLeast(u, <<>>)
  BY UsersAndOthers, ZeroIsLeast
<1> QED
  BY <1>1, <1>2, SelectorIs, EndOfPrefix, ZeroIsKey DEF Admissible, First

LEMMA EndlessPlain == PrefixRangeEndWith(<<>>) = <<>>
BY DEF PrefixRangeEndWith

LEMMA RangeEndPlain ==
    ASSUME Prefix # <<>>, NEW end, end \notin {<<>>, Zero}
    PROVE  PrefixRangeEndWith(end) = PrefixWith(end)
BY DEF PrefixRangeEndWith

(* A range [p, end), whose end may be the edge. *)
LEMMA ExactUpTo ==
    ASSUME NoKeyAtTheEdge, Prefix # <<>>, NEW p, NEW by, Admissible(p, by),
           NEW end \in Key, end # <<>>,
           \A u \in UserKeys :
              Asked(u, p, by) <=> AtLeast(u, p) /\ (end = Zero \/ Less(u, end))
    PROVE  Exact(Request(PrefixWith(p), PrefixRangeEndWith(end)), p, by)
<1>1. p \in Key
  BY AdmissibleIs
<1>2. CASE end = Zero
  BY <1>1, <1>2, ExactEdge
<1>3. CASE end # Zero
  BY <1>1, <1>3, ExactRange, RangeEndPlain
<1> QED
  BY <1>2, <1>3

(* PbTxnRequest::prefix_with, after build. *)
LEMMA ExactRequest ==
    ASSUME NoKeyAtTheEdge, NEW p, NEW by, Admissible(p, by)
    PROVE  Exact(PrefixedRequest(p, by), p, by)
<1>0. /\ p \in Key /\ by \in Selector
      /\ by.by \in {"one", "range", "from_key", "prefix", "all_keys"}
      /\ by.by = "range" => by.end \in Key /\ by.end # <<>>
      /\ First(p) \in Key /\ GetPrefix(p) \in Key
      /\ \A u \in UserKeys : AtLeast(u, First(p)) <=> AtLeast(u, p)
      /\ \A u \in UserKeys : AtLeast(u, Zero)
  BY AdmissibleIs
<1> DEFINE req == RevokeRequest(p, by)
<1>1. PrefixedRequest(p, by) = Request(PrefixWith(req.key), PrefixRangeEndWith(req.range_end))
  BY <1>0 DEF PrefixedRequest, RevokeRequest, Options
<1>2. CASE Prefix = <<>>
  <2>1. \A a, e : Request(a, e).key = a /\ Request(a, e).range_end = e
    BY DEF Request
  <2>2. req.key \in Key /\ req = Request(req.key, req.range_end)
    BY <1>0, <2>1, RequestOf, ZeroIsKey
  <2>3. PrefixedRequest(p, by) = req
    BY <1>1, <1>2, <2>2, WithoutPrefix
  <2>4. \A k \in Key \ {<<>>} : InRequest(k, req) <=> Asked(k, p, by)
    BY <1>0, RequestMatches
  <2> HIDE DEF req
  <2> QED
    BY <1>0, <1>2, <2>3, <2>4, ExactWithoutPrefix
<1>3. CASE Prefix # <<>> /\ by.by = "one"
  <2>1. req.key = p /\ req.range_end = <<>>
    BY <1>3, RequestOf DEF Request
  <2> QED
    BY <1>0, <1>1, <1>3, <2>1, EndlessPlain, ExactKey
<1>4. CASE Prefix # <<>> /\ by.by = "range"
  <2>1. req.key = p /\ req.range_end = by.end
    BY <1>4, RequestOf DEF Request
  <2>2. \A u \in UserKeys :
           Asked(u, p, by) <=> AtLeast(u, p) /\ (by.end = Zero \/ Less(u, by.end))
    BY <1>0, <1>4 DEF Asked
  <2> QED
    BY <1>0, <1>1, <1>4, <2>1, <2>2, ExactUpTo
<1>5. CASE Prefix # <<>> /\ by.by = "from_key"
  <2>1. req.key = First(p) /\ req.range_end = Zero
    BY <1>5, RequestOf DEF Request
  <2>2. \A u \in UserKeys : Asked(u, p, by) <=> AtLeast(u, First(p))
    BY <1>0, <1>5 DEF Asked
  <2> QED
    BY <1>0, <1>1, <1>5, <2>1, <2>2, ExactEdge
<1>6. CASE Prefix # <<>> /\ by.by = "all_keys"
  <2>1. req.key = Zero /\ req.range_end = Zero
    BY <1>6, RequestOf DEF Request
  <2>2. \A u \in UserKeys : Asked(u, p, by) <=> AtLeast(u, Zero)
    BY <1>0, <1>6 DEF Asked
  <2> QED
    BY <1>0, <1>1, <1>6, <2>1, <2>2, ExactEdge, ZeroIsKey
<1>7. CASE Prefix # <<>> /\ by.by = "prefix" /\ p = <<>>
  <2>1. req.key = Zero /\ req.range_end = Zero
    BY <1>7, RequestOf DEF Request, First
  <2>2. \A u \in UserKeys : Asked(u, p, by) <=> AtLeast(u, Zero)
    BY <1>0, <1>7, UsersAndOthers, ZeroIsLeast DEF Asked
  <2> QED
    BY <1>0, <1>1, <1>7, <2>1, <2>2, ExactEdge, ZeroIsKey
<1>8. CASE Prefix # <<>> /\ by.by = "prefix" /\ p # <<>>
  <2>1. req.key = p /\ req.range_end = GetPrefix(p)
    BY <1>8, RequestOf DEF Request, First
  <2>2. GetPrefix(p) # <<>>
    BY <1>0, EndOfPrefix
  <2>3. \A u \in UserKeys :
           Asked(u, p, by) <=> AtLeast(u, p) /\ (GetPrefix(p) = Zero \/ Less(u, GetPrefix(p)))
    BY <1>0, <1>8, PrefixIsARange, UsersAndOthers DEF Asked
  <2> QED
    BY <1>0, <1>1, <1>8, <2>1, <2>2, <2>3, ExactUpTo
<1> QED
  BY <1>0, <1>2, <1>3, <1>4, <1>5, <1>6, <1>7, <1>8

(* KvClientPrefix::get and delete, which prefix first: with the selectors     *)
(* whose range end is set before build.                                     *)
LEMMA ExactOptions ==
    ASSUME NoKeyAtTheEdge, NEW p, NEW by, Admissible(p, by),
           by.by \in {"one", "range", "prefix"}
    PROVE  Exact(PrefixedOptions(p, by), p, by)
<1>0. /\ p \in Key /\ by \in Selector
      /\ by.by = "range" => by.end \in Key /\ by.end # <<>>
      /\ PrefixWith(p) \in Key /\ StartsWith(PrefixWith(p), Prefix)
  BY AdmissibleIs, PrefixedIs
<1> DEFINE req == PrefixedOptions(p, by)
<1>1. /\ by.by = "one" => req = Request(PrefixWith(p), PrefixRangeEndWith(<<>>))
      /\ by.by = "range" => req = Request(PrefixWith(p), PrefixRangeEndWith(by.end))
      /\ by.by = "prefix" => req = Request(First(PrefixWith(p)),
                                IF PrefixWith(p) = <<>> THEN Zero ELSE GetPrefix(PrefixWith(p)))
  BY DEF PrefixedOptions, Options, NewRange, WithRange, WithPrefix, Select, WithKey, Build,
     Request, First
<1> HIDE DEF req
<1>2. CASE Prefix = <<>>
  <2>1. req = RevokeRequest(p, by)
    BY <1>0, <1>1, <1>2, RequestOf, WithoutPrefix DEF First
  <2>2. \A k \in Key \ {<<>>} : InRequest(k, req) <=> Asked(k, p, by)
    BY <1>0, <2>1, RequestMatches
  <2> QED
    BY <1>0, <1>2, <2>2, ExactWithoutPrefix DEF req
<1>3. CASE Prefix # <<>> /\ by.by = "one"
  BY <1>0, <1>1, <1>3, EndlessPlain, ExactKey DEF req
<1>4. CASE Prefix # <<>> /\ by.by = "range"
  <2>1. \A u \in UserKeys :
           Asked(u, p, by) <=> AtLeast(u, p) /\ (by.end = Zero \/ Less(u, by.end))
    BY <1>0, <1>4 DEF Asked
  <2> QED
    BY <1>0, <1>1, <1>4, <2>1, ExactUpTo DEF req
<1>5. CASE Prefix # <<>> /\ by.by = "prefix"
  <2> DEFINE pp == PrefixWith(p)
  <2>1. pp # <<>>
    BY <1>0, <1>5, KeyIs, PrefixAssumption DEF StartsWith
  <2>2. req.key = pp /\ req.range_end = GetPrefix(pp) /\ GetPrefix(pp) # <<>>
    BY <1>0, <1>1, <1>5, <2>1, EndOfPrefix DEF Request, First
  <2>3. \A k \in Key : InRequest(k, req) <=> StartsWith(k, pp)
    <3>1. \A k : InRequest(k, req)
                   <=> AtLeast(k, pp) /\ (GetPrefix(pp) = Zero \/ Less(k, GetPrefix(pp)))
      BY <2>2 DEF InRequest
    <3> QED
      BY <1>0, <3>1, PrefixIsARange
  <2>4. ASSUME NEW u \in UserKeys PROVE InRequest(PrefixWith(u), req) <=> Asked(u, p, by)
    <3>1. u \in Key /\ PrefixWith(u) \in Key
      BY UsersAndOthers
    <3>2. StartsWith(PrefixWith(u), pp) <=> StartsWith(u, p)
      BY <1>0, <3>1, PrefixedBeginning
    <3> QED
      BY <1>5, <2>3, <3>1, <3>2 DEF Asked
  <2>5. ASSUME NEW k \in OutsideKeys PROVE ~InRequest(k, req)
    <3>1. k \in Key /\ ~StartsWith(k, Prefix) /\ Prefix \in Key
      BY UsersAndOthers
    <3>2. StartsWith(k, pp) => StartsWith(k, Prefix)
      <4>1. /\ Len(pp) = Len(Prefix) + Len(p) /\ Len(Prefix) \in Nat /\ Len(p) \in Nat
            /\ Len(k) \in Nat
            /\ \A i \in 1..Len(Prefix) : pp[i] = Prefix[i]
        BY <1>0, <3>1, PrefixedIs, KeyIs
      <4> HIDE DEF pp
      <4> QED
        BY <4>1 DEF StartsWith
    <3> QED
      BY <2>3, <3>1, <3>2
  <2> QED
    BY <2>4, <2>5 DEF Exact, req
<1> QED
  BY <1>2, <1>3, <1>4, <1>5

(* ... and the prefixed comparison. *)
LEMMA ExactCompare ==
    ASSUME NoKeyAtTheEdge, NEW cmp, Admissible(cmp.key, cmp.by),
           cmp.by = One \/ cmp.by = [by |-> "prefix"]
    PROVE  Exact(PrefixedCompare(cmp), cmp.key, cmp.by)
<1> DEFINE p == cmp.key
<1> DEFINE by == cmp.by
<1>0. p \in Key /\ GetPrefix(p) \in Key /\ GetPrefix(p) # <<>> /\ PrefixWith(p) \in Key
  BY AdmissibleIs, EndOfPrefix, PrefixedIs
<1>1. CASE by = One
  <2>1. PrefixedCompare(cmp) = Request(PrefixWith(p), <<>>) /\ by.by = "one"
    BY <1>1, EndlessPlain DEF PrefixedCompare, One
  <2> HIDE DEF p, by
  <2>2. Exact(Request(PrefixWith(p), <<>>), p, by)
    BY <1>0, <2>1, ExactKey
  <2> QED
    BY <2>1, <2>2 DEF p, by
<1>2. CASE by = [by |-> "prefix"]
  <2>1. by # One /\ by.by = "prefix"
    BY <1>2 DEF One
  <2>2. PrefixedCompare(cmp) = Request(PrefixWith(p), PrefixRangeEndWith(GetPrefix(p)))
    BY <2>1 DEF PrefixedCompare
  <2> HIDE DEF p, by
  <2>3. \A k \in Key :
           Asked(k, p, by) <=> AtLeast(k, p) /\ (GetPrefix(p) = Zero \/ Less(k, GetPrefix(p)))
    BY <1>0, <2>1, PrefixIsARange DEF Asked
  <2>4. Admissible(p, by)
    BY DEF p, by
  <2>5. CASE Prefix # <<>>
    <3>1. \A u \in UserKeys : Asked(u, p, by)
             <=> AtLeast(u, p) /\ (GetPrefix(p) = Zero \/ Less(u, GetPrefix(p)))
      BY <2>3, UsersAndOthers
    <3>2. Exact(Request(PrefixWith(p), PrefixRangeEndWith(GetPrefix(p))), p, by)
      BY <1>0, <2>4, <2>5, <3>1, ExactUpTo
    <3> QED
      BY <2>2, <3>2 DEF p, by
  <2>6. CASE Prefix = <<>>
    <3>1. PrefixedCompare(cmp) = Request(p, GetPrefix(p))
      BY <1>0, <2>2, <2>6, WithoutPrefix
    <3>2. \A k : InRequest(k, Request(p, GetPrefix(p)))
                   <=> AtLeast(k, p) /\ (GetPrefix(p) = Zero \/ Less(k, GetPrefix(p)))
      BY <1>0 DEF InRequest, Request
    <3>3. \A k \in Key \ {<<>>} : InRequest(k, Request(p, GetPrefix(p))) <=> Asked(k, p, by)
      BY <2>3, <3>2
    <3>4. Exact(Request(p, GetPrefix(p)), p, by)
      BY <1>0, <2>6, <3>3, ExactWithoutPrefix
    <3> QED
      BY <3>1, <3>4 DEF p, by
  <2> QED
    BY <2>5, <2>6
<1> QED
  BY <1>1, <1>2

----------------------------------------------------------------------------
(* Namespace: the operations *)

Kinds == {"one", "range", "prefix", "from_key", "all_keys"}

(* One put, get or delete, wherever it stands. *)
Simple(op) ==
    \/ op.type = "put" /\ op.key \in UserKeys
    \/ op.type \in {"get", "delete"} /\ Admissible(op.key, op.by)

(* The comparison of a transaction. *)
Compared(cmp) == Admissible(cmp.key, cmp.by) /\ (cmp.by = One \/ cmp.by = [by |-> "prefix"])

LEMMA SelectionIs ==
    ASSUME NEW kinds, kinds \subseteq Kinds, NEW sel \in Selections(kinds)
    PROVE  /\ Admissible(sel.key, sel.by) /\ sel.by.by \in kinds
           /\ sel.by.by # "range" => sel.by = [by |-> sel.by.by]
<1>1. /\ sel.key \in UserKeys \cup {<<>>} /\ sel.by \in Selectors(kinds)
      /\ sel.key = <<>> => sel.by.by \notin {"one", "range"}
  BY DEF Selections
<1>2. UserKeys \cup {Zero} \subseteq Key \ {<<>>}
  BY UsersAndOthers, ZeroIsKey
<1>3. CASE \E kind1 \in kinds \ {"range"} : sel.by = [by |-> kind1]
  <2>1. PICK kind1 \in kinds \ {"range"} : sel.by = [by |-> kind1]
    BY <1>3
  <2>2. sel.by.by = kind1 /\ kind1 \in {"one", "prefix", "from_key", "all_keys"}
    BY <2>1 DEF Kinds
  <2>3. sel.by \in Selector
    BY <2>1, <2>2 DEF Selector
  <2> QED
    BY <1>1, <2>1, <2>2, <2>3 DEF Admissible
<1>4. CASE /\ "range" \in kinds
           /\ \E end \in UserKeys \cup {Zero} : sel.by = [by |-> "range", end |-> end]
  <2>1. PICK end \in UserKeys \cup {Zero} : sel.by = [by |-> "range", end |-> end]
    BY <1>4
  <2>2. sel.by.by = "range" /\ sel.by.end = end /\ end \in Key /\ end # <<>>
    BY <1>2, <2>1
  <2>3. sel.by \in Selector
    BY <2>1, <2>2 DEF Selector
  <2> QED
    BY <1>1, <1>4, <2>2, <2>3 DEF Admissible
<1> QED
  BY <1>1, <1>3, <1>4 DEF Selectors

LEMMA FindIs ==
    ASSUME NEW kinds, kinds \subseteq Kinds, NEW op \in Finds(kinds)
    PROVE  Simple(op)
<1>1. PICK type \in {"get", "delete"}, sel \in Selections(kinds) :
         op = [type |-> type, key |-> sel.key, by |-> sel.by]
  BY DEF Finds
<1>2. op.type \in {"get", "delete"} /\ op.key = sel.key /\ op.by = sel.by
  BY <1>1
<1>3. Admissible(sel.key, sel.by)
  BY SelectionIs
<1> QED
  BY <1>2, <1>3 DEF Simple

LEMMA PutIs == \A op \in Puts : Simple(op)
BY DEF Puts, Simple

LEMMA ComparedIs ==
    ASSUME NEW kinds, kinds \subseteq {"one", "prefix"}, NEW cmp \in Selections(kinds)
    PROVE  Compared(cmp)
<1>1. kinds \subseteq Kinds
  BY DEF Kinds
<1> QED
  BY <1>1, SelectionIs DEF Compared, One

LEMMA FlatIs ==
    ASSUME NEW txn \in Flat \cup Inner
    PROVE  txn.type = "txn" /\ Compared(txn.cmp) /\ Simple(txn.then) /\ Simple(txn.else)
<1>0. TxnBy \subseteq Kinds /\ NestedBy \subseteq Kinds /\ {"prefix"} \subseteq Kinds
  BY SelectorsAssumption DEF Kinds
<1>1. \/ /\ txn.cmp \in Selections({"one", "prefix"}) /\ txn.type = "txn"
         /\ txn.then \in Puts \cup Finds(TxnBy) /\ txn.else \in Puts \cup Finds({"prefix"})
      \/ /\ txn.cmp \in Selections({"prefix"}) /\ txn.type = "txn"
         /\ txn.then \in Puts \cup Finds(NestedBy) /\ txn.else \in Puts
  BY DEF Flat, Inner, Txns
<1>2. Compared(txn.cmp)
  <2>1. {"prefix"} \subseteq {"one", "prefix"}
    OBVIOUS
  <2> QED
    BY <1>1, <2>1, ComparedIs
<1>3. Simple(txn.then)
  BY <1>0, <1>1, FindIs, PutIs
<1>4. Simple(txn.else)
  BY <1>0, <1>1, FindIs, PutIs
<1> QED
  BY <1>1, <1>2, <1>3, <1>4

LEMMA TxnIs ==
    ASSUME NEW txn \in Flat \cup Nested
    PROVE  /\ txn.type = "txn" /\ Compared(txn.cmp) /\ txn \in Operations
           /\ Simple(txn.then) \/ txn.then \in Inner
           /\ Simple(txn.else) \/ txn.else \in Inner
<1>0. txn \in Operations
  BY DEF Operations
<1>1. CASE txn \in Flat
  BY <1>0, <1>1, FlatIs
<1>2. CASE txn \in Nested
  <2>1. /\ txn.cmp \in Selections({"one"}) /\ txn.type = "txn"
        /\ txn.then \in Inner \cup Puts /\ txn.else \in Inner \cup Puts
    BY <1>2 DEF Nested, Txns
  <2>2. {"one"} \subseteq {"one", "prefix"}
    OBVIOUS
  <2>3. Compared(txn.cmp)
    BY <2>1, <2>2, ComparedIs
  <2> QED
    BY <1>0, <2>1, <2>3, PutIs
<1> QED
  BY <1>1, <1>2

----------------------------------------------------------------------------
(* Namespace: type correctness *)

LEMMA StrippedKeys ==
    ASSUME NEW ks, ks \subseteq Key
    PROVE  Stripped(ks) \subseteq Key
<1>1. ASSUME NEW k \in ks PROVE StripKeyPrefix(k) \in Key
  <2>1. CASE StartsWith(k, Prefix)
    <3>1. PICK a \in Key : k = PrefixWith(a)
      BY <2>1, HasBeenPrefixed
    <3> QED
      BY <3>1, StripOfPrefixed
  <2>2. CASE ~StartsWith(k, Prefix)
    BY <2>2 DEF StripKeyPrefix
  <2> QED
    BY <2>1, <2>2
<1> QED
  BY <1>1 DEF Stripped

Stored == {PrefixWith(k) : k \in UserKeys} \cup OutsideKeys

LEMMA StoredAreKeys == Stored \subseteq Key
BY UsersAndOthers DEF Stored

LEMMA SimpleTypes ==
    ASSUME store \subseteq Stored, NEW op, Simple(op), RunOp(op)
    PROVE  store' \subseteq Stored /\ answer' \subseteq Key
<1>1. CASE op.type = "put"
  <2>1. op.key \in UserKeys
    BY <1>1 DEF Simple
  <2>2. PICK u \in UserKeys : u = op.key
    BY <2>1
  <2>3. RunPut(PrefixWith(u))
    BY <1>1, <2>2 DEF RunOp
  <2>4. store' \subseteq Stored
    BY <2>3 DEF RunPut, Stored
  <2>5. Stripped(store \cap {PrefixWith(u)}) \subseteq Key
    BY StoredAreKeys, StrippedKeys
  <2> QED
    BY <2>3, <2>4, <2>5 DEF RunPut
<1>2. CASE op.type # "put"
  <2>1. PICK req : RunGet(req) \/ RunDelete(req)
    BY <1>2 DEF RunOp
  <2>2. Found(req) \subseteq Key
    BY StoredAreKeys DEF Found
  <2>3. Stripped(Found(req)) \subseteq Key
    BY <2>2, StrippedKeys
  <2> QED
    BY <2>1, <2>3 DEF RunGet, RunDelete
<1> QED
  BY <1>1, <1>2

(* The store holds keys of the namespace and of others, and nothing else.    *)
THEOREM NamespaceTypeCorrect == Spec => []TypeOK
<1>1. Init => TypeOK
  BY DEF Init, TypeOK
<1>2. TypeOK /\ [Next]_vars => TypeOK'
  <2> SUFFICES ASSUME TypeOK, [Next]_vars PROVE TypeOK'
    OBVIOUS
  <2>0. store \subseteq Stored /\ answer \subseteq Key /\ last \in Operations \cup {Nothing}
    BY DEF TypeOK, Stored
  <2>s. (store' \subseteq Stored /\ answer' \subseteq Key /\ last' \in Operations \cup {Nothing}
           /\ actor' \in {"nobody", "namespace", "other"}) => TypeOK'
    BY DEF TypeOK, Stored
  <2>1. ASSUME NEW u \in UserKeys, Put(u) PROVE TypeOK'
    <3> DEFINE op == [type |-> "put", key |-> u]
    <3>1. op \in Puts
      BY DEF Puts
    <3>2. op \in Operations
      BY <3>1 DEF Operations
    <3>3. Simple(op) /\ RunOp(op)
      BY <2>1, <3>1, PutIs DEF Put, RunOp
    <3>4. last' = op /\ actor' = "namespace"
      BY <2>1 DEF Put, Done
    <3> HIDE DEF op
    <3>5. store' \subseteq Stored /\ answer' \subseteq Key
      BY <2>0, <3>3, SimpleTypes
    <3> QED
      BY <2>s, <3>2, <3>4, <3>5
  <2>2. ASSUME NEW sel \in Selections(GetBy), Get(sel.key, sel.by) \/ Delete(sel.key, sel.by)
        PROVE TypeOK'
    <3>1. PICK type \in {"get", "delete"} :
             last' = [type |-> type, key |-> sel.key, by |-> sel.by]
      BY <2>2 DEF Get, Delete, Done
    <3>2. last' \in Operations
      BY <3>1 DEF Finds, Operations
    <3>3. PICK req : RunGet(req) \/ RunDelete(req)
      BY <2>2 DEF Get, Delete
    <3>4. Stripped(Found(req)) \subseteq Key
      BY <2>0, StoredAreKeys, StrippedKeys DEF Found
    <3>5. store' \subseteq Stored /\ answer' \subseteq Key
      BY <2>0, <3>3, <3>4 DEF RunGet, RunDelete
    <3>6. actor' = "namespace"
      BY <2>2 DEF Get, Delete, Done
    <3> QED
      BY <2>s, <3>2, <3>5, <3>6
  <2>3. ASSUME NEW txn \in Flat \cup Nested, Txn(txn) PROVE TypeOK'
    <3>1. PICK branch : branch = Branch(txn)
      OBVIOUS
    <3>2. Simple(branch) \/ branch \in Inner
      BY <3>1, TxnIs DEF Branch
    <3>3. PICK op : RunOp(op) /\ op = IF branch.type = "txn" THEN Branch(branch) ELSE branch
      BY <2>3, <3>1 DEF Txn
    <3>4. CASE branch \in Inner
      <4>1. branch.type = "txn" /\ Simple(branch.then) /\ Simple(branch.else)
        BY <3>4, FlatIs
      <4>2. Simple(op)
        BY <3>3, <4>1 DEF Branch
      <4> QED
        BY <2>0, <2>3, <2>s, <3>3, <4>2, SimpleTypes, TxnIs DEF Txn, Done
    <3>5. CASE Simple(branch)
      <4>1. op = branch
        BY <3>3, <3>5 DEF Simple
      <4> QED
        BY <2>0, <2>3, <2>s, <3>3, <3>5, <4>1, SimpleTypes, TxnIs DEF Txn, Done
    <3> QED
      BY <3>2, <3>4, <3>5
  <2>4. ASSUME NEW attached \in SUBSET store, TimeToLive(attached) PROVE TypeOK'
    <3>1. attached \subseteq Key
      BY <2>0, StoredAreKeys
    <3>2. Stripped(attached) \subseteq Key
      BY <3>1, StrippedKeys
    <3>3. last' \in Leases
      <4>1. \A u \in UserKeys : StartsWith(PrefixWith(u), Prefix)
        BY UsersAndOthers
      <4>2. {k \in attached : ~StartsWith(k, Prefix)} \subseteq OutsideKeys
        BY <2>0, <4>1 DEF Stored
      <4> QED
        BY <2>4, <4>2 DEF TimeToLive, Done, Leases
    <3> QED
      BY <2>0, <2>4, <2>s, <3>2, <3>3 DEF TimeToLive, Done, Operations
  <2>5. CASE Seen
    BY <2>0, <2>5 DEF Seen, TypeOK
  <2>6. ASSUME NEW k \in OutsideKeys, Other(k) PROVE TypeOK'
    <3>1. store' \subseteq Stored
      BY <2>0, <2>6 DEF Other, Stored
    <3> QED
      BY <2>0, <2>6, <2>s, <3>1 DEF Other
  <2>7. CASE UNCHANGED vars
    BY <2>7 DEF vars, TypeOK
  <2> QED
    BY <2>1, <2>2, <2>3, <2>4, <2>5, <2>6, <2>7 DEF Next
<1> QED
  BY <1>1, <1>2, PTL DEF Spec

----------------------------------------------------------------------------
(* Namespace: what the operations do to the keys within and outside *)

(* The client's own keys, and the keys of the others. *)
Mine == {u \in UserKeys : PrefixWith(u) \in store}
Others == {k \in store : ~StartsWith(k, Prefix)}

LEMMA WithinAndOutside ==
    ASSUME store \subseteq Stored
    PROVE  /\ Inside = {PrefixWith(u) : u \in Mine} /\ Stripped(Inside) = Mine
           /\ store \ Inside = Others /\ Others \subseteq OutsideKeys
<1>1. ASSUME NEW k \in store
      PROVE  \/ \E u \in Mine : k = PrefixWith(u) /\ StartsWith(k, Prefix)
             \/ k \in OutsideKeys /\ ~StartsWith(k, Prefix)
  BY UsersAndOthers DEF Stored, Mine
<1>2. \A u \in Mine : PrefixWith(u) \in store /\ StartsWith(PrefixWith(u), Prefix) /\ u \in Key
  BY UsersAndOthers DEF Mine
<1>3. Inside = {PrefixWith(u) : u \in Mine}
  BY <1>1, <1>2 DEF Inside
<1>4. \A u \in Mine : StripKeyPrefix(PrefixWith(u)) = u
  BY <1>2, StripOfPrefixed
<1>5. Stripped({PrefixWith(u) : u \in Mine}) = Mine
  BY <1>4 DEF Stripped
<1> QED
  BY <1>1, <1>3, <1>5 DEF Inside, Others

LEMMA WithinAndOutsideNext ==
    store' \subseteq Stored =>
        /\ Stripped(Inside)' = Mine' /\ (store \ Inside)' = Others'
<1>1. store \subseteq Stored => Stripped(Inside) = Mine /\ store \ Inside = Others
  BY WithinAndOutside
<1>2. (store \subseteq Stored)' => (Stripped(Inside) = Mine /\ store \ Inside = Others)'
  BY <1>1, PTL
<1>3. Stored' = Stored
  BY DEF Stored
<1> QED
  BY <1>2, <1>3

(* What an exact request finds. *)
Picked(p, by) == {u \in Mine : Asked(u, p, by)}

LEMMA FoundIs ==
    ASSUME store \subseteq Stored, NEW req, NEW p, NEW by, Exact(req, p, by)
    PROVE  /\ Found(req) = {PrefixWith(u) : u \in Picked(p, by)}
           /\ Stripped(Found(req)) = Picked(p, by)
<1>1. ASSUME NEW k \in Found(req) PROVE \E u \in Picked(p, by) : k = PrefixWith(u)
  <2>1. k \in store /\ InRequest(k, req)
    BY DEF Found
  <2>2. PICK u \in UserKeys : k = PrefixWith(u)
    BY <2>1 DEF Exact, Stored
  <2>3. Asked(u, p, by) /\ u \in Mine
    BY <2>1, <2>2 DEF Exact, Mine
  <2> QED
    BY <2>2, <2>3 DEF Picked
<1>2. ASSUME NEW u \in Picked(p, by)
      PROVE  PrefixWith(u) \in Found(req) /\ StripKeyPrefix(PrefixWith(u)) = u
  <2>1. u \in UserKeys /\ PrefixWith(u) \in store /\ Asked(u, p, by)
    BY DEF Picked, Mine
  <2>2. StripKeyPrefix(PrefixWith(u)) = u
    BY <2>1, UsersAndOthers, StripOfPrefixed
  <2> QED
    BY <2>1, <2>2 DEF Found, Exact
<1>3. Found(req) = {PrefixWith(u) : u \in Picked(p, by)}
  BY <1>1, <1>2
<1>4. Stripped(Found(req)) = Picked(p, by)
  BY <1>2, <1>3 DEF Stripped
<1> QED
  BY <1>3, <1>4

LEMMA PutRuns ==
    ASSUME store \subseteq Stored, NEW u \in UserKeys, RunPut(PrefixWith(u))
    PROVE  Mine' = Mine \cup {u} /\ Others' = Others /\ answer' = Mine \cap {u}
<1>1. /\ store' = store \cup {PrefixWith(u)} /\ u \in Key /\ StartsWith(PrefixWith(u), Prefix)
      /\ StripKeyPrefix(PrefixWith(u)) = u
  BY UsersAndOthers, StripOfPrefixed DEF RunPut
<1>2. Mine' = {v \in UserKeys : PrefixWith(v) \in store'}
  BY DEF Mine
<1>3. \A v \in UserKeys : PrefixWith(v) \in store' <=> PrefixWith(v) \in store \/ v = u
  BY <1>1, UsersAndOthers
<1>4. Mine' = Mine \cup {u}
  BY <1>2, <1>3 DEF Mine
<1>5. Others' = Others
  BY <1>1 DEF Others
<1>6. answer' = Mine \cap {u}
  <2>1. answer' = {StripKeyPrefix(k) : k \in store \cap {PrefixWith(u)}}
    BY DEF RunPut, Stripped
  <2>2. CASE PrefixWith(u) \in store
    <3>1. store \cap {PrefixWith(u)} = {PrefixWith(u)} /\ u \in Mine
      BY <2>2 DEF Mine
    <3> QED
      BY <1>1, <2>1, <3>1
  <2>3. CASE PrefixWith(u) \notin store
    <3>1. store \cap {PrefixWith(u)} = {} /\ u \notin Mine
      BY <2>3 DEF Mine
    <3> QED
      BY <2>1, <3>1
  <2> QED
    BY <2>2, <2>3
<1> QED
  BY <1>4, <1>5, <1>6

LEMMA GetRuns ==
    ASSUME store \subseteq Stored, NEW req, NEW p, NEW by, Exact(req, p, by), RunGet(req)
    PROVE  Mine' = Mine /\ Others' = Others /\ answer' = Picked(p, by)
<1>1. store' = store /\ answer' = Picked(p, by)
  BY FoundIs DEF RunGet
<1> QED
  BY <1>1 DEF Mine, Others

LEMMA DeleteRuns ==
    ASSUME store \subseteq Stored, NEW req, NEW p, NEW by, Exact(req, p, by), RunDelete(req)
    PROVE  Mine' = Mine \ Picked(p, by) /\ Others' = Others /\ answer' = Picked(p, by)
<1>1. /\ Found(req) = {PrefixWith(u) : u \in Picked(p, by)}
      /\ store' = store \ Found(req) /\ answer' = Picked(p, by)
  BY FoundIs DEF RunDelete
<1>2. \A u \in Picked(p, by) : u \in UserKeys /\ u \in Key /\ StartsWith(PrefixWith(u), Prefix)
  BY UsersAndOthers DEF Picked, Mine
<1>3. \A v \in UserKeys : PrefixWith(v) \in Found(req) <=> v \in Picked(p, by)
  BY <1>1, <1>2, UsersAndOthers
<1>4. Mine' = {v \in UserKeys : PrefixWith(v) \in store'}
  BY DEF Mine
<1>5. Mine' = Mine \ Picked(p, by)
  BY <1>1, <1>3, <1>4 DEF Mine
<1>6. \A k \in Found(req) : StartsWith(k, Prefix)
  BY <1>1, <1>2
<1>7. Others' = {k \in store' : ~StartsWith(k, Prefix)}
  BY DEF Others
<1>8. Others' = Others
  BY <1>1, <1>6, <1>7 DEF Others
<1> QED
  BY <1>1, <1>5, <1>8

----------------------------------------------------------------------------
(* Namespace: the refinement *)

LEMMA SelectedIs ==
    ASSUME store \subseteq Stored, NEW p, NEW by
    PROVE  Own!Selected(p, by) = Picked(p, by)
<1>1. \A u : Own!Asked(u, p, by) <=> Asked(u, p, by)
  BY DEF Own!Asked, Asked, Own!AtLeast, AtLeast, Own!Less, Less, Own!StartsWith, StartsWith,
     Own!Zero, Zero
<1>2. Stripped(Inside) = Mine
  BY WithinAndOutside
<1> QED
  BY <1>1, <1>2 DEF Own!Selected, Picked

(* One operation does to the client's keys what it does to a store of its     *)
(* own, and nothing to the others.                                          *)
LEMMA SimpleRuns ==
    ASSUME store \subseteq Stored, NoKeyAtTheEdge, NEW op, Simple(op), RunOp(op)
    PROVE  Mine' = Own!After(op) /\ answer' = Own!Answer(op) /\ Others' = Others
<1>0. Stripped(Inside) = Mine
  BY WithinAndOutside
<1>1. CASE op.type = "put"
  <2>1. PICK u \in UserKeys : u = op.key
    BY <1>1 DEF Simple
  <2>2. RunPut(PrefixWith(u))
    BY <1>1, <2>1 DEF RunOp
  <2>3. Mine' = Mine \cup {u} /\ Others' = Others /\ answer' = Mine \cap {u}
    BY <2>2, PutRuns
  <2> QED
    BY <1>0, <1>1, <2>1, <2>3 DEF Own!After, Own!Answer
<1>2. CASE op.type \in {"get", "delete"}
  <2>1. PICK p, by : p = op.key /\ by = op.by
    OBVIOUS
  <2>2. Admissible(p, by)
    BY <1>2, <2>1 DEF Simple
  <2>3. Exact(PrefixedRequest(p, by), p, by)
    BY <2>2, ExactRequest
  <2>4. PICK req : req = PrefixedRequest(p, by)
    OBVIOUS
  <2>5. Own!Selected(p, by) = Picked(p, by)
    BY SelectedIs
  <2>6. CASE op.type = "get"
    <3>1. RunGet(req)
      BY <2>1, <2>4, <2>6 DEF RunOp
    <3>2. Mine' = Mine /\ Others' = Others /\ answer' = Picked(p, by)
      BY <2>3, <2>4, <3>1, GetRuns
    <3> QED
      BY <1>0, <2>1, <2>5, <2>6, <3>2 DEF Own!After, Own!Answer
  <2>7. CASE op.type = "delete"
    <3>1. RunDelete(req)
      BY <2>1, <2>4, <2>7 DEF RunOp
    <3>2. Mine' = Mine \ Picked(p, by) /\ Others' = Others /\ answer' = Picked(p, by)
      BY <2>3, <2>4, <3>1, DeleteRuns
    <3> QED
      BY <1>0, <2>1, <2>5, <2>7, <3>2 DEF Own!After, Own!Answer
  <2> QED
    BY <1>2, <2>6, <2>7
<1> QED
  BY <1>1, <1>2 DEF Simple

LEMMA BranchIs ==
    ASSUME store \subseteq Stored, NoKeyAtTheEdge, NEW txn, Compared(txn.cmp)
    PROVE  Branch(txn) = Own!Branch(txn)
<1>1. PICK cmp : cmp = txn.cmp
  OBVIOUS
<1>2. Exact(PrefixedCompare(cmp), cmp.key, cmp.by)
  BY <1>1, ExactCompare DEF Compared
<1>3. PICK req, p, by : req = PrefixedCompare(cmp) /\ p = cmp.key /\ by = cmp.by
  OBVIOUS
<1>4. Found(req) = {PrefixWith(u) : u \in Picked(p, by)}
  BY <1>2, <1>3, FoundIs
<1>5. Own!Selected(p, by) = Picked(p, by)
  BY SelectedIs
<1>6. Found(req) # {} <=> Own!Selected(p, by) # {}
  BY <1>4, <1>5
<1> QED
  BY <1>1, <1>3, <1>6 DEF Branch, Own!Branch

LEMMA TxnRuns ==
    ASSUME store \subseteq Stored, NoKeyAtTheEdge, NEW txn \in Flat \cup Nested, Txn(txn)
    PROVE  /\ Mine' = Own!After(Own!Chosen(txn)) /\ answer' = Own!Answer(Own!Chosen(txn))
           /\ Others' = Others
<1>1. PICK branch : branch = Branch(txn)
  OBVIOUS
<1>2. /\ txn.type = "txn" /\ branch = Own!Branch(txn)
      /\ Simple(branch) \/ branch \in Inner
  <2>1. Compared(txn.cmp)
    BY TxnIs
  <2>2. Branch(txn) = Own!Branch(txn)
    BY <2>1, BranchIs
  <2> QED
    BY <1>1, <2>2, TxnIs DEF Branch
<1>3. CASE Simple(branch)
  <2>1. branch.type # "txn"
    BY <1>3 DEF Simple
  <2>2. RunOp(branch)
    BY <1>1, <2>1 DEF Txn
  <2>3. Own!Chosen(txn) = branch
    BY <1>2, <2>1 DEF Own!Chosen
  <2>4. Mine' = Own!After(branch) /\ answer' = Own!Answer(branch) /\ Others' = Others
    BY <1>3, <2>2, SimpleRuns
  <2> QED
    BY <2>3, <2>4
<1>4. CASE branch \in Inner
  <2>1. branch.type = "txn" /\ Compared(branch.cmp) /\ Simple(branch.then) /\ Simple(branch.else)
    BY <1>4, FlatIs
  <2>2. PICK op : op = Branch(branch)
    OBVIOUS
  <2>3. RunOp(op) /\ Simple(op)
    BY <1>1, <2>1, <2>2 DEF Txn, Branch
  <2>4. op = Own!Branch(branch)
    BY <2>1, <2>2, BranchIs
  <2>5. Own!Chosen(txn) = op
    BY <1>2, <2>1, <2>4 DEF Own!Chosen
  <2>6. Mine' = Own!After(op) /\ answer' = Own!Answer(op) /\ Others' = Others
    BY <2>3, SimpleRuns
  <2> QED
    BY <2>5, <2>6
<1> QED
  BY <1>2, <1>3, <1>4

LEMMA NamespaceStep ==
    ASSUME Confined, TypeOK, TypeOK', [Next]_vars
    PROVE  /\ [Own!Next]_<<Stripped(Inside), last, answer>>
           /\ actor' = "namespace" => (store \ Inside)' = store \ Inside
<1>0. /\ store \subseteq Stored /\ store' \subseteq Stored /\ NoKeyAtTheEdge
      /\ Stripped(Inside) = Mine /\ store \ Inside = Others
      /\ Stripped(Inside)' = Mine' /\ (store \ Inside)' = Others'
  <2>1. store \subseteq Stored /\ store' \subseteq Stored
    BY DEF TypeOK, Stored
  <2> QED
    BY <2>1, WithinAndOutside, WithinAndOutsideNext DEF Confined
<1>a. ASSUME last = Nothing, NEW op \in Operations, last' = op, op.type # "time_to_live",
             Mine' = Own!After(Own!Chosen(op)), answer' = Own!Answer(Own!Chosen(op))
      PROVE  Own!Next
  <2>1. Own!Do(op)
    BY <1>0, <1>a DEF Own!Do, Own!Nothing, Nothing
  <2> QED
    BY <1>a, <2>1 DEF Own!Next
<1>1. ASSUME last = Nothing, NEW u \in UserKeys, Put(u)
      PROVE  Own!Next /\ Others' = Others
  <2> DEFINE op == [type |-> "put", key |-> u]
  <2>1. op \in Operations /\ op.type = "put" /\ op.key = u
    BY DEF Operations, Puts
  <2>2. RunPut(PrefixWith(u)) /\ last' = op
    BY <1>1 DEF Put, Done
  <2> HIDE DEF op
  <2>3. Mine' = Mine \cup {u} /\ Others' = Others /\ answer' = Mine \cap {u}
    BY <1>0, <2>2, PutRuns
  <2>4. /\ Own!Chosen(op) = op
        /\ Own!After(op) = Mine \cup {u} /\ Own!Answer(op) = Mine \cap {u}
    BY <1>0, <2>1 DEF Own!Chosen, Own!After, Own!Answer
  <2> QED
    BY <1>1, <1>a, <2>1, <2>2, <2>3, <2>4
<1>2. ASSUME last = Nothing, NEW sel \in Selections(GetBy),
             Get(sel.key, sel.by) \/ Delete(sel.key, sel.by)
      PROVE  Own!Next /\ Others' = Others
  <2>1. PICK p, by, req : p = sel.key /\ by = sel.by /\ req = PrefixedOptions(p, by)
    OBVIOUS
  <2>2. GetBy \subseteq Kinds
    BY DEF Confined, Kinds
  <2>3. Admissible(p, by) /\ by.by \in {"one", "range", "prefix"}
    BY <2>1, <2>2, SelectionIs DEF Confined
  <2>4. Exact(req, p, by)
    BY <1>0, <2>1, <2>3, ExactOptions
  <2>5. Own!Selected(p, by) = Picked(p, by)
    BY <1>0, SelectedIs
  <2>6. CASE Get(sel.key, sel.by)
    <3> DEFINE op == [type |-> "get", key |-> p, by |-> by]
    <3>1. op \in Operations /\ op.type = "get" /\ op.key = p /\ op.by = by
      BY <2>1 DEF Operations, Finds
    <3>2. RunGet(req) /\ last' = op
      BY <2>1, <2>6 DEF Get, Done
    <3> HIDE DEF op
    <3>3. Mine' = Mine /\ Others' = Others /\ answer' = Picked(p, by)
      BY <1>0, <2>4, <3>2, GetRuns
    <3>4. /\ Own!Chosen(op) = op
          /\ Own!After(op) = Mine /\ Own!Answer(op) = Picked(p, by)
      BY <1>0, <2>5, <3>1 DEF Own!Chosen, Own!After, Own!Answer
    <3> QED
      BY <1>2, <1>a, <3>1, <3>2, <3>3, <3>4
  <2>7. CASE Delete(sel.key, sel.by)
    <3> DEFINE op == [type |-> "delete", key |-> p, by |-> by]
    <3>1. op \in Operations /\ op.type = "delete" /\ op.key = p /\ op.by = by
      BY <2>1 DEF Operations, Finds
    <3>2. RunDelete(req) /\ last' = op
      BY <2>1, <2>7 DEF Delete, Done
    <3> HIDE DEF op
    <3>3. Mine' = Mine \ Picked(p, by) /\ Others' = Others /\ answer' = Picked(p, by)
      BY <1>0, <2>4, <3>2, DeleteRuns
    <3>4. /\ Own!Chosen(op) = op
          /\ Own!After(op) = Mine \ Picked(p, by) /\ Own!Answer(op) = Picked(p, by)
      BY <1>0, <2>5, <3>1 DEF Own!Chosen, Own!After, Own!Answer
    <3> QED
      BY <1>2, <1>a, <3>1, <3>2, <3>3, <3>4
  <2> QED
    BY <1>2, <2>6, <2>7
<1>3. ASSUME last = Nothing, NEW txn \in Flat \cup Nested, Txn(txn)
      PROVE  Own!Next /\ Others' = Others
  <2>1. /\ Mine' = Own!After(Own!Chosen(txn)) /\ answer' = Own!Answer(Own!Chosen(txn))
        /\ Others' = Others
    BY <1>0, <1>3, TxnRuns
  <2>2. txn \in Operations /\ txn.type = "txn" /\ last' = txn
    BY <1>3, TxnIs DEF Txn, Done
  <2> QED
    BY <1>3, <1>a, <2>1, <2>2
<1>4. ASSUME last = Nothing, NEW attached \in SUBSET store, TimeToLive(attached)
      PROVE  Own!Next /\ Others' = Others
  <2> DEFINE shown == {u \in UserKeys : PrefixWith(u) \in attached}
  <2> DEFINE foreign == {k \in attached : ~StartsWith(k, Prefix)}
  <2> DEFINE op == [type |-> "time_to_live", keys |-> shown, others |-> foreign]
  <2>1. op.type = "time_to_live" /\ op.keys = shown /\ op.others = foreign
    OBVIOUS
  <2>2. last' = op /\ store' = store /\ answer' = Stripped(attached)
    BY <1>4 DEF TimeToLive, Done
  <2>3. shown \subseteq Mine
    BY DEF Mine
  <2>4. Stripped(attached) = shown \cup foreign
    <3>1. \A u \in UserKeys :
            StartsWith(PrefixWith(u), Prefix) /\ StripKeyPrefix(PrefixWith(u)) = u
      BY UsersAndOthers, StripOfPrefixed
    <3>2. \A k \in foreign : StripKeyPrefix(k) = k
      BY DEF StripKeyPrefix
    <3>3. \A k \in attached : k \in foreign \/ \E u \in shown : k = PrefixWith(u)
      BY <1>0, UsersAndOthers DEF Stored
    <3> QED
      BY <3>1, <3>2, <3>3 DEF Stripped
  <2>o. op \in Operations
    <3>1. foreign \subseteq OutsideKeys
      BY <1>0, UsersAndOthers DEF Stored
    <3> QED
      BY <3>1 DEF Operations, Leases
  <2> HIDE DEF op, shown, foreign
  <2>5. Mine' = Mine /\ Others' = Others
    BY <2>2 DEF Mine, Others
  <2>6. Own!Chosen(op) = op /\ Own!After(op) = Mine /\ Own!Answer(op) = shown \cup foreign
    BY <1>0, <2>1 DEF Own!Chosen, Own!After, Own!Answer
  <2>7. Own!Do(op)
    BY <1>0, <1>4, <2>1, <2>o, <2>2, <2>3, <2>4, <2>5, <2>6 DEF Own!Do, Own!Nothing, Nothing
  <2> QED
    BY <2>2, <2>5, <2>7 DEF Own!Next
<1>5. ASSUME Seen
      PROVE  Own!Next /\ Others' = Others
  <2>1. Mine' = Mine /\ Others' = Others
    BY <1>5 DEF Seen, Mine, Others
  <2>2. Own!Seen
    BY <1>0, <1>5, <2>1 DEF Seen, Own!Seen, Own!Nothing, Nothing
  <2> QED
    BY <2>1, <2>2 DEF Own!Next
<1>6. ASSUME NEW k \in OutsideKeys, Other(k)
      PROVE  UNCHANGED <<Stripped(Inside), last, answer>> /\ actor' # "namespace"
  <2>1. Mine' = {u \in UserKeys : PrefixWith(u) \in store'}
    BY DEF Mine
  <2>2. \A u \in UserKeys : PrefixWith(u) # k
    BY UsersAndOthers
  <2>3. Mine' = Mine
    BY <1>6, <2>1, <2>2 DEF Mine, Other
  <2> QED
    BY <1>0, <1>6, <2>3 DEF Other
<1>7. CASE UNCHANGED vars
  <2>1. Mine' = Mine /\ Others' = Others
    BY <1>7 DEF vars, Mine, Others
  <2> QED
    BY <1>0, <1>7, <2>1 DEF vars
<1> QED
  BY <1>0, <1>1, <1>2, <1>3, <1>4, <1>5, <1>6, <1>7 DEF Next

(* A client with a prefix has a key-value store of its own: with the prefix   *)
(* taken off, every operation finds, replaces and deletes exactly what it     *)
(* asks for.  A look at a lease shows the keys of the namespace attached to   *)
(* it without the prefix, and those of others as they are.                   *)
THEOREM NamespaceIsAStore == Confined => (Spec => ImplementsKvStore)
<1> SUFFICES ASSUME Confined PROVE Spec => ImplementsKvStore
  OBVIOUS
<1>1. Init => Own!Init
  BY DEF Init, Own!Init, Own!Nothing, Nothing, Inside, Stripped
<1>2. TypeOK /\ TypeOK' /\ [Next]_vars => [Own!Next]_<<Stripped(Inside), last, answer>>
  BY NamespaceStep
<1> QED
  BY <1>1, <1>2, NamespaceTypeCorrect, PTL DEF Spec, ImplementsKvStore, Own!Spec, Own!vars

(* No operation of a client with a prefix changes a key outside. *)
THEOREM OthersAreUntouched == Confined => (Spec => OutsideUntouched)
<1> SUFFICES ASSUME Confined PROVE Spec => OutsideUntouched
  OBVIOUS
<1>1. TypeOK /\ TypeOK' /\ [Next]_vars
        => [actor' = "namespace" => store' \ Inside' = store \ Inside]_vars
  BY NamespaceStep
<1> QED
  BY <1>1, NamespaceTypeCorrect, PTL DEF Spec, OutsideUntouched
============================================================================
