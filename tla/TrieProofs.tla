----------------------------- MODULE TrieProofs -----------------------------
(***************************************************************************)
(* Proofs about Trie, for any characters, keys and sizes of the arrays.    *)
(* Until a node strays the arrays are a double array at every step         *)
(* (Sound), so a path goes from parent to child and back.  What a move, an *)
(* expansion or a new leaf does to the nodes is said by a map of their     *)
(* names (Embeds); a path is mapped with its nodes, so no search changes   *)
(* but the one that is asked for.                                          *)
(***************************************************************************)
EXTENDS Trie, Induction, SequenceTheorems

-----------------------------------------------------------------------------
(* Characters *)

Char == 0 .. CharMax

LEMMA Chars ==
  /\ CharMax \in Nat
  /\ \A c \in Char : c \in Nat /\ c <= CharMax
<1>1. CharMax \in Nat
  BY TrieAssumption
<1> QED
  BY <1>1 DEF Char

LEMMA Letters ==
  ASSUME NEW k \in Key
  PROVE  /\ k \in Seq(Char) /\ Len(k) \in Nat
         /\ \A n \in 1 .. Len(k) : k[n] \in Char
<1>1. k \in Seq(Char)
  BY TrieAssumption DEF Char
<1> QED
  BY <1>1

\* What the iteration of a plain list gives is what has been added to it.
LEMMA ListIs ==
  ASSUME NEW list, Plain(list)
  PROVE  CharList_All(list) = Range(list)
  BY DEF Plain, CharList_All

\* The characters of a list.
LEMMA ListHas ==
  ASSUME NEW list \in Seq(Char)
  PROVE  Range(list) \in SUBSET Char
<1>1. \A n \in DOMAIN list : list[n] \in Char
  OBVIOUS
<1> QED
  BY <1>1 DEF Range

\* However a character comes back, it is not far below 0.
LEMMA SignedIs ==
  \E h \in Nat : /\ 2 * h <= CharMax + 1
                 /\ \A c \in Char : Signed(c) \in Int /\ Signed(c) >= - h /\ Signed(c) <= CharMax
<1>1. CharMax \in Nat
  BY Chars
<1>2. PICK h \in Nat : 2 * h = CharMax \/ 2 * h = CharMax + 1
  <2>1. (CharMax + 1) \div 2 \in Nat
    BY <1>1
  <2>2. 2 * ((CharMax + 1) \div 2) = CharMax \/ 2 * ((CharMax + 1) \div 2) = CharMax + 1
    BY <1>1
  <2> QED
    BY <2>1, <2>2
<1>3. ASSUME NEW c \in Char
      PROVE  Signed(c) \in Int /\ Signed(c) >= - h /\ Signed(c) <= CharMax
  <2>1. c \in Nat /\ c <= CharMax
    BY Chars
  <2>2. CASE 2 * c > CharMax
    <3>1. Signed(c) = c - (CharMax + 1)
      BY <2>2 DEF Signed
    <3> QED
      BY <1>1, <1>2, <2>1, <2>2, <3>1
  <2>3. CASE ~(2 * c > CharMax)
    BY <1>1, <1>2, <2>1, <2>3 DEF Signed
  <2> QED
    BY <2>2, <2>3
<1> QED
  BY <1>1, <1>2, <1>3

-----------------------------------------------------------------------------
(* The arrays *)

Index(N) == 0 .. (N - 1)
Struct(B, K, C, R, N) == [base |-> B, check |-> K, children |-> C, record |-> R, size |-> N]

\* The arrays B (base), K (check), C (children) and R (record) have N elements.
Typed(B, K, C, R, N) ==
  /\ N \in Nat /\ 2 * N > 3 * (CharMax + 1)
  /\ B \in [Index(N) -> Nat] /\ K \in [Index(N) -> Index(N)]
  /\ C \in [Index(N) -> Seq(Char)] /\ R \in [Index(N) -> Record \cup {Null}]
  /\ \A i \in Index(N) : B[i] + CharMax < N

\* They are a double array: check and children agree, and what is no node is blank.
Double(B, K, C, R, N) ==
  /\ K[0] = 0 /\ K[Root] = 0
  /\ \A i \in Index(N) : \A c \in Range(C[i]) : B[i] >= 1 /\ K[B[i] + c] = i
  /\ \A j \in Index(N) : K[j] # 0 =>
       /\ K[j] = Root \/ K[K[j]] # 0
       /\ \E c \in Range(C[K[j]]) : j = B[K[j]] + c
       /\ K[j] # j
  /\ \A i \in Index(N) : IsInjective(C[i])
  /\ \A i \in Index(N) : K[i] = 0 /\ i # Root => B[i] = 0 /\ C[i] = <<>> /\ R[i] = Null

Sound(B, K, C, R, N) == Typed(B, K, C, R, N) /\ Double(B, K, C, R, N)

\* The nodes.
Node(K, N) == {i \in Index(N) : i = Root \/ K[i] # 0}

LEMMA EmptyRange == Range(<<>>) = {} /\ IsInjective(<<>>)
  BY DEF Range, IsInjective

\* What can be said of a sound struct without looking into it again.
LEMMA Structure ==
  ASSUME NEW B, NEW K, NEW C, NEW R, NEW N, Sound(B, K, C, R, N)
  PROVE  /\ N \in Nat /\ CharMax \in Nat /\ CharMax + 1 < N /\ Root \in Index(N) /\ 0 \in Index(N)
         /\ \A i \in Index(N) : i \in Nat /\ i < N /\ B[i] \in Nat /\ Range(C[i]) \in SUBSET Char
         /\ \A i \in Index(N) : \A c \in Char : B[i] + c \in Index(N)
         /\ \A i \in Index(N) : Plain(C[i]) => CharList_All(C[i]) = Range(C[i])
         /\ Range(C[0]) = {}
<1>1. N \in Nat /\ CharMax \in Nat /\ CharMax + 1 < N /\ Root \in Index(N) /\ 0 \in Index(N)
  BY Chars DEF Sound, Typed, Root, Index
<1>2. ASSUME NEW i \in Index(N)
      PROVE  /\ i \in Nat /\ i < N /\ B[i] \in Nat /\ Range(C[i]) \in SUBSET Char
             /\ Plain(C[i]) => CharList_All(C[i]) = Range(C[i])
             /\ \A c \in Char : B[i] + c \in Index(N)
  <2>1. i \in Nat /\ i < N
    BY <1>1 DEF Index
  <2>2. B[i] \in Nat /\ B[i] + CharMax < N /\ C[i] \in Seq(Char)
    BY DEF Sound, Typed
  <2>3. \A c \in Char : B[i] + c \in Index(N)
    BY <1>1, <2>2, Chars DEF Index
  <2> QED
    BY <2>1, <2>2, <2>3, ListIs, ListHas
<1>3. Range(C[0]) = {}
  <2>1. 0 # Root
    BY DEF Root
  <2>2. K[0] = 0
    BY DEF Sound, Double
  <2>3. C[0] = <<>>
    BY <1>1, <2>1, <2>2 DEF Sound, Double
  <2> QED
    BY <2>3, EmptyRange
<1> QED
  BY <1>1, <1>2, <1>3

-----------------------------------------------------------------------------
(* A node gets a base, and a child *)

\* A node without children may have any base.
LEMMA BaseSet ==
  ASSUME NEW B, NEW K, NEW C, NEW R, NEW N, Sound(B, K, C, R, N),
         NEW idx \in Node(K, N), Range(C[idx]) = {},
         NEW b \in Nat, b + CharMax < N
  PROVE  Sound([B EXCEPT ![idx] = b], K, C, R, N)
<1> DEFINE B2 == [B EXCEPT ![idx] = b]
<1>1. idx \in Index(N) /\ (idx = Root \/ K[idx] # 0)
  BY DEF Node
<1>2. B2[idx] = b /\ \A i \in Index(N) \ {idx} : B2[i] = B[i]
  BY <1>1 DEF Sound, Typed
<1>3. Typed(B2, K, C, R, N)
  BY <1>1 DEF Sound, Typed
<1> HIDE DEF B2
<1>4. \A i \in Index(N) : \A c \in Range(C[i]) : B2[i] = B[i]
  BY <1>2
<1>5. \A j \in Index(N) : K[j] # 0 => \E c \in Range(C[K[j]]) : j = B2[K[j]] + c
  <2> TAKE j \in Index(N)
  <2> HAVE K[j] # 0
  <2>1. K[j] \in Index(N)
    BY DEF Sound, Typed
  <2>2. PICK c \in Range(C[K[j]]) : j = B[K[j]] + c
    BY DEF Sound, Double
  <2> QED
    BY <1>4, <2>1, <2>2
<1>6. \A i \in Index(N) : K[i] = 0 /\ i # Root => B2[i] = B[i]
  BY <1>1, <1>2
<1>7. Double(B2, K, C, R, N)
  BY <1>4, <1>5, <1>6 DEF Sound, Double
<1> QED
  BY <1>3, <1>7 DEF Sound, B2

\* A list that grows by an entry.
LEMMA AppendHas ==
  ASSUME NEW s \in Seq(Char), NEW ch \in Char
  PROVE  Range(Append(s, ch)) = Range(s) \cup {ch}
<1>1. PICK s2 \in Seq(Char) : s2 = Append(s, ch)
  BY AppendProperties
<1>2. /\ Len(s) \in Nat /\ DOMAIN s = 1 .. Len(s) /\ DOMAIN s2 = 1 .. Len(s) + 1
      /\ s2[Len(s) + 1] = ch /\ \A n \in 1 .. Len(s) : s2[n] = s[n]
  BY <1>1, AppendProperties
<1>3. ASSUME NEW c \in Range(s2)
      PROVE  c \in Range(s) \cup {ch}
  <2>1. PICK n \in 1 .. Len(s) + 1 : c = s2[n]
    BY <1>2 DEF Range
  <2>2. n = Len(s) + 1 \/ n \in 1 .. Len(s)
    BY <1>2
  <2> QED
    BY <1>2, <2>1, <2>2 DEF Range
<1>4. ch \in Range(s2)
  <2>1. Len(s) + 1 \in 1 .. Len(s) + 1
    BY <1>2
  <2> QED
    BY <1>2, <2>1 DEF Range
<1>5. ASSUME NEW c \in Range(s)
      PROVE  c \in Range(s2)
  <2>1. PICK n \in 1 .. Len(s) : c = s[n]
    BY <1>2 DEF Range
  <2>2. n \in 1 .. Len(s) + 1
    BY <1>2
  <2> QED
    BY <1>2, <2>1, <2>2 DEF Range
<1> QED
  BY <1>1, <1>3, <1>4, <1>5

\* A free slot becomes a child.
LEMMA LeafAdded ==
  ASSUME NEW B, NEW K, NEW C, NEW R, NEW N, Sound(B, K, C, R, N),
         NEW idx \in Node(K, N), B[idx] >= 1,
         NEW ch \in Char, ch \notin Range(C[idx]), K[B[idx] + ch] = 0, B[idx] + ch # Root
  PROVE  Sound(B, [K EXCEPT ![B[idx] + ch] = idx],
               [C EXCEPT ![idx] = Append(@, ch)], R, N)
<1> DEFINE j == B[idx] + ch
           K2 == [K EXCEPT ![j] = idx]
           C2 == [C EXCEPT ![idx] = Append(C[idx], ch)]
<1>1. idx \in Index(N) /\ (idx = Root \/ K[idx] # 0) /\ idx # 0
  BY DEF Node, Root, Sound, Double
<1>2. j \in Index(N) /\ j >= 2 /\ j # idx /\ j # 0 /\ j # Root
  <2>1. j \in Index(N) /\ B[idx] \in Nat /\ ch \in Nat /\ j # 1
    BY <1>1, Structure, Chars DEF Root
  <2>2. j >= 2
    BY <2>1
  <2> QED
    BY <1>1, <2>1, <2>2 DEF Root
<1>3. K[j] = 0
  OBVIOUS
<1>4. K2[j] = idx /\ \A i \in Index(N) \ {j} : K2[i] = K[i]
  BY <1>2 DEF Sound, Typed
<1>5. PICK s \in Seq(Char) : s = C[idx]
  BY <1>1 DEF Sound, Typed
<1>6. PICK s2 \in Seq(Char) : s2 = Append(s, ch)
  BY AppendProperties
<1>7. /\ Len(s) \in Nat /\ DOMAIN s = 1 .. Len(s) /\ DOMAIN s2 = 1 .. Len(s) + 1
      /\ s2[Len(s) + 1] = ch /\ \A n \in 1 .. Len(s) : s2[n] = s[n]
  BY <1>6, AppendProperties
<1>8. Range(s2) = Range(s) \cup {ch}
  BY <1>6, AppendHas
<1>9. IsInjective(s2)
  <2>1. IsInjective(s) /\ ch \notin Range(s)
    BY <1>1, <1>5 DEF Sound, Double
  <2>2. \A n \in 1 .. Len(s) : s[n] # ch
    BY <1>7, <2>1 DEF Range
  <2>3. ASSUME NEW m \in 1 .. Len(s) + 1, NEW n \in 1 .. Len(s) + 1, s2[m] = s2[n]
        PROVE  m = n
    <3>1. (m = Len(s) + 1 \/ m \in 1 .. Len(s)) /\ (n = Len(s) + 1 \/ n \in 1 .. Len(s))
      BY <1>7
    <3> QED
      BY <1>7, <2>1, <2>2, <2>3, <3>1 DEF IsInjective
  <2> QED
    BY <1>7, <2>3 DEF IsInjective
<1>10. C2[idx] = s2 /\ \A i \in Index(N) \ {idx} : C2[i] = C[i]
  BY <1>1, <1>5, <1>6 DEF Sound, Typed
<1>11. Typed(B, K2, C2, R, N)
  BY <1>1, <1>5, <1>6 DEF Sound, Typed
<1>12. \A i \in Index(N) : \A c \in Range(C2[i]) :
         c \in Range(C[i]) \/ (i = idx /\ c = ch)
  BY <1>5, <1>8, <1>10
<1>13. \A i \in Index(N) : Range(C[i]) \subseteq Range(C2[i])
  BY <1>5, <1>8, <1>10
<1> HIDE DEF j, K2, C2
<1>14. K2[0] = 0 /\ K2[Root] = 0
  <2>1. 0 \in Index(N) /\ Root \in Index(N)
    BY Structure
  <2> QED
    BY <1>2, <1>4, <2>1 DEF Sound, Double
<1>15. ASSUME NEW i \in Index(N), NEW c \in Range(C2[i])
       PROVE  B[i] >= 1 /\ K2[B[i] + c] = i
  <2>1. CASE i = idx /\ c = ch
    BY <1>4, <2>1 DEF j
  <2>2. CASE c \in Range(C[i])
    <3>1. B[i] >= 1 /\ K[B[i] + c] = i
      BY <2>2 DEF Sound, Double
    <3>2. B[i] + c \in Index(N)
      BY <2>2, Structure
    <3>3. i # 0
      <4>1. Range(C[0]) = {}
        BY Structure
      <4> QED
        BY <2>2, <4>1
    <3>4. B[i] + c # j
      BY <1>3, <3>1, <3>3
    <3> QED
      BY <1>4, <3>1, <3>2, <3>4
  <2> QED
    BY <1>12, <2>1, <2>2
<1>16. ASSUME NEW k \in Index(N), K2[k] # 0
       PROVE  /\ K2[k] = Root \/ K2[K2[k]] # 0
              /\ \E c \in Range(C2[K2[k]]) : k = B[K2[k]] + c
              /\ K2[k] # k
  <2>1. CASE k = j
    <3>1. K2[k] = idx /\ K2[idx] = K[idx]
      BY <1>1, <1>2, <1>4, <2>1
    <3>2. ch \in Range(C2[idx])
      BY <1>8, <1>10
    <3> QED
      BY <1>1, <1>2, <2>1, <3>1, <3>2 DEF j
  <2>2. CASE k # j
    <3>1. K2[k] = K[k] /\ K[k] # 0 /\ K[k] \in Index(N)
      BY <1>4, <1>16, <2>2 DEF Sound, Typed
    <3>2. /\ K[k] = Root \/ K[K[k]] # 0
          /\ \E c \in Range(C[K[k]]) : k = B[K[k]] + c
          /\ K[k] # k
      BY <3>1 DEF Sound, Double
    <3>3. K[K[k]] # 0 => K2[K[k]] # 0
      BY <1>1, <1>4, <3>1
    <3> QED
      BY <1>13, <3>1, <3>2, <3>3
  <2> QED
    BY <2>1, <2>2
<1>17. \A i \in Index(N) : IsInjective(C2[i])
  BY <1>9, <1>10 DEF Sound, Double
<1>18. \A i \in Index(N) : K2[i] = 0 /\ i # Root => B[i] = 0 /\ C2[i] = <<>> /\ R[i] = Null
  <2>1. \A i \in Index(N) : K2[i] = 0 => K[i] = 0
    BY <1>3, <1>4
  <2>2. \A i \in Index(N) : K[i] = 0 /\ i # Root => i # idx
    BY <1>1
  <2> QED
    BY <1>10, <2>1, <2>2 DEF Sound, Double
<1>19. Double(B, K2, C2, R, N)
  BY <1>14, <1>15, <1>16, <1>17, <1>18 DEF Double
<1> QED
  BY <1>11, <1>19 DEF Sound, j, K2, C2

-----------------------------------------------------------------------------
(* A node moves its children *)

LEMMA StructFields ==
  ASSUME NEW B, NEW K, NEW C, NEW R, NEW N
  PROVE  /\ Struct(B, K, C, R, N).base = B /\ Struct(B, K, C, R, N).check = K
         /\ Struct(B, K, C, R, N).children = C /\ Struct(B, K, C, R, N).record = R
         /\ Struct(B, K, C, R, N).size = N
  BY DEF Struct

\* Where a node is after the nodes in V have gone d places up.
Ren(V, d, i) == IF i \in V THEN i + d ELSE i

\* The arrays after that, when V are the children of idx and b is its new base.
MovedB(B, V, d, idx, b, N) ==
  [i \in Index(N) |-> IF i = idx THEN b
                      ELSE IF i - d \in V THEN B[i - d] ELSE IF i \in V THEN 0 ELSE B[i]]
MovedF(F, V, d, zero, N) ==
  [i \in Index(N) |-> IF i - d \in V THEN F[i - d] ELSE IF i \in V THEN zero ELSE F[i]]
MovedK(K, V, d, idx, N) ==
  [i \in Index(N) |-> IF i - d \in V THEN idx ELSE IF i \in V THEN 0 ELSE Ren(V, d, K[i])]

\* V are the children of idx, and can go d places up to the base b.
Room(B, K, C, N, idx, V, d, b) ==
  /\ idx \in Node(K, N)
  /\ V = {B[idx] + c : c \in Range(C[idx])}
  /\ b \in Nat /\ b >= 1 /\ b >= B[idx] /\ b + CharMax + 1 < N
  /\ d = b - B[idx]
  /\ \A c \in Range(C[idx]) : K[b + c] = 0

\* The slots that are left and those that are taken are apart, and idx is in
\* neither.
LEMMA Apart ==
  ASSUME NEW B, NEW K, NEW C, NEW R, NEW N, Sound(B, K, C, R, N),
         NEW idx, NEW V, NEW d, NEW b, Room(B, K, C, N, idx, V, d, b)
  PROVE  /\ idx \in Index(N) /\ idx # 0 /\ (idx = Root \/ K[idx] # 0)
         /\ B[idx] \in Nat /\ b \in Nat /\ d \in Int /\ B[idx] + d = b
         /\ \A i \in V : /\ i \in Index(N) /\ K[i] = idx /\ i # 0 /\ i # Root /\ i # idx
                         /\ i + d \in Index(N) /\ i + d - d = i
                         /\ B[idx] >= 1
                         /\ i - B[idx] \in Range(C[idx]) /\ i + d = b + (i - B[idx])
         /\ \A i \in Index(N) : i - d \in V =>
              K[i] = 0 /\ i # 0 /\ i # Root /\ i # idx /\ i \notin V /\ (i - d) + d = i
<1> DEFINE o == B[idx]
<1>1. idx \in Index(N) /\ (idx = Root \/ K[idx] # 0) /\ idx # 0
  BY DEF Room, Node, Root, Sound, Double
<1>2. o \in Nat /\ b \in Nat /\ b >= 1 /\ Range(C[idx]) \in SUBSET Char /\ d = b - o
      /\ d \in Int /\ o + d = b
  BY <1>1, Structure DEF Room
<1>3. ASSUME NEW c \in Range(C[idx])
      PROVE  /\ c \in Nat
             /\ o + c \in Index(N) /\ K[o + c] = idx /\ o >= 1 /\ o + c >= 2
             /\ b + c \in Index(N) /\ K[b + c] = 0 /\ b + c >= 2
             /\ o + c # idx
  <2>1. c \in Nat /\ c <= CharMax /\ CharMax \in Nat
    BY <1>2, <1>3, Chars
  <2>2. o + c \in Index(N)
    BY <1>1, <1>2, <1>3, Structure
  <2>3. K[o + c] = idx /\ o >= 1
    BY <1>1, <1>3 DEF Sound, Double
  <2>4. K[b + c] = 0
    BY <1>3 DEF Room
  <2>5. b + c \in Index(N)
    BY <1>2, <2>1, Structure DEF Room, Index
  <2>6. o + c # idx
    BY <1>1, <2>2, <2>3 DEF Sound, Double
  <2>7. o + c # 1
    BY <1>1, <2>3 DEF Root, Sound, Double
  <2>8. b >= o
    BY DEF Room
  <2> QED
    BY <1>2, <2>1, <2>2, <2>3, <2>4, <2>5, <2>6, <2>7, <2>8, SMTT(30)
<1> HIDE DEF o
<1>4. ASSUME NEW i \in V
      PROVE  /\ i \in Index(N) /\ K[i] = idx /\ i # 0 /\ i # Root /\ i # idx
             /\ i + d \in Index(N) /\ i + d - d = i /\ K[i + d] = 0 /\ i + d # 0 /\ i + d # Root
             /\ o >= 1
             /\ i - o \in Range(C[idx]) /\ i + d = b + (i - o)
  <2>1. PICK c \in Range(C[idx]) : i = o + c
    BY <1>4 DEF Room, o
  <2>2. i - o = c /\ i + d = b + c /\ i >= 2 /\ i + d - d = i /\ i + d >= 2
    BY <1>2, <1>3, <2>1
  <2>3. i # 0 /\ i # Root /\ i + d # 0 /\ i + d # Root
    BY <1>2, <1>3, <2>1, <2>2 DEF Root
  <2> QED
    BY <1>3, <2>1, <2>2, <2>3
<1>5. ASSUME NEW i \in Index(N), i - d \in V
      PROVE  K[i] = 0 /\ i # 0 /\ i # Root /\ i # idx /\ i \notin V /\ (i - d) + d = i
  <2>1. (i - d) + d = i
    BY <1>2, Structure
  <2>2. K[i] = 0 /\ i # 0 /\ i # Root
    BY <1>4, <1>5, <2>1
  <2> QED
    BY <1>1, <1>4, <2>1, <2>2
<1> QED
  BY <1>1, <1>2, <1>4, <1>5 DEF o

\* What Shifted does to an array.
LEMMA ShiftedIs ==
  ASSUME NEW F, NEW V, NEW d, NEW zero, NEW N, DOMAIN F = Index(N)
  PROVE  Shifted(F, V, d, zero) = MovedF(F, V, d, zero, N)
  BY DEF Shifted, MovedF

LEMMA MoveIs ==
  ASSUME NEW B, NEW K, NEW C, NEW R, NEW N, Sound(B, K, C, R, N),
         NEW idx, NEW V, NEW d, NEW b, Room(B, K, C, N, idx, V, d, b),
         Plain(C[idx]), \A i \in V : Plain(C[i])
  PROVE  MoveAtOnce(Struct(B, K, C, R, N), idx, b)
           = Struct(MovedB(B, V, d, idx, b, N), MovedK(K, V, d, idx, N),
                    MovedF(C, V, d, <<>>, N), MovedF(R, V, d, Null, N), N)
<1> DEFINE K1 == [i \in Index(N) |-> IF i - d \in V THEN idx ELSE IF i \in V THEN 0 ELSE K[i]]
<1>1. PICK t : t = Struct(B, K, C, R, N)
  OBVIOUS
<1>2. /\ t.base = B /\ t.check = K /\ t.children = C /\ t.record = R
      /\ DOMAIN B = Index(N) /\ DOMAIN K = Index(N) /\ DOMAIN C = Index(N) /\ DOMAIN R = Index(N)
  BY <1>1, StructFields DEF Sound, Typed
<1>3. idx \in Index(N) /\ CharList_All(C[idx]) = Range(C[idx])
  BY Apart, Structure
<1>4. Slots(t, idx) = V /\ b - t.base[idx] = d
  <2>1. Slots(t, idx) = {B[idx] + c : c \in Range(C[idx])}
    BY <1>2, <1>3 DEF Slots
  <2> QED
    BY <1>2, <2>1 DEF Room
<1>5. PICK B2 : B2 = MovedB(B, V, d, idx, b, N)
  OBVIOUS
<1>6. PICK C2 : C2 = MovedF(C, V, d, <<>>, N)
  OBVIOUS
<1>7. PICK R2 : R2 = MovedF(R, V, d, Null, N)
  OBVIOUS
<1>8. PICK r : r = Relocated(t, idx, b)
  OBVIOUS
<1>9. r = Struct(B2, K1, C2, R2, N)
  <2>1. r = [base |-> [Shifted(B, Slots(t, idx), b - t.base[idx], 0) EXCEPT ![idx] = b],
             check |-> r.check,
             children |-> Shifted(C, Slots(t, idx), b - t.base[idx], <<>>),
             record |-> Shifted(R, Slots(t, idx), b - t.base[idx], Null),
             size |-> N]
    BY <1>1, <1>2, <1>8 DEF Relocated, Struct
  <2>2. r.check = [i \in DOMAIN K |-> IF i - (b - t.base[idx]) \in Slots(t, idx) THEN idx
                     ELSE Shifted(K, Slots(t, idx), b - t.base[idx], 0)[i]]
    BY <1>1, <1>2, <1>8 DEF Relocated, Struct
  <2>3. DOMAIN r.check = Index(N)
    BY <1>2, <2>2
  <2>4. \A i \in Index(N) : r.check[i] = K1[i]
    BY <1>2, <1>4, <2>2, ShiftedIs DEF MovedF
  <2>5. r.check = K1
    <3>1. r.check = [i \in Index(N) |-> r.check[i]]
      BY <1>2, <2>2
    <3> HIDE DEF K1
    <3>2. K1 = [i \in Index(N) |-> K1[i]]
      BY DEF K1
    <3> QED
      BY <2>4, <3>1, <3>2
  <2>6. [Shifted(B, V, d, 0) EXCEPT ![idx] = b] = B2
    <3>1. Shifted(B, V, d, 0) = MovedF(B, V, d, 0, N)
      BY <1>2, ShiftedIs
    <3>2. idx - d \notin V
      BY <1>3, Apart
    <3> QED
      BY <1>3, <1>5, <3>1, <3>2 DEF MovedF, MovedB
  <2>7. Shifted(C, V, d, <<>>) = C2 /\ Shifted(R, V, d, Null) = R2
    BY <1>2, <1>6, <1>7, ShiftedIs
  <2> HIDE DEF K1
  <2> QED
    BY <1>4, <2>1, <2>5, <2>6, <2>7 DEF Struct
<1> DEFINE parent(i) == {n \in Slots(r, idx) : i \in Slots(r, n)}
<1>10. PICK u : u = MoveAtOnce(t, idx, b)
  OBVIOUS
<1>11. u = [r EXCEPT !.check = [i \in DOMAIN @ |-> IF parent(i) # {} THEN Max(parent(i)) ELSE @[i]]]
  BY <1>8, <1>10 DEF MoveAtOnce
<1> HIDE DEF K1
<1>12. /\ r.base = B2 /\ r.check = K1 /\ r.children = C2 /\ r.record = R2
  BY <1>9, StructFields
\* A child that has moved.
<1>13. ASSUME NEW n \in Index(N), n - d \in V
       PROVE  /\ n - d \in Index(N)
              /\ Slots(r, n) = {B[n - d] + c : c \in Range(C[n - d])}
  <2>1. n # idx /\ n - d \in Index(N)
    BY <1>13, Apart
  <2>2. C2[n] = C[n - d] /\ B2[n] = B[n - d]
    BY <1>5, <1>6, <1>13, <2>1 DEF MovedF, MovedB
  <2>3. CharList_All(C2[n]) = Range(C[n - d])
    BY <1>13, <2>1, <2>2, Structure
  <2> QED
    BY <1>12, <2>1, <2>2, <2>3 DEF Slots
<1>14. ASSUME NEW n
       PROVE  n \in Slots(r, idx) <=> n \in Index(N) /\ n - d \in V
  <2>1. B2[idx] = b /\ C2[idx] = C[idx]
    <3>1. idx - d \notin V /\ idx \notin V
      BY <1>3, Apart
    <3> QED
      BY <1>3, <1>5, <1>6, <3>1 DEF MovedF, MovedB
  <2>2. Slots(r, idx) = {b + c : c \in Range(C[idx])}
    BY <1>3, <1>12, <2>1 DEF Slots
  <2>3. ASSUME NEW c \in Range(C[idx])
        PROVE  b + c \in Index(N) /\ b + c - d \in V
    <3>1. B[idx] + c \in V
      BY DEF Room
    <3>2. /\ B[idx] + c + d \in Index(N) /\ B[idx] + c + d - d = B[idx] + c
      BY <3>1, Apart
    <3>3. c \in Nat
      BY <1>3, <2>3, Structure, Chars
    <3>4. B[idx] \in Nat /\ b \in Nat /\ d \in Int /\ B[idx] + d = b
      BY Apart
    <3>5. B[idx] + c + d = b + c
      BY <3>3, <3>4
    <3>6. b + c = (B[idx] + c) + d /\ b + c - d = B[idx] + c
      BY <3>3, <3>4
    <3> QED
      BY <3>1, <3>2, <3>6
  <2>4. ASSUME n \in Index(N), n - d \in V
        PROVE  \E c \in Range(C[idx]) : n = b + c
    <3>1. /\ n - d - B[idx] \in Range(C[idx]) /\ (n - d) + d = b + (n - d - B[idx])
          /\ (n - d) + d = n
      BY <2>4, Apart
    <3> QED
      BY <3>1
  <2>5. n \in {b + c : c \in Range(C[idx])} => n \in Index(N) /\ n - d \in V
    <3> SUFFICES ASSUME NEW c \in Range(C[idx]), n = b + c
                 PROVE  n \in Index(N) /\ n - d \in V
      OBVIOUS
    <3>1. b + c \in Index(N) /\ b + c - d \in V
      BY <2>3
    <3>2. b \in Nat /\ c \in Nat /\ d \in Int
      <4>1. c \in Char
        BY <1>3, Structure
      <4> QED
        BY <4>1, Chars, Apart
    <3>3. n - d = b + c - d
      BY <3>2
    <3> QED
      BY <3>1, <3>3
  <2>6. n \in Index(N) /\ n - d \in V => n \in {b + c : c \in Range(C[idx])}
    BY <2>4
  <2> QED
    BY <2>2, <2>5, <2>6
<1>15. ASSUME NEW i \in Index(N)
       PROVE  (IF parent(i) # {} THEN Max(parent(i)) ELSE K1[i]) = MovedK(K, V, d, idx, N)[i]
  <2>1. MovedK(K, V, d, idx, N)[i]
          = IF i - d \in V THEN idx ELSE IF i \in V THEN 0 ELSE Ren(V, d, K[i])
    BY DEF MovedK
  <2>2. ASSUME NEW n \in parent(i)
        PROVE  /\ K[i] = n - d /\ K[i] \in V /\ i - d \notin V /\ i \notin V
               /\ n = Ren(V, d, K[i]) /\ n \in Nat
    <3>1. n \in Index(N) /\ n - d \in V /\ i \in Slots(r, n)
      BY <1>14, <2>2
    <3>2. PICK c \in Range(C[n - d]) : i = B[n - d] + c
      BY <1>13, <3>1
    <3>3. K[i] = n - d
      BY <1>13, <3>1, <3>2 DEF Sound, Double
    <3>4. i - d \notin V /\ i \notin V
      <4>1. n - d # 0 /\ n - d # idx
        BY <3>1, Apart
      <4> QED
        BY <3>3, <4>1, Apart
    <3>5. n = K[i] + d /\ n \in Nat
      BY <3>1, <3>3, Apart DEF Index
    <3> QED
      BY <3>1, <3>3, <3>4, <3>5 DEF Ren
  <2>3. CASE parent(i) # {}
    <3>1. PICK n : n \in parent(i)
      BY <2>3
    <3>2. parent(i) = {n}
      <4> HIDE DEF parent
      <4> QED
        BY <2>2, <3>1
    <3>3. Max(parent(i)) = n
      <4>1. Max(parent(i)) = CHOOSE x \in {n} : \A y \in {n} : x >= y
        BY <3>2 DEF Max
      <4>2. n \in {n} /\ \A y \in {n} : n >= y
        BY <2>2, <3>1
      <4>3. (CHOOSE x \in {n} : \A y \in {n} : x >= y) \in {n}
        BY <4>2
      <4> QED
        BY <4>1, <4>3
    <3> HIDE DEF parent
    <3> QED
      BY <2>1, <2>2, <2>3, <3>1, <3>3
  <2>4. CASE parent(i) = {} /\ i - d \notin V /\ i \notin V
    <3>1. K1[i] = K[i]
      BY <2>4 DEF K1
    <3>2. K[i] \notin V
      <4> SUFFICES ASSUME K[i] \in V
                   PROVE  FALSE
        OBVIOUS
      <4>1. K[i] \in Index(N) /\ K[i] # 0 /\ K[i] + d \in Index(N) /\ K[i] + d - d = K[i]
        BY Apart
      <4>2. PICK c \in Range(C[K[i]]) : i = B[K[i]] + c
        BY <4>1 DEF Sound, Double
      <4>3. PICK n \in Index(N) : n = K[i] + d
        BY <4>1
      <4>6. n - d = K[i] /\ n - d \in V
        <5>1. K[i] \in Nat /\ d \in Int /\ n \in Int
          BY <4>1, Apart DEF Index
        <5>2. n - d = K[i]
          BY <4>3, <5>1
        <5> QED
          BY <5>2
      <4>4. i \in Slots(r, n)
        <5>1. Slots(r, n) = {B[K[i]] + e : e \in Range(C[K[i]])}
          BY <1>13, <4>6
        <5> QED
          BY <4>2, <5>1
      <4>5. n \in Slots(r, idx)
        BY <1>14, <4>6
      <4> QED
        BY <2>4, <4>4, <4>5
    <3> QED
      BY <2>1, <2>4, <3>1, <3>2 DEF Ren
  <2>5. CASE parent(i) = {} /\ (i - d \in V \/ i \in V)
    BY <2>1, <2>5 DEF K1
  <2> QED
    BY <2>3, <2>4, <2>5
<1>16. u.check = MovedK(K, V, d, idx, N)
  <2>1. DOMAIN K1 = Index(N)
    BY DEF K1
  <2>2. u.check = [i \in Index(N) |-> IF parent(i) # {} THEN Max(parent(i)) ELSE K1[i]]
    <3> HIDE DEF parent
    <3> QED
      BY <1>9, <1>11, <1>12, <2>1 DEF Struct
  <2>3. MovedK(K, V, d, idx, N) = [i \in Index(N) |-> MovedK(K, V, d, idx, N)[i]]
    BY DEF MovedK
  <2> HIDE DEF parent
  <2> QED
    BY <1>15, <2>2, <2>3
<1>17. u = Struct(B2, u.check, C2, R2, N)
  <2> HIDE DEF parent
  <2> QED
    BY <1>9, <1>11 DEF Struct
<1> QED
  BY <1>1, <1>5, <1>6, <1>7, <1>10, <1>16, <1>17

\* What has come, what has gone, and the rest.
LEMMA MovedArrays ==
  ASSUME NEW B, NEW K, NEW C, NEW R, NEW N, Sound(B, K, C, R, N),
         NEW idx, NEW V, NEW d, NEW b, Room(B, K, C, N, idx, V, d, b),
         NEW B2, B2 = MovedB(B, V, d, idx, b, N), NEW K2, K2 = MovedK(K, V, d, idx, N),
         NEW C2, C2 = MovedF(C, V, d, <<>>, N), NEW R2, R2 = MovedF(R, V, d, Null, N)
  PROVE  /\ idx \in Index(N) /\ idx # 0 /\ (idx = Root \/ K[idx] # 0)
         /\ idx \notin V /\ idx - d \notin V
         /\ 0 \in Index(N) /\ Root \in Index(N)
         /\ K[0] = 0 /\ K[Root] = 0 /\ 0 \notin V /\ 0 - d \notin V /\ Root \notin V /\ Root - d \notin V
         /\ \A i \in Index(N) : i - d \in V =>
              /\ i - d \in Index(N) /\ (i - d) + d = i
              /\ K[i - d] = idx /\ K[i] = 0 /\ i \notin V
              /\ B2[i] = B[i - d] /\ C2[i] = C[i - d] /\ R2[i] = R[i - d] /\ K2[i] = idx
         /\ \A i \in V :
              /\ i \in Index(N) /\ K[i] = idx /\ i + d \in Index(N) /\ (i + d) - d \in V
              /\ (i + d) - d = i /\ i - d \notin V
              /\ B2[i] = 0 /\ C2[i] = <<>> /\ R2[i] = Null /\ K2[i] = 0
         /\ \A i \in Index(N) : i \notin V /\ i - d \notin V =>
              /\ C2[i] = C[i] /\ R2[i] = R[i] /\ K2[i] = Ren(V, d, K[i])
              /\ i # idx => B2[i] = B[i]
              /\ i = idx => B2[i] = b
<1>1. /\ idx \in Index(N) /\ idx # 0 /\ (idx = Root \/ K[idx] # 0)
      /\ idx \notin V /\ idx - d \notin V
      /\ 0 \in Index(N) /\ Root \in Index(N)
      /\ K[0] = 0 /\ K[Root] = 0 /\ 0 \notin V /\ 0 - d \notin V /\ Root \notin V /\ Root - d \notin V
  BY Apart, Structure DEF Sound, Double
<1>2. ASSUME NEW i \in Index(N), i - d \in V
      PROVE  /\ i - d \in Index(N) /\ (i - d) + d = i
             /\ K[i - d] = idx /\ K[i] = 0 /\ i \notin V
             /\ B2[i] = B[i - d] /\ C2[i] = C[i - d] /\ R2[i] = R[i - d] /\ K2[i] = idx
  <2>1. i # idx /\ i \notin V /\ K[i] = 0 /\ (i - d) + d = i
    BY <1>2, Apart
  <2>2. i - d \in Index(N) /\ K[i - d] = idx
    BY <1>2, Apart
  <2>3. B2[i] = B[i - d] /\ C2[i] = C[i - d] /\ R2[i] = R[i - d] /\ K2[i] = idx
    BY <1>2, <2>1 DEF MovedB, MovedF, MovedK
  <2> QED
    BY <2>1, <2>2, <2>3
<1>3. ASSUME NEW i \in V
      PROVE  /\ i \in Index(N) /\ K[i] = idx /\ i + d \in Index(N) /\ (i + d) - d \in V
             /\ (i + d) - d = i /\ i - d \notin V
             /\ B2[i] = 0 /\ C2[i] = <<>> /\ R2[i] = Null /\ K2[i] = 0
  <2>1. i \in Index(N) /\ K[i] = idx /\ i # idx /\ i + d \in Index(N) /\ (i + d) - d = i
    <3>1. \A j \in V : j \in Index(N) /\ K[j] = idx /\ j # idx /\ j + d \in Index(N)
      BY Apart
    <3>2. i \in Nat /\ d \in Int
      BY <3>1, Apart, Structure
    <3>3. (i + d) - d = i
      BY <3>2
    <3> QED
      BY <3>1, <3>3
  <2>2. i - d \notin V
    BY <1>2, <2>1
  <2>3. B2[i] = 0 /\ C2[i] = <<>> /\ R2[i] = Null /\ K2[i] = 0
    BY <2>1, <2>2 DEF MovedB, MovedF, MovedK
  <2> QED
    BY <2>1, <2>2, <2>3
<1>4. ASSUME NEW i \in Index(N), i \notin V, i - d \notin V
      PROVE  /\ C2[i] = C[i] /\ R2[i] = R[i] /\ K2[i] = Ren(V, d, K[i])
             /\ i # idx => B2[i] = B[i]
             /\ i = idx => B2[i] = b
  BY <1>4 DEF MovedB, MovedF, MovedK
<1> QED
  BY <1>1, <1>2, <1>3, <1>4

\* A node that moves its children leaves a double array.
LEMMA MoveSound ==
  ASSUME NEW B, NEW K, NEW C, NEW R, NEW N, Sound(B, K, C, R, N),
         NEW idx, NEW V, NEW d, NEW b, Room(B, K, C, N, idx, V, d, b)
  PROVE  Sound(MovedB(B, V, d, idx, b, N), MovedK(K, V, d, idx, N),
               MovedF(C, V, d, <<>>, N), MovedF(R, V, d, Null, N), N)
<1>1. PICK B2 : B2 = MovedB(B, V, d, idx, b, N)
  OBVIOUS
<1>2. PICK C2 : C2 = MovedF(C, V, d, <<>>, N)
  OBVIOUS
<1>3. PICK R2 : R2 = MovedF(R, V, d, Null, N)
  OBVIOUS
<1>4. PICK K2 : K2 = MovedK(K, V, d, idx, N)
  OBVIOUS
<1>5. /\ idx \in Index(N) /\ idx # 0 /\ (idx = Root \/ K[idx] # 0)
      /\ idx \notin V /\ idx - d \notin V
      /\ 0 \in Index(N) /\ Root \in Index(N)
      /\ K[0] = 0 /\ K[Root] = 0 /\ 0 \notin V /\ 0 - d \notin V /\ Root \notin V /\ Root - d \notin V
  BY <1>1, <1>2, <1>3, <1>4, MovedArrays
<1>6. ASSUME NEW i \in Index(N), i - d \in V
      PROVE  /\ i - d \in Index(N) /\ (i - d) + d = i
             /\ K[i - d] = idx /\ K[i] = 0 /\ i \notin V
             /\ B2[i] = B[i - d] /\ C2[i] = C[i - d] /\ R2[i] = R[i - d] /\ K2[i] = idx
  BY <1>1, <1>2, <1>3, <1>4, <1>6, MovedArrays
<1>7. ASSUME NEW i \in V
      PROVE  /\ i \in Index(N) /\ K[i] = idx /\ i + d \in Index(N) /\ (i + d) - d \in V
             /\ i - d \notin V
             /\ B2[i] = 0 /\ C2[i] = <<>> /\ R2[i] = Null /\ K2[i] = 0
  BY <1>1, <1>2, <1>3, <1>4, MovedArrays
<1>8. ASSUME NEW i \in Index(N), i \notin V, i - d \notin V
      PROVE  /\ C2[i] = C[i] /\ R2[i] = R[i] /\ K2[i] = Ren(V, d, K[i])
             /\ i # idx => B2[i] = B[i]
             /\ i = idx => B2[i] = b
  BY <1>1, <1>2, <1>3, <1>4, <1>8, MovedArrays
<1>9. \A i \in Index(N) : K[i] \in Index(N)
  BY DEF Sound, Typed
<1>10. /\ B[idx] \in Nat /\ b \in Nat /\ d \in Int /\ B[idx] + d = b /\ b >= 1
       /\ b + CharMax < N /\ CharMax \in Nat /\ N \in Nat
  <2>1. B[idx] \in Nat /\ b \in Nat /\ d \in Int /\ B[idx] + d = b
    BY Apart
  <2>2. CharMax \in Nat /\ N \in Nat
    BY Structure
  <2>3. b >= 1 /\ b + CharMax + 1 < N
    BY DEF Room
  <2> QED
    BY <2>1, <2>2, <2>3
<1>11. Typed(B2, K2, C2, R2, N)
  <2>1. B2 = [i \in Index(N) |-> B2[i]] /\ K2 = [i \in Index(N) |-> K2[i]]
    BY <1>1, <1>4 DEF MovedB, MovedK
  <2>2. C2 = [i \in Index(N) |-> C2[i]] /\ R2 = [i \in Index(N) |-> R2[i]]
    BY <1>2, <1>3 DEF MovedF
  <2>3. <<>> \in Seq(Char)
    OBVIOUS
  <2>4. ASSUME NEW i \in Index(N)
        PROVE  /\ B2[i] \in Nat /\ B2[i] + CharMax < N /\ K2[i] \in Index(N)
               /\ C2[i] \in Seq(Char) /\ R2[i] \in Record \cup {Null}
    <3>1. \A j \in Index(N) : B[j] \in Nat /\ B[j] + CharMax < N /\ C[j] \in Seq(Char)
                              /\ R[j] \in Record \cup {Null}
      BY DEF Sound, Typed
    <3>2. CASE i - d \in V
      BY <1>5, <1>6, <3>1, <3>2
    <3>3. CASE i \in V
      <4>1. 0 + CharMax < N /\ 0 \in Nat
        BY <1>10, Structure
      <4> QED
        BY <1>5, <1>7, <2>3, <3>3, <4>1
    <3>4. CASE i \notin V /\ i - d \notin V
      <4>1. Ren(V, d, K[i]) \in Index(N)
        BY <1>7, <1>9 DEF Ren
      <4> QED
        BY <1>8, <1>10, <3>1, <3>4, <4>1
    <3> QED
      BY <3>2, <3>3, <3>4
  <2>5. N \in Nat /\ 2 * N > 3 * (CharMax + 1)
    BY DEF Sound, Typed
  <2>6. /\ B2 \in [Index(N) -> Nat] /\ K2 \in [Index(N) -> Index(N)]
        /\ C2 \in [Index(N) -> Seq(Char)] /\ R2 \in [Index(N) -> Record \cup {Null}]
    BY <2>1, <2>2, <2>4
  <2> QED
    BY <2>4, <2>5, <2>6 DEF Typed
<1>12. Ren(V, d, 0) = 0 /\ Ren(V, d, idx) = idx
  BY <1>5 DEF Ren
<1>13. K2[0] = 0 /\ K2[Root] = 0
  BY <1>5, <1>8, <1>12
\* Each child says who its parent is.
<1>14. ASSUME NEW i \in Index(N), NEW c \in Range(C2[i])
       PROVE  B2[i] >= 1 /\ K2[B2[i] + c] = i
  <2>1. \A n \in Index(N) : \A e \in Range(C[n]) :
          B[n] >= 1 /\ B[n] + e \in Index(N) /\ K[B[n] + e] = n
    <3>1. \A n \in Index(N) : \A e \in Range(C[n]) : B[n] >= 1 /\ K[B[n] + e] = n
      BY DEF Sound, Double
    <3>2. \A n \in Index(N) : \A e \in Range(C[n]) : e \in Char
      BY Structure
    <3>3. \A n \in Index(N) : \A e \in Char : B[n] + e \in Index(N)
      BY Structure
    <3> QED
      BY <3>1, <3>2, <3>3
  <2>2. CASE i - d \in V
    <3>1. PICK n \in V : n = i - d
      BY <2>2
    <3>2. n \in Index(N) /\ n + d = i /\ B2[i] = B[n] /\ C2[i] = C[n]
      BY <1>6, <2>2, <3>1
    <3>3. PICK j \in Index(N) : j = B[n] + c
      BY <2>1, <3>2
    <3>4. B[n] >= 1 /\ K[j] = n
      BY <2>1, <3>2, <3>3
    <3>5. n # idx /\ n # 0
      BY <1>5, <3>1
    <3>6. j \notin V /\ j - d \notin V
      BY <1>6, <1>7, <3>4, <3>5
    <3>7. K2[j] = i
      BY <1>8, <3>2, <3>4, <3>6 DEF Ren
    <3> QED
      BY <3>2, <3>3, <3>4, <3>7
  <2>3. CASE i \in V
    BY <1>7, <2>3, EmptyRange
  <2>4. CASE i \notin V /\ i - d \notin V /\ i # idx
    <3>1. B2[i] = B[i] /\ C2[i] = C[i]
      BY <1>8, <2>4
    <3>2. PICK j \in Index(N) : j = B[i] + c
      BY <2>1, <3>1
    <3>3. B[i] >= 1 /\ K[j] = i
      BY <2>1, <3>1, <3>2
    <3>4. i # 0
      <4>1. Range(C[0]) = {}
        BY Structure
      <4> QED
        BY <3>1, <4>1
    <3>5. j \notin V /\ j - d \notin V
      BY <1>6, <1>7, <2>4, <3>3, <3>4
    <3>6. K2[j] = i
      BY <1>8, <2>4, <3>3, <3>5 DEF Ren
    <3> QED
      BY <3>1, <3>2, <3>3, <3>6
  <2>5. CASE i = idx
    <3>1. B2[i] = b /\ C2[i] = C[i]
      BY <1>5, <1>8, <2>5
    <3>2. B[idx] + c \in V
      BY <2>5, <3>1 DEF Room
    <3>3. c \in Nat
      <4>1. c \in Char
        BY <2>5, <3>1, Structure
      <4> QED
        BY <4>1, Chars
    <3>4. PICK j \in V : j = B[idx] + c
      BY <3>2
    <3>5. j + d \in Index(N) /\ (j + d) - d \in V
      BY <1>7
    <3>6. j + d = b + c
      BY <1>10, <3>3, <3>4
    <3>7. K2[b + c] = idx
      BY <1>6, <3>5, <3>6
    <3> QED
      BY <1>10, <2>5, <3>1, <3>7
  <2> QED
    BY <1>5, <2>2, <2>3, <2>4, <2>5
\* Each node is a child of its parent.
<1>15. ASSUME NEW j \in Index(N), K2[j] # 0
       PROVE  /\ K2[j] = Root \/ K2[K2[j]] # 0
              /\ \E c \in Range(C2[K2[j]]) : j = B2[K2[j]] + c
              /\ K2[j] # j
  <2>1. idx = Root \/ K2[idx] # 0
    <3>1. K2[idx] = Ren(V, d, K[idx])
      BY <1>5, <1>8
    <3>2. CASE K[idx] \in V
      <4>1. PICK n \in Index(N) : n = K[idx] + d
        BY <1>7, <3>2
      <4>2. n - d \in V
        BY <1>7, <3>2, <4>1
      <4> QED
        BY <1>5, <3>1, <3>2, <4>1, <4>2 DEF Ren
    <3>3. CASE K[idx] \notin V
      BY <1>5, <3>1, <3>3 DEF Ren
    <3> QED
      BY <3>2, <3>3
  <2>2. CASE j - d \in V
    <3>1. K2[j] = idx /\ j # idx
      BY <1>5, <1>6, <2>2
    <3>2. PICK c \in Range(C[idx]) : j = b + c
      <4>1. /\ j - d - B[idx] \in Range(C[idx]) /\ (j - d) + d = b + (j - d - B[idx])
            /\ (j - d) + d = j
        BY <2>2, Apart
      <4> QED
        BY <4>1
    <3>3. C2[idx] = C[idx] /\ B2[idx] = b
      BY <1>5, <1>8
    <3> QED
      BY <2>1, <3>1, <3>2, <3>3
  <2>3. CASE j \in V
    BY <1>7, <1>15, <2>3
  <2>4. CASE j \notin V /\ j - d \notin V
    <3>1. PICK p \in Index(N) : p = K[j]
      BY <1>9
    <3>2. K2[j] = Ren(V, d, p) /\ p # 0
      BY <1>8, <1>12, <1>15, <2>4, <3>1
    <3>3. p = Root \/ K[p] # 0
      BY <3>1, <3>2 DEF Sound, Double
    <3>4. PICK c \in Range(C[p]) : j = B[p] + c
      BY <3>1, <3>2 DEF Sound, Double
    <3>5. p # j
      BY <3>1, <3>2 DEF Sound, Double
    <3>6. CASE p \in V
      <4>1. PICK n \in Index(N) : n = p + d
        BY <1>7, <3>6
      <4>2. n - d = p
        <5>1. p \in Nat /\ d \in Int
          BY <1>10, <3>1, Structure
        <5> QED
          BY <4>1, <5>1
      <4>3. K2[j] = n /\ K2[n] = idx /\ C2[n] = C[p] /\ B2[n] = B[p]
        BY <1>6, <3>2, <3>6, <4>1, <4>2 DEF Ren
      <4>4. n # j
        BY <2>4, <3>6, <4>2
      <4> QED
        BY <1>5, <3>4, <4>3, <4>4
    <3>7. CASE p \notin V
      <4>1. K2[j] = p
        BY <3>2, <3>7 DEF Ren
      <4>2. p - d \notin V
        BY <1>5, <1>6, <3>3
      <4>3. K2[p] = Ren(V, d, K[p]) /\ C2[p] = C[p] /\ (p # idx => B2[p] = B[p])
        BY <1>8, <3>7, <4>2
      <4>4. p # idx
        BY <2>4, <3>4 DEF Room
      <4>5. Ren(V, d, K[p]) = 0 => K[p] = 0
        <5> SUFFICES ASSUME K[p] \in V, K[p] + d = 0
                     PROVE  FALSE
          BY DEF Ren
        <5>1. 0 - d \in V
          BY <1>7, Zenon
        <5> QED
          BY <1>5, <5>1
      <4> QED
        BY <3>3, <3>4, <3>5, <4>1, <4>3, <4>4, <4>5
    <3> QED
      BY <3>6, <3>7
  <2> QED
    BY <2>2, <2>3, <2>4
<1>16. ASSUME NEW i \in Index(N)
       PROVE  /\ IsInjective(C2[i])
              /\ K2[i] = 0 /\ i # Root => B2[i] = 0 /\ C2[i] = <<>> /\ R2[i] = Null
  <2>1. \A n \in Index(N) : IsInjective(C[n])
    BY DEF Sound, Double
  <2>2. CASE i - d \in V
    BY <1>5, <1>6, <2>1, <2>2
  <2>3. CASE i \in V
    BY <1>7, <2>3, EmptyRange
  <2>4. CASE i \notin V /\ i - d \notin V
    <3>1. K2[i] = Ren(V, d, K[i]) /\ C2[i] = C[i] /\ R2[i] = R[i] /\ (i # idx => B2[i] = B[i])
      BY <1>8, <2>4
    <3>2. Ren(V, d, K[i]) = 0 => K[i] = 0
      <4> SUFFICES ASSUME K[i] \in V, K[i] + d = 0
                   PROVE  FALSE
        BY DEF Ren
      <4>1. 0 - d \in V
        BY <1>7, Zenon
      <4> QED
        BY <1>5, <4>1
    <3>3. K[i] = 0 /\ i # Root => i # idx /\ B[i] = 0 /\ C[i] = <<>> /\ R[i] = Null
      BY <1>5 DEF Sound, Double
    <3> QED
      BY <2>1, <3>1, <3>2, <3>3
  <2> QED
    BY <2>2, <2>3, <2>4
<1>17. Double(B2, K2, C2, R2, N)
  BY <1>13, <1>14, <1>15, <1>16 DEF Double
<1> QED
  BY <1>1, <1>2, <1>3, <1>4, <1>11, <1>17 DEF Sound

-----------------------------------------------------------------------------
(* Paths *)

\* One character from a node, 0 if that leads nowhere.
Child(B, K, i, c) == IF i # 0 /\ K[B[i] + c] = i THEN B[i] + c ELSE 0

\* p gives the nodes that the first L characters of a key lead to.
Leads(p, B, K, key, L) ==
  p = [n \in 0 .. L |-> IF n = 0 THEN Root ELSE Child(B, K, p[n - 1], key[n])]

\* Such a function exists, so the recursive definition of Path has a meaning.
LEMMA PathExists ==
  ASSUME NEW B, NEW K, NEW key, NEW L \in Nat
  PROVE  \E p : Leads(p, B, K, key, L)
<1> DEFINE Step(f, n) == IF n = 0 THEN Root ELSE Child(B, K, f[n - 1], key[n])
           T == {m \in Nat : \E f : f = [n \in 0 .. m |-> Step(f, n)]}
<1>1. 0 \in T
  <2> DEFINE g == [n \in 0 .. 0 |-> Root]
  <2>1. g = [n \in 0 .. 0 |-> Step(g, n)]
    OBVIOUS
  <2> QED
    BY <2>1
<1>2. ASSUME NEW m \in Nat, m \in T
      PROVE  m + 1 \in T
  <2>1. PICK f : f = [n \in 0 .. m |-> Step(f, n)]
    BY <1>2
  <2> DEFINE g == [n \in 0 .. m + 1 |-> Step(f, n)]
  <2>2. ASSUME NEW n \in 0 .. m
        PROVE  g[n] = f[n]
    <3>1. n \in 0 .. m + 1
      OBVIOUS
    <3>2. f[n] = Step(f, n)
      BY <2>1
    <3> QED
      BY <3>1, <3>2
  <2>3. \A n \in 0 .. m + 1 : n # 0 => n - 1 \in 0 .. m
    OBVIOUS
  <2>4. \A n \in 0 .. m + 1 : Step(g, n) = Step(f, n)
    <3> HIDE DEF g
    <3> QED
      BY <2>2, <2>3
  <2>5. g = [n \in 0 .. m + 1 |-> Step(g, n)]
    <3> HIDE DEF Step
    <3> QED
      BY <2>4
  <2>6. \E e : e = [n \in 0 .. m + 1 |-> Step(e, n)]
    <3> HIDE DEF Step, g
    <3> QED
      BY <2>5
  <2>7. m + 1 \in Nat
    OBVIOUS
  <2> HIDE DEF Step
  <2> QED
    BY <2>6, <2>7
<1> HIDE DEF T
<1>3. L \in T
  BY <1>1, <1>2, NatSetInduction
<1> QED
  BY <1>3 DEF T, Leads

\* A path goes from node to node until it leads nowhere.
LEMMA PathUnfold ==
  ASSUME NEW B, NEW K, NEW C, NEW R, NEW N, Sound(B, K, C, R, N),
         NEW t, t.base = B, t.check = K, NEW key \in Seq(Char)
  PROVE  /\ Path(t, key)[0] = Root
         /\ \A n \in 1 .. Len(key) : n - 1 \in 0 .. Len(key) /\ key[n] \in Char
              /\ Path(t, key)[n] = Child(B, K, Path(t, key)[n - 1], key[n])
         /\ \A n \in 0 .. Len(key) : Path(t, key)[n] \in Node(K, N) \cup {0}
<1> DEFINE Rec(f) == [n \in 0 .. Len(key) |->
                        IF n = 0 THEN Root ELSE Child(B, K, f[n - 1], key[n])]
           p == CHOOSE f : f = Rec(f)
<1>1. Len(key) \in Nat /\ \A n \in 1 .. Len(key) : key[n] \in Char
  OBVIOUS
<1>2. \E f : f = Rec(f)
  <2>1. \E f : Leads(f, B, K, key, Len(key))
    BY <1>1, PathExists
  <2>2. ASSUME NEW f
        PROVE  Leads(f, B, K, key, Len(key)) <=> f = Rec(f)
    BY DEF Leads
  <2> QED
    BY <2>1, <2>2
<1>3. p = Rec(p)
  BY <1>2, Zenon
<1>4. Path(t, key) = p
  BY DEF Path, Child
<1> HIDE DEF p
<1>5. p[0] = Root
  BY <1>1, <1>3
<1>6. \A n \in 1 .. Len(key) : n - 1 \in 0 .. Len(key) /\ n \in 0 .. Len(key) /\ n # 0
  BY <1>1
<1>7. \A n \in 1 .. Len(key) : p[n] = Child(B, K, p[n - 1], key[n])
  <2> TAKE n \in 1 .. Len(key)
  <2>1. p[n] = Rec(p)[n]
    BY <1>3, Zenon
  <2> QED
    BY <1>6, <2>1
<1>8. \A i \in Node(K, N) \cup {0} : \A c \in Char : Child(B, K, i, c) \in Node(K, N) \cup {0}
  <2> SUFFICES ASSUME NEW i \in Node(K, N), NEW c \in Char, i # 0, K[B[i] + c] = i
               PROVE  B[i] + c \in Node(K, N)
    BY DEF Child
  <2>1. B[i] + c \in Index(N)
    BY Structure DEF Node
  <2> QED
    BY <2>1 DEF Node
<1> DEFINE T == {n \in Nat : n <= Len(key) => p[n] \in Node(K, N) \cup {0}}
<1>9. 0 \in T
  BY <1>5, Structure DEF Node
<1>10. ASSUME NEW n \in Nat, n \in T
       PROVE  n + 1 \in T
  <2> SUFFICES ASSUME n + 1 <= Len(key)
               PROVE  p[n + 1] \in Node(K, N) \cup {0}
    OBVIOUS
  <2>1. n + 1 \in 1 .. Len(key) /\ n + 1 - 1 = n /\ p[n] \in Node(K, N) \cup {0}
    BY <1>1, <1>10
  <2> QED
    BY <1>1, <1>7, <1>8, <2>1
<1> HIDE DEF T
<1>11. \A n \in Nat : n \in T
  BY <1>9, <1>10, NatSetInduction
<1>12. \A n \in 0 .. Len(key) : p[n] \in Node(K, N) \cup {0}
  BY <1>1, <1>11 DEF T
<1> QED
  BY <1>1, <1>4, <1>5, <1>6, <1>7, <1>12

\* The nodes of one trie are found again in another one, under the names h gives
\* them; the other one's own are the leaves in L, which hold nothing.
Embeds(B, K, R, N, B2, K2, R2, N2, h, L) ==
  /\ \A i \in Node(K, N) : h[i] \in Index(N2) /\ h[i] # 0 /\ R2[h[i]] = R[i]
  /\ h[Root] = Root
  /\ \A i \in Node(K, N) : \A c \in Char :
       IF K[B[i] + c] = i THEN K2[B2[h[i]] + c] = h[i] /\ B2[h[i]] + c = h[B[i] + c]
       ELSE K2[B2[h[i]] + c] = h[i] => B2[h[i]] + c \in L
  /\ \A l \in L : l \in Index(N2) /\ l # 0 /\ R2[l] = Null /\ \A c \in Char : K2[B2[l] + c] # l

LEMMA EmbeddedPath ==
  ASSUME NEW B, NEW K, NEW C, NEW R, NEW N, Sound(B, K, C, R, N),
         NEW B2, NEW K2, NEW C2, NEW R2, NEW N2, Sound(B2, K2, C2, R2, N2),
         NEW h, NEW L, Embeds(B, K, R, N, B2, K2, R2, N2, h, L),
         NEW t, t = Struct(B, K, C, R, N), NEW t2, t2 = Struct(B2, K2, C2, R2, N2),
         NEW key \in Seq(Char)
  PROVE  /\ Trie_Find(t2, key) = Trie_Find(t, key)
         /\ \A n \in 0 .. Len(key) :
              Path(t, key)[n] # 0 => Path(t2, key)[n] = h[Path(t, key)[n]]
<1>1. PICK p : p = Path(t, key)
  OBVIOUS
<1>2. PICK q : q = Path(t2, key)
  OBVIOUS
<1>3. t.base = B /\ t.check = K /\ t.record = R /\ t2.base = B2 /\ t2.check = K2 /\ t2.record = R2
  BY StructFields
<1>4. /\ p[0] = Root
      /\ \A n \in 1 .. Len(key) : n - 1 \in 0 .. Len(key) /\ key[n] \in Char
                                  /\ p[n] = Child(B, K, p[n - 1], key[n])
      /\ \A n \in 0 .. Len(key) : p[n] \in Node(K, N) \cup {0}
  BY <1>1, <1>3, PathUnfold
<1>5. /\ q[0] = Root
      /\ \A n \in 1 .. Len(key) : q[n] = Child(B2, K2, q[n - 1], key[n])
  BY <1>2, <1>3, PathUnfold
<1>6. Len(key) \in Nat /\ Root # 0 /\ K[0] = 0
  BY DEF Root, Sound, Double
<1> DEFINE Good(n) == IF p[n] # 0 THEN q[n] = h[p[n]] ELSE q[n] = 0 \/ q[n] \in L
           T == {n \in Nat : n <= Len(key) => Good(n)}
<1>7. 0 \in T
  BY <1>4, <1>5, <1>6 DEF Embeds
<1>8. ASSUME NEW n \in Nat, n \in T
      PROVE  n + 1 \in T
  <2> SUFFICES ASSUME n + 1 <= Len(key)
               PROVE  Good(n + 1)
    OBVIOUS
  <2>1. n + 1 \in 1 .. Len(key) /\ n + 1 - 1 = n /\ n \in 0 .. Len(key) /\ Good(n)
    BY <1>6, <1>8
  <2>2. PICK c \in Char : c = key[n + 1]
    BY <1>4, <2>1
  <2>3. PICK i : i = p[n]
    OBVIOUS
  <2>4. PICK j : j = q[n]
    OBVIOUS
  <2>5. i \in Node(K, N) \cup {0} /\ p[n + 1] = Child(B, K, i, c) /\ q[n + 1] = Child(B2, K2, j, c)
    BY <1>4, <1>5, <2>1, <2>2, <2>3, <2>4
  <2>6. IF i # 0 THEN j = h[i] ELSE j = 0 \/ j \in L
    BY <2>1, <2>3, <2>4
  <2>7. CASE i = 0
    <3>1. p[n + 1] = 0
      BY <2>5, <2>7 DEF Child
    <3>2. j = 0 \/ (j \in L /\ K2[B2[j] + c] # j)
      BY <2>6, <2>7 DEF Embeds
    <3>3. q[n + 1] = 0
      BY <2>5, <3>2 DEF Child
    <3> QED
      BY <3>1, <3>3
  <2>8. CASE i # 0 /\ K[B[i] + c] = i
    <3>1. p[n + 1] = B[i] + c /\ B[i] + c # 0
      <4>1. p[n + 1] = B[i] + c
        BY <2>5, <2>8 DEF Child
      <4>2. B[i] + c # 0
        BY <1>6, <2>8
      <4> QED
        BY <4>1, <4>2
    <3>2. j = h[i] /\ h[i] # 0 /\ K2[B2[h[i]] + c] = h[i] /\ B2[h[i]] + c = h[B[i] + c]
      BY <2>5, <2>6, <2>8 DEF Embeds
    <3>3. q[n + 1] = h[B[i] + c]
      BY <2>5, <3>2 DEF Child
    <3> QED
      BY <3>1, <3>3
  <2>9. CASE i # 0 /\ K[B[i] + c] # i
    <3>1. p[n + 1] = 0
      BY <2>5, <2>9 DEF Child
    <3>2. j = h[i] /\ (K2[B2[j] + c] = j => B2[j] + c \in L)
      BY <2>5, <2>6, <2>9 DEF Embeds
    <3>3. q[n + 1] = 0 \/ q[n + 1] \in L
      BY <2>5, <3>2 DEF Child
    <3> QED
      BY <3>1, <3>3
  <2> QED
    BY <2>7, <2>8, <2>9
<1> HIDE DEF T
<1>9. \A n \in Nat : n \in T
  BY <1>7, <1>8, NatSetInduction
<1>10. \A n \in 0 .. Len(key) : Good(n)
  BY <1>6, <1>9 DEF T
<1>11. Trie_Find(t2, key) = Trie_Find(t, key)
  <2>1. PICK i : i = p[Len(key)]
    OBVIOUS
  <2>2. PICK j : j = q[Len(key)]
    OBVIOUS
  <2>3. i \in Node(K, N) \cup {0} /\ IF i # 0 THEN j = h[i] ELSE j = 0 \/ j \in L
    BY <1>4, <1>6, <1>10, <2>1, <2>2
  <2>4. Trie_Find(t, key) = IF i = 0 THEN Null ELSE R[i]
    BY <1>1, <1>3, <2>1 DEF Trie_Find
  <2>5. Trie_Find(t2, key) = IF j = 0 THEN Null ELSE R2[j]
    BY <1>2, <1>3, <2>2 DEF Trie_Find
  <2> QED
    BY <2>3, <2>4, <2>5 DEF Embeds
<1> QED
  BY <1>1, <1>2, <1>10, <1>11

\* A node knows which characters lead to it: two keys meet in no node unless they
\* are the same that far.
LEMMA PathsApart ==
  ASSUME NEW B, NEW K, NEW C, NEW R, NEW N, Sound(B, K, C, R, N),
         NEW t, t.base = B, t.check = K, NEW k1 \in Seq(Char), NEW k2 \in Seq(Char),
         Path(t, k1)[Len(k1)] = Path(t, k2)[Len(k2)], Path(t, k1)[Len(k1)] # 0
  PROVE  k1 = k2
<1>1. PICK p : p = Path(t, k1)
  OBVIOUS
<1>2. PICK q : q = Path(t, k2)
  OBVIOUS
<1>3. /\ p[0] = Root
      /\ \A n \in 1 .. Len(k1) : n - 1 \in 0 .. Len(k1) /\ k1[n] \in Char
                                 /\ p[n] = Child(B, K, p[n - 1], k1[n])
      /\ \A n \in 0 .. Len(k1) : p[n] \in Node(K, N) \cup {0}
  BY <1>1, PathUnfold
<1>4. /\ q[0] = Root
      /\ \A n \in 1 .. Len(k2) : n - 1 \in 0 .. Len(k2) /\ k2[n] \in Char
                                 /\ q[n] = Child(B, K, q[n - 1], k2[n])
      /\ \A n \in 0 .. Len(k2) : q[n] \in Node(K, N) \cup {0}
  BY <1>2, PathUnfold
<1>5. Len(k1) \in Nat /\ Len(k2) \in Nat /\ K[Root] = 0 /\ Root # 0
  BY DEF Root, Sound, Double
<1>6. ASSUME NEW i \in Node(K, N) \cup {0}, NEW c \in Char, Child(B, K, i, c) # 0
      PROVE  /\ i # 0 /\ K[Child(B, K, i, c)] = i /\ Child(B, K, i, c) # Root
             /\ i \in Index(N) /\ Child(B, K, i, c) = B[i] + c
  <2>1. i # 0 /\ K[B[i] + c] = i /\ Child(B, K, i, c) = B[i] + c
    BY <1>6 DEF Child
  <2> QED
    BY <1>5, <2>1 DEF Node
<1> DEFINE Same(m, n) == m = n /\ \A x \in 1 .. m : k1[x] = k2[x]
           T == {m \in Nat : m <= Len(k1) =>
                   \A n \in 0 .. Len(k2) : p[m] # 0 /\ p[m] = q[n] => Same(m, n)}
<1>7. 0 \in T
  <2> SUFFICES ASSUME NEW n \in 0 .. Len(k2), p[0] = q[n], n # 0
               PROVE  FALSE
    OBVIOUS
  <2>1. n \in 1 .. Len(k2) /\ n - 1 \in 0 .. Len(k2)
    BY <1>5
  <2>2. q[n] = Child(B, K, q[n - 1], k2[n]) /\ k2[n] \in Char /\ q[n - 1] \in Node(K, N) \cup {0}
    BY <1>4, <2>1
  <2>3. q[n] = Root
    BY <1>3
  <2> QED
    BY <1>5, <1>6, <2>2, <2>3
<1>8. ASSUME NEW m \in Nat, m \in T
      PROVE  m + 1 \in T
  <2> SUFFICES ASSUME m + 1 <= Len(k1), NEW n \in 0 .. Len(k2), p[m + 1] # 0, p[m + 1] = q[n]
               PROVE  Same(m + 1, n)
    OBVIOUS
  <2>1. m + 1 \in 1 .. Len(k1) /\ m + 1 - 1 = m /\ m \in 0 .. Len(k1)
    BY <1>5
  <2>2. PICK c \in Char : c = k1[m + 1]
    BY <1>3, <2>1
  <2>3. PICK i : i = p[m]
    OBVIOUS
  <2>4. p[m + 1] = Child(B, K, i, c) /\ i \in Node(K, N) \cup {0}
    BY <1>3, <2>1, <2>2, <2>3
  <2>5. i # 0 /\ K[p[m + 1]] = i /\ p[m + 1] # Root /\ i \in Index(N) /\ p[m + 1] = B[i] + c
    BY <1>6, <2>4
  <2>6. n \in 1 .. Len(k2) /\ n - 1 \in 0 .. Len(k2)
    <3>1. n # 0
      BY <1>4, <2>5
    <3> QED
      BY <1>5, <3>1
  <2>7. PICK e \in Char : e = k2[n]
    BY <1>4, <2>6
  <2>8. PICK j : j = q[n - 1]
    OBVIOUS
  <2>9. q[n] = Child(B, K, j, e) /\ j \in Node(K, N) \cup {0}
    BY <1>4, <2>6, <2>7, <2>8
  <2>10. K[q[n]] = j /\ q[n] = B[j] + e
    BY <1>6, <2>9
  <2>11. i = j
    BY <2>5, <2>10
  <2>12. c = e
    <3>1. B[i] \in Nat /\ c \in Nat /\ e \in Nat
      BY <2>5, Structure, Chars
    <3>2. B[i] + c = B[i] + e
      BY <2>5, <2>10, <2>11
    <3> QED
      BY <3>1, <3>2
  <2>13. Same(m, n - 1)
    <3>1. m <= Len(k1)
      BY <2>1
    <3> QED
      BY <1>8, <2>3, <2>5, <2>6, <2>8, <2>11, <3>1
  <2>14. n = m + 1
    BY <2>6, <2>13
  <2>15. \A x \in 1 .. m + 1 : x \in 1 .. m \/ x = m + 1
    OBVIOUS
  <2>16. k1[m + 1] = k2[m + 1] /\ \A x \in 1 .. m : k1[x] = k2[x]
    BY <2>2, <2>7, <2>12, <2>13, <2>14
  <2> QED
    BY <2>14, <2>15, <2>16
<1> HIDE DEF T
<1>9. Len(k1) \in T
  BY <1>5, <1>7, <1>8, NatSetInduction
<1>10. Len(k1) = Len(k2) /\ \A x \in 1 .. Len(k1) : k1[x] = k2[x]
  <2>1. p[Len(k1)] # 0 /\ p[Len(k1)] = q[Len(k2)] /\ Len(k2) \in 0 .. Len(k2)
    BY <1>1, <1>2, <1>5
  <2> QED
    BY <1>5, <1>9, <2>1 DEF T
<1> QED
  BY <1>10, SeqEqual

-----------------------------------------------------------------------------
(* What each change does to the paths *)

\* The nodes keep their names, however many slots there are.
Names(K, N) == [i \in Node(K, N) |-> i]

LEMMA BaseEmbeds ==
  ASSUME NEW B, NEW K, NEW C, NEW R, NEW N, Sound(B, K, C, R, N),
         NEW idx \in Node(K, N), Range(C[idx]) = {},
         NEW b \in Nat, b + CharMax < N
  PROVE  Embeds(B, K, R, N, [B EXCEPT ![idx] = b], K, R, N, Names(K, N), {})
<1>1. PICK B2 : B2 = [B EXCEPT ![idx] = b]
  OBVIOUS
<1>2. B2[idx] = b /\ \A i \in Index(N) \ {idx} : B2[i] = B[i]
  BY <1>1 DEF Sound, Typed, Node
<1>3. \A j \in Index(N) : K[j] # idx
  <2> SUFFICES ASSUME NEW j \in Index(N), K[j] = idx
               PROVE  FALSE
    OBVIOUS
  <2>1. idx # 0
    BY DEF Node, Root, Sound, Double
  <2>2. \E c \in Range(C[K[j]]) : j = B[K[j]] + c
    BY <2>1 DEF Sound, Double
  <2> QED
    BY <2>2
<1>4. \A i \in Node(K, N) : i \in Index(N) /\ i # 0 /\ Names(K, N)[i] = i
  BY DEF Node, Root, Names, Sound, Double
<1>5. ASSUME NEW i \in Node(K, N), NEW c \in Char
      PROVE  IF K[B[i] + c] = i THEN K[B2[i] + c] = i /\ B2[i] + c = Names(K, N)[B[i] + c]
             ELSE K[B2[i] + c] # i
  <2>1. B[i] + c \in Index(N)
    BY <1>4, Structure
  <2>2. CASE i = idx
    <3>1. b + c \in Index(N)
      <4>1. c \in Nat /\ c <= CharMax /\ CharMax \in Nat /\ N \in Nat
        BY Chars, Structure
      <4> QED
        BY <4>1 DEF Index
    <3> QED
      BY <1>2, <1>3, <2>1, <2>2, <3>1
  <2>3. CASE i # idx
    <3>1. B2[i] = B[i]
      BY <1>2, <1>4, <2>3
    <3>2. K[B[i] + c] = i => B[i] + c \in Node(K, N)
      BY <1>4, <2>1 DEF Node
    <3> QED
      BY <1>4, <3>1, <3>2
  <2> QED
    BY <2>2, <2>3
<1>6. Root \in Node(K, N)
  BY Structure DEF Node
<1> QED
  BY <1>1, <1>4, <1>5, <1>6 DEF Embeds

LEMMA LeafEmbeds ==
  ASSUME NEW B, NEW K, NEW C, NEW R, NEW N, Sound(B, K, C, R, N),
         NEW idx \in Node(K, N), B[idx] >= 1,
         NEW ch \in Char, ch \notin Range(C[idx]), K[B[idx] + ch] = 0, B[idx] + ch # Root
  PROVE  Embeds(B, K, R, N, B, [K EXCEPT ![B[idx] + ch] = idx], R, N,
                Names(K, N), {B[idx] + ch})
<1>1. PICK leaf : leaf = B[idx] + ch
  OBVIOUS
<1>2. PICK K2 : K2 = [K EXCEPT ![leaf] = idx]
  OBVIOUS
<1>3. leaf \in Index(N) /\ leaf # 0 /\ leaf # Root /\ R[leaf] = Null /\ leaf # idx /\ idx # 0
  <2>1. B[idx] \in Nat /\ ch \in Nat
    BY Structure, Chars DEF Node
  <2>2. leaf \in Index(N)
    BY <1>1, Structure DEF Node
  <2>3. leaf # 0 /\ leaf # Root
    BY <1>1, <2>1 DEF Root
  <2>4. idx # 0 /\ leaf # idx
    BY <1>1, <2>3 DEF Node, Root, Sound, Double
  <2> QED
    BY <1>1, <2>2, <2>3, <2>4 DEF Sound, Double
<1>4. K2[leaf] = idx /\ \A i \in Index(N) \ {leaf} : K2[i] = K[i]
  BY <1>2, <1>3 DEF Sound, Typed
<1>5. \A i \in Node(K, N) : i \in Index(N) /\ i # 0 /\ Names(K, N)[i] = i
  BY DEF Node, Root, Names, Sound, Double
<1>6. ASSUME NEW i \in Node(K, N), NEW c \in Char
      PROVE  IF K[B[i] + c] = i THEN K2[B[i] + c] = i /\ B[i] + c = Names(K, N)[B[i] + c]
             ELSE K2[B[i] + c] = i => B[i] + c = leaf
  <2>1. PICK j \in Index(N) : j = B[i] + c
    BY <1>5, Structure
  <2>2. K[j] = i => j # leaf /\ j \in Node(K, N)
    BY <1>1, <1>5 DEF Node
  <2> QED
    BY <1>4, <1>5, <2>1, <2>2
<1>7. \A c \in Char : K2[B[leaf] + c] # leaf
  <2> TAKE c \in Char
  <2>1. PICK j \in Index(N) : j = B[leaf] + c
    BY <1>3, Structure
  <2>2. K[j] # leaf
    <3> SUFFICES ASSUME K[j] = leaf
                 PROVE  FALSE
      OBVIOUS
    <3>1. leaf = Root \/ K[leaf] # 0
      BY <1>3 DEF Sound, Double
    <3> QED
      BY <1>1, <1>3, <3>1
  <2> QED
    BY <1>3, <1>4, <2>1, <2>2
<1>8. Root \in Node(K, N)
  BY Structure DEF Node
<1> QED
  BY <1>1, <1>2, <1>3, <1>5, <1>6, <1>7, <1>8 DEF Embeds

LEMMA MoveEmbeds ==
  ASSUME NEW B, NEW K, NEW C, NEW R, NEW N, Sound(B, K, C, R, N),
         NEW idx, NEW V, NEW d, NEW b, Room(B, K, C, N, idx, V, d, b)
  PROVE  Embeds(B, K, R, N, MovedB(B, V, d, idx, b, N), MovedK(K, V, d, idx, N),
                MovedF(R, V, d, Null, N), N, [i \in Node(K, N) |-> Ren(V, d, i)], {})
<1>1. PICK B2 : B2 = MovedB(B, V, d, idx, b, N)
  OBVIOUS
<1>2. PICK C2 : C2 = MovedF(C, V, d, <<>>, N)
  OBVIOUS
<1>3. PICK R2 : R2 = MovedF(R, V, d, Null, N)
  OBVIOUS
<1>4. PICK K2 : K2 = MovedK(K, V, d, idx, N)
  OBVIOUS
<1>5. /\ idx \in Index(N) /\ idx # 0 /\ (idx = Root \/ K[idx] # 0)
      /\ idx \notin V /\ idx - d \notin V
      /\ 0 \in Index(N) /\ Root \in Index(N)
      /\ K[0] = 0 /\ K[Root] = 0 /\ 0 \notin V /\ 0 - d \notin V /\ Root \notin V /\ Root - d \notin V
  BY <1>1, <1>2, <1>3, <1>4, MovedArrays
<1>6. ASSUME NEW i \in Index(N), i - d \in V
      PROVE  /\ i - d \in Index(N) /\ (i - d) + d = i
             /\ K[i - d] = idx /\ K[i] = 0 /\ i \notin V
             /\ B2[i] = B[i - d] /\ R2[i] = R[i - d] /\ K2[i] = idx
  BY <1>1, <1>2, <1>3, <1>4, <1>6, MovedArrays
<1>7. ASSUME NEW i \in V
      PROVE  /\ i \in Index(N) /\ K[i] = idx /\ i + d \in Index(N) /\ (i + d) - d = i
             /\ i - d \notin V /\ K2[i] = 0
  BY <1>1, <1>2, <1>3, <1>4, MovedArrays
<1>8. ASSUME NEW i \in Index(N), i \notin V, i - d \notin V
      PROVE  /\ R2[i] = R[i] /\ K2[i] = Ren(V, d, K[i])
             /\ i # idx => B2[i] = B[i]
             /\ i = idx => B2[i] = b
  BY <1>1, <1>2, <1>3, <1>4, <1>8, MovedArrays
<1>9. /\ B[idx] \in Nat /\ b \in Nat /\ d \in Int /\ B[idx] + d = b
      /\ \A i \in Index(N) : i \in Nat /\ K[i] \in Index(N) /\ \A c \in Char : B[i] + c \in Index(N)
      /\ \A c \in Char : c \in Nat
  <2>1. B[idx] \in Nat /\ b \in Nat /\ d \in Int /\ B[idx] + d = b
    BY Apart
  <2>2. \A i \in Index(N) : K[i] \in Index(N)
    BY DEF Sound, Typed
  <2>3. \A i \in Index(N) : i \in Nat /\ \A c \in Char : B[i] + c \in Index(N)
    BY Structure
  <2> QED
    BY <2>1, <2>2, <2>3, Chars
<1> DEFINE h == [i \in Node(K, N) |-> Ren(V, d, i)]
<1>10. ASSUME NEW i \in Node(K, N)
       PROVE  /\ i \in Index(N) /\ i # 0 /\ i - d \notin V /\ h[i] = Ren(V, d, i)
              /\ i \in V \/ (i \notin V /\ h[i] = i)
  <2>1. i \in Index(N) /\ (i = Root \/ K[i] # 0)
    BY DEF Node
  <2>2. i # 0 /\ i - d \notin V
    BY <1>5, <1>6, <2>1 DEF Root
  <2> QED
    BY <2>1, <2>2 DEF Ren
<1> HIDE DEF h
<1>11. \A i \in Node(K, N) : h[i] \in Index(N) /\ h[i] # 0 /\ R2[h[i]] = R[i]
  <2> TAKE i \in Node(K, N)
  <2>1. CASE i \in V
    <3>1. PICK n \in Index(N) : n = i + d
      BY <1>7, <2>1
    <3>2. h[i] = n
      BY <1>10, <2>1, <3>1 DEF Ren
    <3>3. n - d = i
      BY <1>7, <2>1, <3>1, <1>9
    <3>4. R2[n] = R[i]
      BY <1>6, <2>1, <3>3
    <3>5. n # 0
      BY <1>5, <2>1, <3>3
    <3> QED
      BY <3>2, <3>4, <3>5
  <2>2. CASE i \notin V
    BY <1>8, <1>10, <2>2
  <2> QED
    BY <2>1, <2>2
<1>12. h[Root] = Root
  <2>1. Root \in Node(K, N)
    BY <1>5 DEF Node
  <2> QED
    BY <1>5, <1>10, <2>1
\* The parent of a child, when the nodes have their new names.
<1>13. ASSUME NEW j \in Index(N), K[j] # 0
       PROVE  j \in Node(K, N) /\ K[j] \in Node(K, N) /\ \E c \in Range(C[K[j]]) : j = B[K[j]] + c
  BY <1>9, <1>13 DEF Node, Sound, Double
<1>14. ASSUME NEW i \in Node(K, N), NEW c \in Char
       PROVE  IF K[B[i] + c] = i THEN K2[B2[h[i]] + c] = h[i] /\ B2[h[i]] + c = h[B[i] + c]
              ELSE K2[B2[h[i]] + c] # h[i]
  <2>1. PICK j \in Index(N) : j = B[i] + c
    BY <1>9, <1>10
  <2>2. CASE i = idx
    <3>1. h[i] = idx /\ B2[idx] = b
      BY <1>5, <1>8, <1>10, <2>2
    <3>2. PICK k : k = b + c
      OBVIOUS
    <3>3. k = j + d /\ k - d = j
      BY <1>9, <2>1, <2>2, <3>2
    <3>4. CASE K[j] = idx
      <4>1. j \in V
        <5>1. \E e \in Range(C[idx]) : j = B[idx] + e
          BY <1>5, <1>13, <3>4
        <5> QED
          BY <5>1 DEF Room
      <4>2. k \in Index(N)
        BY <1>7, <3>3, <4>1
      <4>3. K2[k] = idx
        BY <1>6, <3>3, <4>1, <4>2
      <4>4. h[j] = k
        <5>1. j \in Node(K, N)
          BY <1>5, <1>13, <3>4
        <5> QED
          BY <1>10, <3>3, <4>1, <5>1 DEF Ren
      <4> QED
        BY <2>1, <2>2, <3>1, <3>2, <3>4, <4>3, <4>4
    <3>5. CASE K[j] # idx
      <4>1. k \in Index(N)
        <5>1. b + CharMax + 1 < N /\ b \in Nat /\ N \in Nat /\ CharMax \in Nat
          BY Structure DEF Room
        <5>2. c \in Nat /\ c <= CharMax
          BY Chars
        <5> QED
          BY <3>2, <5>1, <5>2 DEF Index
      <4>2. k - d \notin V
        BY <1>7, <3>3, <3>5
      <4>3. CASE k \in V
        BY <1>5, <1>7, <2>1, <2>2, <3>1, <3>2, <3>5, <4>3
      <4>4. CASE k \notin V
        <5>1. K2[k] = Ren(V, d, K[k])
          BY <1>8, <4>1, <4>2, <4>4
        <5>2. K[k] # idx
          <6> SUFFICES ASSUME K[k] = idx
                       PROVE  FALSE
            OBVIOUS
          <6>1. \E e \in Range(C[idx]) : k = B[idx] + e
            BY <1>5, <1>13, <4>1
          <6> QED
            BY <4>4, <6>1 DEF Room
        <5>3. K[k] \in V => K[k] + d # idx
          <6> SUFFICES ASSUME K[k] \in V, K[k] + d = idx
                       PROVE  FALSE
            OBVIOUS
          <6>1. idx - d = K[k]
            BY <1>7
          <6> QED
            BY <1>5, <6>1
        <5>4. K2[k] # idx
          BY <5>1, <5>2, <5>3 DEF Ren
        <5> QED
          BY <2>1, <2>2, <3>1, <3>2, <3>5, <5>4
      <4> QED
        BY <4>3, <4>4
    <3> QED
      BY <3>4, <3>5
  <2>3. CASE i \in V
    <3>1. PICK n \in Index(N) : n = i + d
      BY <1>7, <2>3
    <3>2. n - d = i /\ h[i] = n
      BY <1>7, <1>9, <1>10, <2>3, <3>1 DEF Ren
    <3>3. B2[n] = B[i] /\ K[n] = 0 /\ n # Root /\ n # 0 /\ n # idx
      BY <1>5, <1>6, <2>3, <3>2
    <3>4. i # idx /\ i # 0
      BY <1>5, <2>3
    <3>5. CASE K[j] = i
      <4>1. j \notin V /\ j - d \notin V
        BY <1>6, <1>7, <3>4, <3>5
      <4>2. K2[j] = n
        BY <1>8, <2>3, <3>1, <3>5, <4>1 DEF Ren
      <4>3. h[j] = j
        <5>1. j \in Node(K, N)
          BY <1>13, <3>4, <3>5
        <5> QED
          BY <1>10, <4>1, <5>1
      <4> QED
        BY <2>1, <3>2, <3>3, <3>5, <4>2, <4>3
    <3>6. CASE K[j] # i
      <4>1. K2[j] # n
        <5>1. CASE j - d \in V
          BY <1>6, <3>3, <5>1
        <5>2. CASE j \in V
          BY <1>7, <3>3, <5>2
        <5>3. CASE j \notin V /\ j - d \notin V
          <6>1. K2[j] = Ren(V, d, K[j])
            BY <1>8, <5>3
          <6>2. K[j] \in V => K[j] + d # n
            <7> SUFFICES ASSUME K[j] \in V, K[j] + d = n
                         PROVE  FALSE
              OBVIOUS
            <7>1. n - d = K[j]
              BY <1>7
            <7> QED
              BY <3>2, <3>6, <7>1
          <6>3. K[j] # n
            BY <1>13, <3>3 DEF Node
          <6> QED
            BY <6>1, <6>2, <6>3 DEF Ren
        <5> QED
          BY <5>1, <5>2, <5>3
      <4> QED
        BY <2>1, <3>2, <3>3, <3>6, <4>1
    <3> QED
      BY <3>5, <3>6
  <2>4. CASE i \notin V /\ i # idx
    <3>1. h[i] = i /\ B2[i] = B[i] /\ i # 0 /\ i - d \notin V
      BY <1>8, <1>10, <2>4
    <3>2. CASE K[j] = i
      <4>1. j \notin V /\ j - d \notin V
        BY <1>6, <1>7, <2>4, <3>1, <3>2
      <4>2. K2[j] = i
        BY <1>8, <2>4, <3>2, <4>1 DEF Ren
      <4>3. h[j] = j
        <5>1. j \in Node(K, N)
          BY <1>13, <3>1, <3>2
        <5> QED
          BY <1>10, <4>1, <5>1
      <4> QED
        BY <2>1, <3>1, <3>2, <4>2, <4>3
    <3>3. CASE K[j] # i
      <4>1. K2[j] # i
        <5>1. CASE j - d \in V
          BY <1>6, <2>4, <5>1
        <5>2. CASE j \in V
          BY <1>7, <3>1, <5>2
        <5>3. CASE j \notin V /\ j - d \notin V
          <6>1. K2[j] = Ren(V, d, K[j])
            BY <1>8, <5>3
          <6>2. K[j] \in V => K[j] + d # i
            <7> SUFFICES ASSUME K[j] \in V, K[j] + d = i
                         PROVE  FALSE
              OBVIOUS
            <7>1. i - d = K[j]
              BY <1>7
            <7> QED
              BY <3>1, <7>1
          <6> QED
            BY <3>3, <6>1, <6>2 DEF Ren
        <5> QED
          BY <5>1, <5>2, <5>3
      <4> QED
        BY <2>1, <3>1, <3>3, <4>1
    <3> QED
      BY <3>2, <3>3
  <2> QED
    BY <2>2, <2>3, <2>4
<1> QED
  BY <1>1, <1>3, <1>4, <1>11, <1>12, <1>14 DEF Embeds, h

-----------------------------------------------------------------------------
(* More slots *)

Grown(F, zero, N) == [i \in Index(2 * N) |-> IF i < N THEN F[i] ELSE zero]

LEMMA ExpandIs ==
  ASSUME NEW B, NEW K, NEW C, NEW R, NEW N
  PROVE  Trie_Expand(Struct(B, K, C, R, N))
           = Struct(Grown(B, 0, N), Grown(K, 0, N), Grown(C, <<>>, N), Grown(R, Null, N), 2 * N)
  BY StructFields DEF Trie_Expand, Struct, Grown, Index

\* The new slots are free, and nothing else has changed.
LEMMA ExpandSound ==
  ASSUME NEW B, NEW K, NEW C, NEW R, NEW N, Sound(B, K, C, R, N)
  PROVE  /\ Sound(Grown(B, 0, N), Grown(K, 0, N), Grown(C, <<>>, N), Grown(R, Null, N), 2 * N)
         /\ Embeds(B, K, R, N, Grown(B, 0, N), Grown(K, 0, N), Grown(R, Null, N), 2 * N,
                   Names(K, N), {})
         /\ Node(K, N) \subseteq Node(Grown(K, 0, N), 2 * N)
         /\ \A i \in Index(N) : i \in Index(2 * N)
              /\ Grown(B, 0, N)[i] = B[i] /\ Grown(C, <<>>, N)[i] = C[i] /\ Grown(K, 0, N)[i] = K[i]
         /\ \A i \in Index(2 * N) : i >= N => Grown(K, 0, N)[i] = 0
<1>1. PICK M2 : M2 = 2 * N
  OBVIOUS
<1>2. PICK B2 : B2 = Grown(B, 0, N)
  OBVIOUS
<1>3. PICK K2 : K2 = Grown(K, 0, N)
  OBVIOUS
<1>4. PICK C2 : C2 = Grown(C, <<>>, N)
  OBVIOUS
<1>5. PICK R2 : R2 = Grown(R, Null, N)
  OBVIOUS
<1>6. N \in Nat /\ CharMax \in Nat /\ CharMax + 1 < N /\ M2 \in Nat /\ N < M2 /\ CharMax + 1 < M2
  <2>1. N \in Nat /\ CharMax \in Nat /\ CharMax + 1 < N
    BY Structure
  <2> QED
    BY <1>1, <2>1
<1>7. ASSUME NEW i \in Index(N)
      PROVE  i \in Index(M2) /\ B2[i] = B[i] /\ K2[i] = K[i] /\ C2[i] = C[i] /\ R2[i] = R[i]
  <2>1. i \in Index(M2) /\ i < N
    BY <1>6 DEF Index
  <2> QED
    BY <1>1, <1>2, <1>3, <1>4, <1>5, <2>1 DEF Grown
<1>8. ASSUME NEW i \in Index(M2), i \notin Index(N)
      PROVE  B2[i] = 0 /\ K2[i] = 0 /\ C2[i] = <<>> /\ R2[i] = Null
  <2>1. ~(i < N)
    BY <1>6, <1>8 DEF Index
  <2> QED
    BY <1>1, <1>2, <1>3, <1>4, <1>5, <2>1 DEF Grown
<1>9. 0 \in Index(N) /\ Root \in Index(N)
  BY Structure
<1>10. Typed(B2, K2, C2, R2, M2)
  <2>1. \A i \in Index(N) : /\ B[i] \in Nat /\ B[i] + CharMax < N /\ K[i] \in Index(N)
                            /\ C[i] \in Seq(Char) /\ R[i] \in Record \cup {Null}
    BY DEF Sound, Typed
  <2>2. <<>> \in Seq(Char) /\ 0 \in Nat /\ 0 \in Index(M2) /\ 0 + CharMax < M2
    BY <1>6 DEF Index
  <2>3. \A i \in Index(M2) : /\ B2[i] \in Nat /\ B2[i] + CharMax < M2 /\ K2[i] \in Index(M2)
                             /\ C2[i] \in Seq(Char) /\ R2[i] \in Record \cup {Null}
    <3> TAKE i \in Index(M2)
    <3>1. CASE i \in Index(N)
      <4>1. B[i] + CharMax < M2
        BY <1>6, <2>1, <3>1
      <4> QED
        BY <1>7, <2>1, <3>1, <4>1
    <3>2. CASE i \notin Index(N)
      BY <1>8, <2>2, <3>2
    <3> QED
      BY <3>1, <3>2
  <2>4. B2 = [i \in Index(M2) |-> B2[i]] /\ K2 = [i \in Index(M2) |-> K2[i]]
    BY <1>1, <1>2, <1>3 DEF Grown
  <2>5. C2 = [i \in Index(M2) |-> C2[i]] /\ R2 = [i \in Index(M2) |-> R2[i]]
    BY <1>1, <1>4, <1>5 DEF Grown
  <2>6. /\ B2 \in [Index(M2) -> Nat] /\ K2 \in [Index(M2) -> Index(M2)]
        /\ C2 \in [Index(M2) -> Seq(Char)] /\ R2 \in [Index(M2) -> Record \cup {Null}]
    BY <2>3, <2>4, <2>5
  <2>7. 2 * M2 > 3 * (CharMax + 1)
    BY <1>1, <1>6 DEF Sound, Typed
  <2> QED
    BY <1>6, <2>3, <2>6, <2>7 DEF Typed
<1>11. K2[0] = 0 /\ K2[Root] = 0
  BY <1>7, <1>9 DEF Sound, Double
<1>12. ASSUME NEW i \in Index(M2), NEW c \in Range(C2[i])
       PROVE  B2[i] >= 1 /\ K2[B2[i] + c] = i
  <2>1. i \in Index(N)
    BY <1>8, EmptyRange
  <2>2. c \in Range(C[i]) /\ B2[i] = B[i]
    BY <1>7, <2>1
  <2>3. B[i] + c \in Index(N)
    BY <2>1, <2>2, Structure
  <2> QED
    BY <1>7, <2>1, <2>2, <2>3 DEF Sound, Double
<1>13. ASSUME NEW j \in Index(M2), K2[j] # 0
       PROVE  /\ K2[j] = Root \/ K2[K2[j]] # 0
              /\ \E c \in Range(C2[K2[j]]) : j = B2[K2[j]] + c
              /\ K2[j] # j
  <2>1. j \in Index(N)
    BY <1>8, <1>13
  <2>2. K2[j] = K[j] /\ K[j] \in Index(N) /\ K[j] # 0
    BY <1>7, <1>13, <2>1 DEF Sound, Typed
  <2>3. /\ K[j] = Root \/ K[K[j]] # 0
        /\ \E c \in Range(C[K[j]]) : j = B[K[j]] + c
        /\ K[j] # j
    BY <2>1, <2>2 DEF Sound, Double
  <2> QED
    BY <1>7, <2>2, <2>3
<1>14. ASSUME NEW i \in Index(M2)
       PROVE  /\ IsInjective(C2[i])
              /\ K2[i] = 0 /\ i # Root => B2[i] = 0 /\ C2[i] = <<>> /\ R2[i] = Null
  <2>1. CASE i \in Index(N)
    BY <1>7, <2>1 DEF Sound, Double
  <2>2. CASE i \notin Index(N)
    BY <1>8, <2>2, EmptyRange
  <2> QED
    BY <2>1, <2>2
<1>15. Double(B2, K2, C2, R2, M2)
  BY <1>11, <1>12, <1>13, <1>14 DEF Double
<1>16. \A i \in Node(K, N) : i \in Index(N) /\ i # 0 /\ Names(K, N)[i] = i
  BY DEF Node, Root, Names, Sound, Double
<1>17. ASSUME NEW i \in Node(K, N), NEW c \in Char
       PROVE  IF K[B[i] + c] = i THEN K2[B2[i] + c] = i /\ B2[i] + c = Names(K, N)[B[i] + c]
              ELSE K2[B2[i] + c] # i
  <2>1. PICK j \in Index(N) : j = B[i] + c
    BY <1>16, Structure
  <2>2. K[j] = i => j \in Node(K, N)
    BY <1>16 DEF Node
  <2> QED
    BY <1>7, <1>16, <2>1, <2>2
<1>18. Root \in Node(K, N)
  BY <1>9 DEF Node
<1>19. Embeds(B, K, R, N, B2, K2, R2, M2, Names(K, N), {})
  BY <1>7, <1>16, <1>17, <1>18 DEF Embeds
<1>20. Node(K, N) \subseteq Node(K2, M2)
  BY <1>7 DEF Node
<1>21. \A i \in Index(M2) : i >= N => K2[i] = 0
  <2> TAKE i \in Index(M2)
  <2> HAVE i >= N
  <2>1. i \notin Index(N)
    BY <1>6 DEF Index
  <2> QED
    BY <1>8, <2>1
<1> QED
  BY <1>1, <1>2, <1>3, <1>4, <1>5, <1>7, <1>10, <1>15, <1>19, <1>20, <1>21 DEF Sound

-----------------------------------------------------------------------------
(* The search for a base *)

LEMMA LeastOf ==
  ASSUME NEW S \in SUBSET Nat, S # {}
  PROVE  Min(S) \in S
<1>1. \E x \in S : \A y \in S : x <= y
  BY LeastNat
<1> QED
  BY <1>1 DEF Min

\* A base that is found has room for the new child, and for a plain list.
LEMMA SearchFinds ==
  ASSUME NEW B, NEW K, NEW C, NEW R, NEW N, Sound(B, K, C, R, N),
         NEW t, t = Struct(B, K, C, R, N), NEW idx \in Node(K, N), NEW ch \in Char,
         NEW b, b \in Trie_SearchAvailableBaseValue(t, idx, ch)
  PROVE  /\ b = -1 \/ (/\ b \in Nat /\ b >= 1 /\ b >= B[idx] /\ b + CharMax + 1 < N
                       /\ K[b + ch] = 0
                       /\ Plain(C[idx]) => \A c \in Range(C[idx]) : K[b + c] = 0)
         /\ \A x \in Nat : /\ idx + CharMax + 1 < N
                           /\ x >= 1 /\ x >= B[idx] /\ x + CharMax + 1 < N /\ K[x + ch] = 0
                           /\ \A c \in CharList_All(C[idx]) : x + c >= 0 /\ K[x + c] = 0
                           => b # -1
<1>1. t.base = B /\ t.check = K /\ t.children = C /\ t.size = N
  BY StructFields
<1>2. /\ idx \in Index(N) /\ idx \in Nat /\ B[idx] \in Nat /\ N \in Nat /\ CharMax \in Nat
      /\ Range(C[idx]) \in SUBSET Char
      /\ Plain(C[idx]) => CharList_All(C[idx]) = Range(C[idx])
  BY Structure DEF Node
<1>3. PICK first \in Nat : first = IF B[idx] = 0 THEN 1 ELSE B[idx]
  BY <1>2
<1>4. PICK last \in Int : last = N - CharMax - 1
  BY <1>2
<1>5. PICK bases : bases = IF idx >= last THEN {} ELSE first .. (last - 1)
  OBVIOUS
<1>6. PICK sure : sure = {x \in bases : Fits(t, idx, ch, x, FALSE)}
  OBVIOUS
<1>7. b \in {x \in bases : Fits(t, idx, ch, x, TRUE) /\ \A s \in sure : x <= s}
           \cup (IF sure = {} THEN {-1} ELSE {})
  BY <1>1, <1>3, <1>4, <1>5, <1>6 DEF Trie_SearchAvailableBaseValue
<1>8. \A x \in bases : x \in Nat /\ x >= 1 /\ x >= B[idx] /\ x + CharMax + 1 < N
  BY <1>2, <1>3, <1>4, <1>5
<1>9. ASSUME b # -1
      PROVE  /\ b \in Nat /\ b >= 1 /\ b >= B[idx] /\ b + CharMax + 1 < N
             /\ K[b + ch] = 0
             /\ Plain(C[idx]) => \A c \in Range(C[idx]) : K[b + c] = 0
  <2>1. b \in bases /\ Fits(t, idx, ch, b, TRUE)
    BY <1>7, <1>9
  <2>2. b \in Nat /\ b >= 1 /\ b >= B[idx] /\ b + CharMax + 1 < N
    BY <1>8, <2>1
  <2>3. K[b + ch] = 0
    BY <1>1, <2>1 DEF Fits
  <2>4. ASSUME Plain(C[idx]), NEW c \in Range(C[idx])
        PROVE  K[b + c] = 0
    <3>1. c \in CharList_All(C[idx])
      BY <1>2, <2>4
    <3>2. ~(b + c < 0)
      BY <1>2, <2>2, Chars
    <3> QED
      BY <1>1, <2>1, <3>1, <3>2 DEF Fits
  <2> QED
    BY <2>2, <2>3, <2>4
<1>10. ASSUME NEW x \in Nat, idx + CharMax + 1 < N, x >= 1, x >= B[idx], x + CharMax + 1 < N,
              K[x + ch] = 0, \A c \in CharList_All(C[idx]) : x + c >= 0 /\ K[x + c] = 0
       PROVE  b # -1
  <2>1. x \in bases
    BY <1>2, <1>3, <1>4, <1>5, <1>10
  <2>2. \A c \in CharList_All(C[idx]) : ~(x + c < 0)
    <3>1. \A c \in CharList_All(C[idx]) : c \in Int
      BY <1>2, SignedIs DEF CharList_All
    <3> QED
      BY <1>10, <3>1
  <2>3. Fits(t, idx, ch, x, FALSE)
    BY <1>1, <1>10, <2>2 DEF Fits
  <2>4. sure # {}
    BY <1>6, <2>1, <2>3
  <2>5. b \in bases
    BY <1>7, <2>4
  <2> QED
    BY <1>8, <2>5
<1> QED
  BY <1>9, <1>10

-----------------------------------------------------------------------------
(* One more node *)

\* What happens to t in t2 changes no search, and a key that leads to idx still does.
Keeps(t, t2, idx) ==
  \A k \in Seq(Char) :
    /\ Trie_Find(t2, k) = Trie_Find(t, k)
    /\ \A n \in 0 .. Len(k) : Path(t, k)[n] = idx => Path(t2, k)[n] = idx

LEMMA EmbeddedKeeps ==
  ASSUME NEW B, NEW K, NEW C, NEW R, NEW N, Sound(B, K, C, R, N),
         NEW B2, NEW K2, NEW C2, NEW R2, NEW N2, Sound(B2, K2, C2, R2, N2),
         NEW h, NEW L, Embeds(B, K, R, N, B2, K2, R2, N2, h, L),
         NEW t, t = Struct(B, K, C, R, N), NEW t2, t2 = Struct(B2, K2, C2, R2, N2),
         NEW idx, idx # 0, h[idx] = idx
  PROVE  Keeps(t, t2, idx)
<1> SUFFICES ASSUME NEW k \in Seq(Char)
             PROVE  /\ Trie_Find(t2, k) = Trie_Find(t, k)
                    /\ \A n \in 0 .. Len(k) : Path(t, k)[n] = idx => Path(t2, k)[n] = idx
  BY DEF Keeps
<1>1. /\ Trie_Find(t2, k) = Trie_Find(t, k)
      /\ \A n \in 0 .. Len(k) : Path(t, k)[n] # 0 => Path(t2, k)[n] = h[Path(t, k)[n]]
  BY EmbeddedPath
<1> QED
  BY <1>1

\* A node gets the base that has been found.
LEMMA Placed ==
  ASSUME NEW B, NEW K, NEW C, NEW R, NEW N, Sound(B, K, C, R, N),
         NEW t, t = Struct(B, K, C, R, N), NEW idx \in Node(K, N),
         NEW ch \in Char, ch \notin Range(C[idx]),
         NEW b \in Nat, b >= 1, b >= B[idx], b + CharMax + 1 < N, K[b + ch] = 0,
         Plain(C[idx]) => \A c \in Range(C[idx]) : K[b + c] = 0,
         Moves(t, idx, b) => Plainly(t, idx),
         NEW t1, t1 = IF Moves(t, idx, b) THEN Trie_Move(t, idx, b)
                      ELSE [t EXCEPT !.base[idx] = b]
  PROVE  \E B1, K1, C1, R1 :
           /\ t1 = Struct(B1, K1, C1, R1, N) /\ Sound(B1, K1, C1, R1, N)
           /\ Keeps(t, t1, idx)
           /\ idx \in Node(K1, N) /\ B1[idx] = b /\ K1[b + ch] = 0 /\ ch \notin Range(C1[idx])
           /\ \A i \in Index(N) : C1[i] = <<>> \/ \E j \in Index(N) : C1[i] = C[j]
<1>0. /\ t.base = B /\ t.check = K /\ t.children = C
      /\ Moves(t, idx, b) <=> B[idx] # 0 /\ b # B[idx]
  BY StructFields DEF Moves
<1>1. /\ idx \in Index(N) /\ idx # 0 /\ B[idx] \in Nat /\ CharMax \in Nat /\ N \in Nat
      /\ ch \in Nat /\ ch <= CharMax /\ b + ch \in Index(N)
  <2>1. CharMax \in Nat /\ N \in Nat /\ idx \in Index(N) /\ B[idx] \in Nat
    BY Structure DEF Node
  <2>2. ch \in Nat /\ ch <= CharMax
    BY Chars
  <2>3. b + ch \in Index(N)
    BY <2>1, <2>2 DEF Index
  <2> QED
    BY <2>1, <2>2, <2>3 DEF Node, Root, Sound, Double
<1>2. CASE B[idx] # 0 /\ b # B[idx]
  <2>1. PICK d \in Int : d = b - B[idx]
    BY <1>1
  <2>2. PICK V : V = {B[idx] + c : c \in Range(C[idx])}
    OBVIOUS
  <2>0. Plain(C[idx]) /\ \A i \in V : Plain(C[i])
    <3>1. Plain(C[idx]) /\ \A i \in Slots(t, idx) : Plain(C[i])
      BY <1>0, <1>2 DEF Plainly
    <3>2. Slots(t, idx) = V
      BY <1>0, <2>2, <3>1, ListIs DEF Slots
    <3> QED
      BY <3>1, <3>2
  <2>3. Room(B, K, C, N, idx, V, d, b)
    BY <2>0, <2>1, <2>2 DEF Room
  <2>4. PICK B1 : B1 = MovedB(B, V, d, idx, b, N)
    OBVIOUS
  <2>5. PICK K1 : K1 = MovedK(K, V, d, idx, N)
    OBVIOUS
  <2>6. PICK C1 : C1 = MovedF(C, V, d, <<>>, N)
    OBVIOUS
  <2>7. PICK R1 : R1 = MovedF(R, V, d, Null, N)
    OBVIOUS
  <2>8. t1 = Struct(B1, K1, C1, R1, N)
    <3>1. t1 = MoveAtOnce(t, idx, b)
      BY <1>0, <1>2 DEF Trie_Move
    <3> QED
      BY <2>0, <2>3, <2>4, <2>5, <2>6, <2>7, <3>1, MoveIs
  <2>9. Sound(B1, K1, C1, R1, N)
    BY <2>3, <2>4, <2>5, <2>6, <2>7, MoveSound
  <2>10. PICK h : h = [i \in Node(K, N) |-> Ren(V, d, i)]
    OBVIOUS
  <2>11. Embeds(B, K, R, N, B1, K1, R1, N, h, {})
    BY <2>3, <2>4, <2>5, <2>7, <2>10, MoveEmbeds
  <2>12. /\ idx \notin V /\ idx - d \notin V
         /\ \A i \in V : K[i] = idx
         /\ \A i \in Index(N) : i \notin V /\ i - d \notin V =>
              /\ C1[i] = C[i] /\ K1[i] = Ren(V, d, K[i])
              /\ i = idx => B1[i] = b
         /\ 0 \notin V
    BY <2>3, <2>4, <2>5, <2>6, <2>7, MovedArrays
  <2>13. B1[idx] = b /\ C1[idx] = C[idx]
    BY <1>1, <2>12
  <2>14. idx \in Node(K1, N)
    <3>1. K1[idx] = 0 /\ idx # Root => B1[idx] = 0
      BY <1>1, <2>9 DEF Sound, Double
    <3> QED
      BY <1>1, <2>13, <3>1 DEF Node
  <2>15. K1[b + ch] = 0
    <3>1. PICK k \in Index(N) : k = b + ch
      BY <1>1
    <3>2. K[k] = 0 /\ k - d = B[idx] + ch
      BY <1>1, <2>1, <3>1
    <3>3. k \notin V
      BY <1>1, <2>12, <3>2
    <3>4. k - d \notin V
      <4> SUFFICES ASSUME NEW c \in Range(C[idx]), k - d = B[idx] + c
                   PROVE  FALSE
        BY <2>2
      <4>1. c \in Nat
        BY <1>1, Structure, Chars
      <4>2. c = ch
        BY <1>1, <3>2, <4>1
      <4> QED
        BY <4>2
    <3> QED
      BY <2>12, <3>1, <3>2, <3>3, <3>4 DEF Ren
  <2>16. Keeps(t, t1, idx)
    <3>1. h[idx] = idx
      BY <2>10, <2>12 DEF Ren
    <3> QED
      BY <1>1, <2>8, <2>9, <2>11, <3>1, EmbeddedKeeps
  <2>17. \A i \in Index(N) : C1[i] = <<>> \/ \E j \in Index(N) : C1[i] = C[j]
    <3>1. \A i \in V : i \in Index(N)
      BY <2>3, Apart
    <3> QED
      BY <2>6, <3>1 DEF MovedF
  <2> QED
    BY <2>8, <2>9, <2>13, <2>14, <2>15, <2>16, <2>17
<1>3. CASE b = B[idx]
  <2>1. t1 = t
    <3>1. B = [B EXCEPT ![idx] = b]
      BY <1>1, <1>3 DEF Sound, Typed
    <3>2. t1 = [t EXCEPT !.base[idx] = b]
      BY <1>0, <1>3
    <3> QED
      BY <3>1, <3>2 DEF Struct
  <2>2. Keeps(t, t1, idx)
    BY <2>1 DEF Keeps
  <2> QED
    BY <1>3, <2>1, <2>2
<1>4. CASE B[idx] = 0 /\ b # B[idx]
  <2>1. PICK B1 : B1 = [B EXCEPT ![idx] = b]
    OBVIOUS
  <2>2. t1 = Struct(B1, K, C, R, N)
    BY <1>0, <1>4, <2>1 DEF Struct
  <2>3. Range(C[idx]) = {}
    BY <1>1, <1>4 DEF Sound, Double
  <2>4. b + CharMax < N
    BY <1>1
  <2>5. Sound(B1, K, C, R, N)
    BY <2>1, <2>3, <2>4, BaseSet
  <2>6. PICK h : h = Names(K, N)
    OBVIOUS
  <2>7. Embeds(B, K, R, N, B1, K, R, N, h, {})
    BY <2>1, <2>3, <2>4, <2>6, BaseEmbeds
  <2>8. B1[idx] = b
    BY <1>1, <2>1 DEF Sound, Typed
  <2>9. Keeps(t, t1, idx)
    <3>1. h[idx] = idx
      BY <2>6 DEF Names
    <3> QED
      BY <1>1, <2>2, <2>5, <2>7, <3>1, EmbeddedKeeps
  <2> QED
    BY <2>2, <2>5, <2>8, <2>9
<1> QED
  BY <1>2, <1>3, <1>4

\* The trie's arrays are a double array.
TrieSound(t) ==
  /\ t = Struct(t.base, t.check, t.children, t.record, t.size)
  /\ Sound(t.base, t.check, t.children, t.record, t.size)

\* One character more.
LEMMA PathStep ==
  ASSUME NEW t, TrieSound(t), NEW key \in Seq(Char), NEW n \in Nat, n + 1 \in 1 .. Len(key)
  PROVE  Path(t, key)[n + 1] = Child(t.base, t.check, Path(t, key)[n], key[n + 1])
<1>1. PICK m \in 1 .. Len(key) : m = n + 1
  OBVIOUS
<1>2. Path(t, key)[m] = Child(t.base, t.check, Path(t, key)[m - 1], key[m])
  <2>1. Sound(t.base, t.check, t.children, t.record, t.size)
    BY DEF TrieSound
  <2> QED
    BY <2>1, PathUnfold
<1>3. m - 1 = n
  BY <1>1
<1> QED
  BY <1>1, <1>2, <1>3

LEMMA SoundStruct ==
  ASSUME NEW B, NEW K, NEW C, NEW R, NEW N, Sound(B, K, C, R, N),
         NEW t, t = Struct(B, K, C, R, N)
  PROVE  /\ TrieSound(t)
         /\ t.base = B /\ t.check = K /\ t.children = C /\ t.record = R /\ t.size = N
<1>1. t.base = B /\ t.check = K /\ t.children = C /\ t.record = R /\ t.size = N
  BY StructFields
<1> QED
  BY <1>1 DEF TrieSound

\* The lists of t2 have the characters of those of t, and perhaps ch.
Lists(t, t2, ch) ==
  /\ t2.size = t.size
  /\ \A i \in Index(t.size) : \A c \in Range(t2.children[i]) :
       c = ch \/ \E j \in Index(t.size) : c \in Range(t.children[j])

\* A node gets one more child.
LEMMA AddedSound ==
  ASSUME NEW t, TrieSound(t), NEW idx \in Node(t.check, t.size), NEW ch \in Char,
         t.check[t.base[idx] + ch] # idx,
         NEW b, b \in Trie_SearchAvailableBaseValue(t, idx, ch), b # -1,
         ~Strays(t, idx, ch, b), NEW t2, t2 = Added(t, idx, ch, b)
  PROVE  /\ TrieSound(t2) /\ Keeps(t, t2, idx)
         /\ b + ch \in Node(t2.check, t2.size) /\ b + ch # 0 /\ idx # 0
         /\ t2.base[idx] = b /\ t2.check[b + ch] = idx
         /\ \A c \in Char : t2.check[t2.base[b + ch] + c] # b + ch
         /\ Lists(t, t2, ch)
<1>1. PICK B, K, C, R, N : t = Struct(B, K, C, R, N) /\ Sound(B, K, C, R, N)
  BY DEF TrieSound
<1>2. t.base = B /\ t.check = K /\ t.children = C /\ t.record = R /\ t.size = N
  BY <1>1, StructFields
<1>3. idx \in Node(K, N) /\ idx \in Index(N) /\ idx # 0
  BY <1>1, <1>2 DEF Node, Root, Sound, Double
<1>4. ch \notin Range(C[idx])
  BY <1>1, <1>2, <1>3 DEF Sound, Double
<1>5. /\ b \in Nat /\ b >= 1 /\ b >= B[idx] /\ b + CharMax + 1 < N /\ K[b + ch] = 0
      /\ Plain(C[idx]) => \A c \in Range(C[idx]) : K[b + c] = 0
      /\ b + ch # Root /\ (Moves(t, idx, b) => Plainly(t, idx))
  <2>1. b + ch # Root /\ (Moves(t, idx, b) => Plainly(t, idx))
    BY DEF Strays
  <2> QED
    BY <1>1, <1>3, <2>1, SearchFinds
<1>6. PICK t1 : t1 = IF Moves(t, idx, b) THEN Trie_Move(t, idx, b)
                     ELSE [t EXCEPT !.base[idx] = b]
  OBVIOUS
<1>7. PICK B1, K1, C1, R1 :
        /\ t1 = Struct(B1, K1, C1, R1, N) /\ Sound(B1, K1, C1, R1, N)
        /\ Keeps(t, t1, idx)
        /\ idx \in Node(K1, N) /\ B1[idx] = b /\ K1[b + ch] = 0 /\ ch \notin Range(C1[idx])
        /\ \A i \in Index(N) : C1[i] = <<>> \/ \E j \in Index(N) : C1[i] = C[j]
  BY <1>1, <1>3, <1>4, <1>5, <1>6, Placed, SMTT(30)
<1>8. PICK K2 : K2 = [K1 EXCEPT ![b + ch] = idx]
  OBVIOUS
<1>9. PICK C2 : C2 = [C1 EXCEPT ![idx] = Append(@, ch)]
  OBVIOUS
<1>10. t2 = Struct(B1, K2, C2, R1, N)
  <2>1. t2 = Trie_AddChild([t1 EXCEPT !.check[b + ch] = idx], idx, ch)
    BY <1>2, <1>6 DEF Added
  <2> QED
    BY <1>7, <1>8, <1>9, <2>1 DEF Trie_AddChild, CharList_Add, Struct
<1>11. Sound(B1, K2, C2, R1, N)
  BY <1>5, <1>7, <1>8, <1>9, LeafAdded
<1>12. PICK h : h = Names(K1, N)
  OBVIOUS
<1>13. Embeds(B1, K1, R1, N, B1, K2, R1, N, h, {b + ch})
  <2>1. /\ B1[idx] >= 1 /\ K1[B1[idx] + ch] = 0 /\ B1[idx] + ch # Root
        /\ K2 = [K1 EXCEPT ![B1[idx] + ch] = idx]
    BY <1>5, <1>7, <1>8
  <2>2. Embeds(B1, K1, R1, N, B1, K2, R1, N, Names(K1, N), {B1[idx] + ch})
    BY <1>7, <2>1, LeafEmbeds
  <2> QED
    BY <1>7, <1>12, <2>2
<1>14. Keeps(t1, t2, idx)
  <2>1. h[idx] = idx
    BY <1>7, <1>12 DEF Names
  <2> QED
    BY <1>3, <1>7, <1>10, <1>11, <1>13, <2>1, EmbeddedKeeps
<1>15. Keeps(t, t2, idx)
  BY <1>7, <1>14 DEF Keeps
<1>16. /\ b + ch \in Index(N) /\ b + ch # 0
       /\ \A c \in Char : K2[B1[b + ch] + c] # b + ch
  BY <1>13 DEF Embeds
<1>17. K2[b + ch] = idx
  BY <1>7, <1>8, <1>16 DEF Sound, Typed
<1>18. TrieSound(t2) /\ t2.base = B1 /\ t2.check = K2 /\ t2.children = C2 /\ t2.size = N
  BY <1>10, <1>11, SoundStruct
<1>19. ASSUME NEW i \in Index(N), NEW c \in Range(C2[i])
       PROVE  c = ch \/ \E j \in Index(N) : c \in Range(C[j])
  <2>1. C1[i] \in Seq(Char) /\ (C2[i] = C1[i] \/ C2[i] = Append(C1[i], ch))
    BY <1>3, <1>7, <1>9 DEF Sound, Typed
  <2>2. c = ch \/ c \in Range(C1[i])
    BY <1>19, <2>1, AppendHas
  <2> QED
    BY <1>7, <2>2, EmptyRange
<1>20. Lists(t, t2, ch)
  BY <1>2, <1>18, <1>19 DEF Lists
<1> QED
  BY <1>3, <1>7, <1>15, <1>16, <1>17, <1>18, <1>20 DEF Node

\* The doubled arrays have room for any child, and nothing else is new.
LEMMA WideSound ==
  ASSUME NEW t, TrieSound(t), NEW idx \in Node(t.check, t.size), NEW ch \in Char,
         t.check[t.base[idx] + ch] # idx
  PROVE  /\ TrieSound(Trie_Expand(t)) /\ Keeps(t, Trie_Expand(t), idx)
         /\ idx \in Node(Trie_Expand(t).check, Trie_Expand(t).size)
         /\ Trie_Expand(t).check[Trie_Expand(t).base[idx] + ch] # idx
         /\ -1 \notin Trie_SearchAvailableBaseValue(Trie_Expand(t), idx, ch)
         /\ \A i \in Index(Trie_Expand(t).size) : \A c \in Range(Trie_Expand(t).children[i]) :
              \E j \in Index(t.size) : c \in Range(t.children[j])
<1>1. PICK B, K, C, R, N : t = Struct(B, K, C, R, N) /\ Sound(B, K, C, R, N)
  BY DEF TrieSound
<1>2. t.base = B /\ t.check = K /\ t.children = C /\ t.record = R /\ t.size = N
  BY <1>1, StructFields
<1>3. idx \in Node(K, N) /\ idx \in Index(N) /\ idx # 0 /\ K[B[idx] + ch] # idx
  BY <1>1, <1>2 DEF Node, Root, Sound, Double
<1>4. PICK w : w = Trie_Expand(t)
  OBVIOUS
<1>5. PICK B2 : B2 = Grown(B, 0, N)
  OBVIOUS
<1>6. PICK K2 : K2 = Grown(K, 0, N)
  OBVIOUS
<1>7. PICK C2 : C2 = Grown(C, <<>>, N)
  OBVIOUS
<1>8. PICK R2 : R2 = Grown(R, Null, N)
  OBVIOUS
<1>9. PICK M2 : M2 = 2 * N
  OBVIOUS
<1>10. w = Struct(B2, K2, C2, R2, M2)
  BY <1>1, <1>4, <1>5, <1>6, <1>7, <1>8, <1>9, ExpandIs
<1>11. PICK h : h = Names(K, N)
  OBVIOUS
<1>12. /\ Sound(B2, K2, C2, R2, M2)
       /\ Embeds(B, K, R, N, B2, K2, R2, M2, h, {})
       /\ Node(K, N) \subseteq Node(K2, M2)
       /\ \A i \in Index(N) : i \in Index(M2) /\ B2[i] = B[i] /\ C2[i] = C[i] /\ K2[i] = K[i]
       /\ \A i \in Index(M2) : i >= N => K2[i] = 0
  BY <1>1, <1>5, <1>6, <1>7, <1>8, <1>9, <1>11, ExpandSound
<1>13. Keeps(t, w, idx)
  <2>1. h[idx] = idx
    BY <1>3, <1>11 DEF Names
  <2> QED
    BY <1>1, <1>3, <1>10, <1>12, <2>1, EmbeddedKeeps
<1>14. TrieSound(w) /\ w.base = B2 /\ w.check = K2 /\ w.children = C2 /\ w.size = M2
  BY <1>10, <1>12, SoundStruct
<1>15. N \in Nat /\ CharMax \in Nat /\ CharMax + 1 < N /\ idx \in Nat /\ idx < N
       /\ B[idx] \in Nat /\ B[idx] + CharMax < N /\ B[idx] + ch \in Index(N)
  BY <1>1, <1>3, Structure DEF Sound, Typed
<1>16. K2[B2[idx] + ch] # idx
  BY <1>3, <1>12, <1>15
<1>17. PICK half \in Nat : /\ 2 * half <= CharMax + 1
                           /\ \A c \in Char : Signed(c) \in Int /\ Signed(c) >= - half
                                              /\ Signed(c) <= CharMax
  BY SignedIs
<1>18. PICK x \in Nat : x = N + half
  BY <1>15
<1>19. /\ x >= 1 /\ x >= B2[idx] /\ x + CharMax + 1 < M2 /\ idx + CharMax + 1 < M2
       /\ \A c \in Int : c >= - half /\ c <= CharMax => x + c >= 0 /\ K2[x + c] = 0
  <2>1. 2 * N > 3 * (CharMax + 1)
    BY <1>1 DEF Sound, Typed
  <2>2. x >= 1 /\ x >= B2[idx] /\ x + CharMax + 1 < M2 /\ idx + CharMax + 1 < M2
    BY <1>3, <1>9, <1>12, <1>15, <1>17, <1>18, <2>1
  <2>3. ASSUME NEW c \in Int, c >= - half, c <= CharMax
        PROVE  x + c >= 0 /\ K2[x + c] = 0
    <3>1. x + c \in Index(M2) /\ x + c >= N
      BY <1>9, <1>15, <1>18, <2>2, <2>3 DEF Index
    <3> QED
      BY <1>12, <1>15, <3>1
  <2> QED
    BY <2>2, <2>3
<1>20. -1 \notin Trie_SearchAvailableBaseValue(w, idx, ch)
  <2>1. K2[x + ch] = 0
    <3>1. ch \in Int /\ ch >= - half /\ ch <= CharMax
      BY <1>17, Chars
    <3> QED
      BY <1>19, <3>1
  <2>2. \A c \in CharList_All(C2[idx]) : x + c >= 0 /\ K2[x + c] = 0
    <3>1. Range(C2[idx]) \in SUBSET Char
      BY <1>3, <1>12, Structure
    <3>2. \A c \in CharList_All(C2[idx]) : c \in Int /\ c >= - half /\ c <= CharMax
      BY <1>17, <3>1 DEF CharList_All
    <3> QED
      BY <1>19, <3>2
  <2>3. idx \in Node(K2, M2)
    BY <1>3, <1>12
  <2>4. ASSUME NEW b, b \in Trie_SearchAvailableBaseValue(w, idx, ch)
        PROVE  b # -1
    BY <1>10, <1>12, <1>19, <2>1, <2>2, <2>3, <2>4, SearchFinds
  <2> QED
    BY <2>4
<1>21. \A i \in Index(M2) : \A c \in Range(C2[i]) : \E j \in Index(N) : c \in Range(C[j])
  <2> TAKE i \in Index(M2)
  <2>1. C2[i] = <<>> \/ (i \in Index(N) /\ C2[i] = C[i])
    BY <1>7, <1>9, <1>15 DEF Grown, Index
  <2> QED
    BY <2>1, EmptyRange
<1> QED
  BY <1>2, <1>3, <1>4, <1>12, <1>13, <1>14, <1>16, <1>20, <1>21

-----------------------------------------------------------------------------
(* The invariant *)

\* The Trie_Set that goes on has come as far as the trie leads, and stands at a
\* node which the next character does not lead on from.
CallSound ==
  call # Null =>
    /\ call \in [key : Key, record : Record, done : Nat, idx : Nat]
    /\ call.done <= Len(call.key)
    /\ call.idx \in Node(trie.check, trie.size)
    /\ Path(trie, call.key)[call.done] = call.idx
    /\ call.done < Len(call.key) =>
         trie.check[trie.base[call.idx] + call.key[call.done + 1]] # call.idx

TrieInv == (~strayed => TrieSound(trie) /\ CallSound) /\ DoublingMakesRoom

\* Every key leads to Root or further, so the longest way there is exists.
LEMMA SearchKeyIs ==
  ASSUME NEW t, TrieSound(t), NEW key \in Key, NEW n, n = Trie_SearchKey(t, key)
  PROVE  /\ n \in Nat /\ n <= Len(key) /\ Path(t, key)[n] \in Node(t.check, t.size)
         /\ n < Len(key) => t.check[t.base[Path(t, key)[n]] + key[n + 1]] # Path(t, key)[n]
<1>1. PICK B, K, C, R, N : t = Struct(B, K, C, R, N) /\ Sound(B, K, C, R, N)
  BY DEF TrieSound
<1>2. t.base = B /\ t.check = K /\ t.size = N
  BY <1>1, StructFields
<1>3. PICK p : p = Path(t, key)
  OBVIOUS
<1>4. /\ p[0] = Root
      /\ \A m \in 1 .. Len(key) : m - 1 \in 0 .. Len(key) /\ key[m] \in Char
                                  /\ p[m] = Child(B, K, p[m - 1], key[m])
      /\ \A m \in 0 .. Len(key) : p[m] \in Node(K, N) \cup {0}
  BY <1>1, <1>2, <1>3, Letters, PathUnfold
<1>5. PICK L \in Nat : L = Len(key)
  BY Letters
<1>6. PICK S : S = {m \in 0 .. L : p[m] # 0}
  OBVIOUS
<1>7. n = Max(S)
  BY <1>3, <1>5, <1>6 DEF Trie_SearchKey
<1>8. S \in SUBSET (0 .. L) /\ S # {}
  <2>1. 0 \in S
    BY <1>4, <1>5, <1>6 DEF Root
  <2> QED
    BY <1>6, <2>1
<1>9. \E x \in S : \A y \in S : y <= x
  BY <1>8, GreatestNat
<1>10. \E x \in S : \A y \in S : x >= y
  <2>1. PICK x \in S : \A y \in S : y <= x
    BY <1>9
  <2>2. \A y \in S : x >= y
    BY <1>8, <2>1
  <2> QED
    BY <2>2
<1>11. n \in S /\ \A y \in S : n >= y
  BY <1>7, <1>10 DEF Max
<1>12. n \in 0 .. L /\ p[n] # 0 /\ p[n] \in Node(K, N)
  BY <1>4, <1>5, <1>6, <1>11
<1>13. ASSUME n < L
       PROVE  K[B[p[n]] + key[n + 1]] # p[n]
  <2>1. n + 1 \in 1 .. L /\ n + 1 - 1 = n /\ n + 1 \in 0 .. L /\ ~(n >= n + 1)
    BY <1>12, <1>13
  <2>2. p[n + 1] = 0
    BY <1>6, <1>11, <2>1
  <2>3. PICK c \in Char : c = key[n + 1]
    BY <1>4, <1>5, <2>1
  <2>4. Child(B, K, p[n], c) = 0
    <3>1. PICK m \in 1 .. Len(key) : m = n + 1
      BY <1>5, <2>1
    <3>2. p[m] = Child(B, K, p[m - 1], key[m])
      BY <1>4
    <3>3. m - 1 = n
      BY <1>12, <3>1
    <3> QED
      BY <2>2, <2>3, <3>1, <3>2, <3>3
  <2>5. K[B[p[n]] + c] = p[n] => B[p[n]] + c = 0
    BY <1>12, <2>4 DEF Child
  <2>6. K[0] = 0
    BY <1>1 DEF Sound, Double
  <2> QED
    BY <1>12, <2>3, <2>5, <2>6
<1> QED
  BY <1>2, <1>3, <1>5, <1>12, <1>13

LEMMA TrieStart == Init => TrieInv /\ M!Init
<1> SUFFICES ASSUME Init
             PROVE  TrieInv /\ M!Init
  OBVIOUS
<1>1. PICK N \in Nat : N = DASize
  BY TrieAssumption
<1>2. PICK Z : Z = [i \in Index(N) |-> 0]
  OBVIOUS
<1>3. PICK B : B = [Z EXCEPT ![Root] = 1]
  OBVIOUS
<1>4. PICK C : C = [i \in Index(N) |-> <<>>]
  OBVIOUS
<1>5. PICK R : R = [i \in Index(N) |-> Null]
  OBVIOUS
<1>6. trie = Struct(B, Z, C, R, N)
  BY <1>1, <1>2, <1>3, <1>4, <1>5 DEF Init, Struct, Index
<1>7. CharMax \in Nat /\ 2 * N > 3 * (CharMax + 1) /\ N > CharMax + 1
  BY <1>1, TrieAssumption
<1>8. 0 \in Index(N) /\ Root \in Index(N) /\ 0 # Root
  BY <1>7 DEF Index, Root
<1>9. /\ \A i \in Index(N) : Z[i] = 0 /\ C[i] = <<>> /\ R[i] = Null
      /\ B[Root] = 1 /\ \A i \in Index(N) : i # Root => B[i] = 0
  BY <1>2, <1>3, <1>4, <1>5, <1>8
<1>10. Sound(B, Z, C, R, N)
  <2>1. B \in [Index(N) -> Nat] /\ Z \in [Index(N) -> Index(N)]
    BY <1>2, <1>3, <1>8
  <2>2. C \in [Index(N) -> Seq(Char)] /\ R \in [Index(N) -> Record \cup {Null}]
    BY <1>4, <1>5
  <2>3. \A i \in Index(N) : B[i] + CharMax < N
    <3> TAKE i \in Index(N)
    <3>1. B[i] = 0 \/ B[i] = 1
      BY <1>9
    <3> QED
      BY <1>7, <3>1
  <2>4. Typed(B, Z, C, R, N)
    BY <1>7, <2>1, <2>2, <2>3 DEF Typed
  <2>5. Double(B, Z, C, R, N)
    BY <1>8, <1>9, EmptyRange DEF Double
  <2> QED
    BY <2>4, <2>5 DEF Sound
<1>11. TrieSound(trie) /\ trie.base = B /\ trie.check = Z /\ trie.record = R
  BY <1>6, <1>10, SoundStruct
<1>12. CallSound /\ DoublingMakesRoom
  BY DEF Init, CallSound, DoublingMakesRoom
<1>13. \A k \in Key : Trie_Find(trie, k) = Null
  <2> TAKE k \in Key
  <2>1. Len(k) \in 0 .. Len(k) /\ k \in Seq(Char)
    BY Letters
  <2>2. Path(trie, k)[Len(k)] \in Node(Z, N) \cup {0}
    BY <1>10, <1>11, <2>1, PathUnfold
  <2> QED
    BY <1>9, <1>11, <2>2 DEF Trie_Find, Node
<1>14. M!Init
  BY <1>13 DEF M!Init, Init
<1> QED
  BY <1>11, <1>12, <1>14 DEF TrieInv

\* What the users see.
Store == [k \in Key |-> Trie_Find(trie, k)]

\* A step of the map.
MapStep == [~strayed' => \E k \in Key, r \in Record : M!Set(k, r)]_(M!vars)

LEMMA CalledStep ==
  ASSUME TrieInv, ~strayed, NEW key \in Key, NEW r \in Record, Called(key, r)
  PROVE  TrieInv' /\ MapStep
<1>1. PICK n : n = Trie_SearchKey(trie, key)
  OBVIOUS
<1>2. call' = [key |-> key, record |-> r, done |-> n, idx |-> Path(trie, key)[n]]
      /\ trie' = trie /\ old' = old /\ result' = result
  BY <1>1 DEF Called
<1>3. /\ n \in Nat /\ n <= Len(key) /\ Path(trie, key)[n] \in Node(trie.check, trie.size)
      /\ n < Len(key) => trie.check[trie.base[Path(trie, key)[n]] + key[n + 1]] # Path(trie, key)[n]
  BY <1>1, SearchKeyIs DEF TrieInv
<1>4. Path(trie, key)[n] \in Nat
  <2>1. trie.size \in Nat
    BY DEF TrieInv, TrieSound, Sound, Typed
  <2> QED
    BY <1>3, <2>1 DEF Node, Index
<1>5. CallSound'
  BY <1>2, <1>3, <1>4 DEF CallSound
<1>6. TrieSound(trie)' /\ DoublingMakesRoom'
  BY <1>2 DEF TrieInv, DoublingMakesRoom
<1>7. MapStep
  BY <1>2 DEF MapStep, M!vars
<1> QED
  BY <1>5, <1>6, <1>7 DEF TrieInv

LEMMA AddCharacterStep ==
  ASSUME TrieInv, ~strayed, AddCharacter
  PROVE  TrieInv' /\ MapStep
<1>1. PICK key \in Key : key = call.key
  BY DEF AddCharacter, TrieInv, CallSound
<1>2. PICK n \in Nat : n = call.done
  BY DEF AddCharacter, TrieInv, CallSound
<1>3. PICK idx \in Nat : idx = call.idx
  BY DEF AddCharacter, TrieInv, CallSound
<1>4. /\ call # Null /\ call \in [key : Key, record : Record, done : Nat, idx : Nat]
      /\ n < Len(key) /\ Len(key) \in Nat /\ key \in Seq(Char) /\ n + 1 \in 1 .. Len(key)
      /\ TrieSound(trie) /\ idx \in Node(trie.check, trie.size)
      /\ Path(trie, key)[n] = idx
      /\ trie.check[trie.base[idx] + key[n + 1]] # idx
  <2>1. call # Null /\ call.done < Len(call.key)
    BY DEF AddCharacter
  <2> QED
    BY <1>1, <1>2, <1>3, <2>1, Letters DEF TrieInv, CallSound
<1>5. PICK ch \in Char : ch = key[n + 1]
  BY <1>4, Letters
<1> DEFINE found(t) == Trie_SearchAvailableBaseValue(t, idx, ch)
           wide == Trie_Expand(trie)
           Add(t, b) == /\ trie' = Added(t, idx, ch, b)
                        /\ call' = [call EXCEPT !.done = @ + 1, !.idx = b + ch]
                        /\ strayed' = Strays(t, idx, ch, b)
                        /\ UNCHANGED <<old, result>>
<1>6. \/ \E b \in found(trie) \ {-1} : Add(trie, b)
      \/ \E b \in found(wide) : IF b < 0 THEN GivesUp("no slot") ELSE Add(wide, b)
      \/ GivesUp("no memory")
  BY <1>1, <1>2, <1>3, <1>5 DEF AddCharacter
<1>7. ASSUME NEW why, why # "no slot", GivesUp(why)
      PROVE  TrieInv' /\ MapStep
  <2>1. call' = Null /\ trie' = trie /\ old' = old /\ result' = why
    BY <1>7 DEF GivesUp
  <2>2. CallSound' /\ DoublingMakesRoom'
    BY <1>7, <2>1 DEF CallSound, DoublingMakesRoom
  <2>3. MapStep
    BY <2>1 DEF MapStep, M!vars
  <2> QED
    BY <1>4, <2>1, <2>2, <2>3 DEF TrieInv
\* Adding under a trie that is as sound as this one.
<1>8. ASSUME NEW t, TrieSound(t), Keeps(trie, t, idx), idx \in Node(t.check, t.size),
             t.check[t.base[idx] + ch] # idx,
             NEW b \in found(t), b # -1, Add(t, b), ~Strays(t, idx, ch, b)
      PROVE  TrieInv' /\ MapStep
  <2>2. PICK t2 : t2 = Added(t, idx, ch, b)
    OBVIOUS
  <2>3. /\ TrieSound(t2) /\ Keeps(t, t2, idx)
        /\ b + ch \in Node(t2.check, t2.size) /\ b + ch # 0 /\ idx # 0
        /\ t2.base[idx] = b /\ t2.check[b + ch] = idx
        /\ \A c \in Char : t2.check[t2.base[b + ch] + c] # b + ch
    BY <1>8, <2>2, AddedSound
  <2>4. /\ trie' = t2 /\ old' = old /\ result' = result
        /\ call' = [call EXCEPT !.done = n + 1, !.idx = b + ch]
    BY <1>2, <1>8, <2>2
  <2>5. b + ch \in Nat
    <3>1. t2.size \in Nat
      BY <2>3 DEF TrieSound, Sound, Typed
    <3> QED
      BY <2>3, <3>1 DEF Node, Index
  <2>6. call'.key = key /\ call'.done = n + 1 /\ call'.idx = b + ch
        /\ call' \in [key : Key, record : Record, done : Nat, idx : Nat]
    <3>1. PICK x \in [key : Key, record : Record, done : Nat, idx : Nat] : x = call
      BY <1>4
    <3>2. PICK y : y = call'
      OBVIOUS
    <3>3. y = [x EXCEPT !.done = n + 1, !.idx = b + ch]
      BY <2>4, <3>1, <3>2
    <3>4. PICK m \in Nat : m = n + 1
      OBVIOUS
    <3>5. PICK i \in Nat : i = b + ch
      BY <2>5
    <3>6. y = [x EXCEPT !.done = m, !.idx = i]
      BY <3>3, <3>4, <3>5
    <3>7. y.key = x.key /\ y.done = m /\ y.idx = i
      BY <3>1, <3>6
    <3>8. y \in [key : Key, record : Record, done : Nat, idx : Nat]
      BY <3>1, <3>4, <3>5, <3>6
    <3> QED
      BY <1>1, <3>1, <3>2, <3>4, <3>5, <3>7, <3>8
  <2>7. Path(t2, key)[n + 1] = b + ch
    <3>1. Path(t2, key)[n] = idx
      BY <1>4, <1>8, <2>3 DEF Keeps
    <3>2. Path(t2, key)[n + 1] = Child(t2.base, t2.check, Path(t2, key)[n], key[n + 1])
      BY <1>4, <2>3, PathStep
    <3>3. Path(t2, key)[n + 1] = Child(t2.base, t2.check, idx, ch)
      BY <1>5, <3>1, <3>2
    <3> QED
      BY <2>3, <3>3 DEF Child
  <2>8. n + 1 < Len(key) => t2.check[t2.base[b + ch] + key[n + 1 + 1]] # b + ch
    <3> HAVE n + 1 < Len(key)
    <3>1. key[n + 1 + 1] \in Char
      BY <1>4, Letters
    <3> QED
      BY <2>3, <3>1
  <2>9. CallSound'
    BY <1>4, <2>3, <2>4, <2>6, <2>7, <2>8 DEF CallSound
  <2>10. TrieSound(trie)' /\ DoublingMakesRoom'
    BY <2>3, <2>4 DEF TrieInv, DoublingMakesRoom
  <2>11. \A k \in Key : Trie_Find(trie', k) = Trie_Find(trie, k)
    BY <1>8, <2>3, <2>4, Letters DEF Keeps
  <2>12. MapStep
    <3>1. [k \in Key |-> Trie_Find(trie', k)] = [k \in Key |-> Trie_Find(trie, k)]
      BY <2>11
    <3> QED
      BY <2>4, <3>1 DEF MapStep, M!vars
  <2> QED
    BY <2>9, <2>10, <2>12 DEF TrieInv
\* A node that strays ends what is said of the trie.
<1>9. ASSUME NEW t, NEW b, Add(t, b), Strays(t, idx, ch, b)
      PROVE  TrieInv' /\ MapStep
  <2>1. strayed' /\ result' = result
    BY <1>9
  <2> QED
    BY <2>1 DEF TrieInv, DoublingMakesRoom, MapStep
<1>10. /\ TrieSound(wide) /\ Keeps(trie, wide, idx) /\ idx \in Node(wide.check, wide.size)
       /\ wide.check[wide.base[idx] + ch] # idx /\ -1 \notin found(wide)
  BY <1>4, <1>5, WideSound
<1>11. \A b \in found(wide) : ~(b < 0)
  <2>1. PICK w : w = wide
    OBVIOUS
  <2>2. TrieSound(w) /\ idx \in Node(w.check, w.size) /\ -1 \notin found(w)
    BY <1>10, <2>1
  <2>3. PICK B, K, C, R, N : w = Struct(B, K, C, R, N) /\ Sound(B, K, C, R, N)
    BY <2>2 DEF TrieSound
  <2>4. idx \in Node(K, N)
    BY <2>2, <2>3, StructFields
  <2>5. ASSUME NEW b \in found(w)
        PROVE  b \in Nat
    BY <2>2, <2>3, <2>4, <2>5, SearchFinds
  <2> QED
    BY <2>1, <2>5
<1>12. Keeps(trie, trie, idx)
  BY DEF Keeps
<1> HIDE DEF found, wide, Add
<1>13. ASSUME NEW b \in found(trie) \ {-1}, Add(trie, b)
       PROVE  TrieInv' /\ MapStep
  <2>1. b \in found(trie) /\ b # -1
    BY <1>13
  <2> QED
    BY <1>4, <1>5, <1>8, <1>9, <1>12, <1>13, <2>1
<1>14. ASSUME NEW b \in found(wide), Add(wide, b)
       PROVE  TrieInv' /\ MapStep
  <2>1. PICK w : w = wide
    OBVIOUS
  <2>2. TrieSound(w) /\ Keeps(trie, w, idx) /\ idx \in Node(w.check, w.size)
    BY <1>10, <2>1
  <2>3. w.check[w.base[idx] + ch] # idx
    BY <1>10, <2>1
  <2>4. b \in found(w) /\ b # -1 /\ Add(w, b)
    BY <1>10, <1>14, <2>1
  <2> QED
    BY <1>8, <1>9, <2>2, <2>3, <2>4
<1>15. CASE GivesUp("no memory")
  BY <1>7, <1>15
<1> QED
  BY <1>6, <1>11, <1>13, <1>14, <1>15

LEMMA FinishStep ==
  ASSUME TrieInv, ~strayed, Finish
  PROVE  TrieInv' /\ MapStep
<1>1. PICK B, K, C, R, N : trie = Struct(B, K, C, R, N) /\ Sound(B, K, C, R, N)
  BY DEF TrieInv, TrieSound
<1>2. trie.base = B /\ trie.check = K /\ trie.children = C /\ trie.record = R /\ trie.size = N
  BY <1>1, StructFields
<1>3. PICK key \in Key : key = call.key
  BY DEF Finish, TrieInv, CallSound
<1>4. PICK r \in Record : r = call.record
  BY DEF Finish, TrieInv, CallSound
<1>5. PICK idx \in Node(K, N) : idx = call.idx
  BY <1>2 DEF Finish, TrieInv, CallSound
<1>6. Path(trie, key)[Len(key)] = idx /\ idx # 0 /\ idx \in Index(N) /\ (idx = Root \/ K[idx] # 0)
  BY <1>1, <1>3, <1>5 DEF Finish, TrieInv, CallSound, Node, Root, Sound, Double
<1>7. PICK R2 : R2 = [R EXCEPT ![idx] = r]
  OBVIOUS
<1>8. /\ trie' = Struct(B, K, C, R2, N) /\ call' = Null /\ result' = "ok" /\ old' = R[idx]
  BY <1>1, <1>2, <1>4, <1>5, <1>7 DEF Finish, Struct
<1>9. R2[idx] = r /\ \A i \in Index(N) : i # idx => R2[i] = R[i]
  BY <1>1, <1>6, <1>7 DEF Sound, Typed
<1>10. Sound(B, K, C, R2, N)
  <2>1. Typed(B, K, C, R2, N)
    BY <1>1, <1>6, <1>7 DEF Sound, Typed
  <2>2. Double(B, K, C, R2, N)
    BY <1>1, <1>6, <1>9 DEF Sound, Double
  <2> QED
    BY <2>1, <2>2 DEF Sound
<1>11. TrieSound(trie') /\ trie'.base = B /\ trie'.check = K /\ trie'.record = R2
  BY <1>8, <1>10, SoundStruct
<1>12. TrieInv'
  BY <1>8, <1>11 DEF TrieInv, CallSound, DoublingMakesRoom
<1>13. ASSUME NEW k \in Key
       PROVE  /\ Path(trie', k) = Path(trie, k)
              /\ Trie_Find(trie', k) = IF k = key THEN r ELSE Trie_Find(trie, k)
  <2>1. Path(trie', k) = Path(trie, k)
    BY <1>2, <1>11 DEF Path
  <2>2. PICK i : i = Path(trie, k)[Len(k)]
    OBVIOUS
  <2>3. Trie_Find(trie', k) = IF i = 0 THEN Null ELSE R2[i]
    BY <1>11, <2>1, <2>2 DEF Trie_Find
  <2>4. Trie_Find(trie, k) = IF i = 0 THEN Null ELSE R[i]
    BY <1>2, <2>2 DEF Trie_Find
  <2>5. CASE k = key
    BY <1>6, <1>9, <2>1, <2>2, <2>3, <2>5
  <2>6. CASE k # key
    <3>1. i # idx
      <4> SUFFICES ASSUME i = idx
                   PROVE  FALSE
        OBVIOUS
      <4>1. k \in Seq(Char) /\ key \in Seq(Char)
        BY Letters
      <4>2. k = key
        BY <1>1, <1>2, <1>6, <2>2, <4>1, PathsApart
      <4> QED
        BY <2>6, <4>2
    <3>2. i \in Node(K, N) \cup {0}
      <4>1. k \in Seq(Char) /\ Len(k) \in 0 .. Len(k)
        BY Letters
      <4> QED
        BY <1>1, <1>2, <2>2, <4>1, PathUnfold
    <3>3. i # 0 => R2[i] = R[i]
      BY <1>9, <3>1, <3>2 DEF Node
    <3> QED
      BY <2>1, <2>3, <2>4, <2>6, <3>3
  <2> QED
    BY <2>5, <2>6
<1>14. Trie_Find(trie, key) = R[idx]
  BY <1>2, <1>6 DEF Trie_Find
<1>15. [k \in Key |-> Trie_Find(trie', k)]
         = [[k \in Key |-> Trie_Find(trie, k)] EXCEPT ![key] = r]
  BY <1>13
<1>16. M!Set(key, r)
  BY <1>8, <1>14, <1>15 DEF M!Set
<1> QED
  BY <1>12, <1>16 DEF MapStep

LEMMA TrieStep == TrieInv /\ [Next]_vars => TrieInv' /\ MapStep
<1> SUFFICES ASSUME TrieInv, [Next]_vars
             PROVE  TrieInv' /\ MapStep
  OBVIOUS
<1>1. ASSUME UNCHANGED vars
      PROVE  TrieInv' /\ MapStep
  <2>1. trie' = trie /\ call' = call /\ old' = old /\ result' = result /\ strayed' = strayed
    BY <1>1 DEF vars
  <2> QED
    BY <2>1 DEF TrieInv, CallSound, DoublingMakesRoom, MapStep, M!vars
<1> QED
  BY <1>1, CalledStep, AddCharacterStep, FinishStep DEF Next

-----------------------------------------------------------------------------
(* Theorems *)

\* Until a node strays, and whatever the characters: the arrays stay a double
\* array, and the Trie_Set that goes on stands where the trie leads; no Set ever
\* fails for want of a slot.
THEOREM TrieInvariance == Spec => []TrieInv
<1>1. Init => TrieInv
  BY TrieStart
<1>2. TrieInv /\ [Next]_vars => TrieInv'
  BY TrieStep
<1> QED
  BY <1>1, <1>2, PTL DEF Spec

\* check and the lists of children agree, whatever has moved, until a node
\* strays: trie.c takes no slot that somebody else has.
THEOREM ArraysStaySound == Spec => []DoubleArraySound
<1>1. TrieInv => DoubleArraySound
  <2> SUFFICES ASSUME TrieInv, ~strayed
               PROVE  DoubleArraySound
    BY DEF DoubleArraySound
  <2>1. PICK B, K, C, R, N : trie = Struct(B, K, C, R, N) /\ Sound(B, K, C, R, N)
    BY DEF TrieInv, TrieSound
  <2>2. trie.base = B /\ trie.check = K /\ trie.children = C /\ trie.record = R
    BY <2>1, StructFields
  <2>3. DOMAIN K = Index(N)
    BY <2>1 DEF Sound, Typed
  <2>4. \A i \in Node(K, N) : i \in Index(N) /\ i # 0
    BY <2>1 DEF Node, Root, Sound, Double
  <2>5. \A i \in Node(K, N), j \in Index(N) :
          K[j] = i <=> \E c \in Range(C[i]) : j = B[i] + c
    BY <2>1, <2>4 DEF Sound, Double
  <2>6. \A i \in Node(K, N) : IsInjective(C[i]) /\ (i # Root => K[i] \in Node(K, N))
    BY <2>1, <2>4 DEF Node, Sound, Double, Typed
  <2>7. \A i \in Index(N) \ Node(K, N) : B[i] = 0 /\ C[i] = <<>> /\ R[i] = Null
    BY <2>1 DEF Node, Sound, Double
  <2> QED
    BY <2>2, <2>3, <2>5, <2>6, <2>7 DEF DoubleArraySound, Node
<1> QED
  BY <1>1, TrieInvariance, PTL

\* Trie_Set does not search in vain in arrays it has just doubled.
THEOREM DoublingIsEnough == Spec => []DoublingMakesRoom
<1>1. TrieInv => DoublingMakesRoom
  BY DEF TrieInv
<1> QED
  BY <1>1, TrieInvariance, PTL

\* Trie_Find and Trie_Set are those of a map, between any two characters of a
\* Set, until a node strays.
THEOREM TrieIsMap == Spec => MapUntilStrayed
<1>1. Init => M!Init
  BY TrieStart
<1>2. TrieInv /\ [Next]_vars =>
        [~strayed' => \E k \in Key, r \in Record : M!Set(k, r)]_(M!vars)
  BY TrieStep DEF MapStep
<1> QED
  BY <1>1, <1>2, TrieInvariance, PTL DEF Spec, MapUntilStrayed

-----------------------------------------------------------------------------
(* Keys that do not stray *)

\* Characters that come back as they are, and never lead to the root's slot.
PlainKeys == \A k \in Key : \A n \in 1 .. Len(k) : k[n] # 0 /\ Signed(k[n]) = k[n]

PlainLists(t) == \A i \in Index(t.size) : Plain(t.children[i])

PlainInv == TrieInv /\ ~strayed /\ PlainLists(trie)

LEMMA PlainAdded ==
  ASSUME NEW t, TrieSound(t), PlainLists(t), NEW idx \in Node(t.check, t.size),
         NEW ch \in Char, ch # 0, Signed(ch) = ch, t.check[t.base[idx] + ch] # idx,
         NEW b, b \in Trie_SearchAvailableBaseValue(t, idx, ch), b # -1
  PROVE  ~Strays(t, idx, ch, b) /\ PlainLists(Added(t, idx, ch, b))
<1>1. PICK B, K, C, R, N : t = Struct(B, K, C, R, N) /\ Sound(B, K, C, R, N)
  BY DEF TrieSound
<1>2. t.base = B /\ t.check = K /\ t.children = C /\ t.record = R /\ t.size = N
  BY <1>1, StructFields
<1>3. idx \in Node(K, N) /\ idx \in Index(N)
  BY <1>2 DEF Node
<1>4. b + ch # Root
  <2>1. b \in Nat /\ b >= 1
    BY <1>1, <1>3, SearchFinds
  <2> QED
    BY <2>1, Chars DEF Root
<1>5. Plainly(t, idx)
  <2>1. \A i \in Slots(t, idx) : i \in Index(N)
    <3>1. CharList_All(C[idx]) = Range(C[idx]) /\ Range(C[idx]) \in SUBSET Char
      BY <1>1, <1>2, <1>3, Structure DEF PlainLists
    <3> QED
      BY <1>1, <1>2, <1>3, <3>1, Structure DEF Slots
  <2> QED
    BY <1>2, <1>3, <2>1 DEF Plainly, PlainLists
<1>6. ~Strays(t, idx, ch, b)
  BY <1>4, <1>5 DEF Strays
<1>7. PICK t2 : t2 = Added(t, idx, ch, b)
  OBVIOUS
<1>8. Lists(t, t2, ch)
  BY <1>6, <1>7, AddedSound
<1>9. PlainLists(t2)
  BY <1>8 DEF Lists, PlainLists, Plain
<1> QED
  BY <1>6, <1>7, <1>9

LEMMA PlainStep ==
  ASSUME PlainKeys, PlainInv, [Next]_vars
  PROVE  PlainInv'
<1>1. TrieInv'
  BY TrieStep DEF PlainInv
<1>2. ASSUME UNCHANGED <<trie, strayed>>
      PROVE  PlainInv'
  BY <1>1, <1>2 DEF PlainInv, PlainLists
<1>3. CASE AddCharacter
  <2>1. PICK idx \in Nat : idx = call.idx
    BY <1>3 DEF AddCharacter, PlainInv, TrieInv, CallSound
  <2>2. PICK ch : ch = call.key[call.done + 1]
    OBVIOUS
  <2>3. ch \in Char /\ ch # 0 /\ Signed(ch) = ch
    <3>1. call.key \in Key /\ call.done \in Nat /\ call.done < Len(call.key)
      BY <1>3 DEF AddCharacter, PlainInv, TrieInv, CallSound
    <3>2. call.done + 1 \in 1 .. Len(call.key)
      BY <3>1, Letters
    <3> QED
      BY <2>2, <3>1, <3>2, Letters DEF PlainKeys
  <2>4. /\ TrieSound(trie) /\ PlainLists(trie) /\ idx \in Node(trie.check, trie.size)
        /\ trie.check[trie.base[idx] + ch] # idx
    BY <1>3, <2>1, <2>2 DEF AddCharacter, PlainInv, TrieInv, CallSound
  <2>5. PICK w : w = Trie_Expand(trie)
    OBVIOUS
  <2>6. /\ TrieSound(w) /\ idx \in Node(w.check, w.size) /\ w.check[w.base[idx] + ch] # idx
        /\ -1 \notin Trie_SearchAvailableBaseValue(w, idx, ch)
        /\ \A i \in Index(w.size) : \A c \in Range(w.children[i]) :
             \E j \in Index(trie.size) : c \in Range(trie.children[j])
    BY <2>3, <2>4, <2>5, WideSound
  <2>7. PlainLists(w)
    BY <2>4, <2>6 DEF PlainLists, Plain
  <2>8. ASSUME NEW t, t = trie \/ t = w,
               NEW b \in Trie_SearchAvailableBaseValue(t, idx, ch), b # -1,
               trie' = Added(t, idx, ch, b), strayed' = Strays(t, idx, ch, b)
        PROVE  PlainInv'
    <3>1. ~Strays(t, idx, ch, b) /\ PlainLists(Added(t, idx, ch, b))
      BY <2>3, <2>4, <2>6, <2>7, <2>8, PlainAdded
    <3>2. ~strayed'
      BY <2>8, <3>1, Zenon
    <3>3. PlainLists(trie)'
      BY <2>8, <3>1 DEF PlainLists
    <3> QED
      BY <1>1, <3>2, <3>3 DEF PlainInv
  <2>9. \/ \E b \in Trie_SearchAvailableBaseValue(trie, idx, ch) \ {-1} :
             trie' = Added(trie, idx, ch, b) /\ strayed' = Strays(trie, idx, ch, b)
        \/ \E b \in Trie_SearchAvailableBaseValue(w, idx, ch) :
             trie' = Added(w, idx, ch, b) /\ strayed' = Strays(w, idx, ch, b)
        \/ UNCHANGED <<trie, strayed>>
    BY <1>3, <2>1, <2>2, <2>5, Zenon DEF AddCharacter, GivesUp
  <2> QED
    BY <1>2, <2>6, <2>8, <2>9
<1>4. CASE Finish
  <2>1. strayed' = strayed /\ trie'.size = trie.size /\ trie'.children = trie.children
    BY <1>4 DEF Finish, PlainInv, TrieInv, TrieSound, Struct
  <2> QED
    BY <1>1, <2>1 DEF PlainInv, PlainLists
<1> QED
  BY <1>2, <1>3, <1>4 DEF Next, Called, vars

LEMMA PlainStart == Init => PlainInv
<1> SUFFICES ASSUME Init
             PROVE  PlainInv
  OBVIOUS
<1>1. PlainLists(trie)
  BY EmptyRange DEF Init, PlainLists, Plain, Index
<1> QED
  BY <1>1, TrieStart DEF PlainInv, Init

\* A client whose keys are of the characters 1 to CharMax / 2, or ASCII, gets
\* the map without a reservation: no node ever strays.
THEOREM PlainKeysAreMapped ==
  ASSUME PlainKeys
  PROVE  Spec => ImplementsMap
<1>1. Init => PlainInv
  BY PlainStart
<1>2. PlainInv /\ [Next]_vars => PlainInv'
  BY PlainStep
<1>3. PlainInv => ~strayed
  BY DEF PlainInv
<1>4. Spec => [](~strayed)
  BY <1>1, <1>2, <1>3, PTL DEF Spec
<1>5. ~strayed' /\ [~strayed' => \E k \in Key, r \in Record : M!Set(k, r)]_(M!vars)
        => [\E k \in Key, r \in Record : M!Set(k, r)]_(M!vars)
  OBVIOUS
<1> QED
  BY <1>4, <1>5, TrieIsMap, PTL DEF MapUntilStrayed, ImplementsMap, M!Spec
=============================================================================
