-------------------------- MODULE ConnectionProofs --------------------------
(***************************************************************************)
(* Proofs about one client connection (module Connection), for every       *)
(* script, every way to cut its stream into pieces and every limit.        *)
(*                                                                         *)
(* Matched speaks of the replies only; what keeps it true is where the     *)
(* buffer stands in the client's stream.  InStep says that the buffer  *)
(* and the bytes that have not arrived yet are exactly what the client     *)
(* sends after the last message that was answered; DataSound, that the     *)
(* size of a "set" being read is that of its message.  The lemmas before   *)
(* them say where the messages of a script lie in its stream (an induction *)
(* on its length), and that a complete line at the head of the buffer is   *)
(* the line of the next message.                                           *)
(***************************************************************************)
EXTENDS Connection, Induction, SequenceTheorems

-----------------------------------------------------------------------------
(* Bytes and lines *)

\* The recursive function FlattenSeq is made from: the first i sequences of ss,
\* one after the other.
Heads(f, ss) ==
  f = [i \in 1 .. Len(ss) |-> IF i = 1 THEN ss[i] ELSE f[i - 1] \o ss[i]]

\* Such a function exists, so the recursive definition has a meaning.
LEMMA HeadsExist ==
  ASSUME NEW S, NEW ss \in Seq(Seq(S))
  PROVE  \E f : Heads(f, ss)
<1> DEFINE Step(f, i) == IF i = 1 THEN ss[i] ELSE f[i - 1] \o ss[i]
           N == {n \in Nat : \E f : f = [i \in 1 .. n |-> Step(f, i)]}
<1>1. 0 \in N
  <2> DEFINE g == [i \in 1 .. 0 |-> 0]
  <2>1. g = [i \in 1 .. 0 |-> Step(g, i)]
    <3> HIDE DEF Step
    <3> QED
      OBVIOUS
  <2> QED
    BY <2>1
<1>2. ASSUME NEW n \in Nat, n \in N
      PROVE  n + 1 \in N
  <2>1. PICK f : f = [i \in 1 .. n |-> Step(f, i)]
    BY <1>2
  <2> DEFINE g == [i \in 1 .. n + 1 |-> Step(f, i)]
  <2>2. ASSUME NEW i \in 1 .. n
        PROVE  g[i] = f[i]
    <3>1. i \in 1 .. n + 1
      OBVIOUS
    <3> HIDE DEF Step
    <3>2. f[i] = Step(f, i)
      BY <2>1
    <3> QED
      BY <3>1, <3>2
  <2>3. \A i \in 1 .. n + 1 : i # 1 => i - 1 \in 1 .. n
    OBVIOUS
  <2>4. \A i \in 1 .. n + 1 : Step(g, i) = Step(f, i)
    <3> HIDE DEF g
    <3> QED
      BY <2>2, <2>3
  <2>5. g = [i \in 1 .. n + 1 |-> Step(g, i)]
    <3> HIDE DEF Step
    <3> QED
      BY <2>4
  <2>6. \E h : h = [i \in 1 .. n + 1 |-> Step(h, i)]
    <3> HIDE DEF Step, g
    <3> QED
      BY <2>5
  <2> HIDE DEF Step
  <2> QED
    BY <2>6
<1> HIDE DEF N
<1>3. Len(ss) \in N
  BY <1>1, <1>2, NatSetInduction
<1> QED
  BY <1>3 DEF N, Heads

\* L[i] is where the i-th sequence of ss ends in flat: flat is all of them, one
\* after the other.
Joined(L, flat, ss) ==
  /\ L \in [0 .. Len(ss) -> Nat] /\ L[0] = 0 /\ L[Len(ss)] = Len(flat)
  /\ \A i \in 1 .. Len(ss) :
       /\ L[i] = L[i - 1] + Len(ss[i]) /\ L[i] <= Len(flat)
       /\ \A j \in 1 .. Len(ss[i]) : flat[L[i - 1] + j] = ss[i][j]

LEMMA FlattenJoins ==
  ASSUME NEW S, NEW ss \in Seq(Seq(S))
  PROVE  FlattenSeq(ss) \in Seq(S) /\ \E L : Joined(L, FlattenSeq(ss), ss)
<1>1. CASE ss = <<>>
  <2>1. FlattenSeq(ss) = <<>>
    BY <1>1 DEF FlattenSeq
  <2>2. Joined([i \in 0 .. 0 |-> 0], <<>>, <<>>)
    BY DEF Joined
  <2> QED
    BY <1>1, <2>1, <2>2
<1>2. CASE ss # <<>>
  <2> DEFINE f == CHOOSE g : Heads(g, ss)
  <2>0. Len(ss) \in Nat /\ Len(ss) # 0 /\ DOMAIN ss = 1 .. Len(ss)
    BY <1>2
  <2>1. FlattenSeq(ss) = f[Len(ss)]
    BY <2>0 DEF FlattenSeq, Heads
  <2>2. Heads(f, ss)
    BY HeadsExist
  <2> HIDE DEF f
  <2>3. f[1] = ss[1] /\ \A i \in 1 .. Len(ss) : i # 1 => f[i] = f[i - 1] \o ss[i]
    <3> DEFINE Step(i) == IF i = 1 THEN ss[i] ELSE f[i - 1] \o ss[i]
    <3>1. f = [i \in 1 .. Len(ss) |-> Step(i)]
      BY <2>2 DEF Heads
    <3>2. \A i \in 1 .. Len(ss) : f[i] = Step(i)
      <4> HIDE DEF Step
      <4> QED
        BY <3>1
    <3>3. 1 \in 1 .. Len(ss) /\ Step(1) = ss[1]
      BY <2>0
    <3> QED
      BY <3>2, <3>3
  <2> DEFINE L == [i \in 0 .. Len(ss) |-> IF i = 0 THEN 0 ELSE Len(f[i])]
  <2>4. DOMAIN L = 0 .. Len(ss) /\ L[0] = 0 /\ \A i \in 1 .. Len(ss) : L[i] = Len(f[i])
    BY <2>0
  <2>5. L = [i \in 0 .. Len(ss) |-> L[i]]
    OBVIOUS
  <2> HIDE DEF L
  <2> DEFINE Good(i) ==
               /\ f[i] \in Seq(S)
               /\ \A h \in 1 .. i :
                    /\ L[h] \in Nat /\ L[h - 1] \in Nat
                    /\ L[h] = L[h - 1] + Len(ss[h]) /\ L[h] <= L[i]
                    /\ \A j \in 1 .. Len(ss[h]) : f[i][L[h - 1] + j] = ss[h][j]
             N == {n \in Nat : n + 1 <= Len(ss) => Good(n + 1)}
  <2>6. 0 \in N
    <3>1. ss[1] \in Seq(S) /\ f[1] = ss[1] /\ Len(ss[1]) \in Nat
      BY <2>0, <2>3
    <3>2. L[0] = 0 /\ L[1] = Len(ss[1])
      BY <2>0, <2>4, <3>1
    <3>3. Good(1)
      <4> SUFFICES ASSUME NEW h \in 1 .. 1
                   PROVE  h = 1 /\ h - 1 = 0
        BY <3>1, <3>2
      <4> QED
        OBVIOUS
    <3> HIDE DEF Good
    <3> QED
      BY <3>3
  <2>7. ASSUME NEW n \in Nat, n \in N
        PROVE  n + 1 \in N
    <3> HIDE DEF Good
    <3> SUFFICES ASSUME n + 1 + 1 <= Len(ss)
                 PROVE  Good(n + 1 + 1)
      OBVIOUS
    <3>0. PICK i \in 1 .. Len(ss), k \in 1 .. Len(ss) : i = n + 1 /\ k = i + 1
      BY <2>0
    <3>1. Good(i) /\ k # 1 /\ k - 1 = i
      BY <2>7, <3>0
    <3>2. f[k] = f[i] \o ss[k] /\ ss[k] \in Seq(S) /\ f[i] \in Seq(S)
      <4>1. f[k] = f[k - 1] \o ss[k]
        BY <2>3, <3>1
      <4>2. ss[k] \in Seq(S)
        BY <2>0
      <4>3. f[i] \in Seq(S)
        BY <3>1 DEF Good
      <4> QED
        BY <3>1, <4>1, <4>2, <4>3
    <3>3. /\ f[k] \in Seq(S)
          /\ L[k] = L[i] + Len(ss[k])
          /\ \A x \in 1 .. L[i] : f[k][x] = f[i][x]
          /\ \A j \in 1 .. Len(ss[k]) : f[k][L[i] + j] = ss[k][j]
          /\ L[i] \in Nat /\ L[k] \in Nat /\ Len(ss[k]) \in Nat
      <4>1. PICK p \in Seq(S), q \in Seq(S) : p = f[i] /\ q = ss[k]
        BY <3>2
      <4>2. /\ p \o q \in Seq(S) /\ Len(p \o q) = Len(p) + Len(q)
            /\ \A x \in 1 .. Len(p) : (p \o q)[x] = p[x]
            /\ \A j \in 1 .. Len(q) : (p \o q)[Len(p) + j] = q[j]
            /\ Len(p) \in Nat /\ Len(p \o q) \in Nat /\ Len(q) \in Nat
        OBVIOUS
      <4>3. f[k] = p \o q
        BY <3>2, <4>1
      <4>4. L[i] = Len(p) /\ L[k] = Len(p \o q)
        BY <2>4, <4>1, <4>3
      <4> QED
        BY <4>1, <4>2, <4>3, <4>4
    <3>4. ASSUME NEW h \in 1 .. k
          PROVE  /\ L[h] \in Nat /\ L[h - 1] \in Nat
                 /\ L[h] = L[h - 1] + Len(ss[h]) /\ L[h] <= L[k]
                 /\ \A j \in 1 .. Len(ss[h]) : f[k][L[h - 1] + j] = ss[h][j]
      <4>1. CASE h = k
        <5>1. h - 1 = i
          BY <4>1, <3>1
        <5>2. L[h] = L[k] /\ L[h - 1] = L[i] /\ ss[h] = ss[k]
          BY <4>1, <5>1
        <5>3. \A j \in 1 .. Len(ss[h]) : f[k][L[h - 1] + j] = ss[h][j]
          BY <5>2, <3>3
        <5>4. L[h] \in Nat /\ L[h - 1] \in Nat /\ L[h] = L[h - 1] + Len(ss[h])
          BY <5>2, <3>3
        <5>5. L[h] <= L[k]
          BY <5>2, <3>3
        <5> QED
          BY <5>3, <5>4, <5>5
      <4>2. CASE h # k
        <5>1. h \in 1 .. i
          BY <4>2, <3>0
        <5>2. /\ L[h] \in Nat /\ L[h - 1] \in Nat
              /\ L[h] = L[h - 1] + Len(ss[h]) /\ L[h] <= L[i]
              /\ \A j \in 1 .. Len(ss[h]) : f[i][L[h - 1] + j] = ss[h][j]
          BY <5>1, <3>1 DEF Good
        <5>3. Len(ss[h]) \in Nat
          BY <5>1, <2>0
        <5>4. ASSUME NEW j \in 1 .. Len(ss[h])
              PROVE  L[h - 1] + j \in 1 .. L[i]
          <6>1. PICK a \in Nat, b \in Nat, c \in Nat, d \in Nat :
                  a = L[h] /\ b = L[h - 1] /\ c = L[i] /\ d = Len(ss[h])
            BY <5>2, <5>3, <3>3
          <6>2. a = b + d /\ a <= c /\ j \in 1 .. d
            BY <5>2, <6>1
          <6>3. b + j \in 1 .. c
            BY <6>2
          <6> QED
            BY <6>1, <6>3
        <5>5. \A j \in 1 .. Len(ss[h]) : f[k][L[h - 1] + j] = ss[h][j]
          BY <5>2, <5>4, <3>3
        <5>6. L[h] <= L[k]
          <6>1. PICK a \in Nat, b \in Nat, c \in Nat, d \in Nat :
                  a = L[h] /\ b = L[i] /\ c = L[k] /\ d = Len(ss[k])
            BY <5>2, <3>3
          <6>2. a <= b /\ c = b + d
            BY <5>2, <3>3, <6>1
          <6>3. a <= c
            BY <6>2
          <6> QED
            BY <6>1, <6>3
        <5> QED
          BY <5>2, <5>5, <5>6
      <4> QED
        BY <4>1, <4>2
    <3> QED
      BY <3>0, <3>3, <3>4 DEF Good
  <2>8. Good(Len(ss))
    <3> HIDE DEF N
    <3>1. \A n \in Nat : n \in N
      BY <2>6, <2>7, NatSetInduction
    <3>2. Len(ss) - 1 \in N /\ Len(ss) - 1 + 1 = Len(ss)
      BY <3>1, <2>0
    <3> USE DEF N
    <3> HIDE DEF Good
    <3> QED
      BY <3>2
  <2>9. Joined(L, f[Len(ss)], ss)
    <3>1. L[Len(ss)] = Len(f[Len(ss)])
      BY <2>0, <2>4
    <3>2. \A i \in 0 .. Len(ss) : L[i] \in Nat
      BY <2>4, <2>8
    <3>3. L \in [0 .. Len(ss) -> Nat]
      BY <2>5, <3>2
    <3> QED
      BY <2>4, <2>8, <3>1, <3>3 DEF Joined
  <2> QED
    BY <2>1, <2>8, <2>9
<1> QED
  BY <1>1, <1>2

\* Where the first newline is, if there is one.
LEMMA EolFirst ==
  ASSUME NEW S, NEW b \in Seq(S)
  PROVE  /\ Eol(b) \in 0 .. Len(b)
         /\ Eol(b) > 0 => b[Eol(b)] = LF
         /\ \A j \in 1 .. Len(b) : b[j] = LF => Eol(b) > 0 /\ Eol(b) <= j
<1> DEFINE I == {j \in 1 .. Len(b) : b[j] = LF}
<1>1. Eol(b) = IF I # {} THEN CHOOSE x \in I : \A y \in I : x <= y ELSE 0
  BY DEF Eol, SelectInSeq, Min
<1>2. I \in SUBSET Nat /\ Len(b) \in Nat
  OBVIOUS
<1>3. I # {} => \E x \in I : \A y \in I : x <= y
  <2> HIDE DEF I
  <2> QED
    BY <1>2, LeastNat
<1>4. CASE I = {}
  BY <1>1, <1>2, <1>4
<1>5. CASE I # {}
  <2>1. Eol(b) \in I /\ \A y \in I : Eol(b) <= y
    <3> HIDE DEF I
    <3> QED
      BY <1>1, <1>3, <1>5
  <2> QED
    BY <1>2, <2>1
<1> QED
  BY <1>4, <1>5

\* Bytes that agree have the same line at their head, once both have all of it.
Agree(a, b) == \A j \in 1 .. Len(a) : j <= Len(b) => a[j] = b[j]

LEMMA SameLine ==
  ASSUME NEW a \in Seq(Byte), NEW b \in Seq(Byte), Agree(a, b),
         Eol(a) > 0, Eol(b) > 0
  PROVE  Eol(a) = Eol(b) /\ \A op : LineIs(op, a) <=> LineIs(op, b)
<1>1. /\ Eol(a) \in 1 .. Len(a) /\ a[Eol(a)] = LF
      /\ \A j \in 1 .. Len(a) : a[j] = LF => Eol(a) <= j
      /\ Eol(b) \in 1 .. Len(b) /\ b[Eol(b)] = LF
      /\ \A j \in 1 .. Len(b) : b[j] = LF => Eol(b) <= j
      /\ Len(a) \in Nat /\ Len(b) \in Nat
  BY EolFirst
<1>2. Eol(a) = Eol(b)
  <2>1. CASE Eol(a) <= Len(b) /\ Eol(b) <= Len(a)
    BY <1>1, <2>1 DEF Agree
  <2>2. CASE Eol(a) > Len(b)
    BY <1>1, <2>2 DEF Agree
  <2>3. CASE Eol(b) > Len(a)
    BY <1>1, <2>3 DEF Agree
  <2> QED
    BY <1>1, <2>1, <2>2, <2>3
<1>3. \A j \in 1 .. Eol(a) : a[j] = b[j]
  BY <1>1, <1>2 DEF Agree
<1>4. PICK n \in Nat \ {0} : n = Eol(a) /\ n = Eol(b)
  BY <1>1, <1>2
<1>5. Malformed(a) <=> Malformed(b)
  BY <1>3, <1>4, LimitAssumption DEF Malformed
<1>6. a[1] = b[1]
  BY <1>3, <1>4
<1> QED
  BY <1>2, <1>5, <1>6 DEF LineIs

-----------------------------------------------------------------------------
(* The stream of a script *)

Sent(s) == [i \in DOMAIN s |-> s[i].sent]
Ends(s) == CHOOSE L : Joined(L, Bytes(s), Sent(s))

\* r is all that a client sends from its message k + 1 on.
Follows(r, s, k) ==
  /\ r \in Seq(Byte)
  /\ Len(r) = Len(Bytes(s)) - Ends(s)[k]
  /\ \A j \in 1 .. Len(r) : r[j] = Bytes(s)[Ends(s)[k] + j]

LEMMA MessageType ==
  ASSUME NEW s \in Script
  PROVE  /\ Len(s) \in Nat /\ DOMAIN s = 1 .. Len(s)
         /\ \A i \in 1 .. Len(s) : /\ s[i].sent \in Seq(Byte) /\ s[i].replies \subseteq Reply
                                   /\ Framed(s[i])
<1> DEFINE M == [sent : Seq(Byte), replies : SUBSET Reply]
<1>1. s \in Seq(M)
  BY ScriptAssumption
<1> HIDE DEF M
<1>2. Len(s) \in Nat /\ DOMAIN s = 1 .. Len(s) /\ \A i \in 1 .. Len(s) : s[i] \in M
  BY <1>1
<1> QED
  BY <1>2, MessageAssumption DEF M

LEMMA StreamJoined ==
  ASSUME NEW s \in Script
  PROVE  /\ Bytes(s) \in Seq(Byte)
         /\ Ends(s) \in [0 .. Len(s) -> Nat]
         /\ Ends(s)[0] = 0 /\ Ends(s)[Len(s)] = Len(Bytes(s))
         /\ \A i \in 1 .. Len(s) :
              /\ Ends(s)[i] = Ends(s)[i - 1] + Len(s[i].sent)
              /\ Ends(s)[i] <= Len(Bytes(s))
              /\ \A j \in 1 .. Len(s[i].sent) :
                   Bytes(s)[Ends(s)[i - 1] + j] = s[i].sent[j]
<1>1. /\ Sent(s) \in Seq(Seq(Byte)) /\ Len(Sent(s)) = Len(s)
      /\ \A i \in 1 .. Len(s) : Sent(s)[i] = s[i].sent
  BY MessageType DEF Sent
<1>2. Bytes(s) = FlattenSeq(Sent(s))
  BY DEF Bytes, Sent
<1>3. Bytes(s) \in Seq(Byte) /\ Joined(Ends(s), Bytes(s), Sent(s))
  BY <1>1, <1>2, FlattenJoins DEF Ends
<1>4. /\ Ends(s) \in [0 .. Len(s) -> Nat]
      /\ Ends(s)[0] = 0 /\ Ends(s)[Len(s)] = Len(Bytes(s))
  BY <1>1, <1>3 DEF Joined
<1>5. ASSUME NEW i \in 1 .. Len(s)
      PROVE  /\ Ends(s)[i] = Ends(s)[i - 1] + Len(s[i].sent)
             /\ Ends(s)[i] <= Len(Bytes(s))
             /\ \A j \in 1 .. Len(s[i].sent) : Bytes(s)[Ends(s)[i - 1] + j] = s[i].sent[j]
  <2>1. i \in 1 .. Len(Sent(s)) /\ Sent(s)[i] = s[i].sent
    BY <1>1
  <2>2. /\ Ends(s)[i] = Ends(s)[i - 1] + Len(Sent(s)[i])
        /\ Ends(s)[i] <= Len(Bytes(s))
        /\ \A j \in 1 .. Len(Sent(s)[i]) : Bytes(s)[Ends(s)[i - 1] + j] = Sent(s)[i][j]
    BY <1>3, <2>1 DEF Joined
  <2> QED
    BY <2>1, <2>2
<1> QED
  BY <1>3, <1>4, <1>5

\* What is left of the stream begins with the next message, and what comes after
\* that message is what follows it.
LEMMA NextMessage ==
  ASSUME NEW s \in Script, NEW k \in 0 .. Len(s), NEW r, Follows(r, s, k), Len(r) > 0
  PROVE  /\ k + 1 \in 1 .. Len(s)
         /\ s[k + 1].sent \in Seq(Byte)
         /\ Len(s[k + 1].sent) <= Len(r)
         /\ Agree(s[k + 1].sent, r)
         /\ Follows(SubSeq(r, Len(s[k + 1].sent) + 1, Len(r)), s, k + 1)
<1>1. Len(s) \in Nat /\ r \in Seq(Byte) /\ Len(r) \in Nat
  BY MessageType DEF Follows
<1>2. k + 1 \in 1 .. Len(s)
  <2> SUFFICES ASSUME k = Len(s) PROVE FALSE
    BY <1>1
  <2> QED
    BY <1>1, StreamJoined DEF Follows
<1>3. PICK i \in 1 .. Len(s) : i = k + 1 /\ i - 1 = k
  BY <1>1, <1>2
<1>4. PICK m \in Seq(Byte) : m = s[i].sent
  BY MessageType
<1>5. PICK a \in Nat, b \in Nat, n \in Nat, t \in Nat :
        /\ a = Ends(s)[k] /\ b = Ends(s)[i] /\ n = Len(Bytes(s)) /\ t = Len(m)
  <2>1. Ends(s)[k] \in Nat /\ Ends(s)[i] \in Nat
    <3>1. Ends(s) \in [0 .. Len(s) -> Nat]
      BY StreamJoined
    <3>2. i \in 0 .. Len(s)
      BY <1>1
    <3> QED
      BY <3>1, <3>2
  <2>2. Len(Bytes(s)) \in Nat /\ Len(m) \in Nat
    BY StreamJoined
  <2> QED
    BY <2>1, <2>2
<1>6. /\ b = a + t /\ b <= n
      /\ \A j \in 1 .. t : Bytes(s)[a + j] = m[j]
  <2>1. /\ Ends(s)[i] = Ends(s)[i - 1] + Len(s[i].sent)
        /\ Ends(s)[i] <= Len(Bytes(s))
        /\ \A j \in 1 .. Len(s[i].sent) : Bytes(s)[Ends(s)[i - 1] + j] = s[i].sent[j]
    BY StreamJoined
  <2>2. i - 1 = k
    BY <1>3
  <2> QED
    BY <1>4, <1>5, <2>1, <2>2
<1>7. Len(r) = n - a /\ \A j \in 1 .. Len(r) : r[j] = Bytes(s)[a + j]
  BY <1>5 DEF Follows
<1>8. t <= Len(r) /\ Agree(m, r)
  <2>1. PICK l \in Nat : l = Len(r)
    BY <1>1
  <2>2. t <= l
    BY <1>6, <1>7, <2>1
  <2>3. \A j \in 1 .. t : r[j] = Bytes(s)[a + j]
    BY <1>7, <2>1, <2>2
  <2> QED
    BY <1>5, <1>6, <2>1, <2>2, <2>3 DEF Agree
<1>9. Follows(SubSeq(r, t + 1, Len(r)), s, i)
  <2> DEFINE q == SubSeq(r, t + 1, Len(r))
  <2>1. q \in Seq(Byte) /\ Len(q) = Len(r) - t /\ \A j \in 1 .. Len(q) : q[j] = r[t + j]
    BY <1>1, <1>8
  <2> HIDE DEF q
  <2>2. Len(q) = n - b
    BY <1>1, <1>6, <1>7, <2>1
  <2>3. ASSUME NEW j \in 1 .. Len(q)
        PROVE  q[j] = Bytes(s)[b + j]
    <3>1. t + j \in 1 .. Len(r) /\ a + (t + j) = b + j
      <4>1. PICK l \in Nat : l = Len(r)
        BY <1>1
      <4>2. Len(q) = l - t /\ t <= l /\ b = a + t
        BY <1>6, <1>8, <2>1, <4>1
      <4>3. j \in 1 .. l - t
        BY <4>2
      <4> QED
        BY <4>1, <4>2, <4>3
    <3> QED
      BY <1>7, <2>1, <3>1
  <2> QED
    BY <1>5, <2>1, <2>2, <2>3 DEF Follows, q
<1> QED
  BY <1>2, <1>3, <1>4, <1>5, <1>8, <1>9

-----------------------------------------------------------------------------
(* The invariant *)

\* The message that is being read, or awaited.
Message == script[Len(log) + 1]

\* What the client sent and no command took is what follows the last message
\* that was answered.
InStep == Follows(cmdbuf \o unread, script, Len(log))

\* The size and the place of the data are those the line of this message has.
DataSound ==
  /\ Len(log) < Len(script)
  /\ Complete(Message.sent)
  /\ set.data = Eol(Message.sent) /\ set.bytes = Message.sent[1].bytes

\* So it is until a "set" line that lacks a number is taken for complete.
Steady ==
  /\ Matched
  /\ state # "CLOSED" => InStep
  /\ state = "READINGDATA" => DataSound

CInv ==
  /\ TypeOK
  /\ StallsOnlyAfterReturn
  /\ ~misread => Steady

LEMMA InitSound == Init => CInv
<1> SUFFICES ASSUME Init PROVE CInv
  OBVIOUS
<1>1. script \in Script
  BY DEF Init
<1>2. TypeOK
  <2>1. /\ unread \in Seq(Byte) /\ cmdbuf \in Seq(Byte) /\ Len(cmdbuf) <= BufSize
        /\ set \in [bytes : Nat, data : Nat] /\ log \in Seq(Reply)
    BY <1>1, StreamJoined, LimitAssumption DEF Init
  <2>2. misread \in BOOLEAN
    BY Zenon DEF Init
  <2> QED
    BY <1>1, <2>1, <2>2 DEF Init, TypeOK
<1>3. Matched
  BY <1>1, MessageType DEF Init, Matched
<1>4. InStep
  <2>1. PICK n \in Nat : n = Len(Bytes(script))
    BY <1>1, StreamJoined
  <2>2. cmdbuf \o unread = Bytes(script) /\ Len(log) = 0
    BY <1>1, StreamJoined DEF Init
  <2>3. Follows(Bytes(script), script, 0)
    BY <1>1, <2>1, StreamJoined DEF Follows
  <2> QED
    BY <2>2, <2>3 DEF InStep
<1>5. StallsOnlyAfterReturn
  <2>1. cmdbuf \in Seq(Byte) /\ Len(cmdbuf) = 0
    BY DEF Init
  <2>2. LineLen \in 0 .. 0
    BY <2>1, EolFirst DEF LineLen
  <2> QED
    BY <2>2 DEF StallsOnlyAfterReturn, HasCommand
<1> QED
  BY <1>2, <1>3, <1>4, <1>5 DEF CInv, Steady, Init

\* Taking n bytes off the buffer takes them off what is left of the stream.
LEMMA TakeOff ==
  ASSUME NEW a \in Seq(Byte), NEW b \in Seq(Byte), NEW n \in 0 .. Len(a)
  PROVE  /\ SubSeq(a, n + 1, Len(a)) \in Seq(Byte)
         /\ Len(SubSeq(a, n + 1, Len(a))) = Len(a) - n
         /\ SubSeq(a, n + 1, Len(a)) \o b = SubSeq(a \o b, n + 1, Len(a \o b))
<1> DEFINE c == a \o b
           p == SubSeq(a, n + 1, Len(a))
           q == SubSeq(c, n + 1, Len(c))
<1>1. /\ c \in Seq(Byte) /\ Len(c) = Len(a) + Len(b)
      /\ \A i \in 1 .. Len(a) + Len(b) :
           c[i] = IF i <= Len(a) THEN a[i] ELSE b[i - Len(a)]
      /\ Len(a) \in Nat /\ Len(b) \in Nat /\ n \in 0 .. Len(c)
  OBVIOUS
<1>2. p \in Seq(Byte) /\ Len(p) = Len(a) - n /\ \A i \in 1 .. Len(p) : p[i] = a[n + i]
  OBVIOUS
<1> HIDE DEF c, p
<1>3. /\ q \in Seq(Byte) /\ Len(q) = Len(a) + Len(b) - n
      /\ \A i \in 1 .. Len(q) : q[i] = c[n + i]
  <2>1. /\ q \in Seq(Byte) /\ Len(q) = Len(c) - n
        /\ \A i \in 1 .. Len(c) - n : q[i] = c[n + i]
    BY <1>1
  <2> HIDE DEF q
  <2> QED
    BY <1>1, <2>1
<1> HIDE DEF q
<1>4. /\ p \o b \in Seq(Byte) /\ Len(p \o b) = Len(p) + Len(b)
      /\ \A i \in 1 .. Len(p) + Len(b) :
           (p \o b)[i] = IF i <= Len(p) THEN p[i] ELSE b[i - Len(p)]
  <2>1. PICK u \in Seq(Byte) : u = p
    BY <1>2
  <2>2. /\ u \o b \in Seq(Byte) /\ Len(u \o b) = Len(u) + Len(b)
        /\ \A i \in 1 .. Len(u) + Len(b) :
             (u \o b)[i] = IF i <= Len(u) THEN u[i] ELSE b[i - Len(u)]
    OBVIOUS
  <2> QED
    BY <2>1, <2>2
<1>5. PICK x \in Nat, y \in Nat, z \in Nat, w \in Nat :
        x = Len(a) /\ y = Len(b) /\ z = Len(p) /\ w = Len(q)
  <2>1. Len(p) \in Nat /\ Len(q) \in Nat
    BY <1>2, <1>3
  <2> QED
    BY <1>1, <2>1
<1>6. ASSUME NEW i \in 1 .. w
      PROVE  (p \o b)[i] = q[i]
  <2>1. n \in 0 .. x /\ z = x - n /\ w = x + y - n
    BY <1>2, <1>3, <1>5
  <2>2. n + i \in 1 .. x + y /\ i \in 1 .. z + y
    BY <2>1
  <2>3. q[i] = c[n + i]
    BY <1>3, <1>5
  <2>4. c[n + i] = IF n + i <= x THEN a[n + i] ELSE b[n + i - x]
    BY <1>1, <1>5, <2>2
  <2>5. (p \o b)[i] = IF i <= z THEN p[i] ELSE b[i - z]
    BY <1>4, <1>5, <2>2
  <2>6. CASE i <= z
    <3>1. p[i] = a[n + i] /\ n + i <= x
      BY <1>2, <1>5, <2>1, <2>2, <2>6
    <3> QED
      BY <2>3, <2>4, <2>5, <2>6, <3>1
  <2>7. CASE ~(i <= z)
    <3>1. ~(n + i <= x) /\ n + i - x = i - z
      BY <2>1, <2>7
    <3> QED
      BY <2>3, <2>4, <2>5, <2>7, <3>1
  <2> QED
    BY <2>6, <2>7
<1>7. p \o b = q
  <2>1. PICK u \in Seq(Byte), v \in Seq(Byte) : u = p \o b /\ v = q
    BY <1>3, <1>4
  <2>2. Len(u) = w /\ Len(v) = w
    BY <1>2, <1>3, <1>4, <1>5, <2>1
  <2>3. \A i \in 1 .. w : u[i] = v[i]
    BY <1>6, <2>1
  <2>4. u = [i \in 1 .. w |-> u[i]] /\ v = [i \in 1 .. w |-> v[i]]
    BY <2>2
  <2> QED
    BY <2>1, <2>3, <2>4
<1> QED
  BY <1>2, <1>7 DEF c, p, q

\* What a concatenation is at each place.
LEMMA Concat ==
  ASSUME NEW a \in Seq(Byte), NEW b \in Seq(Byte), NEW x, NEW y,
         x = Len(a), y = Len(b)
  PROVE  /\ x \in Nat /\ y \in Nat
         /\ a \o b \in Seq(Byte) /\ Len(a \o b) = x + y
         /\ \A i \in 1 .. x + y : (a \o b)[i] = IF i <= x THEN a[i] ELSE b[i - x]
  OBVIOUS

\* A piece moved from the head of b to the end of a.
LEMMA JoinCut ==
  ASSUME NEW a \in Seq(Byte), NEW b \in Seq(Byte), NEW n \in 1 .. Len(b)
  PROVE  (a \o SubSeq(b, 1, n)) \o SubSeq(b, n + 1, Len(b)) = a \o b
<1> DEFINE c == SubSeq(b, 1, n)
           d == SubSeq(b, n + 1, Len(b))
           p == a \o c
           u == p \o d
           v == a \o b
<1>1. /\ c \in Seq(Byte) /\ Len(c) = n /\ \A i \in 1 .. n : c[i] = b[i]
      /\ d \in Seq(Byte) /\ Len(d) = Len(b) - n
      /\ \A i \in 1 .. Len(b) - n : d[i] = b[n + i]
  OBVIOUS
<1> HIDE DEF c, d
<1>2. PICK x \in Nat, y \in Nat : x = Len(a) /\ y = Len(b)
  OBVIOUS
<1>3. n \in 1 .. y
  BY <1>2
<1>4. /\ p \in Seq(Byte) /\ Len(p) = x + n
      /\ \A i \in 1 .. x + n : p[i] = IF i <= x THEN a[i] ELSE c[i - x]
  BY <1>1, <1>2, Concat
<1> HIDE DEF p
<1>5. /\ u \in Seq(Byte) /\ Len(u) = x + n + (y - n)
      /\ \A i \in 1 .. x + n + (y - n) :
           u[i] = IF i <= x + n THEN p[i] ELSE d[i - (x + n)]
  <2>1. PICK s \in Nat, t \in Nat : s = x + n /\ t = y - n
    BY <1>3
  <2>2. s = Len(p) /\ t = Len(d)
    BY <1>1, <1>2, <1>4, <2>1
  <2>3. /\ u \in Seq(Byte) /\ Len(u) = s + t
        /\ \A i \in 1 .. s + t : u[i] = IF i <= s THEN p[i] ELSE d[i - s]
    <3>1. p \in Seq(Byte) /\ d \in Seq(Byte)
      BY <1>1, <1>4
    <3>2. /\ p \o d \in Seq(Byte) /\ Len(p \o d) = s + t
          /\ \A i \in 1 .. s + t : (p \o d)[i] = IF i <= s THEN p[i] ELSE d[i - s]
      BY <2>2, <3>1, Concat
    <3> QED
      BY <3>2
  <2> QED
    BY <2>1, <2>3
<1>6. /\ v \in Seq(Byte) /\ Len(v) = x + y
      /\ \A i \in 1 .. x + y : v[i] = IF i <= x THEN a[i] ELSE b[i - x]
  BY <1>2, Concat
<1> HIDE DEF u, v
<1>7. ASSUME NEW i \in 1 .. x + y
      PROVE  u[i] = v[i]
  <2>1. i \in 1 .. x + n + (y - n)
    BY <1>3
  <2>2. CASE i <= x
    <3>1. i \in 1 .. x + n /\ i <= x + n
      BY <1>3, <2>2
    <3> QED
      BY <1>4, <1>5, <1>6, <2>1, <2>2, <3>1
  <2>3. CASE x < i /\ i <= x + n
    <3>1. i \in 1 .. x + n /\ i - x \in 1 .. n
      BY <1>3, <2>3
    <3>2. u[i] = p[i] /\ p[i] = c[i - x] /\ v[i] = b[i - x]
      BY <1>4, <1>5, <1>6, <2>1, <2>3, <3>1
    <3> QED
      BY <1>1, <3>1, <3>2
  <2>4. CASE x + n < i
    <3>1. /\ i - (x + n) \in 1 .. y - n /\ n + (i - (x + n)) = i - x
          /\ ~(i <= x + n) /\ ~(i <= x)
      BY <1>3, <2>4
    <3>2. u[i] = d[i - (x + n)] /\ v[i] = b[i - x]
      BY <1>5, <1>6, <2>1, <3>1
    <3> QED
      BY <1>1, <1>2, <3>1, <3>2
  <2> QED
    BY <2>2, <2>3, <2>4
<1>8. Len(u) = Len(v) /\ \A i \in 1 .. Len(u) : u[i] = v[i]
  <2>1. x + n + (y - n) = x + y
    BY <1>3
  <2> QED
    BY <1>5, <1>6, <1>7, <2>1
<1>9. u = v
  BY <1>5, <1>6, <1>8, SeqEqual
<1> QED
  BY <1>9 DEF u, v, p, c, d

-----------------------------------------------------------------------------
(* What a step meets *)

\* A connection that reads has the message that is next at the head of its
\* buffer, as far as it has come.
LEMMA AtMessage ==
  ASSUME TypeOK, Matched, InStep, cmdbuf # <<>>
  PROVE  /\ Len(log) + 1 \in 1 .. Len(script)
         /\ Message.sent \in Seq(Byte) /\ Message.replies \subseteq Reply
         /\ Framed(Message)
         /\ Agree(Message.sent, cmdbuf) /\ Agree(cmdbuf, Message.sent)
         /\ Len(Message.sent) <= Len(cmdbuf) =>
              Follows(SubSeq(cmdbuf, Len(Message.sent) + 1, Len(cmdbuf)) \o unread,
                      script, Len(log) + 1)
<1> DEFINE r == cmdbuf \o unread
<1>1. /\ cmdbuf \in Seq(Byte) /\ unread \in Seq(Byte) /\ Len(cmdbuf) \in Nat \ {0}
      /\ script \in Script /\ Len(log) \in Nat
  BY DEF TypeOK
<1>2. /\ Len(r) > 0 /\ Len(r) \in Nat /\ Len(r) >= Len(cmdbuf)
      /\ \A i \in 1 .. Len(cmdbuf) : r[i] = cmdbuf[i]
  BY <1>1
<1>3. Follows(r, script, Len(log)) /\ Len(log) \in 0 .. Len(script)
  BY <1>1, MessageType DEF InStep, Matched
<1> HIDE DEF r
<1>4. /\ Len(log) + 1 \in 1 .. Len(script) /\ Message.sent \in Seq(Byte)
      /\ Len(Message.sent) <= Len(r) /\ Agree(Message.sent, r)
      /\ Follows(SubSeq(r, Len(Message.sent) + 1, Len(r)), script, Len(log) + 1)
  BY <1>1, <1>2, <1>3, NextMessage DEF Message
<1>5. Message.replies \subseteq Reply /\ Framed(Message)
  BY <1>1, <1>4, MessageType DEF Message
<1>6. Agree(Message.sent, cmdbuf) /\ Agree(cmdbuf, Message.sent)
  <2>1. PICK m \in Seq(Byte) : m = Message.sent
    BY <1>4
  <2>2. PICK x \in Nat, y \in Nat : x = Len(m) /\ y = Len(cmdbuf)
    BY <1>1
  <2>3. \A j \in 1 .. x : m[j] = r[j]
    BY <1>2, <1>4, <2>1, <2>2 DEF Agree
  <2>4. \A j \in 1 .. y : r[j] = cmdbuf[j]
    BY <1>2, <2>2
  <2>5. \A j \in 1 .. x : j <= y => m[j] = cmdbuf[j]
    BY <2>3, <2>4
  <2>6. \A j \in 1 .. y : j <= x => cmdbuf[j] = m[j]
    BY <2>3, <2>4
  <2> QED
    BY <2>1, <2>2, <2>5, <2>6 DEF Agree
<1>7. ASSUME Len(Message.sent) <= Len(cmdbuf)
      PROVE  SubSeq(cmdbuf, Len(Message.sent) + 1, Len(cmdbuf)) \o unread
               = SubSeq(r, Len(Message.sent) + 1, Len(r))
  <2>1. Len(Message.sent) \in 0 .. Len(cmdbuf)
    BY <1>1, <1>4, <1>7
  <2> QED
    BY <1>1, <2>1, TakeOff DEF r
<1> QED
  BY <1>4, <1>5, <1>6, <1>7

\* A complete line in the buffer is the line of the next message.
LEMMA AtLine ==
  ASSUME TypeOK, Matched, InStep, LineLen > 0
  PROVE  /\ cmdbuf # <<>>
         /\ LineLen \in 1 .. Len(cmdbuf)
         /\ LineLen = Eol(Message.sent)
         /\ \A op : IsCmd(op) <=> LineIs(op, Message.sent)
<1>1. cmdbuf \in Seq(Byte) /\ LineLen \in 0 .. Len(cmdbuf)
  BY EolFirst DEF TypeOK, LineLen
<1>2. cmdbuf # <<>> /\ LineLen \in 1 .. Len(cmdbuf)
  BY <1>1
<1>3. /\ Message.sent \in Seq(Byte) /\ Agree(cmdbuf, Message.sent)
      /\ Eol(Message.sent) > 0
  BY <1>2, AtMessage DEF Framed
<1> QED
  BY <1>1, <1>2, <1>3, SameLine DEF LineLen, IsCmd

\* What a message that fits the buffer may be answered.
LEMMA MessageReplies ==
  ASSUME NEW m, Framed(m)
  PROVE  LET bytes == m.sent IN
         /\ ~Complete(bytes) => Len(bytes) = Eol(bytes)
         /\ Complete(bytes) => Len(bytes) = Eol(bytes) + bytes[1].bytes + 2
         /\ Len(bytes) <= BufSize =>
              /\ LineIs("get", bytes) => {"VALUE", "END"} \subseteq m.replies
              /\ Complete(bytes) /\ ~BadTrailer(bytes, Len(bytes)) =>
                   {"STORED", "SERVER_ERROR"} \subseteq m.replies
              /\ LineIs("delete", bytes) /\ bytes[1].noreply => "noreply" \in m.replies
              /\ LineIs("delete", bytes) /\ ~bytes[1].noreply =>
                   {"DELETED", "NOT_FOUND"} \subseteq m.replies
              /\ ~LineIs("get", bytes) /\ ~Complete(bytes) /\ ~LineIs("delete", bytes) =>
                   "ERROR" \in m.replies
<1> DEFINE bytes == m.sent
<1>1. /\ ~(LineIs("get", bytes) /\ Complete(bytes))
      /\ ~(LineIs("get", bytes) /\ LineIs("delete", bytes))
      /\ ~(Complete(bytes) /\ LineIs("delete", bytes))
  BY DEF LineIs, Complete
<1> QED
  BY <1>1 DEF Framed

\* A line of the buffer that is no complete "set" is the whole of the next
\* message.
LEMMA LineReplies ==
  ASSUME TypeOK, Steady, ReadsLine, LineLen > 0
  PROVE  /\ Complete(cmdbuf) <=> Complete(Message.sent)
         /\ cmdbuf[1] = Message.sent[1]
         /\ ~Complete(cmdbuf) => LineLen = Len(Message.sent)
         /\ IsCmd("get") => {"VALUE", "END"} \subseteq Message.replies
         /\ IsCmd("delete") =>
              IF cmdbuf[1].noreply THEN "noreply" \in Message.replies
              ELSE {"DELETED", "NOT_FOUND"} \subseteq Message.replies
         /\ ~IsCmd("get") /\ ~IsCmd("delete") /\ ~Complete(cmdbuf) =>
              "ERROR" \in Message.replies
<1>1. Matched /\ InStep
  BY DEF Steady, ReadsLine
<1>2. /\ cmdbuf # <<>> /\ LineLen \in 1 .. Len(cmdbuf)
      /\ LineLen = Eol(Message.sent)
      /\ \A op : IsCmd(op) <=> LineIs(op, Message.sent)
  BY <1>1, AtLine
<1>3. /\ Framed(Message) /\ Message.sent \in Seq(Byte)
      /\ Agree(cmdbuf, Message.sent) /\ Agree(Message.sent, cmdbuf)
  BY <1>1, <1>2, AtMessage
<1>4. LineLen <= BufSize /\ LineLen \in Nat
  BY <1>2, LimitAssumption DEF TypeOK
<1>5. Message.sent[1] = cmdbuf[1]
  <2>1. PICK m \in Seq(Byte) : m = Message.sent
    BY <1>3
  <2>2. Len(m) \in Nat /\ Len(cmdbuf) \in Nat /\ Eol(m) \in 0 .. Len(m)
    BY EolFirst DEF TypeOK
  <2>3. 1 \in 1 .. Len(m) /\ 1 <= Len(cmdbuf)
    BY <1>2, <2>1, <2>2
  <2> QED
    BY <1>3, <2>1, <2>3 DEF Agree
<1>6. Complete(cmdbuf) <=> Complete(Message.sent)
  BY <1>2, <1>5 DEF Complete, IsCmd
<1>7. ~Complete(cmdbuf) => LineLen = Len(Message.sent) /\ Len(Message.sent) <= BufSize
  BY <1>2, <1>3, <1>4, <1>6, MessageReplies
<1>8. IsCmd("get") \/ IsCmd("delete") => ~Complete(cmdbuf)
  BY DEF IsCmd, LineIs, Complete
<1>9. IsCmd("get") => {"VALUE", "END"} \subseteq Message.replies
  BY <1>2, <1>3, <1>7, <1>8, MessageReplies
<1>10. IsCmd("delete") =>
         IF cmdbuf[1].noreply THEN "noreply" \in Message.replies
         ELSE {"DELETED", "NOT_FOUND"} \subseteq Message.replies
  BY <1>2, <1>3, <1>5, <1>7, <1>8, MessageReplies
<1>11. ~IsCmd("get") /\ ~IsCmd("delete") /\ ~Complete(cmdbuf) => "ERROR" \in Message.replies
  BY <1>2, <1>3, <1>6, <1>7, MessageReplies
<1> QED
  BY <1>5, <1>6, <1>7, <1>9, <1>10, <1>11

\* The answer to the message that is next.
LEMMA OneMoreReply ==
  ASSUME TypeOK, Matched, InStep, cmdbuf # <<>>,
         NEW reply \in Message.replies, Log(reply), UNCHANGED script
  PROVE  /\ Matched' /\ log' \in Seq(Reply) /\ Len(log') = Len(log) + 1
         /\ log' # <<>> /\ Last(log') = reply
<1>1. /\ Len(log) + 1 \in 1 .. Len(script) /\ Message.replies \subseteq Reply
  BY AtMessage
<1>2. log \in Seq(Reply) /\ Len(log) \in Nat /\ reply \in Reply
  BY <1>1 DEF TypeOK
<1>3. /\ log' \in Seq(Reply) /\ Len(log') = Len(log) + 1
      /\ \A i \in 1 .. Len(log) + 1 : log'[i] = IF i <= Len(log) THEN log[i] ELSE reply
  BY <1>2 DEF Log
<1>4. log' # <<>> /\ Last(log') = reply
  BY <1>2, <1>3 DEF Last
<1>5. Matched'
  <2>1. Len(log') <= Len(script')
    BY <1>1, <1>3
  <2>2. ASSUME NEW i \in 1 .. Len(log) + 1
        PROVE  log'[i] \in script'[i].replies
    <3>1. CASE i <= Len(log)
      <4>1. i \in DOMAIN log
        BY <1>2, <3>1
      <4> QED
        BY <1>3, <3>1, <4>1 DEF Matched
    <3>2. CASE ~(i <= Len(log))
      <4>1. i = Len(log) + 1
        BY <1>2, <3>2
      <4> QED
        BY <1>3, <3>2, <4>1 DEF Message
    <3> QED
      BY <3>1, <3>2
  <2>3. DOMAIN log' = 1 .. Len(log) + 1
    BY <1>3
  <2> QED
    BY <2>1, <2>2, <2>3 DEF Matched
<1> QED
  BY <1>3, <1>4, <1>5

\* The whole message leaves the buffer.
LEMMA MessageTaken ==
  ASSUME TypeOK, Matched, InStep, cmdbuf # <<>>,
         Len(Message.sent) <= Len(cmdbuf),
         Connection_ResetCmd(Len(Message.sent)),
         Len(log') = Len(log) + 1, UNCHANGED client
  PROVE  /\ InStep' /\ cmdbuf' \in Seq(Byte) /\ Len(cmdbuf') <= BufSize
<1>1. /\ Message.sent \in Seq(Byte)
      /\ Follows(SubSeq(cmdbuf, Len(Message.sent) + 1, Len(cmdbuf)) \o unread,
                 script, Len(log) + 1)
  BY AtMessage
<1>2. cmdbuf \in Seq(Byte) /\ unread \in Seq(Byte) /\ Len(cmdbuf) <= BufSize
  BY DEF TypeOK
<1>3. cmdbuf' = SubSeq(cmdbuf, Len(Message.sent) + 1, Len(cmdbuf))
  BY DEF Connection_ResetCmd
<1>4. Len(Message.sent) \in 0 .. Len(cmdbuf)
  BY <1>1, <1>2
<1>5. cmdbuf' \in Seq(Byte) /\ Len(cmdbuf') = Len(cmdbuf) - Len(Message.sent)
  BY <1>2, <1>3, <1>4, TakeOff
<1>6. InStep'
  BY <1>1, <1>3 DEF InStep, client
<1>7. Len(cmdbuf') <= BufSize
  BY <1>2, <1>4, <1>5, LimitAssumption
<1> QED
  BY <1>5, <1>6, <1>7

-----------------------------------------------------------------------------
(* Types, and where the handler returns *)

\* The buffer after some of it has been processed.
LEMMA ResetType ==
  ASSUME TypeOK, NEW n \in 0 .. Len(cmdbuf), Connection_ResetCmd(n)
  PROVE  cmdbuf' \in Seq(Byte) /\ Len(cmdbuf') <= BufSize
<1>1. cmdbuf \in Seq(Byte) /\ Len(cmdbuf) \in Nat /\ Len(cmdbuf) <= BufSize
  BY DEF TypeOK
<1>2. cmdbuf' \in Seq(Byte) /\ Len(cmdbuf') = Len(cmdbuf) - n
  BY <1>1, TakeOff DEF Connection_ResetCmd
<1> QED
  BY <1>1, <1>2, LimitAssumption

\* The log after a reply.
LEMMA LogType ==
  ASSUME TypeOK, NEW reply \in Reply, Log(reply)
  PROVE  /\ log' \in Seq(Reply) /\ Len(log') = Len(log) + 1
         /\ log' # <<>> /\ Last(log') = reply
<1>1. log \in Seq(Reply) /\ Len(log) \in Nat
  BY DEF TypeOK
<1>2. /\ log' \in Seq(Reply) /\ Len(log') = Len(log) + 1
      /\ \A i \in 1 .. Len(log) + 1 : log'[i] = IF i <= Len(log) THEN log[i] ELSE reply
  BY <1>1 DEF Log
<1> QED
  BY <1>1, <1>2 DEF Last

\* A number read for a line has the type of its size, wherever it came from.
LEMMA SizesType ==
  ASSUME IsCmd("set"), NEW n \in Sizes
  PROVE  n \in Nat
<1>1. cmdbuf[1].bytes \in Nat
  BY DEF IsCmd, LineIs, CmdLine
<1>2. ASSUME NEW i, n \in Reads(i)
      PROVE  n \in Nat
  BY <1>2, LimitAssumption DEF Reads, Number
<1> QED
  BY <1>1, <1>2 DEF Sizes

\* The replies that make the handler return with a line in its buffer.
Final == {"DELETED", "NOT_FOUND", "noreply", "ERROR"}

\* A command that has been processed, up to its last byte.
LEMMA ProcessedLocal ==
  ASSUME TypeOK, NEW n \in 0 .. Len(cmdbuf), Connection_ResetCmd(n),
         NEW reply \in Reply, Log(reply),
         pc' = "parsing" \/ (pc' = "waiting" /\ reply \in Final),
         UNCHANGED <<client, misread>>
  PROVE  TypeOK' /\ StallsOnlyAfterReturn'
<1>1. cmdbuf' \in Seq(Byte) /\ Len(cmdbuf') <= BufSize
  BY ResetType
<1>2. log' \in Seq(Reply) /\ log' # <<>> /\ Last(log') = reply
  BY LogType
<1>3. state' = "READINGCMD" /\ set' = set
  BY DEF Connection_ResetCmd
<1>4. TypeOK'
  BY <1>1, <1>2, <1>3 DEF TypeOK, client
<1>5. StallsOnlyAfterReturn'
  BY <1>2 DEF StallsOnlyAfterReturn, Final
<1> QED
  BY <1>4, <1>5

\* A connection that is closed.
LEMMA ClosedLocal ==
  ASSUME TypeOK, log' \in Seq(Reply), Connection_Close, UNCHANGED <<client, misread>>
  PROVE  TypeOK' /\ StallsOnlyAfterReturn'
  BY DEF TypeOK, StallsOnlyAfterReturn, Connection_Close, client

\* Neither the types nor the returns depend on what is read for what: these
\* steps keep them even after a line has been misread.
LEMMA ReceiveLocal ==
  ASSUME TypeOK, Receive
  PROVE  /\ TypeOK' /\ StallsOnlyAfterReturn'
         /\ cmdbuf' \o unread' = cmdbuf \o unread
<1>1. /\ cmdbuf \in Seq(Byte) /\ unread \in Seq(Byte) /\ script \in Script
      /\ Len(cmdbuf) <= BufSize /\ Len(cmdbuf) \in Nat
  BY DEF TypeOK
<1>2. PICK n \in 1 .. Len(unread) :
        /\ n <= BufSize - Len(cmdbuf)
        /\ cmdbuf' = cmdbuf \o SubSeq(unread, 1, n)
        /\ unread' = SubSeq(unread, n + 1, Len(unread))
  BY DEF Receive
<1>3. pc' = "parsing" /\ UNCHANGED <<script, peer, state, set, log, misread>>
  BY DEF Receive, GoOn
<1>4. /\ SubSeq(unread, 1, n) \in Seq(Byte) /\ Len(SubSeq(unread, 1, n)) = n
      /\ SubSeq(unread, n + 1, Len(unread)) \in Seq(Byte)
  BY <1>1
<1>5. /\ cmdbuf' \in Seq(Byte) /\ unread' \in Seq(Byte) /\ Len(cmdbuf') = Len(cmdbuf) + n
  <2>1. PICK u \in Seq(Byte) : u = SubSeq(unread, 1, n)
    BY <1>4
  <2> QED
    BY <1>1, <1>2, <1>4, <2>1
<1>6. cmdbuf' \o unread' = cmdbuf \o unread
  BY <1>1, <1>2, JoinCut
<1>7. TypeOK'
  BY <1>1, <1>2, <1>3, <1>5, LimitAssumption DEF TypeOK
<1> QED
  BY <1>3, <1>6, <1>7 DEF StallsOnlyAfterReturn

LEMMA LineLocal ==
  ASSUME TypeOK, WrongLine \/ GetCmd \/ DeleteCmd
  PROVE  TypeOK' /\ StallsOnlyAfterReturn'
<1>1. /\ LineLen \in 0 .. Len(cmdbuf) /\ UNCHANGED <<client, misread>>
  BY EolFirst DEF TypeOK, LineLen, WrongLine, GetCmd, DeleteCmd
<1>2. CASE WrongLine
  BY <1>1, <1>2, ProcessedLocal DEF WrongLine, Return, Final, Reply
<1>3. CASE GetCmd
  <2>1. PICK reply \in {"VALUE", "END"} : Log(reply)
    BY <1>3 DEF GetCmd
  <2>2. reply \in Reply /\ log' \in Seq(Reply)
    BY <2>1, LogType DEF Reply
  <2> QED
    BY <1>1, <1>3, <2>1, <2>2, ProcessedLocal, ClosedLocal DEF GetCmd, GoOn
<1>4. CASE DeleteCmd
  <2>1. PICK reply \in {"DELETED", "NOT_FOUND", "noreply"} : Log(reply)
    BY <1>4 DEF DeleteCmd
  <2>2. reply \in Reply /\ reply \in Final /\ log' \in Seq(Reply)
    BY <2>1, LogType DEF Reply, Final
  <2> QED
    BY <1>1, <1>4, <2>1, <2>2, ProcessedLocal, ClosedLocal DEF DeleteCmd, Return
<1> QED
  BY <1>2, <1>3, <1>4

LEMMA SetLocal ==
  ASSUME TypeOK, SetLine \/ AwaitData \/ SetCmd
  PROVE  TypeOK' /\ StallsOnlyAfterReturn'
<1>1. CASE SetLine
  <2>1. PICK n \in Sizes : set' = [bytes |-> n, data |-> LineLen]
    BY <1>1 DEF SetLine
  <2>2. n \in Nat /\ LineLen \in Nat
    BY <1>1, SizesType, EolFirst DEF TypeOK, LineLen, SetLine
  <2>3. /\ set' \in [bytes : Nat, data : Nat] /\ state' = "READINGDATA" /\ misread' \in BOOLEAN
        /\ UNCHANGED <<script, unread, peer, cmdbuf, pc, log>>
    BY <1>1, <2>1, <2>2 DEF SetLine, client
  <2> QED
    BY <2>3 DEF TypeOK, StallsOnlyAfterReturn
<1>2. CASE AwaitData
  BY <1>2 DEF AwaitData, Return, ReadsData, client, TypeOK, StallsOnlyAfterReturn
<1>3. CASE SetCmd
  <2>1. CmdSize \in 0 .. Len(cmdbuf)
    BY <1>3 DEF SetCmd, CmdSize, TypeOK
  <2>2. UNCHANGED <<client, misread>>
    BY <1>3 DEF SetCmd
  <2>3. CASE Connection_ResetCmd(CmdSize) /\ Log("STORED") /\ GoOn
    BY <2>1, <2>2, <2>3, ProcessedLocal DEF GoOn, Reply
  <2>4. CASE Connection_Close /\ (Log("STORED") \/ Log("SERVER_ERROR"))
    <3>1. log' \in Seq(Reply)
      BY <2>4, LogType DEF Reply
    <3> QED
      BY <2>2, <2>4, <3>1, ClosedLocal
  <2> QED
    BY <1>3, <2>3, <2>4 DEF SetCmd
<1> QED
  BY <1>1, <1>2, <1>3

LEMMA LocalStep ==
  ASSUME TypeOK, StallsOnlyAfterReturn, [Next]_vars
  PROVE  TypeOK' /\ StallsOnlyAfterReturn' /\ (misread => misread')
<1>1. CASE ReceiveNothing \/ RefuseData
  BY <1>1, ClosedLocal DEF ReceiveNothing, RefuseData, TypeOK
<1>2. CASE NoLineYet
  <2>1. CASE Connection_Close
    BY <1>2, <2>1, ClosedLocal DEF NoLineYet, TypeOK
  <2>2. CASE Return /\ UNCHANGED <<cmdbuf, state, set>>
    <3>1. /\ pc' = "waiting" /\ state = "READINGCMD" /\ ~HasCommand
          /\ UNCHANGED <<script, unread, peer, cmdbuf, state, set, log, misread>>
      BY <1>2, <2>2 DEF NoLineYet, Return, client, ReadsLine, HasCommand
    <3>2. ~HasCommand'
      BY <3>1 DEF HasCommand, LineLen
    <3> QED
      BY <3>1, <3>2 DEF TypeOK, StallsOnlyAfterReturn
  <2> QED
    BY <1>2, <2>1, <2>2 DEF NoLineYet
<1>3. CASE Disconnect
  BY <1>3 DEF Disconnect, TypeOK, StallsOnlyAfterReturn, HasCommand, LineLen
<1>4. CASE UNCHANGED vars
  BY <1>4 DEF vars, client, TypeOK, StallsOnlyAfterReturn, HasCommand, LineLen
<1>5. misread => misread'
  BY DEF Next, Connection_Handler, Receive, ReceiveNothing, NoLineYet, WrongLine, GetCmd,
     DeleteCmd, SetLine, AwaitData, RefuseData, SetCmd, Disconnect, vars
<1> QED
  BY <1>1, <1>2, <1>3, <1>4, <1>5, ReceiveLocal, LineLocal, SetLocal
  DEF Next, Connection_Handler

-----------------------------------------------------------------------------
(* The steps of a connection that has misread nothing *)

\* A connection that is closed, after a reply or without.
LEMMA Closing ==
  ASSUME Matched', Connection_Close
  PROVE  Steady'
  BY DEF Steady, Connection_Close

\* The same, when the message got no reply.
LEMMA ClosingUnanswered ==
  ASSUME Steady, Connection_Close, UNCHANGED <<client, log>>
  PROVE  Steady'
  BY Closing DEF Steady, Matched, client

LEMMA ReceiveStep == TypeOK /\ Steady /\ Receive => Steady'
<1> SUFFICES ASSUME TypeOK, Steady, Receive PROVE Steady'
  OBVIOUS
<1>1. state # "CLOSED" /\ UNCHANGED <<script, state, set, log>>
  BY DEF Receive
<1>2. cmdbuf' \o unread' = cmdbuf \o unread
  BY ReceiveLocal
<1> QED
  BY <1>1, <1>2 DEF Steady, Matched, InStep, DataSound, Message

LEMMA NoLineYetStep == TypeOK /\ Steady /\ NoLineYet => Steady'
<1> SUFFICES ASSUME TypeOK, Steady, NoLineYet PROVE Steady'
  OBVIOUS
<1>1. CASE Connection_Close
  BY <1>1, ClosingUnanswered DEF NoLineYet
<1>2. CASE Return /\ UNCHANGED <<cmdbuf, state, set>>
  BY <1>2 DEF NoLineYet, client, Steady, Matched, InStep, DataSound, Message
<1> QED
  BY <1>1, <1>2 DEF NoLineYet

\* A message that is taken off the buffer after its answer.
LEMMA AnsweredStep ==
  ASSUME TypeOK, Steady, state # "CLOSED", cmdbuf # <<>>, Len(Message.sent) <= Len(cmdbuf),
         NEW reply \in Message.replies, Log(reply),
         Connection_ResetCmd(Len(Message.sent)), UNCHANGED client
  PROVE  Steady'
<1>1. Matched /\ InStep /\ UNCHANGED script
  BY DEF Steady, client
<1>2. Matched' /\ Len(log') = Len(log) + 1
  BY <1>1, OneMoreReply
<1>3. InStep'
  BY <1>1, <1>2, MessageTaken
<1> QED
  BY <1>2, <1>3 DEF Steady, Connection_ResetCmd

\* A message whose answer could not be sent, or that the store had no memory for.
LEMMA AnsweredLast ==
  ASSUME TypeOK, Steady, state # "CLOSED", cmdbuf # <<>>,
         NEW reply \in Message.replies, Log(reply), Connection_Close, UNCHANGED client
  PROVE  Steady'
<1>1. Matched /\ InStep /\ UNCHANGED script
  BY DEF Steady, client
<1>2. Matched'
  BY <1>1, OneMoreReply
<1> QED
  BY <1>2, Closing

\* A line that is no complete "set".
LEMMA LineFits ==
  ASSUME TypeOK, Steady, ReadsLine, LineLen > 0, ~Complete(cmdbuf)
  PROVE  /\ state # "CLOSED" /\ cmdbuf # <<>>
         /\ LineLen = Len(Message.sent) /\ Len(Message.sent) <= Len(cmdbuf)
<1>1. Matched /\ InStep /\ state # "CLOSED"
  BY DEF Steady, ReadsLine
<1>2. cmdbuf # <<>> /\ LineLen \in 1 .. Len(cmdbuf)
  BY <1>1, AtLine
<1>3. LineLen = Len(Message.sent)
  BY LineReplies
<1>4. LineLen <= Len(cmdbuf)
  BY <1>2 DEF TypeOK
<1> QED
  BY <1>1, <1>2, <1>3, <1>4

LEMMA WrongLineStep == TypeOK /\ Steady /\ WrongLine => Steady'
<1> SUFFICES ASSUME TypeOK, Steady, WrongLine PROVE Steady'
  OBVIOUS
<1>1. /\ ReadsLine /\ LineLen > 0 /\ ~IsCmd("get") /\ ~IsCmd("delete")
      /\ IsCmd("set") => MayFail
      /\ Connection_ResetCmd(LineLen) /\ Log("ERROR") /\ UNCHANGED client
  BY DEF WrongLine, IsCmd, LineIs
<1>2. ~Complete(cmdbuf)
  BY <1>1 DEF Complete, IsCmd, MayFail
<1>3. "ERROR" \in Message.replies
  BY <1>1, <1>2, LineReplies
<1> QED
  BY <1>1, <1>2, <1>3, LineFits, AnsweredStep

LEMMA GetCmdStep == TypeOK /\ Steady /\ GetCmd => Steady'
<1> SUFFICES ASSUME TypeOK, Steady, GetCmd PROVE Steady'
  OBVIOUS
<1>1. ReadsLine /\ LineLen > 0 /\ IsCmd("get") /\ ~Complete(cmdbuf) /\ UNCHANGED client
  BY DEF GetCmd, IsCmd, LineIs, Complete
<1>2. PICK reply \in {"VALUE", "END"} : Log(reply)
  BY DEF GetCmd
<1>3. reply \in Message.replies
  BY <1>1, LineReplies
<1>4. CASE Connection_ResetCmd(LineLen)
  BY <1>1, <1>2, <1>3, <1>4, LineFits, AnsweredStep
<1>5. CASE Connection_Close
  BY <1>1, <1>2, <1>3, <1>5, LineFits, AnsweredLast
<1> QED
  BY <1>4, <1>5 DEF GetCmd

LEMMA DeleteCmdStep == TypeOK /\ Steady /\ DeleteCmd => Steady'
<1> SUFFICES ASSUME TypeOK, Steady, DeleteCmd PROVE Steady'
  OBVIOUS
<1>1. ReadsLine /\ LineLen > 0 /\ IsCmd("delete") /\ ~Complete(cmdbuf) /\ UNCHANGED client
  BY DEF DeleteCmd, IsCmd, LineIs, Complete
<1>2. CASE /\ \E reply \in (IF cmdbuf[1].noreply THEN {"noreply"}
                            ELSE {"DELETED", "NOT_FOUND"}) : Log(reply)
           /\ Connection_ResetCmd(LineLen)
  <2>1. PICK reply \in (IF cmdbuf[1].noreply THEN {"noreply"}
                        ELSE {"DELETED", "NOT_FOUND"}) : Log(reply)
    BY <1>2
  <2>2. reply \in Message.replies
    BY <1>1, LineReplies
  <2> QED
    BY <1>1, <1>2, <2>1, <2>2, LineFits, AnsweredStep
<1>3. CASE /\ ~cmdbuf[1].noreply
           /\ \E reply \in {"DELETED", "NOT_FOUND"} : Log(reply)
           /\ Connection_Close
  <2>1. PICK reply \in {"DELETED", "NOT_FOUND"} : Log(reply)
    BY <1>3
  <2>2. reply \in Message.replies
    BY <1>1, <1>3, LineReplies
  <2> QED
    BY <1>1, <1>3, <2>1, <2>2, LineFits, AnsweredLast
<1> QED
  BY <1>2, <1>3 DEF DeleteCmd

LEMMA SetLineStep == TypeOK /\ Steady /\ SetLine /\ ~misread' => Steady'
<1> SUFFICES ASSUME TypeOK, Steady, SetLine, ~misread' PROVE Steady'
  OBVIOUS
<1>1. /\ ReadsLine /\ LineLen > 0 /\ IsCmd("set") /\ state # "CLOSED"
      /\ ~(cmdbuf[1].missing > 0)
      /\ state' = "READINGDATA" /\ UNCHANGED <<script, unread, cmdbuf, log>>
  BY DEF SetLine, client, ReadsLine
<1>2. Matched /\ InStep
  BY <1>1 DEF Steady
<1>3. cmdbuf[1].missing = 0 /\ Complete(cmdbuf)
  BY <1>1 DEF IsCmd, LineIs, CmdLine, Complete
<1>4. set' = [bytes |-> cmdbuf[1].bytes, data |-> LineLen]
  BY <1>3 DEF SetLine, Sizes
<1>5. cmdbuf # <<>> /\ LineLen = Eol(Message.sent)
  BY <1>1, <1>2, AtLine
<1>6. Complete(Message.sent) /\ cmdbuf[1] = Message.sent[1]
  BY <1>1, <1>3, LineReplies
<1>7. Len(log) < Len(script)
  <2>1. Len(log) + 1 \in 1 .. Len(script)
    BY <1>2, <1>5, AtMessage
  <2>2. Len(log) \in Nat /\ Len(script) \in Nat
    BY MessageType DEF TypeOK
  <2> QED
    BY <2>1, <2>2
<1>8. DataSound'
  <2>1. Message' = Message
    BY <1>1 DEF Message
  <2> QED
    BY <1>1, <1>4, <1>5, <1>6, <1>7, <2>1 DEF DataSound
<1>9. Matched' /\ InStep'
  BY <1>1, <1>2 DEF Matched, InStep
<1> QED
  BY <1>8, <1>9 DEF Steady

\* The data is all in the buffer: line, data and trailer are the whole message.
LEMMA DataFits ==
  ASSUME TypeOK, Steady, ReadsData, Len(cmdbuf) >= CmdSize
  PROVE  /\ state # "CLOSED" /\ cmdbuf # <<>>
         /\ CmdSize = Len(Message.sent) /\ Len(Message.sent) <= Len(cmdbuf)
         /\ ~BadTrailer(cmdbuf, CmdSize) =>
              "STORED" \in Message.replies /\ "SERVER_ERROR" \in Message.replies
<1>1. Matched /\ InStep /\ DataSound /\ state # "CLOSED"
  BY DEF Steady, ReadsData
<1>2. /\ set.bytes \in Nat /\ set.data \in Nat /\ cmdbuf \in Seq(Byte)
      /\ Len(cmdbuf) \in Nat /\ Len(cmdbuf) <= BufSize
  BY <1>1 DEF TypeOK
<1>3. CmdSize \in Nat /\ CmdSize >= 2 /\ cmdbuf # <<>>
  BY <1>2 DEF CmdSize
<1>4. Framed(Message) /\ Message.sent \in Seq(Byte) /\ Agree(Message.sent, cmdbuf)
  BY <1>1, <1>3, AtMessage
<1>5. CmdSize = Len(Message.sent)
  BY <1>1, <1>2, <1>4, MessageReplies DEF DataSound, CmdSize
<1>6. Len(Message.sent) <= Len(cmdbuf) /\ Len(Message.sent) <= BufSize
  BY <1>2, <1>3, <1>5, LimitAssumption
<1>7. BadTrailer(Message.sent, CmdSize) <=> BadTrailer(cmdbuf, CmdSize)
  <2>1. /\ CmdSize \in 1 .. Len(Message.sent) /\ CmdSize - 1 \in 1 .. Len(Message.sent)
        /\ CmdSize <= Len(cmdbuf) /\ CmdSize - 1 <= Len(cmdbuf)
    BY <1>2, <1>3, <1>5
  <2>2. /\ Message.sent[CmdSize] = cmdbuf[CmdSize]
        /\ Message.sent[CmdSize - 1] = cmdbuf[CmdSize - 1]
    BY <1>4, <2>1 DEF Agree
  <2> QED
    BY <2>2 DEF BadTrailer
<1>8. ~BadTrailer(cmdbuf, CmdSize) => {"STORED", "SERVER_ERROR"} \subseteq Message.replies
  BY <1>1, <1>4, <1>5, <1>6, <1>7, MessageReplies DEF DataSound
<1> QED
  BY <1>1, <1>3, <1>5, <1>6, <1>8

LEMMA SetCmdStep == TypeOK /\ Steady /\ SetCmd => Steady'
<1> SUFFICES ASSUME TypeOK, Steady, SetCmd PROVE Steady'
  OBVIOUS
<1>1. /\ ReadsData /\ Len(cmdbuf) >= CmdSize /\ ~BadTrailer(cmdbuf, CmdSize)
      /\ UNCHANGED client
  BY DEF SetCmd
<1>2. CASE Connection_ResetCmd(CmdSize) /\ Log("STORED")
  BY <1>1, <1>2, DataFits, AnsweredStep
<1>3. CASE Connection_Close /\ Log("STORED")
  BY <1>1, <1>3, DataFits, AnsweredLast
<1>4. CASE Connection_Close /\ Log("SERVER_ERROR")
  BY <1>1, <1>4, DataFits, AnsweredLast
<1> QED
  BY <1>2, <1>3, <1>4 DEF SetCmd

LEMMA SteadyStep == TypeOK /\ Steady /\ ~misread' /\ [Next]_vars => Steady'
<1> SUFFICES ASSUME TypeOK, Steady, ~misread', [Next]_vars PROVE Steady'
  OBVIOUS
<1>1. CASE ReceiveNothing \/ RefuseData
  BY <1>1, ClosingUnanswered DEF ReceiveNothing, RefuseData
<1>2. CASE AwaitData \/ Disconnect \/ UNCHANGED vars
  <2>1. UNCHANGED <<script, unread, cmdbuf, state, set, log>>
    BY <1>2 DEF AwaitData, Disconnect, vars, client
  <2> QED
    BY <2>1 DEF Steady, Matched, InStep, DataSound, Message
<1> QED
  BY <1>1, <1>2, ReceiveStep, NoLineYetStep, WrongLineStep, GetCmdStep, DeleteCmdStep,
     SetLineStep, SetCmdStep DEF Next, Connection_Handler

LEMMA StepSound == CInv /\ [Next]_vars => CInv'
  BY LocalStep, SteadyStep DEF CInv

\* The connection and the client stay in step: the invariant the three
\* theorems below rest on.
THEOREM ConnectionInvariance == Spec => []CInv
  BY InitSound, StepSound, PTL DEF Spec

\* The buffer is never written past its end (Connection_Handler gives recv what
\* is left of it), whatever the client sends, however it arrives, and whatever
\* its numbers are read for.
THEOREM BufferSafe == Spec => []TypeOK
<1>1. CInv => TypeOK
  BY DEF CInv
<1> QED
  BY <1>1, ConnectionInvariance, PTL

\* Whatever the limits, however the stream is cut and whatever the buffer holds
\* past it: every command Connection_ParseAndRunCmd runs is the next message of
\* the client, until it finds a number that a "set" line lacks behind the line.
THEOREM CommandsAreMessages == Spec => []RepliesMatch
<1>1. CInv => RepliesMatch
  BY DEF CInv, Steady, RepliesMatch
<1> QED
  BY <1>1, ConnectionInvariance, PTL

\* A client whose "set" lines lack no number is never misread.
THEOREM CompleteLinesAreRead ==
  ASSUME \A s \in Script : \A i \in DOMAIN s :
           LineIs("set", s[i].sent) => Complete(s[i].sent)
  PROVE  Spec => []Matched
<1>1. CInv /\ ~misread /\ [Next]_vars => ~misread'
  <2> SUFFICES ASSUME CInv, ~misread, SetLine
               PROVE  ~misread'
    BY DEF Next, Connection_Handler, Receive, ReceiveNothing, NoLineYet, WrongLine, GetCmd,
       DeleteCmd, AwaitData, RefuseData, SetCmd, Disconnect, vars
  <2>1. TypeOK /\ Steady /\ Matched /\ InStep
    BY DEF CInv, Steady, SetLine, ReadsLine
  <2>2. cmdbuf # <<>> /\ LineIs("set", Message.sent) /\ script \in Script
    BY <2>1, AtLine DEF SetLine, TypeOK
  <2>3. Len(log) + 1 \in DOMAIN script
    BY <2>1, <2>2, AtMessage, MessageType
  <2>4. Complete(Message.sent)
    BY <2>2, <2>3 DEF Message
  <2>5. cmdbuf[1].missing = 0
    BY <2>1, <2>4, LineReplies DEF SetLine, Complete
  <2>6. ~(cmdbuf[1].missing > 0)
    BY <2>5
  <2>7. misread' = (misread \/ cmdbuf[1].missing > 0)
    BY Zenon DEF SetLine
  <2> QED
    BY <2>6, <2>7, Zenon
<1>2. Init => ~misread
  BY DEF Init
<1>3. CInv /\ ~misread => Matched
  BY DEF CInv, Steady
<1> QED
  BY <1>1, <1>2, <1>3, ConnectionInvariance, PTL DEF Spec

\* Only the returns after "delete" and after a wrong line leave a complete
\* command in the buffer of a connection that waits.
THEOREM StallsAreReturns == Spec => []StallsOnlyAfterReturn
<1>1. CInv => StallsOnlyAfterReturn
  BY DEF CInv
<1> QED
  BY <1>1, ConnectionInvariance, PTL
=============================================================================
