-------------------------------- MODULE Trie --------------------------------
(***************************************************************************)
(* The double-array trie of src/src/myclib/trie.c, with the lists of       *)
(* characters of src/src/myclib/chlist.c.  A node is an index of its four  *)
(* arrays; node i's child on character c is base[i] + c, and it is a child *)
(* of i only if check says so.  Trie_Set is one action per character, so   *)
(* that a search can be asked for between any two of them.                 *)
(*                                                                         *)
(* The arrays start with DASize elements and a character is at most        *)
(* CharMax: 10240 and UCHAR_MAX in the code.  Reading outside an array is  *)
(* an error of the model, too.                                             *)
(***************************************************************************)
EXTENDS Integers, Sequences, FiniteSets, FiniteSetsExt, SequencesExt

CONSTANTS
  Key,         \* the keys that are used, sequences of characters
  Record,      \* what is stored under them
  Null,        \* NULL
  CharMax,     \* UCHAR_MAX
  DASize,      \* DA_SIZE
  MaxSize      \* bound: a larger array cannot be allocated

\* DASize lets one doubling make room whichever way characters come back.
ASSUME TrieAssumption ==
  /\ CharMax \in Nat \ {0} /\ MaxSize \in Nat
  /\ DASize \in Nat /\ 2 * DASize > 3 * (CharMax + 1)
  /\ \A k \in Key : k \in Seq(0 .. CharMax)
  /\ Null \notin Record

VARIABLES
  trie,        \* the struct: base, check, children, record, size
  call,        \* the Trie_Set that is going on
  old,         \* what the last one has handed back
  result,      \* how it has ended
  strayed      \* has a node strayed? The model goes no further.

vars == <<trie, call, old, result, strayed>>

Root == 1

\* Trie_New.
Init ==
  /\ trie = LET all(x) == [i \in 0 .. (DASize - 1) |-> x]
            IN [base |-> [all(0) EXCEPT ![Root] = 1], check |-> all(0),
                children |-> all(<<>>), record |-> all(Null), size |-> DASize]
  /\ call = Null
  /\ old = Null
  /\ result = "none"
  /\ strayed = FALSE

-----------------------------------------------------------------------------
(* Searching *)

\* The node the first n characters of a key lead to, 0 if they lead nowhere.
Path(t, key) ==
  LET node[n \in 0 .. Len(key)] ==
        IF n = 0 THEN Root
        ELSE LET from == node[n - 1]
                 to == t.base[from] + key[n]
             IN IF from # 0 /\ t.check[to] = from THEN to ELSE 0
  IN node

\* How many characters of the key are there.
Trie_SearchKey(t, key) == Max({n \in 0 .. Len(key) : Path(t, key)[n] # 0})

Trie_Find(t, key) ==
  LET idx == Path(t, key)[Len(key)] IN IF idx = 0 THEN Null ELSE t.record[idx]

-----------------------------------------------------------------------------
(* Making room *)

\* Faulty variant: one more slot is all there is.
ExpandByOne(t) ==
  LET grown(f, zero) == [i \in 0 .. t.size |-> IF i < t.size THEN f[i] ELSE zero]
  IN [base |-> grown(t.base, 0), check |-> grown(t.check, 0),
      children |-> grown(t.children, <<>>), record |-> grown(t.record, Null),
      size |-> t.size + 1]

\* The arrays are doubled.
Trie_Expand(t) ==
  LET grown(f, zero) == [i \in 0 .. (2 * t.size - 1) |-> IF i < t.size THEN f[i] ELSE zero]
  IN [base |-> grown(t.base, 0), check |-> grown(t.check, 0),
      children |-> grown(t.children, <<>>), record |-> grown(t.record, Null),
      size |-> 2 * t.size]

\* A character is stored unsigned, but comes back from CharList_Next as a char.
Signed(c) == IF 2 * c > CharMax THEN c - (CharMax + 1) ELSE c

\* The characters of a list, as its iteration gives them.
CharList_All(list) == {Signed(c) : c \in Range(list)}
Plain(list) == \A c \in Range(list) : Signed(c) = c

\* Is there a free slot for the new character and for every child?  The node's
\* own children are in the way as long as it does not move.  What lies before
\* the array may be taken for a free slot or for one in use.
Fits(t, idx, ch, b, before) ==
  /\ t.check[b + ch] = 0
  /\ \A c \in CharList_All(t.children[idx]) :
        IF b + c < 0 THEN before ELSE t.check[b + c] = 0

\* The first base that fits, -1 if there is none.
Trie_SearchAvailableBaseValue(t, idx, ch) ==
  LET lastIdx == t.size - CharMax - 1
      first == IF t.base[idx] = 0 THEN 1 ELSE t.base[idx]
      bases == IF idx >= lastIdx THEN {} ELSE first .. (lastIdx - 1)
      sure == {b \in bases : Fits(t, idx, ch, b, FALSE)}
  IN {b \in bases : Fits(t, idx, ch, b, TRUE) /\ \A s \in sure : b <= s}
       \cup (IF sure = {} THEN {-1} ELSE {})

\* Where the children of a node are.
Slots(t, idx) == {t.base[idx] + c : c \in CharList_All(t.children[idx])}

\* An array when what the slots in from hold has gone by places up.
Shifted(f, from, by, zero) ==
  [i \in DOMAIN f |-> IF i - by \in from THEN f[i - by]
                      ELSE IF i \in from THEN zero ELSE f[i]]

\* The children of idx as they go to where its new base puts them.
Relocated(t, idx, b) ==
  LET from == Slots(t, idx)
      by == b - t.base[idx]
      blank == Shifted(t.check, from, by, 0)
  IN [t EXCEPT !.base = [Shifted(@, from, by, 0) EXCEPT ![idx] = b],
               !.check = [i \in DOMAIN @ |-> IF i - by \in from THEN idx ELSE blank[i]],
               !.children = Shifted(@, from, by, <<>>),
               !.record = Shifted(@, from, by, Null)]

\* Faulty variants: the grandchildren still name the slots their parents had, or
\* the slots that are left keep their parent.
MoveChildrenOnly(t, idx, b) == Relocated(t, idx, b)
MoveAndStay(t, idx, b) ==
  [Relocated(t, idx, b) EXCEPT !.check = [i \in DOMAIN @ |-> IF i \in Slots(t, idx) THEN idx ELSE @[i]]]

\* ... and their own children, whose slots stay, are told.
MoveAtOnce(t, idx, b) ==
  LET r == Relocated(t, idx, b)
      parent(i) == {n \in Slots(r, idx) : i \in Slots(r, n)}
  IN [r EXCEPT !.check = [i \in DOMAIN @ |-> IF parent(i) # {} THEN Max(parent(i)) ELSE @[i]]]

\* Characters that come back as others lead to slots that are not the children's
\* and may be one another's; then the order counts.
MoveChild(t, idx, from, to) ==
  LET moved(f, zero) == [f EXCEPT ![to] = f[from], ![from] = zero]
      left == [t.check EXCEPT ![to] = idx, ![from] = 0]
      told == {t.base[from] + g : g \in CharList_All(t.children[from])}
  IN [t EXCEPT !.base = moved(@, 0), !.children = moved(@, <<>>), !.record = moved(@, Null),
               !.check = [i \in DOMAIN @ |-> IF i \in told THEN to ELSE left[i]]]
MoveInTurn(t, idx, b) ==
  FoldLeft(LAMBDA s, c : MoveChild(s, idx, t.base[idx] + Signed(c), b + Signed(c)),
           [t EXCEPT !.base[idx] = b], t.children[idx])

\* All that is moved is in the arrays, and is not the node itself.
InArrays(t, idx, b) ==
  LET slots == Slots(t, idx) \cup {b + c : c \in CharList_All(t.children[idx])} IN
  /\ slots \subseteq DOMAIN t.check \ {idx}
  /\ \A i \in slots : Slots(t, i) \subseteq DOMAIN t.check

Plainly(t, idx) == Plain(t.children[idx]) /\ \A i \in Slots(t, idx) : Plain(t.children[i])

\* What is done to memory before the arrays is left out.
Trie_Move(t, idx, b) ==
  CASE Plainly(t, idx) -> MoveAtOnce(t, idx, b)
    [] ~Plainly(t, idx) /\ InArrays(t, idx, b) -> MoveInTurn(t, idx, b)
    [] OTHER -> t

\* A list that cannot grow is not modelled.
CharList_Add(list, entry) == Append(list, entry)
Trie_AddChild(t, idx, ch) == [t EXCEPT !.children[idx] = CharList_Add(@, ch)]

-----------------------------------------------------------------------------
(* Trie_Set *)

Called(key, r) ==
  /\ call = Null
  /\ LET n == Trie_SearchKey(trie, key)
     IN call' = [key |-> key, record |-> r, done |-> n, idx |-> Path(trie, key)[n]]
  /\ UNCHANGED <<trie, old, result, strayed>>

Moves(t, idx, b) == t.base[idx] # 0 /\ b # t.base[idx]

\* The trie with one more node under idx, where its children and the new one fit.
Added(t, idx, ch, b) ==
  LET placed == IF Moves(t, idx, b) THEN Trie_Move(t, idx, b) ELSE [t EXCEPT !.base[idx] = b]
  IN Trie_AddChild([placed EXCEPT !.check[b + ch] = idx], idx, ch)

\* A node that has, or whose child has, a character that comes back as another
\* one must not move, and the root, whose slot looks free, is no child.
Strays(t, idx, ch, b) == b + ch = Root \/ (Moves(t, idx, b) /\ ~Plainly(t, idx))

GivesUp(why) ==
  /\ call' = Null
  /\ result' = why
  /\ UNCHANGED <<trie, old, strayed>>

\* One character.  If no base is free the arrays are doubled, which may fail,
\* and the search repeated; a Set that fails leaves the nodes it has made.
AddCharacter ==
  /\ call # Null
  /\ call.done < Len(call.key)
  /\ LET ch == call.key[call.done + 1]
         found(t) == Trie_SearchAvailableBaseValue(t, call.idx, ch)
         add(t, b) == /\ trie' = Added(t, call.idx, ch, b)
                      /\ call' = [call EXCEPT !.done = @ + 1, !.idx = b + ch]
                      /\ strayed' = Strays(t, call.idx, ch, b)
                      /\ UNCHANGED <<old, result>>
         wide == Trie_Expand(trie)
     IN \/ \E b \in found(trie) \ {-1} : add(trie, b)
        \/ -1 \in found(trie) /\ wide.size <= MaxSize
             /\ \E b \in found(wide) : IF b < 0 THEN GivesUp("no slot") ELSE add(wide, b)
        \/ -1 \in found(trie) /\ GivesUp("no memory")

\* The record is exchanged.
Finish ==
  /\ call # Null
  /\ call.done = Len(call.key)
  /\ old' = trie.record[call.idx]
  /\ trie' = [trie EXCEPT !.record[call.idx] = call.record]
  /\ call' = Null
  /\ result' = "ok"
  /\ UNCHANGED strayed

Next ==
  /\ ~strayed
  /\ \/ \E key \in Key, r \in Record : Called(key, r)
     \/ AddCharacter
     \/ Finish

Spec == Init /\ [][Next]_vars

-----------------------------------------------------------------------------
(* Properties *)

\* The structure of the two arrays, until a node strays: check names the parent
\* of exactly the slots that a node's list of children names, each once, and the
\* other slots are blank.
DoubleArraySound ==
  LET child(i, c) == trie.base[i] + c
      node == {i \in DOMAIN trie.check : i = Root \/ trie.check[i] # 0}
  IN
  strayed \/
    /\ \A i \in node, j \in DOMAIN trie.check :
          trie.check[j] = i <=> \E c \in Range(trie.children[i]) : j = child(i, c)
    /\ \A i \in node : IsInjective(trie.children[i]) /\ (i # Root => trie.check[i] \in node)
    /\ \A i \in DOMAIN trie.check \ node :
          trie.base[i] = 0 /\ trie.children[i] = <<>> /\ trie.record[i] = Null

\* Doubling the arrays once always makes room: a Set fails only for want of
\* memory.
DoublingMakesRoom == result # "no slot"

\* For its users the trie is a map: moves, expansions and Sets that fail change
\* no search, and a Set changes one and hands back what was there ...
M == INSTANCE Map WITH store <- [k \in Key |-> Trie_Find(trie, k)]
ImplementsMap == M!Spec

\* ... until a node strays.
MapUntilStrayed ==
  M!Init /\ [][~strayed' => \E k \in Key, r \in Record : M!Set(k, r)]_(M!vars)

=============================================================================
