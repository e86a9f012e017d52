-------------------------------- MODULE Lines --------------------------------
(***************************************************************************)
(* Numbered things in sequences that form a line: what is in them, and     *)
(* what keeps their order.  Lemmas for the proofs about channels.          *)
(***************************************************************************)
EXTENDS Integers, Sequences, FiniteSets, SequenceTheorems, FiniteSetTheorems,
        WellFoundedInduction, TLAPS

----------------------------------------------------------------------------
(* What is in a sequence of numbers, and its order.  Zero stands for what  *)
(* has no place in the order and counts for nothing.                       *)

Contents(s) == {s[i] : i \in DOMAIN s} \ {0}

Before(X, Y) == \A x \in X, y \in Y : x < y

InOrder(s) ==
  \A i, j \in DOMAIN s : i < j /\ s[i] # 0 /\ s[j] # 0 => s[i] < s[j]

\* Nothing is in an empty sequence.
LEMMA EmptySequence == Contents(<<>>) = {} /\ InOrder(<<>>)
BY DEF Contents, InOrder

\* The head of a sequence comes before what follows it.
LEMMA TakeFirst ==
  ASSUME NEW s \in Seq(Nat), InOrder(s), s # <<>>
  PROVE  /\ InOrder(Tail(s)) /\ Contents(Tail(s)) \subseteq Contents(s)
         /\ Head(s) # 0 => Head(s) \in Contents(s)
         /\ Head(s) # 0 => Before({Head(s)}, Contents(Tail(s)))
<1>1. /\ Tail(s) \in Seq(Nat) /\ Len(Tail(s)) = Len(s) - 1 /\ Len(s) > 0
      /\ \A i \in 1..Len(Tail(s)) : Tail(s)[i] = s[i + 1]
  OBVIOUS
<1>2. Head(s) = s[1] /\ 1 \in DOMAIN s
  OBVIOUS
<1>3. \A i \in DOMAIN Tail(s) : i \in Nat \ {0} /\ i + 1 \in DOMAIN s /\ Tail(s)[i] = s[i + 1]
  BY <1>1
<1>4. InOrder(Tail(s))  BY <1>3 DEF InOrder
<1>5. Contents(Tail(s)) \subseteq Contents(s)  BY <1>3 DEF Contents
<1>6. Head(s) # 0 => Head(s) \in Contents(s)  BY <1>2 DEF Contents
<1>7. ASSUME Head(s) # 0, NEW y \in Contents(Tail(s)) PROVE Head(s) < y
  <2>1. PICK i \in DOMAIN Tail(s) : y = Tail(s)[i] /\ y # 0  BY <1>7 DEF Contents
  <2> QED BY <1>2, <1>3, <1>7, <2>1 DEF InOrder
<1> QED BY <1>4, <1>5, <1>6, <1>7 DEF Before

\* What comes after all that is in a sequence is put at its end.
LEMMA PutLast ==
  ASSUME NEW s \in Seq(Nat), NEW x \in Nat, InOrder(s), Before(Contents(s), {x} \ {0})
  PROVE  /\ InOrder(Append(s, x))
         /\ Contents(Append(s, x)) = Contents(s) \cup ({x} \ {0})
<1>1. /\ DOMAIN s = 1..Len(s) /\ DOMAIN Append(s, x) = 1..(Len(s) + 1) /\ Len(s) \in Nat
      /\ \A i \in 1..Len(s) : Append(s, x)[i] = s[i] /\ s[i] \in Nat
      /\ Append(s, x)[Len(s) + 1] = x
  OBVIOUS
<1>2. Contents(Append(s, x)) = Contents(s) \cup ({x} \ {0})
  <2>1. ASSUME NEW y \in Contents(Append(s, x)) PROVE y \in Contents(s) \cup ({x} \ {0})
    BY <1>1 DEF Contents
  <2>2. ASSUME NEW y \in Contents(s) PROVE y \in Contents(Append(s, x))
    <3>1. PICK i \in DOMAIN s : y = s[i] /\ y # 0  BY DEF Contents
    <3>2. i \in DOMAIN Append(s, x) /\ Append(s, x)[i] = y  BY <1>1, <3>1
    <3> QED BY <3>1, <3>2 DEF Contents
  <2>3. ASSUME x # 0 PROVE x \in Contents(Append(s, x))
    <3>1. Len(s) + 1 \in DOMAIN Append(s, x)  BY <1>1
    <3> QED BY <1>1, <2>3, <3>1 DEF Contents
  <2> QED BY <2>1, <2>2, <2>3
<1>3. ASSUME NEW i \in DOMAIN Append(s, x), NEW j \in DOMAIN Append(s, x), i < j,
             Append(s, x)[i] # 0, Append(s, x)[j] # 0
      PROVE  Append(s, x)[i] < Append(s, x)[j]
  <2>1. i \in DOMAIN s /\ Append(s, x)[i] = s[i]  BY <1>1, <1>3
  <2>2. CASE j \in DOMAIN s  BY <1>1, <1>3, <2>1, <2>2 DEF InOrder
  <2>3. CASE j \notin DOMAIN s
    <3>1. Append(s, x)[j] = x  BY <1>1, <2>3
    <3>2. s[i] \in Contents(s)  BY <1>3, <2>1 DEF Contents
    <3> QED BY <1>3, <2>1, <3>1, <3>2 DEF Before
  <2> QED BY <2>2, <2>3
<1> QED BY <1>2, <1>3 DEF InOrder

\* A prefix keeps the order.
LEMMA KeepPrefix ==
  ASSUME NEW s \in Seq(Nat), InOrder(s), NEW n \in 0..Len(s)
  PROVE  /\ InOrder(SubSeq(s, 1, n)) /\ Contents(SubSeq(s, 1, n)) \subseteq Contents(s)
<1>1. /\ DOMAIN SubSeq(s, 1, n) = 1..n /\ 1..n \subseteq DOMAIN s
      /\ \A i \in 1..n : SubSeq(s, 1, n)[i] = s[i]
  OBVIOUS
<1> QED BY <1>1 DEF InOrder, Contents

----------------------------------------------------------------------------
(* Things that move along a line of sequences, from the last to the first. *)

InLine(n, line) ==
  /\ \A a \in 1..n : InOrder(line[a])
  /\ \A a, b \in 1..n : a < b => Before(Contents(line[a]), Contents(line[b]))

\* Nothing is in the new line that was not in the old one.
Within(n, new, old) ==
  \A a \in 1..n : \A x \in Contents(new[a]) : \E b \in 1..n : x \in Contents(old[b])

\* What is left when something is taken out.
LeftOf(s, t) == InOrder(t) /\ Contents(t) \subseteq Contents(s)

\* Something is taken out of the line.
LEMMA LineShrinks ==
  ASSUME NEW n \in Nat, NEW old, NEW new, InLine(n, old), \A a \in 1..n : LeftOf(old[a], new[a])
  PROVE  InLine(n, new) /\ Within(n, new, old)
<1>1. InLine(n, new)  BY DEF InLine, Before, LeftOf
<1>2. Within(n, new, old)  BY DEF Within, LeftOf
<1> QED BY <1>1, <1>2

Numbers(n, line) == \A a \in 1..n : line[a] \in Seq(Nat)

\* The first of the a-th becomes the last of the b-th; between them is nothing.
MovesOn(n, old, new, a, b) ==
  /\ b < a /\ old[a] # <<>> /\ \A c \in 1..n : b < c /\ c < a => old[c] = <<>>
  /\ new[a] = Tail(old[a]) /\ new[b] = Append(old[b], Head(old[a]))
  /\ \A c \in 1..n : c # a /\ c # b => new[c] = old[c]

\* What comes after all others is put at the end.
GrowsBy(n, old, new, x) ==
  /\ \A a \in 1..n : \A y \in Contents(old[a]) : x # 0 => y < x
  /\ new[n] = Append(old[n], x)
  /\ \A a \in 1..n : a # n => new[a] = old[a]

\* Something moves on, over sequences that are empty.
LEMMA LineMoves ==
  ASSUME NEW n \in Nat, NEW old, NEW new, InLine(n, old), Numbers(n, old),
         NEW a \in 1..n, NEW b \in 1..n, MovesOn(n, old, new, a, b)
  PROVE  InLine(n, new) /\ Within(n, new, old)
<1> USE DEF Numbers, MovesOn
<1> DEFINE x == Head(old[a])
<1>1. x \in Nat  OBVIOUS
<1>2. /\ InOrder(new[a]) /\ Contents(new[a]) \subseteq Contents(old[a])
      /\ {x} \ {0} \subseteq Contents(old[a])
      /\ Before({x} \ {0}, Contents(new[a]))
  <2>1. InOrder(old[a])  BY DEF InLine
  <2>2. /\ InOrder(new[a]) /\ Contents(new[a]) \subseteq Contents(old[a])
        /\ x # 0 => x \in Contents(old[a]) /\ Before({x}, Contents(new[a]))
    BY <2>1, TakeFirst
  <2> HIDE DEF x
  <2> QED BY <2>2 DEF Before
<1>3. Before(Contents(old[b]), {x} \ {0})  BY <1>2 DEF InLine, Before
<1>4. InOrder(new[b]) /\ Contents(new[b]) = Contents(old[b]) \cup ({x} \ {0})
  BY <1>1, <1>3, PutLast DEF InLine
<1> HIDE DEF x
<1>5. ASSUME NEW c \in 1..n PROVE InOrder(new[c])
  <2>1. InOrder(old[c])  BY DEF InLine
  <2> QED BY <1>2, <1>4, <2>1
<1>6. ASSUME NEW c \in 1..n, NEW d \in 1..n, c < d
      PROVE  Before(Contents(new[c]), Contents(new[d]))
  <2>1. CASE c # b
    <3>1. Contents(new[c]) \subseteq Contents(old[c])  BY <1>2, <2>1
    <3>2. CASE d # b
      <4>1. Contents(new[d]) \subseteq Contents(old[d])  BY <1>2, <3>2
      <4>2. Before(Contents(old[c]), Contents(old[d]))  BY <1>6 DEF InLine
      <4> QED BY <3>1, <4>1, <4>2 DEF Before
    <3>3. CASE d = b
      <4>1. Before(Contents(old[c]), Contents(old[b]))  BY <1>6, <3>3 DEF InLine
      <4>2. Before(Contents(old[c]), {x} \ {0})
        <5>1. Before(Contents(old[c]), Contents(old[a]))  BY <1>6, <3>3 DEF InLine
        <5> QED BY <1>2, <5>1 DEF Before
      <4> QED BY <1>4, <3>1, <3>3, <4>1, <4>2 DEF Before
    <3> QED BY <3>2, <3>3
  <2>2. CASE c = b
    <3>1. Before(Contents(old[c]), Contents(new[d]))
      <4>1. Contents(new[d]) \subseteq Contents(old[d])  BY <1>2, <1>6, <2>2
      <4>2. Before(Contents(old[c]), Contents(old[d]))  BY <1>6 DEF InLine
      <4> QED BY <4>1, <4>2 DEF Before
    <3>2. Before({x} \ {0}, Contents(new[d]))
      <4>1. CASE d = a  BY <1>2, <4>1
      <4>2. CASE d > a
        <5>1. new[d] = old[d]  BY <1>6, <2>2, <4>2
        <5>2. Before(Contents(old[a]), Contents(old[d]))  BY <1>6, <4>2 DEF InLine
        <5> QED BY <1>2, <5>1, <5>2 DEF Before
      <4>3. CASE d < a
        <5>1. old[d] = <<>> /\ d # a /\ d # b  BY <1>6, <2>2, <4>3
        <5>2. new[d] = <<>>  BY <5>1
        <5> QED BY <5>2, EmptySequence DEF Before
      <4> QED BY <4>1, <4>2, <4>3
    <3> QED BY <1>4, <2>2, <3>1, <3>2 DEF Before
  <2> QED BY <2>1, <2>2
<1>7. ASSUME NEW c \in 1..n, NEW y \in Contents(new[c])
      PROVE  \E d \in 1..n : y \in Contents(old[d])
  <2>1. CASE c = a  BY <1>2, <1>7, <2>1
  <2>2. CASE c = b  BY <1>2, <1>4, <1>7, <2>2
  <2>3. CASE c # a /\ c # b  BY <1>7, <2>3
  <2> QED BY <2>1, <2>2, <2>3
<1> QED BY <1>5, <1>6, <1>7 DEF InLine, Within

\* Something new comes to the end of the line.
LEMMA LineGrows ==
  ASSUME NEW n \in Nat \ {0}, NEW old, NEW new, InLine(n, old), Numbers(n, old),
         NEW x \in Nat, GrowsBy(n, old, new, x)
  PROVE  InLine(n, new) /\ Contents(new[n]) = Contents(old[n]) \cup ({x} \ {0})
<1> USE DEF Numbers, GrowsBy
<1>1. InOrder(new[n]) /\ Contents(new[n]) = Contents(old[n]) \cup ({x} \ {0})
  <2>1. n \in 1..n  OBVIOUS
  <2>2. Before(Contents(old[n]), {x} \ {0})  BY <2>1 DEF Before
  <2> QED BY <2>1, <2>2, PutLast DEF InLine
<1>2. ASSUME NEW c \in 1..n PROVE InOrder(new[c])
  <2>1. InOrder(old[c])  BY DEF InLine
  <2> QED BY <1>1, <2>1
<1>3. ASSUME NEW c \in 1..n, NEW d \in 1..n, c < d
      PROVE  Before(Contents(new[c]), Contents(new[d]))
  <2>1. new[c] = old[c] /\ Before(Contents(old[c]), Contents(old[d]))  BY <1>3 DEF InLine
  <2>2. CASE d = n  BY <1>1, <2>1, <2>2 DEF Before
  <2>3. CASE d # n  BY <2>1, <2>3
  <2> QED BY <2>2, <2>3
<1> QED BY <1>1, <1>2, <1>3 DEF InLine

----------------------------------------------------------------------------
(* Sequences of things that a function numbers.                            *)

Numbered(f, s) == [i \in 1..Len(s) |-> f[s[i]]]

\* The numbers of a sequence, of its head and of what follows it.
LEMMA NumberedFirst ==
  ASSUME NEW S, NEW f \in [S -> Nat], NEW s \in Seq(S)
  PROVE  /\ Numbered(f, s) \in Seq(Nat) /\ Len(Numbered(f, s)) = Len(s)
         /\ s = <<>> => Numbered(f, s) = <<>>
         /\ s # <<>> => /\ Numbered(f, s) # <<>> /\ Head(Numbered(f, s)) = f[Head(s)]
                        /\ Numbered(f, Tail(s)) = Tail(Numbered(f, s))
<1>1. /\ Numbered(f, s) \in Seq(Nat) /\ Len(Numbered(f, s)) = Len(s)
      /\ \A i \in 1..Len(s) : Numbered(f, s)[i] = f[s[i]]
  BY DEF Numbered
<1>2. ASSUME s = <<>> PROVE Numbered(f, s) = <<>>  BY <1>1, <1>2
<1>3. ASSUME s # <<>>
      PROVE  /\ Numbered(f, s) # <<>> /\ Head(Numbered(f, s)) = f[Head(s)]
             /\ Numbered(f, Tail(s)) = Tail(Numbered(f, s))
  <2> DEFINE t == Numbered(f, s)
             u == Numbered(f, Tail(s))
  <2>1. Tail(s) \in Seq(S) /\ Len(Tail(s)) = Len(s) - 1 /\ Len(s) \in Nat \ {0}
        /\ \A i \in 1..(Len(s) - 1) : Tail(s)[i] = s[i + 1]
    BY <1>3
  <2>2. u \in Seq(Nat) /\ Len(u) = Len(s) - 1
        /\ \A i \in 1..(Len(s) - 1) : u[i] = f[s[i + 1]]
    BY <2>1 DEF Numbered
  <2>3. t # <<>> /\ Head(t) = f[Head(s)]  BY <1>1, <1>3, <2>1
  <2>4. Tail(t) \in Seq(Nat) /\ Len(Tail(t)) = Len(s) - 1
        /\ \A i \in 1..(Len(s) - 1) : Tail(t)[i] = f[s[i + 1]]
    BY <1>1, <2>1, <2>3
  <2> HIDE DEF t, u
  <2>5. u = Tail(t)  BY <2>2, <2>4, SeqEqual
  <2> QED BY <2>3, <2>5 DEF t, u
<1> QED BY <1>1, <1>2, <1>3

\* The numbers of a sequence to which something is added.
LEMMA NumberedLast ==
  ASSUME NEW S, NEW f \in [S -> Nat], NEW s \in Seq(S), NEW x \in S
  PROVE  Numbered(f, Append(s, x)) = Append(Numbered(f, s), f[x])
<1> DEFINE t == Numbered(f, s)
           u == Numbered(f, Append(s, x))
<1>1. t \in Seq(Nat) /\ Len(t) = Len(s) /\ Len(s) \in Nat
      /\ \A i \in 1..Len(s) : t[i] = f[s[i]]
  BY DEF Numbered
<1>2. u \in Seq(Nat) /\ Len(u) = Len(s) + 1 /\ u[Len(s) + 1] = f[x]
      /\ \A i \in 1..Len(s) : u[i] = f[s[i]]
  BY DEF Numbered
<1>3. f[x] \in Nat  OBVIOUS
<1> HIDE DEF t, u
<1>4. Append(t, f[x]) \in Seq(Nat) /\ Len(Append(t, f[x])) = Len(s) + 1
      /\ Append(t, f[x])[Len(s) + 1] = f[x]
      /\ \A i \in 1..Len(s) : Append(t, f[x])[i] = f[s[i]]
  BY <1>1, <1>3
<1>5. \A i \in 1..(Len(s) + 1) : u[i] = Append(t, f[x])[i]  BY <1>1, <1>2, <1>4
<1>6. u = Append(t, f[x])  BY <1>2, <1>4, <1>5, SeqEqual
<1> QED BY <1>6 DEF t, u

\* The numbers of a prefix.
LEMMA NumberedPrefix ==
  ASSUME NEW S, NEW f \in [S -> Nat], NEW s \in Seq(S), NEW n \in 0..Len(s)
  PROVE  Numbered(f, SubSeq(s, 1, n)) = SubSeq(Numbered(f, s), 1, n)
<1> DEFINE t == Numbered(f, s)
           u == Numbered(f, SubSeq(s, 1, n))
<1>1. t \in Seq(Nat) /\ Len(t) = Len(s) /\ \A i \in 1..Len(s) : t[i] = f[s[i]]
  BY DEF Numbered
<1>2. u \in Seq(Nat) /\ Len(u) = n /\ \A i \in 1..n : u[i] = f[s[i]]
  BY DEF Numbered
<1> HIDE DEF t, u
<1>3. SubSeq(t, 1, n) \in Seq(Nat) /\ Len(SubSeq(t, 1, n)) = n
      /\ \A i \in 1..n : SubSeq(t, 1, n)[i] = f[s[i]]
  BY <1>1
<1>4. u = SubSeq(t, 1, n)  BY <1>2, <1>3, SeqEqual
<1> QED BY <1>4 DEF t, u

\* What is in a sequence is its head and what follows it.
LEMMA HeadAndTail ==
  ASSUME NEW s \in Seq(Nat), s # <<>>
  PROVE  Contents(s) = ({Head(s)} \ {0}) \cup Contents(Tail(s))
<1>1. /\ Tail(s) \in Seq(Nat) /\ Len(Tail(s)) = Len(s) - 1 /\ Len(s) \in Nat \ {0}
      /\ \A i \in 1..(Len(s) - 1) : Tail(s)[i] = s[i + 1]
      /\ Head(s) = s[1]
  OBVIOUS
<1>2. ASSUME NEW x \in Contents(s) PROVE x = Head(s) \/ x \in Contents(Tail(s))
  <2>1. PICK i \in DOMAIN s : x = s[i] /\ x # 0  BY DEF Contents
  <2>2. CASE i = 1  BY <1>1, <2>1, <2>2
  <2>3. CASE i # 1
    <3>1. i - 1 \in DOMAIN Tail(s) /\ Tail(s)[i - 1] = x  BY <1>1, <2>1, <2>3
    <3> QED BY <2>1, <3>1 DEF Contents
  <2> QED BY <2>2, <2>3
<1>3. ASSUME NEW x \in Contents(Tail(s)) PROVE x \in Contents(s)
  <2>1. PICK i \in DOMAIN Tail(s) : x = Tail(s)[i] /\ x # 0  BY DEF Contents
  <2>2. i + 1 \in DOMAIN s /\ s[i + 1] = x  BY <1>1, <2>1
  <2> QED BY <2>1, <2>2 DEF Contents
<1>4. Head(s) # 0 => Head(s) \in Contents(s)  BY <1>1 DEF Contents
<1> QED BY <1>2, <1>3, <1>4 DEF Contents

\* The first of a sequence in order is not among the others.
LEMMA FirstIsOnce ==
  ASSUME NEW s \in Seq(Nat), InOrder(s), s # <<>>, Head(s) # 0
  PROVE  /\ Contents(s) = {Head(s)} \cup Contents(Tail(s))
         /\ Head(s) \notin Contents(Tail(s))
<1>1. Contents(s) = ({Head(s)} \ {0}) \cup Contents(Tail(s))  BY HeadAndTail
<1>2. Before({Head(s)}, Contents(Tail(s))) /\ Head(s) \in Nat  BY TakeFirst
<1> QED BY <1>1, <1>2 DEF Before

\* What is in a sequence to which something is added.
LEMMA ContentsAndLast ==
  ASSUME NEW s \in Seq(Nat), NEW x \in Nat
  PROVE  Contents(Append(s, x)) = Contents(s) \cup ({x} \ {0})
<1>1. /\ DOMAIN s = 1..Len(s) /\ DOMAIN Append(s, x) = 1..(Len(s) + 1) /\ Len(s) \in Nat
      /\ \A i \in 1..Len(s) : Append(s, x)[i] = s[i]
      /\ Append(s, x)[Len(s) + 1] = x
  OBVIOUS
<1>2. ASSUME NEW y \in Contents(Append(s, x)) PROVE y \in Contents(s) \cup ({x} \ {0})
  BY <1>1 DEF Contents
<1>3. ASSUME NEW y \in Contents(s) PROVE y \in Contents(Append(s, x))
  <2>1. PICK i \in DOMAIN s : y = s[i] /\ y # 0  BY DEF Contents
  <2>2. i \in DOMAIN Append(s, x) /\ Append(s, x)[i] = y  BY <1>1, <2>1
  <2> QED BY <2>1, <2>2 DEF Contents
<1>4. ASSUME x # 0 PROVE x \in Contents(Append(s, x))
  <2>1. Len(s) + 1 \in DOMAIN Append(s, x)  BY <1>1
  <2> QED BY <1>1, <1>4, <2>1 DEF Contents
<1> QED BY <1>2, <1>3, <1>4

\* What is in a prefix of a sequence and in the rest.
LEMMA PrefixAndRest ==
  ASSUME NEW s \in Seq(Nat), InOrder(s), NEW n \in 0..Len(s)
  PROVE  /\ Contents(s) = Contents(SubSeq(s, 1, n)) \cup Contents(SubSeq(s, n + 1, Len(s)))
         /\ Contents(SubSeq(s, 1, n)) \cap Contents(SubSeq(s, n + 1, Len(s))) = {}
<1> DEFINE p == SubSeq(s, 1, n)
           r == SubSeq(s, n + 1, Len(s))
<1>1. /\ Len(s) \in Nat /\ n \in Nat /\ n <= Len(s) /\ DOMAIN s = 1..Len(s)
      /\ DOMAIN p = 1..n /\ \A i \in 1..n : p[i] = s[i]
      /\ DOMAIN r = 1..(Len(s) - n) /\ \A i \in 1..(Len(s) - n) : r[i] = s[n + i]
  OBVIOUS
<1> HIDE DEF p, r
<1>2. ASSUME NEW x \in Contents(s) PROVE x \in Contents(p) \cup Contents(r)
  <2>1. PICK i \in 1..Len(s) : x = s[i] /\ x # 0  BY <1>1, <1>2 DEF Contents
  <2>2. CASE i <= n  BY <1>1, <2>1, <2>2 DEF Contents
  <2>3. CASE i > n
    <3>1. i - n \in DOMAIN r /\ r[i - n] = x  BY <1>1, <2>1, <2>3
    <3> QED BY <2>1, <3>1 DEF Contents
  <2> QED BY <1>1, <2>1, <2>2, <2>3
<1>3. Contents(p) \subseteq Contents(s)  BY <1>1 DEF Contents
<1>4. ASSUME NEW x \in Contents(r)
      PROVE  x \in Contents(s) /\ \E j \in DOMAIN s : j > n /\ s[j] = x /\ x # 0
  <2>1. PICK i \in DOMAIN r : x = r[i] /\ x # 0  BY DEF Contents
  <2>2. n + i \in DOMAIN s /\ n + i > n /\ s[n + i] = x  BY <1>1, <2>1
  <2> QED BY <2>1, <2>2 DEF Contents
<1>5. ASSUME NEW x \in Contents(p) PROVE x \notin Contents(r)
  <2>1. PICK i \in DOMAIN p : x = p[i] /\ x # 0  BY DEF Contents
  <2>2. i \in DOMAIN s /\ i <= n /\ s[i] = x /\ x \in Nat  BY <1>1, <2>1
  <2>3. SUFFICES ASSUME x \in Contents(r) PROVE FALSE
    OBVIOUS
  <2>4. PICK j \in DOMAIN s : j > n /\ s[j] = x  BY <1>4, <2>3
  <2>5. s[i] < s[j]  BY <1>1, <2>1, <2>2, <2>4 DEF InOrder
  <2> QED BY <2>2, <2>4, <2>5
<1> QED BY <1>2, <1>3, <1>4, <1>5 DEF p, r

----------------------------------------------------------------------------
\* Of the numbers that have a property one is the least.  Where a proof goes by
\* induction, this is the least number for which the claim would fail.
LEMMA LeastNumber ==
  ASSUME NEW T \in SUBSET Nat, T # {}
  PROVE  \E n \in T : \A m \in T : n <= m
<1> DEFINE R == OpToRel(<, Nat)
<1>1. IsWellFoundedOn(R, Nat)  BY NatLessThanWellFounded, Zenon
<1>2. \A x \in Nat, y \in Nat : x < y => <<x, y>> \in R
  <2>1. \A p \in Nat \X Nat : p[1] < p[2] => p \in R  BY Zenon DEF OpToRel
  <2> HIDE DEF R
  <2>2. \A x \in Nat, y \in Nat :
          <<x, y>> \in Nat \X Nat /\ <<x, y>>[1] = x /\ <<x, y>>[2] = y
    OBVIOUS
  <2> QED BY <2>1, <2>2
<1> HIDE DEF R
<1>3. PICK n \in T : \A y \in T : <<y, n>> \notin R  BY <1>1, WFMin
<1>4. ASSUME NEW m \in T PROVE n <= m
  <2>1. n \in Nat /\ m \in Nat /\ (m < n => <<m, n>> \in R)  BY <1>2
  <2> QED BY <1>3, <2>1
<1> QED BY <1>4

----------------------------------------------------------------------------
(* The stage of a thing in a handover, by the place it is in.              *)

\* What is in one of three places at most is at the stage the place stands for.
LEMMA StageOf ==
  ASSUME NEW w, DOMAIN w = {"held", "delivered", "lost"},
         w["held"] \cap w["delivered"] = {}, w["held"] \cap w["lost"] = {},
         w["delivered"] \cap w["lost"] = {}, NEW m, NEW stage,
         stage = LET at == {s \in DOMAIN w : m \in w[s]}
                 IN  CASE at = {} -> "fresh"
                       [] Cardinality(at) = 1 -> CHOOSE s \in at : TRUE
                       [] OTHER -> "several"
  PROVE  /\ (\A s \in DOMAIN w : m \notin w[s]) => stage = "fresh"
         /\ \A s \in DOMAIN w : m \in w[s] => stage = s
<1> DEFINE at == {s \in DOMAIN w : m \in w[s]}
<1>1. /\ (\A s \in DOMAIN w : m \notin w[s]) => at = {}
      /\ \A s \in DOMAIN w : m \in w[s] => at = {s}
  OBVIOUS
<1>2. stage = CASE at = {} -> "fresh"
                [] Cardinality(at) = 1 -> CHOOSE s \in at : TRUE
                [] OTHER -> "several"
  OBVIOUS
<1> HIDE DEF at
<1>3. at = {} => stage = "fresh"
  <2>1. at = {} => Cardinality(at) # 1  BY FS_EmptySet
  <2> QED BY <1>2, <2>1
<1>4. ASSUME NEW x, at = {x} PROVE stage = x
  <2>1. Cardinality(at) = 1  BY <1>4, FS_Singleton
  <2>2. (CHOOSE s \in at : TRUE) = x /\ at # {}  BY <1>4
  <2> QED BY <1>2, <2>1, <2>2
<1> QED BY <1>1, <1>3, <1>4
=============================================================================
