------------------------- MODULE TaskPlacesProofs --------------------------
(***************************************************************************)
(* Theorems about where TaskRouting's messages are, for every set of       *)
(* connections and tasks and every bound: each message whose fate is open  *)
(* is in exactly one place, the buffer keeps its bound, and a fate that    *)
(* has been settled stays so.  With that the daemon implements Handoff.    *)
(*                                                                         *)
(* The buffer, the gate of each task and each thread are the places.       *)
(* PlaceInv says that the messages in them are those whose fate is open,   *)
(* and that no two places share one.  A step lets at most two places       *)
(* exchange what they hold, gives some of it away for good or adds what it *)
(* issues (Placed); the lemmas about lists say that appending, cutting,    *)
(* filtering and renaming neither lose nor double a message.               *)
(***************************************************************************)
EXTENDS TaskRoutingProofs, Lines

----------------------------------------------------------------------------
(* Filtering a list *)

\* What Select says of a function over the first l positions.
Choice(g, s, kept, l) ==
  [n \in 0..l |-> IF n = 0 THEN <<>>
                  ELSE IF n \in kept THEN Append(g[n - 1], s[n]) ELSE g[n - 1]]

\* A recursive definition over the positions of a sequence has a solution.
LEMMA SelectionExists ==
  ASSUME NEW L \in Nat, NEW s, NEW kept
  PROVE  \E g : g = Choice(g, s, kept, L)
<1> DEFINE next(g, n) == IF n = 0 THEN <<>>
                         ELSE IF n \in kept THEN Append(g[n - 1], s[n]) ELSE g[n - 1]
           solves(g, l) == g = Choice(g, s, kept, l)
           T == {l \in Nat : ~\E g : solves(g, l)}
<1>1. ASSUME T # {} PROVE FALSE
  <2>1. PICK l \in T : \A m \in T : l <= m
    BY <1>1, LeastNumber
  <2>2. l # 0
    <3>1. solves([n \in 0..0 |-> <<>>], 0)
      BY DEF Choice
    <3> QED BY <2>1, <3>1
  <2>3. PICK g : solves(g, l - 1)
    <3>1. l - 1 \in Nat /\ ~(l <= l - 1)
      BY <2>2
    <3>2. l - 1 \notin T
      <4> HIDE DEF T
      <4> QED BY <2>1, <3>1
    <3> QED BY <3>1, <3>2
  <2> DEFINE h == [n \in 0..l |-> IF n = l THEN next(g, l) ELSE g[n]]
  <2>4. solves(h, l)
    <3>1. ASSUME NEW n \in 0..l PROVE h[n] = next(h, n)
      <4>1. CASE n = l
        <5>1. l - 1 \in 0..l /\ l - 1 # l
          BY <2>2
        <5>2. h[l - 1] = g[l - 1]
          BY <5>1
        <5>3. h[n] = next(g, l)
          BY <4>1
        <5> HIDE DEF h
        <5> QED BY <2>2, <4>1, <5>2, <5>3
      <4>2. CASE n # l
        <5>1. n \in 0..(l - 1) /\ h[n] = g[n]
          BY <4>2
        <5>2. g[n] = next(g, n)
          BY <2>3, <5>1 DEF Choice
        <5>3. n # 0 => h[n - 1] = g[n - 1]
          <6>1. n # 0 => n - 1 \in 0..l /\ n - 1 # l
            BY <4>2
          <6> QED BY <6>1
        <5> HIDE DEF h
        <5> QED BY <5>1, <5>2, <5>3
      <4> QED BY <4>1, <4>2
    <3>2. h = [n \in 0..l |-> h[n]]
      OBVIOUS
    <3> HIDE DEF h
    <3> QED BY <3>1, <3>2 DEF Choice
  <2> QED BY <2>1, <2>4
<1> QED BY <1>1

\* g builds the selection step by step along the positions.
Builds(g, s, kept) ==
  /\ g[0] = <<>>
  /\ \A n \in 1..Len(s) : g[n] = IF n \in kept THEN Append(g[n - 1], s[n]) ELSE g[n - 1]

\* The selection is reached step by step along the positions.
LEMMA SelectionSteps ==
  ASSUME NEW s, NEW kept, Len(s) \in Nat
  PROVE  \E g : Select(s, kept) = g[Len(s)] /\ Builds(g, s, kept)
<1> DEFINE f == CHOOSE g : g = Choice(g, s, kept, Len(s))
<1>1. f = Choice(f, s, kept, Len(s))
  <2>1. \E g : g = Choice(g, s, kept, Len(s))
    BY SelectionExists
  <2> QED BY <2>1
<1>2. Select(s, kept) = f[Len(s)]
  BY DEF Select, Choice
<1> HIDE DEF f
<1>3. \A n \in 0..Len(s) : f[n] = IF n = 0 THEN <<>>
                                  ELSE IF n \in kept THEN Append(f[n - 1], s[n]) ELSE f[n - 1]
  BY <1>1 DEF Choice
<1>4. Builds(f, s, kept)
  BY <1>3 DEF Builds
<1> QED BY <1>2, <1>4

\* r holds what is in s at the places kept, in the order of s; h says from which place.
Picks(h, r, s, kept) ==
  /\ h \in [DOMAIN r -> kept]
  /\ \A j \in DOMAIN r : r[j] = s[h[j]]
  /\ \A p \in kept : \E j \in DOMAIN r : h[j] = p
  /\ \A j, k \in DOMAIN r : j < k => h[j] < h[k]

\* The selection consists of what s holds at the places kept, in order.
LEMMA SelectionPicks ==
  ASSUME NEW S, NEW s \in Seq(S), NEW kept
  PROVE  /\ Select(s, kept) \in Seq(S) /\ Len(Select(s, kept)) <= Len(s)
         /\ \E h : Picks(h, Select(s, kept), s, kept \cap DOMAIN s)
<1>1. Len(s) \in Nat /\ DOMAIN s = 1..Len(s) /\ \A n \in 1..Len(s) : s[n] \in S
  BY LenProperties, ElementOfSeq
<1>2. PICK g : Select(s, kept) = g[Len(s)] /\ Builds(g, s, kept)
  BY <1>1, SelectionSteps
<1> DEFINE claim(n) == /\ g[n] \in Seq(S) /\ Len(g[n]) <= n
                       /\ \E h : Picks(h, g[n], s, kept \cap 1..n)
           T == {n \in 0..Len(s) : ~claim(n)}
<1>3. claim(0)
  <2>1. <<>> \in Seq(S) /\ Len(<<>>) = 0 /\ DOMAIN <<>> = {}
    OBVIOUS
  <2>2. Picks(<<>>, <<>>, s, kept \cap 1..0)
    BY <2>1 DEF Picks
  <2>3. g[0] = <<>> /\ 1..0 = {} /\ kept \cap 1..0 = {}
    BY <1>2 DEF Builds
  <2> QED BY <2>1, <2>2, <2>3
<1>4. ASSUME NEW n \in 1..Len(s), claim(n - 1) PROVE claim(n)
  <2> DEFINE old == g[n - 1]
             K == kept \cap 1..(n - 1)
  <2>1. PICK h : Picks(h, old, s, K)
    BY <1>4
  <2>2. /\ old \in Seq(S) /\ Len(old) <= n - 1 /\ Len(old) \in Nat /\ DOMAIN old = 1..Len(old)
        /\ n \in Nat /\ n - 1 \in Nat /\ s[n] \in S
    BY <1>1, <1>4, LenProperties
  <2>3. CASE n \notin kept
    <3>1. g[n] = old
      BY <1>2, <2>3 DEF Builds
    <3>2. kept \cap 1..n = K
      BY <2>2, <2>3
    <3>3. Len(old) <= n
      BY <2>2
    <3> HIDE DEF old, K
    <3> QED BY <2>1, <2>2, <3>1, <3>2, <3>3
  <2>4. CASE n \in kept
    <3> DEFINE m == Len(old)
               r == Append(old, s[n])
               k == [j \in 1..(m + 1) |-> IF j = m + 1 THEN n ELSE h[j]]
    <3>1. g[n] = r
      BY <1>2, <2>4 DEF Builds
    <3>14. kept \cap 1..n = K \cup {n}
      BY <2>2, <2>4
    <3>2. /\ r \in Seq(S) /\ Len(r) = m + 1 /\ DOMAIN r = 1..(m + 1)
          /\ r[m + 1] = s[n] /\ \A j \in 1..m : r[j] = old[j]
      BY <2>2, AppendProperties, LenProperties
    <3>3. /\ \A j \in 1..m : k[j] = h[j] /\ h[j] \in K /\ old[j] = s[h[j]]
          /\ k[m + 1] = n
      BY <2>1, <2>2 DEF Picks
    <3>4. m \in Nat
      BY <2>2
    <3>5. \A x \in K : x \in Nat /\ x < n
      BY <2>2
    <3>6. \A x \in K : \E j \in 1..m : h[j] = x
      BY <2>1, <2>2 DEF Picks
    <3>7. \A i, j \in 1..m : i < j => h[i] < h[j]
      BY <2>1, <2>2 DEF Picks
    <3>8. k \in [DOMAIN r -> K \cup {n}]
      <4>1. \A j \in 1..(m + 1) : j = m + 1 \/ j \in 1..m
        BY <3>4
      <4>2. k = [j \in 1..(m + 1) |-> k[j]]
        OBVIOUS
      <4>3. DOMAIN r = 1..(m + 1)
        BY <3>2
      <4> HIDE DEF k, r, m, K
      <4> QED BY <3>3, <4>1, <4>2, <4>3
    <3> HIDE DEF k, r, m, K
    <3>9. \A j \in DOMAIN r : r[j] = s[k[j]]
      BY <3>2, <3>3, <3>4
    <3>10. \A x \in K \cup {n} : \E j \in DOMAIN r : k[j] = x
      BY <3>2, <3>3, <3>4, <3>6
    <3>11. \A i, j \in DOMAIN r : i < j => k[i] < k[j]
      BY <3>2, <3>3, <3>4, <3>5, <3>7
    <3>12. Picks(k, r, s, K \cup {n})
      BY <3>8, <3>9, <3>10, <3>11 DEF Picks
    <3>13. Len(r) <= n
      BY <2>2, <3>2 DEF m
    <3> QED BY <3>1, <3>2, <3>12, <3>13, <3>14
  <2> QED BY <2>3, <2>4
<1> HIDE DEF claim
<1>5. ASSUME T # {} PROVE FALSE
  <2>1. PICK n \in T : \A m \in T : n <= m
    <3>1. T \in SUBSET Nat
      BY <1>1
    <3> HIDE DEF T
    <3> QED BY <1>5, <3>1, LeastNumber
  <2>2. n \in 0..Len(s) /\ ~claim(n)
    OBVIOUS
  <2>3. n \in 1..Len(s) /\ n - 1 \in 0..Len(s) /\ ~(n <= n - 1)
    BY <1>1, <1>3, <2>2
  <2>4. claim(n - 1)
    <3>1. n - 1 \notin T
      <4> HIDE DEF T
      <4> QED BY <2>1, <2>3
    <3> QED BY <2>3, <3>1
  <2> QED BY <1>4, <2>2, <2>3, <2>4
<1>6. claim(Len(s))
  BY <1>1, <1>5
<1> QED BY <1>1, <1>2, <1>6 DEF claim
----------------------------------------------------------------------------
(* Lists of messages in which none occurs twice *)

\* A message is a record with an identity.
Shaped(m) ==
  /\ m = [id |-> m.id, from |-> m.from, to |-> m.to, status |-> m.status,
          task |-> m.task, session |-> m.session]
  /\ m.id \in 1..MaxMsgs

\* A list of messages in which none occurs twice.
Distinct(s) ==
  /\ IsSeq(s)
  /\ \A i \in DOMAIN s : Shaped(s[i])
  /\ \A i, j \in DOMAIN s : s[i].id = s[j].id => i = j

\* A list is a sequence over what is in it, and the identities come from its places.
LEMMA ListIsSeq ==
  ASSUME NEW s, Distinct(s)
  PROVE  /\ s \in Seq({s[i] : i \in DOMAIN s})
         /\ Len(s) \in Nat /\ DOMAIN s = 1..Len(s)
         /\ \A i \in DOMAIN s : s[i].id \in Ids(s) /\ s[i].id \in 1..MaxMsgs
         /\ Ids(s) \subseteq 1..MaxMsgs
  BY LenProperties DEF Distinct, IsSeq, Ids, Shaped

\* Nothing is on an empty list.
LEMMA EmptyList == Distinct(<<>>) /\ Ids(<<>>) = {}
<1>1. DOMAIN <<>> = {}
  OBVIOUS
<1> QED BY <1>1, EmptyIsSeq DEF Distinct, Ids

\* A list that takes its places, one by one, from places of another has messages of it.
LEMMA TakenFrom ==
  ASSUME NEW s, Distinct(s), NEW S, NEW r \in Seq(S), NEW h,
         \A j \in DOMAIN r : h[j] \in DOMAIN s /\ r[j] = s[h[j]],
         \A j, k \in DOMAIN r : h[j] = h[k] => j = k
  PROVE  Distinct(r) /\ Ids(r) = {s[i].id : i \in {h[j] : j \in DOMAIN r}}
<1>1. IsSeq(r)
  BY SeqIsSeq
<1>2. \A j \in DOMAIN r : Shaped(r[j])
  BY DEF Distinct
<1>3. \A j, k \in DOMAIN r : r[j].id = r[k].id => j = k
  BY DEF Distinct
<1>4. Ids(r) = {s[i].id : i \in {h[j] : j \in DOMAIN r}}
  BY DEF Ids
<1> QED BY <1>1, <1>2, <1>3, <1>4 DEF Distinct

\* The first message of a list and the rest.
LEMMA FirstOfList ==
  ASSUME NEW s, Distinct(s), s # <<>>
  PROVE  /\ Shaped(Head(s)) /\ Head(s).id \notin Ids(Tail(s))
         /\ Distinct(Tail(s))
         /\ Ids(s) = {Head(s).id} \cup Ids(Tail(s))
<1> DEFINE S == {s[i] : i \in DOMAIN s}
           r == Tail(s)
           h == [j \in DOMAIN r |-> j + 1]
<1>1. s \in Seq(S) /\ DOMAIN s = 1..Len(s) /\ Len(s) \in Nat
  BY ListIsSeq
<1>2. /\ Head(s) = s[1] /\ 1 \in DOMAIN s
      /\ r \in Seq(S) /\ DOMAIN r = 1..(Len(s) - 1)
      /\ \A i \in DOMAIN r : r[i] = s[i + 1] /\ i + 1 \in DOMAIN s
  BY <1>1, HeadTailProperties, LenProperties, EmptySeq
<1>3. \A j \in DOMAIN r : h[j] = j + 1 /\ j \in Nat
  BY <1>2
<1> HIDE DEF h, r, S
<1>4. Distinct(r) /\ Ids(r) = {s[i].id : i \in {h[j] : j \in DOMAIN r}}
  <2>1. \A j \in DOMAIN r : h[j] \in DOMAIN s /\ r[j] = s[h[j]]
    BY <1>2, <1>3
  <2>2. \A j, k \in DOMAIN r : h[j] = h[k] => j = k
    BY <1>3
  <2>3. r \in Seq(S)
    BY <1>2
  <2> QED BY <2>1, <2>2, <2>3, TakenFrom
<1>5. {h[j] : j \in DOMAIN r} = DOMAIN s \ {1}
  <2>1. \A i \in DOMAIN s \ {1} : i - 1 \in DOMAIN r /\ h[i - 1] = i
    BY <1>1, <1>2, <1>3
  <2>2. \A j \in DOMAIN r : h[j] \in DOMAIN s \ {1}
    BY <1>2, <1>3
  <2> QED BY <2>1, <2>2
<1>6. Ids(s) = {Head(s).id} \cup Ids(r)
  BY <1>2, <1>4, <1>5 DEF Ids
<1>7. Shaped(Head(s)) /\ Head(s).id \notin Ids(r)
  BY <1>2, <1>4, <1>5 DEF Distinct
<1> QED BY <1>4, <1>6, <1>7 DEF r

\* Another message joins a list at its end.
LEMMA LastOfList ==
  ASSUME NEW s, Distinct(s), NEW m, Shaped(m), m.id \notin Ids(s)
  PROVE  Distinct(Append(s, m)) /\ Ids(Append(s, m)) = Ids(s) \cup {m.id}
<1> DEFINE S == {s[i] : i \in DOMAIN s} \cup {m}
           r == Append(s, m)
<1>1. s \in Seq(S)
  <2>1. s \in Seq({s[i] : i \in DOMAIN s})
    BY ListIsSeq
  <2> QED BY <2>1, SeqMonotonic
<1>2. /\ DOMAIN r = 1..(Len(s) + 1) /\ DOMAIN s = 1..Len(s) /\ Len(s) \in Nat
      /\ \A i \in 1..Len(s) : r[i] = s[i]
      /\ r[Len(s) + 1] = m
      /\ r \in Seq(S)
  BY <1>1, AppendProperties, LenProperties
<1> HIDE DEF r
<1>3. \A i \in DOMAIN r : i = Len(s) + 1 \/ i \in DOMAIN s
  BY <1>2
<1>4. IsSeq(r)
  BY <1>2, SeqIsSeq
<1>5. \A i \in DOMAIN s : s[i].id # m.id
  BY DEF Ids
<1>6. Distinct(r)
  BY <1>2, <1>3, <1>4, <1>5 DEF Distinct
<1>7. Ids(r) = Ids(s) \cup {m.id}
  <2>1. DOMAIN r = DOMAIN s \cup {Len(s) + 1}
    BY <1>2
  <2> QED BY <1>2, <2>1 DEF Ids
<1> QED BY <1>6, <1>7 DEF r

\* Two lists with different messages, one after the other.
LEMMA TwoLists ==
  ASSUME NEW s, Distinct(s), NEW u, Distinct(u), Ids(s) \cap Ids(u) = {}
  PROVE  /\ Distinct(s \o u) /\ Ids(s \o u) = Ids(s) \cup Ids(u)
         /\ Len(s \o u) = Len(s) + Len(u)
<1> DEFINE S == {s[i] : i \in DOMAIN s} \cup {u[i] : i \in DOMAIN u}
           r == s \o u
<1>1. s \in Seq(S) /\ u \in Seq(S)
  <2>1. s \in Seq({s[i] : i \in DOMAIN s}) /\ u \in Seq({u[i] : i \in DOMAIN u})
    BY ListIsSeq
  <2> QED BY <2>1, SeqMonotonic
<1>2. /\ r \in Seq(S) /\ DOMAIN r = 1..(Len(s) + Len(u)) /\ Len(r) = Len(s) + Len(u)
      /\ Len(s) \in Nat /\ Len(u) \in Nat /\ DOMAIN s = 1..Len(s) /\ DOMAIN u = 1..Len(u)
      /\ \A i \in 1..Len(s) : r[i] = s[i]
      /\ \A i \in 1..Len(u) : r[Len(s) + i] = u[i]
  BY <1>1, ConcatProperties, LenProperties
<1> HIDE DEF r
<1>3. \A i \in DOMAIN r : \/ i \in DOMAIN s /\ r[i] = s[i]
                          \/ i - Len(s) \in DOMAIN u /\ r[i] = u[i - Len(s)] /\ i \notin DOMAIN s
  <2> SUFFICES ASSUME NEW i \in DOMAIN r, i \notin DOMAIN s
               PROVE  i - Len(s) \in DOMAIN u /\ r[i] = u[i - Len(s)]
    BY <1>2
  <2>1. i - Len(s) \in 1..Len(u) /\ Len(s) + (i - Len(s)) = i
    BY <1>2
  <2> QED BY <1>2, <2>1
<1>4. IsSeq(r)
  BY <1>2, SeqIsSeq
<1>5. \A i \in DOMAIN s, j \in DOMAIN u : s[i].id # u[j].id
  BY DEF Ids
<1>6. \A i \in DOMAIN r : Shaped(r[i])
  BY <1>3 DEF Distinct
<1>7. ASSUME NEW i \in DOMAIN r, NEW j \in DOMAIN r, r[i].id = r[j].id PROVE i = j
  <2>1. CASE i \in DOMAIN s /\ j \in DOMAIN s
    BY <1>2, <1>7, <2>1 DEF Distinct
  <2>2. CASE i \notin DOMAIN s /\ j \notin DOMAIN s
    <3>1. i - Len(s) = j - Len(s)
      BY <1>3, <1>7, <2>2 DEF Distinct
    <3> QED BY <1>2, <3>1
  <2> QED BY <1>3, <1>5, <1>7, <2>1, <2>2
<1>8. Ids(r) = Ids(s) \cup Ids(u)
  <2>1. \A i \in DOMAIN s : i \in DOMAIN r /\ r[i] = s[i]
    BY <1>2
  <2>2. \A i \in DOMAIN u : Len(s) + i \in DOMAIN r /\ r[Len(s) + i] = u[i]
    BY <1>2
  <2>3. Ids(r) \subseteq Ids(s) \cup Ids(u)
    BY <1>3 DEF Ids
  <2>4. Ids(s) \subseteq Ids(r)
    BY <2>1 DEF Ids
  <2>5. Ids(u) \subseteq Ids(r)
    BY <2>2 DEF Ids
  <2> QED BY <2>3, <2>4, <2>5
<1> QED BY <1>2, <1>4, <1>6, <1>7, <1>8 DEF Distinct, r

\* A list cut in two.
LEMMA CutList ==
  ASSUME NEW s, Distinct(s), NEW n \in 0..Len(s)
  PROVE  LET a == SubSeq(s, 1, n)
             b == SubSeq(s, n + 1, Len(s))
         IN  /\ Distinct(a) /\ Distinct(b) /\ Len(b) = Len(s) - n
             /\ Ids(a) \cap Ids(b) = {} /\ Ids(a) \cup Ids(b) = Ids(s)
<1> DEFINE S == {s[i] : i \in DOMAIN s}
           a == SubSeq(s, 1, n)
           b == SubSeq(s, n + 1, Len(s))
           h == [j \in DOMAIN a |-> j]
           k == [j \in DOMAIN b |-> n + j]
<1>1. s \in Seq(S) /\ DOMAIN s = 1..Len(s) /\ Len(s) \in Nat
  BY ListIsSeq
<1>2. n \in Nat /\ n <= Len(s)
  BY <1>1
<1> HIDE DEF S
<1>3. a \in Seq(S) /\ DOMAIN a = 1..n /\ \A i \in 1..n : a[i] = s[i]
  <2>1. \A i \in 1..n : s[i] \in S
    BY <1>1, <1>2, ElementOfSeq
  <2>2. a = [i \in 1..n |-> s[i]]
    BY <1>1, <1>2
  <2> HIDE DEF a
  <2> QED BY <1>2, <2>1, <2>2, IsASeq
<1>4. /\ b \in Seq(S) /\ DOMAIN b = 1..(Len(s) - n) /\ Len(b) = Len(s) - n
      /\ \A i \in 1..(Len(s) - n) : b[i] = s[n + i]
  <2>1. \A i \in 1..(Len(s) - n) : s[n + i] \in S
    BY <1>1, <1>2, ElementOfSeq
  <2>2. n + 1 \in Int /\ Len(s) \in Int /\ \A i \in (n + 1)..Len(s) : s[i] \in S
    BY <1>1, <1>2, ElementOfSeq
  <2>3. /\ b \in Seq(S)
        /\ Len(b) = IF n + 1 <= Len(s) THEN Len(s) - (n + 1) + 1 ELSE 0
        /\ \A i \in 1..(Len(s) - (n + 1) + 1) : b[i] = s[n + 1 + i - 1]
    BY <2>2, SubSeqProperties
  <2> HIDE DEF b
  <2>4. Len(b) = Len(s) - n /\ DOMAIN b = 1..Len(b)
    BY <1>1, <1>2, <2>3, LenProperties
  <2>5. ASSUME NEW i \in 1..(Len(s) - n) PROVE b[i] = s[n + i]
    <3>1. n + 1 + i - 1 = n + i /\ i \in 1..(Len(s) - (n + 1) + 1)
      BY <1>1, <1>2
    <3> QED BY <2>3, <3>1
  <2> QED BY <2>3, <2>4, <2>5
<1>5. \A j \in DOMAIN a : h[j] = j /\ h[j] \in DOMAIN s /\ a[j] = s[h[j]]
  BY <1>1, <1>2, <1>3
<1>6. ASSUME NEW j \in DOMAIN b
      PROVE  k[j] = n + j /\ k[j] \in DOMAIN s /\ b[j] = s[k[j]] /\ j \in Nat
  <2>1. k[j] = n + j
    OBVIOUS
  <2> HIDE DEF b, k
  <2> QED BY <1>1, <1>2, <1>4, <2>1
<1> HIDE DEF a, b, h, k
<1>7. Distinct(a) /\ Ids(a) = {s[i].id : i \in {h[j] : j \in DOMAIN a}}
  <2>1. \A i, j \in DOMAIN a : h[i] = h[j] => i = j
    BY <1>5
  <2>2. a \in Seq(S)
    BY <1>3
  <2> QED BY <1>5, <2>1, <2>2, TakenFrom
<1>8. Distinct(b) /\ Ids(b) = {s[i].id : i \in {k[j] : j \in DOMAIN b}}
  <2>1. \A i, j \in DOMAIN b : k[i] = k[j] => i = j
    BY <1>2, <1>6
  <2>2. b \in Seq(S)
    BY <1>4
  <2>3. \A j \in DOMAIN b : k[j] \in DOMAIN s /\ b[j] = s[k[j]]
    BY <1>6
  <2> QED BY <2>1, <2>2, <2>3, TakenFrom
<1>9. {h[j] : j \in DOMAIN a} = 1..n
  BY <1>3, <1>5
<1>10. {k[j] : j \in DOMAIN b} = (n + 1)..Len(s)
  <2>1. ASSUME NEW i \in (n + 1)..Len(s) PROVE i - n \in DOMAIN b /\ k[i - n] = i
    <3>1. i - n \in 1..(Len(s) - n) /\ n + (i - n) = i
      BY <1>1, <1>2
    <3> QED BY <1>4, <1>6, <3>1
  <2>2. \A j \in DOMAIN b : k[j] \in (n + 1)..Len(s)
    BY <1>1, <1>2, <1>4, <1>6
  <2> QED BY <2>1, <2>2
<1>11. DOMAIN s = (1..n) \cup ((n + 1)..Len(s)) /\ (1..n) \cap ((n + 1)..Len(s)) = {}
  BY <1>1, <1>2
<1>12. Ids(a) \cup Ids(b) = Ids(s)
  BY <1>7, <1>8, <1>9, <1>10, <1>11 DEF Ids
<1>13. Ids(a) \cap Ids(b) = {}
  BY <1>7, <1>8, <1>9, <1>10, <1>11 DEF Distinct
<1> QED BY <1>4, <1>7, <1>8, <1>12, <1>13 DEF a, b

\* A list sorted into what is kept and what is not.
LEMMA SplitList ==
  ASSUME NEW s, Distinct(s), NEW kept \in SUBSET DOMAIN s
  PROVE  LET a == Select(s, kept)
             b == Select(s, DOMAIN s \ kept)
         IN  /\ Distinct(a) /\ Distinct(b) /\ Len(b) <= Len(s) /\ Len(a) <= Len(s)
             /\ Ids(a) \cap Ids(b) = {} /\ Ids(a) \cup Ids(b) = Ids(s)
<1> DEFINE S == {s[i] : i \in DOMAIN s}
<1>1. s \in Seq(S) /\ DOMAIN s = 1..Len(s) /\ Len(s) \in Nat
  BY ListIsSeq
<1>2. ASSUME NEW keep \in SUBSET DOMAIN s
      PROVE  /\ Distinct(Select(s, keep)) /\ Len(Select(s, keep)) <= Len(s)
             /\ Ids(Select(s, keep)) = {s[i].id : i \in keep}
  <2> DEFINE r == Select(s, keep)
  <2>1. r \in Seq(S) /\ Len(r) <= Len(s) /\ \E h : Picks(h, r, s, keep \cap DOMAIN s)
    BY <1>1, SelectionPicks
  <2>2. keep \cap DOMAIN s = keep
    OBVIOUS
  <2>3. PICK h : Picks(h, r, s, keep)
    BY <2>1, <2>2
  <2> HIDE DEF r
  <2>4. DOMAIN r \subseteq Nat
    BY <2>1, LenProperties
  <2>5. \A j \in DOMAIN r : h[j] \in keep /\ r[j] = s[h[j]]
    BY <2>3 DEF Picks
  <2>6. \A j, k \in DOMAIN r : h[j] = h[k] => j = k
    <3> SUFFICES ASSUME NEW j \in DOMAIN r, NEW k \in DOMAIN r, j < k PROVE h[j] # h[k]
      BY <2>4
    <3>1. h[j] < h[k] /\ h[j] \in Nat /\ h[k] \in Nat
      BY <1>1, <2>3, <2>5 DEF Picks
    <3> QED BY <3>1
  <2>7. {h[j] : j \in DOMAIN r} = keep
    <3>1. \A x \in keep : \E j \in DOMAIN r : h[j] = x
      BY <2>3 DEF Picks
    <3> QED BY <2>5, <3>1
  <2>8. Distinct(r) /\ Ids(r) = {s[i].id : i \in {h[j] : j \in DOMAIN r}}
    BY <2>1, <2>5, <2>6, TakenFrom
  <2> QED BY <2>1, <2>7, <2>8 DEF r
<1>3. /\ Distinct(Select(s, kept)) /\ Len(Select(s, kept)) <= Len(s)
      /\ Ids(Select(s, kept)) = {s[i].id : i \in kept}
  BY <1>2
<1>4. /\ Distinct(Select(s, DOMAIN s \ kept)) /\ Len(Select(s, DOMAIN s \ kept)) <= Len(s)
      /\ Ids(Select(s, DOMAIN s \ kept)) = {s[i].id : i \in DOMAIN s \ kept}
  BY <1>2
<1>5. {s[i].id : i \in kept} \cap {s[i].id : i \in DOMAIN s \ kept} = {}
  BY DEF Distinct
<1>6. {s[i].id : i \in kept} \cup {s[i].id : i \in DOMAIN s \ kept} = Ids(s)
  BY DEF Ids
<1> QED BY <1>3, <1>4, <1>5, <1>6

\* Renaming the receiver leaves a list of the same messages.
LEMMA MigratedList ==
  ASSUME Distinct(buffered), NEW old, NEW new
  PROVE  /\ Distinct(Migrated(old, new)) /\ Ids(Migrated(old, new)) = Ids(buffered)
         /\ Len(Migrated(old, new)) = Len(buffered)
<1> DEFINE r == Migrated(old, new)
           S == {r[i] : i \in DOMAIN r}
<1>1. DOMAIN buffered = 1..Len(buffered) /\ Len(buffered) \in Nat
  BY ListIsSeq
<1>2. DOMAIN r = DOMAIN buffered /\ r = [i \in DOMAIN buffered |-> r[i]]
  BY DEF Migrated
<1>3. ASSUME NEW i \in DOMAIN buffered PROVE Shaped(r[i]) /\ r[i].id = buffered[i].id
  <2> DEFINE m == buffered[i]
  <2>1. Shaped(m)
    BY DEF Distinct
  <2>2. r[i] = m \/ r[i] = [m EXCEPT !.to = new]
    BY DEF Migrated
  <2>3. [m EXCEPT !.to = new] = [id |-> m.id, from |-> m.from, to |-> new, status |-> m.status,
                                 task |-> m.task, session |-> m.session]
    <3>1. m = [id |-> m.id, from |-> m.from, to |-> m.to, status |-> m.status,
               task |-> m.task, session |-> m.session]
      BY <2>1 DEF Shaped
    <3> HIDE DEF m
    <3> QED BY <3>1
  <2> HIDE DEF m, r
  <2>4. Shaped(r[i]) /\ r[i].id = m.id
    BY <2>1, <2>2, <2>3 DEF Shaped
  <2> QED BY <2>4 DEF m
<1> HIDE DEF r
<1>4. r \in Seq(S) /\ Len(r) = Len(buffered)
  <2>1. r \in [1..Len(buffered) -> S]
    BY <1>1, <1>2
  <2>2. r \in Seq(S)
    BY <1>1, <2>1, IsASeq
  <2> HIDE DEF S
  <2> QED BY <1>1, <1>2, <2>2, LenProperties
<1>5. IsSeq(r)
  <2> HIDE DEF S
  <2> QED BY <1>4, SeqIsSeq
<1>6. Distinct(r)
  BY <1>2, <1>3, <1>5 DEF Distinct
<1>7. Ids(r) = Ids(buffered)
  BY <1>2, <1>3 DEF Ids
<1> QED BY <1>4, <1>6, <1>7 DEF r

\* What overflows is no more than there is, and what is left fits (state_delivery.rs 78-84).
LEMMA OverflowFits ==
  ASSUME NEW n \in Nat
  PROVE  Overflow(n) \in 0..n /\ n - Overflow(n) <= BufferMax
<1> DEFINE M == BufferMax
           d == BufferDrain
           q == (n - M + d - 1) \div d
<1>1. M \in Nat /\ d \in Nat /\ 1 <= d /\ d <= M
  BY RoutingAssumption
<1>2. CASE n <= M
  <2>1. Overflow(n) = 0
    BY <1>1, <1>2 DEF Overflow
  <2> QED BY <1>1, <1>2, <2>1
<1>3. CASE n > M
  <2>1. Overflow(n) = d * q
    BY <1>3 DEF Overflow
  <2> HIDE DEF M, d
  <2>2. n - M + d - 1 \in Nat
    BY <1>1, <1>3
  <2>3. q \in Nat /\ d * q <= n - M + d - 1 /\ n - M + d - 1 < d * q + d
    BY <1>1, <2>2
  <2> HIDE DEF q
  <2>4. d * q \in Nat
    BY <1>1, <2>3
  <2>5. d * q <= n /\ n - d * q <= M
    BY <1>1, <2>3, <2>4
  <2> QED BY <2>1, <2>4, <2>5 DEF M
<1> QED BY <1>1, <1>2, <1>3

\* Buffering a list keeps each message of it, or lets it overflow.
LEMMA Buffering ==
  ASSUME Distinct(buffered), NEW list, Distinct(list), Ids(buffered) \cap Ids(list) = {},
         BufferAll(list)
  PROVE  \E out : /\ Settle(out, "overflow")
                  /\ out \subseteq Ids(buffered) \cup Ids(list)
                  /\ Distinct(buffered') /\ Len(buffered') <= BufferMax
                  /\ Ids(buffered') = (Ids(buffered) \cup Ids(list)) \ out
<1> DEFINE all == buffered \o list
           cut == Overflow(Len(all))
           out == Ids(SubSeq(all, 1, cut))
<1>1. Distinct(all) /\ Ids(all) = Ids(buffered) \cup Ids(list)
  BY TwoLists
<1>2. buffered' = SubSeq(all, cut + 1, Len(all)) /\ Settle(out, "overflow")
  BY DEF BufferAll
<1> HIDE DEF all
<1>3. Len(all) \in Nat
  BY <1>1, ListIsSeq
<1>4. cut \in 0..Len(all) /\ Len(all) - cut <= BufferMax
  BY <1>3, OverflowFits
<1> HIDE DEF cut
<1>5. /\ Distinct(SubSeq(all, cut + 1, Len(all)))
      /\ Len(SubSeq(all, cut + 1, Len(all))) = Len(all) - cut
      /\ out \cap Ids(SubSeq(all, cut + 1, Len(all))) = {}
      /\ out \cup Ids(SubSeq(all, cut + 1, Len(all))) = Ids(all)
  BY <1>1, <1>4, CutList
<1> HIDE DEF out
<1>6. Ids(buffered') = Ids(all) \ out /\ out \subseteq Ids(all)
  BY <1>2, <1>5
<1> QED BY <1>1, <1>2, <1>4, <1>5, <1>6

----------------------------------------------------------------------------
(* Where messages are *)

Carrying == {"stamp", "prepare", "choose", "send"}

\* What a thread has in hand and on its list.
Keeps(th) == (IF th.pc \in Carrying THEN {th.msg.id} ELSE {}) \cup Ids(th.todo)

\* A thread's messages are all different; one that is not routing has none.
ThreadOK(th) ==
  /\ Distinct(th.todo)
  /\ th.pc \in Carrying => Shaped(th.msg) /\ th.msg.id \notin Ids(th.todo)
  /\ th.pc \notin Carrying \cup {"observe", "replay"} => th.todo = <<>>

\* The places a message can be in, and what is in each.
Places == {<<"buffer", None>>} \cup {<<"gate", t>> : t \in Tasks}
            \cup {<<"thread", x>> : x \in Threads}
Where ==
  [p \in Places |-> CASE p[1] = "buffer" -> Ids(buffered)
                      [] p[1] = "gate"   -> Ids(blocked[p[2]])
                      [] p[1] = "thread" -> Keeps(thread[p[2]])]

Apart(P, w) == \A p, q \in P : p # q => w[p] \cap w[q] = {}

PlaceInv ==
  /\ issued \in 0..MaxMsgs
  /\ \A i \in 1..MaxMsgs : fate[i] = "none" <=> i > issued
  /\ Distinct(buffered) /\ BufferBounded
  /\ \A t \in Tasks : Distinct(blocked[t])
  /\ \A x \in Threads : ThreadOK(thread[x])
  /\ \A c \in Conns : link[c] = "new" => thread[c] = Idle
  /\ Apart(Places, Where)
  /\ \A i \in 1..MaxMsgs : fate[i] = "live" <=> \E p \in Places : i \in Where[p]

\* Each place holds what its list or its thread holds.
LEMMA InPlaces ==
  /\ Where[<<"buffer", None>>] = Ids(buffered)
  /\ \A t \in Tasks : Where[<<"gate", t>>] = Ids(blocked[t])
  /\ \A x \in Threads : Where[<<"thread", x>>] = Keeps(thread[x])
<1>1. <<"buffer", None>> \in Places /\ Where[<<"buffer", None>>] = Ids(buffered)
  BY DEF Where, Places
<1>2. \A t \in Tasks : Where[<<"gate", t>>] = Ids(blocked[t])
  BY DEF Where, Places
<1>3. \A x \in Threads : Where[<<"thread", x>>] = Keeps(thread[x])
  BY DEF Where, Places
<1> QED BY <1>1, <1>2, <1>3

\* The places are there, and all different.
LEMMA PlacesDiffer ==
  /\ <<"buffer", None>> \in Places
  /\ \A t \in Tasks : <<"gate", t>> \in Places /\ <<"gate", t>> # <<"buffer", None>>
  /\ \A x \in Threads : <<"thread", x>> \in Places /\ <<"thread", x>> # <<"buffer", None>>
  /\ \A t \in Tasks, x \in Threads : <<"gate", t>> # <<"thread", x>>
  /\ \A p \in Places : \/ p = <<"buffer", None>>
                       \/ \E t \in Tasks : p = <<"gate", t>>
                       \/ \E x \in Threads : p = <<"thread", x>>
  BY DEF Places

\* Between w and v two places exchange what they hold, give some of it away and get
\* something new; no other place changes.
Exchanges(P, w, v, a, b, out, new) ==
  /\ a \in P /\ b \in P
  /\ \A p \in P : p # a /\ p # b => v[p] = w[p]
  /\ v[a] \cup v[b] = ((w[a] \cup w[b]) \ out) \cup new
  /\ a # b => v[a] \cap v[b] = {}
  /\ out \subseteq w[a] \cup w[b]
  /\ \A p \in P : w[p] \cap new = {}

\* What two places exchange, give away or get anew leaves all places apart.
LEMMA Exchange ==
  ASSUME NEW P, NEW w, NEW v, Apart(P, w), NEW a, NEW b, NEW out, NEW new,
         Exchanges(P, w, v, a, b, out, new)
  PROVE  /\ Apart(P, v)
         /\ \A i : (\E p \in P : i \in v[p]) <=>
                     (i \in new \/ (i \notin out /\ \E p \in P : i \in w[p]))
<1> USE DEF Exchanges
<1>1. \A p \in P : p \in {a, b} \/ (p # a /\ p # b /\ v[p] = w[p])
  OBVIOUS
<1>2. ASSUME NEW p \in P, p # a, p # b PROVE v[p] \cap (v[a] \cup v[b]) = {}
  BY <1>2 DEF Apart
<1>3. Apart(P, v)
  <2> SUFFICES ASSUME NEW p \in P, NEW q \in P, p # q PROVE v[p] \cap v[q] = {}
    BY DEF Apart
  <2>1. CASE p \in {a, b} /\ q \in {a, b}
    BY <2>1
  <2>2. CASE p \in {a, b} /\ q \notin {a, b}
    BY <1>2, <2>2
  <2>3. CASE p \notin {a, b} /\ q \in {a, b}
    BY <1>2, <2>3
  <2>4. CASE p \notin {a, b} /\ q \notin {a, b}
    BY <1>1, <2>4 DEF Apart
  <2> QED BY <2>1, <2>2, <2>3, <2>4
<1>4. ASSUME NEW i, NEW p \in P, i \in v[p]
      PROVE  i \in new \/ (i \notin out /\ \E q \in P : i \in w[q])
  <2>1. CASE p \in {a, b}
    BY <1>4, <2>1
  <2>2. CASE p \notin {a, b}
    <3>1. i \in w[p] /\ i \notin w[a] /\ i \notin w[b]
      BY <1>4, <2>2 DEF Apart
    <3> QED BY <3>1
  <2> QED BY <2>1, <2>2
<1>5. ASSUME NEW i, i \in new PROVE \E p \in P : i \in v[p]
  BY <1>5
<1>6. ASSUME NEW i, i \notin out, NEW p \in P, i \in w[p] PROVE \E q \in P : i \in v[q]
  <2>1. CASE p \in {a, b}
    <3>1. i \in v[a] \cup v[b]
      BY <1>6, <2>1
    <3> QED BY <3>1
  <2>2. CASE p \notin {a, b}
    BY <1>6, <2>2
  <2> QED BY <2>1, <2>2
<1> QED BY <1>3, <1>4, <1>5, <1>6

----------------------------------------------------------------------------
(* What becomes of messages in one step *)

\* The messages in out have settled, those in new are issued, the others stay as they are.
Ledger(out, new) ==
  /\ issued' \in issued..MaxMsgs /\ new = (issued + 1)..issued'
  /\ \A i \in 1..MaxMsgs :
       /\ i \in new => fate'[i] = "live"
       /\ i \in out \ new => fate'[i] \notin {"none", "live"}
       /\ i \notin out \cup new => fate'[i] = fate[i]

\* A fate is open before it is settled, and once settled is settled for good.
Final ==
  \A i \in 1..MaxMsgs :
    /\ fate[i] = "none" => fate'[i] \in {"none", "live"}
    /\ fate[i] = "live" => fate'[i] # "none"
    /\ fate[i] \notin {"none", "live"} => fate'[i] = fate[i]

\* Nothing settles.
LEMMA LedgerSame ==
  ASSUME issued \in 0..MaxMsgs, UNCHANGED <<fate, issued>>
  PROVE  Ledger({}, {})
<1>1. issued' = issued /\ fate' = fate /\ issued \in Nat /\ MaxMsgs \in Nat
  BY RoutingAssumption
<1>2. issued \in issued..MaxMsgs /\ (issued + 1)..issued = {}
  BY <1>1
<1> QED BY <1>1, <1>2 DEF Ledger

\* Some messages settle.
LEMMA LedgerSettles ==
  ASSUME issued \in 0..MaxMsgs, NEW out, NEW what, what \notin {"none", "live"},
         Settle(out, what), UNCHANGED issued
  PROVE  Ledger(out, {})
<1>1. issued' = issued /\ issued \in Nat /\ MaxMsgs \in Nat
  BY RoutingAssumption
<1>2. issued \in issued..MaxMsgs /\ (issued + 1)..issued = {}
  BY <1>1
<1>3. \A i \in 1..MaxMsgs : fate'[i] = IF i \in out THEN what ELSE fate[i]
  BY DEF Settle
<1> QED BY <1>1, <1>2, <1>3 DEF Ledger

\* Some messages are issued.
LEMMA LedgerIssues ==
  ASSUME issued \in 0..MaxMsgs, NEW n \in Nat, Issue(n)
  PROVE  Ledger({}, (issued + 1)..(issued + n))
<1>1. issued' = issued + n /\ issued + n <= MaxMsgs /\ issued \in Nat /\ MaxMsgs \in Nat
  BY RoutingAssumption DEF Issue
<1>2. issued' \in issued..MaxMsgs
  BY <1>1
<1>3. \A i \in 1..MaxMsgs :
        fate'[i] = IF i \in (issued + 1)..(issued + n) THEN "live" ELSE fate[i]
  BY DEF Issue, Settle
<1> QED BY <1>1, <1>2, <1>3 DEF Ledger

\* Two places exchange messages, give some away for good or get new ones: the rest of
\* the invariant follows when the lists that changed are still in order.
LEMMA Placed ==
  ASSUME PlaceInv, NEW a \in Places, NEW b \in Places, NEW out, NEW new, Ledger(out, new),
         \A p \in Places : p # a /\ p # b => Where'[p] = Where[p],
         Where'[a] \cup Where'[b] = ((Where[a] \cup Where[b]) \ out) \cup new,
         a # b => Where'[a] \cap Where'[b] = {},
         out \subseteq Where[a] \cup Where[b],
         Distinct(buffered'), Len(buffered') <= BufferMax,
         \A t \in Tasks : Distinct(blocked'[t]),
         \A x \in Threads : ThreadOK(thread'[x]),
         \A c \in Conns : link'[c] = "new" => thread'[c] = Idle
  PROVE  PlaceInv' /\ Final
<1>1. issued \in Nat /\ MaxMsgs \in Nat /\ issued <= MaxMsgs
  BY RoutingAssumption DEF PlaceInv
<1>2. \A p \in Places : Where[p] \subseteq 1..MaxMsgs
  <2>1. Ids(buffered) \subseteq 1..MaxMsgs
    BY ListIsSeq DEF PlaceInv
  <2>2. \A t \in Tasks : Ids(blocked[t]) \subseteq 1..MaxMsgs
    BY ListIsSeq DEF PlaceInv
  <2>3. \A x \in Threads : Keeps(thread[x]) \subseteq 1..MaxMsgs
    <3> SUFFICES ASSUME NEW x \in Threads PROVE Keeps(thread[x]) \subseteq 1..MaxMsgs
      OBVIOUS
    <3>1. ThreadOK(thread[x])
      BY DEF PlaceInv
    <3>2. Ids(thread[x].todo) \subseteq 1..MaxMsgs
      BY <3>1, ListIsSeq DEF ThreadOK
    <3>3. thread[x].pc \in Carrying => thread[x].msg.id \in 1..MaxMsgs
      BY <3>1 DEF ThreadOK, Shaped
    <3> QED BY <3>2, <3>3 DEF Keeps
  <2> QED BY <2>1, <2>2, <2>3, InPlaces, PlacesDiffer
<1>3. \A p \in Places : \A i \in Where[p] : i \in 1..MaxMsgs /\ fate[i] = "live"
  BY <1>2 DEF PlaceInv
<1>4. \A i \in new : i \in 1..MaxMsgs /\ fate[i] = "none"
  BY <1>1 DEF Ledger, PlaceInv
<1>5. \A p \in Places : Where[p] \cap new = {}
  BY <1>3, <1>4
<1>6. Apart(Places, Where)
  BY DEF PlaceInv
<1> DEFINE w == Where
           v == Where'
<1>7. /\ Apart(Places, v)
      /\ \A i : (\E p \in Places : i \in v[p]) <=>
                  (i \in new \/ (i \notin out /\ \E p \in Places : i \in w[p]))
  <2>1. Exchanges(Places, w, v, a, b, out, new)
    BY <1>5 DEF Exchanges
  <2> HIDE DEF w, v
  <2> QED BY <1>6, <2>1, Exchange DEF w
<1>8. \A i \in out : i \in 1..MaxMsgs /\ fate[i] = "live" /\ i \notin new
  BY <1>3, <1>4
<1>9. \A i \in 1..MaxMsgs : fate'[i] = "live" <=> \E p \in Places : i \in v[p]
  <2>1. \A i \in 1..MaxMsgs : fate[i] = "live" <=> \E p \in Places : i \in w[p]
    BY DEF PlaceInv
  <2> HIDE DEF w, v
  <2> QED BY <1>7, <1>8, <2>1 DEF Ledger
<1>10. \A i \in 1..MaxMsgs : fate'[i] = "none" <=> i > issued'
  <2>1. \A i \in 1..MaxMsgs : fate[i] = "none" <=> i > issued
    BY DEF PlaceInv
  <2>2. issued' \in Nat /\ issued <= issued' /\ issued' <= MaxMsgs
    BY <1>1 DEF Ledger
  <2>3. ASSUME NEW i \in 1..MaxMsgs, i \in new PROVE fate'[i] # "none" /\ ~(i > issued')
    BY <1>1, <2>2, <2>3 DEF Ledger
  <2>4. ASSUME NEW i \in 1..MaxMsgs, i \in out \ new PROVE fate'[i] # "none" /\ ~(i > issued')
    BY <1>1, <1>8, <2>1, <2>2, <2>4 DEF Ledger
  <2>5. ASSUME NEW i \in 1..MaxMsgs, i \notin out \cup new
        PROVE  fate'[i] = "none" <=> i > issued'
    <3>1. fate'[i] = fate[i] /\ ~(i > issued /\ i <= issued')
      BY <1>1, <2>2, <2>5 DEF Ledger
    <3> QED BY <1>1, <2>1, <2>2, <3>1
  <2> QED BY <2>3, <2>4, <2>5
<1>11. Final
  BY <1>4, <1>8 DEF Final, Ledger
<1>12. issued' \in 0..MaxMsgs
  BY <1>1 DEF Ledger
<1> QED BY <1>7, <1>9, <1>10, <1>11, <1>12 DEF PlaceInv, BufferBounded

\* The places primed.
LEMMA InPlacesNext ==
  /\ Where'[<<"buffer", None>>] = Ids(buffered')
  /\ \A t \in Tasks : Where'[<<"gate", t>>] = Ids(blocked'[t])
  /\ \A x \in Threads : Where'[<<"thread", x>>] = Keeps(thread'[x])
<1> DEFINE P == /\ Where[<<"buffer", None>>] = Ids(buffered)
                /\ \A t \in Tasks : Where[<<"gate", t>>] = Ids(blocked[t])
                /\ \A x \in Threads : Where[<<"thread", x>>] = Keeps(thread[x])
<1>1. P
  BY InPlaces
<1> HIDE DEF P
<1>2. P'
  BY <1>1, PTL
<1> QED BY <1>2 DEF P

\* One thread takes a step: the others stay as they are, and so do the connections
\* that nobody has used.
LEMMA OneSteps ==
  ASSUME TypeOK, PlaceInv, [Next]_vars, NEW x \in Threads, NEW th, Become(x, th), ThreadOK(th),
         x = Daemon \/ link[x] # "new" \/ link'[x] # "new" \/ th = Idle
  PROVE  /\ thread'[x] = th
         /\ \A y \in Threads : y # x => thread'[y] = thread[y]
         /\ \A y \in Threads : ThreadOK(thread'[y])
         /\ \A c \in Conns : link'[c] = "new" => thread'[c] = Idle
<1>1. thread' = [thread EXCEPT ![x] = th] /\ DOMAIN thread = Threads
  BY DEF Become, TypeOK, LaunchTypeOK
<1>2. thread'[x] = th /\ \A y \in Threads : y # x => thread'[y] = thread[y]
  BY <1>1
<1>3. \A y \in Threads : ThreadOK(thread'[y])
  BY <1>2 DEF PlaceInv
<1>4. ASSUME NEW c \in Conns, link'[c] = "new" PROVE thread'[c] = Idle
  <2>1. c \in Threads /\ c # Daemon
    BY RoutingAssumption DEF Threads
  <2>2. link[c] = "new"
    BY <1>4, UsedStaysUsed
  <2> QED BY <1>2, <1>4, <2>1, <2>2 DEF PlaceInv
<1> QED BY <1>2, <1>3, <1>4

\* One thread takes a step and leaves the buffer and the gates alone.
LEMMA ThreadMoves ==
  ASSUME TypeOK, PlaceInv, [Next]_vars, NEW x \in Threads, NEW th, Become(x, th), ThreadOK(th),
         x = Daemon \/ link[x] # "new" \/ link'[x] # "new" \/ th = Idle,
         UNCHANGED <<buffered, blocked>>, NEW out, NEW new, Ledger(out, new),
         out \subseteq Keeps(thread[x]), Keeps(th) = (Keeps(thread[x]) \ out) \cup new
  PROVE  PlaceInv' /\ Final
<1> DEFINE a == <<"thread", x>>
<1>1. /\ thread'[x] = th
      /\ \A y \in Threads : y # x => thread'[y] = thread[y]
      /\ \A y \in Threads : ThreadOK(thread'[y])
      /\ \A c \in Conns : link'[c] = "new" => thread'[c] = Idle
  BY OneSteps
<1>2. a \in Places /\ Where[a] = Keeps(thread[x]) /\ Where'[a] = Keeps(th)
  BY <1>1, InPlaces, InPlacesNext, PlacesDiffer
<1>3. ASSUME NEW p \in Places, p # a PROVE Where'[p] = Where[p]
  <2>1. CASE p = <<"buffer", None>>
    BY <2>1, InPlaces, InPlacesNext
  <2>2. ASSUME NEW t \in Tasks, p = <<"gate", t>> PROVE Where'[p] = Where[p]
    BY <2>2, InPlaces, InPlacesNext
  <2>3. ASSUME NEW y \in Threads, p = <<"thread", y>> PROVE Where'[p] = Where[p]
    BY <1>1, <1>3, <2>3, InPlaces, InPlacesNext
  <2> QED BY <2>1, <2>2, <2>3, PlacesDiffer
<1>4. /\ Distinct(buffered') /\ Len(buffered') <= BufferMax
      /\ \A t \in Tasks : Distinct(blocked'[t])
  BY DEF PlaceInv, BufferBounded
<1> HIDE DEF a
<1> QED BY <1>1, <1>2, <1>3, <1>4, Placed

\* One thread and the gate of a task exchange messages.
LEMMA GateMoves ==
  ASSUME TypeOK, PlaceInv, [Next]_vars, NEW x \in Threads, NEW th, Become(x, th), ThreadOK(th),
         x = Daemon \/ link[x] # "new" \/ link'[x] # "new" \/ th = Idle,
         UNCHANGED buffered, NEW t \in Tasks, NEW list, Distinct(list),
         blocked' = [blocked EXCEPT ![t] = list],
         NEW out, Ledger(out, {}), out \subseteq Keeps(thread[x]) \cup Ids(blocked[t]),
         Keeps(th) \cup Ids(list) = (Keeps(thread[x]) \cup Ids(blocked[t])) \ out,
         Keeps(th) \cap Ids(list) = {}
  PROVE  PlaceInv' /\ Final
<1> DEFINE a == <<"thread", x>>
           b == <<"gate", t>>
<1>1. /\ thread'[x] = th
      /\ \A y \in Threads : y # x => thread'[y] = thread[y]
      /\ \A y \in Threads : ThreadOK(thread'[y])
      /\ \A c \in Conns : link'[c] = "new" => thread'[c] = Idle
  BY OneSteps
<1>2. DOMAIN blocked = Tasks
  BY DEF TypeOK, GraphTypeOK
<1>3. blocked'[t] = list /\ \A u \in Tasks : u # t => blocked'[u] = blocked[u]
  BY <1>2
<1>4. /\ a \in Places /\ Where[a] = Keeps(thread[x]) /\ Where'[a] = Keeps(th)
      /\ b \in Places /\ Where[b] = Ids(blocked[t]) /\ Where'[b] = Ids(list)
  BY <1>1, <1>3, InPlaces, InPlacesNext, PlacesDiffer
<1>5. ASSUME NEW p \in Places, p # a, p # b PROVE Where'[p] = Where[p]
  <2>1. CASE p = <<"buffer", None>>
    BY <2>1, InPlaces, InPlacesNext
  <2>2. ASSUME NEW u \in Tasks, p = <<"gate", u>> PROVE Where'[p] = Where[p]
    BY <1>3, <1>5, <2>2, InPlaces, InPlacesNext
  <2>3. ASSUME NEW y \in Threads, p = <<"thread", y>> PROVE Where'[p] = Where[p]
    BY <1>1, <1>5, <2>3, InPlaces, InPlacesNext
  <2> QED BY <2>1, <2>2, <2>3, PlacesDiffer
<1>6. /\ Distinct(buffered') /\ Len(buffered') <= BufferMax
      /\ \A u \in Tasks : Distinct(blocked'[u])
  BY <1>3 DEF PlaceInv, BufferBounded
<1> HIDE DEF a, b
<1>7. Where'[a] \cup Where'[b] = ((Where[a] \cup Where[b]) \ out) \cup {}
  BY <1>4
<1>8. Where'[a] \cap Where'[b] = {} /\ out \subseteq Where[a] \cup Where[b]
  BY <1>4
<1> QED BY <1>1, <1>4, <1>5, <1>6, <1>7, <1>8, Placed

\* One thread and the buffer exchange messages.
LEMMA BufferMoves ==
  ASSUME TypeOK, PlaceInv, [Next]_vars, NEW x \in Threads, NEW th, Become(x, th), ThreadOK(th),
         x = Daemon \/ link[x] # "new" \/ link'[x] # "new" \/ th = Idle,
         UNCHANGED blocked, Distinct(buffered'), Len(buffered') <= BufferMax,
         NEW out, Ledger(out, {}), out \subseteq Keeps(thread[x]) \cup Ids(buffered),
         Keeps(th) \cup Ids(buffered') = (Keeps(thread[x]) \cup Ids(buffered)) \ out,
         Keeps(th) \cap Ids(buffered') = {}
  PROVE  PlaceInv' /\ Final
<1> DEFINE a == <<"thread", x>>
           b == <<"buffer", None>>
<1>1. /\ thread'[x] = th
      /\ \A y \in Threads : y # x => thread'[y] = thread[y]
      /\ \A y \in Threads : ThreadOK(thread'[y])
      /\ \A c \in Conns : link'[c] = "new" => thread'[c] = Idle
  BY OneSteps
<1>2. /\ a \in Places /\ Where[a] = Keeps(thread[x]) /\ Where'[a] = Keeps(th)
      /\ b \in Places /\ Where[b] = Ids(buffered) /\ Where'[b] = Ids(buffered')
  BY <1>1, InPlaces, InPlacesNext, PlacesDiffer
<1>3. ASSUME NEW p \in Places, p # a, p # b PROVE Where'[p] = Where[p]
  <2>1. ASSUME NEW u \in Tasks, p = <<"gate", u>> PROVE Where'[p] = Where[p]
    BY <2>1, InPlaces, InPlacesNext
  <2>2. ASSUME NEW y \in Threads, p = <<"thread", y>> PROVE Where'[p] = Where[p]
    BY <1>1, <1>3, <2>2, InPlaces, InPlacesNext
  <2> QED BY <1>3, <2>1, <2>2, PlacesDiffer
<1>4. \A u \in Tasks : Distinct(blocked'[u])
  BY DEF PlaceInv
<1> HIDE DEF a, b
<1>5. Where'[a] \cup Where'[b] = ((Where[a] \cup Where[b]) \ out) \cup {}
  BY <1>2
<1>6. Where'[a] \cap Where'[b] = {} /\ out \subseteq Where[a] \cup Where[b]
  BY <1>2
<1> QED BY <1>1, <1>2, <1>3, <1>4, <1>5, <1>6, Placed

\* Nothing moves.
LEMMA NothingMoves ==
  ASSUME TypeOK, PlaceInv, [Next]_vars, UNCHANGED <<thread, buffered, blocked, fate, issued>>
  PROVE  PlaceInv' /\ Final
<1>1. Where' = Where
  BY DEF Where
<1>2. \A c \in Conns : link'[c] = "new" => link[c] = "new"
  BY UsedStaysUsed
<1> QED BY <1>1, <1>2 DEF PlaceInv, Final, BufferBounded

----------------------------------------------------------------------------
(* Each action moves messages between places *)

\* What is with a thread is neither in the buffer nor at a gate.
LEMMA Separate ==
  ASSUME PlaceInv, NEW x \in Threads
  PROVE  /\ Keeps(thread[x]) \cap Ids(buffered) = {}
         /\ \A t \in Tasks : Keeps(thread[x]) \cap Ids(blocked[t]) = {}
<1> DEFINE w == Where
<1>1. Apart(Places, w)
  BY DEF PlaceInv
<1>2. /\ w[<<"buffer", None>>] = Ids(buffered) /\ w[<<"thread", x>>] = Keeps(thread[x])
      /\ \A t \in Tasks : w[<<"gate", t>>] = Ids(blocked[t])
  BY InPlaces
<1> HIDE DEF w
<1> QED BY <1>1, <1>2, PlacesDiffer DEF Apart

\* A thread that does something belongs to a connection in use or to the command loop.
LEMMA InUse ==
  ASSUME PlaceInv, NEW x \in Threads, thread[x].pc # "idle"
  PROVE  x = Daemon \/ link[x] # "new"
  BY DEF PlaceInv, Threads, Idle, Thread

\* The message a thread has in hand, and its list.
LEMMA InHand ==
  ASSUME PlaceInv, NEW x \in Threads, thread[x].pc \in Carrying
  PROVE  /\ Shaped(thread[x].msg) /\ Distinct(thread[x].todo)
         /\ thread[x].msg.id \notin Ids(thread[x].todo)
         /\ Keeps(thread[x]) = {thread[x].msg.id} \cup Ids(thread[x].todo)
         /\ x = Daemon \/ link[x] # "new"
<1>1. ThreadOK(thread[x]) /\ thread[x].pc # "idle"
  BY DEF PlaceInv, Carrying
<1> QED BY <1>1, InUse DEF ThreadOK, Keeps

\* A thread that observes or replays has its list only, the others have nothing.
LEMMA OnList ==
  ASSUME PlaceInv, NEW x \in Threads, thread[x].pc \notin Carrying
  PROVE  /\ Distinct(thread[x].todo) /\ Keeps(thread[x]) = Ids(thread[x].todo)
         /\ thread[x].pc \notin {"observe", "replay"} => Keeps(thread[x]) = {}
<1>1. ThreadOK(thread[x])
  BY DEF PlaceInv
<1> QED BY <1>1, EmptyList DEF ThreadOK, Keeps

\* A thread with nothing in hand keeps its list.
LEMMA ListOnly ==
  ASSUME NEW pc \in {"observe", "replay"}, NEW msg, NEW arg, NEW todo, Distinct(todo)
  PROVE  /\ ThreadOK(Thread(pc, msg, arg, todo))
         /\ Keeps(Thread(pc, msg, arg, todo)) = Ids(todo)
  BY DEF ThreadOK, Keeps, Thread, Carrying

\* A thread with a message in hand keeps that and its list.
LEMMA HandAndList ==
  ASSUME NEW pc \in Carrying, NEW msg, NEW arg, NEW todo, Distinct(todo), Shaped(msg),
         msg.id \notin Ids(todo)
  PROVE  /\ ThreadOK(Thread(pc, msg, arg, todo))
         /\ Keeps(Thread(pc, msg, arg, todo)) = {msg.id} \cup Ids(todo)
  BY DEF ThreadOK, Keeps, Thread

\* A thread without a list keeps nothing.
LEMMA NothingKept ==
  ASSUME NEW pc, pc \notin Carrying, NEW msg, NEW arg
  PROVE  ThreadOK(Thread(pc, msg, arg, <<>>)) /\ Keeps(Thread(pc, msg, arg, <<>>)) = {}
  BY EmptyList DEF ThreadOK, Keeps, Thread

\* Nor does one that is idle.
LEMMA IdleKeeps == ThreadOK(Idle) /\ Keeps(Idle) = {}
<1>1. "idle" \notin Carrying
  BY DEF Carrying
<1> QED BY <1>1, NothingKept DEF Idle

\* A thread that goes on with a list keeps all of it.
LEMMA Onward ==
  ASSUME NEW x, NEW list, Distinct(list), Proceed(x, list)
  PROVE  \E th : Become(x, th) /\ ThreadOK(th) /\ Keeps(th) = Ids(list)
<1>1. CASE list = <<>>
  BY <1>1, IdleKeeps, EmptyList DEF Proceed
<1>2. CASE list # <<>>
  <2> DEFINE th == Thread("prepare", Head(list), None, Tail(list))
  <2>1. Become(x, th)
    BY <1>2 DEF Proceed
  <2>2. "prepare" \in Carrying
    BY DEF Carrying
  <2>3. /\ Shaped(Head(list)) /\ Head(list).id \notin Ids(Tail(list)) /\ Distinct(Tail(list))
        /\ Ids(list) = {Head(list).id} \cup Ids(Tail(list))
    BY <1>2, FirstOfList
  <2>4. ThreadOK(th) /\ Keeps(th) = {Head(list).id} \cup Ids(Tail(list))
    BY <2>2, <2>3, HandAndList
  <2> HIDE DEF th
  <2> QED BY <2>1, <2>3, <2>4
<1> QED BY <1>1, <1>2

\* A thread that has nothing goes on with nothing.
LEMMA BareMoves ==
  ASSUME TypeOK, PlaceInv, [Next]_vars, NEW x \in Threads, NEW th, Become(x, th),
         ThreadOK(th), Keeps(th) = {}, Keeps(thread[x]) = {},
         x = Daemon \/ link[x] # "new" \/ link'[x] # "new" \/ th = Idle,
         UNCHANGED <<buffered, blocked, fate, issued>>
  PROVE  PlaceInv' /\ Final
<1>1. Ledger({}, {})
  BY LedgerSame DEF PlaceInv
<1>2. {} \subseteq Keeps(thread[x]) /\ Keeps(th) = (Keeps(thread[x]) \ {}) \cup {}
  OBVIOUS
<1>3. UNCHANGED <<buffered, blocked>>
  OBVIOUS
<1> QED BY <1>1, <1>2, <1>3, ThreadMoves

\* A stamped message is a message with the same identity.
LEMMA StampShape ==
  ASSUME NEW m, Shaped(m), NEW t, NEW s
  PROVE  /\ Shaped([m EXCEPT !.task = t, !.session = s])
         /\ [m EXCEPT !.task = t, !.session = s].id = m.id
<1> DEFINE r == [m EXCEPT !.task = t, !.session = s]
<1>1. m = [id |-> m.id, from |-> m.from, to |-> m.to, status |-> m.status,
           task |-> m.task, session |-> m.session]
  BY DEF Shaped
<1>2. r = [id |-> m.id, from |-> m.from, to |-> m.to, status |-> m.status,
           task |-> t, session |-> s]
  <2>1. r = [m EXCEPT !.task = t, !.session = s]
    OBVIOUS
  <2> HIDE DEF r
  <2> QED BY <1>1, <2>1
<1> HIDE DEF r
<1>3. Shaped(r) /\ r.id = m.id
  BY <1>2 DEF Shaped
<1> QED BY <1>3 DEF r

\* Stamping a message does not move it.
LEMMA PlacesStamp ==
  ASSUME TypeOK, PlaceInv, [Next]_vars, NEW x \in Threads, Stamp(x)
  PROVE  PlaceInv' /\ Final
<1> DEFINE m == thread[x].msg
           stamped == IF active = None THEN m
                      ELSE [m EXCEPT !.task = active, !.session = SessionFor(active, m.from)]
           th == Thread("prepare", stamped, None, thread[x].todo)
<1>1. thread[x].pc \in Carrying /\ "prepare" \in Carrying
  BY DEF Stamp, At, Carrying
<1>2. /\ Shaped(m) /\ Distinct(thread[x].todo) /\ m.id \notin Ids(thread[x].todo)
      /\ Keeps(thread[x]) = {m.id} \cup Ids(thread[x].todo)
      /\ x = Daemon \/ link[x] # "new"
  BY <1>1, InHand
<1>3. Become(x, th) /\ UNCHANGED <<buffered, blocked, fate, issued>>
  BY DEF Stamp
<1>4. Shaped(stamped) /\ stamped.id = m.id
  <2> HIDE DEF m
  <2> QED BY <1>2, StampShape
<1> HIDE DEF stamped, m
<1>5. ThreadOK(th) /\ Keeps(th) = (Keeps(thread[x]) \ {}) \cup {}
  BY <1>1, <1>2, <1>4, HandAndList
<1>6. Ledger({}, {}) /\ {} \subseteq Keeps(thread[x])
  BY <1>3, LedgerSame DEF PlaceInv
<1> HIDE DEF th
<1> QED BY <1>2, <1>3, <1>5, <1>6, ThreadMoves

\* The message in hand settles, and the thread goes on with its list.
LEMMA HandSettles ==
  ASSUME TypeOK, PlaceInv, [Next]_vars, NEW x \in Threads, thread[x].pc \in Carrying,
         NEW what, what \notin {"none", "live"}, Settle({thread[x].msg.id}, what),
         NEW th, Become(x, th), ThreadOK(th), Keeps(th) = Ids(thread[x].todo),
         UNCHANGED <<buffered, blocked, issued>>
  PROVE  PlaceInv' /\ Final
<1> DEFINE out == {thread[x].msg.id}
<1>1. /\ thread[x].msg.id \notin Ids(thread[x].todo)
      /\ Keeps(thread[x]) = {thread[x].msg.id} \cup Ids(thread[x].todo)
      /\ x = Daemon \/ link[x] # "new"
  BY InHand
<1>2. Ledger(out, {})
  BY LedgerSettles DEF PlaceInv
<1>3. out \subseteq Keeps(thread[x]) /\ Keeps(th) = (Keeps(thread[x]) \ out) \cup {}
  BY <1>1
<1> HIDE DEF out
<1> QED BY <1>1, <1>2, <1>3, ThreadMoves

\* The message in hand goes one step further.
LEMMA HandGoesOn ==
  ASSUME TypeOK, PlaceInv, [Next]_vars, NEW x \in Threads, thread[x].pc \in Carrying,
         NEW pc \in Carrying, NEW arg, Go(x, pc, arg),
         UNCHANGED <<buffered, blocked, fate, issued>>
  PROVE  PlaceInv' /\ Final
<1> DEFINE th == Thread(pc, thread[x].msg, arg, thread[x].todo)
<1>1. /\ Shaped(thread[x].msg) /\ Distinct(thread[x].todo)
      /\ thread[x].msg.id \notin Ids(thread[x].todo)
      /\ Keeps(thread[x]) = {thread[x].msg.id} \cup Ids(thread[x].todo)
      /\ x = Daemon \/ link[x] # "new"
  BY InHand
<1>2. Become(x, th)
  BY DEF Go
<1>3. ThreadOK(th) /\ Keeps(th) = (Keeps(thread[x]) \ {}) \cup {}
  BY <1>1, HandAndList
<1>4. Ledger({}, {}) /\ {} \subseteq Keeps(thread[x])
  BY LedgerSame DEF PlaceInv
<1> HIDE DEF th
<1> QED BY <1>1, <1>2, <1>3, <1>4, ThreadMoves

\* Preparing a message puts it behind the gate, shows it, or lets it go on.
LEMMA PlacesPrepare ==
  ASSUME TypeOK, PlaceInv, [Next]_vars, NEW x \in Threads, Prepare(x)
  PROVE  PlaceInv' /\ Final
<1> DEFINE m == thread[x].msg
<1>1. thread[x].pc \in Carrying /\ "choose" \in Carrying
  BY DEF Prepare, At, Carrying
<1>2. /\ Shaped(m) /\ Distinct(thread[x].todo) /\ m.id \notin Ids(thread[x].todo)
      /\ Keeps(thread[x]) = {m.id} \cup Ids(thread[x].todo)
      /\ x = Daemon \/ link[x] # "new"
  BY <1>1, InHand
<1>3. UNCHANGED <<buffered, issued>>
  BY DEF Prepare
<1>4. CASE /\ GateBlocks(m)
           /\ blocked' = [blocked EXCEPT ![active] = Append(@, m)]
           /\ Proceed(x, thread[x].todo)
           /\ UNCHANGED fate
  <2>1. active \in Tasks
    BY <1>4 DEF GateBlocks, TypeOK, GraphTypeOK
  <2> DEFINE list == Append(blocked[active], m)
  <2>2. PICK th : Become(x, th) /\ ThreadOK(th) /\ Keeps(th) = Ids(thread[x].todo)
    BY <1>2, <1>4, Onward
  <2>3. m.id \notin Ids(blocked[active]) /\ Distinct(blocked[active])
    BY <1>2, <2>1, Separate DEF PlaceInv
  <2>4. Distinct(list) /\ Ids(list) = Ids(blocked[active]) \cup {m.id}
    BY <1>2, <2>3, LastOfList
  <2>5. blocked' = [blocked EXCEPT ![active] = list]
    BY <1>4
  <2>6. Ids(thread[x].todo) \cap Ids(blocked[active]) = {}
    BY <1>2, <2>1, Separate
  <2>7. Ledger({}, {})
    BY <1>3, <1>4, LedgerSame DEF PlaceInv
  <2> HIDE DEF list, m
  <2>8. /\ Keeps(th) \cup Ids(list) = (Keeps(thread[x]) \cup Ids(blocked[active])) \ {}
        /\ Keeps(th) \cap Ids(list) = {}
        /\ {} \subseteq Keeps(thread[x]) \cup Ids(blocked[active])
    BY <1>2, <2>2, <2>4, <2>6
  <2> QED BY <1>2, <1>3, <2>1, <2>2, <2>4, <2>5, <2>7, <2>8, GateMoves
<1>5. CASE Settle({m.id}, "shown") /\ Go(x, "observe", None) /\ UNCHANGED blocked
  <2> DEFINE th == Thread("observe", m, None, thread[x].todo)
  <2>1. Become(x, th)
    BY <1>5 DEF Go
  <2>2. ThreadOK(th) /\ Keeps(th) = Ids(thread[x].todo)
    BY <1>2, ListOnly
  <2> HIDE DEF th
  <2> QED BY <1>1, <1>3, <1>5, <2>1, <2>2, HandSettles
<1>6. CASE Go(x, "choose", None) /\ UNCHANGED <<blocked, fate>>
  BY <1>1, <1>3, <1>6, HandGoesOn
<1> QED BY <1>4, <1>5, <1>6 DEF Prepare

\* Choosing the receiver refuses the message or leaves it with the thread.
LEMMA PlacesChoose ==
  ASSUME TypeOK, PlaceInv, [Next]_vars, NEW x \in Threads, Choose(x)
  PROVE  PlaceInv' /\ Final
<1>1. thread[x].pc \in Carrying /\ "send" \in Carrying
  BY DEF Choose, At, Carrying
<1>2. UNCHANGED <<buffered, blocked, issued>>
  BY DEF Choose
<1>3. CASE Settle({thread[x].msg.id}, "refused") /\ Proceed(x, thread[x].todo)
  <2>1. PICK th : Become(x, th) /\ ThreadOK(th) /\ Keeps(th) = Ids(thread[x].todo)
    BY <1>1, <1>3, InHand, Onward
  <2> QED BY <1>1, <1>2, <1>3, <2>1, HandSettles
<1>4. CASE Go(x, "send", Candidate(thread[x].msg)) /\ UNCHANGED fate
  BY <1>1, <1>2, <1>4, HandGoesOn
<1> QED BY <1>3, <1>4 DEF Choose

\* Sending a message settles it.
LEMMA PlacesSend ==
  ASSUME TypeOK, PlaceInv, [Next]_vars, NEW x \in Threads, Send(x)
  PROVE  PlaceInv' /\ Final
<1> DEFINE th == Thread("observe", thread[x].msg, None, thread[x].todo)
           what == IF link[thread[x].arg] = "open" THEN "handed" ELSE "lost"
<1>1. thread[x].pc \in Carrying
  BY DEF Send, At, Carrying
<1>2. UNCHANGED <<buffered, blocked, issued>> /\ Settle({thread[x].msg.id}, what)
  BY DEF Send
<1>3. Become(x, th)
  BY DEF Send, Go
<1>4. ThreadOK(th) /\ Keeps(th) = Ids(thread[x].todo)
  BY <1>1, InHand, ListOnly
<1>5. what \notin {"none", "live"}
  OBVIOUS
<1> HIDE DEF th, what
<1> QED BY <1>1, <1>2, <1>3, <1>4, <1>5, HandSettles

\* What a thread gives back goes into the buffer, or overflows.
LEMMA GivesBack ==
  ASSUME TypeOK, PlaceInv, [Next]_vars, NEW x \in Threads, NEW list, Distinct(list),
         BufferAll(list), NEW th, Become(x, th), ThreadOK(th),
         Keeps(thread[x]) = Ids(list) \cup Keeps(th), Ids(list) \cap Keeps(th) = {},
         x = Daemon \/ link[x] # "new", UNCHANGED <<blocked, issued>>
  PROVE  PlaceInv' /\ Final
<1>1. Keeps(thread[x]) \cap Ids(buffered) = {} /\ Distinct(buffered) /\ issued \in 0..MaxMsgs
  BY Separate DEF PlaceInv
<1>2. Ids(buffered) \cap Ids(list) = {}
  BY <1>1
<1>3. PICK out : /\ Settle(out, "overflow")
                 /\ out \subseteq Ids(buffered) \cup Ids(list)
                 /\ Distinct(buffered') /\ Len(buffered') <= BufferMax
                 /\ Ids(buffered') = (Ids(buffered) \cup Ids(list)) \ out
  BY <1>1, <1>2, Buffering
<1>4. Ledger(out, {})
  <2>1. "overflow" \notin {"none", "live"}
    OBVIOUS
  <2> QED BY <1>1, <1>3, <2>1, LedgerSettles
<1>5. /\ out \subseteq Keeps(thread[x]) \cup Ids(buffered)
      /\ Keeps(th) \cup Ids(buffered') = (Keeps(thread[x]) \cup Ids(buffered)) \ out
      /\ Keeps(th) \cap Ids(buffered') = {}
  BY <1>1, <1>3
<1> QED BY <1>3, <1>4, <1>5, BufferMoves

\* A message that could not be sent goes into the buffer.
LEMMA PlacesSendFails ==
  ASSUME TypeOK, PlaceInv, [Next]_vars, NEW x \in Threads, SendFails(x)
  PROVE  PlaceInv' /\ Final
<1> DEFINE m == thread[x].msg
           list == Append(<<>>, m)
<1>1. thread[x].pc \in Carrying
  BY DEF SendFails, At, Carrying
<1>2. /\ Shaped(m) /\ Distinct(thread[x].todo) /\ m.id \notin Ids(thread[x].todo)
      /\ Keeps(thread[x]) = {m.id} \cup Ids(thread[x].todo)
      /\ x = Daemon \/ link[x] # "new"
  BY <1>1, InHand
<1>3. PICK th : Become(x, th) /\ ThreadOK(th) /\ Keeps(th) = Ids(thread[x].todo)
  BY <1>2, Onward DEF SendFails
<1>4. Distinct(list) /\ Ids(list) = {m.id}
  <2> DEFINE none == <<>>
  <2>1. Distinct(none) /\ Ids(none) = {} /\ m.id \notin Ids(none)
    BY EmptyList
  <2>2. list = Append(none, m)
    OBVIOUS
  <2> HIDE DEF none, list, m
  <2>3. Distinct(list) /\ Ids(list) = Ids(none) \cup {m.id}
    BY <1>2, <2>1, <2>2, LastOfList
  <2> QED BY <2>1, <2>3
<1>5. BufferAll(list) /\ UNCHANGED <<blocked, issued>>
  <2>1. list = <<m>>
    OBVIOUS
  <2> HIDE DEF list
  <2> QED BY <2>1 DEF SendFails
<1> HIDE DEF list, m
<1>6. Keeps(thread[x]) = Ids(list) \cup Keeps(th) /\ Ids(list) \cap Keeps(th) = {}
  BY <1>2, <1>3, <1>4
<1> QED BY <1>2, <1>3, <1>4, <1>5, <1>6, GivesBack

\* Observing a message moves nothing, or drains the gate of a task that completes.
LEMMA PlacesObserve ==
  ASSUME TypeOK, PlaceInv, [Next]_vars, NEW x \in Threads, Observe(x)
  PROVE  PlaceInv' /\ Final
<1>1. thread[x].pc = "observe" /\ thread[x].pc \notin Carrying /\ thread[x].pc # "idle"
  BY DEF Observe, At, Carrying
<1>2. /\ Distinct(thread[x].todo) /\ Keeps(thread[x]) = Ids(thread[x].todo)
      /\ x = Daemon \/ link[x] # "new"
  BY <1>1, OnList, InUse
<1>3. PICK th : Become(x, th) /\ ThreadOK(th) /\ Keeps(th) = Ids(thread[x].todo)
  BY <1>2, Onward DEF Observe
<1>4. UNCHANGED <<buffered, issued>>
  BY DEF Observe
<1>5. CASE UNCHANGED <<blocked, fate>>
  <2>1. Ledger({}, {}) /\ {} \subseteq Keeps(thread[x])
    BY <1>4, <1>5, LedgerSame DEF PlaceInv
  <2>2. Keeps(th) = (Keeps(thread[x]) \ {}) \cup {}
    BY <1>2, <1>3
  <2>3. UNCHANGED <<buffered, blocked>>
    BY <1>4, <1>5
  <2> QED BY <1>2, <1>3, <2>1, <2>2, <2>3, ThreadMoves
<1>6. CASE /\ active # None
           /\ blocked' = [blocked EXCEPT ![active] = <<>>]
           /\ Settle(Ids(blocked[active]), "drained")
  <2>1. active \in Tasks
    BY <1>6 DEF TypeOK, GraphTypeOK
  <2> DEFINE out == Ids(blocked[active])
             list == <<>>
  <2>2. Ledger(out, {})
    <3>1. "drained" \notin {"none", "live"}
      OBVIOUS
    <3> QED BY <1>4, <1>6, <3>1, LedgerSettles DEF PlaceInv
  <2>3. Distinct(list) /\ Ids(list) = {}
    BY EmptyList
  <2>4. blocked' = [blocked EXCEPT ![active] = list]
    BY <1>6
  <2>5. Keeps(thread[x]) \cap out = {}
    BY <2>1, Separate
  <2> HIDE DEF list
  <2>6. /\ Keeps(th) \cup Ids(list) = (Keeps(thread[x]) \cup Ids(blocked[active])) \ out
        /\ Keeps(th) \cap Ids(list) = {}
        /\ out \subseteq Keeps(thread[x]) \cup Ids(blocked[active])
    BY <1>2, <1>3, <2>3, <2>5
  <2> HIDE DEF out
  <2> QED BY <1>2, <1>3, <1>4, <2>1, <2>2, <2>3, <2>4, <2>6, GateMoves
<1>7. \/ UNCHANGED <<blocked, fate>>
      \/ /\ active # None
         /\ blocked' = [blocked EXCEPT ![active] = <<>>]
         /\ Settle(Ids(blocked[active]), "drained")
  BY DEF Observe
<1> QED BY <1>5, <1>6, <1>7

\* A replay settles the first message of its list.
LEMMA PlacesReplayOne ==
  ASSUME TypeOK, PlaceInv, [Next]_vars, NEW x \in Threads, ReplayOne(x)
  PROVE  PlaceInv' /\ Final
<1> DEFINE list == thread[x].todo
           th == Thread("replay", None, thread[x].arg, Tail(list))
           out == {Head(list).id}
           what == IF link[thread[x].arg] = "open" THEN "handed" ELSE "lost"
<1>1. /\ thread[x].pc = "replay" /\ thread[x].pc \notin Carrying /\ thread[x].pc # "idle"
      /\ list # <<>>
  BY DEF ReplayOne, At, Carrying
<1>2. /\ Distinct(list) /\ Keeps(thread[x]) = Ids(list)
      /\ x = Daemon \/ link[x] # "new"
  BY <1>1, OnList, InUse
<1>3. Become(x, th) /\ UNCHANGED <<buffered, blocked, issued>> /\ Settle(out, what)
  BY DEF ReplayOne, Replays
<1>4. what \notin {"none", "live"}
  OBVIOUS
<1> HIDE DEF what, list
<1>5. /\ Head(list).id \notin Ids(Tail(list)) /\ Distinct(Tail(list))
      /\ Ids(list) = {Head(list).id} \cup Ids(Tail(list))
  BY <1>1, <1>2, FirstOfList
<1>6. ThreadOK(th) /\ Keeps(th) = Ids(Tail(list))
  BY <1>5, ListOnly
<1>7. out \subseteq Keeps(thread[x]) /\ Keeps(th) = (Keeps(thread[x]) \ out) \cup {}
  BY <1>2, <1>5, <1>6
<1> HIDE DEF th, out
<1>8. Ledger(out, {})
  BY <1>3, <1>4, LedgerSettles DEF PlaceInv
<1>9. UNCHANGED <<buffered, blocked>>
  BY <1>3
<1> QED BY <1>2, <1>3, <1>6, <1>7, <1>8, <1>9, ThreadMoves

\* A replay that fails gives its list back.
LEMMA PlacesReplayFails ==
  ASSUME TypeOK, PlaceInv, [Next]_vars, NEW x \in Threads, ReplayFails(x)
  PROVE  PlaceInv' /\ Final
<1> DEFINE list == thread[x].todo
           th == Thread("replay", None, thread[x].arg, <<>>)
<1>1. thread[x].pc \notin Carrying /\ thread[x].pc # "idle" /\ "replay" \notin Carrying
  BY DEF ReplayFails, At, Carrying
<1>2. /\ Distinct(list) /\ Keeps(thread[x]) = Ids(list)
      /\ x = Daemon \/ link[x] # "new"
  BY <1>1, OnList, InUse
<1>3. Become(x, th) /\ UNCHANGED <<blocked, issued>> /\ BufferAll(list)
  BY DEF ReplayFails, Replays
<1>4. ThreadOK(th) /\ Keeps(th) = {}
  BY <1>1, NothingKept
<1>5. Keeps(thread[x]) = Ids(list) \cup Keeps(th) /\ Ids(list) \cap Keeps(th) = {}
  BY <1>2, <1>4
<1> HIDE DEF list, th
<1> QED BY <1>2, <1>3, <1>4, <1>5, GivesBack

\* A replay that is done had nothing left.
LEMMA PlacesReplayDone ==
  ASSUME TypeOK, PlaceInv, [Next]_vars, NEW x \in Threads, ReplayDone(x)
  PROVE  PlaceInv' /\ Final
<1>1. /\ thread[x].pc \notin Carrying /\ thread[x].pc # "idle" /\ "register" \notin Carrying
      /\ thread[x].todo = <<>>
  BY DEF ReplayDone, At, Carrying
<1>2. Keeps(thread[x]) = {} /\ (x = Daemon \/ link[x] # "new")
  BY <1>1, OnList, InUse, EmptyList
<1>3. UNCHANGED <<buffered, blocked, fate, issued>>
  BY DEF ReplayDone
<1>4. \E th : Become(x, th) /\ ThreadOK(th) /\ Keeps(th) = {}
  <2>1. CASE Become(x, Thread("register", None, thread[x].arg, <<>>))
    BY <1>1, <2>1, NothingKept
  <2>2. CASE Become(x, Idle)
    BY <2>2, IdleKeeps
  <2> QED BY <2>1, <2>2 DEF ReplayDone
<1> QED BY <1>2, <1>3, <1>4, BareMoves

\* What a thread that has started something does next.
LEMMA PlacesRoute ==
  ASSUME TypeOK, PlaceInv, [Next]_vars, NEW x \in Threads, Step(x)
  PROVE  PlaceInv' /\ Final
  BY PlacesStamp, PlacesPrepare, PlacesChoose, PlacesSend, PlacesSendFails, PlacesObserve,
     PlacesReplayOne, PlacesReplayFails, PlacesReplayDone DEF Step

\* The user's messages are new, one for each receiver.
LEMMA PlacesInput ==
  ASSUME TypeOK, PlaceInv, [Next]_vars, NEW target, SendUserInput(target)
  PROVE  PlaceInv' /\ Final
<1> DEFINE to == UserTargets(target)
           n == Len(to)
           input(i) == [id |-> issued + i, from |-> "user", to |-> to[i], status |-> "done",
                        task |-> active, session |-> None]
           list == [i \in 1..n |-> input(i)]
           new == (issued + 1)..(issued + n)
<1>1. /\ thread[Daemon] = Idle /\ Issue(n) /\ Proceed(Daemon, list)
      /\ UNCHANGED <<buffered, blocked>>
  BY DEF SendUserInput
<1>2. n \in Nat /\ issued \in Nat /\ MaxMsgs \in Nat /\ issued + n <= MaxMsgs
  <2>1. n \in Nat
    BY TargetsAreListed, LenProperties
  <2> HIDE DEF n
  <2> QED BY <1>1, <2>1, RoutingAssumption DEF Issue, PlaceInv
<1>3. DOMAIN list = 1..n /\ \A i \in 1..n : list[i] = input(i)
  OBVIOUS
<1>4. list \in Seq({input(i) : i \in 1..n})
  <2>1. list \in [1..n -> {input(i) : i \in 1..n}]
    OBVIOUS
  <2> QED BY <1>2, <2>1, IsASeq
<1>5. \A i \in 1..n : Shaped(input(i)) /\ input(i).id = issued + i
  <2> HIDE DEF n, to
  <2>1. \A i \in 1..n : issued + i \in 1..MaxMsgs
    BY <1>2
  <2> QED BY <2>1 DEF Shaped
<1> HIDE DEF list, input
<1>6. IsSeq(list)
  BY <1>4, SeqIsSeq
<1>7. Distinct(list)
  <2>1. \A i \in DOMAIN list : Shaped(list[i])
    BY <1>3, <1>5
  <2>2. \A i, j \in DOMAIN list : list[i].id = list[j].id => i = j
    <3> HIDE DEF n
    <3> QED BY <1>2, <1>3, <1>5
  <2> QED BY <1>6, <2>1, <2>2 DEF Distinct
<1>8. Ids(list) = new
  <2> HIDE DEF n
  <2>1. \A i \in DOMAIN list : list[i].id = issued + i /\ i \in 1..n
    BY <1>3, <1>5
  <2>2. \A k \in new : k - issued \in DOMAIN list /\ list[k - issued].id = k
    BY <1>2, <1>3, <1>5
  <2>3. \A i \in DOMAIN list : list[i].id \in new
    BY <1>2, <2>1
  <2> HIDE DEF new
  <2> QED BY <2>2, <2>3 DEF Ids
<1>9. Ledger({}, new)
  BY <1>1, <1>2, LedgerIssues DEF PlaceInv
<1>10. PICK th : Become(Daemon, th) /\ ThreadOK(th) /\ Keeps(th) = Ids(list)
  BY <1>1, <1>7, Onward
<1> HIDE DEF new, n
<1>11. /\ Keeps(thread[Daemon]) = {} /\ Daemon \in Threads
       /\ {} \subseteq Keeps(thread[Daemon])
       /\ Keeps(th) = (Keeps(thread[Daemon]) \ {}) \cup new
  BY <1>1, <1>8, <1>10, IdleKeeps DEF Threads
<1> QED BY <1>1, <1>9, <1>10, <1>11, ThreadMoves

\* An agent's message is new.
LEMMA PlacesReply ==
  ASSUME TypeOK, PlaceInv, [Next]_vars, NEW c \in Conns, NEW from, NEW reply,
         NEW pc \in Carrying, Reply(c, from, reply, pc)
  PROVE  PlaceInv' /\ Final
<1> DEFINE m == NewMessage(from, reply)
           th == Thread(pc, m, None, <<>>)
           new == (issued + 1)..(issued + 1)
<1>1. /\ thread[c] = Idle /\ link[c] # "new" /\ Issue(1) /\ Become(c, th)
      /\ UNCHANGED <<buffered, blocked>>
  BY DEF Reply, Up
<1>2. issued \in Nat /\ MaxMsgs \in Nat /\ issued + 1 <= MaxMsgs /\ new = {issued + 1}
  <2>1. issued \in Nat /\ MaxMsgs \in Nat /\ issued + 1 <= MaxMsgs
    BY <1>1, RoutingAssumption DEF Issue, PlaceInv
  <2> QED BY <2>1
<1>3. Shaped(m) /\ m.id = issued + 1
  BY <1>2 DEF Shaped, NewMessage
<1> HIDE DEF m
<1>4. ThreadOK(th) /\ Keeps(th) = {issued + 1}
  <2> DEFINE none == <<>>
  <2>1. Distinct(none) /\ Ids(none) = {} /\ m.id \notin Ids(none)
    BY EmptyList
  <2> HIDE DEF none
  <2>2. /\ ThreadOK(Thread(pc, m, None, none))
        /\ Keeps(Thread(pc, m, None, none)) = {m.id} \cup Ids(none)
    BY <1>3, <2>1, HandAndList
  <2> QED BY <1>3, <2>1, <2>2 DEF none
<1>5. Ledger({}, new)
  <2>1. 1 \in Nat
    OBVIOUS
  <2> QED BY <1>1, <2>1, LedgerIssues DEF PlaceInv
<1> HIDE DEF new, th
<1>6. /\ c \in Threads /\ {} \subseteq Keeps(thread[c])
      /\ Keeps(th) = (Keeps(thread[c]) \ {}) \cup new
  BY <1>1, <1>2, <1>4, IdleKeeps DEF Threads
<1> QED BY <1>1, <1>4, <1>5, <1>6, ThreadMoves

\* What is taken from the buffer and what is left.
LEMMA TakeAndLeave ==
  ASSUME PlaceInv, NEW r, NEW t
  PROVE  /\ Distinct(Taken(r, t)) /\ Distinct(Left(r, t)) /\ Len(Left(r, t)) <= BufferMax
         /\ Ids(Taken(r, t)) \cap Ids(Left(r, t)) = {}
         /\ Ids(Taken(r, t)) \cup Ids(Left(r, t)) = Ids(buffered)
<1>1. Distinct(buffered) /\ Len(buffered) <= BufferMax
  BY DEF PlaceInv, BufferBounded
<1>2. Wanted(r, t) \in SUBSET DOMAIN buffered
  BY DEF Wanted
<1>3. /\ Distinct(Taken(r, t)) /\ Distinct(Left(r, t)) /\ Len(Left(r, t)) <= Len(buffered)
      /\ Ids(Taken(r, t)) \cap Ids(Left(r, t)) = {}
      /\ Ids(Taken(r, t)) \cup Ids(Left(r, t)) = Ids(buffered)
  BY <1>1, <1>2, SplitList DEF Taken, Left
<1>4. Len(Left(r, t)) \in Nat /\ Len(buffered) \in Nat /\ BufferMax \in Nat
  BY <1>1, <1>3, ListIsSeq, RoutingAssumption
<1> QED BY <1>1, <1>3, <1>4

\* A thread that starts a replay takes its list from the buffer.
LEMMA ReplayStarts ==
  ASSUME TypeOK, PlaceInv, [Next]_vars, NEW x \in Threads, Keeps(thread[x]) = {},
         x = Daemon \/ link'[x] # "new", NEW r, NEW arg,
         Become(x, Thread("replay", None, arg, Taken(r, None))),
         buffered' = Left(r, None), UNCHANGED <<blocked, fate, issued>>
  PROVE  PlaceInv' /\ Final
<1> DEFINE list == Taken(r, None)
           rest == Left(r, None)
           th == Thread("replay", None, arg, list)
<1>1. /\ Distinct(list) /\ Distinct(rest) /\ Len(rest) <= BufferMax
      /\ Ids(list) \cap Ids(rest) = {} /\ Ids(list) \cup Ids(rest) = Ids(buffered)
  BY TakeAndLeave
<1>2. Become(x, th) /\ buffered' = rest
  OBVIOUS
<1> HIDE DEF list, rest
<1>3. ThreadOK(th) /\ Keeps(th) = Ids(list)
  BY <1>1, ListOnly
<1>4. Ledger({}, {}) /\ UNCHANGED blocked
  BY LedgerSame DEF PlaceInv
<1> HIDE DEF th
<1>5. /\ Distinct(buffered') /\ Len(buffered') <= BufferMax
      /\ {} \subseteq Keeps(thread[x]) \cup Ids(buffered)
      /\ Keeps(th) \cup Ids(buffered') = (Keeps(thread[x]) \cup Ids(buffered)) \ {}
      /\ Keeps(th) \cap Ids(buffered') = {}
  BY <1>1, <1>2, <1>3
<1> QED BY <1>2, <1>3, <1>4, <1>5, BufferMoves

\* A bridge that attaches, and a Codex session that starts, take the buffer.
LEMMA PlacesAttach ==
  ASSUME TypeOK, PlaceInv, [Next]_vars,
         CodexAttach \/ \E c \in BridgeConns : BridgeAttach(c)
  PROVE  PlaceInv' /\ Final
<1>1. CASE CodexAttach
  <2>1. thread[Daemon].pc = "await" /\ Daemon \in Threads
    BY <1>1 DEF CodexAttach, At, Threads
  <2>2. Keeps(thread[Daemon]) = {}
    BY <2>1, OnList DEF Carrying
  <2>3. /\ Become(Daemon, Thread("replay", None, thread[Daemon].arg, Taken(launch.role, None)))
        /\ buffered' = Left(launch.role, None) /\ UNCHANGED <<blocked, fate, issued>>
    BY <1>1 DEF CodexAttach
  <2> QED BY <2>1, <2>2, <2>3, ReplayStarts
<1>2. ASSUME NEW c \in BridgeConns, BridgeAttach(c) PROVE PlaceInv' /\ Final
  <2>1. c \in Conns /\ c \in Threads
    BY DEF Conns, Threads
  <2>2. Keeps(thread[c]) = {}
    <3>1. thread[c] = Idle
      BY <1>2, <2>1 DEF BridgeAttach, PlaceInv
    <3> QED BY <3>1, IdleKeeps
  <2>3. link'[c] # "new"
    <3>1. link' = [link EXCEPT ![c] = "open"] /\ DOMAIN link = Conns
      BY <1>2 DEF BridgeAttach, TypeOK, AgentTypeOK
    <3> QED BY <2>1, <3>1
  <2>4. /\ Become(c, Thread("replay", None, c, Taken(role["claude"], None)))
        /\ buffered' = Left(role["claude"], None) /\ UNCHANGED <<blocked, fate, issued>>
    BY <1>2 DEF BridgeAttach
  <2> QED BY <2>1, <2>2, <2>3, <2>4, ReplayStarts
<1> QED BY <1>1, <1>2

\* The check_messages tool hands over what it takes.
LEMMA PlacesCheckTake ==
  ASSUME TypeOK, PlaceInv, [Next]_vars, NEW c \in CodexConns, CheckTake(c)
  PROVE  PlaceInv' /\ Final
<1> DEFINE t == thread[c].arg
           list == Taken(seat[c], t)
           rest == Left(seat[c], t)
           out == Ids(list)
<1>1. c \in Threads /\ thread[c].pc = "check"
  BY DEF CheckTake, At, Threads, Conns
<1>2. Keeps(thread[c]) = {} /\ (c = Daemon \/ link[c] # "new")
  BY <1>1, OnList, InUse DEF Carrying
<1>3. /\ Settle(out, "handed") /\ buffered' = rest /\ Become(c, Idle)
      /\ UNCHANGED <<blocked, issued>>
  BY DEF CheckTake
<1>4. /\ Distinct(rest) /\ Len(rest) <= BufferMax
      /\ out \cap Ids(rest) = {} /\ out \cup Ids(rest) = Ids(buffered)
  BY TakeAndLeave
<1> HIDE DEF out, rest
<1>5. Ledger(out, {}) /\ UNCHANGED blocked
  <2>1. "handed" \notin {"none", "live"}
    OBVIOUS
  <2> QED BY <1>3, <2>1, LedgerSettles DEF PlaceInv
<1>6. /\ ThreadOK(Idle)
      /\ Distinct(buffered') /\ Len(buffered') <= BufferMax
      /\ out \subseteq Keeps(thread[c]) \cup Ids(buffered)
      /\ Keeps(Idle) \cup Ids(buffered') = (Keeps(thread[c]) \cup Ids(buffered)) \ out
      /\ Keeps(Idle) \cap Ids(buffered') = {}
  BY <1>2, <1>3, <1>4, IdleKeeps
<1> QED BY <1>1, <1>2, <1>3, <1>5, <1>6, BufferMoves

\* A cancelled session task loses what it holds.
LEMMA PlacesCancelled ==
  ASSUME TypeOK, PlaceInv, [Next]_vars, NEW c \in CodexConns, CodexCancelled(c)
  PROVE  PlaceInv' /\ Final
<1> DEFINE out == Keeps(thread[c])
<1>1. c \in Threads /\ link[c] # "new"
  BY DEF CodexCancelled, Threads, Conns
<1>2. Settle(out, "cancelled") /\ Become(c, Idle) /\ UNCHANGED <<buffered, blocked, issued>>
  BY DEF CodexCancelled, Holds, Keeps, Carrying
<1>3. Ledger(out, {})
  <2>1. "cancelled" \notin {"none", "live"}
    OBVIOUS
  <2> HIDE DEF out
  <2> QED BY <1>2, <2>1, LedgerSettles DEF PlaceInv
<1>4. /\ ThreadOK(Idle) /\ out \subseteq Keeps(thread[c])
      /\ Keeps(Idle) = (Keeps(thread[c]) \ out) \cup {}
  BY IdleKeeps
<1>5. UNCHANGED <<buffered, blocked>>
  BY <1>2
<1> HIDE DEF out
<1> QED BY <1>1, <1>2, <1>3, <1>4, <1>5, ThreadMoves

\* Approval takes the released messages to the command loop.
LEMMA PlacesApprove ==
  ASSUME TypeOK, PlaceInv, [Next]_vars, ApproveReview
  PROVE  PlaceInv' /\ Final
<1> DEFINE list == blocked[active]
           none == <<>>
<1>1. /\ thread[Daemon] = Idle /\ active # None
      /\ blocked' = [blocked EXCEPT ![active] = none]
      /\ Proceed(Daemon, list) /\ UNCHANGED <<buffered, fate, issued>>
  BY DEF ApproveReview, Approve
<1>2. active \in Tasks /\ Daemon \in Threads
  BY <1>1 DEF TypeOK, GraphTypeOK, Threads
<1>3. Distinct(list)
  BY <1>2 DEF PlaceInv
<1>4. PICK th : Become(Daemon, th) /\ ThreadOK(th) /\ Keeps(th) = Ids(list)
  BY <1>1, <1>3, Onward
<1>5. Ledger({}, {}) /\ UNCHANGED buffered
  BY <1>1, LedgerSame DEF PlaceInv
<1>6. Distinct(none) /\ Ids(none) = {}
  BY EmptyList
<1> HIDE DEF none
<1>7. /\ {} \subseteq Keeps(thread[Daemon]) \cup Ids(blocked[active])
      /\ Keeps(th) \cup Ids(none) = (Keeps(thread[Daemon]) \cup Ids(blocked[active])) \ {}
      /\ Keeps(th) \cap Ids(none) = {}
  BY <1>1, <1>4, <1>6, IdleKeeps
<1> QED BY <1>1, <1>2, <1>4, <1>5, <1>6, <1>7, GateMoves

\* A role change renames receivers and moves nothing.
LEMMA PlacesSetRole ==
  ASSUME TypeOK, PlaceInv, [Next]_vars, NEW agent, NEW r, SetRole(agent, r)
  PROVE  PlaceInv' /\ Final
<1> DEFINE a == <<"buffer", None>>
<1>1. buffered' = Migrated(role[agent], r) /\ UNCHANGED <<thread, blocked, link, fate, issued>>
  BY DEF SetRole
<1>2. Distinct(buffered') /\ Ids(buffered') = Ids(buffered) /\ Len(buffered') = Len(buffered)
  BY <1>1, MigratedList DEF PlaceInv
<1>3. /\ Len(buffered') <= BufferMax
      /\ \A t \in Tasks : Distinct(blocked'[t])
      /\ \A x \in Threads : ThreadOK(thread'[x])
      /\ \A c \in Conns : link'[c] = "new" => thread'[c] = Idle
  BY <1>1, <1>2 DEF PlaceInv, BufferBounded
<1>4. \A p \in Places : Where'[p] = Where[p]
  BY <1>1, <1>2, InPlaces, InPlacesNext, PlacesDiffer
<1>5. Ledger({}, {})
  BY <1>1, LedgerSame DEF PlaceInv
<1>6. a \in Places
  BY PlacesDiffer
<1> HIDE DEF a
<1>7. /\ \A p \in Places : p # a /\ p # a => Where'[p] = Where[p]
      /\ Where'[a] \cup Where'[a] = ((Where[a] \cup Where[a]) \ {}) \cup {}
      /\ a # a => Where'[a] \cap Where'[a] = {}
      /\ {} \subseteq Where[a] \cup Where[a]
  BY <1>4, <1>6
<1> QED BY <1>2, <1>3, <1>5, <1>6, <1>7, Placed

\* A thread without messages goes where it has none.
LEMMA BareStep ==
  ASSUME TypeOK, PlaceInv, [Next]_vars, NEW x \in Threads, Keeps(thread[x]) = {},
         NEW pc, pc \notin Carrying, NEW arg, Become(x, Thread(pc, None, arg, <<>>)),
         x = Daemon \/ link[x] # "new", UNCHANGED <<buffered, blocked, fate, issued>>
  PROVE  PlaceInv' /\ Final
<1> DEFINE th == Thread(pc, None, arg, <<>>)
<1>1. ThreadOK(th) /\ Keeps(th) = {} /\ Become(x, th)
  BY NothingKept
<1> HIDE DEF th
<1> QED BY <1>1, BareMoves

\* Launches, sessions and checks for messages move nothing.
LEMMA PlacesLaunch ==
  ASSUME TypeOK, PlaceInv, [Next]_vars,
         \/ \E l \in Launches, c \in Sessions : Launch(l, c)
         \/ LaunchFails \/ SdkReady \/ Register \/ ForceDisconnect \/ ForceClear
  PROVE  PlaceInv' /\ Final
<1>1. Daemon \in Threads /\ UNCHANGED <<buffered, blocked, fate, issued>>
  BY DEF Threads, Launch, LaunchFails, SdkReady, Register, ForceDisconnect, ForceClear
<1>2. Keeps(thread[Daemon]) = {}
  <2>1. \/ thread[Daemon] = Idle
        \/ thread[Daemon].pc \in {"await", "register", "disconnect"}
    BY DEF Launch, LaunchFails, SdkReady, Register, ForceDisconnect, ForceClear, At
  <2>2. thread[Daemon] = Idle => Keeps(thread[Daemon]) = {}
    BY IdleKeeps
  <2>3. thread[Daemon].pc \in {"await", "register", "disconnect"} => Keeps(thread[Daemon]) = {}
    BY <1>1, OnList DEF Carrying
  <2> QED BY <2>1, <2>2, <2>3
<1>3. \/ UNCHANGED thread
      \/ \E pc \in {"await", "register", "disconnect", "idle"}, arg \in {None} \cup Conns :
           Become(Daemon, Thread(pc, None, arg, <<>>))
      \/ Become(Daemon, Thread("register", None, thread[Daemon].arg, <<>>))
  <2>1. ASSUME NEW l \in Launches, NEW c \in Sessions, Launch(l, c)
        PROVE  UNCHANGED thread \/ Become(Daemon, Thread("await", None, c, <<>>))
    BY <2>1 DEF Launch
  <2>2. LaunchFails => Become(Daemon, Thread("idle", None, None, <<>>))
    BY DEF LaunchFails, Idle
  <2>3. SdkReady => \/ Become(Daemon, Thread("register", None, thread[Daemon].arg, <<>>))
                    \/ Become(Daemon, Thread("idle", None, None, <<>>))
    BY DEF SdkReady, Idle
  <2>4. Register => Become(Daemon, Thread("idle", None, None, <<>>))
    BY DEF Register, Idle
  <2>5. ForceDisconnect => Become(Daemon, Thread("disconnect", None, None, <<>>))
    BY DEF ForceDisconnect
  <2>6. ForceClear => Become(Daemon, Thread("idle", None, None, <<>>))
    BY DEF ForceClear, Idle
  <2> QED BY <2>1, <2>2, <2>3, <2>4, <2>5, <2>6 DEF Sessions, Conns
<1>4. \A pc \in {"await", "register", "disconnect", "idle"} : pc \notin Carrying
  BY DEF Carrying
<1>5. CASE UNCHANGED thread
  <2>1. UNCHANGED <<thread, buffered, blocked, fate, issued>>
    BY <1>1, <1>5
  <2> QED BY <2>1, NothingMoves
<1> QED BY <1>1, <1>2, <1>3, <1>4, <1>5, BareStep

\* So does the start of a check for messages.
LEMMA PlacesCheck ==
  ASSUME TypeOK, PlaceInv, [Next]_vars, NEW c \in CodexConns, CheckMessages(c)
  PROVE  PlaceInv' /\ Final
<1>1. /\ c \in Threads /\ link[c] # "new" /\ thread[c] = Idle
      /\ Become(c, Thread("check", None, active, <<>>))
      /\ UNCHANGED <<buffered, blocked, fate, issued>>
  BY DEF CheckMessages, Up, Threads, Conns
<1>2. Keeps(thread[c]) = {} /\ "check" \notin Carrying
  BY <1>1, IdleKeeps DEF Carrying
<1> QED BY <1>1, <1>2, BareStep

\* Every step moves each message at most from one place to one other.
LEMMA PlacesStep ==
  ASSUME TypeOK, PlaceInv, [Next]_vars
  PROVE  PlaceInv' /\ Final
<1>1. CASE UNCHANGED vars
  <2>1. UNCHANGED <<thread, buffered, blocked, fate, issued>>
    BY <1>1 DEF vars
  <2> QED BY <2>1, NothingMoves
<1>2. CASE UserCommand
  <2>1. CASE \/ \E t \in Tasks : CreateTask(t)
             \/ \E t \in Tasks \cup {None} : SelectTask(t)
             \/ \E agent \in Agents : Stop(agent)
             \/ \E s \in Sessions : AttachKnown(s)
    <3>1. UNCHANGED <<thread, buffered, blocked, fate, issued>>
      BY <2>1 DEF CreateTask, SelectTask, Stop, AttachKnown
    <3> QED BY <3>1, NothingMoves
  <2>2. CASE \E target \in Targets : SendUserInput(target)
    BY <2>2, PlacesInput
  <2>3. CASE \E ch \in RoleChanges : SetRole(ch.agent, ch.role)
    BY <2>3, PlacesSetRole
  <2> QED BY <1>2, <2>1, <2>2, <2>3, PlacesApprove, PlacesLaunch DEF UserCommand
<1>3. CASE DaemonStep
  <2>1. Daemon \in Threads
    BY DEF Threads
  <2> QED BY <1>3, <2>1, PlacesRoute, PlacesLaunch, PlacesAttach DEF DaemonStep
<1>4. CASE SdkConnect
  <2>1. UNCHANGED <<thread, buffered, blocked, fate, issued>>
    BY <1>4 DEF SdkConnect
  <2> QED BY <2>1, NothingMoves
<1>5. ASSUME NEW c \in Conns, Step(c) \/ Peer(c) PROVE PlaceInv' /\ Final
  <2>1. CASE Step(c)
    BY <2>1, PlacesRoute DEF Threads
  <2>2. CASE Peer(c)
    <3>1. UNCHANGED <<thread, buffered, blocked, fate, issued>>
      BY <2>2 DEF Peer, PeerCloses, Fills, Drains
    <3> QED BY <3>1, NothingMoves
  <2> QED BY <1>5, <2>1, <2>2
<1>6. "stamp" \in Carrying /\ "prepare" \in Carrying
  BY DEF Carrying
<1>7. ASSUME NEW c \in BridgeConns, BridgeNext(c) PROVE PlaceInv' /\ Final
  <2>1. CASE BridgeRejected(c) \/ BridgeCleanup(c)
    <3>1. UNCHANGED <<thread, buffered, blocked, fate, issued>>
      BY <2>1 DEF BridgeRejected, BridgeCleanup
    <3> QED BY <3>1, NothingMoves
  <2>2. CASE BridgeReply(c)
    BY <1>6, <2>2, PlacesReply DEF BridgeReply, Conns
  <2> QED BY <1>7, <2>1, <2>2, PlacesAttach DEF BridgeNext
<1>8. ASSUME NEW c \in SdkConns, SdkResult(c) \/ SdkCleanup(c) PROVE PlaceInv' /\ Final
  <2>1. CASE SdkCleanup(c)
    <3>1. UNCHANGED <<thread, buffered, blocked, fate, issued>>
      BY <2>1 DEF SdkCleanup
    <3> QED BY <3>1, NothingMoves
  <2>2. CASE SdkResult(c)
    BY <1>6, <2>2, PlacesReply DEF SdkResult, Conns
  <2> QED BY <1>8, <2>1, <2>2
<1>9. ASSUME NEW c \in CodexConns, CodexNext(c) PROVE PlaceInv' /\ Final
  <2>1. CASE CodexEnds(c)
    <3>1. UNCHANGED <<thread, buffered, blocked, fate, issued>>
      BY <2>1 DEF CodexEnds
    <3> QED BY <3>1, NothingMoves
  <2>2. CASE CodexReply(c)
    BY <1>6, <2>2, PlacesReply DEF CodexReply, Conns
  <2> QED BY <1>9, <2>1, <2>2, PlacesCheck, PlacesCheckTake, PlacesCancelled DEF CodexNext
<1> QED BY <1>1, <1>2, <1>3, <1>4, <1>5, <1>7, <1>8, <1>9 DEF Next

\* At the start there is no message.
LEMMA PlacesInit == Init => PlaceInv
<1> SUFFICES ASSUME Init PROVE PlaceInv
  OBVIOUS
<1>1. issued = 0 /\ MaxMsgs \in Nat /\ BufferMax \in Nat /\ Len(<<>>) = 0
  BY RoutingAssumption DEF Init
<1>2. /\ Distinct(buffered) /\ Ids(buffered) = {} /\ Len(buffered) <= BufferMax
      /\ \A t \in Tasks : Distinct(blocked[t]) /\ Ids(blocked[t]) = {}
  BY <1>1, EmptyList DEF Init
<1>3. \A x \in Threads : ThreadOK(thread[x]) /\ Keeps(thread[x]) = {}
  BY IdleKeeps DEF Init
<1>4. \A p \in Places : Where[p] = {}
  BY <1>2, <1>3, InPlaces, PlacesDiffer
<1>5. Apart(Places, Where)
  BY <1>4 DEF Apart
<1>6. \A c \in Conns : thread[c] = Idle
  BY DEF Init, Threads
<1>7. \A i \in 1..MaxMsgs : fate[i] = "none" /\ i > issued
  BY <1>1 DEF Init
<1> QED BY <1>1, <1>2, <1>3, <1>4, <1>5, <1>6, <1>7 DEF PlaceInv, BufferBounded

\* A message that occurs in a list occurs there once.
LEMMA OnceInList ==
  ASSUME NEW s, Distinct(s), NEW i
  PROVE  Cardinality({k \in DOMAIN s : s[k].id = i}) = IF i \in Ids(s) THEN 1 ELSE 0
<1> DEFINE K == {k \in DOMAIN s : s[k].id = i}
<1>1. CASE i \in Ids(s)
  <2>1. PICK k \in DOMAIN s : s[k].id = i
    BY <1>1 DEF Ids
  <2>2. K = {k}
    BY <2>1 DEF Distinct
  <2> HIDE DEF K
  <2>3. Cardinality(K) = 1
    BY <2>2, FS_Singleton
  <2> QED BY <1>1, <2>3 DEF K
<1>2. CASE i \notin Ids(s)
  <2>1. K = {}
    BY <1>2 DEF Ids
  <2> HIDE DEF K
  <2>2. Cardinality(K) = 0
    BY <2>1, FS_EmptySet
  <2> QED BY <1>2, <2>2 DEF K
<1> QED BY <1>1, <1>2

\* A set with at most one element.
LEMMA OneOrNone ==
  ASSUME NEW S, \A a, b \in S : a = b
  PROVE  Cardinality(S) = IF S = {} THEN 0 ELSE 1
<1>1. CASE S = {}
  BY <1>1, FS_EmptySet
<1>2. CASE S # {}
  <2>1. PICK a \in S : TRUE
    BY <1>2
  <2>2. S = {a}
    BY <2>1
  <2> QED BY <1>2, <2>2, FS_Singleton
<1> QED BY <1>1, <1>2

\* Messages that are in one place each are counted once.
LEMMA PlacesCount == PlaceInv => ExactlyOnePlace
<1> SUFFICES ASSUME PlaceInv, NEW i \in 1..MaxMsgs
             PROVE  Copies(i) = IF fate[i] = "live" THEN 1 ELSE 0
  BY DEF ExactlyOnePlace
<1> DEFINE atBuffer == Cardinality({k \in DOMAIN buffered : buffered[k].id = i})
           atGate == {t \in Tasks : i \in Ids(blocked[t])}
           held == {x \in Threads : i \in Holds(x)}
           w == Where
<1>1. atBuffer = IF i \in Ids(buffered) THEN 1 ELSE 0
  BY OnceInList DEF PlaceInv
<1>2. \A x \in Threads : Holds(x) = Keeps(thread[x])
  BY DEF Holds, Keeps, Carrying
<1>3. /\ Apart(Places, w)
      /\ fate[i] = "live" <=> \E p \in Places : i \in w[p]
  BY DEF PlaceInv
<1>4. /\ w[<<"buffer", None>>] = Ids(buffered)
      /\ \A t \in Tasks : w[<<"gate", t>>] = Ids(blocked[t])
      /\ \A x \in Threads : w[<<"thread", x>>] = Keeps(thread[x])
  BY InPlaces
<1> HIDE DEF w
<1>5. \A p, q \in Places : i \in w[p] /\ i \in w[q] => p = q
  BY <1>3 DEF Apart
<1>6. \A t, u \in atGate : t = u
  <2> SUFFICES ASSUME NEW t \in atGate, NEW u \in atGate PROVE t = u
    OBVIOUS
  <2>1. /\ <<"gate", t>> \in Places /\ <<"gate", u>> \in Places
        /\ i \in w[<<"gate", t>>] /\ i \in w[<<"gate", u>>]
    BY <1>4, PlacesDiffer
  <2>2. <<"gate", t>> = <<"gate", u>>
    BY <1>5, <2>1
  <2> QED BY <2>2
<1>7. \A x, y \in held : x = y
  <2> SUFFICES ASSUME NEW x \in held, NEW y \in held PROVE x = y
    OBVIOUS
  <2>1. /\ <<"thread", x>> \in Places /\ <<"thread", y>> \in Places
        /\ i \in w[<<"thread", x>>] /\ i \in w[<<"thread", y>>]
    BY <1>2, <1>4, PlacesDiffer
  <2>2. <<"thread", x>> = <<"thread", y>>
    BY <1>5, <2>1
  <2> QED BY <2>2
<1>8. /\ Cardinality(atGate) = IF atGate = {} THEN 0 ELSE 1
      /\ Cardinality(held) = IF held = {} THEN 0 ELSE 1
  <2> HIDE DEF atGate, held
  <2> QED BY <1>6, <1>7, OneOrNone
<1>9. /\ i \in Ids(buffered) => <<"buffer", None>> \in Places /\ i \in w[<<"buffer", None>>]
      /\ \A t \in atGate : <<"gate", t>> \in Places /\ i \in w[<<"gate", t>>]
      /\ \A x \in held : <<"thread", x>> \in Places /\ i \in w[<<"thread", x>>]
  BY <1>2, <1>4, PlacesDiffer
<1>10. /\ i \in Ids(buffered) => atGate = {} /\ held = {}
       /\ atGate # {} => held = {}
  <2>1. ASSUME i \in Ids(buffered), NEW t \in atGate PROVE FALSE
    <3>1. <<"gate", t>> = <<"buffer", None>>
      BY <1>5, <1>9, <2>1
    <3> QED BY <2>1, <3>1, PlacesDiffer
  <2>2. ASSUME i \in Ids(buffered), NEW x \in held PROVE FALSE
    <3>1. <<"thread", x>> = <<"buffer", None>>
      BY <1>5, <1>9, <2>2
    <3> QED BY <2>2, <3>1, PlacesDiffer
  <2>3. ASSUME NEW t \in atGate, NEW x \in held PROVE FALSE
    <3>1. <<"gate", t>> = <<"thread", x>>
      BY <1>5, <1>9, <2>3
    <3> QED BY <2>3, <3>1, PlacesDiffer
  <2> HIDE DEF atGate, held
  <2> QED BY <2>1, <2>2, <2>3
<1>11. fate[i] = "live" <=> i \in Ids(buffered) \/ atGate # {} \/ held # {}
  <2>1. ASSUME NEW p \in Places, i \in w[p]
        PROVE  i \in Ids(buffered) \/ atGate # {} \/ held # {}
    <3>1. CASE p = <<"buffer", None>>
      BY <1>4, <2>1, <3>1
    <3>2. ASSUME NEW t \in Tasks, p = <<"gate", t>> PROVE t \in atGate
      BY <1>4, <2>1, <3>2
    <3>3. ASSUME NEW x \in Threads, p = <<"thread", x>> PROVE x \in held
      BY <1>2, <1>4, <2>1, <3>3
    <3> HIDE DEF atGate, held
    <3> QED BY <3>1, <3>2, <3>3, PlacesDiffer
  <2> HIDE DEF atGate, held
  <2> QED BY <1>3, <1>9, <2>1
<1>12. Copies(i) = atBuffer + Cardinality(atGate) + Cardinality(held)
  BY DEF Copies
<1> HIDE DEF atBuffer, atGate, held
<1> QED BY <1>1, <1>8, <1>10, <1>11, <1>12

----------------------------------------------------------------------------
(* Theorems *)

\* The places of messages are an invariant of the specification.
THEOREM PlacesHold == Spec => []PlaceInv
<1>1. Init => PlaceInv
  BY PlacesInit
<1>2. TypeOK /\ PlaceInv /\ [Next]_vars => PlaceInv'
  BY PlacesStep
<1> QED BY <1>1, <1>2, TypeCorrect, PTL DEF Spec

\* No message is in two places or lost from all of them while its fate is open,
\* whatever the threads interleave (routing.rs 27-180, state_delivery.rs 60-118).
THEOREM MessagesAreInOnePlace == Spec => []ExactlyOnePlace
  BY PlacesHold, PlacesCount, PTL

\* The buffer never grows beyond its bound (state_delivery.rs 78-84).
THEOREM BufferKeepsItsBound == Spec => []BufferBounded
<1>1. PlaceInv => BufferBounded
  BY DEF PlaceInv
<1> QED BY <1>1, PlacesHold, PTL

----------------------------------------------------------------------------
(* The handover of messages *)

\* A message is in a place exactly when the daemon has it.
LEMMA HasIsWhere == \A i : Has(i) <=> \E p \in Places : i \in Where[p]
<1> DEFINE w == Where
<1>1. /\ w[<<"buffer", None>>] = Ids(buffered)
      /\ \A t \in Tasks : w[<<"gate", t>>] = Ids(blocked[t])
      /\ \A x \in Threads : w[<<"thread", x>>] = Keeps(thread[x])
  BY InPlaces
<1>2. \A x \in Threads : Holds(x) = Keeps(thread[x])
  BY DEF Holds, Keeps, Carrying
<1> HIDE DEF w
<1>3. ASSUME NEW i PROVE Has(i) <=> \E p \in Places : i \in w[p]
  <2>1. i \in Ids(buffered) <=> \E k \in DOMAIN buffered : buffered[k].id = i
    BY DEF Ids
  <2>2. Has(i) <=> \/ \E x \in Threads : i \in Keeps(thread[x])
                   \/ i \in Ids(buffered)
                   \/ \E t \in Tasks : i \in Ids(blocked[t])
    BY <1>2, <2>1 DEF Has
  <2>3. ASSUME NEW p \in Places, i \in w[p] PROVE Has(i)
    <3>1. CASE p = <<"buffer", None>>
      BY <1>1, <2>2, <2>3, <3>1
    <3>2. ASSUME NEW t \in Tasks, p = <<"gate", t>> PROVE Has(i)
      BY <1>1, <2>2, <2>3, <3>2
    <3>3. ASSUME NEW x \in Threads, p = <<"thread", x>> PROVE Has(i)
      BY <1>1, <2>2, <2>3, <3>3
    <3> QED BY <3>1, <3>2, <3>3, PlacesDiffer
  <2>4. Has(i) => \E p \in Places : i \in w[p]
    BY <1>1, <2>2, PlacesDiffer
  <2> QED BY <2>3, <2>4
<1> QED BY <1>3 DEF w

\* What becomes of a message.
Fates ==
  {"none", "live", "handed", "shown", "refused", "lost", "overflow", "drained", "cancelled"}

StageFor(f) ==
  CASE f = "none" -> "fresh"
    [] f = "live" -> "held"
    [] f \in {"handed", "shown"} -> "delivered"
    [] OTHER -> "lost"

FatesOK == \A i \in 1..MaxMsgs : fate[i] \in Fates

\* Where a message is agrees with what became of it.
LEMMA StageIs == PlaceInv /\ FatesOK => \A i \in 1..MaxMsgs : Stage(i) = StageFor(fate[i])
<1> SUFFICES ASSUME PlaceInv, FatesOK, NEW i \in 1..MaxMsgs PROVE Stage(i) = StageFor(fate[i])
  OBVIOUS
<1>1. Has(i) <=> fate[i] = "live"
  BY HasIsWhere DEF PlaceInv
<1>2. fate[i] \in Fates
  BY DEF FatesOK
<1> QED BY <1>1, <1>2 DEF Stage, StageFor, Fates

\* The same after a step.
LEMMA StageIsNext ==
  PlaceInv' /\ FatesOK' => \A i \in 1..MaxMsgs : Stage(i)' = StageFor(fate'[i])
<1> DEFINE P == PlaceInv /\ FatesOK => \A i \in 1..MaxMsgs : Stage(i) = StageFor(fate[i])
<1>1. P
  BY StageIs
<1> HIDE DEF P
<1>2. P'
  BY <1>1, PTL
<1> QED BY <1>2 DEF P

\* Settling gives messages one of the fates.
LEMMA FatesSettle ==
  ASSUME FatesOK, NEW out, NEW what \in Fates, Settle(out, what)
  PROVE  FatesOK'
  BY DEF FatesOK, Settle

\* Each step settles fates, if it does, as one of those named.
LEMMA FatesStep == FatesOK /\ [Next]_vars => FatesOK'
<1> SUFFICES ASSUME FatesOK, [Next]_vars PROVE FatesOK'
  OBVIOUS
<1>1. CASE UNCHANGED fate
  BY <1>1 DEF FatesOK
<1>2. CASE \E what \in Fates : \E out : Settle(out, what)
  BY <1>2, FatesSettle
<1>3. ASSUME NEW x \in Threads, Step(x)
      PROVE  UNCHANGED fate \/ \E what \in Fates : \E out : Settle(out, what)
  <2>1. CASE Stamp(x) \/ ReplayDone(x)
    BY <2>1 DEF Stamp, ReplayDone
  <2>2. CASE Prepare(x)
    BY <2>2 DEF Prepare, Fates
  <2>3. CASE Choose(x)
    BY <2>3 DEF Choose, Fates
  <2>4. CASE Send(x)
    BY <2>4 DEF Send, Fates
  <2>5. CASE SendFails(x) \/ ReplayFails(x)
    BY <2>5 DEF SendFails, ReplayFails, BufferAll, Fates
  <2>6. CASE Observe(x)
    BY <2>6 DEF Observe, Fates
  <2>7. CASE ReplayOne(x)
    BY <2>7 DEF ReplayOne, Fates
  <2> QED BY <1>3, <2>1, <2>2, <2>3, <2>4, <2>5, <2>6, <2>7 DEF Step
<1>4. ASSUME NEW n, Issue(n) PROVE \E what \in Fates : \E out : Settle(out, what)
  BY <1>4 DEF Issue, Fates
<1>5. CASE UserCommand
  <2>1. ASSUME NEW target \in Targets, SendUserInput(target)
        PROVE  \E what \in Fates : \E out : Settle(out, what)
    BY <1>4, <2>1 DEF SendUserInput
  <2>2. ASSUME NEW l \in Launches, NEW c \in Sessions, Launch(l, c) PROVE UNCHANGED fate
    BY <2>2 DEF Launch
  <2>3. ASSUME NEW agent, NEW r, SetRole(agent, r) PROVE UNCHANGED fate
    BY <2>3 DEF SetRole
  <2>4. ASSUME NEW t, CreateTask(t) \/ SelectTask(t) PROVE UNCHANGED fate
    BY <2>4 DEF CreateTask, SelectTask
  <2>5. ASSUME NEW a, Stop(a) \/ AttachKnown(a) PROVE UNCHANGED fate
    BY <2>5 DEF Stop, AttachKnown
  <2>6. ApproveReview \/ ForceDisconnect => UNCHANGED fate
    BY DEF ApproveReview, Approve, ForceDisconnect
  <2> QED BY <1>1, <1>2, <1>5, <2>1, <2>2, <2>3, <2>4, <2>5, <2>6 DEF UserCommand
<1>6. CASE DaemonStep
  <2>1. LaunchFails \/ SdkReady \/ CodexAttach \/ Register \/ ForceClear => UNCHANGED fate
    BY DEF LaunchFails, SdkReady, CodexAttach, Register, ForceClear
  <2>2. Daemon \in Threads
    BY DEF Threads
  <2> QED BY <1>1, <1>2, <1>3, <1>6, <2>1, <2>2 DEF DaemonStep
<1>7. CASE SdkConnect
  BY <1>1, <1>7 DEF SdkConnect
<1>8. ASSUME NEW c \in Conns, Step(c) \/ Peer(c) PROVE FatesOK'
  <2>1. Peer(c) => UNCHANGED fate
    BY DEF Peer, PeerCloses, Fills, Drains
  <2> QED BY <1>1, <1>2, <1>3, <1>8, <2>1 DEF Threads
<1>9. ASSUME NEW c, NEW from, NEW reply, NEW pc, Reply(c, from, reply, pc) PROVE FatesOK'
  BY <1>2, <1>4, <1>9 DEF Reply
<1>10. ASSUME NEW c \in BridgeConns, BridgeNext(c) PROVE FatesOK'
  <2>1. BridgeAttach(c) \/ BridgeRejected(c) \/ BridgeCleanup(c) => UNCHANGED fate
    BY DEF BridgeAttach, BridgeRejected, BridgeCleanup
  <2>2. BridgeReply(c) => FatesOK'
    BY <1>9 DEF BridgeReply
  <2> QED BY <1>1, <1>10, <2>1, <2>2 DEF BridgeNext
<1>11. ASSUME NEW c \in SdkConns, SdkResult(c) \/ SdkCleanup(c) PROVE FatesOK'
  <2>1. SdkCleanup(c) => UNCHANGED fate
    BY DEF SdkCleanup
  <2>2. SdkResult(c) => FatesOK'
    BY <1>9 DEF SdkResult
  <2> QED BY <1>1, <1>11, <2>1, <2>2
<1>12. ASSUME NEW c \in CodexConns, CodexNext(c) PROVE FatesOK'
  <2>1. CheckMessages(c) \/ CodexEnds(c) => UNCHANGED fate
    BY DEF CheckMessages, CodexEnds
  <2>2. CodexReply(c) => FatesOK'
    BY <1>9 DEF CodexReply
  <2>3. CheckTake(c) \/ CodexCancelled(c) => \E what \in Fates : \E out : Settle(out, what)
    BY DEF CheckTake, CodexCancelled, Fates
  <2> QED BY <1>1, <1>2, <1>12, <2>1, <2>2, <2>3 DEF CodexNext
<1>13. CASE UNCHANGED vars
  BY <1>1, <1>13 DEF vars
<1> QED BY <1>5, <1>6, <1>7, <1>8, <1>10, <1>11, <1>12, <1>13 DEF Next

\* The daemon implements the handover of messages: each that is issued is then in one of the
\* places until it is delivered, once, or given up for good, whatever closes, fails, is
\* cancelled, approved or completed meanwhile (routing.rs 27-180).
THEOREM MessagesHandedOver == Spec => MessagesAreHandedOver
<1> DEFINE stage == [i \in 1..MaxMsgs |-> Stage(i)]
           Inv == TypeOK /\ PlaceInv /\ FatesOK
<1>1. Init => PlaceInv /\ FatesOK /\ Messages_!Init
  <2> SUFFICES ASSUME Init PROVE PlaceInv /\ FatesOK /\ Messages_!Init
    OBVIOUS
  <2>1. \A i \in 1..MaxMsgs : fate[i] = "none"
    BY DEF Init
  <2>2. PlaceInv /\ FatesOK
    BY <2>1, PlacesInit DEF FatesOK, Fates
  <2>3. \A i \in 1..MaxMsgs : Stage(i) = "fresh"
    BY <2>1, <2>2, StageIs DEF StageFor
  <2> HIDE DEF stage
  <2> QED BY <2>2, <2>3 DEF Messages_!Init
<1>2. Inv /\ [Next]_vars => PlaceInv' /\ FatesOK' /\ [Messages_!Next]_stage
  <2> SUFFICES ASSUME Inv, [Next]_vars PROVE PlaceInv' /\ FatesOK' /\ Messages_!Next
    OBVIOUS
  <2>1. PlaceInv' /\ FatesOK' /\ Final
    BY PlacesStep, FatesStep
  <2>2. \A i \in 1..MaxMsgs : Stage(i) = StageFor(fate[i]) /\ Stage(i)' = StageFor(fate'[i])
    BY <2>1, StageIs, StageIsNext
  <2>3. \A i \in 1..MaxMsgs : fate[i] \in Fates /\ fate'[i] \in Fates
    BY <2>1 DEF FatesOK
  <2>4. ASSUME NEW i \in 1..MaxMsgs
        PROVE  /\ Stage(i)' \in Messages_!Stages
               /\ Stage(i)' = Stage(i) \/ <<Stage(i), Stage(i)'>> \in Messages_!Moves
    <3> DEFINE old == Stage(i)
               new == Stage(i)'
    <3>1. old = StageFor(fate[i]) /\ new = StageFor(fate'[i])
      BY <2>2
    <3>2. /\ fate[i] = "none" => fate'[i] \in {"none", "live"}
          /\ fate[i] = "live" => fate'[i] # "none"
          /\ fate[i] \notin {"none", "live"} => fate'[i] = fate[i]
      BY <2>1 DEF Final
    <3> HIDE DEF old, new
    <3>3. new \in Messages_!Stages /\ (new = old \/ <<old, new>> \in Messages_!Moves)
      BY <3>1, <3>2 DEF StageFor, Messages_!Stages, Messages_!Moves
    <3> QED BY <3>3 DEF old, new
  <2> QED BY <2>1, <2>4 DEF Messages_!Next
<1> QED BY <1>1, <1>2, TypeCorrect, PTL DEF Spec, MessagesAreHandedOver, Messages_!Spec
============================================================================
