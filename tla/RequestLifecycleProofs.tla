------------------------ MODULE RequestLifecycleProofs ------------------------
(***************************************************************************)
(* Proofs about RequestLifecycle for any agents, bots and calls.           *)
(***************************************************************************)
EXTENDS RequestLifecycle, FiniteSetTheorems, SequenceTheorems, WellFoundedInduction, TLAPS

-----------------------------------------------------------------------------
(* The inductive invariant                                                 *)

\* The lists of a document are those of its participants.
ListsOf(d) == d.agents = Only(d.participants, Agents) /\ d.bots = Only(d.participants, Bots)

\* What a call holds: the document it loaded, whom it adds or removes, the
\* participants it sets.
Ops == {"idle", "add", "remove", "set", "assign", "route", "close", "closing", "reopen",
        "added", "removed", "replaced"}
WithDocument == {"add", "remove", "set", "route", "reopen", "added", "removed", "replaced"}
CallOK(k) ==
    /\ k = [op |-> k.op, arg |-> k.arg, doc |-> k.doc] /\ k.op \in Ops
    /\ k.op \in WithDocument => k.doc \in Documents
    /\ k.op \notin WithDocument => k.doc = Nothing
    /\ k.op \in {"add", "remove", "added", "removed"} => k.arg \in Members
    /\ k.op \in {"set", "replaced"} => k.arg \in ListsToSet
    /\ k.op = "remove" => k.arg \in ToSet(k.doc.participants)
CallsOK ==
    /\ call = [c \in Callers |-> call[c]]
    /\ \A c \in Callers : CallOK(call[c])

\* A document of the stored version has the stored arrays; one with another
\* version is older.
Older(d) ==
    /\ d.version <= request.version
    /\ d.version = request.version => Arrays(d) = Arrays(request)
VersionsOK ==
    /\ cache # Nothing => Older(cache)
    /\ \A c \in Callers : call[c].op \in WithDocument => Older(call[c].doc)

\* Unless a member was added twice, nobody is in the list twice.
NoneTwice(s) == \A i, j \in DOMAIN s : s[i] = s[j] => i = j
OnceOK == twice \/ NoneTwice(request.participants)

\* Calls in flight that have stored that m joins, or that m leaves, and have
\* not announced it.
Gains(k, m) ==
    \/ k.op = "added" /\ k.arg = m
    \/ k.op = "replaced" /\ m \in AddedBy(k.doc.participants, k.arg)
Loses(k, m) ==
    \/ k.op = "removed" /\ k.arg = m
    \/ k.op = "replaced" /\ m \in RemovedBy(k.doc.participants, k.arg)
Joining(m) == {c \in Callers : Gains(call[c], m)}
Leaving(m) == {c \in Callers : Loses(call[c], m)}
Busy == {c \in Callers : call[c].op # "idle"}
\* What was told and what is to be told add up to the participants.
TellsOK ==
    /\ IsFiniteSet(Busy)
    /\ twice \/ \A m \in Members :
        told[m] + Cardinality(Joining(m)) - Cardinality(Leaving(m)) =
            IF m \in ToSet(request.participants) THEN 1 ELSE 0

IInv ==
    /\ TypeOK /\ CallsOK /\ VersionsOK
    /\ OnceOK /\ TellsOK

-----------------------------------------------------------------------------
(* Lists: induction on the length, as the least length that fails          *)

(* A set of natural numbers with 0 that is closed under successor is all.  *)
LEMMA NatInduct ==
    ASSUME NEW S, 0 \in S, \A n \in Nat : n \in S => n + 1 \in S
    PROVE  Nat \subseteq S
<1> SUFFICES ASSUME Nat \ S # {} PROVE FALSE
    OBVIOUS
<1>1. PICK m \in Nat \ S : \A n \in Nat \ S : ~(<<n, m>> \in OpToRel(<, Nat))
    <2>1. Nat \ S \subseteq Nat
        OBVIOUS
    <2> QED  BY <2>1, NatLessThanWellFounded, WFMin, Zenon
<1>2. \A n \in Nat \ S : ~(n < m)
    BY <1>1, Zenon DEF OpToRel
<1>3. m # 0 /\ m \in Nat /\ m \notin S
    OBVIOUS
<1>4. m - 1 \in Nat /\ m - 1 < m /\ (m - 1) + 1 = m
    BY <1>3
<1>5. m - 1 \in S
    BY <1>2, <1>4
<1> QED  BY <1>3, <1>4, <1>5

\* The function that Only takes the last value of.
OnlyFrom(f, s, kind) ==
    [i \in 0 .. Len(s) |->
        IF i = 0 THEN <<>> ELSE IF s[i] \in kind THEN Append(f[i - 1], s[i]) ELSE f[i - 1]]
IsOnly(f, s, kind) == f = OnlyFrom(f, s, kind)

(* One function satisfies the recursion.                                   *)
LEMMA OnlyUnique ==
    ASSUME NEW V, NEW s \in Seq(V), NEW kind, NEW f, NEW g, IsOnly(f, s, kind), IsOnly(g, s, kind)
    PROVE  f = g
<1> DEFINE n == Len(s)
           Same == {i \in Nat : i \in 0 .. n => f[i] = g[i]}
<1>1. n \in Nat /\ DOMAIN f = 0 .. n /\ DOMAIN g = 0 .. n
    BY DEF IsOnly, OnlyFrom
<1>2. 0 \in Same
    BY <1>1 DEF IsOnly, OnlyFrom
<1>3. ASSUME NEW i \in Nat, i \in Same PROVE i + 1 \in Same
    <2> SUFFICES ASSUME i + 1 \in 0 .. n PROVE f[i + 1] = g[i + 1]
        BY <1>1
    <2>1. i \in 0 .. n /\ i + 1 # 0 /\ (i + 1) - 1 = i
        BY <1>1
    <2>2. f[i] = g[i]
        BY <1>3, <2>1
    <2>3. f[i + 1] = IF s[i + 1] \in kind THEN Append(f[i], s[i + 1]) ELSE f[i]
        BY <2>1 DEF IsOnly, OnlyFrom
    <2>4. g[i + 1] = IF s[i + 1] \in kind THEN Append(g[i], s[i + 1]) ELSE g[i]
        BY <2>1 DEF IsOnly, OnlyFrom
    <2> QED  BY <2>2, <2>3, <2>4
<1>4. Nat \subseteq Same
    BY <1>2, <1>3, NatInduct
<1>5. \A i \in 0 .. n : f[i] = g[i]
    BY <1>1, <1>4
<1> QED  BY <1>5 DEF IsOnly, OnlyFrom

(* One element more in the list is one value more of the function.         *)
LEMMA OnlyExtends ==
    ASSUME NEW V, NEW s \in Seq(V), NEW x \in V, NEW kind, NEW f, IsOnly(f, s, kind)
    PROVE  LET n == Len(s)
               last == IF x \in kind THEN Append(f[n], x) ELSE f[n]
           IN  IsOnly([i \in 0 .. n + 1 |-> IF i = n + 1 THEN last ELSE f[i]], Append(s, x), kind)
<1> DEFINE n == Len(s)
           last == IF x \in kind THEN Append(f[n], x) ELSE f[n]
           g == [i \in 0 .. n + 1 |-> IF i = n + 1 THEN last ELSE f[i]]
           t == Append(s, x)
<1>1. n \in Nat /\ Len(t) = n + 1 /\ t[n + 1] = x /\ \A i \in 1 .. n : t[i] = s[i]
    OBVIOUS
<1>2. ASSUME NEW i \in 0 .. n + 1
      PROVE  g[i] = IF i = 0 THEN <<>>
                    ELSE IF t[i] \in kind THEN Append(g[i - 1], t[i]) ELSE g[i - 1]
    <2>1. CASE i = 0
        BY <1>1, <2>1 DEF IsOnly, OnlyFrom
    <2>2. CASE i = n + 1
        <3>1. g[i] = last /\ i # 0 /\ i - 1 = n /\ n \in 0 .. n + 1 /\ n # n + 1
            BY <1>1, <2>2
        <3>2. g[i - 1] = f[n]
            BY <3>1
        <3> QED  BY <1>1, <2>2, <3>1, <3>2
    <2>3. CASE i \in 1 .. n
        <3>1. /\ i \in 0 .. n /\ i # 0 /\ i # n + 1
              /\ i - 1 \in 0 .. n + 1 /\ i - 1 # n + 1 /\ t[i] = s[i]
            BY <1>1, <2>3
        <3>2. g[i] = f[i] /\ g[i - 1] = f[i - 1]
            BY <3>1
        <3>3. f[i] = IF s[i] \in kind THEN Append(f[i - 1], s[i]) ELSE f[i - 1]
            BY <3>1 DEF IsOnly, OnlyFrom
        <3> QED  BY <3>1, <3>2, <3>3
    <2> QED  BY <1>1, <2>1, <2>2, <2>3
<1> HIDE DEF g, last
<1>3. OnlyFrom(g, t, kind) = g
    <2>1. g = [i \in 0 .. n + 1 |-> g[i]]
        BY DEF g
    <2> QED  BY <1>1, <1>2, <2>1 DEF OnlyFrom
<1> QED  BY <1>3 DEF IsOnly, g, last

(* Every list but the empty one is a shorter one with an element appended. *)
LEMMA LastApart ==
    ASSUME NEW V, NEW n \in Nat, NEW s \in Seq(V), Len(s) = n + 1
    PROVE  \E t \in Seq(V) : \E x \in V : Len(t) = n /\ s = Append(t, x)
<1> DEFINE u == [i \in 1 .. n |-> s[i]]
           y == s[n + 1]
<1>1. y \in V /\ \A i \in 1 .. n : s[i] \in V
    OBVIOUS
<1>2. u \in Seq(V) /\ Len(u) = n /\ \A i \in 1 .. n : u[i] = s[i]
    BY <1>1
<1> HIDE DEF u, y
<1>3. Append(u, y) \in Seq(V) /\ Len(Append(u, y)) = n + 1
    BY <1>1, <1>2
<1>4. \A i \in 1 .. n + 1 : Append(u, y)[i] = s[i]
    BY <1>1, <1>2 DEF y
<1>5. s = Append(u, y)
    BY <1>3, <1>4, SeqEqual
<1> QED  BY <1>1, <1>2, <1>5

(* The recursion has a solution for every list.                            *)
LEMMA OnlyExists ==
    ASSUME NEW V, NEW kind
    PROVE  \A s \in Seq(V) : \E f : IsOnly(f, s, kind)
<1> DEFINE Has == {n \in Nat : \A s \in Seq(V) : Len(s) = n => \E f : IsOnly(f, s, kind)}
<1>1. 0 \in Has
    <2> SUFFICES ASSUME NEW s \in Seq(V), Len(s) = 0 PROVE \E f : IsOnly(f, s, kind)
        OBVIOUS
    <2> DEFINE f == [i \in 0 .. 0 |-> <<>>]
    <2>1. f = OnlyFrom(f, s, kind)
        BY DEF OnlyFrom
    <2> QED  BY <2>1 DEF IsOnly
<1>2. ASSUME NEW n \in Nat, n \in Has PROVE n + 1 \in Has
    <2> SUFFICES ASSUME NEW s \in Seq(V), Len(s) = n + 1 PROVE \E f : IsOnly(f, s, kind)
        OBVIOUS
    <2>1. PICK t \in Seq(V) : \E x \in V : Len(t) = n /\ s = Append(t, x)
        BY LastApart
    <2>3. PICK x \in V : Len(t) = n /\ s = Append(t, x)
        BY <2>1
    <2>2. PICK f : IsOnly(f, t, kind)
        BY <1>2, <2>3
    <2> QED  BY <2>2, <2>3, OnlyExtends
<1>3. Nat \subseteq Has
    BY <1>1, <1>2, NatInduct
<1> QED  BY <1>3

(* Only(s, kind) is the last value of every solution.                      *)
LEMMA OnlyIs ==
    ASSUME NEW V, NEW s \in Seq(V), NEW kind, NEW f, IsOnly(f, s, kind)
    PROVE  Only(s, kind) = f[Len(s)]
<1> DEFINE c == CHOOSE g : g = OnlyFrom(g, s, kind)
<1>1. \E g : g = OnlyFrom(g, s, kind)
    BY DEF IsOnly
<1>2. c = OnlyFrom(c, s, kind)
    BY <1>1
<1>3. c = f
    BY <1>2, OnlyUnique DEF IsOnly
<1>4. Only(s, kind) = c[Len(s)]
    BY DEF Only, OnlyFrom
<1> QED  BY <1>3, <1>4

(* Only, as a recursion on the end of the list.                            *)
LEMMA OnlyEmpty ==
    ASSUME NEW kind
    PROVE  Only(<<>>, kind) = <<>>
<1>2. <<>> \in Seq(Nat) /\ Len(<<>>) = 0
    OBVIOUS
<1>1. PICK f : IsOnly(f, <<>>, kind)
    BY <1>2, OnlyExists
<1>3. f[0] = <<>>
    BY <1>1, <1>2 DEF IsOnly, OnlyFrom
<1> QED  BY <1>1, <1>2, <1>3, OnlyIs

LEMMA OnlyAppend ==
    ASSUME NEW V, NEW s \in Seq(V), NEW x \in V, NEW kind
    PROVE  Only(Append(s, x), kind) =
                IF x \in kind THEN Append(Only(s, kind), x) ELSE Only(s, kind)
<1>1. PICK f : IsOnly(f, s, kind)
    BY OnlyExists
<1> DEFINE n == Len(s)
           last == IF x \in kind THEN Append(f[n], x) ELSE f[n]
           g == [i \in 0 .. n + 1 |-> IF i = n + 1 THEN last ELSE f[i]]
<1>2. IsOnly(g, Append(s, x), kind)
    BY <1>1, OnlyExtends
<1>3. Append(s, x) \in Seq(V) /\ Len(Append(s, x)) = n + 1 /\ n + 1 \in 0 .. n + 1
    OBVIOUS
<1> HIDE DEF g
<1>4. Only(Append(s, x), kind) = g[n + 1]
    BY <1>2, <1>3, OnlyIs
<1>5. g[n + 1] = last
    BY <1>3 DEF g
<1>6. Only(s, kind) = f[n]
    BY <1>1, OnlyIs
<1> QED  BY <1>4, <1>5, <1>6

(* The set of a list with an element more.                                 *)
LEMMA SetOfAppend ==
    ASSUME NEW V, NEW s \in Seq(V), NEW x \in V
    PROVE  ToSet(Append(s, x)) = ToSet(s) \cup {x}
<1>1. /\ DOMAIN Append(s, x) = 1 .. Len(s) + 1 /\ DOMAIN s = 1 .. Len(s) /\ Len(s) \in Nat
      /\ Append(s, x)[Len(s) + 1] = x /\ \A i \in 1 .. Len(s) : Append(s, x)[i] = s[i]
    OBVIOUS
<1>2. \A i \in 1 .. Len(s) + 1 : i \in 1 .. Len(s) \/ i = Len(s) + 1
    BY <1>1
<1>3. Len(s) + 1 \in 1 .. Len(s) + 1 /\ 1 .. Len(s) \subseteq 1 .. Len(s) + 1
    BY <1>1
<1> QED  BY <1>1, <1>2, <1>3 DEF ToSet

(* What Only keeps: the members of its kind, and no others.                *)
LEMMA OnlyOfKind ==
    ASSUME NEW V, NEW kind
    PROVE  \A s \in Seq(V) :
              /\ Only(s, kind) \in Seq(V \cap kind)
              /\ ToSet(Only(s, kind)) = ToSet(s) \cap kind
<1> DEFINE Kept(s) == /\ Only(s, kind) \in Seq(V \cap kind)
                      /\ ToSet(Only(s, kind)) = ToSet(s) \cap kind
           Good == {n \in Nat : \A s \in Seq(V) : Len(s) = n => Kept(s)}
<1>1. 0 \in Good
    <2> SUFFICES ASSUME NEW s \in Seq(V), Len(s) = 0 PROVE Kept(s)
        OBVIOUS
    <2>1. s = <<>> /\ ToSet(<<>>) = {} /\ <<>> \in Seq(V \cap kind)
        BY DEF ToSet
    <2> QED  BY <2>1, OnlyEmpty
<1>2. ASSUME NEW n \in Nat, n \in Good PROVE n + 1 \in Good
    <2> SUFFICES ASSUME NEW s \in Seq(V), Len(s) = n + 1 PROVE Kept(s)
        OBVIOUS
    <2>1. PICK t \in Seq(V) : \E x \in V : Len(t) = n /\ s = Append(t, x)
        BY LastApart
    <2>2. PICK x \in V : Len(t) = n /\ s = Append(t, x)
        BY <2>1
    <2>3. Kept(t)
        BY <1>2, <2>2
    <2>4. ToSet(s) = ToSet(t) \cup {x}
        BY <2>2, SetOfAppend
    <2>5. CASE x \in kind
        <3>1. Only(s, kind) = Append(Only(t, kind), x)
            BY <2>2, <2>5, OnlyAppend
        <3>2. Only(s, kind) \in Seq(V \cap kind)
            BY <2>3, <2>5, <3>1
        <3>3. ToSet(Only(s, kind)) = ToSet(Only(t, kind)) \cup {x}
            BY <2>3, <2>5, <3>1, SetOfAppend
        <3> QED  BY <2>3, <2>4, <2>5, <3>2, <3>3
    <2>6. CASE x \notin kind
        BY <2>2, <2>3, <2>4, <2>6, OnlyAppend
    <2> QED  BY <2>5, <2>6
<1>3. Nat \subseteq Good
    <2> HIDE DEF Kept
    <2> QED  BY <1>1, <1>2, NatInduct
<1> QED  BY <1>3

(* RemoveFirst takes the first occurrence out.                             *)
LEMMA RemovedAt ==
    ASSUME NEW V, NEW s \in Seq(V), NEW m \in ToSet(s)
    PROVE  \E k \in 1 .. Len(s) :
              /\ s[k] = m /\ \A j \in 1 .. k - 1 : s[j] # m
              /\ RemoveFirst(s, m) = [i \in 1 .. Len(s) - 1 |-> IF i < k THEN s[i] ELSE s[i + 1]]
<1> DEFINE I == {i \in 1 .. Len(s) : s[i] = m}
<1>1. I \subseteq Nat /\ I # {}
    BY DEF ToSet
<1>2. \E k \in I : \A j \in I : k <= j
    <2>1. PICK k \in I : \A n \in I : ~(<<n, k>> \in OpToRel(<, Nat))
        BY <1>1, NatLessThanWellFounded, WFMin, Zenon
    <2>2. \A n \in I : ~(n < k)
        BY <1>1, <2>1, Zenon DEF OpToRel
    <2> QED  BY <1>1, <2>2
<1> DEFINE k == CHOOSE x \in I : \A y \in I : x <= y
<1>3. k \in I /\ \A j \in I : k <= j
    BY <1>2
<1>4. SelectInSeq(s, LAMBDA v : v = m) = k
    BY <1>1 DEF SelectInSeq, Min
<1> HIDE DEF k
<1>5. RemoveFirst(s, m) = SubSeq(s, 1, k - 1) \o SubSeq(s, k + 1, Len(s))
    BY <1>3, <1>4 DEF RemoveFirst, RemoveAt
<1>6. k \in 1 .. Len(s) /\ s[k] = m /\ \A j \in 1 .. k - 1 : s[j] # m
    BY <1>3
<1>0. Len(s) \in Nat /\ k \in Nat
    BY <1>6
<1> DEFINE u == SubSeq(s, 1, k - 1)
           v == SubSeq(s, k + 1, Len(s))
           w == [i \in 1 .. Len(s) - 1 |-> IF i < k THEN s[i] ELSE s[i + 1]]
<1>7. /\ u \in Seq(V) /\ Len(u) = k - 1 /\ \A i \in 1 .. k - 1 : u[i] = s[i]
      /\ v \in Seq(V) /\ Len(v) = Len(s) - k /\ \A i \in 1 .. Len(s) - k : v[i] = s[k + i]
    BY <1>6
<1>8. w \in Seq(V) /\ Len(w) = Len(s) - 1
    BY <1>6
<1> HIDE DEF u, v
<1>9. u \o v \in Seq(V) /\ Len(u \o v) = Len(s) - 1
    <2>1. u \o v \in Seq(V) /\ Len(u \o v) = Len(u) + Len(v)
        BY <1>7, ConcatProperties
    <2> QED  BY <1>0, <1>7, <2>1
<1>10. ASSUME NEW i \in 1 .. Len(s) - 1 PROVE (u \o v)[i] = w[i]
    <2>1. CASE i < k
        <3>1. (u \o v)[i] = u[i]
            BY <1>6, <1>7, <2>1
        <3> QED  BY <1>6, <1>7, <2>1, <3>1
    <2>2. CASE i >= k
        <3>1. (u \o v)[i] = v[i - (k - 1)]
            BY <1>6, <1>7, <2>2
        <3>2. i - (k - 1) \in 1 .. Len(s) - k /\ k + (i - (k - 1)) = i + 1
            BY <1>6, <2>2
        <3> QED  BY <1>6, <1>7, <2>2, <3>1, <3>2
    <2>3. i < k \/ i >= k
        BY <1>0
    <2> HIDE DEF w
    <2> QED  BY <2>1, <2>2, <2>3
<1>11. u \o v = w
    BY <1>8, <1>9, <1>10, SeqEqual
<1> QED  BY <1>5, <1>6, <1>11 DEF u, v

(* ... and is one shorter; the others stay; nobody who was there once is.  *)
LEMMA RemovedOnce ==
    ASSUME NEW V, NEW s \in Seq(V), NEW m
    PROVE  /\ RemoveFirst(s, m) \in Seq(V)
           /\ m \in ToSet(s) => RemoveFirst(s, m) # s
           /\ m \notin ToSet(s) => RemoveFirst(s, m) = s
           /\ \A x : x # m => (x \in ToSet(RemoveFirst(s, m)) <=> x \in ToSet(s))
           /\ NoneTwice(s) => NoneTwice(RemoveFirst(s, m)) /\ m \notin ToSet(RemoveFirst(s, m))
<1>1. CASE m \notin ToSet(s)
    <2>1. RemoveFirst(s, m) = s
        BY <1>1 DEF RemoveFirst, ToSet
    <2> QED  BY <1>1, <2>1
<1>2. CASE m \in ToSet(s)
    <2>1. PICK k \in 1 .. Len(s) :
              /\ s[k] = m /\ \A j \in 1 .. k - 1 : s[j] # m
              /\ RemoveFirst(s, m) = [i \in 1 .. Len(s) - 1 |-> IF i < k THEN s[i] ELSE s[i + 1]]
        BY <1>2, RemovedAt
    <2> DEFINE r == RemoveFirst(s, m)
               Back(i) == IF i < k THEN i ELSE i + 1
    <2>2. /\ r \in Seq(V) /\ DOMAIN r = 1 .. Len(s) - 1 /\ Len(r) = Len(s) - 1
          /\ \A i \in 1 .. Len(s) - 1 : r[i] = s[Back(i)] /\ Back(i) \in 1 .. Len(s)
                /\ Back(i) # k
        BY <2>1
    <2>3. \A i, j \in 1 .. Len(s) - 1 : Back(i) = Back(j) => i = j
        BY <2>1
    <2>4. \A j \in 1 .. Len(s) : j # k => \E i \in 1 .. Len(s) - 1 : Back(i) = j
        <3> SUFFICES ASSUME NEW j \in 1 .. Len(s), j # k
                     PROVE  \E i \in 1 .. Len(s) - 1 : Back(i) = j
            OBVIOUS
        <3>1. CASE j < k
            BY <2>1, <3>1
        <3>2. CASE j > k
            <4>1. j - 1 \in 1 .. Len(s) - 1 /\ Back(j - 1) = j
                BY <2>1, <3>2
            <4> QED  BY <4>1
        <3> QED  BY <2>1, <3>1, <3>2
    <2> HIDE DEF r, Back
    <2>5. \A x : x # m => (x \in ToSet(r) <=> x \in ToSet(s))
        <3> SUFFICES ASSUME NEW x, x # m PROVE x \in ToSet(r) <=> x \in ToSet(s)
            OBVIOUS
        <3>1. ASSUME x \in ToSet(r) PROVE x \in ToSet(s)
            <4>1. PICK i \in 1 .. Len(s) - 1 : x = r[i]
                BY <2>2, <3>1 DEF ToSet
            <4>2. Back(i) \in DOMAIN s /\ x = s[Back(i)]
                BY <2>2, <4>1
            <4> QED  BY <4>2 DEF ToSet
        <3>2. ASSUME x \in ToSet(s) PROVE x \in ToSet(r)
            <4>1. PICK j \in 1 .. Len(s) : x = s[j]
                BY <3>2 DEF ToSet
            <4>2. PICK i \in 1 .. Len(s) - 1 : Back(i) = j
                BY <2>1, <2>4, <4>1
            <4>3. i \in DOMAIN r /\ x = r[i]
                BY <2>2, <4>1, <4>2
            <4> QED  BY <4>3 DEF ToSet
        <3> QED  BY <3>1, <3>2
    <2>6. r # s
        BY <2>2
    <2>7. NoneTwice(s) => NoneTwice(r) /\ m \notin ToSet(r)
        <3> SUFFICES ASSUME NoneTwice(s) PROVE NoneTwice(r) /\ m \notin ToSet(r)
            OBVIOUS
        <3>1. \A i, j \in 1 .. Len(s) : s[i] = s[j] => i = j
            BY DEF NoneTwice
        <3>2. NoneTwice(r)
            BY <2>2, <2>3, <3>1 DEF NoneTwice
        <3>3. \A i \in 1 .. Len(s) - 1 : r[i] # m
            BY <2>1, <2>2, <3>1
        <3> QED  BY <2>2, <3>2, <3>3 DEF ToSet
    <2> QED  BY <1>2, <2>2, <2>5, <2>6, <2>7 DEF r
<1> QED  BY <1>1, <1>2

(* RemoveFirst of a list with one element more.                            *)
LEMMA RemovedAppend ==
    ASSUME NEW V, NEW s \in Seq(V), NEW x \in V, NEW m
    PROVE  RemoveFirst(Append(s, x), m) =
              IF m \in ToSet(s) THEN Append(RemoveFirst(s, m), x)
              ELSE IF m = x THEN s ELSE Append(s, x)
<1> DEFINE t == Append(s, x)
           n == Len(s)
<1>0. /\ t \in Seq(V) /\ Len(t) = n + 1 /\ n \in Nat /\ t[n + 1] = x
      /\ \A i \in 1 .. n : t[i] = s[i]
    OBVIOUS
<1>1. ToSet(t) = ToSet(s) \cup {x}
    BY SetOfAppend
<1>2. CASE m \notin ToSet(s) /\ m # x
    BY <1>0, <1>1, <1>2, RemovedOnce
<1>3. CASE m \in ToSet(s) \/ m = x
    <2>1. PICK k \in 1 .. n + 1 :
            /\ t[k] = m /\ \A j \in 1 .. k - 1 : t[j] # m
            /\ RemoveFirst(t, m) = [i \in 1 .. n |-> IF i < k THEN t[i] ELSE t[i + 1]]
        <3>1. m \in ToSet(t) /\ (n + 1) - 1 = n
            BY <1>0, <1>1, <1>3
        <3> HIDE DEF t
        <3> QED  BY <1>0, <3>1, RemovedAt
    <2> DEFINE w == [i \in 1 .. n |-> IF i < k THEN t[i] ELSE t[i + 1]]
    <2>2. CASE m \in ToSet(s)
        <3>1. PICK h \in 1 .. n :
                /\ s[h] = m /\ \A j \in 1 .. h - 1 : s[j] # m
                /\ RemoveFirst(s, m) = [i \in 1 .. n - 1 |-> IF i < h THEN s[i] ELSE s[i + 1]]
            BY <2>2, RemovedAt
        <3>2. k = h
            <4>1. ~(h < k)
                BY <1>0, <2>1, <3>1
            <4>2. ~(k < h)
                BY <1>0, <2>1, <3>1
            <4> QED  BY <1>0, <4>1, <4>2
        <3> DEFINE r == [i \in 1 .. n - 1 |-> IF i < h THEN s[i] ELSE s[i + 1]]
        <3>3. r \in Seq(V) /\ Len(r) = n - 1
            BY <1>0, <3>1
        <3>4. w \in Seq(V) /\ Len(w) = n
            BY <1>0
        <3>5. \A i \in 1 .. n - 1 : w[i] = r[i]
            BY <1>0, <3>1, <3>2
        <3>6. w[n] = x
            BY <1>0, <3>1, <3>2
        <3> HIDE DEF r, w
        <3>7. Append(r, x) \in Seq(V) /\ Len(Append(r, x)) = n
            BY <1>0, <3>3
        <3>8. \A i \in 1 .. n : w[i] = Append(r, x)[i]
            <4>1. Append(r, x)[n] = x /\ \A i \in 1 .. n - 1 : Append(r, x)[i] = r[i]
                <5>1. (n - 1) + 1 = n
                    BY <1>0
                <5> QED  BY <3>3, <5>1, AppendProperties
            <4>2. \A i \in 1 .. n : i = n \/ i \in 1 .. n - 1
                BY <1>0
            <4> QED  BY <3>5, <3>6, <4>1, <4>2
        <3>9. w = Append(r, x)
            BY <3>4, <3>7, <3>8, SeqEqual
        <3> QED  BY <2>1, <2>2, <3>1, <3>9 DEF r, w
    <2>3. CASE m \notin ToSet(s) /\ m = x
        <3>1. k = n + 1
            BY <1>0, <2>1, <2>3 DEF ToSet
        <3>2. w \in Seq(V) /\ Len(w) = n /\ \A i \in 1 .. n : w[i] = s[i]
            BY <1>0, <3>1
        <3> HIDE DEF w
        <3>3. w = s
            BY <3>2, SeqEqual
        <3> QED  BY <2>1, <2>3, <3>3 DEF w
    <2> QED  BY <1>3, <2>2, <2>3
<1> QED  BY <1>2, <1>3

(* Taking a member out of the participants and out of its own list is the  *)
(* same as filling the lists from the participants that are left.          *)
LEMMA OnlyRemoved ==
    ASSUME NEW V, NEW kind, NEW m
    PROVE  \A s \in Seq(V) : Only(RemoveFirst(s, m), kind) = RemoveFirst(Only(s, kind), m)
<1> DEFINE Same(s) == Only(RemoveFirst(s, m), kind) = RemoveFirst(Only(s, kind), m)
           Good == {n \in Nat : \A s \in Seq(V) : Len(s) = n => Same(s)}
<1>1. 0 \in Good
    <2> SUFFICES ASSUME NEW s \in Seq(V), Len(s) = 0 PROVE Same(s)
        OBVIOUS
    <2>1. s = <<>> /\ m \notin ToSet(s)
        BY DEF ToSet
    <2>2. RemoveFirst(<<>>, m) = <<>>
        BY <2>1, RemovedOnce
    <2> QED  BY <2>1, <2>2, OnlyEmpty
<1>2. ASSUME NEW n \in Nat, n \in Good PROVE n + 1 \in Good
    <2> SUFFICES ASSUME NEW s \in Seq(V), Len(s) = n + 1 PROVE Same(s)
        OBVIOUS
    <2> HIDE DEF Same, Good
    <2>1. PICK t \in Seq(V) : \E x \in V : Len(t) = n /\ s = Append(t, x)
        BY LastApart
    <2>2. PICK x \in V : Len(t) = n /\ s = Append(t, x)
        BY <2>1
    <2>3. Only(RemoveFirst(t, m), kind) = RemoveFirst(Only(t, kind), m)
        BY <1>2, <2>2 DEF Same, Good
    <2>4. /\ Only(t, kind) \in Seq(V) /\ ToSet(Only(t, kind)) = ToSet(t) \cap kind
          /\ RemoveFirst(t, m) \in Seq(V)
        <3>1. Only(t, kind) \in Seq(V \cap kind)
            BY OnlyOfKind
        <3>2. Only(t, kind) \in Seq(V)
            BY <3>1
        <3> QED  BY <3>2, OnlyOfKind, RemovedOnce
    <2> DEFINE o == Only(t, kind)
    <2>5. m \notin kind => RemoveFirst(o, m) = o
        BY <2>4, RemovedOnce
    <2>6. Only(s, kind) = IF x \in kind THEN Append(o, x) ELSE o
        BY <2>2, OnlyAppend
    <2>7. CASE m \in ToSet(t)
        <3>1. RemoveFirst(s, m) = Append(RemoveFirst(t, m), x)
            BY <2>2, <2>7, RemovedAppend
        <3>2. Only(RemoveFirst(s, m), kind) =
                IF x \in kind THEN Append(RemoveFirst(o, m), x) ELSE RemoveFirst(o, m)
            BY <2>3, <2>4, <3>1, OnlyAppend
        <3>3. x \in kind => RemoveFirst(Append(o, x), m) = Append(RemoveFirst(o, m), x)
            <4>1. CASE m \in kind
                BY <2>4, <2>7, <4>1, RemovedAppend
            <4>2. CASE m \notin kind
                <5>1. m \notin ToSet(o)
                    BY <2>4, <4>2
                <5> QED  BY <2>4, <2>5, <4>2, <5>1, RemovedAppend
            <4> QED  BY <4>1, <4>2
        <3> QED  BY <2>3, <2>6, <3>2, <3>3 DEF Same
    <2>8. CASE m \notin ToSet(t)
        <3>1. m \notin ToSet(o)
            BY <2>4, <2>8
        <3>2. RemoveFirst(s, m) = IF m = x THEN t ELSE Append(t, x)
            BY <2>2, <2>8, RemovedAppend
        <3>3. Only(RemoveFirst(s, m), kind) =
                IF m = x THEN o ELSE IF x \in kind THEN Append(o, x) ELSE o
            BY <3>2, OnlyAppend
        <3>4. RemoveFirst(o, m) = o
            BY <2>4, <3>1, RemovedOnce
        <3>5. x \in kind =>
                RemoveFirst(Append(o, x), m) = IF m = x THEN o ELSE Append(o, x)
            BY <2>4, <3>1, RemovedAppend
        <3> QED  BY <2>5, <2>6, <3>3, <3>4, <3>5 DEF Same
    <2> QED  BY <2>7, <2>8
<1>3. Nat \subseteq Good
    <2> HIDE DEF Same
    <2> QED  BY <1>1, <1>2, NatInduct
<1> QED  BY <1>3

-----------------------------------------------------------------------------
(* Documents                                                               *)

(* Nothing is no document, and Idle is a call.                             *)
LEMMA NothingIdle ==
    /\ Nothing \notin Documents
    /\ CallOK(Idle) /\ Idle.op = "idle" /\ Idle.doc = Nothing
<1>1. Nothing \notin Documents
    BY DEF Nothing, Documents, Statuses
<1>2. Idle.op = "idle" /\ Idle.doc = Nothing /\ Idle.arg = NoBot
    BY DEF Idle
<1>3. Idle = [op |-> Idle.op, arg |-> Idle.arg, doc |-> Idle.doc]
    BY DEF Idle
<1> QED  BY <1>1, <1>2, <1>3 DEF CallOK, Ops, WithDocument

(* The lists that calls set name members, nobody twice.                    *)
LEMMA ListsType ==
    ASSUME NEW members \in ListsToSet
    PROVE  members \in Seq(Members) /\ NoneTwice(members)
<1>1. CASE members = <<>>
    <2>1. <<>> \in Seq(Members) /\ DOMAIN <<>> = {}
        OBVIOUS
    <2> QED  BY <1>1, <2>1 DEF NoneTwice
<1>2. CASE \E m \in Members : members = <<m>>
    <2>1. PICK m \in Members : members = <<m>>
        BY <1>2
    <2>2. <<m>> \in Seq(Members) /\ DOMAIN <<m>> = {1}
        OBVIOUS
    <2> QED  BY <2>1, <2>2 DEF NoneTwice
<1> QED  BY <1>1, <1>2 DEF ListsToSet

(* ... and so do those that the routing chooses.                           *)
LEMMA ChosenType ==
    ASSUME NEW nobot, NEW available \in SUBSET Agents, NEW members \in Chosen(nobot, available)
    PROVE  members \in ListsToSet
<1>1. Operators(nobot, available) \subseteq Members
    BY RequestAssumption DEF Operators, Members
<1> QED  BY <1>1 DEF Chosen, ListsToSet

(* The lists of participants have the types of their kind.                 *)
LEMMA OnlyType ==
    ASSUME NEW members \in Seq(Members)
    PROVE  Only(members, Agents) \in Seq(Agents) /\ Only(members, Bots) \in Seq(Bots)
<1>1. Only(members, Agents) \in Seq(Members \cap Agents) /\ Only(members, Bots) \in Seq(Members \cap Bots)
    BY OnlyOfKind
<1>2. Members \cap Agents = Agents /\ Members \cap Bots = Bots
    BY DEF Members
<1> QED  BY <1>1, <1>2

(* A document made from a list of participants, and from those it lists.   *)
LEMMA DocumentType ==
    ASSUME NEW status \in Statuses, NEW members \in Seq(Members), NEW listed \in Seq(Members)
    PROVE  /\ Document(status, members, listed) \in Documents
           /\ Document(status, members, listed).participants = members
<1>1. Only(listed, Agents) \in Seq(Agents) /\ Only(listed, Bots) \in Seq(Bots)
    BY OnlyType
<1> QED  BY <1>1 DEF Document, Documents

LEMMA WithMembersType ==
    ASSUME NEW doc \in Documents, NEW members \in Seq(Members)
    PROVE  LET new == WithMembers(doc, members) IN
           /\ new \in Documents /\ ListsOf(new) /\ new.version = doc.version
           /\ new.participants = members /\ new.status \in {"assigned", "unassigned"}
<1>1. Only(members, Agents) \in Seq(Agents) /\ Only(members, Bots) \in Seq(Bots)
    BY OnlyType
<1>2. StatusFor(members) \in {"assigned", "unassigned"}
    BY DEF StatusFor
<1>3. doc.version \in Nat
    BY DEF Documents
<1> QED  BY <1>1, <1>2, <1>3 DEF WithMembers, Document, Documents, ListsOf, Statuses

(* A list without a member, or without its last one.                       *)
LEMMA SplicedType ==
    ASSUME NEW V, NEW s \in Seq(V), NEW m
    PROVE  /\ Spliced(s, m) \in Seq(V)
           /\ m \in ToSet(s) => Spliced(s, m) = RemoveFirst(s, m)
<1>1. RemoveFirst(s, m) \in Seq(V)
    BY RemovedOnce
<1>2. s # <<>> => Front(s) \in Seq(V)
    BY DEF Front
<1>3. <<>> \in Seq(V)
    OBVIOUS
<1> QED  BY <1>1, <1>2, <1>3 DEF Spliced

(* A document without a participant: lists that agree still do.            *)
LEMMA WithoutType ==
    ASSUME NEW doc \in Documents, NEW m \in Members, m \in ToSet(doc.participants)
    PROVE  LET new == Without(doc, m) IN
           /\ new \in Documents /\ (ListsOf(doc) => ListsOf(new)) /\ new.version = doc.version
           /\ new.participants = RemoveFirst(doc.participants, m)
           /\ new.status # doc.status => new.status # "closed"
<1> DEFINE rest == RemoveFirst(doc.participants, m)
           as == IF m \in Agents THEN Spliced(doc.agents, m) ELSE doc.agents
           bs == IF m \in Bots THEN Spliced(doc.bots, m) ELSE doc.bots
           st == IF doc.status = "closed" THEN doc.status ELSE StatusFor(rest)
<1>1. doc.participants \in Seq(Members) /\ doc.agents \in Seq(Agents) /\ doc.bots \in Seq(Bots)
    BY DEF Documents
<1>2. rest \in Seq(Members) /\ as \in Seq(Agents) /\ bs \in Seq(Bots)
    BY <1>1, RemovedOnce, SplicedType
<1>3. ASSUME NEW kind, NEW list \in Seq(kind), list = Only(doc.participants, kind)
      PROVE  (IF m \in kind THEN Spliced(list, m) ELSE list) = Only(rest, kind)
    <2>1. Only(rest, kind) = RemoveFirst(list, m)
        BY <1>1, <1>3, OnlyRemoved
    <2>2. ToSet(list) = ToSet(doc.participants) \cap kind
        BY <1>1, <1>3, OnlyOfKind
    <2>3. CASE m \in kind
        BY <2>1, <2>2, <2>3, SplicedType
    <2>4. CASE m \notin kind
        BY <2>1, <2>2, <2>4, RemovedOnce
    <2> QED  BY <2>3, <2>4
<1>4. st \in Statuses /\ (st # doc.status => st # "closed")
    BY DEF StatusFor, Statuses, Documents
<1>5. Without(doc, m) = [doc EXCEPT !.participants = rest, !.agents = as, !.bots = bs, !.status = st]
    BY DEF Without
<1>6. ListsOf(doc) => as = Only(rest, Agents) /\ bs = Only(rest, Bots)
    BY <1>1, <1>3 DEF ListsOf
<1> HIDE DEF rest, as, bs, st
<1>7. LET new == Without(doc, m) IN
        /\ new \in Documents /\ new.version = doc.version
        /\ new.participants = rest /\ new.agents = as /\ new.bots = bs /\ new.status = st
    BY <1>2, <1>4, <1>5 DEF Documents
<1> QED  BY <1>4, <1>6, <1>7 DEF ListsOf, rest

(* $push on the stored document.                                           *)
LEMMA PushedType ==
    ASSUME request \in Documents, NEW old \in Documents, NEW m \in Members
    PROVE  LET new == Pushed(old, m) IN
           /\ new \in Documents /\ (ListsOf(request) => ListsOf(new))
           /\ new.version = request.version + 1
           /\ new.participants = Append(request.participants, m)
           /\ new.status \in {request.status, "assigned"}
<1> DEFINE as == IF m \in Agents THEN Append(request.agents, m) ELSE request.agents
           bs == IF m \in Bots THEN Append(request.bots, m) ELSE request.bots
           ps == Append(request.participants, m)
           st == IF old.status = "assigned" THEN request.status ELSE "assigned"
<1>1. /\ request.participants \in Seq(Members) /\ request.agents \in Seq(Agents)
      /\ request.bots \in Seq(Bots) /\ request.version \in Nat /\ request.status \in Statuses
    BY DEF Documents
<1>2. as \in Seq(Agents) /\ bs \in Seq(Bots) /\ ps \in Seq(Members)
    BY <1>1
<1>3. ListsOf(request) => as = Only(ps, Agents) /\ bs = Only(ps, Bots)
    <2>1. \A kind : Only(ps, kind) = IF m \in kind THEN Append(Only(request.participants, kind), m)
                                     ELSE Only(request.participants, kind)
        BY <1>1, OnlyAppend
    <2> HIDE DEF ps
    <2> QED  BY <2>1 DEF ListsOf
<1>4. st \in Statuses /\ st \in {request.status, "assigned"}
    BY <1>1 DEF Statuses
<1>5. Pushed(old, m) = [request EXCEPT !.participants = ps, !.version = request.version + 1,
                                       !.agents = as, !.bots = bs, !.status = st]
    BY DEF Pushed
<1> DEFINE new == [status |-> st, version |-> request.version + 1, participants |-> ps,
                   agents |-> as, bots |-> bs]
<1> HIDE DEF ps, as, bs, st
<1>6. request = [status |-> request.status, version |-> request.version,
                 participants |-> request.participants,
                 agents |-> request.agents, bots |-> request.bots]
    BY DEF Documents
<1>7. Pushed(old, m) = new
    BY <1>5, <1>6
<1>8. new \in Documents
    <2>1. request.version + 1 \in Nat
        BY <1>1
    <2> QED  BY <1>2, <1>4, <2>1 DEF Documents
<1>9. new.agents = as /\ new.bots = bs /\ new.participants = ps /\ new.status = st
        /\ new.version = request.version + 1
    OBVIOUS
<1> HIDE DEF new
<1> QED  BY <1>3, <1>4, <1>7, <1>8, <1>9 DEF ListsOf, ps

(* A save that the version lets through: it writes the new arrays over the *)
(* ones that were loaded, or no array at all.                              *)
LEMMA SavedType ==
    ASSUME request \in Documents, NEW old \in Documents, Older(old),
           NEW new \in Documents, ListsOf(old) => ListsOf(new), MaySave(old, new)
    PROVE  LET saved == Saved(old, new) IN
           /\ saved \in Documents /\ (ListsOf(request) => ListsOf(saved))
           /\ \/ /\ Arrays(old) # Arrays(new)
                 /\ Arrays(request) = Arrays(old) /\ Arrays(saved) = Arrays(new)
                 /\ saved.version = request.version + 1
              \/ /\ Arrays(old) = Arrays(new)
                 /\ Arrays(saved) = Arrays(request) /\ saved.version = request.version
           /\ saved.status = IF old.status # new.status THEN new.status ELSE request.status
<1> DEFINE saved == Saved(old, new)
<1>1. DOMAIN request = {"status", "version", "participants", "agents", "bots"}
    BY DEF Documents
<1>2. saved = [status |-> IF old.status # new.status THEN new.status ELSE request.status,
               version |-> request.version + (IF Arrays(old) # Arrays(new) THEN 1 ELSE 0),
               participants |-> IF old.participants # new.participants
                                THEN new.participants ELSE request.participants,
               agents |-> IF old.agents # new.agents THEN new.agents ELSE request.agents,
               bots |-> IF old.bots # new.bots THEN new.bots ELSE request.bots]
    BY <1>1 DEF Saved
<1> HIDE DEF saved
<1>3. saved \in Documents
    BY <1>2 DEF Documents
<1>4. CASE Arrays(old) # Arrays(new)
    <2>1. request.version = old.version
        BY <1>4 DEF MaySave
    <2>2. Arrays(request) = Arrays(old)
        BY <2>1 DEF Older
    <2>3. Arrays(saved) = Arrays(new)
        BY <1>2, <2>2 DEF Arrays
    <2>4. ListsOf(request) => ListsOf(saved)
        BY <2>2, <2>3 DEF ListsOf, Arrays
    <2> QED  BY <1>2, <1>3, <1>4, <2>2, <2>3, <2>4 DEF saved, Documents
<1>5. CASE Arrays(old) = Arrays(new)
    <2>1. Arrays(saved) = Arrays(request)
        BY <1>2, <1>5 DEF Arrays
    <2>2. ListsOf(request) => ListsOf(saved)
        BY <2>1 DEF ListsOf, Arrays
    <2> QED  BY <1>2, <1>3, <1>5, <2>1, <2>2 DEF saved, Documents
<1> QED  BY <1>4, <1>5

-----------------------------------------------------------------------------
(* The kinds of steps                                                      *)

\* Call c changes, and it alone.
OnlyCall(c) ==
    /\ call' = [d \in Callers |-> call'[d]]
    /\ \A d \in Callers \ {c} : call'[d] = call[d]

\* A call loads its document.
Loading(c) ==
    /\ OnlyCall(c) /\ CallOK(call'[c])
    /\ call[c].op \in {"idle", "assign"}
    /\ call'[c].op \in {"add", "remove", "set", "assign", "route", "close", "reopen"}
    /\ call'[c].op \in WithDocument => Older(call'[c].doc)
    /\ cache' \in {cache, CachedRequest}
    /\ UNCHANGED <<request, recount, counted, told, twice>>

\* A save that the call announces; the participants it says there are.
MembersAfter(k) ==
    IF k.op = "removed" THEN RemoveFirst(k.doc.participants, k.arg) ELSE k.arg
Storing(c) ==
    /\ OnlyCall(c) /\ CallOK(call'[c])
    /\ call[c].op \in {"remove", "set", "route"} /\ call'[c].op \in {"removed", "replaced"}
    /\ call'[c].doc = call[c].doc
    /\ call'[c].op = "removed" => call'[c].arg \in ToSet(call[c].doc.participants)
    /\ request' \in Documents /\ (ListsOf(request) => ListsOf(request'))
    /\ \/ /\ Arrays(request) = Arrays(call[c].doc)
          /\ request'.participants = MembersAfter(call'[c])
          /\ request'.version = request.version + 1
       \/ /\ MembersAfter(call'[c]) = call[c].doc.participants
          /\ Arrays(request') = Arrays(request) /\ request'.version = request.version
    /\ request'.status = "closed" => request.status = "closed"
    /\ UNCHANGED <<cache, recount, counted, told, twice>>

\* A call ends and has changed no list; it may have changed the status.
Settling(c) ==
    /\ OnlyCall(c) /\ call'[c] = Idle
    /\ call[c].op \in {"remove", "set", "route", "reopen"}
    /\ request' \in Documents /\ Arrays(request') = Arrays(request)
    /\ request'.version = request.version
    /\ request'.status = "closed" => request.status = "closed"
    /\ UNCHANGED <<cache, recount, counted, told, twice>>

\* A member is pushed.
Adding(c) ==
    LET m == call[c].arg IN
    /\ OnlyCall(c) /\ CallOK(call'[c])
    /\ call[c].op = "add" /\ call'[c].op = "added" /\ call'[c].arg = m /\ m \in Members
    /\ call'[c].doc = call[c].doc
    /\ request' \in Documents /\ (ListsOf(request) => ListsOf(request'))
    /\ request'.participants = Append(request.participants, m)
    /\ request'.version = request.version + 1
    /\ request'.status = "closed" => request.status = "closed"
    /\ twice' = (twice \/ m \in ToSet(request.participants))
    /\ UNCHANGED <<cache, recount, counted, told>>

\* The request is closed.
Closing(c) ==
    /\ OnlyCall(c) /\ CallOK(call'[c])
    /\ call[c].op = "close" /\ call'[c].op = "closing"
    /\ request' = [request EXCEPT !.status = "closed"]
    /\ UNCHANGED <<cache, recount, counted, told, twice>>

\* A call says what it changed, and has it counted.
Telling(c) ==
    /\ OnlyCall(c) /\ call'[c] = Idle
    /\ call[c].op \in {"added", "removed", "replaced"}
    /\ told' = [m \in Members |-> told[m] + (IF Gains(call[c], m) THEN 1 ELSE 0)
                                          - (IF Loses(call[c], m) THEN 1 ELSE 0)]
    /\ Recounts({m \in Members : Gains(call[c], m) \/ Loses(call[c], m)})
    /\ UNCHANGED <<request, cache, counted, twice>>

\* The call that closed announces it.
CloseTold(c) ==
    /\ OnlyCall(c) /\ call'[c] = Idle /\ call[c].op = "closing"
    /\ Recounts(ToSet(request.agents))
    /\ UNCHANGED <<request, cache, counted, told, twice>>

\* A close that finds the conversation closed, or a patch of its working
\* status, has the agents counted.
Recounting ==
    /\ Recounts(ToSet(request.agents))
    /\ UNCHANGED <<request, cache, call, counted, told, twice>>

\* The count of an agent is read, or written.
Counting == \E a \in Counted : RecountReads(a) \/ RecountWrites(a)

\* Nothing changes but the cache, which is dropped, and the concierge's work.
Resting ==
    /\ cache' \in {cache, Nothing}
    /\ UNCHANGED <<request, call, recount, counted, told, twice>>

\* What the kinds of a step need of the state.
CoreInv ==
    /\ request \in Documents /\ cache \in Documents \cup {Nothing}
    /\ CallsOK /\ VersionsOK

(* The call that a step names, and the others.                             *)
LEMMA CallChanged ==
    ASSUME CallsOK, NEW c \in Callers, NEW op, NEW arg, NEW doc,
           \/ call' = [call EXCEPT ![c] = [op |-> op, arg |-> arg, doc |-> doc]]
           \/ /\ call' = [call EXCEPT ![c].op = op, ![c].arg = arg]
              /\ doc = call[c].doc
           \/ call' = [call EXCEPT ![c].op = op] /\ arg = call[c].arg /\ doc = call[c].doc
           \/ call' = [call EXCEPT ![c].op = op, ![c].doc = doc] /\ arg = call[c].arg
    PROVE  /\ OnlyCall(c)
           /\ call'[c] = [op |-> op, arg |-> arg, doc |-> doc]
           /\ call'[c].op = op /\ call'[c].arg = arg /\ call'[c].doc = doc
<1>1. DOMAIN call = Callers
    BY DEF CallsOK
<1>2. call[c] = [op |-> call[c].op, arg |-> call[c].arg, doc |-> call[c].doc]
    BY DEF CallsOK, CallOK
<1>3. DOMAIN call' = Callers /\ call' = [d \in Callers |-> call'[d]]
        /\ \A d \in Callers \ {c} : call'[d] = call[d]
    BY <1>1
<1>4. call'[c] = [op |-> op, arg |-> arg, doc |-> doc]
    BY <1>1, <1>2
<1> QED  BY <1>3, <1>4 DEF OnlyCall

LEMMA CallEnded ==
    ASSUME CallsOK, NEW c \in Callers, Ends(c)
    PROVE  OnlyCall(c) /\ call'[c] = Idle
BY DEF CallsOK, OnlyCall, Ends

(* The stored document, and what is read through the cache, are documents  *)
(* of the stored version or older ones.                                    *)
LEMMA StoredOlder ==
    ASSUME CoreInv
    PROVE  /\ Older(request) /\ request \in Documents
           /\ Older(CachedRequest) /\ CachedRequest \in Documents
<1>1. Older(request) /\ request \in Documents
    BY DEF CoreInv, Older, Documents
<1> QED  BY <1>1 DEF CoreInv, VersionsOK, CachedRequest

(* Calls that arrive.                                                      *)
LEMMA Loads1 ==
    ASSUME CoreInv, NEW c \in Callers,
           NEW op \in {"add", "remove", "set", "route", "reopen"}, NEW arg, NEW doc \in Documents,
           Older(doc),
           op \in {"add", "remove"} => arg \in Members,
           op = "set" => arg \in ListsToSet,
           op = "remove" => arg \in ToSet(doc.participants),
           call[c].op \in {"idle", "assign"},
           \/ call' = [call EXCEPT ![c] = [op |-> op, arg |-> arg, doc |-> doc]]
           \/ call' = [call EXCEPT ![c].op = op, ![c].doc = doc] /\ arg = call[c].arg,
           cache' \in {cache, CachedRequest},
           UNCHANGED <<request, recount, counted, told, twice>>
    PROVE  Loading(c)
<1>1. /\ OnlyCall(c) /\ call'[c] = [op |-> op, arg |-> arg, doc |-> doc]
      /\ call'[c].op = op /\ call'[c].arg = arg /\ call'[c].doc = doc
    BY CallChanged DEF CoreInv
<1>2. CallOK(call'[c])
    BY <1>1 DEF CallOK, Ops, WithDocument
<1> QED  BY <1>1, <1>2 DEF Loading

LEMMA Loads2 ==
    ASSUME CoreInv, NEW c \in Callers, NEW op \in {"assign", "close"}, NEW arg,
           NEW doc, doc = Nothing, call[c].op = "idle",
           call' = [call EXCEPT ![c] = [op |-> op, arg |-> arg, doc |-> doc]],
           UNCHANGED <<request, cache, recount, counted, told, twice>>
    PROVE  Loading(c)
<1>1. /\ OnlyCall(c) /\ call'[c] = [op |-> op, arg |-> arg, doc |-> doc]
      /\ call'[c].op = op /\ call'[c].arg = arg /\ call'[c].doc = doc
    BY DEF CoreInv, CallsOK, OnlyCall
<1>2. CallOK(call'[c]) /\ call'[c].op \notin WithDocument
    BY <1>1 DEF CallOK, Ops, WithDocument
<1> QED  BY <1>1, <1>2 DEF Loading

LEMMA LoadingSteps ==
    ASSUME CoreInv, NEW c \in Callers,
           \/ AddLoads(c) \/ RemoveLoads(c) \/ SetLoads(c) \/ ReopenLoads(c)
           \/ AssignChecks(c) \/ RouteLoads(c) \/ CloseLoads(c) \/ ConciergeLoads(c)
    PROVE  Loading(c) \/ Recounting \/ Resting
<1>0. /\ Older(request) /\ request \in Documents
      /\ Older(CachedRequest) /\ CachedRequest \in Documents
      /\ ToSet(request.participants) \subseteq Members
    <2>1. request.participants \in Seq(Members)
        BY StoredOlder DEF Documents
    <2>2. ToSet(request.participants) \subseteq Members
        BY <2>1 DEF ToSet
    <2> QED  BY <2>2, StoredOlder
<1>1. CASE AddLoads(c)
    <2>1. PICK m \in Members : Loads(c, "add", m, request)
        BY <1>1 DEF AddLoads
    <2> QED  BY <1>0, <1>1, <2>1, Loads1
        DEF AddLoads, Loads, Quiet, counts, ghosts, Free, Running
<1>2. CASE RemoveLoads(c)
    <2>1. PICK m \in ToSet(request.participants) : Loads(c, "remove", m, request)
        BY <1>2 DEF RemoveLoads
    <2> QED  BY <1>0, <1>2, <2>1, Loads1
        DEF RemoveLoads, Loads, Quiet, counts, ghosts, Free, Running
<1>3. CASE SetLoads(c)
    <2>1. PICK l \in ListsToSet : Loads(c, "set", l, request)
        BY <1>3 DEF SetLoads
    <2> QED  BY <1>0, <1>3, <2>1, Loads1
        DEF SetLoads, Loads, Quiet, counts, ghosts, Free, Running
<1>4. CASE ReopenLoads(c)
    BY <1>0, <1>4, Loads1 DEF ReopenLoads, Loads, Quiet, counts, ghosts, Free, Running
<1>5. CASE AssignChecks(c)
    <2>1. PICK n \in BOOLEAN : Loads(c, "assign", n, Nothing)
        BY <1>5 DEF AssignChecks
    <2> QED  BY <1>5, <2>1, Loads2
        DEF AssignChecks, Loads, Quiet, counts, ghosts, Free, Running
<1>6. CASE RouteLoads(c)
    <2>1. CASE \E n \in BOOLEAN : Loads(c, "route", n, CachedRequest)
        <3>1. PICK n \in BOOLEAN : Loads(c, "route", n, CachedRequest)
            BY <2>1
        <3> QED  BY <1>0, <1>6, <3>1, Loads1
            DEF RouteLoads, Loads, Quiet, counts, ghosts, Free, Running
    <2>2. CASE Running(c, "assign") /\ call' = [call EXCEPT ![c].op = "route", ![c].doc = CachedRequest]
        BY <1>0, <1>6, <2>2, Loads1 DEF RouteLoads, Quiet, counts, ghosts, Running
    <2> QED  BY <1>6, <2>1, <2>2 DEF RouteLoads
<1>7. CASE CloseLoads(c)
    <2>1. CASE Recounts(ToSet(request.agents)) /\ UNCHANGED call
        BY <1>7, <2>1 DEF CloseLoads, Recounting, ghosts
    <2>2. CASE Loads(c, "close", NoBot, Nothing) /\ UNCHANGED recount
        BY <1>7, <2>2, Loads2 DEF CloseLoads, Loads, counts, ghosts, Free, Running
    <2> QED  BY <1>7, <2>1, <2>2 DEF CloseLoads
<1>8. CASE ConciergeLoads(c)
    <2>1. PICK b \in Bots :
            \/ /\ b \in ToSet(request.participants)
               /\ call' = [call EXCEPT ![c] = [op |-> "remove", arg |-> b, doc |-> request]]
            \/ UNCHANGED call
        BY <1>8 DEF ConciergeLoads
    <2>2. CASE UNCHANGED call
        BY <1>8, <2>2 DEF ConciergeLoads, Resting, counts, ghosts
    <2>3. CASE /\ b \in ToSet(request.participants)
               /\ call' = [call EXCEPT ![c] = [op |-> "remove", arg |-> b, doc |-> request]]
        BY <1>0, <1>8, <2>3, Loads1 DEF ConciergeLoads, Members, counts, ghosts, Free, Running
    <2> QED  BY <2>1, <2>2, <2>3
<1> QED  BY <1>1, <1>2, <1>3, <1>4, <1>5, <1>6, <1>7, <1>8

(* Calls that save.                                                        *)
LEMMA SavesKinds ==
    ASSUME CoreInv, NEW c \in Callers, call[c].op \in {"remove", "set", "route"},
           NEW new \in Documents, ListsOf(call[c].doc) => ListsOf(new),
           new.status # call[c].doc.status => new.status # "closed",
           NEW op \in {"removed", "replaced"}, NEW arg,
           op = "removed" => /\ arg \in Members /\ arg \in ToSet(call[c].doc.participants)
                             /\ new.participants = RemoveFirst(call[c].doc.participants, arg),
           op = "replaced" => arg \in ListsToSet /\ new.participants = arg,
           Saves(c, call[c].doc, new, op, arg),
           UNCHANGED <<cache, recount, counted, told, twice>>
    PROVE  Storing(c) \/ Settling(c)
<1> DEFINE old == call[c].doc
<1>0. old \in Documents /\ Older(old) /\ request \in Documents
    BY StoredOlder DEF CoreInv, CallsOK, CallOK, VersionsOK, WithDocument
<1>1. CASE Ends(c) /\ UNCHANGED request
    <2>1. OnlyCall(c) /\ call'[c] = Idle
        BY <1>1, CallEnded DEF CoreInv
    <2> QED  BY <1>0, <1>1, <2>1 DEF Settling, Arrays
<1>2. CASE /\ MaySave(old, new) /\ request' = Saved(old, new)
           /\ call' = [call EXCEPT ![c].op = op, ![c].arg = arg]
    <2>1. /\ OnlyCall(c) /\ call'[c] = [op |-> op, arg |-> arg, doc |-> old]
          /\ call'[c].op = op /\ call'[c].arg = arg /\ call'[c].doc = old
        <3>1. /\ DOMAIN call = Callers /\ call' = [d \in Callers |-> call'[d]]
              /\ call[c] = [op |-> call[c].op, arg |-> call[c].arg, doc |-> call[c].doc]
            BY <1>2 DEF CoreInv, CallsOK, CallOK
        <3>2. call'[c] = [op |-> op, arg |-> arg, doc |-> old]
            BY <1>2, <3>1
        <3>3. \A d \in Callers \ {c} : call'[d] = call[d]
            BY <1>2, <3>1
        <3> QED  BY <3>1, <3>2, <3>3 DEF OnlyCall
    <2>2. CallOK(call'[c])
        BY <1>0, <2>1 DEF CallOK, Ops, WithDocument
    <2>3. /\ request' \in Documents /\ (ListsOf(request) => ListsOf(request'))
          /\ \/ /\ Arrays(old) # Arrays(new)
                /\ Arrays(request) = Arrays(old) /\ Arrays(request') = Arrays(new)
                /\ request'.version = request.version + 1
             \/ /\ Arrays(old) = Arrays(new)
                /\ Arrays(request') = Arrays(request) /\ request'.version = request.version
          /\ request'.status = IF old.status # new.status THEN new.status ELSE request.status
        BY <1>0, <1>2, SavedType
    <2>4. new.participants = MembersAfter(call'[c])
        BY <2>1 DEF MembersAfter
    <2>5. \/ /\ Arrays(request) = Arrays(old)
             /\ request'.participants = MembersAfter(call'[c])
             /\ request'.version = request.version + 1
          \/ /\ MembersAfter(call'[c]) = old.participants
             /\ Arrays(request') = Arrays(request) /\ request'.version = request.version
        BY <2>3, <2>4 DEF Arrays
    <2>6. request'.status = "closed" => request.status = "closed"
        BY <2>3
    <2> QED  BY <1>2, <2>1, <2>2, <2>3, <2>5, <2>6 DEF Storing
<1> QED  BY <1>1, <1>2 DEF Saves

LEMMA SavingSteps ==
    ASSUME CoreInv, NEW c \in Callers,
           RemoveSaves(c) \/ SetSaves(c) \/ RouteSaves(c) \/ ReopenSaves(c) \/ RouteRefused(c)
    PROVE  Storing(c) \/ Settling(c)
<1> DEFINE old == call[c].doc
<1>0. /\ call[c].op \in WithDocument => old \in Documents /\ Older(old)
      /\ request \in Documents /\ CallOK(call[c])
    BY StoredOlder DEF CoreInv, CallsOK, CallOK, VersionsOK
<1>1. CASE RemoveSaves(c)
    <2> DEFINE m == call[c].arg
               new == Without(old, m)
    <2>1. /\ call[c].op = "remove" /\ Saves(c, old, new, "removed", m)
          /\ UNCHANGED <<cache, recount, counted, told, twice>>
        BY <1>1 DEF RemoveSaves, Running, counts
    <2>2. m \in Members /\ m \in ToSet(old.participants) /\ old \in Documents
        BY <1>0, <2>1 DEF CallOK, WithDocument
    <2>3. /\ new \in Documents /\ (ListsOf(old) => ListsOf(new))
          /\ new.participants = RemoveFirst(old.participants, m)
          /\ new.status # old.status => new.status # "closed"
        BY <2>2, WithoutType
    <2> HIDE DEF new
    <2> QED  BY <2>1, <2>2, <2>3, SavesKinds
<1>2. CASE SetSaves(c)
    <2> DEFINE l == call[c].arg
               new == WithMembers(old, l)
    <2>1. /\ call[c].op = "set" /\ Saves(c, old, new, "replaced", l)
          /\ UNCHANGED <<cache, recount, counted, told, twice>>
        BY <1>2 DEF SetSaves, Running, counts
    <2>2. l \in ListsToSet /\ l \in Seq(Members) /\ old \in Documents
        BY <1>0, <2>1, ListsType DEF CallOK, WithDocument
    <2>3. /\ new \in Documents /\ ListsOf(new) /\ new.participants = l
          /\ new.status # "closed"
        BY <2>2, WithMembersType
    <2> HIDE DEF new
    <2> QED  BY <2>1, <2>2, <2>3, SavesKinds
<1>3. CASE RouteSaves(c)
    <2>1. /\ call[c].op = "route" /\ UNCHANGED <<cache, recount, counted, told, twice>>
        BY <1>3 DEF RouteSaves, Running, counts
    <2>2. PICK available \in SUBSET Agents : \E members \in Chosen(call[c].arg, available) :
            LET new == WithMembers(old, members) IN
            IF old.status = new.status /\ Arrays(old) = Arrays(new)
            THEN RouteChangesNothing(c, members)
            ELSE Saves(c, old, new, "replaced", members)
        BY <1>3 DEF RouteSaves
    <2>3. PICK members \in Chosen(call[c].arg, available) :
            LET new == WithMembers(old, members) IN
            IF old.status = new.status /\ Arrays(old) = Arrays(new)
            THEN RouteChangesNothing(c, members)
            ELSE Saves(c, old, new, "replaced", members)
        BY <2>2
    <2> DEFINE new == WithMembers(old, members)
    <2>4. RouteChangesNothing(c, members) \/ Saves(c, old, new, "replaced", members)
        BY <2>3
    <2>5. members \in ListsToSet /\ members \in Seq(Members) /\ old \in Documents
        BY <1>0, <2>1, ListsType, ChosenType DEF WithDocument
    <2>6. /\ new \in Documents /\ ListsOf(new) /\ new.participants = members
          /\ new.status # "closed"
        BY <2>5, WithMembersType
    <2> HIDE DEF new
    <2>7. CASE Saves(c, old, new, "replaced", members)
        BY <2>1, <2>5, <2>6, <2>7, SavesKinds
    <2>8. CASE RouteChangesNothing(c, members)
        <3>1. OnlyCall(c) /\ call'[c] = Idle
            BY <2>8, CallEnded DEF CoreInv, RouteChangesNothing
        <3>2. /\ request' \in Documents /\ Arrays(request') = Arrays(request)
              /\ request'.version = request.version
              /\ request'.status = "closed" => request.status = "closed"
            BY <1>0, <2>8 DEF RouteChangesNothing, Documents, Statuses, Arrays
        <3> QED  BY <2>1, <2>8, <3>1, <3>2 DEF Settling, RouteChangesNothing
    <2> QED  BY <2>4, <2>7, <2>8
<1>4. CASE ReopenSaves(c)
    <2> DEFINE new == [old EXCEPT !.status = StatusFor(old.participants)]
    <2>1. /\ call[c].op = "reopen" /\ old \in Documents /\ Older(old)
          /\ request' = Saved(old, new)
          /\ UNCHANGED <<cache, recount, counted, told, twice>>
        BY <1>0, <1>4 DEF ReopenSaves, Running, WithDocument, counts
    <2>2. OnlyCall(c) /\ call'[c] = Idle
        BY <1>4, CallEnded DEF CoreInv, ReopenSaves
    <2>3. StatusFor(old.participants) \in {"assigned", "unassigned"}
        BY DEF StatusFor
    <2>4. /\ new \in Documents /\ Arrays(old) = Arrays(new) /\ (ListsOf(old) => ListsOf(new))
          /\ new.status = StatusFor(old.participants)
        BY <2>1, <2>3 DEF Documents, Statuses, Arrays, ListsOf
    <2> HIDE DEF new
    <2>5. MaySave(old, new)
        BY <2>4 DEF MaySave
    <2>6. /\ request' \in Documents /\ Arrays(request') = Arrays(request)
          /\ request'.version = request.version
          /\ request'.status = IF old.status # new.status THEN new.status ELSE request.status
        BY <1>0, <2>1, <2>4, <2>5, SavedType
    <2> QED  BY <2>1, <2>2, <2>3, <2>4, <2>6 DEF Settling
<1>5. CASE RouteRefused(c)
    <2>1. OnlyCall(c) /\ call'[c] = Idle
        BY <1>5, CallEnded DEF CoreInv, RouteRefused
    <2>2. /\ call[c].op = "route"
          /\ UNCHANGED <<request, cache, recount, counted, told, twice>>
        BY <1>5 DEF RouteRefused, Running, Quiet, counts, ghosts
    <2> QED  BY <1>0, <2>1, <2>2 DEF Settling, Arrays
<1> QED  BY <1>1, <1>2, <1>3, <1>4, <1>5

(* A call that pushes a member.                                            *)
LEMMA AddingStep ==
    ASSUME CoreInv, NEW c \in Callers, AddSaves(c)
    PROVE  Adding(c)
<1> DEFINE m == call[c].arg
           old == call[c].doc
<1>1. call[c].op = "add" /\ m \in Members /\ old \in Documents /\ request \in Documents
    BY StoredOlder DEF AddSaves, Running, CoreInv, CallsOK, CallOK, WithDocument
<1>2. /\ request' \in Documents /\ (ListsOf(request) => ListsOf(request'))
      /\ request'.version = request.version + 1
      /\ request'.participants = Append(request.participants, m)
      /\ request'.status \in {request.status, "assigned"}
    BY <1>1, PushedType DEF AddSaves
<1>3. /\ OnlyCall(c) /\ call'[c] = [op |-> "added", arg |-> m, doc |-> old]
      /\ call'[c].op = "added" /\ call'[c].arg = m /\ call'[c].doc = old
    <2>1. /\ DOMAIN call = Callers /\ call' = [d \in Callers |-> call'[d]]
          /\ call[c] = [op |-> call[c].op, arg |-> call[c].arg, doc |-> call[c].doc]
        BY DEF AddSaves, CoreInv, CallsOK, CallOK
    <2>2. call' = [call EXCEPT ![c].op = "added"]
        BY DEF AddSaves
    <2>3. call'[c] = [op |-> "added", arg |-> m, doc |-> old]
        BY <2>1, <2>2
    <2>4. \A d \in Callers \ {c} : call'[d] = call[d]
        BY <2>1, <2>2
    <2> QED  BY <2>1, <2>3, <2>4 DEF OnlyCall
<1>4. CallOK(call'[c])
    BY <1>1, <1>3 DEF CallOK, Ops, WithDocument
<1>5. /\ twice' = (twice \/ m \in ToSet(request.participants))
      /\ UNCHANGED <<cache, recount, counted, told>>
    BY DEF AddSaves, counts
<1> QED  BY <1>1, <1>2, <1>3, <1>4, <1>5 DEF Adding

(* A call that announces.                                                  *)
LEMMA TellingSteps ==
    ASSUME CoreInv, NEW c \in Callers,
           AddAnnounces(c) \/ RemoveAnnounces(c) \/ SetAnnounces(c)
    PROVE  Telling(c)
<1> DEFINE k == call[c]
<1>0. CallOK(k)
    BY DEF CoreInv, CallsOK
<1>1. OnlyCall(c) /\ call'[c] = Idle
    BY CallEnded DEF CoreInv, AddAnnounces, RemoveAnnounces, SetAnnounces
<1>2. UNCHANGED <<request, cache, counted, twice>>
    BY DEF AddAnnounces, RemoveAnnounces, SetAnnounces, ghosts
<1>3. ASSUME NEW joined, NEW left, Announces(joined, left),
             k.op \in {"added", "removed", "replaced"},
             joined \subseteq Members, left \subseteq Members,
             \A m \in Members : (m \in joined <=> Gains(k, m)) /\ (m \in left <=> Loses(k, m))
      PROVE  Telling(c)
    <2>1. joined \cup left = {m \in Members : Gains(k, m) \/ Loses(k, m)}
        BY <1>3
    <2>2. told' = [m \in Members |-> told[m] + (IF Gains(k, m) THEN 1 ELSE 0)
                                             - (IF Loses(k, m) THEN 1 ELSE 0)]
        BY <1>3 DEF Announces, Tells
    <2> QED  BY <1>1, <1>2, <1>3, <2>1, <2>2 DEF Telling, Announces
<1>4. CASE AddAnnounces(c)
    <2>1. k.op = "added" /\ k.arg \in Members /\ Announces({k.arg}, {})
        BY <1>0, <1>4 DEF AddAnnounces, Running, CallOK
    <2> QED  BY <1>3, <2>1 DEF Gains, Loses
<1>5. CASE RemoveAnnounces(c)
    <2>1. k.op = "removed" /\ k.arg \in Members /\ Announces({}, {k.arg})
        BY <1>0, <1>5 DEF RemoveAnnounces, Running, CallOK
    <2> QED  BY <1>3, <2>1 DEF Gains, Loses
<1>6. CASE SetAnnounces(c)
    <2> DEFINE old == k.doc.participants
    <2>1. /\ k.op = "replaced" /\ k.arg \in ListsToSet /\ k.doc \in Documents
          /\ Announces(AddedBy(old, k.arg), RemovedBy(old, k.arg))
        BY <1>0, <1>6 DEF SetAnnounces, Running, CallOK, WithDocument
    <2>2. k.arg \in Seq(Members) /\ old \in Seq(Members)
        BY <2>1, ListsType DEF Documents
    <2>3. ToSet(k.arg) \subseteq Members /\ ToSet(old) \subseteq Members
        BY <2>2 DEF ToSet
    <2>4. AddedBy(old, k.arg) \subseteq Members /\ RemovedBy(old, k.arg) \subseteq Members
        BY <2>3 DEF AddedBy, RemovedBy
    <2>5. \A m \in Members : /\ m \in AddedBy(old, k.arg) <=> Gains(k, m)
                             /\ m \in RemovedBy(old, k.arg) <=> Loses(k, m)
        BY <2>1 DEF Gains, Loses
    <2> QED  BY <1>3, <2>1, <2>4, <2>5
<1> QED  BY <1>4, <1>5, <1>6

(* Calls that close.                                                       *)
LEMMA ClosingSteps ==
    ASSUME CoreInv, NEW c \in Callers
    PROVE  /\ CloseChangesStatus(c) => Closing(c)
           /\ CloseEnds(c) => CloseTold(c)
<1>1. ASSUME CloseChangesStatus(c) PROVE Closing(c)
    <2>1. /\ call[c].op = "close" /\ call[c].doc = Nothing
          /\ call' = [call EXCEPT ![c].op = "closing"]
          /\ request' = [request EXCEPT !.status = "closed"]
          /\ UNCHANGED <<cache, recount, counted, told, twice>>
        BY <1>1 DEF CloseChangesStatus, Running, CoreInv, CallsOK, CallOK, WithDocument, counts, ghosts
    <2>2. /\ DOMAIN call = Callers /\ call' = [d \in Callers |-> call'[d]]
          /\ call[c] = [op |-> call[c].op, arg |-> call[c].arg, doc |-> call[c].doc]
        BY <2>1 DEF CoreInv, CallsOK, CallOK
    <2>3. call'[c] = [op |-> "closing", arg |-> call[c].arg, doc |-> Nothing]
        BY <2>1, <2>2
    <2>4. \A d \in Callers \ {c} : call'[d] = call[d]
        BY <2>1, <2>2
    <2>5. call'[c].op = "closing" /\ CallOK(call'[c])
        BY <2>3 DEF CallOK, Ops, WithDocument
    <2> QED  BY <2>1, <2>2, <2>4, <2>5 DEF Closing, OnlyCall
<1>2. ASSUME CloseEnds(c) PROVE CloseTold(c)
    <2>1. OnlyCall(c) /\ call'[c] = Idle
        BY <1>2, CallEnded DEF CoreInv, CloseEnds
    <2> QED  BY <1>2, <2>1 DEF CloseEnds, CloseTold, Running, ghosts
<1> QED  BY <1>1, <1>2

(* Every step is of one of the kinds.                                      *)
LEMMA Kinds ==
    ASSUME CoreInv, [Next]_vars
    PROVE  \/ \E c \in Callers : \/ Loading(c) \/ Storing(c) \/ Settling(c) \/ Adding(c)
                                 \/ Closing(c) \/ Telling(c) \/ CloseTold(c)
           \/ Counting \/ Recounting \/ Resting
<1>1. ASSUME NEW c \in Callers, Arrives(c) \/ ConciergeLoads(c)
      PROVE  Loading(c) \/ Recounting \/ Resting
    BY <1>1, LoadingSteps DEF Arrives
<1>2. ASSUME NEW c \in Callers, Steps(c) \/ RouteRefused(c)
      PROVE  \/ Loading(c) \/ Storing(c) \/ Settling(c) \/ Adding(c)
             \/ Closing(c) \/ Telling(c) \/ CloseTold(c) \/ Recounting \/ Resting
    BY <1>2, LoadingSteps, SavingSteps, AddingStep, TellingSteps, ClosingSteps DEF Steps
<1>3. CASE CacheDrops \/ UNCHANGED vars
    BY <1>3 DEF CacheDrops, vars, Resting, counts, ghosts
<1>4. CASE \E a \in Counted : RecountReads(a) \/ RecountWrites(a)
    BY <1>4 DEF Counting
<1>5. CASE Patches
    BY <1>5 DEF Patches, Recounting, ghosts
<1> QED  BY <1>1, <1>2, <1>3, <1>4, <1>5 DEF Next

-----------------------------------------------------------------------------
(* Calls, versions and lists                                               *)

\* A document against the stored one.
OlderThan(d, r) == d.version <= r.version /\ (d.version = r.version => Arrays(d) = Arrays(r))

(* A document that is older than r stays older when r moves on.            *)
LEMMA StaysOlder ==
    ASSUME NEW d \in Documents, NEW r \in Documents, NEW s \in Documents, OlderThan(d, r),
           (Arrays(s) = Arrays(r) /\ s.version = r.version) \/ s.version = r.version + 1
    PROVE  OlderThan(d, s)
<1>1. d.version \in Nat /\ r.version \in Nat /\ s.version \in Nat
    BY DEF Documents
<1> QED  BY <1>1 DEF OlderThan

\* What every step does to the document, the cache and the calls.
Moves ==
    /\ request' \in Documents /\ (ListsOf(request) => ListsOf(request'))
    /\ \/ Arrays(request') = Arrays(request) /\ request'.version = request.version
       \/ request'.version = request.version + 1
    /\ cache' \in {cache, CachedRequest, Nothing}
    /\ call' = [c \in Callers |-> call'[c]]
    /\ \A c \in Callers :
        \/ call'[c] = call[c]
        \/ /\ CallOK(call'[c])
           /\ call'[c].op \in WithDocument =>
                call'[c].doc \in Documents /\ OlderThan(call'[c].doc, request)

LEMMA StepMoves ==
    ASSUME CoreInv, [Next]_vars
    PROVE  Moves
<1>0. /\ request \in Documents
      /\ call = [c \in Callers |-> call[c]]
      /\ \A c \in Callers : CallOK(call[c])
      /\ \A c \in Callers : call[c].op \in WithDocument =>
            call[c].doc \in Documents /\ OlderThan(call[c].doc, request)
    BY StoredOlder DEF CoreInv, CallsOK, CallOK, VersionsOK, Older, OlderThan
<1>1. CallOK(Idle) /\ Idle.op \notin WithDocument
    BY NothingIdle DEF WithDocument
<1>2. ASSUME NEW c \in Callers, Loading(c) PROVE Moves
    <2>1. call'[c].op \in WithDocument =>
            call'[c].doc \in Documents /\ OlderThan(call'[c].doc, request)
        BY <1>2 DEF Loading, CallOK, Older, OlderThan
    <2> QED  BY <1>0, <1>2, <2>1 DEF Moves, Loading, OnlyCall
<1>3. ASSUME NEW c \in Callers, Storing(c) PROVE Moves
    <2>1. call[c].op \in WithDocument
        BY <1>3 DEF Storing, WithDocument
    <2> QED  BY <1>0, <1>3, <2>1 DEF Moves, Storing, OnlyCall
<1>4. ASSUME NEW c \in Callers, Settling(c) PROVE Moves
    <2>1. ListsOf(request) => ListsOf(request')
        BY <1>0, <1>4 DEF Settling, ListsOf, Arrays
    <2> QED  BY <1>0, <1>1, <1>4, <2>1 DEF Moves, Settling, OnlyCall
<1>5. ASSUME NEW c \in Callers, Adding(c) PROVE Moves
    <2>1. call[c].op \in WithDocument
        BY <1>5 DEF Adding, WithDocument
    <2> QED  BY <1>0, <1>5, <2>1 DEF Moves, Adding, OnlyCall
<1>6. ASSUME NEW c \in Callers, Closing(c) PROVE Moves
    <2>1. /\ request' \in Documents /\ request'.version = request.version
          /\ Arrays(request') = Arrays(request) /\ request'.status = "closed"
        BY <1>0, <1>6 DEF Closing, Documents, Statuses, Arrays
    <2>2. ListsOf(request) => ListsOf(request')
        BY <1>0, <2>1 DEF ListsOf, Arrays
    <2>3. call'[c].op \notin WithDocument
        BY <1>6 DEF Closing, WithDocument
    <2> QED  BY <1>0, <1>6, <2>1, <2>2, <2>3 DEF Moves, Closing, OnlyCall
<1>7. ASSUME NEW c \in Callers, Telling(c) PROVE Moves
    BY <1>0, <1>1, <1>7 DEF Moves, Telling, OnlyCall
<1>8. ASSUME NEW c \in Callers, CloseTold(c) PROVE Moves
    BY <1>0, <1>1, <1>8 DEF Moves, CloseTold, OnlyCall
<1>9. ASSUME Counting \/ Recounting PROVE Moves
    <2>1. UNCHANGED <<request, cache, call>>
        BY <1>9 DEF Counting, RecountReads, RecountWrites, Recounting, ghosts
    <2> QED  BY <1>0, <2>1 DEF Moves
<1>10. ASSUME Resting PROVE Moves
    BY <1>0, <1>10 DEF Moves, Resting
<1> QED  BY <1>2, <1>3, <1>4, <1>5, <1>6, <1>7, <1>8, <1>9, <1>10, Kinds

LEMMA CoreStep ==
    ASSUME CoreInv, [Next]_vars
    PROVE  CoreInv'
<1>0. Moves
    BY StepMoves
<1>1. /\ request \in Documents /\ request' \in Documents
      /\ \/ Arrays(request') = Arrays(request) /\ request'.version = request.version
         \/ request'.version = request.version + 1
      /\ \A d \in Documents : OlderThan(d, request) => OlderThan(d, request')
    <2>1. /\ request \in Documents /\ request' \in Documents
          /\ \/ Arrays(request') = Arrays(request) /\ request'.version = request.version
             \/ request'.version = request.version + 1
        BY <1>0 DEF Moves, CoreInv
    <2> QED  BY <2>1, StaysOlder
<1>2. CallsOK'
    <2>1. call' = [c \in Callers |-> call'[c]]
        BY <1>0 DEF Moves
    <2>2. \A c \in Callers : CallOK(call'[c])
        BY <1>0 DEF Moves, CoreInv, CallsOK
    <2> QED  BY <2>1, <2>2 DEF CallsOK
<1>3. VersionsOK'
    <2>1. cache' # Nothing => cache' \in Documents /\ OlderThan(cache', request)
        <3>1. /\ CachedRequest \in Documents
              /\ OlderThan(CachedRequest, request)
            BY StoredOlder DEF Older, OlderThan
        <3>2. cache # Nothing => cache = CachedRequest
            BY DEF CachedRequest
        <3>3. cache' # Nothing => cache' = CachedRequest
            BY <1>0, <3>2 DEF Moves
        <3> QED  BY <3>1, <3>3
    <2>2. \A c \in Callers : call'[c].op \in WithDocument =>
            call'[c].doc \in Documents /\ OlderThan(call'[c].doc, request)
        BY <1>0 DEF Moves, CoreInv, CallsOK, CallOK, VersionsOK, Older, OlderThan
    <2>3. cache' # Nothing => OlderThan(cache', request')
        BY <1>1, <2>1
    <2>4. \A c \in Callers : call'[c].op \in WithDocument => OlderThan(call'[c].doc, request')
        BY <1>1, <2>2
    <2> QED  BY <2>3, <2>4 DEF VersionsOK, Older, OlderThan, ListsOf
<1>4. cache' \in Documents \cup {Nothing}
    BY <1>0, StoredOlder DEF Moves, CoreInv
<1> QED  BY <1>1, <1>2, <1>3, <1>4 DEF CoreInv

-----------------------------------------------------------------------------
(* Types                                                                   *)

\* What TypeOK says beyond CoreInv.
NumbersOK ==
    /\ concierge \in [Bots -> Nat]
    /\ recount \in [Counted -> [wait : Nat, zero : Nat, one : Nat]]
    /\ counted \in [Counted -> Nat]
    /\ told \in [Members -> Int]
    /\ pending \in BOOLEAN /\ conflicted \in BOOLEAN /\ twice \in BOOLEAN
    /\ ops \in Nat

LEMMA TypeApart ==
    CoreInv /\ NumbersOK => TypeOK
<1> SUFFICES ASSUME CoreInv, NumbersOK PROVE TypeOK
    OBVIOUS
<1>1. \A c \in Callers : call[c].op \in Ops /\ call[c].doc \in Documents \cup {Nothing}
    BY DEF CoreInv, CallsOK, CallOK
<1>2. {conflicted, twice} \subseteq BOOLEAN
    BY Zenon DEF CoreInv, NumbersOK
<1> QED  BY <1>1, <1>2 DEF CoreInv, NumbersOK, TypeOK, Ops

LEMMA TypeJoint ==
    TypeOK /\ CallsOK /\ VersionsOK => CoreInv /\ NumbersOK
<1> SUFFICES ASSUME TypeOK, CallsOK, VersionsOK PROVE CoreInv /\ NumbersOK
    OBVIOUS
<1>1. conflicted \in BOOLEAN /\ twice \in BOOLEAN
    BY Zenon DEF TypeOK
<1> QED  BY <1>1 DEF CoreInv, NumbersOK, TypeOK

(* The counts of an agent while they are read and written.                 *)
LEMMA CountingStep ==
    ASSUME NumbersOK, Counting
    PROVE  \E a \in Counted :
              LET r == recount[a]
                  s == recount'[a]
                  n == CountDocuments(a) IN
              /\ r \in [wait : Nat, zero : Nat, one : Nat] /\ n \in {0, 1}
              /\ \A b \in Counted \ {a} : recount'[b] = recount[b] /\ counted'[b] = counted[b]
              /\ recount' \in [Counted -> [wait : Nat, zero : Nat, one : Nat]]
              /\ counted' \in [Counted -> Nat]
              /\ \/ /\ r.wait > 0 /\ s.wait = r.wait - 1
                    /\ s.zero = r.zero + (1 - n) /\ s.one = r.one + n
                    /\ counted'[a] = counted[a]
                 \/ /\ r.zero > 0 /\ s.wait = r.wait /\ s.zero = r.zero - 1 /\ s.one = r.one
                    /\ counted'[a] = 0
                 \/ /\ r.one > 0 /\ s.wait = r.wait /\ s.zero = r.zero /\ s.one = r.one - 1
                    /\ counted'[a] = 1
              /\ UNCHANGED <<request, cache, call, concierge, told, pending, conflicted, twice, ops>>
<1>1. PICK a \in Counted : RecountReads(a) \/ RecountWrites(a)
    BY DEF Counting
<1> DEFINE r == recount[a]
           n == CountDocuments(a)
           R == [wait : Nat, zero : Nat, one : Nat]
<1>2. /\ r \in R /\ n \in {0, 1} /\ recount \in [Counted -> R] /\ counted \in [Counted -> Nat]
      /\ r = [wait |-> r.wait, zero |-> r.zero, one |-> r.one]
      /\ r.wait \in Nat /\ r.zero \in Nat /\ r.one \in Nat
    BY DEF NumbersOK, CountDocuments
<1>3. ASSUME NEW s \in R, recount' = [recount EXCEPT ![a] = s]
      PROVE  /\ recount'[a] = s /\ recount' \in [Counted -> R]
             /\ \A b \in Counted \ {a} : recount'[b] = recount[b]
    BY <1>2, <1>3
<1>4. ASSUME NEW k \in Nat, counted' = [counted EXCEPT ![a] = k]
      PROVE  /\ counted'[a] = k /\ counted' \in [Counted -> Nat]
             /\ \A b \in Counted \ {a} : counted'[b] = counted[b]
    BY <1>2, <1>4
<1>5. CASE RecountReads(a)
    <2> DEFINE s == [wait |-> r.wait - 1, zero |-> r.zero + (1 - n), one |-> r.one + n]
    <2>1. r.wait > 0 /\ s \in R /\ s.wait = r.wait - 1 /\ s.zero = r.zero + (1 - n) /\ s.one = r.one + n
        BY <1>2, <1>5 DEF RecountReads
    <2>2. recount' = [recount EXCEPT ![a] = s]
        BY <1>2, <1>5 DEF RecountReads
    <2>3. /\ counted' = counted
          /\ UNCHANGED <<request, cache, call, concierge, told, pending, conflicted, twice, ops>>
        BY <1>5 DEF RecountReads, ghosts
    <2> HIDE DEF s
    <2>4. /\ recount'[a] = s /\ recount' \in [Counted -> R]
          /\ \A b \in Counted \ {a} : recount'[b] = recount[b]
        BY <1>3, <2>1, <2>2
    <2> QED  BY <1>2, <2>1, <2>3, <2>4
<1>6. CASE r.zero > 0 /\ recount' = [recount EXCEPT ![a].zero = @ - 1]
                /\ counted' = [counted EXCEPT ![a] = CountAfter(a, 0)] /\ RecountWrites(a)
    <2> DEFINE s == [wait |-> r.wait, zero |-> r.zero - 1, one |-> r.one]
    <2>1. s \in R /\ s.wait = r.wait /\ s.zero = r.zero - 1 /\ s.one = r.one
        BY <1>2, <1>6
    <2>2. recount' = [recount EXCEPT ![a] = s]
        <3>1. [r EXCEPT !.zero = r.zero - 1] = s
            BY <1>2
        <3>2. recount' = [recount EXCEPT ![a] = [recount[a] EXCEPT !.zero = recount[a].zero - 1]]
            BY <1>6
        <3> HIDE DEF s
        <3> QED  BY <3>1, <3>2
    <2>3. /\ counted' = [counted EXCEPT ![a] = 0]
          /\ UNCHANGED <<request, cache, call, concierge, told, pending, conflicted, twice, ops>>
        BY <1>6 DEF RecountWrites, CountAfter, ghosts
    <2> HIDE DEF s
    <2>4. /\ recount'[a] = s /\ recount' \in [Counted -> R]
          /\ \A b \in Counted \ {a} : recount'[b] = recount[b]
        BY <1>3, <2>1, <2>2
    <2>5. /\ counted'[a] = 0 /\ counted' \in [Counted -> Nat]
          /\ \A b \in Counted \ {a} : counted'[b] = counted[b]
        BY <1>4, <2>3
    <2> QED  BY <1>2, <1>6, <2>1, <2>3, <2>4, <2>5
<1>7. CASE r.one > 0 /\ recount' = [recount EXCEPT ![a].one = @ - 1]
                /\ counted' = [counted EXCEPT ![a] = CountAfter(a, 1)] /\ RecountWrites(a)
    <2> DEFINE s == [wait |-> r.wait, zero |-> r.zero, one |-> r.one - 1]
    <2>1. s \in R /\ s.wait = r.wait /\ s.zero = r.zero /\ s.one = r.one - 1
        BY <1>2, <1>7
    <2>2. recount' = [recount EXCEPT ![a] = s]
        <3>1. [r EXCEPT !.one = r.one - 1] = s
            BY <1>2
        <3>2. recount' = [recount EXCEPT ![a] = [recount[a] EXCEPT !.one = recount[a].one - 1]]
            BY <1>7
        <3> HIDE DEF s
        <3> QED  BY <3>1, <3>2
    <2>3. /\ counted' = [counted EXCEPT ![a] = 1]
          /\ UNCHANGED <<request, cache, call, concierge, told, pending, conflicted, twice, ops>>
        BY <1>7 DEF RecountWrites, CountAfter, ghosts
    <2> HIDE DEF s
    <2>4. /\ recount'[a] = s /\ recount' \in [Counted -> R]
          /\ \A b \in Counted \ {a} : recount'[b] = recount[b]
        BY <1>3, <2>1, <2>2
    <2>5. /\ counted'[a] = 1 /\ counted' \in [Counted -> Nat]
          /\ \A b \in Counted \ {a} : counted'[b] = counted[b]
        BY <1>4, <2>3
    <2> QED  BY <1>2, <1>7, <2>1, <2>3, <2>4, <2>5
<1> QED  BY <1>1, <1>5, <1>6, <1>7 DEF RecountWrites

(* An announcement only adds to what waits to be counted.                  *)
LEMMA RecountsWait ==
    ASSUME NumbersOK, NEW who, Recounts(who)
    PROVE  /\ recount' \in [Counted -> [wait : Nat, zero : Nat, one : Nat]]
           /\ \A a \in Counted :
                /\ recount'[a].zero = recount[a].zero /\ recount'[a].one = recount[a].one
                /\ recount'[a].wait = recount[a].wait + (IF a \in who THEN 1 ELSE 0)
<1> DEFINE R == [wait : Nat, zero : Nat, one : Nat]
<1>1. ASSUME NEW a \in Counted
      PROVE  /\ recount'[a] \in R
             /\ recount'[a].zero = recount[a].zero /\ recount'[a].one = recount[a].one
             /\ recount'[a].wait = recount[a].wait + (IF a \in who THEN 1 ELSE 0)
    <2>1. recount[a] \in R
        BY DEF NumbersOK
    <2>2. recount'[a] = [recount[a] EXCEPT !.wait = recount[a].wait + IF a \in who THEN 1 ELSE 0]
        BY DEF Recounts
    <2>3. recount[a].wait + (IF a \in who THEN 1 ELSE 0) \in Nat
        BY <2>1
    <2> QED  BY <2>1, <2>2, <2>3
<1>2. recount' = [a \in Counted |-> recount'[a]]
    BY DEF Recounts
<1> HIDE DEF R
<1>3. recount' \in [Counted -> R]
    BY <1>1, <1>2
<1> QED  BY <1>1, <1>3 DEF R

LEMMA NumbersStep ==
    ASSUME CoreInv, NumbersOK, [Next]_vars
    PROVE  NumbersOK'
<1>1. /\ recount' \in [Counted -> [wait : Nat, zero : Nat, one : Nat]]
      /\ counted' \in [Counted -> Nat] /\ told' \in [Members -> Int]
      /\ twice' \in BOOLEAN
    <2>1. CASE \E c \in Callers : \/ Loading(c) \/ Storing(c) \/ Settling(c) \/ Adding(c)
                                  \/ Closing(c)
        <3>1. UNCHANGED <<recount, counted, told>> /\ twice' \in BOOLEAN
            BY <2>1 DEF Loading, Storing, Settling, Adding, Closing, NumbersOK
        <3> QED  BY <3>1 DEF NumbersOK
    <2>2. CASE \E c \in Callers : Telling(c)
        <3>1. PICK c \in Callers : Telling(c)
            BY <2>2
        <3>2. told' \in [Members -> Int]
            <4>1. \A m \in Members : told[m] + (IF Gains(call[c], m) THEN 1 ELSE 0)
                                             - (IF Loses(call[c], m) THEN 1 ELSE 0) \in Int
                BY DEF NumbersOK
            <4> QED  BY <3>1, <4>1 DEF Telling
        <3>3. recount' \in [Counted -> [wait : Nat, zero : Nat, one : Nat]]
            BY <3>1, RecountsWait DEF Telling
        <3> QED  BY <3>1, <3>2, <3>3 DEF Telling, NumbersOK
    <2>3. CASE \E c \in Callers : CloseTold(c)
        <3>1. PICK c \in Callers : CloseTold(c)
            BY <2>3
        <3>2. recount' \in [Counted -> [wait : Nat, zero : Nat, one : Nat]]
            BY <3>1, RecountsWait DEF CloseTold
        <3> QED  BY <3>1, <3>2 DEF CloseTold, NumbersOK
    <2>4. CASE Counting
        BY <2>4, CountingStep DEF NumbersOK
    <2>6. CASE Recounting
        <3>1. recount' \in [Counted -> [wait : Nat, zero : Nat, one : Nat]]
            BY <2>6, RecountsWait DEF Recounting
        <3> QED  BY <2>6, <3>1 DEF Recounting, NumbersOK
    <2>5. CASE Resting
        BY <2>5 DEF Resting, NumbersOK
    <2> QED  BY <2>1, <2>2, <2>3, <2>4, <2>5, <2>6, Kinds
<1>2. concierge' \in [Bots -> Nat] /\ ops' \in Nat /\ conflicted' \in BOOLEAN
    <2>0. concierge \in [Bots -> Nat] /\ ops \in Nat /\ ops + 1 \in Nat /\ conflicted \in BOOLEAN
        BY DEF NumbersOK
    <2>1. ASSUME NEW c \in Callers, Arrives(c)
          PROVE  UNCHANGED <<concierge, conflicted>> /\ ops' \in {ops, ops + 1}
        BY <2>1 DEF Arrives, AddLoads, RemoveLoads, SetLoads, ReopenLoads, AssignChecks,
                    RouteLoads, CloseLoads, Quiet, Loads, ghosts
    <2>2. ASSUME NEW c \in Callers, RouteRefused(c)
          PROVE  UNCHANGED <<concierge, conflicted, ops>>
        BY <2>2 DEF RouteRefused, Quiet, ghosts
    <2>3. ASSUME NEW c \in Callers, ConciergeLoads(c)
          PROVE  concierge' \in [Bots -> Nat] /\ UNCHANGED <<conflicted, ops>>
        <3>1. PICK b \in Bots : concierge[b] > 0 /\ concierge' = [concierge EXCEPT ![b] = @ - 1]
            BY <2>3 DEF ConciergeLoads
        <3>2. concierge[b] - 1 \in Nat
            BY <2>0, <3>1
        <3> QED  BY <2>0, <2>3, <3>1, <3>2 DEF ConciergeLoads, ghosts
    <2>4. ASSUME NEW c \in Callers, AddAnnounces(c)
          PROVE  concierge' \in [Bots -> Nat] /\ UNCHANGED <<conflicted, ops>>
        <3>1. PICK left : concierge' = [b \in Bots |-> concierge[b] + IF b \in left THEN 1 ELSE 0]
            BY <2>4 DEF AddAnnounces
        <3>2. \A b \in Bots : concierge[b] + (IF b \in left THEN 1 ELSE 0) \in Nat
            BY <2>0
        <3> QED  BY <2>4, <3>1, <3>2 DEF AddAnnounces, ghosts
    <2>5. ASSUME NEW c \in Callers,
                 RemoveSaves(c) \/ SetSaves(c) \/ RouteSaves(c)
          PROVE  UNCHANGED <<concierge, ops>> /\ conflicted' \in {conflicted, TRUE}
        <3>1. CASE RemoveSaves(c)
            BY <3>1 DEF RemoveSaves, Saves
        <3>2. CASE SetSaves(c)
            BY <3>2 DEF SetSaves, Saves
        <3>3. CASE RouteSaves(c)
            BY <3>3 DEF RouteSaves, RouteChangesNothing, Saves
        <3> QED  BY <2>5, <3>1, <3>2, <3>3
    <2>6. ASSUME NEW c \in Callers, Steps(c), ~AddAnnounces(c),
                 ~(RemoveSaves(c) \/ SetSaves(c) \/ RouteSaves(c)), ~RouteLoads(c)
          PROVE  UNCHANGED <<concierge, ops, conflicted>>
        BY <2>6 DEF Steps, AddSaves, ReopenSaves, RemoveAnnounces, SetAnnounces,
                    CloseChangesStatus, CloseEnds, ghosts
    <2>7. ASSUME Counting \/ CacheDrops \/ UNCHANGED vars
          PROVE  UNCHANGED <<concierge, ops, conflicted>>
        BY <2>7 DEF Counting, RecountReads, RecountWrites, CacheDrops, vars, ghosts
    <2>8. \A c \in Callers : RouteLoads(c) => Arrives(c)
        BY DEF Arrives
    <2>9. ASSUME Patches PROVE UNCHANGED <<concierge, conflicted>> /\ ops' \in {ops, ops + 1}
        BY <2>9 DEF Patches, ghosts
    <2> QED  BY <2>0, <2>1, <2>2, <2>3, <2>4, <2>5, <2>6, <2>7, <2>8, <2>9 DEF Next, Counting
<1>3. pending' \in BOOLEAN
    <2>1. ASSUME NEW c \in Callers, Arrives(c) PROVE UNCHANGED pending
        BY <2>1 DEF Arrives, AddLoads, RemoveLoads, SetLoads, ReopenLoads, AssignChecks,
                    RouteLoads, CloseLoads, Quiet
    <2>2. ASSUME NEW c \in Callers, Steps(c) \/ RouteRefused(c) \/ ConciergeLoads(c)
          PROVE  UNCHANGED pending
        BY <2>2 DEF Steps, AddSaves, RemoveSaves, SetSaves, RouteSaves, ReopenSaves, AddAnnounces,
                    RemoveAnnounces, SetAnnounces, RouteLoads, CloseChangesStatus, CloseEnds,
                    RouteRefused, ConciergeLoads, Quiet
    <2>3. ASSUME Counting \/ CacheDrops \/ UNCHANGED vars PROVE UNCHANGED pending
        BY <2>3 DEF Counting, RecountReads, RecountWrites, CacheDrops, vars
    <2>4. ASSUME Patches PROVE pending' \in BOOLEAN
        BY <2>4 DEF Patches
    <2>5. pending \in BOOLEAN
        BY DEF NumbersOK
    <2> QED  BY <2>1, <2>2, <2>3, <2>4, <2>5 DEF Next, Counting
<1> QED  BY <1>1, <1>2, <1>3 DEF NumbersOK

-----------------------------------------------------------------------------
(* Nobody is added twice, but for twice                                    *)

LEMMA OnceStep ==
    ASSUME CoreInv, twice \in BOOLEAN, OnceOK, [Next]_vars
    PROVE  OnceOK'
<1> SUFFICES ASSUME ~twice' PROVE NoneTwice(request'.participants)
    BY DEF OnceOK, NoneTwice
<1>0. request.participants \in Seq(Members)
    BY DEF CoreInv, Documents
<1>1. ASSUME ~twice PROVE NoneTwice(request.participants)
    BY <1>1 DEF OnceOK
<1>2. ASSUME NEW c \in Callers, Storing(c) PROVE NoneTwice(request'.participants)
    <2>1. NoneTwice(request.participants)
        BY <1>1, <1>2 DEF Storing
    <2>2. CASE Arrays(request') = Arrays(request)
        BY <2>1, <2>2 DEF Arrays
    <2>3. CASE Arrays(request) = Arrays(call[c].doc) /\ request'.participants = MembersAfter(call'[c])
        <3>1. call'[c].doc.participants = request.participants
            BY <1>2, <2>3 DEF Arrays, Storing
        <3>2. CASE call'[c].op = "removed"
            <4>1. request'.participants = RemoveFirst(request.participants, call'[c].arg)
                BY <2>3, <3>1, <3>2 DEF MembersAfter
            <4> QED  BY <1>0, <2>1, <4>1, RemovedOnce
        <3>3. CASE call'[c].op = "replaced"
            <4>1. request'.participants = call'[c].arg /\ call'[c].arg \in ListsToSet
                BY <1>2, <2>3, <3>3 DEF MembersAfter, Storing, CallOK
            <4> QED  BY <4>1, ListsType
        <3> QED  BY <1>2, <3>2, <3>3 DEF Storing
    <2> QED  BY <1>2, <2>2, <2>3 DEF Storing
<1>3. ASSUME NEW c \in Callers, Adding(c) PROVE NoneTwice(request'.participants)
    <2> DEFINE m == call[c].arg
               s == request.participants
    <2>1. NoneTwice(s) /\ m \notin ToSet(s) /\ m \in Members /\ request'.participants = Append(s, m)
        BY <1>1, <1>3 DEF Adding
    <2>2. /\ DOMAIN Append(s, m) = 1 .. Len(s) + 1 /\ DOMAIN s = 1 .. Len(s) /\ Len(s) \in Nat
          /\ Append(s, m)[Len(s) + 1] = m /\ \A i \in 1 .. Len(s) : Append(s, m)[i] = s[i]
        BY <1>0, <2>1
    <2>3. \A i \in 1 .. Len(s) + 1 : i \in 1 .. Len(s) \/ i = Len(s) + 1
        BY <2>2
    <2>4. \A i \in 1 .. Len(s) : s[i] # m
        BY <2>1, <2>2 DEF ToSet
    <2>5. NoneTwice(Append(s, m))
        BY <2>1, <2>2, <2>3, <2>4 DEF NoneTwice
    <2> QED  BY <2>1, <2>5
<1>4. ASSUME NEW c \in Callers,
             Loading(c) \/ Settling(c) \/ Closing(c) \/ Telling(c) \/ CloseTold(c)
      PROVE  NoneTwice(request'.participants)
    <2>1. request'.participants = request.participants /\ ~twice
        BY <1>4 DEF Loading, Settling, Closing, Telling, CloseTold, Arrays, CoreInv, Documents
    <2> QED  BY <1>1, <2>1
<1>5. ASSUME Counting \/ Recounting \/ Resting PROVE NoneTwice(request'.participants)
    BY <1>1, <1>5 DEF Counting, RecountReads, RecountWrites, Recounting, Resting, ghosts
<1> QED  BY <1>2, <1>3, <1>4, <1>5, Kinds

-----------------------------------------------------------------------------
(* What was told and what is to be told                                    *)

One(p) == IF p THEN 1 ELSE 0

(* Sets that differ by c at most.                                          *)
LEMMA OneChanges ==
    ASSUME NEW c, NEW S, NEW T, IsFiniteSet(S), S \ {c} = T \ {c}
    PROVE  /\ IsFiniteSet(T) /\ Cardinality(S) \in Nat /\ Cardinality(T) \in Nat
           /\ Cardinality(T) = Cardinality(S) + One(c \in T) - One(c \in S)
<1>1. IsFiniteSet(S \ {c}) /\ Cardinality(S \ {c}) = IF c \in S THEN Cardinality(S) - 1 ELSE Cardinality(S)
    BY FS_RemoveElement
<1>2. T \subseteq (S \ {c}) \cup {c}
    OBVIOUS
<1>3. IsFiniteSet((S \ {c}) \cup {c})
    BY <1>1, FS_AddElement
<1>4. IsFiniteSet(T)
    BY <1>2, <1>3, FS_Subset
<1>5. Cardinality(T \ {c}) = IF c \in T THEN Cardinality(T) - 1 ELSE Cardinality(T)
    BY <1>4, FS_RemoveElement
<1>6. Cardinality(S) \in Nat /\ Cardinality(T) \in Nat
    BY <1>4, FS_CardinalityType
<1> QED  BY <1>1, <1>4, <1>5, <1>6 DEF One

(* Only call c joins or leaves the calls that have to tell of m.           *)
LEMMA JoiningChanges ==
    ASSUME IsFiniteSet(Busy), NEW c \in Callers, OnlyCall(c)
    PROVE  /\ IsFiniteSet(Busy')
           /\ \A m : /\ Cardinality(Joining(m)) \in Nat /\ Cardinality(Leaving(m)) \in Nat
                     /\ Cardinality({d \in Callers : Gains(call'[d], m)}) =
                            Cardinality(Joining(m)) + One(Gains(call'[c], m)) - One(Gains(call[c], m))
                     /\ Cardinality({d \in Callers : Loses(call'[d], m)}) =
                            Cardinality(Leaving(m)) + One(Loses(call'[c], m)) - One(Loses(call[c], m))
<1>1. IsFiniteSet(Busy')
    <2>1. Busy' \subseteq Busy \cup {c}
        BY DEF Busy, OnlyCall
    <2> QED  BY <2>1, FS_AddElement, FS_Subset
<1>2. ASSUME NEW m
      PROVE  /\ Cardinality(Joining(m)) \in Nat /\ Cardinality(Leaving(m)) \in Nat
             /\ Cardinality({d \in Callers : Gains(call'[d], m)}) =
                    Cardinality(Joining(m)) + One(Gains(call'[c], m)) - One(Gains(call[c], m))
             /\ Cardinality({d \in Callers : Loses(call'[d], m)}) =
                    Cardinality(Leaving(m)) + One(Loses(call'[c], m)) - One(Loses(call[c], m))
    <2> DEFINE J == {d \in Callers : Gains(call'[d], m)}
               L == {d \in Callers : Loses(call'[d], m)}
    <2>1. Joining(m) \subseteq Busy /\ Leaving(m) \subseteq Busy
        BY DEF Joining, Leaving, Busy, Gains, Loses
    <2>2. IsFiniteSet(Joining(m)) /\ IsFiniteSet(Leaving(m))
        BY <2>1, FS_Subset
    <2>3. /\ Joining(m) \ {c} = J \ {c} /\ Leaving(m) \ {c} = L \ {c}
          /\ c \in Joining(m) <=> Gains(call[c], m)
          /\ c \in J <=> Gains(call'[c], m)
          /\ c \in Leaving(m) <=> Loses(call[c], m)
          /\ c \in L <=> Loses(call'[c], m)
        BY DEF Joining, Leaving, OnlyCall
    <2> HIDE DEF J, L
    <2>4. /\ Cardinality(Joining(m)) \in Nat
          /\ Cardinality(J) = Cardinality(Joining(m)) + One(c \in J) - One(c \in Joining(m))
        BY <2>2, <2>3, OneChanges
    <2>5. /\ Cardinality(Leaving(m)) \in Nat
          /\ Cardinality(L) = Cardinality(Leaving(m)) + One(c \in L) - One(c \in Leaving(m))
        BY <2>2, <2>3, OneChanges
    <2> QED  BY <2>3, <2>4, <2>5 DEF J, L, One
<1> QED  BY <1>1, <1>2

\* What a step of call c tells of m and leaves to be told of m, against the
\* participants it changes.
Balanced(c, m) ==
    /\ OnlyCall(c) /\ told'[m] \in Int
    /\ (told'[m] - told[m])
            + (One(Gains(call'[c], m)) - One(Gains(call[c], m)))
            - (One(Loses(call'[c], m)) - One(Loses(call[c], m)))
        = One(m \in ToSet(request'.participants)) - One(m \in ToSet(request.participants))

(* A save changes the participants as the call will tell.                  *)
LEMMA StoredChange ==
    ASSUME CoreInv, NEW c \in Callers, Storing(c), NEW m,
           NoneTwice(request.participants) \/ call'[c].op # "removed" \/ call'[c].arg # m
    PROVE  One(Gains(call'[c], m)) - One(Loses(call'[c], m)) =
                One(m \in ToSet(request'.participants)) - One(m \in ToSet(request.participants))
<1> DEFINE k == call'[c]
           s == request.participants
           t == request'.participants
           old == k.doc.participants
<1>1. /\ k.op \in {"removed", "replaced"} /\ old = call[c].doc.participants
      /\ k.op = "removed" => k.arg \in ToSet(old)
      /\ old \in Seq(Members)
    BY DEF Storing, CallOK, WithDocument, Documents
<1>2. \/ s = old /\ t = MembersAfter(k)
      \/ t = s /\ MembersAfter(k) = old
    BY DEF Storing, Arrays
<1> HIDE DEF k, s, t, old
<1>3. CASE k.op = "removed"
    <2>1. MembersAfter(k) = RemoveFirst(old, k.arg) /\ MembersAfter(k) # old
        BY <1>1, <1>3, RemovedOnce DEF MembersAfter, old
    <2>2. s = old /\ t = RemoveFirst(old, k.arg)
        BY <1>2, <2>1
    <2>3. (m = k.arg /\ NoneTwice(old)) => m \in ToSet(s) /\ m \notin ToSet(t)
        BY <1>1, <1>3, <2>2, RemovedOnce
    <2>4. m # k.arg => (m \in ToSet(t) <=> m \in ToSet(s))
        BY <1>1, <2>2, RemovedOnce
    <2>5. ~Gains(k, m) /\ (Loses(k, m) <=> k.arg = m)
        BY <1>3 DEF Gains, Loses
    <2>6. NoneTwice(old) \/ k.arg # m
        BY <1>3, <2>2 DEF k, s
    <2> QED  BY <2>3, <2>4, <2>5, <2>6 DEF One, k, s, t
<1>4. CASE k.op = "replaced"
    <2>1. MembersAfter(k) = k.arg
        BY <1>4 DEF MembersAfter
    <2>2. /\ Gains(k, m) <=> m \in ToSet(k.arg) /\ m \notin ToSet(old)
          /\ Loses(k, m) <=> m \in ToSet(old) /\ m \notin ToSet(k.arg)
        BY <1>4 DEF Gains, Loses, AddedBy, RemovedBy, old
    <2> QED  BY <1>2, <2>1, <2>2 DEF One, k, s, t
<1> QED  BY <1>1, <1>3, <1>4

LEMMA StepsBalanced ==
    ASSUME CoreInv, NumbersOK, OnceOK, ~twice', NEW c \in Callers, NEW m \in Members,
           Loading(c) \/ Storing(c) \/ Settling(c) \/ Adding(c) \/ Closing(c) \/ Telling(c)
    PROVE  Balanced(c, m)
<1>0. told[m] \in Int /\ request.participants \in Seq(Members) /\ ~Gains(Idle, m) /\ ~Loses(Idle, m)
    BY NothingIdle DEF CoreInv, NumbersOK, Documents, Gains, Loses
<1>1. CASE Loading(c) \/ Settling(c) \/ Closing(c)
    <2>1. ~Gains(call[c], m) /\ ~Loses(call[c], m)
        BY <1>1 DEF Loading, Settling, Closing, Gains, Loses
    <2>2. ~Gains(call'[c], m) /\ ~Loses(call'[c], m)
        BY <1>0, <1>1 DEF Loading, Settling, Closing, Gains, Loses
    <2>3. request'.participants = request.participants
        BY <1>1 DEF Loading, Settling, Closing, Arrays, CoreInv, Documents
    <2> QED  BY <1>0, <1>1, <2>1, <2>2, <2>3 DEF Balanced, One, Loading, Settling, Closing
<1>2. CASE Telling(c)
    <2>1. told'[m] = told[m] + One(Gains(call[c], m)) - One(Loses(call[c], m))
        BY <1>2 DEF Telling, One
    <2>2. OnlyCall(c) /\ call'[c] = Idle /\ request' = request
        BY <1>2 DEF Telling
    <2> QED  BY <1>0, <2>1, <2>2 DEF Balanced, One
<1>3. CASE Adding(c)
    <2>1. ~Gains(call[c], m) /\ ~Loses(call[c], m) /\ ~Loses(call'[c], m)
        BY <1>3 DEF Adding, Gains, Loses
    <2>2. Gains(call'[c], m) <=> m = call[c].arg
        BY <1>3 DEF Adding, Gains
    <2>3. /\ ToSet(request'.participants) = ToSet(request.participants) \cup {call[c].arg}
          /\ call[c].arg \notin ToSet(request.participants)
        <3>1. /\ request'.participants = Append(request.participants, call[c].arg)
              /\ call[c].arg \in Members
              /\ twice' = (twice \/ call[c].arg \in ToSet(request.participants))
            BY <1>3 DEF Adding
        <3>2. call[c].arg \notin ToSet(request.participants)
            BY <3>1, Zenon
        <3> QED  BY <1>0, <3>1, <3>2, SetOfAppend
    <2> QED  BY <1>0, <1>3, <2>1, <2>2, <2>3 DEF Balanced, One, Adding
<1>4. CASE Storing(c)
    <2>1. ~Gains(call[c], m) /\ ~Loses(call[c], m)
        BY <1>4 DEF Storing, Gains, Loses
    <2>2. NoneTwice(request.participants)
        BY <1>4 DEF OnceOK, Storing
    <2>3. One(Gains(call'[c], m)) - One(Loses(call'[c], m)) =
                One(m \in ToSet(request'.participants)) - One(m \in ToSet(request.participants))
        BY <1>4, <2>2, StoredChange
    <2>4. OnlyCall(c) /\ told' = told
        BY <1>4 DEF Storing
    <2> QED  BY <1>0, <2>1, <2>3, <2>4 DEF Balanced, One
<1> QED  BY <1>1, <1>2, <1>3, <1>4

LEMMA TellsStep ==
    ASSUME CoreInv, NumbersOK, OnceOK, TellsOK, [Next]_vars
    PROVE  TellsOK'
<1>1. ASSUME NEW c \in Callers,
             Loading(c) \/ Storing(c) \/ Settling(c) \/ Adding(c) \/ Closing(c) \/ Telling(c)
      PROVE  TellsOK'
    <2>1. OnlyCall(c)
        BY <1>1 DEF Loading, Storing, Settling, Adding, Closing, Telling
    <2>2. /\ IsFiniteSet(Busy')
          /\ \A m : /\ Cardinality(Joining(m)) \in Nat /\ Cardinality(Leaving(m)) \in Nat
                    /\ Cardinality({d \in Callers : Gains(call'[d], m)}) =
                            Cardinality(Joining(m)) + One(Gains(call'[c], m)) - One(Gains(call[c], m))
                    /\ Cardinality({d \in Callers : Loses(call'[d], m)}) =
                            Cardinality(Leaving(m)) + One(Loses(call'[c], m)) - One(Loses(call[c], m))
        BY <2>1, JoiningChanges DEF TellsOK
    <2>3. ASSUME ~twice', NEW m \in Members
          PROVE  told'[m] + Cardinality({d \in Callers : Gains(call'[d], m)})
                          - Cardinality({d \in Callers : Loses(call'[d], m)})
                    = One(m \in ToSet(request'.participants))
        <3>1. ~twice
            BY <1>1, <2>3 DEF Loading, Storing, Settling, Adding, Closing, Telling
        <3>2. told[m] + Cardinality(Joining(m)) - Cardinality(Leaving(m))
                    = One(m \in ToSet(request.participants))
            BY <3>1 DEF TellsOK, One
        <3>3. Balanced(c, m)
            BY <1>1, <2>3, StepsBalanced
        <3>4. told[m] \in Int /\ told'[m] \in Int
            BY <3>3 DEF NumbersOK, Balanced
        <3>5. /\ One(Gains(call'[c], m)) \in Nat /\ One(Gains(call[c], m)) \in Nat
              /\ One(Loses(call'[c], m)) \in Nat /\ One(Loses(call[c], m)) \in Nat
              /\ One(m \in ToSet(request'.participants)) \in Nat
              /\ One(m \in ToSet(request.participants)) \in Nat
            BY DEF One
        <3> DEFINE A == told[m]
                   B == told'[m]
                   J == Cardinality(Joining(m))
                   L == Cardinality(Leaving(m))
                   K == Cardinality({d \in Callers : Gains(call'[d], m)})
                   M == Cardinality({d \in Callers : Loses(call'[d], m)})
                   u == One(Gains(call'[c], m))
                   v == One(Gains(call[c], m))
                   w == One(Loses(call'[c], m))
                   x == One(Loses(call[c], m))
                   y == One(m \in ToSet(request'.participants))
                   z == One(m \in ToSet(request.participants))
        <3>6. /\ A \in Int /\ B \in Int /\ J \in Nat /\ L \in Nat
              /\ u \in Nat /\ v \in Nat /\ w \in Nat /\ x \in Nat /\ y \in Nat /\ z \in Nat
              /\ A + J - L = z /\ K = J + u - v /\ M = L + w - x
              /\ (B - A) + (u - v) - (w - x) = y - z
            BY <2>2, <3>2, <3>3, <3>4, <3>5 DEF Balanced
        <3> HIDE DEF A, B, J, L, K, M, u, v, w, x, y, z
        <3>7. B + K - M = y
            BY <3>6
        <3> QED  BY <3>7 DEF B, K, M, y
    <2> QED  BY <2>2, <2>3 DEF TellsOK, Joining, Leaving, One
<1>2. ASSUME UNCHANGED <<request, call, told, twice>> PROVE TellsOK'
    BY <1>2 DEF TellsOK, Busy, Joining, Leaving
<1>3. ASSUME NEW c \in Callers, CloseTold(c) PROVE TellsOK'
    <2>1. \A m : ~Gains(call[c], m) /\ ~Loses(call[c], m) /\ ~Gains(Idle, m) /\ ~Loses(Idle, m)
        BY <1>3, NothingIdle DEF CloseTold, Gains, Loses
    <2>2. \A m : /\ {d \in Callers : Gains(call'[d], m)} = Joining(m)
                 /\ {d \in Callers : Loses(call'[d], m)} = Leaving(m)
        BY <1>3, <2>1 DEF CloseTold, OnlyCall, Joining, Leaving
    <2>3. IsFiniteSet(Busy')
        BY <1>3, JoiningChanges DEF CloseTold, TellsOK
    <2>4. UNCHANGED <<request, told, twice>>
        BY <1>3 DEF CloseTold
    <2> QED  BY <2>2, <2>3, <2>4 DEF TellsOK, Joining, Leaving
<1>4. ASSUME Counting \/ Recounting \/ Resting PROVE TellsOK'
    BY <1>2, <1>4 DEF Counting, RecountReads, RecountWrites, Recounting, Resting, ghosts
<1> QED  BY <1>1, <1>3, <1>4, Kinds

-----------------------------------------------------------------------------
(* The invariant of every run                                              *)

LEMMA InitInv ==
    ASSUME Init
    PROVE  IInv
<1>1. \E members \in GivenLists \cup ListsToSet :
        request = Waiting(members) \/ request = Created(members)
    BY ChosenType DEF Init
<1>2. PICK members \in GivenLists \cup ListsToSet :
        request = Waiting(members) \/ request = Created(members)
    BY <1>1
<1>3. request \in Documents /\ NoneTwice(request.participants)
    <2>1. members \in Seq(Members) /\ NoneTwice(members)
        BY ListsType DEF GivenLists, NoneTwice
    <2>2. StatusFor(members) \in Statuses /\ "temp" \in Statuses
        BY DEF StatusFor, Statuses
    <2>3. members # <<>> => <<Head(members)>> \in Seq(Members)
        BY <2>1
    <2> DEFINE listed == IF members = <<>> THEN <<>> ELSE <<Head(members)>>
    <2>4. listed \in Seq(Members) /\ <<>> \in Seq(Members)
        BY <2>3
    <2> HIDE DEF listed
    <2>5. CASE request = Waiting(members)
        BY <2>1, <2>2, <2>4, <2>5, DocumentType DEF Waiting
    <2>6. CASE request = Created(members)
        <3>1. request = Document(StatusFor(members), members, listed)
            BY <2>6 DEF Created, listed
        <3> QED  BY <2>1, <2>2, <2>4, <3>1, DocumentType
    <2> QED  BY <1>2, <2>5, <2>6
<1>4. /\ cache \in {Nothing, request} /\ call = [c \in Callers |-> Idle]
      /\ concierge = [b \in Bots |-> 0]
      /\ recount = [a \in Counted |->
            [wait |-> IF a \in ToSet(request.agents) THEN 1 ELSE 0, zero |-> 0, one |-> 0]]
      /\ counted = [a \in Counted |-> 0]
      /\ told = [m \in Members |-> IF m \in ToSet(request.participants) THEN 1 ELSE 0]
      /\ ~conflicted /\ ~twice /\ conflicted \in BOOLEAN /\ twice \in BOOLEAN
      /\ pending \in BOOLEAN /\ ops = 0
    BY DEF Init
<1>5. CallsOK
    BY <1>4, NothingIdle DEF CallsOK
<1>6. VersionsOK
    BY <1>3, <1>4, NothingIdle DEF VersionsOK, Older, Documents, WithDocument
<1>7. CoreInv
    BY <1>3, <1>4, <1>5, <1>6 DEF CoreInv
<1>8. NumbersOK
    BY <1>4 DEF NumbersOK
<1>9. OnceOK
    BY <1>3 DEF OnceOK
<1>10. TellsOK
    <2>1. Busy = {} /\ \A m : Joining(m) = {} /\ Leaving(m) = {}
        BY <1>4, NothingIdle DEF Busy, Joining, Leaving, Gains, Loses
    <2>2. IsFiniteSet({}) /\ Cardinality({}) = 0
        BY FS_EmptySet
    <2>3. ASSUME NEW m \in Members
          PROVE  told[m] + Cardinality(Joining(m)) - Cardinality(Leaving(m)) =
                    IF m \in ToSet(request.participants) THEN 1 ELSE 0
        <3>1. told[m] = IF m \in ToSet(request.participants) THEN 1 ELSE 0
            BY <1>4
        <3> QED  BY <2>1, <2>2, <3>1
    <2> QED  BY <2>1, <2>2, <2>3 DEF TellsOK
<1> QED  BY <1>5, <1>6, <1>7, <1>8, <1>9, <1>10, TypeApart DEF IInv

LEMMA StepInv ==
    ASSUME IInv, [Next]_vars
    PROVE  IInv'
<1>1. CoreInv /\ NumbersOK /\ OnceOK /\ TellsOK
    BY TypeJoint DEF IInv
<1>2. CoreInv'
    BY <1>1, CoreStep
<1>3. NumbersOK'
    BY <1>1, NumbersStep
<1>4. (CoreInv /\ NumbersOK => TypeOK)'
    BY TypeApart, PTL
<1>5. OnceOK' /\ TellsOK'
    BY <1>1, OnceStep, TellsStep DEF NumbersOK
<1>6. CallsOK' /\ VersionsOK'
    BY <1>2 DEF CoreInv
<1> QED  BY <1>2, <1>3, <1>4, <1>5, <1>6 DEF IInv

(* The invariant holds in every state of the specification.                *)
THEOREM Invariant == Spec => []IInv
<1>1. Init => IInv
    BY InitInv
<1>2. IInv /\ [Next]_vars => IInv'
    BY StepInv
<1> QED  BY <1>1, <1>2, PTL DEF Spec

(* Every variable stays in its type: the documents that calls and the      *)
(* cache hold, the counts, and the sums of what was told.                  *)
THEOREM TypeCorrect == Spec => []TypeOK
<1>1. IInv => TypeOK
    BY DEF IInv
<1> QED  BY <1>1, Invariant, PTL

(* No step, of any call from any document, takes the agreement of the      *)
(* lists of agents and of bots with the participants away from a           *)
(* conversation that has it.                                               *)
THEOREM ListsKept == Spec => ListsStayAligned
<1>1. IInv => CoreInv
    BY TypeJoint DEF IInv
<1>2. ASSUME CoreInv, [Next]_vars PROVE ListsAgree => ListsAgree'
    BY <1>2, StepMoves DEF Moves, ListsAgree, ListsOf
<1>3. IInv /\ [Next]_vars => [ListsAgree => ListsAgree']_vars
    BY <1>1, <1>2
<1> QED  BY <1>3, Invariant, PTL DEF Spec, ListsStayAligned

(* Once no call has an announcement to make, the joins and leaves that     *)
(* were told add up to the participants, unless a member was added twice.  *)
THEOREM EventsTold == Spec => []EventsTellParticipants
<1>1. IInv => EventsTellParticipants
    <2> SUFFICES ASSUME IInv, ~twice, \A c \in Callers : ~Announcing(c), NEW m \in Members
                 PROVE  told[m] = IF m \in ToSet(request.participants) THEN 1 ELSE 0
        BY DEF EventsTellParticipants
    <2>1. Joining(m) = {} /\ Leaving(m) = {}
        BY DEF Joining, Leaving, Gains, Loses, Announcing
    <2>2. Cardinality({}) = 0 /\ told[m] \in Int
        BY FS_EmptySet DEF IInv, TypeOK
    <2>3. told[m] + Cardinality(Joining(m)) - Cardinality(Leaving(m)) =
            IF m \in ToSet(request.participants) THEN 1 ELSE 0
        BY DEF IInv, TellsOK
    <2> QED  BY <2>1, <2>2, <2>3
<1> QED  BY <1>1, Invariant, PTL

(* Nobody leaves the participants through a call that had not loaded the   *)
(* request with that participant in it.                                    *)
THEOREM NothingBlind == Spec => NoBlindRemoval
<1>1. ASSUME CoreInv, [Next]_vars,
             NEW m \in ToSet(request.participants) \ ToSet(request'.participants)
      PROVE  \E c \in Callers : /\ call'[c].op # call[c].op /\ call[c].doc # Nothing
                                /\ m \in ToSet(call[c].doc.participants)
    <2>1. ASSUME NEW c \in Callers, Storing(c)
          PROVE  /\ call'[c].op # call[c].op /\ call[c].doc # Nothing
                 /\ m \in ToSet(call[c].doc.participants)
        <3>1. call'[c].op # call[c].op /\ call[c].op \in WithDocument
            BY <2>1 DEF Storing, WithDocument
        <3>2. call[c].doc \in Documents
            BY <1>1, <3>1 DEF CoreInv, CallsOK, CallOK
        <3>3. request.participants = call[c].doc.participants
            BY <1>1, <2>1 DEF Storing, Arrays
        <3> QED  BY <3>1, <3>2, <3>3, NothingIdle
    <2>2. ASSUME NEW c \in Callers, Adding(c) PROVE FALSE
        <3>1. request.participants \in Seq(Members)
            BY <1>1 DEF CoreInv, Documents
        <3> QED  BY <1>1, <2>2, <3>1, SetOfAppend DEF Adding
    <2>3. ASSUME NEW c \in Callers,
                 Loading(c) \/ Settling(c) \/ Closing(c) \/ Telling(c) \/ CloseTold(c)
          PROVE  FALSE
        <3>1. request'.participants = request.participants
            BY <1>1, <2>3 DEF Loading, Settling, Closing, Telling, CloseTold, Arrays, CoreInv, Documents
        <3> QED  BY <1>1, <3>1
    <2>4. ASSUME Counting \/ Recounting \/ Resting PROVE FALSE
        BY <1>1, <2>4 DEF Counting, RecountReads, RecountWrites, Recounting, Resting, ghosts
    <2> QED  BY <2>1, <2>2, <2>3, <2>4, Kinds, <1>1
<1>2. IInv => CoreInv
    BY TypeJoint DEF IInv
<1>3. IInv /\ [Next]_vars =>
        [\A m \in ToSet(request.participants) \ ToSet(request'.participants) :
           \E c \in Callers : /\ call'[c].op # call[c].op /\ call[c].doc # Nothing
                              /\ m \in ToSet(call[c].doc.participants)]_vars
    BY <1>1, <1>2
<1> QED  BY <1>3, Invariant, PTL DEF Spec, NoBlindRemoval
=============================================================================
