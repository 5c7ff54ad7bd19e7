---------------------------- MODULE DeskProofs ----------------------------
(***************************************************************************)
(* The screens on which something is entered and listed: the chat page and *)
(* the sidebar with their one conversation store, the composer and the     *)
(* documents page.  Nobody's turn is in another user's thread, an answer   *)
(* shows what arrived, the order of the conversations is complete, and     *)
(* what was entered once is sent and stored once; for any number of users, *)
(* conversations, turns, chunks, files and uploads.                        *)
(***************************************************************************)
EXTENDS Screens, FiniteSetTheorems, WellFoundedInduction, TLAPS

-----------------------------------------------------------------------------
(* Filter: what is kept of a sequence. *)

\* Induction over the natural numbers, for a set.
LEMMA Induct ==
    ASSUME NEW T \in SUBSET Nat, 0 \in T, \A n \in T : n + 1 \in T
    PROVE  \A n \in Nat : n \in T
<1> SUFFICES ASSUME Nat \ T # {} PROVE FALSE
  OBVIOUS
<1> DEFINE less == OpToRel(<, Nat)
<1>1. PICK m \in Nat \ T : \A n \in Nat \ T : <<n, m>> \notin less
  <2>1. IsWellFoundedOn(less, Nat)
    BY NatLessThanWellFounded
  <2> HIDE DEF less
  <2>2. Nat \ T \subseteq Nat
    OBVIOUS
  <2> QED
    BY <2>1, <2>2, WFMin
<1>2. \A n \in Nat \ T : ~(n < m)
  BY <1>1 DEF OpToRel
<1>3. m # 0
  OBVIOUS
<1>4. m - 1 \in Nat /\ m - 1 < m
  BY <1>3
<1>5. m - 1 \in T
  BY <1>2, <1>4
<1>6. (m - 1) + 1 \in T
  BY <1>5
<1> QED
  BY <1>4, <1>6

\* kept[n] is what Filter keeps of the first n elements.
Keeps(kept, s, S) ==
    kept = [n \in 0..Len(s) |->
              IF n = 0 THEN <<>>
              ELSE IF s[n] \in S THEN Append(kept[n - 1], s[n]) ELSE kept[n - 1]]

\* The recursion that defines Filter has a solution.
LEMMA FilterRecursion ==
    ASSUME NEW s, Len(s) \in Nat, NEW S
    PROVE  \E kept : Keeps(kept, s, S)
<1> DEFINE Solves(f, m) == f = [n \in 0..m |->
                       IF n = 0 THEN <<>>
                       ELSE IF s[n] \in S THEN Append(f[n - 1], s[n]) ELSE f[n - 1]]
           T == {m \in Nat : \E f : Solves(f, m)}
<1>1. 0 \in T
  <2>1. Solves([n \in 0..0 |-> <<>>], 0)
    OBVIOUS
  <2> QED
    BY <2>1
<1>2. ASSUME NEW m \in T PROVE m + 1 \in T
  <2>1. PICK f : Solves(f, m)
    OBVIOUS
  <2> DEFINE g == [n \in 0..(m + 1) |->
                     IF n = m + 1 THEN (IF s[n] \in S THEN Append(f[m], s[n]) ELSE f[m])
                     ELSE f[n]]
  <2>2. ASSUME NEW n \in 0..(m + 1)
        PROVE  g[n] = IF n = 0 THEN <<>>
                      ELSE IF s[n] \in S THEN Append(g[n - 1], s[n]) ELSE g[n - 1]
    <3>1. CASE n = m + 1
      <4>1. g[n - 1] = f[m] /\ n # 0
        BY <3>1
      <4> QED
        BY <3>1, <4>1
    <3>2. CASE n = 0
      BY <2>1, <3>2
    <3>3. CASE n # 0 /\ n # m + 1
      <4>1. n \in 0..m /\ n - 1 \in 0..m /\ n - 1 # m + 1 /\ n - 1 \in 0..(m + 1)
        BY <3>3
      <4>2. g[n] = f[n] /\ g[n - 1] = f[n - 1]
        BY <4>1
      <4>3. f[n] = IF s[n] \in S THEN Append(f[n - 1], s[n]) ELSE f[n - 1]
        BY <2>1, <3>3, <4>1
      <4> QED
        BY <3>3, <4>2, <4>3
    <3> QED
      BY <3>1, <3>2, <3>3
  <2>3. PICK h : h = g
    OBVIOUS
  <2>4. h = [n \in 0..(m + 1) |-> h[n]]
    BY <2>3
  <2>5. \A n \in 0..(m + 1) :
          h[n] = IF n = 0 THEN <<>>
                 ELSE IF s[n] \in S THEN Append(h[n - 1], s[n]) ELSE h[n - 1]
    BY <2>2, <2>3
  <2>6. Solves(h, m + 1)
    BY <2>4, <2>5
  <2>7. m + 1 \in Nat
    OBVIOUS
  <2> HIDE DEF Solves
  <2> QED
    BY <2>6, <2>7
<1>3. T \subseteq Nat
  OBVIOUS
<1>4. Len(s) \in T
  <2> HIDE DEF T
  <2> QED
    BY <1>1, <1>2, <1>3, Induct
<1> QED
  BY <1>4 DEF Keeps

Kept(s, S) == CHOOSE kept : Keeps(kept, s, S)

\* What the recursion that defines Filter does at each element.
LEMMA FilterSteps ==
    ASSUME NEW s, Len(s) \in Nat, NEW S
    PROVE  /\ Filter(s, S) = Kept(s, S)[Len(s)]
           /\ Kept(s, S)[0] = <<>>
           /\ \A n \in 1..Len(s) : Kept(s, S)[n] =
                IF s[n] \in S THEN Append(Kept(s, S)[n - 1], s[n]) ELSE Kept(s, S)[n - 1]
<1> DEFINE f == Kept(s, S)
<1>1. Filter(s, S) = f[Len(s)]
  BY DEF Filter, Kept, Keeps
<1>2. f = [n \in 0..Len(s) |->
             IF n = 0 THEN <<>>
             ELSE IF s[n] \in S THEN Append(f[n - 1], s[n]) ELSE f[n - 1]]
  <2>1. Keeps(f, s, S)
    BY FilterRecursion DEF Kept
  <2> QED
    BY <2>1 DEF Keeps
<1> HIDE DEF f
<1>3. f[0] = <<>>
  BY <1>2
<1>4. ASSUME NEW n \in 1..Len(s)
      PROVE  f[n] = IF s[n] \in S THEN Append(f[n - 1], s[n]) ELSE f[n - 1]
  <2>1. n \in 0..Len(s) /\ n # 0
    OBVIOUS
  <2> QED
    BY <1>2, <2>1
<1> USE DEF f
<1> QED
  BY <1>1, <1>3, <1>4

\* A sequence in which nothing occurs twice.
Distinct(s) == \A i, j \in 1..Len(s) : s[i] = s[j] => i = j

\* t is what Filter keeps of the first n elements of s.
IsKept(t, n, s, S, X) ==
    /\ t \in Seq(X) /\ Len(t) <= n
    /\ \A k \in 1..Len(t) : \E i \in 1..n : t[k] = s[i] /\ s[i] \in S
    /\ \A i \in 1..n : s[i] \in S => \E k \in 1..Len(t) : t[k] = s[i]
    /\ Distinct(s) => Distinct(t)

\* One more element is kept, or not.
LEMMA KeepNext ==
    ASSUME NEW X, NEW S, NEW s \in Seq(X), NEW n \in Nat, n + 1 <= Len(s), NEW t,
           IsKept(t, n, s, S, X)
    PROVE  /\ s[n + 1] \notin S => IsKept(t, n + 1, s, S, X)
           /\ s[n + 1] \in S => IsKept(Append(t, s[n + 1]), n + 1, s, S, X)
<1>1. /\ Len(s) \in Nat /\ n + 1 \in 1..Len(s) /\ s[n + 1] \in X
      /\ \A i \in 1..n : i \in 1..(n + 1) /\ i \in 1..Len(s) /\ i # n + 1
      /\ \A i \in 1..(n + 1) : i # n + 1 => i \in 1..n
      /\ n + 1 \in 1..(n + 1)
  OBVIOUS
<1>2. /\ t \in Seq(X) /\ Len(t) \in Nat /\ Len(t) <= n
      /\ \A k \in 1..Len(t) : \E i \in 1..n : t[k] = s[i] /\ s[i] \in S
      /\ \A i \in 1..n : s[i] \in S => \E k \in 1..Len(t) : t[k] = s[i]
      /\ Distinct(s) => Distinct(t)
  BY DEF IsKept
<1>3. ASSUME s[n + 1] \notin S PROVE IsKept(t, n + 1, s, S, X)
  <2>1. \A k \in 1..Len(t) : \E i \in 1..(n + 1) : t[k] = s[i] /\ s[i] \in S
    BY <1>1, <1>2
  <2>2. \A i \in 1..(n + 1) : s[i] \in S => \E k \in 1..Len(t) : t[k] = s[i]
    BY <1>1, <1>2, <1>3
  <2>3. Len(t) <= n + 1
    BY <1>2
  <2> QED
    BY <1>2, <2>1, <2>2, <2>3 DEF IsKept
<1>4. ASSUME s[n + 1] \in S PROVE IsKept(Append(t, s[n + 1]), n + 1, s, S, X)
  <2> DEFINE last == s[n + 1]
  <2>1. PICK u : u = Append(t, last)
    OBVIOUS
  <2>2. /\ u \in Seq(X) /\ Len(u) = Len(t) + 1
        /\ \A k \in 1..Len(t) : u[k] = t[k]
        /\ u[Len(t) + 1] = last
    <3>1. last \in X
      BY <1>1
    <3> HIDE DEF last
    <3> QED
      BY <1>2, <2>1, <3>1
  <2>3. /\ \A k \in 1..Len(u) : k # Len(t) + 1 => k \in 1..Len(t)
        /\ \A k \in 1..Len(t) : k \in 1..Len(u)
        /\ Len(t) + 1 \in 1..Len(u)
    BY <1>2, <2>2
  <2>4. ASSUME NEW k \in 1..Len(u) PROVE \E i \in 1..(n + 1) : u[k] = s[i] /\ s[i] \in S
    <3>1. CASE k = Len(t) + 1
      BY <1>1, <1>4, <2>2, <3>1
    <3>2. CASE k # Len(t) + 1
      <4>1. k \in 1..Len(t) /\ u[k] = t[k]
        BY <2>2, <2>3, <3>2
      <4> QED
        BY <1>1, <1>2, <4>1
    <3> QED
      BY <3>1, <3>2
  <2>5. ASSUME NEW i \in 1..(n + 1), s[i] \in S PROVE \E k \in 1..Len(u) : u[k] = s[i]
    <3>1. CASE i = n + 1
      BY <2>2, <2>3, <3>1
    <3>2. CASE i # n + 1
      <4>1. PICK k \in 1..Len(t) : t[k] = s[i]
        BY <1>1, <1>2, <2>5, <3>2
      <4> QED
        BY <2>2, <2>3, <4>1
    <3> QED
      BY <3>1, <3>2
  <2>6. ASSUME Distinct(s) PROVE Distinct(u)
    <3>1. ASSUME NEW k \in 1..Len(t) PROVE t[k] # last
      <4>1. PICK i \in 1..n : t[k] = s[i]
        BY <1>2
      <4> QED
        BY <1>1, <2>6, <4>1 DEF Distinct
    <3>2. \A j, k \in 1..Len(t) : t[j] = t[k] => j = k
      BY <1>2, <2>6 DEF Distinct
    <3> HIDE DEF last
    <3>3. ASSUME NEW j \in 1..Len(u), NEW k \in 1..Len(u), u[j] = u[k] PROVE j = k
      BY <2>2, <2>3, <3>1, <3>2, <3>3
    <3> QED
      BY <3>3 DEF Distinct
  <2>7. Len(u) <= n + 1
    BY <1>2, <2>2
  <2>8. IsKept(u, n + 1, s, S, X)
    BY <2>2, <2>4, <2>5, <2>6, <2>7 DEF IsKept
  <2> QED
    BY <2>1, <2>8
<1> QED
  BY <1>3, <1>4

\* Filter keeps exactly the elements that are in the set, and each once when
\* each was there once.
LEMMA FilterKeeps ==
    ASSUME NEW X, NEW s \in Seq(X), NEW S
    PROVE  /\ Filter(s, S) \in Seq(X)
           /\ Elements(Filter(s, S)) = Elements(s) \cap S
           /\ Distinct(s) => Distinct(Filter(s, S))
           /\ Len(Filter(s, S)) <= Len(s)
<1> DEFINE f == Kept(s, S)
           T == {n \in Nat : n <= Len(s) => IsKept(f[n], n, s, S, X)}
<1>1. /\ Len(s) \in Nat
      /\ Filter(s, S) = f[Len(s)]
      /\ f[0] = <<>>
      /\ \A n \in 1..Len(s) : f[n] = IF s[n] \in S THEN Append(f[n - 1], s[n]) ELSE f[n - 1]
  BY FilterSteps
<1> HIDE DEF f
<1>2. 0 \in T
  <2>1. f[0] \in Seq(X) /\ Len(f[0]) = 0
    BY <1>1
  <2> QED
    BY <2>1 DEF Distinct, IsKept
<1>3. ASSUME NEW n \in T PROVE n + 1 \in T
  <2> SUFFICES ASSUME n + 1 <= Len(s) PROVE IsKept(f[n + 1], n + 1, s, S, X)
    OBVIOUS
  <2>1. n \in Nat /\ n + 1 \in 1..Len(s) /\ (n + 1) - 1 = n /\ IsKept(f[n], n, s, S, X)
    BY <1>1
  <2>2. f[n + 1] = IF s[n + 1] \in S THEN Append(f[n], s[n + 1]) ELSE f[n]
    BY <1>1, <2>1
  <2> QED
    BY <2>1, <2>2, KeepNext
<1>4. Len(s) \in T
  <2>1. T \subseteq Nat
    OBVIOUS
  <2> HIDE DEF T
  <2> QED
    BY <1>1, <1>2, <1>3, <2>1, Induct
<1>5. IsKept(Filter(s, S), Len(s), s, S, X)
  BY <1>1, <1>4
<1>6. DOMAIN Filter(s, S) = 1..Len(Filter(s, S)) /\ DOMAIN s = 1..Len(s)
  BY <1>5 DEF IsKept
<1>7. Elements(Filter(s, S)) = Elements(s) \cap S
  <2>1. \A k \in 1..Len(Filter(s, S)) : \E i \in 1..Len(s) : Filter(s, S)[k] = s[i]
            /\ s[i] \in S
    BY <1>5 DEF IsKept
  <2>2. \A i \in 1..Len(s) : s[i] \in S => \E k \in 1..Len(Filter(s, S)) : Filter(s, S)[k]
            = s[i]
    BY <1>5 DEF IsKept
  <2>3. ASSUME NEW x \in Elements(Filter(s, S)) PROVE x \in Elements(s) /\ x \in S
    <3>1. PICK k \in 1..Len(Filter(s, S)) : x = Filter(s, S)[k]
      BY <1>6 DEF Elements
    <3>2. PICK i \in 1..Len(s) : x = s[i] /\ s[i] \in S
      BY <2>1, <3>1
    <3> QED
      BY <1>6, <3>2 DEF Elements
  <2>4. ASSUME NEW x \in Elements(s), x \in S PROVE x \in Elements(Filter(s, S))
    <3>1. PICK i \in 1..Len(s) : x = s[i]
      BY <1>6 DEF Elements
    <3>2. PICK k \in 1..Len(Filter(s, S)) : Filter(s, S)[k] = s[i]
      BY <2>2, <2>4, <3>1
    <3> QED
      BY <1>6, <3>1, <3>2 DEF Elements
  <2> QED
    BY <2>3, <2>4
<1> QED
  BY <1>5, <1>7 DEF IsKept

-----------------------------------------------------------------------------
(* The conversation store: every setter leaves it a store. *)

\* A conversation whose messages are one of the lists M.
Threads(M) ==
    [owner : Users, title : {"new", "named"}, messages : M,
     project : (1..MaxProjects) \cup {None}, pinned : BOOLEAN, archived : BOOLEAN]

\* The order names every conversation once.
Ordered(s) ==
    /\ s.order \in Seq(DOMAIN s.convs)
    /\ Distinct(s.order) /\ Elements(s.order) = DOMAIN s.convs

\* A store of conversations 1..n whose messages are lists of M.
StoreOK(s, n, M) ==
    /\ s = [convs |-> s.convs, order |-> s.order, active |-> s.active]
    /\ DOMAIN s.convs \subseteq 1..n
    /\ \A c \in DOMAIN s.convs : s.convs[c] \in Threads(M)
    /\ s.active \in {None} \cup DOMAIN s.convs
    /\ Ordered(s)

\* A sequence and the set of its elements.
LEMMA ElementsOf ==
    ASSUME NEW X, NEW s \in Seq(X)
    PROVE  /\ Len(s) \in Nat /\ DOMAIN s = 1..Len(s)
           /\ Elements(s) \subseteq X
           /\ \A i \in 1..Len(s) : s[i] \in Elements(s)
           /\ \A x \in Elements(s) : \E i \in 1..Len(s) : x = s[i]
           /\ \A Y : Elements(s) \subseteq Y => s \in Seq(Y)
<1>1. Len(s) \in Nat /\ DOMAIN s = 1..Len(s) /\ \A i \in 1..Len(s) : s[i] \in X
  OBVIOUS
<1>2. Elements(s) = {s[i] : i \in 1..Len(s)}
  BY <1>1 DEF Elements
<1>3. ASSUME NEW Y, Elements(s) \subseteq Y PROVE s \in Seq(Y)
  <2>1. \A i \in 1..Len(s) : s[i] \in Y
    BY <1>2, <1>3
  <2>2. s = [i \in 1..Len(s) |-> s[i]]
    BY <1>1
  <2>3. s \in [1..Len(s) -> Y]
    BY <2>1, <2>2
  <2> QED
    BY <1>1, <2>3
<1> QED
  BY <1>1, <1>2, <1>3

\* A sequence is one of every set that holds its elements.
LEMMA Narrowed ==
    ASSUME NEW X, NEW s \in Seq(X), NEW Y, Elements(s) \subseteq Y
    PROVE  s \in Seq(Y)
BY ElementsOf

\* A new element put first leaves every element there once.
LEMMA FrontOf ==
    ASSUME NEW X, NEW c \in X, NEW s \in Seq(X), c \notin Elements(s), Distinct(s)
    PROVE  /\ <<c>> \o s \in Seq(X)
           /\ Elements(<<c>> \o s) = {c} \cup Elements(s) /\ Distinct(<<c>> \o s)
<1>1. PICK t : t = <<c>> \o s
  OBVIOUS
<1>2. /\ t \in Seq(X) /\ Len(t) = Len(s) + 1 /\ t[1] = c /\ Len(s) \in Nat
      /\ \A i \in 1..Len(s) : t[i + 1] = s[i]
  BY <1>1
<1>3. \A i \in 1..Len(t) : i = 1 \/ (i - 1 \in 1..Len(s) /\ t[i] = s[i - 1])
  <2> SUFFICES ASSUME NEW i \in 1..Len(t), i # 1 PROVE i - 1 \in 1..Len(s) /\ t[i] = s[i - 1]
    OBVIOUS
  <2>1. i - 1 \in 1..Len(s) /\ (i - 1) + 1 = i
    BY <1>2
  <2> QED
    BY <1>2, <2>1
<1>4. \A x \in Elements(t) : x = c \/ x \in Elements(s)
  <2> SUFFICES ASSUME NEW x \in Elements(t) PROVE x = c \/ x \in Elements(s)
    OBVIOUS
  <2>1. PICK i \in 1..Len(t) : x = t[i]
    BY <1>2, ElementsOf
  <2> QED
    BY <1>2, <1>3, <2>1, ElementsOf
<1>5. c \in Elements(t)
  <2>1. 1 \in 1..Len(t)
    BY <1>2
  <2> QED
    BY <1>2, <2>1, ElementsOf
<1>6. \A x \in Elements(s) : x \in Elements(t)
  <2> SUFFICES ASSUME NEW x \in Elements(s) PROVE x \in Elements(t)
    OBVIOUS
  <2>1. PICK i \in 1..Len(s) : x = s[i]
    BY ElementsOf
  <2>2. i + 1 \in 1..Len(t) /\ t[i + 1] = x
    BY <1>2, <2>1
  <2> QED
    BY <1>2, <2>2, ElementsOf
<1>7. Distinct(t)
  <2>1. \A i \in 1..Len(s) : s[i] # c
    BY ElementsOf
  <2> SUFFICES ASSUME NEW i \in 1..Len(t), NEW j \in 1..Len(t), t[i] = t[j] PROVE i = j
    BY DEF Distinct
  <2>2. CASE i = 1 \/ j = 1
    BY <1>2, <1>3, <2>1, <2>2
  <2>3. CASE i # 1 /\ j # 1
    <3>1. /\ i - 1 \in 1..Len(s) /\ j - 1 \in 1..Len(s) /\ s[i - 1] = s[j - 1]
      BY <1>3, <2>3
    <3>2. i - 1 = j - 1
      BY <3>1 DEF Distinct
    <3> QED
      BY <1>2, <3>2
  <2> QED
    BY <2>2, <2>3
<1> QED
  BY <1>1, <1>2, <1>4, <1>5, <1>6, <1>7

\* All but one element of a sequence.
LEMMA WithoutOf ==
    ASSUME NEW X, NEW s \in Seq(X), Distinct(s), NEW c
    PROVE  /\ Without(c, s) \in Seq(X) /\ Distinct(Without(c, s))
           /\ Elements(Without(c, s)) = Elements(s) \ {c}
BY FilterKeeps DEF Without

\* One element is moved to the front, or put there.
LEMMA ToFrontOf ==
    ASSUME NEW X, NEW c \in X, NEW s \in Seq(X), Distinct(s)
    PROVE  /\ ToFront(c, s) \in Seq(X) /\ Distinct(ToFront(c, s))
           /\ Elements(ToFront(c, s)) = Elements(s) \cup {c}
<1> DEFINE t == Without(c, s)
<1>1. t \in Seq(X) /\ Distinct(t) /\ Elements(t) = Elements(s) \ {c}
  BY WithoutOf
<1> HIDE DEF t
<1>2. /\ <<c>> \o t \in Seq(X)
      /\ Elements(<<c>> \o t) = {c} \cup Elements(t) /\ Distinct(<<c>> \o t)
  BY <1>1, FrontOf
<1>3. ToFront(c, s) = <<c>> \o t
  BY DEF ToFront, t
<1> QED
  BY <1>1, <1>2, <1>3

-----------------------------------------------------------------------------
(* The setters. *)

\* A conversation that is put first, new or not, leaves the order complete.
LEMMA FirstOrdered ==
    ASSUME NEW s, Ordered(s), NEW D, NEW c, D = DOMAIN s.convs \cup {c}
    PROVE  /\ ToFront(c, s.order) \in Seq(D) /\ Distinct(ToFront(c, s.order))
           /\ Elements(ToFront(c, s.order)) = D
<1>1. s.order \in Seq(D)
  BY ElementsOf DEF Ordered
<1>2. c \in D /\ Elements(s.order) = DOMAIN s.convs /\ Distinct(s.order)
  BY DEF Ordered
<1> QED
  BY <1>1, <1>2, ToFrontOf

\* What a conversation can be added to.
Opens(s, n, M, owner, p) ==
    /\ n \in Nat /\ StoreOK(s, n, M) /\ <<>> \in M
    /\ owner \in Users /\ p \in (1..MaxProjects) \cup {None}

\* A new conversation.
LEMMA NewKeeps ==
    ASSUME NEW s, NEW n, NEW M, NEW owner, NEW p, Opens(s, n, M, owner, p),
           NEW t, t = NewConversation(s, n + 1, owner, p)
    PROVE  /\ StoreOK(t, n + 1, M) /\ t.active = n + 1
           /\ DOMAIN t.convs = DOMAIN s.convs \cup {n + 1} /\ n + 1 \notin DOMAIN s.convs
           /\ \A c \in DOMAIN s.convs : t.convs[c] = s.convs[c]
           /\ t.convs[n + 1] = Conversation(owner, p, <<>>)
<1>0. /\ n \in Nat /\ StoreOK(s, n, M) /\ <<>> \in M
      /\ owner \in Users /\ p \in (1..MaxProjects) \cup {None}
  BY DEF Opens
<1> DEFINE new == Conversation(owner, p, <<>>)
<1>1. new \in Threads(M)
  BY <1>0 DEF Conversation, Threads
<1> HIDE DEF new
<1>2. /\ t.convs = Put(s.convs, n + 1, new) /\ t.order = ToFront(n + 1, s.order)
      /\ t.active = n + 1 /\ t = [convs |-> t.convs, order |-> t.order, active |-> t.active]
  BY DEF NewConversation, new
<1>3. DOMAIN s.convs \subseteq 1..n /\ Ordered(s)
          /\ \A c \in DOMAIN s.convs : s.convs[c] \in Threads(M)
  BY <1>0 DEF StoreOK
<1>4. /\ DOMAIN t.convs = DOMAIN s.convs \cup {n + 1} /\ n + 1 \notin DOMAIN s.convs
      /\ DOMAIN t.convs \subseteq 1..(n + 1)
      /\ t.convs[n + 1] = new /\ \A c \in DOMAIN s.convs : t.convs[c] = s.convs[c]
  BY <1>0, <1>2, <1>3 DEF Put
<1>5. Ordered(t)
  <2>1. PICK D : D = DOMAIN t.convs
    OBVIOUS
  <2>2. D = DOMAIN s.convs \cup {n + 1}
    BY <1>4, <2>1
  <2>3. /\ ToFront(n + 1, s.order) \in Seq(D) /\ Distinct(ToFront(n + 1, s.order))
        /\ Elements(ToFront(n + 1, s.order)) = D
    BY <1>3, <2>2, FirstOrdered
  <2> QED
    BY <1>2, <2>1, <2>3 DEF Ordered
<1>6. StoreOK(t, n + 1, M)
  BY <1>0, <1>1, <1>2, <1>3, <1>4, <1>5 DEF StoreOK
<1> QED
  BY <1>2, <1>4, <1>6 DEF new

\* Another active conversation.
LEMMA SelectKeeps ==
    ASSUME NEW M, NEW n, NEW s, StoreOK(s, n, M), NEW c \in {None} \cup DOMAIN s.convs,
           NEW t, t = SelectConversation(s, c)
    PROVE  StoreOK(t, n, M) /\ t.convs = s.convs /\ t.order = s.order /\ t.active = c
<1>1. /\ t.convs = s.convs /\ t.order = s.order /\ t.active = c
      /\ t = [convs |-> t.convs, order |-> t.order, active |-> t.active]
  BY DEF SelectConversation, StoreOK
<1> QED
  BY <1>1 DEF StoreOK, Ordered

\* Whatever the set of conversations that go.
Less(R, D, E) == R = D \ E

\* What is left of an order, for the conversations R.
Orders(rest, R) ==
    /\ rest \in Seq(R) /\ Distinct(rest) /\ Elements(rest) = R
    /\ rest # <<>> => rest[1] \in R

\* The order of what is left of the conversations.
LEMMA RestOrdered ==
    ASSUME NEW s, Ordered(s), NEW E, NEW R, Less(R, DOMAIN s.convs, E),
           NEW S, Less(S, Elements(s.order), E), NEW rest, rest = Filter(s.order, S)
    PROVE  Orders(rest, R)
<1>1. PICK q : q = s.order
  OBVIOUS
<1>2. PICK D : D = DOMAIN s.convs
  OBVIOUS
<1>3. q \in Seq(D) /\ Distinct(q) /\ Elements(q) = D
  BY <1>1, <1>2 DEF Ordered
<1>4. /\ Filter(q, S) \in Seq(D) /\ Elements(Filter(q, S)) = Elements(q) \cap S
      /\ Distinct(q) => Distinct(Filter(q, S))
  BY <1>3, FilterKeeps
<1>5. rest = Filter(q, S)
  BY <1>1
<1>6. rest \in Seq(D) /\ Distinct(rest) /\ Elements(rest) = R
  BY <1>1, <1>2, <1>3, <1>4, <1>5 DEF Less
<1>7. rest \in Seq(R)
  <2>1. Elements(rest) \subseteq R
    BY <1>6
  <2> QED
    BY <1>6, <2>1, Narrowed
<1>8. rest # <<>> => rest[1] \in R
  BY <1>7
<1> QED
  BY <1>6, <1>7, <1>8 DEF Orders

\* A conversation goes.
LEMMA DeleteKeeps ==
    ASSUME NEW M, NEW n, NEW s, StoreOK(s, n, M), NEW c, NEW t, t = DeleteConversation(s, c)
    PROVE  /\ StoreOK(t, n, M)
           /\ DOMAIN t.convs = DOMAIN s.convs \ {c}
           /\ \A d \in DOMAIN t.convs : t.convs[d] = s.convs[d]
<1> DEFINE rest == Without(c, s.order)
<1>1. /\ t.convs = [d \in DOMAIN s.convs \ {c} |-> s.convs[d]] /\ t.order = rest
      /\ t.active = IF s.active # c THEN s.active ELSE IF rest = <<>> THEN None ELSE rest[1]
      /\ t = [convs |-> t.convs, order |-> t.order, active |-> t.active]
  BY DEF DeleteConversation
<1>2. PICK R : R = DOMAIN s.convs \ {c}
  OBVIOUS
<1>3. Orders(rest, R)
  <2>1. PICK E : E = {c}
    OBVIOUS
  <2>2. PICK S : S = Elements(s.order) \ E
    OBVIOUS
  <2>3. /\ Ordered(s) /\ rest = Filter(s.order, S) 
          /\ Less(R, DOMAIN s.convs, E) /\ Less(S, Elements(s.order), E)
    BY <1>2, <2>1, <2>2 DEF Less, Without, StoreOK
  <2> HIDE DEF rest
  <2> QED
    BY <2>3, RestOrdered
<1> HIDE DEF rest
<1>4. /\ DOMAIN t.convs = R /\ t.active \in {None} \cup DOMAIN t.convs
      /\ \A d \in DOMAIN t.convs : t.convs[d] = s.convs[d]
  BY <1>1, <1>2, <1>3 DEF Orders, StoreOK
<1>5. Ordered(t)
  BY <1>1, <1>3, <1>4 DEF Ordered, Orders
<1> QED
  BY <1>1, <1>2, <1>4, <1>5 DEF StoreOK

\* Of one conversation that is there, something changes.
LEMMA OneChanges ==
    ASSUME NEW M, NEW n, NEW s, StoreOK(s, n, M), NEW c \in DOMAIN s.convs,
           NEW new \in Threads(M), NEW t,
           t = [convs |-> t.convs, order |-> t.order, active |-> t.active],
           t.convs = [s.convs EXCEPT ![c] = new],
           t.order = s.order \/ t.order = ToFront(c, s.order), t.active \in {None, s.active}
    PROVE  /\ StoreOK(t, n, M) /\ DOMAIN t.convs = DOMAIN s.convs /\ t.convs[c] = new
           /\ \A d \in DOMAIN s.convs : d # c => t.convs[d] = s.convs[d]
<1>1. /\ DOMAIN t.convs = DOMAIN s.convs /\ t.convs[c] = new
      /\ \A d \in DOMAIN s.convs : d # c => t.convs[d] = s.convs[d]
  OBVIOUS
<1>2. Ordered(s) /\ DOMAIN s.convs = DOMAIN s.convs \cup {c}
  BY DEF StoreOK
<1>3. Ordered(t)
  <2>1. /\ ToFront(c, s.order) \in Seq(DOMAIN s.convs) /\ Distinct(ToFront(c, s.order))
        /\ Elements(ToFront(c, s.order)) = DOMAIN s.convs
    BY <1>2, FirstOrdered
  <2> QED
    BY <1>1, <1>2, <2>1 DEF Ordered
<1> QED
  BY <1>1, <1>3 DEF StoreOK

\* A conversation gets a title.
LEMMA RenameKeeps ==
    ASSUME NEW M, NEW n, NEW s, StoreOK(s, n, M), NEW c \in DOMAIN s.convs,
           NEW title \in {"new", "named"}, NEW t, t = RenameConversation(s, c, title)
    PROVE  /\ StoreOK(t, n, M) /\ DOMAIN t.convs = DOMAIN s.convs /\ t.active = s.active
           /\ t.convs[c].messages = s.convs[c].messages /\ t.convs[c].owner = s.convs[c].owner
           /\ \A d \in DOMAIN s.convs : d # c => t.convs[d] = s.convs[d]
<1>1. PICK new : new = [s.convs[c] EXCEPT !.title = title]
  OBVIOUS
<1>2. new \in Threads(M) /\ new.messages = s.convs[c].messages /\ new.owner = s.convs[c].owner
  BY <1>1 DEF StoreOK, Threads
<1>3. /\ t.convs = [s.convs EXCEPT ![c] = new] /\ t.order = s.order /\ t.active = s.active
      /\ t = [convs |-> t.convs, order |-> t.order, active |-> t.active]
  BY <1>1 DEF RenameConversation, StoreOK
<1> QED
  BY <1>1, <1>2, <1>3, OneChanges

\* A conversation is pinned, or no longer.
LEMMA PinKeeps ==
    ASSUME NEW M, NEW n, NEW s, StoreOK(s, n, M), NEW c \in DOMAIN s.convs,
           NEW pinned \in BOOLEAN, NEW t, t = PinConversation(s, c, pinned)
    PROVE  StoreOK(t, n, M) /\ DOMAIN t.convs = DOMAIN s.convs
<1>1. PICK new : new = [s.convs[c] EXCEPT !.pinned = pinned]
  OBVIOUS
<1>2. new \in Threads(M)
  BY <1>1 DEF StoreOK, Threads
<1>3. /\ t.convs = [s.convs EXCEPT ![c] = new] /\ t.active = s.active
      /\ t.order = s.order \/ t.order = ToFront(c, s.order)
      /\ t = [convs |-> t.convs, order |-> t.order, active |-> t.active]
  BY <1>1 DEF PinConversation, StoreOK
<1> QED
  BY <1>1, <1>2, <1>3, OneChanges

\* A conversation is archived, or no longer.
LEMMA ArchiveKeeps ==
    ASSUME NEW M, NEW n, NEW s, StoreOK(s, n, M), NEW c \in DOMAIN s.convs,
           NEW hide \in BOOLEAN, NEW t, t = ArchiveConversation(s, c, hide)
    PROVE  StoreOK(t, n, M) /\ DOMAIN t.convs = DOMAIN s.convs
<1>1. PICK new : new = [s.convs[c] EXCEPT !.archived = hide]
  OBVIOUS
<1>2. new \in Threads(M)
  BY <1>1 DEF StoreOK, Threads
<1>3. /\ t.convs = [s.convs EXCEPT ![c] = new] /\ t.active \in {None, s.active}
      /\ t.order = s.order
      /\ t = [convs |-> t.convs, order |-> t.order, active |-> t.active]
  BY <1>1 DEF ArchiveConversation, StoreOK
<1> QED
  BY <1>1, <1>2, <1>3, OneChanges

\* A conversation is put into a project.
LEMMA SetProjectKeeps ==
    ASSUME NEW M, NEW n, NEW s, StoreOK(s, n, M), NEW c \in DOMAIN s.convs,
           NEW p \in (1..MaxProjects) \cup {None}, NEW t, t = SetConversationProject(s, c, p)
    PROVE  StoreOK(t, n, M) /\ DOMAIN t.convs = DOMAIN s.convs
<1>1. PICK new : new = [s.convs[c] EXCEPT !.project = p]
  OBVIOUS
<1>2. new \in Threads(M)
  BY <1>1 DEF StoreOK, Threads
<1>3. /\ t.convs = [s.convs EXCEPT ![c] = new] /\ t.active = s.active /\ t.order = s.order
      /\ t = [convs |-> t.convs, order |-> t.order, active |-> t.active]
  BY <1>1 DEF SetConversationProject, StoreOK
<1> QED
  BY <1>1, <1>2, <1>3, OneChanges

\* What a list of messages can be written to.
Takes(s, n, M, c, messages, owner) ==
    n \in Nat /\ StoreOK(s, n, M) /\ c \in 1..n /\ messages \in M /\ owner \in Users

\* The messages of a conversation are replaced, the conversation made again.
LEMMA SetMessagesKeeps ==
    ASSUME NEW s, NEW n, NEW M, NEW c, NEW messages, NEW owner,
           Takes(s, n, M, c, messages, owner),
           NEW t, t = SetMessages(s, c, messages, owner)
    PROVE  /\ StoreOK(t, n, M) /\ DOMAIN t.convs = DOMAIN s.convs \cup {c}
           /\ t.active = s.active
           /\ t.convs[c].messages = messages
           /\ Has(s, c) => t.convs[c].owner = s.convs[c].owner
           /\ ~Has(s, c) => t.convs[c].owner = owner
           /\ \A d \in DOMAIN s.convs : d # c => t.convs[d] = s.convs[d]
<1>0. n \in Nat /\ StoreOK(s, n, M) /\ c \in 1..n /\ messages \in M /\ owner \in Users
  BY DEF Takes
<1>1. CASE Has(s, c)
  <2>1. PICK new : new = [s.convs[c] EXCEPT !.messages = messages]
    OBVIOUS
  <2>2. new \in Threads(M) /\ new.messages = messages /\ new.owner = s.convs[c].owner
    BY <1>0, <1>1, <2>1 DEF StoreOK, Threads, Has
  <2>3. /\ t.convs = [s.convs EXCEPT ![c] = new] /\ t.active = s.active
        /\ t.order = ToFront(c, s.order)
        /\ t = [convs |-> t.convs, order |-> t.order, active |-> t.active]
    BY <1>0, <1>1, <2>1 DEF SetMessages, StoreOK
  <2>4. c \in DOMAIN s.convs
    BY <1>0, <1>1 DEF Has
  <2>5. /\ StoreOK(t, n, M) /\ DOMAIN t.convs = DOMAIN s.convs /\ t.convs[c] = new
        /\ \A d \in DOMAIN s.convs : d # c => t.convs[d] = s.convs[d]
    BY <1>0, <2>2, <2>3, <2>4, OneChanges
  <2> QED
    BY <1>0, <1>1, <2>2, <2>3, <2>4, <2>5
<1>2. CASE ~Has(s, c)
  <2>1. PICK new : new = Conversation(owner, None, messages)
    OBVIOUS
  <2>2. new \in Threads(M) /\ new.messages = messages /\ new.owner = owner
    BY <1>0, <2>1 DEF Conversation, Threads
  <2>3. /\ t.convs = Put(s.convs, c, new) /\ t.active = s.active
        /\ t.order = ToFront(c, s.order)
        /\ t = [convs |-> t.convs, order |-> t.order, active |-> t.active]
    BY <1>0, <1>2, <2>1 DEF SetMessages, StoreOK
  <2>4. /\ DOMAIN t.convs = DOMAIN s.convs \cup {c} /\ t.convs[c] = new
        /\ \A d \in DOMAIN s.convs : d # c => t.convs[d] = s.convs[d]
    BY <1>0, <2>3 DEF Put
  <2>5. Ordered(t)
    <3>1. Ordered(s)
      BY <1>0 DEF StoreOK
    <3>2. PICK D : D = DOMAIN t.convs
      OBVIOUS
    <3>3. D = DOMAIN s.convs \cup {c}
      BY <1>0, <2>4, <3>2
    <3>4. /\ ToFront(c, s.order) \in Seq(D) /\ Distinct(ToFront(c, s.order))
          /\ Elements(ToFront(c, s.order)) = D
      BY <1>0, <3>1, <3>3, FirstOrdered
    <3> QED
      BY <1>0, <2>3, <3>2, <3>4 DEF Ordered
  <2>6. StoreOK(t, n, M)
    BY <1>0, <2>2, <2>3, <2>4, <2>5 DEF StoreOK
  <2> QED
    BY <1>0, <1>2, <2>2, <2>3, <2>4, <2>6
<1> QED
  BY <1>1, <1>2

\* A conversation is named after its first question.
LEMMA TitleKeeps ==
    ASSUME NEW M, NEW n, NEW s, StoreOK(s, n, M), NEW c, NEW t,
           t = SetTitleFromFirstMessage(s, c)
    PROVE  /\ StoreOK(t, n, M) /\ DOMAIN t.convs = DOMAIN s.convs /\ t.active = s.active
           /\ \A d \in DOMAIN s.convs : /\ t.convs[d].messages = s.convs[d].messages
                                        /\ t.convs[d].owner = s.convs[d].owner
<1>1. CASE t = s
  BY <1>1
<1>2. CASE Has(s, c) /\ t = RenameConversation(s, c, "named")
  <2>1. c \in DOMAIN s.convs
    BY <1>2 DEF Has
  <2>2. PICK title \in {"new", "named"} : title = "named"
    OBVIOUS
  <2>3. t = RenameConversation(s, c, title)
    BY <1>2, <2>2
  <2> QED
    BY <2>1, <2>3, RenameKeeps
<1> QED
  BY <1>1, <1>2 DEF SetTitleFromFirstMessage

\* The two lengths that the sidebar's rows have.
LEMMA LengthIsCount ==
    ASSUME NEW X, NEW s \in Seq(X), Distinct(s)
    PROVE  IsFiniteSet(Elements(s)) /\ Len(s) = Cardinality(Elements(s))
<1>1. Len(s) \in Nat /\ DOMAIN s = 1..Len(s)
  OBVIOUS
<1>2. s \in Bijection(1..Len(s), Elements(s))
  <2>1. s \in [1..Len(s) -> Elements(s)]
    BY <1>1 DEF Elements
  <2>2. s \in Injection(1..Len(s), Elements(s))
    BY <2>1 DEF Distinct, Injection, IsInjective
  <2>3. s \in Surjection(1..Len(s), Elements(s))
    BY <1>1, <2>1 DEF Elements, Surjection
  <2> QED
    BY <2>2, <2>3 DEF Bijection
<1>3. IsFiniteSet(1..Len(s)) /\ Cardinality(1..Len(s)) = Len(s)
  <2>1. 1 \in Int /\ Len(s) \in Int
    BY <1>1
  <2>2. IsFiniteSet(1..Len(s)) /\ Cardinality(1..Len(s))
            = IF 1 > Len(s) THEN 0 ELSE Len(s) - 1 + 1
    BY <2>1, FS_Interval
  <2> QED
    BY <1>1, <2>2
<1>4. ExistsBijection(1..Len(s), Elements(s))
  BY <1>2 DEF ExistsBijection
<1> QED
  BY <1>3, <1>4, FS_Bijection

\* Nothing is persisted yet.
LEMMA EmptyIsOK == \A M : StoreOK(EmptyStore, 0, M)
<1>1. /\ DOMAIN EmptyStore.convs = {} /\ EmptyStore.order = <<>> /\ EmptyStore.active = None
      /\ EmptyStore = [convs |-> EmptyStore.convs, order |-> EmptyStore.order,
                       active |-> EmptyStore.active]
  BY DEF EmptyStore
<1>2. Ordered(EmptyStore)
  BY <1>1 DEF Ordered, Distinct, Elements
<1> QED
  BY <1>1, <1>2 DEF StoreOK

-----------------------------------------------------------------------------
(* The chat page. *)

\* The chat's own copies of the operations of the conversation store.
LEMMA ChatCopies ==
    /\ chat!Messages = Messages /\ chat!Turns = Turns /\ chat!ConvIds = ConvIds
    /\ chat!StreamRecords = StreamRecords /\ chat!EmptyStore = EmptyStore
    /\ \A s, c : chat!Has(s, c) <=> Has(s, c)
    /\ \A s, c, o, p : chat!NewConversation(s, c, o, p) = NewConversation(s, c, o, p)
    /\ \A s, c : chat!SelectConversation(s, c) = SelectConversation(s, c)
    /\ \A s, c : chat!DeleteConversation(s, c) = DeleteConversation(s, c)
    /\ \A s, c, m, o : chat!SetMessages(s, c, m, o) = SetMessages(s, c, m, o)
    /\ \A s, c : chat!SetTitleFromFirstMessage(s, c) = SetTitleFromFirstMessage(s, c)
<1> USE DEF chat!Put, Put, chat!Filter, Filter, chat!Elements, Elements, chat!Has, Has,
            chat!Without, Without, chat!ToFront, ToFront, chat!Conversation, Conversation
<1>1. /\ chat!Messages = Messages /\ chat!Turns = Turns /\ chat!ConvIds = ConvIds
      /\ chat!StreamRecords = StreamRecords /\ chat!EmptyStore = EmptyStore
  BY DEF chat!Messages, Messages, chat!Turns, Turns, chat!ConvIds, ConvIds, chat!StreamRecords,
     StreamRecords, chat!EmptyStore, EmptyStore
<1>2. \A s, c : chat!Has(s, c) <=> Has(s, c)
  OBVIOUS
<1>3. \A s, c, o, p : chat!NewConversation(s, c, o, p) = NewConversation(s, c, o, p)
  BY DEF chat!NewConversation, NewConversation
<1>4. \A s, c : chat!SelectConversation(s, c) = SelectConversation(s, c)
  BY DEF chat!SelectConversation, SelectConversation
<1>5. \A s, c : chat!DeleteConversation(s, c) = DeleteConversation(s, c)
  BY DEF chat!DeleteConversation, DeleteConversation
<1>6. \A s, c, m, o : chat!SetMessages(s, c, m, o) = SetMessages(s, c, m, o)
  BY DEF chat!SetMessages, SetMessages
<1>7. \A s, c : chat!SetTitleFromFirstMessage(s, c) = SetTitleFromFirstMessage(s, c)
  BY DEF chat!SetTitleFromFirstMessage, SetTitleFromFirstMessage, chat!RenameConversation,
     RenameConversation
<1> QED
  BY <1>1, <1>2, <1>3, <1>4, <1>5, <1>6, <1>7

Answers == [Turns -> [outcome : chat!Outcomes, chunks : 0..MaxChunks]]
PageOK ==
    /\ session \in Users \cup {None} /\ made \in 0..MaxConvs /\ asked \in 0..MaxTurns
    /\ answer \in Answers
    /\ StoreOK(store, made, Seq(Messages))

\* An answer shows at most what arrived, and all of it when it has ended.
Fits(m, a) ==
    m.role = "assistant" =>
      /\ m.text <= a[m.turn].chunks
      /\ a[m.turn].outcome \in {"done", "failed"} => m.text = a[m.turn].chunks

\* Message m of conversation c: only a stream that writes there writes its turn.
StoredOK(c, m) ==
    /\ m.turn \in 1..asked /\ m.by = store.convs[c].owner
    /\ Fits(m, answer)
    /\ m.live => \/ stream # None /\ stream.turn = m.turn /\ stream.conv = c
                 \/ answer[m.turn].outcome = "lost"
    /\ stream # None /\ stream.turn = m.turn => stream.conv = c
AllStored ==
    \A c \in DOMAIN store.convs : \A i \in DOMAIN store.convs[c].messages :
       StoredOK(c, store.convs[c].messages[i])

\* Message m of the copy that the stream works on.
WorkOK(m) ==
    /\ m.turn \in 1..asked /\ m.by = stream.owner
    /\ chat!IsAnswer(m) => m.text + stream.buffer = answer[stream.turn].chunks
    /\ ~chat!IsAnswer(m) => Fits(m, answer)
    /\ ~chat!IsAnswer(m) /\ m.live => answer[m.turn].outcome = "lost"
StreamOK ==
    stream # None =>
      /\ stream \in StreamRecords /\ stream.conv \in 1..made /\ stream.turn \in 1..asked
      /\ answer[stream.turn].outcome = "open"
      /\ \E i \in DOMAIN stream.work : chat!IsAnswer(stream.work[i])
      /\ \A i \in DOMAIN stream.work : WorkOK(stream.work[i])
      /\ Has(store, stream.conv) => store.convs[stream.conv].owner = stream.owner

ChatInv == PageOK /\ AllStored /\ StreamOK

\* The invariant has the types of the model.
LEMMA ChatIsTyped == ChatInv => chat!TypeOK
<1> SUFFICES ASSUME ChatInv PROVE chat!TypeOK
  OBVIOUS
<1>1. \A c \in DOMAIN store.convs : /\ store.convs[c].owner \in Users
                                   /\ store.convs[c].messages \in Seq(Messages)
  BY DEF ChatInv, PageOK, StoreOK, Threads
<1>2. store.active \in {None} \cup 1..made /\ DOMAIN store.convs \subseteq 1..made
  BY DEF ChatInv, PageOK, StoreOK
<1>3. stream = None \/ stream \in StreamRecords
  BY DEF ChatInv, StreamOK
<1> QED
  BY <1>1, <1>2, <1>3, ChatCopies DEF ChatInv, PageOK, Answers, chat!TypeOK

\* In the invariant, messages are their conversation's owner's.
LEMMA ChatKeepsOwners == ChatInv => chat!OwnTurnsOnly
BY DEF ChatInv, AllStored, StoredOK, chat!OwnTurnsOnly

\* In the invariant, answers show what arrived.
LEMMA ChatShowsAll == ChatInv => chat!ShowsWhatArrived /\ chat!StreamingHasStream
<1>1. ChatInv => chat!ShowsWhatArrived
  BY DEF ChatInv, AllStored, StoredOK, Fits, chat!ShowsWhatArrived
<1>2. ChatInv => chat!StreamingHasStream
  BY DEF ChatInv, AllStored, StoredOK, chat!StreamingHasStream
<1> QED
  BY <1>1, <1>2

\* The page before anybody signed in.
LEMMA ChatInit == chat!Init => ChatInv
<1> SUFFICES ASSUME chat!Init PROVE ChatInv
  OBVIOUS
<1>1. DOMAIN store.convs = {}
  BY ChatCopies DEF chat!Init, EmptyStore
<1>2. StoreOK(store, made, Seq(Messages))
  BY EmptyIsOK, ChatCopies DEF chat!Init
<1>3. answer \in Answers
  BY ChatAssumption, ChatCopies DEF chat!Init, Answers, chat!Untold, chat!Outcomes
<1>4. PageOK
  BY <1>2, <1>3, ChatAssumption DEF chat!Init, PageOK
<1>5. AllStored
  BY <1>1 DEF AllStored
<1>6. StreamOK
  BY DEF chat!Init, StreamOK
<1> QED
  BY <1>4, <1>5, <1>6 DEF ChatInv

-----------------------------------------------------------------------------
\* Conversations come and go, and none is written to.
LEMMA Rearranged ==
    ASSUME ChatInv, session' \in Users \cup {None}, UNCHANGED <<asked, stream, answer>>,
           made' \in {made, made + 1}, made' <= MaxConvs,
           StoreOK(store', made', Seq(Messages)),
           \A c \in DOMAIN store'.convs :
              \/ c \in DOMAIN store.convs /\ store'.convs[c] = store.convs[c]
              \/ c = made + 1 /\ store'.convs[c].messages = <<>>
    PROVE  ChatInv'
<1>1. PageOK'
  BY DEF ChatInv, PageOK
<1>2. AllStored'
  <2> SUFFICES ASSUME NEW c \in DOMAIN store'.convs, NEW i \in DOMAIN store'.convs[c].messages
               PROVE  StoredOK(c, store.convs[c].messages[i])'
    BY DEF AllStored
  <2>1. c \in DOMAIN store.convs /\ store'.convs[c] = store.convs[c]
    OBVIOUS
  <2>2. PICK m : m = store.convs[c].messages[i]
    OBVIOUS
  <2>3. StoredOK(c, m) /\ m = store'.convs[c].messages[i]
    BY <2>1, <2>2 DEF ChatInv, AllStored
  <2> QED
    BY <2>1, <2>3 DEF StoredOK
<1>3. StreamOK'
  <2> SUFFICES ASSUME stream' # None PROVE StreamOK'
    BY DEF StreamOK
  <2>1. stream # None /\ stream' = stream
    OBVIOUS
  <2>2. StreamOK /\ made \in Nat /\ asked \in Nat
    BY DEF ChatInv, PageOK
  <2>3. stream.conv \in 1..made /\ stream.conv # made + 1 /\ stream.conv \in 1..made'
    BY <2>1, <2>2 DEF StreamOK
  <2>4. Has(store, stream.conv)' => store'.convs[stream.conv].owner = stream.owner
    BY <2>1, <2>2, <2>3 DEF StreamOK, Has
  <2>5. \A m : chat!IsAnswer(m)' <=> chat!IsAnswer(m)
    BY DEF chat!IsAnswer
  <2>6. \A m : WorkOK(m)' <=> WorkOK(m)
    BY <2>5 DEF WorkOK
  <2>7. /\ \E i \in DOMAIN stream.work : chat!IsAnswer(stream.work[i])'
        /\ \A i \in DOMAIN stream.work : WorkOK(stream.work[i])'
    BY <2>1, <2>2, <2>5, <2>6 DEF StreamOK
  <2> QED
    BY <2>1, <2>2, <2>3, <2>4, <2>7 DEF StreamOK
<1> QED
  BY <1>1, <1>2, <1>3 DEF ChatInv

\* Signing in and out, and the list of conversations.
LEMMA ConversationsKeep ==
    ChatInv /\ ((\E u \in Users : chat!SignIn(u)) \/ chat!SignOut \/ chat!NewChat
        \/ (\E c \in ConvIds : chat!Pick(c)))
      => ChatInv'
<1> USE DEF ChatInv
<1>0. ASSUME ChatInv
          PROVE StoreOK(store, made, Seq(Messages)) /\ made \in Nat /\ made <= MaxConvs
  BY <1>0, ChatAssumption DEF PageOK
<1>1. ASSUME ChatInv, NEW u \in Users, chat!SignIn(u) PROVE ChatInv'
  <2>1. store' = store /\ made' = made
    BY <1>1 DEF chat!SignIn
  <2>2. StoreOK(store', made', Seq(Messages))
    BY <1>0, <1>1, <2>1
  <2> QED
    BY <1>0, <1>1, <2>1, <2>2, Rearranged DEF chat!SignIn
<1>2. ASSUME ChatInv, chat!SignOut PROVE ChatInv'
  <2>1. /\ StoreOK(store', made, Seq(Messages)) /\ store'.convs = store.convs
        /\ made' = made
    BY <1>0, <1>2, SelectKeeps, ChatCopies DEF chat!SignOut
  <2> QED
    BY <1>0, <1>2, <2>1, Rearranged DEF chat!SignOut
<1>3. ASSUME ChatInv, chat!NewChat PROVE ChatInv'
  <2>0. session \in Users
    BY <1>3 DEF chat!NewChat, PageOK
  <2>1. PICK p \in (1..MaxProjects) \cup {None} : p = None
    OBVIOUS
  <2>2. PICK M : M = Seq(Messages)
    OBVIOUS
  <2>3. /\ Opens(store, made, M, session, p)
        /\ store' = NewConversation(store, made + 1, session, p)
    BY <1>0, <1>3, <2>0, <2>1, <2>2, ChatCopies DEF chat!NewChat, Opens
  <2>7. /\ StoreOK(store', made + 1, M)
        /\ DOMAIN store'.convs = DOMAIN store.convs \cup {made + 1}
        /\ \A c \in DOMAIN store.convs : store'.convs[c] = store.convs[c]
        /\ store'.convs[made + 1] = Conversation(session, p, <<>>)
    BY <2>3, NewKeeps
  <2>4. store'.convs[made + 1].messages = <<>>
    BY <2>7 DEF Conversation
  <2>5. made' = made + 1 /\ made + 1 <= MaxConvs
    BY <1>0, <1>3, ChatAssumption DEF chat!NewChat
  <2>6. \A c \in DOMAIN store'.convs :
              \/ c \in DOMAIN store.convs /\ store'.convs[c] = store.convs[c]
              \/ c = made + 1 /\ store'.convs[c].messages = <<>>
    BY <2>4, <2>7
  <2> QED
    BY <1>3, <2>0, <2>2, <2>7, <2>5, <2>6, Rearranged DEF chat!NewChat
<1>4. ASSUME ChatInv, NEW c \in ConvIds, chat!Pick(c) PROVE ChatInv'
  <2>1. c \in DOMAIN store.convs
    BY <1>4, ChatCopies DEF chat!Pick, chat!Mine, Has
  <2>2. /\ StoreOK(store', made, Seq(Messages))
        /\ DOMAIN store'.convs \subseteq DOMAIN store.convs
        /\ \A d \in DOMAIN store'.convs : store'.convs[d] = store.convs[d]
    <3>1. CASE store' = SelectConversation(store, c)
      BY <1>0, <1>4, <2>1, <3>1, SelectKeeps
    <3>2. CASE store' = DeleteConversation(store, c)
      BY <1>0, <1>4, <3>2, DeleteKeeps
    <3> QED
      BY <1>4, <3>1, <3>2, ChatCopies DEF chat!Pick
  <2>3. session' \in Users \cup {None} /\ made' = made
    BY <1>4 DEF chat!Pick, PageOK
  <2> QED
    BY <1>0, <1>4, <2>2, <2>3, Rearranged DEF chat!Pick
<1> QED
  BY <1>1, <1>2, <1>3, <1>4

-----------------------------------------------------------------------------
(* Sending. *)

Followed(b, q, r) == b \o <<q, r>>
Exchanged(t, b, q, r) ==
    /\ t \in Seq(Messages)
    /\ \A i \in DOMAIN t : t[i] = q \/ t[i] = r \/ (i \in DOMAIN b /\ t[i] = b[i])
    /\ \E i \in DOMAIN t : t[i] = r

\* A question and its answer are appended to a list of messages.
LEMMA ExchangeAdded ==
    ASSUME NEW b \in Seq(Messages), NEW q \in Messages, NEW r \in Messages,
           NEW t, t = Followed(b, q, r)
    PROVE  Exchanged(t, b, q, r)
<1> USE DEF Followed
<1>1. t \in Seq(Messages) /\ Len(t) = Len(b) + 2 /\ Len(b) \in Nat
  OBVIOUS
<1>2. \A i \in DOMAIN t : t[i] = q \/ t[i] = r \/ (i \in DOMAIN b /\ t[i] = b[i])
  <2> SUFFICES ASSUME NEW i \in DOMAIN t
               PROVE  t[i] = q \/ t[i] = r \/ (i \in DOMAIN b /\ t[i] = b[i])
    OBVIOUS
  <2>1. i \in 1..Len(b) \/ i = Len(b) + 1 \/ i = Len(b) + 2
    BY <1>1
  <2> QED
    BY <1>1, <2>1
<1>3. t[Len(b) + 2] = r /\ Len(b) + 2 \in DOMAIN t
  BY <1>1
<1> QED
  BY <1>1, <1>2, <1>3 DEF Exchanged

\* What send begins with: the messages of one's own conversation, none of which
\* another answer is written to.
LEMMA BaseIs ==
    ASSUME ChatInv, chat!CanSend
    PROVE  /\ chat!Base \in Seq(Messages)
           /\ \A i \in DOMAIN chat!Base :
                 /\ chat!Base[i].turn \in 1..asked /\ chat!Base[i].by = session
                      /\ Fits(chat!Base[i], answer)
                 /\ chat!Base[i].live => answer[chat!Base[i].turn].outcome = "lost"
<1>1. CASE chat!Mine(store.active)
  <2>1. PICK c : c = store.active
    OBVIOUS
  <2>2. /\ c \in DOMAIN store.convs /\ store.convs[c].owner = session
        /\ chat!Base = store.convs[c].messages /\ stream = None
    BY <1>1, <2>1, ChatCopies DEF chat!Mine, Has, chat!Base, chat!CanSend
  <2>3. store.convs[c].messages \in Seq(Messages)
    BY <2>2 DEF ChatInv, PageOK, StoreOK, Threads
  <2>4. \A i \in DOMAIN chat!Base : StoredOK(c, chat!Base[i])
    BY <2>2 DEF ChatInv, AllStored
  <2> QED
    BY <2>2, <2>3, <2>4 DEF StoredOK
<1>2. CASE ~chat!Mine(store.active)
  BY <1>2 DEF chat!Base
<1> QED
  BY <1>1, <1>2

NextMade == IF chat!Target > made THEN chat!Target ELSE made

\* An answer that is asked for is open, and nothing of it has arrived.
LEMMA OpenedIs ==
    ASSUME ChatInv, chat!CanSend, NEW n, n = NextMade
    PROVE  /\ StoreOK(chat!Opened, n, Seq(Messages)) /\ n \in 0..MaxConvs /\ n >= made
                /\ chat!Target \in 1..n
           /\ DOMAIN chat!Opened.convs = DOMAIN store.convs \cup {chat!Target}
           /\ chat!Opened.convs[chat!Target].owner = session
           /\ \A c \in DOMAIN store.convs : chat!Opened.convs[c] = store.convs[c]
<1>0. StoreOK(store, made, Seq(Messages)) /\ made \in Nat /\ made <= MaxConvs
  BY ChatAssumption DEF ChatInv, PageOK
<1>1. CASE chat!Mine(store.active)
  <2>1. /\ chat!Target \in DOMAIN store.convs /\ store.convs[chat!Target].owner = session
        /\ chat!Opened = store
    BY <1>1, ChatCopies DEF chat!Mine, Has, chat!Target, chat!Opened
  <2>2. chat!Target \in 1..made
    BY <1>0, <2>1 DEF StoreOK
  <2>3. n = made
    BY <1>0, <2>2 DEF NextMade
  <2> QED
    BY <1>0, <2>1, <2>2, <2>3, ChatAssumption
<1>2. CASE ~chat!Mine(store.active)
  <2>1. chat!Target = made + 1 /\ chat!Opened = NewConversation(store, made + 1, session, None)
    BY <1>2, ChatCopies DEF chat!Target, chat!Opened
  <2>2. n = made + 1 /\ n \in 0..MaxConvs /\ chat!Target \in 1..n
    BY <1>0, <2>1, ChatAssumption DEF chat!CanSend, NextMade
  <2>3. session \in Users
    BY DEF chat!CanSend, ChatInv, PageOK
  <2>4. PICK p \in (1..MaxProjects) \cup {None} : p = None
    OBVIOUS
  <2>5. PICK M : M = Seq(Messages)
    OBVIOUS
  <2>6. PICK o : o = chat!Opened
    OBVIOUS
  <2>7. Opens(store, made, M, session, p) /\ o = NewConversation(store, made + 1, session, p)
    BY <1>0, <2>1, <2>3, <2>4, <2>5, <2>6 DEF Opens
  <2>8. /\ StoreOK(o, made + 1, M)
        /\ DOMAIN o.convs = DOMAIN store.convs \cup {made + 1}
        /\ \A c \in DOMAIN store.convs : o.convs[c] = store.convs[c]
        /\ o.convs[made + 1] = Conversation(session, p, <<>>)
    BY <2>7, NewKeeps
  <2>9. o.convs[made + 1].owner = session
    BY <2>8 DEF Conversation
  <2> QED
    BY <1>0, <2>1, <2>2, <2>5, <2>6, <2>8, <2>9
<1> QED
  BY <1>1, <1>2

\* What is in the copy of a stream is written to its conversation.
LEMMA Delivered ==
    ASSUME ChatInv, chat!CanSend, NEW messages \in Seq(Messages),
           NEW n, n = NextMade,
           NEW t, t = chat!Titled(SetMessages(chat!Opened, chat!Target, messages, session),
               chat!Target)
    PROVE  /\ StoreOK(t, n, Seq(Messages)) /\ n \in 0..MaxConvs /\ n >= made
                /\ chat!Target \in 1..n
           /\ chat!Target \in DOMAIN t.convs
           /\ t.convs[chat!Target].owner = session /\ t.convs[chat!Target].messages = messages
           /\ \A c \in DOMAIN t.convs : c # chat!Target =>
                 /\ c \in DOMAIN store.convs
                 /\ t.convs[c].owner = store.convs[c].owner
                 /\ t.convs[c].messages = store.convs[c].messages
<1>1. /\ StoreOK(chat!Opened, n, Seq(Messages)) /\ n \in 0..MaxConvs /\ n >= made
           /\ chat!Target \in 1..n
      /\ DOMAIN chat!Opened.convs = DOMAIN store.convs \cup {chat!Target}
      /\ chat!Opened.convs[chat!Target].owner = session
      /\ \A c \in DOMAIN store.convs : chat!Opened.convs[c] = store.convs[c]
  BY OpenedIs
<1>2. PICK M : M = Seq(Messages)
  OBVIOUS
<1>3. PICK o : o = chat!Opened
  OBVIOUS
<1>4. PICK c : c = chat!Target
  OBVIOUS
<1>5. PICK u : u = SetMessages(o, c, messages, session)
  OBVIOUS
<1>6. /\ StoreOK(o, n, M) /\ n \in Nat /\ c \in 1..n /\ c \in DOMAIN o.convs
      /\ messages \in M /\ session \in Users /\ o.convs[c].owner = session
  BY <1>1, <1>2, <1>3, <1>4 DEF chat!CanSend, ChatInv, PageOK
<1>7. /\ StoreOK(u, n, M) /\ DOMAIN u.convs = DOMAIN o.convs \cup {c}
      /\ u.convs[c].messages = messages
      /\ Has(o, c) => u.convs[c].owner = o.convs[c].owner
      /\ \A d \in DOMAIN o.convs : d # c => u.convs[d] = o.convs[d]
  <2>1. Takes(o, n, M, c, messages, session)
    BY <1>6 DEF Takes
  <2> QED
    BY <1>5, <2>1, SetMessagesKeeps
<1>8. t = u \/ t = SetTitleFromFirstMessage(u, c)
  BY <1>3, <1>4, <1>5, ChatCopies DEF chat!Titled
<1>9. /\ StoreOK(t, n, M) /\ DOMAIN t.convs = DOMAIN u.convs
      /\ \A d \in DOMAIN u.convs : /\ t.convs[d].messages = u.convs[d].messages
                                   /\ t.convs[d].owner = u.convs[d].owner
  <2>1. CASE t = u
    BY <1>7, <2>1
  <2>2. CASE t = SetTitleFromFirstMessage(u, c)
    BY <1>7, <2>2, TitleKeeps
  <2> QED
    BY <1>8, <2>1, <2>2
<1> QED
  BY <1>1, <1>2, <1>3, <1>4, <1>6, <1>7, <1>9 DEF Has

IsSent(messages, q, r) ==
    /\ PageOK' /\ AllStored' /\ messages \in Seq(Messages)
    /\ chat!Target \in 1..made' /\ store'.convs[chat!Target].owner = session
    /\ \E i \in DOMAIN messages : messages[i] = r
    /\ \A i \in DOMAIN messages :
          \/ messages[i] = q \/ messages[i] = r
          \/ /\ messages[i].turn \in 1..asked /\ messages[i].by = session
             /\ Fits(messages[i], answer')
             /\ messages[i].live => answer'[messages[i].turn].outcome = "lost"

\* The turn that begins with an exchange is a new one: what is said of the others
\* stays.
LEMMA ExchangeStored ==
    ASSUME ChatInv, chat!CanSend, NEW q \in Messages, NEW r \in Messages,
           q.turn = asked + 1, q.by = session, q.role = "user", ~q.live,
           r.turn = asked + 1, r.by = session, r.role = "assistant", Fits(r, answer'),
           r.live => stream' # None,
           stream' # None => stream'.turn = asked + 1 /\ stream'.conv = chat!Target,
           NEW messages, messages = Followed(chat!Base, q, r),
           store' = chat!Titled(SetMessages(chat!Opened, chat!Target, messages, session),
               chat!Target),
           made' = NextMade, session' = session, asked' = asked + 1,
           answer' \in Answers, \A t \in 1..asked : answer'[t] = answer[t]
    PROVE  IsSent(messages, q, r)
<1>1. /\ chat!Base \in Seq(Messages)
      /\ \A i \in DOMAIN chat!Base :
            /\ chat!Base[i].turn \in 1..asked /\ chat!Base[i].by = session
                 /\ Fits(chat!Base[i], answer)
            /\ chat!Base[i].live => answer[chat!Base[i].turn].outcome = "lost"
  BY BaseIs
<1>2. PICK b : b = chat!Base
  OBVIOUS
<1>3. /\ messages \in Seq(Messages)
      /\ \A i \in DOMAIN messages : \/ messages[i] = q \/ messages[i] = r
                                     \/ (i \in DOMAIN b /\ messages[i] = b[i])
      /\ \E i \in DOMAIN messages : messages[i] = r
  <2>1. b \in Seq(Messages) /\ messages = Followed(b, q, r)
    BY <1>1, <1>2
  <2>2. Exchanged(messages, b, q, r)
    BY <2>1, ExchangeAdded
  <2> QED
    BY <2>2 DEF Exchanged
<1>4. \A m : m.turn \in 1..asked /\ Fits(m, answer) => Fits(m, answer')
  BY DEF Fits
<1>5. \A i \in DOMAIN messages :
         \/ messages[i] = q \/ messages[i] = r
         \/ /\ messages[i].turn \in 1..asked /\ messages[i].by = session
            /\ Fits(messages[i], answer')
            /\ messages[i].live => answer'[messages[i].turn].outcome = "lost"
  <2> SUFFICES ASSUME NEW i \in DOMAIN b, messages[i] = b[i]
               PROVE  /\ messages[i].turn \in 1..asked /\ messages[i].by = session
                      /\ Fits(messages[i], answer')
                      /\ messages[i].live => answer'[messages[i].turn].outcome = "lost"
    BY <1>3
  <2>1. /\ b[i].turn \in 1..asked /\ b[i].by = session /\ Fits(b[i], answer)
        /\ b[i].live => answer[b[i].turn].outcome = "lost"
    BY <1>1, <1>2
  <2> QED
    BY <1>4, <2>1
<1>6. PICK n : n = NextMade
  OBVIOUS
<1>7. PICK t : t = store'
  OBVIOUS
<1>8. /\ StoreOK(t, n, Seq(Messages)) /\ n \in 0..MaxConvs /\ n >= made /\ chat!Target \in 1..n
      /\ chat!Target \in DOMAIN t.convs
      /\ t.convs[chat!Target].owner = session /\ t.convs[chat!Target].messages = messages
      /\ \A c \in DOMAIN t.convs : c # chat!Target =>
            /\ c \in DOMAIN store.convs
            /\ t.convs[c].owner = store.convs[c].owner
            /\ t.convs[c].messages = store.convs[c].messages
  BY <1>3, <1>6, <1>7, Delivered
<1>9. PageOK'
  <2>1. made' = n /\ asked' \in 0..MaxTurns
    BY <1>6, ChatAssumption DEF chat!CanSend, ChatInv, PageOK, NextMade
  <2> QED
    BY <1>7, <1>8, <2>1 DEF ChatInv, PageOK
<1>10. AllStored'
  <2> SUFFICES ASSUME NEW c \in DOMAIN store'.convs, NEW i \in DOMAIN store'.convs[c].messages
               PROVE  StoredOK(c, store.convs[c].messages[i])'
    BY DEF AllStored
  <2>0. asked \in Nat /\ asked' = asked + 1 /\ stream = None
    BY DEF ChatInv, PageOK, chat!CanSend
  <2>1. CASE c = chat!Target
    <3>1. PICK m : m = messages[i]
      OBVIOUS
    <3>2. m = store'.convs[c].messages[i] /\ i \in DOMAIN messages
              /\ store'.convs[c].owner = session
      BY <1>7, <1>8, <2>1, <3>1
    <3>3. \/ m = q \/ m = r
          \/ /\ m.turn \in 1..asked /\ m.by = session /\ Fits(m, answer')
             /\ m.live => answer'[m.turn].outcome = "lost"
      BY <1>5, <3>1, <3>2
    <3>4. m.turn \in 1..asked' /\ m.by = session
      BY <2>0, <3>3
    <3>5. Fits(m, answer')
      BY <3>3 DEF Fits
    <3>6. m.live => \/ stream' # None /\ stream'.turn = m.turn /\ stream'.conv = c
                    \/ answer'[m.turn].outcome = "lost"
      BY <2>1, <3>3
    <3> QED
      BY <2>1, <3>2, <3>4, <3>5, <3>6 DEF StoredOK
  <2>2. CASE c # chat!Target
    <3>1. PICK m : m = store.convs[c].messages[i]
      OBVIOUS
    <3>2. /\ c \in DOMAIN store.convs /\ m = store'.convs[c].messages[i]
          /\ i \in DOMAIN store.convs[c].messages
          /\ store'.convs[c].owner = store.convs[c].owner
      BY <1>7, <1>8, <2>2, <3>1
    <3>3. StoredOK(c, m)
      BY <3>1, <3>2 DEF ChatInv, AllStored
    <3>4. /\ m.turn \in 1..asked /\ m.by = store.convs[c].owner /\ Fits(m, answer)
          /\ m.live => answer[m.turn].outcome = "lost"
      BY <2>0, <3>3 DEF StoredOK
    <3>5. /\ m.turn \in 1..asked' /\ m.turn # asked + 1 /\ m.by = store'.convs[c].owner
          /\ Fits(m, answer')
          /\ m.live => answer'[m.turn].outcome = "lost"
      <4>1. m.turn \in 1..asked' /\ m.turn # asked + 1
        BY <2>0, <3>4
      <4>2. Fits(m, answer') /\ answer'[m.turn] = answer[m.turn]
        BY <1>4, <3>4
      <4> QED
        BY <3>2, <3>4, <4>1, <4>2
    <3> QED
      BY <3>2, <3>5 DEF StoredOK
  <2> QED
    BY <2>1, <2>2
<1>11. chat!Target \in 1..made' /\ store'.convs[chat!Target].owner = session
  BY <1>6, <1>7, <1>8 DEF NextMade
<1> QED
  BY <1>3, <1>5, <1>9, <1>10, <1>11 DEF IsSent

\* The parts of an exchange.
LEMMA QuestionIs ==
    ASSUME ChatInv, chat!CanSend, NEW role \in {"user", "assistant"}, NEW live \in BOOLEAN,
        NEW m,
           m = chat!Message(asked + 1, role, session, live)
    PROVE  /\ m \in Messages /\ m.turn = asked + 1 /\ m.by = session
           /\ m.role = role /\ m.live = live /\ m.text = 0
<1>1. asked + 1 \in Turns /\ session \in Users /\ 0 \in 0..MaxChunks
  BY ChatAssumption DEF ChatInv, PageOK, chat!CanSend, Turns
<1> QED
  BY <1>1 DEF chat!Message, Messages

\* An answer that opens is one of the messages.
LEMMA AnswerOpens ==
    ASSUME ChatInv, chat!CanSend, NEW chunks \in 0..MaxChunks, NEW outcome \in chat!Outcomes,
           answer' = [answer EXCEPT ![asked + 1] = [outcome |-> outcome, chunks |-> chunks]]
    PROVE  /\ answer' \in Answers /\ \A t \in 1..asked : answer'[t] = answer[t]
           /\ answer'[asked + 1].outcome = outcome /\ answer'[asked + 1].chunks = chunks
<1>1. asked + 1 \in Turns /\ answer \in Answers /\ asked \in Nat
  BY ChatAssumption DEF ChatInv, PageOK, chat!CanSend, Turns
<1> QED
  BY <1>1 DEF Answers

\* A question is sent.
LEMMA SendKeeps == ChatInv /\ chat!Send => ChatInv'
<1> SUFFICES ASSUME ChatInv, chat!Send PROVE ChatInv'
  OBVIOUS
<1>0. chat!CanSend /\ asked \in Nat /\ session \in Users /\ None \notin StreamRecords
  BY StreamAssumption DEF chat!Send, chat!Ask, chat!CanSend, ChatInv, PageOK
<1>1. PICK live \in BOOLEAN : live = TRUE
  OBVIOUS
<1>2. PICK user \in {"user", "assistant"} : user = "user"
  OBVIOUS
<1>3. PICK assistant \in {"user", "assistant"} : assistant = "assistant"
  OBVIOUS
<1>4. PICK off \in BOOLEAN : off = FALSE
  OBVIOUS
<1>5. PICK q : q = chat!Message(asked + 1, user, session, off)
  OBVIOUS
<1>6. PICK r : r = chat!Message(asked + 1, assistant, session, live)
  OBVIOUS
<1>7. /\ q \in Messages /\ q.turn = asked + 1 /\ q.by = session
      /\ q.role = "user" /\ q.live = FALSE
  BY <1>0, <1>2, <1>4, <1>5, QuestionIs
<1>8. /\ r \in Messages /\ r.turn = asked + 1 /\ r.by = session
      /\ r.role = "assistant" /\ r.text = 0
  BY <1>0, <1>3, <1>6, QuestionIs
<1>9. PICK messages : messages = Followed(chat!Base, q, r)
  OBVIOUS
<1>10. chat!Base \o chat!Exchange(TRUE) = messages
  BY <1>1, <1>2, <1>3, <1>4, <1>5, <1>6, <1>9 DEF chat!Exchange, Followed
<1>11. /\ store'
            = chat!Titled(SetMessages(chat!Opened, chat!Target, messages, session), chat!Target)
       /\ made' = NextMade /\ asked' = asked + 1 /\ session' = session
       /\ stream' = [conv |-> chat!Target, owner |-> session, turn |-> asked + 1,
                     work |-> messages, buffer |-> 0, done |-> FALSE, open |-> TRUE]
       /\ answer' = [answer EXCEPT ![asked + 1] = [outcome |-> "open", chunks |-> 0]]
  BY <1>10, ChatCopies DEF chat!Send, chat!Ask, NextMade
<1>12. /\ answer' \in Answers /\ \A t \in 1..asked : answer'[t] = answer[t]
       /\ answer'[asked + 1].outcome = "open" /\ answer'[asked + 1].chunks = 0
  <2>1. PICK outcome \in chat!Outcomes : outcome = "open"
    BY DEF chat!Outcomes
  <2>2. PICK chunks \in 0..MaxChunks : chunks = 0
    BY ChatAssumption
  <2> QED
    BY <1>0, <1>11, <2>1, <2>2, AnswerOpens
<1>13. /\ stream'.turn = asked + 1 /\ stream'.conv = chat!Target /\ stream'.work = messages
       /\ stream'.buffer = 0 /\ stream'.owner = session
  BY <1>11
<1>14. Fits(r, answer')
  BY <1>8, <1>12 DEF Fits
<1>15. chat!Base \in Seq(Messages)
  BY <1>0, BaseIs
<1>16. Exchanged(messages, chat!Base, q, r)
  BY <1>7, <1>8, <1>9, <1>15, ExchangeAdded
<1>17. chat!Target \in ConvIds
  <2>1. PICK n : n = NextMade
    OBVIOUS
  <2>2. n \in 0..MaxConvs /\ chat!Target \in 1..n
    BY <1>0, <2>1, OpenedIs
  <2> QED
    BY <2>2, ChatAssumption DEF ConvIds
<1>18. stream' \in StreamRecords
  <2>1. asked + 1 \in Turns /\ 0 \in 0..MaxChunks
    BY <1>0, ChatAssumption DEF chat!CanSend, ChatInv, PageOK, Turns
  <2> QED
    BY <1>0, <1>11, <1>16, <1>17, <2>1 DEF Exchanged, StreamRecords
<1>19. stream' # None
  BY <1>0, <1>18
<1>20. IsSent(messages, q, r)
  BY <1>0, <1>7, <1>8, <1>9, <1>11, <1>12, <1>13, <1>14, <1>19, ExchangeStored
<1>21. StreamOK'
  <2>1. \A m : chat!IsAnswer(m)' <=> m.turn = asked + 1 /\ m.role = "assistant"
    BY <1>13 DEF chat!IsAnswer
  <2>2. \E i \in DOMAIN messages : chat!IsAnswer(messages[i])'
    BY <1>8, <1>20, <2>1 DEF IsSent
  <2>3. ASSUME NEW i \in DOMAIN messages PROVE WorkOK(messages[i])'
    <3>1. PICK m : m = messages[i]
      OBVIOUS
    <3>2. \/ m = q \/ m = r
          \/ /\ m.turn \in 1..asked /\ m.by = session /\ Fits(m, answer')
             /\ m.live => answer'[m.turn].outcome = "lost"
      BY <1>20, <3>1 DEF IsSent
    <3>3. asked' = asked + 1 /\ m.turn \in 1..(asked + 1) /\ m.by = stream'.owner
      BY <1>0, <1>7, <1>8, <1>11, <1>13, <3>2
    <3>4. chat!IsAnswer(m)' => m.text + stream'.buffer = answer'[stream'.turn].chunks
      <4>1. chat!IsAnswer(m)' => m = r
        BY <1>0, <1>7, <2>1, <3>2
      <4> QED
        BY <1>8, <1>12, <1>13, <4>1
    <3>5. ~chat!IsAnswer(m)' => Fits(m, answer')
      BY <1>7, <1>8, <2>1, <3>2 DEF Fits
    <3>6. ~chat!IsAnswer(m)' /\ m.live => answer'[m.turn].outcome = "lost"
      BY <1>7, <1>8, <2>1, <3>2
    <3> QED
      BY <3>1, <3>3, <3>4, <3>5, <3>6 DEF WorkOK
  <2>4. /\ stream'.turn \in 1..asked' /\ answer'[stream'.turn].outcome = "open"
        /\ stream'.conv \in 1..made' /\ store'.convs[stream'.conv].owner = stream'.owner
    BY <1>0, <1>11, <1>12, <1>13, <1>20 DEF IsSent
  <2> QED
    BY <1>13, <1>18, <2>2, <2>3, <2>4 DEF StreamOK
<1> QED
  BY <1>20, <1>21 DEF ChatInv, IsSent

\* An answer is made for an export.
LEMMA ExportKeeps == ChatInv /\ chat!ExportAnswer => ChatInv'
<1> SUFFICES ASSUME ChatInv, chat!ExportAnswer PROVE ChatInv'
  OBVIOUS
<1>0. chat!CanSend /\ asked \in Nat /\ session \in Users /\ stream = None /\ stream' = None
  BY DEF chat!ExportAnswer, chat!CanSend, ChatInv, PageOK
<1>2. PICK user \in {"user", "assistant"} : user = "user"
  OBVIOUS
<1>3. PICK assistant \in {"user", "assistant"} : assistant = "assistant"
  OBVIOUS
<1>4. PICK off \in BOOLEAN : off = FALSE
  OBVIOUS
<1>5. PICK q : q = chat!Message(asked + 1, user, session, off)
  OBVIOUS
<1>6. PICK told : told = chat!Message(asked + 1, assistant, session, off)
  OBVIOUS
<1>r. PICK r : r = [told EXCEPT !.text = 1]
  OBVIOUS
<1>7. /\ q \in Messages /\ q.turn = asked + 1 /\ q.by = session
      /\ q.role = "user" /\ q.live = FALSE
  BY <1>0, <1>2, <1>4, <1>5, QuestionIs
<1>8. /\ told \in Messages /\ told.turn = asked + 1 /\ told.by = session
      /\ told.role = "assistant" /\ told.live = FALSE
  BY <1>0, <1>3, <1>4, <1>6, QuestionIs
<1>1. /\ r \in Messages /\ r.turn = asked + 1 /\ r.by = session
      /\ r.role = "assistant" /\ r.text = 1 /\ r.live = FALSE
  BY <1>8, <1>r, ChatAssumption DEF Messages
<1>9. PICK messages : messages = Followed(chat!Base, q, r)
  OBVIOUS
<1>10. /\ store'
            = chat!Titled(SetMessages(chat!Opened, chat!Target, messages, session), chat!Target)
       /\ made' = NextMade /\ asked' = asked + 1 /\ session' = session
       /\ answer' = [answer EXCEPT ![asked + 1] = [outcome |-> "done", chunks |-> 1]]
  BY <1>2, <1>3, <1>4, <1>5, <1>6, <1>r, <1>9, ChatCopies DEF chat!ExportAnswer, chat!Exchange,
     Followed, NextMade
<1>11. /\ answer' \in Answers /\ \A t \in 1..asked : answer'[t] = answer[t]
       /\ answer'[asked + 1].outcome = "done" /\ answer'[asked + 1].chunks = 1
  <2>1. PICK outcome \in chat!Outcomes : outcome = "done"
    BY DEF chat!Outcomes
  <2>2. PICK chunks \in 0..MaxChunks : chunks = 1
    BY ChatAssumption
  <2> QED
    BY <1>0, <1>10, <2>1, <2>2, AnswerOpens
<1>12. Fits(r, answer')
  BY <1>1, <1>11 DEF Fits
<1>13. IsSent(messages, q, r)
  BY <1>0, <1>1, <1>7, <1>9, <1>10, <1>11, <1>12, ExchangeStored
<1>14. StreamOK'
  BY <1>0 DEF StreamOK
<1> QED
  BY <1>13, <1>14 DEF ChatInv, IsSent

\* An answer is generated anew.
LEMMA RegenerateKeeps ==
    ASSUME ChatInv, NEW i \in 1..2 * MaxTurns, chat!Regenerate(i)
    PROVE  ChatInv'
BY SendKeeps DEF chat!Regenerate

\* A rating changes no other part of the message.
LEMMA RateKeeps ==
    ASSUME ChatInv, NEW i \in 1..2 * MaxTurns, chat!Rate(i)
    PROVE  ChatInv'
<1>0. /\ PageOK /\ AllStored /\ StreamOK /\ made \in Nat
      /\ StoreOK(store, made, Seq(Messages))
  BY DEF ChatInv, PageOK
<1>1. PICK c : c = store.active
  OBVIOUS
<1>2. /\ chat!ActiveConversation = c /\ c \in DOMAIN store.convs
           /\ store.convs[c].owner = session
      /\ session \in Users
  BY <1>0, <1>1, ChatCopies DEF chat!Rate, chat!Rateable, chat!ActiveConversation, chat!Mine,
     Has, PageOK
<1>3. PICK old : old = store.convs[c].messages
  OBVIOUS
<1>4. chat!Shown = old /\ c # None
  BY <1>1, <1>2, <1>3 DEF chat!Rate, chat!Rateable, chat!Shown
<1>5. PICK new : new = [old EXCEPT ![i].rated = TRUE]
  OBVIOUS
<1>6. /\ c \in 1..made /\ old \in Seq(Messages) /\ i \in DOMAIN old
  BY <1>0, <1>2, <1>3, <1>4 DEF StoreOK, Threads, chat!Rate, chat!Rateable
<1>7. /\ new \in Seq(Messages) /\ DOMAIN new = DOMAIN old
      /\ \A j \in DOMAIN old : /\ new[j].turn = old[j].turn /\ new[j].role = old[j].role
                               /\ new[j].by = old[j].by /\ new[j].text = old[j].text
                               /\ new[j].live = old[j].live
  <2>1. PICK m : m = old[i]
    OBVIOUS
  <2>2. PICK r : r = [m EXCEPT !.rated = TRUE]
    OBVIOUS
  <2>3. m \in Messages
    BY <1>6, <2>1
  <2>4. r \in Messages /\ r.turn = m.turn /\ r.role = m.role /\ r.by = m.by /\ r.text = m.text
        /\ r.live = m.live
    BY <2>2, <2>3 DEF Messages
  <2>5. new = [old EXCEPT ![i] = r]
    BY <1>5, <2>1, <2>2
  <2> QED
    BY <1>6, <2>1, <2>4, <2>5
<1>8. store' = SetMessages(store, c, new, session)
  BY <1>2, <1>4, <1>5, ChatCopies DEF chat!Rate
<1>9. PICK M : M = Seq(Messages)
  OBVIOUS
<1>10. PICK t : t = store'
  OBVIOUS
<1>11. /\ StoreOK(t, made, M) /\ DOMAIN t.convs = DOMAIN store.convs \cup {c}
       /\ t.convs[c].messages = new
       /\ Has(store, c) => t.convs[c].owner = store.convs[c].owner
       /\ \A d \in DOMAIN store.convs : d # c => t.convs[d] = store.convs[d]
  <2>1. Takes(store, made, M, c, new, session)
    BY <1>0, <1>2, <1>6, <1>7, <1>9 DEF Takes
  <2> QED
    BY <1>8, <1>10, <2>1, SetMessagesKeeps
<1>12. UNCHANGED <<session, made, asked, stream, answer>>
  BY DEF chat!Rate
<1>13. PageOK'
  BY <1>0, <1>9, <1>10, <1>11, <1>12 DEF PageOK
<1>14. AllStored'
  <2> SUFFICES ASSUME NEW d \in DOMAIN store'.convs, NEW j \in DOMAIN store'.convs[d].messages
               PROVE  StoredOK(d, store.convs[d].messages[j])'
    BY DEF AllStored
  <2>1. PICK m : m = store'.convs[d].messages[j]
    OBVIOUS
  <2>2. PICK b : b = store.convs[d].messages[j]
    OBVIOUS
  <2>3. /\ d \in DOMAIN store.convs /\ j \in DOMAIN store.convs[d].messages
        /\ store'.convs[d].owner = store.convs[d].owner
        /\ m.turn = b.turn /\ m.role = b.role /\ m.by = b.by /\ m.text = b.text
        /\ m.live = b.live
    <3>1. CASE d = c
      BY <1>2, <1>3, <1>7, <1>10, <1>11, <2>1, <2>2, <3>1 DEF Has
    <3>2. CASE d # c
      BY <1>2, <1>10, <1>11, <2>1, <2>2, <3>2
    <3> QED
      BY <3>1, <3>2
  <2>4. StoredOK(d, b)
    BY <1>0, <2>2, <2>3 DEF AllStored
  <2> QED
    BY <1>12, <2>1, <2>3, <2>4 DEF StoredOK, Fits
<1>15. StreamOK'
  <2> SUFFICES ASSUME stream # None PROVE StreamOK'
    BY <1>12 DEF StreamOK
  <2>4. stream' = stream /\ asked' = asked /\ answer' = answer
    BY <1>12
  <2>0. \A m : chat!IsAnswer(m)' <=> chat!IsAnswer(m)
    BY <2>4 DEF chat!IsAnswer
  <2>1. \A m : WorkOK(m)' <=> WorkOK(m)
    BY <2>0, <2>4 DEF WorkOK
  <2>2. Has(store, stream.conv)' => store'.convs[stream.conv].owner = stream.owner
    BY <1>0, <1>2, <1>10, <1>11, <2>4 DEF StreamOK, Has
  <2>3. /\ \E j \in DOMAIN stream.work : chat!IsAnswer(stream.work[j])'
        /\ \A j \in DOMAIN stream.work : WorkOK(stream.work[j])'
    BY <1>0, <2>0, <2>1, <2>4 DEF StreamOK
  <2> QED
    BY <1>0, <1>12, <2>2, <2>3 DEF StreamOK
<1> QED
  BY <1>13, <1>14, <1>15 DEF ChatInv

-----------------------------------------------------------------------------
(* The stream. *)

\* What a stream holds.
LEMMA CurrentIs ==
    ASSUME ChatInv, stream # None, NEW m, m = chat!Current
    PROVE  /\ m \in Messages /\ m.turn = stream.turn /\ m.role = "assistant"
           /\ m.by = stream.owner
           /\ m.text + stream.buffer = answer[stream.turn].chunks
<1>1. PICK k : k = CHOOSE i \in DOMAIN stream.work : chat!IsAnswer(stream.work[i])
  OBVIOUS
<1>2. k \in DOMAIN stream.work /\ chat!IsAnswer(stream.work[k])
  BY <1>1 DEF ChatInv, StreamOK
<1>3. m = stream.work[k] /\ m \in Messages /\ WorkOK(m)
  BY <1>1, <1>2 DEF chat!Current, ChatInv, StreamOK, StreamRecords
<1> QED
  BY <1>2, <1>3 DEF chat!IsAnswer, WorkOK

\* A list that is the stream's copy with m for the answer.
Patch(ms, m) ==
    /\ ms \in Seq(Messages) /\ DOMAIN ms = DOMAIN stream.work
    /\ \A i \in DOMAIN ms :
          \/ ms[i] = m
          \/ ms[i] = stream.work[i] /\ ~chat!IsAnswer(stream.work[i])
    /\ \E i \in DOMAIN ms : ms[i] = m

\* The answer in the copy of a stream is changed.
LEMMA PatchedIs ==
    ASSUME ChatInv, stream # None, NEW m \in Messages, NEW ms, ms = chat!Patched(m)
    PROVE  Patch(ms, m)
<1>1. PICK w : w = stream.work
  OBVIOUS
<1>2. w \in Seq(Messages) /\ \E i \in DOMAIN w : chat!IsAnswer(w[i])
  BY <1>1 DEF ChatInv, StreamOK, StreamRecords
<1>3. ms = [i \in DOMAIN w |-> IF chat!IsAnswer(w[i]) THEN m ELSE w[i]]
  BY <1>1 DEF chat!Patched
<1>4. DOMAIN ms = DOMAIN w /\ \A i \in DOMAIN ms : ms[i] \in Messages
  BY <1>2, <1>3
<1>5. ms \in Seq(Messages)
  <2>1. Len(w) \in Nat /\ DOMAIN w = 1..Len(w)
    BY <1>2
  <2>2. ms \in [1..Len(w) -> Messages]
    BY <1>3, <1>4, <2>1
  <2> QED
    BY <2>1, <2>2
<1> QED
  BY <1>1, <1>2, <1>3, <1>4, <1>5 DEF Patch

\* A step of the stream leaves m for the answer.
Writes(m) ==
    /\ stream # None /\ m \in Messages /\ m.turn = stream.turn /\ m.role = "assistant"
    /\ m.by = stream.owner /\ Fits(m, answer')
    /\ m.live => stream' # None \/ answer'[stream.turn].outcome = "lost"
    /\ stream' # None => stream'.turn = stream.turn /\ stream'.conv = stream.conv
    /\ answer' \in Answers
    /\ \A t \in Turns \ {stream.turn} : answer'[t] = answer[t]
    /\ store' = chat!Stored(chat!Patched(m))
    /\ session' \in Users \cup {None} /\ made' = made /\ asked' = asked

\* A stream writes what it holds.
LEMMA Written ==
    ASSUME ChatInv, NEW m, Writes(m)
    PROVE  PageOK' /\ AllStored' /\ store'.convs[stream.conv].owner = stream.owner
<1>0. /\ PageOK /\ AllStored /\ StreamOK /\ made \in Nat /\ asked \in Nat
      /\ StoreOK(store, made, Seq(Messages))
  BY DEF ChatInv, PageOK
<1>1. PICK c : c = stream.conv
  OBVIOUS
<1>2. PICK ms : ms = chat!Patched(m)
  OBVIOUS
<1>3. Patch(ms, m)
  BY <1>2, PatchedIs DEF Writes
<1>4. PICK M : M = Seq(Messages)
  OBVIOUS
<1>5. PICK t : t = store'
  OBVIOUS
<1>6. PICK u : u = stream.owner
  OBVIOUS
<1>7. /\ c \in 1..made /\ stream.turn \in 1..asked /\ u \in Users
      /\ answer[stream.turn].outcome = "open"
      /\ \A i \in DOMAIN stream.work : WorkOK(stream.work[i])
      /\ Has(store, c) => store.convs[c].owner = u
  BY <1>0, <1>1, <1>6 DEF StreamOK, StreamRecords, Writes
<1>8. /\ StoreOK(t, made, M) /\ DOMAIN t.convs = DOMAIN store.convs \cup {c}
      /\ t.convs[c].messages = ms
      /\ Has(store, c) => t.convs[c].owner = store.convs[c].owner
      /\ ~Has(store, c) => t.convs[c].owner = u
      /\ \A d \in DOMAIN store.convs : d # c => t.convs[d] = store.convs[d]
  <2>1. Takes(store, made, M, c, ms, u)
    BY <1>0, <1>3, <1>4, <1>7 DEF Takes, Patch
  <2>2. t = SetMessages(store, c, ms, u)
    BY <1>1, <1>2, <1>5, <1>6, ChatCopies DEF Writes, chat!Stored
  <2> QED
    BY <2>1, <2>2, SetMessagesKeeps
<1>9. t.convs[c].owner = u
  BY <1>7, <1>8
<1>10. PageOK'
  BY <1>0, <1>4, <1>5, <1>8 DEF PageOK, Writes
<1>11. \A k \in 1..asked : k # stream.turn => answer'[k] = answer[k]
  <2>1. asked \in 0..MaxTurns
    BY <1>0 DEF PageOK
  <2> QED
    BY <1>0, <2>1, ChatAssumption DEF Writes, Turns
<1>12. AllStored'
  <2> SUFFICES ASSUME NEW d \in DOMAIN store'.convs, NEW j \in DOMAIN store'.convs[d].messages
               PROVE  StoredOK(d, store.convs[d].messages[j])'
    BY DEF AllStored
  <2>1. PICK e : e = store'.convs[d].messages[j]
    OBVIOUS
  <2>2. e.turn \in 1..asked /\ e.by = store'.convs[d].owner
    <3>1. CASE d = c
      BY <1>3, <1>5, <1>6, <1>7, <1>8, <1>9, <2>1, <3>1 DEF Patch, WorkOK, Writes
    <3>2. CASE d # c
      BY <1>0, <1>5, <1>8, <2>1, <3>2 DEF AllStored, StoredOK
    <3> QED
      BY <3>1, <3>2
  <2>3. \/ d = c /\ e = m
        \/ d = c /\ ~chat!IsAnswer(e) /\ WorkOK(e)
        \/ d # c /\ e.turn # stream.turn /\ Fits(e, answer)
           /\ (e.live => answer[e.turn].outcome = "lost")
    <3>1. CASE d = c
      BY <1>3, <1>5, <1>7, <1>8, <2>1, <3>1 DEF Patch
    <3>2. CASE d # c
      <4>1. StoredOK(d, e)
        BY <1>0, <1>5, <1>8, <2>1, <3>2 DEF AllStored
      <4>2. e.turn # stream.turn
        BY <1>1, <3>2, <4>1 DEF StoredOK, Writes
      <4> QED
        BY <3>2, <4>1, <4>2 DEF StoredOK
    <3> QED
      BY <3>1, <3>2
  <2>4. Fits(e, answer')
    <3>1. CASE e.turn # stream.turn
      <4>1. answer'[e.turn] = answer[e.turn]
        BY <1>11, <2>2, <3>1
      <4>2. Fits(e, answer)
        BY <2>3, <3>1 DEF WorkOK, Writes
      <4> QED
        BY <4>1, <4>2 DEF Fits
    <3>2. CASE e.turn = stream.turn
      BY <2>3, <3>2 DEF Fits, chat!IsAnswer, Writes
    <3> QED
      BY <3>1, <3>2
  <2>5. e.live => \/ stream' # None /\ stream'.turn = e.turn /\ stream'.conv = d
                  \/ answer'[e.turn].outcome = "lost"
    <3>1. CASE e = m /\ d = c
      BY <1>1, <3>1 DEF Writes
    <3>2. CASE ~(e = m /\ d = c)
      <4>1. e.live => answer[e.turn].outcome = "lost"
        BY <2>3, <3>2 DEF WorkOK
      <4>2. e.live => e.turn # stream.turn
        BY <1>7, <4>1
      <4> QED
        BY <1>11, <2>2, <4>1, <4>2
    <3> QED
      BY <3>1, <3>2
  <2>6. stream' # None /\ stream'.turn = e.turn => stream'.conv = d
    BY <1>1, <2>3 DEF Writes
  <2>7. asked' = asked
    BY DEF Writes
  <2> QED
    BY <2>1, <2>2, <2>4, <2>5, <2>6, <2>7 DEF StoredOK
<1> QED
  BY <1>1, <1>5, <1>6, <1>9, <1>10, <1>12

\* A stream that goes on after it wrote.
LEMMA WrittenGoesOn ==
    ASSUME ChatInv, NEW m, Writes(m), NEW b \in 0..MaxChunks,
           stream' = [stream EXCEPT !.work = chat!Patched(m), !.buffer = b],
           answer' = answer, m.text + b = answer[stream.turn].chunks
    PROVE  ChatInv'
<1>1. PageOK' /\ AllStored' /\ store'.convs[stream.conv].owner = stream.owner
  BY Written
<1>2. PICK ms : ms = chat!Patched(m)
  OBVIOUS
<1>3. Patch(ms, m) /\ StreamOK /\ stream # None
  BY <1>2, PatchedIs DEF Writes, ChatInv
<1>4. /\ stream' \in StreamRecords /\ stream'.conv = stream.conv /\ stream'.turn = stream.turn
      /\ stream'.owner = stream.owner /\ stream'.work = ms /\ stream'.buffer = b
  <2>1. stream \in StreamRecords /\ ms \in Seq(Messages)
    BY <1>3 DEF StreamOK, Patch
  <2> QED
    BY <1>2, <2>1 DEF StreamRecords
<1>5. made' = made /\ asked' = asked /\ m.turn = stream.turn /\ m.role = "assistant"
  BY DEF Writes
<1>6. \A e : chat!IsAnswer(e)' <=> chat!IsAnswer(e)
  BY <1>4 DEF chat!IsAnswer
<1>7. chat!IsAnswer(m)
  BY <1>5 DEF chat!IsAnswer
<1>8. ASSUME NEW i \in DOMAIN ms PROVE WorkOK(ms[i])'
  <2>1. PICK e : e = ms[i]
    OBVIOUS
  <2>2. CASE e = m
    <3>1. m.turn \in 1..asked' /\ m.by = stream'.owner
      BY <1>3, <1>4, <1>5 DEF StreamOK, Writes
    <3> QED
      BY <1>4, <1>6, <1>7, <2>1, <2>2, <3>1 DEF WorkOK
  <2>3. CASE e # m
    <3>1. ~chat!IsAnswer(e) /\ WorkOK(e)
      BY <1>3, <2>1, <2>3 DEF Patch, StreamOK
    <3> QED
      BY <1>4, <1>5, <1>6, <2>1, <3>1 DEF WorkOK
  <2> QED
    BY <2>2, <2>3
<1>9. \E i \in DOMAIN ms : chat!IsAnswer(ms[i])'
  BY <1>3, <1>6, <1>7 DEF Patch
<1>10. /\ stream'.conv \in 1..made' /\ stream'.turn \in 1..asked'
       /\ answer'[stream'.turn].outcome = "open"
       /\ store'.convs[stream'.conv].owner = stream'.owner
  BY <1>1, <1>3, <1>4, <1>5 DEF StreamOK
<1>11. StreamOK'
  BY <1>4, <1>8, <1>9, <1>10 DEF StreamOK
<1> QED
  BY <1>1, <1>11 DEF ChatInv

\* A stream that ends with what it wrote.
LEMMA WrittenEnds ==
    ASSUME ChatInv, NEW m, Writes(m), stream' = None
    PROVE  ChatInv'
<1>1. PageOK' /\ AllStored'
  BY Written
<1>2. StreamOK'
  BY DEF StreamOK
<1> QED
  BY <1>1, <1>2 DEF ChatInv

\* The timer shows some of what is in the buffer.
LEMMA TickKeeps == ASSUME ChatInv, chat!Tick PROVE ChatInv'
<1>1. PICK n \in 1..MaxChunks :
         /\ stream # None /\ n <= stream.buffer
         /\ store' = chat!Stored(chat!Patched([chat!Current EXCEPT !.text = @ + n]))
         /\ stream' = [stream EXCEPT !.work
              = chat!Patched([chat!Current EXCEPT !.text = @ + n]),
                                     !.buffer = @ - n]
         /\ UNCHANGED <<session, made, asked, answer>>
  BY DEF chat!Tick
<1>2. PICK a : a = chat!Current
  OBVIOUS
<1>3. PICK m : m = [a EXCEPT !.text = @ + n]
  OBVIOUS
<1>4. PICK b : b = stream.buffer - n
  OBVIOUS
<1>5. /\ a \in Messages /\ a.turn = stream.turn /\ a.role = "assistant"
      /\ a.by = stream.owner /\ a.text + stream.buffer = answer[stream.turn].chunks
  BY <1>1, <1>2, CurrentIs
<1>6. /\ stream \in StreamRecords /\ stream.buffer \in 0..MaxChunks
      /\ answer[stream.turn].chunks \in 0..MaxChunks /\ answer \in Answers
      /\ answer[stream.turn].outcome = "open"
  BY <1>1 DEF ChatInv, StreamOK, PageOK, Answers, StreamRecords
<1>7. /\ MaxChunks \in Nat /\ a.text \in 0..MaxChunks
  BY <1>5, ChatAssumption DEF Messages
<1>8. b \in 0..MaxChunks /\ a.text + n \in 0..MaxChunks
  BY <1>1, <1>4, <1>5, <1>6, <1>7
<1>9. /\ m \in Messages /\ m.turn = a.turn /\ m.role = a.role /\ m.by = a.by
      /\ m.text = a.text + n
  BY <1>3, <1>5, <1>8 DEF Messages
<1>10. m.text + b = answer[stream.turn].chunks
  BY <1>1, <1>4, <1>5, <1>6, <1>7, <1>9
<1>11. /\ store' = chat!Stored(chat!Patched(m)) /\ answer' = answer
       /\ stream' = [stream EXCEPT !.work = chat!Patched(m), !.buffer = b]
  BY <1>1, <1>2, <1>3, <1>4
<1>12. Writes(m)
  <2>1. Fits(m, answer')
    BY <1>6, <1>7, <1>8, <1>9, <1>10, <1>11, <1>5 DEF Fits
  <2>2. stream'.turn = stream.turn /\ stream'.conv = stream.conv /\ stream' # None
    <3>1. PICK w : w = chat!Patched(m)
      OBVIOUS
    <3>2. w \in Seq(Messages)
      BY <1>1, <1>9, <3>1, PatchedIs DEF Patch
    <3>3. stream' \in StreamRecords
      BY <1>6, <1>8, <1>11, <3>1, <3>2 DEF StreamRecords
    <3> QED
      BY <1>6, <1>11, <3>3, StreamAssumption DEF StreamRecords
  <2>3. session' \in Users \cup {None} /\ made' = made /\ asked' = asked
    BY <1>1 DEF ChatInv, PageOK
  <2> QED
    BY <1>1, <1>5, <1>6, <1>9, <1>11, <2>1, <2>2, <2>3 DEF Writes
<1> QED
  BY <1>8, <1>10, <1>11, <1>12, WrittenGoesOn

\* The stream tells of a tool.
LEMMA ToolEventKeeps == ASSUME ChatInv, chat!ToolEvent PROVE ChatInv'
<1>1. /\ stream # None /\ store' = chat!Stored(chat!Patched(chat!Progressed))
      /\ stream' = [stream EXCEPT !.work = chat!Patched(chat!Progressed)]
      /\ UNCHANGED <<session, made, asked, answer>>
  BY DEF chat!ToolEvent, chat!Write
<1>2. PICK a : a = chat!Current
  OBVIOUS
<1>3. PICK m : m = [a EXCEPT !.tool = TRUE]
  OBVIOUS
<1>4. PICK b : b = stream.buffer
  OBVIOUS
<1>5. /\ a \in Messages /\ a.turn = stream.turn /\ a.role = "assistant"
      /\ a.by = stream.owner /\ a.text + stream.buffer = answer[stream.turn].chunks
  BY <1>1, <1>2, CurrentIs
<1>6. /\ stream \in StreamRecords /\ b \in 0..MaxChunks
      /\ answer[stream.turn].chunks \in 0..MaxChunks /\ answer \in Answers
      /\ answer[stream.turn].outcome = "open"
  BY <1>1, <1>4 DEF ChatInv, StreamOK, PageOK, Answers, StreamRecords
<1>7. MaxChunks \in Nat /\ a.text \in 0..MaxChunks
  BY <1>5, ChatAssumption DEF Messages
<1>9. /\ m \in Messages /\ m.turn = a.turn /\ m.role = a.role /\ m.by = a.by
      /\ m.text = a.text
  BY <1>3, <1>5 DEF Messages
<1>10. m.text + b = answer[stream.turn].chunks
  BY <1>4, <1>5, <1>9
<1>11. /\ store' = chat!Stored(chat!Patched(m)) /\ answer' = answer
       /\ stream' = [stream EXCEPT !.work = chat!Patched(m), !.buffer = b]
  <2>1. m = chat!Progressed
    BY <1>2, <1>3 DEF chat!Progressed
  <2> QED
    BY <1>1, <1>4, <1>6, <2>1 DEF StreamRecords
<1>12. Writes(m)
  <2>1. Fits(m, answer')
    BY <1>5, <1>6, <1>7, <1>9, <1>10, <1>11 DEF Fits
  <2>2. stream'.turn = stream.turn /\ stream'.conv = stream.conv /\ stream' # None
    <3>1. PICK w : w = chat!Patched(m)
      OBVIOUS
    <3>2. w \in Seq(Messages)
      BY <1>1, <1>9, <3>1, PatchedIs DEF Patch
    <3>3. stream' \in StreamRecords
      BY <1>6, <1>11, <3>1, <3>2 DEF StreamRecords
    <3> QED
      BY <1>6, <1>11, <3>3, StreamAssumption DEF StreamRecords
  <2>3. session' \in Users \cup {None} /\ made' = made /\ asked' = asked
    BY <1>1 DEF ChatInv, PageOK
  <2> QED
    BY <1>1, <1>5, <1>6, <1>9, <1>11, <2>1, <2>2, <2>3 DEF Writes
<1> QED
  BY <1>6, <1>10, <1>11, <1>12, WrittenGoesOn

\* The history of an answer that ends.
LEMMA OutcomeIs ==
    ASSUME ChatInv, stream # None, NEW outcome \in chat!Outcomes,
           answer' = [answer EXCEPT ![stream.turn].outcome = outcome]
    PROVE  /\ answer' \in Answers
           /\ answer'[stream.turn].outcome = outcome
           /\ answer'[stream.turn].chunks = answer[stream.turn].chunks
           /\ \A t \in Turns \ {stream.turn} : answer'[t] = answer[t]
<1>1. stream.turn \in Turns /\ answer \in Answers
  BY DEF ChatInv, StreamOK, PageOK, StreamRecords
<1>2. PICK k : k = stream.turn
  OBVIOUS
<1>3. PICK old : old = answer[k]
  OBVIOUS
<1>4. PICK new : new = [old EXCEPT !.outcome = outcome]
  OBVIOUS
<1>5. old \in [outcome : chat!Outcomes, chunks : 0..MaxChunks]
  BY <1>1, <1>2, <1>3 DEF Answers
<1>6. /\ new \in [outcome : chat!Outcomes, chunks : 0..MaxChunks]
      /\ new.outcome = outcome /\ new.chunks = old.chunks
  BY <1>4, <1>5
<1>7. answer' = [answer EXCEPT ![k] = new]
  BY <1>2, <1>3, <1>4
<1> QED
  BY <1>1, <1>2, <1>3, <1>6, <1>7 DEF Answers

\* The ways in which an answer ends.
Ends(m, outcome) ==
    /\ stream # None /\ chat!EndStream(m, outcome) /\ outcome \in chat!Outcomes
    /\ session' \in {session, None}
    /\ m \in Messages /\ m.turn = stream.turn /\ m.role = "assistant" /\ m.by = stream.owner
    /\ m.text <= answer[stream.turn].chunks
    /\ outcome \in {"done", "failed"} => m.text = answer[stream.turn].chunks
    /\ m.live => outcome = "lost"

\* A stream ends, and with it its answer.
LEMMA AnswerEnds == ASSUME ChatInv, NEW m, NEW outcome, Ends(m, outcome) PROVE ChatInv'
<1>1. /\ stream # None /\ stream' = None /\ outcome \in chat!Outcomes
      /\ answer' = [answer EXCEPT ![stream.turn].outcome = outcome]
      /\ store' = chat!Stored(chat!Patched(m)) /\ made' = made /\ asked' = asked
  BY DEF Ends, chat!EndStream
<1>2. /\ answer' \in Answers
      /\ answer'[stream.turn].outcome = outcome
      /\ answer'[stream.turn].chunks = answer[stream.turn].chunks
      /\ \A t \in Turns \ {stream.turn} : answer'[t] = answer[t]
  BY <1>1, OutcomeIs
<1>3. Fits(m, answer')
  BY <1>2 DEF Fits, Ends
<1>4. session' \in Users \cup {None}
  BY DEF Ends, ChatInv, PageOK
<1>5. Writes(m)
  BY <1>1, <1>2, <1>3, <1>4 DEF Writes, Ends
<1> QED
  BY <1>1, <1>5, WrittenEnds

\* What the stream holds, with all of its buffer.
LEMMA CurrentShows ==
    ASSUME ChatInv, stream # None, NEW a, a = chat!Current
    PROVE  /\ a \in Messages /\ a.turn = stream.turn /\ a.role = "assistant"
           /\ a.by = stream.owner /\ MaxChunks \in Nat
           /\ a.text \in Nat /\ a.text <= answer[stream.turn].chunks
           /\ a.text + stream.buffer = answer[stream.turn].chunks
           /\ answer[stream.turn].chunks \in 0..MaxChunks /\ stream.buffer \in 0..MaxChunks
<1>1. /\ a \in Messages /\ a.turn = stream.turn /\ a.role = "assistant"
      /\ a.by = stream.owner /\ a.text + stream.buffer = answer[stream.turn].chunks
  BY CurrentIs
<1>2. /\ stream.buffer \in 0..MaxChunks /\ answer[stream.turn].chunks \in 0..MaxChunks
  BY DEF ChatInv, StreamOK, PageOK, Answers, StreamRecords
<1>3. MaxChunks \in Nat /\ a.text \in 0..MaxChunks
  BY <1>1, ChatAssumption DEF Messages
<1> QED
  BY <1>1, <1>2, <1>3

\* An answer ends with its terminal event.
LEMMA FinishKeeps == ASSUME ChatInv, chat!Finish PROVE ChatInv'
<1>1. PICK a : a = chat!Current
  OBVIOUS
<1>2. /\ stream # None /\ stream.buffer = 0 /\ session' = session
      /\ chat!EndStream(chat!Completed, "done") \/ chat!EndStream(chat!Current, "lost")
  BY DEF chat!Finish
<1>3. /\ a \in Messages /\ a.turn = stream.turn /\ a.role = "assistant"
      /\ a.by = stream.owner /\ MaxChunks \in Nat
      /\ a.text \in Nat /\ a.text <= answer[stream.turn].chunks
      /\ a.text + stream.buffer = answer[stream.turn].chunks
      /\ answer[stream.turn].chunks \in 0..MaxChunks
  BY <1>1, <1>2, CurrentShows
<1>4. CASE chat!EndStream(chat!Completed, "done")
  <2>1. PICK m : m = chat!Completed
    OBVIOUS
  <2>2. PICK k \in 0..MaxChunks : k = answer[stream.turn].chunks
    BY <1>3
  <2>3. m = [a EXCEPT !.text = k, !.live = FALSE, !.turnId = TRUE]
    BY <1>1, <2>1, <2>2 DEF chat!Completed
  <2>4. /\ m \in Messages /\ m.turn = a.turn /\ m.role = a.role /\ m.by = a.by
        /\ m.text = k /\ m.live = FALSE
    BY <1>3, <2>3 DEF Messages
  <2>5. Ends(m, "done")
    BY <1>2, <1>3, <1>4, <2>1, <2>2, <2>4 DEF Ends, chat!Outcomes
  <2> QED
    BY <2>5, AnswerEnds
<1>5. CASE chat!EndStream(chat!Current, "lost")
  <2>1. Ends(a, "lost")
    BY <1>1, <1>2, <1>3, <1>5 DEF Ends, chat!Outcomes
  <2> QED
    BY <2>1, AnswerEnds
<1> QED
  BY <1>2, <1>4, <1>5

\* The user stops an answer.
LEMMA StopKeeps == ASSUME ChatInv, chat!StopAnswer PROVE ChatInv'
<1>1. PICK a : a = chat!Current
  OBVIOUS
<1>2. stream # None /\ session' = session /\ chat!EndStream(chat!Settled, "stopped")
  BY DEF chat!StopAnswer
<1>3. /\ a \in Messages /\ a.turn = stream.turn /\ a.role = "assistant"
      /\ a.by = stream.owner /\ a.text <= answer[stream.turn].chunks
  BY <1>1, <1>2, CurrentShows
<1>4. PICK m : m = chat!Settled
  OBVIOUS
<1>5. m = [a EXCEPT !.live = FALSE]
  BY <1>1, <1>4 DEF chat!Settled
<1>6. /\ m \in Messages /\ m.turn = a.turn /\ m.role = a.role /\ m.by = a.by
      /\ m.text = a.text /\ m.live = FALSE
  BY <1>3, <1>5 DEF Messages
<1>7. Ends(m, "stopped")
  BY <1>2, <1>3, <1>4, <1>6 DEF Ends, chat!Outcomes
<1> QED
  BY <1>7, AnswerEnds

\* What is buffered is written before a failure ends the stream.
LEMMA FlushedIs ==
    ASSUME ChatInv, stream # None, NEW m, m = chat!Flushed
    PROVE  /\ m \in Messages /\ m.turn = stream.turn /\ m.role = "assistant"
           /\ m.by = stream.owner /\ m.live = FALSE
           /\ m.text = answer[stream.turn].chunks /\ m.text \in Nat
<1>1. PICK a : a = chat!Current
  OBVIOUS
<1>2. /\ a \in Messages /\ a.turn = stream.turn /\ a.role = "assistant"
      /\ a.by = stream.owner /\ MaxChunks \in Nat
      /\ a.text \in Nat /\ a.text + stream.buffer = answer[stream.turn].chunks
      /\ answer[stream.turn].chunks \in 0..MaxChunks
  BY <1>1, CurrentShows
<1>3. PICK k \in 0..MaxChunks : k = a.text + stream.buffer
  BY <1>2
<1>4. m = [a EXCEPT !.text = k, !.live = FALSE]
  BY <1>1, <1>3 DEF chat!Flushed
<1>5. /\ m \in Messages /\ m.turn = a.turn /\ m.role = a.role /\ m.by = a.by
      /\ m.live = FALSE /\ m.text = k
  BY <1>2, <1>4 DEF Messages
<1> QED
  BY <1>2, <1>3, <1>5

\* An answer fails, or the session has expired.
LEMMA FailureKeeps == ASSUME ChatInv, chat!Expire \/ chat!Fail PROVE ChatInv'
<1>1. PICK f : f = chat!Flushed
  OBVIOUS
<1>2. stream # None
  BY DEF chat!Expire, chat!Fail
<1>3. /\ f \in Messages /\ f.turn = stream.turn /\ f.role = "assistant"
      /\ f.by = stream.owner /\ f.live = FALSE
      /\ f.text = answer[stream.turn].chunks /\ f.text \in Nat
  BY <1>1, <1>2, FlushedIs
<1>4. CASE chat!Expire
  <2>1. session' = None /\ chat!EndStream(f, "failed")
    BY <1>1, <1>4 DEF chat!Expire
  <2>2. Ends(f, "failed")
    BY <1>2, <1>3, <2>1 DEF Ends, chat!Outcomes
  <2> QED
    BY <2>2, AnswerEnds
<1>5. CASE chat!Fail
  <2>1. PICK m : m = [f EXCEPT !.failed = TRUE]
    OBVIOUS
  <2>2. session' = session /\ chat!EndStream(m, "failed")
    BY <1>1, <1>5, <2>1 DEF chat!Fail, chat!Failed
  <2>3. /\ m \in Messages /\ m.turn = f.turn /\ m.role = f.role /\ m.by = f.by
        /\ m.text = f.text /\ m.live = f.live
    BY <1>3, <2>1 DEF Messages
  <2>4. Ends(m, "failed")
    BY <1>2, <1>3, <2>2, <2>3 DEF Ends, chat!Outcomes
  <2> QED
    BY <2>4, AnswerEnds
<1> QED
  BY <1>4, <1>5

\* The store is left alone while an answer arrives, and when it is cut off.
Waits ==
    /\ stream # None /\ UNCHANGED <<session, store, made, asked>>
    /\ answer' \in Answers
    /\ \A t \in Turns \ {stream.turn} : answer'[t] = answer[t]
    /\ answer[stream.turn].chunks <= answer'[stream.turn].chunks
    /\ \/ /\ stream' \in StreamRecords /\ answer'[stream.turn].outcome = "open"
          /\ stream'.conv = stream.conv /\ stream'.turn = stream.turn
          /\ stream'.owner = stream.owner /\ stream'.work = stream.work
          /\ answer'[stream.turn].chunks + stream.buffer
                = answer[stream.turn].chunks + stream'.buffer
       \/ stream' = None /\ answer'[stream.turn].outcome = "lost"

\* Something arrives, or a stream is lost, and nothing is written.
LEMMA WaitKeeps == ASSUME ChatInv, Waits PROVE ChatInv'
<1>0. /\ PageOK /\ AllStored /\ StreamOK /\ stream # None /\ asked \in Nat
      /\ UNCHANGED <<session, store, made, asked>>
  BY DEF ChatInv, PageOK, Waits
<1>1. /\ stream.turn \in 1..asked /\ stream \in StreamRecords
      /\ answer[stream.turn].outcome = "open"
  BY <1>0 DEF StreamOK
<1>2. \A k \in 1..asked : k # stream.turn => answer'[k] = answer[k]
  <2>1. asked \in 0..MaxTurns
    BY <1>0 DEF PageOK
  <2> QED
    BY <1>0, <2>1, ChatAssumption DEF Waits, Turns
<1>3. /\ answer'[stream.turn].outcome \in {"open", "lost"}
      /\ stream' # None => stream'.turn = stream.turn /\ stream'.conv = stream.conv
      /\ stream' = None => answer'[stream.turn].outcome = "lost"
  BY StreamAssumption DEF Waits
<1>4. PageOK'
  BY <1>0 DEF PageOK, Waits
<1>5. AllStored'
  <2> SUFFICES ASSUME NEW c \in DOMAIN store.convs, NEW i \in DOMAIN store.convs[c].messages
               PROVE  StoredOK(c, store.convs[c].messages[i])'
    BY <1>0 DEF AllStored
  <2>1. PICK m : m = store.convs[c].messages[i]
    OBVIOUS
  <2>2. StoredOK(c, m) /\ m \in Messages
    BY <1>0, <2>1 DEF AllStored, PageOK, StoreOK, Threads
  <2>3. Fits(m, answer')
    <3>1. CASE m.turn = stream.turn
      <4>1. /\ answer[stream.turn].chunks \in Nat /\ answer'[stream.turn].chunks \in Nat
            /\ m.text \in Nat
        BY <1>0, <1>1, <2>2, ChatAssumption DEF PageOK, Answers, Waits, StreamRecords, Messages
      <4>2. answer[stream.turn].chunks <= answer'[stream.turn].chunks
        BY DEF Waits
      <4> QED
        BY <1>3, <2>2, <3>1, <4>1, <4>2 DEF StoredOK, Fits
    <3>2. CASE m.turn # stream.turn
      BY <1>2, <2>2, <3>2 DEF StoredOK, Fits
    <3> QED
      BY <3>1, <3>2
  <2>4. m.live => \/ stream' # None /\ stream'.turn = m.turn /\ stream'.conv = c
                  \/ answer'[m.turn].outcome = "lost"
    <3>1. CASE m.turn = stream.turn
      BY <1>0, <1>1, <1>3, <2>2, <3>1 DEF StoredOK
    <3>2. CASE m.turn # stream.turn
      BY <1>2, <2>2, <3>2 DEF StoredOK
    <3> QED
      BY <3>1, <3>2
  <2>5. stream' # None /\ stream'.turn = m.turn => stream'.conv = c
    BY <1>0, <1>3, <2>2 DEF StoredOK
  <2> QED
    BY <1>0, <2>1, <2>2, <2>3, <2>4, <2>5 DEF StoredOK
<1>6. StreamOK'
  <2> SUFFICES ASSUME stream' # None PROVE StreamOK'
    BY DEF StreamOK
  <2>1. /\ stream' \in StreamRecords /\ answer'[stream.turn].outcome = "open"
        /\ stream'.conv = stream.conv /\ stream'.turn = stream.turn
        /\ stream'.owner = stream.owner /\ stream'.work = stream.work
        /\ answer'[stream.turn].chunks + stream.buffer
              = answer[stream.turn].chunks + stream'.buffer
    BY DEF Waits
  <2>2. \A m : chat!IsAnswer(m)' <=> chat!IsAnswer(m)
    BY <2>1 DEF chat!IsAnswer
  <2>5. PICK w : w = stream.work
    OBVIOUS
  <2>3. ASSUME NEW i \in DOMAIN w PROVE WorkOK(w[i])'
    <3>1. PICK m : m = w[i]
      OBVIOUS
    <3>2. WorkOK(m) /\ m \in Messages
      BY <1>0, <1>1, <2>5, <3>1 DEF StreamOK, StreamRecords
    <3>3. chat!IsAnswer(m) => m.text + stream'.buffer = answer'[stream.turn].chunks
      <4>1. /\ answer[stream.turn].chunks \in Nat /\ answer'[stream.turn].chunks \in Nat
            /\ m.text \in Nat /\ stream.buffer \in Nat /\ stream'.buffer \in Nat
        BY <1>0, <1>1, <2>1, <3>2, ChatAssumption DEF PageOK, Answers, Waits, StreamRecords,
           Messages
      <4> QED
        BY <2>1, <3>2, <4>1 DEF WorkOK
    <3>4. ~chat!IsAnswer(m) => Fits(m, answer')
      <4>1. CASE m.turn = stream.turn
        BY <4>1 DEF chat!IsAnswer, Fits
      <4>2. CASE m.turn # stream.turn
        BY <1>2, <3>2, <4>2 DEF WorkOK, Fits
      <4> QED
        BY <4>1, <4>2
    <3>5. ~chat!IsAnswer(m) /\ m.live => answer'[m.turn].outcome = "lost"
      BY <1>1, <1>2, <3>2 DEF WorkOK
    <3>6. m.turn \in 1..asked' /\ m.by = stream'.owner
      BY <1>0, <2>1, <3>2 DEF WorkOK
    <3>7. answer'[stream'.turn] = answer'[stream.turn]
      BY <2>1
    <3>8. chat!IsAnswer(m)' <=> chat!IsAnswer(m)
      BY <2>2
    <3>9. WorkOK(m)'
      BY <3>3, <3>4, <3>5, <3>6, <3>7, <3>8 DEF WorkOK
    <3> QED
      BY <3>1, <3>9
  <2>4. \E i \in DOMAIN w : chat!IsAnswer(w[i])'
    BY <1>0, <2>2, <2>5 DEF StreamOK
  <2> QED
    BY <1>0, <2>1, <2>3, <2>4, <2>5 DEF StreamOK
<1> QED
  BY <1>4, <1>5, <1>6 DEF ChatInv

\* What arrives, and what the page does not hear of.
LEMMA ArrivalKeeps ==
    ASSUME ChatInv, chat!Token \/ chat!DoneEvent \/ chat!BodyEnds \/ chat!Reload
    PROVE  ChatInv'
<1>0. /\ stream # None /\ stream \in StreamRecords /\ answer \in Answers
      /\ stream.turn \in Turns /\ answer[stream.turn].outcome = "open"
      /\ \E i \in DOMAIN stream.work : chat!IsAnswer(stream.work[i])
  <2>1. stream # None
    BY DEF chat!Token, chat!DoneEvent, chat!BodyEnds, chat!Reload
  <2> QED
    BY <2>1 DEF ChatInv, StreamOK, PageOK, StreamRecords
<1>1. /\ stream.buffer \in Nat /\ answer[stream.turn].chunks \in Nat /\ MaxChunks \in Nat
  BY <1>0, ChatAssumption DEF StreamRecords, Answers
<1>2. CASE chat!Token
  <2>1. PICK k : k = stream.turn
    OBVIOUS
  <2>2. PICK old : old = answer[k]
    OBVIOUS
  <2>3. PICK new : new = [old EXCEPT !.chunks = @ + 1]
    OBVIOUS
  <2>4. /\ answer' = [answer EXCEPT ![k] = new] /\ old.chunks < MaxChunks
        /\ stream' = [stream EXCEPT !.buffer = @ + 1]
        /\ UNCHANGED <<session, store, made, asked>>
    BY <1>2, <2>1, <2>2, <2>3 DEF chat!Token
  <2>5. /\ old \in [outcome : chat!Outcomes, chunks : 0..MaxChunks]
    BY <1>0, <2>1, <2>2 DEF Answers
  <2>6. /\ new \in [outcome : chat!Outcomes, chunks : 0..MaxChunks]
        /\ new.outcome = old.outcome /\ new.chunks = old.chunks + 1
    BY <1>1, <2>3, <2>4, <2>5
  <2>7. stream.buffer <= old.chunks
    <3>1. PICK a : a = chat!Current
      OBVIOUS
    <3>2. a.text \in Nat /\ a.text + stream.buffer = answer[stream.turn].chunks
      BY <1>0, <3>1, CurrentShows
    <3> QED
      BY <1>1, <2>1, <2>2, <3>2
  <2>8. stream.buffer + 1 \in 0..MaxChunks
    BY <1>1, <2>4, <2>5, <2>7
  <2>9. /\ stream' \in StreamRecords /\ stream'.conv = stream.conv
        /\ stream'.turn = stream.turn /\ stream'.owner = stream.owner
        /\ stream'.work = stream.work /\ stream'.buffer = stream.buffer + 1
    BY <1>0, <2>4, <2>8 DEF StreamRecords
  <2>10. /\ answer' \in Answers /\ answer'[k] = new
         /\ \A t \in Turns \ {k} : answer'[t] = answer[t]
    BY <1>0, <2>1, <2>4, <2>6 DEF Answers
  <2>11. Waits
    BY <1>0, <1>1, <2>1, <2>2, <2>4, <2>6, <2>9, <2>10 DEF Waits
  <2> QED
    BY <2>11, WaitKeeps
<1>3. CASE chat!DoneEvent \/ chat!BodyEnds
  <2>1. /\ answer' = answer /\ UNCHANGED <<session, store, made, asked>>
        /\ \/ stream' = [stream EXCEPT !.done = TRUE]
           \/ stream' = [stream EXCEPT !.open = FALSE]
    BY <1>3 DEF chat!DoneEvent, chat!BodyEnds
  <2>2. /\ stream' \in StreamRecords /\ stream'.conv = stream.conv
        /\ stream'.turn = stream.turn /\ stream'.owner = stream.owner
        /\ stream'.work = stream.work /\ stream'.buffer = stream.buffer
    BY <1>0, <2>1 DEF StreamRecords
  <2>3. Waits
    BY <1>0, <1>1, <2>1, <2>2 DEF Waits
  <2> QED
    BY <2>3, WaitKeeps
<1>4. CASE chat!Reload
  <2>1. /\ answer' = [answer EXCEPT ![stream.turn].outcome = "lost"] /\ stream' = None
        /\ UNCHANGED <<session, store, made, asked>>
    BY <1>4 DEF chat!Reload
  <2>2. PICK lost \in chat!Outcomes : lost = "lost"
    BY DEF chat!Outcomes
  <2>3. /\ answer' \in Answers
        /\ answer'[stream.turn].outcome = lost
        /\ answer'[stream.turn].chunks = answer[stream.turn].chunks
        /\ \A t \in Turns \ {stream.turn} : answer'[t] = answer[t]
    BY <1>0, <2>1, <2>2, OutcomeIs
  <2>4. Waits
    BY <1>0, <1>1, <2>1, <2>2, <2>3 DEF Waits
  <2> QED
    BY <2>4, WaitKeeps
<1> QED
  BY <1>2, <1>3, <1>4

\* Every action of the page and every event of a stream keeps the invariant.
LEMMA ChatStep == ChatInv /\ [chat!Next]_(chat!vars) => ChatInv'
<1> SUFFICES ASSUME ChatInv, [chat!Next]_(chat!vars) PROVE ChatInv'
  OBVIOUS
<1>1. CASE (\E u \in Users : chat!SignIn(u)) \/ chat!SignOut \/ chat!NewChat
          \/ (\E c \in ConvIds : chat!Pick(c))
  BY <1>1, ConversationsKeep
<1>2. CASE chat!Send
  BY <1>2, SendKeeps
<1>3. CASE chat!ExportAnswer
  BY <1>3, ExportKeeps
<1>4. CASE \E i \in 1..2 * MaxTurns : chat!Regenerate(i)
  BY <1>4, RegenerateKeeps
<1>5. CASE \E i \in 1..2 * MaxTurns : chat!Rate(i)
  BY <1>5, RateKeeps
<1>6. CASE chat!Token \/ chat!DoneEvent \/ chat!BodyEnds \/ chat!Reload
  BY <1>6, ArrivalKeeps
<1>7. CASE chat!Tick
  BY <1>7, TickKeeps
<1>8. CASE chat!ToolEvent
  BY <1>8, ToolEventKeeps
<1>9. CASE chat!Finish
  BY <1>9, FinishKeeps
<1>10. CASE chat!StopAnswer
  BY <1>10, StopKeeps
<1>11. CASE chat!Expire \/ chat!Fail
  BY <1>11, FailureKeeps
<1>12. CASE UNCHANGED chat!vars
  <2>1. UNCHANGED <<session, store, made, asked, stream, answer>>
    BY <1>12 DEF chat!vars
  <2>2. \A m : chat!IsAnswer(m)' <=> chat!IsAnswer(m)
    BY <2>1 DEF chat!IsAnswer
  <2>3. \A m : WorkOK(m)' <=> WorkOK(m)
    BY <2>1, <2>2 DEF WorkOK
  <2>4. \A c, m : StoredOK(c, m)' <=> StoredOK(c, m)
    BY <2>1 DEF StoredOK
  <2>5. PageOK' /\ AllStored'
    BY <2>1, <2>4 DEF ChatInv, PageOK, AllStored
  <2>6. StreamOK'
    BY <2>1, <2>2, <2>3 DEF ChatInv, StreamOK, Has
  <2> QED
    BY <2>5, <2>6 DEF ChatInv
<1> QED
  BY <1>1, <1>2, <1>3, <1>4, <1>5, <1>6, <1>7, <1>8, <1>9, <1>10, <1>11, <1>12, ChatCopies
     DEF chat!Next

-----------------------------------------------------------------------------
(* The sidebar, the projects page and the settings. *)

\* The sidebar's own copies of the operations of the conversation store.
LEMMA SidebarCopies ==
    /\ workspace!ConvIds = ConvIds /\ workspace!EmptyStore = EmptyStore
    /\ \A S : workspace!Cardinality(S) = Cardinality(S)
    /\ \A f, k, v : workspace!Put(f, k, v) = Put(f, k, v)
    /\ \A s, S : workspace!Filter(s, S) = Filter(s, S)
    /\ \A s : workspace!Elements(s) = Elements(s)
    /\ \A s, c : workspace!Has(s, c) <=> Has(s, c)
    /\ \A s, c, o, p : workspace!NewConversation(s, c, o, p) = NewConversation(s, c, o, p)
    /\ \A s, c : workspace!SelectConversation(s, c) = SelectConversation(s, c)
    /\ \A s, c : workspace!DeleteConversation(s, c) = DeleteConversation(s, c)
    /\ \A s, c, t : workspace!RenameConversation(s, c, t) = RenameConversation(s, c, t)
    /\ \A s, c, b : workspace!PinConversation(s, c, b) = PinConversation(s, c, b)
    /\ \A s, c, b : workspace!ArchiveConversation(s, c, b) = ArchiveConversation(s, c, b)
    /\ \A s, c, p : workspace!SetConversationProject(s, c, p) = SetConversationProject(s, c, p)
    /\ \A s, c, m, o : workspace!SetMessages(s, c, m, o) = SetMessages(s, c, m, o)
    /\ \A s, c : workspace!SetTitleFromFirstMessage(s, c) = SetTitleFromFirstMessage(s, c)
<1> USE DEF workspace!Put, Put, workspace!Filter, Filter, workspace!Elements, Elements,
            workspace!Has, Has, workspace!Without, Without, workspace!ToFront, ToFront,
            workspace!Conversation, Conversation
<1>1. workspace!ConvIds = ConvIds /\ workspace!EmptyStore = EmptyStore
  BY DEF workspace!ConvIds, ConvIds, workspace!EmptyStore, EmptyStore
<1>2. \A S : workspace!Cardinality(S) = Cardinality(S)
  BY DEF workspace!Cardinality, Cardinality
<1>3. /\ \A f, k, v : workspace!Put(f, k, v) = Put(f, k, v)
      /\ \A s, S : workspace!Filter(s, S) = Filter(s, S)
      /\ \A s : workspace!Elements(s) = Elements(s)
      /\ \A s, c : workspace!Has(s, c) <=> Has(s, c)
  OBVIOUS
<1>4. \A s, c, o, p : workspace!NewConversation(s, c, o, p) = NewConversation(s, c, o, p)
  BY DEF workspace!NewConversation, NewConversation
<1>5. \A s, c : workspace!SelectConversation(s, c) = SelectConversation(s, c)
  BY DEF workspace!SelectConversation, SelectConversation
<1>6. \A s, c : workspace!DeleteConversation(s, c) = DeleteConversation(s, c)
  BY DEF workspace!DeleteConversation, DeleteConversation
<1>7. \A s, c, t : workspace!RenameConversation(s, c, t) = RenameConversation(s, c, t)
  BY DEF workspace!RenameConversation, RenameConversation
<1>8. \A s, c, b : workspace!PinConversation(s, c, b) = PinConversation(s, c, b)
  BY DEF workspace!PinConversation, PinConversation
<1>9. \A s, c, b : workspace!ArchiveConversation(s, c, b) = ArchiveConversation(s, c, b)
  BY DEF workspace!ArchiveConversation, ArchiveConversation
<1>10. \A s, c, p : workspace!SetConversationProject(s, c, p) = SetConversationProject(s, c, p)
  BY DEF workspace!SetConversationProject, SetConversationProject
<1>11. \A s, c, m, o : workspace!SetMessages(s, c, m, o) = SetMessages(s, c, m, o)
  BY DEF workspace!SetMessages, SetMessages
<1>12. \A s, c : workspace!SetTitleFromFirstMessage(s, c) = SetTitleFromFirstMessage(s, c)
  BY DEF workspace!SetTitleFromFirstMessage, SetTitleFromFirstMessage,
     workspace!RenameConversation, RenameConversation
<1> QED
  BY <1>1, <1>2, <1>3, <1>4, <1>5, <1>6, <1>7, <1>8, <1>9, <1>10, <1>11, <1>12

SidebarTypes ==
    /\ session \in Users \cup {None} /\ made \in 0..MaxConvs /\ planned \in 0..MaxProjects
    /\ DOMAIN projects \subseteq 1..planned /\ \A p \in DOMAIN projects : projects[p] \in Users
    /\ project \in {None} \cup DOMAIN projects
    /\ renaming \in {None} \cup ConvIds /\ archived \in BOOLEAN

\* Messages are not kept here.
NoMessages == {<<>>}
SidebarInv == SidebarTypes /\ StoreOK(store, made, NoMessages)

\* The invariant has the types of the model.
LEMMA SidebarIsTyped == SidebarInv => workspace!TypeOK
<1> SUFFICES ASSUME SidebarInv PROVE workspace!TypeOK
  OBVIOUS
<1>1. \A c \in DOMAIN store.convs : store.convs[c] \in workspace!ConversationRecords
  BY DEF SidebarInv, StoreOK, NoMessages, Threads, workspace!ConversationRecords,
     workspace!ProjectIds
<1> QED
  BY <1>1, SidebarCopies DEF SidebarInv, SidebarTypes, StoreOK, workspace!TypeOK

\* The rows of an order that names every conversation once.
LEMMA OrderIsShown == Ordered(store) => workspace!OrderIsComplete
<1> SUFFICES ASSUME Ordered(store) PROVE workspace!OrderIsComplete
  OBVIOUS
<1>1. PICK order : order = store.order
  OBVIOUS
<1>2. PICK D : D = DOMAIN store.convs
  OBVIOUS
<1>3. order \in Seq(D) /\ Distinct(order) /\ Elements(order) = D
  BY <1>1, <1>2 DEF Ordered
<1>4. IsFiniteSet(D) /\ Len(order) = Cardinality(D)
  BY <1>3, LengthIsCount
<1>5. PICK P : P = workspace!Pinned
  OBVIOUS
<1>6. PICK R : R = workspace!Listed \ workspace!Pinned
  OBVIOUS
<1>7. P \subseteq D /\ R \subseteq D /\ P \cap R = {} /\ workspace!Listed = P \cup R
  BY <1>2, <1>5, <1>6 DEF workspace!Pinned, workspace!Listed
<1>8. ASSUME NEW S, S \subseteq D
      PROVE  /\ Filter(order, S) \in Seq(D) /\ IsFiniteSet(S)
             /\ Len(Filter(order, S)) = Cardinality(S)
  <2>1. PICK kept : kept = Filter(order, S)
    OBVIOUS
  <2>2. kept \in Seq(D) /\ Distinct(kept) /\ Elements(kept) = Elements(order) \cap S
    BY <1>3, <2>1, FilterKeeps
  <2>3. Elements(kept) = S
    BY <1>3, <1>8, <2>2
  <2>4. IsFiniteSet(Elements(kept)) /\ Len(kept) = Cardinality(Elements(kept))
    BY <2>2, LengthIsCount
  <2> QED
    BY <2>1, <2>2, <2>3, <2>4
<1>9. PICK p : p = Filter(order, P)
  OBVIOUS
<1>10. PICK r : r = Filter(order, R)
  OBVIOUS
<1>11. /\ p \in Seq(D) /\ r \in Seq(D) /\ IsFiniteSet(P) /\ IsFiniteSet(R)
       /\ Len(p) = Cardinality(P) /\ Len(r) = Cardinality(R)
  BY <1>7, <1>8, <1>9, <1>10
<1>12. Cardinality(P \cup R) = Cardinality(P) + Cardinality(R)
  <2>1. /\ Cardinality(P \cup R) = Cardinality(P) + Cardinality(R) - Cardinality(P \cap R)
        /\ Cardinality(P) \in Nat /\ Cardinality(R) \in Nat
    BY <1>11, FS_Union, FS_CardinalityType
  <2>2. Cardinality(P \cap R) = 0
    BY <1>7, FS_EmptySet
  <2> QED
    BY <2>1, <2>2
<1>13. Len(workspace!Grouped) = Cardinality(workspace!Listed)
  <2>1. workspace!Grouped = p \o r
    BY <1>1, <1>5, <1>6, <1>9, <1>10, SidebarCopies DEF workspace!Grouped
  <2>2. Len(p \o r) = Len(p) + Len(r)
    BY <1>11
  <2> QED
    BY <1>7, <1>11, <1>12, <2>1, <2>2
<1>14. {store.order[i] : i \in DOMAIN store.order} = DOMAIN store.convs
  BY <1>1, <1>2, <1>3 DEF Elements
<1> QED
  BY <1>1, <1>2, <1>4, <1>13, <1>14, SidebarCopies DEF workspace!OrderIsComplete

\* The sidebar before anybody signed in.
LEMMA SidebarInit == workspace!Init => SidebarInv
<1> SUFFICES ASSUME workspace!Init PROVE SidebarInv
  OBVIOUS
<1>1. SidebarTypes
  <2>1. DOMAIN projects = {} /\ archived \in BOOLEAN
    <3>1. projects = <<>> /\ archived = FALSE
      BY DEF workspace!Init
    <3>2. DOMAIN projects = {}
      BY <3>1
    <3>3. archived \in BOOLEAN
      BY <3>1
    <3> QED
      BY <3>2, <3>3
  <2>2. made \in 0..MaxConvs /\ planned \in 0..MaxProjects
    BY ChatAssumption DEF workspace!Init
  <2> QED
    BY <2>1, <2>2 DEF workspace!Init, SidebarTypes
<1>2. StoreOK(store, made, NoMessages)
  BY EmptyIsOK, SidebarCopies DEF workspace!Init
<1> QED
  BY <1>1, <1>2 DEF SidebarInv

\* Every action of the sidebar and of the pages beside it keeps the invariant.
LEMMA SidebarStep == SidebarInv /\ [workspace!Next]_(workspace!vars) => SidebarInv'
<1> SUFFICES ASSUME SidebarInv, [workspace!Next]_(workspace!vars) PROVE SidebarInv'
  OBVIOUS
<1> USE ChatAssumption DEF workspace!chats, workspace!works, workspace!sidebar
<1>0. SidebarTypes /\ StoreOK(store, made, NoMessages) /\ made \in Nat
  BY DEF SidebarInv, SidebarTypes
<1>m. <<>> \in NoMessages
  BY DEF NoMessages
<1>a. ASSUME UNCHANGED <<store, made>> PROVE StoreOK(store, made, NoMessages)'
  BY <1>0, <1>a DEF StoreOK, Ordered
<1>b. ASSUME NEW t, StoreOK(t, made, NoMessages), store' = t, made' = made
      PROVE  StoreOK(store, made, NoMessages)'
  BY <1>b DEF StoreOK, Ordered
<1>c. ASSUME session' \in Users \cup {None}, made' = made,
          UNCHANGED <<projects, planned, project>>,
             renaming' \in {renaming, None}, archived' \in {archived, FALSE}
      PROVE  SidebarTypes'
  BY <1>0, <1>c DEF SidebarTypes
<1>s. ASSUME NEW c \in DOMAIN store.convs PROVE c \in 1..made /\ c \in ConvIds
  BY <1>0 DEF StoreOK, SidebarTypes, ConvIds
<1>1. ASSUME NEW u \in Users, workspace!SignIn(u) PROVE SidebarInv'
  BY <1>1, <1>a, <1>c DEF workspace!SignIn, SidebarInv
<1>2. CASE workspace!SignOut
  <2>1. StoreOK(store', made, NoMessages)
    BY <1>0, <1>2, SelectKeeps, SidebarCopies DEF workspace!SignOut
  <2>2. SidebarTypes'
    BY <1>2, <1>c DEF workspace!SignOut
  <2> QED
    BY <1>2, <1>b, <2>1, <2>2 DEF workspace!SignOut, SidebarInv
<1>3. CASE workspace!Expire
  BY <1>3, <1>a, <1>c DEF workspace!Expire, SidebarInv
<1>4. CASE workspace!NewChat
  <2>1. workspace!ActiveProject \in (1..MaxProjects) \cup {None} /\ session \in Users
    BY <1>0, <1>4 DEF workspace!NewChat, workspace!ActiveProject, workspace!OwnProject,
       SidebarTypes
  <2>2. StoreOK(store', made + 1, NoMessages)
    <3>1. Opens(store, made, NoMessages, session, workspace!ActiveProject)
      BY <1>0, <1>m, <2>1 DEF Opens
    <3> QED
      BY <1>4, <3>1, NewKeeps, SidebarCopies DEF workspace!NewChat
  <2>3. StoreOK(store, made, NoMessages)'
    BY <1>4, <2>2 DEF workspace!NewChat, StoreOK, Ordered
  <2>4. SidebarTypes'
    BY <1>0, <1>4 DEF workspace!NewChat, SidebarTypes
  <2> QED
    BY <2>3, <2>4 DEF SidebarInv
<1>5. ASSUME NEW c \in ConvIds, workspace!Answer(c) PROVE SidebarInv'
  <2>1. c \in DOMAIN store.convs /\ c \in 1..made /\ session \in Users
    BY <1>0, <1>5, <1>s, SidebarCopies DEF workspace!Answer, Has, SidebarTypes
  <2>2. PICK t : t = SetMessages(store, c, <<>>, session)
    OBVIOUS
  <2>3. StoreOK(t, made, NoMessages)
    <3>1. Takes(store, made, NoMessages, c, <<>>, session)
      BY <1>0, <1>m, <2>1 DEF Takes
    <3> QED
      BY <2>2, <3>1, SetMessagesKeeps
  <2>4. store' = SetTitleFromFirstMessage(t, c)
    BY <1>5, <2>2, SidebarCopies DEF workspace!Answer
  <2>5. StoreOK(store', made, NoMessages)
    BY <2>3, <2>4, TitleKeeps
  <2>6. SidebarTypes'
    BY <1>0, <1>5, <1>c DEF workspace!Answer, SidebarTypes
  <2> QED
    BY <1>5, <1>b, <2>5, <2>6 DEF workspace!Answer, SidebarInv
<1>6. ASSUME NEW c \in ConvIds, workspace!OpenRow(c) PROVE SidebarInv'
  <2>1. c \in DOMAIN store.convs
    BY <1>6 DEF workspace!OpenRow, workspace!Listed
  <2>2. StoreOK(store', made, NoMessages)
    BY <1>0, <1>6, <2>1, SelectKeeps, SidebarCopies DEF workspace!OpenRow
  <2>3. SidebarTypes'
    BY <1>0, <1>6, <1>c DEF workspace!OpenRow, SidebarTypes
  <2> QED
    BY <1>6, <1>b, <2>2, <2>3 DEF workspace!OpenRow, SidebarInv
<1>7. CASE workspace!ToggleArchived
  <2>1. SidebarTypes'
    BY <1>0, <1>7 DEF workspace!ToggleArchived, SidebarTypes
  <2> QED
    BY <1>7, <1>a, <2>1 DEF workspace!ToggleArchived, SidebarInv
<1>8. ASSUME NEW c \in ConvIds, workspace!RowMenu(c) PROVE SidebarInv'
  <2>1. c \in DOMAIN store.convs /\ archived \in BOOLEAN /\ store.convs[c].pinned \in BOOLEAN
    BY <1>0, <1>8 DEF workspace!RowMenu, workspace!Listed, SidebarTypes, StoreOK, Threads
  <2>2. ASSUME store' = PinConversation(store, c, ~store.convs[c].pinned)
        PROVE  StoreOK(store', made, NoMessages)
    <3>1. PICK b \in BOOLEAN : b = ~store.convs[c].pinned
      BY <2>1
    <3>2. store' = PinConversation(store, c, b)
      BY <2>2, <3>1
    <3> QED
      BY <1>0, <2>1, <3>2, PinKeeps
  <2>3. ASSUME store' = ArchiveConversation(store, c, ~archived)
        PROVE  StoreOK(store', made, NoMessages)
    <3>1. PICK b \in BOOLEAN : b = ~archived
      BY <2>1
    <3>2. store' = ArchiveConversation(store, c, b)
      BY <2>3, <3>1
    <3> QED
      BY <1>0, <2>1, <3>2, ArchiveKeeps
  <2>4. ASSUME store' = DeleteConversation(store, c)
        PROVE  StoreOK(store', made, NoMessages)
    BY <1>0, <2>4, DeleteKeeps
  <2>5. StoreOK(store', made, NoMessages)
    BY <1>8, <2>2, <2>3, <2>4, SidebarCopies DEF workspace!RowMenu
  <2>6. SidebarTypes'
    BY <1>0, <1>8, <1>c DEF workspace!RowMenu, SidebarTypes
  <2> QED
    BY <1>8, <1>b, <2>5, <2>6 DEF workspace!RowMenu, SidebarInv
<1>9. ASSUME NEW c \in ConvIds, workspace!StartRename(c) PROVE SidebarInv'
  <2>1. SidebarTypes'
    BY <1>0, <1>9 DEF workspace!StartRename, SidebarTypes
  <2> QED
    BY <1>9, <1>a, <2>1 DEF workspace!StartRename, SidebarInv
<1>10. CASE workspace!EndRename
  <2>1. SidebarTypes'
    BY <1>0, <1>10, <1>c DEF workspace!EndRename, SidebarTypes
  <2>2. CASE UNCHANGED store
    BY <1>10, <1>a, <2>1, <2>2 DEF workspace!EndRename, SidebarInv
  <2>3. ASSUME NEW title \in {"new", "named"}, renaming \in workspace!Listed,
               store' = RenameConversation(store, renaming, title)
        PROVE  SidebarInv'
    <3>1. PICK c : c = renaming
      OBVIOUS
    <3>2. c \in DOMAIN store.convs /\ store' = RenameConversation(store, c, title)
      BY <2>3, <3>1 DEF workspace!Listed
    <3>3. StoreOK(store', made, NoMessages)
      BY <1>0, <3>2, RenameKeeps
    <3> QED
      BY <1>10, <1>b, <2>1, <3>3 DEF workspace!EndRename, SidebarInv
  <2> QED
    BY <1>10, <2>2, <2>3, SidebarCopies DEF workspace!EndRename
<1>11. CASE workspace!ExitProject
  <2>1. SidebarTypes'
    BY <1>0, <1>11 DEF workspace!ExitProject, SidebarTypes
  <2> QED
    BY <1>11, <1>a, <2>1 DEF workspace!ExitProject, SidebarInv
<1>12. ASSUME NEW p \in workspace!ProjectIds, workspace!AddToProject(p) PROVE SidebarInv'
  <2>1. PICK c : c = store.active
    OBVIOUS
  <2>2. /\ c \in DOMAIN store.convs /\ p \in (1..MaxProjects) \cup {None}
        /\ store' = SetConversationProject(store, c, p)
    BY <1>12, <2>1, SidebarCopies DEF workspace!AddToProject, Has, workspace!ProjectIds
  <2>3. StoreOK(store', made, NoMessages)
    BY <1>0, <2>2, SetProjectKeeps
  <2>4. SidebarTypes'
    BY <1>0, <1>12 DEF workspace!AddToProject, workspace!OwnProject, SidebarTypes
  <2> QED
    BY <1>12, <1>b, <2>3, <2>4 DEF workspace!AddToProject, SidebarInv
<1>13. CASE workspace!NewProject
  <2>1. /\ DOMAIN projects' = DOMAIN projects \cup {planned + 1}
        /\ \A p \in DOMAIN projects' : projects'[p] = IF p
             = planned + 1 THEN session ELSE projects[p]
    BY <1>13, SidebarCopies DEF workspace!NewProject, Put
  <2>2. /\ session \in Users /\ planned' = planned + 1 /\ project' = planned + 1
        /\ planned + 1 \in 0..MaxProjects /\ planned \in Nat
    BY <1>0, <1>13 DEF workspace!NewProject, SidebarTypes
  <2>3. /\ DOMAIN projects' \subseteq 1..planned'
             /\ \A p \in DOMAIN projects' : projects'[p] \in Users
        /\ project' \in DOMAIN projects'
    BY <1>0, <2>1, <2>2 DEF SidebarTypes
  <2>4. SidebarTypes'
    BY <1>0, <1>13, <2>2, <2>3 DEF workspace!NewProject, SidebarTypes
  <2> QED
    BY <1>13, <1>a, <2>4 DEF workspace!NewProject, SidebarInv
<1>14. ASSUME NEW p \in workspace!ProjectIds, workspace!OpenProject(p) PROVE SidebarInv'
  <2>1. SidebarTypes'
    BY <1>0, <1>14 DEF workspace!OpenProject, workspace!OwnProject, SidebarTypes
  <2> QED
    BY <1>14, <1>a, <2>1 DEF workspace!OpenProject, SidebarInv
<1>15. ASSUME NEW p \in workspace!ProjectIds, workspace!DeleteProject(p) PROVE SidebarInv'
  <2>1. SidebarTypes'
    BY <1>0, <1>15 DEF workspace!DeleteProject, SidebarTypes
  <2> QED
    BY <1>15, <1>a, <2>1 DEF workspace!DeleteProject, SidebarInv
<1>16. CASE workspace!ClearAllChats
  <2>1. PICK E : E = workspace!Exported.convs
    OBVIOUS
  <2>2. PICK S : S = Elements(store.order) \ E
    OBVIOUS
  <2>3. PICK R : R = DOMAIN store.convs \ E
    OBVIOUS
  <2>4. PICK rest : rest = Filter(store.order, S)
    OBVIOUS
  <2>5. Orders(rest, R)
    <3>1. Ordered(store) /\ Less(R, DOMAIN store.convs, E) /\ Less(S, Elements(store.order), E)
      BY <1>0, <2>2, <2>3 DEF StoreOK, Less
    <3> QED
      BY <2>4, <3>1, RestOrdered
  <2>6. PICK t : t = store'
    OBVIOUS
  <2>7. /\ t.convs = [c \in R |-> store.convs[c]] /\ t.order = rest
        /\ t.active = IF store.active \notin E THEN store.active
                      ELSE IF rest = <<>> THEN None ELSE rest[1]
        /\ t = [convs |-> t.convs, order |-> t.order, active |-> t.active]
    BY <1>16, <2>1, <2>2, <2>3, <2>4, <2>6, SidebarCopies DEF workspace!ClearAllChats
  <2>8. /\ DOMAIN t.convs = R /\ t.active \in {None} \cup DOMAIN t.convs
        /\ \A c \in DOMAIN t.convs : t.convs[c] = store.convs[c]
    BY <1>0, <2>3, <2>5, <2>7 DEF StoreOK, Orders
  <2>9. Ordered(t)
    BY <2>5, <2>7, <2>8 DEF Ordered, Orders
  <2>10. StoreOK(t, made, NoMessages)
    BY <1>0, <2>3, <2>7, <2>8, <2>9 DEF StoreOK
  <2>11. SidebarTypes'
    BY <1>0, <1>16, <1>c DEF workspace!ClearAllChats, SidebarTypes
  <2> QED
    BY <1>16, <1>b, <2>6, <2>10, <2>11 DEF workspace!ClearAllChats, SidebarInv
<1>17. CASE UNCHANGED workspace!vars
  <2>1. SidebarTypes'
    BY <1>0, <1>17 DEF workspace!vars, SidebarTypes
  <2> QED
    BY <1>17, <1>a, <2>1 DEF workspace!vars, SidebarInv
<1> QED
  BY SidebarCopies, <1>1, <1>2, <1>3, <1>4, <1>5, <1>6, <1>7, <1>8, <1>9, <1>10, <1>11, <1>12,
     <1>13,
     <1>14, <1>15, <1>16, <1>17 DEF workspace!Next

-----------------------------------------------------------------------------
(* Both views of the store, whichever screen is shown. *)

\* The screen of a behaviour stays, and with it whose actions the store sees.
LEMMA StoreStep ==
    [Next]_vars =>
      /\ page' = page
      /\ page = "chat" => [chat!Next]_(chat!vars)
      /\ page = "workspace" => [workspace!Next]_(workspace!vars)
      /\ page \notin {"chat", "workspace"} => UNCHANGED <<store, made>>
BY DEF Next, ChatNext, WorkspaceNext, ComposerNext, ResearchNext, LearningNext, MembershipNext,
   OnboardingNext, AccountsNext, TasksNext, DocumentsNext, EmissionsNext, PermitNext, FieldNext,
   vars, desk, office, mobile, conversations, chats, arrangement, chat!vars, workspace!vars

\* The chat page writes to the store or the sidebar does; where neither does it
\* has no messages.
StoreInv ==
    /\ page = "chat" => ChatInv
    /\ page = "workspace" => SidebarInv
    /\ page # "chat" => StoreOK(store, made, NoMessages)

\* Every behaviour of the screens keeps the store.
LEMMA StoreHolds == Spec => []StoreInv
<1>1. Init => StoreInv
  <2>1. Init => StoreOK(store, made, NoMessages)
    BY EmptyIsOK, ChatCopies DEF Init, chat!Init
  <2> QED
    BY <2>1, ChatInit, SidebarInit DEF Init, StoreInv
<1>2. StoreInv /\ [Next]_vars => StoreInv'
  <2> SUFFICES ASSUME StoreInv, [Next]_vars PROVE StoreInv'
    OBVIOUS
  <2>1. page' = page
    BY StoreStep
  <2>2. CASE page = "chat"
    BY <2>1, <2>2, StoreStep, ChatStep DEF StoreInv
  <2>3. CASE page = "workspace"
    <3>1. SidebarInv'
      BY <2>3, StoreStep, SidebarStep DEF StoreInv
    <3> QED
      BY <2>1, <2>3, <3>1 DEF StoreInv, SidebarInv
  <2>4. CASE page \notin {"chat", "workspace"}
    <3>1. UNCHANGED <<store, made>> /\ StoreOK(store, made, NoMessages)
      BY <2>4, StoreStep DEF StoreInv
    <3>2. StoreOK(store, made, NoMessages)'
      BY <3>1 DEF StoreOK, Ordered
    <3> QED
      BY <2>1, <2>4, <3>2 DEF StoreInv
  <2> QED
    BY <2>2, <2>3, <2>4
<1> QED
  BY <1>1, <1>2, PTL DEF Spec

\* A store without messages.
LEMMA NothingWritten ==
    ASSUME StoreOK(store, made, NoMessages)
    PROVE  \A c \in DOMAIN store.convs : DOMAIN store.convs[c].messages = {}
<1> SUFFICES ASSUME NEW c \in DOMAIN store.convs PROVE DOMAIN store.convs[c].messages = {}
  OBVIOUS
<1>1. store.convs[c].messages = <<>>
  BY DEF StoreOK, Threads, NoMessages
<1> QED
  BY <1>1

\* On the chat page, everything is of the type its model gives it.
THEOREM ChatTypes == Spec => [](page = "chat" => chat!TypeOK)
<1>1. StoreInv => (page = "chat" => chat!TypeOK)
  BY ChatIsTyped DEF StoreInv
<1> QED
  BY <1>1, StoreHolds, PTL

\* On the pages with the sidebar, everything is of the type its model gives it.
THEOREM SidebarTypesHold == Spec => [](page = "workspace" => workspace!TypeOK)
<1>1. StoreInv => (page = "workspace" => workspace!TypeOK)
  BY SidebarIsTyped DEF StoreInv
<1> QED
  BY <1>1, StoreHolds, PTL

\* Whoever signs in after whom, whichever conversations are deleted and whenever
\* the chunks of an answer arrive: every message of a conversation is its
\* owner's (ChatClient.tsx, setMessages of conversations.ts).
THEOREM TurnsStayWithTheirOwner == Spec => []OwnTurnsOnly
<1>1. StoreInv => OwnTurnsOnly
  <2>1. page # "chat" /\ StoreInv => chat!OwnTurnsOnly
    BY NothingWritten DEF StoreInv, chat!OwnTurnsOnly
  <2> QED
    BY <2>1, ChatKeepsOwners DEF StoreInv, OwnTurnsOnly
<1> QED
  BY <1>1, StoreHolds, PTL

\* An answer never shows more than what arrived, and when it has ended shows all
\* of it, unless it was stopped or its stream lost; and one shown as streaming has
\* a stream that will settle it (the buffer and the timer of ChatClient.tsx).
THEOREM AnswersShowWhatArrived == Spec => []ShowsWhatArrived
<1>1. StoreInv => ShowsWhatArrived
  <2>1. page # "chat" /\ StoreInv => chat!ShowsWhatArrived
    BY NothingWritten DEF StoreInv, chat!ShowsWhatArrived
  <2>2. page # "chat" /\ StoreInv => chat!StreamingHasStream
    BY NothingWritten DEF StoreInv, chat!StreamingHasStream
  <2> QED
    BY <2>1, <2>2, ChatShowsAll DEF StoreInv, ShowsWhatArrived
<1> QED
  BY <1>1, StoreHolds, PTL

\* The order of the conversations names each of them exactly once, and the
\* sidebar has one row for each that it lists, after any sequence of the setters
\* of conversations.ts, those of the chat page included.
THEOREM OrderStaysComplete == Spec => []OrderIsComplete
<1>1. StoreInv => OrderIsComplete
  <2>1. StoreInv => Ordered(store)
    BY DEF StoreInv, ChatInv, PageOK, StoreOK
  <2> QED
    BY <2>1, OrderIsShown DEF OrderIsComplete
<1> QED
  BY <1>1, StoreHolds, PTL

-----------------------------------------------------------------------------
(* The composer. *)

\* What there is of a draft goes with the composer, and a prompt waits only
\* while there is none.
Closed ==
    /\ mounted => pending = {}
    /\ ~mounted => text = {} /\ files = {} /\ reading = {} /\ voice = "off"
    /\ voice = "off" => base = {} /\ heard = {}

\* Whatever is anywhere in the draft was entered.
WasEntered ==
    /\ text \subseteq entered /\ files \subseteq entered /\ pending \subseteq entered
    /\ base \subseteq entered /\ heard \subseteq entered
    /\ \A fs \in reading : fs \subseteq entered

\* A file is being read for one selection, and not while it is attached.
ReadOnce ==
    /\ \A fs \in reading : fs \cap files = {}
    /\ \A fs, gs \in reading : fs # gs => fs \cap gs = {}

\* A piece has left the composer with the message it went out in.
Left(p) ==
    /\ p \in entered /\ p \notin text /\ p \notin files /\ p \notin pending
    /\ \A fs \in reading : p \notin fs
    /\ voice = "on" => p \notin base /\ p \notin heard
UsedOnce ==
    \A p \in composer!Pieces :
       \/ uses[p] = 0
       \/ p \in entered /\ p \in late
       \/ uses[p] = 1 /\ Left(p)
UsesCounted == \A p \in composer!Pieces : uses[p] <= sent

ComposerInv == composer!TypeOK /\ Closed /\ WasEntered /\ ReadOnce /\ UsedOnce /\ UsesCounted

\* The composer before anything was entered.
LEMMA DraftInit == composer!Init => ComposerInv
<1> SUFFICES ASSUME composer!Init PROVE ComposerInv
  OBVIOUS
<1>1. composer!TypeOK
  <2>1. uses \in [composer!Pieces -> 0..MaxMessages]
    BY ComposerAssumption DEF composer!Init
  <2>2. /\ mounted \in BOOLEAN /\ sending \in BOOLEAN
        /\ voice \in {"off", "on", "stopping"}
    BY DEF composer!Init
  <2>4. sent \in 0..MaxMessages
    BY ComposerAssumption DEF composer!Init
  <2>3. /\ text \subseteq composer!Pieces \ Files /\ files \subseteq Files
             /\ reading \subseteq SUBSET Files
        /\ base \subseteq composer!Pieces \ Files /\ heard \subseteq Spoken
        /\ pending \subseteq Prompts /\ entered \subseteq composer!Pieces
             /\ late \subseteq composer!Pieces
    BY DEF composer!Init
  <2> QED
    BY <2>1, <2>2, <2>3, <2>4, Zenon DEF composer!TypeOK
<1>2. Closed /\ WasEntered /\ ReadOnce /\ UsesCounted
  BY DEF composer!Init, Closed, WasEntered, ReadOnce, UsesCounted
<1>3. UsedOnce
  <2>1. \A p \in composer!Pieces : uses[p] = 0
    BY DEF composer!Init
  <2> QED
    BY <2>1, Zenon DEF UsedOnce
<1> QED
  BY <1>1, <1>2, <1>3 DEF ComposerInv

\* Every step of the composer keeps the invariant.
LEMMA DraftStep == ComposerInv /\ [composer!Next]_(composer!vars) => ComposerInv'
<1> SUFFICES ASSUME ComposerInv, [composer!Next]_(composer!vars) PROVE ComposerInv'
  OBVIOUS
<1> USE DEF ComposerInv
<1>1. ASSUME NEW p \in Prompts, composer!UseInChat(p) PROVE ComposerInv'
  <2>1. composer!TypeOK'
    BY <1>1, ComposerAssumption DEF composer!UseInChat, composer!TypeOK, composer!Pieces,
       Closed, composer!history, composer!draft, composer!speech
  <2>2. Closed'
    BY <1>1, ComposerAssumption DEF composer!UseInChat, Closed, composer!history,
       composer!draft, composer!speech
  <2>3. WasEntered'
    BY <1>1, ComposerAssumption DEF composer!UseInChat, WasEntered, Closed, composer!history,
       composer!draft, composer!speech
  <2>4. ReadOnce'
    BY <1>1, ComposerAssumption DEF composer!UseInChat, ReadOnce, WasEntered, Closed,
       composer!history, composer!draft, composer!speech
  <2>5. UsedOnce'
    BY <1>1, ComposerAssumption DEF composer!UseInChat, UsedOnce, Left, WasEntered,
       composer!TypeOK, Closed, composer!history, composer!draft, composer!speech
  <2>6. UsesCounted'
    BY <1>1, ComposerAssumption DEF composer!UseInChat, UsesCounted, composer!TypeOK, Closed,
       composer!history, composer!draft, composer!speech
  <2> QED
    BY <2>1, <2>2, <2>3, <2>4, <2>5, <2>6
<1>2. CASE composer!Mount
  <2>1. composer!TypeOK'
    BY <1>2, ComposerAssumption DEF composer!Mount, composer!TypeOK, composer!Pieces, Closed,
       composer!history, composer!draft, composer!speech
  <2>2. Closed'
    BY <1>2, ComposerAssumption DEF composer!Mount, Closed, composer!history, composer!draft,
       composer!speech
  <2>3. WasEntered'
    BY <1>2, ComposerAssumption DEF composer!Mount, WasEntered, Closed, composer!history,
       composer!draft, composer!speech
  <2>4. ReadOnce'
    BY <1>2, ComposerAssumption DEF composer!Mount, ReadOnce, WasEntered, Closed,
       composer!history, composer!draft, composer!speech
  <2>5. UsedOnce'
    BY <1>2, ComposerAssumption DEF composer!Mount, UsedOnce, Left, WasEntered, composer!TypeOK,
       Closed, composer!history, composer!draft, composer!speech
  <2>6. UsesCounted'
    BY <1>2, ComposerAssumption DEF composer!Mount, UsesCounted, composer!TypeOK, Closed,
       composer!history, composer!draft, composer!speech
  <2> QED
    BY <2>1, <2>2, <2>3, <2>4, <2>5, <2>6
<1>3. CASE composer!Unmount
  <2>1. composer!TypeOK'
    BY <1>3, ComposerAssumption DEF composer!Unmount, composer!TypeOK, composer!Pieces, Closed,
       composer!history, composer!draft, composer!speech
  <2>2. Closed'
    BY <1>3, ComposerAssumption DEF composer!Unmount, Closed, composer!history, composer!draft,
       composer!speech
  <2>3. WasEntered'
    BY <1>3, ComposerAssumption DEF composer!Unmount, WasEntered, Closed, composer!history,
       composer!draft, composer!speech
  <2>4. ReadOnce'
    BY <1>3, ComposerAssumption DEF composer!Unmount, ReadOnce, WasEntered, Closed,
       composer!history, composer!draft, composer!speech
  <2>5. UsedOnce'
    BY <1>3, ComposerAssumption DEF composer!Unmount, UsedOnce, Left, WasEntered,
       composer!TypeOK, Closed, composer!history, composer!draft, composer!speech
  <2>6. UsesCounted'
    BY <1>3, ComposerAssumption DEF composer!Unmount, UsesCounted, composer!TypeOK, Closed,
       composer!history, composer!draft, composer!speech
  <2> QED
    BY <2>1, <2>2, <2>3, <2>4, <2>5, <2>6
<1>4. ASSUME NEW p \in Typed \cup Prompts, composer!Type(p) PROVE ComposerInv'
  <2>1. composer!TypeOK'
    BY <1>4, ComposerAssumption DEF composer!Type, composer!TypeOK, composer!Pieces,
       composer!history, composer!draft, composer!speech
  <2>2. Closed'
    BY <1>4, ComposerAssumption DEF composer!Type, Closed, composer!history, composer!draft,
       composer!speech
  <2>3. WasEntered'
    BY <1>4, ComposerAssumption DEF composer!Type, WasEntered, composer!history, composer!draft,
       composer!speech
  <2>4. ReadOnce'
    BY <1>4, ComposerAssumption DEF composer!Type, ReadOnce, WasEntered, composer!history,
       composer!draft, composer!speech
  <2>5. UsedOnce'
    BY <1>4, ComposerAssumption DEF composer!Type, UsedOnce, Left, WasEntered, composer!TypeOK,
       composer!history, composer!draft, composer!speech
  <2>6. UsesCounted'
    BY <1>4, ComposerAssumption DEF composer!Type, UsesCounted, composer!TypeOK,
       composer!history, composer!draft, composer!speech
  <2> QED
    BY <2>1, <2>2, <2>3, <2>4, <2>5, <2>6
<1>5. CASE composer!StartVoice
  <2>1. composer!TypeOK'
    BY <1>5, ComposerAssumption DEF composer!StartVoice, composer!TypeOK, composer!Pieces,
       composer!history, composer!draft, composer!speech
  <2>2. Closed'
    BY <1>5, ComposerAssumption DEF composer!StartVoice, Closed, composer!history,
       composer!draft, composer!speech
  <2>3. WasEntered'
    BY <1>5, ComposerAssumption DEF composer!StartVoice, WasEntered, composer!history,
       composer!draft, composer!speech
  <2>4. ReadOnce'
    BY <1>5, ComposerAssumption DEF composer!StartVoice, ReadOnce, WasEntered, composer!history,
       composer!draft, composer!speech
  <2>5. UsedOnce'
    BY <1>5, ComposerAssumption DEF composer!StartVoice, UsedOnce, Left, WasEntered,
       composer!TypeOK, composer!history, composer!draft, composer!speech
  <2>6. UsesCounted'
    BY <1>5, ComposerAssumption DEF composer!StartVoice, UsesCounted, composer!TypeOK,
       composer!history, composer!draft, composer!speech
  <2> QED
    BY <2>1, <2>2, <2>3, <2>4, <2>5, <2>6
<1>6. CASE composer!StopVoice
  <2>1. composer!TypeOK'
    BY <1>6, ComposerAssumption DEF composer!StopVoice, composer!TypeOK, composer!Pieces,
       composer!history, composer!draft, composer!speech
  <2>2. Closed'
    BY <1>6, ComposerAssumption DEF composer!StopVoice, Closed, composer!history,
       composer!draft, composer!speech
  <2>3. WasEntered'
    BY <1>6, ComposerAssumption DEF composer!StopVoice, WasEntered, composer!history,
       composer!draft, composer!speech
  <2>4. ReadOnce'
    BY <1>6, ComposerAssumption DEF composer!StopVoice, ReadOnce, WasEntered, composer!history,
       composer!draft, composer!speech
  <2>5. UsedOnce'
    BY <1>6, ComposerAssumption DEF composer!StopVoice, UsedOnce, Left, WasEntered,
       composer!TypeOK, composer!history, composer!draft, composer!speech
  <2>6. UsesCounted'
    BY <1>6, ComposerAssumption DEF composer!StopVoice, UsesCounted, composer!TypeOK,
       composer!history, composer!draft, composer!speech
  <2> QED
    BY <2>1, <2>2, <2>3, <2>4, <2>5, <2>6
<1>7. ASSUME NEW P \in SUBSET Spoken, composer!Hear(P) PROVE ComposerInv'
  <2>1. composer!TypeOK'
    BY <1>7, ComposerAssumption DEF composer!Hear, composer!TypeOK, composer!Pieces,
       composer!history, composer!draft, composer!speech
  <2>2. Closed'
    BY <1>7, ComposerAssumption DEF composer!Hear, Closed, composer!history, composer!draft,
       composer!speech
  <2>3. WasEntered'
    BY <1>7, ComposerAssumption DEF composer!Hear, WasEntered, composer!history, composer!draft,
       composer!speech
  <2>4. ReadOnce'
    BY <1>7, ComposerAssumption DEF composer!Hear, ReadOnce, WasEntered, composer!history,
       composer!draft, composer!speech
  <2>5. UsedOnce'
    <3> SUFFICES ASSUME NEW p \in composer!Pieces
                 PROVE  \/ uses'[p] = 0 \/ (p \in entered' /\ p \in late')
                        \/ uses'[p] = 1 /\ Left(p)'
      BY Zenon DEF UsedOnce
    <3>1. uses' = uses /\ entered' = entered \cup P /\ reading' = reading
      BY <1>7 DEF composer!Hear
    <3>2. CASE uses[p] = 0
      BY <3>1, <3>2
    <3>3. CASE p \in entered /\ p \in late
      BY <1>7, <3>1, <3>3 DEF composer!Hear
    <3>4. CASE uses[p] = 1 /\ Left(p)
      <4>1. p \in entered /\ p \notin P
        BY <1>7, <3>4 DEF composer!Hear, Left
      <4>2. CASE voice = "stopping"
        <5>1. p \in text' => p \in late'
          BY <1>7, <4>2 DEF composer!Hear
        <5>2. p \notin text' => Left(p)'
          BY <1>7, <3>1, <3>4, <4>1, <4>2 DEF composer!Hear, Left
        <5> QED
          BY <3>1, <3>4, <4>1, <5>1, <5>2
      <4>3. CASE voice = "on"
        <5>1. Left(p)'
          BY <1>7, <3>1, <3>4, <4>1, <4>3 DEF composer!Hear, Left
        <5> QED
          BY <3>1, <3>4, <5>1
      <4> QED
        BY <1>7, <4>2, <4>3 DEF composer!Hear, composer!TypeOK
    <3> QED
      BY <3>2, <3>3, <3>4 DEF UsedOnce
  <2>6. UsesCounted'
    BY <1>7, ComposerAssumption DEF composer!Hear, UsesCounted, composer!TypeOK,
       composer!history, composer!draft, composer!speech
  <2> QED
    BY <2>1, <2>2, <2>3, <2>4, <2>5, <2>6
<1>8. CASE composer!VoiceEnds
  <2>1. composer!TypeOK'
    BY <1>8, ComposerAssumption DEF composer!VoiceEnds, composer!TypeOK, composer!Pieces,
       composer!history, composer!draft, composer!speech
  <2>2. Closed'
    BY <1>8, ComposerAssumption DEF composer!VoiceEnds, Closed, composer!history,
       composer!draft, composer!speech
  <2>3. WasEntered'
    BY <1>8, ComposerAssumption DEF composer!VoiceEnds, WasEntered, composer!history,
       composer!draft, composer!speech
  <2>4. ReadOnce'
    BY <1>8, ComposerAssumption DEF composer!VoiceEnds, ReadOnce, WasEntered, composer!history,
       composer!draft, composer!speech
  <2>5. UsedOnce'
    BY <1>8, ComposerAssumption DEF composer!VoiceEnds, UsedOnce, Left, WasEntered,
       composer!TypeOK, composer!history, composer!draft, composer!speech
  <2>6. UsesCounted'
    BY <1>8, ComposerAssumption DEF composer!VoiceEnds, UsesCounted, composer!TypeOK,
       composer!history, composer!draft, composer!speech
  <2> QED
    BY <2>1, <2>2, <2>3, <2>4, <2>5, <2>6
<1>9. ASSUME NEW fs \in SUBSET Files, composer!AddFiles(fs) PROVE ComposerInv'
  <2>1. composer!TypeOK'
    BY <1>9, ComposerAssumption DEF composer!AddFiles, composer!TypeOK, composer!Pieces,
       composer!history, composer!draft, composer!speech
  <2>2. Closed'
    BY <1>9, ComposerAssumption DEF composer!AddFiles, Closed, composer!history, composer!draft,
       composer!speech
  <2>3. WasEntered'
    BY <1>9, ComposerAssumption DEF composer!AddFiles, WasEntered, composer!history,
       composer!draft, composer!speech
  <2>4. ReadOnce'
    BY <1>9, ComposerAssumption DEF composer!AddFiles, ReadOnce, WasEntered, composer!history,
       composer!draft, composer!speech
  <2>5. UsedOnce'
    BY <1>9, ComposerAssumption DEF composer!AddFiles, UsedOnce, Left, WasEntered,
       composer!TypeOK, composer!history, composer!draft, composer!speech
  <2>6. UsesCounted'
    BY <1>9, ComposerAssumption DEF composer!AddFiles, UsesCounted, composer!TypeOK,
       composer!history, composer!draft, composer!speech
  <2> QED
    BY <2>1, <2>2, <2>3, <2>4, <2>5, <2>6
<1>10. ASSUME NEW fs \in reading, composer!FilesRead(fs) PROVE ComposerInv'
  <2>1. composer!TypeOK'
    BY <1>10, ComposerAssumption DEF composer!FilesRead, composer!TypeOK, composer!Pieces,
       composer!history, composer!draft, composer!speech
  <2>2. Closed'
    BY <1>10, ComposerAssumption DEF composer!FilesRead, Closed, composer!history,
       composer!draft, composer!speech
  <2>3. WasEntered'
    BY <1>10, ComposerAssumption DEF composer!FilesRead, WasEntered, composer!history,
       composer!draft, composer!speech
  <2>4. ReadOnce'
    BY <1>10, ComposerAssumption DEF composer!FilesRead, ReadOnce, WasEntered, composer!history,
       composer!draft, composer!speech
  <2>5. UsedOnce'
    BY <1>10, ComposerAssumption DEF composer!FilesRead, UsedOnce, Left, WasEntered,
       composer!TypeOK, composer!history, composer!draft, composer!speech
  <2>6. UsesCounted'
    BY <1>10, ComposerAssumption DEF composer!FilesRead, UsesCounted, composer!TypeOK,
       composer!history, composer!draft, composer!speech
  <2> QED
    BY <2>1, <2>2, <2>3, <2>4, <2>5, <2>6
<1>11. ASSUME NEW f \in Files, composer!RemoveAttachment(f) PROVE ComposerInv'
  <2>1. composer!TypeOK'
    BY <1>11, ComposerAssumption DEF composer!RemoveAttachment, composer!TypeOK,
       composer!Pieces, composer!history, composer!draft, composer!speech
  <2>2. Closed'
    BY <1>11, ComposerAssumption DEF composer!RemoveAttachment, Closed, composer!history,
       composer!draft, composer!speech
  <2>3. WasEntered'
    BY <1>11, ComposerAssumption DEF composer!RemoveAttachment, WasEntered, composer!history,
       composer!draft, composer!speech
  <2>4. ReadOnce'
    BY <1>11, ComposerAssumption DEF composer!RemoveAttachment, ReadOnce, WasEntered,
       composer!history, composer!draft, composer!speech
  <2>5. UsedOnce'
    BY <1>11, ComposerAssumption DEF composer!RemoveAttachment, UsedOnce, Left, WasEntered,
       composer!TypeOK, composer!history, composer!draft, composer!speech
  <2>6. UsesCounted'
    BY <1>11, ComposerAssumption DEF composer!RemoveAttachment, UsesCounted, composer!TypeOK,
       composer!history, composer!draft, composer!speech
  <2> QED
    BY <2>1, <2>2, <2>3, <2>4, <2>5, <2>6
<1>12. CASE composer!Submit
  <2>1. composer!TypeOK'
    <3>1. uses' \in [composer!Pieces -> 0..MaxMessages]
      <4>1. \A p \in composer!Pieces : uses[p] \in Nat /\ uses[p] + 1 <= MaxMessages
        BY <1>12, ComposerAssumption DEF composer!Submit, composer!TypeOK, UsesCounted
      <4> QED
        BY <1>12, <4>1, ComposerAssumption DEF composer!Submit, composer!TypeOK
    <3> QED
      BY <1>12, <3>1, ComposerAssumption DEF composer!Submit, composer!TypeOK, composer!history,
         composer!draft, composer!speech
  <2>2. Closed'
    BY <1>12, ComposerAssumption DEF composer!Submit, Closed, composer!history, composer!draft,
       composer!speech
  <2>3. WasEntered'
    BY <1>12, ComposerAssumption DEF composer!Submit, WasEntered, Closed, composer!history,
       composer!draft, composer!speech
  <2>4. ReadOnce'
    BY <1>12, ComposerAssumption DEF composer!Submit, ReadOnce, WasEntered, Closed,
       composer!history, composer!draft, composer!speech
  <2>5. UsedOnce'
    <3> SUFFICES ASSUME NEW p \in composer!Pieces
                 PROVE  \/ uses'[p] = 0 \/ (p \in entered' /\ p \in late')
                        \/ uses'[p] = 1 /\ Left(p)'
      BY Zenon DEF UsedOnce
    <3>1. /\ uses'[p] = IF p \in text \cup files THEN uses[p] + 1 ELSE uses[p]
          /\ text' = {} /\ files' = {} /\ voice' # "on"
          /\ entered' = entered /\ reading' = reading /\ pending' = {} /\ late' = late
      BY <1>12 DEF composer!Submit, Closed
    <3>2. CASE p \in text \cup files
      <4>1. uses[p] = 0 \/ (p \in entered /\ p \in late)
        BY <3>2 DEF UsedOnce, Left
      <4>2. \A fs \in reading : p \notin fs
        BY <3>2 DEF ReadOnce, composer!TypeOK
      <4>3. p \in entered
        BY <3>2 DEF WasEntered
      <4> QED
        BY <3>1, <3>2, <4>1, <4>2, <4>3 DEF Left
    <3>3. CASE p \notin text \cup files
      BY <3>1, <3>3 DEF UsedOnce, Left
    <3> QED
      BY <3>2, <3>3
  <2>6. UsesCounted'
    BY <1>12, ComposerAssumption DEF composer!Submit, UsesCounted, composer!TypeOK, Closed,
       composer!history, composer!draft, composer!speech
  <2> QED
    BY <2>1, <2>2, <2>3, <2>4, <2>5, <2>6
<1>13. CASE composer!Suggest
  <2>1. composer!TypeOK'
    BY <1>13, ComposerAssumption DEF composer!Suggest, composer!TypeOK, composer!Pieces,
       composer!history, composer!draft, composer!speech
  <2>2. Closed'
    BY <1>13, ComposerAssumption DEF composer!Suggest, Closed, composer!history, composer!draft,
       composer!speech
  <2>3. WasEntered'
    BY <1>13, ComposerAssumption DEF composer!Suggest, WasEntered, composer!history,
       composer!draft, composer!speech
  <2>4. ReadOnce'
    BY <1>13, ComposerAssumption DEF composer!Suggest, ReadOnce, WasEntered, composer!history,
       composer!draft, composer!speech
  <2>5. UsedOnce'
    BY <1>13, ComposerAssumption DEF composer!Suggest, UsedOnce, Left, WasEntered,
       composer!TypeOK, composer!history, composer!draft, composer!speech
  <2>6. UsesCounted'
    BY <1>13, ComposerAssumption DEF composer!Suggest, UsesCounted, composer!TypeOK,
       composer!history, composer!draft, composer!speech
  <2> QED
    BY <2>1, <2>2, <2>3, <2>4, <2>5, <2>6
<1>14. CASE composer!AnswerEnds
  <2>1. composer!TypeOK'
    BY <1>14, ComposerAssumption DEF composer!AnswerEnds, composer!TypeOK, composer!Pieces,
       composer!history, composer!draft, composer!speech
  <2>2. Closed'
    BY <1>14, ComposerAssumption DEF composer!AnswerEnds, Closed, composer!history,
       composer!draft, composer!speech
  <2>3. WasEntered'
    BY <1>14, ComposerAssumption DEF composer!AnswerEnds, WasEntered, composer!history,
       composer!draft, composer!speech
  <2>4. ReadOnce'
    BY <1>14, ComposerAssumption DEF composer!AnswerEnds, ReadOnce, WasEntered,
       composer!history, composer!draft, composer!speech
  <2>5. UsedOnce'
    BY <1>14, ComposerAssumption DEF composer!AnswerEnds, UsedOnce, Left, WasEntered,
       composer!TypeOK, composer!history, composer!draft, composer!speech
  <2>6. UsesCounted'
    BY <1>14, ComposerAssumption DEF composer!AnswerEnds, UsesCounted, composer!TypeOK,
       composer!history, composer!draft, composer!speech
  <2> QED
    BY <2>1, <2>2, <2>3, <2>4, <2>5, <2>6
<1>15. CASE UNCHANGED composer!vars
  BY <1>15 DEF composer!vars, composer!draft, composer!speech, composer!history,
     composer!TypeOK, Closed, WasEntered, ReadOnce, UsedOnce, Left, UsesCounted
<1> QED
  BY <1>1, <1>2, <1>3, <1>4, <1>5, <1>6, <1>7, <1>8, <1>9, <1>10, <1>11, <1>12, <1>13, <1>14,
     <1>15 DEF composer!Next, composer!ApplyAction

\* The invariant has the types of the model.
LEMMA ComposerIsTyped == ComposerInv => composer!TypeOK
BY DEF ComposerInv

\* In the invariant, what was entered once went out once.
LEMMA ComposerSendsOnce == ComposerInv => composer!SentOnce
BY DEF ComposerInv, UsedOnce, composer!SentOnce, composer!TypeOK

\* Every behaviour of the composer keeps the invariant.
LEMMA ComposerHolds == composer!Spec => []ComposerInv
BY DraftInit, DraftStep, PTL DEF composer!Spec

\* Seen at its own variables, a behaviour of the screens is one of this model.
LEMMA ImplementsComposer == Spec => composer!Spec
<1>1. Init => composer!Init
  BY DEF Init
<1>2. [Next]_vars => [composer!Next]_(composer!vars)
  BY DEF Next, ChatNext, WorkspaceNext, ComposerNext, ResearchNext, LearningNext,
     MembershipNext, OnboardingNext, AccountsNext, TasksNext, DocumentsNext, EmissionsNext,
     PermitNext, FieldNext, vars, desk, office, mobile, draft, composer!vars, composer!draft,
     composer!speech, composer!history
<1> QED
  BY <1>1, <1>2, PTL DEF Spec, composer!Spec

\* The draft, its files and its dictation are of the types of the model.
THEOREM ComposerTypes == Spec => []composer!TypeOK
BY ComposerIsTyped, ComposerHolds, ImplementsComposer, PTL

-----------------------------------------------------------------------------
(* The documents page. *)

ShownStatuses == {"queued", "running", "done", "failed"}
DocRows == [id : documents!Ids \cup {-c : c \in documents!Cards}, status : ShownStatuses]
DocRecords == [status : ShownStatuses \cup {"deleted"}, card : DOMAIN cards]
CardRecords == [at : {"open", "submitting", "gone"}, refused : BOOLEAN]
UploadRecords ==
    [card : DOMAIN cards, id : {None} \cup [id : documents!Ids, status : documents!Begun],
     previous : Seq(DocRows), latest : BOOLEAN]
RemovalRecords == [id : documents!Ids, previous : Seq(DocRows), at : {"sent", "done"}]

ShelfTypes ==
    /\ DOMAIN ingests \subseteq documents!Ids
         /\ \A i \in DOMAIN ingests : ingests[i] \in DocRecords
    /\ cards \in Seq(CardRecords) /\ Len(cards) <= MaxCards
    /\ table \in Seq(DocRows)
    /\ poll \in [at : {"idle", "sent", "answered"}, rows : Seq(DocRows)]
    /\ uploads \subseteq UploadRecords
    /\ again \subseteq [id : documents!Ids \cup {None}, to : documents!Begun \cup {None}]
    /\ removal \in {None} \cup RemovalRecords
    /\ prefetches \subseteq [id : documents!Ids, row : {None} \cup DocRows]

DocumentsInv == ShelfTypes /\ documents!StoredOnce

\* The recursion that defines the rows of the server has a solution.
LEMMA RowRecursion ==
    \E upTo : upTo = [n \in 0..MaxDocs |->
                        IF n = 0 THEN <<>>
                        ELSE IF n \in documents!Stored
                             THEN <<documents!Row(n)>> \o upTo[n - 1]
                             ELSE upTo[n - 1]]
<1> DEFINE Solves(f, m) == f = [n \in 0..m |->
                       IF n = 0 THEN <<>>
                       ELSE IF n \in documents!Stored
                            THEN <<documents!Row(n)>> \o f[n - 1]
                            ELSE f[n - 1]]
           T == {m \in Nat : \E f : Solves(f, m)}
<1>1. 0 \in T
  <2>1. Solves([n \in 0..0 |-> <<>>], 0)
    OBVIOUS
  <2> QED
    BY <2>1
<1>2. ASSUME NEW m \in T PROVE m + 1 \in T
  <2>1. PICK f : Solves(f, m)
    OBVIOUS
  <2> DEFINE g == [n \in 0..(m + 1) |->
                     IF n = m + 1
                     THEN (IF n \in documents!Stored THEN <<documents!Row(n)>> \o f[m] ELSE f[m])
                     ELSE f[n]]
  <2>2. ASSUME NEW n \in 0..(m + 1)
        PROVE  g[n] = IF n = 0 THEN <<>>
                      ELSE IF n \in documents!Stored
                           THEN <<documents!Row(n)>> \o g[n - 1]
                           ELSE g[n - 1]
    <3>1. CASE n = m + 1
      <4>1. g[n - 1] = f[m] /\ n # 0
        BY <3>1
      <4> QED
        BY <3>1, <4>1
    <3>2. CASE n = 0
      BY <2>1, <3>2
    <3>3. CASE n # 0 /\ n # m + 1
      <4>1. n \in 0..m /\ n - 1 \in 0..m /\ n - 1 # m + 1 /\ n - 1 \in 0..(m + 1)
        BY <3>3
      <4>2. g[n] = f[n] /\ g[n - 1] = f[n - 1]
        BY <4>1
      <4>3. f[n] = IF n \in documents!Stored THEN <<documents!Row(n)>> \o f[n - 1] ELSE f[n - 1]
        BY <2>1, <3>3, <4>1
      <4> QED
        BY <3>3, <4>2, <4>3
    <3> QED
      BY <3>1, <3>2, <3>3
  <2>3. PICK h : h = g
    OBVIOUS
  <2>4. h = [n \in 0..(m + 1) |-> h[n]]
    BY <2>3
  <2>5. \A n \in 0..(m + 1) :
          h[n] = IF n = 0 THEN <<>>
                 ELSE IF n \in documents!Stored
                      THEN <<documents!Row(n)>> \o h[n - 1]
                      ELSE h[n - 1]
    BY <2>2, <2>3
  <2>6. Solves(h, m + 1)
    BY <2>4, <2>5
  <2> QED
    BY <2>6
<1>3. T \subseteq Nat
  OBVIOUS
<1>4. MaxDocs \in T
  <2> HIDE DEF T
  <2> QED
    BY <1>1, <1>2, <1>3, Induct, DocumentsAssumption
<1> QED
  BY <1>4

RowsUpTo == CHOOSE upTo : upTo = [n \in 0..MaxDocs |->
              IF n = 0 THEN <<>>
              ELSE IF n \in documents!Stored
                   THEN <<documents!Row(n)>> \o upTo[n - 1]
                   ELSE upTo[n - 1]]

\* The rows of the server are a sequence of rows.
LEMMA RowsAreRows == ShelfTypes => documents!ServerRows \in Seq(DocRows)
<1> SUFFICES ASSUME ShelfTypes PROVE documents!ServerRows \in Seq(DocRows)
  OBVIOUS
<1> DEFINE f == RowsUpTo
           T == {n \in Nat : n <= MaxDocs => f[n] \in Seq(DocRows)}
<1>1. documents!ServerRows = f[MaxDocs]
  BY DEF documents!ServerRows, RowsUpTo
<1>2. f = [n \in 0..MaxDocs |->
             IF n = 0 THEN <<>>
             ELSE IF n \in documents!Stored
                  THEN <<documents!Row(n)>> \o f[n - 1]
                  ELSE f[n - 1]]
  BY RowRecursion DEF RowsUpTo
<1> HIDE DEF f
<1>3. MaxDocs \in Nat
  BY DocumentsAssumption
<1>4. 0 \in T
  BY <1>2, <1>3
<1>5. ASSUME NEW n \in T PROVE n + 1 \in T
  <2> SUFFICES ASSUME n + 1 <= MaxDocs PROVE f[n + 1] \in Seq(DocRows)
    OBVIOUS
  <2>1. n + 1 \in 0..MaxDocs /\ n + 1 # 0 /\ (n + 1) - 1 = n /\ f[n] \in Seq(DocRows)
    BY <1>3
  <2>2. f[n + 1] = IF n + 1 \in documents!Stored THEN <<documents!Row(n + 1)>> \o f[n] ELSE f[n]
    BY <1>2, <2>1
  <2>3. n + 1 \in documents!Stored => documents!Row(n + 1) \in DocRows
    BY DEF documents!Row, documents!Stored, ShelfTypes, DocRows, DocRecords, ShownStatuses
  <2> QED
    BY <2>1, <2>2, <2>3
<1>6. MaxDocs \in T
  <2>1. T \subseteq Nat
    OBVIOUS
  <2> HIDE DEF T
  <2> QED
    BY <1>3, <1>4, <1>5, <2>1, Induct
<1> QED
  BY <1>1, <1>6

\* The model's own copies of what is said of sequences and sets.
LEMMA ShelfFilters ==
    /\ \A s, S : documents!Filter(s, S) = Filter(s, S)
    /\ \A s : documents!Elements(s) = Elements(s)
    /\ \A S : documents!Cardinality(S) = Cardinality(S)
BY DEF documents!Filter, Filter, documents!Elements, Elements, documents!Cardinality,
   Cardinality

\* A table without some rows is a table.
LEMMA WithoutKeeps ==
    ASSUME NEW t \in Seq(DocRows), NEW i
    PROVE  documents!Without(t, i) \in Seq(DocRows)
<1>1. PICK S : S = {r \in documents!Elements(t) : r.id # i}
  OBVIOUS
<1>2. documents!Filter(t, S) \in Seq(DocRows)
  BY FilterKeeps, ShelfFilters
<1> QED
  BY <1>1, <1>2 DEF documents!Without

\* A table with one row more is a table.
LEMMA ConsRow ==
    ASSUME NEW t \in Seq(DocRows), NEW r \in DocRows
    PROVE  <<r>> \o t \in Seq(DocRows)
OBVIOUS

\* The documents that were ever stored can be counted.
LEMMA IdsAreFinite == ShelfTypes => Cardinality(DOMAIN ingests) \in Nat
<1> SUFFICES ASSUME ShelfTypes PROVE Cardinality(DOMAIN ingests) \in Nat
  OBVIOUS
<1>1. IsFiniteSet(documents!Ids)
  <2>1. 1 \in Int /\ MaxDocs \in Int
    BY DocumentsAssumption
  <2> QED
    BY <2>1, FS_Interval DEF documents!Ids
<1>2. IsFiniteSet(DOMAIN ingests)
  BY <1>1, FS_Subset DEF ShelfTypes
<1> QED
  BY <1>2, FS_CardinalityType

\* The page before its first list.
LEMMA ShelfInit == documents!Init => DocumentsInv
<1> SUFFICES ASSUME documents!Init PROVE DocumentsInv
  OBVIOUS
<1>1. ShelfTypes
  BY DocumentsAssumption DEF documents!Init, ShelfTypes, documents!Sent
<1>2. documents!StoredOnce
  BY DEF documents!Init, documents!StoredOnce
<1> QED
  BY <1>1, <1>2 DEF DocumentsInv

\* The invariant has the types of the model.
LEMMA ShelfIsTyped == DocumentsInv => documents!TypeOK
<1> SUFFICES ASSUME DocumentsInv PROVE documents!TypeOK
  OBVIOUS
<1>1. DOMAIN cards \subseteq documents!Cards /\ DOMAIN table = 1..Len(table)
  BY DocumentsAssumption DEF DocumentsInv, ShelfTypes, documents!Cards
<1>2. \A i \in DOMAIN ingests :
         ingests[i] \in [status : {"queued", "running", "done", "failed", "deleted"},
             card : documents!Cards]
  BY <1>1 DEF DocumentsInv, ShelfTypes, DocRecords, ShownStatuses
<1>3. \A k \in DOMAIN table :
        /\ table[k].id \in documents!Ids \cup {-c : c \in documents!Cards}
        /\ table[k].status \in {"queued", "running", "done", "failed"}
  <2>1. \A k \in DOMAIN table : table[k] \in DocRows
    BY <1>1 DEF DocumentsInv, ShelfTypes
  <2>2. PICK I : I = documents!Ids \cup {-c : c \in documents!Cards}
    OBVIOUS
  <2>3. \A k \in DOMAIN table : table[k].id \in I /\ table[k].status \in ShownStatuses
    BY <2>1, <2>2 DEF DocRows
  <2> QED
    BY <2>2, <2>3 DEF ShownStatuses
<1>4. /\ poll.at \in {"idle", "sent", "answered"}
      /\ \A u \in uploads : u.card \in documents!Cards /\ u.latest \in BOOLEAN
  BY <1>1 DEF DocumentsInv, ShelfTypes, UploadRecords
<1>5. /\ \A q \in again : q.id \in documents!Ids \cup {None}
           /\ q.to \in documents!Begun \cup {None}
      /\ \A p \in prefetches : p.id \in documents!Ids
  BY DEF DocumentsInv, ShelfTypes
<1>6. removal # None => removal.id \in documents!Ids /\ removal.at \in {"sent", "done"}
  BY DEF DocumentsInv, ShelfTypes, RemovalRecords
<1>7. DOMAIN ingests \subseteq documents!Ids
          /\ cards \in Seq([at : {"open", "submitting", "gone"}, refused : BOOLEAN])
  BY DEF DocumentsInv, ShelfTypes, CardRecords
<1> QED
  BY <1>2, <1>3, <1>4, <1>5, <1>6, <1>7 DEF documents!TypeOK

\* A card is changed, or one is added.
LEMMA CardChanged ==
    ASSUME ShelfTypes, NEW c \in DOMAIN cards, NEW new \in CardRecords,
           cards' = [cards EXCEPT ![c] = new]
    PROVE  /\ cards' \in Seq(CardRecords) /\ Len(cards') <= MaxCards
           /\ DOMAIN cards' = DOMAIN cards /\ cards'[c] = new
           /\ \A d \in DOMAIN cards : d # c => cards'[d] = cards[d]
BY DEF ShelfTypes

\* A card that is changed is the one that was asked for.
LEMMA CardAt ==
    ASSUME ShelfTypes, NEW c \in DOMAIN cards, NEW at \in {"open", "submitting", "gone"},
           NEW new, new = [cards[c] EXCEPT !.at = at]
    PROVE  new \in CardRecords /\ new.at = at
<1>1. cards[c] \in CardRecords
  BY DEF ShelfTypes
<1> QED
  BY <1>1 DEF CardRecords

\* Every step of the page and of the server keeps the invariant.
LEMMA ShelfStep == DocumentsInv /\ [documents!Next]_(documents!vars) => DocumentsInv'
<1> SUFFICES ASSUME DocumentsInv, [documents!Next]_(documents!vars) PROVE DocumentsInv'
  OBVIOUS
<1> USE DEF documents!server, documents!page, documents!mutations
<1> USE DocumentsAssumption
<1>0. ShelfTypes /\ documents!StoredOnce
  BY DEF DocumentsInv
<1>s. ASSUME cards' = cards, uploads' \subseteq uploads,
             DOMAIN ingests' = DOMAIN ingests,
             \A i \in DOMAIN ingests : ingests'[i].card = ingests[i].card
      PROVE  documents!StoredOnce'
  BY <1>0, <1>s DEF documents!StoredOnce
<1>1. ASSUME NEW i \in documents!Ids, documents!Ingested(i) PROVE DocumentsInv'
  <2>1. PICK s \in {"running", "done", "failed"} : ingests' = [ingests EXCEPT ![i].status = s]
    BY <1>1 DEF documents!Ingested
  <2>2. PICK d : d = [ingests[i] EXCEPT !.status = s]
    OBVIOUS
  <2>3. i \in DOMAIN ingests /\ ingests[i] \in DocRecords
    BY <1>0, <1>1 DEF documents!Ingested, documents!Stored, ShelfTypes
  <2>4. d \in DocRecords /\ d.card = ingests[i].card
    BY <2>2, <2>3 DEF DocRecords, ShownStatuses
  <2>5. ingests' = [ingests EXCEPT ![i] = d]
    BY <2>1, <2>2
  <2>6. /\ DOMAIN ingests' = DOMAIN ingests
        /\ \A j \in DOMAIN ingests : ingests'[j] = IF j = i THEN d ELSE ingests[j]
    BY <2>5
  <2>7. UNCHANGED <<cards, table, poll, uploads, again, removal, prefetches>>
    BY <1>1 DEF documents!Ingested
  <2>8. ShelfTypes'
    BY <1>0, <2>4, <2>6, <2>7 DEF ShelfTypes, DocRecords, UploadRecords
  <2>9. documents!StoredOnce'
    BY <1>s, <2>4, <2>6, <2>7
  <2> QED
    BY <2>8, <2>9 DEF DocumentsInv
<1>2. CASE documents!Poll
  <2>1. documents!StoredOnce'
    BY <1>s, <1>2 DEF documents!Poll
  <2>2. ShelfTypes'
    BY <1>0, <1>2 DEF documents!Poll, ShelfTypes, documents!Sent, DocRecords, UploadRecords
  <2> QED
    BY <2>1, <2>2 DEF DocumentsInv
<1>3. CASE documents!PollServed
  <2>1. documents!StoredOnce'
    BY <1>s, <1>3 DEF documents!PollServed
  <2>2. PICK served \in Seq(DocRows) : poll' = [at |-> "answered", rows |-> served]
    BY <1>0, <1>3, RowsAreRows DEF documents!PollServed
  <2>3. ShelfTypes'
    BY <1>0, <1>3, <2>2 DEF documents!PollServed, ShelfTypes, DocRecords, UploadRecords
  <2> QED
    BY <2>1, <2>3 DEF DocumentsInv
<1>4. CASE documents!PollEnds
  <2>1. documents!StoredOnce'
    BY <1>s, <1>4 DEF documents!PollEnds
  <2>2. ShelfTypes'
    BY <1>0, <1>4 DEF documents!PollEnds, documents!Idle, ShelfTypes, DocRecords, UploadRecords
  <2> QED
    BY <2>1, <2>2 DEF DocumentsInv
<1>5. CASE documents!Drop
  <2>1. PICK new : new = [at |-> "open", refused |-> FALSE]
    OBVIOUS
  <2>2. new \in CardRecords /\ Len(cards) < MaxCards /\ cards' = Append(cards, new)
    BY <1>5, <2>1 DEF documents!Drop, CardRecords
  <2>3. /\ cards' \in Seq(CardRecords) /\ Len(cards') <= MaxCards
        /\ DOMAIN cards \subseteq DOMAIN cards'
        /\ \A c \in DOMAIN cards : cards'[c] = cards[c]
        /\ \A c \in DOMAIN cards' : c \in DOMAIN cards \/ c = Len(cards) + 1
        /\ Len(cards) + 1 \notin DOMAIN cards
    BY <1>0, <2>2 DEF ShelfTypes
  <2>4. UNCHANGED <<ingests, table, poll, uploads, again, removal, prefetches>>
    BY <1>5 DEF documents!Drop
  <2>5. /\ \A u \in uploads : u.card \in DOMAIN cards
        /\ \A i \in DOMAIN ingests : ingests[i].card \in DOMAIN cards
    BY <1>0 DEF ShelfTypes, UploadRecords, DocRecords
  <2>6. documents!StoredOnce'
    BY <1>0, <2>3, <2>4, <2>5 DEF documents!StoredOnce
  <2>7. /\ uploads' \subseteq UploadRecords'
        /\ \A i \in DOMAIN ingests' : ingests'[i] \in DocRecords'
    BY <1>0, <2>3, <2>4 DEF ShelfTypes, UploadRecords, DocRecords
  <2>8. ShelfTypes'
    BY <1>0, <2>3, <2>4, <2>7 DEF ShelfTypes
  <2> QED
    BY <2>6, <2>8 DEF DocumentsInv
<1>6. ASSUME NEW c \in DOMAIN cards, documents!CancelCard(c) PROVE DocumentsInv'
  <2>1. PICK new : new = [cards[c] EXCEPT !.at = "gone"]
    OBVIOUS
  <2>2. new \in CardRecords /\ new.at = "gone"
    BY <1>0, <2>1, CardAt
  <2>3. cards' = [cards EXCEPT ![c] = new]
    BY <1>6, <2>1 DEF documents!CancelCard
  <2>4. /\ cards' \in Seq(CardRecords) /\ Len(cards') <= MaxCards
        /\ DOMAIN cards' = DOMAIN cards /\ cards'[c] = new
        /\ \A d \in DOMAIN cards : d # c => cards'[d] = cards[d]
    BY <1>0, <2>2, <2>3, CardChanged
  <2>5. UNCHANGED <<ingests, table, poll, uploads, again, removal, prefetches>>
    BY <1>6 DEF documents!CancelCard
  <2>6. documents!StoredOnce'
    BY <1>0, <2>2, <2>4, <2>5 DEF documents!StoredOnce
  <2>7. ShelfTypes'
    BY <1>0, <2>4, <2>5 DEF ShelfTypes, DocRecords, UploadRecords
  <2> QED
    BY <2>6, <2>7 DEF DocumentsInv
<1>7. ASSUME NEW c \in DOMAIN cards, documents!Submit(c) PROVE DocumentsInv'
  <2>1. PICK new : new = [cards[c] EXCEPT !.at = "submitting"]
    OBVIOUS
  <2>2. new \in CardRecords /\ new.at = "submitting"
    BY <1>0, <2>1, CardAt
  <2>3. cards' = [cards EXCEPT ![c] = new]
    BY <1>7, <2>1 DEF documents!Submit
  <2>4. /\ cards' \in Seq(CardRecords) /\ Len(cards') <= MaxCards
        /\ DOMAIN cards' = DOMAIN cards /\ cards'[c] = new
        /\ \A d \in DOMAIN cards : d # c => cards'[d] = cards[d]
    BY <1>0, <2>2, <2>3, CardChanged
  <2>5. UNCHANGED <<ingests, again, removal, prefetches>> /\ poll' = documents!Idle
    BY <1>7 DEF documents!Submit
  <2>6. documents!Optimistic(c) \in DocRows /\ table' = <<documents!Optimistic(c)>> \o table
    <3>1. c \in documents!Cards
      BY <1>0 DEF ShelfTypes, documents!Cards
    <3> QED
      BY <1>7, <3>1 DEF documents!Submit, documents!Optimistic, DocRows, ShownStatuses
  <2>7. table' \in Seq(DocRows)
    BY <1>0, <2>6, ConsRow DEF ShelfTypes
  <2>8. PICK v : v = [card |-> c, id |-> None, previous |-> table, latest |-> TRUE]
    OBVIOUS
  <2>9. v \in UploadRecords /\ v.card = c
    BY <1>0, <2>8 DEF UploadRecords, ShelfTypes
  <2>10. /\ \A u \in uploads : /\ [u EXCEPT !.latest = FALSE] \in UploadRecords
                                /\ [u EXCEPT !.latest = FALSE].card = u.card
         /\ uploads' = {[u EXCEPT !.latest = FALSE] : u \in uploads} \cup {v}
    BY <1>0, <1>7, <2>8 DEF documents!Submit, UploadRecords, ShelfTypes
  <2>11. uploads' \subseteq UploadRecords
    BY <2>9, <2>10
  <2>12. \A w \in uploads' : w.card = c \/ \E u \in uploads : w.card = u.card
    BY <2>9, <2>10
  <2>13. documents!StoredOnce'
    BY <1>0, <2>2, <2>4, <2>5, <2>12 DEF documents!StoredOnce
  <2>14. ShelfTypes'
    BY <1>0, <2>4, <2>5, <2>7, <2>11 DEF documents!Idle, ShelfTypes, DocRecords, UploadRecords
  <2> QED
    BY <2>13, <2>14 DEF DocumentsInv
<1>8. ASSUME NEW u \in uploads, documents!Store(u) PROVE DocumentsInv'
  <2>1. PICK s \in documents!Begun :
          LET i == Cardinality(DOMAIN ingests) + 1 IN
          /\ ingests' = documents!Put(ingests, i, [status |-> s, card |-> u.card])
          /\ uploads' = (uploads \ {u}) \cup {[u EXCEPT !.id = [id |-> i, status |-> s]]}
    BY <1>8, ShelfFilters DEF documents!Store
  <2>2. PICK i : i = Cardinality(DOMAIN ingests) + 1
    OBVIOUS
  <2>3. i \in documents!Ids
    BY <1>0, <1>8, <2>2, IdsAreFinite, ShelfFilters DEF documents!Store, documents!Ids
  <2>4. PICK d : d = [status |-> s, card |-> u.card]
    OBVIOUS
  <2>5. u \in UploadRecords /\ u.card \in DOMAIN cards
    BY <1>0 DEF ShelfTypes, UploadRecords
  <2>6. d \in DocRecords /\ d.card = u.card
    BY <2>4, <2>5 DEF DocRecords, documents!Begun, ShownStatuses
  <2>7. PICK v : v = [u EXCEPT !.id = [id |-> i, status |-> s]]
    OBVIOUS
  <2>8. v \in UploadRecords /\ v.card = u.card
    BY <2>3, <2>5, <2>7 DEF UploadRecords
  <2>9. ingests' = documents!Put(ingests, i, d) /\ uploads' = (uploads \ {u}) \cup {v}
    BY <2>1, <2>2, <2>4, <2>7
  <2>10. /\ DOMAIN ingests' = DOMAIN ingests \cup {i}
         /\ \A j \in DOMAIN ingests' : ingests'[j] = IF j = i THEN d ELSE ingests[j]
    BY <2>9 DEF documents!Put
  <2>11. UNCHANGED <<cards, table, poll, again, removal, prefetches>>
    BY <1>8 DEF documents!Store
  <2>12. /\ \A w \in uploads' : \E x \in uploads : w.card = x.card
         /\ uploads' \subseteq UploadRecords
    BY <1>0, <2>8, <2>9 DEF ShelfTypes
  <2>13. documents!StoredOnce'
    BY <1>0, <2>6, <2>10, <2>11, <2>12 DEF documents!StoredOnce
  <2>14. /\ DOMAIN ingests' \subseteq documents!Ids
         /\ \A j \in DOMAIN ingests' : ingests'[j] \in DocRecords
    BY <1>0, <2>3, <2>6, <2>10 DEF ShelfTypes
  <2>15. ShelfTypes'
    BY <1>0, <2>11, <2>12, <2>14 DEF ShelfTypes, DocRecords, UploadRecords
  <2> QED
    BY <2>13, <2>15 DEF DocumentsInv
<1>9. ASSUME NEW u \in uploads, documents!UploadSucceeds(u) PROVE DocumentsInv'
  <2>1. PICK c : c = u.card
    OBVIOUS
  <2>2. u \in UploadRecords /\ c \in DOMAIN cards
            /\ u.id \in [id : documents!Ids, status : documents!Begun]
    BY <1>0, <1>9, <2>1 DEF documents!UploadSucceeds, ShelfTypes, UploadRecords
  <2>3. PICK new : new = [cards[c] EXCEPT !.at = "gone"]
    OBVIOUS
  <2>4. new \in CardRecords /\ new.at = "gone"
    BY <1>0, <2>2, <2>3, CardAt
  <2>5. cards' = [cards EXCEPT ![c] = new]
    BY <1>9, <2>1, <2>3 DEF documents!UploadSucceeds
  <2>6. /\ cards' \in Seq(CardRecords) /\ Len(cards') <= MaxCards
        /\ DOMAIN cards' = DOMAIN cards /\ cards'[c] = new
        /\ \A d \in DOMAIN cards : d # c => cards'[d] = cards[d]
    BY <1>0, <2>2, <2>4, <2>5, CardChanged
  <2>7. UNCHANGED <<ingests, poll, again, removal>> /\ uploads' = uploads \ {u}
    BY <1>9 DEF documents!UploadSucceeds
  <2>8. u.id \in DocRows
    BY <2>2 DEF DocRows, documents!Begun, ShownStatuses
  <2>9. table' \in Seq(DocRows)
    <3>1. PICK rest : rest = documents!Without(table, -u.card)
      OBVIOUS
    <3>2. rest \in Seq(DocRows)
      BY <1>0, <3>1, WithoutKeeps DEF ShelfTypes
    <3>3. table' = <<u.id>> \o rest
      BY <1>9, <3>1 DEF documents!UploadSucceeds
    <3> QED
      BY <2>8, <3>2, <3>3, ConsRow
  <2>10. prefetches' \subseteq [id : documents!Ids, row : {None} \cup DocRows]
    <3>1. PICK p : p = [id |-> u.id.id, row |-> None]
      OBVIOUS
    <3>2. p \in [id : documents!Ids, row : {None} \cup DocRows]
      BY <2>2, <3>1
    <3> QED
      BY <1>0, <1>9, <3>1, <3>2 DEF documents!UploadSucceeds, ShelfTypes
  <2>11. documents!StoredOnce'
    BY <1>0, <2>4, <2>6, <2>7 DEF documents!StoredOnce
  <2>12. ShelfTypes'
    BY <1>0, <2>6, <2>7, <2>9, <2>10 DEF ShelfTypes, DocRecords, UploadRecords
  <2> QED
    BY <2>11, <2>12 DEF DocumentsInv
<1>10. ASSUME NEW u \in uploads, documents!UploadFails(u) PROVE DocumentsInv'
  <2>1. PICK c : c = u.card
    OBVIOUS
  <2>2. c \in DOMAIN cards /\ u.previous \in Seq(DocRows)
    BY <1>0, <2>1 DEF ShelfTypes, UploadRecords
  <2>3. PICK new : new = [at |-> "open", refused |-> TRUE]
    OBVIOUS
  <2>4. new \in CardRecords /\ new.refused = TRUE
    BY <2>3 DEF CardRecords
  <2>5. cards' = [cards EXCEPT ![c] = new]
    BY <1>10, <2>1, <2>3 DEF documents!UploadFails
  <2>6. /\ cards' \in Seq(CardRecords) /\ Len(cards') <= MaxCards
        /\ DOMAIN cards' = DOMAIN cards /\ cards'[c] = new
        /\ \A d \in DOMAIN cards : d # c => cards'[d] = cards[d]
    BY <1>0, <2>2, <2>4, <2>5, CardChanged
  <2>7. /\ UNCHANGED <<ingests, poll, again, removal, prefetches>> /\ uploads' = uploads \ {u}
        /\ table' = u.previous
    BY <1>10 DEF documents!UploadFails
  <2>8. documents!StoredOnce'
    BY <1>0, <2>4, <2>6, <2>7 DEF documents!StoredOnce
  <2>9. ShelfTypes'
    BY <1>0, <2>2, <2>6, <2>7 DEF ShelfTypes, DocRecords, UploadRecords
  <2> QED
    BY <2>8, <2>9 DEF DocumentsInv
<1>11. ASSUME NEW p \in prefetches, documents!PrefetchServed(p) PROVE DocumentsInv'
  <2>1. UNCHANGED <<ingests, cards, table, poll, uploads, again, removal>>
    BY <1>11 DEF documents!PrefetchServed
  <2>2. PICK q : q = [p EXCEPT !.row = documents!Row(p.id)]
    OBVIOUS
  <2>3. p \in [id : documents!Ids, row : {None} \cup DocRows]
    BY <1>0 DEF ShelfTypes
  <2>4. p.id \in documents!Stored => q \in [id : documents!Ids, row : {None} \cup DocRows]
    <3>1. p.id \in documents!Stored => documents!Row(p.id) \in DocRows
      BY <1>0 DEF documents!Row, documents!Stored, ShelfTypes, DocRows, DocRecords,
         ShownStatuses
    <3> QED
      BY <2>2, <2>3, <3>1
  <2>5. prefetches' = (prefetches \ {p}) \cup (IF p.id \in documents!Stored THEN {q} ELSE {})
    BY <1>11, <2>2 DEF documents!PrefetchServed
  <2>6. prefetches' \subseteq [id : documents!Ids, row : {None} \cup DocRows]
    BY <1>0, <2>4, <2>5 DEF ShelfTypes
  <2>7. ShelfTypes' /\ documents!StoredOnce'
    BY <1>0, <2>1, <2>6 DEF ShelfTypes, documents!StoredOnce, DocRecords, UploadRecords
  <2> QED
    BY <2>7 DEF DocumentsInv
<1>12. ASSUME NEW p \in prefetches, documents!PrefetchArrives(p) PROVE DocumentsInv'
  <2>1. UNCHANGED <<ingests, cards, poll, uploads, again, removal>>
            /\ prefetches' \subseteq prefetches
    BY <1>12 DEF documents!PrefetchArrives
  <2>2. table' \in Seq(DocRows)
    <3>1. CASE table' = table
      BY <1>0, <3>1 DEF ShelfTypes
    <3>2. ASSUME p.row # None, table' = <<p.row>> \o table PROVE table' \in Seq(DocRows)
      <4>1. p.row \in DocRows /\ table \in Seq(DocRows)
        BY <1>0, <3>2 DEF ShelfTypes
      <4> QED
        BY <3>2, <4>1, ConsRow
    <3>3. ASSUME p.row # None, NEW k, table' = [table EXCEPT ![k] = p.row]
          PROVE  table' \in Seq(DocRows)
      <4>1. p.row \in DocRows /\ table \in Seq(DocRows)
        BY <1>0, <3>3 DEF ShelfTypes
      <4>2. Len(table) \in Nat /\ table \in [1..Len(table) -> DocRows]
        BY <4>1
      <4>3. table' \in [1..Len(table) -> DocRows]
        BY <3>3, <4>1, <4>2
      <4> QED
        BY <4>2, <4>3
    <3> QED
      BY <1>12, <3>1, <3>2, <3>3 DEF documents!PrefetchArrives
  <2>3. ShelfTypes' /\ documents!StoredOnce'
    BY <1>0, <2>1, <2>2 DEF ShelfTypes, documents!StoredOnce, DocRecords, UploadRecords
  <2> QED
    BY <2>3 DEF DocumentsInv
<1>13. ASSUME NEW i \in documents!Ids, documents!Requeue(i) PROVE DocumentsInv'
  <2>1. UNCHANGED <<ingests, cards, table, poll, uploads, removal, prefetches>>
    BY <1>13 DEF documents!Requeue
  <2>2. PICK q : q = [id |-> i, to |-> None]
    OBVIOUS
  <2>3. /\ again' = again \cup {q}
        /\ q \in [id : documents!Ids \cup {None}, to : documents!Begun \cup {None}]
    BY <1>13, <2>2 DEF documents!Requeue
  <2>4. ShelfTypes' /\ documents!StoredOnce'
    BY <1>0, <2>1, <2>3 DEF ShelfTypes, documents!StoredOnce, DocRecords, UploadRecords
  <2> QED
    BY <2>4 DEF DocumentsInv
<1>14. CASE documents!RequeueStuck
  <2>1. UNCHANGED <<ingests, cards, table, poll, uploads, removal, prefetches>>
    BY <1>14 DEF documents!RequeueStuck
  <2>2. PICK q : q = [id |-> None, to |-> None]
    OBVIOUS
  <2>3. again' = {q} /\ q \in [id : documents!Ids \cup {None}, to : documents!Begun \cup {None}]
    BY <1>14, <2>2 DEF documents!RequeueStuck
  <2>4. ShelfTypes' /\ documents!StoredOnce'
    BY <1>0, <2>1, <2>3 DEF ShelfTypes, documents!StoredOnce, DocRecords, UploadRecords
  <2> QED
    BY <2>4 DEF DocumentsInv
<1>15. ASSUME NEW q \in again, documents!RequeueServed(q) PROVE DocumentsInv'
  <2>1. PICK targets : targets
            = {i \in documents!Stored : ingests[i].status \in documents!Stuck
            /\ q.id \in {i, None}}
    OBVIOUS
  <2>2. PICK s \in documents!Begun :
          /\ ingests' = [i \in DOMAIN ingests |->
                           IF i \in targets THEN [ingests[i] EXCEPT !.status
                               = s] ELSE ingests[i]]
          /\ again' = (again \ {q}) \cup {[q EXCEPT !.to = s]}
    BY <1>15, <2>1 DEF documents!RequeueServed
  <2>3. UNCHANGED <<cards, table, poll, uploads, removal, prefetches>>
    BY <1>15 DEF documents!RequeueServed
  <2>4. PICK r : r = [q EXCEPT !.to = s]
    OBVIOUS
  <2>5. r \in [id : documents!Ids \cup {None}, to : documents!Begun \cup {None}]
            /\ again' = (again \ {q}) \cup {r}
    BY <1>0, <2>2, <2>4 DEF ShelfTypes
  <2>6. \A i \in DOMAIN ingests : /\ [ingests[i] EXCEPT !.status = s] \in DocRecords
                                  /\ [ingests[i] EXCEPT !.status = s].card = ingests[i].card
    BY <1>0 DEF ShelfTypes, DocRecords, documents!Begun, ShownStatuses
  <2>7. /\ DOMAIN ingests' = DOMAIN ingests
        /\ \A i \in DOMAIN ingests : /\ ingests'[i] \in DocRecords
                                     /\ ingests'[i].card = ingests[i].card
    BY <1>0, <2>2, <2>6 DEF ShelfTypes
  <2>8. documents!StoredOnce'
    BY <1>s, <2>3, <2>7
  <2>9. ShelfTypes'
    BY <1>0, <2>3, <2>5, <2>7 DEF ShelfTypes, DocRecords, UploadRecords
  <2> QED
    BY <2>8, <2>9 DEF DocumentsInv
<1>16. ASSUME NEW q \in again, documents!RequeueEnds(q) PROVE DocumentsInv'
  <2>1. /\ UNCHANGED <<ingests, cards, uploads, removal, prefetches>>
        /\ again' \subseteq again /\ poll' = documents!Sent
    BY <1>16 DEF documents!RequeueEnds
  <2>2. table' \in Seq(DocRows)
    <3>1. CASE table' = table
      BY <1>0, <3>1 DEF ShelfTypes
    <3>2. CASE /\ q.to # None
               /\ table' = [k \in DOMAIN table |->
                     IF table[k].id = q.id THEN [table[k] EXCEPT !.status = q.to] ELSE table[k]]
      <4>1. q.to \in ShownStatuses
        BY <1>0, <3>2 DEF ShelfTypes, documents!Begun, ShownStatuses
      <4>2. Len(table) \in Nat /\ DOMAIN table = 1..Len(table)
                /\ \A k \in DOMAIN table : table[k] \in DocRows
        BY <1>0 DEF ShelfTypes
      <4>3. \A k \in DOMAIN table : [table[k] EXCEPT !.status = q.to] \in DocRows
        BY <4>1, <4>2 DEF DocRows
      <4>4. table' \in [1..Len(table) -> DocRows]
        BY <3>2, <4>2, <4>3
      <4> QED
        BY <4>2, <4>4
    <3> QED
      BY <1>16, <3>1, <3>2 DEF documents!RequeueEnds
  <2>3. ShelfTypes' /\ documents!StoredOnce'
    BY <1>0, <2>1, <2>2 DEF ShelfTypes, documents!StoredOnce, documents!Sent, DocRecords,
       UploadRecords
  <2> QED
    BY <2>3 DEF DocumentsInv
<1>17. ASSUME NEW i \in documents!Ids, documents!Delete(i) PROVE DocumentsInv'
  <2>1. UNCHANGED <<ingests, cards, uploads, again, prefetches>> /\ poll' = documents!Idle
    BY <1>17 DEF documents!Delete
  <2>2. PICK r : r = [id |-> i, previous |-> table, at |-> "sent"]
    OBVIOUS
  <2>3. removal' = r /\ r \in RemovalRecords
    BY <1>0, <1>17, <2>2 DEF documents!Delete, RemovalRecords, ShelfTypes
  <2>4. table' \in Seq(DocRows)
    BY <1>0, <1>17, WithoutKeeps DEF documents!Delete, ShelfTypes
  <2>5. ShelfTypes' /\ documents!StoredOnce'
    BY <1>0, <2>1, <2>3, <2>4 DEF ShelfTypes, documents!StoredOnce, documents!Idle, DocRecords,
       UploadRecords
  <2> QED
    BY <2>5 DEF DocumentsInv
<1>18. CASE documents!DeleteServed
  <2>1. UNCHANGED <<cards, table, poll, uploads, again, prefetches>>
    BY <1>18 DEF documents!DeleteServed
  <2>2. PICK i : i = removal.id
    OBVIOUS
  <2>3. removal \in RemovalRecords /\ i \in DOMAIN ingests /\ ingests[i] \in DocRecords
    BY <1>0, <1>18, <2>2 DEF documents!DeleteServed, ShelfTypes, documents!Stored
  <2>4. PICK d : d = [ingests[i] EXCEPT !.status = "deleted"]
    OBVIOUS
  <2>5. d \in DocRecords /\ d.card = ingests[i].card
    BY <2>3, <2>4 DEF DocRecords
  <2>6. /\ DOMAIN ingests' = DOMAIN ingests
        /\ \A j \in DOMAIN ingests : ingests'[j] = IF j = i THEN d ELSE ingests[j]
    BY <1>18, <2>2, <2>3, <2>4 DEF documents!DeleteServed
  <2>7. removal' \in RemovalRecords
    BY <1>18, <2>3 DEF documents!DeleteServed, RemovalRecords
  <2>8. documents!StoredOnce'
    BY <1>s, <2>1, <2>5, <2>6
  <2>9. ShelfTypes'
    BY <1>0, <2>1, <2>5, <2>6, <2>7 DEF ShelfTypes, DocRecords, UploadRecords
  <2> QED
    BY <2>8, <2>9 DEF DocumentsInv
<1>19. CASE documents!DeleteEnds
  <2>1. UNCHANGED <<ingests, cards, uploads, again, prefetches>> /\ poll' = documents!Sent
            /\ removal' = None
    BY <1>19 DEF documents!DeleteEnds
  <2>2. table' \in Seq(DocRows)
    BY <1>0, <1>19 DEF documents!DeleteEnds, ShelfTypes, RemovalRecords
  <2>3. ShelfTypes' /\ documents!StoredOnce'
    BY <1>0, <2>1, <2>2 DEF ShelfTypes, documents!StoredOnce, documents!Sent, DocRecords,
       UploadRecords
  <2> QED
    BY <2>3 DEF DocumentsInv
<1>20. CASE UNCHANGED documents!vars
  BY <1>0, <1>20 DEF documents!vars, DocumentsInv, ShelfTypes, documents!StoredOnce, DocRecords,
     UploadRecords
<1> QED
  BY <1>1, <1>2, <1>3, <1>4, <1>5, <1>6, <1>7, <1>8, <1>9, <1>10, <1>11, <1>12, <1>13,
     <1>14, <1>15, <1>16, <1>17, <1>18, <1>19, <1>20 DEF documents!Next

\* Every behaviour of the page keeps the invariant.
LEMMA ShelfHolds == documents!Spec => []DocumentsInv
BY ShelfInit, ShelfStep, PTL DEF documents!Spec

\* Seen at its own variables, a behaviour of the screens is one of this model.
LEMMA ImplementsDocuments == Spec => documents!Spec
<1>1. Init => documents!Init
  BY DEF Init
<1>2. [Next]_vars => [documents!Next]_(documents!vars)
  BY DEF Next, ChatNext, WorkspaceNext, ComposerNext, ResearchNext, LearningNext,
     MembershipNext, OnboardingNext, AccountsNext, TasksNext, DocumentsNext, EmissionsNext,
     PermitNext, FieldNext, vars, desk, office, mobile, library, documents!vars
<1> QED
  BY <1>1, <1>2, PTL DEF Spec, documents!Spec

\* The table, its cards and the requests under way are of the types of the model.
THEOREM DocumentsTypes == Spec => []documents!TypeOK
BY ShelfIsTyped, ShelfHolds, ImplementsDocuments, PTL

\* What the user enters once goes out in one message, unless a recognition that
\* was to stop put it back (Composer.tsx); and a card of the documents page that
\* can be submitted, and was never refused, has no document on the server
\* (DocumentsScreen.tsx): nothing is sent or stored twice.
THEOREM NothingGoesTwice == Spec => []SentOnce
<1>1. ComposerInv /\ DocumentsInv => SentOnce
  BY ComposerSendsOnce DEF DocumentsInv, SentOnce
<1> QED
  BY <1>1, ComposerHolds, ImplementsComposer, ShelfHolds, ImplementsDocuments, PTL
=============================================================================
