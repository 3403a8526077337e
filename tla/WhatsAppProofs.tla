---------------------------- MODULE WhatsAppProofs ----------------------------
(***************************************************************************)
(* Proofs about the WhatsApp side. First WaIntake, for any messages,       *)
(* delays, jobs and bounds: how the reader splits the chat into units,     *)
(* that no message is entered twice, that the report of a ticket is a      *)
(* whole unit in the order in which it was said, and that a message that   *)
(* asks for a handler keeps one. Then WaNumber: what holds for any set of  *)
(* numbers and administrators, and what of the single connection holds for *)
(* one.                                                                    *)
(***************************************************************************)
EXTENDS WaIntake, WaNumber, WellFoundedInduction, FiniteSetTheorems, TLAPS

-----------------------------------------------------------------------------
(* The least and the greatest of a set of numbers *)

LEMMA Least ==
  ASSUME NEW S \in SUBSET Nat, S # {}
  PROVE  \E x \in S : \A y \in S : x <= y
<1> DEFINE R == {ss \in Nat \X Nat : ss[1] < ss[2]}
<1>1. IsWellFoundedOn(R, Nat)
  <2>1. OpToRel(<, Nat) = R
    BY Zenon DEF OpToRel
  <2> QED
    BY NatLessThanWellFounded, <2>1, Zenon
<1> HIDE DEF R
<1>2. PICK x \in S : \A y \in S : ~ (<<y, x>> \in R)
  BY <1>1, WFMin
<1>3. \A y \in S : x <= y
  <2>1. \A y \in S : y \in Nat
    OBVIOUS
  <2>2. \A y \in S : ~(y < x)
    BY <1>2, <2>1 DEF R
  <2> QED
    BY <2>1, <2>2
<1> QED
  BY <1>3

LEMMA MinIs ==
  ASSUME NEW S \in SUBSET Nat, S # {}
  PROVE  Min(S) \in S /\ \A y \in S : Min(S) <= y
BY Least DEF Min

LEMMA Greatest ==
  ASSUME NEW N \in Nat, NEW S \in SUBSET (0 .. N), S # {}
  PROVE  \E x \in S : \A y \in S : x >= y
<1> DEFINE Bounds == {b \in Nat : \A y \in S : y <= b}
<1>0. \A y \in S : y \in Nat /\ y <= N
  OBVIOUS
<1>1. N \in Bounds
  BY <1>0
<1>2. PICK b \in Bounds : \A c \in Bounds : b <= c
  BY <1>1, Least
<1>3. b \in S
  <2> SUFFICES ASSUME b \notin S PROVE FALSE
    OBVIOUS
  <2>1. \A y \in S : y < b
    BY <1>0, <1>2
  <2>2. b - 1 \in Bounds
    <3>1. PICK y \in S : y < b /\ y \in Nat
      BY <2>1, <1>0
    <3>2. b - 1 \in Nat
      BY <3>1
    <3>3. \A z \in S : z <= b - 1
      BY <2>1, <1>0
    <3> QED
      BY <3>2, <3>3
  <2> QED
    BY <2>2, <1>2
<1> QED
  BY <1>2, <1>3

LEMMA MaxIs ==
  ASSUME NEW N \in Nat, NEW S \in SUBSET (0 .. N), S # {}
  PROVE  Max(S) \in S /\ \A y \in S : Max(S) >= y
BY Greatest DEF Max

\* The same for messages.
LEMMA MinOf ==
  ASSUME NEW U \in SUBSET Messages, U # {}
  PROVE  Min(U) \in U /\ Min(U) \in Messages /\ \A y \in U : Min(U) <= y
<1>1. U \in SUBSET Nat /\ U \subseteq Messages
  BY DEF Messages
<1> QED
  BY <1>1, MinIs

LEMMA MaxOf ==
  ASSUME NEW U \in SUBSET Messages, U # {}
  PROVE  Max(U) \in U /\ Max(U) \in Messages /\ \A y \in U : Max(U) >= y
<1>1. MaxMessages \in Nat /\ U \in SUBSET (0 .. MaxMessages) /\ U \subseteq Messages
  BY WaAssumption DEF Messages
<1> QED
  BY <1>1, MaxIs

-----------------------------------------------------------------------------
(* The heads *)

\* Message m begins a unit of P if the heads before it are those of H.
Begins(P, H, m) ==
  LET before == {n \in P : n < m} IN
  \/ before = {}
  \/ LET current == Max({n \in before : n \in H}) IN
       StartsNewUnit({n \in before : n >= current}, m)

IsHeads(P, H) == H \subseteq P /\ \A m \in P : m \in H <=> Begins(P, H, m)

\* What comes after m says nothing about m.
LEMMA BeginsLocal ==
  ASSUME NEW P, NEW Q, NEW G, NEW H, NEW m,
         {n \in P : n < m} = {n \in Q : n < m},
         {n \in P : n < m /\ n \in G} = {n \in Q : n < m /\ n \in H}
  PROVE  Begins(P, G, m) <=> Begins(Q, H, m)
<1> DEFINE B == {n \in P : n < m}
           C == {n \in Q : n < m}
<1>1. B = C
  OBVIOUS
<1>2. {n \in B : n \in G} = {n \in C : n \in H}
  OBVIOUS
<1>3. Begins(P, G, m) <=> B = {} \/ StartsNewUnit({n \in B : n >= Max({k \in B : k \in G})}, m)
  BY DEF Begins
<1>4. Begins(Q, H, m) <=> C = {} \/ StartsNewUnit({n \in C : n >= Max({k \in C : k \in H})}, m)
  BY DEF Begins
<1> HIDE DEF B, C
<1> QED
  BY <1>1, <1>2, <1>3, <1>4

LEMMA HeadsExist ==
  ASSUME NEW P \in SUBSET Messages
  PROVE  \E H : IsHeads(P, H)
<1> DEFINE Upto(k) == {n \in P : n <= k}
           Bad == {k \in 0 .. MaxMessages : ~ \E H : IsHeads(Upto(k), H)}
<1>0. MaxMessages \in Nat /\ \A n \in P : n \in Nat /\ 1 <= n /\ n <= MaxMessages
  BY WaAssumption DEF Messages
<1>1. Upto(MaxMessages) = P
  BY <1>0
<1>2. CASE Bad = {}
  BY <1>0, <1>1, <1>2
<1>3. CASE Bad # {}
  <2>1. PICK k \in Bad : \A c \in Bad : k <= c
    <3>1. Bad \in SUBSET Nat
      BY <1>0
    <3> QED
      BY <1>3, <3>1, Least
  <2>2. k # 0
    <3>1. Upto(0) = {}
      BY <1>0
    <3>2. IsHeads({}, {})
      BY DEF IsHeads
    <3> QED
      BY <3>1, <3>2, <2>1
  <2>3. PICK G : IsHeads(Upto(k - 1), G)
    <3>0. k \in Nat /\ k <= MaxMessages
      BY <1>0
    <3>1. k - 1 \in 0 .. MaxMessages /\ ~(k <= k - 1)
      BY <3>0, <2>2, <1>0
    <3>2. k - 1 \notin Bad
      BY <3>1, <2>1
    <3> QED
      BY <3>1, <3>2
  <2> DEFINE H == G \cup {m \in Upto(k) : m = k /\ Begins(Upto(k), G, k)}
  <2>4. IsHeads(Upto(k), H)
    <3>1. H \subseteq Upto(k)
      BY <1>0, <2>1, <2>3 DEF IsHeads
    <3>2. ASSUME NEW m \in Upto(k)
          PROVE  m \in H <=> Begins(Upto(k), H, m)
      <4>1. k \in Nat /\ m \in Nat /\ m <= k /\ G \subseteq Upto(k - 1)
        BY <2>1, <2>3, <1>0 DEF Messages, IsHeads
      <4>2. k \notin G
        BY <4>1
      <4>3. {n \in Upto(k) : n < m /\ n \in H} = {n \in Upto(k) : n < m /\ n \in G}
        BY <4>1, <4>2
      <4>4. CASE m = k
        <5>1. Begins(Upto(k), H, k) <=> Begins(Upto(k), G, k)
          BY <4>3, <4>4, BeginsLocal
        <5> QED
          BY <5>1, <4>4, <4>2
      <4>5. CASE m < k
        <5>1. m \in Upto(k - 1)
          BY <4>1, <4>5
        <5>2. {n \in Upto(k) : n < m} = {n \in Upto(k - 1) : n < m}
          <6>1. k \in Nat /\ m \in Nat /\ m < k
            BY <4>1, <4>5
          <6>2. \A n \in P : (n <= k /\ n < m) <=> (n <= k - 1 /\ n < m)
            BY <6>1, <1>0
          <6> QED
            BY <6>2
        <5>3. {n \in Upto(k) : n < m /\ n \in H} = {n \in Upto(k - 1) : n < m /\ n \in G}
          BY <4>3, <5>2
        <5>4. Begins(Upto(k), H, m) <=> Begins(Upto(k - 1), G, m)
          BY <5>2, <5>3, BeginsLocal
        <5>5. m \in H <=> m \in G
          BY <4>5, <4>1
        <5> QED
          BY <5>1, <5>4, <5>5, <2>3 DEF IsHeads
      <4> QED
        BY <4>1, <4>4, <4>5
    <3> QED
      BY <3>1, <3>2 DEF IsHeads
  <2> QED
    BY <2>1, <2>4
<1> QED
  BY <1>2, <1>3

LEMMA HeadsUnique ==
  ASSUME NEW P \in SUBSET Messages, NEW G, NEW H, IsHeads(P, G), IsHeads(P, H)
  PROVE  G = H
<1> DEFINE D == {m \in P : (m \in G) # (m \in H)}
<1>1. CASE D = {}
  BY <1>1 DEF IsHeads
<1>2. CASE D # {}
  <2>1. D \in SUBSET Nat /\ \A n \in P : n \in Nat
    <3>1. \A n \in P : n \in Nat
      BY DEF Messages
    <3> QED
      BY <3>1
  <2>2. PICK m \in D : \A c \in D : m <= c
    BY <1>2, <2>1, Least
  <2>3. \A n \in P : n < m => n \notin D
    BY <2>1, <2>2
  <2>4. {n \in P : n < m /\ n \in G} = {n \in P : n < m /\ n \in H}
    BY <2>3
  <2>5. Begins(P, G, m) <=> Begins(P, H, m)
    BY <2>4, BeginsLocal
  <2> QED
    BY <2>2, <2>5 DEF IsHeads
<1> QED
  BY <1>1, <1>2

LEMMA HeadsAre ==
  ASSUME NEW P \in SUBSET Messages
  PROVE  IsHeads(P, Heads(P))
<1> DEFINE Body(f, m) ==
             LET before == {n \in P : n < m} IN
             \/ before = {}
             \/ LET current == Max({n \in before : f[n]}) IN
                  StartsNewUnit({n \in before : n >= current}, m)
           Eq(f) == f = [m \in P |-> Body(f, m)]
<1>1. PICK H : IsHeads(P, H)
  BY HeadsExist
<1> DEFINE g == [m \in P |-> m \in H]
<1>2. Eq(g)
  <2> SUFFICES ASSUME NEW m \in P PROVE (m \in H) = Body(g, m)
    OBVIOUS
  <2>1. {n \in {k \in P : k < m} : g[n]} = {n \in {k \in P : k < m} : n \in H}
    OBVIOUS
  <2>2. Begins(P, H, m) <=> Body(g, m)
    BY <2>1 DEF Begins
  <2>3. m \in H <=> Body(g, m)
    BY <2>2, <1>1 DEF IsHeads
  <2>4. Body(g, m) \in BOOLEAN
    OBVIOUS
  <2> HIDE DEF Body, g
  <2> QED
    BY <2>3, <2>4
<1> DEFINE f == CHOOSE f : Eq(f)
<1>3. Eq(f)
  BY <1>2
<1>4. Heads(P) = {m \in P : f[m]}
  BY DEF Heads
<1>5. \A m \in P : f[m] <=> Body(f, m)
  BY <1>3
<1> HIDE DEF f
<1>6. ASSUME NEW m \in P
      PROVE  m \in Heads(P) <=> Begins(P, Heads(P), m)
  <2>1. {n \in {k \in P : k < m} : f[n]} = {n \in {k \in P : k < m} : n \in Heads(P)}
    BY <1>4
  <2>2. Begins(P, Heads(P), m) <=> Body(f, m)
    BY <2>1 DEF Begins
  <2> HIDE DEF Body
  <2> QED
    BY <2>2, <1>4, <1>5
<1> QED
  BY <1>4, <1>6 DEF IsHeads

\* What is written after message k changes no head up to it.
LEMMA HeadsUpto ==
  ASSUME NEW P \in SUBSET Messages, NEW k \in Int
  PROVE  Heads({n \in P : n <= k}) = {n \in Heads(P) : n <= k}
<1> DEFINE Q == {n \in P : n <= k}
           G == {n \in Heads(P) : n <= k}
<1>0. \A n \in P : n \in Int
  BY DEF Messages
<1>1. IsHeads(P, Heads(P)) /\ IsHeads(Q, Heads(Q))
  BY HeadsAre
<1>2. ASSUME NEW m \in Q
      PROVE  m \in G <=> Begins(Q, G, m)
  <2>1. {n \in Q : n < m} = {n \in P : n < m}
    <3>1. \A n \in P : n < m => n <= k
      BY <1>0
    <3> QED
      BY <3>1
  <2>2. {n \in Q : n < m /\ n \in G} = {n \in P : n < m /\ n \in Heads(P)}
    BY <2>1
  <2>3. Begins(Q, G, m) <=> Begins(P, Heads(P), m)
    BY <2>1, <2>2, BeginsLocal
  <2> QED
    BY <2>3, <1>1 DEF IsHeads
<1>3. IsHeads(Q, G)
  BY <1>1, <1>2 DEF IsHeads
<1> QED
  BY <1>1, <1>3, HeadsUnique

\* The unit of P that begins with message h.
UnitAt(P, h) == {m \in P : m >= h /\ ~\E g \in Heads(P) : h < g /\ g <= m}

LEMMA HeadsIn ==
  ASSUME NEW P \in SUBSET Messages
  PROVE  /\ Heads(P) \subseteq P /\ Heads(P) \subseteq Nat /\ P \subseteq Nat
         /\ P # {} => Min(P) \in Heads(P)
<1>1. IsHeads(P, Heads(P))
  BY HeadsAre
<1>2. P \subseteq Nat
  BY DEF Messages
<1>3. ASSUME P # {} PROVE Min(P) \in Heads(P)
  <2>1. Min(P) \in P /\ \A y \in P : Min(P) <= y
    BY <1>3, MinOf
  <2>2. {n \in P : n < Min(P)} = {}
    <3>1. Min(P) \in Nat /\ \A n \in P : n \in Nat
      BY <2>1, <1>2
    <3> QED
      BY <2>1, <3>1
  <2>3. Begins(P, Heads(P), Min(P))
    BY <2>2 DEF Begins
  <2> QED
    BY <1>1, <2>1, <2>3 DEF IsHeads
<1> QED
  BY <1>1, <1>2, <1>3 DEF IsHeads

LEMMA UnitAtIs ==
  ASSUME NEW P \in SUBSET Messages, NEW h \in Heads(P)
  PROVE  /\ UnitAt(P, h) \subseteq P /\ h \in UnitAt(P, h) /\ Min(UnitAt(P, h)) = h
         /\ UnitAt(P, h) \in Units(P)
<1>1. h \in P /\ h \in Nat /\ \A g \in Heads(P) : g \in Nat
  BY HeadsIn
<1>2. UnitAt(P, h) \subseteq P /\ h \in UnitAt(P, h)
  BY <1>1 DEF UnitAt
<1>3. \A y \in UnitAt(P, h) : h <= y
  BY <1>1, HeadsIn DEF UnitAt
<1>4. Min(UnitAt(P, h)) = h
  <2>1. UnitAt(P, h) \in SUBSET Messages /\ UnitAt(P, h) # {}
    BY <1>2
  <2>2. Min(UnitAt(P, h)) \in UnitAt(P, h) /\ Min(UnitAt(P, h)) <= h /\ Min(UnitAt(P, h)) \in Nat
    BY <2>1, <1>2, MinOf, HeadsIn
  <2> QED
    BY <2>2, <1>3, <1>1
<1>5. UnitAt(P, h) \in Units(P)
  BY DEF UnitAt, Units
<1> QED
  BY <1>2, <1>4, <1>5

LEMMA UnitIs ==
  ASSUME NEW P \in SUBSET Messages, NEW U \in Units(P)
  PROVE  /\ U \subseteq P /\ U # {} /\ U \in SUBSET Messages
         /\ Min(U) \in Heads(P) /\ Min(U) \in U /\ U = UnitAt(P, Min(U))
<1>1. PICK h \in Heads(P) : U = UnitAt(P, h)
  BY DEF Units, UnitAt
<1> QED
  BY <1>1, UnitAtIs

\* Every message is in a unit.
LEMMA UnitsCover ==
  ASSUME NEW P \in SUBSET Messages, NEW m \in P
  PROVE  \E U \in Units(P) : m \in U
<1> DEFINE S == {h \in Heads(P) : h <= m}
<1>1. Heads(P) \subseteq P /\ Heads(P) \subseteq Nat /\ P \subseteq Nat
  BY HeadsIn
<1>2. S \in SUBSET Messages /\ S # {}
  <2>1. Min(P) \in Heads(P) /\ Min(P) <= m
    BY HeadsIn, MinOf
  <2> QED
    BY <2>1, <1>1
<1>3. Max(S) \in S /\ \A h \in S : Max(S) >= h
  BY <1>2, MaxOf
<1> HIDE DEF S
<1>4. Max(S) \in Heads(P) /\ Max(S) <= m /\ \A h \in Heads(P) : h <= m => Max(S) >= h
  BY <1>3 DEF S
<1>5. m \in UnitAt(P, Max(S))
  BY <1>1, <1>4 DEF UnitAt
<1> QED
  BY <1>4, <1>5, UnitAtIs

\* The units lie one after the other.
LEMMA UnitsApart ==
  ASSUME NEW P \in SUBSET Messages, NEW U \in Units(P), NEW V \in Units(P),
         Min(U) < Min(V), NEW u \in U, NEW v \in V
  PROVE  u < v
<1>1. /\ U = UnitAt(P, Min(U)) /\ Min(V) \in Heads(P) /\ V = UnitAt(P, Min(V))
  BY UnitIs
<1>2. u \in Nat /\ v \in Nat /\ Min(U) \in Nat /\ Min(V) \in Nat
  BY UnitIs, HeadsIn
<1>3. ~(Min(V) <= u) /\ v >= Min(V)
  BY <1>1, <1>2 DEF UnitAt
<1> QED
  BY <1>2, <1>3

\* The next head after h begins a unit because it does not join that of h.
LEMMA NextHead ==
  ASSUME NEW P \in SUBSET Messages, NEW h \in Heads(P), NEW g \in P, h < g,
         \A f \in Heads(P) : ~(h < f /\ f < g)
  PROVE  /\ g \in Heads(P) <=> StartsNewUnit({n \in P : h <= n /\ n < g}, g)
         /\ g \in Heads(P) => {n \in P : h <= n /\ n < g} = UnitAt(P, h)
<1> DEFINE B == {n \in P : n < g}
           C == {n \in B : n \in Heads(P)}
<1>1. Heads(P) \subseteq P /\ P \subseteq Nat /\ h \in P /\ \A n \in P : n \in Nat
  BY HeadsIn
<1>2. B # {} /\ h \in C /\ C \in SUBSET Messages
  BY <1>1
<1>3. Max(C) = h
  <2>1. Max(C) \in C /\ Max(C) >= h
    BY <1>2, MaxOf
  <2>2. \A c \in C : c \in Nat /\ c <= h
    BY <1>1
  <2>3. Max(C) \in Nat /\ Max(C) <= h /\ h \in Nat
    BY <2>1, <2>2, <1>1
  <2> QED
    BY <2>1, <2>3
<1>4. {n \in B : n >= Max(C)} = {n \in P : h <= n /\ n < g}
  BY <1>1, <1>3
<1>5. Begins(P, Heads(P), g) <=> StartsNewUnit({n \in B : n >= Max(C)}, g)
  BY <1>2 DEF Begins
<1>6. g \in Heads(P) <=> Begins(P, Heads(P), g)
  BY HeadsAre DEF IsHeads
<1>7. ASSUME g \in Heads(P)
      PROVE  {n \in P : h <= n /\ n < g} = UnitAt(P, h)
  <2>1. ASSUME NEW n \in P
        PROVE  (h <= n /\ n < g) <=> (n >= h /\ ~\E f \in Heads(P) : h < f /\ f <= n)
    BY <1>1, <1>7
  <2> QED
    BY <2>1 DEF UnitAt
<1> QED
  BY <1>4, <1>5, <1>6, <1>7

-----------------------------------------------------------------------------
(* Times *)

ChatType == chat \in [Messages -> Message]

\* Message m does not join U if it is a reply or U was over when it was written.
LEMMA OverByTime ==
  ASSUME ChatType, NEW U \in SUBSET Messages, U # {}, NEW m \in Messages
  PROVE  StartsNewUnit(U, m) <=> DueAt(U) < chat[m].at \/ chat[m].quotes # None
<1> DEFINE a == chat[Min(U)].at + BurstCeiling
           b == chat[Max(U)].at + BurstQuiet
<1>1. a \in Nat /\ b \in Nat /\ chat[m].at \in Nat
  BY MinOf, MaxOf, WaAssumption DEF ChatType, Message
<1>2. DueAt(U) = IF Closable(U) /\ b < a THEN b ELSE a
  BY DEF DueAt
<1>3. StartsNewUnit(U, m)
        <=> chat[m].quotes # None \/ chat[m].at > a \/ (Closable(U) /\ chat[m].at > b)
  BY DEF StartsNewUnit
<1> HIDE DEF a, b
<1>4. CASE Closable(U) /\ b < a
  BY <1>1, <1>2, <1>3, <1>4
<1>5. CASE ~(Closable(U) /\ b < a)
  BY <1>1, <1>2, <1>3, <1>5
<1> QED
  BY <1>4, <1>5

LEMMA SplitsUpto ==
  ASSUME ChatType, NEW m \in Messages, NEW U \in Units(1 .. m - 1)
  PROVE  LET over == m - 1 \notin U \/ DueAt(U) < chat[m].at IN
           IF over \/ chat[m].quotes # None THEN U \in Units(1 .. m)
           ELSE U \cup {m} \in Units(1 .. m)
<1> DEFINE P == 1 .. m
           Q == 1 .. m - 1
           h == Min(U)
<1>0. m \in Nat /\ m >= 1 /\ P \in SUBSET Messages /\ Q \in SUBSET Messages /\ m \in P
  BY WaAssumption DEF Messages
<1>1. Heads(Q) = {n \in Heads(P) : n <= m - 1}
  <2>1. {n \in P : n <= m - 1} = Q
    BY <1>0
  <2> QED
    BY <1>0, <2>1, HeadsUpto
<1>2. /\ U = UnitAt(Q, h) /\ h \in Heads(Q) /\ U \subseteq Q /\ h \in U
      /\ h \in Heads(P) /\ U # {} /\ U \in SUBSET Messages
  BY <1>0, <1>1, UnitIs
<1>3. Heads(P) \subseteq P /\ h \in Nat /\ 1 <= h /\ h <= m - 1
  BY <1>0, <1>2, HeadsIn
<1> HIDE DEF h
<1>4. CASE m - 1 \notin U
  <2>1. PICK g \in Heads(Q) : h < g /\ g <= m - 1
    BY <1>0, <1>2, <1>3, <1>4 DEF UnitAt
  <2>2. g \in Heads(P) /\ g \in Nat
    BY <1>1, <1>3, <2>1
  <2>3. ASSUME NEW n
        PROVE  n \in UnitAt(P, h) <=> n \in UnitAt(Q, h)
    <3>1. CASE n \in Q
      <4>1. n \in P /\ n \in Nat /\ n <= m - 1
        BY <1>0, <3>1
      <4>2. ASSUME NEW f \in Heads(P), f <= n PROVE f \in Heads(Q)
        BY <1>0, <1>1, <1>3, <4>1, <4>2
      <4> QED
        BY <1>1, <3>1, <4>1, <4>2 DEF UnitAt
    <3>2. CASE n \notin Q
      <4>1. n \notin UnitAt(Q, h)
        BY <3>2 DEF UnitAt
      <4>2. n \in P => n = m
        BY <1>0, <3>2
      <4>3. m \notin UnitAt(P, h)
        BY <1>0, <2>1, <2>2 DEF UnitAt
      <4> QED
        BY <4>1, <4>2, <4>3 DEF UnitAt
    <3> QED
      BY <3>1, <3>2
  <2>4. UnitAt(P, h) = U
    <3>1. UnitAt(P, h) = UnitAt(Q, h)
      BY <2>3
    <3> QED
      BY <3>1, <1>2
  <2>5. U \in Units(P)
    BY <1>0, <1>2, <2>4, UnitAtIs
  <2> QED
    BY <1>4, <2>5
<1>5. CASE m - 1 \in U
  <2>1. \A g \in Heads(P) : ~(h < g /\ g < m)
    <3>1. \A g \in Heads(Q) : ~(h < g /\ g <= m - 1)
      BY <1>2, <1>5 DEF UnitAt
    <3>2. \A g \in Heads(P) : g \in Nat
      BY <1>3
    <3> QED
      BY <1>0, <1>1, <1>3, <3>1, <3>2
  <2>2. U = {n \in P : h <= n /\ n < m}
    <3>1. ASSUME NEW n \in Q
          PROVE  n \in UnitAt(Q, h) <=> h <= n
      <4>1. ~\E g \in Heads(Q) : h < g /\ g <= n
        BY <1>0, <1>1, <1>3, <2>1
      <4> QED
        BY <4>1, <1>0, <1>3 DEF UnitAt
    <3>2. UnitAt(Q, h) = {n \in Q : h <= n}
      BY <3>1 DEF UnitAt
    <3>3. {n \in Q : h <= n} = {n \in P : h <= n /\ n < m}
      BY <1>0
    <3> QED
      BY <3>2, <3>3, <1>2
  <2>3. m \in Heads(P) <=> DueAt(U) < chat[m].at \/ chat[m].quotes # None
    <3>1. m \in Heads(P) <=> StartsNewUnit(U, m)
      BY <1>0, <1>2, <1>3, <2>1, <2>2, NextHead
    <3> QED
      BY <3>1, <1>2, OverByTime
  <2>4. CASE m \in Heads(P)
    <3>1. UnitAt(P, h) = U
      BY <1>0, <1>2, <1>3, <2>1, <2>2, <2>4, NextHead
    <3>2. U \in Units(P)
      BY <1>0, <1>2, <3>1, UnitAtIs
    <3> QED
      BY <1>5, <2>3, <2>4, <3>2
  <2>5. CASE m \notin Heads(P)
    <3>1. ASSUME NEW n \in P
          PROVE  n \in UnitAt(P, h) <=> n \in U \cup {m}
      <4>1. \A g \in Heads(P) : g \in Nat /\ g <= m /\ g # m
        BY <1>0, <1>3, <2>5
      <4>2. ~\E g \in Heads(P) : h < g /\ g <= n
        BY <1>0, <1>3, <2>1, <4>1
      <4> QED
        BY <4>2, <2>2, <1>0, <1>3 DEF UnitAt
    <3>2. UnitAt(P, h) = U \cup {m}
      BY <3>1, <1>0, <1>2 DEF UnitAt
    <3>3. UnitAt(P, h) \in Units(P)
      BY <1>0, <1>2, UnitAtIs
    <3> HIDE DEF P, Q
    <3> QED
      BY <1>5, <2>3, <2>5, <3>2, <3>3 DEF P
  <2> QED
    BY <2>4, <2>5
<1> QED
  BY <1>4, <1>5

\* The messages of a chat are ordered by the time they were written at.
InOrder(P) == \A n, m \in P : n < m => chat[n].at <= chat[m].at

\* A unit holds whatever was written soon enough after one of its messages.
LEMMA UnitIsWhole ==
  ASSUME ChatType, NEW P \in SUBSET Messages, InOrder(P), NEW U \in Units(P),
         NEW m \in U, NEW x \in P, m < x,
         chat[x].at <= chat[m].at + BurstQuiet,
         chat[x].at <= chat[Min(U)].at + BurstCeiling,
         \A y \in P : (m < y /\ y <= x) => chat[y].quotes = None
  PROVE  x \in U
<1> DEFINE h == Min(U)
           S == {g \in Heads(P) : h < g /\ g <= x}
<1> SUFFICES ASSUME x \notin U PROVE FALSE
  OBVIOUS
<1>1. /\ U \subseteq P /\ U \in SUBSET Messages /\ U # {} /\ h \in Heads(P) /\ h \in U
      /\ U = UnitAt(P, h)
  BY UnitIs
<1>2. Heads(P) \subseteq P /\ \A n \in P : n \in Nat /\ n \in Messages
  BY HeadsIn
<1>3. h <= m /\ h \in Nat /\ m \in Nat /\ x \in Nat
  BY <1>1, <1>2, MinOf
<1> HIDE DEF h
<1>4. PICK g \in S : \A f \in S : g <= f
  <2>1. S # {}
    BY <1>1, <1>3 DEF UnitAt
  <2>2. S \in SUBSET Nat
    BY <1>2
  <2> QED
    BY <2>1, <2>2, Least
<1>5. /\ g \in P /\ g \in Heads(P) /\ g \in Nat /\ h < g /\ g <= x
      /\ \A f \in Heads(P) : ~(h < f /\ f < g)
  <2>1. g \in Heads(P) /\ h < g /\ g <= x
    OBVIOUS
  <2>2. g \in P /\ g \in Nat
    BY <2>1, <1>2
  <2>3. ASSUME NEW f \in Heads(P), h < f, f < g
        PROVE  FALSE
    <3>1. f \in Nat /\ f <= x
      BY <1>2, <1>3, <2>1, <2>2, <2>3
    <3>2. g <= f
      BY <1>4, <2>3, <3>1
    <3> QED
      BY <2>2, <2>3, <3>1, <3>2
  <2> QED
    BY <2>1, <2>2, <2>3
<1>6. m < g
  BY <1>1, <1>2, <1>3, <1>5 DEF UnitAt
<1>7. StartsNewUnit(U, g)
  <2>1. StartsNewUnit({n \in P : h <= n /\ n < g}, g)
    BY <1>1, <1>5, NextHead
  <2>2. {n \in P : h <= n /\ n < g} = UnitAt(P, h)
    BY <1>1, <1>5, NextHead
  <2> QED
    BY <2>1, <2>2, <1>1
<1>8. /\ chat[g].at \in Nat /\ chat[x].at \in Nat /\ chat[m].at \in Nat
      /\ chat[Max(U)].at \in Nat /\ chat[h].at \in Nat
      /\ BurstQuiet \in Nat /\ BurstCeiling \in Nat
  BY <1>1, <1>2, <1>5, MaxOf, WaAssumption DEF ChatType, Message
<1>9. chat[g].at <= chat[x].at
  BY <1>5, <1>3, <1>8 DEF InOrder
<1>10. chat[m].at <= chat[Max(U)].at
  <2>1. Max(U) \in U /\ Max(U) >= m /\ Max(U) \in Nat
    BY <1>1, <1>2, MaxOf
  <2> QED
    BY <2>1, <1>1, <1>3, <1>8 DEF InOrder
<1>11. chat[g].quotes = None
  BY <1>5, <1>6
<1> QED
  BY <1>7, <1>8, <1>9, <1>10, <1>11 DEF StartsNewUnit, h

-----------------------------------------------------------------------------
(* Type correctness *)

JobTypes ==
  /\ jobStatus \in [Jobs -> Queue!Status] /\ jobAttempts \in [Jobs -> 0 .. MaxAttempts]
  /\ runAt \in [Jobs -> Nat]
RowTypes ==
  /\ row \in [Messages -> RowType]
  /\ \A m \in Messages : row[m].state = "DONE" <=> row[m].outcome # None
MailTypes ==
  /\ chat \in [Messages -> Message]
  /\ out \in [Messages -> OutType]
  /\ hinted \subseteq Messages
WorldTypes ==
  /\ ticket \in [Messages -> {"none", "draft", "sent", "deleted"}]
  /\ sender \in {"editor", "siteless", "blocked"}
  /\ number \in [status : {"connected", "error", "disconnected"}, activatedAt : 0 .. MaxTime]
TraceTypes ==
  /\ late \subseteq Messages
  /\ entered \in [Messages -> Nat] /\ hints \in [Messages -> Nat]
BoundTypes == now \in 0 .. MaxTime /\ events \in 0 .. MaxEvents

\* The units a handler goes through have messages.
Able         == {h \in Handler : {} \notin h.todo}
HandlerTypes == handlers \subseteq Able

TypeInv == TypeOK /\ HandlerTypes

LEMMA Types ==
  TypeInv <=> /\ JobTypes /\ RowTypes /\ MailTypes /\ WorldTypes /\ TraceTypes
              /\ BoundTypes /\ HandlerTypes
BY DEF TypeInv, Able, TypeOK, JobTypes, RowTypes, MailTypes, WorldTypes, TraceTypes, BoundTypes, HandlerTypes

LEMMA NowIsNat == ASSUME BoundTypes PROVE now \in Nat /\ events \in Nat
BY WaAssumption DEF BoundTypes

\* What an enqueue does to the jobs.
LEMMA Enqueues ==
  ASSUME JobTypes, NEW t \in Nat, IntakeAt(t)
  PROVE  /\ JobTypes' /\ jobAttempts' = jobAttempts
         /\ \E j \in Jobs : /\ jobStatus[j] = "NONE"
                            /\ jobStatus' = [jobStatus EXCEPT ![j] = "PENDING"]
                            /\ runAt' = [runAt EXCEPT ![j] = t]
<1>1. PICK j \in FreeJobs : Queue!Create(j) /\ runAt' = [runAt EXCEPT ![j] = t]
  BY DEF IntakeAt
<1>2. j \in Jobs /\ jobStatus[j] = "NONE"
  BY DEF FreeJobs
<1>3. jobStatus' = [jobStatus EXCEPT ![j] = "PENDING"] /\ jobAttempts' = jobAttempts
  BY <1>1 DEF Queue!Create
<1>4. JobTypes'
  BY <1>1, <1>2, <1>3 DEF JobTypes, Queue!Status
<1> QED
  BY <1>1, <1>2, <1>3, <1>4

\* What ends the run of some jobs without a result does to them.
LEMMA PutsBack ==
  ASSUME JobTypes, NEW S \in SUBSET Jobs, Queue!PutBackOrGiveUp(S)
  PROVE  /\ jobAttempts' = jobAttempts
         /\ jobStatus' \in [Jobs -> Queue!Status]
         /\ \A j \in S : jobStatus[j] = "RUNNING" /\ jobStatus'[j] \in {"PENDING", "FAILED"}
         /\ \A j \in Jobs \ S : jobStatus'[j] = jobStatus[j]
         /\ S # {}
<1>1. /\ S # {} /\ jobAttempts' = jobAttempts /\ \A j \in S : jobStatus[j] = "RUNNING"
      /\ jobStatus' = [j \in Jobs |-> IF j \notin S THEN jobStatus[j]
                                      ELSE IF jobAttempts[j] < MaxAttempts
                                      THEN "PENDING" ELSE "FAILED"]
  BY DEF Queue!PutBackOrGiveUp
<1>2. jobStatus' \in [Jobs -> Queue!Status]
  BY <1>1 DEF JobTypes, Queue!Status
<1>3. \A j \in S : jobStatus'[j] \in {"PENDING", "FAILED"}
  BY <1>1
<1>4. \A j \in Jobs \ S : jobStatus'[j] = jobStatus[j]
  BY <1>1
<1> QED
  BY <1>1, <1>2, <1>3, <1>4

\* What an operator that writes rows makes of one row.
LEMMA OverIs ==
  ASSUME NEW r \in RowType, NEW state \in {"DONE", "FAILED"}
  PROVE  /\ Over(r, state) \in RowType
         /\ Over(r, state).state = state /\ Over(r, state).outcome = r.outcome
         /\ \A o \in Outcomes : /\ [Over(r, state) EXCEPT !.outcome = o] \in RowType
                                /\ [Over(r, state) EXCEPT !.outcome = o].state = state
                                /\ [Over(r, state) EXCEPT !.outcome = o].outcome = o
         /\ \A o \in Outcomes, t \in Messages \cup {None} :
              /\ [Over(r, state) EXCEPT !.outcome = o,
                                        !.thread = IF t = None THEN @ ELSE t] \in RowType
              /\ [Over(r, state) EXCEPT !.outcome = o,
                                        !.thread = IF t = None THEN @ ELSE t].state = state
              /\ [Over(r, state) EXCEPT !.outcome = o,
                                        !.thread = IF t = None THEN @ ELSE t].outcome = o
BY DEF Over, RowType

LEMMA PutOffIs ==
  ASSUME RowTypes, NEW S, NEW t \in Nat
  PROVE  /\ PutOff(S, t) \in [Messages -> RowType]
         /\ \A m \in Messages : /\ PutOff(S, t)[m].state = row[m].state
                                /\ PutOff(S, t)[m].outcome = row[m].outcome
                                /\ PutOff(S, t)[m].tagged = row[m].tagged
                                /\ PutOff(S, t)[m].wait = 
                                     IF m \in S /\ row[m].state = "PENDING" /\ row[m].wait < t
                                     THEN t ELSE row[m].wait
<1>1. ASSUME NEW m \in Messages
      PROVE  /\ PutOff(S, t)[m] \in RowType
             /\ PutOff(S, t)[m].state = row[m].state
             /\ PutOff(S, t)[m].outcome = row[m].outcome
             /\ PutOff(S, t)[m].tagged = row[m].tagged
             /\ PutOff(S, t)[m].wait = 
                  IF m \in S /\ row[m].state = "PENDING" /\ row[m].wait < t
                  THEN t ELSE row[m].wait
  <2>1. row[m] \in RowType /\ row[m] = row[m]
    BY DEF RowTypes
  <2>2. PutOff(S, t)[m] = IF m \in S /\ row[m].state = "PENDING" /\ row[m].wait < t
                          THEN [row[m] EXCEPT !.wait = t] ELSE row[m]
    BY DEF PutOff
  <2>3. /\ [row[m] EXCEPT !.wait = t] \in RowType
        /\ [row[m] EXCEPT !.wait = t].state = row[m].state
        /\ [row[m] EXCEPT !.wait = t].outcome = row[m].outcome
        /\ [row[m] EXCEPT !.wait = t].tagged = row[m].tagged
        /\ [row[m] EXCEPT !.wait = t].wait = t
    BY <2>1 DEF RowType
  <2> QED
    BY <2>1, <2>2, <2>3
<1>2. PutOff(S, t) = [m \in Messages |-> PutOff(S, t)[m]]
  BY DEF PutOff
<1> HIDE DEF PutOff
<1> QED
  BY <1>1, <1>2

-----------------------------------------------------------------------------
(* Handlers *)

LEMMA FreshIs ==
  ASSUME BoundTypes, NEW j \in Jobs, NEW n \in 1 .. MaxAttempts, NEW pc \in Pc \cup Ended
  PROVE  /\ Fresh(j, n, pc) \in Handler /\ Fresh(j, n, pc) \in Able
         /\ Fresh(j, n, pc).job = j /\ Fresh(j, n, pc).attempt = n
         /\ Fresh(j, n, pc).pc = pc /\ Fresh(j, n, pc).now = now
<1>1. now \in Nat
  BY NowIsNat
<1>2. Fresh(j, n, pc) =
        [job |-> j, attempt |-> n, pc |-> pc, now |-> now, seen |-> {},
         tries |-> [m \in Messages |-> 0], words |-> {}, voices |-> {}, todo |-> {}, open |-> {},
         until |-> 0, unit |-> {}, plan |-> None, thread |-> None, sender |-> "editor"]
  BY DEF Fresh
<1>3. [m \in Messages |-> 0] \in [Messages -> Nat]
  OBVIOUS
<1> QED
  BY <1>1, <1>2, <1>3 DEF Handler, Able

\* The fields of a handler.
LEMMA HandlerIs ==
  ASSUME NEW h \in Handler
  PROVE  /\ h.job \in Jobs /\ h.attempt \in 1 .. MaxAttempts /\ h.pc \in Pc \cup Ended
         /\ h.now \in Nat /\ h.seen \in SUBSET Messages /\ h.tries \in [Messages -> Nat]
         /\ h.words \in SUBSET Messages /\ h.voices \in SUBSET Messages
         /\ h.todo \in SUBSET SUBSET Messages /\ h.open \in SUBSET Messages /\ h.until \in Nat
         /\ h.unit \in SUBSET Messages /\ h.plan \in Outcomes \cup {None}
         /\ h.thread \in Messages \cup {None} /\ h.sender \in {"editor", "siteless"}
BY DEF Handler

LEMMA BecomesType ==
  ASSUME HandlerTypes, NEW h \in handlers, NEW g \in Able, Becomes(h, g)
  PROVE  HandlerTypes'
BY DEF HandlerTypes, Becomes

LEMMA EndsType ==
  ASSUME HandlerTypes, BoundTypes, NEW h \in handlers, NEW pc \in Ended, Ends(h, pc)
  PROVE  HandlerTypes'
<1>1. h \in Handler /\ h.job \in Jobs /\ h.attempt \in 1 .. MaxAttempts
  BY HandlerIs DEF HandlerTypes, Able
<1>2. Fresh(h.job, h.attempt, pc) \in Able
  BY <1>1, FreshIs
<1> QED
  BY <1>2, BecomesType DEF Ends, HandlerTypes

\* A unit that is ready is a unit.
LEMMA ReadyIn ==
  ASSUME NEW P \in SUBSET Messages, NEW t
  PROVE  /\ Ready(P, t) \subseteq Units(P) /\ Ready(P, t) \in SUBSET SUBSET Messages
         /\ \A U \in Ready(P, t) : U \subseteq P /\ U # {}
<1>1. Ready(P, t) \subseteq Units(P)
  BY DEF Ready
<1> QED
  BY <1>1, UnitIs

LEMMA DueIsTime ==
  ASSUME ChatType, NEW U \in SUBSET Messages, U # {}
  PROVE  DueAt(U) \in Nat
<1>1. chat[Min(U)].at + BurstCeiling \in Nat /\ chat[Max(U)].at + BurstQuiet \in Nat
  BY MinOf, MaxOf, WaAssumption DEF ChatType, Message
<1> QED
  BY <1>1 DEF DueAt

LEMMA PendingIn == Pending \subseteq Messages /\ Pending \in SUBSET Messages
BY DEF Pending

LEMMA HandlerWith ==
  ASSUME NEW h \in Handler, NEW tries \in [Messages -> Nat], NEW words \in SUBSET Messages,
         NEW todo \in SUBSET SUBSET Messages, NEW open \in SUBSET Messages, NEW until \in Nat
  PROVE  [h EXCEPT !.tries = tries, !.words = words, !.todo = todo, !.open = open,
                   !.until = until] \in Handler
BY DEF Handler

LEMMA PlannedIs ==
  ASSUME ChatType, RowTypes, NEW h \in Handler, NEW P \in SUBSET Messages
  PROVE  /\ Planned(h, P) \in Handler /\ Planned(h, P) \in Able
         /\ Planned(h, P).job = h.job /\ Planned(h, P).attempt = h.attempt
         /\ Planned(h, P).now = h.now
         /\ Planned(h, P).todo = Ready(P, h.now)
         /\ Planned(h, P).open = P \ UNION Ready(P, h.now)
<1> DEFINE ready == Ready(P, h.now)
           open  == P \ UNION ready
           until == IF open = {} THEN 0 ELSE DueAt(open)
           words == {m \in P : Keyword(m)}
<1>1. Planned(h, P) = [h EXCEPT !.tries = Tries(P), !.words = words, !.todo = ready,
                                !.open = open, !.until = until]
  BY DEF Planned
<1>2. Tries(P) \in [Messages -> Nat]
  BY DEF Tries, RowTypes, RowType
<1>3. words \in SUBSET Messages /\ open \in SUBSET Messages /\ ready \in SUBSET SUBSET Messages
  BY ReadyIn
<1>4. until \in Nat
  BY <1>3, DueIsTime
<1> HIDE DEF ready, open, until, words
<1>5. Planned(h, P) \in Handler
  <2>1. [h EXCEPT !.tries = Tries(P), !.words = words, !.todo = ready, !.open = open,
                  !.until = until] \in Handler
    BY <1>2, <1>3, <1>4, HandlerWith, Zenon
  <2> QED
    BY <1>1, <2>1, Zenon
<1>6. /\ Planned(h, P).job = h.job /\ Planned(h, P).attempt = h.attempt
      /\ Planned(h, P).now = h.now /\ Planned(h, P).todo = ready /\ Planned(h, P).open = open
  BY <1>1 DEF Handler
<1>7. {} \notin ready
  BY ReadyIn DEF ready
<1> QED
  BY <1>5, <1>6, <1>7 DEF ready, open, Able

LEMMA ContinuesType ==
  ASSUME HandlerTypes, BoundTypes, NEW h \in handlers, NEW g \in Able, Continues(h, g)
  PROVE  HandlerTypes'
<1>1. [g EXCEPT !.pc = "decide"] \in Able /\ [g EXCEPT !.pc = "wait"] \in Able
  BY DEF Handler, Pc, Able
<1> QED
  BY <1>1, BecomesType, EndsType DEF Continues, Ended

-----------------------------------------------------------------------------
(* Every step keeps the types *)

LEMMA Unmoved ==
  ASSUME TypeInv
  PROVE  /\ UNCHANGED jobs => JobTypes'
         /\ UNCHANGED row => RowTypes'
         /\ UNCHANGED <<chat, out, hinted>> => MailTypes'
         /\ UNCHANGED world => WorldTypes'
         /\ UNCHANGED traces => TraceTypes'
         /\ UNCHANGED <<now, events>> => BoundTypes'
         /\ UNCHANGED handlers => HandlerTypes'
<1>1. UNCHANGED jobs => JobTypes'
  BY Types DEF JobTypes, jobs
<1>2. UNCHANGED row => RowTypes'
  BY Types DEF RowTypes
<1>3. UNCHANGED <<chat, out, hinted>> => MailTypes'
  BY Types DEF MailTypes
<1>4. UNCHANGED world => WorldTypes'
  BY Types DEF WorldTypes, world
<1>5. UNCHANGED traces => TraceTypes'
  BY Types DEF TraceTypes, traces
<1>6. UNCHANGED <<now, events>> => BoundTypes'
  BY Types DEF BoundTypes
<1>7. UNCHANGED handlers => HandlerTypes'
  BY Types DEF HandlerTypes
<1> QED
  BY <1>1, <1>2, <1>3, <1>4, <1>5, <1>6, <1>7

LEMMA TypesNext ==
  ASSUME JobTypes', RowTypes', MailTypes', WorldTypes', TraceTypes', BoundTypes', HandlerTypes'
  PROVE  TypeInv'
BY DEF TypeInv, Able, TypeOK, JobTypes, RowTypes, MailTypes, WorldTypes, TraceTypes, BoundTypes,
   HandlerTypes

LEMMA TypeInit == Init => TypeInv
<1> SUFFICES ASSUME Init PROVE TypeInv
  OBVIOUS
<1>0. 1 \in Messages /\ MaxTime \in Nat /\ MaxEvents \in Nat /\ MaxAttempts \in Nat
  BY WaAssumption DEF Messages
<1>1. JobTypes
  BY <1>0 DEF Init, JobTypes, Queue!Init, Queue!Status
<1>2. Absent \in RowType /\ Absent.state = "absent" /\ Absent.outcome = None
  BY DEF Absent, RowType
<1>3. RowTypes
  <2> DEFINE first == [Absent EXCEPT !.state = "DONE", !.outcome = "created", !.thread = 1]
  <2>1. first \in RowType /\ first.state = "DONE" /\ first.outcome = "created"
    BY <1>0 DEF Absent, RowType, Outcomes, Drafted
  <2>2. row = [m \in Messages |-> IF m # 1 THEN Absent ELSE first]
    BY DEF Init
  <2>3. None # "created"
    BY NoneAssumption DEF Outcomes, Drafted
  <2> HIDE DEF first
  <2> QED
    BY <1>2, <2>1, <2>2, <2>3 DEF RowTypes
<1>4. MailTypes
  BY <1>0 DEF Init, MailTypes, Message, OutType, Unwritten
<1>5. WorldTypes /\ TraceTypes /\ BoundTypes /\ HandlerTypes
  BY <1>0 DEF Init, WorldTypes, TraceTypes, BoundTypes, HandlerTypes
<1> QED
  BY <1>1, <1>3, <1>4, <1>5, Types

LEMMA StrikesType ==
  ASSUME BoundTypes, Strikes, UNCHANGED now
  PROVE  BoundTypes'
BY WaAssumption DEF BoundTypes, Strikes

\* The lane and its jobs.
LEMMA LaneType ==
  ASSUME TypeInv,
         \/ BeginsRound \/ Crash \/ \E j \in Jobs : Starts(j)
         \/ \E h \in handlers : Settles(h) \/ TimesOut(h)
  PROVE  TypeInv'
<1> USE Unmoved, TypesNext
<1>0. /\ JobTypes /\ BoundTypes /\ HandlerTypes /\ MaxTime \in Nat /\ now \in Nat
      /\ MaxAttempts \in Nat
  BY Types, NowIsNat, WaAssumption
<1>1. CASE BeginsRound
  <2>1. BoundTypes'
    BY <1>0, <1>1 DEF BeginsRound, BoundTypes
  <2> QED
    BY <1>1, <2>1 DEF BeginsRound, mail
<1>2. CASE Crash
  <2> DEFINE orphans == {j \in Jobs : jobStatus[j] = "RUNNING"}
  <2>1. Queue!PutBackOrGiveUp(orphans) /\ orphans \in SUBSET Jobs /\ UNCHANGED runAt
    BY <1>2 DEF Crash
  <2>2. jobStatus' \in [Jobs -> Queue!Status] /\ jobAttempts' = jobAttempts
    BY <1>0, <2>1, PutsBack
  <2>3. JobTypes'
    BY <1>0, <2>1, <2>2 DEF JobTypes
  <2>4. BoundTypes' /\ HandlerTypes'
    BY <1>0, <1>2, StrikesType DEF Crash, HandlerTypes
  <2> QED
    BY <1>2, <2>3, <2>4 DEF Crash, mail
<1>3. ASSUME NEW j \in Jobs, Starts(j)
      PROVE  TypeInv'
  <2>1. /\ jobAttempts[j] < MaxAttempts /\ jobAttempts[j] \in 0 .. MaxAttempts
        /\ jobStatus' = [jobStatus EXCEPT ![j] = "RUNNING"]
        /\ jobAttempts' = [jobAttempts EXCEPT ![j] = @ + 1]
        /\ runAt' = [runAt EXCEPT ![j] = 0]
        /\ handlers' = handlers \cup {Fresh(j, jobAttempts[j] + 1, "look")}
    BY <1>0, <1>3 DEF Starts, Queue!Start, JobTypes
  <2>2. jobAttempts[j] + 1 \in 1 .. MaxAttempts
    BY <1>0, <2>1
  <2>3. JobTypes'
    BY <1>0, <2>1, <2>2 DEF JobTypes, Queue!Status
  <2>4. Fresh(j, jobAttempts[j] + 1, "look") \in Able
    BY <1>0, <2>2, FreshIs DEF Pc
  <2>5. HandlerTypes'
    BY <1>0, <2>1, <2>4 DEF HandlerTypes
  <2> QED
    BY <1>3, <2>3, <2>5 DEF Starts, mail
<1>4. ASSUME NEW h \in handlers, Settles(h)
      PROVE  TypeInv'
  <2>1. h.job \in Jobs
    BY <1>0, HandlerIs DEF HandlerTypes, Able
  <2>2. JobTypes'
    <3>1. CASE Queue!Finish(h.job)
      BY <1>0, <1>4, <2>1, <3>1 DEF Settles, JobTypes, Queue!Finish, Queue!Status
    <3>2. CASE Queue!PutBackOrGiveUp({h.job})
      <4>1. jobStatus' \in [Jobs -> Queue!Status] /\ jobAttempts' = jobAttempts
        BY <1>0, <2>1, <3>2, PutsBack
      <4> QED
        BY <1>0, <1>4, <4>1 DEF JobTypes, Settles
    <3> QED
      BY <1>4, <3>1, <3>2 DEF Settles
  <2>3. HandlerTypes'
    BY <1>0, <1>4 DEF Settles, HandlerTypes
  <2> QED
    BY <1>4, <2>2, <2>3 DEF Settles, mail
<1>5. ASSUME NEW h \in handlers, TimesOut(h)
      PROVE  TypeInv'
  <2>1. h.job \in Jobs
    BY <1>0, HandlerIs DEF HandlerTypes, Able
  <2>2. jobStatus' \in [Jobs -> Queue!Status] /\ jobAttempts' = jobAttempts
    BY <1>0, <1>5, <2>1, PutsBack DEF TimesOut
  <2>3. JobTypes'
    BY <1>0, <1>5, <2>2 DEF JobTypes, TimesOut
  <2>4. BoundTypes'
    BY <1>0, <1>5, StrikesType DEF TimesOut
  <2> QED
    BY <1>5, <2>3, <2>4 DEF TimesOut, mail
<1> QED
  BY <1>1, <1>2, <1>3, <1>4, <1>5

LEMMA RecordsType ==
  ASSUME TypeInv, NEW m \in Messages, Records(m)
  PROVE  TypeInv'
<1> USE Unmoved, TypesNext
<1>0. JobTypes /\ RowTypes /\ MailTypes /\ TraceTypes /\ now \in Nat
  BY Types, NowIsNat
<1>1. PICK c \in Contents, q \in {None} \cup Quotable[m], t \in WritingTimes(m) :
        /\ chat' = [chat EXCEPT ![m] = [at |-> t, voice |-> c.voice, keyword |-> c.keyword,
                                        quotes |-> q]]
        /\ IF TakesIn(t)
           THEN LET due == IF t + BurstQuiet > now THEN t + BurstQuiet ELSE now IN
                /\ row' = [row EXCEPT ![m].state = "PENDING", ![m].wait = due]
                /\ IntakeAt(due)
           ELSE /\ row' = [row EXCEPT ![m].state = "DONE", ![m].outcome = "ignored"]
                /\ UNCHANGED jobs
  BY DEF Records
<1> DEFINE due == IF t + BurstQuiet > now THEN t + BurstQuiet ELSE now
<1>2. t \in Nat /\ due \in Nat
  BY <1>0, WaAssumption DEF WritingTimes
<1>3. chat' \in [Messages -> Message]
  <2>1. c.voice \in BOOLEAN /\ c.keyword \in BOOLEAN /\ q \in Messages \cup {None}
    BY WaAssumption DEF Messages
  <2>2. [at |-> t, voice |-> c.voice, keyword |-> c.keyword, quotes |-> q] \in Message
    BY <1>2, <2>1 DEF Message
  <2> QED
    BY <1>0, <1>1, <2>2 DEF MailTypes
<1>4. row[m] \in RowType /\ row[m].outcome = None /\ row[m].state = "absent"
  BY <1>0 DEF Records, RowTypes, RowType
<1>5. JobTypes' /\ RowTypes'
  <2>1. CASE TakesIn(t)
    <3> HIDE DEF due
    <3>1. row' = [row EXCEPT ![m].state = "PENDING", ![m].wait = due] /\ IntakeAt(due)
      BY <1>1, <2>1 DEF due
    <3>2. JobTypes'
      BY <1>0, <1>2, <3>1, Enqueues
    <3>3. RowTypes'
      <4>1. [row[m] EXCEPT !.state = "PENDING", !.wait = due] \in RowType
        BY <1>2, <1>4 DEF RowType
      <4>2. row' = [row EXCEPT ![m] = [row[m] EXCEPT !.state = "PENDING", !.wait = due]]
        BY <3>1, <1>0 DEF RowTypes
      <4>3. /\ [row[m] EXCEPT !.state = "PENDING", !.wait = due].state = "PENDING"
            /\ [row[m] EXCEPT !.state = "PENDING", !.wait = due].outcome = None
        BY <1>4 DEF RowType
      <4> QED
        BY <1>0, <4>1, <4>2, <4>3 DEF RowTypes
    <3> QED
      BY <3>2, <3>3
  <2>2. CASE ~TakesIn(t)
    <3>1. row' = [row EXCEPT ![m].state = "DONE", ![m].outcome = "ignored"] /\ UNCHANGED jobs
      BY <1>1, <2>2
    <3>2. "ignored" \in Outcomes /\ "ignored" # None
      BY NoneAssumption DEF Outcomes
    <3>3. [row[m] EXCEPT !.state = "DONE", !.outcome = "ignored"] \in RowType
      BY <1>4, <3>2 DEF RowType
    <3>4. row' = [row EXCEPT ![m] = [row[m] EXCEPT !.state = "DONE", !.outcome = "ignored"]]
      BY <3>1, <1>0 DEF RowTypes
    <3>5. /\ [row[m] EXCEPT !.state = "DONE", !.outcome = "ignored"].state = "DONE"
          /\ [row[m] EXCEPT !.state = "DONE", !.outcome = "ignored"].outcome = "ignored"
      BY <1>4 DEF RowType
    <3>6. RowTypes'
      BY <1>0, <3>2, <3>3, <3>4, <3>5 DEF RowTypes
    <3> QED
      BY <3>1, <3>6
  <2> QED
    BY <2>1, <2>2
<1>6. MailTypes' /\ TraceTypes'
  BY <1>0, <1>3 DEF Records, MailTypes, TraceTypes
<1> QED
  BY <1>5, <1>6 DEF Records

\* A row that is decided.
LEMMA DecidedIs ==
  ASSUME RowTypes, NEW h, NEW o \in Outcomes, NEW t \in Messages \cup {None}, Decided(h, o, t)
  PROVE  /\ RowTypes'
         /\ \A m \in Messages : IF m \in h.unit THEN row'[m].state = "DONE" ELSE row'[m] = row[m]
<1> DEFINE done(m) == [Over(row[m], "DONE") EXCEPT
                         !.outcome = o, !.thread = IF t = None THEN @ ELSE t]
<1>1. row' = [m \in Messages |-> IF m \notin h.unit THEN row[m] ELSE done(m)]
  BY DEF Decided
<1>2. ASSUME NEW m \in Messages
      PROVE  done(m) \in RowType /\ done(m).state = "DONE" /\ done(m).outcome = o
  <2>1. row[m] \in RowType
    BY DEF RowTypes
  <2>2. Over(row[m], "DONE") \in RowType /\ Over(row[m], "DONE").state = "DONE"
    BY <2>1, OverIs
  <2> QED
    BY <2>2 DEF RowType
<1>3. o # None
  BY NoneAssumption
<1> HIDE DEF done
<1>4. row' \in [Messages -> RowType]
  BY <1>1, <1>2 DEF RowTypes
<1>5. ASSUME NEW m \in Messages
      PROVE  IF m \in h.unit THEN row'[m].state = "DONE" /\ row'[m].outcome = o ELSE row'[m] = row[m]
  BY <1>1, <1>2
<1> QED
  BY <1>3, <1>4, <1>5 DEF RowTypes

\* The handler goes on to its next unit.
LEMMA NextUnitIs ==
  ASSUME HandlerTypes, BoundTypes, NEW h \in handlers, NextUnit(h)
  PROVE  /\ HandlerTypes'
         /\ \E g \in Able : /\ Continues(h, g) /\ g.todo = h.todo \ {h.unit} /\ g.open = h.open
                            /\ g.job = h.job /\ g.attempt = h.attempt /\ g.now = h.now
<1> DEFINE g == [h EXCEPT !.todo = @ \ {h.unit}, !.unit = {}, !.plan = None, !.thread = None]
<1>1. Continues(h, g)
  BY DEF NextUnit
<1>2. h \in Handler /\ {} \notin h.todo
  BY DEF HandlerTypes, Able
<1>3. /\ g \in Handler /\ g.todo = h.todo \ {h.unit} /\ g.open = h.open
      /\ g.job = h.job /\ g.attempt = h.attempt /\ g.now = h.now
  BY <1>2 DEF Handler
<1>4. g \in Able
  BY <1>2, <1>3 DEF Able
<1> HIDE DEF g
<1> QED
  BY <1>1, <1>3, <1>4, ContinuesType

\* The unit of a decision that stands is a unit of what waits.
LEMMA UnchangedIs ==
  ASSUME NEW h, Unchanged(h)
  PROVE  /\ h.unit \in Ready(Pending, h.now) /\ h.unit \in Units(Pending)
         /\ h.unit \subseteq Pending /\ h.unit # {} /\ h.unit \in SUBSET Messages
         /\ Last(h) \in h.unit /\ Last(h) \in Messages
<1>1. h.unit \in Ready(Pending, h.now)
  BY DEF Unchanged
<1>2. h.unit \in Units(Pending)
  BY <1>1, ReadyIn, PendingIn
<1>3. h.unit \subseteq Pending /\ h.unit # {} /\ h.unit \in SUBSET Messages
  BY <1>2, UnitIs, PendingIn
<1> QED
  BY <1>1, <1>2, <1>3, MaxOf DEF Last

LEMMA ScheduleReplyType ==
  ASSUME MailTypes, NEW m \in Messages, NEW t \in Messages \cup {None}, ScheduleReply(m, t)
  PROVE  out' \in [Messages -> OutType]
BY DEF ScheduleReply, MailTypes, OutType

LEMMA EntersType ==
  ASSUME TraceTypes, NEW U, Enters(U)
  PROVE  entered' \in [Messages -> Nat]
BY DEF TraceTypes, Enters

\* An outcome of decideReplyVerdict.
LEMMA VerdictIs == ASSUME NEW t, NEW s PROVE Verdict(t, s) \in Verdicts \cup {"applied"}
BY DEF Verdict, Verdicts

\* deferSender and exhaust.
LEMMA DefersIs ==
  ASSUME JobTypes, RowTypes, HandlerTypes, BoundTypes, NEW h \in handlers, NEW m, Defers(h, m)
  PROVE  /\ JobTypes' /\ RowTypes' /\ HandlerTypes' /\ Ends(h, "returned")
         /\ \E t \in Nat :
              /\ IntakeAt(t)
              /\ \A n \in Messages :
                   /\ row'[n].state = row[n].state
                   /\ row[n].state = "PENDING" => row'[n].wait = t \/ row'[n].wait = row[n].wait
                   /\ row[n].state = "PENDING" => row'[n].wait >= t
                   /\ row'[n].tagged => row'[n].wait = t \/ row[n].tagged
<1>1. PICK d \in Delays :
        /\ IntakeAt(h.now + d)
        /\ row' = [PutOff(Messages, h.now + d) EXCEPT
                     ![m] = [row[m] EXCEPT !.deferrals = @ + 1, !.wait = h.now + d, !.tagged = TRUE]]
  BY DEF Defers
<1> DEFINE t == h.now + d
<1>2. h \in Handler /\ h.now \in Nat /\ t \in Nat
  BY HandlerIs, WaAssumption DEF HandlerTypes, Able
<1> HIDE DEF t
<1>3. IntakeAt(t) /\ JobTypes'
  BY <1>1, <1>2, Enqueues DEF t
<1>4. HandlerTypes' /\ Ends(h, "returned")
  BY EndsType DEF Defers, Ended
<1>5. /\ PutOff(Messages, t) \in [Messages -> RowType]
      /\ \A n \in Messages : /\ PutOff(Messages, t)[n].state = row[n].state
                             /\ PutOff(Messages, t)[n].outcome = row[n].outcome
                             /\ PutOff(Messages, t)[n].tagged = row[n].tagged
                             /\ PutOff(Messages, t)[n].wait = 
                                  IF row[n].state = "PENDING" /\ row[n].wait < t
                                  THEN t ELSE row[n].wait
  BY <1>2, PutOffIs
<1> DEFINE r == [row[m] EXCEPT !.deferrals = @ + 1, !.wait = t, !.tagged = TRUE]
<1>6. row' = [PutOff(Messages, t) EXCEPT ![m] = r]
  BY <1>1 DEF t
<1>7. m \in Messages => /\ r \in RowType /\ r.state = row[m].state /\ r.outcome = row[m].outcome
                        /\ r.wait = t /\ r.tagged
  <2> SUFFICES ASSUME m \in Messages
               PROVE  /\ r \in RowType /\ r.state = row[m].state /\ r.outcome = row[m].outcome
                      /\ r.wait = t /\ r.tagged = TRUE
    OBVIOUS
  <2>1. row[m] \in RowType /\ row[m].deferrals + 1 \in Nat
    BY DEF RowTypes, RowType
  <2> QED
    BY <1>2, <2>1 DEF RowType
<1> HIDE DEF r
<1>8. ASSUME NEW n \in Messages
      PROVE  /\ row'[n] \in RowType
             /\ row'[n].state = row[n].state /\ row'[n].outcome = row[n].outcome
             /\ row[n].state = "PENDING" => row'[n].wait = t \/ row'[n].wait = row[n].wait
             /\ row[n].state = "PENDING" => row'[n].wait >= t
             /\ row'[n].tagged => row'[n].wait = t \/ row[n].tagged
  <2>1. CASE n = m
    BY <1>2, <1>5, <1>6, <1>7, <2>1
  <2>2. CASE n # m
    <3>1. row'[n] = PutOff(Messages, t)[n] /\ row[n].wait \in Nat
      BY <1>5, <1>6, <2>2 DEF RowTypes, RowType
    <3> QED
      BY <1>2, <1>5, <3>1
  <2> QED
    BY <2>1, <2>2
<1>9. RowTypes'
  <2>1. row' = [n \in Messages |-> row'[n]]
    BY <1>5, <1>6
  <2> QED
    BY <1>8, <2>1 DEF RowTypes
<1> QED
  BY <1>2, <1>3, <1>4, <1>8, <1>9

LEMMA ExhaustsIs ==
  ASSUME JobTypes, RowTypes, HandlerTypes, BoundTypes, NEW h \in handlers, NEW m, NEW S,
         Exhausts(h, m, S)
  PROVE  /\ JobTypes' /\ RowTypes' /\ HandlerTypes' /\ Ends(h, "returned")
         /\ h.now \in Nat /\ IntakeAt(h.now)
         /\ \A n \in Messages : IF n \in S /\ row[n].state = "PENDING"
                                THEN row'[n].state = "FAILED" ELSE row'[n] = row[n]
<1>1. h \in Handler /\ h.now \in Nat
  BY HandlerIs DEF HandlerTypes, Able
<1>2. IntakeAt(h.now) /\ JobTypes'
  BY <1>1, Enqueues DEF Exhausts
<1>3. HandlerTypes' /\ Ends(h, "returned")
  BY EndsType DEF Exhausts, Ended
<1>4. row' = [n \in Messages |-> IF n \in S /\ row[n].state = "PENDING"
                THEN Over(row[n], "FAILED") ELSE row[n]]
  BY DEF Exhausts
<1>5. ASSUME NEW n \in Messages
      PROVE  /\ Over(row[n], "FAILED") \in RowType /\ Over(row[n], "FAILED").state = "FAILED"
             /\ Over(row[n], "FAILED").outcome = row[n].outcome
  BY OverIs DEF RowTypes
<1>6. RowTypes'
  BY <1>4, <1>5 DEF RowTypes
<1> QED
  BY <1>1, <1>2, <1>3, <1>4, <1>5, <1>6

\* Of some messages, one waits longest.
LEMMA Latest ==
  ASSUME NEW D \in SUBSET Messages, D # {}, \A m \in D : row[m].wait \in Nat
  PROVE  \E m \in D : \A n \in D : row[n].wait <= row[m].wait
<1> DEFINE Upto(k) == {m \in D : m <= k}
           \* k is good if the delays of the messages up to it have a greatest one
           Good(k) == \/ Upto(k) = {}
                      \/ \E m \in Upto(k) : \A n \in Upto(k) : row[n].wait <= row[m].wait
           Bad == {k \in 0 .. MaxMessages : ~Good(k)}
<1>0. MaxMessages \in Nat /\ \A m \in D : m \in Nat /\ 1 <= m /\ m <= MaxMessages
  BY WaAssumption DEF Messages
<1>2. Bad = {}
  <2> SUFFICES ASSUME Bad # {} PROVE FALSE
    OBVIOUS
  <2>1. PICK k \in Bad : \A c \in Bad : k <= c
    <3>1. Bad \in SUBSET Nat
      BY <1>0
    <3> QED
      BY <3>1, Least
  <2>2. k \in Nat /\ k <= MaxMessages
    BY <1>0
  <2>3. k # 0
    <3>1. Upto(0) = {}
      BY <1>0
    <3> QED
      BY <3>1
  <2>4. Good(k - 1)
    <3>1. k - 1 \in 0 .. MaxMessages /\ ~(k <= k - 1)
      BY <2>2, <2>3, <1>0
    <3>2. k - 1 \notin Bad
      BY <2>1, <3>1
    <3> HIDE DEF Good
    <3> QED
      BY <3>1, <3>2
  <2>5. CASE k \notin D
    <3> HIDE DEF Upto, Good, Bad
    <3>1. ASSUME NEW m \in D, m <= k
          PROVE  m <= k - 1
      <4>1. m \in Nat /\ m # k
        BY <1>0, <2>5
      <4> QED
        BY <2>2, <3>1, <4>1
    <3>2. \A m \in D : m <= k - 1 => m <= k
      BY <2>2, <1>0
    <3>3. Upto(k) = Upto(k - 1)
      BY <3>1, <3>2 DEF Upto
    <3>4. Good(k)
      BY <2>4, <3>3 DEF Good
    <3> QED
      BY <3>4 DEF Bad
  <2>6. CASE k \in D /\ Upto(k - 1) = {}
    <3>1. \A m \in D : m <= k => m = k
      BY <2>2, <2>6, <1>0
    <3>2. k \in Upto(k) /\ row[k].wait \in Nat /\ \A n \in Upto(k) : row[n].wait <= row[k].wait
      BY <2>2, <2>6, <3>1
    <3> QED
      BY <3>2
  <2>7. CASE k \in D /\ Upto(k - 1) # {}
    <3>1. PICK m \in Upto(k - 1) : \A n \in Upto(k - 1) : row[n].wait <= row[m].wait
      BY <2>4, <2>7
    <3>2. m \in Upto(k) /\ k \in Upto(k) /\ row[m].wait \in Nat /\ row[k].wait \in Nat
      <4>1. m \in D /\ m <= k - 1 /\ m \in Nat
        BY <1>0
      <4> HIDE DEF Bad, Good
      <4>2. m <= k /\ k <= k
        BY <2>2, <4>1
      <4> QED
        BY <2>7, <4>1, <4>2
    <3>3. ASSUME NEW n \in D, n <= k
          PROVE  n = k \/ n <= k - 1
      <4>1. n \in Nat
        BY <1>0
      <4> HIDE DEF Bad, Good, Upto
      <4> QED
        BY <2>2, <3>3, <4>1
    <3>4. CASE row[k].wait <= row[m].wait
      <4>1. \A n \in Upto(k) : row[n].wait <= row[m].wait
        BY <3>1, <3>3, <3>4
      <4> QED
        BY <3>2, <4>1
    <3>5. CASE ~(row[k].wait <= row[m].wait)
      <4>1. \A n \in Upto(k) : row[n].wait <= row[k].wait
        BY <3>1, <3>2, <3>3, <3>5
      <4> QED
        BY <3>2, <4>1
    <3> QED
      BY <3>4, <3>5
  <2> QED
    BY <2>5, <2>6, <2>7
<1>3. Upto(MaxMessages) = D
  BY <1>0
<1>4. Good(MaxMessages)
  <2>1. MaxMessages \in 0 .. MaxMessages
    BY <1>0
  <2> HIDE DEF Good
  <2> QED
    BY <1>2, <2>1
<1> HIDE DEF Upto
<1> QED
  BY <1>3, <1>4

\* A greatest delay exists while there is one.
LEMMA BackoffsIn ==
  ASSUME RowTypes, NEW P \in SUBSET Messages, NEW t \in Nat, Backoffs(P, t) # {}
  PROVE  /\ Max(Backoffs(P, t)) \in Nat /\ Max(Backoffs(P, t)) > t
         /\ \E m \in P : row[m].tagged /\ row[m].wait = Max(Backoffs(P, t))
<1> DEFINE D == {m \in P : row[m].tagged /\ row[m].wait > t}
           B == {row[m].wait : m \in D}
<1>1. \A m \in P : row[m].wait \in Nat
  BY DEF RowTypes, RowType
<1>2. Backoffs(P, t) = B
  BY DEF Backoffs
<1>3. PICK m \in D : \A n \in D : row[n].wait <= row[m].wait
  <2>1. D # {} /\ D \in SUBSET Messages /\ \A m \in D : row[m].wait \in Nat
    BY <1>1, <1>2
  <2> HIDE DEF D
  <2> QED
    BY <2>1, Latest
<1>4. row[m].wait \in B /\ \A b \in B : row[m].wait >= b
  BY <1>3, <1>1
<1>5. Max(B) \in B
  BY <1>4 DEF Max
<1>6. PICK n \in D : Max(B) = row[n].wait
  BY <1>5
<1> HIDE DEF B
<1> QED
  BY <1>6, <1>2, <1>1

LEMMA LooksType ==
  ASSUME TypeInv, NEW h \in handlers, Looks(h)
  PROVE  HandlerTypes'
<1>0. /\ RowTypes /\ BoundTypes /\ HandlerTypes /\ WorldTypes /\ ChatType
  BY Types DEF MailTypes, ChatType
<1>1. h \in Handler /\ h.now \in Nat /\ h \in Able
  BY <1>0, HandlerIs DEF HandlerTypes, Able
<1> DEFINE P == Pending
<1>2. P \in SUBSET Messages
  BY PendingIn
<1> HIDE DEF P
<1>3. CASE P = {} /\ Ends(h, "returned")
  BY <1>0, <1>3, EndsType DEF Ended
<1>4. CASE /\ Backoffs(P, h.now) # {}
           /\ Becomes(h, [h EXCEPT !.pc = "align", !.until = Max(Backoffs(P, h.now))])
  <2> DEFINE g == [h EXCEPT !.pc = "align", !.until = Max(Backoffs(P, h.now))]
  <2>1. Max(Backoffs(P, h.now)) \in Nat
    BY <1>0, <1>1, <1>2, <1>4, BackoffsIn
  <2>2. g \in Able
    BY <1>1, <2>1 DEF Handler, Able, Pc
  <2> QED
    BY <1>0, <1>4, <2>2, BecomesType
<1>5. CASE Becomes(h, [h EXCEPT !.pc = "drop", !.seen = P])
  <2>1. [h EXCEPT !.pc = "drop", !.seen = P] \in Able
    BY <1>1, <1>2 DEF Handler, Able, Pc
  <2> QED
    BY <1>0, <1>5, <2>1, BecomesType
<1>6. CASE /\ sender # "blocked"
           /\ Becomes(h, [h EXCEPT !.pc = "hear", !.seen = P, !.voices = Unheard(P),
                                   !.tries = Tries(P), !.sender = sender])
  <2>1. Unheard(P) \in SUBSET Messages /\ Tries(P) \in [Messages -> Nat]
    BY <1>0, <1>2 DEF Unheard, Tries, RowTypes, RowType
  <2>2. sender \in {"editor", "siteless"}
    BY <1>0, <1>6 DEF WorldTypes
  <2> DEFINE g == [h EXCEPT !.pc = "hear", !.seen = P, !.voices = Unheard(P),
                            !.tries = Tries(P), !.sender = sender]
  <2>3. g \in Handler
    BY <1>1, <1>2, <2>1, <2>2 DEF Handler, Pc
  <2>4. g.todo = h.todo
    BY <1>1 DEF Handler
  <2>5. g \in Able
    BY <1>1, <2>3, <2>4 DEF Able
  <2> QED
    BY <1>0, <1>6, <2>5, BecomesType
<1>7. CASE sender # "blocked" /\ Continues(h, Planned([h EXCEPT !.sender = sender], P))
  <2>1. sender \in {"editor", "siteless"}
    BY <1>0, <1>7 DEF WorldTypes
  <2>2. [h EXCEPT !.sender = sender] \in Handler
    BY <1>1, <2>1 DEF Handler
  <2>3. Planned([h EXCEPT !.sender = sender], P) \in Able
    BY <1>0, <1>2, <2>2, PlannedIs
  <2> QED
    BY <1>0, <1>7, <2>3, ContinuesType
<1> QED
  BY <1>3, <1>4, <1>5, <1>6, <1>7 DEF Looks, P

\* Which rows a step of a handler writes.
LEMMA AlignsRow ==
  ASSUME RowTypes, HandlerTypes, NEW h \in handlers, Aligns(h)
  PROVE  /\ RowTypes' /\ h.until \in Nat
         /\ \A m \in Messages :
              /\ row'[m].state = row[m].state /\ row'[m].tagged = row[m].tagged
              /\ row'[m].wait = IF row[m].state = "PENDING" /\ row[m].wait < h.until
                                THEN h.until ELSE row[m].wait
<1>1. h.until \in Nat
  BY HandlerIs DEF HandlerTypes, Able
<1>2. row' = PutOff(Messages, h.until)
  BY DEF Aligns
<1>3. /\ PutOff(Messages, h.until) \in [Messages -> RowType]
      /\ \A m \in Messages : /\ PutOff(Messages, h.until)[m].state = row[m].state
                             /\ PutOff(Messages, h.until)[m].outcome = row[m].outcome
                             /\ PutOff(Messages, h.until)[m].tagged = row[m].tagged
                             /\ PutOff(Messages, h.until)[m].wait =
                                  IF row[m].state = "PENDING" /\ row[m].wait < h.until
                                  THEN h.until ELSE row[m].wait
  BY <1>1, PutOffIs
<1>4. RowTypes'
  BY <1>2, <1>3 DEF RowTypes
<1> QED
  BY <1>1, <1>2, <1>3, <1>4

LEMMA DropsRow ==
  ASSUME RowTypes, NEW h, Drops(h)
  PROVE  /\ RowTypes'
         /\ \A m \in Messages : IF m \in h.seen /\ row[m].state = "PENDING"
                                THEN row'[m].state = "DONE" ELSE row'[m] = row[m]
<1> DEFINE done(m) == [Over(row[m], "DONE") EXCEPT !.outcome = "ignored"]
<1>1. row' = [m \in Messages |-> IF m \in h.seen /\ row[m].state = "PENDING"
                                 THEN done(m) ELSE row[m]]
  BY DEF Drops
<1>2. "ignored" \in Outcomes /\ "ignored" # None
  BY NoneAssumption DEF Outcomes
<1>3. ASSUME NEW m \in Messages
      PROVE  done(m) \in RowType /\ done(m).state = "DONE" /\ done(m).outcome = "ignored"
  <2>1. Over(row[m], "DONE") \in RowType /\ Over(row[m], "DONE").state = "DONE"
    BY OverIs DEF RowTypes
  <2> QED
    BY <1>2, <2>1 DEF RowType
<1> HIDE DEF done
<1>4. RowTypes'
  BY <1>1, <1>2, <1>3 DEF RowTypes
<1> QED
  BY <1>1, <1>3, <1>4

LEMMA HearsRow ==
  ASSUME RowTypes, NEW h, Hears(h)
  PROVE  /\ RowTypes'
         /\ \A m \in Messages : /\ row'[m].state = row[m].state /\ row'[m].wait = row[m].wait
                                /\ row'[m].tagged => row[m].tagged
<1> DEFINE m == Min(h.voices)
<1>1. PICK r \in {"understood", "empty"} :
        row' = [row EXCEPT ![m].heard = IF @ = "unheard" THEN r ELSE @,
                           ![m].tagged = @ /\ (h.tries[m] = 0 \/ row[m].state # "PENDING")]
  BY DEF Hears
<1> HIDE DEF m
<1> DEFINE c == row[m].tagged /\ (h.tries[m] = 0 \/ row[m].state # "PENDING")
           k == IF row[m].heard = "unheard" THEN r ELSE row[m].heard
           q == [row[m] EXCEPT !.heard = k, !.tagged = c]
<1>2. CASE m \in Messages
  <2>1. row[m] \in RowType
    BY <1>2 DEF RowTypes
  <2>2. row' = [row EXCEPT ![m] = q]
    BY <1>1, <1>2, <2>1 DEF RowTypes, RowType
  <2>3. c \in BOOLEAN /\ (c => row[m].tagged) /\ k \in {"unheard", "understood", "empty"}
    BY <2>1 DEF RowType
  <2> HIDE DEF c, k
  <2>4. /\ q \in RowType /\ q.state = row[m].state /\ q.outcome = row[m].outcome
        /\ q.wait = row[m].wait /\ q.tagged = c
    BY <2>1, <2>3 DEF RowType
  <2> HIDE DEF q
  <2>5. \A n \in Messages : row'[n] = IF n = m THEN q ELSE row[n]
    BY <1>2, <2>2 DEF RowTypes
  <2>6. RowTypes'
    BY <2>2, <2>4 DEF RowTypes
  <2> QED
    BY <2>3, <2>4, <2>5, <2>6
<1>3. CASE m \notin Messages
  <2>1. row' = row
    BY <1>1, <1>3 DEF RowTypes
  <2> QED
    BY <2>1 DEF RowTypes
<1> QED
  BY <1>2, <1>3

LEMMA WaitsRow ==
  ASSUME RowTypes, HandlerTypes, NEW h \in handlers, Waits(h)
  PROVE  /\ RowTypes' /\ h.until \in Nat
         /\ \A m \in Messages :
              /\ row'[m].state = row[m].state /\ row'[m].tagged = row[m].tagged
              /\ row'[m].wait = IF m \in h.open /\ row[m].state = "PENDING"
                                THEN h.until ELSE row[m].wait
<1>1. h.until \in Nat
  BY HandlerIs DEF HandlerTypes, Able
<1>2. row' = [m \in Messages |-> IF m \in h.open /\ row[m].state = "PENDING"
                                 THEN [row[m] EXCEPT !.wait = h.until] ELSE row[m]]
  BY DEF Waits
<1>3. ASSUME NEW m \in Messages
      PROVE  /\ [row[m] EXCEPT !.wait = h.until] \in RowType
             /\ [row[m] EXCEPT !.wait = h.until].state = row[m].state
             /\ [row[m] EXCEPT !.wait = h.until].outcome = row[m].outcome
             /\ [row[m] EXCEPT !.wait = h.until].tagged = row[m].tagged
             /\ [row[m] EXCEPT !.wait = h.until].wait = h.until
  <2>1. row[m] \in RowType
    BY DEF RowTypes
  <2> QED
    BY <1>1, <2>1 DEF RowType
<1>4. RowTypes'
  BY <1>2, <1>3 DEF RowTypes
<1> QED
  BY <1>1, <1>2, <1>3, <1>4

\* What a handler holds that decided a unit.
LEMMA DecidesIs ==
  ASSUME TypeInv, NEW h \in handlers, Decides(h)
  PROVE  /\ HandlerTypes'
         /\ \E g \in Able : /\ Becomes(h, g) /\ g.pc = "write" /\ g.unit \in h.todo
                            /\ \A V \in h.todo : Min(g.unit) <= Min(V)
                            /\ g.todo = h.todo /\ g.open = h.open
                            /\ g.job = h.job /\ g.attempt = h.attempt /\ g.now = h.now
<1>0. HandlerTypes /\ MailTypes /\ RowTypes
  BY Types
<1>1. h \in Handler /\ {} \notin h.todo /\ h.todo \in SUBSET SUBSET Messages
  BY <1>0, HandlerIs DEF HandlerTypes, Able
<1>2. PICK U \in h.todo :
        LET q == chat[Min(U)].quotes
            t == IF q = None THEN None ELSE row[q].thread
            plan == IF t # None THEN Verdict(t, h.sender)
                    ELSE IF U \cap h.words = {} THEN "noKeyword"
                    ELSE IF h.sender = "siteless" THEN "noSite"
                    ELSE "created" IN
        /\ \A V \in h.todo : Min(U) <= Min(V)
        /\ Becomes(h, [h EXCEPT !.pc = "write", !.unit = U, !.plan = plan,
                                !.thread = IF t = None THEN None ELSE t])
  BY DEF Decides
<1> DEFINE q == chat[Min(U)].quotes
           t == IF q = None THEN None ELSE row[q].thread
           plan == IF t # None THEN Verdict(t, h.sender)
                   ELSE IF U \cap h.words = {} THEN "noKeyword"
                   ELSE IF h.sender = "siteless" THEN "noSite"
                   ELSE "created"
           g == [h EXCEPT !.pc = "write", !.unit = U, !.plan = plan,
                          !.thread = IF t = None THEN None ELSE t]
<1>3. U \in SUBSET Messages /\ U # {} /\ Min(U) \in Messages
  BY <1>1, MinOf
<1>4. q \in Messages \cup {None}
  BY <1>0, <1>3 DEF MailTypes, Message
<1>5. t \in Messages \cup {None}
  BY <1>0, <1>4 DEF RowTypes, RowType
<1>6. plan \in Outcomes
  <2>1. Verdict(t, h.sender) \in Outcomes
    BY VerdictIs DEF Outcomes, Drafted
  <2> HIDE DEF t
  <2> QED
    BY <2>1 DEF Outcomes, Drafted, Verdicts
<1>7. Becomes(h, g) /\ \A V \in h.todo : Min(U) <= Min(V)
  BY <1>2
<1> HIDE DEF q, t, plan
<1>8. /\ g \in Handler /\ g.pc = "write" /\ g.unit = U /\ g.todo = h.todo /\ g.open = h.open
      /\ g.job = h.job /\ g.attempt = h.attempt /\ g.now = h.now
  BY <1>1, <1>3, <1>5, <1>6 DEF Handler, Pc
<1>9. g \in Able
  BY <1>1, <1>8 DEF Able
<1> HIDE DEF g
<1>10. HandlerTypes'
  BY <1>0, <1>7, <1>9, BecomesType
<1> QED
  BY <1>7, <1>8, <1>9, <1>10

\* What a handler does on its way.
LEMMA HandlerType ==
  ASSUME TypeInv, NEW h \in handlers, HandlerStep(h)
  PROVE  TypeInv'
<1> USE Unmoved, TypesNext
<1>0. /\ JobTypes /\ RowTypes /\ MailTypes /\ TraceTypes /\ WorldTypes /\ BoundTypes
      /\ HandlerTypes /\ ChatType
  BY Types DEF MailTypes, ChatType
<1>1. /\ h \in Handler /\ {} \notin h.todo /\ h.now \in Nat /\ h.until \in Nat
      /\ h.plan \in Outcomes \cup {None} /\ h.thread \in Messages \cup {None}
  BY <1>0, HandlerIs DEF HandlerTypes, Able
<1>2. Ends(h, "returned") => HandlerTypes'
  BY <1>0, EndsType DEF Ended
<1>3. CASE Looks(h)
  BY <1>3, LooksType DEF Looks, mail
<1>4. CASE Aligns(h)
  BY <1>0, <1>2, <1>4, AlignsRow DEF Aligns
<1>5. CASE Drops(h)
  BY <1>0, <1>2, <1>5, DropsRow DEF Drops
<1>6. CASE Hears(h)
  <2> DEFINE m == Min(h.voices)
             v == h.voices \ {m}
             p == IF h.voices = {m} THEN "plan" ELSE "hear"
             g == [h EXCEPT !.voices = v, !.pc = p]
  <2>1. v \in SUBSET Messages /\ p \in Pc
    BY <1>1, HandlerIs DEF Pc
  <2>2. Becomes(h, g)
    BY <1>1, <1>6 DEF Hears, Handler
  <2> HIDE DEF m, v, p
  <2>3. g \in Able
    BY <1>1, <2>1 DEF Handler, Able
  <2>4. HandlerTypes'
    BY <1>0, <2>2, <2>3, BecomesType
  <2> QED
    BY <1>0, <1>6, <2>4, HearsRow DEF Hears
<1>7. CASE HearingFails(h)
  <2>1. PICK m \in {Min(h.voices)} : Defers(h, m) \/ Exhausts(h, m, {m})
    BY <1>7 DEF HearingFails
  <2>2. CASE Defers(h, m)
    BY <1>0, <2>2, DefersIs DEF Defers
  <2>3. CASE Exhausts(h, m, {m})
    BY <1>0, <2>3, ExhaustsIs DEF Exhausts
  <2> QED
    BY <2>1, <2>2, <2>3
<1>8. CASE Plans(h)
  <2>1. Planned(h, Pending) \in Able
    BY <1>0, <1>1, PlannedIs, PendingIn
  <2>2. HandlerTypes'
    BY <1>0, <1>8, <2>1, ContinuesType DEF Plans
  <2> QED
    BY <1>8, <2>2 DEF Plans, mail
<1>9. CASE Decides(h)
  BY <1>9, DecidesIs DEF Decides, mail
<1>10. CASE UnitFails(h)
  <2>1. CASE Defers(h, Last(h))
    BY <1>0, <2>1, DefersIs DEF Defers
  <2>2. CASE Exhausts(h, Last(h), h.unit)
    BY <1>0, <2>2, ExhaustsIs DEF Exhausts
  <2> QED
    BY <1>10, <2>1, <2>2 DEF UnitFails
<1>11. CASE FindsChanged(h)
  <2>1. JobTypes'
    BY <1>0, <1>1, <1>11, Enqueues DEF FindsChanged
  <2> QED
    BY <1>2, <1>11, <2>1 DEF FindsChanged, mail
<1>12. ASSUME NextUnit(h) PROVE HandlerTypes'
  BY <1>0, <1>12, NextUnitIs
<1>13. ASSUME Unchanged(h) PROVE Last(h) \in Messages
  BY <1>13, UnchangedIs
<1>14. Drafted \subseteq Outcomes /\ Verdicts \subseteq Outcomes /\ "noKeyword" \in Outcomes
  BY DEF Outcomes
<1>15. CASE SetsAside(h)
  <2>1. RowTypes' /\ HandlerTypes' /\ Last(h) \in Messages
    BY <1>0, <1>12, <1>13, <1>14, <1>15, DecidedIs DEF SetsAside
  <2>2. MailTypes'
    <3>1. AwaitingHint \subseteq Messages
      BY DEF AwaitingHint
    <3>2. out' \in [Messages -> OutType] /\ hinted' \subseteq Messages
      BY <1>0, <1>15, <2>1, <3>1, ScheduleReplyType DEF SetsAside, MailTypes
    <3> QED
      BY <1>0, <1>15, <3>2 DEF SetsAside, MailTypes
  <2>3. TraceTypes'
    BY <1>0, <1>15 DEF SetsAside, TraceTypes
  <2> QED
    BY <1>15, <2>1, <2>2, <2>3 DEF SetsAside
<1>16. CASE Answers(h)
  <2>1. RowTypes' /\ HandlerTypes' /\ Last(h) \in Messages
    BY <1>0, <1>1, <1>12, <1>13, <1>14, <1>16, DecidedIs DEF Answers, Writes
  <2>2. MailTypes'
    BY <1>0, <1>1, <1>16, <2>1, ScheduleReplyType DEF Answers, MailTypes
  <2> QED
    BY <1>16, <2>1, <2>2 DEF Answers
<1>17. CASE Creates(h)
  <2>1. Last(h) \in Messages /\ "created" \in Outcomes
    BY <1>13, <1>14, <1>17 DEF Creates, Drafted
  <2>2. RowTypes' /\ HandlerTypes'
    BY <1>0, <1>12, <1>17, <2>1, DecidedIs DEF Creates
  <2>3. MailTypes'
    BY <1>0, <1>17, <2>1, ScheduleReplyType DEF Creates, MailTypes
  <2>4. WorldTypes'
    BY <1>0, <1>17, <2>1 DEF Creates, WorldTypes
  <2>5. TraceTypes'
    BY <1>0, <1>17, EntersType DEF Creates, TraceTypes
  <2> QED
    BY <1>17, <2>2, <2>3, <2>4, <2>5 DEF Creates
<1>18. CASE Applies(h)
  <2>1. Last(h) \in Messages /\ Verdict(h.thread, h.sender) \in Outcomes
    BY <1>13, <1>14, <1>18, VerdictIs DEF Applies, LockedVerdict, Drafted
  <2>2. RowTypes' /\ HandlerTypes'
    BY <1>0, <1>1, <1>12, <1>18, <2>1, DecidedIs DEF Applies, LockedVerdict
  <2>3. MailTypes'
    BY <1>0, <1>1, <1>18, <2>1, ScheduleReplyType DEF Applies, MailTypes
  <2>4. TraceTypes'
    BY <1>0, <1>18, EntersType DEF Applies, TraceTypes
  <2> QED
    BY <1>18, <2>2, <2>3, <2>4 DEF Applies
<1>19. CASE Waits(h)
  <2>1. JobTypes'
    BY <1>0, <1>1, <1>19, Enqueues DEF Waits
  <2> QED
    BY <1>0, <1>2, <1>19, <2>1, WaitsRow DEF Waits
<1> QED
  BY <1>3, <1>4, <1>5, <1>6, <1>7, <1>8, <1>9, <1>10, <1>11, <1>15, <1>16, <1>17, <1>18, <1>19
     DEF HandlerStep

\* What users, administrators, Meta and exceptions do.
LEMMA OutsideType ==
  ASSUME TypeInv,
         \/ SenderChanges \/ NumberChanges
         \/ \E m \in Messages : AnswerIsSent(m) \/ AnswerFails(m) \/ UserActs(m)
         \/ \E h \in handlers : Throws(h) \/ FindsTokenRevoked(h)
  PROVE  TypeInv'
<1> USE Unmoved, TypesNext
<1>0. /\ MailTypes /\ WorldTypes /\ BoundTypes /\ HandlerTypes
      /\ now \in 0 .. MaxTime /\ MaxTime \in Nat
  BY Types, WaAssumption DEF BoundTypes
<1>1. CASE SenderChanges
  <2>1. WorldTypes' /\ BoundTypes'
    BY <1>0, <1>1, StrikesType DEF SenderChanges, WorldTypes
  <2> QED
    BY <1>1, <2>1 DEF SenderChanges, mail
<1>2. CASE NumberChanges
  <2>1. WorldTypes' /\ BoundTypes'
    BY <1>0, <1>2, StrikesType DEF NumberChanges, WorldTypes
  <2> QED
    BY <1>2, <2>1 DEF NumberChanges, mail
<1>3. ASSUME NEW m \in Messages, AnswerIsSent(m)
      PROVE  TypeInv'
  <2>1. MailTypes'
    BY <1>0, <1>3 DEF AnswerIsSent, MailTypes, OutType
  <2> QED
    BY <1>3, <2>1 DEF AnswerIsSent
<1>4. ASSUME NEW m \in Messages, AnswerFails(m)
      PROVE  TypeInv'
  <2>1. MailTypes' /\ BoundTypes'
    BY <1>0, <1>4, StrikesType DEF AnswerFails, MailTypes, OutType
  <2> QED
    BY <1>4, <2>1 DEF AnswerFails
<1>5. ASSUME NEW m \in Messages, UserActs(m)
      PROVE  TypeInv'
  <2>1. WorldTypes' /\ BoundTypes'
    BY <1>0, <1>5, StrikesType DEF UserActs, WorldTypes
  <2> QED
    BY <1>5, <2>1 DEF UserActs, mail
<1>6. ASSUME NEW h \in handlers, Throws(h)
      PROVE  TypeInv'
  <2>1. HandlerTypes' /\ BoundTypes'
    BY <1>0, <1>6, StrikesType, EndsType DEF Throws, Ended
  <2> QED
    BY <1>6, <2>1 DEF Throws, mail
<1>7. ASSUME NEW h \in handlers, FindsTokenRevoked(h)
      PROVE  TypeInv'
  <2>1. HandlerTypes' /\ BoundTypes'
    BY <1>0, <1>7, StrikesType, EndsType DEF FindsTokenRevoked, Ended
  <2>2. WorldTypes'
    BY <1>0, <1>7 DEF FindsTokenRevoked, WorldTypes
  <2> QED
    BY <1>7, <2>1, <2>2 DEF FindsTokenRevoked, mail
<1> QED
  BY <1>1, <1>2, <1>3, <1>4, <1>5, <1>6, <1>7

LEMMA NextType == TypeInv /\ [Next]_vars => TypeInv'
<1>1. ASSUME TypeInv, Next PROVE TypeInv'
  BY <1>1, LaneType, RecordsType, HandlerType, OutsideType DEF Next
<1>2. ASSUME TypeInv, UNCHANGED vars PROVE TypeInv'
  BY <1>2, Unmoved, TypesNext DEF vars, mail
<1> QED
  BY <1>1, <1>2

\* Every variable keeps its type, and the units a handler goes through are never
\* empty.
THEOREM TypeCorrect == Spec => []TypeInv
<1>1. Init => TypeInv
  BY TypeInit
<1>2. TypeInv /\ [Next]_vars => TypeInv'
  BY NextType
<1> QED
  BY <1>1, <1>2, PTL DEF Spec

\* However late messages come, they fall into the same reports as if each had
\* been looked at when it came (startsNewUnit, burst.ts): whatever is recorded.
THEOREM SplitsAsInRealTimeAlways == Spec => []SplitsAsInRealTime
<1>1. TypeInv => SplitsAsInRealTime
  <2> SUFFICES ASSUME TypeInv PROVE SplitsAsInRealTime
    OBVIOUS
  <2>1. ChatType
    BY Types DEF MailTypes, ChatType
  <2> QED
    BY <2>1, SplitsUpto DEF SplitsAsInRealTime
<1> QED
  BY <1>1, TypeCorrect, PTL

-----------------------------------------------------------------------------
(* What a step of a handler does to the rest *)

Acts(h) == HandlerStep(h) \/ Throws(h) \/ FindsTokenRevoked(h)

\* A job waits for the moment t.
Awake(t) == \E j \in Jobs : jobStatus[j] = "PENDING" /\ runAt[j] = t

\* After the step a job does.
Woken(t) == \E j \in Jobs : jobStatus'[j] = "PENDING" /\ runAt'[j] = t

\* At most a job is added.
JobsAdd ==
  /\ jobAttempts' = jobAttempts
  /\ \A j \in Jobs :
       \/ jobStatus'[j] = jobStatus[j] /\ runAt'[j] = runAt[j]
       \/ jobStatus[j] = "NONE" /\ jobStatus'[j] = "PENDING"

\* Handler g goes on for h.
Succeeds(h, g) ==
  /\ g.job = h.job /\ g.attempt = h.attempt
  /\ g.now = h.now \/ (Awaited(h) /\ g.now = now)
  /\ Running(g) \/ Awaited(h)

\* All that a handler does to a row: it decides it or gives it up if it is
\* pending; and it lets it wait longer, or for a job that it leaves behind.
RowMoves(m) ==
  /\ \/ row'[m].state = row[m].state
     \/ row[m].state = "PENDING" /\ row'[m].state \in {"DONE", "FAILED"}
  /\ row'[m].state = "PENDING" => \/ row'[m].wait >= row[m].wait
                                  \/ Woken(row'[m].wait)

LEMMA UnchangedJobs == UNCHANGED jobs => JobsAdd
BY DEF jobs, JobsAdd

LEMMA EnqueueAdds ==
  ASSUME JobTypes, NEW t \in Nat, IntakeAt(t)
  PROVE  JobsAdd /\ Woken(t)
<1>1. PICK j \in Jobs : /\ jobStatus[j] = "NONE"
                        /\ jobStatus' = [jobStatus EXCEPT ![j] = "PENDING"]
                        /\ runAt' = [runAt EXCEPT ![j] = t]
  BY Enqueues
<1>2. jobAttempts' = jobAttempts
  BY Enqueues
<1>3. jobStatus'[j] = "PENDING" /\ runAt'[j] = t
  BY <1>1 DEF JobTypes
<1>4. Woken(t)
  BY <1>3 DEF Woken
<1>5. \A i \in Jobs : i # j => jobStatus'[i] = jobStatus[i] /\ runAt'[i] = runAt[i]
  BY <1>1 DEF JobTypes
<1> QED
  BY <1>1, <1>2, <1>3, <1>4, <1>5 DEF JobsAdd

LEMMA BecomesIs ==
  ASSUME NEW h \in handlers, NEW g, Becomes(h, g)
  PROVE  \A k \in handlers' : k \in handlers \ {h} \/ k = g
BY DEF Becomes

LEMMA EndsIs ==
  ASSUME HandlerTypes, BoundTypes, NEW h \in handlers, NEW pc \in Ended, Ends(h, pc)
  PROVE  \E g : /\ Succeeds(h, g) \/ ~Awaited(h)
                /\ g.pc = pc
                /\ \A k \in handlers' : k \in handlers \ {h} \/ (k = g /\ Awaited(h))
<1> DEFINE g == Fresh(h.job, h.attempt, pc)
<1>1. h.job \in Jobs /\ h.attempt \in 1 .. MaxAttempts
  BY HandlerIs DEF HandlerTypes, Able
<1>2. g.job = h.job /\ g.attempt = h.attempt /\ g.pc = pc /\ g.now = now
  BY <1>1, FreshIs
<1>3. \A k \in handlers' : k \in handlers \ {h} \/ (k = g /\ Awaited(h))
  BY DEF Ends, Becomes
<1> HIDE DEF g
<1>4. Succeeds(h, g) \/ ~Awaited(h)
  BY <1>2 DEF Succeeds
<1> QED
  BY <1>2, <1>3, <1>4

\* Where a handler goes on to: the next unit, what is still open, or its end.
LEMMA ContinuesIs ==
  ASSUME HandlerTypes, BoundTypes, NEW h \in handlers, NEW g \in Able, Continues(h, g),
         g.job = h.job, g.attempt = h.attempt, g.now = h.now
  PROVE  \E k : /\ Succeeds(h, k) \/ ~Awaited(h)
                /\ \A x \in handlers' : x \in handlers \ {h} \/ (x = k /\ Succeeds(h, k))
                /\ \/ k.pc = "decide" /\ k.todo = g.todo /\ k.open = g.open
                   \/ k.pc = "wait" /\ g.todo = {} /\ k.open = g.open
                   \/ k.pc = "returned" /\ g.todo = {} /\ g.open = {}
<1>1. CASE g.todo # {} /\ Becomes(h, [g EXCEPT !.pc = "decide"])
  <2> DEFINE k == [g EXCEPT !.pc = "decide"]
  <2>1. /\ k.pc = "decide" /\ k.todo = g.todo /\ k.open = g.open /\ k.job = h.job
        /\ k.attempt = h.attempt /\ k.now = h.now
    BY DEF Able, Handler
  <2>2. \A x \in handlers' : x \in handlers \ {h} \/ x = k
    BY <1>1, BecomesIs
  <2> HIDE DEF k
  <2>3. Succeeds(h, k)
    BY <2>1 DEF Succeeds, Running, Ended
  <2> QED
    BY <2>1, <2>2, <2>3
<1>2. CASE g.todo = {} /\ Becomes(h, [g EXCEPT !.pc = "wait"])
  <2> DEFINE k == [g EXCEPT !.pc = "wait"]
  <2>1. /\ k.pc = "wait" /\ k.open = g.open /\ k.job = h.job
        /\ k.attempt = h.attempt /\ k.now = h.now
    BY DEF Able, Handler
  <2>2. \A x \in handlers' : x \in handlers \ {h} \/ x = k
    BY <1>2, BecomesIs
  <2> HIDE DEF k
  <2>3. Succeeds(h, k)
    BY <2>1 DEF Succeeds, Running, Ended
  <2> QED
    BY <1>2, <2>1, <2>2, <2>3
<1>3. CASE g.todo = {} /\ g.open = {} /\ Ends(h, "returned")
  <2>1. PICK k : /\ Succeeds(h, k) \/ ~Awaited(h)
                 /\ k.pc = "returned"
                 /\ \A x \in handlers' : x \in handlers \ {h} \/ (x = k /\ Awaited(h))
    BY <1>3, EndsIs DEF Ended
  <2> QED
    BY <1>3, <2>1
<1> QED
  BY <1>1, <1>2, <1>3 DEF Continues

\* A row that did not change moved nowhere.
LEMMA RowStays ==
  ASSUME RowTypes, NEW m \in Messages, row'[m] = row[m]
  PROVE  RowMoves(m)
BY DEF RowMoves, RowTypes, RowType

LEMMA RowDone ==
  ASSUME RowTypes, NEW m \in Messages, row[m].state = "PENDING", row'[m].state \in {"DONE", "FAILED"}
  PROVE  RowMoves(m)
BY DEF RowMoves

\* Handler k goes on for h, or h ends unheard.
After(h, k) == \A x \in handlers' : x \in handlers \ {h} \/ (x = k /\ Succeeds(h, k))

LEMMA EndsAfter ==
  ASSUME HandlerTypes, BoundTypes, NEW h \in handlers, NEW pc \in Ended, Ends(h, pc)
  PROVE  \E k : After(h, k) /\ k.pc = pc
<1>1. PICK k : /\ Succeeds(h, k) \/ ~Awaited(h)
               /\ k.pc = pc
               /\ \A x \in handlers' : x \in handlers \ {h} \/ (x = k /\ Awaited(h))
  BY EndsIs
<1> QED
  BY <1>1 DEF After

LEMMA BecomesAfter ==
  ASSUME NEW h \in handlers, NEW g, Becomes(h, g), g.job = h.job, g.attempt = h.attempt,
         g.now = h.now, g.pc \in Pc
  PROVE  After(h, g)
<1>1. \A k \in handlers' : k \in handlers \ {h} \/ k = g
  BY BecomesIs
<1>2. Succeeds(h, g)
  BY DEF Succeeds, Running, Ended, Pc
<1> QED
  BY <1>1, <1>2 DEF After

LEMMA ContinuesAfter ==
  ASSUME HandlerTypes, BoundTypes, NEW h \in handlers, NEW g \in Able, Continues(h, g),
         g.job = h.job, g.attempt = h.attempt, g.now = h.now
  PROVE  \E k : /\ After(h, k)
                /\ \/ k.pc = "decide" /\ k.todo = g.todo /\ k.open = g.open
                   \/ k.pc = "wait" /\ g.todo = {} /\ k.open = g.open
                   \/ k.pc = "returned" /\ g.todo = {} /\ g.open = {}
<1>1. PICK k : /\ \A x \in handlers' : x \in handlers \ {h} \/ (x = k /\ Succeeds(h, k))
               /\ \/ k.pc = "decide" /\ k.todo = g.todo /\ k.open = g.open
                  \/ k.pc = "wait" /\ g.todo = {} /\ k.open = g.open
                  \/ k.pc = "returned" /\ g.todo = {} /\ g.open = {}
  BY ContinuesIs
<1> QED
  BY <1>1 DEF After

\* What a handler that looked has before it. It was not told anything about the
\* rows: what is pending it knows, and all of it.
LEMMA LooksAfter ==
  ASSUME TypeInv, NEW h \in handlers, Looks(h)
  PROVE  \E k : /\ After(h, k)
                /\ \/ k.pc = "align" /\ k.until > h.now
                      /\ \E m \in Pending : row[m].tagged /\ row[m].wait = k.until
                   \/ k.pc = "drop" /\ k.seen = Pending
                   \/ k.pc = "hear"
                   \/ k.pc = "decide" /\ k.todo = Ready(Pending, h.now)
                      /\ k.open = Pending \ UNION Ready(Pending, h.now)
                   \/ k.pc = "wait" /\ k.open = Pending
                   \/ k.pc = "returned" /\ Pending = {}
<1>0. /\ RowTypes /\ BoundTypes /\ HandlerTypes /\ WorldTypes /\ ChatType
  BY Types DEF MailTypes, ChatType
<1>1. h \in Handler /\ h.now \in Nat /\ h \in Able
  BY <1>0, HandlerIs DEF HandlerTypes, Able
<1>2. Pending \in SUBSET Messages
  BY PendingIn
<1>3. CASE Pending = {} /\ Ends(h, "returned")
  <2>1. PICK k : After(h, k) /\ k.pc = "returned"
    BY <1>0, <1>3, EndsAfter DEF Ended
  <2> QED
    BY <1>3, <2>1
<1>4. CASE /\ Backoffs(Pending, h.now) # {}
           /\ Becomes(h, [h EXCEPT !.pc = "align", !.until = Max(Backoffs(Pending, h.now))])
  <2> DEFINE u == Max(Backoffs(Pending, h.now))
             g == [h EXCEPT !.pc = "align", !.until = u]
  <2>1. u > h.now /\ \E m \in Pending : row[m].tagged /\ row[m].wait = u
    BY <1>0, <1>1, <1>2, <1>4, BackoffsIn
  <2> HIDE DEF u
  <2>2. g.pc = "align" /\ g.until = u /\ g.job = h.job /\ g.attempt = h.attempt /\ g.now = h.now
    BY <1>1 DEF Handler
  <2>3. Becomes(h, g)
    BY <1>4 DEF u
  <2> HIDE DEF g
  <2>4. After(h, g)
    BY <2>2, <2>3, BecomesAfter DEF Pc
  <2> QED
    BY <2>1, <2>2, <2>4
<1>5. CASE Becomes(h, [h EXCEPT !.pc = "drop", !.seen = Pending])
  <2> DEFINE g == [h EXCEPT !.pc = "drop", !.seen = Pending]
  <2>1. g.pc = "drop" /\ g.seen = Pending /\ g.job = h.job /\ g.attempt = h.attempt /\ g.now = h.now
    BY <1>1 DEF Handler
  <2> HIDE DEF g
  <2>2. After(h, g)
    BY <1>5, <2>1, BecomesAfter DEF Pc, g
  <2> QED
    BY <2>1, <2>2
<1>6. CASE Becomes(h, [h EXCEPT !.pc = "hear", !.seen = Pending, !.voices = Unheard(Pending),
                                !.tries = Tries(Pending), !.sender = sender])
  <2> DEFINE g == [h EXCEPT !.pc = "hear", !.seen = Pending, !.voices = Unheard(Pending),
                            !.tries = Tries(Pending), !.sender = sender]
  <2>1. g.pc = "hear" /\ g.job = h.job /\ g.attempt = h.attempt /\ g.now = h.now
    BY <1>1 DEF Handler
  <2> HIDE DEF g
  <2>2. After(h, g)
    BY <1>6, <2>1, BecomesAfter DEF Pc, g
  <2> QED
    BY <2>1, <2>2
<1>7. CASE sender # "blocked" /\ Continues(h, Planned([h EXCEPT !.sender = sender], Pending))
  <2> DEFINE s == [h EXCEPT !.sender = sender]
             g == Planned(s, Pending)
  <2>1. sender \in {"editor", "siteless"}
    BY <1>0, <1>7 DEF WorldTypes
  <2>2. s \in Handler /\ s.job = h.job /\ s.attempt = h.attempt /\ s.now = h.now
    BY <1>1, <2>1 DEF Handler
  <2>3. Continues(h, g)
    BY <1>7
  <2> HIDE DEF s
  <2>4. /\ g \in Able /\ g.job = h.job /\ g.attempt = h.attempt /\ g.now = h.now
        /\ g.todo = Ready(Pending, h.now) /\ g.open = Pending \ UNION Ready(Pending, h.now)
    BY <1>0, <1>2, <2>2, PlannedIs
  <2> HIDE DEF g
  <2>5. PICK k : /\ After(h, k)
                 /\ \/ k.pc = "decide" /\ k.todo = g.todo /\ k.open = g.open
                    \/ k.pc = "wait" /\ g.todo = {} /\ k.open = g.open
                    \/ k.pc = "returned" /\ g.todo = {} /\ g.open = {}
    BY <1>0, <2>3, <2>4, ContinuesAfter
  <2>6. g.todo = {} => g.open = Pending
    BY <2>4
  <2> QED
    BY <2>4, <2>5, <2>6
<1> QED
  BY <1>3, <1>4, <1>5, <1>6, <1>7 DEF Looks

LEMMA PlansAfter ==
  ASSUME TypeInv, NEW h \in handlers, Plans(h)
  PROVE  \E k : /\ After(h, k)
                /\ \/ k.pc = "decide" /\ k.todo = Ready(Pending, h.now)
                      /\ k.open = Pending \ UNION Ready(Pending, h.now)
                   \/ k.pc = "wait" /\ k.open = Pending
                   \/ k.pc = "returned" /\ Pending = {}
<1>0. RowTypes /\ BoundTypes /\ HandlerTypes /\ ChatType
  BY Types DEF MailTypes, ChatType
<1>1. h \in Handler
  BY <1>0 DEF HandlerTypes, Able
<1> DEFINE g == Planned(h, Pending)
<1>2. /\ g \in Able /\ g.job = h.job /\ g.attempt = h.attempt /\ g.now = h.now
      /\ g.todo = Ready(Pending, h.now) /\ g.open = Pending \ UNION Ready(Pending, h.now)
  BY <1>0, <1>1, PendingIn, PlannedIs
<1>3. Continues(h, g)
  BY DEF Plans
<1> HIDE DEF g
<1>4. PICK k : /\ After(h, k)
               /\ \/ k.pc = "decide" /\ k.todo = g.todo /\ k.open = g.open
                  \/ k.pc = "wait" /\ g.todo = {} /\ k.open = g.open
                  \/ k.pc = "returned" /\ g.todo = {} /\ g.open = {}
  BY <1>0, <1>2, <1>3, ContinuesAfter
<1>5. g.todo = {} => g.open = Pending
  BY <1>2
<1> QED
  BY <1>2, <1>4, <1>5

\* A unit is concluded.
Concludes(h) == SetsAside(h) \/ Answers(h) \/ Creates(h) \/ Applies(h)

LEMMA ConcludesIs ==
  ASSUME TypeInv, NEW h \in handlers, Concludes(h)
  PROVE  /\ h.pc = "write" /\ Unchanged(h) /\ h.unit \subseteq Pending
         /\ UNCHANGED <<now, jobs, chat, late>>
         /\ \A m \in Messages : IF m \in h.unit
                                THEN row[m].state = "PENDING" /\ row'[m].state = "DONE"
                                ELSE row'[m] = row[m]
         /\ \A m \in Messages : entered'[m] = entered[m]
                                  \/ (m \in h.unit /\ entered'[m] = entered[m] + 1)
         /\ (\A m \in Messages : entered'[m] = entered[m])
              \/ \A m \in Messages : entered'[m] > entered[m] <=> m \in h.unit
         /\ \E k : /\ After(h, k)
                   /\ \/ k.pc = "decide" /\ k.todo = h.todo \ {h.unit} /\ k.open = h.open
                      \/ k.pc = "wait" /\ h.todo \ {h.unit} = {} /\ k.open = h.open
                      \/ k.pc = "returned" /\ h.todo \ {h.unit} = {} /\ h.open = {}
<1>0. RowTypes /\ BoundTypes /\ HandlerTypes /\ TraceTypes
  BY Types
<1>1. h.thread \in Messages \cup {None} /\ h.plan \in Outcomes \cup {None}
  BY <1>0, HandlerIs DEF HandlerTypes, Able
<1>2. At(h, "write") /\ Unchanged(h) /\ NextUnit(h) /\ UNCHANGED <<now, jobs, chat, late>>
  BY DEF Concludes, SetsAside, Answers, Creates, Applies, Writes, traces
<1>3. h.unit \subseteq Pending /\ h.unit \subseteq Messages /\ Last(h) \in Messages
  BY <1>2, UnchangedIs
<1>4. \E o \in Outcomes, t \in Messages \cup {None} : Decided(h, o, t)
  <2>1. "noKeyword" \in Outcomes /\ "created" \in Outcomes /\ Verdicts \subseteq Outcomes
    BY DEF Outcomes, Drafted
  <2>2. CASE SetsAside(h)
    BY <2>1, <2>2 DEF SetsAside
  <2>3. CASE Answers(h)
    BY <1>1, <2>1, <2>3 DEF Answers, Writes
  <2>4. CASE Creates(h)
    BY <1>3, <2>1, <2>4 DEF Creates
  <2>5. CASE Applies(h)
    <3>1. Verdict(h.thread, h.sender) \in Outcomes
      BY VerdictIs DEF Outcomes, Drafted
    <3> QED
      BY <1>1, <2>5, <3>1 DEF Applies, LockedVerdict
  <2> QED
    BY <2>2, <2>3, <2>4, <2>5 DEF Concludes
<1>5. \A m \in Messages : IF m \in h.unit THEN row'[m].state = "DONE" ELSE row'[m] = row[m]
  BY <1>0, <1>4, DecidedIs
<1>6. \A m \in h.unit : row[m].state = "PENDING"
  BY <1>3 DEF Pending
<1>7. UNCHANGED entered \/ Enters(h.unit)
  BY DEF Concludes, SetsAside, Answers, Creates, Applies, traces
<1>8. /\ \A m \in Messages : entered'[m] = entered[m]
                               \/ (m \in h.unit /\ entered'[m] = entered[m] + 1)
      /\ (\A m \in Messages : entered'[m] = entered[m])
           \/ \A m \in Messages : entered'[m] > entered[m] <=> m \in h.unit
  <2>1. CASE UNCHANGED entered
    BY <2>1
  <2>2. CASE Enters(h.unit)
    <3>1. \A m \in Messages : entered[m] \in Nat
      BY <1>0 DEF TraceTypes
    <3>2. \A m \in Messages : entered'[m] = IF m \in h.unit THEN entered[m] + 1 ELSE entered[m]
      BY <2>2 DEF Enters
    <3> QED
      BY <3>1, <3>2
  <2> QED
    BY <1>7, <2>1, <2>2
<1>9. \E k : /\ After(h, k)
             /\ \/ k.pc = "decide" /\ k.todo = h.todo \ {h.unit} /\ k.open = h.open
                \/ k.pc = "wait" /\ h.todo \ {h.unit} = {} /\ k.open = h.open
                \/ k.pc = "returned" /\ h.todo \ {h.unit} = {} /\ h.open = {}
  <2>1. PICK g \in Able : /\ Continues(h, g) /\ g.todo = h.todo \ {h.unit} /\ g.open = h.open
                          /\ g.job = h.job /\ g.attempt = h.attempt /\ g.now = h.now
    BY <1>0, <1>2, NextUnitIs
  <2>2. PICK k : /\ After(h, k)
                 /\ \/ k.pc = "decide" /\ k.todo = g.todo /\ k.open = g.open
                    \/ k.pc = "wait" /\ g.todo = {} /\ k.open = g.open
                    \/ k.pc = "returned" /\ g.todo = {} /\ g.open = {}
    BY <1>0, <2>1, ContinuesAfter
  <2> QED
    BY <2>1, <2>2
<1> QED
  BY <1>2, <1>3, <1>5, <1>6, <1>8, <1>9 DEF At

LEMMA HearsAfter ==
  ASSUME TypeInv, NEW h \in handlers, Hears(h)
  PROVE  \E k : After(h, k) /\ k.pc \in {"hear", "plan"}
<1>1. h \in Handler
  BY Types DEF HandlerTypes, Able
<1> DEFINE v == h.voices \ {Min(h.voices)}
           p == IF h.voices = {Min(h.voices)} THEN "plan" ELSE "hear"
           g == [h EXCEPT !.voices = v, !.pc = p]
<1>2. Becomes(h, g)
  BY <1>1 DEF Hears, Handler
<1>3. p \in {"hear", "plan"}
  OBVIOUS
<1> HIDE DEF v, p
<1>4. g.pc = p /\ g.job = h.job /\ g.attempt = h.attempt /\ g.now = h.now
  BY <1>1 DEF Handler
<1> HIDE DEF g
<1>5. After(h, g)
  BY <1>2, <1>3, <1>4, BecomesAfter DEF Pc
<1> QED
  BY <1>3, <1>4, <1>5

LEMMA DecidesAfter ==
  ASSUME TypeInv, NEW h \in handlers, Decides(h)
  PROVE  \E k : /\ After(h, k)
                /\ k.pc = "write" /\ k.unit \in h.todo /\ k.todo = h.todo /\ k.open = h.open
                /\ \A V \in h.todo : Min(k.unit) <= Min(V)
<1>1. PICK g \in Able : /\ Becomes(h, g) /\ g.pc = "write" /\ g.unit \in h.todo
                        /\ \A V \in h.todo : Min(g.unit) <= Min(V)
                        /\ g.todo = h.todo /\ g.open = h.open
                        /\ g.job = h.job /\ g.attempt = h.attempt /\ g.now = h.now
  BY DecidesIs
<1>2. After(h, g)
  BY <1>1, BecomesAfter DEF Pc
<1> QED
  BY <1>1, <1>2

\* What fails, as of a message or of a unit.
Fails(h) == HearingFails(h) \/ UnitFails(h)

LEMMA FailsIs ==
  ASSUME NEW h, Fails(h)
  PROVE  \E m, S : Defers(h, m) \/ Exhausts(h, m, S)
BY DEF Fails, HearingFails, UnitFails

LEMMA ThrowsIs ==
  ASSUME TypeInv, NEW h \in handlers, Throws(h) \/ FindsTokenRevoked(h)
  PROVE  /\ Running(h) /\ UNCHANGED <<now, jobs, chat, row, late>> /\ UNCHANGED entered
         /\ \E k : After(h, k) /\ k.pc = "threw"
<1>1. BoundTypes /\ HandlerTypes
  BY Types
<1>2. Ends(h, "threw")
  BY DEF Throws, FindsTokenRevoked
<1>3. \E k : After(h, k) /\ k.pc = "threw"
  BY <1>1, <1>2, EndsAfter DEF Ended
<1> QED
  BY <1>3 DEF Throws, FindsTokenRevoked, mail, traces, Running, At, Writes, Ended

LEMMA HandlerMoves ==
  ASSUME TypeInv, NEW h \in handlers, Acts(h)
  PROVE  /\ UNCHANGED <<now, chat, late>> /\ Running(h)
         /\ JobsAdd /\ \A m \in Messages : RowMoves(m)
         /\ \E k : After(h, k)
<1>0. JobTypes /\ RowTypes /\ BoundTypes /\ HandlerTypes
  BY Types
<1>1. h.now \in Nat /\ h.until \in Nat
  BY <1>0, HandlerIs DEF HandlerTypes, Able
<1>2. Ends(h, "returned") => \E k : After(h, k)
  BY <1>0, EndsAfter DEF Ended
<1>3. UNCHANGED row => \A m \in Messages : RowMoves(m)
  BY <1>0, RowStays
<1>4. UNCHANGED jobs => JobsAdd
  BY UnchangedJobs
<1>5. \A m \in Messages : row[m].wait \in Nat
  BY <1>0 DEF RowTypes, RowType
<1>6. UNCHANGED <<now, chat, late>> /\ Running(h)
  BY DEF Acts, HandlerStep, Looks, Aligns, Drops, Hears, HearingFails, Plans, Decides, UnitFails,
         Defers, Exhausts, FindsChanged, SetsAside, Answers, Creates, Applies, Waits, Throws,
         FindsTokenRevoked, Writes, At, Running, Ended, mail, traces
<1>7. CASE Looks(h)
  BY <1>3, <1>4, <1>6, <1>7, LooksAfter DEF Looks, mail
<1>8. CASE Aligns(h)
  <2>1. \A m \in Messages : row'[m].state = row[m].state /\ row'[m].wait >= row[m].wait
    BY <1>0, <1>1, <1>5, <1>8, AlignsRow
  <2>2. \A m \in Messages : RowMoves(m)
    BY <2>1 DEF RowMoves
  <2> QED
    BY <1>2, <1>4, <1>6, <1>8, <2>2 DEF Aligns
<1>9. CASE Drops(h)
  <2>1. \A m \in Messages : RowMoves(m)
    BY <1>0, <1>9, DropsRow, RowDone, RowStays
  <2> QED
    BY <1>2, <1>4, <1>6, <1>9, <2>1 DEF Drops
<1>10. CASE Hears(h)
  <2>1. \A m \in Messages : row'[m].state = row[m].state /\ row'[m].wait >= row[m].wait
    BY <1>0, <1>5, <1>10, HearsRow
  <2>2. \A m \in Messages : RowMoves(m)
    BY <2>1 DEF RowMoves
  <2> QED
    BY <1>4, <1>6, <1>10, <2>2, HearsAfter DEF Hears
<1>11. CASE Fails(h)
  <2>1. PICK m, S : Defers(h, m) \/ Exhausts(h, m, S)
    BY <1>11, FailsIs
  <2>2. CASE Defers(h, m)
    <3>1. PICK t \in Nat : /\ IntakeAt(t)
                           /\ \A n \in Messages :
                                /\ row'[n].state = row[n].state
                                /\ row[n].state = "PENDING" => row'[n].wait = t \/ row'[n].wait = row[n].wait
                                /\ row[n].state = "PENDING" => row'[n].wait >= t
                                /\ row'[n].tagged => row'[n].wait = t \/ row[n].tagged
      BY <1>0, <2>2, DefersIs
    <3>2. JobsAdd /\ Woken(t)
      BY <1>0, <3>1, EnqueueAdds
    <3>3. ASSUME NEW n \in Messages PROVE RowMoves(n)
      BY <1>5, <3>1, <3>2 DEF RowMoves
    <3> QED
      BY <1>2, <1>6, <2>2, <3>2, <3>3 DEF Defers
  <2>3. CASE Exhausts(h, m, S)
    <3>1. /\ IntakeAt(h.now)
          /\ \A n \in Messages : IF n \in S /\ row[n].state = "PENDING"
                                 THEN row'[n].state = "FAILED" ELSE row'[n] = row[n]
      BY <1>0, <2>3, ExhaustsIs
    <3>2. JobsAdd
      BY <1>0, <1>1, <3>1, EnqueueAdds
    <3>3. ASSUME NEW n \in Messages PROVE RowMoves(n)
      BY <1>0, <3>1, RowDone, RowStays
    <3> QED
      BY <1>2, <1>6, <2>3, <3>2, <3>3 DEF Exhausts
  <2> QED
    BY <2>1, <2>2, <2>3
<1>12. CASE Plans(h)
  BY <1>3, <1>4, <1>6, <1>12, PlansAfter DEF Plans, mail
<1>13. CASE Decides(h)
  BY <1>3, <1>4, <1>6, <1>13, DecidesAfter DEF Decides, mail
<1>14. CASE FindsChanged(h)
  <2>1. JobsAdd
    BY <1>0, <1>1, <1>14, EnqueueAdds DEF FindsChanged
  <2> QED
    BY <1>2, <1>3, <1>6, <1>14, <2>1 DEF FindsChanged, mail
<1>15. CASE Concludes(h)
  <2>1. \A m \in Messages : IF m \in h.unit
                            THEN row[m].state = "PENDING" /\ row'[m].state = "DONE"
                            ELSE row'[m] = row[m]
    BY <1>15, ConcludesIs
  <2>2. \A m \in Messages : RowMoves(m)
    BY <1>0, <2>1, RowDone, RowStays
  <2>3. UNCHANGED jobs /\ \E k : After(h, k)
    BY <1>15, ConcludesIs
  <2> QED
    BY <1>4, <1>6, <2>2, <2>3
<1>16. CASE Waits(h)
  <2>1. JobsAdd /\ Woken(h.until)
    BY <1>0, <1>1, <1>16, EnqueueAdds DEF Waits
  <2>2. ASSUME NEW m \in Messages PROVE RowMoves(m)
    <3>1. row'[m].state = row[m].state /\ (row'[m].wait = row[m].wait \/ row'[m].wait = h.until)
      BY <1>0, <1>16, WaitsRow
    <3> QED
      BY <1>5, <2>1, <3>1 DEF RowMoves
  <2> QED
    BY <1>2, <1>6, <1>16, <2>1, <2>2 DEF Waits
<1>17. CASE Throws(h) \/ FindsTokenRevoked(h)
  BY <1>3, <1>4, <1>6, <1>17, ThrowsIs
<1> QED
  BY <1>7, <1>8, <1>9, <1>10, <1>11, <1>12, <1>13, <1>14, <1>15, <1>16, <1>17
     DEF Acts, HandlerStep, Fails, Concludes

-----------------------------------------------------------------------------
(* Handlers and jobs *)

\* No two handlers make the same attempt of a job; one that ended is waited for;
\* the one that is waited for belongs to the lane's round; a job that runs is
\* due whenever it is put back.
HandlersApart ==
  /\ \A h \in handlers : h.attempt <= jobAttempts[h.job]
  /\ \A h, g \in handlers : h.job = g.job /\ h.attempt = g.attempt => h = g
  /\ \A h \in handlers : Running(h) \/ Awaited(h)
  /\ \A h \in handlers : Awaited(h) => h.now = now
  /\ \A j \in Jobs : jobStatus[j] = "RUNNING" => runAt[j] = 0

LEMMA AddKeeps ==
  ASSUME JobsAdd
  PROVE  /\ \A h : h.job \in Jobs => (Awaited(h)' <=> Awaited(h))
         /\ LaneIdle' <=> LaneIdle
         /\ \A t : Awake(t) => Woken(t)
         /\ \A j \in Jobs : jobStatus'[j] = "RUNNING" => jobStatus[j] = "RUNNING" /\ runAt'[j] = runAt[j]
<1>1. \A j \in Jobs : (jobStatus'[j] = "RUNNING" <=> jobStatus[j] = "RUNNING")
  BY DEF JobsAdd
<1>2. \A h : h.job \in Jobs => (Awaited(h)' <=> Awaited(h))
  BY <1>1 DEF Awaited, JobsAdd
<1>3. LaneIdle' <=> LaneIdle
  BY <1>1 DEF LaneIdle
<1>4. \A t : Awake(t) => Woken(t)
  BY DEF Awake, Woken, JobsAdd
<1> QED
  BY <1>1, <1>2, <1>3, <1>4 DEF JobsAdd

LEMMA HandlerJob ==
  ASSUME TypeInv, NEW h \in handlers
  PROVE  /\ h.job \in Jobs /\ h.attempt \in Nat /\ h.now \in Nat /\ h.until \in Nat
         /\ jobAttempts[h.job] \in Nat
<1>1. JobTypes /\ h \in Handler /\ MaxAttempts \in Nat
  BY Types, WaAssumption DEF HandlerTypes, Able
<1> QED
  BY <1>1, HandlerIs DEF JobTypes

\* What is not a step of a handler leaves them and the jobs alone.
Outside == \/ SenderChanges \/ NumberChanges
           \/ \E m \in Messages : AnswerIsSent(m) \/ AnswerFails(m) \/ UserActs(m)

LEMMA OutsideIs ==
  ASSUME Outside
  PROVE  UNCHANGED <<now, jobs, chat, row, handlers, traces>>
BY DEF Outside, SenderChanges, NumberChanges, AnswerIsSent, AnswerFails, UserActs, mail

LEMMA ApartInit == Init => HandlersApart
BY DEF Init, HandlersApart, Queue!Init

LEMMA ApartActs ==
  ASSUME TypeInv, HandlersApart, NEW h \in handlers, Acts(h)
  PROVE  HandlersApart'
<1>1. PICK k : After(h, k)
  BY HandlerMoves
<1>2. JobsAdd /\ UNCHANGED now /\ Running(h)
  BY HandlerMoves
<1>3. \A x \in handlers' : x \in handlers \ {h} \/ (x = k /\ Succeeds(h, k))
  BY <1>1 DEF After
<1>4. ASSUME NEW x \in handlers'
      PROVE  /\ \E y \in handlers : /\ y.job = x.job /\ y.attempt = x.attempt
                                    /\ (y = x /\ x # h) \/ (y = h /\ x = k)
             /\ x.job \in Jobs
             /\ Running(x) \/ Awaited(x)
             /\ Awaited(x) => x.now = now
  <2>1. CASE x \in handlers \ {h}
    BY <2>1, HandlerJob DEF HandlersApart
  <2>2. CASE x = k /\ Succeeds(h, k)
    <3>1. x.job = h.job /\ x.attempt = h.attempt /\ (Awaited(x) <=> Awaited(h))
      BY <2>2 DEF Succeeds, Awaited
    <3>2. Awaited(h) => h.now = now
      BY DEF HandlersApart
    <3>3. x.now = h.now \/ x.now = now
      BY <2>2 DEF Succeeds
    <3>4. Running(x) \/ Awaited(h)
      BY <2>2 DEF Succeeds
    <3> QED
      BY <2>2, <3>1, <3>2, <3>3, <3>4, HandlerJob
  <2> QED
    BY <1>3, <2>1, <2>2
<1>5. \A x \in handlers' : (Awaited(x)' <=> Awaited(x)) /\ (Running(x)' <=> Running(x))
  BY <1>2, <1>4, AddKeeps DEF Running
<1>6. \A x \in handlers' : x.attempt <= jobAttempts'[x.job]
  BY <1>2, <1>4 DEF JobsAdd, HandlersApart
<1>7. ASSUME NEW x \in handlers', NEW y \in handlers', x.job = y.job, x.attempt = y.attempt
      PROVE  x = y
  <2>1. PICK v \in handlers : /\ v.job = x.job /\ v.attempt = x.attempt
                              /\ (v = x /\ x # h) \/ (v = h /\ x = k)
    BY <1>4
  <2>2. PICK w \in handlers : /\ w.job = y.job /\ w.attempt = y.attempt
                              /\ (w = y /\ y # h) \/ (w = h /\ y = k)
    BY <1>4
  <2>3. v = w
    BY <1>7, <2>1, <2>2 DEF HandlersApart
  <2> QED
    BY <2>1, <2>2, <2>3
<1>8. \A j \in Jobs : jobStatus'[j] = "RUNNING" => runAt'[j] = 0
  BY <1>2, AddKeeps DEF HandlersApart
<1> QED
  BY <1>2, <1>4, <1>5, <1>6, <1>7, <1>8 DEF HandlersApart

\* No handler is waited for while the lane is idle.
LEMMA IdleAwaitsNone ==
  ASSUME TypeInv, LaneIdle, NEW h \in handlers
  PROVE  ~Awaited(h)
BY HandlerJob DEF LaneIdle, Awaited

\* What an end without a result does to the jobs.
LEMMA BackIs ==
  ASSUME TypeInv, HandlersApart, NEW S \in SUBSET Jobs, Queue!PutBackOrGiveUp(S), UNCHANGED runAt
  PROVE  /\ jobAttempts' = jobAttempts /\ S # {}
         /\ \A j \in S : /\ jobStatus[j] = "RUNNING"
                         /\ jobStatus'[j] \in {"PENDING", "FAILED"} /\ runAt'[j] = 0
         /\ \A j \in Jobs \ S : jobStatus'[j] = jobStatus[j] /\ runAt'[j] = runAt[j]
         /\ \A t : Awake(t) => Woken(t)
<1>1. /\ jobAttempts' = jobAttempts
      /\ \A j \in S : jobStatus[j] = "RUNNING" /\ jobStatus'[j] \in {"PENDING", "FAILED"}
      /\ \A j \in Jobs \ S : jobStatus'[j] = jobStatus[j]
      /\ S # {}
  BY PutsBack, Types
<1>2. \A j \in S : runAt'[j] = 0
  BY <1>1 DEF HandlersApart
<1>3. \A t : Awake(t) => Woken(t)
  <2> SUFFICES ASSUME NEW t, NEW j \in Jobs, jobStatus[j] = "PENDING", runAt[j] = t
               PROVE  jobStatus'[j] = "PENDING" /\ runAt'[j] = t
    BY DEF Awake, Woken
  <2>1. j \notin S
    BY <1>1
  <2> QED
    BY <1>1, <2>1
<1> QED
  BY <1>1, <1>2, <1>3

\* A handler that is waited for is the only one of its job that is.
LEMMA AwaitedOnce ==
  ASSUME HandlersApart, NEW h \in handlers, NEW g \in handlers, Awaited(h), Awaited(g), h.job = g.job
  PROVE  h = g
BY DEF HandlersApart, Awaited

LEMMA RecordsAdds ==
  ASSUME TypeInv, NEW m \in Messages, Records(m)
  PROVE  /\ LaneIdle /\ JobsAdd /\ UNCHANGED <<now, handlers, entered>>
         /\ row[m].state = "absent" /\ \A n \in Messages \ {m} : row'[n] = row[n]
         /\ row'[m].state \in {"PENDING", "DONE"}
         /\ row'[m].state = "PENDING" => Woken(row'[m].wait)
         /\ late' = IF \E n \in Messages : n > m /\ row[n].state # "absent"
                    THEN late \cup {m} ELSE late
         /\ \E t \in WritingTimes(m) : chat'[m].at = t
         /\ \A n \in Messages \ {m} : chat'[n] = chat[n]
<1>0. JobTypes /\ RowTypes /\ MailTypes /\ now \in Nat
  BY Types, NowIsNat
<1>1. PICK c \in Contents, q \in {None} \cup Quotable[m], t \in WritingTimes(m) :
        /\ chat' = [chat EXCEPT ![m] = [at |-> t, voice |-> c.voice, keyword |-> c.keyword,
                                        quotes |-> q]]
        /\ IF TakesIn(t)
           THEN LET due == IF t + BurstQuiet > now THEN t + BurstQuiet ELSE now IN
                /\ row' = [row EXCEPT ![m].state = "PENDING", ![m].wait = due]
                /\ IntakeAt(due)
           ELSE /\ row' = [row EXCEPT ![m].state = "DONE", ![m].outcome = "ignored"]
                /\ UNCHANGED jobs
  BY DEF Records
<1> DEFINE due == IF t + BurstQuiet > now THEN t + BurstQuiet ELSE now
<1>2. t \in Nat /\ due \in Nat
  BY <1>0, WaAssumption DEF WritingTimes
<1>3. row[m] \in RowType /\ row[m].state = "absent"
  BY <1>0 DEF Records, RowTypes
<1>4. chat'[m].at = t /\ \A n \in Messages \ {m} : chat'[n] = chat[n]
  BY <1>0, <1>1 DEF MailTypes
<1>5. /\ JobsAdd /\ \A n \in Messages \ {m} : row'[n] = row[n]
      /\ row'[m].state \in {"PENDING", "DONE"}
      /\ row'[m].state = "PENDING" => Woken(row'[m].wait)
  <2>1. CASE TakesIn(t)
    <3> HIDE DEF due
    <3>1. row' = [row EXCEPT ![m].state = "PENDING", ![m].wait = due] /\ IntakeAt(due)
      BY <1>1, <2>1 DEF due
    <3>2. JobsAdd /\ Woken(due)
      BY <1>0, <1>2, <3>1, EnqueueAdds
    <3>3. /\ row'[m].state = "PENDING" /\ row'[m].wait = due
          /\ \A n \in Messages \ {m} : row'[n] = row[n]
      BY <1>0, <1>3, <3>1 DEF RowTypes, RowType
    <3> QED
      BY <3>2, <3>3
  <2>2. CASE ~TakesIn(t)
    <3>1. row' = [row EXCEPT ![m].state = "DONE", ![m].outcome = "ignored"] /\ UNCHANGED jobs
      BY <1>1, <2>2
    <3>2. row'[m].state = "DONE" /\ \A n \in Messages \ {m} : row'[n] = row[n]
      BY <1>0, <1>3, <3>1 DEF RowTypes, RowType
    <3> QED
      BY <3>1, <3>2, UnchangedJobs
  <2> QED
    BY <2>1, <2>2
<1> QED
  BY <1>3, <1>4, <1>5 DEF Records

LEMMA StartsIs ==
  ASSUME TypeInv, NEW j \in Jobs, Starts(j)
  PROVE  /\ LaneIdle /\ UNCHANGED <<now, mail, world, traces>>
         /\ jobStatus[j] = "PENDING" /\ jobStatus'[j] = "RUNNING" /\ runAt[j] <= now /\ runAt'[j] = 0
         /\ jobAttempts[j] \in Nat /\ jobAttempts'[j] = jobAttempts[j] + 1
         /\ \A i \in Jobs \ {j} : /\ jobStatus'[i] = jobStatus[i] /\ runAt'[i] = runAt[i]
                                  /\ jobAttempts'[i] = jobAttempts[i]
         /\ \E g : /\ handlers' = handlers \cup {g}
                   /\ g.job = j /\ g.attempt = jobAttempts[j] + 1 /\ g.now = now /\ g.pc = "look"
<1>0. JobTypes /\ BoundTypes /\ MaxAttempts \in Nat
  BY Types, WaAssumption
<1>1. /\ jobStatus[j] = "PENDING" /\ jobAttempts[j] < MaxAttempts
      /\ jobStatus' = [jobStatus EXCEPT ![j] = "RUNNING"]
      /\ jobAttempts' = [jobAttempts EXCEPT ![j] = @ + 1]
      /\ runAt' = [runAt EXCEPT ![j] = 0]
      /\ handlers' = handlers \cup {Fresh(j, jobAttempts[j] + 1, "look")}
  BY <1>0 DEF Starts, Queue!Start
<1>2. jobAttempts[j] + 1 \in 1 .. MaxAttempts /\ jobAttempts[j] \in Nat
  BY <1>0, <1>1 DEF JobTypes
<1> DEFINE g == Fresh(j, jobAttempts[j] + 1, "look")
<1>3. g.job = j /\ g.attempt = jobAttempts[j] + 1 /\ g.now = now /\ g.pc = "look"
  BY <1>0, <1>2, FreshIs DEF Pc
<1> HIDE DEF g
<1>4. /\ jobStatus'[j] = "RUNNING" /\ runAt'[j] = 0 /\ jobAttempts'[j] = jobAttempts[j] + 1
      /\ \A i \in Jobs \ {j} : /\ jobStatus'[i] = jobStatus[i] /\ runAt'[i] = runAt[i]
                               /\ jobAttempts'[i] = jobAttempts[i]
  BY <1>0, <1>1 DEF JobTypes
<1> QED
  BY <1>1, <1>2, <1>3, <1>4 DEF Starts, g

LEMMA ApartLane ==
  ASSUME TypeInv, HandlersApart,
         \/ BeginsRound \/ Crash \/ Outside
         \/ \E m \in Messages : Records(m)
         \/ \E j \in Jobs : Starts(j)
         \/ \E h \in handlers : Settles(h) \/ TimesOut(h)
  PROVE  HandlersApart'
<1>1. CASE BeginsRound
  <2>1. \A h \in handlers : ~Awaited(h)
    BY <1>1, IdleAwaitsNone DEF BeginsRound
  <2> QED
    BY <1>1, <2>1 DEF BeginsRound, HandlersApart, Awaited, Running, jobs
<1>2. CASE Crash
  <2> DEFINE orphans == {j \in Jobs : jobStatus[j] = "RUNNING"}
  <2>1. Queue!PutBackOrGiveUp(orphans) /\ UNCHANGED runAt /\ handlers' = {}
    BY <1>2 DEF Crash
  <2>2. \A j \in orphans : jobStatus'[j] \in {"PENDING", "FAILED"}
    BY <2>1, BackIs
  <2>3. \A j \in Jobs \ orphans : jobStatus'[j] = jobStatus[j]
    BY <2>1, BackIs
  <2>4. \A j \in Jobs : jobStatus'[j] # "RUNNING"
    BY <2>2, <2>3
  <2> QED
    BY <2>1, <2>4 DEF HandlersApart
<1>3. CASE Outside
  <2>1. UNCHANGED <<now, jobs, handlers>>
    BY <1>3, OutsideIs
  <2> QED
    BY <2>1 DEF HandlersApart, Awaited, Running, jobs
<1>4. ASSUME NEW m \in Messages, Records(m)
      PROVE  HandlersApart'
  <2>1. JobsAdd /\ UNCHANGED <<now, handlers>>
    BY <1>4, RecordsAdds
  <2>2. \A h \in handlers : Awaited(h)' <=> Awaited(h)
    BY <2>1, AddKeeps, HandlerJob
  <2>3. \A j \in Jobs : jobStatus'[j] = "RUNNING" => runAt'[j] = 0
    BY <2>1, AddKeeps DEF HandlersApart
  <2> QED
    BY <2>1, <2>2, <2>3 DEF HandlersApart, JobsAdd, Running
<1>5. ASSUME NEW j \in Jobs, Starts(j)
      PROVE  HandlersApart'
  <2>1. PICK g : /\ handlers' = handlers \cup {g}
                 /\ g.job = j /\ g.attempt = jobAttempts[j] + 1 /\ g.now = now /\ g.pc = "look"
    BY <1>5, StartsIs
  <2>2. /\ LaneIdle /\ now' = now /\ jobStatus'[j] = "RUNNING" /\ runAt'[j] = 0
        /\ jobAttempts[j] \in Nat /\ jobAttempts'[j] = jobAttempts[j] + 1
        /\ \A i \in Jobs \ {j} : /\ jobStatus'[i] = jobStatus[i] /\ runAt'[i] = runAt[i]
                                 /\ jobAttempts'[i] = jobAttempts[i]
    BY <1>5, StartsIs
  <2>3. ASSUME NEW h \in handlers
        PROVE  /\ ~Awaited(h) /\ Running(h) /\ ~Awaited(h)'
               /\ h.attempt <= jobAttempts'[h.job]
               /\ h.job = j => h.attempt # g.attempt
    <3>1. ~Awaited(h) /\ Running(h) /\ h.attempt <= jobAttempts[h.job]
      BY <2>2, IdleAwaitsNone DEF HandlersApart
    <3>2. h.job \in Jobs /\ h.attempt \in Nat
      BY HandlerJob
    <3>3. CASE h.job = j
      BY <2>1, <2>2, <3>1, <3>2, <3>3 DEF Awaited
    <3>4. CASE h.job # j
      BY <2>2, <3>1, <3>2, <3>4 DEF Awaited, LaneIdle
    <3> QED
      BY <3>1, <3>3, <3>4
  <2>4. Running(g) /\ g.attempt <= jobAttempts'[g.job]
    BY <2>1, <2>2 DEF Running, Ended
  <2>5. \A i \in Jobs : jobStatus'[i] = "RUNNING" => runAt'[i] = 0
    BY <2>2 DEF LaneIdle
  <2>6. \A h, k \in handlers' : h.job = k.job /\ h.attempt = k.attempt => h = k
    BY <2>1, <2>3 DEF HandlersApart
  <2> QED
    BY <2>1, <2>2, <2>3, <2>4, <2>5, <2>6 DEF HandlersApart, Running
<1>6. ASSUME NEW h \in handlers, UNCHANGED <<now, runAt, jobAttempts>>,
             handlers' \subseteq handlers, Awaited(h),
             \A x \in handlers' : x = h => Running(h),
             \A j \in Jobs \ {h.job} : jobStatus'[j] = jobStatus[j],
             jobStatus'[h.job] # "RUNNING"
      PROVE  HandlersApart'
  <2>1. ASSUME NEW x \in handlers'
        PROVE  Running(x) \/ Awaited(x)'
    <3>1. CASE x.job = h.job
      BY <1>6, <2>1, <3>1, AwaitedOnce DEF HandlersApart
    <3>2. CASE x.job # h.job
      BY <1>6, <2>1, <3>2, HandlerJob DEF HandlersApart, Awaited
    <3> QED
      BY <3>1, <3>2
  <2>2. ASSUME NEW x \in handlers', Awaited(x)' PROVE Awaited(x)
    BY <1>6, <2>2, HandlerJob DEF Awaited
  <2>3. h.job \in Jobs
    BY HandlerJob
  <2>4. \A j \in Jobs : jobStatus'[j] = "RUNNING" => runAt'[j] = 0
    BY <1>6 DEF HandlersApart
  <2> QED
    BY <1>6, <2>1, <2>2, <2>4 DEF HandlersApart, Running
<1>7. ASSUME NEW h \in handlers, Settles(h)
      PROVE  HandlersApart'
  <2>1. ~Running(h) /\ Awaited(h) /\ h.job \in Jobs /\ handlers' = handlers \ {h} /\ UNCHANGED <<now, runAt>>
    BY <1>7, HandlerJob DEF Settles, HandlersApart
  <2>2. /\ jobAttempts' = jobAttempts /\ jobStatus'[h.job] # "RUNNING"
        /\ \A j \in Jobs \ {h.job} : jobStatus'[j] = jobStatus[j]
    <3>1. CASE Queue!Finish(h.job)
      BY <2>1, <3>1, Types DEF Queue!Finish, JobTypes
    <3>2. CASE Queue!PutBackOrGiveUp({h.job})
      BY <2>1, <3>2, BackIs
    <3> QED
      BY <1>7, <3>1, <3>2 DEF Settles
  <2> QED
    BY <1>6, <2>1, <2>2
<1>8. ASSUME NEW h \in handlers, TimesOut(h)
      PROVE  HandlersApart'
  <2>1. Running(h) /\ Awaited(h) /\ h.job \in Jobs /\ UNCHANGED <<now, runAt, handlers>>
    BY <1>8, HandlerJob DEF TimesOut
  <2>2. /\ jobAttempts' = jobAttempts /\ jobStatus'[h.job] # "RUNNING"
        /\ \A j \in Jobs \ {h.job} : jobStatus'[j] = jobStatus[j]
    BY <1>8, <2>1, BackIs DEF TimesOut
  <2> QED
    BY <1>6, <2>1, <2>2
<1> QED
  BY <1>1, <1>2, <1>3, <1>4, <1>5, <1>7, <1>8

-----------------------------------------------------------------------------
(* What enters a draft *)

\* The lane's own steps, which touch no message.
Lane == \/ BeginsRound \/ Crash
        \/ \E j \in Jobs : Starts(j)
        \/ \E h \in handlers : Settles(h) \/ TimesOut(h)

LEMMA NextIs ==
  ASSUME Next
  PROVE  Lane \/ Outside \/ (\E m \in Messages : Records(m)) \/ (\E h \in handlers : Acts(h))
BY DEF Next, Lane, Outside, Acts

LEMMA LaneIs ==
  ASSUME Lane
  PROVE  UNCHANGED <<mail, world, traces>>
BY DEF Lane, BeginsRound, Crash, Starts, Settles, TimesOut

Recorded == {m \in Messages : row[m].state # "absent"}

LEMMA ActsKeeps ==
  ASSUME TypeInv, NEW h \in handlers, Acts(h)
  PROVE  /\ Pending' \subseteq Pending /\ Recorded' = Recorded
         /\ \A m \in Messages : row[m].state = "DONE" => row'[m].state = "DONE"
<1>1. \A m \in Messages : RowMoves(m)
  BY HandlerMoves
<1> QED
  BY <1>1 DEF RowMoves, Pending, Recorded

\* Only what is concluded enters a draft.
LEMMA EntersOnly ==
  ASSUME TypeInv, NEW h \in handlers, Acts(h), ~Concludes(h)
  PROVE  UNCHANGED entered
BY DEF Acts, HandlerStep, Concludes, Looks, Aligns, Drops, Hears, HearingFails, Plans, Decides,
       UnitFails, Defers, Exhausts, FindsChanged, Waits, Throws, FindsTokenRevoked, traces

\* What entered a draft is decided, and a decided message waits no more.
EnteredRight == \A m \in Messages : entered[m] <= 1 /\ (entered[m] = 1 => row[m].state = "DONE")

LEMMA EnteredInit == Init => EnteredRight
BY DEF Init, EnteredRight, Absent

LEMMA EnteredNext ==
  ASSUME TypeInv, EnteredRight, [Next]_vars
  PROVE  EnteredRight'
<1>0. \A m \in Messages : entered[m] \in Nat
  BY Types DEF TraceTypes
<1>1. CASE UNCHANGED <<row, entered>>
  BY <1>1 DEF EnteredRight
<1>2. ASSUME NEW m \in Messages, Records(m)
      PROVE  EnteredRight'
  <2>1. /\ row[m].state = "absent" /\ (\A n \in Messages \ {m} : row'[n] = row[n])
        /\ entered' = entered
    BY <1>2, RecordsAdds
  <2> QED
    BY <2>1 DEF EnteredRight
<1>3. ASSUME NEW h \in handlers, Concludes(h)
      PROVE  EnteredRight'
  <2>1. \A m \in Messages : IF m \in h.unit
                            THEN row[m].state = "PENDING" /\ row'[m].state = "DONE"
                            ELSE row'[m] = row[m]
    BY <1>3, ConcludesIs
  <2>2. \A m \in Messages : entered'[m] = entered[m]
                              \/ (m \in h.unit /\ entered'[m] = entered[m] + 1)
    BY <1>3, ConcludesIs
  <2>3. ASSUME NEW m \in Messages
        PROVE  entered'[m] <= 1 /\ (entered'[m] = 1 => row'[m].state = "DONE")
    <3>1. CASE m \in h.unit
      <4>1. entered[m] = 0
        BY <1>0, <2>1, <3>1 DEF EnteredRight
      <4> QED
        BY <2>1, <2>2, <3>1, <4>1
    <3>2. CASE m \notin h.unit
      BY <2>1, <2>2, <3>2 DEF EnteredRight
    <3> QED
      BY <3>1, <3>2
  <2> QED
    BY <2>3 DEF EnteredRight
<1>4. ASSUME NEW h \in handlers, Acts(h), ~Concludes(h)
      PROVE  EnteredRight'
  BY <1>4, EntersOnly, ActsKeeps DEF EnteredRight
<1>5. CASE Next
  <2>1. Lane \/ Outside => UNCHANGED <<row, entered>>
    BY LaneIs, OutsideIs DEF mail, traces
  <2> QED
    BY <1>1, <1>2, <1>3, <1>4, <1>5, <2>1, NextIs
<1>6. CASE UNCHANGED vars
  BY <1>1, <1>6 DEF vars, mail, traces
<1> QED
  BY <1>5, <1>6

\* The content of a message enters a draft at most once, also when two handlers
\* hold its report: lockUnchanged (wa-intake.ts) lets only the one that still
\* finds it pending write.
THEOREM EnteredOnceAlways == Spec => []EnteredOnce
<1>1. Init => TypeInv /\ EnteredRight
  BY TypeInit, EnteredInit
<1>2. TypeInv /\ EnteredRight /\ [Next]_vars => (TypeInv /\ EnteredRight)'
  BY NextType, EnteredNext
<1>3. EnteredRight => EnteredOnce
  BY DEF EnteredRight, EnteredOnce
<1> QED
  BY <1>1, <1>2, <1>3, PTL DEF Spec

-----------------------------------------------------------------------------
(* What is decided is decided for now *)

\* A thread is of a draft that was opened, whatever became of it.
Opened(t) == t # None => ticket[t] # "none"
ThreadsOpened == \A m \in Messages : Opened(row[m].thread)

\* What a handler is about to write.
PlanStands(h) ==
  h.pc = "write" => /\ Opened(h.thread)
                    /\ h.plan = "created" => h.sender = "editor"
                    /\ h.plan = "applied" => h.thread # None
PlansStand == \A h \in handlers : PlanStands(h)

\* No ticket goes back to where there was none.
LEMMA TicketsStay ==
  ASSUME TypeInv, Next
  PROVE  \A t \in Messages : ticket[t] # "none" => ticket'[t] # "none"
<1>0. ticket \in [Messages -> {"none", "draft", "sent", "deleted"}]
  BY Types DEF WorldTypes
<1>1. CASE Lane
  BY <1>1, LaneIs DEF world
<1>2. CASE Outside
  BY <1>0, <1>2 DEF Outside, SenderChanges, NumberChanges, AnswerIsSent, AnswerFails, UserActs, world
<1>3. ASSUME NEW m \in Messages, Records(m)
      PROVE  UNCHANGED ticket
  BY <1>3 DEF Records, world
<1>4. ASSUME NEW h \in handlers, Acts(h)
      PROVE  \A t \in Messages : ticket[t] # "none" => ticket'[t] # "none"
  <2>1. CASE Creates(h)
    BY <1>0, <2>1 DEF Creates
  <2>2. CASE ~Creates(h)
    BY <1>4, <2>2 DEF Acts, HandlerStep, Looks, Aligns, Drops, Hears, HearingFails, Plans, Decides,
       UnitFails, Defers, Exhausts, FindsChanged, SetsAside, Answers, Applies, Waits, Throws,
       FindsTokenRevoked, world
  <2> QED
    BY <2>1, <2>2
<1> QED
  BY <1>1, <1>2, <1>3, <1>4, NextIs

\* The plan of a handler that decided a unit.
LEMMA PlanIs ==
  ASSUME TypeInv, ThreadsOpened, NEW h \in handlers, Decides(h)
  PROVE  \A x \in handlers' : x \in handlers \ {h} \/ PlanStands(x)
<1>0. HandlerTypes /\ MailTypes /\ RowTypes
  BY Types
<1>1. h \in Handler /\ {} \notin h.todo /\ h.todo \in SUBSET SUBSET Messages
  BY <1>0, HandlerIs DEF HandlerTypes, Able
<1>2. PICK U \in h.todo :
        LET q == chat[Min(U)].quotes
            t == IF q = None THEN None ELSE row[q].thread
            plan == IF t # None THEN Verdict(t, h.sender)
                    ELSE IF U \cap h.words = {} THEN "noKeyword"
                    ELSE IF h.sender = "siteless" THEN "noSite"
                    ELSE "created" IN
        Becomes(h, [h EXCEPT !.pc = "write", !.unit = U, !.plan = plan,
                             !.thread = IF t = None THEN None ELSE t])
  BY DEF Decides
<1> DEFINE q == chat[Min(U)].quotes
           t == IF q = None THEN None ELSE row[q].thread
           plan == IF t # None THEN Verdict(t, h.sender)
                   ELSE IF U \cap h.words = {} THEN "noKeyword"
                   ELSE IF h.sender = "siteless" THEN "noSite"
                   ELSE "created"
           g == [h EXCEPT !.pc = "write", !.unit = U, !.plan = plan,
                          !.thread = IF t = None THEN None ELSE t]
<1>3. U \in SUBSET Messages /\ U # {} /\ Min(U) \in Messages
  BY <1>1, MinOf
<1>4. q \in Messages \cup {None}
  BY <1>0, <1>3 DEF MailTypes, Message
<1>5. Opened(t)
  BY <1>4 DEF ThreadsOpened, Opened
<1>6. /\ plan = "created" => t = None /\ h.sender # "siteless"
      /\ plan = "applied" => t # None
  <2> HIDE DEF t
  <2> QED
    BY DEF Verdict
<1>7. Becomes(h, g)
  BY <1>2
<1> HIDE DEF q, t, plan
<1>8. g.pc = "write" /\ g.plan = plan /\ g.thread = t /\ g.sender = h.sender
  BY <1>1 DEF Handler
<1>9. h.sender \in {"editor", "siteless"}
  BY <1>1, HandlerIs
<1> HIDE DEF g
<1>10. PlanStands(g)
  BY <1>5, <1>6, <1>8, <1>9 DEF PlanStands
<1> QED
  BY <1>7, <1>10, BecomesIs

\* No other step leaves a handler about to write.
LEMMA NoPlan ==
  ASSUME TypeInv, NEW h \in handlers, Acts(h), ~Decides(h)
  PROVE  \E k : After(h, k) /\ k.pc # "write"
<1>1. BoundTypes /\ HandlerTypes
  BY Types
<1>2. Ends(h, "returned") => \E k : After(h, k) /\ k.pc # "write"
  <2>1. Ends(h, "returned") => \E k : After(h, k) /\ k.pc = "returned"
    BY <1>1, EndsAfter DEF Ended
  <2> QED
    BY <2>1
<1>3. CASE Looks(h)
  <2>1. \E k : After(h, k) /\ k.pc \in {"align", "drop", "hear", "decide", "wait", "returned"}
    BY <1>3, LooksAfter
  <2> QED
    BY <2>1
<1>4. CASE Plans(h)
  <2>1. \E k : After(h, k) /\ k.pc \in {"decide", "wait", "returned"}
    BY <1>4, PlansAfter
  <2> QED
    BY <2>1
<1>5. CASE Hears(h)
  <2>1. \E k : After(h, k) /\ k.pc \in {"hear", "plan"}
    BY <1>5, HearsAfter
  <2> QED
    BY <2>1
<1>6. CASE Concludes(h)
  <2>1. \E k : After(h, k) /\ k.pc \in {"decide", "wait", "returned"}
    BY <1>6, ConcludesIs
  <2> QED
    BY <2>1
<1>7. CASE Aligns(h) \/ Drops(h) \/ FindsChanged(h) \/ Waits(h)
  BY <1>2, <1>7 DEF Aligns, Drops, FindsChanged, Waits
<1>8. CASE Fails(h)
  BY <1>2, <1>8, FailsIs DEF Defers, Exhausts
<1>9. CASE Throws(h) \/ FindsTokenRevoked(h)
  <2>1. \E k : After(h, k) /\ k.pc = "threw"
    BY <1>9, ThrowsIs
  <2> QED
    BY <2>1
<1> QED
  BY <1>3, <1>4, <1>5, <1>6, <1>7, <1>8, <1>9 DEF Acts, HandlerStep, Concludes, Fails

\* Only what is concluded is put into a thread.
LEMMA ThreadsStay ==
  ASSUME TypeInv, NEW h \in handlers, Acts(h), ~Concludes(h)
  PROVE  \A m \in Messages : row'[m].thread = row[m].thread
<1>0. RowTypes
  BY Types
<1>1. ASSUME NEW S, NEW t, NEW m \in Messages
      PROVE  PutOff(S, t)[m].thread = row[m].thread
  BY <1>0 DEF PutOff, RowTypes, RowType
<1>2. ASSUME NEW m \in Messages, NEW state
      PROVE  /\ Over(row[m], state).thread = row[m].thread
             /\ [Over(row[m], state) EXCEPT !.outcome = "ignored"].thread = row[m].thread
  BY <1>0 DEF Over, RowTypes, RowType
<1>3. CASE Aligns(h)
  BY <1>1, <1>3 DEF Aligns
<1>4. CASE Drops(h)
  BY <1>2, <1>4 DEF Drops
<1>5. CASE Hears(h)
  BY <1>0, <1>5 DEF Hears, RowTypes, RowType
<1>6. CASE Waits(h)
  BY <1>0, <1>6 DEF Waits, RowTypes, RowType
<1>7. ASSUME NEW n, Defers(h, n)
      PROVE  \A m \in Messages : row'[m].thread = row[m].thread
  <2> DEFINE Later(r, t) == [r EXCEPT !.deferrals = @ + 1, !.wait = t, !.tagged = TRUE]
  <2>1. PICK d \in Delays :
          row' = [PutOff(Messages, h.now + d) EXCEPT ![n] = Later(row[n], h.now + d)]
    BY <1>7 DEF Defers
  <2>2. DOMAIN PutOff(Messages, h.now + d) = Messages
    BY DEF PutOff
  <2>3. \A m \in Messages : Later(row[m], h.now + d).thread = row[m].thread
    BY <1>0 DEF RowTypes, RowType
  <2>4. \A m \in Messages : PutOff(Messages, h.now + d)[m].thread = row[m].thread
    BY <1>1
  <2> HIDE DEF Later
  <2>5. ASSUME NEW m \in Messages
        PROVE  row'[m].thread = row[m].thread
    <3>1. CASE m = n
      <4>1. row'[m] = Later(row[m], h.now + d)
        BY <2>1, <2>2, <3>1
      <4> QED
        BY <2>3, <4>1
    <3>2. CASE m # n
      <4>1. row'[m] = PutOff(Messages, h.now + d)[m]
        BY <2>1, <2>2, <3>2
      <4> QED
        BY <2>4, <4>1
    <3> QED
      BY <3>1, <3>2
  <2> QED
    BY <2>5
<1>8. ASSUME NEW n, NEW S, Exhausts(h, n, S)
      PROVE  \A m \in Messages : row'[m].thread = row[m].thread
  BY <1>2, <1>8 DEF Exhausts
<1>9. CASE UNCHANGED row
  BY <1>9
<1>10. Looks(h) \/ Plans(h) \/ Decides(h) \/ FindsChanged(h) \/ Throws(h) \/ FindsTokenRevoked(h)
         => UNCHANGED row
  BY DEF Looks, Plans, Decides, FindsChanged, Throws, FindsTokenRevoked, mail
<1> QED
  BY <1>3, <1>4, <1>5, <1>6, <1>7, <1>8, <1>9, <1>10, FailsIs
     DEF Acts, HandlerStep, Concludes, Fails

\* A unit that is concluded joins the thread that was given, which is open.
LEMMA ThreadsJoin ==
  ASSUME TypeInv, ThreadsOpened, PlansStand, NEW h \in handlers, Concludes(h), Next
  PROVE  ThreadsOpened'
<1>0. RowTypes /\ WorldTypes
  BY Types
<1>1. h.pc = "write" /\ Unchanged(h)
  BY ConcludesIs
<1>2. Last(h) \in Messages
  BY <1>1, UnchangedIs
<1>3. Opened(h.thread)
  BY <1>1 DEF PlansStand, PlanStands
<1>4. \E o, t : /\ Decided(h, o, t)
                /\ \/ t \in {None, h.thread} 
                   \/ t \in Messages /\ ticket'[t] # "none"
  <2>1. CASE Creates(h)
    BY <1>0, <1>2, <2>1 DEF Creates, WorldTypes
  <2>2. CASE SetsAside(h) \/ Answers(h) \/ Applies(h)
    BY <2>2 DEF SetsAside, Answers, Applies
  <2> QED
    BY <2>1, <2>2 DEF Concludes
<1>5. h.thread \in Messages \cup {None} /\ \A m \in Messages : row[m].thread \in Messages \cup {None}
  BY <1>0, Types, HandlerIs DEF HandlerTypes, Able, RowTypes, RowType
<1>6. PICK o, t : /\ Decided(h, o, t)
                  /\ \/ t \in {None, h.thread} 
                     \/ t \in Messages /\ ticket'[t] # "none"
  BY <1>4
<1>7. \A m \in Messages : row'[m].thread \in {row[m].thread, t}
  <2>1. ASSUME NEW m \in Messages
        PROVE  [Over(row[m], "DONE") EXCEPT !.outcome = o, !.thread = IF t = None THEN @ ELSE t].thread
                 \in {row[m].thread, t}
    BY <1>0 DEF Over, RowTypes, RowType
  <2>2. \A m \in Messages : row'[m] = IF m \notin h.unit THEN row[m] ELSE
          [Over(row[m], "DONE") EXCEPT !.outcome = o, !.thread = IF t = None THEN @ ELSE t]
    BY <1>6 DEF Decided
  <2> QED
    BY <2>1, <2>2
<1>8. ASSUME NEW m \in Messages, row'[m].thread # None
      PROVE  ticket'[row'[m].thread] # "none"
  BY <1>3, <1>5, <1>6, <1>7, <1>8, TicketsStay DEF ThreadsOpened, Opened
<1> QED
  BY <1>8 DEF ThreadsOpened, Opened

LEMMA PlansInit == Init => ThreadsOpened /\ PlansStand
<1> SUFFICES ASSUME Init PROVE ThreadsOpened /\ PlansStand
  OBVIOUS
<1>1. \A m \in Messages : row[m].thread # None => row[m].thread = 1 /\ m = 1
  BY DEF Init, Absent
<1>2. \A m \in Messages : m = 1 => ticket[m] = "draft"
  BY DEF Init
<1> QED
  BY <1>1, <1>2 DEF Init, ThreadsOpened, Opened, PlansStand

LEMMA PlansNext ==
  ASSUME TypeInv, ThreadsOpened, PlansStand, [Next]_vars
  PROVE  ThreadsOpened' /\ PlansStand'
<1>0. /\ \A m \in Messages : row[m].thread \in Messages \cup {None}
      /\ \A h \in handlers : h.thread \in Messages \cup {None}
  BY Types, HandlerIs DEF RowTypes, RowType, HandlerTypes, Able
<1>1. CASE UNCHANGED vars
  BY <1>1 DEF vars, mail, world, ThreadsOpened, Opened, PlansStand, PlanStands
<1>2. CASE Next
  <2>1. ASSUME \A m \in Messages : row'[m].thread = row[m].thread
        PROVE  ThreadsOpened'
    BY <1>0, <1>2, <2>1, TicketsStay DEF ThreadsOpened, Opened
  <2>2. \A t \in Messages \cup {None} : Opened(t) => Opened(t)'
    BY <1>2, TicketsStay DEF Opened
  <2>3. ASSUME NEW x \in handlers PROVE PlanStands(x)'
    BY <1>0, <2>2, <2>3 DEF PlansStand, PlanStands
  <2>4. ASSUME \A x \in handlers' : x \in handlers \/ x.pc # "write"
        PROVE  PlansStand'
    BY <2>3, <2>4 DEF PlansStand, PlanStands
  <2>5. CASE Lane
    <3>1. UNCHANGED row
      BY <2>5, LaneIs DEF mail
    <3>2. ASSUME NEW j \in Jobs, Starts(j)
          PROVE  \A x \in handlers' : x \in handlers \/ x.pc = "look"
      BY <3>2 DEF Starts, Fresh
    <3>3. \A x \in handlers' : x \in handlers \/ x.pc # "write"
      BY <2>5, <3>2 DEF Lane, BeginsRound, Crash, Settles, TimesOut
    <3> QED
      BY <2>1, <2>4, <3>1, <3>3
  <2>6. CASE Outside
    BY <2>1, <2>4, <2>6, OutsideIs
  <2>7. ASSUME NEW m \in Messages, Records(m)
        PROVE  ThreadsOpened' /\ PlansStand'
    <3>1. row \in [Messages -> RowType]
      BY Types DEF RowTypes
    <3>2. \A n \in Messages : row'[n].thread = row[n].thread
      BY <2>7, <3>1 DEF Records, RowType
    <3>3. UNCHANGED handlers
      BY <2>7 DEF Records
    <3> QED
      BY <2>1, <2>4, <3>2, <3>3
  <2>8. ASSUME NEW h \in handlers, Acts(h)
        PROVE  ThreadsOpened' /\ PlansStand'
    <3>1. ThreadsOpened'
      BY <1>2, <2>1, <2>8, ThreadsStay, ThreadsJoin
    <3>2. CASE Decides(h)
      <4>1. \A x \in handlers' : x \in handlers \ {h} \/ PlanStands(x)
        BY <3>2, PlanIs
      <4>2. UNCHANGED ticket
        BY <3>2 DEF Decides, world
      <4>3. \A x \in handlers' : PlanStands(x) => PlanStands(x)'
        BY <4>2 DEF PlanStands, Opened
      <4> QED
        BY <2>3, <3>1, <4>1, <4>3 DEF PlansStand
    <3>3. CASE ~Decides(h)
      <4>1. PICK k : After(h, k) /\ k.pc # "write"
        BY <2>8, <3>3, NoPlan
      <4> QED
        BY <2>4, <3>1, <4>1 DEF After
    <3> QED
      BY <3>2, <3>3
  <2> QED
    BY <1>2, <2>5, <2>6, <2>7, <2>8, NextIs
<1> QED
  BY <1>1, <1>2

\* What enters, enters for the sender of now and into a draft of now.
LEMMA NowEnters ==
  ASSUME TypeInv, ThreadsOpened, PlansStand, [Next]_vars,
         NEW m \in Messages, entered'[m] > entered[m]
  PROVE  /\ sender = "editor"
         /\ row'[m].outcome = "applied" => ticket[row'[m].thread] = "draft"
<1>0. RowTypes /\ TraceTypes /\ WorldTypes /\ HandlerTypes /\ entered[m] \in Nat
  BY Types DEF TraceTypes
<1>1. entered' # entered
  BY <1>0
<1>2. PICK h \in handlers : Acts(h)
  <2>1. Lane \/ Outside \/ (\E n \in Messages : Records(n)) => UNCHANGED entered
    BY LaneIs, OutsideIs DEF traces, Records
  <2> QED
    BY <1>1, <2>1, NextIs DEF vars, traces
<1>3. Concludes(h) /\ h.pc = "write" /\ Unchanged(h) /\ PlanStands(h)
  BY <1>1, <1>2, EntersOnly, ConcludesIs DEF PlansStand
<1>4. m \in h.unit
  BY <1>0, <1>3, ConcludesIs
<1>5. h.sender \in {"editor", "siteless"} /\ sender = h.sender /\ h.thread \in Messages \cup {None}
  BY <1>0, <1>3, HandlerIs DEF HandlerTypes, Able, Unchanged
<1>6. CASE Creates(h)
  <2>1. h.plan = "created" /\ Decided(h, "created", Last(h))
    BY <1>6 DEF Creates, Writes
  <2>2. row'[m].outcome = "created"
    BY <1>0, <1>4, <2>1 DEF Decided, Over, RowTypes, RowType
  <2> QED
    BY <1>3, <1>5, <2>1, <2>2 DEF PlanStands
<1>7. CASE Applies(h)
  <2>1. /\ h.plan = "applied" /\ Verdict(h.thread, h.sender) = "applied"
        /\ Decided(h, "applied", h.thread)
    BY <1>1, <1>7 DEF Applies, LockedVerdict, Writes
  <2>2. h.thread \in Messages /\ ticket[h.thread] # "none" /\ h.thread # None
    BY <1>3, <1>5, <2>1 DEF PlanStands, Opened
  <2>3. h.sender # "siteless" /\ ticket[h.thread] # "deleted" /\ ticket[h.thread] # "sent"
    BY <2>1 DEF Verdict
  <2>4. ticket[h.thread] = "draft"
    BY <1>0, <2>2, <2>3 DEF WorldTypes
  <2>5. row'[m].thread = h.thread
    BY <1>0, <1>4, <2>1, <2>2 DEF Decided, Over, RowTypes, RowType
  <2> QED
    BY <1>5, <2>3, <2>4, <2>5
<1>8. CASE SetsAside(h) \/ Answers(h)
  BY <1>1, <1>8 DEF SetsAside, Answers, traces
<1> QED
  BY <1>3, <1>6, <1>7, <1>8 DEF Concludes

\* What was read before the download and the extraction decides nothing: content
\* enters for a sender who may report now and has a site now, and a reply only
\* into a draft that is still one (lockUnchanged, applyWaReply of wa-intake.ts).
THEOREM DecidedForNowAlways == Spec => DecidedForNow
<1>1. Init => TypeInv /\ ThreadsOpened /\ PlansStand
  BY TypeInit, PlansInit
<1>2. TypeInv /\ ThreadsOpened /\ PlansStand /\ [Next]_vars
        => (TypeInv /\ ThreadsOpened /\ PlansStand)'
  BY NextType, PlansNext
<1>3. TypeInv /\ ThreadsOpened /\ PlansStand /\ [Next]_vars
        => [\A m \in Messages : entered'[m] > entered[m] =>
              /\ sender = "editor"
              /\ row'[m].outcome = "applied" => ticket[row'[m].thread] = "draft"]_vars
  BY NowEnters
<1> QED
  BY <1>1, <1>2, <1>3, PTL DEF Spec, DecidedForNow

\* The chat is recorded in the order it was written in, whenever that happens.
ChatOrdered == InOrder(Recorded)

LEMMA OrderedNext ==
  ASSUME TypeInv, ChatOrdered, [Next]_vars
  PROVE  ChatOrdered'
<1>1. ASSUME Recorded' = Recorded, UNCHANGED chat PROVE ChatOrdered'
  BY <1>1 DEF ChatOrdered, InOrder
<1>2. ASSUME NEW m \in Messages, Records(m)
      PROVE  ChatOrdered'
  <2>1. /\ row[m].state = "absent" /\ (\A n \in Messages \ {m} : row'[n] = row[n])
        /\ row'[m].state \in {"PENDING", "DONE"}
        /\ \A n \in Messages \ {m} : chat'[n] = chat[n]
    BY <1>2, RecordsAdds
  <2>2. PICK t \in WritingTimes(m) : chat'[m].at = t
    BY <1>2, RecordsAdds
  <2>3. /\ \A n \in Recorded : IF n < m THEN chat[n].at <= t ELSE t <= chat[n].at
        /\ t \in Nat
    BY <2>2 DEF WritingTimes, Recorded
  <2>4. Recorded' = Recorded \cup {m} /\ m \notin Recorded
    BY <2>1 DEF Recorded
  <2>5. \A n \in Recorded : n \in Nat /\ n \in Messages /\ n # m
    BY <2>1 DEF Recorded, Messages
  <2>6. m \in Nat
    BY DEF Messages
  <2>7. ASSUME NEW a \in Recorded', NEW b \in Recorded', a < b
        PROVE  chat'[a].at <= chat'[b].at
    <3>1. CASE a # m /\ b # m
      BY <2>1, <2>4, <2>5, <2>7, <3>1 DEF ChatOrdered, InOrder
    <3>2. CASE a = m
      <4>1. b \in Recorded /\ ~(b < m)
        BY <2>4, <2>5, <2>6, <2>7, <3>2
      <4> QED
        BY <2>1, <2>2, <2>3, <2>5, <3>2, <4>1
    <3>3. CASE b = m
      <4>1. a \in Recorded /\ a < m
        BY <2>4, <2>5, <2>6, <2>7, <3>3
      <4> QED
        BY <2>1, <2>2, <2>3, <2>5, <3>3, <4>1
    <3> QED
      BY <3>1, <3>2, <3>3
  <2> QED
    BY <2>7 DEF ChatOrdered, InOrder
<1>3. CASE Next
  <2>1. Lane \/ Outside => UNCHANGED <<row, chat>>
    BY LaneIs, OutsideIs DEF mail
  <2>2. UNCHANGED row => Recorded' = Recorded
    BY DEF Recorded
  <2>3. ASSUME NEW h \in handlers, Acts(h) PROVE Recorded' = Recorded /\ UNCHANGED chat
    BY <2>3, ActsKeeps, HandlerMoves
  <2> QED
    BY <1>1, <1>2, <1>3, <2>1, <2>2, <2>3, NextIs
<1>4. CASE UNCHANGED vars
  BY <1>1, <1>4 DEF vars, mail, Recorded
<1> QED
  BY <1>3, <1>4

LEMMA OrderedInit == Init => ChatOrdered
<1> SUFFICES ASSUME Init PROVE ChatOrdered
  OBVIOUS
<1>1. Recorded \subseteq {1}
  BY DEF Init, Recorded, Absent
<1>2. \A n, m \in Recorded : n = 1 /\ m = 1
  BY <1>1
<1>3. \A n, m \in Recorded : ~(n < m)
  BY <1>2
<1> QED
  BY <1>3 DEF ChatOrdered, InOrder

\* A report enters a draft whole: with all that was written soon enough after
\* one of its messages and is pending, however late it came and whoever holds
\* the report (burst.ts, lockUnchanged).
THEOREM ReportIsWholeAlways == Spec => ReportIsWhole
<1> DEFINE Reported == {m \in Messages : entered'[m] > entered[m]}
           Whole  == LET report == {m \in Messages : entered'[m] > entered[m]} IN
                     \A m \in report, x \in Pending :
                       (/\ m < x
                        /\ chat[x].at <= chat[m].at + BurstQuiet
                        /\ chat[x].at <= chat[Min(report)].at + BurstCeiling
                        /\ \A y \in Pending : (m < y /\ y <= x) => chat[y].quotes = None)
                       => x \in report
<1>1. Init => TypeInv /\ ChatOrdered
  BY TypeInit, OrderedInit
<1>2. TypeInv /\ ChatOrdered /\ [Next]_vars => (TypeInv /\ ChatOrdered)'
  BY NextType, OrderedNext
<1>3. TypeInv /\ ChatOrdered /\ [Next]_vars => [Whole]_vars
  <2> SUFFICES ASSUME TypeInv, ChatOrdered, Next PROVE Whole
    OBVIOUS
  <2>0. ChatType /\ \A m \in Messages : entered[m] \in Nat
    BY Types DEF MailTypes, ChatType, TraceTypes
  <2>1. CASE \A m \in Messages : entered'[m] = entered[m]
    <3>1. Reported = {}
      BY <2>0, <2>1
    <3> QED
      BY <3>1
  <2>2. ASSUME NEW h \in handlers, Concludes(h), ~\A m \in Messages : entered'[m] = entered[m]
        PROVE  Whole
    <3>1. \A m \in Messages : entered'[m] > entered[m] <=> m \in h.unit
      BY <2>2, ConcludesIs
    <3>2. Unchanged(h)
      BY <2>2, ConcludesIs
    <3>3. h.unit \in Units(Pending) /\ h.unit \in SUBSET Messages
      BY <3>2, UnchangedIs
    <3>4. Reported = h.unit
      BY <3>1, <3>3
    <3>5. Pending \in SUBSET Messages /\ InOrder(Pending)
      BY DEF Pending, Recorded, ChatOrdered, InOrder
    <3> HIDE DEF Reported
    <3>6. ASSUME NEW m \in Reported, NEW x \in Pending, m < x,
                 chat[x].at <= chat[m].at + BurstQuiet,
                 chat[x].at <= chat[Min(Reported)].at + BurstCeiling,
                 \A y \in Pending : (m < y /\ y <= x) => chat[y].quotes = None
          PROVE  x \in Reported
      BY <2>0, <3>3, <3>4, <3>5, <3>6, UnitIsWhole
    <3>7. \A m \in Reported, x \in Pending :
            (/\ m < x
             /\ chat[x].at <= chat[m].at + BurstQuiet
             /\ chat[x].at <= chat[Min(Reported)].at + BurstCeiling
             /\ \A y \in Pending : (m < y /\ y <= x) => chat[y].quotes = None)
            => x \in Reported
      BY <3>6
    <3> QED
      BY <3>7, Zenon DEF Reported
  <2>3. ASSUME NEW h \in handlers, Acts(h), ~Concludes(h) PROVE Whole
    BY <2>1, <2>3, EntersOnly
  <2>4. Lane \/ Outside => UNCHANGED entered
    BY LaneIs, OutsideIs DEF traces
  <2>5. ASSUME NEW m \in Messages, Records(m) PROVE UNCHANGED entered
    BY <2>5, RecordsAdds
  <2> QED
    BY <2>1, <2>2, <2>3, <2>4, <2>5, NextIs
<1> QED
  BY <1>1, <1>2, <1>3, PTL DEF Spec, ReportIsWhole

-----------------------------------------------------------------------------
(* The order of the decisions *)

\* Units that lie one after the other, of messages that were recorded.
Ordered(todo) ==
  /\ \A V \in todo : V # {} /\ V \subseteq Recorded
  /\ \A V, W \in todo : V # W => Min(V) # Min(W)
  /\ \A V, W \in todo : Min(V) < Min(W) => \A v \in V, w \in W : v < w

\* Whatever is before one of S and still waits belongs to S, unless it came late.
NoneBefore(S) == \A x \in Pending \ late, m \in S : x < m => x \in S

InTurn(h) ==
  /\ h.pc = "drop" => h.seen \subseteq Recorded /\ NoneBefore(h.seen)
  /\ h.pc \in {"decide", "write"} => Ordered(h.todo) /\ NoneBefore(UNION h.todo)
  /\ h.pc = "write" => h.unit \in h.todo /\ \A V \in h.todo : Min(h.unit) <= Min(V)

Turns == \A h \in handlers : InTurn(h)

LEMMA ReadyOrdered ==
  ASSUME NEW t
  PROVE  Ordered(Ready(Pending, t)) /\ NoneBefore(UNION Ready(Pending, t))
<1>0. Pending \in SUBSET Messages /\ Pending \subseteq Recorded
  BY DEF Pending, Recorded
<1> DEFINE todo == Ready(Pending, t)
<1>1. todo \subseteq Units(Pending)
  BY DEF Ready
<1>2. \A V \in todo : V # {} /\ V \subseteq Recorded /\ V \in SUBSET Messages /\ V \subseteq Pending
  BY <1>0, <1>1, UnitIs
<1>3. \A V, W \in todo : Min(V) = Min(W) => V = W
  BY <1>0, <1>1, UnitIs
<1>4. \A V, W \in todo : Min(V) < Min(W) => \A v \in V, w \in W : v < w
  BY <1>0, <1>1, UnitsApart
<1>5. ASSUME NEW x \in Pending, NEW V \in todo, NEW m \in V, x < m
      PROVE  x \in UNION todo
  <2>1. PICK U \in Units(Pending) : x \in U
    BY <1>0, UnitsCover
  <2>2. V \in Units(Pending) /\ V \in SUBSET Messages /\ U \in SUBSET Messages /\ V # {} /\ U # {}
    BY <1>0, <1>1, <2>1, UnitIs
  <2>3. x \in Nat /\ m \in Nat /\ Min(U) \in Nat /\ Min(V) \in Nat /\ Max(U) \in U /\ Max(U) \in Nat
    BY <2>1, <2>2, MinOf, MaxOf DEF Messages
  <2>4. CASE Min(U) = Min(V)
    <3>1. U = V
      BY <1>0, <2>2, <2>4, UnitIs
    <3> QED
      BY <2>1, <3>1
  <2>5. CASE Min(V) < Min(U)
    <3>1. m < x
      BY <1>0, <2>1, <2>2, <2>5, UnitsApart
    <3> QED
      BY <1>5, <2>3, <3>1
  <2>6. CASE Min(U) < Min(V)
    <3>1. Max(U) < m
      BY <1>0, <2>2, <2>3, <2>6, UnitsApart
    <3>2. m \in Pending
      BY <1>2
    <3>3. Max(Pending) >= m /\ Max(Pending) \in Nat
      BY <1>0, <3>2, MaxOf DEF Messages
    <3>4. Max(U) # Max(Pending)
      BY <2>3, <3>1, <3>3
    <3>5. U \in todo
      BY <3>4 DEF Ready
    <3> QED
      BY <2>1, <3>5
  <2> QED
    BY <2>3, <2>4, <2>5, <2>6
<1> HIDE DEF todo
<1>6. Ordered(todo)
  BY <1>2, <1>3, <1>4 DEF Ordered
<1>7. NoneBefore(UNION todo)
  BY <1>5 DEF NoneBefore
<1> QED
  BY <1>6, <1>7 DEF todo

LEMMA OrderedKeeps ==
  ASSUME NEW S, Ordered(S), Recorded \subseteq Recorded'
  PROVE  Ordered(S)'
BY DEF Ordered

LEMMA NoneBeforeKeeps ==
  ASSUME NEW S, NoneBefore(S), Pending' \subseteq Pending, late \subseteq late'
  PROVE  NoneBefore(S)'
BY DEF NoneBefore

LEMMA TurnKeeps ==
  ASSUME NEW h, InTurn(h), Recorded \subseteq Recorded', Pending' \subseteq Pending, late \subseteq late'
  PROVE  InTurn(h)'
<1>1. /\ h.pc = "drop" => (h.seen \subseteq Recorded)' /\ NoneBefore(h.seen)'
      /\ h.pc \in {"decide", "write"} => Ordered(h.todo)' /\ NoneBefore(UNION h.todo)'
  BY OrderedKeeps, NoneBeforeKeeps DEF InTurn
<1> QED
  BY <1>1 DEF InTurn

\* What a handler has before it when it read what waits.
LEMMA LooksTurn ==
  ASSUME NEW k, NEW t,
         \/ k.pc = "drop" /\ k.seen = Pending
         \/ k.pc = "decide" /\ k.todo = Ready(Pending, t)
         \/ k.pc \notin {"drop", "decide", "write"}
  PROVE  InTurn(k)
<1>1. CASE k.pc = "drop" /\ k.seen = Pending
  <2>1. Pending \subseteq Recorded
    BY DEF Pending, Recorded
  <2> QED
    BY <1>1, <2>1 DEF InTurn, NoneBefore
<1>2. CASE k.pc = "decide" /\ k.todo = Ready(Pending, t)
  BY <1>2, ReadyOrdered DEF InTurn
<1>3. CASE k.pc \notin {"drop", "decide", "write"}
  BY <1>3 DEF InTurn
<1> QED
  BY <1>1, <1>2, <1>3

LEMMA ActsTurns ==
  ASSUME TypeInv, Turns, NEW h \in handlers, Acts(h)
  PROVE  Turns'
<1>0. BoundTypes /\ HandlerTypes
  BY Types
<1>1. Pending' \subseteq Pending /\ Recorded' = Recorded /\ late' = late
  BY ActsKeeps, HandlerMoves
<1>2. ASSUME NEW k, After(h, k), InTurn(k)'
      PROVE  Turns'
  <2> SUFFICES ASSUME NEW x \in handlers' PROVE InTurn(x)'
    BY DEF Turns
  <2>1. CASE x = k
    BY <1>2, <2>1
  <2>2. CASE x \in handlers
    BY <1>1, <2>2, TurnKeeps DEF Turns
  <2> QED
    BY <1>2, <2>1, <2>2 DEF After
<1>3. ASSUME NEW k, After(h, k), InTurn(k)
      PROVE  Turns'
  BY <1>1, <1>2, <1>3, TurnKeeps
<1>4. ASSUME NEW k, After(h, k), k.pc \notin {"drop", "decide", "write"}
      PROVE  Turns'
  BY <1>3, <1>4, LooksTurn
<1>5. Ends(h, "returned") => Turns'
  BY <1>0, <1>4, EndsAfter DEF Ended
<1>6. CASE Looks(h)
  <2>1. PICK k : /\ After(h, k)
                 /\ \/ k.pc = "align" /\ k.until > h.now
                       /\ \E m \in Pending : row[m].tagged /\ row[m].wait = k.until
                    \/ k.pc = "drop" /\ k.seen = Pending
                    \/ k.pc = "hear"
                    \/ k.pc = "decide" /\ k.todo = Ready(Pending, h.now)
                       /\ k.open = Pending \ UNION Ready(Pending, h.now)
                    \/ k.pc = "wait" /\ k.open = Pending
                    \/ k.pc = "returned" /\ Pending = {}
    BY <1>6, LooksAfter
  <2>2. InTurn(k)
    BY <2>1, LooksTurn
  <2> QED
    BY <1>3, <2>1, <2>2
<1>7. CASE Plans(h)
  <2>1. PICK k : /\ After(h, k)
                 /\ \/ k.pc = "decide" /\ k.todo = Ready(Pending, h.now)
                       /\ k.open = Pending \ UNION Ready(Pending, h.now)
                    \/ k.pc = "wait" /\ k.open = Pending
                    \/ k.pc = "returned" /\ Pending = {}
    BY <1>7, PlansAfter
  <2>2. InTurn(k)
    BY <2>1, LooksTurn
  <2> QED
    BY <1>3, <2>1, <2>2
<1>8. CASE Decides(h)
  <2>1. PICK k : /\ After(h, k)
                 /\ k.pc = "write" /\ k.unit \in h.todo /\ k.todo = h.todo /\ k.open = h.open
                 /\ \A V \in h.todo : Min(k.unit) <= Min(V)
    BY <1>8, DecidesAfter
  <2>2. h.pc = "decide" /\ InTurn(h)
    BY <1>8 DEF Decides, At, Turns
  <2>3. InTurn(k)
    BY <2>1, <2>2 DEF InTurn
  <2> QED
    BY <1>3, <2>1, <2>3
<1>9. CASE Concludes(h)
  <2>1. PICK k : /\ After(h, k)
                 /\ \/ k.pc = "decide" /\ k.todo = h.todo \ {h.unit} /\ k.open = h.open
                    \/ k.pc = "wait" /\ h.todo \ {h.unit} = {} /\ k.open = h.open
                    \/ k.pc = "returned" /\ h.todo \ {h.unit} = {} /\ h.open = {}
    BY <1>9, ConcludesIs
  <2>2. h.pc = "write" /\ InTurn(h)
    BY <1>9, ConcludesIs DEF Turns
  <2>3. CASE k.pc = "decide" /\ k.todo = h.todo \ {h.unit}
    <3>1. Ordered(h.todo)' /\ NoneBefore(UNION h.todo)'
      BY <1>1, <2>2, OrderedKeeps, NoneBeforeKeeps DEF InTurn
    <3>2. Ordered(k.todo)'
      BY <2>3, <3>1 DEF Ordered
    <3>3. \A x \in Pending' : x \notin h.unit
      <4>1. \A m \in Messages : m \in h.unit => row'[m].state = "DONE"
        BY <1>9, ConcludesIs
      <4> QED
        BY <4>1 DEF Pending
    <3>4. NoneBefore(UNION k.todo)'
      <4>1. UNION k.todo \subseteq UNION h.todo /\ \A x \in UNION h.todo : x \in h.unit \/ x \in UNION k.todo
        BY <2>3
      <4> QED
        BY <3>1, <3>3, <4>1 DEF NoneBefore
    <3>5. InTurn(k)'
      BY <2>3, <3>2, <3>4 DEF InTurn
    <3> QED
      BY <1>2, <2>1, <3>5
  <2> QED
    BY <1>4, <2>1, <2>3
<1>10. CASE Hears(h)
  BY <1>4, <1>10, HearsAfter
<1>11. CASE Throws(h) \/ FindsTokenRevoked(h)
  BY <1>4, <1>11, ThrowsIs
<1>12. CASE Aligns(h) \/ Drops(h) \/ Fails(h) \/ FindsChanged(h) \/ Waits(h)
  <2>1. Ends(h, "returned")
    BY <1>12, FailsIs DEF Aligns, Drops, Defers, Exhausts, FindsChanged, Waits
  <2> QED
    BY <1>5, <2>1
<1> QED
  BY <1>6, <1>7, <1>8, <1>9, <1>10, <1>11, <1>12 DEF Acts, HandlerStep, Fails, Concludes

LEMMA TurnsNext ==
  ASSUME TypeInv, Turns, [Next]_vars
  PROVE  Turns'
<1>1. ASSUME UNCHANGED <<row, late>>,
             \A h \in handlers' : h \in handlers \/ h.pc = "look"
      PROVE  Turns'
  <2> SUFFICES ASSUME NEW h \in handlers' PROVE InTurn(h)'
    BY DEF Turns
  <2>1. CASE h \in handlers
    BY <1>1, <2>1, TurnKeeps DEF Turns, Recorded, Pending
  <2>2. CASE h.pc = "look"
    BY <2>2 DEF InTurn
  <2> QED
    BY <1>1, <2>1, <2>2
<1>2. CASE Lane
  <2>1. UNCHANGED <<row, late>>
    BY <1>2, LaneIs DEF mail, traces
  <2>2. \A h \in handlers' : h \in handlers \/ h.pc = "look"
    <3>1. ASSUME NEW j \in Jobs, Starts(j) PROVE \A h \in handlers' : h \in handlers \/ h.pc = "look"
      BY <3>1, StartsIs
    <3> QED
      BY <1>2, <3>1 DEF Lane, BeginsRound, Crash, Settles, TimesOut
  <2> QED
    BY <1>1, <2>1, <2>2
<1>3. CASE Outside
  BY <1>1, <1>3, OutsideIs DEF traces
<1>4. ASSUME NEW m \in Messages, Records(m)
      PROVE  Turns'
  <2>1. /\ handlers' = handlers /\ row[m].state = "absent"
        /\ \A n \in Messages \ {m} : row'[n] = row[n]
        /\ row'[m].state \in {"PENDING", "DONE"}
        /\ late' = IF \E n \in Messages : n > m /\ row[n].state # "absent"
                   THEN late \cup {m} ELSE late
    BY <1>4, RecordsAdds
  <2>2. Recorded \subseteq Recorded' /\ \A n \in Recorded : n \in Messages /\ n \in Nat
    BY <2>1 DEF Recorded, Messages
  <2>3. ASSUME NEW S, S \subseteq Recorded, NoneBefore(S)
        PROVE  NoneBefore(S)'
    <3> SUFFICES ASSUME NEW x \in Pending', x \notin late', NEW s \in S, x < s
                 PROVE  x \in S
      BY DEF NoneBefore
    <3>1. CASE x = m
      <4>1. s \in Messages /\ row[s].state # "absent" /\ s > m
        BY <2>2, <2>3, <3>1 DEF Recorded, Messages
      <4> QED
        BY <2>1, <3>1, <4>1
    <3>2. CASE x # m
      <4>1. x \in Pending /\ x \notin late
        BY <2>1, <3>2 DEF Pending
      <4> QED
        BY <2>3, <4>1 DEF NoneBefore
    <3> QED
      BY <3>1, <3>2
  <2>4. ASSUME NEW h \in handlers PROVE InTurn(h)'
    <3>0. InTurn(h)
      BY DEF Turns
    <3>1. CASE h.pc = "drop"
      BY <2>2, <2>3, <3>0, <3>1 DEF InTurn
    <3>2. CASE h.pc \in {"decide", "write"}
      <4>1. UNION h.todo \subseteq Recorded
        BY <3>0, <3>2 DEF InTurn, Ordered
      <4>2. Ordered(h.todo)' /\ NoneBefore(UNION h.todo)'
        BY <2>2, <2>3, <3>0, <3>2, <4>1, OrderedKeeps DEF InTurn
      <4> QED
        BY <3>0, <3>2, <4>2 DEF InTurn
    <3> QED
      BY <3>1, <3>2 DEF InTurn
  <2> QED
    BY <2>1, <2>4 DEF Turns
<1>5. CASE Next
  BY <1>2, <1>3, <1>4, <1>5, ActsTurns, NextIs
<1>6. CASE UNCHANGED vars
  BY <1>1, <1>6 DEF vars, mail, traces
<1> QED
  BY <1>5, <1>6

LEMMA TurnsInit == Init => Turns
BY DEF Init, Turns

\* The reports of the sender are decided in the order he wrote them in, unless a
\* message came late: the first unit is taken first and the others behind it wait
\* (handleWaIntake), also when messages are dropped.
THEOREM OrderIsKeptAlways == Spec => OrderIsKept
<1> DEFINE OrderStays == \A m, x \in Messages :
                     (x < m /\ row[m].state = "PENDING" /\ row'[m].state = "DONE"
                            /\ row'[x].state = "PENDING") => x \in late
<1>1. Init => TypeInv /\ Turns
  BY TypeInit, TurnsInit
<1>2. TypeInv /\ Turns /\ [Next]_vars => (TypeInv /\ Turns)'
  BY NextType, TurnsNext
<1>3. TypeInv /\ Turns /\ [Next]_vars => [OrderStays]_vars
  <2> SUFFICES ASSUME TypeInv, Turns, Next,
                      NEW m \in Messages, NEW x \in Messages, x < m,
                      row[m].state = "PENDING", row'[m].state = "DONE", row'[x].state = "PENDING",
                      x \notin late
               PROVE  FALSE
    BY DEF OrderStays
  <2>0. RowTypes /\ HandlerTypes /\ BoundTypes /\ JobTypes
    BY Types
  <2>1. ~(Lane \/ Outside)
    <3>1. Lane \/ Outside => UNCHANGED row
      BY LaneIs, OutsideIs DEF mail
    <3> QED
      BY <3>1
  <2>2. ASSUME NEW n \in Messages, Records(n) PROVE FALSE
    BY <2>2, RecordsAdds
  <2>3. ASSUME NEW h \in handlers, Acts(h) PROVE FALSE
    <3>0. x \in Pending \ late /\ InTurn(h)
      <4>1. x \in Pending
        BY <2>3, ActsKeeps DEF Pending
      <4> QED
        BY <4>1 DEF Turns
    <3>1. CASE Drops(h)
      <4>1. \A n \in Messages : IF n \in h.seen /\ row[n].state = "PENDING"
                                THEN row'[n].state = "DONE" ELSE row'[n] = row[n]
        BY <2>0, <3>1, DropsRow
      <4>2. m \in h.seen /\ x \notin h.seen
        BY <3>0, <4>1 DEF Pending
      <4>3. NoneBefore(h.seen)
        BY <3>0, <3>1 DEF Drops, At, InTurn
      <4> QED
        BY <3>0, <4>2, <4>3 DEF NoneBefore
    <3>2. CASE Concludes(h)
      <4>1. /\ h.pc = "write"
            /\ \A n \in Messages : IF n \in h.unit
                                   THEN row[n].state = "PENDING" /\ row'[n].state = "DONE"
                                   ELSE row'[n] = row[n]
        BY <3>2, ConcludesIs
      <4>2. m \in h.unit /\ x \notin h.unit
        BY <4>1
      <4>3. /\ Ordered(h.todo) /\ NoneBefore(UNION h.todo)
            /\ h.unit \in h.todo /\ \A V \in h.todo : Min(h.unit) <= Min(V)
        BY <3>0, <4>1 DEF InTurn
      <4>4. PICK V \in h.todo : x \in V
        BY <3>0, <4>2, <4>3 DEF NoneBefore
      <4>5. Min(h.unit) \in Nat /\ Min(V) \in Nat
        <5>1. V \in SUBSET Messages /\ h.unit \in SUBSET Messages /\ V # {} /\ h.unit # {}
          BY <4>3 DEF Ordered, Recorded
        <5> QED
          BY <5>1, MinOf DEF Messages
      <4>6. Min(h.unit) < Min(V)
        BY <4>2, <4>3, <4>4, <4>5 DEF Ordered
      <4>7. m < x
        BY <4>2, <4>3, <4>4, <4>6 DEF Ordered
      <4> QED
        BY <4>7 DEF Messages
    <3>3. CASE ~Drops(h) /\ ~Concludes(h)
      <4>1. row'[m].state # "DONE"
        <5>1. CASE UNCHANGED row
          BY <5>1
        <5>2. CASE Aligns(h)
          BY <2>0, <5>2, AlignsRow
        <5>3. CASE Hears(h)
          BY <2>0, <5>3, HearsRow
        <5>4. CASE Waits(h)
          BY <2>0, <5>4, WaitsRow
        <5>5. ASSUME NEW n, Defers(h, n) PROVE row'[m].state # "DONE"
          BY <2>0, <5>5, DefersIs
        <5>6. ASSUME NEW n, NEW S, Exhausts(h, n, S) PROVE row'[m].state # "DONE"
          BY <2>0, <5>6, ExhaustsIs
        <5> QED
          BY <2>3, <3>3, <5>1, <5>2, <5>3, <5>4, <5>5, <5>6, FailsIs
             DEF Acts, HandlerStep, Looks, Plans, Decides, FindsChanged, Throws,
                 FindsTokenRevoked, mail, Fails, Concludes
      <4> QED
        BY <4>1
    <3> QED
      BY <3>1, <3>2, <3>3
  <2> QED
    BY <2>1, <2>2, <2>3, NextIs
<1> QED
  BY <1>1, <1>2, <1>3, PTL DEF Spec, OrderIsKept

-----------------------------------------------------------------------------
(* Nobody is forgotten *)

\* A job that will look at m, or one that was given up, no later than m says.
Served(m) ==
  \E j \in Jobs : /\ jobStatus[j] \in {"PENDING", "FAILED"}
                  /\ runAt[j] <= row[m].wait \/ runAt[j] <= now
AllServed == \A m \in Pending : Served(m)

\* Somebody is woken when a delay after a failure is over, also the one that the
\* newer messages are to be aligned with.
DelaysServed ==
  /\ \A m \in Pending : row[m].tagged /\ row[m].wait > now => Awake(row[m].wait)
  /\ \A h \in handlers : h.pc = "align" /\ h.until > now => Awake(h.until)

\* What a handler that is waited for still has to see to.
LeavesServed(h) ==
  /\ h.pc = "align" => h.until > now
  /\ h.pc = "drop" => Pending \subseteq h.seen
  /\ h.pc \in {"decide", "write"} => Pending \subseteq (UNION h.todo) \cup h.open
  /\ h.pc = "wait" => Pending \subseteq h.open
  /\ h.pc = "returned" => AllServed

Serving ==
  /\ LaneIdle => AllServed
  /\ \A h \in handlers : Awaited(h) => LeavesServed(h)

LEMMA ServingInit == Init => DelaysServed /\ Serving
<1> SUFFICES ASSUME Init PROVE DelaysServed /\ Serving
  OBVIOUS
<1>1. Pending = {} /\ handlers = {}
  BY DEF Init, Pending, Absent
<1> QED
  BY <1>1 DEF DelaysServed, Serving, AllServed

\* A job that is there to look serves everyone.
LEMMA ServedBy ==
  ASSUME NEW j \in Jobs, jobStatus'[j] \in {"PENDING", "FAILED"}, runAt'[j] <= now'
  PROVE  AllServed'
BY DEF AllServed, Served

LEMMA WokenServes ==
  ASSUME NEW t, Woken(t), NEW m \in Messages, t <= row'[m].wait \/ t <= now'
  PROVE  Served(m)'
BY DEF Woken, Served

\* What a step of a handler leaves served.
LEMMA StaysServed ==
  ASSUME TypeInv, TypeInv', NEW h \in handlers, Acts(h), NEW m \in Pending', Served(m)
  PROVE  Served(m)'
<1>1. JobsAdd /\ now' = now /\ m \in Messages /\ RowMoves(m) /\ row'[m].state = "PENDING"
  BY HandlerMoves DEF Pending
<1>2. row[m].wait \in Nat /\ row'[m].wait \in Nat /\ \A j \in Jobs : runAt[j] \in Nat
  <2>1. RowTypes /\ JobTypes /\ RowTypes'
    BY Types DEF TypeInv, TypeOK, RowTypes
  <2> QED
    BY <1>1, <2>1 DEF RowTypes, RowType, JobTypes
<1>3. CASE row'[m].wait >= row[m].wait
  <2>1. PICK j \in Jobs : /\ jobStatus[j] \in {"PENDING", "FAILED"}
                          /\ runAt[j] <= row[m].wait \/ runAt[j] <= now
    BY DEF Served
  <2>2. jobStatus'[j] = jobStatus[j] /\ runAt'[j] = runAt[j]
    BY <1>1, <2>1 DEF JobsAdd
  <2>3. runAt[j] <= row'[m].wait \/ runAt[j] <= now'
    BY <1>1, <1>2, <1>3, <2>1
  <2> QED
    BY <2>1, <2>2, <2>3 DEF Served
<1>4. CASE Woken(row'[m].wait)
  BY <1>1, <1>2, <1>4, WokenServes
<1> QED
  BY <1>1, <1>3, <1>4 DEF RowMoves

\* The delays stay served whatever a handler does.
LEMMA DelaysActs ==
  ASSUME TypeInv, HandlersApart, DelaysServed, NEW h \in handlers, Acts(h)
  PROVE  DelaysServed'
<1>0. JobTypes /\ RowTypes /\ BoundTypes /\ HandlerTypes /\ h.now \in Nat /\ h.until \in Nat
  BY Types, HandlerJob
<1>1. /\ JobsAdd /\ now' = now /\ Pending' \subseteq Pending /\ Pending \subseteq Messages
      /\ \A t : Awake(t) => Woken(t)
  BY HandlerMoves, ActsKeeps, AddKeeps DEF Pending
\* It suffices to look at the row, and at a handler that is to align.
<1>2. ASSUME \A m \in Pending' : row'[m].tagged /\ row'[m].wait > now => Woken(row'[m].wait),
             \A x \in handlers' : x.pc = "align" => x \in handlers \/ (x.until > now => Awake(x.until))
      PROVE  DelaysServed'
  <2>1. \A x \in handlers' : x.pc = "align" /\ x.until > now => Woken(x.until)
    BY <1>1, <1>2 DEF DelaysServed
  <2> QED
    BY <1>1, <1>2, <2>1 DEF DelaysServed, Awake, Woken
<1>3. ASSUME NEW k, After(h, k), k.pc # "align"
      PROVE  \A x \in handlers' : x.pc = "align" => x \in handlers \/ (x.until > now => Awake(x.until))
  BY <1>3 DEF After
<1>4. Ends(h, "returned") =>
        \A x \in handlers' : x.pc = "align" => x \in handlers \/ (x.until > now => Awake(x.until))
  <2> SUFFICES ASSUME Ends(h, "returned")
               PROVE  \A x \in handlers' : x.pc = "align" => x \in handlers \/ (x.until > now => Awake(x.until))
    OBVIOUS
  <2>1. PICK k : After(h, k) /\ k.pc = "returned"
    BY <1>0, EndsAfter DEF Ended
  <2> QED
    BY <2>1, <1>3
<1>5. ASSUME \A m \in Pending' : row'[m] = row[m]
      PROVE  \A m \in Pending' : row'[m].tagged /\ row'[m].wait > now => Woken(row'[m].wait)
  BY <1>1, <1>5 DEF DelaysServed
<1>6. CASE Looks(h)
  <2>1. PICK k : /\ After(h, k)
                 /\ \/ k.pc = "align" /\ k.until > h.now
                       /\ \E m \in Pending : row[m].tagged /\ row[m].wait = k.until
                    \/ k.pc = "drop" /\ k.seen = Pending
                    \/ k.pc = "hear"
                    \/ k.pc = "decide" /\ k.todo = Ready(Pending, h.now)
                       /\ k.open = Pending \ UNION Ready(Pending, h.now)
                    \/ k.pc = "wait" /\ k.open = Pending
                    \/ k.pc = "returned" /\ Pending = {}
    BY <1>6, LooksAfter
  <2>2. k.pc = "align" => (k.until > now => Awake(k.until))
    BY <2>1 DEF DelaysServed
  <2>3. UNCHANGED row
    BY <1>6 DEF Looks, mail
  <2>4. \A x \in handlers' : x.pc = "align" => x \in handlers \/ (x.until > now => Awake(x.until))
    BY <2>1, <2>2 DEF After
  <2> QED
    BY <1>2, <1>5, <2>3, <2>4
<1>7. CASE Aligns(h)
  <2>1. \A m \in Messages :
          /\ row'[m].state = row[m].state /\ row'[m].tagged = row[m].tagged
          /\ row'[m].wait = IF row[m].state = "PENDING" /\ row[m].wait < h.until
                            THEN h.until ELSE row[m].wait
    BY <1>0, <1>7, AlignsRow
  <2>2. h.until > now => Woken(h.until)
    BY <1>1, <1>7 DEF DelaysServed, Aligns, At
  <2>3. ASSUME NEW m \in Pending', row'[m].tagged, row'[m].wait > now
        PROVE  Woken(row'[m].wait)
    BY <1>1, <2>1, <2>2, <2>3 DEF DelaysServed
  <2> QED
    BY <1>2, <1>4, <1>7, <2>3 DEF Aligns
<1>8. CASE Drops(h)
  <2>1. \A m \in Pending' : row'[m] = row[m]
    BY <1>0, <1>8, DropsRow DEF Pending
  <2> QED
    BY <1>2, <1>4, <1>5, <1>8, <2>1 DEF Drops
<1>9. CASE Hears(h)
  <2>1. ASSUME NEW m \in Pending', row'[m].tagged, row'[m].wait > now
        PROVE  Woken(row'[m].wait)
    BY <1>0, <1>1, <1>9, <2>1, HearsRow DEF DelaysServed
  <2> QED
    BY <1>2, <1>3, <1>9, <2>1, HearsAfter
<1>10. CASE Fails(h)
  <2>1. PICK m, S : Defers(h, m) \/ Exhausts(h, m, S)
    BY <1>10, FailsIs
  <2>2. CASE Defers(h, m)
    <3>1. PICK t \in Nat : /\ IntakeAt(t)
                           /\ \A n \in Messages :
                                /\ row'[n].state = row[n].state
                                /\ row[n].state = "PENDING" => row'[n].wait = t \/ row'[n].wait = row[n].wait
                                /\ row[n].state = "PENDING" => row'[n].wait >= t
                                /\ row'[n].tagged => row'[n].wait = t \/ row[n].tagged
      BY <1>0, <2>2, DefersIs
    <3>2. Woken(t)
      BY <1>0, <3>1, EnqueueAdds
    <3>3. ASSUME NEW n \in Pending', row'[n].tagged, row'[n].wait > now
          PROVE  Woken(row'[n].wait)
      <4>1. n \in Messages /\ row[n].state = "PENDING" /\ n \in Pending
        BY <1>1 DEF Pending
      <4> QED
        BY <1>1, <3>1, <3>2, <3>3, <4>1 DEF DelaysServed
    <3> QED
      BY <1>2, <1>4, <2>2, <3>3 DEF Defers
  <2>3. CASE Exhausts(h, m, S)
    <3>1. \A n \in Pending' : row'[n] = row[n]
      BY <1>0, <2>3, ExhaustsIs DEF Pending
    <3> QED
      BY <1>2, <1>4, <1>5, <2>3, <3>1 DEF Exhausts
  <2> QED
    BY <2>1, <2>2, <2>3
<1>11. CASE Plans(h)
  <2>1. UNCHANGED row
    BY <1>11 DEF Plans, mail
  <2> QED
    BY <1>2, <1>3, <1>5, <1>11, <2>1, PlansAfter
<1>12. CASE Decides(h)
  <2>1. UNCHANGED row
    BY <1>12 DEF Decides, mail
  <2> QED
    BY <1>2, <1>3, <1>5, <1>12, <2>1, DecidesAfter
<1>13. CASE FindsChanged(h)
  BY <1>2, <1>4, <1>5, <1>13 DEF FindsChanged, mail
<1>14. CASE Concludes(h)
  <2>1. \A m \in Messages : IF m \in h.unit
                            THEN row[m].state = "PENDING" /\ row'[m].state = "DONE"
                            ELSE row'[m] = row[m]
    BY <1>14, ConcludesIs
  <2>2. \A m \in Pending' : row'[m] = row[m]
    BY <2>1 DEF Pending
  <2>3. \A x \in handlers' : x.pc = "align" => x \in handlers \/ (x.until > now => Awake(x.until))
    BY <1>3, <1>14, ConcludesIs
  <2> QED
    BY <1>2, <1>5, <2>2, <2>3
<1>15. CASE Waits(h)
  <2>1. Woken(h.until)
    BY <1>0, <1>15, EnqueueAdds DEF Waits
  <2>2. \A m \in Messages :
          /\ row'[m].tagged = row[m].tagged
          /\ row'[m].wait = IF m \in h.open /\ row[m].state = "PENDING"
                            THEN h.until ELSE row[m].wait
    BY <1>0, <1>15, WaitsRow
  <2>3. ASSUME NEW m \in Pending', row'[m].tagged, row'[m].wait > now
        PROVE  Woken(row'[m].wait)
    BY <1>1, <2>1, <2>2, <2>3 DEF DelaysServed
  <2> QED
    BY <1>2, <1>4, <1>15, <2>3 DEF Waits
<1>16. CASE Throws(h) \/ FindsTokenRevoked(h)
  BY <1>2, <1>3, <1>5, <1>16, ThrowsIs
<1> QED
  BY <1>6, <1>7, <1>8, <1>9, <1>10, <1>11, <1>12, <1>13, <1>14, <1>15, <1>16
     DEF Acts, HandlerStep, Fails, Concludes

\* A handler that is waited for leaves what it has to.
LEMMA ServingActs ==
  ASSUME TypeInv, HandlersApart, DelaysServed, Serving, NEW h \in handlers, Acts(h)
  PROVE  Serving'
<1>0. /\ JobTypes /\ RowTypes /\ BoundTypes /\ HandlerTypes /\ h.now \in Nat /\ h.until \in Nat
      /\ h.job \in Jobs /\ now \in Nat
  BY Types, HandlerJob, NowIsNat
<1>1. /\ JobsAdd /\ now' = now /\ Pending' \subseteq Pending /\ Pending \subseteq Messages
      /\ (\A t : Awake(t) => Woken(t)) /\ (LaneIdle' <=> LaneIdle)
  BY HandlerMoves, ActsKeeps, AddKeeps DEF Pending
<1>2. TypeInv'
  BY NextType DEF Next, Acts
<1>3. AllServed => AllServed'
  BY <1>1, <1>2, StaysServed DEF AllServed
<1>4. ASSUME NEW x \in handlers, Awaited(x)
      PROVE  LeavesServed(x)'
  BY <1>1, <1>3, <1>4 DEF Serving, LeavesServed
\* It suffices to look at what the handler itself has before it.
<1>5. ASSUME NEW k, After(h, k), Awaited(h) => LeavesServed(k)'
      PROVE  Serving'
  <2>1. ASSUME NEW x \in handlers', Awaited(x)'
        PROVE  LeavesServed(x)'
    <3>1. CASE x \in handlers
      <4>1. Awaited(x)
        BY <1>1, <2>1, <3>1, AddKeeps, HandlerJob
      <4> QED
        BY <1>4, <3>1, <4>1
    <3>2. CASE x = k /\ Succeeds(h, k)
      <4>1. k.job = h.job /\ k.attempt = h.attempt
        BY <3>2 DEF Succeeds
      <4>2. Awaited(k)
        BY <1>0, <1>1, <2>1, <3>2, <4>1, AddKeeps
      <4>3. Awaited(h)
        BY <4>1, <4>2 DEF Awaited
      <4> QED
        BY <1>5, <3>2, <4>3
    <3> QED
      BY <1>5, <2>1, <3>1, <3>2 DEF After
  <2>2. LaneIdle' => AllServed'
    BY <1>1, <1>3 DEF Serving
  <2> QED
    BY <2>1, <2>2 DEF Serving
<1>6. ASSUME NEW k, After(h, k), k.pc \in {"hear", "plan", "threw"}
      PROVE  Serving'
  <2>1. LeavesServed(k)'
    BY <1>6 DEF LeavesServed
  <2> QED
    BY <1>5, <1>6, <2>1
<1>7. ASSUME Ends(h, "returned"), Awaited(h) => AllServed'
      PROVE  Serving'
  <2>1. PICK k : After(h, k) /\ k.pc = "returned"
    BY <1>0, <1>7, EndsAfter DEF Ended
  <2>2. Awaited(h) => LeavesServed(k)'
    BY <1>7, <2>1 DEF LeavesServed
  <2> QED
    BY <1>5, <2>1, <2>2
<1>8. Awaited(h) => h.now = now /\ LeavesServed(h)
  BY DEF HandlersApart, Serving
<1>9. Pending' = {} => AllServed'
  BY DEF AllServed
<1>10. ASSUME NEW k, After(h, k), UNCHANGED row,
              \/ k.pc = "align" /\ k.until > h.now
              \/ k.pc = "drop" /\ k.seen = Pending
              \/ k.pc = "hear"
              \/ k.pc = "decide" /\ k.todo = Ready(Pending, h.now)
                 /\ k.open = Pending \ UNION Ready(Pending, h.now)
              \/ k.pc = "wait" /\ k.open = Pending
              \/ k.pc = "returned" /\ Pending = {}
       PROVE  Serving'
  <2>1. Pending' = Pending
    BY <1>10 DEF Pending
  <2>2. k.pc = "align" /\ k.until > h.now => (Awaited(h) => LeavesServed(k)')
    BY <1>1, <1>8 DEF LeavesServed
  <2>3. k.pc = "drop" /\ k.seen = Pending => LeavesServed(k)'
    BY <2>1 DEF LeavesServed
  <2>4. k.pc = "hear" => LeavesServed(k)'
    BY DEF LeavesServed
  <2>5. (k.pc = "decide" /\ k.todo = Ready(Pending, h.now)
          /\ k.open = Pending \ UNION Ready(Pending, h.now)) => LeavesServed(k)'
    BY <2>1 DEF LeavesServed
  <2>6. k.pc = "wait" /\ k.open = Pending => LeavesServed(k)'
    BY <2>1 DEF LeavesServed
  <2>7. k.pc = "returned" /\ Pending = {} => LeavesServed(k)'
    BY <1>9, <2>1 DEF LeavesServed
  <2>8. Awaited(h) => LeavesServed(k)'
    BY <1>10, <2>2, <2>3, <2>4, <2>5, <2>6, <2>7
  <2> QED
    BY <1>5, <1>10, <2>8
<1>11. CASE Looks(h)
  <2>1. UNCHANGED row
    BY <1>11 DEF Looks, mail
  <2> QED
    BY <1>10, <1>11, <2>1, LooksAfter
<1>12. CASE Plans(h)
  <2>1. UNCHANGED row
    BY <1>12 DEF Plans, mail
  <2> QED
    BY <1>10, <1>12, <2>1, PlansAfter
<1>13. CASE Aligns(h)
  <2>1. \A m \in Messages :
          /\ row'[m].state = row[m].state
          /\ row'[m].wait = IF row[m].state = "PENDING" /\ row[m].wait < h.until
                            THEN h.until ELSE row[m].wait
    BY <1>0, <1>13, AlignsRow
  <2>2. ASSUME Awaited(h) PROVE AllServed'
    <3>1. h.until > now /\ h.pc = "align"
      BY <1>8, <1>13, <2>2 DEF LeavesServed, Aligns, At
    <3>2. Woken(h.until)
      BY <1>1, <3>1 DEF DelaysServed
    <3>3. \A m \in Messages : row[m].wait \in Nat
      BY <1>0 DEF RowTypes, RowType
    <3>4. \A m \in Pending' : m \in Messages /\ h.until <= row'[m].wait
      BY <1>0, <2>1, <3>3 DEF Pending
    <3> QED
      BY <3>2, <3>4, WokenServes DEF AllServed
  <2> QED
    BY <1>7, <1>13, <2>2 DEF Aligns
<1>14. CASE Drops(h)
  <2>1. \A m \in Messages : IF m \in h.seen /\ row[m].state = "PENDING"
                            THEN row'[m].state = "DONE" ELSE row'[m] = row[m]
    BY <1>0, <1>14, DropsRow
  <2>2. ASSUME Awaited(h) PROVE AllServed'
    <3>1. Pending \subseteq h.seen
      BY <1>8, <1>14, <2>2 DEF LeavesServed, Drops, At
    <3>2. Pending' = {}
      BY <2>1, <3>1 DEF Pending
    <3> QED
      BY <1>9, <3>2
  <2> QED
    BY <1>7, <1>14, <2>2 DEF Drops
<1>15. CASE Hears(h)
  BY <1>6, <1>15, HearsAfter
<1>16. CASE Fails(h)
  <2>1. PICK m, S : Defers(h, m) \/ Exhausts(h, m, S)
    BY <1>16, FailsIs
  <2>2. CASE Defers(h, m)
    <3>1. PICK t \in Nat : /\ IntakeAt(t)
                           /\ \A n \in Messages :
                                /\ row'[n].state = row[n].state
                                /\ row[n].state = "PENDING" => row'[n].wait = t \/ row'[n].wait = row[n].wait
                                /\ row[n].state = "PENDING" => row'[n].wait >= t
                                /\ row'[n].tagged => row'[n].wait = t \/ row[n].tagged
      BY <1>0, <2>2, DefersIs
    <3>2. Woken(t)
      BY <1>0, <3>1, EnqueueAdds
    <3>3. \A n \in Pending' : n \in Messages /\ t <= row'[n].wait
      <4>1. \A n \in Messages : row'[n].wait \in Nat
        BY <1>2 DEF TypeInv, TypeOK, RowType
      <4> QED
        BY <3>1, <4>1 DEF Pending
    <3>4. AllServed'
      BY <3>2, <3>3, WokenServes DEF AllServed
    <3> QED
      BY <1>7, <2>2, <3>4 DEF Defers
  <2>3. CASE Exhausts(h, m, S)
    <3>1. IntakeAt(h.now)
      BY <2>3 DEF Exhausts
    <3>2. Woken(h.now)
      BY <1>0, <3>1, EnqueueAdds
    <3>3. Awaited(h) => AllServed'
      BY <1>0, <1>1, <1>8, <3>2, WokenServes DEF AllServed
    <3> QED
      BY <1>7, <2>3, <3>3 DEF Exhausts
  <2> QED
    BY <2>1, <2>2, <2>3
<1>17. CASE Decides(h)
  <2>1. PICK k : /\ After(h, k)
                 /\ k.pc = "write" /\ k.unit \in h.todo /\ k.todo = h.todo /\ k.open = h.open
                 /\ \A V \in h.todo : Min(k.unit) <= Min(V)
    BY <1>17, DecidesAfter
  <2>2. Awaited(h) => Pending \subseteq (UNION k.todo) \cup k.open
    BY <1>8, <1>17, <2>1 DEF LeavesServed, Decides, At
  <2>3. Awaited(h) => LeavesServed(k)'
    BY <1>1, <2>1, <2>2 DEF LeavesServed
  <2> QED
    BY <1>5, <2>1, <2>3
<1>18. CASE FindsChanged(h)
  <2>1. Woken(h.now)
    BY <1>0, <1>18, EnqueueAdds DEF FindsChanged
  <2>2. Awaited(h) => AllServed'
    BY <1>0, <1>1, <1>8, <2>1, WokenServes DEF AllServed
  <2> QED
    BY <1>7, <1>18, <2>2 DEF FindsChanged
<1>19. CASE Concludes(h)
  <2>1. PICK k : /\ After(h, k)
                 /\ \/ k.pc = "decide" /\ k.todo = h.todo \ {h.unit} /\ k.open = h.open
                    \/ k.pc = "wait" /\ h.todo \ {h.unit} = {} /\ k.open = h.open
                    \/ k.pc = "returned" /\ h.todo \ {h.unit} = {} /\ h.open = {}
    BY <1>19, ConcludesIs
  <2>2. h.pc = "write" /\ \A m \in Messages : m \in h.unit => row'[m].state = "DONE"
    BY <1>19, ConcludesIs
  <2>3. ASSUME Awaited(h) PROVE LeavesServed(k)'
    <3>1. Pending \subseteq (UNION h.todo) \cup h.open
      BY <1>8, <2>2, <2>3 DEF LeavesServed
    <3>2. \A m \in Pending' : m \notin h.unit /\ m \in (UNION h.todo) \cup h.open
      BY <1>1, <2>2, <3>1 DEF Pending
    <3>3. Pending' \subseteq (UNION (h.todo \ {h.unit})) \cup h.open
      BY <3>2
    <3>4. h.todo \ {h.unit} = {} => Pending' \subseteq h.open
      BY <3>3
    <3>5. CASE k.pc = "decide" /\ k.todo = h.todo \ {h.unit} /\ k.open = h.open
      BY <3>3, <3>5 DEF LeavesServed
    <3>6. CASE k.pc = "wait" /\ h.todo \ {h.unit} = {} /\ k.open = h.open
      BY <3>4, <3>6 DEF LeavesServed
    <3>7. CASE k.pc = "returned" /\ h.todo \ {h.unit} = {} /\ h.open = {}
      BY <1>9, <3>4, <3>7 DEF LeavesServed
    <3> QED
      BY <2>1, <3>5, <3>6, <3>7
  <2> QED
    BY <1>5, <2>1, <2>3
<1>20. CASE Waits(h)
  <2>1. Woken(h.until)
    BY <1>0, <1>20, EnqueueAdds DEF Waits
  <2>2. \A m \in Messages : row'[m].wait = IF m \in h.open /\ row[m].state = "PENDING"
                                           THEN h.until ELSE row[m].wait
    BY <1>0, <1>20, WaitsRow
  <2>3. ASSUME Awaited(h) PROVE AllServed'
    <3>1. Pending \subseteq h.open
      BY <1>8, <1>20, <2>3 DEF LeavesServed, Waits, At
    <3>2. \A m \in Pending' : m \in Messages /\ row'[m].wait = h.until
      BY <1>1, <2>2, <3>1 DEF Pending
    <3> QED
      BY <1>0, <2>1, <3>2, WokenServes DEF AllServed
  <2> QED
    BY <1>7, <1>20, <2>3 DEF Waits
<1>21. CASE Throws(h) \/ FindsTokenRevoked(h)
  BY <1>6, <1>21, ThrowsIs
<1> QED
  BY <1>11, <1>12, <1>13, <1>14, <1>15, <1>16, <1>17, <1>18, <1>19, <1>20, <1>21
     DEF Acts, HandlerStep, Fails, Concludes

\* A job that is put back or given up serves everyone at once.
LEMMA ServingBack ==
  ASSUME TypeInv, HandlersApart, DelaysServed, Serving, NEW S \in SUBSET Jobs, Queue!PutBackOrGiveUp(S),
         handlers' \subseteq handlers, UNCHANGED <<now, runAt, row>>
  PROVE  DelaysServed' /\ Serving'
<1>1. /\ S # {}
      /\ \A j \in S : jobStatus'[j] \in {"PENDING", "FAILED"} /\ runAt'[j] = 0
      /\ \A t : Awake(t) => Woken(t)
  BY BackIs
<1>2. now \in Nat /\ Pending' = Pending
  BY Types, NowIsNat DEF Pending
<1>3. AllServed'
  <2>1. PICK j \in S : TRUE
    BY <1>1
  <2> QED
    BY <1>1, <1>2, <2>1, ServedBy
<1>4. DelaysServed'
  BY <1>1, <1>2 DEF DelaysServed, Awake, Woken
<1>5. ASSUME NEW h \in handlers', Awaited(h)'
      PROVE  LeavesServed(h)'
  <2>1. Awaited(h) \/ \E j \in S : jobStatus'[j] = "RUNNING"
    <3>1. /\ jobAttempts' = jobAttempts /\ \A j \in Jobs \ S : jobStatus'[j] = jobStatus[j]
      BY BackIs
    <3> QED
      BY <1>5, <3>1, HandlerJob DEF Awaited
  <2>2. Awaited(h)
    BY <1>1, <2>1
  <2>3. LeavesServed(h)
    BY <2>2 DEF Serving
  <2> QED
    BY <1>2, <1>3, <2>3 DEF LeavesServed
<1> QED
  BY <1>3, <1>4, <1>5 DEF Serving

LEMMA ServingLane ==
  ASSUME TypeInv, HandlersApart, DelaysServed, Serving, Lane
  PROVE  DelaysServed' /\ Serving'
<1>0. JobTypes /\ RowTypes /\ now \in Nat
  BY Types, NowIsNat
<1>1. UNCHANGED row /\ Pending' = Pending
  BY LaneIs DEF mail, Pending
<1>2. /\ \A j \in Jobs : runAt[j] \in Nat
      /\ \A m \in Pending : row[m].wait \in Nat
  BY <1>0 DEF JobTypes, RowTypes, RowType, Pending
<1>3. CASE BeginsRound
  <2>1. /\ LaneIdle /\ now' = now + 1 /\ UNCHANGED <<jobStatus, jobAttempts, runAt, handlers>>
    BY <1>3 DEF BeginsRound, jobs
  <2>2. \A h \in handlers : ~Awaited(h) /\ h.until \in Nat
    BY <2>1, IdleAwaitsNone, HandlerJob
  <2>3. DelaysServed'
    BY <1>0, <1>1, <1>2, <2>1, <2>2 DEF DelaysServed, Awake
  <2>4. AllServed'
    BY <1>0, <1>1, <1>2, <2>1 DEF Serving, AllServed, Served
  <2> QED
    BY <2>1, <2>2, <2>3, <2>4 DEF Serving, Awaited
<1>4. CASE Crash
  <2> DEFINE orphans == {j \in Jobs : jobStatus[j] = "RUNNING"}
  <2>1. Queue!PutBackOrGiveUp(orphans) /\ UNCHANGED <<now, runAt>> /\ handlers' = {}
    BY <1>4 DEF Crash
  <2> QED
    BY <1>1, <2>1, ServingBack
<1>5. ASSUME NEW j \in Jobs, Starts(j)
      PROVE  DelaysServed' /\ Serving'
  <2>1. /\ LaneIdle /\ now' = now /\ jobStatus[j] = "PENDING" /\ jobStatus'[j] = "RUNNING"
        /\ runAt[j] <= now
        /\ jobAttempts[j] \in Nat /\ jobAttempts'[j] = jobAttempts[j] + 1
        /\ \A i \in Jobs \ {j} : /\ jobStatus'[i] = jobStatus[i] /\ runAt'[i] = runAt[i]
                                 /\ jobAttempts'[i] = jobAttempts[i]
    BY <1>5, StartsIs
  <2>2. PICK g : /\ handlers' = handlers \cup {g}
                 /\ g.job = j /\ g.attempt = jobAttempts[j] + 1 /\ g.now = now /\ g.pc = "look"
    BY <1>5, StartsIs
  <2>3. \A t : t > now /\ Awake(t) => Woken(t)
    <3> SUFFICES ASSUME NEW t, t > now, NEW i \in Jobs, jobStatus[i] = "PENDING", runAt[i] = t
                 PROVE  jobStatus'[i] = "PENDING" /\ runAt'[i] = t
      BY DEF Awake, Woken
    <3>1. i # j
      BY <1>0, <1>2, <2>1
    <3> QED
      BY <2>1, <3>1
  <2>4. DelaysServed'
    BY <1>1, <2>1, <2>2, <2>3 DEF DelaysServed, Awake, Woken
  <2>5. ASSUME NEW h \in handlers', Awaited(h)'
        PROVE  LeavesServed(h)'
    <3>1. CASE h = g
      BY <2>2, <3>1 DEF LeavesServed
    <3>2. CASE h \in handlers
      <4>1. ~Awaited(h) /\ h.job \in Jobs /\ h.attempt <= jobAttempts[h.job] /\ h.attempt \in Nat
        BY <2>1, <3>2, IdleAwaitsNone, HandlerJob DEF HandlersApart
      <4>2. h.job = j
        BY <2>1, <2>5, <4>1 DEF Awaited
      <4> QED
        BY <2>1, <2>5, <4>1, <4>2 DEF Awaited
    <3> QED
      BY <2>2, <3>1, <3>2
  <2>6. ~LaneIdle'
    BY <2>1 DEF LaneIdle
  <2> QED
    BY <2>4, <2>5, <2>6 DEF Serving
<1>6. ASSUME NEW h \in handlers, Settles(h)
      PROVE  DelaysServed' /\ Serving'
  <2>1. /\ ~Running(h) /\ handlers' = handlers \ {h} /\ UNCHANGED <<now, runAt>>
        /\ h.job \in Jobs /\ Awaited(h)
    BY <1>6, HandlerJob DEF Settles, HandlersApart
  <2>2. CASE h.pc = "returned"
    <3>1. /\ jobStatus[h.job] = "RUNNING" /\ jobStatus' = [jobStatus EXCEPT ![h.job] = "DONE"]
          /\ jobAttempts' = jobAttempts
      BY <1>6, <2>2 DEF Settles, Queue!Finish
    <3>2. \A j \in Jobs : jobStatus'[j] = jobStatus[j] \/ (jobStatus[j] = "RUNNING" /\ jobStatus'[j] = "DONE")
      BY <1>0, <2>1, <3>1 DEF JobTypes
    <3>3. AllServed
      BY <2>1, <2>2 DEF Serving, LeavesServed
    <3>4. AllServed'
      BY <1>1, <2>1, <3>2, <3>3 DEF AllServed, Served
    <3>5. DelaysServed'
      BY <1>1, <2>1, <3>2 DEF DelaysServed, Awake
    <3>6. ASSUME NEW x \in handlers', Awaited(x)' PROVE LeavesServed(x)'
      <4>1. x \in handlers /\ x.job \in Jobs /\ Awaited(x)
        BY <2>1, <3>1, <3>2, <3>6, HandlerJob DEF Awaited
      <4>2. LeavesServed(x)
        BY <4>1 DEF Serving
      <4> QED
        BY <1>1, <2>1, <3>4, <4>2 DEF LeavesServed
    <3> QED
      BY <3>4, <3>5, <3>6 DEF Serving
  <2>3. CASE h.pc # "returned"
    <3>1. Queue!PutBackOrGiveUp({h.job})
      BY <1>6, <2>3 DEF Settles
    <3> QED
      BY <1>1, <2>1, <3>1, ServingBack
  <2> QED
    BY <2>2, <2>3
<1>7. ASSUME NEW h \in handlers, TimesOut(h)
      PROVE  DelaysServed' /\ Serving'
  <2>1. h.job \in Jobs /\ Queue!PutBackOrGiveUp({h.job}) /\ UNCHANGED <<now, runAt, handlers>>
    BY <1>7, HandlerJob DEF TimesOut
  <2> QED
    BY <1>1, <2>1, ServingBack
<1> QED
  BY <1>3, <1>4, <1>5, <1>6, <1>7 DEF Lane

LEMMA ServingRecords ==
  ASSUME TypeInv, DelaysServed, Serving, NEW m \in Messages, Records(m)
  PROVE  DelaysServed' /\ Serving'
<1>0. TypeInv'
  BY NextType DEF Next
<1>1. /\ LaneIdle /\ JobsAdd /\ UNCHANGED <<now, handlers>>
      /\ row[m].state = "absent" /\ \A n \in Messages \ {m} : row'[n] = row[n]
      /\ row'[m].state = "PENDING" => Woken(row'[m].wait)
  BY RecordsAdds
<1>2. (\A t : Awake(t) => Woken(t)) /\ (LaneIdle' <=> LaneIdle)
  BY <1>1, AddKeeps
<1>3. \A n \in Pending' : (n \in Pending /\ row'[n] = row[n]) \/ (n = m /\ Woken(row'[m].wait))
  BY <1>1 DEF Pending
<1>4. row'[m].wait \in Nat
  BY <1>0 DEF TypeInv, TypeOK, RowType
<1>5. ASSUME NEW n \in Pending' PROVE Served(n)'
  <2>1. CASE n \in Pending /\ row'[n] = row[n]
    <3>1. PICK j \in Jobs : /\ jobStatus[j] \in {"PENDING", "FAILED"}
                            /\ runAt[j] <= row[n].wait \/ runAt[j] <= now
      BY <1>1, <2>1 DEF Serving, AllServed, Served
    <3>2. jobStatus'[j] = jobStatus[j] /\ runAt'[j] = runAt[j]
      BY <1>1, <3>1 DEF JobsAdd
    <3> QED
      BY <1>1, <2>1, <3>1, <3>2 DEF Served
  <2>2. CASE n = m /\ Woken(row'[m].wait)
    BY <1>4, <2>2, WokenServes
  <2> QED
    BY <1>3, <2>1, <2>2
<1>6. DelaysServed'
  <2>1. \A h \in handlers' : h.pc = "align" /\ h.until > now => Woken(h.until)
    BY <1>1, <1>2 DEF DelaysServed
  <2>2. ASSUME NEW n \in Pending', row'[n].tagged, row'[n].wait > now
        PROVE  Woken(row'[n].wait)
    BY <1>2, <1>3, <2>2 DEF DelaysServed
  <2> QED
    BY <1>1, <2>1, <2>2 DEF DelaysServed, Awake, Woken
<1>7. \A h \in handlers' : ~Awaited(h)'
  BY <1>1, <1>2, IdleAwaitsNone, AddKeeps, HandlerJob
<1> QED
  BY <1>5, <1>6, <1>7 DEF Serving, AllServed

\* What the jobs, the handlers and the rows keep among them.
Looked == TypeInv /\ HandlersApart /\ DelaysServed /\ Serving

LEMMA LookedNext == Looked /\ [Next]_vars => Looked'
<1> SUFFICES ASSUME TypeInv, HandlersApart, DelaysServed, Serving, [Next]_vars
             PROVE  HandlersApart' /\ DelaysServed' /\ Serving'
  BY NextType DEF Looked
<1>1. CASE Lane
  BY <1>1, ApartLane, ServingLane DEF Lane
<1>2. ASSUME NEW m \in Messages, Records(m)
      PROVE  HandlersApart' /\ DelaysServed' /\ Serving'
  BY <1>2, ApartLane, ServingRecords
<1>3. ASSUME NEW h \in handlers, Acts(h)
      PROVE  HandlersApart' /\ DelaysServed' /\ Serving'
  BY <1>3, ApartActs, DelaysActs, ServingActs
<1>4. ASSUME UNCHANGED <<now, jobs, row, handlers>>
      PROVE  HandlersApart' /\ DelaysServed' /\ Serving'
  BY <1>4 DEF jobs, HandlersApart, Awaited, Running, DelaysServed, Awake, Pending, Serving,
              LaneIdle, AllServed, Served, LeavesServed
<1>5. CASE Outside
  BY <1>4, <1>5, OutsideIs
<1>6. CASE UNCHANGED vars
  BY <1>4, <1>6 DEF vars, mail
<1> QED
  BY <1>1, <1>2, <1>3, <1>5, <1>6, NextIs

\* Whatever waits has a job that looks no later than it says, or one that was
\* given up where people see it: recordMessage, deferSender, exhaust and the rest
\* of wa-intake.ts leave one behind in the transaction that lets it wait.
THEOREM NobodyForgottenAlways == Spec => []NobodyForgotten
<1>1. Init => Looked
  BY TypeInit, ApartInit, ServingInit DEF Looked
<1>2. Looked => NobodyForgotten
  <2> SUFFICES ASSUME Looked PROVE NobodyForgotten
    OBVIOUS
  <2>1. CASE LaneIdle
    BY <2>1 DEF Looked, Serving, AllServed, Served, NobodyForgotten
  <2>2. CASE ~LaneIdle
    <3>1. PICK j \in Jobs : jobStatus[j] = "RUNNING"
      BY <2>2 DEF LaneIdle
    <3>2. runAt[j] = 0 /\ now \in Nat
      BY <3>1, Types, NowIsNat DEF Looked, HandlersApart
    <3> QED
      BY <3>1, <3>2 DEF NobodyForgotten
  <2> QED
    BY <2>1, <2>2
<1> QED
  BY <1>1, LookedNext, <1>2, PTL DEF Spec

-----------------------------------------------------------------------------
(* The business number: its inductive invariant *)

SomeNumber == Numbers \cup {NoNumber}
SomeToken  == Tokens \cup {NoToken}
SyncPc     == {"idle", "contacts", "contactsDone", "history", "historyDone"}

\* The processes with all their fields.
ConnectType == [pc : {"idle", "found", "subscribed", "swept"}, number : SomeNumber,
                token : SomeToken, others : SUBSET Numbers]
DisconnectType == [pc : {"idle", "read", "unsubscribed"}, number : SomeNumber,
                   token : SomeToken, others : SUBSET Numbers]
HealthType  == [pc : {"idle", "read", "phone", "report"}, number : SomeNumber,
                token : SomeToken, contacts : BOOLEAN, history : BOOLEAN, code : Codes]
SyncType    == [pc : SyncPc, number : SomeNumber, token : SomeToken,
                contacts : BOOLEAN, history : BOOLEAN]
AccountType == [pc : {"idle", "report", "replace"}, number : SomeNumber]

\* A connection under way has its number; the rest is the type.
NumberProcesses ==
  /\ connect \in [Admins -> ConnectType]
  /\ \A a \in Admins : connect[a].pc # "idle" => connect[a].number \in Numbers
  /\ disconnect \in DisconnectType
  /\ health \in HealthType
  /\ sync \in [Syncers -> SyncType]
  /\ account \in AccountType

NumberWorld ==
  /\ waNumber \in [Numbers -> Row]
  /\ subscribed \subseteq Numbers /\ onApp \subseteq Numbers /\ accountEvents \subseteq Numbers
  /\ valid \subseteq Tokens
  /\ issued \in 0 .. MaxConnects /\ trouble \in 0 .. MaxTrouble

NumberIInv == NumberProcesses /\ NumberWorld

LEMMA NumberInvType == NumberIInv => NumberTypeOK
BY DEF NumberIInv, NumberProcesses, NumberWorld, NumberTypeOK, ConnectType, DisconnectType, HealthType, SyncType,
   AccountType, SomeNumber, SomeToken, SyncPc

LEMMA Rests ==
  /\ Idle \in ConnectType /\ Idle \in DisconnectType /\ Idle.pc = "idle"
  /\ NoCheck \in HealthType /\ NoSync \in SyncType /\ NoRow \in Row
BY DEF Idle, ConnectType, DisconnectType, HealthType, SyncType, NoCheck, NoSync, NoRow, Row,
   SomeNumber, SomeToken, SyncPc, Status, Codes

LEMMA NumberInitIInv == NumberInit => NumberIInv
<1> SUFFICES ASSUME NumberInit PROVE NumberIInv
  OBVIOUS
<1>1. NumberProcesses
  <2>1. account \in AccountType
    BY DEF NumberInit, AccountType, SomeNumber
  <2> QED
    BY <2>1, Rests DEF NumberInit, NumberProcesses
<1>2. NumberWorld
  <2>1. 0 \in 0 .. MaxConnects /\ 0 \in 0 .. MaxTrouble
    BY WaNumberAssumption
  <2> QED
    BY <2>1, Rests DEF NumberInit, NumberWorld
<1> QED
  BY <1>1, <1>2 DEF NumberIInv

\* The steps of a connection.
LEMMA ConnectStep ==
  ASSUME NumberIInv, NEW a \in Admins,
         \/ \E n \in Numbers : Connect(a, n)
         \/ Subscribe(a) \/ Sweep(a) \/ Save(a) \/ AbortConnect(a)
  PROVE  NumberIInv'
<1>0. Idle \in ConnectType /\ Idle.pc = "idle"
  BY Rests
<1>1. ASSUME NEW n \in Numbers, Connect(a, n)
      PROVE  NumberIInv'
  <2>1. issued' \in Tokens /\ issued' \in 0 .. MaxConnects
    BY <1>1, WaNumberAssumption DEF Connect, Tokens, NumberIInv, NumberWorld
  <2>2. connect' \in [Admins -> ConnectType]
    BY <1>1, <2>1 DEF Connect, NumberIInv, NumberProcesses, ConnectType, SomeNumber, SomeToken
  <2> QED
    BY <1>1, <2>1, <2>2 DEF Connect, NumberIInv, NumberProcesses, NumberWorld
<1>2. CASE Subscribe(a)
  <2>1. connect' \in [Admins -> ConnectType]
    BY <1>0, <1>2 DEF Subscribe, Moves, NumberIInv, NumberProcesses, ConnectType
  <2>2. subscribed' \subseteq subscribed \cup {connect[a].number}
    BY <1>2 DEF Subscribe
  <2>3. connect[a].number \in Numbers
    BY <1>2 DEF Subscribe, NumberIInv, NumberProcesses
  <2>4. \A b \in Admins : connect'[b].pc # "idle" => connect'[b].number \in Numbers
    BY <1>0, <1>2 DEF Subscribe, Moves, NumberIInv, NumberProcesses, ConnectType
  <2> QED
    BY <1>2, <2>1, <2>2, <2>3, <2>4 DEF Subscribe, NumberIInv, NumberProcesses, NumberWorld
<1>3. CASE Sweep(a)
  <2>1. connect' \in [Admins -> ConnectType]
    BY <1>3 DEF Sweep, Kept, NumberIInv, NumberProcesses, ConnectType
  <2> QED
    BY <1>3, <2>1 DEF Sweep, meta, NumberIInv, NumberProcesses, NumberWorld
<1>4. CASE Save(a)
  <2>1. connect[a] \in ConnectType
    BY DEF NumberIInv, NumberProcesses
  <2>2. waNumber' \in [Numbers -> Row]
    <3>1. ASSUME NEW k \in Numbers
          PROVE  waNumber'[k] \in Row
      <4>1. waNumber[k] \in Row
        BY DEF NumberIInv, NumberWorld
      <4>2. [waNumber[k] EXCEPT !.status = "DISCONNECTED", !.token = NoToken] \in Row
        BY <4>1 DEF Row, Status
      <4>3. [status |-> "CONNECTED", token |-> connect[a].token, issue |-> "",
             contacts |-> FALSE, history |-> FALSE] \in Row
        BY <2>1 DEF Row, Status, Codes, ConnectType, SomeToken
      <4> QED
        BY <1>4, <4>1, <4>2, <4>3 DEF Save
    <3> QED
      BY <1>4, <3>1 DEF Save
  <2>3. connect' \in [Admins -> ConnectType] /\ sync' \in [Syncers -> SyncType]
    BY <1>0, <1>4, <2>1
    DEF Save, NumberIInv, NumberProcesses, ConnectType, SyncType, SyncPc, SomeToken, SomeNumber
  <2>4. \A b \in Admins : connect'[b].pc # "idle" => connect'[b].number \in Numbers
    BY <1>0, <1>4 DEF Save, NumberIInv, NumberProcesses
  <2> QED
    BY <1>4, <2>2, <2>3, <2>4 DEF Save, meta, NumberIInv, NumberProcesses, NumberWorld
<1>5. CASE AbortConnect(a)
  BY <1>0, <1>5 DEF AbortConnect, meta, NumberIInv, NumberProcesses, NumberWorld
<1> QED
  BY <1>1, <1>2, <1>3, <1>4, <1>5

\* The steps of a sync: the row keeps what it has but for one stamp.
LEMMA SyncStep ==
  ASSUME NumberIInv, NEW p \in Syncers, RequestSync(p) \/ StampSync(p)
  PROVE  NumberIInv'
<1>1. sync[p] \in SyncType /\ NoSync \in SyncType
  BY Rests DEF NumberIInv, NumberProcesses
<1>2. CASE RequestSync(p)
  <2>1. sync' \in [Syncers -> SyncType]
    BY <1>1, <1>2 DEF RequestSync, NumberIInv, NumberProcesses, SyncType, SyncPc
  <2> QED
    BY <1>2, <2>1 DEF RequestSync, meta, NumberIInv, NumberProcesses, NumberWorld
<1>3. CASE StampSync(p)
  <2>1. sync' \in [Syncers -> SyncType]
    BY <1>1, <1>3 DEF StampSync, NumberIInv, NumberProcesses, SyncType, SyncPc
  <2>2. waNumber' \in [Numbers -> Row]
    <3>1. \A k \in Numbers : /\ waNumber[k] \in Row
                              /\ [waNumber[k] EXCEPT !.contacts = TRUE] \in Row
                              /\ [waNumber[k] EXCEPT !.history = TRUE] \in Row
      BY DEF NumberIInv, NumberWorld, Row
    <3> QED
      BY <1>3, <3>1 DEF StampSync, NumberIInv, NumberWorld
  <2> QED
    BY <1>3, <2>1, <2>2 DEF StampSync, meta, NumberIInv, NumberProcesses, NumberWorld
<1> QED
  BY <1>2, <1>3

\* The steps of a disconnection.
LEMMA DisconnectStep ==
  ASSUME NumberIInv, Disconnect \/ Unsubscribe \/ SaveDisconnected
  PROVE  NumberIInv'
<1>1. disconnect \in DisconnectType /\ Idle \in DisconnectType
  BY Rests DEF NumberIInv, NumberProcesses
<1>2. CASE Disconnect
  <2>1. PICK n \in Numbers :
          disconnect' = [pc |-> "read", number |-> n, token |-> waNumber[n].token, others |-> {}]
    BY <1>2 DEF Disconnect, LatestOf, Kept
  <2>2. waNumber[n].token \in SomeToken
    BY DEF NumberIInv, NumberWorld, Row, SomeToken
  <2>3. disconnect' \in DisconnectType
    BY <2>1, <2>2 DEF DisconnectType, SomeNumber
  <2> QED
    BY <1>2, <2>3 DEF Disconnect, meta, NumberIInv, NumberProcesses, NumberWorld
<1>3. CASE Unsubscribe
  <2>1. disconnect' \in DisconnectType
    BY <1>1, <1>3 DEF Unsubscribe, DisconnectType
  <2>2. subscribed' \subseteq subscribed
    BY <1>3 DEF Unsubscribe
  <2> QED
    BY <1>3, <2>1, <2>2 DEF Unsubscribe, NumberIInv, NumberProcesses, NumberWorld
<1>4. CASE SaveDisconnected
  <2>1. waNumber' \in [Numbers -> Row]
    <3>1. \A k \in Numbers :
            waNumber[k] \in Row /\ [waNumber[k] EXCEPT !.status = "DISCONNECTED", !.token = NoToken,
                                            !.issue = ""] \in Row
      BY DEF NumberIInv, NumberWorld, Row, Status, Codes
    <3>2. \A k \in Numbers :
            waNumber'[k] = IF k = disconnect.number
                      THEN [waNumber[k] EXCEPT !.status = "DISCONNECTED", !.token = NoToken, !.issue = ""]
                      ELSE waNumber[k]
      BY <1>4, <3>1 DEF SaveDisconnected, NumberIInv, NumberWorld, Row
    <3>3. waNumber' = [k \in Numbers |-> waNumber'[k]]
      BY <1>4 DEF SaveDisconnected, NumberIInv, NumberWorld
    <3> QED
      BY <3>1, <3>2, <3>3
  <2> QED
    BY <1>1, <1>4, <2>1 DEF SaveDisconnected, meta, NumberIInv, NumberProcesses, NumberWorld
<1> QED
  BY <1>2, <1>3, <1>4

\* The steps of the check and of the account event.
LEMMA IssuedType ==
  ASSUME NumberIInv, NEW n, NEW code \in Codes
  PROVE  Issued(n, code) \in [Numbers -> Row]
BY DEF Issued, NumberIInv, NumberWorld, Row, Status, Codes

LEMMA CheckStep ==
  ASSUME NumberIInv, Check \/ Unreachable
  PROVE  NumberIInv'
<1>1. health \in HealthType /\ NoCheck \in HealthType
  BY Rests DEF NumberIInv, NumberProcesses
<1>2. \A code \in Codes : [health EXCEPT !.pc = "report", !.code = code] \in HealthType
  BY <1>1 DEF HealthType
<1>3. CASE StartCheck
  <2>1. PICK n \in Numbers :
          health' = [pc |-> "read", number |-> n, token |-> waNumber[n].token,
                     contacts |-> waNumber[n].contacts, history |-> waNumber[n].history, code |-> ""]
    BY <1>3 DEF StartCheck, LatestOf, Connected
  <2>2. waNumber[n] \in Row
    BY DEF NumberIInv, NumberWorld
  <2>3. health' \in HealthType
    BY <2>1, <2>2 DEF HealthType, Row, SomeNumber, SomeToken, Codes
  <2> QED
    BY <1>3, <2>3 DEF StartCheck, meta, NumberIInv, NumberProcesses, NumberWorld
<1>4. CASE AskSubscription
  <2>1. [health EXCEPT !.pc = "phone"] \in HealthType
    BY <1>1 DEF HealthType
  <2>2. health' \in HealthType
    BY <1>2, <1>4, <2>1 DEF AskSubscription, Finds, Codes
  <2> QED
    BY <1>4, <2>2 DEF AskSubscription, meta, NumberIInv, NumberProcesses, NumberWorld
<1>5. CASE AskNumber
  <2>1. health' \in HealthType
    BY <1>1, <1>2, <1>5 DEF AskNumber, Finds, Codes
  <2>2. [pc |-> "contacts", number |-> health.number, token |-> health.token,
         contacts |-> health.contacts, history |-> health.history] \in SyncType
    BY <1>1 DEF HealthType, SyncType, SyncPc
  <2>3. sync' \in [Syncers -> SyncType]
    BY <1>5, <2>2 DEF AskNumber, NumberIInv, NumberProcesses
  <2> QED
    BY <1>5, <2>1, <2>3 DEF AskNumber, meta, NumberIInv, NumberProcesses, NumberWorld
<1>6. CASE Unreachable
  BY <1>1, <1>6 DEF Unreachable, meta, NumberIInv, NumberProcesses, NumberWorld
<1>7. CASE Report
  <2>1. waNumber' \in [Numbers -> Row]
    BY <1>1, <1>7, IssuedType DEF Report, HealthType
  <2> QED
    BY <1>1, <1>7, <2>1 DEF Report, meta, NumberIInv, NumberProcesses, NumberWorld
<1> QED
  BY <1>3, <1>4, <1>5, <1>6, <1>7 DEF Check

LEMMA AccountStep ==
  ASSUME NumberIInv, ReadAccount \/ ReportAccount
  PROVE  NumberIInv'
<1>1. account \in AccountType
  BY DEF NumberIInv, NumberProcesses
<1>2. CASE ReadAccount
  <2>1. account' \in AccountType /\ accountEvents' \subseteq accountEvents
    BY <1>1, <1>2 DEF ReadAccount, AccountType, Kept, SomeNumber
  <2> QED
    BY <1>2, <2>1 DEF ReadAccount, NumberIInv, NumberProcesses, NumberWorld
<1>3. CASE ReportAccount
  <2>1. account' \in AccountType
    BY <1>1, <1>3 DEF ReportAccount, AccountType, SomeNumber
  <2>2. waNumber' \in [Numbers -> Row]
    <3>1. CASE account.pc = "report"
      <4>1. "partner_removed" \in Codes
        BY DEF Codes
      <4> QED
        BY <1>3, <3>1, <4>1, IssuedType DEF ReportAccount
    <3>2. CASE account.pc # "report"
      <4>1. \A k \in Numbers :
              waNumber[k] \in Row /\ [waNumber[k] EXCEPT !.issue = "partner_removed"] \in Row
        BY DEF NumberIInv, NumberWorld, Row, Codes
      <4>2. waNumber' = [waNumber EXCEPT ![account.number].issue =
                     IF waNumber[account.number].status = "ERROR" THEN "partner_removed" ELSE @]
        BY <1>3, <3>2 DEF ReportAccount
      <4>3. \A k \in Numbers : waNumber'[k] \in {waNumber[k], [waNumber[k] EXCEPT !.issue = "partner_removed"]}
        BY <4>1, <4>2 DEF NumberIInv, NumberWorld, Row
      <4>4. waNumber' = [k \in Numbers |-> waNumber'[k]]
        BY <4>2 DEF NumberIInv, NumberWorld
      <4> QED
        BY <4>1, <4>3, <4>4
    <3> QED
      BY <3>1, <3>2
  <2> QED
    BY <1>3, <2>1, <2>2 DEF ReportAccount, meta, NumberIInv, NumberProcesses, NumberWorld
<1> QED
  BY <1>2, <1>3

\* What happens on Meta's side leaves our rows and processes alone.
LEMMA NumberOutsideStep ==
  ASSUME NumberIInv, NEW n \in Numbers, RemovedOnPhone(n) \/ Redirected(n) \/ LeavesPhone(n)
  PROVE  NumberIInv'
<1>1. trouble' \in 0 .. MaxTrouble /\ UNCHANGED <<waNumber, procs, issued>>
  BY WaNumberAssumption DEF RemovedOnPhone, Redirected, LeavesPhone, Troubles, NumberIInv, NumberWorld
<1>2. NumberWorld'
  BY <1>1 DEF RemovedOnPhone, Redirected, LeavesPhone, NumberIInv, NumberWorld
<1> QED
  BY <1>1, <1>2 DEF NumberIInv, NumberProcesses, procs

LEMMA NumberNextIInv == NumberIInv /\ [NumberNext]_numberVars => NumberIInv'
<1>1. NumberIInv /\ UNCHANGED numberVars => NumberIInv'
  BY DEF NumberIInv, NumberProcesses, NumberWorld, numberVars, procs, meta
<1> QED
  BY <1>1, ConnectStep, SyncStep, DisconnectStep, CheckStep, AccountStep, NumberOutsideStep DEF NumberNext

\* Every value keeps its type, for any numbers, administrators and bounds.
THEOREM NumberTypeCorrect == NumberSpec => []NumberTypeOK
BY NumberInitIInv, NumberNextIInv, NumberInvType, PTL DEF NumberSpec

-----------------------------------------------------------------------------
(* Late news *)

\* The one thing that makes an error is a row that is connected, and the one
\* that overwrites a reason of Meta is a row that is no error any more.
Respects(n) ==
  /\ waNumber[n].status = "DISCONNECTED" => waNumber'[n].status # "ERROR"
  /\ waNumber[n].issue = "partner_removed" /\ waNumber[n].status = "ERROR"
       => waNumber'[n].issue = "partner_removed" \/ waNumber'[n].status # "ERROR"

\* News that comes late undoes no decision (wa-number.ts:375-392).
THEOREM LateNewsNeverUndoes == NumberSpec => LateNewsUndoesNothing
<1>1. ASSUME NumberIInv, NumberNext, NEW n \in Numbers
      PROVE  Respects(n)
  <2>1. waNumber[n] \in Row /\ waNumber \in [Numbers -> Row]
    BY <1>1 DEF NumberIInv, NumberWorld
  <2>2. ASSUME UNCHANGED waNumber
        PROVE  Respects(n)
    BY <2>2 DEF Respects
  <2>3. ASSUME NEW a \in Admins, Save(a)
        PROVE  Respects(n)
    BY <2>1, <2>3 DEF Save, Respects, Row
  <2>4. ASSUME NEW p \in Syncers, StampSync(p)
        PROVE  Respects(n)
    BY <2>1, <2>4 DEF StampSync, Respects, Row
  <2>5. ASSUME SaveDisconnected
        PROVE  Respects(n)
    <3>1. CASE n = disconnect.number
      <4>1. waNumber'[n].status = "DISCONNECTED"
        BY <2>1, <2>5, <3>1 DEF SaveDisconnected, Row
      <4> QED
        BY <4>1 DEF Respects
    <3>2. CASE n # disconnect.number
      <4>1. waNumber'[n] = waNumber[n]
        BY <2>1, <2>5, <3>2 DEF SaveDisconnected
      <4> QED
        BY <4>1 DEF Respects
    <3> QED
      BY <3>1, <3>2
  <2>6. ASSUME NEW k, NEW code, waNumber' = Issued(k, code)
        PROVE  Respects(n)
    BY <2>1, <2>6 DEF Issued, Respects, Row
  <2>7. ASSUME ReportAccount, account.pc = "replace"
        PROVE  Respects(n)
    <3>1. waNumber'[n].status = waNumber[n].status /\ waNumber'[n].issue \in {waNumber[n].issue, "partner_removed"}
      BY <2>1, <2>7 DEF ReportAccount, Row
    <3> QED
      BY <3>1 DEF Respects
  <2>8. ASSUME ReportAccount \/ Report
        PROVE  Respects(n)
    BY <2>6, <2>7, <2>8 DEF ReportAccount, Report
  <2>9. ASSUME NEW a \in Admins,
               (\E k \in Numbers : Connect(a, k)) \/ Subscribe(a) \/ Sweep(a) \/ AbortConnect(a)
        PROVE  Respects(n)
    BY <2>2, <2>9 DEF Connect, Subscribe, Sweep, AbortConnect
  <2>10. ASSUME Disconnect \/ Unsubscribe \/ Unreachable \/ ReadAccount
                  \/ \E p \in Syncers : RequestSync(p)
         PROVE  Respects(n)
    BY <2>2, <2>10 DEF Disconnect, Unsubscribe, Unreachable, ReadAccount, RequestSync
  <2>11. ASSUME StartCheck \/ AskSubscription \/ AskNumber
         PROVE  Respects(n)
    BY <2>2, <2>11 DEF StartCheck, AskSubscription, AskNumber
  <2>12. ASSUME NEW k \in Numbers, RemovedOnPhone(k) \/ Redirected(k) \/ LeavesPhone(k)
         PROVE  Respects(n)
    BY <2>2, <2>12 DEF RemovedOnPhone, Redirected, LeavesPhone, Troubles
  <2> QED
    BY <1>1, <2>3, <2>4, <2>5, <2>8, <2>9, <2>10, <2>11, <2>12 DEF NumberNext, Check
<1>2. NumberIInv /\ [NumberNext]_numberVars =>
        [\A n \in Numbers :
           /\ waNumber[n].status = "DISCONNECTED" => waNumber'[n].status # "ERROR"
           /\ waNumber[n].issue = "partner_removed" /\ waNumber[n].status = "ERROR"
                => \/ waNumber'[n].issue = "partner_removed"
                   \/ waNumber'[n].status # "ERROR"]_numberVars
  BY <1>1 DEF Respects
<1>3. NumberSpec => []NumberIInv
  BY NumberInitIInv, NumberNextIInv, PTL DEF NumberSpec
<1> QED
  BY <1>2, <1>3, PTL DEF NumberSpec, LateNewsUndoesNothing

-----------------------------------------------------------------------------
(* One connection *)

\* While the administrator connects, no number is connected, and there is never
\* a second one.
Alone ==
  /\ \A a \in Admins : connect[a].pc # "idle" => Connected = {}
  /\ \A n, k \in Connected : n = k

\* Only the end of a connection makes a number connected.
LEMMA ConnectedGrows ==
  ASSUME NumberIInv, NumberNext, \A a \in Admins : ~Save(a)
  PROVE  Connected' \subseteq Connected
<1>1. waNumber \in [Numbers -> Row]
  BY DEF NumberIInv, NumberWorld
<1>2. ASSUME NEW p \in Syncers, StampSync(p)
      PROVE  \A n \in Numbers : waNumber'[n].status = waNumber[n].status
  BY <1>1, <1>2 DEF StampSync, Row
<1>3. ASSUME SaveDisconnected
      PROVE  \A n \in Numbers : waNumber'[n].status \in {waNumber[n].status, "DISCONNECTED"}
  BY <1>1, <1>3 DEF SaveDisconnected, Row
<1>4. ASSUME NEW k, NEW code, waNumber' = Issued(k, code)
      PROVE  \A n \in Numbers : waNumber'[n].status \in {waNumber[n].status, "ERROR"}
  BY <1>1, <1>4 DEF Issued, Row
<1>5. ASSUME ReportAccount, account.pc = "replace"
      PROVE  \A n \in Numbers : waNumber'[n].status = waNumber[n].status
  BY <1>1, <1>5 DEF ReportAccount, Row
<1>6. ASSUME ReportAccount \/ Report
      PROVE  \A n \in Numbers : waNumber'[n].status \in {waNumber[n].status, "ERROR"}
  BY <1>4, <1>5, <1>6 DEF ReportAccount, Report
<1>7. ASSUME \/ \E a \in Admins : (\E k \in Numbers : Connect(a, k)) \/ Subscribe(a)
                                    \/ Sweep(a) \/ AbortConnect(a)
             \/ Disconnect \/ Unsubscribe \/ Unreachable \/ ReadAccount
             \/ \E p \in Syncers : RequestSync(p)
             \/ StartCheck \/ AskSubscription \/ AskNumber
             \/ \E k \in Numbers : RemovedOnPhone(k) \/ Redirected(k) \/ LeavesPhone(k)
      PROVE  UNCHANGED waNumber
  BY <1>7 DEF Connect, Subscribe, Sweep, AbortConnect, Disconnect, Unsubscribe, Unreachable,
     ReadAccount, RequestSync, StartCheck, AskSubscription, AskNumber, RemovedOnPhone,
     Redirected, LeavesPhone, Troubles
<1>8. \/ UNCHANGED waNumber
      \/ \A n \in Numbers : waNumber'[n].status \in {waNumber[n].status, "ERROR", "DISCONNECTED"}
  BY <1>2, <1>3, <1>6, <1>7 DEF NumberNext, Check
<1> QED
  BY <1>8 DEF Connected

\* "One number only. The rule is enforced here" (wa-number.ts:27-29): so it is
\* while one administrator connects numbers.  Two who connect at once can each
\* find none connected, and leave two.
THEOREM OneConnectedAlone == (\E a : Admins = {a}) /\ NumberSpec => []OneConnected
<1>1. ASSUME Admins # {}, NumberInit
      PROVE  Alone
  BY <1>1 DEF NumberInit, Alone, Connected, NoRow
<1>2. ASSUME NEW a, Admins = {a}, NumberIInv, Alone, [NumberNext]_numberVars
      PROVE  Alone'
  <2>1. CASE UNCHANGED numberVars
    BY <1>2, <2>1 DEF numberVars, procs, Alone, Connected
  <2>2. CASE NumberNext /\ Save(a)
    <3>1. connect[a].pc = "swept" /\ connect' = [connect EXCEPT ![a] = Idle]
      BY <2>2 DEF Save
    <3>2. Connected = {}
      BY <1>2, <3>1 DEF Alone
    <3>3. \A k \in Numbers : k # connect[a].number => waNumber'[k].status # "CONNECTED"
      <4> SUFFICES ASSUME NEW k \in Numbers, k # connect[a].number
                   PROVE  waNumber'[k].status # "CONNECTED"
        OBVIOUS
      <4>1. waNumber[k] \in Row /\ waNumber[k].status # "CONNECTED"
        BY <1>2, <3>2 DEF NumberIInv, NumberWorld, Connected
      <4>2. waNumber'[k] \in {waNumber[k], [waNumber[k] EXCEPT !.status = "DISCONNECTED", !.token = NoToken]}
        BY <2>2 DEF Save
      <4> QED
        BY <4>1, <4>2 DEF Row
    <3>4. connect'[a].pc = "idle"
      BY <1>2, <3>1, Rests DEF NumberIInv, NumberProcesses
    <3> QED
      BY <1>2, <3>3, <3>4 DEF Alone, Connected
  <2>3. CASE NumberNext /\ ~Save(a)
    <3>1. Connected' \subseteq Connected
      BY <1>2, <2>3, ConnectedGrows
    <3>2. CASE connect[a].pc # "idle" \/ Connected = {}
      BY <1>2, <3>1, <3>2 DEF Alone
    <3>3. CASE connect[a].pc = "idle" /\ Connected # {}
      <4>1. UNCHANGED connect
        BY <1>2, <2>3, <3>3
        DEF NumberNext, Check, Connect, Subscribe, Sweep, AbortConnect, RequestSync, StampSync,
            Disconnect, Unsubscribe, SaveDisconnected, StartCheck, AskSubscription, AskNumber,
            Report, Unreachable, ReadAccount, ReportAccount, RemovedOnPhone, Redirected,
            LeavesPhone, Troubles, procs
      <4> QED
        BY <1>2, <3>1, <3>3, <4>1 DEF Alone
    <3> QED
      BY <3>2, <3>3
  <2> QED
    BY <1>2, <2>1, <2>2, <2>3
<1>3. Alone => OneConnected
  <2> SUFFICES ASSUME Alone PROVE Cardinality(Connected) <= 1
    BY DEF OneConnected
  <2>1. CASE Connected = {}
    BY <2>1, FS_EmptySet
  <2>2. CASE Connected # {}
    <3>1. PICK n : Connected = {n}
      BY <2>2 DEF Alone
    <3> QED
      BY <3>1, FS_Singleton
  <2> QED
    BY <2>1, <2>2
<1>4. ASSUME NEW a, Admins = {a}
      PROVE  NumberSpec => []OneConnected
  <2>1. NumberInit => Alone
    BY <1>1, <1>4
  <2>2. NumberIInv /\ Alone /\ [NumberNext]_numberVars => Alone'
    BY <1>2, <1>4
  <2> QED
    BY <2>1, <2>2, <1>3, NumberInitIInv, NumberNextIInv, PTL DEF NumberSpec
<1> QED
  BY <1>4
=============================================================================
