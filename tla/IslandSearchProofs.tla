------------------------- MODULE IslandSearchProofs -------------------------
(***************************************************************************)
(* Proofs about IslandSearch, for ranges of any size, any pattern of       *)
(* mushroom cells and any tolerance: the stack of a flood fill fits its    *)
(* allocation, fills count whole islands, and no compact island of the     *)
(* wanted size is missed.  At the end, proofs about BiomeTest, the tests   *)
(* of a candidate that use the search.                                     *)
(***************************************************************************)
EXTENDS IslandSearch, CountingLemmas, SequenceTheorems

-----------------------------------------------------------------------------
(***************************************************************************)
(* The inductive invariant.                                                *)
(***************************************************************************)
Visited == {c \in Cells : ids[c] = "visited"}

OnStack(c) == \E k \in 1..Len(queue) : queue[k].c = c

\* Mushroom cells that earlier fills have counted.
Old == (Visited \cap biome) \ counted

\* A set of cells that no mushroom cell outside is next to.
Closed(D) == \A a \in D, b \in biome : Adjacent(a, b) => b \in D

\* What is counted, and what is left to count.  Earlier fills took whole
\* islands; what is missing from the islands of this one is on the stack.
Counting ==
  /\ n = Cardinality(counted) /\ counted \subseteq Visited
  /\ pc # "fill" => queue = << >>
  /\ Closed(Old)
  /\ \A a \in counted, b \in biome : Adjacent(a, b) => b \in counted \/ OnStack(b)
  /\ pc = "fill" =>
       IF ids[cell] = "visited" THEN cell \in biome => cell \in counted
                                ELSE OnStack(cell)

\* Entries of the stack and numbers of cells.  An entry put there from above or
\* below takes the lower of the two cells; an entry put there from the right
\* takes what the cell it came from had taken; an entry put there from the
\* left takes Extra and is the first to be looked at.  Two neighbours put
\* each other on the stack only once, so no cell is taken twice.
Origin == <<0, 0>>
Extra == <<1, 0>>

Takes(f) ==
  /\ f \in [1..Len(queue) -> Cells]
  /\ \A j, k \in 1..Len(queue) : j # k => f[j] # f[k]
  /\ \A k \in 1..Len(queue) :
       /\ f[k] = Extra =>
            /\ k = Len(queue)
            /\ Left(queue[k].c) \in Cells => Left(queue[k].c) \in Visited
       /\ f[k] \notin {Origin, Extra} =>
            f[k][2] > 0 /\ (f[k] \in Visited \/ Up(f[k]) \in Visited)

Room == \E f \in [1..Len(queue) -> Cells] : Takes(f)

Marked == Cardinality(Visited)

\* The sets W[0], W[1], ... that Island(c) and Walks(c) are made of.
IsIsland(W, c) ==
  /\ W \in [0..(sx * sz) -> SUBSET Cells] /\ W[0] = {c}
  /\ \A k \in 1..(sx * sz) :
       W[k] = W[k - 1] \cup {b \in biome : \E a \in W[k - 1] : Adjacent(a, b)}

WalkStates == Cells \X (0..tol)

IsWalks(W, c) ==
  /\ W \in [0..(sx * sz) -> SUBSET WalkStates] /\ W[0] = {<<c, Distance(c, 0)>>}
  /\ \A k \in 1..(sx * sz) :
       W[k] = W[k - 1] \cup
         {<<e[1], Distance(e[1], e[2])>> : e \in
            {e \in Cells \X (0..(tol - 1)) :
               \E a \in Cells : <<a, e[2]>> \in W[k - 1] /\ Adjacent(a, e[1])}}

\* A fill goes no further than walks with as many steps as cells are marked.
WalksOnly ==
  pc = "fill" =>
    \A W : IsWalks(W, cell) =>
      /\ \A k \in 1..Len(queue) :
           <<queue[k].c, Distance(queue[k].c, queue[k].d)>> \in W[Marked]
      /\ \A c \in counted : \E d \in 0..tol : <<c, d>> \in W[Marked]

\* Without tolerance it does not leave the island of its first cell.
IslandOnly ==
  pc = "fill" /\ tol = 1 =>
    IF cell \in biome
      THEN \A W : IsIsland(W, cell) =>
             /\ \A k \in 1..Len(queue) : queue[k].c \in biome => queue[k].c \in W[Marked]
             /\ counted \subseteq W[Marked]
      ELSE counted = {} /\ \A k \in 1..Len(queue) : queue[k].c = cell

\* The order of the scan.
Before(c, d) == c[2] < d[2] \/ (c[2] = d[2] /\ c[1] < d[1])

Scanned ==
  /\ OnGrid(cell)
  /\ pc = "filter" => cell = <<0, 0>> /\ \A c \in Cells : ids[c] = "unknown"
  /\ \A c \in Cells : ids[c] = "rejected" => c \notin in_limits
  /\ \A c \in Cells : OnGrid(c) /\ Before(c, cell) => ids[c] # "unknown"
  /\ pc = "end" /\ siz = 0 => \A c \in Cells : OnGrid(c) => ids[c] # "unknown"

\* No island counted so far is large enough.
SmallSoFar ==
  /\ siz # 0 => pc = "end"
  /\ siz = 0 =>
       \A c \in Visited \cap biome :
         (pc = "fill" => c \notin counted) => Cardinality(Island(c)) < minsiz

IInv ==
  TypeOK /\ Counting /\ Room /\ WalksOnly /\ IslandOnly /\ Scanned /\ SmallSoFar

-----------------------------------------------------------------------------
(***************************************************************************)
(* Cells and their neighbours.                                             *)
(***************************************************************************)
\* A cell is a pair of numbers.
LEMMA CellIs ==
  ASSUME RangeAssumption
  PROVE  /\ \A c \in Cells : /\ c = <<c[1], c[2]>>
                             /\ c[1] \in 0..(sx - 1) /\ c[2] \in 0..(sz - 1)
         /\ \A i, j : <<i, j>> \in Cells <=> i \in 0..(sx - 1) /\ j \in 0..(sz - 1)
BY DEF Cells

\* There are as many cells as malloc has entries.
LEMMA CellCount ==
  ASSUME RangeAssumption
  PROVE  IsFiniteSet(Cells) /\ Cardinality(Cells) = sx * sz /\ sx * sz \in Nat
<1>1. sx \in Nat /\ sz \in Nat /\ sx > 0 /\ sz > 0 BY DEF RangeAssumption
<1>2. IsFiniteSet(0..(sx - 1)) /\ Cardinality(0..(sx - 1)) = sx BY <1>1, FS_Interval
<1>3. IsFiniteSet(0..(sz - 1)) /\ Cardinality(0..(sz - 1)) = sz BY <1>1, FS_Interval
<1>4. sx * sz \in Nat BY <1>1
<1> DEFINE X == 0..(sx - 1)
           Z == 0..(sz - 1)
<1>5. Cells = X \X Z BY DEF Cells
<1> HIDE DEF X, Z
<1>6. IsFiniteSet(X \X Z) /\ Cardinality(X \X Z) = Cardinality(X) * Cardinality(Z)
  BY <1>2, <1>3, FS_Product DEF X, Z
<1>7. Cardinality(X) = sx /\ Cardinality(Z) = sz BY <1>2, <1>3 DEF X, Z
<1> QED BY <1>4, <1>5, <1>6, <1>7

\* The four neighbours of a cell are different, and are the adjacent cells.
LEMMA FourNeighbours ==
  ASSUME RangeAssumption, NEW c \in Cells
  PROVE  /\ Up(c) # Down(c) /\ Up(c) # Left(c) /\ Up(c) # Right(c)
         /\ Down(c) # Left(c) /\ Down(c) # Right(c) /\ Left(c) # Right(c)
         /\ c \notin {Up(c), Down(c), Left(c), Right(c)}
         /\ \A b \in Cells : /\ Adjacent(c, b) <=> b \in {Up(c), Down(c), Left(c), Right(c)}
                             /\ Adjacent(c, b) <=> Adjacent(b, c)
<1>1. PICK i, j : c = <<i, j>> /\ i \in Int /\ j \in Int
  BY CellIs DEF RangeAssumption
<1>2. c[1] = i /\ c[2] = j BY <1>1
<1>3. /\ Up(c) = <<i, j - 1>> /\ Down(c) = <<i, j + 1>>
      /\ Left(c) = <<i - 1, j>> /\ Right(c) = <<i + 1, j>>
  BY <1>2 DEF Up, Down, Left, Right
<1>4. ASSUME NEW b \in Cells
      PROVE  /\ Adjacent(c, b) <=> b \in {Up(c), Down(c), Left(c), Right(c)}
             /\ Adjacent(c, b) <=> Adjacent(b, c)
  <2>1. PICK k, l : b = <<k, l>> /\ k \in Int /\ l \in Int
    BY CellIs DEF RangeAssumption
  <2>2. b[1] = k /\ b[2] = l BY <2>1
  <2>3. Adjacent(c, b) <=> (i = k /\ j - l \in {-1, 1}) \/ (j = l /\ i - k \in {-1, 1})
    BY <1>2, <2>2 DEF Adjacent
  <2>4. Adjacent(b, c) <=> (k = i /\ l - j \in {-1, 1}) \/ (l = j /\ k - i \in {-1, 1})
    BY <1>2, <2>2 DEF Adjacent
  <2>5. b \in {Up(c), Down(c), Left(c), Right(c)} <=>
          \/ k = i /\ l = j - 1
          \/ k = i /\ l = j + 1
          \/ k = i - 1 /\ l = j
          \/ k = i + 1 /\ l = j
    <3>1. \A p, q : b = <<p, q>> <=> k = p /\ l = q BY <2>1
    <3>2. /\ b = Up(c) <=> k = i /\ l = j - 1
          /\ b = Down(c) <=> k = i /\ l = j + 1
          /\ b = Left(c) <=> k = i - 1 /\ l = j
          /\ b = Right(c) <=> k = i + 1 /\ l = j
      BY <1>3, <3>1
    <3> QED BY <3>2
  <2>6. /\ j - l \in {-1, 1} <=> l = j + 1 \/ l = j - 1
        /\ l - j \in {-1, 1} <=> l = j + 1 \/ l = j - 1
        /\ i - k \in {-1, 1} <=> k = i + 1 \/ k = i - 1
        /\ k - i \in {-1, 1} <=> k = i + 1 \/ k = i - 1
    <3>1. i \in Int /\ j \in Int /\ k \in Int /\ l \in Int BY <1>1, <2>1
    <3> QED BY <3>1
  <2> QED BY <2>3, <2>4, <2>5, <2>6
<1>5. c = <<i, j>> /\ i \in Int /\ j \in Int BY <1>1
<1> QED BY <1>3, <1>4, <1>5

\* A sequence without repetitions over a set, ...
Distinct(s, S) ==
  /\ s \in Seq(S)
  /\ \A j, k \in 1..Len(s) : j # k => s[j] # s[k]

Elements(s) == {s[k] : k \in 1..Len(s)}

\* ... and one with something new behind it, or nothing.
LEMMA Joined ==
  ASSUME NEW S, NEW s, Distinct(s, S), NEW t, NEW b,
         \/ t = <<b>> /\ b \in S /\ b \notin Elements(s)
         \/ t = << >>
  PROVE  /\ Distinct(s \o t, S)
         /\ t = <<b>> => /\ Elements(s \o t) = Elements(s) \cup {b}
                         /\ Len(s \o t) = Len(s) + 1 /\ (s \o t)[Len(s) + 1] = b
         /\ t = << >> => s \o t = s
<1>1. s \in Seq(S) /\ Len(s) \in Nat BY DEF Distinct
<1>2. CASE t = << >>
  <2>1. s \o t = s BY <1>1, <1>2
  <2>2. << >> # <<b>> OBVIOUS
  <2> QED BY <2>1, <2>2, <1>2
<1>3. CASE t = <<b>> /\ b \in S /\ b \notin Elements(s)
  <2>1. /\ s \o t \in Seq(S) /\ Len(s \o t) = Len(s) + 1
        /\ \A k \in 1..Len(s) : (s \o t)[k] = s[k]
        /\ (s \o t)[Len(s) + 1] = b
    BY <1>1, <1>3
  <2> DEFINE u == s \o t
  <2> HIDE DEF u
  <2>2. /\ u \in Seq(S) /\ Len(u) = Len(s) + 1
        /\ \A k \in 1..Len(s) : u[k] = s[k]
        /\ u[Len(s) + 1] = b
    BY <2>1 DEF u
  <2>3. 1..Len(u) = (1..Len(s)) \cup {Len(s) + 1} BY <1>1, <2>2
  <2>4. \A k \in 1..Len(s) : s[k] # b BY <1>3 DEF Elements
  <2>5. Distinct(u, S)
    <3>1. ASSUME NEW j \in 1..Len(u), NEW k \in 1..Len(u), j # k PROVE u[j] # u[k]
      BY <3>1, <2>2, <2>3, <2>4 DEF Distinct
    <3> QED BY <3>1, <2>2 DEF Distinct
  <2>6. Elements(u) = Elements(s) \cup {b} BY <2>2, <2>3 DEF Elements
  <2>7. <<b>> # << >> OBVIOUS
  <2> QED BY <2>2, <2>5, <2>6, <2>7, <1>3 DEF u
<1> QED BY <1>2, <1>3

\* What a visit puts on the stack: the neighbours not marked, each once, the
\* one to the right last.
LEMMA Pushes ==
  ASSUME RangeAssumption, NEW c \in Cells
  PROVE  /\ Distinct(Neighbours(c), Cells)
         /\ Elements(Neighbours(c)) = {b \in Cells : Adjacent(c, b) /\ b \notin Visited}
         /\ \A k \in 1..Len(Neighbours(c)) :
              Neighbours(c)[k] = Right(c) => k = Len(Neighbours(c))
<1> DEFINE Ok(b) == b \in Cells /\ b \notin Visited
           s1 == Open(Up(c))
           s2 == s1 \o Open(Down(c))
           s3 == s2 \o Open(Left(c))
           s4 == s3 \o Open(Right(c))
<1>1. \A b : /\ Ok(b) => Open(b) = <<b>>
             /\ ~Ok(b) => Open(b) = << >>
  BY DEF Open, InRange, Unvisited, Visited
<1> HIDE DEF Ok
<1>2. \A b : Ok(b) => b \in Cells BY DEF Ok
<1>3. /\ Up(c) # Down(c) /\ Up(c) # Left(c) /\ Up(c) # Right(c)
      /\ Down(c) # Left(c) /\ Down(c) # Right(c) /\ Left(c) # Right(c)
  BY FourNeighbours
<1>a. Distinct(<< >>, Cells) /\ Elements(<< >>) = {} BY DEF Distinct, Elements
<1>b. ASSUME NEW b \in {Up(c), Down(c), Left(c), Right(c)}
      PROVE  \/ Ok(b) /\ Open(b) = <<b>> /\ b \in Cells
             \/ ~Ok(b) /\ Open(b) = << >>
  BY <1>1, <1>2
<1>c. \A b : <<b>> # << >> OBVIOUS
<1>4. /\ Distinct(s1, Cells) /\ Elements(s1) = {b \in {Up(c)} : Ok(b)}
  <2>1. << >> \o s1 = s1
    <3>1. s1 = << >> \/ s1 = <<Up(c)>> BY <1>b
    <3> QED BY <3>1
  <2>2. CASE ~Ok(Up(c)) BY <2>2, <1>b, <1>a
  <2>3. CASE Ok(Up(c))
    <3>1. s1 = <<Up(c)>> /\ Up(c) \in Cells BY <2>3, <1>b
    <3> HIDE DEF s1
    <3>2. PICK s0 : s0 = << >> OBVIOUS
    <3>3. Distinct(s0, Cells) /\ Elements(s0) = {} /\ s0 \o s1 = s1 BY <3>2, <2>1, <1>a
    <3>4. Distinct(s0 \o s1, Cells) /\ Elements(s0 \o s1) = Elements(s0) \cup {Up(c)}
      BY <3>1, <3>3, Joined
    <3> QED BY <3>3, <3>4, <2>3
  <2> QED BY <2>2, <2>3
<1>5. /\ Distinct(s2, Cells) /\ Elements(s2) = {b \in {Up(c), Down(c)} : Ok(b)}
  <2> HIDE DEF s1
  <2>1. Down(c) \notin Elements(s1) BY <1>3, <1>4
  <2>2. CASE ~Ok(Down(c)) BY <2>2, <1>b, <1>4, Joined
  <2>3. CASE Ok(Down(c))
    <3>1. Open(Down(c)) = <<Down(c)>> /\ Down(c) \in Cells BY <2>3, <1>b
    <3>2. Distinct(s2, Cells) /\ Elements(s2) = Elements(s1) \cup {Down(c)}
      BY <3>1, <2>1, <1>4, Joined
    <3> QED BY <3>2, <2>3, <1>4
  <2> QED BY <2>2, <2>3
<1>6. /\ Distinct(s3, Cells) /\ Elements(s3) = {b \in {Up(c), Down(c), Left(c)} : Ok(b)}
  <2> HIDE DEF s2
  <2>1. Left(c) \notin Elements(s2) BY <1>3, <1>5
  <2>2. CASE ~Ok(Left(c)) BY <2>2, <1>b, <1>5, Joined
  <2>3. CASE Ok(Left(c))
    <3>1. Open(Left(c)) = <<Left(c)>> /\ Left(c) \in Cells BY <2>3, <1>b
    <3>2. Distinct(s3, Cells) /\ Elements(s3) = Elements(s2) \cup {Left(c)}
      BY <3>1, <2>1, <1>5, Joined
    <3> QED BY <3>2, <2>3, <1>5
  <2> QED BY <2>2, <2>3
<1>7. /\ Distinct(s4, Cells)
      /\ Elements(s4) = {b \in {Up(c), Down(c), Left(c), Right(c)} : Ok(b)}
      /\ \A k \in 1..Len(s4) : s4[k] = Right(c) => k = Len(s4)
  <2> HIDE DEF s3
  <2>1. Right(c) \notin Elements(s3) BY <1>3, <1>6
  <2>2. CASE ~Ok(Right(c))
    <3>1. s4 = s3 BY <2>2, <1>b, <1>6, Joined
    <3> HIDE DEF s4
    <3>2. \A k \in 1..Len(s4) : s4[k] # Right(c) BY <3>1, <2>1 DEF Elements
    <3> QED BY <3>1, <3>2, <2>2, <1>6
  <2>3. CASE Ok(Right(c))
    <3>1. Open(Right(c)) = <<Right(c)>> /\ Right(c) \in Cells BY <2>3, <1>b
    <3>2. /\ Distinct(s4, Cells) /\ Elements(s4) = Elements(s3) \cup {Right(c)}
          /\ Len(s4) = Len(s3) + 1 /\ s4[Len(s3) + 1] = Right(c)
      BY <3>1, <2>1, <1>6, Joined
    <3> HIDE DEF s4
    <3>3. Len(s4) \in 1..Len(s4)
      <4>1. Len(s3) \in Nat BY <1>6 DEF Distinct
      <4> QED BY <4>1, <3>2
    <3>4. \A k \in 1..Len(s4) : s4[k] = Right(c) => k = Len(s4)
      BY <3>2, <3>3 DEF Distinct
    <3> QED BY <3>2, <3>4, <2>3, <1>6
  <2> QED BY <2>2, <2>3
<1>8. Neighbours(c) = s4 BY DEF Neighbours
<1>9. {b \in {Up(c), Down(c), Left(c), Right(c)} : Ok(b)}
        = {b \in Cells : Adjacent(c, b) /\ b \notin Visited}
  BY FourNeighbours DEF Ok
<1> HIDE DEF s4
<1> QED BY <1>7, <1>8, <1>9

-----------------------------------------------------------------------------
(***************************************************************************)
(* Islands and walks.                                                      *)
(***************************************************************************)
\* Sets each of which is in the next.
LEMMA Chain ==
  ASSUME NEW N \in Nat, NEW W, \A k \in 1..N : W[k - 1] \subseteq W[k]
  PROVE  \A k \in 0..N : W[0] \subseteq W[k] /\ W[k] \subseteq W[N]
<1> DEFINE Below == {k \in 0..N : W[N - k] \subseteq W[N]}
           Above == {k \in 0..N : W[0] \subseteq W[k]}
<1>1. 0 \in Below OBVIOUS
<1>2. ASSUME NEW k \in 0..N, k + 1 \in 0..N, k \in Below PROVE k + 1 \in Below
  <2>1. N - k \in 1..N /\ (N - k) - 1 = N - (k + 1) BY <1>2
  <2> QED BY <2>1, <1>2
<1>3. 0..N \subseteq Below
  <2> HIDE DEF Below
  <2> QED BY <1>1, <1>2, UpTo
<1>4. 0 \in Above OBVIOUS
<1>5. ASSUME NEW k \in 0..N, k + 1 \in 0..N, k \in Above PROVE k + 1 \in Above
  <2>1. k + 1 \in 1..N /\ (k + 1) - 1 = k BY <1>5
  <2> QED BY <2>1, <1>5
<1>6. 0..N \subseteq Above
  <2> HIDE DEF Above
  <2> QED BY <1>4, <1>5, UpTo
<1>7. ASSUME NEW k \in 0..N PROVE W[k] \subseteq W[N]
  <2>1. N - k \in 0..N /\ N - (N - k) = k OBVIOUS
  <2> QED BY <2>1, <1>3
<1> QED BY <1>6, <1>7

\* Island is made of such sets.
LEMMA IslandIs ==
  ASSUME RangeAssumption, biome \subseteq Cells, NEW c \in Cells
  PROVE  \E W : IsIsland(W, c) /\ Island(c) = W[sx * sz]
<1> DEFINE N == sx * sz
           Grow(w) == w \cup {b \in biome : \E a \in w : Adjacent(a, b)}
           Steps(W) == [k \in 0..N |-> IF k = 0 THEN {c} ELSE Grow(W[k - 1])]
<1>1. Island(c) = (CHOOSE W : W = Steps(W))[N] BY DEF Island
<1>2. N \in Nat BY CellCount
<1>3. \E W : W = Steps(W)
  <2> DEFINE F == [w \in SUBSET Cells |-> Grow(w)]
  <2>1. F \in [SUBSET Cells -> SUBSET Cells] OBVIOUS
  <2>2. {c} \in SUBSET Cells OBVIOUS
  <2>3. PICK g \in [0..N -> SUBSET Cells] :
          g[0] = {c} /\ \A m \in 1..N : g[m] = F[g[m - 1]]
    <3>1. PICK S : S = SUBSET Cells OBVIOUS
    <3> HIDE DEF F, N
    <3>2. {c} \in S /\ F \in [S -> S] BY <3>1, <2>1, <2>2
    <3>3. \E g : IsIteration(g, S, {c}, F, N) BY <1>2, <3>2, Iterates
    <3> QED BY <3>1, <3>3 DEF IsIteration
  <2>4. ASSUME NEW k \in 0..N PROVE g[k] = IF k = 0 THEN {c} ELSE Grow(g[k - 1])
    <3>1. CASE k = 0 BY <3>1, <2>3
    <3>2. CASE k # 0
      <4>1. k \in 1..N /\ k - 1 \in 0..N BY <3>2, <1>2
      <4>2. g[k - 1] \in SUBSET Cells BY <4>1
      <4>3. g[k] = F[g[k - 1]] BY <4>1, <2>3
      <4> QED BY <4>2, <4>3, <3>2
    <3> QED BY <3>1, <3>2
  <2> HIDE DEF Grow
  <2>5. g = Steps(g) BY <2>4
  <2> QED BY <2>5
<1>4. PICK W : W = Steps(W) /\ Island(c) = W[N]
  <2> HIDE DEF Steps
  <2> QED BY <1>1, <1>3
<1>5. \A k \in 0..N : W[k] = IF k = 0 THEN {c} ELSE Grow(W[k - 1])
  <2> HIDE DEF Grow
  <2> QED BY <1>4
<1>6. W[0] = {c} /\ \A k \in 1..N : W[k] = Grow(W[k - 1])
  <2> HIDE DEF Grow
  <2>1. 0 \in 0..N BY <1>2
  <2>2. \A k \in 1..N : k \in 0..N /\ k # 0 BY <1>2
  <2> QED BY <1>5, <2>1, <2>2
<1>7. W \in [0..N -> SUBSET Cells]
  <2> DEFINE Good == {k \in 0..N : W[k] \in SUBSET Cells}
  <2>1. 0 \in Good BY <1>2, <1>6
  <2>2. ASSUME NEW k \in 0..N, k + 1 \in 0..N, k \in Good PROVE k + 1 \in Good
    <3>1. k + 1 \in 1..N /\ (k + 1) - 1 = k BY <2>2, <1>2
    <3>2. W[k + 1] = Grow(W[k]) BY <3>1, <1>6
    <3> QED BY <3>2, <2>2
  <2>3. 0..N \subseteq Good
    <3> HIDE DEF Good
    <3> QED BY <1>2, <2>1, <2>2, UpTo
  <2>4. W = [k \in 0..N |-> W[k]]
    <3> HIDE DEF Grow
    <3> QED BY <1>4
  <2> QED BY <2>3, <2>4
<1>8. IsIsland(W, c) BY <1>6, <1>7 DEF IsIsland
<1> QED BY <1>4, <1>8

\* The sets grow.
LEMMA IslandGrows ==
  ASSUME RangeAssumption, NEW c, NEW W, IsIsland(W, c)
  PROVE  \A k \in 0..(sx * sz) : c \in W[k] /\ W[k] \subseteq W[sx * sz]
<1>1. sx * sz \in Nat BY CellCount
<1>2. \A k \in 1..(sx * sz) : W[k - 1] \subseteq W[k] BY DEF IsIsland
<1>3. \A k \in 0..(sx * sz) : W[0] \subseteq W[k] /\ W[k] \subseteq W[sx * sz]
  BY <1>1, <1>2, Chain
<1> QED BY <1>3 DEF IsIsland

\* An island stays in every closed set around its first cell.
LEMMA IslandWithin ==
  ASSUME RangeAssumption, biome \subseteq Cells, NEW c \in Cells, NEW D, c \in D, Closed(D)
  PROVE  Island(c) \subseteq D /\ Island(c) \subseteq Cells /\ c \in Island(c)
<1> DEFINE N == sx * sz
<1>1. N \in Nat BY CellCount
<1>2. PICK W : IsIsland(W, c) /\ Island(c) = W[N] BY IslandIs
<1> DEFINE Good == {k \in 0..N : W[k] \subseteq D}
<1>3. 0 \in Good BY <1>1, <1>2 DEF IsIsland
<1>4. ASSUME NEW k \in 0..N, k + 1 \in 0..N, k \in Good PROVE k + 1 \in Good
  <2>1. k + 1 \in 1..N /\ (k + 1) - 1 = k BY <1>1, <1>4
  <2>2. W[k + 1] = W[k] \cup {b \in biome : \E a \in W[k] : Adjacent(a, b)}
    BY <2>1, <1>2 DEF IsIsland
  <2>3. W[k] \subseteq D BY <1>4
  <2> QED BY <2>2, <2>3, <1>4 DEF Closed
<1>5. 0..N \subseteq Good
  <2> HIDE DEF Good
  <2> QED BY <1>1, <1>3, <1>4, UpTo
<1>6. N \in 0..N /\ 0 \in 0..N BY <1>1
<1>7. c \in W[N] BY <1>2, <1>6, IslandGrows
<1>8. W[N] \subseteq Cells BY <1>2, <1>6 DEF IsIsland
<1> QED BY <1>2, <1>5, <1>6, <1>7, <1>8

\* Walks is made of such sets.
LEMMA WalksIs ==
  ASSUME RangeAssumption, tol \in Nat \ {0}, NEW c \in Cells
  PROVE  \E W : IsWalks(W, c) /\ Walks(c) = W[sx * sz]
<1> DEFINE N == sx * sz
           Next1(w) == {e \in Cells \X (0..(tol - 1)) :
                          \E a \in Cells : <<a, e[2]>> \in w /\ Adjacent(a, e[1])}
           Grow(w) == w \cup {<<e[1], Distance(e[1], e[2])>> : e \in Next1(w)}
           First == {<<c, Distance(c, 0)>>}
           Steps(W) == [k \in 0..N |-> IF k = 0 THEN First ELSE Grow(W[k - 1])]
<1>1. Walks(c) = (CHOOSE W : W = Steps(W))[N] BY DEF Walks, Distance
<1>2. N \in Nat BY CellCount
<1>a. \A b, d : d \in 0..(tol - 1) => Distance(b, d) \in 0..tol BY DEF Distance
<1>b. ASSUME NEW w \in SUBSET WalkStates PROVE Grow(w) \in SUBSET WalkStates
  <2>1. ASSUME NEW e \in Next1(w) PROVE <<e[1], Distance(e[1], e[2])>> \in WalkStates
    <3>1. e[1] \in Cells /\ e[2] \in 0..(tol - 1) OBVIOUS
    <3> QED BY <3>1, <1>a DEF WalkStates
  <2> HIDE DEF Next1
  <2> QED BY <2>1
<1>c. First \in SUBSET WalkStates
  <2>1. Distance(c, 0) \in 0..tol BY <1>a
  <2> QED BY <2>1 DEF WalkStates
<1> HIDE DEF Next1, First
<1>3. \E W : W = Steps(W)
  <2> HIDE DEF Grow
  <2> DEFINE F == [w \in SUBSET WalkStates |-> Grow(w)]
  <2>1. F \in [SUBSET WalkStates -> SUBSET WalkStates] BY <1>b
  <2>2. PICK g \in [0..N -> SUBSET WalkStates] :
          g[0] = First /\ \A m \in 1..N : g[m] = F[g[m - 1]]
    <3>1. PICK S : S = SUBSET WalkStates OBVIOUS
    <3> HIDE DEF F, N
    <3>2. First \in S /\ F \in [S -> S] BY <3>1, <2>1, <1>c
    <3>3. \E g : IsIteration(g, S, First, F, N) BY <1>2, <3>2, Iterates
    <3> QED BY <3>1, <3>3 DEF IsIteration
  <2>4. ASSUME NEW k \in 0..N PROVE g[k] = IF k = 0 THEN First ELSE Grow(g[k - 1])
    <3>1. CASE k = 0 BY <3>1, <2>2
    <3>2. CASE k # 0
      <4>1. k \in 1..N /\ k - 1 \in 0..N BY <3>2, <1>2
      <4>2. g[k - 1] \in SUBSET WalkStates BY <4>1
      <4>3. g[k] = F[g[k - 1]] BY <4>1, <2>2
      <4> QED BY <4>2, <4>3, <3>2
    <3> QED BY <3>1, <3>2
  <2>5. g = Steps(g) BY <2>4
  <2> QED BY <2>5
<1> HIDE DEF Grow
<1>4. PICK W : W = Steps(W) /\ Walks(c) = W[N]
  <2> HIDE DEF Steps
  <2> QED BY <1>1, <1>3
<1>5. \A k \in 0..N : W[k] = IF k = 0 THEN First ELSE Grow(W[k - 1]) BY <1>4
<1>6. W[0] = First /\ \A k \in 1..N : W[k] = Grow(W[k - 1])
  <2>1. 0 \in 0..N BY <1>2
  <2>2. \A k \in 1..N : k \in 0..N /\ k # 0 BY <1>2
  <2> QED BY <1>5, <2>1, <2>2
<1>7. W \in [0..N -> SUBSET WalkStates]
  <2> DEFINE Good == {k \in 0..N : W[k] \in SUBSET WalkStates}
  <2>1. 0 \in Good BY <1>2, <1>6, <1>c
  <2>2. ASSUME NEW k \in 0..N, k + 1 \in 0..N, k \in Good PROVE k + 1 \in Good
    <3>1. k + 1 \in 1..N /\ (k + 1) - 1 = k BY <2>2, <1>2
    <3>2. W[k + 1] = Grow(W[k]) BY <3>1, <1>6
    <3> QED BY <3>2, <2>2, <1>b
  <2>3. 0..N \subseteq Good
    <3> HIDE DEF Good
    <3> QED BY <1>2, <2>1, <2>2, UpTo
  <2>4. W = [k \in 0..N |-> W[k]] BY <1>4
  <2> QED BY <2>3, <2>4
<1>8. IsWalks(W, c) BY <1>6, <1>7 DEF IsWalks, First, Grow, Next1
<1> QED BY <1>4, <1>8

\* The sets grow.
LEMMA WalksGrow ==
  ASSUME RangeAssumption, NEW c, NEW W, IsWalks(W, c)
  PROVE  \A k \in 0..(sx * sz) :
           <<c, Distance(c, 0)>> \in W[k] /\ W[k] \subseteq W[sx * sz]
<1>1. sx * sz \in Nat BY CellCount
<1>2. \A k \in 1..(sx * sz) : W[k - 1] \subseteq W[k] BY DEF IsWalks
<1>3. \A k \in 0..(sx * sz) : W[0] \subseteq W[k] /\ W[k] \subseteq W[sx * sz]
  BY <1>1, <1>2, Chain
<1> QED BY <1>3 DEF IsWalks

-----------------------------------------------------------------------------
(***************************************************************************)
(* One round of a fill.                                                    *)
(***************************************************************************)
Top == queue[Len(queue)]
Run == Distance(Top.c, Top.d)
Entries == [c : Cells, d : 0..tol]

\* The round takes the last entry and puts the cells s on the stack.
Puts(s) ==
  /\ pc = "fill" /\ Len(queue) \in Nat \ {0}
  /\ Top.c \in Cells /\ Top.d \in 0..tol /\ Run \in Nat
  /\ UNCHANGED <<biome, in_limits, tol, minsiz, pc, cell, siz>>
  /\ queue' \in Seq(Entries) /\ Len(queue') = Len(queue) - 1 + Len(s)
  /\ \A k \in 1..(Len(queue) - 1) : queue'[k] = queue[k]
  /\ \A j \in 1..Len(s) : queue'[Len(queue) - 1 + j] = [c |-> s[j], d |-> Run]
  /\ Distinct(s, Cells)
  /\ IF Top.c \in Visited
       THEN s = << >> /\ UNCHANGED <<ids, n, counted>>
       ELSE /\ ids' = [ids EXCEPT ![Top.c] = "visited"]
            /\ IF Top.c \in biome
                 THEN n' = n + 1 /\ counted' = counted \cup {Top.c}
                 ELSE UNCHANGED <<n, counted>>
            /\ IF Run < tol THEN s = Neighbours(Top.c) ELSE s = << >>

\* What Fill does, as a list of cells.
LEMMA FillPuts ==
  ASSUME RangeAssumption, TypeOK, Fill
  PROVE  \E s : Puts(s)
<1> DEFINE L == Len(queue)
           rest == SubSeq(queue, 1, L - 1)
           nb == Neighbours(Top.c)
           new == [k \in DOMAIN nb |-> [c |-> nb[k], d |-> Run]]
<1>1. queue \in Seq(Entries) /\ pc = "fill" /\ queue # << >> /\ tol \in Nat \ {0}
  BY DEF TypeOK, Fill, Entries, RangeAssumption
<1>2. L \in Nat \ {0} /\ Top \in Entries BY <1>1 DEF Top
<1>3. Top.c \in Cells /\ Top.d \in 0..tol /\ Run \in Nat
  <2>1. Top.c \in Cells /\ Top.d \in 0..tol BY <1>2 DEF Entries
  <2> QED BY <2>1, <1>1 DEF Run, Distance
<1>4. rest \in Seq(Entries) /\ Len(rest) = L - 1 /\ \A k \in 1..(L - 1) : rest[k] = queue[k]
  <2>1. PICK q : q = queue OBVIOUS
  <2>2. PICK S : S = Entries OBVIOUS
  <2>3. q \in Seq(S) /\ Len(q) \in Nat \ {0} BY <2>1, <2>2, <1>1, <1>2
  <2>4. Len(q) - 1 \in 0..Len(q) /\ Len(q) - 1 \in Nat BY <2>3
  <2>5. /\ SubSeq(q, 1, Len(q) - 1) \in Seq(S)
        /\ Len(SubSeq(q, 1, Len(q) - 1)) = Len(q) - 1
        /\ \A k \in 1..(Len(q) - 1) : SubSeq(q, 1, Len(q) - 1)[k] = q[k]
    <3>1. PICK m \in Int : m = Len(q) - 1 BY <2>4
    <3>2. \A k \in 1..m : q[k] \in S BY <2>3, <3>1
    <3>3. /\ SubSeq(q, 1, m) \in Seq(S) /\ Len(SubSeq(q, 1, m)) = IF 1 <= m THEN m - 1 + 1 ELSE 0
          /\ \A k \in 1..(m - 1 + 1) : SubSeq(q, 1, m)[k] = q[1 + k - 1]
      BY <3>2, SubSeqProperties
    <3>4. m - 1 + 1 = m /\ (1 > m => m = 0) /\ \A k \in 1..m : 1 + k - 1 = k BY <3>1, <2>4
    <3>5. Len(SubSeq(q, 1, m)) = m BY <3>3, <3>4
    <3>6. \A k \in 1..m : SubSeq(q, 1, m)[k] = q[k] BY <3>3, <3>4
    <3> QED BY <3>1, <3>3, <3>5, <3>6
  <2> QED BY <2>1, <2>2, <2>5
<1>5. UNCHANGED <<biome, in_limits, tol, minsiz, pc, cell, siz>> BY DEF Fill, inputs
<1>6. Distinct(nb, Cells) BY <1>3, Pushes
<1>7. Distinct(<< >>, Cells) BY DEF Distinct
<1>8. /\ Top.c \in Visited => queue' = rest /\ UNCHANGED <<ids, n, counted>>
      /\ Top.c \notin Visited =>
           /\ ids' = [ids EXCEPT ![Top.c] = "visited"]
           /\ n' = IF Top.c \in biome THEN n + 1 ELSE n
           /\ counted' = IF Top.c \in biome THEN counted \cup {Top.c} ELSE counted
           /\ queue' = IF Run >= tol THEN rest ELSE rest \o new
  BY <1>3 DEF Fill, AlreadyVisited, TooFar, Visited, Top, Run
<1>9. ASSUME queue' = rest
      PROVE  /\ queue' \in Seq(Entries) /\ Len(queue') = L - 1 + Len(<< >>)
             /\ \A k \in 1..(L - 1) : queue'[k] = queue[k]
             /\ \A j \in 1..Len(<< >>) :
                  queue'[L - 1 + j] = [c |-> << >>[j], d |-> Run]
  <2> HIDE DEF rest, L
  <2>1. Len(<< >>) = 0 /\ 1..0 = {} OBVIOUS
  <2> QED BY <2>1, <1>2, <1>4, <1>9
<1>10. ASSUME Run < tol, queue' = rest \o new
       PROVE  /\ queue' \in Seq(Entries) /\ Len(queue') = L - 1 + Len(nb)
              /\ \A k \in 1..(L - 1) : queue'[k] = queue[k]
              /\ \A j \in 1..Len(nb) : queue'[L - 1 + j] = [c |-> nb[j], d |-> Run]
  <2> HIDE DEF rest, L, nb
  <2>1. nb \in Seq(Cells) /\ Len(nb) \in Nat /\ DOMAIN nb = 1..Len(nb) BY <1>6 DEF Distinct
  <2>2. Run \in 0..tol BY <1>1, <1>3, <1>10
  <2>3. \A k \in 1..Len(nb) : [c |-> nb[k], d |-> Run] \in Entries
    BY <2>1, <2>2 DEF Entries
  <2>4. new \in [1..Len(nb) -> Entries] BY <2>1, <2>3
  <2>5. new \in Seq(Entries) /\ Len(new) = Len(nb) /\ \A j \in 1..Len(nb) : new[j] = [c |-> nb[j], d |-> Run]
    BY <2>1, <2>4
  <2> HIDE DEF new
  <2>6. PICK S : S = Entries OBVIOUS
  <2>7. rest \in Seq(S) /\ new \in Seq(S) BY <2>5, <2>6, <1>4
  <2>8. /\ rest \o new \in Seq(S) /\ Len(rest \o new) = Len(rest) + Len(new)
        /\ \A k \in 1..Len(rest) : (rest \o new)[k] = rest[k]
        /\ \A j \in 1..Len(new) : (rest \o new)[Len(rest) + j] = new[j]
    BY <2>7
  <2>9. Len(rest) = L - 1 /\ Len(new) = Len(nb) BY <1>4, <2>5
  <2>10. queue' \in Seq(Entries) /\ Len(queue') = L - 1 + Len(nb)
    BY <2>6, <2>8, <2>9, <1>10
  <2>11. \A k \in 1..(L - 1) : queue'[k] = queue[k] BY <2>8, <2>9, <1>4, <1>10
  <2>12. \A j \in 1..Len(nb) : queue'[L - 1 + j] = new[j] BY <2>8, <2>9, <1>10
  <2> QED BY <2>5, <2>10, <2>11, <2>12
<1>11. CASE Top.c \in Visited
  <2>1. queue' = rest BY <1>8, <1>11
  <2> HIDE DEF rest
  <2>2. Puts(<< >>) BY <2>1, <1>1, <1>2, <1>3, <1>5, <1>7, <1>8, <1>9, <1>11 DEF Puts
  <2> QED BY <2>2
<1>12. CASE Top.c \notin Visited /\ Run >= tol
  <2>1. queue' = rest BY <1>8, <1>12
  <2>2. ~(Run < tol) BY <1>1, <1>3, <1>12
  <2> HIDE DEF rest
  <2>3. Puts(<< >>) BY <2>1, <2>2, <1>1, <1>2, <1>3, <1>5, <1>7, <1>8, <1>9, <1>12 DEF Puts
  <2> QED BY <2>3
<1>13. CASE Top.c \notin Visited /\ Run < tol
  <2>1. ~(Run >= tol) BY <1>1, <1>3, <1>13
  <2>2. queue' = rest \o new BY <2>1, <1>8, <1>13
  <2> HIDE DEF rest, new
  <2>3. Puts(nb) BY <2>2, <1>1, <1>2, <1>3, <1>5, <1>6, <1>8, <1>10, <1>13 DEF Puts
  <2> QED BY <2>3
<1>14. Run >= tol \/ Run < tol BY <1>1, <1>3
<1> QED BY <1>11, <1>12, <1>13, <1>14

\* What the cells on the stack are after the round.
LEMMA AfterPuts ==
  ASSUME RangeAssumption, TypeOK, NEW s, Puts(s)
  PROVE  /\ Visited' = Visited \cup {Top.c}
         /\ \A b : OnStack(b) => b = Top.c \/ OnStack(b)'
         /\ \A b \in Elements(s) : OnStack(b)'
         /\ \A k \in 1..Len(queue') :
              \/ k \in 1..(Len(queue) - 1) /\ queue'[k] = queue[k]
              \/ \E j \in 1..Len(s) :
                   k = Len(queue) - 1 + j /\ queue'[k] = [c |-> s[j], d |-> Run]
         /\ \A j \in 1..Len(s) : /\ s[j] \in Cells /\ s[j] \notin Visited
                                 /\ Adjacent(Top.c, s[j]) /\ s[j] \in Elements(s)
                                 /\ s[j] = Right(Top.c) => j = Len(s)
                                 /\ Top.c \notin Visited /\ Run < tol
<1> DEFINE L == Len(queue)
<1>1. L \in Nat \ {0} /\ Len(s) \in Nat /\ Len(queue') = L - 1 + Len(s)
  BY DEF Puts, Distinct
<1>2. Visited' = Visited \cup {Top.c}
  <2>1. CASE Top.c \in Visited
    <3>1. ids' = ids BY <2>1 DEF Puts
    <3> QED BY <2>1, <3>1 DEF Visited
  <2>2. CASE Top.c \notin Visited
    <3>1. ids' = [ids EXCEPT ![Top.c] = "visited"] /\ Top.c \in Cells BY <2>2 DEF Puts
    <3>2. \A c \in Cells : ids'[c] = IF c = Top.c THEN "visited" ELSE ids[c]
      BY <3>1 DEF TypeOK
    <3> HIDE DEF Top
    <3> QED BY <3>1, <3>2 DEF Visited
  <2> QED BY <2>1, <2>2
<1>3. /\ \A k \in 1..(L - 1) : queue'[k] = queue[k]
      /\ \A j \in 1..Len(s) : queue'[L - 1 + j] = [c |-> s[j], d |-> Run]
  BY DEF Puts
<1>4. ASSUME NEW k \in 1..Len(queue')
      PROVE  \/ k \in 1..(L - 1) /\ queue'[k] = queue[k]
             \/ \E j \in 1..Len(s) :
                  k = L - 1 + j /\ queue'[k] = [c |-> s[j], d |-> Run]
  <2> HIDE DEF L
  <2>1. CASE k <= L - 1
    <3>1. k \in 1..(L - 1) BY <1>1, <2>1
    <3> QED BY <3>1, <1>3
  <2>2. CASE ~(k <= L - 1)
    <3>1. k - (L - 1) \in 1..Len(s) /\ k = L - 1 + (k - (L - 1)) BY <1>1, <2>2
    <3> QED BY <3>1, <1>3
  <2> QED BY <2>1, <2>2
<1>5. ASSUME NEW b, OnStack(b), b # Top.c PROVE OnStack(b)'
  <2>1. PICK k \in 1..L : queue[k].c = b BY <1>5 DEF OnStack
  <2>2. k # L BY <2>1, <1>5 DEF Top
  <2> HIDE DEF L
  <2>3. k \in 1..(L - 1) /\ k \in 1..Len(queue') BY <2>2, <1>1
  <2> QED BY <2>1, <2>3, <1>3 DEF OnStack
<1>6. ASSUME NEW b \in Elements(s) PROVE OnStack(b)'
  <2>1. PICK j \in 1..Len(s) : s[j] = b BY DEF Elements
  <2> HIDE DEF L
  <2>2. L - 1 + j \in 1..Len(queue') BY <1>1
  <2>3. queue'[L - 1 + j] = [c |-> s[j], d |-> Run] BY <1>3
  <2>4. queue'[L - 1 + j].c = b BY <2>1, <2>3
  <2> QED BY <2>2, <2>4 DEF OnStack
<1>7. ASSUME NEW j \in 1..Len(s)
      PROVE  /\ s[j] \in Cells /\ s[j] \notin Visited
             /\ Adjacent(Top.c, s[j]) /\ s[j] \in Elements(s)
             /\ s[j] = Right(Top.c) => j = Len(s)
             /\ Top.c \notin Visited /\ Run < tol
  <2>1. Top.c \in Cells BY DEF Puts
  <2>2. s # << >>
    <3>1. Len(<< >>) = 0 /\ 1..0 = {} OBVIOUS
    <3> QED BY <3>1
  <2>3. Top.c \notin Visited /\ Run < tol /\ s = Neighbours(Top.c) BY <2>2 DEF Puts
  <2>4. s[j] \in Elements(s) BY DEF Elements
  <2>5. s[j] \in {b \in Cells : Adjacent(Top.c, b) /\ b \notin Visited}
    BY <2>1, <2>3, <2>4, Pushes
  <2>6. s[j] = Right(Top.c) => j = Len(s) BY <2>1, <2>3, Pushes
  <2> QED BY <2>3, <2>4, <2>5, <2>6
<1> QED BY <1>2, <1>4, <1>5, <1>6, <1>7

\* A round takes no cell from what earlier fills have counted.
LEMMA FillOld ==
  ASSUME RangeAssumption, TypeOK, Counting, NEW s, Puts(s)
  PROVE  /\ Old' = Old
         /\ \A a \in Old : a \in Visited /\ a \in biome /\ a \notin counted
         /\ \A a \in Visited : a \in biome => a \in counted \/ a \in Old
         /\ \A a \in Cells : a \notin Old /\ a \in biome =>
              \A b \in Old : ~Adjacent(a, b)
<1>1. Visited' = Visited \cup {Top.c} BY AfterPuts
<1>2. counted \subseteq Visited /\ Closed(Old) /\ biome \subseteq Cells /\ biome' = biome
  BY DEF Counting, TypeOK, Puts
<1>3. Old' = Old
  <2>1. CASE Top.c \in Visited
    <3>1. counted' = counted /\ Visited' = Visited BY <1>1, <2>1 DEF Puts
    <3> QED BY <3>1, <1>2 DEF Old
  <2>2. CASE Top.c \notin Visited
    <3>1. counted' = IF Top.c \in biome THEN counted \cup {Top.c} ELSE counted
      BY <2>2 DEF Puts
    <3> QED BY <3>1, <1>1, <1>2, <2>2 DEF Old
  <2> QED BY <2>1, <2>2
<1>4. ASSUME NEW a \in Cells, a \notin Old, a \in biome, NEW b \in Old PROVE ~Adjacent(a, b)
  <2>1. b \in Cells BY <1>2 DEF Old
  <2>2. Adjacent(a, b) => Adjacent(b, a) BY <2>1, FourNeighbours
  <2> QED BY <2>2, <1>2, <1>4 DEF Closed
<1> QED BY <1>3, <1>4 DEF Old

\* What is left of the islands the fill has touched is still on the stack.
LEMMA FillCounting ==
  ASSUME RangeAssumption, TypeOK, Counting, NEW s, Puts(s)
  PROVE  Counting'
<1>1. /\ biome \subseteq Cells /\ counted \subseteq biome /\ n \in Nat
      /\ counted \subseteq Visited /\ Visited \subseteq Cells /\ IsFiniteSet(counted)
  <2>1. IsFiniteSet(Cells) BY CellCount
  <2>2. counted \subseteq Cells BY DEF TypeOK
  <2>3. IsFiniteSet(counted) BY <2>1, <2>2, FS_Subset
  <2>4. n \in Nat BY CellCount DEF TypeOK
  <2> QED BY <2>3, <2>4 DEF TypeOK, Counting, Visited
<1>2. /\ Visited' = Visited \cup {Top.c}
      /\ \A b : OnStack(b) => b = Top.c \/ OnStack(b)'
      /\ \A b \in Elements(s) : OnStack(b)'
  BY AfterPuts
<1>3. /\ pc = "fill" /\ pc' = pc /\ cell' = cell /\ cell \in Cells /\ biome' = biome
      /\ Top.c \in Cells /\ tol \in Nat \ {0}
  BY DEF Puts, TypeOK, RangeAssumption
<1>4. /\ Top.c \in Visited => n' = n /\ counted' = counted
      /\ Top.c \notin Visited /\ Top.c \in biome => n' = n + 1 /\ counted' = counted \cup {Top.c}
      /\ Top.c \notin biome => n' = n /\ counted' = counted
  BY DEF Puts
<1>5. n' = Cardinality(counted')
  <2>1. n = Cardinality(counted) BY DEF Counting
  <2>2. CASE Top.c \in Visited \/ Top.c \notin biome BY <2>1, <2>2, <1>4
  <2>3. CASE Top.c \notin Visited /\ Top.c \in biome
    <3> HIDE DEF Top
    <3>1. Cardinality(counted \cup {Top.c}) = Cardinality(counted) + 1
      BY <1>1, <2>3, FS_AddElement
    <3> QED BY <3>1, <2>1, <2>3, <1>4
  <2> QED BY <2>2, <2>3
<1>6. counted' \subseteq Visited' BY <1>1, <1>2, <1>4
<1>7. Closed(Old)'
  <2>1. Old' = Old /\ Closed(Old) BY FillOld DEF Counting
  <2> QED BY <2>1, <1>3 DEF Closed
<1>8. ASSUME NEW a \in counted', NEW b \in biome, Adjacent(a, b)
      PROVE  b \in counted' \/ OnStack(b)'
  <2>1. CASE a \in counted
    <3>1. b \in counted \/ OnStack(b) BY <2>1, <1>8 DEF Counting
    <3>2. b = Top.c /\ b \in Visited => b \in counted
      <4>1. a \notin Old /\ a \in biome /\ a \in Cells BY <2>1, <1>1 DEF Old
      <4> QED BY <4>1, <1>8, FillOld
    <3> QED BY <3>1, <3>2, <1>2, <1>4
  <2>2. CASE a \notin counted
    <3>1. a = Top.c /\ Top.c \notin Visited /\ Top.c \in biome BY <2>2, <1>4
    <3>2. s = Neighbours(Top.c)
      <4>1. Run = 0 BY <3>1 DEF Run, Distance
      <4> QED BY <4>1, <3>1, <1>3 DEF Puts
    <3>3. b \in Cells BY <1>1
    <3>4. CASE b \in Visited
      <4>1. a \notin Old BY <3>1 DEF Old
      <4> QED BY <4>1, <3>1, <3>4, <1>3, <1>4, <1>8, FillOld
    <3>5. CASE b \notin Visited
      <4>1. b \in Elements(s) BY <3>1, <3>2, <3>3, <3>5, <1>3, <1>8, Pushes
      <4> QED BY <4>1, <1>2
    <3> QED BY <3>4, <3>5
  <2> QED BY <2>1, <2>2
<1>9. IF cell \in Visited' THEN cell \in biome => cell \in counted' ELSE OnStack(cell)'
  <2>1. IF cell \in Visited THEN cell \in biome => cell \in counted ELSE OnStack(cell)
    BY <1>3 DEF Counting, Visited
  <2>2. \A b : b = cell => (OnStack(b)' <=> OnStack(cell)') BY <1>3 DEF OnStack
  <2>3. OnStack(cell) => cell = Top.c \/ OnStack(cell)' BY <2>2, <1>2
  <2> HIDE DEF Top
  <2> QED BY <2>1, <2>3, <1>2, <1>4
<1>10. (ids[cell] = "visited")' <=> cell \in Visited' BY <1>3 DEF Visited
<1>11. (pc # "fill" => queue = << >>)' BY <1>3
<1>12. (\A a \in counted, b \in biome : Adjacent(a, b) => b \in counted \/ OnStack(b))'
  BY <1>3, <1>8 DEF Adjacent
<1>13. (pc = "fill" =>
          IF ids[cell] = "visited" THEN cell \in biome => cell \in counted
                                   ELSE OnStack(cell))'
  BY <1>3, <1>9, <1>10 DEF OnStack
<1> QED BY <1>5, <1>6, <1>7, <1>11, <1>12, <1>13 DEF Counting

\* The types, and the bound on n, after a round.
LEMMA FillType ==
  ASSUME RangeAssumption, TypeOK, Counting, NEW s, Puts(s)
  PROVE  TypeOK'
<1>1. n' = Cardinality(counted') /\ counted' \subseteq Visited' BY FillCounting DEF Counting
<1>2. Visited' \subseteq Cells /\ IsFiniteSet(Cells) /\ Cardinality(Cells) = sx * sz
  <2>1. Visited' \subseteq Cells BY DEF Visited
  <2> QED BY <2>1, CellCount
<1>3. n' \in 0..(sx * sz)
  <2>1. PICK C : C = counted' OBVIOUS
  <2>2. C \subseteq Cells BY <2>1, <1>1, <1>2
  <2>3. IsFiniteSet(C) /\ Cardinality(C) <= Cardinality(Cells) BY <2>2, <1>2, FS_Subset
  <2>4. Cardinality(C) \in Nat BY <2>3, FS_CardinalityType
  <2> QED BY <2>1, <2>3, <2>4, <1>1, <1>2, CellCount
<1>4. ids' \in [Cells -> {"unknown", "rejected", "visited"}]
  <2>1. ids \in [Cells -> {"unknown", "rejected", "visited"}] BY DEF TypeOK
  <2>2. ids' = ids \/ ids' = [ids EXCEPT ![Top.c] = "visited"] BY DEF Puts
  <2> HIDE DEF Top
  <2> QED BY <2>1, <2>2
<1>5. counted' \subseteq biome'
  <2>1. counted \subseteq biome /\ biome' = biome BY DEF TypeOK, Puts
  <2>2. counted' = counted \/ (Top.c \in biome /\ counted' = counted \cup {Top.c}) BY DEF Puts
  <2> QED BY <2>1, <2>2
<1>6. queue' \in Seq([c : Cells, d : 0..tol])
  BY DEF Puts, Entries
<1> QED BY <1>3, <1>4, <1>5, <1>6 DEF TypeOK, Puts

\* Where the four neighbours of a cell are.
LEMMA WhereCells ==
  ASSUME RangeAssumption, NEW c \in Cells
  PROVE  /\ Up(c) \in Cells => c[2] > 0
         /\ Down(c)[2] > 0 /\ Up(Down(c)) = c /\ Left(Right(c)) = c /\ Down(c) # c
         /\ Right(c) \in Cells => Extra \in Cells
         /\ Origin \in Cells /\ Origin[2] = 0 /\ Extra[2] = 0
<1>1. sx \in Nat \ {0} /\ sz \in Nat \ {0} BY DEF RangeAssumption
<1>2. PICK i \in 0..(sx - 1), j \in 0..(sz - 1) : c = <<i, j>> BY CellIs
<1>3. c[1] = i /\ c[2] = j BY <1>2
<1>4. /\ Up(c) = <<i, j - 1>> /\ Down(c) = <<i, j + 1>> /\ Right(c) = <<i + 1, j>>
  BY <1>3 DEF Up, Down, Right
<1>5. Up(c) \in Cells => c[2] > 0 BY <1>1, <1>3, <1>4, CellIs
<1>6. Down(c)[2] > 0 /\ Down(c) # c BY <1>1, <1>2, <1>4
<1>7. Up(Down(c)) = c
  <2>1. Up(Down(c)) = <<i, j + 1 - 1>> BY <1>4 DEF Up
  <2> QED BY <2>1, <1>2
<1>8. Left(Right(c)) = c
  <2>1. Left(Right(c)) = <<i + 1 - 1, j>> BY <1>4 DEF Left
  <2> QED BY <2>1, <1>2
<1>9. Right(c) \in Cells => Extra \in Cells
  <2>1. Right(c) \in Cells => i + 1 \in 0..(sx - 1) BY <1>4, CellIs
  <2>2. i + 1 \in 0..(sx - 1) => 1 \in 0..(sx - 1) /\ 0 \in 0..(sz - 1) BY <1>1
  <2> QED BY <2>1, <2>2, CellIs DEF Extra
<1>10. Origin \in Cells
  <2>1. 0 \in 0..(sx - 1) /\ 0 \in 0..(sz - 1) BY <1>1
  <2> QED BY <2>1, CellIs DEF Origin
<1> QED BY <1>5, <1>6, <1>7, <1>8, <1>9, <1>10 DEF Origin, Extra

\* A cell no entry has taken.
LEMMA NotTaken ==
  ASSUME RangeAssumption, NEW f, Takes(f), NEW x \in Cells, x[2] > 0,
         x \notin Visited, Up(x) \notin Visited
  PROVE  \A k \in 1..Len(queue) : f[k] # x
<1>1. x \notin {Origin, Extra} BY DEF Origin, Extra
<1> QED BY <1>1 DEF Takes

\* The stack has room after the round.
LEMMA FillRoom ==
  ASSUME RangeAssumption, TypeOK, Room, NEW s, Puts(s)
  PROVE  Room'
<1> DEFINE L == Len(queue)
           c == Top.c
<1>1. PICK f : Takes(f) BY DEF Room
<1>2. /\ L \in Nat \ {0} /\ Len(s) \in Nat /\ Len(queue') = L - 1 + Len(s) /\ c \in Cells
      /\ L \in 1..L
  BY DEF Puts, Distinct
<1>3. /\ Visited' = Visited \cup {c}
      /\ \A k \in 1..(L - 1) : queue'[k] = queue[k]
      /\ \A j \in 1..Len(s) : /\ queue'[L - 1 + j] = [c |-> s[j], d |-> Run]
                              /\ s[j] \in Cells /\ s[j] \notin Visited /\ c \notin Visited
                              /\ s[j] \in {Up(c), Down(c), Left(c), Right(c)}
                              /\ s[j] = Right(c) => j = Len(s)
  <2>1. /\ Visited' = Visited \cup {c}
        /\ \A j \in 1..Len(s) : /\ s[j] \in Cells /\ s[j] \notin Visited /\ c \notin Visited
                                /\ Adjacent(c, s[j])
                                /\ s[j] = Right(c) => j = Len(s)
    BY AfterPuts
  <2>2. \A j \in 1..Len(s) : s[j] \in {Up(c), Down(c), Left(c), Right(c)}
    BY <2>1, <1>2, FourNeighbours
  <2>3. /\ \A k \in 1..(L - 1) : queue'[k] = queue[k]
        /\ \A j \in 1..Len(s) : queue'[L - 1 + j] = [c |-> s[j], d |-> Run]
    BY DEF Puts
  <2> QED BY <2>1, <2>2, <2>3
<1>4. /\ f \in [1..L -> Cells] /\ f[L] \in Cells
      /\ \A j, k \in 1..L : j # k => f[j] # f[k]
      /\ \A k \in 1..L : f[k] = Extra => k = L
      /\ f[L] = Extra => (Left(queue[L].c) \in Cells => Left(queue[L].c) \in Visited)
      /\ \A k \in 1..L : f[k] \notin {Origin, Extra} =>
           f[k][2] > 0 /\ (f[k] \in Visited \/ Up(f[k]) \in Visited)
  BY <1>1, <1>2 DEF Takes
<1>5. /\ Up(c) \in Cells => c[2] > 0
      /\ Down(c)[2] > 0 /\ Up(Down(c)) = c /\ Left(Right(c)) = c /\ Down(c) # c
      /\ Right(c) \in Cells => Extra \in Cells
      /\ Origin[2] = 0 /\ Extra[2] = 0
      /\ Up(c) # Down(c) /\ Up(c) # Left(c) /\ Up(c) # Right(c)
      /\ Down(c) # Left(c) /\ Down(c) # Right(c) /\ Left(c) # Right(c)
  BY <1>2, WhereCells, FourNeighbours
<1>6. queue[L].c = c BY DEF Top
<1> DEFINE Put(b) == b \in Cells /\ b \notin Visited /\ c \notin Visited
           Charge(b) == IF b = Up(c) THEN c
                        ELSE IF b = Down(c) THEN Down(c)
                        ELSE IF b = Left(c) THEN f[L]
                        ELSE Extra
           g == [k \in 1..Len(queue') |-> IF k < L THEN f[k] ELSE Charge(s[k - (L - 1)])]
<1>7. /\ Charge(Up(c)) = c /\ Charge(Down(c)) = Down(c)
      /\ Charge(Left(c)) = f[L] /\ Charge(Right(c)) = Extra
  BY <1>5
<1> HIDE DEF Charge, L, c
<1>8. /\ Put(Up(c)) => c[2] > 0 /\ \A k \in 1..L : f[k] # c
      /\ Put(Down(c)) => \A k \in 1..L : f[k] # Down(c)
      /\ Put(Left(c)) => f[L] # Extra
      /\ Put(Right(c)) => Extra \in Cells
  <2>1. Put(Up(c)) => c[2] > 0 /\ \A k \in 1..L : f[k] # c
    BY <1>1, <1>2, <1>5, NotTaken DEF L
  <2>2. Put(Down(c)) => \A k \in 1..L : f[k] # Down(c)
    BY <1>1, <1>5, NotTaken DEF L
  <2>3. Put(Left(c)) => f[L] # Extra BY <1>4, <1>6
  <2> QED BY <2>1, <2>2, <2>3, <1>5
<1>9. Extra # c \/ ~(c[2] > 0) BY <1>5
<1>10. ASSUME NEW b \in {Up(c), Down(c), Left(c), Right(c)}, Put(b)
       PROVE  /\ Charge(b) \in Cells
              /\ Charge(b) = Extra => b = Right(c)
              /\ \A k \in 1..(L - 1) : f[k] # Charge(b)
              /\ Charge(b) \notin {Origin, Extra} =>
                   /\ Charge(b)[2] > 0
                   /\ Charge(b) \in Visited' \/ Up(Charge(b)) \in Visited'
  <2>0. \A k \in 1..(L - 1) : k \in 1..L /\ k # L BY <1>2
  <2>1. CASE b = Up(c) BY <2>0, <2>1, <1>2, <1>3, <1>5, <1>7, <1>8, <1>10
  <2>2. CASE b = Down(c)
    <3>1. Down(c) # Extra BY <1>5
    <3> QED BY <3>1, <2>0, <2>2, <1>2, <1>3, <1>5, <1>7, <1>8, <1>10
  <2>3. CASE b = Left(c) BY <2>0, <2>3, <1>2, <1>3, <1>4, <1>7, <1>8, <1>10
  <2>4. CASE b = Right(c) BY <2>0, <2>4, <1>4, <1>7, <1>8, <1>10
  <2> QED BY <2>1, <2>2, <2>3, <2>4, <1>10
<1>11. ASSUME NEW a \in {Up(c), Down(c), Left(c), Right(c)}, Put(a),
              NEW b \in {Up(c), Down(c), Left(c), Right(c)}, Put(b), Charge(a) = Charge(b)
       PROVE  a = b
  <2>1. Put(Up(c)) => c # f[L] /\ c # Extra /\ c # Down(c) BY <1>2, <1>5, <1>8
  <2>2. Put(Down(c)) => Down(c) # f[L] /\ Down(c) # Extra BY <1>2, <1>5, <1>8
  <2>3. Put(Left(c)) => f[L] # Extra BY <1>8
  <2> HIDE DEF Put
  <2> QED BY <2>1, <2>2, <2>3, <1>7, <1>11
<1>12. ASSUME NEW k \in 1..Len(queue')
       PROVE  \/ k \in 1..(L - 1) /\ k < L /\ g[k] = f[k] /\ k \in 1..L /\ k # L
              \/ /\ ~(k < L) /\ k - (L - 1) \in 1..Len(s)
                 /\ g[k] = Charge(s[k - (L - 1)])
                 /\ queue'[k].c = s[k - (L - 1)]
  <2>1. CASE k < L
    <3>1. k \in 1..(L - 1) /\ k \in 1..L /\ k # L BY <2>1, <1>2
    <3> QED BY <2>1, <3>1
  <2>2. CASE ~(k < L)
    <3>1. PICK j : j = k - (L - 1) OBVIOUS
    <3>2. j \in 1..Len(s) /\ L - 1 + j = k BY <3>1, <2>2, <1>2
    <3>3. queue'[k] = [c |-> s[j], d |-> Run] BY <3>2, <1>3
    <3>4. queue'[k].c = s[j] BY <3>3
    <3>5. g[k] = Charge(s[j]) BY <2>2, <3>1
    <3> QED BY <2>2, <3>1, <3>2, <3>4, <3>5
  <2> QED BY <2>1, <2>2
<1>13. \A j \in 1..Len(s) : s[j] \in {Up(c), Down(c), Left(c), Right(c)} /\ Put(s[j])
  BY <1>3
<1>14. g \in [1..Len(queue') -> Cells]
  <2>1. g = [k \in 1..Len(queue') |-> g[k]] OBVIOUS
  <2>2. ASSUME NEW k \in 1..Len(queue') PROVE g[k] \in Cells
    <3> HIDE DEF g, Put
    <3> QED BY <1>4, <1>10, <1>12, <1>13
  <2> HIDE DEF g
  <2> QED BY <2>1, <2>2
<1> HIDE DEF g, Put
<1>15. ASSUME NEW j \in 1..Len(queue'), NEW k \in 1..Len(queue'), j # k
       PROVE  g[j] # g[k]
  <2>1. CASE j < L /\ k < L BY <2>1, <1>4, <1>12, <1>15
  <2>2. CASE j < L /\ ~(k < L) BY <2>2, <1>10, <1>12, <1>13
  <2>3. CASE ~(j < L) /\ k < L BY <2>3, <1>10, <1>12, <1>13
  <2>4. CASE ~(j < L) /\ ~(k < L)
    <3>1. PICK i \in 1..Len(s), h \in 1..Len(s) :
            i = j - (L - 1) /\ h = k - (L - 1) /\ g[j] = Charge(s[i]) /\ g[k] = Charge(s[h])
      BY <2>4, <1>12
    <3>2. i # h BY <3>1, <1>2, <1>15
    <3>3. s[i] # s[h] BY <3>2 DEF Puts, Distinct
    <3> QED BY <3>1, <3>3, <1>11, <1>13
  <2> QED BY <2>1, <2>2, <2>3, <2>4
<1>16. ASSUME NEW k \in 1..Len(queue')
       PROVE  /\ g[k] = Extra =>
                   /\ k = Len(queue')
                   /\ Left(queue'[k].c) \in Cells => Left(queue'[k].c) \in Visited'
              /\ g[k] \notin {Origin, Extra} =>
                   g[k][2] > 0 /\ (g[k] \in Visited' \/ Up(g[k]) \in Visited')
  <2>1. CASE k < L
    <3>1. g[k] = f[k] /\ k \in 1..L /\ k # L BY <2>1, <1>12
    <3>2. g[k] # Extra BY <3>1, <1>4
    <3>3. g[k] \notin {Origin, Extra} => g[k][2] > 0 /\ (g[k] \in Visited \/ Up(g[k]) \in Visited)
      BY <3>1, <1>4
    <3> QED BY <3>2, <3>3, <1>3
  <2>2. CASE ~(k < L)
    <3>1. PICK j \in 1..Len(s) : j = k - (L - 1) /\ g[k] = Charge(s[j]) /\ queue'[k].c = s[j]
      BY <2>2, <1>12
    <3>2. s[j] \in {Up(c), Down(c), Left(c), Right(c)} /\ Put(s[j]) BY <1>13
    <3>3. g[k] \notin {Origin, Extra} => g[k][2] > 0 /\ (g[k] \in Visited' \/ Up(g[k]) \in Visited')
      BY <3>1, <3>2, <1>10
    <3>4. ASSUME g[k] = Extra
          PROVE  k = Len(queue') /\ Left(queue'[k].c) \in Visited'
      <4>1. s[j] = Right(c) BY <3>1, <3>2, <3>4, <1>10
      <4>2. j = Len(s) BY <4>1, <1>3
      <4>3. k = Len(queue')
        <5>1. j = k - (L - 1) /\ L \in Nat /\ Len(s) \in Nat BY <3>1, <1>2
        <5>2. k = L - 1 + j BY <5>1
        <5>3. Len(queue') = L - 1 + Len(s) BY <1>2
        <5> QED BY <4>2, <5>2, <5>3
      <4> QED BY <4>1, <4>3, <3>1, <1>3, <1>5
    <3> QED BY <3>3, <3>4
  <2> QED BY <2>1, <2>2
<1>17. PICK h : h = g OBVIOUS
<1>18. /\ h \in [1..Len(queue') -> Cells]
       /\ \A j, k \in 1..Len(queue') : j # k => h[j] # h[k]
       /\ \A k \in 1..Len(queue') :
            /\ h[k] = Extra =>
                 /\ k = Len(queue')
                 /\ Left(queue'[k].c) \in Cells => Left(queue'[k].c) \in Visited'
            /\ h[k] \notin {Origin, Extra} =>
                 h[k][2] > 0 /\ (h[k] \in Visited' \/ Up(h[k]) \in Visited')
  BY <1>14, <1>15, <1>16, <1>17
<1>19. Takes(h)' BY <1>18 DEF Takes, Left, Up, Extra, Origin
<1> QED BY <1>18, <1>19 DEF Room

\* How many cells are marked.
LEMMA MarkedRange ==
  ASSUME RangeAssumption
  PROVE  IsFiniteSet(Visited) /\ Marked \in 0..(sx * sz)
<1>1. Visited \subseteq Cells /\ IsFiniteSet(Cells) /\ Cardinality(Cells) = sx * sz
  BY CellCount DEF Visited
<1>2. IsFiniteSet(Visited) /\ Cardinality(Visited) <= sx * sz BY <1>1, FS_Subset
<1>3. Cardinality(Visited) \in Nat BY <1>2, FS_CardinalityType
<1> QED BY <1>2, <1>3, CellCount DEF Marked

\* A round marks one cell more, or none.
LEMMA FillMarked ==
  ASSUME RangeAssumption, TypeOK, NEW s, Puts(s)
  PROVE  /\ Marked \in 0..(sx * sz) /\ Marked' \in 0..(sx * sz)
         /\ Marked' = IF Top.c \in Visited THEN Marked ELSE Marked + 1
<1>1. PICK V, U : V = Visited /\ U = Visited' OBVIOUS
<1>2. U = V \cup {Top.c} BY <1>1, AfterPuts
<1>3. IsFiniteSet(V) /\ Marked = Cardinality(V) /\ Marked \in 0..(sx * sz)
  BY <1>1, MarkedRange DEF Marked
<1>4. Marked' = Cardinality(U) BY <1>1 DEF Marked
<1>5. U \subseteq Cells
  <2>1. V \subseteq Cells BY <1>1 DEF Visited
  <2> QED BY <2>1, <1>2 DEF Puts
<1>6. Cardinality(U) \in 0..(sx * sz)
  <2>1. IsFiniteSet(U) /\ Cardinality(U) <= sx * sz BY <1>5, CellCount, FS_Subset
  <2>2. Cardinality(U) \in Nat BY <2>1, FS_CardinalityType
  <2> QED BY <2>1, <2>2, CellCount
<1>7. Cardinality(U) = IF Top.c \in V THEN Cardinality(V) ELSE Cardinality(V) + 1
  <2>1. PICK t : t = Top.c OBVIOUS
  <2>2. U = V \cup {t} BY <2>1, <1>2
  <2>3. Cardinality(V \cup {t}) = IF t \in V THEN Cardinality(V) ELSE Cardinality(V) + 1
    BY <1>3, FS_AddElement
  <2> QED BY <2>1, <2>2, <2>3
<1> QED BY <1>1, <1>3, <1>4, <1>6, <1>7

\* What walks are depends on the mushroom cells and on the tolerance alone.
IsWalksIn(W, c, B, t) ==
  LET Length(b, d) == IF b \in B THEN 0 ELSE d + 1
  IN  /\ W \in [0..(sx * sz) -> SUBSET (Cells \X (0..t))] /\ W[0] = {<<c, Length(c, 0)>>}
      /\ \A k \in 1..(sx * sz) :
           W[k] = W[k - 1] \cup
             {<<e[1], Length(e[1], e[2])>> : e \in
                {e \in Cells \X (0..(t - 1)) :
                   \E a \in Cells : <<a, e[2]>> \in W[k - 1] /\ Adjacent(a, e[1])}}

\* A round goes one step further at most.
LEMMA FillWalks ==
  ASSUME RangeAssumption, TypeOK, WalksOnly, NEW s, Puts(s)
  PROVE  WalksOnly'
<1> DEFINE N == sx * sz
<1>1. /\ pc = "fill" /\ cell' = cell /\ biome' = biome /\ tol' = tol /\ cell \in Cells
      /\ tol \in Nat \ {0} /\ counted \subseteq biome
  BY DEF Puts, TypeOK, RangeAssumption
<1> SUFFICES ASSUME NEW W, IsWalks(W, cell)'
             PROVE  /\ \A k \in 1..Len(queue') :
                         <<queue'[k].c, Distance(queue[k].c, queue[k].d)'>> \in W[Marked']
                    /\ \A c \in counted' : \E d \in 0..tol : <<c, d>> \in W[Marked']
  BY <1>1 DEF WalksOnly
<1>2. IsWalks(W, cell)
  <2>1. IsWalksIn(W, cell', biome', tol') BY DEF IsWalks, IsWalksIn, WalkStates, Distance
  <2>2. IsWalksIn(W, cell, biome, tol) BY <2>1, <1>1
  <2> QED BY <2>2 DEF IsWalks, IsWalksIn, WalkStates, Distance
<1>3. /\ \A k \in 1..Len(queue) :
           <<queue[k].c, Distance(queue[k].c, queue[k].d)>> \in W[Marked]
      /\ \A c \in counted : \E d \in 0..tol : <<c, d>> \in W[Marked]
  BY <1>1, <1>2 DEF WalksOnly
<1>4. N \in Nat BY CellCount
<1>5. /\ Marked \in 0..N /\ Marked' \in 0..N
      /\ Marked' = IF Top.c \in Visited THEN Marked ELSE Marked + 1
  BY FillMarked
<1>6. Len(queue) \in 1..Len(queue) /\ Len(queue) \in Nat BY DEF Puts
<1>7. <<Top.c, Run>> \in W[Marked] BY <1>3, <1>6 DEF Top, Run
<1>8. \A b, d : Distance(b, d)' = Distance(b, d) BY <1>1 DEF Distance
<1>9. W[Marked] \subseteq W[Marked']
  <2>1. CASE Top.c \in Visited BY <2>1, <1>5
  <2>2. CASE Top.c \notin Visited
    <3>1. Marked' \in 1..N /\ Marked' - 1 = Marked BY <2>2, <1>4, <1>5
    <3> QED BY <3>1, <1>2 DEF IsWalks
  <2> QED BY <2>1, <2>2
<1>10. ASSUME NEW j \in 1..Len(s) PROVE <<s[j], Distance(s[j], Run)>> \in W[Marked']
  <2>1. s[j] \in Cells /\ Adjacent(Top.c, s[j]) /\ Top.c \notin Visited /\ Run < tol
    BY AfterPuts
  <2>2. Marked' \in 1..N /\ Marked' - 1 = Marked BY <2>1, <1>4, <1>5
  <2>3. Run \in 0..(tol - 1) /\ Top.c \in Cells BY <2>1, <1>1 DEF Puts
  <2> DEFINE From == {e \in Cells \X (0..(tol - 1)) :
                        \E a \in Cells : <<a, e[2]>> \in W[Marked] /\ Adjacent(a, e[1])}
  <2>4. PICK e : e = <<s[j], Run>> OBVIOUS
  <2>5. e \in From /\ e[1] = s[j] /\ e[2] = Run BY <2>1, <2>3, <2>4, <1>7
  <2>6. W[Marked'] = W[Marked] \cup {<<x[1], Distance(x[1], x[2])>> : x \in From}
    <3>1. PICK m \in 1..N : m = Marked' BY <2>2
    <3>2. W[m] = W[m - 1] \cup
            {<<x[1], Distance(x[1], x[2])>> : x \in
               {e1 \in Cells \X (0..(tol - 1)) :
                  \E a \in Cells : <<a, e1[2]>> \in W[m - 1] /\ Adjacent(a, e1[1])}}
      BY <1>2 DEF IsWalks
    <3>3. PICK w : w = W[m - 1] OBVIOUS
    <3>4. w = W[Marked] BY <3>1, <3>3, <2>2
    <3> QED BY <3>1, <3>2, <3>3, <3>4
  <2> HIDE DEF From
  <2>7. <<e[1], Distance(e[1], e[2])>> \in W[Marked'] BY <2>5, <2>6
  <2> QED BY <2>5, <2>7
<1>11. ASSUME NEW k \in 1..Len(queue')
       PROVE  <<queue'[k].c, Distance(queue[k].c, queue[k].d)'>> \in W[Marked']
  <2>1. CASE k \in 1..(Len(queue) - 1) /\ queue'[k] = queue[k]
    <3>1. k \in 1..Len(queue) BY <2>1, <1>6
    <3>2. <<queue[k].c, Distance(queue[k].c, queue[k].d)>> \in W[Marked] BY <3>1, <1>3
    <3>3. Distance(queue[k].c, queue[k].d)' = Distance(queue[k].c, queue[k].d)
      BY <2>1, <1>1 DEF Distance
    <3> QED BY <2>1, <3>2, <3>3, <1>9
  <2>2. CASE \E j \in 1..Len(s) :
               k = Len(queue) - 1 + j /\ queue'[k] = [c |-> s[j], d |-> Run]
    <3>1. PICK j \in 1..Len(s) : queue'[k] = [c |-> s[j], d |-> Run] BY <2>2
    <3>2. queue'[k].c = s[j] /\ queue'[k].d = Run BY <3>1
    <3>3. Distance(queue[k].c, queue[k].d)' = Distance(s[j], Run)
      BY <3>2, <1>1 DEF Distance
    <3> QED BY <3>2, <3>3, <1>10
  <2> QED BY <2>1, <2>2, AfterPuts
<1>12. ASSUME NEW c \in counted' PROVE \E d \in 0..tol : <<c, d>> \in W[Marked']
  <2>1. CASE c \in counted BY <2>1, <1>3, <1>9
  <2>2. CASE c \notin counted
    <3>1. c = Top.c /\ Top.c \in biome BY <2>2 DEF Puts
    <3>2. Run \in 0..tol BY <3>1, <1>1 DEF Run, Distance
    <3> QED BY <3>1, <3>2, <1>7, <1>9
  <2> QED BY <2>1, <2>2
<1> QED BY <1>11, <1>12

\* Without tolerance a round stays on the island.
LEMMA FillIsland ==
  ASSUME RangeAssumption, TypeOK, IslandOnly, NEW s, Puts(s)
  PROVE  IslandOnly'
<1> DEFINE N == sx * sz
<1>1. /\ pc = "fill" /\ cell' = cell /\ biome' = biome /\ tol' = tol /\ cell \in Cells
      /\ counted \subseteq biome
  BY DEF Puts, TypeOK
<1> SUFFICES ASSUME tol = 1 PROVE IslandOnly'
  BY <1>1 DEF IslandOnly
<1>2. Len(queue) \in 1..Len(queue) /\ Len(queue) \in Nat BY DEF Puts
<1>3. Run < tol => Top.c \in biome
  <2>1. Top.d \in 0..1 BY DEF Puts
  <2> QED BY <2>1 DEF Run, Distance
<1>4. CASE cell \in biome
  <2> SUFFICES ASSUME NEW W, IsIsland(W, cell)'
               PROVE  /\ \A k \in 1..Len(queue') :
                           queue'[k].c \in biome => queue'[k].c \in W[Marked']
                      /\ counted' \subseteq W[Marked']
    BY <1>1, <1>4 DEF IslandOnly
  <2>1. IsIsland(W, cell) BY <1>1 DEF IsIsland, Adjacent
  <2>2. /\ \A k \in 1..Len(queue) : queue[k].c \in biome => queue[k].c \in W[Marked]
        /\ counted \subseteq W[Marked]
    BY <2>1, <1>1, <1>4 DEF IslandOnly
  <2>3. N \in Nat BY CellCount
  <2>4. /\ Marked \in 0..N /\ Marked' \in 0..N
        /\ Marked' = IF Top.c \in Visited THEN Marked ELSE Marked + 1
    BY FillMarked
  <2>5. Top.c \in biome => Top.c \in W[Marked] BY <2>2, <1>2 DEF Top
  <2>6. W[Marked] \subseteq W[Marked']
    <3>1. CASE Top.c \in Visited BY <3>1, <2>4
    <3>2. CASE Top.c \notin Visited
      <4>1. Marked' \in 1..N /\ Marked' - 1 = Marked BY <3>2, <2>3, <2>4
      <4> QED BY <4>1, <2>1 DEF IsIsland
    <3> QED BY <3>1, <3>2
  <2>7. ASSUME NEW j \in 1..Len(s), s[j] \in biome PROVE s[j] \in W[Marked']
    <3>1. Adjacent(Top.c, s[j]) /\ Top.c \notin Visited /\ Run < tol BY AfterPuts
    <3>2. Marked' \in 1..N /\ Marked' - 1 = Marked BY <3>1, <2>3, <2>4
    <3>3. W[Marked'] = W[Marked] \cup {b \in biome : \E a \in W[Marked] : Adjacent(a, b)}
      BY <3>2, <2>1 DEF IsIsland
    <3> QED BY <3>1, <3>3, <2>5, <2>7, <1>3
  <2>8. ASSUME NEW k \in 1..Len(queue'), queue'[k].c \in biome
        PROVE  queue'[k].c \in W[Marked']
    <3>1. CASE k \in 1..(Len(queue) - 1) /\ queue'[k] = queue[k]
      <4>1. k \in 1..Len(queue) BY <3>1, <1>2
      <4> QED BY <3>1, <4>1, <2>2, <2>6, <2>8
    <3>2. CASE \E j \in 1..Len(s) :
                 k = Len(queue) - 1 + j /\ queue'[k] = [c |-> s[j], d |-> Run]
      <4>1. PICK j \in 1..Len(s) : queue'[k] = [c |-> s[j], d |-> Run] BY <3>2
      <4>2. queue'[k].c = s[j] BY <4>1
      <4> QED BY <4>2, <2>7, <2>8
    <3> QED BY <3>1, <3>2, AfterPuts
  <2>9. counted' \subseteq W[Marked']
    <3>1. ASSUME NEW c \in counted' PROVE c \in counted \/ (c = Top.c /\ Top.c \in biome)
      BY DEF Puts
    <3> QED BY <3>1, <2>2, <2>5, <2>6
  <2> QED BY <2>8, <2>9
<1>5. CASE cell \notin biome
  <2>1. counted = {} /\ \A k \in 1..Len(queue) : queue[k].c = cell BY <1>1, <1>5 DEF IslandOnly
  <2>2. Top.c \notin biome BY <2>1, <1>2, <1>5 DEF Top
  <2>3. counted' = {} BY <2>1, <2>2 DEF Puts
  <2>4. ASSUME NEW k \in 1..Len(queue') PROVE queue'[k].c = cell
    <3>1. \A j \in 1..Len(s) : FALSE BY <2>2, <1>3, AfterPuts
    <3>2. k \in 1..(Len(queue) - 1) /\ queue'[k] = queue[k] BY <3>1, AfterPuts
    <3>3. k \in 1..Len(queue) BY <3>2, <1>2
    <3> QED BY <3>2, <3>3, <2>1
  <2> QED BY <2>3, <2>4, <1>1, <1>5 DEF IslandOnly
<1> QED BY <1>4, <1>5

\* Islands depend on the mushroom cells alone, and the grid on minsiz.
IslandIn(c, B) ==
  LET W[k \in 0..(sx * sz)] ==
        IF k = 0 THEN {c}
        ELSE LET w == W[k - 1]
             IN  w \cup {b \in B : \E a \in w : Adjacent(a, b)}
  IN  W[sx * sz]

\* With the same mushroom cells the islands are the same, ...
LEMMA IslandSame ==
  ASSUME biome' = biome
  PROVE  \A c : Island(c)' = Island(c)
<1> TAKE c
<1>1. Island(c) = IslandIn(c, biome) BY DEF Island, IslandIn
<1>2. Island(c)' = IslandIn(c, biome') BY DEF Island, IslandIn
<1> QED BY <1>1, <1>2

StepOf(m) == 1 + CHOOSE k \in 0..m : 4 * k * k <= m /\ 4 * (k + 1) * (k + 1) > m

\* ... and with the same minsiz the grid.
LEMMA GridSame ==
  ASSUME minsiz' = minsiz
  PROVE  step' = step /\ \A c : (OnGrid(c) <=> OnGrid(c)') /\ After(c)' = After(c)
<1>1. step = StepOf(minsiz) BY DEF step, StepOf
<1>2. step' = StepOf(minsiz') BY DEF step, StepOf
<1>3. step' = step BY <1>1, <1>2
<1> QED BY <1>3 DEF OnGrid, After

\* A round makes no cell of the grid unknown again.
LEMMA FillScanned ==
  ASSUME RangeAssumption, TypeOK, Scanned, NEW s, Puts(s)
  PROVE  Scanned'
<1>1. pc = "fill" /\ UNCHANGED <<pc, cell, siz, minsiz, in_limits>> /\ cell \in Cells
  BY DEF Puts, TypeOK
<1>2. \A c \in Cells : ids'[c] = ids[c] \/ ids'[c] = "visited"
  BY DEF Puts, TypeOK
<1>3. \A c : OnGrid(c)' <=> OnGrid(c) BY <1>1, GridSame
<1>4. OnGrid(cell)'
  <2>1. OnGrid(cell) /\ \A c : c = cell => (OnGrid(cell)' <=> OnGrid(c)')
    BY <1>1 DEF Scanned, OnGrid
  <2> QED BY <2>1, <1>3
<1>5. ASSUME NEW c \in Cells, ids'[c] = "rejected" PROVE c \notin in_limits'
  BY <1>1, <1>2, <1>5 DEF Scanned
<1>6. ASSUME NEW c \in Cells, OnGrid(c)', Before(c, cell') PROVE ids'[c] # "unknown"
  <2>1. OnGrid(c) /\ Before(c, cell) BY <1>1, <1>3, <1>6
  <2> QED BY <2>1, <1>2 DEF Scanned
<1>7. (\A c \in Cells : OnGrid(c) /\ Before(c, cell) => ids[c] # "unknown")'
  BY <1>6 DEF Before
<1> QED BY <1>1, <1>4, <1>5, <1>7 DEF Scanned

\* A round adds nothing to what earlier fills have counted.
LEMMA FillSmall ==
  ASSUME RangeAssumption, TypeOK, Counting, SmallSoFar, NEW s, Puts(s)
  PROVE  SmallSoFar'
<1>1. pc = "fill" /\ UNCHANGED <<pc, siz, biome, minsiz>> BY DEF Puts
<1>2. ASSUME siz = 0, NEW c \in Visited' \cap biome', c \notin counted'
      PROVE  Cardinality(Island(c))' < minsiz
  <2>1. c \in Old' BY <1>2 DEF Old
  <2>2. c \in Old BY <2>1, FillOld
  <2>3. Cardinality(Island(c)) < minsiz BY <2>2, <1>1, <1>2 DEF Old, SmallSoFar
  <2> QED BY <2>3, <1>1, IslandSame
<1>3. siz' # 0 => pc' = "end" BY <1>1 DEF SmallSoFar
<1> QED BY <1>1, <1>2, <1>3 DEF SmallSoFar

\* A round keeps the invariant.
LEMMA FillKeeps ==
  ASSUME RangeAssumption, IInv, Fill
  PROVE  IInv'
<1>1. /\ TypeOK /\ Counting /\ Room /\ WalksOnly /\ IslandOnly /\ Scanned /\ SmallSoFar
  BY DEF IInv
<1>2. PICK s : Puts(s) BY <1>1, FillPuts
<1>3. TypeOK' BY <1>1, <1>2, FillType
<1>4. Counting' BY <1>1, <1>2, FillCounting
<1>5. Room' BY <1>1, <1>2, FillRoom
<1>6. WalksOnly' BY <1>1, <1>2, FillWalks
<1>7. IslandOnly' BY <1>1, <1>2, FillIsland
<1>8. Scanned' BY <1>1, <1>2, FillScanned
<1>9. SmallSoFar' BY <1>1, <1>2, FillSmall
<1> QED BY <1>3, <1>4, <1>5, <1>6, <1>7, <1>8, <1>9 DEF IInv

-----------------------------------------------------------------------------
(***************************************************************************)
(* The scan.                                                               *)
(***************************************************************************)
\* step is the least number whose double has a square above minsiz.
LEMMA StepIs ==
  ASSUME RangeAssumption, minsiz \in Nat \ {0}
  PROVE  /\ step \in Nat \ {0} /\ 4 * step * step > minsiz
         /\ \A k \in Nat : 4 * k * k > minsiz => step <= k
<1> DEFINE Ok(k) == 4 * k * k <= minsiz /\ 4 * (k + 1) * (k + 1) > minsiz
           T == {k \in Nat : 4 * (k + 1) * (k + 1) > minsiz}
<1>0. minsiz \in Nat /\ minsiz > 0 OBVIOUS
<1>1. minsiz \in T
  <2>1. PICK q \in Nat : q = minsiz * minsiz BY <1>0
  <2>2. 4 * (minsiz + 1) * (minsiz + 1) = 4 * q + 8 * minsiz + 4 BY <2>1, <1>0
  <2> QED BY <2>1, <2>2, <1>0
<1>2. PICK m \in T : \A k \in T : m <= k
  <2>1. T \subseteq Nat /\ T # {} BY <1>1
  <2> HIDE DEF T
  <2> QED BY <2>1, Least
<1>3. m \in Nat /\ m \in 0..minsiz /\ 4 * (m + 1) * (m + 1) > minsiz BY <1>0, <1>1, <1>2
<1>4. 4 * m * m <= minsiz
  <2>1. CASE m = 0 BY <2>1, <1>0
  <2>2. CASE m # 0
    <3>1. m - 1 \in Nat /\ m - 1 < m /\ (m - 1) + 1 = m BY <2>2, <1>3
    <3>2. m - 1 \notin T BY <3>1, <1>2, <1>3
    <3>3. ~(4 * m * m > minsiz) BY <3>1, <3>2
    <3>4. 4 * m * m \in Nat BY <1>3
    <3> QED BY <3>3, <3>4, <1>0
  <2> QED BY <2>1, <2>2
<1>5. \E k \in 0..minsiz : Ok(k) BY <1>3, <1>4
<1>6. PICK c : c = (CHOOSE k \in 0..minsiz : Ok(k)) OBVIOUS
<1>7. c \in 0..minsiz /\ Ok(c)
  <2> HIDE DEF Ok
  <2> QED BY <1>5, <1>6
<1>8. step = 1 + c BY <1>6 DEF step
<1>9. step \in Nat \ {0} /\ 4 * step * step > minsiz
  <2>1. step = c + 1 /\ c \in Nat BY <1>0, <1>7, <1>8
  <2> QED BY <2>1, <1>7
<1>10. ASSUME NEW k \in Nat, 4 * k * k > minsiz PROVE step <= k
  <2>1. c \in Nat /\ 4 * c * c <= minsiz BY <1>0, <1>7
  <2>2. SUFFICES ASSUME k <= c PROVE FALSE BY <2>1, <1>8
  <2>3. PICK d \in Nat : c = k + d BY <2>1, <2>2
  <2>4. PICK p \in Nat, q \in Nat, r \in Nat : p = k * k /\ q = k * d /\ r = d * d OBVIOUS
  <2>5. 4 * c * c = 4 * p + 8 * q + 4 * r BY <2>3, <2>4
  <2>6. 4 * k * k = 4 * p BY <2>4
  <2> QED BY <1>0, <1>10, <2>1, <2>4, <2>5, <2>6
<1> QED BY <1>9, <1>10

\* The scan misses no cell of the grid.
LEMMA AdvanceScan ==
  ASSUME RangeAssumption, TypeOK, OnGrid(cell), ids[cell] # "unknown", Advance,
         \A c \in Cells : OnGrid(c) /\ Before(c, cell) => ids[c] # "unknown"
  PROVE  /\ cell' \in Cells /\ pc' \in {"scan", "end"}
         /\ \A x : x = cell' => OnGrid(x)
         /\ \A c \in Cells : OnGrid(c) /\ Before(c, cell') => ids[c] # "unknown"
         /\ pc' = "end" => \A c \in Cells : OnGrid(c) => ids[c] # "unknown"
<1> DEFINE i == cell[1]
           j == cell[2]
           st == step
<1>1. sx \in Nat \ {0} /\ sz \in Nat \ {0} /\ minsiz \in Nat \ {0} /\ cell \in Cells
  BY DEF RangeAssumption, TypeOK
<1>2. st \in Nat \ {0} BY <1>1, StepIs
<1>3. /\ cell = <<i, j>> /\ i \in 0..(sx - 1) /\ j \in 0..(sz - 1)
      /\ i \in Nat /\ j \in Nat /\ i % st = 0 /\ j % st = 0
  <2>1. cell = <<i, j>> /\ i \in 0..(sx - 1) /\ j \in 0..(sz - 1) BY <1>1, CellIs
  <2> QED BY <2>1, <1>1 DEF OnGrid
<1>4. /\ (i + st) % st = 0 /\ (j + st) % st = 0 /\ 0 % st = 0
      /\ \A p \in Nat : p % st = 0 /\ i < p => i + st <= p
      /\ \A p \in Nat : p % st = 0 /\ j < p => j + st <= p
  <2> HIDE DEF i, j, st
  <2>1. (i + st) % st = 0 /\ (j + st) % st = 0 BY <1>2, <1>3, SameRemainder
  <2>2. 0 % st = 0 BY <1>2, SameRemainder
  <2>3. \A p \in Nat : p % st = 0 /\ i < p => i + st <= p BY <1>2, <1>3, SameRemainder
  <2>4. \A p \in Nat : p % st = 0 /\ j < p => j + st <= p BY <1>2, <1>3, SameRemainder
  <2> QED BY <2>1, <2>2, <2>3, <2>4
<1>5. ASSUME NEW c \in Cells, OnGrid(c)
      PROVE  /\ c = <<c[1], c[2]>> /\ c[1] \in 0..(sx - 1) /\ c[2] \in 0..(sz - 1)
             /\ c[1] \in Nat /\ c[2] \in Nat /\ c[1] % st = 0 /\ c[2] % st = 0
             /\ c[2] < j => ids[c] # "unknown"
             /\ c[2] = j /\ c[1] < i => ids[c] # "unknown"
             /\ c[2] = j /\ c[1] = i => ids[c] # "unknown"
  <2>1. c = <<c[1], c[2]>> /\ c[1] \in 0..(sx - 1) /\ c[2] \in 0..(sz - 1) BY CellIs
  <2>2. c[1] \in Nat /\ c[2] \in Nat /\ c[1] % st = 0 /\ c[2] % st = 0
    BY <2>1, <1>1, <1>5 DEF OnGrid
  <2>3. c[2] < j => ids[c] # "unknown" BY <1>5 DEF Before
  <2>4. c[2] = j /\ c[1] < i => ids[c] # "unknown" BY <1>5 DEF Before
  <2>5. c[2] = j /\ c[1] = i => c = cell BY <2>1, <1>3
  <2> QED BY <2>1, <2>2, <2>3, <2>4, <2>5
<1>6. CASE i + st < sx
  <2>1. After(cell) = <<i + st, j>> BY <1>6 DEF After
  <2>2. i + st \in 0..(sx - 1) /\ i + st # -1 /\ i + st \in Int BY <1>1, <1>2, <1>3, <1>6
  <2>3. After(cell) # NoCell BY <2>1, <2>2 DEF NoCell
  <2>4. cell' = <<i + st, j>> /\ pc' = "scan" BY <2>1, <2>3 DEF Advance
  <2>5. cell' \in Cells BY <2>2, <2>4, <1>3, CellIs
  <2>6. \A x : x = cell' => OnGrid(x) BY <2>4, <1>3, <1>4 DEF OnGrid
  <2>7. ASSUME NEW c \in Cells, OnGrid(c), Before(c, cell') PROVE ids[c] # "unknown"
    <3>1. c[2] < j \/ (c[2] = j /\ c[1] < i + st) BY <2>4, <2>7 DEF Before
    <3>2. c[1] < i \/ c[1] = i \/ i + st <= c[1] BY <1>3, <1>4, <1>5, <2>7
    <3>3. c[1] < i + st => ~(i + st <= c[1]) BY <1>5, <2>2, <2>7
    <3> QED BY <3>1, <3>2, <3>3, <1>5, <2>7
  <2> QED BY <2>4, <2>5, <2>6, <2>7
<1>7. CASE ~(i + st < sx) /\ j + st < sz
  <2>1. After(cell) = <<0, j + st>> BY <1>7 DEF After
  <2>2. j + st \in 0..(sz - 1) /\ 0 \in 0..(sx - 1) /\ j + st \in Int BY <1>1, <1>2, <1>3, <1>7
  <2>3. After(cell) # NoCell BY <2>1 DEF NoCell
  <2>4. cell' = <<0, j + st>> /\ pc' = "scan" BY <2>1, <2>3 DEF Advance
  <2>5. cell' \in Cells BY <2>2, <2>4, CellIs
  <2>6. \A x : x = cell' => OnGrid(x) BY <2>4, <1>4 DEF OnGrid
  <2>7. ASSUME NEW c \in Cells, OnGrid(c), Before(c, cell') PROVE ids[c] # "unknown"
    <3>1. c[2] < j + st BY <2>4, <2>7, <1>5 DEF Before
    <3>2. c[2] < j \/ c[2] = j BY <3>1, <2>2, <1>3, <1>4, <1>5, <2>7
    <3>3. c[1] < i \/ c[1] = i
      <4>1. c[1] < sx /\ i + st \in Nat /\ sx <= i + st BY <1>1, <1>2, <1>3, <1>5, <1>7, <2>7
      <4> QED BY <4>1, <1>1, <1>3, <1>4, <1>5, <2>7
    <3> QED BY <3>2, <3>3, <1>5, <2>7
  <2> QED BY <2>4, <2>5, <2>6, <2>7
<1>8. CASE ~(i + st < sx) /\ ~(j + st < sz)
  <2>1. After(cell) = NoCell BY <1>8 DEF After
  <2>2. cell' = cell /\ pc' = "end" BY <2>1 DEF Advance
  <2>3. ASSUME NEW c \in Cells, OnGrid(c) PROVE ids[c] # "unknown"
    <3>1. c[2] < j \/ c[2] = j
      <4>1. c[2] < sz /\ j + st \in Nat /\ sz <= j + st BY <1>1, <1>2, <1>3, <1>5, <1>8, <2>3
      <4> QED BY <4>1, <1>1, <1>3, <1>4, <1>5, <2>3
    <3>2. c[1] < i \/ c[1] = i
      <4>1. c[1] < sx /\ i + st \in Nat /\ sx <= i + st BY <1>1, <1>2, <1>3, <1>5, <1>8, <2>3
      <4> QED BY <4>1, <1>1, <1>3, <1>4, <1>5, <2>3
    <3> QED BY <3>1, <3>2, <1>5, <2>3
  <2> QED BY <2>2, <2>3, <1>1
<1> QED BY <1>6, <1>7, <1>8

-----------------------------------------------------------------------------
(***************************************************************************)
(* The other actions.                                                      *)
(***************************************************************************)
\* What depends on the stack and the marks alone.
LEMMA RoomSame ==
  ASSUME Room, queue' = queue, ids' = ids
  PROVE  Room'
<1>1. PICK f : f \in [1..Len(queue) -> Cells] /\ Takes(f) BY DEF Room, Takes
<1>2. Takes(f)' BY <1>1 DEF Takes, Visited, Left, Up, Extra, Origin
<1>3. f \in [1..Len(queue') -> Cells] BY <1>1
<1> QED BY <1>2, <1>3 DEF Room

\* A step that leaves the fill alone.
LEMMA CountingSame ==
  ASSUME Counting, UNCHANGED <<queue, ids, n, counted, biome, cell>>,
         pc' = "fill" => pc = "fill", pc' # "fill" => queue = << >>
  PROVE  Counting'
<1>1. Visited' = Visited /\ Old' = Old BY DEF Visited, Old
<1>2. \A b : OnStack(b)' <=> OnStack(b) BY DEF OnStack
<1>3. OnStack(cell)' <=> OnStack(cell) BY DEF OnStack
<1>4. Closed(Old)' BY <1>1 DEF Counting, Closed, Adjacent
<1>5. (\A a \in counted, b \in biome : Adjacent(a, b) => b \in counted \/ OnStack(b))'
  <2>1. \A a \in counted, b \in biome : Adjacent(a, b) => b \in counted \/ OnStack(b)
    BY DEF Counting
  <2> QED BY <2>1, <1>2 DEF Adjacent
<1> QED BY <1>1, <1>3, <1>4, <1>5 DEF Counting

\* With nothing on the stack, what the last fill has counted is closed too.
LEMMA EmptyStack ==
  ASSUME RangeAssumption, Counting, queue = << >>
  PROVE  /\ \A b : ~OnStack(b)
         /\ Closed(counted) /\ Closed(Visited \cap biome)
<1>1. \A b : ~OnStack(b)
  <2>1. Len(queue) = 0 /\ 1..0 = {} OBVIOUS
  <2> QED BY <2>1 DEF OnStack
<1>2. Closed(counted) BY <1>1 DEF Counting, Closed
<1>3. Closed(Old) /\ counted \subseteq Visited BY DEF Counting
<1>4. ASSUME NEW a \in Visited \cap biome, NEW b \in biome, Adjacent(a, b)
      PROVE  b \in Visited \cap biome
  <2>1. a \in Old \/ a \in counted BY DEF Old
  <2>2. b \in Old \/ b \in counted BY <2>1, <1>2, <1>3, <1>4 DEF Closed
  <2> QED BY <2>2, <1>3 DEF Old
<1> QED BY <1>1, <1>2, <1>4 DEF Closed

\* An empty stack takes nothing.
LEMMA EmptyRoom ==
  ASSUME RangeAssumption, queue = << >>
  PROVE  Room
<1>1. Len(queue) = 0 /\ 1..0 = {} OBVIOUS
<1>2. PICK f : f = [k \in 1..Len(queue) |-> Origin] OBVIOUS
<1>3. f \in [1..Len(queue) -> Cells] BY <1>1, <1>2
<1>4. Takes(f) BY <1>1, <1>3 DEF Takes
<1> QED BY <1>3, <1>4 DEF Room

\* The invariant at the start.
LEMMA InitHolds ==
  ASSUME RangeAssumption, Init
  PROVE  IInv
<1>1. sx \in Nat \ {0} /\ sz \in Nat \ {0} /\ minsiz \in Nat \ {0} /\ sx * sz \in Nat
  BY CellCount DEF RangeAssumption, Init
<1>2. Origin \in Cells
  <2>1. 0 \in 0..(sx - 1) /\ 0 \in 0..(sz - 1) BY <1>1
  <2> QED BY <2>1, CellIs DEF Origin
<1>3. TypeOK BY <1>1, <1>2 DEF TypeOK, Init, Origin
<1>4. Visited = {} BY DEF Visited, Init
<1>5. Counting
  <2>1. Cardinality({}) = 0 BY FS_EmptySet
  <2> QED BY <2>1, <1>4 DEF Counting, Init, Old, Closed
<1>6. Room BY EmptyRoom DEF Init
<1>7. WalksOnly /\ IslandOnly BY DEF WalksOnly, IslandOnly, Init
<1>8. Scanned
  <2>1. OnGrid(cell)
    <3>1. step \in Nat \ {0} BY <1>1, StepIs
    <3>2. 0 % step = 0 BY <3>1, SameRemainder
    <3> QED BY <3>2 DEF OnGrid, Init
  <2>2. ASSUME NEW c \in Cells PROVE ~Before(c, cell)
    <3>1. c[1] \in Nat /\ c[2] \in Nat BY <1>1, CellIs
    <3>2. cell[1] = 0 /\ cell[2] = 0 BY DEF Init
    <3> QED BY <3>1, <3>2 DEF Before
  <2> QED BY <2>1, <2>2 DEF Scanned, Init
<1>9. SmallSoFar BY <1>4 DEF SmallSoFar, Init
<1> QED BY <1>3, <1>5, <1>6, <1>7, <1>8, <1>9 DEF IInv

\* The first pass marks no cell as visited.
LEMMA FilterKeeps ==
  ASSUME RangeAssumption, IInv, Filter
  PROVE  IInv'
<1>1. TypeOK /\ Counting /\ Scanned /\ SmallSoFar BY DEF IInv
<1>2. /\ pc = "filter" /\ pc' = "scan" /\ queue = << >>
      /\ UNCHANGED <<biome, in_limits, tol, minsiz, cell, queue, n, siz, counted>>
  BY <1>1 DEF Filter, inputs, Counting
<1>3. cell = <<0, 0>> /\ \A c \in Cells : ids[c] = "unknown" BY <1>1, <1>2 DEF Scanned
<1>4. /\ ids' \in [Cells -> {"unknown", "rejected", "visited"}]
      /\ \A c \in Cells : /\ ids'[c] # "visited"
                          /\ ids'[c] = "rejected" => c \notin in_limits
  BY <1>3 DEF Filter
<1>5. Visited = {} /\ Visited' = {} BY <1>3, <1>4 DEF Visited
<1>6. TypeOK' BY <1>1, <1>2, <1>4 DEF TypeOK
<1>7. Counting'
  <2>1. counted = {} /\ n = Cardinality(counted) BY <1>1, <1>5 DEF Counting
  <2>2. Old' = {} BY <1>5 DEF Old
  <2> QED BY <2>1, <2>2, <1>2 DEF Counting, Closed
<1>8. Room'
  <2>1. Len(queue') = 0 /\ 1..0 = {} BY <1>2
  <2>2. PICK f : f = [k \in 1..0 |-> Origin] OBVIOUS
  <2>3. f \in [1..Len(queue') -> Cells] BY <2>1, <2>2
  <2>4. Takes(f)' BY <2>1, <2>3 DEF Takes
  <2> QED BY <2>3, <2>4 DEF Room
<1>9. WalksOnly' /\ IslandOnly' BY <1>2 DEF WalksOnly, IslandOnly
<1>10. Scanned'
  <2>1. OnGrid(cell)'
    <3>1. OnGrid(cell) /\ (OnGrid(<<0, 0>>)' <=> OnGrid(<<0, 0>>))
      BY <1>1, <1>2, GridSame DEF Scanned
    <3> QED BY <3>1, <1>2, <1>3
  <2>2. ASSUME NEW c \in Cells PROVE ~Before(c, cell')
    <3>1. c[1] \in Nat /\ c[2] \in Nat BY CellIs DEF RangeAssumption
    <3>2. cell'[1] = 0 /\ cell'[2] = 0 BY <1>2, <1>3
    <3> QED BY <3>1, <3>2 DEF Before
  <2>3. (\A c \in Cells : OnGrid(c) /\ Before(c, cell) => ids[c] # "unknown")'
    BY <2>2 DEF Before
  <2> QED BY <2>1, <2>3, <1>2, <1>4 DEF Scanned
<1>11. SmallSoFar' BY <1>1, <1>2, <1>5 DEF SmallSoFar
<1> QED BY <1>6, <1>7, <1>8, <1>9, <1>10, <1>11 DEF IInv

\* The scan goes on.
LEMMA AdvanceKeeps ==
  ASSUME RangeAssumption, TypeOK, Scanned, Advance, pc \in {"scan", "fill"},
         ids[cell] # "unknown", UNCHANGED <<ids, minsiz, in_limits, siz>>
  PROVE  Scanned' /\ cell' \in Cells /\ pc' \in {"scan", "end"}
<1>1. /\ OnGrid(cell) /\ \A c \in Cells : ids[c] = "rejected" => c \notin in_limits
      /\ \A c \in Cells : OnGrid(c) /\ Before(c, cell) => ids[c] # "unknown"
  BY DEF Scanned
<1>2. /\ cell' \in Cells /\ pc' \in {"scan", "end"}
      /\ \A x : x = cell' => OnGrid(x)
      /\ \A c \in Cells : OnGrid(c) /\ Before(c, cell') => ids[c] # "unknown"
      /\ pc' = "end" => \A c \in Cells : OnGrid(c) => ids[c] # "unknown"
  BY <1>1, AdvanceScan
<1>3. \A c : OnGrid(c)' <=> OnGrid(c) BY GridSame
<1>4. OnGrid(cell)'
  <2>1. PICK x : x = cell' OBVIOUS
  <2>2. OnGrid(x)' BY <2>1, <1>2, <1>3
  <2> QED BY <2>1, <2>2 DEF OnGrid
<1>5. (\A c \in Cells : OnGrid(c) /\ Before(c, cell) => ids[c] # "unknown")'
  BY <1>2, <1>3 DEF Before
<1>6. (pc = "end" /\ siz = 0 => \A c \in Cells : OnGrid(c) => ids[c] # "unknown")'
  BY <1>2, <1>3
<1> QED BY <1>1, <1>2, <1>4, <1>5, <1>6 DEF Scanned

\* A candidate is passed over.
LEMMA SkipKeeps ==
  ASSUME RangeAssumption, IInv, Skip
  PROVE  IInv'
<1>1. TypeOK /\ Counting /\ Room /\ Scanned /\ SmallSoFar BY DEF IInv
<1>2. /\ pc = "scan" /\ ids[cell] # "unknown" /\ Advance /\ queue = << >>
      /\ UNCHANGED <<biome, in_limits, tol, minsiz, ids, queue, n, siz, counted>>
  BY <1>1 DEF Skip, inputs, Counting
<1>3. Scanned' /\ cell' \in Cells /\ pc' \in {"scan", "end"} BY <1>1, <1>2, AdvanceKeeps
<1>4. TypeOK' BY <1>1, <1>2, <1>3 DEF TypeOK
<1>5. Counting'
  <2>1. Visited' = Visited /\ Old' = Old BY <1>2 DEF Visited, Old
  <2>2. Closed(Old)' BY <2>1, <1>1, <1>2 DEF Counting, Closed
  <2>3. (\A a \in counted, b \in biome : Adjacent(a, b) => b \in counted \/ OnStack(b))'
    <3>1. \A a \in counted, b \in biome : Adjacent(a, b) => b \in counted
      BY <1>1, <1>2, EmptyStack DEF Counting
    <3> QED BY <3>1, <1>2
  <2> QED BY <2>1, <2>2, <2>3, <1>1, <1>2, <1>3 DEF Counting
<1>6. Room' BY <1>1, <1>2, RoomSame
<1>7. WalksOnly' /\ IslandOnly' BY <1>3 DEF WalksOnly, IslandOnly
<1>8. SmallSoFar'
  <2>1. siz = 0 BY <1>1, <1>2 DEF SmallSoFar
  <2>2. ASSUME NEW c \in Visited' \cap biome' PROVE Cardinality(Island(c))' < minsiz
    <3>1. c \in Visited \cap biome BY <1>2 DEF Visited
    <3>2. Cardinality(Island(c)) < minsiz BY <3>1, <2>1, <1>1, <1>2 DEF SmallSoFar
    <3> QED BY <3>2, <1>2, IslandSame
  <2> QED BY <2>1, <2>2, <1>2 DEF SmallSoFar
<1> QED BY <1>3, <1>4, <1>5, <1>6, <1>7, <1>8 DEF IInv

\* A new fill: what the last one counted is now old.
LEMMA StartFillKeeps ==
  ASSUME RangeAssumption, IInv, StartFill
  PROVE  IInv'
<1>1. TypeOK /\ Counting /\ Room /\ Scanned /\ SmallSoFar BY DEF IInv
<1>2. /\ pc = "scan" /\ pc' = "fill" /\ ids[cell] = "unknown" /\ queue = << >>
      /\ queue' = <<[c |-> cell, d |-> 0]>> /\ n' = 0 /\ counted' = {} /\ cell \in Cells
      /\ UNCHANGED <<biome, in_limits, tol, minsiz, ids, cell, siz>>
  BY <1>1 DEF StartFill, inputs, Counting, TypeOK
<1>3. /\ Len(queue') = 1 /\ 1..1 = {1} /\ queue'[1] = [c |-> cell, d |-> 0]
      /\ queue'[1].c = cell /\ queue'[1].d = 0
  BY <1>2
<1>4. tol \in Nat \ {0} /\ tol' = tol BY <1>1, <1>2 DEF TypeOK, RangeAssumption
<1>5. TypeOK'
  <2>1. queue' \in Seq([c : Cells, d : 0..tol])
    <3>1. [c |-> cell, d |-> 0] \in [c : Cells, d : 0..tol] BY <1>2, <1>4
    <3> QED BY <3>1, <1>2
  <2>2. 0 \in 0..(sx * sz) BY CellCount
  <2> QED BY <2>1, <2>2, <1>1, <1>2 DEF TypeOK
<1>6. Counting'
  <2>1. Visited' = Visited /\ Old' = Visited \cap biome BY <1>2 DEF Visited, Old
  <2>2. Closed(Old)'
    <3>1. Closed(Visited \cap biome) BY <1>1, <1>2, EmptyStack
    <3> QED BY <3>1, <2>1, <1>2 DEF Closed
  <2>3. Cardinality({}) = 0 BY FS_EmptySet
  <2>4. OnStack(cell)'
    <3>1. 1 \in 1..Len(queue') /\ queue'[1].c = cell' BY <1>2, <1>3
    <3> QED BY <3>1 DEF OnStack
  <2> QED BY <2>2, <2>3, <2>4, <1>2 DEF Counting
<1>7. Room'
  <2>1. PICK f : f = [k \in 1..1 |-> Origin] OBVIOUS
  <2>2. Origin \in Cells /\ Origin # Extra BY <1>2, WhereCells DEF Origin, Extra
  <2>3. f \in [1..Len(queue') -> Cells] BY <2>1, <2>2, <1>3
  <2>4. \A k \in 1..Len(queue') : k = 1 /\ f[k] = Origin BY <2>1, <1>3
  <2>5. Takes(f)' BY <2>2, <2>3, <2>4 DEF Takes, Origin, Extra
  <2> QED BY <2>3, <2>5 DEF Room
<1>8. Marked' = Marked /\ Marked \in 0..(sx * sz)
  <2>1. Visited' = Visited BY <1>2 DEF Visited
  <2> QED BY <2>1, MarkedRange DEF Marked
<1>9. WalksOnly'
  <2> SUFFICES ASSUME NEW W, IsWalks(W, cell)'
               PROVE  \A k \in 1..Len(queue') :
                        <<queue'[k].c, Distance(queue[k].c, queue[k].d)'>> \in W[Marked']
    BY <1>2 DEF WalksOnly
  <2>1. IsWalks(W, cell)
    <3>1. IsWalksIn(W, cell', biome', tol') BY DEF IsWalks, IsWalksIn, WalkStates, Distance
    <3>2. IsWalksIn(W, cell, biome, tol) BY <3>1, <1>2
    <3> QED BY <3>2 DEF IsWalks, IsWalksIn, WalkStates, Distance
  <2>2. <<cell, Distance(cell, 0)>> \in W[Marked] BY <2>1, <1>8, WalksGrow
  <2>3. Distance(queue[1].c, queue[1].d)' = Distance(cell, 0) BY <1>2, <1>3 DEF Distance
  <2> QED BY <2>2, <2>3, <1>3, <1>8
<1>10. IslandOnly'
  <2>1. ASSUME NEW W, IsIsland(W, cell)' PROVE cell \in W[Marked']
    <3>1. IsIsland(W, cell) BY <2>1, <1>2 DEF IsIsland
    <3> QED BY <3>1, <1>8, IslandGrows
  <2>2. \A k \in 1..Len(queue') : queue'[k].c = cell BY <1>3
  <2> QED BY <2>1, <2>2, <1>2 DEF IslandOnly
<1>11. Scanned'
  <2>1. \A c : OnGrid(c)' <=> OnGrid(c) BY <1>2, GridSame
  <2>2. OnGrid(cell)'
    <3>1. PICK x : x = cell' OBVIOUS
    <3>2. OnGrid(x)' BY <3>1, <2>1, <1>1, <1>2 DEF Scanned
    <3> QED BY <3>1, <3>2 DEF OnGrid
  <2>3. (\A c \in Cells : OnGrid(c) /\ Before(c, cell) => ids[c] # "unknown")'
    BY <2>1, <1>1, <1>2 DEF Scanned, Before
  <2> QED BY <2>2, <2>3, <1>1, <1>2 DEF Scanned
<1>12. SmallSoFar'
  <2>1. siz = 0 BY <1>1, <1>2 DEF SmallSoFar
  <2>2. ASSUME NEW c \in Visited' \cap biome' PROVE Cardinality(Island(c))' < minsiz
    <3>1. c \in Visited \cap biome BY <1>2 DEF Visited
    <3>2. Cardinality(Island(c)) < minsiz BY <3>1, <2>1, <1>1, <1>2 DEF SmallSoFar
    <3> QED BY <3>2, <1>2, IslandSame
  <2> QED BY <2>1, <2>2, <1>2 DEF SmallSoFar
<1> QED BY <1>5, <1>6, <1>7, <1>9, <1>10, <1>11, <1>12 DEF IInv

\* What a fill has counted holds the island of each of its cells.
LEMMA WholeIslands ==
  ASSUME RangeAssumption, TypeOK, Counting, queue = << >>, NEW c \in counted
  PROVE  Island(c) \subseteq counted /\ Cardinality(Island(c)) <= n
<1>1. biome \subseteq Cells /\ c \in Cells /\ counted \subseteq Cells /\ n = Cardinality(counted)
  BY DEF TypeOK, Counting
<1>2. Closed(counted) BY EmptyStack
<1>3. Island(c) \subseteq counted BY <1>1, <1>2, IslandWithin
<1>4. IsFiniteSet(counted) BY <1>1, CellCount, FS_Subset
<1>5. Cardinality(Island(c)) <= Cardinality(counted) BY <1>3, <1>4, FS_Subset
<1> QED BY <1>1, <1>3, <1>5

\* The end of a fill: its islands are too small, or the search ends.
LEMMA EndFillKeeps ==
  ASSUME RangeAssumption, IInv, EndFill
  PROVE  IInv'
<1>1. TypeOK /\ Counting /\ Room /\ Scanned /\ SmallSoFar BY DEF IInv
<1>2. /\ pc = "fill" /\ queue = << >> /\ cell \in Cells
      /\ UNCHANGED <<biome, in_limits, tol, minsiz, ids, queue, n, counted>>
  BY <1>1 DEF EndFill, inputs, TypeOK
<1>3. /\ minsiz \in Nat \ {0} /\ n \in 0..(sx * sz) /\ n \in Nat /\ sx * sz \in Nat
  BY <1>1, CellCount DEF TypeOK, RangeAssumption
<1>4. ids[cell] = "visited" BY <1>1, <1>2, EmptyStack DEF Counting
<1>5. siz = 0 BY <1>1, <1>2 DEF SmallSoFar
<1>6. \/ n >= minsiz /\ siz' = n /\ pc' = "end" /\ cell' = cell
      \/ ~(n >= minsiz) /\ siz' = siz /\ Advance
  BY DEF EndFill
<1>7. Scanned' /\ cell' \in Cells /\ pc' \in {"scan", "end"} /\ siz' \in 0..(sx * sz)
  <2>1. CASE n >= minsiz /\ siz' = n /\ pc' = "end" /\ cell' = cell
    <3>1. \A c : OnGrid(c)' <=> OnGrid(c) BY <1>2, GridSame
    <3>2. OnGrid(cell)'
      <4>1. PICK x : x = cell' OBVIOUS
      <4>2. OnGrid(x)' BY <4>1, <3>1, <2>1, <1>1 DEF Scanned
      <4> QED BY <4>1, <4>2 DEF OnGrid
    <3>3. (\A c \in Cells : OnGrid(c) /\ Before(c, cell) => ids[c] # "unknown")'
      BY <3>1, <2>1, <1>1, <1>2 DEF Scanned, Before
    <3>4. siz' # 0 BY <2>1, <1>3
    <3> QED BY <3>2, <3>3, <3>4, <2>1, <1>1, <1>2, <1>3 DEF Scanned
  <2>2. CASE ~(n >= minsiz) /\ siz' = siz /\ Advance
    BY <2>2, <1>1, <1>2, <1>3, <1>4, <1>5, AdvanceKeeps
  <2> QED BY <2>1, <2>2, <1>6
<1>8. TypeOK' BY <1>1, <1>2, <1>7 DEF TypeOK
<1>9. Counting'
  <2>1. Visited' = Visited /\ Old' = Old BY <1>2 DEF Visited, Old
  <2>2. Closed(Old)' BY <2>1, <1>1, <1>2 DEF Counting, Closed
  <2>3. (\A a \in counted, b \in biome : Adjacent(a, b) => b \in counted \/ OnStack(b))'
    <3>1. \A a \in counted, b \in biome : Adjacent(a, b) => b \in counted
      BY <1>1, <1>2, EmptyStack DEF Counting
    <3> QED BY <3>1, <1>2
  <2> QED BY <2>1, <2>2, <2>3, <1>1, <1>2, <1>7 DEF Counting
<1>10. Room' BY <1>1, <1>2, RoomSame
<1>11. WalksOnly' /\ IslandOnly' BY <1>7 DEF WalksOnly, IslandOnly
<1>12. SmallSoFar'
  <2>1. CASE n >= minsiz /\ siz' = n /\ pc' = "end"
    <3>1. siz' # 0 BY <2>1, <1>3
    <3> QED BY <2>1, <3>1 DEF SmallSoFar
  <2>2. CASE ~(n >= minsiz) /\ siz' = siz
    <3>1. ASSUME NEW c \in Visited' \cap biome' PROVE Cardinality(Island(c))' < minsiz
      <4>1. c \in Visited \cap biome BY <1>2 DEF Visited
      <4>2. CASE c \notin counted
        <5>1. Cardinality(Island(c)) < minsiz BY <4>1, <4>2, <1>1, <1>2, <1>5 DEF SmallSoFar
        <5> QED BY <5>1, <1>2, IslandSame
      <4>3. CASE c \in counted
        <5>1. Island(c) \subseteq counted /\ Cardinality(Island(c)) <= n
          BY <4>3, <1>1, <1>2, WholeIslands
        <5>2. Cardinality(Island(c)) \in Nat
          <6>1. IsFiniteSet(counted)
            <7>1. counted \subseteq Cells BY <1>1 DEF TypeOK
            <7> QED BY <7>1, CellCount, FS_Subset
          <6> QED BY <5>1, <6>1, FS_Subset, FS_CardinalityType
        <5>3. Cardinality(Island(c)) < minsiz BY <5>1, <5>2, <2>2, <1>3
        <5> QED BY <5>3, <1>2, IslandSame
      <4> QED BY <4>2, <4>3
    <3> QED BY <3>1, <2>2, <1>2, <1>5 DEF SmallSoFar
  <2> QED BY <2>1, <2>2, <1>6
<1> QED BY <1>7, <1>8, <1>9, <1>10, <1>11, <1>12 DEF IInv

\* Nothing happens.
LEMMA StutterKeeps ==
  ASSUME RangeAssumption, IInv, UNCHANGED vars
  PROVE  IInv'
<1>1. TypeOK /\ Counting /\ Room /\ WalksOnly /\ IslandOnly /\ Scanned /\ SmallSoFar
  BY DEF IInv
<1>2. UNCHANGED <<biome, in_limits, tol, minsiz, ids, pc, cell, queue, n, siz, counted>>
  BY DEF vars, inputs
<1>3. TypeOK' BY <1>1, <1>2 DEF TypeOK
<1>4. Counting'
  <2>1. pc' # "fill" => queue = << >> BY <1>1, <1>2 DEF Counting
  <2> QED BY <2>1, <1>1, <1>2, CountingSame
<1>5. Room' BY <1>1, <1>2, RoomSame
<1>6. Marked' = Marked BY <1>2 DEF Marked, Visited
<1>7. WalksOnly'
  <2> SUFFICES ASSUME pc = "fill", NEW W, IsWalks(W, cell)'
               PROVE  /\ \A k \in 1..Len(queue') :
                           <<queue'[k].c, Distance(queue[k].c, queue[k].d)'>> \in W[Marked']
                      /\ \A c \in counted' : \E d \in 0..tol : <<c, d>> \in W[Marked']
    BY <1>2 DEF WalksOnly
  <2>1. IsWalks(W, cell)
    <3>1. IsWalksIn(W, cell', biome', tol') BY DEF IsWalks, IsWalksIn, WalkStates, Distance
    <3>2. IsWalksIn(W, cell, biome, tol) BY <3>1, <1>2
    <3> QED BY <3>2 DEF IsWalks, IsWalksIn, WalkStates, Distance
  <2>2. \A k : Distance(queue[k].c, queue[k].d)' = Distance(queue[k].c, queue[k].d)
    BY <1>2 DEF Distance
  <2> QED BY <2>1, <2>2, <1>1, <1>2, <1>6 DEF WalksOnly
<1>8. IslandOnly'
  <2>1. \A W : IsIsland(W, cell)' <=> IsIsland(W, cell) BY <1>2 DEF IsIsland
  <2> QED BY <2>1, <1>1, <1>2, <1>6 DEF IslandOnly
<1>9. Scanned'
  <2>1. \A c : OnGrid(c)' <=> OnGrid(c) BY <1>2, GridSame
  <2>2. OnGrid(cell)'
    <3>1. PICK x : x = cell' OBVIOUS
    <3>2. OnGrid(x)' BY <3>1, <2>1, <1>1, <1>2 DEF Scanned
    <3> QED BY <3>1, <3>2 DEF OnGrid
  <2>3. (\A c \in Cells : OnGrid(c) /\ Before(c, cell) => ids[c] # "unknown")'
    BY <2>1, <1>1, <1>2 DEF Scanned, Before
  <2>4. (pc = "end" /\ siz = 0 => \A c \in Cells : OnGrid(c) => ids[c] # "unknown")'
    BY <2>1, <1>1, <1>2 DEF Scanned
  <2> QED BY <2>2, <2>3, <2>4, <1>1, <1>2 DEF Scanned
<1>10. SmallSoFar'
  <2>1. \A c : Island(c)' = Island(c) BY <1>2, IslandSame
  <2> QED BY <2>1, <1>1, <1>2 DEF SmallSoFar, Visited
<1> QED BY <1>3, <1>4, <1>5, <1>7, <1>8, <1>9, <1>10 DEF IInv

-----------------------------------------------------------------------------
(***************************************************************************)
(* The theorems.                                                           *)
(***************************************************************************)
\* The invariant holds throughout the search.
THEOREM SearchInvariant ==
  RangeAssumption => (Spec => []IInv)
<1> SUFFICES ASSUME RangeAssumption PROVE Spec => []IInv
  OBVIOUS
<1>1. Init => IInv BY InitHolds
<1>2. IInv /\ [Next]_vars => IInv'
  <2> SUFFICES ASSUME IInv, [Next]_vars PROVE IInv'
    OBVIOUS
  <2>1. CASE Filter BY <2>1, FilterKeeps
  <2>2. CASE Skip BY <2>2, SkipKeeps
  <2>3. CASE StartFill BY <2>3, StartFillKeeps
  <2>4. CASE Fill BY <2>4, FillKeeps
  <2>5. CASE EndFill BY <2>5, EndFillKeeps
  <2>6. CASE UNCHANGED vars BY <2>6, StutterKeeps
  <2> QED BY <2>1, <2>2, <2>3, <2>4, <2>5, <2>6 DEF Next, Done
<1> QED BY <1>1, <1>2, PTL DEF Spec

\* The types of IslandSearch; a fill counts no more than sx * sz cells.
THEOREM SearchTypes ==
  RangeAssumption => (Spec => []TypeOK)
<1> SUFFICES ASSUME RangeAssumption PROVE Spec => []TypeOK
  OBVIOUS
<1>1. IInv => TypeOK BY DEF IInv
<1>2. Spec => []IInv BY SearchInvariant
<1> QED BY <1>1, <1>2, PTL

\* As no cell is taken twice, there are no more entries than cells.
LEMMA RoomFits ==
  ASSUME RangeAssumption, TypeOK, Room
  PROVE  StackFits
<1>1. PICK f : Takes(f) BY DEF Room
<1>2. PICK N \in Nat : N = Len(queue) BY DEF TypeOK
<1>3. f \in [1..N -> Cells] /\ \A j, k \in 1..N : j # k => f[j] # f[k] BY <1>1, <1>2 DEF Takes
<1>4. PICK S : S = 1..N OBVIOUS
<1>5. f \in Injection(S, Cells) BY <1>3, <1>4 DEF Injection, IsInjective
<1>6. Cardinality(S) <= Cardinality(Cells) BY <1>5, CellCount, FS_Injection
<1>7. Cardinality(S) = N
  <2>1. Cardinality(1..N) = IF 1 > N THEN 0 ELSE N - 1 + 1 BY FS_Interval
  <2> QED BY <2>1, <1>2, <1>4
<1> QED BY <1>2, <1>6, <1>7, CellCount DEF StackFits

\* floodFillGen never writes past the sx * sz entries that
\* getBiomeCentersOpt allocates for its stack.
THEOREM StackAlwaysFits ==
  RangeAssumption => (Spec => []StackFits)
<1> SUFFICES ASSUME RangeAssumption PROVE Spec => []StackFits
  OBVIOUS
<1>1. IInv => StackFits BY RoomFits DEF IInv
<1>2. Spec => []IInv BY SearchInvariant
<1> QED BY <1>1, <1>2, PTL

\* No fill leaves part of an island for a later one.
THEOREM IslandsStayWhole ==
  RangeAssumption => (Spec => []IslandsWhole)
<1> SUFFICES ASSUME RangeAssumption PROVE Spec => []IslandsWhole
  OBVIOUS
<1>1. IInv => IslandsWhole
  <2> SUFFICES ASSUME IInv, pc # "fill" \/ queue = << >>,
                      NEW c \in biome, ids[c] = "visited", NEW b \in Island(c)
               PROVE  ids[b] = "visited"
    BY DEF IslandsWhole
  <2>1. TypeOK /\ Counting BY DEF IInv
  <2>2. queue = << >> BY <2>1 DEF Counting
  <2>3. biome \subseteq Cells BY <2>1 DEF TypeOK
  <2>4. PICK D : D = Visited \cap biome OBVIOUS
  <2>5. Closed(D) BY <2>1, <2>2, <2>4, EmptyStack
  <2>6. c \in D /\ c \in Cells BY <2>3, <2>4 DEF Visited
  <2>7. Island(c) \subseteq D BY <2>3, <2>5, <2>6, IslandWithin
  <2> QED BY <2>4, <2>7 DEF Visited
<1>2. Spec => []IInv BY SearchInvariant
<1> QED BY <1>1, <1>2, PTL

\* What the invariant says of a fill that is over, ...
LEMMA AreaHolds ==
  ASSUME RangeAssumption, IInv
  PROVE  AreaOfIslands
<1> SUFFICES ASSUME pc = "fill", queue = << >>
             PROVE  /\ n = Cardinality(counted)
                    /\ \A c \in counted : Island(c) \subseteq counted
                    /\ counted \subseteq Reachable(cell)
                    /\ tol = 1 => counted = IF cell \in biome THEN Island(cell) ELSE {}
  BY DEF AreaOfIslands
<1> DEFINE N == sx * sz
<1>1. TypeOK /\ Counting /\ WalksOnly /\ IslandOnly BY DEF IInv
<1>2. /\ cell \in Cells /\ biome \subseteq Cells /\ tol \in Nat \ {0}
      /\ n = Cardinality(counted) /\ N \in Nat
  BY <1>1, CellCount DEF TypeOK, Counting, RangeAssumption
<1>3. Marked \in 0..N BY MarkedRange
<1>4. \A c \in counted : Island(c) \subseteq counted BY <1>1, WholeIslands
<1>5. ASSUME NEW c \in counted PROVE c \in Reachable(cell)
  <2>1. PICK W : IsWalks(W, cell) /\ Walks(cell) = W[N] BY <1>2, WalksIs
  <2>2. PICK d \in 0..tol : <<c, d>> \in W[Marked] BY <2>1, <1>1 DEF WalksOnly
  <2>3. PICK e : e = <<c, d>> OBVIOUS
  <2>4. e \in Walks(cell) /\ e[1] = c BY <2>1, <2>2, <2>3, <1>3, WalksGrow
  <2> QED BY <2>4 DEF Reachable
<1>6. ASSUME tol = 1, cell \in biome PROVE counted = Island(cell)
  <2>1. PICK W : IsIsland(W, cell) /\ Island(cell) = W[N] BY <1>2, IslandIs
  <2>2. counted \subseteq W[Marked] BY <2>1, <1>1, <1>6 DEF IslandOnly
  <2>3. W[Marked] \subseteq W[N] BY <2>1, <1>3, IslandGrows
  <2>4. cell \in counted BY <1>1, <1>6, EmptyStack DEF Counting
  <2> QED BY <2>1, <2>2, <2>3, <2>4, <1>4
<1>7. ASSUME tol = 1, cell \notin biome PROVE counted = {} BY <1>1, <1>7 DEF IslandOnly
<1> QED BY <1>2, <1>4, <1>5, <1>6, <1>7

\* The area a fill returns is that of the islands it touches, each cell
\* counted once, and nothing is counted that the tolerance does not allow.
THEOREM AreaIsIslands ==
  RangeAssumption => (Spec => []AreaOfIslands)
<1> SUFFICES ASSUME RangeAssumption PROVE Spec => []AreaOfIslands
  OBVIOUS
<1>1. IInv => AreaOfIslands BY AreaHolds
<1>2. Spec => []IInv BY SearchInvariant
<1> QED BY <1>1, <1>2, PTL

\* Among st numbers in a row there is a multiple of st.
LEMMA GridPoint ==
  ASSUME NEW st \in Nat \ {0}, NEW p \in Nat
  PROVE  \E x \in p..(p + st - 1) : x % st = 0
<1>1. p % st \in 0..(st - 1) BY SameRemainder
<1>2. CASE p % st = 0
  <2>1. p \in p..(p + st - 1) OBVIOUS
  <2> QED BY <2>1, <1>2
<1>3. CASE p % st # 0
  <2>1. PICK r \in 1..(st - 1), d \in Nat : r = p % st /\ d = p \div st /\ p = st * d + r
    BY <1>1, <1>3
  <2>2. PICK x : x = (d + 1) * st + 0 OBVIOUS
  <2>3. 0 \in 0..(st - 1) /\ d + 1 \in Nat OBVIOUS
  <2>4. x % st = 0 BY <2>2, <2>3, Division
  <2>5. PICK m \in Nat : m = st * d OBVIOUS
  <2>6. x = m + st BY <2>2, <2>5
  <2>7. x \in p..(p + st - 1) BY <2>1, <2>5, <2>6
  <2> QED BY <2>4, <2>7
<1> QED BY <1>2, <1>3

\* A square with as many cells as it should have is within the range.
LEMMA WholeSquare ==
  ASSUME RangeAssumption, NEW p \in Nat, NEW q \in Nat, NEW k \in Nat \ {0},
         NEW S, S \subseteq Cells, Cardinality(S) = k * k,
         \A b \in S : b[1] - p \in 0..(k - 1) /\ b[2] - q \in 0..(k - 1)
  PROVE  p + k <= sx /\ q + k <= sz
<1>1. sx \in Nat \ {0} /\ sz \in Nat \ {0} BY DEF RangeAssumption
<1>2. ASSUME NEW A, NEW B, IsFiniteSet(A), IsFiniteSet(B), S \subseteq A \X B
      PROVE  k * k <= Cardinality(A) * Cardinality(B)
  <2>1. IsFiniteSet(A \X B) /\ Cardinality(A \X B) = Cardinality(A) * Cardinality(B)
    BY <1>2, FS_Product
  <2>2. Cardinality(S) <= Cardinality(A \X B) BY <2>1, <1>2, FS_Subset
  <2> QED BY <2>1, <2>2
<1>3. ASSUME NEW b \in S
      PROVE  /\ b = <<b[1], b[2]>> /\ b[1] \in p..(p + k - 1) /\ b[2] \in q..(q + k - 1)
             /\ b[1] < sx /\ b[2] < sz /\ b[1] \in Int /\ b[2] \in Int
  <2>1. b = <<b[1], b[2]>> /\ b[1] \in 0..(sx - 1) /\ b[2] \in 0..(sz - 1) BY CellIs
  <2>2. b[1] - p \in 0..(k - 1) /\ b[2] - q \in 0..(k - 1) OBVIOUS
  <2>3. PICK x \in Int, y \in Int : x = b[1] /\ y = b[2] BY <2>1, <1>1
  <2> QED BY <2>1, <2>2, <2>3, <1>1
<1>4. /\ IsFiniteSet(p..(p + k - 1)) /\ Cardinality(p..(p + k - 1)) = k
      /\ IsFiniteSet(q..(q + k - 1)) /\ Cardinality(q..(q + k - 1)) = k
      /\ IsFiniteSet(p..(p + k - 2)) /\ Cardinality(p..(p + k - 2)) = k - 1
      /\ IsFiniteSet(q..(q + k - 2)) /\ Cardinality(q..(q + k - 2)) = k - 1
  <2>1. ASSUME NEW m \in Nat
        PROVE  /\ IsFiniteSet(m..(m + k - 1)) /\ Cardinality(m..(m + k - 1)) = k
               /\ IsFiniteSet(m..(m + k - 2)) /\ Cardinality(m..(m + k - 2)) = k - 1
    <3>1. PICK u \in Int, v \in Int : u = m + k - 1 /\ v = m + k - 2 OBVIOUS
    <3>2. m \in Int OBVIOUS
    <3>3. IsFiniteSet(m..u) /\ Cardinality(m..u) = IF m > u THEN 0 ELSE u - m + 1
      BY <3>2, FS_Interval
    <3>4. IsFiniteSet(m..v) /\ Cardinality(m..v) = IF m > v THEN 0 ELSE v - m + 1
      BY <3>2, FS_Interval
    <3>5. (IF m > u THEN 0 ELSE u - m + 1) = k /\ (IF m > v THEN 0 ELSE v - m + 1) = k - 1
      BY <3>1
    <3> QED BY <3>1, <3>3, <3>4, <3>5
  <2> QED BY <2>1
<1>5. ~(k * k <= (k - 1) * k) /\ ~(k * k <= k * (k - 1))
  <2>1. PICK m \in Nat : m = k * k OBVIOUS
  <2>2. (k - 1) * k = m - k /\ k * (k - 1) = m - k BY <2>1
  <2> QED BY <2>1, <2>2
<1>6. p + k <= sx
  <2> SUFFICES ASSUME ~(p + k <= sx) PROVE FALSE
    OBVIOUS
  <2>1. S \subseteq (p..(p + k - 2)) \X (q..(q + k - 1))
    <3>1. ASSUME NEW b \in S PROVE b[1] \in p..(p + k - 2) BY <1>1, <1>3
    <3> QED BY <3>1, <1>3
  <2>2. PICK A, B : A = p..(p + k - 2) /\ B = q..(q + k - 1) OBVIOUS
  <2>3. k * k <= Cardinality(A) * Cardinality(B) BY <2>1, <2>2, <1>2, <1>4
  <2> QED BY <2>2, <2>3, <1>4, <1>5
<1>7. q + k <= sz
  <2> SUFFICES ASSUME ~(q + k <= sz) PROVE FALSE
    OBVIOUS
  <2>1. S \subseteq (p..(p + k - 1)) \X (q..(q + k - 2))
    <3>1. ASSUME NEW b \in S PROVE b[2] \in q..(q + k - 2) BY <1>1, <1>3
    <3> QED BY <3>1, <1>3
  <2>2. PICK A, B : A = p..(p + k - 1) /\ B = q..(q + k - 2) OBVIOUS
  <2>3. k * k <= Cardinality(A) * Cardinality(B) BY <2>1, <2>2, <1>2, <1>4
  <2> QED BY <2>2, <2>3, <1>4, <1>5
<1> QED BY <1>6, <1>7

\* ... and of a search that has found nothing.
LEMMA NothingMissed ==
  ASSUME RangeAssumption, IInv
  PROVE  NoLargeIslandMissed
<1> SUFFICES ASSUME pc = "end", siz = 0, NEW c \in biome, NEW k \in 1..sx, 4 * k * k > minsiz,
                    NEW S, S = {b \in Cells : b[1] - c[1] \in 0..(k - 1) /\ b[2] - c[2] \in 0..(k - 1)},
                    Cardinality(S) = k * k, S \subseteq Island(c) \cap in_limits,
                    Cardinality(Island(c)) >= minsiz
             PROVE  FALSE
  BY DEF NoLargeIslandMissed
<1>1. TypeOK /\ Counting /\ Scanned /\ SmallSoFar BY DEF IInv
<1>2. /\ sx \in Nat \ {0} /\ sz \in Nat \ {0} /\ minsiz \in Nat \ {0} /\ biome \subseteq Cells
      /\ c \in Cells /\ k \in Nat \ {0} /\ queue = << >>
  BY <1>1 DEF RangeAssumption, TypeOK, Counting
<1>3. PICK p \in Nat, q \in Nat : c[1] = p /\ c[2] = q BY <1>2, CellIs
<1>4. step \in Nat \ {0} /\ step <= k BY <1>2, StepIs
<1>5. p + k <= sx /\ q + k <= sz
  <2>1. S \subseteq Cells /\ \A b \in S : b[1] - p \in 0..(k - 1) /\ b[2] - q \in 0..(k - 1)
    BY <1>3
  <2> QED BY <2>1, <1>2, WholeSquare
<1>6. PICK x \in p..(p + step - 1) : x % step = 0 BY <1>4, GridPoint
<1>7. PICK y \in q..(q + step - 1) : y % step = 0 BY <1>4, GridPoint
<1>8. PICK b : b = <<x, y>> OBVIOUS
<1>9. b \in S /\ OnGrid(b)
  <2>1. /\ x \in 0..(sx - 1) /\ y \in 0..(sz - 1)
        /\ x - p \in 0..(k - 1) /\ y - q \in 0..(k - 1)
    BY <1>2, <1>4, <1>5
  <2>2. b \in Cells BY <2>1, <1>8, CellIs
  <2>3. b[1] = x /\ b[2] = y BY <1>8
  <2> QED BY <2>1, <2>2, <2>3, <1>3, <1>6, <1>7 DEF OnGrid
<1>10. b \in Visited
  <2>1. b \in Cells /\ b \in in_limits BY <1>9
  <2>2. ids[b] # "unknown" /\ ids[b] # "rejected" BY <2>1, <1>1, <1>9 DEF Scanned
  <2> QED BY <2>1, <2>2, <1>1 DEF Visited, TypeOK
<1>11. c \in Visited
  <2> SUFFICES ASSUME c \notin Visited PROVE FALSE
    OBVIOUS
  <2>1. PICK D : D = biome \ Visited OBVIOUS
  <2>2. Closed(D)
    <3>1. ASSUME NEW a \in D, NEW e \in biome, Adjacent(a, e) PROVE e \in D
      <4>1. a \in Cells /\ e \in Cells /\ a \in biome BY <2>1, <1>2
      <4>2. Adjacent(e, a) BY <3>1, <4>1, FourNeighbours
      <4>3. Closed(Visited \cap biome) BY <1>1, <1>2, EmptyStack
      <4> QED BY <4>1, <4>2, <4>3, <2>1 DEF Closed
    <3> QED BY <3>1 DEF Closed
  <2>3. c \in D BY <2>1
  <2>4. Island(c) \subseteq D BY <2>2, <2>3, <1>2, IslandWithin
  <2> QED BY <2>1, <2>4, <1>9, <1>10
<1>12. Cardinality(Island(c)) < minsiz BY <1>1, <1>11 DEF SmallSoFar
<1>13. Cardinality(Island(c)) \in Nat
  <2>1. PICK D : D = Cells OBVIOUS
  <2>2. Closed(D) BY <2>1, <1>2 DEF Closed
  <2>3. Island(c) \subseteq Cells BY <2>1, <2>2, <1>2, IslandWithin
  <2> QED BY <2>3, CellCount, FS_Subset, FS_CardinalityType
<1> QED BY <1>2, <1>12, <1>13

\* When the search ends without a result, every island of minsiz cells lacks
\* a square of more than half the root of minsiz within the climate limits:
\* the coarse grid and the marks of earlier fills hide no compact island.
THEOREM NoCompactIslandMissed ==
  RangeAssumption => (Spec => []NoLargeIslandMissed)
<1> SUFFICES ASSUME RangeAssumption PROVE Spec => []NoLargeIslandMissed
  OBVIOUS
<1>1. IInv => NoLargeIslandMissed BY NothingMissed
<1>2. Spec => []IInv BY SearchInvariant
<1> QED BY <1>1, <1>2, PTL

-----------------------------------------------------------------------------
(***************************************************************************)
(* The tests of a candidate (BiomeTest), which use the search: for ranges  *)
(* of any side, any size wanted and candidates anywhere, the ranges have   *)
(* the candidate in the middle, and the verdict of the sampling and the    *)
(* score of a result are sound.                                            *)
(***************************************************************************)
CONSTANTS range, Word, Z2, wn, Positions
VARIABLES min_size, input, ocean, m, x, score

Test == INSTANCE BiomeTest

\* The blocks of the range fit an int, as they do without large biomes ...
BlocksFit == Word \in Nat /\ range * range < Word \div 2

\* ... and the corners of the ranges do, with or without.
CornersFit ==
  /\ Word \in Nat
  /\ \A p \in Positions : -(Word \div 2) <= p - range \div 2 /\ p - range \div 2 < Word \div 2

\* A number that fits stays what it is.
LEMMA WrapFits ==
  ASSUME NEW v \in Int, Word \in Nat, -(Word \div 2) <= v, v < Word \div 2
  PROVE  Test!Wrap(v) = v
<1>1. PICK h \in Int : h = Word \div 2 /\ 2 * h <= Word /\ 0 <= h
  OBVIOUS
<1>2. PICK z \in Nat : z = v + h /\ z < Word BY <1>1
<1>3. Word \in Nat \ {0} /\ z \in 0..(Word - 1) BY <1>2
<1>4. z = 0 * Word + z BY <1>2
<1>5. z % Word = z BY <1>3, <1>4, Division
<1> QED BY <1>1, <1>2, <1>5 DEF Test!Wrap

\* The sides of the ranges.
LEMMA Sides ==
  ASSUME Test!TestAssumption
  PROVE  \E k \in Nat \ {0} :
           /\ range = 16 * k /\ range \div 2 = 8 * k /\ Test!Side(4) = 4 * k /\ Test!Side(16) = k
           /\ range * range \in Nat \ {0}
           /\ Test!Side(4) * Test!Side(4) * 4 * 4 = range * range
           /\ Test!cells \in Nat \ {0} /\ Test!cells * 16 = range * range
<1>1. range \in Nat /\ range % 16 = 0 /\ range > 0 BY DEF Test!TestAssumption
<1>2. PICK k \in Nat \ {0} : range = 16 * k
  <2>1. range \div 16 \in Nat \ {0} /\ range = 16 * (range \div 16) BY <1>1
  <2> QED BY <2>1
<1>3. range \div 2 = 8 * k /\ Test!Side(4) = 4 * k /\ Test!Side(16) = k BY <1>2 DEF Test!Side
<1>4. PICK q \in Nat \ {0} : q = k * k
  <2>1. k * k \in Nat \ {0} OBVIOUS
  <2> QED BY <2>1
<1>5. range * range = 256 * q
  <2>1. (16 * k) * (16 * k) = 256 * (k * k) OBVIOUS
  <2> QED BY <2>1, <1>2, <1>4
<1>6. Test!Side(4) * Test!Side(4) = 16 * q
  <2>1. (4 * k) * (4 * k) = 16 * (k * k) OBVIOUS
  <2> QED BY <2>1, <1>3, <1>4
<1>7. Test!cells = 16 * q BY <1>6 DEF Test!cells
<1> QED BY <1>2, <1>3, <1>4, <1>5, <1>6, <1>7

\* The range is not cut: the number of its blocks is the square of its side.
LEMMA BlocksAre ==
  ASSUME Test!TestAssumption, BlocksFit
  PROVE  Test!Blocks(4) = range * range /\ Test!Blocks(4) \in Nat \ {0}
<1>1. PICK b \in Nat \ {0} : b = range * range /\ b = Test!Side(4) * Test!Side(4) * 4 * 4
  <2>1. range * range \in Nat \ {0} /\ Test!Side(4) * Test!Side(4) * 4 * 4 = range * range
    BY Sides
  <2> QED BY <2>1
<1>2. Word \in Nat /\ b < Word \div 2 /\ -(Word \div 2) <= b BY <1>1 DEF BlocksFit
<1>3. Test!Wrap(b) = b BY <1>2, WrapFits
<1> QED BY <1>1, <1>3 DEF Test!Blocks

\* In the smallest step from a multiple of the scale C's division is less than
\* one cell off, on either side of the origin.
LEMMA RoundsOneCell ==
  ASSUME NEW v \in Int, NEW scale \in {4, 16}
  PROVE  Test!Quotient(v, scale) * scale - v \in (-scale + 1)..(scale - 1)
<1>1. CASE scale = 4 BY <1>1 DEF Test!Quotient
<1>2. CASE scale = 16 BY <1>2 DEF Test!Quotient
<1> QED BY <1>1, <1>2

\* Wherever a candidate is whose range lies within an int, process() looks at
\* ranges that have it in the middle to within a cell, at both scales and for
\* every side of the range.
THEOREM RangeAlwaysCentred ==
  ASSUME Test!TestAssumption, CornersFit
  PROVE  Test!Spec => []Test!CandidateCentred
<1> DEFINE Inv == input \in Positions
<1>1. Test!Init => Inv BY DEF Test!Init
<1>2. Inv /\ [Test!Next]_(Test!vars) => Inv'
  BY DEF Test!Next, Test!Sample, Test!MonteCarloEnds, Test!TestScale16, Test!TestScale4,
         Test!Centers, Test!Done, Test!vars
<1>3. Inv => Test!CandidateCentred
  <2> SUFFICES ASSUME input \in Positions PROVE Test!CandidateCentred
    OBVIOUS
  <2> SUFFICES ASSUME NEW scale \in {4, 16}
               PROVE  ((Test!make_range(input, scale) * scale) + (range \div 2)) - input
                        \in ((-scale) + 1)..(scale - 1)
    BY DEF Test!CandidateCentred
  <2>1. PICK h \in Int : h = range \div 2 BY Sides
  <2>2. PICK p \in Int : p = input BY DEF Test!TestAssumption
  <2>3. PICK v \in Int : v = p - h OBVIOUS
  <2>4. Test!Wrap(v) = v
    <3>1. Word \in Nat /\ -(Word \div 2) <= v /\ v < Word \div 2
      BY <2>1, <2>2, <2>3 DEF CornersFit
    <3> QED BY <3>1, WrapFits
  <2>5. Test!make_range(input, scale) = Test!Quotient(v, scale)
    BY <2>1, <2>2, <2>3, <2>4 DEF Test!make_range
  <2>6. PICK q \in Int : q = Test!Quotient(v, scale) BY DEF Test!Quotient
  <2>7. q * scale - v \in (-scale + 1)..(scale - 1) BY <2>6, RoundsOneCell
  <2>8. PICK y \in Int : y = q * scale OBVIOUS
  <2>9. y + h - p = y - v BY <2>1, <2>2, <2>3, <2>8
  <2> QED BY <2>1, <2>2, <2>5, <2>6, <2>7, <2>8, <2>9
<1> QED BY <1>1, <1>2, <1>3, PTL DEF Test!Spec

\* What Gcd makes of the divisors of smaller numbers.
GcdOf(F) == [b \in 0..Test!min_area |-> [a \in Nat |-> IF b = 0 THEN a ELSE F[a % b][b]]]

\* The recursive definition of Gcd defines it.
LEMMA GcdIs ==
  ASSUME Test!min_area \in Nat
  PROVE  \A b \in 0..Test!min_area, a \in Nat :
           Test!Gcd[b][a] = IF b = 0 THEN a ELSE Test!Gcd[a % b][b]
<1> DEFINE Step(g, i) == [a \in Nat |-> IF i = 0 THEN a ELSE g[a % i][i]]
           Upto(g, k) == g = [i \in 0..k |-> Step(g, i)]
           Good == {k \in 0..Test!min_area : \E g : Upto(g, k)}
<1>0. PICK N \in Nat : N = Test!min_area OBVIOUS
<1>1. 0 \in Good
  <2> DEFINE h == [i \in 0..0 |-> [a \in Nat |-> a]]
  <2>1. \A i \in 0..0 : h[i] = Step(h, i) OBVIOUS
  <2>2. h = [i \in 0..0 |-> h[i]] OBVIOUS
  <2> HIDE DEF h
  <2>3. Upto(h, 0)
    <3> HIDE DEF Step
    <3> QED BY <2>1, <2>2
  <2>4. 0 \in 0..Test!min_area BY <1>0
  <2> HIDE DEF Upto
  <2> QED BY <2>3, <2>4
<1>2. ASSUME NEW k \in 0..N, k + 1 \in 0..N, k \in Good PROVE k + 1 \in Good
  <2>1. PICK g : Upto(g, k)
    <3> HIDE DEF Upto
    <3> QED BY <1>2
  <2>2. PICK last : last = Step(g, k + 1) OBVIOUS
  <2> DEFINE h == [i \in 0..(k + 1) |-> IF i = k + 1 THEN last ELSE g[i]]
  <2>3. h = [i \in 0..(k + 1) |-> h[i]] OBVIOUS
  <2>4. ASSUME NEW i \in 0..(k + 1) PROVE h[i] = Step(h, i)
    <3>1. ASSUME NEW a \in Nat, i # 0 PROVE h[a % i] = g[a % i]
      <4>1. a % i \in 0..(i - 1) BY <3>1
      <4>2. a % i \in 0..k /\ a % i # k + 1
        <5>1. PICK r \in Nat : r = a % i /\ r < i BY <4>1
        <5> QED BY <5>1
      <4> QED BY <4>2
    <3>2. h[i] = IF i = k + 1 THEN last ELSE g[i] OBVIOUS
    <3>3. i = k + 1 \/ i \in 0..k OBVIOUS
    <3> HIDE DEF h
    <3>4. Step(h, i) = Step(g, i)
      <4>1. \A a \in Nat : (IF i = 0 THEN a ELSE h[a % i][i]) = (IF i = 0 THEN a ELSE g[a % i][i])
        BY <3>1
      <4> QED BY <4>1
    <3>5. i \in 0..k => g[i] = Step(g, i)
      <4> HIDE DEF Step
      <4> QED BY <2>1
    <3>6. i \in 0..k => i # k + 1 OBVIOUS
    <3> HIDE DEF Step
    <3> QED BY <2>2, <3>2, <3>3, <3>4, <3>5, <3>6
  <2> HIDE DEF h
  <2>5. Upto(h, k + 1)
    <3> HIDE DEF Step
    <3> QED BY <2>3, <2>4
  <2> HIDE DEF Upto
  <2> QED BY <2>5, <1>0, <1>2
<1>3. N \in Good
  <2> HIDE DEF Good
  <2>1. 0..N \subseteq Good BY <1>1, <1>2, UpTo
  <2> QED BY <2>1
<1>4. PICK g : g = GcdOf(g)
  <2>1. PICK g : Upto(g, N)
    <3> HIDE DEF Upto
    <3> QED BY <1>3
  <2> QED BY <2>1, <1>0 DEF GcdOf
<1>5. Test!Gcd = CHOOSE F : F = GcdOf(F) BY DEF Test!Gcd, GcdOf
<1>6. PICK F : F = Test!Gcd /\ F = GcdOf(F) BY <1>4, <1>5
<1>7. ASSUME NEW b \in 0..Test!min_area, NEW a \in Nat
      PROVE  F[b][a] = IF b = 0 THEN a ELSE F[a % b][b]
  <2>1. PICK R : R = GcdOf(F) OBVIOUS
  <2>2. R[b] = [c \in Nat |-> IF b = 0 THEN c ELSE F[c % b][b]] BY <2>1 DEF GcdOf
  <2>3. R[b][a] = IF b = 0 THEN a ELSE F[a % b][b] BY <2>2
  <2>4. R = F BY <2>1, <1>6
  <2> QED BY <2>3, <2>4
<1> QED BY <1>6, <1>7

\* Both numbers are multiples of it.
Divides(g, a, b) == \E k, l \in Nat : a = k * g /\ b = l * g

LEMMA GcdDivides ==
  ASSUME Test!min_area \in Nat, NEW a \in Nat \ {0}
  PROVE  /\ Test!Gcd[Test!min_area][a] \in Nat \ {0}
         /\ Divides(Test!Gcd[Test!min_area][a], a, Test!min_area)
<1> DEFINE Holds(b) == \A c \in Nat : c # 0 \/ b # 0 =>
                         Test!Gcd[b][c] \in Nat \ {0} /\ Divides(Test!Gcd[b][c], c, b)
           Good == {i \in 0..Test!min_area : \A b \in 0..i : Holds(b)}
<1>0. PICK N \in Nat : N = Test!min_area OBVIOUS
<1>1. Holds(0)
  <2> SUFFICES ASSUME NEW c \in Nat, c # 0
               PROVE  Test!Gcd[0][c] \in Nat \ {0} /\ Divides(Test!Gcd[0][c], c, 0)
    OBVIOUS
  <2>1. 0 \in 0..Test!min_area BY <1>0
  <2>2. Test!Gcd[0][c] = c BY <2>1, GcdIs
  <2>3. c = 1 * c /\ 0 = 0 * c OBVIOUS
  <2>4. Divides(c, c, 0) BY <2>3 DEF Divides
  <2> QED BY <2>2, <2>4
<1>2. ASSUME NEW i \in 0..N, i + 1 \in 0..N, i \in Good PROVE Holds(i + 1)
  <2> SUFFICES ASSUME NEW c \in Nat
               PROVE  Test!Gcd[i + 1][c] \in Nat \ {0} /\ Divides(Test!Gcd[i + 1][c], c, i + 1)
    OBVIOUS
  <2>1. PICK b \in Nat \ {0} : b = i + 1 /\ b \in 0..Test!min_area BY <1>0, <1>2
  <2>2. PICK q \in Nat, r \in Nat : r = c % b /\ c = q * b + r /\ r <= i
    <3>1. c % b \in Nat /\ c \div b \in Nat /\ c % b < b /\ c = (c \div b) * b + (c % b)
      BY SMT
    <3>2. PICK q \in Nat, r \in Nat : q = c \div b /\ r = c % b BY <3>1
    <3>3. r < b /\ c = q * b + r BY <3>1, <3>2
    <3>4. r <= i BY <3>3, <2>1
    <3> QED BY <3>2, <3>3, <3>4
  <2>3. Test!Gcd[b][c] = Test!Gcd[r][b] BY <2>1, <2>2, GcdIs
  <2>4. r \in 0..i /\ b # 0 BY <2>1, <2>2
  <2>5. Holds(r)
    <3> HIDE DEF Holds
    <3> QED BY <2>4, <1>2
  <2>6. PICK g \in Nat \ {0} : g = Test!Gcd[r][b] /\ Divides(g, b, r) BY <2>4, <2>5
  <2>7. PICK k \in Nat, l \in Nat : b = k * g /\ r = l * g BY <2>6 DEF Divides
  <2>8. c = (q * k + l) * g
    <3>1. q * (k * g) + l * g = (q * k + l) * g OBVIOUS
    <3> QED BY <3>1, <2>2, <2>7
  <2>9. q * k + l \in Nat
    <3>1. q * k \in Nat OBVIOUS
    <3> QED BY <3>1
  <2>10. Divides(g, c, b) BY <2>7, <2>8, <2>9 DEF Divides
  <2> QED BY <2>1, <2>3, <2>6, <2>10
<1> HIDE DEF Holds
<1>3. 0 \in Good BY <1>0, <1>1
<1>4. ASSUME NEW i \in 0..N, i + 1 \in 0..N, i \in Good PROVE i + 1 \in Good
  <2>1. \A b \in 0..(i + 1) : b \in 0..i \/ b = i + 1 OBVIOUS
  <2> QED BY <2>1, <1>0, <1>2, <1>4
<1>5. N \in Good
  <2> HIDE DEF Good
  <2>1. 0..N \subseteq Good BY <1>3, <1>4, UpTo
  <2> QED BY <2>1
<1>6. Holds(N) BY <1>5
<1> QED BY <1>0, <1>6 DEF Holds

\* The coverage is that of the blocks of the range, in smaller terms.
LEMMA FractionIs ==
  ASSUME Test!TestAssumption, BlocksFit, Test!min_area \in Nat
  PROVE  \E g \in Nat \ {0}, a \in Nat, d \in Nat \ {0} :
           Test!fraction = [a |-> a, d |-> d] /\ Test!min_area = a * g /\ range * range = d * g
<1>1. PICK b \in Nat \ {0} : b = range * range /\ b = Test!Blocks(4) BY BlocksAre
<1>2. PICK g \in Nat \ {0} : g = Test!Gcd[Test!min_area][b] /\ Divides(g, b, Test!min_area)
  BY GcdDivides
<1>3. PICK d \in Nat, a \in Nat : b = d * g /\ Test!min_area = a * g BY <1>2 DEF Divides
<1>4. d # 0
  <2>1. 0 * g = 0 OBVIOUS
  <2> QED BY <2>1, <1>1, <1>3
<1>5. b \div g = d /\ Test!min_area \div g = a
  <2>1. 0 \in 0..(g - 1) /\ b = d * g + 0 /\ Test!min_area = a * g + 0 BY <1>1, <1>3
  <2>2. b \div g = d BY <2>1, Division
  <2>3. Test!min_area \div g = a BY <2>1, Division
  <2> QED BY <2>2, <2>3
<1>6. ~(b < 0) /\ ~(Test!min_area < 0) BY <1>1
<1>7. Test!fraction = [a |-> Test!min_area \div g, d |-> b \div g]
  BY <1>1, <1>2, <1>6 DEF Test!fraction
<1> QED BY <1>1, <1>3, <1>4, <1>5, <1>7

\* The share of successes against the coverage, in blocks.
Share == x * range * range
LEMMA ShareIs ==
  ASSUME Test!TestAssumption, BlocksFit, Test!min_area \in Nat, m \in Nat, x \in Nat
  PROVE  /\ Test!ShareAbove <=> Share > Test!min_area * m
         /\ Share \in Nat /\ Test!min_area * m \in Nat
         /\ Test!LoAbove => Test!ShareAbove
         /\ Test!HiBelow => ~Test!ShareAbove
<1>1. PICK g \in Nat \ {0}, a \in Nat, d \in Nat \ {0} :
        Test!fraction = [a |-> a, d |-> d] /\ Test!min_area = a * g /\ range * range = d * g
  BY FractionIs
<1>2. Test!fraction.a = a /\ Test!fraction.d = d BY <1>1
<1>3. PICK mm \in Nat, xx \in Nat : mm = m /\ xx = x OBVIOUS
<1>4. PICK u \in Nat, v \in Nat : u = a * mm /\ v = xx * d
  <2>1. a * mm \in Nat /\ xx * d \in Nat OBVIOUS
  <2> QED BY <2>1
<1>5. u < v <=> u * g < v * g BY Multiples
<1>6. u * g \in Nat /\ v * g \in Nat BY Multiples
<1>7. Share = v * g
  <2>1. PICK r \in Nat : r = range BY DEF Test!TestAssumption
  <2>2. xx * r * r = xx * (r * r) OBVIOUS
  <2>3. xx * (d * g) = (xx * d) * g OBVIOUS
  <2> QED BY <2>1, <2>2, <2>3, <1>1, <1>3, <1>4 DEF Share
<1>8. Test!min_area * m = u * g
  <2>1. (a * g) * mm = (a * mm) * g OBVIOUS
  <2> QED BY <2>1, <1>1, <1>3, <1>4
<1>9. Test!ShareAbove <=> v > u BY <1>2, <1>3, <1>4 DEF Test!ShareAbove
<1>10. Test!LoAbove => Test!ShareAbove
  <2>1. Test!LoAbove => u + d < 0 \/ v > u + d BY <1>2, <1>3, <1>4 DEF Test!LoAbove
  <2> QED BY <2>1, <1>9
<1>11. Test!HiBelow => ~Test!ShareAbove
  <2>1. Test!HiBelow => v < u - d BY <1>2, <1>3, <1>4 DEF Test!HiBelow
  <2> QED BY <2>1, <1>9
<1>12. v > u <=> v * g > u * g BY <1>5, <1>6
<1> QED BY <1>6, <1>7, <1>8, <1>9, <1>10, <1>11, <1>12

\* The state of the sampling, and the verdict: from here on it has been passed.
TestInv ==
  /\ Test!TypeOK /\ ocean \subseteq {0, 1} /\ Test!ScoreLargeEnough
  /\ pc \in {"scale16", "scale4", "output", "none"} => Test!ShareAbove
  /\ pc = "rejected" => ~Test!ShareAbove

\* Nine tenths of the size.
LEMMA AreaIs ==
  ASSUME Test!TestAssumption, min_size \in MinSizes
  PROVE  Test!min_area \in Nat /\ min_size \in Nat
<1>1. min_size \in Nat BY DEF Test!TestAssumption
<1>2. PICK s \in Nat : s = min_size * 9 BY <1>1
<1>3. s \div 10 \in Nat OBVIOUS
<1> QED BY <1>1, <1>2, <1>3 DEF Test!min_area

\* What a step leaves of the evidence.
LEMMA SameShare ==
  ASSUME UNCHANGED <<min_size, m, x>>
  PROVE  Test!ShareAbove' <=> Test!ShareAbove
<1>1. Test!min_area' = Test!min_area BY DEF Test!min_area
<1>2. Test!Gcd' = Test!Gcd BY <1>1 DEF Test!Gcd
<1>3. Test!fraction' = Test!fraction
  BY <1>1, <1>2 DEF Test!fraction, Test!Blocks, Test!Side, Test!Wrap
<1> QED BY <1>3 DEF Test!ShareAbove

\* The area of an island in blocks is at most that of the range, and within a
\* cell of min_size at least.
LEMMA AreaFits ==
  ASSUME Test!TestAssumption, BlocksFit, min_size \in MinSizes,
         NEW found \in Test!minsiz(4)..(Test!Side(4) * Test!Side(4))
  PROVE  /\ Test!Wrap(Test!Area(found, 4)) = Test!Area(found, 4)
         /\ Test!Area(found, 4) \in 0..(range * range) /\ Test!Area(found, 4) > 0
         /\ Test!Area(found, 4) + 16 > min_size
<1>1. PICK c \in Nat \ {0} : c = Test!Side(4) * Test!Side(4) /\ c * 16 = range * range
  BY Sides DEF Test!cells
<1>2. min_size \in Nat BY AreaIs
<1>3. PICK k \in Nat : k = min_size \div (4 * 4) /\ 16 * k + 16 > min_size
  <2>1. min_size \div 16 \in Nat /\ 16 * (min_size \div 16) + 16 > min_size BY <1>2
  <2> QED BY <2>1
<1>4. PICK s \in Nat \ {0} : s = Test!minsiz(4) /\ s >= k
  <2>1. Test!minsiz(4) = CHOOSE y \in {1, k} : \A z \in {1, k} : y >= z
    BY <1>3 DEF Test!minsiz, Test!Max
  <2>2. \E y \in {1, k} : \A z \in {1, k} : y >= z
    <3>1. k >= 1 \/ 1 >= k OBVIOUS
    <3> QED BY <3>1
  <2>3. Test!minsiz(4) \in {1, k} /\ \A z \in {1, k} : Test!minsiz(4) >= z BY <2>1, <2>2
  <2> QED BY <2>3
<1>5. found \in Nat \ {0} /\ s <= found /\ found <= c BY <1>1, <1>4
<1>6. PICK a \in Nat \ {0} : a = Test!Area(found, 4) /\ a = found * 16
  <2>1. Test!Area(found, 4) = found * 16 BY <1>5 DEF Test!Area
  <2> QED BY <2>1, <1>5
<1>7. a <= c * 16 /\ a + 16 > min_size BY <1>2, <1>3, <1>4, <1>5, <1>6
<1>8. Test!Wrap(a) = a
  <2>1. Word \in Nat /\ a < Word \div 2 /\ -(Word \div 2) <= a
    BY <1>1, <1>7 DEF BlocksFit
  <2> QED BY <2>1, WrapFits
<1> QED BY <1>1, <1>6, <1>7, <1>8

\* What a step that only goes on to another test keeps.
LEMMA TestGoesOn ==
  ASSUME Test!TestAssumption, TestInv, UNCHANGED <<min_size, input, ocean, m, x>>,
         pc' \in {"scale16", "scale4", "output", "rejected", "none"},
         score' \in 0..(range * range), pc' = "output" => score' > 0 /\ score' + 16 > min_size,
         pc' # "rejected" => Test!ShareAbove, pc' = "rejected" => ~Test!ShareAbove
  PROVE  TestInv'
<1>1. Test!TypeOK' BY DEF TestInv, Test!TypeOK, Test!cells, Test!Side
<1>2. Test!ScoreLargeEnough' BY DEF Test!ScoreLargeEnough
<1>3. Test!ShareAbove' <=> Test!ShareAbove BY SameShare
<1> QED BY <1>1, <1>2, <1>3 DEF TestInv

\* A step keeps the invariant, unless all cells are sampled without a verdict.
LEMMA TestStep ==
  ASSUME Test!TestAssumption, BlocksFit, TestInv, Test!VerdictReached, [Test!Next]_(Test!vars)
  PROVE  TestInv'
<1>0. Test!cells \in Nat \ {0} /\ range * range \in Nat \ {0} BY Sides
<1>1. Test!TypeOK /\ min_size \in MinSizes /\ m \in Nat /\ x \in Nat /\ x <= m
  BY <1>0 DEF TestInv, Test!TypeOK
<1>2. Test!min_area \in Nat BY <1>1, AreaIs
<1>3. CASE Test!Sample
  <2>1. /\ pc = "sample" /\ pc' = "sample" /\ m < Test!cells /\ m' = m + 1
        /\ UNCHANGED <<min_size, input, ocean, score>>
    BY <1>3 DEF Test!Sample
  <2>2. x' = x \/ x' = x + 1
    <3>1. PICK status \in ocean : x' = x + status BY <1>3 DEF Test!Sample
    <3>2. status = 0 \/ status = 1 BY DEF TestInv
    <3> QED BY <3>1, <3>2, <1>1
  <2>3. m' \in 0..Test!cells /\ x' \in 0..m' BY <2>1, <2>2, <1>0, <1>1
  <2>4. Test!TypeOK' BY <2>1, <2>3, <1>1 DEF Test!TypeOK, Test!cells, Test!Side
  <2>5. Test!ScoreLargeEnough' BY <2>1 DEF Test!ScoreLargeEnough
  <2> QED BY <2>1, <2>4, <2>5 DEF TestInv
<1>4. CASE Test!MonteCarloEnds
  <2>1. /\ pc = "sample" /\ (Test!Decided \/ m = Test!cells)
        /\ pc' = IF Test!Accepted THEN "scale16" ELSE "rejected"
        /\ UNCHANGED <<min_size, input, ocean, m, x, score>>
    BY <1>4 DEF Test!MonteCarloEnds
  <2>2. Test!LoAbove \/ Test!HiBelow \/ Test!Narrow BY <2>1 DEF Test!VerdictReached, Test!Decided
  <2>3. (Test!LoAbove => Test!ShareAbove) /\ (Test!HiBelow => ~Test!ShareAbove)
    BY <1>1, <1>2, ShareIs
  <2>4. Test!Accepted <=> Test!ShareAbove BY <2>2, <2>3 DEF Test!Accepted
  <2>5. score' \in 0..(range * range) BY <2>1, <1>1 DEF Test!TypeOK
  <2> QED BY <2>1, <2>4, <2>5, TestGoesOn
<1>5. ASSUME NEW here, NEW scale, NEW there, Test!Centers(here, scale, there),
             here \in {"scale16", "scale4"}, there \in {"scale4", "output"},
             there = "output" => scale = 4
      PROVE  TestInv'
  <2>1. pc = here /\ UNCHANGED <<min_size, input, ocean, m, x>> BY <1>5 DEF Test!Centers
  <2>2. Test!ShareAbove BY <2>1, <1>5 DEF TestInv
  <2>3. score \in 0..(range * range) BY <1>1 DEF Test!TypeOK
  <2>4. CASE pc' = "none" /\ UNCHANGED score BY <2>1, <2>2, <2>3, <2>4, TestGoesOn
  <2>5. CASE there # "output" /\ pc' = there /\ UNCHANGED score
    BY <2>1, <2>2, <2>3, <2>5, <1>5, TestGoesOn
  <2>6. CASE there = "output" /\ ~(pc' = "none" /\ UNCHANGED score)
    <3>1. PICK found \in Test!minsiz(4)..(Test!Side(4) * Test!Side(4)) :
            pc' = "output" /\ score' = Test!Wrap(Test!Area(found, 4))
      BY <2>6, <1>5 DEF Test!Centers
    <3>2. /\ Test!Wrap(Test!Area(found, 4)) = Test!Area(found, 4)
          /\ Test!Area(found, 4) \in 0..(range * range) /\ Test!Area(found, 4) > 0
          /\ Test!Area(found, 4) + 16 > min_size
      BY <1>1, AreaFits
    <3> QED BY <2>1, <2>2, <3>1, <3>2, TestGoesOn
  <2> QED BY <2>4, <2>5, <2>6, <1>5 DEF Test!Centers
<1>6. CASE Test!TestScale16 BY <1>5, <1>6 DEF Test!TestScale16
<1>7. CASE Test!TestScale4 BY <1>5, <1>7 DEF Test!TestScale4
<1>8. CASE UNCHANGED Test!vars
  <2>1. UNCHANGED <<min_size, input, ocean, pc, m, x, score>> BY <1>8 DEF Test!vars
  <2>2. Test!TypeOK' BY <2>1, <1>1 DEF Test!TypeOK, Test!cells, Test!Side
  <2>3. Test!ScoreLargeEnough' BY <2>1 DEF TestInv, Test!ScoreLargeEnough
  <2>4. Test!ShareAbove' <=> Test!ShareAbove BY <2>1, SameShare
  <2> QED BY <2>1, <2>2, <2>3, <2>4 DEF TestInv
<1>9. CASE Test!Done BY <1>8, <1>9 DEF Test!Done
<1> QED BY <1>3, <1>4, <1>6, <1>7, <1>8, <1>9 DEF Test!Next

\* At the start nothing is sampled.
LEMMA TestStart == ASSUME Test!TestAssumption, Test!Init PROVE TestInv
<1>1. Test!cells \in Nat \ {0} /\ range * range \in Nat \ {0} BY Sides
<1>2. Test!TypeOK BY <1>1 DEF Test!Init, Test!TypeOK
<1>3. ocean \subseteq {0, 1} BY DEF Test!Init
<1> QED BY <1>2, <1>3 DEF Test!Init, TestInv, Test!ScoreLargeEnough

\* While the blocks of the range fit an int, and the loop of monteCarloBiomes
\* does not use up the cells of the range undecided (VerdictReached, which TLC
\* checks): what it accepts has a share of deep ocean above the coverage asked
\* for, what it rejects has not, and the score of a result is its true area,
\* at most one cell below min_size.
THEOREM TestsSound ==
  ASSUME Test!TestAssumption, BlocksFit
  PROVE  Test!Spec /\ []Test!VerdictReached
           => [](Test!VerdictSound /\ Test!ScoreLargeEnough /\ Test!TypeOK)
<1>1. Test!Init => TestInv BY TestStart
<1>2. TestInv /\ Test!VerdictReached /\ [Test!Next]_(Test!vars) => TestInv' BY TestStep
<1>3. TestInv => Test!VerdictSound /\ Test!ScoreLargeEnough /\ Test!TypeOK
  <2> SUFFICES ASSUME TestInv PROVE Test!VerdictSound
    BY DEF TestInv
  <2>1. Test!cells \in Nat \ {0} BY Sides
  <2>2. min_size \in MinSizes /\ m \in Nat /\ x \in Nat BY <2>1 DEF TestInv, Test!TypeOK
  <2>3. Test!min_area \in Nat BY <2>2, AreaIs
  <2>4. /\ Test!ShareAbove <=> Share > Test!min_area * m
        /\ Share \in Nat /\ Test!min_area * m \in Nat
    BY <2>2, <2>3, ShareIs
  <2>5. ~(Share > Test!min_area * m) => Share <= Test!min_area * m BY <2>4
  <2> QED BY <2>4, <2>5 DEF TestInv, Test!VerdictSound, Share
<1> QED BY <1>1, <1>2, <1>3, PTL DEF Test!Spec
=============================================================================
