--------------------------- MODULE CatalogueProofs ---------------------------
(***************************************************************************)
(* Theorems about Catalogue for any contents, writers, documents, limits   *)
(* and learning data.                                                      *)
(***************************************************************************)
EXTENDS Catalogue, FiniteSetTheorems, NaturalsInduction, TLAPS

-----------------------------------------------------------------------------
\* R, a set of pairs, puts the members of S in one order.
Ordered(R, S) ==
    /\ \A x \in S : <<x, x>> \notin R
    /\ \A x, y, z \in S : <<x, y>> \in R /\ <<y, z>> \in R => <<x, z>> \in R
    /\ \A x, y \in S : x # y => <<x, y>> \in R \/ <<y, x>> \in R

\* s lists the members of S in the order R.
Lists(s, S, R) ==
    /\ s \in [1 .. Cardinality(S) -> S]
    /\ \A j, k \in 1 .. Cardinality(S) : j < k => <<s[j], s[k]>> \in R

\* The members of S that R puts before x.
Ahead(x, S, R) == {y \in S : <<y, x>> \in R}

\* A finite set that is ordered can be listed: around any of its members, list what
\* comes before it and what comes after it.
LEMMA ListExists ==
    ASSUME NEW S, IsFiniteSet(S), NEW R, Ordered(R, S)
    PROVE  \E s : Lists(s, S, R)
<1> DEFINE Unordered == {T \in SUBSET S : ~ \E s : Lists(s, T, R)}
<1>1. SUFFICES ASSUME Unordered # {} PROVE FALSE
  <2>1. S \in SUBSET S
    OBVIOUS
  <2> QED
    BY <2>1
<1>2. PICK T \in Unordered : \A U \in Unordered : ~ (<<U, T>> \in StrictSubsetOrdering(S))
  <2>1. FiniteSubsetsOf(S) = SUBSET S
    BY FS_FiniteSubsetsOfFinite
  <2>2. IsWellFoundedOn(StrictSubsetOrdering(S), SUBSET S)
    BY <2>1, FS_StrictSubsetOrderingWellFounded
  <2>3. Unordered \subseteq SUBSET S
    OBVIOUS
  <2> HIDE DEF Unordered
  <2> QED
    BY <1>1, <2>2, <2>3, WFMin
<1>3. ASSUME NEW U \in SUBSET T, U # T PROVE \E s : Lists(s, U, R)
  <2>1. <<U, T>> \in StrictSubsetOrdering(S)
    BY <1>3 DEF StrictSubsetOrdering
  <2> QED
    BY <1>2, <2>1
<1>4. IsFiniteSet(T) /\ Cardinality({}) = 0
  BY FS_Subset, FS_EmptySet
<1>5. T # {}
  <2>1. SUFFICES ASSUME T = {} PROVE FALSE
    OBVIOUS
  <2>2. Lists(<<>>, T, R)
    BY <1>4, <2>1 DEF Lists
  <2> QED
    BY <1>2, <2>2
<1>6. PICK x \in T : TRUE
  BY <1>5
<1> DEFINE A == {y \in T : <<y, x>> \in R}
           B == {y \in T : <<x, y>> \in R}
<1>7. /\ x \notin A /\ x \notin B /\ A \cap B = {} /\ T = (A \cup B) \cup {x}
      /\ x \notin A \cup B
  BY DEF Ordered
<1>8. /\ IsFiniteSet(A) /\ IsFiniteSet(B) /\ IsFiniteSet(A \cup B)
      /\ Cardinality(A) \in Nat /\ Cardinality(B) \in Nat
      /\ Cardinality(T) = Cardinality(A) + Cardinality(B) + 1
  <2>1. IsFiniteSet(A) /\ IsFiniteSet(B)
    BY <1>4, FS_Subset
  <2>2. Cardinality(A) \in Nat /\ Cardinality(B) \in Nat
    BY <2>1, FS_CardinalityType
  <2>3. IsFiniteSet(A \cup B)
        /\ Cardinality(A \cup B) = Cardinality(A) + Cardinality(B) - Cardinality(A \cap B)
    BY <2>1, FS_Union
  <2>4. Cardinality(T) = Cardinality(A \cup B) + 1
    BY <1>7, <2>3, FS_AddElement
  <2>5. PICK a \in Nat, b \in Nat : a = Cardinality(A) /\ b = Cardinality(B)
    BY <2>2
  <2>6. Cardinality(A \cup B) = a + b
    <3>1. Cardinality(A \cap B) = 0
      BY <1>4, <1>7
    <3> HIDE DEF A, B
    <3> QED
      BY <2>3, <2>5, <3>1
  <2> QED
    BY <2>1, <2>3, <2>4, <2>5, <2>6
<1>9. (\E s : Lists(s, A, R)) /\ (\E s : Lists(s, B, R))
  BY <1>3, <1>7
<1>10. PICK f, g : Lists(f, A, R) /\ Lists(g, B, R)
  BY <1>9
<1>11. PICK a \in Nat, b \in Nat : a = Cardinality(A) /\ b = Cardinality(B)
  BY <1>8
<1>12. /\ f \in [1 .. a -> A] /\ \A j, k \in 1 .. a : j < k => <<f[j], f[k]>> \in R
       /\ g \in [1 .. b -> B] /\ \A j, k \in 1 .. b : j < k => <<g[j], g[k]>> \in R
  BY <1>10, <1>11 DEF Lists
<1>13. /\ \A y \in A : y \in S /\ y \in T /\ <<y, x>> \in R
       /\ \A y \in B : y \in S /\ y \in T /\ <<x, y>> \in R
       /\ x \in S /\ x \in T
  OBVIOUS
<1>14. Cardinality(T) = a + b + 1
  BY <1>8, <1>11
<1> HIDE DEF A, B
<1> DEFINE s == [k \in 1 .. a + b + 1 |->
                    IF k <= a THEN f[k] ELSE IF k = a + 1 THEN x ELSE g[k - a - 1]]
<1>15. ASSUME NEW k \in 1 .. a + b + 1
       PROVE  /\ k <= a => k \in 1 .. a /\ s[k] = f[k] /\ f[k] \in A
              /\ k = a + 1 => s[k] = x
              /\ k > a + 1 => k - a - 1 \in 1 .. b /\ s[k] = g[k - a - 1] /\ g[k - a - 1] \in B
              /\ s[k] \in T
  <2>1. k <= a => k \in 1 .. a
    OBVIOUS
  <2>2. k > a + 1 => k - a - 1 \in 1 .. b
    OBVIOUS
  <2>3. k <= a \/ k = a + 1 \/ k > a + 1
    OBVIOUS
  <2>4. k <= a => s[k] = f[k] /\ f[k] \in A
    BY <1>12, <2>1
  <2>5. k > a + 1 => s[k] = g[k - a - 1] /\ g[k - a - 1] \in B
    BY <1>12, <2>2
  <2>6. k = a + 1 => s[k] = x
    OBVIOUS
  <2> HIDE DEF s
  <2> QED
    BY <1>13, <2>1, <2>2, <2>3, <2>4, <2>5, <2>6
<1>16. ASSUME NEW j \in 1 .. a + b + 1, NEW k \in 1 .. a + b + 1, j < k
       PROVE  <<s[j], s[k]>> \in R
  <2>1. CASE k <= a
    BY <1>12, <1>15, <1>16, <2>1
  <2>2. CASE j > a + 1
    <3>1. j - a - 1 < k - a - 1 /\ k > a + 1
      BY <1>16, <2>2
    <3> QED
      BY <1>12, <1>15, <2>2, <3>1
  <2>3. CASE j <= a /\ k = a + 1
    BY <1>13, <1>15, <2>3
  <2>4. CASE j = a + 1 /\ k > a + 1
    BY <1>13, <1>15, <2>4
  <2>5. CASE j <= a /\ k > a + 1
    <3>1. /\ s[j] \in S /\ <<s[j], x>> \in R
          /\ s[k] \in S /\ <<x, s[k]>> \in R
      BY <1>13, <1>15, <2>5
    <3> QED
      BY <1>13, <3>1 DEF Ordered
  <2> QED
    BY <1>16, <2>1, <2>2, <2>3, <2>4, <2>5
<1>17. s \in [1 .. a + b + 1 -> T]
  BY <1>15
<1> HIDE DEF s
<1>18. Lists(s, T, R)
  BY <1>14, <1>16, <1>17 DEF Lists
<1> QED
  BY <1>2, <1>18

\* A list in an order contains every member once.
LEMMA ListFacts ==
    ASSUME NEW S, IsFiniteSet(S), NEW R, Ordered(R, S), NEW s, Lists(s, S, R)
    PROVE  /\ Cardinality(S) \in Nat
           /\ \A k \in 1 .. Cardinality(S) : s[k] \in S
           /\ \A j, k \in 1 .. Cardinality(S) : s[j] = s[k] => j = k
           /\ \A x \in S : \E k \in 1 .. Cardinality(S) : s[k] = x
           /\ \A j, k \in 1 .. Cardinality(S) : <<s[j], s[k]>> \in R => j < k
<1>1. PICK n \in Nat : n = Cardinality(S)
  BY FS_CardinalityType
<1>2. s \in [1 .. n -> S] /\ \A j, k \in 1 .. n : j < k => <<s[j], s[k]>> \in R
  BY <1>1 DEF Lists
<1>3. ASSUME NEW j \in 1 .. n, NEW k \in 1 .. n
      PROVE  /\ s[j] = s[k] => j = k
             /\ <<s[j], s[k]>> \in R => j < k
  <2>1. s[j] \in S /\ s[k] \in S /\ (j < k \/ j = k \/ k < j)
    BY <1>2
  <2>2. <<s[j], s[j]>> \notin R /\ <<s[k], s[k]>> \notin R
    BY <2>1 DEF Ordered
  <2>3. CASE j < k
    BY <1>2, <2>2, <2>3
  <2>4. CASE k < j
    <3>1. <<s[k], s[j]>> \in R
      BY <1>2, <2>4
    <3>2. <<s[j], s[k]>> \notin R
      BY <2>1, <2>2, <3>1 DEF Ordered
    <3> QED
      BY <2>2, <3>1, <3>2
  <2> QED
    BY <2>1, <2>2, <2>3, <2>4
<1>4. s \in Injection(1 .. n, S)
  BY <1>2, <1>3 DEF Injection, IsInjective
<1>5. Cardinality(1 .. n) = n
  BY <1>1, FS_Interval
<1>6. s \in Surjection(1 .. n, S)
  BY <1>1, <1>4, <1>5, FS_Injection
<1> QED
  BY <1>1, <1>2, <1>3, <1>6 DEF Surjection

\* The place of a member in the list is the number of those before it.
LEMMA ListPlaces ==
    ASSUME NEW S, IsFiniteSet(S), NEW R, Ordered(R, S)
    PROVE  /\ \A k \in 1 .. Cardinality(S) :
                  \E x \in S : Cardinality(Ahead(x, S, R)) = k - 1
           /\ \A t \in [1 .. Cardinality(S) -> S] :
                  (\A k \in 1 .. Cardinality(S) :
                       Cardinality(Ahead(t[k], S, R)) = k - 1)
                  => Lists(t, S, R)
<1>1. PICK s : Lists(s, S, R)
  BY ListExists
<1>2. PICK n \in Nat : n = Cardinality(S)
  BY FS_CardinalityType
<1>3. /\ s \in [1 .. n -> S]
      /\ \A j, k \in 1 .. n : s[j] = s[k] => j = k
      /\ \A x \in S : \E k \in 1 .. n : s[k] = x
      /\ \A j, k \in 1 .. n : <<s[j], s[k]>> \in R <=> j < k
  BY <1>1, <1>2, ListFacts DEF Lists
<1> DEFINE Before(x) == Ahead(x, S, R)
<1>4. ASSUME NEW k \in 1 .. n PROVE Cardinality(Before(s[k])) = k - 1
  <2> DEFINE f == [j \in 1 .. k - 1 |-> s[j]]
  <2>1. \A j \in 1 .. k - 1 : j \in 1 .. n /\ j < k
    OBVIOUS
  <2>2. \A j \in 1 .. n : j < k => j \in 1 .. k - 1
    OBVIOUS
  <2>3. f \in [1 .. k - 1 -> Before(s[k])]
    BY <1>3, <2>1 DEF Ahead
  <2>4. \A i, j \in 1 .. k - 1 : f[i] = f[j] => i = j
    BY <1>3, <2>1
  <2>5. \A y \in Before(s[k]) : \E j \in 1 .. k - 1 : f[j] = y
    <3> TAKE y \in Before(s[k])
    <3>1. PICK j \in 1 .. n : s[j] = y
      BY <1>3 DEF Ahead
    <3>2. j < k
      BY <1>3, <3>1 DEF Ahead
    <3> QED
      BY <2>2, <3>1, <3>2
  <2> HIDE DEF f, Before
  <2>6. f \in Bijection(1 .. k - 1, Before(s[k]))
    BY <2>3, <2>4, <2>5 DEF Bijection, Injection, IsInjective, Surjection
  <2>7. k - 1 \in Nat
    OBVIOUS
  <2> QED
    BY <2>6, <2>7, FS_CountingElements DEF ExistsBijection
<1> HIDE DEF Before
<1>5. ASSUME NEW k \in 1 .. n, NEW x \in S, Cardinality(Before(x)) = k - 1 PROVE x = s[k]
  <2>1. PICK j \in 1 .. n : s[j] = x
    BY <1>3
  <2>2. j - 1 = k - 1
    BY <1>4, <1>5, <2>1
  <2>3. j = k
    BY <2>2
  <2> QED
    BY <2>1, <2>3
<1>6. \A k \in 1 .. n : \E x \in S : Cardinality(Before(x)) = k - 1
  BY <1>3, <1>4
<1>7. ASSUME NEW t \in [1 .. n -> S], \A k \in 1 .. n : Cardinality(Before(t[k])) = k - 1
      PROVE  t = s
  BY <1>3, <1>5, <1>7
<1>8. Lists(s, S, R)
  BY <1>1
<1> QED
  BY <1>2, <1>6, <1>7, <1>8 DEF Before

\* The first rows of a list: rows of it in its order, and nothing is left out unless
\* the limit is reached, and then only what comes after all of them.
LEMMA FirstOfLists ==
    ASSUME NEW S, IsFiniteSet(S), NEW R, Ordered(R, S), NEW s, Lists(s, S, R),
           NEW limit \in Nat
    PROVE  /\ FirstOf(s, limit) \in Seq(S)
           /\ Len(FirstOf(s, limit)) <= limit
           /\ \A j, k \in 1 .. Len(FirstOf(s, limit)) :
                  j < k => <<FirstOf(s, limit)[j], FirstOf(s, limit)[k]>> \in R
           /\ \A x \in S :
                  \/ \E k \in 1 .. Len(FirstOf(s, limit)) : FirstOf(s, limit)[k] = x
                  \/ /\ Len(FirstOf(s, limit)) = limit
                     /\ \A k \in 1 .. limit : <<FirstOf(s, limit)[k], x>> \in R
<1>1. PICK n \in Nat : n = Cardinality(S)
  BY FS_CardinalityType
<1>2. /\ s \in [1 .. n -> S]
      /\ \A j, k \in 1 .. n : j < k => <<s[j], s[k]>> \in R
      /\ \A x \in S : \E k \in 1 .. n : s[k] = x
  BY <1>1, ListFacts DEF Lists
<1>3. Len(s) = n /\ s \in Seq(S)
  BY <1>2
<1>4. Min({limit, n}) = IF limit <= n THEN limit ELSE n
  BY DEF Min
<1>5. PICK m \in Nat : m = Min({limit, n}) /\ m <= limit /\ m <= n
                       /\ (m # limit => m = n)
  BY <1>4
<1> DEFINE f == FirstOf(s, limit)
<1>6. f = [k \in 1 .. m |-> s[k]]
  BY <1>3, <1>5 DEF FirstOf
<1>7. \A k \in 1 .. m : k \in 1 .. n
  BY <1>5
<1>8. f \in Seq(S) /\ Len(f) = m
  BY <1>2, <1>6, <1>7
<1>9. ASSUME NEW x \in S
      PROVE  (\E k \in 1 .. m : s[k] = x) \/ (m = limit /\ \A k \in 1 .. m : <<s[k], x>> \in R)
  <2>1. PICK j \in 1 .. n : s[j] = x
    BY <1>2
  <2>2. CASE j <= m
    BY <2>1, <2>2
  <2>3. CASE j > m
    <3>1. m = limit
      BY <1>5, <2>1, <2>3
    <3>2. \A k \in 1 .. m : k \in 1 .. n /\ k < j
      BY <1>7, <2>1, <2>3
    <3> QED
      BY <1>2, <2>1, <3>1, <3>2
  <2> QED
    BY <2>2, <2>3
<1> QED
  BY <1>2, <1>5, <1>6, <1>7, <1>8, <1>9

-----------------------------------------------------------------------------
\* Rows by the time of their release.
LaterIn(S) == {p \in S \X S : Later(p[1], p[2])}

\* Rows with different ids are in one order by released_at and id.
LEMMA SortedByRelease ==
    ASSUME NEW S, IsFiniteSet(S), \A x \in S : x.id \in Nat /\ x.released \in Nat,
           \A x, y \in S : x.id = y.id => x = y
    PROVE  /\ Ordered(LaterIn(S), S)
           /\ Lists(Sorted(S, Later), S, LaterIn(S))
<1>1. Ordered(LaterIn(S), S)
  <2>1. ASSUME NEW x \in S, NEW y \in S
        PROVE  <<x, y>> \in LaterIn(S) <=> Later(x, y)
    BY DEF LaterIn
  <2>2. \A x \in S : ~ Later(x, x)
    BY DEF Later
  <2>3. \A x, y, z \in S : Later(x, y) /\ Later(y, z) => Later(x, z)
    BY DEF Later
  <2>4. \A x, y \in S : x # y => Later(x, y) \/ Later(y, x)
    BY DEF Later
  <2> QED
    BY <2>1, <2>2, <2>3, <2>4 DEF Ordered
<1>2. \A x \in S : Ahead(x, S, LaterIn(S)) = {y \in S : Later(y, x)}
  BY DEF LaterIn, Ahead
<1>3. ASSUME NEW k \in 1 .. Cardinality(S)
      PROVE  /\ Sorted(S, Later)[k] \in S
             /\ Cardinality({y \in S : Later(y, Sorted(S, Later)[k])}) = k - 1
  <2>1. \E x \in S : Cardinality({y \in S : Later(y, x)}) = k - 1
    <3>1. PICK x \in S : Cardinality(Ahead(x, S, LaterIn(S))) = k - 1
      BY <1>1, ListPlaces
    <3> QED
      BY <1>2, <3>1
  <2> QED
    BY <2>1, Zenon DEF Sorted
<1>4. Sorted(S, Later) \in [1 .. Cardinality(S) -> S]
  BY <1>3 DEF Sorted
<1> QED
  BY <1>1, <1>2, <1>3, <1>4, ListPlaces

\* What is said of the rows while they are typed: the rows online are finite many,
\* each with its id and time.
Typed == contents \in [Content -> Row]
Positions == [released : Nat, id : Content]

\* A page asked for with a cursor holds rows beyond the cursor, each once, all of
\* them unless the page is full; then its last row is the cursor of the next page,
\* and what is left out lies beyond it.
LEMMA PageFacts ==
    ASSUME Typed, NEW position \in Positions \cup {None}, NEW limit \in Nat
    PROVE  LET found == ListPublishedContents(position, limit)
           IN  /\ found \in Seq({Item(i) : i \in Beyond(position)})
               /\ Len(found) <= limit
               /\ \A j, k \in 1 .. Len(found) : j < k => Later(found[j], found[k])
               /\ \A i \in Beyond(position) :
                      \/ \E k \in 1 .. Len(found) : found[k] = Item(i)
                      \/ /\ Len(found) = limit
                         /\ \A k \in 1 .. limit : Later(found[k], Item(i))
<1> DEFINE B == Beyond(position)
           S == {Item(i) : i \in B}
           found == ListPublishedContents(position, limit)
<1>1. B \subseteq Content /\ IsFiniteSet(B)
  <2>1. B \subseteq Content
    BY DEF Beyond
  <2> HIDE DEF B
  <2> QED
    BY <2>1, FS_Subset, CatalogueAssumption
<1>2. IsFiniteSet(S)
  <2> HIDE DEF B
  <2> DEFINE f == [i \in B |-> Item(i)]
  <2>1. f \in Surjection(B, S)
    BY DEF Surjection
  <2> HIDE DEF f, S
  <2> QED
    BY <1>1, <2>1, FS_Surjection
<1>3. \A i \in Content : Item(i).id = i /\ Item(i).released \in Nat /\ i \in Nat
  BY CatalogueAssumption DEF Typed, Item, Row
<1>4. \A x \in S : x.id \in Nat /\ x.released \in Nat
  BY <1>1, <1>3
<1>5. \A x, y \in S : x.id = y.id => x = y
  BY <1>1, <1>3
<1> HIDE DEF S
<1>6. Ordered(LaterIn(S), S) /\ Lists(Sorted(S, Later), S, LaterIn(S))
  BY <1>2, <1>4, <1>5, SortedByRelease
<1>7. PICK s : s = Sorted(S, Later)
  OBVIOUS
<1>7a. found = FirstOf(s, limit)
  BY <1>7 DEF ListPublishedContents, S
<1> HIDE DEF found
<1>8. /\ found \in Seq(S)
      /\ Len(found) <= limit
      /\ \A j, k \in 1 .. Len(found) : j < k => <<found[j], found[k]>> \in LaterIn(S)
      /\ \A x \in S : \/ \E k \in 1 .. Len(found) : found[k] = x
                      \/ /\ Len(found) = limit
                         /\ \A k \in 1 .. limit : <<found[k], x>> \in LaterIn(S)
  <2>1. PICK R : R = LaterIn(S)
    OBVIOUS
  <2>2. Ordered(R, S) /\ Lists(s, S, R)
    BY <1>6, <1>7, <2>1
  <2>3. /\ FirstOf(s, limit) \in Seq(S)
        /\ Len(FirstOf(s, limit)) <= limit
        /\ \A j, k \in 1 .. Len(FirstOf(s, limit)) :
               j < k => <<FirstOf(s, limit)[j], FirstOf(s, limit)[k]>> \in R
        /\ \A x \in S :
               \/ \E k \in 1 .. Len(FirstOf(s, limit)) : FirstOf(s, limit)[k] = x
               \/ /\ Len(FirstOf(s, limit)) = limit
                  /\ \A k \in 1 .. limit : <<FirstOf(s, limit)[k], x>> \in R
    BY ONLY <1>2, <2>2, limit \in Nat, FirstOfLists
  <2> QED
    BY <1>7a, <2>1, <2>3
<1>9. \A x, y : <<x, y>> \in LaterIn(S) => Later(x, y)
  BY DEF LaterIn
<1>10. \A i \in B : Item(i) \in S
  BY DEF S
<1> QED
  BY <1>8, <1>9, <1>10 DEF S, found

-----------------------------------------------------------------------------
\* The rows of the contents and the open transactions are such as the program makes.
StoreTypes ==
    /\ now \in 1 .. MaxNow
    /\ Typed
    /\ tx \in [Writer -> Transaction \cup {None, Done}]

\* Every writer leaves a row, and a higher revision.
Stored(i, row) ==
    /\ Store(i, row)
    /\ row \in Row
    /\ row.revision = contents[i].revision + 1

\* What a publication or a page says is typed.
LEMMA TransactionTyped ==
    ASSUME NEW t \in Transaction
    PROVE  /\ t.item \in Content /\ t.doc \in Doc
           /\ t.status \in {"review", "published"} /\ t.started \in Nat
<1>1. \A d \in UNION Range(Document) : d \in Doc
  BY StockAssumption DEF Range
<1>2. /\ t.item \in Content /\ t.doc \in UNION Range(Document)
      /\ t.status \in {"review", "published"} /\ t.started \in 1 .. MaxNow
  BY DEF Transaction
<1> QED
  BY <1>1, <1>2, CatalogueAssumption

\* A publication, a recrawl and the operator leave a row of its type, one revision on.
LEMMA RowsWritten ==
    ASSUME NEW row \in Row, NEW doc \in Doc, NEW time \in Nat,
           NEW status \in {"review", "published", "hidden"},
           NEW t, t.doc = doc, t.started = time, t.status = status
    PROVE  /\ Republished(row, t) \in Row
           /\ Republished(row, t).revision = row.revision + 1
           /\ Recrawled(row, t) \in Row
           /\ Recrawled(row, t).revision = row.revision + 1
<1>1. /\ row.revision \in Nat /\ row.released \in Nat /\ row.series \in Series \cup {None}
      /\ row.categories \in SUBSET Nat /\ row.assets \in SUBSET {"cms", "audio", "other"}
  BY DEF Row
<1>2. /\ doc.level \in Nat /\ doc.goals \in SUBSET Goal /\ doc.quality \in Int
      /\ doc.series \in Series \cup {None} /\ doc.dated \in Nat
      /\ doc.topics \in SUBSET Nat /\ doc.media \in SUBSET {"audio", "other"}
  BY DEF Doc
<1>3. status \in Status /\ "published" \in Status
  BY DEF Status
<1>4. PICK n \in Nat : n = row.revision + 1
  BY <1>1
<1>5. PICK level \in Nat, goals \in SUBSET Goal, quality \in Int, dated \in Nat,
           series \in Series \cup {None} :
          /\ level = doc.level /\ goals = doc.goals
          /\ quality = doc.quality /\ dated = doc.dated /\ series = doc.series
  BY <1>2
<1>6. Republished(row, t) \in Row /\ Republished(row, t).revision = n
  <2>1. PICK c \in SUBSET Nat :
            c = ({doc.level} \ {NoLevel, Unclassified}) \cup doc.topics
    BY <1>2
  <2>2. PICK a \in SUBSET {"cms", "audio", "other"} :
            a = (row.assets \ {"audio"}) \cup {"cms"}
    BY <1>1
  <2>3. Republished(row, t)
          = [row EXCEPT !.status = "published", !.released = time, !.revision = n,
                !.level = level, !.goals = goals, !.quality = quality,
                !.dated = dated, !.series = series, !.categories = c, !.assets = a]
    BY <1>4, <1>5, <2>1, <2>2, Zenon DEF Republished
  <2> QED
    BY <1>3, <1>5, <2>3, ZenonT(60) DEF Row
<1>7. PICK e \in Nat : e = ReleasedWhen(row, status, t)
  BY <1>1 DEF ReleasedWhen
<1>8. PICK u \in Row : u = UpsertContent(row, t) /\ u.revision = n
  <2>1. UpsertContent(row, t)
          = [row EXCEPT !.status = status, !.released = e, !.revision = n,
                !.level = level, !.dated = dated]
    BY <1>4, <1>5, <1>7, Zenon DEF UpsertContent
  <2>2. UpsertContent(row, t) \in Row /\ UpsertContent(row, t).revision = n
    BY <1>3, <1>4, <1>5, <1>7, <2>1 DEF Row
  <2> QED
    BY <2>2
<1>9. Recrawled(row, t) \in Row /\ Recrawled(row, t).revision = n
  <2>1. PICK s \in Series \cup {None} : s = IF doc.series = None THEN u.series ELSE doc.series
    BY <1>2 DEF Row
  <2>2. PICK c \in SUBSET Nat : c = u.categories \cup ({doc.level} \ {NoLevel})
    BY <1>2 DEF Row
  <2>3. PICK a \in SUBSET {"cms", "audio", "other"} : a = u.assets \cup doc.media
    BY <1>2 DEF Row
  <2>4. Recrawled(row, t) = [u EXCEPT !.series = s, !.categories = c, !.assets = a]
    BY <1>8, <2>1, <2>2, <2>3, Zenon DEF Recrawled, Linked
  <2> QED
    BY <1>8, <2>4 DEF Row
<1> QED
  BY <1>4, <1>6, <1>9

\* What the operator leaves.
LEMMA RowsModerated ==
    ASSUME NEW row \in Row, NEW time \in Nat, NEW status \in {"published", "hidden"}
    PROVE  LET left == Moderated(row, [status |-> status, started |-> time])
           IN  left \in Row /\ left.revision = row.revision + 1
<1> DEFINE t == [status |-> status, started |-> time]
<1>1. t.status = status /\ t.started = time
  OBVIOUS
<1>2. row.released \in Nat /\ row.revision \in Nat /\ status \in Status
  BY DEF Row, Status
<1>3. PICK e2 \in Nat : e2 = ReleasedWhen(row, status, t)
  BY <1>1, <1>2 DEF ReleasedWhen
<1>4. PICK n \in Nat : n = row.revision + 1
  BY <1>2
<1> HIDE DEF t
<1>5. Moderated(row, t) = [row EXCEPT !.status = status, !.released = e2, !.revision = n]
  BY <1>1, <1>3, <1>4, Zenon DEF Moderated
<1>6. Moderated(row, t) \in Row /\ Moderated(row, t).revision = n
  BY <1>2, <1>5 DEF Row
<1> QED
  BY <1>4, <1>6 DEF t

\* A writer that commits leaves such a row.
LEMMA WritersStore ==
    ASSUME StoreTypes, NEW w \in Writer, Commit(w) \/ Moderate(w)
    PROVE  \E i \in Content : \E row : Stored(i, row)
<1>1. CASE Commit(w)
  <2> DEFINE t == tx[w]
             row == contents[t.item]
  <2>1. t \in Transaction
    BY <1>1 DEF Commit, StoreTypes
  <2>2. /\ t.item \in Content /\ t.doc \in Doc
        /\ t.status \in {"review", "published"} /\ t.started \in Nat
    BY <2>1, TransactionTyped
  <2>3. row \in Row
    BY <2>2 DEF StoreTypes, Typed
  <2>4. Store(t.item, Republished(row, t)) \/ Store(t.item, Recrawled(row, t))
    BY <1>1 DEF Commit
  <2> HIDE DEF t
  <2>5. /\ Republished(row, t) \in Row
        /\ Republished(row, t).revision = row.revision + 1
        /\ Recrawled(row, t) \in Row
        /\ Recrawled(row, t).revision = row.revision + 1
    BY <2>2, <2>3, RowsWritten
  <2> QED
    BY <2>2, <2>4, <2>5 DEF Stored
<1>2. CASE Moderate(w)
  <2>1. PICK i \in Content, status \in {"published", "hidden"} :
            Store(i, Moderated(contents[i], [status |-> status, started |-> now]))
    BY <1>2 DEF Moderate
  <2>2. contents[i] \in Row /\ now \in Nat
    BY <2>1, CatalogueAssumption DEF StoreTypes, Typed
  <2> DEFINE left == Moderated(contents[i], [status |-> status, started |-> now])
  <2>3. left \in Row /\ left.revision = contents[i].revision + 1
    BY <2>2, RowsModerated
  <2>4. Store(i, left)
    BY <2>1
  <2> HIDE DEF left
  <2>5. Stored(i, left)
    BY <2>3, <2>4 DEF Stored
  <2> QED
    BY <2>5
<1> QED
  BY <1>1, <1>2

\* The rows and the transactions keep their types.
LEMMA StoreTypesInitially ==
    ASSUME Init
    PROVE  StoreTypes
<1>1. contents \in [Content -> Row]
  BY StockAssumption DEF Init
<1> QED
  BY <1>1 DEF Init, StoreTypes, Typed

\* The rows and the transactions keep their types in every step.
LEMMA StoreTypesKept ==
    ASSUME StoreTypes, [Next]_vars
    PROVE  StoreTypes'
<1>1. CASE \E w \in Writer : Commit(w) \/ Moderate(w)
  <2>1. PICK w \in Writer : Commit(w) \/ Moderate(w)
    BY <1>1
  <2>2. PICK i \in Content : \E row : Stored(i, row)
    BY <2>1, WritersStore
  <2>2a. PICK row : Stored(i, row)
    BY <2>2
  <2>3. contents' = [contents EXCEPT ![i] = row] /\ row \in Row /\ now' = now
    BY <2>2a DEF Stored, Store
  <2>4. tx' = [tx EXCEPT ![w] = Done]
    BY <2>1 DEF Commit, Moderate
  <2> QED
    BY <2>3, <2>4 DEF StoreTypes, Typed
<1>2. CASE \E w \in Writer : Begin(w)
  BY <1>2 DEF Begin, StoreTypes, Typed
<1>3. CASE Tick
  BY <1>3, CatalogueAssumption DEF Tick, StoreTypes, Typed
<1>4. CASE UNCHANGED store
  BY <1>4 DEF store, StoreTypes, Typed
<1>5. ASSUME Next,
             ~ \E w \in Writer : Begin(w) \/ Commit(w) \/ Moderate(w),
             ~ Tick
      PROVE  UNCHANGED store
  BY <1>5 DEF Next, Learn, Practise, SaveWord, Traverse, Home, CategoryContents, Search, Show,
       OpenHome, OpenContent, OpenSeries, Handler, NextPage, ReadAssets, ReadItems,
       ReadProgress, ReadGrammar, ReadWords, Fail, FailFirst, Rest
<1>6. UNCHANGED vars => UNCHANGED store
  BY DEF vars, store
<1> QED
  BY <1>1, <1>2, <1>3, <1>4, <1>5, <1>6

-----------------------------------------------------------------------------
\* Each step is a writer's, one that touches neither the contents nor the request,
\* or one of the request.
Elsewhere == contents' = contents /\ UNCHANGED <<request, shown, steady, sunk>>
Reading ==
    \/ Traverse \/ Home \/ CategoryContents \/ Search \/ OpenHome
    \/ \E i \in Content : OpenContent(i)
    \/ \E s \in Series : OpenSeries(s)
    \/ NextPage \/ ReadAssets \/ ReadItems
    \/ ReadProgress \/ ReadGrammar \/ ReadWords
    \/ Fail \/ FailFirst \/ Rest

\* The steps by what they touch.
LEMMA StepKinds ==
    ASSUME StoreTypes, [Next]_vars
    PROVE  \/ \E i \in Content : \E row : Stored(i, row)
           \/ Elsewhere
           \/ Reading
<1>1. CASE \E w \in Writer : Commit(w) \/ Moderate(w)
  BY <1>1, WritersStore
<1>2. CASE \E w \in Writer : Begin(w)
  BY <1>2 DEF Begin, Elsewhere, witness
<1>3. CASE Tick \/ Learn \/ Practise \/ SaveWord
  BY <1>3 DEF Tick, Learn, Practise, SaveWord, store, Elsewhere, witness
<1>4. CASE UNCHANGED vars
  BY <1>4 DEF vars, Elsewhere, request
<1> QED
  BY <1>1, <1>2, <1>3, <1>4 DEF Next, Handler, Reading

\* A request leaves the contents, the clock and the writers alone.
LEMMA ReadingsLeaveTheStore ==
    ASSUME Reading
    PROVE  contents' = contents
BY DEF Reading, store, Traverse, Home, CategoryContents, Search, Show, OpenHome,
       OpenContent, OpenSeries, NextPage, ReadAssets, ReadItems, ReadProgress,
       ReadGrammar, ReadWords, Fail, FailFirst, Rest

-----------------------------------------------------------------------------
\* A row read earlier of a content: its revision tells whether it is still the row.
Read(i, row) ==
    /\ row \in Row
    /\ row.revision <= contents[i].revision
    /\ row.revision = contents[i].revision => row = contents[i]

\* The row a request has read before the assets, and the copy of the device.
CopyInv ==
    /\ pc = "assets" => asked \in Content /\ Read(asked, rows[1])
    /\ copy.content # None =>
           /\ copy.content \in Content
           /\ Read(copy.content, copy.row)
           /\ copy.row.revision = contents[copy.content].revision =>
                  copy.assets \in {{}, contents[copy.content].assets}

\* A row read stays one that was read when a content gets another row.
LEMMA ReadKept ==
    ASSUME Typed, NEW i \in Content, NEW row, Stored(i, row),
           NEW j \in Content, NEW old, Read(j, old)
    PROVE  /\ old \in Row
           /\ old.revision <= contents'[j].revision
           /\ old.revision = contents'[j].revision =>
                  contents'[j] = contents[j] /\ old = contents[j]
<1>1. contents' = [contents EXCEPT ![i] = row] /\ row.revision = contents[i].revision + 1
  BY DEF Stored, Store
<1>2. contents[j] \in Row /\ old \in Row
  BY DEF Typed, Read
<1>3. contents[j].revision \in Nat /\ old.revision \in Nat
  BY <1>2 DEF Row
<1>4. CASE i = j
  <2>1. contents'[j] = row
    BY <1>1, <1>4 DEF Typed
  <2>2. old.revision < contents'[j].revision
    BY <1>1, <1>3, <1>4, <2>1 DEF Read
  <2> QED
    BY <1>2, <1>3, <1>1, <1>4, <2>1, <2>2
<1>5. CASE i # j
  BY <1>1, <1>5 DEF Typed, Read
<1> QED
  BY <1>4, <1>5

\* Copies and rows read stay right in every step.
LEMMA CopyInvKept ==
    ASSUME StoreTypes, CopyInv, [Next]_vars
    PROVE  CopyInv'
<1> USE DEF StoreTypes
<1>1. CASE \E i \in Content : \E row : Stored(i, row)
  <2>0. PICK i \in Content : \E row : Stored(i, row)
    BY <1>1
  <2>1. PICK row : Stored(i, row)
    BY <2>0
  <2>2. UNCHANGED <<pc, asked, rows, copy>>
    BY <2>1 DEF Stored, Store, request
  <2>3. ASSUME pc = "assets"
        PROVE  asked \in Content /\ Read(asked, rows[1])'
    BY <2>1, <2>2, <2>3, ReadKept DEF CopyInv, Read
  <2>4. ASSUME copy.content # None
        PROVE  /\ copy.content \in Content
               /\ Read(copy.content, copy.row)'
               /\ copy.row.revision = contents'[copy.content].revision =>
                      copy.assets \in {{}, contents'[copy.content].assets}
    <3>1. copy.content \in Content /\ Read(copy.content, copy.row)
      BY <2>4 DEF CopyInv
    <3>2. /\ copy.row \in Row
          /\ copy.row.revision <= contents'[copy.content].revision
          /\ copy.row.revision = contents'[copy.content].revision =>
                 /\ contents'[copy.content] = contents[copy.content]
                 /\ copy.row = contents[copy.content]
      BY <2>1, <3>1, ReadKept
    <3> QED
      BY <2>2, <2>4, <3>1, <3>2 DEF CopyInv, Read
  <2> QED
    BY <2>2, <2>3, <2>4 DEF CopyInv
<1>2. ASSUME contents' = contents, copy' = copy,
             pc' = "assets" => pc = "assets" /\ asked' = asked /\ rows' = rows
      PROVE  CopyInv'
  BY <1>2 DEF CopyInv, Read
<1>3. CASE Elsewhere
  BY <1>2, <1>3 DEF Elsewhere, request
<1>4. CASE \E i \in Content : OpenContent(i)
  <2>1. PICK i \in Content : OpenContent(i)
    BY <1>4
  <2>2. contents' = contents /\ copy' = copy
    BY <2>1 DEF OpenContent, store
  <2>3. ASSUME pc' = "assets"
        PROVE  asked' \in Content /\ Read(asked, rows[1])'
    <3>1. asked' = i /\ rows' = <<contents[i]>>
      BY <2>1, <2>3 DEF OpenContent, Answer
    <3>2. contents[i] \in Row /\ contents[i].revision <= contents[i].revision
      BY DEF Typed, Row
    <3> QED
      BY <2>2, <3>1, <3>2 DEF Read
  <2> QED
    BY <2>2, <2>3 DEF CopyInv, Read
<1>5. CASE ReadAssets
  <2>1. contents' = contents /\ pc' = "answered" /\ pc = "assets"
    BY <1>5 DEF ReadAssets, store, Answer
  <2>2. asked \in Content /\ Read(asked, rows[1])
    BY <2>1 DEF CopyInv
  <2>3. CASE copy' = copy
    BY <1>2, <2>1, <2>3
  <2>4. ASSUME NEW found \in {contents[asked].assets, {}},
               copy' = [content |-> asked, row |-> rows[1], assets |-> found]
        PROVE  CopyInv'
    BY <2>1, <2>2, <2>4 DEF CopyInv, Read
  <2> QED
    BY <1>5, <2>3, <2>4 DEF ReadAssets
<1>6. ASSUME Reading, ~ \E i \in Content : OpenContent(i), ~ ReadAssets
      PROVE  /\ contents' = contents /\ copy' = copy
             /\ pc' = "assets" => pc = "assets" /\ asked' = asked /\ rows' = rows
  BY <1>6 DEF Reading, store, Traverse, Home, CategoryContents, Search, Show, OpenHome,
       OpenSeries, NextPage, ReadItems, ReadProgress, ReadGrammar, ReadWords, Fail, FailFirst, Rest,
       Arrive, Answer
<1> QED
  BY <1>1, <1>2, <1>3, <1>4, <1>5, <1>6, StepKinds

-----------------------------------------------------------------------------
\* Progress by its time, candidates by their score, positions by number.
NewerIn(S) == {p \in S \X S : Newer(p[1], p[2])}
PrecedesIn(S) == {p \in S \X S : Precedes(p[1], p[2])}
LessIn(S) == {p \in S \X S : p[1] < p[2]}

\* Rows of progress with different times are in one order by them.
LEMMA SortedByUpdate ==
    ASSUME NEW S, IsFiniteSet(S), \A x \in S : x.updated \in Int,
           \A x, y \in S : x.updated = y.updated => x = y
    PROVE  /\ Ordered(NewerIn(S), S)
           /\ Lists(Sorted(S, Newer), S, NewerIn(S))
<1>1. Ordered(NewerIn(S), S)
  <2>1. ASSUME NEW x \in S, NEW y \in S
        PROVE  <<x, y>> \in NewerIn(S) <=> Newer(x, y)
    BY DEF NewerIn
  <2>2. \A x \in S : ~ (Newer(x, x))
    BY DEF Newer
  <2>3. \A x, y, z \in S : Newer(x, y) /\ Newer(y, z) => Newer(x, z)
    BY DEF Newer
  <2>4. \A x, y \in S : x # y => Newer(x, y) \/ Newer(y, x)
    BY DEF Newer
  <2> QED
    BY <2>1, <2>2, <2>3, <2>4 DEF Ordered
<1>2. \A x \in S : Ahead(x, S, NewerIn(S)) = {y \in S : Newer(y, x)}
  BY DEF NewerIn, Ahead
<1>3. ASSUME NEW k \in 1 .. Cardinality(S)
      PROVE  /\ Sorted(S, Newer)[k] \in S
             /\ Cardinality({y \in S : Newer(y, Sorted(S, Newer)[k])}) = k - 1
  <2>1. \E x \in S : Cardinality({y \in S : Newer(y, x)}) = k - 1
    <3>1. PICK x \in S : Cardinality(Ahead(x, S, NewerIn(S))) = k - 1
      BY <1>1, ListPlaces
    <3> QED
      BY <1>2, <3>1
  <2> QED
    BY <2>1, Zenon DEF Sorted
<1>4. Sorted(S, Newer) \in [1 .. Cardinality(S) -> S]
  BY <1>3 DEF Sorted
<1> QED
  BY <1>1, <1>2, <1>3, <1>4, ListPlaces

\* Candidates with different ids are in one order by score, time and id.
LEMMA SortedByScore ==
    ASSUME NEW S, IsFiniteSet(S), \A x \in S : x.score \in Int /\ x.released \in Nat /\ x.id \in Nat,
           \A x, y \in S : x.id = y.id => x = y
    PROVE  /\ Ordered(PrecedesIn(S), S)
           /\ Lists(Sorted(S, Precedes), S, PrecedesIn(S))
<1>1. Ordered(PrecedesIn(S), S)
  <2>1. ASSUME NEW x \in S, NEW y \in S
        PROVE  <<x, y>> \in PrecedesIn(S) <=> Precedes(x, y)
    BY DEF PrecedesIn
  <2>2. \A x \in S : ~ (Precedes(x, x))
    BY DEF Precedes
  <2>3. \A x, y, z \in S : Precedes(x, y) /\ Precedes(y, z) => Precedes(x, z)
    BY DEF Precedes
  <2>4. \A x, y \in S : x # y => Precedes(x, y) \/ Precedes(y, x)
    BY DEF Precedes
  <2> QED
    BY <2>1, <2>2, <2>3, <2>4 DEF Ordered
<1>2. \A x \in S : Ahead(x, S, PrecedesIn(S)) = {y \in S : Precedes(y, x)}
  BY DEF PrecedesIn, Ahead
<1>3. ASSUME NEW k \in 1 .. Cardinality(S)
      PROVE  /\ Sorted(S, Precedes)[k] \in S
             /\ Cardinality({y \in S : Precedes(y, Sorted(S, Precedes)[k])}) = k - 1
  <2>1. \E x \in S : Cardinality({y \in S : Precedes(y, x)}) = k - 1
    <3>1. PICK x \in S : Cardinality(Ahead(x, S, PrecedesIn(S))) = k - 1
      BY <1>1, ListPlaces
    <3> QED
      BY <1>2, <3>1
  <2> QED
    BY <2>1, Zenon DEF Sorted
<1>4. Sorted(S, Precedes) \in [1 .. Cardinality(S) -> S]
  BY <1>3 DEF Sorted
<1> QED
  BY <1>1, <1>2, <1>3, <1>4, ListPlaces

\* Positions are in one order.
LEMMA SortedPositions ==
    ASSUME NEW S, IsFiniteSet(S), S \subseteq Nat
    PROVE  /\ Ordered(LessIn(S), S)
           /\ Lists(Sorted(S, <), S, LessIn(S))
<1>1. Ordered(LessIn(S), S)
  <2>1. ASSUME NEW x \in S, NEW y \in S
        PROVE  <<x, y>> \in LessIn(S) <=> x < y
    BY DEF LessIn
  <2>2. \A x \in S : ~ (x < x)
    OBVIOUS
  <2>3. \A x, y, z \in S : x < y /\ y < z => x < z
    OBVIOUS
  <2>4. \A x, y \in S : x # y => x < y \/ y < x
    OBVIOUS
  <2> QED
    BY <2>1, <2>2, <2>3, <2>4 DEF Ordered
<1>2. \A x \in S : Ahead(x, S, LessIn(S)) = {y \in S : y < x}
  BY DEF LessIn, Ahead
<1>3. ASSUME NEW k \in 1 .. Cardinality(S)
      PROVE  /\ Sorted(S, <)[k] \in S
             /\ Cardinality({y \in S : y < Sorted(S, <)[k]}) = k - 1
  <2>1. \E x \in S : Cardinality({y \in S : y < x}) = k - 1
    <3>1. PICK x \in S : Cardinality(Ahead(x, S, LessIn(S))) = k - 1
      BY <1>1, ListPlaces
    <3> QED
      BY <1>2, <3>1
  <2> QED
    BY <2>1, Zenon DEF Sorted
<1>4. Sorted(S, <) \in [1 .. Cardinality(S) -> S]
  BY <1>3 DEF Sorted
<1> QED
  BY <1>1, <1>2, <1>3, <1>4, ListPlaces

-----------------------------------------------------------------------------
\* A set of naturals that is not empty has a least member.
LEMMA LeastMember ==
    ASSUME NEW M \in SUBSET Nat, M # {}
    PROVE  \E m \in M : \A k \in M : m <= k
<1>1. PICK m \in M : \A k \in M : ~ (<<k, m>> \in OpToRel(<, Nat))
  BY NatLessThanWellFounded, WFMin
<1>2. \A k \in M : ~ (k < m)
  BY <1>1 DEF OpToRel
<1> QED
  BY <1>2

\* The entries of a history are finite many, and so are those of any kind.
LEMMA RangeFinite ==
    ASSUME NEW T, NEW s \in Seq(T)
    PROVE  IsFiniteSet(Range(s)) /\ Range(s) \subseteq T
<1>1. PICK n \in Nat : n = Len(s)
  OBVIOUS
<1>2. s \in Surjection(1 .. n, Range(s))
  BY <1>1 DEF Surjection, Range
<1>3. IsFiniteSet(1 .. n)
  BY <1>1, FS_Interval
<1> QED
  BY <1>1, <1>2, <1>3, FS_Surjection DEF Range

\* The loop that looks for the preferred level: what it holds after each round.
Rounds(g, rws, prg, order) ==
    [k \in 0 .. Len(order) |->
        IF k = 0 THEN NoLevel
        ELSE IF Better(rws, prg, order[k], g[k - 1])
        THEN order[k] ELSE g[k - 1]]

\* The loop has such a course.
LEMMA BestExists ==
    ASSUME NEW order, Len(order) \in Nat, NEW rws, NEW prg
    PROVE  \E g : g = Rounds(g, rws, prg, order)
<1>1. PICK n \in Nat : n = Len(order)
  OBVIOUS
<1> DEFINE Round(g, k) == IF Better(rws, prg, order[k], g[k - 1]) THEN order[k] ELSE g[k - 1]
           Held(g, m) == /\ g = [k \in 0 .. m |-> g[k]]
                         /\ g[0] = NoLevel
                         /\ \A k \in 1 .. m : g[k] = Round(g, k)
           M == {m \in Nat : ~ \E g : Held(g, m)}
<1>2. M = {}
  <2>1. SUFFICES ASSUME M # {} PROVE FALSE
    OBVIOUS
  <2>2. PICK m \in M : \A k \in M : m <= k
    <3> HIDE DEF M
    <3>1. M \in SUBSET Nat
      BY DEF M
    <3> QED
      BY <2>1, <3>1, LeastMember
  <2>3. m # 0
    <3>1. SUFFICES ASSUME m = 0 PROVE FALSE
      OBVIOUS
    <3> DEFINE g == [k \in 0 .. 0 |-> NoLevel]
    <3>2. Held(g, 0)
      OBVIOUS
    <3> QED
      BY <2>2, <3>1, <3>2
  <2>4. PICK g : Held(g, m - 1)
    <3>1. m - 1 \in Nat /\ ~ (m <= m - 1)
      BY <2>2, <2>3
    <3> QED
      BY <2>2, <3>1
  <2> DEFINE h == [k \in 0 .. m |-> IF k = m THEN Round(g, m) ELSE g[k]]
  <2>5. \A k \in 0 .. m - 1 : h[k] = g[k]
    BY <2>2, <2>3
  <2>6. h[m] = Round(g, m)
    BY <2>2
  <2>7. h = [k \in 0 .. m |-> h[k]]
    OBVIOUS
  <2> HIDE DEF h
  <2>8. \A k \in 1 .. m : h[k - 1] = g[k - 1]
    BY <2>2, <2>5
  <2>9. ASSUME NEW k \in 1 .. m - 1 PROVE h[k] = Round(h, k)
    <3>1. k \in 0 .. m - 1 /\ k \in 1 .. m
      BY <2>2
    <3>2. h[k] = g[k] /\ h[k - 1] = g[k - 1]
      BY <2>5, <2>8, <3>1
    <3>3. g[k] = Round(g, k)
      BY <2>4
    <3> QED
      BY <3>2, <3>3
  <2>10. h[m] = Round(h, m)
    BY <2>2, <2>3, <2>6, <2>8
  <2>11. h[0] = NoLevel
    BY <2>2, <2>3, <2>4, <2>5
  <2>12. Held(h, m)
    <3>1. ASSUME NEW k \in 1 .. m PROVE h[k] = Round(h, k)
      <4>1. k = m \/ k \in 1 .. m - 1
        BY <2>2
      <4> HIDE DEF Round
      <4> QED
        BY <2>9, <2>10, <4>1
    <3> HIDE DEF Round
    <3> QED
      BY <2>7, <2>11, <3>1
  <2> QED
    BY <2>2, <2>12
<1>3. PICK g : Held(g, n)
  BY <1>2
<1>4. ASSUME NEW k \in 0 .. n PROVE g[k] = IF k = 0 THEN NoLevel ELSE Round(g, k)
  <2>1. k = 0 \/ (k # 0 /\ k \in 1 .. n)
    BY <1>1
  <2> HIDE DEF Round
  <2> QED
    BY <1>3, <2>1
<1>5. g = [k \in 0 .. n |-> IF k = 0 THEN NoLevel ELSE Round(g, k)]
  BY <1>3, <1>4
<1> QED
  BY <1>1, <1>5 DEF Rounds

\* The activity of a level is a number, so that the levels are in one order by it.
LEMMA ActivityTyped ==
    ASSUME NEW rws, NEW prg \in Seq(Study), NEW level
    PROVE  Activity(rws, prg, level) \in Nat
<1> DEFINE P == {p \in Range(prg) : p.content \in Ids(rws) /\ RowOf(rws, p.content).level = level}
<1>1. IsFiniteSet(P)
  BY RangeFinite, FS_Subset
<1>2. Cardinality(P) \in Nat
  BY <1>1, FS_CardinalityType
<1> QED
  BY <1>2 DEF Activity

\* What the loop ends with is a level it was given, or none, and no level is better.
LEMMA PreferredIsBest ==
    ASSUME NEW rws, NEW prg \in Seq(Study), NEW order \in Seq(Nat)
    PROVE  LET best == PreferredLevel(rws, prg, order)
               offered == {NoLevel} \cup {order[k] : k \in 1 .. Len(order)}
           IN  /\ best \in offered
               /\ \A level \in offered : ~ Better(rws, prg, level, best)
<1>1. PICK n \in Nat : n = Len(order)
  OBVIOUS
<1>2. \A k \in 1 .. n : order[k] \in Nat
  BY <1>1
<1> DEFINE act(level) == Activity(rws, prg, level)
<1>3. \A level : act(level) \in Nat
  BY ActivityTyped
<1>4. \A l, m \in Nat : Better(rws, prg, l, m) <=> act(l) > act(m) \/ (act(l) = act(m) /\ l < m)
  BY DEF Better
<1> DEFINE b == CHOOSE g : g = Rounds(g, rws, prg, order)
<1>5. b = Rounds(b, rws, prg, order)
  <2>1. Len(order) \in Nat
    OBVIOUS
  <2>2. \E g : g = Rounds(g, rws, prg, order)
    BY <2>1, BestExists
  <2> QED
    BY <2>2, Zenon
<1>6. PreferredLevel(rws, prg, order) = b[n]
  BY <1>1 DEF PreferredLevel, Rounds
<1> HIDE DEF b
<1>7. /\ b[0] = NoLevel
      /\ \A k \in 1 .. n : b[k] = IF Better(rws, prg, order[k], b[k - 1])
                                  THEN order[k] ELSE b[k - 1]
  <2>1. 0 \in 0 .. Len(order) /\ \A k \in 1 .. n : k \in 0 .. Len(order) /\ k # 0
    BY <1>1
  <2> QED
    BY <1>5, <2>1 DEF Rounds
<1> DEFINE offered(k) == {NoLevel} \cup {order[j] : j \in 1 .. k}
           Best(k) == /\ b[k] \in offered(k)
                      /\ \A level \in offered(k) : ~ Better(rws, prg, level, b[k])
           M == {k \in 0 .. n : ~ Best(k)}
<1> HIDE DEF act
<1>8. M = {}
  <2>1. SUFFICES ASSUME M # {} PROVE FALSE
    OBVIOUS
  <2>2. PICK k \in M : \A j \in M : k <= j
    <3> HIDE DEF Best
    <3>1. M \in SUBSET Nat
      BY <1>1
    <3> HIDE DEF M
    <3> QED
      BY <2>1, <3>1, LeastMember
  <2>3. k \in 0 .. n /\ ~ Best(k)
    BY <2>2
  <2>4. k # 0
    <3>1. SUFFICES ASSUME k = 0 PROVE FALSE
      OBVIOUS
    <3>2. offered(0) = {NoLevel}
      OBVIOUS
    <3>3. ~ Better(rws, prg, NoLevel, NoLevel)
      BY <1>3, <1>4 DEF NoLevel
    <3> QED
      BY <1>7, <2>3, <3>1, <3>2, <3>3
  <2>5. k \in 1 .. n /\ k - 1 \in 0 .. n
    BY <2>3, <2>4
  <2>6. Best(k - 1)
    <3> HIDE DEF Best
    <3> QED
      BY <2>2, <2>5
  <2>7. offered(k) = offered(k - 1) \cup {order[k]}
    <3>1. 1 .. k = (1 .. k - 1) \cup {k}
      BY <2>5
    <3> QED
      BY <3>1
  <2>8. offered(k) \subseteq Nat
    BY <1>2, <2>5 DEF NoLevel
  <2> DEFINE old == b[k - 1]
             new == order[k]
  <2>9. old \in Nat /\ new \in Nat
    BY <2>6, <2>7, <2>8
  <2>10. b[k] = IF Better(rws, prg, new, old) THEN new ELSE old
    BY <1>7, <2>5
  <2>11. b[k] \in offered(k)
    BY <2>6, <2>7, <2>10
  <2>12. ASSUME NEW level \in offered(k) PROVE ~ Better(rws, prg, level, b[k])
    <3>1. level \in Nat
      BY <2>8
    <3>2. level = new \/ ~ Better(rws, prg, level, old)
      BY <2>6, <2>7
    <3> HIDE DEF old, new, offered
    <3>3. PICK x \in Nat, y \in Nat, z \in Nat : x = act(level) /\ y = act(old) /\ z = act(new)
      BY <1>3
    <3>4. CASE Better(rws, prg, new, old)
      BY <1>4, <2>9, <2>10, <3>1, <3>2, <3>3, <3>4
    <3>5. CASE ~ Better(rws, prg, new, old)
      BY <1>4, <2>9, <2>10, <3>1, <3>2, <3>3, <3>5
    <3> QED
      BY <3>4, <3>5
  <2> QED
    BY <2>3, <2>11, <2>12
<1>9. Best(n)
  <2> HIDE DEF Best
  <2> QED
    BY <1>1, <1>8
<1> QED
  BY <1>1, <1>6, <1>9

\* The level the loop ends with is the same in whatever order it is given the levels.
LEMMA PreferredIsOne ==
    ASSUME NEW rws, NEW prg \in Seq(Study), NEW L \in SUBSET Nat, IsFiniteSet(L),
           NEW first \in SetToSeqs(L), NEW second \in SetToSeqs(L)
    PROVE  PreferredLevel(rws, prg, first) = PreferredLevel(rws, prg, second)
<1>1. PICK n \in Nat : n = Cardinality(L)
  BY FS_CardinalityType
<1>2. ASSUME NEW s \in SetToSeqs(L)
      PROVE  s \in Seq(Nat) /\ {s[k] : k \in 1 .. Len(s)} = L
  <2>1. s \in [1 .. n -> L] /\ \A i, j \in 1 .. n : i # j => s[i] # s[j]
    BY <1>1 DEF SetToSeqs
  <2>2. s \in Injection(1 .. n, L)
    BY <2>1 DEF Injection, IsInjective
  <2>2a. Cardinality(1 .. n) = Cardinality(L)
    BY <1>1, FS_Interval
  <2>3. s \in Surjection(1 .. n, L)
    BY <2>2, <2>2a, FS_Injection
  <2>4. Len(s) = n /\ s \in Seq(Nat)
    <3>1. \A k \in 1 .. n : s[k] \in Nat
      BY <2>1
    <3> QED
      BY <1>1, <2>1, <3>1
  <2>5. \A k \in 1 .. n : s[k] \in L
    BY <2>1
  <2>6. \A level \in L : \E k \in 1 .. n : s[k] = level
    BY <2>3, Zenon DEF Surjection
  <2>7. {s[k] : k \in 1 .. n} = L
    BY <2>5, <2>6, Zenon
  <2> QED
    BY <2>4, <2>7
<1> DEFINE offered == {NoLevel} \cup L
           p == PreferredLevel(rws, prg, first)
           q == PreferredLevel(rws, prg, second)
<1>3. p \in offered /\ \A level \in offered : ~ Better(rws, prg, level, p)
  <2>1. first \in Seq(Nat) /\ {first[k] : k \in 1 .. Len(first)} = L
    BY <1>2
  <2> QED
    BY <2>1, PreferredIsBest
<1>4. q \in offered /\ \A level \in offered : ~ Better(rws, prg, level, q)
  <2>1. second \in Seq(Nat) /\ {second[k] : k \in 1 .. Len(second)} = L
    BY <1>2
  <2> QED
    BY <2>1, PreferredIsBest
<1> HIDE DEF p, q
<1>5. p \in Nat /\ q \in Nat
  BY <1>3, <1>4 DEF NoLevel
<1>6. ~ Better(rws, prg, p, q) /\ ~ Better(rws, prg, q, p)
  BY <1>3, <1>4
<1>7. Activity(rws, prg, p) \in Nat /\ Activity(rws, prg, q) \in Nat
  BY ActivityTyped
<1>8. p = q
  BY <1>5, <1>6, <1>7 DEF Better
<1> QED
  BY <1>8 DEF p, q

-----------------------------------------------------------------------------
\* What the personal home is made from: the candidates, and the history with the
\* progress of a content in one row.
Candidate == [id : Content, released : Nat, level : Nat, goals : SUBSET Goal, quality : Int]
Candidates(rws) ==
    rws \in Seq(Candidate) /\ \A j, k \in DOMAIN rws : rws[j].id = rws[k].id => j = k
OneEach(prg) ==
    prg \in Seq(Study) /\ \A j, k \in DOMAIN prg : prg[j].content = prg[k].content => j = k

\* How much of a list FirstOf keeps.
LEMMA FirstOfLength ==
    ASSUME NEW T, NEW s \in Seq(T), NEW limit \in Nat
    PROVE  /\ DOMAIN FirstOf(s, limit) \subseteq DOMAIN s
           /\ \A k \in DOMAIN FirstOf(s, limit) : FirstOf(s, limit)[k] = s[k]
<1>1. PICK n \in Nat : n = Len(s)
  OBVIOUS
<1>2. PICK m \in Nat : m = Min({limit, n}) /\ m <= n
  BY <1>1 DEF Min
<1>3. FirstOf(s, limit) = [k \in 1 .. m |-> s[k]]
  BY <1>1, <1>2 DEF FirstOf
<1> QED
  BY <1>1, <1>2, <1>3

\* A lesson to continue is a candidate that is not finished.
LEMMA ContinuedFacts ==
    ASSUME NEW rws, NEW prg, OneEach(prg)
    PROVE  Range(Continued(rws, prg)) \subseteq Ids(rws) \ Completed(prg)
<1> DEFINE B == {k \in DOMAIN prg : /\ prg[k].content \in Ids(rws)
                                    /\ ~ prg[k].completed /\ prg[k].begun}
<1>1. PICK n \in Nat : n = Len(prg) /\ DOMAIN prg = 1 .. n
  BY DEF OneEach
<1>2. B \subseteq Nat /\ IsFiniteSet(B)
  <2>1. B \subseteq 1 .. n
    BY <1>1
  <2>2. IsFiniteSet(1 .. n)
    BY <1>1, FS_Interval
  <2>3. 1 .. n \subseteq Nat
    OBVIOUS
  <2> HIDE DEF B
  <2> QED
    BY <2>1, <2>2, <2>3, FS_Subset
<1>3. PICK s : s = Sorted(B, <)
  OBVIOUS
<1>4. Ordered(LessIn(B), B) /\ Lists(s, B, LessIn(B))
  BY <1>2, <1>3, SortedPositions
<1> DEFINE first == FirstOf(s, ContinueLimit)
<1>5. first \in Seq(B)
  <2>1. ContinueLimit \in Nat
    BY SectionAssumption
  <2> HIDE DEF B
  <2> QED
    BY <1>2, <1>4, <2>1, FirstOfLists
<1>6. Continued(rws, prg) = [k \in DOMAIN first |-> prg[first[k]].content]
  BY <1>3, Zenon DEF Continued
<1> HIDE DEF first
<1>7. ASSUME NEW i \in Range(Continued(rws, prg)) PROVE i \in Ids(rws) \ Completed(prg)
  <2>1. PICK k \in DOMAIN first : i = prg[first[k]].content
    BY <1>6, <1>7 DEF Range
  <2>2. first[k] \in B
    BY <1>5, <2>1
  <2>3. i \in Ids(rws) /\ first[k] \in DOMAIN prg /\ ~ prg[first[k]].completed
    BY <2>1, <2>2
  <2>4. ASSUME i \in Completed(prg) PROVE FALSE
    <3>1. PICK j \in DOMAIN prg : prg[j].completed /\ prg[j].content = i
      BY <2>4 DEF Completed, Range
    <3>2. j = first[k]
      BY <2>1, <2>3, <3>1 DEF OneEach
    <3> QED
      BY <2>3, <3>1, <3>2
  <2> QED
    BY <2>3, <2>4
<1> QED
  BY <1>7

\* The less and the greater of two numbers.
LEMMA OfTwo ==
    ASSUME NEW a \in Int, NEW b \in Int
    PROVE  Min({a, b}) \in Int /\ Max({a, b}) \in Int
<1>1. \E x \in {a, b} : \A y \in {a, b} : x <= y
  <2>1. a <= b \/ b <= a
    OBVIOUS
  <2> QED
    BY <2>1
<1>2. \E x \in {a, b} : \A y \in {a, b} : x >= y
  <2>1. a >= b \/ b >= a
    OBVIOUS
  <2> QED
    BY <2>1
<1>3. Min({a, b}) \in {a, b}
  BY <1>1 DEF Min
<1>4. Max({a, b}) \in {a, b}
  BY <1>2 DEF Max
<1> QED
  BY <1>3, <1>4

\* The score of a candidate is a number.
LEMMA ScoreTyped ==
    ASSUME NEW rws \in Seq(Candidate), NEW k \in DOMAIN rws, NEW preferred,
           NEW gr, NEW w \in Nat
    PROVE  Score(rws, k, preferred, gr, w) \in Int
<1>1. rws[k].quality \in Int /\ k \in Nat
  <2>1. k \in 1 .. Len(rws) /\ rws[k] \in Candidate
    OBVIOUS
  <2> QED
    BY <2>1 DEF Candidate
<1>2. QualityScore(rws[k]) \in Int
  <2>1. QualityScore(rws[k]) = Min({100, Max({0, rws[k].quality})})
    BY Zenon DEF QualityScore
  <2>2. 0 \in Int /\ 100 \in Int
    OBVIOUS
  <2>3. Max({0, rws[k].quality}) \in Int
    BY <1>1, <2>2, OfTwo, Zenon
  <2>4. Min({100, Max({0, rws[k].quality})}) \in Int
    BY <2>2, <2>3, OfTwo, Zenon
  <2> QED
    BY <2>1, <2>4, Zenon
<1>3. Max({0, 20 - (k - 1)}) \in Int
  <2>1. 0 \in Int /\ 20 - (k - 1) \in Int
    BY <1>1
  <2> QED
    BY <2>1, OfTwo, Zenon
<1>4. Min({15, 2 * w}) \in Int
  <2>1. 2 * w \in Int
    OBVIOUS
  <2> QED
    BY <2>1, OfTwo
<1> QED
  BY <1>2, <1>3, <1>4 DEF Score

\* The recommendations are candidates neither finished nor continued, and all of
\* them when there is room.
LEMMA RankedFacts ==
    ASSUME NEW rws, Candidates(rws), NEW prg, NEW gr, NEW w \in Nat, NEW preferred
    PROVE  LET top == FirstOf(Ranked(rws, prg, gr, w, preferred), ForYouLimit)
               left == Ids(rws) \ (Completed(prg) \cup Range(Continued(rws, prg)))
           IN  /\ Len(top) \in Nat /\ DOMAIN top = 1 .. Len(top)
               /\ \A k \in DOMAIN top : top[k].id \in left
               /\ Len(top) < ForYouLimit =>
                      \A i \in left : \E k \in DOMAIN top : top[k].id = i
<1> DEFINE out == Completed(prg) \cup Range(Continued(rws, prg))
           left == Ids(rws) \ out
           K == {k \in DOMAIN rws : rws[k].id \notin out}
           Entry(k) == [id |-> rws[k].id, released |-> rws[k].released,
                        score |-> Score(rws, k, preferred, gr, w),
                        reason |-> Reason(rws[k], preferred, gr, w)]
           S == {Entry(k) : k \in K}
           top == FirstOf(Ranked(rws, prg, gr, w, preferred), ForYouLimit)
<1>1. Ranked(rws, prg, gr, w, preferred) = Sorted(S, Precedes)
  BY DEF Ranked
<1> HIDE DEF out
<1>2. PICK n \in Nat : n = Len(rws) /\ DOMAIN rws = 1 .. n
  BY DEF Candidates
<1>3. IsFiniteSet(S)
  <2>1. IsFiniteSet(K)
    <3>1. K \subseteq 1 .. n /\ IsFiniteSet(1 .. n)
      BY <1>2, FS_Interval
    <3> QED
      BY <3>1, FS_Subset
  <2> HIDE DEF K, Entry
  <2> DEFINE f == [k \in K |-> Entry(k)]
  <2>2. f \in Surjection(K, S)
    BY DEF Surjection
  <2> HIDE DEF f, S
  <2> QED
    BY <2>1, <2>2, FS_Surjection
<1>4. ASSUME NEW k \in K
      PROVE  /\ Entry(k).score \in Int /\ Entry(k).released \in Nat
             /\ Entry(k).id \in Nat /\ Entry(k).id = rws[k].id /\ rws[k].id \in left
  <2>1. rws[k] \in Candidate
    BY DEF Candidates
  <2>2. rws[k].released \in Nat /\ rws[k].id \in Content
    BY <2>1 DEF Candidate
  <2>3. Score(rws, k, preferred, gr, w) \in Int
    BY ScoreTyped DEF Candidates
  <2> QED
    BY <2>2, <2>3, CatalogueAssumption DEF Ids
<1>5. \A x \in S : x.score \in Int /\ x.released \in Nat /\ x.id \in Nat /\ x.id \in left
  <2> HIDE DEF Entry, left, K
  <2> QED
    BY <1>4
<1>6. \A x, y \in S : x.id = y.id => x = y
  <2>1. \A j, k \in K : Entry(j).id = Entry(k).id => j = k
    BY <1>4 DEF Candidates
  <2> HIDE DEF Entry, left, K
  <2> QED
    BY <2>1
<1>7. \A i \in left : \E x \in S : x.id = i
  <2> TAKE i \in left
  <2>1. PICK k \in K : rws[k].id = i
    BY DEF Ids
  <2>2. Entry(k) \in S /\ Entry(k).id = i
    BY <2>1
  <2> QED
    BY <2>2
<1> HIDE DEF S, left
<1>8. PICK s : s = Sorted(S, Precedes)
  OBVIOUS
<1>9. Ordered(PrecedesIn(S), S) /\ Lists(s, S, PrecedesIn(S))
  BY <1>3, <1>5, <1>6, <1>8, SortedByScore
<1>10. top = FirstOf(s, ForYouLimit)
  BY <1>1, <1>8
<1> HIDE DEF top
<1>11. /\ top \in Seq(S)
       /\ \A x \in S : (\E k \in 1 .. Len(top) : top[k] = x) \/ Len(top) = ForYouLimit
  <2>1. PICK limit \in Nat : limit = ForYouLimit
    BY SectionAssumption
  <2>2. PICK R : R = PrecedesIn(S)
    OBVIOUS
  <2>3. Ordered(R, S) /\ Lists(s, S, R)
    BY <1>9, <2>2
  <2>4. /\ FirstOf(s, limit) \in Seq(S)
        /\ \A x \in S :
               \/ \E k \in 1 .. Len(FirstOf(s, limit)) : FirstOf(s, limit)[k] = x
               \/ /\ Len(FirstOf(s, limit)) = limit
                  /\ \A k \in 1 .. limit : <<FirstOf(s, limit)[k], x>> \in R
    BY ONLY <1>3, <2>3, limit \in Nat, FirstOfLists
  <2> QED
    BY <1>10, <2>1, <2>4
<1>12. ForYouLimit \in Nat
  BY SectionAssumption
<1>13. \A k \in DOMAIN top : top[k].id \in left
  BY <1>5, <1>11
<1>14. Len(top) < ForYouLimit => \A i \in left : \E k \in DOMAIN top : top[k].id = i
  BY <1>7, <1>11, <1>12
<1> QED
  BY <1>11, <1>13, <1>14 DEF top, left, out

\* What the sections of the home hold, whatever the order of the levels.
LEMMA SectionFacts ==
    ASSUME NEW rws, Candidates(rws), NEW prg, OneEach(prg), NEW gr, NEW w \in Nat, NEW order
    PROVE  LET home == Sections(rws, prg, gr, w, order)
           IN  /\ Range(home.continue) \subseteq Ids(rws) \ Completed(prg)
               /\ Recommended(home) \subseteq
                      Ids(rws) \ (Completed(prg) \cup Range(home.continue))
               /\ Len(home.forYou) < ForYouLimit =>
                      Ids(rws) \ Completed(prg)
                          \subseteq Range(home.continue) \cup Recommended(home)
               /\ Range(home.latest) \subseteq Ids(rws)
<1> DEFINE home == Sections(rws, prg, gr, w, order)
           preferred == PreferredLevel(rws, prg, order)
           top == FirstOf(Ranked(rws, prg, gr, w, preferred), ForYouLimit)
           latest == FirstOf(rws, LatestLimit)
           left == Ids(rws) \ (Completed(prg) \cup Range(Continued(rws, prg)))
<1>1. /\ home.continue = Continued(rws, prg)
      /\ home.forYou = [k \in DOMAIN top |-> [id |-> top[k].id, reason |-> top[k].reason]]
      /\ home.latest = [k \in DOMAIN latest |-> rws[k].id]
  BY DEF Sections
<1>2. Range(Continued(rws, prg)) \subseteq Ids(rws) \ Completed(prg)
  BY ContinuedFacts
<1>3. /\ Len(top) \in Nat /\ DOMAIN top = 1 .. Len(top)
      /\ \A k \in DOMAIN top : top[k].id \in left
      /\ Len(top) < ForYouLimit => \A i \in left : \E k \in DOMAIN top : top[k].id = i
  BY RankedFacts
<1>4. DOMAIN latest \subseteq DOMAIN rws
  BY FirstOfLength, SectionAssumption DEF Candidates
<1> HIDE DEF home, top, latest, left, preferred
<1>5. Len(home.forYou) = Len(top) /\ Recommended(home) = {top[k].id : k \in DOMAIN top}
  <2>1. DOMAIN home.forYou = DOMAIN top /\ \A k \in DOMAIN top : home.forYou[k].id = top[k].id
    BY <1>1
  <2>2. Len(home.forYou) = Len(top)
    BY <1>1, <1>3
  <2> QED
    BY <2>1, <2>2 DEF Recommended
<1>6. Recommended(home) \subseteq left
  BY <1>3, <1>5
<1>7. Len(home.forYou) < ForYouLimit => left \subseteq Recommended(home)
  BY <1>3, <1>5
<1>8. Range(home.latest) \subseteq Ids(rws)
  BY <1>1, <1>4 DEF Range, Ids
<1> QED
  BY <1>1, <1>2, <1>6, <1>7, <1>8 DEF home, left

\* The levels of the lessons somebody has learnt are finite many.
LEMMA ActiveLevelsTyped ==
    ASSUME NEW rws, Candidates(rws), NEW prg \in Seq(Study)
    PROVE  IsFiniteSet(ActiveLevels(rws, prg)) /\ ActiveLevels(rws, prg) \in SUBSET Nat
<1> DEFINE P == {q \in Range(prg) : q.content \in Ids(rws)}
           f == [p \in P |-> RowOf(rws, p.content).level]
           L == {RowOf(rws, p.content).level : p \in P}
<1>1. IsFiniteSet(P)
  BY RangeFinite, FS_Subset
<1>2. f \in Surjection(P, L)
  BY DEF Surjection
<1>3. IsFiniteSet(L)
  <2> HIDE DEF P, f, L
  <2> QED
    BY <1>1, <1>2, FS_Surjection
<1>4. ASSUME NEW p \in P PROVE RowOf(rws, p.content).level \in Nat
  <2>1. \E row \in Range(rws) : row.id = p.content
    BY DEF Ids, Range
  <2>2. RowOf(rws, p.content) \in Range(rws)
    BY <2>1 DEF RowOf
  <2>3. Range(rws) \subseteq Candidate
    BY RangeFinite DEF Candidates
  <2> QED
    BY <2>2, <2>3 DEF Candidate
<1>5. ActiveLevels(rws, prg) = L \ {NoLevel}
  BY DEF ActiveLevels
<1>6. L \subseteq Nat
  BY <1>4
<1> HIDE DEF L
<1> QED
  BY <1>3, <1>5, <1>6, FS_Subset

-----------------------------------------------------------------------------
\* The learning data: progress of a content in one row, each with its own time.
LearningInv ==
    /\ studies \in Nat /\ words \in Nat
    /\ progress \subseteq Study
    /\ \A p \in progress : p.updated <= studies
    /\ \A p, q \in progress : p # q => p.updated # q.updated /\ p.content # q.content

\* What is finished in the learning data.
Ended == {p.content : p \in {q \in progress : q.completed}}

\* The progress as it is listed.
LEMMA ProgressListed ==
    ASSUME LearningInv
    PROVE  OneEach(ListProgress) /\ Completed(ListProgress) = Ended
<1>1. IsFiniteSet(progress)
  <2> DEFINE C == {p.content : p \in progress}
             f == [i \in C |-> CHOOSE p \in progress : p.content = i]
  <2>1. C \subseteq Content
    BY DEF LearningInv, Study
  <2>2. \A p \in progress : f[p.content] = p
    BY DEF LearningInv
  <2>2a. /\ f \in [C -> progress]
         /\ \A p \in progress : p.content \in C
    OBVIOUS
  <2> HIDE DEF C, f
  <2>3. f \in Surjection(C, progress)
    BY <2>2, <2>2a DEF Surjection
  <2>4. IsFiniteSet(C)
    BY <2>1, CatalogueAssumption, FS_Subset
  <2> QED
    BY <2>3, <2>4, FS_Surjection
<1>2. PICK s : s = ListProgress
  OBVIOUS
<1>3. Ordered(NewerIn(progress), progress) /\ Lists(s, progress, NewerIn(progress))
  <2>1. \A p \in progress : p.updated \in Int
    BY DEF LearningInv, Study
  <2>2. \A p, q \in progress : p.updated = q.updated => p = q
    BY DEF LearningInv
  <2> QED
    BY <1>1, <1>2, <2>1, <2>2, SortedByUpdate DEF ListProgress
<1>4. PICK n \in Nat : n = Cardinality(progress)
  BY <1>1, FS_CardinalityType
<1>5. /\ s \in [1 .. n -> progress]
      /\ \A j, k \in 1 .. n : s[j] = s[k] => j = k
      /\ \A p \in progress : \E k \in 1 .. n : s[k] = p
  <2>1. PICK R : R = NewerIn(progress)
    OBVIOUS
  <2>2. Ordered(R, progress) /\ Lists(s, progress, R)
    BY <1>3, <2>1
  <2> QED
    BY <1>1, <1>4, <2>2, ListFacts DEF Lists
<1>6. s \in Seq(Study)
  BY <1>4, <1>5 DEF LearningInv
<1>7. \A j, k \in 1 .. n : s[j].content = s[k].content => j = k
  BY <1>5 DEF LearningInv
<1>8. DOMAIN s = 1 .. n /\ Range(s) = progress
  BY <1>5 DEF Range
<1>9. Completed(s) = Ended
  BY <1>8 DEF Completed, Ended
<1> QED
  BY <1>2, <1>6, <1>7, <1>8, <1>9 DEF OneEach

\* A page of the list are candidates that are online.
LEMMA PageIsCandidates ==
    ASSUME Typed, NEW position \in Positions \cup {None}, NEW limit \in Nat
    PROVE  LET found == ListPublishedContents(position, limit)
           IN  Candidates(found) /\ Ids(found) \subseteq Beyond(position)
<1> DEFINE found == ListPublishedContents(position, limit)
           B == Beyond(position)
<1>1. /\ found \in Seq({Item(i) : i \in B})
      /\ \A j, k \in 1 .. Len(found) : j < k => Later(found[j], found[k])
  BY PageFacts
<1> HIDE DEF found
<1>2. B \subseteq Content
  BY DEF Beyond
<1>3. \A i \in Content : Item(i) \in Candidate /\ Item(i).id = i /\ Item(i).released \in Nat
  BY DEF Typed, Row, Item, Candidate
<1> HIDE DEF B
<1>4. ASSUME NEW k \in 1 .. Len(found)
      PROVE  /\ found[k] \in Candidate /\ found[k].id \in B
             /\ found[k] = Item(found[k].id) /\ found[k].released \in Nat
  <2>1. PICK i \in B : found[k] = Item(i)
    BY <1>1
  <2> QED
    BY <1>2, <1>3, <2>1
<1>5. DOMAIN found = 1 .. Len(found) /\ found \in Seq(Candidate)
  BY <1>1, <1>4
<1>6. ASSUME NEW j \in 1 .. Len(found), NEW k \in 1 .. Len(found), found[j].id = found[k].id
      PROVE  j = k
  <2>1. found[j] = found[k] /\ found[j].released \in Nat /\ found[j].id \in Nat
    BY <1>2, <1>4, <1>6, CatalogueAssumption
  <2>2. ~ Later(found[j], found[k]) /\ ~ Later(found[k], found[j])
    BY <2>1 DEF Later
  <2>3. j < k \/ j = k \/ k < j
    BY <1>1
  <2> QED
    BY <1>1, <2>2, <2>3
<1>7. Ids(found) \subseteq B
  BY <1>4, <1>5 DEF Ids
<1> QED
  BY <1>5, <1>6, <1>7 DEF found, B, Candidates

\* The learning data keep their shape.
LEMMA LearningInvKept ==
    ASSUME LearningInv, [Next]_vars
    PROVE  LearningInv'
<1>1. CASE Learn
  <2>1. PICK i \in {j \in Content : contents[j] # NoContent}, ended \in BOOLEAN, begun \in BOOLEAN :
            progress' = {p \in progress : p.content # i}
                \cup {[content |-> i, completed |-> ended, begun |-> begun,
                       updated |-> studies + 1]}
    BY <1>1 DEF Learn
  <2>2. studies' = studies + 1 /\ words' = words
    BY <1>1 DEF Learn
  <2> DEFINE new == [content |-> i, completed |-> ended, begun |-> begun,
                     updated |-> studies + 1]
  <2>3. new \in Study /\ new.content = i /\ new.updated = studies + 1
    BY DEF LearningInv, Study
  <2>4. progress' = {p \in progress : p.content # i} \cup {new}
    BY <2>1
  <2> HIDE DEF new
  <2>5. \A p \in progress : p \in Study /\ p.updated \in Int /\ p.updated <= studies
    BY DEF LearningInv, Study
  <2>6. \A p \in progress : p.updated < studies + 1
    BY <2>5 DEF LearningInv
  <2>7. \A p \in progress' : p \in Study /\ p.updated <= studies'
    BY <2>2, <2>3, <2>4, <2>5, <2>6 DEF LearningInv
  <2>8. \A p, q \in progress' : p # q => p.updated # q.updated /\ p.content # q.content
    BY <2>3, <2>4, <2>5, <2>6 DEF LearningInv
  <2> QED
    BY <2>2, <2>7, <2>8 DEF LearningInv
<1>2. CASE Practise \/ SaveWord
  <2>1. progress' = progress /\ studies' = studies + 1 /\ (words' = words + 1 \/ words' = words)
    BY <1>2 DEF Practise, SaveWord
  <2>2. \A p \in progress : p.updated \in Int
    BY DEF LearningInv, Study
  <2> QED
    BY <2>1, <2>2 DEF LearningInv
<1>3. ASSUME [Next]_vars, ~ Learn, ~ Practise, ~ SaveWord
      PROVE  UNCHANGED learning
  BY <1>3 DEF Next, vars, learning, Begin, Commit, Moderate, Store, Tick, Traverse, Home,
       CategoryContents, Search, Show, OpenHome, OpenContent, OpenSeries, Handler, NextPage,
       ReadAssets, ReadItems, ReadProgress, ReadGrammar, ReadWords, Fail, FailFirst, Rest
<1>4. UNCHANGED learning => LearningInv'
  BY DEF learning, LearningInv
<1> QED
  BY <1>1, <1>2, <1>3, <1>4

-----------------------------------------------------------------------------
\* The request for the home: its candidates, and what it has found of the person.
HomeInv ==
    /\ learnt = [progress |-> learnt.progress, grammar |-> learnt.grammar,
                 words |-> learnt.words]
    /\ pc \in {"progress", "grammar", "words"} => Candidates(rows)
    /\ pc = "progress" => finished \subseteq Ended
    /\ pc \in {"grammar", "words"} =>
           OneEach(learnt.progress) /\ finished \subseteq Completed(learnt.progress)
    /\ HomeIsSound

\* The answer stays sound as long as the request rests and no more is finished.
LEMMA SoundHomeRests ==
    ASSUME HomeIsSound, UNCHANGED <<pc, rows, learnt, answer>>, finished' \subseteq finished
    PROVE  HomeIsSound'
<1>1. Orders' = Orders /\ \A order : SectionsBy(order)' = SectionsBy(order)
  BY DEF Orders, SectionsBy
<1>2. \A home : Recommended(home)' = Recommended(home)
  BY DEF Recommended
<1> QED
  BY <1>1, <1>2 DEF HomeIsSound

\* The cursor and the list of what the traversal has shown.
RequestTypes ==
    /\ cursor \in Positions \cup {None}
    /\ listed \in [Content -> 0 .. 2]
    /\ pc \notin {"page", "answered"} =>
           cursor = None /\ listed = Unlisted /\ steady = {} /\ sunk = {}

\* The answer made last: sound, and of candidates only.
LEMMA HomeAnswered ==
    ASSUME HomeInv, LearningInv, ReadWords
    PROVE  HomeIsSound' /\ answer'.served \subseteq Ids(rows)
<1> DEFINE prg == learnt.progress
           gr == learnt.grammar
           w == words
<1>1. PICK order \in Orders :
          LET home == Sections(rows, prg, gr, w, order)
          IN  answer' = [status |-> 200, home |-> home,
                         served |-> Range(home.continue) \cup Recommended(home)
                                        \cup Range(home.latest)]
  BY DEF ReadWords
<1>2. /\ Candidates(rows) /\ OneEach(prg) /\ finished \subseteq Completed(prg)
      /\ w \in Nat /\ prg \in Seq(Study)
  BY DEF ReadWords, HomeInv, LearningInv, OneEach
<1>3. PICK home : home = Sections(rows, prg, gr, w, order)
  OBVIOUS
<1>4. /\ Range(home.continue) \subseteq Ids(rows) \ Completed(prg)
      /\ Recommended(home) \subseteq Ids(rows) \ (Completed(prg) \cup Range(home.continue))
      /\ Len(home.forYou) < ForYouLimit =>
             Ids(rows) \ Completed(prg) \subseteq Range(home.continue) \cup Recommended(home)
      /\ Range(home.latest) \subseteq Ids(rows)
  BY <1>2, <1>3, SectionFacts
<1>5. /\ answer'.home = home
      /\ answer'.served = Range(home.continue) \cup Recommended(home) \cup Range(home.latest)
  BY <1>1, <1>3
<1>6. /\ finished' = finished /\ rows' = rows
      /\ learnt'.progress = prg /\ learnt'.grammar = gr /\ learnt'.words = w
  BY DEF ReadWords, witness, HomeInv
<1>7. Orders' = Orders /\ \A other : SectionsBy(other)' = Sections(rows, prg, gr, w, other)
  BY <1>6 DEF Orders, SectionsBy
<1>8. ASSUME NEW other \in Orders
      PROVE  Sections(rows, prg, gr, w, other) = home
  <2>1. PICK L \in SUBSET Nat : L = ActiveLevels(rows, prg) /\ IsFiniteSet(L)
    BY <1>2, ActiveLevelsTyped
  <2>2. order \in SetToSeqs(L) /\ other \in SetToSeqs(L)
    BY <2>1 DEF Orders
  <2>3. PreferredLevel(rows, prg, other) = PreferredLevel(rows, prg, order)
    BY <1>2, <2>1, <2>2, PreferredIsOne
  <2> QED
    BY <1>3, <2>3 DEF Sections
<1>9. Recommended(answer.home)' = Recommended(home)
  BY <1>5 DEF Recommended
<1> HIDE DEF prg, gr, w
<1>10. HomeIsSound'
  <2>1. finished \cap (Range(home.continue) \cup Recommended(home)) = {}
    BY <1>2, <1>4
  <2>2. Range(home.continue) \cap Recommended(home) = {}
    BY <1>4
  <2>3. Len(home.forYou) < ForYouLimit =>
            (Ids(rows) \ Completed(learnt.progress))'
                \subseteq Range(home.continue) \cup Recommended(home)
    BY <1>4, <1>6 DEF Ids, Completed
  <2>4. \A other \in Orders' : SectionsBy(other)'.forYou = home.forYou
    BY <1>7, <1>8
  <2> QED
    BY <1>5, <1>6, <1>9, <2>1, <2>2, <2>3, <2>4 DEF HomeIsSound
<1> QED
  BY <1>4, <1>5, <1>10

\* What the home rests on, and its soundness, hold after every step.
LEMMA HomeInvKept ==
    ASSUME StoreTypes, RequestTypes, LearningInv, HomeInv, [Next]_vars
    PROVE  HomeInv'
<1>1. CASE Learn
  <2>1. /\ UNCHANGED <<pc, rows, learnt, answer>> /\ finished' \subseteq finished
        /\ pc = "progress" => finished' \subseteq Ended'
    <3>1. PICK i \in {j \in Content : contents[j] # NoContent}, ended \in BOOLEAN, begun \in BOOLEAN :
              /\ progress' = {p \in progress : p.content # i}
                     \cup {[content |-> i, completed |-> ended, begun |-> begun,
                            updated |-> studies + 1]}
              /\ finished' = IF ended THEN finished ELSE finished \ {i}
      BY <1>1 DEF Learn
    <3>2. \A p \in progress : p.content # i => p \in progress'
      BY <3>1
    <3>3. ended => \E p \in progress' : p.content = i /\ p.completed
      <4> DEFINE new == [content |-> i, completed |-> ended, begun |-> begun,
                         updated |-> studies + 1]
      <4>1. new \in progress' /\ new.content = i /\ new.completed = ended
        BY <3>1
      <4> HIDE DEF new
      <4> QED
        BY <4>1
    <3>4. finished \subseteq Ended => finished' \subseteq Ended'
      BY <3>1, <3>2, <3>3 DEF Ended
    <3> QED
      BY <1>1, <3>1, <3>4 DEF Learn, request, HomeInv
  <2>2. HomeIsSound'
    BY <2>1, SoundHomeRests DEF HomeInv
  <2> QED
    BY <2>1, <2>2 DEF HomeInv, Candidates, OneEach, Completed
<1>2. ASSUME UNCHANGED <<pc, rows, learnt, answer, finished, progress>>
      PROVE  HomeInv'
  <2>1. HomeIsSound'
    BY <1>2, SoundHomeRests DEF HomeInv
  <2> QED
    BY <1>2, <2>1 DEF HomeInv, Candidates, OneEach, Completed, Ended
<1>3. CASE OpenHome
  <2>1. /\ pc' = "progress" /\ learnt' = learnt
        /\ rows' = ListPublishedContents(None, CandidateLimit)
        /\ finished' = Ended /\ progress' = progress
    BY <1>3 DEF OpenHome, Arrive, Ended, learning
  <2>2. Candidates(rows')
    <3>1. CandidateLimit \in Nat /\ Typed
      BY CatalogueAssumption DEF StoreTypes
    <3> QED
      BY <2>1, <3>1, PageIsCandidates
  <2>3. Candidates(rows)' /\ Ended' = Ended
    BY <2>1, <2>2 DEF Candidates, Ended
  <2>4. HomeIsSound'
    BY <2>1 DEF HomeIsSound
  <2> QED
    BY <2>1, <2>3, <2>4 DEF HomeInv
<1>4. CASE ReadProgress
  <2>1. /\ pc = "progress" /\ pc' = "grammar" /\ rows' = rows /\ finished' = finished
        /\ learnt' = [learnt EXCEPT !.progress = ListProgress]
    BY <1>4 DEF ReadProgress, witness
  <2>2. /\ learnt'.progress = ListProgress
        /\ learnt' = [progress |-> learnt'.progress, grammar |-> learnt'.grammar,
                      words |-> learnt'.words]
    BY <2>1 DEF HomeInv
  <2>3. OneEach(ListProgress) /\ finished \subseteq Completed(ListProgress)
    BY <2>1, ProgressListed DEF HomeInv
  <2>4. OneEach(learnt.progress)' /\ (finished \subseteq Completed(learnt.progress))'
    BY <2>1, <2>2, <2>3 DEF OneEach, Completed
  <2>5. Candidates(rows)' /\ HomeIsSound'
    BY <2>1 DEF HomeInv, Candidates, HomeIsSound
  <2> QED
    BY <2>1, <2>2, <2>4, <2>5 DEF HomeInv
<1>5. CASE ReadGrammar
  <2>1. /\ pc = "grammar" /\ pc' = "words" /\ rows' = rows /\ finished' = finished
        /\ learnt' = [learnt EXCEPT !.grammar = grammar]
    BY <1>5 DEF ReadGrammar, witness
  <2>2. /\ learnt'.progress = learnt.progress
        /\ learnt' = [progress |-> learnt'.progress, grammar |-> learnt'.grammar,
                      words |-> learnt'.words]
    BY <2>1 DEF HomeInv
  <2>4. OneEach(learnt.progress)' /\ (finished \subseteq Completed(learnt.progress))'
    BY <2>1, <2>2 DEF HomeInv, OneEach, Completed
  <2>5. Candidates(rows)' /\ HomeIsSound'
    BY <2>1 DEF HomeInv, Candidates, HomeIsSound
  <2> QED
    BY <2>1, <2>2, <2>4, <2>5 DEF HomeInv
<1>6. CASE ReadWords
  <2>1. HomeIsSound'
    BY <1>6, HomeAnswered
  <2>2. pc' = "answered" /\ learnt' = [learnt EXCEPT !.words = words]
    BY <1>6 DEF ReadWords
  <2> QED
    BY <2>1, <2>2 DEF HomeInv
<1>7. ASSUME Reading, ~ OpenHome, ~ ReadProgress, ~ ReadGrammar, ~ ReadWords
      PROVE  HomeInv'
  <2>1. CASE UNCHANGED <<pc, rows, learnt, answer, finished, progress>>
    BY <1>2, <2>1
  <2>2. \/ /\ pc' \in {"page", "idle", "assets", "items"}
           /\ learnt' = learnt \/ learnt' = NothingLearnt
        \/ pc' = "answered" /\ answer'.home = NoSections /\ learnt' = learnt
        \/ UNCHANGED <<pc, rows, learnt, answer, finished, progress>>
    BY <1>7 DEF Reading, Traverse, Home, CategoryContents, Search, Show, OpenContent,
         OpenSeries, NextPage, ReadAssets, ReadItems, Fail, FailFirst, Rest, Arrive, Answer,
         witness, learning
  <2>3. ASSUME \/ pc' \in {"page", "idle", "assets", "items"}
               \/ pc' = "answered" /\ answer'.home = NoSections,
               learnt' = learnt \/ learnt' = NothingLearnt
        PROVE  HomeInv'
    BY <2>3 DEF HomeInv, HomeIsSound, NothingLearnt
  <2> QED
    BY <2>1, <2>2, <2>3
<1>8. ASSUME [Next]_vars, ~ Learn, ~ Reading
      PROVE  UNCHANGED <<pc, rows, learnt, answer, finished, progress>>
  BY <1>8 DEF Next, Reading, Handler, vars, Begin, Commit, Moderate, Store, Tick, Practise,
       SaveWord, learning, request, witness
<1> QED
  BY <1>1, <1>2, <1>3, <1>4, <1>5, <1>6, <1>7, <1>8

-----------------------------------------------------------------------------
\* What a request may show was online at some time since it began.
ShownInv ==
    /\ pc \notin {"idle", "answered"} => Online \subseteq shown
    /\ pc = "page" => \A i \in Content : listed[i] > 0 => i \in shown
    /\ pc = "assets" => asked \in shown
    /\ pc \in {"progress", "grammar", "words"} => Ids(rows) \subseteq shown
    /\ WithdrawnContentsAreNotShown

\* A page taken: what it does to the list of what was shown, and where it goes on.
LEMMA PageTaken ==
    ASSUME NextPage
    PROVE  LET found == ListPublishedContents(cursor, PageLimit)
               seen == {i \in Content : listed'[i] > 0}
           IN  /\ pc = "page" /\ contents' = contents /\ UNCHANGED witness
               /\ listed' = [i \in Content |->
                                IF i \in Ids(found) THEN Min({2, listed[i] + 1}) ELSE listed[i]]
               /\ \/ /\ Len(found) = PageLimit /\ pc' = "page"
                     /\ cursor' = [released |-> found[Len(found)].released,
                                   id |-> found[Len(found)].id]
                  \/ /\ Len(found) # PageLimit /\ pc' = "answered" /\ cursor' = cursor
                     /\ answer'.served = seen
<1> DEFINE found == ListPublishedContents(cursor, PageLimit)
           seen == {i \in Content : listed'[i] > 0}
<1>1. IF Len(found) = PageLimit
      THEN /\ cursor' = [released |-> found[Len(found)].released,
                         id |-> found[Len(found)].id]
           /\ UNCHANGED <<pc, answer>>
      ELSE Answer(200, seen) /\ UNCHANGED cursor
  BY Zenon DEF NextPage
<1>2. /\ pc = "page" /\ contents' = contents /\ UNCHANGED witness
      /\ listed' = [i \in Content |->
                       IF i \in Ids(found) THEN Min({2, listed[i] + 1}) ELSE listed[i]]
  BY DEF NextPage, store
<1> HIDE DEF found, seen
<1>3. Answer(200, seen) => pc' = "answered" /\ answer'.served = seen
  BY DEF Answer
<1> QED
  BY <1>1, <1>2, <1>3 DEF found, seen

\* What an answer may show stays so in every step.
LEMMA ShownInvKept ==
    ASSUME StoreTypes, RequestTypes, LearningInv, HomeInv, ShownInv, [Next]_vars
    PROVE  ShownInv'
<1>1. CASE \E i \in Content : \E row : Stored(i, row)
  <2>1. PICK i \in Content : \E row : Stored(i, row)
    BY <1>1
  <2>2. PICK row : Stored(i, row)
    BY <2>1
  <2>3. /\ contents' = [contents EXCEPT ![i] = row]
        /\ shown' = IF Published(row) /\ pc \notin {"idle", "answered"} THEN shown \cup {i}
                    ELSE shown
        /\ UNCHANGED <<pc, asked, rows, listed, answer>>
    BY <2>2 DEF Stored, Store, request
  <2>4. Online' \subseteq Online \cup {j \in {i} : Published(row)}
    BY <2>3 DEF Online, StoreTypes, Typed, Published
  <2>5. pc \notin {"idle", "answered"} /\ Online \subseteq shown => Online' \subseteq shown'
    BY <2>3, <2>4
  <2>6. shown \subseteq shown'
    BY <2>3
  <2> QED
    BY <2>3, <2>5, <2>6 DEF ShownInv, WithdrawnContentsAreNotShown, Ids
<1>2. CASE Elsewhere
  BY <1>2 DEF Elsewhere, request, ShownInv, WithdrawnContentsAreNotShown, Online, Ids
<1>3. CASE Traverse
  <2>1. pc' = "page" /\ shown' = Online /\ listed' = Unlisted /\ contents' = contents
    BY <1>3 DEF Traverse, Arrive, store, RequestTypes
  <2> QED
    BY <2>1 DEF ShownInv, WithdrawnContentsAreNotShown, Online, Unlisted
<1>4. CASE NextPage
  <2> DEFINE found == ListPublishedContents(cursor, PageLimit)
  <2>1. Ids(found) \subseteq shown
    <3>1. Ids(found) \subseteq Beyond(cursor)
      BY PageIsCandidates, CatalogueAssumption DEF StoreTypes, RequestTypes
    <3>2. Beyond(cursor) \subseteq Online
      BY DEF Beyond, Online, Visible
    <3>3. Online \subseteq shown
      BY <1>4 DEF NextPage, ShownInv
    <3> QED
      BY <3>1, <3>2, <3>3
  <2>2. /\ pc = "page" /\ shown' = shown /\ contents' = contents
        /\ listed' = [i \in Content |->
                         IF i \in Ids(found) THEN Min({2, listed[i] + 1}) ELSE listed[i]]
        /\ \/ pc' = "page"
           \/ pc' = "answered" /\ answer'.served = {i \in Content : listed'[i] > 0}
    BY <1>4, PageTaken DEF witness
  <2> HIDE DEF found
  <2>3. \A i \in Content : listed'[i] > 0 => i \in shown
    BY <2>1, <2>2 DEF ShownInv
  <2>4. answer'.served = {i \in Content : listed'[i] > 0} => answer'.served \subseteq shown
    BY <2>3
  <2> QED
    BY <2>2, <2>3, <2>4 DEF ShownInv, WithdrawnContentsAreNotShown, Online
<1>5. CASE Home \/ CategoryContents \/ Search
  <2>1. ASSUME NEW found, Show(found), found \subseteq Online PROVE ShownInv'
    BY <2>1 DEF Show, Arrive, Answer, ShownInv, WithdrawnContentsAreNotShown
  <2>2. CASE Home
    <3>1. Ids(ListPublishedContents(None, ListLimit)) \subseteq Beyond(None)
      BY PageIsCandidates, CatalogueAssumption DEF StoreTypes
    <3>2. Beyond(None) \subseteq Online
      BY DEF Beyond, Online, Visible
    <3> QED
      BY <2>1, <2>2, <3>1, <3>2 DEF Home
  <2>3. CASE CategoryContents
    <3>1. PICK slug : Show(ListCategoryContents(slug))
      BY <2>3 DEF CategoryContents
    <3>2. ListCategoryContents(slug) \subseteq Online
      BY DEF ListCategoryContents, Online, Visible
    <3> QED
      BY <2>1, <3>1, <3>2
  <2>4. CASE Search
    <3>1. PICK found \in SearchPublishedContents : Show(found)
      BY <2>4 DEF Search
    <3>2. found \subseteq Online
      BY <3>1 DEF SearchPublishedContents, Online, Visible
    <3> QED
      BY <2>1, <3>1, <3>2
  <2> QED
    BY <1>5, <2>2, <2>3, <2>4
<1>6. CASE OpenHome
  <2>1. Ids(ListPublishedContents(None, CandidateLimit)) \subseteq Beyond(None)
    BY PageIsCandidates, CatalogueAssumption DEF StoreTypes
  <2>2. Beyond(None) \subseteq Online
    BY DEF Beyond, Online, Visible
  <2>3. /\ pc' = "progress" /\ shown' = Online /\ contents' = contents
        /\ rows' = ListPublishedContents(None, CandidateLimit)
    BY <1>6 DEF OpenHome, Arrive, store
  <2>4. Ids(rows)' = Ids(ListPublishedContents(None, CandidateLimit))
    BY <2>3 DEF Ids
  <2> QED
    BY <2>1, <2>2, <2>3, <2>4 DEF ShownInv, WithdrawnContentsAreNotShown, Online
<1>7. CASE \E i \in Content : OpenContent(i)
  <2>1. PICK i \in Content : OpenContent(i)
    BY <1>7
  <2>2. /\ shown' = Online /\ contents' = contents /\ asked' = i
        /\ \/ pc' = "assets" /\ Visible(i)
           \/ pc' = "answered" /\ answer'.served = {}
    BY <2>1 DEF OpenContent, Arrive, Answer, store
  <2> QED
    BY <2>2 DEF ShownInv, WithdrawnContentsAreNotShown, Online, Visible
<1>8. CASE \E s \in Series : OpenSeries(s)
  <2>1. /\ shown' = Online /\ contents' = contents
        /\ \/ pc' = "items"
           \/ pc' = "answered" /\ answer'.served = {}
    BY <1>8 DEF OpenSeries, Arrive, Answer, store
  <2> QED
    BY <2>1 DEF ShownInv, WithdrawnContentsAreNotShown, Online
<1>9. CASE ReadAssets
  <2>1. pc = "assets" /\ pc' = "answered" /\ shown' = shown /\ answer'.served = {asked}
    BY <1>9 DEF ReadAssets, Answer, witness
  <2> QED
    BY <2>1 DEF ShownInv, WithdrawnContentsAreNotShown
<1>10. CASE ReadItems
  <2>1. /\ pc = "items" /\ pc' = "answered" /\ shown' = shown
        /\ answer'.served = ListSeriesContents(asked)
    BY <1>10 DEF ReadItems, Answer, witness
  <2>2. ListSeriesContents(asked) \subseteq Online
    BY DEF ListSeriesContents, Online, Visible
  <2> QED
    BY <2>1, <2>2 DEF ShownInv, WithdrawnContentsAreNotShown
<1>11. CASE ReadProgress \/ ReadGrammar
  <2>1. /\ pc \in {"progress", "grammar"} /\ pc' \in {"grammar", "words"}
        /\ shown' = shown /\ rows' = rows /\ contents' = contents
    BY <1>11 DEF ReadProgress, ReadGrammar, witness, store
  <2> QED
    BY <2>1 DEF ShownInv, WithdrawnContentsAreNotShown, Online, Ids
<1>12. CASE ReadWords
  <2>1. pc = "words" /\ pc' = "answered" /\ shown' = shown
    BY <1>12 DEF ReadWords, witness
  <2>2. answer'.served \subseteq Ids(rows)
    BY <1>12, HomeAnswered
  <2> QED
    BY <2>1, <2>2 DEF ShownInv, WithdrawnContentsAreNotShown
<1>13. CASE Fail \/ FailFirst \/ Rest
  BY <1>13 DEF Fail, FailFirst, Rest, Answer, ShownInv, WithdrawnContentsAreNotShown
<1> QED
  BY <1>1, <1>2, <1>3, <1>4, <1>5, <1>6, <1>7, <1>8, <1>9, <1>10, <1>11, <1>12, <1>13,
     StepKinds DEF Reading

-----------------------------------------------------------------------------
\* A content released at time lies behind the cursor: no later page shows it there.
Behind(position, i, time) ==
    /\ position # None
    /\ ~ (position.released > time \/ (position.released = time /\ position.id > i))

\* A traversal on its way: what stays where it is was shown once if the cursor is
\* past it, and not yet if it is not; what was shown and did not go back is behind.
PageInv ==
    /\ pc = "page" =>
           /\ steady \subseteq Online
           /\ \A i \in steady :
                  listed[i] = IF Behind(cursor, i, contents[i].released) THEN 1 ELSE 0
           /\ \A i \in Content : listed[i] = 2 => i \in sunk
           /\ \A i \in Content : listed[i] > 0 /\ i \notin sunk =>
                  Behind(cursor, i, contents[i].released)
    /\ ListsAreStable

\* The cursor and the list keep their types.
LEMMA RequestTypesKept ==
    ASSUME StoreTypes, RequestTypes, [Next]_vars
    PROVE  RequestTypes'
<1>1. CASE \E i \in Content : \E row : Stored(i, row)
  <2>1. /\ UNCHANGED <<cursor, listed, pc>>
        /\ steady' \subseteq steady
        /\ pc # "page" => sunk' = sunk
    BY <1>1 DEF Stored, Store, request
  <2> QED
    BY <2>1 DEF RequestTypes, Unlisted
<1>2. CASE Elsewhere
  BY <1>2 DEF Elsewhere, request, RequestTypes, Unlisted
<1>3. CASE NextPage
  <2> DEFINE found == ListPublishedContents(cursor, PageLimit)
  <2>1. /\ pc' \in {"page", "answered"}
        /\ listed' = [i \in Content |->
                         IF i \in Ids(found) THEN Min({2, listed[i] + 1}) ELSE listed[i]]
        /\ \/ cursor' = cursor
           \/ /\ Len(found) = PageLimit
              /\ cursor' = [released |-> found[Len(found)].released,
                            id |-> found[Len(found)].id]
    BY <1>3, PageTaken
  <2>2. found \in Seq(Candidate)
    BY PageIsCandidates, CatalogueAssumption DEF StoreTypes, RequestTypes, Candidates
  <2> HIDE DEF found
  <2>3. cursor' \in Positions \cup {None}
    <3>1. CASE cursor' = cursor
      BY <3>1 DEF RequestTypes
    <3>2. ASSUME Len(found) = PageLimit,
                 cursor' = [released |-> found[Len(found)].released,
                            id |-> found[Len(found)].id]
          PROVE  cursor' \in Positions
      <4>1. Len(found) \in 1 .. Len(found)
        BY <2>2, <3>2, CatalogueAssumption
      <4>2. found[Len(found)] \in Candidate
        BY <2>2, <4>1
      <4> QED
        BY <3>2, <4>2 DEF Candidate, Positions
    <3> QED
      BY <2>1, <3>1, <3>2
  <2>4. \A n \in 0 .. 2 : Min({2, n + 1}) \in 0 .. 2
    BY DEF Min
  <2>5. listed' \in [Content -> 0 .. 2]
    BY <2>1, <2>4 DEF RequestTypes
  <2> QED
    BY <2>1, <2>3, <2>5 DEF RequestTypes
<1>4. ASSUME Reading, ~ NextPage, ~ Rest, ~ Fail
      PROVE  RequestTypes'
  <2>1. UNCHANGED <<cursor, listed>>
    BY <1>4 DEF Reading, Traverse, Home, CategoryContents, Search, Show, OpenHome, OpenContent,
         OpenSeries, ReadAssets, ReadItems, ReadProgress, ReadGrammar, ReadWords, FailFirst
  <2>2. pc' \in {"page", "answered"} \/ (pc \notin {"page", "answered"} /\ UNCHANGED <<steady, sunk>>)
    BY <1>4 DEF Reading, Traverse, Home, CategoryContents, Search, Show, OpenHome, OpenContent,
         OpenSeries, ReadAssets, ReadItems, ReadProgress, ReadGrammar, ReadWords, FailFirst,
         Arrive, Answer, witness
  <2> QED
    BY <2>1, <2>2 DEF RequestTypes, Unlisted
<1>5. CASE Rest
  BY <1>5 DEF Rest, RequestTypes, Unlisted
<1>6. CASE Fail
  BY <1>6 DEF Fail, Answer, RequestTypes, Unlisted
<1> QED
  BY <1>1, <1>2, <1>3, <1>4, <1>5, <1>6, StepKinds

\* A content that gets another row in the middle of a traversal.
LEMMA PageInvStored ==
    ASSUME StoreTypes, RequestTypes, PageInv, NEW i \in Content, NEW row, Stored(i, row)
    PROVE  PageInv'
<1>1. /\ contents' = [contents EXCEPT ![i] = row] /\ row \in Row
      /\ steady' = IF row.released # contents[i].released \/ ~ Published(row)
                   THEN steady \ {i} ELSE steady
      /\ sunk' = IF pc = "page" /\ row.released < contents[i].released
                 THEN sunk \cup {i} ELSE sunk
      /\ UNCHANGED <<pc, cursor, listed, answer>>
  BY DEF Stored, Store, request
<1>2. \A j \in Content : j # i => contents'[j] = contents[j]
  BY <1>1 DEF StoreTypes, Typed
<1>3. contents'[i] = row /\ row.released \in Nat /\ contents[i].released \in Nat
  BY <1>1 DEF StoreTypes, Typed, Row
<1>4. steady' \subseteq steady /\ sunk \subseteq sunk'
  BY <1>1
<1>5. ListsAreStable'
  BY <1>1, <1>4 DEF PageInv, ListsAreStable
<1>6. ASSUME pc = "page"
      PROVE  /\ steady' \subseteq Online'
             /\ \A j \in steady' :
                    listed[j] = IF Behind(cursor, j, contents'[j].released) THEN 1 ELSE 0
             /\ \A j \in Content : listed[j] = 2 => j \in sunk'
             /\ \A j \in Content : listed[j] > 0 /\ j \notin sunk' =>
                    Behind(cursor, j, contents'[j].released)
  <2>1. steady \subseteq Online /\ steady \subseteq Content
    BY <1>6 DEF PageInv, Online
  <2>2. ASSUME NEW j \in steady'
        PROVE  j \in Online' /\ contents'[j].released = contents[j].released
    <3>1. j \in Online /\ j \in Content
      BY <1>4, <2>1
    <3>2. CASE j = i
      BY <1>1, <1>3, <3>1, <3>2 DEF Online
    <3>3. CASE j # i
      BY <1>2, <3>1, <3>3 DEF Online
    <3> QED
      BY <3>2, <3>3
  <2>3. ASSUME NEW j \in Content, listed[j] > 0, j \notin sunk'
        PROVE  Behind(cursor, j, contents'[j].released)
    <3>1. Behind(cursor, j, contents[j].released)
      BY <1>4, <1>6, <2>3 DEF PageInv
    <3>2. CASE j # i
      BY <1>2, <3>1, <3>2
    <3>3. CASE j = i
      <4>1. contents[i].released <= contents'[i].released
        BY <1>1, <1>3, <1>6, <2>3, <3>3
      <4>2. cursor \in Positions
        BY <3>1 DEF RequestTypes, Behind
      <4>3. cursor.released \in Nat /\ cursor.id \in Nat /\ i \in Nat
        BY <4>2, CatalogueAssumption DEF Positions
      <4> QED
        BY <1>3, <3>1, <3>3, <4>1, <4>3 DEF Behind
    <3> QED
      BY <3>2, <3>3
  <2> QED
    BY <1>4, <1>6, <2>2, <2>3 DEF PageInv
<1> QED
  BY <1>1, <1>5, <1>6 DEF PageInv

\* The next page in the middle of a traversal.
LEMMA PageInvNextPage ==
    ASSUME StoreTypes, RequestTypes, PageInv, NextPage
    PROVE  PageInv'
<1> DEFINE found == ListPublishedContents(cursor, PageLimit)
           last == found[Len(found)]
           time(i) == contents[i].released
<1>1. /\ pc = "page" /\ contents' = contents /\ steady' = steady /\ sunk' = sunk
      /\ listed' = [i \in Content |->
                       IF i \in Ids(found) THEN Min({2, listed[i] + 1}) ELSE listed[i]]
      /\ \/ /\ Len(found) = PageLimit /\ pc' = "page"
            /\ cursor' = [released |-> last.released, id |-> last.id]
         \/ Len(found) # PageLimit /\ pc' = "answered" /\ cursor' = cursor
  BY PageTaken DEF witness
<1>2. /\ found \in Seq({Item(i) : i \in Beyond(cursor)})
      /\ Len(found) <= PageLimit
      /\ \A j, k \in 1 .. Len(found) : j < k => Later(found[j], found[k])
      /\ \A i \in Beyond(cursor) :
             \/ \E k \in 1 .. Len(found) : found[k] = Item(i)
             \/ /\ Len(found) = PageLimit
                /\ \A k \in 1 .. PageLimit : Later(found[k], Item(i))
  <2>1. PageLimit \in Nat /\ Typed /\ cursor \in Positions \cup {None}
    BY CatalogueAssumption DEF StoreTypes, RequestTypes
  <2> QED
    BY <2>1, PageFacts
<1>3. /\ PageLimit \in Nat \ {0}
      /\ \A i \in Content : i \in Nat /\ time(i) \in Nat
      /\ \A i \in Content : Item(i).id = i /\ Item(i).released = time(i)
  BY CatalogueAssumption DEF StoreTypes, Typed, Row, Item
<1>4. \A i \in Content : i \in Beyond(cursor) <=> i \in Online /\ ~ Behind(cursor, i, time(i))
  BY <1>3 DEF Beyond, Online, Visible, Behind, Later
<1>5. ASSUME NEW k \in 1 .. Len(found)
      PROVE  \E i \in Beyond(cursor) : /\ i \in Content /\ found[k] = Item(i)
                                       /\ found[k].id = i /\ found[k].released = time(i)
  <2>1. found[k] \in {Item(i) : i \in Beyond(cursor)}
    <3> HIDE DEF found
    <3> QED
      BY <1>2
  <2>2. PICK i \in Beyond(cursor) : found[k] = Item(i)
    BY <2>1
  <2>3. i \in Content
    BY DEF Beyond
  <2>4. Item(i).id = i /\ Item(i).released = time(i)
    BY <1>3, <2>3
  <2> QED
    BY <2>2, <2>3, <2>4
<1>6. DOMAIN found = 1 .. Len(found) /\ Len(found) \in Nat
  BY <1>2
<1>7. \A i \in Ids(found) : i \in Content /\ i \in Beyond(cursor)
  BY <1>5, <1>6 DEF Ids
<1>8. ASSUME NEW i \in Beyond(cursor), Len(found) # PageLimit
      PROVE  i \in Ids(found)
  <2>1. PICK k \in 1 .. Len(found) : found[k] = Item(i)
    BY <1>2, <1>8
  <2>2. i \in Content
    BY DEF Beyond
  <2>3. found[k].id = i
    BY <1>3, <2>1, <2>2
  <2> QED
    BY <1>6, <2>3 DEF Ids
<1>9. /\ steady \subseteq Online /\ steady \subseteq Content
      /\ \A i \in steady : listed[i] = IF Behind(cursor, i, time(i)) THEN 1 ELSE 0
      /\ \A i \in Content : listed[i] = 2 => i \in sunk
      /\ \A i \in Content : listed[i] > 0 /\ i \notin sunk => Behind(cursor, i, time(i))
      /\ \A i \in Content : listed[i] \in 0 .. 2
  BY <1>1 DEF PageInv, RequestTypes, Online
<1>10. \A n \in 0 .. 2 : Min({2, n + 1}) = IF n = 0 THEN 1 ELSE 2
  BY DEF Min
<1> HIDE DEF found, last, time
<1>11. ASSUME NEW i \in steady
       PROVE  listed'[i] = IF i \in Ids(found) \/ Behind(cursor, i, time(i)) THEN 1 ELSE 0
  BY <1>1, <1>4, <1>7, <1>9, <1>10
<1>12. ASSUME NEW i \in Content
       PROVE  /\ listed'[i] = 2 => i \in sunk
              /\ listed'[i] > 0 => i \in Ids(found) \/ listed[i] > 0
  <2>1. CASE i \in Ids(found)
    <3>1. ~ Behind(cursor, i, time(i))
      BY <1>4, <1>7, <2>1
    <3>2. listed[i] > 0 => i \in sunk
      BY <1>9, <3>1
    <3>3. listed'[i] = 2 => listed[i] > 0
      BY <1>1, <1>9, <1>10, <2>1
    <3> QED
      BY <2>1, <3>2, <3>3
  <2>2. CASE i \notin Ids(found)
    BY <1>1, <1>9, <2>2
  <2> QED
    BY <2>1, <2>2
<1>13. CASE Len(found) # PageLimit
  <2>1. \A i \in steady : i \in Ids(found) \/ Behind(cursor, i, time(i))
    BY <1>4, <1>8, <1>9, <1>13
  <2>2. \A i \in steady : listed'[i] = 1
    BY <1>11, <2>1
  <2>3. steady' = steady /\ sunk' = sunk
    BY <1>1
  <2>4. ListsAreStable'
    BY <1>12, <2>2, <2>3 DEF ListsAreStable
  <2> QED
    BY <1>1, <1>13, <2>4 DEF PageInv
<1>14. CASE Len(found) = PageLimit
  <2>1. /\ pc' = "page" /\ cursor' = [released |-> last.released, id |-> last.id]
    BY <1>1, <1>14
  <2>2. Len(found) \in 1 .. Len(found)
    BY <1>3, <1>6, <1>14
  <2>3. PICK l \in Beyond(cursor) :
            l \in Content /\ last = Item(l) /\ last.id = l /\ last.released = time(l)
    BY <1>5, <2>2 DEF last
  <2>4. /\ cursor' \in Positions /\ cursor'.released = time(l) /\ cursor'.id = l
        /\ cursor' # None
    BY <1>3, <2>1, <2>3, NoneAssumption DEF Positions
  <2>5. ASSUME NEW i \in Content
        PROVE  Behind(cursor', i, time(i)) <=> ~ Later(last, Item(i))
    BY <1>3, <2>3, <2>4 DEF Behind, Later
  <2>6. ASSUME NEW i \in Ids(found) PROVE Behind(cursor', i, time(i))
    <3>1. PICK k \in 1 .. Len(found) : found[k].id = i
      BY <1>6 DEF Ids
    <3>2. i \in Content /\ found[k] = Item(i) /\ found[k].released = time(i)
      BY <1>5, <3>1
    <3>3. CASE k = Len(found)
      <4>1. last = Item(i)
        BY <3>2, <3>3 DEF last
      <4>2. ~ Later(Item(i), Item(i))
        BY <1>3, <3>2 DEF Later
      <4> QED
        BY <2>5, <3>2, <4>1, <4>2
    <3>4. CASE k # Len(found)
      <4>1. Later(found[k], last)
        <5>1. PICK n \in Nat : n = Len(found)
          BY <1>6
        <5>2. k < n /\ k \in 1 .. n /\ n \in 1 .. n
          BY <2>2, <3>4, <5>1
        <5> QED
          BY <1>2, <5>1, <5>2 DEF last
      <4>2. ~ Later(last, found[k])
        BY <1>3, <2>3, <3>1, <3>2, <4>1 DEF Later
      <4> QED
        BY <2>5, <3>2, <4>2
    <3> QED
      BY <3>3, <3>4
  <2>7. ASSUME NEW i \in Content, Behind(cursor, i, time(i))
        PROVE  Behind(cursor', i, time(i))
    <3>1. cursor \in Positions /\ l \in Online /\ ~ Behind(cursor, l, time(l))
      BY <1>4, <2>3, <2>7 DEF RequestTypes, Behind
    <3>2. cursor.released \in Nat /\ cursor.id \in Nat
      BY <3>1, CatalogueAssumption DEF Positions
    <3> QED
      BY <1>3, <2>3, <2>4, <2>7, <3>1, <3>2 DEF Behind
  <2>8. ASSUME NEW i \in steady, i \notin Ids(found), ~ Behind(cursor, i, time(i))
        PROVE  ~ Behind(cursor', i, time(i))
    <3>1. i \in Content /\ i \in Beyond(cursor)
      BY <1>4, <1>9, <2>8
    <3>2. ~ \E k \in 1 .. Len(found) : found[k] = Item(i)
      BY <1>3, <1>6, <2>8, <3>1 DEF Ids
    <3>3. Later(last, Item(i))
      BY <1>2, <1>14, <2>2, <3>1, <3>2 DEF last
    <3> QED
      BY <2>5, <3>1, <3>3
  <2>9. \A i : contents'[i].released = time(i)
    BY <1>1 DEF time
  <2>10. \A i \in steady' :
             listed'[i] = IF Behind(cursor', i, contents'[i].released) THEN 1 ELSE 0
    BY <1>1, <1>9, <1>11, <2>6, <2>7, <2>8, <2>9
  <2>11. \A i \in Content : listed'[i] > 0 /\ i \notin sunk' =>
             Behind(cursor', i, contents'[i].released)
    BY <1>1, <1>9, <1>12, <2>6, <2>7, <2>9
  <2>12. steady' \subseteq Online'
    BY <1>1, <1>9 DEF Online
  <2>13. ListsAreStable'
    BY <2>1 DEF ListsAreStable
  <2> QED
    BY <1>1, <1>12, <2>10, <2>11, <2>12, <2>13 DEF PageInv
<1> QED
  BY <1>13, <1>14

\* What a traversal rests on holds after every step.
LEMMA PageInvKept ==
    ASSUME StoreTypes, RequestTypes, PageInv, [Next]_vars
    PROVE  PageInv'
<1>1. CASE \E i \in Content : \E row : Stored(i, row)
  BY <1>1, PageInvStored
<1>2. CASE Elsewhere
  BY <1>2 DEF Elsewhere, request, PageInv, ListsAreStable, Online
<1>3. CASE Traverse
  <2>1. /\ pc' = "page" /\ steady' = Online /\ contents' = contents
        /\ cursor' = None /\ listed' = Unlisted
    BY <1>3 DEF Traverse, Arrive, store, RequestTypes
  <2> QED
    BY <2>1 DEF PageInv, ListsAreStable, Behind, Unlisted, Online
<1>4. CASE NextPage
  BY <1>4, PageInvNextPage
<1>5. CASE Rest \/ Fail
  BY <1>5 DEF Rest, Fail, Answer, PageInv, ListsAreStable
<1>6. ASSUME Reading, ~ Traverse, ~ NextPage, ~ Rest, ~ Fail
      PROVE  PageInv'
  <2>1. /\ pc \notin {"page", "answered"} /\ pc' # "page"
        /\ listed' = listed /\ steady' = steady
    BY <1>6 DEF Reading, Home, CategoryContents, Search, Show, OpenHome, OpenContent,
         OpenSeries, ReadAssets, ReadItems, ReadProgress, ReadGrammar, ReadWords, FailFirst,
         Arrive, Answer, witness
  <2>2. listed' = Unlisted /\ steady' = {}
    BY <2>1 DEF RequestTypes
  <2> QED
    BY <2>1, <2>2 DEF PageInv, ListsAreStable, Unlisted
<1> QED
  BY <1>1, <1>2, <1>3, <1>4, <1>5, <1>6, StepKinds

-----------------------------------------------------------------------------
\* The inductive invariant of the catalogue.
CatalogueInv ==
    /\ StoreTypes /\ RequestTypes /\ LearningInv
    /\ CopyInv /\ ShownInv /\ PageInv /\ HomeInv

\* Nothing is asked for and nothing shown at the beginning.
LEMMA CatalogueInitially ==
    ASSUME Init
    PROVE  CatalogueInv
<1>1. StoreTypes
  BY StoreTypesInitially
<1>2. /\ pc = "idle" /\ cursor = None /\ listed = Unlisted /\ steady = {} /\ sunk = {}
      /\ learnt = NothingLearnt /\ studies = 0 /\ words = 0
      /\ copy.content = None
      /\ progress \in IF use = "home" THEN History ELSE {{}}
  BY DEF Init
<1>3. RequestTypes
  BY <1>2 DEF RequestTypes, Unlisted
<1>4. LearningInv
  <2>1. CASE progress = {}
    BY <1>2, <2>1 DEF LearningInv
  <2>2. CASE progress \in History
    BY <1>2, <2>2, StockAssumption DEF LearningInv
  <2> QED
    BY <1>2, <2>1, <2>2
<1>5. CopyInv
  BY <1>2 DEF CopyInv
<1>6. ShownInv
  BY <1>2 DEF ShownInv, WithdrawnContentsAreNotShown
<1>7. PageInv
  BY <1>2 DEF PageInv, ListsAreStable
<1>8. HomeInv
  BY <1>2 DEF HomeInv, HomeIsSound, NothingLearnt
<1> QED
  BY <1>1, <1>3, <1>4, <1>5, <1>6, <1>7, <1>8 DEF CatalogueInv

\* The types, what was read of the contents, what was online since the request began,
\* where the traversal is, and what the home has found hold throughout.
THEOREM CatalogueInductive == Spec => []CatalogueInv
<1>1. Init => CatalogueInv
  BY CatalogueInitially
<1>2. CatalogueInv /\ [Next]_vars => CatalogueInv'
  <2> SUFFICES ASSUME CatalogueInv, [Next]_vars PROVE CatalogueInv'
    OBVIOUS
  <2>1. /\ StoreTypes /\ RequestTypes /\ LearningInv
        /\ CopyInv /\ ShownInv /\ PageInv /\ HomeInv
    BY DEF CatalogueInv
  <2>2. StoreTypes' /\ RequestTypes' /\ LearningInv'
    BY <2>1, StoreTypesKept, RequestTypesKept, LearningInvKept
  <2>3. CopyInv' /\ ShownInv' /\ PageInv' /\ HomeInv'
    BY <2>1, CopyInvKept, ShownInvKept, PageInvKept, HomeInvKept
  <2> QED
    BY <2>2, <2>3 DEF CatalogueInv
<1> QED
  BY <1>1, <1>2, PTL DEF Spec

\* The list read page by page (ListPublishedContents, its cursor) shows what stays
\* where it is once, and nothing twice that did not go back.
THEOREM ListsStayStable == Spec => []ListsAreStable
<1>1. CatalogueInv => ListsAreStable
  BY DEF CatalogueInv, PageInv
<1> QED
  BY <1>1, CatalogueInductive, PTL

\* The copy of a content (its ETag is the revision) says what the content says as
\* long as the revision is the same.
THEOREM CopiesStayFaithful == Spec => []CopiesAreFaithful
<1>1. CatalogueInv => CopiesAreFaithful
  BY DEF CatalogueInv, CopyInv, Read, CopiesAreFaithful
<1> QED
  BY <1>1, CatalogueInductive, PTL

\* No handler of the public API or of the home shows what was offline all the time
\* since the request began.
THEOREM NothingOfflineIsShown == Spec => []WithdrawnContentsAreNotShown
<1>1. CatalogueInv => WithdrawnContentsAreNotShown
  BY DEF CatalogueInv, ShownInv
<1> QED
  BY <1>1, CatalogueInductive, PTL

\* The personal home (recommendations.go) leaves out what is finished, repeats
\* nothing, withholds nothing while there is room, and is the same in whatever
\* order the map of levels is run through.
THEOREM HomesAreSound == Spec => []HomeIsSound
<1>1. CatalogueInv => HomeIsSound
  BY DEF CatalogueInv, HomeInv
<1> QED
  BY <1>1, CatalogueInductive, PTL

=============================================================================
