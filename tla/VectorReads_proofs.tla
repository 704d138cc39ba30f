------------------------ MODULE VectorReads_proofs ------------------------
(***************************************************************************)
(* For every set of names, prefixes, filters and metrics: a listing misses *)
(* no name that stayed and repeats none, a query finds rows its filter     *)
(* lets through, the nearest when it scans the table, and a filter lets    *)
(* through what it describes.                                              *)
(***************************************************************************)
EXTENDS VectorQuery, TLAPS, FiniteSetTheorems, WellFoundedInduction

-----------------------------------------------------------------------------
(* ORDER BY and LIMIT.                                                     *)

\* A set of numbers has a least one.
LEMMA LeastNumber ==
  ASSUME NEW T \in SUBSET Nat, T # {}
  PROVE  \E n \in T : \A m \in T : n <= m
<1> DEFINE R == OpToRel(<, Nat)
<1>1. IsWellFoundedOn(R, Nat)
  BY NatLessThanWellFounded, Zenon
<1>2. \A m, n \in Nat : m < n => <<m, n>> \in R
  BY DEF OpToRel
<1> HIDE DEF R
<1>3. PICK n \in T : \A m \in T : ~(<<m, n>> \in R)
  BY <1>1, WFMin
<1>4. \A m \in T : ~(m < n)
  BY <1>2, <1>3
<1> QED BY <1>3, <1>4

\* A set of rows has a first one.
LEMMA First ==
  ASSUME NEW S, S # {}, NEW rank, \A s \in S : rank[s] \in Nat
  PROVE  \E x \in S : \A y \in S : rank[x] <= rank[y]
<1> DEFINE T == {rank[x] : x \in S}
<1>1. T \in SUBSET Nat /\ T # {}
  OBVIOUS
<1>2. PICK n \in T : \A m \in T : n <= m
  BY <1>1, LeastNumber
<1> QED BY <1>2

\* A finite set of rows has a last one: the one with the fewest after it.
LEMMA Last ==
  ASSUME NEW S, S # {}, IsFiniteSet(S), NEW rank, \A s \in S : rank[s] \in Nat
  PROVE  \E x \in S : \A y \in S : rank[y] <= rank[x]
<1> DEFINE After(x) == {y \in S : rank[y] > rank[x]}
           after == [x \in S |-> Cardinality(After(x))]
<1>1. \A x \in S : IsFiniteSet(After(x)) /\ Cardinality(After(x)) \in Nat
  BY FS_Subset, FS_CardinalityType
<1>2. after \in [S -> Nat]
  BY <1>1
<1>3. PICK x \in S : \A y \in S : after[x] <= after[y]
  <2> HIDE DEF after
  <2> QED BY <1>2, First
<1>4. \A y \in S : rank[y] <= rank[x]
  <2> SUFFICES ASSUME NEW y \in S, rank[y] > rank[x] PROVE FALSE
    BY <1>3
  <2>1. After(y) \subseteq After(x) /\ y \in After(x) /\ y \notin After(y)
    OBVIOUS
  <2>2. Cardinality(After(x)) <= Cardinality(After(y))
    BY <1>3
  <2> HIDE DEF After
  <2>3. Cardinality(After(y)) <= Cardinality(After(x)) /\ Cardinality(After(y)) # Cardinality(After(x))
    BY <2>1, <1>1, FS_Subset
  <2> QED BY <1>1, <2>2, <2>3
<1> QED BY <1>4

\* The first m rows are in front of all others.
LEMMA LeastIsInFront ==
  ASSUME NEW S, IsFiniteSet(S), NEW rank, \A s \in S : rank[s] \in Nat, NEW m \in Nat,
         NEW x \in Least(S, m, rank), NEW y \in S \ Least(S, m, rank)
  PROVE  rank[x] < rank[y]
<1> DEFINE Before(z) == {w \in S : rank[w] < rank[z]}
<1>1. x \in S /\ Cardinality(Before(x)) < m /\ ~(Cardinality(Before(y)) < m)
  BY DEF Least
<1>2. Cardinality(Before(x)) \in Nat /\ Cardinality(Before(y)) \in Nat
  BY FS_Subset, FS_CardinalityType
<1>3. SUFFICES ASSUME rank[y] <= rank[x] PROVE FALSE
  BY <1>1
<1>4. Before(y) \subseteq Before(x) /\ Before(x) \subseteq S
  BY <1>1, <1>3
<1>5. Cardinality(Before(y)) <= Cardinality(Before(x))
  <2> HIDE DEF Before
  <2> QED BY <1>4, FS_Subset
<1> QED BY <1>1, <1>2, <1>5

\* A page is empty only when nothing is left.
LEMMA LeastIsSome ==
  ASSUME NEW S, S # {}, NEW rank, \A s \in S : rank[s] \in Nat, NEW m \in Nat \ {0}
  PROVE  Least(S, m, rank) # {}
<1>1. PICK x \in S : \A y \in S : rank[x] <= rank[y]
  BY First
<1>2. {y \in S : rank[y] < rank[x]} = {}
  BY <1>1
<1>3. Cardinality({y \in S : rank[y] < rank[x]}) = 0
  BY <1>2, FS_EmptySet
<1> QED BY <1>3 DEF Least

\* They are no more than m when no two have one rank ...
LEMMA LeastIsFew ==
  ASSUME NEW S, IsFiniteSet(S), NEW rank, \A s \in S : rank[s] \in Nat, NEW m \in Nat,
         \A s, t \in S : rank[s] = rank[t] => s = t
  PROVE  Cardinality(Least(S, m, rank)) <= m
<1> DEFINE L == Least(S, m, rank)
           Before(z) == {w \in S : rank[w] < rank[z]}
<1>1. L \subseteq S /\ \A x \in L : Cardinality(Before(x)) < m
  BY DEF Least
<1>2. IsFiniteSet(L) /\ \A x \in L : rank[x] \in Nat
  BY <1>1, FS_Subset
<1>3. CASE L = {}
  BY <1>3, FS_EmptySet
<1>4. CASE L # {}
  <2> HIDE DEF L
  <2>1. PICK x \in L : \A y \in L : rank[y] <= rank[x]
    BY <1>2, <1>4, Last
  <2>2. L \ {x} \subseteq Before(x) /\ Before(x) \subseteq S
    BY <2>1, <1>1, <1>2
  <2>3. Cardinality(Before(x)) < m
    BY <2>1, <1>1
  <2> HIDE DEF Before
  <2>4. IsFiniteSet(Before(x)) /\ Cardinality(Before(x)) \in Nat
    BY <2>2, FS_Subset, FS_CardinalityType
  <2>5. Cardinality(L \ {x}) <= Cardinality(Before(x))
    BY <2>2, <2>4, FS_Subset
  <2>6. Cardinality(L \ {x}) = Cardinality(L) - 1 /\ Cardinality(L) \in Nat
    BY <2>1, <1>2, FS_RemoveElement, FS_CardinalityType
  <2> QED BY <2>3, <2>4, <2>5, <2>6 DEF L
<1> QED BY <1>3, <1>4

\* ... and no fewer unless they are all.
LEMMA LeastIsFull ==
  ASSUME NEW S, IsFiniteSet(S), NEW rank, \A s \in S : rank[s] \in Nat, NEW m \in Nat,
         Least(S, m, rank) # S
  PROVE  Cardinality(Least(S, m, rank)) >= m
<1> DEFINE L == Least(S, m, rank)
           Before(z) == {w \in S : rank[w] < rank[z]}
<1>1. L \subseteq S /\ \A x \in S \ L : ~(Cardinality(Before(x)) < m)
  BY DEF Least
<1>2. IsFiniteSet(L)
  BY <1>1, FS_Subset
<1>3. S \ L # {} /\ \A x \in S \ L : rank[x] \in Nat
  BY <1>1
<1> HIDE DEF L
<1>4. PICK z \in S \ L : \A y \in S \ L : rank[z] <= rank[y]
  BY <1>3, First
<1>5. Before(z) \subseteq L
  BY <1>4, <1>1
<1>6. ~(Cardinality(Before(z)) < m)
  BY <1>4, <1>1
<1> HIDE DEF Before
<1>7. /\ Cardinality(Before(z)) <= Cardinality(L)
      /\ Cardinality(Before(z)) \in Nat /\ Cardinality(L) \in Nat
  BY <1>2, <1>5, FS_Subset, FS_CardinalityType
<1> QED BY <1>6, <1>7 DEF L

\* All rows are among the first m when there are no more than m.
LEMMA LeastIsAll ==
  ASSUME NEW S, IsFiniteSet(S), NEW rank, \A s \in S : rank[s] \in Nat, NEW m \in Nat,
         Cardinality(S) <= m
  PROVE  Least(S, m, rank) = S
<1> DEFINE Before(z) == {w \in S : rank[w] < rank[z]}
<1>1. ASSUME NEW x \in S PROVE Cardinality(Before(x)) < m
  <2>1. Before(x) \subseteq S /\ Before(x) # S
    OBVIOUS
  <2> HIDE DEF Before
  <2>2. /\ Cardinality(Before(x)) <= Cardinality(S) /\ Cardinality(Before(x)) # Cardinality(S)
        /\ Cardinality(Before(x)) \in Nat /\ Cardinality(S) \in Nat
    BY <2>1, FS_Subset, FS_CardinalityType
  <2> QED BY <2>2
<1> QED BY <1>1 DEF Least

-----------------------------------------------------------------------------
(* A page and its token.                                                   *)

\* A page with more behind it ends with its token, and has every row up to it.
LEMMA PageEndsWithToken ==
  ASSUME TypeOK, NEW c \in Clients, NEW m \in PageSizes,
         NEW P, P = Least(Rest(c), m, ByName), P # Rest(c)
  PROVE  /\ Token(c, P) \in P
         /\ \A y \in P : y <= Token(c, P)
         /\ \A x \in Rest(c) : x <= Token(c, P) => x \in P
<1>1. Rest(c) \subseteq Names /\ IsFiniteSet(Rest(c)) /\ P \subseteq Rest(c)
  BY ReadConstants, FS_Subset DEF TypeOK, Rest, Least
<1>2. \A n \in Names : ByName[n] = n /\ ByName[n] \in Nat
  BY ReadConstants DEF ByName
<1>3. m \in Nat \ {0}
  BY ReadConstants
<1>4. Rest(c) # {}
  BY <1>1
<1>5. P # {}
  BY <1>1, <1>2, <1>3, <1>4, LeastIsSome
<1>6. IsFiniteSet(P) /\ \A y \in P : ByName[y] \in Nat
  BY <1>1, <1>2, FS_Subset
<1>7. PICK last \in P : \A y \in P : ByName[y] <= ByName[last]
  BY <1>5, <1>6, Last
<1>8. \E z \in P : \A y \in P : z >= y
  <2>1. last \in Nat /\ ByName[last] = last
    BY <1>1, <1>2, <1>7, ReadConstants
  <2>2. \A y \in P : y \in Nat /\ ByName[y] = y /\ ByName[y] <= ByName[last]
    BY <1>1, <1>2, <1>7, ReadConstants
  <2>3. \A y \in P : last >= y
    BY <2>1, <2>2
  <2> QED BY <1>7, <2>3
<1>9. Token(c, P) \in P /\ \A y \in P : Token(c, P) >= y
  BY <1>8, Zenon DEF Token, Max
<1>10. ASSUME NEW y \in Rest(c), y \notin P PROVE Token(c, P) < y
  <2>1. ByName[Token(c, P)] < ByName[y]
    BY <1>1, <1>2, <1>3, <1>9, <1>10, LeastIsInFront
  <2> QED BY <2>1, <1>1, <1>2, <1>9
<1>11. Token(c, P) \in Nat /\ Rest(c) \subseteq Nat /\ P \subseteq Nat
  BY <1>1, <1>9, ReadConstants
<1>12. \A y \in P : y <= Token(c, P)
  BY <1>9, <1>11
<1>13. \A x \in Rest(c) : x <= Token(c, P) => x \in P
  BY <1>10, <1>11
<1> QED BY <1>9, <1>12, <1>13

-----------------------------------------------------------------------------
(* Types.                                                                  *)

LEMMA TypeInit == Init => TypeOK
BY ReadConstants DEF Init, TypeOK, PC

LEMMA TypeNext == TypeOK /\ [Next]_vars => TypeOK'
<1> SUFFICES ASSUME TypeOK, [Next]_vars PROVE TypeOK'
  OBVIOUS
<1>1. ASSUME NEW N \in SUBSET Names, Insert(N) \/ Delete(N) PROVE TypeOK'
  BY <1>1 DEF TypeOK, Insert, Delete, Become
<1>2. CASE DropOwner \/ MakeOwner
  BY <1>2 DEF TypeOK, DropOwner, MakeOwner, Become
<1>3. ASSUME NEW c \in Clients, BeginList(c) PROVE TypeOK'
  BY <1>3, ReadConstants DEF TypeOK, BeginList, Goto, PC, table
<1>4. ASSUME NEW c \in Clients, ListPage(c) PROVE TypeOK'
  <2>1. CASE owner = NoMetric
    BY <2>1, <1>4 DEF TypeOK, ListPage, Goto, PC, table
  <2>2. CASE owner # NoMetric
    <3>1. PICK m \in PageSizes :
            LET P == Least(Rest(c), m, ByName) IN
            /\ page' = [page EXCEPT ![c] = P]
            /\ \/ P = Rest(c) /\ Goto(c, "listed") /\ UNCHANGED cursor
               \/ /\ P # Rest(c)
                  /\ cursor' = [cursor EXCEPT ![c] = Token(c, P)]
                  /\ UNCHANGED pc
      BY <2>2, <1>4 DEF ListPage
    <3>2. got' = [got EXCEPT ![c] = @ \cup page[c]]
      BY <2>2, <1>4 DEF ListPage
    <3> DEFINE P == Least(Rest(c), m, ByName)
    <3>3. P \subseteq Names
      BY DEF Least, Rest, TypeOK
    <3>4. P # Rest(c) => Token(c, P) \in Names
      <4> HIDE DEF P
      <4> QED BY <3>3, PageEndsWithToken DEF P
    <3>5. pc' \in [Clients -> PC] /\ cursor' \in [Clients -> Names \cup {0}]
      <4> HIDE DEF P
      <4> QED BY <3>1, <3>4 DEF P, TypeOK, Goto, PC
    <3> QED BY <3>1, <3>2, <3>3, <3>5, <1>4 DEF TypeOK, ListPage, table
  <2> QED BY <2>1, <2>2
<1>5. ASSUME NEW c \in Clients, BeginQuery(c) PROVE TypeOK'
  <2>1. PICK f \in DOMAIN Lets : /\ filter' = [filter EXCEPT ![c] = f]
                                 /\ want' = [want EXCEPT ![c] = Lets[f]]
    BY <1>5 DEF BeginQuery
  <2>2. f \in Filters /\ Lets[f] \in SUBSET Names
    BY ReadConstants
  <2>3. filter' \in [Clients -> Filters \cup {NoFilter}] /\ want' \in [Clients -> SUBSET Names]
    BY <2>1, <2>2 DEF TypeOK
  <2>4. topK' \in [Clients -> TopKs \cup {0}] /\ pc' \in [Clients -> PC]
    BY <1>5 DEF TypeOK, BeginQuery, Goto, PC
  <2> QED BY <2>3, <2>4, <1>5 DEF TypeOK, BeginQuery, table
<1>10. ASSUME NEW c \in Clients, RefuseQuery(c) \/ BeginGet(c) PROVE TypeOK'
  BY <1>10 DEF TypeOK, RefuseQuery, BeginGet, Goto, PC, table
<1>6. ASSUME NEW c \in Clients, Search(c) PROVE TypeOK'
  <2>1. hits' \in [Clients -> SUBSET Names] /\ scan' \in [Clients -> {"none", "table", "index"}]
    <3>1. CASE UNCHANGED <<hits, scan>>
      BY <3>1 DEF TypeOK
    <3>2. ASSUME NEW how \in {"table", "index"}, NEW C \in Candidates(Limit(topK[c], want[c]), how),
                 hits' = [hits EXCEPT ![c] = Least(C \cap want[c], topK[c], Dist[owner])],
                 scan' = [scan EXCEPT ![c] = how]
          PROVE  hits' \in [Clients -> SUBSET Names] /\ scan' \in [Clients -> {"none", "table", "index"}]
      <4>1. Least(C \cap want[c], topK[c], Dist[owner]) \subseteq Names
        BY DEF TypeOK, Least
      <4> QED BY <3>2, <4>1, Zenon DEF TypeOK
    <3> QED BY <1>6, <3>1, <3>2, Zenon DEF Search
  <2>2. pc' \in [Clients -> PC]
    BY <1>6 DEF TypeOK, Search, Goto, PC
  <2> QED BY <1>6, <2>1, <2>2, Zenon DEF TypeOK, Search, table
<1>7. ASSUME NEW c \in Clients, LookUpMetric(c) PROVE TypeOK'
  BY <1>7 DEF TypeOK, LookUpMetric, Goto, PC, table
<1>8. ASSUME NEW c \in Clients, Leave(c) \/ GetVectors(c) \/ GetIndex(c) PROVE TypeOK'
  BY <1>8 DEF TypeOK, Leave, GetVectors, GetIndex, Goto, PC, table
<1>9. CASE UNCHANGED vars
  BY <1>9 DEF TypeOK, vars, table
<1> QED BY <1>1, <1>2, <1>3, <1>4, <1>5, <1>6, <1>7, <1>8, <1>9, <1>10
   DEF Next, Begin, Read

\* Every variable keeps its kind, and a token is always the name of a row.
THEOREM TypeCorrect == Spec => []TypeOK
<1> QED BY TypeInit, TypeNext, PTL DEF Spec

-----------------------------------------------------------------------------
(* Listings.                                                               *)

Listed(c) == got[c] \cup page[c]

\* A client that is idle has no cursor and no pages.
Fresh(c) == pc[c] = "idle" => cursor[c] = 0 /\ got[c] = {} /\ page[c] = {}

\* While a client pages, its pages are behind its cursor ...
Behind(c) == pc[c] = "page" => \A x \in Listed(c) : x <= cursor[c]

\* ... and behind its cursor nothing was missed.
Covered(c) ==
  pc[c] = "page" => /\ steady[c] \subseteq rows \cap want[c]
                    /\ \A x \in steady[c] : x <= cursor[c] => x \in Listed(c)

ListInv ==
  /\ TypeOK
  /\ ListedOnce
  /\ ListedAll
  /\ \A c \in Clients : Fresh(c) /\ Behind(c) /\ Covered(c)

LEMMA ListInit == Init => ListInv
<1> SUFFICES ASSUME Init PROVE ListInv
  OBVIOUS
<1>1. TypeOK
  BY TypeInit
<1> QED BY <1>1 DEF Init, ListInv, ListedOnce, ListedAll, Fresh, Behind, Covered

\* Writers leave the pages alone and take from the steady names what they
\* delete.
LEMMA ListWriters ==
  ASSUME ListInv, TypeOK', NEW R, Become(R)
  PROVE  ListInv'
<1>1. rows' = R /\ UNCHANGED <<pc, want, cursor, page, got>>
  BY DEF Become
<1>2. \A c \in Clients : steady'[c] = steady[c] \cap R
  BY DEF Become
<1>3. ListedOnce' /\ ListedAll'
  BY <1>1, <1>2 DEF ListInv, ListedOnce, ListedAll
<1>4. ASSUME NEW c \in Clients PROVE (Fresh(c) /\ Behind(c) /\ Covered(c))'
  BY <1>1, <1>2 DEF ListInv, Fresh, Behind, Covered, Listed
<1> QED BY <1>3, <1>4 DEF ListInv

\* A listing begins with nothing listed and every wanted row steady.
LEMMA ListBegins ==
  ASSUME ListInv, TypeOK', NEW c \in Clients, BeginList(c)
  PROVE  ListInv'
<1>1. UNCHANGED <<rows, cursor, page, got>>
  BY DEF BeginList, table
<1>2. ASSUME NEW d \in Clients, d # c
      PROVE pc'[d] = pc[d] /\ want'[d] = want[d] /\ steady'[d] = steady[d]
  BY <1>2 DEF ListInv, TypeOK, BeginList, Goto
<1>3. /\ pc[c] = "idle" /\ pc'[c] = "page"
      /\ cursor[c] = 0 /\ got[c] = {} /\ page[c] = {}
      /\ steady'[c] = rows \cap want'[c]
  BY DEF ListInv, TypeOK, BeginList, Goto, Fresh
<1>4. ListedOnce'
  BY <1>1 DEF ListInv, ListedOnce
<1>5. ListedAll'
  BY <1>1, <1>2, <1>3 DEF ListInv, ListedAll
<1>6. (Fresh(c) /\ Behind(c) /\ Covered(c))'
  <2>1. \A x \in steady'[c] : ~(x <= cursor[c])
    BY <1>3, ReadConstants DEF ListInv, TypeOK
  <2> QED BY <2>1, <1>1, <1>3 DEF Fresh, Behind, Covered, Listed
<1>7. ASSUME NEW d \in Clients, d # c PROVE (Fresh(d) /\ Behind(d) /\ Covered(d))'
  BY <1>1, <1>2, <1>7 DEF ListInv, Fresh, Behind, Covered, Listed
<1> QED BY <1>4, <1>5, <1>6, <1>7 DEF ListInv

\* A page holds what comes next, so nothing is missed and nothing repeated.
LEMMA ListPages ==
  ASSUME ListInv, TypeOK', NEW c \in Clients, ListPage(c)
  PROVE  ListInv'
<1>1. pc[c] = "page" /\ UNCHANGED <<rows, want, steady>>
  BY DEF ListPage, table
<1>2. ASSUME NEW d \in Clients, d # c
      PROVE pc'[d] = pc[d] /\ cursor'[d] = cursor[d] /\ page'[d] = page[d] /\ got'[d] = got[d]
  BY <1>2 DEF ListInv, TypeOK, ListPage, Goto
<1>3. ASSUME NEW d \in Clients, d # c
      PROVE  /\ (Fresh(d) /\ Behind(d) /\ Covered(d))'
             /\ pc'[d] = "listed" => steady'[d] \subseteq Listed(d)'
             /\ \A x \in got'[d], y \in page'[d] : x < y
  BY <1>1, <1>2, <1>3 DEF ListInv, Fresh, Behind, Covered, Listed, ListedOnce, ListedAll
<1>4. /\ (Fresh(c) /\ Behind(c) /\ Covered(c))'
      /\ pc'[c] = "listed" => steady'[c] \subseteq Listed(c)'
      /\ \A x \in got'[c], y \in page'[c] : x < y
  <2>1. CASE owner = NoMetric
    BY <2>1, <1>1 DEF ListPage, Goto, ListInv, TypeOK, Fresh, Behind, Covered, ListedOnce
  <2>2. CASE owner # NoMetric
    <3>1. PICK m \in PageSizes :
            LET P == Least(Rest(c), m, ByName) IN
            /\ page' = [page EXCEPT ![c] = P]
            /\ \/ P = Rest(c) /\ Goto(c, "listed") /\ UNCHANGED cursor
               \/ /\ P # Rest(c)
                  /\ cursor' = [cursor EXCEPT ![c] = Token(c, P)]
                  /\ UNCHANGED pc
      BY <2>2 DEF ListPage
    <3> DEFINE P == Least(Rest(c), m, ByName)
    <3>2. got'[c] = Listed(c) /\ page'[c] = P
      BY <2>2, <3>1 DEF ListPage, ListInv, TypeOK, Listed
    <3>3. P \subseteq Rest(c)
      BY DEF Least
    <3>10. \A n \in Names : n \in Nat
      BY ReadConstants
    <3>11. cursor[c] \in Nat /\ \A x \in rows : x \in Nat
      <4>1. cursor[c] \in Names \cup {0} /\ \A x \in rows : x \in Names
        BY DEF ListInv, TypeOK
      <4> QED BY <4>1, <3>10
    <3>12. Covered(c)
      BY DEF ListInv
    <3>4. \A x \in Rest(c) : x \in Nat /\ x > cursor[c] /\ cursor[c] \in Nat
      BY <3>11 DEF Rest
    <3>5. \A x \in Listed(c) : x \in Nat /\ x <= cursor[c]
      BY <1>1, ReadConstants DEF ListInv, TypeOK, Behind, Listed
    <3>6. \A x \in got'[c], y \in page'[c] : x < y
      BY <3>2, <3>3, <3>4, <3>5
    <3>7. \A x \in steady[c] : x \in Listed(c) \/ x \in Rest(c)
      <4>1. steady[c] \subseteq rows \cap want[c]
        BY <1>1, <3>12 DEF Covered
      <4>2. \A x \in steady[c] : x <= cursor[c] => x \in Listed(c)
        BY <1>1, <3>12 DEF Covered
      <4> QED BY <4>1, <4>2, <3>11 DEF Rest
    <3>8. CASE P = Rest(c)
      <4>1. pc'[c] = "listed"
        BY <3>1, <3>8 DEF Goto, ListInv, TypeOK
      <4> HIDE DEF P
      <4> QED BY <4>1, <3>2, <3>6, <3>7, <3>8, <1>1 DEF Fresh, Behind, Covered, Listed
    <3>9. CASE P # Rest(c)
      <4>1. pc'[c] = "page" /\ cursor'[c] = Token(c, P)
        BY <3>1, <3>9, <1>1 DEF ListInv, TypeOK
      <4> HIDE DEF P
      <4>2. /\ Token(c, P) \in P
            /\ \A y \in P : y <= Token(c, P)
            /\ \A x \in Rest(c) : x <= Token(c, P) => x \in P
        BY <3>9, PageEndsWithToken DEF P, ListInv
      <4>3. \A x \in Listed(c)' : x <= cursor'[c]
        BY <4>1, <4>2, <3>2, <3>3, <3>4, <3>5 DEF Listed
      <4>4. \A x \in steady'[c] : x <= cursor'[c] => x \in Listed(c)'
        BY <4>1, <4>2, <3>2, <3>7, <1>1 DEF Listed
      <4>5. steady'[c] \subseteq rows' \cap want'[c]
        BY <1>1 DEF ListInv, Covered
      <4> QED BY <4>1, <4>3, <4>4, <4>5, <3>6 DEF Fresh, Behind, Covered
    <3> QED BY <3>8, <3>9
  <2> QED BY <2>1, <2>2
<1>5. ListedOnce'
  BY <1>3, <1>4 DEF ListedOnce
<1>6. ListedAll'
  BY <1>3, <1>4 DEF ListedAll, Listed
<1> QED BY <1>3, <1>4, <1>5, <1>6 DEF ListInv

\* A query or a get, from its request to its answer.
Other(c) ==
  \/ BeginQuery(c) \/ RefuseQuery(c) \/ Search(c) \/ LookUpMetric(c)
  \/ BeginGet(c) \/ GetVectors(c) \/ GetIndex(c)

\* They touch no page.
LEMMA ListUnread ==
  ASSUME ListInv, TypeOK', NEW c \in Clients, Other(c)
  PROVE  ListInv'
<1>1. UNCHANGED <<rows, cursor, page, got, steady>> /\ pc'[c] \notin {"idle", "page", "listed"}
  BY DEF Other, BeginQuery, RefuseQuery, Search, LookUpMetric, BeginGet, GetVectors,
         GetIndex, Goto, ListInv, TypeOK, table
<1>2. ASSUME NEW d \in Clients, d # c PROVE pc'[d] = pc[d] /\ want'[d] = want[d]
  BY <1>2 DEF Other, BeginQuery, RefuseQuery, Search, LookUpMetric, BeginGet, GetVectors,
              GetIndex, Goto, ListInv, TypeOK
<1>3. ListedOnce' /\ ListedAll'
  BY <1>1, <1>2 DEF ListInv, ListedOnce, ListedAll
<1>4. ASSUME NEW d \in Clients PROVE (Fresh(d) /\ Behind(d) /\ Covered(d))'
  <2>1. CASE d = c
    BY <2>1, <1>1 DEF Fresh, Behind, Covered
  <2>2. CASE d # c
    BY <2>2, <1>1, <1>2 DEF ListInv, Fresh, Behind, Covered, Listed
  <2> QED BY <2>1, <2>2
<1> QED BY <1>3, <1>4 DEF ListInv

LEMMA ListLeaves ==
  ASSUME ListInv, TypeOK', NEW c \in Clients, Leave(c)
  PROVE  ListInv'
<1>1. /\ UNCHANGED rows
      /\ pc'[c] = "idle" /\ cursor'[c] = 0 /\ page'[c] = {} /\ got'[c] = {}
  BY DEF Leave, Goto, ListInv, TypeOK, table
<1>2. ASSUME NEW d \in Clients, d # c
      PROVE /\ pc'[d] = pc[d] /\ want'[d] = want[d] /\ cursor'[d] = cursor[d]
            /\ page'[d] = page[d] /\ got'[d] = got[d] /\ steady'[d] = steady[d]
  BY <1>2 DEF Leave, Goto, ListInv, TypeOK
<1>3. ListedOnce' /\ ListedAll'
  BY <1>1, <1>2 DEF ListInv, ListedOnce, ListedAll
<1>4. ASSUME NEW d \in Clients PROVE (Fresh(d) /\ Behind(d) /\ Covered(d))'
  <2>1. CASE d = c
    BY <2>1, <1>1 DEF Fresh, Behind, Covered
  <2>2. CASE d # c
    BY <2>2, <1>1, <1>2 DEF ListInv, Fresh, Behind, Covered, Listed
  <2> QED BY <2>1, <2>2
<1> QED BY <1>3, <1>4 DEF ListInv

LEMMA ListNext == ListInv /\ [Next]_vars => ListInv'
<1> SUFFICES ASSUME ListInv, [Next]_vars PROVE ListInv'
  OBVIOUS
<1>1. TypeOK'
  BY TypeNext DEF ListInv
<1>2. ASSUME NEW N \in SUBSET Names, Insert(N) \/ Delete(N) PROVE ListInv'
  BY <1>1, <1>2, ListWriters DEF Insert, Delete
<1>3. CASE DropOwner \/ MakeOwner
  BY <1>1, <1>3, ListWriters DEF DropOwner, MakeOwner
<1>4. ASSUME NEW c \in Clients, Begin(c) \/ Read(c) \/ Leave(c)
      PROVE ListInv'
  BY <1>1, <1>4, ListBegins, ListPages, ListUnread, ListLeaves DEF Begin, Read, Other
<1>5. CASE UNCHANGED vars
  BY <1>1, <1>5 DEF vars, table, ListInv, ListedOnce, ListedAll, Fresh, Behind, Covered, Listed
<1> QED BY <1>2, <1>3, <1>4, <1>5 DEF Next

\* A listing that came to its end has every wanted name that stayed, whatever
\* was put and deleted between its pages.
THEOREM ListingMissesNothing == Spec => []ListedAll
<1>1. ListInv => ListedAll
  BY DEF ListInv
<1> QED BY ListInit, ListNext, <1>1, PTL DEF Spec

\* The pages of a listing come in order and repeat no name.
THEOREM ListingRepeatsNothing == Spec => []ListedOnce
<1>1. ListInv => ListedOnce
  BY DEF ListInv
<1> QED BY ListInit, ListNext, <1>1, PTL DEF Spec

-----------------------------------------------------------------------------
(* Queries.                                                                *)

\* The answer of a search, as NearestMatches has it.
Nearest(c) ==
  LET matches == rows \cap want[c]
      found   == hits'[c]
  IN  /\ found \subseteq matches
      /\ Cardinality(found) <= topK[c]
      /\ scan'[c] = "table" =>
           /\ \A x \in found, y \in matches \ found : Dist[owner][x] < Dist[owner][y]
           /\ want[c] = Names \/ Cardinality(rows) <= topK[c] * Oversample
                => found = matches \/ Cardinality(found) = topK[c]

LEMMA SearchFindsNearest ==
  ASSUME TypeOK, NEW c \in Clients, Search(c), owner # NoMetric
  PROVE  Nearest(c)
<1> DEFINE k == topK[c]
           limit == Limit(topK[c], want[c])
           H == hits'[c]
           rank == Dist[owner]
<1>1. k \in Nat /\ limit \in Nat
  <2>1. Oversample \in Nat /\ \A n \in TopKs : n \in Nat
    BY ReadConstants
  <2>2. k \in TopKs \cup {0}
    BY DEF TypeOK
  <2> HIDE DEF k
  <2>3. k \in Nat
    BY <2>1, <2>2
  <2>4. k * Oversample \in Nat
    BY <2>1, <2>3
  <2> QED BY <2>3, <2>4 DEF Limit, k
<1>2. /\ rows \subseteq Names /\ IsFiniteSet(rows)
      /\ \A s \in rows : rank[s] \in Nat
      /\ \A s, t \in rows : rank[s] = rank[t] => s = t
  <2>1. rows \subseteq Names /\ owner \in Metrics
    BY DEF TypeOK
  <2>2. IsFiniteSet(rows)
    BY <2>1, ReadConstants, FS_Subset
  <2>3. \A s \in Names : rank[s] \in Nat
    <3>1. Dist \in [Metrics -> [Names -> Nat]]
      BY ReadConstants
    <3> QED BY <2>1, <3>1
  <2>4. \A s, t \in Names : rank[s] = rank[t] => s = t
    BY <2>1, ReadConstants
  <2> QED BY <2>1, <2>2, <2>3, <2>4
<1>3. PICK how \in {"table", "index"} : \E C \in Candidates(limit, how) :
         H = Least(C \cap want[c], k, rank) /\ scan'[c] = how
  BY Zenon DEF Search, TypeOK
<1>4. PICK C \in Candidates(limit, how) :
         H = Least(C \cap want[c], k, rank) /\ scan'[c] = how
  BY <1>3
<1> DEFINE S == C \cap want[c]
<1>5. C \subseteq rows /\ (how = "table" => C = Least(rows, limit, rank))
  BY DEF Candidates, Least
<1>6. limit = IF want[c] = Names THEN k ELSE k * Oversample
  BY DEF Limit
<1>7. H = Least(S, k, rank)
  BY <1>4
<1> HIDE DEF k, limit, H, rank
<1>8. C \subseteq rows /\ S \subseteq C /\ H \subseteq S
  BY <1>7, <1>5 DEF Least
<1>9. IsFiniteSet(C) /\ IsFiniteSet(S) /\ IsFiniteSet(H)
  BY <1>2, <1>8, FS_Subset
<1>10. Cardinality(H) \in Nat /\ Cardinality(C) \in Nat
  BY <1>9, FS_CardinalityType
<1>11. H \subseteq rows \cap want[c]
  BY <1>8
<1>12. ASSUME how = "table", NEW x \in H, NEW y \in (rows \cap want[c]) \ H PROVE rank[x] < rank[y]
  <2>1. CASE y \in C
    BY <2>1, <1>1, <1>2, <1>7, <1>8, <1>9, <1>12, LeastIsInFront
  <2>2. CASE y \notin C
    BY <2>2, <1>1, <1>2, <1>5, <1>8, <1>12, LeastIsInFront
  <2> QED BY <2>1, <2>2
<1>13. Cardinality(H) <= k
  BY <1>1, <1>2, <1>7, <1>8, <1>9, LeastIsFew
<1>14. H # S => Cardinality(H) >= k
  BY <1>1, <1>2, <1>7, <1>8, <1>9, LeastIsFull
<1>15. ASSUME how = "table", want[c] = Names
       PROVE  H = rows \cap want[c] \/ Cardinality(H) = k
  <2>1. S = C /\ limit = k /\ rows \cap want[c] = rows
    BY <1>2, <1>8, <1>15, <1>6
  <2>2. C # rows => Cardinality(C) >= k
    BY <2>1, <1>1, <1>2, <1>5, <1>15, LeastIsFull
  <2> QED BY <2>1, <2>2, <1>1, <1>10, <1>13, <1>14
<1>16. ASSUME how = "table", want[c] # Names, Cardinality(rows) <= k * Oversample
       PROVE  H = rows \cap want[c] \/ Cardinality(H) = k
  <2>1. Cardinality(rows) <= limit
    BY <1>16, <1>6
  <2>2. C = rows
    BY <2>1, <1>1, <1>2, <1>5, <1>16, LeastIsAll
  <2> QED BY <2>2, <1>1, <1>10, <1>13, <1>14
<1> QED BY <1>4, <1>11, <1>12, <1>13, <1>15, <1>16 DEF Nearest, k, H, rank

LEMMA OnlySearchAnswers ==
  ASSUME TypeOK, Next, NEW c \in Clients, pc[c] = "search", pc'[c] = "metric"
  PROVE  Search(c) /\ owner # NoMetric
<1>1. ~(\E N \in SUBSET Names : Insert(N) \/ Delete(N))
  BY DEF Insert, Delete, Become
<1>2. ~(DropOwner \/ MakeOwner)
  BY DEF DropOwner, MakeOwner, Become
<1>3. ASSUME NEW d \in Clients, d # c PROVE ~(Begin(d) \/ Read(d) \/ Leave(d))
  BY <1>3 DEF TypeOK, Begin, BeginList, BeginQuery, RefuseQuery, BeginGet, Read, ListPage,
              Search, LookUpMetric, GetVectors, GetIndex, Leave, Goto
<1>4. ~(Begin(c) \/ ListPage(c) \/ LookUpMetric(c) \/ GetVectors(c) \/ GetIndex(c) \/ Leave(c))
  BY DEF TypeOK, Begin, BeginList, BeginQuery, RefuseQuery, BeginGet, ListPage, LookUpMetric,
         GetVectors, GetIndex, Leave, Goto
<1>5. Search(c)
  BY <1>1, <1>2, <1>3, <1>4 DEF Next, Read
<1>6. owner # NoMetric
  BY <1>5 DEF Search, Goto, TypeOK
<1> QED BY <1>5, <1>6

\* A query finds rows its filter lets through and no more than it asked for; when
\* the table is scanned, the nearest, as many as it asked for or all there are,
\* unless the filter saw too few candidates.
THEOREM QueryFindsNearest == Spec => NearestMatches
<1>1. TypeOK /\ [Next]_vars
        => [\A c \in Clients : pc[c] = "search" /\ pc'[c] = "metric" => Nearest(c)]_vars
  BY OnlySearchAnswers, SearchFindsNearest
<1> QED BY TypeCorrect, <1>1, PTL DEF Spec, NearestMatches, Nearest

-----------------------------------------------------------------------------
(* Filters, at every depth of nesting.                                     *)

\* Terms T, each with its parts P, whose nesting D comes to an end; and what a
\* function on them comes to at a term, from the term and the values at its parts.
Nested(T, P, D) ==
  D \in [T -> Nat] /\ P \in [T -> SUBSET T] /\ \A e \in T : \A f \in P[e] : D[f] < D[e]
Rules(T, V) == [T \X SUBSET V -> V]
Follows(g, T, P, F) == \A e \in T : g[e] = F[<<e, {g[f] : f \in P[e]}>>]

\* A definition by recursion over what is nested is well defined: what a term
\* comes to may depend on what its parts come to.
LEMMA Recursion ==
  ASSUME NEW T, NEW D, NEW P, Nested(T, P, D), NEW V, NEW F \in Rules(T, V)
  PROVE  \E g \in [T -> V] : Follows(g, T, P, F)
<1> USE DEF Nested, Rules, Follows
<1> DEFINE Upto(n) == {e \in T : D[e] <= n}
           Fits(g, n) == /\ g \in [Upto(n) -> V]
                         /\ \A e \in Upto(n) : g[e] = F[<<e, {g[f] : f \in P[e]}>>]
           Partial == {n \in Nat : ~\E g : Fits(g, n)}
<1>1. \A e \in T : D[e] \in Nat /\ P[e] \subseteq T /\ \A f \in P[e] : D[f] \in Nat /\ D[f] < D[e]
  OBVIOUS
\* Two such functions agree where both are defined.
<1>2. ASSUME NEW n \in Nat, NEW m \in Nat, NEW g, NEW h, Fits(g, n), Fits(h, m)
      PROVE  \A e \in T : D[e] <= n /\ D[e] <= m => g[e] = h[e]
  <2> DEFINE Bad == {e \in T : D[e] <= n /\ D[e] <= m /\ g[e] # h[e]}
  <2>1. SUFFICES ASSUME Bad # {} PROVE FALSE
    OBVIOUS
  <2>2. \A s \in Bad : D[s] \in Nat
    OBVIOUS
  <2>3. PICK e \in Bad : \A f \in Bad : D[e] <= D[f]
    <3> HIDE DEF Bad
    <3> QED BY <2>1, <2>2, First
  <2>4. \A f \in P[e] : f \in T /\ D[f] < D[e] /\ f \in Upto(n) /\ f \in Upto(m)
    BY <1>1, <2>3
  <2>5. \A f \in P[e] : g[f] = h[f]
    BY <1>1, <2>3, <2>4
  <2>6. {g[f] : f \in P[e]} = {h[f] : f \in P[e]}
    BY <2>5
  <2>7. e \in Upto(n) /\ e \in Upto(m)
    BY <2>3
  <2>8. g[e] = h[e]
    <3> HIDE DEF Upto
    <3> QED BY <1>2, <2>6, <2>7
  <2> QED BY <2>3, <2>8
\* The least level at which there is none is built from the levels below it.
<1>3. Partial = {}
  <2> SUFFICES ASSUME Partial # {} PROVE FALSE
    OBVIOUS
  <2>1. PICK n \in Partial : \A m \in Partial : n <= m
    <3> Partial \in SUBSET Nat
      OBVIOUS
    <3> HIDE DEF Partial
    <3> QED BY LeastNumber
  <2>2. \A m \in Nat : m < n => \E g : Fits(g, m)
    <3> HIDE DEF Fits
    <3> QED BY <2>1
  <2> DEFINE below(m) == CHOOSE g : Fits(g, m)
             val(f) == below(D[f])[f]
             h == [e \in Upto(n) |-> F[<<e, {val(f) : f \in P[e]}>>]]
  <2>3. ASSUME NEW m \in Nat, m < n PROVE Fits(below(m), m)
    <3> HIDE DEF Fits
    <3> QED BY <2>2, <2>3
  <2>4. ASSUME NEW e \in T, D[e] < n PROVE val(e) \in V /\ val(e) = F[<<e, {val(f) : f \in P[e]}>>]
    <3>1. Fits(below(D[e]), D[e])
      BY <1>1, <2>3, <2>4
    <3>2. e \in Upto(D[e])
      BY <1>1
    <3>3. \A f \in P[e] : val(f) = below(D[e])[f]
      <4> SUFFICES ASSUME NEW f \in P[e] PROVE val(f) = below(D[e])[f]
        OBVIOUS
      <4>1. f \in T /\ D[f] \in Nat /\ D[f] < D[e] /\ D[e] \in Nat
        BY <1>1
      <4>2. Fits(below(D[f]), D[f])
        <5> HIDE DEF below, Fits
        <5> QED BY <2>1, <2>3, <2>4, <4>1
      <4> HIDE DEF below, Fits
      <4> QED BY <1>2, <3>1, <4>1, <4>2
    <3>4. {val(f) : f \in P[e]} = {below(D[e])[f] : f \in P[e]}
      <4> HIDE DEF val, below, Fits
      <4> QED BY <3>3
    <3> DEFINE b == below(D[e])
    <3>5. b[e] \in V /\ b[e] = F[<<e, {b[f] : f \in P[e]}>>]
      <4> HIDE DEF below, Upto
      <4> QED BY <3>1, <3>2
    <3> QED BY <3>4, <3>5
  <2>5. ASSUME NEW e \in Upto(n) PROVE \A f \in P[e] : f \in Upto(n) /\ D[f] < n /\ f \in T
    BY <1>1, <2>1
  <2>6. ASSUME NEW e \in Upto(n) PROVE {val(f) : f \in P[e]} \in SUBSET V
    <3> HIDE DEF val
    <3> QED BY <2>4, <2>5
  <2>7. h \in [Upto(n) -> V]
    <3> HIDE DEF val
    <3> QED BY <2>6
  <2>8. \A f \in Upto(n) : D[f] < n => h[f] = val(f)
    <3> SUFFICES ASSUME NEW f \in Upto(n), D[f] < n PROVE h[f] = val(f)
      OBVIOUS
    <3>1. f \in T
      OBVIOUS
    <3>2. val(f) = F[<<f, {val(k) : k \in P[f]}>>]
      BY <2>4, <3>1
    <3> HIDE DEF val, Upto
    <3> QED BY <3>2
  <2>9. ASSUME NEW e \in Upto(n) PROVE h[e] = F[<<e, {h[f] : f \in P[e]}>>]
    <3>1. {h[f] : f \in P[e]} = {val(f) : f \in P[e]}
      <4> HIDE DEF val, h, Upto
      <4> QED BY <2>5, <2>8
    <3> HIDE DEF val, Upto
    <3> QED BY <3>1
  <2>10. Fits(h, n)
    <3> HIDE DEF h
    <3> QED BY <2>7, <2>9
  <2> QED BY <2>1, <2>10
<1> DEFINE at(n) == CHOOSE g : Fits(g, n)
           g == [e \in T |-> at(D[e])[e]]
<1>4. ASSUME NEW n \in Nat PROVE Fits(at(n), n)
  <2>1. \E h : Fits(h, n)
    BY <1>3
  <2> HIDE DEF Fits
  <2> QED BY <2>1
<1>5. ASSUME NEW e \in T PROVE g[e] \in V /\ g[e] = F[<<e, {g[f] : f \in P[e]}>>]
  <2>0. D[e] \in Nat /\ e \in Upto(D[e])
    BY <1>1
  <2>1. Fits(at(D[e]), D[e])
    <3> HIDE DEF at, Fits, Upto
    <3> QED BY <1>4, <2>0
  <2> DEFINE b == at(D[e])
  <2>2. \A f \in P[e] : g[f] = b[f]
    <3> SUFFICES ASSUME NEW f \in P[e] PROVE at(D[f])[f] = b[f]
      BY <1>1
    <3>1. f \in T /\ D[f] \in Nat /\ D[f] < D[e] /\ D[e] \in Nat
      BY <1>1
    <3>2. Fits(at(D[f]), D[f])
      BY <1>4, <3>1
    <3> HIDE DEF at, Fits
    <3> QED BY <1>2, <2>1, <3>1, <3>2
  <2>3. {g[f] : f \in P[e]} = {b[f] : f \in P[e]}
    <3> HIDE DEF g, b
    <3> QED BY <2>2
  <2>4. b[e] \in V /\ b[e] = F[<<e, {b[f] : f \in P[e]}>>]
    <3> HIDE DEF at, Upto
    <3> QED BY <2>0, <2>1
  <2>5. g[e] = b[e]
    OBVIOUS
  <2> HIDE DEF g, b
  <2> QED BY <2>3, <2>4, <2>5
<1>6. g \in [T -> V]
  <2>1. g = [e \in T |-> g[e]]
    OBVIOUS
  <2> HIDE DEF g
  <2> QED BY <1>5, <2>1
<1> HIDE DEF g
<1> QED BY <1>5, <1>6

\* The same over filters.
LEMMA FilterRecursion ==
  ASSUME NEW V, NEW F \in Rules(Terms, V)
  PROVE  \E g \in [Terms -> V] : \A e \in Terms : g[e] = F[<<e, {g[f] : f \in Parts(e)}>>]
<1> DEFINE P == [e \in Terms |-> Parts(e)]
<1>1. Nested(Terms, P, Depth)
  BY FilterConstants DEF Nested
<1>2. \A e \in Terms : P[e] = Parts(e)
  OBVIOUS
<1> HIDE DEF P
<1>3. PICK g \in [Terms -> V] : Follows(g, Terms, P, F)
  BY <1>1, Recursion
<1> QED BY <1>2, <1>3 DEF Follows

\* A term is a leaf or a node, whose parts are terms.
LEMMA TermFacts ==
  ASSUME NEW e \in Terms
  PROVE  /\ IsLeaf(e) => Parts(e) = {}
         /\ ~IsLeaf(e) => Parts(e) = e.of
         /\ Parts(e) \subseteq Terms
  BY FilterConstants DEF Parts

\* The clause of a node is made of the clauses of its parts.
LEMMA SqlIs ==
  ASSUME NEW m
  PROVE  \A e \in Terms :
           Sql(e, m) = IF IsLeaf(e) THEN SqlLeaf(e, m) ELSE Join(e.kind, {Sql(f, m) : f \in e.of})
<1> DEFINE clause[e \in Terms] ==
             IF IsLeaf(e) THEN SqlLeaf(e, m) ELSE Join(e.kind, {clause[f] : f \in e.of})
           V == {SqlLeaf(e, m) : e \in Terms} \cup {"T", "F", "N"}
           F == [x \in Terms \X SUBSET V |->
                   IF IsLeaf(x[1]) THEN SqlLeaf(x[1], m) ELSE Join(x[1].kind, x[2])]
<1>1. clause = [e \in Terms |-> IF IsLeaf(e) THEN SqlLeaf(e, m) ELSE Join(e.kind, {clause[f] : f \in e.of})]
  <2> SUFFICES \E g : g = [e \in Terms |-> IF IsLeaf(e) THEN SqlLeaf(e, m) ELSE Join(e.kind, {g[f] : f \in e.of})]
    BY Zenon
  <2>1. \A k, S : Join(k, S) \in V
    BY DEF Join, And, Or, Not
  <2>2. F \in Rules(Terms, V)
    <3> HIDE DEF V
    <3>1. \A e \in Terms : SqlLeaf(e, m) \in V
      BY DEF V
    <3> QED BY <2>1, <3>1 DEF Rules
  <2>3. PICK g \in [Terms -> V] : \A e \in Terms : g[e] = F[<<e, {g[f] : f \in Parts(e)}>>]
    <3> HIDE DEF V, F
    <3> QED BY <2>2, FilterRecursion
  <2>4. ASSUME NEW e \in Terms
        PROVE  g[e] = IF IsLeaf(e) THEN SqlLeaf(e, m) ELSE Join(e.kind, {g[f] : f \in e.of})
    <3>1. {g[f] : f \in Parts(e)} \in SUBSET V
      <4> HIDE DEF V
      <4> QED BY TermFacts
    <3>2. g[e] = IF IsLeaf(e) THEN SqlLeaf(e, m) ELSE Join(e.kind, {g[f] : f \in Parts(e)})
      <4> HIDE DEF V
      <4> QED BY <2>3, <3>1
    <3> QED BY <3>2, TermFacts
  <2>5. g = [e \in Terms |-> g[e]]
    <3> HIDE DEF V
    <3> QED OBVIOUS
  <2> QED BY <2>4, <2>5
<1>2. \A e \in Terms : clause[e] = Sql(e, m)
  BY Zenon DEF Sql
<1> HIDE DEF clause
<1>3. SUFFICES ASSUME NEW e \in Terms
      PROVE Sql(e, m) = IF IsLeaf(e) THEN SqlLeaf(e, m) ELSE Join(e.kind, {Sql(f, m) : f \in e.of})
  OBVIOUS
<1>4. Sql(e, m) = IF IsLeaf(e) THEN SqlLeaf(e, m) ELSE Join(e.kind, {clause[f] : f \in e.of})
  BY <1>1, <1>2
<1>5. ~IsLeaf(e) => {clause[f] : f \in e.of} = {Sql(f, m) : f \in e.of}
  BY <1>2, TermFacts
<1> QED BY <1>4, <1>5

\* A node is legal when it is of a known kind and its parts are legal.
LEMMA LegalIs ==
  \A e \in Terms :
    Legal[e] <=> IF IsLeaf(e) THEN LegalLeaf(e)
                 ELSE /\ e.kind \in Nodes
                      /\ e.kind = "operators" => e.of # {}
                      /\ \A f \in e.of : Legal[f]
<1> DEFINE Rule(e, S) == IF IsLeaf(e) THEN LegalLeaf(e)
                         ELSE /\ e.kind \in Nodes
                              /\ e.kind = "operators" => e.of # {}
                              /\ FALSE \notin S
           F == [x \in Terms \X SUBSET BOOLEAN |-> Rule(x[1], x[2])]
<1>1. PICK g \in [Terms -> BOOLEAN] : \A e \in Terms : g[e] = F[<<e, {g[f] : f \in Parts(e)}>>]
  <2>1. \A e, S : Rule(e, S) \in BOOLEAN
    BY DEF LegalLeaf
  <2>2. F \in Rules(Terms, BOOLEAN)
    <3> HIDE DEF Rule
    <3> QED BY <2>1 DEF Rules
  <2> HIDE DEF F
  <2> QED BY <2>2, FilterRecursion
<1>2. ASSUME NEW e \in Terms
      PROVE  g[e] = IF IsLeaf(e) THEN LegalLeaf(e)
                    ELSE /\ e.kind \in Nodes
                         /\ e.kind = "operators" => e.of # {}
                         /\ \A f \in e.of : g[f]
  <2>1. {g[f] : f \in Parts(e)} \in SUBSET BOOLEAN
    BY TermFacts
  <2>2. g[e] = Rule(e, {g[f] : f \in Parts(e)})
    <3> HIDE DEF Rule
    <3> QED BY <1>1, <2>1
  <2>3. FALSE \notin {g[f] : f \in Parts(e)} <=> \A f \in Parts(e) : g[f]
    BY TermFacts
  <2> QED BY <2>2, <2>3, TermFacts
<1>3. g = [e \in Terms |-> g[e]]
  OBVIOUS
<1>4. \E h : h = [e \in Terms |-> IF IsLeaf(e) THEN LegalLeaf(e)
                               ELSE /\ e.kind \in Nodes
                                    /\ e.kind = "operators" => e.of # {}
                                    /\ \A f \in e.of : h[f]]
  <2>1. g = [e \in Terms |-> IF IsLeaf(e) THEN LegalLeaf(e)
                            ELSE /\ e.kind \in Nodes
                                 /\ e.kind = "operators" => e.of # {}
                                 /\ \A f \in e.of : g[f]]
    BY <1>2, <1>3
  <2> QED
    BY <2>1, Zenon
<1>5. Legal = [e \in Terms |-> IF IsLeaf(e) THEN LegalLeaf(e)
                             ELSE /\ e.kind \in Nodes
                                  /\ e.kind = "operators" => e.of # {}
                                  /\ \A f \in e.of : Legal[f]]
  BY <1>4, Zenon DEF Legal
<1> QED BY <1>5, Zenon

\* The fields of a node are those of its parts.
LEMMA FieldsAre ==
  \A e \in Terms : FieldsOf[e] = IF IsLeaf(e) THEN {e.field} ELSE UNION {FieldsOf[f] : f \in e.of}
<1> DEFINE V == SUBSET {e.field : e \in Terms}
           F == [x \in Terms \X SUBSET V |-> IF IsLeaf(x[1]) THEN {x[1].field} ELSE UNION x[2]]
<1>1. FieldsOf = [e \in Terms |-> IF IsLeaf(e) THEN {e.field} ELSE UNION {FieldsOf[f] : f \in e.of}]
  <2> SUFFICES \E g : g = [e \in Terms |-> IF IsLeaf(e) THEN {e.field} ELSE UNION {g[f] : f \in e.of}]
    BY Zenon DEF FieldsOf
  <2>1. F \in Rules(Terms, V)
    BY DEF Rules
  <2>2. PICK g \in [Terms -> V] : \A e \in Terms : g[e] = F[<<e, {g[f] : f \in Parts(e)}>>]
    <3> HIDE DEF F, V
    <3> QED BY <2>1, FilterRecursion
  <2>3. ASSUME NEW e \in Terms
        PROVE  g[e] = IF IsLeaf(e) THEN {e.field} ELSE UNION {g[f] : f \in e.of}
    <3>1. {g[f] : f \in Parts(e)} \in SUBSET V
      <4> HIDE DEF V
      <4> QED BY TermFacts
    <3>2. g[e] = IF IsLeaf(e) THEN {e.field} ELSE UNION {g[f] : f \in Parts(e)}
      <4> HIDE DEF V
      <4> QED BY <2>2, <3>1
    <3> QED BY <3>2, TermFacts
  <2>4. g = [e \in Terms |-> g[e]]
    OBVIOUS
  <2> QED BY <2>3, <2>4
<1> QED BY <1>1

\* What a node says follows from what its parts say.
LEMMA MatchesIs ==
  ASSUME NEW m
  PROVE  \A e \in Terms :
           Matches(e, m) <=> IF IsLeaf(e) THEN MatchesLeaf(e, m)
                             ELSE \/ e.kind = "$not" /\ ~(\A f \in e.of : Matches(f, m))
                                  \/ e.kind = "$or" /\ (e.of = {} \/ \E f \in e.of : Matches(f, m))
                                  \/ e.kind \notin {"$not", "$or"} /\ \A f \in e.of : Matches(f, m)
<1> DEFINE Rule(e, S) ==
             IF IsLeaf(e) THEN MatchesLeaf(e, m)
             ELSE \/ e.kind = "$not" /\ FALSE \in S
                  \/ e.kind = "$or" /\ (e.of = {} \/ TRUE \in S)
                  \/ e.kind \notin {"$not", "$or"} /\ FALSE \notin S
           says[e \in Terms] ==
             IF IsLeaf(e) THEN MatchesLeaf(e, m)
             ELSE \/ e.kind = "$not" /\ ~(\A f \in e.of : says[f])
                  \/ e.kind = "$or" /\ (e.of = {} \/ \E f \in e.of : says[f])
                  \/ e.kind \notin {"$not", "$or"} /\ \A f \in e.of : says[f]
           F == [x \in Terms \X SUBSET BOOLEAN |-> Rule(x[1], x[2])]
<1>1. PICK g \in [Terms -> BOOLEAN] : \A e \in Terms : g[e] = F[<<e, {g[f] : f \in Parts(e)}>>]
  <2>1. ASSUME NEW e, NEW S PROVE Rule(e, S) \in BOOLEAN
    <3>1. MatchesLeaf(e, m) \in BOOLEAN
      BY DEF MatchesLeaf
    <3> QED BY <3>1
  <2>2. F \in Rules(Terms, BOOLEAN)
    <3> HIDE DEF Rule
    <3> QED BY <2>1 DEF Rules
  <2> HIDE DEF F
  <2> QED BY <2>2, FilterRecursion
<1>2. ASSUME NEW e \in Terms
      PROVE  g[e] = IF IsLeaf(e) THEN MatchesLeaf(e, m)
                    ELSE \/ e.kind = "$not" /\ ~(\A f \in e.of : g[f])
                         \/ e.kind = "$or" /\ (e.of = {} \/ \E f \in e.of : g[f])
                         \/ e.kind \notin {"$not", "$or"} /\ \A f \in e.of : g[f]
  <2>1. {g[f] : f \in Parts(e)} \in SUBSET BOOLEAN
    BY TermFacts
  <2>2. g[e] = Rule(e, {g[f] : f \in Parts(e)})
    <3> HIDE DEF Rule
    <3> QED BY <1>1, <2>1
  <2>3. /\ FALSE \notin {g[f] : f \in Parts(e)} <=> \A f \in Parts(e) : g[f]
        /\ TRUE \in {g[f] : f \in Parts(e)} <=> \E f \in Parts(e) : g[f]
    BY TermFacts
  <2> QED BY <2>2, <2>3, TermFacts
<1>3. g = [e \in Terms |-> g[e]]
  OBVIOUS
<1>4. \E h : h = [e \in Terms |->
                   IF IsLeaf(e) THEN MatchesLeaf(e, m)
                   ELSE \/ e.kind = "$not" /\ ~(\A f \in e.of : h[f])
                        \/ e.kind = "$or" /\ (e.of = {} \/ \E f \in e.of : h[f])
                        \/ e.kind \notin {"$not", "$or"} /\ \A f \in e.of : h[f]]
  <2>1. g = [e \in Terms |->
               IF IsLeaf(e) THEN MatchesLeaf(e, m)
               ELSE \/ e.kind = "$not" /\ ~(\A f \in e.of : g[f])
                    \/ e.kind = "$or" /\ (e.of = {} \/ \E f \in e.of : g[f])
                    \/ e.kind \notin {"$not", "$or"} /\ \A f \in e.of : g[f]]
    BY <1>2, <1>3
  <2> QED BY <2>1, Zenon
<1>5. says = [e \in Terms |->
                IF IsLeaf(e) THEN MatchesLeaf(e, m)
                ELSE \/ e.kind = "$not" /\ ~(\A f \in e.of : says[f])
                     \/ e.kind = "$or" /\ (e.of = {} \/ \E f \in e.of : says[f])
                     \/ e.kind \notin {"$not", "$or"} /\ \A f \in e.of : says[f]]
  BY <1>4, Zenon
<1>6. \A e \in Terms : says[e] = Matches(e, m)
  BY Zenon DEF Matches
<1> HIDE DEF says
<1>7. SUFFICES ASSUME NEW e \in Terms
      PROVE  Matches(e, m) <=> IF IsLeaf(e) THEN MatchesLeaf(e, m)
                               ELSE \/ e.kind = "$not" /\ ~(\A f \in e.of : Matches(f, m))
                                    \/ e.kind = "$or" /\ (e.of = {} \/ \E f \in e.of : Matches(f, m))
                                    \/ e.kind \notin {"$not", "$or"} /\ \A f \in e.of : Matches(f, m)
  OBVIOUS
<1>8. Matches(e, m) = IF IsLeaf(e) THEN MatchesLeaf(e, m)
                      ELSE \/ e.kind = "$not" /\ ~(\A f \in e.of : says[f])
                           \/ e.kind = "$or" /\ (e.of = {} \/ \E f \in e.of : says[f])
                           \/ e.kind \notin {"$not", "$or"} /\ \A f \in e.of : says[f]
  BY <1>5, <1>6, Zenon
<1>9. ~IsLeaf(e) => \A f \in e.of : says[f] = Matches(f, m)
  BY <1>6, TermFacts
<1> QED BY <1>8, <1>9

\* Of a row that has the field, SQL says of a leaf what the leaf says.
LEMMA LeafMeans ==
  ASSUME NEW m, NEW e, LegalLeaf(e), m[e.field] # Absent
  PROVE  SqlLeaf(e, m) = Bool(MatchesLeaf(e, m))
<1>1. ASSUME NEW V PROVE Or({Equals(m, e.field, v) : v \in V}) = Bool(m[e.field] \in V)
  <2>1. \A v \in V : Equals(m, e.field, v) = Bool(m[e.field] = v)
    BY DEF Equals
  <2>2. "N" \notin {Equals(m, e.field, v) : v \in V}
    BY <2>1 DEF Bool
  <2>3. "T" \in {Equals(m, e.field, v) : v \in V} <=> m[e.field] \in V
    BY <2>1 DEF Bool
  <2> QED BY <2>2, <2>3 DEF Or, Bool
<1>2. CASE e.op \in {"$eq", "$in"}
  <2>1. SqlLeaf(e, m) = Or({Equals(m, e.field, v) : v \in e.arg})
    BY <1>2 DEF SqlLeaf, Orders
  <2>2. MatchesLeaf(e, m) <=> m[e.field] \in e.arg
    BY <1>2 DEF MatchesLeaf, Orders
  <2> QED BY <1>1, <2>1, <2>2 DEF Bool
<1>3. CASE e.op \in {"$ne", "$nin"}
  <2>1. SqlLeaf(e, m) = NotIn(m, e.field, e.arg)
    BY <1>3 DEF SqlLeaf, Orders
  <2>2. MatchesLeaf(e, m) <=> m[e.field] \notin e.arg
    BY <1>3 DEF MatchesLeaf, Orders
  <2> QED BY <1>1, <2>1, <2>2 DEF NotIn, Not, Bool
<1>4. CASE e.op \in Orders
  <2>1. SqlLeaf(e, m) = Bool(\A v \in e.arg : InOrder(e.op, m[e.field], v))
    BY <1>4 DEF SqlLeaf, Orders
  <2>2. MatchesLeaf(e, m) <=> \A v \in e.arg : InOrder(e.op, m[e.field], v)
    BY <1>4 DEF MatchesLeaf, Orders
  <2> QED BY <2>1, <2>2 DEF Bool
<1> QED BY <1>2, <1>3, <1>4 DEF LegalLeaf, Leaves, Sets

\* Of a row that has all its fields, SQL says of a filter what the filter says,
\* however it is nested.
LEMMA SqlMeans ==
  ASSUME NEW m, NEW filt \in Terms, Legal[filt], \A x \in FieldsOf[filt] : m[x] # Absent
  PROVE  Sql(filt, m) = Bool(Matches(filt, m))
<1> DEFINE Bad == {e \in Terms : /\ Legal[e] /\ \A x \in FieldsOf[e] : m[x] # Absent
                                 /\ Sql(e, m) # Bool(Matches(e, m))}
<1>1. SUFFICES ASSUME Bad # {} PROVE FALSE
  OBVIOUS
<1>2. PICK e \in Bad : \A f \in Bad : Depth[e] <= Depth[f]
  <2> \A s \in Bad : Depth[s] \in Nat
    BY FilterConstants
  <2> HIDE DEF Bad
  <2> QED BY <1>1, First
<1>3. e \in Terms /\ Legal[e] /\ (\A x \in FieldsOf[e] : m[x] # Absent) /\ Sql(e, m) # Bool(Matches(e, m))
  BY <1>2
<1>4. ~IsLeaf(e)
  <2> SUFFICES ASSUME IsLeaf(e) PROVE FALSE
    OBVIOUS
  <2>1. LegalLeaf(e) /\ m[e.field] # Absent
    <3>1. LegalLeaf(e)
      BY <1>3, LegalIs
    <3>2. FieldsOf[e] = {e.field}
      BY <1>3, FieldsAre
    <3> QED BY <1>3, <3>1, <3>2
  <2>2. Sql(e, m) = SqlLeaf(e, m) /\ (Matches(e, m) <=> MatchesLeaf(e, m))
    BY <1>3, SqlIs, MatchesIs
  <2> QED BY <1>3, <2>1, <2>2, LeafMeans DEF Bool
<1>5. \A f \in e.of : f \in Terms /\ Sql(f, m) = Bool(Matches(f, m))
  <2> SUFFICES ASSUME NEW f \in e.of PROVE f \in Terms /\ Sql(f, m) = Bool(Matches(f, m))
    OBVIOUS
  <2>1. f \in Terms /\ Depth[f] < Depth[e] /\ Depth[e] \in Nat /\ Depth[f] \in Nat
    BY <1>3, <1>4, FilterConstants DEF Parts
  <2>2. Legal[f]
    BY <1>3, <1>4, LegalIs
  <2>3. FieldsOf[f] \subseteq FieldsOf[e]
    <3>1. FieldsOf[e] = UNION {FieldsOf[g] : g \in e.of}
      BY <1>3, <1>4, FieldsAre
    <3> QED BY <3>1
  <2>4. f \notin Bad
    BY <1>2, <2>1
  <2> QED BY <1>3, <2>1, <2>2, <2>3, <2>4
<1> DEFINE S == {Sql(f, m) : f \in e.of}
<1>6. /\ "N" \notin S
      /\ "F" \in S <=> ~\A f \in e.of : Matches(f, m)
      /\ "T" \in S <=> \E f \in e.of : Matches(f, m)
      /\ S = {} <=> e.of = {}
  BY <1>5 DEF Bool
<1>7. Sql(e, m) = Join(e.kind, S)
  BY <1>3, <1>4, SqlIs
<1>8. /\ Matches(e, m) <=> \/ e.kind = "$not" /\ ~(\A f \in e.of : Matches(f, m))
                           \/ e.kind = "$or" /\ (e.of = {} \/ \E f \in e.of : Matches(f, m))
                           \/ e.kind \notin {"$not", "$or"} /\ \A f \in e.of : Matches(f, m)
  BY <1>3, <1>4, MatchesIs
<1> HIDE DEF S
<1>9. And(S) = Bool(\A f \in e.of : Matches(f, m))
  BY <1>6 DEF And, Bool
<1>10. Or(S) = Bool(\E f \in e.of : Matches(f, m))
  BY <1>6 DEF Or, Bool
<1>11. Join(e.kind, S) = Bool(Matches(e, m))
  BY <1>6, <1>8, <1>9, <1>10 DEF Join, Not, Bool
<1> QED BY <1>3, <1>7, <1>11

-----------------------------------------------------------------------------
(* What a query's filter lets through.                                     *)

\* A client wants what its filter lets through from its first store call to its
\* answer; only a query has a filter, and no idle client has one, so no listing
\* is begun under a filter left over.
FilterInv ==
  \A c \in Clients :
    /\ pc[c] = "idle" => filter[c] = NoFilter
    /\ filter[c] # NoFilter => filter[c] \in DOMAIN Lets /\ want[c] = Lets[filter[c]]

\* No client has a filter at first.
LEMMA FilterInit == Init => FilterInv
  BY DEF Init, FilterInv

\* A new request of one client, with its filter and what that lets through.
LEMMA FilterNext == TypeOK /\ FilterInv /\ [Next]_vars => FilterInv'
<1> SUFFICES ASSUME TypeOK, FilterInv, [Next]_vars, NEW d \in Clients
             PROVE  /\ pc'[d] = "idle" => filter'[d] = NoFilter
                    /\ filter'[d] # NoFilter => filter'[d] \in DOMAIN Lets /\ want'[d] = Lets[filter'[d]]
  BY DEF FilterInv
<1>1. /\ pc[d] = "idle" => filter[d] = NoFilter
      /\ filter[d] # NoFilter => filter[d] \in DOMAIN Lets /\ want[d] = Lets[filter[d]]
  BY DEF FilterInv
<1>2. CASE \E R : Become(R)
  BY <1>1, <1>2 DEF Become
<1>3. CASE UNCHANGED vars
  BY <1>1, <1>3 DEF vars
<1>4. ASSUME NEW c \in Clients, BeginList(c) \/ BeginGet(c)
      PROVE  /\ pc'[d] = "idle" => filter'[d] = NoFilter
             /\ filter'[d] # NoFilter => filter'[d] \in DOMAIN Lets /\ want'[d] = Lets[filter'[d]]
  <2>1. /\ pc[c] = "idle" /\ filter' = filter
        /\ pc'[c] # "idle"
        /\ d # c => pc'[d] = pc[d] /\ want'[d] = want[d]
    BY <1>4 DEF BeginList, BeginGet, Goto, TypeOK
  <2> QED BY <1>1, <2>1
<1>5. ASSUME NEW c \in Clients, BeginQuery(c)
      PROVE  /\ pc'[d] = "idle" => filter'[d] = NoFilter
             /\ filter'[d] # NoFilter => filter'[d] \in DOMAIN Lets /\ want'[d] = Lets[filter'[d]]
  <2>1. PICK f \in DOMAIN Lets : filter' = [filter EXCEPT ![c] = f] /\ want' = [want EXCEPT ![c] = Lets[f]]
    BY <1>5 DEF BeginQuery
  <2>2. pc' = [pc EXCEPT ![c] = "search"]
    BY <1>5 DEF BeginQuery, Goto
  <2>3. d = c => filter'[d] = f /\ want'[d] = Lets[f] /\ pc'[d] = "search"
    BY <2>1, <2>2 DEF TypeOK
  <2>4. d # c => filter'[d] = filter[d] /\ want'[d] = want[d] /\ pc'[d] = pc[d]
    BY <2>1, <2>2 DEF TypeOK
  <2> QED BY <1>1, <2>3, <2>4
<1>6. ASSUME NEW c \in Clients, RefuseQuery(c) \/ Read(c)
      PROVE  /\ pc'[d] = "idle" => filter'[d] = NoFilter
             /\ filter'[d] # NoFilter => filter'[d] \in DOMAIN Lets /\ want'[d] = Lets[filter'[d]]
  <2>1. UNCHANGED <<want, filter>>
    BY <1>6 DEF RefuseQuery, Read, ListPage, Search, LookUpMetric, GetVectors, GetIndex
  <2>2. pc'[d] = "idle" => pc[d] = "idle"
    <3>1. pc' = pc \/ \E l \in PC \ {"idle"} : pc' = [pc EXCEPT ![c] = l]
      BY <1>6 DEF RefuseQuery, Read, ListPage, Search, LookUpMetric, GetVectors, GetIndex, Goto, PC
    <3> QED BY <3>1 DEF TypeOK
  <2> QED BY <1>1, <2>1, <2>2
<1>7. ASSUME NEW c \in Clients, Leave(c)
      PROVE  /\ pc'[d] = "idle" => filter'[d] = NoFilter
             /\ filter'[d] # NoFilter => filter'[d] \in DOMAIN Lets /\ want'[d] = Lets[filter'[d]]
  <2>1. /\ d = c => filter'[d] = NoFilter
        /\ d # c => pc'[d] = pc[d] /\ filter'[d] = filter[d] /\ want'[d] = want[d]
    BY <1>7 DEF Leave, Goto, TypeOK
  <2> QED BY <1>1, <2>1
<1> QED
  BY <1>2, <1>3, <1>4, <1>5, <1>6, <1>7
  DEF Next, Insert, Delete, DropOwner, MakeOwner, Begin

\* Every query is answered from the rows its filter describes, of those that
\* have the fields it names: SQL's third truth value does not come through, at
\* any depth of nesting, in any legal filter (filter.rs, translate).
THEOREM FiltersMean == Spec => []FilterMeans
<1>1. TypeOK /\ FilterInv => FilterMeans
  <2> SUFFICES ASSUME FilterInv, NEW c \in Clients, filter[c] # NoFilter, NEW n \in Names,
                      \A f \in FieldsOf[filter[c]] : Meta[n][f] # Absent
               PROVE  n \in want[c] <=> Matches(filter[c], Meta[n])
    BY DEF FilterMeans
  <2>1. filter[c] \in DOMAIN Lets /\ want[c] = Lets[filter[c]]
    BY DEF FilterInv
  <2>2. filter[c] \in Terms /\ Legal[filter[c]] /\ want[c] = {k \in Names : Sql(filter[c], Meta[k]) = "T"}
    BY <2>1, QueryConstants DEF Translated
  <2>3. Sql(filter[c], Meta[n]) = Bool(Matches(filter[c], Meta[n]))
    BY <2>2, SqlMeans
  <2> QED BY <2>2, <2>3 DEF Bool
<1>2. TypeOK /\ FilterInv /\ [Next]_vars => FilterInv'
  BY FilterNext
<1> QED BY <1>1, <1>2, FilterInit, TypeCorrect, PTL DEF Spec
=============================================================================
