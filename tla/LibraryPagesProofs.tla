------------------------- MODULE LibraryPagesProofs -------------------------
(***************************************************************************)
(* Proofs about LibraryPages: a reader misses nothing, the numbers on the  *)
(* pages fit each other, and a scan leaves nothing behind that it could    *)
(* read, for every set of tracks, page size and bound of the scan.         *)
(***************************************************************************)
EXTENDS LibraryPages, Counting

-----------------------------------------------------------------------------
(* The rows.                                                               *)

RowsOK == rows \in Seq(Pool) /\ IsInjective(rows)

LEMMA Library ==
    ASSUME RowsOK
    PROVE  /\ IsFiniteSet(InLibrary)
           /\ InLibrary \subseteq Pool
           /\ Cardinality(InLibrary) = Len(rows)
<1>1. /\ rows \in [1..Len(rows) -> InLibrary] /\ Len(rows) \in Nat
      /\ \A x \in InLibrary : \E i \in 1..Len(rows) : rows[i] = x
      /\ InLibrary \subseteq Pool
  BY DEF RowsOK, InLibrary, Range
<1>2. IsFiniteSet(1..Len(rows)) /\ Cardinality(1..Len(rows)) = Len(rows)
  <2>1. PICK m \in Nat : m = Len(rows)
    BY <1>1
  <2>2. IsFiniteSet(1..m) /\ Cardinality(1..m) = IF 1 > m THEN 0 ELSE m - 1 + 1
    BY FS_Interval
  <2> QED
    BY <2>1, <2>2
<1> QED
  BY <1>1, <1>2, CountImage DEF RowsOK

(* What the columns give.                                                  *)
LEMMA ColumnTypes ==
    \A x \in Pool :
       /\ \A c \in Columns : Of[x][c] \in Nat
       /\ Of[x].artist \in Nat /\ Of[x].album \in Nat /\ Of[x].year \in Nat
       /\ Of[x].release \in Nat /\ Of[x].title \in Nat /\ Of[x].no \in Nat
       /\ Of[x].duration \in Nat
       /\ Artist(x) \in Nat /\ Album(x) \in Nat /\ Year(x) \in Nat
  BY PagesAssumption DEF Columns, Artist, Album, Year, OrElse, UNKNOWN, EMPTY

-----------------------------------------------------------------------------
(* The numbers of the pages.                                               *)

\* The groups of a set of tracks, by release and without one.
Released(X) == {Of[x].release : x \in X} \ {NULL}
Loose(X) == {x \in X : Of[x].release = NULL}
LooseAlbums(X) == {<<Artist(x), Album(x), Year(x)>> : x \in Loose(X)}

LEMMA Groups ==
    ASSUME NEW X, IsFiniteSet(X)
    PROVE  /\ AlbumGroups(X) = Cardinality(Released(X)) + Cardinality(LooseAlbums(X))
           /\ IsFiniteSet(Released(X)) /\ IsFiniteSet(LooseAlbums(X))
           /\ Cardinality(Released(X)) \in Nat /\ Cardinality(LooseAlbums(X)) \in Nat
           /\ AlbumGroups(X) \in Nat
<1>1. AlbumGroups(X) = Cardinality(Released(X)) + Cardinality(LooseAlbums(X))
  BY DEF AlbumGroups, Released, LooseAlbums, Loose
<1>2. IsFiniteSet(Released(X))
  <2> DEFINE T == {Of[x].release : x \in X}
             f == [x \in X |-> Of[x].release]
  <2>1. f \in [X -> T] /\ \A y \in T : \E x \in X : f[x] = y
    OBVIOUS
  <2>2. IsFiniteSet(T)
    <3> HIDE DEF f, T
    <3> QED
      BY <2>1, CountImage
  <2> QED
    BY <2>2, FS_Difference DEF Released
<1>3. IsFiniteSet(LooseAlbums(X))
  <2> DEFINE T == LooseAlbums(X)
             f == [x \in Loose(X) |-> <<Artist(x), Album(x), Year(x)>>]
  <2>1. IsFiniteSet(Loose(X))
    BY FS_Subset DEF Loose
  <2>2. f \in [Loose(X) -> T] /\ \A y \in T : \E x \in Loose(X) : f[x] = y
    BY DEF LooseAlbums
  <2> HIDE DEF f, T
  <2>3. IsFiniteSet(T)
    BY <2>1, <2>2, CountImage
  <2> QED
    BY <2>3 DEF T
<1> QED
  BY <1>1, <1>2, <1>3, FS_CardinalityType

LEMMA GroupsGrow ==
    ASSUME NEW X, IsFiniteSet(X), NEW Y \in SUBSET X
    PROVE  AlbumGroups(Y) <= AlbumGroups(X)
<1>1. IsFiniteSet(Y)
  BY FS_Subset
<1>2. Released(Y) \in SUBSET Released(X)
  BY DEF Released
<1>3. LooseAlbums(Y) \in SUBSET LooseAlbums(X)
  BY DEF LooseAlbums, Loose
<1>4. /\ Cardinality(Released(Y)) <= Cardinality(Released(X))
      /\ Cardinality(LooseAlbums(Y)) <= Cardinality(LooseAlbums(X))
  BY <1>2, <1>3, Groups, FS_Subset
<1> QED
  BY <1>1, <1>4, Groups

(* A release, or an album of a name, may have tracks in both.              *)
LEMMA GroupsUnion ==
    ASSUME NEW X, IsFiniteSet(X), NEW Y, IsFiniteSet(Y)
    PROVE  AlbumGroups(X \cup Y) <= AlbumGroups(X) + AlbumGroups(Y)
<1>1. IsFiniteSet(X \cup Y)
  BY FS_Union
<1>2. Released(X \cup Y) = Released(X) \cup Released(Y)
  BY DEF Released
<1>3. LooseAlbums(X \cup Y) = LooseAlbums(X) \cup LooseAlbums(Y)
  BY DEF LooseAlbums, Loose
<1>4. Cardinality(Released(X \cup Y)) <= Cardinality(Released(X)) + Cardinality(Released(Y))
  BY <1>2, Groups, CountUnion
<1>5. Cardinality(LooseAlbums(X \cup Y))
        <= Cardinality(LooseAlbums(X)) + Cardinality(LooseAlbums(Y))
  BY <1>3, Groups, CountUnion
<1> QED
  BY <1>1, <1>4, <1>5, Groups

(* The groups of the detail page are those the row of the artist counts.   *)
LEMMA KeysAreGroups ==
    ASSUME NEW X \in SUBSET Pool, IsFiniteSet(X), NEW a, \A x \in X : Artist(x) = a
    PROVE  AlbumGroups(X) = Cardinality({AlbumKey(x) : x \in X})
<1> DEFINE R == {<<r, NULL, NULL>> : r \in Released(X)}
           L == {<<NULL, k[2], k[3]>> : k \in LooseAlbums(X)}
<1>1. {AlbumKey(x) : x \in X} = R \cup L
  <2>1. \A x \in X : Of[x].release # NULL => AlbumKey(x) \in R
    BY DEF AlbumKey, Released
  <2>2. ASSUME NEW x \in X, Of[x].release = NULL PROVE AlbumKey(x) \in L
    <3>1. <<Artist(x), Album(x), Year(x)>> \in LooseAlbums(X)
      BY <2>2 DEF LooseAlbums, Loose
    <3>2. AlbumKey(x) = <<NULL, Album(x), Year(x)>>
      BY <2>2 DEF AlbumKey
    <3> QED
      BY <3>1, <3>2
  <2>3. \A y \in R : \E x \in X : y = AlbumKey(x)
    BY DEF AlbumKey, Released
  <2>4. \A y \in L : \E x \in X : y = AlbumKey(x)
    BY DEF AlbumKey, LooseAlbums, Loose
  <2> QED
    BY <2>1, <2>2, <2>3, <2>4
<1>2. R \cap L = {}
  BY DEF Released
<1>3. IsFiniteSet(R) /\ Cardinality(R) = Cardinality(Released(X))
  <2> DEFINE f == [r \in Released(X) |-> <<r, NULL, NULL>>]
  <2>1. f \in [Released(X) -> R] /\ \A y \in R : \E r \in Released(X) : f[r] = y
    OBVIOUS
  <2>2. IsInjective(f)
    BY DEF IsInjective
  <2> HIDE DEF f, R
  <2> QED
    BY <2>1, <2>2, Groups, CountImage
<1>4. IsFiniteSet(L) /\ Cardinality(L) = Cardinality(LooseAlbums(X))
  <2> DEFINE f == [k \in LooseAlbums(X) |-> <<NULL, k[2], k[3]>>]
  <2>1. f \in [LooseAlbums(X) -> L] /\ \A y \in L : \E k \in LooseAlbums(X) : f[k] = y
    OBVIOUS
  <2>2. IsInjective(f)
    <3>1. \A k \in LooseAlbums(X) : k = <<a, k[2], k[3]>>
      BY DEF LooseAlbums, Loose
    <3> QED
      BY <3>1 DEF IsInjective
  <2> HIDE DEF f, L
  <2> QED
    BY <2>1, <2>2, Groups, CountImage
<1>5. Cardinality(R \cup L) = Cardinality(R) + Cardinality(L)
  <2> HIDE DEF R, L
  <2> QED
    BY <1>2, <1>3, <1>4, CountUnion
<1> QED
  BY <1>1, <1>3, <1>4, <1>5, Groups

Duration == [x \in Pool |-> Of[x].duration]

LEMMA DurationIsTotal ==
    ASSUME NEW X \in SUBSET Pool, IsFiniteSet(X)
    PROVE  TotalDuration(X) = Total(Duration, X) /\ TotalDuration(X) \in Nat
<1> DEFINE f == [x \in X |-> Of[x].duration]
<1>1. TotalDuration(X) = Total(f, X)
  BY DEF TotalDuration, SumFunction, Total
<1>2. \A x \in X : f[x] = Duration[x] /\ f[x] \in Nat
  BY ColumnTypes DEF Duration
<1> HIDE DEF f
<1>3. Total(f, X) = Total(Duration, X) /\ Total(f, X) \in Nat
  BY <1>2, SumSame, SumType
<1> QED
  BY <1>1, <1>3

(* The groups of all artists are at least those of the library.            *)
LEMMA GroupsOfParts ==
    ASSUME NEW X, IsFiniteSet(X), NEW k, NEW C, IsFiniteSet(C), NEW n,
           \A c \in C : n[c] = AlbumGroups(Part(X, k, c))
    PROVE  AlbumGroups(Parts(X, k, C)) <= Total(n, C)
<1> DEFINE D == {B \in SUBSET C : AlbumGroups(Parts(X, k, B)) <= Total(n, B)}
<1>1. \A c, B : IsFiniteSet(Part(X, k, c)) /\ IsFiniteSet(Parts(X, k, B))
  BY FS_Subset DEF Part, Parts
<1>2. /\ \A c, B : AlbumGroups(Part(X, k, c)) \in Nat /\ AlbumGroups(Parts(X, k, B)) \in Nat
      /\ \A c \in C : n[c] \in Nat
  BY <1>1, Groups
<1>3. \A B \in SUBSET C : IsFiniteSet(B) /\ Total(n, B) \in Nat
  BY <1>2, FS_Subset, SumType
<1>4. ASSUME NEW B \in SUBSET C, \A V \in SUBSET B : V # B => V \in D
      PROVE  B \in D
  <2>1. CASE B = {}
    <3>1. Parts(X, k, B) = {}
      BY <2>1 DEF Parts
    <3>2. Released({}) = {} /\ LooseAlbums({}) = {}
      BY DEF Released, LooseAlbums, Loose
    <3>3. AlbumGroups({}) = Cardinality(Released({})) + Cardinality(LooseAlbums({}))
      BY Groups, FS_EmptySet
    <3>4. AlbumGroups({}) = 0
      BY <3>2, <3>3, FS_EmptySet
    <3> QED
      BY <1>3, <3>1, <3>4
  <2>2. ASSUME NEW c \in B PROVE AlbumGroups(Parts(X, k, B)) <= Total(n, B)
    <3>1. AlbumGroups(Parts(X, k, B \ {c})) <= Total(n, B \ {c})
      BY <1>4, <2>2
    <3>2. Total(n, B) = n[c] + Total(n, B \ {c})
      BY <1>2, <1>3, SumRemove
    <3>3. AlbumGroups(Parts(X, k, B))
            <= AlbumGroups(Part(X, k, c)) + AlbumGroups(Parts(X, k, B \ {c}))
      <4> DEFINE P == Part(X, k, c)
                 R == Parts(X, k, B \ {c})
      <4>1. Parts(X, k, B) = P \cup R
        BY PartsStep
      <4>2. IsFiniteSet(P) /\ IsFiniteSet(R)
        BY <1>1
      <4> HIDE DEF P, R
      <4>3. AlbumGroups(P \cup R) <= AlbumGroups(P) + AlbumGroups(R)
        BY <4>2, GroupsUnion
      <4>4. AlbumGroups(Parts(X, k, B)) <= AlbumGroups(P) + AlbumGroups(R)
        BY <4>1, <4>3, Zenon
      <4> QED
        BY <4>4 DEF P, R
    <3>4. /\ n[c] = AlbumGroups(Part(X, k, c)) /\ n[c] \in Nat
          /\ AlbumGroups(Parts(X, k, B)) \in Nat /\ AlbumGroups(Parts(X, k, B \ {c})) \in Nat
          /\ Total(n, B \ {c}) \in Nat
      BY <1>2, <1>3
    <3> QED
      BY <3>1, <3>2, <3>3, <3>4
  <2> QED
    BY <2>1, <2>2
<1>5. C \in D
  <2> HIDE DEF D
  <2> QED
    BY <1>4, SetInduction
<1> QED
  BY <1>5

LEMMA NumbersAgree ==
    ASSUME RowsOK
    PROVE  CountsAgree
<1> DEFINE X == InLibrary
           k == [x \in Pool |-> Artist(x)]
           nt == [a \in Artists |-> ArtistRow(a).tracks]
           nd == [a \in Artists |-> ArtistRow(a).duration]
           na == [a \in Artists |-> ArtistRow(a).albums]
<1>1. IsFiniteSet(X) /\ X \in SUBSET Pool /\ Cardinality(X) = Len(rows)
  BY Library
<1>2. IsFiniteSet(Artists)
  <2> DEFINE f == [x \in X |-> Artist(x)]
  <2>1. f \in [X -> Artists] /\ \A y \in Artists : \E x \in X : f[x] = y
    BY DEF Artists
  <2> HIDE DEF f
  <2> QED
    BY <1>1, <2>1, CountImage
<1>3. /\ \A a : TracksBy(a) = Part(X, k, a)
      /\ Parts(X, k, Artists) = X
  BY <1>1 DEF TracksBy, Part, Parts, Artists
<1>4. \A a : TracksBy(a) \in SUBSET Pool /\ IsFiniteSet(TracksBy(a))
  BY <1>1, FS_Subset DEF TracksBy
<1>5. /\ SumFunction(nt) = Total(nt, Artists)
      /\ SumFunction(nd) = Total(nd, Artists)
      /\ SumFunction(na) = Total(na, Artists)
  BY DEF SumFunction, Total
<1>6. \A a \in Artists : /\ nt[a] = Cardinality(TracksBy(a))
                         /\ nd[a] = TotalDuration(TracksBy(a))
                         /\ na[a] = AlbumGroups(TracksBy(a))
  BY DEF ArtistRow
<1> HIDE DEF X, k, nt, nd, na
<1>7. \A a : ArtistRow(a).albums = Cardinality({AlbumKey(x) : x \in TracksBy(a)})
  <2> TAKE a
  <2>1. \A x \in TracksBy(a) : Artist(x) = a
    BY DEF TracksBy
  <2>2. AlbumGroups(TracksBy(a)) = Cardinality({AlbumKey(x) : x \in TracksBy(a)})
    BY <1>4, <2>1, KeysAreGroups
  <2> QED
    BY <2>2 DEF ArtistRow
<1>8. SumFunction(nt) = Len(rows)
  <2>1. \A a \in Artists : nt[a] = Cardinality(Part(X, k, a))
    BY <1>3, <1>6
  <2>2. Total(nt, Artists) = Cardinality(Parts(X, k, Artists))
    BY <1>1, <1>2, <2>1, CountParts
  <2> QED
    BY <1>1, <1>3, <1>5, <2>2
<1>9. SumFunction(nd) = TotalDuration(X)
  <2>1. \A x \in X : Duration[x] \in Nat
    BY <1>1, ColumnTypes DEF Duration
  <2>2. \A a \in Artists : nd[a] = Total(Duration, Part(X, k, a))
    BY <1>3, <1>4, <1>6, DurationIsTotal
  <2>3. Total(nd, Artists) = Total(Duration, Parts(X, k, Artists))
    BY <1>1, <1>2, <2>1, <2>2, SumParts
  <2> QED
    BY <1>1, <1>3, <1>5, <2>3, DurationIsTotal
<1>10. SumFunction(na) >= AlbumGroups(X)
  <2>1. \A a \in Artists : na[a] = AlbumGroups(Part(X, k, a))
    BY <1>3, <1>6
  <2>2. AlbumGroups(Parts(X, k, Artists)) <= Total(na, Artists)
    BY <1>1, <1>2, <2>1, GroupsOfParts
  <2>3. Total(na, Artists) \in Nat /\ AlbumGroups(X) \in Nat
    <3>1. \A a \in Artists : na[a] \in Nat
      BY <1>4, <1>6, Groups
    <3> QED
      BY <1>1, <1>2, <3>1, SumType, Groups
  <2> QED
    BY <1>3, <1>5, <2>2, <2>3
<1> QED
  BY <1>7, <1>8, <1>9, <1>10 DEF CountsAgree, Stats, X, nt, nd, na

-----------------------------------------------------------------------------
(* Places in a listing.                                                    *)

Orders == {"title", "artist", "album", "year", "added", "detail", "name"} \cup Totals

Before(l, i) == {j \in Items(l) : LexLess(SortKey(l, j), SortKey(l, i))}
Place(l, i) == Cardinality(Before(l, i))

LEMMA ItemsFinite ==
    ASSUME RowsOK, NEW l \in Orders
    PROVE  IsFiniteSet(Items(l)) /\ Items(l) \subseteq IF l \in Totals \cup {"name"} THEN Artists
                                                        ELSE InLibrary
<1>1. IsFiniteSet(Artists)
  <2> DEFINE f == [x \in InLibrary |-> Artist(x)]
  <2>1. f \in [InLibrary -> Artists] /\ \A y \in Artists : \E x \in InLibrary : f[x] = y
    BY DEF Artists
  <2> HIDE DEF f
  <2> QED
    BY Library, <2>1, CountImage
<1>2. IsFiniteSet(TracksBy(Detail)) /\ TracksBy(Detail) \in SUBSET InLibrary
  BY Library, FS_Subset DEF TracksBy
<1>3. CASE l \in Totals \cup {"name"}
  BY <1>1, <1>3 DEF Items, Totals
<1>4. CASE l = "detail"
  BY <1>2, <1>4 DEF Items, Totals
<1>5. CASE l \notin Totals \cup {"name", "detail"}
  BY <1>5, Library DEF Items
<1> QED
  BY <1>3, <1>4, <1>5

LEMMA Numbered ==
    ASSUME RowsOK, NEW x \in InLibrary
    PROVE  /\ Id(x) \in DOMAIN rows /\ rows[Id(x)] = x /\ Id(x) \in Nat
           /\ \A i \in DOMAIN rows : rows[i] = x => i = Id(x)
<1>1. \E i \in DOMAIN rows : rows[i] = x
  BY DEF InLibrary, Range
<1>2. Id(x) \in DOMAIN rows /\ rows[Id(x)] = x
  BY <1>1 DEF Id
<1> QED
  BY <1>2 DEF RowsOK, IsInjective

LEMMA RowTypes ==
    ASSUME RowsOK, NEW a
    PROVE  /\ ArtistRow(a).tracks \in Nat
           /\ ArtistRow(a).albums \in Nat
           /\ ArtistRow(a).duration \in Nat
<1>1. IsFiniteSet(TracksBy(a)) /\ TracksBy(a) \in SUBSET Pool
  BY Library, FS_Subset DEF TracksBy
<1>2. Cardinality(TracksBy(a)) \in Nat
  BY <1>1, FS_CardinalityType
<1>3. AlbumGroups(TracksBy(a)) \in Nat
  BY <1>1, Groups
<1>4. TotalDuration(TracksBy(a)) \in Nat
  BY <1>1, DurationIsTotal
<1> QED
  BY <1>2, <1>3, <1>4 DEF ArtistRow

LEMMA KeyTypes ==
    ASSUME RowsOK, NEW l \in Orders, NEW i \in Items(l)
    PROVE  \A n \in DOMAIN SortKey(l, i) : SortKey(l, i)[n] \in Int
<1>1. CASE l \in Totals \cup {"name"}
  <2>1. i \in Nat
    BY <1>1, ItemsFinite, Library, ColumnTypes DEF Artists
  <2>2. /\ ArtistRow(i).tracks \in Nat /\ ArtistRow(i).albums \in Nat
        /\ ArtistRow(i).duration \in Nat
    BY RowTypes
  <2> QED
    BY <1>1, <2>1, <2>2 DEF SortKey, Totals
<1>2. CASE l \notin Totals \cup {"name"}
  <2>1. i \in InLibrary /\ i \in Pool /\ Id(i) \in Nat
    BY <1>2, ItemsFinite, Library, Numbered
  <2>2. /\ Of[i].title \in Nat /\ Artist(i) \in Nat /\ Of[i].album \in Nat
        /\ Of[i].no \in Nat /\ Of[i].year \in Nat
    BY <2>1, ColumnTypes
  <2>3. CASE l \in {"title", "artist", "added"}
    BY <2>1, <2>2, <2>3 DEF SortKey
  <2>4. CASE l \in {"album", "year", "detail"}
    BY <2>1, <2>2, <2>4 DEF SortKey
  <2> QED
    BY <1>2, <2>3, <2>4 DEF Orders
<1> QED
  BY <1>1, <1>2

(* The items before an item are fewer than all.                            *)
LEMMA PlaceBound ==
    ASSUME RowsOK, NEW l \in Orders, NEW i \in Items(l)
    PROVE  /\ IsFiniteSet(Before(l, i))
           /\ Place(l, i) \in Nat
           /\ Place(l, i) < Cardinality(Items(l))
           /\ Cardinality(Items(l)) \in Nat
<1>1. Before(l, i) \in SUBSET Items(l) /\ IsFiniteSet(Items(l))
  BY ItemsFinite DEF Before
<1>2. i \notin Before(l, i)
  BY KeyTypes DEF Before, LexLess
<1>3. /\ IsFiniteSet(Before(l, i)) /\ Place(l, i) <= Cardinality(Items(l))
      /\ Cardinality(Items(l)) # Place(l, i)
  BY <1>1, <1>2, FS_Subset DEF Place
<1>4. Place(l, i) \in Nat /\ Cardinality(Items(l)) \in Nat
  BY <1>1, <1>3, FS_CardinalityType DEF Place
<1> QED
  BY <1>3, <1>4

-----------------------------------------------------------------------------
(* A track is added.                                                       *)

LEMMA RowsGrow ==
    ASSUME RowsOK, NEW x \in Pool, x \notin InLibrary, rows' = Append(rows, x)
    PROVE  /\ RowsOK'
           /\ InLibrary' = InLibrary \cup {x}
           /\ \A y \in InLibrary : Id(y)' = Id(y)
<1> DEFINE n == Len(rows)
<1>1. /\ rows \in Seq(Pool) /\ n \in Nat /\ DOMAIN rows = 1..n
      /\ \A i \in 1..n : rows[i] \in InLibrary
  BY DEF RowsOK, InLibrary, Range
<1>2. /\ rows' \in Seq(Pool) /\ DOMAIN rows' = 1..(n + 1)
      /\ rows'[n + 1] = x /\ \A i \in 1..n : rows'[i] = rows[i]
  BY <1>1
<1>3. \A i \in 1..(n + 1) : i \in 1..n \/ i = n + 1
  BY <1>1
<1>4. IsInjective(rows')
  BY <1>1, <1>2, <1>3 DEF RowsOK, IsInjective
<1>5. InLibrary' = InLibrary \cup {x}
  <2>1. \A y \in InLibrary : \E i \in 1..n : rows[i] = y
    BY <1>1 DEF InLibrary, Range
  <2>2. InLibrary' = {rows'[i] : i \in 1..(n + 1)}
    BY <1>2 DEF InLibrary, Range
  <2>3. \A i \in 1..n : i \in 1..(n + 1)
    BY <1>1
  <2>4. n + 1 \in 1..(n + 1)
    BY <1>1
  <2> QED
    BY <1>1, <1>2, <1>3, <2>1, <2>2, <2>3, <2>4
<1>6. RowsOK'
  BY <1>2, <1>4 DEF RowsOK
<1>7. ASSUME NEW y \in InLibrary PROVE Id(y)' = Id(y)
  <2>1. Id(y) \in 1..n /\ rows[Id(y)] = y
    BY <1>1, <1>7, Numbered
  <2>2. Id(y) \in DOMAIN rows' /\ rows'[Id(y)] = y
    BY <1>1, <1>2, <2>1
  <2>3. \A i, j \in DOMAIN rows' : rows'[i] = rows'[j] => i = j
    BY <1>4 DEF IsInjective
  <2>4. Id(y)' \in DOMAIN rows' /\ rows'[Id(y)'] = y
    BY <2>2 DEF Id
  <2> QED
    BY <2>2, <2>3, <2>4
<1> QED
  BY <1>5, <1>6, <1>7

LEMMA PairLess ==
    ASSUME NEW a \in Int, NEW b \in Int, NEW c \in Int, NEW d \in Int
    PROVE  LexLess(<<a, b>>, <<c, d>>) <=> a < c \/ (a = c /\ b < d)
<1>1. DOMAIN <<a, b>> = 1..2 /\ \A n \in 1..2 : n = 1 \/ n = 2
  OBVIOUS
<1>2. \A o \in Int : o \in 1..(1 - 1) <=> FALSE
  OBVIOUS
<1>3. \A o \in Int : o \in 1..(2 - 1) <=> o = 1
  OBVIOUS
<1> QED
  BY <1>1, <1>2, <1>3 DEF LexLess

(* What an artist has grows with the new track, and the others stay.       *)
LEMMA ArtistsGrow ==
    ASSUME RowsOK, NEW x \in Pool, x \notin InLibrary, rows' = Append(rows, x)
    PROVE  /\ Artists \subseteq Artists'
           /\ \A a : a # Artist(x) => ArtistRow(a)' = ArtistRow(a)
           /\ \A a : /\ ArtistRow(a).tracks <= ArtistRow(a)'.tracks
                     /\ ArtistRow(a).albums <= ArtistRow(a)'.albums
                     /\ ArtistRow(a).duration <= ArtistRow(a)'.duration
                     /\ ArtistRow(a)'.tracks \in Nat
                     /\ ArtistRow(a)'.albums \in Nat
                     /\ ArtistRow(a)'.duration \in Nat
<1>1. InLibrary' = InLibrary \cup {x} /\ RowsOK'
  BY RowsGrow
<1>2. Artists \subseteq Artists'
  BY <1>1 DEF Artists
<1>3. \A a : TracksBy(a)' = IF a = Artist(x) THEN TracksBy(a) \cup {x} ELSE TracksBy(a)
  BY <1>1 DEF TracksBy
<1>4. ASSUME NEW a, a # Artist(x) PROVE ArtistRow(a)' = ArtistRow(a)
  BY <1>3, <1>4 DEF ArtistRow, AlbumGroups, TotalDuration
<1>5. ASSUME NEW a
      PROVE  /\ ArtistRow(a).tracks <= ArtistRow(a)'.tracks
             /\ ArtistRow(a).albums <= ArtistRow(a)'.albums
             /\ ArtistRow(a).duration <= ArtistRow(a)'.duration
             /\ ArtistRow(a)'.tracks \in Nat
             /\ ArtistRow(a)'.albums \in Nat
             /\ ArtistRow(a)'.duration \in Nat
  <2> DEFINE X == TracksBy(a)
  <2>1. PICK Y : Y = TracksBy(a)'
    OBVIOUS
  <2>2. X \in SUBSET Y /\ Y \in SUBSET Pool /\ IsFiniteSet(Y) /\ IsFiniteSet(X) /\ X \in SUBSET Pool
    <3>1. IsFiniteSet(InLibrary') /\ InLibrary' \in SUBSET Pool
      BY <1>1, Library, FS_AddElement
    <3>2. Y \in SUBSET InLibrary'
      BY <2>1 DEF TracksBy
    <3>3. X \in SUBSET Y
      BY <1>3, <2>1
    <3> QED
      BY <3>1, <3>2, <3>3, FS_Subset
  <2>3. Cardinality(X) <= Cardinality(Y)
    BY <2>2, FS_Subset
  <2>4. AlbumGroups(X) <= AlbumGroups(Y)
    BY <2>2, GroupsGrow
  <2>5. TotalDuration(X) <= TotalDuration(Y)
    <3>1. TotalDuration(X) = Total(Duration, X) /\ TotalDuration(Y) = Total(Duration, Y)
      BY <2>2, DurationIsTotal
    <3>2. \A y \in Y : Duration[y] \in Nat
      BY <2>2, ColumnTypes DEF Duration
    <3>3. Total(Duration, Y) = Total(Duration, X) + Total(Duration, Y \ X)
      BY <2>2, <3>2, SumUnion
    <3>4. Total(Duration, X) \in Nat /\ Total(Duration, Y \ X) \in Nat
      BY <2>2, <3>2, SumType, FS_Subset
    <3> QED
      BY <3>1, <3>3, <3>4
  <2>6. /\ ArtistRow(a).tracks = Cardinality(X) /\ ArtistRow(a)'.tracks = Cardinality(Y)
        /\ ArtistRow(a).albums = AlbumGroups(X) /\ ArtistRow(a)'.albums = AlbumGroups(Y)
        /\ ArtistRow(a).duration = TotalDuration(X) /\ ArtistRow(a)'.duration = TotalDuration(Y)
    <3>1. ArtistRow(a) = [name |-> a, tracks |-> Cardinality(X), albums |-> AlbumGroups(X),
                          duration |-> TotalDuration(X)]
      BY DEF ArtistRow
    <3>2. ArtistRow(a)' = [name |-> a, tracks |-> Cardinality(Y), albums |-> AlbumGroups(Y),
                           duration |-> TotalDuration(Y)]
      BY <2>1 DEF ArtistRow, AlbumGroups, TotalDuration
    <3> QED
      BY <3>1, <3>2
  <2>7. Cardinality(Y) \in Nat /\ AlbumGroups(Y) \in Nat /\ TotalDuration(Y) \in Nat
    BY <2>2, FS_CardinalityType, Groups, DurationIsTotal
  <2> QED
    BY <2>3, <2>4, <2>5, <2>6, <2>7
<1> QED
  BY <1>2, <1>4, <1>5

LEMMA ItemsGrow ==
    ASSUME RowsOK, NEW x \in Pool, x \notin InLibrary, rows' = Append(rows, x), NEW l \in Orders
    PROVE  IsFiniteSet(Items(l)') /\ Items(l) \subseteq Items(l)'
<1>1. InLibrary' = InLibrary \cup {x}
  BY RowsGrow
<1>2. Items(l) \subseteq Items(l)' /\ Items(l)' \subseteq (Items(l) \cup {x}) \cup {Artist(x)}
  <2>1. Artists' = Artists \cup {Artist(x)}
    BY <1>1 DEF Artists
  <2> QED
    BY <1>1, <2>1 DEF Items, TracksBy, Totals
<1>3. IsFiniteSet((Items(l) \cup {x}) \cup {Artist(x)})
  BY ItemsFinite, FS_AddElement
<1> QED
  BY <1>2, <1>3, FS_Subset

(* An item that keeps its key only moves back when a track is added: what  *)
(* was before it stays before it.                                          *)
LEMMA PlacesGrow ==
    ASSUME RowsOK, NEW x \in Pool, x \notin InLibrary, rows' = Append(rows, x),
           NEW l \in Orders, NEW i \in Items(l), l \in Totals => i # Artist(x)
    PROVE  i \in Items(l)' /\ Place(l, i) <= Place(l, i)'
<1>1. RowsOK' /\ InLibrary' = InLibrary \cup {x} /\ \A y \in InLibrary : Id(y)' = Id(y)
  BY RowsGrow
<1>2. Items(l) \subseteq Items(l)'
  BY ItemsGrow
<1>3. ASSUME l \notin Totals PROVE Before(l, i) \subseteq Before(l, i)'
  <2>1. \A j \in Items(l) : SortKey(l, j)' = SortKey(l, j)
    <3>1. CASE l = "name"
      BY <3>1 DEF SortKey
    <3>2. CASE l # "name"
      <4>1. \A j \in Items(l) : Id(j)' = Id(j)
        BY <1>1, <1>3, <3>2, ItemsFinite
      <4> QED
        BY <1>3, <3>2, <4>1 DEF SortKey, Orders
    <3> QED
      BY <3>1, <3>2
  <2> QED
    BY <1>2, <2>1 DEF Before
<1>4. ASSUME l \in Totals PROVE Before(l, i) \subseteq Before(l, i)'
  <2> DEFINE num(a) == CASE l = "tracks" -> ArtistRow(a).tracks
                         [] l = "albums" -> ArtistRow(a).albums
                         [] l = "duration" -> ArtistRow(a).duration
  <2>1. \A a : SortKey(l, a) = <<-num(a), a>>
    BY <1>4 DEF SortKey, Totals
  <2>2. \A a : SortKey(l, a)' = <<-num(a)', a>>
    BY <1>4 DEF SortKey, Totals
  <2>3. num(i)' = num(i)
    BY <1>4, ArtistsGrow
  <2>4. \A a : num(a) \in Nat
    BY <1>4, RowTypes DEF Totals
  <2>5. \A a : num(a)' \in Nat /\ num(a) <= num(a)'
    BY <1>4, ArtistsGrow DEF Totals
  <2>6. Items(l) \subseteq Int
    BY <1>4, Library, ColumnTypes DEF Items, Artists, Totals
  <2> HIDE DEF num
  <2>7. ASSUME NEW j \in Before(l, i) PROVE j \in Before(l, i)'
    <3>1. j \in Items(l) /\ LexLess(<<-num(j), j>>, <<-num(i), i>>)
      BY <2>1, <2>7 DEF Before
    <3>2. -num(j) < -num(i) \/ (-num(j) = -num(i) /\ j < i)
      <4>1. -num(j) \in Int /\ -num(i) \in Int /\ i \in Int /\ j \in Int
        BY <2>4, <2>6, <3>1
      <4> QED
        BY <3>1, <4>1, PairLess
    <3>3. PICK n : n = num(j)'
      OBVIOUS
    <3>4. n \in Nat /\ num(j) <= n
      BY <2>5, <3>3
    <3>5. -n < -num(i) \/ (-n = -num(i) /\ j < i)
      BY <2>4, <3>2, <3>4
    <3>6. LexLess(<<-n, j>>, <<-num(i), i>>)
      <4>1. -n \in Int /\ -num(i) \in Int /\ i \in Int /\ j \in Int
        BY <2>4, <2>6, <3>1, <3>4
      <4> QED
        BY <3>5, <4>1, PairLess
    <3>7. SortKey(l, j)' = <<-n, j>> /\ SortKey(l, i)' = <<-num(i), i>>
      BY <2>2, <2>3, <3>3
    <3> QED
      BY <1>2, <3>1, <3>6, <3>7 DEF Before
  <2> QED
    BY <2>7
<1>5. IsFiniteSet(Items(l)')
  BY ItemsGrow
<1>6. IsFiniteSet(Before(l, i)') /\ Before(l, i) \subseteq Before(l, i)'
  <2>1. Before(l, i)' \subseteq Items(l)'
    BY DEF Before
  <2> QED
    BY <1>3, <1>4, <1>5, <2>1, FS_Subset
<1> QED
  BY <1>2, <1>6, FS_Subset DEF Place

(* The numbers of the pages hold all items of a listing, and the page that *)
(* is read is one of them.                                                 *)
LEMMA Multiples ==
    ASSUME NEW k \in Int, NEW p \in Int, k <= p, NEW d \in Nat
    PROVE  k * d <= p * d
<1>1. PICK n \in Nat : p = k + n
  BY SMT
<1>2. n * d >= 0 /\ p * d = k * d + n * d
  BY <1>1, SMT
<1> QED
  BY <1>2, SMT

LEMMA Pages ==
    ASSUME NEW total \in Nat
    PROVE  /\ TotalPages(total) \in Nat \ {0}
           /\ total <= TotalPages(total) * PerPage
<1> DEFINE d == PerPage
           q == CeilDiv(total, d)
           S == {1, q}
<1>1. d \in Nat \ {0}
  BY PagesAssumption
<1>2. q \in Int /\ total <= q * d
  <2>1. PICK n \in Nat : n = total + d - 1
    BY <1>1
  <2>2. n \div d \in Int /\ n < (n \div d) * d + d
    BY <1>1, <2>1, SMT
  <2> QED
    BY <1>1, <2>1, <2>2 DEF CeilDiv
<1> HIDE DEF q
<1>3. \E m \in S : \A y \in S : m >= y
  <2>1. CASE 1 >= q
    BY <1>2, <2>1
  <2>2. CASE q >= 1
    BY <1>2, <2>2
  <2> QED
    BY <1>2, <2>1, <2>2
<1>4. PICK m \in S : m = Max(S) /\ \A y \in S : m >= y
  BY <1>3, Zenon DEF Max
<1>5. TotalPages(total) = m /\ m \in Int /\ m >= 1 /\ m >= q
  BY <1>2, <1>4 DEF TotalPages, q
<1>6. q * d <= m * d
  BY <1>1, <1>2, <1>5, Multiples
<1> QED
  BY <1>1, <1>2, <1>5, <1>6

LEMMA Clamped ==
    ASSUME NEW total \in Nat, NEW page \in Nat
    PROVE  /\ ClampPage(page, total) \in Nat
           /\ page # 0 => ClampPage(page, total) # 0
           /\ ClampPage(page, total) <= page
           /\ ClampPage(page, total) <= TotalPages(total)
<1> DEFINE t == TotalPages(total)
           S == {page, t}
<1>1. t \in Nat \ {0}
  BY Pages
<1> HIDE DEF t
<1>2. \E m \in S : \A y \in S : m =< y
  <2>1. CASE page <= t
    BY <1>1, <2>1
  <2>2. CASE t <= page
    BY <1>1, <2>2
  <2> QED
    BY <1>1, <2>1, <2>2
<1>3. PICK m \in S : m = Min(S) /\ \A y \in S : m =< y
  BY <1>2, Zenon DEF Min
<1>4. ClampPage(page, total) = m
  BY <1>3 DEF ClampPage, t
<1> QED
  BY <1>1, <1>3, <1>4 DEF t

LEMMA Offsets ==
    ASSUME NEW page \in Nat \ {0}
    PROVE  /\ Offset(1) = 0
           /\ Offset(page) \in Nat /\ PerPage \in Nat
           /\ Offset(page + 1) = page * PerPage
           /\ Offset(page + 1) = Offset(page) + PerPage
           /\ \A earlier \in Nat \ {0} : earlier <= page => Offset(earlier) <= Offset(page)
<1>1. PerPage \in Nat
  BY PagesAssumption
<1>2. PICK n \in Nat : page = n + 1
  BY SMT
<1>3. (n + 1) * PerPage = n * PerPage + PerPage /\ n * PerPage \in Nat
  BY <1>1
<1>4. Offset(1) = 0 /\ Offset(page) = n * PerPage /\ Offset(page + 1) = (n + 1) * PerPage
  BY <1>1, <1>2 DEF Offset
<1>5. ASSUME NEW earlier \in Nat \ {0}, earlier <= page PROVE Offset(earlier) <= Offset(page)
  <2>1. (earlier - 1) * PerPage <= n * PerPage
    BY <1>1, <1>2, <1>5, Multiples
  <2> QED
    BY <1>4, <2>1 DEF Offset
<1> QED
  BY <1>1, <1>2, <1>3, <1>4, <1>5

LEMMA PageIsSlice ==
    ASSUME RowsOK, NEW l \in Orders, NEW page
    PROVE  OnPage(l, page) = {i \in Items(l) : Place(l, i) \in Offset(page)..(Offset(page) + PerPage - 1)}
<1> DEFINE X == Items(l)
           key == [i \in X |-> SortKey(l, i)]
<1>1. \A i \in X : {j \in X : LexLess(key[j], key[i])} = Before(l, i)
  BY DEF Before
<1> QED
  BY <1>1, Zenon DEF OnPage, Slice, Place

-----------------------------------------------------------------------------
(* The walk through the pages.                                             *)

Walks == [step : {"none", "count", "read", "end"}, listing : Orders, page : Nat, total : Nat,
          seen : SUBSET (Pool \cup Nat), there : SUBSET (Pool \cup Nat), torn : BOOLEAN]

\* What was there at the start is still listed, and what of it lies before the
\* page that comes next has been seen.  The count fits the rows as long as no
\* track is added before the read.
OnTheWay ==
  walk.step \in {"count", "read"} =>
    /\ walk.page \in Nat \ {0}
    /\ walk.there \subseteq Items(walk.listing)
    /\ \A i \in walk.there :
         Place(walk.listing, i) < Offset(walk.page) => i \in walk.seen

Counted ==
  walk.step = "read" => /\ walk.total = Cardinality(Items(walk.listing))
                        /\ walk.page <= TotalPages(walk.total)

WalkInv ==
  /\ RowsOK
  /\ walk \in Walks
  /\ ~walk.torn => OnTheWay /\ Counted /\ WalkMissesNothing

LEMMA ItemsTypes ==
    ASSUME RowsOK, NEW l \in Orders
    PROVE  /\ Items(l) \subseteq Pool \cup Nat
           /\ \A page : OnPage(l, page) \subseteq Pool \cup Nat
           /\ Cardinality(Items(l)) \in Nat
<1>1. Items(l) \subseteq Pool \cup Nat
  BY ItemsFinite, Library, ColumnTypes DEF Artists
<1>2. \A page : OnPage(l, page) \subseteq Items(l)
  BY DEF OnPage, Slice
<1> QED
  BY <1>1, <1>2, ItemsFinite, FS_CardinalityType

LEMMA NoWalkInv == NoWalk \in Walks /\ NoWalk.step = "none" /\ ~NoWalk.torn
  BY DEF NoWalk, Walks, Orders

LEMMA OpenKeepsWalk ==
    ASSUME WalkInv, NEW l \in Listings, Open(l)
    PROVE  WalkInv'
<1>1. l \in Orders
  BY PagesAssumption DEF Orders, Totals
<1>2. RowsOK' /\ Items(l)' = Items(l) /\ RowsOK
  BY DEF WalkInv, Open, RowsOK, Items, Artists, TracksBy, InLibrary
<1>3. /\ walk' \in Walks /\ walk'.step = "count" /\ walk'.listing = l /\ walk'.page = 1
      /\ walk'.there = Items(l) /\ ~walk'.torn
  BY <1>1, <1>2, NoWalkInv, ItemsTypes DEF Open, NoWalk, Walks
<1>4. ASSUME NEW i \in Items(l), Place(l, i)' < Offset(1) PROVE FALSE
  <2>1. Place(l, i) \in Nat
    BY <1>1, <1>2, <1>3, PlaceBound
  <2>2. Place(l, i)' = Place(l, i)
    BY DEF Open, Place, Before, Items, Artists, TracksBy, InLibrary, SortKey, ArtistRow, Id
  <2>3. Offset(1) = 0
    BY Offsets
  <2> QED
    BY <1>3, <1>4, <2>1, <2>2, <2>3
<1>5. OnTheWay'
  BY <1>2, <1>3, <1>4 DEF OnTheWay
<1> QED
  BY <1>2, <1>3, <1>5 DEF WalkInv, Counted, WalkMissesNothing

LEMMA CountKeepsWalk ==
    ASSUME WalkInv, CountRows
    PROVE  WalkInv'
<1>. PICK l : l = walk.listing
  OBVIOUS
<1> DEFINE total == Cardinality(Items(l))
<1>1. RowsOK /\ RowsOK' /\ walk \in Walks /\ l \in Orders
  BY DEF WalkInv, CountRows, RowsOK, Walks
<1>2. total \in Nat
  BY <1>1, ItemsTypes
<1>3. \A i : Place(l, i)' = Place(l, i) /\ Items(l)' = Items(l)
  BY DEF CountRows, Place, Before, Items, Artists, TracksBy, InLibrary, SortKey, ArtistRow, Id
<1>4. walk' = [walk EXCEPT !.step = "read", !.total = total, !.page = ClampPage(walk.page, total)]
  BY DEF CountRows
<1> HIDE DEF total
<1>5. /\ walk'.step = "read" /\ walk'.listing = l /\ walk'.total = total
      /\ walk'.page = ClampPage(walk.page, total) /\ walk'.there = walk.there
      /\ walk'.seen = walk.seen /\ walk'.torn = walk.torn
  BY <1>1, <1>4 DEF Walks
<1>6. CASE walk.torn
  <2>1. ClampPage(walk.page, total) \in Nat
    <3>1. walk.page \in Nat
      BY <1>1 DEF Walks
    <3> QED
      BY <1>2, <3>1, Clamped
  <2> QED
    BY <1>1, <1>2, <1>4, <1>5, <1>6, <2>1 DEF WalkInv, Walks
<1>7. CASE ~walk.torn
  <2>1. /\ walk.page \in Nat \ {0} /\ walk.there \subseteq Items(l)
        /\ \A i \in walk.there : Place(l, i) < Offset(walk.page) => i \in walk.seen
    BY <1>7 DEF WalkInv, OnTheWay, CountRows
  <2>2. PICK p : p = ClampPage(walk.page, total)
    OBVIOUS
  <2>3. p \in Nat \ {0} /\ p <= walk.page /\ p <= TotalPages(total)
    BY <1>2, <2>1, <2>2, Clamped
  <2>4. Offset(p) \in Int /\ Offset(walk.page) \in Int /\ Offset(p) <= Offset(walk.page)
    <3>1. Offset(p) \in Nat /\ Offset(walk.page) \in Nat
      BY <2>1, <2>3, Offsets
    <3>2. Offset(p) <= Offset(walk.page)
      BY <2>1, <2>3, Offsets
    <3> QED
      BY <3>1, <3>2
  <2>5. \A i \in walk.there : Place(l, i) < Offset(p) => i \in walk.seen
    <3>1. \A i \in walk.there : Place(l, i) \in Nat
      BY <1>1, <2>1, PlaceBound
    <3> QED
      BY <2>1, <2>4, <3>1
  <2>6. walk' \in Walks
    BY <1>1, <1>2, <1>4, <2>2, <2>3 DEF Walks
  <2>7. OnTheWay'
    BY <1>3, <1>5, <2>1, <2>2, <2>3, <2>5 DEF OnTheWay
  <2>8. Counted'
    BY <1>3, <1>5, <2>2, <2>3 DEF Counted, total
  <2> QED
    BY <1>1, <1>5, <2>6, <2>7, <2>8 DEF WalkInv, WalkMissesNothing
<1> QED
  BY <1>6, <1>7

LEMMA WalksOn ==
    ASSUME NEW w \in Walks, NEW seen \in SUBSET (Pool \cup Nat), NEW step \in {"count", "end"},
           NEW page \in Nat
    PROVE  [w EXCEPT !.seen = seen, !.step = step, !.page = page] \in Walks
  BY DEF Walks

LEMMA ReadKeepsWalk ==
    ASSUME WalkInv, ReadRows
    PROVE  WalkInv'
<1>. PICK l : l = walk.listing
  OBVIOUS
<1>. PICK p : p = walk.page
  OBVIOUS
<1>. PICK onPage : onPage = OnPage(l, p)
  OBVIOUS
<1>1. RowsOK /\ RowsOK' /\ walk \in Walks /\ l \in Orders /\ p \in Nat
  BY DEF WalkInv, ReadRows, RowsOK, Walks
<1>2. onPage \subseteq Pool \cup Nat
  BY <1>1, ItemsTypes
<1>3. \A i : Place(l, i)' = Place(l, i) /\ Items(l)' = Items(l)
  BY DEF ReadRows, Place, Before, Items, Artists, TracksBy, InLibrary, SortKey, ArtistRow, Id
<1>4. /\ walk.step = "read"
      /\ walk' = [walk EXCEPT !.seen = walk.seen \cup onPage,
                      !.step = IF p < TotalPages(walk.total) THEN "count" ELSE "end",
                      !.page = p + 1]
  BY DEF ReadRows
<1>5. /\ walk'.step = IF p < TotalPages(walk.total) THEN "count" ELSE "end"
      /\ walk'.listing = l /\ walk'.page = p + 1 /\ walk'.there = walk.there
      /\ walk'.seen = walk.seen \cup onPage /\ walk'.torn = walk.torn
  BY <1>1, <1>4 DEF Walks
<1>6. walk' \in Walks
  <2>. PICK seen : seen = walk.seen \cup onPage
    OBVIOUS
  <2>. PICK step : step = IF p < TotalPages(walk.total) THEN "count" ELSE "end"
    OBVIOUS
  <2>1. seen \in SUBSET (Pool \cup Nat)
    BY <1>1, <1>2 DEF Walks
  <2>2. step \in {"count", "end"} /\ p + 1 \in Nat
    BY <1>1
  <2>3. walk' = [walk EXCEPT !.seen = seen, !.step = step, !.page = p + 1]
    BY <1>4
  <2> QED
    BY <1>1, <2>1, <2>2, <2>3, WalksOn
<1>7. CASE walk.torn
  BY <1>1, <1>5, <1>6, <1>7 DEF WalkInv
<1>8. CASE ~walk.torn
  <2>1. /\ p \in Nat \ {0} /\ walk.there \subseteq Items(l)
        /\ \A i \in walk.there : Place(l, i) < Offset(p) => i \in walk.seen
        /\ walk.total = Cardinality(Items(l)) /\ p <= TotalPages(walk.total)
    BY <1>4, <1>8 DEF WalkInv, OnTheWay, Counted
  <2>2. /\ Offset(p) \in Nat /\ PerPage \in Nat
        /\ Offset(p + 1) = Offset(p) + PerPage /\ Offset(p + 1) = p * PerPage
    BY <2>1, Offsets
  <2>3. \A i \in walk.there : Place(l, i) \in Nat /\ Place(l, i) < walk.total
    BY <1>1, <2>1, PlaceBound
  <2>4. ASSUME NEW i \in walk.there, Place(l, i) < Offset(p + 1) PROVE i \in walk'.seen
    <3>1. CASE Place(l, i) < Offset(p)
      BY <1>5, <2>1, <3>1
    <3>2. CASE Place(l, i) >= Offset(p)
      <4>1. Place(l, i) \in Offset(p)..(Offset(p) + PerPage - 1)
        BY <2>2, <2>3, <2>4, <3>2
      <4>2. onPage = {j \in Items(l) : Place(l, j) \in Offset(p)..(Offset(p) + PerPage - 1)}
        BY <1>1, PageIsSlice
      <4>3. i \in Items(l)
        BY <2>1
      <4>4. i \in onPage
        BY <4>1, <4>2, <4>3, Zenon
      <4> QED
        BY <1>5, <4>4
    <3> QED
      BY <2>2, <2>3, <3>1, <3>2
  <2>5. p = TotalPages(walk.total) => walk.total <= Offset(p + 1)
    <3>1. walk.total \in Nat
      BY <1>1, <2>1, ItemsTypes
    <3> QED
      BY <2>2, <3>1, Pages
  <2>6. CASE p < TotalPages(walk.total)
    <3>1. OnTheWay'
      BY <1>3, <1>5, <2>1, <2>4, <2>6 DEF OnTheWay
    <3> QED
      BY <1>1, <1>5, <1>6, <2>6, <3>1 DEF WalkInv, Counted, WalkMissesNothing
  <2>7. CASE ~(p < TotalPages(walk.total))
    <3>1. walk.total \in Nat /\ TotalPages(walk.total) \in Nat
      BY <1>1, <2>1, ItemsTypes, Pages
    <3>2. walk.total <= Offset(p + 1) /\ Offset(p + 1) \in Nat
      BY <2>1, <2>2, <2>5, <2>7, <3>1
    <3>3. \A i \in walk.there : i \in walk'.seen
      BY <2>3, <2>4, <3>1, <3>2
    <3>4. WalkMissesNothing'
      BY <1>5, <3>3 DEF WalkMissesNothing
    <3> QED
      BY <1>1, <1>5, <1>6, <2>7, <3>4 DEF WalkInv, Counted, OnTheWay
  <2> QED
    BY <2>6, <2>7
<1> QED
  BY <1>7, <1>8

LEMMA AddKeepsWalk ==
    ASSUME WalkInv, NEW x \in Pool, AddTrack(x)
    PROVE  WalkInv'
<1>. PICK l : l = walk.listing
  OBVIOUS
<1>. PICK there : there = IF l \in Totals THEN walk.there \ {Artist(x)} ELSE walk.there
  OBVIOUS
<1>1. RowsOK /\ walk \in Walks /\ l \in Orders /\ x \notin InLibrary /\ rows' = Append(rows, x)
  BY DEF WalkInv, AddTrack, RowsOK, Walks
<1>2. RowsOK'
  BY <1>1, RowsGrow
<1>3. walk' = [walk EXCEPT !.torn = walk.torn \/ walk.step = "read", !.there = there]
  BY DEF AddTrack
<1>4. /\ walk'.step = walk.step /\ walk'.listing = l /\ walk'.page = walk.page
      /\ walk'.there = there /\ walk'.seen = walk.seen
      /\ walk'.torn = (walk.torn \/ walk.step = "read")
  BY <1>1, <1>3 DEF Walks
<1>5. walk' \in Walks
  BY <1>1, <1>3 DEF Walks
<1>6. CASE walk'.torn
  BY <1>2, <1>5, <1>6 DEF WalkInv
<1>7. CASE ~walk'.torn
  <2>1. ~walk.torn /\ walk.step # "read" /\ OnTheWay /\ WalkMissesNothing
    BY <1>4, <1>7 DEF WalkInv
  <2>2. there \subseteq walk.there
    OBVIOUS
  <2>3. WalkMissesNothing'
    BY <1>4, <2>1, <2>2 DEF WalkMissesNothing
  <2>4. ASSUME walk.step = "count" PROVE OnTheWay'
    <3>1. /\ walk.page \in Nat \ {0} /\ walk.there \subseteq Items(l)
          /\ \A i \in walk.there : Place(l, i) < Offset(walk.page) => i \in walk.seen
      BY <2>1, <2>4 DEF OnTheWay
    <3>2. \A i \in there : i \in Items(l)' /\ Place(l, i) <= Place(l, i)'
      BY <1>1, <2>2, <3>1, PlacesGrow
    <3>3. PICK offset : offset = Offset(walk.page)
      OBVIOUS
    <3>4. offset \in Nat
      BY <3>1, <3>3, Offsets
    <3>5. ASSUME NEW i \in there, Place(l, i)' < offset PROVE i \in walk.seen
      <4>1. PICK n : n = Place(l, i)'
        OBVIOUS
      <4>2. n \in Nat
        <5>1. IsFiniteSet(Items(l)')
          BY <1>1, ItemsGrow
        <5>2. Before(l, i)' \subseteq Items(l)'
          BY DEF Before
        <5>3. Place(l, i)' = Cardinality(Before(l, i)')
          BY DEF Place
        <5> QED
          BY <4>1, <5>1, <5>2, <5>3, FS_Subset, FS_CardinalityType
      <4>3. Place(l, i) \in Nat
        BY <1>1, <2>2, <3>1, PlaceBound
      <4> QED
        BY <2>2, <3>1, <3>2, <3>3, <3>4, <3>5, <4>1, <4>2, <4>3
    <3> QED
      BY <1>4, <3>1, <3>2, <3>3, <3>5 DEF OnTheWay
  <2>5. CASE walk.step = "count"
    BY <1>2, <1>4, <1>5, <2>3, <2>4, <2>5 DEF WalkInv, Counted
  <2>6. CASE walk.step # "count"
    BY <1>2, <1>4, <1>5, <2>1, <2>3, <2>6 DEF WalkInv, Counted, OnTheWay
  <2> QED
    BY <2>5, <2>6
<1> QED
  BY <1>6, <1>7

LEMMA RowsStay ==
    ASSUME RowsOK, rows' = rows
    PROVE  /\ RowsOK'
           /\ \A l, i : Items(l)' = Items(l) /\ Place(l, i)' = Place(l, i)
  BY DEF RowsOK, Place, Before, Items, Artists, TracksBy, InLibrary, SortKey, ArtistRow, Id

LEMMA WalkInvInit ==
    ASSUME Init
    PROVE  WalkInv
<1>1. rows = << >> /\ walk = NoWalk
  BY DEF Init
<1>2. RowsOK
  BY <1>1 DEF RowsOK, IsInjective
<1> QED
  BY <1>1, <1>2, NoWalkInv DEF WalkInv, OnTheWay, Counted, WalkMissesNothing

LEMMA StandsStill ==
    ASSUME WalkInv, UNCHANGED <<rows, walk>>
    PROVE  WalkInv'
<1>1. RowsOK' /\ \A l, i : Items(l)' = Items(l) /\ Place(l, i)' = Place(l, i)
  BY RowsStay DEF WalkInv
<1>. PICK l : l = walk.listing
  OBVIOUS
<1>2. walk'.listing = l
  OBVIOUS
<1>3. OnTheWay => OnTheWay'
  BY <1>1, <1>2 DEF OnTheWay
<1>4. Counted => Counted'
  BY <1>1, <1>2 DEF Counted
<1> QED
  BY <1>1, <1>3, <1>4 DEF WalkInv, WalkMissesNothing

LEMMA WalkNext == WalkInv /\ [Next]_vars => WalkInv'
<1> SUFFICES ASSUME WalkInv, [Next]_vars PROVE WalkInv'
  OBVIOUS
<1>1. ASSUME NEW l \in Listings, Open(l) PROVE WalkInv'
  BY <1>1, OpenKeepsWalk
<1>2. CASE CountRows
  BY <1>2, CountKeepsWalk
<1>3. CASE ReadRows
  BY <1>3, ReadKeepsWalk
<1>4. CASE Leave \/ Restart
  <2>1. rows' = rows /\ walk' = NoWalk
    BY <1>4 DEF Leave, Restart
  <2>2. RowsOK'
    BY <2>1, RowsStay DEF WalkInv
  <2> QED
    BY <2>1, <2>2, NoWalkInv DEF WalkInv, OnTheWay, Counted, WalkMissesNothing
<1>5. ASSUME NEW x \in Pool, AddTrack(x) PROVE WalkInv'
  BY <1>5, AddKeepsWalk
<1>6. CASE ScanBatch \/ ScanEnds \/ ScanFails \/ StartApp \/ UNCHANGED vars
  BY <1>6, StandsStill DEF ScanBatch, ScanEnds, ScanFails, StartApp, vars
<1> QED
  BY <1>1, <1>2, <1>3, <1>4, <1>5, <1>6 DEF Next

\* The walk through a listing misses nothing that was there at its start and
\* kept its place, whatever tracks are added on the way, for every library,
\* listing and size of a page: routers/catalog.py counts and reads each page
\* anew, and services/catalog.py sorts by keys that end in the id.
THEOREM NothingIsMissed == Spec => []WalkMissesNothing
<1>1. Spec => []WalkInv
  BY WalkInvInit, WalkNext, PTL DEF Spec
<1>2. WalkInv => WalkMissesNothing
  BY DEF WalkInv, WalkMissesNothing
<1> QED
  BY <1>1, <1>2, PTL

\* The numbers of the pages fit each other in every reachable state: the groups that
\* SQL counts are those that Python builds, no track is counted twice or left out, and
\* an album of several artists is in the sum over artists at least once
\* (get_library_stats, list_artists and get_artist_detail in services/catalog.py).
THEOREM NumbersFit == Spec => []CountsAgree
<1>1. Spec => []WalkInv
  BY WalkInvInit, WalkNext, PTL DEF Spec
<1>2. WalkInv => CountsAgree
  BY NumbersAgree DEF WalkInv
<1> QED
  BY <1>1, <1>2, PTL

-----------------------------------------------------------------------------
(* The scan.                                                               *)

\* The times of the scans: each is some track's, and no track has two.
Times(c) ==
  /\ c \in Seq((SUBSET InLibrary) \ {{}})
  /\ \A i, j \in DOMAIN c : i # j => c[i] \cap c[j] = {}

\* A scan that has stamped a batch has its own time, the last one, and the old ones
\* are before it.
ScanInv ==
  /\ RowsOK
  /\ Times(checked)
  /\ old \in 0..Len(checked)
  /\ scan \in [step : {"scan", "done", "failed", "app"}, examined : 0..MaxRows,
               stamped : BOOLEAN, fails : 0..MaxFailures]
  /\ scan.stamped => old < Len(checked) /\ scan.step # "app"
  /\ ScanIsThorough

\* The time of a track for the order of a batch: 0 if it has none.
Turn(x) == IF x \in Unchecked THEN 0 ELSE CHOOSE i \in DOMAIN checked : x \in checked[i]

LEMMA Turns ==
    ASSUME RowsOK, Times(checked), old \in 0..Len(checked)
    PROVE  /\ IsFiniteSet(Pending) /\ Pending \subseteq InLibrary
           /\ \A x \in Pending : /\ ScanKey(x) = <<Turn(x), Id(x)>>
                                 /\ Turn(x) \in Int /\ Id(x) \in Int
           /\ \A x, y \in Pending : Id(x) = Id(y) => x = y
<1>1. /\ Len(checked) \in Nat /\ DOMAIN checked = 1..Len(checked)
      /\ \A i \in 1..Len(checked) : checked[i] \subseteq InLibrary
  BY DEF Times
<1>2. Pending \subseteq InLibrary
  <2>1. \A i \in 1..old : i \in 1..Len(checked)
    BY <1>1
  <2> QED
    BY <1>1, <2>1 DEF Pending, Due, Unchecked
<1>3. IsFiniteSet(Pending)
  BY <1>2, Library, FS_Subset
<1>4. ASSUME NEW x \in Pending PROVE Turn(x) \in Int
  <2>1. CASE x \in Unchecked
    BY <2>1 DEF Turn
  <2>2. CASE x \notin Unchecked
    <3>1. \E i \in DOMAIN checked : x \in checked[i]
      BY <1>2, <2>2 DEF Unchecked, Range
    <3> QED
      BY <1>1, <2>2, <3>1 DEF Turn
  <2> QED
    BY <2>1, <2>2
<1>5. ASSUME NEW x PROVE ScanKey(x) = <<Turn(x), Id(x)>>
  <2>1. CASE x \in Unchecked
    BY <2>1 DEF ScanKey, Turn
  <2>2. CASE x \notin Unchecked
    <3> DEFINE t == CHOOSE i \in DOMAIN checked : x \in checked[i]
    <3>1. Turn(x) = t
      BY <2>2, Zenon DEF Turn
    <3>2. ScanKey(x) = <<t, Id(x)>>
      BY <2>2, Zenon DEF ScanKey
    <3> HIDE DEF t
    <3> QED
      BY <3>1, <3>2
  <2> QED
    BY <2>1, <2>2
<1>6. \A x \in Pending : Id(x) \in Int /\ rows[Id(x)] = x
  BY <1>2, Numbered
<1> QED
  BY <1>2, <1>3, <1>4, <1>5, <1>6

\* What a batch has: some of what is pending, and no more than the limit.
LEMMA Batches ==
    ASSUME RowsOK, Times(checked), old \in 0..Len(checked), scan.examined \in 0..(MaxRows - 1),
           Pending # {}
    PROVE  /\ Batch \subseteq Pending /\ Batch # {}
           /\ IsFiniteSet(Batch)
           /\ Cardinality(Batch) \in Nat
           /\ scan.examined + Cardinality(Batch) <= MaxRows
<1> DEFINE P == Pending
           key == [x \in P |-> ScanKey(x)]
           Below == [x \in P |-> {y \in P : LexLess(key[y], key[x])}]
           rank == [x \in P |-> Cardinality(Below[x])]
           limit == Limit
<1>1. IsFiniteSet(P)
  BY Turns
<1>2. \A x, y \in P : LexLess(key[x], key[y]) <=> \/ Turn(x) < Turn(y)
                                                  \/ Turn(x) = Turn(y) /\ Id(x) < Id(y)
  <2> TAKE x, y \in P
  <2>1. key[x] = <<Turn(x), Id(x)>> /\ key[y] = <<Turn(y), Id(y)>>
    BY Turns
  <2>2. Turn(x) \in Int /\ Id(x) \in Int /\ Turn(y) \in Int /\ Id(y) \in Int
    BY Turns
  <2> HIDE DEF key
  <2> QED
    BY <2>1, <2>2, PairLess
<1>3. \A x \in P : Turn(x) \in Int /\ Id(x) \in Int
  BY Turns
<1>4. \A x, y \in P : Id(x) = Id(y) => x = y
  BY Turns
<1>5. Below \in [P -> SUBSET P]
  <2>1. \A x \in P : {y \in P : LexLess(key[y], key[x])} \in SUBSET P
    OBVIOUS
  <2> QED
    BY <2>1
<1>6. \A x, y \in P : y \in Below[x] <=> \/ Turn(y) < Turn(x)
                                         \/ Turn(y) = Turn(x) /\ Id(y) < Id(x)
  <2>1. \A x, y \in P : y \in Below[x] <=> LexLess(key[y], key[x])
    BY Zenon
  <2> HIDE DEF key, Below
  <2> QED
    BY <1>2, <2>1
<1>7. \A x \in P : \A y \in Below[x] : y \in P
  BY <1>5
<1>8. limit \in Nat /\ limit >= 1 /\ scan.examined + limit <= MaxRows
  <2> DEFINE left == MaxRows - scan.examined
  <2>1. BatchSize \in Nat \ {0} /\ MaxRows \in Nat \ {0} /\ left \in Nat \ {0}
    BY PagesAssumption
  <2> HIDE DEF left
  <2>2. \E m \in {BatchSize, left} : \A y \in {BatchSize, left} : m =< y
    <3>1. CASE BatchSize <= left
      BY <2>1, <3>1
    <3>2. CASE left <= BatchSize
      BY <2>1, <3>2
    <3> QED
      BY <2>1, <3>1, <3>2
  <2>3. PICK m \in {BatchSize, left} :
          m = Min({BatchSize, left}) /\ \A y \in {BatchSize, left} : m =< y
    BY <2>2, Zenon DEF Min
  <2>4. limit = m
    BY <2>3 DEF Limit, left
  <2>5. m <= left
    BY <2>3
  <2> QED
    BY <2>1, <2>3, <2>4, <2>5 DEF left
<1>9. Batch = {x \in P : rank[x] \in 0..(limit - 1)}
  BY Zenon DEF Batch, Slice
<1> HIDE DEF P, key, Below, rank, limit
<1>10. \A x \in P : x \notin Below[x]
  BY <1>3, <1>6
<1>11. \A x, y \in P : \/ x = y
                       \/ x \in Below[y] /\ Below[x] \subseteq Below[y]
                       \/ y \in Below[x] /\ Below[y] \subseteq Below[x]
  <2> TAKE x, y \in P
  <2>1. \/ x = y
        \/ Turn(x) < Turn(y) \/ (Turn(x) = Turn(y) /\ Id(x) < Id(y))
        \/ Turn(y) < Turn(x) \/ (Turn(y) = Turn(x) /\ Id(y) < Id(x))
    BY <1>3, <1>4
  <2>2. ASSUME NEW a \in P, NEW b \in P,
               Turn(a) < Turn(b) \/ (Turn(a) = Turn(b) /\ Id(a) < Id(b))
        PROVE  a \in Below[b] /\ Below[a] \subseteq Below[b]
    <3>1. \A c \in P : Turn(c) < Turn(a) \/ (Turn(c) = Turn(a) /\ Id(c) < Id(a))
            => Turn(c) < Turn(b) \/ (Turn(c) = Turn(b) /\ Id(c) < Id(b))
      BY <1>3, <2>2
    <3> QED
      BY <1>6, <1>7, <2>2, <3>1
  <2> QED
    BY <2>1, <2>2
<1>12. Cardinality(P) \in Nat /\ \A x \in P : Cardinality(Below[x]) \in Nat
  BY <1>1, <1>5, <1>10, <1>11, Ranks
<1>13. \A x, y \in P : Cardinality(Below[x]) = Cardinality(Below[y]) => x = y
  BY <1>1, <1>5, <1>10, <1>11, Ranks
<1>14. \E x \in P : Cardinality(Below[x]) = 0
  <2>1. 0 \in Nat /\ 0 < Cardinality(P)
    BY <1>1, <1>12, FS_EmptySet DEF P
  <2> QED
    BY <1>1, <1>5, <1>10, <1>11, <2>1, RankTaken
<1>15. rank \in [P -> Nat] /\ IsInjective(rank) /\ \A x \in P : rank[x] = Cardinality(Below[x])
  BY <1>12, <1>13 DEF rank, IsInjective
<1>16. Cardinality(Batch) <= limit
  BY <1>1, <1>8, <1>9, <1>15, SliceSize
<1>17. Batch # {}
  <2>1. PICK x \in P : rank[x] = 0
    BY <1>14, <1>15
  <2>2. 0 \in 0..(limit - 1)
    BY <1>8
  <2> QED
    BY <1>9, <2>1, <2>2
<1>18. Batch \subseteq P
  BY <1>9
<1>19. IsFiniteSet(Batch) /\ Cardinality(Batch) \in Nat
  BY <1>1, <1>18, FS_Subset, FS_CardinalityType
<1>20. scan.examined + Cardinality(Batch) <= MaxRows
  <2>1. scan.examined \in Int /\ MaxRows \in Int
    BY PagesAssumption
  <2> QED
    BY <1>8, <1>16, <1>19, <2>1
<1> QED
  BY <1>17, <1>18, <1>19, <1>20 DEF P

LEMMA StampedTimes ==
    ASSUME Times(checked), NEW B, NEW to \in 0..Len(checked)
    PROVE  /\ Len(Stamped(B, to)) \in Nat
           /\ Len(Stamped(B, to)) = Cardinality({i \in 1..to : checked[i] \ B # {}})
           /\ Stamped(B, to) \in Seq((SUBSET InLibrary) \ {{}})
           /\ \A n \in DOMAIN Stamped(B, to) :
                /\ Stamped(B, to)[n] \cap B = {}
                /\ \E i \in 1..to : Stamped(B, to)[n] \subseteq checked[i]
           /\ \A m, n \in DOMAIN Stamped(B, to) :
                m # n => Stamped(B, to)[m] \cap Stamped(B, to)[n] = {}
<1> DEFINE K == {i \in 1..to : checked[i] \ B # {}}
           S == Stamped(B, to)
           c == Cardinality(K)
<1>1. IsFiniteSet(K) /\ c \in Nat /\ K \subseteq 1..to
  <2>1. IsFiniteSet(1..to)
    BY FS_Interval
  <2> QED
    BY <2>1, FS_Subset, FS_CardinalityType
<1>2. S = [n \in 1..c |-> checked[Nth(K, n)] \ B]
  BY DEF Stamped, Sorted
<1>3. ASSUME NEW n \in 1..c
      PROVE  Nth(K, n) \in K /\ Cardinality({j \in K : j <= Nth(K, n)}) = n
  <2>1. K \in SUBSET Int
    OBVIOUS
  <2> HIDE DEF K
  <2> QED
    BY <1>1, <2>1, NthOf
<1>4. \A i \in K : i \in DOMAIN checked /\ checked[i] \in SUBSET InLibrary /\ checked[i] \ B # {}
  BY <1>1 DEF Times
<1> HIDE DEF K, S, c
<1>5. ASSUME NEW n \in 1..c
      PROVE  /\ S[n] \in (SUBSET InLibrary) \ {{}}
             /\ S[n] \cap B = {}
             /\ \E i \in 1..to : S[n] \subseteq checked[i]
  <2>1. PICK i \in K : i = Nth(K, n) /\ S[n] = checked[i] \ B
    BY <1>2, <1>3
  <2> QED
    BY <1>1, <1>4, <2>1
<1>6. ASSUME NEW m \in 1..c, NEW n \in 1..c, m # n PROVE S[m] \cap S[n] = {}
  <2>1. Nth(K, m) # Nth(K, n)
    BY <1>3, <1>6
  <2>2. PICK i \in K, j \in K : i # j /\ S[m] = checked[i] \ B /\ S[n] = checked[j] \ B
    BY <1>2, <1>3, <2>1
  <2>3. checked[i] \cap checked[j] = {}
    BY <1>4, <2>2 DEF Times
  <2> QED
    BY <2>2, <2>3
<1>7. S \in Seq((SUBSET InLibrary) \ {{}}) /\ Len(S) = c /\ DOMAIN S = 1..c
  <2>1. S \in [1..c -> (SUBSET InLibrary) \ {{}}]
    BY <1>2, <1>5
  <2> QED
    BY <1>1, <2>1
<1> QED
  <2>1. Len(S) = Cardinality({i \in 1..to : checked[i] \ B # {}})
    BY <1>7 DEF K, c
  <2> QED
    BY <1>1, <1>5, <1>6, <1>7, <2>1 DEF S

LEMMA FewerBefore ==
    ASSUME Times(checked), NEW B, NEW to \in 0..Len(checked), NEW from \in 0..to
    PROVE  Len(Stamped(B, from)) <= Len(Stamped(B, to))
<1> DEFINE K(n) == {i \in 1..n : checked[i] \ B # {}}
<1>1. \A n \in 0..to : IsFiniteSet(K(n)) /\ Cardinality(K(n)) \in Nat
  <2> TAKE n \in 0..to
  <2>1. IsFiniteSet(1..n)
    BY FS_Interval
  <2> QED
    BY <2>1, FS_Subset, FS_CardinalityType
<1>2. \A n \in 0..to : Len(Stamped(B, n)) = Cardinality(K(n))
  <2> TAKE n \in 0..to
  <2>1. n \in 0..Len(checked)
    BY DEF Times
  <2>2. Len(Stamped(B, n)) = Cardinality({i \in 1..n : checked[i] \ B # {}})
    BY <2>1, StampedTimes
  <2> QED
    BY <2>2
<1>3. K(from) \subseteq K(to) /\ IsFiniteSet(K(to))
  BY <1>1
<1> HIDE DEF K
<1>4. Cardinality(K(from)) <= Cardinality(K(to))
  BY <1>3, FS_Subset
<1> QED
  BY <1>2, <1>4

LEMMA StampKeepsTimes ==
    ASSUME Times(checked), old \in 0..Len(checked), scan.stamped => old < Len(checked),
           scan.stamped \in BOOLEAN,
           NEW B \in SUBSET InLibrary, B # {}, Stamp(B)
    PROVE  Times(checked') /\ old' \in Nat /\ old' < Len(checked')
<1> DEFINE last == Len(checked) - (IF scan.stamped THEN 1 ELSE 0)
           mine == B \cup (IF scan.stamped THEN checked[Len(checked)] ELSE {})
           S == Stamped(B, last)
<1>1. Len(checked) \in Nat /\ DOMAIN checked = 1..Len(checked)
  BY DEF Times
<1>2. last \in 0..Len(checked) /\ old \in 0..last
  BY <1>1
<1>3. old' = Len(Stamped(B, old)) /\ checked' = S \o <<mine>>
  BY DEF Stamp
<1>4. mine \in (SUBSET InLibrary) \ {{}}
  <2>1. scan.stamped => checked[Len(checked)] \in SUBSET InLibrary
    BY <1>1 DEF Times
  <2> QED
    BY <2>1
<1>5. ASSUME NEW i \in 1..last PROVE checked[i] \cap mine \subseteq B
  <2>1. CASE scan.stamped
    <3>1. last = Len(checked) - 1 /\ mine = B \cup checked[Len(checked)]
      BY <2>1
    <3> HIDE DEF last, mine
    <3>2. i # Len(checked) /\ i \in DOMAIN checked /\ Len(checked) \in DOMAIN checked
      <4>1. PICK n \in Nat : n = Len(checked)
        BY <1>1
      <4>2. i \in 1..(n - 1)
        BY <3>1, <4>1
      <4>3. i # n /\ i \in 1..n /\ n \in 1..n
        BY <4>2
      <4> QED
        BY <1>1, <4>1, <4>3
    <3>3. checked[i] \cap checked[Len(checked)] = {}
      BY <3>2 DEF Times
    <3> QED
      BY <3>1, <3>3
  <2>2. CASE ~scan.stamped
    BY <2>2
  <2> QED
    BY <2>1, <2>2
<1> HIDE DEF last, mine, S
<1>6. /\ S \in Seq((SUBSET InLibrary) \ {{}}) /\ Len(S) \in Nat
      /\ \A n \in DOMAIN S : S[n] \cap B = {} /\ \E i \in 1..last : S[n] \subseteq checked[i]
      /\ \A m, n \in DOMAIN S : m # n => S[m] \cap S[n] = {}
  BY <1>2, StampedTimes DEF S
<1>7. PICK c : c = checked'
  OBVIOUS
<1>8. /\ c \in Seq((SUBSET InLibrary) \ {{}}) /\ Len(c) = Len(S) + 1
      /\ DOMAIN c = 1..(Len(S) + 1) /\ DOMAIN S = 1..Len(S)
      /\ \A n \in DOMAIN S : c[n] = S[n]
      /\ c[Len(S) + 1] = mine
  BY <1>3, <1>4, <1>6, <1>7
<1>9. \A n \in DOMAIN S : S[n] \cap mine = {}
  BY <1>5, <1>6
<1>10. \A n \in DOMAIN c : n \in DOMAIN S \/ n = Len(S) + 1
  BY <1>6, <1>8
<1>11. \A m, n \in DOMAIN c : m # n => c[m] \cap c[n] = {}
  BY <1>6, <1>8, <1>9, <1>10
<1>12. Len(Stamped(B, old)) \in Nat /\ Len(Stamped(B, old)) <= Len(S)
  BY <1>1, <1>2, StampedTimes, FewerBefore DEF S
<1> QED
  BY <1>3, <1>6, <1>7, <1>8, <1>11, <1>12 DEF Times

Scans == [step : {"scan", "done", "failed", "app"}, examined : 0..MaxRows,
          stamped : BOOLEAN, fails : 0..MaxFailures]

LEMMA ScanInit ==
    ASSUME Init
    PROVE  ScanInv
<1>1. rows = << >> /\ checked = << >> /\ old = 0
  BY DEF Init
<1>2. RowsOK
  BY <1>1 DEF RowsOK, IsInjective
<1>3. Times(checked)
  BY <1>1 DEF Times
<1>4. /\ scan \in [step : {"scan", "done", "failed", "app"}, examined : 0..MaxRows,
                   stamped : BOOLEAN, fails : 0..MaxFailures]
      /\ ~scan.stamped /\ scan.step = "app"
  BY PagesAssumption DEF Init
<1> QED
  BY <1>1, <1>2, <1>3, <1>4 DEF ScanInv, ScanIsThorough

LEMMA BatchKeepsScan ==
    ASSUME ScanInv, ScanBatch
    PROVE  ScanInv'
<1>. PICK B : B = Batch
  OBVIOUS
<1>. PICK n : n = scan.examined + Cardinality(B)
  OBVIOUS
<1>1. /\ RowsOK /\ Times(checked) /\ old \in 0..Len(checked) /\ scan \in Scans
      /\ scan.stamped => old < Len(checked) /\ scan.step # "app"
  BY DEF ScanInv, Scans
<1>2. /\ scan.step = "scan" /\ scan.examined < MaxRows /\ Pending # {}
      /\ Stamp(B) /\ rows' = rows
      /\ scan' = [scan EXCEPT !.examined = n, !.stamped = TRUE]
  BY DEF ScanBatch
<1>3. scan.examined \in 0..(MaxRows - 1) /\ scan.stamped \in BOOLEAN
  BY <1>1, <1>2, PagesAssumption DEF Scans
<1>4. B \subseteq InLibrary /\ B # {} /\ n \in 0..MaxRows
  <2>1. B \subseteq Pending /\ B # {} /\ Cardinality(B) \in Nat /\ n <= MaxRows
    BY <1>1, <1>2, <1>3, Batches
  <2>2. Pending \subseteq InLibrary
    BY <1>1, Turns
  <2> QED
    BY <1>3, <2>1, <2>2, PagesAssumption
<1>5. Times(checked') /\ old' \in Nat /\ old' < Len(checked')
  BY <1>1, <1>2, <1>3, <1>4, StampKeepsTimes
<1>6. Times(checked)' /\ RowsOK'
  BY <1>1, <1>2, <1>5 DEF Times, InLibrary, RowsOK
<1>7. scan' \in Scans /\ scan'.step = "scan"
  BY <1>1, <1>2, <1>4 DEF Scans
<1>8. old' \in 0..Len(checked')
  <2>1. Len(checked') \in Nat
    BY <1>5 DEF Times
  <2> QED
    BY <1>5, <2>1
<1> QED
  BY <1>5, <1>6, <1>7, <1>8 DEF ScanInv, ScanIsThorough, Scans

LEMMA AddKeepsScan ==
    ASSUME ScanInv, NEW x \in Pool, AddTrack(x)
    PROVE  ScanInv'
<1>1. RowsOK' /\ InLibrary' = InLibrary \cup {x}
  BY RowsGrow DEF ScanInv, AddTrack
<1>2. Times(checked)'
  <2>1. PICK c : c = checked /\ c = checked'
    BY DEF AddTrack
  <2>2. /\ c \in Seq((SUBSET InLibrary) \ {{}})
        /\ \A i, j \in DOMAIN c : i # j => c[i] \cap c[j] = {}
    BY <2>1 DEF ScanInv, Times
  <2>3. c \in Seq((SUBSET InLibrary') \ {{}})
    BY <1>1, <2>2
  <2> QED
    BY <2>1, <2>2, <2>3 DEF Times
<1> QED
  BY <1>1, <1>2 DEF ScanInv, AddTrack, ScanIsThorough

LEMMA ScanNext == ScanInv /\ [Next]_vars => ScanInv'
<1> SUFFICES ASSUME ScanInv, [Next]_vars PROVE ScanInv'
  OBVIOUS
<1>1. /\ RowsOK /\ Times(checked) /\ old \in 0..Len(checked) /\ scan \in Scans
      /\ scan.stamped => old < Len(checked) /\ scan.step # "app"
      /\ ScanIsThorough
  BY DEF ScanInv, Scans
<1>2. CASE UNCHANGED <<rows, facts, checked, old, scan>>
  <2>1. Pending' = Pending /\ RowsOK' /\ Times(checked)'
    BY <1>1, <1>2 DEF Pending, Due, Unchecked, InLibrary, RowsOK, Times
  <2> QED
    BY <1>1, <1>2, <2>1 DEF ScanInv, Scans, ScanIsThorough
<1>3. ASSUME NEW x \in Pool, AddTrack(x) PROVE ScanInv'
  BY <1>3, AddKeepsScan
<1>4. CASE ScanBatch
  BY <1>4, BatchKeepsScan
<1>5. CASE ScanEnds \/ ScanFails \/ StartApp \/ Restart
  <2>1. rows' = rows /\ checked' = checked /\ facts' = facts
    BY <1>5 DEF ScanEnds, ScanFails, StartApp, Restart
  <2>2. RowsOK' /\ Times(checked)' /\ Len(checked) \in Nat
    BY <1>1, <2>1 DEF RowsOK, Times, InLibrary
  <2>3. CASE ScanEnds
    <3>1. Pending' = Pending /\ old' = old
      BY <2>1, <2>3 DEF ScanEnds, Pending, Due, Unchecked, InLibrary
    <3>2. scan' = [scan EXCEPT !.step = "done"] /\ (scan.examined = MaxRows \/ Pending = {})
      BY <2>3 DEF ScanEnds
    <3>3. /\ scan' \in Scans /\ scan'.stamped = scan.stamped
          /\ scan'.examined = scan.examined /\ scan'.step = "done"
      BY <1>1, <3>2 DEF Scans
    <3>4. ScanIsThorough'
      BY <3>1, <3>2, <3>3, PagesAssumption DEF ScanIsThorough
    <3> QED
      BY <1>1, <2>1, <2>2, <3>1, <3>3, <3>4 DEF ScanInv, Scans
  <2>4. CASE ScanFails
    <3>1. scan' = [scan EXCEPT !.step = "failed", !.fails = scan.fails - 1]
          /\ scan.fails > 0 /\ old' = old
      BY <2>4 DEF ScanFails
    <3>2. PICK n \in 0..MaxFailures : n = scan.fails - 1
      BY <1>1, <3>1, PagesAssumption DEF Scans
    <3>3. scan' \in Scans /\ scan'.stamped = scan.stamped /\ scan'.step = "failed"
      BY <1>1, <3>1, <3>2 DEF Scans
    <3> QED
      BY <1>1, <2>1, <2>2, <3>1, <3>3 DEF ScanInv, Scans, ScanIsThorough
  <2>5. CASE StartApp
    <3>1. scan' = [scan EXCEPT !.step = "app", !.examined = 0, !.stamped = FALSE] /\ old' = old
      BY <2>5 DEF StartApp
    <3>2. 0 \in 0..MaxRows
      BY PagesAssumption
    <3>3. scan' \in Scans /\ ~scan'.stamped /\ scan'.step = "app"
      BY <1>1, <3>1, <3>2 DEF Scans
    <3> QED
      BY <1>1, <2>1, <2>2, <3>1, <3>3 DEF ScanInv, Scans, ScanIsThorough
  <2>6. CASE Restart
    <3>1. scan.step = "app" /\ scan' = [scan EXCEPT !.step = "scan"] /\ old' \in old..Len(checked)
      BY <2>6 DEF Restart
    <3>2. scan' \in Scans /\ ~scan'.stamped /\ scan'.step = "scan"
      BY <1>1, <3>1 DEF Scans
    <3>3. old' \in 0..Len(checked)
      BY <1>1, <2>2, <3>1
    <3> QED
      BY <1>1, <2>1, <2>2, <3>2, <3>3 DEF ScanInv, Scans, ScanIsThorough
  <2> QED
    BY <1>5, <2>3, <2>4, <2>5, <2>6
<1> QED
  BY <1>2, <1>3, <1>4, <1>5
  DEF Next, Open, CountRows, ReadRows, Leave, vars

LEMMA ScanInvariant == Spec => []ScanInv
  BY ScanInit, ScanNext, PTL DEF Spec

\* A scan that ends below its bound leaves no track unread that was due, whatever the
\* sizes of its batches and however often a scan failed before
\* (reconcile_track_file_metadata, which asks for the next batch until there is none).
THEOREM NothingDueIsLeft == Spec => []ScanIsThorough
<1>1. ScanInv => ScanIsThorough
  BY DEF ScanInv
<1> QED
  BY <1>1, ScanInvariant, PTL

LEMMA FactsType ==
    (facts \in [Pool -> SUBSET Facts] /\ files \subseteq Pool) /\ [Next]_vars
      => (facts \in [Pool -> SUBSET Facts] /\ files \subseteq Pool)'
<1> SUFFICES ASSUME facts \in [Pool -> SUBSET Facts], files \subseteq Pool, [Next]_vars
             PROVE  facts' \in [Pool -> SUBSET Facts] /\ files' \subseteq Pool
  OBVIOUS
<1>1. ASSUME NEW x \in Pool, AddTrack(x) PROVE facts' \in [Pool -> SUBSET Facts]
  BY <1>1, PagesAssumption DEF AddTrack
<1>2. CASE ScanBatch
  BY <1>2 DEF ScanBatch
<1>3. CASE Restart
  BY <1>3, PagesAssumption DEF Restart
<1> QED
  BY <1>1, <1>2, <1>3
  DEF Next, Open, CountRows, ReadRows, Leave, AddTrack, ScanEnds, ScanFails, StartApp, Restart, vars

\* The shape of the state in every reachable state: a track has one time at most, and a
\* scan never examines more rows than its bound (reconcile_track_file_metadata).
THEOREM PagesType == Spec => []TypeOK
<1>1. Init => facts \in [Pool -> SUBSET Facts] /\ files \subseteq Pool
  BY PagesAssumption DEF Init
<1>2. Spec => [](facts \in [Pool -> SUBSET Facts] /\ files \subseteq Pool)
  BY <1>1, FactsType, PTL DEF Spec
<1>3. Spec => []WalkInv
  BY WalkInvInit, WalkNext, PTL DEF Spec
<1>4. WalkInv /\ ScanInv /\ facts \in [Pool -> SUBSET Facts] /\ files \subseteq Pool => TypeOK
  BY DEF WalkInv, ScanInv, TypeOK, RowsOK, Times, Walks
<1> QED
  BY <1>2, <1>3, <1>4, ScanInvariant, PTL
=============================================================================
