---------------------------- MODULE ImagesProofs ----------------------------
(***************************************************************************)
(* Proofs about Images, for any number of items, files, positions and      *)
(* requests under way.                                                     *)
(*                                                                         *)
(* ImagesInv is inductive.  A request is kept apart from the others by the *)
(* name of its new file (PairInv), and from the rows by the order of its   *)
(* steps: the file before the row, the row before the file (RequestInv).   *)
(* What it read of positions stays true as long as it is the only one of   *)
(* its item that writes any (ReadInv); deletions only take positions away. *)
(* Most actions replace one request by its next step: RequestAdded says    *)
(* what has to be shown of them.                                           *)
(***************************************************************************)
EXTENDS Images, FiniteSetTheorems, WellFoundedInduction, TLAPS

USE ImagesAssumption

-------------------------------------------------------------------------------
\* Least and greatest numbers

\* Every non-empty set of naturals has a least element: the shortest of the
\* intervals from 0 to a member ...
LEMMA MinExists ==
  ASSUME NEW S, S \subseteq Nat, S # {}
  PROVE  Min(S) \in S /\ \A y \in S : Min(S) <= y
<1>. DEFINE T == {0 .. x : x \in S}
<1>1. T \subseteq FiniteSubsetsOf(Nat)
  <2>1. \A x \in S : IsFiniteSet(0 .. x)
    BY FS_Interval
  <2>2. \A x \in S : 0 .. x \in SUBSET Nat
    OBVIOUS
  <2>. QED
    BY <2>1, <2>2 DEF FiniteSubsetsOf
<1>2. T # {}
  <2>1. PICK x \in S : TRUE
    OBVIOUS
  <2>2. 0 .. x \in T
    BY <2>1
  <2>. QED
    BY <2>2
<1>. HIDE DEF T
<1>3. PICK A \in T : \A B \in T : <<B, A>> \notin StrictSubsetOrdering(Nat)
  BY <1>1, <1>2, FS_StrictSubsetOrderingWellFounded, WFMin
<1>4. PICK x \in S : A = 0 .. x
  BY <1>3 DEF T
<1>5. ASSUME NEW y \in S PROVE x <= y
  <2>1. 0 .. y \in T
    BY DEF T
  <2>2. <<0 .. y, 0 .. x>> \notin StrictSubsetOrdering(Nat)
    BY <2>1, <1>3, <1>4
  <2>3. SUFFICES ASSUME ~(x <= y) PROVE FALSE
    OBVIOUS
  <2>4. y < x /\ x \in Nat /\ y \in Nat
    BY <2>3
  <2>5. 0 .. y \subseteq 0 .. x /\ x \in 0 .. x /\ x \notin 0 .. y
    BY <2>4
  <2>6. 0 .. y \subseteq Nat /\ 0 .. x \subseteq Nat
    BY <2>4
  <2>. QED
    BY <2>2, <2>5, <2>6 DEF StrictSubsetOrdering
<1>. QED
  BY <1>5 DEF Min

\* ... and one with an upper bound a greatest.
LEMMA MaxExists ==
  ASSUME NEW S, S \subseteq Nat, S # {}, NEW n \in Nat, \A x \in S : x <= n
  PROVE  Max(S) \in S /\ \A y \in S : y <= Max(S)
<1>. DEFINE T == {n - x : x \in S}
<1>1. \A x \in S : n - x \in Nat /\ n - x \in T
  OBVIOUS
<1>2. T \subseteq Nat /\ T # {}
  <2>1. PICK x \in S : TRUE
    OBVIOUS
  <2>. QED
    BY <1>1, <2>1
<1>3. PICK m \in T : \A y \in T : m <= y
  <2>. HIDE DEF T
  <2>. QED
    BY <1>2, MinExists
<1>4. PICK x \in S : m = n - x
  BY <1>3
<1>5. ASSUME NEW y \in S PROVE x >= y
  <2>1. n - x <= n - y
    BY <1>1, <1>3, <1>4
  <2>. HIDE DEF T
  <2>2. x \in Nat /\ y \in Nat
    OBVIOUS
  <2>. QED
    BY <2>1, <2>2
<1>6. Max(S) \in S /\ \A y \in S : Max(S) >= y
  BY <1>5 DEF Max
<1>. QED
  BY <1>6

-------------------------------------------------------------------------------
\* Names, positions and requests

\* The name of a new file is in no set that mentions files.
LEMMA NewFileIsNew ==
  ASSUME NewFile # {}
  PROVE  /\ Min(NewFile) \in File
         /\ Min(NewFile) \notin files /\ Min(NewFile) \notin DOMAIN image
         /\ \A s \in requests : Min(NewFile) \notin {s.file, s.other}
<1>1. NewFile \subseteq Nat
  BY DEF NewFile, File
<1>2. Min(NewFile) \in NewFile
  BY <1>1, MinExists
<1>. DEFINE m == Min(NewFile)
<1>. HIDE DEF m
<1>3. m \in NewFile
  BY <1>2 DEF m
<1>4. m \in File /\ m \notin files /\ m \notin DOMAIN image
  BY <1>3 DEF NewFile
<1>5. ASSUME NEW s \in requests PROVE m \notin {s.file, s.other}
  <2>1. {s.file, s.other} \subseteq UNION {{r.file, r.other} : r \in requests}
    BY Zenon
  <2>. QED
    BY <1>3, <2>1 DEF NewFile
<1>. QED
  BY <1>4, <1>5 DEF m

\* Nor has a new item a row or a request.
LEMMA NewItemIsNew ==
  ASSUME NewItem # {}
  PROVE  /\ Min(NewItem) \in ItemId /\ Min(NewItem) \notin items
         /\ \A s \in requests : Min(NewItem) # s.item
<1>1. NewItem \subseteq Nat
  BY DEF NewItem, ItemId
<1>2. Min(NewItem) \in NewItem
  BY <1>1, MinExists
<1>. QED
  BY <1>2 DEF NewItem

\* The position of a new image is behind all positions of its item.
LEMMA NextPositionIsFree ==
  ASSUME ImagesTypeOK, \A f \in DOMAIN image : RowInv(f), NEW i
  PROVE  nextPosition(i) \in Nat /\ nextPosition(i) \notin PositionsOf(i)
<1>1. ASSUME ImagesOf(i) = {} PROVE nextPosition(i) = 1 /\ PositionsOf(i) = {}
  BY <1>1 DEF nextPosition, PositionsOf
<1>2. ASSUME ImagesOf(i) # {}
      PROVE  nextPosition(i) \in Nat /\ nextPosition(i) \notin PositionsOf(i)
  <2>. DEFINE P == PositionsOf(i)
  <2>1. \A f \in ImagesOf(i) : image[f].position \in Nat /\ image[f].position <= MaxPosition
    BY DEF ImagesOf, ImagesTypeOK, Row, RowInv
  <2>2. PICK f \in ImagesOf(i) : TRUE
    BY <1>2
  <2>3. P \subseteq Nat /\ P # {} /\ \A x \in P : x <= MaxPosition
    BY <2>1, <2>2 DEF PositionsOf
  <2>4. MaxPosition \in Nat
    BY DEF ImagesAssumption
  <2>. HIDE DEF P
  <2>5. Max(P) \in P /\ \A y \in P : y <= Max(P)
    BY <2>3, <2>4, MaxExists
  <2>6. Max(P) + 1 \in Nat /\ Max(P) + 1 \notin P
    <3>1. \A m \in P : (\A y \in P : y <= m) => m + 1 \in Nat /\ m + 1 \notin P
      BY <2>3
    <3>. QED
      BY <2>5, <3>1, Zenon
  <2>7. nextPosition(i) = Max(P) + 1
    BY <1>2 DEF nextPosition, P
  <2>. QED
    BY <2>6, <2>7 DEF P
<1>. QED
  BY <1>1, <1>2
-------------------------------------------------------------------------------
\* Requests that come, go on and go

\* A request that is added to some of those under way keeps the invariant, if
\* it fits to the rows and to the others.
LEMMA RequestAdded ==
  ASSUME ImagesInv, NEW R, R \subseteq requests, NEW n \in ImageRequest,
         requests' = R \cup {n},
         items' \subseteq ItemId, DOMAIN image' \subseteq File,
         \A f \in DOMAIN image' : image'[f] \in Row,
         files' \subseteq File, submitting' \subseteq {"photos", "item"},
         overlapped' \in BOOLEAN, ~overlapped' => ~overlapped,
         \A f \in DOMAIN image' : RowInv(f)',
         \A s \in R : RequestInv(s)', RequestInv(n)',
         \A s \in R : PairInv(s, n) /\ PairInv(n, s),
         ~overlapped' =>
           /\ \A f, g \in DOMAIN image' : image'[f] = image'[g] => f = g
           /\ \A s \in R : MovesPositions(s) /\ MovesPositions(n) => s.item # n.item
           /\ \A s \in R : ReadInv(s)'
           /\ ReadInv(n)'
  PROVE  ImagesInv'
<1>1. ImagesTypeOK'
  BY DEF ImagesTypeOK, ImagesInv
<1>2. \A s \in requests' : RequestInv(s)'
  OBVIOUS
<1>3. \A r, s \in requests' : PairInv(r, s)
  <2>1. \A r, s \in R : PairInv(r, s)
    BY DEF ImagesInv
  <2>2. PairInv(n, n)
    BY DEF PairInv
  <2>. QED
    BY <2>1, <2>2
<1>4. ASSUME ~overlapped' PROVE InOrder'
  <2>1. InOrder
    BY <1>4 DEF ImagesInv
  <2>2. \A r, s \in requests' :
          MovesPositions(r) /\ MovesPositions(s) /\ r.item = s.item => r = s
    BY <1>4, <2>1 DEF InOrder
  <2>. QED
    BY <1>4, <2>2 DEF InOrder
<1>. QED
  BY <1>1, <1>2, <1>3, <1>4 DEF ImagesInv

\* A request that ends, likewise.
LEMMA RequestGone ==
  ASSUME ImagesInv, requests' \subseteq requests,
         UNCHANGED <<items, image, files, overlapped>>,
         submitting' \subseteq submitting
  PROVE  ImagesInv'
<1>1. ImagesTypeOK'
  BY DEF ImagesTypeOK, ImagesInv
<1>2. \A s \in requests' : RequestInv(s)'
  BY DEF ImagesInv, RequestInv
<1>3. \A f \in DOMAIN image' : RowInv(f)'
  BY DEF ImagesInv, RowInv
<1>4. InOrder => InOrder'
  BY DEF InOrder, ReadInv, PositionsOf, ImagesOf
<1>. QED
  BY <1>1, <1>2, <1>3, <1>4 DEF ImagesInv

\* What a record carries.
LEMMA RequestFields ==
  ASSUME ImagesInv, NEW s \in requests
  PROVE  /\ s \in ImageRequest
         /\ s.item \in ItemId /\ s.at \in Nat /\ s.otherAt \in Nat
         /\ s.file \in File \cup {0} /\ s.other \in File \cup {0}
         /\ RequestInv(s)
         /\ s.step \in {"read", "insert"} => s.file \in File /\ s.file # 0
BY DEF ImagesInv, ImagesTypeOK, ImageRequest, RequestInv, File

\* A request that goes on with what it had stays apart from the others.
LEMMA PairPasses ==
  ASSUME ImagesInv, NEW r \in requests, NEW s \in requests, s # r,
         NEW n, n.item = r.item, {n.file, n.other} \subseteq {r.file, r.other, 0},
         n.step \in {"read", "insert"} =>
           r.step \in {"read", "insert"} /\ n.file = r.file,
         n.step # "item"
  PROVE  PairInv(s, n) /\ PairInv(n, s)
<1>1. PairInv(r, s) /\ PairInv(s, r)
  BY DEF ImagesInv
<1>2. s.step \in {"read", "insert"} => s.file # 0
  BY RequestFields
<1>. QED
  BY <1>1, <1>2 DEF PairInv

\* All that is left of an operation disturbs nobody.
LEMMA LoadingDisturbsNobody ==
  ASSUME ImagesInv, NEW r \in requests
  PROVE  /\ Loading(r) \in ImageRequest /\ Loading(r).item = r.item
         /\ \A s \in requests \ {r} : PairInv(s, Loading(r)) /\ PairInv(Loading(r), s)
         /\ RequestInv(Loading(r))' /\ ReadInv(Loading(r))'
         /\ ~MovesPositions(Loading(r))
<1>. DEFINE n == Loading(r)
<1>1. /\ n.item = r.item /\ n.file = 0 /\ n.other = 0 /\ n.step = "list"
      /\ n.at = 0 /\ n.otherAt = 0
  BY DEF Loading, NewRequest
<1>2. n \in ImageRequest
  BY DEF Loading, NewRequest, ImagesInv, ImagesTypeOK, ImageRequest
<1>. HIDE DEF n
<1>3. \A s \in requests \ {r} : PairInv(s, n) /\ PairInv(n, s)
  BY <1>1, PairPasses
<1>4. RequestInv(n)' /\ ReadInv(n)' /\ ~MovesPositions(n)
  BY <1>1 DEF RequestInv, ReadInv, MovesPositions, ImagesAssumption
<1>. QED
  BY <1>1, <1>2, <1>3, <1>4 DEF n

\* What the others have read and wait for does not depend on what stays.
LEMMA OthersStay ==
  ASSUME ImagesInv, UNCHANGED <<items, image, files>>
  PROVE  /\ \A f \in DOMAIN image' : RowInv(f)'
         /\ \A s \in requests : RequestInv(s)'
         /\ InOrder =>
              /\ \A f, g \in DOMAIN image' : image'[f] = image'[g] => f = g
              /\ \A s \in requests : ReadInv(s)'
<1>1. \A f \in DOMAIN image' : RowInv(f)'
  BY DEF ImagesInv, RowInv
<1>2. \A s \in requests : RequestInv(s)'
  BY DEF ImagesInv, RequestInv
<1>3. InOrder => \A s \in requests : ReadInv(s)'
  BY DEF InOrder, ReadInv, PositionsOf, ImagesOf
<1>. QED
  BY <1>1, <1>2, <1>3 DEF InOrder
-------------------------------------------------------------------------------
\* Uploads

LEMMA AddImageKeeps ==
  ASSUME ImagesInv, NEW i \in ItemId, AddImage(i)
  PROVE  ImagesInv'
<1>m. PICK m : m = Min(NewFile)
  OBVIOUS
<1>n. PICK n : n = NewRequest("read", i, m, 0, "photos", FALSE)
  OBVIOUS
<1>1. /\ m \in File /\ m \notin files /\ m \notin DOMAIN image
      /\ \A s \in requests : m \notin {s.file, s.other}
  BY <1>m, NewFileIsNew, Zenon DEF AddImage
<1>2. /\ requests' = requests \cup {n} /\ files' = files \cup {m} /\ i \in items
      /\ submitting' = submitting \cup {"photos"}
      /\ overlapped' = (overlapped \/ Positioning(i))
      /\ UNCHANGED <<items, image>>
  BY <1>m, <1>n DEF AddImage, Start, Overlap, Database
<1>3. /\ n.item = i /\ n.file = m /\ n.other = 0 /\ n.step = "read"
      /\ n.at = 0 /\ n.otherAt = 0
  BY <1>n DEF NewRequest
<1>5. n \in ImageRequest
  BY <1>1, <1>n DEF NewRequest, ImageRequest
<1>6. /\ files' \subseteq File /\ items' \subseteq ItemId /\ DOMAIN image' \subseteq File
      /\ \A f \in DOMAIN image' : image'[f] \in Row
      /\ submitting' \subseteq {"photos", "item"} /\ overlapped' \in BOOLEAN
  BY <1>1, <1>2 DEF ImagesInv, ImagesTypeOK
<1>7. \A f \in DOMAIN image' : RowInv(f)'
  BY <1>2 DEF ImagesInv, RowInv
<1>8. \A s \in requests : RequestInv(s)'
  BY <1>2 DEF ImagesInv, RequestInv
<1>9. RequestInv(n)'
  BY <1>1, <1>2, <1>3 DEF RequestInv, ImagesAssumption
<1>10. \A s \in requests : PairInv(s, n) /\ PairInv(n, s)
  <2>. TAKE s \in requests
  <2>1. s.step = "item" => s.item \notin items
    BY DEF ImagesInv, RequestInv
  <2>. QED
    BY <1>1, <1>2, <1>3, <2>1, RequestFields DEF PairInv
<1>11. ASSUME ~overlapped'
       PROVE  /\ ~overlapped
              /\ \A f, g \in DOMAIN image' : image'[f] = image'[g] => f = g
              /\ \A s \in requests : MovesPositions(s) /\ MovesPositions(n) => s.item # n.item
              /\ \A s \in requests : ReadInv(s)'
              /\ ReadInv(n)'
  <2>1. ~overlapped /\ ~Positioning(i) /\ InOrder
    BY <1>11, <1>2 DEF ImagesInv
  <2>2. \A s \in requests : MovesPositions(s) => s.item # n.item
    BY <2>1, <1>3 DEF Positioning, MovesPositions
  <2>3. \A s \in requests : ReadInv(s)'
    BY <1>2, <2>1 DEF InOrder, ReadInv, PositionsOf, ImagesOf
  <2>4. ReadInv(n)'
    BY <1>3 DEF ReadInv
  <2>. QED
    BY <1>2, <2>1, <2>2, <2>3, <2>4 DEF InOrder
<1>. QED
  BY <1>2, <1>5, <1>6, <1>7, <1>8, <1>9, <1>10, <1>11, RequestAdded

LEMMA ReadLastKeeps ==
  ASSUME ImagesInv, NEW r \in requests, ReadLast(r)
  PROVE  ImagesInv'
<1>p. PICK p : p = nextPosition(r.item)
  OBVIOUS
<1>n. PICK n : n = [r EXCEPT !.step = "insert", !.at = p]
  OBVIOUS
<1>R. PICK R : R = requests \ {r}
  OBVIOUS
<1>1. p \in Nat /\ p \notin PositionsOf(r.item)
  BY <1>p, NextPositionIsFree DEF ImagesInv
<1>2. /\ requests' = R \cup {n} /\ r.step = "read" /\ p <= MaxPosition
      /\ UNCHANGED <<items, image, files, submitting, overlapped>>
  BY <1>p, <1>n, <1>R DEF ReadLast, Advance, Database
<1>3. r \in ImageRequest /\ RequestInv(r)
  BY RequestFields
<1>4. /\ n.item = r.item /\ n.file = r.file /\ n.other = r.other /\ n.step = "insert"
      /\ n.at = p /\ n.otherAt = r.otherAt
  BY <1>n, <1>3 DEF ImageRequest
<1>5. n \in ImageRequest
  BY <1>n, <1>1, <1>3 DEF ImageRequest
<1>6. RequestInv(n)'
  BY <1>2, <1>3, <1>4 DEF RequestInv
<1>7. \A s \in R : PairInv(s, n) /\ PairInv(n, s)
  BY <1>R, <1>2, <1>4, PairPasses
<1>8. ASSUME InOrder
      PROVE  /\ \A s \in R : MovesPositions(s) /\ MovesPositions(n) => s.item # n.item
             /\ ReadInv(n)'
  <2>1. \A s \in R : MovesPositions(s) => s.item # n.item
    BY <1>R, <1>2, <1>4, <1>8 DEF InOrder, MovesPositions
  <2>2. p \notin PositionsOf(n.item)'
    BY <1>1, <1>2, <1>4 DEF PositionsOf, ImagesOf
  <2>. QED
    BY <1>4, <2>1, <2>2 DEF ReadInv
<1>9. R \subseteq requests
  BY <1>R
<1>10. /\ files' \subseteq File /\ items' \subseteq ItemId /\ DOMAIN image' \subseteq File
       /\ \A f \in DOMAIN image' : image'[f] \in Row
       /\ submitting' \subseteq {"photos", "item"} /\ overlapped' \in BOOLEAN
       /\ ~overlapped' => InOrder
  BY <1>2 DEF ImagesInv, ImagesTypeOK
<1>. QED
  BY <1>2, <1>5, <1>6, <1>7, <1>8, <1>9, <1>10, RequestAdded, OthersStay

LEMMA InsertImageKeeps ==
  ASSUME ImagesInv, NEW r \in requests, InsertImage(r)
  PROVE  ImagesInv'
<1>n. PICK n : n = Loading(r)
  OBVIOUS
<1>R. PICK R : R = requests \ {r}
  OBVIOUS
<1>x. PICK x : x = [item |-> r.item, position |-> r.at]
  OBVIOUS
<1>1. /\ requests' = R \cup {n} /\ r.step = "insert" /\ r.item \in items
      /\ image' = [f \in DOMAIN image \cup {r.file} |-> IF f = r.file THEN x ELSE image[f]]
      /\ UNCHANGED <<items, files, submitting, overlapped>>
  BY <1>n, <1>R, <1>x DEF InsertImage, Advance
<1>2. /\ r.item \in ItemId /\ r.at \in Nat /\ r.at <= MaxPosition /\ r.file \in File
      /\ r.file \in files /\ r.file \notin DOMAIN image
  BY <1>1, RequestFields DEF RequestInv
<1>3. x \in Row /\ x.item = r.item /\ x.position = r.at
  BY <1>x, <1>2 DEF Row
<1>4. /\ DOMAIN image' = DOMAIN image \cup {r.file} /\ image'[r.file] = x
      /\ \A f \in DOMAIN image : f # r.file /\ image'[f] = image[f]
  BY <1>1, <1>2
<1>5. /\ n \in ImageRequest /\ n.item = r.item
      /\ \A s \in R : PairInv(s, n) /\ PairInv(n, s)
      /\ RequestInv(n)' /\ ReadInv(n)' /\ ~MovesPositions(n)
  BY <1>n, <1>R, LoadingDisturbsNobody
<1>6. /\ files' \subseteq File /\ items' \subseteq ItemId /\ DOMAIN image' \subseteq File
      /\ \A f \in DOMAIN image' : image'[f] \in Row
      /\ submitting' \subseteq {"photos", "item"} /\ overlapped' \in BOOLEAN
  BY <1>1, <1>2, <1>3, <1>4 DEF ImagesInv, ImagesTypeOK
<1>7. \A f \in DOMAIN image' : RowInv(f)'
  <2>1. \A f \in DOMAIN image : RowInv(f)'
    BY <1>1, <1>4 DEF ImagesInv, RowInv
  <2>2. RowInv(r.file)'
    BY <1>1, <1>2, <1>3, <1>4 DEF RowInv
  <2>. QED
    BY <1>4, <2>1, <2>2
<1>9. \A s \in R : r.file \notin {s.file, s.other}
  BY <1>R, <1>1 DEF ImagesInv, PairInv
<1>10. \A s \in R : RequestInv(s)'
  <2>. TAKE s \in R
  <2>1. RequestInv(s) /\ r.file # s.file /\ r.file # s.other
    BY <1>R, <1>9 DEF ImagesInv
  <2>2. \A f \in {s.file, s.other} : /\ f \in DOMAIN image' <=> f \in DOMAIN image
                                     /\ f \in DOMAIN image => image'[f] = image[f]
    BY <1>4, <2>1
  <2>. QED
    BY <1>1, <2>1, <2>2 DEF RequestInv
<1>11. ASSUME InOrder
       PROVE  /\ \A f, g \in DOMAIN image' : image'[f] = image'[g] => f = g
              /\ \A s \in R : ReadInv(s)'
  <2>1. r.at \notin PositionsOf(r.item)
    BY <1>1, <1>11 DEF InOrder, ReadInv
  <2>2. \A f \in DOMAIN image : image[f] # x
    BY <1>3, <2>1 DEF PositionsOf, ImagesOf
  <2>3. \A f, g \in DOMAIN image' : image'[f] = image'[g] => f = g
    BY <1>4, <1>11, <2>2 DEF InOrder
  <2>4. ASSUME NEW s \in R PROVE ReadInv(s)'
    <3>1. ReadInv(s) /\ r.file # s.file /\ r.file # s.other
      BY <1>R, <1>9, <1>11 DEF InOrder
    <3>2. s.step = "insert" => PositionsOf(s.item)' = PositionsOf(s.item)
      <4>1. SUFFICES ASSUME s.step = "insert" PROVE PositionsOf(s.item)' = PositionsOf(s.item)
        OBVIOUS
      <4>2. s.item # r.item
        BY <1>R, <1>1, <1>11, <4>1 DEF InOrder, MovesPositions
      <4>3. ImagesOf(s.item)' = ImagesOf(s.item)
        BY <1>3, <1>4, <4>2 DEF ImagesOf
      <4>. QED
        BY <1>4, <4>3 DEF PositionsOf, ImagesOf
    <3>. QED
      BY <1>4, <3>1, <3>2 DEF ReadInv
  <2>. QED
    BY <2>3, <2>4
<1>12. R \subseteq requests /\ (~overlapped' => ~overlapped /\ InOrder)
  BY <1>R, <1>1 DEF ImagesInv
<1>. QED
  BY <1>1, <1>5, <1>6, <1>7, <1>10, <1>11, <1>12, RequestAdded
-------------------------------------------------------------------------------
\* Deletion and swap

\* A request that has read something, or failed, with the rows as they were.
LEMMA RequestGoesOn ==
  ASSUME ImagesInv, NEW r \in requests, NEW n \in ImageRequest,
         requests' = (requests \ {r}) \cup {n},
         UNCHANGED <<items, image, files, submitting, overlapped>>,
         n.item = r.item, {n.file, n.other} \subseteq {r.file, r.other, 0},
         n.step \in {"first", "second", "write", "list"},
         MovesPositions(n) => MovesPositions(r),
         RequestInv(n)', InOrder => ReadInv(n)'
  PROVE  ImagesInv'
<1>R. PICK R : R = requests \ {r}
  OBVIOUS
<1>1. \A s \in R : PairInv(s, n) /\ PairInv(n, s)
  BY <1>R, PairPasses
<1>2. ASSUME InOrder
      PROVE  \A s \in R : MovesPositions(s) /\ MovesPositions(n) => s.item # n.item
  BY <1>R, <1>2 DEF InOrder
<1>3. /\ files' \subseteq File /\ items' \subseteq ItemId /\ DOMAIN image' \subseteq File
      /\ \A f \in DOMAIN image' : image'[f] \in Row
      /\ submitting' \subseteq {"photos", "item"} /\ overlapped' \in BOOLEAN
      /\ ~overlapped' => ~overlapped /\ InOrder
  BY DEF ImagesInv, ImagesTypeOK
<1>4. R \subseteq requests /\ requests' = R \cup {n}
  BY <1>R
<1>. QED
  BY <1>1, <1>2, <1>3, <1>4, RequestAdded, OthersStay

\* A request that is begun with the rows as they are.
LEMMA RequestStarts ==
  ASSUME ImagesInv, NEW n \in ImageRequest, requests' = requests \cup {n},
         UNCHANGED <<items, image, files>>, submitting' \subseteq {"photos", "item"},
         overlapped' \in BOOLEAN, ~overlapped' => ~overlapped,
         \A s \in requests : PairInv(s, n) /\ PairInv(n, s),
         n.step \in {"remove", "first", "item", "drop"},
         RequestInv(n)',
         ~overlapped' =>
           \A s \in requests : MovesPositions(s) /\ MovesPositions(n) => s.item # n.item
  PROVE  ImagesInv'
<1>1. /\ files' \subseteq File /\ items' \subseteq ItemId /\ DOMAIN image' \subseteq File
      /\ \A f \in DOMAIN image' : image'[f] \in Row
      /\ ~overlapped' => InOrder
  BY DEF ImagesInv, ImagesTypeOK
<1>2. ReadInv(n)'
  BY DEF ReadInv
<1>. QED
  BY <1>1, <1>2, RequestAdded, OthersStay

\* The file of an upload and an item being made are of no row that is there.
LEMMA RowIsApart ==
  ASSUME ImagesInv, NEW n, n.step \notin {"item", "read", "insert"},
         n.item \in items, {n.file, n.other} \subseteq DOMAIN image \cup {0}
  PROVE  \A s \in requests : PairInv(s, n) /\ PairInv(n, s)
<1>. TAKE s \in requests
<1>1. RequestInv(s) /\ (s.step \in {"read", "insert"} => s.file # 0)
  BY RequestFields
<1>. QED
  BY <1>1 DEF PairInv, RequestInv

LEMMA DeleteImageKeeps ==
  ASSUME ImagesInv, NEW f \in File, DeleteImage(f)
  PROVE  ImagesInv'
<1>n. PICK n : n = NewRequest("remove", image[f].item, f, 0, "photos", FALSE)
  OBVIOUS
<1>1. /\ requests' = requests \cup {n} /\ f \in DOMAIN image
      /\ submitting' = submitting \cup {"photos"}
      /\ UNCHANGED <<items, image, files, overlapped>>
  BY <1>n DEF DeleteImage, Start, Database
<1>2. image[f].item \in ItemId /\ image[f].item \in items
  BY <1>1 DEF ImagesInv, ImagesTypeOK, Row, RowInv
<1>3. /\ n.item = image[f].item /\ n.file = f /\ n.other = 0 /\ n.step = "remove"
      /\ n.at = 0 /\ n.otherAt = 0
  BY <1>n DEF NewRequest
<1>4. n \in ImageRequest
  BY <1>n, <1>2 DEF NewRequest, ImageRequest
<1>5. RequestInv(n)' /\ ~MovesPositions(n)
  BY <1>3 DEF RequestInv, MovesPositions, ImagesAssumption
<1>6. \A s \in requests : PairInv(s, n) /\ PairInv(n, s)
  BY <1>1, <1>2, <1>3, RowIsApart
<1>7. submitting' \subseteq {"photos", "item"} /\ overlapped' \in BOOLEAN
  BY <1>1 DEF ImagesInv, ImagesTypeOK
<1>. QED
  BY <1>1, <1>3, <1>4, <1>5, <1>6, <1>7, RequestStarts

LEMMA SwapImagesKeeps ==
  ASSUME ImagesInv, NEW f \in File, NEW g \in File, SwapImages(f, g)
  PROVE  ImagesInv'
<1>n. PICK n : n = NewRequest("first", image[f].item, f, g, "photos", FALSE)
  OBVIOUS
<1>1. /\ requests' = requests \cup {n} /\ f \in DOMAIN image /\ g \in DOMAIN image
      /\ f # g /\ image[f].item = image[g].item
      /\ submitting' = submitting \cup {"photos"}
      /\ overlapped' = (overlapped \/ Positioning(image[f].item))
      /\ UNCHANGED <<items, image, files>>
  BY <1>n DEF SwapImages, Start, Overlap, Database
<1>2. image[f].item \in ItemId /\ image[f].item \in items
  BY <1>1 DEF ImagesInv, ImagesTypeOK, Row, RowInv
<1>3. /\ n.item = image[f].item /\ n.file = f /\ n.other = g /\ n.step = "first"
      /\ n.at = 0 /\ n.otherAt = 0
  BY <1>n DEF NewRequest
<1>4. n \in ImageRequest
  BY <1>n, <1>2 DEF NewRequest, ImageRequest
<1>5. RequestInv(n)'
  BY <1>1, <1>3 DEF RequestInv, ImagesAssumption
<1>6. \A s \in requests : PairInv(s, n) /\ PairInv(n, s)
  BY <1>1, <1>2, <1>3, RowIsApart
<1>7. submitting' \subseteq {"photos", "item"} /\ overlapped' \in BOOLEAN
  BY <1>1 DEF ImagesInv, ImagesTypeOK
<1>8. ASSUME ~overlapped'
      PROVE  /\ ~overlapped
             /\ \A s \in requests : MovesPositions(s) /\ MovesPositions(n) => s.item # n.item
  BY <1>1, <1>3, <1>8 DEF Positioning, MovesPositions
<1>. QED
  BY <1>1, <1>3, <1>4, <1>5, <1>6, <1>7, <1>8, RequestStarts

LEMMA ReadFirstKeeps ==
  ASSUME ImagesInv, NEW r \in requests, ReadFirst(r)
  PROVE  ImagesInv'
<1>p. PICK p : p = image[r.file].position
  OBVIOUS
<1>n. PICK n : n = [r EXCEPT !.step = "second", !.at = p]
  OBVIOUS
<1>1. /\ requests' = (requests \ {r}) \cup {n} /\ r.step = "first"
      /\ r.file \in DOMAIN image
      /\ UNCHANGED <<items, image, files, submitting, overlapped>>
  BY <1>p, <1>n DEF ReadFirst, Advance, Database
<1>2. r \in ImageRequest /\ RequestInv(r)
  BY RequestFields
<1>3. p \in Nat /\ p <= MaxPosition
  BY <1>p, <1>1 DEF ImagesInv, ImagesTypeOK, Row, RowInv
<1>4. /\ n.item = r.item /\ n.file = r.file /\ n.other = r.other /\ n.step = "second"
      /\ n.at = p /\ n.otherAt = r.otherAt
  BY <1>n, <1>2 DEF ImageRequest
<1>5. n \in ImageRequest
  BY <1>n, <1>2, <1>3 DEF ImageRequest
<1>6. RequestInv(n)'
  BY <1>1, <1>2, <1>3, <1>4 DEF RequestInv
<1>7. ReadInv(n)' /\ (MovesPositions(n) => MovesPositions(r))
  BY <1>p, <1>1, <1>4 DEF ReadInv, MovesPositions
<1>. QED
  BY <1>1, <1>4, <1>5, <1>6, <1>7, RequestGoesOn

LEMMA ReadSecondKeeps ==
  ASSUME ImagesInv, NEW r \in requests, ReadSecond(r)
  PROVE  ImagesInv'
<1>p. PICK p : p = image[r.other].position
  OBVIOUS
<1>n. PICK n : n = [r EXCEPT !.step = "write", !.otherAt = p]
  OBVIOUS
<1>1. /\ requests' = (requests \ {r}) \cup {n} /\ r.step = "second"
      /\ r.other \in DOMAIN image
      /\ UNCHANGED <<items, image, files, submitting, overlapped>>
  BY <1>p, <1>n DEF ReadSecond, Advance, Database
<1>2. r \in ImageRequest /\ RequestInv(r)
  BY RequestFields
<1>3. p \in Nat /\ p <= MaxPosition
  BY <1>p, <1>1 DEF ImagesInv, ImagesTypeOK, Row, RowInv
<1>4. /\ n.item = r.item /\ n.file = r.file /\ n.other = r.other /\ n.step = "write"
      /\ n.at = r.at /\ n.otherAt = p
  BY <1>n, <1>2 DEF ImageRequest
<1>5. n \in ImageRequest
  BY <1>n, <1>2, <1>3 DEF ImageRequest
<1>6. RequestInv(n)'
  BY <1>1, <1>2, <1>3, <1>4 DEF RequestInv
<1>7. MovesPositions(n) => MovesPositions(r)
  BY <1>1 DEF MovesPositions
<1>8. InOrder => ReadInv(n)'
  BY <1>p, <1>1, <1>4 DEF InOrder, ReadInv
<1>. QED
  BY <1>1, <1>4, <1>5, <1>6, <1>7, <1>8, RequestGoesOn

LEMMA WriteSwapKeeps ==
  ASSUME ImagesInv, NEW r \in requests, WriteSwap(r)
  PROVE  ImagesInv'
<1>n. PICK n : n = Loading(r)
  OBVIOUS
<1>R. PICK R : R = requests \ {r}
  OBVIOUS
<1>1. /\ requests' = R \cup {n} /\ r.step = "write"
      /\ r.file \in DOMAIN image /\ r.other \in DOMAIN image
      /\ image' = [image EXCEPT ![r.file].position = r.otherAt, ![r.other].position = r.at]
      /\ UNCHANGED <<items, files, submitting, overlapped>>
  BY <1>n, <1>R DEF WriteSwap, Advance
<1>2. /\ r.at \in Nat /\ r.at <= MaxPosition /\ r.otherAt \in Nat /\ r.otherAt <= MaxPosition
      /\ r.file # r.other /\ image[r.file].item = r.item /\ image[r.other].item = r.item
  BY <1>1, RequestFields DEF RequestInv
<1>3. \A f \in DOMAIN image : image[f] \in Row
  BY DEF ImagesInv, ImagesTypeOK
<1>4. /\ DOMAIN image' = DOMAIN image
      /\ image'[r.file] = [image[r.file] EXCEPT !.position = r.otherAt]
      /\ image'[r.other] = [image[r.other] EXCEPT !.position = r.at]
      /\ \A f \in DOMAIN image \ {r.file, r.other} : image'[f] = image[f]
  BY <1>1, <1>2
<1>5. /\ \A f \in DOMAIN image : image'[f] \in Row /\ image'[f].item = image[f].item
      /\ image'[r.file].position = r.otherAt /\ image'[r.other].position = r.at
  BY <1>1, <1>2, <1>3, <1>4 DEF Row
<1>6. /\ n \in ImageRequest /\ n.item = r.item
      /\ \A s \in R : PairInv(s, n) /\ PairInv(n, s)
      /\ RequestInv(n)' /\ ReadInv(n)' /\ ~MovesPositions(n)
  BY <1>n, <1>R, LoadingDisturbsNobody
<1>7. /\ files' \subseteq File /\ items' \subseteq ItemId /\ DOMAIN image' \subseteq File
      /\ \A f \in DOMAIN image' : image'[f] \in Row
      /\ submitting' \subseteq {"photos", "item"} /\ overlapped' \in BOOLEAN
  BY <1>1, <1>4, <1>5 DEF ImagesInv, ImagesTypeOK
<1>8. \A f \in DOMAIN image' : RowInv(f)'
  BY <1>1, <1>2, <1>4, <1>5 DEF ImagesInv, RowInv
<1>9. \A s \in R : RequestInv(s)'
  BY <1>R, <1>1, <1>4, <1>5 DEF ImagesInv, RequestInv
<1>10. ASSUME InOrder
       PROVE  /\ \A f, g \in DOMAIN image' : image'[f] = image'[g] => f = g
              /\ \A s \in R : ReadInv(s)'
  <2>1. image[r.file].position = r.at /\ image[r.other].position = r.otherAt
    BY <1>1, <1>10 DEF InOrder, ReadInv
  <2>2. image'[r.file] = image[r.other] /\ image'[r.other] = image[r.file]
    BY <1>1, <1>2, <1>3, <1>4, <2>1 DEF Row
  <2>3. \A f, g \in DOMAIN image' : image'[f] = image'[g] => f = g
    BY <1>1, <1>2, <1>4, <2>2, <1>10 DEF InOrder
  <2>4. ASSUME NEW s \in R PROVE ReadInv(s)'
    <3>1. ReadInv(s) /\ RequestInv(s)
      BY <1>R, <1>10 DEF InOrder, ImagesInv
    <3>2. CASE ~MovesPositions(s)
      BY <3>2 DEF MovesPositions, ReadInv
    <3>3. CASE MovesPositions(s)
      <4>1. s.item # r.item
        BY <1>R, <1>1, <1>10, <3>3 DEF InOrder, MovesPositions
      <4>2. PositionsOf(s.item)' = PositionsOf(s.item)
        <5>1. ImagesOf(s.item)' = ImagesOf(s.item) /\ r.file \notin ImagesOf(s.item)
              /\ r.other \notin ImagesOf(s.item) /\ ImagesOf(s.item) \subseteq DOMAIN image
          BY <1>2, <1>4, <1>5, <4>1 DEF ImagesOf
        <5>. QED
          BY <1>4, <5>1 DEF PositionsOf
      <4>3. s.step \in {"second", "write"} =>
              \A f \in {s.file, s.other} \cap DOMAIN image : image'[f] = image[f]
        BY <1>2, <1>4, <3>1, <4>1 DEF RequestInv
      <4>. QED
        BY <1>4, <3>1, <4>2, <4>3 DEF ReadInv
    <3>. QED
      BY <3>2, <3>3
  <2>. QED
    BY <2>3, <2>4
<1>11. R \subseteq requests /\ (~overlapped' => ~overlapped /\ InOrder)
  BY <1>R, <1>1 DEF ImagesInv
<1>. QED
  BY <1>1, <1>6, <1>7, <1>8, <1>9, <1>10, <1>11, RequestAdded
-------------------------------------------------------------------------------
\* Rows that go

\* Rows may go, with what is left of their operation on the way, as long as the
\* files of the others stay.
LEMMA RowsGo ==
  ASSUME ImagesInv, NEW r \in requests, NEW n \in ImageRequest, NEW D,
         requests' = (requests \ {r}) \cup {n}, D \subseteq DOMAIN image,
         image' = Restrict(image, D), items' \subseteq items, files' \subseteq files,
         UNCHANGED <<submitting, overlapped>>,
         \A f \in D : image[f].item \in items' /\ f \in files',
         \A s \in requests \ {r} : s.step \in {"read", "insert"} => s.file \in files',
         n.item = r.item, {n.file, n.other} \subseteq {r.file, r.other, 0},
         n.step \in {"unlink", "list"}, RequestInv(n)'
  PROVE  ImagesInv'
<1>R. PICK R : R = requests \ {r}
  OBVIOUS
<1>1. /\ DOMAIN image' = D
      /\ \A f \in D : f \in DOMAIN image /\ image'[f] = image[f]
  BY DEF Restrict
<1>2. /\ files' \subseteq File /\ items' \subseteq ItemId /\ DOMAIN image' \subseteq File
      /\ \A f \in DOMAIN image' : image'[f] \in Row
      /\ submitting' \subseteq {"photos", "item"} /\ overlapped' \in BOOLEAN
  BY <1>1 DEF ImagesInv, ImagesTypeOK
<1>3. \A f \in DOMAIN image' : RowInv(f)'
  BY <1>1 DEF ImagesInv, RowInv
<1>4. \A s \in R : RequestInv(s)'
  BY <1>R, <1>1 DEF ImagesInv, RequestInv
<1>5. \A s \in R : PairInv(s, n) /\ PairInv(n, s)
  BY <1>R, PairPasses
<1>6. ReadInv(n)' /\ ~MovesPositions(n)
  BY DEF ReadInv, MovesPositions
<1>7. ASSUME InOrder
      PROVE  /\ \A f, g \in DOMAIN image' : image'[f] = image'[g] => f = g
             /\ \A s \in R : ReadInv(s)'
  <2>1. \A i : PositionsOf(i)' \subseteq PositionsOf(i)
    BY <1>1 DEF PositionsOf, ImagesOf
  <2>2. \A s \in R : ReadInv(s)
    BY <1>R, <1>7 DEF InOrder
  <2>3. \A s \in R : ReadInv(s)'
    BY <1>1, <2>1, <2>2 DEF ReadInv
  <2>. QED
    BY <1>1, <1>7, <2>3 DEF InOrder
<1>8. R \subseteq requests /\ requests' = R \cup {n} /\ (~overlapped' => ~overlapped /\ InOrder)
  BY <1>R DEF ImagesInv
<1>. QED
  BY <1>2, <1>3, <1>4, <1>5, <1>6, <1>7, <1>8, RequestAdded

LEMMA RemoveImageKeeps ==
  ASSUME ImagesInv, NEW r \in requests, RemoveImage(r)
  PROVE  ImagesInv'
<1>n. PICK n : n = [r EXCEPT !.step = "unlink"]
  OBVIOUS
<1>D. PICK D : D = DOMAIN image \ {r.file}
  OBVIOUS
<1>1. /\ requests' = (requests \ {r}) \cup {n} /\ r.step = "remove"
      /\ image' = Restrict(image, D)
      /\ UNCHANGED <<items, files, submitting, overlapped>>
  BY <1>n, <1>D DEF RemoveImage, Advance
<1>2. r \in ImageRequest /\ RequestInv(r)
  BY RequestFields
<1>3. /\ n.item = r.item /\ n.file = r.file /\ n.other = r.other /\ n.step = "unlink"
      /\ n.at = r.at /\ n.otherAt = r.otherAt
  BY <1>n, <1>2 DEF ImageRequest
<1>4. n \in ImageRequest
  BY <1>n, <1>2 DEF ImageRequest
<1>5. DOMAIN image' = D
  BY <1>1 DEF Restrict
<1>6. RequestInv(n)'
  BY <1>D, <1>2, <1>3, <1>5 DEF RequestInv
<1>7. \A f \in D : image[f].item \in items' /\ f \in files'
  BY <1>D, <1>1 DEF ImagesInv, RowInv
<1>8. \A s \in requests \ {r} : s.step \in {"read", "insert"} => s.file \in files'
  BY <1>1 DEF ImagesInv, RequestInv
<1>. QED
  BY <1>D, <1>1, <1>3, <1>4, <1>6, <1>7, <1>8, RowsGo

LEMMA DropItemKeeps ==
  ASSUME ImagesInv, NEW r \in requests, DropItem(r)
  PROVE  ImagesInv'
<1>n. PICK n : n = Loading(r)
  OBVIOUS
<1>D. PICK D : D = DOMAIN image \ ImagesOf(r.item)
  OBVIOUS
<1>1. /\ requests' = (requests \ {r}) \cup {n} /\ image' = Restrict(image, D)
      /\ items' = items \ {r.item}
      /\ UNCHANGED <<files, submitting, overlapped>>
  BY <1>n, <1>D DEF DropItem, Advance
<1>2. n \in ImageRequest /\ RequestInv(n)' /\ n.item = r.item
  BY <1>n, LoadingDisturbsNobody
<1>3. n.file = 0 /\ n.other = 0 /\ n.step = "list"
  BY <1>n DEF Loading, NewRequest
<1>4. \A f \in D : image[f].item \in items' /\ f \in files'
  BY <1>D, <1>1 DEF ImagesInv, RowInv, ImagesOf
<1>5. \A s \in requests \ {r} : s.step \in {"read", "insert"} => s.file \in files'
  BY <1>1 DEF ImagesInv, RequestInv
<1>. QED
  BY <1>D, <1>1, <1>2, <1>3, <1>4, <1>5, RowsGo

LEMMA UnlinkFileKeeps ==
  ASSUME ImagesInv, NEW r \in requests, NEW unlinked, UnlinkFile(r, unlinked)
  PROVE  ImagesInv'
<1>n. PICK n : n = Loading(r)
  OBVIOUS
<1>R. PICK R : R = requests \ {r}
  OBVIOUS
<1>1. /\ requests' = (requests \ {r}) \cup {n} /\ r.step = "unlink"
      /\ files \ {r.file} \subseteq files' /\ files' \subseteq files
      /\ UNCHANGED <<items, image, submitting, overlapped>>
  BY <1>n DEF UnlinkFile, Advance, Database
<1>2. /\ n \in ImageRequest /\ RequestInv(n)' /\ n.item = r.item
      /\ \A s \in R : PairInv(s, n) /\ PairInv(n, s)
      /\ ReadInv(n)' /\ ~MovesPositions(n)
  BY <1>n, <1>R, LoadingDisturbsNobody
<1>3. r.file \notin DOMAIN image
  BY <1>1, RequestFields DEF RequestInv
<1>4. \A f \in DOMAIN image' : RowInv(f)'
  BY <1>1, <1>3 DEF ImagesInv, RowInv
<1>5. \A s \in R : s.step \in {"read", "insert"} => s.file \in files'
  BY <1>R, <1>1 DEF ImagesInv, RequestInv, PairInv
<1>6. \A s \in R : RequestInv(s)'
  BY <1>R, <1>1, <1>5 DEF ImagesInv, RequestInv
<1>7. ASSUME InOrder
      PROVE  /\ \A f, g \in DOMAIN image' : image'[f] = image'[g] => f = g
             /\ \A s \in R : ReadInv(s)'
  BY <1>R, <1>1, <1>7 DEF InOrder, ReadInv, PositionsOf, ImagesOf
<1>8. /\ R \subseteq requests /\ requests' = R \cup {n}
      /\ (~overlapped' => ~overlapped /\ InOrder)
      /\ files' \subseteq File /\ items' \subseteq ItemId /\ DOMAIN image' \subseteq File
      /\ \A f \in DOMAIN image' : image'[f] \in Row
      /\ submitting' \subseteq {"photos", "item"} /\ overlapped' \in BOOLEAN
  BY <1>R, <1>1 DEF ImagesInv, ImagesTypeOK
<1>. QED
  BY <1>2, <1>4, <1>6, <1>7, <1>8, RequestAdded

-------------------------------------------------------------------------------
\* Items

LEMMA SubmitItemKeeps ==
  ASSUME ImagesInv, NEW preview \in BOOLEAN, SubmitItem(preview)
  PROVE  ImagesInv'
<1>m. PICK m : m = Min(NewItem)
  OBVIOUS
<1>n. PICK n : n = NewRequest("item", m, 0, 0, "item", preview)
  OBVIOUS
<1>1. /\ requests' = requests \cup {n}
      /\ submitting' = submitting \cup {"item"}
      /\ UNCHANGED <<items, image, files, overlapped>>
  BY <1>m, <1>n DEF SubmitItem, Start, Database
<1>2. m \in ItemId /\ m \notin items /\ \A s \in requests : m # s.item
  BY <1>m, NewItemIsNew DEF SubmitItem
<1>3. /\ n.item = m /\ n.file = 0 /\ n.other = 0 /\ n.step = "item"
      /\ n.at = 0 /\ n.otherAt = 0
  BY <1>n DEF NewRequest
<1>4. n \in ImageRequest
  BY <1>n, <1>2 DEF NewRequest, ImageRequest
<1>5. RequestInv(n)' /\ ~MovesPositions(n)
  BY <1>1, <1>2, <1>3 DEF RequestInv, MovesPositions, ImagesAssumption
<1>6. \A s \in requests : PairInv(s, n) /\ PairInv(n, s)
  BY <1>2, <1>3, RequestFields DEF PairInv
<1>7. submitting' \subseteq {"photos", "item"} /\ overlapped' \in BOOLEAN
  BY <1>1 DEF ImagesInv, ImagesTypeOK
<1>. QED
  BY <1>1, <1>3, <1>4, <1>5, <1>6, <1>7, RequestStarts

LEMMA ClickDeleteItemKeeps ==
  ASSUME ImagesInv, NEW i \in ItemId, ClickDeleteItem(i)
  PROVE  ImagesInv'
<1>n. PICK n : n = NewRequest("drop", i, 0, 0, "none", FALSE)
  OBVIOUS
<1>1. /\ requests' = requests \cup {n} /\ i \in items
      /\ UNCHANGED <<items, image, files, submitting, overlapped>>
  BY <1>n DEF ClickDeleteItem, Start, Database
<1>2. /\ n.item = i /\ n.file = 0 /\ n.other = 0 /\ n.step = "drop"
      /\ n.at = 0 /\ n.otherAt = 0
  BY <1>n DEF NewRequest
<1>3. n \in ImageRequest
  BY <1>n DEF NewRequest, ImageRequest
<1>4. RequestInv(n)' /\ ~MovesPositions(n)
  BY <1>2 DEF RequestInv, MovesPositions, ImagesAssumption
<1>5. \A s \in requests : PairInv(s, n) /\ PairInv(n, s)
  BY <1>1, <1>2, RowIsApart
<1>6. submitting' \subseteq {"photos", "item"} /\ overlapped' \in BOOLEAN
  BY <1>1 DEF ImagesInv, ImagesTypeOK
<1>. QED
  BY <1>1, <1>2, <1>3, <1>4, <1>5, <1>6, RequestStarts

LEMMA CreateItemKeeps ==
  ASSUME ImagesInv, NEW r \in requests, CreateItem(r)
  PROVE  ImagesInv'
<1>R. PICK R : R = requests \ {r}
  OBVIOUS
<1>1. /\ r.step = "item" /\ items' = items \cup {r.item}
      /\ UNCHANGED <<image, submitting, overlapped>>
  BY DEF CreateItem
<1>2. r \in ImageRequest /\ RequestInv(r) /\ r.item \in ItemId
  BY RequestFields
<1>3. R \subseteq requests /\ \A s \in R : s.step = "item" => s.item # r.item
  BY <1>R, <1>1 DEF ImagesInv, PairInv
<1>4. \A s \in R : s.item # r.item
  BY <1>R, <1>1 DEF ImagesInv, PairInv
<1>5. ASSUME NEW n \in ImageRequest, requests' = R \cup {n},
             files \subseteq files', files' \subseteq File,
             n.item = r.item, n.step \in {"read", "list"},
             RequestInv(n)', \A s \in R : PairInv(s, n) /\ PairInv(n, s)
      PROVE  ImagesInv'
  <2>1. /\ items' \subseteq ItemId /\ DOMAIN image' \subseteq File
        /\ \A f \in DOMAIN image' : image'[f] \in Row
        /\ submitting' \subseteq {"photos", "item"} /\ overlapped' \in BOOLEAN
        /\ ~overlapped' => ~overlapped /\ InOrder
    BY <1>1, <1>2 DEF ImagesInv, ImagesTypeOK
  <2>2. \A f \in DOMAIN image' : RowInv(f)'
    BY <1>1, <1>5 DEF ImagesInv, RowInv
  <2>3. \A s \in R : RequestInv(s)'
    BY <1>1, <1>3, <1>5 DEF ImagesInv, RequestInv
  <2>4. ReadInv(n)'
    BY <1>5 DEF ReadInv
  <2>5. ASSUME InOrder
        PROVE  /\ \A f, g \in DOMAIN image' : image'[f] = image'[g] => f = g
               /\ \A s \in R : ReadInv(s)'
    BY <1>1, <1>3, <2>5 DEF InOrder, ReadInv, PositionsOf, ImagesOf
  <2>. QED
    BY <1>3, <1>4, <1>5, <2>1, <2>2, <2>3, <2>4, <2>5, RequestAdded
<1>6. CASE r.preview /\ NewFile # {} /\ files' = files \cup {Min(NewFile)}
           /\ Advance(r, [r EXCEPT !.step = "read", !.file = Min(NewFile)])
  <2>m. PICK m : m = Min(NewFile)
    OBVIOUS
  <2>n. PICK n : n = [r EXCEPT !.step = "read", !.file = m]
    OBVIOUS
  <2>1. /\ m \in File /\ m \notin files /\ m \notin DOMAIN image
        /\ \A s \in requests : m \notin {s.file, s.other}
    BY <1>6, <2>m, NewFileIsNew, Zenon
  <2>2. requests' = R \cup {n} /\ files' = files \cup {m}
    BY <1>R, <1>6, <2>m, <2>n DEF Advance
  <2>3. /\ n.item = r.item /\ n.file = m /\ n.other = r.other /\ n.step = "read"
        /\ n.at = r.at /\ n.otherAt = r.otherAt
    BY <1>2, <2>n DEF ImageRequest
  <2>4. n \in ImageRequest
    BY <1>2, <2>n, <2>1 DEF ImageRequest
  <2>5. RequestInv(n)'
    BY <1>1, <1>2, <2>1, <2>2, <2>3 DEF RequestInv
  <2>6. \A s \in R : PairInv(s, n) /\ PairInv(n, s)
    <3>. TAKE s \in R
    <3>1. PairInv(s, r) /\ (s.step \in {"read", "insert"} => s.file \notin {m, r.other})
      BY <1>R, <1>3, <2>1 DEF ImagesInv, PairInv
    <3>. QED
      BY <1>3, <1>4, <2>1, <2>3, <3>1 DEF PairInv
  <2>7. files \subseteq files' /\ files' \subseteq File
    BY <2>1, <2>2 DEF ImagesInv, ImagesTypeOK
  <2>. QED
    BY <1>5, <2>2, <2>3, <2>4, <2>5, <2>6, <2>7
<1>7. CASE Advance(r, Loading(r)) /\ UNCHANGED files
  <2>n. PICK n : n = Loading(r)
    OBVIOUS
  <2>1. requests' = R \cup {n} /\ files \subseteq files' /\ files' \subseteq File
    BY <1>R, <1>7, <2>n DEF Advance, ImagesInv, ImagesTypeOK
  <2>2. n \in ImageRequest /\ RequestInv(n)' /\ n.item = r.item
        /\ \A s \in R : PairInv(s, n) /\ PairInv(n, s)
    BY <1>R, <2>n, LoadingDisturbsNobody
  <2>3. n.step = "list"
    BY <2>n DEF Loading, NewRequest
  <2>. QED
    BY <1>5, <2>1, <2>2, <2>3
<1>. QED
  BY <1>6, <1>7 DEF CreateItem

-------------------------------------------------------------------------------
\* The end of operations

LEMMA ItemsLoadedKeeps ==
  ASSUME ImagesInv, NEW r \in requests, ItemsLoaded(r)
  PROVE  ImagesInv'
BY RequestGone DEF ItemsLoaded, End, Database

LEMMA RequestFailsKeeps ==
  ASSUME ImagesInv, NEW r \in requests, RequestFails(r)
  PROVE  ImagesInv'
<1>1. UNCHANGED <<items, image, files, overlapped>>
  BY DEF RequestFails, Database
<1>2. CASE End(r)
  BY <1>1, <1>2, RequestGone DEF End
<1>3. CASE Advance(r, Loading(r)) /\ UNCHANGED submitting
  <2>n. PICK n : n = Loading(r)
    OBVIOUS
  <2>1. n \in ImageRequest /\ RequestInv(n)' /\ n.item = r.item
        /\ ReadInv(n)' /\ ~MovesPositions(n)
    BY <2>n, LoadingDisturbsNobody
  <2>2. n.file = 0 /\ n.other = 0 /\ n.step = "list"
    BY <2>n DEF Loading, NewRequest
  <2>3. requests' = (requests \ {r}) \cup {n}
    BY <1>3, <2>n DEF Advance
  <2>. QED
    BY <1>1, <1>3, <2>1, <2>2, <2>3, RequestGoesOn
<1>. QED
  BY <1>2, <1>3 DEF RequestFails

LEMMA ReopenModalKeeps ==
  ASSUME ImagesInv, NEW modal \in {"photos", "item"}, ReopenModal(modal)
  PROVE  ImagesInv'
<1>. DEFINE Same(q, r) == /\ q \in ImageRequest
                          /\ q.step = r.step /\ q.item = r.item /\ q.file = r.file
                          /\ q.other = r.other /\ q.at = r.at /\ q.otherAt = r.otherAt
            As(r) == IF r.modal = modal THEN [r EXCEPT !.modal = "none"] ELSE r
<1>1. /\ requests' = {As(r) : r \in requests} /\ submitting' \subseteq submitting
      /\ UNCHANGED <<items, image, files, overlapped>>
  BY DEF ReopenModal, Database
<1>2. \A r \in requests : Same(As(r), r)
  BY RequestFields DEF ImageRequest
<1>. HIDE DEF As, Same
<1>3. \A q \in requests' : \E r \in requests : q = As(r) /\ Same(q, r)
  BY <1>1, <1>2
<1>4. ImagesTypeOK'
  BY <1>1, <1>3 DEF ImagesInv, ImagesTypeOK, Same
<1>5. \A f \in DOMAIN image' : RowInv(f)'
  BY <1>1 DEF ImagesInv, RowInv
<1>6. \A q \in requests' : RequestInv(q)'
  BY <1>1, <1>3 DEF ImagesInv, RequestInv, Same
<1>7. ASSUME NEW p \in requests', NEW q \in requests' PROVE PairInv(p, q)
  <2>1. PICK r \in requests : p = As(r) /\ Same(p, r)
    BY <1>3
  <2>2. PICK s \in requests : q = As(s) /\ Same(q, s)
    BY <1>3
  <2>3. PairInv(r, s)
    BY DEF ImagesInv
  <2>4. p # q => r # s
    BY <2>1, <2>2
  <2>. QED
    BY <2>1, <2>2, <2>3, <2>4 DEF PairInv, Same
<1>8. ASSUME InOrder PROVE InOrder'
  <2>1. ASSUME NEW p \in requests', NEW q \in requests', MovesPositions(p),
               MovesPositions(q), p.item = q.item
        PROVE  p = q
    <3>1. PICK r \in requests : p = As(r) /\ Same(p, r)
      BY <1>3
    <3>2. PICK s \in requests : q = As(s) /\ Same(q, s)
      BY <1>3
    <3>3. r = s
      BY <1>8, <2>1, <3>1, <3>2 DEF InOrder, MovesPositions, Same
    <3>. QED
      BY <3>1, <3>2, <3>3
  <2>2. ASSUME NEW q \in requests' PROVE ReadInv(q)'
    <3>1. PICK s \in requests : q = As(s) /\ Same(q, s)
      BY <1>3
    <3>2. ReadInv(s)
      BY <1>8 DEF InOrder
    <3>. QED
      BY <1>1, <3>1, <3>2 DEF ReadInv, Same, PositionsOf, ImagesOf
  <2>. QED
    BY <1>1, <1>8, <2>1, <2>2 DEF InOrder
<1>. QED
  BY <1>1, <1>4, <1>5, <1>6, <1>7, <1>8 DEF ImagesInv

-------------------------------------------------------------------------------
\* The invariant

LEMMA ImagesInitially == ImagesInit => ImagesInv
<1>. SUFFICES ASSUME ImagesInit PROVE ImagesInv
  OBVIOUS
<1>1. 1 \in ItemId
  BY DEF ItemId, ImagesAssumption
<1>2. DOMAIN image = {} /\ requests = {} /\ files = {} /\ submitting = {} /\ overlapped = FALSE
  BY DEF ImagesInit
<1>. QED
  BY <1>1, <1>2 DEF ImagesInit, ImagesInv, ImagesTypeOK, InOrder

LEMMA ImagesStep == ImagesInv /\ [ImagesNext]_imagesVars => ImagesInv'
<1>. SUFFICES ASSUME ImagesInv, [ImagesNext]_imagesVars PROVE ImagesInv'
  OBVIOUS
<1>1. ASSUME NEW i \in ItemId, AddImage(i) \/ ClickDeleteItem(i) PROVE ImagesInv'
  BY <1>1, AddImageKeeps, ClickDeleteItemKeeps
<1>2. ASSUME NEW f \in File, DeleteImage(f) \/ \E g \in File : SwapImages(f, g)
      PROVE  ImagesInv'
  BY <1>2, DeleteImageKeeps, SwapImagesKeeps
<1>3. ASSUME NEW preview \in BOOLEAN, SubmitItem(preview) PROVE ImagesInv'
  BY <1>3, SubmitItemKeeps
<1>4. ASSUME NEW modal \in {"photos", "item"}, ReopenModal(modal) PROVE ImagesInv'
  BY <1>4, ReopenModalKeeps
<1>5. ASSUME NEW r \in requests,
             \/ ReadLast(r) \/ InsertImage(r) \/ RemoveImage(r)
             \/ ReadFirst(r) \/ ReadSecond(r) \/ WriteSwap(r)
             \/ \E unlinked \in BOOLEAN : UnlinkFile(r, unlinked)
             \/ CreateItem(r) \/ DropItem(r) \/ ItemsLoaded(r) \/ RequestFails(r)
      PROVE  ImagesInv'
  BY <1>5, ReadLastKeeps, InsertImageKeeps, RemoveImageKeeps, ReadFirstKeeps,
     ReadSecondKeeps, WriteSwapKeeps, UnlinkFileKeeps, CreateItemKeeps, DropItemKeeps,
     ItemsLoadedKeeps, RequestFailsKeeps
<1>6. CASE UNCHANGED imagesVars
  BY <1>6, RequestGone DEF imagesVars
<1>. QED
  BY <1>1, <1>2, <1>3, <1>4, <1>5, <1>6 DEF ImagesNext

\* Uploads, deletions and swaps of images leave every row with its file, and as
\* long as none overlapped with its own position, in every interleaving and
\* whatever fails half-way (imageController, itemController).
THEOREM ImagesInvariance == ImagesSpec => []ImagesInv
<1>. QED
  BY ImagesInitially, ImagesStep, PTL DEF ImagesSpec

\* A row of an image always has its file in static/uploads (uploadFile inserts it
\* after the file is stored, deleteFile deletes it before the file).
THEOREM RowHasItsFileTheorem == ImagesSpec => []RowHasItsFile
<1>1. ImagesInv => RowHasItsFile
  BY DEF ImagesInv, RowInv, RowHasItsFile
<1>. QED
  BY <1>1, ImagesInvariance, PTL

\* The images of an item have different positions unless two operations on them
\* overlapped (uploadFile, swapFiles).
THEOREM PositionsDistinctTheorem == ImagesSpec => []PositionsDistinct
<1>1. ImagesInv => PositionsDistinct
  <2>. SUFFICES ASSUME ImagesInv, ~overlapped, NEW i \in ItemId,
                       NEW f \in ImagesOf(i), NEW g \in ImagesOf(i),
                       image[f].position = image[g].position
                PROVE  f = g
    BY DEF PositionsDistinct
  <2>1. f \in DOMAIN image /\ g \in DOMAIN image /\ image[f].item = image[g].item
    BY DEF ImagesOf
  <2>2. image[f] \in Row /\ image[g] \in Row
    BY <2>1 DEF ImagesInv, ImagesTypeOK
  <2>3. image[f] = image[g]
    BY <2>1, <2>2 DEF Row
  <2>. QED
    BY <2>1, <2>3 DEF ImagesInv, InOrder
<1>. QED
  BY <1>1, ImagesInvariance, PTL
===============================================================================
