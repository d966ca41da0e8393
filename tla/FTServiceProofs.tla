--------------------------- MODULE FTServiceProofs ---------------------------
(***************************************************************************)
(* Proofs about the File Transfer service, for every set of clients,       *)
(* directories and files.  First what FlattenSeq makes of the files of a   *)
(* directory, by induction over their number; then types; then that the    *)
(* files a client wrote, the stream and what the thread has still to write *)
(* make up the reply.                                                      *)
(***************************************************************************)
EXTENDS FTService, TLAPS, WellFoundedInduction

\* Induction over the naturals, of a set in place of a predicate.
LEMMA LeastNatural ==
    ASSUME NEW S \in SUBSET Nat, S # {}
    PROVE  \E x \in S : \A y \in S : x <= y
<1>1. PICK x \in S : \A y \in S : <<y, x>> \notin OpToRel(<, Nat)
  BY WFMin, NatLessThanWellFounded, Zenon
<1>2. \A y \in S : ~(y < x)
  BY <1>1, Zenon DEF OpToRel
<1> QED
  BY <1>2

LEMMA SetInduction ==
    ASSUME NEW S \in SUBSET Nat, 0 \in S, \A n \in S : n + 1 \in S
    PROVE  S = Nat
<1>1. SUFFICES ASSUME Nat \ S # {} PROVE FALSE
  BY Zenon
<1>2. PICK x \in Nat \ S : \A y \in Nat \ S : x <= y
  BY <1>1, LeastNatural
<1>3. x - 1 \in S
  BY <1>2
<1> QED
  BY <1>2, <1>3

\* The function that FlattenSeq recurs on, up to n.
Flattens(g, ss, n) ==
    g = [i \in 1 .. n |-> IF i = 1 THEN ss[i] ELSE g[i - 1] \o ss[i]]

LEMMA FlattenExists ==
    ASSUME NEW ss
    PROVE  \A n \in Nat : \E g : Flattens(g, ss, n)
<1> DEFINE S == {n \in Nat : \E g : Flattens(g, ss, n)}
<1>1. 0 \in S
  <2>1. Flattens([i \in 1 .. 0 |-> ss[1]], ss, 0)
    BY DEF Flattens
  <2> QED
    BY <2>1
<1>2. ASSUME NEW n \in S PROVE n + 1 \in S
  <2>1. PICK g : Flattens(g, ss, n)
    BY <1>2
  <2> DEFINE h == [i \in 1 .. n + 1 |-> IF i <= n THEN g[i]
                       ELSE IF i = 1 THEN ss[i] ELSE g[i - 1] \o ss[i]]
  <2>2. \A i \in 1 .. n : g[i] = IF i = 1 THEN ss[i] ELSE g[i - 1] \o ss[i]
    BY <2>1 DEF Flattens
  <2>3. n \in Nat
    OBVIOUS
  <2>4. \A i \in 1 .. n + 1 : h[i] = IF i = 1 THEN ss[i] ELSE h[i - 1] \o ss[i]
    BY <2>2, <2>3
  <2>5. Flattens(h, ss, n + 1)
    BY <2>4, Zenon DEF Flattens
  <2> QED
    BY <2>3, <2>5
<1> QED
  BY <1>1, <1>2, SetInduction

LEMMA FlattenAgrees ==
    ASSUME NEW ss, NEW n \in Nat, NEW m \in Nat, n <= m, NEW g, NEW h,
           NEW tt, \A i \in 1 .. n : ss[i] = tt[i],
           Flattens(g, ss, n), Flattens(h, tt, m)
    PROVE  \A i \in 1 .. n : g[i] = h[i]
<1> DEFINE S == {i \in Nat : i \in 1 .. n => g[i] = h[i]}
<1>1. 0 \in S
  OBVIOUS
<1>2. /\ \A i \in 1 .. n : g[i] = IF i = 1 THEN ss[i] ELSE g[i - 1] \o ss[i]
      /\ \A i \in 1 .. m : h[i] = IF i = 1 THEN tt[i] ELSE h[i - 1] \o tt[i]
  BY DEF Flattens
<1>3. ASSUME NEW i \in S PROVE i + 1 \in S
  BY <1>2
<1> HIDE DEF S
<1>4. S = Nat
  BY <1>1, <1>3, SetInduction DEF S
<1> QED
  BY <1>4 DEF S

LEMMA FlattensOneMore ==
    ASSUME NEW ss, NEW tt, NEW n \in Nat, n > 0, \A i \in 1 .. n : ss[i] = tt[i],
           NEW g, Flattens(g, ss, n), NEW h, Flattens(h, tt, n + 1)
    PROVE  h[n + 1] = g[n] \o tt[n + 1]
<1>1. \A i \in 1 .. n + 1 : h[i] = IF i = 1 THEN tt[i] ELSE h[i - 1] \o tt[i]
  BY DEF Flattens
<1>2. PICK m \in Nat : m = n + 1
  OBVIOUS
<1>3. m \in 1 .. n + 1 /\ m # 1 /\ m - 1 = n /\ n <= m /\ n \in 1 .. n
  BY <1>2
<1>4. h[m] = h[n] \o tt[m]
  BY <1>1, <1>3, Zenon
<1>5. \A i \in 1 .. n : g[i] = h[i]
  BY <1>2, <1>3, FlattenAgrees
<1>6. g[n] = h[n]
  BY <1>3, <1>5
<1> QED
  BY <1>2, <1>4, <1>6, Zenon

LEMMA FlattenIs ==
    ASSUME NEW T, NEW ss \in Seq(T), ss # <<>>
    PROVE  \E g : Flattens(g, ss, Len(ss)) /\ FlattenSeq(ss) = g[Len(ss)]
<1>1. \E g : g = [i \in 1 .. Len(ss) |-> IF i = 1 THEN ss[i] ELSE g[i - 1] \o ss[i]]
  <2>1. PICK g : Flattens(g, ss, Len(ss))
    BY FlattenExists
  <2> QED
    BY <2>1 DEF Flattens
<1> DEFINE f == CHOOSE g : g = [i \in 1 .. Len(ss) |-> IF i = 1 THEN ss[i] ELSE g[i - 1] \o ss[i]]
<1>2. f = [i \in 1 .. Len(ss) |-> IF i = 1 THEN ss[i] ELSE f[i - 1] \o ss[i]]
  BY <1>1, Zenon
<1>3. FlattenSeq(ss) = f[Len(ss)]
  BY SMT DEF FlattenSeq
<1> QED
  BY <1>2, <1>3 DEF Flattens

LEMMA AppendFacts ==
    ASSUME NEW T, NEW s \in Seq(T), NEW last \in T
    PROVE  /\ Append(s, last) \in Seq(T) /\ Append(s, last) # <<>>
           /\ Len(s) \in Nat /\ Len(Append(s, last)) = Len(s) + 1
           /\ Append(s, last)[Len(s) + 1] = last
           /\ \A i \in 1 .. Len(s) : Append(s, last)[i] = s[i]
           /\ s # <<>> => Len(s) > 0
OBVIOUS

LEMMA FlattenNone == FlattenSeq(<<>>) = <<>>
BY DEF FlattenSeq

LEMMA FlattenAppend ==
    ASSUME NEW T, NEW ss \in Seq(Seq(T)), NEW last \in Seq(T), FlattenSeq(ss) \in Seq(T)
    PROVE  FlattenSeq(Append(ss, last)) = FlattenSeq(ss) \o last
<1> DEFINE longer == Append(ss, last)
<1>1. /\ longer \in Seq(Seq(T)) /\ longer # <<>> /\ Len(longer) = Len(ss) + 1
      /\ Len(ss) \in Nat
      /\ longer[Len(ss) + 1] = last
      /\ \A i \in 1 .. Len(ss) : ss[i] = longer[i]
      /\ ss # <<>> => Len(ss) > 0
  BY AppendFacts
<1> HIDE DEF longer
<1>2. PICK h : Flattens(h, longer, Len(longer)) /\ FlattenSeq(longer) = h[Len(longer)]
  BY <1>1, FlattenIs
<1>3. \A i \in 1 .. Len(ss) + 1 : h[i] = IF i = 1 THEN longer[i] ELSE h[i - 1] \o longer[i]
  BY <1>1, <1>2 DEF Flattens
<1>4. CASE ss = <<>>
  <2>1. h[1] = longer[1]
    BY <1>1, <1>3
  <2>2. last = <<>> \o last
    OBVIOUS
  <2> QED
    BY <1>1, <1>2, <1>4, <2>1, <2>2, FlattenNone DEF longer
<1>5. CASE ss # <<>>
  <2>1. PICK g : Flattens(g, ss, Len(ss)) /\ FlattenSeq(ss) = g[Len(ss)]
    BY <1>5, FlattenIs
  <2>2. PICK n \in Nat : n = Len(ss)
    BY <1>1
  <2>3. /\ n > 0 /\ \A i \in 1 .. n : ss[i] = longer[i]
        /\ Flattens(g, ss, n) /\ Flattens(h, longer, n + 1)
    BY <1>1, <1>2, <1>5, <2>1, <2>2, Zenon
  <2>4. h[n + 1] = g[n] \o longer[n + 1]
    BY <2>3, FlattensOneMore, Zenon
  <2> QED
    BY <1>1, <1>2, <2>1, <2>2, <2>4, Zenon DEF longer
<1> QED
  BY <1>4, <1>5

-------------------------------------------------------------------------------
(***************************************************************************)
(* What the server says to a get, and where each file begins in it.        *)
(***************************************************************************)
Piece(f) == <<Header(f)>> \o Content(f)

FirstFiles(d, k) == FlattenSeq([i \in 1 .. k |-> Piece(Listing[d][i])])

Offset(d, k) == Len(FirstFiles(d, k))

Reply(d) == FilesOf(d) \o <<Done, Error>>

LEMMA ItemKinds ==
    /\ \A f \in Files : Header(f) \in Items /\ Block(f) \in Items
    /\ Done \in Items /\ Error \in Items
    /\ \A f \in Files : IsHeader(Header(f)) /\ ~IsText(Header(f)) /\ Header(f)[2] = f
    /\ \A f \in Files : ~IsHeader(Block(f)) /\ ~IsText(Block(f))
    /\ ~IsHeader(Done) /\ ~IsHeader(Error)
    /\ IsText(Done) /\ IsText(Error)
    /\ \A item \in Items : IsHeader(item) => \E f \in Files : item = Header(f)
BY DEF Items, Header, Block, Done, Error, IsHeader, IsText

LEMMA PieceItems ==
    ASSUME NEW f \in Files
    PROVE  /\ Piece(f) \in Seq(Items) /\ Len(Piece(f)) = 1 + Size[f] /\ Size[f] \in Nat
           /\ Piece(f)[1] = Header(f)
           /\ \A j \in 1 .. Size[f] : Piece(f)[1 + j] = Block(f)
<1>1. Size[f] \in Nat
  BY ListingAssumption
<1>2. Header(f) \in Items /\ Block(f) \in Items
  BY ItemKinds
<1>3. PICK first \in Items, block \in Items : first = Header(f) /\ block = Block(f)
  BY <1>2
<1>4. Content(f) = [k \in 1 .. Size[f] |-> block]
  BY <1>3 DEF Content
<1>5. /\ Content(f) \in Seq(Items) /\ Len(Content(f)) = Size[f]
      /\ \A j \in 1 .. Size[f] : Content(f)[j] = block
  BY <1>1, <1>4
<1>6. Piece(f) = <<first>> \o Content(f)
  BY <1>3 DEF Piece
<1> QED
  BY <1>1, <1>3, <1>5, <1>6

LEMMA ConcatFacts ==
    ASSUME NEW s \in Seq(Items), NEW t \in Seq(Items)
    PROVE  /\ s \o t \in Seq(Items) /\ Len(s) \in Nat /\ Len(t) \in Nat
           /\ Len(s \o t) = Len(s) + Len(t)
           /\ \A i \in 1 .. Len(s) : (s \o t)[i] = s[i]
           /\ \A i \in 1 .. Len(t) : (s \o t)[Len(s) + i] = t[i]
OBVIOUS

LEMMA FirstFilesStep ==
    ASSUME NEW d \in Directories, NEW k \in Nat, k < Len(Listing[d]),
           FirstFiles(d, k) \in Seq(Items)
    PROVE  /\ Listing[d][k + 1] \in Files
           /\ FirstFiles(d, k + 1) = FirstFiles(d, k) \o Piece(Listing[d][k + 1])
<1>1. Listing[d] \in Seq(Files)
  BY ListingAssumption
<1>2. \A i \in 1 .. k + 1 : Listing[d][i] \in Files
  BY <1>1
<1> DEFINE P(i) == Piece(Listing[d][i])
<1>3. \A i \in 1 .. k + 1 : P(i) \in Seq(Items)
  BY <1>2, PieceItems
<1> HIDE DEF P
<1>4. PICK T : T = Seq(Items)
  OBVIOUS
<1>5. \A i \in 1 .. k + 1 : P(i) \in T
  BY <1>3, <1>4
<1>6. /\ [i \in 1 .. k |-> P(i)] \in Seq(T)
      /\ [i \in 1 .. k + 1 |-> P(i)] = Append([i \in 1 .. k |-> P(i)], P(k + 1))
      /\ P(k + 1) \in T
  BY <1>5
<1>7. FlattenSeq([i \in 1 .. k + 1 |-> P(i)]) = FlattenSeq([i \in 1 .. k |-> P(i)]) \o P(k + 1)
  <2>1. FlattenSeq([i \in 1 .. k |-> P(i)]) \in Seq(Items)
    BY Zenon DEF P, FirstFiles
  <2>2. [i \in 1 .. k |-> P(i)] \in Seq(Seq(Items)) /\ P(k + 1) \in Seq(Items)
    BY <1>4, <1>6, Zenon
  <2> QED
    BY <1>6, <2>1, <2>2, FlattenAppend, Zenon
<1>8. Listing[d][k + 1] \in Files
  BY <1>2
<1> QED
  BY <1>7, <1>8, Zenon DEF P, FirstFiles

\* File i of the directory lies in s where the files before it end.
Lies(d, i, s) ==
    /\ Offset(d, i - 1) \in Nat
    /\ Offset(d, i) = Offset(d, i - 1) + 1 + Size[Listing[d][i]]
    /\ Offset(d, i) <= Len(s)
    /\ s[Offset(d, i - 1) + 1] = Header(Listing[d][i])
    /\ \A j \in 1 .. Size[Listing[d][i]] :
          s[Offset(d, i - 1) + 1 + j] = Block(Listing[d][i])

\* A file begins nowhere else in the first k.
Begun(d, k, s) ==
    \A q \in 1 .. Len(s) : IsHeader(s[q]) => \E i \in 1 .. k : q = Offset(d, i - 1) + 1

LEMMA LiesLonger ==
    ASSUME NEW d \in Directories, NEW i \in 1 .. Len(Listing[d]),
           NEW s \in Seq(Items), NEW t \in Seq(Items), Lies(d, i, s)
    PROVE  Lies(d, i, s \o t)
<1>1. Size[Listing[d][i]] \in Nat
  BY ListingAssumption
<1>2. PICK from \in Nat, size \in Nat : from = Offset(d, i - 1) /\ size = Size[Listing[d][i]]
  BY <1>1 DEF Lies
<1>3. from + 1 \in 1 .. Len(s) /\ \A j \in 1 .. size : from + 1 + j \in 1 .. Len(s)
  BY <1>2, ConcatFacts DEF Lies
<1>4. Offset(d, i) <= Len(s \o t)
  BY <1>2, ConcatFacts DEF Lies
<1> QED
  BY <1>2, <1>3, <1>4, ConcatFacts DEF Lies

LaidOut(d, k) ==
    /\ FirstFiles(d, k) \in Seq(Items)
    /\ \A i \in 1 .. k : Lies(d, i, FirstFiles(d, k))
    /\ Begun(d, k, FirstFiles(d, k))

LEMMA NothingLaidOut ==
    ASSUME NEW d \in Directories
    PROVE  FirstFiles(d, 0) = <<>> /\ LaidOut(d, 0)
<1>1. [i \in 1 .. 0 |-> Piece(Listing[d][i])] = <<>>
  OBVIOUS
<1>2. FirstFiles(d, 0) = <<>>
  BY <1>1, FlattenNone DEF FirstFiles
<1>3. <<>> \in Seq(Items) /\ Len(<<>>) = 0
  OBVIOUS
<1>4. Begun(d, 0, <<>>)
  BY <1>3 DEF Begun
<1>5. \A i \in 1 .. 0 : Lies(d, i, <<>>)
  OBVIOUS
<1> QED
  BY <1>2, <1>3, <1>4, <1>5, Zenon DEF LaidOut

LEMMA LaidOutOneMore ==
    ASSUME NEW d \in Directories, NEW k \in Nat, k < Len(Listing[d]), LaidOut(d, k)
    PROVE  LaidOut(d, k + 1)
<1>1. PICK n \in Nat : n = k + 1
  OBVIOUS
<1>2. PICK f \in Files : f = Listing[d][n]
  BY <1>1, FirstFilesStep DEF LaidOut
<1>3. PICK before \in Seq(Items), piece \in Seq(Items) :
          before = FirstFiles(d, k) /\ piece = Piece(f)
  BY PieceItems DEF LaidOut
<1>4. PICK both \in Seq(Items) : both = before \o piece
  BY ConcatFacts
<1>5. FirstFiles(d, n) = both
  BY <1>1, <1>2, <1>3, <1>4, FirstFilesStep DEF LaidOut
<1>6. PICK from \in Nat, size \in Nat : from = Len(before) /\ size = Size[f]
  BY ConcatFacts, PieceItems
<1>7. /\ Len(piece) = 1 + size
      /\ piece[1] = Header(f)
      /\ \A j \in 1 .. size : piece[1 + j] = Block(f)
  BY <1>3, <1>6, PieceItems
<1>8. /\ Len(both) = from + (1 + size)
      /\ \A i \in 1 .. from : both[i] = before[i]
      /\ \A i \in 1 .. 1 + size : both[from + i] = piece[i]
  <2>1. /\ Len(both) = Len(before) + Len(piece)
        /\ \A i \in 1 .. Len(before) : both[i] = before[i]
        /\ \A i \in 1 .. Len(piece) : both[Len(before) + i] = piece[i]
    BY <1>4, ConcatFacts
  <2> QED
    BY <1>6, <1>7, <2>1, Zenon
<1>9. /\ Offset(d, k) = from /\ Offset(d, n) = from + (1 + size)
      /\ n - 1 = k /\ n \in 1 .. n
  BY <1>1, <1>3, <1>5, <1>6, <1>8 DEF Offset
<1>10. \A i \in 1 .. k : Lies(d, i, both)
  <2> TAKE i \in 1 .. k
  <2>1. Lies(d, i, before) /\ i \in 1 .. Len(Listing[d])
    BY <1>3, ListingAssumption DEF LaidOut
  <2> QED
    BY <1>4, <2>1, LiesLonger
<1>11. /\ both[from + 1] = Header(f)
       /\ \A j \in 1 .. size : both[from + 1 + j] = Block(f)
  <2>1. /\ 1 \in 1 .. 1 + size
        /\ \A j \in 1 .. size : 1 + j \in 1 .. 1 + size /\ from + (1 + j) = from + 1 + j
    OBVIOUS
  <2> QED
    BY <1>7, <1>8, <2>1
<1>12. Lies(d, n, both)
  <2>1. Offset(d, n - 1) = from
    BY <1>9, Zenon
  <2>2. from + (1 + size) = from + 1 + size /\ from + (1 + size) <= Len(both)
    BY <1>8
  <2> QED
    BY <1>2, <1>6, <1>9, <1>11, <2>1, <2>2, Zenon DEF Lies
<1>13. Begun(d, n, both)
  <2> SUFFICES ASSUME NEW q \in 1 .. Len(both), IsHeader(both[q])
               PROVE  \E i \in 1 .. n : q = Offset(d, i - 1) + 1
    BY DEF Begun
  <2>1. CASE q \in 1 .. from
    <3>1. \E i \in 1 .. k : q = Offset(d, i - 1) + 1
      BY <1>3, <1>6, <1>8, <2>1 DEF LaidOut, Begun
    <3> QED
      BY <1>1, <3>1
  <2>2. CASE q = from + 1
    BY <1>9, <2>2
  <2>3. ASSUME NEW j \in 1 .. size, q = from + 1 + j PROVE FALSE
    BY <1>11, <2>3, ItemKinds
  <2>4. q \in 1 .. from \/ q = from + 1 \/ \E j \in 1 .. size : q = from + 1 + j
    <3>1. q \notin 1 .. from /\ q # from + 1 =>
             q - from - 1 \in 1 .. size /\ q = from + 1 + (q - from - 1)
      BY <1>8
    <3> QED
      BY <3>1
  <2> QED
    BY <2>1, <2>2, <2>3, <2>4
<1>14. \A i \in 1 .. n : Lies(d, i, both)
  <2>1. \A i \in 1 .. n : i \in 1 .. k \/ i = n
    BY <1>1
  <2> QED
    BY <1>10, <1>12, <2>1
<1> QED
  BY <1>1, <1>5, <1>13, <1>14 DEF LaidOut

LEMMA AllLaidOut ==
    ASSUME NEW d \in Directories
    PROVE  \A k \in 0 .. Len(Listing[d]) : LaidOut(d, k)
<1> DEFINE S == {k \in Nat : k <= Len(Listing[d]) => LaidOut(d, k)}
<1>1. Len(Listing[d]) \in Nat
  BY ListingAssumption
<1>2. 0 \in S
  BY NothingLaidOut
<1>3. ASSUME NEW k \in S PROVE k + 1 \in S
  BY <1>1, LaidOutOneMore
<1> HIDE DEF S
<1>4. S = Nat
  BY <1>2, <1>3, SetInduction DEF S
<1> QED
  BY <1>1, <1>4 DEF S

LEMMA FilesOfAll ==
    ASSUME NEW d \in Directories
    PROVE  FilesOf(d) = FirstFiles(d, Len(Listing[d]))
<1>1. DOMAIN Listing[d] = 1 .. Len(Listing[d])
  BY ListingAssumption
<1> QED
  BY <1>1, Zenon DEF FilesOf, FirstFiles, Piece

LEMMA OffsetsAscend ==
    ASSUME NEW d \in Directories
    PROVE  /\ Len(Listing[d]) \in Nat
           /\ Offset(d, 0) = 0
           /\ \A k \in 0 .. Len(Listing[d]) : Offset(d, k) \in Nat
           /\ \A k \in 0 .. Len(Listing[d]) : \A i \in 0 .. k : Offset(d, i) <= Offset(d, k)
<1>1. Len(Listing[d]) \in Nat
  BY ListingAssumption
<1>2. Offset(d, 0) = 0
  BY NothingLaidOut DEF Offset
<1>3. \A k \in 0 .. Len(Listing[d]) : Offset(d, k) \in Nat
  BY AllLaidOut DEF LaidOut, Offset
<1>4. ASSUME NEW k \in 0 .. Len(Listing[d]), NEW i \in 1 .. k
      PROVE  Offset(d, i) <= Offset(d, k)
  BY AllLaidOut DEF LaidOut, Lies, Offset
<1> QED
  BY <1>1, <1>2, <1>3, <1>4

LEMMA ReplyLaidOut ==
    ASSUME NEW d \in Directories, NEW end \in Nat, end = Offset(d, Len(Listing[d]))
    PROVE  /\ Reply(d) \in Seq(Items)
           /\ Len(Reply(d)) = end + 2
           /\ Reply(d)[end + 1] = Done
           /\ Reply(d)[end + 2] = Error
           /\ \A i \in 1 .. Len(Listing[d]) : Lies(d, i, Reply(d))
           /\ Begun(d, Len(Listing[d]), Reply(d))
<1>1. PICK files \in Seq(Items), last \in Seq(Items) : files = FilesOf(d) /\ last = <<Done, Error>>
  <2>1. Len(Listing[d]) \in 0 .. Len(Listing[d])
    BY OffsetsAscend
  <2>2. FilesOf(d) \in Seq(Items)
    BY <2>1, AllLaidOut, FilesOfAll, Zenon DEF LaidOut
  <2>3. PICK done \in Items, error \in Items : done = Done /\ error = Error
    BY ItemKinds
  <2>4. <<done, error>> \in Seq(Items)
    OBVIOUS
  <2> QED
    BY <2>2, <2>3, <2>4, Zenon
<1>2. /\ Reply(d) = files \o last /\ Len(files) = end
      /\ Len(last) = 2 /\ last[1] = Done /\ last[2] = Error
  BY <1>1, FilesOfAll DEF Reply, Offset
<1>3. PICK both \in Seq(Items) : both = files \o last
  BY ConcatFacts
<1>4. /\ Len(both) = end + 2
      /\ \A i \in 1 .. end : both[i] = files[i]
      /\ both[end + 1] = Done /\ both[end + 2] = Error
  <2>1. /\ Len(both) = Len(files) + Len(last)
        /\ \A i \in 1 .. Len(files) : both[i] = files[i]
        /\ \A i \in 1 .. Len(last) : both[Len(files) + i] = last[i]
    BY <1>3, ConcatFacts
  <2>2. 1 \in 1 .. 2 /\ 2 \in 1 .. 2
    OBVIOUS
  <2> QED
    BY <1>2, <2>1, <2>2, Zenon
<1>5. LaidOut(d, Len(Listing[d])) /\ files = FirstFiles(d, Len(Listing[d]))
  BY <1>1, AllLaidOut, FilesOfAll, OffsetsAscend
<1>6. \A i \in 1 .. Len(Listing[d]) : Lies(d, i, both)
  BY <1>3, <1>5, LiesLonger DEF LaidOut
<1>7. Begun(d, Len(Listing[d]), both)
  <2>1. \A q \in 1 .. Len(both) : IsHeader(both[q]) => q \in 1 .. end /\ IsHeader(files[q])
    BY <1>4, ItemKinds
  <2> QED
    BY <1>2, <1>5, <2>1, Zenon DEF LaidOut, Begun
<1> QED
  BY <1>2, <1>3, <1>4, <1>6, <1>7

LEMMA ReplyItems ==
    ASSUME NEW d \in Directories
    PROVE  Reply(d) \in Seq(Items)
<1>1. Len(Listing[d]) \in 0 .. Len(Listing[d])
  BY OffsetsAscend
<1>2. PICK end \in Nat : end = Offset(d, Len(Listing[d]))
  BY <1>1, OffsetsAscend
<1> QED
  BY <1>2, ReplyLaidOut, Zenon

-------------------------------------------------------------------------------
(***************************************************************************)
(* Types.  The definitions that client and server share mean the same.     *)
(***************************************************************************)
LEMMA ClientItems ==
    /\ Client!Directories = Directories
    /\ Client!streams = streams
    /\ Client!Exit = Exit /\ Client!BadCommand = BadCommand
    /\ \A d : Client!Get(d) = Get(d)
    /\ \A f : Client!Block(f) = Block(f)
    /\ \A item : Client!IsHeader(item) <=> IsHeader(item)
    /\ \A item : Client!IsText(item) <=> IsText(item)
BY DEF Client!Directories, Directories, Client!streams, streams, Client!Exit, Exit,
       Client!BadCommand, BadCommand, Client!Get, Get, Client!Block, Block,
       Client!IsHeader, IsHeader, Client!IsText, IsText

LEMMA LineKinds ==
    /\ \A d \in Directories \cup Absent : Get(d) \in Lines
    /\ Exit \in Lines /\ BadCommand \in Lines
BY DEF Lines, Get, Exit, BadCommand

LEMMA SequenceFacts ==
    ASSUME NEW T, NEW s \in Seq(T)
    PROVE  /\ <<>> \in Seq(T) /\ Len(<<>>) = 0
           /\ Len(s) \in Nat
           /\ s # <<>> <=> Len(s) > 0
           /\ s # <<>> => Head(s) = s[1] /\ Head(s) \in T /\ Tail(s) \in Seq(T)
           /\ s # <<>> => Len(Tail(s)) = Len(s) - 1
                          /\ \A i \in 1 .. Len(s) - 1 : Tail(s)[i] = s[i + 1]
           /\ \A e \in T : <<e>> \in Seq(T) /\ Append(s, e) \in Seq(T)
OBVIOUS

LEMMA SubSeqFacts ==
    ASSUME NEW s \in Seq(Items), NEW i \in Nat, NEW m \in Nat, i <= m, m <= Len(s)
    PROVE  /\ SubSeq(s, i + 1, m) \in Seq(Items)
           /\ Len(SubSeq(s, i + 1, m)) = m - i
           /\ \A k \in 1 .. m - i : SubSeq(s, i + 1, m)[k] = s[i + k]
OBVIOUS

\* The greatest of a set of numbers that has a bound.
LEMMA GreatestOf ==
    ASSUME NEW N \in Nat, NEW S \in SUBSET (0 .. N), S # {}
    PROVE  Client!Max(S) \in S /\ \A x \in S : x <= Client!Max(S)
<1> DEFINE Bounds == {n \in Nat : \A x \in S : x <= n}
<1>1. N \in Bounds
  OBVIOUS
<1>2. PICK n \in Bounds : \A m \in Bounds : n <= m
  BY <1>1, LeastNatural
<1>3. n \in S
  <2> SUFFICES ASSUME n \notin S PROVE FALSE
    OBVIOUS
  <2>1. \A x \in S : x \in Nat /\ x <= n /\ x # n
    OBVIOUS
  <2>2. PICK x \in S : TRUE
    OBVIOUS
  <2>3. n \in Nat /\ n - 1 \in Nat
    BY <2>1, <2>2
  <2>4. \A y \in S : y <= n - 1
    BY <2>1, <2>3
  <2>5. n - 1 \in Bounds
    BY <2>3, <2>4
  <2> QED
    BY <1>2, <2>3, <2>5
<1>4. \E x \in S : \A y \in S : x >= y
  BY <1>2, <1>3
<1>5. Client!Max(S) \in S /\ \A y \in S : Client!Max(S) >= y
  BY <1>4, Zenon DEF Client!Max
<1> QED
  BY <1>5

\* The first m items of s are this one, and no more of them.
Leading(s, item, m) ==
    /\ m \in 0 .. Len(s)
    /\ \A k \in 1 .. m : s[k] = item
    /\ \A n \in 0 .. Len(s) : (\A k \in 1 .. n : s[k] = item) => n <= m

LEMMA BlocksFacts ==
    ASSUME NEW s \in Seq(Items), NEW f \in Files
    PROVE  Leading(s, Block(f), Client!Blocks(s, f))
<1> DEFINE S == {n \in 0 .. Len(s) : \A k \in 1 .. n : s[k] = Block(f)}
<1>1. S \in SUBSET (0 .. Len(s)) /\ Len(s) \in Nat /\ 0 \in S
  OBVIOUS
<1>2. Client!Blocks(s, f) = Client!Max(S)
  BY ClientItems, Zenon DEF Client!Blocks
<1>3. Client!Max(S) \in S /\ \A x \in S : x <= Client!Max(S)
  <2> HIDE DEF S
  <2> QED
    BY <1>1, GreatestOf
<1> QED
  BY <1>2, <1>3 DEF Leading

\* The smaller of two numbers.
LEMMA SmallerOf ==
    ASSUME NEW m \in Nat, NEW n \in Nat
    PROVE  Client!Min({m, n}) = IF m <= n THEN m ELSE n
<1>1. PICK least \in {m, n} : \A x \in {m, n} : least <= x
  OBVIOUS
<1>2. Client!Min({m, n}) \in {m, n} /\ \A x \in {m, n} : Client!Min({m, n}) <= x
  BY <1>1, Zenon DEF Client!Min
<1> QED
  BY <1>2

LEMMA TypedInit == Init => TypeOK
BY SequenceFacts DEF Init, TypeOK, StreamsInit, StreamsTyped, ServerInit, ServerTypeOK,
       Client!ClientInit, Client!ClientTypeOK

LEMMA FinishTyped ==
    ASSUME TypeOK, NEW c \in Clients, NEW words \in Seq(Items), Finish(c, words)
    PROVE  StreamsTyped' /\ pending' \in [Clients -> Seq(Items)]
<1>1. toClient[c] \o words \in Seq(Items) /\ <<>> \in Seq(Items) /\ <<>> \in Seq(Lines)
  BY ConcatFacts, SequenceFacts DEF TypeOK, StreamsTyped
<1> QED
  BY <1>1 DEF TypeOK, StreamsTyped, ServerTypeOK, Finish

\* The client takes n blocks of those that follow a header.
LEMMA BlocksNext ==
    ASSUME NEW s \in Seq(Items), s # <<>>,
           NEW block, NEW m \in Nat, Leading(Tail(s), block, m),
           NEW size \in Nat, NEW n \in Nat, n <= m, n <= size, n = m \/ n = size
    PROVE  /\ n + 1 <= Len(s)
           /\ n < size => n + 1 = Len(s) \/ s[n + 2] # block
           /\ SubSeq(s, n + 2, Len(s)) \in Seq(Items)
<1> DEFINE t == Tail(s)
<1>1. PICK last \in Nat : Len(s) = last + 1 /\ Len(t) = last /\ \A i \in 1 .. last : t[i] = s[i + 1]
  BY SequenceFacts
<1> HIDE DEF t
<1>2. m <= last /\ \A k \in 1 .. m : t[k] = block
  BY <1>1 DEF Leading, t
<1>3. ASSUME n < size, n < last PROVE s[n + 2] # block
  <2>1. n = m /\ m + 1 \in 0 .. last
    BY <1>2, <1>3
  <2>2. (\A k \in 1 .. m + 1 : t[k] = block) => m + 1 <= m
    BY <1>1, <2>1, Zenon DEF Leading, t
  <2>3. ~(m + 1 <= m)
    OBVIOUS
  <2>4. PICK k \in 1 .. m + 1 : t[k] # block
    BY <2>2, <2>3, Zenon
  <2>5. k \in 1 .. m \/ k = m + 1
    OBVIOUS
  <2>6. k = m + 1
    BY <1>2, <2>4, <2>5, Zenon
  <2> QED
    BY <1>1, <1>3, <2>1, <2>4, <2>6
<1>4. n + 1 <= Len(s) /\ Len(s) \in Nat
  BY <1>1, <1>2
<1>5. SubSeq(s, n + 2, Len(s)) \in Seq(Items)
  <2>1. n + 1 \in Nat /\ n + 2 = (n + 1) + 1
    OBVIOUS
  <2> QED
    BY <1>4, <2>1, SubSeqFacts
<1> QED
  BY <1>1, <1>3, <1>4, <1>5

\* A header is next: it is that of a file, and the client takes n blocks.
LEMMA FileNext ==
    ASSUME NEW s \in Seq(Items), s # <<>>, IsHeader(Head(s)),
           NEW f, f = Head(s)[2],
           NEW n, n = Client!Min({Client!Blocks(Tail(s), f), Size[f]})
    PROVE  /\ f \in Files /\ s[1] = Header(f)
           /\ Size[f] \in Nat /\ n \in Nat /\ n <= Size[f] /\ n + 1 <= Len(s)
           /\ n < Size[f] => n + 1 = Len(s) \/ s[n + 2] # Block(f)
           /\ SubSeq(s, n + 2, Len(s)) \in Seq(Items)
<1>1. PICK t \in Seq(Items) : t = Tail(s)
  BY SequenceFacts
<1>2. Head(s) = s[1] /\ Head(s) \in Items
  BY SequenceFacts
<1>3. f \in Files /\ s[1] = Header(f)
  BY <1>2, ItemKinds
<1>4. PICK size \in Nat : size = Size[f]
  BY <1>3, ListingAssumption
<1>5. Client!Blocks(t, f) \in Nat /\ Leading(t, Block(f), Client!Blocks(t, f))
  BY <1>3, BlocksFacts, SequenceFacts DEF Leading
<1>6. PICK m, block :
          /\ m \in Nat /\ m = Client!Blocks(t, f)
          /\ block = Block(f) /\ Leading(t, block, m)
  BY <1>5, Zenon
<1>7. n = Client!Min({m, size})
  BY <1>1, <1>4, <1>6, Zenon
<1>8. n \in Nat /\ n <= m /\ n <= size /\ (n = m \/ n = size)
  BY <1>6, <1>7, SmallerOf
<1>9. /\ n + 1 <= Len(s)
      /\ n < size => n + 1 = Len(s) \/ s[n + 2] # Block(f)
      /\ SubSeq(s, n + 2, Len(s)) \in Seq(Items)
  <2>1. PICK k : k = n /\ k \in Nat /\ k <= m /\ k <= size /\ (k = m \/ k = size)
    BY <1>8, Zenon
  <2>2. /\ k + 1 <= Len(s)
        /\ k < size => k + 1 = Len(s) \/ s[k + 2] # block
        /\ SubSeq(s, k + 2, Len(s)) \in Seq(Items)
    BY <1>1, <1>6, <2>1, BlocksNext
  <2> QED
    BY <1>6, <2>1, <2>2, Zenon
<1> QED
  BY <1>3, <1>4, <1>8, <1>9, Zenon

LEMMA TypedServer ==
    ASSUME TypeOK, NEW c \in Clients, ServerStep(c)
    PROVE  TypeOK'
<1> USE DEF TypeOK, StreamsTyped, ServerTypeOK
<1>1. Client!ClientTypeOK'
  BY DEF ServerStep, clientVars, Client!ClientTypeOK
<1>2. \A i \in Clients : toServer[i] # <<>> => Tail(toServer[i]) \in Seq(Lines)
  BY SequenceFacts
<1>3. <<>> \in Seq(Items) /\ <<Error>> \in Seq(Items)
  BY SequenceFacts, ItemKinds
<1>4. ASSUME HandleGet(c) PROVE StreamsTyped' /\ ServerTypeOK'
  <2>1. PICK d \in Directories : Reads(c, Get(d)) /\ pending' = [pending EXCEPT ![c] = Reply(d)]
    BY <1>4 DEF HandleGet, Reply
  <2>2. Reply(d) \in Seq(Items)
    BY ReplyItems
  <2>3. /\ thread' = [thread EXCEPT ![c] = "sending"]
        /\ toServer' = [toServer EXCEPT ![c] = Tail(@)]
        /\ UNCHANGED <<link, toClient, cut>>
    BY <1>4 DEF HandleGet
  <2>4. Tail(toServer[c]) \in Seq(Lines)
    BY <1>2, <2>1 DEF Reads
  <2> QED
    BY <2>1, <2>2, <2>3, <2>4
<1>5. ASSUME HandleGetAbsent(c) PROVE StreamsTyped' /\ ServerTypeOK'
  <2>1. Append(toClient[c], Error) \in Seq(Items)
    BY SequenceFacts, ItemKinds
  <2> QED
    BY <1>2, <1>5, <2>1 DEF HandleGetAbsent, Reads
<1>6. ASSUME HandleExit(c) PROVE StreamsTyped' /\ ServerTypeOK'
  BY <1>3, <1>6, FinishTyped DEF HandleExit
<1>7. ASSUME HandleInvalid(c) PROVE StreamsTyped' /\ ServerTypeOK'
  BY <1>3, <1>7, FinishTyped DEF HandleInvalid
<1>8. ASSUME Write(c) PROVE StreamsTyped' /\ ServerTypeOK'
  <2>1. PICK item \in Items, rest \in Seq(Items) :
            item = Head(pending[c]) /\ rest = Tail(pending[c])
    BY <1>8, SequenceFacts DEF Write
  <2>2. Append(toClient[c], item) \in Seq(Items)
    BY SequenceFacts
  <2> QED
    BY <1>8, <2>1, <2>2 DEF Write
<1>9. ASSUME Sent(c) \/ EndOfStream(c) PROVE StreamsTyped' /\ ServerTypeOK'
  BY <1>3, <1>9, FinishTyped DEF Sent, EndOfStream
<1>10. ASSUME Unreadable(c) PROVE StreamsTyped' /\ ServerTypeOK'
  BY <1>3, <1>10, FinishTyped DEF Unreadable
<1> QED
  BY <1>1, <1>4, <1>5, <1>6, <1>7, <1>8, <1>9, <1>10 DEF ServerStep, Serve

LEMMA TypedClient ==
    ASSUME TypeOK, NEW c \in Clients, Connect(c) \/ ClientStep(c)
    PROVE  TypeOK'
<1> USE DEF TypeOK, StreamsTyped
<1>1. <<>> \in Seq(Items) /\ <<>> \in Seq(Lines)
  BY SequenceFacts
<1>2. ASSUME NEW next \in {"connect", "get"}, Client!Begins(c, next),
             connected' \in [Clients -> BOOLEAN], leftover' \in [Clients -> BOOLEAN]
      PROVE  Client!ClientTypeOK'
  BY <1>2 DEF Client!Begins, Client!ClientTypeOK
<1>3. ASSUME NEW line \in Lines, Client!Send(c, line)
      PROVE  toServer' \in [Clients -> Seq(Lines)]
  BY <1>3, SequenceFacts DEF Client!Send
<1>4. ASSUME Connect(c) PROVE TypeOK'
  <2>1. ASSUME Client!ConnectSucceeds(c), cut' = [cut EXCEPT ![c] = "no"], UNCHANGED pending
        PROVE  TypeOK'
    <3>1. Client!ClientTypeOK'
      BY <1>2, <2>1 DEF Client!ConnectSucceeds, Client!ClientTypeOK
    <3> QED
      BY <1>1, <2>1, <3>1 DEF Client!ConnectSucceeds, ServerTypeOK
  <2>2. ASSUME Client!ConnectDoesNothing(c), UNCHANGED serverVars
        PROVE  TypeOK'
    <3>1. Client!ClientTypeOK'
      BY <1>2, <2>2 DEF Client!ConnectDoesNothing, Client!ClientTypeOK
    <3> QED
      BY <2>2, <3>1 DEF Client!ConnectDoesNothing, ServerTypeOK, serverVars, Client!streams
  <2> QED
    BY <1>4, <2>1, <2>2 DEF Connect
<1>5. ASSUME UNCHANGED serverVars PROVE ServerTypeOK'
  BY <1>5 DEF ServerTypeOK, serverVars
<1>6. ASSUME NEW d \in Directories \cup Absent, Client!GetDirectory(c, d)
      PROVE  StreamsTyped' /\ Client!ClientTypeOK'
  <2>1. toServer' \in [Clients -> Seq(Lines)]
    BY <1>3, <1>6, LineKinds, ClientItems DEF Client!GetDirectory
  <2>2. /\ link' \in [Clients -> {"none", "open", "ended", "reset"}]
        /\ toClient' \in [Clients -> Seq(Items)]
    BY <1>1, <1>6 DEF Client!GetDirectory, Client!Returns, Client!Throws
  <2>3. wanted' \in [Clients -> Client!Directories \cup Absent \cup {Client!NoDirectory}]
    BY <1>6, ClientItems DEF Client!GetDirectory, Client!ClientTypeOK
  <2>4. /\ connected' \in [Clients -> BOOLEAN]
        /\ step' \in [Clients -> {"connect", "get", "receive", "disconnect"}]
        /\ outcome' \in [Clients -> {"none", "returned", "threw"}]
    BY <1>6 DEF Client!GetDirectory, Client!Returns, Client!Throws, Client!ClientTypeOK
  <2> QED
    BY <1>6, <2>1, <2>2, <2>3, <2>4 DEF Client!GetDirectory, Client!ClientTypeOK
<1>7. ASSUME Client!SendInvalidMessage(c)
      PROVE  StreamsTyped' /\ Client!ClientTypeOK'
  <2>1. toServer' \in [Clients -> Seq(Lines)]
    BY <1>3, <1>7, LineKinds, ClientItems DEF Client!SendInvalidMessage
  <2> QED
    BY <1>7, <2>1 DEF Client!SendInvalidMessage, Client!ClientTypeOK
<1>8. ASSUME Client!Receive(c)
      PROVE  StreamsTyped' /\ Client!ClientTypeOK'
  <2>1. ASSUME Client!ReceiveFile(c) PROVE StreamsTyped' /\ Client!ClientTypeOK'
    <3>1. PICK f, n : /\ f = Head(toClient[c])[2]
                      /\ n = Client!Min({Client!Blocks(Tail(toClient[c]), f), Size[f]})
      OBVIOUS
    <3>2. /\ toClient' = [toClient EXCEPT ![c] = SubSeq(@, n + 2, Len(@))]
          /\ received' = [received EXCEPT ![c] = @ \cup {<<f, n>>}]
      BY <2>1, <3>1 DEF Client!ReceiveFile
    <3>3. f \in Files /\ n \in Nat /\ SubSeq(toClient[c], n + 2, Len(toClient[c])) \in Seq(Items)
      <4>1. toClient[c] # <<>> /\ IsHeader(Head(toClient[c]))
        BY <2>1, ClientItems DEF Client!ReceiveFile
      <4>2. PICK s \in Seq(Items) : s = toClient[c]
        OBVIOUS
      <4>3. f \in Files /\ n \in Nat /\ SubSeq(s, n + 2, Len(s)) \in Seq(Items)
        BY <3>1, <4>1, <4>2, FileNext, Zenon
      <4> QED
        BY <4>2, <4>3
    <3>4. /\ toClient' \in [Clients -> Seq(Items)]
          /\ received' \in [Clients -> SUBSET (Client!Files \X Nat)]
      BY <3>2, <3>3 DEF Client!ClientTypeOK, Client!Files, Files
    <3> QED
      BY <2>1, <3>4 DEF Client!ReceiveFile, Client!ClientTypeOK
  <2>2. ASSUME Client!ReceiveEnd(c) PROVE StreamsTyped' /\ Client!ClientTypeOK'
    BY <1>1, <2>2 DEF Client!ReceiveEnd, Client!Returns, Client!ClientTypeOK
  <2>3. ASSUME Client!ReceiveReset(c) PROVE StreamsTyped' /\ Client!ClientTypeOK'
    BY <2>3 DEF Client!ReceiveReset, Client!Throws, Client!ClientTypeOK
  <2> QED
    BY <1>8, <2>1, <2>2, <2>3 DEF Client!Receive
<1>9. ASSUME Client!Disconnect(c)
      PROVE  StreamsTyped' /\ Client!ClientTypeOK'
  <2>1. toServer' \in [Clients -> Seq(Lines)]
    BY <1>3, <1>9, LineKinds, ClientItems DEF Client!Disconnect
  <2>2. Client!ClientTypeOK'
    BY <1>2, <1>9 DEF Client!Disconnect, Client!ClientTypeOK
  <2> QED
    BY <1>1, <1>9, <2>1, <2>2 DEF Client!Disconnect
<1>10. ASSUME Client!Kill(c)
       PROVE  StreamsTyped' /\ Client!ClientTypeOK'
  <2>1. Client!ClientTypeOK'
    BY <1>2, <1>10 DEF Client!Kill, Client!ClientTypeOK
  <2> QED
    BY <1>1, <1>10, <2>1 DEF Client!Kill
<1>11. ASSUME Client!ReceiveFileFails(c)
       PROVE  StreamsTyped' /\ Client!ClientTypeOK'
  <2>1. PICK f, n : /\ f = Head(toClient[c])[2]
                    /\ n = Client!Min({Client!Blocks(Tail(toClient[c]), f), Size[f]})
    OBVIOUS
  <2>2. /\ toClient' = [toClient EXCEPT ![c] =
                           IF c \in Pages THEN SubSeq(@, n + 2, Len(@)) ELSE <<>>]
        /\ Client!Throws(c) /\ leftover' = [leftover EXCEPT ![c] = c \in Pages]
        /\ UNCHANGED <<thread, toServer, wanted, received>>
    BY <1>11, <2>1 DEF Client!ReceiveFileFails
  <2>3. SubSeq(toClient[c], n + 2, Len(toClient[c])) \in Seq(Items)
    <3>1. toClient[c] # <<>> /\ IsHeader(Head(toClient[c]))
      BY <1>11, ClientItems DEF Client!ReceiveFileFails
    <3>2. PICK s \in Seq(Items) : s = toClient[c]
      OBVIOUS
    <3>3. SubSeq(s, n + 2, Len(s)) \in Seq(Items)
      BY <2>1, <3>1, <3>2, FileNext, Zenon
    <3> QED
      BY <3>2, <3>3
  <2>4. toClient' \in [Clients -> Seq(Items)]
    BY <1>1, <2>2, <2>3
  <2> QED
    BY <2>2, <2>4 DEF Client!Throws, Client!ClientTypeOK
<1> QED
  BY <1>4, <1>5, <1>6, <1>7, <1>8, <1>9, <1>10, <1>11 DEF ClientStep

LEMMA TypedNext == TypeOK /\ [Next]_vars => TypeOK'
<1> SUFFICES ASSUME TypeOK, [Next]_vars PROVE TypeOK'
  OBVIOUS
<1>1. ASSUME NEW c \in Clients, Connect(c) \/ ClientStep(c) PROVE TypeOK'
  BY <1>1, TypedClient
<1>2. ASSUME NEW c \in Clients, ServerStep(c) PROVE TypeOK'
  BY <1>2, TypedServer
<1>3. ASSUME Crash PROVE TypeOK'
  <2>1. <<>> \in Seq(Items) /\ <<>> \in Seq(Lines)
    BY SequenceFacts
  <2>2. Client!ClientTypeOK'
    BY <1>3 DEF Crash, clientVars, TypeOK, Client!ClientTypeOK
  <2>3. StreamsTyped' /\ ServerTypeOK'
    BY <1>3, <2>1 DEF Crash, TypeOK, StreamsTyped, ServerTypeOK
  <2> QED
    BY <2>2, <2>3 DEF TypeOK
<1>4. CASE UNCHANGED vars
  BY <1>4 DEF vars, streams, serverVars, clientVars, TypeOK, StreamsTyped, ServerTypeOK,
         Client!ClientTypeOK
<1> QED
  BY <1>1, <1>2, <1>3, <1>4 DEF Next

\* Every variable keeps its type, whatever the clients, the directories and
\* the faults: what the client takes off the stream leaves items behind.
THEOREM TypeCorrect == Spec => []TypeOK
BY TypedInit, TypedNext, PTL DEF Spec

-------------------------------------------------------------------------------
(***************************************************************************)
(* A stretch of a stream.                                                  *)
(***************************************************************************)
LEMMA SubSeqSplit ==
    ASSUME NEW s \in Seq(Items), NEW i \in Nat, NEW m \in Nat, i < m, m <= Len(s)
    PROVE  /\ SubSeq(s, i + 1, m) # <<>>
           /\ Head(SubSeq(s, i + 1, m)) = s[i + 1]
           /\ Tail(SubSeq(s, i + 1, m)) = SubSeq(s, (i + 1) + 1, m)
OBVIOUS

LEMMA SubSeqEmpty ==
    ASSUME NEW s \in Seq(Items), NEW i \in Nat
    PROVE  SubSeq(s, i + 1, i) = <<>>
OBVIOUS

LEMMA SubSeqAll ==
    ASSUME NEW s \in Seq(Items)
    PROVE  SubSeq(s, 0 + 1, Len(s)) = s
OBVIOUS

LEMMA SubSeqAppend ==
    ASSUME NEW s \in Seq(Items), NEW i \in Nat, NEW m \in Nat, i <= m, m < Len(s)
    PROVE  Append(SubSeq(s, i + 1, m), s[m + 1]) = SubSeq(s, i + 1, m + 1)
OBVIOUS

LEMMA SubSeqTwice ==
    ASSUME NEW s \in Seq(Items), NEW i \in Nat, NEW m \in Nat, i <= m, m <= Len(s),
           NEW n \in Nat, n <= m - i
    PROVE  SubSeq(SubSeq(s, i + 1, m), n + 1, m - i) = SubSeq(s, (i + n) + 1, m)
OBVIOUS

\* The files a client has once it took the first k.
FirstWhole(d, k) == {<<Listing[d][j], Size[Listing[d][j]]>> : j \in 1 .. k}

LEMMA FirstWholeFacts ==
    ASSUME NEW d \in Directories
    PROVE  /\ FirstWhole(d, 0) = {}
           /\ FirstWhole(d, Len(Listing[d])) = Whole(d)
           /\ \A k \in Nat :
                 FirstWhole(d, k + 1) =
                     FirstWhole(d, k) \cup {<<Listing[d][k + 1], Size[Listing[d][k + 1]]>>}
<1>1. FirstWhole(d, 0) = {}
  BY DEF FirstWhole
<1>2. FirstWhole(d, Len(Listing[d])) = Whole(d)
  <2>1. DOMAIN Listing[d] = 1 .. Len(Listing[d])
    BY ListingAssumption
  <2> QED
    BY <2>1, Zenon DEF FirstWhole, Whole
<1>3. ASSUME NEW k \in Nat
      PROVE  FirstWhole(d, k + 1) =
                 FirstWhole(d, k) \cup {<<Listing[d][k + 1], Size[Listing[d][k + 1]]>>}
  <2>1. 1 .. k + 1 = (1 .. k) \cup {k + 1}
    OBVIOUS
  <2> QED
    BY <2>1, Zenon DEF FirstWhole
<1> QED
  BY <1>1, <1>2, <1>3

\* What is left of a reply after its first r files, up to m.
Rest(d, r, m) == SubSeq(Reply(d), Offset(d, r) + 1, m)

\* The offsets as numbers, with the item each of them leads to.
LEMMA Landmarks ==
    ASSUME NEW d \in Directories, NEW r \in 0 .. Len(Listing[d])
    PROVE  /\ Offset(d, r) \in Nat /\ Len(Reply(d)) \in Nat
           /\ Offset(d, r) + 2 <= Len(Reply(d))
           /\ r = Len(Listing[d]) => IsText(Reply(d)[Offset(d, r) + 1])
                                     /\ ~IsHeader(Reply(d)[Offset(d, r) + 1])
           /\ r # Len(Listing[d]) =>
                 /\ r + 1 \in 1 .. Len(Listing[d])
                 /\ Listing[d][r + 1] \in Files
                 /\ Reply(d)[Offset(d, r) + 1] = Header(Listing[d][r + 1])
                 /\ Offset(d, r + 1) = Offset(d, r) + 1 + Size[Listing[d][r + 1]]
                 /\ Offset(d, r + 1) + 2 <= Len(Reply(d))
                 /\ \A j \in 1 .. Size[Listing[d][r + 1]] :
                       Reply(d)[Offset(d, r) + 1 + j] = Block(Listing[d][r + 1])
<1>1. PICK count \in Nat : count = Len(Listing[d])
  BY OffsetsAscend
<1>2. PICK end \in Nat : end = Offset(d, Len(Listing[d]))
  BY <1>1, OffsetsAscend
<1>3. PICK reply \in Seq(Items) : reply = Reply(d)
  BY ReplyItems
<1>4. /\ Len(reply) = end + 2 /\ reply[end + 1] = Done
      /\ \A i \in 1 .. count : Lies(d, i, reply)
  BY <1>1, <1>2, <1>3, ReplyLaidOut, Zenon
<1>5. Offset(d, r) \in Nat /\ Offset(d, r) <= end
  BY <1>1, <1>2, OffsetsAscend
<1>6. CASE r = count
  BY <1>1, <1>2, <1>3, <1>4, <1>5, <1>6, ItemKinds
<1>7. CASE r # count
  <2>1. r + 1 \in 1 .. count /\ r + 1 \in 0 .. count /\ (r + 1) - 1 = r
    BY <1>1, <1>7
  <2>2. Offset(d, r + 1) \in Nat /\ Offset(d, r + 1) <= end
    BY <1>1, <1>2, <2>1, OffsetsAscend
  <2>3. Listing[d][r + 1] \in Files
    BY <1>1, <2>1, ListingAssumption
  <2>4. Lies(d, r + 1, reply)
    BY <1>4, <2>1
  <2>5. /\ reply[Offset(d, r) + 1] = Header(Listing[d][r + 1])
        /\ Offset(d, r + 1) = Offset(d, r) + 1 + Size[Listing[d][r + 1]]
        /\ \A j \in 1 .. Size[Listing[d][r + 1]] :
              reply[Offset(d, r) + 1 + j] = Block(Listing[d][r + 1])
    BY <2>1, <2>4, Zenon DEF Lies
  <2> QED
    BY <1>1, <1>3, <1>4, <1>5, <1>7, <2>1, <2>2, <2>3, <2>5
<1> QED
  BY <1>6, <1>7

\* The client takes the next file from what is left: all of it if it is
\* there, and else every block there is, and then nothing is left.
LEMMA TakeFile ==
    ASSUME NEW d \in Directories, NEW r \in 0 .. Len(Listing[d]),
           NEW m \in Offset(d, r) .. Len(Reply(d)),
           NEW s \in Seq(Items), s = Rest(d, r, m), s # <<>>,
           NEW f \in Files, s[1] = Header(f),
           NEW n \in Nat, n <= Size[f], n + 1 <= Len(s),
           n < Size[f] => n + 1 = Len(s) \/ s[n + 2] # Block(f)
    PROVE  /\ r + 1 \in 1 .. Len(Listing[d]) /\ f = Listing[d][r + 1]
           /\ n = Size[f] => /\ Offset(d, r + 1) <= m
                             /\ SubSeq(s, n + 2, Len(s)) = Rest(d, r + 1, m)
           /\ n # Size[f] => /\ Offset(d, r) < m /\ m < Offset(d, r + 1)
                             /\ SubSeq(s, n + 2, Len(s)) = <<>>
<1>1. PICK reply \in Seq(Items), o \in Nat : reply = Reply(d) /\ o = Offset(d, r)
  BY ReplyItems, Landmarks
<1>2. PICK to \in Nat : to = m
  BY Landmarks
<1>3. o <= to /\ to <= Len(reply) /\ Len(reply) \in Nat
  BY <1>1, <1>2, Landmarks
<1>4. s = SubSeq(reply, o + 1, to)
  BY <1>1, <1>2, Zenon DEF Rest
<1>5. o < to
  BY <1>3, <1>4, SubSeqEmpty
<1>6. Len(s) = to - o /\ \A j \in 1 .. to - o : s[j] = reply[o + j]
  <2>1. /\ Len(SubSeq(reply, o + 1, to)) = to - o
        /\ \A j \in 1 .. to - o : SubSeq(reply, o + 1, to)[j] = reply[o + j]
    BY <1>3, SubSeqFacts
  <2> QED
    BY <1>4, <2>1, Zenon
<1>7. reply[o + 1] = Header(f)
  BY <1>5, <1>6
<1>8. r # Len(Listing[d])
  BY <1>1, <1>7, Landmarks, ItemKinds
<1>9. /\ r + 1 \in 1 .. Len(Listing[d])
      /\ Listing[d][r + 1] \in Files
      /\ reply[o + 1] = Header(Listing[d][r + 1])
      /\ Offset(d, r + 1) = o + 1 + Size[Listing[d][r + 1]]
      /\ \A j \in 1 .. Size[Listing[d][r + 1]] :
            reply[o + 1 + j] = Block(Listing[d][r + 1])
  BY <1>1, <1>8, Landmarks, Zenon
<1>10. f = Listing[d][r + 1]
  BY <1>7, <1>9, ItemKinds
<1>11. PICK size \in Nat : size = Size[f]
  BY ListingAssumption
<1>12. /\ Offset(d, r + 1) = o + 1 + size
       /\ \A j \in 1 .. size : reply[o + 1 + j] = Block(f)
  BY <1>9, <1>10, <1>11, Zenon
<1>13. SubSeq(s, n + 2, Len(s)) = SubSeq(reply, (o + (n + 1)) + 1, to)
  <2>1. n + 1 \in Nat /\ n + 1 <= to - o /\ n + 2 = (n + 1) + 1
    BY <1>6
  <2>2. SubSeq(SubSeq(reply, o + 1, to), (n + 1) + 1, to - o) = SubSeq(reply, (o + (n + 1)) + 1, to)
    BY <1>3, <2>1, SubSeqTwice
  <2> QED
    BY <1>4, <1>6, <2>1, <2>2, Zenon
<1>14. ASSUME n = size
       PROVE  Offset(d, r + 1) <= to /\ SubSeq(s, n + 2, Len(s)) = Rest(d, r + 1, to)
  <2>1. o + (n + 1) = o + 1 + size /\ o + 1 + size <= to
    BY <1>5, <1>6, <1>14
  <2> QED
    BY <1>1, <1>12, <1>13, <2>1, Zenon DEF Rest
<1>15. ASSUME n # size
       PROVE  to < Offset(d, r + 1) /\ SubSeq(s, n + 2, Len(s)) = <<>>
  <2>1. n < size /\ n + 1 \in 1 .. size
    BY <1>11, <1>15
  <2>2. n + 1 = to - o
    <3> SUFFICES ASSUME n + 2 <= to - o PROVE FALSE
      BY <1>5, <1>6
    <3>1. n + 2 \in 1 .. to - o /\ o + 1 + (n + 1) = o + (n + 2) /\ n + 1 # to - o
      BY <1>5
    <3>2. s[n + 2] = reply[o + (n + 2)]
      BY <1>6, <3>1, Zenon
    <3>3. reply[o + 1 + (n + 1)] = Block(f)
      BY <1>12, <2>1, Zenon
    <3> QED
      BY <1>6, <1>11, <2>1, <3>1, <3>2, <3>3, Zenon
  <2>3. o + (n + 1) = to /\ to < o + 1 + size
    BY <1>5, <2>1, <2>2
  <2>4. SubSeq(reply, to + 1, to) = <<>>
    BY SubSeqEmpty
  <2> QED
    BY <1>12, <1>13, <2>3, <2>4, Zenon
<1> QED
  BY <1>1, <1>2, <1>5, <1>9, <1>10, <1>11, <1>14, <1>15

-------------------------------------------------------------------------------
(***************************************************************************)
(* The inductive invariant.  While a get is answered, the files the client *)
(* wrote, the stream and what the thread has still to write make up the    *)
(* reply; what may be missing at the end of it is told by cut.             *)
(***************************************************************************)

\* The client wrote its first r files, and the server the first m items.
Reached(c, r, m) ==
    /\ wanted[c] \in Directories
    /\ r \in 0 .. Len(Listing[wanted[c]])
    /\ m \in Offset(wanted[c], r) .. Len(Reply(wanted[c]))
    /\ toClient[c] = Rest(wanted[c], r, m)
    /\ received[c] = FirstWhole(wanted[c], r)

Waits(c) ==
    /\ link[c] = "open" /\ thread[c] = "reading"
    /\ toServer[c] = <<Get(wanted[c])>> /\ toClient[c] = <<>> /\ received[c] = {}

Refused(c) ==
    /\ link[c] = "open" /\ thread[c] = "reading"
    /\ toServer[c] = <<>> /\ toClient[c] = <<Error>> /\ received[c] = {}

Serving(c) ==
    /\ link[c] = "open" /\ thread[c] = "sending"
    /\ \E r \in Nat, m \in Nat :
          /\ Reached(c, r, m)
          /\ pending[c] = SubSeq(Reply(wanted[c]), m + 1, Len(Reply(wanted[c])))

\* All of the reply was written, unless the server died or stopped in front
\* of a file that it could not read.
Complete(c, r, m) ==
    /\ Reached(c, r, m)
    /\ cut[c] = "no" => m = Len(Reply(wanted[c]))
    /\ cut[c] = "unreadable" =>
          \E k \in r .. Len(Listing[wanted[c]]) : m = Offset(wanted[c], k)

Over(c) ==
    /\ link[c] = "ended"
    /\ \/ toClient[c] = <<>> /\ (c \in Pages \/ cut[c] = "crash")
       \/ toClient[c] = <<Error>> /\ cut[c] = "crash"
       \/ \E r \in Nat, m \in Nat : Complete(c, r, m)

Receiving(c) == Waits(c) \/ Refused(c) \/ Serving(c) \/ Over(c) \/ link[c] = "reset"

Linked(c) ==
    /\ connected[c] <=> link[c] # "none"
    /\ link[c] = "open" => thread[c] # "none"
    /\ link[c] \in {"ended", "reset"} => thread[c] = "none"
    /\ link[c] \in {"none", "reset"} => toClient[c] = <<>>
    /\ thread[c] = "none" => toServer[c] = <<>> /\ pending[c] = <<>>
    /\ thread[c] = "reading" => pending[c] = <<>>
    /\ thread[c] # "none" => cut[c] = "no"

Phase(c) ==
    /\ step[c] = "connect" =>
          /\ link[c] # "open" /\ toClient[c] = <<>>
          /\ link[c] # "none" => c \in Pages
    /\ step[c] = "get" =>
          /\ toClient[c] = <<>> /\ received[c] = {} /\ outcome[c] = "none"
          /\ link[c] = "open" => thread[c] = "reading" /\ toServer[c] = <<>>
          /\ link[c] = "ended" => c \in Pages \/ cut[c] = "crash"
    /\ step[c] = "receive" => Receiving(c) /\ outcome[c] = "none"
    /\ step[c] = "disconnect" => c \notin Pages

FilesWhole(c) ==
    \A file \in received[c] :
        /\ wanted[c] \in Directories
        /\ \E k \in DOMAIN Listing[wanted[c]] : Listing[wanted[c]][k] = file[1]
        /\ file[2] = Size[file[1]] \/ cut[c] = "crash"

ReturnWhole(c) ==
    c \notin Pages /\ connected[c] /\ outcome[c] = "returned" /\ cut[c] = "no"
        => wanted[c] \in Directories /\ received[c] = Whole(wanted[c])

Kept(c) == Linked(c) /\ Phase(c) /\ FilesWhole(c) /\ ReturnWhole(c)

\* Every file that begins in s is there as a whole.
Framed(s) ==
    \A q \in 1 .. Len(s), f \in Files :
        s[q] = Header(f) =>
            q + Size[f] <= Len(s) /\ \A j \in 1 .. Size[f] : s[q + j] = Block(f)

Sound(c) == cut[c] # "crash" => Framed(toClient[c] \o pending[c])

WholeSoFar(c) == cut[c] # "crash" => \A file \in received[c] : file[2] = Size[file[1]]

Base(c) == Linked(c) /\ (leftover[c] => c \in Pages) /\ Sound(c) /\ WholeSoFar(c)

\* Of a page that gave up an answer the phases say nothing.
IInv == TypeOK /\ \A c \in Clients : Base(c) /\ (~leftover[c] => Kept(c))

LEMMA InvInit == Init => IInv
<1> SUFFICES ASSUME Init PROVE IInv
  OBVIOUS
<1>1. TypeOK
  BY TypedInit
<1>2. ASSUME NEW c \in Clients PROVE Kept(c)
  BY DEF Init, StreamsInit, ServerInit, Client!ClientInit, Kept, Linked, Phase,
         FilesWhole, ReturnWhole
<1>3. ASSUME NEW c \in Clients PROVE Base(c)
  <2>1. toClient[c] = <<>> /\ pending[c] = <<>> /\ received[c] = {} /\ ~leftover[c]
    BY DEF Init, StreamsInit, ServerInit, Client!ClientInit
  <2>2. <<>> \o <<>> = <<>> /\ Len(<<>>) = 0
    OBVIOUS
  <2>3. Sound(c)
    BY <2>1, <2>2 DEF Sound, Framed
  <2> QED
    BY <1>2, <2>1, <2>3 DEF Base, WholeSoFar, Kept
<1> QED
  BY <1>1, <1>2, <1>3 DEF IInv

ServerSameAt(i) ==
    /\ link'[i] = link[i] /\ thread'[i] = thread[i]
    /\ toServer'[i] = toServer[i] /\ toClient'[i] = toClient[i]
    /\ pending'[i] = pending[i] /\ cut'[i] = cut[i]

ClientSameAt(i) ==
    /\ connected'[i] = connected[i] /\ step'[i] = step[i] /\ wanted'[i] = wanted[i]
    /\ outcome'[i] = outcome[i] /\ received'[i] = received[i] /\ leftover'[i] = leftover[i]

LEMMA ReachedSame ==
    ASSUME NEW c \in Clients, NEW r, NEW m, Reached(c, r, m),
           toClient'[c] = toClient[c], wanted'[c] = wanted[c], received'[c] = received[c]
    PROVE  Reached(c, r, m)'
BY Zenon DEF Reached

LEMMA KeptSame ==
    ASSUME NEW c \in Clients, Kept(c), ServerSameAt(c), ClientSameAt(c)
    PROVE  Kept(c)'
<1> USE DEF ServerSameAt, ClientSameAt
<1>1. Linked(c)'
  BY Zenon DEF Kept, Linked
<1>2. FilesWhole(c)' /\ ReturnWhole(c)'
  BY Zenon DEF Kept, FilesWhole, ReturnWhole
<1>3. Receiving(c) => Receiving(c)'
  <2>1. Waits(c) => Waits(c)'
    BY Zenon DEF Waits
  <2>2. Refused(c) => Refused(c)'
    BY Zenon DEF Refused
  <2>3. Serving(c) => Serving(c)'
    BY ReachedSame, Zenon DEF Serving
  <2>4. Over(c) => Over(c)'
    <3>1. ASSUME NEW r \in Nat, NEW m \in Nat, Complete(c, r, m)
          PROVE  Complete(c, r, m)'
      BY <3>1, ReachedSame, Zenon DEF Complete
    <3> QED
      BY <3>1, Zenon DEF Over
  <2> QED
    BY <2>1, <2>2, <2>3, <2>4, Zenon DEF Receiving
<1>4. Phase(c)'
  BY <1>3, Zenon DEF Kept, Phase
<1> QED
  BY <1>1, <1>2, <1>4 DEF Kept

\* A step of one client or of its thread leaves the others alone.
LEMMA ServerElsewhere ==
    ASSUME TypeOK, NEW c \in Clients, ServerStep(c), NEW i \in Clients, i # c
    PROVE  ServerSameAt(i) /\ ClientSameAt(i)
<1> USE DEF TypeOK, StreamsTyped, ServerTypeOK, ServerSameAt
<1>1. ClientSameAt(i)
  BY DEF ServerStep, clientVars, ClientSameAt
<1>2. CASE HandleGet(c) \/ HandleGetAbsent(c) \/ Write(c)
  BY <1>1, <1>2 DEF HandleGet, HandleGetAbsent, Write
<1>3. ASSUME NEW words, Finish(c, words), cut'[i] = cut[i] PROVE ServerSameAt(i)
  BY <1>3 DEF Finish
<1>4. CASE HandleExit(c) \/ HandleInvalid(c) \/ Sent(c) \/ EndOfStream(c)
  BY <1>1, <1>3, <1>4 DEF HandleExit, HandleInvalid, Sent, EndOfStream
<1>5. CASE Unreadable(c)
  BY <1>1, <1>3, <1>5 DEF Unreadable
<1> QED
  BY <1>2, <1>4, <1>5 DEF ServerStep, Serve

LEMMA ClientElsewhere ==
    ASSUME TypeOK, NEW c \in Clients, Connect(c) \/ ClientStep(c), NEW i \in Clients, i # c
    PROVE  ServerSameAt(i) /\ ClientSameAt(i)
<1> USE DEF TypeOK, StreamsTyped, ServerTypeOK, Client!ClientTypeOK, ServerSameAt, ClientSameAt
<1>1. CASE Connect(c)
  BY <1>1 DEF Connect, Client!ConnectSucceeds, Client!ConnectDoesNothing, Client!Begins,
         Client!streams, serverVars
<1>2. ASSUME UNCHANGED serverVars PROVE pending'[i] = pending[i] /\ cut'[i] = cut[i]
  BY <1>2 DEF serverVars
<1>3. ASSUME NEW d, Client!GetDirectory(c, d), UNCHANGED serverVars
      PROVE  ServerSameAt(i) /\ ClientSameAt(i)
  BY <1>2, <1>3 DEF Client!GetDirectory, Client!Returns, Client!Throws, Client!Send
<1>4. ASSUME Client!SendInvalidMessage(c), UNCHANGED serverVars
      PROVE  ServerSameAt(i) /\ ClientSameAt(i)
  BY <1>2, <1>4 DEF Client!SendInvalidMessage, Client!Send
<1>5. ASSUME Client!ReceiveFile(c), UNCHANGED serverVars
      PROVE  ServerSameAt(i) /\ ClientSameAt(i)
  BY <1>2, <1>5 DEF Client!ReceiveFile
<1>6. ASSUME Client!ReceiveEnd(c) \/ Client!ReceiveReset(c), UNCHANGED serverVars
      PROVE  ServerSameAt(i) /\ ClientSameAt(i)
  BY <1>2, <1>6 DEF Client!ReceiveEnd, Client!ReceiveReset, Client!Returns, Client!Throws
<1>7. ASSUME Client!Disconnect(c) \/ Client!Kill(c), UNCHANGED serverVars
      PROVE  ServerSameAt(i) /\ ClientSameAt(i)
  BY <1>2, <1>7 DEF Client!Disconnect, Client!Kill, Client!Begins, Client!Send
<1>8. ASSUME Client!ReceiveFileFails(c), UNCHANGED serverVars
      PROVE  ServerSameAt(i) /\ ClientSameAt(i)
  BY <1>2, <1>8 DEF Client!ReceiveFileFails, Client!Throws
<1> QED
  BY <1>1, <1>3, <1>4, <1>5, <1>6, <1>7, <1>8 DEF ClientStep, Client!Receive

\* Nothing the client keeps changes in a step of its thread, and cut only
\* tells of an end that was not there before.
LEMMA KeptFiles ==
    ASSUME NEW c \in Clients, FilesWhole(c), ReturnWhole(c), ClientSameAt(c),
           cut'[c] # cut[c] => cut[c] = "no" /\ cut'[c] \in {"crash", "unreadable"}
    PROVE  FilesWhole(c)' /\ ReturnWhole(c)'
<1>1. FilesWhole(c)'
  BY DEF FilesWhole, ClientSameAt
<1>2. ReturnWhole(c)'
  BY DEF ReturnWhole, ClientSameAt
<1> QED
  BY <1>1, <1>2

\* What Finish leaves of the connection.
LEMMA FinishAt ==
    ASSUME TypeOK, NEW c \in Clients, NEW words, Finish(c, words)
    PROVE  /\ thread'[c] = "none" /\ pending'[c] = <<>> /\ toServer'[c] = <<>>
           /\ link[c] = "none" => link'[c] = "none" /\ toClient'[c] = toClient[c]
           /\ link[c] # "none" =>
                 \/ link'[c] = "ended" /\ toClient'[c] = toClient[c] \o words
                 \/ link'[c] = "reset" /\ toClient'[c] = <<>>
BY DEF Finish, TypeOK, StreamsTyped, ServerTypeOK

\* A thread that reads has not begun to answer.
LEMMA ReadingPhase ==
    ASSUME TypeOK, NEW c \in Clients, Kept(c), thread[c] = "reading", toServer[c] # <<>>
    PROVE  /\ step[c] = "connect" => link[c] = "none"
           /\ step[c] = "get" => link[c] # "open"
           /\ step[c] = "receive" => Waits(c)
<1>1. Linked(c) /\ Phase(c)
  BY DEF Kept
<1>2. step[c] = "receive" => Waits(c)
  BY <1>1 DEF Linked, Phase, Receiving, Waits, Refused, Serving, Over
<1> QED
  BY <1>1, <1>2 DEF Linked, Phase, TypeOK, StreamsTyped

LEMMA NothingWritten ==
    ASSUME NEW d \in Directories
    PROVE  /\ Offset(d, 0) = 0 /\ Rest(d, 0, 0) = <<>> /\ FirstWhole(d, 0) = {}
           /\ SubSeq(Reply(d), 0 + 1, Len(Reply(d))) = Reply(d)
           /\ 0 \in 0 .. Len(Listing[d]) /\ 0 \in 0 .. Len(Reply(d))
<1>1. PICK reply \in Seq(Items) : reply = Reply(d)
  BY ReplyItems
<1>2. Offset(d, 0) = 0 /\ Len(Listing[d]) \in Nat
  BY OffsetsAscend
<1>3. /\ SubSeq(reply, 0 + 1, 0) = <<>> /\ SubSeq(reply, 0 + 1, Len(reply)) = reply
      /\ Len(reply) \in Nat
  BY SubSeqEmpty, SubSeqAll, SequenceFacts
<1> QED
  BY <1>1, <1>2, <1>3, FirstWholeFacts DEF Rest

LEMMA HandleGetKeeps ==
    ASSUME TypeOK, NEW c \in Clients, Kept(c), HandleGet(c), ClientSameAt(c)
    PROVE  Kept(c)'
<1>1. PICK d \in Directories : Reads(c, Get(d)) /\ pending' = [pending EXCEPT ![c] = Reply(d)]
  BY DEF HandleGet, Reply
<1>2. /\ thread'[c] = "sending" /\ pending'[c] = Reply(d)
      /\ link'[c] = link[c] /\ toClient'[c] = toClient[c] /\ cut'[c] = cut[c]
  <2>1. thread' = [thread EXCEPT ![c] = "sending"] /\ UNCHANGED <<link, toClient, cut>>
    BY DEF HandleGet
  <2> QED
    BY <1>1, <2>1 DEF TypeOK, StreamsTyped, ServerTypeOK
<1>3. thread[c] = "reading" /\ toServer[c] # <<>> /\ Head(toServer[c]) = Get(d)
  BY <1>1 DEF Reads
<1>4. /\ step[c] = "connect" => link[c] = "none"
      /\ step[c] = "get" => link[c] # "open"
      /\ step[c] = "receive" => Waits(c)
  BY <1>3, ReadingPhase
<1>5. Linked(c) /\ Phase(c) /\ FilesWhole(c) /\ ReturnWhole(c)
  BY DEF Kept
<1>6. Linked(c)'
  BY <1>2, <1>3, <1>5 DEF Linked, ClientSameAt
<1>7. Waits(c) => Serving(c)'
  <2> SUFFICES ASSUME Waits(c) PROVE Serving(c)'
    OBVIOUS
  <2>1. /\ wanted[c] = d /\ wanted'[c] = d
        /\ received'[c] = {} /\ toClient'[c] = <<>> /\ link'[c] = "open"
    BY <1>2, <1>3 DEF Waits, Get, ClientSameAt
  <2>2. Reached(c, 0, 0)'
    BY <2>1, NothingWritten DEF Reached
  <2>3. pending'[c] = SubSeq(Reply(wanted'[c]), 0 + 1, Len(Reply(wanted'[c])))
    BY <1>2, <2>1, NothingWritten
  <2> QED
    BY <1>2, <2>1, <2>2, <2>3, Zenon DEF Serving
<1>8. Phase(c)'
  BY <1>2, <1>4, <1>5, <1>7 DEF Phase, ClientSameAt, Receiving
<1> QED
  BY <1>2, <1>5, <1>6, <1>8, KeptFiles DEF Kept

LEMMA HandleGetAbsentKeeps ==
    ASSUME TypeOK, NEW c \in Clients, Kept(c), HandleGetAbsent(c), ClientSameAt(c)
    PROVE  Kept(c)'
<1>1. PICK d \in Absent : Reads(c, Get(d))
  BY DEF HandleGetAbsent
<1>2. thread[c] = "reading" /\ toServer[c] # <<>>
  BY <1>1 DEF Reads
<1>3. /\ step[c] = "connect" => link[c] = "none"
      /\ step[c] = "get" => link[c] # "open"
      /\ step[c] = "receive" => Waits(c)
  BY <1>2, ReadingPhase
<1>4. /\ toServer'[c] = Tail(toServer[c])
      /\ toClient'[c] = IF link[c] = "none" THEN toClient[c] ELSE Append(toClient[c], Error)
      /\ link'[c] = link[c] /\ thread'[c] = thread[c]
      /\ pending'[c] = pending[c] /\ cut'[c] = cut[c]
  BY DEF HandleGetAbsent, TypeOK, StreamsTyped
<1>5. Linked(c) /\ Phase(c) /\ FilesWhole(c) /\ ReturnWhole(c)
  BY DEF Kept
<1>6. Linked(c)'
  BY <1>2, <1>4, <1>5 DEF Linked, ClientSameAt
<1>7. Waits(c) => Refused(c)'
  <2>1. Tail(<<Get(wanted[c])>>) = <<>> /\ Append(<<>>, Error) = <<Error>>
    OBVIOUS
  <2> QED
    BY <1>4, <2>1 DEF Waits, Refused, ClientSameAt
<1>8. step[c] = "get" => link[c] = "none"
  BY <1>2, <1>3, <1>5 DEF Linked, TypeOK, StreamsTyped
<1>9. Phase(c)'
  BY <1>3, <1>4, <1>5, <1>7, <1>8, Zenon DEF Phase, ClientSameAt, Receiving
<1> QED
  BY <1>4, <1>5, <1>6, <1>9, KeptFiles DEF Kept

\* The thread ends without an answer that anyone waits for.
LEMMA FinishKeeps ==
    ASSUME TypeOK, NEW c \in Clients, NEW words, Kept(c), Finish(c, words), ClientSameAt(c),
           thread[c] # "none", cut'[c] = cut[c],
           step[c] # "receive", step[c] \in {"connect", "get"} => link[c] = "none"
    PROVE  Kept(c)'
<1>1. /\ thread'[c] = "none" /\ pending'[c] = <<>> /\ toServer'[c] = <<>>
      /\ link[c] = "none" => link'[c] = "none" /\ toClient'[c] = toClient[c]
      /\ link[c] # "none" =>
            \/ link'[c] = "ended" /\ toClient'[c] = toClient[c] \o words
            \/ link'[c] = "reset" /\ toClient'[c] = <<>>
  BY FinishAt
<1>2. Linked(c) /\ Phase(c) /\ FilesWhole(c) /\ ReturnWhole(c)
  BY DEF Kept
<1>3. Linked(c)'
  BY <1>1, <1>2 DEF Linked, ClientSameAt
<1>4. Phase(c)'
  BY <1>1, <1>2 DEF Phase, ClientSameAt
<1> QED
  BY <1>2, <1>3, <1>4, KeptFiles DEF Kept

LEMMA EndingsKeep ==
    ASSUME TypeOK, NEW c \in Clients, Kept(c), ClientSameAt(c),
           HandleExit(c) \/ HandleInvalid(c) \/ EndOfStream(c)
    PROVE  Kept(c)'
<1>1. ASSUME NEW line, Reads(c, line), \A d : line # Get(d)
      PROVE  /\ thread[c] # "none" /\ step[c] # "receive"
             /\ step[c] \in {"connect", "get"} => link[c] = "none"
  <2>1. thread[c] = "reading" /\ toServer[c] # <<>> /\ Head(toServer[c]) = line
    BY <1>1 DEF Reads
  <2>2. /\ step[c] = "connect" => link[c] = "none"
        /\ step[c] = "get" => link[c] # "open"
        /\ step[c] = "receive" => Waits(c)
    BY <2>1, ReadingPhase
  <2>3. ~Waits(c)
    BY <1>1, <2>1 DEF Waits
  <2> QED
    BY <2>1, <2>2, <2>3 DEF Kept, Linked, TypeOK, StreamsTyped
<1>2. \A d : Exit # Get(d) /\ BadCommand # Get(d)
  BY DEF Exit, BadCommand, Get
<1>3. CASE HandleExit(c)
  BY <1>1, <1>2, <1>3, FinishKeeps DEF HandleExit
<1>4. CASE HandleInvalid(c)
  BY <1>1, <1>2, <1>4, FinishKeeps DEF HandleInvalid
<1>5. CASE EndOfStream(c)
  <2>1. step[c] # "receive" /\ link[c] = "none" /\ thread[c] # "none"
    BY <1>5 DEF EndOfStream, Kept, Phase, Receiving, Waits, Refused, Serving, Over
  <2> QED
    BY <1>5, <2>1, FinishKeeps DEF EndOfStream
<1> QED
  BY <1>3, <1>4, <1>5

\* How far the server is: what was written ends where the pending begins.
LEMMA ReachedBounds ==
    ASSUME NEW c \in Clients, NEW r, NEW m, Reached(c, r, m)
    PROVE  /\ r \in Nat /\ m \in Nat /\ Len(Listing[wanted[c]]) \in Nat
           /\ Offset(wanted[c], r) \in Nat
           /\ Offset(wanted[c], r) <= m /\ m <= Len(Reply(wanted[c]))
           /\ Len(Reply(wanted[c])) \in Nat /\ Reply(wanted[c]) \in Seq(Items)
<1>1. wanted[c] \in Directories /\ r \in 0 .. Len(Listing[wanted[c]])
      /\ m \in Offset(wanted[c], r) .. Len(Reply(wanted[c]))
  BY DEF Reached
<1>2. Offset(wanted[c], r) \in Nat /\ Len(Reply(wanted[c])) \in Nat
  BY <1>1, Landmarks
<1>3. Reply(wanted[c]) \in Seq(Items)
  BY <1>1, ReplyItems
<1>4. Len(Listing[wanted[c]]) \in Nat
  BY <1>1, OffsetsAscend
<1> QED
  BY <1>1, <1>2, <1>3, <1>4

LEMMA PendingNext ==
    ASSUME NEW d \in Directories, NEW m \in Nat, m <= Len(Reply(d))
    PROVE  /\ m = Len(Reply(d)) => SubSeq(Reply(d), m + 1, Len(Reply(d))) = <<>>
           /\ m # Len(Reply(d)) =>
                 /\ m < Len(Reply(d))
                 /\ SubSeq(Reply(d), m + 1, Len(Reply(d))) # <<>>
                 /\ Head(SubSeq(Reply(d), m + 1, Len(Reply(d)))) = Reply(d)[m + 1]
                 /\ Tail(SubSeq(Reply(d), m + 1, Len(Reply(d)))) =
                        SubSeq(Reply(d), (m + 1) + 1, Len(Reply(d)))
<1>1. PICK reply \in Seq(Items) : reply = Reply(d)
  BY ReplyItems
<1>2. PICK size \in Nat : size = Len(reply)
  BY SequenceFacts
<1>3. ASSUME m = size PROVE SubSeq(reply, m + 1, size) = <<>>
  BY <1>3, SubSeqEmpty
<1>4. ASSUME m < size
      PROVE  /\ SubSeq(reply, m + 1, size) # <<>>
             /\ Head(SubSeq(reply, m + 1, size)) = reply[m + 1]
             /\ Tail(SubSeq(reply, m + 1, size)) = SubSeq(reply, (m + 1) + 1, size)
  <2>1. size <= Len(reply)
    BY <1>2
  <2> QED
    BY <1>4, <2>1, SubSeqSplit, Zenon
<1>5. m < size \/ m = size
  BY <1>1, <1>2
<1>6. m = size => ~(m < size)
  BY <1>2
<1> QED
  BY <1>1, <1>2, <1>3, <1>4, <1>5, <1>6, Zenon

\* The client has taken what lies before the next item of the server.
LEMMA RestMore ==
    ASSUME NEW d \in Directories, NEW r \in 0 .. Len(Listing[d]),
           NEW m \in Offset(d, r) .. Len(Reply(d)), m < Len(Reply(d))
    PROVE  Append(Rest(d, r, m), Reply(d)[m + 1]) = Rest(d, r, m + 1)
<1>1. PICK reply \in Seq(Items), o \in Nat : reply = Reply(d) /\ o = Offset(d, r)
  BY ReplyItems, Landmarks
<1>2. Len(reply) \in Nat
  BY SequenceFacts
<1>3. PICK to \in Nat : to = m
  BY <1>1, <1>2
<1>4. o <= to /\ to < Len(reply)
  BY <1>1, <1>2, <1>3
<1>5. Append(SubSeq(reply, o + 1, to), reply[to + 1]) = SubSeq(reply, o + 1, to + 1)
  BY <1>4, SubSeqAppend
<1> QED
  BY <1>1, <1>3, <1>5, Zenon DEF Rest

LEMMA SendingPhase ==
    ASSUME NEW c \in Clients, Kept(c), thread[c] = "sending"
    PROVE  /\ step[c] = "connect" \/ step[c] = "get" => link[c] # "open"
           /\ step[c] = "receive" => Serving(c)
           /\ cut[c] = "no"
BY DEF Kept, Linked, Phase, Receiving, Waits, Refused, Over

LEMMA WriteKeeps ==
    ASSUME TypeOK, NEW c \in Clients, Kept(c), Write(c), ClientSameAt(c)
    PROVE  Kept(c)'
<1>1. thread[c] = "sending" /\ pending[c] # <<>> /\ link[c] = "open"
  BY DEF Write
<1>2. /\ toClient'[c] = Append(toClient[c], Head(pending[c]))
      /\ pending'[c] = Tail(pending[c])
      /\ link'[c] = link[c] /\ thread'[c] = thread[c]
      /\ toServer'[c] = toServer[c] /\ cut'[c] = cut[c]
  BY DEF Write, TypeOK, StreamsTyped, ServerTypeOK
<1>3. Linked(c) /\ Phase(c) /\ FilesWhole(c) /\ ReturnWhole(c)
  BY DEF Kept
<1>4. Linked(c)'
  BY <1>1, <1>2, <1>3 DEF Linked, ClientSameAt
<1>5. /\ step[c] # "connect" /\ step[c] # "get"
      /\ step[c] = "receive" => Serving(c)
  BY <1>1, SendingPhase
<1>6. Serving(c) => Serving(c)'
  <2> SUFFICES ASSUME Serving(c) PROVE Serving(c)'
    OBVIOUS
  <2>1. PICK r \in Nat, m \in Nat :
            /\ Reached(c, r, m)
            /\ pending[c] = SubSeq(Reply(wanted[c]), m + 1, Len(Reply(wanted[c])))
    BY DEF Serving
  <2>2. PICK d \in Directories : d = wanted[c]
    BY <2>1 DEF Reached
  <2>3. wanted'[c] = d /\ received'[c] = received[c]
    BY <2>2 DEF ClientSameAt
  <2>4. /\ r \in 0 .. Len(Listing[d]) /\ m \in Offset(d, r) .. Len(Reply(d))
        /\ Offset(d, r) \in Nat /\ Offset(d, r) <= m /\ m <= Len(Reply(d)) /\ Len(Reply(d)) \in Nat
        /\ toClient[c] = Rest(d, r, m) /\ received[c] = FirstWhole(d, r)
    BY <2>1, <2>2, ReachedBounds DEF Reached
  <2>5. /\ m < Len(Reply(d)) /\ Head(pending[c]) = Reply(d)[m + 1]
        /\ Tail(pending[c]) = SubSeq(Reply(d), (m + 1) + 1, Len(Reply(d)))
    BY <1>1, <2>1, <2>2, <2>4, PendingNext, Zenon
  <2>6. toClient'[c] = Rest(d, r, m + 1)
    BY <1>2, <2>4, <2>5, RestMore, Zenon
  <2>7. PICK n \in Nat : n = m + 1
    OBVIOUS
  <2>8. n \in Offset(d, r) .. Len(Reply(d))
    BY <2>4, <2>5, <2>7
  <2>9. Reached(c, r, n)'
    BY <2>3, <2>4, <2>6, <2>7, <2>8, Zenon DEF Reached
  <2>10. pending'[c] = SubSeq(Reply(wanted'[c]), n + 1, Len(Reply(wanted'[c])))
    BY <1>2, <2>3, <2>5, <2>7, Zenon
  <2> QED
    BY <1>1, <1>2, <2>9, <2>10, Zenon DEF Serving
<1>7. Phase(c)'
  BY <1>3, <1>5, <1>6, Zenon DEF Phase, ClientSameAt, Receiving
<1> QED
  BY <1>2, <1>3, <1>4, <1>7, KeptFiles DEF Kept

\* The thread ends the connection of a client that it was answering.
LEMMA EndOfSending ==
    ASSUME TypeOK, NEW c \in Clients, Kept(c), Finish(c, <<>>), ClientSameAt(c),
           thread[c] = "sending", cut'[c] \in {"no", "unreadable"},
           \A r \in Nat, m \in Nat :
               /\ Reached(c, r, m)
               /\ pending[c] = SubSeq(Reply(wanted[c]), m + 1, Len(Reply(wanted[c])))
               => /\ cut'[c] = "no" => m = Len(Reply(wanted[c]))
                  /\ cut'[c] = "unreadable" =>
                        \E k \in r .. Len(Listing[wanted[c]]) : m = Offset(wanted[c], k)
    PROVE  Kept(c)'
<1>1. /\ thread'[c] = "none" /\ pending'[c] = <<>> /\ toServer'[c] = <<>>
      /\ link[c] = "none" => link'[c] = "none" /\ toClient'[c] = toClient[c]
      /\ link[c] # "none" => \/ link'[c] = "ended" /\ toClient'[c] = toClient[c]
                             \/ link'[c] = "reset" /\ toClient'[c] = <<>>
  <2>1. toClient[c] \o <<>> = toClient[c]
    BY DEF TypeOK, StreamsTyped
  <2> QED
    BY <2>1, FinishAt
<1>2. Linked(c) /\ Phase(c) /\ FilesWhole(c) /\ ReturnWhole(c)
  BY DEF Kept
<1>3. Linked(c)'
  BY <1>1, <1>2 DEF Linked, ClientSameAt
<1>4. /\ step[c] = "connect" \/ step[c] = "get" => link[c] # "open"
      /\ step[c] = "receive" => Serving(c)
      /\ cut[c] = "no"
  BY SendingPhase
<1>5. Serving(c) => Over(c)' \/ link'[c] = "reset"
  <2> SUFFICES ASSUME Serving(c), link'[c] # "reset" PROVE Over(c)'
    OBVIOUS
  <2>1. PICK r \in Nat, m \in Nat :
            /\ Reached(c, r, m)
            /\ pending[c] = SubSeq(Reply(wanted[c]), m + 1, Len(Reply(wanted[c])))
    BY DEF Serving
  <2>2. link[c] = "open"
    BY DEF Serving
  <2>3. Reached(c, r, m)'
    BY <1>1, <2>1, <2>2, ReachedSame DEF ClientSameAt
  <2>4. wanted'[c] = wanted[c]
    BY DEF ClientSameAt
  <2>5. /\ cut'[c] = "no" => m = Len(Reply(wanted'[c]))
        /\ cut'[c] = "unreadable" =>
              \E k \in r .. Len(Listing[wanted'[c]]) : m = Offset(wanted'[c], k)
    BY <2>1, <2>4, Zenon
  <2>6. Complete(c, r, m)'
    BY <2>3, <2>5, Zenon DEF Complete
  <2> QED
    BY <1>1, <2>2, <2>6, Zenon DEF Over
<1>6. step[c] = "connect" \/ step[c] = "get" => link[c] = "none"
  BY <1>2, <1>4 DEF Linked, TypeOK, StreamsTyped
<1>7. Phase(c)'
  <2>1. step[c] \in {"connect", "get"} => link'[c] = "none" /\ toClient'[c] = toClient[c]
    BY <1>1, <1>6
  <2> QED
    BY <1>2, <1>4, <1>5, <2>1 DEF Phase, ClientSameAt, Receiving
<1> QED
  BY <1>2, <1>3, <1>4, <1>7, KeptFiles DEF Kept

LEMMA SentKeeps ==
    ASSUME TypeOK, NEW c \in Clients, Kept(c), Sent(c), ClientSameAt(c)
    PROVE  Kept(c)'
<1>1. thread[c] = "sending" /\ pending[c] = <<>> /\ Finish(c, <<>>) /\ cut'[c] = cut[c]
  BY DEF Sent
<1>2. cut'[c] = "no"
  BY <1>1, SendingPhase
<1>3. ASSUME NEW r \in Nat, NEW m \in Nat, Reached(c, r, m),
             pending[c] = SubSeq(Reply(wanted[c]), m + 1, Len(Reply(wanted[c])))
      PROVE  m = Len(Reply(wanted[c]))
  BY <1>1, <1>3, ReachedBounds, PendingNext DEF Reached
<1> QED
  BY <1>1, <1>2, <1>3, EndOfSending

\* A file begins only where those before it end.
LEMMA HeaderAtOffset ==
    ASSUME NEW d \in Directories, NEW r \in 0 .. Len(Listing[d]),
           NEW m \in Offset(d, r) .. Len(Reply(d)), m < Len(Reply(d)),
           IsHeader(Reply(d)[m + 1])
    PROVE  \E k \in r .. Len(Listing[d]) : m = Offset(d, k)
<1>1. PICK count \in Nat : count = Len(Listing[d])
  BY OffsetsAscend
<1>2. PICK end \in Nat : end = Offset(d, Len(Listing[d]))
  BY <1>1, OffsetsAscend
<1>3. Begun(d, count, Reply(d))
  BY <1>1, <1>2, ReplyLaidOut, Zenon
<1>4. Offset(d, r) \in Nat /\ Len(Reply(d)) \in Nat
  BY Landmarks
<1>5. PICK to \in Nat : to = m
  BY <1>4
<1>6. Offset(d, r) <= to /\ to + 1 \in 1 .. Len(Reply(d))
  BY <1>4, <1>5
<1>7. PICK i \in 1 .. count : to + 1 = Offset(d, i - 1) + 1
  BY <1>3, <1>5, <1>6 DEF Begun
<1>8. PICK k \in Nat : k = i - 1
  BY <1>7
<1>9. k \in 0 .. count /\ k # count /\ k + 1 \in 0 .. count
  BY <1>7, <1>8
<1>10. Offset(d, k) \in Nat /\ to = Offset(d, k)
  BY <1>1, <1>7, <1>8, <1>9, OffsetsAscend
<1>11. ASSUME k < r PROVE FALSE
  <2>1. Offset(d, k + 1) = Offset(d, k) + 1 + Size[Listing[d][k + 1]] /\ Listing[d][k + 1] \in Files
    BY <1>1, <1>9, Landmarks
  <2>2. Size[Listing[d][k + 1]] \in Nat
    BY <2>1, ListingAssumption
  <2>3. k + 1 \in 0 .. r
    BY <1>11
  <2>4. Offset(d, k + 1) <= Offset(d, r)
    BY <2>3, OffsetsAscend
  <2> QED
    BY <1>4, <1>6, <1>10, <2>1, <2>2, <2>4
<1>12. k \in r .. Len(Listing[d])
  BY <1>1, <1>9, <1>11
<1> QED
  BY <1>5, <1>10, <1>12, Zenon

LEMMA UnreadableKeeps ==
    ASSUME TypeOK, NEW c \in Clients, Kept(c), Unreadable(c), ClientSameAt(c)
    PROVE  Kept(c)'
<1>1. /\ thread[c] = "sending" /\ pending[c] # <<>> /\ IsHeader(Head(pending[c]))
      /\ Finish(c, <<>>) /\ cut'[c] = "unreadable"
  BY DEF Unreadable, TypeOK, ServerTypeOK
<1>2. ASSUME NEW r \in Nat, NEW m \in Nat, Reached(c, r, m),
             pending[c] = SubSeq(Reply(wanted[c]), m + 1, Len(Reply(wanted[c])))
      PROVE  \E k \in r .. Len(Listing[wanted[c]]) : m = Offset(wanted[c], k)
  <2>1. PICK d \in Directories : d = wanted[c]
    BY <1>2 DEF Reached
  <2>2. r \in 0 .. Len(Listing[d]) /\ m \in Offset(d, r) .. Len(Reply(d)) /\ m <= Len(Reply(d))
    BY <1>2, <2>1, ReachedBounds DEF Reached
  <2>3. m < Len(Reply(d)) /\ Head(pending[c]) = Reply(d)[m + 1]
    BY <1>1, <1>2, <2>1, <2>2, PendingNext, Zenon
  <2> QED
    BY <1>1, <2>1, <2>2, <2>3, HeaderAtOffset, Zenon
<1> QED
  BY <1>1, <1>2, EndOfSending

\* A call that starts over keeps nothing.
LEMMA BeginsAt ==
    ASSUME TypeOK, NEW c \in Clients, NEW next, Client!Begins(c, next)
    PROVE  /\ step'[c] = next /\ outcome'[c] = "none" /\ received'[c] = {}
           /\ FilesWhole(c)' /\ ReturnWhole(c)'
<1>1. step'[c] = next /\ outcome'[c] = "none" /\ received'[c] = {}
  BY DEF Client!Begins, TypeOK, Client!ClientTypeOK
<1> QED
  BY <1>1 DEF FilesWhole, ReturnWhole

LEMMA ConnectKeeps ==
    ASSUME TypeOK, NEW c \in Clients, Linked(c), ~leftover[c] => Kept(c),
           Connect(c), ~leftover'[c]
    PROVE  Kept(c)'
<1>2. CASE Client!ConnectSucceeds(c) /\ cut' = [cut EXCEPT ![c] = "no"] /\ UNCHANGED pending
  <2>1. /\ connected'[c] = TRUE /\ link'[c] = "open" /\ thread'[c] = "reading"
        /\ toServer'[c] = <<>> /\ toClient'[c] = <<>>
        /\ cut'[c] = "no" /\ pending'[c] = pending[c] /\ thread[c] = "none"
    BY <1>2 DEF Client!ConnectSucceeds, TypeOK, StreamsTyped, ServerTypeOK, Client!ClientTypeOK
  <2>2. /\ step'[c] = "get" /\ outcome'[c] = "none" /\ received'[c] = {}
        /\ FilesWhole(c)' /\ ReturnWhole(c)'
    BY <1>2, BeginsAt DEF Client!ConnectSucceeds
  <2>3. Linked(c)'
    BY <2>1 DEF Linked
  <2>4. Phase(c)'
    BY <2>1, <2>2 DEF Phase
  <2> QED
    BY <2>2, <2>3, <2>4 DEF Kept
<1>3. CASE Client!ConnectDoesNothing(c) /\ UNCHANGED serverVars
  <2>1. step[c] = "connect" /\ ServerSameAt(c) /\ connected'[c] = connected[c]
    BY <1>3 DEF Client!ConnectDoesNothing, Client!streams, serverVars, ServerSameAt
  <2>2. /\ step'[c] = "get" /\ outcome'[c] = "none" /\ received'[c] = {}
        /\ FilesWhole(c)' /\ ReturnWhole(c)'
    BY <1>3, BeginsAt DEF Client!ConnectDoesNothing
  <2>3. Phase(c)
    BY <1>3 DEF Client!ConnectDoesNothing, Kept
  <2>4. Linked(c)'
    BY <2>1, Zenon DEF Linked, ServerSameAt
  <2>5. Phase(c)'
    BY <2>1, <2>2, <2>3 DEF Phase, ServerSameAt
  <2> QED
    BY <2>2, <2>4, <2>5 DEF Kept
<1> QED
  BY <1>2, <1>3 DEF Connect

\* What Send does to the commands: nothing without an open connection.
LEMMA SendAt ==
    ASSUME TypeOK, NEW c \in Clients, NEW line, Client!Send(c, line)
    PROVE  /\ link[c] = "open" => toServer'[c] = Append(toServer[c], line)
           /\ link[c] # "open" => toServer'[c] = toServer[c]
BY DEF Client!Send, TypeOK, StreamsTyped

\* GetDirectory came back with an exception.
LEMMA ThrowsKeeps ==
    ASSUME TypeOK, NEW c \in Clients, Kept(c), Client!Throws(c), link[c] = "reset",
           UNCHANGED <<thread, toServer, toClient, pending, cut, received>>,
           wanted'[c] = wanted[c] \/ received[c] = {}
    PROVE  Kept(c)'
<1>1. /\ step'[c] = "connect" /\ outcome'[c] = "threw"
      /\ connected'[c] = (connected[c] /\ c \in Pages)
      /\ link'[c] = IF c \in Pages THEN link[c] ELSE "none"
      /\ thread'[c] = thread[c] /\ toServer'[c] = toServer[c] /\ toClient'[c] = toClient[c]
      /\ pending'[c] = pending[c] /\ cut'[c] = cut[c] /\ received'[c] = received[c]
  BY DEF Client!Throws, TypeOK, StreamsTyped, Client!ClientTypeOK
<1>2. Linked(c) /\ FilesWhole(c)
  BY DEF Kept
<1>3. Linked(c)'
  BY <1>1, <1>2 DEF Linked
<1>4. Phase(c)'
  BY <1>1, <1>2 DEF Phase, Linked
<1>5. FilesWhole(c)' /\ ReturnWhole(c)'
  BY <1>1, <1>2 DEF FilesWhole, ReturnWhole
<1> QED
  BY <1>3, <1>4, <1>5 DEF Kept

LEMMA GetDirectoryKeeps ==
    ASSUME TypeOK, NEW c \in Clients, NEW d \in Directories \cup Absent, Kept(c),
           Client!GetDirectory(c, d), UNCHANGED serverVars
    PROVE  Kept(c)'
<1>1. /\ step[c] = "get" /\ wanted'[c] = d
      /\ thread'[c] = thread[c] /\ received'[c] = received[c]
      /\ pending'[c] = pending[c] /\ cut'[c] = cut[c]
  BY DEF Client!GetDirectory, serverVars, TypeOK, Client!ClientTypeOK
<1>2. Linked(c) /\ Phase(c)
  BY DEF Kept
<1>3. received[c] = {} /\ toClient[c] = <<>> /\ outcome[c] = "none"
  BY <1>1, <1>2 DEF Phase
<1>4. FilesWhole(c)' /\ toClient'[c] = <<>>
  <2>1. UNCHANGED toClient \/ toClient' = [toClient EXCEPT ![c] = <<>>]
    BY DEF Client!GetDirectory
  <2> QED
    BY <1>1, <1>3, <2>1 DEF FilesWhole, TypeOK, StreamsTyped
<1>5. CASE ~connected[c] /\ Client!Returns(c) /\ UNCHANGED <<toServer, toClient>>
  <2>1. /\ outcome'[c] = "returned" /\ connected'[c] = connected[c]
        /\ link'[c] = link[c] /\ toServer'[c] = toServer[c]
        /\ step'[c] = IF c \in Pages THEN "connect" ELSE "disconnect"
    BY <1>5 DEF Client!Returns, TypeOK, Client!ClientTypeOK
  <2>2. Linked(c)' /\ ReturnWhole(c)'
    BY <1>1, <1>2, <1>4, <1>5, <2>1 DEF Linked, ReturnWhole
  <2>3. Phase(c)'
    BY <1>1, <1>2, <1>3, <1>4, <1>5, <2>1 DEF Phase, Linked
  <2> QED
    BY <1>4, <2>2, <2>3 DEF Kept
<1>6. CASE link[c] = "reset" /\ Client!Throws(c) /\ UNCHANGED <<toServer, toClient>>
  <2>1. UNCHANGED <<thread, toServer, toClient, pending, cut, received>>
    BY <1>6 DEF Client!GetDirectory, serverVars
  <2> QED
    BY <1>3, <1>6, <2>1, ThrowsKeeps
<1>7. ASSUME connected[c], link[c] # "reset", Client!Send(c, Client!Get(d)),
             link' = link \/ (link[c] = "ended" /\ link' = [link EXCEPT ![c] = "reset"]),
             step' = [step EXCEPT ![c] = "receive"], UNCHANGED <<connected, outcome>>
      PROVE  Kept(c)'
  <2>1. /\ step'[c] = "receive" /\ connected'[c] = connected[c] /\ outcome'[c] = outcome[c]
        /\ link'[c] # link[c] => link[c] = "ended" /\ link'[c] = "reset"
    BY <1>7 DEF TypeOK, StreamsTyped, Client!ClientTypeOK
  <2>2. /\ link[c] = "open" => toServer'[c] = Append(toServer[c], Get(d))
        /\ link[c] # "open" => toServer'[c] = toServer[c]
    BY <1>7, SendAt, ClientItems
  <2>3. Linked(c)' /\ ReturnWhole(c)'
    BY <1>1, <1>2, <1>3, <1>4, <2>1, <2>2 DEF Linked, ReturnWhole
  <2>4. link[c] = "open" => Waits(c)'
    <3>1. Append(<<>>, Get(d)) = <<Get(d)>>
      OBVIOUS
    <3> QED
      BY <1>1, <1>2, <1>3, <1>4, <2>1, <2>2, <3>1 DEF Phase, Waits
  <2>5. link[c] = "ended" => Over(c)' \/ link'[c] = "reset"
    BY <1>1, <1>2, <1>3, <1>4, <2>1 DEF Phase, Over
  <2>6. link[c] = "open" \/ link[c] = "ended"
    BY <1>2, <1>7 DEF Linked, TypeOK, StreamsTyped
  <2>7. Phase(c)'
    BY <1>3, <2>1, <2>4, <2>5, <2>6 DEF Phase, Receiving
  <2> QED
    BY <1>4, <2>3, <2>7 DEF Kept
<1>8. \/ ~connected[c] /\ Client!Returns(c) /\ UNCHANGED <<toServer, toClient>>
      \/ connected[c] /\ link[c] = "reset" /\ Client!Throws(c) /\ UNCHANGED <<toServer, toClient>>
      \/ /\ connected[c] /\ link[c] # "reset" /\ Client!Send(c, Client!Get(d))
         /\ UNCHANGED link \/ (link[c] = "ended" /\ link' = [link EXCEPT ![c] = "reset"])
         /\ step' = [step EXCEPT ![c] = "receive"] /\ UNCHANGED <<connected, outcome>>
  BY Zenon DEF Client!GetDirectory
<1> QED
  BY <1>5, <1>6, <1>7, <1>8

LEMMA SendInvalidMessageKeeps ==
    ASSUME TypeOK, NEW c \in Clients, Kept(c), Client!SendInvalidMessage(c), UNCHANGED serverVars
    PROVE  Kept(c)'
<1>1. /\ step[c] = "get" /\ c \notin Pages /\ step'[c] = "disconnect"
      /\ link'[c] = link[c] /\ thread'[c] = thread[c] /\ toClient'[c] = toClient[c]
      /\ connected'[c] = connected[c] /\ outcome'[c] = outcome[c] /\ received'[c] = received[c]
      /\ pending'[c] = pending[c] /\ cut'[c] = cut[c]
  BY DEF Client!SendInvalidMessage, serverVars, TypeOK, Client!ClientTypeOK
<1>2. link[c] # "open" => toServer'[c] = toServer[c]
  BY SendAt DEF Client!SendInvalidMessage
<1>3. Linked(c) /\ Phase(c)
  BY DEF Kept
<1>4. Linked(c)'
  BY <1>1, <1>2, <1>3 DEF Linked
<1>5. Phase(c)'
  BY <1>1 DEF Phase
<1>6. FilesWhole(c)' /\ ReturnWhole(c)'
  BY <1>1, <1>3 DEF Phase, FilesWhole, ReturnWhole
<1> QED
  BY <1>4, <1>5, <1>6 DEF Kept

LEMMA LeaveKeeps ==
    ASSUME TypeOK, NEW c \in Clients, Kept(c), Client!Disconnect(c) \/ Client!Kill(c),
           UNCHANGED serverVars
    PROVE  Kept(c)'
<1>1. /\ connected'[c] = FALSE /\ link'[c] = "none" /\ toClient'[c] = <<>>
      /\ thread'[c] = thread[c] /\ pending'[c] = pending[c] /\ cut'[c] = cut[c]
  BY DEF Client!Disconnect, Client!Kill, serverVars, TypeOK, StreamsTyped, Client!ClientTypeOK
<1>2. link[c] # "open" => toServer'[c] = toServer[c]
  BY SendAt DEF Client!Disconnect, Client!Kill
<1>3. step'[c] = "connect" /\ FilesWhole(c)' /\ ReturnWhole(c)'
  BY BeginsAt DEF Client!Disconnect, Client!Kill
<1>4. Linked(c)'
  BY <1>1, <1>2 DEF Kept, Linked
<1>5. Phase(c)'
  BY <1>1, <1>3 DEF Phase
<1> QED
  BY <1>3, <1>4, <1>5 DEF Kept

\* Between two offsets that follow one another there is no third.
LEMMA OffsetsApart ==
    ASSUME NEW d \in Directories, NEW r \in Nat, r + 1 \in 1 .. Len(Listing[d]), NEW m \in Nat,
           NEW k \in r .. Len(Listing[d]), m = Offset(d, k)
    PROVE  ~(Offset(d, r) < m /\ m < Offset(d, r + 1))
<1>1. Len(Listing[d]) \in Nat
  BY OffsetsAscend
<1>2. k = r \/ r + 1 \in 0 .. k
  BY <1>1
<1>3. k \in 0 .. Len(Listing[d]) /\ r + 1 \in 0 .. Len(Listing[d]) /\ r \in 0 .. Len(Listing[d])
  BY <1>1
<1>4. Offset(d, r) \in Nat /\ Offset(d, k) \in Nat /\ Offset(d, r + 1) \in Nat
  BY <1>3, OffsetsAscend
<1>5. r + 1 \in 0 .. k => Offset(d, r + 1) <= Offset(d, k)
  BY <1>3, OffsetsAscend
<1> QED
  BY <1>2, <1>4, <1>5

\* The next file of the reply was taken off the stream.
LEMMA FileTaken ==
    ASSUME TypeOK, NEW c \in Clients, NEW r, NEW m, Reached(c, r, m), toClient[c] # <<>>,
           NEW f \in Files, toClient[c][1] = Header(f),
           NEW n \in Nat, n <= Size[f], n + 1 <= Len(toClient[c]),
           n < Size[f] => n + 1 = Len(toClient[c]) \/ toClient[c][n + 2] # Block(f),
           wanted'[c] = wanted[c],
           toClient'[c] = SubSeq(toClient[c], n + 2, Len(toClient[c])),
           received'[c] = received[c] \cup {<<f, n>>}
    PROVE  /\ r + 1 \in 1 .. Len(Listing[wanted[c]]) /\ f = Listing[wanted[c]][r + 1]
           /\ n = Size[f] => Reached(c, r + 1, m)'
           /\ n # Size[f] => /\ toClient'[c] = <<>>
                             /\ Offset(wanted[c], r) < m /\ m < Offset(wanted[c], r + 1)
<1>1. PICK d \in Directories : d = wanted[c]
  BY DEF Reached
<1>2. PICK s \in Seq(Items) : s = toClient[c]
  BY DEF TypeOK, StreamsTyped
<1>3. /\ r \in 0 .. Len(Listing[d]) /\ m \in Offset(d, r) .. Len(Reply(d))
      /\ s = Rest(d, r, m) /\ received[c] = FirstWhole(d, r)
  BY <1>1, <1>2, Zenon DEF Reached
<1>4. s # <<>> /\ s[1] = Header(f) /\ n + 1 <= Len(s)
  BY <1>2
<1>5. n < Size[f] => n + 1 = Len(s) \/ s[n + 2] # Block(f)
  BY <1>2, Zenon
<1>6. /\ r + 1 \in 1 .. Len(Listing[d]) /\ f = Listing[d][r + 1]
      /\ n = Size[f] => /\ Offset(d, r + 1) <= m
                        /\ SubSeq(s, n + 2, Len(s)) = Rest(d, r + 1, m)
      /\ n # Size[f] => /\ Offset(d, r) < m /\ m < Offset(d, r + 1)
                        /\ SubSeq(s, n + 2, Len(s)) = <<>>
  BY <1>3, <1>4, <1>5, TakeFile
<1>7. ASSUME n = Size[f] PROVE Reached(c, r + 1, m)'
  <2>1. r \in Nat /\ m \in Nat /\ m <= Len(Reply(d)) /\ Len(Reply(d)) \in Nat
        /\ Len(Listing[d]) \in Nat
    BY <1>1, ReachedBounds
  <2>2. PICK k \in Nat : k = r + 1
    BY <2>1
  <2>3. k \in 0 .. Len(Listing[d]) /\ Offset(d, k) <= m
    BY <1>6, <1>7, <2>1, <2>2
  <2>4. Offset(d, k) \in Nat
    BY <2>3, OffsetsAscend
  <2>5. m \in Offset(d, k) .. Len(Reply(d))
    BY <2>1, <2>3, <2>4
  <2>6. received'[c] = FirstWhole(d, k)
    BY <1>3, <1>6, <1>7, <2>1, <2>2, FirstWholeFacts, Zenon
  <2>7. toClient'[c] = Rest(d, k, m)
    BY <1>2, <1>6, <1>7, <2>2, Zenon
  <2>8. Reached(c, k, m)'
    BY <1>1, <2>3, <2>5, <2>6, <2>7, Zenon DEF Reached
  <2> QED
    BY <2>2, <2>8, Zenon
<1> QED
  BY <1>1, <1>2, <1>6, <1>7, Zenon

LEMMA ReceiveFileKeeps ==
    ASSUME TypeOK, NEW c \in Clients, Kept(c), Client!ReceiveFile(c), UNCHANGED serverVars
    PROVE  Kept(c)'
<1>1. PICK f, n : /\ f = Head(toClient[c])[2]
                  /\ n = Client!Min({Client!Blocks(Tail(toClient[c]), f), Size[f]})
  OBVIOUS
<1>2. /\ step[c] = "receive" /\ toClient[c] # <<>> /\ IsHeader(Head(toClient[c]))
      /\ n = Size[f] \/ link[c] = "ended"
      /\ toClient' = [toClient EXCEPT ![c] = SubSeq(@, n + 2, Len(@))]
      /\ received' = [received EXCEPT ![c] = @ \cup {<<f, n>>}]
      /\ UNCHANGED <<link, thread, toServer, connected, step, wanted, outcome>>
  BY <1>1, ClientItems DEF Client!ReceiveFile
<1>3. PICK s : s = toClient[c] /\ s \in Seq(Items)
  BY DEF TypeOK, StreamsTyped
<1>4. /\ f \in Files /\ s[1] = Header(f)
      /\ n \in Nat /\ n <= Size[f] /\ n + 1 <= Len(s)
      /\ n < Size[f] => n + 1 = Len(s) \/ s[n + 2] # Block(f)
  BY <1>1, <1>2, <1>3, FileNext, Zenon
<1>5. /\ toClient'[c] = SubSeq(toClient[c], n + 2, Len(toClient[c]))
      /\ received'[c] = received[c] \cup {<<f, n>>}
      /\ link'[c] = link[c] /\ thread'[c] = thread[c] /\ toServer'[c] = toServer[c]
      /\ connected'[c] = connected[c] /\ step'[c] = step[c] /\ wanted'[c] = wanted[c]
      /\ outcome'[c] = outcome[c] /\ pending'[c] = pending[c] /\ cut'[c] = cut[c]
  BY <1>2 DEF serverVars, TypeOK, StreamsTyped, Client!ClientTypeOK
<1>6. Linked(c) /\ Phase(c) /\ FilesWhole(c)
  BY DEF Kept
<1>7. Serving(c) \/ (link[c] = "ended" /\ \E r \in Nat, m \in Nat : Complete(c, r, m))
  <2>1. Header(f) # Error /\ <<Error>>[1] = Error
    BY <1>4, ItemKinds
  <2>2. toClient[c] # <<Error>>
    BY <1>3, <1>4, <2>1, Zenon
  <2> QED
    BY <1>2, <1>6, <2>2 DEF Linked, Phase, Receiving, Waits, Refused, Over
<1>8. ASSUME NEW r \in Nat, NEW m \in Nat, Reached(c, r, m)
      PROVE  /\ wanted[c] \in Directories
             /\ r + 1 \in 1 .. Len(Listing[wanted[c]]) /\ f = Listing[wanted[c]][r + 1]
             /\ n = Size[f] => Reached(c, r + 1, m)'
             /\ n # Size[f] => /\ toClient'[c] = <<>>
                               /\ Offset(wanted[c], r) < m /\ m < Offset(wanted[c], r + 1)
  <2>1. /\ toClient[c][1] = Header(f) /\ n + 1 <= Len(toClient[c])
        /\ n < Size[f] => n + 1 = Len(toClient[c]) \/ toClient[c][n + 2] # Block(f)
    BY <1>3, <1>4, Zenon
  <2>2. /\ r + 1 \in 1 .. Len(Listing[wanted[c]]) /\ f = Listing[wanted[c]][r + 1]
        /\ n = Size[f] => Reached(c, r + 1, m)'
        /\ n # Size[f] => /\ toClient'[c] = <<>>
                          /\ Offset(wanted[c], r) < m /\ m < Offset(wanted[c], r + 1)
    BY <1>2, <1>4, <1>5, <1>8, <2>1, FileTaken
  <2> QED
    BY <1>8, <2>2, Zenon DEF Reached
<1>9. Serving(c) => n = Size[f] /\ Serving(c)'
  <2> SUFFICES ASSUME Serving(c) PROVE n = Size[f] /\ Serving(c)'
    OBVIOUS
  <2>1. n = Size[f]
    BY <1>2 DEF Serving
  <2>2. PICK r \in Nat, m \in Nat :
            /\ Reached(c, r, m)
            /\ pending[c] = SubSeq(Reply(wanted[c]), m + 1, Len(Reply(wanted[c])))
    BY DEF Serving
  <2>3. PICK k \in Nat : k = r + 1
    OBVIOUS
  <2>4. Reached(c, k, m)'
    BY <1>8, <2>1, <2>2, <2>3, Zenon
  <2> QED
    BY <1>5, <2>1, <2>2, <2>4, Zenon DEF Serving
<1>10. ASSUME link[c] = "ended", NEW r \in Nat, NEW m \in Nat, Complete(c, r, m)
       PROVE  (n = Size[f] \/ cut[c] = "crash") /\ Over(c)'
  <2>1. PICK d \in Directories : d = wanted[c]
    BY <1>10 DEF Complete, Reached
  <2>2. /\ Reached(c, r, m)
        /\ cut[c] = "no" => m = Len(Reply(d))
        /\ cut[c] = "unreadable" => \E k \in r .. Len(Listing[d]) : m = Offset(d, k)
    BY <1>10, <2>1, Zenon DEF Complete
  <2>3. /\ r + 1 \in 1 .. Len(Listing[d])
        /\ n = Size[f] => Reached(c, r + 1, m)'
        /\ n # Size[f] => /\ toClient'[c] = <<>>
                          /\ Offset(d, r) < m /\ m < Offset(d, r + 1)
    BY <1>8, <2>1, <2>2, Zenon
  <2>4. PICK k \in Nat : k = r + 1
    OBVIOUS
  <2>5. r \in 0 .. Len(Listing[d]) /\ r # Len(Listing[d]) /\ Len(Listing[d]) \in Nat
    BY <2>3, OffsetsAscend
  <2>6. Offset(d, r) \in Nat /\ Offset(d, k) \in Nat /\ Offset(d, r) < Offset(d, k)
        /\ Offset(d, k) < Len(Reply(d)) /\ Len(Reply(d)) \in Nat
    <3>1. /\ Offset(d, r) \in Nat /\ Len(Reply(d)) \in Nat
          /\ Offset(d, k) = Offset(d, r) + 1 + Size[Listing[d][k]]
          /\ Offset(d, k) + 2 <= Len(Reply(d)) /\ Listing[d][k] \in Files
      BY <2>4, <2>5, Landmarks
    <3>2. Size[Listing[d][k]] \in Nat
      BY <3>1, ListingAssumption
    <3> QED
      BY <3>1, <3>2
  <2>7. CASE n = Size[f]
    <3>1. Reached(c, k, m)'
      BY <2>3, <2>4, <2>7, Zenon
    <3>2. ASSUME NEW j \in r .. Len(Listing[d]), m = Offset(d, j) PROVE j \in k .. Len(Listing[d])
      <4>1. Offset(d, k) <= m
        BY <2>1, <3>1, <1>5 DEF Reached
      <4>2. j # r
        BY <2>6, <3>2, <4>1
      <4> QED
        BY <2>4, <2>5, <4>2
    <3>3. /\ cut'[c] = "no" => m = Len(Reply(wanted'[c]))
          /\ cut'[c] = "unreadable" =>
                \E j \in k .. Len(Listing[wanted'[c]]) : m = Offset(wanted'[c], j)
      BY <1>5, <2>1, <2>2, <3>2, Zenon
    <3>4. Complete(c, k, m)'
      BY <3>1, <3>3, Zenon DEF Complete
    <3> QED
      BY <1>5, <1>10, <2>7, <3>4, Zenon DEF Over
  <2>8. CASE n # Size[f]
    <3>1. m # Len(Reply(d))
      BY <2>3, <2>4, <2>6, <2>8
    <3>2. ~ \E j \in r .. Len(Listing[d]) : m = Offset(d, j)
      BY <2>3, <2>8, OffsetsApart
    <3>3. cut[c] = "crash"
      BY <2>2, <3>1, <3>2 DEF TypeOK, ServerTypeOK
    <3> QED
      BY <1>5, <1>10, <2>3, <2>8, <3>3, Zenon DEF Over
  <2> QED
    BY <2>7, <2>8
<1>11. Receiving(c)' /\ (n = Size[f] \/ cut[c] = "crash")
  BY <1>7, <1>9, <1>10, Zenon DEF Receiving
<1>12. Linked(c)'
  BY <1>2, <1>5, <1>6 DEF Linked
<1>13. outcome[c] = "none"
  BY <1>2, <1>6 DEF Phase
<1>14. Phase(c)' /\ ReturnWhole(c)'
  BY <1>2, <1>5, <1>11, <1>13 DEF Phase, ReturnWhole
<1>15. wanted[c] \in Directories /\ \E k \in DOMAIN Listing[wanted[c]] : Listing[wanted[c]][k] = f
  <2>1. PICK r \in Nat, m \in Nat : Reached(c, r, m)
    BY <1>7, Zenon DEF Serving, Complete
  <2>2. /\ wanted[c] \in Directories
        /\ r + 1 \in 1 .. Len(Listing[wanted[c]]) /\ f = Listing[wanted[c]][r + 1]
    BY <1>8, <2>1
  <2>3. DOMAIN Listing[wanted[c]] = 1 .. Len(Listing[wanted[c]])
    BY <2>2, ListingAssumption
  <2> QED
    BY <2>2, <2>3, Zenon
<1>16. FilesWhole(c)'
  <2> SUFFICES ASSUME NEW file \in received'[c]
               PROVE  /\ wanted[c] \in Directories
                      /\ \E k \in DOMAIN Listing[wanted[c]] : Listing[wanted[c]][k] = file[1]
                      /\ file[2] = Size[file[1]] \/ cut[c] = "crash"
    BY <1>5, Zenon DEF FilesWhole
  <2>1. CASE file \in received[c]
    BY <1>6, <2>1, Zenon DEF FilesWhole
  <2>2. CASE file = <<f, n>>
    <3>1. file[1] = f /\ file[2] = n
      BY <2>2
    <3> QED
      BY <1>11, <1>15, <3>1, Zenon
  <2> QED
    BY <1>5, <2>1, <2>2
<1> QED
  BY <1>12, <1>14, <1>16 DEF Kept

\* Nothing of the reply but its closing text is left: the client has it all.
LEMMA TextLeft ==
    ASSUME TypeOK, NEW c \in Clients, NEW r, NEW m, Reached(c, r, m),
           m = Len(Reply(wanted[c])),
           toClient[c] # <<>> => IsText(Head(toClient[c]))
    PROVE  wanted[c] \in Directories /\ received[c] = Whole(wanted[c])
<1>1. PICK d \in Directories : d = wanted[c]
  BY DEF Reached
<1>2. /\ r \in 0 .. Len(Listing[d]) /\ toClient[c] = Rest(d, r, m)
      /\ received[c] = FirstWhole(d, r)
  BY <1>1, Zenon DEF Reached
<1>3. PICK reply \in Seq(Items), o \in Nat, to \in Nat :
          reply = Reply(d) /\ o = Offset(d, r) /\ to = m
  <2>1. m \in Nat /\ Offset(d, r) \in Nat
    BY <1>1, ReachedBounds
  <2> QED
    BY <2>1, ReplyItems, Zenon
<1>4. o < to /\ to <= Len(reply)
  BY <1>1, <1>2, <1>3, Landmarks
<1>5. /\ SubSeq(reply, o + 1, to) # <<>>
      /\ Head(SubSeq(reply, o + 1, to)) = reply[o + 1]
  BY <1>4, SubSeqSplit
<1>6. IsText(reply[o + 1])
  BY <1>2, <1>3, <1>5, Zenon DEF Rest
<1>7. r = Len(Listing[d])
  <2> SUFFICES ASSUME r # Len(Listing[d]) PROVE FALSE
    OBVIOUS
  <2>1. reply[o + 1] = Header(Listing[d][r + 1]) /\ Listing[d][r + 1] \in Files
    BY <1>2, <1>3, Landmarks
  <2> QED
    BY <1>6, <2>1, ItemKinds, Zenon
<1> QED
  BY <1>1, <1>2, <1>7, FirstWholeFacts, Zenon

LEMMA ReceiveEndKeeps ==
    ASSUME TypeOK, NEW c \in Clients, Kept(c), Client!ReceiveEnd(c), UNCHANGED serverVars
    PROVE  Kept(c)'
<1>1. /\ step[c] = "receive" /\ link[c] = "ended"
      /\ toClient[c] # <<>> => IsText(Head(toClient[c]))
      /\ toClient'[c] = <<>> /\ outcome'[c] = "returned"
      /\ step'[c] = IF c \in Pages THEN "connect" ELSE "disconnect"
      /\ link'[c] = link[c] /\ thread'[c] = thread[c] /\ toServer'[c] = toServer[c]
      /\ connected'[c] = connected[c] /\ wanted'[c] = wanted[c]
      /\ received'[c] = received[c] /\ pending'[c] = pending[c] /\ cut'[c] = cut[c]
  BY ClientItems DEF Client!ReceiveEnd, Client!Returns, serverVars, TypeOK, StreamsTyped,
         Client!ClientTypeOK
<1>2. Linked(c) /\ Phase(c) /\ FilesWhole(c)
  BY DEF Kept
<1>3. Over(c)
  BY <1>1, <1>2 DEF Phase, Receiving, Waits, Refused, Serving
<1>4. Linked(c)' /\ FilesWhole(c)'
  BY <1>1, <1>2 DEF Linked, FilesWhole
<1>5. Phase(c)'
  BY <1>1 DEF Phase
<1>6. ReturnWhole(c)'
  <2> SUFFICES ASSUME c \notin Pages, cut[c] = "no"
               PROVE  wanted[c] \in Directories /\ received[c] = Whole(wanted[c])
    BY <1>1, Zenon DEF ReturnWhole
  <2>1. PICK r \in Nat, m \in Nat : Complete(c, r, m)
    BY <1>3 DEF Over
  <2>2. Reached(c, r, m) /\ m = Len(Reply(wanted[c]))
    BY <2>1, Zenon DEF Complete
  <2> QED
    BY <1>1, <2>2, TextLeft
<1> QED
  BY <1>4, <1>5, <1>6 DEF Kept

\* A program that could not write a file is ended by it.
LEMMA ReceiveFileFailsKeeps ==
    ASSUME TypeOK, NEW c \in Clients, Kept(c), Client!ReceiveFileFails(c), ~leftover'[c],
           UNCHANGED serverVars
    PROVE  Kept(c)'
<1>1. leftover'[c] = (c \in Pages)
  BY DEF Client!ReceiveFileFails, TypeOK, Client!ClientTypeOK
<1>2. c \notin Pages
  BY <1>1
<1>3. /\ Client!Throws(c) /\ UNCHANGED <<thread, toServer, wanted, received>>
      /\ toClient'[c] = <<>>
  BY <1>2 DEF Client!ReceiveFileFails, TypeOK, StreamsTyped
<1>4. /\ step'[c] = "connect" /\ outcome'[c] = "threw"
      /\ connected'[c] = FALSE /\ link'[c] = "none"
  BY <1>2, <1>3 DEF Client!Throws, TypeOK, StreamsTyped, Client!ClientTypeOK
<1>5. Linked(c) /\ FilesWhole(c)
  BY DEF Kept
<1>6. Linked(c)' /\ Phase(c)'
  BY <1>3, <1>4, <1>5 DEF Linked, Phase, serverVars
<1>7. FilesWhole(c)' /\ ReturnWhole(c)'
  BY <1>3, <1>4, <1>5 DEF FilesWhole, ReturnWhole, serverVars
<1> QED
  BY <1>6, <1>7 DEF Kept

LEMMA ClientKeeps ==
    ASSUME TypeOK, NEW c \in Clients, Kept(c), ~leftover'[c], ClientStep(c)
    PROVE  Kept(c)'
<1>1. ASSUME Client!ReceiveReset(c), UNCHANGED serverVars PROVE Kept(c)'
  <2>1. /\ Client!Throws(c) /\ link[c] = "reset"
        /\ UNCHANGED <<thread, toServer, toClient, pending, cut, received>>
        /\ wanted' = wanted
    BY <1>1 DEF Client!ReceiveReset, serverVars
  <2> QED
    BY <2>1, ThrowsKeeps
<1> QED
  BY <1>1, GetDirectoryKeeps, SendInvalidMessageKeeps, LeaveKeeps,
     ReceiveFileKeeps, ReceiveFileFailsKeeps, ReceiveEndKeeps DEF ClientStep, Client!Receive

LEMMA ServerKeeps ==
    ASSUME TypeOK, NEW c \in Clients, Kept(c), ServerStep(c)
    PROVE  Kept(c)'
<1>1. ClientSameAt(c)
  BY DEF ServerStep, clientVars, ClientSameAt
<1> QED
  BY <1>1, HandleGetKeeps, HandleGetAbsentKeeps, EndingsKeep, WriteKeeps, SentKeeps,
     UnreadableKeeps DEF ServerStep, Serve

\* The server dies: what it had written is there to be read, or is lost.
LEMMA CrashKeeps ==
    ASSUME TypeOK, NEW c \in Clients, Kept(c), Crash
    PROVE  Kept(c)'
<1>1. ClientSameAt(c)
  BY DEF Crash, clientVars, ClientSameAt
<1>2. PICK resets \in SUBSET {i \in Clients : thread[i] # "none" /\ link[i] = "open"} :
          /\ \A i \in Clients : link[i] = "open" /\ toServer[i] # <<>> => i \in resets
          /\ link' = [i \in Clients |->
                IF i \in resets THEN "reset" ELSE IF link[i] = "open" THEN "ended" ELSE link[i]]
          /\ toClient' = [i \in Clients |-> IF i \in resets THEN <<>> ELSE toClient[i]]
  BY Zenon DEF Crash
<1>3. /\ thread'[c] = "none" /\ toServer'[c] = <<>> /\ pending'[c] = <<>>
      /\ thread[c] # "none" => cut'[c] = "crash"
      /\ thread[c] = "none" => cut'[c] = cut[c]
  BY DEF Crash
<1>4. \/ /\ link[c] = "open" /\ thread[c] # "none"
         /\ link'[c] = "reset" /\ toClient'[c] = <<>>
      \/ /\ link[c] = "open" /\ toServer[c] = <<>>
         /\ link'[c] = "ended" /\ toClient'[c] = toClient[c]
      \/ /\ link[c] # "open" /\ link'[c] = link[c] /\ toClient'[c] = toClient[c]
  BY <1>2
<1>5. Linked(c) /\ Phase(c) /\ FilesWhole(c) /\ ReturnWhole(c)
  BY DEF Kept
<1>6. Linked(c)'
  BY <1>1, <1>3, <1>4, <1>5 DEF Linked, ClientSameAt
<1>7. link[c] = "open" => cut'[c] = "crash"
  BY <1>3, <1>5 DEF Linked
<1>8. ASSUME Receiving(c) PROVE Receiving(c)'
  <2>1. CASE link'[c] = "reset"
    BY <2>1 DEF Receiving
  <2>2. CASE /\ link[c] = "open" /\ toServer[c] = <<>>
             /\ link'[c] = "ended" /\ toClient'[c] = toClient[c]
    <3>1. Refused(c) \/ Serving(c)
      BY <1>8, <2>2 DEF Receiving, Waits, Over
    <3>2. Refused(c) => Over(c)'
      BY <1>7, <2>2 DEF Refused, Over
    <3>3. ASSUME Serving(c) PROVE Over(c)'
      <4>1. PICK r \in Nat, m \in Nat : Reached(c, r, m)
        BY <3>3 DEF Serving
      <4>2. Reached(c, r, m)'
        BY <1>1, <2>2, <4>1, ReachedSame DEF ClientSameAt
      <4>3. Complete(c, r, m)'
        BY <1>7, <2>2, <4>2 DEF Complete
      <4> QED
        BY <2>2, <4>3, Zenon DEF Over
    <3> QED
      BY <3>1, <3>2, <3>3 DEF Receiving
  <2>3. CASE link[c] = "ended" /\ link'[c] = "ended" /\ toClient'[c] = toClient[c]
    <3>1. Over(c) /\ cut'[c] = cut[c]
      BY <1>3, <1>5, <1>8, <2>3 DEF Receiving, Waits, Refused, Serving, Linked
    <3>2. ASSUME NEW r \in Nat, NEW m \in Nat, Complete(c, r, m) PROVE Complete(c, r, m)'
      <4>1. Reached(c, r, m)' /\ wanted'[c] = wanted[c]
        BY <1>1, <2>3, <3>2, ReachedSame DEF ClientSameAt, Complete
      <4> QED
        BY <3>1, <3>2, <4>1, Zenon DEF Complete
    <3> QED
      BY <2>3, <3>1, <3>2, Zenon DEF Over, Receiving
  <2> QED
    BY <1>4, <1>8, <2>1, <2>2, <2>3 DEF Receiving, Waits, Refused, Serving, Over
<1>9. Phase(c)'
  BY <1>1, <1>3, <1>4, <1>5, <1>7, <1>8 DEF Phase, ClientSameAt, Linked
<1>10. cut'[c] # cut[c] => cut[c] = "no" /\ cut'[c] \in {"crash", "unreadable"}
  BY <1>3, <1>5 DEF Linked
<1> QED
  BY <1>1, <1>5, <1>6, <1>9, <1>10, KeptFiles DEF Kept

-------------------------------------------------------------------------------
(***************************************************************************)
(* What holds of a page, too, that gave up an answer: the stream and what  *)
(* the thread has still to write never stop inside of a file.              *)
(***************************************************************************)
LEMMA FramedNothing == Framed(<<>>) /\ Framed(<<Error>>)
<1>1. Len(<<>>) = 0 /\ Len(<<Error>>) = 1 /\ <<Error>>[1] = Error
  OBVIOUS
<1>2. Framed(<<>>)
  BY <1>1 DEF Framed
<1>3. \A f \in Files : Header(f) # Error
  BY ItemKinds
<1>4. Framed(<<Error>>)
  BY <1>1, <1>3 DEF Framed
<1> QED
  BY <1>2, <1>4

LEMMA FramedConcat ==
    ASSUME NEW s \in Seq(Items), NEW t \in Seq(Items), Framed(s), Framed(t)
    PROVE  Framed(s \o t)
<1>1. PICK m \in Nat, n \in Nat, u \in Seq(Items) : m = Len(s) /\ n = Len(t) /\ u = s \o t
  BY ConcatFacts
<1>2. /\ Len(u) = m + n
      /\ \A i \in 1 .. m : u[i] = s[i]
      /\ \A i \in 1 .. n : u[m + i] = t[i]
  BY <1>1, ConcatFacts
<1>3. ASSUME \A q \in 1 .. m + n, f \in Files :
                 u[q] = Header(f) =>
                     q + Size[f] <= m + n /\ \A j \in 1 .. Size[f] : u[q + j] = Block(f)
      PROVE  Framed(s \o t)
  <2>1. Framed(u)
    BY <1>2, <1>3, Zenon DEF Framed
  <2> QED
    BY <1>1, <2>1, Zenon
<1>4. SUFFICES ASSUME NEW q \in 1 .. m + n, NEW f \in Files, u[q] = Header(f)
               PROVE  q + Size[f] <= m + n /\ \A j \in 1 .. Size[f] : u[q + j] = Block(f)
  BY <1>3, Zenon
<1>5. PICK size \in Nat : size = Size[f]
  BY ListingAssumption
<1>6. CASE q \in 1 .. m
  <2>1. q + size <= m /\ \A j \in 1 .. size : s[q + j] = Block(f)
    BY <1>1, <1>2, <1>4, <1>5, <1>6 DEF Framed
  <2>2. \A j \in 1 .. size : q + j \in 1 .. m
    BY <1>6, <2>1
  <2>3. \A j \in 1 .. size : u[q + j] = Block(f)
    BY <1>2, <2>1, <2>2, Zenon
  <2>4. q + size <= m + n
    BY <2>1
  <2> QED
    BY <1>5, <2>3, <2>4, Zenon
<1>7. CASE q \notin 1 .. m
  <2>1. PICK k \in 1 .. n : q = m + k
    <3>1. q - m \in 1 .. n /\ q = m + (q - m)
      BY <1>7
    <3> QED
      BY <3>1
  <2>2. t[k] = Header(f)
    BY <1>2, <1>4, <2>1
  <2>3. k + size <= n /\ \A j \in 1 .. size : t[k + j] = Block(f)
    BY <1>1, <1>5, <2>2 DEF Framed
  <2>4. \A j \in 1 .. size : k + j \in 1 .. n /\ q + j = m + (k + j)
    BY <2>1, <2>3
  <2>5. \A j \in 1 .. size : u[q + j] = Block(f)
    BY <1>2, <2>3, <2>4, Zenon
  <2>6. q + size <= m + n
    BY <2>1, <2>3
  <2> QED
    BY <1>5, <2>5, <2>6, Zenon
<1> QED
  BY <1>6, <1>7

\* What is left when the first n items were taken.
LEMMA FramedSuffix ==
    ASSUME NEW s \in Seq(Items), NEW n \in Nat, n <= Len(s), Framed(s)
    PROVE  Framed(SubSeq(s, n + 1, Len(s)))
<1>1. PICK size \in Nat : size = Len(s)
  BY SequenceFacts
<1>2. PICK t \in Seq(Items) : t = SubSeq(s, n + 1, size)
  <2>1. n <= size /\ size <= Len(s)
    BY <1>1
  <2>2. SubSeq(s, n + 1, size) \in Seq(Items)
    BY <2>1, SubSeqFacts
  <2> QED
    BY <2>2
<1>3. Len(t) = size - n /\ \A k \in 1 .. size - n : t[k] = s[n + k]
  BY <1>1, <1>2, SubSeqFacts
<1>4. ASSUME NEW q \in 1 .. size - n, NEW f \in Files, t[q] = Header(f)
      PROVE  q + Size[f] <= size - n /\ \A j \in 1 .. Size[f] : t[q + j] = Block(f)
  <2>1. PICK long \in Nat : long = Size[f]
    BY ListingAssumption
  <2>2. n + q \in 1 .. size /\ s[n + q] = Header(f)
    BY <1>3, <1>4
  <2>3. (n + q) + long <= size /\ \A j \in 1 .. long : s[(n + q) + j] = Block(f)
    BY <1>1, <2>1, <2>2 DEF Framed
  <2>4. \A j \in 1 .. long : q + j \in 1 .. size - n /\ n + (q + j) = (n + q) + j
    BY <2>3
  <2>5. \A j \in 1 .. long : t[q + j] = Block(f)
    BY <1>3, <2>3, <2>4, Zenon
  <2>6. q + long <= size - n
    BY <2>3
  <2> QED
    BY <2>1, <2>5, <2>6, Zenon
<1>5. Framed(t)
  BY <1>3, <1>4 DEF Framed
<1> QED
  BY <1>1, <1>2, <1>5

\* What was written when a header is next.
LEMMA FramedPrefix ==
    ASSUME NEW s \in Seq(Items), NEW t \in Seq(Items), t # <<>>, IsHeader(Head(t)),
           Framed(s \o t)
    PROVE  Framed(s)
<1>1. PICK m \in Nat, n \in Nat, u \in Seq(Items) : m = Len(s) /\ n = Len(t) /\ u = s \o t
  BY ConcatFacts
<1>2. /\ Len(u) = m + n
      /\ \A i \in 1 .. m : u[i] = s[i]
      /\ \A i \in 1 .. n : u[m + i] = t[i]
  BY <1>1, ConcatFacts
<1>3. IsHeader(t[1]) /\ 1 \in 1 .. n
  BY <1>1, SequenceFacts
<1>4. IsHeader(u[m + 1])
  BY <1>2, <1>3
<1>5. SUFFICES ASSUME NEW q \in 1 .. m, NEW f \in Files, s[q] = Header(f)
               PROVE  q + Size[f] <= m /\ \A j \in 1 .. Size[f] : s[q + j] = Block(f)
  BY <1>1 DEF Framed
<1>6. PICK size \in Nat : size = Size[f]
  BY ListingAssumption
<1>7. q + size <= m + n /\ \A j \in 1 .. size : u[q + j] = Block(f)
  <2>1. q \in 1 .. Len(u) /\ u[q] = Header(f)
    BY <1>2, <1>5
  <2>2. Framed(u)
    BY <1>1
  <2>3. q + Size[f] <= Len(u) /\ \A j \in 1 .. Size[f] : u[q + j] = Block(f)
    BY <2>1, <2>2, Zenon DEF Framed
  <2> QED
    BY <1>2, <1>6, <2>3, Zenon
<1>8. q + size <= m
  <2> SUFFICES ASSUME ~(q + size <= m) PROVE FALSE
    OBVIOUS
  <2>1. m + 1 - q \in 1 .. size /\ q + (m + 1 - q) = m + 1
    OBVIOUS
  <2>2. u[m + 1] = Block(f)
    BY <1>7, <2>1
  <2> QED
    BY <1>4, <2>2, ItemKinds
<1>9. \A j \in 1 .. size : q + j \in 1 .. m
  BY <1>8
<1> QED
  BY <1>2, <1>6, <1>7, <1>8, <1>9

LEMMA FramedReply ==
    ASSUME NEW d \in Directories
    PROVE  Framed(Reply(d))
<1>1. PICK count \in Nat : count = Len(Listing[d])
  BY OffsetsAscend
<1>2. PICK end \in Nat : end = Offset(d, Len(Listing[d]))
  BY <1>1, OffsetsAscend
<1>3. PICK reply \in Seq(Items) : reply = Reply(d)
  BY ReplyItems
<1>4. Begun(d, count, reply) /\ \A i \in 1 .. count : Lies(d, i, reply)
  BY <1>1, <1>2, <1>3, ReplyLaidOut, Zenon
<1>5. ASSUME NEW q \in 1 .. Len(reply), NEW f \in Files, reply[q] = Header(f)
      PROVE  q + Size[f] <= Len(reply) /\ \A j \in 1 .. Size[f] : reply[q + j] = Block(f)
  <2>1. IsHeader(reply[q])
    BY <1>5, ItemKinds
  <2>2. PICK i \in 1 .. count : q = Offset(d, i - 1) + 1
    BY <1>4, <2>1 DEF Begun
  <2>3. /\ reply[q] = Header(Listing[d][i])
        /\ Offset(d, i - 1) \in Nat
        /\ Offset(d, i) = q + Size[Listing[d][i]]
        /\ Offset(d, i) <= Len(reply)
        /\ \A j \in 1 .. Size[Listing[d][i]] : reply[q + j] = Block(Listing[d][i])
    BY <1>4, <2>2, Zenon DEF Lies
  <2>4. Listing[d][i] \in Files
    BY <1>1, ListingAssumption
  <2>5. Listing[d][i] = f
    BY <1>5, <2>3, <2>4, ItemKinds
  <2> QED
    BY <2>3, <2>5, Zenon
<1> QED
  BY <1>3, <1>5 DEF Framed

LEMMA ConcatNothing ==
    ASSUME NEW s \in Seq(Items)
    PROVE  s \o <<>> = s /\ <<>> \o s = s /\ <<>> \in Seq(Items)
OBVIOUS

LEMMA ConcatMoves ==
    ASSUME NEW s \in Seq(Items), NEW t \in Seq(Items), t # <<>>
    PROVE  Append(s, Head(t)) \o Tail(t) = s \o t
OBVIOUS

LEMMA ConcatSuffix ==
    ASSUME NEW s \in Seq(Items), NEW t \in Seq(Items), NEW n \in Nat, n <= Len(s)
    PROVE  /\ SubSeq(s, n + 1, Len(s)) \o t = SubSeq(s \o t, n + 1, Len(s \o t))
           /\ n <= Len(s \o t) /\ s \o t \in Seq(Items)
<1>1. PICK l \in Nat, m \in Nat, u \in Seq(Items) : l = Len(s) /\ m = Len(t) /\ u = s \o t
  BY ConcatFacts
<1>2. /\ Len(u) = l + m
      /\ \A i \in 1 .. l : u[i] = s[i]
      /\ \A i \in 1 .. m : u[l + i] = t[i]
  BY <1>1, ConcatFacts
<1>3. PICK a \in Seq(Items), b \in Seq(Items) :
          a = SubSeq(s, n + 1, l) /\ b = SubSeq(u, n + 1, l + m)
  <2>1. n <= l /\ l <= Len(s) /\ n <= l + m /\ l + m <= Len(u) /\ l + m \in Nat
    BY <1>1, <1>2
  <2> QED
    BY <2>1, SubSeqFacts
<1>4. Len(a) = l - n /\ \A k \in 1 .. l - n : a[k] = s[n + k]
  BY <1>1, <1>3, SubSeqFacts
<1>5. Len(b) = l + m - n /\ \A k \in 1 .. l + m - n : b[k] = u[n + k]
  <2>1. n <= l + m /\ l + m <= Len(u) /\ l + m \in Nat
    BY <1>1, <1>2
  <2> QED
    BY <1>3, <2>1, SubSeqFacts
<1>6. PICK e \in Seq(Items) : e = a \o t
  BY ConcatFacts
<1>7. /\ Len(e) = (l - n) + m
      /\ \A k \in 1 .. l - n : e[k] = a[k]
      /\ \A k \in 1 .. m : e[(l - n) + k] = t[k]
  <2>1. /\ Len(e) = Len(a) + Len(t)
        /\ \A k \in 1 .. Len(a) : e[k] = a[k]
        /\ \A k \in 1 .. Len(t) : e[Len(a) + k] = t[k]
    BY <1>6, ConcatFacts
  <2> QED
    BY <1>1, <1>4, <2>1, Zenon
<1>8. ASSUME NEW k \in 1 .. l + m - n PROVE e[k] = b[k]
  <2>1. CASE k \in 1 .. l - n
    <3>1. n + k \in 1 .. l
      BY <2>1
    <3> QED
      BY <1>2, <1>4, <1>5, <1>7, <2>1, <3>1
  <2>2. CASE k \notin 1 .. l - n
    <3>1. n <= l
      BY <1>1
    <3>2. PICK j \in Int : j = k - (l - n)
      OBVIOUS
    <3>3. j \in 1 .. m /\ k = (l - n) + j /\ n + k = l + j
      BY <2>2, <3>1, <3>2
    <3>4. e[k] = t[j] /\ u[n + k] = t[j]
      BY <1>2, <1>7, <3>3, Zenon
    <3> QED
      BY <1>5, <3>4
  <2> QED
    BY <2>1, <2>2
<1>9. e = b
  <2>1. Len(e) = l + m - n /\ Len(e) = Len(b)
    BY <1>5, <1>7
  <2>2. \A k \in 1 .. Len(e) : e[k] = b[k]
    BY <1>8, <2>1, Zenon
  <2> QED
    BY <2>1, <2>2
<1> QED
  <2>1. SubSeq(s \o t, n + 1, Len(s \o t)) = b
    BY <1>1, <1>2, <1>3, Zenon
  <2>2. SubSeq(s, n + 1, Len(s)) \o t = e
    BY <1>1, <1>3, <1>6, Zenon
  <2>3. n <= Len(u)
    BY <1>1, <1>2
  <2> QED
    BY <1>1, <1>9, <2>1, <2>2, <2>3, Zenon

LEMMA BaseSame ==
    ASSUME NEW c \in Clients, Base(c), ServerSameAt(c), ClientSameAt(c)
    PROVE  Base(c)'
<1> USE DEF ServerSameAt, ClientSameAt
<1>1. Linked(c)'
  BY Zenon DEF Base, Linked
<1>2. Sound(c)' /\ WholeSoFar(c)' /\ (leftover'[c] => c \in Pages)
  BY Zenon DEF Base, Sound, WholeSoFar
<1> QED
  BY <1>1, <1>2 DEF Base

\* The client did nothing to the connection but, at most, write to it.
LEMMA LinkedSent ==
    ASSUME NEW c \in Clients, Linked(c),
           link'[c] = link[c], thread'[c] = thread[c], toClient'[c] = toClient[c],
           pending'[c] = pending[c], cut'[c] = cut[c], connected'[c] = connected[c],
           link[c] # "open" => toServer'[c] = toServer[c]
    PROVE  Linked(c)'
BY DEF Linked

\* The stream, and what is still to come, are framed after a step.
LEMMA ServerSound ==
    ASSUME TypeOK, NEW c \in Clients, Linked(c), Sound(c), ServerStep(c)
    PROVE  Linked(c)' /\ Sound(c)' /\ (cut'[c] # cut[c] => cut[c] = "no")
<1> DEFINE s == toClient[c]
           p == pending[c]
<1>1. s \in Seq(Items) /\ p \in Seq(Items)
  BY DEF TypeOK, StreamsTyped, ServerTypeOK
<1>2. connected' = connected
  BY DEF ServerStep, clientVars
<1>3. CASE HandleGet(c)
  <2>1. PICK d \in Directories : Reads(c, Get(d)) /\ pending' = [pending EXCEPT ![c] = Reply(d)]
    BY <1>3 DEF HandleGet, Reply
  <2>2. /\ thread'[c] = "sending" /\ pending'[c] = Reply(d)
        /\ link'[c] = link[c] /\ toClient'[c] = s /\ cut'[c] = cut[c]
        /\ thread[c] = "reading"
    <3>1. thread' = [thread EXCEPT ![c] = "sending"] /\ UNCHANGED <<link, toClient, cut>>
      BY <1>3 DEF HandleGet
    <3> QED
      BY <2>1, <3>1 DEF TypeOK, StreamsTyped, ServerTypeOK, Reads
  <2>3. Linked(c)'
    BY <1>2, <2>2 DEF Linked
  <2>4. p = <<>>
    BY <2>2 DEF Linked
  <2>5. ASSUME cut[c] # "crash" PROVE Framed(s \o Reply(d))
    <3>1. Framed(s)
      BY <1>1, <2>4, <2>5, ConcatNothing DEF Sound
    <3> QED
      BY <1>1, <3>1, FramedReply, FramedConcat, ReplyItems
  <2> QED
    BY <2>2, <2>3, <2>5 DEF Sound
<1>4. CASE HandleGetAbsent(c)
  <2>1. /\ toClient'[c] = IF link[c] = "none" THEN s ELSE Append(s, Error)
        /\ link'[c] = link[c] /\ thread'[c] = thread[c] /\ thread[c] = "reading"
        /\ pending'[c] = p /\ cut'[c] = cut[c]
    BY <1>4 DEF HandleGetAbsent, TypeOK, StreamsTyped, Reads
  <2>2. Linked(c)'
    BY <1>2, <2>1 DEF Linked
  <2>3. p = <<>>
    BY <2>1 DEF Linked
  <2>4. Append(s, Error) = s \o <<Error>> /\ <<Error>> \in Seq(Items) /\ s \o <<Error>> \in Seq(Items)
    <3>1. PICK e \in Items : e = Error
      BY ItemKinds
    <3>2. Append(s, e) = s \o <<e>> /\ <<e>> \in Seq(Items) /\ s \o <<e>> \in Seq(Items)
      BY <1>1
    <3> QED
      BY <3>1, <3>2
  <2>5. ASSUME cut[c] # "crash" PROVE Framed(toClient'[c] \o p)
    <3>1. Framed(s)
      BY <1>1, <2>3, <2>5, ConcatNothing DEF Sound
    <3>2. Framed(s \o <<Error>>)
      BY <1>1, <2>4, <3>1, FramedNothing, FramedConcat
    <3>3. toClient'[c] \in Seq(Items) /\ Framed(toClient'[c])
      BY <1>1, <2>1, <2>4, <3>1, <3>2
    <3> QED
      BY <2>3, <3>3, ConcatNothing
  <2> QED
    BY <2>1, <2>2, <2>5 DEF Sound
<1>5. ASSUME NEW words \in Seq(Items), Framed(words), Finish(c, words), thread[c] # "none",
             \/ cut'[c] = cut[c] /\ (p = <<>> \/ link[c] = "none")
             \/ cut'[c] = "unreadable" /\ p # <<>> /\ IsHeader(Head(p)) /\ words = <<>>
      PROVE  Linked(c)' /\ Sound(c)' /\ (cut'[c] # cut[c] => cut[c] = "no")
  <2>1. /\ thread'[c] = "none" /\ pending'[c] = <<>> /\ toServer'[c] = <<>>
        /\ link[c] = "none" => link'[c] = "none" /\ toClient'[c] = toClient[c]
        /\ link[c] # "none" =>
              \/ link'[c] = "ended" /\ toClient'[c] = toClient[c] \o words
              \/ link'[c] = "reset" /\ toClient'[c] = <<>>
    BY <1>5, FinishAt
  <2>2. Linked(c)'
    BY <1>2, <2>1 DEF Linked
  <2>3. cut[c] = "no"
    BY <1>5 DEF Linked
  <2>4. Framed(s \o p)
    BY <2>3 DEF Sound
  <2>5. link[c] # "none" => Framed(s)
    BY <1>1, <1>5, <2>4, FramedPrefix, ConcatNothing
  <2>6. link[c] = "none" => toClient'[c] = <<>>
    BY <2>1 DEF Linked
  <2>7. link[c] # "none" => toClient'[c] = s \o words \/ toClient'[c] = <<>>
    BY <2>1
  <2>8. toClient'[c] \in Seq(Items) /\ Framed(toClient'[c])
    <3>1. s \o words \in Seq(Items) /\ (link[c] # "none" => Framed(s \o words))
      BY <1>1, <1>5, <2>5, FramedConcat, ConcatFacts
    <3> QED
      BY <1>1, <2>6, <2>7, <3>1, FramedNothing, ConcatNothing
  <2>9. Framed(toClient'[c] \o pending'[c])
    BY <2>1, <2>8, ConcatNothing
  <2> QED
    BY <2>2, <2>3, <2>9 DEF Sound
<1>6. <<>> \in Seq(Items) /\ <<Error>> \in Seq(Items)
  BY SequenceFacts, ItemKinds
<1>7. CASE HandleExit(c) \/ HandleInvalid(c)
  <2>1. thread[c] = "reading" /\ p = <<>> /\ cut'[c] = cut[c]
    BY <1>7 DEF HandleExit, HandleInvalid, Reads, Linked
  <2> QED
    BY <1>5, <1>6, <1>7, <2>1, FramedNothing DEF HandleExit, HandleInvalid
<1>8. CASE Write(c)
  <2>1. /\ p # <<>> /\ thread[c] = "sending"
        /\ toClient'[c] = Append(s, Head(p)) /\ pending'[c] = Tail(p)
        /\ link'[c] = link[c] /\ thread'[c] = thread[c] /\ link[c] = "open"
        /\ toServer'[c] = toServer[c] /\ cut'[c] = cut[c]
    BY <1>8 DEF Write, TypeOK, StreamsTyped, ServerTypeOK
  <2>2. Linked(c)'
    BY <1>2, <2>1 DEF Linked
  <2>3. toClient'[c] \o pending'[c] = s \o p
    BY <1>1, <2>1, ConcatMoves
  <2> QED
    BY <2>1, <2>2, <2>3 DEF Sound
<1>9. CASE Sent(c)
  BY <1>5, <1>6, <1>9, FramedNothing DEF Sent
<1>10. CASE EndOfStream(c)
  BY <1>5, <1>6, <1>10, FramedNothing DEF EndOfStream
<1>11. CASE Unreadable(c)
  <2>1. cut'[c] = "unreadable"
    BY <1>11 DEF Unreadable, TypeOK, ServerTypeOK
  <2> QED
    BY <1>5, <1>6, <1>11, <2>1, FramedNothing DEF Unreadable
<1> QED
  BY <1>3, <1>4, <1>7, <1>8, <1>9, <1>10, <1>11 DEF ServerStep, Serve

LEMMA ServerBase ==
    ASSUME TypeOK, NEW c \in Clients, Base(c), ServerStep(c)
    PROVE  Base(c)'
<1>1. received' = received /\ leftover' = leftover
  BY DEF ServerStep, clientVars
<1>2. Linked(c)' /\ Sound(c)' /\ (cut'[c] # cut[c] => cut[c] = "no")
  BY ServerSound DEF Base
<1> QED
  BY <1>1, <1>2 DEF Base, WholeSoFar

LEMMA CrashBase ==
    ASSUME TypeOK, NEW c \in Clients, Base(c), Crash
    PROVE  Base(c)'
<1>1. connected' = connected /\ received' = received /\ leftover' = leftover
  BY DEF Crash, clientVars
<1>2. PICK resets \in SUBSET {i \in Clients : thread[i] # "none" /\ link[i] = "open"} :
          /\ \A i \in Clients : link[i] = "open" /\ toServer[i] # <<>> => i \in resets
          /\ link' = [i \in Clients |->
                IF i \in resets THEN "reset" ELSE IF link[i] = "open" THEN "ended" ELSE link[i]]
          /\ toClient' = [i \in Clients |-> IF i \in resets THEN <<>> ELSE toClient[i]]
  BY Zenon DEF Crash
<1>3. /\ thread'[c] = "none" /\ toServer'[c] = <<>> /\ pending'[c] = <<>>
      /\ thread[c] # "none" => cut'[c] = "crash"
      /\ thread[c] = "none" => cut'[c] = cut[c]
  BY DEF Crash
<1>4. /\ link'[c] \in {"ended", "reset"} \/ link'[c] = link[c]
      /\ link[c] = "none" <=> link'[c] = "none"
      /\ link'[c] # "open"
      /\ link'[c] = "reset" => toClient'[c] = <<>> \/ (link[c] = "reset" /\ toClient'[c] = toClient[c])
      /\ link'[c] = "none" => toClient'[c] = toClient[c]
      /\ thread[c] = "none" => toClient'[c] = toClient[c]
  BY <1>2
<1>5. Linked(c)'
  BY <1>1, <1>3, <1>4 DEF Base, Linked
<1>6. Sound(c)' /\ WholeSoFar(c)'
  BY <1>1, <1>3, <1>4 DEF Base, Linked, Sound, WholeSoFar
<1> QED
  BY <1>1, <1>5, <1>6 DEF Base

LEMMA ConnectBase ==
    ASSUME TypeOK, NEW c \in Clients, Base(c), Connect(c)
    PROVE  Base(c)'
<1>1. CASE Client!ConnectSucceeds(c) /\ cut' = [cut EXCEPT ![c] = "no"] /\ UNCHANGED pending
  <2>1. /\ connected'[c] = TRUE /\ link'[c] = "open" /\ thread'[c] = "reading"
        /\ toServer'[c] = <<>> /\ toClient'[c] = <<>> /\ leftover'[c] = FALSE
        /\ cut'[c] = "no" /\ pending'[c] = pending[c] /\ thread[c] = "none"
    BY <1>1 DEF Client!ConnectSucceeds, TypeOK, StreamsTyped, ServerTypeOK, Client!ClientTypeOK
  <2>2. received'[c] = {}
    BY <1>1, BeginsAt DEF Client!ConnectSucceeds
  <2>3. pending[c] = <<>>
    BY <2>1 DEF Base, Linked
  <2>4. <<>> \o <<>> = <<>>
    OBVIOUS
  <2>5. Sound(c)' /\ WholeSoFar(c)'
    BY <2>1, <2>2, <2>3, <2>4, FramedNothing DEF Sound, WholeSoFar
  <2>6. Linked(c)'
    BY <2>1, <2>3 DEF Linked
  <2> QED
    BY <2>1, <2>5, <2>6 DEF Base
<1>2. CASE Client!ConnectDoesNothing(c) /\ UNCHANGED serverVars
  <2>1. ServerSameAt(c) /\ connected'[c] = connected[c] /\ leftover'[c] = leftover[c]
    BY <1>2 DEF Client!ConnectDoesNothing, Client!streams, serverVars, ServerSameAt
  <2>2. received'[c] = {}
    BY <1>2, BeginsAt DEF Client!ConnectDoesNothing
  <2>3. Linked(c)'
    BY <2>1, Zenon DEF Base, Linked, ServerSameAt
  <2>4. Sound(c)' /\ WholeSoFar(c)'
    BY <2>1, <2>2, Zenon DEF Base, Sound, WholeSoFar, ServerSameAt
  <2> QED
    BY <2>1, <2>3, <2>4 DEF Base
<1> QED
  BY <1>1, <1>2 DEF Connect

\* A step of the client that takes no file.
LEMMA StreamKept ==
    ASSUME TypeOK, NEW c \in Clients, Base(c),
           pending'[c] = pending[c], cut'[c] = cut[c],
           toClient'[c] = toClient[c] \/ (toClient'[c] = <<>> /\ thread[c] = "none"),
           received'[c] = received[c] \/ received'[c] = {}
    PROVE  Sound(c)' /\ WholeSoFar(c)'
<1>1. WholeSoFar(c)'
  BY DEF Base, WholeSoFar
<1>2. CASE toClient'[c] = toClient[c]
  BY <1>1, <1>2, Zenon DEF Base, Sound
<1>3. CASE toClient'[c] = <<>> /\ thread[c] = "none"
  <2>1. pending'[c] = <<>>
    BY <1>3 DEF Base, Linked
  <2>2. <<>> \o <<>> = <<>>
    OBVIOUS
  <2> QED
    BY <1>1, <1>3, <2>1, <2>2, FramedNothing DEF Sound
<1> QED
  BY <1>2, <1>3

\* The stream of a client that leaves is gone, whatever the thread is at.
LEMMA StreamLeft ==
    ASSUME TypeOK, NEW c \in Clients, Base(c),
           pending'[c] = pending[c], cut'[c] = cut[c], toClient'[c] = <<>>,
           received'[c] = received[c] \/ received'[c] = {}
    PROVE  Sound(c)' /\ WholeSoFar(c)'
<1>1. WholeSoFar(c)'
  BY DEF Base, WholeSoFar
<1>2. PICK s \in Seq(Items), p \in Seq(Items) : s = toClient[c] /\ p = pending[c]
  BY DEF TypeOK, StreamsTyped, ServerTypeOK
<1>3. PICK n \in Nat : n = Len(s)
  BY SequenceFacts
<1>4. /\ s \o p \in Seq(Items) /\ n <= Len(s \o p)
      /\ SubSeq(s \o p, n + 1, Len(s \o p)) = SubSeq(s, n + 1, Len(s)) \o p
  BY <1>3, ConcatSuffix
<1>5. SubSeq(s, n + 1, Len(s)) \o p = p
  BY <1>3, SubSeqEmpty, ConcatNothing
<1>6. cut[c] # "crash" => Framed(p)
  BY <1>2, <1>4, <1>5, FramedSuffix DEF Base, Sound
<1>7. Sound(c)'
  BY <1>2, <1>6, ConcatNothing DEF Sound
<1> QED
  BY <1>1, <1>7

\* A file that is next in the stream is there as a whole, unless the server
\* died; what comes after it is framed.
LEMMA FileFramed ==
    ASSUME TypeOK, NEW c \in Clients, Base(c), cut[c] # "crash",
           toClient[c] # <<>>, IsHeader(Head(toClient[c])),
           NEW f, f = Head(toClient[c])[2],
           NEW n, n = Client!Min({Client!Blocks(Tail(toClient[c]), f), Size[f]}),
           n = Size[f] \/ link[c] = "ended"
    PROVE  /\ n = Size[f]
           /\ Framed(SubSeq(toClient[c], n + 2, Len(toClient[c])) \o pending[c])
<1>1. PICK s \in Seq(Items), p \in Seq(Items) : s = toClient[c] /\ p = pending[c]
  BY DEF TypeOK, StreamsTyped, ServerTypeOK
<1>2. /\ f \in Files /\ s[1] = Header(f)
      /\ n \in Nat /\ n <= Size[f] /\ n + 1 <= Len(s)
      /\ n < Size[f] => n + 1 = Len(s) \/ s[n + 2] # Block(f)
  BY <1>1, FileNext, Zenon
<1>3. PICK size \in Nat, k \in Nat, long \in Nat : size = Size[f] /\ k = n /\ long = Len(s)
  BY <1>2, ListingAssumption, SequenceFacts
<1>4. Framed(s \o p)
  BY <1>1 DEF Base, Sound
<1>5. ASSUME n # Size[f] PROVE FALSE
  <2>1. thread[c] = "none" /\ p = <<>>
    BY <1>1, <1>5 DEF Base, Linked
  <2>2. Framed(s)
    BY <1>4, <2>1, ConcatNothing
  <2>3. 1 \in 1 .. long
    BY <1>2, <1>3
  <2>4. 1 + size <= long /\ \A j \in 1 .. size : s[1 + j] = Block(f)
    BY <1>2, <1>3, <2>2, <2>3 DEF Framed
  <2>5. k < size
    BY <1>2, <1>3, <1>5
  <2>6. k + 1 \in 1 .. size /\ k + 1 # long /\ 1 + (k + 1) = k + 2
    BY <2>4, <2>5
  <2>7. s[k + 2] = Block(f)
    BY <2>4, <2>6
  <2> QED
    BY <1>2, <1>3, <2>5, <2>6, <2>7, Zenon
<1>6. Framed(SubSeq(s, k + 2, Len(s)) \o p)
  <2>1. PICK m \in Nat : m = k + 1
    OBVIOUS
  <2>2. m <= Len(s) /\ m + 1 = k + 2
    BY <1>2, <1>3, <2>1
  <2>3. /\ SubSeq(s, m + 1, Len(s)) \o p = SubSeq(s \o p, m + 1, Len(s \o p))
        /\ m <= Len(s \o p) /\ s \o p \in Seq(Items)
    BY <2>2, ConcatSuffix
  <2>4. Framed(SubSeq(s \o p, m + 1, Len(s \o p)))
    BY <1>4, <2>3, FramedSuffix
  <2> QED
    BY <2>2, <2>3, <2>4, Zenon
<1> QED
  BY <1>1, <1>3, <1>5, <1>6, Zenon

LEMMA ReceiveFileBase ==
    ASSUME TypeOK, NEW c \in Clients, Base(c),
           Client!ReceiveFile(c) \/ Client!ReceiveFileFails(c), UNCHANGED serverVars
    PROVE  Base(c)'
<1>1. PICK f, n : /\ f = Head(toClient[c])[2]
                  /\ n = Client!Min({Client!Blocks(Tail(toClient[c]), f), Size[f]})
  OBVIOUS
<1>2. /\ toClient[c] # <<>> /\ IsHeader(Head(toClient[c]))
      /\ n = Size[f] \/ link[c] = "ended"
  BY <1>1, ClientItems DEF Client!ReceiveFile, Client!ReceiveFileFails
<1>3. pending'[c] = pending[c] /\ cut'[c] = cut[c]
  BY DEF serverVars
<1>4. cut[c] # "crash" =>
          /\ n = Size[f]
          /\ Framed(SubSeq(toClient[c], n + 2, Len(toClient[c])) \o pending[c])
  BY <1>1, <1>2, FileFramed
<1>5. Linked(c) /\ link[c] # "none" /\ link[c] # "reset"
  BY <1>2 DEF Base, Linked
<1>6. CASE Client!ReceiveFile(c)
  <2>1. /\ toClient' = [toClient EXCEPT ![c] = SubSeq(@, n + 2, Len(@))]
        /\ received' = [received EXCEPT ![c] = @ \cup {<<f, n>>}]
        /\ UNCHANGED <<link, thread, toServer, connected, step, wanted, outcome, leftover>>
    BY <1>1, <1>6 DEF Client!ReceiveFile
  <2>2. /\ toClient'[c] = SubSeq(toClient[c], n + 2, Len(toClient[c]))
        /\ received'[c] = received[c] \cup {<<f, n>>}
    BY <2>1 DEF TypeOK, StreamsTyped, Client!ClientTypeOK
  <2>3. Linked(c)'
    BY <1>3, <1>5, <2>1 DEF Linked
  <2>4. Sound(c)'
    BY <1>3, <1>4, <2>2, Zenon DEF Sound
  <2>5. <<f, n>>[1] = f /\ <<f, n>>[2] = n
    OBVIOUS
  <2>6. WholeSoFar(c)'
    BY <1>3, <1>4, <2>2, <2>5, Zenon DEF Base, WholeSoFar
  <2> QED
    BY <2>1, <2>3, <2>4, <2>6 DEF Base
<1>7. CASE Client!ReceiveFileFails(c)
  <2>1. /\ toClient' = [toClient EXCEPT ![c] =
                           IF c \in Pages THEN SubSeq(@, n + 2, Len(@)) ELSE <<>>]
        /\ Client!Throws(c) /\ leftover' = [leftover EXCEPT ![c] = c \in Pages]
        /\ UNCHANGED <<thread, toServer, wanted, received>>
    BY <1>1, <1>7 DEF Client!ReceiveFileFails
  <2>2. /\ c \in Pages => toClient'[c] = SubSeq(toClient[c], n + 2, Len(toClient[c]))
        /\ c \notin Pages => toClient'[c] = <<>>
        /\ leftover'[c] = (c \in Pages)
    BY <2>1 DEF TypeOK, StreamsTyped, Client!ClientTypeOK
  <2>3. /\ c \in Pages => connected'[c] = connected[c] /\ link'[c] = link[c]
        /\ c \notin Pages => connected'[c] = FALSE /\ link'[c] = "none"
    BY <2>1 DEF Client!Throws, TypeOK, StreamsTyped, Client!ClientTypeOK
  <2>4. Linked(c)'
    BY <1>3, <1>5, <2>1, <2>2, <2>3 DEF Linked
  <2>5. c \notin Pages => Sound(c)' /\ WholeSoFar(c)'
    BY <1>3, <2>1, <2>2, StreamLeft
  <2>6. c \in Pages => Sound(c)'
    BY <1>3, <1>4, <2>2, Zenon DEF Sound
  <2>7. WholeSoFar(c)'
    BY <1>3, <2>1 DEF Base, WholeSoFar
  <2> QED
    BY <2>2, <2>4, <2>5, <2>6, <2>7 DEF Base
<1> QED
  BY <1>6, <1>7

LEMMA ClientBase ==
    ASSUME TypeOK, NEW c \in Clients, Base(c), ClientStep(c)
    PROVE  Base(c)'
<1> USE DEF TypeOK, StreamsTyped, Client!ClientTypeOK
<1>1. pending' = pending /\ cut' = cut /\ UNCHANGED serverVars
  BY DEF ClientStep, serverVars
<1>2. Linked(c) /\ (leftover[c] => c \in Pages)
  BY DEF Base
<1>3. ASSUME NEW d, Client!GetDirectory(c, d) PROVE Base(c)'
  <2>1. /\ thread' = thread /\ received' = received /\ leftover' = leftover
        /\ \/ UNCHANGED <<link, connected, toServer, toClient>>
           \/ /\ Client!Throws(c) /\ link[c] = "reset" /\ UNCHANGED <<toServer, toClient>>
           \/ /\ connected[c] /\ link[c] # "reset" /\ UNCHANGED <<link, toClient, connected>>
              /\ Client!Send(c, Client!Get(d))
           \/ /\ connected[c] /\ link[c] = "ended" /\ link' = [link EXCEPT ![c] = "reset"]
              /\ toClient' = [toClient EXCEPT ![c] = <<>>] /\ UNCHANGED connected
              /\ Client!Send(c, Client!Get(d))
    BY <1>3 DEF Client!GetDirectory, Client!Returns
  <2>2. Linked(c)' /\ (toClient'[c] = toClient[c] \/ (toClient'[c] = <<>> /\ thread[c] = "none"))
    <3>1. CASE UNCHANGED <<link, connected, toServer, toClient>>
      <4>1. /\ link'[c] = link[c] /\ thread'[c] = thread[c] /\ toClient'[c] = toClient[c]
            /\ pending'[c] = pending[c] /\ cut'[c] = cut[c] /\ connected'[c] = connected[c]
            /\ toServer'[c] = toServer[c]
        BY <1>1, <2>1, <3>1
      <4> QED
        BY <1>2, <4>1, LinkedSent, Zenon
    <3>2. CASE Client!Throws(c) /\ link[c] = "reset" /\ UNCHANGED <<toServer, toClient>>
      <4>1. /\ connected'[c] = (connected[c] /\ c \in Pages)
            /\ link'[c] = IF c \in Pages THEN link[c] ELSE "none"
        BY <3>2 DEF Client!Throws
      <4> QED
        BY <1>1, <1>2, <2>1, <3>2, <4>1 DEF Linked
    <3>3. CASE /\ connected[c] /\ link[c] # "reset" /\ UNCHANGED <<link, toClient, connected>>
               /\ Client!Send(c, Client!Get(d))
      <4>1. link[c] # "open" => toServer'[c] = toServer[c]
        BY <3>3, SendAt
      <4> QED
        <5>1. /\ link'[c] = link[c] /\ thread'[c] = thread[c] /\ toClient'[c] = toClient[c]
              /\ pending'[c] = pending[c] /\ cut'[c] = cut[c] /\ connected'[c] = connected[c]
          BY <1>1, <2>1, <3>3
        <5> QED
          BY <1>2, <4>1, <5>1, LinkedSent, Zenon
    <3>4. CASE /\ connected[c] /\ link[c] = "ended" /\ link' = [link EXCEPT ![c] = "reset"]
               /\ toClient' = [toClient EXCEPT ![c] = <<>>] /\ UNCHANGED connected
               /\ Client!Send(c, Client!Get(d))
      <4>1. toServer'[c] = toServer[c] /\ link'[c] = "reset" /\ toClient'[c] = <<>>
        BY <3>4, SendAt
      <4>2. thread[c] = "none"
        BY <1>2, <3>4 DEF Linked
      <4> QED
        BY <1>1, <1>2, <2>1, <3>4, <4>1, <4>2 DEF Linked
    <3> QED
      BY <2>1, <3>1, <3>2, <3>3, <3>4
  <2>3. Sound(c)' /\ WholeSoFar(c)'
    BY <1>1, <2>1, <2>2, StreamKept
  <2> QED
    BY <1>2, <2>1, <2>2, <2>3 DEF Base
<1>4. CASE Client!SendInvalidMessage(c)
  <2>1. UNCHANGED <<link, thread, toClient, connected, received, leftover>>
    BY <1>4 DEF Client!SendInvalidMessage
  <2>2. link[c] # "open" => toServer'[c] = toServer[c]
    BY <1>4, SendAt DEF Client!SendInvalidMessage
  <2>3. Linked(c)'
    <3>1. /\ link'[c] = link[c] /\ thread'[c] = thread[c] /\ toClient'[c] = toClient[c]
          /\ pending'[c] = pending[c] /\ cut'[c] = cut[c] /\ connected'[c] = connected[c]
      BY <1>1, <2>1
    <3> QED
      BY <1>2, <2>2, <3>1, LinkedSent, Zenon
  <2>4. Sound(c)' /\ WholeSoFar(c)'
    BY <1>1, <2>1, StreamKept
  <2> QED
    BY <1>2, <2>1, <2>3, <2>4 DEF Base
<1>5. CASE Client!ReceiveEnd(c) \/ Client!ReceiveReset(c)
  <2>1. /\ UNCHANGED <<thread, toServer, received, leftover>>
        /\ toClient'[c] = toClient[c] \/ toClient'[c] = <<>>
        /\ link[c] = "ended" \/ link[c] = "reset"
    BY <1>5 DEF Client!ReceiveEnd, Client!ReceiveReset
  <2>2. \/ link' = link /\ connected' = connected
        \/ link[c] = "reset" /\ Client!Throws(c) /\ toClient'[c] = toClient[c]
    BY <1>5 DEF Client!ReceiveEnd, Client!ReceiveReset, Client!Returns
  <2>3. Client!Throws(c) =>
            /\ connected'[c] = (connected[c] /\ c \in Pages)
            /\ link'[c] = IF c \in Pages THEN link[c] ELSE "none"
    BY DEF Client!Throws
  <2>4. Linked(c)'
    BY <1>1, <1>2, <2>1, <2>2, <2>3 DEF Linked
  <2>5. thread[c] = "none"
    BY <1>2, <2>1 DEF Linked
  <2>6. Sound(c)' /\ WholeSoFar(c)'
    BY <1>1, <2>1, <2>5, StreamKept
  <2> QED
    BY <1>2, <2>1, <2>4, <2>6 DEF Base
<1>6. CASE Client!Disconnect(c) \/ Client!Kill(c)
  <2>1. /\ connected'[c] = FALSE /\ link'[c] = "none" /\ toClient'[c] = <<>>
        /\ thread' = thread /\ leftover' = leftover
    BY <1>6 DEF Client!Disconnect, Client!Kill
  <2>2. link[c] # "open" => toServer'[c] = toServer[c]
    BY <1>6, SendAt DEF Client!Disconnect, Client!Kill
  <2>3. received'[c] = {}
    BY <1>6, BeginsAt DEF Client!Disconnect, Client!Kill
  <2>4. Linked(c)'
    BY <1>1, <1>2, <2>1, <2>2 DEF Linked
  <2>5. Sound(c)' /\ WholeSoFar(c)'
    BY <1>1, <2>1, <2>3, StreamLeft
  <2> QED
    BY <1>2, <2>1, <2>4, <2>5 DEF Base
<1> QED
  BY <1>1, <1>3, <1>4, <1>5, <1>6, ReceiveFileBase DEF ClientStep, Client!Receive

LEMMA InvNext == IInv /\ [Next]_vars => IInv'
<1> SUFFICES ASSUME IInv, [Next]_vars PROVE IInv'
  OBVIOUS
<1>1. TypeOK /\ \A c \in Clients : Base(c) /\ (~leftover[c] => Kept(c))
  BY DEF IInv
<1>2. TypeOK'
  BY <1>1, TypedNext
<1>3. ASSUME NEW c \in Clients PROVE Base(c)' /\ (~leftover'[c] => Kept(c)')
  <2>1. Base(c) /\ Linked(c) /\ (~leftover[c] => Kept(c))
    BY <1>1 DEF Base
  <2>2. ASSUME Connect(c) PROVE Base(c)' /\ (~leftover'[c] => Kept(c)')
    BY <1>1, <2>1, <2>2, ConnectKeeps, ConnectBase
  <2>3. ASSUME ClientStep(c) PROVE Base(c)' /\ (~leftover'[c] => Kept(c)')
    <3>1. leftover[c] => leftover'[c]
      BY <1>1, <2>1, <2>3 DEF ClientStep, Client!GetDirectory, Client!SendInvalidMessage,
         Client!Receive, Client!ReceiveFile, Client!ReceiveEnd, Client!ReceiveReset,
         Client!ReceiveFileFails, Client!Disconnect, Client!Kill, Base, TypeOK,
         Client!ClientTypeOK
    <3> QED
      BY <1>1, <2>1, <2>3, <3>1, ClientKeeps, ClientBase
  <2>4. ASSUME ServerStep(c) PROVE Base(c)' /\ (~leftover'[c] => Kept(c)')
    <3>1. leftover'[c] = leftover[c]
      BY <2>4 DEF ServerStep, clientVars
    <3> QED
      BY <1>1, <2>1, <2>4, <3>1, ServerKeeps, ServerBase
  <2>5. CASE Crash
    <3>1. leftover'[c] = leftover[c]
      BY <2>5 DEF Crash, clientVars
    <3> QED
      BY <1>1, <2>1, <2>5, <3>1, CrashKeeps, CrashBase
  <2>6. ASSUME ServerSameAt(c), ClientSameAt(c) PROVE Base(c)' /\ (~leftover'[c] => Kept(c)')
    <3>1. leftover'[c] = leftover[c]
      BY <2>6 DEF ClientSameAt
    <3> QED
      BY <2>1, <2>6, <3>1, KeptSame, BaseSame
  <2>7. ASSUME NEW i \in Clients, i # c, Connect(i) \/ ClientStep(i) \/ ServerStep(i)
        PROVE  Base(c)' /\ (~leftover'[c] => Kept(c)')
    BY <1>1, <2>6, <2>7, ClientElsewhere, ServerElsewhere
  <2>8. CASE UNCHANGED vars
    BY <2>6, <2>8 DEF vars, streams, serverVars, clientVars, ServerSameAt, ClientSameAt
  <2> QED
    BY <2>2, <2>3, <2>4, <2>5, <2>7, <2>8 DEF Next
<1> QED
  BY <1>2, <1>3 DEF IInv

\* Every file a client writes is whole unless the server died, and it is one
\* of the directory it asked for unless the client is a page that gave up an
\* answer before: a header is never taken for content nor content for a
\* header, however the stream is cut and wherever a reader stops.
THEOREM FilesAreWholeHolds == Spec => []FilesAreWhole
<1>1. IInv => FilesAreWhole
  BY DEF IInv, Base, WholeSoFar, Kept, FilesWhole, FilesAreWhole
<1> QED
  BY <1>1, InvInit, InvNext, PTL DEF Spec

\* GetDirectory comes back to a connected program with the whole directory,
\* unless the server died or could not read a file: the end of the stream,
\* which the client takes for the end of the reply, never comes before it.
THEOREM ReturnsWholeHolds == Spec => []ReturnsWhole
<1>1. IInv => ReturnsWhole
  BY DEF IInv, Base, Kept, ReturnWhole, ReturnsWhole
<1> QED
  BY <1>1, InvInit, InvNext, PTL DEF Spec

===============================================================================
